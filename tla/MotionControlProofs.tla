-------------------------- MODULE MotionControlProofs -------------------------
(***************************************************************************)
(* Proofs about ArmPolicy, for any arms, motors, axes and thresholds, and  *)
(* about MotionControl, which extends it, for any motors and any order of  *)
(* them.                                                                   *)
(*                                                                         *)
(* The proofs about the policy rest on one lemma about one motor,          *)
(* MotorStep: if what the policy remembers of the motor agrees with what   *)
(* it told it, then so it does after one more decision, and the motor      *)
(* moves exactly if its arm is unlocked and its axis is active.            *)
(*                                                                         *)
(* An action of MotionControl writes registers and caches of motors, one   *)
(* like the other, so the invariant is a statement about the pair of a     *)
(* register and its cache (Exclusive, Safe, Follows), and every action is  *)
(* shown to make new pairs out of old ones in ways that keep it.           *)
(***************************************************************************)
EXTENDS MotionControl, TLAPS

(***************************************************************************)
(* ArmPolicy                                                               *)
(***************************************************************************)

Agree(r, t) ==
    r.wasActive = t.moving /\ r.lastAxis = t.axis /\ r.lastDirection = t.direction

Remembered ==
    /\ MemoryIsWhatWasTold
    /\ \A m \in Motors : ~told[m].moving => told[m] = Standing

IInv == TypeOK /\ Remembered /\ LockedMeansStopped

-----------------------------------------------------------------------------
(* One motor.                                                              *)

\* The direction and the threshold test of a deflection are well-typed.
LEMMA DeflectionFacts ==
    ASSUME NEW v \in Deflection
    PROVE  /\ v \in Int
           /\ Direction(v) \in Directions
           /\ Active(v) \in BOOLEAN
BY PolicyAssumption DEF Deflection, Direction, Directions, Active

\* An intent of appendSpeedIntent is well-typed, and so is the memory it leaves.
LEMMA IntentType ==
    ASSUME NEW r \in Runtimes, NEW s \in ArmStates, NEW v \in Deflection
    PROVE  Intent(r, s, v) \in Intents /\ NextRuntime(r, s, v) \in Runtimes
<1> USE DeflectionFacts
<1>1. NoIntent \in Intents /\ Stop \in Intents
  BY DEF NoIntent, Stop, Intents
<1>2. Idle \in Runtimes /\ Driven(v) \in Runtimes
  BY DEF Idle, Driven, Runtimes
<1>3. s # "Locked" => Start(v, s) \in Intents /\ Adjust(r, s, v) \in Intents
  BY <1>1 DEF Start, Adjust, Intents, ArmStates
<1>4. [r EXCEPT !.lastDirection = Direction(v)] \in Runtimes
  BY DEF Runtimes
<1>5. Intent(r, s, v) \in Intents
  BY <1>1, <1>3 DEF Intent
<1>6. NextRuntime(r, s, v) \in Runtimes
  BY <1>2, <1>4 DEF NextRuntime
<1> QED BY <1>5, <1>6

\* Applying an intent leaves a well-typed movement.
LEMMA ApplyType ==
    ASSUME NEW t \in Movements, NEW i \in Intents
    PROVE  Apply(t, i) \in Movements
BY DEF Apply, Movements, Intents, Standing

\* The fields of the fixed records.
LEMMA FixedRecords ==
    /\ Stop.act = "stop" /\ NoIntent.act = "none"
    /\ \A v, s : Start(v, s).act = "start"
    /\ Standing.moving = FALSE /\ Standing.axis = None /\ Standing.direction = None
    /\ Idle.wasActive = FALSE /\ Idle.lastAxis = None /\ Idle.lastDirection = None
    /\ Agree(Idle, Standing)
<1>1. /\ Stop.act = "stop" /\ NoIntent.act = "none"
      /\ \A v, s : Start(v, s).act = "start"
  BY DEF Stop, NoIntent, Start
<1>2. Standing.moving = FALSE /\ Standing.axis = None /\ Standing.direction = None
  BY DEF Standing
<1>3. Idle.wasActive = FALSE /\ Idle.lastAxis = None /\ Idle.lastDirection = None
  BY DEF Idle
<1> QED BY <1>1, <1>2, <1>3 DEF Agree

\* What an intent that is neither a stop nor empty does.
LEMMA ApplyFields ==
    ASSUME NEW t \in Movements, NEW i, i.act \notin {"stop", "none"}
    PROVE  /\ Apply(t, i).moving \in BOOLEAN
           /\ Apply(t, i).moving <=> t.moving \/ i.act = "start"
           /\ Apply(t, i).direction = IF i.direction = None THEN t.direction ELSE i.direction
           /\ Apply(t, i).axis = IF i.axis = None THEN t.axis ELSE i.axis
<1> DEFINE u == [moving |-> t.moving \/ i.act = "start",
                 direction |-> IF i.direction = None THEN t.direction ELSE i.direction,
                 axis |-> IF i.axis = None THEN t.axis ELSE i.axis,
                 gear |-> IF i.axis = None THEN t.gear ELSE i.gear]
<1>1. Apply(t, i) = u
  BY Zenon DEF Apply
<1>2. /\ u.moving = (t.moving \/ i.act = "start")
      /\ u.direction = IF i.direction = None THEN t.direction ELSE i.direction
      /\ u.axis = IF i.axis = None THEN t.axis ELSE i.axis
  BY Zenon
<1> HIDE DEF u
<1> QED BY <1>1, <1>2

\* One decision about one motor: r and t before it, n and u after it, i its
\* intent.
LEMMA MotorStep ==
    ASSUME NEW r \in Runtimes, NEW t \in Movements, NEW s \in ArmStates,
           NEW v \in Deflection, NEW i, NEW n, NEW u,
           i = Intent(r, s, v), n = NextRuntime(r, s, v), u = Apply(t, i),
           Agree(r, t), ~t.moving => t = Standing
    PROVE  /\ Agree(n, u)
           /\ ~u.moving => u = Standing
           /\ u.moving <=> s # "Locked" /\ Active(v)
           /\ i.act = "start" => ~t.moving
           /\ i.act \in {"stop", "adjust"} => t.moving
<1> USE DeflectionFacts, FixedRecords
<1>0. /\ t.moving \in BOOLEAN /\ r.wasActive \in BOOLEAN
      /\ r.wasActive <=> t.moving
  BY DEF Agree, Runtimes, Movements
<1>1. CASE (s = "Locked" \/ ~Active(v)) /\ r.wasActive
  <2>1. i = Stop /\ n = Idle
    BY <1>1 DEF Intent, NextRuntime
  <2>2. u = Standing
    BY <2>1 DEF Apply
  <2> QED BY <1>0, <1>1, <2>1, <2>2
<1>2. CASE (s = "Locked" \/ ~Active(v)) /\ ~r.wasActive
  <2>1. i = NoIntent /\ n = Idle
    BY <1>2 DEF Intent, NextRuntime
  <2>2. u = t /\ t = Standing
    BY <1>0, <1>2, <2>1 DEF Apply
  <2> QED BY <1>0, <1>2, <2>1, <2>2
<1>3. CASE s # "Locked" /\ Active(v) /\ ~r.wasActive
  <2>1. i = Start(v, s) /\ n = Driven(v)
    BY <1>3 DEF Intent, NextRuntime
  <2>2. Direction(v) # None /\ v # None
    BY PolicyAssumption DEF Directions
  <2>3. i.act = "start" /\ i.direction = Direction(v) /\ i.axis = v
    BY <2>1 DEF Start
  <2>4. u.moving = TRUE /\ u.direction = Direction(v) /\ u.axis = v
    BY <2>2, <2>3, ApplyFields
  <2>5. n.wasActive = TRUE /\ n.lastDirection = Direction(v) /\ n.lastAxis = v
    BY <2>1 DEF Driven
  <2>6. Agree(n, u)
    BY <2>4, <2>5 DEF Agree
  <2> QED BY <1>0, <1>3, <2>3, <2>4, <2>6
<1>4. CASE s # "Locked" /\ Active(v) /\ r.wasActive
  <2> DEFINE turns == r.lastDirection # Direction(v)
             respeeds == ShouldUpdateSpeed(r, v)
  <2>1. i = Adjust(r, s, v) /\ t.moving = TRUE
    BY <1>0, <1>4 DEF Intent
  <2>2. Direction(v) # None /\ v # None
    BY PolicyAssumption DEF Directions
  <2>3. /\ n.wasActive = TRUE
        /\ n.lastAxis = IF respeeds THEN v ELSE r.lastAxis
        /\ n.lastDirection = Direction(v)
    <3>1. CASE respeeds
      <4>1. n = Driven(v)
        BY <1>4, <3>1 DEF NextRuntime
      <4> QED BY <3>1, <4>1 DEF Driven
    <3>2. CASE ~respeeds
      <4>1. n = [r EXCEPT !.lastDirection = Direction(v)]
        BY <1>4, <3>2 DEF NextRuntime
      <4>2. /\ n.wasActive = r.wasActive /\ n.lastAxis = r.lastAxis
            /\ n.lastDirection = Direction(v)
        BY <4>1 DEF Runtimes
      <4> HIDE DEF respeeds
      <4> QED BY <1>0, <1>4, <3>2, <4>2
    <3> QED BY <3>1, <3>2
  <2>4. CASE turns \/ respeeds
    <3>1. i = [act |-> "adjust",
               direction |-> IF turns THEN Direction(v) ELSE None,
               axis |-> IF respeeds THEN v ELSE None,
               gear |-> IF respeeds THEN s ELSE None]
      BY <2>1, <2>4 DEF Adjust
    <3> HIDE DEF turns, respeeds
    <3>2. /\ i.act = "adjust"
          /\ i.direction = IF turns THEN Direction(v) ELSE None
          /\ i.axis = IF respeeds THEN v ELSE None
      BY <3>1
    <3>3. /\ u.moving = TRUE
          /\ u.direction = IF turns THEN Direction(v) ELSE t.direction
          /\ u.axis = IF respeeds THEN v ELSE t.axis
      BY <3>2, <2>1, <2>2, ApplyFields
    <3>4. Agree(n, u)
      BY <2>3, <3>3 DEF Agree, turns
    <3> QED BY <1>4, <2>1, <3>2, <3>3, <3>4
  <2>5. CASE ~turns /\ ~respeeds
    <3>1. i = NoIntent
      BY <2>1, <2>5 DEF Adjust
    <3>2. u = t
      BY <3>1 DEF Apply
    <3>3. n.wasActive = t.moving /\ n.lastAxis = t.axis /\ n.lastDirection = t.direction
      BY <1>0, <2>1, <2>3, <2>5 DEF Agree
    <3>4. Agree(n, u)
      BY <3>2, <3>3 DEF Agree
    <3> QED BY <1>4, <2>1, <3>1, <3>2, <3>4
  <2> QED BY <2>4, <2>5
<1> QED BY <1>0, <1>1, <1>2, <1>3, <1>4

-----------------------------------------------------------------------------
(* The parts of decide that concern the arms.                              *)

\* The age of a time stamp is none or at most AutoLock.
LEMMA OlderType ==
    ASSUME TypeOK, NEW dt \in 0..MaxStep
    PROVE  Older(dt) \in [Arms -> 0..AutoLock \cup {None}]
BY PolicyAssumption DEF TypeOK, Older

\* Buttons and auto-lock leave every arm in one of its three states.
LEMMA StateType ==
    ASSUME NEW t, TypeOK, NEW buttons \in [Arms -> BOOLEAN]
    PROVE  /\ Pressed(buttons) \in [Arms -> ArmStates]
           /\ Locking(Pressed(buttons), t) \in [Arms -> ArmStates]
<1>1. \A x \in ArmStates : Cycle[x] \in ArmStates
  BY DEF Cycle, ArmStates
<1>2. Pressed(buttons) \in [Arms -> ArmStates]
  BY <1>1 DEF TypeOK, Pressed
<1> HIDE DEF TypeOK
<1>3. Locking(Pressed(buttons), t) \in [Arms -> ArmStates]
  BY <1>2 DEF Locking, ArmStates
<1> QED BY <1>2, <1>3

\* What decide leaves of the time stamps: an arm that is unlocked in the end
\* has one that has not expired, and one that is just now if the arm moves.
LEMMA AgesFacts ==
    ASSUME NEW s \in [Arms -> ArmStates], NEW t \in [Arms -> 0..AutoLock \cup {None}],
           NEW axis
    PROVE  /\ Ages(s, t, axis) \in [Arms -> 0..AutoLock \cup {None}]
           /\ \A a \in Moving(Locking(s, t), axis) : Ages(s, t, axis)[a] = 0
           /\ AutoLock > 0 => \A a \in Arms : Locking(s, t)[a] # "Locked" =>
                  Ages(s, t, axis)[a] # None /\ Ages(s, t, axis)[a] < AutoLock
<1> DEFINE mv == Moving(Locking(s, t), axis)
           ex == Expired(s, t)
           g == Ages(s, t, axis)
<1>1. \A a \in Arms :
          \/ a \in mv /\ g[a] = 0
          \/ a \notin mv /\ a \in ex /\ g[a] = None
          \/ a \notin mv /\ a \notin ex /\ s[a] # "Locked" /\ t[a] = None /\ g[a] = 0
          \/ a \notin mv /\ a \notin ex /\ ~(s[a] # "Locked" /\ t[a] = None) /\ g[a] = t[a]
  BY DEF Ages
<1>2. \A a \in Arms : /\ Locking(s, t)[a] # "Locked" => a \notin ex /\ s[a] # "Locked"
                      /\ a \in ex <=> s[a] # "Locked" /\ t[a] # None /\ t[a] = AutoLock
  BY DEF Locking, Expired
<1>3. DOMAIN g = Arms /\ g = [a \in Arms |-> g[a]] /\ mv \subseteq Arms
  BY DEF Ages, Moving
<1>4. AutoLock \in Nat /\ None \notin Int
  BY PolicyAssumption
<1> HIDE DEF mv, ex, g
<1>5. \A a \in Arms : g[a] \in 0..AutoLock \cup {None}
  <2>1. \A a \in Arms : g[a] = 0 \/ g[a] = None \/ g[a] = t[a]
    BY <1>1
  <2>2. 0 \in 0..AutoLock
    BY <1>4
  <2> QED BY <2>1, <2>2
<1>6. g \in [Arms -> 0..AutoLock \cup {None}]
  BY <1>3, <1>5
<1>7. \A a \in mv : g[a] = 0
  BY <1>1, <1>3
<1>8. ASSUME AutoLock > 0, NEW a \in Arms, Locking(s, t)[a] # "Locked"
      PROVE  g[a] # None /\ g[a] < AutoLock
  BY <1>1, <1>2, <1>4, <1>8
<1> QED BY <1>6, <1>7, <1>8 DEF mv, g

-----------------------------------------------------------------------------
(* The invariant.                                                          *)

\* Initially all arms are locked and all motors stand.
LEMMA InitIInv == Init => IInv /\ IdleArmLocks
<1> SUFFICES ASSUME Init PROVE IInv /\ IdleArmLocks
  OBVIOUS
<1>1. TypeOK
  BY DEF Init, TypeOK, ArmStates, EarlyReturns, Idle, Runtimes, NoIntent, Intents,
         Standing, Movements
<1>2. Remembered
  BY DEF Init, Remembered, MemoryIsWhatWasTold, Idle, Standing
<1>3. LockedMeansStopped
  BY DEF Init, LockedMeansStopped, Standing
<1>4. IdleArmLocks
  BY DEF Init, IdleArmLocks
<1> QED BY <1>1, <1>2, <1>3, <1>4 DEF IInv

\* An early return keeps the invariant, and orders nothing.
LEMMA EarlyReturnKeeps ==
    ASSUME IInv, NEW why \in EarlyReturns, NEW dt \in 0..MaxStep, ReturnEarly(why, dt)
    PROVE  IInv' /\ IdleArmLocks' /\ \A m \in Motors : intents'[m].act = "none"
<1>1. TypeOK'
  <2>1. NoIntent \in Intents
    BY DEF NoIntent, Intents
  <2> QED BY <2>1, OlderType DEF IInv, TypeOK, ReturnEarly, EarlyReturns
<1>2. Remembered' /\ LockedMeansStopped'
  BY DEF IInv, Remembered, MemoryIsWhatWasTold, LockedMeansStopped, ReturnEarly
<1>3. returned' # "decided"
  BY DEF ReturnEarly, EarlyReturns
<1>4. \A m \in Motors : intents'[m].act = "none"
  BY FixedRecords DEF ReturnEarly
<1> QED BY <1>1, <1>2, <1>3, <1>4 DEF IInv, IdleArmLocks

\* So does a full decision, whose intents fit what the motors were told.
LEMMA DecideKeeps ==
    ASSUME IInv, NEW buttons \in [Arms -> BOOLEAN], NEW axis \in [Axes -> Deflection],
           NEW dt \in 0..MaxStep, Decide(buttons, axis, dt)
    PROVE  /\ IInv' /\ IdleArmLocks'
           /\ \A m \in Motors :
                 /\ intents'[m].act = "start" => ~told[m].moving
                 /\ intents'[m].act \in {"stop", "adjust"} => told[m].moving
<1> DEFINE pressed == Pressed(buttons)
           older == Older(dt)
           state == Locking(pressed, older)
<1>1. /\ pressed \in [Arms -> ArmStates] /\ state \in [Arms -> ArmStates]
      /\ older \in [Arms -> 0..AutoLock \cup {None}]
  BY StateType, OlderType DEF IInv
<1>2. /\ armState' = state /\ age' = Ages(pressed, older, axis)
      /\ prevButton' = buttons /\ returned' = "decided"
  BY DEF Decide
<1>3. \A m \in Motors : state[ArmOf[m]] \in ArmStates /\ axis[AxisOf[m]] \in Deflection
  BY <1>1, PolicyAssumption
<1>4. \A m \in Motors :
          /\ intents'[m] = Intent(runtime[m], state[ArmOf[m]], axis[AxisOf[m]])
          /\ runtime'[m] = NextRuntime(runtime[m], state[ArmOf[m]], axis[AxisOf[m]])
          /\ told'[m] = Apply(told[m], intents'[m])
  BY DEF Decide
<1>5. /\ DOMAIN intents' = Motors /\ intents' = [m \in Motors |-> intents'[m]]
      /\ DOMAIN runtime' = Motors /\ runtime' = [m \in Motors |-> runtime'[m]]
      /\ DOMAIN told' = Motors /\ told' = [m \in Motors |-> told'[m]]
  BY DEF Decide
<1> HIDE DEF pressed, older, state
<1>6. \A m \in Motors : runtime[m] \in Runtimes /\ told[m] \in Movements
  BY DEF IInv, TypeOK
<1>7. \A m \in Motors : intents'[m] \in Intents /\ runtime'[m] \in Runtimes
  BY <1>3, <1>4, <1>6, IntentType
<1>8. \A m \in Motors : told'[m] \in Movements
  BY <1>4, <1>6, <1>7, ApplyType
<1>9. TypeOK'
  <2>1. age' \in [Arms -> 0..AutoLock \cup {None}]
    BY <1>1, <1>2, AgesFacts
  <2>2. intents' \in [Motors -> Intents] /\ runtime' \in [Motors -> Runtimes]
        /\ told' \in [Motors -> Movements]
    BY <1>5, <1>7, <1>8
  <2> QED BY <1>1, <1>2, <2>1, <2>2 DEF TypeOK
<1>10. ASSUME NEW m \in Motors
       PROVE  /\ Agree(runtime'[m], told'[m])
              /\ ~told'[m].moving => told'[m] = Standing
              /\ told'[m].moving <=> state[ArmOf[m]] # "Locked" /\ Active(axis[AxisOf[m]])
              /\ intents'[m].act = "start" => ~told[m].moving
              /\ intents'[m].act \in {"stop", "adjust"} => told[m].moving
  <2>1. Agree(runtime[m], told[m]) /\ (~told[m].moving => told[m] = Standing)
    BY DEF IInv, Remembered, MemoryIsWhatWasTold, Agree
  <2> QED BY <1>3, <1>4, <1>6, <2>1, MotorStep
<1>11. Remembered'
  BY <1>10 DEF Remembered, MemoryIsWhatWasTold, Agree
<1>12. LockedMeansStopped'
  BY <1>2, <1>10 DEF LockedMeansStopped
<1>13. IdleArmLocks'
  <2>1. AutoLock > 0 => \A a \in Arms : armState'[a] # "Locked" =>
            age'[a] # None /\ age'[a] < AutoLock
    BY <1>1, <1>2, AgesFacts DEF state
  <2>2. ASSUME NEW m \in Motors, told'[m].moving
        PROVE  age'[ArmOf[m]] = 0
    <3>1. ArmOf[m] \in Moving(state, axis)
      BY <1>10, <2>2, PolicyAssumption DEF Moving
    <3> QED BY <1>1, <1>2, <3>1, AgesFacts DEF state
  <2> QED BY <2>1, <2>2 DEF IdleArmLocks
<1> QED BY <1>9, <1>10, <1>11, <1>12, <1>13 DEF IInv

\* Every call of decide keeps the invariant.
LEMMA NextIInv ==
    ASSUME IInv, IdleArmLocks, [Next]_vars
    PROVE  IInv' /\ IdleArmLocks'
<1>1. CASE Next
  BY <1>1, EarlyReturnKeeps, DecideKeeps DEF Next
<1>2. CASE UNCHANGED vars
  <2>1. IInv'
    BY <1>2 DEF IInv, TypeOK, Remembered, MemoryIsWhatWasTold, LockedMeansStopped, vars
  <2>2. IdleArmLocks'
    BY <1>2 DEF IdleArmLocks, vars
  <2> QED BY <2>1, <2>2
<1> QED BY <1>1, <1>2

\* The inductive invariant holds in every reachable state.
THEOREM Invariance == Spec => [](IInv /\ IdleArmLocks)
<1>1. Init => IInv /\ IdleArmLocks
  BY InitIInv
<1>2. (IInv /\ IdleArmLocks) /\ [Next]_vars => (IInv /\ IdleArmLocks)'
  BY NextIInv
<1> QED BY <1>1, <1>2, PTL DEF Spec

-----------------------------------------------------------------------------
(* What follows.                                                           *)

\* Every variable of the policy keeps its type.
THEOREM TypeCorrect == Spec => []TypeOK
BY Invariance, PTL DEF IInv

\* A motor of a locked arm has been told to stop.
THEOREM LockStops == Spec => []LockedMeansStopped
BY Invariance, PTL DEF IInv

\* The memory of the policy never drifts from what its intents amount to.
THEOREM Memory == Spec => []MemoryIsWhatWasTold
BY Invariance, PTL DEF IInv, Remembered

\* The idle timer of an unlocked arm runs, and the arm is locked in time.
THEOREM AutoLocks == Spec => []IdleArmLocks
BY Invariance, PTL

\* Starts and stops of a motor alternate.
THEOREM Pairing == Spec => IntentsArePaired
<1> DEFINE A == \A m \in Motors :
                   /\ intents'[m].act = "start" => ~told[m].moving
                   /\ intents'[m].act \in {"stop", "adjust"} => told[m].moving
<1>1. IInv /\ [Next]_vars => [A]_vars
  <2> SUFFICES ASSUME IInv, Next PROVE A
    OBVIOUS
  <2> QED BY EarlyReturnKeeps, DecideKeeps DEF Next
<1>2. Spec => []IInv /\ [][Next]_vars
  BY Invariance, PTL DEF Spec
<1> QED BY <1>1, <1>2, PTL DEF IntentsArePaired

(***************************************************************************)
(* MotionControl                                                           *)
(***************************************************************************)

OneWay(b) == ~(b.fwd /\ b.rvs)

\* Neither the register nor the copy that will be written back asks for both
\* directions.
Exclusive == \A m \in Motors : OneWay(register[m]) /\ OneWay(cache[m])

\* A motor that was disabled after an alarm has no C-ON, and no copy of its
\* register has one.
Safe == \A m \in Motors : recovering[m] => ~register[m].con /\ ~cache[m].con

Matches(b, t) ==
    /\ b.fwd <=> t.moving /\ t.direction = "Forward"
    /\ b.rvs <=> t.moving /\ t.direction = "Reverse"

\* Without a failure the bus is there, the cached registers are those of the
\* drivers, and the drivers do what the policy has told the motors.
Follows ==
    intact =>
        /\ mcState = "Normal" /\ motors
        /\ cache = register
        /\ \A m \in Motors : Matches(register[m], told[m])

MInv == MotionTypeOK /\ IInv /\ Exclusive /\ Safe /\ Follows

-----------------------------------------------------------------------------
(* Registers.                                                              *)

\* Writing to a register leaves a register, with one direction and the same
\* C-ON, after each of the writes.
LEMMA WriteFacts ==
    ASSUME NEW b \in Bits, NEW i \in Intents, OneWay(b)
    PROVE  /\ Written(b, i) \in Bits /\ HalfWritten(b, i) \in Bits
           /\ OneWay(Written(b, i)) /\ OneWay(HalfWritten(b, i))
           /\ Written(b, i).con = b.con /\ HalfWritten(b, i).con = b.con
<1> USE DEF Bits, OneWay, Intents
<1>1. Written(b, i) \in Bits /\ OneWay(Written(b, i)) /\ Written(b, i).con = b.con
  BY DEF Written
<1>2. HalfWritten(b, i) \in Bits /\ OneWay(HalfWritten(b, i)) /\ HalfWritten(b, i).con = b.con
  BY DEF HalfWritten
<1> QED BY <1>1, <1>2

\* Setting or clearing C-ON leaves the directions alone.
LEMMA EnableFacts ==
    ASSUME NEW b \in Bits, NEW e \in BOOLEAN
    PROVE  /\ [b EXCEPT !.con = e] \in Bits
           /\ [b EXCEPT !.con = e].con = e
           /\ [b EXCEPT !.con = e].fwd = b.fwd
           /\ [b EXCEPT !.con = e].rvs = b.rvs
BY DEF Bits

\* Disabling a set of motors.
LEMMA DisabledFacts ==
    ASSUME NEW r \in [Motors -> Bits], NEW S \in SUBSET Motors
    PROVE  /\ Disabled(r, S) \in [Motors -> Bits]
           /\ \A m \in Motors : Disabled(r, S)[m].fwd = r[m].fwd
           /\ \A m \in Motors : Disabled(r, S)[m].rvs = r[m].rvs
           /\ \A m \in Motors : Disabled(r, S)[m].con => m \notin S /\ r[m].con
<1>1. \A m \in Motors : Disabled(r, S)[m] = IF m \in S THEN [r[m] EXCEPT !.con = FALSE] ELSE r[m]
  BY DEF Disabled
<1>2. \A m \in Motors : r[m] \in Bits
  OBVIOUS
<1>3. Disabled(r, S) = [m \in Motors |-> Disabled(r, S)[m]]
  BY DEF Disabled
<1>4. \A m \in Motors : Disabled(r, S)[m] \in Bits
  BY <1>1, <1>2, EnableFacts
<1>5. Disabled(r, S) \in [Motors -> Bits]
  BY <1>3, <1>4
<1>6. ASSUME NEW m \in Motors
      PROVE  /\ Disabled(r, S)[m].fwd = r[m].fwd
             /\ Disabled(r, S)[m].rvs = r[m].rvs
             /\ Disabled(r, S)[m].con => m \notin S /\ r[m].con
  BY <1>1, <1>2, EnableFacts
<1> QED BY <1>5, <1>6

\* The intents of a decision, applied to a register that matched.
LEMMA WrittenMatches ==
    ASSUME NEW b \in Bits, NEW t \in Movements, NEW i \in Intents,
           Matches(b, t),
           i.act = "start" => i.direction \in Directions,
           i.act = "stop" => i.direction = None,
           i.act \in {"stop", "adjust"} => t.moving
    PROVE  Matches(IF i.act = "none" THEN b ELSE Written(b, i), Apply(t, i))
<1>0. i.act \in {"none", "start", "stop", "adjust"} /\ i.direction \in Directions \cup {None}
  BY DEF Intents
<1>00. None \notin Directions
  BY PolicyAssumption DEF Directions
<1>1. CASE i.act = "none"
  BY <1>1 DEF Apply
<1>2. CASE i.act = "stop"
  <2>1. Apply(t, i) = Standing
    BY <1>2 DEF Apply
  <2>2. ~Written(b, i).fwd /\ ~Written(b, i).rvs
    BY <1>2 DEF Written, Bits
  <2> QED BY <1>2, <2>1, <2>2, FixedRecords DEF Matches
<1>3. CASE i.act \in {"start", "adjust"}
  <2>1. /\ Apply(t, i).moving
        /\ Apply(t, i).direction = IF i.direction = None THEN t.direction ELSE i.direction
    BY <1>3, ApplyFields DEF Movements
  <2>2. CASE i.direction = None
    <3>1. i.act = "adjust" /\ t.moving
      BY <1>3, <1>00, <2>2
    <3>2. Written(b, i) = b
      BY <2>2, <3>1 DEF Written
    <3> QED BY <2>1, <2>2, <3>1, <3>2 DEF Matches
  <2>3. CASE i.direction # None
    <3>1. /\ Written(b, i).fwd = (i.direction = "Forward")
          /\ Written(b, i).rvs = (i.direction = "Reverse")
      BY <1>3, <2>3 DEF Written, Bits
    <3> QED BY <1>3, <2>1, <2>3, <3>1 DEF Matches
  <2> QED BY <2>2, <2>3
<1> QED BY <1>0, <1>1, <1>2, <1>3

-----------------------------------------------------------------------------
(* The policy inside the controller.                                       *)

\* A step that leaves the policy alone keeps its invariant.
LEMMA PolicyKept ==
    ASSUME IInv, UNCHANGED policy
    PROVE  IInv'
BY DEF policy, IInv, TypeOK, Remembered, MemoryIsWhatWasTold, LockedMeansStopped

\* A stop names no direction, and a start names one.
LEMMA IntentShape ==
    ASSUME NEW r \in Runtimes, NEW s \in ArmStates, NEW v \in Deflection,
           NEW i, i = Intent(r, s, v)
    PROVE  /\ i.act = "start" => i.direction \in Directions
           /\ i.act = "stop" => i.direction = None
<1>1. Stop.direction = None /\ Start(v, s).direction = Direction(v)
  BY DEF Stop, NoIntent, Start
<1>2. NoIntent.act = "none" /\ Start(v, s).act = "start"
  BY DEF NoIntent, Start
<1>3. Adjust(r, s, v).act \in {"none", "adjust"}
  BY <1>2 DEF Adjust
<1> QED BY <1>1, <1>2, <1>3, DeflectionFacts, FixedRecords DEF Intent

\* A full decision in the controller: its intents are well-formed and paired,
\* and the policy's invariant holds again.
LEMMA DecisionFacts ==
    ASSUME MInv, NEW dt \in 0..MaxStep, DecideFully(dt)
    PROVE  /\ IInv'
           /\ intents' \in [Motors -> Intents]
           /\ \A m \in Motors :
                 /\ told'[m] = Apply(told[m], intents'[m])
                 /\ intents'[m].act = "start" => intents'[m].direction \in Directions
                 /\ intents'[m].act = "stop" => intents'[m].direction = None
                 /\ intents'[m].act \in {"stop", "adjust"} => told[m].moving
<1>1. stButton \in [Arms -> BOOLEAN] /\ stAxis \in [Axes -> Deflection] /\ IInv
  BY DEF MInv, MotionTypeOK
<1>2. Decide(stButton, stAxis, dt)
  BY DEF DecideFully
<1>3. /\ IInv'
      /\ \A m \in Motors : intents'[m].act \in {"stop", "adjust"} => told[m].moving
  BY <1>1, <1>2, DecideKeeps
<1>4. intents' \in [Motors -> Intents]
  BY <1>3 DEF IInv, TypeOK
<1> DEFINE state == Locking(Pressed(stButton), Older(dt))
<1>5. \A m \in Motors :
          /\ told'[m] = Apply(told[m], intents'[m])
          /\ intents'[m] = Intent(runtime[m], state[ArmOf[m]], stAxis[AxisOf[m]])
  BY <1>2 DEF Decide
<1>6. state \in [Arms -> ArmStates]
  BY <1>1, StateType DEF IInv
<1>7. \A m \in Motors : /\ runtime[m] \in Runtimes
                        /\ state[ArmOf[m]] \in ArmStates
                        /\ stAxis[AxisOf[m]] \in Deflection
  BY <1>1, <1>6, PolicyAssumption DEF IInv, TypeOK
<1> HIDE DEF state
<1>8. \A m \in Motors :
          /\ intents'[m].act = "start" => intents'[m].direction \in Directions
          /\ intents'[m].act = "stop" => intents'[m].direction = None
  BY <1>5, <1>7, IntentShape
<1> QED BY <1>3, <1>4, <1>5, <1>8

-----------------------------------------------------------------------------
(* Steps that write nothing.                                               *)

\* The drivers' registers stay, a cached register stays or is read again, and
\* if nothing has failed the bus is still there.
LEMMA NothingWritten ==
    ASSUME MInv, MotionTypeOK', IInv',
           register' = register, recovering' = recovering,
           \A m \in Motors : cache'[m] = cache[m] \/ cache'[m] = register[m],
           intact' => intact /\ mcState' = "Normal" /\ motors' /\ told' = told
    PROVE  MInv'
<1>1. Exclusive'
  BY DEF MInv, Exclusive
<1>2. Safe'
  BY DEF MInv, Safe
<1>3. Follows'
  <2> SUFFICES ASSUME intact'
               PROVE  (/\ mcState = "Normal" /\ motors
                       /\ cache = register
                       /\ \A m \in Motors : Matches(register[m], told[m]))'
    BY DEF Follows
  <2>1. \A m \in Motors : cache'[m] = register[m]
    BY DEF MInv, Follows
  <2>2. cache' = register'
    BY <2>1 DEF MInv, MotionTypeOK
  <2>3. \A m \in Motors : Matches(register'[m], told'[m])
    BY DEF MInv, Follows
  <2> QED BY <2>2, <2>3
<1> QED BY <1>1, <1>2, <1>3 DEF MInv

\* The status is read, with failures or without.
LEMMA StatusKeeps == MInv /\ StatusUpdate => MInv'
<1> SUFFICES ASSUME MInv, StatusUpdate PROVE MInv'
  OBVIOUS
<1>0. UNCHANGED policy
  BY DEF StatusUpdate, NoUpdate, UpdateStatus, UpdateTimesOut, PublishFails
<1>1. IInv' /\ TypeOK'
  BY <1>0, PolicyKept DEF MInv, IInv
<1>2. told' = told
  BY <1>0 DEF policy
<1> USE DEF mc, driver, status, history, MInv, MotionTypeOK
<1>3. CASE NoUpdate
  <2>1. MotionTypeOK'
    BY <1>1, <1>3 DEF NoUpdate
  <2> QED BY <1>1, <1>2, <1>3, <2>1, NothingWritten DEF NoUpdate, Follows
<1>4. ASSUME NEW bad \in SUBSET Motors, UpdateStatus(bad) PROVE MInv'
  <2>1. MotionTypeOK'
    BY <1>1, <1>4 DEF UpdateStatus, ReadJoysticks
  <2> QED BY <1>1, <1>2, <1>4, <2>1, NothingWritten DEF UpdateStatus, Follows
<1>5. ASSUME NEW f \in Motors, NEW bad \in SUBSET Motors, UpdateTimesOut(f, bad)
      PROVE  MInv'
  <2>1. MotionTypeOK'
    BY <1>1, <1>5 DEF UpdateTimesOut, CommunicationFailure, ReadJoysticks
  <2> QED BY <1>1, <1>2, <1>5, <2>1, NothingWritten DEF UpdateTimesOut, CommunicationFailure
<1>6. ASSUME NEW bad \in SUBSET Motors, PublishFails(bad) PROVE MInv'
  <2>1. MotionTypeOK'
    BY <1>1, <1>6 DEF PublishFails, Reset, ReadJoysticks
  <2> QED BY <1>1, <1>2, <1>6, <2>1, NothingWritten DEF PublishFails, Reset
<1> QED BY <1>3, <1>4, <1>5, <1>6 DEF StatusUpdate

-----------------------------------------------------------------------------
(* Commands of the operator.                                               *)

\* Enabling or disabling motors: the ones in done are through; if f is not,
\* its register may or may not have been written.
LEMMA EnableKeeps ==
    ASSUME MInv, NEW e \in BOOLEAN, NEW S, NEW done \in SUBSET Motors, NEW w \in SUBSET Motors,
           MotionTypeOK', IInv', told' = told,
           done \subseteq S, w \subseteq S, w # done => ~intact',
           intact' => intact, mcState' = mcState, motors' = motors,
           cache' = [m \in Motors |-> IF m \in done THEN [cache[m] EXCEPT !.con = e]
                                                    ELSE cache[m]],
           register' = [m \in Motors |-> IF m \in w THEN [cache[m] EXCEPT !.con = e]
                                                    ELSE register[m]],
           recovering' = [m \in Motors |-> recovering[m] /\ ~(e /\ m \in S)]
    PROVE  MInv'
<1>1. \A m \in Motors : cache[m] \in Bits /\ register[m] \in Bits
  BY DEF MInv, MotionTypeOK
<1>2. \A m \in Motors : /\ [cache[m] EXCEPT !.con = e].fwd = cache[m].fwd
                        /\ [cache[m] EXCEPT !.con = e].rvs = cache[m].rvs
                        /\ [cache[m] EXCEPT !.con = e].con = e
  BY <1>1, EnableFacts
<1>3. \A m \in Motors :
          /\ cache'[m].fwd = cache[m].fwd /\ cache'[m].rvs = cache[m].rvs
          /\ cache'[m].con = IF m \in done THEN e ELSE cache[m].con
          /\ m \in w => /\ register'[m].fwd = cache[m].fwd /\ register'[m].rvs = cache[m].rvs
                        /\ register'[m].con = e
          /\ m \notin w => register'[m] = register[m]
  BY <1>2
<1>4. Exclusive'
  BY <1>3 DEF MInv, Exclusive, OneWay
<1>5. Safe'
  BY <1>3 DEF MInv, Safe
<1>6. Follows'
  <2> SUFFICES ASSUME intact'
               PROVE  (/\ mcState = "Normal" /\ motors
                       /\ cache = register
                       /\ \A m \in Motors : Matches(register[m], told[m]))'
    BY DEF Follows
  <2>1. mcState = "Normal" /\ motors /\ cache = register /\ w = done
        /\ \A m \in Motors : Matches(register[m], told[m])
    BY DEF MInv, Follows
  <2>2. cache' = register'
    BY <2>1
  <2>3. \A m \in Motors : Matches(register'[m], told'[m])
    BY <1>3, <2>1 DEF Matches
  <2> QED BY <2>1, <2>2, <2>3
<1> QED BY <1>4, <1>5, <1>6 DEF MInv

\* A record of the commanded bit is a register again.
LEMMA EnabledType ==
    ASSUME MotionTypeOK, NEW e \in BOOLEAN, NEW S, NEW r \in [Motors -> Bits]
    PROVE  [m \in Motors |-> IF m \in S THEN [cache[m] EXCEPT !.con = e] ELSE r[m]]
              \in [Motors -> Bits]
<1>1. \A m \in Motors : cache[m] \in Bits /\ r[m] \in Bits
  BY DEF MotionTypeOK
<1>2. \A m \in Motors : [cache[m] EXCEPT !.con = e] \in Bits
  BY <1>1, EnableFacts
<1> QED BY <1>1, <1>2

\* SetMotorEnabled and SetAllMotorsEnabled keep the invariant, if they fail too.
LEMMA SetEnabledKeeps ==
    ASSUME MInv, NEW S \in Choices, NEW e \in BOOLEAN,
           \/ SetEnabled(S, e)
           \/ \E f \in Motors, written \in BOOLEAN : SetEnabledFails(S, e, f, written)
    PROVE  MInv'
<1>0. UNCHANGED policy /\ S \subseteq Motors
  BY DEF SetEnabled, SetEnabledFails, Choices
<1>1. IInv' /\ TypeOK' /\ told' = told
  BY <1>0, PolicyKept DEF MInv, IInv, policy
<1>2. MotionTypeOK
  BY DEF MInv
<1> DEFINE changed == {m \in S : enabled[m] # e}
<1>3. CASE SetEnabled(S, e)
  <2>1. register' = [m \in Motors |-> IF m \in changed THEN [cache[m] EXCEPT !.con = e]
                                                       ELSE register[m]]
    BY <1>0, <1>3 DEF SetEnabled
  <2>2. cache' = [m \in Motors |-> IF m \in changed THEN [cache[m] EXCEPT !.con = e]
                                                    ELSE cache[m]]
    BY <1>3 DEF SetEnabled
  <2>3. cache' \in [Motors -> Bits] /\ register' \in [Motors -> Bits]
    <3>1. cache \in [Motors -> Bits] /\ register \in [Motors -> Bits]
      BY <1>2 DEF MotionTypeOK
    <3> HIDE DEF changed
    <3> QED BY <1>2, <2>1, <2>2, <3>1, EnabledType
  <2>4. MotionTypeOK'
    BY <1>1, <1>2, <1>3, <2>3 DEF SetEnabled, MotionTypeOK, status
  <2>5. changed \in SUBSET Motors /\ changed \subseteq S
    BY <1>0
  <2>6. /\ intact' = intact /\ mcState' = mcState /\ motors' = motors
        /\ recovering' = [m \in Motors |-> recovering[m] /\ ~(e /\ m \in S)]
    BY <1>3 DEF SetEnabled
  <2> HIDE DEF changed
  <2> QED BY <1>1, <2>1, <2>2, <2>4, <2>5, <2>6, EnableKeeps
<1>4. ASSUME NEW f \in Motors, NEW written \in BOOLEAN, SetEnabledFails(S, e, f, written)
      PROVE  MInv'
  <2> DEFINE done == changed \cap Before(f)
             w == {m \in Motors : m \in done \/ (m = f /\ written)}
  <2>1. register' = [m \in Motors |-> IF m \in w THEN [cache[m] EXCEPT !.con = e]
                                                 ELSE register[m]]
    BY <1>0, <1>4 DEF SetEnabledFails
  <2>2. cache' = [m \in Motors |-> IF m \in done THEN [cache[m] EXCEPT !.con = e]
                                                 ELSE cache[m]]
    BY <1>4 DEF SetEnabledFails
  <2>3. cache' \in [Motors -> Bits] /\ register' \in [Motors -> Bits]
    <3>1. cache \in [Motors -> Bits] /\ register \in [Motors -> Bits]
      BY <1>2 DEF MotionTypeOK
    <3> HIDE DEF changed, done, w
    <3> QED BY <1>2, <2>1, <2>2, <3>1, EnabledType
  <2>4. MotionTypeOK'
    BY <1>1, <1>2, <1>4, <2>3 DEF SetEnabledFails, MotionTypeOK, status
  <2>5. done \in SUBSET Motors /\ w \in SUBSET Motors /\ done \subseteq S /\ w \subseteq S
    BY <1>0, <1>4 DEF SetEnabledFails
  <2>6. /\ ~intact' /\ mcState' = mcState /\ motors' = motors
        /\ recovering' = [m \in Motors |-> recovering[m] /\ ~(e /\ m \in S)]
    BY <1>4 DEF SetEnabledFails
  <2> HIDE DEF changed, done, w
  <2> QED BY <1>1, <2>1, <2>2, <2>4, <2>5, <2>6, EnableKeeps
<1> QED BY <1>3, <1>4

\* The other commands write nothing to the registers.
LEMMA CommandKeeps == MInv /\ Command => MInv'
<1> SUFFICES ASSUME MInv, Command PROVE MInv'
  OBVIOUS
<1>0. UNCHANGED policy
  BY DEF Command, NoCommand, SetEnabled, SetEnabledFails, ResetAlarm, ResetAlarmTimesOut,
         Diagnose, DiagnoseTimesOut, ReconnectMotors, ReconnectOther
<1>1. IInv' /\ TypeOK' /\ told' = told
  BY <1>0, PolicyKept DEF MInv, IInv, policy
<1>2. MotionTypeOK /\ (intact => mcState = "Normal" /\ motors)
  BY DEF MInv, Follows
<1> USE DEF mc, driver, status, history
<1>3. CASE NoCommand
  <2>1. MotionTypeOK'
    BY <1>1, <1>2, <1>3 DEF NoCommand, MotionTypeOK
  <2> QED BY <1>1, <1>2, <1>3, <2>1, NothingWritten DEF NoCommand
<1>4. ASSUME NEW m \in Motors, NEW gone \in BOOLEAN, ResetAlarm(m, gone) PROVE MInv'
  <2>1. MotionTypeOK'
    BY <1>1, <1>2, <1>4 DEF ResetAlarm, MotionTypeOK
  <2> QED BY <1>1, <1>2, <1>4, <2>1, NothingWritten DEF ResetAlarm
<1>5. ASSUME NEW m \in Motors, NEW gone \in BOOLEAN, ResetAlarmTimesOut(m, gone) PROVE MInv'
  <2>1. MotionTypeOK'
    BY <1>1, <1>2, <1>5 DEF ResetAlarmTimesOut, CommunicationFailure, MotionTypeOK
  <2> QED BY <1>1, <1>2, <1>5, <2>1, NothingWritten DEF ResetAlarmTimesOut, CommunicationFailure
<1>6. ASSUME NEW m \in Motors, Diagnose(m) PROVE MInv'
  <2>1. MotionTypeOK'
    BY <1>1, <1>2, <1>6 DEF Diagnose, MotionTypeOK
  <2>2. \A n \in Motors : cache'[n] = cache[n] \/ cache'[n] = register[n]
    BY <1>2, <1>6 DEF Diagnose, MotionTypeOK
  <2> QED BY <1>1, <1>2, <1>6, <2>1, <2>2, NothingWritten DEF Diagnose
<1>7. ASSUME NEW m \in Motors, NEW read \in BOOLEAN, DiagnoseTimesOut(m, read) PROVE MInv'
  <2>1. MotionTypeOK'
    BY <1>1, <1>2, <1>7 DEF DiagnoseTimesOut, CommunicationFailure, MotionTypeOK
  <2>2. \A n \in Motors : cache'[n] = cache[n] \/ cache'[n] = register[n]
    BY <1>2, <1>7 DEF DiagnoseTimesOut, MotionTypeOK
  <2> QED BY <1>1, <1>7, <2>1, <2>2, NothingWritten DEF DiagnoseTimesOut, CommunicationFailure
<1>8. ASSUME NEW ok \in BOOLEAN, ReconnectMotors(ok) PROVE MInv'
  <2>1. MotionTypeOK'
    BY <1>1, <1>2, <1>8 DEF ReconnectMotors, Initialize, MotionTypeOK
  <2> QED BY <1>1, <1>8, <2>1, NothingWritten DEF ReconnectMotors, Initialize
<1>9. CASE ReconnectOther
  <2>1. MotionTypeOK'
    BY <1>1, <1>2, <1>9 DEF ReconnectOther, MotionTypeOK
  <2> QED BY <1>1, <1>2, <1>9, <2>1, NothingWritten DEF ReconnectOther
<1> QED BY <1>3, <1>4, <1>5, <1>6, <1>7, <1>8, <1>9, SetEnabledKeeps DEF Command

-----------------------------------------------------------------------------
(* The control tasks.                                                      *)

\* onAlarmCleared takes C-ON away and gives nothing.
LEMMA AlarmsClearedKeeps == MInv /\ AlarmsCleared => MInv'
<1> SUFFICES ASSUME MInv, AlarmsCleared PROVE MInv'
  OBVIOUS
<1>1. IInv' /\ TypeOK' /\ told' = told
  BY PolicyKept DEF AlarmsCleared, MInv, IInv, policy
<1>2. MotionTypeOK /\ register \in [Motors -> Bits] /\ cache \in [Motors -> Bits]
  BY DEF MInv, MotionTypeOK
<1>3. CASE mcState = "Normal"
  <2>0. Cleared \in SUBSET Motors
    BY DEF Cleared
  <2>1. /\ register' = Disabled(register, Cleared)
        /\ cache' = [m \in Motors |-> IF m \in Cleared THEN register'[m] ELSE cache[m]]
        /\ recovering' = [m \in Motors |-> recovering[m] \/ m \in Cleared]
    BY <1>3 DEF AlarmsCleared
  <2>2. /\ register' \in [Motors -> Bits]
        /\ \A m \in Motors : register'[m].fwd = register[m].fwd
        /\ \A m \in Motors : register'[m].rvs = register[m].rvs
        /\ \A m \in Motors : register'[m].con => m \notin Cleared /\ register[m].con
    BY <1>2, <2>0, <2>1, DisabledFacts
  <2>3. \A m \in Motors : cache'[m] = IF m \in Cleared THEN register'[m] ELSE cache[m]
    BY <2>1
  <2>4. cache' \in [Motors -> Bits]
    BY <1>2, <2>1, <2>2
  <2>5. MotionTypeOK'
    BY <1>1, <1>2, <2>1, <2>2, <2>4 DEF AlarmsCleared, MotionTypeOK, status
  <2>6. Exclusive'
    BY <2>2, <2>3 DEF MInv, Exclusive, OneWay
  <2>7. Safe'
    BY <2>1, <2>2, <2>3 DEF MInv, Safe
  <2>8. Follows'
    <3>1. intact => /\ motors /\ cache = register
                    /\ \A m \in Motors : Matches(register[m], told[m])
      BY DEF MInv, Follows
    <3>2. \A m \in Motors : m \notin Cleared => register'[m] = register[m]
      BY <1>2, <2>1 DEF Disabled
    <3>3. intact => \A m \in Motors : cache'[m] = register'[m]
      BY <2>3, <3>1, <3>2
    <3>4. intact => cache' = register'
      BY <2>2, <2>4, <3>3
    <3>5. intact' = intact /\ mcState' = mcState /\ motors' = motors
      BY DEF AlarmsCleared
    <3> QED BY <1>1, <1>3, <2>2, <3>1, <3>4, <3>5 DEF Follows, Matches
  <2> QED BY <1>1, <2>5, <2>6, <2>7, <2>8 DEF MInv
<1>4. CASE mcState # "Normal"
  <2>1. /\ register' = register /\ recovering' = recovering
        /\ cache' = [m \in Motors |-> IF m \in Cleared THEN register[m] ELSE cache[m]]
    BY <1>4 DEF AlarmsCleared
  <2>2. cache' \in [Motors -> Bits]
    BY <1>2, <2>1
  <2>3. MotionTypeOK'
    BY <1>1, <1>2, <2>1, <2>2 DEF AlarmsCleared, MotionTypeOK, status
  <2>4. \A m \in Motors : cache'[m] = cache[m] \/ cache'[m] = register[m]
    BY <2>1
  <2>5. ~intact'
    BY <1>4 DEF MInv, Follows, AlarmsCleared
  <2> QED BY <1>1, <2>1, <2>3, <2>4, <2>5, NothingWritten
<1> QED BY <1>3, <1>4

\* So does its failure, which resets MotorControl.
LEMMA AlarmsClearedFailsKeeps ==
    ASSUME MInv, NEW f \in Motors, NEW written \in BOOLEAN, AlarmsClearedFails(f, written)
    PROVE  MInv'
<1>1. IInv' /\ TypeOK' /\ told' = told
  BY PolicyKept DEF AlarmsClearedFails, MInv, IInv, policy
<1>2. MotionTypeOK /\ register \in [Motors -> Bits]
  BY DEF MInv, MotionTypeOK
<1>3. CASE motors
  <2> DEFINE S == {m \in Cleared : m \in Before(f) \/ (m = f /\ written)}
  <2>0. S \in SUBSET Motors
    BY DEF Cleared
  <2>1. /\ register' = Disabled(register, S) /\ cache' = register' /\ ~intact'
        /\ recovering' = [m \in Motors |-> recovering[m] \/ m \in Cleared \cap Before(f)]
    BY <1>3 DEF AlarmsClearedFails, Reset
  <2>2. Cleared \cap Before(f) \subseteq S
    OBVIOUS
  <2> HIDE DEF S
  <2>3. /\ register' \in [Motors -> Bits]
        /\ \A m \in Motors : register'[m].fwd = register[m].fwd
        /\ \A m \in Motors : register'[m].rvs = register[m].rvs
        /\ \A m \in Motors : register'[m].con => m \notin S /\ register[m].con
    BY <1>2, <2>0, <2>1, DisabledFacts
  <2>4. MotionTypeOK'
    BY <1>1, <1>2, <1>3, <2>1, <2>3 DEF AlarmsClearedFails, Reset, MotionTypeOK, status
  <2>5. Exclusive'
    BY <2>1, <2>3 DEF MInv, Exclusive, OneWay
  <2>6. Safe'
    BY <2>1, <2>2, <2>3 DEF MInv, Safe
  <2> QED BY <1>1, <2>1, <2>4, <2>5, <2>6 DEF MInv, Follows
<1>4. CASE ~motors
  <2>1. UNCHANGED <<mc, register, history>>
    BY <1>4 DEF AlarmsClearedFails
  <2>2. MotionTypeOK'
    BY <1>1, <1>2, <2>1 DEF AlarmsClearedFails, MotionTypeOK, mc, status, history
  <2> QED BY <1>1, <1>4, <2>1, <2>2, NothingWritten DEF mc, history, MInv, Follows
<1> QED BY <1>3, <1>4

\* An early return leaves the drivers with what they were doing.
LEMMA DecideEarlyKeeps ==
    ASSUME MInv, NEW why \in EarlyReturns, NEW dt \in 0..MaxStep, DecideEarly(why, dt)
    PROVE  MInv'
<1>1. IInv' /\ TypeOK' /\ told' = told
  BY EarlyReturnKeeps DEF DecideEarly, ReturnEarly, MInv, IInv
<1>2. MotionTypeOK'
  BY <1>1 DEF DecideEarly, MInv, MotionTypeOK, mc, driver, status, history
<1> QED BY <1>1, <1>2, NothingWritten DEF DecideEarly, MInv, Follows, mc, driver, history

\* What the intents make of the registers of the motors they are for.
LEMMA IntentFacts ==
    ASSUME MInv, NEW dt \in 0..MaxStep, DecideFully(dt), NEW m \in Motors
    PROVE  LET c == cache[m]
               i == intents'[m]
           IN  \A b \in {register[m], c, HalfWritten(c, i), Written(c, i)} :
                   b \in Bits /\ OneWay(b) /\ (recovering[m] => ~b.con)
<1>1. /\ register[m] \in Bits /\ cache[m] \in Bits
      /\ OneWay(register[m]) /\ OneWay(cache[m])
      /\ recovering[m] => ~register[m].con /\ ~cache[m].con
  BY DEF MInv, MotionTypeOK, Exclusive, Safe
<1>2. intents'[m] \in Intents
  BY DecisionFacts
<1> QED BY <1>1, <1>2, WriteFacts

\* The intents are carried out, all of them.
LEMMA IntentsAppliedKeeps ==
    ASSUME MInv, NEW dt \in 0..MaxStep, IntentsApplied(dt)
    PROVE  MInv'
<1>1. DecideFully(dt) /\ MotionTypeOK
  BY DEF IntentsApplied, MInv
<1>2. IInv' /\ TypeOK'
  BY <1>1, DecisionFacts DEF IInv
<1> DEFINE S == IF motors THEN Intended ELSE {}
<1>3. /\ register' = [m \in Motors |-> IF m \in S THEN Written(cache[m], intents'[m])
                                       ELSE register[m]]
      /\ cache' = [m \in Motors |-> IF m \in S THEN register'[m] ELSE cache[m]]
  BY DEF IntentsApplied
<1>4. S \subseteq Motors
  BY DEF Intended
<1>5. recovering' = recovering /\ intact' = intact /\ mcState' = mcState /\ motors' = motors
  BY DEF IntentsApplied, DecideFully
<1> HIDE DEF S
<1>6. \A m \in Motors :
          /\ register'[m] \in {register[m], Written(cache[m], intents'[m])}
          /\ cache'[m] \in {cache[m], Written(cache[m], intents'[m])}
  BY <1>3
<1>7. \A m \in Motors : \A b \in {register'[m], cache'[m]} :
          b \in Bits /\ OneWay(b) /\ (recovering[m] => ~b.con)
  BY <1>1, <1>6, IntentFacts
<1>8. MotionTypeOK'
  <2>1. register' \in [Motors -> Bits] /\ cache' \in [Motors -> Bits]
    BY <1>3, <1>7
  <2> QED BY <1>1, <1>2, <2>1 DEF IntentsApplied, DecideFully, MotionTypeOK, status
<1>9. Exclusive' /\ Safe'
  BY <1>5, <1>7 DEF Exclusive, Safe
<1>10. Follows'
  <2> SUFFICES ASSUME intact
               PROVE  (/\ mcState = "Normal" /\ motors
                       /\ cache = register
                       /\ \A m \in Motors : Matches(register[m], told[m]))'
    BY <1>5 DEF Follows
  <2>1. /\ mcState = "Normal" /\ motors /\ cache = register
        /\ \A m \in Motors : Matches(register[m], told[m])
    BY DEF MInv, Follows
  <2>2. cache' = register'
    <3>1. \A m \in Motors : cache'[m] = register'[m]
      BY <1>3, <2>1
    <3> QED BY <1>3, <3>1
  <2>3. ASSUME NEW m \in Motors
        PROVE  Matches(register'[m], told'[m])
    <3>1. register'[m] = IF intents'[m].act = "none" THEN register[m]
                         ELSE Written(register[m], intents'[m])
      BY <1>3, <2>1 DEF S, Intended
    <3>2. register[m] \in Bits /\ told[m] \in Movements
      BY <1>1 DEF MotionTypeOK, TypeOK
    <3> QED BY <1>1, <2>1, <3>1, <3>2, DecisionFacts, WrittenMatches
  <2> QED BY <1>5, <2>1, <2>2, <2>3
<1> QED BY <1>2, <1>8, <1>9, <1>10 DEF MInv

\* They break off at one motor, and MotorControl is reset.
LEMMA IntentFailsKeeps ==
    ASSUME MInv, NEW dt \in 0..MaxStep, NEW f \in Motors, IntentFails(dt, f)
    PROVE  MInv'
<1>1. DecideFully(dt) /\ MotionTypeOK /\ motors
  BY DEF IntentFails, MInv
<1>2. IInv' /\ TypeOK'
  BY <1>1, DecisionFacts DEF IInv
<1>3. recovering' = recovering
  BY <1>1 DEF DecideFully
<1>4. CASE mcState = "Normal"
  <2>1. PICK r \in {register[f], cache[f], HalfWritten(cache[f], intents'[f]),
                    Written(cache[f], intents'[f])} :
               Reset([m \in Motors |->
                          IF m = f THEN r
                          ELSE IF m \in Intended \cap Before(f)
                          THEN Written(cache[m], intents'[m])
                          ELSE register[m]])
    BY <1>4 DEF IntentFails
  <2>2. /\ register' = [m \in Motors |->
                            IF m = f THEN r
                            ELSE IF m \in Intended \cap Before(f)
                            THEN Written(cache[m], intents'[m])
                            ELSE register[m]]
        /\ cache' = register' /\ ~intact'
    BY <2>1 DEF Reset
  <2>3. \A m \in Motors :
            register'[m] \in {register[m], cache[m], HalfWritten(cache[m], intents'[m]),
                              Written(cache[m], intents'[m])}
    BY <2>1, <2>2
  <2>4. \A m \in Motors : /\ register'[m] \in Bits /\ OneWay(register'[m])
                          /\ recovering[m] => ~register'[m].con
    BY <1>1, <2>3, IntentFacts
  <2>5. MotionTypeOK'
    <3>1. register' \in [Motors -> Bits]
      BY <2>2, <2>4
    <3>2. mcState' = "Error" /\ motors' = FALSE /\ enabled' \in [Motors -> BOOLEAN]
          /\ intact' = FALSE
      BY <2>1 DEF Reset
    <3> QED BY <1>1, <1>2, <2>2, <3>1, <3>2 DEF IntentFails, DecideFully, MotionTypeOK, status
  <2>6. Exclusive' /\ Safe'
    BY <1>3, <2>2, <2>4 DEF Exclusive, Safe
  <2> QED BY <1>2, <2>2, <2>5, <2>6 DEF MInv, Follows
<1>5. CASE mcState # "Normal"
  <2>1. UNCHANGED <<mc, register, intact>>
    BY <1>5 DEF IntentFails
  <2>2. MotionTypeOK'
    BY <1>1, <1>2, <2>1 DEF DecideFully, MotionTypeOK, mc, status
  <2>3. ~intact'
    BY <1>5, <2>1 DEF MInv, Follows
  <2> QED BY <1>2, <1>3, <2>1, <2>2, <2>3, NothingWritten DEF mc
<1> QED BY <1>4, <1>5

\* Together.
LEMMA ControlKeeps == MInv /\ ControlTasks => MInv'
BY AlarmsClearedKeeps, AlarmsClearedFailsKeeps, DecideEarlyKeeps, IntentsAppliedKeeps,
   IntentFailsKeeps DEF ControlTasks

-----------------------------------------------------------------------------
(* The rest of the world, and the invariant.                               *)

\* A restart forgets the policy, and no register.
LEMMA RestartKeeps ==
    ASSUME MInv, NEW ok \in BOOLEAN, Restart(ok)
    PROVE  MInv'
<1>1. IInv'
  <2>1. TypeOK'
    BY DEF Restart, TypeOK, ArmStates, EarlyReturns, Idle, Runtimes, NoIntent, Intents,
           Standing, Movements
  <2>2. Remembered' /\ LockedMeansStopped'
    BY DEF Restart, Remembered, MemoryIsWhatWasTold, LockedMeansStopped, Idle, Standing
  <2> QED BY <2>1, <2>2 DEF IInv
<1>2. stAxis' \in [Axes -> Deflection]
  BY PolicyAssumption DEF Restart, Deflection
<1>3. MotionTypeOK'
  BY <1>1, <1>2 DEF IInv, Restart, Initialize, MInv, MotionTypeOK, driver
<1> QED BY <1>1, <1>3, NothingWritten DEF Restart, Initialize, driver

\* An alarm changes no register.
LEMMA AlarmKeeps ==
    ASSUME MInv, NEW m \in Motors, AlarmOccurs(m)
    PROVE  MInv'
<1>1. IInv' /\ TypeOK' /\ told' = told
  BY PolicyKept DEF AlarmOccurs, MInv, IInv, policy
<1>2. MotionTypeOK'
  BY <1>1 DEF AlarmOccurs, MInv, MotionTypeOK, mc, status, history
<1> QED BY <1>1, <1>2, NothingWritten DEF AlarmOccurs, MInv, Follows, mc, history

\* After Machine::initialize every motor stands, and nothing has failed.
LEMMA MotionInitMInv == MotionInit => MInv
<1> SUFFICES ASSUME MotionInit PROVE MInv
  OBVIOUS
<1>1. IInv
  BY InitIInv DEF MotionInit
<1>2. \A m \in Motors : \E c \in BOOLEAN : register[m] = [fwd |-> FALSE, rvs |-> FALSE, con |-> c]
  BY DEF MotionInit
<1>3. \A m \in Motors : register[m] \in Bits /\ ~register[m].fwd /\ ~register[m].rvs
  <2> SUFFICES ASSUME NEW m \in Motors
               PROVE  register[m] \in Bits /\ ~register[m].fwd /\ ~register[m].rvs
    OBVIOUS
  <2>1. PICK c \in BOOLEAN : register[m] = [fwd |-> FALSE, rvs |-> FALSE, con |-> c]
    BY <1>2
  <2>2. register[m] \in Bits
    BY <2>1 DEF Bits
  <2> QED BY <2>1, <2>2
<1>4. register \in [Motors -> Bits]
  BY <1>3 DEF MotionInit
<1>5. MotionTypeOK
  <2>1. stAxis \in [Axes -> Deflection]
    BY PolicyAssumption DEF MotionInit, Deflection
  <2>2. enabled \in [Motors -> BOOLEAN]
    BY <1>3 DEF MotionInit, Bits
  <2> QED BY <1>1, <1>4, <2>1, <2>2 DEF IInv, MotionInit, MotionTypeOK
<1>6. cache = register /\ mcState = "Normal" /\ motors /\ \A m \in Motors : ~recovering[m]
  BY DEF MotionInit
<1>7. \A m \in Motors : ~told[m].moving
  BY FixedRecords DEF MotionInit, Init
<1> QED BY <1>1, <1>3, <1>5, <1>6, <1>7 DEF MInv, Exclusive, OneWay, Safe, Follows, Matches

\* Every step of the thread and of the world keeps the invariant.
LEMMA MotionNextMInv == MInv /\ [MotionNext]_allVars => MInv'
<1>1. ASSUME MInv, UNCHANGED allVars PROVE MInv'
  <2>1. IInv' /\ TypeOK'
    BY <1>1, PolicyKept DEF allVars, MInv, IInv, policy
  <2>2. MotionTypeOK'
    BY <1>1, <2>1 DEF allVars, MInv, MotionTypeOK, mc, driver, status, history
  <2> QED BY <1>1, <2>1, <2>2, NothingWritten
          DEF allVars, MInv, Follows, policy, mc, driver, history
<1> QED BY <1>1, ControlKeeps, CommandKeeps, StatusKeeps, AlarmKeeps, RestartKeeps
        DEF MotionNext

\* The inductive invariant holds in every reachable state.
THEOREM MotionInvariance == MotionSpec => []MInv
BY MotionInitMInv, MotionNextMInv, PTL DEF MotionSpec

-----------------------------------------------------------------------------
(* What follows.                                                           *)

\* Every variable of the controller and of the drivers keeps its type.
THEOREM MotionTypes == MotionSpec => []MotionTypeOK
BY MotionInvariance, PTL DEF MInv

\* No driver is ever asked for both directions at once.
THEOREM NeverBothWays == MotionSpec => []OneDirection
<1>1. MInv => OneDirection
  BY DEF MInv, Exclusive, OneWay, OneDirection
<1> QED BY <1>1, MotionInvariance, PTL

\* Without a failure the drivers do what the policy asked for.
THEOREM DriversObey == MotionSpec => []DriversFollowPolicy
<1>1. MInv => DriversFollowPolicy
  BY DEF MInv, Follows, Matches, DriversFollowPolicy
<1> QED BY <1>1, MotionInvariance, PTL

\* A motor disabled after an alarm stands until the operator enables it.
THEOREM SafeRecovery == MotionSpec => []RecoveryIsSafe
<1>1. MInv => RecoveryIsSafe
  BY DEF MInv, Safe, RecoveryIsSafe, Turning
<1> QED BY <1>1, MotionInvariance, PTL

\* In the state Error MotorControl writes to no driver.
THEOREM Quiet == MotionSpec => QuietInError
<1>1. ASSUME MInv, MotionNext, mcState = "Error" PROVE register' = register
  <2>1. register \in [Motors -> Bits]
    BY <1>1 DEF MInv, MotionTypeOK
  <2>2. ASSUME ControlTasks PROVE register' = register
    <3>1. CASE AlarmsCleared
      BY <1>1, <3>1 DEF AlarmsCleared
    <3>2. ASSUME NEW f \in Motors, NEW written \in BOOLEAN, AlarmsClearedFails(f, written)
          PROVE  register' = register
      BY <1>1, <3>2 DEF AlarmsClearedFails
    <3>3. ASSUME NEW why \in EarlyReturns, NEW dt \in 0..MaxStep, DecideEarly(why, dt)
          PROVE  register' = register
      BY <3>3 DEF DecideEarly, driver
    <3>4. ASSUME NEW dt \in 0..MaxStep, IntentsApplied(dt) PROVE register' = register
      BY <1>1, <2>1, <3>4 DEF IntentsApplied
    <3>5. ASSUME NEW dt \in 0..MaxStep, NEW f \in Motors, IntentFails(dt, f)
          PROVE  register' = register
      BY <1>1, <3>5 DEF IntentFails
    <3> QED BY <2>2, <3>1, <3>2, <3>3, <3>4, <3>5 DEF ControlTasks
  <2>3. ASSUME Command PROVE register' = register
    <3>1. ASSUME NEW S \in Choices, NEW e \in BOOLEAN, SetEnabled(S, e)
          PROVE  register' = register
      BY <1>1, <2>1, <3>1 DEF SetEnabled, Choices
    <3> QED BY <1>1, <2>3, <3>1 DEF Command, NoCommand, SetEnabledFails, ResetAlarm,
               ResetAlarmTimesOut, Diagnose, DiagnoseTimesOut, ReconnectMotors,
               ReconnectOther, driver
  <2>4. ASSUME StatusUpdate PROVE register' = register
    BY <1>1, <2>4 DEF StatusUpdate, NoUpdate, UpdateStatus, UpdateTimesOut, PublishFails,
       driver
  <2>5. ASSUME NEW m \in Motors, AlarmOccurs(m) PROVE register' = register
    BY <2>5 DEF AlarmOccurs
  <2>6. ASSUME NEW ok \in BOOLEAN, Restart(ok) PROVE register' = register
    BY <2>6 DEF Restart, driver
  <2> QED BY <1>1, <2>2, <2>3, <2>4, <2>5, <2>6 DEF MotionNext
<1>2. MInv /\ [MotionNext]_allVars => [mcState = "Error" => register' = register]_allVars
  BY <1>1
<1>3. MotionSpec => []MInv /\ [][MotionNext]_allVars
  BY MotionInvariance, PTL DEF MotionSpec
<1> QED BY <1>2, <1>3, PTL DEF QuietInError
===============================================================================
