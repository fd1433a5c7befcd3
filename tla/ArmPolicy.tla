------------------------------- MODULE ArmPolicy ------------------------------
(***************************************************************************)
(* RimoKunControlPolicy: once per control cycle, decide turns the joystick *)
(* values and the state of the components into intents for the motors.     *)
(* Every arm is Locked, Slow or Fast; its button cycles through the three, *)
(* and an arm that has not moved for AutoLock locks itself.                *)
(*                                                                         *)
(* Deflections are integers in -MaxAxis..MaxAxis, as clampAxis leaves      *)
(* them, in some unit in which the two thresholds are integers too.  Time  *)
(* is the age of _lastMovementTime, which stops counting at AutoLock:      *)
(* decide only asks whether it is that old.  A speed is represented by     *)
(* what it is computed from, the deflection and the state of the arm.      *)
(***************************************************************************)
EXTENDS Integers

CONSTANTS
    Arms,
    Motors,
    Axes,           \* axes of the joysticks
    ArmOf,          \* the arm whose state governs a motor
    AxisOf,         \* the axis that drives a motor
    MaxAxis,        \* full deflection
    Threshold,      \* neutralAxisActivationThreshold
    Delta,          \* speedUpdateAxisDeltaThreshold
    AutoLock,       \* _autoLockTimeoutMs
    MaxStep,        \* bound on the time between two calls of decide
    None            \* an absent optional

ASSUME PolicyAssumption ==
    /\ ArmOf \in [Motors -> Arms]
    /\ AxisOf \in [Motors -> Axes]
    /\ MaxAxis \in Nat /\ Threshold \in Nat /\ Delta \in Nat
    /\ AutoLock \in Nat /\ MaxStep \in Nat
    /\ None \notin Int
    /\ None \notin {"Forward", "Reverse", "Locked", "Slow", "Fast"}

VARIABLES
    armState,       \* _armStates
    prevButton,     \* _prevButtonState
    age,            \* for each arm, time since _lastMovementTime
    runtime,        \* _motorRuntime
    returned,       \* the return statement decide took last
    intents,        \* motorIntents of that decision
    told            \* history: what the intents so far amount to for each motor

vars == <<armState, prevButton, age, runtime, returned, intents, told>>

Deflection == (-MaxAxis)..MaxAxis
ArmStates == {"Locked", "Slow", "Fast"}
Directions == {"Forward", "Reverse"}

Cycle == [Locked |-> "Slow", Slow |-> "Fast", Fast |-> "Locked"]

Abs(n) == IF n < 0 THEN -n ELSE n
Active(v) == Abs(v) >= Threshold
Direction(v) == IF v >= 0 THEN "Forward" ELSE "Reverse"

\* MotorRuntimeState; an absent lastAxis is hasLastAxis = false.
Idle == [wasActive |-> FALSE, lastAxis |-> None, lastDirection |-> None]
Driven(v) == [wasActive |-> TRUE, lastAxis |-> v, lastDirection |-> Direction(v)]

\* MotorIntent: what it asks for, the direction, and the deflection and the
\* state of the arm the speed comes from, where the intent has a speed.
NoIntent == [act |-> "none", direction |-> None, axis |-> None, gear |-> None]
Stop == [NoIntent EXCEPT !.act = "stop"]
Start(v, gear) ==
    [act |-> "start", direction |-> Direction(v), axis |-> v, gear |-> gear]

\* What a motor does once it has got its intents.
Standing == [moving |-> FALSE, direction |-> None, axis |-> None, gear |-> None]

Apply(t, i) ==
    CASE i.act = "stop" -> Standing
      [] i.act = "none" -> t
      [] OTHER ->
            [moving |-> t.moving \/ i.act = "start",
             direction |-> IF i.direction = None THEN t.direction ELSE i.direction,
             axis |-> IF i.axis = None THEN t.axis ELSE i.axis,
             gear |-> IF i.axis = None THEN t.gear ELSE i.gear]

Init ==
    /\ armState = [a \in Arms |-> "Locked"]
    /\ prevButton = [a \in Arms |-> FALSE]
    /\ age = [a \in Arms |-> None]
    /\ runtime = [m \in Motors |-> Idle]
    /\ returned = "none"
    /\ intents = [m \in Motors |-> NoIntent]
    /\ told = [m \in Motors |-> Standing]

-----------------------------------------------------------------------------
(* The parts of decide.                                                    *)

\* Time passes for every arm that has a _lastMovementTime.
Older(dt) ==
    [a \in Arms |->
        CASE age[a] = None -> None
          [] age[a] # None /\ age[a] + dt <= AutoLock -> age[a] + dt
          [] OTHER -> AutoLock]

\* processButton: the rising edge of the button cycles the state of the arm.
Pressed(buttons) ==
    [a \in Arms |-> IF buttons[a] /\ ~prevButton[a] THEN Cycle[armState[a]]
                                                    ELSE armState[a]]

\* The auto-lock loop; t is the age of each _lastMovementTime by now.
Expired(s, t) == {a \in Arms : s[a] # "Locked" /\ t[a] # None /\ t[a] = AutoLock}

Locking(s, t) ==
    [a \in Arms |-> IF a \in Expired(s, t) THEN "Locked" ELSE s[a]]

\* appendSpeedIntent sets _lastMovementTime of an arm that moves.
Moving(s, axis) ==
    {a \in Arms : s[a] # "Locked" /\ \E m \in Motors : ArmOf[m] = a /\ Active(axis[AxisOf[m]])}

\* Mutant of Ages: an arm that is unlocked gets no time stamp.
AgesWithoutStamp(s, t, axis) ==
    [a \in Arms |->
        IF a \in Moving(Locking(s, t), axis) THEN 0
        ELSE IF a \in Expired(s, t) THEN None
        ELSE t[a]]

\* _lastMovementTime at the end of decide: s is the state of the arms after
\* the buttons, t the ages when decide began.
Ages(s, t, axis) ==
    [a \in Arms |->
        IF a \in Moving(Locking(s, t), axis) THEN 0
        ELSE IF a \in Expired(s, t) THEN None
        ELSE IF s[a] # "Locked" /\ t[a] = None THEN 0
        ELSE t[a]]

ShouldUpdateSpeed(r, v) ==
    r.lastAxis = None \/ (r.lastAxis # None /\ Abs(v - r.lastAxis) >= Delta)

\* Mutant of NextRuntime: a direction change is not remembered.
RuntimeForgetsTurn(r, state, v) ==
    IF state = "Locked" \/ ~Active(v) THEN Idle
    ELSE IF ~r.wasActive \/ ShouldUpdateSpeed(r, v)
    THEN [Driven(v) EXCEPT !.lastDirection = IF r.wasActive THEN r.lastDirection ELSE @]
    ELSE r

\* appendSpeedIntent, the motor's runtime afterwards and the intent.
NextRuntime(r, state, v) ==
    IF state = "Locked" \/ ~Active(v) THEN Idle
    ELSE IF ~r.wasActive \/ ShouldUpdateSpeed(r, v) THEN Driven(v)
    ELSE [r EXCEPT !.lastDirection = Direction(v)]

Adjust(r, state, v) ==
    LET turns == r.lastDirection # Direction(v)
        respeeds == ShouldUpdateSpeed(r, v)
    IN  IF turns \/ respeeds
        THEN [act |-> "adjust",
              direction |-> IF turns THEN Direction(v) ELSE None,
              axis |-> IF respeeds THEN v ELSE None,
              gear |-> IF respeeds THEN state ELSE None]
        ELSE NoIntent

\* Mutant of Intent: a locked arm gets no stop, only a released stick does.
IntentWithoutStop(r, state, v) ==
    IF state = "Locked" THEN NoIntent
    ELSE IF ~Active(v)
    THEN IF r.wasActive THEN Stop ELSE NoIntent
    ELSE IF ~r.wasActive THEN Start(v, state) ELSE Adjust(r, state, v)

\* Mutant of Intent: every deflection starts the motor.
IntentAlwaysStarts(r, state, v) ==
    IF state = "Locked" \/ ~Active(v)
    THEN IF r.wasActive THEN Stop ELSE NoIntent
    ELSE IF ~r.wasActive \/ ShouldUpdateSpeed(r, v) THEN Start(v, state)
    ELSE Adjust(r, state, v)

Intent(r, state, v) ==
    IF state = "Locked" \/ ~Active(v)
    THEN IF r.wasActive THEN Stop ELSE NoIntent
    ELSE IF ~r.wasActive THEN Start(v, state) ELSE Adjust(r, state, v)

-----------------------------------------------------------------------------
(* decide.                                                                 *)

\* The early returns: Contec or one of its two buttons is unavailable,
\* MotorControl or ControlPanel is, or a motor is in alarm.
EarlyReturns == {"contecUnavailable", "missingInputs", "suspended", "motorAlarm"}

ReturnEarly(why, dt) ==
    /\ returned' = why
    /\ intents' = [m \in Motors |-> NoIntent]
    /\ age' = Older(dt)
    /\ UNCHANGED <<armState, prevButton, runtime, told>>

Decide(buttons, axis, dt) ==
    LET pressed == Pressed(buttons)
        older == Older(dt)
        state == Locking(pressed, older)
        intent == [m \in Motors |->
                      Intent(runtime[m], state[ArmOf[m]], axis[AxisOf[m]])]
    IN  /\ returned' = "decided"
        /\ armState' = state
        /\ prevButton' = buttons
        /\ age' = Ages(pressed, older, axis)
        /\ runtime' = [m \in Motors |->
                          NextRuntime(runtime[m], state[ArmOf[m]], axis[AxisOf[m]])]
        /\ intents' = intent
        /\ told' = [m \in Motors |-> Apply(told[m], intent[m])]

Next ==
    \/ \E why \in EarlyReturns, dt \in 0..MaxStep : ReturnEarly(why, dt)
    \/ \E buttons \in [Arms -> BOOLEAN], axis \in [Axes -> Deflection], dt \in 0..MaxStep :
          Decide(buttons, axis, dt)

Spec == Init /\ [][Next]_vars

-----------------------------------------------------------------------------
(* Properties.                                                             *)

Intents ==
    [act : {"none", "start", "stop", "adjust"}, direction : Directions \cup {None},
     axis : Deflection \cup {None}, gear : {"Slow", "Fast", None}]

Runtimes ==
    [wasActive : BOOLEAN, lastAxis : Deflection \cup {None},
     lastDirection : Directions \cup {None}]

Movements ==
    [moving : BOOLEAN, direction : Directions \cup {None},
     axis : Deflection \cup {None}, gear : {"Slow", "Fast", None}]

TypeOK ==
    /\ armState \in [Arms -> ArmStates]
    /\ prevButton \in [Arms -> BOOLEAN]
    /\ age \in [Arms -> 0..AutoLock \cup {None}]
    /\ runtime \in [Motors -> Runtimes]
    /\ returned \in EarlyReturns \cup {"none", "decided"}
    /\ intents \in [Motors -> Intents]
    /\ told \in [Motors -> Movements]

\* Whatever the buttons, the timer and the joysticks did, and in whatever
\* order: a motor of a locked arm has been told to stop, and was not started
\* again.
LockedMeansStopped ==
    \A m \in Motors : armState[ArmOf[m]] = "Locked" => ~told[m].moving

\* What the policy remembers of a motor is what its intents amount to: it sends
\* differences only, so a memory that drifts from them is never corrected.
MemoryIsWhatWasTold ==
    \A m \in Motors :
        /\ runtime[m].wasActive = told[m].moving
        /\ runtime[m].lastAxis = told[m].axis
        /\ runtime[m].lastDirection = told[m].direction

\* An unlocked arm has a running idle timer, it has not expired, and it stands
\* at zero when one of the arm's motors was moving in the last full decision.
IdleArmLocks ==
    returned = "decided" /\ AutoLock > 0 =>
        /\ \A a \in Arms : armState[a] # "Locked" =>
              age[a] # None /\ age[a] < AutoLock
        /\ \A m \in Motors : told[m].moving => age[ArmOf[m]] = 0

\* A motor is started only if it stands, and stopped or adjusted only if it
\* moves: decisions that come to nothing in between do not break the pairing.
IntentsArePaired ==
    [][\A m \in Motors :
          /\ intents'[m].act = "start" => ~told[m].moving
          /\ intents'[m].act \in {"stop", "adjust"} => told[m].moving]_vars

\* "Arm was just unlocked; set initial timestamp": an arm whose button was just
\* pressed while it was locked is unlocked at the end of the decision.
UnlockTakesEffect ==
    [][\A a \in Arms :
          returned' = "decided" /\ armState[a] = "Locked" /\ prevButton'[a] /\ ~prevButton[a]
             => armState'[a] # "Locked"]_vars
=============================================================================
