----------------------------- MODULE MotionControl ----------------------------
(***************************************************************************)
(* The process thread and the motors: the policy of ArmPolicy, the         *)
(* controller that hands its intents to MotorControl, the driver of every  *)
(* motor behind the Modbus connection, the operator's motor commands and   *)
(* the status update on which the next decisions are taken.                *)
(*                                                                         *)
(* One cycle of the thread is control tasks, at most one command, and a    *)
(* status update when one is due.  The thread is sequential, but between   *)
(* any two of its steps a driver may raise an alarm, and each exchange on  *)
(* the bus may fail, with the request or only its answer lost.             *)
(*                                                                         *)
(* Of a driver we keep the input register, with the bits FWD, RVS and C-ON *)
(* (operation data and the choice of the operation are left out), and      *)
(* whether it is in alarm.  It turns the motor as long as C-ON and exactly *)
(* one of the directions are set and there is no alarm.  Warnings are left *)
(* out: every use of the state takes Warning for Normal.  C-ON is taken to *)
(* be mapped in every driver, and every motor to have a driver of its own. *)
(***************************************************************************)
EXTENDS ArmPolicy

CONSTANTS
    Rank,           \* order of the motors in the maps and of their intents
    MayRestart      \* whether the server may be restarted

ASSUME MotionAssumption ==
    /\ Rank \in [Motors -> Nat]
    /\ \A m, n \in Motors : Rank[m] = Rank[n] => m = n
    /\ MayRestart \in BOOLEAN

VARIABLES
    phase,          \* what the process thread does next
    mcState,        \* MotorControl's state; Error means that _bus is absent
    motors,         \* whether _motors and _runtime are filled
    enabled,        \* MotorRuntimeState::enabled
    cache,          \* _driverInputCommandRawCache; the register if it is absent
    register,       \* the driver's input register
    alarm,          \* whether the driver is in alarm
    led,            \* robotStatus: MotorControl's LED
    stAlarm,        \* robotStatus: the motor's Alarm flag
    stAxis,         \* robotStatus: deflections of the joysticks
    stButton,       \* robotStatus: buttons of the joysticks
    wasInAlarm,     \* MachineController::_motorWasInAlarm
    intact,         \* history: no write has failed, nothing was reset
    recovering      \* history: disabled after an alarm, not enabled since

policy == <<armState, prevButton, age, runtime, returned, intents, told>>
mc == <<mcState, motors, enabled, cache>>
driver == <<register, alarm>>
status == <<led, stAlarm, stAxis, stButton>>
history == <<intact, recovering>>
allVars == <<policy, phase, mc, driver, status, wasInAlarm, history>>

Bits == [fwd : BOOLEAN, rvs : BOOLEAN, con : BOOLEAN]

Before(f) == {m \in Motors : Rank[m] < Rank[f]}

Turning(m) ==
    register[m].con /\ register[m].fwd # register[m].rvs /\ ~alarm[m]

MotionInit ==
    /\ Init
    /\ phase = "edges"
    /\ mcState = "Normal"
    /\ motors = TRUE
    /\ register \in [Motors -> {[fwd |-> FALSE, rvs |-> FALSE, con |-> c] : c \in BOOLEAN}]
    /\ enabled = [m \in Motors |-> register[m].con]
    /\ cache = register
    /\ alarm = [m \in Motors |-> FALSE]
    /\ led = "none"
    /\ stAlarm = [m \in Motors |-> FALSE]
    /\ stAxis = [x \in Axes |-> 0]
    /\ stButton = [a \in Arms |-> FALSE]
    /\ wasInAlarm = [m \in Motors |-> FALSE]
    /\ intact = TRUE
    /\ recovering = [m \in Motors |-> FALSE]

-----------------------------------------------------------------------------
(* MotorControl.                                                           *)

\* reset: the bus is closed and the motors are forgotten; r are the
\* registers the drivers are left with.
Reset(r) ==
    /\ mcState' = "Error"
    /\ motors' = FALSE
    /\ enabled' = [m \in Motors |-> FALSE]
    /\ cache' = r
    /\ register' = r
    /\ intact' = FALSE

\* initialize: the input registers and the alarms are read. The driver parameters
\* it writes are left out; the input registers are not among them.
Initialize(ok) ==
    /\ mcState' = IF ok THEN "Normal" ELSE "Error"
    /\ motors' = ok
    /\ enabled' = [m \in Motors |-> ok /\ ~alarm[m] /\ register[m].con]
    /\ cache' = register

\* handleCommunicationFailure: the bus is closed, the motors stay.
CommunicationFailure ==
    /\ mcState' = "Error"
    /\ intact' = FALSE
    /\ UNCHANGED <<motors, enabled>>

\* Mutant of Written: a stop clears the bit for forward only.
WrittenStopsForward(b, i) ==
    CASE i.act = "stop" -> [b EXCEPT !.fwd = FALSE]
      [] i.direction # None ->
            [b EXCEPT !.fwd = (i.direction = "Forward"), !.rvs = (i.direction = "Reverse")]
      [] OTHER -> b

\* What the bus operations of an intent make of the register, starting from
\* its cached value b, when all of them succeed.
Written(b, i) ==
    CASE i.act = "stop" -> [b EXCEPT !.fwd = FALSE, !.rvs = FALSE]
      [] i.direction # None ->
            [b EXCEPT !.fwd = (i.direction = "Forward"), !.rvs = (i.direction = "Reverse")]
      [] OTHER -> b

\* Mutant of HalfWritten: the new direction is set before the old one is cleared.
HalfWrittenSetFirst(b, i) ==
    CASE i.act = "stop" -> [b EXCEPT !.fwd = FALSE]
      [] i.direction = "Forward" -> [b EXCEPT !.fwd = TRUE]
      [] i.direction = "Reverse" -> [b EXCEPT !.rvs = TRUE]
      [] OTHER -> b

\* After the first of the two writes of stopMovement and setDirection.
HalfWritten(b, i) ==
    CASE i.act = "stop" -> [b EXCEPT !.fwd = FALSE]
      [] i.direction = "Forward" -> [b EXCEPT !.rvs = FALSE]
      [] i.direction = "Reverse" -> [b EXCEPT !.fwd = FALSE]
      [] OTHER -> b

-----------------------------------------------------------------------------
(* controlLoopTasks: first the motors that came out of an alarm.           *)

Cleared == {m \in Motors : wasInAlarm[m] /\ ~stAlarm[m]}

Disabled(r, S) == [m \in Motors |-> IF m \in S THEN [r[m] EXCEPT !.con = FALSE] ELSE r[m]]

\* Mutant of AlarmsCleared: a motor believed to be disabled is passed over.
AlarmsClearedIfEnabled ==
    /\ phase = "edges"
    /\ motors \/ Cleared = {}
    /\ IF mcState = "Normal"
       THEN /\ register' = Disabled(register, {m \in Cleared : enabled[m]})
            /\ cache' = [m \in Motors |-> IF m \in Cleared THEN register'[m] ELSE cache[m]]
            /\ recovering' = [m \in Motors |-> recovering[m] \/ m \in Cleared]
       ELSE /\ cache' = [m \in Motors |-> IF m \in Cleared THEN register[m] ELSE cache[m]]
            /\ UNCHANGED <<register, recovering>>
    /\ enabled' = [m \in Motors |-> enabled[m] /\ m \notin Cleared]
    /\ wasInAlarm' = stAlarm
    /\ phase' = "decide"
    /\ UNCHANGED <<policy, mcState, motors, alarm, status, intact>>

\* onAlarmCleared for all of them.  It does not use the cached register.
AlarmsCleared ==
    /\ phase = "edges"
    /\ motors \/ Cleared = {}
    /\ IF mcState = "Normal"
       THEN /\ register' = Disabled(register, Cleared)
            /\ cache' = [m \in Motors |-> IF m \in Cleared THEN register'[m] ELSE cache[m]]
            /\ recovering' = [m \in Motors |-> recovering[m] \/ m \in Cleared]
       ELSE /\ cache' = [m \in Motors |-> IF m \in Cleared THEN register[m] ELSE cache[m]]
            /\ UNCHANGED <<register, recovering>>
    /\ enabled' = [m \in Motors |-> enabled[m] /\ m \notin Cleared]
    /\ wasInAlarm' = stAlarm
    /\ phase' = "decide"
    /\ UNCHANGED <<policy, mcState, motors, alarm, status, intact>>

\* It throws at motor f, after f's register was written or before: the rest of
\* the control tasks is skipped and MotorControl reset.
AlarmsClearedFails(f, written) ==
    /\ phase = "edges"
    /\ f \in Cleared
    /\ IF motors
       THEN /\ mcState = "Normal"
            /\ Reset(Disabled(register, {m \in Cleared : m \in Before(f) \/ (m = f /\ written)}))
            /\ recovering' = [m \in Motors |-> recovering[m] \/ m \in Cleared \cap Before(f)]
       ELSE /\ Cleared \cap Before(f) = {} /\ ~written
            /\ UNCHANGED <<mc, register, history>>
    /\ wasInAlarm' = [m \in Motors |-> IF m \in Before(f) THEN stAlarm[m] ELSE wasInAlarm[m]]
    /\ phase' = "command"
    /\ UNCHANGED <<policy, alarm, status>>

(* Then the decision, and the intents one by one.                          *)

\* What the status says of MotorControl, with On for Warning too, and of its motors.
Operational == led = "On"
AnyMotorInAlarm == \E m \in Motors : stAlarm[m]

\* Whether Contec, its inputs and ControlPanel are there is left open.
DecideEarly(why, dt) ==
    /\ phase = "decide"
    /\ why # "contecUnavailable" => led # "none"
    /\ why = "motorAlarm" => Operational /\ AnyMotorInAlarm
    /\ ReturnEarly(why, dt)
    /\ phase' = "command"
    /\ UNCHANGED <<mc, driver, status, wasInAlarm, history>>

DecideFully(dt) ==
    /\ phase = "decide"
    /\ Operational /\ ~AnyMotorInAlarm
    /\ Decide(stButton, stAxis, dt)
    /\ phase' = "command"
    /\ UNCHANGED <<alarm, status, wasInAlarm, recovering>>

Intended == {m \in Motors : intents'[m].act # "none"}

\* The intents are carried out; those of motors that are not there are ignored.
IntentsApplied(dt) ==
    /\ DecideFully(dt)
    /\ motors => mcState = "Normal" \/ Intended = {}
    /\ register' = [m \in Motors |-> IF motors /\ m \in Intended
                                     THEN Written(cache[m], intents'[m])
                                     ELSE register[m]]
    /\ cache' = [m \in Motors |-> IF motors /\ m \in Intended THEN register'[m] ELSE cache[m]]
    /\ UNCHANGED <<mcState, motors, enabled, intact>>

\* An operation of the intent for motor f throws, the register then being r.
\* The other intents are lost and MotorControl is reset.
IntentFails(dt, f) ==
    /\ DecideFully(dt)
    /\ motors
    /\ f \in Intended
    /\ IF mcState = "Normal"
       THEN \E r \in {register[f], cache[f], HalfWritten(cache[f], intents'[f]),
                      Written(cache[f], intents'[f])} :
                Reset([m \in Motors |->
                          IF m = f THEN r
                          ELSE IF m \in Intended \cap Before(f)
                          THEN Written(cache[m], intents'[m])
                          ELSE register[m]])
       ELSE Intended \cap Before(f) = {} /\ UNCHANGED <<mc, register, intact>>

-----------------------------------------------------------------------------
(* At most one command of the operator.                                    *)

\* Also a command that fails before it changes anything.
NoCommand ==
    /\ phase = "command"
    /\ phase' = "status"
    /\ UNCHANGED <<policy, mc, driver, status, wasInAlarm, history>>

\* Mutant of SetEnabled: the command does not notice that the bus is gone.
SetEnabledBlindly(S, e) ==
    LET changed == {m \in S : enabled[m] # e}
    IN  /\ phase = "command"
        /\ motors
        /\ cache' = [m \in Motors |-> IF m \in changed THEN [cache[m] EXCEPT !.con = e]
                                                       ELSE cache[m]]
        /\ register' = [m \in Motors |-> IF m \in changed THEN cache'[m] ELSE register[m]]
        /\ enabled' = [m \in Motors |-> IF m \in changed THEN e ELSE enabled[m]]
        /\ recovering' = [m \in Motors |-> recovering[m] /\ ~(e /\ m \in S)]
        /\ phase' = "status"
        /\ UNCHANGED <<policy, mcState, motors, alarm, status, wasInAlarm, intact>>

\* SetMotorEnabled and SetAllMotorsEnabled: a motor that is enabled or disabled
\* already is passed over.
SetEnabled(S, e) ==
    LET changed == {m \in S : enabled[m] # e}
    IN  /\ phase = "command"
        /\ motors
        /\ mcState = "Normal" \/ changed = {}
        /\ cache' = [m \in Motors |-> IF m \in changed THEN [cache[m] EXCEPT !.con = e]
                                                       ELSE cache[m]]
        /\ register' = [m \in Motors |-> IF m \in changed THEN cache'[m] ELSE register[m]]
        /\ enabled' = [m \in Motors |-> IF m \in changed THEN e ELSE enabled[m]]
        /\ recovering' = [m \in Motors |-> recovering[m] /\ ~(e /\ m \in S)]
        /\ phase' = "status"
        /\ UNCHANGED <<policy, mcState, motors, alarm, status, wasInAlarm, intact>>

\* The write for motor f fails, with or without effect.  The operator is told;
\* MotorControl stays as it is.
SetEnabledFails(S, e, f, written) ==
    LET changed == {m \in S : enabled[m] # e}
        done == changed \cap Before(f)
    IN  /\ phase = "command"
        /\ motors /\ mcState = "Normal"
        /\ f \in changed
        /\ cache' = [m \in Motors |-> IF m \in done THEN [cache[m] EXCEPT !.con = e]
                                                    ELSE cache[m]]
        /\ register' = [m \in Motors |->
                           IF m \in done \/ (m = f /\ written) THEN [cache[m] EXCEPT !.con = e]
                           ELSE register[m]]
        /\ enabled' = [m \in Motors |-> IF m \in done THEN e ELSE enabled[m]]
        /\ recovering' = [m \in Motors |-> recovering[m] /\ ~(e /\ m \in S)]
        /\ intact' = FALSE
        /\ phase' = "status"
        /\ UNCHANGED <<policy, mcState, motors, alarm, status, wasInAlarm>>

\* ResetMotorAlarm; the alarm stays if its cause does.
ResetAlarm(m, gone) ==
    /\ phase = "command"
    /\ motors /\ mcState = "Normal"
    /\ alarm' = [alarm EXCEPT ![m] = @ /\ ~gone]
    /\ phase' = "status"
    /\ UNCHANGED <<policy, mc, register, status, wasInAlarm, history>>

\* A time-out in resetAlarm, before or after the alarm was reset.
ResetAlarmTimesOut(m, gone) ==
    /\ phase = "command"
    /\ motors /\ mcState = "Normal"
    /\ alarm' = [alarm EXCEPT ![m] = @ /\ ~gone]
    /\ CommunicationFailure
    /\ phase' = "status"
    /\ UNCHANGED <<policy, cache, register, status, wasInAlarm, recovering>>

\* MotorDiagnostics reads the register, which renews the cache.
Diagnose(m) ==
    /\ phase = "command"
    /\ motors /\ mcState = "Normal"
    /\ cache' = [cache EXCEPT ![m] = register[m]]
    /\ phase' = "status"
    /\ UNCHANGED <<policy, mcState, motors, enabled, driver, status, wasInAlarm, history>>

\* A time-out in MotorDiagnostics, before or after the register was read.
DiagnoseTimesOut(m, read) ==
    /\ phase = "command"
    /\ motors /\ mcState = "Normal"
    /\ cache' = [cache EXCEPT ![m] = IF read THEN register[m] ELSE @]
    /\ CommunicationFailure
    /\ phase' = "status"
    /\ UNCHANGED <<policy, driver, status, wasInAlarm, recovering>>

\* Reconnect MotorControl, which is a reset, initialize and makeDummyStatus.
ReconnectMotors(ok) ==
    /\ phase = "command"
    /\ Initialize(ok)
    /\ stAlarm' = [m \in Motors |-> stAlarm[m] /\ ~ok]
    /\ intact' = (intact /\ ok)
    /\ phase' = "status"
    /\ UNCHANGED <<policy, driver, led, stAxis, stButton, wasInAlarm, recovering>>

\* Reconnect another component: makeDummyStatus clears the motors' flags too.
ReconnectOther ==
    /\ phase = "command"
    /\ stAlarm' = [m \in Motors |-> FALSE]
    /\ phase' = "status"
    /\ UNCHANGED <<policy, mc, driver, led, stAxis, stButton, wasInAlarm, history>>

-----------------------------------------------------------------------------
(* updateStatus, when one is due.                                          *)

NoUpdate ==
    /\ phase = "status"
    /\ phase' = "edges"
    /\ UNCHANGED <<policy, mc, driver, status, wasInAlarm, history>>

ReadJoysticks ==
    /\ stAxis' \in [Axes -> Deflection]
    /\ stButton' \in [Arms -> BOOLEAN]

\* The motors in bad cannot be read, none of them because of a time-out, and
\* are shown in alarm.
UpdateStatus(bad) ==
    /\ phase = "status"
    /\ mcState = "Error" => bad = Motors
    /\ led' = IF mcState = "Normal" THEN "On" ELSE "Error"
    /\ stAlarm' = [m \in Motors |-> alarm[m] \/ m \in bad]
    /\ ReadJoysticks
    /\ phase' = "edges"
    /\ UNCHANGED <<policy, mc, driver, wasInAlarm, history>>

\* A time-out at motor f closes the bus, so the motors after it fail as well.
UpdateTimesOut(f, bad) ==
    /\ phase = "status"
    /\ mcState = "Normal"
    /\ Motors \ Before(f) \subseteq bad
    /\ CommunicationFailure
    /\ led' = "Error"
    /\ stAlarm' = [m \in Motors |-> alarm[m] \/ m \in bad]
    /\ ReadJoysticks
    /\ phase' = "edges"
    /\ UNCHANGED <<policy, cache, driver, wasInAlarm, recovering>>

\* publish throws: runOneCycle resets the components.
PublishFails(bad) ==
    /\ phase = "status"
    /\ mcState = "Normal"
    /\ Reset(register)
    /\ led' = "On"
    /\ stAlarm' = [m \in Motors |-> alarm[m] \/ m \in bad]
    /\ ReadJoysticks
    /\ phase' = "edges"
    /\ UNCHANGED <<policy, alarm, wasInAlarm, recovering>>

-----------------------------------------------------------------------------
(* The rest of the world.                                                  *)

AlarmOccurs(m) ==
    /\ ~alarm[m]
    /\ alarm' = [alarm EXCEPT ![m] = TRUE]
    /\ UNCHANGED <<policy, phase, mc, register, status, wasInAlarm, history>>

\* The server ends, in whatever way, and is started again: neither shutdown nor
\* initialize touches the registers of the drivers.
Restart(ok) ==
    /\ MayRestart
    /\ phase' = "edges"
    /\ armState' = [a \in Arms |-> "Locked"]
    /\ prevButton' = [a \in Arms |-> FALSE]
    /\ age' = [a \in Arms |-> None]
    /\ runtime' = [m \in Motors |-> Idle]
    /\ returned' = "none"
    /\ intents' = [m \in Motors |-> NoIntent]
    /\ told' = [m \in Motors |-> Standing]
    /\ Initialize(ok)
    /\ led' = "none"
    /\ stAlarm' = [m \in Motors |-> FALSE]
    /\ stAxis' = [x \in Axes |-> 0]
    /\ stButton' = [a \in Arms |-> FALSE]
    /\ wasInAlarm' = [m \in Motors |-> FALSE]
    /\ intact' = FALSE
    /\ UNCHANGED <<driver, recovering>>

ControlTasks ==
    \/ AlarmsCleared
    \/ \E f \in Motors, written \in BOOLEAN : AlarmsClearedFails(f, written)
    \/ \E why \in EarlyReturns, dt \in 0..MaxStep : DecideEarly(why, dt)
    \/ \E dt \in 0..MaxStep : IntentsApplied(dt)
    \/ \E dt \in 0..MaxStep, f \in Motors : IntentFails(dt, f)

\* SetMotorEnabled names one motor, SetAllMotorsEnabled means all.
Choices == {{m} : m \in Motors} \cup {Motors}

Command ==
    \/ NoCommand
    \/ \E S \in Choices, e \in BOOLEAN : SetEnabled(S, e)
    \/ \E S \in Choices, e \in BOOLEAN, f \in Motors, written \in BOOLEAN :
          SetEnabledFails(S, e, f, written)
    \/ \E m \in Motors, gone \in BOOLEAN : ResetAlarm(m, gone)
    \/ \E m \in Motors, gone \in BOOLEAN : ResetAlarmTimesOut(m, gone)
    \/ \E m \in Motors : Diagnose(m)
    \/ \E m \in Motors, read \in BOOLEAN : DiagnoseTimesOut(m, read)
    \/ \E ok \in BOOLEAN : ReconnectMotors(ok)
    \/ ReconnectOther

StatusUpdate ==
    \/ NoUpdate
    \/ \E bad \in SUBSET Motors : UpdateStatus(bad)
    \/ \E f \in Motors, bad \in SUBSET Motors : UpdateTimesOut(f, bad)
    \/ \E bad \in SUBSET Motors : PublishFails(bad)

MotionNext ==
    \/ ControlTasks
    \/ Command
    \/ StatusUpdate
    \/ \E m \in Motors : AlarmOccurs(m)
    \/ \E ok \in BOOLEAN : Restart(ok)

MotionSpec == MotionInit /\ [][MotionNext]_allVars

-----------------------------------------------------------------------------
(* Properties.                                                             *)

MotionTypeOK ==
    /\ TypeOK
    /\ phase \in {"edges", "decide", "command", "status"}
    /\ mcState \in {"Normal", "Error"}
    /\ motors \in BOOLEAN
    /\ enabled \in [Motors -> BOOLEAN]
    /\ cache \in [Motors -> Bits]
    /\ register \in [Motors -> Bits]
    /\ alarm \in [Motors -> BOOLEAN]
    /\ led \in {"none", "On", "Error"}
    /\ stAlarm \in [Motors -> BOOLEAN]
    /\ stAxis \in [Axes -> Deflection]
    /\ stButton \in [Arms -> BOOLEAN]
    /\ wasInAlarm \in [Motors -> BOOLEAN]
    /\ intact \in BOOLEAN
    /\ recovering \in [Motors -> BOOLEAN]

\* A driver is never asked for both directions at once, wherever an operation
\* on the bus breaks off and whatever is in the cache.
OneDirection == \A m \in Motors : ~(register[m].fwd /\ register[m].rvs)

\* As long as no exchange fails, the direction bits of every driver are what
\* the policy asked for, through alarms, disabled motors, suspended cycles,
\* stale status and reconnections of MotorControl.
DriversFollowPolicy ==
    intact => \A m \in Motors :
        /\ register[m].fwd <=> told[m].moving /\ told[m].direction = "Forward"
        /\ register[m].rvs <=> told[m].moving /\ told[m].direction = "Reverse"

\* "Forces C-ON=0 on hardware and invalidates the driver input command cache so
\* recovery is safe": a motor disabled after an alarm does not turn until the
\* operator asks to enable it, whatever fails or is reconnected meanwhile.
RecoveryIsSafe == \A m \in Motors : recovering[m] => ~Turning(m)

\* While MotorControl is in the state Error no register is written.
QuietInError ==
    [][mcState = "Error" => register' = register]_allVars

\* "At least one motor is in alarm state. Motor commands are disabled.": when the
\* policy has found that a motor is in alarm, no motor turns (test
\* RimoKunPolicyDisablesMotionWhenAnyMotorIsInAlarm).
AlarmStopsMotion ==
    returned = "motorAlarm" => \A m \in Motors : ~Turning(m)
===============================================================================
