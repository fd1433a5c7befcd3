--------------------------- MODULE OperationData ---------------------------
(***************************************************************************)
(* One motor of MotorControl, exchange by exchange: what MotorControl and  *)
(* Motor remember (_runtime, the cached input register, the cached         *)
(* operation), the registers of the AR-KD2 driver, and the exchanges that  *)
(* a call still has before it.  The driver runs the operation that bits of *)
(* its input register select; two of its operations are used in turn, so   *)
(* that the speed of a turning motor is never changed under way.           *)
(*                                                                         *)
(* An exchange with the driver succeeds, is lost, or takes effect and its  *)
(* answer is lost.                                                         *)
(***************************************************************************)
EXTENDS Integers, Sequences

CONSTANTS
  Bits,         \* the bits of the input register
  Assignments,  \* what the driver's NET-IN parameters may make of them
  Fallback,     \* fallbackInputBitMaskForFunction: bit of an unassigned function
  Speeds,       \* speeds given to setSpeed, of either sign
  Rates,        \* accelerations and decelerations
  Positions,
  Ramps,        \* "acceleration", "deceleration", or both
  Factory       \* what an operation of a new driver holds

\* Functions of the input register: those whose bits are the binary number of
\* an operation, with what each bit counts, and the others.  HOME and the jogs
\* behave like START and FWD.
OperationFunctions == {"M0", "M1", "M2", "MS0", "MS1", "MS2"}
Weight ==
  [f \in OperationFunctions |->
     CASE f = "M0" -> 1 [] f = "M1" -> 2 [] f = "M2" -> 4
       [] f = "MS0" -> 8 [] f = "MS1" -> 16 [] f = "MS2" -> 32]
Functions   == OperationFunctions \cup {"C-ON", "FWD", "RVS", "START", "STOP"}
Operations  == 0..2
Fields      == {"form", "speed", "position"} \cup Ramps
Incremental == 0      \* MotorOperationMode::Incremental, SingleMotion
StartSpeed  == 1      \* speed and ramps of a new MotorRuntimeState
StartRate   == 1

Abs(v) == IF v < 0 THEN -v ELSE v

\* netInputBitForFunction: the first bit with the function.
Assigned(n, f) == \E b \in Bits : n[b] = f
Line(n, f) ==
  IF Assigned(n, f)
  THEN CHOOSE b \in Bits : n[b] = f /\ \A c \in Bits : n[c] = f => b <= c
  ELSE Fallback[f]
HasLine(n, f) == f = "C-ON" => Assigned(n, f)

ASSUME OperationAssumption ==
  /\ Bits \subseteq Nat
  /\ Assignments \subseteq [Bits -> Functions \cup {"free"}]
  /\ Fallback \in [Functions \ {"C-ON"} -> Bits]
  /\ Speeds \subseteq Int /\ Rates \subseteq Nat /\ Positions \subseteq Nat
  /\ StartRate \in Rates /\ 0 \in Positions
  /\ Ramps \subseteq {"acceleration", "deceleration"}
  /\ Factory \in [Fields -> Int]

\* No two functions share a bit, those that have theirs by fallback included.
\* The code does not check it: a driver without MS2 that has C-ON on the bit MS2
\* falls back to would be switched off by the choice of any operation.
ASSUME NoSharedBits ==
  \A n \in Assignments : \A f, g \in Functions :
    f # g /\ HasLine(n, f) /\ HasLine(n, g) => Line(n, f) # Line(n, g)

VARIABLES
  assigned,   \* driver: its NET-IN parameters, read once by initialize
  register,   \* driver: the bits of the input register that are set
  data,       \* driver: the operation data
  settings,   \* driver: what has become of the configured parameters
  bus,        \* _bus is there, and the motor in _motors and _runtime
  runtime,    \* MotorRuntimeState
  rawCache,   \* Motor::_driverInputCommandRawCache
  opCache,    \* Motor::_selectedOperationIdCache
  caller,     \* on whose behalf the exchanges under way are made
  todo,       \* what is left to do
  astray      \* history: since initialize, a write took effect unnoticed

driver == <<register, data, settings>>
memory == <<bus, runtime, rawCache, opCache>>
vars   == <<assigned, driver, memory, caller, todo, astray>>

Magnitudes == {StartSpeed} \cup {Abs(v) : v \in Speeds}
Values     == Magnitudes \cup Rates \cup Positions \cup {Incremental} \cup {Factory[k] : k \in Fields}
NoCache    == {-1}    \* std::nullopt: not a set of bits

Runtimes ==
  [mode : {"Speed", "Position"}, direction : {"Forward", "Reverse"},
   speed : Magnitudes, ramp : [Ramps -> Rates], position : Positions,
   pair : BOOLEAN, single : BOOLEAN, enabled : BOOLEAN]

FreshRuntime ==
  [mode |-> "Speed", direction |-> "Forward", speed |-> StartSpeed,
   ramp |-> [k \in Ramps |-> StartRate], position |-> 0,
   pair |-> FALSE, single |-> FALSE, enabled |-> TRUE]

----------------------------------------------------------------------------
(* The input register *)

\* setDriverInputFlag, and the mask of Motor::setEnabled.
WithFlag(bits, f, on) ==
  IF on THEN bits \cup {Line(assigned, f)} ELSE bits \ {Line(assigned, f)}

\* operationIdMask, and the bits of operation o.
OperationBits == {Line(assigned, f) : f \in OperationFunctions}
BitsOf(o) ==
  {Line(assigned, f) : f \in {g \in OperationFunctions : (o \div Weight[g]) % 2 = 1}}

\* setSelectedOperationId.
WithOperation(bits, o) == (bits \ OperationBits) \cup BitsOf(o)

\* decodeOperationIdFromInputRawMapped.
Selected(bits) ==
  LET Part(f) == IF Line(assigned, f) \in bits THEN Weight[f] ELSE 0
  IN Part("M0") + Part("M1") + Part("M2") + Part("MS0") + Part("MS1") + Part("MS2")

----------------------------------------------------------------------------
(* What the calls consist of *)

Flag(f, on)    == [do |-> "flag", f |-> f, on |-> on]
Select(o)      == [do |-> "select", o |-> o]
Write(o, k, v) == [do |-> "data", o |-> o, field |-> k, value |-> v]
Read           == [do |-> "read"]
Settings(step) == [do |-> "settings", step |-> step]
Other          == [do |-> "other"]
\* No exchange, but what the code does after one.
Prepared(what) == [do |-> "prepared", what |-> what]
Enabled(on)    == [do |-> "enabled", on |-> on]
Started        == [do |-> "started"]

Exchanges ==
  [do : {"flag"}, f : Functions, on : BOOLEAN]
  \cup [do : {"select"}, o : Operations]
  \cup [do : {"data"}, o : Operations, field : Fields, value : Values]
  \cup [do : {"settings"}, step : {"write", "execute"}]
  \cup [do : {"read", "other"}]
Conclusions ==
  [do : {"prepared"}, what : {"pair", "single"}]
  \cup [do : {"enabled"}, on : BOOLEAN]
  \cup [do : {"started"}]

RampWrites(o, ramp) ==
  (IF "acceleration" \in Ramps
   THEN <<Write(o, "acceleration", ramp["acceleration"])>> ELSE <<>>)
  \o (IF "deceleration" \in Ramps
      THEN <<Write(o, "deceleration", ramp["deceleration"])>> ELSE <<>>)

\* Motor::configureConstantSpeedPair.  "form" is the mode and the function.
PreparePair(r) ==
  IF r.pair THEN <<>>
  ELSE <<Write(0, "form", Incremental), Write(1, "form", Incremental),
         Write(0, "speed", r.speed), Write(1, "speed", r.speed)>>
       \o RampWrites(0, r.ramp) \o RampWrites(1, r.ramp)
       \o <<Select(0), Prepared("pair")>>

PrepareSingle(r) ==
  IF r.single THEN <<>>
  ELSE <<Write(2, "form", Incremental), Write(2, "speed", r.speed)>>
       \o RampWrites(2, r.ramp) \o <<Prepared("single")>>

\* Mutant of UpdateBuffered: the operation that is selected gets the speed.
UpdateInPlace(v) ==
  LET next == IF opCache = 0 THEN 0 ELSE 1
  IN <<Write(next, "speed", v), Select(next)>>

\* Motor::updateConstantSpeedBuffered: the speed goes to the operation that is
\* not selected, which is selected then.
UpdateBuffered(v) ==
  LET next == IF opCache = 0 THEN 1 ELSE 0
  IN <<Write(next, "speed", v), Select(next)>>

Turn(direction) ==
  IF direction = "Forward"
  THEN <<Flag("RVS", FALSE), Flag("FWD", TRUE)>>
  ELSE <<Flag("FWD", FALSE), Flag("RVS", TRUE)>>

Pulse(f) == <<Flag(f, TRUE), Flag(f, FALSE)>>

\* applyConfiguredParameters.  The rotation direction needs the second step.
ApplyParameters == <<Settings("write"), Settings("execute")>>

----------------------------------------------------------------------------
Init ==
  /\ assigned \in Assignments
  /\ register = {}
  /\ data = [o \in Operations |-> Factory]
  /\ settings = "unknown"
  /\ bus = FALSE /\ runtime = FreshRuntime
  /\ rawCache = NoCache /\ opCache = 0
  /\ caller = "none" /\ todo = <<>>
  /\ astray = FALSE

Idle == todo = <<>>

\* A call that makes r of the runtime and then does items.  Without a bus it
\* throws; what it then makes of the runtime is gone with the next initialize.
Call(who, r, items) ==
  /\ Idle /\ bus
  /\ runtime' = r
  /\ todo' = items
  /\ caller' = IF items = <<>> THEN "none" ELSE who
  /\ UNCHANGED <<assigned, driver, bus, opCache, astray>>

(* By the control loop: MachineController makes these calls for an intent *)

SetMode(mode) ==
  LET r == [runtime EXCEPT !.mode = mode]
  IN /\ Call("loop", r, IF mode = "Speed" THEN PreparePair(r) ELSE PrepareSingle(r))
     /\ UNCHANGED rawCache

SetSpeed(v) ==
  LET r == [runtime EXCEPT !.speed = Abs(v)]
  IN /\ Call("loop", r, IF r.mode = "Position" THEN <<>>
                        ELSE IF r.pair THEN UpdateBuffered(r.speed)
                        ELSE PreparePair(r))
     /\ UNCHANGED rawCache

\* Mutant of RampUpdate: only the operation the pair starts with is written.
RampUpdateOnce(k, v) ==
  (IF runtime.pair THEN <<Write(0, k, v)>> ELSE <<>>)
  \o (IF runtime.single THEN <<Write(2, k, v)>> ELSE <<>>)

RampUpdate(k, v) ==
  (IF runtime.pair THEN <<Write(0, k, v), Write(1, k, v)>> ELSE <<>>)
  \o (IF runtime.single THEN <<Write(2, k, v)>> ELSE <<>>)

\* setAcceleration and setDeceleration return early for the value they have.
SetRamp(k, v) ==
  /\ runtime.ramp[k] # v
  /\ Call("loop", [runtime EXCEPT !.ramp[k] = v], RampUpdate(k, v))
  /\ UNCHANGED rawCache

SetPosition(p) ==
  /\ Call("loop", [runtime EXCEPT !.position = p],
          IF runtime.mode = "Speed" THEN <<>>
          ELSE PrepareSingle(runtime) \o <<Write(2, "position", p)>>)
  /\ UNCHANGED rawCache

SetDirection(d) ==
  /\ Call("loop", [runtime EXCEPT !.direction = d], Turn(d))
  /\ UNCHANGED rawCache

StartMovement ==
  /\ runtime.enabled
  /\ Call("loop", runtime,
          IF runtime.mode = "Speed"
          THEN PreparePair(runtime) \o Turn(runtime.direction)
          ELSE PrepareSingle(runtime)
               \o <<Write(2, "position", runtime.position), Select(2)>>
               \o Pulse("START"))
  /\ UNCHANGED rawCache

StopMovement ==
  /\ Call("loop", runtime,
          IF runtime.mode = "Speed"
          THEN <<Flag("FWD", FALSE), Flag("RVS", FALSE)>> ELSE Pulse("STOP"))
  /\ UNCHANGED rawCache

\* The cached register is dropped, the cached operation is not.
OnAlarmCleared ==
  /\ Call("loop", runtime,
          <<Read>> \o (IF Assigned(assigned, "C-ON")
                       THEN <<Flag("C-ON", FALSE)>> ELSE <<>>)
          \o <<Enabled(FALSE)>>)
  /\ rawCache' = NoCache

(* By commands of the operator *)

SetEnabled(on) ==
  /\ Assigned(assigned, "C-ON")
  /\ runtime.enabled # on
  /\ Call("command", runtime, <<Flag("C-ON", on), Enabled(on)>>)
  /\ UNCHANGED rawCache

\* The alarm, if there is one, is reset by an edge on a register of its own;
\* the parameters are applied again in any case.
ResetAlarm(alarm) ==
  /\ Call("guarded", runtime,
          <<Other>> \o (IF alarm THEN <<Other, Other>> ELSE <<>>) \o ApplyParameters)
  /\ UNCHANGED rawCache

\* readInputStatus to readRemoteIoStatus, each under a lock of its own: the
\* input register is read again, the other registers change nothing.
StatusReads == <<Read, Other>>

\* diagnoseCurrentAlarm and diagnoseCurrentWarning.
CodeReads == <<Other>>

\* MotorDiagnostics.
Diagnose ==
  /\ Call("guarded", runtime, StatusReads \o CodeReads)
  /\ UNCHANGED rawCache

\* Motor::initialize: the codes, then the registers and the assignments.
MotorInitialize == <<Other, Read>>

\* The start of the program, and Reconnect: reset, then initialize.
Initialize ==
  /\ Idle
  /\ bus' = TRUE /\ runtime' = FreshRuntime
  /\ rawCache' = NoCache /\ opCache' = 0
  /\ todo' = MotorInitialize \o ApplyParameters \o <<Read, Started>>
  /\ caller' = "initialize"
  /\ UNCHANGED <<assigned, driver, astray>>

----------------------------------------------------------------------------
(* Exchanges *)

Doing(what) == todo # <<>> /\ Head(todo).do \in what

Proceed ==
  /\ todo' = Tail(todo)
  /\ caller' = IF Len(todo) = 1 THEN "none" ELSE caller

NewRegister(i) ==
  IF i.do = "flag" THEN WithFlag(rawCache, i.f, i.on) ELSE WithOperation(rawCache, i.o)

\* Mutant of WriteInput: the cached operation is not renewed.
WriteInputKeepsOperation ==
  /\ Doing({"flag", "select"})
  /\ register' = NewRegister(Head(todo))
  /\ rawCache' = register'
  /\ Proceed
  /\ UNCHANGED <<assigned, data, settings, bus, runtime, opCache, astray>>

\* writeDriverInputCommandRaw: the whole register, from its cached value.
WriteInput ==
  /\ Doing({"flag", "select"})
  /\ register' = NewRegister(Head(todo))
  /\ rawCache' = register'
  /\ opCache' = Selected(register')
  /\ Proceed
  /\ UNCHANGED <<assigned, data, settings, bus, runtime, astray>>

ReadInput ==
  /\ Doing({"read"})
  /\ rawCache' = register
  /\ opCache' = Selected(register)
  /\ astray' = (astray /\ caller # "initialize")
  /\ Proceed
  /\ UNCHANGED <<assigned, driver, bus, runtime>>

WriteData ==
  /\ Doing({"data"})
  /\ data' = [data EXCEPT ![Head(todo).o][Head(todo).field] = Head(todo).value]
  /\ Proceed
  /\ UNCHANGED <<assigned, register, settings, memory, astray>>

Executed(step) ==
  CASE step = "write" /\ settings = "unknown"   -> "written"
    [] step = "execute" /\ settings = "written" -> "inEffect"
    [] OTHER -> settings

WriteSettings ==
  /\ Doing({"settings"})
  /\ settings' = Executed(Head(todo).step)
  /\ Proceed
  /\ UNCHANGED <<assigned, register, data, memory, astray>>

OtherExchange ==
  /\ Doing({"other"})
  /\ Proceed
  /\ UNCHANGED <<assigned, driver, memory, astray>>

\* What initialize makes of C-ON and the alarm.
InitiallyEnabled(alarm) ==
  /\ ~alarm
  /\ Assigned(assigned, "C-ON") => Line(assigned, "C-ON") \in rawCache

Conclude(alarm) ==
  /\ Doing({"prepared", "enabled", "started"})
  /\ LET i == Head(todo) IN
     runtime' =
       CASE i.do = "prepared" /\ i.what = "pair"   -> [runtime EXCEPT !.pair = TRUE]
         [] i.do = "prepared" /\ i.what = "single" -> [runtime EXCEPT !.single = TRUE]
         [] i.do = "enabled" -> [runtime EXCEPT !.enabled = i.on]
         [] i.do = "started" -> [runtime EXCEPT !.enabled = InitiallyEnabled(alarm)]
  /\ Proceed
  /\ UNCHANGED <<assigned, driver, bus, rawCache, opCache, astray>>

\* MotorControl::reset.
Forget ==
  /\ bus' = FALSE /\ runtime' = FreshRuntime
  /\ rawCache' = NoCache /\ opCache' = 0

\* Mutant of Failed: the control loop does not reset MotorControl.
FailedWithoutReset ==
  \/ caller \in {"initialize", "guarded"} /\ Forget
  \/ caller \in {"loop", "command", "guarded"} /\ UNCHANGED memory

\* What an exception does: Machine::controlLoopTasks resets MotorControl,
\* initialize takes back what it did, handleCommunicationFailure closes the bus
\* after a time-out (the motor stays in the maps, but no call gets anywhere
\* before the next initialize), and else only the caller hears of it.
Failed ==
  \/ caller \in {"loop", "initialize", "guarded"} /\ Forget
  \/ caller \in {"command", "guarded"} /\ UNCHANGED memory

\* An exchange fails, before it took effect or after.
ExchangeFails(effect) ==
  /\ Doing({"flag", "select", "data", "settings", "read", "other"})
  /\ LET i == Head(todo) IN
     /\ register' = IF effect /\ i.do \in {"flag", "select"} THEN NewRegister(i)
                    ELSE register
     /\ data' = IF effect /\ i.do = "data"
                THEN [data EXCEPT ![i.o][i.field] = i.value] ELSE data
     /\ settings' = IF effect /\ i.do = "settings" THEN Executed(i.step) ELSE settings
     /\ astray' = (astray \/ (effect /\ i.do \in {"flag", "select"}))
  /\ Failed
  /\ todo' = <<>> /\ caller' = "none"
  /\ UNCHANGED assigned

----------------------------------------------------------------------------
ControlLoop ==
  \/ \E mode \in {"Speed", "Position"} : SetMode(mode)
  \/ \E v \in Speeds : SetSpeed(v)
  \/ \E k \in Ramps, v \in Rates : SetRamp(k, v)
  \/ \E p \in Positions : SetPosition(p)
  \/ \E d \in {"Forward", "Reverse"} : SetDirection(d)
  \/ StartMovement
  \/ StopMovement
  \/ OnAlarmCleared

Operator ==
  \/ \E on \in BOOLEAN : SetEnabled(on)
  \/ \E alarm \in BOOLEAN : ResetAlarm(alarm)
  \/ Diagnose
  \/ Initialize

Exchange ==
  \/ WriteInput \/ ReadInput \/ WriteData \/ WriteSettings \/ OtherExchange
  \/ \E alarm \in BOOLEAN : Conclude(alarm)
  \/ \E effect \in BOOLEAN : ExchangeFails(effect)

Next == ControlLoop \/ Operator \/ Exchange

Spec == Init /\ [][Next]_vars

----------------------------------------------------------------------------
(* Properties *)

\* Every variable has its type.
OperationTypeOK ==
  /\ assigned \in Assignments
  /\ register \subseteq Bits
  /\ data \in [Operations -> [Fields -> Values]]
  /\ settings \in {"unknown", "written", "inEffect"}
  /\ bus \in BOOLEAN
  /\ runtime \in Runtimes
  /\ rawCache \in (SUBSET Bits) \cup {NoCache}
  /\ opCache \in Operations
  /\ caller \in {"none", "loop", "command", "guarded", "initialize"}
  /\ todo \in Seq(Exchanges \cup Conclusions)
  /\ astray \in BOOLEAN

\* Between calls, a motor that is used in speed mode only has selected an
\* operation with the speed and the ramps that it was last told, whichever
\* exchanges have failed before.
RunsAsCommanded ==
  Idle /\ bus /\ runtime.pair /\ ~runtime.single =>
    LET o == Selected(register) IN
    /\ o \in {0, 1}
    /\ data[o]["form"] = Incremental
    /\ data[o]["speed"] = runtime.speed
    /\ \A k \in Ramps : data[o][k] = runtime.ramp[k]

\* Once the pair is prepared, the speed of the one of the two operations that
\* the driver runs is not written: a new speed goes to the other one.
UpdateSparesActive ==
  [][ LET o == Selected(register) IN
      runtime.pair /\ runtime'.pair /\ o \in {0, 1}
      => data'[o]["speed"] = data[o]["speed"] ]_vars

\* A write whose answer was lost leaves the server at most with a wrong C-ON,
\* which the next write of the whole register then undoes; what it remembers of
\* the operation, the direction and the pulses of START and STOP is always what
\* the driver has, for the next write would turn or restart the motor otherwise.
OnlyEnableIsStale ==
  bus /\ rawCache # NoCache =>
    /\ opCache = Selected(register)
    /\ \A b \in Bits :
         (b \in register) # (b \in rawCache)
         => Assigned(assigned, "C-ON") /\ b = Line(assigned, "C-ON")

\* Between calls the parameters are in effect, and unless an answer was lost
\* the caches and the memory of C-ON are what the driver has.
MemoryIsTrue ==
  Idle /\ bus =>
    /\ settings = "inEffect"
    /\ ~astray =>
         /\ rawCache = register
         /\ opCache = Selected(register)
         /\ runtime.enabled /\ Assigned(assigned, "C-ON") =>
              Line(assigned, "C-ON") \in register
=============================================================================
