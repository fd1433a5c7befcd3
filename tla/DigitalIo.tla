------------------------------- MODULE DigitalIo ------------------------------
(***************************************************************************)
(* The digital signals: Contec's connection, the copies of the signals     *)
(* that Machine keeps for one cycle, the light outputs that the policy     *)
(* sets, the tool changer commands, and the part of the status they feed.  *)
(*                                                                         *)
(* The I/O module (external) has a tool changer valve and a light for each *)
(* arm as outputs, and a proximity button for each arm and the safety      *)
(* relay as inputs.  Inputs change at any time, so reading them gives any  *)
(* value.  All outputs are written together: to change one, setOutputs     *)
(* reads them all and writes them back.                                    *)
(*                                                                         *)
(* The module may lose its power, which clears its outputs and kills the   *)
(* connection.  That can happen between any two steps; in the middle of    *)
(* one, it is the same as failing exchanges followed by the restart.       *)
(*                                                                         *)
(* The signal mappings are taken to lie within the module's channels.  Of  *)
(* the tool changer flags those of the sensor and the valves are modelled; *)
(* what makeDummyStatus makes of them is left out, since every update sets *)
(* them before it publishes.                                               *)
(***************************************************************************)
EXTENDS Naturals

CONSTANTS
    Arms,           \* the arms with a tool changer
    None,           \* nullopt: the signals could not be read
    Invalid         \* nothing is cached in this cycle

Signals == [Arms -> BOOLEAN]
Inputs == [prox : Signals, safety : {"on", "off"}]

ASSUME IoAssumption ==
    /\ None \notin Signals \cup Inputs
    /\ Invalid \notin Signals \cup Inputs \cup {None}

VARIABLES
    phase,          \* what the process thread does next
    contecState,    \* Contec's state
    client,         \* _modbus: "none", or with a connection that is "live" or "dead"
    valve,          \* the module: tool changer valves, open or closed
    light,          \* the module: lights
    inCache,        \* _inputSignalsCache
    outCache,       \* _outputSignalsCache; only the valves are ever read from it
    shown,          \* the status as last updated: LED of Contec, flags, safety
    asked,          \* history: the tool changer command of this cycle
    reply,          \* history: how it was answered
    current         \* history: published in this cycle, no restart since it began

io == <<contecState, client>>
module == <<valve, light>>
caches == <<inCache, outCache>>
vars == <<phase, io, module, caches, shown, asked, reply, current>>

Commands == [arm : Arms, open : BOOLEAN]

IoInit ==
    /\ phase = "begin"
    /\ \/ contecState = "Error" /\ client \in {"none", "live"}
       \/ contecState = "Normal" /\ client = "live"
    /\ valve \in Signals
    /\ light \in Signals
    /\ inCache = Invalid
    /\ outCache = Invalid
    /\ shown = [led |-> "none", prox |-> None, valve |-> None, safety |-> "unknown"]
    /\ asked = None
    /\ reply = "none"
    /\ current = FALSE

-----------------------------------------------------------------------------
(* Reading and writing.                                                    *)

\* readInputSignals: the copy of this cycle, nothing in the state Error, or what
\* an exchange yields.
InputsRead ==
    IF inCache # Invalid THEN {inCache}
    ELSE {None} \cup (IF contecState = "Normal" /\ client = "live" THEN Inputs ELSE {})

\* readOutputSignals.
OutputsRead ==
    IF outCache # Invalid THEN {outCache}
    ELSE {None} \cup (IF contecState = "Normal" /\ client = "live" THEN {valve} ELSE {})

\* Mutant of StateAfter: signals that were not read in the state Error count as
\* a success.
StateAfterForgets(in, out) ==
    IF contecState = "Normal" /\ (in = None \/ out = None) THEN "Error" ELSE "Normal"

\* Contec's state after both: each exchange sets it to its outcome.
StateAfter(in, out) ==
    IF (inCache = Invalid /\ in = None) \/ (outCache = Invalid /\ out = None) THEN "Error"
    ELSE IF inCache = Invalid \/ outCache = Invalid THEN "Normal"
    ELSE contecState

\* The exchanges of setOutputs: all is well, nothing was written, or the outputs
\* were written and the answer got lost.
Outcomes == {o \in {"ok", "lost", "late"} : o # "lost" => client = "live"}

\* Mutant of SetOutputs: the exception handler leaves the cache alone.
SetOutputsKeepsCache(v, l, outcome) ==
    /\ outcome \in Outcomes
    /\ valve' = IF outcome = "lost" THEN valve ELSE v
    /\ light' = IF outcome = "lost" THEN light ELSE l
    /\ outCache' = IF outcome = "ok" \/ outCache # Invalid THEN v ELSE None
    /\ contecState' = IF outcome = "ok" THEN "Normal" ELSE "Error"

\* setOutputs with a healthy Contec: v and l are the outputs read before, with
\* the signals of the caller in place.
SetOutputs(v, l, outcome) ==
    /\ outcome \in Outcomes
    /\ valve' = IF outcome = "lost" THEN valve ELSE v
    /\ light' = IF outcome = "lost" THEN light ELSE l
    /\ outCache' = IF outcome = "ok" THEN v ELSE None
    /\ contecState' = IF outcome = "ok" THEN "Normal" ELSE "Error"

-----------------------------------------------------------------------------
(* One cycle: the copies of the last cycle go, then control, a command and *)
(* a status update.                                                        *)

\* Mutant of BeginCycle: the copy of the outputs stays.
BeginCycleKeepsOutputs ==
    /\ phase = "begin"
    /\ inCache' = Invalid
    /\ asked' = None
    /\ reply' = "none"
    /\ current' = TRUE
    /\ phase' = "control"
    /\ UNCHANGED <<io, module, shown, outCache>>

BeginCycle ==
    /\ phase = "begin"
    /\ inCache' = Invalid
    /\ outCache' = Invalid
    /\ asked' = None
    /\ reply' = "none"
    /\ current' = TRUE
    /\ phase' = "control"
    /\ UNCHANGED <<io, module, shown>>

\* onAlarmCleared throws before the policy is asked.
ControlFails ==
    /\ phase = "control"
    /\ phase' = "command"
    /\ UNCHANGED <<io, module, caches, shown, asked, reply, current>>

\* The arguments of decide are evaluated in any order, so each of the readings
\* may be the one that fails first.  Without inputs, or with a Contec in error,
\* now or in the last status, the policy sets no outputs.
Silent(in, out) ==
    StateAfter(in, out) = "Error" \/ in = None \/ shown.led # "On"

ControlReads ==
    /\ phase = "control"
    /\ \E in \in InputsRead, out \in OutputsRead :
         /\ Silent(in, out)
         /\ inCache' = in
         /\ outCache' = out
         /\ contecState' = StateAfter(in, out)
    /\ phase' = "command"
    /\ UNCHANGED <<client, module, shown, asked, reply, current>>

ControlSetsLights(outcome) ==
    /\ phase = "control"
    /\ \E in \in InputsRead, out \in OutputsRead :
         /\ ~Silent(in, out)
         /\ inCache' = in
         /\ SetOutputs(valve, in.prox, outcome)
    /\ phase' = "command"
    /\ UNCHANGED <<client, shown, asked, reply, current>>

-----------------------------------------------------------------------------
(* Commands.                                                               *)

\* handleToolChangerCommand in the state Error throws.
ToolChangerRefused(c) ==
    /\ phase = "command"
    /\ contecState = "Error"
    /\ asked' = c
    /\ reply' = "failed"
    /\ phase' = "status"
    /\ UNCHANGED <<io, module, caches, shown, current>>

\* Mutant of ToolChanger: the outputs that are not asked for are cleared.
ToolChangerClearsOthers(c, outcome) ==
    /\ phase = "command"
    /\ contecState = "Normal"
    /\ SetOutputs([a \in Arms |-> a = c.arm /\ c.open], light, outcome)
    /\ asked' = c
    /\ reply' = IF outCache' = None THEN "failed" ELSE "ok"
    /\ phase' = "status"
    /\ UNCHANGED <<client, inCache, shown, current>>

\* Otherwise it sets the output and looks for it in the signals cached by that.
ToolChanger(c, outcome) ==
    /\ phase = "command"
    /\ contecState = "Normal"
    /\ SetOutputs([valve EXCEPT ![c.arm] = c.open], light, outcome)
    /\ asked' = c
    /\ reply' = IF outCache' = None THEN "failed" ELSE "ok"
    /\ phase' = "status"
    /\ UNCHANGED <<client, inCache, shown, current>>

\* ensureModbusClient: a client once made is kept, whatever became of its
\* connection; without one a connection is tried.
ClientsEnsured(c) == IF c = "none" THEN {"none", "live"} ELSE {c}

\* handleContecDiagnosticsCommand reads past the caches and past the state.
ContecDiagnostics(ok) ==
    /\ phase = "command"
    /\ client' \in ClientsEnsured(client)
    /\ ok => client' = "live"
    /\ contecState' = IF ok THEN "Normal" ELSE "Error"
    /\ phase' = "status"
    /\ UNCHANGED <<module, caches, shown, asked, reply, current>>

\* reconnectComponent: reset, then initialize, which reads the outputs.
ReconnectContec(ok) ==
    /\ phase = "command"
    /\ client' \in ClientsEnsured("none")
    /\ ok => client' = "live"
    /\ contecState' = IF ok THEN "Normal" ELSE "Error"
    /\ phase' = "status"
    /\ UNCHANGED <<module, caches, shown, asked, reply, current>>

OtherCommand ==
    /\ phase = "command"
    /\ phase' = "status"
    /\ UNCHANGED <<io, module, caches, shown, asked, reply, current>>

-----------------------------------------------------------------------------
(* The status update.                                                      *)

NoUpdate ==
    /\ phase = "status"
    /\ current' = FALSE
    /\ phase' = "begin"
    /\ UNCHANGED <<io, module, caches, shown, asked, reply>>

\* Contec in error: its LED and all tool changer flags say so; the safety signal
\* is not touched.
ShowError ==
    /\ contecState = "Error"
    /\ shown' = [shown EXCEPT !.led = "Error", !.prox = None, !.valve = None]
    /\ UNCHANGED caches

\* Otherwise what can be read, the inputs first.  The LED was set before that.
ShowSignals ==
    /\ contecState = "Normal"
    /\ \E in \in InputsRead, out \in OutputsRead :
         /\ inCache = Invalid /\ in = None /\ outCache = Invalid => out = None
         /\ shown' = [led |-> "On",
                      prox |-> IF in = None THEN None ELSE in.prox,
                      valve |-> out,
                      safety |-> IF in = None THEN "unknown" ELSE in.safety]
         /\ inCache' = in
         /\ outCache' = out

StateAfterUpdate ==
    IF contecState = "Error" THEN "Error" ELSE StateAfter(inCache', outCache')

UpdateStatus ==
    /\ phase = "status"
    /\ ShowError \/ ShowSignals
    /\ contecState' = StateAfterUpdate
    /\ phase' = "begin"
    /\ UNCHANGED <<client, module, asked, reply, current>>

\* publish throws, and the handler of the cycle resets what is not in error.
PublishFails ==
    /\ phase = "status"
    /\ ShowError \/ ShowSignals
    /\ contecState' = "Error"
    /\ client' = IF StateAfterUpdate = "Error" THEN client ELSE "none"
    /\ current' = FALSE
    /\ phase' = "begin"
    /\ UNCHANGED <<module, asked, reply>>

-----------------------------------------------------------------------------
\* The module loses its power (external).
ModuleRestarts ==
    /\ valve' = [a \in Arms |-> FALSE]
    /\ light' = [a \in Arms |-> FALSE]
    /\ client' = IF client = "none" THEN "none" ELSE "dead"
    /\ current' = FALSE
    /\ UNCHANGED <<phase, contecState, caches, shown, asked, reply>>

IoNext ==
    \/ BeginCycle
    \/ ControlFails
    \/ ControlReads
    \/ \E o \in Outcomes : ControlSetsLights(o)
    \/ \E c \in Commands : ToolChangerRefused(c)
    \/ \E c \in Commands, o \in Outcomes : ToolChanger(c, o)
    \/ \E ok \in BOOLEAN : ContecDiagnostics(ok)
    \/ \E ok \in BOOLEAN : ReconnectContec(ok)
    \/ OtherCommand
    \/ NoUpdate
    \/ UpdateStatus
    \/ PublishFails
    \/ ModuleRestarts

IoSpec == IoInit /\ [][IoNext]_vars

-----------------------------------------------------------------------------
(* Properties.                                                             *)

IoTypeOK ==
    /\ phase \in {"begin", "control", "command", "status"}
    /\ contecState \in {"Normal", "Error"}
    /\ client \in {"none", "live", "dead"}
    /\ contecState = "Normal" => client # "none"
    /\ valve \in Signals
    /\ light \in Signals
    /\ inCache \in Inputs \cup {None, Invalid}
    /\ outCache \in Signals \cup {None, Invalid}
    /\ shown \in [led : {"none", "On", "Error"}, prox : Signals \cup {None},
                  valve : Signals \cup {None}, safety : {"on", "off", "unknown"}]
    /\ asked \in Commands \cup {None}
    /\ reply \in {"none", "ok", "failed"}
    /\ current \in BOOLEAN

\* A tool changer command that was answered OK has moved the valve, although the
\* handler never sees whether the write succeeded, and reads the output back
\* from a copy (unless the module has restarted in the same cycle).
AnsweredMeansMoved ==
    reply = "ok" /\ current => valve[asked.arm] = asked.open

\* A valve moves only by a command for its arm, or closes when the module
\* restarts: rewriting all outputs for a light or for the other arm keeps it.
ValvesObeyCommands ==
    [][\A a \in Arms : valve'[a] # valve[a] =>
          \/ phase = "command" /\ asked' = [arm |-> a, open |-> valve'[a]]
          \/ ~valve'[a] /\ client' # "live"]_vars

\* The status published in a cycle shows the valves as they are, or as unknown:
\* also after a write that failed with effect, and in a cycle whose copies are
\* older than a command.
StatusIsTrue ==
    phase = "begin" /\ current /\ shown.valve # None => shown.valve = valve

\* Contec leaves the state Error only by a command of the operator, and in that
\* state the module's outputs are not written.
ErrorNeedsOperator ==
    [][contecState = "Error" =>
          /\ contecState' = "Normal" => phase = "command"
          /\ module' = module \/ client' # "live"]_vars
===============================================================================
