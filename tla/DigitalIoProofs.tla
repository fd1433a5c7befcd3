---------------------------- MODULE DigitalIoProofs ---------------------------
(***************************************************************************)
(* Proofs about DigitalIo, for any arms.                                   *)
(***************************************************************************)
EXTENDS DigitalIo, TLAPS

\* What is cached in a cycle without a restart are the outputs as they are.
CacheIsTrue ==
    current /\ outCache # None /\ outCache # Invalid => outCache = valve

IoInv == IoTypeOK /\ CacheIsTrue /\ AnsweredMeansMoved /\ StatusIsTrue

-----------------------------------------------------------------------------
(* What the operators yield.                                               *)

LEMMA InputsReadFacts ==
    ASSUME IoTypeOK, NEW in \in InputsRead
    PROVE  in \in Inputs \cup {None, Invalid} /\ (in # Invalid)
BY IoAssumption DEF IoTypeOK, InputsRead

\* Reading the outputs yields nothing, what is cached, or the outputs.
LEMMA OutputsReadFacts ==
    ASSUME IoTypeOK, NEW out \in OutputsRead
    PROVE  /\ out \in Signals \cup {None}
           /\ out = None \/ out = valve \/ (out = outCache /\ outCache # Invalid)
BY IoAssumption DEF IoTypeOK, OutputsRead

\* A state other than Error after both readings needs a client.
LEMMA StateAfterFacts ==
    ASSUME IoTypeOK, NEW in \in InputsRead, NEW out \in OutputsRead
    PROVE  /\ StateAfter(in, out) \in {"Normal", "Error"}
           /\ StateAfter(in, out) = "Normal" => client # "none"
BY IoAssumption DEF IoTypeOK, StateAfter, InputsRead, OutputsRead

\* setOutputs keeps the type, and leaves in the cache what it has written.
LEMMA SetOutputsFacts ==
    ASSUME IoTypeOK, NEW v \in Signals, NEW l \in Signals, NEW o \in Outcomes,
           SetOutputs(v, l, o)
    PROVE  /\ valve' \in Signals /\ light' \in Signals
           /\ outCache' \in Signals \cup {None}
           /\ contecState' \in {"Normal", "Error"}
           /\ contecState' = "Normal" => client = "live"
           /\ outCache' # None => outCache' = v /\ valve' = v
           /\ valve' = valve \/ valve' = v
BY DEF IoTypeOK, SetOutputs, Outcomes

-----------------------------------------------------------------------------
(* The invariant.                                                          *)

LEMMA IoInitInv == IoInit => IoInv
<1> SUFFICES ASSUME IoInit PROVE IoInv
  OBVIOUS
<1>1. ~current /\ CacheIsTrue /\ AnsweredMeansMoved /\ StatusIsTrue
  BY DEF IoInit, CacheIsTrue, AnsweredMeansMoved, StatusIsTrue
<1>2. IoTypeOK
  BY DEF IoInit, IoTypeOK
<1> QED
  BY <1>1, <1>2 DEF IoInv

LEMMA IoNextInv == IoInv /\ [IoNext]_vars => IoInv'
<1> SUFFICES ASSUME IoInv, [IoNext]_vars PROVE IoInv'
  OBVIOUS
<1> USE DEF IoInv
<1>1. CASE BeginCycle
  BY <1>1, IoAssumption
     DEF BeginCycle, IoTypeOK, CacheIsTrue, AnsweredMeansMoved, StatusIsTrue, io, module
<1>2. CASE ControlFails
  BY <1>2 DEF ControlFails, IoTypeOK, CacheIsTrue, AnsweredMeansMoved, StatusIsTrue,
              io, module, caches
<1>3. CASE ControlReads
  <2>1. PICK in \in InputsRead, out \in OutputsRead :
          inCache' = in /\ outCache' = out /\ contecState' = StateAfter(in, out)
    BY <1>3 DEF ControlReads
  <2>2. IoTypeOK'
    BY <1>3, <2>1, InputsReadFacts, OutputsReadFacts, StateAfterFacts
       DEF ControlReads, IoTypeOK, module
  <2>3. CacheIsTrue'
    BY <1>3, <2>1, OutputsReadFacts DEF ControlReads, CacheIsTrue, module
  <2> QED
    BY <1>3, <2>2, <2>3 DEF ControlReads, AnsweredMeansMoved, StatusIsTrue, module
<1>4. ASSUME NEW o \in Outcomes, ControlSetsLights(o) PROVE IoInv'
  <2>1. PICK in \in InputsRead, out \in OutputsRead :
          ~Silent(in, out) /\ inCache' = in /\ SetOutputs(valve, in.prox, o)
    BY <1>4 DEF ControlSetsLights
  <2>2. in \in Inputs
    BY <2>1, InputsReadFacts DEF Silent
  <2>3. in.prox \in Signals /\ valve \in Signals
    BY <2>2 DEF Inputs, IoTypeOK
  <2>4. /\ valve' = valve /\ light' \in Signals
        /\ outCache' \in Signals \cup {None}
        /\ contecState' \in {"Normal", "Error"}
        /\ contecState' = "Normal" => client = "live"
        /\ outCache' # None => outCache' = valve
    BY <2>1, <2>3, SetOutputsFacts
  <2> QED
    BY <1>4, <2>1, <2>2, <2>4
       DEF ControlSetsLights, IoTypeOK, CacheIsTrue, AnsweredMeansMoved, StatusIsTrue
<1>5. ASSUME NEW c \in Commands, ToolChangerRefused(c) PROVE IoInv'
  BY <1>5 DEF ToolChangerRefused, IoTypeOK, CacheIsTrue, AnsweredMeansMoved, StatusIsTrue,
              io, module, caches
<1>6. ASSUME NEW c \in Commands, NEW o \in Outcomes, ToolChanger(c, o) PROVE IoInv'
  <2> DEFINE v == [valve EXCEPT ![c.arm] = c.open]
  <2>1. v \in Signals /\ v[c.arm] = c.open /\ light \in Signals
    BY DEF IoTypeOK, Signals, Commands
  <2>2. SetOutputs(v, light, o)
    BY <1>6 DEF ToolChanger
  <2> HIDE DEF v
  <2>3. /\ valve' \in Signals /\ light' \in Signals
        /\ outCache' \in Signals \cup {None}
        /\ contecState' \in {"Normal", "Error"}
        /\ contecState' = "Normal" => client = "live"
        /\ outCache' # None => outCache' = v /\ valve' = v
    BY <2>1, <2>2, SetOutputsFacts
  <2> QED
    BY <1>6, <2>1, <2>3
       DEF ToolChanger, IoTypeOK, CacheIsTrue, AnsweredMeansMoved, StatusIsTrue
<1>7. ASSUME NEW ok \in BOOLEAN, ContecDiagnostics(ok) PROVE IoInv'
  BY <1>7 DEF ContecDiagnostics, ClientsEnsured, IoTypeOK, CacheIsTrue, AnsweredMeansMoved,
              StatusIsTrue, module, caches
<1>8. ASSUME NEW ok \in BOOLEAN, ReconnectContec(ok) PROVE IoInv'
  BY <1>8 DEF ReconnectContec, ClientsEnsured, IoTypeOK, CacheIsTrue, AnsweredMeansMoved,
              StatusIsTrue, module, caches
<1>9. CASE OtherCommand
  BY <1>9 DEF OtherCommand, IoTypeOK, CacheIsTrue, AnsweredMeansMoved, StatusIsTrue,
              io, module, caches
<1>10. CASE NoUpdate
  <2>1. ~current' /\ CacheIsTrue' /\ AnsweredMeansMoved' /\ StatusIsTrue'
    BY <1>10 DEF NoUpdate, CacheIsTrue, AnsweredMeansMoved, StatusIsTrue
  <2>2. IoTypeOK'
    <3>1. current' \in BOOLEAN
      BY <1>10 DEF NoUpdate
    <3> QED
      BY <1>10, <3>1 DEF NoUpdate, IoTypeOK, io, module, caches
  <2> QED
    BY <2>1, <2>2
<1>11. ASSUME phase = "status", ShowError \/ ShowSignals, UNCHANGED module
       PROVE  /\ inCache' \in Inputs \cup {None, Invalid}
              /\ outCache' \in Signals \cup {None, Invalid}
              /\ shown' \in [led : {"none", "On", "Error"}, prox : Signals \cup {None},
                             valve : Signals \cup {None}, safety : {"on", "off", "unknown"}]
              /\ current /\ outCache' # None /\ outCache' # Invalid => outCache' = valve'
              /\ current /\ shown'.valve # None => shown'.valve = valve'
              /\ StateAfterUpdate \in {"Normal", "Error"}
              /\ StateAfterUpdate = "Normal" => client # "none"
  <2>1. CASE ShowError
    BY <2>1, <1>11 DEF ShowError, StateAfterUpdate, IoTypeOK, CacheIsTrue, module, caches
  <2>2. CASE ShowSignals
    <3>1. PICK in \in InputsRead, out \in OutputsRead :
            /\ shown' = [led |-> "On",
                         prox |-> IF in = None THEN None ELSE in.prox,
                         valve |-> out,
                         safety |-> IF in = None THEN "unknown" ELSE in.safety]
            /\ inCache' = in
            /\ outCache' = out
      BY <2>2 DEF ShowSignals
    <3>2. in \in Inputs \cup {None} /\ out \in Signals \cup {None}
      BY InputsReadFacts, OutputsReadFacts
    <3>3. current /\ out # None => out = valve'
      BY <1>11, OutputsReadFacts DEF CacheIsTrue, module
    <3>4. shown' \in [led : {"none", "On", "Error"}, prox : Signals \cup {None},
                      valve : Signals \cup {None}, safety : {"on", "off", "unknown"}]
      BY <3>1, <3>2 DEF Inputs
    <3>5. StateAfterUpdate = StateAfter(in, out)
      BY <2>2, <3>1 DEF ShowSignals, StateAfterUpdate
    <3> QED
      BY <3>1, <3>2, <3>3, <3>4, <3>5, StateAfterFacts
  <2> QED
    BY <1>11, <2>1, <2>2
<1>12. CASE UpdateStatus
  BY <1>12, <1>11 DEF UpdateStatus, IoTypeOK, CacheIsTrue, AnsweredMeansMoved, StatusIsTrue, module
<1>13. CASE PublishFails
  BY <1>13, <1>11 DEF PublishFails, IoTypeOK, CacheIsTrue, AnsweredMeansMoved, StatusIsTrue, module
<1>14. CASE ModuleRestarts
  <2>1. ~current' /\ CacheIsTrue' /\ AnsweredMeansMoved' /\ StatusIsTrue'
    BY <1>14 DEF ModuleRestarts, CacheIsTrue, AnsweredMeansMoved, StatusIsTrue
  <2>2. IoTypeOK'
    <3>1. current' \in BOOLEAN
      BY <1>14 DEF ModuleRestarts
    <3>2. valve' \in Signals /\ light' \in Signals
      BY <1>14 DEF ModuleRestarts, Signals
    <3> QED
      BY <1>14, <3>1, <3>2 DEF ModuleRestarts, IoTypeOK, caches
  <2> QED
    BY <2>1, <2>2
<1>15. CASE UNCHANGED vars
  BY <1>15 DEF vars, io, module, caches, IoTypeOK, CacheIsTrue, AnsweredMeansMoved, StatusIsTrue
<1> QED
  BY <1>1, <1>2, <1>3, <1>4, <1>5, <1>6, <1>7, <1>8, <1>9, <1>10, <1>12, <1>13, <1>14, <1>15
     DEF IoNext

THEOREM IoInvariance == IoSpec => []IoInv
BY IoInitInv, IoNextInv, PTL DEF IoSpec

-----------------------------------------------------------------------------
(* The theorems.                                                           *)

\* Every variable keeps its type, and Contec is Normal only with a client.
THEOREM IoTypes == IoSpec => []IoTypeOK
BY IoInvariance, PTL DEF IoInv

\* A tool changer command answered OK has moved its valve.
THEOREM AnswersAreHonest == IoSpec => []AnsweredMeansMoved
BY IoInvariance, PTL DEF IoInv

\* The published status shows the valves as they are, or as unknown.
THEOREM StatusIsHonest == IoSpec => []StatusIsTrue
BY IoInvariance, PTL DEF IoInv

\* Valves move by commands for them only, or close when the module restarts.
THEOREM OnlyCommandsMove == IoSpec => ValvesObeyCommands
<1> DEFINE Obeys == \A a \in Arms : valve'[a] # valve[a] =>
                      \/ phase = "command" /\ asked' = [arm |-> a, open |-> valve'[a]]
                      \/ ~valve'[a] /\ client' # "live"
<1>1. ASSUME IoInv, [IoNext]_vars PROVE [Obeys]_vars
  <2>1. ASSUME NEW o \in Outcomes, ControlSetsLights(o) PROVE valve' = valve
    BY <2>1 DEF ControlSetsLights, SetOutputs
  <2>2. ASSUME NEW c \in Commands, NEW o \in Outcomes, ToolChanger(c, o) PROVE Obeys
    <3>1. /\ phase = "command" /\ asked' = c
          /\ valve' = valve \/ valve' = [valve EXCEPT ![c.arm] = c.open]
      BY <2>2 DEF ToolChanger, SetOutputs
    <3>2. valve \in [Arms -> BOOLEAN] /\ c.arm \in Arms /\ c = [arm |-> c.arm, open |-> c.open]
      BY <1>1 DEF IoInv, IoTypeOK, Signals, Commands
    <3>3. SUFFICES ASSUME NEW a \in Arms, valve'[a] # valve[a]
                   PROVE  asked' = [arm |-> a, open |-> valve'[a]]
      BY <3>1
    <3>4. a = c.arm /\ valve'[a] = c.open
      BY <3>1, <3>2, <3>3
    <3> QED
      BY <3>1, <3>2, <3>4
  <2>3. ASSUME ModuleRestarts PROVE Obeys
    BY <2>3 DEF ModuleRestarts
  <2>4. ASSUME \/ BeginCycle \/ ControlFails \/ ControlReads \/ OtherCommand \/ NoUpdate
               \/ UpdateStatus \/ PublishFails
               \/ \E c \in Commands : ToolChangerRefused(c)
               \/ \E ok \in BOOLEAN : ContecDiagnostics(ok) \/ ReconnectContec(ok)
        PROVE  valve' = valve
    BY <2>4 DEF BeginCycle, ControlFails, ControlReads, OtherCommand, NoUpdate, UpdateStatus,
                PublishFails, ToolChangerRefused, ContecDiagnostics, ReconnectContec, module
  <2>5. valve' = valve => Obeys
    OBVIOUS
  <2> HIDE DEF Obeys
  <2> QED
    BY <1>1, <2>1, <2>2, <2>3, <2>4, <2>5 DEF IoNext
<1>2. IoSpec => []IoInv /\ [][IoNext]_vars
  BY IoInvariance, PTL DEF IoSpec
<1> QED
  BY <1>1, <1>2, PTL DEF ValvesObeyCommands

\* In the state Error both readings yield nothing new, and leave it at that.
LEMMA ErrorStays ==
    ASSUME IoTypeOK, contecState = "Error", NEW in \in InputsRead, NEW out \in OutputsRead
    PROVE  StateAfter(in, out) = "Error"
BY DEF InputsRead, OutputsRead, StateAfter

\* Contec leaves the state Error by a command only, and until then nothing is
\* written to its outputs.
THEOREM OnlyOperatorsClear == IoSpec => ErrorNeedsOperator
<1> DEFINE Stays == contecState = "Error" =>
                      /\ contecState' = "Normal" => phase = "command"
                      /\ module' = module \/ client' # "live"
<1>1. ASSUME IoInv, [IoNext]_vars PROVE [Stays]_vars
  <2>1. ASSUME ControlReads PROVE Stays
    <3>1. PICK in \in InputsRead, out \in OutputsRead : contecState' = StateAfter(in, out)
      BY <2>1 DEF ControlReads
    <3>2. contecState = "Error" => contecState' = "Error"
      BY <1>1, <3>1, ErrorStays DEF IoInv
    <3> QED
      BY <2>1, <3>2 DEF ControlReads
  <2>2. ASSUME NEW o \in Outcomes, ControlSetsLights(o) PROVE contecState # "Error"
    <3>1. PICK in \in InputsRead, out \in OutputsRead : ~Silent(in, out)
      BY <2>2 DEF ControlSetsLights
    <3> QED
      BY <1>1, <3>1, ErrorStays DEF IoInv, Silent
  <2>3. ASSUME \/ BeginCycle \/ ControlFails \/ OtherCommand \/ NoUpdate \/ ModuleRestarts
               \/ \E c \in Commands : ToolChangerRefused(c)
        PROVE  Stays
    BY <2>3 DEF BeginCycle, ControlFails, OtherCommand, NoUpdate, ModuleRestarts,
                ToolChangerRefused, io
  <2>4. ASSUME NEW c \in Commands, NEW o \in Outcomes, ToolChanger(c, o) PROVE Stays
    BY <2>4 DEF ToolChanger
  <2>5. ASSUME \E ok \in BOOLEAN : ContecDiagnostics(ok) \/ ReconnectContec(ok) PROVE Stays
    BY <2>5 DEF ContecDiagnostics, ReconnectContec
  <2>6. ASSUME UpdateStatus \/ PublishFails PROVE Stays
    BY <2>6 DEF UpdateStatus, PublishFails, StateAfterUpdate
  <2>7. contecState # "Error" => Stays
    OBVIOUS
  <2> HIDE DEF Stays
  <2> QED
    BY <1>1, <2>1, <2>2, <2>3, <2>4, <2>5, <2>6, <2>7 DEF IoNext
<1>2. IoSpec => []IoInv /\ [][IoNext]_vars
  BY IoInvariance, PTL DEF IoSpec
<1> QED
  BY <1>1, <1>2, PTL DEF ErrorNeedsOperator
===============================================================================
