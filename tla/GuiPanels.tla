----------------------------- MODULE GuiPanels -----------------------------
(***************************************************************************)
(* The widgets of the GUI on top of GuiLink: the motor panel, which keeps  *)
(* one slot for the kind of its last request although several may be under *)
(* way, and the reset controls, tool changers and the Contec panel, whose  *)
(* responses nothing depends on.                                           *)
(***************************************************************************)
EXTENDS GuiLink

VARIABLES
  controls,   \* what ResetControls and the ToolChangers show
  panelOpen,  \* the motor panel was created
  selected,   \* its selected motor
  slot,       \* MotorPanelWindow::_pendingRequest
  shown,      \* what its diagnostics show: nothing, an error, a motor
  changed,    \* history: a command of the panel was carried out since the
              \* machine last answered a request for diagnostics
  failed      \* history: a request of the panel failed since it was idle

panelVars == <<panelOpen, selected, slot, shown, changed, failed>>
widgets == <<controls, panelVars>>
vars == <<linkVars, widgets>>

FirstMotor == CHOOSE m \in Motors : TRUE
MotorCommand(kind, m) == [kind |-> kind, motor |-> m]
Diagnostics(m) == MotorCommand("diagnostics", m)

\* No request of the GUI is under way, not even one given up by the GUI.
Idle == pending = {} /\ outgoing = {} /\ AtServer = {}

\* The lamps and buttons of the controls, as they are built, for a status and
\* for the lack of one.  Only as built a ToolChanger has its buttons enabled
\* and a ResetControls not.
AsBuilt == "asBuilt"
ViewModel(status) == IF status THEN "live" ELSE "dark"

PanelInit ==
  /\ Init
  /\ controls = AsBuilt
  /\ panelOpen = FALSE /\ selected = "none" /\ slot = "none" /\ shown = "-"
  /\ changed = FALSE /\ failed = FALSE

----------------------------------------------------------------------------
(* Operator *)

\* MainWindow::openMotorPanel
OpenPanel ==
  /\ mainPc = "loop" /\ ~panelOpen
  /\ panelOpen' = TRUE
  /\ UNCHANGED <<linkVars, controls, selected, slot, shown, changed, failed>>

\* The panel emits cs; the slot keeps the kind of the last of them.
Request(cs) ==
  /\ Operate(cs, 0)
  /\ slot' = cs[Len(cs)].kind
  /\ failed' = (failed /\ ~Idle)
  /\ UNCHANGED <<controls, panelOpen, shown, changed>>

\* The refresh button or the timer, the reset, enable and disable buttons.
PressButton(kind) ==
  /\ selected # "none"
  /\ Request(<<MotorCommand(kind, selected)>>)
  /\ UNCHANGED selected

\* Another motor in the selector: currentIndexChanged asks for diagnostics.
\* MainWindow::openMotorPanelForMotor asks once more.
ChooseMotor(m, times) ==
  /\ selected \notin {"none", m}
  /\ selected' = m
  /\ Request([i \in 1..times |-> Diagnostics(m)])

CloseWindow ==
  /\ Stop
  /\ controls' = AsBuilt
  /\ panelOpen' = FALSE /\ selected' = "none" /\ slot' = "none" /\ shown' = "-"
  /\ changed' = FALSE /\ failed' = FALSE

OtherCommand ==
  /\ Operate(<<[kind |-> "other"]>>, 1)
  /\ UNCHANGED widgets

\* The buttons of ResetControls; the emergency stop is always enabled.
PressResetControl(emergency) ==
  /\ emergency \/ controls = "live"
  /\ OtherCommand

\* A ToolChanger asks first, in a dialog of its own, during which events are
\* handled: the answer may come when its buttons are disabled again.
AnswerToolChanger == OtherCommand

\* Its refresh button or its timer.
RefreshContec == OtherCommand

----------------------------------------------------------------------------
(* Events of the link *)

\* The presenters, on statusUpdated.
ControlsShowStatus == controls' = ViewModel(TRUE)

\* The presenters, on connectionChanged(false), which is only emitted when the
\* store has taken itself for connected.
ControlsShowLoss == controls' = IF connected THEN ViewModel(FALSE) ELSE controls

\* MotorPanelWindow::setRobotStatus: the first status fills the selector,
\* whose first entry, if there is one, becomes the selected motor.
ShowStatus ==
  /\ ControlsShowStatus
  /\ IF panelOpen /\ selected = "none" /\ Motors # {}
     THEN /\ HandleStatus(<<Diagnostics(FirstMotor)>>)
          /\ selected' = FirstMotor
          /\ slot' = "diagnostics"
          /\ failed' = (failed /\ ~Idle)
          /\ UNCHANGED <<panelOpen, shown, changed>>
     ELSE /\ HandleStatus(<<>>)
          /\ UNCHANGED panelVars

ShowLoss == HandleLost /\ ControlsShowLoss /\ UNCHANGED panelVars

\* updateFromDiagnostics, for a payload that may be empty, and the text of an
\* error.
Displayed(e) ==
  IF e.result = "error" THEN "error" ELSE IF e.payload = "none" THEN "-" ELSE e.payload

\* What processResponse shows of an answer that asks for no more.
Show(e) ==
  /\ HandleResponse([id |-> e.id, consumer |-> TRUE], <<>>)
  /\ slot' = "none"
  /\ shown' = Displayed(e)
  /\ failed' = (failed \/ e.result = "error")
  /\ UNCHANGED <<controls, panelOpen, selected, changed>>

\* Mutant of MotorResponse: the slot is not read, no new diagnostics.
MotorResponseNoRefresh(e) == Show(e)

\* MotorPanelWindow::processResponse: what an answer means depends on the
\* slot, not on the request that was answered.
MotorResponse(e) ==
  \/ /\ e.result = "ok" /\ slot = "change"
     /\ HandleResponse([id |-> e.id, consumer |-> TRUE], <<Diagnostics(selected)>>)
     /\ slot' = "diagnostics"
     /\ UNCHANGED <<controls, panelOpen, selected, shown, changed, failed>>
  \/ /\ ~(e.result = "ok" /\ slot = "change")
     /\ Show(e)

\* A result that the panel does not get: there was no answer, which is only
\* reported in a window of its own, or the request was not the panel's.
NoConsumer(p) ==
  /\ HandleResponse(p, <<>>)
  /\ failed' = (failed \/ p.consumer)
  /\ UNCHANGED <<controls, panelOpen, selected, slot, shown, changed>>

ShowResponse ==
  /\ events # <<>> /\ Head(events).type = "response"
  /\ \E p \in pending :
       /\ p.id = Head(events).id
       /\ IF p.consumer /\ Head(events).result # "failed"
          THEN MotorResponse(Head(events))
          ELSE NoConsumer(p)

\* The machine carries a command out.
Serve(status) ==
  /\ AnswerRequest(status)
  /\ LET kind == serving.request.command.kind
     IN changed' = CASE mainPc # "loop" \/ (kind = "diagnostics" /\ status = "ok") -> FALSE
                     [] mainPc = "loop" /\ kind = "change" -> TRUE
                     [] OTHER -> changed
  /\ UNCHANGED <<controls, panelOpen, selected, slot, shown, failed>>

----------------------------------------------------------------------------
Operator ==
  \/ OpenPanel
  \/ \E kind \in {"diagnostics", "change"} : PressButton(kind)
  \/ \E m \in Motors, times \in 1..2 : ChooseMotor(m, times)
  \/ \E emergency \in BOOLEAN : PressResetControl(emergency)
  \/ AnswerToolChanger
  \/ RefreshContec
  \/ CloseWindow

HandleEvent ==
  \/ ShowStatus
  \/ ShowLoss
  \/ ShowResponse

Ended == mainPc = "done" /\ UNCHANGED vars

Next ==
  \/ Operator
  \/ HandleEvent
  \/ Join /\ UNCHANGED widgets
  \/ Worker /\ UNCHANGED widgets
  \/ ServerSide /\ UNCHANGED widgets
  \/ \E status \in Outcomes : Serve(status)
  \/ Ended

Spec == PanelInit /\ [][Next]_vars

\* The Qt event loop, join and the worker thread are scheduled; nothing is
\* assumed of the operator, the server and the transport.
FairSpec == Spec /\ WF_vars(HandleEvent) /\ WF_vars(Join /\ UNCHANGED widgets)
                 /\ WF_vars(Worker /\ UNCHANGED widgets)

----------------------------------------------------------------------------
(* Properties *)

\* Every variable has its type.
GuiTypeOK ==
  /\ mainPc \in {"loop", "joining", "done"}
  /\ pending \subseteq [id : Ids, consumer : BOOLEAN]
  /\ events \in Seq(Events)
  /\ connected \in BOOLEAN
  /\ running = (mainPc = "loop")
  /\ queue \in Seq(Requests)
  /\ workerPc \in {"init", "test", "take", "send", "await", "status", "ended"}
  /\ round \in {"before", "after", "final"}
  /\ current \in Requests \cup {Nothing}
  /\ outgoing \subseteq Sent /\ inbound \subseteq Sent
  /\ serving \in Sent \cup {Nothing}
  /\ answers \subseteq AnswerSet
  /\ up \in BOOLEAN /\ statusWaiting \in BOOLEAN
  /\ controls \in {AsBuilt, ViewModel(TRUE), ViewModel(FALSE)}
  /\ panelOpen \in BOOLEAN
  /\ selected \in Motors \cup {"none"}
  /\ slot \in {"none", "diagnostics", "change"}
  /\ shown \in Motors \cup {"-", "error"}
  /\ changed \in BOOLEAN /\ failed \in BOOLEAN

\* The refinement mapping: the open commands are the one the worker works on
\* and those in its queue, the results are the response events, and what may
\* still be carried out is anywhere between the queue and the server's REP
\* socket.  When the window closes, the ledger is closed.
OpenCommands ==
  (IF current = Nothing THEN <<>> ELSE <<current.id>>)
  \o [i \in DOMAIN queue |-> queue[i].id]

\* The k-th result is that of the response that k - 1 others are ahead of.
Responses(es) == {i \in DOMAIN es : es[i].type = "response"}
Ahead(es, i) == {j \in Responses(es) : j < i}
Place(es, k) == CHOOSE i \in Responses(es) : Cardinality(Ahead(es, i)) = k - 1
Result(e) == [id |-> e.id, result |-> e.result]
ResultsOf(es) == [k \in 1..Cardinality(Responses(es)) |-> Result(es[Place(es, k)])]

NotCarriedOut ==
  {queue[i].id : i \in DOMAIN queue}
  \cup (IF workerPc = "send" THEN {current.id} ELSE {})
  \cup IdsOf(outgoing) \cup IdsOf(AtServer)

AnswerTo(r) ==
  IF \E a \in answers : a.to.id = r
  THEN (CHOOSE a \in answers : a.to.id = r).status ELSE "none"

LedgerOpen     == IF mainPc = "loop" THEN OpenCommands ELSE <<>>
LedgerResults  == IF mainPc = "loop" THEN ResultsOf(events) ELSE <<>>
LedgerAnswered == [r \in Ids |-> IF mainPc = "loop" THEN AnswerTo(r) ELSE "none"]

Ledger == INSTANCE RequestLedger WITH
  open <- LedgerOpen, results <- LedgerResults,
  toDo <- NotCarriedOut, answered <- LedgerAnswered

\* The GUI, its worker, the sockets and the server implement RequestLedger:
\* no command is carried out twice, no result is given twice or out of turn,
\* and none is the answer to another command, although a socket is thrown
\* away after a time-out while the server goes on with what it received.
LedgerSpec == Ledger!Spec

\* When nothing is under way and no request of the panel failed, the motor
\* panel shows the motor that is selected, as it is after the last command,
\* although answers are interpreted by a slot that later requests overwrite.
DisplayIsCurrent ==
  mainPc = "loop" /\ Idle /\ ~failed /\ selected # "none" =>
    shown = selected /\ ~changed

\* Every request comes to a result for the main thread, whatever the server
\* does, unless the window is closed first.
HasResult(r) ==
  \E i \in DOMAIN events : events[i].type = "response" /\ events[i].id = r

RequestsEnd ==
  \A r \in Ids : r \in PendingIds ~> HasResult(r) \/ mainPc # "loop"

\* stopUpdaterThread returns, although the worker first sends all that is
\* queued to a server that may be gone, and waits for each answer.
StopReturns == mainPc = "joining" ~> mainPc = "done"

\* That the server is gone is noticed, and the controls go dark, if the worker
\* comes to ask for a status again and again.  It does not while commands are
\* given as fast as they time out, which the 500 ms timers of the panels do.
LossIsNoticed ==
  []<>(workerPc = "status" \/ workerPc = "ended") =>
    [](~up => <>(up \/ ~running \/ (~connected /\ controls # ViewModel(TRUE))))
=============================================================================
