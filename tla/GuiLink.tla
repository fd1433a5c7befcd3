------------------------------ MODULE GuiLink ------------------------------
(***************************************************************************)
(* The way of a command from a widget to the machine and of its answer     *)
(* back: Updater on the main thread of the GUI, RimoTransportWorker with   *)
(* its thread and its queue, RimoClient with a REQ socket that is thrown   *)
(* away after a time-out, RimoServer with its REP socket, and the Qt event *)
(* queue on which the worker's callbacks return.                           *)
(*                                                                         *)
(* The code counts its requests; here a name is used again once nothing    *)
(* refers to it, so that the GUI may run forever in finitely many states.  *)
(***************************************************************************)
EXTENDS Naturals, Sequences, FiniteSets

CONSTANTS
  Motors,     \* the motors of the machine
  Ids,        \* names of requests: bounds how many are under way at once
  MaxEvents   \* bound of the Qt event queue (the code has none)

ASSUME LinkAssumption ==
  Ids \subseteq Nat \ {0} /\ IsFiniteSet(Ids) /\ MaxEvents \in Nat \ {0}

VARIABLES
  mainPc,         \* main thread: in its event loop, in stop(), or past it
  pending,        \* Updater::_pendingById
  events,         \* invocations queued for the main thread
  connected,      \* GuiStateStore::_connected
  running,        \* RimoTransportWorker::_running
  queue,          \* RimoTransportWorker::_pendingRequests
  workerPc,       \* where the worker thread is
  round,          \* which call of processPendingCommands it is in
  current,        \* the request taken from the queue
  outgoing,       \* requests in the client's socket, not yet at the server
  up,             \* the server process is alive
  inbound,        \* requests that reached the server's REP socket
  serving,        \* the request the server has received and owes a reply
  answers,        \* answers on their way to the client's socket
  statusWaiting   \* a status is in the pipe of the SUB socket

guiVars    == <<mainPc, pending, events, connected>>
workerVars == <<workerPc, round, current>>
serverVars == <<up, inbound, serving>>
linkVars   == <<guiVars, running, queue, workerVars, outgoing, serverVars,
                answers, statusWaiting>>

----------------------------------------------------------------------------
(* Commands, answers and events *)

\* The commands of GuiCommandJsonAdapter::toJson, as far as they differ here:
\* "change" stands for resetMotorAlarm and setMotorEnabled, "other" for the
\* commands that have nothing to do with the motor panel.
Commands == [kind : {"diagnostics", "change"}, motor : Motors]
            \cup {[kind |-> "other"]}
Requests == [id : Ids, command : Commands]
Nothing  == [id |-> 0]

\* What a server has of a request: open is false once the socket it came from
\* is closed, so that its answer will be dropped.
Sent        == [request : Requests, open : BOOLEAN]
Outcomes    == {"ok", "error", "garbled"}
AnswerSet   == [to : Requests, status : Outcomes]

\* Only an answer to a request for diagnostics has a payload.
Payload(c) == IF c.kind = "diagnostics" THEN c.motor ELSE "none"
Response(r, result, payload) ==
  [type |-> "response", id |-> r.id, result |-> result, payload |-> payload]
Notice(type) == [type |-> type]
Events ==
  [type : {"status", "lost"}] \cup
  [type : {"response"}, id : Ids, result : {"ok", "error", "failed"},
   payload : Motors \cup {"none"}]

PendingIds  == {p.id : p \in pending}
AtServer    == inbound \cup ({serving} \ {Nothing})
IdsOf(sent) == {s.request.id : s \in sent}
FreeIds     == Ids \ (PendingIds \cup IdsOf(outgoing) \cup IdsOf(AtServer))

----------------------------------------------------------------------------
Init ==
  /\ mainPc = "loop" /\ pending = {} /\ events = <<>> /\ connected = FALSE
  /\ running = TRUE /\ queue = <<>>
  /\ workerPc = "init" /\ round = "before" /\ current = Nothing
  /\ outgoing = {} /\ answers = {}
  /\ up \in BOOLEAN /\ inbound = {} /\ serving = Nothing
  /\ statusWaiting = FALSE

(* Main thread *)

\* Updater::sendCommand for the commands cs, which a widget emits in one go,
\* when the requests of from are pending and the names of free unused.
SendCommands(cs, from, free) ==
  \E ids \in [DOMAIN cs -> Ids] :
    /\ \A i \in DOMAIN cs :
         LET left == free \ {ids[j] : j \in 1..(i - 1)}
         IN left # {} /\ ids[i] = CHOOSE r \in left : TRUE
    /\ pending' = from \cup {[id |-> ids[i], consumer |-> cs[i].kind # "other"] :
                               i \in DOMAIN cs}
    /\ queue' = queue \o [i \in DOMAIN cs |-> [id |-> ids[i], command |-> cs[i]]]

\* A widget emits commands on its own, keeping names in reserve.
Operate(cs, reserve) ==
  /\ mainPc = "loop"
  /\ Cardinality(FreeIds) >= Len(cs) + reserve
  /\ SendCommands(cs, pending, FreeIds)
  /\ UNCHANGED <<mainPc, events, connected, running, workerVars, outgoing,
                 serverVars, answers, statusWaiting>>

\* newDataArrived: GuiStateStore::onStatusReceived, and MainWindow, which lets
\* the motor panel emit cs.
HandleStatus(cs) ==
  /\ mainPc = "loop" /\ events # <<>> /\ Head(events).type = "status"
  /\ events' = Tail(events)
  /\ connected' = TRUE
  /\ SendCommands(cs, pending, FreeIds)
  /\ UNCHANGED <<mainPc, running, workerVars, outgoing, serverVars, answers,
                 statusWaiting>>

\* Mutant of HandleLost: the store takes itself for disconnected already.
HandleLostIgnored ==
  /\ mainPc = "loop" /\ events # <<>> /\ Head(events).type = "lost"
  /\ events' = Tail(events)
  /\ UNCHANGED <<mainPc, pending, connected, running, queue, workerVars, outgoing,
                 serverVars, answers, statusWaiting>>

\* serverNotConnected: GuiStateStore::onServerDisconnected
HandleLost ==
  /\ mainPc = "loop" /\ events # <<>> /\ Head(events).type = "lost"
  /\ events' = Tail(events)
  /\ connected' = FALSE
  /\ UNCHANGED <<mainPc, pending, running, queue, workerVars, outgoing,
                 serverVars, answers, statusWaiting>>

\* Updater::handleResponse for the request p; its consumer, if it is given the
\* answer, emits cs.
HandleResponse(p, cs) ==
  /\ mainPc = "loop" /\ events # <<>> /\ Head(events).type = "response"
  /\ events' = Tail(events)
  /\ p.id = Head(events).id
  /\ SendCommands(cs, pending \ {p}, FreeIds \cup {p.id})
  /\ UNCHANGED <<mainPc, connected, running, workerVars, outgoing, serverVars,
                 answers, statusWaiting>>

\* The window is destroyed and its events go with it: stopUpdaterThread asks the
\* worker to stop ...
Stop ==
  /\ mainPc = "loop"
  /\ mainPc' = "joining"
  /\ running' = FALSE
  /\ events' = <<>> /\ connected' = FALSE
  /\ UNCHANGED <<pending, queue, workerVars, outgoing,
                 serverVars, answers, statusWaiting>>

\* ... waits for its thread and forgets the requests it knows.
Join ==
  /\ mainPc = "joining" /\ workerPc = "ended"
  /\ mainPc' = "done"
  /\ pending' = {}
  /\ UNCHANGED <<events, connected, running, queue, workerVars, outgoing,
                 serverVars, answers, statusWaiting>>

----------------------------------------------------------------------------
(* Worker thread *)

\* QMetaObject::invokeMethod(QueuedConnection).  What is posted once the main
\* thread has left its event loop is never handled.
Post(e) ==
  IF mainPc = "loop"
  THEN /\ Len(events) < MaxEvents
       /\ events' = Append(events, e)
  ELSE UNCHANGED events

WorkerInit ==
  /\ workerPc = "init"
  /\ workerPc' = "test"
  /\ UNCHANGED <<guiVars, running, queue, round, current, outgoing, serverVars,
                 answers, statusWaiting>>

\* Mutant of TestRunning: commands are sent only after a status has arrived.
TestRunningSkipsCommands ==
  /\ workerPc = "test"
  /\ workerPc' = IF running THEN "status" ELSE "take"
  /\ round' = IF running THEN "before" ELSE "final"
  /\ UNCHANGED <<guiVars, running, queue, current, outgoing, serverVars,
                 answers, statusWaiting>>

\* The loop of runner: once it is told to stop the queue is emptied for the
\* last time.
TestRunning ==
  /\ workerPc = "test"
  /\ workerPc' = "take"
  /\ round' = IF running THEN "before" ELSE "final"
  /\ UNCHANGED <<guiVars, running, queue, current, outgoing, serverVars,
                 answers, statusWaiting>>

TakeCommand ==
  /\ workerPc = "take" /\ queue # <<>>
  /\ current' = Head(queue)
  /\ queue' = Tail(queue)
  /\ workerPc' = "send"
  /\ UNCHANGED <<guiVars, running, round, outgoing, serverVars, answers,
                 statusWaiting>>

NoCommand ==
  /\ workerPc = "take" /\ queue = <<>>
  /\ workerPc' = CASE round = "before" -> "status"
                   [] round = "after"  -> "test"
                   [] round = "final"  -> "ended"
  /\ UNCHANGED <<guiVars, running, queue, round, current, outgoing, serverVars,
                 answers, statusWaiting>>

\* RimoClient::sendCommand hands the request to the socket, whether or not a
\* server is at the other end.
SendRequest ==
  /\ workerPc = "send"
  /\ outgoing' = outgoing \cup {[request |-> current, open |-> TRUE]}
  /\ workerPc' = "await"
  /\ UNCHANGED <<guiVars, running, queue, round, current, serverVars, answers,
                 statusWaiting>>

\* The end of sendCommand: the callback posts the result of the request.
Finish(result, payload) ==
  /\ Post(Response(current, result, payload))
  /\ current' = Nothing
  /\ workerPc' = "take"
  /\ UNCHANGED <<mainPc, pending, connected, running, queue, round,
                 statusWaiting>>

\* send times out; the socket is kept.
SendFails ==
  /\ workerPc = "send"
  /\ Finish("failed", "none")
  /\ UNCHANGED <<outgoing, serverVars, answers>>

\* An answer that cannot be decoded is no answer.
Receive ==
  /\ workerPc = "await"
  /\ \E a \in answers :
       /\ answers' = answers \ {a}
       /\ IF a.status = "garbled"
          THEN Finish("failed", "none")
          ELSE Finish(a.status, Payload(a.to.command))
  /\ UNCHANGED <<outgoing, serverVars>>

\* Mutant of ReceiveTimeout: the socket is used again.
ReceiveTimeoutKeepsSocket ==
  /\ workerPc = "await"
  /\ Finish("failed", "none")
  /\ UNCHANGED <<outgoing, serverVars, answers>>

\* recv times out: the socket is closed, with linger 0, and what is in its
\* pipe or on the way to it is gone.  The server keeps what it has received.
ReceiveTimeout ==
  /\ workerPc = "await"
  /\ Finish("failed", "none")
  /\ outgoing' = {} /\ answers' = {}
  /\ inbound' = {[s EXCEPT !.open = FALSE] : s \in inbound}
  /\ serving' = IF serving = Nothing THEN serving ELSE [serving EXCEPT !.open = FALSE]
  /\ UNCHANGED up

StatusReceived ==
  /\ workerPc = "status" /\ statusWaiting
  /\ statusWaiting' = FALSE
  /\ Post(Notice("status"))
  /\ round' = "after"
  /\ workerPc' = "take"
  /\ UNCHANGED <<mainPc, pending, connected, running, queue, current, outgoing,
                 serverVars, answers>>

\* Mutant of StatusMissing: the worker waits for a status until one comes.
StatusMissingWaits ==
  /\ workerPc = "status"
  /\ statusWaiting' = FALSE
  /\ Post(Notice("lost"))
  /\ UNCHANGED <<mainPc, pending, connected, running, queue, workerVars, outgoing,
                 serverVars, answers>>

\* No status in time, or one that cannot be decoded.
StatusMissing ==
  /\ workerPc = "status"
  /\ statusWaiting' = FALSE
  /\ Post(Notice("lost"))
  /\ workerPc' = "test"
  /\ UNCHANGED <<mainPc, pending, connected, running, queue, round, current,
                 outgoing, serverVars, answers>>

----------------------------------------------------------------------------
(* Server process *)

\* The transport carries a request from the client's socket to the server.
Deliver ==
  /\ up /\ outgoing # {}
  /\ inbound' = inbound \cup outgoing
  /\ outgoing' = {}
  /\ UNCHANGED <<guiVars, running, queue, workerVars, up, serving, answers,
                 statusWaiting>>

\* RimoServer::receiveCommand: sockets are served in turn, so that a request
\* of a socket that was closed meanwhile may come after a later one.
Take ==
  /\ up /\ serving = Nothing
  /\ \E s \in inbound : serving' = s /\ inbound' = inbound \ {s}
  /\ UNCHANGED <<guiVars, running, queue, workerVars, outgoing, up, answers,
                 statusWaiting>>

\* The command is carried out and answered; the answer to a socket that is
\* closed is dropped.
AnswerRequest(status) ==
  /\ up /\ serving # Nothing
  /\ serving' = Nothing
  /\ answers' = IF serving.open
                THEN answers \cup {[to |-> serving.request, status |-> status]}
                ELSE answers
  /\ UNCHANGED <<guiVars, running, queue, workerVars, outgoing, up, inbound,
                 statusWaiting>>

\* The server ends: it is stopped, it crashes, or another client has sent it a
\* request that cannot be decoded.  Then receiveCommand returns nothing, runLoop
\* calls it again, a REP socket that owes a reply throws, and nobody catches.
ServerEnds ==
  /\ up
  /\ up' = FALSE
  /\ inbound' = {} /\ serving' = Nothing
  /\ UNCHANGED <<guiVars, running, queue, workerVars, outgoing, answers,
                 statusWaiting>>

ServerStarts ==
  /\ ~up
  /\ up' = TRUE
  /\ UNCHANGED <<guiVars, running, queue, workerVars, outgoing, inbound, serving,
                 answers, statusWaiting>>

Publish ==
  /\ up /\ ~statusWaiting
  /\ statusWaiting' = TRUE
  /\ UNCHANGED <<guiVars, running, queue, workerVars, outgoing, serverVars, answers>>

----------------------------------------------------------------------------
(* The actions of the worker and of the server, for the modules that add the *)
(* widgets.                                                                  *)

Worker ==
  \/ WorkerInit \/ TestRunning \/ TakeCommand \/ NoCommand
  \/ SendRequest \/ SendFails \/ Receive \/ ReceiveTimeout
  \/ StatusReceived \/ StatusMissing

ServerSide ==
  \/ Deliver \/ Take \/ ServerEnds \/ ServerStarts \/ Publish
=============================================================================
