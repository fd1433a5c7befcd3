----------------------------- MODULE CommandPath -----------------------------
(***************************************************************************)
(* The command path of the rimokun server, from the ZeroMQ REP socket to   *)
(* the command handlers and back, with the lifecycle of Machine around it. *)
(*                                                                         *)
(* Three threads share isRunning, the bounded CommandQueue and the         *)
(* promises of the queued commands:                                        *)
(*   - the command server thread (MachineCommandServer::runLoop), which    *)
(*     receives a request, validates it, pushes it, waits at most two      *)
(*     seconds for its promise and answers the client;                     *)
(*   - the process thread (Machine::processThread), which pops and handles *)
(*     one command per control cycle;                                      *)
(*   - the callers of Machine::initialize and Machine::shutdown.  These    *)
(*     hold _lifecycleMutex throughout, so at most one of them is inside   *)
(*     and a single program counter, lifecycle, stands for all.            *)
(*                                                                         *)
(* A request is a member of Requests; a retry is another request.  Message *)
(* texts are kept as far as the code branches on them or a client can tell *)
(* them apart: "empty" and "json" are the successful replies of an action  *)
(* and of a diagnostics handler, "error" is an exception's text.           *)
(***************************************************************************)
EXTENDS Naturals, Sequences

CONSTANTS
    Requests,       \* the requests clients may send
    Undecodable,    \* those that are not MessagePack
    Malformed,      \* those that processCommand rejects before dispatching
    Diagnostics,    \* those whose handler returns a JSON payload
    NoRequest,      \* not a request
    MaxQueue,       \* CommandQueue::_maxSize; 0 means unbounded
    MaxInits        \* bound on the number of calls of initialize

ASSUME RequestsAssumption ==
    /\ Undecodable \subseteq Requests
    /\ Malformed \subseteq Requests
    /\ Diagnostics \subseteq Requests
    /\ NoRequest \notin Requests

ASSUME BoundsAssumption == MaxQueue \in Nat /\ MaxInits \in Nat

VARIABLES
    isRunning,      \* Machine::_isRunning
    queue,          \* CommandQueue::_q
    queueShutdown,  \* CommandQueue::_shutdown
    reply,          \* reply[r]: the value of the promise of r, or "none"
    inbox,          \* requests waiting in the REP socket
    mustSend,       \* the REP socket has to send before it may receive again
    unsent,         \* requests no client has sent yet
    srvPc,          \* where the command server thread is; "off": not joinable
    srvReq,         \* the request it serves
    srvText,        \* the text dispatchCommandAndWait returned
    procPc,         \* where the process thread is; "off": not joinable
    procReq,        \* the command it handles
    procReply,      \* what it will set the promise to
    lifecycle,      \* where initialize or shutdown is, "idle" between calls
    inits,          \* calls of initialize so far, bounded by MaxInits
    answer,         \* history: answer[r] is what the client of r was sent
    runs,           \* history: how often the handler of r was run
    done,           \* history: the requests whose handler succeeded
    accepted,       \* history: the requests pushed, in order
    started         \* history: the requests the process thread popped, in order

server == <<srvPc, srvReq, srvText>>
process == <<procPc, procReq, procReply>>
history == <<answer, runs, done, accepted, started>>
vars == <<isRunning, queue, queueShutdown, reply, inbox, mustSend, unsent, server, process,
          lifecycle, inits, history>>

Replies == {"empty", "json", "error", "shuttingDown"}
Texts == Replies \cup {"invalid", "full", "timedOut"}

\* The answer processCommand builds from the text that dispatch returned: an
\* action wants the empty string, a diagnostics request wants a JSON payload.
SuccessReply(r) == IF r \in Diagnostics THEN "json" ELSE "empty"
Answer(r, text) == IF text = SuccessReply(r) THEN "OK" ELSE text

Init ==
    /\ isRunning = FALSE
    /\ queue = <<>>
    /\ queueShutdown = FALSE
    /\ reply = [r \in Requests |-> "none"]
    /\ inbox = {}
    /\ mustSend = FALSE
    /\ unsent = Requests
    /\ srvPc = "off" /\ srvReq = NoRequest /\ srvText = "none"
    /\ procPc = "off" /\ procReq = NoRequest /\ procReply = "none"
    /\ lifecycle = "idle"
    /\ inits = 0
    /\ answer = [r \in Requests |-> "none"]
    /\ runs = [r \in Requests |-> 0]
    /\ done = {}
    /\ accepted = <<>>
    /\ started = <<>>

-----------------------------------------------------------------------------
(* Clients.  The socket is bound when the Machine is constructed, so a     *)
(* request may arrive before initialize and after shutdown.                *)

Send(r) ==
    /\ r \in unsent
    /\ unsent' = unsent \ {r}
    /\ inbox' = inbox \cup {r}
    /\ UNCHANGED <<isRunning, queue, queueShutdown, reply, mustSend, server, process,
                   lifecycle, inits, history>>

-----------------------------------------------------------------------------
(* The command server thread.                                              *)

ServerLoop ==
    /\ srvPc = "loop"
    /\ srvPc' = IF isRunning THEN "receive" ELSE "finished"
    /\ UNCHANGED <<isRunning, queue, queueShutdown, reply, inbox, mustSend, unsent, srvReq,
                   srvText, process, lifecycle, inits, history>>

\* ZeroMQ queues the requests fairly between peers: any of them may be next.  One
\* that cannot be decoded is dropped without an answer.
Receive(r) ==
    /\ srvPc = "receive"
    /\ ~mustSend
    /\ r \in inbox
    /\ inbox' = inbox \ {r}
    /\ mustSend' = TRUE
    /\ \/ r \in Undecodable /\ srvPc' = "loop" /\ UNCHANGED <<srvReq, srvText>>
       \/ /\ r \notin Undecodable
          /\ srvReq' = r
          /\ IF r \in Malformed
             THEN srvPc' = "respond" /\ srvText' = "invalid"
             ELSE srvPc' = "submit" /\ UNCHANGED srvText
    /\ UNCHANGED <<isRunning, queue, queueShutdown, reply, unsent, process, lifecycle,
                   inits, history>>

ReceiveTimeout ==
    /\ srvPc = "receive"
    /\ ~mustSend
    /\ inbox = {}
    /\ srvPc' = "loop"
    /\ UNCHANGED <<isRunning, queue, queueShutdown, reply, inbox, mustSend, unsent, srvReq,
                   srvText, process, lifecycle, inits, history>>

\* recv throws what nothing catches: std::terminate ends the process.
ReceiveThrows ==
    /\ srvPc = "receive"
    /\ mustSend
    /\ lifecycle' = "terminated"
    /\ UNCHANGED <<isRunning, queue, queueShutdown, reply, inbox, mustSend, unsent, server,
                   process, inits, history>>

QueueFull == MaxQueue > 0 /\ Len(queue) >= MaxQueue

\* Mutant of Push: a stack instead of a queue.
PushInFront ==
    /\ srvPc = "submit"
    /\ IF queueShutdown \/ QueueFull
       THEN srvPc' = "refused" /\ UNCHANGED <<queue, accepted>>
       ELSE /\ srvPc' = "wait"
            /\ queue' = <<srvReq>> \o queue
            /\ accepted' = Append(accepted, srvReq)
    /\ UNCHANGED <<isRunning, queueShutdown, reply, inbox, mustSend, unsent, srvReq, srvText,
                   process, lifecycle, inits, answer, runs, done, started>>

\* CommandQueue::push, under the queue's mutex.
Push ==
    /\ srvPc = "submit"
    /\ IF queueShutdown \/ QueueFull
       THEN srvPc' = "refused" /\ UNCHANGED <<queue, accepted>>
       ELSE /\ srvPc' = "wait"
            /\ queue' = Append(queue, srvReq)
            /\ accepted' = Append(accepted, srvReq)
    /\ UNCHANGED <<isRunning, queueShutdown, reply, inbox, mustSend, unsent, srvReq, srvText,
                   process, lifecycle, inits, answer, runs, done, started>>

\* After a refused push the reason is guessed from isRunning, read later.
ExplainRefusal ==
    /\ srvPc = "refused"
    /\ srvText' = IF isRunning THEN "full" ELSE "shuttingDown"
    /\ srvPc' = "respond"
    /\ UNCHANGED <<isRunning, queue, queueShutdown, reply, inbox, mustSend, unsent, srvReq,
                   process, lifecycle, inits, history>>

ReplyReady ==
    /\ srvPc = "wait"
    /\ reply[srvReq] # "none"
    /\ srvText' = reply[srvReq]
    /\ srvPc' = "respond"
    /\ UNCHANGED <<isRunning, queue, queueShutdown, reply, inbox, mustSend, unsent, srvReq,
                   process, lifecycle, inits, history>>

\* Mutant of ReplyTimeout: wait() instead of wait_for(timeout).
NoReplyTimeout == FALSE

\* Mutant of ReplyTimeout: a time-out during shutdown is reported as a refusal.
TimeoutBlamesShutdown ==
    /\ srvPc = "wait"
    /\ reply[srvReq] = "none"
    /\ srvText' = IF isRunning THEN "timedOut" ELSE "shuttingDown"
    /\ srvPc' = "respond"
    /\ UNCHANGED <<isRunning, queue, queueShutdown, reply, inbox, mustSend, unsent, srvReq,
                   process, lifecycle, inits, history>>

\* The two seconds are over.  The command stays where it is, in the queue or
\* with the process thread.
ReplyTimeout ==
    /\ srvPc = "wait"
    /\ reply[srvReq] = "none"
    /\ srvText' = "timedOut"
    /\ srvPc' = "respond"
    /\ UNCHANGED <<isRunning, queue, queueShutdown, reply, inbox, mustSend, unsent, srvReq,
                   process, lifecycle, inits, history>>

Respond ==
    /\ srvPc = "respond"
    /\ answer' = [answer EXCEPT ![srvReq] = Answer(srvReq, srvText)]
    /\ mustSend' = FALSE
    /\ srvPc' = "loop"
    /\ srvReq' = NoRequest
    /\ srvText' = "none"
    /\ UNCHANGED <<isRunning, queue, queueShutdown, reply, inbox, unsent, process,
                   lifecycle, inits, runs, done, accepted, started>>

\* A process that has ended takes no step; its variables keep their last values.
Alive == lifecycle # "terminated"

ServerStep ==
    /\ Alive
    /\ \/ ServerLoop
       \/ \E r \in Requests : Receive(r)
       \/ ReceiveTimeout
       \/ ReceiveThrows
       \/ Push
       \/ ExplainRefusal
       \/ ReplyReady
       \/ ReplyTimeout
       \/ Respond

-----------------------------------------------------------------------------
(* The process thread: a cycle runs the control step, takes at most one    *)
(* command, and publishes the status.  Only the command step touches the   *)
(* state of this module.                                                   *)

ProcessLoop ==
    /\ procPc = "loop"
    /\ procPc' = IF isRunning THEN "command" ELSE "finished"
    /\ UNCHANGED <<isRunning, queue, queueShutdown, reply, inbox, mustSend, unsent, server,
                   procReq, procReply, lifecycle, inits, history>>

\* CommandQueue::try_pop, under the queue's mutex.
TryPop ==
    /\ procPc = "command"
    /\ IF queue = <<>>
       THEN /\ procPc' = "loop"
            /\ UNCHANGED <<queue, procReq, started>>
       ELSE /\ procPc' = "handle"
            /\ procReq' = Head(queue)
            /\ queue' = Tail(queue)
            /\ started' = Append(started, Head(queue))
    /\ UNCHANGED <<isRunning, queueShutdown, reply, inbox, mustSend, unsent, server, procReply,
                   lifecycle, inits, answer, runs, done, accepted>>

\* Mutant of Handle: the handler's exception is swallowed.
HandleSwallowing(ok) ==
    /\ procPc = "handle"
    /\ runs' = [runs EXCEPT ![procReq] = @ + 1]
    /\ done' = IF ok THEN done \cup {procReq} ELSE done
    /\ procReply' = SuccessReply(procReq)
    /\ procPc' = "reply"
    /\ UNCHANGED <<isRunning, queue, queueShutdown, reply, inbox, mustSend, unsent, server,
                   procReq, lifecycle, inits, answer, accepted, started>>

\* std::visit runs the handler of the command, which may throw.
Handle(ok) ==
    /\ procPc = "handle"
    /\ runs' = [runs EXCEPT ![procReq] = @ + 1]
    /\ done' = IF ok THEN done \cup {procReq} ELSE done
    /\ procReply' = IF ok THEN SuccessReply(procReq) ELSE "error"
    /\ procPc' = "reply"
    /\ UNCHANGED <<isRunning, queue, queueShutdown, reply, inbox, mustSend, unsent, server,
                   procReq, lifecycle, inits, answer, accepted, started>>

SetReply ==
    /\ procPc = "reply"
    /\ reply' = [reply EXCEPT ![procReq] = procReply]
    /\ procPc' = "loop"
    /\ procReq' = NoRequest
    /\ procReply' = "none"
    /\ UNCHANGED <<isRunning, queue, queueShutdown, inbox, mustSend, unsent, server, lifecycle,
                   inits, history>>

ProcessStep ==
    /\ Alive
    /\ \/ ProcessLoop
       \/ TryPop
       \/ \E ok \in BOOLEAN : Handle(ok)
       \/ SetReply

-----------------------------------------------------------------------------
(* Machine::initialize and Machine::shutdown, under _lifecycleMutex.       *)

\* The compare-and-swap of isRunning; a call while running throws and changes
\* nothing.
BeginInitialize ==
    /\ lifecycle = "idle"
    /\ inits < MaxInits
    /\ ~isRunning
    /\ isRunning' = TRUE
    /\ inits' = inits + 1
    /\ lifecycle' = "spawnServer"
    /\ UNCHANGED <<queue, queueShutdown, reply, inbox, mustSend, unsent, server, process,
                   history>>

\* Assigning to a std::thread that is still joinable calls std::terminate.
SpawnServer ==
    /\ lifecycle = "spawnServer"
    /\ IF srvPc = "off"
       THEN srvPc' = "loop" /\ lifecycle' = "spawnProcess"
       ELSE lifecycle' = "terminated" /\ UNCHANGED srvPc
    /\ UNCHANGED <<isRunning, queue, queueShutdown, reply, inbox, mustSend, unsent, srvReq,
                   srvText, process, inits, history>>

SpawnProcess ==
    /\ lifecycle = "spawnProcess"
    /\ procPc' = "loop"
    /\ lifecycle' = "idle"
    /\ UNCHANGED <<isRunning, queue, queueShutdown, reply, inbox, mustSend, unsent, server,
                   procReq, procReply, inits, history>>

\* The constructor of either thread may throw: isRunning is cleared, a server
\* thread that was already started is left to notice that by itself.
SpawnFails ==
    /\ \/ lifecycle = "spawnServer" /\ srvPc = "off"
       \/ lifecycle = "spawnProcess"
    /\ isRunning' = FALSE
    /\ lifecycle' = "idle"
    /\ UNCHANGED <<queue, queueShutdown, reply, inbox, mustSend, unsent, server, process,
                   inits, history>>

\* Mutant of BeginShutdown: isRunning is never cleared.
BeginShutdownStillRunning ==
    /\ lifecycle = "idle"
    /\ lifecycle' = "closeQueue"
    /\ UNCHANGED <<isRunning, queue, queueShutdown, reply, inbox, mustSend, unsent, server,
                   process, inits, history>>

BeginShutdown ==
    /\ lifecycle = "idle"
    /\ isRunning' = FALSE
    /\ lifecycle' = "closeQueue"
    /\ UNCHANGED <<queue, queueShutdown, reply, inbox, mustSend, unsent, server, process,
                   inits, history>>

\* Mutant of CloseQueue: the queue is drained but left open.
LeaveQueueOpen ==
    /\ lifecycle = "closeQueue"
    /\ lifecycle' = "drain"
    /\ UNCHANGED <<isRunning, queue, queueShutdown, reply, inbox, mustSend, unsent, server,
                   process, inits, history>>

CloseQueue ==
    /\ lifecycle = "closeQueue"
    /\ queueShutdown' = TRUE
    /\ lifecycle' = "drain"
    /\ UNCHANGED <<isRunning, queue, reply, inbox, mustSend, unsent, server, process, inits,
                   history>>

\* Mutant of Drain: the queue is emptied without setting the promises.
DrainSilently ==
    /\ lifecycle = "drain"
    /\ queue' = <<>>
    /\ lifecycle' = "joinProcess"
    /\ UNCHANGED <<isRunning, queueShutdown, reply, inbox, mustSend, unsent, server, process,
                   inits, history>>

\* Pop what is left, while the process thread may still pop too.
Drain ==
    /\ lifecycle = "drain"
    /\ IF queue = <<>>
       THEN lifecycle' = "joinProcess" /\ UNCHANGED <<queue, reply>>
       ELSE /\ reply' = [reply EXCEPT ![Head(queue)] = "shuttingDown"]
            /\ queue' = Tail(queue)
            /\ UNCHANGED lifecycle
    /\ UNCHANGED <<isRunning, queueShutdown, inbox, mustSend, unsent, server, process, inits,
                   history>>

JoinProcess ==
    /\ lifecycle = "joinProcess"
    /\ procPc \in {"off", "finished"}
    /\ procPc' = "off"
    /\ lifecycle' = "joinServer"
    /\ UNCHANGED <<isRunning, queue, queueShutdown, reply, inbox, mustSend, unsent, server,
                   procReq, procReply, inits, history>>

JoinServer ==
    /\ lifecycle = "joinServer"
    /\ srvPc \in {"off", "finished"}
    /\ srvPc' = "off"
    /\ lifecycle' = "idle"
    /\ UNCHANGED <<isRunning, queue, queueShutdown, reply, inbox, mustSend, unsent, srvReq,
                   srvText, process, inits, history>>

\* What a call of initialize or shutdown does once it is inside.
LifecycleStep ==
    \/ SpawnServer
    \/ SpawnProcess
    \/ SpawnFails
    \/ CloseQueue
    \/ Drain
    \/ JoinProcess
    \/ JoinServer

-----------------------------------------------------------------------------

Terminated == ~Alive /\ UNCHANGED vars

Next ==
    \/ \E r \in Requests : Send(r)
    \/ ServerStep
    \/ ProcessStep
    \/ BeginInitialize
    \/ BeginShutdown
    \/ LifecycleStep
    \/ Terminated

Spec == Init /\ [][Next]_vars

\* The operating system runs the two threads and a call that has begun; nobody
\* is obliged to send a request or to call initialize or shutdown.
FairSpec ==
    /\ Spec
    /\ WF_vars(ServerStep)
    /\ WF_vars(ProcessStep)
    /\ WF_vars(LifecycleStep)

-----------------------------------------------------------------------------
(* Properties.                                                             *)

Occurs(s, r) == \E i \in 1..Len(s) : s[i] = r
InQueue(r) == Occurs(queue, r)
WasAccepted(r) == Occurs(accepted, r)

FlagTypeOK ==
    /\ isRunning \in BOOLEAN
    /\ queueShutdown \in BOOLEAN
    /\ mustSend \in BOOLEAN

QueueTypeOK ==
    /\ queue \in Seq(Requests)
    /\ MaxQueue > 0 => Len(queue) <= MaxQueue
    /\ reply \in [Requests -> Replies \cup {"none"}]
    /\ inbox \subseteq Requests
    /\ unsent \subseteq Requests

ThreadTypeOK ==
    /\ srvPc \in {"off", "loop", "receive", "submit", "refused", "wait", "respond",
                   "finished"}
    /\ srvReq \in Requests \cup {NoRequest}
    /\ srvPc \in {"submit", "refused", "wait", "respond"} <=> srvReq # NoRequest
    /\ srvText \in Texts \cup {"none"}
    /\ procPc \in {"off", "loop", "command", "handle", "reply", "finished"}
    /\ procReq \in Requests \cup {NoRequest}
    /\ procPc \in {"handle", "reply"} <=> procReq # NoRequest
    /\ procReply \in {"empty", "json", "error", "none"}
    /\ lifecycle \in {"idle", "spawnServer", "spawnProcess", "closeQueue", "drain",
                      "joinProcess", "joinServer", "terminated"}
    /\ inits \in 0..MaxInits

HistoryTypeOK ==
    /\ answer \in [Requests -> Texts \cup {"OK", "none"}]
    /\ runs \in [Requests -> Nat]
    /\ done \subseteq Requests
    /\ accepted \in Seq(Requests)
    /\ started \in Seq(Requests)

\* Every variable has its type, a thread holds a request where its program
\* counter says so, and the queue never outgrows its bound.
TypeOK == FlagTypeOK /\ QueueTypeOK /\ ThreadTypeOK /\ HistoryTypeOK

\* No accepted command is ever lost: it waits in the queue, or the process
\* thread holds it, or its promise is set, whichever of the process thread and
\* a concurrent shutdown pops it.
NoCommandLost ==
    \A r \in Requests : WasAccepted(r) => InQueue(r) \/ procReq = r \/ reply[r] # "none"

\* What the client of r was told is what happened to r so far: OK only after
\* its one handler run succeeded, the handler's error only after it failed, a
\* refusal only for a command that was never handed to a handler.
AnswersAreTrue ==
    \A r \in Requests :
        /\ runs[r] <= 1
        /\ answer[r] = "OK" => runs[r] = 1 /\ r \in done
        /\ answer[r] = "error" => runs[r] = 1 /\ r \notin done
        /\ answer[r] \in {"invalid", "full", "shuttingDown"} => runs[r] = 0

\* Commands are handled in the order in which they were accepted.  Until the
\* queue is shut down none is skipped either; afterwards the drain may take
\* commands from between those that the last cycle handles.
ServedInOrder ==
    /\ ~queueShutdown => accepted = started \o queue
    /\ \A i, j \in 1..Len(started) : i < j =>
           \E a, b \in 1..Len(accepted) :
               a < b /\ accepted[a] = started[i] /\ accepted[b] = started[j]

\* Once shutdown has joined the process thread, nothing is left behind: the
\* queue is empty, no command is being handled, every promise is set.
ShutdownLeavesNothing ==
    lifecycle = "joinServer" =>
        /\ queue = <<>>
        /\ procReq = NoRequest
        /\ \A r \in Requests : WasAccepted(r) => reply[r] # "none"

\* The command path implements the promise made to the clients.  In particular
\* a request that was refused is never handled later, not even by the process
\* thread's last cycle during a shutdown.
Service == INSTANCE CommandService
ServiceSpec == Service!Spec

\* The requests that were received and have no answer: one at most.
Unanswered == {r \in Requests \ (inbox \cup unsent) : answer[r] = "none"}

\* The command server thread answers every request it receives, whatever the
\* process thread and the callers of initialize and shutdown do.  Only one that
\* cannot be decoded is never answered: it ends the process, if the thread does
\* not end before.
ReceivedIsAnswered ==
    Unanswered # {} ~>
        \/ Unanswered = {}
        \/ ~Alive
        \/ Unanswered \subseteq Undecodable /\ srvPc \in {"off", "finished"}

\* The promise of a queued command is set, by a later cycle or by shutdown,
\* except while initialize has failed to start the process thread.
QueuedIsReplied ==
    \A r \in Requests \ Undecodable :
        InQueue(r) ~> \/ reply[r] # "none"
                      \/ lifecycle = "idle" /\ procPc = "off" /\ ~queueShutdown
                      \/ ~Alive

\* A call of shutdown returns, as both joins succeed, or the process ends on the
\* way: nothing else keeps a call that has begun.
ShutdownReturns == lifecycle = "closeQueue" ~> lifecycle = "idle" \/ ~Alive

\* "Command queue is full" (Machine.cpp:390) is only said when at least as many
\* commands as the queue can hold have been accepted.
FullMeansFull ==
    \A r \in Requests : answer[r] = "full" => Len(accepted) >= MaxQueue
=============================================================================
