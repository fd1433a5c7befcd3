-------------------------- MODULE CommandPathProofs --------------------------
(***************************************************************************)
(* Proofs about CommandPath, for every set of requests and every queue     *)
(* bound: its safety properties are invariants, and it implements          *)
(* CommandService.  The inductive invariant says, for each request, in     *)
(* which one place it is and what that place knows of it.                  *)
(***************************************************************************)
EXTENDS CommandPath, TLAPS

Distinct(s) == \A i, j \in 1..Len(s) : s[i] = s[j] => i = j

\* No part of the server has seen more of r than the command server thread.
Untouched(r) ==
    /\ ~WasAccepted(r)
    /\ ~InQueue(r)
    /\ procReq # r
    /\ reply[r] = "none"
    /\ runs[r] = 0

\* A request that was not received yet has left no trace.
InboxInv ==
    /\ inbox \cap unsent = {}
    /\ \A r \in inbox \cup unsent : Untouched(r) /\ answer[r] = "none" /\ srvReq # r

\* A queued command is queued once, is not being handled and has no reply.
QueueInv ==
    /\ Distinct(queue)
    /\ \A r \in Requests : InQueue(r) => procReq # r /\ reply[r] = "none" /\ runs[r] = 0

\* What the process thread holds has no reply yet and runs once.
ProcessInv ==
    /\ procPc = "handle" => reply[procReq] = "none" /\ runs[procReq] = 0
    /\ procPc = "reply" =>
          /\ reply[procReq] = "none"
          /\ runs[procReq] = 1
          /\ IF procReq \in done
             THEN procReply = SuccessReply(procReq)
             ELSE procReply = "error"

\* A promise holds what the handler did, or the refusal of the drain.
ReplyInv ==
    \A r \in Requests :
        /\ runs[r] <= 1
        /\ r \in done => runs[r] = 1
        /\ reply[r] \in {"empty", "json"} =>
              reply[r] = SuccessReply(r) /\ runs[r] = 1 /\ r \in done
        /\ reply[r] = "error" => runs[r] = 1 /\ r \notin done
        /\ reply[r] = "shuttingDown" => runs[r] = 0

\* A text in hand, t, is a fact about r: either r is untouched, or t is the
\* value of its promise, or t is the time-out, which says nothing.
Justified(r, t) ==
    \/ t = "timedOut"
    \/ t \in {"invalid", "full", "shuttingDown"} /\ Untouched(r)
    \/ t \in Replies /\ reply[r] = t

\* The command server thread answers a request that has no answer, with a text
\* that is justified.
ServerInv ==
    /\ srvPc \in {"submit", "refused", "wait", "respond"} =>
          srvReq \in Requests /\ answer[srvReq] = "none"
    /\ srvPc \in {"submit", "refused"} => Untouched(srvReq)
    /\ srvPc = "respond" => Justified(srvReq, srvText)

\* Every answer given is the answer built from a justified text.
AnswerInv ==
    \A r \in Requests :
        answer[r] # "none" =>
            \E t \in Texts : answer[r] = Answer(r, t) /\ Justified(r, t)

\* While nobody may push, the queue stays empty once it has been drained; and
\* there is no process thread when initialize begins or shutdown ends.
LifecycleInv ==
    /\ lifecycle \in {"drain", "joinProcess", "joinServer"} => queueShutdown
    /\ lifecycle \in {"joinProcess", "joinServer"} => queue = <<>>
    /\ lifecycle \in {"spawnServer", "spawnProcess", "joinServer"} => procPc = "off"
    /\ lifecycle \in {"spawnServer", "spawnProcess"} => isRunning
    /\ lifecycle = "idle" /\ ~isRunning => procPc = "off"

IInv ==
    /\ TypeOK
    /\ InboxInv
    /\ QueueInv
    /\ ProcessInv
    /\ ReplyInv
    /\ ServerInv
    /\ AnswerInv
    /\ NoCommandLost
    /\ LifecycleInv

-----------------------------------------------------------------------------
(* Facts about the two operations of the queue.                            *)

\* What is in a sequence after x was appended.
LEMMA OccursAppend ==
    ASSUME NEW S, NEW s \in Seq(S), NEW x \in S, NEW r
    PROVE  Occurs(Append(s, x), r) <=> Occurs(s, r) \/ r = x
<1>1. Len(Append(s, x)) = Len(s) + 1 /\ Len(s) \in Nat
  OBVIOUS
<1>2. \A i \in 1..Len(s) : Append(s, x)[i] = s[i]
  OBVIOUS
<1>3. Append(s, x)[Len(s) + 1] = x
  OBVIOUS
<1>4. QED
  BY <1>1, <1>2, <1>3 DEF Occurs

\* What was in a sequence is its head or in its tail.
LEMMA OccursTail ==
    ASSUME NEW S, NEW s \in Seq(S), s # <<>>, NEW r
    PROVE  Occurs(s, r) <=> r = Head(s) \/ Occurs(Tail(s), r)
<1>1. Len(Tail(s)) = Len(s) - 1 /\ Len(s) \in Nat /\ Len(s) > 0
  OBVIOUS
<1>2. \A i \in 1..(Len(s) - 1) : Tail(s)[i] = s[i + 1]
  OBVIOUS
<1>3. Head(s) = s[1]
  OBVIOUS
<1>4. ASSUME Occurs(s, r), r # Head(s)  PROVE Occurs(Tail(s), r)
  <2>1. PICK i \in 1..Len(s) : s[i] = r
    BY <1>4 DEF Occurs
  <2>2. i - 1 \in 1..Len(Tail(s)) /\ Tail(s)[i - 1] = r
    BY <1>1, <1>2, <1>3, <1>4, <2>1
  <2>3. QED
    BY <2>2 DEF Occurs
<1>5. ASSUME Occurs(Tail(s), r)  PROVE Occurs(s, r)
  BY <1>1, <1>2, <1>5 DEF Occurs
<1>6. Occurs(s, Head(s))
  BY <1>1, <1>3 DEF Occurs
<1>7. QED
  BY <1>4, <1>5, <1>6

\* Appending something new keeps a sequence free of duplicates.
LEMMA DistinctAppend ==
    ASSUME NEW S, NEW s \in Seq(S), NEW x \in S, Distinct(s), ~Occurs(s, x)
    PROVE  Distinct(Append(s, x))
<1>1. Len(Append(s, x)) = Len(s) + 1 /\ Len(s) \in Nat
  OBVIOUS
<1>2. \A i \in 1..Len(s) : Append(s, x)[i] = s[i]
  OBVIOUS
<1>3. Append(s, x)[Len(s) + 1] = x
  OBVIOUS
<1>4. QED
  BY <1>1, <1>2, <1>3 DEF Occurs, Distinct

\* Taking the head keeps a sequence free of duplicates, and removes that one.
LEMMA DistinctTail ==
    ASSUME NEW S, NEW s \in Seq(S), s # <<>>, Distinct(s)
    PROVE  Distinct(Tail(s)) /\ ~Occurs(Tail(s), Head(s))
<1>1. Len(Tail(s)) = Len(s) - 1 /\ Len(s) \in Nat /\ Len(s) > 0
  OBVIOUS
<1>2. \A i \in 1..(Len(s) - 1) : Tail(s)[i] = s[i + 1]
  OBVIOUS
<1>3. Head(s) = s[1]
  OBVIOUS
<1>4. QED
  BY <1>1, <1>2, <1>3 DEF Occurs, Distinct

-----------------------------------------------------------------------------
(* The type invariant.                                                     *)

\* Initially every variable has its type.
LEMMA InitTypeOK == Init => TypeOK
<1> SUFFICES ASSUME Init  PROVE TypeOK
  OBVIOUS
<1> USE RequestsAssumption, BoundsAssumption DEF Init, Replies, Texts
<1>1. FlagTypeOK
  BY DEF FlagTypeOK
<1>2. QueueTypeOK
  BY DEF QueueTypeOK
<1>3. ThreadTypeOK
  BY DEF ThreadTypeOK
<1>4. HistoryTypeOK
  BY DEF HistoryTypeOK
<1>5. QED
  BY <1>1, <1>2, <1>3, <1>4 DEF TypeOK

\* No step takes the three flags out of BOOLEAN.
LEMMA NextFlagTypeOK == FlagTypeOK /\ [Next]_vars => FlagTypeOK'
<1> USE DEF FlagTypeOK
<1> SUFFICES ASSUME FlagTypeOK, [Next]_vars  PROVE FlagTypeOK'
  OBVIOUS
<1>1. CASE ServerStep \/ ProcessStep \/ \E r \in Requests : Send(r)
  BY <1>1 DEF Send, ServerStep, ServerLoop, Receive, ReceiveTimeout, ReceiveThrows, Push,
              ExplainRefusal,
              ReplyReady, ReplyTimeout, Respond, ProcessStep, ProcessLoop, TryPop, Handle,
              SetReply
<1>2. CASE BeginInitialize \/ BeginShutdown \/ LifecycleStep
  BY <1>2 DEF BeginInitialize, BeginShutdown, LifecycleStep, SpawnServer, SpawnProcess,
              SpawnFails, CloseQueue, Drain, JoinProcess, JoinServer
<1>3. CASE Terminated \/ UNCHANGED vars
  BY <1>3 DEF Terminated, vars
<1>4. QED
  BY <1>1, <1>2, <1>3 DEF Next

\* Every step keeps what is known of threads, calls and program counters.
LEMMA NextLifecycleInv == LifecycleInv /\ [Next]_vars => LifecycleInv'
<1> USE DEF LifecycleInv
<1> SUFFICES ASSUME LifecycleInv, [Next]_vars  PROVE LifecycleInv'
  OBVIOUS
<1>1. CASE \E r \in Requests : Send(r)
  BY <1>1 DEF Send, process
<1>2. CASE ServerStep
  <2>1. CASE Push
    BY <2>1 DEF Push, process
  <2>2. CASE ServerStep /\ ~Push
    <3>1. /\ UNCHANGED <<isRunning, queue, queueShutdown, procPc>>
          /\ lifecycle' \in {lifecycle, "terminated"}
      BY <2>2 DEF ServerStep, ServerLoop, Receive, ReceiveTimeout, ReceiveThrows,
                  ExplainRefusal, ReplyReady, ReplyTimeout, Respond, process
    <3>2. QED
      BY <3>1
  <2>3. QED
    BY <1>2, <2>1, <2>2
<1>3. CASE ProcessStep
  BY <1>3 DEF ProcessStep, ProcessLoop, TryPop, Handle, SetReply
<1>4. CASE BeginInitialize \/ BeginShutdown
  BY <1>4 DEF BeginInitialize, BeginShutdown, process
<1>5. CASE LifecycleStep
  BY <1>5 DEF LifecycleStep, SpawnServer, SpawnProcess, SpawnFails, CloseQueue, Drain,
              JoinProcess, JoinServer, process
<1>6. CASE Terminated \/ UNCHANGED vars
  BY <1>6 DEF Terminated, vars, process
<1>7. QED
  BY <1>1, <1>2, <1>3, <1>4, <1>5, <1>6 DEF Next

\* Every step keeps the types of the queue, the threads and the history.
LEMMA NextDataTypeOK ==
    TypeOK /\ LifecycleInv /\ [Next]_vars => QueueTypeOK' /\ ThreadTypeOK' /\ HistoryTypeOK'
<1> USE RequestsAssumption, BoundsAssumption
        DEF TypeOK, QueueTypeOK, ThreadTypeOK, HistoryTypeOK, Replies, Texts
<1> SUFFICES ASSUME TypeOK, LifecycleInv, [Next]_vars
             PROVE  (QueueTypeOK /\ ThreadTypeOK /\ HistoryTypeOK)'
  OBVIOUS
<1>1. CASE \E r \in Requests : Send(r)
  BY <1>1 DEF Send, server, process, history
<1>2. CASE ServerStep
  <2>1. CASE ServerLoop
    BY <2>1 DEF ServerLoop, process, history
  <2>2. CASE \E r \in Requests : Receive(r)
    BY <2>2 DEF Receive, process, history
  <2>3. CASE ReceiveTimeout
    BY <2>3 DEF ReceiveTimeout, process, history
  <2>10. CASE ReceiveThrows
    BY <2>10 DEF ReceiveThrows, server, process, history
  <2>4. CASE Push
    <3>1. srvReq \in Requests
      BY <2>4 DEF Push
    <3>2. /\ Append(queue, srvReq) \in Seq(Requests)
          /\ Append(accepted, srvReq) \in Seq(Requests)
          /\ Len(Append(queue, srvReq)) = Len(queue) + 1
          /\ Len(queue) \in Nat
      BY <3>1
    <3>3. QED
      <4>1. QueueTypeOK'
        <5>1. CASE queueShutdown \/ QueueFull
          BY <2>4, <5>1 DEF Push, process
        <5>2. CASE ~(queueShutdown \/ QueueFull)
          <6>1. queue' = Append(queue, srvReq)
            BY <2>4, <5>2 DEF Push
          <6>2. MaxQueue > 0 => Len(queue) < MaxQueue
            BY <3>2, <5>2 DEF QueueFull
          <6>3. queue' \in Seq(Requests) /\ (MaxQueue > 0 => Len(queue') <= MaxQueue)
            BY <3>2, <6>1, <6>2
          <6>4. UNCHANGED <<reply, inbox, unsent>>
            BY <2>4 DEF Push
          <6>5. QED
            BY <6>3, <6>4
        <5>3. QED
          BY <5>1, <5>2
      <4>2. ThreadTypeOK'
        BY <2>4, <3>1, <3>2 DEF Push, QueueFull, process
      <4>3. HistoryTypeOK'
        BY <2>4, <3>1, <3>2 DEF Push, QueueFull, process
      <4>4. QED
        BY <4>1, <4>2, <4>3
  <2>5. CASE ExplainRefusal
    BY <2>5 DEF ExplainRefusal, process, history
  <2>6. CASE ReplyReady
    BY <2>6 DEF ReplyReady, process, history
  <2>7. CASE ReplyTimeout
    BY <2>7 DEF ReplyTimeout, process, history
  <2>8. CASE Respond
    BY <2>8 DEF Respond, Answer, process
  <2>9. QED
    BY <1>2, <2>1, <2>2, <2>3, <2>10, <2>4, <2>5, <2>6, <2>7, <2>8 DEF ServerStep
<1>3. CASE ProcessStep
  <2>1. CASE ProcessLoop
    BY <2>1 DEF ProcessLoop, server, history
  <2>2. CASE TryPop
    <3>1. CASE queue = <<>>
      BY <2>2, <3>1 DEF TryPop, server
    <3>2. CASE queue # <<>>
      <4>1. /\ Head(queue) \in Requests
            /\ Tail(queue) \in Seq(Requests)
            /\ Len(Tail(queue)) = Len(queue) - 1
            /\ Len(queue) \in Nat
            /\ Append(started, Head(queue)) \in Seq(Requests)
        BY <3>2
      <4>2. QED
        <5>1. QueueTypeOK'
          <6>1. queue' = Tail(queue) /\ UNCHANGED <<reply, inbox, unsent>>
            BY <2>2, <3>2 DEF TryPop
          <6>2. queue' \in Seq(Requests) /\ (MaxQueue > 0 => Len(queue') <= MaxQueue)
            BY <4>1, <6>1
          <6>3. QED
            BY <6>1, <6>2
        <5>2. ThreadTypeOK'
          BY <2>2, <3>2, <4>1 DEF TryPop, server
        <5>3. HistoryTypeOK'
          BY <2>2, <3>2, <4>1 DEF TryPop, server
        <5>4. QED
          BY <5>1, <5>2, <5>3
    <3>3. QED
      BY <3>1, <3>2
  <2>3. CASE \E ok \in BOOLEAN : Handle(ok)
    BY <2>3 DEF Handle, SuccessReply, server
  <2>4. CASE SetReply
    BY <2>4 DEF SetReply, server, history
  <2>5. QED
    BY <1>3, <2>1, <2>2, <2>3, <2>4 DEF ProcessStep
<1>4. CASE BeginInitialize
  BY <1>4 DEF BeginInitialize, server, process, history
<1>5. CASE BeginShutdown
  BY <1>5 DEF BeginShutdown, server, process, history
<1>6. CASE LifecycleStep
  <2>1. CASE Drain
    <3>1. CASE queue = <<>>
      BY <2>1, <3>1 DEF Drain, server, process, history
    <3>2. CASE queue # <<>>
      <4>1. /\ Head(queue) \in Requests
            /\ Tail(queue) \in Seq(Requests)
            /\ Len(Tail(queue)) = Len(queue) - 1
            /\ Len(queue) \in Nat
        BY <3>2
      <4>2. QED
        <5>1. QueueTypeOK'
          <6>1. /\ queue' = Tail(queue)
                /\ reply' = [reply EXCEPT ![Head(queue)] = "shuttingDown"]
                /\ UNCHANGED <<inbox, unsent>>
            BY <2>1, <3>2 DEF Drain
          <6>2. queue' \in Seq(Requests) /\ (MaxQueue > 0 => Len(queue') <= MaxQueue)
            BY <4>1, <6>1
          <6>3. QED
            BY <6>1, <6>2
        <5>2. ThreadTypeOK'
          BY <2>1, <3>2, <4>1 DEF Drain, server, process, history
        <5>3. HistoryTypeOK'
          BY <2>1, <3>2, <4>1 DEF Drain, server, process, history
        <5>4. QED
          BY <5>1, <5>2, <5>3
    <3>3. QED
      BY <3>1, <3>2
  <2>2. CASE SpawnServer
    <3>1. QueueTypeOK'
      BY <2>2 DEF SpawnServer, server, process, history
    <3>2. ThreadTypeOK'
      BY <2>2 DEF SpawnServer, server, process, history
    <3>3. HistoryTypeOK'
      BY <2>2 DEF SpawnServer, server, process, history
    <3>4. QED
      BY <3>1, <3>2, <3>3
  <2>3. CASE SpawnProcess
    <3>1. procPc = "off"
      BY <2>3 DEF SpawnProcess, LifecycleInv
    <3>2. QED
      BY <2>3, <3>1 DEF SpawnProcess, server, process, history
  <2>4. CASE SpawnFails
    <3>1. QueueTypeOK'
      BY <2>4 DEF SpawnFails
    <3>2. ThreadTypeOK'
      BY <2>4 DEF SpawnFails, server, process
    <3>3. HistoryTypeOK'
      BY <2>4 DEF SpawnFails, history
    <3>4. QED
      BY <3>1, <3>2, <3>3
  <2>5. CASE CloseQueue
    BY <2>5 DEF CloseQueue, server, process, history
  <2>6. CASE JoinProcess
    BY <2>6 DEF JoinProcess, server, process, history
  <2>7. CASE JoinServer
    BY <2>7 DEF JoinServer, server, process, history
  <2>8. QED
    BY <1>6, <2>1, <2>2, <2>3, <2>4, <2>5, <2>6, <2>7 DEF LifecycleStep
<1>7. CASE Terminated \/ UNCHANGED vars
  BY <1>7 DEF Terminated, vars, server, process, history
<1>8. QED
  BY <1>1, <1>2, <1>3, <1>4, <1>5, <1>6, <1>7 DEF Next

\* Every variable keeps its type and the queue its bound (CommandInterface.hpp:71).
THEOREM TypeCorrect == Spec => []TypeOK
<1>1. Init => TypeOK /\ LifecycleInv
  BY InitTypeOK DEF Init, LifecycleInv
<1>2. TypeOK /\ LifecycleInv /\ [Next]_vars => (TypeOK /\ LifecycleInv)'
  BY NextFlagTypeOK, NextDataTypeOK, NextLifecycleInv DEF TypeOK
<1>3. QED
  BY <1>1, <1>2, PTL DEF Spec

-----------------------------------------------------------------------------
(* The inductive invariant is preserved.  Most actions leave alone all that *)
(* Untouched and Justified look at; the others get a lemma each.            *)

DataInv == InboxInv /\ QueueInv /\ ProcessInv /\ ReplyInv /\ ServerInv /\ AnswerInv
             /\ NoCommandLost

\* What Untouched and Justified look at.
traces == <<queue, accepted, procReq, reply, runs>>

\* A request keeps its traces as long as the variables that hold them.
LEMMA SameTraces ==
    ASSUME UNCHANGED traces
    PROVE  /\ \A r : Untouched(r)' <=> Untouched(r)
           /\ \A r, t : Justified(r, t)' <=> Justified(r, t)
BY DEF traces, Untouched, Justified, WasAccepted, InQueue

\* Steps that change nothing but where a thread or a call is.
LEMMA QuietStep ==
    ASSUME TypeOK, DataInv,
           UNCHANGED <<queue, reply, inbox, unsent, procReq, procReply, history>>,
           procPc' = procPc \/ procPc' \notin {"handle", "reply"},
           \/ UNCHANGED server
           \/ UNCHANGED srvReq /\ srvPc' \notin {"submit", "refused", "wait", "respond"}
    PROVE  DataInv'
<1> USE DEF DataInv, history
<1>1. UNCHANGED traces
  BY DEF traces
<1>2. /\ \A r : Untouched(r)' <=> Untouched(r)
      /\ \A r, t : Justified(r, t)' <=> Justified(r, t)
  BY <1>1, SameTraces
<1>3. InboxInv'
  BY <1>2 DEF InboxInv, server
<1>4. QueueInv'
  BY DEF QueueInv, InQueue
<1>5. ProcessInv'
  BY DEF ProcessInv
<1>6. ReplyInv'
  BY DEF ReplyInv
<1>7. ServerInv'
  BY <1>2 DEF ServerInv, server
<1>8. AnswerInv'
  BY <1>2 DEF AnswerInv
<1>9. NoCommandLost'
  BY DEF NoCommandLost, WasAccepted, InQueue
<1>10. QED
  BY <1>3, <1>4, <1>5, <1>6, <1>7, <1>8, <1>9

\* A request arrives: it was untouched and stays so.
LEMMA SendStep ==
    ASSUME TypeOK, DataInv, NEW r \in Requests, Send(r)
    PROVE  DataInv'
<1> USE DEF DataInv
<1>1. UNCHANGED traces /\ UNCHANGED <<server, process, history>>
  BY DEF Send, traces, process, history
<1>2. /\ \A q : Untouched(q)' <=> Untouched(q)
      /\ \A q, t : Justified(q, t)' <=> Justified(q, t)
  BY <1>1, SameTraces
<1>3. InboxInv'
  BY <1>1, <1>2 DEF InboxInv, Send, server, history
<1>4. QueueInv' /\ ProcessInv' /\ ReplyInv' /\ NoCommandLost'
  BY <1>1 DEF traces, history, process, QueueInv, ProcessInv, ReplyInv, NoCommandLost,
              WasAccepted, InQueue
<1>5. ServerInv' /\ AnswerInv'
  BY <1>1, <1>2 DEF ServerInv, AnswerInv, server, history
<1>6. QED
  BY <1>3, <1>4, <1>5

\* The command server thread takes a request from the socket.
LEMMA ReceiveStep ==
    ASSUME TypeOK, DataInv, NEW r \in Requests, Receive(r)
    PROVE  DataInv'
<1> USE DEF DataInv
<1>1. UNCHANGED traces /\ UNCHANGED <<unsent, process, history>>
  BY DEF Receive, traces, process, history
<1>2. /\ \A q : Untouched(q)' <=> Untouched(q)
      /\ \A q, t : Justified(q, t)' <=> Justified(q, t)
  BY <1>1, SameTraces
<1>3. Untouched(r) /\ answer[r] = "none" /\ r \notin unsent
  BY DEF Receive, InboxInv
<1>4. InboxInv'
  BY <1>1, <1>2, <1>3 DEF InboxInv, Receive, history
<1>5. QueueInv' /\ ProcessInv' /\ ReplyInv' /\ NoCommandLost'
  BY <1>1 DEF traces, history, process, QueueInv, ProcessInv, ReplyInv, NoCommandLost,
              WasAccepted, InQueue
<1>6. ServerInv'
  BY <1>1, <1>2, <1>3 DEF ServerInv, Receive, Justified, history
<1>7. AnswerInv'
  BY <1>1, <1>2 DEF AnswerInv, history
<1>8. QED
  BY <1>4, <1>5, <1>6, <1>7

\* The command server thread settles on a text: the guess of the reason of a
\* refusal, the value of the promise, or the time-out.  Each is justified.
LEMMA TextStep ==
    ASSUME TypeOK, DataInv, ExplainRefusal \/ ReplyReady \/ ReplyTimeout
    PROVE  DataInv'
<1> USE DEF DataInv
<1>1. /\ UNCHANGED traces /\ UNCHANGED <<inbox, unsent, srvReq, process, history>>
      /\ srvPc' = "respond"
      /\ srvPc \in {"refused", "wait"}
  BY DEF ExplainRefusal, ReplyReady, ReplyTimeout, traces, process, history
<1>2. /\ \A q : Untouched(q)' <=> Untouched(q)
      /\ \A q, t : Justified(q, t)' <=> Justified(q, t)
  BY <1>1, SameTraces
<1>3. InboxInv'
  BY <1>1, <1>2 DEF InboxInv, history
<1>4. QueueInv' /\ ProcessInv' /\ ReplyInv' /\ NoCommandLost'
  BY <1>1 DEF traces, history, process, QueueInv, ProcessInv, ReplyInv, NoCommandLost,
              WasAccepted, InQueue
<1>5. Justified(srvReq, srvText')
  <2>1. CASE ExplainRefusal
    BY <2>1 DEF ExplainRefusal, Justified, ServerInv
  <2>2. CASE ReplyReady
    BY <2>2, <1>1 DEF ReplyReady, Justified, ServerInv, TypeOK, QueueTypeOK
  <2>3. CASE ReplyTimeout
    BY <2>3 DEF ReplyTimeout, Justified
  <2>4. QED
    BY <2>1, <2>2, <2>3
<1>6. ServerInv'
  BY <1>1, <1>2, <1>5 DEF ServerInv, history
<1>7. AnswerInv'
  BY <1>1, <1>2 DEF AnswerInv, history
<1>8. QED
  BY <1>3, <1>4, <1>6, <1>7

\* The answer is sent.
LEMMA RespondStep ==
    ASSUME TypeOK, DataInv, Respond
    PROVE  DataInv'
<1> USE DEF DataInv
<1>1. UNCHANGED traces /\ UNCHANGED <<inbox, unsent, process, runs, done, accepted, started>>
  BY DEF Respond, traces, process
<1>2. /\ \A q : Untouched(q)' <=> Untouched(q)
      /\ \A q, t : Justified(q, t)' <=> Justified(q, t)
  BY <1>1, SameTraces
<1>3. /\ srvReq \in Requests
      /\ Justified(srvReq, srvText)
      /\ answer' = [answer EXCEPT ![srvReq] = Answer(srvReq, srvText)]
      /\ srvReq' = NoRequest /\ srvPc' = "loop"
  BY DEF Respond, ServerInv
<1>4. srvText \in Texts
  BY <1>3 DEF Justified, Texts, Replies
<1>5. InboxInv'
  <2>1. srvReq \notin inbox \cup unsent
    BY DEF InboxInv
  <2>2. inbox \cup unsent \subseteq Requests
    BY DEF TypeOK, QueueTypeOK
  <2>3. \A q \in inbox \cup unsent : answer'[q] = "none"
    BY <1>3, <2>1, <2>2 DEF InboxInv, TypeOK, HistoryTypeOK
  <2>4. QED
    BY <1>1, <1>2, <1>3, <2>2, <2>3, RequestsAssumption DEF InboxInv
<1>6. QueueInv' /\ ProcessInv' /\ ReplyInv' /\ NoCommandLost'
  BY <1>1 DEF traces, process, QueueInv, ProcessInv, ReplyInv, NoCommandLost,
              WasAccepted, InQueue
<1>7. ServerInv'
  BY <1>3 DEF ServerInv
<1>8. AnswerInv'
  BY <1>2, <1>3, <1>4 DEF AnswerInv, TypeOK, HistoryTypeOK, Answer, SuccessReply
<1>9. QED
  BY <1>5, <1>6, <1>7, <1>8

\* The queue takes a command that was in no place of the server before.
LEMMA PushStep ==
    ASSUME TypeOK, DataInv, Push
    PROVE  DataInv'
<1> USE DEF DataInv
<1>1. /\ srvReq \in Requests /\ srvReq' = srvReq
      /\ answer[srvReq] = "none"
      /\ Untouched(srvReq)
      /\ srvReq \notin inbox \cup unsent
  BY DEF Push, ServerInv, InboxInv
<1>2. /\ inbox \cup unsent \subseteq Requests
      /\ queue \in Seq(Requests) /\ accepted \in Seq(Requests)
  BY DEF TypeOK, QueueTypeOK, HistoryTypeOK
<1>3. UNCHANGED <<reply, inbox, unsent, process, answer, runs, done>>
  BY DEF Push
<1>4. CASE queueShutdown \/ QueueFull
  <2>1. UNCHANGED <<traces, server, history>> \/ srvPc' = "refused"
    BY <1>4 DEF Push
  <2>2. UNCHANGED traces
    BY <1>3, <1>4 DEF Push, traces, process
  <2>3. /\ \A q : Untouched(q)' <=> Untouched(q)
        /\ \A q, t : Justified(q, t)' <=> Justified(q, t)
    BY <2>2, SameTraces
  <2>4. InboxInv'
    BY <1>1, <1>3, <2>3 DEF InboxInv
  <2>5. QueueInv' /\ ProcessInv' /\ ReplyInv' /\ NoCommandLost'
    BY <1>3, <2>2 DEF traces, process, QueueInv, ProcessInv, ReplyInv, NoCommandLost,
                      WasAccepted, InQueue
  <2>6. ServerInv' /\ AnswerInv'
    BY <1>1, <1>3, <1>4, <2>3 DEF Push, ServerInv, AnswerInv
  <2>7. QED
    BY <2>4, <2>5, <2>6
<1>5. CASE ~(queueShutdown \/ QueueFull)
  <2>1. /\ queue' = Append(queue, srvReq)
        /\ accepted' = Append(accepted, srvReq)
        /\ srvPc' = "wait"
    BY <1>5 DEF Push
  <2>2. /\ \A q : Occurs(queue', q) <=> Occurs(queue, q) \/ q = srvReq
        /\ \A q : Occurs(accepted', q) <=> Occurs(accepted, q) \/ q = srvReq
    BY <1>1, <1>2, <2>1, OccursAppend
  <2>3. /\ \A q : q # srvReq => (Untouched(q)' <=> Untouched(q))
        /\ \A q, t : q # srvReq => (Justified(q, t)' <=> Justified(q, t))
    BY <1>3, <2>2 DEF Untouched, Justified, WasAccepted, InQueue, process
  <2>4. InboxInv'
    BY <1>1, <1>3, <2>3 DEF InboxInv
  <2>5. QueueInv'
    <3>1. Distinct(queue')
      BY <1>1, <1>2, <2>1, DistinctAppend DEF QueueInv, Untouched, InQueue
    <3>2. QED
      BY <1>1, <1>3, <2>2, <3>1 DEF QueueInv, Untouched, InQueue, process
  <2>6. ProcessInv' /\ ReplyInv'
    BY <1>3 DEF ProcessInv, ReplyInv, process
  <2>7. ServerInv'
    BY <1>1, <1>3, <2>1 DEF ServerInv
  <2>8. AnswerInv'
    BY <1>1, <1>3, <2>3 DEF AnswerInv
  <2>9. NoCommandLost'
    BY <1>3, <2>2 DEF NoCommandLost, WasAccepted, InQueue, process
  <2>10. QED
    BY <2>4, <2>5, <2>6, <2>7, <2>8, <2>9
<1>6. QED
  BY <1>4, <1>5

\* The process thread takes the oldest command out of the queue, if any.
LEMMA TryPopStep ==
    ASSUME TypeOK, DataInv, TryPop
    PROVE  DataInv'
<1> USE DEF DataInv
<1>1. UNCHANGED <<reply, inbox, unsent, server, answer, runs, done, accepted, procReply>>
  BY DEF TryPop
<1>2. procReq = NoRequest /\ procPc = "command" /\ queue \in Seq(Requests)
  BY DEF TryPop, TypeOK, QueueTypeOK, ThreadTypeOK
<1>3. CASE queue = <<>>
  <2>1. UNCHANGED traces /\ UNCHANGED history /\ procPc' = "loop"
    BY <1>1, <1>3 DEF TryPop, traces, history
  <2>2. QED
    BY <1>1, <2>1, QuietStep DEF traces
<1>4. CASE queue # <<>>
  <2>1. /\ Head(queue) \in Requests
        /\ queue' = Tail(queue) /\ procReq' = Head(queue) /\ procPc' = "handle"
    BY <1>2, <1>4 DEF TryPop
  <2>2. \A q : Occurs(queue, q) <=> q = procReq' \/ Occurs(queue', q)
    BY <1>2, <1>4, <2>1, OccursTail
  <2>3. Distinct(queue') /\ ~Occurs(queue', procReq')
    BY <1>2, <1>4, <2>1, DistinctTail DEF QueueInv
  <2>4. /\ \A q \in Requests : Untouched(q)' <=> Untouched(q)
        /\ \A q \in Requests : \A t : Justified(q, t)' <=> Justified(q, t)
    BY <1>1, <1>2, <2>1, <2>2, RequestsAssumption
       DEF Untouched, Justified, WasAccepted, InQueue
  <2>5. InboxInv'
    <3>1. inbox \cup unsent \subseteq Requests
      BY DEF TypeOK, QueueTypeOK
    <3>2. QED
      BY <1>1, <2>4, <3>1 DEF InboxInv, server
  <2>6. QueueInv'
    BY <1>1, <2>2, <2>3 DEF QueueInv, InQueue
  <2>7. ProcessInv'
    BY <1>1, <2>1, <2>2 DEF ProcessInv, QueueInv, InQueue
  <2>8. ReplyInv'
    BY <1>1 DEF ReplyInv
  <2>9. ServerInv' /\ AnswerInv'
    BY <1>1, <2>4 DEF ServerInv, AnswerInv, server
  <2>10. NoCommandLost'
    BY <1>1, <1>2, <2>2, RequestsAssumption DEF NoCommandLost, WasAccepted, InQueue
  <2>11. QED
    BY <2>5, <2>6, <2>7, <2>8, <2>9, <2>10
<1>5. QED
  BY <1>3, <1>4

\* The handler runs.
LEMMA HandleStep ==
    ASSUME TypeOK, DataInv, NEW ok \in BOOLEAN, Handle(ok)
    PROVE  DataInv'
<1> USE DEF DataInv
<1>1. /\ UNCHANGED <<queue, reply, inbox, unsent, server, procReq, answer, accepted>>
      /\ procReq \in Requests /\ reply[procReq] = "none" /\ runs[procReq] = 0
      /\ procPc' = "reply"
  BY DEF Handle, ProcessInv, TypeOK, ThreadTypeOK
<1>2. /\ runs' = [runs EXCEPT ![procReq] = 1]
      /\ runs \in [Requests -> Nat]
  BY <1>1 DEF Handle, TypeOK, HistoryTypeOK
<1>3. /\ \A q \in Requests : Untouched(q)' <=> Untouched(q)
      /\ \A q \in Requests : \A t : Justified(q, t)' <=> Justified(q, t)
  BY <1>1, <1>2 DEF Untouched, Justified, WasAccepted, InQueue
<1>4. procReq \notin done
  BY <1>1 DEF ReplyInv
<1>5. InboxInv'
  <2>1. inbox \cup unsent \subseteq Requests
    BY DEF TypeOK, QueueTypeOK
  <2>2. QED
    BY <1>1, <1>3, <2>1 DEF InboxInv, server
<1>6. QueueInv'
  BY <1>1, <1>2 DEF QueueInv, InQueue
<1>7. ProcessInv'
  BY <1>1, <1>2, <1>4 DEF ProcessInv, Handle
<1>8. ReplyInv'
  BY <1>1, <1>2, <1>4 DEF ReplyInv, Handle
<1>9. ServerInv' /\ AnswerInv'
  BY <1>1, <1>3 DEF ServerInv, AnswerInv, server
<1>10. NoCommandLost'
  BY <1>1 DEF NoCommandLost, WasAccepted, InQueue
<1>11. QED
  BY <1>5, <1>6, <1>7, <1>8, <1>9, <1>10

\* The process thread sets the promise of the command it handled.
LEMMA SetReplyStep ==
    ASSUME TypeOK, DataInv, SetReply
    PROVE  DataInv'
<1> USE DEF DataInv
<1>1. /\ UNCHANGED <<queue, inbox, unsent, server, answer, runs, done, accepted>>
      /\ procReq \in Requests /\ reply[procReq] = "none"
      /\ procReq' = NoRequest /\ procPc' = "loop"
  BY DEF SetReply, ProcessInv, TypeOK, ThreadTypeOK, history
<1>2. /\ reply' = [reply EXCEPT ![procReq] = procReply]
      /\ reply \in [Requests -> Replies \cup {"none"}]
      /\ runs[procReq] = 1
      /\ IF procReq \in done
         THEN procReply = SuccessReply(procReq)
         ELSE procReply = "error"
  BY DEF SetReply, ProcessInv, TypeOK, QueueTypeOK
<1>3. procReply # "none" /\ procReply # "shuttingDown"
  BY <1>2 DEF SuccessReply
<1>4. /\ \A q \in Requests : Untouched(q)' <=> Untouched(q)
      /\ \A q \in Requests : \A t \in Texts : Justified(q, t) => Justified(q, t)'
  BY <1>1, <1>2, <1>3, RequestsAssumption
     DEF Untouched, Justified, WasAccepted, InQueue, Replies
<1>5. InboxInv'
  <2>1. inbox \cup unsent \subseteq Requests
    BY DEF TypeOK, QueueTypeOK
  <2>2. QED
    BY <1>1, <1>4, <2>1 DEF InboxInv, server
<1>6. QueueInv'
  BY <1>1, <1>2, RequestsAssumption DEF QueueInv, InQueue
<1>7. ProcessInv'
  BY <1>1 DEF ProcessInv
<1>8. ReplyInv'
  BY <1>1, <1>2 DEF ReplyInv, SuccessReply
<1>9. ServerInv'
  BY <1>1, <1>4 DEF ServerInv, server, Justified, Texts
<1>10. AnswerInv'
  BY <1>1, <1>4 DEF AnswerInv
<1>11. NoCommandLost'
  BY <1>1, <1>2, <1>3 DEF NoCommandLost, WasAccepted, InQueue
<1>12. QED
  BY <1>5, <1>6, <1>7, <1>8, <1>9, <1>10, <1>11

\* A shutdown takes the oldest command out of the queue and refuses it.
LEMMA DrainStep ==
    ASSUME TypeOK, DataInv, Drain
    PROVE  DataInv'
<1> USE DEF DataInv
<1>1. /\ UNCHANGED <<inbox, unsent, server, process, history>>
      /\ queue \in Seq(Requests)
  BY DEF Drain, TypeOK, QueueTypeOK
<1>2. CASE queue = <<>>
  <2>1. UNCHANGED <<queue, reply>>
    BY <1>2 DEF Drain
  <2>2. QED
    BY <1>1, <2>1, QuietStep DEF process
<1>3. CASE queue # <<>>
  <2> DEFINE h == Head(queue)
  <2>1. /\ h \in Requests
        /\ queue' = Tail(queue)
        /\ reply' = [reply EXCEPT ![h] = "shuttingDown"]
        /\ reply \in [Requests -> Replies \cup {"none"}]
    BY <1>1, <1>3 DEF Drain, TypeOK, QueueTypeOK
  <2>2. \A q : Occurs(queue, q) <=> q = h \/ Occurs(queue', q)
    BY <1>1, <1>3, <2>1, OccursTail
  <2>3. Distinct(queue') /\ ~Occurs(queue', h)
    BY <1>1, <1>3, <2>1, DistinctTail DEF QueueInv
  <2>4. h # procReq /\ reply[h] = "none" /\ runs[h] = 0
    BY <2>1, <2>2 DEF QueueInv, InQueue
  <2> HIDE DEF h
  <2>5. /\ \A q \in Requests : Untouched(q)' <=> Untouched(q)
        /\ \A q \in Requests : \A t \in Texts : Justified(q, t) => Justified(q, t)'
    BY <1>1, <2>1, <2>2, <2>4
       DEF Untouched, Justified, WasAccepted, InQueue, Replies, process, history
  <2>6. InboxInv'
    <3>1. inbox \cup unsent \subseteq Requests
      BY DEF TypeOK, QueueTypeOK
    <3>2. QED
      BY <1>1, <2>5, <3>1 DEF InboxInv, server, history
  <2>7. QueueInv'
    BY <1>1, <2>1, <2>2, <2>3 DEF QueueInv, InQueue, process, history
  <2>8. ProcessInv'
    BY <1>1, <2>1, <2>4, RequestsAssumption
       DEF ProcessInv, process, history, TypeOK, ThreadTypeOK
  <2>9. ReplyInv'
    BY <1>1, <2>1, <2>4 DEF ReplyInv, history, SuccessReply
  <2>10. ServerInv'
    BY <1>1, <2>5 DEF ServerInv, server, history, Justified, Texts
  <2>11. AnswerInv'
    BY <1>1, <2>5 DEF AnswerInv, history
  <2>12. NoCommandLost'
    BY <1>1, <2>1, <2>2 DEF NoCommandLost, WasAccepted, InQueue, process, history
  <2>13. QED
    BY <2>6, <2>7, <2>8, <2>9, <2>10, <2>11, <2>12
<1>4. QED
  BY <1>2, <1>3

\* Initially no request has left a trace anywhere.
LEMMA InitDataInv == Init => DataInv
<1> SUFFICES ASSUME Init  PROVE DataInv
  OBVIOUS
<1>1. \A r \in Requests : Untouched(r)
  <2>1. \A r : ~Occurs(<<>>, r)
    BY DEF Occurs
  <2>2. QED
    BY <2>1, RequestsAssumption DEF Init, Untouched, WasAccepted, InQueue
<1>2. InboxInv /\ ServerInv /\ AnswerInv
  BY <1>1, RequestsAssumption DEF Init, InboxInv, ServerInv, AnswerInv
<1>3. QueueInv /\ ProcessInv /\ ReplyInv /\ NoCommandLost
  BY <1>1 DEF Init, QueueInv, ProcessInv, ReplyInv, NoCommandLost, Untouched, Distinct
<1>4. QED
  BY <1>2, <1>3 DEF DataInv

\* What LifecycleInv is for: only a process thread that is not there is started.
LEMMA NextDataInv == TypeOK /\ LifecycleInv /\ DataInv /\ [Next]_vars => DataInv'
<1> SUFFICES ASSUME TypeOK, LifecycleInv, DataInv, [Next]_vars  PROVE DataInv'
  OBVIOUS
<1>1. CASE \E r \in Requests : Send(r)
  BY <1>1, SendStep
<1>2. CASE ServerStep
  <2>1. CASE ServerLoop \/ ReceiveTimeout
    <3>1. /\ UNCHANGED <<queue, reply, inbox, unsent, procReq, procReply, history, procPc>>
          /\ UNCHANGED srvReq /\ srvPc' \notin {"submit", "refused", "wait", "respond"}
      BY <2>1 DEF ServerLoop, ReceiveTimeout, process
    <3>2. QED
      BY <3>1, QuietStep
  <2>2. CASE \E r \in Requests : Receive(r)
    BY <2>2, ReceiveStep
  <2>3. CASE Push
    BY <2>3, PushStep
  <2>4. CASE ExplainRefusal \/ ReplyReady \/ ReplyTimeout
    BY <2>4, TextStep
  <2>5. CASE Respond
    BY <2>5, RespondStep
  <2>6. CASE ReceiveThrows
    <3>1. UNCHANGED <<queue, reply, inbox, unsent, server, process, history>>
      BY <2>6 DEF ReceiveThrows
    <3>2. QED
      BY <3>1, QuietStep DEF process
  <2>7. QED
    BY <1>2, <2>1, <2>2, <2>3, <2>4, <2>5, <2>6 DEF ServerStep
<1>3. CASE ProcessStep
  <2>1. CASE ProcessLoop
    <3>1. /\ UNCHANGED <<queue, reply, inbox, unsent, procReq, procReply, history, server>>
          /\ procPc' \notin {"handle", "reply"}
      BY <2>1 DEF ProcessLoop
    <3>2. QED
      BY <3>1, QuietStep
  <2>2. QED
    BY <1>3, <2>1, TryPopStep, HandleStep, SetReplyStep DEF ProcessStep
<1>4. CASE BeginInitialize \/ BeginShutdown
  <2>1. UNCHANGED <<queue, reply, inbox, unsent, server, process, history>>
    BY <1>4 DEF BeginInitialize, BeginShutdown
  <2>2. QED
    BY <2>1, QuietStep DEF process
<1>5. CASE LifecycleStep
  <2>1. CASE Drain
    BY <2>1, DrainStep
  <2>2. CASE SpawnFails \/ CloseQueue
    <3>1. UNCHANGED <<queue, reply, inbox, unsent, server, process, history>>
      BY <2>2 DEF SpawnFails, CloseQueue
    <3>2. QED
      BY <3>1, QuietStep DEF process
  <2>3. CASE SpawnProcess \/ JoinProcess
    <3>1. /\ UNCHANGED <<queue, reply, inbox, unsent, server, procReq, procReply, history>>
          /\ procPc' \notin {"handle", "reply"}
      BY <2>3 DEF SpawnProcess, JoinProcess
    <3>2. QED
      BY <3>1, QuietStep
  <2>4. CASE JoinServer
    <3>1. /\ UNCHANGED <<queue, reply, inbox, unsent, srvReq, process, history>>
          /\ srvPc' \notin {"submit", "refused", "wait", "respond"}
      BY <2>4 DEF JoinServer
    <3>2. QED
      BY <3>1, QuietStep DEF process
  <2>5. CASE SpawnServer
    <3>1. UNCHANGED <<queue, reply, inbox, unsent, srvReq, srvText, process, history>>
      BY <2>5 DEF SpawnServer
    <3>2. srvPc' = "loop" \/ UNCHANGED srvPc
      BY <2>5 DEF SpawnServer
    <3>3. CASE srvPc' = "loop"
      BY <3>1, <3>3, QuietStep DEF process
    <3>4. CASE UNCHANGED srvPc
      <4>1. UNCHANGED server
        BY <3>1, <3>4 DEF server
      <4>2. QED
        BY <3>1, <4>1, QuietStep DEF process
    <3>5. QED
      BY <3>2, <3>3, <3>4
  <2>6. QED
    BY <1>5, <2>1, <2>2, <2>3, <2>4, <2>5 DEF LifecycleStep
<1>6. CASE Terminated \/ UNCHANGED vars
  <2>1. UNCHANGED <<queue, reply, inbox, unsent, server, process, history>>
    BY <1>6 DEF Terminated, vars
  <2>2. QED
    BY <2>1, QuietStep DEF process
<1>7. QED
  BY <1>1, <1>2, <1>3, <1>4, <1>5, <1>6 DEF Next

\* The inductive invariant holds.
LEMMA Inductive == Spec => []IInv
<1>1. Init => IInv
  BY InitTypeOK, InitDataInv DEF IInv, DataInv, Init, LifecycleInv
<1>2. IInv /\ [Next]_vars => IInv'
  BY NextFlagTypeOK, NextDataTypeOK, NextLifecycleInv, NextDataInv DEF IInv, DataInv, TypeOK
<1>3. QED
  BY <1>1, <1>2, PTL DEF Spec

-----------------------------------------------------------------------------
(* The safety properties.                                                  *)

\* An accepted command is in the queue, in hand, or answered for, whoever pops
\* it (Machine.cpp:283 against CommandInterface.hpp:104).
THEOREM NothingLost == Spec => []NoCommandLost
<1>1. IInv => NoCommandLost
  BY DEF IInv
<1>2. QED
  BY <1>1, Inductive, PTL

\* The answers of processCommand are true of the handlers' runs.
THEOREM Truthful == Spec => []AnswersAreTrue
<1>1. ASSUME IInv  PROVE AnswersAreTrue
  <2> SUFFICES ASSUME NEW r \in Requests
               PROVE  /\ runs[r] <= 1
                      /\ answer[r] = "OK" => runs[r] = 1 /\ r \in done
                      /\ answer[r] = "error" => runs[r] = 1 /\ r \notin done
                      /\ answer[r] \in {"invalid", "full", "shuttingDown"} => runs[r] = 0
    BY DEF AnswersAreTrue
  <2>1. /\ runs[r] <= 1
        /\ reply[r] = SuccessReply(r) => runs[r] = 1 /\ r \in done
        /\ reply[r] = "error" => runs[r] = 1 /\ r \notin done
        /\ reply[r] = "shuttingDown" => runs[r] = 0
    BY <1>1 DEF IInv, ReplyInv, SuccessReply
  <2>2. answer[r] # "none" =>
           \E t \in Texts : answer[r] = Answer(r, t) /\ Justified(r, t)
    BY <1>1 DEF IInv, AnswerInv
  <2>3. QED
    BY <2>1, <2>2 DEF Answer, SuccessReply, Justified, Untouched, Texts, Replies
<1>2. QED
  BY <1>1, Inductive, PTL

\* After the join of the process thread nothing is left in the server.
THEOREM ShutdownIsClean == Spec => []ShutdownLeavesNothing
<1>1. ASSUME IInv, lifecycle = "joinServer"
      PROVE  /\ queue = <<>>
             /\ procReq = NoRequest
             /\ \A r \in Requests : WasAccepted(r) => reply[r] # "none"
  <2>1. queue = <<>> /\ procPc = "off"
    BY <1>1 DEF IInv, LifecycleInv
  <2>2. procReq = NoRequest
    BY <1>1, <2>1 DEF IInv, TypeOK, ThreadTypeOK
  <2>3. \A r : ~InQueue(r)
    BY <2>1 DEF InQueue, Occurs
  <2>4. QED
    BY <1>1, <2>1, <2>2, <2>3, RequestsAssumption DEF IInv, NoCommandLost
<1>2. IInv => ShutdownLeavesNothing
  BY <1>1 DEF ShutdownLeavesNothing
<1>3. QED
  BY <1>2, Inductive, PTL

-----------------------------------------------------------------------------
(* CommandPath implements CommandService.                                  *)

\* Every step is a step of the service, or invisible to the clients.
LEMMA StepRefines == IInv /\ [Next]_vars => [Service!Next]_(Service!vars)
<1> SUFFICES ASSUME IInv, [Next]_vars
             PROVE  Service!Next \/ UNCHANGED <<runs, done, answer>>
  BY DEF Service!vars
<1>1. CASE \E ok \in BOOLEAN : Handle(ok)
  <2>1. PICK ok \in BOOLEAN : Handle(ok)
    BY <1>1
  <2>2. procReq \in Requests /\ runs[procReq] = 0 /\ reply[procReq] = "none"
    BY <2>1 DEF Handle, IInv, ProcessInv, TypeOK, ThreadTypeOK
  <2>3. answer[procReq] \in {"none", "timedOut"}
    BY <2>2 DEF IInv, AnswerInv, Justified, Untouched, Answer, SuccessReply, Replies
  <2>4. Service!Perform(procReq)
    BY <2>1, <2>2, <2>3 DEF Handle, Service!Perform, IInv, TypeOK, HistoryTypeOK
  <2>5. QED
    BY <2>2, <2>4 DEF Service!Next
<1>2. CASE Respond
  <2>1. /\ srvReq \in Requests /\ answer[srvReq] = "none"
        /\ Justified(srvReq, srvText)
        /\ srvText \in Texts
    BY <1>2 DEF Respond, IInv, ServerInv, Justified, Texts, Replies
  <2> DEFINE a == Answer(srvReq, srvText)
  <2>2. /\ runs[srvReq] <= 1
        /\ reply[srvReq] = SuccessReply(srvReq) => srvReq \in done
        /\ reply[srvReq] = "error" => runs[srvReq] = 1 /\ srvReq \notin done
        /\ reply[srvReq] = "shuttingDown" => runs[srvReq] = 0
        /\ reply[srvReq] \in {"empty", "json"} => reply[srvReq] = SuccessReply(srvReq)
    BY <2>1 DEF IInv, ReplyInv, SuccessReply
  <2>3. \/ a = "OK" /\ srvReq \in done
        \/ a = "error" /\ runs[srvReq] = 1 /\ srvReq \notin done
        \/ a \in Service!Refusals /\ runs[srvReq] = 0
        \/ a = "timedOut"
    BY <2>1, <2>2 DEF Justified, Untouched, Answer, SuccessReply, Service!Refusals, Replies
  <2>4. Service!Reply(srvReq, a)
    BY <1>2, <2>1, <2>3 DEF Respond, Service!Reply
  <2>5. a \in {"OK", "error", "timedOut"} \cup Service!Refusals
    BY <2>3
  <2>6. QED
    BY <2>1, <2>4, <2>5 DEF Service!Next
<1>3. CASE \E r \in Requests : Send(r)
  BY <1>3 DEF Send, history
<1>4. CASE ServerStep /\ ~Respond
  BY <1>4 DEF ServerStep, ServerLoop, Receive, ReceiveTimeout, ReceiveThrows, Push, ExplainRefusal,
              ReplyReady, ReplyTimeout, history
<1>5. CASE ProcessLoop \/ TryPop \/ SetReply
  BY <1>5 DEF ProcessLoop, TryPop, SetReply, history
<1>6. CASE BeginInitialize \/ BeginShutdown
  BY <1>6 DEF BeginInitialize, BeginShutdown, history
<1>7. CASE LifecycleStep
  BY <1>7 DEF LifecycleStep, SpawnServer, SpawnProcess, SpawnFails, CloseQueue, Drain,
              JoinProcess, JoinServer, history
<1>8. CASE Terminated \/ UNCHANGED vars
  BY <1>8 DEF Terminated, vars, history
<1>9. QED
  BY <1>1, <1>2, <1>3, <1>4, <1>5, <1>6, <1>7, <1>8 DEF Next, ServerStep, ProcessStep

\* What a client observes is what CommandService promises.
THEOREM Refinement == Spec => ServiceSpec
<1>1. Init => Service!Init
  BY DEF Init, Service!Init
<1>2. QED
  BY <1>1, StepRefines, Inductive, PTL DEF Spec, ServiceSpec, Service!Spec

-----------------------------------------------------------------------------
(* The order of service.  What has been popped, followed by what is queued, *)
(* is in the order of acceptance; a drain only leaves commands out.         *)

Precedes(s, x, y) == \E a, b \in 1..Len(s) : a < b /\ s[a] = x /\ s[b] = y

\* The elements of t occur in s, in the order of t.
InOrder(t, s) ==
    /\ \A i \in 1..Len(t) : Occurs(s, t[i])
    /\ \A i, j \in 1..Len(t) : i < j => Precedes(s, t[i], t[j])

OrderInv ==
    /\ ~queueShutdown => accepted = started \o queue
    /\ InOrder(started \o queue, accepted)

\* The same element at the end of both keeps the order.
LEMMA InOrderAppend ==
    ASSUME NEW S, NEW t \in Seq(S), NEW s \in Seq(S), NEW x \in S, InOrder(t, s)
    PROVE  InOrder(Append(t, x), Append(s, x))
<1>1. /\ Len(Append(t, x)) = Len(t) + 1 /\ Len(t) \in Nat
      /\ Len(Append(s, x)) = Len(s) + 1 /\ Len(s) \in Nat
  OBVIOUS
<1>2. /\ \A i \in 1..Len(t) : Append(t, x)[i] = t[i]
      /\ \A i \in 1..Len(s) : Append(s, x)[i] = s[i]
  OBVIOUS
<1>3. Append(t, x)[Len(t) + 1] = x /\ Append(s, x)[Len(s) + 1] = x
  OBVIOUS
<1>4. ASSUME NEW i \in 1..Len(Append(t, x))
      PROVE  Occurs(Append(s, x), Append(t, x)[i])
  <2>1. CASE i \in 1..Len(t)
    BY <1>2, <2>1, OccursAppend DEF InOrder
  <2>2. CASE i = Len(t) + 1
    BY <1>3, <2>2, OccursAppend
  <2>3. QED
    BY <1>1, <2>1, <2>2
<1>5. ASSUME NEW i \in 1..Len(Append(t, x)), NEW j \in 1..Len(Append(t, x)), i < j
      PROVE  Precedes(Append(s, x), Append(t, x)[i], Append(t, x)[j])
  <2>1. i \in 1..Len(t)
    BY <1>1, <1>5
  <2>2. CASE j \in 1..Len(t)
    <3>1. PICK a, b \in 1..Len(s) : a < b /\ s[a] = t[i] /\ s[b] = t[j]
      BY <1>5, <2>1, <2>2 DEF InOrder, Precedes
    <3>2. a \in 1..Len(Append(s, x)) /\ b \in 1..Len(Append(s, x))
      BY <1>1
    <3>3. QED
      BY <1>2, <2>1, <2>2, <3>1, <3>2 DEF Precedes
  <2>3. CASE j = Len(t) + 1
    <3>1. PICK a \in 1..Len(s) : s[a] = t[i]
      BY <2>1 DEF InOrder, Occurs
    <3>2. /\ a \in 1..Len(Append(s, x)) /\ Len(s) + 1 \in 1..Len(Append(s, x))
          /\ a < Len(s) + 1
      BY <1>1
    <3>3. QED
      BY <1>2, <1>3, <2>1, <2>3, <3>1, <3>2 DEF Precedes
  <2>4. QED
    BY <1>1, <2>2, <2>3
<1>6. QED
  BY <1>4, <1>5 DEF InOrder

\* Leaving out the first element of the second half keeps the order.
LEMMA InOrderSkip ==
    ASSUME NEW S, NEW p \in Seq(S), NEW q \in Seq(S), q # <<>>, NEW s,
           InOrder(p \o q, s)
    PROVE  InOrder(p \o Tail(q), s)
<1> DEFINE old(i) == IF i <= Len(p) THEN i ELSE i + 1
<1>1. /\ Len(p) \in Nat /\ Len(q) \in Nat /\ Len(q) > 0
      /\ Tail(q) \in Seq(S) /\ Len(Tail(q)) = Len(q) - 1
      /\ Len(p \o q) = Len(p) + Len(q)
      /\ Len(p \o Tail(q)) = Len(p) + Len(q) - 1
  OBVIOUS
<1>2. \A i \in 1..Len(p \o Tail(q)) :
         old(i) \in 1..Len(p \o q) /\ (p \o Tail(q))[i] = (p \o q)[old(i)]
  BY <1>1
<1>3. \A i, j \in 1..Len(p \o Tail(q)) : i < j => old(i) < old(j)
  BY <1>1
<1> HIDE DEF old
<1>4. QED
  BY <1>2, <1>3 DEF InOrder

\* Leaving out the second half keeps the order.
LEMMA InOrderPrefix ==
    ASSUME NEW S, NEW p \in Seq(S), NEW q \in Seq(S), NEW s, InOrder(p \o q, s)
    PROVE  InOrder(p, s)
<1>1. \A i \in 1..Len(p) : i \in 1..Len(p \o q) /\ (p \o q)[i] = p[i]
  OBVIOUS
<1>2. QED
  BY <1>1 DEF InOrder

\* A pop moves the border between the two halves.
LEMMA MoveBorder ==
    ASSUME NEW S, NEW p \in Seq(S), NEW q \in Seq(S), q # <<>>
    PROVE  Append(p, Head(q)) \o Tail(q) = p \o q
OBVIOUS

\* A push appends to the second half.
LEMMA AppendToSecond ==
    ASSUME NEW S, NEW p \in Seq(S), NEW q \in Seq(S), NEW x \in S
    PROVE  p \o Append(q, x) = Append(p \o q, x)
OBVIOUS

\* No step changes the order in which the accepted commands are taken.
LEMMA NextOrderInv == TypeOK /\ LifecycleInv /\ OrderInv /\ [Next]_vars => OrderInv'
<1> SUFFICES ASSUME TypeOK, LifecycleInv, OrderInv, [Next]_vars  PROVE OrderInv'
  OBVIOUS
<1>1. queue \in Seq(Requests) /\ accepted \in Seq(Requests) /\ started \in Seq(Requests)
  BY DEF TypeOK, QueueTypeOK, HistoryTypeOK
<1>2. ASSUME UNCHANGED <<queue, accepted, started>>, queueShutdown' \in {queueShutdown, TRUE}
      PROVE  OrderInv'
  BY <1>2 DEF OrderInv
<1>3. CASE Push
  <2>1. CASE queueShutdown \/ QueueFull
    BY <1>2, <1>3, <2>1 DEF Push
  <2>2. CASE ~(queueShutdown \/ QueueFull)
    <3>1. /\ queue' = Append(queue, srvReq) /\ accepted' = Append(accepted, srvReq)
          /\ UNCHANGED <<queueShutdown, started>>
          /\ srvReq \in Requests
      BY <1>3, <2>2 DEF Push, TypeOK, ThreadTypeOK
    <3>2. started \o queue' = Append(started \o queue, srvReq)
      BY <1>1, <3>1, AppendToSecond
    <3>3. started \o queue \in Seq(Requests)
      BY <1>1
    <3>4. InOrder(started \o queue', accepted')
      BY <1>1, <3>1, <3>2, <3>3, InOrderAppend DEF OrderInv
    <3>5. QED
      BY <3>1, <3>2, <3>4 DEF OrderInv
  <2>3. QED
    BY <2>1, <2>2
<1>4. CASE TryPop
  <2>1. CASE queue = <<>>
    BY <1>2, <1>4, <2>1 DEF TryPop
  <2>2. CASE queue # <<>>
    <3>1. /\ queue' = Tail(queue) /\ started' = Append(started, Head(queue))
          /\ UNCHANGED <<queueShutdown, accepted>>
      BY <1>4, <2>2 DEF TryPop
    <3>2. started' \o queue' = started \o queue
      BY <1>1, <2>2, <3>1, MoveBorder
    <3>3. QED
      BY <3>1, <3>2 DEF OrderInv
  <2>3. QED
    BY <2>1, <2>2
<1>5. CASE Drain
  <2>1. CASE queue = <<>>
    BY <1>2, <1>5, <2>1 DEF Drain, history
  <2>2. CASE queue # <<>>
    <3>1. queue' = Tail(queue) /\ UNCHANGED <<queueShutdown, accepted, started>>
      BY <1>5, <2>2 DEF Drain, history
    <3>2. InOrder(started \o queue', accepted)
      BY <1>1, <2>2, <3>1, InOrderSkip DEF OrderInv
    <3>3. queueShutdown
      BY <1>5 DEF Drain, LifecycleInv
    <3>4. QED
      BY <3>1, <3>2, <3>3 DEF OrderInv
  <2>3. QED
    BY <2>1, <2>2
<1>6. CASE \E r \in Requests : Send(r)
  BY <1>2, <1>6 DEF Send, history
<1>7. CASE ServerStep /\ ~Push
  BY <1>2, <1>7 DEF ServerStep, ServerLoop, Receive, ReceiveTimeout, ReceiveThrows, ExplainRefusal,
                    ReplyReady, ReplyTimeout, Respond, history
<1>8. CASE ProcessStep /\ ~TryPop
  BY <1>2, <1>8 DEF ProcessStep, ProcessLoop, Handle, SetReply, history
<1>9. CASE BeginInitialize \/ BeginShutdown
  BY <1>2, <1>9 DEF BeginInitialize, BeginShutdown, history
<1>10. CASE LifecycleStep /\ ~Drain
  BY <1>2, <1>10 DEF LifecycleStep, SpawnServer, SpawnProcess, SpawnFails, CloseQueue,
                     JoinProcess, JoinServer, history
<1>11. CASE Terminated \/ UNCHANGED vars
  BY <1>2, <1>11 DEF Terminated, vars, history
<1>12. QED
  BY <1>3, <1>4, <1>5, <1>6, <1>7, <1>8, <1>9, <1>10, <1>11 DEF Next

\* Commands are handled in the order in which CommandQueue::push took them.
THEOREM FirstComeFirstServed == Spec => []ServedInOrder
<1>1. Init => OrderInv
  BY DEF Init, OrderInv, InOrder
<1>2. TypeOK /\ OrderInv => ServedInOrder
  <2> SUFFICES ASSUME TypeOK, OrderInv  PROVE ServedInOrder
    OBVIOUS
  <2>1. queue \in Seq(Requests) /\ started \in Seq(Requests)
    BY DEF TypeOK, QueueTypeOK, HistoryTypeOK
  <2>2. InOrder(started, accepted)
    BY <2>1, InOrderPrefix DEF OrderInv
  <2>3. QED
    BY <2>2 DEF OrderInv, InOrder, Precedes, ServedInOrder
<1>3. IInv => TypeOK /\ LifecycleInv
  BY DEF IInv
<1>4. QED
  BY <1>1, <1>2, <1>3, NextOrderInv, Inductive, PTL DEF Spec
=============================================================================
