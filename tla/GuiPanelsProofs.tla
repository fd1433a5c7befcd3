-------------------------- MODULE GuiPanelsProofs --------------------------
(***************************************************************************)
(* Proofs about GuiPanels, for any motors, any names of requests and any   *)
(* bound of the event queue: the types, that the requests under way have   *)
(* names of their own, what the motor panel shows, and that the link       *)
(* implements RequestLedger.                                               *)
(***************************************************************************)
EXTENDS GuiPanels, Integers, TLAPS, SequenceTheorems, FiniteSetTheorems, WellFoundedInduction

-----------------------------------------------------------------------------
(* The responses among the events.                                         *)

\* Of the events of a sequence finitely many are responses.
LEMMA FewAhead ==
    ASSUME NEW S, NEW es \in Seq(S), NEW i
    PROVE  /\ Len(es) \in Nat /\ DOMAIN es = 1..Len(es)
           /\ Responses(es) \in SUBSET (1..Len(es)) /\ Responses(es) \subseteq Nat
           /\ Ahead(es, i) \in SUBSET Responses(es)
           /\ IsFiniteSet(Responses(es)) /\ IsFiniteSet(Ahead(es, i))
           /\ Cardinality(Responses(es)) \in Nat /\ Cardinality(Ahead(es, i)) \in Nat
           /\ Cardinality(Ahead(es, i)) <= Cardinality(Responses(es))
<1>1. Len(es) \in Nat /\ DOMAIN es = 1..Len(es)
  BY LenProperties
<1>2. Responses(es) \in SUBSET (1..Len(es)) /\ Ahead(es, i) \in SUBSET Responses(es)
  BY <1>1 DEF Responses, Ahead
<1>3. IsFiniteSet(1..Len(es))
  BY <1>1, FS_Interval
<1>4. IsFiniteSet(Responses(es))
  BY <1>2, <1>3, FS_Subset
<1>5. IsFiniteSet(Ahead(es, i)) /\ Cardinality(Ahead(es, i)) <= Cardinality(Responses(es))
  BY <1>2, <1>4, FS_Subset
<1>6. Responses(es) \subseteq Nat
  BY <1>1, <1>2
<1> QED BY <1>1, <1>2, <1>4, <1>5, <1>6, FS_CardinalityType

-----------------------------------------------------------------------------
(* The inductive invariant.                                                *)

\* The requests of the motor panel, and what Updater notes of a request.
OfPanel(r) == r.command.kind # "other"
EntryOf(r, c) == [id |-> r, consumer |-> c.kind # "other"]
Entry(r) == EntryOf(r.id, r.command)

\* The worker has a request in its hands just while it sends it and waits.
Busy == workerPc \in {"send", "await"}
WorkerInv == current = Nothing <=> ~Busy

\* Only a panel with a selected motor has requests.
SelectedInv == mainPc = "loop" => \A p \in pending : p.consumer => selected \in Motors

TypeInv == GuiTypeOK /\ WorkerInv /\ SelectedInv

\* No two requests have the same name, wherever they are, except that the
\* server may have what the worker awaits the answer to.
NamesInv ==
  /\ \A i, j \in DOMAIN queue : queue[i].id = queue[j].id => i = j
  /\ Busy => \A i \in DOMAIN queue : queue[i].id # current.id
  /\ \A s \in AtServer :
       /\ \A i \in DOMAIN queue : queue[i].id # s.request.id
       /\ ~s.open /\ Busy => s.request.id # current.id
  /\ \A s, t \in inbound : s.request.id = t.request.id => s = t
  /\ serving # Nothing => \A s \in inbound : s.request.id # serving.request.id

\* What is on the socket that is open is one thing, and of the request that the
\* worker awaits the answer to.
SocketInv ==
  /\ \A s \in outgoing : workerPc = "await" /\ s.open /\ s.request = current
  /\ \A s \in AtServer : s.open => workerPc = "await" /\ s.request = current /\ outgoing = {}
  /\ \A a \in answers : /\ workerPc = "await" /\ a.to = current /\ outgoing = {}
                        /\ \A s \in AtServer : ~s.open
  /\ \A a, b \in answers : a = b

\* Updater knows each request whose result is not handled yet, under one name.
\* A result that is not handled yet is the only one of its name, and the server
\* has nothing of that name left unless the result is "failed".
UpdaterInv ==
  mainPc = "loop" =>
  /\ \A p, q \in pending : p.id = q.id => p = q
  /\ \A i \in DOMAIN queue : Entry(queue[i]) \in pending
  /\ Busy => Entry(current) \in pending
  /\ \A i \in Responses(events) :
       /\ events[i].id \in PendingIds
       /\ \A j \in DOMAIN queue : queue[j].id # events[i].id
       /\ Busy => current.id # events[i].id
       /\ events[i].result # "failed" => events[i].id \notin IdsOf(AtServer)
       /\ \A j \in Responses(events) : events[i].id = events[j].id => i = j

-----------------------------------------------------------------------------
(* Types.                                                                  *)

\* Nothing is no request.
LEMMA NoRequest ==
    /\ Nothing \notin Requests /\ Nothing \notin Sent
    /\ \A r \in Requests : r.id \in Ids /\ r.command \in Commands
<1>1. 0 \notin Ids
  BY LinkAssumption
<1>2. \A r \in Requests : r.id \in Ids /\ r.command \in Commands
  BY DEF Requests
<1>3. Nothing \notin Requests
  BY <1>1, <1>2 DEF Nothing
<1>4. Nothing \notin Sent
  <2>1. \A s \in Sent : DOMAIN s = {"request", "open"}
    BY DEF Sent
  <2>2. DOMAIN Nothing = {"id"}
    BY DEF Nothing
  <2> QED BY <2>1, <2>2
<1> QED BY <1>2, <1>3, <1>4

\* What the commands are, and that a motor's name is kept.
LEMMA CommandFacts ==
    /\ \A kind \in {"diagnostics", "change"}, m \in Motors :
         /\ MotorCommand(kind, m) \in Commands
         /\ MotorCommand(kind, m).kind = kind /\ MotorCommand(kind, m).motor = m
    /\ \A m \in Motors : Diagnostics(m) \in Commands
    /\ \A m : Diagnostics(m).kind = "diagnostics" /\ Diagnostics(m).motor = m
    /\ [kind |-> "other"] \in Commands
    /\ \A c \in Commands : /\ c.kind \in {"diagnostics", "change", "other"}
                           /\ c.kind # "other" => c.motor \in Motors
BY DEF Commands, MotorCommand, Diagnostics

\* Updater notes the name of a request, and whether it is the panel's.
LEMMA EntryFacts ==
    \A r \in Ids, c \in Commands :
        /\ EntryOf(r, c).id = r
        /\ EntryOf(r, c).consumer <=> c.kind # "other"
        /\ EntryOf(r, c) \in [id : Ids, consumer : BOOLEAN]
<1> SUFFICES ASSUME NEW r \in Ids, NEW c \in Commands
             PROVE  /\ EntryOf(r, c).id = r
                    /\ EntryOf(r, c).consumer <=> c.kind # "other"
                    /\ EntryOf(r, c) \in [id : Ids, consumer : BOOLEAN]
  OBVIOUS
<1> DEFINE b == c.kind # "other"
<1>1. b \in BOOLEAN /\ EntryOf(r, c) = [id |-> r, consumer |-> b]
  BY DEF EntryOf
<1> HIDE DEF b
<1>2. EntryOf(r, c).id = r /\ EntryOf(r, c).consumer = b
      /\ EntryOf(r, c) \in [id : Ids, consumer : BOOLEAN]
  BY <1>1
<1> QED BY <1>2 DEF b

\* What sendCommand does with the commands cs, to which it gives the names ids.
Batch(cs, from, ids) ==
    /\ \A i, j \in 1..Len(cs) : ids[i] = ids[j] => i = j
    /\ from \subseteq pending'
    /\ \A p \in pending' : p \in from \/ \E i \in 1..Len(cs) : p = EntryOf(ids[i], cs[i])
    /\ \A i \in 1..Len(cs) : EntryOf(ids[i], cs[i]) \in pending'
    /\ queue' \in Seq(Requests) /\ Len(queue') = Len(queue) + Len(cs)
    /\ \A i \in 1..Len(queue) : queue'[i] = queue[i]
    /\ \A i \in 1..Len(cs) : queue'[Len(queue) + i] = [id |-> ids[i], command |-> cs[i]]

\* The commands get names of their own, all unused.
LEMMA SendFacts ==
    ASSUME queue \in Seq(Requests), NEW cs \in Seq(Commands), NEW from \in SUBSET pending,
           NEW free \in SUBSET Ids, SendCommands(cs, from, free)
    PROVE  \E ids \in [1..Len(cs) -> free] : Batch(cs, from, ids)
<1> DEFINE n == Len(cs)
           Left(f, i) == free \ {f[j] : j \in 1..(i - 1)}
<1>1. n \in Nat /\ DOMAIN cs = 1..n /\ \A i \in 1..n : cs[i] \in Commands
  BY LenProperties, ElementOfSeq
<1>2. PICK ids \in [1..n -> Ids] :
        /\ \A i \in 1..n : Left(ids, i) # {} /\ ids[i] = CHOOSE r \in Left(ids, i) : TRUE
        /\ pending' = from \cup {[id |-> ids[i], consumer |-> cs[i].kind # "other"] : i \in 1..n}
        /\ queue' = queue \o [i \in 1..n |-> [id |-> ids[i], command |-> cs[i]]]
  BY <1>1 DEF SendCommands
<1>3. \A i \in 1..n : ids[i] \in Left(ids, i)
  <2> SUFFICES ASSUME NEW i \in 1..n PROVE ids[i] \in Left(ids, i)
    OBVIOUS
  <2> DEFINE T == Left(ids, i)
  <2>1. T # {} /\ ids[i] = CHOOSE r \in T : TRUE
    BY <1>2
  <2> HIDE DEF T
  <2>2. ids[i] \in T
    BY <2>1
  <2> QED BY <2>2 DEF T
<1>4. ids \in [1..n -> free]
  BY <1>2, <1>3
<1>5. \A i, j \in 1..n : ids[i] = ids[j] => i = j
  <2>1. \A i, j \in 1..n : j < i => ids[i] # ids[j]
    <3> SUFFICES ASSUME NEW i \in 1..n, NEW j \in 1..n, j < i PROVE ids[i] # ids[j]
      OBVIOUS
    <3>1. j \in 1..(i - 1)
      BY <1>1
    <3> QED BY <1>3, <3>1
  <2> SUFFICES ASSUME NEW i \in 1..n, NEW j \in 1..n, ids[i] = ids[j] PROVE i = j
    OBVIOUS
  <2>2. ~(j < i) /\ ~(i < j)
    BY <2>1
  <2>3. i \in Nat /\ j \in Nat
    BY <1>1
  <2> QED BY <2>2, <2>3
<1> DEFINE new == [i \in 1..n |-> [id |-> ids[i], command |-> cs[i]]]
<1>6. \A i \in 1..n : [id |-> ids[i], command |-> cs[i]] \in Requests
  BY <1>1, <1>2 DEF Requests
<1>7. new \in Seq(Requests) /\ Len(new) = n
  <2>1. new \in [1..n -> Requests]
    BY <1>6
  <2>2. new \in Seq(Requests)
    BY <1>1, <2>1, SeqDef
  <2>3. DOMAIN new = 1..n /\ DOMAIN new = 1..Len(new) /\ Len(new) \in Nat
    BY <2>2, LenProperties
  <2> HIDE DEF new
  <2> QED BY <1>1, <2>2, <2>3
<1>8. \A i \in 1..n : new[i] = [id |-> ids[i], command |-> cs[i]]
  OBVIOUS
<1>9. queue' = queue \o new
  BY <1>2
<1> HIDE DEF new
<1>10. /\ queue' \in Seq(Requests) /\ Len(queue') = Len(queue) + n
       /\ \A i \in 1..Len(queue) : queue'[i] = queue[i]
       /\ \A i \in 1..n : queue'[Len(queue) + i] = new[i]
  <2>0. /\ queue \in Seq(Requests) /\ new \in Seq(Requests) /\ Len(new) = n
        /\ Len(queue) \in Nat
    BY <1>7, LenProperties
  <2>1. /\ Len(queue) \in Nat
        /\ queue' \in Seq(Requests) /\ Len(queue') = Len(queue) + n
        /\ \A i \in 1..(Len(queue) + n) :
             queue'[i] = IF i <= Len(queue) THEN queue[i] ELSE new[i - Len(queue)]
    <3> HIDE DEF n
    <3> QED BY <1>9, <2>0, ConcatProperties
  <2>2. \A i \in 1..Len(queue) : i \in 1..(Len(queue) + n) /\ i <= Len(queue)
    BY <1>1, <2>1
  <2>3. \A i \in 1..n : /\ Len(queue) + i \in 1..(Len(queue) + n)
                        /\ ~(Len(queue) + i <= Len(queue))
                        /\ (Len(queue) + i) - Len(queue) = i
    BY <1>1, <2>1
  <2> QED BY <2>1, <2>2, <2>3
<1>11. /\ \A i \in 1..n : EntryOf(ids[i], cs[i]) \in pending'
       /\ \A p \in pending' : p \in from \/ \E i \in 1..n : p = EntryOf(ids[i], cs[i])
       /\ from \subseteq pending'
  <2>1. pending' = from \cup {EntryOf(ids[i], cs[i]) : i \in 1..n}
    BY <1>2 DEF EntryOf
  <2> QED BY <2>1
<1>12. Batch(cs, from, ids)
  BY <1>5, <1>8, <1>10, <1>11 DEF Batch
<1> QED BY <1>4, <1>12

\* The type invariant by who uses the variables.
MainTypes ==
  /\ mainPc \in {"loop", "joining", "done"}
  /\ pending \subseteq [id : Ids, consumer : BOOLEAN]
  /\ events \in Seq(Events)
  /\ connected \in BOOLEAN
  /\ running = (mainPc = "loop")

WorkTypes ==
  /\ queue \in Seq(Requests)
  /\ workerPc \in {"init", "test", "take", "send", "await", "status", "ended"}
  /\ round \in {"before", "after", "final"}
  /\ current \in Requests \cup {Nothing}

SocketTypes ==
  /\ outgoing \subseteq Sent /\ inbound \subseteq Sent
  /\ serving \in Sent \cup {Nothing}
  /\ answers \subseteq AnswerSet
  /\ up \in BOOLEAN /\ statusWaiting \in BOOLEAN

WidgetTypes ==
  /\ controls \in {AsBuilt, ViewModel(TRUE), ViewModel(FALSE)}
  /\ panelOpen \in BOOLEAN
  /\ selected \in Motors \cup {"none"}
  /\ slot \in {"none", "diagnostics", "change"}
  /\ shown \in Motors \cup {"-", "error"}
  /\ changed \in BOOLEAN /\ failed \in BOOLEAN

\* The parts make up the type invariant.
LEMMA TypeParts ==
    /\ GuiTypeOK <=> MainTypes /\ WorkTypes /\ SocketTypes /\ WidgetTypes
    /\ GuiTypeOK' <=> MainTypes' /\ WorkTypes' /\ SocketTypes' /\ WidgetTypes'
BY Zenon DEF GuiTypeOK, MainTypes, WorkTypes, SocketTypes, WidgetTypes

\* The types hold at the start.
LEMMA InitTypes == PanelInit => TypeInv
<1> SUFFICES ASSUME PanelInit PROVE TypeInv
  OBVIOUS
<1>1. MainTypes
  <2>1. <<>> \in Seq(Events)
    BY EmptySeq
  <2>2. mainPc = "loop" /\ pending = {} /\ events = <<>> /\ connected = FALSE /\ running = TRUE
    BY DEF PanelInit, Init
  <2> QED BY <2>1, <2>2 DEF MainTypes
<1>2. WorkTypes
  <2>1. <<>> \in Seq(Requests)
    BY EmptySeq
  <2>2. queue = <<>> /\ workerPc = "init" /\ round = "before" /\ current = Nothing
    BY DEF PanelInit, Init
  <2> QED BY <2>1, <2>2 DEF WorkTypes
<1>3. SocketTypes
  BY DEF PanelInit, Init, SocketTypes
<1>4. WidgetTypes
  BY DEF PanelInit, WidgetTypes
<1>5. WorkerInv /\ SelectedInv
  BY DEF PanelInit, Init, WorkerInv, SelectedInv, Busy
<1> QED BY <1>1, <1>2, <1>3, <1>4, <1>5, TypeParts DEF TypeInv

\* What the events are.
LEMMA EventFacts ==
    /\ \A t \in {"status", "lost"} : Notice(t) \in Events /\ Notice(t).type = t
    /\ \A r \in Requests, result \in {"ok", "error", "failed"}, payload \in Motors \cup {"none"} :
         LET e == Response(r, result, payload)
         IN  /\ e \in Events /\ e.type = "response" /\ e.id = r.id
             /\ e.result = result /\ e.payload = payload
    /\ \A e \in Events : e.type = "response" =>
         /\ e.id \in Ids /\ e.result \in {"ok", "error", "failed"}
         /\ e.payload \in Motors \cup {"none"}
    /\ \A c \in Commands : Payload(c) \in Motors \cup {"none"}
<1>1. \A t \in {"status", "lost"} : Notice(t) \in Events /\ Notice(t).type = t
  BY DEF Notice, Events
<1>2. ASSUME NEW r \in Requests, NEW result \in {"ok", "error", "failed"},
             NEW payload \in Motors \cup {"none"}
      PROVE  LET e == Response(r, result, payload)
             IN  /\ e \in Events /\ e.type = "response" /\ e.id = r.id
                 /\ e.result = result /\ e.payload = payload
  <2> DEFINE x == r.id
  <2>1. x \in Ids
    BY NoRequest
  <2>2. Response(r, result, payload)
        = [type |-> "response", id |-> x, result |-> result, payload |-> payload]
    BY DEF Response
  <2> HIDE DEF x
  <2>3. [type |-> "response", id |-> x, result |-> result, payload |-> payload] \in Events
    BY <2>1 DEF Events
  <2> QED BY <2>2, <2>3 DEF x
<1>3. \A e \in Events : e.type = "response" =>
         /\ e.id \in Ids /\ e.result \in {"ok", "error", "failed"}
         /\ e.payload \in Motors \cup {"none"}
  BY DEF Events
<1>4. \A c \in Commands : Payload(c) \in Motors \cup {"none"}
  BY CommandFacts DEF Payload
<1> QED BY <1>1, <1>2, <1>3, <1>4

\* The batches of commands that the widgets emit.
LEMMA Batches ==
    /\ <<>> \in Seq(Commands) /\ Len(<<>>) = 0
    /\ \A c \in Commands : <<c>> \in Seq(Commands) /\ Len(<<c>>) = 1 /\ <<c>>[1] = c
    /\ \A m \in Motors, times \in 1..2 :
         LET cs == [i \in 1..times |-> Diagnostics(m)]
         IN  /\ cs \in Seq(Commands) /\ Len(cs) = times /\ times \in Nat
             /\ \A i \in 1..times : cs[i] = Diagnostics(m)
<1>1. <<>> \in Seq(Commands) /\ Len(<<>>) = 0
  BY EmptySeq
<1>2. \A c \in Commands : <<c>> \in Seq(Commands) /\ Len(<<c>>) = 1 /\ <<c>>[1] = c
  OBVIOUS
<1>3. ASSUME NEW m \in Motors, NEW times \in 1..2
      PROVE  LET cs == [i \in 1..times |-> Diagnostics(m)]
             IN  /\ cs \in Seq(Commands) /\ Len(cs) = times /\ times \in Nat
                 /\ \A i \in 1..times : cs[i] = Diagnostics(m)
  <2> DEFINE cs == [i \in 1..times |-> Diagnostics(m)]
  <2>1. times \in Nat /\ Diagnostics(m) \in Commands
    BY CommandFacts
  <2>2. cs \in [1..times -> Commands] /\ DOMAIN cs = 1..times
    BY <2>1
  <2>3. cs \in Seq(Commands)
    BY <2>1, <2>2, SeqDef
  <2>4. Len(cs) = times
    <3>1. DOMAIN cs = 1..Len(cs) /\ Len(cs) \in Nat
      BY <2>3, LenProperties
    <3> HIDE DEF cs
    <3> QED BY <2>1, <2>2, <3>1
  <2> QED BY <2>1, <2>3, <2>4
<1> QED BY <1>1, <1>2, <1>3

\* A batch of commands keeps the types of what Updater and the queue hold.
LEMMA SendTypes ==
    ASSUME WorkTypes, MainTypes, NEW cs \in Seq(Commands), NEW from \in SUBSET pending,
           NEW free \in SUBSET Ids, SendCommands(cs, from, free)
    PROVE  /\ queue' \in Seq(Requests) /\ pending' \subseteq [id : Ids, consumer : BOOLEAN]
           /\ \A p \in pending' :
                p \in pending \/ (p.consumer => \E i \in 1..Len(cs) : cs[i].kind # "other")
<1>1. PICK ids \in [1..Len(cs) -> free] : Batch(cs, from, ids)
  BY SendFacts DEF WorkTypes
<1>2. \A i \in 1..Len(cs) : ids[i] \in Ids /\ cs[i] \in Commands
  BY ElementOfSeq
<1>3. ASSUME NEW p \in pending'
      PROVE  /\ p \in [id : Ids, consumer : BOOLEAN]
             /\ p \in pending \/ (p.consumer => \E i \in 1..Len(cs) : cs[i].kind # "other")
  <2>1. CASE p \in from
    BY <2>1 DEF MainTypes
  <2>2. ASSUME NEW i \in 1..Len(cs), p = EntryOf(ids[i], cs[i])
        PROVE  /\ p \in [id : Ids, consumer : BOOLEAN]
               /\ p.consumer => cs[i].kind # "other"
    BY <1>2, <2>2, EntryFacts
  <2> QED BY <1>1, <2>1, <2>2 DEF Batch
<1> QED BY <1>1, <1>3 DEF Batch

\* A step of the main thread that emits the commands cs keeps the types.
LEMMA MainSendTypes ==
    ASSUME TypeInv, mainPc = "loop", UNCHANGED <<mainPc, running>>,
           connected' \in BOOLEAN, events' \in Seq(Events),
           UNCHANGED <<workerVars, outgoing, serverVars, answers, statusWaiting>>,
           NEW cs \in Seq(Commands), NEW from \in SUBSET pending, NEW free \in SUBSET Ids,
           SendCommands(cs, from, free), WidgetTypes',
           selected \in Motors => selected' \in Motors,
           \A i \in 1..Len(cs) : cs[i].kind # "other" => selected' \in Motors
    PROVE  TypeInv'
<1>0. MainTypes /\ WorkTypes /\ SocketTypes
  BY TypeParts DEF TypeInv
<1>1. /\ queue' \in Seq(Requests) /\ pending' \subseteq [id : Ids, consumer : BOOLEAN]
      /\ \A p \in pending' :
           p \in pending \/ (p.consumer => \E i \in 1..Len(cs) : cs[i].kind # "other")
  BY <1>0, SendTypes
<1>2. MainTypes'
  BY <1>0, <1>1 DEF MainTypes
<1>3. WorkTypes' /\ WorkerInv'
  BY <1>0, <1>1 DEF WorkTypes, workerVars, WorkerInv, Busy, TypeInv
<1>4. SocketTypes'
  BY <1>0 DEF SocketTypes, serverVars
<1>5. SelectedInv'
  BY <1>1 DEF TypeInv, SelectedInv
<1>6. GuiTypeOK'
  BY <1>2, <1>3, <1>4, TypeParts
<1> QED BY <1>3, <1>5, <1>6 DEF TypeInv

\* The operator's steps keep the types.
LEMMA OperatorTypes == TypeInv /\ Operator => TypeInv'
<1> SUFFICES ASSUME TypeInv, Operator PROVE TypeInv'
  OBVIOUS
<1>0. MainTypes /\ WorkTypes /\ SocketTypes /\ WidgetTypes /\ FreeIds \in SUBSET Ids
  BY TypeParts DEF TypeInv, FreeIds
<1>1. CASE OpenPanel
  <2>1. /\ UNCHANGED linkVars /\ panelOpen' = TRUE
        /\ UNCHANGED <<controls, selected, slot, shown, changed, failed>>
    BY <1>1 DEF OpenPanel
  <2>2. MainTypes' /\ WorkTypes' /\ WorkerInv' /\ SelectedInv' /\ SocketTypes'
    BY <1>0, <2>1 DEF linkVars, guiVars, workerVars, serverVars, MainTypes, WorkTypes, SocketTypes,
                      TypeInv, WorkerInv, SelectedInv, Busy
  <2>3. WidgetTypes'
    BY <1>0, <2>1 DEF WidgetTypes
  <2> QED BY <2>2, <2>3, TypeParts DEF TypeInv
<1>2. ASSUME NEW cs \in Seq(Commands), Len(cs) # 0, cs[Len(cs)].kind \in {"diagnostics", "change"},
             selected' \in Motors, Request(cs)
      PROVE  TypeInv'
  <2>1. /\ mainPc = "loop" /\ SendCommands(cs, pending, FreeIds)
        /\ UNCHANGED <<mainPc, events, connected, running>>
        /\ UNCHANGED <<workerVars, outgoing, serverVars, answers, statusWaiting>>
        /\ slot' = cs[Len(cs)].kind /\ UNCHANGED <<controls, panelOpen, shown, changed>>
        /\ failed' \in BOOLEAN
    BY <1>2 DEF Request, Operate
  <2>2. WidgetTypes'
    BY <1>0, <1>2, <2>1 DEF WidgetTypes
  <2>3. connected' \in BOOLEAN /\ events' \in Seq(Events)
    BY <1>0, <2>1 DEF MainTypes
  <2>4. pending \in SUBSET pending /\ UNCHANGED <<mainPc, running>>
    BY <2>1
  <2> QED BY <1>0, <1>2, <2>1, <2>2, <2>3, <2>4, MainSendTypes
<1>3. ASSUME NEW kind \in {"diagnostics", "change"}, PressButton(kind) PROVE TypeInv'
  <2> DEFINE cs == <<MotorCommand(kind, selected)>>
  <2>1. selected \in Motors /\ selected' = selected /\ Request(cs)
    BY <1>0, <1>3 DEF PressButton, WidgetTypes
  <2>2. /\ cs \in Seq(Commands) /\ Len(cs) = 1 /\ cs[1] = MotorCommand(kind, selected)
        /\ cs[1].kind = kind
    BY <2>1, CommandFacts, Batches
  <2> HIDE DEF cs
  <2> QED BY <1>2, <2>1, <2>2
<1>4. ASSUME NEW m \in Motors, NEW times \in 1..2, ChooseMotor(m, times) PROVE TypeInv'
  <2> DEFINE cs == [i \in 1..times |-> Diagnostics(m)]
  <2>1. cs \in Seq(Commands) /\ Len(cs) = times /\ times \in Nat /\ \A i \in 1..times : cs[i] = Diagnostics(m)
    BY Batches
  <2>2. selected' = m /\ Request(cs)
    BY <1>4 DEF ChooseMotor
  <2>3. Diagnostics(m).kind = "diagnostics"
    BY CommandFacts
  <2> HIDE DEF cs
  <2>4. times \in 1..times
    OBVIOUS
  <2> QED BY <1>2, <2>1, <2>2, <2>3, <2>4
<1>5. CASE OtherCommand
  <2> DEFINE cs == <<[kind |-> "other"]>>
  <2>1. cs \in Seq(Commands) /\ Len(cs) = 1 /\ cs[1].kind = "other"
    BY CommandFacts, Batches
  <2>2. /\ mainPc = "loop" /\ SendCommands(cs, pending, FreeIds)
        /\ UNCHANGED <<mainPc, events, connected, running>>
        /\ UNCHANGED <<workerVars, outgoing, serverVars, answers, statusWaiting>>
        /\ UNCHANGED <<controls, panelOpen, selected, slot, shown, changed, failed>>
    BY <1>5 DEF OtherCommand, Operate, widgets, panelVars
  <2> HIDE DEF cs
  <2>3. WidgetTypes'
    BY <1>0, <2>2 DEF WidgetTypes
  <2>4. connected' \in BOOLEAN /\ events' \in Seq(Events)
    BY <1>0, <2>2 DEF MainTypes
  <2>5. \A i \in 1..Len(cs) : cs[i].kind = "other"
    BY <2>1
  <2>6. pending \in SUBSET pending /\ UNCHANGED <<mainPc, running>>
    BY <2>2
  <2> QED BY <1>0, <2>1, <2>2, <2>3, <2>4, <2>5, <2>6, MainSendTypes
<1>6. CASE CloseWindow
  <2>1. /\ mainPc' = "joining" /\ running' = FALSE /\ events' = <<>> /\ connected' = FALSE
        /\ UNCHANGED <<pending, queue, workerVars, outgoing, serverVars, answers, statusWaiting>>
        /\ controls' = AsBuilt /\ panelOpen' = FALSE /\ selected' = "none" /\ slot' = "none"
        /\ shown' = "-" /\ changed' = FALSE /\ failed' = FALSE
    BY <1>6 DEF CloseWindow, Stop
  <2>2. MainTypes'
    BY <1>0, <2>1, EmptySeq DEF MainTypes
  <2>3. WorkTypes' /\ WorkerInv' /\ SelectedInv'
    BY <1>0, <2>1 DEF WorkTypes, workerVars, WorkerInv, SelectedInv, Busy, TypeInv
  <2>4. SocketTypes' /\ WidgetTypes'
    BY <1>0, <2>1 DEF SocketTypes, WidgetTypes, serverVars
  <2> QED BY <2>2, <2>3, <2>4, TypeParts DEF TypeInv
<1> QED
  BY <1>1, <1>3, <1>4, <1>5, <1>6
  DEF Operator, PressResetControl, AnswerToolChanger, RefreshContec

\* An event of the main thread's queue is an event, and so is what is behind it.
LEMMA HeadEvent ==
    ASSUME MainTypes, events # <<>>
    PROVE  Head(events) \in Events /\ Tail(events) \in Seq(Events)
BY HeadTailProperties DEF MainTypes

\* A result is handled, and its consumer, if any, emits cs.
LEMMA ResponseTypes ==
    ASSUME TypeInv, NEW p \in pending, NEW cs \in Seq(Commands), HandleResponse(p, cs),
           WidgetTypes', selected' = selected,
           \A i \in 1..Len(cs) : cs[i].kind # "other" => selected \in Motors
    PROVE  TypeInv'
<1>1. MainTypes /\ p.id \in Ids /\ FreeIds \in SUBSET Ids
  BY TypeParts DEF TypeInv, MainTypes, FreeIds
<1>2. /\ mainPc = "loop" /\ events # <<>> /\ events' = Tail(events)
      /\ SendCommands(cs, pending \ {p}, FreeIds \cup {p.id})
      /\ UNCHANGED <<mainPc, running>> /\ connected' = connected
      /\ UNCHANGED <<workerVars, outgoing, serverVars, answers, statusWaiting>>
  BY DEF HandleResponse
<1>3. pending \ {p} \in SUBSET pending /\ FreeIds \cup {p.id} \in SUBSET Ids
  BY <1>1
<1>4. connected' \in BOOLEAN /\ events' \in Seq(Events)
  BY <1>1, <1>2, HeadEvent DEF MainTypes
<1> QED BY <1>2, <1>3, <1>4, MainSendTypes

\* The responses keep the types.
LEMMA ShowResponseTypes == TypeInv /\ ShowResponse => TypeInv'
<1> SUFFICES ASSUME TypeInv, ShowResponse PROVE TypeInv'
  OBVIOUS
<1> DEFINE e == Head(events)
<1>0. MainTypes /\ WidgetTypes /\ SelectedInv
  BY TypeParts DEF TypeInv
<1>1. e \in Events /\ e.type = "response"
  BY <1>0, HeadEvent DEF ShowResponse
<1>2. e.result \in {"ok", "error", "failed"} /\ e.payload \in Motors \cup {"none"}
  BY <1>1, EventFacts
<1> HIDE DEF e
<1>3. PICK p \in pending :
        /\ p.id = e.id
        /\ IF p.consumer /\ e.result # "failed" THEN MotorResponse(e) ELSE NoConsumer(p)
  BY DEF ShowResponse, e
<1>4. p \in [id : Ids, consumer : BOOLEAN]
  BY <1>0 DEF MainTypes
<1>5. <<>> \in Seq(Commands) /\ \A i \in 1..Len(<<>>) : FALSE
  BY Batches
<1>6. CASE NoConsumer(p)
  <2>1. /\ HandleResponse(p, <<>>) /\ failed' = (failed \/ p.consumer)
        /\ UNCHANGED <<controls, panelOpen, selected, slot, shown, changed>>
    BY <1>6 DEF NoConsumer
  <2>2. WidgetTypes'
    <3>1. failed' \in BOOLEAN
      BY <2>1
    <3> QED BY <1>0, <2>1, <3>1 DEF WidgetTypes
  <2>3. \A i \in 1..Len(<<>>) : <<>>[i].kind # "other" => selected \in Motors
    BY <1>5
  <2> QED BY <1>5, <2>1, <2>2, <2>3, ResponseTypes
<1>7. CASE p.consumer /\ MotorResponse(e)
  <2>1. p = [id |-> e.id, consumer |-> TRUE]
    BY <1>3, <1>4, <1>7
  <2>2. selected \in Motors
    <3>1. mainPc = "loop"
      BY <1>7 DEF MotorResponse, Show, HandleResponse
    <3> QED BY <1>0, <1>7, <3>1 DEF SelectedInv
  <2>3. CASE Show(e)
    <3>1. /\ HandleResponse(p, <<>>) /\ slot' = "none" /\ shown' = Displayed(e)
          /\ failed' = (failed \/ e.result = "error")
          /\ UNCHANGED <<controls, panelOpen, selected, changed>>
      BY <2>1, <2>3 DEF Show
    <3>2. WidgetTypes'
      <4>1. failed' \in BOOLEAN
        BY <3>1
      <4>2. shown' \in Motors \cup {"-", "error"}
        BY <1>2, <3>1 DEF Displayed
      <4> QED BY <1>0, <3>1, <4>1, <4>2 DEF WidgetTypes
    <3>3. \A i \in 1..Len(<<>>) : <<>>[i].kind # "other" => selected \in Motors
      BY <2>2
    <3> QED BY <1>5, <3>1, <3>2, <3>3, ResponseTypes
  <2>4. CASE ~Show(e)
    <3> DEFINE cs == <<Diagnostics(selected)>>
    <3>1. /\ HandleResponse(p, cs) /\ slot' = "diagnostics"
          /\ UNCHANGED <<controls, panelOpen, selected, shown, changed, failed>>
      BY <1>7, <2>1, <2>4 DEF MotorResponse
    <3>2. cs \in Seq(Commands)
      BY <2>2, CommandFacts, Batches
    <3> HIDE DEF cs
    <3>3. WidgetTypes'
      BY <1>0, <3>1 DEF WidgetTypes
    <3>4. selected' = selected /\ \A i \in 1..Len(cs) : cs[i].kind # "other" => selected \in Motors
      BY <2>2, <3>1
    <3> QED BY <3>1, <3>2, <3>3, <3>4, ResponseTypes
  <2> QED BY <2>3, <2>4
<1> QED BY <1>3, <1>6, <1>7

\* The events of the link keep the types.
LEMMA HandleEventTypes == TypeInv /\ HandleEvent => TypeInv'
<1> SUFFICES ASSUME TypeInv, HandleEvent PROVE TypeInv'
  OBVIOUS
<1>0. MainTypes /\ WorkTypes /\ SocketTypes /\ WidgetTypes /\ FreeIds \in SUBSET Ids
  BY TypeParts DEF TypeInv, FreeIds
<1>1. ASSUME NEW cs \in Seq(Commands), HandleStatus(cs), WidgetTypes',
             selected \in Motors => selected' \in Motors,
             \A i \in 1..Len(cs) : cs[i].kind # "other" => selected' \in Motors
      PROVE  TypeInv'
  <2>1. /\ mainPc = "loop" /\ events # <<>> /\ events' = Tail(events)
        /\ SendCommands(cs, pending, FreeIds) /\ connected' = TRUE
        /\ UNCHANGED <<mainPc, running>>
        /\ UNCHANGED <<workerVars, outgoing, serverVars, answers, statusWaiting>>
    BY <1>1 DEF HandleStatus
  <2>2. events' \in Seq(Events) /\ pending \in SUBSET pending /\ connected' \in BOOLEAN
    BY <1>0, <2>1, HeadEvent
  <2> QED BY <1>0, <1>1, <2>1, <2>2, MainSendTypes
<1>2. CASE ShowStatus
  <2>1. controls' = ViewModel(TRUE)
    BY <1>2 DEF ShowStatus, ControlsShowStatus
  <2>2. CASE panelOpen /\ selected = "none" /\ Motors # {}
    <3> DEFINE cs == <<Diagnostics(FirstMotor)>>
    <3>1. /\ HandleStatus(cs) /\ selected' = FirstMotor /\ slot' = "diagnostics"
          /\ failed' = (failed /\ ~Idle) /\ UNCHANGED <<panelOpen, shown, changed>>
      BY <1>2, <2>2 DEF ShowStatus
    <3>2. FirstMotor \in Motors
      BY <2>2 DEF FirstMotor
    <3>3. cs \in Seq(Commands)
      BY <3>2, CommandFacts, Batches
    <3> HIDE DEF cs
    <3>4. WidgetTypes'
      <4>1. failed' \in BOOLEAN
        BY <3>1
      <4> QED BY <1>0, <2>1, <3>1, <3>2, <4>1 DEF WidgetTypes
    <3> QED BY <1>1, <3>1, <3>2, <3>3, <3>4
  <2>3. CASE ~(panelOpen /\ selected = "none" /\ Motors # {})
    <3>1. HandleStatus(<<>>) /\ UNCHANGED <<panelOpen, selected, slot, shown, changed, failed>>
      BY <1>2, <2>3 DEF ShowStatus, panelVars
    <3>2. WidgetTypes'
      BY <1>0, <2>1, <3>1 DEF WidgetTypes
    <3>3. <<>> \in Seq(Commands) /\ \A i \in 1..Len(<<>>) : <<>>[i].kind # "other" => selected' \in Motors
      BY Batches
    <3> QED BY <1>1, <3>1, <3>2, <3>3
  <2> QED BY <2>2, <2>3
<1>3. CASE ShowLoss
  <2>1. /\ events # <<>> /\ events' = Tail(events) /\ connected' = FALSE
        /\ UNCHANGED <<mainPc, pending, running, queue, workerPc, round, current, outgoing,
                       up, inbound, serving, answers, statusWaiting>>
        /\ UNCHANGED <<panelOpen, selected, slot, shown, changed, failed>>
        /\ controls' = IF connected THEN ViewModel(FALSE) ELSE controls
    BY <1>3 DEF ShowLoss, HandleLost, ControlsShowLoss, panelVars, workerVars, serverVars
  <2>2. MainTypes'
    BY <1>0, <2>1, HeadEvent DEF MainTypes
  <2>3. WorkTypes' /\ SocketTypes' /\ WorkerInv' /\ SelectedInv'
    BY <1>0, <2>1 DEF WorkTypes, SocketTypes, WorkerInv, SelectedInv, Busy, TypeInv
  <2>4. WidgetTypes'
    BY <1>0, <2>1 DEF WidgetTypes
  <2> QED BY <2>2, <2>3, <2>4, TypeParts DEF TypeInv
<1> QED BY <1>2, <1>3, ShowResponseTypes DEF HandleEvent

\* Posting an event keeps the type of the events.
LEMMA PostTypes == MainTypes /\ (\E e \in Events : Post(e)) => events' \in Seq(Events)
BY AppendProperties DEF MainTypes, Post

\* The end of sendCommand keeps the types.
LEMMA FinishTypes ==
    ASSUME TypeInv, Busy,
           NEW result \in {"ok", "error", "failed"}, NEW payload \in Motors \cup {"none"},
           Finish(result, payload), SocketTypes', UNCHANGED widgets
    PROVE  TypeInv'
<1>0. MainTypes /\ WorkTypes /\ WidgetTypes
  BY TypeParts DEF TypeInv
<1>1. current \in Requests
  BY DEF TypeInv, WorkerInv, GuiTypeOK
<1>2. /\ Post(Response(current, result, payload)) /\ current' = Nothing /\ workerPc' = "take"
      /\ UNCHANGED <<mainPc, pending, connected, running, queue, round, statusWaiting>>
  BY DEF Finish
<1>3. Response(current, result, payload) \in Events
  BY <1>1, EventFacts
<1>4. events' \in Seq(Events)
  BY <1>0, <1>2, <1>3, PostTypes
<1>5. MainTypes' /\ WorkTypes' /\ WorkerInv'
  BY <1>0, <1>2, <1>4 DEF MainTypes, WorkTypes, WorkerInv, Busy
<1>6. WidgetTypes' /\ SelectedInv'
  BY <1>0, <1>2 DEF TypeInv, WidgetTypes, SelectedInv, widgets, panelVars
<1> QED BY <1>5, <1>6, TypeParts DEF TypeInv

\* The worker's steps keep the types.
LEMMA WorkerTypes == TypeInv /\ Worker /\ UNCHANGED widgets => TypeInv'
<1> SUFFICES ASSUME TypeInv, Worker, UNCHANGED widgets PROVE TypeInv'
  OBVIOUS
<1>0. MainTypes /\ WorkTypes /\ SocketTypes /\ WidgetTypes /\ WorkerInv /\ SelectedInv
  BY TypeParts DEF TypeInv
<1>w. WidgetTypes'
  BY <1>0 DEF WidgetTypes, widgets, panelVars
<1>1. ASSUME UNCHANGED <<mainPc, pending, connected, running>>, events' \in Seq(Events),
             WorkTypes', WorkerInv', SocketTypes'
      PROVE  TypeInv'
  <2>1. MainTypes' /\ SelectedInv'
    BY <1>0, <1>1 DEF MainTypes, SelectedInv, widgets, panelVars
  <2> QED BY <1>w, <1>1, <2>1, TypeParts DEF TypeInv
<1>2. CASE WorkerInit \/ TestRunning \/ NoCommand
  <2>1. /\ UNCHANGED <<mainPc, pending, connected, running>> /\ events' \in Seq(Events)
        /\ SocketTypes'
    BY <1>0, <1>2 DEF WorkerInit, TestRunning, NoCommand, guiVars, serverVars, MainTypes, SocketTypes
  <2>2. WorkTypes' /\ WorkerInv'
    <3>1. CASE WorkerInit
      BY <1>0, <3>1 DEF WorkerInit, WorkTypes, WorkerInv, Busy
    <3>2. CASE TestRunning
      BY <1>0, <3>2 DEF TestRunning, WorkTypes, WorkerInv, Busy
    <3>3. CASE NoCommand
      BY <1>0, <3>3 DEF NoCommand, WorkTypes, WorkerInv, Busy
    <3> QED BY <1>2, <3>1, <3>2, <3>3
  <2> QED BY <1>1, <2>1, <2>2
<1>3. CASE TakeCommand
  <2>1. /\ UNCHANGED <<mainPc, pending, connected, running>> /\ events' \in Seq(Events)
        /\ SocketTypes'
    BY <1>0, <1>3 DEF TakeCommand, guiVars, serverVars, MainTypes, SocketTypes
  <2>2. Head(queue) \in Requests /\ Tail(queue) \in Seq(Requests)
    BY <1>0, <1>3, HeadTailProperties DEF TakeCommand, WorkTypes
  <2>3. WorkTypes' /\ WorkerInv'
    BY <1>0, <1>3, <2>2, NoRequest DEF TakeCommand, WorkTypes, WorkerInv, Busy
  <2> QED BY <1>1, <2>1, <2>3
<1>4. CASE SendRequest
  <2>1. UNCHANGED <<mainPc, pending, connected, running>> /\ events' \in Seq(Events)
    BY <1>0, <1>4 DEF SendRequest, guiVars, MainTypes
  <2>2. current \in Requests
    BY <1>0, <1>4 DEF SendRequest, WorkTypes, WorkerInv, Busy
  <2>3. [request |-> current, open |-> TRUE] \in Sent
    BY <2>2 DEF Sent
  <2>4. SocketTypes'
    BY <1>0, <1>4, <2>3 DEF SendRequest, serverVars, SocketTypes
  <2>5. WorkTypes' /\ WorkerInv'
    BY <1>0, <1>4 DEF SendRequest, WorkTypes, WorkerInv, Busy
  <2> QED BY <1>1, <2>1, <2>4, <2>5
<1>f. "failed" \in {"ok", "error", "failed"} /\ "none" \in Motors \cup {"none"}
  OBVIOUS
<1>5. CASE SendFails
  <2>1. Busy /\ Finish("failed", "none") /\ SocketTypes'
    BY <1>0, <1>5 DEF SendFails, Finish, Busy, serverVars, SocketTypes
  <2> QED BY <1>f, <2>1, FinishTypes
<1>6. CASE Receive
  <2>1. PICK a \in answers :
          /\ answers' = answers \ {a}
          /\ IF a.status = "garbled" THEN Finish("failed", "none")
             ELSE Finish(a.status, Payload(a.to.command))
    BY <1>6 DEF Receive
  <2>2. a.to \in Requests /\ a.status \in {"ok", "error", "garbled"}
    BY <1>0 DEF SocketTypes, AnswerSet, Outcomes
  <2>3. PICK result \in {"ok", "error", "failed"}, payload \in Motors \cup {"none"} :
          Finish(result, payload)
    <3>1. Payload(a.to.command) \in Motors \cup {"none"}
      BY <2>2, NoRequest, EventFacts
    <3> QED BY <1>f, <2>1, <2>2, <3>1
  <2>4. Busy /\ UNCHANGED <<outgoing, serverVars>>
    BY <1>6 DEF Receive, Busy
  <2>5. SocketTypes'
    BY <1>0, <2>1, <2>3, <2>4 DEF Finish, SocketTypes, serverVars
  <2> QED BY <2>3, <2>4, <2>5, FinishTypes
<1>7. CASE ReceiveTimeout
  <2> DEFINE closed(s) == [s EXCEPT !.open = FALSE]
  <2>1. /\ Finish("failed", "none") /\ Busy /\ outgoing' = {} /\ answers' = {} /\ up' = up
        /\ inbound' = {closed(s) : s \in inbound}
        /\ serving' = IF serving = Nothing THEN serving ELSE closed(serving)
    BY <1>7 DEF ReceiveTimeout, Busy
  <2>2. \A s \in Sent : closed(s) \in Sent
    BY DEF Sent
  <2>3. statusWaiting' = statusWaiting
    BY <2>1 DEF Finish
  <2> HIDE DEF closed
  <2>4. SocketTypes'
    BY <1>0, <2>1, <2>2, <2>3 DEF SocketTypes
  <2> QED BY <1>f, <2>1, <2>4, FinishTypes
<1>8. CASE StatusReceived \/ StatusMissing
  <2>1. PICK t \in {"status", "lost"} : Post(Notice(t))
    BY <1>8 DEF StatusReceived, StatusMissing
  <2>2. events' \in Seq(Events)
    BY <1>0, <2>1, EventFacts, PostTypes
  <2>3. /\ UNCHANGED <<mainPc, pending, connected, running>>
        /\ UNCHANGED <<queue, current, outgoing, up, inbound, serving, answers>>
        /\ statusWaiting' = FALSE
        /\ workerPc = "status" /\ workerPc' \in {"take", "test"} /\ round' \in {round, "after"}
    BY <1>8 DEF StatusReceived, StatusMissing, serverVars
  <2>4. WorkTypes' /\ WorkerInv'
    BY <1>0, <2>3 DEF WorkTypes, WorkerInv, Busy
  <2>5. SocketTypes'
    BY <1>0, <2>3 DEF SocketTypes
  <2> QED BY <1>1, <2>2, <2>3, <2>4, <2>5
<1> QED BY <1>2, <1>3, <1>4, <1>5, <1>6, <1>7, <1>8 DEF Worker

\* The steps of the server and of the transport, and join, keep the types.
LEMMA OtherTypes ==
    /\ TypeInv
    /\ \/ Join /\ UNCHANGED widgets
       \/ ServerSide /\ UNCHANGED widgets
       \/ \E status \in Outcomes : Serve(status)
       \/ UNCHANGED vars
    => TypeInv'
<1> SUFFICES ASSUME TypeInv,
                    \/ Join /\ UNCHANGED widgets
                    \/ ServerSide /\ UNCHANGED widgets
                    \/ \E status \in Outcomes : Serve(status)
                    \/ UNCHANGED vars
             PROVE  TypeInv'
  OBVIOUS
<1>0. MainTypes /\ WorkTypes /\ SocketTypes /\ WidgetTypes /\ WorkerInv /\ SelectedInv
  BY TypeParts DEF TypeInv
<1>1. CASE UNCHANGED vars
  <2>1. /\ UNCHANGED <<mainPc, pending, events, connected, running, queue, workerPc, round, current>>
        /\ UNCHANGED <<outgoing, up, inbound, serving, answers, statusWaiting>>
        /\ UNCHANGED <<controls, panelOpen, selected, slot, shown, changed, failed>>
    BY <1>1 DEF vars, linkVars, guiVars, workerVars, serverVars, widgets, panelVars
  <2>2. MainTypes' /\ SelectedInv'
    BY <1>0, <2>1 DEF MainTypes, SelectedInv
  <2>3. WorkTypes' /\ WorkerInv'
    BY <1>0, <2>1 DEF WorkTypes, WorkerInv, Busy
  <2>4. SocketTypes' /\ WidgetTypes'
    BY <1>0, <2>1 DEF SocketTypes, WidgetTypes
  <2> QED BY <2>2, <2>3, <2>4, TypeParts DEF TypeInv
<1>2. CASE Join /\ UNCHANGED widgets
  <2>1. /\ mainPc = "joining" /\ mainPc' = "done" /\ pending' = {}
        /\ UNCHANGED <<events, connected, running, queue, workerPc, round, current>>
        /\ UNCHANGED <<outgoing, up, inbound, serving, answers, statusWaiting>>
        /\ UNCHANGED <<controls, panelOpen, selected, slot, shown, changed, failed>>
    BY <1>2 DEF Join, workerVars, serverVars, widgets, panelVars
  <2>2. MainTypes' /\ SelectedInv'
    BY <1>0, <2>1 DEF MainTypes, SelectedInv
  <2>3. WorkTypes' /\ WorkerInv'
    BY <1>0, <2>1 DEF WorkTypes, WorkerInv, Busy
  <2>4. SocketTypes' /\ WidgetTypes'
    BY <1>0, <2>1 DEF SocketTypes, WidgetTypes
  <2> QED BY <2>2, <2>3, <2>4, TypeParts DEF TypeInv
<1>3. ASSUME UNCHANGED <<guiVars, running, queue, workerVars>>, SocketTypes', WidgetTypes',
             selected' = selected
      PROVE  TypeInv'
  <2>1. MainTypes' /\ WorkTypes' /\ WorkerInv' /\ SelectedInv'
    BY <1>0, <1>3 DEF guiVars, workerVars, MainTypes, WorkTypes, WorkerInv, SelectedInv, Busy
  <2> QED BY <1>3, <2>1, TypeParts DEF TypeInv
<1>4. CASE ServerSide /\ UNCHANGED widgets
  <2>1. UNCHANGED <<guiVars, running, queue, workerVars>>
    BY <1>4 DEF ServerSide, Deliver, Take, ServerEnds, ServerStarts, Publish
  <2>2. SocketTypes'
    <3>1. CASE Deliver
      BY <1>0, <3>1 DEF Deliver, SocketTypes
    <3>2. CASE Take
      BY <1>0, <3>2 DEF Take, SocketTypes
    <3>3. CASE ServerEnds
      BY <1>0, <3>3 DEF ServerEnds, SocketTypes
    <3>4. CASE ServerStarts \/ Publish
      BY <1>0, <3>4 DEF ServerStarts, Publish, serverVars, SocketTypes
    <3> QED BY <1>4, <3>1, <3>2, <3>3, <3>4 DEF ServerSide
  <2>3. WidgetTypes' /\ selected' = selected
    BY <1>0, <1>4 DEF widgets, panelVars, WidgetTypes
  <2> QED BY <1>3, <2>1, <2>2, <2>3
<1>5. ASSUME NEW status \in Outcomes, Serve(status) PROVE TypeInv'
  <2>1. /\ UNCHANGED <<guiVars, running, queue, workerVars>>
        /\ UNCHANGED <<outgoing, up, inbound, statusWaiting>>
        /\ serving # Nothing /\ serving' = Nothing
        /\ answers' = IF serving.open
                      THEN answers \cup {[to |-> serving.request, status |-> status]}
                      ELSE answers
        /\ UNCHANGED <<controls, panelOpen, selected, slot, shown, failed>>
    BY <1>5 DEF Serve, AnswerRequest
  <2>2. [to |-> serving.request, status |-> status] \in AnswerSet
    BY <1>0, <2>1 DEF SocketTypes, Sent, AnswerSet
  <2>3. SocketTypes'
    BY <1>0, <2>1, <2>2 DEF SocketTypes
  <2>4. changed' = FALSE \/ changed' = TRUE \/ changed' = changed
    BY <1>5 DEF Serve
  <2>5. WidgetTypes'
    BY <1>0, <2>1, <2>4 DEF WidgetTypes
  <2> QED BY <1>3, <2>1, <2>3, <2>5
<1> QED BY <1>1, <1>2, <1>4, <1>5

\* Every step keeps the types.
LEMMA NextTypes == TypeInv /\ [Next]_vars => TypeInv'
BY OperatorTypes, HandleEventTypes, WorkerTypes, OtherTypes DEF Next, Ended

\* Every variable of the link and of the widgets keeps its type, the worker has
\* a request in its hands just while it sends it and waits, and only a panel
\* with a selected motor has requests.
THEOREM GuiTypes == Spec => []GuiTypeOK
<1>1. TypeInv => GuiTypeOK
  BY DEF TypeInv
<1> QED BY <1>1, InitTypes, NextTypes, PTL DEF Spec

-----------------------------------------------------------------------------
(* Names of requests.                                                      *)

LinkInv == NamesInv /\ SocketInv /\ UpdaterInv

\* Without the first event the responses are one place further ahead.
LEMMA TailResponses ==
    ASSUME NEW S, NEW es \in Seq(S), es # <<>>
    PROVE  \A i \in Responses(Tail(es)) :
             i \in Nat /\ i + 1 \in Responses(es) /\ i + 1 # 1 /\ Tail(es)[i] = es[i + 1]
<1>1. Len(es) \in Nat \ {0} /\ DOMAIN es = 1..Len(es)
  BY LenProperties, EmptySeq
<1>2. /\ Tail(es) \in Seq(S) /\ Len(Tail(es)) = Len(es) - 1
      /\ \A i \in 1..Len(Tail(es)) : Tail(es)[i] = es[i + 1]
  BY HeadTailProperties
<1>3. DOMAIN Tail(es) = 1..(Len(es) - 1)
  BY <1>2, LenProperties
<1> SUFFICES ASSUME NEW i \in Responses(Tail(es))
             PROVE  i \in Nat /\ i + 1 \in Responses(es) /\ i + 1 # 1 /\ Tail(es)[i] = es[i + 1]
  OBVIOUS
<1>4. i \in 1..(Len(es) - 1) /\ Tail(es)[i].type = "response"
  BY <1>3 DEF Responses
<1>5. i \in Nat /\ i + 1 \in 1..Len(es) /\ i + 1 # 1
  BY <1>1, <1>4
<1> QED BY <1>1, <1>2, <1>4, <1>5 DEF Responses

\* A new event is the only new response, if it is one.
LEMMA AppendResponses ==
    ASSUME events \in Seq(Events), NEW e \in Events, events' = Append(events, e)
    PROVE  \A i \in Responses(events') :
             \/ i \in Responses(events) /\ events'[i] = events[i]
             \/ i = Len(events) + 1 /\ events'[i] = e /\ e.type = "response"
<1>1. Len(events) \in Nat /\ DOMAIN events = 1..Len(events)
  BY LenProperties
<1>2. /\ events' \in Seq(Events) /\ Len(events') = Len(events) + 1
      /\ \A i \in 1..Len(events) : events'[i] = events[i]
      /\ events'[Len(events) + 1] = e
  BY AppendProperties
<1>3. DOMAIN events' = 1..(Len(events) + 1)
  BY <1>2, LenProperties
<1> SUFFICES ASSUME NEW i \in Responses(events')
             PROVE  \/ i \in Responses(events) /\ events'[i] = events[i]
                    \/ i = Len(events) + 1 /\ events'[i] = e /\ e.type = "response"
  OBVIOUS
<1>4. i \in 1..(Len(events) + 1) /\ events'[i].type = "response"
  BY <1>3 DEF Responses
<1>5. i \in 1..Len(events) \/ i = Len(events) + 1
  BY <1>1, <1>4
<1> QED BY <1>1, <1>2, <1>4, <1>5 DEF Responses

\* What is at the server.
LEMMA ServerFacts ==
    ASSUME SocketTypes
    PROVE  /\ AtServer \subseteq Sent
           /\ \A s \in Sent : s.request \in Requests
           /\ \A s : s \in AtServer <=> s \in inbound \/ (s = serving /\ serving # Nothing)
BY DEF SocketTypes, AtServer, Sent

\* At the start nothing is under way.
LEMMA InitLink == PanelInit => LinkInv
<1> SUFFICES ASSUME PanelInit PROVE LinkInv
  OBVIOUS
<1>1. /\ pending = {} /\ events = <<>> /\ queue = <<>> /\ workerPc = "init"
      /\ outgoing = {} /\ answers = {} /\ inbound = {} /\ serving = Nothing
  BY DEF PanelInit, Init
<1>2. AtServer = {} /\ ~Busy
  BY <1>1 DEF AtServer, Busy
<1>3. DOMAIN queue = {} /\ Responses(events) = {}
  BY <1>1 DEF Responses
<1> QED BY <1>1, <1>2, <1>3 DEF LinkInv, NamesInv, SocketInv, UpdaterInv

\* No name of free is in use while the requests of from are pending.
Fresh(free, from) ==
  \A r \in free : /\ \A p \in from : p.id # r
                  /\ \A s \in outgoing \cup AtServer : s.request.id # r

\* What the main thread does not handle now stays known.
Kept(from) ==
  /\ \A i \in DOMAIN queue : Entry(queue[i]) \in from
  /\ Busy => Entry(current) \in from
  /\ \A i \in Responses(events') : \E q \in from : q.id = events'[i].id

\* The main thread emits the commands cs and does no more to the link.
Sends(cs, from, free) ==
  /\ mainPc = "loop"
  /\ SendCommands(cs, from, free)
  /\ Len(cs) # 0 => Fresh(free, from)
  /\ Kept(from)
  /\ UNCHANGED <<mainPc, workerVars, outgoing, serverVars, answers>>

\* A batch keeps the names apart.
LEMMA SendLink ==
    ASSUME TypeInv, LinkInv,
           NEW cs \in Seq(Commands), NEW from \in SUBSET pending, NEW free \in SUBSET Ids,
           Sends(cs, from, free),
           events' = events \/ (events # <<>> /\ events' = Tail(events))
    PROVE  LinkInv'
<1> DEFINE n == Len(cs)
           old == Len(queue)
<1>1. MainTypes /\ WorkTypes /\ WorkerInv
  BY TypeParts DEF TypeInv
<1>2. PICK ids \in [1..n -> free] : Batch(cs, from, ids)
  BY <1>1, SendFacts DEF Sends, WorkTypes
<1>3. /\ mainPc = "loop" /\ mainPc' = "loop" /\ Kept(from)
      /\ UNCHANGED <<workerPc, current, outgoing, inbound, serving, answers>>
      /\ Busy' = Busy /\ AtServer' = AtServer
  BY DEF Sends, workerVars, serverVars, Busy, AtServer
<1>4. /\ n \in Nat /\ old \in Nat /\ DOMAIN queue = 1..old
      /\ \A i \in 1..n : cs[i] \in Commands /\ ids[i] \in Ids /\ ids[i] \in free
      /\ \A i \in DOMAIN queue : queue[i] \in Requests
  BY <1>1, LenProperties, ElementOfSeq DEF WorkTypes
<1>5. \A i \in 1..n : /\ \A p \in from : p.id # ids[i]
                      /\ \A s \in outgoing \cup AtServer : s.request.id # ids[i]
  <2> SUFFICES ASSUME NEW i \in 1..n
               PROVE  /\ \A p \in from : p.id # ids[i]
                      /\ \A s \in outgoing \cup AtServer : s.request.id # ids[i]
    OBVIOUS
  <2>1. n # 0
    BY <1>4
  <2> QED BY <1>4, <2>1 DEF Sends, Fresh
<1>6. \A r \in Requests : Entry(r).id = r.id
  BY NoRequest, EntryFacts DEF Entry
<1>7. /\ \A i \in DOMAIN queue : Entry(queue[i]) \in from /\ Entry(queue[i]).id = queue[i].id
      /\ Busy => Entry(current) \in from /\ Entry(current).id = current.id
  BY <1>1, <1>3, <1>4, <1>6 DEF Kept, WorkTypes, WorkerInv
<1>8. \A i \in DOMAIN queue' :
        \/ i \in DOMAIN queue /\ queue'[i] = queue[i]
        \/ \E k \in 1..n : /\ i = old + k
                           /\ queue'[i] = [id |-> ids[k], command |-> cs[k]]
  <2>1. /\ queue' \in Seq(Requests) /\ Len(queue') = old + n
        /\ \A i \in 1..old : queue'[i] = queue[i]
        /\ \A k \in 1..n : queue'[old + k] = [id |-> ids[k], command |-> cs[k]]
    BY <1>2 DEF Batch
  <2>2. DOMAIN queue' = 1..(old + n)
    BY <2>1, LenProperties
  <2> HIDE DEF n, old
  <2> SUFFICES ASSUME NEW i \in 1..(old + n)
               PROVE  \/ i \in 1..old /\ queue'[i] = queue[i]
                      \/ \E k \in 1..n : /\ i = old + k
                                         /\ queue'[i] = [id |-> ids[k], command |-> cs[k]]
    BY <1>4, <2>2
  <2>3. CASE i <= old
    BY <1>4, <2>1, <2>3
  <2>4. CASE ~(i <= old)
    <3> DEFINE k == i - old
    <3>1. k \in 1..n /\ i = old + k
      BY <1>4, <2>4
    <3> HIDE DEF k
    <3> QED BY <2>1, <3>1
  <2> QED BY <2>3, <2>4
<1>9. \A i, j \in 1..n : ids[i] = ids[j] => i = j
  BY <1>2 DEF Batch
<1> HIDE DEF n, old
<1>10. NamesInv'
  <2>1. \A i, j \in DOMAIN queue' : queue'[i].id = queue'[j].id => i = j
    <3>1. \A i, j \in DOMAIN queue : queue[i].id = queue[j].id => i = j
      BY DEF LinkInv, NamesInv
    <3> SUFFICES ASSUME NEW i \in DOMAIN queue', NEW j \in DOMAIN queue',
                        queue'[i].id = queue'[j].id
                 PROVE  i = j
      OBVIOUS
    <3>2. CASE i \in DOMAIN queue /\ queue'[i] = queue[i]
      BY <1>5, <1>7, <1>8, <3>1, <3>2
    <3>3. ASSUME NEW k \in 1..n, i = old + k, queue'[i] = [id |-> ids[k], command |-> cs[k]]
          PROVE  i = j
      BY <1>5, <1>7, <1>8, <1>9, <3>3
    <3> QED BY <1>8, <3>2, <3>3
  <2>2. ASSUME Busy, NEW i \in DOMAIN queue' PROVE queue'[i].id # current.id
    <3>1. \A j \in DOMAIN queue : queue[j].id # current.id
      BY <2>2 DEF LinkInv, NamesInv
    <3> QED BY <1>5, <1>7, <1>8, <2>2, <3>1
  <2>3. ASSUME NEW s \in AtServer, NEW i \in DOMAIN queue' PROVE queue'[i].id # s.request.id
    <3>1. \A j \in DOMAIN queue : queue[j].id # s.request.id
      BY DEF LinkInv, NamesInv
    <3> QED BY <1>5, <1>8, <3>1
  <2>4. /\ \A s \in AtServer : ~s.open /\ Busy => s.request.id # current.id
        /\ \A s, t \in inbound : s.request.id = t.request.id => s = t
        /\ serving # Nothing => \A s \in inbound : s.request.id # serving.request.id
    BY DEF LinkInv, NamesInv
  <2>5. \A s \in AtServer : /\ \A i \in DOMAIN queue' : queue'[i].id # s.request.id
                            /\ ~s.open /\ Busy => s.request.id # current.id
    BY <2>3, <2>4
  <2>6. /\ \A s, t \in inbound' : s.request.id = t.request.id => s = t
        /\ serving' # Nothing => \A s \in inbound' : s.request.id # serving'.request.id
    BY <1>3, <2>4
  <2>7. (\A s \in AtServer : /\ \A i \in DOMAIN queue : queue[i].id # s.request.id
                             /\ ~s.open /\ Busy => s.request.id # current.id)'
    BY <1>3, <2>5
  <2>8. (Busy => \A i \in DOMAIN queue : queue[i].id # current.id)'
    BY <1>3, <2>2
  <2> QED BY <2>1, <2>6, <2>7, <2>8, Zenon DEF NamesInv
<1>11. SocketInv'
  BY <1>3 DEF LinkInv, SocketInv
<1>12. /\ from \subseteq pending'
       /\ \A p \in pending' :
            p \in from \/ \E k \in 1..n : p = EntryOf(ids[k], cs[k]) /\ p.id = ids[k]
       /\ \A k \in 1..n : EntryOf(ids[k], cs[k]) \in pending'
  <2>1. \A k \in 1..n : EntryOf(ids[k], cs[k]).id = ids[k]
    BY <1>4, EntryFacts
  <2>2. /\ from \subseteq pending'
        /\ \A p \in pending' : p \in from \/ \E k \in 1..n : p = EntryOf(ids[k], cs[k])
        /\ \A k \in 1..n : EntryOf(ids[k], cs[k]) \in pending'
    BY <1>2 DEF Batch, n
  <2> QED BY <2>1, <2>2
<1>13. PICK k \in {0, 1} :
         \A i \in Responses(events') :
           i \in Nat /\ i + k \in Responses(events) /\ events'[i] = events[i + k]
  <2>1. events \in Seq(Events)
    BY <1>1 DEF MainTypes
  <2>2. CASE events' = events
    <3>1. \A i \in Responses(events) : i \in Nat /\ i + 0 = i
      BY <2>1, FewAhead
    <3>2. \A i \in Responses(events') :
            i \in Nat /\ i + 0 \in Responses(events) /\ events'[i] = events[i + 0]
      BY <2>2, <3>1
    <3> QED BY <3>2
  <2>3. CASE events # <<>> /\ events' = Tail(events)
    <3>1. \A i \in Responses(events') :
            i \in Nat /\ i + 1 \in Responses(events) /\ events'[i] = events[i + 1]
      BY <2>1, <2>3, TailResponses
    <3> QED BY <3>1
  <2> QED BY <2>2, <2>3
<1>14. UpdaterInv'
  <2>1. \A p, q \in pending' : p.id = q.id => p = q
    <3>1. \A p, q \in from : p.id = q.id => p = q
      BY <1>3 DEF LinkInv, UpdaterInv
    <3> QED BY <1>5, <1>9, <1>12, <3>1
  <2>2. \A i \in DOMAIN queue' : Entry(queue'[i]) \in pending'
    <3> SUFFICES ASSUME NEW i \in DOMAIN queue' PROVE Entry(queue'[i]) \in pending'
      OBVIOUS
    <3>1. CASE i \in DOMAIN queue /\ queue'[i] = queue[i]
      BY <1>7, <1>12, <3>1
    <3>2. ASSUME NEW j \in 1..n, queue'[i] = [id |-> ids[j], command |-> cs[j]]
          PROVE  Entry(queue'[i]) \in pending'
      BY <1>12, <3>2 DEF Entry
    <3> QED BY <1>8, <3>1, <3>2
  <2>3. Busy => Entry(current) \in pending'
    BY <1>7, <1>12
  <2>4. ASSUME NEW i \in Responses(events')
        PROVE  /\ events'[i].id \in PendingIds'
               /\ \A j \in DOMAIN queue' : queue'[j].id # events'[i].id
               /\ Busy => current.id # events'[i].id
               /\ events'[i].result # "failed" => events'[i].id \notin IdsOf(AtServer)
               /\ \A j \in Responses(events') : events'[i].id = events'[j].id => i = j
    <3>1. PICK q \in from : q.id = events'[i].id
      BY <1>3 DEF Kept
    <3>2. events'[i].id \in PendingIds'
      BY <1>12, <3>1 DEF PendingIds
    <3>3. i \in Nat /\ i + k \in Responses(events) /\ events'[i] = events[i + k]
      BY <1>13
    <3>4. /\ \A j \in DOMAIN queue : queue[j].id # events'[i].id
          /\ Busy => current.id # events'[i].id
          /\ events'[i].result # "failed" => events'[i].id \notin IdsOf(AtServer)
          /\ \A j \in Responses(events) : events'[i].id = events[j].id => i + k = j
      BY <1>3, <3>3 DEF LinkInv, UpdaterInv
    <3>5. \A j \in DOMAIN queue' : queue'[j].id # events'[i].id
      BY <1>5, <1>8, <3>1, <3>4
    <3>6. ASSUME NEW j \in Responses(events'), events'[i].id = events'[j].id PROVE i = j
      <4>1. j \in Nat /\ j + k \in Responses(events) /\ events'[j] = events[j + k]
        BY <1>13
      <4>2. i + k = j + k
        BY <3>4, <3>6, <4>1
      <4> QED BY <3>3, <4>1, <4>2
    <3> QED BY <3>2, <3>4, <3>5, <3>6
  <2> QED BY <1>3, <2>1, <2>2, <2>3, <2>4 DEF UpdaterInv, IdsOf
<1> QED BY <1>10, <1>11, <1>14 DEF LinkInv

\* What Updater has to know, of requests and of results.
LEMMA KnownFacts ==
    ASSUME TypeInv, LinkInv, mainPc = "loop"
    PROVE  /\ \A i \in DOMAIN queue : Entry(queue[i]) \in pending /\ Entry(queue[i]).id = queue[i].id
           /\ Busy => Entry(current) \in pending /\ Entry(current).id = current.id
           /\ \A i \in Responses(events) : \E q \in pending : q.id = events[i].id
<1>1. \A r \in Requests : Entry(r).id = r.id
  BY NoRequest, EntryFacts DEF Entry
<1>2. \A i \in DOMAIN queue : queue[i] \in Requests
  BY LenProperties, ElementOfSeq DEF TypeInv, GuiTypeOK
<1>3. Busy => current \in Requests
  BY DEF TypeInv, GuiTypeOK, WorkerInv
<1>4. /\ \A i \in DOMAIN queue : Entry(queue[i]) \in pending
      /\ Busy => Entry(current) \in pending
      /\ \A i \in Responses(events) : events[i].id \in PendingIds
  BY DEF LinkInv, UpdaterInv
<1> QED BY <1>1, <1>2, <1>3, <1>4 DEF PendingIds

\* The free names are in use nowhere.
LEMMA FreeFresh == Fresh(FreeIds, pending)
BY DEF Fresh, FreeIds, PendingIds, IdsOf

\* A widget emits commands on its own.
LEMMA OperateSends ==
    ASSUME TypeInv, LinkInv, NEW cs, NEW reserve, Operate(cs, reserve)
    PROVE  Sends(cs, pending, FreeIds) /\ events' = events
<1>1. /\ mainPc = "loop" /\ SendCommands(cs, pending, FreeIds) /\ events' = events
      /\ UNCHANGED <<mainPc, workerVars, outgoing, serverVars, answers>>
  BY DEF Operate
<1>2. Kept(pending)
  BY <1>1, KnownFacts DEF Kept
<1> QED BY <1>1, <1>2, FreeFresh DEF Sends

\* A status is handled, and a widget emits commands.
LEMMA StatusSends ==
    ASSUME TypeInv, LinkInv, NEW cs, HandleStatus(cs)
    PROVE  Sends(cs, pending, FreeIds) /\ events # <<>> /\ events' = Tail(events)
<1>1. /\ mainPc = "loop" /\ SendCommands(cs, pending, FreeIds)
      /\ events # <<>> /\ events' = Tail(events)
      /\ UNCHANGED <<mainPc, workerVars, outgoing, serverVars, answers>>
  BY DEF HandleStatus
<1>2. \A i \in Responses(events') : \E q \in pending : q.id = events'[i].id
  <2>1. events \in Seq(Events)
    BY DEF TypeInv, GuiTypeOK
  <2>2. \A i \in Responses(events') : i + 1 \in Responses(events) /\ events'[i] = events[i + 1]
    BY <1>1, <2>1, TailResponses
  <2> QED BY <1>1, <2>2, KnownFacts
<1>3. Kept(pending)
  BY <1>1, <1>2, KnownFacts DEF Kept
<1> QED BY <1>1, <1>3, FreeFresh DEF Sends

\* A result is handled, and its consumer, if any, emits commands: the name of
\* the request is free unless there was no answer.
LEMMA ResponseSends ==
    ASSUME TypeInv, LinkInv, NEW p \in pending, NEW cs, HandleResponse(p, cs),
           Len(cs) # 0 => Head(events).result # "failed"
    PROVE  /\ Sends(cs, pending \ {p}, FreeIds \cup {p.id})
           /\ FreeIds \cup {p.id} \in SUBSET Ids
           /\ events # <<>> /\ events' = Tail(events)
<1>1. /\ mainPc = "loop" /\ SendCommands(cs, pending \ {p}, FreeIds \cup {p.id})
      /\ events # <<>> /\ events' = Tail(events)
      /\ p.id = Head(events).id /\ Head(events).type = "response"
      /\ UNCHANGED <<mainPc, workerVars, outgoing, serverVars, answers>>
  BY DEF HandleResponse
<1>2. events \in Seq(Events)
  BY DEF TypeInv, GuiTypeOK
<1>3. 1 \in Responses(events) /\ events[1] = Head(events)
  <2>1. Len(events) \in Nat \ {0} /\ DOMAIN events = 1..Len(events) /\ Head(events) = events[1]
    BY <1>1, <1>2, LenProperties, EmptySeq
  <2> QED BY <1>1, <2>1 DEF Responses
<1>4. /\ \A j \in DOMAIN queue : queue[j].id # p.id
      /\ Busy => current.id # p.id
      /\ Head(events).result # "failed" => p.id \notin IdsOf(AtServer)
      /\ \A j \in Responses(events) : events[j].id = p.id => j = 1
      /\ \A q \in pending : q.id = p.id => q = p
  BY <1>1, <1>3 DEF LinkInv, UpdaterInv
<1>5. \A i \in Responses(events') : \E q \in pending \ {p} : q.id = events'[i].id
  <2> SUFFICES ASSUME NEW i \in Responses(events')
               PROVE  \E q \in pending \ {p} : q.id = events'[i].id
    OBVIOUS
  <2>1. i \in Nat /\ i + 1 \in Responses(events) /\ i + 1 # 1 /\ events'[i] = events[i + 1]
    BY <1>1, <1>2, TailResponses
  <2>2. PICK q \in pending : q.id = events'[i].id
    BY <1>1, <2>1, KnownFacts
  <2>3. events'[i].id # p.id
    BY <1>4, <2>1
  <2> QED BY <2>2, <2>3
<1>6. Kept(pending \ {p})
  <2>1. \A i \in DOMAIN queue : Entry(queue[i]) \in pending \ {p}
    BY <1>1, <1>4, KnownFacts
  <2>2. Busy => Entry(current) \in pending \ {p}
    BY <1>1, <1>4, KnownFacts
  <2> QED BY <1>5, <2>1, <2>2 DEF Kept
<1>7. ASSUME Len(cs) # 0 PROVE Fresh(FreeIds \cup {p.id}, pending \ {p})
  <2>1. \A s \in outgoing : s.request.id # p.id
    BY <1>4 DEF LinkInv, SocketInv, Busy
  <2>2. \A s \in AtServer : s.request.id # p.id
    BY <1>4, <1>7 DEF IdsOf
  <2>3. \A q \in pending \ {p} : q.id # p.id
    BY <1>4
  <2> QED BY <2>1, <2>2, <2>3, FreeFresh DEF Fresh
<1>8. FreeIds \cup {p.id} \in SUBSET Ids
  BY DEF FreeIds, TypeInv, GuiTypeOK
<1> QED BY <1>1, <1>6, <1>7, <1>8 DEF Sends

\* The operator's steps keep the names apart.
LEMMA OperatorLink == TypeInv /\ LinkInv /\ Operator => LinkInv'
<1> SUFFICES ASSUME TypeInv, LinkInv, Operator PROVE LinkInv'
  OBVIOUS
<1>0. FreeIds \in SUBSET Ids /\ pending \in SUBSET pending
  BY DEF FreeIds
<1>1. ASSUME NEW cs \in Seq(Commands), NEW reserve, Operate(cs, reserve) PROVE LinkInv'
  <2>1. Sends(cs, pending, FreeIds) /\ events' = events
    BY <1>1, OperateSends
  <2> QED BY <1>0, <2>1, SendLink
<1>2. CASE OpenPanel
  <2>1. UNCHANGED <<mainPc, pending, events, queue, workerPc, current, outgoing, inbound, serving, answers>>
    BY <1>2 DEF OpenPanel, linkVars, guiVars, workerVars, serverVars
  <2> QED BY <2>1 DEF LinkInv, NamesInv, SocketInv, UpdaterInv, Busy, AtServer, PendingIds, IdsOf
<1>3. ASSUME NEW kind \in {"diagnostics", "change"}, PressButton(kind) PROVE LinkInv'
  <2> DEFINE cs == <<MotorCommand(kind, selected)>>
  <2>1. selected \in Motors /\ Operate(cs, 0)
    BY <1>3 DEF PressButton, Request, TypeInv, GuiTypeOK
  <2>2. cs \in Seq(Commands)
    BY <2>1, CommandFacts, Batches
  <2> HIDE DEF cs
  <2> QED BY <1>1, <2>1, <2>2
<1>4. ASSUME NEW m \in Motors, NEW times \in 1..2, ChooseMotor(m, times) PROVE LinkInv'
  <2> DEFINE cs == [i \in 1..times |-> Diagnostics(m)]
  <2>1. cs \in Seq(Commands) /\ Operate(cs, 0)
    BY <1>4, Batches DEF ChooseMotor, Request
  <2> HIDE DEF cs
  <2> QED BY <1>1, <2>1
<1>5. CASE OtherCommand
  <2> DEFINE cs == <<[kind |-> "other"]>>
  <2>1. cs \in Seq(Commands) /\ Operate(cs, 1)
    BY <1>5, CommandFacts, Batches DEF OtherCommand
  <2> HIDE DEF cs
  <2> QED BY <1>1, <2>1
<1>6. CASE CloseWindow
  <2>1. /\ mainPc' # "loop"
        /\ UNCHANGED <<queue, workerPc, current, outgoing, inbound, serving, answers>>
    BY <1>6 DEF CloseWindow, Stop, workerVars, serverVars
  <2>2. UpdaterInv'
    BY <2>1 DEF UpdaterInv
  <2>3. NamesInv' /\ SocketInv'
    BY <2>1 DEF LinkInv, NamesInv, SocketInv, Busy, AtServer
  <2> QED BY <2>2, <2>3 DEF LinkInv
<1> QED
  BY <1>2, <1>3, <1>4, <1>5, <1>6
  DEF Operator, PressResetControl, AnswerToolChanger, RefreshContec

\* The events keep the names apart.
LEMMA EventLink == TypeInv /\ LinkInv /\ HandleEvent => LinkInv'
<1> SUFFICES ASSUME TypeInv, LinkInv, HandleEvent PROVE LinkInv'
  OBVIOUS
<1>0. FreeIds \in SUBSET Ids /\ pending \in SUBSET pending
  BY DEF FreeIds
<1>1. ASSUME NEW cs \in Seq(Commands), HandleStatus(cs) PROVE LinkInv'
  <2>1. Sends(cs, pending, FreeIds) /\ events # <<>> /\ events' = Tail(events)
    BY <1>1, StatusSends
  <2> QED BY <1>0, <2>1, SendLink
<1>2. ASSUME NEW p \in pending, NEW cs \in Seq(Commands), HandleResponse(p, cs),
             Len(cs) # 0 => Head(events).result # "failed"
      PROVE  LinkInv'
  <2>1. /\ Sends(cs, pending \ {p}, FreeIds \cup {p.id})
        /\ FreeIds \cup {p.id} \in SUBSET Ids
        /\ events # <<>> /\ events' = Tail(events)
    BY <1>2, ResponseSends
  <2>2. pending \ {p} \in SUBSET pending
    OBVIOUS
  <2> QED BY <2>1, <2>2, SendLink
<1>3. CASE ShowStatus
  <2>1. FirstMotor \in Motors \/ Motors = {}
    BY DEF FirstMotor
  <2>2. Motors # {} => <<Diagnostics(FirstMotor)>> \in Seq(Commands)
    BY <2>1, CommandFacts, Batches
  <2>3. \E cs \in Seq(Commands) : HandleStatus(cs)
    BY <1>3, <2>2, Batches DEF ShowStatus
  <2> QED BY <1>1, <2>3
<1>4. CASE ShowLoss
  <2>1. /\ mainPc = "loop" /\ events # <<>> /\ events' = Tail(events)
        /\ UNCHANGED <<mainPc, pending, queue, workerPc, current, outgoing, inbound, serving, answers>>
    BY <1>4 DEF ShowLoss, HandleLost, workerVars, serverVars
  <2>2. NamesInv' /\ SocketInv'
    BY <2>1 DEF LinkInv, NamesInv, SocketInv, Busy, AtServer
  <2>3. \A i \in Responses(events') :
          i \in Nat /\ i + 1 \in Responses(events) /\ events'[i] = events[i + 1]
    <3>1. events \in Seq(Events)
      BY DEF TypeInv, GuiTypeOK
    <3> QED BY <2>1, <3>1, TailResponses
  <2>4. Busy' = Busy /\ AtServer' = AtServer /\ PendingIds' = PendingIds
    BY <2>1 DEF Busy, AtServer, PendingIds
  <2>5. UpdaterInv'
    <3>0. \A i \in Responses(events) :
            /\ events[i].id \in PendingIds
            /\ \A j \in DOMAIN queue : queue[j].id # events[i].id
            /\ Busy => current.id # events[i].id
            /\ events[i].result # "failed" => events[i].id \notin IdsOf(AtServer)
            /\ \A j \in Responses(events) : events[i].id = events[j].id => i = j
      BY <2>1 DEF LinkInv, UpdaterInv
    <3>1. ASSUME NEW i \in Responses(events')
          PROVE  /\ events'[i].id \in PendingIds
                 /\ \A j \in DOMAIN queue : queue[j].id # events'[i].id
                 /\ Busy => current.id # events'[i].id
                 /\ events'[i].result # "failed" => events'[i].id \notin IdsOf(AtServer)
      <4>1. i + 1 \in Responses(events) /\ events'[i] = events[i + 1]
        BY <2>3
      <4> QED BY <3>0, <4>1
    <3>2. ASSUME NEW i \in Responses(events'), NEW j \in Responses(events'),
                 events'[i].id = events'[j].id
          PROVE  i = j
      <4>1. /\ i \in Nat /\ i + 1 \in Responses(events) /\ events'[i] = events[i + 1]
            /\ j \in Nat /\ j + 1 \in Responses(events) /\ events'[j] = events[j + 1]
        BY <2>3
      <4>2. i + 1 = j + 1
        BY <3>0, <3>2, <4>1
      <4> QED BY <4>1, <4>2
    <3>3. /\ \A p, q \in pending : p.id = q.id => p = q
          /\ \A i \in DOMAIN queue : Entry(queue[i]) \in pending
          /\ Busy => Entry(current) \in pending
      BY <2>1 DEF LinkInv, UpdaterInv
    <3> QED BY <2>1, <2>4, <3>1, <3>2, <3>3 DEF UpdaterInv, IdsOf
  <2> QED BY <2>2, <2>5 DEF LinkInv
<1>5. CASE ShowResponse
  <2> DEFINE e == Head(events)
  <2>1. PICK p \in pending :
          /\ p.id = e.id
          /\ IF p.consumer /\ e.result # "failed" THEN MotorResponse(e) ELSE NoConsumer(p)
    BY <1>5 DEF ShowResponse
  <2>2. p \in [id : Ids, consumer : BOOLEAN]
    BY DEF TypeInv, GuiTypeOK
  <2>3. <<>> \in Seq(Commands) /\ Len(<<>>) = 0
    BY Batches
  <2>4. CASE NoConsumer(p)
    <3>1. HandleResponse(p, <<>>)
      BY <2>4 DEF NoConsumer
    <3> QED BY <1>2, <2>3, <3>1
  <2>5. CASE p.consumer /\ e.result # "failed" /\ MotorResponse(e)
    <3>1. p = [id |-> e.id, consumer |-> TRUE]
      BY <2>1, <2>2, <2>5
    <3>2. CASE Show(e)
      BY <1>2, <2>3, <3>1, <3>2 DEF Show
    <3>3. CASE HandleResponse([id |-> e.id, consumer |-> TRUE], <<Diagnostics(selected)>>)
      <4>1. selected \in Motors
        BY <2>5, <3>3 DEF TypeInv, SelectedInv, HandleResponse
      <4>2. <<Diagnostics(selected)>> \in Seq(Commands)
        BY <4>1, CommandFacts, Batches
      <4> QED BY <1>2, <2>5, <3>1, <3>3, <4>2
    <3> QED BY <2>5, <3>2, <3>3 DEF MotorResponse
  <2> QED BY <2>1, <2>4, <2>5
<1> QED BY <1>3, <1>4, <1>5 DEF HandleEvent

\* The main thread's steps keep the names apart.
LEMMA MainLink ==
    TypeInv /\ LinkInv /\ (Operator \/ HandleEvent \/ (Join /\ UNCHANGED widgets)) => LinkInv'
<1> SUFFICES ASSUME TypeInv, LinkInv, Join PROVE LinkInv'
  BY OperatorLink, EventLink
<1>1. /\ mainPc' # "loop"
      /\ UNCHANGED <<queue, workerPc, current, outgoing, inbound, serving, answers>>
  BY DEF Join, workerVars, serverVars
<1>2. UpdaterInv'
  BY <1>1 DEF UpdaterInv
<1>3. NamesInv' /\ SocketInv'
  BY <1>1 DEF LinkInv, NamesInv, SocketInv, Busy, AtServer
<1> QED BY <1>2, <1>3 DEF LinkInv

\* A step of the worker between two requests, which may post a notice.
LEMMA BetweenLink ==
    ASSUME MainTypes, LinkInv, ~Busy, ~Busy',
           UNCHANGED <<mainPc, pending, queue, current, outgoing, inbound, serving, answers>>,
           \/ events' = events
           \/ \E e \in Events : e.type # "response" /\ events' = Append(events, e)
    PROVE  LinkInv'
<1>1. workerPc # "await" /\ workerPc' # "await" /\ AtServer' = AtServer /\ PendingIds' = PendingIds
  BY DEF Busy, AtServer, PendingIds
<1>2. NamesInv'
  BY <1>1 DEF LinkInv, NamesInv
<1>3. SocketInv'
  BY <1>1 DEF LinkInv, SocketInv
<1>4. \A i \in Responses(events') : i \in Responses(events) /\ events'[i] = events[i]
  <2>1. CASE events' = events
    BY <2>1
  <2>2. ASSUME NEW e \in Events, e.type # "response", events' = Append(events, e)
        PROVE  \A i \in Responses(events') : i \in Responses(events) /\ events'[i] = events[i]
    <3>1. events \in Seq(Events)
      BY DEF MainTypes
    <3> QED BY <2>2, <3>1, AppendResponses
  <2> QED BY <2>1, <2>2
<1>5. UpdaterInv'
  BY <1>1, <1>4 DEF LinkInv, UpdaterInv, IdsOf
<1> QED BY <1>2, <1>3, <1>5 DEF LinkInv

\* The worker takes a command from its queue.
LEMMA TakeLink == WorkTypes /\ LinkInv /\ TakeCommand => LinkInv'
<1> SUFFICES ASSUME WorkTypes, LinkInv, TakeCommand PROVE LinkInv'
  OBVIOUS
<1>1. /\ workerPc = "take" /\ queue # <<>> /\ current' = Head(queue) /\ queue' = Tail(queue)
      /\ workerPc' = "send" /\ ~Busy /\ Busy'
      /\ UNCHANGED <<mainPc, pending, events, outgoing, inbound, serving, answers>>
  BY DEF TakeCommand, guiVars, serverVars, Busy
<1>2. /\ current' = queue[1] /\ 1 \in DOMAIN queue
      /\ \A i \in DOMAIN queue' : /\ i \in Nat /\ i # 0 /\ i + 1 \in DOMAIN queue
                                  /\ queue'[i] = queue[i + 1]
  <2>1. queue \in Seq(Requests)
    BY DEF WorkTypes
  <2>2. /\ Tail(queue) \in Seq(Requests) /\ Len(queue) \in Nat \ {0} /\ Len(Tail(queue)) = Len(queue) - 1
        /\ DOMAIN queue = 1..Len(queue) /\ DOMAIN Tail(queue) = 1..(Len(queue) - 1)
        /\ Head(queue) = queue[1]
        /\ \A i \in 1..(Len(queue) - 1) : Tail(queue)[i] = queue[i + 1]
    BY <1>1, <2>1, HeadTailProperties, LenProperties, EmptySeq
  <2> QED BY <1>1, <2>2
<1>3. AtServer' = AtServer /\ PendingIds' = PendingIds
  BY <1>1 DEF AtServer, PendingIds
<1>4. NamesInv'
  <2>1. \A i, j \in DOMAIN queue : queue[i].id = queue[j].id => i = j
    BY DEF LinkInv, NamesInv
  <2>2. \A i, j \in DOMAIN queue' : queue'[i].id = queue'[j].id => i = j
    BY <1>2, <2>1
  <2>3. \A i \in DOMAIN queue' : queue'[i].id # current'.id
    BY <1>2, <2>1
  <2>4. \A s \in AtServer, i \in DOMAIN queue : queue[i].id # s.request.id
    BY DEF LinkInv, NamesInv
  <2>5. \A s \in AtServer : /\ \A i \in DOMAIN queue' : queue'[i].id # s.request.id
                            /\ s.request.id # current'.id
    BY <1>2, <2>4
  <2>6. /\ \A s, t \in inbound : s.request.id = t.request.id => s = t
        /\ serving # Nothing => \A s \in inbound : s.request.id # serving.request.id
    BY DEF LinkInv, NamesInv
  <2> QED BY <1>1, <1>3, <2>2, <2>3, <2>5, <2>6 DEF NamesInv
<1>5. SocketInv'
  BY <1>1, <1>3 DEF LinkInv, SocketInv
<1>6. UpdaterInv'
  <2> SUFFICES ASSUME mainPc = "loop" PROVE UpdaterInv'
    BY <1>1 DEF UpdaterInv
  <2>1. /\ \A i \in DOMAIN queue' : Entry(queue'[i]) \in pending
        /\ Entry(current') \in pending
    <3>1. \A i \in DOMAIN queue : Entry(queue[i]) \in pending
      BY DEF LinkInv, UpdaterInv
    <3> QED BY <1>2, <3>1
  <2>2. ASSUME NEW i \in Responses(events)
        PROVE  /\ \A j \in DOMAIN queue' : queue'[j].id # events[i].id
               /\ current'.id # events[i].id
    <3>1. \A j \in DOMAIN queue : queue[j].id # events[i].id
      BY DEF LinkInv, UpdaterInv
    <3> QED BY <1>2, <3>1
  <2>3. \A i \in Responses(events) :
           /\ events[i].id \in PendingIds
           /\ events[i].result # "failed" => events[i].id \notin IdsOf(AtServer)
           /\ \A j \in Responses(events) : events[i].id = events[j].id => i = j
    BY DEF LinkInv, UpdaterInv
  <2>4. \A p, q \in pending : p.id = q.id => p = q
    BY DEF LinkInv, UpdaterInv
  <2> QED BY <1>1, <1>3, <2>1, <2>2, <2>3, <2>4 DEF UpdaterInv, IdsOf
<1> QED BY <1>4, <1>5, <1>6 DEF LinkInv

\* The worker hands its request to the socket.
LEMMA SendRequestLink == WorkTypes /\ WorkerInv /\ LinkInv /\ SendRequest => LinkInv'
<1> SUFFICES ASSUME WorkTypes, WorkerInv, LinkInv, SendRequest PROVE LinkInv'
  OBVIOUS
<1>1. /\ workerPc = "send" /\ workerPc' = "await" /\ Busy /\ Busy'
      /\ outgoing' = outgoing \cup {[request |-> current, open |-> TRUE]}
      /\ UNCHANGED <<mainPc, pending, events, queue, current, inbound, serving, answers>>
  BY DEF SendRequest, guiVars, serverVars, Busy
<1>2. AtServer' = AtServer /\ PendingIds' = PendingIds
  BY <1>1 DEF AtServer, PendingIds
<1>3. outgoing = {} /\ answers = {} /\ \A s \in AtServer : ~s.open
  BY <1>1 DEF LinkInv, SocketInv
<1>4. NamesInv'
  BY <1>1, <1>2 DEF LinkInv, NamesInv
<1>5. SocketInv'
  BY <1>1, <1>2, <1>3 DEF SocketInv
<1>6. UpdaterInv'
  BY <1>1, <1>2 DEF LinkInv, UpdaterInv, IdsOf
<1> QED BY <1>4, <1>5, <1>6 DEF LinkInv

\* The worker is done with its request: nothing of it is on the socket.
LEMMA FinishLink ==
    ASSUME MainTypes, WorkTypes, WorkerInv, LinkInv, Busy,
           NEW result \in {"ok", "error", "failed"}, NEW payload \in Motors \cup {"none"},
           Finish(result, payload), outgoing' = {}, answers' = {},
           \A s \in AtServer' : ~s.open /\ \E t \in AtServer : t.request = s.request,
           \A s, t \in inbound' : s.request.id = t.request.id => s = t,
           serving' # Nothing => \A s \in inbound' : s.request.id # serving'.request.id,
           result # "failed" => current.id \notin IdsOf(AtServer)
    PROVE  LinkInv'
<1> DEFINE e == Response(current, result, payload)
<1>1. /\ Post(e) /\ ~Busy' /\ workerPc' # "await"
      /\ UNCHANGED <<mainPc, pending, queue>>
  BY DEF Finish, Busy
<1>2. current \in Requests
  BY DEF WorkTypes, WorkerInv
<1>3. e \in Events /\ e.type = "response" /\ e.id = current.id /\ e.result = result
  BY <1>2, EventFacts
<1> HIDE DEF e
<1>4. NamesInv'
  <2>1. \A s \in AtServer', i \in DOMAIN queue : queue[i].id # s.request.id
    BY DEF LinkInv, NamesInv
  <2>2. \A i, j \in DOMAIN queue : queue[i].id = queue[j].id => i = j
    BY DEF LinkInv, NamesInv
  <2> QED BY <1>1, <2>1, <2>2 DEF NamesInv
<1>5. SocketInv'
  BY <1>1 DEF SocketInv
<1>6. UpdaterInv'
  <2> SUFFICES ASSUME mainPc = "loop" PROVE UpdaterInv'
    BY <1>1 DEF UpdaterInv
  <2>0. events \in Seq(Events) /\ events' = Append(events, e)
    BY <1>1 DEF MainTypes, Post
  <2>1. PendingIds' = PendingIds /\ \A r \in IdsOf(AtServer)' : r \in IdsOf(AtServer)
    BY <1>1 DEF PendingIds, IdsOf
  <2>2. \A i \in Responses(events') :
          \/ i \in Responses(events) /\ events'[i] = events[i]
          \/ i = Len(events) + 1 /\ events'[i] = e
    BY <2>0, <1>3, AppendResponses
  <2>3. Entry(current) \in pending /\ Entry(current).id = current.id
    BY <1>2, NoRequest, EntryFacts DEF Entry, LinkInv, UpdaterInv
  <2>4. /\ \A p, q \in pending : p.id = q.id => p = q
        /\ \A i \in DOMAIN queue : Entry(queue[i]) \in pending
    BY DEF LinkInv, UpdaterInv
  <2>5. \A i \in Responses(events) :
         /\ events[i].id \in PendingIds
         /\ \A j \in DOMAIN queue : queue[j].id # events[i].id
         /\ current.id # events[i].id
         /\ events[i].result # "failed" => events[i].id \notin IdsOf(AtServer)
         /\ \A j \in Responses(events) : events[i].id = events[j].id => i = j
    BY DEF LinkInv, UpdaterInv
  <2>6. current.id \in PendingIds /\ \A j \in DOMAIN queue : queue[j].id # current.id
    BY <2>3 DEF PendingIds, LinkInv, NamesInv
  <2>7. ASSUME NEW i \in Responses(events')
        PROVE  /\ events'[i].id \in PendingIds'
               /\ \A j \in DOMAIN queue' : queue'[j].id # events'[i].id
               /\ events'[i].result # "failed" => events'[i].id \notin IdsOf(AtServer)'
               /\ \A j \in Responses(events') : events'[i].id = events'[j].id => i = j
    <3>1. CASE i \in Responses(events) /\ events'[i] = events[i]
      BY <1>1, <1>3, <2>1, <2>2, <2>5, <3>1
    <3>2. CASE i = Len(events) + 1 /\ events'[i] = e
      BY <1>1, <1>3, <2>1, <2>2, <2>5, <2>6, <3>2
    <3> QED BY <2>2, <3>1, <3>2
  <2> QED BY <1>1, <2>4, <2>7 DEF UpdaterInv
<1> QED BY <1>4, <1>5, <1>6 DEF LinkInv

\* The worker's steps keep the names apart.
LEMMA WorkerLink == TypeInv /\ LinkInv /\ Worker => LinkInv'
<1> SUFFICES ASSUME TypeInv, LinkInv, Worker PROVE LinkInv'
  OBVIOUS
<1>0. MainTypes /\ WorkTypes /\ SocketTypes /\ WorkerInv
  BY TypeParts DEF TypeInv
<1>1. CASE WorkerInit \/ TestRunning \/ NoCommand
  <2>1. /\ UNCHANGED <<mainPc, pending, queue, current, outgoing, inbound, serving, answers>>
        /\ events' = events /\ ~Busy /\ ~Busy'
    BY <1>0, <1>1
    DEF WorkerInit, TestRunning, NoCommand, guiVars, serverVars, Busy, WorkTypes
  <2> QED BY <1>0, <2>1, BetweenLink
<1>2. CASE TakeCommand
  BY <1>0, <1>2, TakeLink
<1>3. CASE SendRequest
  BY <1>0, <1>3, SendRequestLink
<1>n. /\ \A s, t \in inbound : s.request.id = t.request.id => s = t
      /\ serving # Nothing => \A s \in inbound : s.request.id # serving.request.id
  BY DEF LinkInv, NamesInv
<1>4. CASE SendFails
  <2>1. /\ Finish("failed", "none") /\ Busy
        /\ UNCHANGED <<outgoing, inbound, serving, answers>> /\ AtServer' = AtServer
    BY <1>4 DEF SendFails, Busy, serverVars, AtServer
  <2>2. outgoing = {} /\ answers = {} /\ \A s \in AtServer : ~s.open
    BY <1>4 DEF SendFails, LinkInv, SocketInv
  <2>3. /\ \A s \in AtServer' : ~s.open /\ \E t \in AtServer : t.request = s.request
        /\ \A s, t \in inbound' : s.request.id = t.request.id => s = t
        /\ serving' # Nothing => \A s \in inbound' : s.request.id # serving'.request.id
    BY <1>n, <2>1, <2>2
  <2> QED BY <1>0, <2>1, <2>2, <2>3, FinishLink
<1>5. CASE Receive
  <2>1. PICK a \in answers :
          /\ answers' = answers \ {a}
          /\ IF a.status = "garbled" THEN Finish("failed", "none")
             ELSE Finish(a.status, Payload(a.to.command))
    BY <1>5 DEF Receive
  <2>2. a.to \in Requests /\ a.status \in {"ok", "error", "garbled"}
    BY <1>0 DEF SocketTypes, AnswerSet, Outcomes
  <2>3. PICK result \in {"ok", "error", "failed"}, payload \in Motors \cup {"none"} :
          Finish(result, payload)
    <3>1. Payload(a.to.command) \in Motors \cup {"none"}
      BY <2>2, NoRequest, EventFacts
    <3> QED BY <2>1, <2>2, <3>1
  <2>4. Busy /\ UNCHANGED <<outgoing, inbound, serving>> /\ AtServer' = AtServer
    BY <1>5 DEF Receive, Busy, serverVars, AtServer
  <2>5. a.to = current /\ outgoing = {} /\ \A s \in AtServer : ~s.open
    BY DEF LinkInv, SocketInv
  <2>6. answers' = {}
    BY <2>1 DEF LinkInv, SocketInv
  <2>7. current.id \notin IdsOf(AtServer)
    BY <2>4, <2>5 DEF LinkInv, NamesInv, IdsOf
  <2>8. /\ \A s \in AtServer' : ~s.open /\ \E t \in AtServer : t.request = s.request
        /\ \A s, t \in inbound' : s.request.id = t.request.id => s = t
        /\ serving' # Nothing => \A s \in inbound' : s.request.id # serving'.request.id
    BY <1>n, <2>4, <2>5
  <2> QED BY <1>0, <2>3, <2>4, <2>5, <2>6, <2>7, <2>8, FinishLink
<1>6. CASE ReceiveTimeout
  <2>1. /\ Finish("failed", "none") /\ Busy /\ outgoing' = {} /\ answers' = {}
        /\ inbound' = {[s EXCEPT !.open = FALSE] : s \in inbound}
        /\ serving' = IF serving = Nothing THEN serving ELSE [serving EXCEPT !.open = FALSE]
    BY <1>6 DEF ReceiveTimeout, Busy
  <2>2. \A s \in Sent : /\ [s EXCEPT !.open = FALSE] \in Sent /\ ~[s EXCEPT !.open = FALSE].open
                        /\ [s EXCEPT !.open = FALSE].request = s.request
    BY DEF Sent
  <2>3. AtServer \subseteq Sent /\ inbound \subseteq Sent /\ (serving # Nothing => serving \in Sent)
    BY <1>0, ServerFacts DEF SocketTypes
  <2>4. \A s \in inbound' : \E t \in inbound : s = [t EXCEPT !.open = FALSE] /\ ~s.open /\ t.request = s.request
    <3> DEFINE closed(s) == [s EXCEPT !.open = FALSE]
    <3>1. \A s \in inbound : ~closed(s).open /\ closed(s).request = s.request
      BY <2>2, <2>3
    <3>2. inbound' = {closed(s) : s \in inbound}
      BY <2>1
    <3> HIDE DEF closed
    <3>3. \A s \in inbound' : \E t \in inbound : s = closed(t) /\ ~s.open /\ t.request = s.request
      BY <3>1, <3>2
    <3> QED BY <3>3 DEF closed
  <2>5. serving' # Nothing => /\ serving # Nothing /\ ~serving'.open
                              /\ serving'.request = serving.request
    BY <2>1, <2>2, <2>3
  <2>6. \A s \in AtServer' : ~s.open /\ \E t \in AtServer : t.request = s.request
    <3> SUFFICES ASSUME NEW s \in AtServer'
                 PROVE  ~s.open /\ \E t \in AtServer : t.request = s.request
      OBVIOUS
    <3>1. s \in inbound' \/ (s = serving' /\ serving' # Nothing)
      BY DEF AtServer
    <3>2. CASE s \in inbound'
      BY <2>4, <3>2 DEF AtServer
    <3>3. CASE s = serving' /\ serving' # Nothing
      BY <2>5, <3>3 DEF AtServer
    <3> QED BY <3>1, <3>2, <3>3
  <2>7. \A s, t \in inbound' : s.request.id = t.request.id => s = t
    <3> SUFFICES ASSUME NEW s \in inbound', NEW t \in inbound', s.request.id = t.request.id
                 PROVE  s = t
      OBVIOUS
    <3>1. PICK u \in inbound : s = [u EXCEPT !.open = FALSE] /\ u.request = s.request
      BY <2>4
    <3>2. PICK v \in inbound : t = [v EXCEPT !.open = FALSE] /\ v.request = t.request
      BY <2>4
    <3>3. u = v
      BY <1>n, <3>1, <3>2
    <3> QED BY <3>1, <3>2, <3>3
  <2>8. serving' # Nothing => \A s \in inbound' : s.request.id # serving'.request.id
    <3>1. \A s \in inbound' : \E t \in inbound : t.request = s.request
      BY <2>4
    <3> QED BY <1>n, <2>5, <3>1
  <2> QED BY <1>0, <2>1, <2>6, <2>7, <2>8, FinishLink
<1>7. CASE StatusReceived \/ StatusMissing
  <2>1. PICK t \in {"status", "lost"} : Post(Notice(t))
    BY <1>7 DEF StatusReceived, StatusMissing
  <2>2. /\ UNCHANGED <<mainPc, pending, queue, current, outgoing, inbound, serving, answers>>
        /\ ~Busy /\ ~Busy'
    BY <1>7 DEF StatusReceived, StatusMissing, serverVars, Busy
  <2>3. Notice(t) \in Events /\ Notice(t).type = t
    BY EventFacts
  <2>4. events' = events \/ \E e \in Events : e.type # "response" /\ events' = Append(events, e)
    BY <2>1, <2>3 DEF Post
  <2> QED BY <1>0, <2>2, <2>4, BetweenLink
<1> QED BY <1>1, <1>2, <1>3, <1>4, <1>5, <1>6, <1>7 DEF Worker

\* A step of the server or of the transport: what is at the server afterwards
\* was there before or, if the client's socket held a request, came from it.
LEMMA ServerLink == TypeInv /\ LinkInv /\ ServerSide => LinkInv'
<1> SUFFICES ASSUME TypeInv, LinkInv, ServerSide PROVE LinkInv'
  OBVIOUS
<1>0. SocketTypes /\ WorkerInv /\ AtServer \subseteq Sent /\ Nothing \notin Sent
  BY TypeParts, ServerFacts, NoRequest DEF TypeInv
<1>1. /\ UNCHANGED <<mainPc, pending, events, queue, workerPc, current, answers>>
      /\ Busy' = Busy /\ PendingIds' = PendingIds
  BY DEF ServerSide, Deliver, Take, ServerEnds, ServerStarts, Publish, guiVars, workerVars, Busy, PendingIds
<1>2. CASE Deliver
  <2>1. /\ outgoing # {} /\ inbound' = inbound \cup outgoing /\ outgoing' = {}
        /\ UNCHANGED serving /\ AtServer' = AtServer \cup outgoing
    BY <1>2 DEF Deliver, AtServer
  <2>2. /\ workerPc = "await" /\ Busy /\ answers = {}
        /\ \A s \in outgoing : s.open /\ s.request = current
        /\ \A s \in AtServer : ~s.open
    BY <2>1 DEF LinkInv, SocketInv, Busy
  <2>3. \A s, t \in outgoing : s = t
    <3>1. \A s, t \in Sent : s.open /\ t.open /\ s.request = t.request => s = t
      BY DEF Sent
    <3> QED BY <1>0, <2>2, <3>1 DEF SocketTypes
  <2>4. \A s \in AtServer : s.request.id # current.id
    BY <2>2 DEF LinkInv, NamesInv
  <2>5. \A s \in inbound : s \in AtServer
    BY DEF AtServer
  <2>6. serving # Nothing => serving \in AtServer
    BY DEF AtServer
  <2>7. NamesInv'
    <3>1. /\ \A i, j \in DOMAIN queue : queue[i].id = queue[j].id => i = j
          /\ \A i \in DOMAIN queue : queue[i].id # current.id
          /\ \A s \in AtServer, i \in DOMAIN queue : queue[i].id # s.request.id
          /\ \A s, t \in inbound : s.request.id = t.request.id => s = t
          /\ serving # Nothing => \A s \in inbound : s.request.id # serving.request.id
      BY <2>2 DEF LinkInv, NamesInv
    <3>2. \A s \in AtServer' : /\ \A i \in DOMAIN queue : queue[i].id # s.request.id
                               /\ ~s.open => s.request.id # current.id
      BY <2>1, <2>2, <2>4, <3>1
    <3>3. \A s, t \in inbound' : s.request.id = t.request.id => s = t
      BY <2>1, <2>2, <2>3, <2>4, <2>5, <3>1
    <3>4. serving # Nothing => \A s \in inbound' : s.request.id # serving.request.id
      BY <2>1, <2>2, <2>4, <2>6, <3>1
    <3> QED BY <1>1, <2>1, <2>2, <3>1, <3>2, <3>3, <3>4 DEF NamesInv
  <2>8. SocketInv'
    BY <1>1, <2>1, <2>2 DEF SocketInv
  <2>9. UpdaterInv'
    <3>1. \A r \in IdsOf(AtServer)' : r = current.id \/ r \in IdsOf(AtServer)
      BY <2>1, <2>2 DEF IdsOf
    <3> QED BY <1>1, <2>2, <3>1 DEF LinkInv, UpdaterInv
  <2> QED BY <2>7, <2>8, <2>9 DEF LinkInv
<1>3. ASSUME AtServer' \subseteq AtServer, UNCHANGED outgoing,
             \A s, t \in inbound' : s.request.id = t.request.id => s = t,
             serving' # Nothing => \A s \in inbound' : s.request.id # serving'.request.id
      PROVE  LinkInv'
  <2>1. NamesInv'
    BY <1>1, <1>3 DEF LinkInv, NamesInv
  <2>2. SocketInv'
    BY <1>1, <1>3 DEF LinkInv, SocketInv
  <2>3. \A r \in IdsOf(AtServer)' : r \in IdsOf(AtServer)
    BY <1>3 DEF IdsOf
  <2>4. UpdaterInv'
    BY <1>1, <2>3 DEF LinkInv, UpdaterInv
  <2> QED BY <2>1, <2>2, <2>4 DEF LinkInv
<1>n. /\ \A s, t \in inbound : s.request.id = t.request.id => s = t
      /\ serving # Nothing => \A s \in inbound : s.request.id # serving.request.id
  BY DEF LinkInv, NamesInv
<1>4. CASE Take
  <2>1. PICK s \in inbound : serving' = s /\ inbound' = inbound \ {s}
    BY <1>4 DEF Take
  <2>2. serving = Nothing /\ UNCHANGED outgoing
    BY <1>4 DEF Take
  <2>3. AtServer' \subseteq AtServer
    BY <2>1 DEF AtServer
  <2>4. \A u, t \in inbound' : u.request.id = t.request.id => u = t
    BY <1>n, <2>1
  <2>5. \A u \in inbound' : u.request.id # serving'.request.id
    BY <1>n, <2>1
  <2> QED BY <1>3, <2>2, <2>3, <2>4, <2>5
<1>5. CASE ServerEnds
  BY <1>3, <1>5 DEF ServerEnds, AtServer
<1>6. CASE ServerStarts \/ Publish
  <2>1. UNCHANGED <<outgoing, inbound, serving>>
    BY <1>6 DEF ServerStarts, Publish, serverVars
  <2> QED BY <1>n, <1>3, <2>1 DEF AtServer
<1> QED BY <1>2, <1>4, <1>5, <1>6 DEF ServerSide

\* The server carries a command out and answers.
LEMMA ServeLink == TypeInv /\ LinkInv /\ (\E status \in Outcomes : Serve(status)) => LinkInv'
<1> SUFFICES ASSUME TypeInv, LinkInv, NEW status \in Outcomes, Serve(status) PROVE LinkInv'
  OBVIOUS
<1>0. SocketTypes /\ AtServer \subseteq Sent /\ Nothing \notin Sent
  BY TypeParts, ServerFacts, NoRequest DEF TypeInv
<1>1. /\ UNCHANGED <<mainPc, pending, events, queue, workerPc, current, outgoing, inbound>>
      /\ serving # Nothing /\ serving' = Nothing
      /\ answers' = IF serving.open
                    THEN answers \cup {[to |-> serving.request, status |-> status]}
                    ELSE answers
  BY DEF Serve, AnswerRequest, guiVars, workerVars
<1>2. /\ Busy' = Busy /\ PendingIds' = PendingIds /\ AtServer' = inbound
      /\ AtServer = inbound \cup {serving}
  BY <1>1 DEF Busy, PendingIds, AtServer
<1>n. /\ \A s, t \in inbound : s.request.id = t.request.id => s = t
      /\ \A s \in inbound : s.request.id # serving.request.id
  BY <1>1 DEF LinkInv, NamesInv
<1>3. NamesInv'
  BY <1>1, <1>2, <1>n DEF LinkInv, NamesInv
<1>4. SocketInv'
  <2>1. CASE serving.open
    <3>1. workerPc = "await" /\ serving.request = current /\ outgoing = {} /\ answers = {}
      BY <1>2, <2>1 DEF LinkInv, SocketInv
    <3>2. \A s \in inbound : ~s.open
      <4>1. \A s \in inbound : s.open => s.request = current
        BY <1>2 DEF LinkInv, SocketInv
      <4> QED BY <1>n, <3>1, <4>1
    <3>3. \A a \in answers' : a = [to |-> current, status |-> status]
      BY <1>1, <2>1, <3>1
    <3> QED BY <1>1, <1>2, <3>1, <3>2, <3>3 DEF SocketInv
  <2>2. CASE ~serving.open
    BY <1>1, <1>2, <2>2 DEF LinkInv, SocketInv
  <2> QED BY <2>1, <2>2
<1>5. \A r \in IdsOf(AtServer)' : r \in IdsOf(AtServer)
  BY <1>2 DEF IdsOf
<1>6. UpdaterInv'
  BY <1>1, <1>2, <1>5 DEF LinkInv, UpdaterInv
<1> QED BY <1>3, <1>4, <1>6 DEF LinkInv

\* Every step keeps the names apart.
LEMMA NextLink == TypeInv /\ LinkInv /\ [Next]_vars => LinkInv'
<1> SUFFICES ASSUME TypeInv, LinkInv, [Next]_vars PROVE LinkInv'
  OBVIOUS
<1>1. CASE UNCHANGED vars
  <2>1. UNCHANGED <<mainPc, pending, events, queue, workerPc, current, outgoing, inbound, serving, answers>>
    BY <1>1 DEF vars, linkVars, guiVars, workerVars, serverVars
  <2> QED BY <2>1 DEF LinkInv, NamesInv, SocketInv, UpdaterInv, Busy, AtServer, PendingIds, IdsOf
<1> QED BY <1>1, MainLink, WorkerLink, ServerLink, ServeLink DEF Next, Ended

\* Of the requests of the GUI no two have the same name, whatever of them is
\* in the queue, at the worker, in a socket, at the server or in an event; what
\* is on the client's socket is of the request the worker awaits the answer to;
\* and Updater knows every request whose result it has not seen.
THEOREM NamesApart == Spec => [](TypeInv /\ LinkInv)
<1>1. PanelInit => TypeInv /\ LinkInv
  BY InitTypes, InitLink
<1>2. TypeInv /\ LinkInv /\ [Next]_vars => (TypeInv /\ LinkInv)'
  BY NextTypes, NextLink
<1> QED BY <1>1, <1>2, PTL DEF Spec

-----------------------------------------------------------------------------
(* What the motor panel shows.                                             *)

\* The panel's requests in the queue, and its responses that are on their way.
PanelQueued  == {i \in DOMAIN queue : OfPanel(queue[i])}
PanelTaken   == Busy /\ OfPanel(current)
PanelAnswers == {i \in Responses(events) : \E p \in pending : p.consumer /\ p.id = events[i].id}

\* A request of the panel failed, or it will learn so.
Sick == failed \/ \E i \in PanelAnswers : events[i].result # "ok"

\* The slot and the selected motor fit the command, as the last one given.
Meant(c) ==
  IF c.kind = "change" THEN slot = "change" ELSE slot # "change" /\ c.motor = selected

\* Only after a failure the server has a request of the panel that was given
\* up.  Otherwise the last request of the panel that is under way, wherever it
\* is, decides what the panel will show.
ClosedInv == \A s \in AtServer : ~s.open /\ OfPanel(s.request) => Sick

QueuedInv ==
  \A i \in PanelQueued : (\A j \in PanelQueued : j <= i) => Meant(queue[i].command)

TakenInv ==
  PanelQueued = {} /\ PanelTaken =>
    /\ Meant(current.command)
    /\ changed /\ current.command.kind # "change" => \A a \in answers : a.status # "ok"

AnsweredInv ==
  PanelQueued = {} /\ ~PanelTaken =>
    \A i \in PanelAnswers : (\A j \in PanelAnswers : j <= i) =>
      IF slot = "change" THEN events[i].payload = "none"
      ELSE events[i].payload = selected /\ ~changed

ShownInv ==
  selected # "none" /\ (\A p \in pending : ~p.consumer) => shown = selected /\ ~changed

PanelInv ==
  mainPc = "loop" =>
    ClosedInv /\ (~Sick => QueuedInv /\ TakenInv /\ AnsweredInv /\ ShownInv)

\* Nothing happens to the responses for the panel, but that those before them
\* are handled.
SameAnswers ==
  \E k \in {0, 1} :
    /\ \A i \in PanelAnswers' : i + k \in PanelAnswers /\ events'[i] = events[i + k]
    /\ \A j \in PanelAnswers : j - k \in PanelAnswers'

\* Places in the event queue and in the queue of the worker are numbers.
LEMMA AnswerNumbers == TypeInv => PanelAnswers \subseteq Nat /\ DOMAIN queue \subseteq Nat
BY FewAhead, LenProperties DEF TypeInv, GuiTypeOK, PanelAnswers

\* The panel has as much to learn of a failure as long as its responses stay.
LEMMA SameSick ==
    ASSUME PanelAnswers \subseteq Nat, PanelAnswers' \subseteq Nat, SameAnswers, failed' = failed
    PROVE  Sick' <=> Sick
<1>1. PICK k \in {0, 1} :
        /\ \A i \in PanelAnswers' : i + k \in PanelAnswers /\ events'[i] = events[i + k]
        /\ \A j \in PanelAnswers : j - k \in PanelAnswers'
  BY DEF SameAnswers
<1>2. ASSUME NEW i \in PanelAnswers', events'[i].result # "ok"
      PROVE  \E j \in PanelAnswers : events[j].result # "ok"
  BY <1>1, <1>2
<1>3. ASSUME NEW j \in PanelAnswers, events[j].result # "ok"
      PROVE  \E i \in PanelAnswers' : events'[i].result # "ok"
  <2>1. j - k \in PanelAnswers' /\ (j - k) + k = j
    BY <1>1
  <2> QED BY <1>1, <1>3, <2>1
<1> QED BY <1>2, <1>3 DEF Sick

\* What the responses on their way tell holds as long as they stay.
LEMMA SameAnswered ==
    ASSUME PanelAnswers \subseteq Nat, PanelAnswers' \subseteq Nat, SameAnswers, AnsweredInv,
           UNCHANGED <<slot, selected, changed>>,
           PanelQueued' = {} /\ ~PanelTaken' => PanelQueued = {} /\ ~PanelTaken
    PROVE  AnsweredInv'
<1>1. PICK k \in {0, 1} :
        /\ \A i \in PanelAnswers' : i + k \in PanelAnswers /\ events'[i] = events[i + k]
        /\ \A j \in PanelAnswers : j - k \in PanelAnswers'
  BY DEF SameAnswers
<1> SUFFICES ASSUME PanelQueued' = {} /\ ~PanelTaken', NEW i \in PanelAnswers',
                    \A j \in PanelAnswers' : j <= i
             PROVE  IF slot = "change" THEN events'[i].payload = "none"
                    ELSE events'[i].payload = selected /\ ~changed
  BY DEF AnsweredInv
<1>2. i + k \in PanelAnswers /\ events'[i] = events[i + k]
  BY <1>1
<1>3. \A j \in PanelAnswers : j <= i + k
  BY <1>1
<1> QED BY <1>2, <1>3 DEF AnsweredInv

\* A command of the panel is given that fits the slot and the selected motor.
LEMMA SendPanel ==
    ASSUME TypeInv, LinkInv, PanelInv,
           NEW cs \in Seq(Commands), NEW from \in SUBSET pending, NEW free \in SUBSET Ids,
           Sends(cs, from, free), Len(cs) # 0, cs[Len(cs)].kind # "other",
           IF cs[Len(cs)].kind = "change" THEN slot' = "change"
           ELSE slot' # "change" /\ cs[Len(cs)].motor = selected',
           AtServer = {} \/ (Sick => Sick')
    PROVE  PanelInv'
<1>0. WorkTypes
  BY TypeParts DEF TypeInv
<1>1. /\ mainPc = "loop" /\ mainPc' = "loop" /\ AtServer' = AtServer /\ SendCommands(cs, from, free)
  BY DEF Sends, serverVars, AtServer
<1>2. PICK ids \in [1..Len(cs) -> free] : Batch(cs, from, ids)
  BY <1>0, <1>1, SendFacts DEF WorkTypes
<1> DEFINE n == Len(queue')
           last == Len(cs)
<1>3. /\ last \in 1..Len(cs) /\ Len(queue) \in Nat /\ n = Len(queue) + last /\ n \in Nat
      /\ DOMAIN queue' = 1..n /\ n \in DOMAIN queue'
  <2>1. Len(cs) \in Nat /\ Len(queue) \in Nat /\ queue' \in Seq(Requests) /\ n = Len(queue) + last
    BY <1>0, <1>2, LenProperties DEF Batch, WorkTypes
  <2> QED BY <2>1, LenProperties
<1>4. queue'[n].command = cs[last]
  <2>1. \A i \in 1..last : queue'[Len(queue) + i] = [id |-> ids[i], command |-> cs[i]]
    BY <1>2 DEF Batch
  <2> HIDE DEF n, last
  <2>2. last \in 1..last /\ n = Len(queue) + last
    BY <1>3 DEF last
  <2>3. queue'[n] = [id |-> ids[last], command |-> cs[last]]
    BY <2>1, <2>2
  <2> QED BY <2>3
<1>5. n \in PanelQueued'
  BY <1>3, <1>4 DEF PanelQueued, OfPanel
<1>6. ClosedInv'
  BY <1>1 DEF PanelInv, ClosedInv
<1>7. QueuedInv'
  <2> SUFFICES ASSUME NEW i \in PanelQueued', \A j \in PanelQueued' : j <= i
               PROVE  Meant(queue[i].command)'
    BY DEF QueuedInv
  <2>1. i = n
    BY <1>3, <1>5 DEF PanelQueued
  <2>2. (queue[i].command)' = cs[last]
    BY <1>4, <2>1
  <2> QED BY <2>2 DEF Meant
<1>8. TakenInv' /\ AnsweredInv'
  BY <1>5 DEF TakenInv, AnsweredInv
<1>9. ShownInv'
  <2>1. EntryOf(ids[last], cs[last]) \in pending' /\ ids[last] \in Ids
    BY <1>2, <1>3 DEF Batch
  <2>2. EntryOf(ids[last], cs[last]).consumer
    BY <2>1, EntryFacts
  <2> QED BY <2>1, <2>2 DEF ShownInv
<1> QED BY <1>6, <1>7, <1>8, <1>9 DEF PanelInv

\* A step that is nothing to the panel's requests.
LEMMA QuietPanel ==
    ASSUME TypeInv, TypeInv', PanelInv, mainPc' = mainPc, SameAnswers,
           mainPc = "loop" => \A s \in AtServer' : ~s.open /\ OfPanel(s.request) => Sick,
           PanelQueued' = PanelQueued, \A i \in PanelQueued : queue'[i] = queue[i],
           PanelTaken' <=> PanelTaken, PanelTaken => UNCHANGED <<current, answers>>,
           UNCHANGED <<selected, slot, shown, changed, failed>>,
           (\A p \in pending' : ~p.consumer) => \A p \in pending : ~p.consumer
    PROVE  PanelInv'
<1> SUFFICES ASSUME mainPc = "loop"
             PROVE  ClosedInv' /\ (~Sick' => QueuedInv' /\ TakenInv' /\ AnsweredInv' /\ ShownInv')
  BY DEF PanelInv
<1>1. PanelAnswers \subseteq Nat /\ PanelAnswers' \subseteq Nat
  <2>1. events \in Seq(Events) /\ events' \in Seq(Events)
    BY DEF TypeInv, GuiTypeOK
  <2>2. Responses(events) \subseteq Nat /\ Responses(events') \subseteq Nat
    BY <2>1, FewAhead
  <2> QED BY <2>2 DEF PanelAnswers
<1>2. Sick' <=> Sick
  BY <1>1, SameSick
<1>3. ClosedInv'
  BY <1>2 DEF ClosedInv
<1>4. ASSUME ~Sick PROVE QueuedInv' /\ TakenInv' /\ AnsweredInv' /\ ShownInv'
  <2>1. QueuedInv /\ TakenInv /\ AnsweredInv /\ ShownInv
    BY <1>4 DEF PanelInv
  <2>2. QueuedInv'
    BY <2>1 DEF QueuedInv, Meant
  <2>3. TakenInv'
    BY <2>1 DEF TakenInv, Meant
  <2>4. AnsweredInv'
    BY <1>1, <2>1, SameAnswered
  <2>5. ShownInv'
    BY <2>1 DEF ShownInv
  <2> QED BY <2>2, <2>3, <2>4, <2>5
<1> QED BY <1>2, <1>3, <1>4

\* The responses for the panel stay if the events stay, or if the head is none
\* of them.
LEMMA StayAnswers ==
    ASSUME TypeInv, events' = events,
           \A r \in Ids : (\E p \in pending' : p.consumer /\ p.id = r) <=>
                          (\E p \in pending : p.consumer /\ p.id = r)
    PROVE  SameAnswers /\ PanelAnswers' = PanelAnswers
<1>1. \A i \in Responses(events) : events[i].id \in Ids /\ i \in Nat
  <2>1. events \in Seq(Events)
    BY DEF TypeInv, GuiTypeOK
  <2>2. \A i \in Responses(events) : events[i] \in Events
    BY <2>1, FewAhead, ElementOfSeq
  <2> QED BY <2>1, <2>2, FewAhead, EventFacts DEF Responses
<1>2. PanelAnswers' = PanelAnswers /\ \A i \in PanelAnswers : i \in Nat
  BY <1>1 DEF PanelAnswers
<1>3. \A i \in PanelAnswers : i + 0 \in PanelAnswers /\ i - 0 \in PanelAnswers /\ events'[i] = events[i + 0]
  BY <1>2
<1> QED BY <1>2, <1>3 DEF SameAnswers

\* Without the head of the events the responses are one place further ahead.
LEMMA BackResponses ==
    ASSUME events \in Seq(Events), events # <<>>, events' = Tail(events)
    PROVE  /\ \A i \in Responses(events') :
                i \in Nat /\ i + 1 \in Responses(events) /\ i + 1 # 1 /\ events'[i] = events[i + 1]
           /\ \A i \in Responses(events) : i # 1 =>
                i - 1 \in Responses(events') /\ events'[i - 1] = events[i]
           /\ 1 \in Responses(events) <=> Head(events).type = "response"
           /\ events[1] = Head(events)
<1>1. Len(events) \in Nat \ {0} /\ DOMAIN events = 1..Len(events) /\ Head(events) = events[1]
  BY LenProperties, EmptySeq
<1>2. /\ Tail(events) \in Seq(Events) /\ Len(Tail(events)) = Len(events) - 1
      /\ \A i \in 1..Len(Tail(events)) : Tail(events)[i] = events[i + 1]
  BY HeadTailProperties
<1>3. DOMAIN Tail(events) = 1..(Len(events) - 1)
  BY <1>2, LenProperties
<1>4. ASSUME NEW i \in Responses(events), i # 1
      PROVE  i - 1 \in Responses(events') /\ events'[i - 1] = events[i]
  <2>1. i - 1 \in 1..(Len(events) - 1) /\ (i - 1) + 1 = i
    BY <1>1, <1>4 DEF Responses
  <2> QED BY <1>2, <1>3, <1>4, <2>1 DEF Responses
<1>5. ASSUME NEW i \in Responses(events')
      PROVE  i \in Nat /\ i + 1 \in Responses(events) /\ i + 1 # 1 /\ events'[i] = events[i + 1]
  <2>1. i \in 1..(Len(events) - 1)
    BY <1>3, <1>5 DEF Responses
  <2> QED BY <1>1, <1>2, <1>3, <1>5, <2>1 DEF Responses
<1> QED BY <1>1, <1>4, <1>5 DEF Responses

\* Without a head that is none of them, the responses for the panel stay.
LEMMA TailAnswers ==
    ASSUME TypeInv, events # <<>>, events' = Tail(events), 1 \notin PanelAnswers,
           \A i \in Responses(events) : i # 1 =>
             ((\E p \in pending' : p.consumer /\ p.id = events[i].id) <=>
              (\E p \in pending : p.consumer /\ p.id = events[i].id))
    PROVE  SameAnswers
<1>1. /\ \A i \in Responses(events') :
                i \in Nat /\ i + 1 \in Responses(events) /\ i + 1 # 1 /\ events'[i] = events[i + 1]
      /\ \A i \in Responses(events) : i # 1 =>
                i - 1 \in Responses(events') /\ events'[i - 1] = events[i]
  BY BackResponses DEF TypeInv, GuiTypeOK
<1>2. ASSUME NEW i \in PanelAnswers' PROVE i + 1 \in PanelAnswers /\ events'[i] = events[i + 1]
  <2>1. i + 1 \in Responses(events) /\ i + 1 # 1 /\ events'[i] = events[i + 1]
    BY <1>1 DEF PanelAnswers
  <2>2. \E p \in pending' : p.consumer /\ p.id = events[i + 1].id
    BY <2>1 DEF PanelAnswers
  <2> QED BY <2>1, <2>2 DEF PanelAnswers
<1>3. ASSUME NEW i \in PanelAnswers PROVE i - 1 \in PanelAnswers'
  <2>1. i - 1 \in Responses(events') /\ events'[i - 1] = events[i]
    BY <1>1 DEF PanelAnswers
  <2>2. \E p \in pending' : p.consumer /\ p.id = events[i].id
    BY DEF PanelAnswers
  <2>3. \E p \in pending' : p.consumer /\ p.id = events'[i - 1].id
    BY <2>1, <2>2
  <2> QED BY <2>1, <2>3 DEF PanelAnswers
<1> QED BY <1>2, <1>3 DEF SameAnswers

\* A batch of no commands.
LEMMA SendsNone ==
    ASSUME TypeInv, NEW from \in SUBSET pending, NEW free \in SUBSET Ids, Sends(<<>>, from, free)
    PROVE  /\ pending' = from /\ queue' = queue
           /\ mainPc = "loop" /\ UNCHANGED <<mainPc, workerVars, outgoing, serverVars, answers>>
<1>1. <<>> \in Seq(Commands) /\ Len(<<>>) = 0
  BY Batches
<1>2. PICK ids \in [1..Len(<<>>) -> free] : Batch(<<>>, from, ids)
  BY <1>1, SendFacts DEF Sends, TypeInv, GuiTypeOK
<1>3. /\ from \subseteq pending' /\ queue' \in Seq(Requests) /\ Len(queue') = Len(queue) + 0
      /\ \A i \in 1..Len(queue) : queue'[i] = queue[i]
      /\ \A p \in pending' : p \in from
  BY <1>1, <1>2 DEF Batch
<1>4. queue \in Seq(Requests) /\ Len(queue) \in Nat
  BY LenProperties DEF TypeInv, GuiTypeOK
<1>5. queue' = queue
  BY <1>3, <1>4, SeqEqual
<1>6. pending' = from
  BY <1>3
<1> QED BY <1>5, <1>6 DEF Sends

\* What is known stays known, but for a request that is answered.
LEMMA SendsMore ==
    ASSUME TypeInv, NEW cs \in Seq(Commands), NEW from \in SUBSET pending,
           NEW free \in SUBSET Ids, Sends(cs, from, free)
    PROVE  /\ from \subseteq pending'
           /\ \A p \in pending' : p \in from \/ (p.consumer => \E i \in 1..Len(cs) : cs[i].kind # "other")
<1>1. PICK ids \in [1..Len(cs) -> free] : Batch(cs, from, ids)
  BY SendFacts DEF Sends, TypeInv, GuiTypeOK
<1>2. \A i \in 1..Len(cs) : ids[i] \in Ids
  OBVIOUS
<1>3. from \subseteq pending'
  BY <1>1 DEF Batch
<1>4. ASSUME NEW p \in pending', p \notin from, p.consumer
      PROVE  \E i \in 1..Len(cs) : cs[i].kind # "other"
  <2>1. PICK i \in 1..Len(cs) : p = EntryOf(ids[i], cs[i])
    BY <1>1, <1>4 DEF Batch
  <2> QED BY <1>2, <1>4, <2>1, EntryFacts
<1> QED BY <1>3, <1>4

\* A request of the panel, as one of its widgets emits it.
LEMMA RequestPanel ==
    ASSUME TypeInv, LinkInv, PanelInv,
           NEW cs \in Seq(Commands), Len(cs) # 0, Request(cs),
           cs[Len(cs)].kind # "other",
           cs[Len(cs)].kind # "change" => cs[Len(cs)].motor = selected'
    PROVE  PanelInv'
<1>1. /\ Operate(cs, 0) /\ slot' = cs[Len(cs)].kind /\ failed' = (failed /\ ~Idle)
  BY DEF Request
<1>2. Sends(cs, pending, FreeIds) /\ events' = events
  BY <1>1, OperateSends
<1>3. FreeIds \in SUBSET Ids /\ pending \in SUBSET pending
  BY DEF FreeIds
<1>4. pending \subseteq pending'
  BY <1>2, <1>3, SendsMore
<1>5. AtServer = {} \/ (Sick => Sick')
  <2>1. CASE Idle
    BY <2>1 DEF Idle
  <2>2. CASE ~Idle
    <3>1. failed => failed'
      BY <1>1, <2>2
    <3>2. \A i \in PanelAnswers : i \in PanelAnswers' /\ events'[i] = events[i]
      BY <1>2, <1>4 DEF PanelAnswers
    <3> QED BY <3>1, <3>2 DEF Sick
  <2> QED BY <2>1, <2>2
<1>6. IF cs[Len(cs)].kind = "change" THEN slot' = "change"
      ELSE slot' # "change" /\ cs[Len(cs)].motor = selected'
  BY <1>1
<1> QED BY <1>2, <1>3, <1>5, <1>6, SendPanel

\* A command of another widget.
LEMMA OtherPanel ==
    ASSUME TypeInv, TypeInv', LinkInv, PanelInv, OtherCommand
    PROVE  PanelInv'
<1> DEFINE cs == <<[kind |-> "other"]>>
<1>1. cs \in Seq(Commands) /\ Len(cs) = 1 /\ cs[1].kind = "other"
  BY CommandFacts, Batches
<1>2. Operate(cs, 1) /\ UNCHANGED <<controls, panelOpen, selected, slot, shown, changed, failed>>
  BY DEF OtherCommand, widgets, panelVars
<1> HIDE DEF cs
<1>3. Sends(cs, pending, FreeIds) /\ events' = events
  BY <1>1, <1>2, OperateSends
<1>4. FreeIds \in SUBSET Ids /\ pending \in SUBSET pending
  BY DEF FreeIds
<1>5. pending \subseteq pending' /\ \A p \in pending' : p.consumer => p \in pending
  <2>1. \A i \in 1..Len(cs) : cs[i].kind = "other"
    BY <1>1
  <2> QED BY <1>1, <1>3, <1>4, <2>1, SendsMore
<1>6. SameAnswers
  BY <1>3, <1>5, StayAnswers
<1>7. /\ mainPc' = mainPc /\ AtServer' = AtServer /\ UNCHANGED <<workerPc, current, answers>>
      /\ mainPc = "loop"
  BY <1>3 DEF Sends, workerVars, serverVars, AtServer
<1>8. PanelQueued' = PanelQueued /\ \A i \in PanelQueued : queue'[i] = queue[i]
  <2>1. PICK ids \in [1..Len(cs) -> FreeIds] : Batch(cs, pending, ids)
    BY <1>1, <1>3, <1>4, SendFacts DEF Sends, TypeInv, GuiTypeOK
  <2>2. Len(queue) \in Nat /\ DOMAIN queue = 1..Len(queue)
    BY LenProperties DEF TypeInv, GuiTypeOK
  <2>3. queue' \in Seq(Requests) /\ Len(queue') = Len(queue) + 1
        /\ (\A i \in 1..Len(queue) : queue'[i] = queue[i])
        /\ queue'[Len(queue) + 1].command.kind = "other"
    BY <1>1, <2>1 DEF Batch
  <2>4. DOMAIN queue' = 1..(Len(queue) + 1)
    BY <2>3, LenProperties
  <2> QED BY <2>2, <2>3, <2>4 DEF PanelQueued, OfPanel
<1>9. PanelTaken' <=> PanelTaken
  BY <1>7 DEF PanelTaken, Busy, OfPanel
<1>10. mainPc = "loop" => \A s \in AtServer' : ~s.open /\ OfPanel(s.request) => Sick
  BY <1>7 DEF PanelInv, ClosedInv
<1>11. (\A p \in pending' : ~p.consumer) => \A p \in pending : ~p.consumer
  BY <1>5
<1> QED BY <1>2, <1>6, <1>7, <1>8, <1>9, <1>10, <1>11, QuietPanel

\* Nothing that the panel depends on changes.
LEMMA SamePanel ==
    ASSUME TypeInv, TypeInv', PanelInv, Busy' <=> Busy,
           UNCHANGED <<mainPc, pending, events, queue, inbound, serving, answers>>,
           Busy => current' = current,
           UNCHANGED <<selected, slot, shown, changed, failed>>
    PROVE  PanelInv'
<1>1. SameAnswers
  BY StayAnswers
<1>2. /\ PanelQueued' = PanelQueued /\ AtServer' = AtServer
      /\ PanelTaken' <=> PanelTaken
      /\ PanelTaken => UNCHANGED <<current, answers>>
  BY DEF PanelQueued, AtServer, PanelTaken, OfPanel
<1>3. mainPc = "loop" => \A s \in AtServer' : ~s.open /\ OfPanel(s.request) => Sick
  BY <1>2 DEF PanelInv, ClosedInv
<1> QED BY <1>1, <1>2, <1>3, QuietPanel

\* The operator's steps: a new request of the panel fits what it means.
LEMMA OperatorPanel == TypeInv /\ TypeInv' /\ LinkInv /\ PanelInv /\ Operator => PanelInv'
<1> SUFFICES ASSUME TypeInv, TypeInv', LinkInv, PanelInv, Operator PROVE PanelInv'
  OBVIOUS
<1>1. CASE OpenPanel
  <2>1. /\ UNCHANGED <<mainPc, pending, events, queue, workerPc, current, inbound, serving, answers>>
        /\ UNCHANGED <<selected, slot, shown, changed, failed>>
    BY <1>1 DEF OpenPanel, linkVars, guiVars, workerVars, serverVars
  <2> QED BY <2>1, SamePanel DEF Busy
<1>2. ASSUME NEW kind \in {"diagnostics", "change"}, PressButton(kind) PROVE PanelInv'
  <2> DEFINE cs == <<MotorCommand(kind, selected)>>
  <2>1. selected \in Motors /\ selected' = selected /\ Request(cs)
    BY <1>2 DEF PressButton, TypeInv, GuiTypeOK
  <2>2. /\ cs \in Seq(Commands) /\ Len(cs) = 1 /\ cs[1] = MotorCommand(kind, selected)
        /\ cs[1].kind # "other" /\ cs[1].motor = selected
    BY <2>1, CommandFacts, Batches
  <2> HIDE DEF cs
  <2>3. /\ Len(cs) # 0 /\ cs[Len(cs)].kind # "other"
        /\ cs[Len(cs)].motor = selected'
    BY <2>1, <2>2
  <2> QED BY <2>1, <2>2, <2>3, RequestPanel
<1>3. ASSUME NEW m \in Motors, NEW times \in 1..2, ChooseMotor(m, times) PROVE PanelInv'
  <2> DEFINE cs == [i \in 1..times |-> Diagnostics(m)]
  <2>1. cs \in Seq(Commands) /\ Len(cs) = times /\ times \in Nat /\ \A i \in 1..times : cs[i] = Diagnostics(m)
    BY Batches
  <2>2. selected' = m /\ Request(cs)
    BY <1>3 DEF ChooseMotor
  <2>3. Diagnostics(m).kind = "diagnostics" /\ Diagnostics(m).motor = m
    BY CommandFacts
  <2> HIDE DEF cs
  <2>4. times \in 1..times
    OBVIOUS
  <2>5. /\ Len(cs) # 0 /\ cs[Len(cs)].kind # "other"
        /\ cs[Len(cs)].motor = selected'
    BY <2>1, <2>2, <2>3, <2>4
  <2> QED BY <2>1, <2>2, <2>5, RequestPanel
<1>4. CASE OtherCommand
  BY <1>4, OtherPanel
<1>5. CASE CloseWindow
  BY <1>5 DEF CloseWindow, Stop, PanelInv
<1> QED
  BY <1>1, <1>2, <1>3, <1>4, <1>5
  DEF Operator, PressResetControl, AnswerToolChanger, RefreshContec

\* A failure is not forgotten when the head of the events is handled.
LEMMA StillSick ==
    ASSUME TypeInv, events # <<>>, events' = Tail(events), failed => failed',
           \A i \in PanelAnswers : i # 1 => \E p \in pending' : p.consumer /\ p.id = events[i].id,
           1 \in PanelAnswers /\ events[1].result # "ok" => failed'
    PROVE  Sick => Sick'
<1>1. \A i \in Responses(events) : i # 1 =>
        i - 1 \in Responses(events') /\ events'[i - 1] = events[i]
  BY BackResponses DEF TypeInv, GuiTypeOK
<1>2. ASSUME NEW i \in PanelAnswers, events[i].result # "ok" PROVE Sick'
  <2>1. CASE i = 1
    BY <1>2, <2>1 DEF Sick
  <2>2. CASE i # 1
    <3>1. i - 1 \in Responses(events') /\ events'[i - 1] = events[i]
      BY <1>1, <2>2 DEF PanelAnswers
    <3>2. \E p \in pending' : p.consumer /\ p.id = events'[i - 1].id
      BY <2>2, <3>1
    <3>3. i - 1 \in PanelAnswers' /\ events'[i - 1].result # "ok"
      BY <1>2, <3>1, <3>2 DEF PanelAnswers
    <3> QED BY <3>3 DEF Sick
  <2> QED BY <2>1, <2>2
<1> QED BY <1>2 DEF Sick

\* The events of the link, but for responses.
LEMMA NoticePanel ==
    TypeInv /\ TypeInv' /\ LinkInv /\ PanelInv /\ (ShowStatus \/ ShowLoss) => PanelInv'
<1> SUFFICES ASSUME TypeInv, TypeInv', LinkInv, PanelInv, ShowStatus \/ ShowLoss PROVE PanelInv'
  OBVIOUS
<1>0. FreeIds \in SUBSET Ids /\ pending \in SUBSET pending
  BY DEF FreeIds
<1>1. 1 \notin PanelAnswers
  <2>1. events # <<>> /\ events \in Seq(Events) /\ Head(events).type # "response"
        /\ events' = Tail(events)
    BY DEF ShowStatus, ShowLoss, HandleStatus, HandleLost, TypeInv, GuiTypeOK
  <2>2. 1 \notin Responses(events)
    BY <2>1, BackResponses
  <2> QED BY <2>2 DEF PanelAnswers
<1>2. CASE ShowStatus /\ panelOpen /\ selected = "none" /\ Motors # {}
  <2> DEFINE cs == <<Diagnostics(FirstMotor)>>
  <2>1. /\ HandleStatus(cs) /\ selected' = FirstMotor /\ slot' = "diagnostics"
        /\ failed' = (failed /\ ~Idle)
    BY <1>2 DEF ShowStatus
  <2>2. cs \in Seq(Commands) /\ Len(cs) = 1 /\ cs[1].kind = "diagnostics" /\ cs[1].motor = FirstMotor
    BY <1>2, CommandFacts, Batches DEF FirstMotor
  <2> HIDE DEF cs
  <2>3. Sends(cs, pending, FreeIds) /\ events # <<>> /\ events' = Tail(events)
    BY <2>1, <2>2, StatusSends
  <2>4. AtServer = {} \/ (Sick => Sick')
    <3>1. CASE Idle
      BY <3>1 DEF Idle
    <3>2. CASE ~Idle
      <4>1. pending \subseteq pending'
        BY <1>0, <2>2, <2>3, SendsMore
      <4>2. \A i \in PanelAnswers : i # 1 => \E p \in pending' : p.consumer /\ p.id = events[i].id
        BY <4>1 DEF PanelAnswers
      <4>3. failed => failed'
        BY <2>1, <3>2
      <4> QED BY <1>1, <2>3, <4>2, <4>3, StillSick
    <3> QED BY <3>1, <3>2
  <2>5. /\ Len(cs) # 0 /\ cs[Len(cs)].kind # "other"
        /\ IF cs[Len(cs)].kind = "change" THEN slot' = "change"
           ELSE slot' # "change" /\ cs[Len(cs)].motor = selected'
    BY <2>1, <2>2
  <2> QED BY <1>0, <2>2, <2>3, <2>4, <2>5, SendPanel
<1>3. CASE ShowLoss \/ (ShowStatus /\ ~(panelOpen /\ selected = "none" /\ Motors # {}))
  <2>1. /\ UNCHANGED <<mainPc, pending, queue, workerPc, current, inbound, serving, answers>>
        /\ UNCHANGED <<selected, slot, shown, changed, failed>>
        /\ events # <<>> /\ events' = Tail(events)
    <3>1. CASE ShowLoss
      BY <3>1 DEF ShowLoss, HandleLost, workerVars, serverVars, panelVars
    <3>2. CASE ShowStatus /\ ~(panelOpen /\ selected = "none" /\ Motors # {})
      <4>1. HandleStatus(<<>>) /\ UNCHANGED <<selected, slot, shown, changed, failed>>
        BY <3>2 DEF ShowStatus, panelVars
      <4>2. Sends(<<>>, pending, FreeIds) /\ events # <<>> /\ events' = Tail(events)
        BY <4>1, Batches, StatusSends
      <4>3. /\ pending' = pending /\ queue' = queue
            /\ UNCHANGED <<mainPc, workerVars, outgoing, serverVars, answers>>
        BY <1>0, <4>2, SendsNone
      <4> QED BY <4>1, <4>2, <4>3 DEF workerVars, serverVars
    <3> QED BY <1>3, <3>1, <3>2
  <2>2. SameAnswers
    BY <1>1, <2>1, TailAnswers
  <2>3. /\ PanelQueued' = PanelQueued /\ AtServer' = AtServer /\ PanelTaken' = PanelTaken
    BY <2>1 DEF PanelQueued, AtServer, PanelTaken, Busy, OfPanel
  <2>4. mainPc = "loop" => \A s \in AtServer' : ~s.open /\ OfPanel(s.request) => Sick
    BY <2>3 DEF PanelInv, ClosedInv
  <2> QED BY <2>1, <2>2, <2>3, <2>4, QuietPanel
<1> QED BY <1>2, <1>3

\* A response is handled: the other responses for the panel stay.
LEMMA OtherAnswers ==
    ASSUME TypeInv, LinkInv, mainPc = "loop", events # <<>>, Head(events).type = "response",
           NEW p \in pending, p.id = Head(events).id
    PROVE  /\ 1 \in Responses(events) /\ events[1] = Head(events)
           /\ 1 \in PanelAnswers <=> p.consumer
           /\ \A i \in Responses(events), q \in pending : i # 1 /\ q.id = events[i].id => q # p
           /\ \A i \in DOMAIN queue : Entry(queue[i]) \in pending \ {p}
           /\ Busy => Entry(current) \in pending \ {p}
<1>1. 1 \in Responses(events) /\ events[1] = Head(events)
  <2>1. events \in Seq(Events)
    BY DEF TypeInv, GuiTypeOK
  <2>2. Len(events) \in Nat \ {0} /\ DOMAIN events = 1..Len(events) /\ Head(events) = events[1]
    BY <2>1, LenProperties, EmptySeq
  <2> QED BY <2>2 DEF Responses
<1>2. 1 \in PanelAnswers <=> p.consumer
  <2>1. \A q \in pending : q.id = p.id => q = p
    BY DEF LinkInv, UpdaterInv
  <2> QED BY <1>1, <2>1 DEF PanelAnswers
<1>3. \A i \in Responses(events), q \in pending : i # 1 /\ q.id = events[i].id => q # p
  BY <1>1 DEF LinkInv, UpdaterInv
<1>4. \A r \in Requests : Entry(r).id = r.id
  BY NoRequest, EntryFacts DEF Entry
<1>5. \A i \in DOMAIN queue : Entry(queue[i]) \in pending \ {p}
  <2>1. \A i \in DOMAIN queue : queue[i] \in Requests
    BY LenProperties, ElementOfSeq DEF TypeInv, GuiTypeOK
  <2>2. \A i \in DOMAIN queue : Entry(queue[i]) \in pending /\ queue[i].id # p.id
    BY <1>1 DEF LinkInv, UpdaterInv
  <2> QED BY <1>4, <2>1, <2>2
<1>6. Busy => Entry(current) \in pending \ {p}
  <2>1. Busy => current \in Requests
    BY DEF TypeInv, GuiTypeOK, WorkerInv
  <2>2. Busy => Entry(current) \in pending /\ current.id # p.id
    BY <1>1 DEF LinkInv, UpdaterInv
  <2> QED BY <1>4, <2>1, <2>2
<1> QED BY <1>1, <1>2, <1>3, <1>5, <1>6

\* What is in the queue or in the worker's hands of the panel has a consumer.
LEMMA PanelEntries ==
    ASSUME TypeInv, NEW from
    PROVE  /\ \A i \in PanelQueued : Entry(queue[i]) \in from => \E q \in from : q.consumer
           /\ PanelTaken /\ Entry(current) \in from => \E q \in from : q.consumer
<1>1. \A r \in Requests : OfPanel(r) => Entry(r).consumer
  BY NoRequest, EntryFacts DEF Entry, OfPanel
<1>2. \A i \in PanelQueued : queue[i] \in Requests
  BY LenProperties, ElementOfSeq DEF TypeInv, GuiTypeOK, PanelQueued
<1>3. PanelTaken => current \in Requests
  BY DEF TypeInv, GuiTypeOK, WorkerInv, PanelTaken
<1> QED BY <1>1, <1>2, <1>3 DEF PanelQueued, PanelTaken

\* The answer that asks for no more shows what the panel then should show.
LEMMA ShowPanel ==
    ASSUME TypeInv, LinkInv, PanelInv, mainPc = "loop", events # <<>>,
           Head(events).type = "response", Head(events) \in Events,
           NEW p \in pending, p.id = Head(events).id, p.consumer,
           Head(events).result # "failed", ~(Head(events).result = "ok" /\ slot = "change"),
           HandleResponse(p, <<>>), slot' = "none", shown' = Displayed(Head(events)),
           failed' = (failed \/ Head(events).result = "error"),
           UNCHANGED <<selected, changed>>
    PROVE  PanelInv'
<1> DEFINE e == Head(events)
<1>1. /\ pending' = pending \ {p} /\ queue' = queue /\ mainPc' = "loop"
      /\ UNCHANGED <<workerVars, serverVars, answers>> /\ events' = Tail(events)
  <2>1. /\ Sends(<<>>, pending \ {p}, FreeIds \cup {p.id})
        /\ FreeIds \cup {p.id} \in SUBSET Ids
        /\ events' = Tail(events)
    BY Batches, ResponseSends
  <2>2. pending \ {p} \in SUBSET pending
    OBVIOUS
  <2> QED BY <2>1, <2>2, SendsNone
<1>2. AtServer' = AtServer /\ (Busy' <=> Busy) /\ current' = current /\ answers' = answers
  BY <1>1 DEF workerVars, serverVars, AtServer, Busy
<1>3. /\ 1 \in PanelAnswers /\ events[1] = e
      /\ \A i \in Responses(events), q \in pending : i # 1 /\ q.id = events[i].id => q # p
      /\ \A i \in DOMAIN queue : Entry(queue[i]) \in pending \ {p}
      /\ Busy => Entry(current) \in pending \ {p}
  BY OtherAnswers
<1>4. \A i \in PanelAnswers : i # 1 => \E q \in pending' : q.consumer /\ q.id = events[i].id
  BY <1>1, <1>3 DEF PanelAnswers
<1>5. events \in Seq(Events) /\ PanelAnswers \subseteq Nat
  BY AnswerNumbers DEF TypeInv, GuiTypeOK
<1>6. /\ \A i \in PanelAnswers' : i \in Nat /\ i + 1 \in PanelAnswers /\ events'[i] = events[i + 1]
      /\ \A i \in PanelAnswers : i # 1 => i - 1 \in PanelAnswers'
  <2>1. /\ \A i \in Responses(events') :
             i \in Nat /\ i + 1 \in Responses(events) /\ events'[i] = events[i + 1]
        /\ \A i \in Responses(events) : i # 1 =>
             i - 1 \in Responses(events') /\ events'[i - 1] = events[i]
    BY <1>1, <1>5, BackResponses
  <2>2. ASSUME NEW i \in PanelAnswers'
        PROVE  i \in Nat /\ i + 1 \in PanelAnswers /\ events'[i] = events[i + 1]
    <3>1. i \in Responses(events') /\ \E q \in pending' : q.consumer /\ q.id = events'[i].id
      BY DEF PanelAnswers
    <3>2. i \in Nat /\ i + 1 \in Responses(events) /\ events'[i] = events[i + 1]
      BY <2>1, <3>1
    <3> QED BY <1>1, <3>1, <3>2 DEF PanelAnswers
  <2>3. ASSUME NEW i \in PanelAnswers, i # 1 PROVE i - 1 \in PanelAnswers'
    <3>1. i - 1 \in Responses(events') /\ events'[i - 1] = events[i]
      BY <2>1, <2>3 DEF PanelAnswers
    <3>2. \E q \in pending' : q.consumer /\ q.id = events'[i - 1].id
      BY <1>4, <2>3, <3>1
    <3> QED BY <3>1, <3>2 DEF PanelAnswers
  <2> QED BY <2>2, <2>3
<1>7. e.result = "ok" \/ e.result = "error"
  BY EventFacts
<1>8. Sick => Sick'
  <2>1. (failed => failed') /\ (1 \in PanelAnswers /\ events[1].result # "ok" => failed')
    BY <1>3, <1>7
  <2> QED BY <1>1, <1>4, <2>1, StillSick
<1>9. ClosedInv'
  BY <1>2, <1>8 DEF PanelInv, ClosedInv
<1>10. ASSUME ~Sick' PROVE QueuedInv' /\ TakenInv' /\ AnsweredInv' /\ ShownInv'
  <2>1. ~Sick /\ QueuedInv /\ TakenInv /\ AnsweredInv
    BY <1>8, <1>10 DEF PanelInv
  <2>2. e.result = "ok" /\ slot # "change"
    BY <1>3, <2>1 DEF Sick
  <2>3. PanelQueued' = PanelQueued /\ (PanelTaken' <=> PanelTaken)
    BY <1>1, <1>2 DEF PanelQueued, PanelTaken, OfPanel
  <2>5. QueuedInv'
    <3> SUFFICES ASSUME NEW i \in PanelQueued, \A j \in PanelQueued : j <= i
                 PROVE  Meant(queue[i].command)'
      BY <2>3 DEF QueuedInv
    <3>1. Meant(queue[i].command)
      BY <2>1 DEF QueuedInv
    <3> QED BY <1>1, <2>2, <3>1 DEF Meant
  <2>6. TakenInv'
    <3> SUFFICES ASSUME PanelQueued = {}, PanelTaken
                 PROVE  /\ Meant(current.command)'
                        /\ changed /\ current.command.kind # "change" => \A a \in answers : a.status # "ok"
      BY <1>2, <2>3 DEF TakenInv
    <3> QED BY <1>2, <2>1, <2>2 DEF TakenInv, Meant
  <2>7. AnsweredInv'
    <3> SUFFICES ASSUME PanelQueued = {}, ~PanelTaken, NEW i \in PanelAnswers',
                        \A j \in PanelAnswers' : j <= i
                 PROVE  events'[i].payload = selected /\ ~changed
      BY <2>3 DEF AnsweredInv
    <3>1. i \in Nat /\ i + 1 \in PanelAnswers /\ events'[i] = events[i + 1]
      BY <1>6
    <3>2. \A j \in PanelAnswers : j <= i + 1
      <4> SUFFICES ASSUME NEW j \in PanelAnswers PROVE j <= i + 1
        OBVIOUS
      <4>1. j = 1 \/ j - 1 <= i
        BY <1>6
      <4> QED BY <1>5, <3>1, <4>1
    <3> QED BY <2>1, <2>2, <3>1, <3>2 DEF AnsweredInv
  <2>8. ShownInv'
    <3> SUFFICES ASSUME selected # "none", \A q \in pending' : ~q.consumer
                 PROVE  shown' = selected /\ ~changed
      BY DEF ShownInv
    <3>1. PanelQueued = {} /\ ~PanelTaken
      <4>1. \A i \in PanelQueued : i \in DOMAIN queue
        BY DEF PanelQueued
      <4>2. PanelTaken => Busy
        BY DEF PanelTaken
      <4>3. ~\E q \in pending \ {p} : q.consumer
        BY <1>1
      <4> QED BY <1>3, <4>1, <4>2, <4>3, PanelEntries
    <3>2. \A j \in PanelAnswers : j <= 1
      BY <1>4
    <3>3. e.payload = selected /\ ~changed
      BY <1>3, <2>1, <2>2, <3>1, <3>2 DEF AnsweredInv
    <3> QED BY <2>2, <3>3 DEF Displayed
  <2> QED BY <2>5, <2>6, <2>7, <2>8
<1> QED BY <1>9, <1>10 DEF PanelInv

\* A response is handled: what the panel makes of it keeps what it will show.
LEMMA ResponsePanel == TypeInv /\ TypeInv' /\ LinkInv /\ PanelInv /\ ShowResponse => PanelInv'
<1> SUFFICES ASSUME TypeInv, TypeInv', LinkInv, PanelInv, ShowResponse PROVE PanelInv'
  OBVIOUS
<1> DEFINE e == Head(events)
<1>1. events # <<>> /\ e.type = "response" /\ events \in Seq(Events) /\ failed \in BOOLEAN
  BY DEF ShowResponse, TypeInv, GuiTypeOK
<1>2. e \in Events
  BY <1>1, HeadTailProperties
<1>3. PICK p \in pending :
        /\ p.id = e.id
        /\ IF p.consumer /\ e.result # "failed" THEN MotorResponse(e) ELSE NoConsumer(p)
  BY DEF ShowResponse
<1>4. p \in [id : Ids, consumer : BOOLEAN] /\ pending \ {p} \in SUBSET pending
  BY DEF TypeInv, GuiTypeOK
<1>5. CASE NoConsumer(p)
  <2>1. /\ HandleResponse(p, <<>>) /\ failed' = (failed \/ p.consumer)
        /\ UNCHANGED <<controls, panelOpen, selected, slot, shown, changed>>
    BY <1>5 DEF NoConsumer
  <2>2. CASE p.consumer
    BY <2>1, <2>2 DEF PanelInv, ClosedInv, Sick
  <2>3. CASE ~p.consumer
    <3>1. /\ pending' = pending \ {p} /\ queue' = queue /\ mainPc = "loop" /\ mainPc' = mainPc
          /\ UNCHANGED <<workerVars, serverVars, answers>> /\ events' = Tail(events)
      <4>1. /\ Sends(<<>>, pending \ {p}, FreeIds \cup {p.id})
            /\ FreeIds \cup {p.id} \in SUBSET Ids
            /\ events' = Tail(events)
        BY <2>1, Batches, ResponseSends
      <4> QED BY <1>4, <4>1, SendsNone
    <3>2. 1 \notin PanelAnswers
      BY <1>1, <1>3, <2>3, <3>1, OtherAnswers
    <3>3. SameAnswers
      BY <1>1, <2>3, <3>1, <3>2, TailAnswers
    <3>4. /\ PanelQueued' = PanelQueued /\ AtServer' = AtServer
          /\ PanelTaken' <=> PanelTaken
          /\ \A i \in PanelQueued : queue'[i] = queue[i]
          /\ UNCHANGED <<current, answers>>
      BY <3>1 DEF PanelQueued, AtServer, PanelTaken, Busy, OfPanel, workerVars, serverVars
    <3>5. \A s \in AtServer' : ~s.open /\ OfPanel(s.request) => Sick
      BY <3>1, <3>4 DEF PanelInv, ClosedInv
    <3>6. UNCHANGED <<selected, slot, shown, changed, failed>>
      BY <1>1, <2>1, <2>3
    <3>7. (\A q \in pending' : ~q.consumer) => \A q \in pending : ~q.consumer
      BY <2>3, <3>1
    <3> QED BY <3>1, <3>3, <3>4, <3>5, <3>6, <3>7, QuietPanel
  <2> QED BY <2>2, <2>3
<1>6. CASE p.consumer /\ e.result # "failed" /\ MotorResponse(e)
  <2>1. p = [id |-> e.id, consumer |-> TRUE]
    BY <1>3, <1>4, <1>6
  <2>2. CASE e.result = "ok" /\ slot = "change"
    <3> DEFINE cs == <<Diagnostics(selected)>>
    <3>1. /\ HandleResponse(p, cs) /\ slot' = "diagnostics"
          /\ UNCHANGED <<controls, panelOpen, selected, shown, changed, failed>>
      BY <1>6, <2>1, <2>2 DEF MotorResponse
    <3>2. mainPc = "loop" /\ selected \in Motors
      BY <1>6, <3>1 DEF TypeInv, SelectedInv, HandleResponse
    <3>3. /\ cs \in Seq(Commands) /\ Len(cs) = 1 /\ cs[1] = Diagnostics(selected)
          /\ cs[1].kind = "diagnostics" /\ cs[1].motor = selected
      BY <3>2, CommandFacts, Batches
    <3> HIDE DEF cs
    <3>4. /\ Sends(cs, pending \ {p}, FreeIds \cup {p.id})
          /\ FreeIds \cup {p.id} \in SUBSET Ids
          /\ events' = Tail(events)
      BY <1>6, <3>1, ResponseSends
    <3>5. pending \ {p} \subseteq pending'
      BY <1>4, <3>3, <3>4, SendsMore
    <3>6. /\ events[1] = e
          /\ \A i \in Responses(events), q \in pending : i # 1 /\ q.id = events[i].id => q # p
      BY <1>1, <1>3, <3>2, OtherAnswers
    <3>7. Sick => Sick'
      <4>1. \A i \in PanelAnswers : i # 1 => \E q \in pending' : q.consumer /\ q.id = events[i].id
        BY <3>5, <3>6 DEF PanelAnswers
      <4>2. (failed => failed') /\ (1 \in PanelAnswers /\ events[1].result # "ok" => failed')
        BY <2>2, <3>1, <3>6
      <4> QED BY <1>1, <3>4, <4>1, <4>2, StillSick
    <3>8. /\ Len(cs) # 0 /\ cs[Len(cs)].kind # "other"
          /\ IF cs[Len(cs)].kind = "change" THEN slot' = "change"
             ELSE slot' # "change" /\ cs[Len(cs)].motor = selected'
      BY <3>1, <3>3
    <3> QED BY <1>4, <3>3, <3>4, <3>7, <3>8, SendPanel
  <2>3. CASE ~(e.result = "ok" /\ slot = "change")
    <3>1. /\ HandleResponse(p, <<>>) /\ slot' = "none" /\ shown' = Displayed(e)
          /\ failed' = (failed \/ e.result = "error")
          /\ UNCHANGED <<controls, panelOpen, selected, changed>>
      BY <1>6, <2>1, <2>3 DEF MotorResponse, Show
    <3>2. mainPc = "loop" /\ UNCHANGED <<selected, changed>>
      BY <3>1 DEF HandleResponse
    <3> QED BY <1>1, <1>2, <1>3, <1>6, <2>3, <3>1, <3>2, ShowPanel
  <2> QED BY <2>2, <2>3
<1> QED BY <1>3, <1>5, <1>6

\* The worker posts an event.
LEMMA PostAnswers ==
    ASSUME TypeInv, NEW e \in Events, events' = Append(events, e), pending' = pending
    PROVE  LET known == \E p \in pending : p.consumer /\ p.id = e.id
               n     == Len(events) + 1
           IN  /\ n \in Nat
               /\ \A i \in PanelAnswers :
                    i \in Nat /\ i <= n /\ i \in PanelAnswers' /\ events'[i] = events[i]
               /\ \A i \in PanelAnswers' : i \in PanelAnswers \/ (i = n /\ e.type = "response" /\ known)
               /\ e.type = "response" /\ known => n \in PanelAnswers' /\ events'[n] = e
<1> DEFINE n == Len(events) + 1
<1>0. events \in Seq(Events) /\ Len(events) \in Nat /\ DOMAIN events = 1..Len(events)
  BY LenProperties DEF TypeInv, GuiTypeOK
<1>1. /\ events' \in Seq(Events) /\ Len(events') = n
      /\ \A i \in 1..Len(events) : events'[i] = events[i]
      /\ events'[n] = e
  BY <1>0, AppendProperties
<1>2. DOMAIN events' = 1..n
  BY <1>1, LenProperties
<1> HIDE DEF n
<1>3. n \in Nat /\ \A i \in 1..n : i \in 1..Len(events) \/ i = n
  BY <1>0 DEF n
<1>4. \A i \in 1..Len(events) : i \in Nat /\ i <= n /\ i \in 1..n
  BY <1>0 DEF n
<1>5. n \in 1..n
  BY <1>0 DEF n
<1>6. ASSUME NEW i \in PanelAnswers
      PROVE  i \in Nat /\ i <= n /\ i \in PanelAnswers' /\ events'[i] = events[i]
  <2>1. i \in 1..Len(events) /\ events[i].type = "response" /\ \E p \in pending : p.consumer /\ p.id = events[i].id
    BY <1>0 DEF PanelAnswers, Responses
  <2>2. events'[i] = events[i] /\ i \in 1..n
    BY <1>1, <1>4, <2>1
  <2>3. i \in PanelAnswers'
    BY <1>2, <2>1, <2>2 DEF PanelAnswers, Responses
  <2> QED BY <1>4, <2>1, <2>2, <2>3
<1>7. ASSUME NEW i \in PanelAnswers'
      PROVE  \/ i \in PanelAnswers
             \/ i = n /\ e.type = "response" /\ \E p \in pending : p.consumer /\ p.id = e.id
  <2>1. i \in 1..n /\ events'[i].type = "response" /\ \E p \in pending : p.consumer /\ p.id = events'[i].id
    BY <1>2 DEF PanelAnswers, Responses
  <2>2. CASE i \in 1..Len(events)
    BY <1>0, <1>1, <2>1, <2>2 DEF PanelAnswers, Responses
  <2>3. CASE i = n
    BY <1>1, <2>1, <2>3
  <2> QED BY <1>3, <2>1, <2>2, <2>3
<1>8. ASSUME e.type = "response", \E p \in pending : p.consumer /\ p.id = e.id
      PROVE  n \in PanelAnswers' /\ events'[n] = e
  BY <1>1, <1>2, <1>5, <1>8 DEF PanelAnswers, Responses
<1> QED BY <1>3, <1>6, <1>7, <1>8 DEF n

\* The worker is done with its request, and says so.
LEMMA FinishPanel ==
    ASSUME TypeInv, TypeInv', LinkInv, PanelInv, Busy,
           NEW result \in {"ok", "error", "failed"}, NEW payload \in Motors \cup {"none"},
           Finish(result, payload),
           UNCHANGED <<controls, panelOpen, selected, slot, shown, changed, failed>>,
           mainPc = "loop" => \A s \in AtServer' : OfPanel(s.request) /\ ~s.open =>
             Sick \/ (s.request = current /\ result = "failed"),
           result = "ok" => /\ payload = Payload(current.command)
                            /\ \E a \in answers : a.status = "ok"
    PROVE  PanelInv'
<1> SUFFICES ASSUME mainPc = "loop" PROVE PanelInv'
  BY DEF Finish, PanelInv
<1> DEFINE e == Response(current, result, payload)
           n == Len(events) + 1
<1>1. /\ Post(e) /\ ~Busy' /\ mainPc' = mainPc /\ queue' = queue /\ pending' = pending
  BY DEF Finish, Busy
<1>2. current \in Requests
  BY DEF TypeInv, GuiTypeOK, WorkerInv
<1>3. e \in Events /\ e.type = "response" /\ e.id = current.id /\ e.result = result /\ e.payload = payload
  BY <1>2, EventFacts
<1>4. Entry(current) \in pending /\ Entry(current).id = current.id
      /\ (Entry(current).consumer <=> OfPanel(current))
  BY <1>2, NoRequest, EntryFacts DEF Entry, OfPanel, LinkInv, UpdaterInv
<1>5. events' = Append(events, e)
  BY <1>1 DEF Post
<1> HIDE DEF e, n
<1>6. /\ n \in Nat
      /\ \A i \in PanelAnswers : i \in Nat /\ i <= n /\ i \in PanelAnswers' /\ events'[i] = events[i]
      /\ \A i \in PanelAnswers' : i \in PanelAnswers \/ (i = n /\ \E p \in pending : p.consumer /\ p.id = e.id)
      /\ (\E p \in pending : p.consumer /\ p.id = e.id) => n \in PanelAnswers' /\ events'[n] = e
  BY <1>1, <1>3, <1>5, PostAnswers DEF n
<1>7. PanelQueued' = PanelQueued /\ ~PanelTaken'
  BY <1>1 DEF PanelQueued, PanelTaken, OfPanel
<1>8. CASE OfPanel(current)
  <2>1. n \in PanelAnswers' /\ events'[n] = e
    BY <1>3, <1>4, <1>6, <1>8
  <2>2. Sick => Sick'
    BY <1>6 DEF Sick
  <2>3. result # "ok" => Sick'
    BY <1>3, <2>1 DEF Sick
  <2>4. ClosedInv'
    BY <2>2, <2>3 DEF ClosedInv
  <2>5. ASSUME ~Sick' PROVE QueuedInv' /\ TakenInv' /\ AnsweredInv' /\ ShownInv'
    <3>1. result = "ok" /\ ~Sick
      BY <2>2, <2>3, <2>5
    <3>2. QueuedInv /\ TakenInv
      BY <3>1 DEF PanelInv
    <3>3. QueuedInv'
      BY <1>1, <1>7, <3>2 DEF QueuedInv, Meant
    <3>4. TakenInv'
      BY <1>7 DEF TakenInv
    <3>5. AnsweredInv'
      <4> SUFFICES ASSUME PanelQueued = {}, NEW i \in PanelAnswers', \A j \in PanelAnswers' : j <= i
                   PROVE  IF slot = "change" THEN events'[i].payload = "none"
                          ELSE events'[i].payload = selected /\ ~changed
        BY <1>7 DEF AnsweredInv
      <4>1. i = n
        BY <1>6, <2>1
      <4>2. events'[i].payload = Payload(current.command)
        BY <1>3, <2>1, <3>1, <4>1
      <4>3. PanelTaken
        BY <1>8 DEF PanelTaken
      <4>4. /\ Meant(current.command)
            /\ changed /\ current.command.kind # "change" => \A a \in answers : a.status # "ok"
        BY <3>2, <4>3 DEF TakenInv
      <4>5. current.command.kind \in {"diagnostics", "change"}
        BY <1>2, <1>8, NoRequest, CommandFacts DEF OfPanel
      <4> QED BY <3>1, <4>2, <4>4, <4>5 DEF Meant, Payload
    <3>6. ShownInv'
      BY <1>1, <1>4, <1>8 DEF ShownInv
    <3> QED BY <3>3, <3>4, <3>5, <3>6
  <2> QED BY <2>4, <2>5 DEF PanelInv
<1>9. CASE ~OfPanel(current)
  <2>1. ~\E p \in pending : p.consumer /\ p.id = e.id
    <3>1. \A p \in pending : p.id = current.id => p = Entry(current)
      BY <1>4 DEF LinkInv, UpdaterInv
    <3> QED BY <1>3, <1>4, <1>9, <3>1
  <2>2. PanelAnswers' = PanelAnswers /\ \A i \in PanelAnswers : i \in Nat /\ events'[i] = events[i]
    BY <1>6, <2>1
  <2>3. SameAnswers
    <3>1. \A i \in PanelAnswers : i + 0 \in PanelAnswers /\ i - 0 \in PanelAnswers /\ events'[i] = events[i + 0]
      BY <2>2
    <3> QED BY <2>2, <3>1 DEF SameAnswers
  <2>4. \A s \in AtServer' : ~s.open /\ OfPanel(s.request) => Sick
    BY <1>9
  <2>5. ~PanelTaken
    BY <1>9 DEF PanelTaken
  <2>6. \A i \in PanelQueued : queue'[i] = queue[i]
    BY <1>1
  <2> QED BY <1>1, <1>7, <2>3, <2>4, <2>5, <2>6, QuietPanel
<1> QED BY <1>8, <1>9

\* The worker takes the next command, which may be the last of the panel's.
LEMMA TakePanel ==
    ASSUME TypeInv, TypeInv', LinkInv, PanelInv, TakeCommand,
           UNCHANGED <<controls, panelOpen, selected, slot, shown, changed, failed>>
    PROVE  PanelInv'
<1>1. /\ workerPc = "take" /\ queue # <<>> /\ current' = Head(queue) /\ queue' = Tail(queue)
      /\ workerPc' = "send" /\ ~Busy /\ Busy'
      /\ UNCHANGED <<mainPc, pending, events, outgoing, inbound, serving, answers>>
  BY DEF TakeCommand, guiVars, serverVars, Busy
<1> SUFFICES ASSUME mainPc = "loop"
             PROVE  ClosedInv' /\ (~Sick' => QueuedInv' /\ TakenInv' /\ AnsweredInv' /\ ShownInv')
  BY <1>1 DEF PanelInv
<1>2. /\ current' = queue[1] /\ 1 \in DOMAIN queue
      /\ \A i \in DOMAIN queue' : /\ i \in Nat /\ i # 0 /\ i + 1 \in DOMAIN queue
                                  /\ queue'[i] = queue[i + 1]
      /\ \A i \in DOMAIN queue : i \in Nat /\ (i # 1 => i - 1 \in DOMAIN queue')
  <2>1. queue \in Seq(Requests)
    BY DEF TypeInv, GuiTypeOK
  <2>2. /\ Tail(queue) \in Seq(Requests) /\ Len(queue) \in Nat \ {0} /\ Len(Tail(queue)) = Len(queue) - 1
        /\ DOMAIN queue = 1..Len(queue) /\ DOMAIN Tail(queue) = 1..(Len(queue) - 1)
        /\ Head(queue) = queue[1]
        /\ \A i \in 1..(Len(queue) - 1) : Tail(queue)[i] = queue[i + 1]
    BY <1>1, <2>1, HeadTailProperties, LenProperties, EmptySeq
  <2> QED BY <1>1, <2>2
<1>3. /\ \A i \in PanelQueued' : i \in Nat /\ i + 1 \in PanelQueued /\ queue'[i] = queue[i + 1]
      /\ \A i \in PanelQueued : i \in Nat /\ (i # 1 => i - 1 \in PanelQueued')
  <2>1. ASSUME NEW i \in PanelQueued, i # 1 PROVE i - 1 \in PanelQueued'
    <3>1. i - 1 \in DOMAIN queue' /\ (i - 1) + 1 = i
      BY <1>2, <2>1 DEF PanelQueued
    <3>2. queue'[i - 1] = queue[i]
      BY <1>2, <3>1
    <3> QED BY <3>1, <3>2 DEF PanelQueued, OfPanel
  <2>2. ASSUME NEW i \in PanelQueued'
        PROVE  i \in Nat /\ i + 1 \in PanelQueued /\ queue'[i] = queue[i + 1]
    BY <1>2 DEF PanelQueued, OfPanel
  <2> QED BY <1>2, <2>1, <2>2 DEF PanelQueued
<1>4. ~PanelTaken /\ (PanelTaken' <=> 1 \in PanelQueued)
  BY <1>1, <1>2 DEF PanelTaken, PanelQueued, OfPanel
<1>5. SameAnswers /\ PanelAnswers \subseteq Nat /\ PanelAnswers' \subseteq Nat
  <2>1. SameAnswers /\ PanelAnswers' = PanelAnswers
    BY <1>1, StayAnswers
  <2> QED BY <2>1, AnswerNumbers
<1>6. Sick' <=> Sick
  BY <1>5, SameSick
<1>7. ClosedInv'
  BY <1>1, <1>6 DEF PanelInv, ClosedInv, AtServer
<1>8. ASSUME ~Sick PROVE QueuedInv' /\ TakenInv' /\ AnsweredInv' /\ ShownInv'
  <2>1. QueuedInv /\ AnsweredInv /\ ShownInv
    BY <1>8 DEF PanelInv
  <2>2. QueuedInv'
    <3> SUFFICES ASSUME NEW i \in PanelQueued', \A j \in PanelQueued' : j <= i
                 PROVE  Meant(queue[i].command)'
      BY DEF QueuedInv
    <3>1. i + 1 \in PanelQueued /\ (queue[i].command)' = queue[i + 1].command
      BY <1>3
    <3>2. \A j \in PanelQueued : j <= i + 1
      BY <1>3
    <3>3. Meant(queue[i + 1].command)
      BY <2>1, <3>1, <3>2 DEF QueuedInv
    <3> QED BY <3>1, <3>3 DEF Meant
  <2>3. TakenInv'
    <3> SUFFICES ASSUME PanelQueued' = {}, PanelTaken'
                 PROVE  Meant(current.command)' /\ answers' = {}
      BY DEF TakenInv
    <3>1. 1 \in PanelQueued /\ \A j \in PanelQueued : j <= 1
      BY <1>3, <1>4
    <3>2. Meant(queue[1].command)
      BY <2>1, <3>1 DEF QueuedInv
    <3>3. answers' = {}
      BY <1>1 DEF LinkInv, SocketInv
    <3> QED BY <1>2, <3>2, <3>3 DEF Meant
  <2>4. AnsweredInv'
    <3>1. PanelQueued' = {} /\ ~PanelTaken' => PanelQueued = {} /\ ~PanelTaken
      BY <1>3, <1>4
    <3> QED BY <1>5, <2>1, <3>1, SameAnswered
  <2>5. ShownInv'
    BY <1>1, <2>1 DEF ShownInv
  <2> QED BY <2>2, <2>3, <2>4, <2>5
<1> QED BY <1>6, <1>7, <1>8

\* The worker's steps.
LEMMA WorkerPanel ==
    ASSUME TypeInv, TypeInv', LinkInv, PanelInv, Worker,
           UNCHANGED <<controls, panelOpen, selected, slot, shown, changed, failed>>
    PROVE  PanelInv'
<1>0. WorkTypes /\ SocketTypes
  BY TypeParts DEF TypeInv
<1>1. CASE WorkerInit \/ TestRunning \/ NoCommand
  <2>1. /\ UNCHANGED <<mainPc, pending, events, queue, current, inbound, serving, answers>>
        /\ ~Busy /\ ~Busy'
    BY <1>0, <1>1
    DEF WorkerInit, TestRunning, NoCommand, guiVars, serverVars, Busy, WorkTypes
  <2> QED BY <2>1, SamePanel
<1>2. CASE TakeCommand
  BY <1>2, TakePanel
<1>3. CASE SendRequest
  <2>1. /\ UNCHANGED <<mainPc, pending, events, queue, current, inbound, serving, answers>>
        /\ Busy /\ Busy'
    BY <1>3 DEF SendRequest, guiVars, serverVars, Busy
  <2> QED BY <2>1, SamePanel
<1>4. CASE SendFails
  <2>1. Finish("failed", "none") /\ Busy /\ AtServer' = AtServer
    BY <1>4 DEF SendFails, Busy, serverVars, AtServer
  <2>2. mainPc = "loop" => \A s \in AtServer' : OfPanel(s.request) /\ ~s.open => Sick
    BY <2>1 DEF PanelInv, ClosedInv
  <2>3. "failed" \in {"ok", "error", "failed"} /\ "none" \in Motors \cup {"none"} /\ "failed" # "ok"
    OBVIOUS
  <2> QED BY <2>1, <2>2, <2>3, FinishPanel
<1>5. CASE Receive
  <2>1. PICK a \in answers :
          IF a.status = "garbled" THEN Finish("failed", "none")
          ELSE Finish(a.status, Payload(a.to.command))
    BY <1>5 DEF Receive
  <2>2. a.to \in Requests /\ a.status \in {"ok", "error", "garbled"} /\ a.to = current
    BY <1>0 DEF SocketTypes, AnswerSet, Outcomes, LinkInv, SocketInv
  <2>3. PICK result \in {"ok", "error", "failed"}, payload \in Motors \cup {"none"} :
          /\ Finish(result, payload)
          /\ result = "ok" => a.status = "ok" /\ payload = Payload(current.command)
    <3>1. Payload(a.to.command) \in Motors \cup {"none"}
      BY <2>2, NoRequest, EventFacts
    <3>2. CASE a.status = "garbled"
      BY <2>1, <3>2
    <3>3. CASE a.status # "garbled"
      BY <2>1, <2>2, <3>1, <3>3
    <3> QED BY <3>2, <3>3
  <2>4. Busy /\ AtServer' = AtServer
    BY <1>5 DEF Receive, Busy, serverVars, AtServer
  <2>5. mainPc = "loop" => \A s \in AtServer' : OfPanel(s.request) /\ ~s.open => Sick
    BY <2>4 DEF PanelInv, ClosedInv
  <2>6. result = "ok" => payload = Payload(current.command) /\ \E b \in answers : b.status = "ok"
    BY <2>3
  <2> QED BY <2>3, <2>4, <2>5, <2>6, FinishPanel
<1>6. CASE ReceiveTimeout
  <2>1. /\ Finish("failed", "none") /\ Busy
        /\ inbound' = {[s EXCEPT !.open = FALSE] : s \in inbound}
        /\ serving' = IF serving = Nothing THEN serving ELSE [serving EXCEPT !.open = FALSE]
    BY <1>6 DEF ReceiveTimeout, Busy
  <2>2. \A s \in Sent : [s EXCEPT !.open = FALSE].request = s.request
    BY DEF Sent
  <2>3. inbound \subseteq Sent /\ (serving # Nothing => serving \in Sent)
    BY <1>0 DEF SocketTypes
  <2>4. \A s \in inbound' : \E t \in inbound : t.request = s.request
    <3> DEFINE closed(s) == [s EXCEPT !.open = FALSE]
    <3>1. \A s \in inbound : closed(s).request = s.request
      BY <2>2, <2>3
    <3>2. inbound' = {closed(s) : s \in inbound}
      BY <2>1
    <3> HIDE DEF closed
    <3> QED BY <3>1, <3>2
  <2>5. serving' # Nothing => serving # Nothing /\ serving'.request = serving.request
    BY <2>1, <2>2, <2>3
  <2>6. \A s \in AtServer' : \E t \in AtServer : t.request = s.request
    <3> SUFFICES ASSUME NEW s \in AtServer' PROVE \E t \in AtServer : t.request = s.request
      OBVIOUS
    <3>1. s \in inbound' \/ (s = serving' /\ serving' # Nothing)
      BY DEF AtServer
    <3>2. CASE s \in inbound'
      BY <2>4, <3>2 DEF AtServer
    <3>3. CASE s = serving' /\ serving' # Nothing
      BY <2>5, <3>3 DEF AtServer
    <3> QED BY <3>1, <3>2, <3>3
  <2>7. mainPc = "loop" => \A s \in AtServer' : OfPanel(s.request) => Sick \/ s.request = current
    <3> SUFFICES ASSUME mainPc = "loop", NEW s \in AtServer', OfPanel(s.request)
                 PROVE  Sick \/ s.request = current
      OBVIOUS
    <3>1. PICK t \in AtServer : t.request = s.request
      BY <2>6
    <3>2. t.open => t.request = current
      BY DEF LinkInv, SocketInv
    <3>3. ~t.open => Sick
      BY <3>1 DEF PanelInv, ClosedInv
    <3> QED BY <3>1, <3>2, <3>3
  <2>8. "failed" \in {"ok", "error", "failed"} /\ "none" \in Motors \cup {"none"} /\ "failed" # "ok"
    OBVIOUS
  <2> QED BY <2>1, <2>7, <2>8, FinishPanel
<1>7. CASE StatusReceived \/ StatusMissing
  <2>1. PICK t \in {"status", "lost"} : Post(Notice(t))
    BY <1>7 DEF StatusReceived, StatusMissing
  <2>2. /\ UNCHANGED <<mainPc, pending, queue, current, outgoing, inbound, serving, answers>>
        /\ ~Busy /\ ~Busy'
    BY <1>7 DEF StatusReceived, StatusMissing, serverVars, Busy
  <2>3. CASE events' = events
    BY <2>2, <2>3, SamePanel
  <2>4. CASE events' = Append(events, Notice(t))
    <3>1. Notice(t) \in Events /\ Notice(t).type # "response"
      BY EventFacts
    <3>2. PanelAnswers' = PanelAnswers /\ \A i \in PanelAnswers : i \in Nat /\ events'[i] = events[i]
      BY <2>2, <2>4, <3>1, PostAnswers
    <3>3. SameAnswers
      <4>1. \A i \in PanelAnswers : i + 0 \in PanelAnswers /\ i - 0 \in PanelAnswers /\ events'[i] = events[i + 0]
        BY <3>2
      <4> QED BY <3>2, <4>1 DEF SameAnswers
    <3>4. /\ PanelQueued' = PanelQueued /\ AtServer' = AtServer /\ ~PanelTaken /\ ~PanelTaken'
          /\ \A i \in PanelQueued : queue'[i] = queue[i]
      BY <2>2 DEF PanelQueued, AtServer, PanelTaken, OfPanel
    <3>5. mainPc = "loop" => \A s \in AtServer' : ~s.open /\ OfPanel(s.request) => Sick
      BY <3>4 DEF PanelInv, ClosedInv
    <3> QED BY <2>2, <3>3, <3>4, <3>5, QuietPanel
  <2> QED BY <2>1, <2>3, <2>4 DEF Post
<1> QED BY <1>1, <1>2, <1>3, <1>4, <1>5, <1>6, <1>7 DEF Worker

\* The server and the transport, but for what the server does with a command.
LEMMA ServerPanel ==
    ASSUME TypeInv, TypeInv', LinkInv, PanelInv, ServerSide,
           UNCHANGED <<controls, panelOpen, selected, slot, shown, changed, failed>>
    PROVE  PanelInv'
<1>1. UNCHANGED <<mainPc, pending, events, queue, workerPc, current, answers>>
  BY DEF ServerSide, Deliver, Take, ServerEnds, ServerStarts, Publish, guiVars, workerVars
<1>2. SameAnswers
  BY <1>1, StayAnswers
<1>3. PanelQueued' = PanelQueued /\ (PanelTaken' <=> PanelTaken)
      /\ \A i \in PanelQueued : queue'[i] = queue[i]
  BY <1>1 DEF PanelQueued, PanelTaken, Busy, OfPanel
<1>4. \A s \in AtServer' : s \in AtServer \/ s \in outgoing
  <2>1. CASE Deliver
    BY <2>1 DEF Deliver, AtServer
  <2>2. CASE Take
    BY <2>2 DEF Take, AtServer
  <2>3. CASE ServerEnds \/ ServerStarts \/ Publish
    BY <2>3 DEF ServerEnds, ServerStarts, Publish, AtServer, serverVars
  <2> QED BY <2>1, <2>2, <2>3 DEF ServerSide
<1>5. \A s \in outgoing : s.open
  BY DEF LinkInv, SocketInv
<1>6. mainPc = "loop" => \A s \in AtServer' : ~s.open /\ OfPanel(s.request) => Sick
  BY <1>4, <1>5 DEF PanelInv, ClosedInv
<1> QED BY <1>1, <1>2, <1>3, <1>6, QuietPanel

\* The server carries a command out: one that is still awaited changes what
\* the panel has to show, or its answer will tell.
LEMMA ServePanel ==
    TypeInv /\ TypeInv' /\ LinkInv /\ PanelInv /\ (\E status \in Outcomes : Serve(status)) => PanelInv'
<1> SUFFICES ASSUME TypeInv, TypeInv', LinkInv, PanelInv, NEW status \in Outcomes, Serve(status)
             PROVE  PanelInv'
  OBVIOUS
<1> DEFINE r == serving.request
<1>1. /\ UNCHANGED <<mainPc, pending, events, queue, workerPc, current, inbound>>
      /\ UNCHANGED <<selected, slot, shown, failed>>
      /\ serving # Nothing /\ serving' = Nothing
      /\ answers' = IF serving.open THEN answers \cup {[to |-> r, status |-> status]} ELSE answers
  BY DEF Serve, AnswerRequest, guiVars, workerVars
<1> SUFFICES ASSUME mainPc = "loop" PROVE PanelInv'
  BY <1>1 DEF PanelInv
<1>2. /\ ~OfPanel(r) => changed' = changed
      /\ changed' /\ r.command.kind = "diagnostics" => status # "ok"
  BY DEF Serve, OfPanel
<1>3. serving \in AtServer /\ r \in Requests /\ \A s \in AtServer' : s \in AtServer
  <2>1. SocketTypes
    BY TypeParts DEF TypeInv
  <2>2. serving \in AtServer /\ \A s \in AtServer' : s \in AtServer
    BY <1>1 DEF AtServer
  <2> QED BY <2>1, <2>2, ServerFacts
<1>4. serving.open => workerPc = "await" /\ r = current /\ answers = {}
  BY <1>3 DEF LinkInv, SocketInv
<1> HIDE DEF r
<1>5. SameAnswers
  BY <1>1, StayAnswers
<1>6. /\ PanelQueued' = PanelQueued /\ (PanelTaken' <=> PanelTaken)
      /\ \A i \in PanelQueued : queue'[i] = queue[i]
  BY <1>1 DEF PanelQueued, PanelTaken, Busy, OfPanel
<1>7. Sick' <=> Sick
  <2>1. PanelAnswers' = PanelAnswers
    BY <1>1 DEF PanelAnswers
  <2> QED BY <1>1, <2>1 DEF Sick
<1>8. \A s \in AtServer' : ~s.open /\ OfPanel(s.request) => Sick
  BY <1>3 DEF PanelInv, ClosedInv
<1>9. CASE ~OfPanel(r)
  <2>1. PanelTaken => UNCHANGED <<current, answers>>
    BY <1>1, <1>4, <1>9 DEF PanelTaken
  <2>2. changed' = changed
    BY <1>2, <1>9
  <2>3. (\A p \in pending' : ~p.consumer) => \A p \in pending : ~p.consumer
    BY <1>1
  <2> QED BY <1>1, <1>5, <1>6, <1>8, <2>1, <2>2, <2>3, QuietPanel
<1>10. CASE OfPanel(r) /\ ~serving.open
  <2>1. Sick
    BY <1>3, <1>10 DEF PanelInv, ClosedInv, r
  <2> QED BY <1>7, <1>8, <2>1 DEF PanelInv, ClosedInv
<1>11. CASE OfPanel(r) /\ serving.open
  <2>1. PanelTaken /\ PanelTaken' /\ r = current /\ answers' = {[to |-> r, status |-> status]}
    BY <1>1, <1>4, <1>6, <1>11 DEF PanelTaken, Busy
  <2>2. ClosedInv'
    BY <1>7, <1>8 DEF ClosedInv
  <2>3. ASSUME ~Sick PROVE QueuedInv' /\ TakenInv' /\ AnsweredInv' /\ ShownInv'
    <3>1. QueuedInv /\ TakenInv
      BY <2>3 DEF PanelInv
    <3>2. QueuedInv'
      BY <1>1, <1>6, <3>1 DEF QueuedInv, Meant
    <3>3. TakenInv'
      <4> SUFFICES ASSUME PanelQueued = {}
                   PROVE  /\ Meant(current.command)'
                          /\ changed' /\ current.command.kind # "change" =>
                               \A a \in answers' : a.status # "ok"
        BY <1>1, <1>6 DEF TakenInv
      <4>1. Meant(current.command)'
        BY <1>1, <2>1, <3>1 DEF TakenInv, Meant
      <4>2. r.command.kind \in {"diagnostics", "change"}
        BY <1>3, <1>11, NoRequest, CommandFacts DEF OfPanel
      <4> QED BY <1>2, <2>1, <4>1, <4>2
    <3>4. AnsweredInv'
      BY <2>1 DEF AnsweredInv
    <3>5. ShownInv'
      <4>1. Entry(current) \in pending
        BY <2>1 DEF LinkInv, UpdaterInv, PanelTaken
      <4>2. \E p \in pending : p.consumer
        BY <2>1, <4>1, PanelEntries
      <4> QED BY <1>1, <4>2 DEF ShownInv
    <3> QED BY <3>2, <3>3, <3>4, <3>5
  <2> QED BY <1>7, <2>2, <2>3 DEF PanelInv
<1> QED BY <1>9, <1>10, <1>11

\* The panel has no motor and no request at the start.
LEMMA InitPanel == PanelInit => PanelInv
<1> SUFFICES ASSUME PanelInit PROVE PanelInv
  OBVIOUS
<1>1. /\ pending = {} /\ inbound = {} /\ serving = Nothing /\ selected = "none"
      /\ queue = <<>> /\ workerPc = "init"
  BY DEF PanelInit, Init
<1>2. AtServer = {} /\ PanelAnswers = {} /\ PanelQueued = {} /\ ~PanelTaken
  BY <1>1 DEF AtServer, PanelAnswers, PanelQueued, PanelTaken, Busy
<1> QED BY <1>1, <1>2 DEF PanelInv, ClosedInv, QueuedInv, TakenInv, AnsweredInv, ShownInv

\* Every step keeps what the panel will show right.
LEMMA NextPanel == TypeInv /\ TypeInv' /\ LinkInv /\ PanelInv /\ [Next]_vars => PanelInv'
<1> SUFFICES ASSUME TypeInv, TypeInv', LinkInv, PanelInv, [Next]_vars PROVE PanelInv'
  OBVIOUS
<1>1. CASE UNCHANGED vars
  <2>1. /\ UNCHANGED <<mainPc, pending, events, queue, workerPc, current, inbound, serving, answers>>
        /\ UNCHANGED <<selected, slot, shown, changed, failed>>
    BY <1>1 DEF vars, linkVars, guiVars, workerVars, serverVars, widgets, panelVars
  <2> QED BY <2>1, SamePanel DEF Busy
<1>2. CASE Operator
  BY <1>2, OperatorPanel
<1>3. CASE HandleEvent
  BY <1>3, NoticePanel, ResponsePanel DEF HandleEvent
<1>4. CASE Join /\ UNCHANGED widgets
  BY <1>4 DEF Join, PanelInv
<1>5. CASE (Worker \/ ServerSide) /\ UNCHANGED widgets
  <2>1. UNCHANGED <<controls, panelOpen, selected, slot, shown, changed, failed>>
    BY <1>5 DEF widgets, panelVars
  <2> QED BY <1>5, <2>1, WorkerPanel, ServerPanel
<1>6. CASE \E status \in Outcomes : Serve(status)
  BY <1>6, ServePanel
<1> QED BY <1>1, <1>2, <1>3, <1>4, <1>5, <1>6 DEF Next, Ended

\* When nothing is under way and no request of the panel failed, the motor
\* panel shows the motor that is selected, as it is after the last command,
\* for any motors and any number of requests under way.
THEOREM PanelShowsSelected == Spec => []DisplayIsCurrent
<1> DEFINE I == TypeInv /\ LinkInv /\ PanelInv
<1>1. PanelInit => I
  BY InitTypes, InitLink, InitPanel
<1>2. I /\ [Next]_vars => I'
  BY NextTypes, NextLink, NextPanel
<1>3. I => DisplayIsCurrent
  <2> SUFFICES ASSUME I, mainPc = "loop", Idle, ~failed, selected # "none"
               PROVE  shown = selected /\ ~changed
    BY DEF DisplayIsCurrent
  <2>1. pending = {} /\ PanelAnswers = {}
    BY DEF Idle, PanelAnswers
  <2> QED BY <2>1 DEF PanelInv, ShownInv, Sick
<1> QED BY <1>1, <1>2, <1>3, PTL DEF Spec

\* A non-empty set of natural numbers has a least element.
LEMMA Least ==
    ASSUME NEW T \in SUBSET Nat, T # {}
    PROVE  \E n \in T : \A m \in T : n <= m
<1>1. PICK n \in T : \A m \in T : ~(<<m, n>> \in OpToRel(<, Nat))
  BY NatLessThanWellFounded, WFMin, Zenon
<1>2. \A m \in T : ~(m < n)
  BY <1>1 DEF OpToRel
<1> QED BY <1>2

\* Numbers that are all counted down by one are as many.
LEMMA ShiftDown ==
    ASSUME NEW T \in SUBSET Nat, IsFiniteSet(T)
    PROVE  Cardinality({j - 1 : j \in T}) = Cardinality(T)
<1> DEFINE U == {j - 1 : j \in T}
           f == [j \in T |-> j - 1]
<1>1. f \in [T -> U] /\ \A u \in U : \E j \in T : f[j] = u
  OBVIOUS
<1>2. \A i, j \in T : f[i] = f[j] => i = j
  OBVIOUS
<1> HIDE DEF U
<1>3. f \in Surjection(T, U) /\ f \in Injection(T, U)
  BY <1>1, <1>2 DEF Surjection, Injection, IsInjective
<1> HIDE DEF f
<1>4. Cardinality(U) = Cardinality(T)
  BY <1>3, FS_Surjection
<1> QED BY <1>4 DEF U

\* A response is one more ahead of what follows it.
LEMMA NextAhead ==
    ASSUME NEW S, NEW es \in Seq(S), NEW i \in Nat
    PROVE  Cardinality(Ahead(es, i + 1)) =
             IF i \in Responses(es) THEN Cardinality(Ahead(es, i)) + 1
             ELSE Cardinality(Ahead(es, i))
<1>1. Responses(es) \subseteq Nat /\ IsFiniteSet(Ahead(es, i))
  BY FewAhead
<1>2. CASE i \in Responses(es)
  <2>1. Ahead(es, i + 1) = Ahead(es, i) \cup {i} /\ i \notin Ahead(es, i)
    BY <1>1, <1>2 DEF Ahead
  <2>2. Cardinality(Ahead(es, i) \cup {i}) = Cardinality(Ahead(es, i)) + 1
    BY <1>1, <2>1, FS_AddElement
  <2> QED BY <1>2, <2>1, <2>2
<1>3. CASE i \notin Responses(es)
  <2>1. Ahead(es, i + 1) = Ahead(es, i)
    <3>1. \A j \in Responses(es) : j < i + 1 <=> j < i
      BY <1>1, <1>3
    <3> QED BY <3>1 DEF Ahead
  <2> QED BY <1>3, <2>1
<1> QED BY <1>2, <1>3

\* Of two responses the later has more ahead of it.
LEMMA AheadTells ==
    ASSUME NEW S, NEW es \in Seq(S), NEW i \in Responses(es), NEW j \in Responses(es), i < j
    PROVE  Cardinality(Ahead(es, i)) < Cardinality(Ahead(es, j))
<1>1. /\ Responses(es) \subseteq Nat /\ IsFiniteSet(Ahead(es, i)) /\ IsFiniteSet(Ahead(es, j))
      /\ Cardinality(Ahead(es, i)) \in Nat /\ Cardinality(Ahead(es, j)) \in Nat
  BY FewAhead
<1>2. Ahead(es, i) \cup {i} \subseteq Ahead(es, j) /\ i \notin Ahead(es, i)
  BY <1>1 DEF Ahead
<1> DEFINE A == Ahead(es, i)
           B == Ahead(es, j)
<1> HIDE DEF A, B
<1>3. IsFiniteSet(A) /\ IsFiniteSet(B) /\ A \cup {i} \subseteq B /\ i \notin A
  BY <1>1, <1>2 DEF A, B
<1>4. Cardinality(A \cup {i}) = Cardinality(A) + 1 /\ Cardinality(A \cup {i}) <= Cardinality(B)
  BY <1>3, FS_AddElement, FS_Subset
<1>5. Cardinality(A) \in Nat /\ Cardinality(B) \in Nat
  BY <1>1 DEF A, B
<1>6. Cardinality(A) < Cardinality(B)
  BY <1>4, <1>5
<1> QED BY <1>6 DEF A, B

\* There is a k-th response, if there are k of them.
LEMMA PlaceExists ==
    ASSUME NEW S, NEW es \in Seq(S), NEW k \in 1..Cardinality(Responses(es))
    PROVE  Place(es, k) \in Responses(es) /\ Cardinality(Ahead(es, Place(es, k))) = k - 1
<1> DEFINE Count(i) == Cardinality(Ahead(es, i))
           N == Len(es) + 1
           T == {i \in Nat : i # 0 /\ Count(i) >= k}
<1>1. Len(es) \in Nat /\ Responses(es) \in SUBSET (1..Len(es)) /\ Cardinality(Responses(es)) \in Nat
  BY FewAhead
<1>2. \A i : Count(i) \in Nat
  BY FewAhead
<1>3. k \in Nat /\ k >= 1 /\ k <= Cardinality(Responses(es))
  BY <1>1
<1>4. N \in T
  <2>1. Ahead(es, N) = Responses(es)
    BY <1>1 DEF Ahead
  <2>2. Count(N) >= k
    BY <1>1, <1>3, <2>1
  <2> QED BY <1>1, <2>2
<1>5. Count(1) = 0
  <2>1. Ahead(es, 1) = {}
    BY <1>1 DEF Ahead
  <2> QED BY <2>1, FS_EmptySet
<1>6. PICK n \in T : \A m \in T : n <= m
  <2>1. T \in SUBSET Nat /\ T # {}
    BY <1>4
  <2> HIDE DEF T
  <2> QED BY <2>1, Least
<1>7. n \in Nat /\ n # 0 /\ n # 1 /\ Count(n) >= k
  BY <1>3, <1>5, <1>6
<1> DEFINE i == n - 1
<1>8. i \in Nat /\ i # 0 /\ i + 1 = n
  BY <1>7
<1>9. ~(Count(i) >= k)
  BY <1>6, <1>7, <1>8
<1> HIDE DEF i
<1>10. Count(i + 1) = IF i \in Responses(es) THEN Count(i) + 1 ELSE Count(i)
  BY <1>8, NextAhead
<1>11. Count(i + 1) >= k
  BY <1>7, <1>8
<1>12. i \in Responses(es) /\ Count(i) = k - 1
  <2> HIDE DEF Count
  <2>1. Count(i) \in Nat /\ Count(i + 1) \in Nat
    BY <1>2
  <2> QED BY <1>3, <1>9, <1>10, <1>11, <2>1
<1> QED BY <1>12 DEF Place

\* The results tell which response has how many ahead of it.
LEMMA ResultAt ==
    ASSUME NEW S, NEW es \in Seq(S), NEW i \in Responses(es)
    PROVE  LET k == Cardinality(Ahead(es, i)) + 1
           IN  k \in 1..Cardinality(Responses(es)) /\ ResultsOf(es)[k] = Result(es[i])
<1> DEFINE a == Cardinality(Ahead(es, i))
           k == a + 1
<1>1. /\ Responses(es) \subseteq Nat /\ IsFiniteSet(Responses(es)) /\ IsFiniteSet(Ahead(es, i))
      /\ a \in Nat /\ Cardinality(Responses(es)) \in Nat
  BY FewAhead
<1>2. Ahead(es, i) \cup {i} \subseteq Responses(es) /\ i \notin Ahead(es, i)
  BY <1>1 DEF Ahead
<1>3. k <= Cardinality(Responses(es))
  BY <1>1, <1>2, FS_AddElement, FS_Subset
<1> HIDE DEF a
<1>4. k \in 1..Cardinality(Responses(es)) /\ k - 1 = a
  BY <1>1, <1>3
<1> HIDE DEF k
<1> DEFINE j == Place(es, k)
<1>5. j \in Responses(es) /\ Cardinality(Ahead(es, j)) = a
  BY <1>4, PlaceExists
<1>6. ResultsOf(es)[k] = Result(es[j])
  BY <1>4 DEF ResultsOf
<1> HIDE DEF j
<1>7. j = i
  <2>1. ~(i < j)
    BY <1>1, <1>5, AheadTells DEF a
  <2>2. ~(j < i)
    BY <1>1, <1>5, AheadTells DEF a
  <2> QED BY <1>1, <1>5, <2>1, <2>2
<1> QED BY <1>4, <1>6, <1>7 DEF k, a

\* The results are a sequence, of one result for each response.
LEMMA ResultsSeq ==
    ASSUME NEW S, NEW es \in Seq(S)
    PROVE  LET R == {Result(e) : e \in S}
               n == Cardinality(Responses(es))
           IN  /\ ResultsOf(es) \in Seq(R) /\ Len(ResultsOf(es)) = n /\ n \in Nat
               /\ DOMAIN ResultsOf(es) = 1..n
               /\ \A k \in 1..n : \E i \in Responses(es) :
                    Cardinality(Ahead(es, i)) = k - 1 /\ ResultsOf(es)[k] = Result(es[i])
<1> DEFINE R == {Result(e) : e \in S}
           n == Cardinality(Responses(es))
<1>1. n \in Nat /\ Responses(es) \in SUBSET (1..Len(es))
  BY FewAhead
<1> HIDE DEF n
<1>2. \A k \in 1..n : Place(es, k) \in Responses(es) /\ Cardinality(Ahead(es, Place(es, k))) = k - 1
  BY PlaceExists DEF n
<1>3. \A i \in Responses(es) : es[i] \in S
  BY <1>1, ElementOfSeq
<1>4. ResultsOf(es) = [k \in 1..n |-> Result(es[Place(es, k)])]
  BY DEF ResultsOf, n
<1>5. \A k \in 1..n : ResultsOf(es)[k] = Result(es[Place(es, k)]) /\ ResultsOf(es)[k] \in R
  BY <1>2, <1>3, <1>4
<1> HIDE DEF R
<1>6. ResultsOf(es) \in [1..n -> R]
  BY <1>4, <1>5
<1> DEFINE s == ResultsOf(es)
<1> HIDE DEF s
<1>7. s \in [1..n -> R] /\ DOMAIN s = 1..n
  BY <1>6 DEF s
<1>8. s \in Seq(R)
  BY <1>1, <1>7, SeqDef
<1>9. Len(s) = n
  BY <1>1, <1>7, <1>8, LenProperties
<1>10. ResultsOf(es) \in Seq(R) /\ Len(ResultsOf(es)) = n /\ DOMAIN ResultsOf(es) = 1..n
  BY <1>7, <1>8, <1>9 DEF s
<1>11. \A k \in 1..n : \E i \in Responses(es) :
         Cardinality(Ahead(es, i)) = k - 1 /\ ResultsOf(es)[k] = Result(es[i])
  BY <1>2, <1>5
<1> QED BY <1>1, <1>10, <1>11 DEF n, R

\* A new event adds its result to the results, if it is a response.
LEMMA ResultsAppend ==
    ASSUME NEW S, NEW es \in Seq(S), NEW e \in S
    PROVE  ResultsOf(Append(es, e)) =
             IF e.type = "response" THEN Append(ResultsOf(es), Result(e)) ELSE ResultsOf(es)
<1> DEFINE new == Append(es, e)
           N == Len(es) + 1
           R == {Result(x) : x \in S}
<1>1. /\ Len(es) \in Nat /\ DOMAIN es = 1..Len(es)
      /\ Responses(es) \in SUBSET (1..Len(es)) /\ IsFiniteSet(Responses(es))
      /\ Cardinality(Responses(es)) \in Nat
  BY FewAhead
<1>2. /\ new \in Seq(S) /\ Len(new) = N
      /\ \A i \in 1..Len(es) : new[i] = es[i]
      /\ new[N] = e
  BY AppendProperties
<1>3. DOMAIN new = 1..N
  BY <1>2, LenProperties
<1> HIDE DEF new
<1>4. /\ N \notin Responses(es)
      /\ \A i \in 1..N : i \in 1..Len(es) \/ i = N
      /\ \A i \in 1..Len(es) : i \in 1..N
      /\ N \in 1..N /\ \A i \in 1..Len(es) : i < N
  BY <1>1
<1>5. \A i : i \in Responses(new) <=> i \in Responses(es) \/ (i = N /\ e.type = "response")
  BY <1>1, <1>2, <1>3, <1>4 DEF Responses
<1>6. ASSUME NEW i \in Responses(es)
      PROVE  Ahead(new, i) = Ahead(es, i) /\ Result(new[i]) = Result(es[i])
  <2>1. \A j \in Responses(es) : j < N
    BY <1>1, <1>4
  <2>2. ~(N < i)
    BY <1>1, <2>1
  <2>3. Ahead(new, i) = Ahead(es, i)
    BY <1>5, <2>2 DEF Ahead
  <2> QED BY <1>1, <1>2, <2>3
<1> HIDE DEF N
<1>r. /\ ResultsOf(es) \in Seq(R) /\ Len(ResultsOf(es)) = Cardinality(Responses(es))
      /\ \A k \in 1..Cardinality(Responses(es)) : \E i \in Responses(es) :
           Cardinality(Ahead(es, i)) = k - 1 /\ ResultsOf(es)[k] = Result(es[i])
  BY ResultsSeq
<1>s. /\ ResultsOf(new) \in Seq(R) /\ Len(ResultsOf(new)) = Cardinality(Responses(new))
  BY <1>2, ResultsSeq
<1>7. ASSUME NEW k \in 1..Cardinality(Responses(es))
      PROVE  ResultsOf(new)[k] = ResultsOf(es)[k]
  <2>1. PICK i \in Responses(es) :
          Cardinality(Ahead(es, i)) = k - 1 /\ ResultsOf(es)[k] = Result(es[i])
    BY <1>r
  <2>2. i \in Responses(new) /\ Cardinality(Ahead(new, i)) = k - 1
    BY <1>5, <1>6, <2>1
  <2>3. ResultsOf(new)[Cardinality(Ahead(new, i)) + 1] = Result(new[i])
    BY <1>2, <2>2, ResultAt
  <2>4. (k - 1) + 1 = k
    BY <1>1
  <2> QED BY <1>6, <2>1, <2>2, <2>3, <2>4
<1>8. CASE e.type = "response"
  <2> DEFINE c == Cardinality(Responses(es))
             t == Append(ResultsOf(es), Result(e))
  <2>1. Responses(new) = Responses(es) \cup {N}
    BY <1>5, <1>8
  <2>2. Cardinality(Responses(new)) = c + 1
    BY <1>1, <1>4, <2>1, FS_AddElement
  <2>3. Result(e) \in R
    OBVIOUS
  <2>4. /\ t \in Seq(R) /\ Len(t) = c + 1 /\ t[c + 1] = Result(e)
        /\ \A k \in 1..c : t[k] = ResultsOf(es)[k]
    <3> HIDE DEF R
    <3> QED BY <1>r, <2>3, AppendProperties
  <2>5. ResultsOf(new)[c + 1] = Result(e)
    <3>1. N \in Responses(new) /\ Ahead(new, N) = Responses(es)
      <4>1. \A j \in Responses(es) : j < N
        BY <1>1, <1>4
      <4>2. ~(N < N)
        BY <1>1 DEF N
      <4> QED BY <1>5, <1>8, <4>1, <4>2 DEF Ahead
    <3>2. ResultsOf(new)[Cardinality(Ahead(new, N)) + 1] = Result(new[N])
      BY <1>2, <3>1, ResultAt
    <3> QED BY <1>2, <3>1, <3>2
  <2> HIDE DEF R, t
  <2>6. \A k \in 1..(c + 1) : ResultsOf(new)[k] = t[k]
    <3> SUFFICES ASSUME NEW k \in 1..(c + 1) PROVE ResultsOf(new)[k] = t[k]
      OBVIOUS
    <3>1. k \in 1..c \/ k = c + 1
      BY <1>1
    <3> QED BY <1>7, <2>4, <2>5, <3>1
  <2> DEFINE s == ResultsOf(new)
  <2>7. s \in Seq(R) /\ t \in Seq(R) /\ Len(s) = c + 1 /\ Len(s) = Len(t)
        /\ \A k \in 1..Len(s) : s[k] = t[k]
    BY <1>s, <2>2, <2>4, <2>6
  <2> HIDE DEF s
  <2>8. s = t
    BY <2>7, SeqEqual
  <2> QED BY <1>8, <2>8 DEF s, t, new
<1>9. CASE e.type # "response"
  <2>1. Responses(new) = Responses(es)
    BY <1>5, <1>9
  <2> HIDE DEF R
  <2> DEFINE s == ResultsOf(new)
             t == ResultsOf(es)
  <2>2. s \in Seq(R) /\ t \in Seq(R) /\ Len(s) = Len(t) /\ \A k \in 1..Len(s) : s[k] = t[k]
    BY <1>r, <1>s, <1>7, <2>1
  <2> HIDE DEF s, t
  <2>3. s = t
    BY <2>2, SeqEqual
  <2> QED BY <1>9, <2>3 DEF s, t, new
<1> QED BY <1>8, <1>9

\* Without the first event the first result is gone, if it was a response.
LEMMA ResultsTail ==
    ASSUME NEW S, NEW es \in Seq(S), es # <<>>
    PROVE  IF Head(es).type = "response"
           THEN ResultsOf(es) # <<>> /\ ResultsOf(Tail(es)) = Tail(ResultsOf(es))
           ELSE ResultsOf(Tail(es)) = ResultsOf(es)
<1> DEFINE new == Tail(es)
           R == {Result(x) : x \in S}
           c == Cardinality(Responses(es))
           d == Cardinality(Responses(new))
<1>1. /\ Len(es) \in Nat \ {0} /\ DOMAIN es = 1..Len(es) /\ Head(es) = es[1]
      /\ Responses(es) \in SUBSET (1..Len(es)) /\ IsFiniteSet(Responses(es)) /\ c \in Nat
  BY FewAhead, EmptySeq
<1>2. /\ new \in Seq(S) /\ Len(new) = Len(es) - 1
      /\ \A i \in 1..Len(new) : new[i] = es[i + 1]
  BY HeadTailProperties
<1>3. DOMAIN new = 1..(Len(es) - 1) /\ d \in Nat /\ Responses(new) \subseteq Nat
  BY <1>2, LenProperties, FewAhead
<1> HIDE DEF new
<1>4. /\ \A i \in Responses(new) :
           i \in Nat /\ i # 0 /\ i + 1 \in Responses(es) /\ i + 1 # 1 /\ new[i] = es[i + 1]
      /\ \A i \in Responses(es) : i # 1 => i - 1 \in Responses(new)
  <2>1. ASSUME NEW i \in Responses(new)
        PROVE  i \in Nat /\ i # 0 /\ i + 1 \in Responses(es) /\ i + 1 # 1 /\ new[i] = es[i + 1]
    <3>1. i \in 1..(Len(es) - 1) /\ new[i].type = "response"
      BY <1>3 DEF Responses
    <3>2. i \in Nat /\ i # 0 /\ i + 1 \in 1..Len(es) /\ i + 1 # 1
      BY <1>1, <3>1
    <3> QED BY <1>1, <1>2, <3>1, <3>2 DEF Responses
  <2>2. ASSUME NEW i \in Responses(es), i # 1 PROVE i - 1 \in Responses(new)
    <3>1. i \in 1..Len(es) /\ es[i].type = "response"
      BY <1>1 DEF Responses
    <3>2. i - 1 \in 1..(Len(es) - 1) /\ (i - 1) + 1 = i
      BY <1>1, <2>2, <3>1
    <3> QED BY <1>2, <1>3, <3>1, <3>2 DEF Responses
  <2> QED BY <2>1, <2>2
<1>5. 1 \in Responses(es) <=> Head(es).type = "response"
  BY <1>1 DEF Responses
<1> DEFINE k1 == IF 1 \in Responses(es) THEN 1 ELSE 0
<1>6. ASSUME NEW T \in SUBSET Responses(es), 1 \in Responses(es) => 1 \in T
      PROVE  Cardinality({j - 1 : j \in T \ {1}}) = Cardinality(T) - k1
  <2>1. IsFiniteSet(T) /\ T \ {1} \in SUBSET Nat /\ IsFiniteSet(T \ {1}) /\ Cardinality(T) \in Nat
    BY <1>1, FS_Subset, FS_CardinalityType
  <2>2. Cardinality({j - 1 : j \in T \ {1}}) = Cardinality(T \ {1})
    <3> DEFINE V == T \ {1}
    <3>1. V \in SUBSET Nat /\ IsFiniteSet(V)
      BY <2>1
    <3> HIDE DEF V
    <3>2. Cardinality({j - 1 : j \in V}) = Cardinality(V)
      BY <3>1, ShiftDown
    <3> QED BY <3>2 DEF V
  <2>3. Cardinality(T \ {1}) = Cardinality(T) - k1
    <3>1. CASE 1 \in T
      <4>1. Cardinality(T \ {1}) = Cardinality(T) - 1
        BY <2>1, <3>1, FS_RemoveElement
      <4> QED BY <3>1, <4>1
    <3>2. CASE 1 \notin T
      <4>1. Cardinality(T \ {1}) = Cardinality(T)
        <5>1. T \ {1} = T
          BY <3>2
        <5> QED BY <5>1, Zenon
      <4>2. k1 = 0
        BY <1>6, <3>2
      <4> HIDE DEF k1
      <4> QED BY <2>1, <4>1, <4>2
    <3> QED BY <3>1, <3>2
  <2> QED BY <2>2, <2>3
<1>7. d = c - k1
  <2>1. Responses(new) = {j - 1 : j \in Responses(es) \ {1}}
    <3>1. \A i \in Responses(new) : i + 1 \in Responses(es) \ {1} /\ (i + 1) - 1 = i
      BY <1>4
    <3>2. \A i \in Responses(es) \ {1} : i - 1 \in Responses(new)
      BY <1>4
    <3>3. \A i \in Responses(new) : \E j \in Responses(es) \ {1} : i = j - 1
      <4> SUFFICES ASSUME NEW i \in Responses(new)
                   PROVE  \E j \in Responses(es) \ {1} : i = j - 1
        OBVIOUS
      <4>1. i + 1 \in Responses(es) \ {1} /\ i = (i + 1) - 1
        BY <1>4
      <4> QED BY <4>1
    <3> QED BY <3>2, <3>3
  <2> QED BY <1>6, <2>1
<1>8. ASSUME NEW i \in Responses(new)
      PROVE  Cardinality(Ahead(new, i)) = Cardinality(Ahead(es, i + 1)) - k1
  <2>1. Ahead(es, i + 1) \in SUBSET Responses(es)
    BY DEF Ahead
  <2>2. 1 \in Responses(es) => 1 \in Ahead(es, i + 1)
    <3>1. 1 < i + 1
      BY <1>4
    <3> QED BY <3>1 DEF Ahead
  <2>3. Ahead(new, i) = {j - 1 : j \in Ahead(es, i + 1) \ {1}}
    <3>1. \A j \in Ahead(new, i) : j + 1 \in Ahead(es, i + 1) \ {1} /\ (j + 1) - 1 = j
      <4> SUFFICES ASSUME NEW j \in Ahead(new, i)
                   PROVE  j + 1 \in Ahead(es, i + 1) \ {1} /\ (j + 1) - 1 = j
        OBVIOUS
      <4>1. j \in Responses(new) /\ j < i /\ j \in Nat /\ i \in Nat
        BY <1>4 DEF Ahead
      <4>2. j + 1 \in Responses(es) /\ j + 1 # 1 /\ j + 1 < i + 1 /\ (j + 1) - 1 = j
        BY <1>4, <4>1
      <4> QED BY <4>2 DEF Ahead
    <3>2. \A j \in Ahead(es, i + 1) \ {1} : j - 1 \in Ahead(new, i)
      <4> SUFFICES ASSUME NEW j \in Ahead(es, i + 1), j # 1 PROVE j - 1 \in Ahead(new, i)
        OBVIOUS
      <4>1. j \in Responses(es) /\ j < i + 1 /\ j \in Nat /\ i \in Nat
        BY <1>1, <1>4 DEF Ahead
      <4>2. j - 1 \in Responses(new) /\ j - 1 < i
        BY <1>4, <4>1
      <4> QED BY <4>2 DEF Ahead
    <3> QED BY <3>1, <3>2
  <2> DEFINE T == Ahead(es, i + 1)
  <2> HIDE DEF T
  <2>4. Cardinality({j - 1 : j \in T \ {1}}) = Cardinality(T) - k1
    BY <1>6, <2>1, <2>2 DEF T
  <2> QED BY <2>3, <2>4 DEF T
<1>r. ResultsOf(es) \in Seq(R) /\ Len(ResultsOf(es)) = c
  BY ResultsSeq
<1>s. /\ ResultsOf(new) \in Seq(R) /\ Len(ResultsOf(new)) = d
      /\ \A k \in 1..d : \E i \in Responses(new) :
           Cardinality(Ahead(new, i)) = k - 1 /\ ResultsOf(new)[k] = Result(new[i])
  BY <1>2, ResultsSeq
<1>9. ASSUME NEW k \in 1..d PROVE ResultsOf(new)[k] = ResultsOf(es)[k + k1]
  <2>1. PICK i \in Responses(new) :
          Cardinality(Ahead(new, i)) = k - 1 /\ ResultsOf(new)[k] = Result(new[i])
    BY <1>s
  <2> DEFINE j == i + 1
  <2>2. j \in Responses(es) /\ new[i] = es[j] /\ Cardinality(Ahead(es, j)) \in Nat
    BY <1>4, FewAhead
  <2>3. k - 1 = Cardinality(Ahead(es, j)) - k1
    BY <1>8, <2>1
  <2> HIDE DEF j
  <2>4. ResultsOf(es)[Cardinality(Ahead(es, j)) + 1] = Result(es[j])
    BY <2>2, ResultAt
  <2>5. k1 \in Nat /\ k \in Nat
    BY <1>3
  <2> HIDE DEF k1
  <2>6. Cardinality(Ahead(es, j)) + 1 = k + k1
    BY <2>2, <2>3, <2>5
  <2> QED BY <2>1, <2>2, <2>4, <2>6
<1>10. CASE Head(es).type = "response"
  <2>1. k1 = 1 /\ d = c - 1
    BY <1>5, <1>7, <1>10
  <2>2. c # 0
    BY <1>3, <2>1
  <2> DEFINE s == ResultsOf(es)
             t == ResultsOf(new)
  <2> HIDE DEF R
  <2>3. s \in Seq(R) /\ Len(s) = c /\ t \in Seq(R) /\ Len(t) = d
        /\ \A k \in 1..d : t[k] = s[k + 1]
    BY <1>r, <1>s, <1>9, <2>1
  <2> HIDE DEF s, t
  <2>4. s # <<>>
    BY <2>2, <2>3, EmptySeq
  <2>5. /\ Tail(s) \in Seq(R) /\ Len(Tail(s)) = d
        /\ \A k \in 1..Len(Tail(s)) : Tail(s)[k] = s[k + 1]
    BY <2>1, <2>3, <2>4, HeadTailProperties
  <2>6. t = Tail(s)
    <3>1. \A k \in 1..Len(t) : t[k] = Tail(s)[k]
      BY <2>3, <2>5
    <3> QED BY <2>3, <2>5, <3>1, SeqEqual
  <2> QED BY <1>10, <2>4, <2>6 DEF s, t, new
<1>11. CASE Head(es).type # "response"
  <2>1. k1 = 0 /\ d = c
    BY <1>1, <1>5, <1>7, <1>11
  <2> DEFINE s == ResultsOf(es)
             t == ResultsOf(new)
  <2> HIDE DEF R
  <2>2. s \in Seq(R) /\ t \in Seq(R) /\ Len(s) = d /\ Len(t) = d /\ Len(s) = Len(t)
    BY <1>r, <1>s, <2>1
  <2>3. \A k \in 1..d : t[k] = s[k]
    <3> SUFFICES ASSUME NEW k \in 1..d PROVE t[k] = s[k]
      OBVIOUS
    <3>1. k + k1 = k
      BY <1>3, <2>1
    <3> QED BY <1>9, <3>1
  <2> HIDE DEF s, t
  <2>4. t = s
    BY <2>2, <2>3, SeqEqual
  <2> QED BY <1>11, <2>4 DEF s, t, new
<1> QED BY <1>10, <1>11

-----------------------------------------------------------------------------
(* The link implements RequestLedger.                                      *)

\* The open commands are the one in the worker's hands and those in its queue.
Held       == IF current = Nothing THEN <<>> ELSE <<current.id>>
NamesOf(q) == [i \in DOMAIN q |-> q[i].id]

\* A step is one of the ledger's.
LedgerStep == [Ledger!Next]_(Ledger!ledgerVars)

\* The names of the requests of a queue.
LEMMA QueueNames ==
    ASSUME NEW q \in Seq(Requests)
    PROVE  /\ Len(q) \in Nat /\ DOMAIN q = 1..Len(q)
           /\ NamesOf(q) \in Seq(Ids) /\ Len(NamesOf(q)) = Len(q)
           /\ \A i \in 1..Len(q) : NamesOf(q)[i] = q[i].id /\ q[i].id \in Ids
<1>1. /\ Len(q) \in Nat /\ DOMAIN q = 1..Len(q)
      /\ \A i \in 1..Len(q) : q[i] \in Requests /\ q[i].id \in Ids
  BY LenProperties, ElementOfSeq, NoRequest
<1> DEFINE names == NamesOf(q)
<1>2. names \in [1..Len(q) -> Ids] /\ \A i \in 1..Len(q) : names[i] = q[i].id
  BY <1>1 DEF NamesOf
<1> HIDE DEF names
<1>3. names \in Seq(Ids) /\ DOMAIN names = 1..Len(q)
  BY <1>1, <1>2, SeqDef
<1>4. Len(names) = Len(q)
  BY <1>1, <1>3, LenProperties
<1> QED BY <1>1, <1>2, <1>3, <1>4 DEF names

\* The names of the open commands.
LEMMA OpenFacts ==
    ASSUME TypeInv
    PROVE  /\ NamesOf(queue) \in Seq(Ids) /\ Len(NamesOf(queue)) = Len(queue)
           /\ \A i \in 1..Len(queue) : NamesOf(queue)[i] = queue[i].id
           /\ Held \in Seq(Ids) /\ Len(Held) = (IF Busy THEN 1 ELSE 0)
           /\ Busy => Held[1] = current.id
           /\ OpenCommands = Held \o NamesOf(queue) /\ OpenCommands \in Seq(Ids)
<1>1. /\ NamesOf(queue) \in Seq(Ids) /\ Len(NamesOf(queue)) = Len(queue)
      /\ \A i \in 1..Len(queue) : NamesOf(queue)[i] = queue[i].id
  BY QueueNames DEF TypeInv, GuiTypeOK
<1>5. /\ Held \in Seq(Ids) /\ Len(Held) = (IF Busy THEN 1 ELSE 0)
      /\ Busy => Held[1] = current.id
  <2>1. current = Nothing <=> ~Busy
    BY DEF TypeInv, WorkerInv
  <2>2. Busy => current.id \in Ids
    BY <2>1, NoRequest DEF TypeInv, GuiTypeOK
  <2>3. CASE Busy
    <3> DEFINE r == current.id
    <3>1. Held = <<r>> /\ r \in Ids
      BY <2>1, <2>2, <2>3 DEF Held
    <3> HIDE DEF r
    <3>2. Held \in Seq(Ids) /\ Len(Held) = 1 /\ Held[1] = r
      BY <3>1
    <3> QED BY <2>3, <3>2 DEF r
  <2>4. CASE ~Busy
    <3>1. Held = <<>>
      BY <2>1, <2>4 DEF Held
    <3> QED BY <2>4, <3>1, EmptySeq
  <2> QED BY <2>3, <2>4
<1>6. OpenCommands = Held \o NamesOf(queue)
  BY DEF OpenCommands, Held, NamesOf
<1>7. OpenCommands \in Seq(Ids)
  BY <1>1, <1>5, <1>6, ConcatProperties
<1> QED BY <1>1, <1>5, <1>6, <1>7

\* Nothing else is open.
LEMMA OpenElements ==
    ASSUME TypeInv
    PROVE  \A r \in Ledger!ElementsOf(LedgerOpen) :
             (Busy /\ r = current.id) \/ \E i \in DOMAIN queue : r = queue[i].id
<1>1. /\ NamesOf(queue) \in Seq(Ids) /\ Len(NamesOf(queue)) = Len(queue)
      /\ \A i \in 1..Len(queue) : NamesOf(queue)[i] = queue[i].id
      /\ Held \in Seq(Ids) /\ Len(Held) = (IF Busy THEN 1 ELSE 0)
      /\ Busy => Held[1] = current.id
      /\ OpenCommands = Held \o NamesOf(queue)
  BY OpenFacts
<1>2. Len(queue) \in Nat /\ DOMAIN queue = 1..Len(queue) /\ Len(Held) \in Nat
  BY <1>1, LenProperties DEF TypeInv, GuiTypeOK
<1>3. /\ OpenCommands \in Seq(Ids) /\ Len(OpenCommands) = Len(Held) + Len(queue)
      /\ \A i \in 1..(Len(Held) + Len(queue)) :
           OpenCommands[i] = IF i <= Len(Held) THEN Held[i] ELSE NamesOf(queue)[i - Len(Held)]
  <2> DEFINE a == Held
             b == NamesOf(queue)
  <2>1. /\ a \in Seq(Ids) /\ b \in Seq(Ids) /\ Len(b) = Len(queue)
        /\ OpenCommands = a \o b
    BY <1>1
  <2>2. a = Held /\ b = NamesOf(queue)
    OBVIOUS
  <2> HIDE DEF a, b
  <2>3. /\ a \o b \in Seq(Ids) /\ Len(a \o b) = Len(a) + Len(b)
        /\ \A i \in 1..(Len(a) + Len(b)) :
             (a \o b)[i] = IF i <= Len(a) THEN a[i] ELSE b[i - Len(a)]
    BY <2>1, ConcatProperties
  <2> QED BY <2>1, <2>2, <2>3
<1>4. DOMAIN OpenCommands = 1..(Len(Held) + Len(queue))
  BY <1>3, LenProperties
<1>5. ASSUME NEW i \in DOMAIN OpenCommands
      PROVE  \/ Busy /\ OpenCommands[i] = current.id
             \/ \E j \in DOMAIN queue : OpenCommands[i] = queue[j].id
  <2>1. CASE i <= Len(Held)
    <3>1. Busy /\ i = 1
      BY <1>1, <1>2, <1>4, <2>1
    <3> QED BY <1>1, <1>3, <1>4, <2>1, <3>1
  <2>2. CASE ~(i <= Len(Held))
    <3> DEFINE j == i - Len(Held)
    <3>1. j \in 1..Len(queue)
      BY <1>2, <1>4, <2>2
    <3>2. OpenCommands[i] = NamesOf(queue)[j]
      BY <1>3, <1>4, <2>2
    <3> HIDE DEF j
    <3> QED BY <1>1, <1>2, <3>1, <3>2
  <2> QED BY <2>1, <2>2
<1>6. ASSUME NEW r \in Ledger!ElementsOf(LedgerOpen)
      PROVE  (Busy /\ r = current.id) \/ \E i \in DOMAIN queue : r = queue[i].id
  <2>1. PICK i \in DOMAIN LedgerOpen : r = LedgerOpen[i]
    BY DEF Ledger!ElementsOf
  <2>2. LedgerOpen = OpenCommands
    <3>1. DOMAIN <<>> = {}
      OBVIOUS
    <3> QED BY <2>1, <3>1 DEF LedgerOpen
  <2> QED BY <1>5, <2>1, <2>2
<1> QED BY <1>6

\* What is to do are the names of requests.
LEMMA ToDoNames ==
    ASSUME TypeInv
    PROVE  /\ NotCarriedOut \in SUBSET Ids
           /\ \A r : r \in NotCarriedOut <=>
                \/ \E i \in DOMAIN queue : r = queue[i].id
                \/ workerPc = "send" /\ r = current.id
                \/ \E s \in outgoing \cup AtServer : r = s.request.id
<1>1. \A r : r \in NotCarriedOut <=>
                \/ \E i \in DOMAIN queue : r = queue[i].id
                \/ workerPc = "send" /\ r = current.id
                \/ \E s \in outgoing \cup AtServer : r = s.request.id
  BY DEF NotCarriedOut, IdsOf
<1>2. \A i \in DOMAIN queue : queue[i].id \in Ids
  BY LenProperties, ElementOfSeq, NoRequest DEF TypeInv, GuiTypeOK
<1>3. workerPc = "send" => current.id \in Ids
  BY NoRequest DEF TypeInv, GuiTypeOK, WorkerInv, Busy
<1>4. \A s \in outgoing \cup AtServer : s.request.id \in Ids
  BY TypeParts, ServerFacts, NoRequest DEF TypeInv, SocketTypes
<1> QED BY <1>1, <1>2, <1>3, <1>4

\* A step that at most loses commands.
LEMMA LoseStep ==
    ASSUME TypeInv, UNCHANGED <<LedgerOpen, LedgerResults, LedgerAnswered>>,
           NotCarriedOut' \subseteq NotCarriedOut
    PROVE  LedgerStep
<1> DEFINE lost == NotCarriedOut \ NotCarriedOut'
<1>1. lost \in SUBSET Ids /\ lost \subseteq NotCarriedOut /\ NotCarriedOut' = NotCarriedOut \ lost
  BY ToDoNames
<1> HIDE DEF lost
<1>2. Ledger!Lose(lost)
  BY <1>1 DEF Ledger!Lose
<1>3. Ledger!Next
  BY <1>1, <1>2 DEF Ledger!Next
<1> QED BY <1>3 DEF LedgerStep

\* New commands are appended to the open ones and have names that nothing else
\* has, not even a result that is still to be handled.
LEMMA NewNames ==
    ASSUME TypeInv, LinkInv, events' \in Seq(Events),
           NEW cs \in Seq(Commands), NEW from \in SUBSET pending, NEW free \in SUBSET Ids,
           NEW ids \in [1..Len(cs) -> free], Sends(cs, from, free), Batch(cs, from, ids)
    PROVE  /\ ids \in Seq(Ids) /\ Len(ids) = Len(cs) /\ Len(cs) \in Nat /\ DOMAIN ids = 1..Len(cs)
           /\ \A i, j \in DOMAIN ids : i # j => ids[i] # ids[j]
           /\ LedgerOpen' = LedgerOpen \o ids
           /\ NotCarriedOut' = NotCarriedOut \cup Ledger!ElementsOf(ids)
           /\ Ledger!ElementsOf(ids) \cap (Ledger!ElementsOf(LedgerOpen) \cup NotCarriedOut) = {}
           /\ \A k \in DOMAIN LedgerResults' : LedgerResults'[k].id \notin Ledger!ElementsOf(ids)
           /\ UNCHANGED LedgerAnswered
<1> DEFINE n == Len(cs)
<1>1. /\ n \in Nat /\ DOMAIN cs = 1..n /\ queue \in Seq(Requests)
  BY LenProperties DEF TypeInv, GuiTypeOK
<1>2. /\ queue' \in Seq(Requests) /\ Len(queue') = Len(queue) + n
      /\ \A i \in 1..Len(queue) : queue'[i] = queue[i]
      /\ \A i \in 1..n : queue'[Len(queue) + i] = [id |-> ids[i], command |-> cs[i]]
      /\ \A i, j \in 1..n : ids[i] = ids[j] => i = j
  BY DEF Batch
<1>q. \A i \in 1..n : queue'[Len(queue) + i].id = ids[i]
  <2> SUFFICES ASSUME NEW i \in 1..n PROVE queue'[Len(queue) + i].id = ids[i]
    OBVIOUS
  <2> DEFINE r == [id |-> ids[i], command |-> cs[i]]
  <2>1. queue'[Len(queue) + i] = r
    BY <1>2
  <2>2. r.id = ids[i]
    OBVIOUS
  <2> HIDE DEF r
  <2> QED BY <2>1, <2>2
<1>3. /\ mainPc = "loop" /\ mainPc' = "loop" /\ Kept(from)
      /\ UNCHANGED <<workerPc, current, outgoing, inbound, serving, answers>>
      /\ n # 0 => Fresh(free, from)
  BY DEF Sends, workerVars, serverVars
<1> HIDE DEF n
<1>4. ids \in Seq(Ids) /\ DOMAIN ids = 1..n /\ \A i \in 1..n : ids[i] \in free
  <2>1. ids \in [1..n -> Ids] /\ ids \in [1..n -> free]
    BY DEF n
  <2> QED BY <1>1, <2>1, SeqDef
<1>5. Len(ids) = n
  BY <1>1, <1>4, LenProperties
<1>6. NamesOf(queue') = NamesOf(queue) \o ids
  <2> DEFINE a == NamesOf(queue)
             b == NamesOf(queue')
             c == a \o ids
  <2>1. /\ Len(queue) \in Nat /\ a \in Seq(Ids) /\ Len(a) = Len(queue)
        /\ \A i \in 1..Len(queue) : a[i] = queue[i].id
    BY <1>1, QueueNames
  <2>2. /\ b \in Seq(Ids) /\ Len(b) = Len(queue) + n
        /\ \A i \in 1..(Len(queue) + n) : b[i] = queue'[i].id
    BY <1>2, QueueNames
  <2> HIDE DEF a, b
  <2>c. /\ a \in Seq(Ids) /\ ids \in Seq(Ids)
        /\ Len(a) = Len(queue) /\ Len(ids) = n
    BY <1>4, <1>5, <2>1
  <2>d. /\ c \in Seq(Ids) /\ Len(c) = Len(a) + Len(ids)
        /\ \A i \in 1..(Len(a) + Len(ids)) :
             c[i] = IF i <= Len(a) THEN a[i] ELSE ids[i - Len(a)]
    BY <2>c, ConcatProperties
  <2> HIDE DEF c
  <2>3. /\ c \in Seq(Ids) /\ Len(c) = Len(queue) + n
        /\ \A i \in 1..(Len(queue) + n) :
             c[i] = IF i <= Len(queue) THEN a[i] ELSE ids[i - Len(queue)]
    BY <2>c, <2>d
  <2>4. ASSUME NEW i \in 1..(Len(queue) + n) PROVE b[i] = c[i]
    <3>1. CASE i <= Len(queue)
      <4>1. i \in 1..Len(queue)
        BY <1>1, <2>1, <3>1
      <4> QED BY <1>2, <2>1, <2>2, <2>3, <3>1, <4>1
    <3>2. CASE ~(i <= Len(queue))
      <4> DEFINE k == i - Len(queue)
      <4>1. k \in 1..n /\ i = Len(queue) + k
        BY <1>1, <2>1, <3>2
      <4>2. c[i] = ids[k]
        BY <2>3, <3>2
      <4> HIDE DEF k
      <4>3. b[i] = [id |-> ids[k], command |-> cs[k]].id
        BY <1>2, <2>2, <4>1
      <4> QED BY <4>2, <4>3
    <3> QED BY <3>1, <3>2
  <2>5. b = c
    BY <2>2, <2>3, <2>4, SeqEqual
  <2> QED BY <2>5 DEF a, b, c
<1>7. LedgerOpen' = LedgerOpen \o ids
  <2>1. Held' = Held /\ Held \in Seq(Ids) /\ NamesOf(queue) \in Seq(Ids)
    BY <1>3, OpenFacts DEF Held
  <2>2. OpenCommands' = Held' \o NamesOf(queue') /\ OpenCommands = Held \o NamesOf(queue)
    BY DEF OpenCommands, Held, NamesOf
  <2>3. OpenCommands' = OpenCommands \o ids
    BY <1>4, <1>6, <2>1, <2>2, ConcatAssociative
  <2> QED BY <1>3, <2>3 DEF LedgerOpen
<1>8. NotCarriedOut' = NotCarriedOut \cup Ledger!ElementsOf(ids)
  <2>1. {queue[i].id : i \in DOMAIN queue}' = {queue[i].id : i \in DOMAIN queue} \cup Ledger!ElementsOf(ids)
    <3> DEFINE q == Len(queue)
    <3>1. q \in Nat /\ DOMAIN queue = 1..q /\ DOMAIN queue' = 1..(q + n)
      BY <1>1, <1>2, LenProperties
    <3> HIDE DEF q
    <3>2. ASSUME NEW i \in 1..(q + n)
          PROVE  \/ i \in 1..q /\ queue'[i].id = queue[i].id
                 \/ \E k \in 1..n : queue'[i].id = ids[k]
      <4>1. CASE i <= q
        BY <1>2, <3>1, <4>1 DEF q
      <4>2. CASE ~(i <= q)
        <5> DEFINE k == i - q
        <5>1. k \in 1..n /\ i = q + k
          BY <1>1, <3>1, <4>2
        <5> HIDE DEF k
        <5>2. queue'[i].id = ids[k]
          BY <1>q, <5>1 DEF q
        <5> QED BY <5>1, <5>2
      <4> QED BY <4>1, <4>2
    <3>3. \A k \in 1..n : q + k \in 1..(q + n) /\ queue'[q + k].id = ids[k]
      BY <1>1, <1>q, <3>1 DEF q
    <3>4. \A i \in 1..q : i \in 1..(q + n) /\ queue'[i].id = queue[i].id
      BY <1>1, <1>2, <3>1 DEF q
    <3>5. \A x : x \in {queue'[i].id : i \in 1..(q + n)} <=>
                   x \in {queue[i].id : i \in 1..q} \/ x \in {ids[i] : i \in 1..n}
      BY <3>2, <3>3, <3>4
    <3> QED BY <1>4, <3>1, <3>5 DEF Ledger!ElementsOf
  <2> QED BY <1>3, <2>1 DEF NotCarriedOut, IdsOf, AtServer
<1>9. ASSUME NEW k \in 1..n
      PROVE  /\ \A p \in from : p.id # ids[k]
             /\ \A s \in outgoing \cup AtServer : s.request.id # ids[k]
  BY <1>1, <1>3, <1>4, <1>9 DEF Fresh
<1>10. /\ \A i \in DOMAIN queue : \E p \in from : p.id = queue[i].id
       /\ Busy => \E p \in from : p.id = current.id
  BY <1>3 DEF Kept, Entry, EntryOf
<1>11. ASSUME NEW k \in 1..n
       PROVE  ids[k] \notin Ledger!ElementsOf(LedgerOpen) /\ ids[k] \notin NotCarriedOut
  <2>1. ~(Busy /\ ids[k] = current.id) /\ \A i \in DOMAIN queue : ids[k] # queue[i].id
    BY <1>9, <1>10
  <2>2. ids[k] \notin Ledger!ElementsOf(LedgerOpen)
    BY <2>1, OpenElements
  <2>3. workerPc = "send" => Busy
    BY DEF Busy
  <2> QED BY <1>9, <2>1, <2>2, <2>3, ToDoNames
<1>12. ASSUME NEW k \in DOMAIN LedgerResults', NEW j \in 1..n
       PROVE  LedgerResults'[k].id # ids[j]
  <2> DEFINE es == events'
  <2>1. LedgerResults' = ResultsOf(es) /\ es \in Seq(Events)
    BY <1>3 DEF LedgerResults, ResultsOf, Place, Ahead, Responses
  <2>2. PICK i \in Responses(es) : ResultsOf(es)[k] = Result(es[i])
    <3> HIDE DEF es
    <3> QED BY <2>1, ResultsSeq
  <2>3. \E q \in from : q.id = events'[i].id
    BY <1>3, <2>2 DEF Kept
  <2> QED BY <1>9, <2>1, <2>2, <2>3 DEF Result
<1>13. UNCHANGED LedgerAnswered
  BY <1>3 DEF LedgerAnswered, AnswerTo
<1>14. \A r : r \in Ledger!ElementsOf(ids) <=> \E k \in 1..n : r = ids[k]
  BY <1>4 DEF Ledger!ElementsOf
<1>15. Ledger!ElementsOf(ids) \cap (Ledger!ElementsOf(LedgerOpen) \cup NotCarriedOut) = {}
  BY <1>11, <1>14
<1>16. \A k \in DOMAIN LedgerResults' : LedgerResults'[k].id \notin Ledger!ElementsOf(ids)
  BY <1>12, <1>14
<1>17. \A i, j \in DOMAIN ids : i # j => ids[i] # ids[j]
  BY <1>2, <1>4
<1> QED BY <1>1, <1>4, <1>5, <1>7, <1>8, <1>13, <1>15, <1>16, <1>17 DEF n

\* Commands with new names make a batch.
LEMMA BatchOf ==
    ASSUME NEW ids \in Seq(Ids), Len(ids) \in 0..2
    PROVE  ids \in Ledger!Batches
<1>1. \A i \in 1..Len(ids) : ids[i] \in Ids
  BY ElementOfSeq
<1>2. CASE Len(ids) = 0
  BY <1>2, EmptySeq DEF Ledger!Batches
<1>3. CASE Len(ids) = 1
  <2> DEFINE r == ids[1]
             b == <<r>>
  <2>1. r \in Ids
    BY <1>1, <1>3
  <2>2. b \in Ledger!Batches
    BY <2>1 DEF Ledger!Batches
  <2>3. b \in Seq(Ids) /\ Len(b) = 1 /\ b[1] = ids[1]
    BY <2>1
  <2> HIDE DEF b
  <2>4. \A i \in 1..Len(ids) : ids[i] = b[i]
    BY <1>3, <2>3
  <2>5. ids = b
    BY <1>3, <2>3, <2>4, SeqEqual
  <2> QED BY <2>2, <2>5
<1>4. CASE Len(ids) = 2
  <2> DEFINE r == ids[1]
             s == ids[2]
             b == <<r, s>>
  <2>1. r \in Ids /\ s \in Ids
    BY <1>1, <1>4
  <2>2. b \in Ledger!Batches
    BY <2>1 DEF Ledger!Batches
  <2>3. b \in Seq(Ids) /\ Len(b) = 2 /\ b[1] = ids[1] /\ b[2] = ids[2]
    BY <2>1
  <2> HIDE DEF b
  <2>4. \A i \in 1..Len(ids) : ids[i] = b[i]
    BY <1>4, <2>3
  <2>5. ids = b
    BY <1>4, <2>3, <2>4, SeqEqual
  <2> QED BY <2>2, <2>5
<1> QED BY <1>2, <1>3, <1>4

\* Results as the ledger sees them, before and after.
LEMMA ResultsNow ==
    /\ mainPc = "loop" => LedgerResults = ResultsOf(events)
    /\ mainPc' = "loop" => LedgerResults' = ResultsOf(events')
BY DEF LedgerResults, ResultsOf, Place, Ahead, Responses

\* A widget gives commands, on its own or when it handles a status.
LEMMA GiveStep ==
    ASSUME TypeInv, LinkInv, NEW cs \in Seq(Commands), Len(cs) \in 0..2,
           Sends(cs, pending, FreeIds),
           \/ events' = events
           \/ events # <<>> /\ events' = Tail(events) /\ Head(events).type # "response"
    PROVE  LedgerStep
<1>1. /\ FreeIds \in SUBSET Ids /\ pending \in SUBSET pending
      /\ queue \in Seq(Requests) /\ events \in Seq(Events)
      /\ SendCommands(cs, pending, FreeIds) /\ mainPc = "loop" /\ mainPc' = "loop"
  BY DEF FreeIds, TypeInv, GuiTypeOK, Sends
<1>2. PICK ids \in [1..Len(cs) -> FreeIds] : Batch(cs, pending, ids)
  BY <1>1, SendFacts
<1>3. events' \in Seq(Events) /\ ResultsOf(events') = ResultsOf(events)
  <2>1. CASE events # <<>> /\ events' = Tail(events) /\ Head(events).type # "response"
    BY <1>1, <2>1, ResultsTail, HeadTailProperties
  <2> QED BY <1>1, <2>1
<1>4. LedgerResults' = LedgerResults
  BY <1>1, <1>3, ResultsNow
<1>5. /\ ids \in Seq(Ids) /\ Len(ids) = Len(cs)
      /\ \A i, j \in DOMAIN ids : i # j => ids[i] # ids[j]
      /\ LedgerOpen' = LedgerOpen \o ids
      /\ NotCarriedOut' = NotCarriedOut \cup Ledger!ElementsOf(ids)
      /\ Ledger!ElementsOf(ids) \cap (Ledger!ElementsOf(LedgerOpen) \cup NotCarriedOut) = {}
      /\ \A k \in DOMAIN LedgerResults' : LedgerResults'[k].id \notin Ledger!ElementsOf(ids)
      /\ UNCHANGED LedgerAnswered
  BY <1>1, <1>2, <1>3, NewNames
<1>6. Ledger!Give(ids)
  BY <1>4, <1>5, Zenon DEF Ledger!Give
<1>7. ids \in Ledger!Batches
  BY <1>5, BatchOf
<1> QED BY <1>6, <1>7 DEF LedgerStep, Ledger!Next

\* A result is handled, and its consumer may give another command.
LEMMA HandOverStep ==
    ASSUME TypeInv, LinkInv, NEW cs \in Seq(Commands), Len(cs) \in 0..1,
           NEW p \in pending, HandleResponse(p, cs),
           Len(cs) # 0 => Head(events).result # "failed"
    PROVE  LedgerStep
<1> DEFINE from == pending \ {p}
           free == FreeIds \cup {p.id}
<1>1. /\ Sends(cs, from, free) /\ free \in SUBSET Ids /\ from \in SUBSET pending
      /\ events # <<>> /\ events' = Tail(events) /\ Head(events).type = "response"
  BY ResponseSends DEF HandleResponse
<1> HIDE DEF from, free
<1>2. /\ queue \in Seq(Requests) /\ events \in Seq(Events)
      /\ SendCommands(cs, from, free) /\ mainPc = "loop" /\ mainPc' = "loop"
  BY <1>1 DEF TypeInv, GuiTypeOK, Sends
<1>3. PICK ids \in [1..Len(cs) -> free] : Batch(cs, from, ids)
  BY <1>1, <1>2, SendFacts
<1>4. /\ events' \in Seq(Events)
      /\ ResultsOf(events) # <<>> /\ ResultsOf(events') = Tail(ResultsOf(events))
  BY <1>1, <1>2, ResultsTail, HeadTailProperties
<1>5. LedgerResults # <<>> /\ LedgerResults' = Tail(LedgerResults)
  BY <1>2, <1>4, ResultsNow
<1>6. /\ ids \in Seq(Ids) /\ Len(ids) = Len(cs)
      /\ LedgerOpen' = LedgerOpen \o ids
      /\ NotCarriedOut' = NotCarriedOut \cup Ledger!ElementsOf(ids)
      /\ Ledger!ElementsOf(ids) \cap (Ledger!ElementsOf(LedgerOpen) \cup NotCarriedOut) = {}
      /\ \A k \in DOMAIN LedgerResults' : LedgerResults'[k].id \notin Ledger!ElementsOf(ids)
      /\ UNCHANGED LedgerAnswered
  BY <1>1, <1>3, <1>4, NewNames
<1>7. \A i \in DOMAIN LedgerResults : i > 1 => LedgerResults[i].id \notin Ledger!ElementsOf(ids)
  <2> DEFINE s == LedgerResults
             R == {Result(e) : e \in Events}
  <2>1. s \in Seq(R) /\ s # <<>>
    BY <1>2, <1>5, ResultsNow, ResultsSeq
  <2> HIDE DEF s, R
  <2>2. /\ Len(s) \in Nat \ {0} /\ DOMAIN s = 1..Len(s)
        /\ Tail(s) \in Seq(R) /\ Len(Tail(s)) = Len(s) - 1
        /\ \A i \in 1..Len(Tail(s)) : Tail(s)[i] = s[i + 1]
    BY <2>1, LenProperties, EmptySeq, HeadTailProperties
  <2>3. DOMAIN Tail(s) = 1..(Len(s) - 1)
    BY <2>2, LenProperties
  <2>4. ASSUME NEW i \in DOMAIN s, i > 1 PROVE s[i].id \notin Ledger!ElementsOf(ids)
    <3> DEFINE k == i - 1
    <3>1. k \in 1..(Len(s) - 1) /\ k + 1 = i
      BY <2>2, <2>4
    <3> HIDE DEF k
    <3>2. Tail(s)[k] = s[i]
      BY <2>2, <3>1
    <3>3. k \in DOMAIN LedgerResults' /\ LedgerResults'[k] = s[i]
      BY <1>5, <2>3, <3>1, <3>2 DEF s
    <3> QED BY <1>6, <3>3
  <2> QED BY <2>4 DEF s
<1>8. Ledger!HandOver(ids)
  <2>1. Len(ids) < 2
    BY <1>6
  <2> QED BY <1>5, <1>6, <1>7, <2>1, Zenon DEF Ledger!HandOver
<1>9. ids \in Ledger!Batches
  <2>1. Len(ids) \in 0..2
    BY <1>6
  <2> QED BY <1>6, <2>1, BatchOf
<1> QED BY <1>8, <1>9 DEF LedgerStep, Ledger!Next

\* What is to do after a step.
LEMMA ToDoAfter ==
    \A r : r \in NotCarriedOut' <=>
             \/ \E i \in DOMAIN queue' : r = queue'[i].id
             \/ workerPc' = "send" /\ r = current'.id
             \/ \E s \in outgoing' \cup AtServer' : r = s.request.id
BY DEF NotCarriedOut, IdsOf

\* A step that leaves the requests to the GUI and its worker where they are.
LEMMA QuietStep ==
    ASSUME TypeInv, UNCHANGED <<mainPc, queue, current, answers>>,
           mainPc = "loop" => ResultsOf(events') = ResultsOf(events),
           workerPc' = "send" => workerPc = "send",
           \A s \in outgoing' \cup AtServer' :
             \E t \in outgoing \cup AtServer : t.request = s.request
    PROVE  LedgerStep
<1>1. LedgerOpen' = LedgerOpen
  BY DEF LedgerOpen, OpenCommands
<1>2. LedgerResults' = LedgerResults
  BY ResultsNow DEF LedgerResults
<1>3. LedgerAnswered' = LedgerAnswered
  BY DEF LedgerAnswered, AnswerTo
<1>4. NotCarriedOut' \subseteq NotCarriedOut
  <2>1. ASSUME NEW s \in outgoing' \cup AtServer'
        PROVE  \E t \in outgoing \cup AtServer : s.request.id = t.request.id
    OBVIOUS
  <2> QED BY <2>1, ToDoNames, ToDoAfter
<1> QED BY <1>1, <1>2, <1>3, <1>4, LoseStep

\* When the main thread has left its event loop the ledger is closed.
LEMMA ClosedStep ==
    ASSUME TypeInv, mainPc # "loop", mainPc' # "loop", NotCarriedOut' \subseteq NotCarriedOut
    PROVE  LedgerStep
<1>1. UNCHANGED <<LedgerOpen, LedgerResults, LedgerAnswered>>
  BY DEF LedgerOpen, LedgerResults, LedgerAnswered
<1> QED BY <1>1, LoseStep

\* The operator's steps are the ledger's.
LEMMA OperatorStep == TypeInv /\ LinkInv /\ Operator => LedgerStep
<1> SUFFICES ASSUME TypeInv, LinkInv, Operator PROVE LedgerStep
  OBVIOUS
<1>1. ASSUME NEW cs \in Seq(Commands), Len(cs) \in 1..2, NEW reserve, Operate(cs, reserve)
      PROVE  LedgerStep
  <2>1. Sends(cs, pending, FreeIds) /\ events' = events
    BY <1>1, OperateSends
  <2>2. Len(cs) \in 0..2
    BY <1>1
  <2> QED BY <2>1, <2>2, GiveStep
<1>2. CASE OpenPanel
  <2>1. UNCHANGED <<mainPc, events, queue, workerPc, current, outgoing, inbound, serving, answers>>
    BY <1>2 DEF OpenPanel, linkVars, guiVars, workerVars, serverVars
  <2> QED BY <2>1, QuietStep DEF AtServer
<1>3. ASSUME NEW kind \in {"diagnostics", "change"}, PressButton(kind) PROVE LedgerStep
  <2> DEFINE cs == <<MotorCommand(kind, selected)>>
  <2>1. selected \in Motors /\ Operate(cs, 0)
    BY <1>3 DEF PressButton, Request, TypeInv, GuiTypeOK
  <2>2. cs \in Seq(Commands) /\ Len(cs) = 1
    BY <2>1, CommandFacts, Batches
  <2> HIDE DEF cs
  <2> QED BY <1>1, <2>1, <2>2
<1>4. ASSUME NEW m \in Motors, NEW times \in 1..2, ChooseMotor(m, times) PROVE LedgerStep
  <2> DEFINE cs == [i \in 1..times |-> Diagnostics(m)]
  <2>1. cs \in Seq(Commands) /\ Len(cs) = times /\ Operate(cs, 0)
    BY <1>4, Batches DEF ChooseMotor, Request
  <2> HIDE DEF cs
  <2> QED BY <1>1, <2>1
<1>5. CASE OtherCommand
  <2> DEFINE cs == <<[kind |-> "other"]>>
  <2>1. cs \in Seq(Commands) /\ Len(cs) = 1 /\ Operate(cs, 1)
    BY <1>5, CommandFacts, Batches DEF OtherCommand
  <2> HIDE DEF cs
  <2> QED BY <1>1, <2>1
<1>6. CASE CloseWindow
  <2>1. /\ mainPc' # "loop"
        /\ UNCHANGED <<queue, workerPc, current, outgoing, inbound, serving>>
    BY <1>6 DEF CloseWindow, Stop, workerVars, serverVars
  <2>2. NotCarriedOut' = NotCarriedOut
    BY <2>1 DEF NotCarriedOut, IdsOf, AtServer
  <2>3. LedgerOpen' = <<>> /\ LedgerResults' = <<>> /\ LedgerAnswered' = [r \in Ids |-> "none"]
    BY <2>1 DEF LedgerOpen, LedgerResults, LedgerAnswered
  <2> QED BY <2>2, <2>3 DEF LedgerStep, Ledger!Next, Ledger!Close
<1> QED
  BY <1>2, <1>3, <1>4, <1>5, <1>6
  DEF Operator, PressResetControl, AnswerToolChanger, RefreshContec

\* What is handled on the main thread are steps of the ledger.
LEMMA EventStep == TypeInv /\ LinkInv /\ HandleEvent => LedgerStep
<1> SUFFICES ASSUME TypeInv, LinkInv, HandleEvent PROVE LedgerStep
  OBVIOUS
<1>0. events \in Seq(Events)
  BY DEF TypeInv, GuiTypeOK
<1>1. ASSUME NEW cs \in Seq(Commands), Len(cs) \in 0..1, HandleStatus(cs) PROVE LedgerStep
  <2>1. Sends(cs, pending, FreeIds) /\ events # <<>> /\ events' = Tail(events)
    BY <1>1, StatusSends
  <2>2. Len(cs) \in 0..2 /\ Head(events).type # "response"
    BY <1>1 DEF HandleStatus
  <2> QED BY <2>1, <2>2, GiveStep
<1>3. CASE ShowStatus
  <2>1. FirstMotor \in Motors \/ Motors = {}
    BY DEF FirstMotor
  <2>2. Motors # {} => <<Diagnostics(FirstMotor)>> \in Seq(Commands) /\ Len(<<Diagnostics(FirstMotor)>>) = 1
    BY <2>1, CommandFacts, Batches
  <2>3. \E cs \in Seq(Commands) : Len(cs) \in 0..1 /\ HandleStatus(cs)
    <3>1. CASE Motors # {} /\ HandleStatus(<<Diagnostics(FirstMotor)>>)
      <4> DEFINE cs == <<Diagnostics(FirstMotor)>>
      <4>1. cs \in Seq(Commands) /\ Len(cs) = 1 /\ HandleStatus(cs)
        BY <2>2, <3>1
      <4> HIDE DEF cs
      <4>2. Len(cs) \in 0..1
        BY <4>1
      <4> QED BY <4>1, <4>2
    <3>2. CASE HandleStatus(<<>>)
      <4> DEFINE cs == <<>>
      <4>1. cs \in Seq(Commands) /\ Len(cs) = 0 /\ HandleStatus(cs)
        BY <3>2, Batches
      <4> HIDE DEF cs
      <4>2. Len(cs) \in 0..1
        BY <4>1
      <4> QED BY <4>1, <4>2
    <3> QED BY <1>3, <3>1, <3>2 DEF ShowStatus
  <2> QED BY <1>1, <2>3
<1>4. CASE ShowLoss
  <2>1. /\ mainPc = "loop" /\ events # <<>> /\ events' = Tail(events) /\ Head(events).type = "lost"
        /\ UNCHANGED <<mainPc, queue, workerPc, current, outgoing, inbound, serving, answers>>
    BY <1>4 DEF ShowLoss, HandleLost, workerVars, serverVars
  <2>2. ResultsOf(Tail(events)) = ResultsOf(events)
    BY <1>0, <2>1, ResultsTail
  <2> QED BY <2>1, <2>2, QuietStep DEF AtServer
<1>5. CASE ShowResponse
  <2> DEFINE e == Head(events)
  <2>1. PICK p \in pending :
          /\ p.id = e.id
          /\ IF p.consumer /\ e.result # "failed" THEN MotorResponse(e) ELSE NoConsumer(p)
    BY <1>5 DEF ShowResponse
  <2>2. p \in [id : Ids, consumer : BOOLEAN]
    BY DEF TypeInv, GuiTypeOK
  <2>3. ASSUME HandleResponse(p, <<>>) PROVE LedgerStep
    <3> DEFINE cs == <<>>
    <3>1. cs \in Seq(Commands) /\ Len(cs) = 0 /\ HandleResponse(p, cs)
      BY <2>3, Batches
    <3> HIDE DEF cs, e
    <3>2. Len(cs) \in 0..1 /\ ~(Len(cs) # 0)
      BY <3>1
    <3> QED BY <3>1, <3>2, HandOverStep
  <2>4. CASE NoConsumer(p)
    BY <2>3, <2>4 DEF NoConsumer
  <2>5. CASE p.consumer /\ e.result # "failed" /\ MotorResponse(e)
    <3>1. p = [id |-> e.id, consumer |-> TRUE]
      BY <2>1, <2>2, <2>5
    <3>2. CASE Show(e)
      BY <2>3, <3>1, <3>2 DEF Show
    <3>3. CASE HandleResponse([id |-> e.id, consumer |-> TRUE], <<Diagnostics(selected)>>)
      <4> DEFINE cs == <<Diagnostics(selected)>>
      <4>1. selected \in Motors
        BY <2>5, <3>3 DEF TypeInv, SelectedInv, HandleResponse
      <4>2. cs \in Seq(Commands) /\ Len(cs) = 1 /\ HandleResponse(p, cs)
        BY <3>1, <3>3, <4>1, CommandFacts, Batches
      <4> HIDE DEF cs
      <4>3. Len(cs) \in 0..1
        BY <4>2
      <4> QED BY <2>5, <4>2, <4>3, HandOverStep
    <3> QED BY <2>5, <3>2, <3>3 DEF MotorResponse
  <2> QED BY <2>1, <2>4, <2>5
<1> QED BY <1>3, <1>4, <1>5 DEF HandleEvent

\* The worker takes its next command: it stays the first of the open ones.
LEMMA TakeStep == TypeInv /\ TakeCommand => LedgerStep
<1> SUFFICES ASSUME TypeInv, TakeCommand PROVE LedgerStep
  OBVIOUS
<1>1. /\ workerPc = "take" /\ queue # <<>> /\ current' = Head(queue) /\ queue' = Tail(queue)
      /\ workerPc' = "send" /\ UNCHANGED <<mainPc, events, outgoing, inbound, serving, answers>>
  BY DEF TakeCommand, guiVars, serverVars
<1>2. /\ queue \in Seq(Requests) /\ current = Nothing
  BY <1>1 DEF TypeInv, GuiTypeOK, WorkerInv, Busy
<1>3. /\ Len(queue) \in Nat \ {0} /\ DOMAIN queue = 1..Len(queue)
      /\ queue' \in Seq(Requests) /\ Len(queue') = Len(queue) - 1
      /\ DOMAIN queue' = 1..(Len(queue) - 1)
      /\ \A i \in 1..(Len(queue) - 1) : queue'[i] = queue[i + 1]
      /\ current' = queue[1]
  BY <1>1, <1>2, HeadTailProperties, LenProperties, EmptySeq
<1>4. current' \in Requests /\ current' # Nothing /\ current'.id \in Ids
  BY <1>2, <1>3, ElementOfSeq, NoRequest
<1>5. OpenCommands' = OpenCommands
  <2> DEFINE r == current'.id
             a == <<r>>
             b == NamesOf(queue')
             c == NamesOf(queue)
  <2>1. a \in Seq(Ids) /\ Len(a) = 1 /\ a[1] = r
    BY <1>4
  <2>2. /\ b \in Seq(Ids) /\ Len(b) = Len(queue) - 1
        /\ \A i \in 1..(Len(queue) - 1) : b[i] = queue'[i].id
    BY <1>3, QueueNames
  <2>3. /\ c \in Seq(Ids) /\ Len(c) = Len(queue)
        /\ \A i \in 1..Len(queue) : c[i] = queue[i].id
    BY <1>2, QueueNames
  <2>4. OpenCommands = <<>> \o c /\ OpenCommands' = a \o b
    BY <1>2, <1>4 DEF OpenCommands, NamesOf
  <2> HIDE DEF a, b, c
  <2>5. /\ a \o b \in Seq(Ids) /\ Len(a \o b) = Len(a) + Len(b)
        /\ \A i \in 1..(Len(a) + Len(b)) :
             (a \o b)[i] = IF i <= Len(a) THEN a[i] ELSE b[i - Len(a)]
    BY <2>1, <2>2, ConcatProperties
  <2> DEFINE d == a \o b
  <2> HIDE DEF d
  <2>6. /\ d \in Seq(Ids) /\ Len(d) = Len(queue)
        /\ \A i \in 1..Len(queue) : d[i] = IF i <= 1 THEN a[i] ELSE b[i - 1]
    BY <1>3, <2>1, <2>2, <2>5 DEF d
  <2>7. ASSUME NEW i \in 1..Len(queue) PROVE d[i] = c[i]
    <3>1. CASE i = 1
      BY <1>3, <2>1, <2>3, <2>6, <3>1 DEF r
    <3>2. CASE i # 1
      <4> DEFINE k == i - 1
      <4>1. k \in 1..(Len(queue) - 1) /\ k + 1 = i /\ ~(i <= 1)
        BY <1>3, <3>2
      <4>2. d[i] = b[k]
        BY <2>6, <4>1
      <4> HIDE DEF k
      <4> QED BY <1>3, <2>2, <2>3, <4>1, <4>2
    <3> QED BY <3>1, <3>2
  <2>8. d = c
    BY <2>3, <2>6, <2>7, SeqEqual
  <2>9. <<>> \o c = c
    BY <2>3, ConcatEmptySeq
  <2> QED BY <2>4, <2>8, <2>9 DEF d
<1>6. UNCHANGED <<LedgerOpen, LedgerResults, LedgerAnswered>>
  BY <1>1, <1>5 DEF LedgerOpen, LedgerResults, LedgerAnswered, ResultsOf, Place, Ahead,
                    Responses, AnswerTo
<1>7. NotCarriedOut' \subseteq NotCarriedOut
  <2>1. \A i \in DOMAIN queue' : i + 1 \in DOMAIN queue /\ queue'[i] = queue[i + 1]
    BY <1>3
  <2>2. \A i \in DOMAIN queue' : \E j \in DOMAIN queue : queue'[i].id = queue[j].id
    BY <2>1
  <2>3. \E j \in DOMAIN queue : current'.id = queue[j].id
    BY <1>3
  <2>4. AtServer' = AtServer /\ outgoing' = outgoing
    BY <1>1 DEF AtServer
  <2> QED BY <2>2, <2>3, <2>4, ToDoNames, ToDoAfter
<1> QED BY <1>6, <1>7, LoseStep

\* The worker hands its request to the socket.
LEMMA SendRequestStep == TypeInv /\ SendRequest => LedgerStep
<1> SUFFICES ASSUME TypeInv, SendRequest PROVE LedgerStep
  OBVIOUS
<1>1. /\ workerPc = "send" /\ workerPc' = "await"
      /\ outgoing' = outgoing \cup {[request |-> current, open |-> TRUE]}
      /\ UNCHANGED <<mainPc, events, queue, current, inbound, serving, answers>>
  BY DEF SendRequest, guiVars, serverVars
<1>2. UNCHANGED <<LedgerOpen, LedgerResults, LedgerAnswered>>
  BY <1>1 DEF LedgerOpen, OpenCommands, LedgerResults, ResultsOf, Place, Ahead, Responses,
              LedgerAnswered, AnswerTo
<1>3. NotCarriedOut' \subseteq NotCarriedOut
  <2>1. AtServer' = AtServer
    BY <1>1 DEF AtServer
  <2>2. ASSUME NEW s \in outgoing' PROVE s \in outgoing \/ s.request.id = current.id
    BY <1>1
  <2> QED BY <1>1, <2>1, <2>2, ToDoNames, ToDoAfter
<1> QED BY <1>2, <1>3, LoseStep

\* The worker is done with its request: the first open command is settled.
LEMMA FinishStep ==
    ASSUME TypeInv, LinkInv, Busy,
           NEW result \in {"ok", "error", "failed"}, NEW payload \in Motors \cup {"none"},
           Finish(result, payload), answers' = {},
           result = "failed" \/ (\E a \in answers : a.status = result),
           NotCarriedOut' \in {NotCarriedOut, NotCarriedOut \ {current.id}}
    PROVE  LedgerStep
<1> DEFINE e == Response(current, result, payload)
           r == current.id
<1>1. /\ Post(e) /\ ~Busy' /\ current' = Nothing
      /\ UNCHANGED <<mainPc, pending, queue>>
  BY DEF Finish, Busy
<1>2. /\ current \in Requests /\ events \in Seq(Events) /\ queue \in Seq(Requests)
      /\ current # Nothing /\ r \in Ids
  BY NoRequest DEF TypeInv, GuiTypeOK, WorkerInv
<1>3. e \in Events /\ e.type = "response" /\ e.id = r /\ e.result = result
  BY <1>2, EventFacts
<1> HIDE DEF e
<1>4. CASE mainPc # "loop"
  BY <1>1, <1>4, ClosedStep
<1>5. CASE mainPc = "loop"
  <2>1. mainPc' = "loop" /\ events' = Append(events, e)
    BY <1>1, <1>5 DEF Post
  <2>2. LedgerOpen # <<>> /\ Head(LedgerOpen) = r /\ LedgerOpen' = Tail(LedgerOpen)
    <3> DEFINE a == <<r>>
               b == NamesOf(queue)
    <3>1. a \in Seq(Ids) /\ Len(a) = 1 /\ a[1] = r
      BY <1>2
    <3>2. b \in Seq(Ids) /\ Len(b) \in Nat
      BY <1>2, QueueNames, LenProperties
    <3>3. LedgerOpen = a \o b /\ LedgerOpen' = <<>> \o b
      BY <1>1, <1>2, <1>5, <2>1 DEF LedgerOpen, OpenCommands, NamesOf
    <3> HIDE DEF a, b
    <3>c. a \in Seq(Ids) /\ b \in Seq(Ids)
      BY <3>1, <3>2
    <3>4. /\ a \o b \in Seq(Ids) /\ Len(a \o b) = Len(a) + Len(b)
          /\ \A i \in 1..(Len(a) + Len(b)) :
               (a \o b)[i] = IF i <= Len(a) THEN a[i] ELSE b[i - Len(a)]
      BY <3>c, ConcatProperties
    <3> DEFINE d == a \o b
    <3> HIDE DEF d
    <3>5. d \in Seq(Ids) /\ Len(d) = 1 + Len(b) /\ d[1] = r
      BY <3>1, <3>2, <3>4 DEF d
    <3>6. \A i \in 1..Len(b) : d[i + 1] = b[i]
      <4> SUFFICES ASSUME NEW i \in 1..Len(b) PROVE d[i + 1] = b[i]
        OBVIOUS
      <4>1. i + 1 \in 1..(1 + Len(b)) /\ ~(i + 1 <= 1) /\ (i + 1) - 1 = i
        BY <3>2
      <4> QED BY <3>1, <3>4, <4>1 DEF d
    <3>7. d # <<>>
      BY <3>2, <3>5, EmptySeq
    <3>8. /\ Head(d) = d[1] /\ Tail(d) \in Seq(Ids) /\ Len(Tail(d)) = Len(d) - 1
          /\ \A i \in 1..Len(Tail(d)) : Tail(d)[i] = d[i + 1]
      BY <3>5, <3>7, HeadTailProperties
    <3>9. Tail(d) = b
      <4>1. Len(Tail(d)) = Len(b) /\ \A i \in 1..Len(b) : Tail(d)[i] = b[i]
        BY <3>2, <3>5, <3>6, <3>8
      <4> QED BY <3>2, <3>8, <4>1, SeqEqual
    <3>10. <<>> \o b = b
      BY <3>2, ConcatEmptySeq
    <3> QED BY <3>3, <3>5, <3>7, <3>8, <3>9, <3>10 DEF d
  <2>3. LedgerResults' = Append(LedgerResults, [id |-> r, result |-> result])
    <3>1. Result(e) = [id |-> r, result |-> result]
      BY <1>3 DEF Result
    <3>2. ResultsOf(Append(events, e)) = Append(ResultsOf(events), Result(e))
      BY <1>2, <1>3, ResultsAppend
    <3> QED BY <1>5, <2>1, <3>1, <3>2, ResultsNow
  <2>4. \A a \in answers : a.to = current /\ \A b \in answers : a = b
    BY DEF LinkInv, SocketInv
  <2>5. LedgerAnswered' = [x \in Ids |-> "none"]
    BY <2>1 DEF LedgerAnswered, AnswerTo
  <2>6. LedgerAnswered = [x \in Ids |-> AnswerTo(x)]
    BY <1>5 DEF LedgerAnswered
  <2>7. \A x \in Ids : x # r => AnswerTo(x) = "none"
    BY <2>4 DEF AnswerTo
  <2>8. LedgerAnswered' = [LedgerAnswered EXCEPT ![r] = "none"]
    BY <2>5, <2>6, <2>7
  <2>9. result = "failed" \/ result = LedgerAnswered[r]
    <3> SUFFICES ASSUME NEW a \in answers, a.status = result PROVE result = LedgerAnswered[r]
      OBVIOUS
    <3>1. a.to.id = r
      BY <2>4
    <3> DEFINE c == CHOOSE x \in answers : x.to.id = r
    <3>2. c \in answers
      BY <3>1
    <3> HIDE DEF c
    <3>3. c = a
      BY <2>4, <3>2
    <3>4. AnswerTo(r) = c.status
      BY <3>1 DEF AnswerTo, c
    <3> QED BY <1>2, <2>6, <3>3, <3>4
  <2> HIDE DEF r
  <2>10. Ledger!Settle(result)
    <3>1. NotCarriedOut' \in {NotCarriedOut, NotCarriedOut \ {r}}
      BY DEF r
    <3> QED BY <2>2, <2>3, <2>8, <2>9, <3>1 DEF Ledger!Settle
  <2>11. result \in Ledger!Results
    BY DEF Ledger!Results
  <2> QED BY <2>10, <2>11 DEF LedgerStep, Ledger!Next
<1> QED BY <1>4, <1>5

\* The worker's steps are the ledger's.
LEMMA WorkerStep == TypeInv /\ LinkInv /\ Worker => LedgerStep
<1> SUFFICES ASSUME TypeInv, LinkInv, Worker PROVE LedgerStep
  OBVIOUS
<1>0. MainTypes /\ WorkTypes /\ SocketTypes /\ WorkerInv
  BY TypeParts DEF TypeInv
<1>1. CASE WorkerInit \/ TestRunning \/ NoCommand
  <2>1. /\ UNCHANGED <<mainPc, events, queue, current, outgoing, inbound, serving, answers>>
        /\ workerPc' # "send"
    BY <1>0, <1>1 DEF WorkerInit, TestRunning, NoCommand, guiVars, serverVars, WorkTypes
  <2> QED BY <2>1, QuietStep DEF AtServer
<1>2. CASE TakeCommand
  BY <1>2, TakeStep
<1>3. CASE SendRequest
  BY <1>3, SendRequestStep
<1>a. ASSUME Busy PROVE /\ \A s \in AtServer : ~s.open => s.request.id # current.id
                        /\ \A i \in DOMAIN queue : queue[i].id # current.id
  BY <1>a DEF LinkInv, NamesInv
<1>4. CASE SendFails
  <2>1. /\ Finish("failed", "none") /\ Busy /\ workerPc = "send" /\ workerPc' # "send"
        /\ UNCHANGED <<queue, outgoing, inbound, serving, answers>> /\ AtServer' = AtServer
    BY <1>4 DEF SendFails, Finish, Busy, serverVars, AtServer
  <2>2. outgoing = {} /\ answers = {} /\ \A s \in AtServer : ~s.open
    BY <2>1 DEF LinkInv, SocketInv
  <2>3. NotCarriedOut' = NotCarriedOut \ {current.id}
    BY <1>a, <2>1, <2>2, ToDoNames, ToDoAfter
  <2> QED BY <2>1, <2>2, <2>3, FinishStep
<1>5. CASE Receive
  <2>1. PICK a \in answers :
          /\ answers' = answers \ {a}
          /\ IF a.status = "garbled" THEN Finish("failed", "none")
             ELSE Finish(a.status, Payload(a.to.command))
    BY <1>5 DEF Receive
  <2>2. a.to \in Requests /\ a.status \in {"ok", "error", "garbled"}
    BY <1>0 DEF SocketTypes, AnswerSet, Outcomes
  <2>3. PICK result \in {"ok", "error", "failed"}, payload \in Motors \cup {"none"} :
          Finish(result, payload) /\ (result = "failed" \/ result = a.status)
    <3>1. Payload(a.to.command) \in Motors \cup {"none"}
      BY <2>2, NoRequest, EventFacts
    <3> QED BY <2>1, <2>2, <3>1
  <2>4. /\ Busy /\ workerPc' # "send" /\ workerPc # "send"
        /\ UNCHANGED <<queue, outgoing, inbound, serving>> /\ AtServer' = AtServer
    BY <1>5, <2>3 DEF Receive, Finish, Busy, serverVars, AtServer
  <2>5. answers' = {}
    BY <2>1 DEF LinkInv, SocketInv
  <2>6. NotCarriedOut' = NotCarriedOut
    BY <2>4 DEF NotCarriedOut, IdsOf
  <2> QED BY <2>3, <2>4, <2>5, <2>6, FinishStep
<1>6. CASE ReceiveTimeout
  <2>1. /\ Finish("failed", "none") /\ Busy /\ workerPc = "await" /\ workerPc' # "send"
        /\ outgoing' = {} /\ answers' = {} /\ UNCHANGED queue
        /\ inbound' = {[s EXCEPT !.open = FALSE] : s \in inbound}
        /\ serving' = IF serving = Nothing THEN serving ELSE [serving EXCEPT !.open = FALSE]
    BY <1>6 DEF ReceiveTimeout, Finish, Busy
  <2>2. /\ AtServer \subseteq Sent /\ (serving # Nothing => serving \in Sent)
        /\ \A s : s \in AtServer <=> s \in inbound \/ (s = serving /\ serving # Nothing)
        /\ Nothing \notin Sent
    BY <1>0, ServerFacts, NoRequest DEF SocketTypes
  <2> DEFINE closed(s) == [s EXCEPT !.open = FALSE]
  <2>3. \A s \in Sent : closed(s) \in Sent /\ closed(s).request = s.request
    BY DEF Sent
  <2>4. /\ inbound' = {closed(s) : s \in inbound}
        /\ serving' = IF serving = Nothing THEN serving ELSE closed(serving)
    BY <2>1
  <2> HIDE DEF closed
  <2>5. \A s : s \in AtServer' <=> s \in inbound' \/ (s = serving' /\ serving' # Nothing)
    BY DEF AtServer
  <2>6. \A s \in AtServer' : \E t \in AtServer : s.request = t.request
    BY <2>2, <2>3, <2>4, <2>5
  <2>7. \A t \in AtServer : \E s \in AtServer' : s.request = t.request
    <3> SUFFICES ASSUME NEW t \in AtServer PROVE \E s \in AtServer' : s.request = t.request
      OBVIOUS
    <3>1. closed(t) \in Sent /\ closed(t).request = t.request /\ closed(t) # Nothing
      BY <2>2, <2>3
    <3>2. closed(t) \in AtServer'
      BY <2>2, <2>4, <2>5, <3>1
    <3> QED BY <3>1, <3>2
  <2>8. \A r : r \in NotCarriedOut' <=>
                 \/ \E i \in DOMAIN queue : r = queue[i].id
                 \/ \E s \in AtServer : r = s.request.id
    BY <2>1, <2>6, <2>7, ToDoAfter
  <2>9. NotCarriedOut' \in {NotCarriedOut, NotCarriedOut \ {current.id}}
    <3>1. CASE outgoing = {}
      <4>1. NotCarriedOut' = NotCarriedOut
        BY <2>1, <2>8, <3>1, ToDoNames
      <4> QED BY <4>1
    <3>2. CASE outgoing # {}
      <4>1. /\ \A s \in outgoing : s.request = current
            /\ \A s \in AtServer : ~s.open
        BY <3>2 DEF LinkInv, SocketInv
      <4>2. NotCarriedOut' = NotCarriedOut \ {current.id}
        BY <1>a, <2>1, <2>8, <3>2, <4>1, ToDoNames
      <4> QED BY <4>2
    <3> QED BY <3>1, <3>2
  <2> QED BY <2>1, <2>9, FinishStep
<1>7. CASE StatusReceived \/ StatusMissing
  <2>1. PICK t \in {"status", "lost"} : Post(Notice(t))
    BY <1>7 DEF StatusReceived, StatusMissing
  <2>2. /\ UNCHANGED <<mainPc, queue, current, outgoing, inbound, serving, answers>>
        /\ workerPc' # "send"
    BY <1>7 DEF StatusReceived, StatusMissing, serverVars
  <2> DEFINE e == Notice(t)
  <2>3. e \in Events /\ e.type # "response"
    BY EventFacts
  <2>4. mainPc = "loop" => events' = Append(events, e)
    BY <2>1 DEF Post
  <2> HIDE DEF e
  <2>5. mainPc = "loop" => ResultsOf(events') = ResultsOf(events)
    BY <1>0, <2>3, <2>4, ResultsAppend DEF MainTypes
  <2> QED BY <2>2, <2>5, QuietStep DEF AtServer
<1> QED BY <1>1, <1>2, <1>3, <1>4, <1>5, <1>6, <1>7 DEF Worker

\* What the server and the transport do with requests is at most losing them.
LEMMA ServerStep == TypeInv /\ ServerSide => LedgerStep
<1> SUFFICES ASSUME TypeInv, ServerSide PROVE LedgerStep
  OBVIOUS
<1>1. UNCHANGED <<mainPc, events, queue, workerPc, current, answers>>
  BY DEF ServerSide, Deliver, Take, ServerEnds, ServerStarts, Publish, guiVars, workerVars
<1>2. \A s \in outgoing' \cup AtServer' : s \in outgoing \cup AtServer
  BY DEF ServerSide, Deliver, Take, ServerEnds, ServerStarts, Publish, serverVars, AtServer
<1> QED BY <1>1, <1>2, QuietStep

\* The server carries a command out, for the only time.
LEMMA ServeStep == TypeInv /\ LinkInv /\ (\E status \in Outcomes : Serve(status)) => LedgerStep
<1> SUFFICES ASSUME TypeInv, LinkInv, NEW status \in Outcomes, Serve(status) PROVE LedgerStep
  OBVIOUS
<1> DEFINE r == serving.request.id
<1>0. SocketTypes
  BY TypeParts DEF TypeInv
<1>1. /\ UNCHANGED <<mainPc, events, queue, workerPc, current, outgoing, inbound>>
      /\ serving # Nothing /\ serving' = Nothing
      /\ answers' = IF serving.open
                    THEN answers \cup {[to |-> serving.request, status |-> status]}
                    ELSE answers
  BY DEF Serve, AnswerRequest, guiVars, workerVars
<1>2. AtServer = inbound \cup {serving} /\ AtServer' = inbound
  BY <1>1 DEF AtServer
<1>3. /\ \A i \in DOMAIN queue : queue[i].id # r
      /\ \A s \in inbound : s.request.id # r
      /\ ~serving.open /\ Busy => r # current.id
  BY <1>1, <1>2 DEF LinkInv, NamesInv
<1>4. serving.open => workerPc = "await" /\ outgoing = {} /\ answers = {}
  BY <1>2 DEF LinkInv, SocketInv
<1>5. \A s \in outgoing : s.request.id = current.id /\ Busy
  BY DEF LinkInv, SocketInv, Busy
<1>6. NotCarriedOut' = NotCarriedOut \ {r} /\ r \in NotCarriedOut /\ r \in Ids
  <2>1. workerPc = "send" => current.id # r
    BY <1>3, <1>4 DEF Busy
  <2>2. \A s \in outgoing : s.request.id # r
    BY <1>3, <1>4, <1>5
  <2>3. r \in NotCarriedOut
    BY <1>2, ToDoNames
  <2>4. \A x : x \in NotCarriedOut' <=> x \in NotCarriedOut /\ x # r
    BY <1>1, <1>2, <1>3, <2>1, <2>2, ToDoNames, ToDoAfter
  <2> QED BY <2>3, <2>4, ToDoNames
<1>7. UNCHANGED <<LedgerOpen, LedgerResults>>
  BY <1>1 DEF LedgerOpen, OpenCommands, LedgerResults, ResultsOf, Place, Ahead, Responses
<1>8. LedgerAnswered' \in {LedgerAnswered, [LedgerAnswered EXCEPT ![r] = status]}
  <2>1. CASE mainPc # "loop" \/ ~serving.open
    BY <1>1, <2>1 DEF LedgerAnswered, AnswerTo
  <2>2. CASE mainPc = "loop" /\ serving.open
    <3> DEFINE a == [to |-> serving.request, status |-> status]
    <3>1. a.to.id = r /\ a.status = status
      OBVIOUS
    <3>2. answers' = {a} /\ answers = {}
      BY <1>1, <1>4, <2>2
    <3> HIDE DEF a, r
    <3>3. LedgerAnswered = [x \in Ids |-> "none"]
      BY <2>2, <3>2 DEF LedgerAnswered, AnswerTo
    <3>4. \A x : AnswerTo(x)' = IF x = r THEN status ELSE "none"
      BY <3>1, <3>2 DEF AnswerTo
    <3>5. LedgerAnswered' = [x \in Ids |-> IF x = r THEN status ELSE "none"]
      BY <1>1, <2>2, <3>4 DEF LedgerAnswered
    <3> QED BY <3>3, <3>5
  <2> QED BY <2>1, <2>2
<1> HIDE DEF r
<1>9. Ledger!CarryOut(r, status)
  BY <1>6, <1>7, <1>8 DEF Ledger!CarryOut
<1>10. status \in Ledger!Answers
  BY DEF Outcomes, Ledger!Answers
<1> QED BY <1>6, <1>9, <1>10 DEF LedgerStep, Ledger!Next

\* The ledger is empty at first.
LEMMA InitLedger == PanelInit => Ledger!Init
<1> SUFFICES ASSUME PanelInit PROVE Ledger!Init
  OBVIOUS
<1>1. /\ mainPc = "loop" /\ events = <<>> /\ queue = <<>> /\ current = Nothing
      /\ workerPc = "init" /\ outgoing = {} /\ answers = {} /\ inbound = {} /\ serving = Nothing
  BY DEF PanelInit, Init
<1>2. LedgerOpen = <<>>
  <2>1. TypeInv
    BY InitTypes
  <2>2. OpenCommands = <<>> \o NamesOf(queue) /\ NamesOf(queue) \in Seq(Ids) /\ Len(NamesOf(queue)) = 0
    BY <1>1, <2>1, QueueNames, EmptySeq DEF OpenCommands, NamesOf, TypeInv, GuiTypeOK
  <2>3. NamesOf(queue) = <<>>
    BY <2>2, EmptySeq
  <2> QED BY <1>1, <2>2, <2>3, ConcatEmptySeq DEF LedgerOpen
<1>3. LedgerResults = <<>>
  <2> DEFINE es == events
             s == ResultsOf(es)
             R == {Result(e) : e \in Events}
  <2>1. es \in Seq(Events) /\ Responses(es) = {}
    BY <1>1, EmptySeq DEF Responses
  <2> HIDE DEF es
  <2>2. s \in Seq(R) /\ Len(s) = 0
    BY <2>1, ResultsSeq, FS_EmptySet
  <2> HIDE DEF s, R
  <2>3. s = <<>>
    BY <2>2, EmptySeq
  <2> QED BY <1>1, <2>3 DEF LedgerResults, s, es
<1>4. NotCarriedOut = {}
  BY <1>1 DEF NotCarriedOut, IdsOf, AtServer
<1>5. LedgerAnswered = [r \in Ids |-> "none"]
  BY <1>1 DEF LedgerAnswered, AnswerTo
<1> QED BY <1>2, <1>3, <1>4, <1>5 DEF Ledger!Init

\* The GUI, its worker, the sockets and the server implement RequestLedger,
\* however many requests are under way and however many events are queued: a
\* command is carried out at most once and gets at most one result, in its turn,
\* which is "failed" or what the machine answered to this very command.
THEOREM Implements == Spec => LedgerSpec
<1>1. PanelInit => TypeInv /\ LinkInv /\ Ledger!Init
  BY InitTypes, InitLink, InitLedger
<1>2. TypeInv /\ LinkInv /\ [Next]_vars =>
        (TypeInv /\ LinkInv)' /\ [Ledger!Next]_(Ledger!ledgerVars)
  <2> SUFFICES ASSUME TypeInv, LinkInv, [Next]_vars PROVE LedgerStep
    BY NextTypes, NextLink DEF LedgerStep
  <2>1. CASE UNCHANGED vars
    <3>1. UNCHANGED <<mainPc, events, queue, workerPc, current, outgoing, inbound, serving, answers>>
      BY <2>1 DEF vars, linkVars, guiVars, workerVars, serverVars
    <3> QED BY <3>1, QuietStep DEF AtServer
  <2>2. CASE Join
    <3>1. /\ mainPc = "joining" /\ mainPc' = "done"
          /\ UNCHANGED <<queue, workerPc, current, outgoing, inbound, serving>>
      BY <2>2 DEF Join, workerVars, serverVars
    <3>2. NotCarriedOut' = NotCarriedOut
      BY <3>1 DEF NotCarriedOut, IdsOf, AtServer
    <3> QED BY <3>1, <3>2, ClosedStep
  <2> QED BY <2>1, <2>2, OperatorStep, EventStep, WorkerStep, ServerStep, ServeStep
          DEF Next, Ended
<1> QED BY <1>1, <1>2, PTL DEF Spec, LedgerSpec, Ledger!Spec
=============================================================================
