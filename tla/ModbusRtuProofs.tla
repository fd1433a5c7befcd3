---------------------------- MODULE ModbusRtuProofs ---------------------------
(***************************************************************************)
(* Proofs about the Modbus client of the motors, for every set of devices, *)
(* every set of functions and counts and every number of requests.         *)
(*                                                                         *)
(* Two facts carry them.  The bytes of a connection lie in the order of    *)
(* the requests and, within an answer, of their places, and none of them   *)
(* is older than what was accepted: out of step or not, an answer whose    *)
(* check sum holds is one whole answer, and nothing of it is left behind.  *)
(* In step, what has arrived belongs to the present request, and all of    *)
(* it is there unless it is damaged.                                       *)
(***************************************************************************)
EXTENDS ModbusRtu, TLAPS, SequenceTheorems

ByteSet == [of : Answers, at : Nat]

-----------------------------------------------------------------------------
(* The inductive invariant.                                                *)

Before(b, c) ==
    \/ b.of.req.id < c.of.req.id
    \/ b.of = c.of /\ b.at < c.at

\* The bytes are in order, belong to requests that were sent and are newer than
\* what was accepted.
StreamInv ==
    /\ \A i \in 1..Len(stream) :
          /\ stream[i].at \in 1..SizeOf(stream[i].of)
          /\ newest < stream[i].of.req.id /\ stream[i].of.req.id <= sent
    /\ \A i, j \in 1..Len(stream) : i < j => Before(stream[i], stream[j])

\* The answers to come are newer still, and come in order.
QueueInv ==
    \A p \in 1..Len(pending) :
        /\ newest < pending[p].id /\ pending[p].id <= sent
        /\ \A i \in 1..Len(stream) : stream[i].of.req.id < pending[p].id
        /\ \A q \in 1..Len(pending) : p < q => pending[p].id < pending[q].id

\* An exchange runs on a connection, has accepted nothing yet, and waits for
\* what its function calls for.
ExchangeInv ==
    /\ pc # "idle" => connected /\ accepted = None
    /\ pc \in {"header", "exception", "data"} => req.fn = Reading
    /\ pc = "fixed" => req.fn \in Writing
    /\ pc \in {"exception", "data"} => need >= 2

\* The header that was read looked right.
FrameInv ==
    pc = "data" =>
        /\ Telling(frame[1], 1) => frame[1].of.req.slave = req.slave
        /\ Telling(frame[2], 2) =>
              frame[2].of.req.fn = req.fn /\ ~frame[2].of.exception

\* The answer a belongs to this request, and n bytes of it are all of it unless
\* it is damaged.
Fresh(a, n) == a.req = req /\ (a.intact => n = SizeOf(a))

\* In step, the present answer is all there is.
StepInv ==
    connected /\ ~suspect =>
        /\ pc = "idle" => stream = <<>> /\ pending = <<>>
        /\ pc \in {"header", "fixed"} =>
              \/ stream = <<>> /\ pending = <<>>
              \/ stream = <<>> /\ pending = <<req>>
              \/ stream # <<>> /\ pending = <<>> /\ Fresh(stream[1].of, Len(stream))
        /\ pc \in {"exception", "data"} =>
              pending = <<>> /\ Fresh(frame[1].of, Len(stream) + 3)

RtuInv ==
    /\ RtuTypeOK /\ StreamInv /\ QueueInv /\ ExchangeInv /\ FrameInv /\ StepInv
    /\ AcceptedFits

-----------------------------------------------------------------------------
(* Answers and their bytes.                                                *)

\* What requests are made of; whether they read tells the number of registers.
LEMMA RequestFields ==
  ASSUME NEW r \in Requests
  PROVE  /\ r.id \in 1..MaxRequests /\ r.slave \in Slaves
         /\ r.fn \in Nat /\ r.count \in Nat
         /\ r.fn = Reading \/ r.fn \in Writing
         /\ r.fn \in Writing => r.fn # Reading /\ r.count = 0
         /\ r = [id |-> r.id, slave |-> r.slave, fn |-> r.fn, count |-> r.count]
<1>1. CASE r \in [id : 1..MaxRequests, slave : Slaves, fn : {Reading}, count : Counts]
  <2>1. r.id \in 1..MaxRequests /\ r.slave \in Slaves /\ r.fn = Reading /\ r.count \in Counts
    BY <1>1
  <2>2. r = [id |-> r.id, slave |-> r.slave, fn |-> r.fn, count |-> r.count]
    BY <1>1
  <2> QED
    BY <2>1, <2>2, RtuAssumption DEF Reading
<1>2. CASE r \in [id : 1..MaxRequests, slave : Slaves, fn : Writing, count : {0}]
  <2>1. r.id \in 1..MaxRequests /\ r.slave \in Slaves /\ r.fn \in Writing /\ r.count = 0
    BY <1>2
  <2>2. r = [id |-> r.id, slave |-> r.slave, fn |-> r.fn, count |-> r.count]
    BY <1>2
  <2> QED
    BY <2>1, <2>2, RtuAssumption DEF Reading
<1> QED
  BY <1>1, <1>2 DEF Requests

\* The size of an answer is a number, and at least 5.
LEMMA Sizes ==
  ASSUME NEW a \in Answers
  PROVE  SizeOf(a) \in Nat /\ SizeOf(a) >= 5
<1>1. a.req \in Requests /\ a.exception \in BOOLEAN
  BY DEF Answers
<1>2. a.req.count \in Nat
  BY <1>1, RequestFields
<1> QED
  BY <1>2 DEF SizeOf

LEMMA AnswerBytes ==
  ASSUME NEW a \in Answers, NEW size \in Nat
  PROVE  /\ Bytes(a, size) \in Seq(ByteSet)
         /\ Len(Bytes(a, size)) = size
         /\ \A i \in 1..size : Bytes(a, size)[i] = [of |-> a, at |-> i]
<1>1. \A i \in 1..size : [of |-> a, at |-> i] \in ByteSet
  BY DEF ByteSet
<1>2. Bytes(a, size) \in [1..size -> ByteSet]
  BY <1>1 DEF Bytes
<1>3. Bytes(a, size) \in Seq(ByteSet)
  BY <1>2, SeqDef
<1> QED
  BY <1>2, <1>3, LenProperties DEF Bytes

\* Bytes whose check sum holds are one whole answer.
LEMMA WholeAnswer ==
  ASSUME NEW bytes \in Seq(ByteSet), ValidCrc(bytes)
  PROVE  /\ bytes[1].of \in Answers /\ bytes[1].of.intact
         /\ Len(bytes) = SizeOf(bytes[1].of)
         /\ \A i \in 1..Len(bytes) : bytes[i] = [of |-> bytes[1].of, at |-> i]
<1> DEFINE a == bytes[1].of
<1>1. 1 \in 1..Len(bytes)
  <2>1. bytes # <<>> BY DEF ValidCrc
  <2> QED BY <2>1, EmptySeq, LenProperties
<1>2. a \in Answers
  <2>1. bytes[1] \in ByteSet
    BY <1>1, ElementOfSeq
  <2> QED
    BY <2>1 DEF ByteSet
<1>3. a.intact /\ bytes = Bytes(a, SizeOf(a))
  BY DEF ValidCrc
<1> HIDE DEF a
<1>4. SizeOf(a) \in Nat
  BY <1>2, Sizes
<1> QED
  BY <1>2, <1>3, <1>4, AnswerBytes DEF a

\* The parts of the stream that are taken and left.
LEMMA Split ==
  ASSUME NEW n \in Nat, RtuTypeOK, n <= Len(stream)
  PROVE  /\ First(n) \in Seq(ByteSet) /\ Len(First(n)) = n
         /\ \A i \in 1..n : First(n)[i] = stream[i]
         /\ Rest(n) \in Seq(ByteSet) /\ Len(Rest(n)) = Len(stream) - n
         /\ \A i \in 1..Len(Rest(n)) : Rest(n)[i] = stream[n + i]
         /\ \A i \in 1..Len(Rest(n)) : n + i \in 1..Len(stream)
<1>1. stream \in Seq(ByteSet) /\ Len(stream) \in Nat
  BY LenProperties DEF RtuTypeOK, ByteSet
<1>2. /\ First(n) \in Seq(ByteSet) /\ Len(First(n)) = n
      /\ \A i \in 1..n : First(n)[i] = stream[i]
  BY <1>1, SubSeqProperties DEF First
<1>3. /\ Rest(n) \in Seq(ByteSet) /\ Len(Rest(n)) = Len(stream) - n
      /\ \A i \in 1..Len(Rest(n)) : Rest(n)[i] = stream[n + i]
  BY <1>1, SubSeqProperties DEF Rest
<1> QED
  BY <1>1, <1>2, <1>3

-----------------------------------------------------------------------------
(* Bytes that are taken from the stream.                                   *)

LEMMA ByteFields ==
  ASSUME RtuTypeOK
  PROVE  /\ \A i \in 1..Len(stream) :
               /\ stream[i] \in ByteSet /\ stream[i].of \in Answers
               /\ stream[i].of.req.id \in Nat /\ stream[i].at \in Nat
               /\ SizeOf(stream[i].of) \in Nat
         /\ \A p \in 1..Len(pending) : pending[p] \in Requests /\ pending[p].id \in Nat
<1>1. \A i \in 1..Len(stream) : stream[i] \in ByteSet
  BY ElementOfSeq DEF RtuTypeOK, ByteSet
<1>2. \A b \in ByteSet : /\ b.of \in Answers /\ b.of.req \in Requests /\ b.at \in Nat
  BY DEF ByteSet, Answers
<1>3. \A b \in ByteSet : b.of.req.id \in Nat /\ SizeOf(b.of) \in Nat
  BY <1>2, RequestFields, Sizes, RtuAssumption
<1>4. \A p \in 1..Len(pending) : pending[p] \in Requests
  BY ElementOfSeq DEF RtuTypeOK
<1>5. \A p \in 1..Len(pending) : pending[p].id \in Nat
  BY <1>4, RequestFields
<1> QED
  BY <1>1, <1>2, <1>3, <1>4, <1>5

\* The order of the bytes survives when some are taken; when they end with the
\* last byte of an answer, that answer may be accepted, and nothing that is left
\* is as old.
LEMMA Taken ==
  ASSUME RtuTypeOK, StreamInv, QueueInv, NEW n \in Nat, n <= Len(stream),
         stream' = Rest(n), sent' = sent, pending' = pending,
         \/ newest' = newest
         \/ /\ n >= 1 /\ stream[n].at = SizeOf(stream[n].of)
            /\ newest' = stream[n].of.req.id
  PROVE  /\ stream' \in Seq(ByteSet) /\ Len(stream') = Len(stream) - n
         /\ newest' \in 0..sent' /\ StreamInv' /\ QueueInv'
<1>1. /\ stream' \in Seq(ByteSet) /\ Len(stream') = Len(stream) - n
      /\ \A i \in 1..Len(stream') : stream'[i] = stream[n + i] /\ n + i \in 1..Len(stream)
  BY Split
<1>2. Len(stream) \in Nat /\ sent \in Nat /\ newest \in 0..sent
  BY LenProperties DEF RtuTypeOK
<1>3. newest' \in 0..sent
  BY <1>2, ByteFields DEF StreamInv
<1>4. \A i \in 1..Len(stream') : newest' < stream'[i].of.req.id
  <2> SUFFICES ASSUME NEW i \in 1..Len(stream')
               PROVE  newest' < stream'[i].of.req.id
    OBVIOUS
  <2>1. CASE newest' = newest
    BY <1>1, <2>1 DEF StreamInv
  <2>2. CASE /\ n >= 1 /\ stream[n].at = SizeOf(stream[n].of)
             /\ newest' = stream[n].of.req.id
    <3>1. n \in 1..Len(stream) /\ n + i \in 1..Len(stream) /\ n < n + i
      BY <1>1, <1>2, <2>2
    <3>2. Before(stream[n], stream[n + i]) /\ stream[n + i].at \in 1..SizeOf(stream[n + i].of)
      BY <3>1 DEF StreamInv
    <3>3. stream[n].of.req.id < stream[n + i].of.req.id
      BY <2>2, <3>1, <3>2, ByteFields DEF Before
    <3> QED
      BY <1>1, <2>2, <3>3
  <2> QED
    BY <2>1, <2>2
<1>5. StreamInv'
  <2>1. \A i \in 1..Len(stream') :
           stream'[i].at \in 1..SizeOf(stream'[i].of) /\ stream'[i].of.req.id <= sent
    BY <1>1 DEF StreamInv
  <2>2. \A i, j \in 1..Len(stream') : i < j => Before(stream'[i], stream'[j])
    <3> SUFFICES ASSUME NEW i \in 1..Len(stream'), NEW j \in 1..Len(stream'), i < j
                 PROVE  Before(stream'[i], stream'[j])
      OBVIOUS
    <3>1. n + i < n + j /\ n + i \in 1..Len(stream) /\ n + j \in 1..Len(stream)
      BY <1>1, <1>2
    <3> QED
      BY <1>1, <3>1 DEF StreamInv
  <2> QED
    BY <1>4, <2>1, <2>2 DEF StreamInv, Before
<1>6. QueueInv'
  <2> SUFFICES ASSUME NEW p \in 1..Len(pending)
               PROVE  /\ newest' < pending[p].id /\ pending[p].id <= sent
                      /\ \A i \in 1..Len(stream') : stream'[i].of.req.id < pending[p].id
                      /\ \A q \in 1..Len(pending) : p < q => pending[p].id < pending[q].id
    BY DEF QueueInv
  <2>1. newest' < pending[p].id
    <3>1. CASE newest' = newest
      BY <3>1 DEF QueueInv
    <3>2. CASE n >= 1 /\ newest' = stream[n].of.req.id
      <4>1. n \in 1..Len(stream)
        BY <1>2, <3>2
      <4> QED
        BY <3>2, <4>1 DEF QueueInv
    <3> QED
      BY <3>1, <3>2
  <2> QED
    BY <1>1, <2>1 DEF QueueInv
<1> QED
  BY <1>1, <1>3, <1>5, <1>6

-----------------------------------------------------------------------------
(* The invariant holds at the start and is kept by every step.             *)

LEMMA RtuInvInit == RtuInit => RtuInv
<1> SUFFICES ASSUME RtuInit PROVE RtuInv
  OBVIOUS
<1>1. RtuTypeOK
  <2>1. stream \in Seq([of : Answers, at : Nat]) /\ frame \in Seq([of : Answers, at : Nat])
        /\ pending \in Seq(Requests) /\ Len(frame) = 0
    BY EmptySeq DEF RtuInit
  <2>2. req \in Requests
    BY DEF RtuInit
  <2>3. sent \in 0..MaxRequests /\ newest \in 0..sent /\ need \in Nat /\ (need = 0 <=> pc = "idle")
    BY RtuAssumption DEF RtuInit
  <2>4. connected \in BOOLEAN /\ suspect \in BOOLEAN
    BY DEF RtuInit
  <2> QED
    BY <2>1, <2>2, <2>3, <2>4 DEF RtuInit, RtuTypeOK
<1>2. Len(stream) = 0 /\ Len(pending) = 0
  BY EmptySeq DEF RtuInit
<1>3. StreamInv /\ QueueInv
  BY <1>2 DEF StreamInv, QueueInv
<1>4. ExchangeInv /\ FrameInv /\ StepInv /\ AcceptedFits
  BY DEF RtuInit, ExchangeInv, FrameInv, StepInv, AcceptedFits
<1> QED
  BY <1>1, <1>3, <1>4 DEF RtuInv

\* An exchange that breaks off, with the rest of the stream in order.
LEMMA Failing ==
  ASSUME RtuInv, NEW why, NEW harmless \in BOOLEAN, pc # "idle", Fail(why, harmless),
         sent' = sent, req' = req, pending' = pending,
         stream' \in Seq(ByteSet), StreamInv', QueueInv',
         harmless /\ ~suspect => stream' = <<>> /\ pending = <<>>
  PROVE  RtuInv'
<1>1. pc' = "idle" /\ need' = 0 /\ frame' = <<>> /\ accepted' = accepted /\ newest' = newest
  BY DEF Fail
<1>2. connected' \in BOOLEAN /\ suspect' \in BOOLEAN
  BY Zenon DEF RtuInv, RtuTypeOK, Fail
<1>3. ~suspect' => harmless /\ ~suspect
  BY Zenon DEF Fail
<1>4. accepted = None
  BY DEF RtuInv, ExchangeInv
<1>5. RtuTypeOK'
  <2>1. frame' \in Seq([of : Answers, at : Nat]) /\ Len(frame') = 0
    BY <1>1, EmptySeq
  <2> QED
    BY <1>1, <1>2, <2>1 DEF RtuInv, RtuTypeOK, ByteSet
<1>6. ExchangeInv' /\ FrameInv' /\ AcceptedFits'
  BY <1>1, <1>4 DEF ExchangeInv, FrameInv, AcceptedFits
<1>7. StepInv'
  BY <1>1, <1>3 DEF StepInv
<1> QED
  BY <1>5, <1>6, <1>7 DEF RtuInv

\* An exchange that returns a fitting answer, with the rest of the stream in order.
LEMMA Accepting ==
  ASSUME RtuInv, NEW a \in Answers, pc # "idle", Accept(a),
         sent' = sent, req' = req, pending' = pending,
         stream' \in Seq(ByteSet), newest' \in 0..sent', StreamInv', QueueInv',
         a.intact, ~a.exception, [a.req EXCEPT !.id = req.id] = req,
         ~suspect => a.req = req /\ stream' = <<>> /\ pending = <<>>
  PROVE  RtuInv'
<1>1. /\ pc' = "idle" /\ need' = 0 /\ frame' = <<>> /\ accepted' = a
      /\ connected' = connected /\ suspect' = suspect
  BY DEF Accept
<1>2. RtuTypeOK'
  <2>1. frame' \in Seq([of : Answers, at : Nat]) /\ Len(frame') = 0
    BY <1>1, EmptySeq
  <2>2. connected' \in BOOLEAN /\ suspect' \in BOOLEAN
    BY <1>1 DEF RtuInv, RtuTypeOK
  <2> QED
    BY <1>1, <2>1, <2>2 DEF RtuInv, RtuTypeOK, ByteSet
<1>3. ExchangeInv' /\ FrameInv'
  BY <1>1 DEF ExchangeInv, FrameInv
<1>4. AcceptedFits'
  BY <1>1 DEF AcceptedFits
<1>5. StepInv'
  BY <1>1 DEF StepInv
<1> QED
  BY <1>2, <1>3, <1>4, <1>5 DEF RtuInv

LEMMA ConnectKeeps == RtuInv /\ Connect => RtuInv'
<1> SUFFICES ASSUME RtuInv, Connect PROVE RtuInv'
  OBVIOUS
<1>1. RtuTypeOK'
  <2>1. stream' \in Seq([of : Answers, at : Nat]) /\ pending' \in Seq(Requests)
    BY EmptySeq DEF Connect
  <2> QED
    BY <2>1 DEF RtuInv, RtuTypeOK, Connect
<1>2. Len(stream') = 0 /\ Len(pending') = 0
  BY EmptySeq DEF Connect
<1>3. StreamInv' /\ QueueInv'
  BY <1>2 DEF StreamInv, QueueInv
<1>4. ExchangeInv' /\ FrameInv' /\ StepInv' /\ AcceptedFits'
  BY DEF RtuInv, Connect, ExchangeInv, FrameInv, StepInv, AcceptedFits
<1> QED
  BY <1>1, <1>3, <1>4 DEF RtuInv

LEMMA ResetKeeps == RtuInv /\ Reset => RtuInv'
<1> SUFFICES ASSUME RtuInv, Reset PROVE RtuInv'
  OBVIOUS
<1>1. /\ connected' = FALSE /\ pc = "idle"
      /\ UNCHANGED <<sent, req, pc, need, frame, stream, pending, accepted, newest, suspect>>
  BY DEF Reset
<1>2. RtuTypeOK' /\ AcceptedFits'
  BY <1>1 DEF RtuInv, RtuTypeOK, AcceptedFits
<1>3. StreamInv' /\ QueueInv'
  BY <1>1 DEF RtuInv, StreamInv, QueueInv
<1>4. ExchangeInv' /\ FrameInv' /\ StepInv'
  BY <1>1 DEF ExchangeInv, FrameInv, StepInv
<1> QED
  BY <1>2, <1>3, <1>4 DEF RtuInv

LEMMA SendKeeps == \A r \in Requests : RtuInv /\ Send(r) => RtuInv'
<1> SUFFICES ASSUME NEW r \in Requests, RtuInv, Send(r) PROVE RtuInv'
  OBVIOUS
<1> USE DEF RtuInv
<1>1. /\ pending \in Seq(Requests) /\ pending' \in Seq(Requests)
      /\ Len(pending) \in Nat /\ Len(pending') = Len(pending) + 1
      /\ \A p \in 1..Len(pending) : pending'[p] = pending[p]
      /\ pending'[Len(pending) + 1] = r
  BY AppendProperties, LenProperties DEF RtuTypeOK, Send
<1>2. /\ connected /\ pc = "idle" /\ r.id = sent + 1 /\ sent' = r.id /\ req' = r
      /\ frame' = <<>> /\ accepted' = None
      /\ connected' = connected /\ stream' = stream /\ newest' = newest /\ suspect' = suspect
      /\ pending' = Append(pending, r)
  BY DEF Send
<1>3. \/ r.fn = Reading /\ pc' = "header" /\ need' = 3
      \/ r.fn # Reading /\ r.fn \in Writing /\ pc' = "fixed" /\ need' = 8
  BY RequestFields DEF Send
<1>4. r.id \in 1..MaxRequests /\ sent \in Nat /\ newest \in 0..sent
  BY RequestFields, RtuAssumption DEF RtuTypeOK
<1>5. RtuTypeOK'
  <2>1. frame' \in Seq([of : Answers, at : Nat]) /\ Len(frame') = 0
    BY <1>2, EmptySeq
  <2>2. sent' \in 0..MaxRequests /\ newest' \in 0..sent'
    BY <1>2, <1>4, RtuAssumption
  <2>3. need' \in Nat /\ (need' = 0 <=> pc' = "idle")
    BY <1>3
  <2>4. connected' \in BOOLEAN /\ suspect' \in BOOLEAN
    BY <1>2 DEF RtuTypeOK
  <2>5. stream' \in Seq([of : Answers, at : Nat]) /\ accepted' \in Answers \cup {None}
    BY <1>2 DEF RtuTypeOK
  <2>6. req' \in Requests /\ pc' \in {"idle", "header", "exception", "data", "fixed"}
        /\ pc' \notin {"exception", "data"}
    BY <1>2, <1>3
  <2>7. Len(frame') = IF pc' \in {"exception", "data"} THEN 3 ELSE 0
    BY <2>1, <2>6
  <2>8. pending' \in Seq(Requests)
    BY <1>1
  <2> QED
    BY <2>1, <2>2, <2>3, <2>4, <2>5, <2>6, <2>7, <2>8 DEF RtuTypeOK
<1>6. StreamInv'
  <2>1. \A i \in 1..Len(stream) : stream[i].of.req.id <= sent + 1
    BY <1>4, ByteFields DEF StreamInv
  <2>2. sent' = sent + 1
    BY <1>2
  <2> QED
    BY <1>2, <2>1, <2>2 DEF StreamInv, Before
<1>7. QueueInv'
  <2> SUFFICES ASSUME NEW p \in 1..Len(pending')
               PROVE  /\ newest' < pending'[p].id /\ pending'[p].id <= sent'
                      /\ \A i \in 1..Len(stream') : stream'[i].of.req.id < pending'[p].id
                      /\ \A q \in 1..Len(pending') : p < q => pending'[p].id < pending'[q].id
    BY DEF QueueInv
  <2>1. CASE p \in 1..Len(pending)
    <3>1. pending'[p] = pending[p] /\ pending[p].id \in Nat
      BY <1>1, <2>1, ByteFields
    <3>2. newest < pending[p].id /\ pending[p].id <= sent
      BY <2>1 DEF QueueInv
    <3>3. \A i \in 1..Len(stream) : stream[i].of.req.id < pending[p].id
      BY <2>1 DEF QueueInv
    <3>4. \A q \in 1..Len(pending) : p < q => pending[p].id < pending[q].id
      BY <2>1 DEF QueueInv
    <3> QED
      BY <1>1, <1>2, <1>4, <3>1, <3>2, <3>3, <3>4
  <2>2. CASE p = Len(pending) + 1
    <3>1. pending'[p] = r
      BY <1>1, <2>2
    <3>2. \A i \in 1..Len(stream) : stream[i].of.req.id < sent + 1
      BY <1>4, ByteFields DEF StreamInv
    <3> QED
      BY <1>1, <1>2, <1>4, <2>2, <3>1, <3>2
  <2> QED
    BY <1>1, <2>1, <2>2
<1>8. ExchangeInv' /\ FrameInv' /\ AcceptedFits'
  BY <1>2, <1>3 DEF ExchangeInv, FrameInv, AcceptedFits
<1>9. StepInv'
  BY <1>2, <1>3 DEF StepInv
<1> QED
  BY <1>5, <1>6, <1>7, <1>8, <1>9

LEMMA SendFailsKeeps == \A r \in Requests : RtuInv /\ SendFails(r) => RtuInv'
<1> SUFFICES ASSUME NEW r \in Requests, RtuInv, SendFails(r) PROVE RtuInv'
  OBVIOUS
<1>1. /\ connected /\ pc = "idle" /\ r.id = sent + 1 /\ sent' = r.id /\ req' = r
      /\ accepted' = None
      /\ UNCHANGED <<pc, need, frame, stream, pending, newest, suspect>>
  BY DEF SendFails
<1>2. connected' \in BOOLEAN
  BY Zenon DEF SendFails
<1>3. r.id \in 1..MaxRequests /\ sent \in Nat /\ newest \in 0..sent
  BY RequestFields, RtuAssumption DEF RtuInv, RtuTypeOK
<1>4. sent' \in 0..MaxRequests /\ newest' \in 0..sent'
  BY <1>1, <1>3, RtuAssumption
<1>5. RtuTypeOK'
  BY <1>1, <1>2, <1>4 DEF RtuInv, RtuTypeOK
<1>6. \A i \in 1..Len(stream) : stream[i].of.req.id <= sent + 1
  BY <1>3, ByteFields DEF RtuInv, StreamInv
<1>7. \A p \in 1..Len(pending) : pending[p].id <= sent + 1
  BY <1>3, ByteFields DEF RtuInv, QueueInv
<1>8. StreamInv'
  BY <1>1, <1>6 DEF RtuInv, StreamInv, Before
<1>9. QueueInv'
  BY <1>1, <1>7 DEF RtuInv, QueueInv
<1>10. ExchangeInv' /\ FrameInv' /\ AcceptedFits'
  BY <1>1 DEF ExchangeInv, FrameInv, AcceptedFits
<1>11. StepInv'
  BY <1>1 DEF RtuInv, StepInv
<1> QED
  BY <1>5, <1>8, <1>9, <1>10, <1>11 DEF RtuInv

\* Nothing arrives any more, and what had arrived is lost.
LEMMA TimeoutKeeps == RtuInv /\ ReceiveTimeout => RtuInv'
<1> SUFFICES ASSUME RtuInv, ReceiveTimeout PROVE RtuInv'
  OBVIOUS
<1>1. /\ pc # "idle" /\ stream' = <<>>
      /\ sent' = sent /\ req' = req /\ pending' = pending
  BY DEF ReceiveTimeout
<1>2. \E why : Fail(why, FALSE)
  BY Zenon DEF ReceiveTimeout
<1>3. newest' = newest
  BY <1>2 DEF Fail
<1>4. stream' \in Seq(ByteSet) /\ Len(stream') = 0
  BY <1>1, EmptySeq
<1>5. StreamInv'
  BY <1>4 DEF StreamInv
<1>6. QueueInv'
  BY <1>1, <1>3, <1>4 DEF RtuInv, QueueInv
<1> QED
  BY <1>1, <1>2, <1>4, <1>5, <1>6, Failing

LEMMA HeaderKeeps == RtuInv /\ ReadHeader => RtuInv'
<1> SUFFICES ASSUME RtuInv, ReadHeader PROVE RtuInv'
  OBVIOUS
<1> USE DEF RtuInv
<1>1. /\ pc = "header" /\ Len(stream) >= 3 /\ stream' = Rest(3)
      /\ sent' = sent /\ req' = req /\ pending' = pending
  BY DEF ReadHeader
<1>2. newest' = newest
  BY DEF ReadHeader, Fail
<1>3. 3 \in Nat /\ 3 <= Len(stream) /\ Len(stream) \in Nat
  BY <1>1, LenProperties DEF RtuTypeOK
<1>4. /\ stream' \in Seq(ByteSet) /\ Len(stream') = Len(stream) - 3
      /\ newest' \in 0..sent' /\ StreamInv' /\ QueueInv'
  BY <1>1, <1>2, <1>3, Taken
<1>5. PICK mine \in LooksFromSlave(stream[1]), kind \in LooksLike(stream[2]),
           n \in LooksLong(stream[3]) :
         IF ~mine \/ kind = "other"
         THEN Fail("mismatch", FALSE)
         ELSE /\ pc' = IF kind = "exception" THEN "exception" ELSE "data"
              /\ need' = IF kind = "exception" THEN 2 ELSE n + 2
              /\ frame' = First(3)
              /\ UNCHANGED <<connected, accepted, newest, suspect>>
  BY DEF ReadHeader
<1>6. CASE ~mine \/ kind = "other"
  <2>1. Fail("mismatch", FALSE)
    BY <1>5, <1>6
  <2> QED
    BY <1>1, <1>4, <2>1, Failing
<1>7. CASE ~(~mine \/ kind = "other")
  <2>1. /\ pc' = IF kind = "exception" THEN "exception" ELSE "data"
        /\ need' = IF kind = "exception" THEN 2 ELSE n + 2
        /\ frame' = First(3)
        /\ connected' = connected /\ accepted' = accepted /\ suspect' = suspect
    BY <1>5, <1>7
  <2>2. /\ frame' \in Seq(ByteSet) /\ Len(frame') = 3
        /\ \A i \in 1..3 : frame'[i] = stream[i]
    BY <1>3, <2>1, Split
  <2>3. n \in Nat
    <3>1. stream[3].of.req \in Requests
      BY <1>3, ByteFields DEF Answers
    <3> QED
      BY <3>1, RequestFields, RtuAssumption DEF LooksLong
  <2>4. need' \in Nat /\ need' >= 2 /\ pc' \in {"exception", "data"}
    BY <2>1, <2>3
  <2>5. RtuTypeOK'
    <3>1. need' \in Nat /\ (need' = 0 <=> pc' = "idle")
      BY <2>4
    <3>2. Len(frame') = IF pc' \in {"exception", "data"} THEN 3 ELSE 0
      BY <2>2, <2>4
    <3> QED
      BY <1>1, <1>4, <2>1, <2>2, <2>4, <3>1, <3>2 DEF RtuTypeOK, ByteSet
  <2>6. ExchangeInv'
    BY <1>1, <2>1, <2>4 DEF ExchangeInv
  <2>7. FrameInv'
    <3> SUFFICES ASSUME pc' = "data"
                 PROVE  /\ Telling(frame'[1], 1) => frame'[1].of.req.slave = req.slave
                        /\ Telling(frame'[2], 2) =>
                              frame'[2].of.req.fn = req.fn /\ ~frame'[2].of.exception
      BY <1>1 DEF FrameInv, Telling
    <3>1. mine /\ kind # "exception" /\ kind # "other"
      BY <1>7, <2>1
    <3>2. Telling(stream[1], 1) => stream[1].of.req.slave = req.slave
      BY <3>1 DEF LooksFromSlave
    <3>3. Telling(stream[2], 2) => stream[2].of.req.fn = req.fn /\ ~stream[2].of.exception
      BY <3>1 DEF LooksLike
    <3> QED
      BY <2>2, <3>2, <3>3
  <2>8. StepInv'
    <3> SUFFICES ASSUME connected, ~suspect
                 PROVE  /\ pending = <<>> /\ frame'[1].of.req = req
                        /\ frame'[1].of.intact => Len(stream') + 3 = SizeOf(frame'[1].of)
      BY <1>1, <2>1, <2>4 DEF StepInv, Fresh
    <3>1. pending = <<>> /\ Fresh(stream[1].of, Len(stream))
      <4>1. stream # <<>>
        BY <1>1, EmptySeq
      <4> QED
        BY <1>1, <4>1 DEF StepInv
    <3>2. Len(stream') + 3 = Len(stream) /\ frame'[1] = stream[1]
      BY <1>3, <1>4, <2>2
    <3> QED
      BY <1>1, <3>1, <3>2 DEF Fresh
  <2>9. AcceptedFits'
    BY <1>1, <2>1 DEF ExchangeInv, AcceptedFits
  <2> QED
    BY <1>4, <2>5, <2>6, <2>7, <2>8, <2>9
<1> QED
  BY <1>6, <1>7

\* When the check sum of the header and of the bytes after it holds, they are one
\* whole answer, and the last byte that is taken is its last.
LEMMA WholeFrame ==
  ASSUME RtuInv, pc \in {"exception", "data"}, Len(stream) >= need,
         ValidCrc(frame \o First(need))
  PROVE  /\ need \in 1..Len(stream)
         /\ frame[1].of \in Answers /\ frame[1].of.intact
         /\ SizeOf(frame[1].of) = need + 3
         /\ Telling(frame[1], 1) /\ Telling(frame[2], 2) /\ frame[2].of = frame[1].of
         /\ stream[need].of = frame[1].of /\ stream[need].at = need + 3
<1> DEFINE bytes == frame \o First(need)
<1>1. /\ frame \in Seq(ByteSet) /\ Len(frame) = 3 /\ need \in Nat /\ need >= 2
      /\ Len(stream) \in Nat
  BY LenProperties DEF RtuInv, RtuTypeOK, ExchangeInv, ByteSet
<1>2. /\ First(need) \in Seq(ByteSet) /\ Len(First(need)) = need
      /\ \A i \in 1..need : First(need)[i] = stream[i]
  BY <1>1, Split DEF RtuInv
<1>3. /\ bytes \in Seq(ByteSet) /\ Len(bytes) = Len(frame) + Len(First(need))
      /\ \A i \in 1..(Len(frame) + Len(First(need))) :
            bytes[i] = IF i <= Len(frame) THEN frame[i] ELSE First(need)[i - Len(frame)]
  BY <1>1, <1>2, ConcatProperties, Zenon
<1>4. ValidCrc(bytes)
  OBVIOUS
<1> HIDE DEF bytes
<1>5. /\ Len(bytes) = need + 3 /\ bytes[1] = frame[1] /\ bytes[2] = frame[2]
      /\ bytes[need + 3] = stream[need]
  BY <1>1, <1>2, <1>3
<1>6. /\ bytes[1].of \in Answers /\ bytes[1].of.intact /\ Len(bytes) = SizeOf(bytes[1].of)
      /\ \A i \in 1..Len(bytes) : bytes[i] = [of |-> bytes[1].of, at |-> i]
  BY <1>3, <1>4, WholeAnswer
<1>7. 1 \in 1..Len(bytes) /\ 2 \in 1..Len(bytes) /\ need + 3 \in 1..Len(bytes)
  BY <1>1, <1>5
<1>8. /\ frame[1] = [of |-> frame[1].of, at |-> 1]
      /\ frame[2] = [of |-> frame[1].of, at |-> 2]
      /\ stream[need] = [of |-> frame[1].of, at |-> need + 3]
  BY <1>5, <1>6, <1>7
<1> QED
  BY <1>1, <1>5, <1>6, <1>8 DEF Telling

LEMMA ExceptionKeeps == RtuInv /\ ReadException => RtuInv'
<1> SUFFICES ASSUME RtuInv, ReadException PROVE RtuInv'
  OBVIOUS
<1>1. /\ pc = "exception" /\ Len(stream) >= need /\ stream' = Rest(need)
      /\ sent' = sent /\ req' = req /\ pending' = pending
      /\ Fail("exception", ValidCrc(frame \o First(need)))
  BY DEF ReadException
<1>2. newest' = newest
  BY <1>1 DEF Fail
<1>3. need \in Nat /\ need <= Len(stream) /\ Len(stream) \in Nat
  BY <1>1, LenProperties DEF RtuInv, RtuTypeOK
<1>4. /\ stream' \in Seq(ByteSet) /\ Len(stream') = Len(stream) - need
      /\ StreamInv' /\ QueueInv'
  BY <1>1, <1>2, <1>3, Taken DEF RtuInv
<1>5. ASSUME ValidCrc(frame \o First(need)), ~suspect
      PROVE  stream' = <<>> /\ pending = <<>>
  <2>1. /\ frame[1].of.intact /\ SizeOf(frame[1].of) = need + 3
    BY <1>1, <1>5, WholeFrame
  <2>2. pending = <<>> /\ Fresh(frame[1].of, Len(stream) + 3)
    BY <1>1, <1>5 DEF RtuInv, ExchangeInv, StepInv
  <2>3. Len(stream') = 0
    BY <1>3, <1>4, <2>1, <2>2 DEF Fresh
  <2> QED
    BY <1>4, <2>2, <2>3, EmptySeq
<1>6. ValidCrc(frame \o First(need)) \in BOOLEAN
  BY DEF ValidCrc
<1>7. pc # "idle"
  BY <1>1
<1> HIDE DEF RtuInv
<1> QED
  BY <1>1, <1>4, <1>5, <1>6, <1>7, Failing

\* What a request and an answer that looked right must have in common.
LEMMA SameRequest ==
  ASSUME NEW r \in Requests, NEW q \in Requests,
         q.slave = r.slave, q.fn = r.fn, q.count = r.count
  PROVE  [q EXCEPT !.id = r.id] = r
<1>1. /\ r = [id |-> r.id, slave |-> r.slave, fn |-> r.fn, count |-> r.count]
      /\ q = [id |-> q.id, slave |-> q.slave, fn |-> q.fn, count |-> q.count]
  BY RequestFields
<1>2. [q EXCEPT !.id = r.id] = [id |-> r.id, slave |-> q.slave, fn |-> q.fn, count |-> q.count]
  BY <1>1
<1> QED
  BY <1>1, <1>2

LEMMA DataKeeps == RtuInv /\ ReadData => RtuInv'
<1> SUFFICES ASSUME RtuInv, ReadData PROVE RtuInv'
  OBVIOUS
<1>1. /\ pc = "data" /\ Len(stream) >= need /\ stream' = Rest(need)
      /\ sent' = sent /\ req' = req /\ pending' = pending
  BY DEF ReadData
<1>2. need \in Nat /\ need <= Len(stream) /\ Len(stream) \in Nat
  BY <1>1, LenProperties DEF RtuInv, RtuTypeOK
<1>3. pc # "idle"
  BY <1>1
<1>4. CASE ~(ValidCrc(frame \o First(need)) /\ need = 2 * req.count + 2)
  <2>1. Fail("mismatch", FALSE)
    BY <1>4 DEF ReadData
  <2>2. newest' = newest
    BY <2>1 DEF Fail
  <2>3. stream' \in Seq(ByteSet) /\ StreamInv' /\ QueueInv'
    BY <1>1, <1>2, <2>2, Taken DEF RtuInv
  <2> QED
    BY <1>1, <1>3, <2>1, <2>3, Failing
<1>5. CASE ValidCrc(frame \o First(need)) /\ need = 2 * req.count + 2
  <2> DEFINE a == frame[1].of
  <2>1. /\ need \in 1..Len(stream) /\ a \in Answers /\ a.intact /\ SizeOf(a) = need + 3
        /\ Telling(frame[1], 1) /\ Telling(frame[2], 2) /\ frame[2].of = a
        /\ stream[need].of = a /\ stream[need].at = need + 3
    BY <1>1, <1>5, WholeFrame
  <2>2. Accept(a)
    BY <1>5 DEF ReadData
  <2>3. a.req.slave = req.slave /\ a.req.fn = req.fn /\ ~a.exception
    BY <1>1, <2>1 DEF RtuInv, FrameInv
  <2>4. ~suspect => Fresh(a, Len(stream) + 3) /\ pending = <<>>
    BY <1>1 DEF RtuInv, StepInv, ExchangeInv
  <2>5. newest < stream[need].of.req.id
    BY <2>1 DEF RtuInv, StreamInv
  <2> HIDE DEF a
  <2>6. newest' = stream[need].of.req.id
    <3>1. a.req.id \in Nat /\ newest \in Nat
      BY <2>1, ByteFields, RtuAssumption DEF RtuInv, RtuTypeOK
    <3> QED
      BY <2>1, <2>2, <2>5, <3>1 DEF Accept
  <2>7. /\ stream' \in Seq(ByteSet) /\ Len(stream') = Len(stream) - need
        /\ newest' \in 0..sent' /\ StreamInv' /\ QueueInv'
    BY <1>1, <1>2, <2>1, <2>6, Taken DEF RtuInv
  <2>8. [a.req EXCEPT !.id = req.id] = req
    <3>1. a.req \in Requests /\ req \in Requests
      BY <2>1 DEF RtuInv, RtuTypeOK, Answers
    <3>2. a.req.count \in Nat /\ req.count \in Nat /\ req.fn = Reading /\ Reading \notin Writing
      BY <1>1, <3>1, RequestFields DEF RtuInv, ExchangeInv
    <3>3. SizeOf(a) = 5 + 2 * a.req.count
      BY <2>3, <3>2 DEF SizeOf
    <3>4. a.req.count = req.count
      BY <1>5, <2>1, <3>2, <3>3
    <3> QED
      BY <2>3, <3>1, <3>4, SameRequest
  <2>9. ~suspect => a.req = req /\ stream' = <<>> /\ pending = <<>>
    <3> SUFFICES ASSUME ~suspect PROVE a.req = req /\ stream' = <<>> /\ pending = <<>>
      OBVIOUS
    <3>1. Len(stream) + 3 = need + 3 /\ a.req = req /\ pending = <<>>
      BY <2>1, <2>4 DEF Fresh
    <3>2. Len(stream') = 0
      BY <1>2, <2>7, <3>1
    <3> QED
      BY <2>7, <3>1, <3>2, EmptySeq
  <2> QED
    BY <1>1, <1>3, <2>1, <2>2, <2>3, <2>7, <2>8, <2>9, Accepting
<1> QED
  BY <1>4, <1>5

LEMMA FixedKeeps == RtuInv /\ ReadFixed => RtuInv'
<1> SUFFICES ASSUME RtuInv, ReadFixed PROVE RtuInv'
  OBVIOUS
<1>1. /\ pc = "fixed" /\ Len(stream) >= 8 /\ stream' = Rest(8)
      /\ sent' = sent /\ req' = req /\ pending' = pending
  BY DEF ReadFixed
<1>2. 8 \in Nat /\ 8 <= Len(stream) /\ Len(stream) \in Nat
  BY <1>1, LenProperties DEF RtuInv, RtuTypeOK
<1>3. pc # "idle"
  BY <1>1
<1>4. PICK mine \in LooksFromSlave(stream[1]), kind \in LooksLike(stream[2]) :
         IF mine /\ kind = "answer" /\ ValidCrc(First(8))
         THEN Accept(stream[1].of)
         ELSE Fail("mismatch", FALSE)
  BY DEF ReadFixed
<1>5. CASE ~(mine /\ kind = "answer" /\ ValidCrc(First(8)))
  <2>1. Fail("mismatch", FALSE)
    BY <1>4, <1>5
  <2>2. newest' = newest
    BY <2>1 DEF Fail
  <2>3. stream' \in Seq(ByteSet) /\ StreamInv' /\ QueueInv'
    BY <1>1, <1>2, <2>2, Taken DEF RtuInv
  <2> QED
    BY <1>1, <1>3, <2>1, <2>3, Failing
<1>6. CASE mine /\ kind = "answer" /\ ValidCrc(First(8))
  <2> DEFINE a == stream[1].of
  <2>1. /\ First(8) \in Seq(ByteSet) /\ Len(First(8)) = 8
        /\ \A i \in 1..8 : First(8)[i] = stream[i]
    BY <1>2, Split DEF RtuInv
  <2>2. /\ a \in Answers /\ a.intact /\ SizeOf(a) = 8
        /\ \A i \in 1..8 : stream[i] = [of |-> a, at |-> i]
    <3>1. First(8)[1] = stream[1]
      BY <2>1
    <3> QED
      BY <1>6, <2>1, <3>1, WholeAnswer
  <2>3. Accept(a)
    BY <1>4, <1>6
  <2>4. /\ a.req.slave = req.slave /\ a.req.fn = req.fn /\ ~a.exception
    <3>1. stream[1] = [of |-> a, at |-> 1] /\ stream[2] = [of |-> a, at |-> 2]
      BY <2>2
    <3> HIDE DEF a
    <3>2. Telling(stream[1], 1) /\ Telling(stream[2], 2)
          /\ stream[1].of = a /\ stream[2].of = a
      BY <2>2, <3>1 DEF Telling
    <3> QED
      BY <1>6, <3>2 DEF LooksFromSlave, LooksLike
  <2>5. 8 \in 1..Len(stream) /\ stream[8].of = a /\ stream[8].at = 8
    BY <1>2, <2>2
  <2>6. newest < stream[8].of.req.id
    BY <2>5 DEF RtuInv, StreamInv
  <2>7. ~suspect => Fresh(a, Len(stream)) /\ pending = <<>>
    <3>1. stream # <<>>
      BY <1>1, EmptySeq
    <3> QED
      BY <1>1, <3>1 DEF RtuInv, StepInv, ExchangeInv
  <2> HIDE DEF a
  <2>8. newest' = stream[8].of.req.id
    <3>1. a.req.id \in Nat /\ newest \in Nat
      BY <2>5, ByteFields, RtuAssumption DEF RtuInv, RtuTypeOK
    <3> QED
      BY <2>3, <2>5, <2>6, <3>1 DEF Accept
  <2>9. /\ stream' \in Seq(ByteSet) /\ Len(stream') = Len(stream) - 8
        /\ newest' \in 0..sent' /\ StreamInv' /\ QueueInv'
    BY <1>1, <1>2, <2>2, <2>5, <2>8, Taken DEF RtuInv
  <2>10. [a.req EXCEPT !.id = req.id] = req
    <3>1. a.req \in Requests /\ req \in Requests
      BY <2>2 DEF RtuInv, RtuTypeOK, Answers
    <3>2. req.fn \in Writing
      BY <1>1 DEF RtuInv, ExchangeInv
    <3>3. a.req.count = req.count
      BY <2>4, <3>1, <3>2, RequestFields
    <3> QED
      BY <2>4, <3>1, <3>3, SameRequest
  <2>11. ~suspect => a.req = req /\ stream' = <<>> /\ pending = <<>>
    <3> SUFFICES ASSUME ~suspect PROVE a.req = req /\ stream' = <<>> /\ pending = <<>>
      OBVIOUS
    <3>1. Len(stream) = 8 /\ a.req = req /\ pending = <<>>
      BY <2>2, <2>7 DEF Fresh
    <3>2. Len(stream') = 0
      BY <2>9, <3>1
    <3> QED
      BY <2>9, <3>1, <3>2, EmptySeq
  <2> QED
    BY <1>1, <1>3, <2>2, <2>3, <2>4, <2>9, <2>10, <2>11, Accepting
<1> QED
  BY <1>5, <1>6

\* The first of the answers to come is off the queue.
LEMMA Dequeued ==
  ASSUME RtuTypeOK, QueueInv, pending # <<>>
  PROVE  /\ Head(pending) = pending[1] /\ Head(pending) \in Requests
         /\ 1 \in 1..Len(pending)
         /\ Tail(pending) \in Seq(Requests) /\ Len(Tail(pending)) = Len(pending) - 1
         /\ \A p \in 1..Len(Tail(pending)) :
               Tail(pending)[p] = pending[p + 1] /\ p + 1 \in 1..Len(pending)
<1>1. pending \in Seq(Requests) /\ Len(pending) \in Nat /\ Len(pending) # 0
  BY EmptySeq, LenProperties DEF RtuTypeOK
<1>2. /\ Head(pending) \in Requests
      /\ Tail(pending) \in Seq(Requests) /\ Len(Tail(pending)) = Len(pending) - 1
      /\ \A p \in 1..Len(Tail(pending)) : Tail(pending)[p] = pending[p + 1]
  BY <1>1, HeadTailProperties
<1> QED
  BY <1>1, <1>2

LEMMA NoAnswerKeeps == RtuInv /\ NoAnswer => RtuInv'
<1> SUFFICES ASSUME RtuInv, NoAnswer PROVE RtuInv'
  OBVIOUS
<1>1. /\ pending # <<>> /\ pending' = Tail(pending)
      /\ UNCHANGED <<connected, sent, req, pc, need, frame, stream, accepted, newest, suspect>>
  BY DEF NoAnswer
<1>2. /\ pending' \in Seq(Requests) /\ Len(pending') = Len(pending) - 1
      /\ \A p \in 1..Len(pending') : pending'[p] = pending[p + 1] /\ p + 1 \in 1..Len(pending)
      /\ Len(pending) \in Nat
  BY <1>1, Dequeued, LenProperties DEF RtuInv, RtuTypeOK
<1>3. RtuTypeOK' /\ AcceptedFits'
  BY <1>1, <1>2 DEF RtuInv, RtuTypeOK, AcceptedFits
<1>4. StreamInv'
  BY <1>1 DEF RtuInv, StreamInv
<1>5. QueueInv'
  BY <1>1, <1>2 DEF RtuInv, QueueInv
<1>6. ExchangeInv' /\ FrameInv'
  BY <1>1 DEF RtuInv, ExchangeInv, FrameInv, Telling
<1>7. StepInv'
  <2> SUFFICES ASSUME connected, ~suspect
               PROVE  /\ pc \in {"header", "fixed"} /\ stream = <<>> /\ pending' = <<>>
    BY <1>1 DEF StepInv
  <2>1. pc \in {"header", "fixed"} /\ stream = <<>> /\ pending = <<req>>
    BY <1>1 DEF RtuInv, RtuTypeOK, StepInv
  <2> QED
    BY <1>1, <2>1
<1> QED
  BY <1>3, <1>4, <1>5, <1>6, <1>7 DEF RtuInv

LEMMA AnswerKeeps ==
  \A exception, intact, short \in BOOLEAN : RtuInv /\ Answer(exception, intact, short) => RtuInv'
<1> SUFFICES ASSUME NEW exception \in BOOLEAN, NEW intact \in BOOLEAN, NEW short \in BOOLEAN,
                    RtuInv, Answer(exception, intact, short)
             PROVE  RtuInv'
  OBVIOUS
<1> DEFINE a == [req |-> Head(pending), exception |-> exception, intact |-> intact]
           size == SizeOf(a) - (IF short THEN 1 ELSE 0)
           new == Bytes(a, size)
<1>1. /\ pending # <<>> /\ pending' = Tail(pending)
      /\ stream' = stream \o new
      /\ UNCHANGED <<connected, sent, req, pc, need, frame, accepted, newest, suspect>>
      /\ short => ~intact
  BY DEF Answer
<1>2. /\ a \in Answers /\ a.req = pending[1] /\ a.req \in Requests /\ a.req.id \in Nat
      /\ a.intact => ~short
      /\ 1 \in 1..Len(pending) /\ Len(pending) \in Nat
  <2>1. Head(pending) = pending[1] /\ Head(pending) \in Requests /\ 1 \in 1..Len(pending)
    BY <1>1, Dequeued DEF RtuInv
  <2>2. Head(pending).id \in Nat
    BY <2>1, RequestFields, RtuAssumption
  <2>3. Len(pending) \in Nat
    BY LenProperties DEF RtuInv, RtuTypeOK
  <2> QED
    BY <1>1, <2>1, <2>2, <2>3 DEF Answers
<1> HIDE DEF a
<1>3. size \in Nat /\ size >= 4 /\ size <= SizeOf(a) /\ SizeOf(a) \in Nat
      /\ (~short => size = SizeOf(a))
  BY <1>2, Sizes
<1> HIDE DEF size
<1>4. /\ new \in Seq(ByteSet) /\ Len(new) = size
      /\ \A i \in 1..size : new[i] = [of |-> a, at |-> i]
  BY <1>2, <1>3, AnswerBytes
<1> HIDE DEF new
<1>5. stream \in Seq(ByteSet) /\ Len(stream) \in Nat
  BY LenProperties DEF RtuInv, RtuTypeOK, ByteSet
<1>6. /\ stream' \in Seq(ByteSet) /\ Len(stream') = Len(stream) + Len(new)
      /\ \A i \in 1..(Len(stream) + Len(new)) :
            stream'[i] = IF i <= Len(stream) THEN stream[i] ELSE new[i - Len(stream)]
  BY <1>1, <1>4, <1>5, ConcatProperties, Zenon
<1>7. \A i \in 1..Len(stream') :
         \/ i \in 1..Len(stream) /\ stream'[i] = stream[i]
         \/ /\ i \notin 1..Len(stream) /\ i - Len(stream) \in 1..size
            /\ stream'[i].of = a /\ stream'[i].at = i - Len(stream)
  <2> SUFFICES ASSUME NEW i \in 1..Len(stream'), i \notin 1..Len(stream)
               PROVE  /\ i - Len(stream) \in 1..size
                      /\ stream'[i].of = a /\ stream'[i].at = i - Len(stream)
    <3>1. \A i \in 1..Len(stream) : stream'[i] = stream[i]
      BY <1>5, <1>6, <1>4, <1>3
    <3> QED
      BY <3>1
  <2>1. i - Len(stream) \in 1..size /\ ~(i <= Len(stream))
    BY <1>3, <1>4, <1>5, <1>6
  <2>2. stream'[i] = new[i - Len(stream)]
    BY <1>6, <2>1
  <2>3. stream'[i] = [of |-> a, at |-> i - Len(stream)]
    BY <1>4, <2>1, <2>2
  <2> QED
    BY <2>1, <2>3
<1>8. /\ pending' \in Seq(Requests) /\ Len(pending') = Len(pending) - 1
      /\ \A p \in 1..Len(pending') : pending'[p] = pending[p + 1] /\ p + 1 \in 1..Len(pending)
  BY <1>1, Dequeued DEF RtuInv
<1>9. RtuTypeOK' /\ AcceptedFits'
  BY <1>1, <1>6, <1>8 DEF RtuInv, RtuTypeOK, AcceptedFits, ByteSet
<1>10. newest < a.req.id /\ a.req.id <= sent
       /\ \A i \in 1..Len(stream) : stream[i].of.req.id < a.req.id
  BY <1>2 DEF RtuInv, QueueInv
<1>11. StreamInv'
  <2>1. \A i \in 1..Len(stream') :
           /\ stream'[i].at \in 1..SizeOf(stream'[i].of)
           /\ newest < stream'[i].of.req.id /\ stream'[i].of.req.id <= sent
    <3> SUFFICES ASSUME NEW i \in 1..Len(stream')
                 PROVE  /\ stream'[i].at \in 1..SizeOf(stream'[i].of)
                        /\ newest < stream'[i].of.req.id /\ stream'[i].of.req.id <= sent
      OBVIOUS
    <3>1. CASE i \in 1..Len(stream) /\ stream'[i] = stream[i]
      BY <3>1 DEF RtuInv, StreamInv
    <3>2. CASE /\ i - Len(stream) \in 1..size
               /\ stream'[i].of = a /\ stream'[i].at = i - Len(stream)
      <4>1. stream'[i].of = a /\ stream'[i].at \in 1..size
        BY <3>2
      <4> QED
        BY <1>3, <1>10, <4>1
    <3> QED
      BY <1>7, <3>1, <3>2
  <2>2. \A i, j \in 1..Len(stream') : i < j => Before(stream'[i], stream'[j])
    <3> SUFFICES ASSUME NEW i \in 1..Len(stream'), NEW j \in 1..Len(stream'), i < j
                 PROVE  Before(stream'[i], stream'[j])
      OBVIOUS
    <3>1. CASE j \in 1..Len(stream)
      <4>1. i \in 1..Len(stream)
        BY <1>5, <3>1
      <4> QED
        BY <1>7, <3>1, <4>1 DEF RtuInv, StreamInv
    <3>2. CASE i \in 1..Len(stream) /\ j \notin 1..Len(stream)
      <4>1. stream'[j].of = a /\ stream'[i] = stream[i]
        BY <1>7, <3>2
      <4> QED
        BY <1>10, <3>2, <4>1 DEF Before
    <3>3. CASE i \notin 1..Len(stream) /\ j \notin 1..Len(stream)
      <4>1. /\ stream'[i].of = a /\ stream'[i].at = i - Len(stream)
            /\ stream'[j].of = a /\ stream'[j].at = j - Len(stream)
        BY <1>7, <3>3
      <4>2. i - Len(stream) < j - Len(stream)
        BY <1>5, <1>6
      <4> QED
        BY <4>1, <4>2 DEF Before
    <3> QED
      BY <3>1, <3>2, <3>3
  <2> QED
    BY <1>1, <2>1, <2>2 DEF StreamInv, Before
<1>12. QueueInv'
  <2> SUFFICES ASSUME NEW p \in 1..Len(pending')
               PROVE  /\ newest < pending'[p].id /\ pending'[p].id <= sent
                      /\ \A i \in 1..Len(stream') : stream'[i].of.req.id < pending'[p].id
                      /\ \A q \in 1..Len(pending') : p < q => pending'[p].id < pending'[q].id
    BY <1>1 DEF QueueInv
  <2>1. pending'[p] = pending[p + 1] /\ p + 1 \in 1..Len(pending) /\ 1 < p + 1
    BY <1>2, <1>8
  <2>2. a.req.id < pending[p + 1].id
    BY <1>2, <2>1 DEF RtuInv, QueueInv
  <2>3. \A i \in 1..Len(stream') : stream'[i].of.req.id < pending'[p].id
    <3> SUFFICES ASSUME NEW i \in 1..Len(stream')
                 PROVE  stream'[i].of.req.id < pending'[p].id
      OBVIOUS
    <3>1. CASE i \in 1..Len(stream) /\ stream'[i] = stream[i]
      BY <2>1, <3>1 DEF RtuInv, QueueInv
    <3>2. CASE stream'[i].of = a
      BY <2>1, <2>2, <3>2
    <3> QED
      BY <1>7, <3>1, <3>2
  <2>4. \A q \in 1..Len(pending') : p < q => pending'[p].id < pending'[q].id
    <3> SUFFICES ASSUME NEW q \in 1..Len(pending'), p < q
                 PROVE  pending'[p].id < pending'[q].id
      OBVIOUS
    <3>1. pending'[q] = pending[q + 1] /\ q + 1 \in 1..Len(pending) /\ p + 1 < q + 1
      BY <1>2, <1>8
    <3> QED
      BY <2>1, <3>1 DEF RtuInv, QueueInv
  <2>5. newest < pending[p + 1].id /\ pending[p + 1].id <= sent
    BY <2>1 DEF RtuInv, QueueInv
  <2> QED
    BY <2>1, <2>3, <2>4, <2>5
<1>13. ExchangeInv' /\ FrameInv'
  BY <1>1 DEF RtuInv, ExchangeInv, FrameInv, Telling
<1>14. StepInv'
  <2> SUFFICES ASSUME connected, ~suspect
               PROVE  /\ pc \in {"header", "fixed"} /\ stream' # <<>> /\ pending' = <<>>
                      /\ stream'[1].of.req = req
                      /\ stream'[1].of.intact => Len(stream') = SizeOf(stream'[1].of)
    BY <1>1 DEF StepInv, Fresh
  <2>1. pc \in {"header", "fixed"} /\ stream = <<>> /\ pending = <<req>>
    BY <1>1 DEF RtuInv, RtuTypeOK, StepInv
  <2>2. Len(stream) = 0
    BY <2>1, EmptySeq
  <2>3. Len(stream') = size /\ 1 \in 1..Len(stream')
    BY <1>3, <1>4, <1>6, <2>2
  <2>4. stream'[1].of = a
    BY <1>7, <2>2, <2>3
  <2>5. a.req = req /\ pending' = <<>>
    BY <1>1, <1>2, <2>1
  <2>6. stream' # <<>>
    BY <2>3, EmptySeq
  <2> QED
    BY <1>2, <1>3, <2>1, <2>3, <2>4, <2>5, <2>6
<1> QED
  BY <1>9, <1>11, <1>12, <1>13, <1>14 DEF RtuInv

LEMMA RtuInvNext == RtuInv /\ [RtuNext]_vars => RtuInv'
<1> SUFFICES ASSUME RtuInv, [RtuNext]_vars PROVE RtuInv'
  OBVIOUS
<1>1. CASE RtuNext
  BY <1>1, ConnectKeeps, ResetKeeps, SendKeeps, SendFailsKeeps, TimeoutKeeps, HeaderKeeps, ExceptionKeeps,
     DataKeeps, FixedKeeps, AnswerKeeps, NoAnswerKeeps DEF RtuNext, Exchange
<1>2. CASE UNCHANGED vars
  BY <1>2 DEF vars, RtuInv, RtuTypeOK, StreamInv, QueueInv, ExchangeInv, FrameInv, StepInv,
              AcceptedFits, Fresh, Before, Telling
<1> QED
  BY <1>1, <1>2

-----------------------------------------------------------------------------
(* What follows.                                                           *)

LEMMA RtuInvariant == RtuSpec => []RtuInv
BY RtuInvInit, RtuInvNext, PTL DEF RtuSpec

\* The variables of the client of connect_rtu_over_tcp have their types, and an
\* exchange waits for bytes exactly while it is under way.
THEOREM RtuTypes == RtuSpec => []RtuTypeOK
<1>1. RtuInv => RtuTypeOK
  BY DEF RtuInv
<1> QED
  BY <1>1, RtuInvariant, PTL

\* Until an exchange breaks off, read_variable_response and
\* exchange_fixed_response end where their answer ends.
THEOREM NothingLeftBehind == RtuSpec => []InStep
<1>1. RtuInv => InStep
  BY DEF RtuInv, StepInv, InStep
<1> QED
  BY <1>1, RtuInvariant, PTL

\* What read_registers and the writes return fits the request, even when the
\* stream is out of step; in step it is the answer to this request.
THEOREM OnlyFittingAnswers == RtuSpec => []AcceptedFits
<1>1. RtuInv => AcceptedFits
  BY DEF RtuInv
<1> QED
  BY <1>1, RtuInvariant, PTL

\* A late answer is not accepted after a later one, and no answer twice, whatever
\* was left in the socket of the client.
THEOREM AnswersInOrder == RtuSpec => AcceptedInOrder
<1>1. ASSUME RtuInv, [RtuNext]_vars
      PROVE  [accepted' # accepted /\ accepted' # None => accepted'.req.id > newest]_vars
  <2> SUFFICES ASSUME RtuNext, accepted' # accepted, accepted' # None
               PROVE  accepted'.req.id > newest
    BY <1>1
  <2>1. ReadData \/ ReadFixed
    <3>1. Connect \/ (\E r \in Requests : Send(r) \/ SendFails(r)) => accepted' = None
      BY DEF Connect, Send, SendFails
    <3>2. Reset \/ NoAnswer \/ (\E e, i, s \in BOOLEAN : Answer(e, i, s))
          => accepted' = accepted
      BY DEF Reset, NoAnswer, Answer
    <3>3. ReceiveTimeout \/ ReadHeader \/ ReadException => accepted' = accepted
      BY Zenon DEF ReceiveTimeout, ReadHeader, ReadException, Fail
    <3> QED
      BY <3>1, <3>2, <3>3 DEF RtuNext, Exchange
  <2>2. CASE ReadData
    <3>1. pc = "data" /\ Len(stream) >= need
      BY <2>2 DEF ReadData
    <3>2. ValidCrc(frame \o First(need)) /\ accepted' = frame[1].of
      BY <2>2 DEF ReadData, Accept, Fail
    <3>3. need \in 1..Len(stream) /\ stream[need].of = frame[1].of
      BY <1>1, <3>1, <3>2, WholeFrame
    <3>4. newest < stream[need].of.req.id
      BY <1>1, <3>3 DEF RtuInv, StreamInv
    <3> QED
      BY <3>2, <3>3, <3>4
  <2>3. CASE ReadFixed
    <3>1. Len(stream) >= 8 /\ accepted' = stream[1].of
      BY <2>3 DEF ReadFixed, Accept, Fail
    <3>2. 1 \in 1..Len(stream)
      BY <1>1, <3>1, LenProperties DEF RtuInv, RtuTypeOK
    <3> QED
      BY <1>1, <3>1, <3>2 DEF RtuInv, StreamInv
  <2> QED
    BY <2>1, <2>2, <2>3
<1>2. RtuSpec => []RtuInv /\ [][RtuNext]_vars
  BY RtuInvariant, PTL DEF RtuSpec
<1> QED
  BY <1>1, <1>2, PTL DEF AcceptedInOrder
===============================================================================
