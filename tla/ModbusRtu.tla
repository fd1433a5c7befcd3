------------------------------- MODULE ModbusRtu ------------------------------
(***************************************************************************)
(* The Modbus client of the motors in its RTU-over-TCP form, with the      *)
(* rules by which its callers give a connection up.  RTU frames are not    *)
(* separated in the byte stream and carry no number, so an answer is known *)
(* only by the device, the function and the size it shows, and where it    *)
(* ends follows from the bytes themselves.                                 *)
(*                                                                         *)
(* A byte is a pair of the answer it belongs to and its place in it.  The  *)
(* first three bytes of an answer say something: device, function, number  *)
(* of bytes to come.  Any other byte, and every byte of a damaged answer,  *)
(* may look like anything.  The check sum is taken to hold for exactly the *)
(* bytes of one undamaged answer, from the first to the last.              *)
(*                                                                         *)
(* The devices behind the device server (external) answer one after the    *)
(* other, as late as they like or not at all; answers under way when the   *)
(* connection is closed are dropped by the device server.  The other form, *)
(* a serial port, is left to libmodbus, which is not modelled.             *)
(***************************************************************************)
EXTENDS Naturals, Sequences

CONSTANTS
    Slaves,         \* addresses of the drivers
    Writing,        \* functions that write: one register (6), several (16)
    Counts,         \* numbers of registers that are read at once
    MaxRequests,    \* bound on the number of requests
    ByteCounts,     \* bound: what a data byte may claim as the number of bytes
    None            \* no answer was accepted

ASSUME RtuAssumption ==
    /\ Writing \subseteq {6, 16}
    /\ Counts \subseteq Nat \ {0}
    /\ MaxRequests \in Nat
    /\ ByteCounts \subseteq Nat

\* The function code of the reads, holding registers.
Reading == 3

\* What a request and its answer have in common; count is 0 for writes.
Requests ==
    [id : 1..MaxRequests, slave : Slaves, fn : {Reading}, count : Counts]
    \cup [id : 1..MaxRequests, slave : Slaves, fn : Writing, count : {0}]

VARIABLES
    connected,      \* rtu_tcp_->fd
    sent,           \* how many requests have been sent
    req,            \* the request of the current or last exchange
    pc,             \* where the exchange is: idle, or waiting for some bytes
    need,           \* how many bytes the exchange waits for
    frame,          \* the bytes it has taken for the beginning of its answer
    stream,         \* the bytes received and not yet read
    pending,        \* the requests that devices have to answer
    accepted,       \* history: the answer the exchange returned
    newest,         \* history: the highest number of an accepted answer
    suspect         \* history: an exchange on this connection broke off

vars == <<connected, sent, req, pc, need, frame, stream, pending, accepted, newest, suspect>>

Answers == [req : Requests, exception : BOOLEAN, intact : BOOLEAN]

\* The bytes of an answer: exception 5, write 8, read 5 and two per register.
SizeOf(a) ==
    IF a.exception THEN 5 ELSE IF a.req.fn \in Writing THEN 8 ELSE 5 + 2 * a.req.count

Bytes(a, size) == [i \in 1..size |-> [of |-> a, at |-> i]]

\* validate_crc.
ValidCrc(bytes) ==
    /\ bytes # <<>>
    /\ bytes[1].of.intact
    /\ bytes = Bytes(bytes[1].of, SizeOf(bytes[1].of))

\* What the bytes look like when they are taken for the first three.
Telling(b, i) == b.of.intact /\ b.at = i

LooksFromSlave(b) == IF Telling(b, 1) THEN {b.of.req.slave = req.slave} ELSE BOOLEAN

LooksLike(b) ==
    IF ~Telling(b, 2) THEN {"answer", "exception", "other"}
    ELSE IF b.of.req.fn # req.fn THEN {"other"}
    ELSE IF b.of.exception THEN {"exception"} ELSE {"answer"}

LooksLong(b) ==
    IF Telling(b, 3) /\ ~b.of.exception /\ b.of.req.fn = Reading
    THEN {2 * b.of.req.count} ELSE ByteCounts

First(n) == SubSeq(stream, 1, n)
Rest(n) == SubSeq(stream, n + 1, Len(stream))

RtuInit ==
    /\ connected = FALSE
    /\ sent = 0
    /\ req \in {r \in Requests : r.id = 1}
    /\ pc = "idle"
    /\ need = 0
    /\ frame = <<>>
    /\ stream = <<>>
    /\ pending = <<>>
    /\ accepted = None
    /\ newest = 0
    /\ suspect = FALSE

-----------------------------------------------------------------------------
(* The connection.                                                         *)

\* Mutant of Connect: the bytes of the old connection stay.
ConnectKeepsBytes ==
    /\ ~connected /\ pc = "idle"
    /\ connected' = TRUE
    /\ accepted' = None
    /\ suspect' = FALSE
    /\ UNCHANGED <<sent, req, pc, need, frame, newest, stream, pending>>

\* connect_rtu_over_tcp, from MotorControl::initialize.
Connect ==
    /\ ~connected /\ pc = "idle"
    /\ connected' = TRUE
    /\ stream' = <<>>
    /\ pending' = <<>>
    /\ accepted' = None
    /\ suspect' = FALSE
    /\ UNCHANGED <<sent, req, pc, need, frame, newest>>

\* MotorControl::reset, between two exchanges.
Reset ==
    /\ connected /\ pc = "idle"
    /\ connected' = FALSE
    /\ UNCHANGED <<sent, req, pc, need, frame, stream, pending, accepted, newest, suspect>>

\* Which failures make the caller close the connection: every one in the control
\* tasks, whose handler resets MotorControl; time-outs in the operations that
\* end in handleCommunicationFailure; none in setEnabled.
Callers == {"control", "checked", "setEnabled"}

Closes(caller, why) ==
    \/ caller = "control"
    \/ caller = "checked" /\ why = "timeout"

-----------------------------------------------------------------------------
(* An exchange.                                                            *)

\* set_slave and write_all.
Send(r) ==
    /\ connected /\ pc = "idle"
    /\ r.id = sent + 1
    /\ sent' = r.id
    /\ req' = r
    /\ pc' = IF r.fn = Reading THEN "header" ELSE "fixed"
    /\ need' = IF r.fn = Reading THEN 3 ELSE 8
    /\ frame' = <<>>
    /\ pending' = Append(pending, r)
    /\ accepted' = None
    /\ UNCHANGED <<connected, stream, newest, suspect>>

\* write_all gives up: the device gets at most a part of the request, and does not
\* answer it.
SendFails(r) ==
    /\ connected /\ pc = "idle"
    /\ r.id = sent + 1
    /\ sent' = r.id
    /\ req' = r
    /\ accepted' = None
    /\ \E caller \in Callers, why \in {"timeout", "error"} :
          connected' = ~Closes(caller, why)
    /\ UNCHANGED <<pc, need, frame, stream, pending, newest, suspect>>

\* The exchange ends with an exception, for the reason why.
Fail(why, harmless) ==
    /\ pc' = "idle"
    /\ need' = 0
    /\ frame' = <<>>
    /\ suspect' = (suspect \/ ~harmless)
    /\ \E caller \in Callers :
          connected' = (connected /\ ~Closes(caller, why))
    /\ UNCHANGED <<accepted, newest>>

Accept(a) ==
    /\ pc' = "idle"
    /\ need' = 0
    /\ frame' = <<>>
    /\ accepted' = a
    /\ newest' = IF a.req.id > newest THEN a.req.id ELSE newest
    /\ UNCHANGED <<connected, suspect>>

\* Mutant of ReceiveTimeout: a recv that timed out is repeated.
ReceiveRepeats ==
    /\ pc # "idle"
    /\ Len(stream) < need
    /\ UNCHANGED vars

\* recv gives up: what had arrived is lost for good.  When the device server has
\* hung up, errno is an old one, which may or may not be that of a time-out.
ReceiveTimeout ==
    /\ pc # "idle"
    /\ Len(stream) < need
    /\ stream' = <<>>
    /\ \E why \in {"timeout", "hung up"} : Fail(why, FALSE)
    /\ UNCHANGED <<sent, req, pending>>

\* read_variable_response: the first three bytes decide how many follow.
ReadHeader ==
    /\ pc = "header"
    /\ Len(stream) >= 3
    /\ stream' = Rest(3)
    /\ \E mine \in LooksFromSlave(stream[1]), kind \in LooksLike(stream[2]),
          n \in LooksLong(stream[3]) :
         IF ~mine \/ kind = "other"
         THEN Fail("mismatch", FALSE)
         ELSE /\ pc' = IF kind = "exception" THEN "exception" ELSE "data"
              /\ need' = IF kind = "exception" THEN 2 ELSE n + 2
              /\ frame' = First(3)
              /\ UNCHANGED <<connected, accepted, newest, suspect>>
    /\ UNCHANGED <<sent, req, pending>>

\* An exception answer that was read from end to end leaves nothing behind.
ReadException ==
    /\ pc = "exception"
    /\ Len(stream) >= need
    /\ stream' = Rest(need)
    /\ Fail("exception", ValidCrc(frame \o First(need)))
    /\ UNCHANGED <<sent, req, pending>>

\* Mutant of ReadData: the number of registers is not compared.
ReadDataOfAnySize ==
    /\ pc = "data"
    /\ Len(stream) >= need
    /\ stream' = Rest(need)
    /\ IF ValidCrc(frame \o First(need))
       THEN Accept(frame[1].of)
       ELSE Fail("mismatch", FALSE)
    /\ UNCHANGED <<sent, req, pending>>

\* read_registers: the check sum, then the number of bytes.
ReadData ==
    /\ pc = "data"
    /\ Len(stream) >= need
    /\ stream' = Rest(need)
    /\ IF ValidCrc(frame \o First(need)) /\ need = 2 * req.count + 2
       THEN Accept(frame[1].of)
       ELSE Fail("mismatch", FALSE)
    /\ UNCHANGED <<sent, req, pending>>

\* Mutant of ReadFixed: the answer stays in the socket.
ReadFixedPeeks ==
    /\ pc = "fixed"
    /\ Len(stream) >= 8
    /\ stream' = stream
    /\ \E mine \in LooksFromSlave(stream[1]), kind \in LooksLike(stream[2]) :
         IF mine /\ kind = "answer" /\ ValidCrc(First(8))
         THEN Accept(stream[1].of)
         ELSE Fail("mismatch", FALSE)
    /\ UNCHANGED <<sent, req, pending>>

\* exchange_fixed_response: eight bytes, whatever the answer is.
ReadFixed ==
    /\ pc = "fixed"
    /\ Len(stream) >= 8
    /\ stream' = Rest(8)
    /\ \E mine \in LooksFromSlave(stream[1]), kind \in LooksLike(stream[2]) :
         IF mine /\ kind = "answer" /\ ValidCrc(First(8))
         THEN Accept(stream[1].of)
         ELSE Fail("mismatch", FALSE)
    /\ UNCHANGED <<sent, req, pending>>

-----------------------------------------------------------------------------
(* The devices (external).                                                 *)

\* The next answer arrives: as it should, as an exception, or damaged, perhaps
\* short of a byte.
Answer(exception, intact, short) ==
    /\ connected /\ pending # <<>>
    /\ LET a == [req |-> Head(pending), exception |-> exception, intact |-> intact]
       IN  /\ short => ~intact
           /\ stream' = stream \o Bytes(a, SizeOf(a) - (IF short THEN 1 ELSE 0))
    /\ pending' = Tail(pending)
    /\ UNCHANGED <<connected, sent, req, pc, need, frame, accepted, newest, suspect>>

\* The request or its answer got lost.
NoAnswer ==
    /\ connected /\ pending # <<>>
    /\ pending' = Tail(pending)
    /\ UNCHANGED <<connected, sent, req, pc, need, frame, stream, accepted, newest, suspect>>

Exchange == ReceiveTimeout \/ ReadHeader \/ ReadException \/ ReadData \/ ReadFixed

RtuNext ==
    \/ Connect
    \/ Reset
    \/ \E r \in Requests : Send(r) \/ SendFails(r)
    \/ Exchange
    \/ \E e, i, s \in BOOLEAN : Answer(e, i, s)
    \/ NoAnswer

RtuSpec == RtuInit /\ [][RtuNext]_vars

\* recv returns, with bytes or with a time-out.
FairSpec == RtuSpec /\ WF_vars(Exchange)

-----------------------------------------------------------------------------
(* Properties.                                                             *)

\* Types; an exchange waits for bytes exactly while it is under way, and holds
\* the first three bytes exactly while it reads the rest of an answer.
RtuTypeOK ==
    /\ connected \in BOOLEAN
    /\ sent \in 0..MaxRequests
    /\ req \in Requests
    /\ pc \in {"idle", "header", "exception", "data", "fixed"}
    /\ need \in Nat /\ (need = 0 <=> pc = "idle")
    /\ frame \in Seq([of : Answers, at : Nat])
    /\ Len(frame) = IF pc \in {"exception", "data"} THEN 3 ELSE 0
    /\ stream \in Seq([of : Answers, at : Nat])
    /\ pending \in Seq(Requests)
    /\ accepted \in Answers \cup {None}
    /\ newest \in 0..sent
    /\ suspect \in BOOLEAN

\* As long as no exchange on the connection has broken off, every exchange ends
\* where its answer ends: nothing is left for the next one to stumble over.
InStep ==
    connected /\ ~suspect /\ pc = "idle" => stream = <<>> /\ pending = <<>>

\* In step or not, an accepted answer is an undamaged answer to a request for
\* the same device, function and number of registers; in step it is the answer
\* to this very request.
AcceptedFits ==
    accepted # None =>
        /\ accepted.intact /\ ~accepted.exception
        /\ [accepted.req EXCEPT !.id = req.id] = req
        /\ ~suspect => accepted.req = req

\* Out of step, too, answers are accepted in the order of their requests and
\* none of them twice.
AcceptedInOrder ==
    [][accepted' # accepted /\ accepted' # None => accepted'.req.id > newest]_vars

\* Every exchange ends, however the bytes are grouped.
ExchangeEnds == pc # "idle" ~> pc = "idle"
===============================================================================
