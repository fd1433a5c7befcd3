----------------------------- MODULE ControlPanel -----------------------------
(***************************************************************************)
(* The control panel component: a reader thread takes lines of joystick    *)
(* values from the serial port and publishes them, field by field, in      *)
(* atomics that the process thread loads, field by field, in getSnapshot.  *)
(*                                                                         *)
(* The process thread is also the one that calls initialize and reset, so  *)
(* a snapshot never overlaps with those: one program counter, ownerPc, is  *)
(* enough for all three.  The thread of initialize is at most one, as both *)
(* Machine::initialize and the control cycles of the process thread, which *)
(* it starts afterwards, are sequential.                                   *)
(*                                                                         *)
(* A value is the number of the line it comes from: what matters here is   *)
(* which line a reader sees, not where the joystick stands.  All accesses  *)
(* are release stores of one thread and acquire loads of the other, so the *)
(* interleaving of single accesses is what the C++ memory model allows.    *)
(***************************************************************************)
EXTENDS Naturals, Sequences

CONSTANTS
    Sticks,         \* number of joysticks, 3 in the code
    MaxSessions,    \* bound on the number of calls of initialize
    MaxLines        \* bound on the valid lines read in one session

ASSUME PanelAssumption ==
    /\ Sticks \in Nat \ {0}
    /\ MaxSessions \in Nat
    /\ MaxLines \in Nat

VARIABLES
    state,          \* MachineComponent::_state
    readerRunning,  \* ControlPanel::_readerRunning
    comm,           \* the serial port: "open" or "closed"
    published,      \* _x, _y, _b: for each field the session and line it is from
    readerPc,       \* where the reader thread is; "none": not joinable
    field,          \* the next field the reader thread publishes
    line,           \* the last valid line read in this session
    ownerPc,        \* where the process thread is in this component
    call,           \* the operation it is in, "initialize" or "reset"
    session,        \* calls of initialize so far, bounded by MaxSessions
    snapshot        \* lines of the fields getSnapshot has loaded so far

reader == <<readerPc, field, line>>
owner == <<ownerPc, call, session, snapshot>>
vars == <<state, readerRunning, comm, published, reader, owner>>

\* The atomics in the order of the loops of processLine and getSnapshot:
\* x, y and b of the first joystick, then of the next.
Fields == 1..(3 * Sticks)

Zero(s) == [f \in Fields |-> [session |-> s, line |-> 0]]

Init ==
    /\ state = "Error"
    /\ readerRunning = FALSE
    /\ comm = "closed"
    /\ published = Zero(0)
    /\ readerPc = "none" /\ field = 1 /\ line = 0
    /\ ownerPc = "idle" /\ call = "reset" /\ session = 0 /\ snapshot = <<>>

-----------------------------------------------------------------------------
(* reset, which is also how initialize begins.                             *)

BeginInitialize ==
    /\ ownerPc = "idle"
    /\ session < MaxSessions
    /\ session' = session + 1
    /\ call' = "initialize"
    /\ ownerPc' = "clearState"
    /\ UNCHANGED <<state, readerRunning, comm, published, reader, snapshot>>

BeginReset ==
    /\ ownerPc = "idle"
    /\ call' = "reset"
    /\ ownerPc' = "clearState"
    /\ UNCHANGED <<state, readerRunning, comm, published, reader, session, snapshot>>

ClearState ==
    /\ ownerPc = "clearState"
    /\ state' = "Error"
    /\ ownerPc' = "stopReader"
    /\ UNCHANGED <<readerRunning, comm, published, reader, call, session, snapshot>>

\* Mutant of StopReader: the flag stays as it is.
ForgetToStopReader ==
    /\ ownerPc = "stopReader"
    /\ ownerPc' = "join"
    /\ UNCHANGED <<state, readerRunning, comm, published, reader, call, session, snapshot>>

StopReader ==
    /\ ownerPc = "stopReader"
    /\ readerRunning' = FALSE
    /\ ownerPc' = "join"
    /\ UNCHANGED <<state, comm, published, reader, call, session, snapshot>>

\* Mutant of JoinReader: the reader thread is left to end by itself.
AbandonReader ==
    /\ ownerPc = "join"
    /\ ownerPc' = "close"
    /\ UNCHANGED <<state, readerRunning, comm, published, reader, call, session, snapshot>>

JoinReader ==
    /\ ownerPc = "join"
    /\ readerPc \in {"none", "finished"}
    /\ readerPc' = "none"
    /\ ownerPc' = "close"
    /\ UNCHANGED <<state, readerRunning, comm, published, field, line, call, session,
                   snapshot>>

CloseComm ==
    /\ ownerPc = "close"
    /\ comm' = "closed"
    /\ ownerPc' = IF call = "reset" THEN "idle" ELSE "open"
    /\ UNCHANGED <<state, readerRunning, published, reader, call, session, snapshot>>

-----------------------------------------------------------------------------
(* The rest of initialize.                                                 *)

OpenComm(ok) ==
    /\ ownerPc = "open"
    /\ IF ok THEN comm' = "open" /\ ownerPc' = "resetSignals"
             ELSE ownerPc' = "failClose" /\ UNCHANGED comm
    /\ UNCHANGED <<state, readerRunning, published, reader, call, session, snapshot>>

\* Mutant of ResetSignals: the values of the last session stay in place.
KeepSignals ==
    /\ ownerPc = "resetSignals"
    /\ line' = 0
    /\ ownerPc' = "setRunning"
    /\ UNCHANGED <<state, readerRunning, comm, published, readerPc, field, call, session,
                   snapshot>>

\* resetSignalProcessingState; no other thread looks at the values now.
ResetSignals ==
    /\ ownerPc = "resetSignals"
    /\ published' = Zero(session)
    /\ line' = 0
    /\ ownerPc' = "setRunning"
    /\ UNCHANGED <<state, readerRunning, comm, readerPc, field, call, session, snapshot>>

SetRunning ==
    /\ ownerPc = "setRunning"
    /\ readerRunning' = TRUE
    /\ ownerPc' = "spawn"
    /\ UNCHANGED <<state, comm, published, reader, call, session, snapshot>>

SpawnReader(ok) ==
    /\ ownerPc = "spawn"
    /\ IF ok THEN readerPc' = "loop" /\ ownerPc' = "setNormal"
             ELSE ownerPc' = "failClose" /\ UNCHANGED readerPc
    /\ UNCHANGED <<state, readerRunning, comm, published, field, line, call, session,
                   snapshot>>

\* The last statement of initialize, while the reader thread already runs.
SetNormal ==
    /\ ownerPc = "setNormal"
    /\ state' = "Normal"
    /\ ownerPc' = "idle"
    /\ UNCHANGED <<readerRunning, comm, published, reader, call, session, snapshot>>

\* The exception handler of initialize: close, then setState(Error), rethrow.
FailClose ==
    /\ ownerPc = "failClose"
    /\ comm' = "closed"
    /\ ownerPc' = "failError"
    /\ UNCHANGED <<state, readerRunning, published, reader, call, session, snapshot>>

FailError ==
    /\ ownerPc = "failError"
    /\ state' = "Error"
    /\ ownerPc' = "idle"
    /\ UNCHANGED <<readerRunning, comm, published, reader, call, session, snapshot>>

-----------------------------------------------------------------------------
(* getSnapshot: nine loads, one after the other.  The status builder takes *)
(* one at every update, whatever the state of the component.               *)

BeginSnapshot ==
    /\ ownerPc = "idle"
    /\ ownerPc' = "snapshot"
    /\ UNCHANGED <<state, readerRunning, comm, published, reader, call, session, snapshot>>

LoadField ==
    /\ ownerPc = "snapshot"
    /\ Len(snapshot) < 3 * Sticks
    /\ snapshot' = Append(snapshot, published[Len(snapshot) + 1].line)
    /\ UNCHANGED <<state, readerRunning, comm, published, reader, ownerPc, call, session>>

EndSnapshot ==
    /\ ownerPc = "snapshot"
    /\ Len(snapshot) = 3 * Sticks
    /\ snapshot' = <<>>
    /\ ownerPc' = "idle"
    /\ UNCHANGED <<state, readerRunning, comm, published, reader, call, session>>

\* What the process thread does inside an operation of the component.
OwnerStep ==
    \/ ClearState
    \/ StopReader
    \/ JoinReader
    \/ CloseComm
    \/ \E ok \in BOOLEAN : OpenComm(ok)
    \/ ResetSignals
    \/ SetRunning
    \/ \E ok \in BOOLEAN : SpawnReader(ok)
    \/ SetNormal
    \/ FailClose
    \/ FailError
    \/ LoadField
    \/ EndSnapshot

-----------------------------------------------------------------------------
(* The reader thread.                                                      *)

ReaderLoop ==
    /\ readerPc = "loop"
    /\ readerPc' = IF readerRunning THEN "read" ELSE "finished"
    /\ UNCHANGED <<state, readerRunning, comm, published, field, line, owner>>

\* readLine returns nothing within its time-out.
ReadTimeout ==
    /\ readerPc = "read"
    /\ readerPc' = "loop"
    /\ UNCHANGED <<state, readerRunning, comm, published, field, line, owner>>

ReadLine ==
    /\ readerPc = "read"
    /\ readerPc' = "check"
    /\ UNCHANGED <<state, readerRunning, comm, published, field, line, owner>>

\* readLine throws: the port failed its health check or could not be read.
ReadFails ==
    /\ readerPc = "read"
    /\ readerPc' = "failState"
    /\ UNCHANGED <<state, readerRunning, comm, published, field, line, owner>>

\* The flag is read again once a line is there.
StopAfterLine ==
    /\ readerPc = "check"
    /\ ~readerRunning
    /\ readerPc' = "finished"
    /\ UNCHANGED <<state, readerRunning, comm, published, field, line, owner>>

\* Mutant of RejectLine: what was parsed before the error is published.
RejectLineHalfway ==
    /\ readerPc = "check"
    /\ readerRunning
    /\ line < MaxLines
    /\ line' = line + 1
    /\ published' = [published EXCEPT ![1] = [session |-> session, line |-> line + 1]]
    /\ readerPc' = "loop"
    /\ UNCHANGED <<state, readerRunning, comm, field, owner>>

\* An empty or malformed line changes nothing: all fields are parsed first.
RejectLine ==
    /\ readerPc = "check"
    /\ readerRunning
    /\ readerPc' = "loop"
    /\ UNCHANGED <<state, readerRunning, comm, published, field, line, owner>>

AcceptLine ==
    /\ readerPc = "check"
    /\ readerRunning
    /\ line < MaxLines
    /\ line' = line + 1
    /\ field' = 1
    /\ readerPc' = "publish"
    /\ UNCHANGED <<state, readerRunning, comm, published, owner>>

PublishField ==
    /\ readerPc = "publish"
    /\ published' = [published EXCEPT ![field] = [session |-> session, line |-> line]]
    /\ IF field = 3 * Sticks
       THEN field' = 1 /\ readerPc' = "loop"
       ELSE field' = field + 1 /\ UNCHANGED readerPc
    /\ UNCHANGED <<state, readerRunning, comm, line, owner>>

\* The exception handler of readerLoop: state, flag, port.
FailState ==
    /\ readerPc = "failState"
    /\ state' = "Error"
    /\ readerPc' = "failStop"
    /\ UNCHANGED <<readerRunning, comm, published, field, line, owner>>

FailStop ==
    /\ readerPc = "failStop"
    /\ readerRunning' = FALSE
    /\ readerPc' = "failClose"
    /\ UNCHANGED <<state, comm, published, field, line, owner>>

FailReaderClose ==
    /\ readerPc = "failClose"
    /\ comm' = "closed"
    /\ readerPc' = "finished"
    /\ UNCHANGED <<state, readerRunning, published, field, line, owner>>

ReaderStep ==
    \/ ReaderLoop
    \/ ReadTimeout
    \/ ReadLine
    \/ ReadFails
    \/ StopAfterLine
    \/ RejectLine
    \/ AcceptLine
    \/ PublishField
    \/ FailState
    \/ FailStop
    \/ FailReaderClose

-----------------------------------------------------------------------------

Next ==
    \/ BeginInitialize
    \/ BeginReset
    \/ BeginSnapshot
    \/ OwnerStep
    \/ ReaderStep

Spec == Init /\ [][Next]_vars

\* The operating system runs the reader thread, whose readLine returns within
\* its time-out, and an operation that has begun.
FairSpec == Spec /\ WF_vars(OwnerStep) /\ WF_vars(ReaderStep)

-----------------------------------------------------------------------------
(* Properties.                                                             *)

Stamps == [session : 0..MaxSessions, line : 0..MaxLines]

TypeOK ==
    /\ state \in {"Normal", "Error"}
    /\ readerRunning \in BOOLEAN
    /\ comm \in {"open", "closed"}
    /\ published \in [Fields -> Stamps]
    /\ readerPc \in {"none", "loop", "read", "check", "publish", "failState", "failStop",
                     "failClose", "finished"}
    /\ field \in Fields
    /\ line \in 0..MaxLines
    /\ ownerPc \in {"idle", "clearState", "stopReader", "join", "close", "open",
                    "resetSignals", "setRunning", "spawn", "setNormal", "failClose",
                    "failError", "snapshot"}
    /\ call \in {"initialize", "reset"}
    /\ session \in 0..MaxSessions
    /\ snapshot \in Seq(0..MaxLines) /\ Len(snapshot) <= 3 * Sticks

\* The port, the processors and the atomics are handed over between the two
\* threads: while the process thread opens or closes the port or resets the
\* processors there is no reader thread, and the reader thread only ever reads
\* a port that is open.
ExclusiveUse ==
    /\ ownerPc \in {"close", "open", "resetSignals", "setRunning", "spawn", "failClose",
                    "failError"} => readerPc = "none"
    /\ readerPc \in {"read", "check", "publish"} => comm = "open"

\* While the component rests in the state Error, its values do not move.
NoUpdatesInError ==
    [][ownerPc = "idle" /\ state = "Error" => published' = published]_vars

\* A component that is in use never shows a value from before its last
\* initialization (test ReinitializeResetsSignalProcessingState).
NoStaleSession ==
    state = "Normal" /\ ownerPc \in {"idle", "snapshot"} =>
        \A f \in Fields : published[f].session = session

\* A snapshot taken while lines arrive may mix lines, but a field loaded later
\* is at most one line older than a field loaded before it.
SnapshotSkew ==
    \A p, q \in 1..Len(snapshot) : p < q => snapshot[p] <= snapshot[q] + 1

\* initialize, reset and getSnapshot return: the join does not wait forever.
OperationsReturn == ownerPc # "idle" ~> ownerPc = "idle"

\* A read failure puts the component into the state Error, where it stays until
\* the next call of initialize (test ReadFailureTransitionsToErrorState).
ReadFailureIsError ==
    ownerPc = "idle" /\ readerPc = "finished" => state = "Error"
=============================================================================
