-------------------------- MODULE ControlPanelProofs --------------------------
(***************************************************************************)
(* Theorems about ControlPanel, for any number of joysticks, sessions and  *)
(* lines, that JoystickPanel, which adds the signal processing, is an      *)
(* implementation of it, and that the panel shows what the lines amount to *)
(* for any readings, filter depths and number of lines.                    *)
(***************************************************************************)
EXTENDS JoystickPanel, TLAPS, SequenceTheorems, NaturalsInduction, WellFoundedInduction

-----------------------------------------------------------------------------
(* The inductive invariant.                                                *)

\* Where reset has begun and initialize has not ended.
Reinitializing == {"stopReader", "join", "close", "open", "resetSignals", "setRunning",
                   "spawn", "setNormal", "failClose", "failError"}

\* Where there is no reader thread.
Alone == {"close", "open", "resetSignals", "setRunning", "spawn", "failClose", "failError"}

\* Reading, and everything that a reader thread does before it closes the port.
Busy == {"loop", "read", "check", "publish", "failState", "failStop", "failClose"}

\* The port is open from open to the end of the reader thread, and the process
\* thread changes it only when there is none.
PortInv ==
    /\ ownerPc \in Alone => readerPc = "none"
    /\ ownerPc \in {"resetSignals", "setRunning", "spawn"} \/ readerPc \in Busy
       => comm = "open"

\* The values are those of this session from resetSignals on, for as long as the
\* component is Normal; reset and initialize are in the state Error.
SessionInv ==
    /\ ownerPc \in Reinitializing => state = "Error"
    /\ \/ ownerPc \in {"setRunning", "spawn", "setNormal"}
       \/ ownerPc \in {"idle", "snapshot"} /\ state = "Normal"
       => \A f \in Fields : published[f].session = session

\* The fields from the one that is published next are a line behind.
TornInv ==
    /\ readerPc = "publish" => line >= 1
    /\ \A f \in Fields :
        published[f].line = IF readerPc = "publish" /\ f >= field THEN line - 1 ELSE line

\* What a snapshot has loaded is not newer than the last line.
SnapshotInv ==
    /\ ownerPc # "snapshot" => snapshot = <<>>
    /\ \A p \in 1..Len(snapshot) : snapshot[p] <= line

PanelInv == TypeOK /\ PortInv /\ SessionInv /\ TornInv /\ SnapshotInv /\ SnapshotSkew

-----------------------------------------------------------------------------
\* The component is created with the invariant.
LEMMA PanelInit == Init => PanelInv
<1> SUFFICES ASSUME Init PROVE PanelInv
  OBVIOUS
<1>1. /\ published \in [Fields -> Stamps]
      /\ \A f \in Fields : published[f] = [session |-> 0, line |-> 0]
  BY PanelAssumption DEF Init, Zero, Stamps
<1>2. readerRunning \in BOOLEAN
  BY DEF Init
<1>3. TypeOK
  BY <1>1, <1>2, PanelAssumption DEF Init, TypeOK, Fields
<1>4. PortInv /\ SessionInv /\ TornInv /\ SnapshotInv /\ SnapshotSkew
  BY <1>1 DEF Init, PortInv, SessionInv, TornInv, SnapshotInv, SnapshotSkew,
              Reinitializing, Alone, Busy
<1> QED
  BY <1>3, <1>4 DEF PanelInv

\* The steps of the process thread up to the port's closing and in initialize,
\* except the one that resets the values.
LEMMA OwnerControl ==
    ASSUME PanelInv,
           \/ BeginInitialize \/ BeginReset \/ BeginSnapshot \/ ClearState \/ StopReader
           \/ JoinReader \/ CloseComm \/ (\E ok \in BOOLEAN : OpenComm(ok)) \/ SetRunning
           \/ (\E ok \in BOOLEAN : SpawnReader(ok)) \/ SetNormal \/ FailClose \/ FailError
    PROVE  PanelInv'
<1> USE PanelAssumption
<1>1. TypeOK'
  <2>1. readerRunning' \in BOOLEAN
    BY DEF PanelInv, TypeOK, BeginInitialize, BeginReset, BeginSnapshot, ClearState,
           StopReader, JoinReader, CloseComm, OpenComm, SetRunning, SpawnReader, SetNormal,
           FailClose, FailError
  <2>2. /\ UNCHANGED <<published, field, line, snapshot>>
        /\ state' \in {state, "Normal", "Error"} /\ comm' \in {comm, "open", "closed"}
        /\ readerPc' \in {readerPc, "none", "loop"}
        /\ session' = session \/ (session < MaxSessions /\ session' = session + 1)
    BY DEF BeginInitialize, BeginReset, BeginSnapshot, ClearState, StopReader, JoinReader,
           CloseComm, OpenComm, SetRunning, SpawnReader, SetNormal, FailClose, FailError,
           reader
  <2>3. /\ call' \in {call, "initialize", "reset"}
        /\ ownerPc' \in {"idle", "clearState", "stopReader", "join", "close", "open",
                         "resetSignals", "setRunning", "spawn", "setNormal", "failClose",
                         "failError", "snapshot"}
    BY DEF BeginInitialize, BeginReset, BeginSnapshot, ClearState, StopReader, JoinReader,
           CloseComm, OpenComm, SetRunning, SpawnReader, SetNormal, FailClose, FailError
  <2> QED
    BY <2>1, <2>2, <2>3 DEF PanelInv, TypeOK
<1>2. PortInv'
  BY DEF PanelInv, PortInv, Alone, Busy, TypeOK, BeginInitialize, BeginReset, BeginSnapshot,
         ClearState, StopReader, JoinReader, CloseComm, OpenComm, SetRunning, SpawnReader,
         SetNormal, FailClose, FailError, reader, owner
<1>3. SessionInv'
  BY DEF PanelInv, SessionInv, Reinitializing, TypeOK, BeginInitialize, BeginReset,
         BeginSnapshot, ClearState, StopReader, JoinReader, CloseComm, OpenComm, SetRunning,
         SpawnReader, SetNormal, FailClose, FailError, reader, owner
<1>4. /\ published' = published /\ line' = line /\ field' = field /\ snapshot' = snapshot
      /\ readerPc' = "publish" <=> readerPc = "publish"
      /\ ownerPc # "snapshot"
  BY DEF PanelInv, PortInv, Alone, BeginInitialize, BeginReset, BeginSnapshot, ClearState,
         StopReader, JoinReader, CloseComm, OpenComm, SetRunning, SpawnReader, SetNormal,
         FailClose, FailError, reader, owner
<1>5. TornInv'
  BY <1>4 DEF PanelInv, TornInv
<1>6. SnapshotInv' /\ SnapshotSkew'
  BY <1>4 DEF PanelInv, SnapshotInv, SnapshotSkew
<1> QED
  BY <1>1, <1>2, <1>3, <1>5, <1>6 DEF PanelInv

\* The values are reset while there is no reader thread.
LEMMA ResetKeeps == PanelInv /\ ResetSignals => PanelInv'
<1> SUFFICES ASSUME PanelInv, ResetSignals PROVE PanelInv'
  OBVIOUS
<1>1. readerPc = "none" /\ snapshot = <<>>
  BY DEF PanelInv, PortInv, SnapshotInv, Alone, ResetSignals
<1>2. /\ \A f \in Fields : published'[f] = [session |-> session, line |-> 0]
      /\ published' \in [Fields -> Stamps]
  BY PanelAssumption DEF PanelInv, TypeOK, ResetSignals, Zero, Stamps
<1>3. TypeOK'
  BY <1>2, PanelAssumption DEF PanelInv, TypeOK, ResetSignals, owner
<1>4. PortInv' /\ SessionInv'
  BY <1>2 DEF PanelInv, PortInv, SessionInv, Reinitializing, Alone, Busy, ResetSignals
<1>5. TornInv' /\ SnapshotInv' /\ SnapshotSkew'
  BY <1>1, <1>2 DEF ResetSignals, TornInv, SnapshotInv, SnapshotSkew
<1> QED
  BY <1>3, <1>4, <1>5 DEF PanelInv

\* A field that is loaded shows the last line or the one before it.
LEMMA LoadKeeps == PanelInv /\ LoadField => PanelInv'
<1> SUFFICES ASSUME PanelInv, LoadField PROVE PanelInv'
  OBVIOUS
<1> DEFINE n == Len(snapshot) + 1
           v == published[n].line
<1> USE PanelAssumption
<1>1. /\ n \in Fields /\ v \in 0..MaxLines /\ line \in Nat
      /\ line <= v + 1 /\ v <= line
  BY DEF PanelInv, TypeOK, TornInv, LoadField, Fields, Stamps
<1>2. /\ snapshot \in Seq(0..MaxLines) /\ snapshot' = Append(snapshot, v)
      /\ Len(snapshot') = n
      /\ snapshot'[n] = v
      /\ \A p \in 1..Len(snapshot) : snapshot'[p] = snapshot[p] /\ snapshot[p] \in 0..MaxLines
  BY <1>1 DEF PanelInv, TypeOK, LoadField
<1>3. TypeOK'
  BY <1>1, <1>2 DEF PanelInv, TypeOK, LoadField, reader
<1>4. PortInv' /\ SessionInv' /\ TornInv'
  BY DEF PanelInv, PortInv, SessionInv, TornInv, LoadField, reader
<1> HIDE DEF v
<1>5. SnapshotInv'
  BY <1>1, <1>2 DEF PanelInv, SnapshotInv, LoadField, reader
<1>6. SnapshotSkew'
  BY <1>1, <1>2 DEF PanelInv, SnapshotInv, SnapshotSkew
<1> QED
  BY <1>3, <1>4, <1>5, <1>6 DEF PanelInv

\* A snapshot that is complete is forgotten.
LEMMA EndKeeps == PanelInv /\ EndSnapshot => PanelInv'
BY PanelAssumption
   DEF EndSnapshot, reader, PanelInv, TypeOK, PortInv, SessionInv, TornInv, SnapshotInv,
       SnapshotSkew, Reinitializing, Alone

-----------------------------------------------------------------------------
(* The reader thread.                                                      *)

\* The steps that leave the values and the number of the line alone.
LEMMA ReaderControl ==
    ASSUME PanelInv,
           \/ ReaderLoop \/ ReadTimeout \/ ReadLine \/ ReadFails \/ StopAfterLine
           \/ RejectLine \/ FailState \/ FailStop \/ FailReaderClose
    PROVE  PanelInv'
<1>1. TypeOK' /\ PortInv' /\ SessionInv'
  BY PanelAssumption
     DEF PanelInv, TypeOK, PortInv, SessionInv, Reinitializing, Alone, Busy, ReaderLoop,
         ReadTimeout, ReadLine, ReadFails, StopAfterLine, RejectLine, FailState, FailStop,
         FailReaderClose, owner
<1>2. /\ published' = published /\ line' = line /\ snapshot' = snapshot
      /\ ownerPc' = ownerPc /\ readerPc # "publish" /\ readerPc' # "publish"
  BY DEF ReaderLoop, ReadTimeout, ReadLine, ReadFails, StopAfterLine, RejectLine, FailState,
         FailStop, FailReaderClose, owner
<1>3. TornInv' /\ SnapshotInv' /\ SnapshotSkew'
  BY <1>2 DEF PanelInv, TornInv, SnapshotInv, SnapshotSkew
<1> QED
  BY <1>1, <1>3 DEF PanelInv

\* All fields are a line behind a line just accepted.
LEMMA AcceptKeeps == PanelInv /\ AcceptLine => PanelInv'
<1> SUFFICES ASSUME PanelInv, AcceptLine PROVE PanelInv'
  OBVIOUS
<1> USE PanelAssumption
<1>1. TypeOK' /\ PortInv' /\ SessionInv'
  BY DEF PanelInv, TypeOK, PortInv, SessionInv, Reinitializing, Alone, Busy, AcceptLine,
         owner, Fields
<1>2. TornInv'
  BY DEF PanelInv, TypeOK, TornInv, AcceptLine, Fields, Stamps
<1>3. SnapshotInv' /\ SnapshotSkew'
  BY DEF PanelInv, TypeOK, SnapshotInv, SnapshotSkew, AcceptLine, owner
<1> QED
  BY <1>1, <1>2, <1>3 DEF PanelInv

\* The field that is published is of the last line.
LEMMA PublishKeeps == PanelInv /\ PublishField => PanelInv'
<1> SUFFICES ASSUME PanelInv, PublishField PROVE PanelInv'
  OBVIOUS
<1> USE PanelAssumption
<1>1. /\ field \in Fields /\ line \in 0..MaxLines /\ session \in 0..MaxSessions
      /\ [session |-> session, line |-> line] \in Stamps
  BY DEF PanelInv, TypeOK, Stamps
<1>2. \A f \in Fields :
        published'[f] = IF f = field THEN [session |-> session, line |-> line]
                        ELSE published[f]
  BY <1>1 DEF PanelInv, TypeOK, PublishField
<1>3. TypeOK'
  BY <1>1 DEF PanelInv, TypeOK, PublishField, owner, Fields
<1>4. PortInv' /\ SessionInv'
  BY <1>2 DEF PanelInv, PortInv, SessionInv, Reinitializing, Alone, Busy, PublishField, owner
<1>5. TornInv'
  BY <1>1, <1>2 DEF PanelInv, TypeOK, TornInv, PublishField, Fields
<1>6. SnapshotInv' /\ SnapshotSkew'
  BY DEF PanelInv, SnapshotInv, SnapshotSkew, PublishField, owner
<1> QED
  BY <1>3, <1>4, <1>5, <1>6 DEF PanelInv

-----------------------------------------------------------------------------
\* Every step of the two threads keeps the invariant.
LEMMA PanelStep == PanelInv /\ [Next]_vars => PanelInv'
<1> SUFFICES ASSUME PanelInv, [Next]_vars PROVE PanelInv'
  OBVIOUS
<1>1. CASE BeginInitialize \/ BeginReset \/ BeginSnapshot
  BY <1>1, OwnerControl
<1>2. CASE OwnerStep
  BY <1>2, OwnerControl, ResetKeeps, LoadKeeps, EndKeeps DEF OwnerStep
<1>3. CASE ReaderStep
  BY <1>3, ReaderControl, AcceptKeeps, PublishKeeps DEF ReaderStep
<1>4. CASE UNCHANGED vars
  BY <1>4 DEF vars, reader, owner, PanelInv, TypeOK, PortInv, SessionInv, TornInv,
              SnapshotInv, SnapshotSkew
<1> QED
  BY <1>1, <1>2, <1>3, <1>4 DEF Next

\* The invariant holds in every behaviour.
LEMMA Inductive == Spec => []PanelInv
BY PanelInit, PanelStep, PTL DEF Spec

\* Every variable of the two threads keeps its type.
THEOREM PanelTypes == Spec => []TypeOK
BY Inductive, PTL DEF PanelInv

\* The port and the values are never used by both threads, and the reader
\* thread reads only a port that is open.
THEOREM OneUser == Spec => []ExclusiveUse
<1>1. PanelInv => ExclusiveUse
  BY DEF PanelInv, PortInv, Alone, Busy, ExclusiveUse
<1> QED
  BY Inductive, <1>1, PTL

\* A component in use shows no value from before its last initialization.
THEOREM ThisSession == Spec => []NoStaleSession
<1>1. PanelInv => NoStaleSession
  BY DEF PanelInv, SessionInv, NoStaleSession
<1> QED
  BY Inductive, <1>1, PTL

\* However many joysticks there are, a snapshot mixes at most two neighbouring
\* lines in the wrong order.
THEOREM BoundedSkew == Spec => []SnapshotSkew
BY Inductive, PTL DEF PanelInv

\* The steps of the panel with its joystick are steps of the panel: the signal
\* processing takes no part in what the threads do, so the theorems above hold
\* of JoystickSpec as well.
THEOREM PanelRefined == JoystickSpec => Spec
<1>1. JoystickInit => Init
  BY DEF JoystickInit
<1>2. [JoystickNext]_allVars => [Next]_vars
  BY DEF JoystickNext, Next, Owner, Reader, allVars
<1> QED
  BY <1>1, <1>2, PTL DEF JoystickSpec, Spec

-----------------------------------------------------------------------------
(* The sums of the readings.                                               *)

\* A non-empty set of natural numbers has a least element.
LEMMA Least ==
    ASSUME NEW T \in SUBSET Nat, T # {}
    PROVE  \E n \in T : \A m \in T : n <= m
<1>1. PICK n \in T : \A m \in T : ~(<<m, n>> \in OpToRel(<, Nat))
  BY NatLessThanWellFounded, WFMin, Zenon
<1>2. \A m \in T : ~(m < n)
  BY <1>1 DEF OpToRel
<1> QED BY <1>2

\* Lines and readings have their types.
LEMMA SampleFacts ==
    ASSUME NEW ss \in Seq(Samples)
    PROVE  /\ Len(ss) \in Nat /\ DOMAIN ss = 1..Len(ss)
           /\ \A n \in 1..Len(ss) : ss[n] \in Samples
           /\ \A s \in Samples : s.x \in Readings /\ s.x \in Nat /\ s.button \in BOOLEAN
<1>1. Readings \subseteq Nat
  BY JoystickAssumption
<1>2. Len(ss) \in Nat /\ DOMAIN ss = 1..Len(ss) /\ \A n \in 1..Len(ss) : ss[n] \in Samples
  BY LenProperties, ElementOfSeq
<1>3. \A s \in Samples : s.x \in Readings /\ s.x \in Nat /\ s.button \in BOOLEAN
  BY <1>1 DEF Samples
<1> QED BY <1>2, <1>3

\* The sums are what their recursive definition says: there is a function that
\* satisfies it, and it has numbers for values.
LEMMA TotalFacts ==
    ASSUME NEW ss \in Seq(Samples)
    PROVE  /\ Total(ss)[0] = 0
           /\ \A n \in 1..Len(ss) : Total(ss)[n] = Total(ss)[n - 1] + ss[n].x
           /\ \A n \in 0..Len(ss) : Total(ss)[n] \in Int
<1> DEFINE L == Len(ss)
           Sums(f, n) == /\ f \in [0..n -> Int] /\ f[0] = 0
                         /\ \A i \in 1..n : f[i] = f[i - 1] + ss[i].x
           Step(t) == [n \in 0..L |-> IF n = 0 THEN 0 ELSE t[n - 1] + ss[n].x]
           Bad == {n \in 0..L : ~\E f : Sums(f, n)}
<1>0. L \in Nat /\ \A n \in 1..L : ss[n].x \in Int
  BY SampleFacts
<1>1. Bad = {}
  <2> SUFFICES ASSUME Bad # {} PROVE FALSE
    OBVIOUS
  <2>1. PICK n \in Bad : \A m \in Bad : n <= m
    <3>1. Bad \in SUBSET Nat
      BY <1>0
    <3> HIDE DEF Bad
    <3> QED BY <3>1, Least
  <2>2. n \in 0..L /\ n \in Nat /\ ~\E f : Sums(f, n)
    <3> HIDE DEF Sums
    <3>1. n \in 0..L /\ ~\E f : Sums(f, n)
      OBVIOUS
    <3> QED BY <1>0, <3>1
  <2>3. CASE n = 0
    <3>1. Sums([i \in 0..0 |-> 0], 0)
      OBVIOUS
    <3> QED BY <2>2, <2>3, <3>1
  <2>4. CASE n # 0
    <3>1. n - 1 \in 0..L /\ ~(n <= n - 1)
      BY <1>0, <2>2, <2>4
    <3>2. PICK f : Sums(f, n - 1)
      BY <2>1, <3>1
    <3> DEFINE g == [i \in 0..n |-> IF i = n THEN f[n - 1] + ss[n].x ELSE f[i]]
    <3>3. n \in 1..L /\ f[n - 1] \in Int /\ ss[n].x \in Int
      BY <1>0, <2>2, <2>4, <3>2
    <3>4. g \in [0..n -> Int] /\ g[0] = 0
      BY <2>2, <2>4, <3>2, <3>3
    <3>5. \A i \in 1..n : g[i] = g[i - 1] + ss[i].x
      <4>1. \A i \in 1..n : i = n \/ i \in 1..(n - 1)
        BY <2>2
      <4>2. g[n] = g[n - 1] + ss[n].x
        BY <2>2, <2>4
      <4>3. \A i \in 1..(n - 1) : g[i] = f[i] /\ g[i - 1] = f[i - 1] /\ f[i] = f[i - 1] + ss[i].x
        BY <2>2, <3>2
      <4> QED BY <4>1, <4>2, <4>3
    <3>6. Sums(g, n)
      BY <3>4, <3>5
    <3> QED BY <2>2, <3>6
  <2> QED BY <2>3, <2>4
<1>2. PICK f : Sums(f, L)
  BY <1>0, <1>1
<1>3. f = Step(f)
  <2>1. f \in [0..L -> Int] /\ \A n \in 0..L : f[n] = IF n = 0 THEN 0 ELSE f[n - 1] + ss[n].x
    BY <1>0, <1>2
  <2> QED BY <2>1
<1>4. Total(ss) = CHOOSE t : t = Step(t)
  BY DEF Total
<1> DEFINE t == Total(ss)
<1>5. t = Step(t)
  <2> HIDE DEF Step
  <2> QED BY <1>3, <1>4
<1>6. t[0] = 0 /\ \A n \in 1..L : t[n] = t[n - 1] + ss[n].x
  BY <1>0, <1>5
<1> HIDE DEF t
<1>7. \A n \in 0..L : t[n] = f[n]
  <2> DEFINE Off == {n \in 0..L : t[n] # f[n]}
  <2> SUFFICES ASSUME Off # {} PROVE FALSE
    OBVIOUS
  <2>1. PICK n \in Off : \A m \in Off : n <= m
    <3>1. Off \in SUBSET Nat
      BY <1>0
    <3> HIDE DEF Off
    <3> QED BY <3>1, Least
  <2>2. n \in 0..L /\ t[n] # f[n] /\ n # 0
    BY <1>2, <1>6, <2>1
  <2>3. n - 1 \in 0..L /\ n \in 1..L /\ ~(n <= n - 1)
    BY <1>0, <2>2
  <2>4. t[n - 1] = f[n - 1]
    BY <2>1, <2>3
  <2> QED BY <1>2, <1>6, <2>2, <2>3, <2>4
<1>8. \A n \in 0..L : t[n] \in Int
  BY <1>2, <1>7
<1> QED BY <1>6, <1>8 DEF t

\* The sums over a list of lines are those over a longer one.
LEMMA TotalAppend ==
    ASSUME NEW ss \in Seq(Samples), NEW s \in Samples
    PROVE  /\ \A n \in 0..Len(ss) : Total(Append(ss, s))[n] = Total(ss)[n]
           /\ Total(Append(ss, s))[Len(ss) + 1] = Total(ss)[Len(ss)] + s.x
<1> DEFINE ts == Append(ss, s)
           L == Len(ss)
<1>1. /\ ts \in Seq(Samples) /\ Len(ts) = L + 1 /\ L \in Nat
      /\ \A n \in 1..L : ts[n] = ss[n]
      /\ ts[L + 1] = s
  BY SampleFacts
<1> HIDE DEF ts
<1>2. Total(ts)[0] = 0 /\ \A n \in 1..(L + 1) : Total(ts)[n] = Total(ts)[n - 1] + ts[n].x
  BY <1>1, TotalFacts
<1>3. Total(ss)[0] = 0 /\ \A n \in 1..L : Total(ss)[n] = Total(ss)[n - 1] + ss[n].x
  BY TotalFacts
<1>4. \A n \in 0..L : Total(ts)[n] = Total(ss)[n]
  <2> DEFINE Off == {n \in 0..L : Total(ts)[n] # Total(ss)[n]}
  <2> SUFFICES ASSUME Off # {} PROVE FALSE
    OBVIOUS
  <2>1. PICK n \in Off : \A m \in Off : n <= m
    <3>1. Off \in SUBSET Nat
      BY <1>1
    <3> HIDE DEF Off
    <3> QED BY <3>1, Least
  <2>2. n \in 0..L /\ Total(ts)[n] # Total(ss)[n] /\ n # 0
    BY <1>2, <1>3, <2>1
  <2>3. n - 1 \in 0..L /\ n \in 1..L /\ n \in 1..(L + 1) /\ ~(n <= n - 1)
    BY <1>1, <2>2
  <2>4. Total(ts)[n - 1] = Total(ss)[n - 1]
    BY <2>1, <2>3
  <2> QED BY <1>1, <1>2, <1>3, <2>2, <2>3, <2>4
<1>5. L + 1 \in 1..(L + 1) /\ (L + 1) - 1 = L /\ L \in 0..L
  BY <1>1
<1> QED BY <1>1, <1>2, <1>4, <1>5 DEF ts

-----------------------------------------------------------------------------
(* The processor and the lines it has processed.                           *)

Processors ==
    [window : Seq(Readings), sum : Int,
     baselineAcc : Int, baselineCount : Nat, baselineReady : BOOLEAN,
     stable : BOOLEAN, pending : BOOLEAN, pendingCount : Nat]

\* The window has the last readings, its sum theirs, the baseline that of the
\* first ones.
Averaged(p, ss) ==
    LET n == Len(ss)
        w == Len(p.window)
    IN /\ w = IF n < MovingAverageDepth THEN n ELSE MovingAverageDepth
       /\ \A i \in 1..w : p.window[i] = ss[n - w + i].x
       /\ p.sum = Total(ss)[n] - Total(ss)[n - w]
       /\ p.baselineCount = IF n < BaselineSamples THEN n ELSE BaselineSamples
       /\ p.baselineAcc = Total(ss)[p.baselineCount]
       /\ p.baselineReady <=> n >= BaselineSamples

\* The button is what the lines say; its pending count is the number of lines
\* in a row, up to the last, that say otherwise.
Debounced(p, ss) ==
    LET n == Len(ss)
        c == p.pendingCount
    IN /\ p.stable = ButtonAfter(ss, n)
       /\ p.pending = IF n = 0 THEN FALSE ELSE ss[n].button
       /\ c < ButtonDebounceSamples /\ c <= n
       /\ c = 0 <=> p.pending = p.stable
       /\ \A i \in (n - c + 1)..n : ss[i].button = p.pending
       /\ c # 0 /\ c # n => ss[n - c].button # p.pending

\* What the filters do, field by field: the calibration ...
LEMMA CalibrateFacts ==
    ASSUME NEW p \in Processors, NEW x \in Int
    PROVE  LET q == Calibrate(p, x)
               n == p.baselineCount + 1
           IN  /\ q \in Processors
               /\ q.window = p.window /\ q.sum = p.sum
               /\ q.baselineAcc = IF p.baselineReady THEN p.baselineAcc ELSE p.baselineAcc + x
               /\ q.baselineCount = IF p.baselineReady THEN p.baselineCount ELSE n
               /\ q.baselineReady <=> p.baselineReady \/ n >= BaselineSamples
               /\ q.stable = p.stable /\ q.pending = p.pending
               /\ q.pendingCount = p.pendingCount
<1> DEFINE acc == p.baselineAcc + x
           count == p.baselineCount + 1
           ready == p.baselineCount + 1 >= BaselineSamples
           q == Calibrate(p, x)
<1>1. acc \in Int /\ count \in Nat /\ ready \in BOOLEAN
  BY DEF Processors
<1>2. CASE p.baselineReady
  BY <1>2 DEF Calibrate, Processors
<1>3. CASE ~p.baselineReady
  <2>1. q = [p EXCEPT !.baselineAcc = acc, !.baselineCount = count, !.baselineReady = ready]
    BY <1>3 DEF Calibrate
  <2> HIDE DEF acc, count, ready
  <2>2. /\ q \in Processors /\ q.window = p.window /\ q.sum = p.sum
        /\ q.baselineAcc = acc /\ q.baselineCount = count /\ (q.baselineReady <=> ready)
        /\ q.stable = p.stable /\ q.pending = p.pending /\ q.pendingCount = p.pendingCount
    BY <1>1, <2>1 DEF Processors
  <2> QED BY <1>3, <2>2 DEF acc, count, ready
<1> QED BY <1>2, <1>3

FitsAverage(q, p, window, sum) ==
    /\ q \in Processors /\ q.window = window /\ q.sum = sum
    /\ q.baselineAcc = p.baselineAcc /\ q.baselineCount = p.baselineCount
    /\ q.baselineReady = p.baselineReady
    /\ q.stable = p.stable /\ q.pending = p.pending /\ q.pendingCount = p.pendingCount

\* ... the moving average ...
LEMMA AverageFacts ==
    ASSUME NEW p \in Processors, NEW x \in Readings, x \in Int,
           \A i \in 1..Len(p.window) : p.window[i] \in Int
    PROVE  LET q == Average(p, x)
               w == Len(p.window)
           IN  /\ q \in Processors
               /\ w < MovingAverageDepth =>
                    q.window = Append(p.window, x) /\ q.sum = p.sum + x
               /\ w >= MovingAverageDepth =>
                    /\ q.window = Append(Tail(p.window), x)
                    /\ q.sum = p.sum + x - p.window[1]
               /\ q.baselineAcc = p.baselineAcc /\ q.baselineCount = p.baselineCount
               /\ q.baselineReady = p.baselineReady
               /\ q.stable = p.stable /\ q.pending = p.pending
               /\ q.pendingCount = p.pendingCount
<1> DEFINE w == Len(p.window)
           q == Average(p, x)
<1>1. p.window \in Seq(Readings) /\ w \in Nat
  BY LenProperties DEF Processors
<1>2. CASE w < MovingAverageDepth
  <2>1. q = [p EXCEPT !.window = Append(@, x), !.sum = @ + x]
    BY <1>2 DEF Average
  <2>2. Append(p.window, x) \in Seq(Readings)
    BY <1>1, AppendProperties
  <2>3. p.sum + x \in Int
    BY DEF Processors
  <2>4. FitsAverage(q, p, Append(p.window, x), p.sum + x)
    BY <2>1, <2>2, <2>3 DEF Processors, FitsAverage
  <2> QED BY <1>1, <1>2, <2>4, JoystickAssumption DEF FitsAverage
<1>3. CASE ~(w < MovingAverageDepth)
  <2>1. q = [p EXCEPT !.window = Append(Tail(@), x), !.sum = @ + x - Head(p.window)]
    BY <1>3 DEF Average
  <2>2. w # 0 /\ p.window # <<>>
    BY <1>1, <1>3, JoystickAssumption, EmptySeq
  <2>3. Tail(p.window) \in Seq(Readings) /\ Head(p.window) = p.window[1] /\ p.window[1] \in Int
    BY <1>1, <2>2, HeadTailProperties
  <2>4. Append(Tail(p.window), x) \in Seq(Readings)
    BY <2>3, AppendProperties
  <2>5. p.sum + x - p.window[1] \in Int
    BY <2>3 DEF Processors
  <2>6. q = [p EXCEPT !.window = Append(Tail(p.window), x), !.sum = p.sum + x - p.window[1]]
    BY <2>1, <2>3
  <2>7. FitsAverage(q, p, Append(Tail(p.window), x), p.sum + x - p.window[1])
    BY <2>4, <2>5, <2>6 DEF Processors, FitsAverage
  <2> QED BY <1>1, <1>3, <2>7, JoystickAssumption DEF FitsAverage
<1> QED BY <1>2, <1>3

\* ... and the button.
LEMMA DebounceFacts ==
    ASSUME NEW p \in Processors, NEW b \in BOOLEAN
    PROVE  LET q     == DebounceButton(p, b)
               count == IF b = p.stable THEN 0
                        ELSE IF b = p.pending THEN p.pendingCount + 1 ELSE 1
               taken == b # p.stable /\ count >= ButtonDebounceSamples
           IN  /\ q \in Processors
               /\ q.window = p.window /\ q.sum = p.sum
               /\ q.baselineAcc = p.baselineAcc /\ q.baselineCount = p.baselineCount
               /\ q.baselineReady = p.baselineReady
               /\ q.stable = IF taken THEN b ELSE p.stable
               /\ q.pending = b
               /\ q.pendingCount = IF taken THEN 0 ELSE count
<1> DEFINE count == IF b = p.stable THEN 0 ELSE IF b = p.pending THEN p.pendingCount + 1 ELSE 1
           taken == b # p.stable /\ count >= ButtonDebounceSamples
           stable == IF taken THEN b ELSE p.stable
           left == IF taken THEN 0 ELSE count
<1>1. count \in Nat /\ left \in Nat /\ stable \in BOOLEAN
  BY DEF Processors
<1>2. DebounceButton(p, b) = [p EXCEPT !.stable = stable, !.pending = b, !.pendingCount = left]
  BY DEF DebounceButton
<1> HIDE DEF count, stable, left
<1>3. /\ DebounceButton(p, b) \in Processors
      /\ DebounceButton(p, b).stable = stable /\ DebounceButton(p, b).pending = b
      /\ DebounceButton(p, b).pendingCount = left
      /\ DebounceButton(p, b).window = p.window /\ DebounceButton(p, b).sum = p.sum
      /\ DebounceButton(p, b).baselineAcc = p.baselineAcc
      /\ DebounceButton(p, b).baselineCount = p.baselineCount
      /\ DebounceButton(p, b).baselineReady = p.baselineReady
  BY <1>1, <1>2 DEF Processors
<1> QED BY <1>3 DEF stable, left, count

\* The button of the lines, line by line.
LEMMA ButtonSteps ==
    ASSUME NEW ss \in Seq(Samples), NEW n \in 1..Len(ss)
    PROVE  /\ ButtonAfter(ss, 0) = FALSE
           /\ n >= ButtonDebounceSamples /\ Steady(ss, n) => ButtonAfter(ss, n) = ss[n].button
           /\ ~(n >= ButtonDebounceSamples /\ Steady(ss, n)) =>
                ButtonAfter(ss, n) = ButtonAfter(ss, n - 1)
<1> DEFINE D == ButtonDebounceSamples
<1>1. D \in Nat \ {0} /\ n \in Nat \ {0} /\ ss[n].button \in BOOLEAN
  BY JoystickAssumption, SampleFacts
<1>2. ButtonAfter(ss, 0) = FALSE
  BY <1>1 DEF ButtonAfter
<1>3. ASSUME n >= D, Steady(ss, n) PROVE ButtonAfter(ss, n) = ss[n].button
  <2>1. n \in D..n /\ \A k \in D..n : k # n => n \in (k + 1)..n
    BY <1>1, <1>3
  <2>2. \A m \in (n + 1)..n : FALSE
    BY <1>1
  <2>3. ButtonAfter(ss, n) <=> ss[n].button
    BY <1>3, <2>1, <2>2, Zenon DEF ButtonAfter
  <2> QED BY <1>1, <2>3 DEF ButtonAfter
<1>4. ASSUME ~(n >= D /\ Steady(ss, n)) PROVE ButtonAfter(ss, n) = ButtonAfter(ss, n - 1)
  <2>1. ASSUME NEW k \in D..n, Steady(ss, k) PROVE k \in D..(n - 1)
    BY <1>1, <1>4, <2>1
  <2>2. \A k \in D..(n - 1) : k \in D..n
    BY <1>1
  <2>3. \A k \in D..(n - 1) : /\ \A m \in (k + 1)..(n - 1) : m \in (k + 1)..n
                              /\ \A m \in (k + 1)..n : m = n \/ m \in (k + 1)..(n - 1)
                              /\ n >= D
    BY <1>1
  <2>4. \A k \in D..(n - 1) : (\A m \in (k + 1)..n : ~Steady(ss, m)) <=>
                              (\A m \in (k + 1)..(n - 1) : ~Steady(ss, m))
    BY <1>4, <2>3, Zenon
  <2>5. ButtonAfter(ss, n) <=> ButtonAfter(ss, n - 1)
    BY <2>1, <2>2, <2>4, Zenon DEF ButtonAfter
  <2> QED BY <2>5 DEF ButtonAfter
<1> QED BY <1>2, <1>3, <1>4

\* More lines change nothing about what the first ones amount to.
LEMMA ButtonAppend ==
    ASSUME NEW ss \in Seq(Samples), NEW s \in Samples, NEW n \in 0..Len(ss)
    PROVE  ButtonAfter(Append(ss, s), n) = ButtonAfter(ss, n)
<1> DEFINE D == ButtonDebounceSamples
           ts == Append(ss, s)
<1>1. D \in Nat \ {0} /\ n \in Nat /\ Len(ss) \in Nat /\ \A i \in 1..n : ts[i] = ss[i]
  BY JoystickAssumption, SampleFacts, AppendProperties
<1> HIDE DEF ts
<1>2. \A k \in D..n : Steady(ts, k) <=> Steady(ss, k)
  <2>1. \A k \in D..n : \A i \in (k - D + 1)..k : i \in 1..n
    BY <1>1
  <2>2. \A k \in D..n : \A i \in (k - D + 1)..k : ts[i] = ss[i]
    BY <1>1, <2>1
  <2> QED BY <2>2 DEF Steady
<1>3. \A k \in D..n : ts[k] = ss[k] /\ \A m \in (k + 1)..n : m \in D..n
  BY <1>1
<1>4. ButtonAfter(ts, n) <=> ButtonAfter(ss, n)
  BY <1>2, <1>3, Zenon DEF ButtonAfter
<1> QED BY <1>4 DEF ButtonAfter, ts

\* What it takes for the button to be debounced after one more line.
LEMMA DebouncedIf ==
    ASSUME NEW ts, NEW n \in Nat, Len(ts) = n + 1, NEW q, NEW b, ts[n + 1].button = b,
           NEW k \in Nat, q.pendingCount = k, q.pending = b, q.stable = ButtonAfter(ts, n + 1),
           k < ButtonDebounceSamples, k <= n + 1, k = 0 <=> b = q.stable,
           \A i \in ((n + 1) - k + 1)..(n + 1) : ts[i].button = b,
           k # 0 /\ k # n + 1 => ts[(n + 1) - k].button # b
    PROVE  Debounced(q, ts)
<1> DEFINE m == Len(ts)
           c == q.pendingCount
<1>1. m \in Nat /\ c \in Nat /\ m # 0 /\ q.stable = ButtonAfter(ts, m) /\ q.pending = ts[m].button
  OBVIOUS
<1>2. c < ButtonDebounceSamples /\ c <= m
  OBVIOUS
<1>3. c = 0 <=> q.pending = q.stable
  BY Zenon
<1>4. \A i \in (m - c + 1)..m : ts[i].button = q.pending
  OBVIOUS
<1>5. c # 0 /\ c # m => ts[m - c].button # q.pending
  OBVIOUS
<1>6. q.pending = IF m = 0 THEN FALSE ELSE ts[m].button
  BY <1>1
<1> QED BY <1>1, <1>2, <1>3, <1>4, <1>5, <1>6, Zenon DEF Debounced

\* Lines in a row that say the same are steady, and only these.
LEMMA SteadyIf ==
    ASSUME NEW ts, NEW n, NEW b, \A i \in (n - ButtonDebounceSamples + 1)..n : ts[i].button = b
    PROVE  Steady(ts, n)
BY Zenon DEF Steady

\* Two lines that differ make the lines around them unsteady.
LEMMA UnsteadyIf ==
    ASSUME NEW ts, NEW n, NEW i \in (n - ButtonDebounceSamples + 1)..n,
           NEW j \in (n - ButtonDebounceSamples + 1)..n, ts[i].button # ts[j].button
    PROVE  ~Steady(ts, n)
BY Zenon DEF Steady

\* The debouncing keeps up with the lines.
LEMMA DebounceKeeps ==
    ASSUME NEW ss \in Seq(Samples), NEW s \in Samples, NEW p \in Processors, Debounced(p, ss)
    PROVE  Debounced(DebounceButton(p, s.button), Append(ss, s))
<1> DEFINE D == ButtonDebounceSamples
           ts == Append(ss, s)
           n == Len(ss)
           b == s.button
           c == p.pendingCount
           q == DebounceButton(p, b)
<1>1. /\ D \in Nat \ {0} /\ n \in Nat /\ b \in BOOLEAN /\ c \in Nat
      /\ p.stable \in BOOLEAN /\ p.pending \in BOOLEAN
      /\ \A i \in 1..n : ts[i] = ss[i]
      /\ ts[n + 1] = s /\ ts[n + 1].button = b
      /\ ts \in Seq(Samples) /\ Len(ts) = n + 1
      /\ \A i \in 1..n : ss[i].button \in BOOLEAN
  BY JoystickAssumption, SampleFacts, AppendProperties DEF Processors
<1>2. LET count == IF b = p.stable THEN 0 ELSE IF b = p.pending THEN c + 1 ELSE 1
          taken == b # p.stable /\ count >= D
      IN  /\ q.stable = IF taken THEN b ELSE p.stable
          /\ q.pending = b
          /\ q.pendingCount = IF taken THEN 0 ELSE count
  BY <1>1, DebounceFacts
<1> HIDE DEF q, ts, n, b, c
<1> SUFFICES Debounced(q, ts)
  BY DEF q, ts, b
<1>3. /\ p.stable = ButtonAfter(ss, n)
      /\ p.pending = IF n = 0 THEN FALSE ELSE ss[n].button
      /\ c < D /\ c <= n
      /\ c = 0 <=> p.pending = p.stable
      /\ \A i \in (n - c + 1)..n : ss[i].button = p.pending
      /\ c # 0 /\ c # n => ss[n - c].button # p.pending
  BY DEF Debounced, n, c
<1>4. /\ n + 1 >= D /\ Steady(ts, n + 1) => ButtonAfter(ts, n + 1) = b
      /\ ~(n + 1 >= D /\ Steady(ts, n + 1)) => ButtonAfter(ts, n + 1) = p.stable
  <2>1. n + 1 \in 1..Len(ts) /\ (n + 1) - 1 = n /\ n \in 0..Len(ss)
    BY <1>1 DEF n
  <2>2. ButtonAfter(ts, n) = p.stable
    BY <1>3, <2>1, ButtonAppend DEF ts
  <2> QED BY <1>1, <2>1, <2>2, ButtonSteps
<1>5. \A i \in (n - c + 1)..n : i \in 1..n
  BY <1>1, <1>3
<1>6. CASE b = p.stable
  <2>1. q.stable = b /\ q.pending = b /\ q.pendingCount = 0
    BY <1>2, <1>6
  <2>2. ButtonAfter(ts, n + 1) = b
    BY <1>4, <1>6
  <2>3. /\ 0 \in Nat /\ 0 < D /\ 0 <= n + 1 /\ (0 = 0 <=> b = q.stable)
        /\ \A i \in ((n + 1) - 0 + 1)..(n + 1) : ts[i].button = b
    BY <1>1, <2>1
  <2> QED BY <1>1, <2>1, <2>2, <2>3, DebouncedIf
<1>7. CASE b # p.stable /\ b = p.pending
  <2>1. c # 0
    BY <1>3, <1>7
  <2>2. \A i \in (n - c + 1)..(n + 1) : ts[i].button = b
    <3>1. \A i \in (n - c + 1)..(n + 1) : i = n + 1 \/ i \in (n - c + 1)..n
      BY <1>1, <1>3
    <3> QED BY <1>1, <1>3, <1>5, <1>7, <3>1
  <2>3. CASE c + 1 >= D
    <3>1. q.stable = b /\ q.pending = b /\ q.pendingCount = 0
      BY <1>1, <1>2, <1>7, <2>3
    <3>2. \A i \in ((n + 1) - D + 1)..(n + 1) : i \in (n - c + 1)..(n + 1)
      BY <1>1, <1>3, <2>3
    <3>3. Steady(ts, n + 1)
      <4>1. \A i \in ((n + 1) - D + 1)..(n + 1) : ts[i].button = b
        BY <2>2, <3>2
      <4> DEFINE m == n + 1
      <4>9. \A i \in (m - D + 1)..m : ts[i].button = b
        BY <4>1
      <4> HIDE DEF m
      <4>10. Steady(ts, m)
        BY <4>9, SteadyIf, Zenon
      <4> QED BY <4>10 DEF m
    <3>4. ButtonAfter(ts, n + 1) = b
      BY <1>1, <1>3, <1>4, <2>3, <3>3
    <3>5. /\ 0 \in Nat /\ 0 < D /\ 0 <= n + 1 /\ (0 = 0 <=> b = q.stable)
          /\ \A i \in ((n + 1) - 0 + 1)..(n + 1) : ts[i].button = b
      BY <1>1, <3>1
    <3> QED BY <1>1, <3>1, <3>4, <3>5, DebouncedIf
  <2>4. CASE ~(c + 1 >= D)
    <3>1. q.stable = p.stable /\ q.pending = b /\ q.pendingCount = c + 1
      BY <1>1, <1>2, <1>7, <2>4
    <3>2. n + 1 >= D => ~Steady(ts, n + 1)
      <4> SUFFICES ASSUME n + 1 >= D PROVE ~Steady(ts, n + 1)
        OBVIOUS
      <4>1. c # n /\ n - c \in 1..n /\ n - c \in ((n + 1) - D + 1)..(n + 1)
            /\ n + 1 \in ((n + 1) - D + 1)..(n + 1)
        BY <1>1, <1>3, <2>4
      <4>2. ts[n - c].button # ts[n + 1].button
        BY <1>1, <1>3, <1>7, <2>1, <4>1
      <4> DEFINE m == n + 1
      <4>3. /\ n - c \in (m - D + 1)..m /\ m \in (m - D + 1)..m
            /\ ts[n - c].button # ts[m].button
        BY <4>1, <4>2
      <4> HIDE DEF m
      <4>4. ~Steady(ts, m)
        BY <4>3, UnsteadyIf, Zenon
      <4> QED BY <4>4 DEF m
    <3>3. ButtonAfter(ts, n + 1) = p.stable
      BY <1>4, <3>2
    <3>4. c + 1 # n + 1 => ts[(n + 1) - (c + 1)].button # b
      <4>1. (n + 1) - (c + 1) = n - c /\ (c + 1 # n + 1 => c # n /\ n - c \in 1..n)
        BY <1>1, <1>3
      <4> QED BY <1>1, <1>3, <1>7, <2>1, <4>1
    <3>5. \A i \in ((n + 1) - (c + 1) + 1)..(n + 1) : ts[i].button = b
      <4>1. (n + 1) - (c + 1) + 1 = n - c + 1
        BY <1>1
      <4> QED BY <2>2, <4>1
    <3>6. c + 1 \in Nat /\ c + 1 < D /\ c + 1 <= n + 1 /\ (c + 1 = 0 <=> b = q.stable)
      <4>1. c + 1 \in Nat /\ c + 1 < D /\ c + 1 <= n + 1 /\ c + 1 # 0
        BY <1>1, <1>3, <2>4
      <4>2. ~(b = q.stable)
        BY <1>7, <3>1
      <4> QED BY <4>1, <4>2
    <3> DEFINE k == c + 1
    <3>7. k \in Nat /\ q.pendingCount = k /\ q.pending = b /\ q.stable = ButtonAfter(ts, n + 1)
      BY <3>1, <3>3, <3>6
    <3>8. k < D /\ k <= n + 1 /\ (k = 0 <=> b = q.stable)
      BY <3>6
    <3>9. /\ \A i \in ((n + 1) - k + 1)..(n + 1) : ts[i].button = b
          /\ k # 0 /\ k # n + 1 => ts[(n + 1) - k].button # b
      BY <3>4, <3>5
    <3> HIDE DEF k
    <3> QED BY <1>1, <3>7, <3>8, <3>9, DebouncedIf
  <2> QED BY <2>3, <2>4
<1>8. CASE b # p.stable /\ b # p.pending
  <2>1. c = 0 /\ p.pending = p.stable
    BY <1>1, <1>3, <1>8
  <2>2. CASE D = 1
    <3>1. q.stable = b /\ q.pending = b /\ q.pendingCount = 0
      BY <1>1, <1>2, <1>8, <2>2
    <3>2. Steady(ts, n + 1)
      <4>1. \A i \in ((n + 1) - D + 1)..(n + 1) : i = n + 1
        BY <1>1, <2>2
      <4>2. \A i \in ((n + 1) - D + 1)..(n + 1) : ts[i].button = b
        BY <1>1, <4>1
      <4> DEFINE m == n + 1
      <4>9. \A i \in (m - D + 1)..m : ts[i].button = b
        BY <4>2
      <4> HIDE DEF m
      <4>10. Steady(ts, m)
        BY <4>9, SteadyIf, Zenon
      <4> QED BY <4>10 DEF m
    <3>3. ButtonAfter(ts, n + 1) = b
      BY <1>1, <1>4, <2>2, <3>2
    <3>5. /\ 0 \in Nat /\ 0 < D /\ 0 <= n + 1 /\ (0 = 0 <=> b = q.stable)
          /\ \A i \in ((n + 1) - 0 + 1)..(n + 1) : ts[i].button = b
      BY <1>1, <3>1
    <3> QED BY <1>1, <3>1, <3>3, <3>5, DebouncedIf
  <2>3. CASE D # 1
    <3>1. q.stable = p.stable /\ q.pending = b /\ q.pendingCount = 1
      BY <1>1, <1>2, <1>8, <2>3
    <3>2. n # 0 => ts[n].button # b
      BY <1>1, <1>3, <1>8
    <3>3. n + 1 >= D => ~Steady(ts, n + 1)
      <4> SUFFICES ASSUME n + 1 >= D PROVE ~Steady(ts, n + 1)
        OBVIOUS
      <4>1. n # 0 /\ n \in ((n + 1) - D + 1)..(n + 1) /\ n + 1 \in ((n + 1) - D + 1)..(n + 1)
        BY <1>1, <2>3
      <4>2. ts[n].button # ts[n + 1].button
        BY <1>1, <3>2, <4>1
      <4> DEFINE m == n + 1
      <4>3. /\ n \in (m - D + 1)..m /\ m \in (m - D + 1)..m
            /\ ts[n].button # ts[m].button
        BY <4>1, <4>2
      <4> HIDE DEF m
      <4>4. ~Steady(ts, m)
        BY <4>3, UnsteadyIf, Zenon
      <4> QED BY <4>4 DEF m
    <3>4. ButtonAfter(ts, n + 1) = p.stable
      BY <1>4, <3>3
    <3>5. \A i \in ((n + 1) - 1 + 1)..(n + 1) : ts[i].button = b
      BY <1>1
    <3>6. 1 # n + 1 => ts[(n + 1) - 1].button # b
      BY <1>1, <3>2
    <3>7. 1 \in Nat /\ 1 < D /\ 1 <= n + 1 /\ (1 = 0 <=> b = q.stable)
      BY <1>1, <1>8, <2>3, <3>1
    <3> DEFINE k == 1
    <3>8. k \in Nat /\ q.pendingCount = k /\ q.pending = b /\ q.stable = ButtonAfter(ts, n + 1)
      BY <3>1, <3>4
    <3>9. k < D /\ k <= n + 1 /\ (k = 0 <=> b = q.stable)
      BY <3>7
    <3>10. /\ \A i \in ((n + 1) - k + 1)..(n + 1) : ts[i].button = b
           /\ k # 0 /\ k # n + 1 => ts[(n + 1) - k].button # b
      BY <3>5, <3>6
    <3> HIDE DEF k
    <3> QED BY <1>1, <3>8, <3>9, <3>10, DebouncedIf
  <2> QED BY <2>2, <2>3
<1> QED BY <1>6, <1>7, <1>8

\* The moving average and the calibration keep up with the lines.
LEMMA AverageKeeps ==
    ASSUME NEW ss \in Seq(Samples), NEW s \in Samples, NEW p \in Processors, Averaged(p, ss)
    PROVE  LET q == Average(Calibrate(p, s.x), s.x)
           IN  /\ q \in Processors /\ Averaged(q, Append(ss, s))
               /\ q.stable = p.stable /\ q.pending = p.pending
               /\ q.pendingCount = p.pendingCount
<1> DEFINE ts == Append(ss, s)
           n == Len(ss)
           w == Len(p.window)
           c == Calibrate(p, s.x)
           q == Average(c, s.x)
           M == MovingAverageDepth
           B == BaselineSamples
<1>1. /\ M \in Nat \ {0} /\ B \in Nat \ {0} /\ n \in Nat
      /\ s.x \in Readings /\ s.x \in Int
      /\ p.window \in Seq(Readings) /\ w \in Nat /\ p.sum \in Int
      /\ \A i \in 1..w : p.window[i] \in Int
      /\ ts \in Seq(Samples) /\ Len(ts) = n + 1
      /\ \A i \in 1..n : ts[i] = ss[i]
      /\ ts[n + 1] = s
  <2>1. p.window \in Seq(Readings) /\ p.sum \in Int
    BY DEF Processors
  <2>2. w \in Nat /\ \A i \in 1..w : p.window[i] \in Int
    <3>1. Readings \subseteq Int
      BY JoystickAssumption
    <3>2. w \in Nat /\ \A i \in 1..w : p.window[i] \in Readings
      BY <2>1, LenProperties, ElementOfSeq
    <3> QED BY <3>1, <3>2
  <2> QED BY <2>1, <2>2, JoystickAssumption, SampleFacts, AppendProperties
<1>2. /\ c \in Processors /\ c.window = p.window /\ c.sum = p.sum
      /\ c.baselineAcc = IF p.baselineReady THEN p.baselineAcc ELSE p.baselineAcc + s.x
      /\ c.baselineCount = IF p.baselineReady THEN p.baselineCount ELSE p.baselineCount + 1
      /\ c.baselineReady <=> p.baselineReady \/ p.baselineCount + 1 >= B
      /\ c.stable = p.stable /\ c.pending = p.pending /\ c.pendingCount = p.pendingCount
  BY <1>1, CalibrateFacts
<1> HIDE DEF c
<1>3. /\ q \in Processors
      /\ w < M => q.window = Append(p.window, s.x) /\ q.sum = p.sum + s.x
      /\ w >= M => q.window = Append(Tail(p.window), s.x) /\ q.sum = p.sum + s.x - p.window[1]
      /\ q.baselineAcc = c.baselineAcc /\ q.baselineCount = c.baselineCount
      /\ q.baselineReady = c.baselineReady
      /\ q.stable = c.stable /\ q.pending = c.pending /\ q.pendingCount = c.pendingCount
  <2>1. Len(c.window) = w /\ \A i \in 1..Len(c.window) : c.window[i] \in Int
    BY <1>1, <1>2
  <2>2. /\ q \in Processors
        /\ Len(c.window) < M => q.window = Append(c.window, s.x) /\ q.sum = c.sum + s.x
        /\ Len(c.window) >= M =>
             q.window = Append(Tail(c.window), s.x) /\ q.sum = c.sum + s.x - c.window[1]
        /\ q.baselineAcc = c.baselineAcc /\ q.baselineCount = c.baselineCount
        /\ q.baselineReady = c.baselineReady
        /\ q.stable = c.stable /\ q.pending = c.pending /\ q.pendingCount = c.pendingCount
    BY <1>1, <1>2, <2>1, AverageFacts
  <2> HIDE DEF q
  <2> QED BY <1>2, <2>1, <2>2
<1> HIDE DEF q, ts
<1>4. /\ w = IF n < M THEN n ELSE M
      /\ \A i \in 1..w : p.window[i] = ss[n - w + i].x
      /\ p.sum = Total(ss)[n] - Total(ss)[n - w]
      /\ p.baselineCount = IF n < B THEN n ELSE B
      /\ p.baselineAcc = Total(ss)[p.baselineCount]
      /\ p.baselineReady <=> n >= B
  BY DEF Averaged
<1>5. /\ \A i \in 0..n : Total(ts)[i] = Total(ss)[i] /\ Total(ss)[i] \in Int
      /\ Total(ts)[n + 1] = Total(ss)[n] + s.x
      /\ \A i \in 1..n : Total(ss)[i] = Total(ss)[i - 1] + ss[i].x
  BY TotalFacts, TotalAppend DEF ts
<1>6. /\ Len(q.window) = IF n + 1 < M THEN n + 1 ELSE M
      /\ \A i \in 1..Len(q.window) : q.window[i] = ts[(n + 1) - Len(q.window) + i].x
      /\ q.sum = Total(ts)[n + 1] - Total(ts)[(n + 1) - Len(q.window)]
  <2>1. CASE n < M
    <3>1. w = n /\ q.window = Append(p.window, s.x) /\ q.sum = p.sum + s.x
      BY <1>1, <1>3, <1>4, <2>1
    <3>2. /\ Len(q.window) = n + 1
          /\ \A i \in 1..n : q.window[i] = p.window[i]
          /\ q.window[n + 1] = s.x
      BY <1>1, <3>1, AppendProperties
    <3>3. Len(q.window) = IF n + 1 < M THEN n + 1 ELSE M
      BY <1>1, <2>1, <3>2
    <3>4. \A i \in 1..n : p.window[i] = ts[i].x /\ (n + 1) - (n + 1) + i = i
      <4>1. \A i \in 1..n : n - w + i = i /\ (n + 1) - (n + 1) + i = i
        BY <1>1, <3>1
      <4>2. \A i \in 1..n : p.window[i] = ss[i].x
        BY <1>4, <3>1, <4>1
      <4> QED BY <1>1, <4>1, <4>2
    <3>5. \A i \in 1..(n + 1) : q.window[i] = ts[(n + 1) - (n + 1) + i].x
      <4>1. \A i \in 1..(n + 1) : i = n + 1 \/ i \in 1..n
        BY <1>1
      <4>2. (n + 1) - (n + 1) + (n + 1) = n + 1
        BY <1>1
      <4> QED BY <1>1, <3>2, <3>4, <4>1, <4>2
    <3>6. q.sum = Total(ts)[n + 1] - Total(ts)[(n + 1) - (n + 1)]
      <4>1. n - n = 0 /\ (n + 1) - (n + 1) = 0 /\ 0 \in 0..n /\ n \in 0..n
        BY <1>1
      <4>2. p.sum = Total(ss)[n] - Total(ss)[0]
        BY <1>4, <3>1, <4>1
      <4> QED BY <1>1, <1>5, <3>1, <4>1, <4>2
    <3> QED BY <3>2, <3>3, <3>5, <3>6
  <2>2. CASE ~(n < M)
    <3>1. w = M /\ q.window = Append(Tail(p.window), s.x) /\ q.sum = p.sum + s.x - p.window[1]
      BY <1>1, <1>3, <1>4, <2>2
    <3>2. p.window # <<>>
      BY <1>1, <3>1, EmptySeq
    <3>3. /\ Tail(p.window) \in Seq(Readings) /\ Len(Tail(p.window)) = M - 1
          /\ \A i \in 1..(M - 1) : Tail(p.window)[i] = p.window[i + 1]
      BY <1>1, <3>1, <3>2, HeadTailProperties
    <3>4. /\ Len(q.window) = M
          /\ \A i \in 1..(M - 1) : q.window[i] = p.window[i + 1]
          /\ q.window[M] = s.x
      <4>1. (M - 1) + 1 = M
        BY <1>1
      <4> QED BY <1>1, <3>1, <3>3, <4>1, AppendProperties
    <3>5. \A i \in 1..M : q.window[i] = ts[(n + 1) - M + i].x
      <4>1. \A i \in 1..(M - 1) :
              /\ i + 1 \in 1..M /\ n - M + (i + 1) \in 1..n
              /\ (n + 1) - M + i = n - M + (i + 1)
        BY <1>1, <2>2
      <4>2. \A i \in 1..(M - 1) : q.window[i] = ts[(n + 1) - M + i].x
        <5> SUFFICES ASSUME NEW i \in 1..(M - 1) PROVE q.window[i] = ts[(n + 1) - M + i].x
          OBVIOUS
        <5>1. q.window[i] = p.window[i + 1] /\ i + 1 \in 1..w
          BY <3>1, <3>4, <4>1
        <5>2. p.window[i + 1] = ss[n - w + (i + 1)].x
          BY <1>4, <5>1
        <5>3. ts[n - M + (i + 1)] = ss[n - M + (i + 1)]
          BY <1>1, <4>1
        <5> QED BY <3>1, <4>1, <5>1, <5>2, <5>3
      <4>3. \A i \in 1..M : i = M \/ i \in 1..(M - 1)
        BY <1>1
      <4>4. (n + 1) - M + M = n + 1
        BY <1>1
      <4> QED BY <1>1, <3>4, <4>2, <4>3, <4>4
    <3>6. q.sum = Total(ts)[n + 1] - Total(ts)[(n + 1) - M]
      <4>1. /\ 1 \in 1..M /\ n - M + 1 \in 1..n /\ n - M + 1 \in 0..n
            /\ n - M \in 0..n /\ n \in 0..n
            /\ (n - M + 1) - 1 = n - M /\ (n + 1) - M = n - M + 1
        BY <1>1, <2>2
      <4>2. p.window[1] = ss[n - M + 1].x
        BY <1>4, <3>1, <4>1
      <4>3. Total(ss)[n - M + 1] = Total(ss)[n - M] + p.window[1]
        BY <1>5, <4>1, <4>2
      <4>4. p.sum = Total(ss)[n] - Total(ss)[n - M]
        BY <1>4, <3>1
      <4>5. Total(ts)[(n + 1) - M] = Total(ss)[n - M + 1]
        BY <1>5, <4>1
      <4>6. /\ Total(ss)[n] \in Int /\ Total(ss)[n - M] \in Int /\ p.window[1] \in Int
            /\ Total(ts)[n + 1] = Total(ss)[n] + s.x
        BY <1>1, <1>5, <3>1, <4>1
      <4> QED BY <1>1, <3>1, <4>3, <4>4, <4>5, <4>6
    <3>7. Len(q.window) = IF n + 1 < M THEN n + 1 ELSE M
      BY <1>1, <2>2, <3>4
    <3> QED BY <3>4, <3>5, <3>6, <3>7
  <2> QED BY <2>1, <2>2
<1>7. /\ q.baselineCount = IF n + 1 < B THEN n + 1 ELSE B
      /\ q.baselineAcc = Total(ts)[q.baselineCount]
      /\ q.baselineReady <=> n + 1 >= B
  <2>1. CASE n >= B
    <3>1. q.baselineCount = B /\ q.baselineAcc = Total(ss)[B] /\ q.baselineReady /\ B \in 0..n
      BY <1>1, <1>2, <1>3, <1>4, <2>1
    <3> QED BY <1>1, <1>5, <2>1, <3>1
  <2>2. CASE ~(n >= B)
    <3>1. /\ q.baselineCount = n + 1 /\ q.baselineAcc = Total(ss)[n] + s.x
          /\ q.baselineReady <=> n + 1 >= B
      BY <1>1, <1>2, <1>3, <1>4, <2>2
    <3> QED BY <1>1, <1>5, <2>2, <3>1
  <2> QED BY <2>1, <2>2
<1>8. Averaged(q, ts)
  BY <1>1, <1>6, <1>7 DEF Averaged
<1> QED BY <1>2, <1>3, <1>8 DEF q, c, ts

\* The processor keeps up with the lines.
LEMMA ProcessKeeps ==
    ASSUME NEW ss \in Seq(Samples), NEW s \in Samples, NEW p \in Processors,
           Averaged(p, ss), Debounced(p, ss)
    PROVE  /\ Process(p, s) \in Processors
           /\ Averaged(Process(p, s), Append(ss, s))
           /\ Debounced(Process(p, s), Append(ss, s))
<1> DEFINE q == Average(Calibrate(p, s.x), s.x)
           r == DebounceButton(q, s.button)
<1>1. /\ q \in Processors /\ Averaged(q, Append(ss, s))
      /\ q.stable = p.stable /\ q.pending = p.pending /\ q.pendingCount = p.pendingCount
  BY AverageKeeps
<1> HIDE DEF q
<1>2. Debounced(q, ss)
  BY <1>1 DEF Debounced
<1>3. Debounced(r, Append(ss, s))
  BY <1>1, <1>2, DebounceKeeps
<1>4. /\ r \in Processors /\ r.window = q.window /\ r.sum = q.sum
      /\ r.baselineAcc = q.baselineAcc /\ r.baselineCount = q.baselineCount
      /\ r.baselineReady = q.baselineReady
  BY <1>1, SampleFacts, DebounceFacts
<1> HIDE DEF r
<1>5. Averaged(r, Append(ss, s))
  BY <1>1, <1>4 DEF Averaged
<1>6. r = Process(p, s)
  BY DEF r, q, Process
<1> QED BY <1>3, <1>4, <1>5, <1>6

\* Clipping is symmetric.
LEMMA ClippedNegative ==
    ASSUME NEW num \in Int, NEW den \in Nat
    PROVE  Clipped(-num, den) = [Clipped(num, den) EXCEPT !.num = -@]
BY DEF Clipped

\* The product of positive numbers is positive.
LEMMA PositiveProduct == \A a, b \in Nat \ {0} : a * b \in Nat \ {0}
<1> SUFFICES ASSUME NEW a \in Nat \ {0}, NEW b \in Nat \ {0} PROVE a * b \in Nat \ {0}
  OBVIOUS
<1>1. a * b \in Int /\ a > 0 /\ b > 0
  OBVIOUS
<1>2. a * b > 0
  BY <1>1
<1> QED BY <1>1, <1>2

\* The axis that is shown after the n-th line.
ShownAxis(ss, n) == IF n < BaselineSamples THEN Silence.x ELSE AxisAfter(ss, n)

Fractions == [num : Int, den : Nat \ {0}]

\* An axis is a fraction, and turned if it is inverted.
LEMMA ClippedFacts ==
    ASSUME NEW num \in Int, NEW den \in Nat \ {0}
    PROVE  /\ Clipped(num, den) \in Fractions
           /\ [Clipped(num, den) EXCEPT !.num = IF InvertX THEN -@ ELSE @]
                = Clipped(num * (IF InvertX THEN -1 ELSE 1), den)
           /\ [Clipped(num, den) EXCEPT !.num = IF InvertX THEN -@ ELSE @] \in Fractions
<1>1. \A a \in Int : Clipped(a, den) \in Fractions
  BY DEF Clipped, Fractions
<1>2. CASE InvertX
  <2>1. num * (IF InvertX THEN -1 ELSE 1) = -num /\ -num \in Int
    BY <1>2
  <2>2. [Clipped(num, den) EXCEPT !.num = IF InvertX THEN -@ ELSE @]
          = [Clipped(num, den) EXCEPT !.num = -@]
    BY <1>2
  <2> QED BY <1>1, <2>1, <2>2, ClippedNegative
<1>3. CASE ~InvertX
  <2>1. num * (IF InvertX THEN -1 ELSE 1) = num
    BY <1>3
  <2>2. [Clipped(num, den) EXCEPT !.num = IF InvertX THEN -@ ELSE @] = Clipped(num, den)
    BY <1>3 DEF Clipped
  <2> QED BY <1>1, <2>1, <2>2
<1> QED BY <1>2, <1>3

\* A processor that has kept up with the lines makes of them what they amount to.
LEMMA AxisOfLines ==
    ASSUME NEW ss \in Seq(Samples), NEW p \in Processors, Averaged(p, ss)
    PROVE  Axis(p) = ShownAxis(ss, Len(ss)) /\ Axis(p) \in Fractions
<1> DEFINE n == Len(ss)
           w == Len(p.window)
           M == MovingAverageDepth
           B == BaselineSamples
           acc == p.baselineAcc
           t == Total(ss)
           num == p.sum * B - acc * w
           den == w * B * Half
           from == IF n <= M THEN 1 ELSE n - M + 1
<1>1. /\ M \in Nat \ {0} /\ B \in Nat \ {0} /\ Half \in Nat \ {0} /\ InvertX \in BOOLEAN
      /\ n \in Nat /\ p.sum \in Int /\ acc \in Int
  BY JoystickAssumption, SampleFacts DEF Processors
<1>2. /\ w = IF n < M THEN n ELSE M
      /\ p.sum = t[n] - t[n - w]
      /\ p.baselineCount = IF n < B THEN n ELSE B
      /\ acc = t[p.baselineCount]
      /\ p.baselineReady <=> n >= B
  BY DEF Averaged
<1>3. CASE n < B
  <2>1. ~p.baselineReady
    BY <1>1, <1>2, <1>3
  <2>2. Axis(p) = Silence.x
    BY <2>1 DEF Axis
  <2>3. Silence.x \in Fractions
    BY DEF Silence, Fractions
  <2> QED BY <1>3, <2>2, <2>3 DEF ShownAxis
<1>4. CASE ~(n < B)
  <2>1. p.baselineReady /\ p.baselineCount = B /\ acc = t[B] /\ w \in Nat \ {0}
    BY <1>1, <1>2, <1>4
  <2>2. num \in Int /\ den \in Nat \ {0}
    <3>1. w * B \in Nat \ {0}
      BY <1>1, <2>1, PositiveProduct
    <3> DEFINE v == w * B
    <3>2. v \in Nat \ {0}
      BY <3>1
    <3> HIDE DEF v
    <3>3. v * Half \in Nat \ {0}
      BY <1>1, <3>2, PositiveProduct
    <3>4. p.sum * B \in Int /\ acc * w \in Int
      BY <1>1, <2>1
    <3>5. num \in Int
      <4> DEFINE a == p.sum * B
                 b == acc * w
      <4>1. a \in Int /\ b \in Int
        BY <3>4
      <4> HIDE DEF a, b
      <4>2. a - b \in Int
        BY <4>1
      <4> QED BY <4>2 DEF a, b
    <3>6. den = v * Half
      BY DEF v
    <3> HIDE DEF num, den
    <3> QED BY <3>3, <3>5, <3>6
  <2>3. MeanOf(ss, from, n) = [num |-> p.sum, den |-> w]
    <3>1. from - 1 = n - w /\ n - from + 1 = w
      <4>1. n \in Nat /\ w = IF n < M THEN n ELSE M
        BY <1>1, <1>2
      <4> HIDE DEF n, w
      <4>2. CASE n <= M
        BY <1>1, <4>1, <4>2
      <4>3. CASE ~(n <= M)
        BY <1>1, <4>1, <4>3
      <4> QED BY <4>2, <4>3
    <3> HIDE DEF from, t
    <3>2. MeanOf(ss, from, n) = [num |-> t[n] - t[from - 1], den |-> n - from + 1]
      BY DEF MeanOf, t
    <3> QED BY <1>2, <3>1, <3>2
  <2>4. MeanOf(ss, 1, B) = [num |-> acc, den |-> B]
    <3>1. 1 - 1 = 0 /\ B - 1 + 1 = B
      BY <1>1
    <3>2. MeanOf(ss, 1, B) = [num |-> t[B] - t[1 - 1], den |-> B - 1 + 1]
      BY DEF MeanOf
    <3>3. t[0] = 0
      BY TotalFacts
    <3> HIDE DEF t
    <3> QED BY <1>1, <2>1, <3>1, <3>2, <3>3
  <2>5. AxisAfter(ss, n) = Clipped(num * (IF InvertX THEN -1 ELSE 1), den)
    BY <2>3, <2>4 DEF AxisAfter
  <2>6. Axis(p) = [Clipped(num, den) EXCEPT !.num = IF InvertX THEN -@ ELSE @]
    BY <2>1 DEF Axis
  <2>7. ShownAxis(ss, n) = AxisAfter(ss, n)
    BY <1>4 DEF ShownAxis
  <2> HIDE DEF num, den
  <2>8. Axis(p) = AxisAfter(ss, n) /\ Axis(p) \in Fractions
    BY <2>2, <2>5, <2>6, ClippedFacts
  <2> QED BY <2>7, <2>8
<1> QED BY <1>3, <1>4

\* A later line changes nothing about what the first ones amount to.
LEMMA AxisAppend ==
    ASSUME NEW ss \in Seq(Samples), NEW s \in Samples, NEW n \in 0..Len(ss)
    PROVE  ShownAxis(Append(ss, s), n) = ShownAxis(ss, n)
<1> DEFINE M == MovingAverageDepth
           B == BaselineSamples
           ts == Append(ss, s)
           from == IF n <= M THEN 1 ELSE n - M + 1
<1>1. M \in Nat \ {0} /\ B \in Nat \ {0} /\ Len(ss) \in Nat /\ n \in Nat
  BY JoystickAssumption, SampleFacts
<1>2. \A i \in 0..Len(ss) : Total(ts)[i] = Total(ss)[i]
  BY TotalAppend
<1> HIDE DEF ts
<1>3. CASE n < B
  BY <1>3 DEF ShownAxis, ts
<1>4. CASE ~(n < B)
  <2>1. from - 1 \in 0..Len(ss) /\ 1 - 1 \in 0..Len(ss) /\ B \in 0..Len(ss)
    BY <1>1, <1>4
  <2>2. MeanOf(ts, from, n) = MeanOf(ss, from, n)
    BY <1>2, <2>1 DEF MeanOf
  <2>3. MeanOf(ts, 1, B) = MeanOf(ss, 1, B)
    BY <1>2, <2>1 DEF MeanOf
  <2>4. AxisAfter(ts, n) = AxisAfter(ss, n)
    BY <2>2, <2>3 DEF AxisAfter
  <2> QED BY <1>4, <2>4 DEF ShownAxis, ts
<1> QED BY <1>3, <1>4

-----------------------------------------------------------------------------
(* The inductive invariant of the signal processing.                       *)

\* The processor has kept up with the lines of the session, and what is stored
\* is what the lines up to the one it is from amount to.
SignalInv ==
    /\ samples \in Seq(Samples) /\ Len(samples) = line
    /\ processor \in Processors
    /\ Averaged(processor, samples) /\ Debounced(processor, samples)
    /\ output \in Signals /\ signals \in Signals
    /\ readerPc = "publish" => /\ output.x = ShownAxis(samples, line)
                               /\ output.button = ButtonAfter(samples, line)
    /\ signals.x = ShownAxis(samples, published[1].line)
    /\ signals.button = ButtonAfter(samples, published[3].line)

\* Before the first line of a session nothing is known.
LEMMA NoLinesYet ==
    /\ FreshProcessor \in Processors
    /\ Averaged(FreshProcessor, <<>>) /\ Debounced(FreshProcessor, <<>>)
    /\ Silence \in Signals /\ <<>> \in Seq(Samples) /\ Len(<<>>) = 0
    /\ Silence.x = ShownAxis(<<>>, 0) /\ Silence.button = ButtonAfter(<<>>, 0)
<1> DEFINE none == <<>>
<1>1. /\ MovingAverageDepth \in Nat \ {0} /\ BaselineSamples \in Nat \ {0}
      /\ ButtonDebounceSamples \in Nat \ {0}
  BY JoystickAssumption
<1>2. none \in Seq(Samples) /\ Len(none) = 0 /\ none \in Seq(Readings)
  BY EmptySeq
<1>3. Total(none)[0] = 0
  BY <1>2, TotalFacts
<1>4. ButtonAfter(none, 0) = FALSE
  BY <1>1 DEF ButtonAfter
<1>5. FreshProcessor \in Processors
  BY <1>2 DEF FreshProcessor, Processors
<1>6. /\ FreshProcessor.window = none /\ FreshProcessor.sum = 0
      /\ FreshProcessor.baselineAcc = 0 /\ FreshProcessor.baselineCount = 0
      /\ FreshProcessor.baselineReady = FALSE /\ FreshProcessor.stable = FALSE
      /\ FreshProcessor.pending = FALSE /\ FreshProcessor.pendingCount = 0
  BY DEF FreshProcessor
<1> HIDE DEF none
<1>7. Averaged(FreshProcessor, none)
  BY <1>1, <1>2, <1>3, <1>6 DEF Averaged
<1>8. Debounced(FreshProcessor, none)
  <2> DEFINE p == FreshProcessor
  <2>1. p.stable = ButtonAfter(none, Len(none)) /\ p.pending = FALSE
    BY <1>2, <1>4, <1>6
  <2>2. /\ p.pendingCount < ButtonDebounceSamples /\ p.pendingCount <= Len(none)
        /\ p.pendingCount = 0 /\ Len(none) = 0
        /\ \A i \in (Len(none) - p.pendingCount + 1)..Len(none) : none[i].button = p.pending
    BY <1>1, <1>2, <1>6
  <2>3. p.pendingCount = 0 <=> p.pending = p.stable
    BY <1>6
  <2> HIDE DEF p
  <2>4. Debounced(p, none)
    BY <2>1, <2>2, <2>3, Zenon DEF Debounced
  <2> QED BY <2>4 DEF p
<1>9. Silence \in Signals /\ Silence.button = FALSE
  BY DEF Silence, Signals
<1>10. Silence.x = ShownAxis(none, 0)
  BY <1>1 DEF ShownAxis
<1> QED BY <1>2, <1>4, <1>5, <1>7, <1>8, <1>9, <1>10 DEF none

\* The axis and the button of the first joystick are fields 1 and 3.
LEMMA FirstFields ==
    ASSUME PanelInv
    PROVE  /\ 1 \in Fields /\ 3 \in Fields /\ line \in Nat
           /\ \A f \in Fields : published[f].line \in 0..line
<1>1. 1 \in Fields /\ 3 \in Fields
  BY PanelAssumption DEF Fields
<1>2. line \in Nat /\ \A f \in Fields : published[f].line \in {line - 1, line}
  BY PanelAssumption DEF PanelInv, TypeOK, TornInv
<1>3. \A f \in Fields : published[f].line \in Nat
  BY PanelAssumption DEF PanelInv, TypeOK, Stamps
<1> QED BY <1>1, <1>2, <1>3

\* The processor begins without lines.
LEMMA SignalInit == JoystickInit => SignalInv
<1> SUFFICES ASSUME JoystickInit PROVE SignalInv
  OBVIOUS
<1>1. /\ samples = <<>> /\ processor = FreshProcessor /\ output = Silence /\ signals = Silence
      /\ line = 0 /\ readerPc = "none" /\ \A f \in Fields : published[f].line = 0
      /\ 1 \in Fields /\ 3 \in Fields
  BY PanelAssumption DEF JoystickInit, Init, Zero, Fields
<1> QED BY <1>1, NoLinesYet DEF SignalInv

\* A new session begins without lines.
LEMMA ResetSignalKeeps ==
    ASSUME PanelInv, SignalInv, ResetSignals, OwnerSignals PROVE SignalInv'
<1>1. /\ samples' = <<>> /\ processor' = FreshProcessor /\ output' = Silence
      /\ signals' = Silence /\ line' = 0
  BY DEF ResetSignals, OwnerSignals
<1>2. readerPc' # "publish"
  BY DEF PanelInv, PortInv, Alone, ResetSignals
<1>3. published'[1].line = 0 /\ published'[3].line = 0
  BY FirstFields DEF ResetSignals, Zero
<1> QED BY <1>1, <1>2, <1>3, NoLinesYet DEF SignalInv

\* A line that is accepted is processed, and nothing of it is stored yet.
LEMMA AcceptSignalKeeps ==
    ASSUME PanelInv, SignalInv, AcceptLine, AcceptSample PROVE SignalInv'
<1>1. PICK s \in Samples :
        /\ samples' = Append(samples, s)
        /\ processor' = Process(processor, s)
        /\ output' = [x |-> Axis(processor'), button |-> processor'.stable]
  BY DEF AcceptSample
<1>2. /\ signals' = signals /\ published' = published /\ line' = line + 1
  BY DEF AcceptLine, AcceptSample
<1>3. /\ samples \in Seq(Samples) /\ Len(samples) = line /\ line \in Nat
      /\ processor \in Processors /\ Averaged(processor, samples)
      /\ Debounced(processor, samples) /\ signals \in Signals
      /\ signals.x = ShownAxis(samples, published[1].line)
      /\ signals.button = ButtonAfter(samples, published[3].line)
      /\ published[1].line \in 0..Len(samples) /\ published[3].line \in 0..Len(samples)
  BY FirstFields DEF SignalInv
<1>4. samples' \in Seq(Samples) /\ Len(samples') = line'
  BY <1>1, <1>2, <1>3, AppendProperties
<1>5. /\ processor' \in Processors /\ Averaged(processor', samples')
      /\ Debounced(processor', samples')
  BY <1>1, <1>3, ProcessKeeps
<1>6. Axis(processor') = ShownAxis(samples', line') /\ Axis(processor') \in Fractions
  BY <1>4, <1>5, AxisOfLines
<1>7. processor'.stable = ButtonAfter(samples', line') /\ processor'.stable \in BOOLEAN
  BY <1>4, <1>5 DEF Debounced, Processors
<1>8. /\ output' \in Signals /\ output'.x = ShownAxis(samples', line')
      /\ output'.button = ButtonAfter(samples', line')
  BY <1>1, <1>6, <1>7 DEF Signals, Fractions
<1>9. ShownAxis(samples', published[1].line) = ShownAxis(samples, published[1].line)
  BY <1>1, <1>3, AxisAppend
<1>10. ButtonAfter(samples', published[3].line) = ButtonAfter(samples, published[3].line)
  BY <1>1, <1>3, ButtonAppend
<1> QED BY <1>2, <1>3, <1>4, <1>5, <1>8, <1>9, <1>10 DEF SignalInv

\* What is stored is of the line that the field is then from.
LEMMA StoreSignalKeeps ==
    ASSUME PanelInv, SignalInv, PublishField, StoreSignal PROVE SignalInv'
<1>1. /\ UNCHANGED <<samples, processor, output, line>>
      /\ readerPc = "publish"
      /\ signals' = CASE field = 1 -> [signals EXCEPT !.x = output.x]
                      [] field = 3 -> [signals EXCEPT !.button = output.button]
                      [] OTHER -> signals
  BY DEF PublishField, StoreSignal
<1>2. \A f \in Fields : published'[f].line = IF f = field THEN line ELSE published[f].line
  BY DEF PublishField, PanelInv, TypeOK
<1>3. /\ output \in Signals /\ signals \in Signals
      /\ output.x = ShownAxis(samples, line)
      /\ output.button = ButtonAfter(samples, line)
      /\ signals.x = ShownAxis(samples, published[1].line)
      /\ signals.button = ButtonAfter(samples, published[3].line)
  BY <1>1 DEF SignalInv
<1>4. /\ signals' \in Signals
      /\ signals'.x = IF field = 1 THEN output.x ELSE signals.x
      /\ signals'.button = IF field = 3 THEN output.button ELSE signals.button
  BY <1>1, <1>3 DEF Signals
<1>5. signals'.x = ShownAxis(samples, published'[1].line)
  BY <1>2, <1>3, <1>4, FirstFields
<1>6. signals'.button = ButtonAfter(samples, published'[3].line)
  BY <1>2, <1>3, <1>4, FirstFields
<1> QED BY <1>1, <1>4, <1>5, <1>6 DEF SignalInv

\* All other steps leave the lines, the processor and the values alone.
LEMMA OtherSignalKeeps ==
    ASSUME SignalInv, UNCHANGED joystick, line' = line, published' = published,
           readerPc' = "publish" => readerPc = "publish"
    PROVE  SignalInv'
BY DEF SignalInv, joystick

\* Every step of the panel with its joystick keeps up with the lines.
LEMMA SignalStep == PanelInv /\ SignalInv /\ [JoystickNext]_allVars => SignalInv'
<1> SUFFICES ASSUME PanelInv, SignalInv, [JoystickNext]_allVars PROVE SignalInv'
  OBVIOUS
<1> DEFINE Still == /\ UNCHANGED joystick /\ line' = line /\ published' = published
                    /\ readerPc' = "publish" => readerPc = "publish"
<1>1. Still => SignalInv'
  BY OtherSignalKeeps
<1>2. CASE (BeginInitialize \/ BeginReset \/ BeginSnapshot) /\ UNCHANGED joystick
  <2>1. Still
    BY <1>2 DEF BeginInitialize, BeginReset, BeginSnapshot, reader
  <2> QED BY <1>1, <2>1
<1>3. CASE Owner
  <2>1. CASE ResetSignals
    BY <1>3, <2>1, ResetSignalKeeps DEF Owner
  <2>2. CASE ~ResetSignals
    <3>1. Still
      BY <1>3, <2>2
         DEF Owner, OwnerStep, OwnerSignals, ClearState, StopReader, JoinReader, CloseComm,
             OpenComm, SetRunning, SpawnReader, SetNormal, FailClose, FailError, LoadField,
             EndSnapshot, reader
    <3> QED BY <1>1, <3>1
  <2> QED BY <2>1, <2>2
<1>4. CASE Reader
  <2>1. CASE AcceptLine
    <3>1. AcceptSample
      BY <1>4, <2>1 DEF Reader, ReaderSignals, AcceptLine, StoreSignal
    <3> QED BY <2>1, <3>1, AcceptSignalKeeps
  <2>2. CASE PublishField
    <3>1. StoreSignal
      BY <1>4, <2>2 DEF Reader, ReaderSignals, PublishField, AcceptSample
    <3> QED BY <2>2, <3>1, StoreSignalKeeps
  <2>3. CASE ~AcceptLine /\ ~PublishField
    <3>1. \/ ReaderLoop \/ ReadTimeout \/ ReadLine \/ ReadFails \/ StopAfterLine
          \/ RejectLine \/ FailState \/ FailStop \/ FailReaderClose
      BY <1>4, <2>3 DEF Reader, ReaderStep
    <3>2. readerPc # "publish" /\ readerPc' # "publish" /\ line' = line /\ published' = published
      BY <3>1
         DEF ReaderLoop, ReadTimeout, ReadLine, ReadFails, StopAfterLine, RejectLine,
             FailState, FailStop, FailReaderClose
    <3>3. UNCHANGED joystick
      BY <1>4, <3>2 DEF Reader, ReaderSignals, AcceptSample, StoreSignal
    <3> QED BY <1>1, <3>2, <3>3
  <2> QED BY <2>1, <2>2, <2>3
<1>5. CASE UNCHANGED allVars
  <2>1. Still
    BY <1>5 DEF allVars, vars, reader
  <2> QED BY <1>1, <2>1
<1> QED BY <1>2, <1>3, <1>4, <1>5 DEF JoystickNext

\* The two invariants hold in every behaviour.
LEMMA SignalsInductive == JoystickSpec => [](PanelInv /\ SignalInv)
<1>1. JoystickSpec => []PanelInv
  BY PanelRefined, Inductive, PTL
<1> QED BY <1>1, SignalInit, SignalStep, PTL DEF JoystickSpec

\* What the panel shows of a joystick is what the lines of this session amount
\* to, whatever the readings, the depth of the average and of the debouncing and
\* the number of lines: the running sum never drifts from the sum of the window,
\* and the button never bounces.
THEOREM TrueSignals == JoystickSpec => []SignalsFollowLines
<1>1. PanelInv /\ SignalInv => SignalsFollowLines
  <2> SUFFICES ASSUME PanelInv, SignalInv PROVE SignalsFollowLines
    OBVIOUS
  <2> DEFINE n == published[1].line
             axis == AxisAfter(samples, n)
  <2>1. signals.x = ShownAxis(samples, n)
    BY DEF SignalInv
  <2>2. IF n < BaselineSamples THEN signals.x.num = 0
        ELSE signals.x.num * axis.den = axis.num * signals.x.den
    <3>1. CASE n < BaselineSamples
      BY <2>1, <3>1 DEF ShownAxis, Silence
    <3>2. CASE ~(n < BaselineSamples)
      <4>1. signals.x = axis
        BY <2>1, <3>2 DEF ShownAxis
      <4>2. axis.num \in Int /\ axis.den \in Int
        BY <4>1 DEF SignalInv, Signals
      <4> HIDE DEF n, axis
      <4> QED BY <3>2, <4>1, <4>2
    <3> QED BY <3>1, <3>2
  <2>3. signals.button = ButtonAfter(samples, published[3].line)
    BY DEF SignalInv
  <2> QED BY <2>2, <2>3, Zenon DEF SignalsFollowLines
<1> QED BY <1>1, SignalsInductive, PTL

\* The lines, the processor and the values keep their types.
THEOREM JoystickTypes == JoystickSpec => []JoystickTypeOK
<1>1. PanelInv /\ SignalInv => JoystickTypeOK
  BY DEF PanelInv, SignalInv, Processors, JoystickTypeOK
<1> QED BY <1>1, SignalsInductive, PTL
=============================================================================
