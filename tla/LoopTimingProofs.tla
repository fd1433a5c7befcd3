---------------------------- MODULE LoopTimingProofs --------------------------
(***************************************************************************)
(* Proofs about LoopTiming, for any two intervals and any length of time.  *)
(***************************************************************************)
EXTENDS LoopTiming, WellFoundedInduction, TLAPS

\* A time on the grid of an interval.
OnGrid(interval, t) == \E n \in 0..t : t = n * interval

\* The deadlines lie on their grids, after what was done for the last of them.
Ahead ==
    /\ OnGrid(LoopInterval, nextLoopAt)
    /\ OnGrid(UpdateInterval, nextUpdateAt)
    /\ loopStart = -1 => phase = "waiting" /\ nextLoopAt = 0
    /\ workEnd = -1 => phase # "updating" /\ updatedAt = -1 /\ ~failed
    /\ workEnd = -1 /\ phase = "waiting" => loopStart = -1
    /\ phase = "waiting" /\ ~failed => loopStart < nextLoopAt
    /\ updatedAt < nextUpdateAt
    /\ nextUpdateAt <= now + UpdateInterval

TimingInv == TimingTypeOK /\ Ahead /\ NothingSkipped

-----------------------------------------------------------------------------
(* Intervals.                                                              *)

\* The number of a point of the grid is at most the point.
LEMMA GridNumber ==
    ASSUME NEW interval \in Nat \ {0}, NEW n \in Nat
    PROVE  n <= n * interval /\ n * interval \in Nat
<1>1. PICK k \in Nat : interval = k + 1
  <2>1. interval - 1 \in Nat /\ interval = (interval - 1) + 1
    OBVIOUS
  <2> QED
    BY <2>1
<1>2. n * interval = n * k + n /\ n * k >= 0 /\ n * k \in Nat
  BY <1>1
<1> QED
  BY <1>2

\* An advanced deadline is a natural number after t, by no more than an interval,
\* and it stays on the grid.
LEMMA AdvancedFacts ==
    ASSUME NEW interval \in Nat \ {0}, NEW deadline \in Nat, NEW t \in Nat,
           NEW d \in Advanced(deadline, interval, t)
    PROVE  /\ d \in Nat /\ t < d /\ d <= t + interval
           /\ OnGrid(interval, deadline) => OnGrid(interval, d)
<1>1. d \in Nat /\ t < d /\ d <= t + interval
  BY DEF Advanced
<1>2. ASSUME OnGrid(interval, deadline) PROVE OnGrid(interval, d)
  <2>1. PICK m \in 0..deadline : deadline = m * interval
    BY <1>2 DEF OnGrid
  <2>2. PICK n \in 1..(t + interval - deadline) : d = deadline + n * interval
    BY DEF Advanced
  <2>3. m \in Nat /\ n \in Nat /\ m + n \in Nat
    BY <2>1, <2>2
  <2>4. d = (m + n) * interval
    BY <2>1, <2>2, <2>3
  <2>5. m + n <= d
    BY <2>3, <2>4, GridNumber
  <2>6. m + n \in 0..d
    BY <1>1, <2>3, <2>5
  <2> QED
    BY <2>4, <2>6 DEF OnGrid
<1> QED
  BY <1>1, <1>2

\* Some number is the first of a set of numbers.
LEMMA FirstNumber ==
    ASSUME NEW T \in SUBSET Nat, T # {}
    PROVE  \E n \in T : \A m \in T : n <= m
<1>1. PICK n \in T : \A m \in T : ~(<<m, n>> \in OpToRel(<, Nat))
  BY NatLessThanWellFounded, WFMin, Zenon
<1>2. \A m \in T : ~(m < n)
  BY <1>1 DEF OpToRel
<1> QED BY <1>2

\* Two points of a grid that lie within the same interval after t are one point.
LEMMA GridPoint ==
    ASSUME NEW interval \in Nat \ {0}, NEW m \in Nat, NEW n \in Nat, m < n
    PROVE  m * interval + interval <= n * interval
<1>1. PICK k \in Nat : n = m + 1 + k
  <2>1. n - m - 1 \in Nat /\ n = m + 1 + (n - m - 1)
    OBVIOUS
  <2> QED BY <2>1
<1>2. n * interval = m * interval + interval + k * interval
  BY <1>1
<1>3. k * interval >= 0 /\ k * interval \in Nat /\ m * interval \in Nat
  BY GridNumber
<1> QED
  BY <1>2, <1>3

\* The loop that advances a deadline ends, and in one way: where a deadline that
\* has passed ends up is the first point of the grid after t, so that a cycle can
\* always end and its end is determined.
THEOREM AdvancesOnce ==
    ASSUME NEW interval \in Nat \ {0}, NEW deadline \in Nat, NEW t \in Nat, deadline <= t
    PROVE  \E d \in Nat : Advanced(deadline, interval, t) = {d}
<1> DEFINE After == {n \in Nat : t < deadline + n * interval}
<1>1. After # {}
  <2>1. t + 1 <= (t + 1) * interval /\ (t + 1) * interval \in Nat
    BY GridNumber, t + 1 \in Nat
  <2> QED
    BY <2>1, t + 1 \in Nat
<1>2. PICK n \in After : \A m \in After : n <= m
  <2> HIDE DEF After
  <2>1. After \in SUBSET Nat
    BY DEF After
  <2> QED
    BY <1>1, <2>1, FirstNumber
<1>3. n \in Nat /\ n # 0 /\ n - 1 \in Nat /\ n - 1 \notin After
  <2>1. n \in Nat /\ t < deadline + n * interval
    OBVIOUS
  <2>2. 0 * interval = 0
    OBVIOUS
  <2>3. n # 0
    BY <2>1, <2>2
  <2>4. n - 1 \in Nat /\ ~(n <= n - 1)
    BY <2>1, <2>3
  <2> QED
    BY <1>2, <2>1, <2>3, <2>4
<1> DEFINE d == deadline + n * interval
<1>4. d \in Nat /\ t < d /\ d <= t + interval /\ n <= n * interval /\ n * interval \in Nat
  <2>1. n <= n * interval /\ n * interval \in Nat
    BY <1>3, GridNumber
  <2>2. deadline + (n - 1) * interval <= t
    BY <1>3, GridNumber
  <2>3. (n - 1) * interval = n * interval - interval
    BY <1>3
  <2> QED
    BY <2>1, <2>2, <2>3
<1>5. d \in Advanced(deadline, interval, t)
  <2>1. n \in 1..(t + interval - deadline)
    BY <1>3, <1>4
  <2>2. d \in (t + 1)..(t + interval)
    BY <1>4
  <2> QED
    BY <2>1, <2>2 DEF Advanced
<1>6. ASSUME NEW e \in Advanced(deadline, interval, t) PROVE e = d
  <2>1. PICK k \in 1..(t + interval - deadline) : e = deadline + k * interval
    BY DEF Advanced
  <2>2. e \in (t + 1)..(t + interval)
    BY DEF Advanced
  <2>3. k \in Nat /\ k * interval \in Nat
    BY <2>1, GridNumber
  <2>4. CASE k < n
    BY <1>3, <1>4, <2>1, <2>2, <2>3, <2>4, GridPoint
  <2>5. CASE n < k
    BY <1>3, <1>4, <2>1, <2>2, <2>3, <2>5, GridPoint
  <2>6. CASE k = n
    BY <2>1, <2>6
  <2> QED
    BY <1>3, <2>3, <2>4, <2>5, <2>6
<1> HIDE DEF d
<1> QED
  BY <1>4, <1>5, <1>6

\* A point of the grid between two times sets them apart.
LEMMA GridSetsApart ==
    ASSUME NEW interval \in Nat \ {0}, NEW d \in Nat, NEW t \in Int, NEW u \in Nat,
           OnGrid(interval, d), t < d, d <= u
    PROVE  Apart(interval, t, u)
<1>1. PICK n \in 0..d : d = n * interval
  BY DEF OnGrid
<1>2. n \in 0..u
  BY <1>1
<1> QED
  BY <1>1, <1>2 DEF Apart

-----------------------------------------------------------------------------
(* The inductive invariant.                                                *)

LEMMA TimingInitInv == TimingInit => TimingInv
<1> SUFFICES ASSUME TimingInit PROVE TimingInv
  OBVIOUS
<1>1. 0 = 0 * LoopInterval /\ 0 = 0 * UpdateInterval /\ 0 \in 0..0
  BY TimingAssumption
<1>2. OnGrid(LoopInterval, 0) /\ OnGrid(UpdateInterval, 0)
  BY <1>1 DEF OnGrid
<1>3. TimingTypeOK
  <2>1. failed \in BOOLEAN
    BY DEF TimingInit
  <2> QED
    BY <2>1 DEF TimingInit, TimingTypeOK, Times
<1>4. Ahead
  <2>1. ~failed
    BY DEF TimingInit
  <2> QED
    BY <1>2, <2>1, TimingAssumption DEF TimingInit, Ahead
<1>5. NothingSkipped
  BY DEF TimingInit, NothingSkipped
<1> QED
  BY <1>3, <1>4, <1>5 DEF TimingInv

LEMMA TimingNextInv == TimingInv /\ [TimingNext]_vars => TimingInv'
<1> SUFFICES ASSUME TimingInv, [TimingNext]_vars PROVE TimingInv'
  OBVIOUS
<1> USE TimingAssumption
<1>1. CASE Tick
  <2>1. TimingTypeOK'
    BY <1>1 DEF Tick, TimingInv, TimingTypeOK, Times
  <2>2. Ahead'
    BY <1>1 DEF Tick, TimingInv, TimingTypeOK, Ahead
  <2>3. NothingSkipped'
    BY <1>1 DEF Tick, TimingInv, NothingSkipped
  <2> QED
    BY <2>1, <2>2, <2>3 DEF TimingInv
<1>2. CASE BeginCycle
  <2>1. TimingTypeOK'
    BY <1>2 DEF BeginCycle, TimingInv, TimingTypeOK, Times
  <2>2. Ahead'
    BY <1>2 DEF BeginCycle, TimingInv, TimingTypeOK, Ahead
  <2>3. NothingSkipped'
    BY <1>2 DEF BeginCycle, NothingSkipped
  <2> QED
    BY <2>1, <2>2, <2>3 DEF TimingInv
<1>3. CASE BeginUpdate
  <2>1. TimingTypeOK'
    BY <1>3 DEF BeginUpdate, TimingInv, TimingTypeOK, Times
  <2>2. Ahead'
    BY <1>3 DEF BeginUpdate, TimingInv, TimingTypeOK, Times, Ahead
  <2>3. NothingSkipped'
    BY <1>3 DEF BeginUpdate, NothingSkipped
  <2> QED
    BY <2>1, <2>2, <2>3 DEF TimingInv
<1>4. CASE EndCycle
  <2>1. /\ nextLoopAt' \in Nat /\ now < nextLoopAt' /\ nextLoopAt' <= now + LoopInterval
        /\ OnGrid(LoopInterval, nextLoopAt')
    BY <1>4, AdvancedFacts DEF EndCycle, TimingInv, TimingTypeOK, Ahead
  <2>2. TimingTypeOK'
    <3>1. failed' \in BOOLEAN
      BY <1>4 DEF EndCycle
    <3> QED
      BY <1>4, <2>1, <3>1 DEF EndCycle, TimingInv, TimingTypeOK, Times
  <2>3. Ahead'
    BY <1>4, <2>1 DEF EndCycle, TimingInv, TimingTypeOK, Times, Ahead
  <2>4. NothingSkipped'
    BY <1>4, <2>1 DEF EndCycle, TimingInv, TimingTypeOK, Ahead, NothingSkipped, OnGrid
  <2> QED
    BY <2>2, <2>3, <2>4 DEF TimingInv
<1>5. CASE EndUpdate
  <2>1. workEnd \in Nat
    BY <1>5 DEF EndUpdate, TimingInv, TimingTypeOK, Times, Ahead
  <2>2. /\ nextLoopAt' \in Nat /\ workEnd < nextLoopAt'
        /\ nextLoopAt' <= workEnd + LoopInterval
        /\ OnGrid(LoopInterval, nextLoopAt')
    BY <1>5, <2>1, AdvancedFacts DEF EndUpdate, TimingInv, TimingTypeOK, Ahead
  <2>3. /\ nextUpdateAt' \in Nat /\ workEnd < nextUpdateAt'
        /\ nextUpdateAt' <= workEnd + UpdateInterval
        /\ OnGrid(UpdateInterval, nextUpdateAt')
    BY <1>5, <2>1, AdvancedFacts DEF EndUpdate, TimingInv, TimingTypeOK, Ahead
  <2>4. TimingTypeOK'
    <3>1. failed' \in BOOLEAN
      BY <1>5 DEF EndUpdate
    <3> QED
      BY <1>5, <2>1, <2>2, <2>3, <3>1 DEF EndUpdate, TimingInv, TimingTypeOK, Times
  <2>5. Ahead'
    BY <1>5, <2>1, <2>2, <2>3 DEF EndUpdate, TimingInv, TimingTypeOK, Times, Ahead
  <2>6. NothingSkipped'
    BY <1>5, <2>1, <2>2, <2>3 DEF EndUpdate, NothingSkipped, OnGrid
  <2> QED
    BY <2>4, <2>5, <2>6 DEF TimingInv
<1>6. CASE UpdateFails
  <2>1. failed' \in BOOLEAN /\ failed'
    BY <1>6 DEF UpdateFails
  <2>2. TimingTypeOK'
    BY <1>6, <2>1 DEF UpdateFails, TimingInv, TimingTypeOK, Times
  <2>3. workEnd \in Nat
    BY <1>6 DEF UpdateFails, TimingInv, TimingTypeOK, Times, Ahead
  <2>4. Ahead'
    BY <1>6, <2>1, <2>3 DEF UpdateFails, TimingInv, TimingTypeOK, Ahead
  <2>5. NothingSkipped'
    BY <1>6, <2>1, <2>3 DEF UpdateFails, TimingInv, TimingTypeOK, Times, Ahead, NothingSkipped,
                           OnGrid
  <2> QED
    BY <2>2, <2>4, <2>5 DEF TimingInv
<1>7. CASE UNCHANGED vars
  BY <1>7 DEF vars, TimingInv, TimingTypeOK, Times, Ahead, NothingSkipped
<1> QED
  BY <1>1, <1>2, <1>3, <1>4, <1>5, <1>6, <1>7 DEF TimingNext

THEOREM TimingInvariance == TimingSpec => []TimingInv
BY TimingInitInv, TimingNextInv, PTL DEF TimingSpec

-----------------------------------------------------------------------------
(* The theorems.                                                           *)

\* Every variable keeps its type, and what is done was due.
THEOREM TimingTypes == TimingSpec => []TimingTypeOK
BY TimingInvariance, PTL DEF TimingInv

\* Deadlines stay on their grids and pass over no point they need not.
THEOREM Punctual == TimingSpec => []NothingSkipped
BY TimingInvariance, PTL DEF TimingInv

\* Missed cycles are not made up for.
THEOREM OneCycleEach == TimingSpec => NoCatchUp
<1> DEFINE Spaced == phase = "waiting" /\ phase' = "working" /\ ~failed =>
                       Apart(LoopInterval, loopStart, loopStart')
<1>1. ASSUME TimingInv, [TimingNext]_vars PROVE [Spaced]_vars
  <2>1. ASSUME BeginCycle, ~failed PROVE Apart(LoopInterval, loopStart, loopStart')
    <3>1. /\ nextLoopAt \in Nat /\ now \in Nat /\ loopStart \in Int
          /\ OnGrid(LoopInterval, nextLoopAt) /\ loopStart < nextLoopAt
          /\ nextLoopAt <= now /\ loopStart' = now
      BY <1>1, <2>1 DEF BeginCycle, TimingInv, TimingTypeOK, Times, Ahead
    <3> QED
      BY <3>1, TimingAssumption, GridSetsApart
  <2>2. ASSUME phase = "waiting", phase' = "working" PROVE BeginCycle
    BY <1>1, <2>2 DEF TimingNext, Tick, BeginUpdate, EndCycle, EndUpdate, UpdateFails, vars
  <2> QED
    BY <2>1, <2>2
<1>2. TimingSpec => []TimingInv /\ [][TimingNext]_vars
  BY TimingInvariance, PTL DEF TimingSpec
<1> QED
  BY <1>1, <1>2, PTL DEF NoCatchUp

\* Missed updates are not made up for.
THEOREM OneUpdateEach == TimingSpec => NoCatchUpUpdates
<1> DEFINE Spaced == updatedAt' # updatedAt => Apart(UpdateInterval, updatedAt, updatedAt')
<1>1. ASSUME TimingInv, [TimingNext]_vars PROVE [Spaced]_vars
  <2>1. ASSUME EndUpdate PROVE Apart(UpdateInterval, updatedAt, updatedAt')
    <3>1. /\ nextUpdateAt \in Nat /\ workEnd \in Nat /\ updatedAt \in Int
          /\ OnGrid(UpdateInterval, nextUpdateAt) /\ updatedAt < nextUpdateAt
          /\ nextUpdateAt <= workEnd /\ updatedAt' = workEnd
      BY <1>1, <2>1 DEF EndUpdate, TimingInv, TimingTypeOK, Times, Ahead
    <3> QED
      BY <3>1, TimingAssumption, GridSetsApart
  <2>2. ASSUME updatedAt' # updatedAt PROVE EndUpdate
    BY <1>1, <2>2 DEF TimingNext, Tick, BeginCycle, BeginUpdate, EndCycle, UpdateFails, vars
  <2> QED
    BY <2>1, <2>2
<1>2. TimingSpec => []TimingInv /\ [][TimingNext]_vars
  BY TimingInvariance, PTL DEF TimingSpec
<1> QED
  BY <1>1, <1>2, PTL DEF NoCatchUpUpdates
===============================================================================
