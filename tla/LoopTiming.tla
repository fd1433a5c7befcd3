------------------------------ MODULE LoopTiming ------------------------------
(***************************************************************************)
(* When the process thread does what: the deadlines of ControlLoopRunner.  *)
(*                                                                         *)
(* Time passes in whole units at any moment, also between the steps of a   *)
(* cycle; the clock is steady.  A deadline advances in whole intervals, so *)
(* deadlines lie on a grid that begins with the thread.  The control and   *)
(* the command step catch their exceptions, the update step does not, and  *)
(* an exception leaves the cycle before the deadlines have advanced.  The  *)
(* duty cycle, which is only logged, is left out.                          *)
(***************************************************************************)
EXTENDS Integers

CONSTANTS
    LoopInterval,       \* _loopInterval
    UpdateInterval,     \* _updateInterval
    MaxTime             \* bound on the time

ASSUME TimingAssumption ==
    /\ LoopInterval \in Nat \ {0}
    /\ UpdateInterval \in Nat \ {0}
    /\ MaxTime \in Nat

VARIABLES
    now,            \* the clock
    phase,          \* waiting for nextLoopAt, working, or updating the status
    nextLoopAt,     \* state.nextLoopAt
    nextUpdateAt,   \* state.nextUpdateAt
    loopStart,      \* when the current or last cycle began
    workEnd,        \* when its control and command steps had ended: "now"
    updatedAt,      \* history: workEnd of the last cycle that updated the status
    failed          \* history: the update of the last cycle threw

vars == <<now, phase, nextLoopAt, nextUpdateAt, loopStart, workEnd, updatedAt, failed>>

\* makeInitialState; -1 stands for never.
TimingInit ==
    /\ now = 0
    /\ phase = "waiting"
    /\ nextLoopAt = 0
    /\ nextUpdateAt = 0
    /\ loopStart = -1
    /\ workEnd = -1
    /\ updatedAt = -1
    /\ failed = FALSE

\* Where a deadline that has passed at t ends up: it advances by an interval, and
\* again for as long as it does not lie after t.  A set with one element.
Advanced(deadline, interval, t) ==
    {d \in (t + 1)..(t + interval) :
        \E n \in 1..(t + interval - deadline) : d = deadline + n * interval}

-----------------------------------------------------------------------------
\* Time passes.
Tick ==
    /\ now < MaxTime
    /\ now' = now + 1
    /\ UNCHANGED <<phase, nextLoopAt, nextUpdateAt, loopStart, workEnd, updatedAt, failed>>

\* sleepUntil has returned, or the deadline had passed before.
BeginCycle ==
    /\ phase = "waiting"
    /\ now >= nextLoopAt
    /\ loopStart' = now
    /\ phase' = "working"
    /\ UNCHANGED <<now, nextLoopAt, nextUpdateAt, workEnd, updatedAt, failed>>

\* The control and the command step are over, and an update is due.
BeginUpdate ==
    /\ phase = "working"
    /\ now >= nextUpdateAt
    /\ workEnd' = now
    /\ phase' = "updating"
    /\ UNCHANGED <<now, nextLoopAt, nextUpdateAt, loopStart, updatedAt, failed>>

\* Mutant of EndCycle: the deadline advances by one interval only.
EndCycleCatchesUp ==
    /\ phase = "working"
    /\ now < nextUpdateAt
    /\ workEnd' = now
    /\ nextLoopAt' = nextLoopAt + LoopInterval
    /\ failed' = FALSE
    /\ phase' = "waiting"
    /\ UNCHANGED <<now, nextUpdateAt, loopStart, updatedAt>>

\* No update is due: the deadline of the loop advances.
EndCycle ==
    /\ phase = "working"
    /\ now < nextUpdateAt
    /\ workEnd' = now
    /\ nextLoopAt' \in Advanced(nextLoopAt, LoopInterval, now)
    /\ failed' = FALSE
    /\ phase' = "waiting"
    /\ UNCHANGED <<now, nextUpdateAt, loopStart, updatedAt>>

\* Mutant of EndUpdate: the deadline of the loop is put one interval from now.
EndUpdateRestarts ==
    /\ phase = "updating"
    /\ nextUpdateAt' \in Advanced(nextUpdateAt, UpdateInterval, workEnd)
    /\ nextLoopAt' = now + LoopInterval
    /\ updatedAt' = workEnd
    /\ failed' = FALSE
    /\ phase' = "waiting"
    /\ UNCHANGED <<now, loopStart, workEnd>>

\* Both deadlines advance past the end of the work, not past that of the update.
EndUpdate ==
    /\ phase = "updating"
    /\ nextUpdateAt' \in Advanced(nextUpdateAt, UpdateInterval, workEnd)
    /\ nextLoopAt' \in Advanced(nextLoopAt, LoopInterval, workEnd)
    /\ updatedAt' = workEnd
    /\ failed' = FALSE
    /\ phase' = "waiting"
    /\ UNCHANGED <<now, loopStart, workEnd>>

\* The update throws; the cycle that follows begins at once.
UpdateFails ==
    /\ phase = "updating"
    /\ failed' = TRUE
    /\ phase' = "waiting"
    /\ UNCHANGED <<now, nextLoopAt, nextUpdateAt, loopStart, workEnd, updatedAt>>

TimingNext ==
    \/ Tick
    \/ BeginCycle
    \/ BeginUpdate
    \/ EndCycle
    \/ EndUpdate
    \/ UpdateFails

TimingSpec == TimingInit /\ [][TimingNext]_vars

-----------------------------------------------------------------------------
(* Properties.                                                             *)

Times == -1..now

\* Types; a cycle that runs and an update that is made were due.
TimingTypeOK ==
    /\ now \in Nat
    /\ phase \in {"waiting", "working", "updating"}
    /\ nextLoopAt \in Nat
    /\ nextUpdateAt \in Nat
    /\ loopStart \in Times
    /\ workEnd \in Times
    /\ updatedAt \in -1..workEnd
    /\ failed \in BOOLEAN
    /\ phase # "waiting" => nextLoopAt <= loopStart
    /\ phase = "updating" => loopStart <= workEnd /\ nextUpdateAt <= workEnd

\* t and u lie in different intervals of the grid, t first.
Apart(interval, t, u) ==
    \E n \in 0..u : t < n * interval /\ n * interval <= u

\* However late a cycle is, the cycles that were missed are not made up for: no
\* two cycles begin in the same interval, unless an update has thrown.
NoCatchUp ==
    [][phase = "waiting" /\ phase' = "working" /\ ~failed =>
          Apart(LoopInterval, loopStart, loopStart')]_vars

\* Nor are updates: no two are made in the same interval, whatever has thrown.
NoCatchUpUpdates ==
    [][updatedAt' # updatedAt => Apart(UpdateInterval, updatedAt, updatedAt')]_vars

\* Nor is anything skipped without need: the next cycle is due at the first
\* point of its grid after the work of the last, and so is the next update,
\* unless it is overdue because an update has thrown.
NothingSkipped ==
    phase = "waiting" /\ workEnd # -1 =>
        /\ nextLoopAt <= workEnd + LoopInterval
        /\ nextUpdateAt <= workEnd + UpdateInterval
        /\ ~failed => workEnd < nextLoopAt /\ workEnd < nextUpdateAt
        /\ \E n \in 0..nextLoopAt : nextLoopAt = n * LoopInterval
===============================================================================
