--------------------------- MODULE CommandService ---------------------------
(***************************************************************************)
(* What a client of rimokun's command socket may rely on, without queue,   *)
(* threads or lifecycle: every request is answered at most once and its    *)
(* handler runs at most once; an OK answer means the handler has already   *)
(* succeeded, an error answer of the handler means it has run and failed,  *)
(* and a refusal means the request has had no effect and never will.  Only *)
(* a time-out leaves the client in doubt.  CommandPath implements this.    *)
(***************************************************************************)
EXTENDS Naturals

CONSTANT Requests

VARIABLES
    runs,       \* runs[r]: how many times the handler of r has been started
    done,       \* the requests whose handler finished without an exception
    answer      \* answer[r]: what the client was told, "none" before that

vars == <<runs, done, answer>>

Refusals == {"invalid", "full", "shuttingDown"}

Init ==
    /\ runs = [r \in Requests |-> 0]
    /\ done = {}
    /\ answer = [r \in Requests |-> "none"]

\* The handler of r runs, once, and never for a request that was refused.
Perform(r) ==
    /\ runs[r] = 0
    /\ answer[r] \in {"none", "timedOut"}
    /\ runs' = [runs EXCEPT ![r] = 1]
    /\ done' \in {done, done \cup {r}}
    /\ UNCHANGED answer

\* The client of r gets its one answer, which tells the truth.
Reply(r, a) ==
    /\ answer[r] = "none"
    /\ \/ a = "OK" /\ r \in done
       \/ a = "error" /\ runs[r] = 1 /\ r \notin done
       \/ a \in Refusals /\ runs[r] = 0
       \/ a = "timedOut"
    /\ answer' = [answer EXCEPT ![r] = a]
    /\ UNCHANGED <<runs, done>>

Next ==
    \E r \in Requests :
        \/ Perform(r)
        \/ \E a \in {"OK", "error", "timedOut"} \cup Refusals : Reply(r, a)

Spec == Init /\ [][Next]_vars
=============================================================================
