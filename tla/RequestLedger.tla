--------------------------- MODULE RequestLedger ---------------------------
(***************************************************************************)
(* What the link between the GUI and the machine promises for the commands *)
(* an operator gives: each is carried out at most once, each gets at most  *)
(* one result, results come in the order in which the commands were given, *)
(* and a result is "failed", which says nothing about the command, or what *)
(* the machine answered to this very command.  A command may be carried    *)
(* out after its result was "failed".                                      *)
(***************************************************************************)
EXTENDS Naturals, Sequences

CONSTANT Ids        \* names of commands; a name is free again when all is over

VARIABLES
  open,      \* commands whose result is not known, in the order they were given
  results,   \* results not yet handed over, in the same order
  toDo,      \* commands the machine may still carry out
  answered   \* what the machine answered to a command whose result is open

ledgerVars == <<open, results, toDo, answered>>

Answers == {"ok", "error", "garbled"}
Results == {"ok", "error", "failed"}
Batches == {<<>>} \cup {<<r>> : r \in Ids} \cup {<<r, s>> : r, s \in Ids}
ElementsOf(rs) == {rs[i] : i \in DOMAIN rs}

Init ==
  /\ open = <<>> /\ results = <<>> /\ toDo = {}
  /\ answered = [r \in Ids |-> "none"]

\* Commands with unused names are given, two at once if it so happens.
Give(rs) ==
  /\ \A i, j \in DOMAIN rs : i # j => rs[i] # rs[j]
  /\ ElementsOf(rs) \cap (ElementsOf(open) \cup toDo) = {}
  /\ \A i \in DOMAIN results : results[i].id \notin ElementsOf(rs)
  /\ open' = open \o rs
  /\ toDo' = toDo \cup ElementsOf(rs)
  /\ UNCHANGED <<results, answered>>

CarryOut(r, answer) ==
  /\ r \in toDo
  /\ toDo' = toDo \ {r}
  /\ answered' \in {answered, [answered EXCEPT ![r] = answer]}
  /\ UNCHANGED <<open, results>>

Lose(rs) ==
  /\ rs \subseteq toDo
  /\ toDo' = toDo \ rs
  /\ UNCHANGED <<open, results, answered>>

\* The first open command gets its result; with "failed" its request and its
\* answer may be lost.
Settle(result) ==
  /\ open # <<>>
  /\ LET r == Head(open)
     IN /\ result = "failed" \/ result = answered[r]
        /\ results' = Append(results, [id |-> r, result |-> result])
        /\ answered' = [answered EXCEPT ![r] = "none"]
        /\ toDo' \in {toDo, toDo \ {r}}
  /\ open' = Tail(open)

\* A result is handed over; who gets it may give another command, to which
\* the name of the old one passes.
HandOver(rs) ==
  /\ results # <<>>
  /\ ElementsOf(rs) \cap (ElementsOf(open) \cup toDo) = {}
  /\ Len(rs) < 2
  /\ \A i \in DOMAIN results : i > 1 => results[i].id \notin ElementsOf(rs)
  /\ results' = Tail(results)
  /\ open' = open \o rs
  /\ toDo' = toDo \cup ElementsOf(rs)
  /\ UNCHANGED answered

\* The GUI ends: nobody waits for a result any more.
Close ==
  /\ open' = <<>> /\ results' = <<>>
  /\ answered' = [r \in Ids |-> "none"]
  /\ UNCHANGED toDo

Next ==
  \/ \E rs \in Batches : Give(rs) \/ HandOver(rs)
  \/ \E r \in Ids, answer \in Answers : CarryOut(r, answer)
  \/ \E rs \in SUBSET Ids : Lose(rs)
  \/ \E result \in Results : Settle(result)
  \/ Close

Spec == Init /\ [][Next]_ledgerVars
=============================================================================
