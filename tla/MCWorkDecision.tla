--------------------------- MODULE MCWorkDecision ---------------------------
(* Instances of WorkDecision for TLC. *)
EXTENDS WorkDecision, TLC

CONSTANTS t1, t2

OneOwner == {t1}
TwoOwners == {t1, t2}

\* Handlers, tasks and requests are interchangeable in the safety run.
Symmetry == Permutations(Handlers) \cup Permutations(Tasks) \cup Permutations(ApprovalIds)

\* One task with two claims, or two tasks that share the request table with one
\* claim: the second task joins only
\* while the first has a row, and everything else is as in Next.
Has(t) == row[t].status # "none"
Crowded == Has(t1) /\ Has(t2)
SharedNext ==
  /\ Next
  /\ Has(t2)' /\ ~Has(t2) => Has(t1)
  /\ Crowded' => claims' <= 1
SharedSpec == Init /\ [][SharedNext]_vars /\ Fairness
=============================================================================
