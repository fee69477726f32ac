----------------------------- MODULE MCChangeSet -----------------------------
(* Instances of ChangeSet for TLC. *)
EXTENDS ChangeSet, TLC

Symmetry == Permutations(Changes) \cup Permutations(Paths) \cup Permutations(Calls)

\* One change over two paths with edits and a fault, or two changes of one
\* path without them and without cancellations.
Prepared == {c \in Changes : row[c].status # "none"}
MCNext ==
  /\ Next
  /\ Cardinality(Prepared') > 1 =>
       /\ faults' = 0 /\ edits' = 0 /\ \A p \in Calls : call'[p].pc # "cancelling"
       /\ \E f \in Paths : \A c \in Changes :
            /\ {row'[c].src, row'[c].dst} \subseteq {f, None}
            /\ \A g \in Paths \ {f} : disk'[g] = Absent
MCSpec == Init /\ [][MCNext]_vars
=============================================================================
