---------------------------- MODULE MCAffectJobs ----------------------------
(* Instances of AffectJobs for TLC. *)
EXTENDS AffectJobs

CONSTANT o1

\* Up to the names of the owners; the other writer takes part where all the
\* turns are of its owner.
MCInit == Init /\ jobs[1].owner = o1 /\ \A r \in Writers : writer[r].owner = o1
MCNext == Next /\ (writer' = writer \/ \A s \in Seqs : jobs[s].owner = o1)
MCSpec == MCInit /\ [][MCNext]_vars /\ Fairness
=============================================================================
