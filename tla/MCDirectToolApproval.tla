------------------------ MODULE MCDirectToolApproval ------------------------
(* Instances of DirectToolApproval for TLC. *)
EXTENDS DirectToolApproval, TLC

Symmetry == Permutations(Turns) \cup Permutations(ApprovalIds) \cup Permutations(Owners)
=============================================================================
