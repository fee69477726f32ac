--------------------------- MODULE MCPluginRuntime ---------------------------
(* Instances of PluginRuntime for TLC. *)
EXTENDS PluginRuntime, TLC

Symmetric == {c @@ v : c \in Permutations(Callers), v \in Permutations(Versions)}

\* With a backoff, as configured by default; a plugin that is enabled at the start.
\* What a process does after its generation has left the map is of no account: it
\* neither breaks, ends nor reports there before it is stopped.
MCInit == Init /\ backoffOn /\ row.enabled
MCNext ==
  /\ Next
  /\ \A g \in Generations :
       /\ g \in alarm' \ alarm => current = g
       /\ proc'[g] # proc[g] => current = g \/ actor' # actor \/ condemned' # condemned
MCSpec == MCInit /\ [][MCNext]_vars
=============================================================================
