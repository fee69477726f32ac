------------------------- MODULE MCMemoryExtraction -------------------------
(* Instances of MemoryExtraction for TLC.  The exhaustive run explores      *)
(* three scenes: workers that retry and overtake each other while one       *)
(* caller at a time asks for the whole segment; two callers that race, with *)
(* pins, while one worker at a time works, each job being claimed once; and *)
(* one caller and one worker at a time in a segment that outgrows the limit *)
(* of an extraction.                                                        *)
EXTENDS MemoryExtraction, TLC

VARIABLE scene

Symmetry == Permutations(Workers) \cup Permutations(Callers) \cup Permutations(JobIds)

AtMostOne(who, busy(_)) == Cardinality({x \in who : busy(x)}) <= 1
OneCaller == AtMostOne(Callers, LAMBDA c : caller'[c].pc # "idle")
OneWorker == AtMostOne(Workers, LAMBDA w : worker'[w].pc # "idle")
ClaimedOnce == \A j \in JobIds : job'[j].attempts <= 1
NoPins == \A c \in Callers : caller'[c].sel.trigger = "full"
ActivityUpTo(n) == \A s \in Segments : seg'[s].activity <= n

SceneInit == Init /\ scene \in {"workers", "callers", "limit"}
SceneNext ==
  /\ Next
  /\ scene = "workers" => OneCaller /\ NoPins /\ ActivityUpTo(2)
  /\ scene = "callers" => OneWorker /\ ClaimedOnce /\ ActivityUpTo(2)
  /\ scene = "limit" => OneCaller /\ OneWorker /\ ClaimedOnce
  /\ UNCHANGED scene
SceneSpec == SceneInit /\ [][SceneNext]_<<vars, scene>>
=============================================================================
