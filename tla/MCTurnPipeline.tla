--------------------------- MODULE MCTurnPipeline ---------------------------
(* TLC instances of TurnPipeline: one message delivered twice, or two turns *)
(* of one session.                                                          *)
EXTENDS TurnPipeline

CONSTANTS c1, c2, c3, k1, k2

ThreeCalls == {c1, c2, c3}
TwoKeys == {k1, k2}
Inbound == c1 :> k1 @@ c2 :> k1 @@ c3 :> k2

\* Either c2 delivers the message of c1 again, while stages, sinks, writes and
\* the process fail; or c3 is the approval action that may answer what the
\* message of c1 asked, with the memory stages and realtime streaming: c1 may
\* be stopped, and any listing of its tool loop may fail.
Session == run[c3].pc # "idle"
MCInit == Init /\ kind[k2] = "approval_action"
MCNext ==
  /\ Next
  /\ IF Session'
       THEN /\ run'[c2].pc = "idle" /\ Alive(c3)' /\ run'[c3].missed = 0
            /\ kind[k1] = "user_message"
            /\ config = [memory |-> TRUE, silent |-> FALSE, segments |-> FALSE]
            /\ crashes' = 0 /\ faults' = 0 /\ Len(approvals') <= 1
       ELSE \A c \in Calls : run'[c].missed = 0
MCSpec == MCInit /\ [][MCNext]_vars
=============================================================================
