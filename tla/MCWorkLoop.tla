----------------------------- MODULE MCWorkLoop -----------------------------
(* Instances of WorkLoop for TLC. *)
EXTENDS WorkLoop, TLC

\* Each kind of call alone, and the rounds of two calls in which the fate of one
\* bears on the other.
MCReplies ==
  {<<k>> : k \in CallKinds} \cup
  {<<>>, <<"read", "write">>, <<"write", "write">>, <<"read", "sensitive">>,
   <<"sensitive", "write">>, <<"decide", "read">>, <<"finish", "write">>}

\* The first two rounds are any of them; later ones are calls alone.
Late == {<<k>> : k \in {"read", "write", "sensitive", "decide"}}
MCNext ==
  /\ Next
  /\ phase = "ask" /\ round >= 2 /\ history' # history =>
       \E ks \in Late : history'[Len(history) + 1].calls = CallSet(ks)
MCSpec == Init /\ [][MCNext]_vars

\* Few kinds, more rounds.
SummaryReplies == {<<"read">>, <<"decide">>}
=============================================================================
