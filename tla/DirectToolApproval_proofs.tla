---------------------- MODULE DirectToolApproval_proofs ----------------------
(***************************************************************************)
(* Proofs about DirectToolApproval, for every set of requests, owners and   *)
(* turns and every time a parked call may wait: its types, that its rows do *)
(* not lie, that two turns never work on one call, and that it implements   *)
(* the approval ledger.                                                     *)
(***************************************************************************)
EXTENDS DirectToolApproval, TLAPS

\* A countdown stays one.
LEMMA DecType == \A n \in Nat : Dec(n) \in Nat
  BY DEF Dec

\* The statements on the request table keep its rows well formed.
LEMMA RequestsType ==
  ASSUME ApprovalsTypeOK
  PROVE  /\ \A a \in ApprovalIds, t \in Owners :
              Created(a, t, CallTTL) \in [ApprovalIds -> ApprovalRow]
         /\ \A a \in ApprovalIds : Consumed(a) \in [ApprovalIds -> ApprovalRow]
         /\ \A S : Expired(S) \in [ApprovalIds -> ApprovalRow]
         /\ Aged \in [ApprovalIds -> ApprovalRow]
<1> USE DEF ApprovalsTypeOK, ApprovalRow, ApprovalStatus
<1>1. ASSUME NEW a \in ApprovalIds, NEW t \in Owners
      PROVE  Created(a, t, CallTTL) \in [ApprovalIds -> ApprovalRow]
  <2>1. CallTTL + 1 \in Nat BY CallAssumption
  <2> QED BY <2>1 DEF Created
<1>2. ASSUME NEW a \in ApprovalIds PROVE Consumed(a) \in [ApprovalIds -> ApprovalRow]
  BY DEF Consumed
<1>3. ASSUME NEW S PROVE Expired(S) \in [ApprovalIds -> ApprovalRow]
  BY DEF Expired
<1>4. Aged \in [ApprovalIds -> ApprovalRow]
  BY DecType DEF Aged
<1> QED BY <1>1, <1>2, <1>3, <1>4

\* A continuation that goes on, or ends, keeps the turns well formed.
LEMMA TurnMoves ==
  ASSUME turn \in [Turns -> TurnState], NEW k \in Turns
  PROVE  /\ \A pc \in {"claimed", "allowed", "denied", "executed", "refused"} :
              Goto(k, pc) => turn' \in [Turns -> TurnState]
         /\ Leave(k) => turn' \in [Turns -> TurnState]
<1>1. ASSUME NEW pc \in {"claimed", "allowed", "denied", "executed", "refused"}, Goto(k, pc)
      PROVE  turn' \in [Turns -> TurnState]
  <2>1. turn[k] \in TurnState OBVIOUS
  <2>2. [turn[k] EXCEPT !.pc = pc] \in TurnState BY <2>1 DEF TurnState
  <2>3. turn' = [turn EXCEPT ![k] = [turn[k] EXCEPT !.pc = pc]] BY <1>1 DEF Goto
  <2> QED BY <2>2, <2>3
<1>2. NoTurn \in TurnState BY DEF NoTurn, TurnState
<1> QED BY <1>1, <1>2 DEF Leave

\* A row may be settled, or claimed by a turn, and stays well formed.
LEMMA RowMoves ==
  ASSUME NEW r \in CallRow, NEW status \in CallStatus
  PROVE  /\ [r EXCEPT !.status = status] \in CallRow
         /\ \A k \in Turns : [r EXCEPT !.status = status, !.claim = k] \in CallRow
  BY DEF CallRow

\* Settling a row and leaving keep the rows and the turns well formed.
LEMMA MarkResolvedType ==
  ASSUME TypeOK, NEW k \in Turns, NEW status \in CallStatus, MarkResolved(k, status)
  PROVE  TypeOK'
<1> DEFINE a == turn[k].req
           settled == [call EXCEPT ![a] = [call[a] EXCEPT !.status = status]]
<1>1. call' = settled \/ call' = call
  BY DEF MarkResolved
<1>2. settled \in [ApprovalIds -> CallRow]
  <2>1. a \in ApprovalIds => [call[a] EXCEPT !.status = status] \in CallRow
    BY RowMoves DEF TypeOK
  <2> QED BY <2>1 DEF TypeOK
<1>3. turn' \in [Turns -> TurnState]
  BY TurnMoves DEF TypeOK, MarkResolved
<1> QED BY <1>1, <1>2, <1>3 DEF TypeOK, ApprovalsTypeOK, MarkResolved

\* Every variable keeps its type along every behaviour: the rows, requests and
\* continuations the code can produce.
THEOREM TypeCorrect == Spec => []TypeOK
<1>1. Init => TypeOK
  BY DEF Init, TypeOK, ApprovalsInit, ApprovalsTypeOK, ApprovalRow, ApprovalStatus, NoCall,
         CallRow, CallStatus, NoTurn, TurnState
<1>2. TypeOK /\ [Next]_vars => TypeOK'
  <2> SUFFICES ASSUME TypeOK, [Next]_vars PROVE TypeOK'
    OBVIOUS
  <2> USE DEF TypeOK
  <2>1. ASSUME NEW t \in Owners, NEW a \in ApprovalIds, CreateRequest(t, a) PROVE TypeOK'
    BY <2>1, RequestsType, CallAssumption DEF CreateRequest, ApprovalsTypeOK
  <2>2. ASSUME NEW a \in ApprovalIds, Park(a) PROVE TypeOK'
    <3>1. approval[a].owner \in Owners \cup {None} /\ Dec(approval[a].left) \in Nat
      BY DEF ApprovalsTypeOK, ApprovalRow, Dec
    <3>2. call' \in [ApprovalIds -> CallRow]
      BY <2>2, <3>1 DEF Park, CallRow, CallStatus
    <3> QED BY <2>2, <3>2 DEF Park, ApprovalsTypeOK
  <2>3. ASSUME NEW a \in ApprovalIds, ExpireOrphan(a) PROVE TypeOK'
    BY <2>3, RequestsType DEF ExpireOrphan, ApprovalsTypeOK
  <2>4. ASSUME NEW k \in Turns, NEW a \in ApprovalIds,
               ApplyReject(k, a) \/ \E option \in Options : Apply(k, a, option)
        PROVE  TypeOK'
    <3>1. approval' \in [ApprovalIds -> ApprovalRow]
      BY <2>4 DEF ApplyReject, Apply, RejectRequest, ApproveRequest, ApprovalsTypeOK, ApprovalRow,
                  ApprovalStatus, Options
    <3>2. turn' \in [Turns -> TurnState] BY <2>4 DEF ApplyReject, Apply, TurnState
    <3> QED BY <2>4, <3>1, <3>2 DEF ApplyReject, Apply, ApprovalsTypeOK
  <2>5. ASSUME NEW k \in Turns, Claim(k) PROVE TypeOK'
    <3> DEFINE a == turn[k].req
    <3>1. call' = [call EXCEPT ![a] = [call[a] EXCEPT !.status = "claimed", !.claim = k]]
      BY <2>5 DEF Claim
    <3>2. a \in ApprovalIds => call' \in [ApprovalIds -> CallRow]
      <4>1. a \in ApprovalIds => [call[a] EXCEPT !.status = "claimed", !.claim = k] \in CallRow
        BY RowMoves DEF CallStatus
      <4> QED BY <3>1, <4>1
    <3>3. a \notin ApprovalIds => call' = call BY <3>1
    <3>4. turn' \in [Turns -> TurnState] BY <2>5, TurnMoves DEF Claim
    <3>5. call' \in [ApprovalIds -> CallRow] BY <3>2, <3>3
    <3>6. UNCHANGED <<approval, toolRuns>> BY <2>5 DEF Claim
    <3> QED BY <3>4, <3>5, <3>6 DEF ApprovalsTypeOK
  <2>6. ASSUME NEW k \in Turns, NothingToClaim(k) PROVE TypeOK'
    <3> DEFINE a == turn[k].req
    <3>1. \/ call' = call
          \/ call' = [call EXCEPT ![a] = [call[a] EXCEPT !.status = "expired"]]
      BY <2>6 DEF NothingToClaim
    <3>2. a \in ApprovalIds => call' \in [ApprovalIds -> CallRow]
      <4>1. a \in ApprovalIds => [call[a] EXCEPT !.status = "expired"] \in CallRow
        BY RowMoves DEF CallStatus
      <4> QED BY <3>1, <4>1
    <3>3. a \notin ApprovalIds => call' = call BY <3>1
    <3>4. turn' \in [Turns -> TurnState] BY <2>6, TurnMoves DEF NothingToClaim
    <3>5. call' \in [ApprovalIds -> CallRow] BY <3>2, <3>3
    <3>6. UNCHANGED <<approval, toolRuns>> BY <2>6 DEF NothingToClaim
    <3> QED BY <3>4, <3>5, <3>6 DEF ApprovalsTypeOK
  <2>7. ASSUME NEW k \in Turns, Consume(k) PROVE TypeOK'
    <3>1. approval' \in [ApprovalIds -> ApprovalRow]
      BY <2>7 DEF Consume, Consumed, ApprovalsTypeOK, ApprovalRow, ApprovalStatus
    <3> QED BY <2>7, <3>1, TurnMoves DEF Consume, ApprovalsTypeOK
  <2>8. ASSUME NEW k \in Turns, Execute(k) PROVE TypeOK'
    BY <2>8, TurnMoves DEF Execute, Ran, ApprovalsTypeOK
  <2>9. ASSUME NEW k \in Turns, MarkConsumed(k) \/ MarkRejected(k) \/ MarkFailed(k) PROVE TypeOK'
    BY <2>9, MarkResolvedType DEF MarkConsumed, MarkRejected, MarkFailed, CallStatus
  <2>10. ASSUME NEW k \in Turns, GiveUp(k) PROVE TypeOK'
    BY <2>10, TurnMoves DEF GiveUp, ApprovalsTypeOK
  <2>11. CASE Tick
    <3>1. \A a \in ApprovalIds : [call[a] EXCEPT !.left = Dec(@)] \in CallRow
      BY DecType DEF CallRow
    <3>2. call' \in [ApprovalIds -> CallRow] BY <2>11, <3>1 DEF Tick
    <3> QED BY <2>11, <3>2, RequestsType DEF Tick, ApprovalsTypeOK
  <2>12. CASE Crash
    BY <2>12 DEF Crash, NoTurn, TurnState, ApprovalsTypeOK
  <2>13. CASE UNCHANGED vars
    BY <2>13 DEF vars, ApprovalsTypeOK
  <2> QED BY <2>1, <2>2, <2>3, <2>4, <2>5, <2>6, <2>7, <2>8, <2>9, <2>10, <2>11, <2>12, <2>13
          DEF Next, Continue
<1> QED BY <1>1, <1>2, PTL DEF Spec
-----------------------------------------------------------------------------
(* The row, the request and the continuation of a call agree. *)

\* A step that moves no turn but ends some, keeps the decided requests and
\* decides none, and keeps the rows that are claimed or consumed, unless nobody has asked yet.
LEMMA CallUntouched ==
  ASSUME TypeOK, CallInv, toolRuns' = toolRuns,
         \A k \in Turns : turn'[k] = turn[k] \/ turn'[k] = NoTurn,
         \A a \in ApprovalIds :
           /\ approval[a].status \in {"approved", "rejected", "consumed"} =>
                approval'[a].status = approval[a].status /\ approval'[a].choice = approval[a].choice
           /\ approval'[a].status = "consumed" => approval[a].status = "consumed",
         \A a \in ApprovalIds :
           \/ call'[a].status = call[a].status /\ call'[a].claim = call[a].claim
           \/ /\ call[a].status \notin {"claimed", "consumed"} \/ approval[a].status = "absent"
              /\ call'[a].status \in {"pending", "expired"}
  PROVE  CallInv'
<1> USE DEF CallInv
<1>1. CallRecordHonest'
  BY DEF CallRecordHonest, NotYetRun, TypeOK, ApprovalsTypeOK
<1>2. OneContinuation'
  BY DEF OneContinuation, NoTurn
<1>3. TurnKnowsDecision'
  BY DEF TurnKnowsDecision, NoTurn
<1>4. TurnHoldsCall'
  BY DEF TurnHoldsCall, TurnKnowsDecision, NoTurn
<1>5. NotYetRun'
  BY DEF NotYetRun, TurnKnowsDecision, NoTurn
<1>6. GrantSpentOnce'
  BY DEF GrantSpentOnce, TypeOK, ApprovalsTypeOK
<1> QED BY <1>1, <1>2, <1>3, <1>4, <1>5, <1>6

\* Settling a row ends its continuation; it is recorded as what was done.
LEMMA CallResolved ==
  ASSUME TypeOK, CallInv, NEW k \in Turns, MarkConsumed(k) \/ MarkRejected(k) \/ MarkFailed(k)
  PROVE  CallInv'
<1> DEFINE a == turn[k].req
<1> USE DEF CallInv
<1>1. /\ turn' = [turn EXCEPT ![k] = NoTurn]
      /\ UNCHANGED <<approval, toolRuns>>
      /\ turn[k].pc \in {"claimed", "executed", "denied", "refused"}
  BY DEF MarkConsumed, MarkRejected, MarkFailed, MarkResolved, Leave
<1>2. a \in ApprovalIds /\ call[a].status = "claimed" /\ call[a].claim = k
  BY <1>1 DEF TurnKnowsDecision, TurnHoldsCall
<1>3. \A j \in Turns \ {k} : turn'[j] = turn[j] /\ (turn[j].pc # "idle" => turn[j].req # a)
  BY <1>1 DEF TypeOK, OneContinuation
<1>4. turn'[k] = NoTurn
  BY <1>1 DEF TypeOK
<1>5. /\ \A b \in ApprovalIds \ {a} : call'[b] = call[b]
      /\ \/ turn[k].pc = "executed" /\ call'[a].status = "consumed"
         \/ turn[k].pc = "denied" /\ call'[a].status = "rejected"
         \/ turn[k].pc \in {"claimed", "refused"} /\ call'[a].status = "failed"
  BY <1>2 DEF MarkConsumed, MarkRejected, MarkFailed, MarkResolved, TypeOK, CallRow
<1>6. CallRecordHonest'
  <2>1. turn[k].pc # "executed" => toolRuns[a] = 0
    BY <1>1, <1>2 DEF NotYetRun, TurnKnowsDecision
  <2> QED BY <1>1, <1>2, <1>5, <2>1 DEF CallRecordHonest, TurnKnowsDecision, TypeOK, ApprovalsTypeOK
<1>7. OneContinuation'
  BY <1>3, <1>4 DEF OneContinuation, NoTurn
<1>8. TurnKnowsDecision'
  BY <1>1, <1>3, <1>4 DEF TurnKnowsDecision, NoTurn
<1>9. TurnHoldsCall'
  BY <1>3, <1>4, <1>5 DEF TurnHoldsCall, TurnKnowsDecision, NoTurn
<1>10. NotYetRun'
  BY <1>1, <1>3, <1>4 DEF NotYetRun, NoTurn
<1>11. GrantSpentOnce'
  BY <1>1 DEF GrantSpentOnce
<1> QED BY <1>6, <1>7, <1>8, <1>9, <1>10, <1>11

\* The invariant that ties a parked call to the user's decision.
LEMMA CallInductive == Spec => []CallInv
<1>1. Init => CallInv
  BY DEF Init, ApprovalsInit, NoCall, NoTurn, CallInv, CallRecordHonest, OneContinuation,
         TurnKnowsDecision, TurnHoldsCall, NotYetRun, GrantSpentOnce
<1>2. TypeOK /\ CallInv /\ [Next]_vars => CallInv'
  <2> SUFFICES ASSUME TypeOK, CallInv, [Next]_vars PROVE CallInv'
    OBVIOUS
  <2> USE DEF TypeOK, ApprovalsTypeOK
  <2>1. ASSUME NEW t \in Owners, NEW a \in ApprovalIds, CreateRequest(t, a) PROVE CallInv'
    BY <2>1, CallUntouched DEF CreateRequest, Created, Unused
  <2>2. ASSUME NEW a \in ApprovalIds, Park(a) PROVE CallInv'
    BY <2>2, CallUntouched DEF Park
  <2>3. ASSUME NEW a \in ApprovalIds, ExpireOrphan(a) PROVE CallInv'
    BY <2>3, CallUntouched DEF ExpireOrphan, Expired
  <2>4. ASSUME NEW k \in Turns, NEW a \in ApprovalIds,
               ApplyReject(k, a) \/ \E option \in Options : Apply(k, a, option)
        PROVE  CallInv'
    <3>1. /\ turn[k].pc = "idle" /\ approval[a].status = "pending"
          /\ turn' = [turn EXCEPT ![k] = [pc |-> "applied", req |-> a]]
          /\ UNCHANGED <<call, toolRuns>>
          /\ \A b \in ApprovalIds \ {a} : approval'[b] = approval[b]
          /\ approval'[a].status \in {"approved", "rejected"} /\ approval'[a].choice \in Options
      BY <2>4 DEF ApplyReject, Apply, RejectRequest, ApproveRequest, Decidable, ApprovalRow, Options
    <3>2. \A j \in Turns : turn[j].pc # "idle" => turn[j].req \in ApprovalIds \ {a}
      BY <3>1 DEF CallInv, TurnKnowsDecision, TurnState
    <3>3. /\ \A j \in Turns \ {k} : turn'[j] = turn[j]
          /\ turn'[k] = [pc |-> "applied", req |-> a]
      BY <3>1
    <3>4. CallRecordHonest' BY <3>1 DEF CallInv, CallRecordHonest
    <3>5. OneContinuation' BY <3>2, <3>3 DEF CallInv, OneContinuation
    <3>6. TurnKnowsDecision' BY <3>1, <3>2, <3>3 DEF CallInv, TurnKnowsDecision
    <3>7. TurnHoldsCall' BY <3>1, <3>3 DEF CallInv, TurnHoldsCall
    <3>8. NotYetRun' BY <3>1, <3>3 DEF CallInv, NotYetRun
    <3>9. GrantSpentOnce' BY <3>1 DEF CallInv, GrantSpentOnce
    <3> QED BY <3>4, <3>5, <3>6, <3>7, <3>8, <3>9 DEF CallInv
  <2>5. ASSUME NEW k \in Turns, Claim(k) PROVE CallInv'
    <3> DEFINE a == turn[k].req
    <3>1. /\ a \in ApprovalIds /\ turn[k].pc = "applied" /\ call[a].status = "pending"
          /\ UNCHANGED <<approval, toolRuns>>
      BY <2>5 DEF Claim, Claimable, CallInv, TurnKnowsDecision
    <3>2. /\ \A j \in Turns \ {k} : turn'[j] = turn[j] /\ (turn[j].pc # "idle" => turn[j].req # a)
          /\ turn'[k].pc = "claimed" /\ turn'[k].req = a
      BY <2>5, <3>1 DEF Claim, Goto, CallInv, OneContinuation, TurnState
    <3>3. /\ \A b \in ApprovalIds \ {a} : call'[b] = call[b]
          /\ call'[a].status = "claimed" /\ call'[a].claim = k
      BY <2>5, <3>1 DEF Claim, CallRow
    <3>4. CallRecordHonest' BY <3>1, <3>3 DEF CallInv, CallRecordHonest
    <3>5. OneContinuation' BY <3>2 DEF CallInv, OneContinuation
    <3>6. TurnKnowsDecision' BY <3>1, <3>2 DEF CallInv, TurnKnowsDecision
    <3>7. TurnHoldsCall' BY <3>2, <3>3 DEF CallInv, TurnHoldsCall, TurnKnowsDecision
    <3>8. NotYetRun' BY <3>1, <3>2 DEF CallInv, NotYetRun
    <3>9. GrantSpentOnce' BY <3>1 DEF CallInv, GrantSpentOnce
    <3> QED BY <3>4, <3>5, <3>6, <3>7, <3>8, <3>9 DEF CallInv
  <2>6. ASSUME NEW k \in Turns, NothingToClaim(k) PROVE CallInv'
    <3>1. turn[k].req \in ApprovalIds
      BY <2>6 DEF NothingToClaim, CallInv, TurnKnowsDecision
    <3> QED BY <2>6, <3>1, CallUntouched DEF NothingToClaim, Leave, CallRow
  <2>7. ASSUME NEW k \in Turns, Consume(k) PROVE CallInv'
    <3> DEFINE a == turn[k].req
    <3>1. /\ a \in ApprovalIds /\ turn[k].pc = "claimed"
          /\ approval[a].status \in {"approved", "rejected"} /\ approval[a].choice \in Options
          /\ call[a].status = "claimed" /\ toolRuns[a] = 0
          /\ UNCHANGED <<call, toolRuns>>
      BY <2>7 DEF Consume, CallInv, TurnKnowsDecision, TurnHoldsCall, NotYetRun
    <3>2. /\ \A j \in Turns \ {k} : turn'[j] = turn[j] /\ (turn[j].pc # "idle" => turn[j].req # a)
          /\ turn'[k].pc = IF approval[a].choice = "allow" THEN "allowed" ELSE "denied"
          /\ turn'[k].req = a
      BY <2>7, <3>1 DEF Consume, Goto, CallInv, OneContinuation, TurnState
    <3>3. /\ \A b \in ApprovalIds \ {a} : approval'[b] = approval[b]
          /\ approval'[a].status = "consumed" /\ approval'[a].choice = approval[a].choice
      BY <2>7, <3>1 DEF Consume, Consumed, ApprovalRow
    <3>4. CallRecordHonest' BY <3>1, <3>3 DEF CallInv, CallRecordHonest
    <3>5. OneContinuation' BY <3>2 DEF CallInv, OneContinuation
    <3>6. TurnKnowsDecision' BY <3>1, <3>2, <3>3 DEF CallInv, TurnKnowsDecision, Options
    <3>7. TurnHoldsCall' BY <3>1, <3>2 DEF CallInv, TurnHoldsCall
    <3>8. NotYetRun' BY <3>1, <3>2, <3>3 DEF CallInv, NotYetRun
    <3>9. GrantSpentOnce' BY <3>1, <3>3 DEF CallInv, GrantSpentOnce
    <3> QED BY <3>4, <3>5, <3>6, <3>7, <3>8, <3>9 DEF CallInv
  <2>8. ASSUME NEW k \in Turns, Execute(k) PROVE CallInv'
    <3> DEFINE a == turn[k].req
    <3>1. /\ a \in ApprovalIds /\ turn[k].pc = "allowed"
          /\ approval[a].status = "consumed" /\ approval[a].choice = "allow"
          /\ call[a].status = "claimed" /\ toolRuns[a] = 0
          /\ UNCHANGED <<call, approval>>
      BY <2>8 DEF Execute, CallInv, TurnKnowsDecision, TurnHoldsCall, NotYetRun
    <3>2. /\ \A j \in Turns \ {k} : turn'[j] = turn[j] /\ (turn[j].pc # "idle" => turn[j].req # a)
          /\ turn'[k].pc \in {"executed", "refused"} /\ turn'[k].req = a
      BY <2>8, <3>1 DEF Execute, Goto, CallInv, OneContinuation, TurnState
    <3>3. /\ \A b \in ApprovalIds \ {a} : toolRuns'[b] = toolRuns[b]
          /\ toolRuns'[a] \in {0, 1}
          /\ turn'[k].pc = "refused" => toolRuns'[a] = 0
      BY <2>8, <3>1 DEF Execute, Ran, Goto, TurnState
    <3>4. CallRecordHonest' BY <3>1, <3>3 DEF CallInv, CallRecordHonest
    <3>5. OneContinuation' BY <3>2 DEF CallInv, OneContinuation
    <3>6. TurnKnowsDecision' BY <3>1, <3>2 DEF CallInv, TurnKnowsDecision
    <3>7. TurnHoldsCall' BY <3>1, <3>2 DEF CallInv, TurnHoldsCall
    <3>8. NotYetRun' BY <3>1, <3>2, <3>3 DEF CallInv, NotYetRun, TurnKnowsDecision
    <3>9. GrantSpentOnce' BY <3>1, <3>3 DEF CallInv, GrantSpentOnce
    <3> QED BY <3>4, <3>5, <3>6, <3>7, <3>8, <3>9 DEF CallInv
  <2>9. ASSUME NEW k \in Turns, MarkConsumed(k) \/ MarkRejected(k) \/ MarkFailed(k) PROVE CallInv'
    BY <2>9, CallResolved
  <2>10. ASSUME NEW k \in Turns, GiveUp(k) PROVE CallInv'
    BY <2>10, CallUntouched DEF GiveUp, Leave
  <2>11. CASE Tick
    BY <2>11, CallUntouched DEF Tick, Aged, CallRow, ApprovalRow
  <2>12. CASE Crash
    BY <2>12, CallUntouched DEF Crash
  <2>13. CASE UNCHANGED vars
    BY <2>13, CallUntouched DEF vars
  <2> QED BY <2>1, <2>2, <2>3, <2>4, <2>5, <2>6, <2>7, <2>8, <2>9, <2>10, <2>11, <2>12, <2>13
          DEF Next, Continue
<1> QED BY <1>1, <1>2, TypeCorrect, PTL DEF Spec

\* A row never denies what was done: a call that ran is recorded as consumed or still
\* claimed, and a settled row as the user decided (engine.go resumeDirectToolApproval).
THEOREM RecordCorrect == Spec => []CallRecordHonest
<1>1. CallInv => CallRecordHonest BY DEF CallInv
<1> QED BY <1>1, CallInductive, PTL

\* No two turns work on one call (engine.go ContinueAfterApproval).
THEOREM ContinuationCorrect == Spec => []OneContinuation
<1>1. CallInv => OneContinuation BY DEF CallInv
<1> QED BY <1>1, CallInductive, PTL
-----------------------------------------------------------------------------
(* A claim is for good *)

\* A row under a step: it is not touched, or prepared under an unused identifier, or is
\* claimed, overdue or settled by the turn that works on it.
LEMMA RowSteps ==
  ASSUME TypeOK, CallInv, [Next]_vars, NEW a \in ApprovalIds
  PROVE  /\ approval'[a].status = "absent" => approval[a].status = "absent"
         /\ \/ call'[a].status = call[a].status /\ call'[a].claim = call[a].claim
            \/ /\ call[a].status = "none" /\ approval'[a].status # "absent"
               /\ call'[a].status = "pending" /\ call'[a].claim = None
            \/ /\ call[a].status = "pending" /\ call'[a].status = "claimed"
            \/ /\ call[a].status = "pending" /\ call'[a].status = "expired"
               /\ call'[a].claim = call[a].claim
            \/ /\ call[a].status = "claimed" /\ call'[a].claim = call[a].claim
               /\ call'[a].status \in {"consumed", "rejected", "failed"}
               /\ \E k \in Turns : call[a].claim = k /\ turn[k].req = a /\ turn'[k] = NoTurn
<1> DEFINE R ==
         /\ approval'[a].status = "absent" => approval[a].status = "absent"
         /\ \/ call'[a].status = call[a].status /\ call'[a].claim = call[a].claim
            \/ /\ call[a].status = "none" /\ approval'[a].status # "absent"
               /\ call'[a].status = "pending" /\ call'[a].claim = None
            \/ /\ call[a].status = "pending" /\ call'[a].status = "claimed"
            \/ /\ call[a].status = "pending" /\ call'[a].status = "expired"
               /\ call'[a].claim = call[a].claim
            \/ /\ call[a].status = "claimed" /\ call'[a].claim = call[a].claim
               /\ call'[a].status \in {"consumed", "rejected", "failed"}
               /\ \E k \in Turns : call[a].claim = k /\ turn[k].req = a /\ turn'[k] = NoTurn
<1>0. /\ approval \in [ApprovalIds -> ApprovalRow] /\ call \in [ApprovalIds -> CallRow]
      /\ turn \in [Turns -> TurnState]
  BY DEF TypeOK, ApprovalsTypeOK
<1>1. ASSUME NEW t \in Owners, NEW b \in ApprovalIds, CreateRequest(t, b) PROVE R
  BY <1>0, <1>1 DEF CreateRequest, Created, Unused
<1>13. ASSUME NEW b \in ApprovalIds, Park(b) PROVE R
  BY <1>0, <1>13 DEF Park
<1>2. ASSUME call' = call \/ Tick, approval'[a].status = "absent" => approval[a].status = "absent"
      PROVE  R
  BY <1>0, <1>2 DEF Tick, CallRow
<1>3. ASSUME NEW b \in ApprovalIds, ExpireOrphan(b) PROVE R
  BY <1>0, <1>2, <1>3 DEF ExpireOrphan, Expired, ApprovalRow
<1>4. ASSUME NEW k \in Turns, NEW b \in ApprovalIds,
             ApplyReject(k, b) \/ \E option \in Options : Apply(k, b, option)
      PROVE  R
  BY <1>0, <1>2, <1>4 DEF ApplyReject, RejectRequest, Apply, ApproveRequest, ApprovalRow
<1>5. ASSUME NEW k \in Turns, Consume(k) PROVE R
  BY <1>0, <1>2, <1>5 DEF Consume, Consumed, ApprovalRow
<1>6. ASSUME NEW k \in Turns, Execute(k) \/ GiveUp(k) PROVE R
  BY <1>0, <1>2, <1>6 DEF Execute, GiveUp
<1>7. ASSUME NEW k \in Turns, Claim(k) \/ NothingToClaim(k) PROVE R
  BY <1>0, <1>7 DEF Claim, NothingToClaim, Claimable, CallRow
<1>8. ASSUME NEW k \in Turns, MarkConsumed(k) \/ MarkRejected(k) \/ MarkFailed(k) PROVE R
  <2>1. /\ approval' = approval /\ turn'[k] = NoTurn
        /\ \/ call' = call
           \/ /\ call[turn[k].req].status = "claimed" /\ call[turn[k].req].claim = k
              /\ \E status \in {"consumed", "rejected", "failed"} :
                   call' = [call EXCEPT ![turn[k].req].status = status]
    BY <1>0, <1>8 DEF MarkConsumed, MarkRejected, MarkFailed, MarkResolved, Leave
  <2> QED BY <1>0, <2>1 DEF CallRow
<1>9. ASSUME Tick PROVE R
  <2>1. approval'[a].status = approval[a].status BY <1>0, <1>9 DEF Tick, Aged, ApprovalRow
  <2> QED BY <1>2, <1>9, <2>1
<1>10. ASSUME Crash \/ UNCHANGED vars PROVE R
  BY <1>2, <1>10 DEF Crash, vars
<1> HIDE DEF R
<1>11. ASSUME NEW k \in Turns, Continue(k) PROVE R
  BY <1>5, <1>6, <1>7, <1>8, <1>11 DEF Continue
<1>12. R BY <1>1, <1>13, <1>3, <1>4, <1>9, <1>10, <1>11 DEF Next
<1> QED BY <1>12 DEF R

\* A request nobody has made has no row, and only a row that was claimed names a turn.
LEMMA FreshInductive == Spec => []RowsFresh
<1>1. Init => RowsFresh
  <2> SUFFICES ASSUME Init, NEW a \in ApprovalIds
               PROVE  call[a].status = "none" /\ call[a].claim = None
    BY DEF RowsFresh
  <2> QED BY DEF Init, NoCall
<1>2. TypeOK /\ CallInv /\ RowsFresh /\ [Next]_vars => RowsFresh'
  <2> SUFFICES ASSUME TypeOK, CallInv, RowsFresh, [Next]_vars, NEW a \in ApprovalIds
               PROVE  /\ approval'[a].status = "absent" => call'[a].status = "none"
                      /\ call'[a].claim # None =>
                           call'[a].status \in {"claimed", "consumed", "rejected", "failed"}
    BY DEF RowsFresh
  <2> QED BY RowSteps DEF RowsFresh
<1> QED BY <1>1, <1>2, TypeCorrect, CallInductive, PTL DEF Spec

\* A parked call is claimed once for good and settled by that claim alone, also when the
\* turn that held it has died (direct_store.go Claim, markResolved).
THEOREM ClaimsStand == Spec => ClaimStands
<1> DEFINE A == \A a \in ApprovalIds :
       /\ call[a].claim # None => call'[a].claim = call[a].claim
       /\ call[a].status \in Final => call'[a].status = call[a].status
       /\ call[a].status = "claimed" /\ call'[a].status # "claimed" =>
            \E k \in Turns : call[a].claim = k /\ turn[k].req = a /\ turn'[k] = NoTurn
<1>1. TypeOK /\ CallInv /\ RowsFresh /\ [Next]_vars => [A]_vars
  <2> SUFFICES ASSUME TypeOK, CallInv, RowsFresh, [Next]_vars, NEW a \in ApprovalIds
               PROVE  /\ call[a].claim # None => call'[a].claim = call[a].claim
                      /\ call[a].status \in Final => call'[a].status = call[a].status
                      /\ call[a].status = "claimed" /\ call'[a].status # "claimed" =>
                           \E k \in Turns : call[a].claim = k /\ turn[k].req = a /\ turn'[k] = NoTurn
    OBVIOUS
  <2>1. /\ approval[a].status = "absent" => call[a].status = "none"
        /\ call[a].claim # None => call[a].status \in {"claimed", "consumed", "rejected", "failed"}
    BY DEF RowsFresh
  <2> QED BY <2>1, RowSteps DEF Final
<1> QED BY <1>1, TypeCorrect, CallInductive, FreshInductive, PTL DEF Spec, ClaimStands
-----------------------------------------------------------------------------
(***************************************************************************)
(* What the statements on approval_requests are to the approval ledger, for *)
(* every set of requests: each is a step of ApprovalLedger or none.         *)
(***************************************************************************)

\* The standing of a request, by the status of its row.
LEMMA StandingCases ==
  ASSUME NEW r
  PROVE  /\ r.status = "absent" => StandingOf(r) = "unopened"
         /\ r.status = "pending" => StandingOf(r) = "open"
         /\ r.status = "expired" => StandingOf(r) = "lapsed"
         /\ r.status \in {"approved", "rejected"} =>
              StandingOf(r) = IF r.choice = "allow" THEN "granted" ELSE "denied"
         /\ r.status = "consumed" => StandingOf(r) = IF r.choice = "allow" THEN "spent" ELSE "closed"
  BY DEF StandingOf

\* A ledger step that moves one request.
LEMMA MovesOne ==
  ASSUME NEW a \in ApprovalIds, NEW from, NEW to,
         toolRuns' = toolRuns,
         StandingOf(approval[a]) = from, StandingOf(approval'[a]) = to,
         \A b \in ApprovalIds \ {a} : StandingOf(approval'[b]) = StandingOf(approval[b])
  PROVE  Ledger!Move(a, from, to)
  BY DEF Ledger!Move, Standing

\* A request that is created becomes open.
LEMMA CreatedStep ==
  ASSUME ApprovalsTypeOK, NEW a \in ApprovalIds, NEW t, NEW ttl,
         Unused(a), approval' = Created(a, t, ttl), toolRuns' = toolRuns
  PROVE  Ledger!Next
<1>1. /\ approval[a].status = "absent" /\ approval'[a].status = "pending"
      /\ \A b \in ApprovalIds \ {a} : approval'[b] = approval[b]
  BY DEF Created, Unused, ApprovalsTypeOK
<1>2. Ledger!Move(a, "unopened", "open")
  BY <1>1, StandingCases, MovesOne
<1> QED BY <1>2 DEF Ledger!Next, Ledger!Open

\* The user's decision grants or denies.
LEMMA DecidedStep ==
  ASSUME ApprovalsTypeOK, NEW a \in ApprovalIds, toolRuns' = toolRuns,
         RejectRequest(a) \/ \E option \in Options : ApproveRequest(a, option)
  PROVE  Ledger!Next
<1>1. /\ approval[a].status = "pending" /\ approval'[a].status \in {"approved", "rejected"}
      /\ \A b \in ApprovalIds \ {a} : approval'[b] = approval[b]
  BY DEF RejectRequest, ApproveRequest, Decidable, ApprovalsTypeOK, ApprovalRow
<1>2. Ledger!Move(a, "open", "granted") \/ Ledger!Move(a, "open", "denied")
  <2>1. CASE approval'[a].choice = "allow" BY <1>1, <2>1, StandingCases, MovesOne
  <2>2. CASE approval'[a].choice # "allow" BY <1>1, <2>2, StandingCases, MovesOne
  <2> QED BY <2>1, <2>2
<1> QED BY <1>2 DEF Ledger!Next, Ledger!Grant, Ledger!Deny

\* Consumption spends a grant or closes a denial.
LEMMA ConsumedStep ==
  ASSUME ApprovalsTypeOK, NEW a \in ApprovalIds, NEW t, toolRuns' = toolRuns,
         Resumable(a, t), approval' = Consumed(a)
  PROVE  Ledger!Next
<1>1. /\ approval[a].status \in {"approved", "rejected"} /\ approval'[a].status = "consumed"
      /\ approval'[a].choice = approval[a].choice
      /\ \A b \in ApprovalIds \ {a} : approval'[b] = approval[b]
  BY DEF Resumable, Consumed, ApprovalsTypeOK, ApprovalRow
<1>2. Ledger!Move(a, "granted", "spent") \/ Ledger!Move(a, "denied", "closed")
  <2>1. CASE approval[a].choice = "allow" BY <1>1, <2>1, StandingCases, MovesOne
  <2>2. CASE approval[a].choice # "allow" BY <1>1, <2>2, StandingCases, MovesOne
  <2> QED BY <2>1, <2>2
<1> QED BY <1>2 DEF Ledger!Next, Ledger!Spend, Ledger!Close

\* A sweep lapses the open requests it meets.
LEMMA ExpiredStep ==
  ASSUME ApprovalsTypeOK, NEW S, approval' = Expired(S), toolRuns' = toolRuns
  PROVE  Ledger!Next
<1> DEFINE L == {a \in ApprovalIds : a \in S /\ approval[a].status = "pending"}
<1>1. \A a \in L : approval[a].status = "pending" /\ approval'[a].status = "expired"
  BY DEF Expired, ApprovalsTypeOK, ApprovalRow
<1>2. \A a \in ApprovalIds \ L : approval'[a] = approval[a]
  BY DEF Expired
<1>3. /\ \A a \in L : StandingOf(approval[a]) = "open" /\ StandingOf(approval'[a]) = "lapsed"
      /\ \A a \in ApprovalIds \ L : StandingOf(approval'[a]) = StandingOf(approval[a])
  BY <1>1, <1>2, StandingCases
<1> HIDE DEF L
<1>4. L \in SUBSET ApprovalIds BY DEF L
<1>5. Ledger!Lapse(L) BY <1>3, <1>4 DEF Ledger!Lapse, Standing
<1> QED BY <1>4, <1>5 DEF Ledger!Next

\* An execution uses a grant that is spent and not used yet.
LEMMA RanStep ==
  ASSUME NEW a \in ApprovalIds, UNCHANGED approval, toolRuns' = Ran(a), toolRuns[a] = 0,
         approval[a].status = "consumed", approval[a].choice = "allow"
  PROVE  Ledger!Next
<1>1. StandingOf(approval[a]) = "spent" BY StandingCases
<1>2. Ledger!Use(a) BY <1>1 DEF Ledger!Use, Standing, Ran
<1> QED BY <1>2 DEF Ledger!Next

\* Time, and steps that leave the table alone, are no step of the ledger.
LEMMA StutterStep ==
  ASSUME ApprovalsTypeOK, approval' = Aged \/ approval' = approval, toolRuns' = toolRuns
  PROVE  UNCHANGED Ledger!vars
<1>1. \A a \in ApprovalIds : approval'[a].status = approval[a].status
                             /\ approval'[a].choice = approval[a].choice
  BY DEF Aged, ApprovalsTypeOK, ApprovalRow
<1>2. \A a \in ApprovalIds : StandingOf(approval'[a]) = StandingOf(approval[a])
  BY <1>1 DEF StandingOf
<1> QED BY <1>2 DEF Ledger!vars, Standing

\* A parked call spends the user's grant as the ledger allows: every step of the turn that
\* parks it, of the user, and of the turn that continues it is one step of ApprovalLedger or
\* none (direct_store.go, engine.go ContinueAfterApproval, approval.go).
THEOREM LedgerImplemented == Spec => ImplementsLedger
<1>1. Init => Ledger!Init
  BY DEF Init, ApprovalsInit, Ledger!Init, Standing, StandingOf
<1>2. TypeOK /\ CallInv /\ [Next]_vars => [Ledger!Next]_(Ledger!vars)
  <2> SUFFICES ASSUME TypeOK, CallInv, [Next]_vars
      PROVE  Ledger!Next \/ UNCHANGED Ledger!vars
    OBVIOUS
  <2>0. ApprovalsTypeOK BY DEF TypeOK
  <2>1. ASSUME NEW t \in Owners, NEW a \in ApprovalIds, CreateRequest(t, a)
        PROVE  Ledger!Next
    BY <2>0, <2>1, CreatedStep DEF CreateRequest
  <2>2. ASSUME NEW a \in ApprovalIds, ExpireOrphan(a) PROVE Ledger!Next
    BY <2>0, <2>2, ExpiredStep DEF ExpireOrphan
  <2>3. ASSUME NEW k \in Turns, NEW a \in ApprovalIds,
               ApplyReject(k, a) \/ \E option \in Options : Apply(k, a, option)
        PROVE  Ledger!Next
    BY <2>0, <2>3, DecidedStep DEF ApplyReject, Apply
  <2>4. ASSUME NEW k \in Turns, Consume(k) PROVE Ledger!Next
    <3>1. turn[k].req \in ApprovalIds BY <2>4 DEF Consume, CallInv, TurnKnowsDecision
    <3> QED BY <2>0, <2>4, <3>1, ConsumedStep DEF Consume
  <2>5. ASSUME NEW k \in Turns, Execute(k) PROVE Ledger!Next \/ UNCHANGED Ledger!vars
    <3>1. /\ turn[k].req \in ApprovalIds /\ toolRuns[turn[k].req] = 0
          /\ approval[turn[k].req].status = "consumed" /\ approval[turn[k].req].choice = "allow"
      BY <2>5 DEF Execute, CallInv, TurnKnowsDecision, NotYetRun
    <3>2. CASE toolRuns' = Ran(turn[k].req) BY <2>5, <3>1, <3>2, RanStep DEF Execute
    <3>3. CASE UNCHANGED toolRuns BY <2>0, <2>5, <3>3, StutterStep DEF Execute
    <3> QED BY <2>5, <3>2, <3>3 DEF Execute
  <2>6. ASSUME NEW k \in Turns,
               \/ Claim(k) \/ NothingToClaim(k) \/ GiveUp(k)
               \/ MarkConsumed(k) \/ MarkRejected(k) \/ MarkFailed(k)
        PROVE  UNCHANGED Ledger!vars
    BY <2>0, <2>6, StutterStep
       DEF Claim, NothingToClaim, GiveUp, MarkConsumed, MarkRejected, MarkFailed, MarkResolved
  <2>7. ASSUME Tick \/ Crash \/ UNCHANGED vars PROVE UNCHANGED Ledger!vars
    BY <2>0, <2>7, StutterStep DEF Tick, Crash, vars
  <2>8. ASSUME NEW a \in ApprovalIds, Park(a) PROVE UNCHANGED Ledger!vars
    BY <2>0, <2>8, StutterStep DEF Park
  <2> QED BY <2>1, <2>2, <2>3, <2>4, <2>5, <2>6, <2>7, <2>8 DEF Next, Continue
<1> QED BY <1>1, <1>2, TypeCorrect, CallInductive, PTL DEF Spec, ImplementsLedger, Ledger!Spec
=============================================================================
