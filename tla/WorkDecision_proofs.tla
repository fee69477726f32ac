------------------------ MODULE WorkDecision_proofs ------------------------
(***************************************************************************)
(* Proofs about WorkDecision, for every set of tasks, requests and resume  *)
(* handlers and every choice of the time-to-live constants.                *)
(***************************************************************************)
EXTENDS WorkDecision, TLAPS

\* A countdown stays one.
LEMMA DecType == \A n \in Nat : Dec(n) \in Nat
  BY DEF Dec

\* The row a delegation or a re-pause writes is well formed.
LEMMA PausedRowType ==
  ASSUME NEW cat \in Categories, NEW a \in ApprovalIds \cup {None}, NEW e \in Nat
  PROVE  PausedRow(cat, a, e) \in RowType
  BY TTLAssumption DEF PausedRow, RowType, Live

\* Claiming, releasing, settling and ageing keep a row well formed.
LEMMA RowStepType ==
  ASSUME NEW r \in RowType
  PROVE  /\ \A h \in Handlers : ClaimedBy(r, h) \in RowType
         /\ Unclaimed(r) \in RowType
         /\ \A status \in Settled : SettledAs(r, status) \in RowType
         /\ Older(r) \in RowType
<1>1. \A h \in Handlers : ClaimedBy(r, h) \in RowType
  BY TTLAssumption DEF ClaimedBy, RowType
<1>2. Unclaimed(r) \in RowType
  BY DEF Unclaimed, RowType
<1>3. \A status \in Settled : SettledAs(r, status) \in RowType
  BY TTLAssumption DEF SettledAs, RowType
<1>4. Older(r) \in RowType
  BY DecType DEF Older, RowType
<1> QED BY <1>1, <1>2, <1>3, <1>4

\* The sweep keeps rows well formed.
LEMMA SweptType ==
  ASSUME NEW r \in RowType
  PROVE  Swept(r) \in RowType
<1>1. ASSUME NEW s \in RowType PROVE ClaimCleared(s) \in RowType
  BY <1>1 DEF ClaimCleared, RowType
<1>2. ASSUME NEW s \in RowType PROVE Softened(s) \in RowType
  BY <1>2 DEF Softened, RowType, Live
<1>3. ASSUME NEW s \in RowType PROVE Hardened(s) \in RowType
  BY <1>3, RowStepType DEF Hardened, Settled
<1> QED BY <1>1, <1>2, <1>3 DEF Swept

\* Creating the request of a paused decision, deciding, consuming and expiring
\* requests keep the request table well formed.
LEMMA RequestForType ==
  ASSUME ApprovalsTypeOK,
         NEW t \in Tasks, NEW cat \in Categories, NEW a \in ApprovalIds \cup {None},
         RequestFor(t, cat, a)
  PROVE  approval' \in [ApprovalIds -> ApprovalRow]
<1>1. CASE Gated(cat)
  <2>1. HardTTL + 1 \in Nat BY TTLAssumption
  <2> QED BY <1>1, <2>1 DEF RequestFor, Created, ApprovalsTypeOK, ApprovalRow, ApprovalStatus, Tasks
<1>2. CASE ~ Gated(cat)
  BY <1>2 DEF RequestFor, ApprovalsTypeOK
<1> QED BY <1>1, <1>2

\* Expiring a row keeps its type.
LEMMA ExpiredType ==
  ASSUME ApprovalsTypeOK, NEW S
  PROVE  Expired(S) \in [ApprovalIds -> ApprovalRow]
  BY DEF Expired, ApprovalsTypeOK, ApprovalRow, ApprovalStatus

\* What a claim returns keeps the type of its row.
LEMMA ReturnType ==
  ASSUME TypeOK, NEW h \in Handlers, Return(h)
  PROVE  /\ handler' \in [Handlers -> HandlerType]
         /\ promise' \in [Handlers -> Nat]
         /\ UNCHANGED <<pauses, claims, toolRuns>>
  BY DEF Return, TypeOK, Idle, HandlerType, Categories

\* A handler that moves on with what it has learnt keeps its type.
LEMMA HandlerMoves ==
  ASSUME handler \in [Handlers -> HandlerType], NEW h \in Handlers, NEW r \in HandlerType,
         handler' = [handler EXCEPT ![h] = r]
  PROVE  handler' \in [Handlers -> HandlerType]
  OBVIOUS

\* Releasing a row keeps its type.
LEMMA ReleasedType ==
  ASSUME TypeOK, NEW h \in Handlers
  PROVE  Released(h) \in [Tasks -> RowType]
  BY RowStepType DEF Released, TypeOK

-----------------------------------------------------------------------------
\* Every variable keeps its type along every behaviour of the specification:
\* the rows, requests and handler states the code can produce.
THEOREM TypeCorrect == Spec => []TypeOK
<1>1. Init => TypeOK
  BY DEF Init, ApprovalsInit, TypeOK, ApprovalsTypeOK, ApprovalRow, ApprovalStatus, RowType,
         NoRow, HandlerType, Idle, Categories
<1>2. TypeOK /\ [Next]_vars => TypeOK'
  <2> SUFFICES ASSUME TypeOK, [Next]_vars PROVE TypeOK'
    OBVIOUS
  <2> USE DEF TypeOK, ApprovalsTypeOK
  <2>1. ASSUME NEW t \in Tasks, NEW a \in ApprovalIds \cup {None}, NEW cat \in Categories,
               NEW e \in 1 .. MaxEscalations, Put(t, cat, a, e)
        PROVE  TypeOK'
    <3>1. e \in Nat BY TTLAssumption
    <3>2. row' \in [Tasks -> RowType] BY <2>1, <3>1, PausedRowType DEF Put
    <3>3. approval' \in [ApprovalIds -> ApprovalRow] BY <2>1, RequestForType DEF Put
    <3> QED BY <2>1, <3>2, <3>3 DEF Put
  <2>2. ASSUME NEW t \in Tasks, NEW a \in ApprovalIds \cup {None}, PutFails(t, a)
        PROVE  TypeOK'
    <3>1. approval' \in [ApprovalIds -> ApprovalRow]
      BY <2>2, RequestForType DEF PutFails, Categories
    <3> QED BY <2>2, <3>1 DEF PutFails
  <2>3. ASSUME NEW h \in Handlers, NEW t \in Tasks, NEW ask \in ApprovalIds \cup {None},
               ClaimForResume(h, t, ask)
        PROVE  TypeOK'
    <3>1. row' \in [Tasks -> RowType]
      BY <2>3, RowStepType DEF ClaimForResume
    <3>2. handler' \in [Handlers -> HandlerType]
      BY <2>3 DEF ClaimForResume, RowType, HandlerType
    <3>3. promise' \in [Handlers -> Nat] /\ claims' \in Nat
      BY <2>3, TTLAssumption DEF ClaimForResume
    <3> QED BY <2>3, <3>1, <3>2, <3>3 DEF ClaimForResume
  <2>4. ASSUME NEW h \in Handlers, FactoryFails(h) \/ LoseOutcome(h) PROVE TypeOK'
    BY <2>4, ReturnType DEF FactoryFails, LoseOutcome
  <2>5. ASSUME NEW h \in Handlers, AwaitApproval(h) \/ InvalidDecision(h) PROVE TypeOK'
    BY <2>5, ReturnType, ReleasedType DEF AwaitApproval, InvalidDecision
  <2>6. ASSUME NEW h \in Handlers, ConsumeApproval(h) PROVE TypeOK'
    <3>1. handler[h].own \in ApprovalIds
      BY <2>6 DEF ConsumeApproval, CanConsume, HandlerType
    <3>2. approval' \in [ApprovalIds -> ApprovalRow]
      BY <2>6, <3>1 DEF ConsumeApproval, Consumed, ApprovalRow, ApprovalStatus
    <3>3. approval[handler[h].own].choice \in Options \cup {None}
      BY <3>1 DEF ApprovalRow, ApprovalStatus, Options
    <3>4. [handler[h] EXCEPT !.pc = "decided", !.verdict = approval[handler[h].own].choice]
            \in HandlerType
      BY <3>3 DEF HandlerType
    <3>5. handler' \in [Handlers -> HandlerType]
      BY <2>6, <3>4, HandlerMoves DEF ConsumeApproval
    <3> QED BY <2>6, <3>2, <3>5 DEF ConsumeApproval
  <2>7. ASSUME NEW h \in Handlers, NEW v \in Options, Decide(h, v) PROVE TypeOK'
    <3>1. [handler[h] EXCEPT !.pc = "decided", !.verdict = v] \in HandlerType BY DEF HandlerType
    <3>2. handler' \in [Handlers -> HandlerType] BY <2>7, <3>1, HandlerMoves DEF Decide
    <3> QED BY <2>7, <3>2 DEF Decide
  <2>8. ASSUME NEW h \in Handlers, Resume(h) PROVE TypeOK'
    <3>1. toolRuns' \in [ApprovalIds -> Nat] BY <2>8 DEF Resume, Ran
    <3>2. [handler[h] EXCEPT !.pc = "running"] \in HandlerType BY DEF HandlerType
    <3>3. handler' \in [Handlers -> HandlerType] BY <2>8, <3>2, HandlerMoves DEF Resume
    <3> QED BY <2>8, <3>1, <3>3 DEF Resume
  <2>9. ASSUME NEW h \in Handlers, FinalizeResolved(h) PROVE TypeOK'
    <3>1. "resolved" \in Settled BY DEF Settled
    <3>2. row' \in [Tasks -> RowType]
      BY <2>9, <3>1, RowStepType DEF FinalizeResolved
    <3> QED BY <2>9, <3>2, ReturnType DEF FinalizeResolved
  <2>10. ASSUME NEW h \in Handlers, NEW cat \in Categories, NEW a \in ApprovalIds \cup {None},
                NEW e \in 1 .. MaxEscalations, RequeuePaused(h, cat, a, e)
         PROVE  TypeOK'
    <3>1. e \in Nat BY TTLAssumption
    <3>2. row' \in [Tasks -> RowType]
      BY <2>10, <3>1, PausedRowType DEF RequeuePaused
    <3>3. handler' \in [Handlers -> HandlerType] /\ promise' \in [Handlers -> Nat]
      BY <2>10 DEF RequeuePaused, Idle, HandlerType, Categories
    <3>4. approval' \in [ApprovalIds -> ApprovalRow]
      <4>1. CASE handler[h].task \in Tasks
        BY <2>10, <4>1, RequestForType DEF RequeuePaused
      <4>2. CASE ~ Gated(cat)
        BY <2>10, <4>2 DEF RequeuePaused, RequestFor
      <4>3. CASE Gated(cat)
        <5>1. HardTTL + 1 \in Nat BY TTLAssumption
        <5>2. handler[h].task \in Owners \cup {None} BY DEF HandlerType, Tasks
        <5> QED BY <2>10, <4>3, <5>1, <5>2
              DEF RequeuePaused, RequestFor, Created, ApprovalRow, ApprovalStatus
      <4> QED BY <4>2, <4>3
    <3> QED BY <2>10, <3>2, <3>3, <3>4 DEF RequeuePaused
  <2>11. ASSUME NEW a \in ApprovalIds, Reject(a) \/ \E option \in Options : Approve(a, option)
         PROVE  TypeOK'
    BY <2>11 DEF Reject, Approve, RejectRequest, ApproveRequest, ApprovalRow, ApprovalStatus, Options
  <2>12. CASE ExpireOnce
    BY <2>12, SweptType, ExpiredType DEF ExpireOnce
  <2>17. ASSUME NEW h \in Handlers, NEW a \in ApprovalIds, RequeueFails(h, a) PROVE TypeOK'
    <3>1. RequestFor(handler[h].task, "tool_approval", a) /\ Return(h) /\ row' = row
      BY <2>17 DEF RequeueFails
    <3>2. HardTTL + 1 \in Nat /\ handler[h].task \in Owners \cup {None}
      BY TTLAssumption DEF HandlerType, Tasks
    <3>3. approval' \in [ApprovalIds -> ApprovalRow]
      BY <3>1, <3>2 DEF RequestFor, Gated, Created, ApprovalRow, ApprovalStatus
    <3> QED BY <3>1, <3>3, ReturnType
  <2>13. CASE ArchiveOnce
    <3>1. NoRow \in RowType BY DEF NoRow, RowType, Categories
    <3> QED BY <2>13, <3>1 DEF ArchiveOnce
  <2>14. CASE Tick
    <3>1. row' \in [Tasks -> RowType] BY <2>14, RowStepType DEF Tick
    <3>2. approval' \in [ApprovalIds -> ApprovalRow] BY <2>14, DecType DEF Tick, Aged, ApprovalRow
    <3>3. promise' \in [Handlers -> Nat] BY <2>14, DecType DEF Tick
    <3> QED BY <2>14, <3>1, <3>2, <3>3 DEF Tick
  <2>15. ASSUME Crash \/ \E t \in Tasks : CrashInExpireOnce(t) PROVE TypeOK'
    <3>1. Idle \in HandlerType BY DEF Idle, HandlerType, Categories
    <3>2. [h \in Handlers |-> Idle] \in [Handlers -> HandlerType] BY <3>1
    <3>3. CASE Crash BY <3>2, <3>3 DEF Crash
    <3>4. ASSUME NEW t \in Tasks, CrashInExpireOnce(t) PROVE TypeOK'
      <4>1. approval' \in [ApprovalIds -> ApprovalRow]
        BY <3>4, ExpiredType DEF CrashInExpireOnce
      <4> QED BY <3>2, <3>4, <4>1 DEF CrashInExpireOnce
    <3> QED BY <2>15, <3>3, <3>4
  <2>16. CASE UNCHANGED vars
    BY <2>16 DEF vars
  <2> QED
    BY <2>1, <2>2, <2>3, <2>4, <2>5, <2>6, <2>7, <2>8, <2>9, <2>10, <2>11, <2>12, <2>13,
       <2>14, <2>15, <2>16, <2>17 DEF Next, Delegate, HandlerStep, User, CleanupLoop
<1> QED BY <1>1, <1>2, PTL DEF Spec
-----------------------------------------------------------------------------
(* Consent: a grant authorises one execution, the one it was given for. *)

\* Steps that consume nothing and run nothing keep ConsentInv: consumed requests
\* stay as they are, and handlers either keep their state or are not past the
\* decision of a gated task.
LEMMA ConsentUntouched ==
  ASSUME TypeOK, ConsentInv, toolRuns' = toolRuns,
         \A a \in ApprovalIds :
           /\ approval'[a].status = "consumed" <=> approval[a].status = "consumed"
           /\ approval[a].status = "consumed" => approval'[a].choice = approval[a].choice,
         \A h \in Handlers :
           \/ handler'[h] = handler[h]
           \/ handler'[h].pc \notin {"decided", "running"}
           \/ ~ Gated(handler'[h].cat)
  PROVE  ConsentInv'
<1> USE DEF ConsentInv
<1>0. \A h \in Handlers : handler[h].own # None => handler[h].own \in ApprovalIds
  BY DEF TypeOK, HandlerType
<1>1. GrantSpentOnce' BY DEF GrantSpentOnce, TypeOK, ApprovalsTypeOK
<1>2. UnspentBeforeConsumption' BY DEF UnspentBeforeConsumption
<1>3. ConsentHeld' BY <1>0 DEF ConsentHeld
<1>4. VerdictUnused' BY <1>0 DEF VerdictUnused, ConsentHeld
<1>5. SoleConsumer' BY DEF SoleConsumer
<1> QED BY <1>1, <1>2, <1>3, <1>4, <1>5

\* What each request statement does to the consumed requests: nothing.
LEMMA CreatedKeepsConsumed ==
  ASSUME TypeOK, NEW t, NEW cat, NEW b, RequestFor(t, cat, b)
  PROVE  \A a \in ApprovalIds :
           /\ approval'[a].status = "consumed" <=> approval[a].status = "consumed"
           /\ approval[a].status = "consumed" => approval'[a].choice = approval[a].choice
  BY DEF RequestFor, Created, Unused, TypeOK, ApprovalsTypeOK, ApprovalRow

\* Expiring leaves a consumed row consumed.
LEMMA ExpiredKeepsConsumed ==
  ASSUME TypeOK, NEW S, approval' = Expired(S)
  PROVE  \A a \in ApprovalIds :
           /\ approval'[a].status = "consumed" <=> approval[a].status = "consumed"
           /\ approval[a].status = "consumed" => approval'[a].choice = approval[a].choice
  BY DEF Expired, TypeOK, ApprovalsTypeOK, ApprovalRow

\* The invariant that carries consent from the user's option to the tool call.
LEMMA ConsentInductive == Spec => []ConsentInv
<1>1. Init => ConsentInv
  BY DEF Init, ApprovalsInit, Idle, ConsentInv, GrantSpentOnce, UnspentBeforeConsumption,
         ConsentHeld, VerdictUnused, SoleConsumer, Gated
<1>2. TypeOK /\ ConsentInv /\ [Next]_vars => ConsentInv'
  <2> SUFFICES ASSUME TypeOK, ConsentInv, [Next]_vars PROVE ConsentInv'
    OBVIOUS
  <2>1. ASSUME NEW t \in Tasks, NEW a \in ApprovalIds \cup {None}, NEW cat \in Categories,
               NEW e \in 1 .. MaxEscalations, Put(t, cat, a, e)
        PROVE  ConsentInv'
    BY <2>1, CreatedKeepsConsumed, ConsentUntouched DEF Put
  <2>2. ASSUME NEW t \in Tasks, NEW a \in ApprovalIds \cup {None}, PutFails(t, a)
        PROVE  ConsentInv'
    BY <2>2, CreatedKeepsConsumed, ConsentUntouched DEF PutFails
  <2>3. ASSUME NEW h \in Handlers, NEW t \in Tasks, NEW ask \in ApprovalIds \cup {None},
               ClaimForResume(h, t, ask)
        PROVE  ConsentInv'
    <3>1. \A g \in Handlers : handler'[g] = handler[g] \/ handler'[g].pc = "claimed"
      BY <2>3 DEF ClaimForResume, TypeOK
    <3> QED BY <2>3, <3>1, ConsentUntouched DEF ClaimForResume
  <2>4. ASSUME NEW h \in Handlers,
               FactoryFails(h) \/ LoseOutcome(h) \/ AwaitApproval(h) \/ InvalidDecision(h)
                 \/ FinalizeResolved(h)
        PROVE  ConsentInv'
    <3>1. Return(h) /\ approval' = approval
      BY <2>4 DEF FactoryFails, LoseOutcome, AwaitApproval, InvalidDecision, FinalizeResolved
    <3>2. \A g \in Handlers : handler'[g] = handler[g] \/ handler'[g].pc = "idle"
      BY <3>1 DEF Return, TypeOK, Idle
    <3> QED BY <3>1, <3>2, ConsentUntouched DEF Return
  <2>5. ASSUME NEW h \in Handlers, ConsumeApproval(h) PROVE ConsentInv'
    <3> DEFINE b == handler[h].own
    <3>1. /\ b \in ApprovalIds
          /\ approval[b].status \in {"approved", "rejected"}
      BY <2>5 DEF ConsumeApproval, CanConsume, Resumable, TypeOK, HandlerType
    <3>2. \A a \in ApprovalIds : /\ a # b => approval'[a] = approval[a]
                                 /\ approval'[a].choice = approval[a].choice
                                 /\ approval'[b].status = "consumed"
      BY <2>5, <3>1 DEF ConsumeApproval, Consumed, TypeOK, ApprovalsTypeOK, ApprovalRow
    <3>3. /\ \A g \in Handlers \ {h} : handler'[g] = handler[g]
          /\ handler'[h].pc = "decided"
          /\ handler'[h].own = b
          /\ handler'[h].verdict = approval[b].choice
          /\ handler'[h].cat = handler[h].cat
      BY <2>5 DEF ConsumeApproval, TypeOK, HandlerType
    <3>4. toolRuns' = toolRuns /\ toolRuns[b] = 0
      BY <2>5, <3>1 DEF ConsumeApproval, ConsentInv, UnspentBeforeConsumption
    <3>5. \A g \in Handlers :
            /\ handler[g].pc \in {"decided", "running"} /\ Gated(handler[g].cat)
            => handler[g].own # b /\ handler[g].own \in ApprovalIds
      BY <3>1 DEF ConsentInv, ConsentHeld, TypeOK, HandlerType
    <3>6. GrantSpentOnce'
      BY <3>1, <3>2, <3>4 DEF ConsentInv, GrantSpentOnce
    <3>7. UnspentBeforeConsumption'
      BY <3>1, <3>2, <3>4 DEF ConsentInv, UnspentBeforeConsumption
    <3>8. ConsentHeld'
      BY <3>1, <3>2, <3>3, <3>5, NoneAssumption DEF ConsentInv, ConsentHeld
    <3>9. VerdictUnused'
      BY <3>1, <3>2, <3>3, <3>4, <3>5 DEF ConsentInv, VerdictUnused
    <3>10. SoleConsumer'
      BY <3>3, <3>5 DEF ConsentInv, SoleConsumer
    <3> QED BY <3>6, <3>7, <3>8, <3>9, <3>10 DEF ConsentInv
  <2>6. ASSUME NEW h \in Handlers, NEW v \in Options, Decide(h, v) PROVE ConsentInv'
    <3>1. \A g \in Handlers : handler'[g] = handler[g] \/ ~ Gated(handler'[g].cat)
      BY <2>6 DEF Decide, TypeOK, HandlerType
    <3> QED BY <2>6, <3>1, ConsentUntouched DEF Decide
  <2>7. ASSUME NEW h \in Handlers, Resume(h) PROVE ConsentInv'
    <3> DEFINE b == handler[h].own
    <3>1. /\ \A g \in Handlers \ {h} : handler'[g] = handler[g]
          /\ handler'[h].pc = "running"
          /\ handler'[h].own = b
          /\ handler'[h].cat = handler[h].cat
          /\ handler[h].pc = "decided"
      BY <2>7 DEF Resume, TypeOK, HandlerType
    <3>2. approval' = approval BY <2>7 DEF Resume
    <3>3. ConsentHeld' BY <3>1, <3>2 DEF ConsentInv, ConsentHeld
    <3>4. SoleConsumer' BY <3>1 DEF ConsentInv, SoleConsumer
    <3>5. CASE toolRuns' = toolRuns
      <4>1. GrantSpentOnce' BY <3>2, <3>5 DEF ConsentInv, GrantSpentOnce
      <4>2. UnspentBeforeConsumption' BY <3>2, <3>5 DEF ConsentInv, UnspentBeforeConsumption
      <4>3. VerdictUnused' BY <3>1, <3>2, <3>5 DEF ConsentInv, VerdictUnused
      <4> QED BY <3>3, <3>4, <4>1, <4>2, <4>3 DEF ConsentInv
    <3>6. CASE toolRuns' # toolRuns
      <4>1. Gated(handler[h].cat) /\ handler[h].verdict = "allow" /\ toolRuns' = Ran(b)
        BY <2>7, <3>6 DEF Resume, RunsTool
      <4>2. /\ b \in ApprovalIds
            /\ approval[b].status = "consumed"
            /\ approval[b].choice = "allow"
            /\ toolRuns[b] = 0
        BY <3>1, <4>1 DEF ConsentInv, ConsentHeld, VerdictUnused, TypeOK, HandlerType
      <4>3. \A a \in ApprovalIds : toolRuns'[a] = IF a = b THEN 1 ELSE toolRuns[a]
        BY <4>1, <4>2 DEF Ran, TypeOK, ApprovalsTypeOK
      <4>4. GrantSpentOnce' BY <3>2, <4>2, <4>3 DEF ConsentInv, GrantSpentOnce
      <4>5. UnspentBeforeConsumption'
        BY <3>2, <4>2, <4>3 DEF ConsentInv, UnspentBeforeConsumption
      <4>6. \A g \in Handlers \ {h} :
              handler[g].pc = "decided" /\ Gated(handler[g].cat) =>
                handler[g].own # b /\ handler[g].own \in ApprovalIds
        BY <3>1, <4>1 DEF ConsentInv, SoleConsumer, ConsentHeld, TypeOK, HandlerType
      <4>7. VerdictUnused'
        BY <3>1, <3>2, <4>3, <4>6 DEF ConsentInv, VerdictUnused
      <4> QED BY <3>3, <3>4, <4>4, <4>5, <4>7 DEF ConsentInv
    <3> QED BY <3>5, <3>6
  <2>8. ASSUME NEW h \in Handlers, NEW cat \in Categories, NEW a \in ApprovalIds \cup {None},
               NEW e \in 1 .. MaxEscalations, RequeuePaused(h, cat, a, e)
        PROVE  ConsentInv'
    <3>1. \A g \in Handlers : handler'[g] = handler[g] \/ handler'[g].pc = "idle"
      BY <2>8 DEF RequeuePaused, TypeOK, Idle
    <3> QED BY <2>8, <3>1, CreatedKeepsConsumed, ConsentUntouched DEF RequeuePaused
  <2>16. ASSUME NEW h \in Handlers, NEW a \in ApprovalIds, RequeueFails(h, a) PROVE ConsentInv'
    <3>1. \A g \in Handlers : handler'[g] = handler[g] \/ handler'[g].pc = "idle"
      BY <2>16 DEF RequeueFails, Return, TypeOK, Idle
    <3> QED BY <2>16, <3>1, CreatedKeepsConsumed, ConsentUntouched DEF RequeueFails, Return
  <2>9. ASSUME NEW a \in ApprovalIds, Reject(a) \/ \E option \in Options : Approve(a, option)
        PROVE  ConsentInv'
    <3>1. \A b \in ApprovalIds :
            /\ approval'[b].status = "consumed" <=> approval[b].status = "consumed"
            /\ approval[b].status = "consumed" => approval'[b].choice = approval[b].choice
      BY <2>9 DEF Reject, Approve, RejectRequest, ApproveRequest, Decidable, TypeOK,
                  ApprovalsTypeOK, ApprovalRow
    <3>2. toolRuns' = toolRuns /\ handler' = handler
      BY <2>9 DEF Reject, Approve
    <3> QED BY <3>1, <3>2, ConsentUntouched
  <2>10. CASE ExpireOnce
    BY <2>10, ExpiredKeepsConsumed, ConsentUntouched DEF ExpireOnce
  <2>11. CASE ArchiveOnce
    BY <2>11, ConsentUntouched DEF ArchiveOnce
  <2>12. CASE Tick
    <3>1. \A a \in ApprovalIds : /\ approval'[a].status = approval[a].status
                                 /\ approval'[a].choice = approval[a].choice
      BY <2>12 DEF Tick, Aged, TypeOK, ApprovalsTypeOK, ApprovalRow
    <3> QED BY <2>12, <3>1, ConsentUntouched DEF Tick
  <2>13. CASE Crash
    BY <2>13, ConsentUntouched DEF Crash, Idle
  <2>14. ASSUME NEW t \in Tasks, CrashInExpireOnce(t) PROVE ConsentInv'
    BY <2>14, ExpiredKeepsConsumed, ConsentUntouched DEF CrashInExpireOnce, Idle
  <2>15. CASE UNCHANGED vars
    BY <2>15, ConsentUntouched DEF vars
  <2> QED
    BY <2>1, <2>2, <2>3, <2>4, <2>5, <2>6, <2>7, <2>8, <2>9, <2>10, <2>11, <2>12, <2>13,
       <2>14, <2>15, <2>16 DEF Next, Delegate, HandlerStep, User, CleanupLoop
<1> QED BY <1>1, <1>2, TypeCorrect, PTL DEF Spec

\* Each tool call that ran under an approval request ran once, and the request
\* had been allowed by the user and consumed (resume_tool.go, approval.go).
THEOREM ConsentCorrect == Spec => []GrantSpentOnce
<1>1. ConsentInv => GrantSpentOnce
  BY DEF ConsentInv
<1> QED BY <1>1, ConsentInductive, PTL

-----------------------------------------------------------------------------
(* Records: what the table says of a settled decision is what happened to it. *)

\* Steps that neither grant a claim nor resolve a row keep RecordInv.
LEMMA RecordKept ==
  ASSUME TypeOK, RecordInv,
         \A t \in Tasks :
           /\ row'[t].claim # None =>
                /\ row'[t].claim = row[t].claim /\ row'[t].status \in Live
                /\ row'[t].cat = row[t].cat /\ row'[t].appr = row[t].appr
           /\ row'[t].status = "resolved" =>
                /\ row[t].status = "resolved"
                /\ row'[t].cat = row[t].cat /\ row'[t].appr = row[t].appr,
         \A h \in Handlers :
           \/ handler'[h].pc = "idle"
           \/ /\ handler[h].pc # "idle"
              /\ handler'[h].task = handler[h].task
              /\ handler'[h].cat = handler[h].cat
              /\ handler'[h].own = handler[h].own,
         \A a \in ApprovalIds : approval[a].status = "consumed" => approval'[a].status = "consumed"
  PROVE  RecordInv'
<1> USE DEF RecordInv
<1>1. ClaimsOnLiveRows' BY DEF ClaimsOnLiveRows
<1>2. SnapshotFresh' BY HandlersAssumption DEF SnapshotFresh, Busy
<1>3. \A t \in Tasks : row[t].appr # None => row[t].appr \in ApprovalIds
  BY DEF TypeOK, RowType
<1>4. ResolvedNeedsConsent' BY <1>3 DEF ResolvedNeedsConsent
<1> QED BY <1>1, <1>2, <1>4

\* What the sweep may do to a row.
LEMMA SweptRecord ==
  ASSUME NEW r \in RowType, r.claim # None => r.status \in Live
  PROVE  /\ Swept(r).cat = r.cat /\ Swept(r).appr = r.appr
         /\ Swept(r).claim # None => Swept(r).claim = r.claim /\ Swept(r).status \in Live
         /\ Swept(r).status = "resolved" => r.status = "resolved"
<1> DEFINE Good(s) == /\ s \in RowType /\ s.cat = r.cat /\ s.appr = r.appr
                      /\ s.claim # None => s.claim = r.claim /\ s.status \in Live
                      /\ s.status = "resolved" => r.status = "resolved"
<1>1. Good(ClaimCleared(r)) BY DEF ClaimCleared, RowType
<1>2. ASSUME NEW s, Good(s) PROVE Good(Softened(s))
  BY <1>2 DEF Softened, RowType, Live
<1>3. ASSUME NEW s, Good(s) PROVE Good(Hardened(s))
  <2>1. CASE ~ TimedOut(s) BY <1>3, <2>1 DEF Hardened
  <2>2. CASE TimedOut(s)
    <3> DEFINE st == IF FailClosed(s.cat) THEN "auto_rejected" ELSE "expired_open"
    <3>1. Hardened(s) = SettledAs(s, st) BY <2>2 DEF Hardened
    <3>2. st \in Settled /\ st # "resolved" BY DEF Settled
    <3>3. SettledAs(s, st) \in RowType BY <1>3, <3>2, RowStepType
    <3>4. /\ SettledAs(s, st).cat = s.cat /\ SettledAs(s, st).appr = s.appr
          /\ SettledAs(s, st).claim = None /\ SettledAs(s, st).status = st
      BY <1>3 DEF SettledAs, RowType
    <3> QED BY <1>3, <3>1, <3>2, <3>3, <3>4
  <2> QED BY <2>1, <2>2
<1> QED BY <1>1, <1>2, <1>3 DEF Swept

\* Claims are on live rows, their snapshots fresh, and a resolved row shows consumed consent.
LEMMA RecordInductive == Spec => []RecordInv
<1>1. Init => RecordInv
  BY DEF Init, RecordInv, ClaimsOnLiveRows, SnapshotFresh, ResolvedNeedsConsent, NoRow, Idle, Busy
<1>2. TypeOK /\ ConsentInv /\ RecordInv /\ [Next]_vars => RecordInv'
  <2> SUFFICES ASSUME TypeOK, ConsentInv, RecordInv, [Next]_vars PROVE RecordInv'
    OBVIOUS
  <2>0. \A t \in Tasks : row[t].claim # None => row[t].status \in Live
    BY DEF RecordInv, ClaimsOnLiveRows
  <2>1. ASSUME NEW t \in Tasks, NEW a \in ApprovalIds \cup {None}, NEW cat \in Categories,
               NEW e \in 1 .. MaxEscalations, Put(t, cat, a, e)
        PROVE  RecordInv'
    <3>1. \A u \in Tasks : \/ row'[u] = row[u]
                           \/ row'[u].claim = None /\ row'[u].status = "pending"
      BY <2>1 DEF Put, PausedRow, TypeOK
    <3> QED BY <2>0, <2>1, <3>1, CreatedKeepsConsumed, RecordKept DEF Put
  <2>2. ASSUME NEW t \in Tasks, NEW a \in ApprovalIds \cup {None}, PutFails(t, a)
        PROVE  RecordInv'
    BY <2>0, <2>2, CreatedKeepsConsumed, RecordKept DEF PutFails
  <2>3. ASSUME NEW h \in Handlers, NEW t \in Tasks, NEW ask \in ApprovalIds \cup {None},
               ClaimForResume(h, t, ask)
        PROVE  RecordInv'
    <3>1. /\ \A u \in Tasks \ {t} : row'[u] = row[u]
          /\ row'[t].claim = h /\ row'[t].status = row[t].status
          /\ row'[t].cat = row[t].cat /\ row'[t].appr = row[t].appr
          /\ row[t].status \in Live
      BY <2>3 DEF ClaimForResume, ClaimedBy, TypeOK, RowType
    <3>2. /\ \A g \in Handlers \ {h} : handler'[g] = handler[g]
          /\ handler'[h].task = t /\ handler'[h].cat = row[t].cat
          /\ handler'[h].own = row[t].appr
          /\ approval' = approval
      BY <2>3 DEF ClaimForResume, TypeOK
    <3>3. ClaimsOnLiveRows' BY <3>1 DEF RecordInv, ClaimsOnLiveRows
    <3>4. SnapshotFresh' BY <3>1, <3>2 DEF RecordInv, SnapshotFresh, Busy
    <3>5. ResolvedNeedsConsent' BY <3>1, <3>2 DEF RecordInv, ResolvedNeedsConsent, Live
    <3> QED BY <3>3, <3>4, <3>5 DEF RecordInv
  <2>4. ASSUME NEW h \in Handlers, Return(h), approval' = approval,
               row' = row \/ row' = Released(h)
        PROVE  RecordInv'
    <3>1. \A g \in Handlers : handler'[g] = handler[g] \/ handler'[g].pc = "idle"
      BY <2>4 DEF Return, TypeOK, Idle
    <3>2. \A u \in Tasks : \/ row'[u] = row[u]
                           \/ /\ row'[u].claim = None
                              /\ row'[u].status = row[u].status
                              /\ row'[u].cat = row[u].cat /\ row'[u].appr = row[u].appr
      <4>1. CASE row' = row BY <4>1
      <4>2. CASE row' = Released(h) /\ row[handler[h].task].claim # h
        BY <4>2 DEF Released
      <4>3. CASE row' = Released(h) /\ row[handler[h].task].claim = h
        BY <4>3 DEF Released, Unclaimed, TypeOK, RowType
      <4> QED BY <2>4, <4>1, <4>2, <4>3
    <3> QED BY <2>0, <2>4, <3>1, <3>2, RecordKept
  <2>5. ASSUME NEW h \in Handlers, ConsumeApproval(h) PROVE RecordInv'
    <3>1. /\ \A a \in ApprovalIds : approval[a].status = "consumed" =>
               approval'[a].status = "consumed"
          /\ row' = row
      BY <2>5 DEF ConsumeApproval, Consumed, TypeOK, ApprovalsTypeOK, ApprovalRow
    <3>2. \A g \in Handlers : \/ handler'[g] = handler[g]
                              \/ /\ handler[g].pc = "claimed"
                                 /\ handler'[g].task = handler[g].task
                                 /\ handler'[g].cat = handler[g].cat
                                 /\ handler'[g].own = handler[g].own
      BY <2>5 DEF ConsumeApproval, TypeOK, HandlerType
    <3> QED BY <2>0, <3>1, <3>2, RecordKept
  <2>6. ASSUME NEW h \in Handlers, Resume(h) \/ \E v \in Options : Decide(h, v)
        PROVE  RecordInv'
    <3>1. approval' = approval /\ row' = row BY <2>6 DEF Resume, Decide
    <3>2. \A g \in Handlers : \/ handler'[g] = handler[g]
                              \/ /\ handler[g].pc # "idle"
                                 /\ handler'[g].task = handler[g].task
                                 /\ handler'[g].cat = handler[g].cat
                                 /\ handler'[g].own = handler[g].own
      BY <2>6 DEF Resume, Decide, TypeOK, HandlerType
    <3> QED BY <2>0, <3>1, <3>2, RecordKept
  <2>7. ASSUME NEW h \in Handlers, FinalizeResolved(h) PROVE RecordInv'
    <3> DEFINE t == handler[h].task
    <3>1. t \in Tasks BY <2>7 DEF FinalizeResolved, RecordInv, SnapshotFresh, Busy
    <3>2. CASE row[t].claim # h BY <2>4, <2>7, <3>2 DEF FinalizeResolved
    <3>3. CASE row[t].claim = h
      <4>1. /\ \A u \in Tasks \ {t} : row'[u] = row[u]
            /\ row'[t].claim = None /\ row'[t].cat = row[t].cat /\ row'[t].appr = row[t].appr
        BY <2>7, <3>1, <3>3 DEF FinalizeResolved, SettledAs, TypeOK, RowType
      <4>2. row[t].cat = handler[h].cat /\ row[t].appr = handler[h].own
        BY <2>7, <3>3 DEF FinalizeResolved, RecordInv, SnapshotFresh, Busy
      <4>3. Gated(row[t].cat) =>
              row[t].appr # None /\ approval[row[t].appr].status = "consumed"
        BY <2>7, <4>2 DEF FinalizeResolved, ConsentInv, ConsentHeld
      <4>4. \A g \in Handlers : handler'[g] = handler[g] \/ handler'[g].pc = "idle"
        BY <2>7 DEF FinalizeResolved, Return, TypeOK, Idle
      <4>5. ClaimsOnLiveRows' BY <4>1 DEF RecordInv, ClaimsOnLiveRows
      <4>6. SnapshotFresh' BY <3>1, <4>1, <4>4, HandlersAssumption DEF RecordInv, SnapshotFresh, Busy
      <4>7. approval' = approval BY <2>7 DEF FinalizeResolved
      <4>8. ResolvedNeedsConsent'
        BY <4>1, <4>3, <4>7 DEF RecordInv, ResolvedNeedsConsent
      <4> QED BY <4>5, <4>6, <4>8 DEF RecordInv
    <3> QED BY <3>2, <3>3
  <2>8. ASSUME NEW h \in Handlers, NEW cat \in Categories, NEW a \in ApprovalIds \cup {None},
               NEW e \in 1 .. MaxEscalations, RequeuePaused(h, cat, a, e)
        PROVE  RecordInv'
    <3>1. \A g \in Handlers : handler'[g] = handler[g] \/ handler'[g].pc = "idle"
      BY <2>8 DEF RequeuePaused, TypeOK, Idle
    <3>2. \A u \in Tasks : \/ row'[u] = row[u]
                           \/ row'[u].claim = None /\ row'[u].status = "pending"
      BY <2>8 DEF RequeuePaused, PausedRow, TypeOK
    <3> QED BY <2>0, <2>8, <3>1, <3>2, CreatedKeepsConsumed, RecordKept DEF RequeuePaused
  <2>9. ASSUME NEW a \in ApprovalIds, Reject(a) \/ \E option \in Options : Approve(a, option)
        PROVE  RecordInv'
    <3>1. \A b \in ApprovalIds : approval[b].status = "consumed" =>
            approval'[b].status = "consumed"
      BY <2>9 DEF Reject, Approve, RejectRequest, ApproveRequest, Decidable, TypeOK,
                  ApprovalsTypeOK, ApprovalRow
    <3>2. row' = row /\ handler' = handler
      BY <2>9 DEF Reject, Approve
    <3> QED BY <2>0, <3>1, <3>2, RecordKept
  <2>10. CASE ExpireOnce
    <3>1. \A u \in Tasks : row[u] \in RowType /\ row'[u] = Swept(row[u])
      BY <2>10 DEF ExpireOnce, TypeOK
    <3>2. \A u \in Tasks :
            /\ row'[u].cat = row[u].cat /\ row'[u].appr = row[u].appr
            /\ row'[u].claim # None => row'[u].claim = row[u].claim /\ row'[u].status \in Live
            /\ row'[u].status = "resolved" => row[u].status = "resolved"
      BY <2>0, <3>1, SweptRecord
    <3> QED BY <2>10, <3>2, ExpiredKeepsConsumed, RecordKept DEF ExpireOnce
  <2>11. CASE ArchiveOnce
    <3>1. \A u \in Tasks : \/ row'[u] = row[u]
                           \/ row'[u].claim = None /\ row'[u].status = "none"
      BY <2>11 DEF ArchiveOnce, NoRow
    <3>2. handler' = handler /\ approval' = approval BY <2>11 DEF ArchiveOnce
    <3>3. \A u \in Tasks :
            /\ row'[u].claim # None =>
                 /\ row'[u].claim = row[u].claim /\ row'[u].status \in Live
                 /\ row'[u].cat = row[u].cat /\ row'[u].appr = row[u].appr
            /\ row'[u].status = "resolved" =>
                 /\ row[u].status = "resolved"
                 /\ row'[u].cat = row[u].cat /\ row'[u].appr = row[u].appr
      BY <2>0, <3>1
    <3> QED BY <3>2, <3>3, RecordKept
  <2>12. CASE Tick
    <3>1. \A a \in ApprovalIds : approval'[a].status = approval[a].status
      BY <2>12 DEF Tick, Aged, TypeOK, ApprovalsTypeOK, ApprovalRow
    <3>2. \A u \in Tasks : /\ row'[u].claim = row[u].claim /\ row'[u].status = row[u].status
                           /\ row'[u].cat = row[u].cat /\ row'[u].appr = row[u].appr
      BY <2>12 DEF Tick, Older, TypeOK, RowType
    <3> QED BY <2>0, <2>12, <3>1, <3>2, RecordKept DEF Tick
  <2>13. ASSUME Crash \/ \E t \in Tasks : CrashInExpireOnce(t) PROVE RecordInv'
    <3>1. \A a \in ApprovalIds : approval[a].status = "consumed" => approval'[a].status = "consumed"
      BY <2>13, ExpiredKeepsConsumed DEF Crash, CrashInExpireOnce
    <3>2. row' = row /\ handler' = [h \in Handlers |-> Idle]
      BY <2>13 DEF Crash, CrashInExpireOnce
    <3>3. \A h \in Handlers : handler'[h].pc = "idle" BY <3>2 DEF Idle
    <3> QED BY <2>0, <3>1, <3>2, <3>3, RecordKept
  <2>14. CASE UNCHANGED vars
    BY <2>0, <2>14, RecordKept DEF vars
  <2>16. ASSUME NEW h \in Handlers, NEW a \in ApprovalIds, RequeueFails(h, a) PROVE RecordInv'
    <3>1. \A g \in Handlers : handler'[g] = handler[g] \/ handler'[g].pc = "idle"
      BY <2>16 DEF RequeueFails, Return, TypeOK, Idle
    <3> QED BY <2>0, <2>16, <3>1, CreatedKeepsConsumed, RecordKept DEF RequeueFails
  <2>15. ASSUME NEW h \in Handlers,
                FactoryFails(h) \/ LoseOutcome(h) \/ AwaitApproval(h) \/ InvalidDecision(h)
         PROVE  RecordInv'
    BY <2>4, <2>15 DEF FactoryFails, LoseOutcome, AwaitApproval, InvalidDecision
  <2> QED
    BY <2>1, <2>2, <2>3, <2>5, <2>6, <2>7, <2>8, <2>9, <2>10, <2>11, <2>12, <2>13,
       <2>14, <2>15, <2>16 DEF Next, Delegate, HandlerStep, User, CleanupLoop
<1> QED BY <1>1, <1>2, TypeCorrect, ConsentInductive, PTL DEF Spec

\* A decision that needs the user's consent is recorded as resolved only when the
\* request the row shows was consumed (pending.go FinalizeResolved).
THEOREM RecordCorrect == Spec => []ResolvedNeedsConsent
<1>1. RecordInv => ResolvedNeedsConsent
  BY DEF RecordInv
<1> QED BY <1>1, RecordInductive, PTL

\* A settled row carries no claim, so that neither a resume nor the sweep touches it.
LEMMA SettledRow ==
  ASSUME TypeOK, RecordInv, NEW t \in Tasks, row[t].status \in Settled
  PROVE  /\ row[t].claim = None /\ row[t].status \notin Live
         /\ \A h \in Handlers : row[t].claim # h
         /\ Swept(row[t]) = row[t]
<1>1. row[t].status \notin Live BY DEF Settled, Live
<1>2. row[t].claim = None BY <1>1 DEF RecordInv, ClaimsOnLiveRows
<1>3. \A h \in Handlers : row[t].claim # h BY <1>2, HandlersAssumption
<1>4. ClaimCleared(row[t]) = row[t] BY <1>2 DEF ClaimCleared
<1>5. Softened(row[t]) = row[t] BY <1>1 DEF Softened, Live
<1>6. Hardened(row[t]) = row[t] BY <1>1 DEF Hardened, TimedOut
<1> QED BY <1>1, <1>2, <1>3, <1>4, <1>5, <1>6 DEF Swept

\* A settled decision stays as it was settled until it is archived or its task is parked
\* again: a late resume neither revives nor overwrites it (FinalizeResolved, RequeuePaused).
THEOREM SettledStay == Spec => SettledStays
<1> DEFINE A == \A t \in Tasks : row[t].status \in Settled =>
                  \/ row'[t].status = row[t].status /\ row'[t].appr = row[t].appr
                  \/ row[t].arch = 0 /\ row'[t] = NoRow
                  \/ \E cat \in Categories, a \in ApprovalIds \cup {None}, e \in 1 .. MaxEscalations :
                       Put(t, cat, a, e)
<1>1. TypeOK /\ RecordInv /\ [Next]_vars => [A]_vars
  <2> DEFINE Stays(t) == row'[t].status = row[t].status /\ row'[t].appr = row[t].appr
  <2> SUFFICES ASSUME TypeOK, RecordInv, [Next]_vars, NEW t \in Tasks, row[t].status \in Settled
               PROVE  \/ Stays(t)
                      \/ row[t].arch = 0 /\ row'[t] = NoRow
                      \/ \E cat \in Categories, a \in ApprovalIds \cup {None}, e \in 1 .. MaxEscalations :
                           Put(t, cat, a, e)
    OBVIOUS
  <2>0. row \in [Tasks -> RowType] /\ row[t] \in RowType BY DEF TypeOK
  <2>1. ASSUME NEW u \in Tasks, NEW cat \in Categories, NEW a \in ApprovalIds \cup {None},
               NEW e \in 1 .. MaxEscalations, Put(u, cat, a, e)
        PROVE  Stays(t) \/ Put(t, cat, a, e)
    <3>1. CASE u = t BY <2>1, <3>1
    <3>2. CASE u # t BY <2>0, <2>1, <3>2 DEF Put
    <3> QED BY <3>1, <3>2
  <2>2. ASSUME NEW h \in Handlers, NEW u \in Tasks, NEW ask, ClaimForResume(h, u, ask) PROVE Stays(t)
    <3>1. u # t BY <2>2, SettledRow DEF ClaimForResume
    <3> QED BY <2>0, <2>2, <3>1 DEF ClaimForResume
  <2>3. ASSUME NEW h \in Handlers, row' = Released(h) PROVE Stays(t)
    <3>1. row[t].claim # h BY SettledRow
    <3> QED BY <2>0, <2>3, <3>1 DEF Released
  <2>4. ASSUME NEW h \in Handlers, FinalizeResolved(h) PROVE Stays(t)
    <3>1. row[t].claim # h BY SettledRow
    <3> QED BY <2>0, <2>4, <3>1 DEF FinalizeResolved
  <2>5. ASSUME NEW h \in Handlers, NEW cat, NEW a, NEW e, RequeuePaused(h, cat, a, e) PROVE Stays(t)
    <3>1. row[t].claim # h BY SettledRow
    <3> QED BY <2>0, <2>5, <3>1 DEF RequeuePaused
  <2>6. CASE ExpireOnce BY <2>6, SettledRow DEF ExpireOnce
  <2>7. CASE ArchiveOnce
    <3>1. row'[t] = IF row[t].arch = 0 THEN NoRow ELSE row[t] BY <2>7 DEF ArchiveOnce
    <3> QED BY <3>1
  <2>8. CASE Tick
    <3>1. row'[t] = Older(row[t]) BY <2>8 DEF Tick
    <3> QED BY <2>0, <3>1 DEF Older, RowType
  <2>9. CASE row' = row BY <2>9
  <2>10. ASSUME NEW h \in Handlers, HandlerStep(h) PROVE Stays(t)
    <3>1. CASE AwaitApproval(h) \/ InvalidDecision(h)
      BY <2>3, <3>1 DEF AwaitApproval, InvalidDecision
    <3> QED
      BY <2>2, <2>4, <2>5, <2>9, <2>10, <3>1
      DEF HandlerStep, FactoryFails, ConsumeApproval, Decide, Resume, LoseOutcome, RequeueFails
  <2>11. CASE \/ \E u \in Tasks, a \in ApprovalIds \cup {None} : PutFails(u, a)
              \/ User \/ Crash \/ UNCHANGED vars
              \/ \E u \in Tasks : CrashInExpireOnce(u)
    BY <2>9, <2>11 DEF PutFails, User, Reject, Approve, Crash, CrashInExpireOnce, vars
  <2> QED BY <2>1, <2>6, <2>7, <2>8, <2>10, <2>11 DEF Next, Delegate, CleanupLoop
<1> QED BY <1>1, TypeCorrect, RecordInductive, PTL DEF Spec, SettledStays
-----------------------------------------------------------------------------
(* Leases: a claim is exclusive for its whole time-to-live. *)

\* The sweep leaves a row under an active claim open and claimed.
LEMMA SweptActive ==
  ASSUME NEW r \in RowType, r.claim # None, r.lease > 0, r.status \in Live
  PROVE  Swept(r).claim = r.claim /\ Swept(r).lease = r.lease /\ Swept(r).status \in Live
<1>1. ClaimCleared(r) = r BY DEF ClaimCleared, RowType
<1>2. /\ Softened(r) \in RowType
      /\ Softened(r).claim = r.claim
      /\ Softened(r).lease = r.lease
      /\ Softened(r).status \in Live
  BY DEF Softened, RowType, Live, Active
<1>3. Hardened(Softened(r)) = Softened(r)
  BY <1>2 DEF Hardened, TimedOut, Active
<1> QED BY <1>1, <1>2, <1>3 DEF Swept

\* Steps that grant no claim and let no time pass: a handler that still counts on
\* its claim finds the row as it was.
LEMMA LeaseKept ==
  ASSUME RecordInv, LeaseHonoured,
         \A h \in Handlers :
           \/ handler'[h].pc = "idle"
           \/ promise'[h] = 0
           \/ /\ handler[h].pc # "idle"
              /\ handler'[h].task = handler[h].task
              /\ promise'[h] = promise[h]
              /\ LET r == row[handler[h].task]
                     s == row'[handler[h].task]
                 IN  handler[h].task \in Tasks /\ r.claim = h /\ r.lease > 0 /\ r.status \in Live =>
                       s.claim = r.claim /\ s.lease = r.lease /\ s.status \in Live
  PROVE  LeaseHonoured'
<1> SUFFICES ASSUME NEW h \in Handlers, handler'[h].pc # "idle", promise'[h] > 0
             PROVE  /\ row'[handler'[h].task].claim = h
                    /\ row'[handler'[h].task].lease = promise'[h]
                    /\ row'[handler'[h].task].status \in Live
  BY DEF LeaseHonoured, Busy
<1>1. /\ handler[h].pc # "idle"
      /\ handler'[h].task = handler[h].task
      /\ promise'[h] = promise[h]
  OBVIOUS
<1>2. handler[h].task \in Tasks
  BY <1>1 DEF RecordInv, SnapshotFresh, Busy
<1>3. LET r == row[handler[h].task] IN
      r.claim = h /\ r.lease = promise[h] /\ r.status \in Live
  BY <1>1 DEF LeaseHonoured, Busy
<1> QED BY <1>1, <1>2, <1>3

\* A resume call keeps the claim it drew until its lease runs out, against every
\* other call, the sweep and late handlers (pending.go).
THEOREM LeaseCorrect == Spec => []LeaseHonoured
<1>1. Init => LeaseHonoured
  BY DEF Init, Idle, LeaseHonoured, Busy
<1>2. TypeOK /\ RecordInv /\ LeaseHonoured /\ [Next]_vars => LeaseHonoured'
  <2> SUFFICES ASSUME TypeOK, RecordInv, LeaseHonoured, [Next]_vars PROVE LeaseHonoured'
    OBVIOUS
  <2>0. \A g \in Handlers : handler[g].pc # "idle" => handler[g].task \in Tasks
    BY DEF RecordInv, SnapshotFresh, Busy
  <2>1. ASSUME NEW t \in Tasks, NEW a \in ApprovalIds \cup {None}, NEW cat \in Categories,
               NEW e \in 1 .. MaxEscalations, Put(t, cat, a, e)
        PROVE  LeaseHonoured'
    <3>1. /\ handler' = handler
          /\ \A g \in Handlers : promise'[g] = IF handler[g].task = t THEN 0 ELSE promise[g]
          /\ \A u \in Tasks \ {t} : row'[u] = row[u]
      BY <2>1 DEF Put, TypeOK
    <3> QED BY <3>1, LeaseKept
  <2>2. ASSUME NEW t \in Tasks, NEW a \in ApprovalIds \cup {None}, PutFails(t, a)
        PROVE  LeaseHonoured'
    BY <2>2, LeaseKept DEF PutFails
  <2>3. ASSUME NEW h \in Handlers, NEW t \in Tasks, NEW ask \in ApprovalIds \cup {None},
               ClaimForResume(h, t, ask)
        PROVE  LeaseHonoured'
    <3>1. /\ handler'[h].task = t /\ promise'[h] = ClaimTTL
          /\ row'[t].claim = h /\ row'[t].lease = ClaimTTL /\ row'[t].status \in Live
      BY <2>3 DEF ClaimForResume, ClaimedBy, TypeOK, RowType
    <3>2. /\ \A g \in Handlers \ {h} : handler'[g] = handler[g] /\ promise'[g] = promise[g]
          /\ \A u \in Tasks \ {t} : row'[u] = row[u]
      BY <2>3 DEF ClaimForResume, TypeOK
    <3>3. \A g \in Handlers \ {h} :
            handler[g].pc # "idle" /\ promise[g] > 0 => handler[g].task # t
      BY <2>3, HandlersAssumption DEF ClaimForResume, Active, LeaseHonoured, Busy
    <3> QED BY <2>0, <3>1, <3>2, <3>3 DEF LeaseHonoured, Busy
  <2>4. ASSUME NEW h \in Handlers,
               handler' = [handler EXCEPT ![h] = Idle],
               promise' = [promise EXCEPT ![h] = 0],
               \A t \in Tasks : row[t].claim # h => row'[t] = row[t]
        PROVE  LeaseHonoured'
    <3>1. handler'[h].pc = "idle" BY <2>4 DEF TypeOK, Idle
    <3>2. \A g \in Handlers \ {h} : handler'[g] = handler[g] /\ promise'[g] = promise[g]
      BY <2>4 DEF TypeOK
    <3>3. \A g \in Handlers \ {h} : row[handler[g].task].claim = g /\ handler[g].task \in Tasks
            => row'[handler[g].task] = row[handler[g].task]
      BY <2>4
    <3> QED BY <3>1, <3>2, <3>3, LeaseKept
  <2>5. ASSUME NEW h \in Handlers,
               FactoryFails(h) \/ LoseOutcome(h) \/ AwaitApproval(h) \/ InvalidDecision(h)
        PROVE  LeaseHonoured'
    <3>1. Return(h) /\ (row' = row \/ row' = Released(h))
      BY <2>5 DEF FactoryFails, LoseOutcome, AwaitApproval, InvalidDecision
    <3>2. \A t \in Tasks : row[t].claim # h => row'[t] = row[t]
      BY <3>1 DEF Released, TypeOK
    <3> QED BY <2>4, <3>1, <3>2 DEF Return
  <2>6. ASSUME NEW h \in Handlers,
               ConsumeApproval(h) \/ Resume(h) \/ \E v \in Options : Decide(h, v)
        PROVE  LeaseHonoured'
    <3>1. row' = row /\ promise' = promise
      BY <2>6 DEF ConsumeApproval, Resume, Decide
    <3>2. \A g \in Handlers : \/ handler'[g] = handler[g]
                              \/ /\ handler[g].pc # "idle"
                                 /\ handler'[g].task = handler[g].task
      BY <2>6 DEF ConsumeApproval, Resume, Decide, TypeOK, HandlerType
    <3> QED BY <3>1, <3>2, LeaseKept
  <2>7. ASSUME NEW h \in Handlers, FinalizeResolved(h) PROVE LeaseHonoured'
    <3>1. \A t \in Tasks : row[t].claim # h => row'[t] = row[t]
      BY <2>7 DEF FinalizeResolved, TypeOK
    <3> QED BY <2>4, <2>7, <3>1 DEF FinalizeResolved, Return
  <2>8. ASSUME NEW h \in Handlers, NEW cat \in Categories, NEW a \in ApprovalIds \cup {None},
               NEW e \in 1 .. MaxEscalations, RequeuePaused(h, cat, a, e)
        PROVE  LeaseHonoured'
    <3>1. \A t \in Tasks : row[t].claim # h => row'[t] = row[t]
      BY <2>8 DEF RequeuePaused, TypeOK
    <3> QED BY <2>4, <2>8, <3>1 DEF RequeuePaused
  <2>15. ASSUME NEW h \in Handlers, NEW a \in ApprovalIds, RequeueFails(h, a)
         PROVE  LeaseHonoured'
    BY <2>4, <2>15 DEF RequeueFails, Return
  <2>9. ASSUME NEW a \in ApprovalIds, Reject(a) \/ \E option \in Options : Approve(a, option)
        PROVE  LeaseHonoured'
    BY <2>9, LeaseKept DEF Reject, Approve
  <2>10. CASE ExpireOnce
    <3>1. \A u \in Tasks : row[u] \in RowType /\ row'[u] = Swept(row[u])
      BY <2>10 DEF ExpireOnce, TypeOK
    <3>2. \A u \in Tasks : row[u].claim # None /\ row[u].lease > 0 /\ row[u].status \in Live =>
            /\ row'[u].claim = row[u].claim /\ row'[u].lease = row[u].lease
            /\ row'[u].status \in Live
      BY <3>1, SweptActive
    <3>3. handler' = handler /\ promise' = promise BY <2>10 DEF ExpireOnce
    <3> QED BY <3>2, <3>3, HandlersAssumption, LeaseKept
  <2>11. CASE ArchiveOnce
    <3>1. \A u \in Tasks : row[u].status \in Live => row'[u] = row[u]
      BY <2>11 DEF ArchiveOnce, Live, Settled
    <3>2. handler' = handler /\ promise' = promise BY <2>11 DEF ArchiveOnce
    <3> QED BY <3>1, <3>2, LeaseKept
  <2>12. CASE Tick
    <3>1. \A u \in Tasks : /\ row'[u].claim = row[u].claim
                           /\ row'[u].status = row[u].status
                           /\ row'[u].lease = Dec(row[u].lease)
      BY <2>12 DEF Tick, Older, TypeOK, RowType
    <3>2. handler' = handler /\ \A g \in Handlers : promise'[g] = Dec(promise[g])
      BY <2>12 DEF Tick
    <3>3. \A g \in Handlers : promise[g] \in Nat BY DEF TypeOK
    <3>4. \A g \in Handlers : promise'[g] > 0 => promise[g] > 0
      BY <3>2, <3>3 DEF Dec
    <3> QED BY <2>0, <3>1, <3>2, <3>4 DEF LeaseHonoured, Busy
  <2>13. ASSUME Crash \/ \E t \in Tasks : CrashInExpireOnce(t) PROVE LeaseHonoured'
    <3>1. handler' = [h \in Handlers |-> Idle] BY <2>13 DEF Crash, CrashInExpireOnce
    <3>2. \A h \in Handlers : handler'[h].pc = "idle" BY <3>1 DEF Idle
    <3> QED BY <3>2, LeaseKept
  <2>14. CASE UNCHANGED vars
    BY <2>14, LeaseKept DEF vars
  <2> QED
    BY <2>1, <2>2, <2>3, <2>5, <2>6, <2>7, <2>8, <2>9, <2>10, <2>11, <2>12, <2>13, <2>14,
       <2>15 DEF Next, Delegate, HandlerStep, User, CleanupLoop
<1> QED BY <1>1, <1>2, TypeCorrect, RecordInductive, PTL DEF Spec
-----------------------------------------------------------------------------
(* Deadlines: a row and the request it shows run out together. *)

\* Steps that create no request and let no time pass keep the deadlines together.
LEMMA DeadlinesKept ==
  ASSUME TypeOK, DeadlineInv,
         \A t \in Tasks :
           /\ row'[t].appr # None => row'[t].appr = row[t].appr /\ row'[t].hard = row[t].hard
           /\ row'[t].status = "auto_rejected" => row'[t].hard = 0,
         \A a \in ApprovalIds : approval[a].status # "absent" =>
           approval'[a].status # "absent" /\ approval'[a].left = approval[a].left
  PROVE  DeadlineInv'
<1>1. \A t \in Tasks : row[t].appr # None => row[t].appr \in ApprovalIds
  BY DEF TypeOK, RowType
<1>2. DeadlinesTogether' BY <1>1 DEF DeadlineInv, DeadlinesTogether
<1>3. RejectedByTimeout' BY DEF RejectedByTimeout
<1> QED BY <1>2, <1>3 DEF DeadlineInv

\* A request that is created leaves those there are alone.
LEMMA CreatedKeepsDeadlines ==
  ASSUME TypeOK, NEW t, NEW cat, NEW b, RequestFor(t, cat, b)
  PROVE  \A a \in ApprovalIds : approval[a].status # "absent" => approval'[a] = approval[a]
  BY DEF RequestFor, Created, Unused, TypeOK, ApprovalsTypeOK

\* The statements on decided and expired requests leave their deadlines alone.
LEMMA ExpiredKeepsDeadlines ==
  ASSUME TypeOK, NEW S, approval' = Expired(S)
  PROVE  \A a \in ApprovalIds : approval[a].status # "absent" =>
           approval'[a].status # "absent" /\ approval'[a].left = approval[a].left
  BY DEF Expired, TypeOK, ApprovalsTypeOK, ApprovalRow

\* Put and RequeuePaused give a row and its request the same time to live.
LEMMA PausedTogether ==
  ASSUME TypeOK, DeadlineInv, NEW t \in Tasks, NEW cat, NEW a \in ApprovalIds \cup {None}, NEW e,
         RequestFor(t, cat, a), row' = row \/ row' = [row EXCEPT ![t] = PausedRow(cat, a, e)]
  PROVE  DeadlineInv'
<1>1. \A b \in ApprovalIds : approval[b].status # "absent" => approval'[b] = approval[b]
  BY CreatedKeepsDeadlines
<1>2. CASE row' = row
  BY <1>1, <1>2, DeadlinesKept DEF DeadlineInv, RejectedByTimeout
<1>3. CASE row' = [row EXCEPT ![t] = PausedRow(cat, a, e)]
  <2>1. /\ row'[t].appr = a /\ row'[t].hard = HardTTL /\ row'[t].status = "pending"
        /\ \A u \in Tasks \ {t} : row'[u] = row[u]
    BY <1>3 DEF TypeOK, PausedRow
  <2>2. a # None => approval'[a].status = "pending" /\ approval'[a].left = HardTTL + 1
    BY DEF RequestFor, Created, TypeOK, ApprovalsTypeOK
  <2>3. \A u \in Tasks : row[u].appr # None => row[u].appr \in ApprovalIds
    BY DEF TypeOK, RowType
  <2>4. DeadlinesTogether'
    BY <1>1, <2>1, <2>2, <2>3, TTLAssumption DEF DeadlineInv, DeadlinesTogether
  <2>5. RejectedByTimeout' BY <2>1 DEF DeadlineInv, RejectedByTimeout
  <2> QED BY <2>4, <2>5 DEF DeadlineInv
<1> QED BY <1>2, <1>3

\* A claim, its release and a resolution leave the deadline and the request of a row alone.
LEMMA HandledRow ==
  ASSUME NEW r \in RowType, NEW h
  PROVE  /\ ClaimedBy(r, h).appr = r.appr /\ ClaimedBy(r, h).hard = r.hard
         /\ ClaimedBy(r, h).status = r.status
         /\ Unclaimed(r).appr = r.appr /\ Unclaimed(r).hard = r.hard /\ Unclaimed(r).status = r.status
         /\ SettledAs(r, "resolved").appr = r.appr /\ SettledAs(r, "resolved").hard = r.hard
         /\ SettledAs(r, "resolved").status = "resolved"
  BY DEF ClaimedBy, Unclaimed, SettledAs, RowType

\* The sweep rejects a row only when its hard deadline has passed.
LEMMA SweptDeadline ==
  ASSUME NEW r \in RowType, r.status = "auto_rejected" => r.hard = 0
  PROVE  /\ Swept(r).appr = r.appr /\ Swept(r).hard = r.hard
         /\ Swept(r).status = "auto_rejected" => Swept(r).hard = 0
<1> DEFINE Good(s) == /\ s \in RowType /\ s.appr = r.appr /\ s.hard = r.hard
                      /\ s.status = "auto_rejected" => s.hard = 0
<1>1. Good(ClaimCleared(r)) BY DEF ClaimCleared, RowType
<1>2. ASSUME NEW s, Good(s) PROVE Good(Softened(s))
  BY <1>2 DEF Softened, RowType, Live
<1>3. ASSUME NEW s, Good(s)
      PROVE  /\ Hardened(s).appr = s.appr /\ Hardened(s).hard = s.hard
             /\ Hardened(s).status = "auto_rejected" => Hardened(s).hard = 0
  <2>1. CASE ~ TimedOut(s) BY <1>3, <2>1 DEF Hardened
  <2>2. CASE TimedOut(s)
    <3>1. s.hard = 0 BY <2>2 DEF TimedOut
    <3>2. \A st : SettledAs(s, st).appr = s.appr /\ SettledAs(s, st).hard = s.hard
      BY <1>3 DEF SettledAs, RowType
    <3> QED BY <2>2, <3>1, <3>2 DEF Hardened
  <2> QED BY <2>1, <2>2
<1> QED BY <1>1, <1>2, <1>3 DEF Swept

\* The deadlines of a row and its request stay together, whatever is paused, claimed,
\* resumed, decided, swept or lost meanwhile.
LEMMA DeadlineInductive == Spec => []DeadlineInv
<1>1. Init => DeadlineInv
  BY DEF Init, DeadlineInv, DeadlinesTogether, RejectedByTimeout, NoRow
<1>2. TypeOK /\ DeadlineInv /\ [Next]_vars => DeadlineInv'
  <2> SUFFICES ASSUME TypeOK, DeadlineInv, [Next]_vars PROVE DeadlineInv'
    OBVIOUS
  <2>0. \A t \in Tasks : row[t] \in RowType /\ (row[t].status = "auto_rejected" => row[t].hard = 0)
    BY DEF TypeOK, DeadlineInv, RejectedByTimeout
  <2>1. ASSUME Delegate PROVE DeadlineInv'
    <3>1. PICK t \in Tasks, a \in ApprovalIds \cup {None} :
            \/ \E cat \in Categories, e \in 1 .. MaxEscalations : Put(t, cat, a, e)
            \/ PutFails(t, a)
      BY <2>1 DEF Delegate
    <3> QED BY <3>1, PausedTogether DEF Put, PutFails
  <2>2. ASSUME NEW h \in Handlers, NEW t \in Tasks, NEW ask, ClaimForResume(h, t, ask)
        PROVE  DeadlineInv'
    BY <2>0, <2>2, HandledRow, DeadlinesKept DEF ClaimForResume, TypeOK
  <2>3. ASSUME NEW h \in Handlers, row' = row \/ row' = Released(h), UNCHANGED approval
        PROVE  DeadlineInv'
    <3>1. \A u \in Tasks : row'[u] \in {row[u], Unclaimed(row[u])}
      BY <2>3 DEF Released, TypeOK
    <3> QED BY <2>0, <2>3, <3>1, HandledRow, DeadlinesKept
  <2>4. ASSUME NEW h \in Handlers,
               \/ FactoryFails(h) \/ LoseOutcome(h) \/ AwaitApproval(h) \/ InvalidDecision(h)
               \/ Resume(h) \/ \E v \in Options : Decide(h, v)
        PROVE  DeadlineInv'
    BY <2>3, <2>4 DEF FactoryFails, LoseOutcome, AwaitApproval, InvalidDecision, Resume, Decide
  <2>5. ASSUME NEW h \in Handlers, ConsumeApproval(h) PROVE DeadlineInv'
    <3>1. \A a \in ApprovalIds : approval[a].status # "absent" =>
            approval'[a].status # "absent" /\ approval'[a].left = approval[a].left
      BY <2>5 DEF ConsumeApproval, Consumed, TypeOK, ApprovalsTypeOK, ApprovalRow
    <3> QED BY <2>0, <2>5, <3>1, DeadlinesKept DEF ConsumeApproval
  <2>6. ASSUME NEW h \in Handlers, FinalizeResolved(h) PROVE DeadlineInv'
    <3>1. \A u \in Tasks : row'[u] \in {row[u], SettledAs(row[u], "resolved")}
      BY <2>6 DEF FinalizeResolved, TypeOK
    <3> QED BY <2>0, <2>6, <3>1, HandledRow, DeadlinesKept DEF FinalizeResolved
  <2>7. ASSUME NEW h \in Handlers, NEW cat \in Categories, NEW a \in ApprovalIds \cup {None},
               NEW e \in 1 .. MaxEscalations, RequeuePaused(h, cat, a, e)
        PROVE  DeadlineInv'
    <3> DEFINE t == handler[h].task
    <3>1. /\ RequestFor(t, cat, a)
          /\ row' = row \/ (row' = [row EXCEPT ![t] = PausedRow(cat, a, e)] /\ row[t].claim = h)
      BY <2>7 DEF RequeuePaused
    <3>2. CASE t \in Tasks BY <3>1, <3>2, PausedTogether
    <3>3. CASE t \notin Tasks
      <4>1. row' = row BY <3>1, <3>3 DEF TypeOK
      <4> QED BY <2>0, <3>1, <4>1, CreatedKeepsDeadlines, DeadlinesKept
    <3> QED BY <3>2, <3>3
  <2>8. ASSUME NEW h \in Handlers, NEW a \in ApprovalIds, RequeueFails(h, a) PROVE DeadlineInv'
    BY <2>0, <2>8, CreatedKeepsDeadlines, DeadlinesKept DEF RequeueFails
  <2>9. ASSUME User PROVE DeadlineInv'
    <3>1. \A b \in ApprovalIds : approval[b].status # "absent" =>
            approval'[b].status # "absent" /\ approval'[b].left = approval[b].left
      BY <2>9 DEF User, Reject, Approve, RejectRequest, ApproveRequest, Decidable, TypeOK,
                  ApprovalsTypeOK, ApprovalRow
    <3> QED BY <2>0, <2>9, <3>1, DeadlinesKept DEF User, Reject, Approve
  <2>10. CASE ExpireOnce
    <3>1. \A u \in Tasks : row'[u] = Swept(row[u]) BY <2>10 DEF ExpireOnce
    <3>2. \A u \in Tasks : /\ row'[u].appr = row[u].appr /\ row'[u].hard = row[u].hard
                           /\ row'[u].status = "auto_rejected" => row'[u].hard = 0
      BY <2>0, <3>1, SweptDeadline
    <3> QED BY <2>10, <3>2, ExpiredKeepsDeadlines, DeadlinesKept DEF ExpireOnce
  <2>11. CASE ArchiveOnce
    <3>1. \A u \in Tasks : row'[u] \in {row[u], NoRow} BY <2>11 DEF ArchiveOnce
    <3>2. NoRow.appr = None /\ NoRow.status = "none" BY DEF NoRow
    <3> QED BY <2>0, <2>11, <3>1, <3>2, DeadlinesKept DEF ArchiveOnce
  <2>12. CASE Tick
    <3>1. \A u \in Tasks : /\ row'[u].appr = row[u].appr /\ row'[u].status = row[u].status
                           /\ row'[u].hard = Dec(row[u].hard) /\ row[u].hard \in Nat
      BY <2>12 DEF Tick, Older, TypeOK, RowType
    <3>2. \A a \in ApprovalIds : /\ approval'[a].status = approval[a].status
                                 /\ approval'[a].left = Dec(approval[a].left) /\ approval[a].left \in Nat
      BY <2>12 DEF Tick, Aged, TypeOK, ApprovalsTypeOK, ApprovalRow
    <3>3. \A u \in Tasks : row[u].appr # None => row[u].appr \in ApprovalIds
      BY DEF TypeOK, RowType
    <3>4. \A m, n \in Nat : m <= n + 1 => Dec(m) <= Dec(n) + 1 BY DEF Dec
    <3>5. DeadlinesTogether' BY <3>1, <3>2, <3>3, <3>4 DEF DeadlineInv, DeadlinesTogether
    <3>6. RejectedByTimeout' BY <3>1 DEF DeadlineInv, RejectedByTimeout, Dec
    <3> QED BY <3>5, <3>6 DEF DeadlineInv
  <2>13. ASSUME NEW t \in Tasks, CrashInExpireOnce(t) PROVE DeadlineInv'
    BY <2>0, <2>13, ExpiredKeepsDeadlines, DeadlinesKept DEF CrashInExpireOnce
  <2>14. CASE Crash \/ UNCHANGED vars
    BY <2>0, <2>14, DeadlinesKept DEF Crash, vars
  <2> QED
    BY <2>1, <2>2, <2>4, <2>5, <2>6, <2>7, <2>8, <2>9, <2>10, <2>11, <2>12, <2>13, <2>14
    DEF Next, HandlerStep, CleanupLoop
<1> QED BY <1>1, <1>2, TypeCorrect, PTL DEF Spec

\* Nobody can approve the request of an auto-rejected row any more, from the next instant
\* on (pending.go ExpireOnce, approval.go decideRequest).
THEOREM AutoRejectCorrect == Spec => []AutoRejectClosesRequest
<1>1. DeadlineInv => AutoRejectClosesRequest
  BY DEF DeadlineInv, DeadlinesTogether, RejectedByTimeout, AutoRejectClosesRequest
<1> QED BY <1>1, DeadlineInductive, PTL
-----------------------------------------------------------------------------
(***************************************************************************)
(* What the statements on approval_requests are to the approval ledger, for *)
(* every set of requests: each is a step of ApprovalLedger or none.         *)
(***************************************************************************)

\* The standing of a request, by the status of its row.
LEMMA StandingCases ==
  ASSUME NEW r
  PROVE  /\ r.status = "absent" => StandingOf(r) = "unopened"
         /\ r.status = "pending" => StandingOf(r) = "open"
         /\ r.status = "expired" => StandingOf(r) = "lapsed"
         /\ r.status \in {"approved", "rejected"} =>
              StandingOf(r) = IF r.choice = "allow" THEN "granted" ELSE "denied"
         /\ r.status = "consumed" => StandingOf(r) = IF r.choice = "allow" THEN "spent" ELSE "closed"
  BY DEF StandingOf

\* A ledger step that moves one request.
LEMMA MovesOne ==
  ASSUME NEW a \in ApprovalIds, NEW from, NEW to,
         toolRuns' = toolRuns,
         StandingOf(approval[a]) = from, StandingOf(approval'[a]) = to,
         \A b \in ApprovalIds \ {a} : StandingOf(approval'[b]) = StandingOf(approval[b])
  PROVE  Ledger!Move(a, from, to)
  BY DEF Ledger!Move, Standing

\* A request that is created becomes open.
LEMMA CreatedStep ==
  ASSUME ApprovalsTypeOK, NEW a \in ApprovalIds, NEW t, NEW ttl,
         Unused(a), approval' = Created(a, t, ttl), toolRuns' = toolRuns
  PROVE  Ledger!Next
<1>1. /\ approval[a].status = "absent" /\ approval'[a].status = "pending"
      /\ \A b \in ApprovalIds \ {a} : approval'[b] = approval[b]
  BY DEF Created, Unused, ApprovalsTypeOK
<1>2. Ledger!Move(a, "unopened", "open")
  BY <1>1, StandingCases, MovesOne
<1> QED BY <1>2 DEF Ledger!Next, Ledger!Open

\* The user's decision grants or denies.
LEMMA DecidedStep ==
  ASSUME ApprovalsTypeOK, NEW a \in ApprovalIds, toolRuns' = toolRuns,
         RejectRequest(a) \/ \E option \in Options : ApproveRequest(a, option)
  PROVE  Ledger!Next
<1>1. /\ approval[a].status = "pending" /\ approval'[a].status \in {"approved", "rejected"}
      /\ \A b \in ApprovalIds \ {a} : approval'[b] = approval[b]
  BY DEF RejectRequest, ApproveRequest, Decidable, ApprovalsTypeOK, ApprovalRow
<1>2. Ledger!Move(a, "open", "granted") \/ Ledger!Move(a, "open", "denied")
  <2>1. CASE approval'[a].choice = "allow" BY <1>1, <2>1, StandingCases, MovesOne
  <2>2. CASE approval'[a].choice # "allow" BY <1>1, <2>2, StandingCases, MovesOne
  <2> QED BY <2>1, <2>2
<1> QED BY <1>2 DEF Ledger!Next, Ledger!Grant, Ledger!Deny

\* Consumption spends a grant or closes a denial.
LEMMA ConsumedStep ==
  ASSUME ApprovalsTypeOK, NEW a \in ApprovalIds, NEW t, toolRuns' = toolRuns,
         Resumable(a, t), approval' = Consumed(a)
  PROVE  Ledger!Next
<1>1. /\ approval[a].status \in {"approved", "rejected"} /\ approval'[a].status = "consumed"
      /\ approval'[a].choice = approval[a].choice
      /\ \A b \in ApprovalIds \ {a} : approval'[b] = approval[b]
  BY DEF Resumable, Consumed, ApprovalsTypeOK, ApprovalRow
<1>2. Ledger!Move(a, "granted", "spent") \/ Ledger!Move(a, "denied", "closed")
  <2>1. CASE approval[a].choice = "allow" BY <1>1, <2>1, StandingCases, MovesOne
  <2>2. CASE approval[a].choice # "allow" BY <1>1, <2>2, StandingCases, MovesOne
  <2> QED BY <2>1, <2>2
<1> QED BY <1>2 DEF Ledger!Next, Ledger!Spend, Ledger!Close

\* A sweep lapses the open requests it meets.
LEMMA ExpiredStep ==
  ASSUME ApprovalsTypeOK, NEW S, approval' = Expired(S), toolRuns' = toolRuns
  PROVE  Ledger!Next
<1> DEFINE L == {a \in ApprovalIds : a \in S /\ approval[a].status = "pending"}
<1>1. \A a \in L : approval[a].status = "pending" /\ approval'[a].status = "expired"
  BY DEF Expired, ApprovalsTypeOK, ApprovalRow
<1>2. \A a \in ApprovalIds \ L : approval'[a] = approval[a]
  BY DEF Expired
<1>3. /\ \A a \in L : StandingOf(approval[a]) = "open" /\ StandingOf(approval'[a]) = "lapsed"
      /\ \A a \in ApprovalIds \ L : StandingOf(approval'[a]) = StandingOf(approval[a])
  BY <1>1, <1>2, StandingCases
<1> HIDE DEF L
<1>4. L \in SUBSET ApprovalIds BY DEF L
<1>5. Ledger!Lapse(L) BY <1>3, <1>4 DEF Ledger!Lapse, Standing
<1> QED BY <1>4, <1>5 DEF Ledger!Next

\* An execution uses a grant that is spent and not used yet.
LEMMA RanStep ==
  ASSUME NEW a \in ApprovalIds, UNCHANGED approval, toolRuns' = Ran(a), toolRuns[a] = 0,
         approval[a].status = "consumed", approval[a].choice = "allow"
  PROVE  Ledger!Next
<1>1. StandingOf(approval[a]) = "spent" BY StandingCases
<1>2. Ledger!Use(a) BY <1>1 DEF Ledger!Use, Standing, Ran
<1> QED BY <1>2 DEF Ledger!Next

\* Time, and steps that leave the table alone, are no step of the ledger.
LEMMA StutterStep ==
  ASSUME ApprovalsTypeOK, approval' = Aged \/ approval' = approval, toolRuns' = toolRuns
  PROVE  UNCHANGED Ledger!vars
<1>1. \A a \in ApprovalIds : approval'[a].status = approval[a].status
                             /\ approval'[a].choice = approval[a].choice
  BY DEF Aged, ApprovalsTypeOK, ApprovalRow
<1>2. \A a \in ApprovalIds : StandingOf(approval'[a]) = StandingOf(approval[a])
  BY <1>1 DEF StandingOf
<1> QED BY <1>2 DEF Ledger!vars, Standing

\* A request that may be created for a pause opens in the ledger, or nothing happens to it.
LEMMA RequestForStep ==
  ASSUME ApprovalsTypeOK, NEW t, NEW cat, NEW a, RequestFor(t, cat, a), toolRuns' = toolRuns
  PROVE  Ledger!Next \/ UNCHANGED Ledger!vars
<1>1. CASE Gated(cat) BY <1>1, CreatedStep DEF RequestFor
<1>2. CASE ~ Gated(cat) BY <1>2, StutterStep DEF RequestFor
<1> QED BY <1>1, <1>2

\* A decided Work task spends the user's grant as the ledger allows: every step of
\* delegate_to_work, resume_work, the user and the cleanup loop is one step of ApprovalLedger
\* or none (pending.go, resume_tool.go, approval.go).
THEOREM LedgerImplemented == Spec => ImplementsLedger
<1>1. Init => Ledger!Init
  BY DEF Init, ApprovalsInit, Ledger!Init, Standing, StandingOf
<1>2. TypeOK /\ ConsentInv /\ [Next]_vars => [Ledger!Next]_(Ledger!vars)
  <2> SUFFICES ASSUME TypeOK, ConsentInv, [Next]_vars
      PROVE  Ledger!Next \/ UNCHANGED Ledger!vars
    OBVIOUS
  <2>0. ApprovalsTypeOK BY DEF TypeOK
  <2>1. ASSUME Delegate PROVE Ledger!Next \/ UNCHANGED Ledger!vars
    BY <2>0, <2>1, RequestForStep DEF Delegate, Put, PutFails
  <2>2. ASSUME NEW h \in Handlers, ConsumeApproval(h) PROVE Ledger!Next
    <3>1. handler[h].own \in ApprovalIds
      BY <2>2 DEF ConsumeApproval, CanConsume, TypeOK, HandlerType
    <3> QED BY <2>0, <2>2, <3>1, ConsumedStep DEF ConsumeApproval, CanConsume
  <2>3. ASSUME NEW h \in Handlers, Resume(h) PROVE Ledger!Next \/ UNCHANGED Ledger!vars
    <3>1. CASE UNCHANGED toolRuns BY <2>0, <2>3, <3>1, StutterStep DEF Resume
    <3>2. CASE RunsTool(h) /\ Gated(handler[h].cat) /\ toolRuns' = Ran(handler[h].own)
      <4>1. /\ handler[h].own \in ApprovalIds /\ toolRuns[handler[h].own] = 0
            /\ approval[handler[h].own].status = "consumed"
            /\ approval[handler[h].own].choice = "allow"
        BY <2>3, <3>2 DEF Resume, RunsTool, ConsentInv, ConsentHeld, VerdictUnused, TypeOK, HandlerType
      <4> QED BY <2>3, <3>2, <4>1, RanStep DEF Resume
    <3> QED BY <2>3, <3>1, <3>2 DEF Resume
  <2>4. ASSUME NEW h \in Handlers, NEW cat, NEW a, NEW e, RequeuePaused(h, cat, a, e)
        PROVE  Ledger!Next \/ UNCHANGED Ledger!vars
    BY <2>0, <2>4, RequestForStep DEF RequeuePaused
  <2>5. ASSUME NEW h \in Handlers, NEW a, RequeueFails(h, a)
        PROVE  Ledger!Next \/ UNCHANGED Ledger!vars
    BY <2>0, <2>5, RequestForStep DEF RequeueFails, Return
  <2>6. ASSUME NEW h \in Handlers,
               \/ \E t \in Tasks, ask \in ApprovalIds \cup {None} : ClaimForResume(h, t, ask)
               \/ FactoryFails(h) \/ AwaitApproval(h) \/ InvalidDecision(h)
               \/ \E v \in Options : Decide(h, v)
               \/ FinalizeResolved(h) \/ LoseOutcome(h)
        PROVE  UNCHANGED Ledger!vars
    <3>1. approval' = approval /\ toolRuns' = toolRuns
      BY <2>6 DEF ClaimForResume, FactoryFails, AwaitApproval, InvalidDecision, Decide,
                  FinalizeResolved, LoseOutcome, Return
    <3> QED BY <2>0, <3>1, StutterStep
  <2>7. ASSUME NEW h \in Handlers, HandlerStep(h) PROVE Ledger!Next \/ UNCHANGED Ledger!vars
    BY <2>2, <2>3, <2>4, <2>5, <2>6, <2>7 DEF HandlerStep
  <2>8. ASSUME User PROVE Ledger!Next
    BY <2>0, <2>8, DecidedStep DEF User, Reject, Approve
  <2>9. ASSUME ExpireOnce \/ \E t \in Tasks : CrashInExpireOnce(t) PROVE Ledger!Next
    BY <2>0, <2>9, ExpiredStep DEF ExpireOnce, CrashInExpireOnce
  <2>10. ASSUME ArchiveOnce \/ Tick \/ Crash \/ UNCHANGED vars PROVE UNCHANGED Ledger!vars
    BY <2>0, <2>10, StutterStep DEF ArchiveOnce, Tick, Crash, vars
  <2> QED BY <2>1, <2>7, <2>8, <2>9, <2>10 DEF Next, CleanupLoop
<1> QED BY <1>1, <1>2, TypeCorrect, ConsentInductive, PTL DEF Spec, ImplementsLedger, Ledger!Spec
=============================================================================
