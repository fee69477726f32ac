---------------------------- MODULE WorkDecision ----------------------------
(***************************************************************************)
(* A Work task that needs a decision is parked in the pending_decisions    *)
(* table (PendingRegistry, internal/work/pending.go) until Emotion resumes *)
(* it with the resume_work tool (internal/work/resume_tool.go).  Tool      *)
(* calls that need the user's consent are tied to an approval request      *)
(* (module Approvals).  A cleanup loop expires and archives rows           *)
(* (internal/app/work_service.go).                                         *)
(*                                                                         *)
(* The processes are: delegate_to_work calls (Put), resume_work handlers   *)
(* (one per element of Handlers), the user deciding requests, the cleanup  *)
(* loop, the clock and the crash of the whole process.  The registry's     *)
(* mutex and single SQL statements make each step below atomic; a handler  *)
(* is split where it leaves the registry or runs the Work runtime.         *)
(*                                                                         *)
(* Deadlines are countdowns: a TTL of n means "n more ticks"; the code's   *)
(* comparison `deadline <= now` is `countdown = 0`.                        *)
(***************************************************************************)
EXTENDS Approvals

CONSTANTS
  Handlers,        \* concurrent resume_work calls; also the claim ids they draw
  SoftTTL,         \* ticks until a pending row turns stale      (30 min)
  HardTTL,         \* ticks until a row is settled by timeout     (1 h)
  ClaimTTL,        \* ticks a resume claim is exclusive           (10 min)
  ArchiveTTL,      \* ticks until a settled row is archived       (24 h)
  MaxEscalations,  \* pauses one delegation may go through        (3)
  MaxPauses,       \* bound: rows written by Put and RequeuePaused in a run
  MaxClaims        \* bound: successful ClaimForResume calls in a run

ASSUME TTLAssumption ==
  /\ SoftTTL \in Nat /\ HardTTL \in Nat /\ ClaimTTL \in Nat /\ ArchiveTTL \in Nat
  /\ MaxEscalations \in Nat /\ MaxPauses \in Nat /\ MaxClaims \in Nat
ASSUME HandlersAssumption == None \notin Handlers

VARIABLES
  row,       \* row[t]: the pending_decisions row of task t
  handler,   \* handler[h]: the local state of resume_work call h
  promise,   \* history: ticks h may still count on its claim; 0 when over
  pauses,    \* rows written so far (bounded by MaxPauses)
  claims     \* claims granted so far (bounded by MaxClaims)

vars == <<row, handler, promise, pauses, claims, approval, toolRuns>>

Tasks == Owners

Live == {"pending", "stale"}
Settled == {"resolved", "auto_rejected", "expired_open"}

\* protocol.Cat*: what a paused task is waiting for.  "emotion_judgment" is
\* treated like "auto" by every function modelled here.
Categories == {"auto", "human_confirmation", "permission_escalation", "tool_approval"}

RowType == [status : {"none"} \cup Live \cup Settled,
            cat    : Categories,
            appr   : ApprovalIds \cup {None},
            esc    : Nat,
            soft   : Nat,
            hard   : Nat,
            arch   : Nat,
            claim  : Handlers \cup {None},
            lease  : Nat]

HandlerType == [pc      : {"idle", "claimed", "decided", "running"},
                task    : Tasks \cup {None},
                cat     : Categories,
                esc     : Nat,
                own     : ApprovalIds \cup {None},   \* the row's approval_request_id
                asked   : ApprovalIds \cup {None},   \* the call's approval_request_id
                verdict : Options \cup {None}]

\* Rows, requests, handlers and countdowns keep their types (pending_store.go, approval.go).
TypeOK ==
  /\ ApprovalsTypeOK
  /\ row \in [Tasks -> RowType]
  /\ handler \in [Handlers -> HandlerType]
  /\ promise \in [Handlers -> Nat]
  /\ pauses \in Nat
  /\ claims \in Nat

NoRow == [status |-> "none", cat |-> "auto", appr |-> None, esc |-> 0,
          soft |-> 0, hard |-> 0, arch |-> 0, claim |-> None, lease |-> 0]

Idle == [pc |-> "idle", task |-> None, cat |-> "auto", esc |-> 0,
         own |-> None, asked |-> None, verdict |-> None]

Init ==
  /\ ApprovalsInit
  /\ row = [t \in Tasks |-> NoRow]
  /\ handler = [h \in Handlers |-> Idle]
  /\ promise = [h \in Handlers |-> 0]
  /\ pauses = 0
  /\ claims = 0

-----------------------------------------------------------------------------
\* requiresApprovalRequest, shouldFailClosed, PendingToolCall # nil, hasActiveClaim
Gated(cat) == cat = "tool_approval"
FailClosed(cat) == cat # "auto"
HasPendingTool(cat) == cat \in {"permission_escalation", "tool_approval"}
Active(r) == r.claim # None /\ r.lease > 0

\* What the claim statements do to a row.
ClaimedBy(r, h) == [r EXCEPT !.claim = h, !.lease = ClaimTTL]
Unclaimed(r)    == [r EXCEPT !.claim = None, !.lease = 0]

\* Mutant: the report's own status is written instead of "resolved".
SettledAs_ReportStatus(r, status) ==
  [r EXCEPT !.status = IF status = "resolved" THEN "done" ELSE status,
            !.arch = ArchiveTTL, !.claim = None, !.lease = 0]

\* A row leaves the live states: it is unclaimed and waits for the archive.
SettledAs(r, status) ==
  [r EXCEPT !.status = status, !.arch = ArchiveTTL, !.claim = None, !.lease = 0]

\* Mutant: the soft and the hard time-to-live are swapped.
PausedRow_SwappedTTLs(cat, a, e) ==
  [status |-> "pending", cat |-> cat, appr |-> a, esc |-> e,
   soft |-> HardTTL, hard |-> SoftTTL, arch |-> 0, claim |-> None, lease |-> 0]

\* The row Put and RequeuePaused write: pending, unclaimed, fresh deadlines.
PausedRow(cat, a, e) ==
  [status |-> "pending", cat |-> cat, appr |-> a, esc |-> e,
   soft |-> SoftTTL, hard |-> HardTTL, arch |-> 0, claim |-> None, lease |-> 0]

\* Both create the approval request of a gated decision before they touch the row.
RequestFor(t, cat, a) ==
  IF Gated(cat)
  THEN a \in ApprovalIds /\ Unused(a) /\ approval' = Created(a, t, HardTTL)
  ELSE a = None /\ UNCHANGED approval

\* delegate_to_work parks the paused task, replacing whatever row the task id
\* already has.  MaxEscalations counts the runtime's own decisions too, so the
\* first pause may carry any escalation count up to it.
Put(t, cat, a, e) ==
  /\ pauses < MaxPauses
  /\ RequestFor(t, cat, a)
  /\ row' = [row EXCEPT ![t] = PausedRow(cat, a, e)]
  /\ promise' = [h \in Handlers |-> IF handler[h].task = t THEN 0 ELSE promise[h]]
  /\ pauses' = pauses + 1
  /\ UNCHANGED <<handler, claims, toolRuns>>

\* The insert of Put fails, or the process dies, after the request was created:
\* an orphan request.
PutFails(t, a) ==
  /\ pauses < MaxPauses
  /\ RequestFor(t, "tool_approval", a)
  /\ pauses' = pauses + 1
  /\ UNCHANGED <<row, handler, promise, claims, toolRuns>>

-----------------------------------------------------------------------------
(* resume_work *)

\* ClaimForResume grants the claim and hands out a snapshot of the row.  The
\* other outcomes (busy, expired, archived, missing) change nothing.
ClaimForResume(h, t, ask) ==
  /\ claims < MaxClaims
  /\ handler[h].pc = "idle"
  /\ row[t].status \in Live
  /\ ~ Active(row[t])
  /\ row' = [row EXCEPT ![t] = ClaimedBy(@, h)]
  /\ handler' = [handler EXCEPT ![h] =
                   [pc |-> "claimed", task |-> t, cat |-> row[t].cat, esc |-> row[t].esc,
                    own |-> row[t].appr, asked |-> ask, verdict |-> None]]
  /\ promise' = [promise EXCEPT ![h] = ClaimTTL]
  /\ claims' = claims + 1
  /\ UNCHANGED <<pauses, approval, toolRuns>>

\* The handler returns; its local state is gone.
Return(h) ==
  /\ handler' = [handler EXCEPT ![h] = Idle]
  /\ promise' = [promise EXCEPT ![h] = 0]
  /\ UNCHANGED <<pauses, claims, toolRuns>>

\* ReleaseClaim: only the claim this handler drew.
Released(h) ==
  LET t == handler[h].task IN
  IF row[t].claim = h THEN [row EXCEPT ![t] = Unclaimed(@)] ELSE row

\* runtimeFactory fails before the releasing defer is installed: the claim stays.
FactoryFails(h) ==
  /\ handler[h].pc = "claimed"
  /\ Return(h)
  /\ UNCHANGED <<row, approval>>

\* The call names the request the row waits for, and the user has decided it.
CanConsume(h) ==
  /\ handler[h].asked # None
  /\ handler[h].asked = handler[h].own
  /\ Resumable(handler[h].own, handler[h].task)

\* "awaiting_approval": the request cannot be consumed, or its transaction fails.
AwaitApproval(h) ==
  /\ handler[h].pc = "claimed"
  /\ Gated(handler[h].cat)
  /\ row' = Released(h)
  /\ Return(h)
  /\ UNCHANGED approval

\* consumeRequestForResume succeeds: the user's option becomes the decision.
ConsumeApproval(h) ==
  /\ handler[h].pc = "claimed"
  /\ Gated(handler[h].cat)
  /\ CanConsume(h)
  /\ approval' = Consumed(handler[h].own)
  /\ handler' = [handler EXCEPT ![h].pc = "decided",
                                ![h].verdict = approval[handler[h].own].choice]
  /\ UNCHANGED <<row, promise, pauses, claims, toolRuns>>

\* Ungated categories: Emotion's own decision, or an invalid one (missing
\* decision, wrong permission_scope_override), which releases the claim.
Decide(h, v) ==
  /\ handler[h].pc = "claimed"
  /\ ~ Gated(handler[h].cat)
  /\ handler' = [handler EXCEPT ![h].pc = "decided", ![h].verdict = v]
  /\ UNCHANGED <<row, promise, pauses, claims, approval, toolRuns>>

InvalidDecision(h) ==
  /\ handler[h].pc = "claimed"
  /\ ~ Gated(handler[h].cat)
  /\ row' = Released(h)
  /\ Return(h)
  /\ UNCHANGED approval

\* Runtime.Resume: the pending call runs unless the decision is the reject
\* option; the dispatcher still refuses it when the approval binding differs.
RunsTool(h) == HasPendingTool(handler[h].cat) /\ handler[h].verdict = "allow"

Resume(h) ==
  /\ handler[h].pc = "decided"
  /\ handler' = [handler EXCEPT ![h].pc = "running"]
  /\ \/ UNCHANGED toolRuns
     \/ /\ RunsTool(h)
        /\ Gated(handler[h].cat)
        /\ toolRuns' = Ran(handler[h].own)
  /\ UNCHANGED <<row, promise, pauses, claims, approval>>

\* Mutant: the row is resolved whoever holds its claim.
FinalizeResolved_AnyClaim(h) ==
  LET t == handler[h].task IN
  /\ handler[h].pc = "running"
  /\ row' = [row EXCEPT ![t] = SettledAs(@, "resolved")]
  /\ Return(h)
  /\ UNCHANGED approval

\* FinalizeResolved: WHERE claim_id = ?, and silence when no row matches.
FinalizeResolved(h) ==
  LET t == handler[h].task IN
  /\ handler[h].pc = "running"
  /\ row' = IF row[t].claim = h
            THEN [row EXCEPT ![t] = SettledAs(@, "resolved")]
            ELSE row
  /\ Return(h)
  /\ UNCHANGED approval

\* RequeuePaused: a new request first, then the row, if the claim still matches.
RequeuePaused(h, cat, a, e) ==
  LET t == handler[h].task IN
  /\ handler[h].pc = "running"
  /\ pauses < MaxPauses
  /\ handler[h].esc < e /\ e <= MaxEscalations
  /\ RequestFor(t, cat, a)
  /\ row' = IF row[t].claim = h
            THEN [row EXCEPT ![t] = PausedRow(cat, a, e)]
            ELSE row
  /\ handler' = [handler EXCEPT ![h] = Idle]
  /\ promise' = [promise EXCEPT ![h] = 0]
  /\ pauses' = pauses + 1
  /\ UNCHANGED <<claims, toolRuns>>

\* FinalizeResolved or RequeuePaused return a database error: nothing is written
\* and, releaseClaim being false by now, the claim stays.
LoseOutcome(h) ==
  /\ handler[h].pc = "running"
  /\ Return(h)
  /\ UNCHANGED <<row, approval>>

\* RequeuePaused fails after it created the next request: an orphan request.
RequeueFails(h, a) ==
  /\ handler[h].pc = "running"
  /\ RequestFor(handler[h].task, "tool_approval", a)
  /\ Return(h)
  /\ UNCHANGED row

-----------------------------------------------------------------------------
(* The user, through the web or platform approval action *)

Approve(a, option) ==
  /\ ApproveRequest(a, option)
  /\ UNCHANGED <<row, handler, promise, pauses, claims, toolRuns>>

Reject(a) ==
  /\ RejectRequest(a)
  /\ UNCHANGED <<row, handler, promise, pauses, claims, toolRuns>>

-----------------------------------------------------------------------------
(* The cleanup loop: ExpireOnce, then ArchiveOnce, on every tick of its timer *)

\* First statement of ExpireOnce: lapsed claims are cleared.
ClaimCleared(r) ==
  IF r.claim # None /\ r.lease = 0 THEN [r EXCEPT !.claim = None] ELSE r

\* Second: pending rows past their soft deadline turn stale.
Softened(r) ==
  IF r.status = "pending" /\ r.soft = 0 /\ ~ Active(r)
  THEN [r EXCEPT !.status = "stale"]
  ELSE r

\* Mutants: the hard deadline ignores a running claim, or forgets stale rows.
TimedOut_UnderClaim(r) == r.status \in Live /\ r.hard = 0
TimedOut_PendingOnly(r) == r.status = "pending" /\ r.hard = 0 /\ ~ Active(r)

TimedOut(r) == r.status \in Live /\ r.hard = 0 /\ ~ Active(r)

\* Third: rows past their hard deadline are settled without a decision.
Hardened(r) ==
  IF TimedOut(r)
  THEN SettledAs(r, IF FailClosed(r.cat) THEN "auto_rejected" ELSE "expired_open")
  ELSE r

Swept(r) == Hardened(Softened(ClaimCleared(r)))

\* The requests of the rows the sweep auto-rejects.
LapsingRequests ==
  {row[t].appr : t \in {u \in Tasks : TimedOut(row[u]) /\ FailClosed(row[u].cat)}}

\* An ExpirePendingRequest that fails is logged and its row is settled all the same.
ExpireOnce ==
  /\ row' = [t \in Tasks |-> Swept(row[t])]
  /\ \E S \in SUBSET LapsingRequests : approval' = Expired(S)
  /\ UNCHANGED <<handler, promise, pauses, claims, toolRuns>>

\* Settled rows past archive_after move to archived_decisions.
ArchiveOnce ==
  /\ row' = [t \in Tasks |-> IF row[t].status \in Settled /\ row[t].arch = 0
                             THEN NoRow ELSE row[t]]
  /\ UNCHANGED <<handler, promise, pauses, claims, approval, toolRuns>>

-----------------------------------------------------------------------------
(* The environment *)

Older(r) == [r EXCEPT !.soft = Dec(@), !.hard = Dec(@), !.arch = Dec(@), !.lease = Dec(@)]

Tick ==
  /\ row' = [t \in Tasks |-> Older(row[t])]
  /\ promise' = [h \in Handlers |-> Dec(promise[h])]
  /\ approval' = Aged
  /\ UNCHANGED <<handler, pauses, claims, toolRuns>>

\* The process dies: handlers vanish, the database stays.
Crash ==
  /\ handler' = [h \in Handlers |-> Idle]
  /\ promise' = [h \in Handlers |-> 0]
  /\ UNCHANGED <<row, pauses, claims, approval, toolRuns>>

\* It dies inside ExpireOnce, after the request of t was expired and before
\* the row of t was written.
CrashInExpireOnce(t) ==
  /\ TimedOut(row[t]) /\ FailClosed(row[t].cat) /\ row[t].appr # None
  /\ approval' = Expired({row[t].appr})
  /\ handler' = [h \in Handlers |-> Idle]
  /\ promise' = [h \in Handlers |-> 0]
  /\ UNCHANGED <<row, pauses, claims, toolRuns>>

-----------------------------------------------------------------------------
Delegate ==
  \E t \in Tasks, a \in ApprovalIds \cup {None} :
    \/ \E cat \in Categories, e \in 1 .. MaxEscalations : Put(t, cat, a, e)
    \/ PutFails(t, a)

HandlerStep(h) ==
  \/ \E t \in Tasks, ask \in ApprovalIds \cup {None} : ClaimForResume(h, t, ask)
  \/ FactoryFails(h)
  \/ AwaitApproval(h)
  \/ ConsumeApproval(h)
  \/ \E v \in Options : Decide(h, v)
  \/ InvalidDecision(h)
  \/ Resume(h)
  \/ FinalizeResolved(h)
  \/ \E cat \in Categories, a \in ApprovalIds \cup {None}, e \in 1 .. MaxEscalations :
       RequeuePaused(h, cat, a, e)
  \/ LoseOutcome(h)
  \/ \E a \in ApprovalIds : RequeueFails(h, a)

User == \E a \in ApprovalIds : Reject(a) \/ \E option \in Options : Approve(a, option)

CleanupLoop == ExpireOnce \/ ArchiveOnce

Next ==
  \/ Delegate
  \/ \E h \in Handlers : HandlerStep(h)
  \/ User
  \/ CleanupLoop
  \/ Tick
  \/ Crash
  \/ \E t \in Tasks : CrashInExpireOnce(t)

Spec == Init /\ [][Next]_vars

\* The ticker drives the cleanup loop for as long as the process lives; nothing
\* obliges Emotion, the user or a resume handler to act.
Fairness == WF_vars(Tick) /\ WF_vars(ExpireOnce) /\ WF_vars(ArchiveOnce)

FairSpec == Spec /\ Fairness
-----------------------------------------------------------------------------
Busy(h) == handler[h].pc # "idle"

\* A resume_work call that drew a claim keeps it for the whole ClaimTTL, whatever
\* the sweep, other calls and late handlers do, unless delegate_to_work replaces
\* the row: so two calls can work on one decision only after a lease ran out
\* (pending.go ClaimForResume, ExpireOnce, ReleaseClaim, FinalizeResolved).
LeaseHonoured ==
  \A h \in Handlers : Busy(h) /\ promise[h] > 0 =>
    LET r == row[handler[h].task] IN
    r.claim = h /\ r.lease = promise[h] /\ r.status \in Live

\* A decision that asks for the user's consent is never recorded as resolved
\* unless the request it shows was decided by the user and consumed, even when
\* the task was re-delegated or re-paused while an older call was still running.
ResolvedNeedsConsent ==
  \A t \in Tasks : row[t].status = "resolved" /\ Gated(row[t].cat) =>
    row[t].appr # None /\ approval[row[t].appr].status = "consumed"

\* Once a row was auto-rejected nobody can approve its request any more, from the
\* next instant on, even when the sweep failed to expire it: the two deadlines,
\* set by two statements on two tables, run out together
\* (pending.go Put, RequeuePaused, ExpireOnce; approval.go decideRequest).
AutoRejectClosesRequest ==
  \A t \in Tasks :
    row[t].status = "auto_rejected" /\ row[t].appr # None =>
      LET request == approval[row[t].appr] IN request.status = "pending" => request.left <= 1

\* A decision that is settled stays as it was settled until it is archived, or until
\* delegate_to_work parks the task again: no resume that comes late revives or overwrites
\* it (FinalizeResolved, RequeuePaused, ExpireOnce).
SettledStays ==
  [][\A t \in Tasks : row[t].status \in Settled =>
       \/ row'[t].status = row[t].status /\ row'[t].appr = row[t].appr
       \/ row[t].arch = 0 /\ row'[t] = NoRow
       \/ \E cat \in Categories, a \in ApprovalIds \cup {None}, e \in 1 .. MaxEscalations :
            Put(t, cat, a, e)]_vars

\* No decision stays open for ever: with finitely many delegations and resume
\* attempts every row is eventually settled and archived, although claims leak,
\* handlers hang or crash and outcomes are lost.
EventuallyArchived == \A t \in Tasks : <>[](row[t].status = "none")
-----------------------------------------------------------------------------
(* The inductive strengthening behind GrantSpentOnce, LeaseHonoured,           *)
(* ResolvedNeedsConsent and AutoRejectClosesRequest (proved in                *)
(* WorkDecision_proofs).                                                      *)

\* A request that is not consumed has authorised nothing yet.
UnspentBeforeConsumption ==
  \A a \in ApprovalIds : approval[a].status # "consumed" => toolRuns[a] = 0

\* A handler past its decision on a gated task has consumed its own request ...
ConsentHeld ==
  \A h \in Handlers : handler[h].pc \in {"decided", "running"} /\ Gated(handler[h].cat) =>
    handler[h].own # None /\ approval[handler[h].own].status = "consumed"

\* ... with the user's option as verdict, not yet used for a tool call ...
VerdictUnused ==
  \A h \in Handlers : handler[h].pc = "decided" /\ Gated(handler[h].cat) =>
    /\ approval[handler[h].own].choice = handler[h].verdict
    /\ toolRuns[handler[h].own] = 0

\* ... and nobody else is about to use the same request.
SoleConsumer ==
  \A g, h \in Handlers :
    /\ handler[g].pc = "decided" /\ Gated(handler[g].cat)
    /\ handler[h].pc = "decided" /\ Gated(handler[h].cat)
    /\ handler[g].own = handler[h].own
    => g = h

\* Only live rows are claimed, and a handler whose claim the row still carries
\* works on what the row says now.
ClaimsOnLiveRows == \A t \in Tasks : row[t].claim # None => row[t].status \in Live

SnapshotFresh ==
  \A h \in Handlers : Busy(h) =>
    /\ handler[h].task \in Tasks
    /\ row[handler[h].task].claim = h =>
         /\ row[handler[h].task].cat = handler[h].cat
         /\ row[handler[h].task].appr = handler[h].own

ConsentInv ==
  /\ GrantSpentOnce
  /\ UnspentBeforeConsumption
  /\ ConsentHeld
  /\ VerdictUnused
  /\ SoleConsumer

RecordInv ==
  /\ ClaimsOnLiveRows
  /\ SnapshotFresh
  /\ ResolvedNeedsConsent

\* The request of a row was created with it and can be decided one tick longer at most.
DeadlinesTogether ==
  \A t \in Tasks : row[t].appr # None =>
    LET request == approval[row[t].appr] IN
    request.status # "absent" /\ request.left <= row[t].hard + 1

\* A row is auto-rejected when its hard deadline has passed.
RejectedByTimeout == \A t \in Tasks : row[t].status = "auto_rejected" => row[t].hard = 0

DeadlineInv == DeadlinesTogether /\ RejectedByTimeout
=============================================================================
