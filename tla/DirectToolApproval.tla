------------------------- MODULE DirectToolApproval -------------------------
(***************************************************************************)
(* A tool call Emotion makes itself, outside any Work task, that needs the *)
(* user's consent: the turn is interrupted and the call is parked in       *)
(* pending_direct_tool_calls (internal/toolapproval).  When the user has   *)
(* decided, the turn that carries the decision claims the call, consumes   *)
(* the request and runs the call (internal/chat/engine.go                  *)
(* ContinueAfterApproval).                                                 *)
(*                                                                         *)
(* Each statement on the database is a step; a continuation may die        *)
(* between two of them, and each UPDATE may fail.                          *)
(***************************************************************************)
EXTENDS Approvals

CONSTANTS
  Turns,     \* turns that may carry a decision concurrently; also their claim ids
  CallTTL    \* ticks until a parked call can no longer be claimed (30 min)

ASSUME CallAssumption == CallTTL \in Nat /\ None \notin Turns

VARIABLES
  call,      \* call[a]: the pending_direct_tool_calls row of request a
  turn       \* turn[k]: where the continuation in turn k is

vars == <<call, turn, approval, toolRuns>>

CallStatus == {"none", "pending", "claimed", "consumed", "rejected", "failed", "expired"}
Final == {"consumed", "rejected", "failed", "expired"}

CallRow == [status : CallStatus, owner : Owners \cup {None},
            claim : Turns \cup {None}, left : Nat]

TurnState == [pc : {"idle", "applied", "claimed", "allowed", "denied", "executed", "refused"},
              req : ApprovalIds \cup {None}]

\* Rows, requests and continuations keep their types (direct_store.go, engine.go).
TypeOK ==
  /\ ApprovalsTypeOK
  /\ call \in [ApprovalIds -> CallRow]
  /\ turn \in [Turns -> TurnState]

NoCall == [status |-> "none", owner |-> None, claim |-> None, left |-> 0]
NoTurn == [pc |-> "idle", req |-> None]

Init ==
  /\ ApprovalsInit
  /\ call = [a \in ApprovalIds |-> NoCall]
  /\ turn = [k \in Turns |-> NoTurn]

-----------------------------------------------------------------------------
(* The turn that wants to make the call *)

\* CreatePending: first the request, which the user may see and decide at once ...
CreateRequest(t, a) ==
  /\ Unused(a)
  /\ approval' = Created(a, t, CallTTL)
  /\ UNCHANGED <<call, turn, toolRuns>>

\* ... then the parked call, with the same deadline.
Park(a) ==
  /\ approval[a].status \notin {"absent", "expired"}
  /\ call[a].status = "none"
  /\ call' = [call EXCEPT ![a] = [status |-> "pending", owner |-> approval[a].owner,
                                  claim |-> None, left |-> Dec(approval[a].left)]]
  /\ UNCHANGED <<approval, turn, toolRuns>>

\* The insert fails, or the process dies before it: an orphan request, which
\* CreatePending expires, unless that fails as well.
ExpireOrphan(a) ==
  /\ approval[a].status = "pending"
  /\ call[a].status = "none"
  /\ approval' = Expired({a})
  /\ UNCHANGED <<call, turn, toolRuns>>

-----------------------------------------------------------------------------
(* The turn that carries the user's decision *)

Goto(k, pc) == turn' = [turn EXCEPT ![k].pc = pc]
Leave(k) == turn' = [turn EXCEPT ![k] = NoTurn]

\* ApplyApprovalAction succeeds; the same goroutine goes on to continue the call.
Apply(k, a, option) ==
  /\ turn[k].pc = "idle"
  /\ ApproveRequest(a, option)
  /\ turn' = [turn EXCEPT ![k] = [pc |-> "applied", req |-> a]]
  /\ UNCHANGED <<call, toolRuns>>

ApplyReject(k, a) ==
  /\ turn[k].pc = "idle"
  /\ RejectRequest(a)
  /\ turn' = [turn EXCEPT ![k] = [pc |-> "applied", req |-> a]]
  /\ UNCHANGED <<call, toolRuns>>

Claimable(c) == c.status = "pending" /\ c.left > 0

\* Claim: one UPDATE that only a pending, unexpired row matches.
Claim(k) ==
  /\ turn[k].pc = "applied"
  /\ Claimable(call[turn[k].req])
  /\ call' = [call EXCEPT ![turn[k].req].status = "claimed", ![turn[k].req].claim = k]
  /\ Goto(k, "claimed")
  /\ UNCHANGED <<approval, toolRuns>>

\* No row, a row already settled, or a pending one past its deadline, which is
\* marked expired on the way; the decided request is left as it is.
NothingToClaim(k) ==
  LET a == turn[k].req IN
  /\ turn[k].pc = "applied"
  /\ ~ Claimable(call[a])
  /\ call' = IF call[a].status = "pending"
             THEN [call EXCEPT ![a].status = "expired"]
             ELSE call
  /\ Leave(k)
  /\ UNCHANGED <<approval, toolRuns>>

\* Mutants: the option id is taken for the outcome; the option is not looked at.
Consume_RawOption(k) ==
  LET a == turn[k].req IN
  /\ turn[k].pc = "claimed"
  /\ Resumable(a, call[a].owner)
  /\ approval' = Consumed(a)
  /\ Goto(k, approval[a].choice)
  /\ UNCHANGED <<call, toolRuns>>

Consume_AnyOption(k) ==
  LET a == turn[k].req IN
  /\ turn[k].pc = "claimed"
  /\ Resumable(a, call[a].owner)
  /\ approval' = Consumed(a)
  /\ Goto(k, "allowed")
  /\ UNCHANGED <<call, toolRuns>>

\* ConsumeResolvedRequest.
Consume(k) ==
  LET a == turn[k].req IN
  /\ turn[k].pc = "claimed"
  /\ Resumable(a, call[a].owner)
  /\ approval' = Consumed(a)
  /\ Goto(k, IF approval[a].choice = "allow" THEN "allowed" ELSE "denied")
  /\ UNCHANGED <<call, toolRuns>>

\* The dispatcher runs the call, or ends it with an error result, or still asks
\* for approval (the grant does not match the call), which runs nothing.
Execute(k) ==
  /\ turn[k].pc = "allowed"
  /\ \/ toolRuns' = Ran(turn[k].req) /\ Goto(k, "executed")
     \/ UNCHANGED toolRuns /\ Goto(k, "executed")
     \/ UNCHANGED toolRuns /\ Goto(k, "refused")
  /\ UNCHANGED <<call, approval>>

\* markResolved: only the row this claim holds.
MarkResolved(k, status) ==
  LET a == turn[k].req IN
  /\ call' = IF call[a].status = "claimed" /\ call[a].claim = k
             THEN [call EXCEPT ![a].status = status]
             ELSE call
  /\ Leave(k)
  /\ UNCHANGED <<approval, toolRuns>>

MarkConsumed(k) == turn[k].pc = "executed" /\ MarkResolved(k, "consumed")
MarkRejected(k) == turn[k].pc = "denied" /\ MarkResolved(k, "rejected")

\* Mutant: an error result of the executed call marks the row failed.
MarkFailed_OnErrorResult(k) ==
  turn[k].pc \in {"claimed", "refused", "executed"} /\ MarkResolved(k, "failed")

\* Consuming failed, or the dispatcher refused the grant.
MarkFailed(k) == turn[k].pc \in {"claimed", "refused"} /\ MarkResolved(k, "failed")

\* The context is cancelled or a statement fails: the continuation ends where it is.
GiveUp(k) ==
  /\ turn[k].pc # "idle"
  /\ Leave(k)
  /\ UNCHANGED <<call, approval, toolRuns>>

-----------------------------------------------------------------------------
Tick ==
  /\ approval' = Aged
  /\ call' = [a \in ApprovalIds |-> [call[a] EXCEPT !.left = Dec(@)]]
  /\ UNCHANGED <<turn, toolRuns>>

Crash ==
  /\ turn' = [k \in Turns |-> NoTurn]
  /\ UNCHANGED <<call, approval, toolRuns>>

Continue(k) ==
  \/ Claim(k) \/ NothingToClaim(k) \/ Consume(k) \/ Execute(k)
  \/ MarkConsumed(k) \/ MarkRejected(k) \/ MarkFailed(k) \/ GiveUp(k)

Next ==
  \/ \E t \in Owners, a \in ApprovalIds : CreateRequest(t, a)
  \/ \E a \in ApprovalIds : Park(a) \/ ExpireOrphan(a)
  \/ \E k \in Turns, a \in ApprovalIds :
       ApplyReject(k, a) \/ \E option \in Options : Apply(k, a, option)
  \/ \E k \in Turns : Continue(k)
  \/ Tick
  \/ Crash

Spec == Init /\ [][Next]_vars
-----------------------------------------------------------------------------
\* The row never denies what was done: a call that ran is recorded as consumed, or
\* is still claimed after a crash; "rejected", "failed" and "expired" rows never
\* ran, and a row is consumed or rejected only as the user decided
\* (engine.go resumeDirectToolApproval, direct_store.go).
CallRecordHonest ==
  \A a \in ApprovalIds :
    /\ toolRuns[a] > 0 => call[a].status \in {"claimed", "consumed"}
    /\ call[a].status = "consumed" =>
         approval[a].status = "consumed" /\ approval[a].choice = "allow"
    /\ call[a].status = "rejected" =>
         approval[a].status = "consumed" /\ approval[a].choice = "deny"

\* No two turns work on the same call, although the lookup of the row, its claim and
\* the consumption of its request are separate statements (engine.go 1443-1472).
OneContinuation ==
  \A j, k \in Turns : j # k /\ turn[j].pc # "idle" /\ turn[k].pc # "idle" =>
    turn[j].req # turn[k].req

\* A parked call is claimed once for good: no later turn takes the claim over, only the
\* turn that holds it settles the row, and a settled row stays as it is, so that a
\* continuation that died is never repeated (Claim, markResolved).
ClaimStands ==
  [][\A a \in ApprovalIds :
       /\ call[a].claim # None => call'[a].claim = call[a].claim
       /\ call[a].status \in Final => call'[a].status = call[a].status
       /\ call[a].status = "claimed" /\ call'[a].status # "claimed" =>
            \E k \in Turns : call[a].claim = k /\ turn[k].req = a /\ turn'[k] = NoTurn]_vars
-----------------------------------------------------------------------------
(* The inductive strengthening behind CallRecordHonest, OneContinuation and    *)
(* the refinement, and RowsFresh, which ClaimStands needs besides (proved in   *)
(* DirectToolApproval_proofs).                                                 *)

\* A continuation works on a request that was decided, and knows how.
TurnKnowsDecision ==
  \A k \in Turns :
    LET a == turn[k].req IN
    /\ turn[k].pc # "idle" => a \in ApprovalIds
    /\ turn[k].pc \in {"applied", "claimed"} =>
         approval[a].status \in {"approved", "rejected"} /\ approval[a].choice \in Options
    /\ turn[k].pc \in {"allowed", "executed", "refused"} =>
         approval[a].status = "consumed" /\ approval[a].choice = "allow"
    /\ turn[k].pc = "denied" => approval[a].status = "consumed" /\ approval[a].choice = "deny"

\* From its claim to its end a continuation holds the row of its call.
TurnHoldsCall ==
  \A k \in Turns : turn[k].pc \in {"claimed", "allowed", "denied", "executed", "refused"} =>
    call[turn[k].req].status = "claimed" /\ call[turn[k].req].claim = k

\* Nothing ran before the request was consumed, nor for a turn still to run it.
NotYetRun ==
  /\ \A a \in ApprovalIds : approval[a].status # "consumed" => toolRuns[a] = 0
  /\ \A k \in Turns : turn[k].pc \in {"allowed", "denied", "refused"} => toolRuns[turn[k].req] = 0

\* A request nobody has made has no row, and a row that was not claimed names no turn.
RowsFresh ==
  \A a \in ApprovalIds :
    /\ approval[a].status = "absent" => call[a].status = "none"
    /\ call[a].claim # None => call[a].status \in {"claimed", "consumed", "rejected", "failed"}

CallInv ==
  /\ CallRecordHonest /\ OneContinuation
  /\ TurnKnowsDecision /\ TurnHoldsCall /\ NotYetRun /\ GrantSpentOnce
=============================================================================
