----------------------------- MODULE Approvals -----------------------------
(***************************************************************************)
(* ApprovalService (internal/work/approval.go): the approval_requests      *)
(* table and the statements that change it.  The operators below give the  *)
(* new value of the table; WorkDecision and DirectToolApproval put them    *)
(* into the actions of the code paths that run those statements.           *)
(*                                                                         *)
(* Time is relative: `left` counts the ticks until a request can no longer *)
(* be decided.  decideRequest compares with After, so a request created    *)
(* with deadline D ticks away is still decidable at tick D and refuses at  *)
(* tick D + 1: `left` starts at D + 1.                                     *)
(***************************************************************************)
EXTENDS Naturals

CONSTANTS
  ApprovalIds,   \* uuids the service may draw; bounds the requests of a run
  Owners,        \* task ids a request may belong to
  None           \* "no value", outside every other constant set

ASSUME NoneAssumption == None \notin ApprovalIds \cup Owners

VARIABLES
  approval,      \* approval[a]: the row of request a
  toolRuns       \* history: executions of a tool call under the grant of a

approvalVars == <<approval, toolRuns>>

ApprovalStatus == {"absent", "pending", "approved", "rejected", "expired", "consumed"}

\* "deny" is the packet's reject_option_id, "allow" any other option.
Options == {"allow", "deny"}

ApprovalRow == [status : ApprovalStatus,
                owner  : Owners \cup {None},
                choice : Options \cup {None},
                left   : Nat]

ApprovalsTypeOK ==
  /\ approval \in [ApprovalIds -> ApprovalRow]
  /\ toolRuns \in [ApprovalIds -> Nat]

ApprovalsInit ==
  /\ approval = [a \in ApprovalIds |->
                   [status |-> "absent", owner |-> None, choice |-> None, left |-> 0]]
  /\ toolRuns = [a \in ApprovalIds |-> 0]

-----------------------------------------------------------------------------
\* CreateRequestFromDecision: a row under a uuid nobody has used.
Unused(a) == approval[a].status = "absent"

Created(a, owner, ttl) ==
  [approval EXCEPT ![a] = [status |-> "pending", owner |-> owner,
                           choice |-> None, left |-> ttl + 1]]

\* Mutant: a rejected request may be decided again.
Decidable_Redecided(a) == approval[a].status \in {"pending", "rejected"} /\ approval[a].left > 0

\* decideRequest: pending and not past expires_at.
Decidable(a) == approval[a].status = "pending" /\ approval[a].left > 0

\* ApproveRequest takes any existing option, the reject option included.
ApproveRequest(a, option) ==
  /\ Decidable(a)
  /\ approval' = [approval EXCEPT ![a].status = "approved", ![a].choice = option]

RejectRequest(a) ==
  /\ Decidable(a)
  /\ approval' = [approval EXCEPT ![a].status = "rejected", ![a].choice = "deny"]

\* Mutant: a consumed request may be consumed again.
Resumable_Again(a, owner) ==
  /\ approval[a].owner = owner
  /\ approval[a].status \in {"approved", "rejected", "consumed"}

\* consumeRequestForResume: one transaction; the deadline is not consulted.
Resumable(a, owner) ==
  /\ approval[a].owner = owner
  /\ approval[a].status \in {"approved", "rejected"}

Consumed(a) == [approval EXCEPT ![a].status = "consumed"]

\* ExpirePendingRequest, for each request of S.
Expired(S) ==
  [a \in ApprovalIds |->
     IF a \in S /\ approval[a].status = "pending"
     THEN [approval[a] EXCEPT !.status = "expired"]
     ELSE approval[a]]

\* One tick of the wall clock for a countdown and for every deadline of the table.
Dec(n) == IF n > 0 THEN n - 1 ELSE 0

Aged == [a \in ApprovalIds |-> [approval[a] EXCEPT !.left = Dec(@)]]

\* The dispatcher executes the pending call under the grant of a.
Ran(a) == [toolRuns EXCEPT ![a] = @ + 1]

-----------------------------------------------------------------------------
\* The life of a request as ApprovalLedger sees it, by its row.
StandingOf(r) ==
  CASE r.status = "absent"  -> "unopened"
    [] r.status = "pending" -> "open"
    [] r.status = "expired" -> "lapsed"
    [] r.status \in {"approved", "rejected"} ->
         IF r.choice = "allow" THEN "granted" ELSE "denied"
    [] OTHER -> IF r.choice = "allow" THEN "spent" ELSE "closed"

Standing(a) == StandingOf(approval[a])

Ledger == INSTANCE ApprovalLedger
  WITH standing <- [a \in ApprovalIds |-> Standing(a)], uses <- toolRuns

\* The user's grant is spent at most once and only after it was given: every
\* execution of a gated tool call is authorised by its own "allow" decision
\* (approval.go decideRequest and consumeRequestForResume, and their callers).
ImplementsLedger == Ledger!Spec

GrantSpentOnce ==
  \A a \in ApprovalIds :
    /\ toolRuns[a] <= 1
    /\ toolRuns[a] = 1 => approval[a].status = "consumed" /\ approval[a].choice = "allow"
=============================================================================
