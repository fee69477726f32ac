------------------------------ MODULE WorkLoop ------------------------------
(***************************************************************************)
(* The tool loop of one delegated Work task: work/runtime.go with the      *)
(* compression of its history (compress.go), the classification and        *)
(* execution of tool calls (tool/dispatch.go) and the part of resume_work   *)
(* that turns a consumed approval into permissions (resume_tool.go).        *)
(*                                                                         *)
(* The pause itself, its row, claim and approval request, is the subject   *)
(* of WorkDecision; here it is a state from which the task is resumed with *)
(* an answer, or lost.  A tool call is what it does to the one file its    *)
(* writes go to: two calls of one kind have the same tool and input, hence *)
(* the same approval binding.  A history is a sequence of messages that    *)
(* carry the calls they make or answer; texts and token counts are left    *)
(* out, what depends on them is a choice.                                   *)
(***************************************************************************)
EXTENDS Naturals, Sequences, FiniteSets

CONSTANTS
  Replies,         \* the sequences of call kinds the model may answer with
  MaxToolRounds, MaxEscalations, KeepRounds,
  MaxEdits         \* bound: how often somebody else creates or removes the file

Scopes == <<"read-only", "workspace-write", "approved-destructive">>
ScopeNames == {Scopes[i] : i \in DOMAIN Scopes}
ApprovalKinds == {"destructive_write", "sensitive_read"}
CallKinds == {"read", "write", "capped", "sensitive", "hooked", "unknown",
              "finish", "badFinish", "decide", "badDecide"}

ASSUME LoopAssumption ==
  /\ Replies \subseteq Seq(CallKinds)
  /\ MaxToolRounds \in Nat /\ MaxEscalations \in Nat /\ KeepRounds \in Nat /\ MaxEdits \in Nat

VARIABLES
  brief,        \* permission_scope of the TaskBrief as delegated
  scope,        \* Brief.PermissionScope as it is now
  phase,        \* "check", "ask", "run", "paused", "reported", "lost"
  round, history, progress, escalations,
  calls, at, ran,   \* the classified calls of this round, the next one, those that succeeded
  pending,      \* the call and packet of PausedWork
  grant,        \* the approval in the context of the resume_work call
  file,         \* whether the file that writes go to exists
  edits,
  \* for the properties only:
  allowed,      \* the calls a user or Emotion let through
  log,          \* the calls that took effect, and whether they needed consent
  routed,       \* the decisions routed out of the loop
  remembered    \* the decisions some progress summary has contained

control == <<phase, round, history, progress, escalations>>
running == <<calls, at, ran>>
ghosts == <<allowed, log, routed, remembered>>
vars == <<brief, scope, control, running, pending, grant, file, edits, ghosts>>

None == [kind |-> "none"]
-----------------------------------------------------------------------------
(* Messages *)

Assistant(cs) == [role |-> "assistant", calls |-> cs, done |-> {}, known |-> {}]
\* ResultsToMessages: one user message or one tool message per result.
Results(cs, done) == [role |-> "tool", calls |-> cs, done |-> done, known |-> {}]
ProgressMessage(p) == [role |-> "user", calls |-> {}, done |-> {}, known |-> p]

Called(ks) == [i \in DOMAIN ks |-> [round |-> round, n |-> i, kind |-> ks[i]]]
CallSet(ks) == {Called(ks)[i] : i \in DOMAIN ks}
Has(ks, kinds) == \E i \in DOMAIN ks : ks[i] \in kinds
Decisions(h) == {c \in UNION {h[i].done : i \in DOMAIN h} : c.kind = "decide"}

\* filterAssistantMessageForBlockedCallPause: of the round's calls only the
\* blocked one stays in the history.
Filtered_KeepsAll(cs, c) == cs
Filtered(cs, c) == {c}

\* findKeepBoundary: the KeepRounds-th assistant message from the end.
KeepBoundary(h) ==
  LET rounds(i) == Cardinality({j \in i..Len(h) : h[j].role = "assistant"})
      found == {i \in DOMAIN h : h[i].role = "assistant" /\ rounds(i) = KeepRounds}
  IN  IF KeepRounds > 0 /\ found # {} THEN CHOOSE i \in found : TRUE ELSE 1
-----------------------------------------------------------------------------
(* Classification of a call *)

Level(p) == CHOOSE i \in DOMAIN Scopes : Scopes[i] = p

\* A hook may lower the permission of a call, never raise it.
MaxPermission(kind, p) ==
  IF kind = "capped" /\ Level(p) > Level("workspace-write") THEN "workspace-write" ELSE p

\* effectivePermission: writing over an existing file is destructive.
Required(kind, exists) ==
  CASE kind \notin {"write", "capped"} -> "read-only"
    [] exists -> "approved-destructive"
    [] OTHER -> "workspace-write"

ApprovalSatisfied(g, kind, c) == g = [kind |-> kind, for |-> c]

\* Dispatcher.ClassifyCall: in its order, the first that applies.
ClassifyCall(kind, p, g, exists) ==
  LET max == MaxPermission(kind, p)
      needs == Required(kind, exists)
  IN  CASE kind = "unknown" -> "error"
        [] kind = "hooked" -> "approval"
        [] Level(max) < Level(needs) ->
             IF needs = "approved-destructive" /\ max = "workspace-write"
             THEN "escalation" ELSE "denied"
        [] needs = "approved-destructive" /\ ~ApprovalSatisfied(g, "destructive_write", kind)
             -> "approval"
        [] kind = "sensitive" /\ ~ApprovalSatisfied(g, "sensitive_read", kind) -> "approval"
        [] OTHER -> "execute"

\* What the packet of a blocked call says is to be approved: a hook names any kind.
KindsAsked(kind) ==
  CASE kind = "hooked" -> ApprovalKinds
    [] kind = "sensitive" -> {"sensitive_read"}
    [] OTHER -> {"destructive_write"}

\* Consent is needed for what a hook, a sensitive path or an existing file asks for.
NeedsConsent(kind, exists) == kind \in {"sensitive", "hooked"} \/ Required(kind, exists) = "approved-destructive"
-----------------------------------------------------------------------------
(* The loop *)

Init ==
  /\ brief \in ScopeNames /\ scope = brief
  /\ phase = "check" /\ round = 0 /\ history = <<>> /\ progress = {} /\ escalations = 0
  /\ calls = <<>> /\ at = 1 /\ ran = {}
  /\ pending = None /\ grant = None
  /\ file \in BOOLEAN /\ edits = 0
  /\ allowed = {} /\ log = {} /\ routed = {} /\ remembered = {}

\* A cancelled context, an exhausted budget of rounds or tokens, a failed request,
\* too many escalations, a snapshot that does not fit, an answer without tools.
Report ==
  /\ phase' = "reported"
  /\ UNCHANGED <<round, history, progress, escalations>>

\* The next iteration of the loop, with these messages.
Continue(h) ==
  /\ phase' = "check" /\ round' = round + 1 /\ history' = h
  /\ UNCHANGED progress

GiveUp ==
  /\ phase \in {"check", "ask"}
  /\ Report
  /\ UNCHANGED <<brief, scope, running, pending, grant, file, edits, ghosts>>

\* compressWorkContext: the messages before the kept rounds become a progress
\* message.  The summary may mention any of their decisions; those of the current
\* progress are merged in, and stay when the summary cannot be parsed.
Summarised(mentioned) == progress \cup mentioned

Compress ==
  LET b == KeepBoundary(history)
      delta == SubSeq(history, 1, b - 1)
  IN  /\ \E i \in DOMAIN delta : delta[i].role # "user"
      /\ \E mentioned \in SUBSET Decisions(delta) :
           /\ progress' = Summarised(mentioned)
           /\ history' = <<ProgressMessage(progress')>> \o SubSeq(history, b, Len(history))

\* Head of an iteration: compress or not, then ask the model.
HasRounds_OffByOne == round <= MaxToolRounds
HasRounds == round < MaxToolRounds
Prompt ==
  /\ phase = "check" /\ HasRounds
  /\ Compress \/ UNCHANGED <<history, progress>>
  /\ phase' = "ask"
  /\ remembered' = remembered \cup progress'
  /\ UNCHANGED <<brief, scope, round, escalations, running, pending, grant, file, edits,
                 allowed, log, routed>>

\* The model answers with tool calls: the assistant message is appended before
\* anything is decided about them.
Replied(ks) == Append(history, Assistant(CallSet(ks)))
Answered(ks, done) == Append(Replied(ks), Results(CallSet(ks), done))

\* A payload that does not decode, or a packet ValidateDecisionPacket refuses.
Malformed(ks) == Has(ks, {"badFinish", "badDecide"})
Protocol(ks) == Has(ks, {"finish", "badFinish", "decide", "badDecide"})

\* finish_task and request_decision must be alone in their round and well-formed;
\* otherwise every call of the round is answered with an error and none runs.
RejectReply(ks) ==
  /\ Protocol(ks) /\ (Len(ks) > 1 \/ Malformed(ks))
  /\ Continue(Answered(ks, {}))
  /\ UNCHANGED <<escalations, calls, pending, routed>>

Finish(ks) ==
  /\ ks = <<"finish">>
  /\ Report
  /\ UNCHANGED <<calls, pending, routed>>

\* PausedWork with this history: what the registry stores of it (ResumeBlob) is
\* everything but the progress.
StoredProgress == {}
StoredEscalations_Same == escalations
StoredEscalations == escalations + 1
Pause(h, c, packet, kind) ==
  /\ phase' = "paused" /\ history' = h
  /\ progress' = StoredProgress /\ escalations' = StoredEscalations
  /\ pending' = [kind |-> packet, call |-> c, approval |-> kind]
  /\ routed' = routed \cup {c}
  /\ UNCHANGED <<round, calls>>

\* A failed report instead of a pause: too many escalations, or a snapshot that
\* exceeds its token budget after compaction.
RouteFails == Report /\ UNCHANGED <<calls, pending, routed>>

\* The runtime decider takes an automatic decision, unless it fails or escalates; its
\* decisions count as escalations too.
AutoDecide(ks) ==
  /\ Continue(Answered(ks, CallSet(ks)))
  /\ escalations' = escalations + 1
  /\ routed' = routed \cup CallSet(ks)
  /\ UNCHANGED <<calls, pending>>

Decide(ks) ==
  /\ ks = <<"decide">>
  /\ \/ RouteFails
     \/ /\ escalations < MaxEscalations
        /\ AutoDecide(ks) \/ Pause(Replied(ks), Called(ks)[1], "decision", "none")

\* Ordinary calls are all classified before any of them runs.  In the loop no
\* approval is in force: the context of a resume is emptied before it.
LoopApproval_Kept == grant
LoopApproval == None
Classified(ks) ==
  [i \in DOMAIN ks |-> [call |-> Called(ks)[i], existed |-> file,
                        action |-> ClassifyCall(ks[i], scope, LoopApproval, file)]]
FirstBlocked(cs, action) ==
  {i \in DOMAIN cs : cs[i].action = action /\ \A j \in 1..(i - 1) : cs[j].action # action}

\* A call that needs more permission, or else one that needs an approval, pauses the
\* task; the other calls of the round are dropped from the history and never run.
Block(ks) ==
  LET cs == Classified(ks)
      blocking == IF FirstBlocked(cs, "escalation") # {} THEN "escalation" ELSE "approval"
  IN  /\ ~Protocol(ks)
      /\ \E i \in FirstBlocked(cs, blocking) :
           \/ RouteFails
           \/ /\ escalations < MaxEscalations
              /\ \E k \in KindsAsked(ks[i]) :
                   Pause(Append(history, Assistant(Filtered(CallSet(ks), cs[i].call))),
                         cs[i].call, blocking, k)

Execute(ks) ==
  /\ ~Protocol(ks)
  /\ \A i \in DOMAIN ks : Classified(ks)[i].action \notin {"escalation", "approval"}
  /\ phase' = "run" /\ calls' = Classified(ks)
  /\ history' = Replied(ks)
  /\ UNCHANGED <<round, progress, escalations, pending, routed>>

Reply ==
  /\ phase = "ask"
  /\ \E ks \in Replies :
       RejectReply(ks) \/ Finish(ks) \/ Decide(ks) \/ Block(ks) \/ Execute(ks)
  /\ UNCHANGED <<brief, scope, at, ran, grant, file, edits, allowed, log, remembered>>

\* A handler either takes effect or fails; what a failed one leaves behind is left out.
TakesEffect(c, existed) ==
  /\ log' = log \cup {[call |-> c, gated |-> NeedsConsent(c.kind, existed)]}
  /\ file' = (file \/ c.kind \in {"write", "capped"})
NoEffect == UNCHANGED <<log, file>>

\* ExecuteAllClassified: one call after the other, those refused with an error.
RunCall ==
  /\ phase = "run" /\ at <= Len(calls)
  /\ \/ /\ calls[at].action = "execute"
        /\ ran' = ran \cup {calls[at].call}
        /\ TakesEffect(calls[at].call, calls[at].existed)
     \/ UNCHANGED ran /\ NoEffect
  /\ at' = at + 1
  /\ UNCHANGED <<brief, scope, control, calls, pending, grant, edits, allowed, routed, remembered>>

RoundResults_ErrorsLost ==
  LET cs == {calls[i].call : i \in DOMAIN calls} IN Results(cs, cs)
RoundResults == Results({calls[i].call : i \in DOMAIN calls}, ran)
EndRound ==
  /\ phase = "run" /\ at > Len(calls)
  /\ Continue(Append(history, RoundResults))
  /\ calls' = <<>> /\ at' = 1 /\ ran' = {}
  /\ UNCHANGED <<brief, scope, escalations, pending, grant, file, edits, ghosts>>
-----------------------------------------------------------------------------
(* resume_work *)

\* Runtime.Resume continues in the round after the pause, with the result appended.
ResumeWith(done) ==
  /\ Continue(Append(history, Results({pending.call}, done)))
  /\ pending' = None
  /\ UNCHANGED <<brief, escalations, running, edits, routed, remembered>>

\* Approving a destructive call raises the scope of the task for good.
RaisesScope(kind) == kind = "destructive_write"
ScopeAfter(kind) == IF RaisesScope(kind) THEN "approved-destructive" ELSE scope

\* An answer to request_decision, or a rejection of the blocked call.  The user may
\* reject it by approving the request with the rejecting option: that, too, raises
\* the scope.
ResumeAnswered ==
  /\ phase = "paused"
  /\ ResumeWith(IF pending.kind = "decision" THEN {pending.call} ELSE {})
  /\ scope' \in {scope, ScopeAfter(pending.approval)}
  /\ grant' = None
  /\ NoEffect /\ UNCHANGED allowed

\* The approval in the context of the resume: of the kind asked for, bound to the call.
GrantFor(p) == [kind |-> p.approval, for |-> p.call.kind]

\* The blocked call is allowed: it is classified again, with the approval that binds
\* it, and runs or is answered with an error.
ResumeAllowed ==
  /\ phase = "paused" /\ pending.kind # "decision"
  /\ scope' = ScopeAfter(pending.approval)
  /\ grant' = GrantFor(pending)
  /\ allowed' = allowed \cup {[call |-> pending.call, kind |-> pending.approval]}
  /\ \/ /\ ClassifyCall(pending.call.kind, scope', grant', file) = "execute"
        /\ TakesEffect(pending.call, file)
        /\ ResumeWith({pending.call})
     \/ NoEffect /\ ResumeWith({})

\* The pause could not be stored, or its deadline passed: nobody resumes the task.
Lose ==
  /\ phase = "paused"
  /\ phase' = "lost"
  /\ UNCHANGED <<brief, scope, round, history, progress, escalations, running, pending,
                 grant, file, edits, ghosts>>

\* Somebody else creates or removes the file while calls run or the task waits.
EditFile ==
  /\ phase \in {"run", "paused"} /\ edits < MaxEdits
  /\ file' = ~file /\ edits' = edits + 1
  /\ UNCHANGED <<brief, scope, control, running, pending, grant, ghosts>>

Next == \/ Prompt \/ Reply \/ RunCall \/ EndRound \/ GiveUp
        \/ ResumeAllowed \/ ResumeAnswered \/ Lose \/ EditFile

Spec == Init /\ [][Next]_vars
-----------------------------------------------------------------------------
(* Properties *)

CallIds == [round : Nat, n : Nat, kind : CallKinds]
Messages == [role : {"assistant", "tool", "user"}, calls : SUBSET CallIds,
             done : SUBSET CallIds, known : SUBSET CallIds]

\* Every variable of the loop keeps its type.
TypeOK ==
  /\ brief \in ScopeNames /\ scope \in ScopeNames
  /\ phase \in {"check", "ask", "run", "paused", "reported", "lost"}
  /\ round \in 0..MaxToolRounds /\ escalations \in 0..MaxEscalations
  /\ history \in Seq(Messages)
  /\ progress \subseteq CallIds
  /\ at \in 1..(Len(calls) + 1) /\ ran \subseteq {calls[i].call : i \in DOMAIN calls}
  /\ pending = None <=> phase \notin {"paused", "lost"}
  /\ file \in BOOLEAN /\ edits \in 0..MaxEdits

\* Every call in the history is answered right after it and every answer follows its
\* call.
Paired(h) ==
  \A i \in DOMAIN h :
    /\ h[i].role = "assistant" =>
         i < Len(h) /\ h[i + 1].role = "tool" /\ h[i + 1].calls = h[i].calls
    /\ h[i].role = "tool" => i > 1 /\ h[i - 1].role = "assistant"

\* What the model is sent is a history providers accept: each tool_use has its results
\* right behind it and no result is without its call, through rejected rounds, dropped
\* calls, pauses, resumes and compression; and the only call without an answer in a
\* stored pause is the one it waits for (runtime.go filterAssistantMessageForBlockedCallPause,
\* compress.go findKeepBoundary).
HistoryPaired ==
  /\ phase = "ask" => Paired(history)
  /\ phase = "paused" => Paired(Append(history, Results({pending.call}, {})))

\* A call that needed consent when it was classified took effect only if that very
\* call, not an equal one, had been allowed: an approval serves one call although it
\* is bound to tool and input alone (runtime.go Resume drops it before the loop).
ConsentSpentOnce ==
  \A e \in log : e.gated => \E a \in allowed : a.call = e.call

\* The history tells the truth about effects: a call is answered as done exactly when
\* it took effect, and one that took effect is missing only where its whole round
\* has been summarised (runtime.go Block, ExecuteAllClassified, compress.go).
EffectsReported ==
  phase \in {"ask", "paused"} =>
    /\ \A e \in log :
         \/ \E i \in DOMAIN history : e.call \in history[i].done
         \/ \A i \in DOMAIN history : \A c \in history[i].calls : c.round > e.call.round
    /\ \A i \in DOMAIN history : \A c \in history[i].done :
         c.kind = "decide" \/ \E e \in log : e.call = c

\* No task has more than MaxEscalations decisions taken for it, whether the runtime
\* decider, Emotion or the user takes them and however often it is paused.
DecisionsBounded == Cardinality(routed) <= MaxEscalations

\* docs/plugin_development_guide.md:595: a before_tool_call hook may require an approval
\* or lower a permission, and cannot raise it: a task delegated as read-only writes
\* nothing but what somebody was asked about and allowed.
ReadOnlyWritesNothing ==
  brief = "read-only" =>
    \A e \in log : e.call.kind \in {"write", "capped"} => \E a \in allowed : a.call = e.call

\* progress.go:19: the rolling summary replaces the rounds it was made from, and
\* runtime.go:61: PausedWork holds the frozen state of the task.  A decision that
\* a summary has mentioned stays before the model.
DecisionsKept ==
  phase = "ask" =>
    remembered \subseteq Decisions(history) \cup UNION {history[i].known : i \in DOMAIN history}

-----------------------------------------------------------------------------
(* The inductive strengthening behind the invariants above (proved in        *)
(* WorkLoop_proofs).                                                          *)

Actions == {"error", "approval", "escalation", "denied", "execute"}
PausedCalls == [kind : {"decision", "escalation", "approval"}, call : CallIds,
                approval : ApprovalKinds \cup {"none"}]
CurrentCalls == {calls[i].call : i \in DOMAIN calls}

\* Calls are in hand only while they run, a pause waits for one call, and a round that
\* has been started is one of the budget's.
LoopSound ==
  /\ calls \in Seq([call : CallIds, existed : BOOLEAN, action : Actions])
  /\ pending \in {None} \cup PausedCalls
  /\ log \subseteq [call : CallIds, gated : BOOLEAN]
  /\ phase \in {"ask", "run", "paused"} => round < MaxToolRounds
  /\ phase # "run" => calls = <<>> /\ at = 1 /\ ran = {}

\* Every decision taken for the task was counted.
RoutedCounted == IsFiniteSet(routed) /\ Cardinality(routed) <= escalations

\* What runs without having been asked about needs no consent.
RunningAllowed ==
  \A i \in DOMAIN calls :
    calls[i].action = "execute" => ~NeedsConsent(calls[i].call.kind, calls[i].existed)

\* Whatever precedes an assistant message belongs to earlier rounds than what follows it.
RoundsOrdered(h) ==
  \A a \in DOMAIN h : h[a].role = "assistant" =>
    \A i \in 1..(a - 1), k \in a..Len(h) :
      \A c \in h[i].calls, d \in h[k].calls : c.round < d.round

\* A history at the head of round r, and one that lacks only the results of its calls cs.
Closed(h, r) ==
  /\ Paired(h) /\ RoundsOrdered(h)
  /\ \A i \in DOMAIN h : \A c \in h[i].calls : c.round < r
Opened(h, r, cs) ==
  /\ Paired(Append(h, Results(cs, {}))) /\ RoundsOrdered(h)
  /\ \A i \in DOMAIN h : \A c \in h[i].calls : c.round < r \/ (i = Len(h) /\ c.round = r)
  /\ \A c \in cs : c.round = r

HistorySound ==
  /\ phase \in {"check", "ask"} => Closed(history, round)
  /\ phase = "run" => Opened(history, round, CurrentCalls)
  /\ phase = "paused" => Opened(history, round, {pending.call})

\* The history answers a call, or the round of the call has been summarised.
Reported(h, r, c) ==
  \/ \E i \in DOMAIN h : c \in h[i].done
  \/ c.round < r /\ \A i \in DOMAIN h : \A d \in h[i].calls : d.round > c.round

\* What the history says is done is an effect or a decision.
Truthful(h, effects) ==
  \A i \in DOMAIN h : \A c \in h[i].done :
    c \in h[i].calls /\ (c.kind = "decide" \/ \E e \in effects : e.call = c)

EffectsKept ==
  /\ \A e \in log : Reported(history, round, e.call) \/ (phase = "run" /\ e.call \in ran)
  /\ Truthful(history, log)
  /\ \A c \in ran : \E e \in log : e.call = c
  /\ phase = "paused" /\ pending.kind = "decision" => pending.call.kind = "decide"

LoopInv ==
  /\ TypeOK /\ LoopSound /\ RoutedCounted /\ ConsentSpentOnce /\ RunningAllowed
  /\ HistorySound /\ EffectsKept
=============================================================================
