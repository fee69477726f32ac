---------------------------- MODULE TurnPipeline ----------------------------
(***************************************************************************)
(* The turn runtime: chatTurnRuntime.Execute over the SQLite idempotency   *)
(* store and journal, its stages run by turn.Runtime.Execute, the stream   *)
(* of events each caller's sink receives, and the replay that answers a    *)
(* duplicate.  A call is one Execute; its turn id is a fresh uuid, so the  *)
(* call itself names its turn.  Text is abstracted to "text" or "none"     *)
(* (empty, or only the silence marker).                                    *)
(***************************************************************************)
EXTENDS Integers, Sequences, FiniteSets, SequencesExt

CONSTANTS
  Calls,         \* Execute calls, in any order and overlapping
  KeyOf,         \* the idempotency key of each call
  Keys,
  MaxApprovals,  \* bound: approval requests of the session
  MaxMissed,     \* bound: listings that fail while one call speaks
  MaxCrashes,    \* bound: process crashes
  MaxDbFaults    \* bound: idempotency writes that fail

ASSUME KeyAssumption == KeyOf \in [Calls -> Keys]
ASSUME BoundAssumption == {MaxApprovals, MaxMissed, MaxCrashes, MaxDbFaults} \subseteq Nat

VARIABLES
  config,     \* memory: MemoryStages; silent: SilentTermination; segments: reply delivery
  kind,       \* InboundKind behind each key
  idem,       \* turn_idempotency
  turns,      \* turns
  outbound,   \* turn_outbound_events of each turn, by seq
  messages,   \* messages rows written by turns
  approvals,  \* the session's approval requests, in creation order
  run,        \* each call's program state
  seen,       \* what each call's sink has been handed
  crashes, faults

vars == <<config, kind, idem, turns, outbound, messages, approvals, run, seen,
          crashes, faults>>

Kinds == {"user_message", "approval_action", "proactive_prompt"}
Statuses == {"running", "done", "failed", "approval_wait", "commit_failed_after_output"}
States == {"created", "normalizing", "memory_prepared", "emotion_prepared",
           "running_emotion", "approval_wait", "done", "failed",
           "commit_failed_after_output"}
EventTypes == {"stream_start", "stream_delta", "assistant_segment", "stream_end",
               "approval_required", "approval_updated", "turn_status"}
NoRecord == [turn |-> "none", status |-> "none"]
NoTurn == [state |-> "none", status |-> "none"]

\* Stage lists of chatTurnRuntime.stages.
Stages(k) ==
  CASE kind[k] = "approval_action" ->
         <<"normalize", "approval_apply", "resume", "approval_wait">>
    [] kind[k] = "proactive_prompt" ->
         IF config.memory
           THEN <<"normalize", "memory_prepare", "emotion_prepare", "emotion_loop", "memory_commit">>
           ELSE <<"normalize", "emotion_loop">>
    [] OTHER ->
         IF config.memory
           THEN <<"normalize", "memory_prepare", "emotion_prepare", "emotion_loop",
                  "memory_commit", "approval_wait">>
           ELSE <<"normalize", "emotion_loop", "approval_wait">>

KindOf(c) == kind[KeyOf[c]]
StageOf(c) == Stages(KeyOf[c])[run[c].at]
AtStage(c, name) == run[c].pc = "stage" /\ StageOf(c) = name

Result(state, terminal, status, out, err) ==
  [next |-> state, terminal |-> terminal, status |-> status, out |-> out, err |-> err]
Failed == Result("failed", TRUE, "failed", <<>>, TRUE)
Goes(state) == Result(state, FALSE, "", <<>>, FALSE)
NoResult == Result("created", FALSE, "", <<>>, FALSE)

Idle == [pc |-> "idle", at |-> 0, state |-> "created", cancelled |-> FALSE,
         notice |-> FALSE, output |-> "none", deferEnd |-> FALSE, streamed |-> FALSE,
         silenced |-> FALSE, segs |-> 0, known |-> <<>>, missed |-> 0, unreported |-> FALSE,
         listed |-> FALSE, res |-> NoResult, status |-> "", err |-> FALSE, dup |-> NoRecord]

\* Execute calls that own their turn and are still executing it.
Executing(c) == run[c].pc \notin {"idle", "refused", "duplicate", "replayed", "returned", "lost"}

\* A database write under the call's context reaches the database.
Alive(c) == ~run[c].cancelled

\* Proactive turns are started with the memory stages on: without them the engine
\* saves the turn before Emotion's silence is looked at (turn_runtime.go:771-791).
Init ==
  /\ config \in [memory : BOOLEAN, silent : BOOLEAN, segments : BOOLEAN]
  /\ kind \in [Keys -> Kinds]
  /\ (\E k \in Keys : kind[k] = "proactive_prompt") => config.memory
  /\ idem = [k \in Keys |-> NoRecord]
  /\ turns = [c \in Calls |-> NoTurn]
  /\ outbound = [c \in Calls |-> <<>>]
  /\ messages = {}
  /\ approvals = <<>>
  /\ run = [c \in Calls |-> Idle]
  /\ seen = [c \in Calls |-> <<>>]
  /\ crashes = 0 /\ faults = 0

-----------------------------------------------------------------------------
(* Emitting, completing, and the end of a stage *)

Shorter(a, b) == IF a < b THEN a ELSE b

\* The sink is handed the first n events of evs and refuses the next one, if
\* any.  journalingSink records an event before it passes it on; a plugin
\* wrapped around it refuses an event before it is recorded.
Sends(c, evs, n) ==
  /\ seen' = [seen EXCEPT ![c] = @ \o SubSeq(evs, 1, n)]
  /\ \E recorded \in {n, Shorter(n + 1, Len(evs))} :
       outbound' = IF Alive(c)
                     THEN [outbound EXCEPT ![c] = @ \o SubSeq(evs, 1, recorded)]
                     ELSE outbound

\* The elements of a sequence at some of its places, in order.
InOrder(places) ==
  [r \in 1 .. Cardinality(places) |->
     CHOOSE i \in places : Cardinality({j \in places : j <= i}) = r]
Selected(s, places) ==
  [r \in 1 .. Cardinality(places) |-> s[InOrder(places)[r]]]

\* Events sent one by one, each refusal ignored: the sink takes those at the
\* places taken.
SendsAny(c, evs, taken) ==
  \E recorded \in SUBSET (1 .. Len(evs)) :
    /\ taken \subseteq recorded
    /\ seen' = [seen EXCEPT ![c] = @ \o Selected(evs, taken)]
    /\ outbound' = IF Alive(c) THEN [outbound EXCEPT ![c] = @ \o Selected(evs, recorded)]
                   ELSE outbound

\* statusForState gives every state its own name.
StatusForState(s) == s

\* A stage function has returned; AfterStage takes over from it.
Returns(c, r) == run' = [run EXCEPT ![c].pc = "emit", ![c].res = r]

\* turn.Runtime.Execute after stage.Run: record the transition, emit the
\* result's events, then fail, finish or go on to the next stage.  Journal
\* errors are ignored, so a cancelled call leaves its row as it was.
AfterStage(c) ==
  LET r == run[c].res IN
  /\ run[c].pc = "emit"
  /\ \E n \in 0 .. Len(r.out) :
       LET refused == n < Len(r.out)
           err == r.err \/ refused
           fails == err /\ ~(r.terminal /\ ~refused /\ r.next = "approval_wait")
           last == r.terminal \/ run[c].at = Len(Stages(KeyOf[c]))
           status == IF refused /\ ~r.err THEN "failed"
                     ELSE IF r.status # "" /\ (fails \/ r.terminal) THEN r.status
                     ELSE StatusForState(r.next)
       IN
       /\ Sends(c, r.out, n)
       /\ turns' = IF Alive(c)
                     THEN [turns EXCEPT ![c].state = r.next,
                                        ![c].status = IF fails \/ last THEN status ELSE @]
                     ELSE turns
       /\ run' = IF fails \/ last
                   THEN [run EXCEPT ![c].pc = "closing", ![c].state = r.next,
                                    ![c].status = status, ![c].err = fails]
                   ELSE [run EXCEPT ![c].pc = "stage", ![c].state = r.next, ![c].at = @ + 1]
  /\ UNCHANGED <<config, kind, idem, messages, approvals, crashes, faults>>

-----------------------------------------------------------------------------
(* Entry: the idempotency record and the journal row *)

\* Mutant: a failed turn may be begun again under its key.
Free_Retried(k) == idem[k].status \in {"none", "failed"}
\* The idempotency key is free: nobody has begun the turn it names.
Free(k) == idem[k] = NoRecord

\* SQLiteIdempotencyStore.Begin: one transaction inserts the placeholder row
\* and the record, or removes the placeholder and reads the existing record.
Begin(c) ==
  LET k == KeyOf[c] IN
  /\ run[c].pc = "idle"
  /\ IF Free(k)
       THEN /\ idem' = [idem EXCEPT ![k] = [turn |-> c, status |-> "running"]]
            /\ turns' = [turns EXCEPT ![c] = [state |-> "created", status |-> "running"]]
            /\ run' = [run EXCEPT ![c].pc = "begun"]
       ELSE /\ run' = [run EXCEPT ![c].pc = "duplicate", ![c].dup = idem[k]]
            /\ UNCHANGED <<idem, turns>>
  /\ UNCHANGED <<config, kind, outbound, messages, approvals, seen, crashes, faults>>

\* The transaction fails: Execute returns the error and nothing is recorded.
BeginFails(c) ==
  /\ run[c].pc = "idle" /\ faults < MaxDbFaults
  /\ faults' = faults + 1
  /\ run' = [run EXCEPT ![c].pc = "refused"]
  /\ UNCHANGED <<config, kind, idem, turns, outbound, messages, approvals, seen, crashes>>

\* StartTurn fills the placeholder; a cancelled call cannot write it.
StartTurn(c) ==
  /\ run[c].pc = "begun"
  /\ run' = IF Alive(c) THEN [run EXCEPT ![c].pc = "stage", ![c].at = 1]
            ELSE [run EXCEPT ![c].pc = "closing", ![c].status = "failed", ![c].err = TRUE]
  /\ UNCHANGED <<config, kind, idem, turns, outbound, messages, approvals, seen,
                 crashes, faults>>

-----------------------------------------------------------------------------
(* The stages before Emotion speaks *)

Saved(c, roles) == messages \cup {[turn |-> c, role |-> r] : r \in roles}

Normalize(c) ==
  /\ AtStage(c, "normalize")
  /\ \E r \in {Goes("normalizing"), Failed} : Returns(c, r)
  /\ UNCHANGED <<config, kind, idem, turns, outbound, messages, approvals, seen,
                 crashes, faults>>

\* prepareInputAndMemoryAnchor saves the user's message, and with it the
\* notice that answers a pending manual memory command.  It may fail after
\* any of its writes.  A proactive turn persists nothing.
MemoryPrepare(c) ==
  /\ AtStage(c, "memory_prepare")
  /\ IF KindOf(c) = "proactive_prompt"
       THEN Returns(c, Goes("memory_prepared")) /\ UNCHANGED messages
       ELSE \/ \E notice \in IF Alive(c) THEN BOOLEAN ELSE {} :
                 /\ messages' = Saved(c, IF notice THEN {"user", "assistant"} ELSE {"user"})
                 /\ run' = [run EXCEPT ![c].pc = "emit", ![c].notice = notice,
                                       ![c].res = Goes("memory_prepared")]
            \/ \E roles \in IF Alive(c) THEN {{}, {"user"}, {"user", "assistant"}} ELSE {{}} :
                 messages' = Saved(c, roles) /\ Returns(c, Failed)
  /\ UNCHANGED <<config, kind, idem, turns, outbound, approvals, seen, crashes, faults>>

\* Memory retrieval fails the turn unless it is configured to fail open.
EmotionPrepare(c) ==
  /\ AtStage(c, "emotion_prepare")
  /\ \E r \in {Goes("emotion_prepared")} \cup (IF run[c].notice THEN {} ELSE {Failed}) :
       Returns(c, r)
  /\ UNCHANGED <<config, kind, idem, turns, outbound, messages, approvals, seen,
                 crashes, faults>>

\* approvalApplyStage: the first request of the session is answered, once.
ApprovalApply(c) ==
  /\ AtStage(c, "approval_apply")
  /\ IF approvals # <<>> /\ approvals[1] = "pending"
       THEN /\ approvals' = [approvals EXCEPT ![1] = "settled"]
            /\ Returns(c, Result("running_emotion", FALSE, "", <<"approval_updated">>, FALSE))
       ELSE Returns(c, Failed) /\ UNCHANGED approvals
  /\ UNCHANGED <<config, kind, idem, turns, outbound, messages, seen, crashes, faults>>

-----------------------------------------------------------------------------
(* Emotion speaks: messageStage, and resumeStage after an approval *)

Speaks(c) == run[c].pc = "stage" /\ StageOf(c) \in {"emotion_loop", "resume"}
Resuming(c) == StageOf(c) = "resume"

\* Proactive output is held back until Emotion has committed to speaking.
DefersOutput(c) == KindOf(c) = "proactive_prompt" /\ config.silent

UsesSegments(c) == config.segments /\ ~Resuming(c)
\* Mutant: token streaming is not suppressed for a proactive turn.
Streams_Proactive(c) == ~UsesSegments(c)
Streams(c) == ~UsesSegments(c) /\ ~DefersOutput(c)

\* The engine commits the turn itself unless the memory stages will.
EngineCommits(c) == Resuming(c) \/ ~config.memory

\* A manual memory notice is the whole reply, and already saved.
SpeakNotice(c) ==
  /\ Speaks(c) /\ run[c].notice
  /\ Returns(c, Result("done", FALSE, "done", <<"stream_delta", "stream_end">>, FALSE))
  /\ UNCHANGED <<config, kind, idem, turns, outbound, messages, approvals, seen,
                 crashes, faults>>

\* ApprovalService.ListSessionApprovals, which does not use the call's context,
\* answers a failed query with no requests at all.
Misses(c) == IF run[c].missed < MaxMissed THEN {TRUE} ELSE {}

\* The loop goes on, or stops, with what it now knows of the session's requests.
Looks(c, pc, now, fails) ==
  run' = [run EXCEPT ![c].pc = pc, ![c].known = IF fails THEN <<>> ELSE now,
                     ![c].missed = IF fails THEN @ + 1 ELSE @]

\* The stream opens, unless it is held back, and the engine is called: it
\* remembers the session's approvals, and saves the user's message if the
\* memory stages have not.
SpeakStart(c) ==
  /\ Speaks(c) /\ ~run[c].notice
  /\ \E n \in 0 .. 1 :
       /\ Sends(c, IF DefersOutput(c) THEN <<>> ELSE <<"stream_start">>,
                IF DefersOutput(c) THEN 0 ELSE n)
       /\ IF n = 0 /\ ~DefersOutput(c)
            THEN Returns(c, Failed) /\ UNCHANGED messages
            ELSE LET saves == ~config.memory /\ ~Resuming(c) IN
                 \/ /\ saves => Alive(c)
                    /\ messages' = IF saves THEN Saved(c, {"user"}) ELSE messages
                    /\ \E fails \in {FALSE} \cup Misses(c) : Looks(c, "speaking", approvals, fails)
                 \/ saves /\ Returns(c, Failed) /\ UNCHANGED messages
  /\ UNCHANGED <<config, kind, idem, turns, approvals, crashes, faults>>

\* A streamed token: deltaCB ignores the sink's error.
SpeakDelta(c) ==
  /\ run[c].pc = "speaking" /\ Streams(c) /\ ~run[c].streamed
  /\ \E taken \in SUBSET {1} : SendsAny(c, <<"stream_delta">>, taken)
  /\ run' = [run EXCEPT ![c].streamed = TRUE]
  /\ UNCHANGED <<config, kind, idem, turns, messages, approvals, crashes, faults>>

EventFor(status) == IF status = "pending" THEN "approval_required" ELSE "approval_updated"
EventsFor(requests) == [i \in 1 .. Len(requests) |-> EventFor(requests[i])]

\* A tool round may raise an approval request; emitApprovalDiff then reports
\* every request that changed since the last look, whoever changed it, and a
\* new pending one interrupts the turn.
Raised == {<<>>} \cup (IF Len(approvals) < MaxApprovals THEN {<<"pending">>} ELSE {})
SpeakToolRound(c) ==
  /\ run[c].pc = "speaking"
  /\ \E raised \in Raised :
       LET now == approvals \o raised
           changed == {i \in 1 .. Len(now) : i > Len(run[c].known) \/ run[c].known[i] # now[i]}
           events == Selected(EventsFor(now), changed)
       IN
       /\ changed # {}
       /\ approvals' = now
       /\ \E taken \in SUBSET (1 .. Len(events)) :
            /\ SendsAny(c, events, taken)
            /\ IF "approval_required" \in ToSet(events)
                 THEN run' = [run EXCEPT ![c].pc = "interrupted", ![c].known = now,
                                ![c].unreported = \E i \in (1 .. Len(events)) \ taken :
                                                    events[i] = "approval_required"]
                 ELSE run' = [run EXCEPT ![c].known = now]
  /\ UNCHANGED <<config, kind, idem, turns, messages, crashes, faults>>

\* The listing of a tool round fails: nothing is reported, and everything is
\* news to the next round.  A request raised by a tool call of Emotion's own
\* interrupts the turn all the same; one raised by the Work agent does not.
SpeakToolBlind(c) ==
  /\ run[c].pc = "speaking" /\ Misses(c) # {}
  /\ \E raised \in Raised :
       /\ approvals' = approvals \o raised
       /\ \/ Looks(c, "speaking", approvals, TRUE)
          \/ /\ raised # <<>>
             /\ run' = [run EXCEPT ![c].pc = "interrupted", ![c].known = <<>>,
                                   ![c].missed = @ + 1, ![c].unreported = TRUE]
  /\ UNCHANGED <<config, kind, idem, turns, outbound, messages, seen, crashes, faults>>

\* The turn gives way to the approval; a stream held back still opens.
SpeakWait(c) ==
  LET opens == IF DefersOutput(c) THEN <<"stream_start">> ELSE <<>> IN
  /\ run[c].pc = "interrupted"
  /\ \E n \in 0 .. Len(opens) :
       /\ Sends(c, opens, n)
       /\ Returns(c, IF n < Len(opens) THEN Failed
                     ELSE Result("approval_wait", FALSE, "approval_wait",
                                 <<"stream_end">>, FALSE))
  /\ UNCHANGED <<config, kind, idem, turns, messages, approvals, crashes, faults>>

\* The engine fails, possibly after its own commit wrote the reply.
SpeakFails(c) ==
  /\ run[c].pc = "speaking"
  /\ \E roles \in {{}} \cup (IF EngineCommits(c) /\ Alive(c) THEN {{"assistant"}} ELSE {}) :
       messages' = Saved(c, roles)
  /\ Returns(c, Failed)
  /\ UNCHANGED <<config, kind, idem, turns, outbound, approvals, seen, crashes, faults>>

\* The engine replies.  Emotion may decline a proactive turn by replying with
\* nothing, or with the silence marker, which streaming would have shown;
\* otherwise a stream that was held back opens now.
SpeakReply(c, reply) ==
  LET silenced == DefersOutput(c) /\ reply = "none" IN
  /\ run[c].pc = "speaking"
  /\ run[c].streamed /\ ~DefersOutput(c) => reply = "text"
  /\ IF EngineCommits(c) THEN Alive(c) /\ messages' = Saved(c, {"assistant"})
     ELSE UNCHANGED messages
  /\ \E n \in 0 .. 1 :
       LET opens == IF DefersOutput(c) /\ ~silenced THEN <<"stream_start">> ELSE <<>> IN
       /\ n <= Len(opens)
       /\ Sends(c, opens, n)
       /\ run' = IF silenced
                   THEN [run EXCEPT ![c].pc = "emit", ![c].silenced = TRUE,
                                    ![c].res = Result("done", TRUE, "done", <<>>, FALSE)]
                   ELSE IF n < Len(opens) THEN [run EXCEPT ![c].pc = "emit", ![c].res = Failed]
                   ELSE [run EXCEPT ![c].pc = "spoken", ![c].output = reply]
  /\ UNCHANGED <<config, kind, idem, turns, approvals, crashes, faults>>

\* emitReplyDeliverySegments: a reply worth segmenting is two segments here.
SpeakSegment(c) ==
  /\ run[c].pc = "spoken" /\ UsesSegments(c)
  /\ run[c].output = "text" /\ run[c].segs < 2
  /\ \E n \in 0 .. 1 :
       /\ Sends(c, <<"assistant_segment">>, n)
       /\ IF n = 0 THEN Returns(c, Failed) ELSE run' = [run EXCEPT ![c].segs = @ + 1]
  /\ UNCHANGED <<config, kind, idem, turns, messages, approvals, crashes, faults>>

\* With the memory stages the stream's end waits for the commit.
\* Mutant: it never waits.
HoldsEnd_Never(c) == FALSE
HoldsEnd(c) == config.memory /\ ~Resuming(c)
\* Mutant: the stage ends the stream although the commit will.
EndNow_Always(c) == <<"stream_end">>
EndNow(c) == IF HoldsEnd(c) THEN <<>> ELSE <<"stream_end">>

\* The stage ends.  A cancelled wait between segments counts as delivered.
SpeakEnd(c) ==
  LET r == run[c]
      cut == UsesSegments(c) /\ r.output = "text" /\ ~Alive(c)
  IN
  /\ r.pc = "spoken" /\ (r.segs = 1 => cut)
  /\ \E delivered \in {r.streamed \/ r.segs > 0} \cup (IF cut THEN {TRUE} ELSE {}) :
       LET text == IF r.output = "text" /\ ~delivered THEN <<"stream_delta">> ELSE <<>>
       IN run' = [run EXCEPT ![c].pc = "emit", ![c].deferEnd = HoldsEnd(c),
                             ![c].res = Result("done", FALSE, "done", text \o EndNow(c), FALSE)]
  /\ UNCHANGED <<config, kind, idem, turns, outbound, messages, approvals, seen,
                 crashes, faults>>

-----------------------------------------------------------------------------
(* After Emotion: commit, approvals, completion *)

\* memoryCommitStage: the reply is saved before the stream is closed.
MemoryCommit(c) ==
  LET r == run[c]
      committed == Result(r.state, FALSE, "", IF r.deferEnd THEN <<"stream_end">> ELSE <<>>, FALSE)
      failed == Result("commit_failed_after_output", TRUE, "commit_failed_after_output", <<>>, TRUE)
  IN
  /\ AtStage(c, "memory_commit")
  /\ \/ r.output = "none" /\ Returns(c, committed) /\ UNCHANGED messages
     \/ /\ r.output = "text" /\ Alive(c)
        /\ Returns(c, committed) /\ messages' = Saved(c, {"assistant"})
     \/ /\ r.output = "text" /\ Returns(c, failed)
        /\ \E roles \in {{}} \cup (IF Alive(c) THEN {{"assistant"}} ELSE {}) :
             messages' = Saved(c, roles)
  /\ UNCHANGED <<config, kind, idem, turns, outbound, approvals, seen, crashes, faults>>

\* Mutant: requests the tool loop has already reported are not listed again.
Listing_Unreported(c) == SubSeq(approvals, Len(run[c].known) + 1, Len(approvals))
Listing(c) == approvals

\* emitApprovalsStage lists every request of the session.  If the listing
\* fails it emits nothing: the engine answers with no requests, or with an
\* error, which turn.Runtime drops when the turn waits for approval.
EmitApprovals(c) ==
  LET s == run[c].state
      status == IF s = "approval_wait" THEN "approval_wait" ELSE "done"
  IN
  /\ AtStage(c, "approval_wait")
  /\ \E listed, err \in BOOLEAN :
       /\ listed => ~err
       /\ run' = [run EXCEPT ![c].pc = "emit", ![c].listed = listed,
                             ![c].known = IF listed THEN approvals ELSE @,
                             ![c].res = Result(s, TRUE, status,
                                               IF listed THEN EventsFor(Listing(c)) ELSE <<>>, err)]
  /\ UNCHANGED <<config, kind, idem, turns, outbound, messages, approvals, seen,
                 crashes, faults>>

\* closeTurnStream reports what an asynchronous sink could not deliver; unless
\* the turn has failed already, it fails now.
CloseStream(c) ==
  /\ run[c].pc = "closing"
  /\ \/ /\ run' = [run EXCEPT ![c].pc = "completing"]
        /\ UNCHANGED turns
     \/ /\ ~run[c].err
        /\ run' = [run EXCEPT ![c].pc = "completing", ![c].status = "failed", ![c].err = TRUE]
        /\ turns' = IF Alive(c) THEN [turns EXCEPT ![c].status = "failed"] ELSE turns
  /\ UNCHANGED <<config, kind, idem, outbound, messages, approvals, seen, crashes, faults>>

\* The deferred ids.Complete, whose own error is ignored.  It does not use
\* the call's context.
\* Mutant: the state is recorded for the status.
FinalStatus_State(c) == run[c].state
FinalStatus(c) == run[c].status
\* Mutant: an error returns before the record is completed.
Complete_OnSuccess(c) ==
  /\ run[c].pc = "completing"
  /\ run' = [run EXCEPT ![c].pc = "returned"]
  /\ idem' = IF run[c].err THEN idem ELSE [idem EXCEPT ![KeyOf[c]].status = run[c].status]
  /\ UNCHANGED <<config, kind, turns, outbound, messages, approvals, seen, crashes, faults>>
Complete(c) ==
  /\ run[c].pc = "completing"
  /\ run' = [run EXCEPT ![c].pc = "returned"]
  /\ \/ idem' = [idem EXCEPT ![KeyOf[c]].status = FinalStatus(c)] /\ UNCHANGED faults
     \/ faults < MaxDbFaults /\ faults' = faults + 1 /\ UNCHANGED idem
  /\ UNCHANGED <<config, kind, turns, outbound, messages, approvals, seen, crashes>>

-----------------------------------------------------------------------------
(* Duplicates, cancellation, crashes *)

\* The recorded events a duplicate of a turn with this status is shown again.
Replayed(status) ==
  CASE status \in {"running", "failed"} -> {}
    [] status = "approval_wait" -> {"approval_required"}
    [] OTHER -> {"stream_delta", "assistant_segment", "stream_end",
                 "approval_required", "approval_updated"}

\* replayDuplicate answers from what Begin read, whatever has happened since;
\* the first refusal ends the replay.
Replay(c) ==
  LET d == run[c].dup
      recorded == outbound[d.turn]
      kept == Selected(recorded, {i \in 1 .. Len(recorded) : recorded[i] \in Replayed(d.status)})
  IN
  /\ run[c].pc = "duplicate"
  /\ \E n \in 0 .. Len(kept), told \in {<<>>, <<"turn_status">>} :
       seen' = [seen EXCEPT ![c] = told \o SubSeq(kept, 1, n)]
  /\ run' = [run EXCEPT ![c].pc = "replayed"]
  /\ UNCHANGED <<config, kind, idem, turns, outbound, messages, approvals, crashes, faults>>

\* RunRegistry.Stop cancels the call's context.
Stop(c) ==
  /\ Executing(c) /\ Alive(c)
  /\ run' = [run EXCEPT ![c].cancelled = TRUE]
  /\ UNCHANGED <<config, kind, idem, turns, outbound, messages, approvals, seen,
                 crashes, faults>>

\* The process dies: what it was executing is lost, the database stays.
Crash ==
  /\ crashes < MaxCrashes
  /\ crashes' = crashes + 1
  /\ run' = [c \in Calls |-> IF Executing(c) \/ run[c].pc = "duplicate"
                              THEN [run[c] EXCEPT !.pc = "lost"] ELSE run[c]]
  /\ UNCHANGED <<config, kind, idem, turns, outbound, messages, approvals, seen, faults>>

Enter(c) == Begin(c) \/ BeginFails(c) \/ StartTurn(c)
Prepare(c) == Normalize(c) \/ MemoryPrepare(c) \/ EmotionPrepare(c) \/ ApprovalApply(c)
Speak(c) ==
  \/ SpeakNotice(c) \/ SpeakStart(c) \/ SpeakDelta(c) \/ SpeakToolRound(c) \/ SpeakToolBlind(c)
  \/ SpeakWait(c) \/ SpeakFails(c)
  \/ \E reply \in {"text", "none"} : SpeakReply(c, reply)
  \/ SpeakSegment(c) \/ SpeakEnd(c)
Finish(c) == MemoryCommit(c) \/ EmitApprovals(c) \/ AfterStage(c) \/ CloseStream(c) \/ Complete(c)

Next ==
  \/ \E c \in Calls : Enter(c) \/ Prepare(c) \/ Speak(c) \/ Finish(c) \/ Replay(c) \/ Stop(c)
  \/ Crash

Spec == Init /\ [][Next]_vars

-----------------------------------------------------------------------------
(* Properties *)

Count(s, e) == Cardinality({i \in 1 .. Len(s) : s[i] = e})
Ends(s) == Count(s, "stream_end")
Content == {"stream_delta", "assistant_segment"}
Visible == {"stream_start", "stream_delta", "stream_end", "assistant_segment",
            "approval_required"}
SavedBy(k, role) == {m \in messages : KeyOf[m.turn] = k /\ m.role = role}

\* Every variable stays in its set.
TypeOK ==
  /\ idem \in [Keys -> [turn : Calls, status : Statuses] \cup {NoRecord}]
  /\ turns \in [Calls -> [state : States, status : Statuses] \cup {NoTurn}]
  /\ \A c \in Calls : ToSet(outbound[c]) \cup ToSet(seen[c]) \subseteq EventTypes
  /\ messages \subseteq [turn : Calls, role : {"user", "assistant"}]
  /\ approvals \in BoundedSeq({"pending", "settled"}, MaxApprovals)

\* However often a message is delivered, and whatever crashes, stops or
\* failures happen between, it is recorded once and answered at most once:
\* only the call that owns the key ever reaches Emotion.
AnsweredOnce ==
  \A k \in Keys : \A role \in {"user", "assistant"} : Cardinality(SavedBy(k, role)) <= 1

\* With the memory stages, a client that has been shown both the reply and
\* the end of its stream can rely on the reply being in the history: the
\* commit comes first, and a failed one leaves the stream open.
EndedReplyIsSaved ==
  \A c \in Calls :
    (/\ config.memory /\ run[c].dup = NoRecord
     /\ Ends(seen[c]) > 0 /\ \E e \in Content : Count(seen[c], e) > 0
     /\ run[c].output = "text")
    => [turn |-> c, role |-> "assistant"] \in messages

\* One stream, one end, and no words after it, for the client and for every
\* replay of the journal.
StreamEndsOnce ==
  \A c \in Calls : \A s \in {seen[c], outbound[c]} :
    /\ Ends(s) <= 1
    /\ \A i, j \in 1 .. Len(s) : (s[i] = "stream_end" /\ s[j] \in Content) => j < i

\* A proactive turn Emotion declined leaves nothing: nothing the user can see
\* at the call or at any duplicate of it, and no message in the history.
SilenceKept ==
  \A c \in Calls : run[c].silenced =>
    /\ \A d \in Calls : KeyOf[d] = KeyOf[c] => ToSet(seen[d]) \cap Visible = {}
    /\ SavedBy(KeyOf[c], "assistant") = {} /\ SavedBy(KeyOf[c], "user") = {}

\* A key stays "running" only while a call owns it, or when the process died
\* or the final write was lost: errors, cancellation and every early return
\* settle it.
RunningIsOwned ==
  \A k \in Keys : idem[k].status = "running" =>
    LET c == idem[k].turn IN
    Executing(c) \/ run[c].pc = "lost" \/ faults > 0

\* It takes two failures for a turn to wait for an approval its user has not been shown.
\* A turn recorded as waiting whose last listing was answered has put before its user
\* every request it knew of that is still open, those of other turns included; and one
\* whose tool loop could report the request that interrupted it has shown one, whatever
\* becomes of that listing.  A proactive turn never lists them.
WaitShowsRequest ==
  \A k \in Keys : (idem[k].status = "approval_wait" /\ kind[k] # "proactive_prompt") =>
    LET c == idem[k].turn IN
    /\ run[c].listed =>
         /\ run[c].known # <<>>
         /\ Count(seen[c], "approval_required") >=
              Cardinality({i \in 1 .. Len(run[c].known) : approvals[i] = "pending"})
    /\ ~run[c].unreported => "approval_required" \in ToSet(seen[c])

\* The record of a key never changes hands, and once it says how the turn ended, what a
\* duplicate is answered from is final: the record, the events in the journal and the
\* messages of the turn no longer change (SQLiteIdempotencyStore.Complete, replayDuplicate).
AnswerIsFinal ==
  [][\A k \in Keys : idem[k] # NoRecord =>
       /\ idem'[k] # NoRecord /\ idem'[k].turn = idem[k].turn
       /\ idem[k].status # "running" =>
            /\ idem'[k] = idem[k]
            /\ outbound'[idem[k].turn] = outbound[idem[k].turn]
            /\ \A role \in {"user", "assistant"} : SavedBy(k, role)' = SavedBy(k, role)]_vars

-----------------------------------------------------------------------------
(* The strengthening that makes the properties above inductive: what holds *)
(* of one call at each place of its program.                               *)

Early == {"normalize", "memory_prepare", "emotion_prepare", "approval_apply"}
Emotion == {"emotion_loop", "resume"}
Late == {"memory_commit", "approval_wait"}
Speaking == {"speaking", "interrupted", "spoken"}
Staged == {"stage", "emit"} \cup Speaking
Ending == {"closing", "completing", "returned"}
Final == {"done", "failed", "approval_wait", "commit_failed_after_output"}
Requests == {"pending", "settled"}

Records == [turn : Calls, status : Statuses] \cup {NoRecord}
Results == [next : States, terminal : BOOLEAN, status : Final \cup {""},
            out : Seq(EventTypes), err : BOOLEAN]
RunState ==
  [pc : {"idle", "refused", "begun", "duplicate", "replayed", "lost"} \cup Staged \cup Ending,
   at : Nat, state : States, cancelled : BOOLEAN, notice : BOOLEAN,
   output : {"none", "text"}, deferEnd : BOOLEAN, streamed : BOOLEAN, silenced : BOOLEAN,
   segs : Nat, known : Seq(Requests), missed : Nat, unreported : BOOLEAN, listed : BOOLEAN,
   res : Results, status : Final \cup {""}, err : BOOLEAN, dup : Records]

Typed ==
  /\ config \in [memory : BOOLEAN, silent : BOOLEAN, segments : BOOLEAN]
  /\ kind \in [Keys -> Kinds]
  /\ (\E k \in Keys : kind[k] = "proactive_prompt") => config.memory
  /\ idem \in [Keys -> Records]
  /\ turns \in [Calls -> [state : States, status : Statuses] \cup {NoTurn}]
  /\ outbound \in [Calls -> Seq(EventTypes)]
  /\ messages \subseteq [turn : Calls, role : {"user", "assistant"}]
  /\ approvals \in Seq(Requests) /\ Len(approvals) <= MaxApprovals
  /\ run \in [Calls -> RunState]
  /\ seen \in [Calls -> Seq(EventTypes)]
  /\ crashes \in Nat /\ faults \in Nat

Owns(c) == idem[KeyOf[c]] # NoRecord /\ idem[KeyOf[c]].turn = c
Shows(c) == ToSet(seen[c]) \cup ToSet(outbound[c])
Unwritten(c) == \A role \in {"user", "assistant"} : [turn |-> c, role |-> role] \notin messages

\* A call in a stage is at one of its list; the Emotion stage is the one that speaks.
Placed(c) ==
  /\ run[c].pc \in Staged => run[c].at \in 1 .. Len(Stages(KeyOf[c]))
  /\ run[c].pc \in Speaking => StageOf(c) \in Emotion

\* Only the call that the record of its key names executes and writes.
Owned(c) ==
  /\ run[c].pc \in {"begun"} \cup Staged \cup Ending => Owns(c)
  /\ Owns(c) => /\ run[c].pc \in {"begun", "lost"} \cup Staged \cup Ending
                /\ run[c].pc # "returned" => idem[KeyOf[c]].status = "running"
                /\ run[c].pc = "returned" =>
                     \/ idem[KeyOf[c]].status = run[c].status
                     \/ idem[KeyOf[c]].status = "running" /\ faults > 0
  /\ ~Unwritten(c) => Owns(c)

\* Who does not own its key has done nothing, and was shown at most what the
\* owner's journal holds.
Echoes(c) ==
  /\ run[c].pc = "idle" => run[c] = Idle
  /\ run[c].pc \in {"idle", "refused", "duplicate"} => seen[c] = <<>>
  /\ run[c].pc \in {"duplicate", "replayed"} =>
       /\ idem[KeyOf[c]] # NoRecord /\ run[c].dup # NoRecord
       /\ run[c].dup.turn = idem[KeyOf[c]].turn
  /\ ~Owns(c) =>
       /\ outbound[c] = <<>> /\ ~run[c].silenced /\ run[c].output = "none"
       /\ seen[c] # <<>> => idem[KeyOf[c]] # NoRecord
       /\ idem[KeyOf[c]] # NoRecord =>
            ToSet(seen[c]) \subseteq {"turn_status"} \cup ToSet(outbound[idem[KeyOf[c]].turn])

\* What a stage may return: an error with no events, the end of the turn only
\* where the stages end or Emotion declined, a state a turn can end in from
\* Emotion on.
Answers(c) ==
  LET r == run[c].res IN
  /\ run[c].pc = "emit" =>
       /\ r.err => r.out = <<>> /\ r.terminal
       /\ StageOf(c) \in Early /\ ~r.err => ~r.terminal
       /\ StageOf(c) \in Emotion \cup Late => r.next \in Final
       /\ r.terminal => r.status \in Final
       /\ r.terminal /\ StageOf(c) # "approval_wait" => r.status # "approval_wait"
  /\ run[c].pc = "stage" /\ StageOf(c) \in Late => run[c].state \in Final
  /\ run[c].pc \in Ending => run[c].status \in Final

\* Until Emotion is called.
Before(c) ==
  \/ run[c].pc \in {"idle", "refused", "begun"}
  \/ run[c].pc = "stage" /\ StageOf(c) \in Early \cup Emotion
  \/ run[c].pc = "emit" /\ StageOf(c) \in Early
Unspoken(c) ==
  /\ Before(c) \/ run[c].pc \in {"speaking", "interrupted"} =>
       run[c].output = "none" /\ ~run[c].deferEnd
  /\ Before(c) => /\ ~run[c].silenced
                  /\ Shows(c) \subseteq {"approval_updated"}
                  /\ KindOf(c) = "proactive_prompt" => Unwritten(c)
  /\ Before(c) /\ run[c].pc = "emit" => ToSet(run[c].res.out) \subseteq {"approval_updated"}

\* No words after the end of a stream.
Closed(s) == \A i, j \in 1 .. Len(s) :
               (s[i] = "stream_end" /\ s[j] \in Content \cup {"stream_end"}) => j <= i
\* The places from which words may still come.
MayEnd(c) ==
  \/ Before(c) \/ run[c].pc \in Speaking
  \/ run[c].pc = "emit" /\ (StageOf(c) \in Emotion \/ ToSet(run[c].res.out) \cap (Content \cup {"stream_end"}) # {})
  \/ run[c].pc = "stage" /\ run[c].deferEnd /\ StageOf(c) = "memory_commit"
Ordered(c) ==
  /\ Closed(seen[c]) /\ Closed(outbound[c])
  /\ run[c].pc = "emit" => Closed(run[c].res.out)
  /\ MayEnd(c) => "stream_end" \notin Shows(c)
  /\ run[c].pc = "emit" /\ run[c].deferEnd /\ StageOf(c) \in Emotion =>
       "stream_end" \notin ToSet(run[c].res.out)

\* An end is not sent while the text before it is not saved.
Withheld(c) ==
  config.memory /\ run[c].output = "text" /\ [turn |-> c, role |-> "assistant"] \notin messages =>
    /\ "stream_end" \notin ToSet(seen[c])
    /\ run[c].pc = "emit" => "stream_end" \notin ToSet(run[c].res.out)
    /\ run[c].pc = "spoken" => ~Resuming(c)

\* What is held back until Emotion speaks, and for good if it declines.
Hidden(c) ==
  /\ (run[c].pc = "speaking" /\ DefersOutput(c)) \/ run[c].silenced =>
       Shows(c) \cap Visible = {} /\ Unwritten(c)
  /\ run[c].silenced => /\ run[c].pc \in {"emit", "lost"} \cup Ending
                        /\ run[c].pc = "emit" => run[c].res.terminal /\ run[c].res.out = <<>>

\* The listing a call has last seen, and what its user was shown of it.
StillOpen(c) ==
  \A i \in 1 .. Len(run[c].known) :
    i <= Len(approvals) /\ (approvals[i] = "pending" => run[c].known[i] = "pending")
Shown(c) ==
  \E n \in 0 .. Len(seen[c]) : \A i \in 1 .. Len(run[c].known) : run[c].known[i] = "pending" =>
    n + i <= Len(seen[c]) /\ seen[c][n + i] = "approval_required"
Asking(c) ==
  \/ run[c].pc = "interrupted"
  \/ run[c].pc = "emit" /\ run[c].res.next = "approval_wait"
  \/ run[c].pc = "stage" /\ StageOf(c) \in Late /\ run[c].state = "approval_wait"
Told(c) == run[c].unreported \/ "approval_required" \in ToSet(seen[c])
Waits(c) ==
  /\ StillOpen(c)
  /\ Asking(c) => approvals # <<>> /\ Told(c)
  /\ run[c].pc = "emit" /\ StageOf(c) = "approval_wait" =>
       /\ run[c].res.terminal
       /\ run[c].listed => run[c].res.out = EventsFor(run[c].known)
       /\ run[c].res.status = "approval_wait" => Told(c) /\ (run[c].listed => run[c].known # <<>>)
  /\ run[c].pc \in Ending /\ run[c].status = "approval_wait" /\ KindOf(c) # "proactive_prompt" =>
       Told(c) /\ (run[c].listed => run[c].known # <<>> /\ Shown(c))

CallSound(c) ==
  /\ Placed(c) /\ Owned(c) /\ Echoes(c) /\ Answers(c) /\ Unspoken(c) /\ Ordered(c)
  /\ Withheld(c) /\ Hidden(c) /\ Waits(c)

\* A record names a call of its key.
Named == \A k \in Keys : idem[k] # NoRecord => KeyOf[idem[k].turn] = k
\* Whoever owns its key has its row in the journal.
Journaled == \A c \in Calls : Owns(c) => turns[c] # NoTurn

\* Checked on the instances before it was proved.
TurnInv == Typed /\ Named /\ Journaled /\ \A c \in Calls : CallSound(c)
=============================================================================
