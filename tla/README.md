# EmoAgent: specification and verification

TLA+ models of EmoAgent (`github.com/longyisang/emoagent`), the TLC runs that
check them on small instances and the TLAPS proofs of what holds for every
value of their constants.

EmoAgent is a companion chat agent with two cores. **Emotion** talks to the
user; **Work** executes delegated tasks with tools. They exchange exactly three
structures: a task brief, a task report and a decision packet
(`docs/dev/invariants.md`, 1). Everything durable is in one SQLite file and the
files of the user; one process runs the HTTP/WebSocket server, the platform
adapters, the background loops and, below it, the processes of plugins.

## 1. Inventory

State, operations and interactions of every part; what makes it hard; what
makes it correct.

| part (under `src/internal`) | state | operations | hard behaviour | correct means | module |
|---|---|---|---|---|---|
| `work/approval.go`: approval service | `approval_requests` | create, approve, reject, consume, expire | decided by the user while sweeps and resumes run; deadlines | a request is decided once and pays for one execution | `Approvals`, `ApprovalLedger` |
| `work/pending.go`, `pending_store.go`, `resume_tool.go`, `delegate_tool.go`, `app/work_service.go`: pending decisions | `pending_decisions`, one row per paused task with a leased claim; local state of each handler | Put, ClaimForResume, ReleaseClaim, RequeuePaused, FinalizeResolved, ExpireOnce, ArchiveOnce | leases that lapse under a running handler, rows replaced under it, two-statement updates, crash | a claim is exclusive while it lasts; "resolved" needs consent; everything is archived | `WorkDecision` |
| `work/runtime.go`, `compress.go`, `tool/dispatch.go`: the Work loop | history, round, scope, escalations, the pending call | ask, classify, execute, pause, resume, compress | edits of the history from five places; a grant bound to an input, not to a call; state that does not survive a pause | valid history, truthful about effects; one call per consent; a budget of decisions | `WorkLoop` |
| `toolapproval/`, `chat/engine.go` (ContinueAfterApproval) | `pending_direct_tool_calls` | park, claim, consume, execute, settle | each statement separate, crash between execution and record | the call runs as decided, once, and the row does not lie | `DirectToolApproval` |
| `turn/runtime.go`, `sqlite_idempotency.go`, `sqlite_journal.go`, `chat/turn_runtime.go` | `turns`, `turn_idempotency`, `turn_outbound_events` | begin, stages, emit, complete, replay duplicate | duplicates of a running, failed or crashed turn; commit that fails after the reply left | one message is answered once; the stream ends once, after the commit | `TurnPipeline` |
| `storage/memory_extraction_jobs.go`, `memory_segments.go`, `memoryhost/extraction_*.go`, `bridge.go` | `memory_extraction_jobs`, extraction columns of `memory_segments` | enqueue/merge, scan, claim, run, complete, fail, finalize, pin | workers overtaken after their claim, merging into a row read earlier, a segment that stays active | nothing recorded as extracted that was not read, as far as the limit of an extraction goes; nothing out of view | `MemoryExtraction` |
| `agentaffect/` | `agent_affect_jobs`, `_job_batches`, `_states` | enqueue, claim, evaluate, commit, fail, supersede, reset | claims that expire under a waiting worker; the mood moves under an evaluation; retries passed by later jobs | a turn moves the mood at most once, in order, and is settled in the end | `AffectJobs` |
| `resource/changeset.go` | `host_resource_changesets`, the user's files, the quarantine | prepare, apply, cancel, restore | no lock from check to act, edits in between, lost status writes, crash | nothing destroyed that no preview showed; no change twice | `ChangeSet` |
| `plugin/runtime_supervisor.go`, `process_runner.go`, `jsonrpc.go`, `app/plugin_service.go` | slots and generations, processes, failure counts; `plugin_enabled_state` | ensure, call, stop, reap, fail, quarantine; enable, disable, restart, delete, close | a start superseded while it runs; one death reported by many | no process is forgotten, one crash counts once, nobody waits in vain | `PluginRuntime` |
| `turn/outbound_buffer.go` | bounded queue | emit, coalesce, drop, close | slow client, late emit after close | order of deltas kept; only progress is dropped | not modelled |
| `chat/handler.go`, `conversation/run_registry.go` | the run of each session | start, cancel, supersede | cancel races with completion | one run per session | not modelled |
| `sidecar/` | process state | start, restart, probe | exit during a call, backoff | a healthy process or an error | not modelled |
| `proactive/` | valves, attempts | gate, run | two triggers at once, quiet hours | rate limits hold | not modelled |
| `platform/onebotv11/`, `app/platform_gateway.go` | receipts, echo table | receive, send, match | duplicate events, late echoes | one inbound event, one turn | not modelled |
| `resource/broker.go`, `execution/`, `replydelivery/`, `command/`, `context/`, `memoryhost/bridge.go` (recall), `storage/` (schema, media), `llm/`, `tokenmeter/`, `websearch/`, `configcenter/`, `promptcenter/`, `tools/`, `web/`, scripts, SDK | rows and files of their own | transformation of data, I/O, administration | - | - | not modelled |

How they interact. A chat message becomes a turn (`chat/turn_runtime.go`). In it
Emotion may call `delegate_to_work`; the Work loop runs tools until it is done or
needs a decision. The decision is parked by the registry, together with an
approval request if the user's consent is required. The user decides over HTTP,
WebSocket or the platform, which starts another turn; Emotion then calls
`resume_work`, which claims the row, consumes the request and resumes the loop.
A tool call Emotion makes itself is parked by `toolapproval` and continued by the
turn that carries the decision. After each message the memory bridge appends an
episode to the current segment and the turn queues an evaluation of the mood; both
queues are read by workers in the background. Tools reach the user's files through
change sets, and plugins through the supervisor, as does every hook. The parts share
state only through SQLite, the files and the process table.

## 2. Modules

```
ApprovalLedger          what an approval request promises (abstract)
Approvals               approval_requests and its statements
 |- WorkDecision        pending decisions, resume_work, cleanup loop   -- implements ApprovalLedger
 |   |- WorkDecision_proofs
 |   `- MCWorkDecision
 `- DirectToolApproval  parked tool calls of Emotion                   -- implements ApprovalLedger
     |- DirectToolApproval_proofs
     `- MCDirectToolApproval
WorkLoop                the loop a decision interrupts
 |- WorkLoop_proofs
 `- MCWorkLoop
TurnPipeline            one Execute call per delivery of a message
 |- TurnPipeline_proofs
 `- MCTurnPipeline
MemoryExtraction        the extraction queue
 |- MemoryExtraction_proofs
 `- MCMemoryExtraction
AffectJobs              the queue of mood evaluations
 |- AffectJobs_proofs
 `- MCAffectJobs
PluginRuntime           the processes of a plugin
 |- PluginRuntime_proofs
 `- MCPluginRuntime
ChangeSet               staged edits of the user's files
 |- ChangeSet_proofs
 `- MCChangeSet
```

**Conventions.** One SQL statement, transaction, mutex-protected section or system
call is one action. A handler is cut wherever it leaves the database or the lock, and at
each cut it may be overtaken, fail or die. Deadlines are countdowns in ticks (the
code's `deadline <= now` is `countdown = 0`) or, where only their order with other
events matters, a choice that the time is past. `Crash` and `Restart` lose what lives in
memory and keep the tables; the restart is immediate. Operators named `X_Y` next to a
definition `X` are mutations of it, used to check that each property can fail; no
specification refers to them.

**Approvals.** `approval[a]` is a row of `approval_requests`; the user's choice is
an option id, of which "allow" is one. `toolRuns[a]` is a history variable: the
executions made under request `a`. Each of `Created`, `ApproveRequest`,
`RejectRequest`, `Consumed`, `Expired` is one function of `work/approval.go`.
`ImplementsLedger` is the refinement: `StandingOf` maps status and choice of a row to
the ledger's standing. A request whose time has run out but which nobody marked
still counts as open in the ledger; no operation can decide it.

**WorkDecision.** `row[t]` is the `pending_decisions` row of a task, `handler[h]`
the local state of a `resume_work` call (its snapshot of the row, its verdict).
`Put`, `ClaimForResume`, `ReleaseClaim`, `FinalizeResolved`, `RequeuePaused`,
`ExpireOnce` and `ArchiveOnce` keep their names; `Decide`, `Resume`,
`AwaitApproval`, `FactoryFails`, `LoseOutcome` are the branches of the handler
between them. `promise[h]` is a history variable for the lease a handler was told
it has. `ExpireOnce` is one action because it runs in one critical section, but the
failure of any `ExpirePendingRequest` in it and a crash in the middle are modelled.

**WorkLoop.** One task from its brief to its report. `phase` says where the loop is:
`check` (head of an iteration), `ask` (the model is asked), `run` (a classified batch
executes, call by call), `paused`, `reported`, or `lost` when nobody resumes it. A reply is
a sequence of call kinds; a kind stands for one tool with one input, so two calls of
a kind have the same approval binding. `ClassifyCall` follows the order of
`Dispatcher.ClassifyCall`: the hook is asked before permission and approval, so a
hooked call that was allowed is asked about again and refused. The whole batch is
classified when it arrives, against the file as it is then; others may create or remove
the file while calls run (`EditFile`). `Pause` stores what `ResumeBlob` stores: the
history, the escalation count, the pending call, and no progress. `scope` is the
permission in force; `ResumeAllowed` raises it as `resume_tool.go` does. Compression,
its summary and whether the budget of tokens is exhausted are choices.

**DirectToolApproval.** `call[a]` is the parked row of request `a`, `turn[k]` the
continuation a turn runs after recording the decision. Every statement of the store
is an action, the request (`CreateRequest`) and the parked row (`Park`) included, and
`GiveUp` ends a continuation between any two.

**TurnPipeline.** A call is one `chatTurnRuntime.Execute`. Its turn id is always a
fresh uuid, so the call names its turn; `KeyOf` gives its idempotency key.
`run[c]` is the call's `TurnContext` and its position: entering, running stage
`at` of `Stages`, between a stage and `turn.Runtime`'s handling of its result
(`AfterStage`), closing, completing. Emotion's stage is cut at the points where
events leave. `seen[c]` is what the caller's sink was handed, `outbound[c]` the
journal's rows: the journal is written first and its errors are dropped, so a sink
that refuses an event leaves it recorded, and a stopped call records nothing more.
`known` is the last listing of the session's requests the call read. A listing may fail:
`ApprovalService.ListSessionApprovals` turns a failed query into an empty list, so the loop then
knows of no request (`SpeakToolBlind`), and the last stage lists nothing (`EmitApprovals`); the
stage's own error branch is there too, although the engine never returns that error. `missed`
counts failures in the loop, `unreported` says that the request which interrupted the turn was
raised in a round that could not report it, `listed` that the last listing was answered. Text is "text"
or "none"; a reply of "none" is empty or only the silence marker. A reply worth
segmenting has two segments. Requests are raised by tool rounds and answered by
approval turns; how is the subject of `Approvals`. The refusals of the sink stand for
a closed connection and for a plugin's wrapper, and may happen at any event.

**MemoryExtraction.** `seg`, `job` are the two tables, `worker[w]` the job
snapshot a worker holds, `caller[c]` the position of a goroutine inside
`EnqueueMemoryExtractionJob`, which looks up, merges or inserts, and marks the
segment in separate statements. Time on a segment is a counter of the moments its
`last_activity_at` moved. `covered` is a history variable for what the memory core
(an external library) has read. The core reads the episodes a request selects, but no more than
its limit (`episode_limit`, 50 by default and 1 for a pin); which of them is the
core's affair (`Readings`), and it answers "skipped" only for a reading it has made. `mark` is a
history variable, too: the trigger with which the recorded job was last asked for. Which of several claimable
jobs a worker takes is left open (the code orders them by priority), as is how
long a segment must be idle.

**AffectJobs.** `jobs` and `batches` are the rows of the queue, `moods` the rows of the
state table, which only grows; the mood of an owner is its latest row. `worker[w]` is
`ProcessNextBatch`: the claim (one transaction that first releases expired claims), the
listing of the batch with the mood it meets, the model call, the base check and the commit
are separate actions. `wait` is the batch whose failure postponed a job. Each row of `moods` carries
the turns it folds, a history field. `writer[r]` is a reset, a delta or a submitted
impact, none of which looks at the mood again before it writes.

**ChangeSet.** `disk[f]` is the object at a path: nothing, a file or a directory with
`rev` for what the baseline hash or the metadata would notice and `tree` for what lies
below. `row[c]` is the stored plan with its baseline, `call[p]` the goroutine that
applies, cancels or restores a change: reading the row, marking it, verifying,
acting and recording are separate steps, and `UserEdits` may come between any two of them.
`lost`, `late`, `effects` and `excused` are history variables: objects destroyed,
objects that appeared between a check and its act, how often a change was carried
out, and the changes applied twice at once or whose "applying" mark was lost.

**PluginRuntime.** One plugin. A start makes a slot and a generation; `slots[g]` stays
after it has left the map, as those who hold a pointer to it keep it, and `current` is
the one in the map. `row`, `registered` and `known` are the three places that say which
version is enabled: the table, `PluginService` and the supervisor. A section under
`RuntimeSupervisor.mu` is one action; `actor[p]` is where each goroutine is between two of
them and which generation it holds: hooks, tools and commands (`Callers`) and the holder of
`PluginService.mu` (`Admin`), whose `order` is the operation in progress with its roll-back.
`alarm` and `condemned` are the protocol errors and the stops that goroutines of their
own are about to deliver. `Blame` is `recordRuntimeError` without a generation. Times
(idle, stable, backoff) are choices.

## 3. Runs

| run | instance | asks | states |
|---|---|---|---|
| `work_decision_safety` | 1 task, 2 requests, 2 resume calls, 2 rows written, 2 claims | one execution per grant, leases, consent behind "resolved", a timeout closes the request | 1.5 M |
| `work_decision_live` | 2 tasks sharing the request table, 1 resume call | refinement of the ledger; every decision is archived in the end | 1.1 M |
| `direct_tool_approval` | 2 calls, 2 deciding turns | the row is honest, one continuation per call, refinement of the ledger | 31 k |
| `work_loop` | 1 task, every scope, 4 rounds, 2 escalations, 1 edit from outside | history paired and truthful, one call per consent, decisions bounded | 4.0 M |
| `work_loop_hook`, `work_loop_summary` | 3 rounds of any reply; 6 rounds of two kinds | two statements of the documents the code does not keep (section 5) | counterexamples |
| `turn_duplicates` | 1 message of any kind, delivered twice, 1 crash, 1 lost write, every configuration; or a message and an approval turn of one session with failing listings | answered once, saved before it ends, stream ends once, silence leaves nothing, a "running" record has an owner, who waits was shown what its listings knew of | 3.1 M |
| `extraction_workers` | 1 segment, 2 jobs, 2 attempts, 3 claims, 2 episodes per extraction; 2 workers and a caller, a worker and 2 callers, or a segment of 3 episodes | a recorded window was read as far as the limit goes, nothing unread drops out of view, late workers leave no trace | 1.7 M |
| `affect_jobs` | 2 owners, 2 turns, 2 workers, 1 other writer, 2 attempts, 1 fault | folded once, one batch per owner, order kept but for retries, settled in the end | 258 k |
| `changeset` | 1 change over 2 paths with an edit and a fault, or 2 changes of 1 path; 2 calls | nothing lost unseen, no change twice | 1.2 M |
| `plugin_runtime` | 2 callers, 1 administrative operation, 2 versions, 2 generations, quarantine at 2 | no orphan process, a crash counts once, waiters released, use count exact | 3.2 M |
| `plugin_runtime_stop` | the same | what a test name says and the code does not keep (section 5) | counterexample |

**Why the bounds are enough.** *WorkDecision*: the hazards are races between two
resume calls, between a resume and the sweep, and between a resume and a row replaced under
it (by the next pause, or by `Put` under a live task id, which the registry permits although
the schema of `delegate_to_work` names no task id);
two handlers, two rows written in a task's life and two claims produce each of them,
including a claim that lapses, is taken by the second handler and is finalized by
the first. TTLs of one or two ticks make every order of the deadlines reachable,
because the clock may stop anywhere. A second task matters only for whose request
is consumed: `SharedSpec` adds it, with one claim once both tasks have a row.
*MemoryExtraction*: two jobs per segment allow a settled job to be followed by another;
two workers and three claims allow fail, retry and a takeover of the last attempt; two
instants of activity allow a message during an extraction, and a third makes the segment
longer than the limit of two. Segments share nothing but
the workers, so one is checked. The races of two workers, the races of two callers with pins,
and the segment that outgrows the limit are three scenes of one run (`SceneSpec`); in the
last two each job is claimed once. *TurnPipeline*:
only the first delivery of a key executes and later ones only read, so two deliveries
suffice; turns of one session meet only in its approval requests, which the second scene
(`MCSpec`) shares between two turns: a user message, which may be stopped and whose loop may miss
one listing, and an approval action, with the memory stages and without faults; the last listing
of either may fail. One crash suffices
because a key left behind is never executed again. *AffectJobs*: two turns are of one
owner or of two; two attempts and one fault give a late worker, a
takeover and a final failure; `MCSpec` fixes the names of the owners and lets the other
writer act where both turns are of its owner. *ChangeSet*: a move needs two paths;
conflicts between changes need two changes of one path; edits and faults are explored
with one change. *WorkLoop*: `MCReplies` has each kind of call alone and the pairs in
which the fate of one call bears on the other; later rounds are single calls; one kept
round makes compression possible from the second round on. *PluginRuntime*: a generation and its
successor are what two goroutines can disagree about; what a process does after its
generation has left the map is pruned, as nobody listens; backoff is on and the plugin
enabled at the start, as configured by default.

`MaxPauses`, `MaxClaims` (WorkDecision), `MaxActivity`, `MaxClaims` (MemoryExtraction),
`MaxBatches`, `MaxFaults` (AffectJobs), `MaxEdits`, `MaxFaults` (ChangeSet), `MaxEdits`
(WorkLoop), `MaxCrashes`, `MaxDbFaults`, `MaxApprovals`, `MaxMissed` (TurnPipeline), `MaxGenerations`,
`MaxOrders` (PluginRuntime) bound what the code leaves unbounded; the proofs do not
depend on their values. Symmetry is used where only safety is checked. Deadlock is checked
where there is a clock, which can always tick; elsewhere every call may return and
everything may come to rest.

**Fairness.** `EventuallyArchived` assumes weak fairness of `Tick`, `ExpireOnce` and
`ArchiveOnce`: time passes, and the ticker of `app/work_service.go` calls the two sweeps
for as long as the process lives (after a crash, the next process does). Nothing is
assumed of the user, of Emotion or of a handler, which may never finish: the claim it
leaks lapses by itself. `EventuallySettled` assumes weak fairness of each worker
(`Run` polls for ever and an evaluation ends in an answer, an error or its timeout), of
`RetryDue` (time passes) and of the expiry of claims nobody works on. Administrators,
other writers and faults promise nothing.

**What the properties except.** Some statements had to be weakened to what the code keeps; the
exceptions are part of the property, by name, and the behaviour behind each is reachable in the
model.

* *Extraction.* `WindowCovered` and `UnreadInView` say "read, or as many episodes as one extraction
  reads", and except marks whose job was last asked for by a pin. Behind this:
  an extraction reads at most `episode_limit` episodes (`extraction_worker.go:146`) but records its
  whole window (`:127`), so the rest of a longer segment is marked as extracted unread
  (`docs/archive/todo/emoagent_async_memory_extraction_spec.md:214` calls the mark the time the
  window covers); a pin reads one episode and records the segment's whole activity, which hides earlier
  unread episodes until the next message; a second pin merged into a pending job that a full request had
  widened narrows it again to its own episode; two merged pins list two episodes and keep the limit of
  one; of two callers that merge at once the later overwrites the earlier from its own snapshot; a
  request that meets a running job, or loses the race of two inserts, leaves no trace. The last two
  are why `UnreadInView` is worth checking: nothing gets lost by them, because the scan sees the
  segment again, unless the late "pending" mark of `MarkPending` hides a segment whose job has settled,
  which `InView` excepts, as it does a segment whose attempts are used up.
* *Waiting for approval.* `WaitShowsRequest` takes two failures to violate what one expects of
  it. If the last listing was answered, all that is open in it has been shown. If it was not (the query
  failed, or the stage returned the error that `turn.Runtime` drops in this state), what the
  loop showed is left; and if the loop could not report the request either, because the sink
  refused the event or its listing failed, the turn is recorded `approval_wait` with nothing shown.
  The request then stays pending until it expires, or until a duplicate of the message is
  answered from the journal, which has the refused event.
* *Change sets.* `NothingLostUnseen` excepts objects that arrive between a check and its act (`late`),
  `EffectOnce` two applications that overlap and a lost "applying" mark (`excused`): there is no lock.
* *Turns.* `RunningIsOwned` excepts a dead process and a lost write.

## 4. Proofs

The theorems hold for all values of the constants: any tasks, requests, handlers, turns,
owners, callers, time-to-live values and bounds. They assume what the modules' ASSUMEs say:
countdowns, attempts and bounds are naturals (a job may be tried at least once), the "none"
values are not identifiers, every call has a key (`KeyAssumption`), a reply of the model is a
sequence of calls (`LoopAssumption`), and the callers of a plugin and the paths of the disk are
finitely many (the use count is a cardinality, the history of edits a finite set of objects). Each inductive invariant was checked by TLC before it was proved. It
stands at the end of the component's module, as a conjunction of named parts; the proof module
has a lemma per action or group of actions and the theorems.

| module | types | safety invariants a run checks | action properties | other |
|---|---|---|---|---|
| `WorkDecision_proofs` | `TypeCorrect` | `ConsentCorrect`, `RecordCorrect`, `LeaseCorrect`, `AutoRejectCorrect` | `SettledStay` | `LedgerImplemented` (refinement) |
| `DirectToolApproval_proofs` | `TypeCorrect` | `RecordCorrect`, `ContinuationCorrect` | `ClaimsStand` | `LedgerImplemented` (refinement) |
| `WorkLoop_proofs` | `TypeCorrect` | `HistoryAccepted`, `HistoryTruthful`, `ConsentSpent`, `DecisionsLimited` | | `LoopInductive` |
| `TurnPipeline_proofs` | `TypeCorrect` | `OneAnswer`, `EndMeansSaved`, `OneEnd`, `SilenceIsKept`, `RunningHasOwner`, `WaitIsShown` | `AnswersAreFinal` | `TurnInductive` |
| `MemoryExtraction_proofs` | `TypeCorrect` | `WindowRead`, `SegmentsSeen` | `LostClaimIgnored`, `WindowRecorded` | `ExtractionInductive` |
| `AffectJobs_proofs` | `TypeCorrect` | `OneBatch`, `FoldedCorrect`, `OvertakenCorrect` | `SettledStay`, `LateWorkersIgnored` | `QueueInductive`, `HistoryInductive` |
| `PluginRuntime_proofs` | `TypeCorrect` | `NothingOrphaned`, `CrashCountedOnce`, `NobodyWaitsInVain`, `UseCounted` | `RetiredStayRetired` | `RuntimeInductive` |
| `ChangeSet_proofs` | `TypeCorrect` | `NothingLost`, `CarriedOutOnce` | `PlanStandsAlways` | `ChangeInductive` |

**WorkDecision.**

* `ConsentCorrect`: `Spec => []GrantSpentOnce`. "At most one execution per request"
  is not inductive: whether an execution is the second one depends on who is about
  to use the verdict. `ConsentInv` adds that a request that is not consumed has
  paid for nothing (`UnspentBeforeConsumption`), that a handler past its decision
  has consumed its own request (`ConsentHeld`), that the verdict it carries is the
  user's and unused (`VerdictUnused`), and that no other handler carries the same
  one (`SoleConsumer`). `SoleConsumer` is kept because consumption requires the
  status that it removes.
* `RecordCorrect`: `Spec => []ResolvedNeedsConsent`. The late handler is the danger:
  it may write "resolved" on a row that was replaced. `RecordInv` adds that a
  handler whose claim the row still carries saw the row as it is (`SnapshotFresh`)
  and that only live rows carry a claim (`ClaimsOnLiveRows`); every replacement of a
  row clears its claim, so a stale handler matches no row.
* `LeaseCorrect`: `Spec => []LeaseHonoured`, inductive with `TypeOK` and `RecordInv`.
* `AutoRejectCorrect`: `Spec => []AutoRejectClosesRequest`. The row and its request are
  timed by two deadlines in two tables. They start together and count together, so the
  request never outlasts the hard deadline of its row by more than the tick that the
  strict comparison leaves (`DeadlinesTogether`), and a row is auto-rejected only when its own
  has passed (`RejectedByTimeout`).

**DirectToolApproval.** `RecordCorrect` (`CallRecordHonest`) and `ContinuationCorrect`
(`OneContinuation`) follow from `CallInv`: a continuation works on a request that was decided
and remembers how (`TurnKnowsDecision`), from its claim to its end it holds the row
(`TurnHoldsCall`), and a request that is not consumed, or whose turn has still to run the
call, has paid for nothing (`NotYetRun`). `CallUntouched` disposes of the steps that leave
decided requests and claimed rows alone.

**The two refinements** rest on the same lemmas, stated in both proof modules: each statement
on `approval_requests` is a step of the ledger (`CreatedStep`, `DecidedStep`, `ConsumedStep`, `ExpiredStep`) or none
(`StutterStep`), whoever issues it. An execution is the ledger's `Use` only when the
request is consumed, was allowed and is unused (`RanStep`), which is what `ConsentInv`
and `CallInv` know of a handler about to run a call; so the refinements need both.

**WorkLoop.** Five places edit the history, and `HistoryPaired` is about the moments at which it
leaves the loop. In between it is in one of two shapes: complete (`Closed`), or lacking
exactly the results of the calls in hand (`Opened`), those being the batch that runs or the
one call a pause waits for. Both say that rounds grow along the history (`RoundsOrdered`), which
is why dropping older messages for a summary never separates a call from its results. For
`EffectsReported` an effect is reported, summarised with its whole round, or in the batch that is
running (`EffectsKept`); `ConsentSpentOnce` needs that whatever runs unasked needed no
consent when it was classified (`RunningAllowed`), and the budget that every routed decision
was counted (`RoutedCounted`).

**TurnPipeline.** `TurnInv` says of one call, for each place of its program, what it may be relied
on there (`CallSound`); what calls share is in `Named` (a record names a call of its key) and
`Journaled`. `AnsweredOnce` is `Owned`: who is past `Begin` and not a duplicate is named by
its key's record, and the record never changes hands. What a duplicate shows is part of what
the owner's journal holds (`Echoes`), so silence (`Hidden`) carries over from the owner to
every replay. `EndedReplyIsSaved` and `StreamEndsOnce` need to know of every place whether words
may still come (`MayEnd`, `Ordered`) and whether a saved reply is still missing (`Withheld`);
an event that was refused is in the journal and not at the caller, which is why both
sequences are spoken of. `WaitShowsRequest` counts events: `Waits` keeps the place in `seen` at
which the last listing was shown (`Shown`), a listing being pending wherever the request still
is (`StillOpen`), and the count follows from an injection of the open requests into
the events. For a turn whose last listing failed it keeps what the loop is answerable for
(`Told`): a request that was not left unreported is in `seen`, which only grows.

**MemoryExtraction.** The danger is the row that changes under a reader. `RowsSound` bounds every
window by the activity of its segment, `CallersSound` says the same of what a caller read
before it merges or inserts, `WorkersSound` that a worker whose claim the row still carries
works on the row as it is, and that what it extracted for a job last asked for in full has been read,
as far as the limit goes (`ReadEnough`). Such a job lists no episodes and has the full limit, whatever
pins were merged into it before (`RowsSound`). With that `WindowCovered` is inductive; a
segment that looks busy has an open job (`BusyHasJob`), which is what `UnreadInView` needs
besides. `LateWorkerIgnored` is an action
property: every write a worker makes is guarded by its claim.

**AffectJobs.** `QueueInv` is about the rows: a job runs just while its batch does, a batch counts its
jobs, an owner has one batch at work (`RowsAgree`), and a worker whose batch still runs
holds exactly its jobs (`WorkersHold`), so that a worker that was overtaken commits nothing.
With it, `FoldInv` and `OrderInv` are inductive: a mood folds only turns that are done (`MoodsAreDone`), and a turn
that was passed by a later one of its owner was claimed before and, if it runs, claimed again
(`PassedOver`), which is what `OvertakenOnlyByRetry` says once it is folded.

**PluginRuntime.** A slot has a process in its hands or a goroutine that will either launch or release
it: a generation has one starter (`OneStarter`), an open slot has one at work, and whoever
stops, starts or calls a runtime holds a slot (`HoldsSlot`). `Sound` is the local invariant of a slot, the
failure count against the count it started with among it; one crash counts once because a
slot that has been blamed is no longer starting or running.

**ChangeSet.** There is no lock, so what the proof needs is what survives a step of anybody else. A
plan never changes but for its status (`PlansKept`, a lemma of every action; `RowsSound`). The
status never returns to `approval_pending` and a second application of a change cannot begin
while its mark stands, so unless the mark was lost or two applications read the row together, one
application at a time finds the change untouched and its quarantine place empty
(`AppliesSound`): that is `EffectOnce`, and why moving a file into quarantine overwrites nothing.
What a call has checked is still so, is gone, or came in behind its back (`ChecksHold`); so what
an act destroys is the baseline its preview showed, or late. A rename within one volume and the
copy across two are separate cases: the copy re-reads its source, which `Checked` follows to the
removal. Restores put back what was quarantined only onto nothing, or onto what came in late.

**Action properties: what comes late.** Each component has a step that works on what it read
earlier, and an action property that says what such a step may not do. But for
`LateWorkerIgnored` of `MemoryExtraction` they are not among the properties of section 3: TLC checked them on the
same instances before they were proved, and the proofs are what stands for them.

* `WorkDecision!SettledStays`: a settled row carries no claim (`ClaimsOnLiveRows`), so a resume
  that comes back late finds no row to finalise, release or requeue; only the archive and a
  new escalation replace it.
* `DirectToolApproval!ClaimStands`: a parked call is claimed once for good. It needs one more
  invariant, `RowsFresh`: a request nobody has made has no row, and only a row that was
  claimed names a turn. `RowSteps` lists everything a step can do to a row.
* `TurnPipeline!AnswerIsFinal`: once a key's record says how the turn ended, the record, the
  journal and the messages a duplicate is answered from are final: only the owner
  saves or emits, and it has returned by then.
* `MemoryExtraction!RecordsJobWindow`: a worker writes the window it read at its claim.
  `WorkersSound` says that it is still that of the row while the claim stands, because merges
  leave running rows alone.
* `AffectJobs!LateWorkerIgnored`, `SettledStays`: a worker that was overtaken holds a batch with no jobs left
  (`WorkersHold`), so neither its commit nor its failure matches a row.
* `PluginRuntime!RetiredForGood`: only the slot in the map is ever rewritten, and only while it
  starts or runs; a start that completes late closes its slot and leaves its state
  (`MapSlotOnly`, `CompleteRetires`).
* `ChangeSet!PlanStands`: the store's update rewrites the whole row from a record read earlier; the
  plan in that record is still the plan of the row (`RowsSound`).

**Only model-checked**: liveness under fairness (`EventuallyArchived`, `EventuallySettled`), which
like ENABLED is out of the prover's reach; every invariant, action property and refinement a run
checks is also a theorem. Induction over data is out of its reach too: no module uses RECURSIVE, and the few facts about counts and
subsequences the proofs need are proved from the library's theorems on finite sets. The three
properties of section 5 are refuted by their runs and have no theorem.

## 5. Where the code and its documents differ

* **A hook's approval raises the permission of a task** (`work_loop_hook`). A
  `before_tool_call` hook may require an approval and never raise a permission, says
  `docs/plugin_development_guide.md`. When it asks without naming a kind, or for
  `destructive_write`, the pause is a destructive approval whatever the call is; once
  approved, with the allowing option or the rejecting one, `resume_work` makes
  `approved-destructive` the scope of the whole task (`resume_tool.go`). A read-only task then writes files nobody was asked about, and the
  call that was allowed is refused, because classification asks the hook first.
* **A resumed task forgets its summary** (`work_loop_summary`). `PausedWork` is
  documented as the frozen state of the task and `WorkProgress` as what replaces the
  compressed rounds, but the stored blob leaves the progress out. After a resume the next
  compression starts from an empty progress and drops the old progress message.
* **An old process stops a new runtime** (`plugin_runtime_stop`). `Stop` takes the slot
  out of the map, ends its process without the lock and, if that fails, records the error
  without a generation: against whatever runtime is in service by then. `EnsureReady` does
  the same when it replaces a version. A test is named for the opposite.

Observations on the way, not checked as findings because nothing documents them or the
models that showed them have given their place to others:

* What the extraction queue, a waiting turn and a change set do not keep is in section 3 ("What
  the properties except").
* A direct call whose request the user decides before its row is stored finds nothing to claim,
  and the row that follows is never claimed.
* A proactive turn may end waiting for an approval although its stages leave the
  approval listing out.
* A restore that is refused marks an applied change "conflict", after which it cannot be
  restored any more.
* A mood reset between the base check and the commit of a batch is overwritten
  (`agentaffect/worker.go`).
* A disabled plugin keeps the process a concurrent call started until the idle reaper.
* The row of a stopped turn stays "running", a job whose worker always dies is claimed
  for ever, and an allowed direct call is never made if the turn dies right after
  recording the decision.

## 6. Not modelled

Within the modelled parts: the decision packet's text, options and recommendation;
notifications and listings; tool, reasoning and progress events of a turn, the stages a
plugin adds, the JSONL journal; extraction modes other than apply, several personas on
one segment and the manual forget dialogue; mood arithmetic, profiles and barrier jobs;
proactive turns with the memory stages off, where the engine saves the turn before it looks for
silence (`turn_runtime.go:771-791`);
path resolution, grants and previews in front of change sets; installation, trust review
and settings of plugins, the facade and the hook bus. Request and turn ids are assumed fresh
(`uuid.NewString`), and the byte-wise comparison of RFC 3339 deadlines is taken for the
comparison of times (they differ by less than a second, when trailing zeros are dropped).

Simplifications inside an action. `MinEpisodeCount` is 1, which the configuration permits: with its
default of 2 the scan also passes over a segment in which only the user or only the assistant has
spoken, and `UnreadInView` would except it. No property depends on the others: the job that fails as
`invalid_job`, without retry or claim check, is left out, as every request carries its memory
session; `AppendEpisode` takes the append in the memory core and the update of the segment
(`bridge.go:217-229`) together; `run_after` is read before the insert of an affect job and the
worker's clock before its claim (`service.go:208`, `worker.go:77`), milliseconds the model does not
have; the latest mood of an owner is the latest row, where the code compares `updated_at`
as text (`store_sqlite.go:668`); database and file errors after the stop in `DeletePlugin`
(`plugin_service.go:1008-1021`) are left out.

Parts not modelled at all are the last six rows of the inventory and, with the reason, the
components of status `not_modelled` in `PROJECT.json`. The outbound buffer, the run registry,
the sidecar, proactive messaging and the platform gateway do keep state; they were left for
later because their state is local and small and unit tests reach most of it, while the
modules above meet several actors, a database and a crash. The rest transforms data, talks to
services or administers rows.

## 7. Plan

1. **Proofs**: the safety properties are proved. What is left is the refinement of further
   abstract specifications: `MemoryExtraction` and `AffectJobs` as one queue with leases, and
   `WorkLoop` as a loop over the approval ledger.
2. **OutboundBuffer** and **RunRegistry** as parts of the turn pipeline: backpressure, order
   of deltas, cancel and supersede.
3. **PlatformGateway** and **Proactive**: receipts and echoes, valves under two triggers;
   **Sidecar** on the pattern of `PluginRuntime`.
4. Pure algorithms: reply segmentation, deadline encoding.
