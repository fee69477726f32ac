--------------------------- MODULE MemoryExtraction ---------------------------
(***************************************************************************)
(* The queue of memory extraction jobs: memory_extraction_jobs and the     *)
(* extraction columns of memory_segments (internal/storage), the workers   *)
(* that claim jobs under a lease (internal/memoryhost/extraction_worker.go)*)
(* and the goroutines that ask for an extraction: the idle scheduler, the  *)
(* HTTP API, and the chat bridge when a segment ends or the user says      *)
(* "remember this".                                                        *)
(*                                                                         *)
(* A segment's activity is counted: instant n is the n-th time its         *)
(* last_activity_at moved.  An instant is an episode (a message) or the    *)
(* end of the segment.  Each statement on the database is a step, so a     *)
(* caller or a worker may be overtaken, or die, between two of them.       *)
(***************************************************************************)
EXTENDS Naturals, FiniteSets

CONSTANTS
  None,
  Segments,
  JobIds,
  Workers,      \* async.worker_concurrency goroutines; also claimed_by
  Callers,      \* goroutines that enqueue
  MaxAttempts,  \* async.max_attempts
  ClaimTTL,     \* ticks a claim protects a job
  Backoff,      \* ticks before a failed job is tried again
  EpisodeLimit, \* extraction.limit: episodes one extraction may read
  MaxActivity,  \* bound: instants of activity per segment
  MaxClaims     \* bound: claims of one job

ASSUME ExtractionAssumption ==
  /\ {MaxAttempts, ClaimTTL, Backoff, EpisodeLimit, MaxActivity, MaxClaims} \subseteq Nat
  /\ MaxAttempts > 0 /\ EpisodeLimit > 0
  /\ None \notin JobIds \cup Workers \cup Segments

VARIABLES
  seg,      \* seg[s]: the memory_segments row of s
  job,      \* job[j]: the memory_extraction_jobs row of j
  worker,   \* worker[w]: the job snapshot worker w is busy with
  caller,   \* caller[c]: how far caller c is in EnqueueMemoryExtractionJob
  covered   \* covered[s]: the episodes of s some extraction has read

vars == <<seg, job, worker, caller, covered>>

Instants == 1 .. MaxActivity
Triggers == {"full", "manual_pin"}   \* isFullSegmentExtractionTrigger, or a pin
LimitOf(trigger) == IF trigger = "manual_pin" THEN 1 ELSE EpisodeLimit
Active == {"pending", "running"}
Settled == {"succeeded", "skipped", "failed"}

\* mark is no column but history: who asked last for the job whose window is recorded.
SegmentRow ==
  [status : {"never", "pending", "running", "succeeded", "skipped", "failed", "stale"},
   activity : 0 .. MaxActivity, episodes : SUBSET Instants, until : 0 .. MaxActivity,
   fails : Nat, mark : Triggers \cup {None}]

\* What an extraction is to read: the episodes listed (none: all of them), up to an
\* instant, and at most so many.
Selections ==
  [trigger : Triggers, eps : SUBSET Instants, until : 0 .. MaxActivity, limit : {1, EpisodeLimit}]

\* asked is history: the trigger of the last request that the job was to include.
JobRow ==
  [status : {"none"} \cup Active \cup Settled, seg : Segments \cup {None},
   sel : Selections, asked : Triggers,
   attempts : Nat, wait : Nat, by : Workers \cup {None}, lease : Nat]

WorkerState ==
  [pc : {"idle", "running", "succeeded", "skipped", "failing"}, job : JobIds \cup {None},
   sel : Selections, attempts : Nat]

CallerState ==
  [pc : {"idle", "asked", "insert", "merge", "inserted"}, seg : Segments \cup {None},
   sel : Selections, job : JobIds \cup {None}, seen : Selections]

Select(trigger, eps, until) ==
  [trigger |-> trigger, eps |-> eps, until |-> until, limit |-> LimitOf(trigger)]
Nothing == Select("full", {}, 0)
NoJob == [status |-> "none", seg |-> None, sel |-> Nothing, asked |-> "full",
          attempts |-> 0, wait |-> 0, by |-> None, lease |-> 0]
NoWork == [pc |-> "idle", job |-> None, sel |-> Nothing, attempts |-> 0]
NoCall == [pc |-> "idle", seg |-> None, sel |-> Nothing, job |-> None, seen |-> Nothing]

\* Jobs, segments, workers and callers keep their types (memory_extraction_jobs.go).
TypeOK ==
  /\ seg \in [Segments -> SegmentRow]
  /\ job \in [JobIds -> JobRow]
  /\ worker \in [Workers -> WorkerState]
  /\ caller \in [Callers -> CallerState]
  /\ covered \in [Segments -> SUBSET Instants]

Init ==
  /\ seg = [s \in Segments |-> [status |-> "never", activity |-> 0, episodes |-> {},
                                until |-> 0, fails |-> 0, mark |-> None]]
  /\ job = [j \in JobIds |-> NoJob]
  /\ worker = [w \in Workers |-> NoWork]
  /\ caller = [c \in Callers |-> NoCall]
  /\ covered = [s \in Segments |-> {}]

ActiveJobs(s) == {j \in JobIds : job[j].seg = s /\ job[j].status \in Active}
Dec(n) == IF n = 0 THEN 0 ELSE n - 1
-----------------------------------------------------------------------------
(* Activity in the chat *)

\* UpdateMemorySegmentEpisode: one UPDATE that also marks an extracted segment stale.
AppendEpisode(s) ==
  LET now == seg[s].activity + 1 IN
  /\ now \in Instants
  /\ seg' = [seg EXCEPT
       ![s].activity = now, ![s].episodes = @ \cup {now},
       ![s].status = IF @ \in {"succeeded", "skipped"} /\ seg[s].until > 0
                     THEN "stale" ELSE @]
  /\ UNCHANGED <<job, worker, caller, covered>>

Ask(c, s, trigger, eps, until) ==
  caller' = [caller EXCEPT ![c] = [NoCall EXCEPT !.pc = "asked", !.seg = s,
                                                 !.sel = Select(trigger, eps, until)]]

\* FinalizeSegment: the end of a segment is activity too; then ask for an
\* extraction of the row as re-read.
FinalizeSegment(c, s) ==
  /\ caller[c].pc = "idle"
  /\ seg[s].episodes # {}
  /\ seg[s].activity < MaxActivity
  /\ seg' = [seg EXCEPT ![s].activity = @ + 1]
  /\ Ask(c, s, "full", {}, seg[s].activity + 1)
  /\ UNCHANGED <<job, worker, covered>>

\* "Remember this": an extraction of the last episode alone.
ManualPin(c, s) ==
  /\ caller[c].pc = "idle"
  /\ seg[s].episodes # {}
  /\ Ask(c, s, "manual_pin",
         {CHOOSE e \in seg[s].episodes : \A f \in seg[s].episodes : f <= e}, seg[s].activity)
  /\ UNCHANGED <<seg, job, worker, covered>>

\* ScanEligibleMemorySegments, of a segment that has been idle long enough.
Eligible(s) ==
  /\ seg[s].until < seg[s].activity \/ seg[s].status = "failed"
  /\ seg[s].status \notin Active
  /\ seg[s].status = "failed" => seg[s].fails < MaxAttempts
  /\ seg[s].episodes # {}
  /\ ActiveJobs(s) = {}

\* The scheduler's sweep, and the API with force, ask for the segment as read.
Sweep(c, s) ==
  /\ caller[c].pc = "idle"
  /\ Eligible(s)
  /\ Ask(c, s, "full", {}, seg[s].activity)
  /\ UNCHANGED <<seg, job, worker, covered>>

ManualScan(c, s) ==
  /\ caller[c].pc = "idle"
  /\ seg[s].episodes # {}
  /\ Ask(c, s, "full", {}, seg[s].activity)
  /\ UNCHANGED <<seg, job, worker, covered>>
-----------------------------------------------------------------------------
(* EnqueueMemoryExtractionJob: look up, then merge or insert, then mark *)

Goto(c, pc) == caller' = [caller EXCEPT ![c].pc = pc]
Return(c) == caller' = [caller EXCEPT ![c] = NoCall]

\* A running job is returned as it is: the request leaves no trace.
Lookup(c) ==
  /\ caller[c].pc = "asked"
  /\ LET found == ActiveJobs(caller[c].seg) IN
     \/ found = {} /\ Goto(c, "insert")
     \/ \E j \in found : job[j].status = "running" /\ Return(c)
     \/ \E j \in found :
          /\ job[j].status = "pending"
          /\ caller' = [caller EXCEPT ![c].pc = "merge", ![c].job = j, ![c].seen = job[j].sel]
  /\ UNCHANGED <<seg, job, worker, covered>>

\* The unique index on active jobs turns the loser of a race away.
Insert(c) ==
  LET s == caller[c].seg IN
  /\ caller[c].pc = "insert"
  /\ \/ /\ ActiveJobs(s) # {}
        /\ Return(c)
        /\ UNCHANGED job
     \/ /\ ActiveJobs(s) = {}
        /\ \E j \in JobIds :
             /\ job[j].status = "none"
             /\ job' = [job EXCEPT ![j] = [NoJob EXCEPT !.status = "pending", !.seg = s,
                          !.sel = caller[c].sel, !.asked = caller[c].sel.trigger]]
        /\ Goto(c, "inserted")
  /\ UNCHANGED <<seg, worker, covered>>

\* A separate statement, some time after the insert.
MarkPending(c) ==
  /\ caller[c].pc = "inserted"
  /\ seg' = [seg EXCEPT ![caller[c].seg].status = "pending"]
  /\ Return(c)
  /\ UNCHANGED <<job, worker, covered>>

\* Mutant: a full request leaves the list of a pin as it is.
MergedEpisodes_KeepsPin(ask, seen) ==
  IF ask.trigger = "manual_pin"
  THEN IF seen.trigger = "full" THEN {} ELSE seen.eps \cup ask.eps
  ELSE seen.eps

\* A pin narrows a job that only pins have asked for; one that a full request has
\* widened keeps the trigger of a pin and an empty list, and the next pin narrows it again.
MergedEpisodes(ask, seen) ==
  IF ask.trigger = "manual_pin"
  THEN IF seen.trigger = "full" THEN {} ELSE seen.eps \cup ask.eps
  ELSE IF seen.trigger = "manual_pin" THEN {} ELSE seen.eps

Larger(a, b) == IF a > b THEN a ELSE b

Merged(ask, seen) ==
  [trigger |-> IF "manual_pin" \in {ask.trigger, seen.trigger} THEN "manual_pin" ELSE "full",
   eps |-> MergedEpisodes(ask, seen),
   until |-> Larger(ask.until, seen.until),
   limit |-> Larger(ask.limit, seen.limit)]

\* mergeActiveMemoryExtractionJob works on the row as it was looked up.
Merge(c) ==
  LET j == caller[c].job IN
  /\ caller[c].pc = "merge"
  /\ job' = IF job[j].status = "pending"
            THEN [job EXCEPT ![j].sel = Merged(caller[c].sel, caller[c].seen),
                             ![j].asked = caller[c].sel.trigger, ![j].wait = 0]
            ELSE job
  /\ Return(c)
  /\ UNCHANGED <<seg, worker, covered>>
-----------------------------------------------------------------------------
(* A worker *)

Claimable(j) ==
  \/ job[j].status = "pending" /\ job[j].wait = 0
  \/ job[j].status = "running" /\ job[j].lease = 0

\* ClaimMemoryExtractionJobs: the job and its segment in one transaction.  An
\* expired claim is taken over; max_attempts is not looked at.
Claim(w, j) ==
  /\ worker[w].pc = "idle"
  /\ Claimable(j)
  /\ job[j].attempts < MaxClaims
  /\ job' = [job EXCEPT ![j].status = "running", ![j].attempts = @ + 1,
                        ![j].by = w, ![j].lease = ClaimTTL]
  /\ seg' = [seg EXCEPT ![job[j].seg].status = "running"]
  /\ worker' = [worker EXCEPT ![w] = [pc |-> "running", job |-> j, sel |-> job[j].sel,
                                      attempts |-> job[j].attempts + 1]]
  /\ UNCHANGED <<caller, covered>>

Leave(w) == worker' = [worker EXCEPT ![w] = NoWork]
Outcome(w, pc) == worker' = [worker EXCEPT ![w].pc = pc]

Selected(s, sel) ==
  {e \in seg[s].episodes : e <= sel.until /\ (sel.eps = {} \/ e \in sel.eps)}

\* The memory core (external) reads what the request selects, or as many of it as the
\* limit allows; which ones is the core's affair.
Readings(s, sel) ==
  {X \in SUBSET Selected(s, sel) :
     \/ Cardinality(X) = sel.limit
     \/ X = Selected(s, sel) /\ Cardinality(X) < sel.limit}

\* It answers success, "skipped" for a reading it has extracted before, or an error.
Extract(w) ==
  LET s == job[worker[w].job].seg IN
  /\ worker[w].pc = "running"
  /\ \/ /\ Outcome(w, "succeeded")
        /\ \E X \in Readings(s, worker[w].sel) : covered' = [covered EXCEPT ![s] = @ \cup X]
     \/ /\ \E X \in Readings(s, worker[w].sel) : X \subseteq covered[s]
        /\ Outcome(w, "skipped") /\ UNCHANGED covered
     \/ Outcome(w, "failing") /\ UNCHANGED covered
  /\ UNCHANGED <<seg, job, caller>>

\* mirror_sync.fail_extraction_on_sync_error.
MirrorSyncFails(w) ==
  /\ worker[w].pc = "succeeded"
  /\ Outcome(w, "failing")
  /\ UNCHANGED <<seg, job, caller, covered>>

\* Mutant: expected_claimed_by is not compared.
Holds_AnyClaim(w) == job[worker[w].job].status = "running"

Holds(w) == job[worker[w].job].status = "running" /\ job[worker[w].job].by = w

\* Mutant: the segment's activity is recorded instead of the job's window.
Extracted_Now(j, until, status) ==
  LET s == job[j].seg IN
  [seg EXCEPT ![s].until = seg[s].activity, ![s].fails = 0, ![s].mark = job[j].asked,
              ![s].status = status]

\* extractionWindowStale.  The job's window is recorded, read whole or not.
Extracted(j, until, status) ==
  LET s == job[j].seg IN
  [seg EXCEPT ![s].until = until, ![s].fails = 0, ![s].mark = job[j].asked,
     ![s].status = IF until > 0 /\ until < seg[s].activity THEN "stale" ELSE status]

\* Mutant: the segment's status is written to the job.
Complete_Swapped(w) ==
  LET j == worker[w].job IN
  /\ worker[w].pc \in {"succeeded", "skipped"}
  /\ Holds(w)
  /\ seg' = Extracted(j, worker[w].sel.until, worker[w].pc)
  /\ job' = [job EXCEPT ![j].status = seg'[job[j].seg].status, ![j].by = None, ![j].lease = 0]
  /\ Leave(w)
  /\ UNCHANGED <<caller, covered>>

\* CompleteMemoryExtractionJob: one transaction, refused once the claim is lost.
Complete(w) ==
  LET j == worker[w].job IN
  /\ worker[w].pc \in {"succeeded", "skipped"}
  /\ IF Holds(w)
     THEN /\ job' = [job EXCEPT ![j].status = worker[w].pc, ![j].by = None, ![j].lease = 0]
          /\ seg' = Extracted(j, worker[w].sel.until, worker[w].pc)
     ELSE UNCHANGED <<job, seg>>
  /\ Leave(w)
  /\ UNCHANGED <<caller, covered>>

\* Mutant: the segment is not told of the failure.
Fail_SegmentUntouched(w) ==
  LET j == worker[w].job IN
  /\ worker[w].pc = "failing"
  /\ Holds(w)
  /\ job' = [job EXCEPT ![j].status = IF worker[w].attempts < MaxAttempts
                                      THEN "pending" ELSE "failed",
                        ![j].wait = Backoff, ![j].by = None, ![j].lease = 0]
  /\ Leave(w)
  /\ UNCHANGED <<seg, caller, covered>>

\* recordJobFailure, FailMemoryExtractionJob: retry while attempts are left.
Retry(w) == worker[w].attempts < MaxAttempts

Fail(w) ==
  LET j == worker[w].job IN
  /\ worker[w].pc = "failing"
  /\ IF Holds(w)
     THEN /\ job' = [job EXCEPT ![j].status = IF Retry(w) THEN "pending" ELSE "failed",
                       ![j].wait = IF Retry(w) THEN Backoff ELSE @,
                       ![j].by = None, ![j].lease = 0]
          /\ seg' = [seg EXCEPT ![job[j].seg].status = "failed", ![job[j].seg].fails = @ + 1]
     ELSE UNCHANGED <<job, seg>>
  /\ Leave(w)
  /\ UNCHANGED <<caller, covered>>
-----------------------------------------------------------------------------
\* A statement fails or a context is cancelled: the worker or the caller stops there.
WorkerGivesUp(w) ==
  worker[w].pc # "idle" /\ Leave(w) /\ UNCHANGED <<seg, job, caller, covered>>

CallerGivesUp(c) ==
  caller[c].pc # "idle" /\ Return(c) /\ UNCHANGED <<seg, job, worker, covered>>

Crash ==
  /\ worker' = [w \in Workers |-> NoWork]
  /\ caller' = [c \in Callers |-> NoCall]
  /\ UNCHANGED <<seg, job, covered>>

Tick ==
  /\ job' = [j \in JobIds |-> [job[j] EXCEPT !.wait = Dec(@), !.lease = Dec(@)]]
  /\ UNCHANGED <<seg, worker, caller, covered>>

Enqueue(c) == Lookup(c) \/ Insert(c) \/ MarkPending(c) \/ Merge(c) \/ CallerGivesUp(c)

Work(w) ==
  \/ \E j \in JobIds : Claim(w, j)
  \/ Extract(w) \/ MirrorSyncFails(w) \/ Complete(w) \/ Fail(w) \/ WorkerGivesUp(w)

Next ==
  \/ \E s \in Segments : AppendEpisode(s)
  \/ \E c \in Callers, s \in Segments :
       FinalizeSegment(c, s) \/ ManualPin(c, s) \/ Sweep(c, s) \/ ManualScan(c, s)
  \/ \E c \in Callers : Enqueue(c)
  \/ \E w \in Workers : Work(w)
  \/ Tick
  \/ Crash

Spec == Init /\ [][Next]_vars
-----------------------------------------------------------------------------
(* Properties *)

\* Every episode up to an instant has been read, or as many as one extraction reads.
Enough(episodes, read, until) ==
  LET window == {e \in episodes : e <= until} IN
  window \subseteq read \/ Cardinality(window \cap read) >= EpisodeLimit

ReadEnough(s, until) == Enough(seg[s].episodes, covered[s], until)

\* Somebody works on s, or the scheduler will look at it again, unless its attempts are
\* used up or an enqueue marked it "pending" after its job had settled.
InView(s) ==
  \/ ActiveJobs(s) # {}
  \/ Eligible(s)
  \/ seg[s].status = "pending"
  \/ seg[s].status = "failed" /\ seg[s].fails >= MaxAttempts

\* What last_extracted_until_at says has been read, within the limit of an extraction:
\* whatever was appended, merged, retried or taken over, the episodes up to it were read,
\* or as many as one extraction may read.  That holds of every mark left by a job
\* whose last request was for the whole segment, pins merged into it before or not
\* (extraction_worker.go buildRunExtractionRequest, ExtractedUntilAt); the mark of a pin
\* promises nothing.
WindowCovered ==
  \A s \in Segments : seg[s].mark # "manual_pin" => ReadEnough(s, seg[s].until)

\* A segment that nobody works on and no scan will look at again has been read, as far
\* as one extraction reads: no request lost against a running job, a racing insert or
\* another merge, and no completion, failure, stale mark or takeover, leaves unread
\* messages out of sight (memory_extraction_jobs.go; the scheduler's scan).
UnreadInView ==
  \A s \in Segments :
    seg[s].mark # "manual_pin" /\ ~InView(s) => ReadEnough(s, seg[s].activity)

\* A worker whose claim was taken over leaves no trace: its late success or failure
\* changes neither the job nor the segment (expected_claimed_by, "claim lost").
LateWorkerIgnored ==
  [][\A w \in Workers :
       worker[w].pc # "idle" /\ worker'[w].pc = "idle" /\ job[worker[w].job].by # w =>
         job' = job /\ seg' = seg]_vars

\* What is recorded as extracted is the window of the job that was running, as its row
\* says by then, although the worker writes what it read when it claimed the job and
\* requests are merged into rows all the time; and a settled job keeps its outcome
\* (CompleteMemoryExtractionJob, mergeActiveMemoryExtractionJob).
RecordsJobWindow ==
  [][/\ \A s \in Segments : seg'[s].until # seg[s].until =>
          \E j \in JobIds :
            /\ job[j].seg = s /\ job[j].status = "running" /\ seg'[s].until = job[j].sel.until
            /\ job'[j].status \in {"succeeded", "skipped"}
     /\ \A j \in JobIds : job[j].status \in Settled =>
          job'[j].status = job[j].status /\ job'[j].sel = job[j].sel]_vars

-----------------------------------------------------------------------------
(* The inductive strengthening behind the invariants above (proved in        *)
(* MemoryExtraction_proofs).                                                  *)

\* A selection stays within the activity of its segment; one for the whole segment lists
\* no episodes and has the full limit.
SoundSel(sel, activity) ==
  /\ sel.until <= activity
  /\ sel.trigger = "full" => sel.eps = {} /\ sel.limit = EpisodeLimit

\* Rows are sound, a job asked for in full last selects everything, and the last episode is one.
RowsSound ==
  /\ \A s \in Segments :
       /\ seg[s].until <= seg[s].activity
       /\ \A e \in seg[s].episodes : e <= seg[s].activity
       /\ seg[s].episodes # {} => \E e \in seg[s].episodes : \A f \in seg[s].episodes : f <= e
  /\ \A j \in JobIds :
       /\ job[j].status # "none" <=> job[j].seg # None
       /\ job[j].seg # None => SoundSel(job[j].sel, seg[job[j].seg].activity)
       /\ job[j].asked = "full" => job[j].sel.eps = {} /\ job[j].sel.limit = EpisodeLimit

\* What a caller asks for and what it saw are such selections, too.
SoundCall(x) ==
  x.pc # "idle" =>
    /\ x.seg # None /\ SoundSel(x.sel, seg[x.seg].activity)
    /\ x.pc = "merge" => /\ x.job # None /\ job[x.job].seg = x.seg
                         /\ SoundSel(x.seen, seg[x.seg].activity)

\* A worker that holds its claim works on the job as it is, and what it extracted for a
\* job asked for in full has been read.
SoundWork(w) ==
  LET j == worker[w].job IN
  worker[w].pc # "idle" =>
    /\ j # None
    /\ Holds(w) =>
         /\ worker[w].sel = job[j].sel
         /\ worker[w].pc \in {"succeeded", "skipped"} /\ job[j].asked = "full" =>
              ReadEnough(job[j].seg, worker[w].sel.until)

\* A segment that looks busy has a job.
BusyHasJob == \A s \in Segments : seg[s].status = "running" => ActiveJobs(s) # {}

CallersSound == \A c \in Callers : SoundCall(caller[c])
WorkersSound == \A w \in Workers : SoundWork(w)
ExtractionInv == RowsSound /\ CallersSound /\ WorkersSound /\ WindowCovered /\ BusyHasJob
=============================================================================
