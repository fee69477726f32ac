----------------------------- MODULE AffectJobs -----------------------------
(***************************************************************************)
(* internal/agentaffect: the durable queue of mood evaluations, the batch  *)
(* workers that fold queued turns into the mood of their owner, and the    *)
(* other writers of that mood (ResetMood, ApplyMoodDelta, SubmitMoodImpact).*)
(* The table agent_affect_states only grows; the mood of an owner is its   *)
(* row with the latest updated_at.                                         *)
(***************************************************************************)
EXTENDS Naturals, FiniteSets

CONSTANTS
  Owners,       \* mood owners (a persona, or a session)
  Workers,      \* batch workers, the administrator's single run included
  Writers,      \* calls of ResetMood, ApplyMoodDelta, SubmitMoodImpact
  MaxJobs,      \* turns that are queued
  MaxAttempts,  \* max_attempts of a job
  MaxBatches,   \* bound: batches that are claimed
  MaxFaults     \* bound: restarts, failed writes, claims that expire under their worker

ASSUME BoundsAssumption ==
  /\ MaxJobs \in Nat /\ MaxAttempts \in Nat \ {0} /\ MaxBatches \in Nat
  /\ MaxFaults \in Nat

Seqs == 1 .. MaxJobs
BatchIds == 1 .. MaxBatches

VARIABLES
  jobs,     \* rows of agent_affect_jobs, by seq
  batches,  \* rows of agent_affect_job_batches
  moods,    \* rows of agent_affect_states, with the turns each one folds
  clock,    \* readings of r.now() that became an updated_at
  worker,   \* ProcessNextBatch of each worker
  writer,   \* the other writers
  faults    \* faults that may still happen

vars == <<jobs, batches, moods, clock, worker, writer, faults>>

Statuses == {"absent", "pending", "running", "done", "failed", "superseded", "cleared"}
Settled == {"done", "failed", "superseded", "cleared"}

\* wait: the batch whose failure postponed the job, 0 once run_after is past.
Job == [owner : Owners, status : Statuses, attempts : Nat,
        batch : BatchIds \cup {0}, wait : BatchIds \cup {0}]
Batch == [status : {"absent", "running", "done", "failed"}, count : Nat, expired : BOOLEAN]
Mood == [owner : Owners, at : Nat, base : Nat, by : {"batch", "manual", "submit"},
         jobs : SUBSET Seqs, event : BOOLEAN]

IdleWorker == [pc |-> "idle", batch |-> 0, jobs |-> {}, base |-> 0, at |-> 0]

Init ==
  /\ jobs \in [Seqs -> {[owner |-> o, status |-> "absent", attempts |-> 0, batch |-> 0, wait |-> 0] :
                          o \in Owners}]
  /\ batches = [b \in BatchIds |-> [status |-> "absent", count |-> 0, expired |-> FALSE]]
  /\ moods = {}
  /\ clock = 0
  /\ worker = [w \in Workers |-> IdleWorker]
  /\ writer \in [Writers -> [pc : {"idle"}, kind : {"manual", "submit"}, owner : Owners,
                             base : {0}, at : {0}]]
  /\ faults = MaxFaults

----------------------------------------------------------------------------
\* The stored mood.

MoodsOf(o) == {m \in moods : m.owner = o}

\* The id of the current mood of an owner, 0 for the baseline.
CurrentMood(o) ==
  IF MoodsOf(o) = {} THEN 0
  ELSE (CHOOSE m \in MoodsOf(o) : \A n \in MoodsOf(o) : n.at <= m.at).at

----------------------------------------------------------------------------
\* The queue.

\* Mutant: a status the schema does not know.
Enqueue_Unknown(s) ==
  /\ jobs[s].status = "absent"
  /\ \A t \in Seqs : t < s => jobs[t].status # "absent"
  /\ jobs' = [jobs EXCEPT ![s].status = "queued"]
  /\ UNCHANGED <<batches, moods, clock, worker, writer, faults>>

\* A finished turn queues its evaluation.
Enqueue(s) ==
  /\ jobs[s].status = "absent"
  /\ \A t \in Seqs : t < s => jobs[t].status # "absent"
  /\ jobs' = [jobs EXCEPT ![s].status = "pending"]
  /\ UNCHANGED <<batches, moods, clock, worker, writer, faults>>

Supersede(os) ==
  [s \in Seqs |->
     IF jobs[s].status = "pending" /\ jobs[s].owner \in os
     THEN [jobs[s] EXCEPT !.status = "superseded"] ELSE jobs[s]]

\* The administrator, a new profile (one owner) or a new configuration (all).
SupersedePending(os) ==
  /\ Supersede(os) # jobs
  /\ jobs' = Supersede(os)
  /\ UNCHANGED <<batches, moods, clock, worker, writer, faults>>

ClearFailedJobs(o) ==
  /\ \E s \in Seqs : jobs[s].owner = o /\ jobs[s].status = "failed"
  /\ jobs' = [s \in Seqs |->
                IF jobs[s].owner = o /\ jobs[s].status = "failed"
                THEN [jobs[s] EXCEPT !.status = "cleared"] ELSE jobs[s]]
  /\ UNCHANGED <<batches, moods, clock, worker, writer, faults>>

\* run_after of the jobs that batch b sent back is past.
RetryDue(b) ==
  /\ \E s \in Seqs : jobs[s].status = "pending" /\ jobs[s].wait = b
  /\ jobs' = [s \in Seqs |-> IF jobs[s].wait = b THEN [jobs[s] EXCEPT !.wait = 0] ELSE jobs[s]]
  /\ UNCHANGED <<batches, moods, clock, worker, writer, faults>>

Holder(b) == {w \in Workers : worker[w].batch = b}

\* claimed_until of batch b is past; its worker may still be at work.
ClaimExpires(b) ==
  /\ ~batches[b].expired
  /\ \E s \in Seqs : jobs[s].status = "running" /\ jobs[s].batch = b
  /\ batches' = [batches EXCEPT ![b].expired = TRUE]
  /\ IF Holder(b) = {} THEN UNCHANGED faults ELSE faults > 0 /\ faults' = faults - 1
  /\ UNCHANGED <<jobs, moods, clock, worker, writer>>

----------------------------------------------------------------------------
\* A claim, in one transaction.

Expired(j) == j.status = "running" /\ batches[j.batch].expired

\* Mutant: expired claims are not released.
ReleasedJobs_Never == jobs

ReleasedJobs ==
  [s \in Seqs |->
     IF Expired(jobs[s]) THEN [jobs[s] EXCEPT !.status = "pending", !.batch = 0] ELSE jobs[s]]

ReleasedBatches ==
  [b \in BatchIds |->
     IF batches[b].status = "running" /\ \E s \in Seqs : Expired(jobs[s]) /\ jobs[s].batch = b
     THEN [batches[b] EXCEPT !.status = "failed"] ELSE batches[b]]

Due(js) == {s \in Seqs : js[s].status = "pending" /\ js[s].wait = 0}

\* Mutant: the running jobs of the owner are not looked at.
Busy_Never(js, o) == FALSE

Busy(js, o) == \E s \in Seqs : js[s].owner = o /\ js[s].status = "running"

\* Mutant: any due job may come first.
First_AnyOrder(js, s) == s \in Due(js) /\ ~Busy(js, js[s].owner)

\* The oldest due job of an owner none of whose jobs is running.
First(js, s) ==
  /\ s \in Due(js)
  /\ ~Busy(js, js[s].owner)
  /\ \A t \in Due(js) : t < s => Busy(js, js[t].owner)

\* From the first job on, the due jobs up to one of another owner; the limits
\* on jobs, age and tokens may cut the batch anywhere after the first.
Contiguous(js, s, last) ==
  {t \in Due(js) : s <= t /\ t <= last}

Claim(w) ==
  \E s, last \in Seqs, b \in BatchIds :
    LET batch == Contiguous(ReleasedJobs, s, last) IN
    /\ worker[w].pc = "idle"
    /\ First(ReleasedJobs, s)
    /\ last \in batch
    /\ \A t \in batch : jobs[t].owner = jobs[s].owner
    /\ batches[b].status = "absent"
    /\ \A c \in BatchIds : c < b => batches[c].status # "absent"
    /\ jobs' = [t \in Seqs |->
                  IF t \in batch
                  THEN [ReleasedJobs[t] EXCEPT !.status = "running", !.batch = b, !.attempts = @ + 1]
                  ELSE ReleasedJobs[t]]
    /\ batches' = [ReleasedBatches EXCEPT
                     ![b] = [status |-> "running", count |-> Cardinality(batch), expired |-> FALSE]]
    /\ worker' = [worker EXCEPT ![w] = [IdleWorker EXCEPT !.pc = "claimed", !.batch = b]]
    /\ UNCHANGED <<moods, clock, writer, faults>>

\* Nothing to claim: expired claims are released all the same.
ClaimNothing(w) ==
  /\ worker[w].pc = "idle"
  /\ \A s \in Seqs : ~First(ReleasedJobs, s)
  /\ ReleasedJobs # jobs
  /\ jobs' = ReleasedJobs
  /\ batches' = ReleasedBatches
  /\ UNCHANGED <<moods, clock, worker, writer, faults>>

----------------------------------------------------------------------------
\* ProcessNextBatch after its claim.

JobsOf(b) == {s \in Seqs : jobs[s].batch = b}
Exhausted(s) == jobs[s].attempts >= MaxAttempts

\* failBatch: with a retry, the jobs that have attempts left wait for it.
FailBatch(w, retryable) ==
  LET b == worker[w].batch
      retry == retryable /\ \E s \in worker[w].jobs : ~Exhausted(s)
  IN
  /\ batches' = [batches EXCEPT ![b].status = "failed"]
  /\ jobs' = [s \in Seqs |->
                IF s \notin JobsOf(b) THEN jobs[s]
                ELSE IF retry /\ ~Exhausted(s)
                     THEN [jobs[s] EXCEPT !.status = "pending", !.batch = 0, !.wait = b]
                     ELSE [jobs[s] EXCEPT !.status = "failed"]]
  /\ worker' = [worker EXCEPT ![w] = IdleWorker]
  /\ UNCHANGED <<moods, clock, writer, faults>>

\* The jobs of the batch and the mood they meet are read.
LoadBatch(w) ==
  LET listed == JobsOf(worker[w].batch) IN
  /\ worker[w].pc = "claimed"
  /\ listed # {}
  /\ worker' = [worker EXCEPT ![w] =
       [@ EXCEPT !.pc = "evaluating", !.jobs = listed,
                 !.base = CurrentMood(jobs[CHOOSE s \in listed : TRUE].owner)]]
  /\ UNCHANGED <<jobs, batches, moods, clock, writer, faults>>

\* The claim expired before the jobs were listed.
LoadNothing(w) ==
  /\ worker[w].pc = "claimed"
  /\ JobsOf(worker[w].batch) = {}
  /\ FailBatch(w, FALSE)

\* The mood cannot be read or the model gives no usable answer; only a prompt
\* that is too long is not tried again.
EvaluationFails(w) ==
  /\ worker[w].pc = "evaluating"
  /\ \E retryable \in BOOLEAN : FailBatch(w, retryable)

OwnerOf(w) == jobs[CHOOSE s \in worker[w].jobs : TRUE].owner

\* ensureBatchBaseStillCurrent, then the rows of the commit are built.
BaseStillCurrent(w) ==
  \/ worker[w].base = CurrentMood(OwnerOf(w))
  \/ worker[w].base # 0 /\ CurrentMood(OwnerOf(w)) = 0

EvaluationAnswers(w) ==
  /\ worker[w].pc = "evaluating"
  /\ BaseStillCurrent(w)
  /\ clock' = clock + 1
  /\ worker' = [worker EXCEPT ![w].pc = "checked", ![w].at = clock + 1]
  /\ UNCHANGED <<jobs, batches, moods, writer, faults>>

BaseChanged(w) ==
  /\ worker[w].pc = "evaluating"
  /\ ~BaseStillCurrent(w)
  /\ FailBatch(w, FALSE)

\* Mutant: the commit only looks whether the batch was committed already.
StillRunning_Unchecked(b) == batches[b].status # "done"

\* CommitBatchEvaluation refuses a batch that no longer holds all its jobs.
StillRunning(b) ==
  /\ batches[b].status = "running"
  /\ Cardinality({s \in JobsOf(b) : jobs[s].status = "running"}) = batches[b].count

Commit(w) ==
  LET b == worker[w].batch IN
  /\ worker[w].pc = "checked"
  /\ worker' = [worker EXCEPT ![w] = IdleWorker]
  /\ IF StillRunning(b)
     THEN /\ moods' = moods \cup {[owner |-> OwnerOf(w), at |-> worker[w].at, base |-> worker[w].base,
                                   by |-> "batch", jobs |-> worker[w].jobs, event |-> TRUE]}
          /\ batches' = [batches EXCEPT ![b].status = "done"]
          /\ jobs' = [s \in Seqs |-> IF s \in JobsOf(b) THEN [jobs[s] EXCEPT !.status = "done"]
                                     ELSE jobs[s]]
     ELSE UNCHANGED <<moods, batches, jobs>>
  /\ UNCHANGED <<clock, writer, faults>>

\* A failed write of the commit or of failBatch is only reported.
WriteFails(w) ==
  /\ worker[w].pc \in {"evaluating", "checked"}
  /\ faults > 0
  /\ faults' = faults - 1
  /\ worker' = [worker EXCEPT ![w] = IdleWorker]
  /\ UNCHANGED <<jobs, batches, moods, clock, writer>>

Work(w) ==
  \/ Claim(w) \/ ClaimNothing(w) \/ LoadBatch(w) \/ LoadNothing(w)
  \/ EvaluationFails(w) \/ EvaluationAnswers(w) \/ BaseChanged(w) \/ Commit(w)

----------------------------------------------------------------------------
\* The other writers of a mood: none of them looks at it again.

Ended(r) == [writer[r] EXCEPT !.pc = "ended", !.base = 0, !.at = 0]

\* currentMood; a reset or a delta takes its updated_at at once.
ReadMood(r) ==
  /\ writer[r].pc = "idle"
  /\ IF writer[r].kind = "manual"
     THEN /\ clock' = clock + 1
          /\ writer' = [writer EXCEPT ![r] =
               [@ EXCEPT !.pc = "drafted", !.base = CurrentMood(writer[r].owner), !.at = clock + 1]]
     ELSE /\ writer' = [writer EXCEPT ![r] =
               [@ EXCEPT !.pc = "evaluating", !.base = CurrentMood(writer[r].owner)]]
          /\ UNCHANGED clock
  /\ UNCHANGED <<jobs, batches, moods, worker, faults>>

\* SubmitMoodImpact: the evaluator answered, or the call ends in its error.
ImpactEvaluated(r) ==
  /\ writer[r].pc = "evaluating"
  /\ \/ clock' = clock + 1 /\ writer' = [writer EXCEPT ![r].pc = "drafted", ![r].at = clock + 1]
     \/ UNCHANGED clock /\ writer' = [writer EXCEPT ![r] = Ended(r)]
  /\ UNCHANGED <<jobs, batches, moods, worker, faults>>

ManualSupersedes(r) ==
  /\ writer[r].pc = "drafted" /\ writer[r].kind = "manual"
  /\ jobs' = Supersede({writer[r].owner})
  /\ writer' = [writer EXCEPT ![r].pc = "superseded"]
  /\ UNCHANGED <<batches, moods, clock, worker, faults>>

Written(r, event) ==
  [owner |-> writer[r].owner, at |-> writer[r].at, base |-> writer[r].base,
   by |-> writer[r].kind, jobs |-> {}, event |-> event]

\* CommitStateEvent: state and event in one transaction.
ManualCommits(r) ==
  /\ writer[r].pc = "superseded"
  /\ moods' = moods \cup {Written(r, TRUE)}
  /\ writer' = [writer EXCEPT ![r] = Ended(r)]
  /\ UNCHANGED <<jobs, batches, clock, worker, faults>>

\* InsertState, and InsertEvent as a statement of its own.
ImpactStored(r) ==
  /\ writer[r].pc = "drafted" /\ writer[r].kind = "submit"
  /\ moods' = moods \cup {Written(r, FALSE)}
  /\ writer' = [writer EXCEPT ![r].pc = "stored"]
  /\ UNCHANGED <<jobs, batches, clock, worker, faults>>

ImpactLogged(r) ==
  /\ writer[r].pc = "stored"
  /\ moods' = (moods \ {Written(r, FALSE)}) \cup {Written(r, TRUE)}
  /\ writer' = [writer EXCEPT ![r] = Ended(r)]
  /\ UNCHANGED <<jobs, batches, clock, worker, faults>>

Write(r) ==
  \/ ReadMood(r) \/ ImpactEvaluated(r) \/ ManualSupersedes(r) \/ ManualCommits(r)
  \/ ImpactStored(r) \/ ImpactLogged(r)

\* The process restarts: what is not in the database is gone.
Restart ==
  /\ faults > 0
  /\ faults' = faults - 1
  /\ worker' = [w \in Workers |-> IdleWorker]
  /\ writer' = [r \in Writers |->
                  IF writer[r].pc = "idle" THEN writer[r] ELSE Ended(r)]
  /\ UNCHANGED <<jobs, batches, moods, clock>>

Next ==
  \/ \E s \in Seqs : Enqueue(s)
  \/ \E o \in Owners : SupersedePending({o}) \/ ClearFailedJobs(o)
  \/ SupersedePending(Owners)
  \/ \E b \in BatchIds : RetryDue(b) \/ ClaimExpires(b)
  \/ \E w \in Workers : Work(w) \/ WriteFails(w)
  \/ \E r \in Writers : Write(r)
  \/ Restart

Spec == Init /\ [][Next]_vars

\* Workers poll for ever and an evaluation ends in an answer or an error; time
\* passes. Writers, administrators and faults promise nothing.
Fairness ==
  /\ \A w \in Workers : WF_vars(Work(w))
  /\ \A b \in BatchIds : WF_vars(RetryDue(b)) /\ WF_vars(Holder(b) = {} /\ ClaimExpires(b))

FairSpec == Spec /\ Fairness

----------------------------------------------------------------------------
\* Every variable keeps its type: the rows, batches and moods the queue can store.
TypeOK ==
  /\ jobs \in [Seqs -> Job]
  /\ batches \in [BatchIds -> Batch]
  /\ moods \subseteq Mood
  /\ clock \in Nat
  /\ worker \in [Workers -> [pc : {"idle", "claimed", "evaluating", "checked"}, batch : BatchIds \cup {0},
                             jobs : SUBSET Seqs, base : Nat, at : Nat]]
  /\ writer \in [Writers -> [pc : {"idle", "evaluating", "drafted", "superseded", "stored", "ended"},
                             kind : {"manual", "submit"}, owner : Owners, base : Nat, at : Nat]]
  /\ faults \in Nat

\* A turn moves the mood of its owner at most once, and the queue says so: it
\* is done exactly when a stored mood folds it, whatever claims expired, were
\* taken over or failed in between (CommitBatchEvaluation, MarkBatchFailed).
FoldedOnce ==
  /\ \A m, n \in moods : m # n => m.jobs \cap n.jobs = {}
  /\ \A s \in Seqs :
       jobs[s].status = "done" <=> \E m \in moods : s \in m.jobs /\ m.owner = jobs[s].owner

\* At most one batch of an owner is at work, it holds all of its jobs, and no
\* batch that was recorded as failed or done holds a running job.
OneBatchPerOwner ==
  /\ \A s, t \in Seqs :
       jobs[s].status = "running" /\ jobs[t].status = "running" /\ jobs[s].owner = jobs[t].owner
         => jobs[s].batch = jobs[t].batch
  /\ \A s \in Seqs : jobs[s].status = "running" =>
       /\ jobs[s].batch # 0
       /\ StillRunning(jobs[s].batch)

\* Every queued turn is folded, failed or superseded in the end: no claim is
\* left behind for ever and no retry is forgotten.
EventuallySettled ==
  \A s \in Seqs : jobs[s].status = "pending" ~> jobs[s].status \in Settled

\* Turns of one owner are folded in the order they were queued; only a turn
\* whose earlier claim failed or expired may be overtaken by later ones.
OvertakenOnlyByRetry ==
  \A m, n \in moods : m.owner = n.owner /\ m.at < n.at =>
    \A s \in m.jobs, t \in n.jobs : t < s => jobs[t].attempts > 1

\* A turn that is settled stays so: it is neither claimed again nor failed by a worker that
\* comes late; only failed turns are cleared (ClaimBatch, MarkBatchFailed, ClearFailedJobs).
SettledStays ==
  [][\A s \in Seqs : jobs[s].status \in Settled =>
       \/ jobs'[s].status = jobs[s].status
       \/ jobs[s].status = "failed" /\ jobs'[s].status = "cleared"]_vars

\* A worker whose batch was given up under it leaves no trace in the queue or the mood,
\* whether its evaluation succeeds or fails (CommitBatchEvaluation, MarkBatchFailed).
LateWorkerIgnored ==
  [][\A w \in Workers : worker[w].pc # "idle" /\ batches[worker[w].batch].status # "running"
                          /\ worker'[w] # worker[w]
       => UNCHANGED <<jobs, batches, moods>>]_vars
----------------------------------------------------------------------------
(* The inductive strengthening behind the invariants above (proved in        *)
(* AffectJobs_proofs).                                                        *)

\* A job is in a batch from its claim on and runs just while its batch does, a batch is
\* of one owner and counts its jobs, and an owner has one batch that runs.
RowsAgree(js, bs) ==
  /\ \A s \in Seqs :
       /\ js[s].status \in {"absent", "pending", "superseded"} => js[s].batch = 0
       /\ js[s].status = "running" => js[s].batch # 0
       /\ js[s].batch # 0 =>
            /\ bs[js[s].batch].status # "absent"
            /\ js[s].status = "running" <=> bs[js[s].batch].status = "running"
  /\ \A b \in BatchIds : bs[b].status = "running" =>
       bs[b].count = Cardinality({s \in Seqs : js[s].batch = b})
  /\ \A s, t \in Seqs : js[s].batch = js[t].batch /\ js[s].batch # 0 => js[s].owner = js[t].owner
  /\ \A s, t \in Seqs :
       js[s].status = "running" /\ js[t].status = "running" /\ js[s].owner = js[t].owner
         => js[s].batch = js[t].batch

\* A worker has a batch of its own; while that runs its jobs are those the worker listed,
\* and one that was given up under it has none.
Holds(x) ==
  /\ x.batch # 0 /\ batches[x.batch].status \in {"running", "failed"}
  /\ batches[x.batch].status = "failed" => JobsOf(x.batch) = {}
  /\ x.pc \in {"evaluating", "checked"} =>
       /\ x.jobs # {}
       /\ batches[x.batch].status = "running" => x.jobs = JobsOf(x.batch)

WorkersHold ==
  /\ \A w \in Workers : worker[w].pc # "idle" => Holds(worker[w])
  /\ \A v, w \in Workers : v # w /\ worker[v].pc # "idle" /\ worker[w].pc # "idle" =>
       worker[v].batch # worker[w].batch

\* Every owner with a mood has a latest one, and none is younger than the clock.
Latest ==
  /\ \A o \in Owners : MoodsOf(o) # {} => \E m \in MoodsOf(o) : \A n \in MoodsOf(o) : n.at <= m.at
  /\ \A m \in moods : m.at <= clock
  /\ \A w \in Workers : worker[w].at <= clock
  /\ \A r \in Writers : writer[r].at <= clock

\* A mood folds turns of its owner that are done.
MoodsAreDone ==
  \A m \in moods : \A s \in m.jobs : jobs[s].status = "done" /\ jobs[s].owner = m.owner

\* Turns are queued in order; who runs or waits for a retry was claimed; a turn behind
\* which a later one of its owner was claimed has been claimed before, and once more if
\* it runs after that one was folded.
PassedOver ==
  /\ \A s, t \in Seqs : t < s /\ jobs[s].status # "absent" => jobs[t].status # "absent"
  /\ \A s \in Seqs : jobs[s].status = "running" \/ jobs[s].wait # 0 => jobs[s].attempts >= 1
  /\ \A s, t \in Seqs : t < s /\ jobs[t].owner = jobs[s].owner =>
       /\ jobs[s].status \in {"running", "done"} /\ jobs[t].status = "pending" => jobs[t].attempts >= 1
       /\ jobs[s].status = "done" /\ jobs[t].status = "running" => jobs[t].attempts >= 2

\* What a batch is about to store is younger than all its owner's turns stored so far.
CommitsInOrder ==
  \A w \in Workers : worker[w].pc = "checked" /\ batches[worker[w].batch].status = "running" =>
    \A m \in moods, s \in JobsOf(worker[w].batch) :
      m.jobs # {} /\ m.owner = jobs[s].owner => m.at < worker[w].at

QueueInv == RowsAgree(jobs, batches) /\ WorkersHold /\ Latest
FoldInv == MoodsAreDone /\ FoldedOnce
OrderInv == PassedOver /\ CommitsInOrder /\ OvertakenOnlyByRetry
=============================================================================
