-------------------------- MODULE AffectJobs_proofs --------------------------
(***************************************************************************)
(* Proofs about AffectJobs, for every set of owners, workers and writers    *)
(* and every number of jobs, attempts, batches and faults: the types of its *)
(* rows, that an owner has one batch at work which holds all of its jobs,   *)
(* that a turn moves the mood at most once and the queue says so, and that  *)
(* only a retry is overtaken.                                               *)
(***************************************************************************)
EXTENDS AffectJobs, FiniteSetTheorems, TLAPS

WorkerState == [pc : {"idle", "claimed", "evaluating", "checked"}, batch : BatchIds \cup {0},
                jobs : SUBSET Seqs, base : Nat, at : Nat]
WriterState == [pc : {"idle", "evaluating", "drafted", "superseded", "stored", "ended"},
                kind : {"manual", "submit"}, owner : Owners, base : Nat, at : Nat]

\* Batches and jobs are numbered from 1: 0 is none.
LEMMA Numbers ==
  /\ BatchIds \subseteq Nat /\ 0 \notin BatchIds /\ Seqs \subseteq Nat
  /\ \A S \in SUBSET Seqs : Cardinality(S) \in Nat
<1>1. IsFiniteSet(Seqs) BY FS_Interval, BoundsAssumption DEF Seqs
<1>2. \A S \in SUBSET Seqs : IsFiniteSet(S) BY <1>1, FS_Subset
<1> QED BY <1>2, FS_CardinalityType, BoundsAssumption DEF BatchIds, Seqs

\* A worker moves, the others stay where they are.
LEMMA WorkerMoves ==
  ASSUME TypeOK, NEW w \in Workers, NEW x \in WorkerState, worker' = [worker EXCEPT ![w] = x]
  PROVE  /\ worker' \in [Workers -> WorkerState] /\ worker'[w] = x
         /\ \A v \in Workers \ {w} : worker'[v] = worker[v]
  BY DEF TypeOK, WorkerState

\* The same for a writer.
LEMMA WriterMoves ==
  ASSUME TypeOK, NEW r \in Writers, NEW x \in WriterState, writer' = [writer EXCEPT ![r] = x]
  PROVE  /\ writer' \in [Writers -> WriterState] /\ writer'[r] = x
         /\ \A q \in Writers \ {r} : writer'[q] = writer[q]
  BY DEF TypeOK, WriterState

\* A worker that rests holds nothing.
LEMMA Rests == IdleWorker \in WorkerState /\ IdleWorker.pc = "idle" /\ IdleWorker.at = 0
  BY DEF IdleWorker, WorkerState

-----------------------------------------------------------------------------
(* Moods *)

\* The current mood is one that is stored, or the baseline.
LEMMA CurrentMoodType ==
  ASSUME TypeOK, Latest, NEW o \in Owners
  PROVE  CurrentMood(o) \in Nat
<1>1. CASE MoodsOf(o) = {} BY <1>1 DEF CurrentMood
<1>2. CASE MoodsOf(o) # {}
  <2> DEFINE m == CHOOSE x \in MoodsOf(o) : \A n \in MoodsOf(o) : n.at <= x.at
  <2>1. \E x \in MoodsOf(o) : \A n \in MoodsOf(o) : n.at <= x.at BY <1>2 DEF Latest
  <2>2. m \in MoodsOf(o) BY <2>1
  <2> HIDE DEF m
  <2>3. m \in Mood BY <2>2 DEF MoodsOf, TypeOK
  <2>4. CurrentMood(o) = m.at BY <1>2 DEF CurrentMood, m
  <2> QED BY <2>3, <2>4 DEF Mood
<1> QED BY <1>1, <1>2

\* A mood that is stored, or stored again, leaves its owner a latest one.
LEMMA MoodStored ==
  ASSUME TypeOK, Latest, NEW x, NEW y \in Mood, x.owner = y.owner, x.at = y.at,
         moods' = (moods \ {x}) \cup {y}, clock' \in Nat, clock <= clock', y.at <= clock'
  PROVE  /\ \A o \in Owners : MoodsOf(o)' # {} =>
              \E m \in MoodsOf(o)' : \A n \in MoodsOf(o)' : n.at <= m.at
         /\ \A m \in moods' : m.at <= clock'
<1>1. \A m \in moods : m \in Mood /\ m.at \in Nat /\ m.at <= clock BY DEF TypeOK, Latest, Mood
<1>2. y.at \in Nat /\ clock \in Nat BY DEF Mood, TypeOK
<1>3. \A m \in moods' : m.at <= clock' BY <1>1, <1>2
<1>4. ASSUME NEW o \in Owners, MoodsOf(o)' # {}
      PROVE  \E m \in MoodsOf(o)' : \A n \in MoodsOf(o)' : n.at <= m.at
  <2>1. CASE o # y.owner
    <3>1. MoodsOf(o)' = MoodsOf(o) BY <2>1 DEF MoodsOf
    <3> QED BY <1>4, <3>1 DEF Latest
  <2>2. CASE o = y.owner /\ MoodsOf(o) = {}
    <3>1. MoodsOf(o)' = {y} BY <2>2 DEF MoodsOf
    <3> QED BY <1>2, <3>1
  <2>3. CASE o = y.owner /\ MoodsOf(o) # {}
    <3>1. PICK m \in MoodsOf(o) : \A n \in MoodsOf(o) : n.at <= m.at BY <2>3 DEF Latest
    <3>2. m \in moods /\ y \in MoodsOf(o)' BY <2>3 DEF MoodsOf
    <3>3. \A n \in MoodsOf(o)' : n = y \/ n \in MoodsOf(o) BY DEF MoodsOf
    <3>4. CASE m.at <= y.at
      <4>1. \A n \in MoodsOf(o) : n.at \in Nat BY <1>1 DEF MoodsOf
      <4>2. \A n \in MoodsOf(o)' : n.at <= y.at BY <1>1, <1>2, <3>1, <3>2, <3>3, <3>4, <4>1
      <4> QED BY <3>2, <4>2
    <3>5. CASE ~ (m.at <= y.at)
      <4>1. m \in MoodsOf(o)' BY <1>2, <3>1, <3>2, <3>5 DEF MoodsOf
      <4>2. y.at <= m.at BY <1>1, <1>2, <3>2, <3>5
      <4>3. \A n \in MoodsOf(o)' : n.at <= m.at BY <3>1, <3>3, <4>2
      <4> QED BY <4>1, <4>3
    <3> QED BY <3>4, <3>5
  <2> QED BY <2>1, <2>2, <2>3
<1> QED BY <1>3, <1>4

\* Steps that store no mood: the clock only goes on, and readings are of it.
LEMMA LatestKept ==
  ASSUME TypeOK, Latest, moods' = moods, clock' \in Nat, clock <= clock',
         \A w \in Workers : worker'[w].at <= clock', \A r \in Writers : writer'[r].at <= clock'
  PROVE  Latest'
<1>1. \A m \in moods : m.at <= clock'
  BY DEF TypeOK, Latest, Mood
<1>2. \A o \in Owners : MoodsOf(o)' = MoodsOf(o) BY DEF MoodsOf
<1> QED BY <1>1, <1>2 DEF Latest

-----------------------------------------------------------------------------
(* Jobs and batches *)

\* What the queue does to jobs that do not run, and time to claims.
LEMMA RowsKept ==
  ASSUME NEW js, NEW bs, NEW ks, NEW cs, RowsAgree(js, bs),
         \A s \in Seqs :
           /\ ks[s].owner = js[s].owner /\ ks[s].batch = js[s].batch
           /\ \/ ks[s].status = js[s].status
              \/ /\ js[s].status # "running" /\ ks[s].status # "running"
                 /\ js[s].batch = 0 \/ ks[s].status \notin {"absent", "pending", "superseded"},
         \A b \in BatchIds : cs[b].status = bs[b].status /\ cs[b].count = bs[b].count,
         \A s \in Seqs : js[s].batch # 0 => js[s].batch \in BatchIds
  PROVE  RowsAgree(ks, cs)
<1>1. \A s \in Seqs :
        /\ ks[s].status \in {"absent", "pending", "superseded"} => ks[s].batch = 0
        /\ ks[s].status = "running" => ks[s].batch # 0
        /\ ks[s].batch # 0 =>
             /\ cs[ks[s].batch].status # "absent"
             /\ ks[s].status = "running" <=> cs[ks[s].batch].status = "running"
  BY DEF RowsAgree
<1>2. \A b \in BatchIds : cs[b].status = "running" =>
        cs[b].count = Cardinality({s \in Seqs : ks[s].batch = b})
  <2>1. \A b : {s \in Seqs : ks[s].batch = b} = {s \in Seqs : js[s].batch = b} OBVIOUS
  <2> QED BY <2>1 DEF RowsAgree
<1>3. \A s, t \in Seqs : ks[s].batch = ks[t].batch /\ ks[s].batch # 0 => ks[s].owner = ks[t].owner
  BY DEF RowsAgree
<1>4. \A s, t \in Seqs :
        ks[s].status = "running" /\ ks[t].status = "running" /\ ks[s].owner = ks[t].owner
          => ks[s].batch = ks[t].batch
  BY DEF RowsAgree
<1> QED BY <1>1, <1>2, <1>3, <1>4 DEF RowsAgree

\* The release of expired claims: a batch is given up with all of its jobs.
LEMMA ReleasedRows ==
  ASSUME TypeOK, RowsAgree(jobs, batches)
  PROVE  /\ RowsAgree(ReleasedJobs, ReleasedBatches)
         /\ ReleasedJobs \in [Seqs -> Job] /\ ReleasedBatches \in [BatchIds -> Batch]
         /\ \A s \in Seqs :
              /\ ReleasedJobs[s].owner = jobs[s].owner /\ ReleasedJobs[s].attempts = jobs[s].attempts
              /\ ReleasedJobs[s].wait = jobs[s].wait
              /\ \/ ReleasedJobs[s] = jobs[s]
                 \/ jobs[s].status = "running" /\ ReleasedJobs[s].status = "pending"
                    /\ ReleasedJobs[s].batch = 0
         /\ \A b \in BatchIds :
              \/ /\ ReleasedBatches[b] = batches[b]
                 /\ \A s \in Seqs : ReleasedJobs[s].batch = b <=> jobs[s].batch = b
              \/ /\ batches[b].status = "running" /\ ReleasedBatches[b].status = "failed"
                 /\ \A s \in Seqs : ReleasedJobs[s].batch # b
<1> DEFINE js == ReleasedJobs  bs == ReleasedBatches
<1>1. \A s \in Seqs :
        /\ jobs[s] \in Job
        /\ Expired(jobs[s]) => jobs[s].batch \in BatchIds /\ batches[jobs[s].batch].status = "running"
  BY DEF TypeOK, RowsAgree, Expired, Job
<1>2. \A s \in Seqs :
        /\ js[s] \in Job /\ js[s].owner = jobs[s].owner /\ js[s].attempts = jobs[s].attempts
        /\ js[s].wait = jobs[s].wait
        /\ Expired(jobs[s]) => jobs[s].status = "running" /\ js[s].status = "pending" /\ js[s].batch = 0
        /\ ~Expired(jobs[s]) => js[s] = jobs[s]
  <2>1. \A s \in Seqs : Expired(jobs[s]) => jobs[s].status = "running" BY DEF Expired
  <2>2. \A j \in Job : LET i == [j EXCEPT !.status = "pending", !.batch = 0] IN
          /\ i \in Job /\ i.owner = j.owner /\ i.attempts = j.attempts /\ i.wait = j.wait
          /\ i.status = "pending" /\ i.batch = 0
    BY DEF Job, Statuses
  <2> QED BY <1>1, <2>1, <2>2 DEF ReleasedJobs
<1>3. \A b \in BatchIds :
        /\ bs[b] \in Batch /\ bs[b].count = batches[b].count
        /\ \/ bs[b].status = batches[b].status
           \/ batches[b].status = "running" /\ bs[b].status = "failed"
        /\ bs[b].status = "running" => \A s \in Seqs : jobs[s].batch = b => ~Expired(jobs[s])
        /\ (\A s \in Seqs : jobs[s].batch = b => ~Expired(jobs[s])) => bs[b] = batches[b]
        /\ (\E s \in Seqs : jobs[s].batch = b /\ Expired(jobs[s])) /\ batches[b].status = "running"
             => bs[b].status = "failed"
  <2> TAKE b \in BatchIds
  <2> DEFINE given == batches[b].status = "running" /\ \E s \in Seqs : Expired(jobs[s]) /\ jobs[s].batch = b
  <2>1. batches[b] \in Batch BY DEF TypeOK
  <2>2. bs[b] = IF given THEN [batches[b] EXCEPT !.status = "failed"] ELSE batches[b]
    BY DEF ReleasedBatches
  <2>3. given => \E s \in Seqs : Expired(jobs[s]) /\ jobs[s].batch = b OBVIOUS
  <2>4. ~given /\ batches[b].status = "running" => \A s \in Seqs : jobs[s].batch = b => ~Expired(jobs[s])
    OBVIOUS
  <2>5. [batches[b] EXCEPT !.status = "failed"] \in Batch BY <2>1 DEF Batch
  <2>6. given => batches[b].status = "running" OBVIOUS
  <2>7. /\ given => /\ bs[b].status = "failed" /\ bs[b].count = batches[b].count /\ bs[b] \in Batch
        /\ ~given => bs[b] = batches[b]
    <3>1. given => bs[b] = [batches[b] EXCEPT !.status = "failed"] BY <2>2
    <3>2. ~given => bs[b] = batches[b] BY <2>2
    <3> QED BY <2>1, <2>5, <3>1, <3>2 DEF Batch
  <2>8. (\E s \in Seqs : jobs[s].batch = b /\ Expired(jobs[s])) /\ batches[b].status = "running" => given
    OBVIOUS
  <2> HIDE DEF given, bs
  <2> QED BY <2>1, <2>3, <2>4, <2>6, <2>7, <2>8
<1>4. ASSUME NEW b \in BatchIds
      PROVE  \/ /\ bs[b] = batches[b]
                /\ \A s \in Seqs : js[s].batch = b <=> jobs[s].batch = b
             \/ /\ batches[b].status = "running" /\ bs[b].status = "failed"
                /\ \A s \in Seqs : js[s].batch # b
  <2>0. b # 0 BY Numbers
  <2>1. CASE \A s \in Seqs : jobs[s].batch = b => ~Expired(jobs[s])
    BY <1>2, <1>3, <2>0, <2>1
  <2>2. CASE \E s \in Seqs : jobs[s].batch = b /\ Expired(jobs[s])
    <3>1. batches[b].status = "running" /\ batches[b].expired BY <1>1, <2>2 DEF Expired
    <3>2. \A s \in Seqs : jobs[s].batch = b => Expired(jobs[s])
      BY <2>0, <3>1 DEF RowsAgree, Expired
    <3> QED BY <1>2, <1>3, <2>0, <2>2, <3>1, <3>2
  <2> QED BY <2>1, <2>2
<1>5. js \in [Seqs -> Job] /\ bs \in [BatchIds -> Batch]
  BY <1>2, <1>3 DEF ReleasedJobs, ReleasedBatches
<1>6. RowsAgree(js, bs)
  <2> HIDE DEF js, bs
  <2>0. \A s \in Seqs : jobs[s].batch # 0 => jobs[s].batch \in BatchIds BY <1>1 DEF Job
  <2>1. ASSUME NEW s \in Seqs
        PROVE  /\ js[s].status \in {"absent", "pending", "superseded"} => js[s].batch = 0
               /\ js[s].status = "running" => js[s].batch # 0
               /\ js[s].batch # 0 =>
                    /\ bs[js[s].batch].status # "absent"
                    /\ js[s].status = "running" <=> bs[js[s].batch].status = "running"
    <3>1. CASE Expired(jobs[s]) BY <1>2, <3>1
    <3>2. CASE ~Expired(jobs[s])
      <4>1. js[s] = jobs[s] BY <1>2, <3>2
      <4>2. jobs[s].batch # 0 => bs[jobs[s].batch] = batches[jobs[s].batch]
        BY <1>4, <2>0, <4>1
      <4> QED BY <4>1, <4>2 DEF RowsAgree
    <3> QED BY <3>1, <3>2
  <2>2. ASSUME NEW b \in BatchIds, bs[b].status = "running"
        PROVE  bs[b].count = Cardinality({s \in Seqs : js[s].batch = b})
    <3>1. bs[b] = batches[b] /\ \A s \in Seqs : js[s].batch = b <=> jobs[s].batch = b
      BY <1>4, <2>2
    <3>2. {s \in Seqs : js[s].batch = b} = {s \in Seqs : jobs[s].batch = b} BY <3>1
    <3> QED BY <2>2, <3>1, <3>2 DEF RowsAgree
  <2>3. \A s, t \in Seqs : js[s].batch = js[t].batch /\ js[s].batch # 0 => js[s].owner = js[t].owner
    BY <1>2 DEF RowsAgree
  <2>4. \A s, t \in Seqs :
          js[s].status = "running" /\ js[t].status = "running" /\ js[s].owner = js[t].owner
            => js[s].batch = js[t].batch
    BY <1>2 DEF RowsAgree
  <2> QED BY <2>1, <2>2, <2>3, <2>4 DEF RowsAgree
<1> QED BY <1>2, <1>4, <1>5, <1>6

\* A job that is claimed.
LEMMA JobTaken ==
  ASSUME NEW j \in Job, NEW b \in BatchIds
  PROVE  LET i == [j EXCEPT !.status = "running", !.batch = b, !.attempts = @ + 1] IN
         /\ i \in Job /\ i.owner = j.owner /\ i.wait = j.wait
         /\ i.status = "running" /\ i.batch = b /\ i.attempts = j.attempts + 1
<1> DEFINE i == [j EXCEPT !.status = "running", !.batch = b, !.attempts = @ + 1]
<1>1. /\ i.owner = j.owner /\ i.wait = j.wait /\ i.status = "running" /\ i.batch = b
      /\ i.attempts = j.attempts + 1
  BY DEF Job
<1>2. j.attempts + 1 \in Nat BY DEF Job
<1>3. i \in Job BY <1>2 DEF Job, Statuses
<1> QED BY <1>1, <1>3

\* Jobs T of owner o, in no batch so far, join the new batch b.
Joins(js, bs, b, o, T, ks, cs) ==
  /\ bs[b].status = "absent" /\ T \in SUBSET Seqs
  /\ \A t \in T : js[t].owner = o /\ js[t].batch = 0
  /\ \A s \in Seqs : ~(js[s].owner = o /\ js[s].status = "running")
  /\ \A s \in Seqs : /\ ks[s].owner = js[s].owner
                     /\ s \notin T => ks[s] = js[s]
                     /\ s \in T => ks[s].status = "running" /\ ks[s].batch = b
  /\ cs[b].status = "running" /\ cs[b].count = Cardinality(T)
  /\ \A c \in BatchIds \ {b} : cs[c] = bs[c]

\* Batches and jobs agree when jobs of an owner who has none that runs join a batch.
LEMMA JoinedRows ==
  ASSUME NEW js \in [Seqs -> Job], NEW bs, RowsAgree(js, bs), NEW b \in BatchIds, NEW o, NEW T,
         NEW ks, NEW cs, Joins(js, bs, b, o, T, ks, cs)
  PROVE  RowsAgree(ks, cs)
<1> USE DEF Joins
<1>1. b # 0 BY Numbers
<1>2. ASSUME NEW s \in Seqs PROVE js[s].batch # b /\ js[s].batch \in BatchIds \cup {0}
  <2>1. js[s].batch \in BatchIds \cup {0} BY DEF Job
  <2>2. js[s].batch # 0 => bs[js[s].batch].status # "absent" BY DEF RowsAgree
  <2> QED BY <1>1, <2>1, <2>2
<1>3. ASSUME NEW s \in Seqs
      PROVE  /\ ks[s].status \in {"absent", "pending", "superseded"} => ks[s].batch = 0
             /\ ks[s].status = "running" => ks[s].batch # 0
             /\ ks[s].batch # 0 =>
                  /\ cs[ks[s].batch].status # "absent"
                  /\ ks[s].status = "running" <=> cs[ks[s].batch].status = "running"
  <2>1. CASE s \in T BY <1>1, <2>1
  <2>2. CASE s \notin T
    <3>1. ks[s] = js[s] BY <2>2
    <3>2. js[s].batch # 0 => cs[js[s].batch] = bs[js[s].batch] BY <1>2
    <3> QED BY <3>1, <3>2 DEF RowsAgree
  <2> QED BY <2>1, <2>2
<1>4. ASSUME NEW c \in BatchIds, cs[c].status = "running"
      PROVE  cs[c].count = Cardinality({s \in Seqs : ks[s].batch = c})
  <2>1. CASE c = b
    <3>1. {s \in Seqs : ks[s].batch = b} = T BY <1>2
    <3> QED BY <2>1, <3>1
  <2>2. CASE c # b
    <3>1. c # 0 BY Numbers
    <3>2. \A s \in Seqs : ks[s].batch = c <=> js[s].batch = c BY <1>2, <2>2, <3>1
    <3>3. {s \in Seqs : ks[s].batch = c} = {s \in Seqs : js[s].batch = c} BY <3>2
    <3> QED BY <1>4, <2>2, <3>3 DEF RowsAgree
  <2> QED BY <2>1, <2>2
<1>5. ASSUME NEW s \in Seqs, NEW t \in Seqs, ks[s].batch = ks[t].batch, ks[s].batch # 0
      PROVE  ks[s].owner = ks[t].owner
  <2>1. s \in T <=> t \in T BY <1>2, <1>5
  <2>2. CASE s \in T BY <2>1, <2>2
  <2>3. CASE s \notin T BY <1>5, <2>1, <2>3 DEF RowsAgree
  <2> QED BY <2>2, <2>3
<1>6. ASSUME NEW s \in Seqs, NEW t \in Seqs,
             ks[s].status = "running", ks[t].status = "running", ks[s].owner = ks[t].owner
      PROVE  ks[s].batch = ks[t].batch
  <2>1. s \in T <=> t \in T BY <1>6
  <2>2. CASE s \in T BY <2>1, <2>2
  <2>3. CASE s \notin T BY <1>6, <2>1, <2>3 DEF RowsAgree
  <2> QED BY <2>2, <2>3
<1> QED BY <1>3, <1>4, <1>5, <1>6 DEF RowsAgree

\* A batch ends with all of its jobs: they are settled, or sent back.
LEMMA EndedRows ==
  ASSUME TypeOK, RowsAgree(jobs, batches), NEW b \in BatchIds, NEW ks, NEW cs,
         batches[b].status = "running" \/ JobsOf(b) = {},
         cs[b].status \in {"failed", "done"}, \A c \in BatchIds \ {b} : cs[c] = batches[c],
         \A s \in Seqs :
           /\ ks[s].owner = jobs[s].owner
           /\ s \notin JobsOf(b) => ks[s] = jobs[s]
           /\ s \in JobsOf(b) => \/ ks[s].status = "pending" /\ ks[s].batch = 0
                                 \/ ks[s].status \in {"failed", "done"} /\ ks[s].batch = b
  PROVE  RowsAgree(ks, cs)
<1>1. b # 0 /\ \A s \in Seqs : jobs[s].batch \in BatchIds \cup {0} BY Numbers DEF TypeOK, Job
<1>2. \A s \in Seqs : s \in JobsOf(b) <=> jobs[s].batch = b BY DEF JobsOf
<1>3. \A s \in Seqs :
        /\ ks[s].status \in {"absent", "pending", "superseded"} => ks[s].batch = 0
        /\ ks[s].status = "running" => ks[s].batch # 0
        /\ ks[s].batch # 0 =>
             /\ cs[ks[s].batch].status # "absent"
             /\ ks[s].status = "running" <=> cs[ks[s].batch].status = "running"
  BY <1>1, <1>2 DEF RowsAgree
<1>4. ASSUME NEW c \in BatchIds, cs[c].status = "running"
      PROVE  cs[c].count = Cardinality({s \in Seqs : ks[s].batch = c})
  <2>1. c # b /\ c # 0 BY <1>4, Numbers
  <2>2. \A s \in Seqs : ks[s].batch = c <=> jobs[s].batch = c BY <1>1, <1>2, <2>1
  <2>3. {s \in Seqs : ks[s].batch = c} = {s \in Seqs : jobs[s].batch = c} BY <2>2
  <2> QED BY <1>4, <2>1, <2>3 DEF RowsAgree
<1>5. \A s, t \in Seqs : ks[s].batch = ks[t].batch /\ ks[s].batch # 0 => ks[s].owner = ks[t].owner
  BY <1>2 DEF RowsAgree
<1>6. \A s, t \in Seqs :
        ks[s].status = "running" /\ ks[t].status = "running" /\ ks[s].owner = ks[t].owner
          => ks[s].batch = ks[t].batch
  BY <1>2 DEF RowsAgree
<1> QED BY <1>3, <1>4, <1>5, <1>6 DEF RowsAgree

-----------------------------------------------------------------------------
(* Workers *)

\* Workers go on with the batch they have, or rest, while batches end or lose their jobs.
LEMMA WorkersKept ==
  ASSUME TypeOK, WorkersHold,
         \A w \in Workers : worker'[w].pc # "idle" =>
           /\ worker'[w] = worker[w]
           /\ LET b == worker[w].batch IN
              \/ batches'[b].status = batches[b].status /\ JobsOf(b)' = JobsOf(b)
              \/ batches'[b].status = "failed" /\ JobsOf(b)' = {}
  PROVE  WorkersHold'
<1>1. ASSUME NEW w \in Workers, worker'[w].pc # "idle" PROVE Holds(worker[w])'
  <2>1. worker'[w] = worker[w] /\ Holds(worker[w]) BY <1>1 DEF WorkersHold
  <2> DEFINE b == worker[w].batch
  <2>2. \/ batches'[b].status = batches[b].status /\ JobsOf(b)' = JobsOf(b)
        \/ batches'[b].status = "failed" /\ JobsOf(b)' = {}
    BY <1>1
  <2> QED BY <2>1, <2>2 DEF Holds
<1> QED BY <1>1 DEF WorkersHold

\* A worker goes on within its batch, the others and the batches as they were.
LEMMA WorkerGoesOn ==
  ASSUME TypeOK, WorkersHold, NEW w \in Workers, worker[w].pc # "idle", NEW x \in WorkerState,
         x.batch = worker[w].batch, worker' = [worker EXCEPT ![w] = x], Holds(x),
         UNCHANGED <<jobs, batches>>
  PROVE  WorkersHold'
<1>1. worker'[w] = x /\ \A v \in Workers \ {w} : worker'[v] = worker[v] BY WorkerMoves
<1>2. \A b : JobsOf(b)' = JobsOf(b) BY DEF JobsOf
<1>3. Holds(x)' BY <1>2 DEF Holds
<1>4. \A v \in Workers \ {w} : worker[v].pc # "idle" => Holds(worker[v])' BY <1>1, <1>2 DEF WorkersHold, Holds
<1> QED BY <1>1, <1>3, <1>4 DEF WorkersHold

\* The same batches and jobs in them: workers hold what they held.
LEMMA SameJobs ==
  ASSUME \A s \in Seqs : jobs'[s].batch = jobs[s].batch
  PROVE  \A b : JobsOf(b)' = JobsOf(b)
  BY DEF JobsOf

-----------------------------------------------------------------------------
(* The queue *)

\* A step of the queue alone: jobs that do not run change their status, no mood, worker or
\* writer changes.
LEMMA QueueStep ==
  ASSUME TypeOK, QueueInv, jobs' \in [Seqs -> Job],
         \A s \in Seqs :
           /\ jobs'[s].owner = jobs[s].owner /\ jobs'[s].batch = jobs[s].batch
           /\ \/ jobs'[s].status = jobs[s].status
              \/ /\ jobs[s].status # "running" /\ jobs'[s].status # "running"
                 /\ jobs[s].batch = 0 \/ jobs'[s].status \notin {"absent", "pending", "superseded"},
         batches' \in [BatchIds -> Batch],
         \A b \in BatchIds : batches'[b].status = batches[b].status /\ batches'[b].count = batches[b].count,
         faults' \in Nat, UNCHANGED <<moods, clock>>,
         worker' \in [Workers -> WorkerState], writer' \in [Writers -> WriterState],
         \A w \in Workers : worker'[w] = worker[w] \/ worker'[w] = IdleWorker,
         \A r \in Writers : writer'[r].at <= clock
  PROVE  TypeOK' /\ QueueInv'
<1>1. \A s \in Seqs : jobs[s].batch # 0 => jobs[s].batch \in BatchIds BY DEF TypeOK, Job
<1>2. RowsAgree(jobs', batches') BY <1>1, RowsKept DEF QueueInv
<1>3. \A w \in Workers : worker'[w].pc # "idle" => worker'[w] = worker[w] /\ worker[w].batch \in BatchIds
  BY Rests DEF QueueInv, WorkersHold, Holds, TypeOK
<1>4. WorkersHold' BY <1>3, SameJobs, WorkersKept DEF QueueInv
<1>5. \A w \in Workers : worker'[w].at <= clock BY Rests DEF QueueInv, Latest, TypeOK
<1>6. Latest' BY <1>5, LatestKept DEF QueueInv, TypeOK
<1>7. TypeOK' BY DEF TypeOK, WorkerState, WriterState
<1> QED BY <1>2, <1>4, <1>6, <1>7 DEF QueueInv

\* The types QueueStep asks for.
LEMMA Typed ==
  ASSUME TypeOK
  PROVE  /\ worker \in [Workers -> WorkerState] /\ writer \in [Writers -> WriterState]
         /\ jobs \in [Seqs -> Job] /\ batches \in [BatchIds -> Batch] /\ faults \in Nat
  BY DEF TypeOK, WorkerState, WriterState

\* A finished turn that is queued was in no batch.
LEMMA Enqueued ==
  ASSUME TypeOK, QueueInv, NEW s \in Seqs, Enqueue(s)
  PROVE  TypeOK' /\ QueueInv'
<1>1. jobs[s] \in Job /\ jobs[s].status = "absent" /\ jobs[s].batch = 0
  BY DEF TypeOK, Enqueue, QueueInv, RowsAgree
<1>2. jobs' = [jobs EXCEPT ![s].status = "pending"] BY DEF Enqueue
<1>3. jobs' \in [Seqs -> Job] BY <1>1, <1>2, Typed DEF Job, Statuses
<1>4. /\ jobs'[s].status = "pending" /\ jobs'[s].owner = jobs[s].owner /\ jobs'[s].batch = jobs[s].batch
      /\ \A t \in Seqs \ {s} : jobs'[t] = jobs[t]
  BY <1>1, <1>2, Typed DEF Job
<1>5. UNCHANGED <<batches, moods, clock, worker, writer, faults>> BY DEF Enqueue
<1>6. \A r \in Writers : writer'[r].at <= clock BY <1>5 DEF QueueInv, Latest
<1> QED BY <1>1, <1>3, <1>4, <1>5, <1>6, Typed, QueueStep

\* Superseding takes pending jobs only: they are in no batch.
LEMMA SupersedeRows ==
  ASSUME TypeOK, QueueInv, NEW os
  PROVE  /\ Supersede(os) \in [Seqs -> Job]
         /\ \A s \in Seqs :
              /\ Supersede(os)[s].owner = jobs[s].owner /\ Supersede(os)[s].batch = jobs[s].batch
              /\ Supersede(os)[s].wait = jobs[s].wait /\ Supersede(os)[s].attempts = jobs[s].attempts
              /\ \/ Supersede(os)[s].status = jobs[s].status
                 \/ /\ jobs[s].status = "pending" /\ Supersede(os)[s].status = "superseded"
                    /\ jobs[s].batch = 0
<1>1. \A s \in Seqs : jobs[s] \in Job /\ (jobs[s].status = "pending" => jobs[s].batch = 0)
  BY DEF TypeOK, QueueInv, RowsAgree
<1>2. \A j \in Job : LET i == [j EXCEPT !.status = "superseded"] IN
        /\ i \in Job /\ i.owner = j.owner /\ i.batch = j.batch /\ i.wait = j.wait
        /\ i.attempts = j.attempts /\ i.status = "superseded"
  BY DEF Job, Statuses
<1> QED BY <1>1, <1>2 DEF Supersede

\* Cancelling pending jobs keeps the queue in order (SupersedePendingJobs).
LEMMA Cancelled ==
  ASSUME TypeOK, QueueInv, NEW os, SupersedePending(os)
  PROVE  TypeOK' /\ QueueInv'
<1>1. jobs' = Supersede(os) /\ UNCHANGED <<batches, moods, clock, worker, writer, faults>>
  BY DEF SupersedePending
<1>2. \A r \in Writers : writer'[r].at <= clock BY <1>1 DEF QueueInv, Latest
<1> QED BY <1>1, <1>2, SupersedeRows, Typed, QueueStep

\* Cleared jobs keep their batch, which does not run.
LEMMA Cleared ==
  ASSUME TypeOK, QueueInv, NEW o, ClearFailedJobs(o)
  PROVE  TypeOK' /\ QueueInv'
<1>1. /\ jobs' = [s \in Seqs |->
                IF jobs[s].owner = o /\ jobs[s].status = "failed"
                THEN [jobs[s] EXCEPT !.status = "cleared"] ELSE jobs[s]]
      /\ UNCHANGED <<batches, moods, clock, worker, writer, faults>>
  BY DEF ClearFailedJobs
<1>2. \A j \in Job : LET i == [j EXCEPT !.status = "cleared"] IN
        i \in Job /\ i.owner = j.owner /\ i.batch = j.batch /\ i.status = "cleared"
  BY DEF Job, Statuses
<1>3. \A s \in Seqs : /\ jobs'[s] \in Job /\ jobs'[s].owner = jobs[s].owner /\ jobs'[s].batch = jobs[s].batch
                      /\ \/ jobs'[s].status = jobs[s].status
                         \/ jobs[s].status = "failed" /\ jobs'[s].status = "cleared"
  BY <1>1, <1>2, Typed
<1>4. jobs' \in [Seqs -> Job] BY <1>1, <1>3
<1>5. \A r \in Writers : writer'[r].at <= clock BY <1>1 DEF QueueInv, Latest
<1> QED BY <1>1, <1>3, <1>4, <1>5, Typed, QueueStep

\* A retry that becomes due changes no more than that.
LEMMA Dued ==
  ASSUME TypeOK, QueueInv, NEW b, RetryDue(b)
  PROVE  TypeOK' /\ QueueInv'
<1>1. /\ jobs' = [s \in Seqs |-> IF jobs[s].wait = b THEN [jobs[s] EXCEPT !.wait = 0] ELSE jobs[s]]
      /\ UNCHANGED <<batches, moods, clock, worker, writer, faults>>
  BY DEF RetryDue
<1>2. \A j \in Job : LET i == [j EXCEPT !.wait = 0] IN
        i \in Job /\ i.owner = j.owner /\ i.batch = j.batch /\ i.status = j.status
  BY DEF Job
<1>3. \A s \in Seqs : /\ jobs'[s] \in Job /\ jobs'[s].owner = jobs[s].owner /\ jobs'[s].batch = jobs[s].batch
                      /\ jobs'[s].status = jobs[s].status
  BY <1>1, <1>2, Typed
<1>4. jobs' \in [Seqs -> Job] BY <1>1, <1>3
<1>5. \A r \in Writers : writer'[r].at <= clock BY <1>1 DEF QueueInv, Latest
<1> QED BY <1>1, <1>3, <1>4, <1>5, Typed, QueueStep

\* A claim that runs out under its worker changes no row yet.
LEMMA RanOut ==
  ASSUME TypeOK, QueueInv, NEW b \in BatchIds, ClaimExpires(b)
  PROVE  TypeOK' /\ QueueInv'
<1>1. batches' = [batches EXCEPT ![b].expired = TRUE] /\ UNCHANGED <<jobs, moods, clock, worker, writer>>
  BY DEF ClaimExpires
<1>2. faults' \in Nat BY DEF ClaimExpires, TypeOK
<1>3. /\ batches' \in [BatchIds -> Batch]
      /\ \A c \in BatchIds : batches'[c].status = batches[c].status /\ batches'[c].count = batches[c].count
  BY <1>1, Typed DEF Batch
<1>4. \A r \in Writers : writer'[r].at <= clock BY <1>1 DEF QueueInv, Latest
<1> QED BY <1>1, <1>2, <1>3, <1>4, Typed, QueueStep

\* A write that fails and a restart leave the rows as they were; workers and writers rest.
LEMMA Faulted ==
  ASSUME TypeOK, QueueInv, Restart \/ \E w \in Workers : WriteFails(w)
  PROVE  TypeOK' /\ QueueInv'
<1>1. UNCHANGED <<jobs, batches, moods, clock>> /\ faults' \in Nat
  BY DEF Restart, WriteFails, TypeOK
<1>2. /\ worker' \in [Workers -> WorkerState]
      /\ \A w \in Workers : worker'[w] = worker[w] \/ worker'[w] = IdleWorker
  BY Typed, Rests DEF Restart, WriteFails
<1>3. writer' \in [Writers -> WriterState] /\ \A r \in Writers : writer'[r].at <= clock
  <2>1. \A r \in Writers : Ended(r) \in WriterState /\ Ended(r).at = 0
    BY Typed DEF Ended, WriterState
  <2>2. clock \in Nat /\ \A r \in Writers : writer[r].at <= clock BY DEF TypeOK, QueueInv, Latest
  <2> QED BY <2>1, <2>2, Typed DEF Restart, WriteFails
<1> QED BY <1>1, <1>2, <1>3, Typed, QueueStep

-----------------------------------------------------------------------------
(* Claims and what follows them *)

\* What a claim of the jobs T from s on does to the rows.
Takes(s, T, b) ==
  /\ \E last \in Seqs : T = Contiguous(ReleasedJobs, s, last)
  /\ First(ReleasedJobs, s)
  /\ \A t \in T : jobs[t].owner = jobs[s].owner
  /\ batches[b].status = "absent"
  /\ jobs' = [t \in Seqs |->
                IF t \in T
                THEN [ReleasedJobs[t] EXCEPT !.status = "running", !.batch = b, !.attempts = @ + 1]
                ELSE ReleasedJobs[t]]
  /\ batches' = [ReleasedBatches EXCEPT
                   ![b] = [status |-> "running", count |-> Cardinality(T), expired |-> FALSE]]

\* A claim releases what has expired and makes a batch of due jobs of one owner.
LEMMA ClaimedRows ==
  ASSUME TypeOK, RowsAgree(jobs, batches), NEW s \in Seqs, NEW b \in BatchIds, NEW T, Takes(s, T, b)
  PROVE  /\ RowsAgree(jobs', batches') /\ jobs' \in [Seqs -> Job] /\ batches' \in [BatchIds -> Batch]
         /\ \A c \in BatchIds \ {b} : batches'[c] = ReleasedBatches[c]
         /\ \A t \in Seqs :
              /\ jobs'[t].owner = jobs[t].owner /\ jobs'[t].wait = jobs[t].wait
              /\ t \notin T => jobs'[t] = ReleasedJobs[t]
              /\ t \in T => /\ ReleasedJobs[t].status = "pending" /\ ReleasedJobs[t].batch = 0
                            /\ jobs'[t].status = "running" /\ jobs'[t].batch = b
                            /\ jobs'[t].attempts = ReleasedJobs[t].attempts + 1
         /\ batches'[b].status = "running"
<1> DEFINE js == ReleasedJobs  bs == ReleasedBatches
<1>1. /\ RowsAgree(js, bs) /\ js \in [Seqs -> Job] /\ bs \in [BatchIds -> Batch]
      /\ \A t \in Seqs : js[t].owner = jobs[t].owner /\ js[t].wait = jobs[t].wait
      /\ bs[b].status = "absent"
  BY ReleasedRows DEF Takes
<1>2. T \in SUBSET Seqs /\ Cardinality(T) \in Nat
  BY Numbers DEF Takes, Contiguous, Due
<1>3. \A t \in T : js[t].owner = jobs[s].owner /\ js[t].status = "pending" /\ js[t].batch = 0
  BY <1>1 DEF Takes, Contiguous, Due, RowsAgree
<1>4. \A t \in Seqs : ~(js[t].owner = jobs[s].owner /\ js[t].status = "running")
  BY <1>1 DEF Takes, First, Busy
<1>5. \A t \in Seqs :
        /\ jobs'[t] \in Job /\ jobs'[t].owner = js[t].owner /\ jobs'[t].wait = js[t].wait
        /\ t \notin T => jobs'[t] = js[t]
        /\ t \in T => /\ jobs'[t].status = "running" /\ jobs'[t].batch = b
                      /\ jobs'[t].attempts = js[t].attempts + 1
  <2> TAKE t \in Seqs
  <2> DEFINE i == [js[t] EXCEPT !.status = "running", !.batch = b, !.attempts = @ + 1]
  <2>1. js[t] \in Job BY <1>1
  <2>2. /\ i \in Job /\ i.owner = js[t].owner /\ i.wait = js[t].wait
        /\ i.status = "running" /\ i.batch = b /\ i.attempts = js[t].attempts + 1
    BY <2>1, JobTaken
  <2>3. jobs'[t] = IF t \in T THEN i ELSE js[t] BY DEF Takes
  <2> HIDE DEF i
  <2> QED BY <2>1, <2>2, <2>3
<1>6. /\ batches'[b].status = "running" /\ batches'[b].count = Cardinality(T)
      /\ batches' \in [BatchIds -> Batch] /\ \A c \in BatchIds \ {b} : batches'[c] = bs[c]
  BY <1>1, <1>2 DEF Takes, Batch
<1>7. jobs' \in [Seqs -> Job] BY <1>5 DEF Takes
<1>8. RowsAgree(jobs', batches')
  <2>1. Joins(js, bs, b, jobs[s].owner, T, jobs', batches')
    BY <1>1, <1>2, <1>3, <1>4, <1>5, <1>6 DEF Joins
  <2> HIDE DEF js, bs
  <2> QED BY <1>1, <2>1, JoinedRows
<1> QED BY <1>1, <1>3, <1>5, <1>6, <1>7, <1>8

\* A worker and its batch.
LEMMA Holding ==
  ASSUME TypeOK, QueueInv, NEW w \in Workers, worker[w].pc # "idle"
  PROVE  /\ worker[w] \in WorkerState /\ worker[w].batch \in BatchIds /\ Holds(worker[w])
         /\ worker[w].at <= clock /\ JobsOf(worker[w].batch) \subseteq Seqs
  BY Typed DEF QueueInv, WorkersHold, Holds, Latest, TypeOK, JobsOf

\* What a claim releases, it releases of the workers that are late, too.
LEMMA ReleasedHold ==
  ASSUME TypeOK, QueueInv, NEW v \in Workers, worker[v].pc # "idle"
  PROVE  LET b == worker[v].batch IN
         /\ b \in BatchIds /\ b # 0
         /\ \/ /\ ReleasedBatches[b].status = batches[b].status
               /\ \A s \in Seqs : ReleasedJobs[s].batch = b <=> jobs[s].batch = b
            \/ ReleasedBatches[b].status = "failed" /\ \A s \in Seqs : ReleasedJobs[s].batch # b
<1>1. worker[v].batch \in BatchIds /\ worker[v].batch # 0
  BY Numbers DEF QueueInv, WorkersHold, Holds, TypeOK
<1> QED BY <1>1, ReleasedRows DEF QueueInv

\* The jobs of a batch, by the rows of the next state.
LEMMA JobsByRows ==
  ASSUME NEW b
  PROVE  /\ (\A s \in Seqs : jobs'[s].batch = b <=> jobs[s].batch = b) => JobsOf(b)' = JobsOf(b)
         /\ (\A s \in Seqs : jobs'[s].batch # b) => JobsOf(b)' = {}
         /\ \A s \in Seqs : s \in JobsOf(b) <=> jobs[s].batch = b
  BY DEF JobsOf

\* The batches of others are not the one that is made, and keep their jobs or are given up.
LEMMA ClaimOthers ==
  ASSUME TypeOK, QueueInv, NEW s \in Seqs, NEW b \in BatchIds, NEW T, Takes(s, T, b),
         NEW v \in Workers, worker[v].pc # "idle"
  PROVE  \E c \in BatchIds :
           /\ c = worker[v].batch /\ c # b
           /\ \/ batches'[c].status = batches[c].status /\ JobsOf(c)' = JobsOf(c)
              \/ batches'[c].status = "failed" /\ JobsOf(c)' = {}
<1>1. PICK c \in BatchIds : c = worker[v].batch BY ReleasedHold
<1>2. Holds(worker[v]) /\ batches[b].status = "absent" BY Holding DEF Takes
<1>3. c # b /\ c # 0 BY <1>1, <1>2, Numbers DEF Holds
<1>4. \/ /\ ReleasedBatches[c].status = batches[c].status
         /\ \A t \in Seqs : ReleasedJobs[t].batch = c <=> jobs[t].batch = c
      \/ ReleasedBatches[c].status = "failed" /\ \A t \in Seqs : ReleasedJobs[t].batch # c
  BY <1>1, ReleasedHold
<1>5. /\ batches'[c] = ReleasedBatches[c]
      /\ \A t \in Seqs : /\ t \notin T => jobs'[t] = ReleasedJobs[t]
                         /\ t \in T => ReleasedJobs[t].batch = 0 /\ jobs'[t].batch = b
  BY <1>3, ClaimedRows DEF QueueInv
<1>6. \A t \in Seqs : jobs'[t].batch = c <=> ReleasedJobs[t].batch = c BY <1>3, <1>5
<1>7. CASE /\ ReleasedBatches[c].status = batches[c].status
           /\ \A t \in Seqs : ReleasedJobs[t].batch = c <=> jobs[t].batch = c
  <2>1. JobsOf(c)' = JobsOf(c) BY <1>6, <1>7, JobsByRows
  <2> QED BY <1>1, <1>3, <1>5, <1>7, <2>1
<1>8. CASE ReleasedBatches[c].status = "failed" /\ \A t \in Seqs : ReleasedJobs[t].batch # c
  <2>1. JobsOf(c)' = {} BY <1>6, <1>8, JobsByRows
  <2> QED BY <1>1, <1>3, <1>5, <1>8, <2>1
<1> QED BY <1>4, <1>7, <1>8

\* A claim takes jobs that follow each other in the queue (ClaimNextBatch).
LEMMA ClaimTakes ==
  ASSUME NEW w \in Workers, Claim(w)
  PROVE  \E s \in Seqs, b \in BatchIds, T \in SUBSET Seqs :
           /\ Takes(s, T, b)
           /\ worker' = [worker EXCEPT ![w] = [IdleWorker EXCEPT !.pc = "claimed", !.batch = b]]
<1>1. PICK s \in Seqs, last \in Seqs, b \in BatchIds :
        /\ Takes(s, Contiguous(ReleasedJobs, s, last), b)
        /\ worker' = [worker EXCEPT ![w] = [IdleWorker EXCEPT !.pc = "claimed", !.batch = b]]
  BY DEF Claim, Takes
<1>2. Contiguous(ReleasedJobs, s, last) \in SUBSET Seqs BY DEF Contiguous, Due
<1> QED BY <1>1, <1>2

\* A claim keeps batches, jobs and workers in agreement (ClaimNextBatch).
LEMMA Claimed ==
  ASSUME TypeOK, QueueInv, NEW w \in Workers, Claim(w)
  PROVE  TypeOK' /\ QueueInv'
<1>1. PICK s \in Seqs, b \in BatchIds, T \in SUBSET Seqs :
        /\ Takes(s, T, b)
        /\ worker' = [worker EXCEPT ![w] = [IdleWorker EXCEPT !.pc = "claimed", !.batch = b]]
  BY ClaimTakes
<1>2. /\ worker[w].pc = "idle" /\ UNCHANGED <<moods, clock, writer, faults>>
      /\ batches[b].status = "absent"
  BY <1>1 DEF Claim, Takes
<1>3. /\ RowsAgree(jobs', batches') /\ jobs' \in [Seqs -> Job] /\ batches' \in [BatchIds -> Batch]
      /\ \A c \in BatchIds \ {b} : batches'[c] = ReleasedBatches[c]
      /\ batches'[b].status = "running"
      /\ \A t \in Seqs : /\ t \notin T => jobs'[t] = ReleasedJobs[t]
                         /\ t \in T => ReleasedJobs[t].batch = 0 /\ jobs'[t].batch = b
  BY <1>1, ClaimedRows DEF QueueInv
<1> DEFINE x == [IdleWorker EXCEPT !.pc = "claimed", !.batch = b]
<1>4. x \in WorkerState /\ x.pc = "claimed" /\ x.batch = b /\ x.at = 0
  BY DEF IdleWorker, WorkerState
<1>5. /\ worker' \in [Workers -> WorkerState] /\ worker'[w] = x
      /\ \A v \in Workers \ {w} : worker'[v] = worker[v]
  BY <1>1, <1>4, WorkerMoves
<1> HIDE DEF x
<1>6. \A v \in Workers : worker[v].pc # "idle" => v # w BY <1>2
<1>7. ASSUME NEW v \in Workers \ {w}, worker[v].pc # "idle"
      PROVE  Holds(worker[v])' /\ worker[v].batch # b
  <2>1. PICK c \in BatchIds :
          /\ c = worker[v].batch /\ c # b
          /\ \/ batches'[c].status = batches[c].status /\ JobsOf(c)' = JobsOf(c)
             \/ batches'[c].status = "failed" /\ JobsOf(c)' = {}
    BY <1>1, <1>7, ClaimOthers
  <2>2. worker'[v] = worker[v] /\ Holds(worker[v]) BY <1>5, <1>7, Holding
  <2> QED BY <2>1, <2>2 DEF Holds
<1>8. WorkersHold'
  <2>1. Holds(x)' BY <1>3, <1>4, Numbers DEF Holds
  <2> QED BY <1>4, <1>5, <1>6, <1>7, <2>1 DEF QueueInv, WorkersHold
<1>9. Latest'
  <2>1. \A v \in Workers : worker'[v].at <= clock BY <1>4, <1>5 DEF QueueInv, Latest, TypeOK
  <2> QED BY <1>2, <2>1, LatestKept DEF QueueInv, Latest, TypeOK
<1>10. TypeOK' BY <1>2, <1>3, <1>5 DEF TypeOK, WorkerState
<1> QED BY <1>3, <1>8, <1>9, <1>10 DEF QueueInv

\* So does a claim that finds nothing and releases what has expired.
LEMMA NothingClaimed ==
  ASSUME TypeOK, QueueInv, NEW w \in Workers, ClaimNothing(w)
  PROVE  TypeOK' /\ QueueInv'
<1>1. /\ jobs' = ReleasedJobs /\ batches' = ReleasedBatches
      /\ UNCHANGED <<moods, clock, worker, writer, faults>>
  BY DEF ClaimNothing
<1>2. RowsAgree(jobs', batches') /\ jobs' \in [Seqs -> Job] /\ batches' \in [BatchIds -> Batch]
  BY <1>1, ReleasedRows DEF QueueInv
<1>3. ASSUME NEW v \in Workers, worker'[v].pc # "idle"
      PROVE  \/ batches'[worker[v].batch].status = batches[worker[v].batch].status
                /\ JobsOf(worker[v].batch)' = JobsOf(worker[v].batch)
             \/ batches'[worker[v].batch].status = "failed" /\ JobsOf(worker[v].batch)' = {}
  BY <1>1, <1>3, ReleasedHold, JobsByRows
<1>4. WorkersHold' BY <1>1, <1>3, WorkersKept DEF QueueInv
<1>5. Latest' BY <1>1, LatestKept DEF QueueInv, Latest, TypeOK
<1>6. TypeOK' BY <1>1, <1>2 DEF TypeOK
<1> QED BY <1>2, <1>4, <1>5, <1>6 DEF QueueInv

\* A worker that goes on within its batch keeps the invariant.
LEMMA WorkerStep ==
  ASSUME TypeOK, QueueInv, NEW w \in Workers, worker[w].pc # "idle", NEW x \in WorkerState,
         x.batch = worker[w].batch, worker' = [worker EXCEPT ![w] = x], Holds(x),
         clock' \in Nat, clock <= clock', x.at <= clock', UNCHANGED <<jobs, batches, moods, writer, faults>>
  PROVE  TypeOK' /\ QueueInv'
<1>1. WorkersHold' BY WorkerGoesOn DEF QueueInv
<1>2. /\ worker' \in [Workers -> WorkerState] /\ worker'[w] = x
      /\ \A v \in Workers \ {w} : worker'[v] = worker[v]
  BY WorkerMoves
<1>3. \A v \in Workers : worker'[v].at <= clock'
  <2>1. \A v \in Workers : worker[v].at \in Nat /\ worker[v].at <= clock /\ clock \in Nat
    BY DEF TypeOK, QueueInv, Latest
  <2> QED BY <1>2, <2>1
<1>4. \A r \in Writers : writer'[r].at <= clock'
  <2>1. \A r \in Writers : writer[r].at \in Nat /\ writer[r].at <= clock /\ clock \in Nat
    BY DEF TypeOK, QueueInv, Latest
  <2> QED BY <2>1
<1>5. Latest' BY <1>3, <1>4, LatestKept DEF QueueInv
<1>6. TypeOK' BY <1>2 DEF TypeOK, WorkerState
<1>7. RowsAgree(jobs', batches') BY DEF QueueInv
<1> QED BY <1>1, <1>5, <1>6, <1>7 DEF QueueInv

\* The jobs a worker lists are those of its batch (ListJobsByBatch).
LEMMA Loaded ==
  ASSUME TypeOK, QueueInv, NEW w \in Workers, LoadBatch(w)
  PROVE  TypeOK' /\ QueueInv'
<1> DEFINE listed == JobsOf(worker[w].batch)
           base == CurrentMood(jobs[CHOOSE s \in listed : TRUE].owner)
           x == [worker[w] EXCEPT !.pc = "evaluating", !.jobs = listed, !.base = base]
<1>1. /\ worker[w].pc = "claimed" /\ listed # {} /\ worker' = [worker EXCEPT ![w] = x]
      /\ UNCHANGED <<jobs, batches, moods, clock, writer, faults>>
  BY DEF LoadBatch
<1>2. /\ worker[w] \in WorkerState /\ worker[w].batch \in BatchIds /\ Holds(worker[w])
      /\ worker[w].at <= clock /\ listed \subseteq Seqs
  BY <1>1, Holding
<1>3. base \in Nat
  <2>1. (CHOOSE s \in listed : TRUE) \in Seqs BY <1>1, <1>2
  <2>2. jobs[CHOOSE s \in listed : TRUE].owner \in Owners BY <2>1, Typed DEF Job
  <2> QED BY <2>2, CurrentMoodType DEF QueueInv
<1> HIDE DEF listed, base
<1>4. /\ x \in WorkerState /\ x.batch = worker[w].batch /\ x.at = worker[w].at
      /\ x.pc = "evaluating" /\ x.jobs = listed
  BY <1>2, <1>3 DEF WorkerState
<1> HIDE DEF x
<1>5. Holds(x) BY <1>1, <1>2, <1>4 DEF Holds, listed
<1>6. clock \in Nat /\ clock' \in Nat /\ clock <= clock' /\ x.at <= clock' /\ worker[w].pc # "idle"
  BY <1>1, <1>2, <1>4 DEF TypeOK
<1> QED BY <1>1, <1>4, <1>5, <1>6, WorkerStep

\* An answer is stamped with the clock (EvaluateBatch).
LEMMA Answered ==
  ASSUME TypeOK, QueueInv, NEW w \in Workers, EvaluationAnswers(w)
  PROVE  TypeOK' /\ QueueInv'
<1> DEFINE x == [worker[w] EXCEPT !.pc = "checked", !.at = clock + 1]
<1>1. /\ worker[w].pc = "evaluating" /\ clock' = clock + 1
      /\ UNCHANGED <<jobs, batches, moods, writer, faults>>
  BY DEF EvaluationAnswers
<1>2. worker[w] \in WorkerState /\ Holds(worker[w]) /\ clock \in Nat BY <1>1, Holding DEF TypeOK
<1>3. worker' = [worker EXCEPT ![w] = x]
  BY <1>2, Typed DEF EvaluationAnswers, WorkerState
<1>4. clock + 1 \in Nat /\ clock <= clock + 1 BY <1>2
<1>5. /\ x \in WorkerState /\ x.batch = worker[w].batch /\ x.at = clock + 1
      /\ x.pc = "checked" /\ x.jobs = worker[w].jobs
  BY <1>2, <1>4 DEF WorkerState
<1> HIDE DEF x
<1>6. Holds(x) BY <1>1, <1>2, <1>5 DEF Holds
<1>7. clock' \in Nat /\ clock <= clock' /\ x.at <= clock' /\ worker[w].pc # "idle"
  BY <1>1, <1>2, <1>4, <1>5
<1> QED BY <1>1, <1>3, <1>5, <1>6, <1>7, WorkerStep

\* A worker rests and the batch it held ends, with every job of it.
BatchEnds(w, b, st) ==
  /\ worker[w].pc # "idle" /\ worker[w].batch = b
  /\ st \in {"failed", "done"}
  /\ batches' = [batches EXCEPT ![b].status = st]
  /\ worker' = [worker EXCEPT ![w] = IdleWorker]
  /\ jobs' \in [Seqs -> Job]
  /\ \A s \in Seqs :
       /\ jobs'[s].owner = jobs[s].owner
       /\ s \notin JobsOf(b) => jobs'[s] = jobs[s]
       /\ s \in JobsOf(b) => \/ jobs'[s].status = "pending" /\ jobs'[s].batch = 0
                             \/ jobs'[s].status \in {"failed", "done"} /\ jobs'[s].batch = b

\* Rows and workers agree after the end of a batch.
LEMMA Ends ==
  ASSUME TypeOK, QueueInv, NEW w \in Workers, NEW b \in BatchIds, NEW st, BatchEnds(w, b, st)
  PROVE  /\ RowsAgree(jobs', batches') /\ WorkersHold'
         /\ batches' \in [BatchIds -> Batch] /\ worker' \in [Workers -> WorkerState]
         /\ \A v \in Workers : worker'[v].at <= clock
<1>1. Holds(worker[w]) /\ worker[w].pc # "idle" /\ worker[w].batch = b BY Holding DEF BatchEnds
<1>2. b # 0 /\ (batches[b].status = "running" \/ JobsOf(b) = {})
  BY <1>1 DEF Holds
<1>3. /\ batches' \in [BatchIds -> Batch] /\ batches'[b].status \in {"failed", "done"}
      /\ \A c \in BatchIds \ {b} : batches'[c] = batches[c]
  BY Typed DEF Batch, BatchEnds
<1>4. RowsAgree(jobs', batches')
  <2>1. \A s \in Seqs :
          /\ jobs'[s].owner = jobs[s].owner
          /\ s \notin JobsOf(b) => jobs'[s] = jobs[s]
          /\ s \in JobsOf(b) => \/ jobs'[s].status = "pending" /\ jobs'[s].batch = 0
                                \/ jobs'[s].status \in {"failed", "done"} /\ jobs'[s].batch = b
    BY DEF BatchEnds
  <2> QED BY <1>2, <1>3, <2>1, EndedRows DEF QueueInv
<1>5. /\ worker' \in [Workers -> WorkerState] /\ worker'[w] = IdleWorker
      /\ \A v \in Workers \ {w} : worker'[v] = worker[v]
  BY Rests, WorkerMoves DEF BatchEnds
<1>6. ASSUME NEW v \in Workers, worker'[v].pc # "idle"
      PROVE  /\ worker'[v] = worker[v]
             /\ batches'[worker[v].batch].status = batches[worker[v].batch].status
             /\ JobsOf(worker[v].batch)' = JobsOf(worker[v].batch)
  <2>1. v # w /\ worker'[v] = worker[v] BY <1>5, <1>6, Rests
  <2>2. PICK c \in BatchIds : c = worker[v].batch BY <1>6, <2>1, Holding
  <2>3. c # b /\ c # 0 BY <1>1, <1>6, <2>1, <2>2, Numbers DEF QueueInv, WorkersHold
  <2>4. \A s \in Seqs : jobs'[s].batch = c <=> jobs[s].batch = c BY <2>3 DEF BatchEnds, JobsOf
  <2>5. JobsOf(c)' = JobsOf(c) BY <2>4, JobsByRows
  <2> QED BY <1>3, <2>1, <2>2, <2>3, <2>5
<1>7. WorkersHold' BY <1>6, WorkersKept DEF QueueInv
<1>8. \A v \in Workers : worker'[v].at <= clock BY <1>5, Rests DEF QueueInv, Latest, TypeOK
<1> QED BY <1>3, <1>4, <1>5, <1>7, <1>8

\* failBatch settles the jobs of the batch or sends them back (MarkBatchFailed).
LEMMA FailedRows ==
  ASSUME TypeOK, QueueInv, NEW w \in Workers, worker[w].pc # "idle", NEW retryable,
         FailBatch(w, retryable)
  PROVE  /\ worker[w].batch \in BatchIds /\ BatchEnds(w, worker[w].batch, "failed")
         /\ UNCHANGED <<moods, clock, writer, faults>>
         /\ \A s \in Seqs :
              /\ jobs'[s].attempts = jobs[s].attempts
              /\ s \notin JobsOf(worker[w].batch) => jobs'[s] = jobs[s]
              /\ s \in JobsOf(worker[w].batch) => jobs'[s].status \in {"pending", "failed"}
<1> DEFINE b == worker[w].batch
           retry == retryable /\ \E s \in worker[w].jobs : ~Exhausted(s)
<1>1. b \in BatchIds BY Holding
<1>2. /\ batches' = [batches EXCEPT ![b].status = "failed"]
      /\ jobs' = [s \in Seqs |->
                IF s \notin JobsOf(b) THEN jobs[s]
                ELSE IF retry /\ ~Exhausted(s)
                     THEN [jobs[s] EXCEPT !.status = "pending", !.batch = 0, !.wait = b]
                     ELSE [jobs[s] EXCEPT !.status = "failed"]]
      /\ worker' = [worker EXCEPT ![w] = IdleWorker]
      /\ UNCHANGED <<moods, clock, writer, faults>>
  BY DEF FailBatch
<1> HIDE DEF b, retry
<1>3. \A j \in Job : LET i == [j EXCEPT !.status = "pending", !.batch = 0, !.wait = b]
                         k == [j EXCEPT !.status = "failed"] IN
        /\ i \in Job /\ i.owner = j.owner /\ i.attempts = j.attempts
        /\ i.status = "pending" /\ i.batch = 0
        /\ k \in Job /\ k.owner = j.owner /\ k.attempts = j.attempts
        /\ k.status = "failed" /\ k.batch = j.batch
  BY <1>1 DEF Job, Statuses
<1>4. \A s \in Seqs :
        /\ jobs'[s] \in Job
        /\ jobs'[s].owner = jobs[s].owner /\ jobs'[s].attempts = jobs[s].attempts
        /\ s \notin JobsOf(b) => jobs'[s] = jobs[s]
        /\ s \in JobsOf(b) => \/ jobs'[s].status = "pending" /\ jobs'[s].batch = 0
                              \/ jobs'[s].status = "failed" /\ jobs'[s].batch = jobs[s].batch
  BY <1>2, <1>3, Typed
<1>5. jobs' \in [Seqs -> Job] BY <1>2, <1>4
<1>6. \A s \in Seqs : s \in JobsOf(b) => jobs[s].batch = b BY DEF JobsOf
<1>7. BatchEnds(w, b, "failed") BY <1>2, <1>4, <1>5, <1>6 DEF BatchEnds, b
<1> QED BY <1>1, <1>2, <1>4, <1>7 DEF b

\* The end of a batch that failed keeps the invariant.
LEMMA BatchFailed ==
  ASSUME TypeOK, QueueInv, NEW w \in Workers, worker[w].pc # "idle", NEW retryable,
         FailBatch(w, retryable)
  PROVE  TypeOK' /\ QueueInv'
<1>1. /\ RowsAgree(jobs', batches') /\ WorkersHold' /\ jobs' \in [Seqs -> Job]
      /\ batches' \in [BatchIds -> Batch] /\ worker' \in [Workers -> WorkerState]
      /\ \A v \in Workers : worker'[v].at <= clock
      /\ UNCHANGED <<moods, clock, writer, faults>>
  BY FailedRows, Ends DEF BatchEnds
<1>2. Latest' BY <1>1, LatestKept DEF QueueInv, Latest, TypeOK
<1>3. TypeOK' BY <1>1 DEF TypeOK, WorkerState
<1> QED BY <1>1, <1>2, <1>3 DEF QueueInv

\* The mood that the commit of a worker stores.
BatchMood(w) ==
  [owner |-> OwnerOf(w), at |-> worker[w].at, base |-> worker[w].base,
   by |-> "batch", jobs |-> worker[w].jobs, event |-> TRUE]

\* A commit that the batch admits is of the jobs the worker listed, which all run and
\* are of one owner; they are done with it (CommitBatchEvaluation).
LEMMA CommittedRows ==
  ASSUME TypeOK, QueueInv, NEW w \in Workers, Commit(w), StillRunning(worker[w].batch)
  PROVE  /\ worker[w].batch \in BatchIds /\ BatchEnds(w, worker[w].batch, "done")
         /\ UNCHANGED <<clock, writer, faults>>
         /\ batches[worker[w].batch].status = "running"
         /\ BatchMood(w) \in Mood /\ BatchMood(w).at <= clock
         /\ BatchMood(w).jobs = JobsOf(worker[w].batch) /\ BatchMood(w).at = worker[w].at
         /\ JobsOf(worker[w].batch) # {}
         /\ moods' = (moods \ {BatchMood(w)}) \cup {BatchMood(w)}
         /\ \A s \in Seqs :
              /\ jobs'[s].attempts = jobs[s].attempts /\ jobs'[s].wait = jobs[s].wait
              /\ s \notin JobsOf(worker[w].batch) => jobs'[s] = jobs[s]
              /\ s \in JobsOf(worker[w].batch) =>
                   /\ jobs[s].status = "running" /\ jobs'[s].status = "done"
                   /\ jobs[s].owner = BatchMood(w).owner
<1> DEFINE b == worker[w].batch
<1>1. /\ worker[w].pc = "checked" /\ worker' = [worker EXCEPT ![w] = IdleWorker]
      /\ moods' = moods \cup {BatchMood(w)}
      /\ batches' = [batches EXCEPT ![b].status = "done"]
      /\ jobs' = [s \in Seqs |-> IF s \in JobsOf(b) THEN [jobs[s] EXCEPT !.status = "done"] ELSE jobs[s]]
      /\ UNCHANGED <<clock, writer, faults>>
  BY DEF Commit, BatchMood
<1>2. /\ b \in BatchIds /\ b # 0 /\ Holds(worker[w]) /\ worker[w] \in WorkerState /\ worker[w].at <= clock
  BY <1>1, Holding, Numbers
<1>3. batches[b].status = "running" BY DEF StillRunning
<1>4. worker[w].jobs = JobsOf(b) /\ JobsOf(b) # {} BY <1>1, <1>2, <1>3 DEF Holds
<1> HIDE DEF b
<1>5. \A s \in Seqs : s \in JobsOf(b) <=> jobs[s].batch = b BY JobsByRows
<1>6. \A s \in Seqs : s \in JobsOf(b) => jobs[s].status = "running" /\ jobs[s].owner = OwnerOf(w)
  <2> DEFINE c == CHOOSE s \in JobsOf(b) : TRUE
  <2>1. c \in JobsOf(b) /\ c \in Seqs BY <1>4 DEF JobsOf
  <2>2. OwnerOf(w) = jobs[c].owner BY <1>4 DEF OwnerOf
  <2> HIDE DEF c
  <2>3. \A s \in Seqs : s \in JobsOf(b) => jobs[s].batch = jobs[c].batch /\ jobs[s].batch # 0
    BY <1>2, <1>5, <2>1
  <2>4. \A s \in Seqs : s \in JobsOf(b) => jobs[s].owner = jobs[c].owner
    BY <2>1, <2>3 DEF QueueInv, RowsAgree
  <2>5. \A s \in Seqs : s \in JobsOf(b) => jobs[s].status = "running"
    BY <1>2, <1>3, <1>5 DEF QueueInv, RowsAgree
  <2> QED BY <2>2, <2>4, <2>5
<1>7. OwnerOf(w) \in Owners
  <2>1. \E s \in JobsOf(b) : s \in Seqs /\ jobs[s].owner = OwnerOf(w)
    BY <1>4, <1>6 DEF JobsOf
  <2> QED BY <2>1, Typed DEF Job
<1>8. \A j \in Job : LET i == [j EXCEPT !.status = "done"] IN
        /\ i \in Job /\ i.owner = j.owner /\ i.attempts = j.attempts /\ i.batch = j.batch
        /\ i.status = "done" /\ i.wait = j.wait
  BY DEF Job, Statuses
<1>9. \A s \in Seqs :
        /\ jobs'[s] \in Job
        /\ jobs'[s].owner = jobs[s].owner /\ jobs'[s].attempts = jobs[s].attempts
        /\ jobs'[s].wait = jobs[s].wait /\ jobs'[s].batch = jobs[s].batch
        /\ s \notin JobsOf(b) => jobs'[s] = jobs[s]
        /\ s \in JobsOf(b) => jobs'[s].status = "done"
  BY <1>1, <1>8, Typed
<1>10. jobs' \in [Seqs -> Job] BY <1>1, <1>9
<1>11. BatchEnds(w, b, "done") BY <1>1, <1>5, <1>9, <1>10 DEF BatchEnds, b
<1>12. /\ BatchMood(w) \in Mood /\ BatchMood(w).at = worker[w].at /\ BatchMood(w).owner = OwnerOf(w)
       /\ BatchMood(w).jobs = worker[w].jobs
  BY <1>2, <1>7 DEF BatchMood, Mood, WorkerState
<1>13. moods' = (moods \ {BatchMood(w)}) \cup {BatchMood(w)} BY <1>1
<1> QED BY <1>1, <1>2, <1>3, <1>4, <1>6, <1>9, <1>11, <1>12, <1>13 DEF b

\* A commit that is refused leaves the rows as they are.
LEMMA CommitRefused ==
  ASSUME NEW w \in Workers, Commit(w), ~StillRunning(worker[w].batch)
  PROVE  /\ UNCHANGED <<jobs, batches, moods, clock, writer, faults>>
         /\ worker' = [worker EXCEPT ![w] = IdleWorker]
  BY DEF Commit

\* Either way the invariant is kept.
LEMMA Committed ==
  ASSUME TypeOK, QueueInv, NEW w \in Workers, Commit(w)
  PROVE  TypeOK' /\ QueueInv'
<1>1. CASE StillRunning(worker[w].batch)
  <2>1. /\ BatchMood(w) \in Mood /\ BatchMood(w).at <= clock
        /\ moods' = (moods \ {BatchMood(w)}) \cup {BatchMood(w)}
        /\ UNCHANGED <<clock, writer, faults>>
        /\ worker[w].batch \in BatchIds /\ BatchEnds(w, worker[w].batch, "done")
    BY <1>1, CommittedRows
  <2>2. /\ RowsAgree(jobs', batches') /\ WorkersHold' /\ jobs' \in [Seqs -> Job]
        /\ batches' \in [BatchIds -> Batch] /\ worker' \in [Workers -> WorkerState]
        /\ \A v \in Workers : worker'[v].at <= clock
    BY <2>1, Ends DEF BatchEnds
  <2>3. clock \in Nat /\ clock <= clock /\ clock' = clock /\ Latest /\ moods \subseteq Mood
    BY <2>1 DEF TypeOK, QueueInv
  <2>4. /\ \A o \in Owners : MoodsOf(o)' # {} =>
             \E m \in MoodsOf(o)' : \A n \in MoodsOf(o)' : n.at <= m.at
        /\ \A m \in moods' : m.at <= clock'
    BY <2>1, <2>3, MoodStored
  <2>5. Latest' BY <2>1, <2>2, <2>3, <2>4 DEF Latest
  <2>6. moods' \subseteq Mood BY <2>1, <2>3
  <2>7. TypeOK' BY <2>1, <2>2, <2>6 DEF TypeOK, WorkerState
  <2> QED BY <2>2, <2>5, <2>7 DEF QueueInv
<1>2. CASE ~StillRunning(worker[w].batch)
  <2>1. /\ UNCHANGED <<jobs, batches, moods, clock, writer, faults>>
        /\ worker' = [worker EXCEPT ![w] = IdleWorker]
    BY <1>2, CommitRefused
  <2>2. /\ worker' \in [Workers -> WorkerState]
        /\ \A v \in Workers : worker'[v] = worker[v] \/ worker'[v] = IdleWorker
    BY <2>1, Typed, Rests
  <2>3. \A r \in Writers : writer'[r].at <= clock BY <2>1 DEF QueueInv, Latest
  <2> QED BY <2>1, <2>2, <2>3, Typed, QueueStep
<1> QED BY <1>1, <1>2

-----------------------------------------------------------------------------
(* The other writers *)

\* Writer r moves to x at the reading now of the clock.
Drafts(r, x, now) ==
  /\ x \in WriterState /\ x.at <= now /\ now \in Nat /\ clock <= now
  /\ writer' = [writer EXCEPT ![r] = x] /\ clock' = now

\* A writer that moves leaves all readings behind the clock.
LEMMA Drafted ==
  ASSUME TypeOK, QueueInv, NEW r \in Writers, NEW x, NEW now, Drafts(r, x, now)
  PROVE  /\ clock' \in Nat /\ clock <= clock' /\ writer' \in [Writers -> WriterState]
         /\ \A q \in Writers : writer'[q].at <= clock'
         /\ \A w \in Workers : worker[w].at <= clock'
         /\ \A m \in moods : m.at <= clock'
<1>1. /\ writer' \in [Writers -> WriterState] /\ writer'[r] = x
      /\ \A q \in Writers \ {r} : writer'[q] = writer[q]
  BY WriterMoves DEF Drafts
<1>2. /\ clock' \in Nat /\ clock <= clock' /\ x.at <= clock' /\ clock \in Nat BY DEF Drafts, TypeOK
<1>3. /\ \A q \in Writers : writer[q].at \in Nat /\ writer[q].at <= clock
      /\ \A w \in Workers : worker[w].at \in Nat /\ worker[w].at <= clock
      /\ \A m \in moods : m.at \in Nat /\ m.at <= clock
  BY DEF QueueInv, Latest, TypeOK, Mood
<1>4. \A q \in Writers : writer'[q].at <= clock' BY <1>1, <1>2, <1>3
<1> QED BY <1>1, <1>2, <1>3, <1>4

\* A writer that stores nothing (CurrentMood, Evaluate).
LEMMA WriterReads ==
  ASSUME TypeOK, QueueInv, NEW r \in Writers, NEW x, NEW now, Drafts(r, x, now),
         UNCHANGED <<jobs, batches, moods, worker, faults>>
  PROVE  TypeOK' /\ QueueInv'
<1>1. /\ clock' \in Nat /\ clock <= clock' /\ writer' \in [Writers -> WriterState]
      /\ \A q \in Writers : writer'[q].at <= clock' /\ \A w \in Workers : worker'[w].at <= clock'
  BY Drafted
<1>2. Latest' BY <1>1, LatestKept DEF QueueInv
<1>3. TypeOK' BY <1>1 DEF TypeOK, WriterState
<1>4. \A b : JobsOf(b)' = JobsOf(b) BY DEF JobsOf
<1>5. WorkersHold' BY WorkersKept, <1>4 DEF QueueInv
<1>6. RowsAgree(jobs', batches') BY DEF QueueInv
<1> QED BY <1>2, <1>3, <1>5, <1>6 DEF QueueInv

\* A writer that stores a mood of no turns, or stores it again (CommitStateEvent, InsertState).
LEMMA WriterStores ==
  ASSUME TypeOK, QueueInv, NEW r \in Writers, NEW x, Drafts(r, x, clock),
         NEW y, NEW z \in Mood, y.owner = z.owner, y.at = z.at, z.at <= clock,
         moods' = (moods \ {y}) \cup {z}, UNCHANGED <<jobs, batches, worker, faults>>
  PROVE  TypeOK' /\ QueueInv'
<1>1. /\ clock' \in Nat /\ clock' = clock /\ clock <= clock' /\ writer' \in [Writers -> WriterState]
      /\ \A q \in Writers : writer'[q].at <= clock' /\ \A w \in Workers : worker'[w].at <= clock'
  BY Drafted DEF Drafts
<1>2. /\ \A o \in Owners : MoodsOf(o)' # {} =>
           \E m \in MoodsOf(o)' : \A n \in MoodsOf(o)' : n.at <= m.at
      /\ \A m \in moods' : m.at <= clock'
  BY <1>1, MoodStored DEF QueueInv
<1>3. Latest' BY <1>1, <1>2 DEF Latest
<1>4. moods' \subseteq Mood BY DEF TypeOK
<1>5. TypeOK' BY <1>1, <1>4 DEF TypeOK, WriterState
<1>6. \A b : JobsOf(b)' = JobsOf(b) BY DEF JobsOf
<1>7. WorkersHold' BY WorkersKept, <1>6 DEF QueueInv
<1>8. RowsAgree(jobs', batches') BY DEF QueueInv
<1> QED BY <1>3, <1>5, <1>7, <1>8 DEF QueueInv

\* The states of a writer.
LEMMA WriterTypes ==
  ASSUME TypeOK, QueueInv, NEW r \in Writers
  PROVE  /\ writer[r] \in WriterState /\ writer[r].owner \in Owners /\ writer[r].kind \in {"manual", "submit"}
         /\ writer[r].at \in Nat /\ writer[r].base \in Nat /\ writer[r].at <= clock
         /\ clock \in Nat /\ clock + 1 \in Nat /\ clock <= clock + 1 /\ clock <= clock
         /\ Ended(r) \in WriterState /\ Ended(r).at = 0
         /\ CurrentMood(writer[r].owner) \in Nat
<1>1. /\ writer[r] \in WriterState /\ writer[r].at <= clock /\ clock \in Nat
  BY Typed DEF QueueInv, Latest, TypeOK
<1>2. /\ writer[r].owner \in Owners /\ writer[r].kind \in {"manual", "submit"}
      /\ writer[r].at \in Nat /\ writer[r].base \in Nat
  BY <1>1 DEF WriterState
<1>3. clock + 1 \in Nat /\ clock <= clock + 1 /\ clock <= clock BY <1>1
<1>4. Ended(r) \in WriterState /\ Ended(r).at = 0 BY <1>1 DEF Ended, WriterState
<1> QED BY <1>1, <1>2, <1>3, <1>4, CurrentMoodType DEF QueueInv

\* What the writer stores is a mood.
LEMMA WrittenType ==
  ASSUME TypeOK, QueueInv, NEW r \in Writers, NEW event \in BOOLEAN
  PROVE  /\ Written(r, event) \in Mood /\ Written(r, event).at = writer[r].at
         /\ Written(r, event).owner = writer[r].owner /\ Written(r, event).jobs = {}
  BY WriterTypes DEF Written, Mood

\* Every step of a writer keeps the invariant.
LEMMA Wrote ==
  ASSUME TypeOK, QueueInv, NEW r \in Writers, Write(r)
  PROVE  TypeOK' /\ QueueInv'
<1> DEFINE o == writer[r].owner
<1>0. writer \in [Writers -> WriterState] BY Typed
<1>1. CASE ReadMood(r)
  <2>1. UNCHANGED <<jobs, batches, moods, worker, faults>> BY <1>1 DEF ReadMood
  <2>2. CASE writer[r].kind = "manual"
    <3> DEFINE x == [writer[r] EXCEPT !.pc = "drafted", !.base = CurrentMood(o), !.at = clock + 1]
    <3>1. x \in WriterState /\ x.at = clock + 1 BY WriterTypes DEF WriterState
    <3>2. clock' = clock + 1 /\ writer' = [writer EXCEPT ![r] = x] BY <1>1, <2>2 DEF ReadMood
    <3> HIDE DEF x
    <3>3. Drafts(r, x, clock + 1) BY <3>1, <3>2, WriterTypes DEF Drafts
    <3> QED BY <2>1, <3>3, WriterReads
  <2>3. CASE writer[r].kind # "manual"
    <3> DEFINE x == [writer[r] EXCEPT !.pc = "evaluating", !.base = CurrentMood(o)]
    <3>1. x \in WriterState /\ x.at = writer[r].at BY WriterTypes DEF WriterState
    <3>2. clock' = clock /\ writer' = [writer EXCEPT ![r] = x] BY <1>1, <2>3 DEF ReadMood
    <3> HIDE DEF x
    <3>3. Drafts(r, x, clock) BY <3>1, <3>2, WriterTypes DEF Drafts
    <3> QED BY <2>1, <3>3, WriterReads
  <2> QED BY <2>2, <2>3
<1>2. CASE ImpactEvaluated(r)
  <2>1. UNCHANGED <<jobs, batches, moods, worker, faults>> BY <1>2 DEF ImpactEvaluated
  <2>2. CASE clock' = clock + 1 /\ writer' = [writer EXCEPT ![r].pc = "drafted", ![r].at = clock + 1]
    <3> DEFINE x == [writer[r] EXCEPT !.pc = "drafted", !.at = clock + 1]
    <3>1. x \in WriterState /\ x.at = clock + 1 BY WriterTypes DEF WriterState
    <3>2. clock' = clock + 1 /\ writer' = [writer EXCEPT ![r] = x] BY <1>0, <2>2 DEF WriterState
    <3> HIDE DEF x
    <3>3. Drafts(r, x, clock + 1) BY <3>1, <3>2, WriterTypes DEF Drafts
    <3> QED BY <2>1, <3>3, WriterReads
  <2>3. CASE UNCHANGED clock /\ writer' = [writer EXCEPT ![r] = Ended(r)]
    <3>1. Drafts(r, Ended(r), clock) BY <2>3, WriterTypes DEF Drafts
    <3> QED BY <2>1, <3>1, WriterReads
  <2> QED BY <1>2, <2>2, <2>3 DEF ImpactEvaluated
<1>3. CASE ManualSupersedes(r)
  <2>1. /\ jobs' = Supersede({o}) /\ writer' = [writer EXCEPT ![r].pc = "superseded"]
        /\ UNCHANGED <<batches, moods, clock, worker, faults>>
    BY <1>3 DEF ManualSupersedes
  <2>2. /\ writer' \in [Writers -> WriterState]
        /\ \A q \in Writers : writer'[q].at = writer[q].at
    BY <1>0, <2>1 DEF WriterState
  <2>3. \A q \in Writers : writer'[q].at <= clock BY <2>2, WriterTypes
  <2> QED BY <2>1, <2>2, <2>3, SupersedeRows, Typed, QueueStep
<1>4. CASE ManualCommits(r)
  <2>1. /\ moods' = moods \cup {Written(r, TRUE)} /\ writer' = [writer EXCEPT ![r] = Ended(r)]
        /\ UNCHANGED <<jobs, batches, clock, worker, faults>>
    BY <1>4 DEF ManualCommits
  <2>2. Drafts(r, Ended(r), clock) BY <2>1, WriterTypes DEF Drafts
  <2>3. moods' = (moods \ {Written(r, TRUE)}) \cup {Written(r, TRUE)} BY <2>1
  <2>4. Written(r, TRUE) \in Mood /\ Written(r, TRUE).at <= clock BY WrittenType, WriterTypes
  <2> QED BY <2>1, <2>2, <2>3, <2>4, WriterStores
<1>5. CASE ImpactStored(r)
  <2> DEFINE x == [writer[r] EXCEPT !.pc = "stored"]
  <2>1. /\ moods' = moods \cup {Written(r, FALSE)} /\ writer' = [writer EXCEPT ![r] = x]
        /\ UNCHANGED <<jobs, batches, clock, worker, faults>>
    BY <1>0, <1>5 DEF ImpactStored, WriterState
  <2>2. x \in WriterState /\ x.at = writer[r].at BY WriterTypes DEF WriterState
  <2> HIDE DEF x
  <2>3. Drafts(r, x, clock) BY <2>1, <2>2, WriterTypes DEF Drafts
  <2>4. moods' = (moods \ {Written(r, FALSE)}) \cup {Written(r, FALSE)} BY <2>1
  <2>5. Written(r, FALSE) \in Mood /\ Written(r, FALSE).at <= clock BY WrittenType, WriterTypes
  <2> QED BY <2>1, <2>3, <2>4, <2>5, WriterStores
<1>6. CASE ImpactLogged(r)
  <2>1. /\ moods' = (moods \ {Written(r, FALSE)}) \cup {Written(r, TRUE)}
        /\ writer' = [writer EXCEPT ![r] = Ended(r)]
        /\ UNCHANGED <<jobs, batches, clock, worker, faults>>
    BY <1>6 DEF ImpactLogged
  <2>2. Drafts(r, Ended(r), clock) BY <2>1, WriterTypes DEF Drafts
  <2>3. /\ Written(r, TRUE) \in Mood /\ Written(r, TRUE).at <= clock
        /\ Written(r, FALSE).owner = Written(r, TRUE).owner
        /\ Written(r, FALSE).at = Written(r, TRUE).at
    BY WrittenType, WriterTypes
  <2> QED BY <2>1, <2>2, <2>3, WriterStores
<1> QED BY <1>1, <1>2, <1>3, <1>4, <1>5, <1>6 DEF Write

-----------------------------------------------------------------------------
(* The rows, as theorems *)

\* Every step keeps the invariant of the queue.
LEMMA QueueNext ==
  ASSUME TypeOK, QueueInv, Next
  PROVE  TypeOK' /\ QueueInv'
<1>1. CASE \E s \in Seqs : Enqueue(s) BY <1>1, Enqueued
<1>2. CASE \E o \in Owners : SupersedePending({o}) \/ ClearFailedJobs(o) BY <1>2, Cancelled, Cleared
<1>3. CASE SupersedePending(Owners) BY <1>3, Cancelled
<1>4. CASE \E b \in BatchIds : RetryDue(b) \/ ClaimExpires(b) BY <1>4, Dued, RanOut
<1>5. ASSUME NEW w \in Workers, Work(w) PROVE TypeOK' /\ QueueInv'
  <2>1. CASE Claim(w) BY <2>1, Claimed
  <2>2. CASE ClaimNothing(w) BY <2>2, NothingClaimed
  <2>3. CASE LoadBatch(w) BY <2>3, Loaded
  <2>4. CASE LoadNothing(w) BY <2>4, BatchFailed DEF LoadNothing
  <2>5. CASE EvaluationFails(w) BY <2>5, BatchFailed DEF EvaluationFails
  <2>6. CASE EvaluationAnswers(w) BY <2>6, Answered
  <2>7. CASE BaseChanged(w) BY <2>7, BatchFailed DEF BaseChanged
  <2>8. CASE Commit(w) BY <2>8, Committed
  <2> QED BY <1>5, <2>1, <2>2, <2>3, <2>4, <2>5, <2>6, <2>7, <2>8 DEF Work
<1>6. CASE \E w \in Workers : WriteFails(w) BY <1>6, Faulted
<1>7. CASE \E r \in Writers : Write(r) BY <1>7, Wrote
<1>8. CASE Restart BY <1>8, Faulted
<1> QED BY <1>1, <1>2, <1>3, <1>4, <1>5, <1>6, <1>7, <1>8 DEF Next

\* The empty queue, with no moods and everyone at rest.
LEMMA Starts == Init => TypeOK /\ QueueInv
<1> SUFFICES ASSUME Init PROVE TypeOK /\ QueueInv OBVIOUS
<1>1. /\ \A s \in Seqs : jobs[s] \in Job /\ jobs[s].status = "absent" /\ jobs[s].batch = 0
      /\ jobs \in [Seqs -> Job]
  BY DEF Init, Job, Statuses
<1>2. /\ batches \in [BatchIds -> Batch] /\ \A b \in BatchIds : batches[b].status = "absent"
  BY DEF Init, Batch
<1>3. /\ worker \in [Workers -> WorkerState]
      /\ \A w \in Workers : worker[w].pc = "idle" /\ worker[w].at = 0
  BY Rests DEF Init
<1>4. writer \in [Writers -> WriterState] /\ \A r \in Writers : writer[r].at = 0
  BY DEF Init, WriterState
<1>5. moods = {} /\ clock = 0 /\ faults \in Nat BY BoundsAssumption DEF Init
<1>6. TypeOK BY <1>1, <1>2, <1>3, <1>4, <1>5 DEF TypeOK, WorkerState, WriterState
<1>7. RowsAgree(jobs, batches) BY <1>1, <1>2 DEF RowsAgree
<1>8. WorkersHold /\ Latest BY <1>3, <1>4, <1>5 DEF WorkersHold, Latest, MoodsOf
<1> QED BY <1>6, <1>7, <1>8 DEF QueueInv

\* Rows, batches and workers agree in every state that the program reaches.
THEOREM QueueInductive == Spec => [](TypeOK /\ QueueInv)
<1>1. TypeOK /\ QueueInv /\ UNCHANGED vars => (TypeOK /\ QueueInv)'
  BY DEF vars, TypeOK, QueueInv, RowsAgree, WorkersHold, Holds, Latest, MoodsOf, JobsOf
<1>2. TypeOK /\ QueueInv /\ [Next]_vars => (TypeOK /\ QueueInv)' BY <1>1, QueueNext
<1> QED BY Starts, <1>2, PTL DEF Spec

\* Rows, batches and moods keep the types the schema gives them.
THEOREM TypeCorrect == Spec => []TypeOK
BY QueueInductive, PTL

\* An owner has at most one batch at work, which holds all of its jobs (ClaimNextBatch,
\* CommitBatchEvaluation).
THEOREM OneBatch == Spec => []OneBatchPerOwner
<1>1. TypeOK /\ QueueInv => OneBatchPerOwner
  <2> SUFFICES ASSUME TypeOK, QueueInv PROVE OneBatchPerOwner OBVIOUS
  <2>1. ASSUME NEW s \in Seqs, jobs[s].status = "running"
        PROVE  jobs[s].batch # 0 /\ StillRunning(jobs[s].batch)
    <3>1. PICK b \in BatchIds : b = jobs[s].batch BY <2>1, Typed DEF QueueInv, RowsAgree, Job
    <3>2. b # 0 /\ batches[b].status = "running" BY <2>1, <3>1 DEF QueueInv, RowsAgree
    <3>3. batches[b].count = Cardinality({t \in Seqs : jobs[t].batch = b})
      BY <3>2 DEF QueueInv, RowsAgree
    <3>4. \A t \in Seqs : jobs[t].batch = b => jobs[t].status = "running"
      BY <3>2 DEF QueueInv, RowsAgree
    <3>5. {t \in JobsOf(b) : jobs[t].status = "running"} = {t \in Seqs : jobs[t].batch = b}
      BY <3>4 DEF JobsOf
    <3> QED BY <3>1, <3>2, <3>3, <3>5 DEF StillRunning
  <2> QED BY <2>1 DEF OneBatchPerOwner, QueueInv, RowsAgree
<1> QED BY <1>1, QueueInductive, PTL

-----------------------------------------------------------------------------
(* What steps do to turns, moods and commits under way *)

\* Jobs are sent back, fail, or are cancelled or cleared.
QuietJobs ==
  \A s \in Seqs :
    /\ jobs'[s].owner = jobs[s].owner /\ jobs'[s].attempts = jobs[s].attempts
    /\ jobs'[s].wait # 0 => jobs[s].wait # 0 \/ jobs[s].status = "running"
    /\ \/ jobs'[s].status = jobs[s].status
       \/ jobs[s].status = "running" /\ jobs'[s].status \in {"pending", "failed"}
       \/ jobs[s].status \in {"pending", "failed"} /\ jobs'[s].status \in {"superseded", "cleared"}

\* No turn is folded into a mood, none taken out.
QuietMoods ==
  /\ \A m \in moods' : m \in moods \/ m.jobs = {}
  /\ \A m \in moods : m \in moods' \/ m.jobs = {}

\* Commits under way are those there were, or are stamped by this step.
QuietWorkers ==
  \A w \in Workers : worker'[w].pc = "checked" =>
    \/ worker'[w].at > clock
    \/ /\ worker'[w] = worker[w]
       /\ batches'[worker[w].batch].status = "running" =>
            /\ batches[worker[w].batch].status = "running"
            /\ JobsOf(worker[w].batch)' = JobsOf(worker[w].batch)

\* Folds that are stored stay so while no job gets done and no mood of turns is stored.
LEMMA FoldKept ==
  ASSUME TypeOK, FoldInv, QuietMoods,
         \A s \in Seqs : /\ jobs'[s].owner = jobs[s].owner
                         /\ jobs'[s].status = "done" <=> jobs[s].status = "done"
  PROVE  FoldInv'
<1>1. \A m \in moods : m.jobs \subseteq Seqs BY DEF TypeOK, Mood
<1>2. MoodsAreDone' BY <1>1 DEF FoldInv, MoodsAreDone, QuietMoods
<1>3. \A m, n \in moods' : m # n => m.jobs \cap n.jobs = {}
  BY DEF FoldInv, FoldedOnce, QuietMoods
<1>4. \A s \in Seqs : (\E m \in moods' : s \in m.jobs /\ m.owner = jobs'[s].owner)
                        <=> \E m \in moods : s \in m.jobs /\ m.owner = jobs[s].owner
  BY DEF QuietMoods
<1>5. FoldedOnce' BY <1>3, <1>4 DEF FoldInv, FoldedOnce
<1> QED BY <1>2, <1>5 DEF FoldInv

\* What is stored stays in order while nothing is folded, and so do the commits under way.
LEMMA OrderKept ==
  ASSUME TypeOK, QueueInv, OrderInv, TypeOK', QuietMoods, QuietWorkers,
         \A s \in Seqs : jobs'[s].owner = jobs[s].owner /\ jobs[s].attempts <= jobs'[s].attempts
  PROVE  CommitsInOrder' /\ OvertakenOnlyByRetry'
<1>1. /\ \A m \in moods : m.at \in Nat /\ m.at <= clock /\ m.jobs \subseteq Seqs
      /\ clock \in Nat /\ \A w \in Workers : worker'[w].at \in Nat
      /\ \A s \in Seqs : jobs[s].attempts \in Nat /\ jobs'[s].attempts \in Nat
  BY DEF TypeOK, Mood, QueueInv, Latest, Job
<1>2. ASSUME NEW w \in Workers, worker'[w].pc = "checked", batches'[worker'[w].batch].status = "running",
             NEW m \in moods', NEW s \in JobsOf(worker[w].batch)', m.jobs # {}, m.owner = jobs'[s].owner
      PROVE  m.at < worker'[w].at
  <2>1. m \in moods /\ s \in Seqs BY <1>2 DEF QuietMoods, JobsOf
  <2>2. CASE worker'[w].at > clock BY <1>1, <2>1, <2>2
  <2>3. CASE /\ worker'[w] = worker[w]
             /\ batches'[worker[w].batch].status = "running" =>
                  /\ batches[worker[w].batch].status = "running"
                  /\ JobsOf(worker[w].batch)' = JobsOf(worker[w].batch)
    <3>1. s \in JobsOf(worker[w].batch) /\ batches[worker[w].batch].status = "running"
      BY <1>2, <2>3
    <3>2. jobs[s].owner = m.owner BY <1>2, <2>1
    <3> QED BY <1>2, <2>1, <2>3, <3>1, <3>2 DEF OrderInv, CommitsInOrder
  <2> QED BY <1>2, <2>2, <2>3 DEF QuietWorkers
<1>3. CommitsInOrder' BY <1>2 DEF CommitsInOrder
<1>4. ASSUME NEW m \in moods', NEW n \in moods', m.owner = n.owner, m.at < n.at,
             NEW s \in m.jobs, NEW t \in n.jobs, t < s
      PROVE  jobs'[t].attempts > 1
  <2>1. m \in moods /\ n \in moods BY <1>4 DEF QuietMoods
  <2>2. t \in Seqs /\ jobs[t].attempts > 1 BY <1>1, <1>4, <2>1 DEF OrderInv, OvertakenOnlyByRetry
  <2> QED BY <1>1, <2>2
<1>5. OvertakenOnlyByRetry' BY <1>4 DEF OvertakenOnlyByRetry
<1> QED BY <1>3, <1>5

\* Jobs that are sent back, fail or are cancelled were claimed before, or go out of the queue.
LEMMA PassedKept ==
  ASSUME TypeOK, PassedOver, QuietJobs
  PROVE  PassedOver'
<1>1. \A s \in Seqs : jobs[s].attempts \in Nat BY DEF TypeOK, Job
<1>2. \A s, t \in Seqs : t < s /\ jobs'[s].status # "absent" => jobs'[t].status # "absent"
  BY DEF QuietJobs, PassedOver
<1>3. \A s \in Seqs : jobs'[s].status = "running" \/ jobs'[s].wait # 0 => jobs'[s].attempts >= 1
  BY DEF QuietJobs, PassedOver
<1>4. ASSUME NEW s \in Seqs, NEW t \in Seqs, t < s, jobs'[t].owner = jobs'[s].owner,
             jobs'[s].status \in {"running", "done"}
      PROVE  /\ jobs'[t].status = "pending" => jobs'[t].attempts >= 1
             /\ jobs'[s].status = "done" /\ jobs'[t].status = "running" => jobs'[t].attempts >= 2
  <2>1. jobs[s].status = jobs'[s].status /\ jobs[t].owner = jobs[s].owner
        /\ jobs'[t].attempts = jobs[t].attempts
    BY <1>4 DEF QuietJobs
  <2>2. jobs'[t].status = "pending" => jobs[t].status \in {"pending", "running"} BY DEF QuietJobs
  <2>3. jobs'[t].status = "running" => jobs[t].status = "running" BY DEF QuietJobs
  <2> QED BY <1>4, <2>1, <2>2, <2>3 DEF PassedOver
<1>5. \A s, t \in Seqs : t < s /\ jobs'[t].owner = jobs'[s].owner =>
        /\ jobs'[s].status \in {"running", "done"} /\ jobs'[t].status = "pending" => jobs'[t].attempts >= 1
        /\ jobs'[s].status = "done" /\ jobs'[t].status = "running" => jobs'[t].attempts >= 2
  BY <1>4
<1> QED BY <1>2, <1>3, <1>5 DEF PassedOver

\* A step that is quiet in all three respects keeps folds and order.
LEMMA QuietStep ==
  ASSUME TypeOK, QueueInv, FoldInv, OrderInv, TypeOK', QuietJobs, QuietMoods, QuietWorkers
  PROVE  FoldInv' /\ OrderInv'
<1>1. \A s \in Seqs : /\ jobs'[s].owner = jobs[s].owner
                      /\ jobs'[s].status = "done" <=> jobs[s].status = "done"
                      /\ jobs[s].attempts <= jobs'[s].attempts
  BY DEF QuietJobs, TypeOK, Job
<1>2. FoldInv' BY <1>1, FoldKept
<1>3. CommitsInOrder' /\ OvertakenOnlyByRetry' BY <1>1, OrderKept
<1>4. PassedOver' BY PassedKept DEF OrderInv
<1> QED BY <1>2, <1>3, <1>4 DEF OrderInv

\* Batches that stay as they are, with their jobs, leave the commits under way alone.
LEMMA SameBatches ==
  ASSUME TypeOK, QueueInv,
         \A b \in BatchIds : batches'[b].status = batches[b].status,
         \A s \in Seqs : jobs'[s].batch = jobs[s].batch,
         \A w \in Workers : worker'[w] = worker[w] \/ worker'[w].pc # "checked" \/ worker'[w].at > clock
  PROVE  QuietWorkers
<1>1. ASSUME NEW w \in Workers, worker'[w].pc = "checked", worker'[w] = worker[w]
      PROVE  /\ batches'[worker[w].batch].status = batches[worker[w].batch].status
             /\ JobsOf(worker[w].batch)' = JobsOf(worker[w].batch)
  <2>1. PICK b \in BatchIds : b = worker[w].batch BY <1>1, Holding
  <2>2. JobsOf(b)' = JobsOf(b) BY SameJobs
  <2> QED BY <1>1, <2>1, <2>2
<1> QED BY <1>1 DEF QuietWorkers

\* The queue's own steps but the first, faults included, are quiet.
LEMMA QueueQuiet ==
  ASSUME TypeOK, QueueInv,
         \/ \E os : SupersedePending(os)
         \/ \E o : ClearFailedJobs(o)
         \/ \E b \in BatchIds : RetryDue(b) \/ ClaimExpires(b)
         \/ Restart \/ \E w \in Workers : WriteFails(w)
  PROVE  QuietJobs /\ QuietMoods /\ QuietWorkers
<1> DEFINE Kept == /\ \A s \in Seqs : jobs'[s].batch = jobs[s].batch
                   /\ \A b \in BatchIds : batches'[b].status = batches[b].status
                   /\ \A w \in Workers : worker'[w] = worker[w] \/ worker'[w] = IdleWorker
                   /\ moods' = moods
<1>1. ASSUME NEW os, SupersedePending(os) PROVE QuietJobs /\ Kept
  <2>1. jobs' = Supersede(os) /\ UNCHANGED <<batches, moods, worker>> BY <1>1 DEF SupersedePending
  <2> QED BY <2>1, SupersedeRows DEF QuietJobs
<1>2. ASSUME NEW o, ClearFailedJobs(o) PROVE QuietJobs /\ Kept
  <2>1. /\ jobs' = [s \in Seqs |->
                IF jobs[s].owner = o /\ jobs[s].status = "failed"
                THEN [jobs[s] EXCEPT !.status = "cleared"] ELSE jobs[s]]
        /\ UNCHANGED <<batches, moods, worker>>
    BY <1>2 DEF ClearFailedJobs
  <2>2. \A j \in Job : LET i == [j EXCEPT !.status = "cleared"] IN
          /\ i.owner = j.owner /\ i.batch = j.batch /\ i.attempts = j.attempts /\ i.wait = j.wait
          /\ i.status = "cleared"
    BY DEF Job
  <2>3. \A s \in Seqs :
          /\ jobs'[s].owner = jobs[s].owner /\ jobs'[s].batch = jobs[s].batch
          /\ jobs'[s].attempts = jobs[s].attempts /\ jobs'[s].wait = jobs[s].wait
          /\ \/ jobs'[s].status = jobs[s].status
             \/ jobs[s].status = "failed" /\ jobs'[s].status = "cleared"
    BY <2>1, <2>2, Typed
  <2> QED BY <2>1, <2>3 DEF QuietJobs
<1>3. ASSUME NEW b, RetryDue(b) PROVE QuietJobs /\ Kept
  <2>1. /\ jobs' = [s \in Seqs |-> IF jobs[s].wait = b THEN [jobs[s] EXCEPT !.wait = 0] ELSE jobs[s]]
        /\ UNCHANGED <<batches, moods, worker>>
    BY <1>3 DEF RetryDue
  <2>2. \A j \in Job : LET i == [j EXCEPT !.wait = 0] IN
          /\ i.owner = j.owner /\ i.batch = j.batch /\ i.attempts = j.attempts /\ i.wait = 0
          /\ i.status = j.status
    BY DEF Job
  <2>3. \A s \in Seqs :
          /\ jobs'[s].owner = jobs[s].owner /\ jobs'[s].batch = jobs[s].batch
          /\ jobs'[s].attempts = jobs[s].attempts /\ jobs'[s].status = jobs[s].status
          /\ jobs'[s].wait = jobs[s].wait \/ jobs'[s].wait = 0
    BY <2>1, <2>2, Typed
  <2> QED BY <2>1, <2>3 DEF QuietJobs
<1>4. ASSUME NEW b \in BatchIds, ClaimExpires(b) PROVE QuietJobs /\ Kept
  <2>1. batches' = [batches EXCEPT ![b].expired = TRUE] /\ UNCHANGED <<jobs, moods, worker>>
    BY <1>4 DEF ClaimExpires
  <2>2. \A c \in BatchIds : batches'[c].status = batches[c].status BY <2>1, Typed DEF Batch
  <2> QED BY <2>1, <2>2 DEF QuietJobs
<1>5. ASSUME Restart \/ \E w \in Workers : WriteFails(w) PROVE QuietJobs /\ Kept
  <2>1. UNCHANGED <<jobs, batches, moods>> BY <1>5 DEF Restart, WriteFails
  <2>2. \A w \in Workers : worker'[w] = worker[w] \/ worker'[w] = IdleWorker
    BY <1>5, Typed DEF Restart, WriteFails
  <2> QED BY <2>1, <2>2 DEF QuietJobs
<1>6. QuietJobs /\ Kept BY <1>1, <1>2, <1>3, <1>4, <1>5
<1>7. QuietWorkers BY <1>6, Rests, SameBatches
<1>8. QuietMoods BY <1>6 DEF QuietMoods
<1> QED BY <1>6, <1>7, <1>8

\* A claim that finds nothing is quiet: released turns were claimed before.
LEMMA ReleaseQuiet ==
  ASSUME TypeOK, QueueInv, NEW w \in Workers, ClaimNothing(w)
  PROVE  QuietJobs /\ QuietMoods /\ QuietWorkers
<1>1. /\ jobs' = ReleasedJobs /\ batches' = ReleasedBatches /\ UNCHANGED <<moods, worker>>
  BY DEF ClaimNothing
<1>2. QuietJobs BY <1>1, ReleasedRows DEF QueueInv, QuietJobs
<1>3. ASSUME NEW v \in Workers, worker'[v].pc = "checked",
             batches'[worker[v].batch].status = "running"
      PROVE  /\ batches[worker[v].batch].status = "running"
             /\ JobsOf(worker[v].batch)' = JobsOf(worker[v].batch)
  BY <1>1, <1>3, ReleasedHold, JobsByRows
<1>4. QuietWorkers BY <1>1, <1>3 DEF QuietWorkers
<1>5. QuietMoods BY <1>1 DEF QuietMoods
<1> QED BY <1>2, <1>4, <1>5

\* The end of a batch does not touch the commits of others.
LEMMA EndsQuiet ==
  ASSUME TypeOK, QueueInv, NEW w \in Workers, NEW b \in BatchIds, NEW st, BatchEnds(w, b, st)
  PROVE  /\ QuietWorkers
         /\ \A v \in Workers : worker'[v].pc = "checked" => v # w /\ worker'[v] = worker[v]
<1>1. /\ worker[w].pc # "idle" /\ worker[w].batch = b /\ batches'[b].status \in {"failed", "done"}
      /\ \A c \in BatchIds \ {b} : batches'[c] = batches[c]
  BY Typed DEF Batch, BatchEnds
<1>2. worker'[w] = IdleWorker /\ \A v \in Workers \ {w} : worker'[v] = worker[v]
  BY Rests, WorkerMoves DEF BatchEnds
<1>3. ASSUME NEW v \in Workers, worker'[v].pc = "checked"
      PROVE  /\ v # w /\ worker'[v] = worker[v]
             /\ batches'[worker[v].batch].status = "running" =>
                  /\ batches[worker[v].batch].status = "running"
                  /\ JobsOf(worker[v].batch)' = JobsOf(worker[v].batch)
  <2>1. v # w /\ worker'[v] = worker[v] BY <1>2, <1>3, Rests
  <2>2. PICK c \in BatchIds : c = worker[v].batch BY <1>3, <2>1, Holding
  <2>3. c # b /\ c # 0 BY <1>1, <1>3, <2>1, <2>2, Numbers DEF QueueInv, WorkersHold
  <2>4. \A s \in Seqs : jobs'[s].batch = c <=> jobs[s].batch = c BY <2>3 DEF BatchEnds, JobsOf
  <2>5. JobsOf(c)' = JobsOf(c) BY <2>4, JobsByRows
  <2> QED BY <1>1, <2>1, <2>2, <2>3, <2>5
<1> QED BY <1>3 DEF QuietWorkers

\* A batch that fails sends back or fails jobs that run.
LEMMA FailQuiet ==
  ASSUME TypeOK, QueueInv, NEW w \in Workers, worker[w].pc # "idle", NEW retryable,
         FailBatch(w, retryable)
  PROVE  QuietJobs /\ QuietMoods /\ QuietWorkers
<1>1. PICK b \in BatchIds : b = worker[w].batch BY Holding
<1>2. Holds(worker[w]) /\ b # 0 BY <1>1, Holding, Numbers
<1>3. \A s \in Seqs : s \in JobsOf(b) => jobs[s].status = "running"
  BY <1>1, <1>2 DEF Holds, JobsOf, QueueInv, RowsAgree
<1>4. /\ BatchEnds(w, b, "failed") /\ moods' = moods
      /\ \A s \in Seqs :
           /\ jobs'[s].attempts = jobs[s].attempts
           /\ s \notin JobsOf(b) => jobs'[s] = jobs[s]
           /\ s \in JobsOf(b) => jobs'[s].status \in {"pending", "failed"}
  BY <1>1, FailedRows
<1>5. \A s \in Seqs : jobs'[s].owner = jobs[s].owner BY <1>4 DEF BatchEnds
<1>6. QuietJobs BY <1>3, <1>4, <1>5 DEF QuietJobs
<1>7. QuietWorkers BY <1>4, EndsQuiet
<1>8. QuietMoods BY <1>4 DEF QuietMoods
<1> QED BY <1>6, <1>7, <1>8

\* Reading jobs and mood, and a commit that is refused, are quiet; an answer is stamped later
\* than all that is stored.
LEMMA WorkerQuiet ==
  ASSUME TypeOK, QueueInv, NEW w \in Workers,
         LoadBatch(w) \/ EvaluationAnswers(w) \/ (Commit(w) /\ ~StillRunning(worker[w].batch))
  PROVE  QuietJobs /\ QuietMoods /\ QuietWorkers
<1>1. UNCHANGED <<jobs, batches, moods>> BY CommitRefused DEF LoadBatch, EvaluationAnswers
<1>2. \A v \in Workers : worker'[v] = worker[v] \/ worker'[v].pc # "checked" \/ worker'[v].at > clock
  <2>1. CASE LoadBatch(w)
    <3>1. PICK listed, base :
            worker' = [worker EXCEPT ![w] = [@ EXCEPT !.pc = "evaluating", !.jobs = listed, !.base = base]]
      BY <2>1 DEF LoadBatch
    <3>2. \A x \in WorkerState : [x EXCEPT !.pc = "evaluating", !.jobs = listed, !.base = base].pc # "checked"
      BY DEF WorkerState
    <3> QED BY <3>1, <3>2, Typed
  <2>2. CASE EvaluationAnswers(w)
    <3>1. worker' = [worker EXCEPT ![w].pc = "checked", ![w].at = clock + 1] /\ clock + 1 > clock
      BY <2>2 DEF EvaluationAnswers, TypeOK
    <3>2. \A v \in Workers : worker'[v] = worker[v] \/ worker'[v].at = clock + 1
      BY <3>1, Typed DEF WorkerState
    <3> QED BY <3>1, <3>2
  <2>3. CASE Commit(w) /\ ~StillRunning(worker[w].batch)
    <3>1. worker' = [worker EXCEPT ![w] = IdleWorker] BY <2>3, CommitRefused
    <3> QED BY <3>1, Typed, Rests
  <2> QED BY <2>1, <2>2, <2>3
<1>3. QuietWorkers BY <1>1, <1>2, SameBatches
<1> QED BY <1>1, <1>3 DEF QuietJobs, QuietMoods

\* The other writers store moods that fold no turn, and cancel what waits.
LEMMA WriterQuiet ==
  ASSUME TypeOK, QueueInv, NEW r \in Writers, Write(r)
  PROVE  QuietJobs /\ QuietMoods /\ QuietWorkers
<1>1. UNCHANGED <<batches, worker>>
  BY DEF Write, ReadMood, ImpactEvaluated, ManualSupersedes, ManualCommits, ImpactStored, ImpactLogged
<1>2. jobs' = jobs \/ jobs' = Supersede({writer[r].owner})
  BY DEF Write, ReadMood, ImpactEvaluated, ManualSupersedes, ManualCommits, ImpactStored, ImpactLogged
<1>3. QuietJobs /\ \A s \in Seqs : jobs'[s].batch = jobs[s].batch
  BY <1>2, SupersedeRows DEF QuietJobs
<1>4. QuietWorkers BY <1>1, <1>3, SameBatches
<1>5. Written(r, TRUE).jobs = {} /\ Written(r, FALSE).jobs = {} BY WrittenType
<1>6. \/ moods' = moods \/ moods' = moods \cup {Written(r, TRUE)} \/ moods' = moods \cup {Written(r, FALSE)}
      \/ moods' = (moods \ {Written(r, FALSE)}) \cup {Written(r, TRUE)}
  BY DEF Write, ReadMood, ImpactEvaluated, ManualSupersedes, ManualCommits, ImpactStored, ImpactLogged
<1>7. QuietMoods BY <1>5, <1>6 DEF QuietMoods
<1> QED BY <1>3, <1>4, <1>7

\* A turn that is queued comes after all that were.
LEMMA EnqueueKeeps ==
  ASSUME TypeOK, QueueInv, FoldInv, OrderInv, TypeOK', NEW s \in Seqs, Enqueue(s)
  PROVE  FoldInv' /\ OrderInv'
<1>1. /\ jobs[s].status = "absent" /\ jobs' = [jobs EXCEPT ![s].status = "pending"]
      /\ \A t \in Seqs : t < s => jobs[t].status # "absent"
      /\ UNCHANGED <<batches, moods, worker>>
  BY DEF Enqueue
<1>2. /\ jobs'[s].status = "pending" /\ \A t \in Seqs \ {s} : jobs'[t] = jobs[t]
      /\ \A t \in Seqs : /\ jobs'[t].owner = jobs[t].owner /\ jobs'[t].batch = jobs[t].batch
                         /\ jobs'[t].attempts = jobs[t].attempts /\ jobs'[t].wait = jobs[t].wait
  BY <1>1, Typed DEF Job
<1>3. QuietMoods /\ QuietWorkers BY <1>1, <1>2, SameBatches DEF QuietMoods
<1>4. FoldInv' BY <1>1, <1>2, <1>3, FoldKept
<1>5. CommitsInOrder' /\ OvertakenOnlyByRetry'
  <2>1. \A t \in Seqs : jobs[t].attempts <= jobs'[t].attempts BY <1>2, Typed DEF Job
  <2> QED BY <1>2, <1>3, <2>1, OrderKept
<1>6. PassedOver'
  <2> USE DEF OrderInv, PassedOver
  <2>0. \A a, b \in Seqs : a \in Nat /\ b \in Nat BY Numbers
  <2>1. \A a, b \in Seqs : b < a /\ jobs'[a].status # "absent" => jobs'[b].status # "absent"
    BY <1>1, <1>2, <2>0
  <2>2. \A a \in Seqs : jobs'[a].status = "running" \/ jobs'[a].wait # 0 => jobs'[a].attempts >= 1
    BY <1>2
  <2>3. ASSUME NEW a \in Seqs, NEW b \in Seqs, b < a, jobs'[b].owner = jobs'[a].owner,
               jobs'[a].status \in {"running", "done"}
        PROVE  /\ jobs'[b].status = "pending" => jobs'[b].attempts >= 1
               /\ jobs'[a].status = "done" /\ jobs'[b].status = "running" => jobs'[b].attempts >= 2
    <3>1. a # s /\ b # s BY <1>1, <1>2, <2>3
    <3> QED BY <1>2, <2>3, <3>1
  <2> QED BY <2>1, <2>2, <2>3
<1> QED BY <1>4, <1>5, <1>6 DEF OrderInv

\* A claim takes the oldest due turns of an owner none of whose turns runs: those it
\* passes over wait for a retry (ClaimNextBatch).
LEMMA ClaimKeeps ==
  ASSUME TypeOK, QueueInv, FoldInv, OrderInv, TypeOK', NEW w \in Workers, Claim(w)
  PROVE  FoldInv' /\ OrderInv'
<1>1. PICK s \in Seqs, b \in BatchIds, T \in SUBSET Seqs :
        /\ Takes(s, T, b)
        /\ worker' = [worker EXCEPT ![w] = [IdleWorker EXCEPT !.pc = "claimed", !.batch = b]]
  BY ClaimTakes
<1>2. moods' = moods BY DEF Claim
<1> DEFINE js == ReleasedJobs
<1>3. \A t \in Seqs :
        /\ js[t].owner = jobs[t].owner /\ js[t].attempts = jobs[t].attempts /\ js[t].wait = jobs[t].wait
        /\ js[t] = jobs[t] \/ (jobs[t].status = "running" /\ js[t].status = "pending")
        /\ jobs[t].attempts \in Nat
  BY ReleasedRows, Typed DEF QueueInv, Job
<1>4. \A t \in Seqs :
        /\ jobs'[t].owner = jobs[t].owner /\ jobs'[t].wait = jobs[t].wait
        /\ t \notin T => jobs'[t] = js[t]
        /\ t \in T => /\ js[t].status = "pending" /\ jobs'[t].status = "running"
                      /\ jobs'[t].attempts = jobs[t].attempts + 1
  BY <1>1, <1>3, ClaimedRows DEF QueueInv
<1>5. \A t, u \in Seqs : t < u /\ u \in T /\ t \notin T /\ jobs[t].owner = jobs[u].owner /\ js[t].status = "pending"
        => jobs[t].wait # 0
  <2> SUFFICES ASSUME NEW t \in Seqs, NEW u \in Seqs, t < u, u \in T, t \notin T,
                      jobs[t].owner = jobs[u].owner, js[t].status = "pending", jobs[t].wait = 0
               PROVE  FALSE
    OBVIOUS
  <2>1. t \in Due(js) /\ t \in Nat /\ u \in Nat /\ s \in Nat BY <1>3, Numbers DEF Due
  <2>2. PICK last \in Seqs : T = Contiguous(js, s, last) BY <1>1 DEF Takes
  <2>3. ~Busy(js, jobs[s].owner) /\ \A v \in Due(js) : v < s => Busy(js, js[v].owner)
    BY <1>1, <1>3 DEF Takes, First
  <2>4. jobs[u].owner = jobs[s].owner /\ js[t].owner = jobs[t].owner BY <1>1, <1>3 DEF Takes
  <2> HIDE DEF js
  <2>5. ~(t < s) BY <2>1, <2>3, <2>4
  <2>6. last \in Nat /\ u <= last BY <2>2, Numbers DEF Contiguous
  <2> QED BY <2>1, <2>2, <2>5, <2>6 DEF Contiguous
<1> HIDE DEF js
<1>6. QuietMoods BY <1>2 DEF QuietMoods
<1>7. QuietWorkers
  <2> DEFINE x == [IdleWorker EXCEPT !.pc = "claimed", !.batch = b]
  <2>1. x.pc = "claimed" BY DEF IdleWorker
  <2> HIDE DEF x
  <2>2. worker' = [worker EXCEPT ![w] = x] BY <1>1 DEF x
  <2>3. \A v \in Workers : worker'[v].pc = "checked" => worker'[v] = worker[v]
    BY <2>1, <2>2, Typed
  <2>4. ASSUME NEW v \in Workers, worker'[v].pc = "checked", batches'[worker[v].batch].status = "running"
        PROVE  /\ batches[worker[v].batch].status = "running"
               /\ JobsOf(worker[v].batch)' = JobsOf(worker[v].batch)
    <3>1. PICK c \in BatchIds :
            /\ c = worker[v].batch
            /\ \/ batches'[c].status = batches[c].status /\ JobsOf(c)' = JobsOf(c)
               \/ batches'[c].status = "failed" /\ JobsOf(c)' = {}
      BY <1>1, <2>3, <2>4, ClaimOthers
    <3> QED BY <2>3, <2>4, <3>1
  <2> QED BY <2>3, <2>4 DEF QuietWorkers
<1>8. \A t \in Seqs : /\ jobs'[t].owner = jobs[t].owner /\ jobs[t].attempts <= jobs'[t].attempts
                      /\ jobs'[t].status = "done" <=> jobs[t].status = "done"
  BY <1>3, <1>4
<1>9. FoldInv' BY <1>6, <1>8, FoldKept
<1>10. CommitsInOrder' /\ OvertakenOnlyByRetry' BY <1>6, <1>7, <1>8, OrderKept
<1>11. \A t, u \in Seqs : u < t /\ jobs'[t].status # "absent" => jobs'[u].status # "absent"
  BY <1>3, <1>4 DEF OrderInv, PassedOver
<1>12. \A t \in Seqs : jobs'[t].status = "running" \/ jobs'[t].wait # 0 => jobs'[t].attempts >= 1
  BY <1>3, <1>4 DEF OrderInv, PassedOver
<1>13. ASSUME NEW t \in Seqs, NEW u \in Seqs, u < t, jobs'[u].owner = jobs'[t].owner,
              jobs'[t].status \in {"running", "done"}
       PROVE  /\ jobs'[u].status = "pending" => jobs'[u].attempts >= 1
              /\ jobs'[t].status = "done" /\ jobs'[u].status = "running" => jobs'[u].attempts >= 2
  <2>1. jobs[u].owner = jobs[t].owner BY <1>4, <1>13
  <2>2. jobs[u].status = "running" \/ jobs[u].wait # 0 => jobs[u].attempts >= 1
    BY DEF OrderInv, PassedOver
  <2>3. /\ jobs[t].status \in {"running", "done"} /\ jobs[u].status = "pending" => jobs[u].attempts >= 1
        /\ jobs[t].status = "done" /\ jobs[u].status = "running" => jobs[u].attempts >= 2
    BY <1>13, <2>1 DEF OrderInv, PassedOver
  <2>4. CASE t \in T BY <1>3, <1>4, <1>5, <1>13, <2>1, <2>2, <2>4
  <2>5. CASE t \notin T
    <3>1. jobs[t].status = jobs'[t].status BY <1>3, <1>4, <1>13, <2>5
    <3> QED BY <1>3, <1>4, <1>13, <2>2, <2>3, <3>1
  <2> QED BY <2>4, <2>5
<1>14. PassedOver' BY <1>11, <1>12, <1>13 DEF PassedOver
<1> QED BY <1>9, <1>10, <1>14 DEF OrderInv

\* A commit folds turns that no mood folds and stores the youngest mood of its owner that
\* folds any (CommitBatchEvaluation).
LEMMA CommitKeeps ==
  ASSUME TypeOK, QueueInv, FoldInv, OrderInv, TypeOK', NEW w \in Workers, Commit(w),
         StillRunning(worker[w].batch)
  PROVE  FoldInv' /\ OrderInv'
<1>1. PICK b \in BatchIds : b = worker[w].batch BY CommittedRows
<1> DEFINE y == BatchMood(w)  B == JobsOf(b)
<1>2. /\ BatchEnds(w, b, "done") /\ worker[w].pc = "checked" /\ batches[b].status = "running"
      /\ y \in Mood /\ y.jobs = B /\ y.at = worker[w].at /\ B # {} /\ b # 0
      /\ moods' = (moods \ {y}) \cup {y}
  BY <1>1, CommittedRows, Numbers DEF Commit
<1>3. \A s \in Seqs :
        /\ jobs'[s].attempts = jobs[s].attempts /\ jobs'[s].wait = jobs[s].wait
        /\ s \notin B => jobs'[s] = jobs[s]
        /\ s \in B => jobs[s].status = "running" /\ jobs'[s].status = "done" /\ jobs[s].owner = y.owner
        /\ jobs'[s].owner = jobs[s].owner /\ jobs[s].attempts \in Nat
  BY <1>1, <1>2, CommittedRows, Typed DEF BatchEnds, Job
<1>4. B \subseteq Seqs BY DEF JobsOf
<1>5. PICK u \in Seqs : u \in B /\ jobs[u].batch = b BY <1>2, <1>4 DEF JobsOf
<1>6. /\ y.at \in Nat
      /\ \A m \in moods : m.jobs \subseteq Seqs /\ m.at \in Nat
      /\ \A m \in moods : \A s \in m.jobs : s \notin B /\ jobs[s].status = "done" /\ jobs[s].owner = m.owner
  BY <1>2, <1>3, <1>4 DEF TypeOK, Mood, FoldInv, MoodsAreDone
<1>7. \A m \in moods' : m = y \/ m \in moods BY <1>2
<1>8. y \in moods' /\ \A m \in moods : m \in moods' BY <1>2
<1> HIDE DEF y, B
<1>9. MoodsAreDone' BY <1>2, <1>3, <1>4, <1>6, <1>7 DEF MoodsAreDone
<1>10. \A m, n \in moods' : m # n => m.jobs \cap n.jobs = {}
  <2>1. \A m, n \in moods : m # n => m.jobs \cap n.jobs = {} BY DEF FoldInv, FoldedOnce
  <2>2. \A m \in moods : m.jobs \cap y.jobs = {} BY <1>2, <1>6
  <2> QED BY <1>7, <2>1, <2>2
<1>11. ASSUME NEW s \in Seqs
       PROVE  jobs'[s].status = "done" <=> \E m \in moods' : s \in m.jobs /\ m.owner = jobs'[s].owner
  <2>1. CASE s \in B BY <1>2, <1>3, <1>8, <2>1
  <2>2. CASE s \notin B
    <3>1. jobs[s].status = "done" <=> \E m \in moods : s \in m.jobs /\ m.owner = jobs[s].owner
      BY DEF FoldInv, FoldedOnce
    <3> QED BY <1>2, <1>3, <1>7, <1>8, <2>2, <3>1
  <2> QED BY <2>1, <2>2
<1>12. FoldInv' BY <1>9, <1>10, <1>11 DEF FoldInv, FoldedOnce
<1>13. \A s, t \in Seqs :
         jobs[s].status = "running" /\ jobs[t].status = "running" /\ jobs[s].owner = jobs[t].owner
           => jobs[s].batch = jobs[t].batch
  BY DEF QueueInv, RowsAgree
<1>14. ASSUME NEW v \in Workers, worker'[v].pc = "checked", batches'[worker'[v].batch].status = "running",
              NEW m \in moods', NEW s \in JobsOf(worker[v].batch)', m.jobs # {}, m.owner = jobs'[s].owner
       PROVE  m.at < worker'[v].at
  <2>1. /\ v # w /\ worker'[v] = worker[v] /\ batches[worker[v].batch].status = "running"
        /\ JobsOf(worker[v].batch)' = JobsOf(worker[v].batch)
    <3>1. v # w /\ worker'[v] = worker[v] BY <1>2, <1>14, EndsQuiet
    <3>2. PICK c \in BatchIds : c = worker[v].batch BY <1>14, <3>1, Holding
    <3>3. c # b /\ c # 0 BY <1>1, <1>2, <1>14, <3>1, <3>2, Numbers DEF QueueInv, WorkersHold
    <3>4. \A t \in Seqs : jobs'[t].batch = c <=> jobs[t].batch = c
      BY <1>2, <3>3 DEF BatchEnds, JobsOf
    <3>5. JobsOf(c)' = JobsOf(c) BY <3>4, JobsByRows
    <3>6. batches'[c] = batches[c] BY <1>2, <3>3, Typed DEF BatchEnds
    <3> QED BY <1>14, <3>1, <3>2, <3>5, <3>6
  <2>2. s \in Seqs /\ s \in JobsOf(worker[v].batch) /\ jobs[s].owner = m.owner
    BY <1>3, <1>14, <2>1 DEF JobsOf
  <2>3. CASE m \in moods BY <1>14, <2>1, <2>2, <2>3 DEF OrderInv, CommitsInOrder
  <2>4. CASE m = y
    <3>1. PICK c \in BatchIds : c = worker[v].batch BY <1>14, <2>1, Holding
    <3>2. c # 0 /\ jobs[s].batch = c BY <2>2, <3>1, Numbers DEF JobsOf
    <3>3. jobs[s].status = "running" BY <2>1, <2>2, <3>1, <3>2 DEF QueueInv, RowsAgree
    <3>4. c = b BY <1>3, <1>5, <1>13, <2>2, <2>4, <3>2, <3>3
    <3> QED BY <1>1, <1>2, <1>14, <2>1, <3>1, <3>4 DEF QueueInv, WorkersHold
  <2> QED BY <1>7, <2>3, <2>4
<1>15. CommitsInOrder' BY <1>14 DEF CommitsInOrder
<1>16. ASSUME NEW m \in moods', NEW n \in moods', m.owner = n.owner, m.at < n.at,
              NEW s \in m.jobs, NEW t \in n.jobs, t < s
       PROVE  jobs'[t].attempts > 1
  <2>1. CASE m \in moods /\ n \in moods
    <3>1. t \in Seqs /\ jobs[t].attempts > 1
      BY <1>6, <1>16, <2>1 DEF OrderInv, OvertakenOnlyByRetry
    <3> QED BY <1>3, <3>1
  <2>2. CASE m \in moods /\ n = y
    <3>1. /\ s \in Seqs /\ jobs[s].status = "done" /\ jobs[s].owner = y.owner
          /\ t \in Seqs /\ jobs[t].status = "running" /\ jobs[t].owner = y.owner
      BY <1>2, <1>3, <1>4, <1>6, <1>16, <2>2
    <3>2. jobs[t].attempts >= 2 BY <1>16, <3>1 DEF OrderInv, PassedOver
    <3> QED BY <1>3, <3>1, <3>2
  <2>3. CASE m = y /\ n \in moods
    <3>1. s \in B /\ s \in Seqs /\ jobs[s].owner = n.owner BY <1>2, <1>3, <1>4, <1>16, <2>3
    <3>2. n.at < worker[w].at
      BY <1>1, <1>2, <1>16, <2>3, <3>1 DEF OrderInv, CommitsInOrder, B
    <3> QED BY <1>2, <1>6, <1>16, <2>3, <3>2
  <2>4. CASE m = y /\ n = y BY <1>6, <1>16, <2>4
  <2> QED BY <1>7, <2>1, <2>2, <2>3, <2>4
<1>17. OvertakenOnlyByRetry' BY <1>16 DEF OvertakenOnlyByRetry
<1>18. /\ \A a, c \in Seqs : c < a /\ jobs'[a].status # "absent" => jobs'[c].status # "absent"
       /\ \A a \in Seqs : jobs'[a].status = "running" \/ jobs'[a].wait # 0 => jobs'[a].attempts >= 1
  BY <1>3 DEF OrderInv, PassedOver
<1>19. ASSUME NEW a \in Seqs, NEW c \in Seqs, c < a, jobs'[c].owner = jobs'[a].owner,
              jobs'[a].status \in {"running", "done"}
       PROVE  /\ jobs'[c].status = "pending" => jobs'[c].attempts >= 1
              /\ jobs'[a].status = "done" /\ jobs'[c].status = "running" => jobs'[c].attempts >= 2
  <2>1. jobs[c].owner = jobs[a].owner BY <1>3, <1>19
  <2>2. CASE a \in B
    <3>1. jobs[a].status = "running" BY <1>3, <2>2
    <3>2. jobs'[c].status # "running"
      <4> SUFFICES ASSUME jobs'[c].status = "running" PROVE FALSE OBVIOUS
      <4>1. c \notin B /\ jobs[c].status = "running" BY <1>3
      <4>2. jobs[c].batch = jobs[a].batch BY <1>13, <2>1, <3>1, <4>1
      <4> QED BY <2>2, <4>1, <4>2 DEF B, JobsOf
    <3>3. jobs'[c].status = "pending" => jobs[c].status = "pending" BY <1>3
    <3> QED BY <1>3, <1>19, <2>1, <3>1, <3>2, <3>3 DEF OrderInv, PassedOver
  <2>3. CASE a \notin B
    <3>1. jobs[a].status = jobs'[a].status BY <1>3, <2>3
    <3>2. jobs'[c].status \in {"pending", "running"} => jobs[c].status = jobs'[c].status BY <1>3
    <3> QED BY <1>3, <1>19, <2>1, <3>1, <3>2 DEF OrderInv, PassedOver
  <2> QED BY <2>2, <2>3
<1>20. PassedOver' BY <1>18, <1>19 DEF PassedOver
<1> QED BY <1>12, <1>15, <1>17, <1>20 DEF OrderInv

\* Every step keeps folds and order.
LEMMA HistoryNext ==
  ASSUME TypeOK, QueueInv, FoldInv, OrderInv, Next
  PROVE  FoldInv' /\ OrderInv'
<1>0. TypeOK' BY QueueNext
<1>1. CASE \E s \in Seqs : Enqueue(s) BY <1>0, <1>1, EnqueueKeeps
<1>2. CASE \/ \E o \in Owners : SupersedePending({o}) \/ ClearFailedJobs(o)
           \/ SupersedePending(Owners)
           \/ \E b \in BatchIds : RetryDue(b) \/ ClaimExpires(b)
           \/ Restart \/ \E w \in Workers : WriteFails(w)
  BY <1>0, <1>2, QueueQuiet, QuietStep
<1>3. ASSUME NEW w \in Workers, Work(w) PROVE FoldInv' /\ OrderInv'
  <2>1. CASE Claim(w) BY <1>0, <2>1, ClaimKeeps
  <2>2. CASE ClaimNothing(w) BY <1>0, <2>2, ReleaseQuiet, QuietStep
  <2>3. CASE LoadNothing(w) \/ EvaluationFails(w) \/ BaseChanged(w)
    <3>1. worker[w].pc # "idle" /\ \E retryable : FailBatch(w, retryable)
      BY <2>3 DEF LoadNothing, EvaluationFails, BaseChanged
    <3> QED BY <1>0, <3>1, FailQuiet, QuietStep
  <2>4. CASE LoadBatch(w) \/ EvaluationAnswers(w) \/ (Commit(w) /\ ~StillRunning(worker[w].batch))
    BY <1>0, <2>4, WorkerQuiet, QuietStep
  <2>5. CASE Commit(w) /\ StillRunning(worker[w].batch) BY <1>0, <2>5, CommitKeeps
  <2> QED BY <1>3, <2>1, <2>2, <2>3, <2>4, <2>5 DEF Work
<1>4. CASE \E r \in Writers : Write(r) BY <1>0, <1>4, WriterQuiet, QuietStep
<1> QED BY <1>1, <1>2, <1>3, <1>4 DEF Next

\* Folds and order, in every state that the program reaches.
THEOREM HistoryInductive == Spec => [](FoldInv /\ OrderInv)
<1>1. Init => FoldInv /\ OrderInv
  <2> SUFFICES ASSUME Init PROVE FoldInv /\ OrderInv OBVIOUS
  <2>1. /\ \A s \in Seqs : jobs[s].status = "absent" /\ jobs[s].wait = 0
        /\ moods = {} /\ \A w \in Workers : worker[w].pc = "idle"
    BY Rests DEF Init
  <2> QED BY <2>1 DEF FoldInv, MoodsAreDone, FoldedOnce, OrderInv, PassedOver, CommitsInOrder,
                      OvertakenOnlyByRetry
<1>2. FoldInv /\ OrderInv /\ UNCHANGED vars => (FoldInv /\ OrderInv)'
  BY DEF vars, FoldInv, MoodsAreDone, FoldedOnce, OrderInv, PassedOver, CommitsInOrder,
         OvertakenOnlyByRetry, JobsOf
<1>3. TypeOK /\ QueueInv /\ FoldInv /\ OrderInv /\ [Next]_vars => (FoldInv /\ OrderInv)'
  BY <1>2, HistoryNext
<1> QED BY <1>1, <1>3, QueueInductive, PTL DEF Spec

\* A turn moves the mood of its owner at most once, and is done exactly when it did
\* (CommitBatchEvaluation, MarkBatchFailed, releaseExpiredClaims).
THEOREM FoldedCorrect == Spec => []FoldedOnce
BY HistoryInductive, PTL DEF FoldInv

\* Turns of an owner are folded in the order they came, but for retries (ClaimNextBatch).
THEOREM OvertakenCorrect == Spec => []OvertakenOnlyByRetry
BY HistoryInductive, PTL DEF OrderInv

-----------------------------------------------------------------------------
(* What a step may never do *)

\* A failure that is recorded for a batch which was given up changes no row.
LEMMA LateFailure ==
  ASSUME TypeOK, QueueInv, NEW w \in Workers, worker[w].pc # "idle", NEW retryable,
         FailBatch(w, retryable), batches[worker[w].batch].status # "running"
  PROVE  UNCHANGED <<jobs, batches, moods>>
<1> DEFINE b == worker[w].batch
<1>1. b \in BatchIds /\ batches[b].status = "failed" /\ JobsOf(b) = {}
  BY Holding DEF Holds
<1>2. [batches[b] EXCEPT !.status = "failed"] = batches[b]
  BY <1>1, Typed DEF Batch
<1>3. batches' = [batches EXCEPT ![b].status = "failed"] BY DEF FailBatch
<1>4. batches' = batches BY <1>1, <1>2, <1>3, Typed
<1>5. jobs' = [s \in Seqs |-> jobs[s]] BY <1>1 DEF FailBatch
<1>6. jobs' = jobs BY <1>5, Typed
<1> QED BY <1>4, <1>6 DEF FailBatch

\* A failure settles or sends back the jobs of a batch that runs, so none that was settled.
LEMMA FailureSpares ==
  ASSUME TypeOK, QueueInv, NEW w \in Workers, worker[w].pc # "idle", NEW retryable,
         FailBatch(w, retryable), NEW s \in Seqs, jobs[s].status \in Settled
  PROVE  jobs'[s].status = jobs[s].status
<1>1. CASE batches[worker[w].batch].status # "running" BY <1>1, LateFailure
<1>2. CASE batches[worker[w].batch].status = "running"
  <2>1. worker[w].batch \in BatchIds /\ worker[w].batch # 0 BY Holding DEF Holds
  <2>2. jobs[s].status # "running" BY DEF Settled
  <2>3. jobs[s].batch # worker[w].batch BY <1>2, <2>1, <2>2 DEF QueueInv, RowsAgree
  <2>4. s \notin JobsOf(worker[w].batch) BY <2>3 DEF JobsOf
  <2> QED BY <2>4, FailedRows
<1> QED BY <1>1, <1>2

\* A claim and the release before it leave settled turns alone.
LEMMA ClaimSpares ==
  ASSUME TypeOK, QueueInv, NEW w \in Workers, Claim(w) \/ ClaimNothing(w),
         NEW s \in Seqs, jobs[s].status \in Settled
  PROVE  jobs'[s].status = jobs[s].status
<1>1. ReleasedJobs[s] = jobs[s] BY ReleasedRows DEF QueueInv, Settled
<1>2. CASE Claim(w)
  <2>1. PICK t \in Seqs, b \in BatchIds, T \in SUBSET Seqs : Takes(t, T, b) BY <1>2, ClaimTakes
  <2>2. s \notin T BY <1>1, <2>1, ClaimedRows DEF QueueInv, Settled
  <2> QED BY <1>1, <2>1, <2>2, ClaimedRows DEF QueueInv
<1>3. CASE ClaimNothing(w) BY <1>1, <1>3 DEF ClaimNothing
<1> QED BY <1>2, <1>3

\* A commit is of jobs that run.
LEMMA CommitSpares ==
  ASSUME TypeOK, QueueInv, NEW w \in Workers, Commit(w), NEW s \in Seqs, jobs[s].status \in Settled
  PROVE  jobs'[s].status = jobs[s].status
<1>1. CASE StillRunning(worker[w].batch) BY <1>1, CommittedRows DEF Settled
<1>2. CASE ~StillRunning(worker[w].batch) BY <1>2, CommitRefused
<1> QED BY <1>1, <1>2

\* Superseding takes pending turns only.
LEMMA SupersedeSpares ==
  ASSUME TypeOK, QueueInv, NEW os, jobs' = Supersede(os), NEW s \in Seqs, jobs[s].status \in Settled
  PROVE  jobs'[s].status = jobs[s].status
BY SupersedeRows DEF Settled

\* A turn that is settled is never claimed or settled again; only failed ones are cleared
\* (ClaimNextBatch, MarkBatchFailed, ClearFailedJobs).
THEOREM SettledStay == Spec => SettledStays
<1> DEFINE A == \A s \in Seqs : jobs[s].status \in Settled =>
                  \/ jobs'[s].status = jobs[s].status
                  \/ jobs[s].status = "failed" /\ jobs'[s].status = "cleared"
<1>1. TypeOK /\ QueueInv /\ [Next]_vars => [A]_vars
  <2> SUFFICES ASSUME TypeOK, QueueInv, [Next]_vars, NEW s \in Seqs, jobs[s].status \in Settled
               PROVE  \/ jobs'[s].status = jobs[s].status
                      \/ jobs[s].status = "failed" /\ jobs'[s].status = "cleared"
    OBVIOUS
  <2>0. jobs \in [Seqs -> Job] /\ jobs[s] \in Job BY Typed
  <2>1. ASSUME NEW t \in Seqs, Enqueue(t) PROVE jobs'[s].status = jobs[s].status
    <3>1. t # s BY <2>1 DEF Enqueue, Settled
    <3> QED BY <2>0, <2>1, <3>1 DEF Enqueue
  <2>2. ASSUME NEW o, SupersedePending(o) PROVE jobs'[s].status = jobs[s].status
    BY <2>2, SupersedeSpares DEF SupersedePending
  <2>3. ASSUME NEW o, ClearFailedJobs(o)
        PROVE  \/ jobs'[s].status = jobs[s].status
               \/ jobs[s].status = "failed" /\ jobs'[s].status = "cleared"
    BY <2>0, <2>3 DEF ClearFailedJobs, Job
  <2>4. ASSUME NEW b, RetryDue(b) PROVE jobs'[s].status = jobs[s].status
    BY <2>0, <2>4 DEF RetryDue, Job
  <2>5. ASSUME NEW w \in Workers, Work(w) PROVE jobs'[s].status = jobs[s].status
    <3>1. ASSUME worker[w].pc # "idle", NEW retryable, FailBatch(w, retryable)
          PROVE  jobs'[s].status = jobs[s].status
      BY <3>1, FailureSpares
    <3>2. CASE LoadBatch(w) \/ EvaluationAnswers(w) BY <3>2 DEF LoadBatch, EvaluationAnswers
    <3>3. CASE LoadNothing(w) BY <3>1, <3>3 DEF LoadNothing
    <3>4. CASE EvaluationFails(w) BY <3>1, <3>4 DEF EvaluationFails
    <3>5. CASE BaseChanged(w) BY <3>1, <3>5 DEF BaseChanged
    <3> QED BY <2>5, <3>2, <3>3, <3>4, <3>5, ClaimSpares, CommitSpares DEF Work
  <2>6. ASSUME NEW r \in Writers, Write(r) PROVE jobs'[s].status = jobs[s].status
    BY <2>6, SupersedeSpares
    DEF Write, ReadMood, ImpactEvaluated, ManualSupersedes, ManualCommits, ImpactStored, ImpactLogged
  <2>7. CASE \/ \E b \in BatchIds : ClaimExpires(b)
             \/ \E w \in Workers : WriteFails(w)
             \/ Restart \/ UNCHANGED vars
    BY <2>7 DEF ClaimExpires, WriteFails, Restart, vars
  <2> QED BY <2>1, <2>2, <2>3, <2>4, <2>5, <2>6, <2>7 DEF Next
<1> QED BY <1>1, QueueInductive, PTL DEF Spec, SettledStays

\* A worker that was overtaken leaves no trace (CommitBatchEvaluation, MarkBatchFailed).
THEOREM LateWorkersIgnored == Spec => LateWorkerIgnored
<1> DEFINE A == \A w \in Workers :
                  worker[w].pc # "idle" /\ batches[worker[w].batch].status # "running"
                  /\ worker'[w] # worker[w]
                    => UNCHANGED <<jobs, batches, moods>>
<1>1. TypeOK /\ QueueInv /\ [Next]_vars => [A]_vars
  <2> SUFFICES ASSUME TypeOK, QueueInv, [Next]_vars, NEW w \in Workers, worker[w].pc # "idle",
                      batches[worker[w].batch].status # "running", worker'[w] # worker[w]
               PROVE  UNCHANGED <<jobs, batches, moods>>
    OBVIOUS
  <2>1. ASSUME NEW v \in Workers, Work(v) PROVE UNCHANGED <<jobs, batches, moods>>
    <3>1. CASE v # w
      <4>1. ASSUME NEW retryable, FailBatch(v, retryable) PROVE FALSE
        BY <3>1, <4>1, Typed DEF FailBatch
      <4> QED
        BY <2>1, <3>1, <4>1, Typed
        DEF Work, Claim, ClaimNothing, LoadBatch, LoadNothing, EvaluationFails, EvaluationAnswers,
            BaseChanged, Commit
    <3>2. CASE v = w
      <4>1. ASSUME NEW retryable, FailBatch(w, retryable) PROVE UNCHANGED <<jobs, batches, moods>>
        BY <4>1, LateFailure
      <4>2. CASE LoadBatch(w) \/ EvaluationAnswers(w) BY <4>2 DEF LoadBatch, EvaluationAnswers
      <4>3. CASE Claim(w) \/ ClaimNothing(w) BY <4>3 DEF Claim, ClaimNothing
      <4>4. CASE Commit(w) BY <4>4, CommitRefused DEF StillRunning
      <4> QED BY <2>1, <3>2, <4>1, <4>2, <4>3, <4>4 DEF Work, LoadNothing, EvaluationFails, BaseChanged
    <3> QED BY <3>1, <3>2
  <2>2. CASE \/ \E v \in Workers : WriteFails(v)
             \/ Restart
    BY <2>2 DEF WriteFails, Restart
  <2>3. CASE \/ \E s \in Seqs : Enqueue(s)
             \/ \E o \in Owners : SupersedePending({o}) \/ ClearFailedJobs(o)
             \/ SupersedePending(Owners)
             \/ \E b \in BatchIds : RetryDue(b) \/ ClaimExpires(b)
             \/ UNCHANGED vars
    BY <2>3 DEF Enqueue, SupersedePending, ClearFailedJobs, RetryDue, ClaimExpires, vars
  <2>4. CASE \E r \in Writers : Write(r)
    BY <2>4
    DEF Write, ReadMood, ImpactEvaluated, ManualSupersedes, ManualCommits, ImpactStored, ImpactLogged
  <2> QED BY <2>1, <2>2, <2>3, <2>4 DEF Next
<1> QED BY <1>1, QueueInductive, PTL DEF Spec, LateWorkerIgnored
=============================================================================
