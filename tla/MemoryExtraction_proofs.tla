----------------------- MODULE MemoryExtraction_proofs -----------------------
(***************************************************************************)
(* Proofs about MemoryExtraction, for any segments, jobs, workers and       *)
(* callers and any limits: the types of its rows, that what is recorded as  *)
(* extracted has been read as far as one extraction reads, that no segment  *)
(* is left out of sight with unread messages, and that a worker which lost  *)
(* its claim leaves no trace.                                               *)
(***************************************************************************)
EXTENDS MemoryExtraction, FiniteSetTheorems, TLAPS

\* Rows and states by their types.
LEMMA Typed ==
  ASSUME TypeOK
  PROVE  /\ seg \in [Segments -> SegmentRow] /\ job \in [JobIds -> JobRow]
         /\ worker \in [Workers -> WorkerState] /\ caller \in [Callers -> CallerState]
         /\ covered \in [Segments -> SUBSET Instants]
  BY DEF TypeOK

\* An instant and the activity so far are numbers.
LEMMA Numbers ==
  ASSUME TypeOK
  PROVE  /\ MaxActivity \in Nat /\ Instants \subseteq Nat /\ Instants \subseteq 0 .. MaxActivity
         /\ \A s \in Segments : /\ seg[s].activity \in Nat /\ seg[s].until \in Nat
                                /\ seg[s].episodes \subseteq Instants
<1>1. MaxActivity \in Nat BY ExtractionAssumption
<1>2. Instants \subseteq Nat /\ Instants \subseteq 0 .. MaxActivity BY <1>1 DEF Instants
<1>3. \A n \in 0 .. MaxActivity : n \in Nat BY <1>1
<1>4. \A s \in Segments : /\ seg[s].activity \in Nat /\ seg[s].until \in Nat
                          /\ seg[s].episodes \subseteq Instants
  BY <1>3 DEF TypeOK, SegmentRow
<1> QED BY <1>1, <1>2, <1>4

\* What an extraction selects, by its fields.
LEMMA SelFields ==
  ASSUME NEW sel \in Selections
  PROVE  /\ sel.trigger \in Triggers /\ sel.eps \in SUBSET Instants /\ sel.until \in 0 .. MaxActivity
         /\ sel.until \in Nat /\ sel.limit \in {1, EpisodeLimit} /\ sel.limit \in Nat
<1>1. \A n \in 0 .. MaxActivity : n \in Nat BY ExtractionAssumption
<1> QED BY <1>1, ExtractionAssumption DEF Selections

\* A request selects a window (Ask).
LEMMA SelectType ==
  ASSUME NEW trigger \in Triggers, NEW eps \in SUBSET Instants, NEW until \in 0 .. MaxActivity
  PROVE  /\ Select(trigger, eps, until) \in Selections
         /\ Select(trigger, eps, until).trigger = trigger /\ Select(trigger, eps, until).eps = eps
         /\ Select(trigger, eps, until).until = until
         /\ trigger = "full" => Select(trigger, eps, until).limit = EpisodeLimit
  BY DEF Select, Selections, LimitOf, Triggers

\* Those who rest, and a row that is not used.
LEMMA Rests ==
  /\ NoWork \in WorkerState /\ NoWork.pc = "idle"
  /\ NoCall \in CallerState /\ NoCall.pc = "idle"
  /\ NoJob \in JobRow /\ NoJob.status = "none" /\ NoJob.seg = None /\ NoJob.asked = "full"
  /\ NoJob.sel.eps = {} /\ NoJob.sel.limit = EpisodeLimit
<1>1. /\ Nothing \in Selections /\ Nothing.eps = {} /\ Nothing.limit = EpisodeLimit
      /\ "full" \in Triggers
  BY SelectType, ExtractionAssumption DEF Nothing, Triggers
<1>2. NoWork \in WorkerState /\ NoWork.pc = "idle" BY <1>1 DEF NoWork, WorkerState
<1>3. /\ NoJob \in JobRow /\ NoJob.status = "none" /\ NoJob.seg = None /\ NoJob.asked = "full"
      /\ NoJob.sel = Nothing
  BY <1>1 DEF NoJob, JobRow
<1>4. NoCall \in CallerState /\ NoCall.pc = "idle" BY <1>1 DEF NoCall, CallerState
<1> QED BY <1>1, <1>2, <1>3, <1>4

-----------------------------------------------------------------------------
(* What has been read *)

\* Episodes are finitely many.
LEMMA Finite ==
  ASSUME NEW S \in SUBSET Instants
  PROVE  IsFiniteSet(S) /\ Cardinality(S) \in Nat
<1>1. IsFiniteSet(Instants) BY FS_Interval, ExtractionAssumption DEF Instants
<1>2. IsFiniteSet(S) BY <1>1, FS_Subset
<1> QED BY <1>2, FS_CardinalityType

\* What has been read enough stays so while reading goes on and the window is the same.
LEMMA EnoughKept ==
  ASSUME NEW eps \in SUBSET Instants, NEW eps2 \in SUBSET Instants,
         NEW read \in SUBSET Instants, NEW read2 \in SUBSET Instants, NEW until \in Nat,
         read \subseteq read2, Enough(eps, read, until),
         \A e \in Instants : e <= until => (e \in eps <=> e \in eps2)
  PROVE  Enough(eps2, read2, until)
<1> DEFINE window == {e \in eps : e <= until}
           window2 == {e \in eps2 : e <= until}
<1>1. window2 = window OBVIOUS
<1>2. CASE window \subseteq read
  <2>1. window2 \subseteq read2 BY <1>1, <1>2
  <2> QED BY <2>1 DEF Enough
<1>3. CASE Cardinality(window \cap read) >= EpisodeLimit
  <2>1. window \cap read2 \in SUBSET Instants /\ window \cap read \in SUBSET (window \cap read2)
    OBVIOUS
  <2> HIDE DEF window
  <2>2. /\ Cardinality(window \cap read) \in Nat /\ Cardinality(window \cap read2) \in Nat
        /\ Cardinality(window \cap read) <= Cardinality(window \cap read2)
    <3>1. window \cap read \in SUBSET Instants BY <2>1
    <3>2. IsFiniteSet(window \cap read2) BY <2>1, Finite
    <3>3. Cardinality(window \cap read) <= Cardinality(window \cap read2) BY ONLY <2>1, <3>2, FS_Subset
    <3> QED BY <2>1, <3>1, <3>3, Finite
  <2>3. Cardinality(window \cap read2) >= EpisodeLimit BY <1>3, <2>2, ExtractionAssumption
  <2>4. Cardinality(window2 \cap read2) >= EpisodeLimit BY <1>1, <2>3
  <2> QED BY <2>4 DEF Enough
<1> QED BY <1>2, <1>3 DEF Enough

\* An extraction of the whole segment with the full limit reads enough of its window
\* (buildRunExtractionRequest).
LEMMA ReadingEnough ==
  ASSUME TypeOK, NEW s \in Segments, NEW sel \in Selections, sel.eps = {}, sel.limit = EpisodeLimit,
         NEW X \in Readings(s, sel), NEW read \in SUBSET Instants, X \subseteq read
  PROVE  Enough(seg[s].episodes, read, sel.until)
<1> DEFINE window == {e \in seg[s].episodes : e <= sel.until}
<1>1. Selected(s, sel) = window BY DEF Selected
<1>2. /\ X \subseteq window
      /\ X = window \/ Cardinality(X) = EpisodeLimit
  BY <1>1 DEF Readings
<1>3. CASE X = window BY <1>3 DEF Enough
<1>4. CASE Cardinality(X) = EpisodeLimit
  <2>1. window \cap read \in SUBSET Instants /\ X \in SUBSET (window \cap read)
    BY <1>2, Numbers
  <2> HIDE DEF window
  <2>2. IsFiniteSet(window \cap read) /\ Cardinality(window \cap read) \in Nat BY <2>1, Finite
  <2>3. Cardinality(X) <= Cardinality(window \cap read) BY ONLY <2>1, <2>2, FS_Subset
  <2>4. Cardinality(window \cap read) >= EpisodeLimit BY <1>4, <2>2, <2>3, ExtractionAssumption
  <2> QED BY <2>4 DEF Enough, window
<1> QED BY <1>2, <1>3, <1>4

-----------------------------------------------------------------------------
(* What steps leave as it is *)

\* A selection is one of what its segment has become.
LEMMA SelKept ==
  ASSUME NEW sel \in Selections, NEW n \in Nat, NEW m \in Nat, n <= m, SoundSel(sel, n)
  PROVE  SoundSel(sel, m)
  BY SelFields DEF SoundSel

\* A caller's selections are such, too.
LEMMA CallKept ==
  ASSUME TypeOK, TypeOK', NEW x \in CallerState, SoundCall(x),
         \A s \in Segments : seg[s].activity <= seg'[s].activity,
         \A j \in JobIds : job[j].seg # None => job'[j].seg = job[j].seg
  PROVE  x.pc # "idle" =>
           /\ x.seg # None /\ SoundSel(x.sel, seg'[x.seg].activity)
           /\ x.pc = "merge" => /\ x.job # None /\ job'[x.job].seg = x.seg
                                /\ SoundSel(x.seen, seg'[x.seg].activity)
<1> SUFFICES ASSUME x.pc # "idle"
             PROVE  /\ x.seg # None /\ SoundSel(x.sel, seg'[x.seg].activity)
                    /\ x.pc = "merge" => /\ x.job # None /\ job'[x.job].seg = x.seg
                                         /\ SoundSel(x.seen, seg'[x.seg].activity)
  OBVIOUS
<1>1. /\ x.seg # None /\ SoundSel(x.sel, seg[x.seg].activity)
      /\ x.pc = "merge" => /\ x.job # None /\ job[x.job].seg = x.seg
                           /\ SoundSel(x.seen, seg[x.seg].activity)
  BY DEF SoundCall
<1>2. /\ x.seg \in Segments /\ (x.job # None => x.job \in JobIds)
      /\ x.sel \in Selections /\ x.seen \in Selections
  BY <1>1 DEF CallerState
<1>3. /\ seg[x.seg].activity \in Nat /\ seg'[x.seg].activity \in Nat
      /\ seg[x.seg].activity <= seg'[x.seg].activity
  BY <1>2, ExtractionAssumption DEF TypeOK, SegmentRow
<1>4. SoundSel(x.sel, seg'[x.seg].activity) BY <1>1, <1>2, <1>3, SelKept
<1>5. x.pc = "merge" => SoundSel(x.seen, seg'[x.seg].activity) BY <1>1, <1>2, <1>3, SelKept
<1> QED BY <1>1, <1>2, <1>4, <1>5

\* Callers that go on as they were, or rest.
LEMMA CallersKept ==
  ASSUME TypeOK, TypeOK', CallersSound, \A c \in Callers : caller'[c] = caller[c] \/ caller'[c] = NoCall,
         \A s \in Segments : seg[s].activity <= seg'[s].activity,
         \A j \in JobIds : job[j].seg # None => job'[j].seg = job[j].seg
  PROVE  CallersSound'
<1>1. ASSUME NEW c \in Callers PROVE SoundCall(caller[c])'
  <2>1. CASE caller'[c] = caller[c]
    <3>1. PICK x \in CallerState : x = caller[c] BY Typed
    <3>2. SoundCall(x) BY <3>1 DEF CallersSound
    <3> QED BY <2>1, <3>1, <3>2, CallKept DEF SoundCall
  <2>2. CASE caller'[c] = NoCall BY <2>2, Rests DEF SoundCall
  <2> QED BY <2>1, <2>2
<1> QED BY <1>1 DEF CallersSound

\* Reading goes on and new messages come later: what was read enough still is.
LEMMA ReadKept ==
  ASSUME TypeOK, TypeOK', NEW s \in Segments, NEW until \in Nat, until <= seg[s].activity,
         covered[s] \subseteq covered'[s],
         \A e \in seg'[s].episodes : e \in seg[s].episodes \/ (e \in Nat /\ e > seg[s].activity),
         seg[s].episodes \subseteq seg'[s].episodes, Enough(seg[s].episodes, covered[s], until)
  PROVE  Enough(seg'[s].episodes, covered'[s], until)
<1>1. /\ seg[s].episodes \in SUBSET Instants /\ covered[s] \in SUBSET Instants
      /\ seg'[s].episodes \in SUBSET Instants /\ covered'[s] \in SUBSET Instants
      /\ seg[s].activity \in Nat /\ Instants \subseteq Nat
  BY Numbers DEF TypeOK, SegmentRow
<1>2. \A e \in Instants : e <= until => (e \in seg[s].episodes <=> e \in seg'[s].episodes)
  BY <1>1
<1> QED BY ONLY <1>1, <1>2, EnoughKept, until \in Nat, covered[s] \subseteq covered'[s],
               Enough(seg[s].episodes, covered[s], until)

\* A worker stays sound while its job, if it holds it, asks for the same.
LEMMA WorkKept ==
  ASSUME TypeOK, TypeOK', RowsSound, WorkersSound, NEW w \in Workers, worker'[w] = worker[w],
         \A j \in JobIds : j = worker[w].job /\ job'[j].status = "running" /\ job'[j].by = w =>
           /\ job[j].status = "running" /\ job[j].by = w
           /\ job'[j].seg = job[j].seg /\ job'[j].sel = job[j].sel /\ job'[j].asked = job[j].asked,
         \A s \in Segments :
           /\ covered[s] \subseteq covered'[s] /\ seg[s].episodes \subseteq seg'[s].episodes
           /\ \A e \in seg'[s].episodes : e \in seg[s].episodes \/ (e \in Nat /\ e > seg[s].activity)
  PROVE  SoundWork(w)'
<1> SUFFICES ASSUME worker[w].pc # "idle" PROVE SoundWork(w)' BY DEF SoundWork
<1>1. PICK j \in JobIds : j = worker[w].job BY Typed DEF WorkersSound, SoundWork, WorkerState
<1>2. j # None BY <1>1 DEF WorkersSound, SoundWork
<1>3. SUFFICES ASSUME job'[j].status = "running", job'[j].by = w
               PROVE  /\ worker[w].sel = job'[j].sel
                      /\ worker[w].pc \in {"succeeded", "skipped"} /\ job'[j].asked = "full" =>
                           Enough(seg'[job'[j].seg].episodes, covered'[job'[j].seg], worker[w].sel.until)
  BY <1>1, <1>2 DEF SoundWork, Holds, ReadEnough
<1>4. /\ job[j].status = "running" /\ job[j].by = w
      /\ job'[j].seg = job[j].seg /\ job'[j].sel = job[j].sel /\ job'[j].asked = job[j].asked
  BY <1>1, <1>3
<1>5. /\ worker[w].sel = job[j].sel
      /\ worker[w].pc \in {"succeeded", "skipped"} /\ job[j].asked = "full" =>
           Enough(seg[job[j].seg].episodes, covered[job[j].seg], worker[w].sel.until)
  BY <1>1, <1>4 DEF WorkersSound, SoundWork, Holds, ReadEnough
<1>6. PICK s \in Segments : s = job[j].seg BY <1>4, Typed DEF RowsSound, JobRow
<1>7. PICK u \in Nat : u = worker[w].sel.until
  BY Typed, SelFields DEF WorkerState
<1>8. u <= seg[s].activity BY <1>4, <1>5, <1>6, <1>7 DEF RowsSound, SoundSel
<1>9. worker[w].pc \in {"succeeded", "skipped"} /\ job[j].asked = "full" =>
        Enough(seg'[s].episodes, covered'[s], u)
  BY <1>5, <1>6, <1>7, <1>8, ReadKept
<1> QED BY <1>4, <1>5, <1>6, <1>7, <1>9

\* Marks stay true while none is set.
LEMMA MarksKept ==
  ASSUME TypeOK, TypeOK', RowsSound, WindowCovered,
         \A s \in Segments :
           /\ seg'[s].until = seg[s].until /\ seg'[s].mark = seg[s].mark
           /\ covered[s] \subseteq covered'[s] /\ seg[s].episodes \subseteq seg'[s].episodes
           /\ \A e \in seg'[s].episodes : e \in seg[s].episodes \/ (e \in Nat /\ e > seg[s].activity)
  PROVE  WindowCovered'
<1> SUFFICES ASSUME NEW s \in Segments, seg'[s].mark # "manual_pin"
             PROVE  Enough(seg'[s].episodes, covered'[s], seg'[s].until)
  BY DEF WindowCovered, ReadEnough
<1>1. PICK u \in Nat : u = seg[s].until BY Numbers
<1>2. u <= seg[s].activity /\ Enough(seg[s].episodes, covered[s], u)
  BY <1>1 DEF RowsSound, WindowCovered, ReadEnough
<1>3. Enough(seg'[s].episodes, covered'[s], u) BY <1>2, ReadKept
<1> QED BY <1>1, <1>3

\* A segment that looks busy keeps its job.
LEMMA BusyKept ==
  ASSUME BusyHasJob, \A s \in Segments : seg'[s].status = "running" => seg[s].status = "running",
         \A j \in JobIds : job[j].status \in Active => job'[j].status \in Active /\ job'[j].seg = job[j].seg
  PROVE  BusyHasJob'
<1>1. \A s \in Segments : ActiveJobs(s) \subseteq ActiveJobs(s)' BY DEF ActiveJobs
<1> QED BY <1>1 DEF BusyHasJob

\* Rows stay sound while jobs ask for what they did and windows stay within the activity.
LEMMA RowsKept ==
  ASSUME TypeOK, RowsSound,
         \A j \in JobIds :
           /\ job'[j].seg = job[j].seg /\ job'[j].sel = job[j].sel /\ job'[j].asked = job[j].asked
           /\ job'[j].status = "none" <=> job[j].status = "none",
         \A s \in Segments :
           /\ seg'[s].activity = seg[s].activity /\ seg'[s].episodes = seg[s].episodes
           /\ seg'[s].until <= seg[s].activity
  PROVE  RowsSound'
<1>1. \A j \in JobIds : job[j].seg # None => job[j].seg \in Segments BY Typed DEF JobRow
<1> QED BY <1>1 DEF RowsSound

-----------------------------------------------------------------------------
(* Callers *)

\* A caller that takes a sound step leaves rows and workers alone.
LEMMA CallerStep ==
  ASSUME TypeOK, ExtractionInv, NEW c \in Callers, NEW x \in CallerState, SoundCall(x),
         caller' = [caller EXCEPT ![c] = x], UNCHANGED <<seg, job, worker, covered>>
  PROVE  TypeOK' /\ ExtractionInv'
<1>1. /\ caller' \in [Callers -> CallerState] /\ caller'[c] = x
      /\ \A d \in Callers \ {c} : caller'[d] = caller[d]
  BY Typed
<1>2. TypeOK' BY <1>1 DEF TypeOK
<1>3. SoundCall(x) /\ \A d \in Callers : SoundCall(caller[d]) BY DEF ExtractionInv, CallersSound
<1>4. CallersSound' BY <1>1, <1>3 DEF CallersSound, SoundCall
<1>5. RowsSound' /\ WorkersSound' /\ WindowCovered' /\ BusyHasJob'
  BY DEF ExtractionInv, RowsSound, WorkersSound, SoundWork, Holds, WindowCovered, ReadEnough,
         BusyHasJob, ActiveJobs
<1> QED BY <1>2, <1>4, <1>5 DEF ExtractionInv

\* What a caller that asks knows.
Request(s, trigger, eps, until) ==
  [NoCall EXCEPT !.pc = "asked", !.seg = s, !.sel = Select(trigger, eps, until)]

\* What is asked for is a window of the segment.
LEMMA Asked ==
  ASSUME TypeOK, NEW s \in Segments, NEW trigger \in Triggers, NEW eps \in SUBSET Instants,
         NEW until \in 0 .. MaxActivity, until <= seg[s].activity, trigger = "full" => eps = {}
  PROVE  Request(s, trigger, eps, until) \in CallerState /\ SoundCall(Request(s, trigger, eps, until))
<1> DEFINE x == Request(s, trigger, eps, until)
           sel == Select(trigger, eps, until)
<1>1. sel \in Selections /\ SoundSel(sel, seg[s].activity) BY SelectType DEF SoundSel
<1>2. x \in CallerState /\ x.pc = "asked" /\ x.seg = s /\ x.sel = sel
  BY <1>1, Rests DEF CallerState, Request
<1> HIDE DEF x, sel
<1>3. s # None BY ExtractionAssumption
<1>4. SoundCall(x) BY <1>1, <1>2, <1>3 DEF SoundCall
<1> QED BY <1>2, <1>4 DEF x

\* The scheduler, the API and "remember this" ask for a window as they read it.
LEMMA AskKeeps ==
  ASSUME TypeOK, ExtractionInv, NEW c \in Callers, NEW s \in Segments,
         ManualPin(c, s) \/ Sweep(c, s) \/ ManualScan(c, s)
  PROVE  TypeOK' /\ ExtractionInv'
<1>0. /\ seg[s].activity \in 0 .. MaxActivity /\ seg[s].activity <= seg[s].activity
      /\ seg[s].episodes \subseteq Instants
  BY Numbers DEF TypeOK, SegmentRow
<1>1. PICK trigger \in Triggers, eps \in SUBSET Instants :
        /\ Ask(c, s, trigger, eps, seg[s].activity) /\ (trigger = "full" => eps = {})
        /\ UNCHANGED <<seg, job, worker, covered>>
  <2>1. CASE ManualPin(c, s)
    <3> DEFINE e == CHOOSE e \in seg[s].episodes : \A f \in seg[s].episodes : f <= e
    <3>1. e \in seg[s].episodes BY <2>1 DEF ManualPin, ExtractionInv, RowsSound
    <3>2. Ask(c, s, "manual_pin", {e}, seg[s].activity) /\ UNCHANGED <<seg, job, worker, covered>>
      BY <2>1 DEF ManualPin
    <3> HIDE DEF e
    <3>3. {e} \in SUBSET Instants /\ "manual_pin" \in Triggers BY <1>0, <3>1 DEF Triggers
    <3> QED BY <3>2, <3>3
  <2>2. CASE Sweep(c, s) \/ ManualScan(c, s)
    <3>1. Ask(c, s, "full", {}, seg[s].activity) /\ UNCHANGED <<seg, job, worker, covered>>
      BY <2>2 DEF Sweep, ManualScan
    <3> QED BY <3>1 DEF Triggers
  <2> QED BY <2>1, <2>2
<1> DEFINE x == Request(s, trigger, eps, seg[s].activity)
<1>2. x \in CallerState /\ SoundCall(x) BY <1>0, <1>1, Asked
<1>3. caller' = [caller EXCEPT ![c] = x] BY <1>1 DEF Ask, Request
<1> HIDE DEF x
<1> QED BY <1>1, <1>2, <1>3, CallerStep

\* A caller that is done or gives up rests.
LEMMA ReturnSound == NoCall \in CallerState /\ SoundCall(NoCall)
  BY Rests DEF SoundCall

\* What a lookup finds is a window of the same segment (EnqueueMemoryExtractionJob).
LEMMA LookupKeeps ==
  ASSUME TypeOK, ExtractionInv, NEW c \in Callers, Lookup(c)
  PROVE  TypeOK' /\ ExtractionInv'
<1>0. /\ caller[c] \in CallerState /\ SoundCall(caller[c]) /\ caller[c].pc = "asked"
      /\ UNCHANGED <<seg, job, worker, covered>>
  BY Typed DEF Lookup, ExtractionInv, CallersSound
<1>1. \/ Goto(c, "insert") \/ Return(c)
      \/ \E j \in ActiveJobs(caller[c].seg) :
           caller' = [caller EXCEPT ![c].pc = "merge", ![c].job = j, ![c].seen = job[j].sel]
  BY DEF Lookup
<1>2. CASE Return(c) BY <1>0, <1>2, ReturnSound, CallerStep DEF Return
<1>3. CASE Goto(c, "insert")
  <2> DEFINE x == [caller[c] EXCEPT !.pc = "insert"]
  <2>1. x \in CallerState /\ x.pc = "insert" /\ x.seg = caller[c].seg /\ x.sel = caller[c].sel
    BY <1>0 DEF CallerState
  <2>2. caller' = [caller EXCEPT ![c] = x] BY <1>3 DEF Goto
  <2> HIDE DEF x
  <2>3. SoundCall(x) BY <1>0, <2>1 DEF SoundCall
  <2> QED BY <1>0, <2>1, <2>2, <2>3, CallerStep
<1>4. ASSUME NEW j \in ActiveJobs(caller[c].seg),
             caller' = [caller EXCEPT ![c].pc = "merge", ![c].job = j, ![c].seen = job[j].sel]
      PROVE  TypeOK' /\ ExtractionInv'
  <2> DEFINE x == [caller[c] EXCEPT !.pc = "merge", !.job = j, !.seen = job[j].sel]
  <2>0. /\ j \in JobIds /\ job[j].seg = caller[c].seg /\ job[j] \in JobRow /\ j # None
        /\ caller[c].seg # None
    BY <1>0, Typed, ExtractionAssumption DEF ActiveJobs, SoundCall
  <2>1. job[j].sel \in Selections BY <2>0 DEF JobRow
  <2>2. /\ x \in CallerState /\ x.pc = "merge" /\ x.seg = caller[c].seg /\ x.sel = caller[c].sel
        /\ x.job = j /\ x.seen = job[j].sel
    BY <1>0, <2>0, <2>1 DEF CallerState
  <2>3. caller' = [caller EXCEPT ![c] = x] BY <1>0, <1>4, Typed DEF CallerState
  <2> HIDE DEF x
  <2>4. SoundSel(job[j].sel, seg[caller[c].seg].activity)
    BY <2>0 DEF ExtractionInv, RowsSound
  <2>5. SoundCall(x) BY <1>0, <2>0, <2>2, <2>4 DEF SoundCall
  <2> QED BY <1>0, <2>2, <2>3, <2>5, CallerStep
<1> QED BY <1>1, <1>2, <1>3, <1>4

-----------------------------------------------------------------------------
(* Activity *)

\* Rows of segments, by their fields.
LEMMA SegMoves ==
  ASSUME TypeOK, NEW s \in Segments, NEW x \in SegmentRow, seg' = [seg EXCEPT ![s] = x]
  PROVE  /\ seg' \in [Segments -> SegmentRow] /\ seg'[s] = x
         /\ \A t \in Segments \ {s} : seg'[t] = seg[t]
  BY Typed

\* New activity of one segment comes after all that was.
LEMMA ActivityKeeps ==
  ASSUME TypeOK, ExtractionInv, TypeOK', NEW s \in Segments, NEW eps,
         seg'[s].activity = seg[s].activity + 1, seg'[s].episodes = seg[s].episodes \cup eps,
         eps \subseteq {seg[s].activity + 1}, seg'[s].until = seg[s].until, seg'[s].mark = seg[s].mark,
         seg'[s].status = "running" => seg[s].status = "running",
         \A t \in Segments \ {s} : seg'[t] = seg[t],
         UNCHANGED <<job, worker, covered>>
  PROVE  RowsSound' /\ WorkersSound' /\ WindowCovered' /\ BusyHasJob'
         /\ \A t \in Segments : seg[t].activity <= seg'[t].activity
<1>1. /\ \A t \in Segments :
           /\ seg[t].activity \in Nat /\ seg[t].until \in Nat /\ seg'[t].until = seg[t].until
           /\ seg'[t].mark = seg[t].mark
           /\ seg[t].until <= seg[t].activity /\ seg[t].activity <= seg'[t].activity
           /\ seg[t].episodes \subseteq Nat /\ seg'[t].activity \in Nat
           /\ \A e \in seg[t].episodes : e <= seg[t].activity
           /\ seg[t].episodes # {} => \E e \in seg[t].episodes : \A f \in seg[t].episodes : f <= e
      /\ \A j \in JobIds : job[j].sel \in Selections /\ (job[j].seg # None => job[j].seg \in Segments)
  BY Numbers, Typed DEF ExtractionInv, RowsSound, JobRow
<1>2. \A t \in Segments : \A e \in seg'[t].episodes :
        e \in seg[t].episodes \/ (e \in Nat /\ e > seg[t].activity /\ e <= seg'[t].activity)
  <2>1. ASSUME NEW t \in Segments, NEW e \in seg'[t].episodes
        PROVE  e \in seg[t].episodes \/ (t = s /\ e = seg[t].activity + 1)
    OBVIOUS
  <2>2. seg[s].activity + 1 \in Nat /\ seg[s].activity + 1 > seg[s].activity
        /\ seg[s].activity + 1 <= seg'[s].activity
    BY <1>1
  <2> QED BY <2>1, <2>2
<1>2a. \A t \in Segments : seg[t].episodes \subseteq seg'[t].episodes OBVIOUS
<1>3. \A t \in Segments :
        /\ seg'[t].until <= seg'[t].activity
        /\ \A e \in seg'[t].episodes : e <= seg'[t].activity
        /\ seg'[t].episodes # {} => \E e \in seg'[t].episodes : \A f \in seg'[t].episodes : f <= e
  <2> TAKE t \in Segments
  <2>1. CASE t # s BY <1>1, <2>1
  <2>2. CASE t = s
    <3>1. seg'[s].until <= seg'[s].activity BY <1>1
    <3>2. \A e \in seg'[s].episodes : e <= seg'[s].activity BY <1>1, <1>2
    <3>3. CASE eps = {}
      <4>1. seg'[s].episodes = seg[s].episodes BY <3>3
      <4> QED BY <1>1, <2>2, <3>1, <3>2, <4>1
    <3>4. CASE eps = {seg[s].activity + 1}
      <4>1. seg'[s].activity \in seg'[s].episodes BY <3>4
      <4> QED BY <2>2, <3>1, <3>2, <4>1
    <3> QED BY <3>3, <3>4
  <2> QED BY <2>1, <2>2
<1>4. RowsSound'
  <2>1. \A j \in JobIds :
          /\ job[j].status # "none" <=> job[j].seg # None
          /\ job[j].seg # None => SoundSel(job[j].sel, seg[job[j].seg].activity)
          /\ job[j].asked = "full" => job[j].sel.eps = {} /\ job[j].sel.limit = EpisodeLimit
    BY DEF ExtractionInv, RowsSound
  <2>2. \A j \in JobIds : job[j].seg # None => SoundSel(job[j].sel, seg'[job[j].seg].activity)
    BY <1>1, <2>1, SelKept
  <2> QED BY <1>3, <2>1, <2>2 DEF RowsSound
<1>5. WorkersSound'
  <2>1. ASSUME NEW w \in Workers PROVE SoundWork(w)' BY <1>2, <1>2a, WorkKept DEF ExtractionInv
  <2> QED BY <2>1 DEF WorkersSound
<1>6. WindowCovered' BY <1>1, <1>2, <1>2a, MarksKept DEF ExtractionInv
<1>7. BusyHasJob'
  <2>1. \A t \in Segments : seg'[t].status = "running" => seg[t].status = "running" OBVIOUS
  <2> QED BY <2>1, BusyKept DEF ExtractionInv
<1> QED BY <1>1, <1>4, <1>5, <1>6, <1>7

\* A message makes its segment's extraction stale, not its rows wrong (UpdateMemorySegmentEpisode).
LEMMA AppendKeeps ==
  ASSUME TypeOK, ExtractionInv, NEW s \in Segments, AppendEpisode(s)
  PROVE  TypeOK' /\ ExtractionInv'
<1> DEFINE now == seg[s].activity + 1
           stale == IF seg[s].status \in {"succeeded", "skipped"} /\ seg[s].until > 0
                    THEN "stale" ELSE seg[s].status
           x == [seg[s] EXCEPT !.activity = now, !.episodes = @ \cup {now}, !.status = stale]
<1>1. seg[s] \in SegmentRow /\ now \in Instants /\ UNCHANGED <<job, worker, caller, covered>>
  BY Typed DEF AppendEpisode
<1>2. seg' = [seg EXCEPT ![s] = x] BY <1>1, Typed DEF AppendEpisode, SegmentRow
<1>3. now \in 0 .. MaxActivity BY <1>1, Numbers
<1>4. stale \in {"never", "pending", "running", "succeeded", "skipped", "failed", "stale"}
      /\ (stale = "running" => seg[s].status = "running")
  BY <1>1 DEF SegmentRow
<1> HIDE DEF now, stale
<1>5. /\ x \in SegmentRow /\ x.activity = now /\ x.episodes = seg[s].episodes \cup {now}
      /\ x.until = seg[s].until /\ x.mark = seg[s].mark /\ x.status = stale
  BY <1>1, <1>3, <1>4 DEF SegmentRow
<1> HIDE DEF x
<1>6. /\ seg' \in [Segments -> SegmentRow] /\ seg'[s] = x
      /\ \A t \in Segments \ {s} : seg'[t] = seg[t]
  BY <1>2, <1>5, SegMoves
<1>7. TypeOK' BY <1>1, <1>6 DEF TypeOK
<1>8. /\ RowsSound' /\ WorkersSound' /\ WindowCovered' /\ BusyHasJob'
      /\ \A t \in Segments : seg[t].activity <= seg'[t].activity
  BY <1>1, <1>4, <1>5, <1>6, <1>7, ActivityKeeps DEF now
<1>9. CallersSound' BY <1>1, <1>7, <1>8, CallersKept DEF ExtractionInv
<1> QED BY <1>7, <1>8, <1>9 DEF ExtractionInv

\* The end of a segment is activity and asks for all of it (FinalizeSegment).
LEMMA FinalizeKeeps ==
  ASSUME TypeOK, ExtractionInv, NEW c \in Callers, NEW s \in Segments, FinalizeSegment(c, s)
  PROVE  TypeOK' /\ ExtractionInv'
<1> DEFINE now == seg[s].activity + 1
           x == [seg[s] EXCEPT !.activity = now]
           y == Request(s, "full", {}, now)
<1>1. /\ seg[s] \in SegmentRow /\ seg[s].activity < MaxActivity /\ UNCHANGED <<job, worker, covered>>
      /\ seg' = [seg EXCEPT ![s] = x] /\ caller' = [caller EXCEPT ![c] = y]
  BY Typed DEF FinalizeSegment, Ask, Request, SegmentRow
<1>2. now \in 0 .. MaxActivity BY <1>1, Numbers
<1> HIDE DEF now
<1>3. /\ x \in SegmentRow /\ x.activity = now /\ x.episodes = seg[s].episodes
      /\ x.until = seg[s].until /\ x.mark = seg[s].mark /\ x.status = seg[s].status
  BY <1>1, <1>2 DEF SegmentRow
<1> HIDE DEF x
<1>4. /\ seg' \in [Segments -> SegmentRow] /\ seg'[s] = x
      /\ \A t \in Segments \ {s} : seg'[t] = seg[t]
  BY <1>1, <1>3, SegMoves
<1>5. /\ y \in CallerState /\ y.pc = "asked" /\ y.seg = s /\ y.sel = Select("full", {}, now)
      /\ SoundSel(y.sel, now)
  <2>1. "full" \in Triggers /\ {} \in SUBSET Instants /\ now <= now
    BY <1>2, ExtractionAssumption DEF Triggers
  <2>2. Select("full", {}, now) \in Selections /\ SoundSel(Select("full", {}, now), now)
    BY <1>2, <2>1, SelectType DEF SoundSel
  <2> QED BY <2>2, Rests DEF CallerState, Request
<1> HIDE DEF y
<1>6. /\ caller' \in [Callers -> CallerState] /\ caller'[c] = y
      /\ \A d \in Callers \ {c} : caller'[d] = caller[d]
  BY <1>1, <1>5, Typed
<1>7. TypeOK' BY <1>1, <1>4, <1>6 DEF TypeOK
<1>8. /\ RowsSound' /\ WorkersSound' /\ WindowCovered' /\ BusyHasJob'
      /\ \A t \in Segments : seg[t].activity <= seg'[t].activity
  <2> DEFINE eps == {}
  <2>1. /\ seg'[s].activity = seg[s].activity + 1 /\ seg'[s].episodes = seg[s].episodes \cup eps
        /\ eps \subseteq {seg[s].activity + 1} /\ seg'[s].until = seg[s].until
        /\ seg'[s].mark = seg[s].mark
        /\ seg'[s].status = "running" => seg[s].status = "running"
    BY <1>3, <1>4 DEF now
  <2> HIDE DEF eps
  <2> QED BY <1>1, <1>4, <1>7, <2>1, ActivityKeeps
<1>9. CallersSound'
  <2>1. ASSUME NEW d \in Callers \ {c} PROVE SoundCall(caller[d])'
    <3>1. PICK z \in CallerState : z = caller[d] BY Typed
    <3>2. SoundCall(z) BY <3>1 DEF ExtractionInv, CallersSound
    <3> QED BY <1>1, <1>6, <1>7, <1>8, <3>1, <3>2, CallKept DEF SoundCall
  <2>2. s # None BY ExtractionAssumption
  <2>3. SoundCall(caller[c])' BY <1>3, <1>4, <1>5, <1>6, <2>2 DEF SoundCall
  <2> QED BY <2>1, <2>3 DEF CallersSound
<1> QED BY <1>7, <1>8, <1>9 DEF ExtractionInv

-----------------------------------------------------------------------------
(* Enqueuing *)

\* A job that changes while it is not at work, and was not finished, disturbs no worker
\* and no record.
LEMMA JobStep ==
  ASSUME TypeOK, ExtractionInv, TypeOK', NEW j \in JobIds,
         job'[j].status = "pending", job[j].status \in {"none", "pending"},
         job[j].seg # None => job'[j].seg = job[j].seg,
         job'[j].seg # None, SoundSel(job'[j].sel, seg[job'[j].seg].activity),
         job'[j].asked = "full" => job'[j].sel.eps = {} /\ job'[j].sel.limit = EpisodeLimit,
         \A k \in JobIds \ {j} : job'[k] = job[k],
         UNCHANGED <<seg, worker, covered>>
  PROVE  RowsSound' /\ WorkersSound' /\ WindowCovered' /\ BusyHasJob'
<1>1. RowsSound'
  <2>1. /\ job'[j].status # "none" <=> job'[j].seg # None
        /\ job'[j].seg # None => SoundSel(job'[j].sel, seg[job'[j].seg].activity)
        /\ job'[j].asked = "full" => job'[j].sel.eps = {} /\ job'[j].sel.limit = EpisodeLimit
    OBVIOUS
  <2>2. \A k \in JobIds \ {j} :
          /\ job'[k].status # "none" <=> job'[k].seg # None
          /\ job'[k].seg # None => SoundSel(job'[k].sel, seg[job'[k].seg].activity)
          /\ job'[k].asked = "full" => job'[k].sel.eps = {} /\ job'[k].sel.limit = EpisodeLimit
    BY DEF ExtractionInv, RowsSound
  <2> QED BY <2>1, <2>2 DEF ExtractionInv, RowsSound
<1>2. WorkersSound'
  <2>1. ASSUME NEW w \in Workers PROVE SoundWork(w)' BY WorkKept DEF ExtractionInv
  <2> QED BY <2>1 DEF WorkersSound
<1>3. WindowCovered' BY MarksKept DEF ExtractionInv
<1>4. BusyHasJob'
  <2>1. \A k \in JobIds : job[k].status \in Active => job'[k].status \in Active /\ job'[k].seg = job[k].seg
    BY DEF Active, ExtractionInv, RowsSound
  <2> QED BY <2>1, BusyKept DEF ExtractionInv
<1> QED BY <1>1, <1>2, <1>3, <1>4

\* The winner of the race inserts the window it asked for (EnqueueMemoryExtractionJob).
LEMMA InsertKeeps ==
  ASSUME TypeOK, ExtractionInv, NEW c \in Callers, Insert(c)
  PROVE  TypeOK' /\ ExtractionInv'
<1>0. /\ caller[c] \in CallerState /\ SoundCall(caller[c]) /\ caller[c].pc = "insert"
      /\ UNCHANGED <<seg, worker, covered>>
  BY Typed DEF Insert, ExtractionInv, CallersSound
<1>1. CASE Return(c) /\ UNCHANGED job BY <1>0, <1>1, ReturnSound, CallerStep DEF Return
<1>2. ASSUME NEW j \in JobIds, job[j].status = "none", Goto(c, "inserted"),
             job' = [job EXCEPT ![j] = [NoJob EXCEPT !.status = "pending", !.seg = caller[c].seg,
                       !.sel = caller[c].sel, !.asked = caller[c].sel.trigger]]
      PROVE  TypeOK' /\ ExtractionInv'
  <2> DEFINE r == [NoJob EXCEPT !.status = "pending", !.seg = caller[c].seg,
                     !.sel = caller[c].sel, !.asked = caller[c].sel.trigger]
             x == [caller[c] EXCEPT !.pc = "inserted"]
  <2>1. /\ r \in JobRow /\ r.status = "pending" /\ r.seg = caller[c].seg /\ r.sel = caller[c].sel
        /\ r.asked = caller[c].sel.trigger
    <3>1. caller[c].sel \in Selections /\ caller[c].sel.trigger \in Triggers
          /\ caller[c].seg \in Segments \cup {None}
      BY <1>0, SelFields DEF CallerState
    <3> QED BY <3>1, Rests DEF JobRow, Active
  <2>2. job' = [job EXCEPT ![j] = r] BY <1>2
  <2> HIDE DEF r
  <2>3. /\ job' \in [JobIds -> JobRow] /\ job'[j] = r /\ \A k \in JobIds \ {j} : job'[k] = job[k]
    BY <2>1, <2>2, Typed
  <2>4. x \in CallerState /\ x.pc = "inserted" /\ x.seg = caller[c].seg /\ x.sel = caller[c].sel
    BY <1>0 DEF CallerState
  <2>5. caller' = [caller EXCEPT ![c] = x] BY <1>2 DEF Goto
  <2> HIDE DEF x
  <2>6. /\ caller' \in [Callers -> CallerState] /\ caller'[c] = x
        /\ \A d \in Callers \ {c} : caller'[d] = caller[d]
    BY <2>4, <2>5, Typed
  <2>7. TypeOK' BY <1>0, <2>3, <2>6 DEF TypeOK
  <2>8. /\ job[j].seg = None /\ r.seg # None /\ SoundSel(r.sel, seg[r.seg].activity)
        /\ r.asked = "full" => r.sel.eps = {} /\ r.sel.limit = EpisodeLimit
    BY <1>0, <1>2, <2>1 DEF ExtractionInv, RowsSound, SoundCall, SoundSel
  <2>9. RowsSound' /\ WorkersSound' /\ WindowCovered' /\ BusyHasJob'
    <3>1. /\ job'[j].status = "pending" /\ job[j].status \in {"none", "pending"}
          /\ job[j].seg # None => job'[j].seg = job[j].seg
          /\ job'[j].seg # None /\ SoundSel(job'[j].sel, seg[job'[j].seg].activity)
          /\ job'[j].asked = "full" => job'[j].sel.eps = {} /\ job'[j].sel.limit = EpisodeLimit
      BY <1>2, <2>1, <2>3, <2>8
    <3> QED BY <1>0, <2>3, <2>7, <3>1, JobStep
  <2>10. CallersSound'
    <3>1. \A k \in JobIds : job[k].seg # None => job'[k].seg = job[k].seg BY <2>3, <2>8
    <3>2. \A s \in Segments : seg[s].activity <= seg'[s].activity BY <1>0, Numbers
    <3>3. ASSUME NEW d \in Callers \ {c} PROVE SoundCall(caller[d])'
      <4>1. PICK z \in CallerState : z = caller[d] BY Typed
      <4>2. SoundCall(z) BY <4>1 DEF ExtractionInv, CallersSound
      <4> QED BY <2>6, <2>7, <3>1, <3>2, <4>1, <4>2, CallKept DEF SoundCall
    <3>4. SoundCall(caller[c])' BY <1>0, <2>4, <2>6 DEF SoundCall
    <3> QED BY <3>3, <3>4 DEF CallersSound
  <2> QED BY <2>7, <2>9, <2>10 DEF ExtractionInv
<1> QED BY <1>1, <1>2 DEF Insert

\* Marking a segment pending touches its status only.
LEMMA MarkKeeps ==
  ASSUME TypeOK, ExtractionInv, NEW c \in Callers, MarkPending(c)
  PROVE  TypeOK' /\ ExtractionInv'
<1>1. PICK s \in Segments : s = caller[c].seg
  BY Typed DEF MarkPending, ExtractionInv, CallersSound, SoundCall, CallerState
<1> DEFINE x == [seg[s] EXCEPT !.status = "pending"]
<1>2. /\ seg[s] \in SegmentRow /\ UNCHANGED <<job, worker, covered>> /\ seg' = [seg EXCEPT ![s] = x]
      /\ caller' = [caller EXCEPT ![c] = NoCall]
  BY <1>1, Typed DEF MarkPending, Return
<1>3. /\ x \in SegmentRow /\ x.activity = seg[s].activity /\ x.episodes = seg[s].episodes
      /\ x.until = seg[s].until /\ x.mark = seg[s].mark /\ x.status = "pending"
  BY <1>2 DEF SegmentRow
<1> HIDE DEF x
<1>4. /\ seg' \in [Segments -> SegmentRow] /\ seg'[s] = x
      /\ \A t \in Segments \ {s} : seg'[t] = seg[t]
  BY <1>2, <1>3, SegMoves
<1>5. /\ caller' \in [Callers -> CallerState] /\ \A d \in Callers : caller'[d] = caller[d] \/ caller'[d] = NoCall
  BY <1>2, Rests, Typed
<1>6. TypeOK' BY <1>2, <1>4, <1>5 DEF TypeOK
<1>7. \A t \in Segments :
        /\ seg'[t].activity = seg[t].activity /\ seg'[t].episodes = seg[t].episodes
        /\ seg'[t].until = seg[t].until /\ seg'[t].mark = seg[t].mark
        /\ seg'[t].until <= seg[t].activity /\ seg[t].activity <= seg'[t].activity
        /\ seg'[t].status = "running" => seg[t].status = "running"
  BY <1>3, <1>4, Numbers DEF ExtractionInv, RowsSound
<1>8. RowsSound' BY <1>2, <1>7, RowsKept DEF ExtractionInv
<1>9. CallersSound' BY <1>2, <1>5, <1>6, <1>7, CallersKept DEF ExtractionInv
<1>10. WorkersSound'
  <2>1. ASSUME NEW w \in Workers PROVE SoundWork(w)' BY <1>2, <1>6, <1>7, WorkKept DEF ExtractionInv
  <2> QED BY <2>1 DEF WorkersSound
<1>11. WindowCovered' BY <1>2, <1>6, <1>7, MarksKept DEF ExtractionInv
<1>12. BusyHasJob' BY <1>2, <1>7, BusyKept DEF ExtractionInv
<1> QED BY <1>6, <1>8, <1>9, <1>10, <1>11, <1>12 DEF ExtractionInv

\* A merge of two selections is one of their segment, and selects everything if the request
\* does, whatever happened to the job since it was looked up (mergeActiveMemoryExtractionJob).
LEMMA MergedSound ==
  ASSUME NEW ask \in Selections, NEW seen \in Selections, NEW activity \in Nat,
         SoundSel(ask, activity), SoundSel(seen, activity)
  PROVE  /\ Merged(ask, seen) \in Selections /\ SoundSel(Merged(ask, seen), activity)
         /\ ask.trigger = "full" => /\ Merged(ask, seen).eps = {}
                                    /\ Merged(ask, seen).limit = EpisodeLimit
<1> DEFINE m == Merged(ask, seen)
<1>1. /\ m.trigger = IF "manual_pin" \in {ask.trigger, seen.trigger} THEN "manual_pin" ELSE "full"
      /\ m.eps = MergedEpisodes(ask, seen)
      /\ m.until = Larger(ask.until, seen.until) /\ m.limit = Larger(ask.limit, seen.limit)
  BY DEF Merged
<1>2. /\ ask.trigger \in Triggers /\ ask.eps \in SUBSET Instants /\ ask.until \in 0 .. MaxActivity
      /\ ask.limit \in {1, EpisodeLimit} /\ seen.trigger \in Triggers /\ seen.eps \in SUBSET Instants
      /\ seen.until \in 0 .. MaxActivity /\ seen.limit \in {1, EpisodeLimit}
  BY SelFields
<1>3. m.trigger \in Triggers /\ MergedEpisodes(ask, seen) \in SUBSET Instants
  BY <1>1, <1>2 DEF MergedEpisodes, Triggers
<1>4. /\ m.until \in 0 .. MaxActivity /\ (m.until = ask.until \/ m.until = seen.until)
      /\ m.limit \in {1, EpisodeLimit}
      /\ ask.limit = EpisodeLimit => m.limit = EpisodeLimit
  BY <1>1, <1>2, ExtractionAssumption DEF Larger
<1>5. m \in Selections BY <1>1, <1>3, <1>4 DEF Selections, Merged
<1>6. ask.trigger = "full" => m.eps = {} /\ m.limit = EpisodeLimit
  BY <1>1, <1>2, <1>4 DEF MergedEpisodes, SoundSel, Triggers
<1>7. m.trigger = "full" => ask.trigger = "full" BY <1>1, <1>2 DEF Triggers
<1>8. m.until <= activity BY <1>4 DEF SoundSel
<1> HIDE DEF m
<1>9. SoundSel(m, activity) BY <1>6, <1>7, <1>8 DEF SoundSel
<1> QED BY <1>5, <1>6, <1>9 DEF m

\* A merge leaves the rows sound, whatever happened to the job since it was looked up.
LEMMA MergeKeeps ==
  ASSUME TypeOK, ExtractionInv, NEW c \in Callers, Merge(c)
  PROVE  TypeOK' /\ ExtractionInv'
<1>0. /\ caller[c] \in CallerState /\ SoundCall(caller[c]) /\ caller[c].pc = "merge"
      /\ UNCHANGED <<seg, worker, covered>> /\ caller' = [caller EXCEPT ![c] = NoCall]
  BY Typed DEF Merge, Return, ExtractionInv, CallersSound
<1>1. PICK j \in JobIds : j = caller[c].job BY <1>0 DEF SoundCall, CallerState
<1>2. CASE job[j].status # "pending"
  <2>1. job' = job BY <1>1, <1>2 DEF Merge
  <2> QED BY <1>0, <2>1, ReturnSound, CallerStep
<1>3. CASE job[j].status = "pending"
  <2> DEFINE ask == caller[c].sel
             sel == Merged(ask, caller[c].seen)
             r == [job[j] EXCEPT !.sel = sel, !.asked = ask.trigger, !.wait = 0]
  <2>1. job[j] \in JobRow /\ job' = [job EXCEPT ![j] = r]
    BY <1>1, <1>3, Typed DEF Merge, JobRow
  <2>2. /\ ask \in Selections /\ caller[c].seen \in Selections /\ ask.trigger \in Triggers
        /\ caller[c].seg \in Segments \cup {None}
    BY <1>0, SelFields DEF CallerState
  <2>3. /\ caller[c].seg # None /\ job[j].seg = caller[c].seg
        /\ SoundSel(ask, seg[caller[c].seg].activity)
        /\ SoundSel(caller[c].seen, seg[caller[c].seg].activity)
    BY <1>0, <1>1 DEF SoundCall
  <2>4. /\ sel \in Selections /\ SoundSel(sel, seg[caller[c].seg].activity)
        /\ ask.trigger = "full" => sel.eps = {} /\ sel.limit = EpisodeLimit
    <3>1. seg[caller[c].seg].activity \in Nat BY <2>2, <2>3, Numbers
    <3> QED BY <2>2, <2>3, <3>1, MergedSound
  <2> HIDE DEF ask, sel
  <2>6. /\ r \in JobRow /\ r.seg = job[j].seg /\ r.status = job[j].status
        /\ r.sel = sel /\ r.asked = ask.trigger
    BY <2>1, <2>2, <2>4 DEF JobRow
  <2> HIDE DEF r
  <2>7. /\ job' \in [JobIds -> JobRow] /\ job'[j] = r /\ \A k \in JobIds \ {j} : job'[k] = job[k]
    BY <2>1, <2>6, Typed
  <2>8. /\ caller' \in [Callers -> CallerState]
        /\ \A d \in Callers : caller'[d] = caller[d] \/ caller'[d] = NoCall
    BY <1>0, Rests, Typed
  <2>9. TypeOK' BY <1>0, <2>7, <2>8 DEF TypeOK
  <2>10. /\ job'[j].status = "pending" /\ job[j].status \in {"none", "pending"}
         /\ job[j].seg # None => job'[j].seg = job[j].seg
         /\ job'[j].seg # None /\ SoundSel(job'[j].sel, seg[job'[j].seg].activity)
         /\ job'[j].asked = "full" => job'[j].sel.eps = {} /\ job'[j].sel.limit = EpisodeLimit
    BY <1>3, <2>3, <2>4, <2>6, <2>7
  <2>11. RowsSound' /\ WorkersSound' /\ WindowCovered' /\ BusyHasJob'
    BY <1>0, <2>7, <2>9, <2>10, JobStep
  <2>12. CallersSound'
    <3>1. \A k \in JobIds : job[k].seg # None => job'[k].seg = job[k].seg BY <2>7, <2>10
    <3>2. \A s \in Segments : seg[s].activity <= seg'[s].activity BY <1>0, Numbers
    <3> QED BY <2>8, <2>9, <3>1, <3>2, CallersKept DEF ExtractionInv
  <2> QED BY <2>9, <2>11, <2>12 DEF ExtractionInv
<1> QED BY <1>2, <1>3

-----------------------------------------------------------------------------
(* Workers *)

\* A worker's job, and the segment of a job that is not free.
LEMMA Holding ==
  ASSUME TypeOK, ExtractionInv
  PROVE  /\ \A w \in Workers : worker[w].pc # "idle" =>
              /\ worker[w].job \in JobIds /\ SoundWork(w) /\ worker[w] \in WorkerState
         /\ \A j \in JobIds : /\ job[j] \in JobRow
                              /\ job[j].status # "none" => job[j].seg \in Segments
                              /\ job[j].seg \in Segments => job[j].sel.until <= seg[job[j].seg].activity
  BY Typed, ExtractionAssumption DEF ExtractionInv, WorkersSound, SoundWork, RowsSound, SoundSel,
       WorkerState, JobRow

\* A worker goes on, and what it has newly read is added.
LEMMA WorkerStep ==
  ASSUME TypeOK, ExtractionInv, NEW w \in Workers, NEW x \in WorkerState,
         worker' = [worker EXCEPT ![w] = x], SoundWork(w)',
         covered' \in [Segments -> SUBSET Instants], \A s \in Segments : covered[s] \subseteq covered'[s],
         UNCHANGED <<seg, job, caller>>
  PROVE  TypeOK' /\ ExtractionInv'
<1>1. /\ worker' \in [Workers -> WorkerState]
      /\ \A v \in Workers \ {w} : worker'[v] = worker[v]
  BY Typed
<1>2. TypeOK' BY <1>1 DEF TypeOK
<1>2a. \A s \in Segments : seg'[s] = seg[s] OBVIOUS
<1>3. RowsSound' /\ CallersSound' /\ BusyHasJob'
  BY DEF ExtractionInv, RowsSound, CallersSound, SoundCall, BusyHasJob, ActiveJobs
<1>4. WindowCovered' BY <1>2, <1>2a, MarksKept DEF ExtractionInv
<1>5. WorkersSound'
  <2>1. ASSUME NEW v \in Workers \ {w} PROVE SoundWork(v)' BY <1>1, <1>2, WorkKept DEF ExtractionInv
  <2> QED BY <2>1 DEF WorkersSound
<1> QED BY <1>2, <1>3, <1>4, <1>5 DEF ExtractionInv

\* A worker that rests leaves rows and records.
LEMMA LeaveKeeps ==
  ASSUME TypeOK, ExtractionInv, NEW w \in Workers, Leave(w), UNCHANGED <<seg, job, caller, covered>>
  PROVE  TypeOK' /\ ExtractionInv'
<1>1. worker' = [worker EXCEPT ![w] = NoWork] /\ worker'[w] = NoWork BY Typed DEF Leave
<1>2. SoundWork(w)' BY <1>1, Rests DEF SoundWork
<1> QED BY <1>1, <1>2, Rests, Typed, WorkerStep

\* The outcome of an extraction: success and "skipped" mean that enough of the window is read.
LEMMA ExtractKeeps ==
  ASSUME TypeOK, ExtractionInv, NEW w \in Workers, Extract(w)
  PROVE  TypeOK' /\ ExtractionInv'
<1>1. /\ worker[w].pc = "running" /\ UNCHANGED <<seg, job, caller>>
  BY DEF Extract
<1>2. PICK j \in JobIds : j = worker[w].job BY <1>1, Holding
<1> DEFINE s == job[j].seg
           sel == worker[w].sel
<1>3. PICK pc \in {"succeeded", "skipped", "failing"} :
        /\ Outcome(w, pc)
        /\ \/ pc = "succeeded" /\ \E X \in Readings(s, sel) : covered' = [covered EXCEPT ![s] = @ \cup X]
           \/ pc = "skipped" /\ covered' = covered /\ \E X \in Readings(s, sel) : X \subseteq covered[s]
           \/ pc = "failing" /\ covered' = covered
  BY <1>2 DEF Extract
<1> DEFINE x == [worker[w] EXCEPT !.pc = pc]
<1>4. worker' = [worker EXCEPT ![w] = x] BY <1>3 DEF Outcome
<1>5. /\ worker[w] \in WorkerState /\ SoundWork(w) /\ sel \in Selections
  BY <1>1, Holding DEF WorkerState
<1>6. x \in WorkerState /\ x.pc = pc /\ x.job = j /\ x.sel = sel
  BY <1>2, <1>5 DEF WorkerState
<1> HIDE DEF x
<1>7. worker'[w] = x BY <1>4, <1>6, Typed
<1>8. s \in Segments => \A X \in Readings(s, sel) : X \subseteq Instants
  BY Numbers DEF Readings, Selected
<1>9. /\ covered' \in [Segments -> SUBSET Instants]
      /\ \A t \in Segments : covered[t] \subseteq covered'[t]
      /\ s \in Segments /\ pc # "failing" => \E X \in Readings(s, sel) : X \subseteq covered'[s]
  <2>1. CASE s \in Segments BY <1>3, <1>8, <2>1, Typed
  <2>2. CASE s \notin Segments
    <3>1. covered' = covered BY <1>3, <2>2, Typed
    <3> QED BY <2>2, <3>1, Typed
  <2> QED BY <2>1, <2>2
<1>10. SoundWork(w)'
  <2>1. SUFFICES ASSUME job[j].status = "running", job[j].by = w
                 PROVE  /\ sel = job[j].sel
                        /\ pc \in {"succeeded", "skipped"} /\ job[j].asked = "full" =>
                             Enough(seg[s].episodes, covered'[s], sel.until)
    <3>1. j # None BY ExtractionAssumption
    <3> QED BY <1>1, <1>6, <1>7, <3>1 DEF SoundWork, Holds, ReadEnough
  <2>2. sel = job[j].sel
    BY <1>1, <1>2, <1>5, <2>1 DEF SoundWork, Holds
  <2>3. s \in Segments BY <2>1, Holding
  <2>4. job[j].asked = "full" => sel.eps = {} /\ sel.limit = EpisodeLimit
    BY <2>2 DEF ExtractionInv, RowsSound
  <2>5. covered'[s] \in SUBSET Instants BY <1>9, <2>3
  <2>6. ASSUME pc \in {"succeeded", "skipped"}, job[j].asked = "full"
        PROVE  Enough(seg[s].episodes, covered'[s], sel.until)
    <3>1. PICK X \in Readings(s, sel) : X \subseteq covered'[s] BY <1>9, <2>3, <2>6
    <3> HIDE DEF s, sel
    <3> QED BY <1>5, <2>3, <2>4, <2>5, <2>6, <3>1, ReadingEnough
  <2> QED BY <2>2, <2>6
<1> QED BY <1>1, <1>4, <1>6, <1>9, <1>10, WorkerStep

\* A mirror that cannot be written fails the job.
LEMMA MirrorKeeps ==
  ASSUME TypeOK, ExtractionInv, NEW w \in Workers, MirrorSyncFails(w)
  PROVE  TypeOK' /\ ExtractionInv'
<1> DEFINE x == [worker[w] EXCEPT !.pc = "failing"]
<1>1. /\ worker' = [worker EXCEPT ![w] = x] /\ worker[w].pc # "idle"
      /\ UNCHANGED <<seg, job, caller, covered>>
  BY DEF MirrorSyncFails, Outcome
<1>2. worker[w] \in WorkerState /\ SoundWork(w) BY <1>1, Holding
<1>3. /\ x \in WorkerState /\ x.pc = "failing" /\ x.job = worker[w].job /\ x.sel = worker[w].sel
  BY <1>2 DEF WorkerState
<1> HIDE DEF x
<1>4. worker'[w] = x BY <1>1, <1>3, Typed
<1>5. SoundWork(w)' BY <1>1, <1>2, <1>3, <1>4 DEF SoundWork, Holds
<1> QED BY <1>1, <1>3, <1>5, Typed, WorkerStep

\* A claim takes a job from whoever held it, as it stands (ClaimMemoryExtractionJobs).
LEMMA ClaimKeeps ==
  ASSUME TypeOK, ExtractionInv, NEW w \in Workers, NEW j \in JobIds, Claim(w, j)
  PROVE  TypeOK' /\ ExtractionInv'
<1>1. /\ job[j].status \in Active /\ job[j] \in JobRow /\ UNCHANGED <<caller, covered>>
  BY Typed DEF Claim, Claimable, Active
<1>2. PICK s \in Segments : s = job[j].seg BY <1>1, Holding DEF Active
<1> DEFINE r == [job[j] EXCEPT !.status = "running", !.attempts = @ + 1, !.by = w, !.lease = ClaimTTL]
           y == [seg[s] EXCEPT !.status = "running"]
           x == [pc |-> "running", job |-> j, sel |-> job[j].sel, attempts |-> job[j].attempts + 1]
<1>3. /\ job' = [job EXCEPT ![j] = r] /\ seg' = [seg EXCEPT ![s] = y]
      /\ worker' = [worker EXCEPT ![w] = x]
  BY <1>1, <1>2, Typed DEF Claim, JobRow
<1>4. job[j].attempts + 1 \in Nat /\ ClaimTTL \in Nat
  BY <1>1, ExtractionAssumption DEF JobRow
<1>5. /\ r \in JobRow /\ r.status = "running" /\ r.by = w /\ r.seg = s /\ r.sel = job[j].sel
      /\ r.asked = job[j].asked
  BY <1>1, <1>2, <1>4 DEF JobRow, Active
<1>6. /\ y \in SegmentRow /\ y.activity = seg[s].activity /\ y.episodes = seg[s].episodes
      /\ y.until = seg[s].until /\ y.mark = seg[s].mark /\ y.status = "running"
  BY Typed DEF SegmentRow
<1>7. x \in WorkerState /\ x.pc = "running" /\ x.job = j /\ x.sel = job[j].sel
  BY <1>1, <1>4 DEF WorkerState, JobRow
<1> HIDE DEF r, y, x
<1>8. /\ job' \in [JobIds -> JobRow] /\ job'[j] = r /\ \A k \in JobIds \ {j} : job'[k] = job[k]
  BY <1>3, <1>5, Typed
<1>9. /\ seg' \in [Segments -> SegmentRow] /\ seg'[s] = y /\ \A t \in Segments \ {s} : seg'[t] = seg[t]
  BY <1>3, <1>6, SegMoves
<1>10. /\ worker' \in [Workers -> WorkerState] /\ worker'[w] = x
       /\ \A v \in Workers \ {w} : worker'[v] = worker[v]
  BY <1>3, <1>7, Typed
<1>11. TypeOK' BY <1>1, <1>8, <1>9, <1>10 DEF TypeOK
<1>12. \A t \in Segments :
         /\ seg'[t].activity = seg[t].activity /\ seg'[t].episodes = seg[t].episodes
         /\ seg'[t].until = seg[t].until /\ seg'[t].mark = seg[t].mark
         /\ seg'[t].until <= seg[t].activity /\ seg[t].activity <= seg'[t].activity
  BY <1>6, <1>9, Numbers DEF ExtractionInv, RowsSound
<1>13. \A k \in JobIds :
         /\ job'[k].seg = job[k].seg /\ job'[k].sel = job[k].sel /\ job'[k].asked = job[k].asked
         /\ job'[k].status = "none" <=> job[k].status = "none"
         /\ job[k].status \in {"succeeded", "skipped"} => job'[k].status = job[k].status
  BY <1>1, <1>2, <1>5, <1>8 DEF Active
<1>14. RowsSound' BY <1>12, <1>13, RowsKept DEF ExtractionInv
<1>15. CallersSound' BY <1>1, <1>11, <1>12, <1>13, CallersKept DEF ExtractionInv
<1>16. WindowCovered' BY <1>1, <1>11, <1>12, MarksKept DEF ExtractionInv
<1>17. WorkersSound'
  <2>1. ASSUME NEW v \in Workers \ {w} PROVE SoundWork(v)'
    <3>1. \A k \in JobIds : k = worker[v].job /\ job'[k].status = "running" /\ job'[k].by = v =>
            /\ job[k].status = "running" /\ job[k].by = v
            /\ job'[k].seg = job[k].seg /\ job'[k].sel = job[k].sel /\ job'[k].asked = job[k].asked
      BY <1>5, <1>8
    <3>2. worker'[v] = worker[v] BY <1>10
    <3> QED BY <1>1, <1>11, <1>12, <3>1, <3>2, WorkKept DEF ExtractionInv
  <2>2. SoundWork(w)'
    <3>1. j # None BY ExtractionAssumption
    <3> QED BY <1>5, <1>7, <1>8, <1>10, <3>1 DEF SoundWork
  <2> QED BY <2>1, <2>2 DEF WorkersSound
<1>18. BusyHasJob'
  <2>1. j \in ActiveJobs(s)' BY <1>5, <1>8 DEF ActiveJobs, Active
  <2>2. \A t \in Segments \ {s} : seg'[t] = seg[t] /\ ActiveJobs(t) \subseteq ActiveJobs(t)'
    BY <1>2, <1>8, <1>9 DEF ActiveJobs
  <2> QED BY <2>1, <2>2 DEF ExtractionInv, BusyHasJob
<1> QED BY <1>11, <1>14, <1>15, <1>16, <1>17, <1>18 DEF ExtractionInv

\* A job that is settled, or sent back, by the worker that holds it: the segment is no
\* longer busy, and what is recorded is the window the worker has read.
LEMMA SettleKeeps ==
  ASSUME TypeOK, ExtractionInv, NEW w \in Workers, worker[w].pc # "idle", Holds(w),
         NEW j \in JobIds, j = worker[w].job, NEW s \in Segments, s = job[j].seg,
         NEW r \in JobRow, NEW y \in SegmentRow,
         job' = [job EXCEPT ![j] = r], seg' = [seg EXCEPT ![s] = y], Leave(w),
         UNCHANGED <<caller, covered>>,
         r.seg = s, r.sel = job[j].sel, r.asked = job[j].asked,
         r.status \in {"pending"} \cup Settled,
         y.activity = seg[s].activity, y.episodes = seg[s].episodes, y.status # "running",
         \/ y.until = seg[s].until /\ y.mark = seg[s].mark
         \/ /\ y.until = worker[w].sel.until /\ y.mark = job[j].asked
            /\ worker[w].pc \in {"succeeded", "skipped"}
  PROVE  TypeOK' /\ ExtractionInv'
<1>1. /\ job' \in [JobIds -> JobRow] /\ job'[j] = r /\ \A k \in JobIds \ {j} : job'[k] = job[k]
  BY Typed
<1>2. /\ seg' \in [Segments -> SegmentRow] /\ seg'[s] = y /\ \A t \in Segments \ {s} : seg'[t] = seg[t]
  BY SegMoves
<1>3. /\ worker' \in [Workers -> WorkerState] /\ worker'[w] = NoWork
      /\ \A v \in Workers \ {w} : worker'[v] = worker[v]
  BY Typed, Rests DEF Leave
<1>4. TypeOK' BY <1>1, <1>2, <1>3 DEF TypeOK
<1>5. job[j].status = "running" BY DEF Holds
<1>6. /\ worker[w].sel = job[j].sel
      /\ worker[w].pc \in {"succeeded", "skipped"} /\ job[j].asked = "full" =>
           Enough(seg[s].episodes, covered[s], worker[w].sel.until)
  BY DEF ExtractionInv, WorkersSound, SoundWork, ReadEnough
<1>7. y.until <= seg[s].activity BY <1>6, Holding DEF ExtractionInv, RowsSound
<1>8. \A t \in Segments :
        /\ seg'[t].activity = seg[t].activity /\ seg'[t].episodes = seg[t].episodes
        /\ seg'[t].until <= seg[t].activity /\ seg[t].activity <= seg'[t].activity
  <2>1. \A t \in Segments : seg[t].activity \in Nat /\ seg[t].until <= seg[t].activity
    BY Numbers DEF ExtractionInv, RowsSound
  <2>2. \A t \in Segments : seg'[t].activity = seg[t].activity /\ seg'[t].episodes = seg[t].episodes
    BY <1>2
  <2>3. \A t \in Segments : seg'[t].until <= seg[t].activity BY <1>2, <1>7, <2>1
  <2> QED BY <2>1, <2>2, <2>3
<1>9. \A k \in JobIds :
        /\ job'[k].seg = job[k].seg /\ job'[k].sel = job[k].sel /\ job'[k].asked = job[k].asked
        /\ job'[k].status = "none" <=> job[k].status = "none"
        /\ job[k].status \in {"succeeded", "skipped"} => job'[k].status = job[k].status
  BY <1>1, <1>5 DEF Settled
<1>10. RowsSound' BY <1>8, <1>9, RowsKept DEF ExtractionInv
<1>11. CallersSound' BY <1>4, <1>8, <1>9, CallersKept DEF ExtractionInv
<1>12. WorkersSound'
  <2>1. ASSUME NEW v \in Workers \ {w} PROVE SoundWork(v)'
    <3>1. \A k \in JobIds : k = worker[v].job /\ job'[k].status = "running" /\ job'[k].by = v =>
            /\ job[k].status = "running" /\ job[k].by = v
            /\ job'[k].seg = job[k].seg /\ job'[k].sel = job[k].sel /\ job'[k].asked = job[k].asked
      BY <1>1 DEF Settled
    <3>2. worker'[v] = worker[v] BY <1>3
    <3> QED BY <1>4, <1>8, <3>1, <3>2, WorkKept DEF ExtractionInv
  <2>2. SoundWork(w)' BY <1>3, Rests DEF SoundWork
  <2> QED BY <2>1, <2>2 DEF WorkersSound
<1>13. WindowCovered'
  <2>1. CASE y.until = seg[s].until /\ y.mark = seg[s].mark
    <3>1. \A t \in Segments : seg'[t].until = seg[t].until /\ seg'[t].mark = seg[t].mark
      BY <1>2, <2>1
    <3> QED BY <1>4, <1>8, <3>1, MarksKept DEF ExtractionInv
  <2>2. CASE /\ y.until = worker[w].sel.until /\ y.mark = job[j].asked
             /\ worker[w].pc \in {"succeeded", "skipped"}
    <3>1. SUFFICES ASSUME NEW t \in Segments, seg'[t].mark # "manual_pin"
                   PROVE  Enough(seg[t].episodes, covered[t], seg'[t].until)
      BY <1>8 DEF WindowCovered, ReadEnough
    <3>2. CASE t = s
      <4>1. job[j].asked = "full"
        <5>1. job[j].asked \in Triggers BY Typed DEF JobRow
        <5> QED BY <1>2, <2>2, <3>1, <3>2, <5>1 DEF Triggers
      <4> QED BY <1>2, <1>6, <2>2, <3>2, <4>1
    <3>3. CASE t # s
      <4>1. seg'[t] = seg[t] BY <1>2, <3>3
      <4> QED BY <3>1, <4>1 DEF ExtractionInv, WindowCovered, ReadEnough
    <3> QED BY <3>2, <3>3
  <2> QED BY <2>1, <2>2
<1>14. BusyHasJob'
  <2>1. \A t \in Segments \ {s} : seg'[t] = seg[t] /\ ActiveJobs(t) \subseteq ActiveJobs(t)'
    BY <1>1, <1>2 DEF ActiveJobs
  <2> QED BY <1>2, <2>1 DEF ExtractionInv, BusyHasJob
<1> QED BY <1>4, <1>10, <1>11, <1>12, <1>13, <1>14 DEF ExtractionInv

\* A success is recorded, unless the claim was lost (CompleteMemoryExtractionJob).
LEMMA CompleteKeeps ==
  ASSUME TypeOK, ExtractionInv, NEW w \in Workers, Complete(w)
  PROVE  TypeOK' /\ ExtractionInv'
<1>1. /\ worker[w].pc \in {"succeeded", "skipped"} /\ Leave(w) /\ UNCHANGED <<caller, covered>>
  BY DEF Complete
<1>2. CASE ~Holds(w)
  <2>1. UNCHANGED <<seg, job>> BY <1>2 DEF Complete
  <2> QED BY <1>1, <2>1, LeaveKeeps
<1>3. CASE Holds(w)
  <2>1. PICK j \in JobIds : j = worker[w].job BY <1>1, Holding
  <2>2. job[j].status = "running" BY <1>3, <2>1 DEF Holds
  <2>3. PICK s \in Segments : s = job[j].seg BY <2>2, Holding
  <2>4. /\ job[j] \in JobRow /\ seg[s] \in SegmentRow /\ worker[w].sel.until \in 0 .. MaxActivity
        /\ job[j].asked \in Triggers
    BY <1>1, Typed, SelFields DEF WorkerState, JobRow
  <2> DEFINE r == [job[j] EXCEPT !.status = worker[w].pc, !.by = None, !.lease = 0]
             end == IF worker[w].sel.until > 0 /\ worker[w].sel.until < seg[s].activity
                    THEN "stale" ELSE worker[w].pc
             y == [seg[s] EXCEPT !.until = worker[w].sel.until, !.fails = 0, !.mark = job[j].asked,
                                 !.status = end]
  <2>5. job' = [job EXCEPT ![j] = r] BY <1>3, <2>1, <2>4 DEF Complete, JobRow
  <2>6. seg' = [seg EXCEPT ![s] = y] BY <1>3, <2>1, <2>3, <2>4 DEF Complete, Extracted, SegmentRow
  <2>7. end \in {"succeeded", "skipped", "stale"} BY <1>1
  <2> HIDE DEF end
  <2>8. /\ r \in JobRow /\ r.seg = s /\ r.sel = job[j].sel /\ r.asked = job[j].asked
        /\ r.status = worker[w].pc
    BY <1>1, <2>3, <2>4 DEF JobRow, Settled
  <2>9. /\ y \in SegmentRow /\ y.activity = seg[s].activity /\ y.episodes = seg[s].episodes
        /\ y.until = worker[w].sel.until /\ y.mark = job[j].asked /\ y.status # "running"
    BY <2>4, <2>7 DEF SegmentRow
  <2> HIDE DEF r, y
  <2>10. r.status \in {"pending"} \cup Settled /\ worker[w].pc # "idle" BY <1>1, <2>8 DEF Settled
  <2> QED BY <1>1, <1>3, <2>1, <2>3, <2>5, <2>6, <2>8, <2>9, <2>10, SettleKeeps
<1> QED BY <1>2, <1>3

\* A failure is recorded, unless the claim was lost (FailMemoryExtractionJob).
LEMMA FailKeeps ==
  ASSUME TypeOK, ExtractionInv, NEW w \in Workers, Fail(w)
  PROVE  TypeOK' /\ ExtractionInv'
<1>1. /\ worker[w].pc = "failing" /\ Leave(w) /\ UNCHANGED <<caller, covered>>
  BY DEF Fail
<1>2. CASE ~Holds(w)
  <2>1. UNCHANGED <<seg, job>> BY <1>2 DEF Fail
  <2> QED BY <1>1, <2>1, LeaveKeeps
<1>3. CASE Holds(w)
  <2>1. PICK j \in JobIds : j = worker[w].job BY <1>1, Holding
  <2>2. job[j].status = "running" BY <1>3, <2>1 DEF Holds
  <2>3. PICK s \in Segments : s = job[j].seg BY <2>2, Holding
  <2>4. job[j] \in JobRow /\ seg[s] \in SegmentRow /\ seg[s].fails + 1 \in Nat /\ Backoff \in Nat
    <3>1. job[j] \in JobRow /\ seg[s] \in SegmentRow BY Typed
    <3>2. seg[s].fails \in Nat BY <3>1 DEF SegmentRow
    <3> QED BY <3>1, <3>2, ExtractionAssumption
  <2> DEFINE end == IF Retry(w) THEN "pending" ELSE "failed"
             wait == IF Retry(w) THEN Backoff ELSE job[j].wait
             r == [job[j] EXCEPT !.status = end, !.wait = wait, !.by = None, !.lease = 0]
             y == [seg[s] EXCEPT !.status = "failed", !.fails = @ + 1]
  <2>5. /\ job' = [job EXCEPT ![j].status = end, ![j].wait = wait, ![j].by = None, ![j].lease = 0]
        /\ seg' = [seg EXCEPT ![s].status = "failed", ![s].fails = @ + 1]
    BY <1>3, <2>1, <2>3 DEF Fail
  <2>6. end \in {"pending", "failed"} /\ wait \in Nat
    <3>1. job[j].wait \in Nat BY <2>4 DEF JobRow
    <3> QED BY <2>4, <3>1
  <2> HIDE DEF end, wait
  <2>7. job' = [job EXCEPT ![j] = r] /\ seg' = [seg EXCEPT ![s] = y]
    BY <2>4, <2>5 DEF JobRow, SegmentRow
  <2>8. /\ r \in JobRow /\ r.seg = s /\ r.sel = job[j].sel /\ r.asked = job[j].asked
        /\ r.status = end
    BY <2>3, <2>4, <2>6 DEF JobRow, Active, Settled
  <2>9. /\ y \in SegmentRow /\ y.activity = seg[s].activity /\ y.episodes = seg[s].episodes
        /\ y.until = seg[s].until /\ y.mark = seg[s].mark /\ y.status # "running"
    BY <2>4 DEF SegmentRow
  <2> HIDE DEF r, y
  <2>10. r.status \in {"pending"} \cup Settled /\ worker[w].pc # "idle"
    BY <1>1, <2>6, <2>8 DEF Settled
  <2> QED BY <1>1, <1>3, <2>1, <2>3, <2>7, <2>8, <2>9, <2>10, SettleKeeps
<1> QED BY <1>2, <1>3

\* A crash leaves nobody busy; rows and records survive it.
LEMMA CrashKeeps ==
  ASSUME TypeOK, ExtractionInv, Crash
  PROVE  TypeOK' /\ ExtractionInv'
<1>1. /\ \A w \in Workers : worker'[w] = NoWork
      /\ \A c \in Callers : caller'[c] = NoCall
      /\ worker' \in [Workers -> WorkerState] /\ caller' \in [Callers -> CallerState]
      /\ UNCHANGED <<seg, job, covered>>
  BY Rests DEF Crash
<1>2. TypeOK' BY <1>1 DEF TypeOK
<1>3. RowsSound' /\ WindowCovered' /\ BusyHasJob'
  BY <1>1 DEF ExtractionInv, RowsSound, WindowCovered, ReadEnough, BusyHasJob, ActiveJobs
<1>4. CallersSound' BY <1>1, Rests DEF CallersSound, SoundCall
<1>5. WorkersSound' BY <1>1, Rests DEF WorkersSound, SoundWork
<1> QED BY <1>2, <1>3, <1>4, <1>5 DEF ExtractionInv

\* Time passes over waits and leases only.
LEMMA TickKeeps ==
  ASSUME TypeOK, ExtractionInv, Tick
  PROVE  TypeOK' /\ ExtractionInv'
<1>1. UNCHANGED <<seg, worker, caller, covered>> BY DEF Tick
<1>2. \A j \in JobIds :
        /\ job'[j] \in JobRow
        /\ job'[j].seg = job[j].seg /\ job'[j].sel = job[j].sel /\ job'[j].asked = job[j].asked
        /\ job'[j].status = job[j].status /\ job'[j].by = job[j].by
  <2>1. TAKE j \in JobIds
  <2> DEFINE r == [job[j] EXCEPT !.wait = Dec(@), !.lease = Dec(@)]
  <2>2. job'[j] = r BY DEF Tick
  <2>3. job[j] \in JobRow BY Typed
  <2>4. Dec(job[j].wait) \in Nat /\ Dec(job[j].lease) \in Nat BY <2>3 DEF JobRow, Dec
  <2> QED BY <2>2, <2>3, <2>4 DEF JobRow
<1>3. job' \in [JobIds -> JobRow] BY <1>2 DEF Tick
<1>4. TypeOK' BY <1>1, <1>3 DEF TypeOK
<1>5. \A t \in Segments :
        /\ seg'[t].activity = seg[t].activity /\ seg'[t].episodes = seg[t].episodes
        /\ seg'[t].until <= seg[t].activity /\ seg[t].activity <= seg'[t].activity
  BY <1>1, Numbers DEF ExtractionInv, RowsSound
<1>6. RowsSound' BY <1>2, <1>5, RowsKept DEF ExtractionInv
<1>7. CallersSound' BY <1>1, <1>2, <1>4, <1>5, CallersKept DEF ExtractionInv
<1>8. WorkersSound'
  <2>1. ASSUME NEW w \in Workers PROVE SoundWork(w)' BY <1>1, <1>2, <1>4, WorkKept DEF ExtractionInv
  <2> QED BY <2>1 DEF WorkersSound
<1>9. WindowCovered' BY <1>1, <1>4, MarksKept DEF ExtractionInv
<1>10. BusyHasJob' BY <1>1, <1>2, BusyKept DEF ExtractionInv
<1> QED BY <1>4, <1>6, <1>7, <1>8, <1>9, <1>10 DEF ExtractionInv

-----------------------------------------------------------------------------
(* The queue *)

\* Nothing is recorded and nobody is busy at the start.
LEMMA Starts == Init => TypeOK /\ ExtractionInv
<1> SUFFICES ASSUME Init PROVE TypeOK /\ ExtractionInv OBVIOUS
<1>1. MaxActivity \in Nat /\ 0 \in 0 .. MaxActivity BY ExtractionAssumption
<1>2. TypeOK BY <1>1, Rests DEF Init, TypeOK, SegmentRow
<1>3. \A s \in Segments : /\ seg[s].status = "never" /\ seg[s].activity = 0 /\ seg[s].episodes = {}
                          /\ seg[s].until = 0
  BY DEF Init
<1>4. \A j \in JobIds : job[j] = NoJob BY DEF Init
<1>5. RowsSound BY <1>3, <1>4, Rests DEF RowsSound
<1>6. CallersSound BY Rests DEF Init, CallersSound, SoundCall
<1>7. WorkersSound BY Rests DEF Init, WorkersSound, SoundWork
<1>8. WindowCovered BY <1>3 DEF WindowCovered, ReadEnough, Enough
<1>9. BusyHasJob BY <1>3 DEF BusyHasJob
<1> QED BY <1>2, <1>5, <1>6, <1>7, <1>8, <1>9 DEF ExtractionInv

\* Every step keeps rows, callers, workers and records sound.
LEMMA Steps == TypeOK /\ ExtractionInv /\ [Next]_vars => TypeOK' /\ ExtractionInv'
<1> SUFFICES ASSUME TypeOK, ExtractionInv, [Next]_vars PROVE TypeOK' /\ ExtractionInv'
  OBVIOUS
<1>1. ASSUME NEW s \in Segments, AppendEpisode(s) PROVE TypeOK' /\ ExtractionInv'
  BY <1>1, AppendKeeps
<1>2. ASSUME NEW c \in Callers, NEW s \in Segments,
             FinalizeSegment(c, s) \/ ManualPin(c, s) \/ Sweep(c, s) \/ ManualScan(c, s)
      PROVE  TypeOK' /\ ExtractionInv'
  BY <1>2, FinalizeKeeps, AskKeeps
<1>3. ASSUME NEW c \in Callers, Enqueue(c) PROVE TypeOK' /\ ExtractionInv'
  <2>1. CASE CallerGivesUp(c)
    <3>1. caller' = [caller EXCEPT ![c] = NoCall] /\ UNCHANGED <<seg, job, worker, covered>>
      BY <2>1 DEF CallerGivesUp, Return
    <3> QED BY <3>1, ReturnSound, CallerStep
  <2> QED BY <1>3, <2>1, LookupKeeps, InsertKeeps, MarkKeeps, MergeKeeps DEF Enqueue
<1>4. ASSUME NEW w \in Workers, Work(w) PROVE TypeOK' /\ ExtractionInv'
  <2>1. CASE WorkerGivesUp(w) BY <2>1, LeaveKeeps DEF WorkerGivesUp
  <2> QED BY <1>4, <2>1, ClaimKeeps, ExtractKeeps, MirrorKeeps, CompleteKeeps, FailKeeps DEF Work
<1>5. CASE Tick BY <1>5, TickKeeps
<1>6. CASE Crash BY <1>6, CrashKeeps
<1>7. CASE UNCHANGED vars
  BY <1>7 DEF vars, TypeOK, ExtractionInv, RowsSound, CallersSound, SoundCall, WorkersSound,
              SoundWork, Holds, WindowCovered, ReadEnough, BusyHasJob, ActiveJobs
<1> QED BY <1>1, <1>2, <1>3, <1>4, <1>5, <1>6, <1>7 DEF Next

\* The types and the strengthening hold in every state the queue can reach.
THEOREM ExtractionInductive == Spec => [](TypeOK /\ ExtractionInv)
  BY Starts, Steps, PTL DEF Spec

\* Rows, workers and callers keep their types.
THEOREM TypeCorrect == Spec => []TypeOK
  BY ExtractionInductive, PTL

\* What is recorded as extracted has been read, as far as one extraction reads:
\* last_extracted_until_at of a job whose last request was for the whole segment claims no
\* more than its window (ExtractedUntilAt), whatever was merged, retried or taken over.
THEOREM WindowRead == Spec => []WindowCovered
<1>1. TypeOK /\ ExtractionInv => WindowCovered BY DEF ExtractionInv
<1> QED BY <1>1, ExtractionInductive, PTL

\* A segment out of the sight of workers and scheduler has been read, as far as one
\* extraction reads, except where the code itself marks it pending late, has used up its
\* attempts or was last told by a pin.
THEOREM SegmentsSeen == Spec => []UnreadInView
<1>1. TypeOK /\ ExtractionInv => UnreadInView
  <2> SUFFICES ASSUME TypeOK, ExtractionInv, NEW s \in Segments, seg[s].mark # "manual_pin", ~InView(s)
               PROVE  ReadEnough(s, seg[s].activity)
    BY DEF UnreadInView
  <2>1. ActiveJobs(s) = {} /\ ~Eligible(s) /\ seg[s].status \notin {"pending", "running"}
    BY DEF InView, ExtractionInv, BusyHasJob
  <2>2. /\ seg[s].fails \in Nat /\ MaxAttempts \in Nat
        /\ seg[s].activity \in Nat /\ seg[s].until \in Nat
    BY ExtractionAssumption, Numbers DEF TypeOK, SegmentRow
  <2>3. seg[s].status = "failed" => seg[s].fails < MaxAttempts BY <2>2 DEF InView
  <2>4. CASE seg[s].episodes = {} BY <2>4 DEF ReadEnough, Enough
  <2>5. CASE seg[s].episodes # {}
    <3>1. ~(seg[s].until < seg[s].activity) BY <2>1, <2>3, <2>5 DEF Eligible, Active
    <3>2. seg[s].until = seg[s].activity BY <2>2, <3>1 DEF ExtractionInv, RowsSound
    <3>3. ReadEnough(s, seg[s].until) BY DEF ExtractionInv, WindowCovered
    <3> QED BY <3>2, <3>3
  <2> QED BY <2>4, <2>5
<1> QED BY <1>1, ExtractionInductive, PTL

\* A worker that lost its claim changes nothing when it reports (expected_claimed_by).
THEOREM LostClaimIgnored == Spec => LateWorkerIgnored
<1> DEFINE A == \A w \in Workers :
                  worker[w].pc # "idle" /\ worker'[w].pc = "idle" /\ job[worker[w].job].by # w =>
                    job' = job /\ seg' = seg
<1>1. TypeOK /\ ExtractionInv /\ [Next]_vars => [A]_vars
  <2> SUFFICES ASSUME TypeOK, ExtractionInv, Next, NEW w \in Workers, worker[w].pc # "idle",
                      worker'[w].pc = "idle", job[worker[w].job].by # w
               PROVE  job' = job /\ seg' = seg
    OBVIOUS
  <2>1. ~Holds(w) BY DEF Holds
  <2>2. worker' # worker BY Typed
  <2> SUFFICES ASSUME ~Crash PROVE job' = job /\ seg' = seg BY DEF Crash
  <2>4. PICK v \in Workers : Work(v)
    BY <2>2 DEF Next, AppendEpisode, FinalizeSegment, ManualPin, Sweep, ManualScan, Enqueue,
                      Lookup, Insert, MarkPending, Merge, CallerGivesUp, Tick
  <2>5. v = w
    <3> SUFFICES ASSUME v # w PROVE worker'[w] = worker[w] BY Typed
    <3>1. \E x : worker' = [worker EXCEPT ![v] = x]
      BY <2>4, Typed DEF Work, Claim, Extract, Outcome, MirrorSyncFails, Complete, Fail, WorkerGivesUp, Leave
    <3> QED BY <3>1, Typed
  <2>6. ~\E j \in JobIds : Claim(w, j) BY DEF Claim
  <2> QED BY <2>1, <2>4, <2>5, <2>6 DEF Work, Extract, MirrorSyncFails, Complete, Fail, WorkerGivesUp
<1> QED BY <1>1, ExtractionInductive, PTL DEF Spec, LateWorkerIgnored

\* What is recorded as extracted is the window of the job that was running, and a settled
\* job keeps its outcome, whatever was merged meanwhile (CompleteMemoryExtractionJob,
\* mergeActiveMemoryExtractionJob): a worker that holds its claim works on the row as it is.
THEOREM WindowRecorded == Spec => RecordsJobWindow
<1> DEFINE A ==
     /\ \A s \in Segments : seg'[s].until # seg[s].until =>
          \E j \in JobIds :
            /\ job[j].seg = s /\ job[j].status = "running" /\ seg'[s].until = job[j].sel.until
            /\ job'[j].status \in {"succeeded", "skipped"}
     /\ \A j \in JobIds : job[j].status \in Settled =>
          job'[j].status = job[j].status /\ job'[j].sel = job[j].sel
<1>1. TypeOK /\ ExtractionInv /\ [Next]_vars => [A]_vars
  <2> SUFFICES ASSUME TypeOK, ExtractionInv, Next PROVE A
    BY DEF vars
  <2>1. ASSUME NEW w \in Workers, Complete(w), Holds(w) PROVE A
    <3>1. PICK j \in JobIds : j = worker[w].job BY <2>1, Holding DEF Complete
    <3>2. /\ job[j].status = "running" /\ job[j] \in JobRow /\ worker[w].sel = job[j].sel
          /\ worker[w].pc \in {"succeeded", "skipped"}
      BY <2>1, <3>1, Holding DEF Holds, Complete, SoundWork
    <3>3. PICK s \in Segments : s = job[j].seg BY <3>2, Holding
    <3>4. /\ job' = [job EXCEPT ![j].status = worker[w].pc, ![j].by = None, ![j].lease = 0]
          /\ seg' = Extracted(j, worker[w].sel.until, worker[w].pc)
      BY <2>1, <3>1, <3>3 DEF Complete
    <3>5. /\ \A i \in JobIds \ {j} : job'[i] = job[i]
          /\ job'[j].status = worker[w].pc
      BY <3>2, <3>4, Typed DEF JobRow
    <3>6. /\ \A t \in Segments \ {s} : seg'[t] = seg[t]
          /\ seg'[s].until = job[j].sel.until
      BY <3>2, <3>3, <3>4, Typed DEF Extracted, SegmentRow
    <3> QED BY <3>2, <3>3, <3>5, <3>6 DEF Settled
  <2>2. ASSUME \A s \in Segments : seg'[s].until = seg[s].until,
               \A j \in JobIds : job[j].status \in Settled =>
                 job'[j].status = job[j].status /\ job'[j].sel = job[j].sel
        PROVE  A
    BY <2>2
  <2> HIDE DEF A
  <2>3. ASSUME NEW c \in Callers, Enqueue(c) PROVE A
    <3>1. \A s \in Segments : seg'[s].until = seg[s].until
      <4>1. seg' = seg \/ seg' = [seg EXCEPT ![caller[c].seg].status = "pending"]
        BY <2>3 DEF Enqueue, Lookup, Insert, MarkPending, Merge, CallerGivesUp
      <4> QED BY <4>1, Typed DEF SegmentRow
    <3>2. \A j \in JobIds : job[j].status \in Settled => job'[j] = job[j]
      BY <2>3, Typed DEF Enqueue, Lookup, Insert, MarkPending, Merge, CallerGivesUp, Settled
    <3> QED BY <2>2, <3>1, <3>2
  <2>4. ASSUME NEW w \in Workers, NEW j \in JobIds, Claim(w, j) PROVE A
    <3>1. \A s \in Segments : seg'[s].until = seg[s].until
      BY <2>4, Typed DEF Claim, SegmentRow
    <3>2. \A i \in JobIds : job[i].status \in Settled => job'[i] = job[i]
      BY <2>4, Typed DEF Claim, Claimable, Settled
    <3> QED BY <2>2, <3>1, <3>2
  <2>5. ASSUME NEW w \in Workers, Fail(w), Holds(w) PROVE A
    <3>1. /\ \A s \in Segments : seg'[s].until = seg[s].until
      BY <2>5, Typed DEF Fail, SegmentRow
    <3>2. \A i \in JobIds : job[i].status \in Settled => job'[i] = job[i]
      BY <2>5, Typed DEF Fail, Holds, Settled
    <3> QED BY <2>2, <3>1, <3>2
  <2>6. ASSUME NEW w \in Workers,
               \/ Extract(w) \/ MirrorSyncFails(w) \/ WorkerGivesUp(w)
               \/ (Complete(w) \/ Fail(w)) /\ ~Holds(w)
        PROVE  A
    <3>1. UNCHANGED <<seg, job>>
      BY <2>6 DEF Extract, MirrorSyncFails, WorkerGivesUp, Complete, Fail
    <3> QED BY <2>2, <3>1
  <2>7. ASSUME \/ \E s \in Segments : AppendEpisode(s)
               \/ \E c \in Callers, s \in Segments :
                    FinalizeSegment(c, s) \/ ManualPin(c, s) \/ Sweep(c, s) \/ ManualScan(c, s)
               \/ Tick \/ Crash
        PROVE  A
    <3>1. \A s \in Segments : seg'[s].until = seg[s].until
      <4>1. ASSUME NEW s \in Segments, AppendEpisode(s) \/ \E c \in Callers : FinalizeSegment(c, s)
            PROVE  \A t \in Segments : seg'[t].until = seg[t].until
        BY <4>1, Typed DEF AppendEpisode, FinalizeSegment, SegmentRow
      <4>2. \/ seg' = seg
            \/ \E s \in Segments : AppendEpisode(s) \/ \E c \in Callers : FinalizeSegment(c, s)
        BY <2>7 DEF ManualPin, Sweep, ManualScan, Tick, Crash
      <4> QED BY <4>1, <4>2
    <3>2. \A j \in JobIds : /\ job'[j].status = job[j].status
                            /\ job'[j].sel = job[j].sel
      <4>1. job' = job \/ Tick
        BY <2>7 DEF AppendEpisode, FinalizeSegment, ManualPin, Sweep, ManualScan, Crash
      <4> QED BY <4>1, Typed DEF Tick, JobRow
    <3> QED BY <2>2, <3>1, <3>2
  <2> QED BY <2>1, <2>3, <2>4, <2>5, <2>6, <2>7 DEF Next, Work
<1> QED BY <1>1, ExtractionInductive, PTL DEF Spec, RecordsJobWindow
=============================================================================
