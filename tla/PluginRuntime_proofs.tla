------------------------ MODULE PluginRuntime_proofs ------------------------
(***************************************************************************)
(* Proofs about PluginRuntime, for every set of callers and versions, every *)
(* threshold and every number of starts and operations: its types, that no  *)
(* process is forgotten, that a crash counts once towards quarantine, that  *)
(* nobody waits for a start nobody completes, and that the runtime in       *)
(* service knows how many calls are under way.                              *)
(***************************************************************************)
EXTENDS PluginRuntime, FiniteSetTheorems, SequenceTheorems, TLAPS

(* Slots *)

\* Replacing one slot leaves the others as they were.
LEMMA SlotPut ==
  ASSUME slots \in Seq(Slot), NEW g \in 1..Len(slots), NEW s \in Slot,
         slots' = [slots EXCEPT ![g] = s]
  PROVE  /\ slots' \in Seq(Slot) /\ Len(slots') = Len(slots) /\ DOMAIN slots' = DOMAIN slots
         /\ slots'[g] = s
         /\ \A h \in DOMAIN slots : h # g => slots'[h] = slots[h]
  BY ExceptSeq, LenProperties

\* The slots made are numbered from 1.
LEMMA SlotDomain ==
  ASSUME slots \in Seq(Slot)
  PROVE  Len(slots) \in Nat /\ DOMAIN slots = 1..Len(slots) /\ \A g \in 1..Len(slots) : slots[g] \in Slot
  BY LenProperties, ElementOfSeq

\* A start appends its slot.
LEMMA SlotNew ==
  ASSUME slots \in Seq(Slot), NEW s \in Slot, slots' = Append(slots, s)
  PROVE  /\ slots' \in Seq(Slot) /\ Len(slots') = Len(slots) + 1
         /\ DOMAIN slots' = 1..Len(slots) + 1
         /\ slots'[Len(slots) + 1] = s
         /\ \A h \in DOMAIN slots : slots'[h] = slots[h]
  BY AppendProperties, LenProperties

\* Callers are finitely many, and so are those who use a runtime.
Users(g) == {p \in Callers : actor[p].gen = g /\ actor[p].pc \in Calling}

\* The number of users of a generation is at most that of the callers.
LEMMA UsersCounted ==
  ASSUME NEW g
  PROVE  /\ IsFiniteSet(Users(g)) /\ Cardinality(Users(g)) \in 0..Cardinality(Callers)
         /\ Cardinality(Callers) \in Nat
  BY RuntimeAssumption, FS_Subset, FS_CardinalityType DEF Users

\* What the calls and the start a slot forgives leave of it.
LEMMA ForgivenSlot ==
  ASSUME NEW s \in Slot, Sound(s), NEW f \in Forgiven(s)
  PROVE  /\ f \in Slot /\ Sound(f)
         /\ f.state = s.state /\ f.runtime = s.runtime /\ f.open = s.open
         /\ f.inFlight = s.inFlight /\ f.version = s.version
  BY RuntimeAssumption DEF Forgiven, Slot, Sound, QuarantineAtThreshold

\* A failure is counted of a slot that starts or runs, and takes its runtime.
LEMMA MarkedSlot ==
  ASSUME NEW s \in Slot, Sound(s), s.state \in {"starting", "running"}, NEW f \in Marked(s)
  PROVE  /\ f \in Slot /\ Sound(f)
         /\ f.state \in {"quarantined", "backoff", "failed"} /\ ~f.runtime /\ f.open = s.open
         /\ f.inFlight = s.inFlight /\ f.version = s.version
<1>1. PICK e \in Forgiven(s) :
        f = [e EXCEPT !.failures = @ + 1, !.err = TRUE, !.runtime = FALSE,
                      !.state = IF Quarantines(e.failures + 1) THEN "quarantined"
                                ELSE IF backoffOn THEN "backoff" ELSE "failed"]
  BY DEF Marked
<1>2. /\ e \in Slot /\ Sound(e) /\ e.state = s.state /\ e.open = s.open
      /\ e.inFlight = s.inFlight /\ e.version = s.version
  BY ForgivenSlot
<1>3. /\ f.state \in {"quarantined", "backoff", "failed"} /\ f.failures = e.failures + 1
      /\ f.runtime = FALSE /\ f.err = TRUE /\ f.open = e.open /\ f.inFlight = e.inFlight
      /\ f.version = e.version /\ f.base = e.base
  BY <1>1, <1>2 DEF Slot
<1>4. f \in Slot
  <2>1. PICK state \in States :
          f = [e EXCEPT !.failures = @ + 1, !.err = TRUE, !.runtime = FALSE, !.state = state]
    BY <1>1 DEF States
  <2>2. e.failures + 1 \in Nat BY <1>2 DEF Slot
  <2> QED BY <1>2, <2>1, <2>2 DEF Slot
<1>5. QuarantineAtThreshold(f)
  <2>1. f.state = "quarantined" <=> Quarantines(e.failures + 1)
    BY <1>1, <1>2 DEF Slot
  <2>2. e.failures \in Nat /\ e.state # "quarantined" /\ QuarantineAtThreshold(e)
    BY <1>2 DEF Slot, Sound
  <2> QED BY <1>3, <2>1, <2>2, RuntimeAssumption DEF QuarantineAtThreshold, Quarantines
<1>6. Sound(f)
  BY <1>2, <1>3, <1>5 DEF Slot, Sound
<1> QED BY <1>2, <1>3, <1>4, <1>6

\* A start taken out of the map, a starter that comes too late, a start that
\* succeeds and a use that ends leave a sound slot.
LEMMA SupersededSlot ==
  ASSUME NEW s \in Slot, Sound(s), s.state = "starting"
  PROVE  /\ Superseded(s) \in Slot /\ Sound(Superseded(s))
         /\ Superseded(s).state = "failed" /\ ~Superseded(s).runtime /\ ~Superseded(s).open
  BY RuntimeAssumption DEF Superseded, Slot, States, Sound, QuarantineAtThreshold

\* A starter that comes too late closes the slot and leaves its state (completeRuntimeStart).
LEMMA AbandonedSlot ==
  ASSUME NEW s \in Slot, Sound(s)
  PROVE  /\ Abandoned(s) \in Slot /\ Sound(Abandoned(s)) /\ ~Abandoned(s).open
         /\ Abandoned(s).state = s.state /\ Abandoned(s).runtime = s.runtime
         /\ Abandoned(s).inFlight = s.inFlight
  BY DEF Abandoned, Slot, Sound, QuarantineAtThreshold

\* A start that succeeds puts a sound slot into service, unused (completeRuntimeStart).
LEMMA ServingSlot ==
  ASSUME NEW s \in Slot, Sound(s), s.state = "starting"
  PROVE  /\ Serving(s) \in Slot /\ Sound(Serving(s)) /\ ~Serving(s).open
         /\ Serving(s).state = "running" /\ Serving(s).runtime /\ Serving(s).inFlight = 0
  BY RuntimeAssumption DEF Serving, Slot, States, Sound, QuarantineAtThreshold

\* A use that begins or ends changes only the count (beginRuntimeUse, finishRuntimeUse).
LEMMA UsedSlot ==
  ASSUME NEW s \in Slot, Sound(s), s.state = "running", NEW n \in 0..Cardinality(Callers)
  PROVE  /\ [s EXCEPT !.inFlight = n] \in Slot /\ Sound([s EXCEPT !.inFlight = n])
         /\ [s EXCEPT !.inFlight = n].state = "running"
         /\ [s EXCEPT !.inFlight = n].open = s.open
  BY DEF Slot, Sound, QuarantineAtThreshold

\* A new slot is sound when the failures it inherits are below the threshold (EnsureReady).
LEMMA StartedSlot ==
  ASSUME NEW v \in Versions, NEW n \in Nat, Threshold > 0 => n < Threshold
  PROVE  /\ NewSlot(v, n) \in Slot /\ Sound(NewSlot(v, n))
         /\ NewSlot(v, n).state = "starting" /\ ~NewSlot(v, n).runtime
  BY RuntimeAssumption, UsersCounted DEF NewSlot, Slot, States, Sound, QuarantineAtThreshold
-----------------------------------------------------------------------------
(* Goroutines *)

Owning == {"init", "started"} \cup Stopping
Live(g) == proc[g] \in {"up", "deaf"}
ActorState == [pc : Place, gen : 0..Len(slots)]

\* A goroutine moves, the others stay where they are.
LEMMA MovesOne ==
  ASSUME NEW S, NEW p \in Actors, NEW to \in S, actor \in [Actors -> S], Moves(p, to)
  PROVE  actor' \in [Actors -> S] /\ actor'[p] = to /\ \A q \in Actors \ {p} : actor'[q] = actor[q]
  BY DEF Moves

\* Who has a runtime in hand has a generation, and its slot.
LEMMA InHand ==
  ASSUME TypeOK, HoldsSlot, NEW p \in Actors,
         actor[p].pc \in Starting \cup Stopping \cup Calling \cup {"wait"}
  PROVE  /\ actor[p].gen \in Generations /\ actor[p].gen \in DOMAIN slots
         /\ slots[actor[p].gen] \in Slot
<1>1. /\ Len(slots) \in Nat /\ Len(slots) <= MaxGenerations /\ DOMAIN slots = 1..Len(slots)
      /\ \A g \in 1..Len(slots) : slots[g] \in Slot
  BY SlotDomain DEF TypeOK
<1>2. actor[p].gen \in 0..Len(slots) /\ actor[p].gen # 0
  BY DEF TypeOK, HoldsSlot
<1> QED BY <1>1, <1>2, RuntimeAssumption DEF Generations

\* The count of calls stays exact when the same callers call the runtime in service.
LEMMA InFlightKept ==
  ASSUME InFlightExact,
         InService(current)' =>
           /\ current' = current /\ InService(current)
           /\ slots'[current].inFlight = slots[current].inFlight
           /\ \A q \in Callers : (actor'[q].gen = current /\ actor'[q].pc \in Calling) <=>
                                (actor[q].gen = current /\ actor[q].pc \in Calling)
  PROVE  InFlightExact'
<1> SUFFICES ASSUME InService(current)' PROVE InFlightExact'
  BY DEF InFlightExact
<1>1. {q \in Callers : actor'[q].gen = current' /\ actor'[q].pc \in Calling} =
      {q \in Callers : actor[q].gen = current /\ actor[q].pc \in Calling}
  OBVIOUS
<1> QED BY <1>1 DEF InFlightExact

\* What a goroutine owes is kept by a step that takes it along: the start it is at, the
\* process that only it, the slot in service or a condemnation owns.
LEMMA Step ==
  ASSUME TypeOK, RuntimeInv, NEW p \in Actors, NEW to \in ActorState, Moves(p, to),
         current' \in {0, current}, DOMAIN slots' = DOMAIN slots, Len(slots') = Len(slots),
         \A g \in DOMAIN slots : /\ slots'[g].state = "starting" => slots[g].state = "starting"
                                 /\ slots'[g].open => slots[g].open,
         to.pc \in Starting => actor[p].pc \in Starting /\ to.gen = actor[p].gen,
         actor[p].pc \in Starting => to.pc \in Starting \/ ~slots'[actor[p].gen].open,
         to.pc \in {"start", "unstarted"} => proc'[to.gen] \notin {"up", "deaf"},
         \A g \in Generations :
           Live(g)' =>
             /\ Live(g) \/ (g = to.gen /\ to.pc = "init")
             /\ g \in condemned => g \in condemned'
             /\ (current = g /\ slots[g].runtime) \/ (actor[p].gen = g /\ actor[p].pc \in Owning) =>
                  \/ current' = g /\ slots'[g].runtime
                  \/ g \in condemned'
                  \/ to.gen = g /\ to.pc \in Owning,
         to.pc \in Stopping \cup Calling \cup {"wait"} => to.gen # 0,
         to.pc \in Calling => p \in Callers /\ slots[to.gen].state # "starting"
  PROVE  HoldsSlot' /\ OneStarter' /\ LaunchedForSlot' /\ NoOrphan'
<1>1. /\ actor' \in [Actors -> ActorState] /\ actor'[p] = to
      /\ \A q \in Actors \ {p} : actor'[q] = actor[q]
  <2>1. actor \in [Actors -> ActorState] BY DEF TypeOK, ActorState
  <2> QED BY <2>1, MovesOne
<1>2. DOMAIN slots = 1..Len(slots) BY SlotDomain DEF TypeOK
<1>3. HoldsSlot'
  <2>1. \A q \in Actors : actor'[q].pc \in Starting \cup Stopping \cup Calling \cup {"wait"} =>
          actor'[q].gen # 0
    BY <1>1 DEF RuntimeInv, HoldsSlot
  <2>2. ASSUME NEW q \in Actors, actor'[q].pc \in Calling
        PROVE  q \in Callers /\ slots'[actor'[q].gen].state # "starting"
    <3>1. q \in Callers /\ slots[actor'[q].gen].state # "starting"
      BY <1>1, <2>2 DEF RuntimeInv, HoldsSlot
    <3>2. actor'[q].gen \in DOMAIN slots
      BY <1>1, <1>2, <2>1, <2>2 DEF ActorState
    <3> QED BY <3>1, <3>2
  <2> QED BY <2>1, <2>2 DEF HoldsSlot
<1>4. OneStarter'
  <2>1. \A q, r \in Actors : q # r /\ actor'[q].pc \in Starting /\ actor'[r].pc \in Starting =>
          actor'[q].gen # actor'[r].gen
    BY <1>1 DEF RuntimeInv, OneStarter
  <2>2. ASSUME NEW q \in Actors, actor'[q].pc \in {"start", "unstarted"}
         PROVE  proc'[actor'[q].gen] \notin {"up", "deaf"}
    <3>1. CASE q = p BY <1>1, <2>2, <3>1
    <3>2. CASE q # p
      <4>1. actor[q].pc \in Starting /\ ~Live(actor[q].gen) /\ actor'[q] = actor[q]
        BY <1>1, <2>2, <3>2 DEF RuntimeInv, OneStarter, Live, Starting
      <4>2. to.pc = "init" => to.gen # actor[q].gen
        BY <1>1, <3>2, <4>1 DEF RuntimeInv, OneStarter, Starting
      <4>3. actor[q].gen \in Generations
        BY <4>1, InHand DEF RuntimeInv
      <4>4. ~Live(actor[q].gen)' BY <4>1, <4>2, <4>3
      <4> QED BY <4>1, <4>4 DEF Live
    <3> QED BY <3>1, <3>2
  <2>3. ASSUME NEW g \in DOMAIN slots', slots'[g].open
        PROVE  \E q \in Actors : actor'[q].gen = g /\ actor'[q].pc \in Starting
    <3>1. PICK q \in Actors : actor[q].gen = g /\ actor[q].pc \in Starting
      BY <2>3 DEF RuntimeInv, OneStarter
    <3> QED BY <1>1, <2>3, <3>1
  <2> QED BY <2>1, <2>2, <2>3 DEF OneStarter
<1>5. LaunchedForSlot'
  <2>1. \A g \in Generations : Live(g)' => g <= Len(slots)
    BY DEF RuntimeInv, LaunchedForSlot, Live, ActorState
  <2> QED BY <2>1 DEF LaunchedForSlot, Live
<1>6. NoOrphan'
  <2> SUFFICES ASSUME NEW g \in Generations, Live(g)'
               PROVE  \/ current' = g /\ slots'[g].runtime
                      \/ g \in condemned'
                      \/ \E q \in Actors : actor'[q].gen = g /\ actor'[q].pc \in Owning
    BY DEF NoOrphan, Live, Owning
  <2>1. CASE g = to.gen /\ to.pc = "init" BY <1>1, <2>1 DEF Owning
  <2>2. CASE Live(g)
    <3>1. \/ current = g /\ slots[g].runtime
          \/ g \in condemned
          \/ \E q \in Actors : actor[q].gen = g /\ actor[q].pc \in Owning
      BY <2>2 DEF RuntimeInv, NoOrphan, Live, Owning
    <3> QED BY <1>1, <3>1
  <2> QED BY <2>1, <2>2
<1> QED BY <1>3, <1>4, <1>5, <1>6

\* The same when no goroutine moves: processes end, the reaper and protocol errors work.
LEMMA StepStill ==
  ASSUME TypeOK, RuntimeInv, UNCHANGED <<actor, current>>,
         DOMAIN slots' = DOMAIN slots, Len(slots') = Len(slots),
         \A g \in DOMAIN slots : /\ slots'[g].state = "starting" => slots[g].state = "starting"
                                 /\ slots'[g].open = slots[g].open,
         \A g \in Generations :
           Live(g)' =>
             /\ Live(g)
             /\ g \in condemned => g \in condemned'
             /\ current = g /\ slots[g].runtime => slots'[g].runtime \/ g \in condemned'
  PROVE  HoldsSlot' /\ OneStarter' /\ LaunchedForSlot' /\ NoOrphan'
<1> DEFINE to == actor[Admin]
<1>1. Admin \in Actors /\ to \in ActorState BY DEF TypeOK, Actors, ActorState
<1>2. Moves(Admin, to) BY <1>1 DEF Moves, TypeOK
<1>3. to.pc \in Starting => slots'[to.gen].open = slots[to.gen].open
  BY <1>1, InHand DEF RuntimeInv
<1>4. to.pc \in Stopping \cup Calling \cup {"wait"} => to.gen # 0
  BY <1>1 DEF RuntimeInv, HoldsSlot
<1>5. to.pc \in Calling => Admin \in Callers /\ slots[to.gen].state # "starting"
  BY <1>1 DEF RuntimeInv, HoldsSlot
<1>6. to.pc \in {"start", "unstarted"} => proc'[to.gen] \notin {"up", "deaf"}
  <2> SUFFICES ASSUME to.pc \in {"start", "unstarted"} PROVE proc'[to.gen] \notin {"up", "deaf"}
    OBVIOUS
  <2>1. ~Live(to.gen) BY <1>1 DEF RuntimeInv, OneStarter, Live
  <2>2. to.gen \in Generations BY <1>1, InHand DEF RuntimeInv, Starting
  <2> QED BY <2>1, <2>2 DEF Live
<1> HIDE DEF to
<1>7. current' \in {0, current} OBVIOUS
<1>8. \A g \in Generations :
        Live(g)' =>
          /\ Live(g) \/ (g = to.gen /\ to.pc = "init")
          /\ g \in condemned => g \in condemned'
          /\ (current = g /\ slots[g].runtime) \/ (actor[Admin].gen = g /\ actor[Admin].pc \in Owning) =>
               \/ current' = g /\ slots'[g].runtime
               \/ g \in condemned'
               \/ to.gen = g /\ to.pc \in Owning
  BY DEF to
<1> QED BY <1>1, <1>2, <1>3, <1>4, <1>5, <1>6, <1>7, <1>8, Step DEF to

\* The end of a process leaves it dead and the others as they were.
LEMMA EndsOne ==
  ASSUME TypeOK, NEW g \in Generations, Ends(g)
  PROVE  /\ proc' \in [Generations -> {"none", "up", "deaf", "gone"}]
         /\ alarm' \subseteq Generations
         /\ ~Live(g)' /\ \A h \in Generations : Live(h)' => Live(h)
  BY DEF TypeOK, Ends, Live

\* Between two of its own steps nothing happens to an idle administrator.
LEMMA AdminWaits ==
  ASSUME RuntimeInv, TypeOK, order' = order, NEW p \in Actors, NEW to, Moves(p, to),
         p \in Callers \/ actor[p].pc # "idle"
  PROVE  AdminIdle'
  BY RuntimeAssumption DEF RuntimeInv, AdminIdle, Moves, Actors, TypeOK

-----------------------------------------------------------------------------
(* Processes and their watchers *)

\* A process that ends by itself or by the reaper keeps the invariant (readLoop, wait).
LEMMA ProcessEnds ==
  ASSUME TypeOK, RuntimeInv, NEW g \in Generations, Exit(g) \/ StopCondemned(g)
  PROVE  TypeOK' /\ RuntimeInv'
<1>1. /\ Ends(g) /\ UNCHANGED <<service, known, current, slots, actor, backoffOn>>
      /\ condemned' \subseteq condemned /\ condemned \subseteq condemned' \cup {g}
  BY DEF Exit, StopCondemned
<1>2. TypeOK' BY <1>1, EndsOne DEF TypeOK, service
<1>3. HoldsSlot' /\ OneStarter' /\ LaunchedForSlot' /\ NoOrphan'
  BY <1>1, EndsOne, StepStill
<1>4. SlotsSound' BY <1>1 DEF RuntimeInv, SlotsSound
<1>5. AdminIdle' BY <1>1 DEF RuntimeInv, AdminIdle, service
<1>6. InFlightExact' BY <1>1 DEF RuntimeInv, InFlightExact, InService
<1> QED BY <1>2, <1>3, <1>4, <1>5, <1>6 DEF RuntimeInv

\* A peer closed by a protocol error keeps the invariant (JSONRPCPeer.Serve).
LEMMA ProcessErrs ==
  ASSUME TypeOK, RuntimeInv, NEW g \in Generations, ProtocolError(g)
  PROVE  TypeOK' /\ RuntimeInv'
<1>1. /\ proc[g] = "up" /\ proc' = [proc EXCEPT ![g] = "deaf"] /\ alarm' = alarm \cup {g}
      /\ UNCHANGED <<row, registered, order, orders, known, current, slots, condemned, actor, backoffOn>>
  BY DEF ProtocolError, service
<1>2. TypeOK' BY <1>1 DEF TypeOK
<1>3. \A h \in Generations : Live(h)' => Live(h)
  BY <1>1 DEF TypeOK, Live
<1>4. HoldsSlot' /\ OneStarter' /\ LaunchedForSlot' /\ NoOrphan'
  BY <1>1, <1>3, StepStill
<1>5. SlotsSound' BY <1>1 DEF RuntimeInv, SlotsSound
<1>6. AdminIdle' BY <1>1 DEF RuntimeInv, AdminIdle
<1>7. InFlightExact' BY <1>1 DEF RuntimeInv, InFlightExact, InService
<1> QED BY <1>2, <1>4, <1>5, <1>6, <1>7 DEF RuntimeInv

\* A slot is rewritten where it stands, nobody moves, no process ends.
LEMMA SlotRewritten ==
  ASSUME TypeOK, RuntimeInv, NEW g \in DOMAIN slots, NEW s \in Slot, Sound(s),
         slots' = [slots EXCEPT ![g] = s],
         UNCHANGED <<service, known, current, proc, actor, backoffOn>>,
         alarm' \subseteq alarm, condemned' \subseteq Generations, condemned \subseteq condemned',
         s.state # "starting" \/ slots[g].state = "starting", s.open = slots[g].open,
         s.state = "running" => slots[g].state = "running" /\ s.inFlight = slots[g].inFlight,
         slots[g].runtime => s.runtime \/ g \in condemned' \/ g # current
  PROVE  TypeOK' /\ RuntimeInv'
<1>1. /\ slots' \in Seq(Slot) /\ Len(slots') = Len(slots) /\ DOMAIN slots' = DOMAIN slots
      /\ slots'[g] = s /\ \A h \in DOMAIN slots : h # g => slots'[h] = slots[h]
  BY SlotPut, SlotDomain DEF TypeOK
<1>2. TypeOK' BY <1>1 DEF TypeOK, service
<1>3. SlotsSound' BY <1>1 DEF RuntimeInv, SlotsSound
<1>4. HoldsSlot' /\ OneStarter' /\ LaunchedForSlot' /\ NoOrphan'
  <2>1. \A h \in Generations : Live(h)' => Live(h) BY DEF Live
  <2>2. \A h \in Generations : current = h /\ slots[h].runtime => slots'[h].runtime \/ h \in condemned'
    <3> SUFFICES ASSUME current \in Generations PROVE slots[current].runtime =>
                                                      slots'[current].runtime \/ current \in condemned'
      OBVIOUS
    <3>1. current \in DOMAIN slots BY SlotDomain DEF TypeOK, Generations
    <3> QED BY <1>1, <3>1
  <2> QED BY <1>1, <2>1, <2>2, StepStill
<1>5. AdminIdle' BY DEF RuntimeInv, AdminIdle, service
<1>6. InFlightExact'
  <2>1. InService(current)' => InService(current) /\ slots'[current].inFlight = slots[current].inFlight
    <3>1. current # 0 => current \in DOMAIN slots BY SlotDomain DEF TypeOK
    <3> QED BY <1>1, <3>1 DEF InService
  <2> QED BY <2>1, InFlightKept DEF RuntimeInv
<1> QED BY <1>2, <1>3, <1>4, <1>5, <1>6 DEF RuntimeInv

\* The slot in service, or any slot in the map, is a sound one.
LEMMA MapSlot ==
  ASSUME TypeOK, RuntimeInv, current # 0
  PROVE  /\ current \in DOMAIN slots /\ current \in Generations
         /\ slots[current] \in Slot /\ Sound(slots[current])
<1>1. current \in DOMAIN slots BY SlotDomain DEF TypeOK
<1>2. current \in Generations BY <1>1, SlotDomain, RuntimeAssumption DEF TypeOK, Generations
<1> QED BY <1>1, <1>2, SlotDomain DEF TypeOK, RuntimeInv, SlotsSound

\* recordRuntimeErrorForGeneration keeps the invariant: it condemns the process it takes
\* out of service.
LEMMA ProtocolErrorSeen ==
  ASSUME TypeOK, RuntimeInv, NEW g \in Generations, OnProtocolError(g)
  PROVE  TypeOK' /\ RuntimeInv'
<1>1. CASE current = g /\ slots[g].state \in {"running", "starting"}
  <2>1. PICK s \in Marked(slots[g]) : slots' = [slots EXCEPT ![g] = s]
    BY <1>1 DEF OnProtocolError
  <2>2. g # 0 BY DEF Generations
  <2>3. g \in DOMAIN slots /\ slots[g] \in Slot /\ Sound(slots[g])
    BY <1>1, <2>2, MapSlot
  <2>4. /\ s \in Slot /\ Sound(s) /\ s.state \notin {"starting", "running"}
        /\ s.open = slots[g].open
    BY <1>1, <2>3, MarkedSlot
  <2>5. /\ UNCHANGED <<service, known, current, proc, actor, backoffOn>>
        /\ alarm' \subseteq alarm /\ condemned \subseteq condemned'
        /\ condemned' \subseteq condemned \cup {g} /\ (slots[g].runtime => g \in condemned')
    BY <1>1 DEF OnProtocolError
  <2>6. condemned' \subseteq Generations BY <2>5 DEF TypeOK
  <2> QED BY <2>1, <2>3, <2>4, <2>5, <2>6, SlotRewritten
<1>2. CASE ~(current = g /\ slots[g].state \in {"running", "starting"})
  <2>1. /\ UNCHANGED <<service, known, current, slots, condemned, proc, actor, backoffOn>>
        /\ alarm' \subseteq alarm
    BY <1>2 DEF OnProtocolError
  <2>2. TypeOK' BY <2>1 DEF TypeOK, service
  <2>3. HoldsSlot' /\ OneStarter' /\ LaunchedForSlot' /\ NoOrphan'
    BY <2>1, StepStill DEF Live
  <2> QED BY <2>1, <2>2, <2>3
          DEF RuntimeInv, SlotsSound, QuarantineAtThreshold, AdminIdle, InFlightExact, InService, service
<1> QED BY <1>1, <1>2

\* reapIdleRuntimes keeps the invariant: it condemns the process it takes out of service.
LEMMA Reaped ==
  ASSUME TypeOK, RuntimeInv, Reap
  PROVE  TypeOK' /\ RuntimeInv'
<1>1. PICK f \in Forgiven(slots[current]) :
        slots' = [slots EXCEPT ![current] = [f EXCEPT !.runtime = FALSE, !.state = "stopped"]]
  BY DEF Reap
<1>2. /\ current # 0 /\ slots[current].state = "running" /\ condemned' = condemned \cup {current}
      /\ UNCHANGED <<service, known, current, proc, alarm, actor, backoffOn>>
  BY DEF Reap, InService
<1>3. /\ current \in DOMAIN slots /\ current \in Generations
      /\ slots[current] \in Slot /\ Sound(slots[current])
  BY <1>2, MapSlot
<1>4. /\ f \in Slot /\ Sound(f) /\ f.state = "running" /\ f.open = slots[current].open
  BY <1>2, <1>3, ForgivenSlot
<1> DEFINE s == [f EXCEPT !.runtime = FALSE, !.state = "stopped"]
<1>5. s \in Slot /\ Sound(s) /\ s.state = "stopped" /\ s.open = slots[current].open
  BY <1>4, RuntimeAssumption DEF Slot, States, Sound, QuarantineAtThreshold
<1>6. slots' = [slots EXCEPT ![current] = s] /\ condemned' \subseteq Generations
  BY <1>1, <1>2, <1>3 DEF TypeOK
<1> HIDE DEF s
<1> QED BY <1>2, <1>3, <1>5, <1>6, SlotRewritten

\* Status keeps the invariant: it changes no more than the failures of the slot.
LEMMA Observed ==
  ASSUME TypeOK, RuntimeInv, Observe
  PROVE  TypeOK' /\ RuntimeInv'
<1>1. PICK s \in Forgiven(slots[current]) : slots' = [slots EXCEPT ![current] = s]
  BY DEF Observe
<1>2. /\ current # 0
      /\ UNCHANGED <<service, known, current, proc, alarm, condemned, actor, backoffOn>>
  BY DEF Observe, InService, world
<1>3. /\ current \in DOMAIN slots /\ slots[current] \in Slot /\ Sound(slots[current])
  BY <1>2, MapSlot
<1>4. /\ s \in Slot /\ Sound(s) /\ s.state = slots[current].state /\ s.open = slots[current].open
      /\ s.runtime = slots[current].runtime /\ s.inFlight = slots[current].inFlight
  BY <1>3, ForgivenSlot
<1>5. alarm \subseteq alarm /\ condemned \subseteq Generations /\ condemned \subseteq condemned
  BY DEF TypeOK
<1> QED BY <1>1, <1>2, <1>3, <1>4, <1>5, SlotRewritten
-----------------------------------------------------------------------------
(* Goroutines that touch no slot *)

\* A goroutine that touches no slot, process or row keeps the invariant, when it keeps what
\* it owns and begins no start and no call.
LEMMA Walk ==
  ASSUME TypeOK, RuntimeInv, NEW p \in Actors, NEW to \in ActorState, Moves(p, to),
         UNCHANGED <<service, known, current, slots, condemned, backoffOn>>,
         proc' \in [Generations -> {"none", "up", "deaf", "gone"}], alarm' \subseteq Generations,
         p \in Callers \/ actor[p].pc # "idle",
         \A g \in Generations : Live(g)' => Live(g) \/ (g = to.gen /\ to.pc = "init"),
         to.pc \in Starting <=> actor[p].pc \in Starting,
         to.pc \in Starting \cup Calling => to.gen = actor[p].gen,
         to.pc \in {"start", "unstarted"} => proc'[to.gen] \notin {"up", "deaf"},
         actor[p].pc \in Owning => \/ proc'[actor[p].gen] \notin {"up", "deaf"}
                                   \/ to.pc \in Owning /\ to.gen = actor[p].gen,
         to.pc \in Stopping \cup {"wait"} => to.gen # 0,
         to.pc \in Calling => actor[p].pc \in Calling,
         actor[p].pc \in Calling => to.pc \in Calling \/ ~InService(actor[p].gen)
  PROVE  TypeOK' /\ RuntimeInv'
<1>1. /\ actor' \in [Actors -> ActorState] /\ actor'[p] = to
      /\ \A q \in Actors \ {p} : actor'[q] = actor[q]
  <2>1. actor \in [Actors -> ActorState] BY DEF TypeOK, ActorState
  <2> QED BY <2>1, MovesOne
<1>2. TypeOK' BY <1>1 DEF TypeOK, ActorState, service
<1>3. HoldsSlot' /\ OneStarter' /\ LaunchedForSlot' /\ NoOrphan'
  <2>1. to.pc \in Calling => p \in Callers /\ to.gen # 0 /\ slots[to.gen].state # "starting"
    BY DEF RuntimeInv, HoldsSlot
  <2>2. actor[p].pc \in Starting => to.pc \in Starting OBVIOUS
  <2>3. \A g \in Generations :
          Live(g)' =>
             /\ Live(g) \/ (g = to.gen /\ to.pc = "init")
             /\ g \in condemned => g \in condemned'
             /\ (current = g /\ slots[g].runtime) \/ (actor[p].gen = g /\ actor[p].pc \in Owning) =>
                  \/ current' = g /\ slots'[g].runtime
                  \/ g \in condemned'
                  \/ to.gen = g /\ to.pc \in Owning
    BY DEF Live
  <2>4. current' \in {0, current} OBVIOUS
  <2> QED BY <2>1, <2>2, <2>3, <2>4, Step
<1>4. SlotsSound' BY DEF RuntimeInv, SlotsSound
<1>5. AdminIdle' BY AdminWaits DEF service
<1>6. InFlightExact'
  <2>1. InService(current)' <=> InService(current) BY DEF InService
  <2>2. InService(current) /\ actor[p].gen = current /\ actor[p].pc \in Calling =>
          to.gen = current /\ to.pc \in Calling
    OBVIOUS
  <2>3. InService(current) => \A q \in Callers :
          (actor'[q].gen = current /\ actor'[q].pc \in Calling) <=>
          (actor[q].gen = current /\ actor[q].pc \in Calling)
    BY <1>1, <2>2 DEF Actors
  <2> QED BY <2>1, <2>3, InFlightKept DEF RuntimeInv
<1> QED BY <1>2, <1>3, <1>4, <1>5, <1>6 DEF RuntimeInv

\* The places of Fails and At.
LEMMA Places ==
  ASSUME TypeOK, NEW p \in Actors
  PROVE  /\ Fails(p) \in ActorState /\ Fails(p).pc \in {"failed", "idle"}
         /\ Idle \in ActorState
         /\ \A pc \in Place, g \in 0..Len(slots) : At(pc, g) \in ActorState
         /\ At("checked", 0) \in ActorState /\ At("stopped", 0) \in ActorState
         /\ At("blame", 0) \in ActorState
         /\ actor[p] \in ActorState
<1>1. 0 \in 0..Len(slots) BY SlotDomain DEF TypeOK
<1>2. actor[p] \in ActorState BY DEF TypeOK, ActorState
<1> QED BY <1>1, <1>2 DEF Fails, At, Idle, ActorState, Place

\* Steps that change nothing but the place of a goroutine that neither starts, stops
\* nor calls a runtime.
LEMMA Stroll ==
  ASSUME TypeOK, RuntimeInv, NEW p \in Actors, NEW to \in ActorState, Moves(p, to),
         UNCHANGED <<service, known, current, slots, world, backoffOn>>,
         p \in Callers \/ actor[p].pc # "idle",
         actor[p].pc \notin Starting \cup Calling \cup Owning,
         to.pc \notin Starting \cup Calling \cup Stopping, to.pc = "wait" => to.gen # 0
  PROVE  TypeOK' /\ RuntimeInv'
<1>1. /\ UNCHANGED condemned /\ alarm' \subseteq Generations
      /\ proc' \in [Generations -> {"none", "up", "deaf", "gone"}]
      /\ \A g \in Generations : Live(g)' => Live(g)
  BY DEF TypeOK, world, Live
<1> QED BY <1>1, Walk DEF Starting

\* The check that the plugin is enabled keeps the invariant (isPluginEnabled).
LEMMA Asked ==
  ASSUME TypeOK, RuntimeInv, NEW p \in Actors, Ask(p)
  PROVE  TypeOK' /\ RuntimeInv'
<1>1. At("checked", 0) \in ActorState BY Places
<1> QED BY <1>1, Stroll DEF Ask, At, Starting, Calling, Owning, Stopping

\* The end of a wait keeps the invariant (waitForRuntimeSlot).
LEMMA Awakened ==
  ASSUME TypeOK, RuntimeInv, NEW p \in Actors, Awaken(p)
  PROVE  TypeOK' /\ RuntimeInv'
<1>1. At("ready", actor[p].gen) \in ActorState BY Places DEF Place, ActorState
<1>2. /\ actor[p].pc = "wait"
      /\ UNCHANGED <<service, known, current, slots, world, backoffOn>>
      /\ Moves(p, Fails(p)) \/ Moves(p, At("ready", actor[p].gen))
  BY DEF Awaken
<1>3. CASE Moves(p, Fails(p))
  BY <1>2, <1>3, Places, Stroll DEF Starting, Calling, Owning, Stopping
<1>4. CASE Moves(p, At("ready", actor[p].gen))
  BY <1>1, <1>2, <1>4, Stroll DEF At, Starting, Calling, Owning, Stopping
<1> QED BY <1>2, <1>3, <1>4

\* Launching the process keeps the invariant: the starter owns it (startRuntime).
LEMMA Launched ==
  ASSUME TypeOK, RuntimeInv, NEW p \in Actors, Launch(p)
  PROVE  TypeOK' /\ RuntimeInv'
<1> DEFINE g == actor[p].gen
<1>1. /\ actor[p].pc = "start"
      /\ UNCHANGED <<service, known, current, slots, alarm, condemned, backoffOn>>
      /\ \/ Moves(p, At("unstarted", g)) /\ UNCHANGED proc
         \/ Moves(p, At("init", g)) /\ proc' = [proc EXCEPT ![g] = "up"]
  BY DEF Launch
<1>2. g \in Generations /\ At("unstarted", g) \in ActorState /\ At("init", g) \in ActorState
  BY <1>1, InHand, Places DEF RuntimeInv, Starting, Place, ActorState
<1>3. proc[g] \notin {"up", "deaf"} /\ alarm' \subseteq Generations
  BY <1>1 DEF RuntimeInv, OneStarter, TypeOK
<1>4. CASE Moves(p, At("unstarted", g)) /\ UNCHANGED proc
  <2>1. /\ proc' \in [Generations -> {"none", "up", "deaf", "gone"}]
        /\ \A h \in Generations : Live(h)' => Live(h)
    BY <1>4 DEF TypeOK, Live
  <2> QED BY <1>1, <1>2, <1>3, <1>4, <2>1, Walk DEF At, Starting, Calling, Owning, Stopping
<1>5. CASE Moves(p, At("init", g)) /\ proc' = [proc EXCEPT ![g] = "up"]
  <2>1. /\ proc' \in [Generations -> {"none", "up", "deaf", "gone"}]
        /\ \A h \in Generations : Live(h)' => Live(h) \/ h = g
    BY <1>5 DEF TypeOK, Live
  <2> QED BY <1>1, <1>2, <1>3, <1>5, <2>1, Walk DEF At, Starting, Calling, Owning, Stopping
<1> QED BY <1>1, <1>4, <1>5

\* The initialize call keeps the invariant: a process that fails it is stopped (startRuntime).
LEMMA Initialized ==
  ASSUME TypeOK, RuntimeInv, NEW p \in Actors, Initialize(p)
  PROVE  TypeOK' /\ RuntimeInv'
<1> DEFINE g == actor[p].gen
<1>1. /\ actor[p].pc = "init"
      /\ UNCHANGED <<service, known, current, slots, condemned, backoffOn>>
      /\ \/ Moves(p, At("started", g)) /\ UNCHANGED <<proc, alarm>>
         \/ Moves(p, At("unstarted", g)) /\ Ends(g)
  BY DEF Initialize
<1>2. g \in Generations /\ At("unstarted", g) \in ActorState /\ At("started", g) \in ActorState
  BY <1>1, InHand, Places DEF RuntimeInv, Starting, Place, ActorState
<1>4. CASE Moves(p, At("started", g)) /\ UNCHANGED <<proc, alarm>>
  <2>1. /\ proc' \in [Generations -> {"none", "up", "deaf", "gone"}] /\ alarm' \subseteq Generations
        /\ \A h \in Generations : Live(h)' => Live(h)
    BY <1>4 DEF TypeOK, Live
  <2> QED BY <1>1, <1>2, <1>4, <2>1, Walk DEF At, Starting, Calling, Owning, Stopping
<1>5. CASE Moves(p, At("unstarted", g)) /\ Ends(g)
  <2>1. /\ proc' \in [Generations -> {"none", "up", "deaf", "gone"}] /\ alarm' \subseteq Generations
        /\ proc'[g] \notin {"up", "deaf"} /\ \A h \in Generations : Live(h)' => Live(h)
    BY <1>2, <1>5, EndsOne DEF Live
  <2> QED BY <1>1, <1>2, <1>5, <2>1, Walk DEF At, Starting, Calling, Owning, Stopping
<1> QED BY <1>1, <1>4, <1>5

\* The answer to a call keeps the invariant (JSONRPCPeer.Call).
LEMMA Returned ==
  ASSUME TypeOK, RuntimeInv, NEW p \in Actors, Return(p)
  PROVE  TypeOK' /\ RuntimeInv'
<1> DEFINE g == actor[p].gen
<1>1. PICK pc \in {"answered", "erred"} : Moves(p, At(pc, g))
  BY DEF Return
<1>2. /\ actor[p].pc = "call" /\ UNCHANGED <<service, known, current, slots, world, backoffOn>>
  BY DEF Return
<1>3. At(pc, g) \in ActorState /\ At(pc, g).pc = pc /\ At(pc, g).gen = g
  BY Places DEF Place, ActorState, Calling, At
<1>4. /\ proc' \in [Generations -> {"none", "up", "deaf", "gone"}] /\ alarm' \subseteq Generations
      /\ \A h \in Generations : Live(h)' => Live(h)
  BY <1>2 DEF TypeOK, world, Live
<1>5. UNCHANGED <<service, known, current, slots, condemned, backoffOn>>
  BY <1>2 DEF world
<1> QED BY <1>1, <1>2, <1>3, <1>4, <1>5, Walk DEF Starting, Calling, Owning, Stopping

\* ProcessRuntime.Stop keeps the invariant: its process no longer lives.
LEMMA ProcessStopped ==
  ASSUME TypeOK, RuntimeInv, NEW p \in Actors, StopProcess(p)
  PROVE  TypeOK' /\ RuntimeInv'
<1>1. /\ actor[p].pc \in Stopping /\ Ends(actor[p].gen)
      /\ UNCHANGED <<service, known, current, slots, condemned, backoffOn>>
  BY DEF StopProcess
<1>2. PICK to \in {Fails(p), At("checked", 0), At("stopped", 0), At("blame", 0)} : Moves(p, to)
  BY DEF StopProcess
<1>3. to \in ActorState /\ to.pc \in {"failed", "idle", "checked", "stopped", "blame"}
  BY Places DEF At
<1>4. actor[p].gen \in Generations BY <1>1, InHand DEF RuntimeInv
<1>5. /\ proc' \in [Generations -> {"none", "up", "deaf", "gone"}] /\ alarm' \subseteq Generations
      /\ proc'[actor[p].gen] \notin {"up", "deaf"} /\ \A h \in Generations : Live(h)' => Live(h)
  BY <1>1, <1>4, EndsOne DEF Live
<1> QED BY <1>1, <1>2, <1>3, <1>5, Walk DEF Starting, Calling, Owning, Stopping
-----------------------------------------------------------------------------
(* Goroutines that rewrite a slot *)

\* A goroutine that owes nothing rewrites a slot, perhaps takes it out of the map, and
\* takes the runtime along to stop it when there was one.
LEMMA SlotHandled ==
  ASSUME TypeOK, RuntimeInv, NEW p \in Actors, NEW to \in ActorState, Moves(p, to),
         NEW g \in DOMAIN slots, NEW s \in Slot, Sound(s), slots' = [slots EXCEPT ![g] = s],
         UNCHANGED <<service, known, world, backoffOn>>, current' \in {0, current},
         p \in Callers \/ actor[p].pc # "idle",
         actor[p].pc \notin Starting \cup Calling \cup Owning,
         to.pc \notin Starting \cup Calling, to.pc \in Stopping \cup {"wait"} => to.gen # 0,
         s.state # "starting" \/ slots[g].state = "starting", s.open => slots[g].open,
         s.state = "running" => slots[g].state = "running" /\ s.inFlight = slots[g].inFlight,
         current # 0 /\ slots[current].runtime =>
           \/ current' = current /\ (g = current => s.runtime)
           \/ to.gen = current /\ to.pc \in Stopping
  PROVE  TypeOK' /\ RuntimeInv'
<1>1. /\ slots' \in Seq(Slot) /\ Len(slots') = Len(slots) /\ DOMAIN slots' = DOMAIN slots
      /\ slots'[g] = s /\ \A h \in DOMAIN slots : h # g => slots'[h] = slots[h]
  BY SlotPut, SlotDomain DEF TypeOK
<1>2. /\ actor' \in [Actors -> ActorState] /\ actor'[p] = to
      /\ \A q \in Actors \ {p} : actor'[q] = actor[q]
  <2>1. actor \in [Actors -> ActorState] BY DEF TypeOK, ActorState
  <2> QED BY <2>1, MovesOne
<1>3. current \in 0..Len(slots) /\ 0 \in 0..Len(slots) /\ DOMAIN slots = 1..Len(slots)
  BY SlotDomain DEF TypeOK
<1>4. TypeOK' BY <1>1, <1>2, <1>3 DEF TypeOK, ActorState, service, world
<1>5. SlotsSound' BY <1>1 DEF RuntimeInv, SlotsSound
<1>6. HoldsSlot' /\ OneStarter' /\ LaunchedForSlot' /\ NoOrphan'
  <2>1. \A h \in DOMAIN slots : /\ slots'[h].state = "starting" => slots[h].state = "starting"
                                /\ slots'[h].open => slots[h].open
    BY <1>1
  <2>2. \A h \in Generations : Live(h)' => Live(h) /\ (h \in condemned => h \in condemned')
    BY DEF world, Live
  <2>3. \A h \in Generations : current = h /\ slots[h].runtime =>
          \/ current' = h /\ slots'[h].runtime
          \/ to.gen = h /\ to.pc \in Owning
    <3> SUFFICES ASSUME current \in Generations, slots[current].runtime
                 PROVE  \/ current' = current /\ slots'[current].runtime
                        \/ to.gen = current /\ to.pc \in Owning
      OBVIOUS
    <3>1. current # 0 /\ current \in DOMAIN slots BY <1>3, RuntimeAssumption DEF Generations
    <3> QED BY <1>1, <3>1 DEF Owning
  <2>4. to.pc \notin {"start", "unstarted"} BY DEF Starting
  <2>5. \A h \in Generations :
          Live(h)' =>
             /\ Live(h) \/ (h = to.gen /\ to.pc = "init")
             /\ h \in condemned => h \in condemned'
             /\ (current = h /\ slots[h].runtime) \/ (actor[p].gen = h /\ actor[p].pc \in Owning) =>
                  \/ current' = h /\ slots'[h].runtime
                  \/ h \in condemned'
                  \/ to.gen = h /\ to.pc \in Owning
    BY <2>2, <2>3
  <2> QED BY <1>1, <2>1, <2>4, <2>5, Step
<1>7. AdminIdle' BY AdminWaits DEF service
<1>8. InFlightExact'
  <2>1. InService(current)' => /\ current' = current /\ InService(current)
                               /\ slots'[current].inFlight = slots[current].inFlight
    <3>1. current # 0 => current \in DOMAIN slots BY <1>3
    <3> QED BY <1>1, <3>1 DEF InService
  <2>2. \A q \in Callers : (actor'[q].gen = current /\ actor'[q].pc \in Calling) <=>
                           (actor[q].gen = current /\ actor[q].pc \in Calling)
    BY <1>2 DEF Actors
  <2> QED BY <2>1, <2>2, InFlightKept DEF RuntimeInv
<1> QED BY <1>4, <1>5, <1>6, <1>7, <1>8 DEF RuntimeInv

\* Finding the runtime in service keeps the invariant (EnsureReady, running).
LEMMA Readied ==
  ASSUME TypeOK, RuntimeInv, NEW p \in Actors, Ensure(p), Ready(p)
  PROVE  TypeOK' /\ RuntimeInv'
<1>1. /\ actor[p].pc = "checked" /\ UNCHANGED <<service, known, world, backoffOn>>
      /\ current # 0 /\ Moves(p, At("ready", current)) /\ current' = current
  BY DEF Ensure, Ready, InService
<1>2. PICK s \in Forgiven(slots[current]) : slots' = [slots EXCEPT ![current] = s]
  BY DEF Ready
<1>3. /\ current \in DOMAIN slots /\ slots[current] \in Slot /\ Sound(slots[current])
  BY <1>1, MapSlot
<1>4. /\ s \in Slot /\ Sound(s) /\ s.state = slots[current].state /\ s.open = slots[current].open
      /\ s.runtime = slots[current].runtime /\ s.inFlight = slots[current].inFlight
  BY <1>3, ForgivenSlot
<1>5. At("ready", current) \in ActorState BY Places DEF Place, TypeOK
<1> QED BY <1>1, <1>2, <1>3, <1>4, <1>5, SlotHandled DEF At, Starting, Calling, Owning, Stopping

\* Taking another version out of service keeps the invariant: who does so stops its process.
LEMMA Retired ==
  ASSUME TypeOK, RuntimeInv, NEW p \in Actors, Ensure(p), Retire(p)
  PROVE  TypeOK' /\ RuntimeInv'
<1>1. /\ actor[p].pc = "checked" /\ UNCHANGED <<service, known, world, backoffOn>>
      /\ current # 0 /\ current' = 0 /\ UNCHANGED slots
  BY DEF Ensure, Retire, InService
<1>2. PICK pc \in {"drop", "replace"} : Moves(p, At(pc, current))
  BY DEF Retire
<1>3. /\ current \in DOMAIN slots /\ slots[current] \in Slot /\ Sound(slots[current])
  BY <1>1, MapSlot
<1>4. slots' = [slots EXCEPT ![current] = slots[current]]
  BY <1>1, <1>3, LenProperties DEF TypeOK
<1>5. At(pc, current) \in ActorState /\ At(pc, current).pc = pc /\ At(pc, current).gen = current
  BY Places DEF Place, TypeOK, Stopping, At
<1>6. /\ actor[p].pc \notin Starting \cup Calling \cup Owning
      /\ At(pc, current).pc \notin Starting \cup Calling /\ At(pc, current).pc \in Stopping
  BY <1>1, <1>5 DEF Starting, Calling, Owning, Stopping
<1> QED BY <1>1, <1>2, <1>3, <1>4, <1>5, <1>6, SlotHandled

\* Waiting for a start, or superseding it, keeps the invariant (EnsureReady, starting).
LEMMA Awaited ==
  ASSUME TypeOK, RuntimeInv, NEW p \in Actors, Ensure(p), Await(p)
  PROVE  TypeOK' /\ RuntimeInv'
<1>1. /\ actor[p].pc = "checked" /\ UNCHANGED <<service, known, world, backoffOn>>
      /\ current # 0 /\ slots[current].state = "starting"
  BY DEF Ensure, Await
<1>2. /\ current \in DOMAIN slots /\ slots[current] \in Slot /\ Sound(slots[current])
  BY <1>1, MapSlot
<1>3. CASE Moves(p, At("wait", current)) /\ UNCHANGED <<current, slots>>
  <2>1. At("wait", current) \in ActorState BY Places DEF Place, TypeOK
  <2> QED BY <1>1, <1>3, <2>1, Stroll DEF At, Starting, Calling, Owning, Stopping
<1>4. ASSUME slots' = [slots EXCEPT ![current] = Superseded(slots[current])], current' = 0,
             NEW to \in {Fails(p), At("checked", 0)}, Moves(p, to)
      PROVE  TypeOK' /\ RuntimeInv'
  <2>1. to \in ActorState /\ to.pc \in {"failed", "idle", "checked"} BY Places DEF At
  <2>2. ~slots[current].runtime BY <1>1, <1>2 DEF Sound, Slot
  <2> DEFINE s == Superseded(slots[current])
  <2>3. s \in Slot /\ Sound(s) /\ s.state = "failed" /\ ~s.open
    BY <1>1, <1>2, SupersededSlot
  <2>4. actor[p].pc \notin Starting \cup Calling \cup Owning
    BY <1>1 DEF Starting, Calling, Owning, Stopping
  <2>5. to.pc \notin Starting \cup Calling \cup Stopping \cup {"wait"}
    BY <2>1 DEF Starting, Calling, Stopping
  <2> HIDE DEF s
  <2>6. slots' = [slots EXCEPT ![current] = s] BY <1>4 DEF s
  <2> QED BY <1>1, <1>2, <1>4, <2>1, <2>2, <2>3, <2>4, <2>5, <2>6, SlotHandled
<1> QED BY <1>3, <1>4 DEF Await

\* Backoff and quarantine keep the invariant: such a slot has no runtime to forget.
LEMMA Refused ==
  ASSUME TypeOK, RuntimeInv, NEW p \in Actors, Ensure(p), Refuse(p) \/ Unregistered(p)
  PROVE  TypeOK' /\ RuntimeInv'
<1>1. /\ actor[p].pc = "checked" /\ UNCHANGED <<service, known, world, backoffOn, slots>>
      /\ current' = current \/ (current # 0 /\ slots[current].state \in {"backoff", "quarantined"}
                               /\ current' = 0)
  BY DEF Ensure, Refuse, Unregistered
<1>2. PICK to \in {Fails(p), At("checked", 0)} : Moves(p, to)
  BY DEF Refuse, Unregistered
<1>3. to \in ActorState /\ to.pc \in {"failed", "idle", "checked"} BY Places DEF At
<1>4. /\ actor[p].pc \notin Starting \cup Calling \cup Owning
      /\ to.pc \notin Starting \cup Calling \cup Stopping \cup {"wait"}
  BY <1>1, <1>3 DEF Starting, Calling, Owning, Stopping
<1>5. CASE current' = current
  BY <1>1, <1>2, <1>3, <1>4, <1>5, Stroll
<1>6. CASE current # 0 /\ slots[current].state \in {"backoff", "quarantined"} /\ current' = 0
  <2>1. /\ current \in DOMAIN slots /\ slots[current] \in Slot /\ Sound(slots[current])
    BY <1>6, MapSlot
  <2>2. ~slots[current].runtime BY <1>6, <2>1 DEF Sound, Slot
  <2>3. slots' = [slots EXCEPT ![current] = slots[current]]
    BY <1>1, <2>1, LenProperties DEF TypeOK
  <2> QED BY <1>1, <1>2, <1>3, <1>4, <1>6, <2>1, <2>2, <2>3, SlotHandled
<1> QED BY <1>1, <1>5, <1>6

\* A start takes the next generation, which nobody has and whose process never lived.
LEMMA Started ==
  ASSUME TypeOK, RuntimeInv, NEW p \in Actors, Ensure(p), Start(p)
  PROVE  TypeOK' /\ RuntimeInv'
<1> DEFINE n == Len(slots) + 1
           s == NewSlot(known, IF current = 0 THEN 0 ELSE slots[current].failures)
           to == At("start", n)
<1>1. /\ actor[p].pc = "checked" /\ UNCHANGED <<service, known, world, backoffOn>>
      /\ MayStart /\ known # None /\ Len(slots) < MaxGenerations
      /\ slots' = Append(slots, s) /\ current' = n /\ Moves(p, to)
  BY DEF Ensure, Start
<1>2. Len(slots) \in Nat /\ DOMAIN slots = 1..Len(slots) /\ n \in Generations /\ n \notin DOMAIN slots
  BY <1>1, SlotDomain, RuntimeAssumption DEF TypeOK, Generations
<1>3. s \in Slot /\ Sound(s) /\ s.state = "starting" /\ ~s.runtime
  <2>1. known \in Versions BY <1>1 DEF TypeOK
  <2>2. CASE current = 0 BY <2>1, <2>2, StartedSlot
  <2>3. CASE current # 0
    <3>1. slots[current] \in Slot /\ Sound(slots[current]) BY <2>3, MapSlot
    <3>2. slots[current].state # "quarantined" BY <1>1, <2>3 DEF MayStart
    <3>3. /\ slots[current].failures \in Nat
          /\ Threshold > 0 => slots[current].failures < Threshold
      BY <3>1, <3>2, RuntimeAssumption DEF Slot, Sound, QuarantineAtThreshold
    <3> QED BY <2>1, <2>3, <3>3, StartedSlot
  <2> QED BY <2>2, <2>3
<1>4. /\ slots' \in Seq(Slot) /\ Len(slots') = n /\ DOMAIN slots' = 1..n /\ slots'[n] = s
      /\ \A h \in DOMAIN slots : slots'[h] = slots[h]
  BY <1>1, <1>3, SlotNew DEF TypeOK
<1>5. current # 0 => ~slots[current].runtime
  BY <1>1, MapSlot DEF MayStart, Sound, Slot
<1>6. /\ actor' \in [Actors -> [pc : Place, gen : 0..n]] /\ actor'[p] = to
      /\ \A q \in Actors \ {p} : actor'[q] = actor[q]
  <2>1. actor \in [Actors -> [pc : Place, gen : 0..n]]
    BY <1>2 DEF TypeOK
  <2>2. to \in [pc : Place, gen : 0..n] BY <1>2 DEF At, Place, Starting
  <2> DEFINE S == [pc : Place, gen : 0..n]
  <2> HIDE DEF S, to
  <2>3. actor \in [Actors -> S] /\ to \in S /\ Moves(p, to) BY <1>1, <2>1, <2>2 DEF S
  <2>4. actor' \in [Actors -> S] /\ actor'[p] = to /\ \A q \in Actors \ {p} : actor'[q] = actor[q]
    BY <2>3, MovesOne
  <2> QED BY <2>4 DEF S
<1>7. to.pc = "start" /\ to.gen = n BY DEF At
<1>8. \A q \in Actors : actor[q].gen \in 0..Len(slots) BY DEF TypeOK
<1> HIDE DEF s, to
<1>9. TypeOK'
  <2>1. Len(slots') <= MaxGenerations /\ current' \in 0..Len(slots')
    BY <1>1, <1>2, <1>4, RuntimeAssumption
  <2>2. actor' \in [Actors -> [pc : Place, gen : 0..Len(slots')]] BY <1>4, <1>6
  <2> QED BY <1>1, <1>4, <2>1, <2>2 DEF TypeOK, service, world
<1>10. SlotsSound' BY <1>2, <1>3, <1>4 DEF RuntimeInv, SlotsSound
<1>11. HoldsSlot'
  <2>1. \A q \in Actors : actor'[q].pc \in Starting \cup Stopping \cup Calling \cup {"wait"} =>
          actor'[q].gen # 0
    BY <1>2, <1>6, <1>7 DEF RuntimeInv, HoldsSlot
  <2>2. ASSUME NEW q \in Actors, actor'[q].pc \in Calling
        PROVE  q \in Callers /\ slots'[actor'[q].gen].state # "starting"
    <3>1. actor'[q] = actor[q] BY <1>6, <1>7, <2>2 DEF Calling
    <3>2. actor[q].gen \in DOMAIN slots BY <1>2, <1>8, <2>1, <2>2, <3>1
    <3> QED BY <1>4, <2>2, <3>1, <3>2 DEF RuntimeInv, HoldsSlot
  <2> QED BY <2>1, <2>2 DEF HoldsSlot
<1>12. OneStarter'
  <2>1. \A q, r \in Actors : q # r /\ actor'[q].pc \in Starting /\ actor'[r].pc \in Starting =>
          actor'[q].gen # actor'[r].gen
    <3>1. \A q \in Actors : actor[q].gen # n BY <1>2, <1>8
    <3> QED BY <1>6, <1>7, <3>1 DEF RuntimeInv, OneStarter
  <2>2. proc'[n] \notin {"up", "deaf"}
    BY <1>1, <1>2 DEF RuntimeInv, LaunchedForSlot, world
  <2>3. \A q \in Actors : actor'[q].pc \in {"start", "unstarted"} =>
          proc'[actor'[q].gen] \notin {"up", "deaf"}
    BY <1>1, <1>6, <1>7, <2>2 DEF RuntimeInv, OneStarter, world
  <2>4. ASSUME NEW g \in DOMAIN slots', slots'[g].open
        PROVE  \E q \in Actors : actor'[q].gen = g /\ actor'[q].pc \in Starting
    <3>1. CASE g = n BY <1>6, <1>7, <3>1 DEF Starting
    <3>2. CASE g # n
      <4>1. g \in DOMAIN slots /\ slots[g].open BY <1>2, <1>4, <2>4, <3>2
      <4>2. PICK q \in Actors : actor[q].gen = g /\ actor[q].pc \in Starting
        BY <4>1 DEF RuntimeInv, OneStarter
      <4>3. q # p BY <1>1, <4>2 DEF Starting
      <4> QED BY <1>6, <4>2, <4>3
    <3> QED BY <3>1, <3>2
  <2> QED BY <2>1, <2>3, <2>4 DEF OneStarter
<1>13. LaunchedForSlot' BY <1>1, <1>2, <1>4 DEF RuntimeInv, LaunchedForSlot, world, Generations
<1>14. NoOrphan'
  <2> SUFFICES ASSUME NEW g \in Generations, proc'[g] \in {"up", "deaf"}
               PROVE  \/ g \in condemned'
                      \/ \E q \in Actors : actor'[q].gen = g /\ actor'[q].pc \in {"init", "started"} \cup Stopping
    BY DEF NoOrphan
  <2>1. \/ current = g /\ slots[g].runtime
        \/ g \in condemned
        \/ \E q \in Actors : actor[q].gen = g /\ actor[q].pc \in {"init", "started"} \cup Stopping
    BY <1>1 DEF RuntimeInv, NoOrphan, world
  <2>2. ~(current = g /\ slots[g].runtime) BY <1>5, RuntimeAssumption DEF Generations
  <2>3. actor[p].pc \notin {"init", "started"} \cup Stopping BY <1>1 DEF Stopping
  <2> QED BY <1>1, <1>6, <2>1, <2>2, <2>3 DEF world
<1>15. AdminIdle' BY <1>1, AdminWaits DEF service
<1>16. InFlightExact' BY <1>1, <1>3, <1>4 DEF InFlightExact, InService
<1> QED BY <1>9, <1>10, <1>11, <1>12, <1>13, <1>14, <1>15, <1>16 DEF RuntimeInv

\* A start ends: the slot is closed, and its process is in service, dead or handed over
\* to be stopped.
LEMMA Completed ==
  ASSUME TypeOK, RuntimeInv, NEW p \in Actors, Complete(p)
  PROVE  TypeOK' /\ RuntimeInv'
<1> DEFINE g == actor[p].gen
<1>1. /\ actor[p].pc \in {"started", "unstarted"}
      /\ UNCHANGED <<service, known, current, world, backoffOn>>
  BY DEF Complete
<1>2. g \in DOMAIN slots /\ g \in Generations /\ slots[g] \in Slot /\ Sound(slots[g])
  BY <1>1, InHand DEF Starting, RuntimeInv, SlotsSound
<1>3. PICK s \in Slot, to \in ActorState :
        /\ slots' = [slots EXCEPT ![g] = s] /\ Moves(p, to)
        /\ Sound(s) /\ ~s.open
        /\ s.state = "starting" => slots[g].state = "starting"
        /\ slots[g].runtime => s.runtime
        /\ s.state = "running" => \/ slots[g].state = "running" /\ s.inFlight = slots[g].inFlight
                                  \/ slots[g].state = "starting" /\ s.inFlight = 0
        /\ to.pc \in {"drop", "failed", "idle", "ready"} /\ (to.pc = "drop" => to.gen = g)
        /\ actor[p].pc = "started" => to.pc = "drop" \/ (current = g /\ s.runtime)
  <2>1. CASE /\ slots' = [slots EXCEPT ![g] = Abandoned(slots[g])] /\ Loser(p, g)
    <3>1. At("drop", g) \in ActorState BY Places DEF Place, Stopping, ActorState
    <3>2. Moves(p, At("drop", g)) \/ (actor[p].pc # "started" /\ Moves(p, Fails(p)))
      BY <2>1 DEF Loser
    <3>3. PICK to \in ActorState :
            /\ Moves(p, to) /\ to.pc \in {"drop", "failed", "idle"} /\ (to.pc = "drop" => to.gen = g)
            /\ actor[p].pc = "started" => to.pc = "drop"
      BY <3>1, <3>2, Places DEF At
    <3> QED BY <1>2, <2>1, <3>3, AbandonedSlot
  <2>2. CASE /\ current = g /\ slots[g].state = "starting" /\ actor[p].pc = "unstarted"
             /\ \E f \in Marked(slots[g]) : slots' = [slots EXCEPT ![g] = [f EXCEPT !.open = FALSE]]
             /\ Moves(p, Fails(p))
    <3>1. PICK f \in Marked(slots[g]) : slots' = [slots EXCEPT ![g] = [f EXCEPT !.open = FALSE]]
      BY <2>2
    <3>2. f \in Slot /\ Sound(f) /\ f.state \notin {"running", "starting"}
      BY <1>2, <2>2, MarkedSlot
    <3> DEFINE s == [f EXCEPT !.open = FALSE]
    <3>3. s \in Slot /\ Sound(s) /\ ~s.open /\ s.state \notin {"running", "starting"}
      BY <3>2 DEF Slot, Sound, QuarantineAtThreshold
    <3>4. ~slots[g].runtime BY <1>2, <2>2 DEF Sound
    <3>5. slots' = [slots EXCEPT ![g] = s] BY <3>1
    <3> HIDE DEF s
    <3> QED BY <2>2, <3>3, <3>4, <3>5, Places
  <2>3. CASE /\ current = g /\ slots[g].state = "starting"
             /\ slots' = [slots EXCEPT ![g] = Serving(slots[g])] /\ Moves(p, At("ready", g))
    <3>1. At("ready", g) \in ActorState /\ At("ready", g).pc = "ready"
      BY Places DEF Place, ActorState, At
    <3> QED BY <1>2, <2>3, <3>1, ServingSlot
  <2> QED BY <2>1, <2>2, <2>3 DEF Complete
<1>4. /\ slots' \in Seq(Slot) /\ Len(slots') = Len(slots) /\ DOMAIN slots' = DOMAIN slots
      /\ slots'[g] = s /\ \A h \in DOMAIN slots : h # g => slots'[h] = slots[h]
  BY <1>2, <1>3, SlotPut, SlotDomain DEF TypeOK
<1>5. /\ actor' \in [Actors -> ActorState] /\ actor'[p] = to
      /\ \A q \in Actors \ {p} : actor'[q] = actor[q]
  <2>1. actor \in [Actors -> ActorState] BY DEF TypeOK, ActorState
  <2> QED BY <1>3, <2>1, MovesOne
<1>6. TypeOK' BY <1>1, <1>4, <1>5 DEF TypeOK, ActorState, service, world
<1>7. SlotsSound' BY <1>3, <1>4 DEF RuntimeInv, SlotsSound
<1>8. HoldsSlot' /\ OneStarter' /\ LaunchedForSlot' /\ NoOrphan'
  <2>1. \A h \in DOMAIN slots : /\ slots'[h].state = "starting" => slots[h].state = "starting"
                                /\ slots'[h].open => slots[h].open
    BY <1>3, <1>4
  <2>2. to.pc \notin Starting \cup Calling \cup {"wait"} /\ (to.pc \in Stopping => to.gen # 0)
    BY <1>2, <1>3, RuntimeAssumption DEF Starting, Calling, Stopping, Generations
  <2>3. ASSUME NEW h \in Generations, Live(h)'
        PROVE  /\ Live(h) /\ (h \in condemned => h \in condemned')
               /\ current = h /\ slots[h].runtime => current' = h /\ slots'[h].runtime
               /\ actor[p].gen = h /\ actor[p].pc \in Owning =>
                    (current' = h /\ slots'[h].runtime) \/ (to.gen = h /\ to.pc \in Owning)
    <3>1. Live(h) /\ (h \in condemned => h \in condemned') BY <1>1, <2>3 DEF world, Live
    <3>2. current = h /\ slots[h].runtime => current' = h /\ slots'[h].runtime
      <4>1. current = h => h \in DOMAIN slots BY MapSlot, RuntimeAssumption DEF Generations
      <4> QED BY <1>1, <1>3, <1>4, <4>1
    <3>3. actor[p].gen = h /\ actor[p].pc \in Owning =>
            (current' = h /\ slots'[h].runtime) \/ (to.gen = h /\ to.pc \in Owning)
      BY <1>1, <1>3, <1>4 DEF Owning, Stopping
    <3> QED BY <3>1, <3>2, <3>3
  <2>4. current' \in {0, current} /\ ~slots'[actor[p].gen].open BY <1>1, <1>3, <1>4
  <2>5. to.pc \notin {"start", "unstarted"} BY <2>2 DEF Starting
  <2> QED BY <1>3, <1>4, <2>1, <2>2, <2>3, <2>4, <2>5, Step
<1>9. AdminIdle' BY <1>1, <1>3, AdminWaits DEF service
<1>10. InFlightExact'
  <2>1. \A q \in Callers : (actor'[q].gen = current /\ actor'[q].pc \in Calling) <=>
                           (actor[q].gen = current /\ actor[q].pc \in Calling)
    BY <1>1, <1>3, <1>5 DEF Actors, Calling
  <2>2. CASE current = g /\ slots[g].state = "starting"
    <3>1. {q \in Callers : actor'[q].gen = current /\ actor'[q].pc \in Calling} = {}
      BY <2>1, <2>2 DEF RuntimeInv, HoldsSlot, Actors
    <3>2. s.state = "running" => s.inFlight = 0 BY <1>3, <2>2
    <3> QED BY <1>1, <1>4, <2>2, <3>1, <3>2, FS_EmptySet DEF InFlightExact, InService
  <2>3. CASE ~(current = g /\ slots[g].state = "starting")
    <3>1. InService(current)' => /\ InService(current)
                                 /\ slots'[current].inFlight = slots[current].inFlight
      <4>1. current # 0 => current \in DOMAIN slots BY MapSlot
      <4> QED BY <1>1, <1>3, <1>4, <2>3, <4>1 DEF InService
    <3> QED BY <1>1, <2>1, <3>1, InFlightKept DEF RuntimeInv
  <2> QED BY <2>2, <2>3
<1> QED BY <1>6, <1>7, <1>8, <1>9, <1>10 DEF RuntimeInv

\* A caller starts or ends the use of the runtime in service: it rewrites the slot it
\* holds and, when it fails the runtime, takes it along to stop it.
LEMMA SlotUsed ==
  ASSUME TypeOK, RuntimeInv, NEW p \in Callers, NEW to \in ActorState, Moves(p, to),
         InService(current), NEW s \in Slot, Sound(s), slots' = [slots EXCEPT ![current] = s],
         UNCHANGED <<service, known, current, world, backoffOn>>,
         actor[p].pc \notin Starting \cup Owning, s.state # "starting", s.open = slots[current].open,
         \/ to = At("call", current) /\ s.runtime
         \/ to = At("drop", current)
         \/ to = Idle /\ s.runtime,
         InFlightExact'
  PROVE  TypeOK' /\ RuntimeInv'
<1>1. /\ current \in DOMAIN slots /\ current \in Generations /\ current # 0
      /\ slots[current].state = "running"
  BY MapSlot DEF InService
<1>2. /\ slots' \in Seq(Slot) /\ Len(slots') = Len(slots) /\ DOMAIN slots' = DOMAIN slots
      /\ slots'[current] = s /\ \A h \in DOMAIN slots : h # current => slots'[h] = slots[h]
  BY <1>1, SlotPut, SlotDomain DEF TypeOK
<1>3. p \in Actors BY DEF Actors
<1>4. /\ actor' \in [Actors -> ActorState] /\ actor'[p] = to
      /\ \A q \in Actors \ {p} : actor'[q] = actor[q]
  <2>1. actor \in [Actors -> ActorState] BY DEF TypeOK, ActorState
  <2> QED BY <1>3, <2>1, MovesOne
<1>5. TypeOK' BY <1>2, <1>4 DEF TypeOK, ActorState, service, world
<1>6. SlotsSound' BY <1>2 DEF RuntimeInv, SlotsSound
<1>7. HoldsSlot' /\ OneStarter' /\ LaunchedForSlot' /\ NoOrphan'
  <2>1. \A h \in DOMAIN slots : /\ slots'[h].state = "starting" => slots[h].state = "starting"
                                /\ slots'[h].open => slots[h].open
    BY <1>2
  <2>2. /\ to.pc \in {"call", "drop", "idle"} /\ (to.pc # "idle" => to.gen = current)
        /\ to.pc = "drop" \/ s.runtime
    BY DEF At, Idle
  <2>3. ASSUME NEW h \in Generations, Live(h)'
        PROVE  /\ Live(h) /\ (h \in condemned => h \in condemned')
               /\ current = h => (current' = h /\ slots'[h].runtime) \/ (to.gen = h /\ to.pc \in Owning)
    BY <1>2, <2>2, <2>3 DEF world, Live, Owning, Stopping
  <2>4. /\ to.pc \notin Starting \cup {"start", "unstarted"}
        /\ to.pc \in Stopping \cup Calling \cup {"wait"} => to.gen = current
    BY <2>2 DEF Starting, Stopping, Calling
  <2>5. current' \in {0, current} /\ actor[p].pc \notin Starting OBVIOUS
  <2>6. \A h \in Generations :
          Live(h)' =>
             /\ Live(h) \/ (h = to.gen /\ to.pc = "init")
             /\ h \in condemned => h \in condemned'
             /\ (current = h /\ slots[h].runtime) \/ (actor[p].gen = h /\ actor[p].pc \in Owning) =>
                  \/ current' = h /\ slots'[h].runtime
                  \/ h \in condemned'
                  \/ to.gen = h /\ to.pc \in Owning
    BY <2>3
  <2> QED BY <1>1, <1>2, <1>3, <2>1, <2>4, <2>5, <2>6, Step
<1>8. AdminIdle' BY <1>3, AdminWaits DEF service
<1> QED BY <1>5, <1>6, <1>7, <1>8 DEF RuntimeInv

\* beginRuntimeUse keeps the invariant: the caller is counted as it becomes a user.
LEMMA Began ==
  ASSUME TypeOK, RuntimeInv, NEW p \in Actors, Begin(p)
  PROVE  TypeOK' /\ RuntimeInv'
<1> DEFINE g == actor[p].gen
<1>1. /\ p \in Callers /\ actor[p].pc = "ready"
      /\ UNCHANGED <<service, known, current, world, backoffOn>>
  BY DEF Begin
<1>2. actor[p].pc \notin Starting \cup Calling \cup Owning
  BY <1>1 DEF Starting, Calling, Owning, Stopping
<1>3. CASE ~InService(g)
  <2>1. Moves(p, Idle) /\ UNCHANGED slots BY <1>3 DEF Begin
  <2>2. Idle \in ActorState /\ Idle.pc = "idle" BY Places DEF Idle, At
  <2> QED BY <1>1, <1>2, <2>1, <2>2, Stroll DEF Starting, Calling, Stopping
<1>4. CASE InService(g)
  <2>1. current = g /\ current # 0 BY <1>4 DEF InService
  <2>2. /\ current \in DOMAIN slots /\ slots[current] \in Slot /\ Sound(slots[current])
        /\ slots[current].state = "running" /\ InService(current)
    BY <1>4, <2>1, MapSlot DEF InService
  <2> DEFINE n == slots[current].inFlight + 1
             s == [slots[current] EXCEPT !.inFlight = n]
  <2>3. slots' = [slots EXCEPT ![current] = s] /\ Moves(p, At("call", current))
    BY <1>4, <2>1 DEF Begin
  <2>4. /\ actor'[p] = At("call", current) /\ \A q \in Actors \ {p} : actor'[q] = actor[q]
    BY <2>3 DEF Moves, TypeOK
  <2>5. Users(current)' = Users(current) \cup {p} /\ p \notin Users(current)
    <3>1. \A q \in Callers : (actor'[q].gen = current /\ actor'[q].pc \in Calling) <=>
                             (q = p \/ (actor[q].gen = current /\ actor[q].pc \in Calling))
      BY <2>4 DEF Actors, Calling, At
    <3>2. Users(current)' = {q \in Callers : actor'[q].gen = current /\ actor'[q].pc \in Calling}
      BY <1>1 DEF Users
    <3> QED BY <1>1, <1>2, <3>1, <3>2 DEF Users
  <2>6. slots[current].inFlight = Cardinality(Users(current))
    BY <2>2 DEF RuntimeInv, InFlightExact, Users
  <2>7. n = Cardinality(Users(current)') /\ n \in 0..Cardinality(Callers)
    <3>1. Cardinality(Users(current) \cup {p}) = Cardinality(Users(current)) + 1
      BY <2>5, UsersCounted, FS_AddElement
    <3>2. Users(current) \cup {p} \in SUBSET Callers BY <1>1 DEF Users
    <3>3. Cardinality(Users(current) \cup {p}) <= Cardinality(Callers)
      BY <3>2, FS_Subset, RuntimeAssumption
    <3> QED BY <2>5, <2>6, <3>1, <3>3, UsersCounted
  <2>8. s \in Slot /\ Sound(s) /\ s.state = "running" /\ s.open = slots[current].open /\ s.inFlight = n
    BY <2>2, <2>7, UsedSlot DEF Slot
  <2>9. s.runtime BY <2>8 DEF Sound
  <2> HIDE DEF s, n
  <2>10. InFlightExact'
    <3>1. slots'[current'].inFlight = n
      BY <1>1, <2>2, <2>3, <2>8, SlotPut, SlotDomain DEF TypeOK
    <3>2. Users(current)' = {q \in Callers : actor'[q].gen = current' /\ actor'[q].pc \in Calling}
      BY <1>1 DEF Users
    <3> QED BY <2>7, <3>1, <3>2 DEF InFlightExact
  <2>11. At("call", current) \in ActorState BY Places DEF Place, Calling, TypeOK
  <2> QED BY <1>1, <1>2, <2>2, <2>3, <2>8, <2>9, <2>10, <2>11, SlotUsed
<1> QED BY <1>3, <1>4

\* finishRuntimeUse keeps the invariant: the use it takes off the count is its own.
LEMMA Finished ==
  ASSUME TypeOK, RuntimeInv, NEW p \in Actors, Finish(p)
  PROVE  TypeOK' /\ RuntimeInv'
<1> DEFINE g == actor[p].gen
           erred == actor[p].pc = "erred"
<1>1. /\ actor[p].pc \in {"answered", "erred"}
      /\ UNCHANGED <<service, known, current, world, backoffOn>>
  BY DEF Finish
<1>2. /\ p \in Callers /\ actor[p].pc \in Calling /\ actor[p].pc \notin Starting \cup Owning
      /\ g \in DOMAIN slots /\ g \in Generations
  BY <1>1, InHand DEF RuntimeInv, HoldsSlot, Starting, Calling, Owning, Stopping
<1>3. CASE ~StillHeld(g)
  <2>1. Moves(p, Idle) /\ UNCHANGED slots BY <1>3 DEF Finish
  <2>2. Idle \in ActorState /\ Idle.pc = "idle" BY Places DEF Idle, At
  <2>3. ~InService(g) BY <1>2, <1>3 DEF StillHeld, InService, RuntimeInv, SlotsSound, Sound
  <2>4. /\ proc' \in [Generations -> {"none", "up", "deaf", "gone"}] /\ alarm' \subseteq Generations
        /\ \A h \in Generations : Live(h)' => Live(h)
        /\ UNCHANGED condemned
    BY <1>1 DEF TypeOK, world, Live
  <2> QED BY <1>1, <1>2, <2>1, <2>2, <2>3, <2>4, Walk DEF Starting, Calling, Stopping
<1>4. CASE StillHeld(g)
  <2>1. current = g /\ slots[g].runtime BY <1>4 DEF StillHeld
  <2>2. /\ slots[current] \in Slot /\ Sound(slots[current]) /\ slots[current].state = "running"
        /\ current # 0 /\ InService(current)
    BY <1>2, <2>1, MapSlot, RuntimeAssumption DEF Sound, InService, Generations
  <2> DEFINE n == slots[current].inFlight - 1
             r == [slots[current] EXCEPT !.inFlight = n]
  <2>3. PICK s \in IF erred THEN Marked(r) ELSE Forgiven(r) : slots' = [slots EXCEPT ![current] = s]
    BY <1>4, <2>1 DEF Finish, Released
  <2>4. Moves(p, IF erred THEN At("drop", current) ELSE Idle)
    BY <1>4, <2>1 DEF Finish
  <2>5. /\ actor'[p].pc \notin Calling /\ \A q \in Actors \ {p} : actor'[q] = actor[q]
    BY <2>4 DEF Moves, TypeOK, At, Idle, Calling
  <2>6. Users(current)' = Users(current) \ {p} /\ p \in Users(current)
    <3>1. \A q \in Callers : (actor'[q].gen = current /\ actor'[q].pc \in Calling) <=>
                             (q # p /\ actor[q].gen = current /\ actor[q].pc \in Calling)
      BY <2>5 DEF Actors
    <3>2. Users(current)' = {q \in Callers : actor'[q].gen = current /\ actor'[q].pc \in Calling}
      BY <1>1 DEF Users
    <3> QED BY <1>2, <2>1, <3>1, <3>2 DEF Users
  <2>7. slots[current].inFlight = Cardinality(Users(current))
    BY <2>2 DEF RuntimeInv, InFlightExact, Users
  <2>8. n = Cardinality(Users(current)') /\ n \in 0..Cardinality(Callers)
    <3>1. /\ IsFiniteSet(Users(current) \ {p})
          /\ Cardinality(Users(current) \ {p}) = Cardinality(Users(current)) - 1
      BY <2>6, UsersCounted, FS_RemoveElement
    <3>2. Cardinality(Users(current) \ {p}) \in Nat BY <3>1, FS_CardinalityType
    <3> QED BY <2>6, <2>7, <3>1, <3>2, UsersCounted
  <2>9. r \in Slot /\ Sound(r) /\ r.state = "running" /\ r.open = slots[current].open /\ r.inFlight = n
    BY <2>2, <2>8, UsedSlot DEF Slot
  <2> HIDE DEF r, n
  <2>10. /\ s \in Slot /\ Sound(s) /\ s.state # "starting" /\ s.open = slots[current].open
         /\ s.state = "running" => s.inFlight = n
         /\ erred \/ (s.runtime /\ s.state = "running")
    <3>1. CASE erred BY <2>3, <2>9, <3>1, MarkedSlot
    <3>2. CASE ~erred
      <4>1. s \in Forgiven(r) BY <2>3, <3>2
      <4>2. s \in Slot /\ Sound(s) /\ s.state = "running" /\ s.open = r.open /\ s.inFlight = n
        BY <2>9, <4>1, ForgivenSlot
      <4> QED BY <2>9, <4>2 DEF Sound
    <3> QED BY <3>1, <3>2
  <2>11. InFlightExact'
    <3>1. slots'[current'] = s
      BY <1>1, <1>2, <2>1, <2>3, <2>10, SlotPut, SlotDomain DEF TypeOK
    <3>2. Users(current)' = {q \in Callers : actor'[q].gen = current' /\ actor'[q].pc \in Calling}
      BY <1>1 DEF Users
    <3> QED BY <2>8, <2>10, <3>1, <3>2 DEF InFlightExact, InService
  <2>12. At("drop", current) \in ActorState /\ Idle \in ActorState
    BY Places DEF Place, Stopping, TypeOK
  <2>13. CASE erred
    <3>1. Moves(p, At("drop", current)) BY <2>4, <2>13
    <3> QED BY <1>1, <1>2, <2>2, <2>3, <2>10, <2>11, <2>12, <3>1, SlotUsed
  <2>14. CASE ~erred
    <3>1. Moves(p, Idle) BY <2>4, <2>14
    <3> QED BY <1>1, <1>2, <2>2, <2>3, <2>10, <2>11, <2>12, <2>14, <3>1, SlotUsed
  <2> QED BY <2>13, <2>14
<1> QED BY <1>3, <1>4

\* recordRuntimeError keeps the invariant: the runtime it fails is in the hands of its caller.
LEMMA Blamed ==
  ASSUME TypeOK, RuntimeInv, NEW p \in Actors, Blame(p)
  PROVE  TypeOK' /\ RuntimeInv'
<1>1. /\ actor[p].pc = "blame" /\ UNCHANGED <<service, known, current, world, backoffOn>>
      /\ actor[p].pc \notin Starting \cup Calling \cup Owning
  BY DEF Blame, Starting, Calling, Owning, Stopping
<1>2. /\ Fails(p) \in ActorState /\ Fails(p).pc \notin Starting \cup Calling \cup Stopping \cup {"wait"}
  BY Places DEF Starting, Calling, Stopping
<1>3. CASE ~(current # 0 /\ slots[current].state \in {"running", "starting"})
  BY <1>1, <1>2, <1>3, Stroll DEF Blame
<1>4. CASE current # 0 /\ slots[current].state \in {"running", "starting"}
  <2>1. PICK s \in Marked(slots[current]) : slots' = [slots EXCEPT ![current] = s]
    BY <1>4 DEF Blame
  <2>2. /\ current \in DOMAIN slots /\ slots[current] \in Slot /\ Sound(slots[current])
    BY <1>4, MapSlot
  <2>3. /\ s \in Slot /\ Sound(s) /\ s.state \notin {"running", "starting"}
        /\ s.open = slots[current].open
    BY <1>4, <2>2, MarkedSlot
  <2>4. CASE slots[current].runtime
    <3>1. Moves(p, At("drop", current)) BY <1>4, <2>4 DEF Blame
    <3>2. /\ At("drop", current) \in ActorState /\ At("drop", current).pc = "drop"
          /\ At("drop", current).gen = current
      BY Places DEF Place, Stopping, TypeOK, At
    <3> QED BY <1>1, <1>4, <2>1, <2>2, <2>3, <3>1, <3>2, SlotHandled DEF Starting, Calling, Stopping
  <2>5. CASE ~slots[current].runtime
    <3>1. Moves(p, Fails(p)) BY <1>4, <2>5 DEF Blame
    <3> QED BY <1>1, <1>2, <2>1, <2>2, <2>3, <2>5, <3>1, SlotHandled
  <2> QED BY <2>4, <2>5
<1> QED BY <1>3, <1>4

\* Stop takes the slot out of the map, and the process along if there is one.
LEMMA Halted ==
  ASSUME TypeOK, RuntimeInv, Halt
  PROVE  TypeOK' /\ RuntimeInv'
<1>1. /\ actor[Admin].pc = "unregister" /\ UNCHANGED <<service, known, world, backoffOn>>
      /\ current' = 0 /\ Admin \in Actors
      /\ actor[Admin].pc \notin Starting \cup Calling \cup Owning
  BY DEF Halt, Starting, Calling, Owning, Stopping, Actors
<1>2. /\ At("stopped", 0) \in ActorState
      /\ At("stopped", 0).pc \notin Starting \cup Calling \cup Stopping \cup {"wait"}
  BY <1>1, Places DEF At, Starting, Calling, Stopping
<1>3. CASE current = 0
  <2>1. Moves(Admin, At("stopped", 0)) /\ UNCHANGED <<current, slots>> BY <1>1, <1>3 DEF Halt
  <2> QED BY <1>1, <1>2, <2>1, Stroll
<1>4. CASE current # 0
  <2>1. /\ current \in DOMAIN slots /\ slots[current] \in Slot /\ Sound(slots[current])
    BY <1>4, MapSlot
  <2>2. CASE slots[current].state = "starting"
    <3>1. /\ slots' = [slots EXCEPT ![current] = Superseded(slots[current])]
          /\ ~slots[current].runtime /\ Moves(Admin, At("stopped", 0))
      BY <1>4, <2>1, <2>2 DEF Halt, Sound
    <3>2. /\ Superseded(slots[current]) \in Slot /\ Sound(Superseded(slots[current]))
          /\ Superseded(slots[current]).state = "failed" /\ ~Superseded(slots[current]).open
      BY <2>1, <2>2, SupersededSlot
    <3> QED BY <1>1, <1>2, <2>1, <3>1, <3>2, SlotHandled
  <2>3. CASE slots[current].state # "starting"
    <3>1. slots' = [slots EXCEPT ![current] = slots[current]]
      BY <2>1, <2>3, LenProperties DEF Halt, TypeOK
    <3>2. CASE slots[current].runtime
      <4>1. Moves(Admin, At("halt", current)) BY <1>4, <3>2 DEF Halt
      <4>2. /\ At("halt", current) \in ActorState /\ At("halt", current).pc = "halt"
            /\ At("halt", current).gen = current
        BY <1>1, Places DEF Place, Stopping, TypeOK, At
      <4> QED BY <1>1, <1>4, <2>1, <2>3, <3>1, <4>1, <4>2, SlotHandled DEF Starting, Calling, Stopping
    <3>3. CASE ~slots[current].runtime
      <4>1. Moves(Admin, At("stopped", 0)) BY <3>3 DEF Halt
      <4> QED BY <1>1, <1>2, <2>1, <2>3, <3>1, <3>3, <4>1, SlotHandled
    <3> QED BY <3>2, <3>3
  <2> QED BY <2>2, <2>3
<1> QED BY <1>3, <1>4
-----------------------------------------------------------------------------
(* Administration *)

\* An administrative step touches no slot: the administrator moves between places
\* where it holds no runtime.
LEMMA AdminMoves ==
  ASSUME TypeOK, RuntimeInv, NEW to \in ActorState, Moves(Admin, to),
         UNCHANGED <<current, slots, world, backoffOn>>,
         row' \in Row, order' \in Order, orders' \in Nat,
         registered' \in Versions \cup {None}, known' \in Versions \cup {None},
         actor[Admin].pc \notin Starting \cup Calling \cup Owning,
         to.pc \notin Starting \cup Calling \cup Stopping \cup {"wait"},
         order'.op = None => to.pc = "idle"
  PROVE  TypeOK' /\ RuntimeInv'
<1>1. Admin \in Actors BY DEF Actors
<1>2. /\ actor' \in [Actors -> ActorState] /\ actor'[Admin] = to
      /\ \A q \in Actors \ {Admin} : actor'[q] = actor[q]
  <2>1. actor \in [Actors -> ActorState] BY DEF TypeOK, ActorState
  <2> QED BY <1>1, <2>1, MovesOne
<1>3. TypeOK' BY <1>2 DEF TypeOK, ActorState, world
<1>4. HoldsSlot' /\ OneStarter' /\ LaunchedForSlot' /\ NoOrphan'
  <2>1. to.pc \notin {"start", "unstarted"} /\ current' \in {0, current} BY DEF Starting
  <2>2. \A h \in Generations :
          Live(h)' =>
             /\ Live(h) \/ (h = to.gen /\ to.pc = "init")
             /\ h \in condemned => h \in condemned'
             /\ (current = h /\ slots[h].runtime) \/ (actor[Admin].gen = h /\ actor[Admin].pc \in Owning) =>
                  \/ current' = h /\ slots'[h].runtime
                  \/ h \in condemned'
                  \/ to.gen = h /\ to.pc \in Owning
    BY DEF world, Live
  <2> QED BY <1>1, <2>1, <2>2, Step
<1>5. SlotsSound' BY DEF RuntimeInv, SlotsSound
<1>6. AdminIdle' BY <1>2 DEF AdminIdle
<1>7. InFlightExact'
  <2>1. InService(current)' => InService(current) BY DEF InService
  <2>2. \A q \in Callers : actor'[q] = actor[q] BY <1>2, RuntimeAssumption DEF Actors
  <2> QED BY <2>1, <2>2, InFlightKept DEF RuntimeInv
<1> QED BY <1>3, <1>4, <1>5, <1>6, <1>7 DEF RuntimeInv

\* An operation that returns leaves the administrator idle and the row well formed.
LEMMA DoneKeeps ==
  ASSUME TypeOK, NEW ok, Done(ok)
  PROVE  /\ row' \in Row /\ order' \in Order /\ orders' \in Nat /\ Moves(Admin, Idle)
         /\ Idle \in ActorState /\ Idle.pc = "idle"
<1>1. NoRow \in Row /\ NoOrder \in Order /\ [NoOrder EXCEPT !.op = "closed"] \in Order
  BY DEF NoRow, NoOrder, Row, Order
<1>2. Restored(order.prev) \in Row BY DEF TypeOK, Restored, Order, Row
<1>3. Idle \in ActorState /\ Idle.pc = "idle" BY SlotDomain DEF TypeOK, Idle, At, ActorState, Place
<1>4. row' \in {row, NoRow, Restored(order.prev)} BY DEF Done
<1> QED BY <1>1, <1>2, <1>3, <1>4 DEF TypeOK, Done

\* An operation that goes on with its next step leaves the order well formed.
LEMMA ThenKeeps ==
  ASSUME TypeOK, NEW step \in {"register", "unregister"}, NEW next \in {"register", "end", "fail"},
         Then(step, next)
  PROVE  /\ row' \in Row /\ order' \in Order /\ orders' \in Nat /\ Moves(Admin, At(step, 0))
         /\ order'.op = order.op /\ At(step, 0) \in ActorState /\ At(step, 0).pc = step
<1>1. order' \in Order /\ order'.op = order.op BY DEF TypeOK, Then, Order
<1>2. At(step, 0) \in ActorState /\ At(step, 0).pc = step
  BY SlotDomain DEF TypeOK, At, ActorState, Place
<1> QED BY <1>1, <1>2 DEF TypeOK, Then

\* An operation that begins keeps the invariant: the administrator was idle.
LEMMA OrdersKeep ==
  ASSUME TypeOK, RuntimeInv,
         NEW op \in {"enable", "disable", "restart", "delete", "close"},
         NEW v \in Versions \cup {None}, NEW pc \in {"register", "unregister"},
         NEW next \in {"register", "end"}, Orders(op, v, pc, next), row' \in Row
  PROVE  TypeOK' /\ RuntimeInv'
<1>1. order' \in Order /\ order'.op # None /\ orders' \in Nat
  BY DEF TypeOK, Orders, Order, None
<1>2. At(pc, 0) \in ActorState /\ At(pc, 0).pc = pc
  BY SlotDomain DEF TypeOK, At, ActorState, Place
<1>3. actor[Admin].pc \notin Starting \cup Calling \cup Owning
  BY DEF Orders, RuntimeInv, AdminIdle, Starting, Calling, Owning, Stopping
<1>4. pc \notin Starting \cup Calling \cup Stopping \cup {"wait"} BY DEF Starting, Calling, Stopping
<1>5. /\ registered' \in Versions \cup {None} /\ known' \in Versions \cup {None}
      /\ UNCHANGED <<current, slots, world, backoffOn>> /\ Moves(Admin, At(pc, 0))
  BY DEF Orders, TypeOK
<1> QED BY <1>1, <1>2, <1>3, <1>4, <1>5, AdminMoves

\* Every administrative step keeps the invariant.
LEMMA Administered ==
  ASSUME TypeOK, RuntimeInv, Administer
  PROVE  TypeOK' /\ RuntimeInv'
<1>1. ASSUME EnablePlugin \/ DisablePlugin \/ RestartPlugin \/ DeletePlugin \/ Close
      PROVE  TypeOK' /\ RuntimeInv'
  <2>1. Installed \subseteq Versions \cup {None} BY DEF TypeOK, Row, Installed
  <2>2. CASE EnablePlugin
    <3>1. PICK v \in Versions : Orders("enable", v, "register", "end") /\ row' = [enabled |-> TRUE, version |-> v]
      BY <2>2 DEF EnablePlugin
    <3>2. row' \in Row BY <3>1 DEF Row
    <3> QED BY <3>1, <3>2, OrdersKeep
  <2>3. CASE DisablePlugin
    <3>1. PICK v \in Installed : Orders("disable", v, "unregister", "end") /\ row' = [enabled |-> FALSE, version |-> v]
      BY <2>3 DEF DisablePlugin
    <3>2. row' \in Row BY <2>1, <3>1 DEF Row
    <3> QED BY <2>1, <3>1, <3>2, OrdersKeep
  <2>4. CASE RestartPlugin
    <3>1. PICK v \in Installed : Orders("restart", v, "unregister", "register") /\ UNCHANGED row
      BY <2>4 DEF RestartPlugin
    <3> QED BY <2>1, <3>1, OrdersKeep DEF TypeOK
  <2>5. CASE DeletePlugin BY <2>5, OrdersKeep DEF DeletePlugin, TypeOK
  <2>6. CASE Close BY <2>6, OrdersKeep DEF Close, TypeOK
  <2> QED BY <1>1, <2>2, <2>3, <2>4, <2>5, <2>6
<1>3. ASSUME RemovePlugin PROVE TypeOK' /\ RuntimeInv'
  <2>1. /\ actor[Admin].pc \in {"stopped", "failed"}
        /\ UNCHANGED <<current, slots, world, backoffOn>>
        /\ Then("register", "end") \/ \E ok \in BOOLEAN : Done(ok)
    BY <1>3 DEF RemovePlugin
  <2>2. registered' \in Versions \cup {None} /\ known' \in Versions \cup {None}
    BY <1>3 DEF RemovePlugin, TypeOK
  <2>3. actor[Admin].pc \notin Starting \cup Calling \cup Owning
    BY <2>1 DEF Starting, Calling, Owning, Stopping
  <2>4. CASE Then("register", "end")
    <3>1. order.op # None BY <2>1 DEF RuntimeInv, AdminIdle
    <3> QED BY <2>1, <2>2, <2>3, <2>4, <3>1, ThenKeeps, AdminMoves DEF Starting, Calling, Stopping
  <2>5. CASE \E ok \in BOOLEAN : Done(ok)
    BY <2>1, <2>2, <2>3, <2>5, DoneKeeps, AdminMoves DEF Starting, Calling, Stopping
  <2> QED BY <2>1, <2>4, <2>5
<1>4. ASSUME Register PROVE TypeOK' /\ RuntimeInv'
  <2>1. /\ actor[Admin].pc = "register" /\ UNCHANGED <<registered, current, slots, world, backoffOn>>
    BY <1>4 DEF Register
  <2>2. /\ actor[Admin].pc \notin Starting \cup Calling \cup Owning /\ order.op # None
    BY <2>1 DEF Starting, Calling, Owning, Stopping, RuntimeInv, AdminIdle
  <2>3. CASE Then("unregister", "register") /\ UNCHANGED known
    BY <2>1, <2>2, <2>3, ThenKeeps, AdminMoves DEF TypeOK, Starting, Calling, Stopping
  <2>4. ASSUME known' = order.version, UNCHANGED <<row, order, orders>>,
               NEW pc \in {"checked", "failed"}, Moves(Admin, At(pc, 0))
        PROVE  TypeOK' /\ RuntimeInv'
    <3>1. At(pc, 0) \in ActorState /\ At(pc, 0).pc = pc
      BY SlotDomain DEF TypeOK, At, ActorState, Place
    <3>2. row' \in Row /\ order' \in Order /\ orders' \in Nat /\ registered' \in Versions \cup {None}
          /\ known' \in Versions \cup {None}
      BY <2>1, <2>4 DEF TypeOK, Order
    <3> QED BY <2>1, <2>2, <2>4, <3>1, <3>2, AdminMoves DEF Starting, Calling, Stopping
  <2> QED BY <1>4, <2>3, <2>4 DEF Register
<1>5. ASSUME Registered PROVE TypeOK' /\ RuntimeInv'
  <2>1. /\ actor[Admin].pc \in {"ready", "failed"} /\ UNCHANGED <<known, current, slots, world, backoffOn>>
        /\ Then("unregister", "fail") \/ \E ok \in BOOLEAN : Done(ok)
    BY <1>5 DEF Registered
  <2>2. registered' \in Versions \cup {None} /\ known' \in Versions \cup {None}
    BY <1>5 DEF Registered, TypeOK, Order
  <2>3. /\ actor[Admin].pc \notin Starting \cup Calling \cup Owning /\ order.op # None
    BY <2>1 DEF Starting, Calling, Owning, Stopping, RuntimeInv, AdminIdle
  <2>4. CASE Then("unregister", "fail")
    BY <2>1, <2>2, <2>3, <2>4, ThenKeeps, AdminMoves DEF Starting, Calling, Stopping
  <2>5. CASE \E ok \in BOOLEAN : Done(ok)
    BY <2>1, <2>2, <2>3, <2>5, DoneKeeps, AdminMoves DEF Starting, Calling, Stopping
  <2> QED BY <2>1, <2>4, <2>5
<1> QED BY <1>1, <1>3, <1>4, <1>5, Halted DEF Administer
-----------------------------------------------------------------------------
\* The strengthening holds along every behaviour of the supervisor.
THEOREM RuntimeInductive == Spec => [](TypeOK /\ RuntimeInv)
<1>1. Init => TypeOK /\ RuntimeInv
  <2> SUFFICES ASSUME Init PROVE TypeOK /\ RuntimeInv
    OBVIOUS
  <2>1. /\ slots = <<>> /\ slots \in Seq(Slot) /\ Len(slots) = 0 /\ DOMAIN slots = {}
    BY EmptySeq, LenProperties DEF Init
  <2>2. /\ current = 0 /\ registered = None /\ known = None /\ orders = 0 /\ backoffOn \in BOOLEAN
        /\ alarm = {} /\ condemned = {} /\ proc = [g \in 1..MaxGenerations |-> "none"]
    BY DEF Init
  <2>3. /\ row \in Row /\ order \in Order
        /\ order.op # None \/ actor = [p \in Actors |-> Idle]
        /\ \A p \in Actors : actor[p] \in {Idle, At("register", 0)}
        /\ actor \in [Actors -> {Idle, At("register", 0)}]
    <3>1. CASE row = NoRow /\ order = NoOrder /\ actor = [p \in Actors |-> Idle]
      BY <3>1 DEF NoRow, NoOrder, Row, Order
    <3>2. CASE \E v \in Versions :
            /\ row = [enabled |-> TRUE, version |-> v]
            /\ order = [op |-> "load", version |-> v, prev |-> row, step |-> "register", next |-> "end"]
            /\ actor = [p \in Actors |-> IF p = Admin THEN At("register", 0) ELSE Idle]
      <4>1. order.op # None BY <3>2 DEF None
      <4>2. row \in Row BY <3>2 DEF Row
      <4>3. order \in Order BY <3>2, <4>2 DEF Order
      <4> QED BY <3>2, <4>1, <4>2, <4>3
    <3> QED BY <3>1, <3>2 DEF Init
  <2>4. Idle.pc = "idle" /\ Idle.gen = 0 /\ At("register", 0).pc = "register" /\ At("register", 0).gen = 0
    BY DEF Idle, At
  <2>5. TypeOK
    <3>1. {Idle, At("register", 0)} \subseteq [pc : Place, gen : 0..Len(slots)]
      BY <2>1 DEF Idle, At, Place
    <3>2. actor \in [Actors -> [pc : Place, gen : 0..Len(slots)]] BY <2>3, <3>1
    <3> QED BY <2>1, <2>2, <2>3, <3>2, RuntimeAssumption DEF TypeOK, Generations
  <2>6. \A p \in Actors : actor[p].pc \in {"idle", "register"} BY <2>3, <2>4
  <2>7. SlotsSound BY <2>1 DEF SlotsSound
  <2>8. HoldsSlot /\ OneStarter
    BY <2>1, <2>6 DEF HoldsSlot, OneStarter, Starting, Stopping, Calling
  <2>9. LaunchedForSlot /\ NoOrphan BY <2>2 DEF LaunchedForSlot, NoOrphan, Generations
  <2>10. AdminIdle BY <2>3, <2>4 DEF AdminIdle, Actors
  <2>11. InFlightExact BY <2>2 DEF InFlightExact, InService
  <2> QED BY <2>5, <2>7, <2>8, <2>9, <2>10, <2>11 DEF RuntimeInv
<1>2. TypeOK /\ RuntimeInv /\ [Next]_vars => TypeOK' /\ RuntimeInv'
  <2> SUFFICES ASSUME TypeOK, RuntimeInv, [Next]_vars PROVE TypeOK' /\ RuntimeInv'
    OBVIOUS
  <2>1. ASSUME NEW p \in Actors, Ensure(p) PROVE TypeOK' /\ RuntimeInv'
    <3>1. Ready(p) \/ Retire(p) \/ Await(p) \/ Refuse(p) \/ Start(p) \/ Unregistered(p)
      BY <2>1 DEF Ensure
    <3> QED BY <2>1, <3>1, Readied, Retired, Awaited, Refused, Started
  <2>2. ASSUME NEW p \in Actors,
               \/ Ask(p) \/ Awaken(p) \/ Launch(p) \/ Initialize(p) \/ Complete(p) \/ Begin(p)
               \/ Return(p) \/ Finish(p) \/ StopProcess(p) \/ Blame(p)
        PROVE  TypeOK' /\ RuntimeInv'
    BY <2>2, Asked, Awakened, Launched, Initialized, Completed, Began, Returned, Finished,
       ProcessStopped, Blamed
  <2>3. ASSUME NEW g \in Generations,
               Exit(g) \/ ProtocolError(g) \/ OnProtocolError(g) \/ StopCondemned(g)
        PROVE  TypeOK' /\ RuntimeInv'
    BY <2>3, ProcessEnds, ProcessErrs, ProtocolErrorSeen
  <2>4. CASE Reap \/ Observe \/ Administer
    BY <2>4, Reaped, Observed, Administered
  <2>5. CASE UNCHANGED vars
    <3>1. UNCHANGED <<row, registered, known, current, slots, proc, alarm, condemned, actor, order, orders, backoffOn>>
      BY <2>5 DEF vars, service, world
    <3> QED BY <3>1
        DEF TypeOK, RuntimeInv, SlotsSound, HoldsSlot, OneStarter, LaunchedForSlot, AdminIdle, NoOrphan,
            InFlightExact, InService
  <2> QED BY <2>1, <2>2, <2>3, <2>4, <2>5 DEF Next, Generations
<1> QED BY <1>1, <1>2, PTL DEF Spec

\* The rows, slots, processes and goroutines keep their types.
THEOREM TypeCorrect == Spec => []TypeOK
  BY RuntimeInductive, PTL

\* No process is forgotten, whatever superseded, failed or replaced its slot
\* (completeRuntimeStart, recordRuntimeErrorForGeneration).
THEOREM NothingOrphaned == Spec => []NoOrphan
<1>1. RuntimeInv => NoOrphan BY DEF RuntimeInv
<1> QED BY <1>1, RuntimeInductive, PTL

\* One crash counts once towards quarantine, and quarantine begins exactly at the
\* threshold (markRuntimeFailureLocked, finishRuntimeUse).
THEOREM CrashCountedOnce == Spec => []FailureCountedOnce
<1>1. RuntimeInv => FailureCountedOnce BY DEF RuntimeInv, SlotsSound, Sound, FailureCountedOnce
<1> QED BY <1>1, RuntimeInductive, PTL

\* Nobody waits for a start that nobody completes (waitForRuntimeSlot).
THEOREM NobodyWaitsInVain == Spec => []WaitersReleased
<1>1. TypeOK /\ RuntimeInv => WaitersReleased
  <2> SUFFICES ASSUME TypeOK, RuntimeInv, NEW p \in Actors, actor[p].pc = "wait",
                      slots[actor[p].gen].open
               PROVE  \E q \in Actors : actor[q].gen = actor[p].gen /\ actor[q].pc \in Starting
    BY DEF WaitersReleased
  <2>1. actor[p].gen \in DOMAIN slots BY InHand DEF RuntimeInv
  <2> QED BY <2>1 DEF RuntimeInv, OneStarter
<1> QED BY <1>1, RuntimeInductive, PTL

\* The runtime in service counts exactly the calls under way on it
\* (beginRuntimeUse, finishRuntimeUse): the reaper stops no runtime that is in use.
THEOREM UseCounted == Spec => []InFlightExact
<1>1. RuntimeInv => InFlightExact BY DEF RuntimeInv
<1> QED BY <1>1, RuntimeInductive, PTL
-----------------------------------------------------------------------------
(* A generation is retired for good *)

Retires ==
  \A g \in DOMAIN slots :
    /\ g # current => current' # g
    /\ g # current \/ slots[g].state \notin {"starting", "running"} =>
         slots'[g].state = slots[g].state /\ slots'[g].failures = slots[g].failures
    /\ slots'[g].state = "starting" => slots[g].state = "starting"

\* A slot but for the bounds of its count, which a use takes off before it is looked at.
Shape == [version : Versions, state : States, runtime : BOOLEAN, open : BOOLEAN, err : BOOLEAN,
          failures : Nat, base : Nat, inFlight : Int]

\* Forgiving leaves the state, and a failure ends a service (markRuntimeFailureLocked).
LEMMA StatesOf ==
  ASSUME NEW s \in Shape
  PROVE  /\ \A f \in Forgiven(s) : f \in Shape /\ f.state = s.state
         /\ \A f \in Marked(s) : f \in Shape /\ f.state \in {"quarantined", "backoff", "failed"}
<1>1. ASSUME NEW f \in Forgiven(s) PROVE f \in Shape /\ f.state = s.state
  BY <1>1 DEF Forgiven, Shape
<1>2. ASSUME NEW f \in Marked(s) PROVE f \in Shape /\ f.state \in {"quarantined", "backoff", "failed"}
  <2>1. PICK e \in Forgiven(s) :
          f = [e EXCEPT !.failures = @ + 1, !.err = TRUE, !.runtime = FALSE,
                        !.state = IF Quarantines(e.failures + 1) THEN "quarantined"
                                  ELSE IF backoffOn THEN "backoff" ELSE "failed"]
    BY DEF Marked
  <2>2. PICK state \in {"quarantined", "backoff", "failed"} :
          f = [e EXCEPT !.failures = @ + 1, !.err = TRUE, !.runtime = FALSE, !.state = state]
    BY <2>1
  <2>3. e \in Shape /\ e.failures + 1 \in Nat BY <1>1 DEF Shape
  <2>4. {"quarantined", "backoff", "failed"} \subseteq States BY DEF States
  <2>5. f \in Shape BY <2>2, <2>3, <2>4 DEF Shape
  <2>6. f.state = state BY <2>2, <2>3 DEF Shape
  <2> QED BY <2>5, <2>6
<1> QED BY <1>1, <1>2

\* The slots are numbered from 1, and the one in the map is one of them.
LEMMA SlotShapes ==
  ASSUME TypeOK
  PROVE  /\ 0 \notin DOMAIN slots /\ Len(slots) \in Nat /\ DOMAIN slots = 1..Len(slots)
         /\ current # 0 => current \in DOMAIN slots
         /\ \A g \in DOMAIN slots : slots[g] \in Slot /\ slots[g] \in Shape
<1>1. /\ Len(slots) \in Nat /\ DOMAIN slots = 1..Len(slots) /\ current \in 0..Len(slots)
      /\ \A g \in DOMAIN slots : slots[g] \in Slot
  BY SlotDomain DEF TypeOK
<1>2. ASSUME NEW s \in Slot PROVE s \in Shape
  <2>1. s.inFlight \in Int BY UsersCounted DEF Slot
  <2> QED BY <2>1 DEF Slot, Shape
<1>3. \A g \in DOMAIN slots : slots[g] \in Shape BY <1>1, <1>2
<1> QED BY <1>1, <1>3

\* A step that leaves the slots alone retires none wrongly, whether or not it empties the map.
LEMMA SlotsAlone ==
  ASSUME TypeOK, UNCHANGED slots, current' \in {current, 0}
  PROVE  Retires
  BY SlotShapes DEF Retires

\* Nor does one that rewrites the slot in the map while it starts or runs.
LEMMA MapSlotOnly ==
  ASSUME TypeOK, NEW s, current # 0, slots' = [slots EXCEPT ![current] = s],
         current' \in {current, 0}, slots[current].state \in {"starting", "running"},
         s.state = "starting" => slots[current].state = "starting"
  PROVE  Retires
<1>1. current \in DOMAIN slots /\ 0 \notin DOMAIN slots BY SlotShapes
<1>2. slots'[current] = s /\ \A g \in DOMAIN slots : g # current => slots'[g] = slots[g]
  BY <1>1, LenProperties DEF TypeOK
<1> QED BY <1>1, <1>2 DEF Retires

\* EnsureReady retires what it takes out of the map, and starts under a new generation.
LEMMA EnsureRetires ==
  ASSUME TypeOK, RuntimeInv, NEW p \in Actors, Ensure(p)
  PROVE  Retires
<1>1. CASE Ready(p)
  <2>1. /\ current # 0 /\ slots[current].state = "running" /\ current' = current
        /\ slots[current] \in Shape
    BY <1>1, SlotShapes DEF Ready, InService
  <2>2. PICK s \in Forgiven(slots[current]) : slots' = [slots EXCEPT ![current] = s]
    BY <1>1 DEF Ready
  <2>3. s.state = "running" BY <2>1, StatesOf
  <2> QED BY <2>1, <2>2, <2>3, MapSlotOnly
<1>2. CASE Retire(p) \/ Refuse(p) \/ Unregistered(p)
  <2>1. UNCHANGED slots /\ current' \in {current, 0}
    BY <1>2 DEF Retire, Refuse, Unregistered
  <2> QED BY <2>1, SlotsAlone
<1>3. CASE Await(p)
  <2>1. CASE UNCHANGED slots /\ current' = current BY <2>1, SlotsAlone
  <2>2. CASE slots' = [slots EXCEPT ![current] = Superseded(@)] /\ current' = 0
    <3>1. current # 0 /\ slots[current].state = "starting" BY <1>3 DEF Await
    <3>2. slots' = [slots EXCEPT ![current] = Superseded(slots[current])]
      BY <2>2
    <3> QED BY <2>2, <3>1, <3>2, MapSlotOnly
  <2> QED BY <1>3, <2>1, <2>2 DEF Await
<1>4. CASE Start(p)
  <2>1. current' = Len(slots) + 1 BY <1>4 DEF Start
  <2>2. PICK v, n : slots' = Append(slots, NewSlot(v, n)) BY <1>4 DEF Start
  <2>3. TypeOK' BY <1>4, Started DEF Ensure
  <2>4. \A g \in DOMAIN slots : slots'[g] = slots[g]
    BY <2>2, SlotShapes DEF TypeOK
  <2>5. Len(slots) + 1 \notin DOMAIN slots BY SlotShapes
  <2> QED BY <2>1, <2>4, <2>5 DEF Retires
<1> QED BY <1>1, <1>2, <1>3, <1>4 DEF Ensure

\* A start that completes late leaves the state of its slot (completeRuntimeStart).
LEMMA CompleteRetires ==
  ASSUME TypeOK, RuntimeInv, NEW p \in Actors, Complete(p)
  PROVE  Retires
<1> DEFINE g == actor[p].gen
           mine == current = g /\ slots[g].state = "starting"
<1>1. g \in DOMAIN slots /\ slots[g] \in Slot /\ slots[g] \in Shape /\ g # 0
  <2>1. actor[p].pc \in Starting BY DEF Complete, Starting
  <2> QED BY <2>1, InHand, SlotShapes DEF RuntimeInv
<1>2. current' = current BY DEF Complete
<1>3. CASE ~mine
  <2>1. slots' = [slots EXCEPT ![g] = Abandoned(slots[g])] BY <1>3 DEF Complete
  <2>2. Abandoned(slots[g]).state = slots[g].state /\ Abandoned(slots[g]).failures = slots[g].failures
    BY <1>1 DEF Abandoned, Slot
  <2>3. /\ slots'[g] = Abandoned(slots[g])
        /\ \A h \in DOMAIN slots : h # g => slots'[h] = slots[h]
    BY <1>1, <2>1, LenProperties DEF TypeOK
  <2> QED BY <1>2, <2>2, <2>3 DEF Retires
<1>4. CASE mine /\ actor[p].pc = "unstarted"
  <2>1. PICK s \in Marked(slots[g]) : slots' = [slots EXCEPT ![g] = [s EXCEPT !.open = FALSE]]
    BY <1>4 DEF Complete
  <2>2. [s EXCEPT !.open = FALSE].state # "starting" BY <1>1, StatesOf DEF Shape
  <2> QED BY <1>1, <1>2, <1>4, <2>1, <2>2, MapSlotOnly
<1>5. CASE mine /\ actor[p].pc = "started"
  <2>1. slots' = [slots EXCEPT ![g] = Serving(slots[g])] BY <1>5 DEF Complete
  <2> QED BY <1>1, <1>2, <1>5, <2>1, MapSlotOnly
<1> QED BY <1>3, <1>4, <1>5 DEF Complete

\* A use that begins or ends late leaves every slot (beginRuntimeUse, finishRuntimeUse).
LEMMA UseRetires ==
  ASSUME TypeOK, RuntimeInv, NEW p \in Actors, Begin(p) \/ Finish(p)
  PROVE  Retires
<1> DEFINE g == actor[p].gen
<1>1. current' = current BY DEF Begin, Finish
<1>2. CASE UNCHANGED slots BY <1>1, <1>2, SlotsAlone
<1>3. CASE Begin(p) /\ InService(g)
  <2>1. slots' = [slots EXCEPT ![g] = [slots[g] EXCEPT !.inFlight = @ + 1]] BY <1>3 DEF Begin
  <2>2. current = g /\ g # 0 /\ slots[g].state = "running" /\ slots[g] \in Slot
    BY <1>3, SlotShapes DEF InService
  <2>3. [slots[g] EXCEPT !.inFlight = @ + 1].state = "running" BY <2>2 DEF Slot
  <2> QED BY <1>1, <2>1, <2>2, <2>3, MapSlotOnly
<1>4. CASE Finish(p) /\ StillHeld(g)
  <2> DEFINE erred == actor[p].pc = "erred"
             r == [slots[g] EXCEPT !.inFlight = @ - 1]
  <2>1. current = g /\ g # 0
    <3>1. actor[p].pc \in Calling BY <1>4 DEF Finish, Calling
    <3> QED BY <1>4, <3>1 DEF RuntimeInv, HoldsSlot, StillHeld
  <2>2. slots[g] \in Shape /\ slots[g].state = "running"
    BY <1>4, <2>1, SlotShapes DEF StillHeld, RuntimeInv, SlotsSound, Sound
  <2>3. PICK s \in IF erred THEN Marked(r) ELSE Forgiven(r) : slots' = [slots EXCEPT ![g] = s]
    BY <1>4 DEF Finish, Released
  <2>4. r \in Shape /\ r.state = "running" BY <2>2 DEF Shape
  <2> HIDE DEF r
  <2>5. s.state # "starting" BY <2>3, <2>4, StatesOf
  <2> QED BY <1>1, <2>1, <2>2, <2>3, <2>5, MapSlotOnly
<1> QED BY <1>2, <1>3, <1>4 DEF Begin, Finish

\* A crash, a reap, a status and a stop concern the slot in the map while it starts or runs.
LEMMA WorldRetires ==
  ASSUME TypeOK, RuntimeInv,
         \/ \E g \in Generations : OnProtocolError(g)
         \/ \E p \in Actors : Blame(p)
         \/ Reap \/ Observe \/ Halt
  PROVE  Retires
<1>1. ASSUME NEW g \in Generations, OnProtocolError(g) PROVE Retires
  <2>1. current' = current BY <1>1 DEF OnProtocolError
  <2>2. CASE UNCHANGED slots BY <2>1, <2>2, SlotsAlone
  <2>3. CASE current = g /\ slots[g].state \in {"running", "starting"}
    <3>1. PICK s \in Marked(slots[g]) : slots' = [slots EXCEPT ![g] = s]
      BY <1>1, <2>3 DEF OnProtocolError
    <3>2. g # 0 BY DEF Generations
    <3>3. s.state # "starting" BY <2>3, <3>1, <3>2, StatesOf, SlotShapes
    <3> QED BY <2>1, <2>3, <3>1, <3>2, <3>3, MapSlotOnly
  <2> QED BY <1>1, <2>2, <2>3 DEF OnProtocolError
<1>2. ASSUME NEW p \in Actors, Blame(p) PROVE Retires
  <2>1. current' = current BY <1>2 DEF Blame
  <2>2. CASE UNCHANGED slots BY <2>1, <2>2, SlotsAlone
  <2>3. CASE current # 0 /\ slots[current].state \in {"running", "starting"}
    <3>1. PICK s \in Marked(slots[current]) : slots' = [slots EXCEPT ![current] = s]
      BY <1>2, <2>3 DEF Blame
    <3>2. s.state # "starting" BY <2>3, <3>1, StatesOf, SlotShapes
    <3> QED BY <2>1, <2>3, <3>1, <3>2, MapSlotOnly
  <2> QED BY <1>2, <2>2, <2>3 DEF Blame
<1>3. ASSUME Reap \/ Observe PROVE Retires
  <2>1. current # 0 /\ slots[current].state = "running" /\ current' = current
    BY <1>3 DEF Reap, Observe, InService
  <2>2. PICK f \in Forgiven(slots[current]) :
          \/ slots' = [slots EXCEPT ![current] = f]
          \/ slots' = [slots EXCEPT ![current] = [f EXCEPT !.runtime = FALSE, !.state = "stopped"]]
    BY <1>3 DEF Reap, Observe
  <2>3. f \in Shape /\ f.state = "running" BY <2>1, <2>2, StatesOf, SlotShapes
  <2>4. [f EXCEPT !.runtime = FALSE, !.state = "stopped"].state = "stopped" BY <2>3 DEF Shape
  <2> QED BY <2>1, <2>2, <2>3, <2>4, MapSlotOnly
<1>4. ASSUME Halt PROVE Retires
  <2>1. current' = 0 BY <1>4 DEF Halt
  <2>2. CASE UNCHANGED slots BY <2>1, <2>2, SlotsAlone
  <2>3. CASE /\ current # 0 /\ slots[current].state = "starting"
             /\ slots' = [slots EXCEPT ![current] = Superseded(slots[current])]
    BY <2>1, <2>3, MapSlotOnly
  <2> QED BY <1>4, <2>2, <2>3 DEF Halt
<1> QED BY <1>1, <1>2, <1>3, <1>4

\* A generation that left the map never returns, and one that failed or was stopped never
\* serves again and is blamed no more, whichever start, call, crash or reap comes late
\* (completeRuntimeStart, finishRuntimeUse, recordRuntimeErrorForGeneration).
THEOREM RetiredStayRetired == Spec => RetiredForGood
<1>1. TypeOK /\ RuntimeInv /\ [Next]_vars => [Retires]_vars
  <2> SUFFICES ASSUME TypeOK, RuntimeInv, Next PROVE Retires
    OBVIOUS
  <2>1. ASSUME NEW p \in Actors,
               Ask(p) \/ Awaken(p) \/ Launch(p) \/ Initialize(p) \/ Return(p) \/ StopProcess(p)
        PROVE  Retires
    <3>1. UNCHANGED <<slots, current>>
      BY <2>1 DEF Ask, Awaken, Launch, Initialize, Return, StopProcess
    <3> QED BY <3>1, SlotsAlone
  <2>2. ASSUME NEW g \in 1..MaxGenerations, Exit(g) \/ ProtocolError(g) \/ StopCondemned(g)
        PROVE  Retires
    <3>1. UNCHANGED <<slots, current>> BY <2>2 DEF Exit, ProtocolError, StopCondemned
    <3> QED BY <3>1, SlotsAlone
  <2>3. ASSUME Administer PROVE Retires
    <3>1. CASE Halt BY <3>1, WorldRetires
    <3>2. CASE ~Halt
      <4>1. UNCHANGED <<slots, current>>
        BY <2>3, <3>2 DEF Administer, EnablePlugin, DisablePlugin, RestartPlugin, DeletePlugin, Close,
                          Orders, RemovePlugin, Register, Registered
      <4> QED BY <4>1, SlotsAlone
    <3> QED BY <3>1, <3>2
  <2> QED BY <2>1, <2>2, <2>3, EnsureRetires, CompleteRetires, UseRetires, WorldRetires
          DEF Next, Generations
<1> QED BY <1>1, RuntimeInductive, PTL DEF Spec, RetiredForGood, Retires
=============================================================================
