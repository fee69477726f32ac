---------------------------- MODULE PluginRuntime ----------------------------
(***************************************************************************)
(* The processes of one plugin: plugin/runtime_supervisor.go, which starts  *)
(* them lazily, hands them to hooks, tools and commands, stops idle ones     *)
(* and keeps count of failures, with plugin/process_runner.go and jsonrpc.go *)
(* below it and the administration of app/plugin_service.go above.           *)
(*                                                                         *)
(* Plugins share nothing but the lock, so one is modelled.  A section under *)
(* RuntimeSupervisor.mu is one action.  Every start makes a new slot and a   *)
(* new generation; slots[g] stays, as those who hold a pointer to it keep    *)
(* it, and current is the one the map has.  Times are choices: any runtime   *)
(* may have been idle or stable for long enough, any backoff may be over.    *)
(***************************************************************************)
EXTENDS Naturals, Sequences, FiniteSets

CONSTANTS
  Callers,          \* goroutines that invoke hooks, tools and commands
  Admin,            \* the holder of PluginService.mu
  Versions,         \* the installed versions of the plugin
  Threshold,        \* CrashQuarantineThreshold; 0 is never
  MaxGenerations,   \* bound: starts
  MaxOrders         \* bound: administrative operations

None == "none"

ASSUME RuntimeAssumption ==
  /\ Admin \notin Callers /\ None \notin Versions
  /\ Threshold \in Nat /\ MaxGenerations \in Nat /\ MaxOrders \in Nat
  /\ IsFiniteSet(Callers)

Actors == Callers \cup {Admin}
States == {"starting", "running", "stopped", "failed", "backoff", "quarantined"}
Starting == {"start", "init", "started", "unstarted"}
Stopping == {"drop", "replace", "halt"}
Calling == {"call", "answered", "erred"}

VARIABLES
  row,         \* plugin_enabled_state: enabled, version
  registered,  \* PluginService.registered
  known,       \* RuntimeSupervisor.plugins
  current,     \* RuntimeSupervisor.runtimes: a generation, or 0
  slots,       \* the runtimeSlots made, by generation
  proc,        \* their processes: none, up, deaf (its peer is closed), gone
  alarm,       \* the generations whose OnProtocolError is about to be called
  condemned,   \* processes the reaper or an OnProtocolError is about to stop
  actor,       \* where each goroutine is, and the generation it holds
  order,       \* the administrative operation in progress
  orders,
  backoffOn    \* whether the configuration has a crash backoff

service == <<row, registered, order, orders>>
world == <<proc, alarm, condemned>>
vars == <<service, known, current, slots, world, actor, backoffOn>>

At(pc, g) == [pc |-> pc, gen |-> g]
Idle == At("idle", 0)
NoRow == [enabled |-> FALSE, version |-> None]
NoOrder == [op |-> None, version |-> None, prev |-> NoRow, step |-> None, next |-> None]

\* A call that fails is over; the administrator looks at the error first.
Fails(p) == IF p = Admin THEN At("failed", 0) ELSE Idle
Moves(p, to) == actor' = [actor EXCEPT ![p] = to]
-----------------------------------------------------------------------------
(* Slots *)

\* A slot inherits the failures of the one it replaces; base remembers them.
NewSlot(v, failures) ==
  [version |-> v, state |-> "starting", runtime |-> FALSE, open |-> TRUE, err |-> FALSE,
   failures |-> failures, base |-> failures, inFlight |-> 0]

\* resetFailuresIfStableLocked
Forgiven(s) == {s} \cup {[s EXCEPT !.failures = IF s.state = "running" THEN 0 ELSE @]}

\* markRuntimeFailureLocked, for a slot that has lost its runtime.
Quarantines(n) == Threshold > 0 /\ n >= Threshold
Marked(s) ==
  {[f EXCEPT !.failures = @ + 1, !.err = TRUE, !.runtime = FALSE,
             !.state = IF Quarantines(f.failures + 1) THEN "quarantined"
                       ELSE IF backoffOn THEN "backoff" ELSE "failed"] : f \in Forgiven(s)}

\* supersedeStartingSlotLocked, and the same lines in Stop.
Superseded(s) == [s EXCEPT !.state = "failed", !.err = TRUE, !.open = FALSE]

\* The starter learns that its slot is not the current one, or no longer starting.
Abandoned_Open(s) == [s EXCEPT !.err = TRUE]
Abandoned(s) == [s EXCEPT !.err = TRUE, !.open = FALSE]

InService(g) == g # 0 /\ current = g /\ slots[g].state = "running"
-----------------------------------------------------------------------------
(* Processes *)

\* The process of g has ended; its reader may see more than an end of file.
Ends(g) ==
  /\ proc' = [proc EXCEPT ![g] = "gone"]
  /\ \/ UNCHANGED alarm
     \/ proc[g] = "up" /\ alarm' = alarm \cup {g}

Exit(g) ==
  /\ proc[g] \in {"up", "deaf"} /\ Ends(g)
  /\ UNCHANGED <<service, known, current, slots, condemned, actor, backoffOn>>

\* A line that is no JSON-RPC closes the peer; the process goes on.
ProtocolError(g) ==
  /\ proc[g] = "up"
  /\ proc' = [proc EXCEPT ![g] = "deaf"] /\ alarm' = alarm \cup {g}
  /\ UNCHANGED <<service, known, current, slots, condemned, actor, backoffOn>>

\* recordRuntimeErrorForGeneration with the generation of the runtime.
OnProtocolError(g) ==
  /\ g \in alarm /\ alarm' = alarm \ {g}
  /\ IF current = g /\ slots[g].state \in {"running", "starting"}
     THEN /\ \E s \in Marked(slots[g]) : slots' = [slots EXCEPT ![g] = s]
          /\ condemned' = IF slots[g].runtime THEN condemned \cup {g} ELSE condemned
     ELSE UNCHANGED <<slots, condemned>>
  /\ UNCHANGED <<service, known, current, proc, actor, backoffOn>>

\* reapIdleRuntimes
Reap ==
  /\ order.op \notin {"close", "closed"}
  /\ InService(current) /\ slots[current].inFlight = 0
  /\ \E s \in Forgiven(slots[current]) :
       slots' = [slots EXCEPT ![current] = [s EXCEPT !.runtime = FALSE, !.state = "stopped"]]
  /\ condemned' = condemned \cup {current}
  /\ UNCHANGED <<service, known, current, proc, alarm, actor, backoffOn>>

\* ProcessRuntime.Stop, called by the reaper or by an OnProtocolError.
StopCondemned(g) ==
  /\ g \in condemned /\ condemned' = condemned \ {g}
  /\ Ends(g)
  /\ UNCHANGED <<service, known, current, slots, actor, backoffOn>>

\* Status, and a reaper that finds the runtime in use.
Observe ==
  /\ InService(current)
  /\ \E s \in Forgiven(slots[current]) : slots' = [slots EXCEPT ![current] = s]
  /\ UNCHANGED <<service, known, current, world, actor, backoffOn>>
-----------------------------------------------------------------------------
(* EnsureReady *)

Ask(p) ==
  /\ p \in Callers /\ actor[p].pc = "idle"
  /\ row.enabled /\ Moves(p, At("checked", 0))
  /\ UNCHANGED <<service, known, current, slots, world, backoffOn>>

Ready(p) ==
  /\ InService(current) /\ known = slots[current].version
  /\ \E s \in Forgiven(slots[current]) : slots' = [slots EXCEPT ![current] = s]
  /\ Moves(p, At("ready", current)) /\ UNCHANGED current

\* Another version, or none, is registered: the running process is stopped.
Retire(p) ==
  /\ InService(current) /\ known # slots[current].version
  /\ current' = 0 /\ UNCHANGED slots
  /\ Moves(p, At(IF known = None THEN "drop" ELSE "replace", current))

Await(p) ==
  /\ current # 0 /\ slots[current].state = "starting"
  /\ IF known = slots[current].version
     THEN Moves(p, At("wait", current)) /\ UNCHANGED <<current, slots>>
     ELSE /\ slots' = [slots EXCEPT ![current] = Superseded(@)]
          /\ current' = 0
          /\ Moves(p, IF known = None THEN Fails(p) ELSE At("checked", 0))

\* A failed runtime in backoff or quarantine: refused, or forgotten with its version.
Refuse(p) ==
  /\ current # 0 /\ slots[current].state \in {"backoff", "quarantined"}
  /\ UNCHANGED slots
  /\ CASE known \notin {None, slots[current].version} ->
            current' = 0 /\ Moves(p, At("checked", 0))
       [] known = None /\ slots[current].state = "backoff" -> current' = 0 /\ Moves(p, Fails(p))
       [] OTHER -> UNCHANGED current /\ Moves(p, Fails(p))

MayStart == current # 0 => slots[current].state \in {"failed", "stopped", "backoff"}
Start(p) ==
  /\ MayStart /\ known # None
  /\ current # 0 /\ slots[current].state = "backoff" => known = slots[current].version
  /\ Len(slots) < MaxGenerations
  /\ slots' = Append(slots, NewSlot(known, IF current = 0 THEN 0 ELSE slots[current].failures))
  /\ current' = Len(slots) + 1
  /\ Moves(p, At("start", Len(slots) + 1))

Unregistered(p) ==
  /\ known = None /\ (current # 0 => slots[current].state \in {"failed", "stopped"})
  /\ Moves(p, Fails(p)) /\ UNCHANGED <<current, slots>>

Ensure(p) ==
  /\ actor[p].pc = "checked"
  /\ Ready(p) \/ Retire(p) \/ Await(p) \/ Refuse(p) \/ Start(p) \/ Unregistered(p)
  /\ UNCHANGED <<service, known, world, backoffOn>>

\* waitForRuntimeSlot: the slot it waited for, whatever the map has by now.
Awaken(p) ==
  LET g == actor[p].gen IN
  /\ actor[p].pc = "wait"
  /\ \/ Moves(p, Fails(p))                               \* its context ends
     \/ ~slots[g].open /\ ~slots[g].err /\ slots[g].state = "running" /\ slots[g].runtime
        /\ Moves(p, At("ready", g))
  /\ UNCHANGED <<service, known, current, slots, world, backoffOn>>

\* startRuntime: the environment, the process, and its initialize call.
Launch(p) ==
  LET g == actor[p].gen IN
  /\ actor[p].pc = "start"
  /\ \/ Moves(p, At("unstarted", g)) /\ UNCHANGED proc
     \/ Moves(p, At("init", g)) /\ proc' = [proc EXCEPT ![g] = "up"]
  /\ UNCHANGED <<service, known, current, slots, alarm, condemned, backoffOn>>

Initialize(p) ==
  LET g == actor[p].gen IN
  /\ actor[p].pc = "init"
  /\ \/ proc[g] = "up" /\ Moves(p, At("started", g)) /\ UNCHANGED <<proc, alarm>>
     \/ Moves(p, At("unstarted", g)) /\ Ends(g)
  /\ UNCHANGED <<service, known, current, slots, condemned, backoffOn>>

\* completeRuntimeStart
Serving(s) == [s EXCEPT !.state = "running", !.runtime = TRUE, !.err = FALSE, !.open = FALSE]
Loser_Leaves(p, g) == Moves(p, Fails(p))
Loser(p, g) == Moves(p, IF actor[p].pc = "started" THEN At("drop", g) ELSE Fails(p))
Complete(p) ==
  LET g == actor[p].gen
      mine == current = g /\ slots[g].state = "starting"
  IN
  /\ actor[p].pc \in {"started", "unstarted"}
  /\ \/ ~mine /\ slots' = [slots EXCEPT ![g] = Abandoned(@)] /\ Loser(p, g)
     \/ /\ mine /\ actor[p].pc = "unstarted"
        /\ \E s \in Marked(slots[g]) : slots' = [slots EXCEPT ![g] = [s EXCEPT !.open = FALSE]]
        /\ Moves(p, Fails(p))
     \/ /\ mine /\ actor[p].pc = "started"
        /\ slots' = [slots EXCEPT ![g] = Serving(@)]
        /\ Moves(p, At("ready", g))
  /\ UNCHANGED <<service, known, current, world, backoffOn>>
-----------------------------------------------------------------------------
(* InvokeHook, InvokeTool, InvokeCommand *)

\* beginRuntimeUse
Begin(p) ==
  LET g == actor[p].gen IN
  /\ p \in Callers /\ actor[p].pc = "ready"
  /\ IF InService(g)
     THEN /\ slots' = [slots EXCEPT ![g].inFlight = @ + 1]
          /\ Moves(p, At("call", g))
     ELSE Moves(p, Idle) /\ UNCHANGED slots
  /\ UNCHANGED <<service, known, current, world, backoffOn>>

\* JSONRPCPeer.Call: answered while the process is up, or an error for any reason,
\* the caller's own context among them.
Return(p) ==
  LET g == actor[p].gen IN
  /\ actor[p].pc = "call"
  /\ \/ proc[g] = "up" /\ Moves(p, At("answered", g))
     \/ Moves(p, At("erred", g))
  /\ UNCHANGED <<service, known, current, slots, world, backoffOn>>

\* finishRuntimeUse
StillHeld_AnyState(g) == current = g
StillHeld(g) == current = g /\ slots[g].runtime
Released_OnErrorOnly(s, erred) == IF erred THEN [s EXCEPT !.inFlight = @ - 1] ELSE s
Released(s, erred) == [s EXCEPT !.inFlight = @ - 1]
Finish(p) ==
  LET g == actor[p].gen
      erred == actor[p].pc = "erred"
      released == Released(slots[g], erred)
  IN
  /\ actor[p].pc \in {"answered", "erred"}
  /\ IF StillHeld(g)
     THEN /\ \E s \in (IF erred THEN Marked(released) ELSE Forgiven(released)) :
               slots' = [slots EXCEPT ![g] = s]
          /\ Moves(p, IF erred THEN At("drop", g) ELSE Idle)
     ELSE Moves(p, Idle) /\ UNCHANGED slots
  /\ UNCHANGED <<service, known, current, world, backoffOn>>
-----------------------------------------------------------------------------
(* Stopping a process *)

\* ProcessRuntime.Stop: shutdown, then the end of the process or its termination.
\* "drop" forgets the error; a replacement and Stop report it.
StopProcess(p) ==
  LET g == actor[p].gen IN
  /\ actor[p].pc \in Stopping
  /\ Ends(g)
  /\ \/ actor[p].pc = "drop" /\ Moves(p, Fails(p))
     \/ actor[p].pc = "replace" /\ Moves(p, At("checked", 0))
     \/ actor[p].pc = "halt" /\ Moves(p, At("stopped", 0))
     \/ actor[p].pc # "drop" /\ Moves(p, At("blame", 0))
  /\ UNCHANGED <<service, known, current, slots, condemned, backoffOn>>

\* recordRuntimeError: no generation given, so whatever the map has is meant.  The
\* nameless record it makes when there is none starts like no record at all.
Blame(p) ==
  /\ actor[p].pc = "blame"
  /\ IF current # 0 /\ slots[current].state \in {"running", "starting"}
     THEN /\ \E s \in Marked(slots[current]) : slots' = [slots EXCEPT ![current] = s]
          /\ Moves(p, IF slots[current].runtime THEN At("drop", current) ELSE Fails(p))
     ELSE Moves(p, Fails(p)) /\ UNCHANGED slots
  /\ UNCHANGED <<service, known, current, world, backoffOn>>

\* RuntimeSupervisor.Stop, up to the unlock.
Halt ==
  /\ actor[Admin].pc = "unregister"
  /\ current' = 0
  /\ slots' = IF current # 0 /\ slots[current].state = "starting"
              THEN [slots EXCEPT ![current] = Superseded(@)] ELSE slots
  /\ Moves(Admin, IF current # 0 /\ slots[current].runtime
                  THEN At("halt", current) ELSE At("stopped", 0))
  /\ UNCHANGED <<service, known, world, backoffOn>>
-----------------------------------------------------------------------------
(* PluginService, under its mutex *)

Orders(op, v, pc, next) ==
  /\ order.op = None /\ orders < MaxOrders
  /\ orders' = orders + 1
  /\ order' = [op |-> op, version |-> v, prev |-> row, step |-> pc, next |-> next]
  /\ Moves(Admin, At(pc, 0))
  /\ UNCHANGED <<registered, known, current, slots, world, backoffOn>>

\* activeOrLatestInstallation: the enabled version, or the one installed last.
Installed == IF row.enabled THEN {row.version} ELSE Versions

EnablePlugin == \E v \in Versions :
  Orders("enable", v, "register", "end") /\ row' = [enabled |-> TRUE, version |-> v]
DisablePlugin == \E v \in Installed :
  Orders("disable", v, "unregister", "end") /\ row' = [enabled |-> FALSE, version |-> v]
RestartPlugin == \E v \in Installed :
  Orders("restart", v, "unregister", "register") /\ UNCHANGED row
DeletePlugin == Orders("delete", None, "unregister", "end") /\ UNCHANGED row
Close == Orders("close", None, "unregister", "end") /\ UNCHANGED row

\* restorePluginEnabledState
Restored(prev) ==
  IF prev.version = None THEN [enabled |-> FALSE, version |-> order.version] ELSE prev

\* The operation returns; a failed EnablePlugin restores the row it found.
Done(ok) ==
  /\ order' = IF order.op = "close" THEN [NoOrder EXCEPT !.op = "closed"] ELSE NoOrder
  /\ row' = CASE order.op = "enable" /\ ~ok -> Restored(order.prev)
              [] order.op = "delete" -> NoRow
              [] OTHER -> row
  /\ Moves(Admin, Idle) /\ UNCHANGED orders
Then(step, next) ==
  /\ order' = [order EXCEPT !.step = step, !.next = next]
  /\ Moves(Admin, At(step, 0)) /\ UNCHANGED <<row, orders>>

\* unregisterProcessPluginLocked, after the supervisor's Stop.  Close leaves the
\* plugin registered.
RemovePlugin ==
  LET ok == actor[Admin].pc = "stopped" IN
  /\ order.step = "unregister" /\ actor[Admin].pc \in {"stopped", "failed"}
  /\ IF order.op = "close" THEN UNCHANGED <<known, registered>>
     ELSE known' = None /\ registered' = None
  /\ IF order.next = "register" /\ ok THEN Then("register", "end")
     ELSE Done(ok /\ order.next # "fail")
  /\ UNCHANGED <<current, slots, world, backoffOn>>

\* registerProcessPluginLocked, up to EnsureReady.
Register ==
  /\ actor[Admin].pc = "register"
  /\ IF registered \notin {None, order.version}
     THEN Then("unregister", "register") /\ UNCHANGED known
     ELSE /\ known' = order.version
          /\ Moves(Admin, IF row.enabled THEN At("checked", 0) ELSE At("failed", 0))
          /\ UNCHANGED <<row, order, orders>>
  /\ UNCHANGED <<registered, current, slots, world, backoffOn>>

\* EnsureReady has returned: a plugin that was not registered before is taken out
\* again when that or the registration of its tools failed, an enabled one also
\* when its trust record cannot be written, and not when its status cannot.
Registered ==
  LET ok == actor[Admin].pc = "ready" IN
  /\ order.step = "register" /\ actor[Admin].pc \in {"ready", "failed"}
  /\ registered' = IF ok THEN order.version ELSE registered
  /\ \/ ok /\ Done(TRUE)
     \/ ok /\ registered # order.version /\ Done(FALSE)
     \/ ok /\ (registered # order.version \/ order.op = "enable") /\ Then("unregister", "fail")
     \/ ~ok /\ registered = order.version /\ Done(FALSE)
     \/ ~ok /\ registered # order.version /\ Then("unregister", "fail")
  /\ UNCHANGED <<known, current, slots, world, backoffOn>>

Administer ==
  EnablePlugin \/ DisablePlugin \/ RestartPlugin \/ DeletePlugin \/ Close
  \/ Halt \/ RemovePlugin \/ Register \/ Registered
-----------------------------------------------------------------------------
\* Configure: an enabled plugin is loaded first, before anybody can call it.
Init ==
  /\ \/ row = NoRow /\ order = NoOrder
        /\ actor = [p \in Actors |-> Idle]
     \/ \E v \in Versions :
          /\ row = [enabled |-> TRUE, version |-> v]
          /\ order = [op |-> "load", version |-> v, prev |-> row, step |-> "register", next |-> "end"]
          /\ actor = [p \in Actors |-> IF p = Admin THEN At("register", 0) ELSE Idle]
  /\ registered = None /\ known = None /\ current = 0 /\ slots = <<>>
  /\ proc = [g \in 1..MaxGenerations |-> "none"] /\ alarm = {} /\ condemned = {}
  /\ orders = 0 /\ backoffOn \in BOOLEAN

Next ==
  \/ \E p \in Actors : \/ Ask(p) \/ Ensure(p) \/ Awaken(p) \/ Launch(p) \/ Initialize(p)
                       \/ Complete(p) \/ Begin(p) \/ Return(p) \/ Finish(p)
                       \/ StopProcess(p) \/ Blame(p)
  \/ \E g \in 1..MaxGenerations : Exit(g) \/ ProtocolError(g) \/ OnProtocolError(g) \/ StopCondemned(g)
  \/ Reap \/ Observe \/ Administer

Spec == Init /\ [][Next]_vars
-----------------------------------------------------------------------------
(* Properties *)

Generations == 1..MaxGenerations

Slot == [version : Versions, state : States, runtime : BOOLEAN, open : BOOLEAN, err : BOOLEAN,
         failures : Nat, base : Nat, inFlight : 0..Cardinality(Callers)]
Row == [enabled : BOOLEAN, version : Versions \cup {None}]
Order == [op : {None, "load", "enable", "disable", "restart", "delete", "close", "closed"},
          version : Versions \cup {None}, prev : Row,
          step : {None, "register", "unregister"}, next : {None, "register", "end", "fail"}]
Place == Starting \cup Stopping \cup Calling \cup
         {"idle", "checked", "ready", "wait", "stopped", "blame", "register", "unregister", "failed"}

\* Every variable keeps its type: the rows, slots, processes and goroutines there can be
\* (runtime_supervisor.go runtimeSlot, plugin_service.go).
TypeOK ==
  /\ row \in Row /\ order \in Order /\ orders \in Nat /\ backoffOn \in BOOLEAN
  /\ {registered, known} \subseteq Versions \cup {None}
  /\ slots \in Seq(Slot) /\ Len(slots) <= MaxGenerations /\ current \in 0..Len(slots)
  /\ proc \in [Generations -> {"none", "up", "deaf", "gone"}]
  /\ alarm \subseteq Generations /\ condemned \subseteq Generations
  /\ actor \in [Actors -> [pc : Place, gen : 0..Len(slots)]]

\* A slot is in quarantine exactly when its failures have reached the threshold, wherever
\* it inherited them (EnsureReady, markRuntimeFailureLocked).
QuarantineAtThreshold(s) ==
  Threshold > 0 => /\ s.failures <= Threshold
                   /\ s.failures = Threshold <=> s.state = "quarantined"

\* No process is forgotten: one that lives belongs to the runtime in service, to
\* its starter, or to somebody on the way to stop it, whatever superseded, failed or
\* replaced its slot meanwhile (completeRuntimeStart, recordRuntimeErrorForGeneration).
NoOrphan ==
  \A g \in Generations : proc[g] \in {"up", "deaf"} =>
    \/ current = g /\ slots[g].runtime
    \/ g \in condemned
    \/ \E p \in Actors :
         actor[p].gen = g /\ actor[p].pc \in {"init", "started"} \cup Stopping

\* One crash counts once towards quarantine, however many calls, protocol errors and
\* stops report it, and a slot is in quarantine exactly when the count has reached the
\* threshold (finishRuntimeUse, recordRuntimeErrorForGeneration, completeRuntimeStart).
FailureCountedOnce ==
  \A g \in DOMAIN slots :
    slots[g].failures <= slots[g].base + 1 /\ QuarantineAtThreshold(slots[g])

\* Nobody waits for a start that nobody completes: a slot is open only while its
\* starter is at work, also when it was superseded or failed by a protocol error.
WaitersReleased ==
  \A p \in Actors : actor[p].pc = "wait" /\ slots[actor[p].gen].open =>
    \E q \in Actors : actor[q].gen = actor[p].gen /\ actor[q].pc \in Starting

\* The reaper's notion of use is right: the runtime in service counts exactly the
\* calls that are under way on it.
InFlightExact ==
  InService(current) =>
    slots[current].inFlight =
      Cardinality({p \in Callers : actor[p].gen = current /\ actor[p].pc \in Calling})

\* A generation that left the map never returns to it, and one that failed or was stopped
\* never serves again, whichever start completes, call returns, crash or reap comes late
\* (completeRuntimeStart, finishRuntimeUse, recordRuntimeErrorForGeneration).
RetiredForGood ==
  [][\A g \in DOMAIN slots :
       /\ g # current => current' # g
       /\ g # current \/ slots[g].state \notin {"starting", "running"} =>
            slots'[g].state = slots[g].state /\ slots'[g].failures = slots[g].failures
       /\ slots'[g].state = "starting" => slots[g].state = "starting"]_vars
-----------------------------------------------------------------------------
(* The inductive strengthening behind the invariants above (proved in          *)
(* PluginRuntime_proofs).                                                      *)

\* A slot has a runtime just while it is running, may still be blamed for one
\* failure while it starts or runs, and is not used before it runs.
Sound(s) ==
  /\ s.runtime <=> s.state = "running"
  /\ s.failures <= s.base + 1
  /\ s.state \in {"starting", "running"} => s.failures <= s.base
  /\ s.state = "starting" => s.inFlight = 0
  /\ QuarantineAtThreshold(s)

SlotsSound == \A g \in DOMAIN slots : Sound(slots[g])

\* Who starts, stops or calls a runtime has one in hand; nobody calls one that is
\* still starting, and the administrator calls none.
HoldsSlot ==
  /\ \A p \in Actors : actor[p].pc \in Starting \cup Stopping \cup Calling \cup {"wait"} =>
       actor[p].gen # 0
  /\ \A p \in Actors : actor[p].pc \in Calling =>
       p \in Callers /\ slots[actor[p].gen].state # "starting"

\* A generation has one starter, whose process does not live until it launches it; a
\* slot is open only while its starter is at work.
OneStarter ==
  /\ \A p, q \in Actors : p # q /\ actor[p].pc \in Starting /\ actor[q].pc \in Starting =>
       actor[p].gen # actor[q].gen
  /\ \A p \in Actors : actor[p].pc \in {"start", "unstarted"} =>
       proc[actor[p].gen] \notin {"up", "deaf"}
  /\ \A g \in DOMAIN slots : slots[g].open =>
       \E p \in Actors : actor[p].gen = g /\ actor[p].pc \in Starting

\* A process that lives was launched for a slot.
LaunchedForSlot == \A g \in Generations : proc[g] \in {"up", "deaf"} => g <= Len(slots)

\* The administrator is idle between two operations.
AdminIdle == order.op = None => actor[Admin].pc = "idle"

RuntimeInv ==
  /\ SlotsSound /\ HoldsSlot /\ OneStarter /\ LaunchedForSlot /\ AdminIdle
  /\ NoOrphan /\ InFlightExact
-----------------------------------------------------------------------------
\* runtime_supervisor_test.go:237, StopConcurrentStartDoesNotAllowOldGenerationTo-
\* OverwriteNewRuntime: a runtime leaves service by its own error, because it is idle,
\* or taken out of the map by somebody; the end of another generation does not fail it.
NewRuntimeUndisturbed ==
  [][\A g \in Generations : InService(g) /\ current' = g /\ slots'[g].state # "running" =>
       \/ slots'[g].state = "stopped"
       \/ alarm' # alarm
       \/ \E c \in Callers : actor[c] = At("erred", g) /\ actor'[c] # actor[c]]_vars
=============================================================================
