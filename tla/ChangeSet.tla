------------------------------ MODULE ChangeSet ------------------------------
(***************************************************************************)
(* Host resource change sets: internal/resource/changeset.go and its       *)
(* SQLite rows.  A change is prepared against a snapshot of the user's     *)
(* files, previewed, and later applied, cancelled, or restored from        *)
(* quarantine.  No lock is held between reading a row, checking the disk,  *)
(* acting on it and writing the row back, and the UPDATE has no guard: any *)
(* number of calls, the user's own edits and a crash may come in between.  *)
(*                                                                         *)
(* An object on disk is a file or a directory.  rev stands for its size,   *)
(* modification time and, for a file, its content; tree for what lies      *)
(* below a directory (0: it is empty).  Adding or removing an entry of a   *)
(* directory changes both, an edit deeper down only tree.                  *)
(***************************************************************************)
EXTENDS Naturals, FiniteSets

CONSTANTS
  None,
  Changes,     \* change set ids
  Paths,       \* paths of the host roots, none below another
  Calls,       \* goroutines inside a change set tool or the admin API
  MaxEdits,    \* bound: edits by the user
  MaxFaults    \* bound: row writes lost (context cancelled) and crashes

ASSUME ChangeSetAssumption ==
  /\ {MaxEdits, MaxFaults} \subseteq Nat
  /\ None \notin Changes \cup Paths \cup Calls
  /\ IsFiniteSet(Paths)

VARIABLES
  disk,        \* disk[f]: the object at path f
  quarantine,  \* quarantine[c]: the object at the quarantine path of c
  row,         \* row[c]: the host_resource_changesets row
  call,        \* call[p]: how far call p is, with the row it read
  clock,       \* stamps handed out so far
  lost,        \* objects the program has destroyed
  late,        \* objects that came between a call's check and its act
  effects,     \* effects[c]: how often c was carried out
  excused,     \* changes applied twice at once, or whose "applying" mark was lost
  edits, faults

vars == <<disk, quarantine, row, call, clock, lost, late, effects, excused, edits, faults>>

Absent == [kind |-> "none", rev |-> 0, tree |-> 0]
File(n) == [kind |-> "file", rev |-> n, tree |-> 0]
Dir(n, t) == [kind |-> "dir", rev |-> n, tree |-> t]
Object == [kind : {"none", "file", "dir"}, rev : Nat, tree : Nat]

Stamps == 1 .. Cardinality(Paths)

Ops == {"create_file", "overwrite_file", "move", "delete", "mkdir", "rmdir"}
Statuses == {"none", "approval_pending", "applying", "applied", "conflict",
             "failed", "cancelled", "restored"}

NoRow == [status |-> "none", op |-> "mkdir", permanent |-> FALSE, recursive |-> FALSE,
          src |-> None, dst |-> None, base |-> Absent]
Row == [status : Statuses, op : Ops, permanent : BOOLEAN, recursive : BOOLEAN,
        src : Paths \cup {None}, dst : Paths \cup {None}, base : Object]

Idle == [pc |-> "idle", change |-> None]
ApplyPCs == {"read", "marked", "verified", "copied", "done", "conflict", "failed"}
RestorePCs == {"restoring", "clear", "back", "unrestorable"}

Init ==
  /\ disk \in [Paths -> {Absent} \cup UNION {{File(n), Dir(n, 0), Dir(n, n)} : n \in Stamps}]
  /\ \A f, g \in Paths : disk[f].rev = disk[g].rev => f = g \/ disk[f] = Absent
  /\ quarantine = [c \in Changes |-> Absent]
  /\ row = [c \in Changes |-> NoRow]
  /\ call = [p \in Calls |-> Idle]
  /\ clock = Cardinality(Paths)
  /\ lost = {} /\ late = {} /\ excused = {}
  /\ effects = [c \in Changes |-> 0]
  /\ edits = 0 /\ faults = 0

At(p, pc) == call[p].pc = pc
Plan(p) == row[call[p].change]     \* what PrepareChange stored; only status changes
Goes(p, pc) == call' = [call EXCEPT ![p].pc = pc]
Returns(p) == call' = [call EXCEPT ![p] = Idle]
SetStatus(c, s) == row' = [row EXCEPT ![c].status = s]
Quarantines(r) == r.op \in {"rmdir", "delete"} /\ ~r.permanent
-----------------------------------------------------------------------------
(* PrepareChange *)

\* What each operation demands of the paths it names.
PreparesCreate(r) ==
  r.op = "create_file" /\ r.src = None /\ r.dst # None /\ disk[r.dst] = Absent
PreparesMkdir(r) ==
  r.op = "mkdir" /\ r.src = None /\ r.dst # None /\ disk[r.dst] = Absent
PreparesOverwrite(r) ==
  r.op = "overwrite_file" /\ r.src # None /\ r.dst = r.src /\ disk[r.src].kind = "file"
PreparesMove(r) ==
  /\ r.op = "move" /\ r.src # None /\ r.dst # None
  /\ disk[r.src] # Absent /\ disk[r.dst] = Absent
PreparesDelete(r) ==
  /\ r.op = "delete" /\ r.src # None /\ r.dst = None
  /\ disk[r.src] # Absent
  /\ ~r.recursive => disk[r.src].tree = 0
PreparesRmdir(r) ==
  /\ r.op = "rmdir" /\ r.src # None /\ r.dst = None
  /\ disk[r.src].kind = "dir" /\ disk[r.src].tree = 0

Snapshot(r) == IF r.src = None THEN Absent ELSE disk[r.src]

PrepareChange(c, r) ==
  /\ row[c].status = "none"
  /\ r.op # "delete" => ~r.permanent /\ ~r.recursive
  /\ \/ PreparesCreate(r) \/ PreparesMkdir(r) \/ PreparesOverwrite(r)
     \/ PreparesMove(r) \/ PreparesDelete(r) \/ PreparesRmdir(r)
  /\ row' = [row EXCEPT ![c] = [r EXCEPT !.status = "approval_pending", !.base = Snapshot(r)]]
  /\ UNCHANGED <<disk, quarantine, call, clock, lost, effects, excused, edits, faults>>
-----------------------------------------------------------------------------
(* ApplyChangeWithOptions, step by step *)

\* The row is read; a wrong plan hash ends in a conflict, other mismatches of
\* the approved flags return before anything is written.
ApplyReads(p, c) ==
  /\ At(p, "idle")
  /\ row[c].status = "approval_pending"
  /\ \E pc \in {"read", "conflict"} : call' = [call EXCEPT ![p] = [pc |-> pc, change |-> c]]
  /\ excused' = IF \E q \in Calls : call[q].change = c /\ call[q].pc \in ApplyPCs
                  THEN excused \cup {c} ELSE excused
  /\ UNCHANGED <<disk, quarantine, row, clock, lost, effects, edits, faults>>

\* The mark is written only after the act.
MarkApplying_Skipped(p) ==
  /\ At(p, "read")
  /\ Goes(p, "marked")
  /\ UNCHANGED <<disk, quarantine, row, clock, lost, effects, excused, edits, faults>>

\* An error of this write is ignored.
MarkApplying(p) ==
  /\ At(p, "read")
  /\ \/ (SetStatus(call[p].change, "applying") /\ UNCHANGED <<excused, faults>>)
     \/ /\ faults < MaxFaults /\ faults' = faults + 1
        /\ excused' = excused \cup {call[p].change}
        /\ UNCHANGED row
  /\ Goes(p, "marked")
  /\ UNCHANGED <<disk, quarantine, clock, lost, effects, edits>>

\* Only the directory itself is compared.
BaselineHolds_Shallow(r) ==
  r.src # None => disk[r.src].kind = r.base.kind /\ disk[r.src].rev = r.base.rev

\* verifyBaseline, verifyRecursiveBaseline.
BaselineHolds(r) ==
  r.src # None =>
    /\ disk[r.src].kind = r.base.kind /\ disk[r.src].rev = r.base.rev
    /\ r.recursive => disk[r.src].tree = r.base.tree

\* ensureTargetAbsent, ensureEmptyDir.
TargetHolds(r) ==
  /\ r.op \in {"create_file", "mkdir", "move"} => disk[r.dst] = Absent
  /\ r.op = "rmdir" => disk[r.src].tree = 0

\* The parent of a path may have become unsafe and the staged blob may have
\* changed: those refusals are conflicts too.
Verify(p) ==
  /\ At(p, "marked")
  /\ \/ (BaselineHolds(Plan(p)) /\ TargetHolds(Plan(p)) /\ Goes(p, "verified"))
     \/ Goes(p, "conflict")
  /\ UNCHANGED <<disk, quarantine, row, clock, lost, effects, excused, edits, faults>>

\* An object put at a path where something else appeared destroys it; files
\* replace files and directories empty directories, anything else is refused.
Replaces(new, old) ==
  old = Absent \/ (new.kind = old.kind /\ old.tree = 0)

Destroys(objects) == lost' = lost \cup (objects \ {Absent})
Counts(p) == effects' = [effects EXCEPT ![call[p].change] = @ + 1]

\* atomicWriteFile of the staged content.
WriteStaged(p) ==
  LET r == Plan(p) IN
  /\ r.op \in {"create_file", "overwrite_file"}
  /\ disk[r.dst].kind # "dir"
  /\ clock' = clock + 1
  /\ disk' = [disk EXCEPT ![r.dst] = File(clock')]
  /\ Destroys({disk[r.dst]})
  /\ UNCHANGED quarantine

MakeDir(p) ==
  LET r == Plan(p) IN
  /\ r.op = "mkdir" /\ disk[r.dst] = Absent
  /\ clock' = clock + 1
  /\ disk' = [disk EXCEPT ![r.dst] = Dir(clock', 0)]
  /\ UNCHANGED <<quarantine, lost>>

Move(p) ==
  LET r == Plan(p) IN
  /\ r.op = "move" /\ disk[r.src] # Absent
  /\ Replaces(disk[r.src], disk[r.dst])
  /\ disk' = [disk EXCEPT ![r.src] = Absent, ![r.dst] = disk[r.src]]
  /\ Destroys({disk[r.dst]})
  /\ UNCHANGED <<quarantine, clock>>

\* os.Remove, or os.RemoveAll, which is content when nothing is there.
Remove(p) ==
  LET r == Plan(p) IN
  /\ r.op = "delete" /\ r.permanent
  /\ ~r.recursive => disk[r.src] # Absent /\ disk[r.src].tree = 0
  /\ disk' = [disk EXCEPT ![r.src] = Absent]
  /\ Destroys({disk[r.src]})
  /\ UNCHANGED <<quarantine, clock>>

Quarantine(p) ==
  LET r == Plan(p)  c == call[p].change IN
  /\ Quarantines(r) /\ disk[r.src] # Absent
  /\ Replaces(disk[r.src], quarantine[c])
  /\ disk' = [disk EXCEPT ![r.src] = Absent]
  /\ quarantine' = [quarantine EXCEPT ![c] = disk[r.src]]
  /\ Destroys({quarantine[c]})
  /\ UNCHANGED clock

Act(p) ==
  /\ At(p, "verified")
  /\ WriteStaged(p) \/ MakeDir(p) \/ Move(p) \/ Remove(p) \/ Quarantine(p)
  /\ Counts(p)
  /\ Goes(p, "done")
  /\ UNCHANGED <<row, excused, edits, faults>>

\* copyFileVerifyRemove, when the rename is refused: a file is copied to the
\* target, which must not exist, its content compared with the baseline, and
\* the source removed in a step of its own.
CopyAcross(p) ==
  LET r == Plan(p) IN
  /\ At(p, "verified") /\ r.op = "move"
  /\ disk[r.src].kind = "file" /\ disk[r.dst] = Absent
  /\ IF disk[r.src] = r.base
       THEN disk' = [disk EXCEPT ![r.dst] = r.base] /\ Goes(p, "copied")
       ELSE Goes(p, "failed") /\ UNCHANGED disk
  /\ UNCHANGED <<quarantine, row, clock, lost, effects, excused, edits, faults>>

RemoveSource(p) ==
  LET r == Plan(p) IN
  /\ At(p, "copied")
  /\ disk[r.src] # Absent /\ disk[r.src].tree = 0
  /\ disk' = [disk EXCEPT ![r.src] = Absent]
  /\ Destroys({disk[r.src]} \ {r.base})
  /\ Counts(p)
  /\ Goes(p, "done")
  /\ UNCHANGED <<quarantine, row, clock, excused, edits, faults>>

\* Any other error of the file system.  A recursive removal may stop half way,
\* a copy may leave part of the file behind.
ActFails(p) ==
  /\ call[p].pc \in {"verified", "copied"}
  /\ Goes(p, "failed")
  /\ \/ UNCHANGED <<disk, clock, lost>>
     \/ LET r == Plan(p) IN
        /\ At(p, "verified") /\ r.op = "delete" /\ r.permanent /\ r.recursive
        /\ disk[r.src].tree > 0
        /\ clock' = clock + 1
        /\ disk' = [disk EXCEPT ![r.src] = Dir(clock', clock')]
        /\ Destroys({disk[r.src]})
     \/ LET r == Plan(p) IN
        /\ At(p, "verified") /\ r.op = "move"
        /\ disk[r.src].kind = "file" /\ disk[r.dst] = Absent
        /\ clock' = clock + 1
        /\ disk' = [disk EXCEPT ![r.dst] = File(clock')]
        /\ UNCHANGED lost
  /\ UNCHANGED <<quarantine, row, effects, excused, edits, faults>>

\* The outcome is recorded under its internal name.
Outcome_Raw(pc) == IF pc = "conflict" THEN "conflict" ELSE pc

Outcome(pc) == CASE pc = "done" -> "applied" [] pc = "failed" -> "failed" [] OTHER -> "conflict"

\* The outcome is written over whatever the row says by now, or lost.
Record(p, pcs, status) ==
  /\ call[p].pc \in pcs
  /\ \/ (SetStatus(call[p].change, status) /\ UNCHANGED faults)
     \/ (faults < MaxFaults /\ faults' = faults + 1 /\ UNCHANGED row)
  /\ Returns(p)
  /\ UNCHANGED <<disk, quarantine, clock, lost, effects, excused, edits>>

RecordOutcome(p) == Record(p, {"done", "failed", "conflict"}, Outcome(call[p].pc))
-----------------------------------------------------------------------------
(* CancelChange and RestoreQuarantine *)

CancelReads(p, c) ==
  /\ At(p, "idle")
  /\ row[c].status \notin {"none", "applied", "restored"}
  /\ call' = [call EXCEPT ![p] = [pc |-> "cancelling", change |-> c]]
  /\ UNCHANGED <<disk, quarantine, row, clock, lost, effects, excused, edits, faults>>

Cancels(p) == Record(p, {"cancelling"}, "cancelled")

RestoreReads(p, c) ==
  /\ At(p, "idle")
  /\ row[c].status = "applied" /\ Quarantines(row[c])
  /\ \E pc \in {"restoring", "unrestorable"} :
       call' = [call EXCEPT ![p] = [pc |-> pc, change |-> c]]
  /\ UNCHANGED <<disk, quarantine, row, clock, lost, effects, excused, edits, faults>>

\* Something is at the old path, or its parent is not safe: a conflict.
RestoreChecks(p) ==
  /\ At(p, "restoring")
  /\ \/ (disk[Plan(p).src] = Absent /\ Goes(p, "clear"))
     \/ Goes(p, "unrestorable")
  /\ UNCHANGED <<disk, quarantine, row, clock, lost, effects, excused, edits, faults>>

Restores(p) ==
  LET r == Plan(p)  c == call[p].change IN
  /\ At(p, "clear")
  /\ IF quarantine[c] # Absent /\ Replaces(quarantine[c], disk[r.src])
       THEN /\ disk' = [disk EXCEPT ![r.src] = quarantine[c]]
            /\ quarantine' = [quarantine EXCEPT ![c] = Absent]
            /\ Destroys({disk[r.src]})
            /\ Goes(p, "back")
       ELSE Returns(p) /\ UNCHANGED <<disk, quarantine, lost>>
  /\ UNCHANGED <<row, clock, effects, excused, edits, faults>>

RestoreOutcome(pc) == IF pc = "back" THEN "restored" ELSE "conflict"
RecordRestore(p) == Record(p, {"back", "unrestorable"}, RestoreOutcome(call[p].pc))
-----------------------------------------------------------------------------
(* Around the program *)

Edited(f, new) ==
  /\ edits < MaxEdits /\ edits' = edits + 1
  /\ clock' = clock + 1
  /\ disk' = [disk EXCEPT ![f] = new]
  /\ UNCHANGED <<quarantine, row, call, lost, effects, excused, faults>>

\* The user writes a file, makes, fills or empties a directory, edits below one, removes.
UserEdits(f) ==
  \/ disk[f].kind # "dir" /\ Edited(f, File(clock + 1))
  \/ disk[f] = Absent /\ Edited(f, Dir(clock + 1, 0))
  \/ disk[f].kind = "dir" /\ \E t \in {0, clock + 1} : Edited(f, Dir(clock + 1, t))
  \/ disk[f].tree > 0 /\ Edited(f, Dir(disk[f].rev, clock + 1))
  \/ disk[f] # Absent /\ Edited(f, Absent)

Crash ==
  /\ faults < MaxFaults /\ faults' = faults + 1
  /\ call' = [p \in Calls |-> Idle]
  /\ UNCHANGED <<disk, quarantine, row, clock, lost, effects, excused, edits>>

Apply(p) ==
  \/ \E c \in Changes : ApplyReads(p, c)
  \/ MarkApplying(p) \/ Verify(p) \/ Act(p) \/ CopyAcross(p) \/ RemoveSource(p)
  \/ ActFails(p) \/ RecordOutcome(p)

Cancel(p) == (\E c \in Changes : CancelReads(p, c)) \/ Cancels(p)

Restore(p) ==
  \/ \E c \in Changes : RestoreReads(p, c)
  \/ RestoreChecks(p) \/ Restores(p) \/ RecordRestore(p)

Requests == [status : {"none"}, op : Ops, permanent : BOOLEAN, recursive : BOOLEAN,
             src : Paths \cup {None}, dst : Paths \cup {None}, base : {Absent}]

\* Some call has checked f and, after this step, has yet to act on it.
InWindow(f) ==
  \E p \in Calls :
    /\ call[p].pc \in {"verified", "copied", "clear"} /\ call'[p] = call[p]
    /\ f \in {Plan(p).src, Plan(p).dst}

ObserveLate ==
  late' = late \cup {disk'[f] : f \in {g \in Paths : disk'[g] \notin {disk[g], Absent} /\ InWindow(g)}}

Step ==
  \/ \E c \in Changes, r \in Requests : PrepareChange(c, r)
  \/ \E p \in Calls : Apply(p) \/ Cancel(p) \/ Restore(p)
  \/ \E f \in Paths : UserEdits(f)
  \/ Crash

Next == Step /\ ObserveLate

Spec == Init /\ [][Next]_vars
-----------------------------------------------------------------------------
(* Properties *)

\* Every variable stays in its set.
TypeOK ==
  /\ disk \in [Paths -> Object]
  /\ quarantine \in [Changes -> Object]
  /\ row \in [Changes -> Row]
  /\ call \in [Calls -> [pc : {"idle", "cancelling"} \cup ApplyPCs \cup RestorePCs,
                         change : Changes \cup {None}]]
  /\ lost \cup late \subseteq Object
  /\ effects \in [Changes -> Nat]
  /\ clock \in Nat
  /\ excused \subseteq Changes

\* Nothing of the user's is destroyed unseen: an object that is gone for good
\* is one that a preview showed as about to be overwritten or deleted for
\* good, or one that came between a check and the act that followed it.  What
\* was moved, quarantined or restored is never lost, whatever was edited,
\* cancelled, retried or cut short (verifyBaseline, ensureTargetAbsent).
\* Excepted is a quarantine two applications of one change put something into.
NothingLostUnseen ==
  \A object \in lost \ late :
    \E c \in Changes :
      \/ row[c].base = object /\ (row[c].op = "overwrite_file" \/ row[c].permanent)
      \/ c \in excused /\ Quarantines(row[c])

\* A change takes effect at most once, though its row may be cancelled,
\* conflicted or left "applying" by a crash after the act.  Two overlapping
\* applications, and a lost "applying" mark, are excepted.
EffectOnce == \A c \in Changes : effects[c] <= 1 \/ c \in excused

\* What a user approved is what is applied, and only once is it waiting for the approval:
\* the plan of a change never changes after it was prepared, although every write of its
\* status rewrites the whole row from a record read earlier (SQLiteChangeSetStore.Update).
PlanStands ==
  [][\A c \in Changes : row[c].status # "none" =>
       /\ row'[c] = [row[c] EXCEPT !.status = row'[c].status]
       /\ row'[c].status # "none"
       /\ row'[c].status = "approval_pending" => row[c].status = "approval_pending"]_vars
-----------------------------------------------------------------------------
(* The inductive strengthening behind the invariants above (proved in          *)
(* ChangeSet_proofs).                                                          *)

\* Nothing, a file or a directory: only a directory has something below it.
Things == {Absent} \cup {File(n) : n \in Nat} \cup {Dir(n, t) : n \in Nat, t \in Nat}

\* What PrepareChange demands of a plan, as far as the plan shows it.
Planned(r) ==
  /\ r.op \in {"create_file", "mkdir"} => r.src = None /\ r.dst # None
  /\ r.op = "overwrite_file" => r.src # None /\ r.dst = r.src /\ r.base.kind = "file"
  /\ r.op = "move" => r.src # None /\ r.dst # None /\ r.src # r.dst
  /\ r.op \in {"delete", "rmdir"} => r.src # None
  /\ r.op # "delete" => ~r.permanent /\ ~r.recursive
  /\ r.op = "delete" /\ ~r.recursive => r.base.tree = 0

\* Rows are plans, and whoever is at work has read one; what is restored was quarantined.
RowsSound ==
  /\ disk \in [Paths -> Things] /\ quarantine \in [Changes -> Things]
  /\ \A c \in Changes : /\ row[c].base \in Things
                       /\ IF row[c].status = "none" THEN row[c] = NoRow ELSE Planned(row[c])
  /\ \A p \in Calls : call[p].pc # "idle" =>
       /\ call[p].change \in Changes /\ Plan(p).status # "none"
       /\ call[p].pc \in RestorePCs => Quarantines(Plan(p))

Applying(p, c) == call[p].change = c /\ call[p].pc \in ApplyPCs

\* One application of a change at a time, which finds it untouched until it acts; a change
\* that may still be applied was never carried out, and what never was has put nothing
\* into quarantine.
Untouched(c) == effects[c] = 0 /\ quarantine[c] = Absent
AppliedOnce(c) ==
  /\ effects[c] <= 1
  /\ effects[c] = 0 => quarantine[c] = Absent
  /\ row[c].status \in {"none", "approval_pending"} => Untouched(c)
  /\ \A p, q \in Calls : Applying(p, c) /\ Applying(q, c) => p = q
  /\ \A p \in Calls : Applying(p, c) =>
       /\ row[c].status = "approval_pending" => call[p].pc \in {"read", "conflict"}
       /\ call[p].pc \in {"read", "marked", "verified", "copied"} => Untouched(c)
AppliesSound == \A c \in Changes \ excused : AppliedOnce(c)

\* What a call has checked is still so, is gone, or came in between.
Seen(object, r) ==
  /\ object.kind = r.base.kind /\ object.rev = r.base.rev
  /\ r.recursive => object.tree = r.base.tree
GoneOrLate(f) == disk[f] = Absent \/ disk[f] \in late
Checked(p) ==
  LET r == Plan(p) IN
  /\ At(p, "verified") =>
       /\ r.src # None => GoneOrLate(r.src) \/ Seen(disk[r.src], r)
       /\ r.op \in {"create_file", "mkdir", "move"} => GoneOrLate(r.dst)
  /\ At(p, "copied") => r.op = "move" /\ (GoneOrLate(r.src) \/ disk[r.src] = r.base)
  /\ At(p, "clear") => GoneOrLate(r.src)
ChecksHold == \A p \in Calls : Checked(p)

ChangeInv == RowsSound /\ AppliesSound /\ ChecksHold /\ NothingLostUnseen
=============================================================================
