-------------------------- MODULE ChangeSet_proofs --------------------------
(***************************************************************************)
(* Nothing of the user's is destroyed unseen and no change is carried out   *)
(* twice, for any changes, paths and calls, and however many edits and       *)
(* faults there are (resource/changeset.go).                                 *)
(***************************************************************************)
EXTENDS ChangeSet, FiniteSetTheorems, TLAPS

Early == {"read", "marked", "verified", "copied"}
Checking == {"verified", "copied", "clear"}
CallState == [pc : {"idle", "cancelling"} \cup ApplyPCs \cup RestorePCs,
              change : Changes \cup {None}]

\* Things are told apart by kind, stamp and what lies below.
LEMMA ThingShape ==
  /\ Things \subseteq Object /\ Absent \in Things
  /\ \A n \in Nat : File(n) \in Things
  /\ \A m, n \in Nat : Dir(m, n) \in Things
  /\ \A x \in Things : /\ x.kind = "none" <=> x = Absent
                       /\ x.kind \in {"none", "file"} => x.tree = 0
  /\ \A x, y \in Things : x.kind = y.kind /\ x.rev = y.rev /\ x.tree = y.tree => x = y
<1> DEFINE Shape(x) == \/ x = Absent
                       \/ \E n \in Nat : x = File(n)
                       \/ \E m, n \in Nat : x = Dir(m, n)
<1>1. \A x \in Things : Shape(x) BY DEF Things
<1>2. /\ Absent \in Things
      /\ \A n \in Nat : File(n) \in Things
      /\ \A m, n \in Nat : Dir(m, n) \in Things
  BY DEF Things
<1>3. ASSUME NEW x \in Things
      PROVE  /\ x \in Object
             /\ x = [kind |-> x.kind, rev |-> x.rev, tree |-> x.tree]
             /\ x.kind = "none" <=> x = Absent
             /\ x.kind \in {"none", "file"} => x.tree = 0
  <2>1. CASE x = Absent BY <2>1 DEF Absent, Object
  <2>2. ASSUME NEW n \in Nat, x = File(n)
      PROVE  /\ x \in Object
             /\ x = [kind |-> x.kind, rev |-> x.rev, tree |-> x.tree]
             /\ x.kind # "none" /\ x # Absent /\ x.tree = 0
    BY <2>2 DEF Absent, File, Object
  <2>3. ASSUME NEW m \in Nat, NEW n \in Nat, x = Dir(m, n)
      PROVE  /\ x \in Object
             /\ x = [kind |-> x.kind, rev |-> x.rev, tree |-> x.tree]
             /\ x.kind = "dir" /\ x # Absent
    BY <2>3 DEF Absent, Dir, Object
  <2> QED BY <1>1, <2>1, <2>2, <2>3
<1>4. ASSUME NEW x \in Things, NEW y \in Things, x.kind = y.kind, x.rev = y.rev, x.tree = y.tree
      PROVE  x = y
  <2>1. x = [kind |-> x.kind, rev |-> x.rev, tree |-> x.tree] BY <1>3
  <2>2. y = [kind |-> y.kind, rev |-> y.rev, tree |-> y.tree] BY <1>3
  <2> QED BY <1>4, <2>1, <2>2
<1> QED BY <1>2, <1>3, <1>4

\* Who is at work holds a plan.
LEMMA InHand ==
  ASSUME TypeOK, RowsSound, NEW p \in Calls, call[p].pc # "idle"
  PROVE  /\ call[p].change \in Changes /\ Plan(p) \in Row /\ Planned(Plan(p))
         /\ Plan(p) = row[call[p].change]
         /\ Plan(p).status # "none" /\ Plan(p).base \in Things
         /\ Plan(p).src # None => Plan(p).src \in Paths /\ disk[Plan(p).src] \in Things
         /\ Plan(p).dst # None => Plan(p).dst \in Paths /\ disk[Plan(p).dst] \in Things
  BY DEF TypeOK, RowsSound, Row, Plan

\* A step of call p to pc, and its return, leave the other calls alone.
LEMMA GoesTo ==
  ASSUME TypeOK, NEW p \in Calls, NEW pc \in {"cancelling"} \cup ApplyPCs \cup RestorePCs, Goes(p, pc)
  PROVE  /\ call' \in [Calls -> CallState]
         /\ call'[p].pc = pc /\ call'[p].change = call[p].change
         /\ \A q \in Calls \ {p} : call'[q] = call[q]
  BY DEF TypeOK, Goes, CallState

\* A call that is over is idle again.
LEMMA ReturnsTo ==
  ASSUME TypeOK, NEW p \in Calls, Returns(p)
  PROVE  /\ call' \in [Calls -> CallState] /\ call'[p] = Idle
         /\ \A q \in Calls \ {p} : call'[q] = call[q]
  BY DEF TypeOK, Returns, CallState, Idle

\* A call starts with a change in hand.
LEMMA StartsWith ==
  ASSUME TypeOK, NEW p \in Calls, NEW c \in Changes, NEW pc \in {"cancelling"} \cup ApplyPCs \cup RestorePCs,
         call' = [call EXCEPT ![p] = [pc |-> pc, change |-> c]]
  PROVE  /\ call' \in [Calls -> CallState]
         /\ call'[p].pc = pc /\ call'[p].change = c
         /\ \A q \in Calls \ {p} : call'[q] = call[q]
  BY DEF TypeOK, CallState

\* A plan stays what it was prepared as, only its status moves on.
PlansKept ==
  \A c \in Changes : row[c].status # "none" =>
    \E s \in (Statuses \ {"none", "approval_pending"}) \cup {row[c].status} :
      row'[c] = [row[c] EXCEPT !.status = s]

\* A row whose status is set to what it is does not change.
LEMMA RowStands == \A r \in Row : [r EXCEPT !.status = r.status] = r
  BY DEF Row

\* Setting the status of one row keeps every plan and the other rows.
LEMMA StatusSet ==
  ASSUME TypeOK, RowsSound, NEW c \in Changes, row[c].status # "none",
         NEW s \in Statuses \ {"none", "approval_pending"}, SetStatus(c, s)
  PROVE  /\ PlansKept /\ row' \in [Changes -> Row]
         /\ row'[c].status = s /\ \A d \in Changes \ {c} : row'[d] = row[d]
<1>1. row[c] \in Row /\ row'[c] = [row[c] EXCEPT !.status = s] /\ \A d \in Changes \ {c} : row'[d] = row[d]
  BY DEF TypeOK, SetStatus
<1>2. row' \in [Changes -> Row] /\ row'[c].status = s BY <1>1 DEF TypeOK, SetStatus, Row
<1>3. \A d \in Changes \ {c} : row'[d] = [row[d] EXCEPT !.status = row[d].status]
  BY <1>1, RowStands DEF TypeOK
<1>4. PlansKept
  <2> SUFFICES ASSUME NEW d \in Changes
      PROVE  \E t \in (Statuses \ {"none", "approval_pending"}) \cup {row[d].status} :
               row'[d] = [row[d] EXCEPT !.status = t]
    BY DEF PlansKept
  <2> QED BY <1>1, <1>3
<1> QED BY <1>1, <1>2, <1>4

\* A step that leaves the table alone keeps the plans.
LEMMA RowsLeft ==
  ASSUME TypeOK, row' = row PROVE PlansKept
  BY RowStands DEF PlansKept, TypeOK

\* What the plans say, of a step that keeps them.
LEMMA PlanKept ==
  ASSUME TypeOK, PlansKept, row' \in [Changes -> Row], NEW c \in Changes, row[c].status # "none"
  PROVE  /\ row'[c].status # "none" /\ row'[c].op = row[c].op /\ row'[c].base = row[c].base
         /\ row'[c].src = row[c].src /\ row'[c].dst = row[c].dst
         /\ row'[c].permanent = row[c].permanent /\ row'[c].recursive = row[c].recursive
         /\ row'[c].status = "approval_pending" => row[c].status = "approval_pending"
         /\ Planned(row[c]) => Planned(row'[c])
         /\ Quarantines(row[c]) => Quarantines(row'[c])
<1>1. PICK s \in (Statuses \ {"none", "approval_pending"}) \cup {row[c].status} :
        row'[c] = [row[c] EXCEPT !.status = s]
  BY DEF PlansKept
<1> QED BY <1>1 DEF TypeOK, Row, Planned, Quarantines
-----------------------------------------------------------------------------
(* What one step leaves of the invariant for those that did not take it *)

\* Rows and calls stay sound when plans are kept and a call goes on with its change.
LEMMA RowsStay ==
  ASSUME TypeOK, RowsSound, PlansKept, row' \in [Changes -> Row],
         \A c \in Changes : row[c].status = "none" => row'[c] = row[c],
         disk' \in [Paths -> Things], quarantine' \in [Changes -> Things],
         \A p \in Calls : call'[p].pc # "idle" =>
           /\ call'[p].change \in Changes /\ row[call'[p].change].status # "none"
           /\ call'[p].pc \in RestorePCs => Quarantines(row[call'[p].change])
  PROVE  RowsSound'
<1>1. ASSUME NEW c \in Changes
      PROVE  /\ row'[c].base \in Things
             /\ IF row'[c].status = "none" THEN row'[c] = NoRow ELSE Planned(row'[c])
  BY PlanKept DEF RowsSound
<1>2. ASSUME NEW p \in Calls, call'[p].pc # "idle"
      PROVE  /\ call'[p].change \in Changes /\ row'[call'[p].change].status # "none"
             /\ call'[p].pc \in RestorePCs => Quarantines(row'[call'[p].change])
  BY <1>2, PlanKept
<1> QED BY <1>1, <1>2 DEF RowsSound, Plan

\* What is observed while a call is between its check and its act is late.
LEMMA Observed ==
  ASSUME ObserveLate, TypeOK, NEW q \in Calls, call[q].pc \in Checking, call'[q] = call[q],
         NEW f \in Paths, f \in {Plan(q).src, Plan(q).dst}
  PROVE  disk'[f] = disk[f] \/ disk'[f] = Absent \/ disk'[f] \in late'
  BY DEF ObserveLate, InWindow, Checking

\* What came too late stays known.
LEMMA LateGrows == ObserveLate => late \subseteq late'
  BY DEF ObserveLate

\* A call that takes no step can rely on what it has checked.
LEMMA CheckStays ==
  ASSUME TypeOK, RowsSound, ObserveLate, PlansKept, row' \in [Changes -> Row],
         NEW q \in Calls, Checked(q), call'[q] = call[q]
  PROVE  Checked(q)'
<1> SUFFICES ASSUME call[q].pc \in Checking PROVE Checked(q)'
  BY DEF Checked, Checking, At
<1> PICK r \in Row : r = Plan(q) BY InHand DEF Checking
<1>1. /\ call[q].change \in Changes /\ Planned(r) /\ r.status # "none"
      /\ r = row[call[q].change]
      /\ r.src # None => r.src \in Paths
      /\ r.dst # None => r.dst \in Paths
  BY InHand DEF Checking
<1>2. /\ Plan(q)'.op = r.op /\ Plan(q)'.src = r.src /\ Plan(q)'.dst = r.dst
      /\ Plan(q)'.base = r.base /\ Plan(q)'.recursive = r.recursive
  BY <1>1, PlanKept DEF Plan
<1>3. ASSUME NEW f \in Paths, f \in {r.src, r.dst}
      PROVE  disk'[f] = disk[f] \/ disk'[f] = Absent \/ disk'[f] \in late'
  BY <1>3, Observed
<1>4. ASSUME NEW f \in Paths, f \in {r.src, r.dst}, GoneOrLate(f) PROVE GoneOrLate(f)'
  BY <1>3, <1>4, LateGrows DEF GoneOrLate
<1>5. CASE call[q].pc = "verified"
  <2>1. r.src # None => GoneOrLate(r.src)' \/ Seen(disk'[r.src], r)
    <3>1. CASE r.src = None BY <3>1
    <3>2. CASE r.src # None /\ GoneOrLate(r.src) BY <1>1, <1>4, <3>2
    <3>3. CASE r.src # None /\ Seen(disk[r.src], r)
      BY <1>1, <1>3, <3>3 DEF GoneOrLate
    <3> QED BY <1>5, <3>1, <3>2, <3>3 DEF Checked, At
  <2>2. r.op \in {"create_file", "mkdir", "move"} => GoneOrLate(r.dst)'
    BY <1>1, <1>4, <1>5 DEF Checked, At, Planned
  <2> QED BY <1>2, <1>5, <2>1, <2>2 DEF Checked, At, Seen, GoneOrLate
<1>6. CASE call[q].pc = "copied"
  <2>1. r.op = "move" /\ r.src \in Paths /\ (GoneOrLate(r.src)' \/ disk'[r.src] = r.base)
    BY <1>1, <1>3, <1>4, <1>6 DEF Checked, At, Planned, GoneOrLate
  <2> QED BY <1>2, <1>6, <2>1 DEF Checked, At, GoneOrLate
<1>7. CASE call[q].pc = "clear"
  <2>1. r.src \in Paths
    BY <1>1, <1>7 DEF RowsSound, RestorePCs, Quarantines, Planned
  <2>2. GoneOrLate(r.src)' BY <2>1, <1>4, <1>7 DEF Checked, At
  <2> QED BY <1>2, <1>7, <2>2 DEF Checked, At, GoneOrLate
<1> QED BY <1>5, <1>6, <1>7 DEF Checking

\* So it is enough to look at the call that took the step.
LEMMA ChecksStay ==
  ASSUME TypeOK, RowsSound, ChecksHold, ObserveLate, PlansKept, row' \in [Changes -> Row],
         \A q \in Calls : call'[q] = call[q] \/ Checked(q)'
  PROVE  ChecksHold'
  BY CheckStays DEF ChecksHold

\* A change stays applied at most once when nothing is carried out, and whoever applies it
\* was applying it before and is no further back.
LEMMA AppliesStay ==
  ASSUME TypeOK, AppliesSound, effects' = effects, excused \subseteq excused',
         \A c \in Changes : quarantine'[c] \in {quarantine[c], Absent},
         \A c \in Changes \ excused' :
           /\ row'[c].status \in {"none", "approval_pending"} =>
                row[c].status \in {"none", "approval_pending"}
           /\ \A p \in Calls : Applying(p, c)' =>
                /\ Applying(p, c)
                /\ call'[p].pc \in Early => call[p].pc \in Early
                /\ row'[c].status = "approval_pending" => call'[p].pc \in {"read", "conflict"}
  PROVE  AppliesSound'
<1> SUFFICES ASSUME NEW c \in Changes \ excused' PROVE AppliedOnce(c)'
  BY DEF AppliesSound
<1>1. AppliedOnce(c) BY DEF AppliesSound
<1>2. quarantine'[c] \in {quarantine[c], Absent} /\ effects'[c] = effects[c] OBVIOUS
<1>3. effects'[c] <= 1 BY <1>1, <1>2 DEF AppliedOnce
<1>4. effects'[c] = 0 => quarantine'[c] = Absent BY <1>1, <1>2 DEF AppliedOnce
<1>5. Untouched(c) => Untouched(c)' BY <1>2 DEF Untouched
<1>6. row'[c].status \in {"none", "approval_pending"} => Untouched(c)'
  BY <1>1, <1>5 DEF AppliedOnce
<1>7. \A p, q \in Calls : Applying(p, c)' /\ Applying(q, c)' => p = q
  BY <1>1 DEF AppliedOnce
<1>8. ASSUME NEW p \in Calls, Applying(p, c)'
      PROVE  /\ row'[c].status = "approval_pending" => call'[p].pc \in {"read", "conflict"}
             /\ call'[p].pc \in Early => Untouched(c)'
  BY <1>1, <1>5, <1>8 DEF AppliedOnce, Early
<1> QED BY <1>3, <1>4, <1>6, <1>7, <1>8 DEF AppliedOnce, Early

\* An object whose end somebody has been shown, or that was put where two applications of
\* one change were at work.
Foreseen(object) ==
  \E c \in Changes :
    \/ row[c].base = object /\ (row[c].op = "overwrite_file" \/ row[c].permanent)
    \/ c \in excused /\ Quarantines(row[c])

\* What was lost stays excused, and what a step loses must be foreseen or late.
LEMMA LostStay ==
  ASSUME TypeOK, RowsSound, NothingLostUnseen, PlansKept, row' \in [Changes -> Row], ObserveLate,
         excused \subseteq excused',
         \A object \in lost' \ lost : object \in late \/ Foreseen(object)
  PROVE  NothingLostUnseen'
<1>1. ASSUME NEW object, Foreseen(object) PROVE Foreseen(object)'
  <2>1. PICK c \in Changes :
          \/ row[c].base = object /\ (row[c].op = "overwrite_file" \/ row[c].permanent)
          \/ c \in excused /\ Quarantines(row[c])
    BY <1>1 DEF Foreseen
  <2>2. row[c].status # "none" BY <2>1 DEF RowsSound, NoRow, Quarantines
  <2> QED BY <2>1, <2>2, PlanKept DEF Foreseen
<1>2. \A object \in lost \ late : Foreseen(object) BY DEF NothingLostUnseen, Foreseen
<1> QED BY <1>1, <1>2, LateGrows DEF NothingLostUnseen, Foreseen

\* What a step has to show, its types aside: that the plans are kept, that the call that took
\* it goes on with a change in hand and what it has checked, and what it destroyed.
LEMMA StepKeeps ==
  ASSUME TypeOK, ChangeInv, ObserveLate,
         disk' \in [Paths -> Things], quarantine' \in [Changes -> Things],
         row' \in [Changes -> Row], call' \in [Calls -> CallState], lost' \subseteq Object,
         effects' \in [Changes -> Nat], clock' \in Nat, excused \subseteq excused', excused' \subseteq Changes,
         PlansKept, \A c \in Changes : row[c].status = "none" => row'[c] = row[c],
         \A p \in Calls : call'[p] = call[p] \/
           /\ Checked(p)'
           /\ call'[p].pc # "idle" =>
                /\ call'[p].change \in Changes /\ row[call'[p].change].status # "none"
                /\ call'[p].pc \in RestorePCs => Quarantines(row[call'[p].change]),
         AppliesSound',
         \A object \in lost' \ lost : object \in late \/ Foreseen(object)
  PROVE  TypeOK' /\ ChangeInv'
<1> USE DEF ChangeInv
<1>1. late' \subseteq Object BY ThingShape DEF ObserveLate, TypeOK
<1>2. TypeOK' BY <1>1, ThingShape DEF TypeOK, CallState
<1>3. RowsSound'
  <2>1. ASSUME NEW p \in Calls, call'[p].pc # "idle"
        PROVE  /\ call'[p].change \in Changes /\ row[call'[p].change].status # "none"
               /\ call'[p].pc \in RestorePCs => Quarantines(row[call'[p].change])
    BY <2>1 DEF RowsSound, Plan
  <2> QED BY <2>1, RowsStay
<1>4. ChecksHold' BY ChecksStay
<1>5. NothingLostUnseen' BY LostStay
<1> QED BY <1>2, <1>3, <1>4, <1>5
-----------------------------------------------------------------------------
(* Step by step *)

\* Of the calls that stand still, nothing that AppliesStay asks for changes.
LEMMA OthersStand ==
  ASSUME TypeOK, AppliesSound, NEW c \in Changes \ excused, NEW q \in Calls,
         call'[q] = call[q], Applying(q, c)',
         row'[c].status = "approval_pending" => row[c].status = "approval_pending"
  PROVE  /\ Applying(q, c)
         /\ call'[q].pc \in Early => call[q].pc \in Early
         /\ row'[c].status = "approval_pending" => call'[q].pc \in {"read", "conflict"}
  BY DEF AppliesSound, AppliedOnce, Applying

\* A call of ApplyChangeWithOptions that goes one step on, from where no change is still
\* pending, and carries nothing out.
LEMMA AppliesGoOn ==
  ASSUME TypeOK, AppliesSound, row' = row, UNCHANGED <<effects, excused, quarantine>>,
         NEW p \in Calls, call[p].pc \in ApplyPCs \ {"read", "conflict"},
         NEW pc \in ApplyPCs, Goes(p, pc), pc \in Early => call[p].pc \in Early
  PROVE  AppliesSound'
<1>1. ASSUME NEW c \in Changes \ excused', NEW q \in Calls, Applying(q, c)'
      PROVE  /\ Applying(q, c)
             /\ call'[q].pc \in Early => call[q].pc \in Early
             /\ row'[c].status = "approval_pending" => call'[q].pc \in {"read", "conflict"}
  <2>1. CASE q # p BY <1>1, <2>1, GoesTo, OthersStand
  <2>2. CASE q = p
    <3>1. call'[p].pc = pc /\ call'[p].change = call[p].change BY GoesTo
    <3>2. Applying(p, c) BY <1>1, <2>2, <3>1 DEF Applying
    <3>3. row[c].status # "approval_pending"
      BY <3>2 DEF AppliesSound, AppliedOnce
    <3> QED BY <1>1, <2>2, <3>1, <3>2, <3>3
  <2> QED BY <2>1, <2>2
<1> QED BY <1>1, AppliesStay

\* The "applying" mark is written or lost, and the change excused (markApplying).
LEMMA MarkKeeps ==
  ASSUME TypeOK, ChangeInv, ObserveLate, NEW p \in Calls, MarkApplying(p)
  PROVE  TypeOK' /\ ChangeInv'
<1> USE DEF ChangeInv
<1> DEFINE c == call[p].change
<1>1. /\ c \in Changes /\ row[c].status # "none" /\ call[p].pc = "read"
      /\ UNCHANGED <<disk, quarantine, clock, lost, effects>>
  BY InHand DEF MarkApplying, At
<1>2. /\ call' \in [Calls -> CallState] /\ call'[p].pc = "marked" /\ call'[p].change = c
      /\ \A q \in Calls \ {p} : call'[q] = call[q]
  BY GoesTo DEF MarkApplying, ApplyPCs
<1>3. Checked(p)' BY <1>2 DEF Checked, At
<1>4. PlansKept /\ row' \in [Changes -> Row] /\ \A d \in Changes \ {c} : row'[d] = row[d]
  BY <1>1, StatusSet, RowsLeft DEF MarkApplying, Statuses, TypeOK
<1>5. excused \subseteq excused' /\ excused' \subseteq Changes /\ (c \in excused' \/ row'[c].status = "applying")
  BY <1>1, StatusSet DEF MarkApplying, TypeOK, Statuses
<1>6. AppliesSound'
  <2>1. ASSUME NEW d \in Changes \ excused'
        PROVE  /\ row'[d].status \in {"none", "approval_pending"} =>
                    row[d].status \in {"none", "approval_pending"}
               /\ row'[d].status = "approval_pending" => row[d].status = "approval_pending" /\ d # c
    BY <1>1, <1>4, <1>5
  <2>2. ASSUME NEW d \in Changes \ excused', NEW q \in Calls, Applying(q, d)'
        PROVE  /\ Applying(q, d)
               /\ call'[q].pc \in Early => call[q].pc \in Early
               /\ row'[d].status = "approval_pending" => call'[q].pc \in {"read", "conflict"}
    <3>1. CASE q # p BY <1>2, <1>5, <2>1, <2>2, <3>1, OthersStand
    <3>2. CASE q = p BY <1>1, <1>2, <2>1, <2>2, <3>2 DEF Applying, ApplyPCs, Early
    <3> QED BY <3>1, <3>2
  <2> QED BY <1>1, <1>5, <2>1, <2>2, AppliesStay
<1> QED
  BY <1>1, <1>2, <1>3, <1>4, <1>5, <1>6, StepKeeps DEF RowsSound, TypeOK, RestorePCs

\* What a check finds is what it can rely on (verifyBaseline, ensureTargetAbsent).
LEMMA VerifyKeeps ==
  ASSUME TypeOK, ChangeInv, ObserveLate, NEW p \in Calls, Verify(p)
  PROVE  TypeOK' /\ ChangeInv'
<1> USE DEF ChangeInv
<1>1. /\ call[p].pc = "marked" /\ call[p].change \in Changes /\ Plan(p).status # "none"
      /\ Planned(Plan(p))
      /\ UNCHANGED <<disk, quarantine, row, clock, lost, effects, excused>>
  BY InHand DEF Verify, At
<1>2. PICK pc \in {"verified", "conflict"} : /\ Goes(p, pc)
                                             /\ pc = "verified" => BaselineHolds(Plan(p)) /\ TargetHolds(Plan(p))
  BY DEF Verify
<1>3. /\ call' \in [Calls -> CallState] /\ call'[p].pc = pc /\ call'[p].change = call[p].change
      /\ \A q \in Calls \ {p} : call'[q] = call[q]
  BY <1>2, GoesTo DEF ApplyPCs
<1>4. Plan(p)' = Plan(p) BY <1>1, <1>3 DEF Plan
<1>5. Checked(p)'
  BY <1>1, <1>2, <1>3, <1>4 DEF Checked, At, Seen, GoneOrLate, BaselineHolds, TargetHolds
<1>6. AppliesSound' BY <1>1, <1>2, AppliesGoOn DEF ApplyPCs, Early
<1>7. PlansKept BY <1>1, RowsLeft
<1> QED BY <1>1, <1>2, <1>3, <1>5, <1>6, <1>7, StepKeeps DEF RowsSound, TypeOK, Plan, RestorePCs

\* The moment of the act: whatever was checked for it is still so, gone or late.
LEMMA ActingOn ==
  ASSUME TypeOK, ChangeInv, NEW p \in Calls, call[p].pc \in {"verified", "copied"},
         NEW r \in Row, r = Plan(p), NEW c \in Changes, c = call[p].change
  PROVE  /\ r = row[c] /\ r.status # "none" /\ Planned(r) /\ r.base \in Things
         /\ r.src # None => r.src \in Paths /\ disk[r.src] \in Things
         /\ r.dst # None => r.dst \in Paths /\ disk[r.dst] \in Things
         /\ call[p].pc = "verified" /\ r.src # None =>
              disk[r.src] = Absent \/ disk[r.src] \in late \/ Seen(disk[r.src], r)
         /\ call[p].pc = "verified" /\ r.op \in {"create_file", "mkdir", "move"} =>
              disk[r.dst] = Absent \/ disk[r.dst] \in late
         /\ call[p].pc = "copied" =>
              r.op = "move" /\ (disk[r.src] = Absent \/ disk[r.src] \in late \/ disk[r.src] = r.base)
         /\ c \notin excused => effects[c] = 0 /\ quarantine[c] = Absent /\ row[c].status # "approval_pending"
<1>1. Checked(p) BY DEF ChangeInv, ChecksHold
<1>2. c \notin excused => effects[c] = 0 /\ quarantine[c] = Absent /\ row[c].status # "approval_pending"
  BY DEF ChangeInv, AppliesSound, AppliedOnce, Applying, ApplyPCs, Untouched
<1> QED BY <1>1, <1>2, InHand DEF ChangeInv, Checked, At, GoneOrLate

\* A change is carried out once: the call that does it is alone and has not done it yet.
LEMMA ActsOnce ==
  ASSUME TypeOK, ChangeInv, NEW p \in Calls, call[p].pc \in {"verified", "copied"},
         NEW c \in Changes, c = call[p].change,
         effects' = [effects EXCEPT ![c] = @ + 1], Goes(p, "done"), UNCHANGED <<row, excused>>,
         \A d \in Changes \ {c} : quarantine'[d] = quarantine[d]
  PROVE  AppliesSound'
<1>1. /\ call'[p].pc = "done" /\ call'[p].change = c
      /\ \A q \in Calls \ {p} : call'[q] = call[q]
  BY GoesTo DEF ApplyPCs
<1>2. effects'[c] = effects[c] + 1 /\ \A d \in Changes \ {c} : effects'[d] = effects[d]
  BY DEF TypeOK
<1> SUFFICES ASSUME NEW d \in Changes \ excused' PROVE AppliedOnce(d)' BY DEF AppliesSound
<1>3. AppliedOnce(d) BY DEF ChangeInv, AppliesSound
<1>4. CASE d # c
  <2>1. \A q \in Calls : Applying(q, d)' => Applying(q, d) /\ call'[q] = call[q]
    BY <1>1, <1>4 DEF Applying
  <2>2. Untouched(d) => Untouched(d)' BY <1>2, <1>4 DEF Untouched
  <2> QED BY <1>2, <1>3, <1>4, <2>1, <2>2 DEF AppliedOnce
<1>5. CASE d = c
  <2>1. Applying(p, c) BY DEF Applying, ApplyPCs
  <2>2. effects'[c] = 1 /\ row'[c].status \notin {"none", "approval_pending"}
    <3>1. PICK r \in Row : r = Plan(p) BY InHand DEF ChangeInv
    <3> QED BY <1>2, <1>5, <3>1, ActingOn
  <2>3. \A q \in Calls : Applying(q, c)' => q = p
    BY <1>1, <1>3, <1>5, <2>1 DEF AppliedOnce, Applying
  <2> QED BY <1>1, <1>5, <2>2, <2>3 DEF AppliedOnce
<1> QED BY <1>4, <1>5

\* What an overwriting or permanently deleting change was shown for is foreseen.
LEMMA ShownIsForeseen ==
  ASSUME NEW c \in Changes, row[c].op = "overwrite_file" \/ row[c].permanent
  PROVE  Foreseen(row[c].base)
  BY DEF Foreseen

\* The paths an act can change and what it destroys (atomicWriteFile, os.Mkdir, os.Rename,
\* os.Remove, os.RemoveAll and the quarantine).
LEMMA ActKeeps ==
  ASSUME TypeOK, ChangeInv, ObserveLate, NEW p \in Calls, Act(p)
  PROVE  TypeOK' /\ ChangeInv'
<1> USE DEF ChangeInv
<1>0. call[p].pc = "verified" BY DEF Act, At
<1> PICK r \in Row, c \in Changes : r = Plan(p) /\ c = call[p].change BY <1>0, InHand
<1>1. /\ r = row[c] /\ r.status # "none" /\ Planned(r) /\ r.base \in Things
      /\ r.src # None => /\ r.src \in Paths /\ disk[r.src] \in Things
                         /\ disk[r.src] = Absent \/ disk[r.src] \in late \/ Seen(disk[r.src], r)
      /\ r.dst # None => r.dst \in Paths /\ disk[r.dst] \in Things
      /\ r.op \in {"create_file", "mkdir", "move"} => disk[r.dst] = Absent \/ disk[r.dst] \in late
      /\ c \notin excused => quarantine[c] = Absent
  BY <1>0, ActingOn
<1>2. /\ call' \in [Calls -> CallState] /\ call'[p].pc = "done" /\ call'[p].change = c
      /\ \A q \in Calls \ {p} : call'[q] = call[q]
  BY GoesTo DEF Act, ApplyPCs
<1>3. /\ row' = row /\ excused' = excused /\ Goes(p, "done")
      /\ effects' = [effects EXCEPT ![c] = @ + 1]
      /\ effects' \in [Changes -> Nat]
  BY DEF Act, Counts, TypeOK
<1>4. disk \in [Paths -> Things] /\ quarantine \in [Changes -> Things] /\ clock \in Nat /\ lost \subseteq Object
  BY DEF RowsSound, TypeOK
<1> DEFINE Result ==
      /\ disk' \in [Paths -> Things] /\ quarantine' \in [Changes -> Things]
      /\ \A d \in Changes \ {c} : quarantine'[d] = quarantine[d]
      /\ lost' \subseteq Object /\ clock' \in Nat
      /\ \A object \in lost' \ lost : object \in late \/ Foreseen(object)
<1>5. ASSUME WriteStaged(p) PROVE Result
  <2>1. /\ r.dst \in Paths /\ clock' = clock + 1 /\ disk' = [disk EXCEPT ![r.dst] = File(clock')]
        /\ lost' = lost \cup ({disk[r.dst]} \ {Absent}) /\ UNCHANGED quarantine
    BY <1>1, <1>5 DEF WriteStaged, Destroys, Planned
  <2>2. clock' \in Nat /\ File(clock') \in Things BY <1>4, <2>1, ThingShape
  <2>3. ASSUME disk[r.dst] # Absent, disk[r.dst] \notin late PROVE Foreseen(disk[r.dst])
    <3>1. r.op = "overwrite_file" /\ r.dst = r.src /\ r.src # None /\ r.base.kind = "file"
      BY <1>1, <1>5, <2>3 DEF WriteStaged, Planned
    <3>2. Seen(disk[r.src], r) BY <1>1, <2>3, <3>1
    <3>3. disk[r.src] = r.base BY <1>1, <3>1, <3>2, ThingShape DEF Seen
    <3> QED BY <1>1, <3>1, <3>3, ShownIsForeseen
  <2> QED BY <1>1, <1>4, <2>1, <2>2, <2>3, ThingShape
<1>6. ASSUME MakeDir(p) PROVE Result
  <2>1. /\ r.dst \in Paths /\ clock' = clock + 1 /\ disk' = [disk EXCEPT ![r.dst] = Dir(clock', 0)]
        /\ UNCHANGED <<quarantine, lost>>
    BY <1>1, <1>6 DEF MakeDir, Planned
  <2>2. clock' \in Nat /\ Dir(clock', 0) \in Things BY <1>4, <2>1, ThingShape
  <2> QED BY <1>4, <2>1, <2>2
<1>7. ASSUME Move(p) PROVE Result
  <2>1. /\ r.src \in Paths /\ r.dst \in Paths /\ disk[r.src] \in Things /\ disk[r.dst] \in Things
        /\ disk' = [disk EXCEPT ![r.src] = Absent, ![r.dst] = disk[r.src]]
        /\ lost' = lost \cup ({disk[r.dst]} \ {Absent}) /\ UNCHANGED <<quarantine, clock>>
        /\ disk[r.dst] = Absent \/ disk[r.dst] \in late
    BY <1>1, <1>7 DEF Move, Destroys, Planned
  <2> QED BY <1>4, <2>1, ThingShape
<1>8. ASSUME Remove(p) PROVE Result
  <2>1. /\ r.op = "delete" /\ r.permanent /\ r.src \in Paths /\ disk[r.src] \in Things
        /\ ~r.recursive => disk[r.src].tree = 0
        /\ disk' = [disk EXCEPT ![r.src] = Absent]
        /\ lost' = lost \cup ({disk[r.src]} \ {Absent}) /\ UNCHANGED <<quarantine, clock>>
    BY <1>1, <1>8 DEF Remove, Destroys, Planned
  <2>2. ASSUME disk[r.src] # Absent, disk[r.src] \notin late PROVE Foreseen(disk[r.src])
    <3>1. Seen(disk[r.src], r) BY <1>1, <2>1, <2>2 DEF Planned
    <3>2. disk[r.src].tree = r.base.tree BY <1>1, <2>1, <3>1 DEF Seen, Planned
    <3>3. disk[r.src] = r.base BY <1>1, <2>1, <3>1, <3>2, ThingShape DEF Seen
    <3> QED BY <1>1, <2>1, <3>3, ShownIsForeseen
  <2> QED BY <1>4, <2>1, <2>2, ThingShape
<1>9. ASSUME Quarantine(p) PROVE Result
  <2>1. /\ Quarantines(r) /\ r.src \in Paths /\ disk[r.src] \in Things
        /\ disk' = [disk EXCEPT ![r.src] = Absent]
        /\ quarantine' = [quarantine EXCEPT ![c] = disk[r.src]]
        /\ lost' = lost \cup ({quarantine[c]} \ {Absent}) /\ UNCHANGED clock
    BY <1>1, <1>9 DEF Quarantine, Destroys, Quarantines, Planned
  <2>2. quarantine[c] # Absent => Foreseen(quarantine[c])
    BY <1>1, <2>1 DEF Foreseen
  <2> QED BY <1>4, <2>1, <2>2, ThingShape
<1>10. Result BY <1>5, <1>6, <1>7, <1>8, <1>9 DEF Act
<1>11. AppliesSound' BY <1>0, <1>3, <1>10, ActsOnce
<1>12. Checked(p)' BY <1>2 DEF Checked, At
<1>13. PlansKept BY <1>3, RowsLeft
<1> QED BY <1>1, <1>2, <1>3, <1>10, <1>11, <1>12, <1>13, StepKeeps DEF TypeOK, RestorePCs

\* A call that is not, or no longer, about to carry a change out leaves the count alone.
LEMMA AsideStay ==
  ASSUME TypeOK, AppliesSound, NEW p \in Calls, call'[p].pc \notin ApplyPCs,
         \A q \in Calls \ {p} : call'[q] = call[q],
         UNCHANGED <<effects, excused>>, \A c \in Changes : quarantine'[c] \in {quarantine[c], Absent},
         \A c \in Changes : row'[c].status \in {"none", "approval_pending"} => row'[c] = row[c]
  PROVE  AppliesSound'
<1>1. ASSUME NEW c \in Changes \ excused', NEW q \in Calls, Applying(q, c)'
      PROVE  /\ Applying(q, c)
             /\ call'[q].pc \in Early => call[q].pc \in Early
             /\ row'[c].status = "approval_pending" => call'[q].pc \in {"read", "conflict"}
  <2>1. q # p /\ c \in Changes \ excused BY <1>1 DEF Applying
  <2> QED BY <1>1, <2>1, OthersStand
<1>2. \A c \in Changes : row'[c].status \in {"none", "approval_pending"} =>
        row[c].status \in {"none", "approval_pending"}
  OBVIOUS
<1>3. effects' = effects /\ excused \subseteq excused' OBVIOUS
<1> QED BY <1>1, <1>2, <1>3, AppliesStay

\* The outcome is written over the row or lost, and the call returns.
LEMMA RecordKeeps ==
  ASSUME TypeOK, ChangeInv, ObserveLate, NEW p \in Calls, NEW pcs, "idle" \notin pcs,
         NEW s \in Statuses \ {"none", "approval_pending"}, Record(p, pcs, s)
  PROVE  TypeOK' /\ ChangeInv'
<1> USE DEF ChangeInv
<1>1. /\ call[p].change \in Changes /\ row[call[p].change].status # "none"
      /\ UNCHANGED <<disk, quarantine, clock, lost, effects, excused>>
  BY InHand DEF Record
<1>2. /\ call' \in [Calls -> CallState] /\ call'[p] = Idle
      /\ \A q \in Calls \ {p} : call'[q] = call[q]
  BY ReturnsTo DEF Record
<1>3. /\ PlansKept /\ row' \in [Changes -> Row]
      /\ \A c \in Changes : row'[c].status \in {"none", "approval_pending"} => row'[c] = row[c]
      /\ \A c \in Changes : row[c].status = "none" => row'[c] = row[c]
  <2>1. CASE SetStatus(call[p].change, s) BY <1>1, <2>1, StatusSet
  <2>2. CASE row' = row BY <2>2, RowsLeft DEF TypeOK
  <2> QED BY <2>1, <2>2 DEF Record
<1>4. AppliesSound' BY <1>1, <1>2, <1>3, AsideStay DEF Idle, ApplyPCs
<1>5. Checked(p)' BY <1>2 DEF Checked, At, Idle
<1> QED BY <1>1, <1>2, <1>3, <1>4, <1>5, StepKeeps DEF RowsSound, TypeOK, Idle

\* CancelChange and RestoreQuarantine, up to the rename.
LEMMA AsideKeeps ==
  ASSUME TypeOK, ChangeInv, ObserveLate, NEW p \in Calls,
         (\E c \in Changes : CancelReads(p, c) \/ RestoreReads(p, c)) \/ RestoreChecks(p)
  PROVE  TypeOK' /\ ChangeInv'
<1> USE DEF ChangeInv
<1>1. UNCHANGED <<disk, quarantine, row, clock, lost, effects, excused>>
  BY DEF CancelReads, RestoreReads, RestoreChecks
<1>2. /\ call' \in [Calls -> CallState] /\ \A q \in Calls \ {p} : call'[q] = call[q]
      /\ call'[p].pc \in {"cancelling", "restoring", "unrestorable", "clear"}
      /\ call'[p].change \in Changes /\ row[call'[p].change].status # "none"
      /\ call'[p].pc \in RestorePCs => Quarantines(row[call'[p].change])
      /\ call'[p].pc = "clear" => disk[row[call'[p].change].src] = Absent
  <2>1. ASSUME NEW c \in Changes, CancelReads(p, c)
        PROVE  /\ call' \in [Calls -> CallState] /\ \A q \in Calls \ {p} : call'[q] = call[q]
               /\ call'[p].pc \in {"cancelling", "restoring", "unrestorable"}
               /\ call'[p].change = c /\ row[c].status # "none"
               /\ call'[p].pc \in RestorePCs => Quarantines(row[c])
    <3>1. call' = [call EXCEPT ![p] = [pc |-> "cancelling", change |-> c]] /\ row[c].status # "none"
      BY <2>1 DEF CancelReads
    <3> QED BY <3>1, StartsWith DEF RestorePCs
  <2>2. ASSUME NEW c \in Changes, RestoreReads(p, c)
        PROVE  /\ call' \in [Calls -> CallState] /\ \A q \in Calls \ {p} : call'[q] = call[q]
               /\ call'[p].pc \in {"cancelling", "restoring", "unrestorable"}
               /\ call'[p].change = c /\ row[c].status # "none"
               /\ call'[p].pc \in RestorePCs => Quarantines(row[c])
    <3>1. PICK pc \in {"restoring", "unrestorable"} :
            call' = [call EXCEPT ![p] = [pc |-> pc, change |-> c]]
      BY <2>2 DEF RestoreReads
    <3> QED BY <2>2, <3>1, StartsWith DEF RestoreReads, RestorePCs
  <2>3. CASE RestoreChecks(p)
    <3>1. PICK pc \in {"clear", "unrestorable"} :
            Goes(p, pc) /\ (pc = "clear" => disk[Plan(p).src] = Absent)
      BY <2>3 DEF RestoreChecks
    <3>2. call[p].pc = "restoring" BY <2>3 DEF RestoreChecks, At
    <3> QED BY <3>1, <3>2, GoesTo, InHand DEF RestorePCs, RowsSound
  <2> QED BY <2>1, <2>2, <2>3
<1>3. AppliesSound' BY <1>1, <1>2, AsideStay DEF ApplyPCs
<1>4. Checked(p)' BY <1>1, <1>2 DEF Checked, At, GoneOrLate, Plan
<1>5. PlansKept BY <1>1, RowsLeft
<1> QED BY <1>1, <1>2, <1>3, <1>4, <1>5, StepKeeps DEF RowsSound, TypeOK

\* What is restored goes where nothing was, or something late (os.Rename out of quarantine).
LEMMA RestoresKeeps ==
  ASSUME TypeOK, ChangeInv, ObserveLate, NEW p \in Calls, Restores(p)
  PROVE  TypeOK' /\ ChangeInv'
<1> USE DEF ChangeInv
<1>0. call[p].pc = "clear" BY DEF Restores, At
<1> PICK r \in Row, c \in Changes : r = Plan(p) /\ c = call[p].change BY <1>0, InHand
<1>1. /\ r = row[c] /\ r.status # "none" /\ Quarantines(r)
      /\ r.src \in Paths /\ disk[r.src] \in Things
      /\ disk[r.src] = Absent \/ disk[r.src] \in late
      /\ disk \in [Paths -> Things] /\ quarantine \in [Changes -> Things]
  BY <1>0, InHand DEF RowsSound, RestorePCs, Quarantines, Planned, ChecksHold, Checked, At, GoneOrLate
<1>2. UNCHANGED <<row, clock, effects, excused>> BY DEF Restores
<1>3. /\ call' \in [Calls -> CallState] /\ \A q \in Calls \ {p} : call'[q] = call[q]
      /\ call'[p] = Idle \/ (call'[p].pc = "back" /\ call'[p].change = c)
  BY GoesTo, ReturnsTo DEF Restores, RestorePCs
<1>4. /\ disk' \in [Paths -> Things] /\ quarantine' \in [Changes -> Things] /\ lost' \subseteq Object
      /\ \A d \in Changes : quarantine'[d] \in {quarantine[d], Absent}
      /\ \A object \in lost' \ lost : object \in late
  <2>1. CASE UNCHANGED <<disk, quarantine, lost>> BY <1>1, <2>1 DEF TypeOK
  <2>2. CASE /\ disk' = [disk EXCEPT ![r.src] = quarantine[c]]
             /\ quarantine' = [quarantine EXCEPT ![c] = Absent]
             /\ lost' = lost \cup ({disk[r.src]} \ {Absent})
    BY <1>1, <2>2, ThingShape DEF TypeOK
  <2> QED BY <2>1, <2>2 DEF Restores, Destroys
<1>5. AppliesSound' BY <1>2, <1>3, <1>4, AsideStay DEF ApplyPCs, Idle
<1>6. Checked(p)' BY <1>3 DEF Checked, At, Idle
<1>7. PlansKept BY <1>2, RowsLeft
<1> QED BY <1>1, <1>2, <1>3, <1>4, <1>5, <1>6, <1>7, StepKeeps DEF TypeOK, Idle

\* A second application of a change that is under way excuses it; the first finds it
\* untouched (ApplyChangeWithOptions reads the row).
LEMMA ReadKeeps ==
  ASSUME TypeOK, ChangeInv, ObserveLate, NEW p \in Calls, NEW c \in Changes, ApplyReads(p, c)
  PROVE  TypeOK' /\ ChangeInv'
<1> USE DEF ChangeInv
<1>1. /\ call[p].pc = "idle" /\ row[c].status = "approval_pending"
      /\ UNCHANGED <<disk, quarantine, row, clock, lost, effects>>
      /\ excused \subseteq excused' /\ excused' \subseteq excused \cup {c}
      /\ c \notin excused' => ~ \E q \in Calls : Applying(q, c)
  BY DEF ApplyReads, At, Applying
<1>2. /\ call' \in [Calls -> CallState] /\ \A q \in Calls \ {p} : call'[q] = call[q]
      /\ call'[p].pc \in {"read", "conflict"} /\ call'[p].change = c
  <2>1. PICK pc \in {"read", "conflict"} : call' = [call EXCEPT ![p] = [pc |-> pc, change |-> c]]
    BY DEF ApplyReads
  <2> QED BY <2>1, StartsWith DEF ApplyPCs
<1>3. AppliesSound'
  <2> SUFFICES ASSUME NEW d \in Changes \ excused' PROVE AppliedOnce(d)' BY DEF AppliesSound
  <2>1. AppliedOnce(d) BY <1>1 DEF AppliesSound
  <2>2. Untouched(d)' <=> Untouched(d) BY <1>1 DEF Untouched
  <2>3. CASE d # c
    <3>1. \A q \in Calls : Applying(q, d)' => Applying(q, d) /\ call'[q] = call[q]
      BY <1>2, <2>3 DEF Applying
    <3> QED BY <1>1, <2>1, <2>2, <3>1 DEF AppliedOnce
  <2>4. CASE d = c
    <3>1. \A q \in Calls : Applying(q, c)' => q = p BY <1>1, <1>2, <2>4 DEF Applying
    <3>2. Untouched(c)' BY <1>1, <2>1, <2>2, <2>4 DEF AppliedOnce
    <3> QED BY <1>1, <1>2, <2>1, <2>4, <3>1, <3>2 DEF AppliedOnce
  <2> QED BY <2>3, <2>4
<1>4. Checked(p)' BY <1>2 DEF Checked, At
<1>5. PlansKept BY <1>1, RowsLeft
<1> QED BY <1>1, <1>2, <1>3, <1>4, <1>5, StepKeeps DEF RowsSound, TypeOK, RestorePCs

\* A copy leaves the source as it was shown (copyFileVerifyRemove).
LEMMA CopyKeeps ==
  ASSUME TypeOK, ChangeInv, ObserveLate, NEW p \in Calls, CopyAcross(p)
  PROVE  TypeOK' /\ ChangeInv'
<1> USE DEF ChangeInv
<1>0. call[p].pc = "verified" BY DEF CopyAcross, At
<1> PICK r \in Row, c \in Changes : r = Plan(p) /\ c = call[p].change BY <1>0, InHand
<1>1. /\ r = row[c] /\ r.status # "none" /\ r.base \in Things
      /\ r.op = "move" /\ r.src \in Paths /\ r.dst \in Paths /\ r.src # r.dst
      /\ UNCHANGED <<quarantine, row, clock, lost, effects, excused>>
  BY <1>0, ActingOn DEF CopyAcross, Planned
<1>2. PICK pc \in {"copied", "failed"} :
        /\ Goes(p, pc)
        /\ pc = "copied" => disk[r.src] = r.base /\ disk' = [disk EXCEPT ![r.dst] = r.base]
        /\ pc = "failed" => disk' = disk
  BY DEF CopyAcross
<1>3. /\ call' \in [Calls -> CallState] /\ call'[p].pc = pc /\ call'[p].change = c
      /\ \A q \in Calls \ {p} : call'[q] = call[q]
  BY <1>2, GoesTo DEF ApplyPCs
<1>4. disk \in [Paths -> Things] /\ disk' \in [Paths -> Things] BY <1>1, <1>2 DEF RowsSound
<1>5. Plan(p)' = r BY <1>1, <1>3 DEF Plan
<1>6. Checked(p)'
  BY <1>1, <1>2, <1>3, <1>4, <1>5 DEF Checked, At, GoneOrLate
<1>7. AppliesSound' BY <1>0, <1>1, <1>2, AppliesGoOn DEF ApplyPCs, Early
<1>8. PlansKept BY <1>1, RowsLeft
<1> QED BY <1>1, <1>2, <1>3, <1>4, <1>6, <1>7, <1>8, StepKeeps DEF RowsSound, TypeOK, RestorePCs

\* The source that goes after the copy is the one copied, or came late.
LEMMA RemoveSourceKeeps ==
  ASSUME TypeOK, ChangeInv, ObserveLate, NEW p \in Calls, RemoveSource(p)
  PROVE  TypeOK' /\ ChangeInv'
<1> USE DEF ChangeInv
<1>0. call[p].pc = "copied" BY DEF RemoveSource, At
<1> PICK r \in Row, c \in Changes : r = Plan(p) /\ c = call[p].change BY <1>0, InHand
<1>1. /\ r = row[c] /\ r.status # "none" /\ r.src \in Paths /\ disk[r.src] \in Things
      /\ disk[r.src] = Absent \/ disk[r.src] \in late \/ disk[r.src] = r.base
      /\ UNCHANGED <<quarantine, row, clock, excused>>
      /\ effects' = [effects EXCEPT ![c] = @ + 1] /\ Goes(p, "done")
      /\ disk' = [disk EXCEPT ![r.src] = Absent]
      /\ lost' = lost \cup (({disk[r.src]} \ {r.base}) \ {Absent})
  BY <1>0, ActingOn DEF RemoveSource, Planned, Counts, Destroys
<1>2. /\ call' \in [Calls -> CallState] /\ call'[p].pc = "done" /\ call'[p].change = c
      /\ \A q \in Calls \ {p} : call'[q] = call[q]
  BY <1>1, GoesTo DEF ApplyPCs
<1>3. /\ disk' \in [Paths -> Things] /\ lost' \subseteq Object
      /\ \A object \in lost' \ lost : object \in late
      /\ effects' \in [Changes -> Nat]
  BY <1>1, ThingShape DEF RowsSound, TypeOK
<1>4. AppliesSound' BY <1>0, <1>1, ActsOnce
<1>5. Checked(p)' BY <1>2 DEF Checked, At
<1>6. PlansKept BY <1>1, RowsLeft
<1> QED BY <1>1, <1>2, <1>3, <1>4, <1>5, <1>6, StepKeeps DEF RowsSound, TypeOK, RestorePCs

\* A removal that stops half way has begun with what was shown, and a copy that is cut
\* short has nothing in its way.
LEMMA FailKeeps ==
  ASSUME TypeOK, ChangeInv, ObserveLate, NEW p \in Calls, ActFails(p)
  PROVE  TypeOK' /\ ChangeInv'
<1> USE DEF ChangeInv
<1>0. call[p].pc \in {"verified", "copied"} BY DEF ActFails
<1> PICK r \in Row, c \in Changes : r = Plan(p) /\ c = call[p].change BY <1>0, InHand
<1>1. /\ r = row[c] /\ r.status # "none" /\ r.base \in Things /\ Planned(r)
      /\ UNCHANGED <<quarantine, row, effects, excused>> /\ Goes(p, "failed")
      /\ disk \in [Paths -> Things] /\ clock \in Nat /\ lost \subseteq Object
  BY <1>0, ActingOn DEF ActFails, RowsSound, TypeOK
<1>2. /\ call' \in [Calls -> CallState] /\ call'[p].pc = "failed" /\ call'[p].change = c
      /\ \A q \in Calls \ {p} : call'[q] = call[q]
  BY <1>1, GoesTo DEF ApplyPCs
<1>3. /\ disk' \in [Paths -> Things] /\ lost' \subseteq Object /\ clock' \in Nat
      /\ \A object \in lost' \ lost : object \in late \/ Foreseen(object)
  <2>1. CASE UNCHANGED <<disk, clock, lost>> BY <1>1, <2>1
  <2>2. CASE /\ call[p].pc = "verified" /\ r.op = "delete" /\ r.permanent /\ r.recursive
             /\ clock' = clock + 1
             /\ disk' = [disk EXCEPT ![r.src] = Dir(clock', clock')]
             /\ lost' = lost \cup ({disk[r.src]} \ {Absent})
    <3>1. /\ r.src \in Paths /\ disk[r.src] \in Things
          /\ disk[r.src] = Absent \/ disk[r.src] \in late \/ Seen(disk[r.src], r)
      BY <1>1, <2>2, ActingOn DEF Planned
    <3>2. Seen(disk[r.src], r) => Foreseen(disk[r.src])
      BY <1>1, <2>2, <3>1, ThingShape, ShownIsForeseen DEF Seen
    <3>3. clock' \in Nat /\ Dir(clock', clock') \in Things BY <1>1, <2>2, ThingShape
    <3> QED BY <1>1, <2>2, <3>1, <3>2, <3>3, ThingShape
  <2>3. CASE /\ clock' = clock + 1
             /\ disk' = [disk EXCEPT ![r.dst] = File(clock')] /\ lost' = lost
    <3>1. clock' \in Nat /\ File(clock') \in Things BY <1>1, <2>3, ThingShape
    <3> QED BY <1>1, <2>3, <3>1
  <2> QED BY <2>1, <2>2, <2>3 DEF ActFails, At, Destroys
<1>4. AppliesSound' BY <1>0, <1>1, AppliesGoOn DEF ApplyPCs, Early
<1>5. Checked(p)' BY <1>2 DEF Checked, At
<1>6. PlansKept BY <1>1, RowsLeft
<1> QED BY <1>1, <1>2, <1>3, <1>4, <1>5, <1>6, StepKeeps DEF RowsSound, TypeOK, RestorePCs

\* What PrepareChange stores is a plan.
LEMMA PreparedIsPlanned ==
  ASSUME TypeOK, RowsSound, NEW c \in Changes, NEW r \in Requests, PrepareChange(c, r),
         NEW plan, plan = [[r EXCEPT !.status = "approval_pending"] EXCEPT !.base = Snapshot(r)]
  PROVE  plan \in Row /\ Planned(plan) /\ plan.base \in Things /\ plan.status = "approval_pending"
<1>1. /\ plan.status = "approval_pending" /\ plan.op = r.op /\ plan.src = r.src /\ plan.dst = r.dst
      /\ plan.permanent = r.permanent /\ plan.recursive = r.recursive /\ plan.base = Snapshot(r)
  BY DEF Requests
<1>2. r.src \in Paths \cup {None} /\ (r.src # None => disk[r.src] \in Things)
  BY DEF Requests, RowsSound
<1>3. Snapshot(r) \in Things /\ (r.src # None => Snapshot(r) = disk[r.src])
  BY <1>2, ThingShape DEF Snapshot
<1>4. plan \in Row BY <1>3, ThingShape DEF Requests, Row, Statuses
<1>5. /\ r.op # "delete" => ~r.permanent /\ ~r.recursive
      /\ \/ PreparesCreate(r) \/ PreparesMkdir(r) \/ PreparesOverwrite(r)
         \/ PreparesMove(r) \/ PreparesDelete(r) \/ PreparesRmdir(r)
  BY DEF PrepareChange
<1>6. Planned(plan)
  BY <1>1, <1>3, <1>5 DEF Planned, PreparesCreate, PreparesMkdir, PreparesOverwrite, PreparesMove,
                          PreparesDelete, PreparesRmdir
<1> QED BY <1>1, <1>3, <1>4, <1>6

\* A change that is prepared is untouched, and nobody is at work on it.
LEMMA PrepareKeeps ==
  ASSUME TypeOK, ChangeInv, ObserveLate, NEW c \in Changes, NEW r \in Requests, PrepareChange(c, r)
  PROVE  TypeOK' /\ ChangeInv'
<1> USE DEF ChangeInv
<1> DEFINE plan == [[r EXCEPT !.status = "approval_pending"] EXCEPT !.base = Snapshot(r)]
<1>1. plan \in Row /\ Planned(plan) /\ plan.base \in Things /\ plan.status = "approval_pending"
  BY PreparedIsPlanned
<1>2. /\ row[c].status = "none" /\ row' = [row EXCEPT ![c] = plan]
      /\ UNCHANGED <<disk, quarantine, call, clock, lost, effects, excused>>
  BY DEF PrepareChange, Requests
<1> HIDE DEF plan
<1>3. row' \in [Changes -> Row] /\ row'[c] = plan /\ \A d \in Changes \ {c} : row'[d] = row[d]
  BY <1>1, <1>2 DEF TypeOK
<1>4. PlansKept
  <2> SUFFICES ASSUME NEW d \in Changes, row[d].status # "none"
      PROVE  row'[d] = [row[d] EXCEPT !.status = row[d].status]
    BY DEF PlansKept
  <2> QED BY <1>2, <1>3, RowStands DEF TypeOK
<1>5. \A q \in Calls : call[q].pc # "idle" => call[q].change \in Changes \ {c}
  BY <1>2 DEF RowsSound, Plan
<1>6. RowsSound'
  BY <1>1, <1>2, <1>3, <1>5 DEF RowsSound, Plan
<1>7. AppliesSound'
  <2>1. ASSUME NEW d \in Changes \ excused', NEW q \in Calls, Applying(q, d)'
        PROVE  /\ Applying(q, d)
               /\ call'[q].pc \in Early => call[q].pc \in Early
               /\ row'[d].status = "approval_pending" => call'[q].pc \in {"read", "conflict"}
    <3>1. call'[q] = call[q] /\ d # c BY <1>2, <1>5, <2>1 DEF Applying, ApplyPCs
    <3> QED BY <1>2, <1>3, <2>1, <3>1, OthersStand
  <2>2. \A d \in Changes : row'[d].status \in {"none", "approval_pending"} =>
          row[d].status \in {"none", "approval_pending"}
    BY <1>2, <1>3
  <2>3. effects' = effects /\ excused \subseteq excused' /\ quarantine' = quarantine BY <1>2
  <2> QED BY <2>1, <2>2, <2>3, AppliesStay
<1>8. ChecksHold' BY <1>2, <1>3, <1>4, ChecksStay
<1>9. NothingLostUnseen' BY <1>2, <1>3, <1>4, LostStay
<1>10. late' \subseteq Object BY <1>2, ThingShape DEF ObserveLate, TypeOK
<1>11. TypeOK' BY <1>2, <1>3, <1>10 DEF TypeOK
<1> QED BY <1>6, <1>7, <1>8, <1>9, <1>11

\* The user may put anything anywhere.
LEMMA EditKeeps ==
  ASSUME TypeOK, ChangeInv, ObserveLate, NEW f \in Paths, UserEdits(f)
  PROVE  TypeOK' /\ ChangeInv'
<1> USE DEF ChangeInv
<1>1. disk \in [Paths -> Things] /\ disk[f].rev \in Nat /\ clock \in Nat
  BY DEF RowsSound, TypeOK, Object
<1>2. PICK new \in Things : Edited(f, new)
  <2>1. \A t \in {0, clock + 1} : t \in Nat BY <1>1
  <2>2. clock + 1 \in Nat BY <1>1
  <2> QED BY <1>1, <2>1, <2>2, ThingShape DEF UserEdits
<1>3. /\ disk' \in [Paths -> Things] /\ clock' \in Nat
      /\ UNCHANGED <<quarantine, row, call, lost, effects, excused>>
  BY <1>1, <1>2 DEF Edited
<1>4. PlansKept BY <1>3, RowsLeft
<1>5. AppliesSound'
  BY <1>3 DEF AppliesSound, AppliedOnce, Applying, Untouched
<1> QED BY <1>3, <1>4, <1>5, StepKeeps DEF RowsSound, TypeOK, CallState

\* A crash forgets the calls.
LEMMA CrashKeeps ==
  ASSUME TypeOK, ChangeInv, ObserveLate, Crash
  PROVE  TypeOK' /\ ChangeInv'
<1> USE DEF ChangeInv
<1>1. /\ UNCHANGED <<disk, quarantine, row, clock, lost, effects, excused>>
      /\ call' = [p \in Calls |-> Idle] /\ call' \in [Calls -> CallState]
  BY DEF Crash, CallState, Idle
<1>2. PlansKept BY <1>1, RowsLeft
<1>3. \A p \in Calls : call'[p].pc = "idle" BY <1>1 DEF Idle
<1>4. \A p \in Calls : Checked(p)' BY <1>3 DEF Checked, At
<1>5. \A c \in Changes, p \in Calls : ~ Applying(p, c)' BY <1>3 DEF Applying, ApplyPCs
<1>6. AppliesSound' BY <1>1, <1>5, AppliesStay
<1> QED BY <1>1, <1>2, <1>3, <1>4, <1>6, StepKeeps DEF RowsSound, TypeOK
-----------------------------------------------------------------------------
(* The theorems *)

\* Nothing has been prepared, and every path holds nothing, a file or a directory.
LEMMA Starts == Init => TypeOK /\ ChangeInv
<1> SUFFICES ASSUME Init PROVE TypeOK /\ ChangeInv OBVIOUS
<1>1. Cardinality(Paths) \in Nat BY ChangeSetAssumption, FS_CardinalityType
<1>2. \A n \in Stamps : n \in Nat BY <1>1 DEF Stamps
<1>3. ({Absent} \cup UNION {{File(n), Dir(n, 0), Dir(n, n)} : n \in Stamps}) \subseteq Things
  BY <1>2, ThingShape
<1>4. disk \in [Paths -> Things] BY <1>3 DEF Init
<1>5. /\ quarantine = [c \in Changes |-> Absent] /\ row = [c \in Changes |-> NoRow]
      /\ call = [p \in Calls |-> Idle] /\ clock \in Nat
      /\ lost = {} /\ late = {} /\ excused = {} /\ effects = [c \in Changes |-> 0]
  BY <1>1 DEF Init
<1>6. NoRow \in Row /\ NoRow.status = "none" /\ NoRow.base = Absent
  BY ThingShape DEF NoRow, Row, Statuses, Ops
<1>7. TypeOK BY <1>4, <1>5, <1>6, ThingShape DEF TypeOK, Idle
<1>8. RowsSound BY <1>4, <1>5, <1>6, ThingShape DEF RowsSound, Idle
<1>9. AppliesSound
  BY <1>5 DEF AppliesSound, AppliedOnce, Untouched, Applying, Idle, ApplyPCs
<1>10. ChecksHold /\ NothingLostUnseen
  BY <1>5 DEF ChecksHold, Checked, At, Idle, NothingLostUnseen
<1> QED BY <1>7, <1>8, <1>9, <1>10 DEF ChangeInv

\* Every step of the program, of the user and of a crash keeps the invariant.
LEMMA Steps ==
  ASSUME TypeOK, ChangeInv, [Next]_vars PROVE TypeOK' /\ ChangeInv'
<1>1. CASE UNCHANGED vars
  BY <1>1 DEF vars, TypeOK, ChangeInv, RowsSound, Plan, AppliesSound, AppliedOnce, Applying, Untouched,
              ChecksHold, Checked, At, GoneOrLate, NothingLostUnseen
<1>2. ASSUME ObserveLate, NEW p \in Calls, Apply(p) PROVE TypeOK' /\ ChangeInv'
  <2>1. CASE RecordOutcome(p)
    <3>1. PICK s \in Statuses \ {"none", "approval_pending"} : Record(p, {"done", "failed", "conflict"}, s)
      BY <2>1 DEF RecordOutcome, Outcome, Statuses
    <3> QED BY <1>2, <3>1, RecordKeeps
  <2> QED BY <1>2, <2>1, ReadKeeps, MarkKeeps, VerifyKeeps, ActKeeps, CopyKeeps, RemoveSourceKeeps,
             FailKeeps DEF Apply
<1>3. ASSUME ObserveLate, NEW p \in Calls, Cancel(p) PROVE TypeOK' /\ ChangeInv'
  <2>1. "cancelled" \in Statuses \ {"none", "approval_pending"} BY DEF Statuses
  <2>2. CASE Cancels(p) BY <1>3, <2>1, <2>2, RecordKeeps DEF Cancels
  <2> QED BY <1>3, <2>2, AsideKeeps DEF Cancel
<1>4. ASSUME ObserveLate, NEW p \in Calls, Restore(p) PROVE TypeOK' /\ ChangeInv'
  <2>1. CASE RecordRestore(p)
    <3>1. PICK s \in Statuses \ {"none", "approval_pending"} : Record(p, {"back", "unrestorable"}, s)
      BY <2>1 DEF RecordRestore, RestoreOutcome, Statuses
    <3> QED BY <1>4, <3>1, RecordKeeps
  <2> QED BY <1>4, <2>1, AsideKeeps, RestoresKeeps DEF Restore
<1> QED BY <1>1, <1>2, <1>3, <1>4, PrepareKeeps, EditKeeps, CrashKeeps DEF Next, Step

\* The inductive invariant holds in every state the change sets can reach.
THEOREM ChangeInductive == Spec => [](TypeOK /\ ChangeInv)
  BY Starts, Steps, PTL DEF Spec

\* Files, rows and calls keep their types.
THEOREM TypeCorrect == Spec => []TypeOK
  BY ChangeInductive, PTL

\* Nothing of the user's is destroyed that no preview showed and that was not put there
\* between a check and its act (verifyBaseline, ensureTargetAbsent).
THEOREM NothingLost == Spec => []NothingLostUnseen
<1>1. ChangeInv => NothingLostUnseen BY DEF ChangeInv
<1> QED BY <1>1, ChangeInductive, PTL

\* A change takes effect at most once, however it is cancelled, restored or cut short
\* (ApplyChangeWithOptions).
THEOREM CarriedOutOnce == Spec => []EffectOnce
<1>1. ChangeInv => EffectOnce BY DEF ChangeInv, AppliesSound, AppliedOnce, EffectOnce
<1> QED BY <1>1, ChangeInductive, PTL

\* Every step keeps the plans: the rows are written by the preparation of a change nobody
\* has prepared, and by calls that set a status.
LEMMA PlansStep ==
  ASSUME TypeOK, ChangeInv, [Next]_vars PROVE PlansKept
<1> USE DEF ChangeInv
<1>1. CASE row' = row BY <1>1, RowsLeft
<1>2. ASSUME NEW p \in Calls, NEW pcs, NEW s \in Statuses \ {"none", "approval_pending"},
             Record(p, pcs, s), "idle" \notin pcs, row' # row
      PROVE  PlansKept
  <2>1. call[p].change \in Changes /\ row[call[p].change].status # "none"
    BY <1>2 DEF Record, RowsSound, Plan
  <2> QED BY <1>2, <2>1, StatusSet DEF Record
<1>3. ASSUME NEW p \in Calls, MarkApplying(p), row' # row PROVE PlansKept
  <2>1. call[p].change \in Changes /\ row[call[p].change].status # "none"
    BY <1>3 DEF MarkApplying, At, RowsSound, Plan
  <2>2. "applying" \in Statuses \ {"none", "approval_pending"} BY DEF Statuses
  <2> QED BY <1>3, <2>1, <2>2, StatusSet DEF MarkApplying
<1>4. ASSUME NEW p \in Calls, Apply(p) \/ Cancel(p) \/ Restore(p), row' # row PROVE PlansKept
  <2>1. CASE MarkApplying(p) BY <1>3, <1>4, <2>1
  <2>2. CASE RecordOutcome(p)
    <3>1. Outcome(call[p].pc) \in Statuses \ {"none", "approval_pending"} BY DEF Outcome, Statuses
    <3> QED BY <1>2, <1>4, <2>2, <3>1 DEF RecordOutcome
  <2>3. CASE Cancels(p)
    <3>1. "cancelled" \in Statuses \ {"none", "approval_pending"} BY DEF Statuses
    <3> QED BY <1>2, <1>4, <2>3, <3>1 DEF Cancels
  <2>4. CASE RecordRestore(p)
    <3>1. RestoreOutcome(call[p].pc) \in Statuses \ {"none", "approval_pending"}
      BY DEF RestoreOutcome, Statuses
    <3> QED BY <1>2, <1>4, <2>4, <3>1 DEF RecordRestore
  <2> QED
    BY <1>4, <2>1, <2>2, <2>3, <2>4
    DEF Apply, Cancel, Restore, ApplyReads, Verify, Act, CopyAcross, RemoveSource, ActFails,
        CancelReads, RestoreReads, RestoreChecks, Restores
<1>5. ASSUME NEW c \in Changes, NEW r \in Requests, PrepareChange(c, r) PROVE PlansKept
  <2>1. row[c].status = "none" /\ \A d \in Changes \ {c} : row'[d] = row[d]
    BY <1>5 DEF PrepareChange, TypeOK
  <2> QED BY <2>1, RowStands DEF PlansKept, TypeOK
<1>6. CASE UNCHANGED vars BY <1>6, RowsLeft DEF vars
<1>7. CASE \/ \E f \in Paths : UserEdits(f)
           \/ Crash
  BY <1>7, RowsLeft DEF UserEdits, Edited, Crash
<1> QED BY <1>1, <1>4, <1>5, <1>6, <1>7 DEF Next, Step

\* The plan the user approved is the plan that is applied, and no change waits for approval
\* a second time (PrepareChange, SQLiteChangeSetStore.Update).
THEOREM PlanStandsAlways == Spec => PlanStands
<1> DEFINE A == \A c \in Changes : row[c].status # "none" =>
       /\ row'[c] = [row[c] EXCEPT !.status = row'[c].status]
       /\ row'[c].status # "none"
       /\ row'[c].status = "approval_pending" => row[c].status = "approval_pending"
<1>1. TypeOK /\ ChangeInv /\ [Next]_vars => [A]_vars
  <2> SUFFICES ASSUME TypeOK, ChangeInv, [Next]_vars, NEW c \in Changes, row[c].status # "none"
      PROVE  /\ row'[c] = [row[c] EXCEPT !.status = row'[c].status]
             /\ row'[c].status # "none"
             /\ row'[c].status = "approval_pending" => row[c].status = "approval_pending"
    OBVIOUS
  <2>1. PICK s \in (Statuses \ {"none", "approval_pending"}) \cup {row[c].status} :
          row'[c] = [row[c] EXCEPT !.status = s]
    BY PlansStep DEF PlansKept
  <2>2. row[c] \in Row BY DEF TypeOK
  <2>3. row'[c].status = s BY <2>1, <2>2 DEF Row
  <2> QED BY <2>1, <2>3
<1> QED BY <1>1, ChangeInductive, PTL DEF Spec, PlanStands
=============================================================================
