--------------------------- MODULE ApprovalLedger ---------------------------
(***************************************************************************)
(* What an approval request promises to the user, whoever consumes it: a   *)
(* request is opened once, decided at most once, and a granted request     *)
(* authorises one execution of the tool call it was opened for, never two, *)
(* and never one the user did not grant.                                   *)
(*                                                                         *)
(* The resume_work path (WorkDecision) and the direct tool call path       *)
(* (DirectToolApproval) both implement this specification.                 *)
(***************************************************************************)
EXTENDS Naturals

CONSTANT ApprovalIds    \* identifiers of approval requests

VARIABLES
  standing,   \* standing[a]: where request a is in its life
  uses        \* uses[a]: tool executions made under request a

vars == <<standing, uses>>

Standing == {"unopened", "open", "granted", "denied", "lapsed", "spent", "closed"}

TypeOK ==
  /\ standing \in [ApprovalIds -> Standing]
  /\ uses \in [ApprovalIds -> {0, 1}]

Init ==
  /\ standing = [a \in ApprovalIds |-> "unopened"]
  /\ uses = [a \in ApprovalIds |-> 0]

Move(a, from, to) ==
  /\ standing[a] = from
  /\ standing' = [standing EXCEPT ![a] = to]
  /\ UNCHANGED uses

Open(a)  == Move(a, "unopened", "open")
Grant(a) == Move(a, "open", "granted")
Deny(a)  == Move(a, "open", "denied")
Spend(a) == Move(a, "granted", "spent")
Close(a) == Move(a, "denied", "closed")

\* A sweep may lapse several undecided requests in one step.
Lapse(S) ==
  /\ \A a \in S : standing[a] = "open"
  /\ standing' = [a \in ApprovalIds |-> IF a \in S THEN "lapsed" ELSE standing[a]]
  /\ UNCHANGED uses

Use(a) ==
  /\ standing[a] = "spent"
  /\ uses[a] = 0
  /\ uses' = [uses EXCEPT ![a] = 1]
  /\ UNCHANGED standing

Next ==
  \/ \E a \in ApprovalIds :
       Open(a) \/ Grant(a) \/ Deny(a) \/ Spend(a) \/ Close(a) \/ Use(a)
  \/ \E S \in SUBSET ApprovalIds : Lapse(S)

Spec == Init /\ [][Next]_vars
=============================================================================
