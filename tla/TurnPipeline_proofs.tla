------------------------ MODULE TurnPipeline_proofs ------------------------
(***************************************************************************)
(* Proofs about TurnPipeline, for any calls and keys and any bounds: its    *)
(* types and its six safety properties, from one invariant about each call. *)
(***************************************************************************)
EXTENDS TurnPipeline, FiniteSetTheorems, SequenceTheorems, TLAPS

-----------------------------------------------------------------------------
(* Sequences of events *)

\* What is in a sequence is at one of its places.
LEMMA Members ==
  ASSUME NEW S, NEW s \in Seq(S)
  PROVE  /\ ToSet(s) \subseteq S
         /\ \A e : e \in ToSet(s) <=> \E i \in 1 .. Len(s) : s[i] = e
<1>1. DOMAIN s = 1 .. Len(s) /\ \A i \in 1 .. Len(s) : s[i] \in S BY LenProperties, ElementOfSeq
<1> QED BY <1>1 DEF ToSet

\* A function on the first numbers is a sequence.
LEMMA FunctionIsSeq ==
  ASSUME NEW S, NEW n \in Nat, NEW f \in [1 .. n -> S]
  PROVE  f \in Seq(S) /\ Len(f) = n
<1>1. f \in Seq(S) BY SeqDef
<1>2. DOMAIN f = 1 .. Len(f) /\ Len(f) \in Nat BY <1>1, LenProperties
<1>3. DOMAIN f = 1 .. n OBVIOUS
<1>4. Len(f) = n BY <1>2, <1>3
<1> QED BY <1>1, <1>4

\* The place of a member among the members.
Rank(P, i) == Cardinality({j \in P : j <= i})

\* The members of a set of places are those of the ranks, in their order.
LEMMA Ranks ==
  ASSUME NEW n \in Nat, NEW P \in SUBSET (1 .. n)
  PROVE  /\ IsFiniteSet(P) /\ Cardinality(P) \in Nat
         /\ InOrder(P) \in [1 .. Cardinality(P) -> P]
         /\ \A q, r \in 1 .. Cardinality(P) : q < r => InOrder(P)[q] < InOrder(P)[r]
         /\ \A i \in P : \E r \in 1 .. Cardinality(P) : InOrder(P)[r] = i
<1> DEFINE C == Cardinality(P)
           Upto(i) == {j \in P : j <= i}
<1>0. P \subseteq 1 .. n /\ \A i \in P : i \in Int OBVIOUS
<1>1. IsFiniteSet(P) /\ C \in Nat
  <2>1. IsFiniteSet(1 .. n) BY FS_Interval
  <2>2. IsFiniteSet(P) BY <2>1, FS_Subset
  <2> QED BY <2>2, FS_CardinalityType
<1>2. \A i \in P : /\ IsFiniteSet(Upto(i)) /\ Rank(P, i) \in Nat /\ Rank(P, i) <= C
  BY <1>1, FS_Subset, FS_CardinalityType DEF Rank
<1>3. ASSUME NEW i \in P, NEW k \in P, i < k PROVE Rank(P, i) < Rank(P, k)
  <2>0. i \in Int /\ k \in Int /\ ~(k <= i) /\ k <= k BY <1>3, <1>0
  <2>1. k \in Upto(k) /\ k \notin Upto(i) BY <2>0
  <2>2. \A j \in P : j <= i => j <= k BY <2>0, <1>0, <1>3
  <2>3. Upto(i) \in SUBSET Upto(k) BY <2>2
  <2>4. Cardinality(Upto(i)) <= Cardinality(Upto(k)) /\ Cardinality(Upto(i)) # Cardinality(Upto(k))
    BY <1>2, <2>1, <2>3, FS_Subset
  <2>5. Rank(P, i) = Cardinality(Upto(i)) /\ Rank(P, k) = Cardinality(Upto(k)) BY DEF Rank
  <2>6. Rank(P, i) \in Nat /\ Rank(P, k) \in Nat BY <1>2
  <2> QED BY <2>4, <2>5, <2>6
<1>4. ASSUME NEW i \in P PROVE Rank(P, i) \in 1 .. C
  <2>1. i \in Upto(i) BY <1>0
  <2>2. Cardinality(Upto(i)) # 0 BY <1>2, <2>1, FS_EmptySet
  <2>3. Rank(P, i) # 0 BY <2>2 DEF Rank
  <2>4. Rank(P, i) \in Nat /\ Rank(P, i) <= C BY <1>2
  <2> QED BY <1>1, <2>3, <2>4
<1> DEFINE f == [i \in P |-> Rank(P, i)]
<1>14. \A i, k \in P : Rank(P, i) = Rank(P, k) => i = k
  <2> SUFFICES ASSUME NEW i \in P, NEW k \in P, Rank(P, i) = Rank(P, k), i # k PROVE FALSE
    OBVIOUS
  <2>1. i < k \/ k < i BY <1>0
  <2>2. Rank(P, i) \in Nat BY <1>2
  <2> QED BY <1>3, <2>1, <2>2
<1>5. f \in Injection(P, 1 .. C) BY <1>4, <1>14 DEF Injection, IsInjective
<1>6. IsFiniteSet(1 .. C) /\ Cardinality(1 .. C) = C BY <1>1, FS_Interval
<1>7. f \in Surjection(P, 1 .. C) BY <1>5, <1>6, FS_Injection
<1>8. \A r \in 1 .. C : \E i \in P : Rank(P, i) = r BY <1>7 DEF Surjection
<1>9. InOrder(P) = [r \in 1 .. C |-> CHOOSE i \in P : Rank(P, i) = r] BY DEF InOrder, Rank
<1>10. ASSUME NEW r \in 1 .. C
       PROVE  InOrder(P)[r] \in P /\ Rank(P, InOrder(P)[r]) = r
  BY <1>8, <1>9
<1>11. ASSUME NEW q \in 1 .. C, NEW r \in 1 .. C, q < r PROVE InOrder(P)[q] < InOrder(P)[r]
  <2>1. InOrder(P)[q] \in Int /\ InOrder(P)[r] \in Int BY <1>0, <1>10
  <2>2. InOrder(P)[q] # InOrder(P)[r] BY <1>10, <1>11
  <2>3. ~(InOrder(P)[r] < InOrder(P)[q])
    <3>1. InOrder(P)[r] < InOrder(P)[q] => r < q BY <1>3, <1>10
    <3>2. q \in Int /\ r \in Int BY <1>1
    <3> QED BY <1>11, <3>1, <3>2
  <2> QED BY <2>1, <2>2, <2>3
<1>12. InOrder(P) \in [1 .. C -> P] BY <1>9, <1>10
<1>13. ASSUME NEW i \in P PROVE \E r \in 1 .. C : InOrder(P)[r] = i
  <2>1. Rank(P, i) \in 1 .. C BY <1>4
  <2>2. InOrder(P)[Rank(P, i)] \in P /\ Rank(P, InOrder(P)[Rank(P, i)]) = Rank(P, i) BY <1>10, <2>1
  <2> QED BY <1>14, <2>1, <2>2
<1> QED BY <1>1, <1>11, <1>12, <1>13

\* What is selected from a sequence is in it, in the order of the sequence, and nothing
\* that is selected is missing.
LEMMA Selecting ==
  ASSUME NEW S, NEW s \in Seq(S), NEW P \in SUBSET (1 .. Len(s))
  PROVE  /\ Selected(s, P) \in Seq(S)
         /\ ToSet(Selected(s, P)) \subseteq ToSet(s)
         /\ \A i \in P : s[i] \in ToSet(Selected(s, P))
         /\ Closed(s) => Closed(Selected(s, P))
<1> DEFINE C == Cardinality(P)
           t == Selected(s, P)
<1>0. Len(s) \in Nat BY LenProperties
<1>1. /\ C \in Nat /\ InOrder(P) \in [1 .. C -> P]
      /\ \A q, r \in 1 .. C : q < r => InOrder(P)[q] < InOrder(P)[r]
      /\ \A i \in P : \E r \in 1 .. C : InOrder(P)[r] = i
  BY <1>0, Ranks
<1>2. \A r \in 1 .. C : InOrder(P)[r] \in 1 .. Len(s) /\ s[InOrder(P)[r]] \in S
  BY <1>1, ElementOfSeq
<1>3. t = [r \in 1 .. C |-> s[InOrder(P)[r]]] BY DEF Selected
<1> HIDE DEF t, C
<1>4. t \in [1 .. C -> S] BY <1>2, <1>3
<1>5. t \in Seq(S) /\ Len(t) = C BY <1>1, <1>4, FunctionIsSeq
<1>6. ToSet(t) \subseteq ToSet(s)
  <2> SUFFICES ASSUME NEW e \in ToSet(t) PROVE e \in ToSet(s) OBVIOUS
  <2>1. PICK r \in 1 .. C : t[r] = e BY <1>5, Members
  <2>2. e = s[InOrder(P)[r]] /\ InOrder(P)[r] \in 1 .. Len(s) BY <1>2, <1>3, <2>1
  <2> QED BY <2>2, Members
<1>8. ASSUME NEW i \in P PROVE s[i] \in ToSet(t)
  <2>1. PICK r \in 1 .. C : InOrder(P)[r] = i BY <1>1
  <2>2. r \in 1 .. Len(t) /\ t[r] = s[i] BY <1>3, <1>5, <2>1
  <2> QED BY <1>5, <2>2, Members
<1>7. ASSUME Closed(s), NEW i \in 1 .. Len(t), NEW j \in 1 .. Len(t),
             t[i] = "stream_end", t[j] \in Content \cup {"stream_end"}
      PROVE  j <= i
  <2>1. InOrder(P)[j] <= InOrder(P)[i]
    BY <1>2, <1>3, <1>5, <1>7 DEF Closed
  <2>2. ~(i < j) BY <1>1, <1>2, <1>5, <2>1
  <2> QED BY <1>1, <1>5, <2>2
<1> QED BY <1>5, <1>6, <1>7, <1>8 DEF t, Closed

\* Nothing is said, and nothing ends.
NoWords(s) == ToSet(s) \cap (Content \cup {"stream_end"}) = {}
\* Parts of a stream and what they become together.
LEMMA Appended ==
  ASSUME NEW S, NEW s \in Seq(S), NEW t \in Seq(S)
  PROVE  /\ s \o t \in Seq(S) /\ Len(s \o t) = Len(s) + Len(t)
         /\ ToSet(s \o t) = ToSet(s) \cup ToSet(t)
         /\ \A i \in 1 .. Len(t) : (s \o t)[Len(s) + i] = t[i]
         /\ Closed(s) /\ Closed(t) /\ ("stream_end" \notin ToSet(s) \/ NoWords(t)) => Closed(s \o t)
<1> DEFINE u == s \o t
<1>1. /\ u \in Seq(S) /\ Len(u) = Len(s) + Len(t) /\ Len(s) \in Nat /\ Len(t) \in Nat
  BY ConcatProperties, LenProperties
<1>2. \A i \in 1 .. Len(s) : i \in 1 .. Len(u) /\ u[i] = s[i]
  BY <1>1, ConcatProperties
<1>3. \A i \in 1 .. Len(t) : Len(s) + i \in 1 .. Len(u) /\ u[Len(s) + i] = t[i]
  <2> SUFFICES ASSUME NEW i \in 1 .. Len(t) PROVE Len(s) + i \in 1 .. Len(u) /\ u[Len(s) + i] = t[i]
    OBVIOUS
  <2>1. Len(s) + i \in 1 .. Len(s) + Len(t) /\ ~(Len(s) + i <= Len(s)) /\ Len(s) + i - Len(s) = i
    BY <1>1
  <2> QED BY <1>1, <2>1, ConcatProperties
<1>4. \A i \in 1 .. Len(u) : \/ i \in 1 .. Len(s) /\ u[i] = s[i]
                             \/ i - Len(s) \in 1 .. Len(t) /\ u[i] = t[i - Len(s)] /\ i > Len(s)
  BY <1>1, ConcatProperties
<1> HIDE DEF u
<1>5. ToSet(u) = ToSet(s) \cup ToSet(t)
  <2>1. ASSUME NEW e \in ToSet(u) PROVE e \in ToSet(s) \cup ToSet(t)
    <3>1. PICK i \in 1 .. Len(u) : u[i] = e BY <1>1, Members
    <3> QED BY <1>4, <3>1, Members
  <2>2. ASSUME NEW e \in ToSet(s) PROVE e \in ToSet(u)
    <3>1. PICK i \in 1 .. Len(s) : s[i] = e BY Members
    <3> QED BY <1>1, <1>2, <3>1, Members
  <2>3. ASSUME NEW e \in ToSet(t) PROVE e \in ToSet(u)
    <3>1. PICK i \in 1 .. Len(t) : t[i] = e BY Members
    <3> QED BY <1>1, <1>3, <3>1, Members
  <2> QED BY <2>1, <2>2, <2>3
<1>6. ASSUME Closed(s), Closed(t), "stream_end" \notin ToSet(s) \/ NoWords(t),
             NEW i \in 1 .. Len(u), NEW j \in 1 .. Len(u),
             u[i] = "stream_end", u[j] \in Content \cup {"stream_end"}
      PROVE  j <= i
  <2>1. CASE i \in 1 .. Len(s) /\ u[i] = s[i]
    <3>1. "stream_end" \in ToSet(s) BY <1>6, <2>1, Members
    <3>2. NoWords(t) BY <1>6, <3>1
    <3>3. \A k \in 1 .. Len(t) : t[k] \notin Content \cup {"stream_end"}
      BY <3>2, Members DEF NoWords
    <3>4. j \in 1 .. Len(s) /\ u[j] = s[j] BY <1>4, <1>6, <3>3
    <3> QED BY <1>6, <2>1, <3>4 DEF Closed
  <2>2. CASE i - Len(s) \in 1 .. Len(t) /\ u[i] = t[i - Len(s)] /\ i > Len(s)
    <3>1. CASE j \in 1 .. Len(s) BY <1>1, <2>2, <3>1
    <3>2. CASE j - Len(s) \in 1 .. Len(t) /\ u[j] = t[j - Len(s)]
      <4>1. j - Len(s) <= i - Len(s) BY <1>6, <2>2, <3>2 DEF Closed
      <4> QED BY <1>1, <4>1
    <3> QED BY <1>4, <3>1, <3>2
  <2> QED BY <1>4, <2>1, <2>2
<1>7. Closed(s) /\ Closed(t) /\ ("stream_end" \notin ToSet(s) \/ NoWords(t)) => Closed(u)
  BY <1>6 DEF Closed
<1> QED BY <1>1, <1>3, <1>5, <1>7 DEF u

\* The beginning of a stream.
LEMMA Beginning ==
  ASSUME NEW S, NEW s \in Seq(S), NEW n \in 0 .. Len(s)
  PROVE  /\ SubSeq(s, 1, n) \in Seq(S) /\ Len(SubSeq(s, 1, n)) = n
         /\ ToSet(SubSeq(s, 1, n)) \subseteq ToSet(s)
         /\ Closed(s) => Closed(SubSeq(s, 1, n))
         /\ n = Len(s) => SubSeq(s, 1, n) = s
         /\ n = 0 => SubSeq(s, 1, n) = <<>>
<1> DEFINE t == SubSeq(s, 1, n)
<1>1. Len(s) \in Nat /\ n \in Nat /\ n <= Len(s) BY LenProperties
<1>2. \A i \in 1 .. n : i \in 1 .. Len(s) /\ s[i] \in S BY <1>1, ElementOfSeq
<1>3. t \in Seq(S) /\ Len(t) = n /\ \A i \in 1 .. n : t[i] = s[i]
  <2>1. /\ t \in Seq(S) /\ Len(t) = (IF 1 <= n THEN n - 1 + 1 ELSE 0)
        /\ \A i \in 1 .. n - 1 + 1 : t[i] = s[1 + i - 1]
    BY <1>1, <1>2, SubSeqProperties
  <2>2. n - 1 + 1 = n /\ \A i \in 1 .. n : 1 + i - 1 = i BY <1>1
  <2> QED BY <1>1, <2>1, <2>2
<1>4. n = Len(s) => t = s BY SubSeqFull
<1>5. n = 0 => t = <<>> BY <1>3, EmptySeq
<1> HIDE DEF t
<1>6. ToSet(t) \subseteq ToSet(s)
  <2> SUFFICES ASSUME NEW e \in ToSet(t) PROVE e \in ToSet(s) OBVIOUS
  <2>1. PICK i \in 1 .. n : t[i] = e BY <1>3, Members
  <2> QED BY <1>2, <1>3, <2>1, Members
<1>7. Closed(s) => Closed(t) BY <1>2, <1>3 DEF Closed
<1> QED BY <1>3, <1>4, <1>5, <1>6, <1>7 DEF t

-----------------------------------------------------------------------------
(* What a step of one call leaves to the others *)

\* What call c sends: events of evs, to its sink and to its journal.
Hears(c, evs) ==
  /\ seen' \in [Calls -> Seq(EventTypes)] /\ outbound' \in [Calls -> Seq(EventTypes)]
  /\ \A d \in Calls \ {c} : seen'[d] = seen[d] /\ outbound'[d] = outbound[d]
  /\ ToSet(seen'[c]) \subseteq ToSet(seen[c]) \cup ToSet(evs)
  /\ ToSet(outbound'[c]) \subseteq ToSet(outbound[c]) \cup ToSet(evs)
  /\ ToSet(seen[c]) \subseteq ToSet(seen'[c])
  /\ ToSet(outbound[c]) \subseteq ToSet(outbound'[c])
  /\ (/\ Closed(seen[c]) /\ Closed(outbound[c]) /\ Closed(evs)
      /\ "stream_end" \notin Shows(c) \/ NoWords(evs))
     => Closed(seen'[c]) /\ Closed(outbound'[c])

\* Both streams of a call by their types.
LEMMA StreamTypes ==
  ASSUME Typed, NEW c \in Calls
  PROVE  seen[c] \in Seq(EventTypes) /\ outbound[c] \in Seq(EventTypes)
  BY DEF Typed

\* Parts of evs appended to both streams.
LEMMA Hearing ==
  ASSUME Typed, NEW c \in Calls, NEW evs \in Seq(EventTypes),
         NEW p \in Seq(EventTypes), ToSet(p) \subseteq ToSet(evs), Closed(evs) => Closed(p),
         NEW q \in Seq(EventTypes), ToSet(q) \subseteq ToSet(evs), Closed(evs) => Closed(q),
         seen' = [seen EXCEPT ![c] = @ \o p],
         outbound' = [outbound EXCEPT ![c] = @ \o q] \/ outbound' = outbound
  PROVE  Hears(c, evs)
<1>1. seen[c] \in Seq(EventTypes) /\ outbound[c] \in Seq(EventTypes) BY StreamTypes
<1>2. seen'[c] = seen[c] \o p /\ \A d \in Calls \ {c} : seen'[d] = seen[d] BY DEF Typed
<1>3. /\ seen'[c] \in Seq(EventTypes) /\ ToSet(seen'[c]) = ToSet(seen[c]) \cup ToSet(p)
      /\ Closed(seen[c]) /\ Closed(p) /\ ("stream_end" \notin ToSet(seen[c]) \/ NoWords(p))
           => Closed(seen'[c])
  <2>1. PICK s \in Seq(EventTypes) : s = seen[c] BY <1>1
  <2>2. /\ s \o p \in Seq(EventTypes) /\ ToSet(s \o p) = ToSet(s) \cup ToSet(p)
        /\ Closed(s) /\ Closed(p) /\ ("stream_end" \notin ToSet(s) \/ NoWords(p)) => Closed(s \o p)
    BY Appended
  <2> QED BY <1>2, <2>1, <2>2
<1>4. seen' \in [Calls -> Seq(EventTypes)] BY <1>2, <1>3 DEF Typed
<1>5. NoWords(evs) => NoWords(p) /\ NoWords(q) BY DEF NoWords
<1>6. CASE outbound' = outbound
  <2>1. outbound' \in [Calls -> Seq(EventTypes)] BY <1>6 DEF Typed
  <2> QED BY <1>2, <1>3, <1>4, <1>5, <1>6, <2>1 DEF Hears, Shows
<1>7. CASE outbound' = [outbound EXCEPT ![c] = @ \o q]
  <2>1. outbound'[c] = outbound[c] \o q /\ \A d \in Calls \ {c} : outbound'[d] = outbound[d]
    BY <1>7 DEF Typed
  <2>2. /\ outbound'[c] \in Seq(EventTypes) /\ ToSet(outbound'[c]) = ToSet(outbound[c]) \cup ToSet(q)
        /\ Closed(outbound[c]) /\ Closed(q) /\ ("stream_end" \notin ToSet(outbound[c]) \/ NoWords(q))
             => Closed(outbound'[c])
    BY <1>1, <2>1, Appended
  <2>3. outbound' \in [Calls -> Seq(EventTypes)] BY <1>7, <2>1, <2>2 DEF Typed
  <2> QED BY <1>2, <1>3, <1>4, <1>5, <2>1, <2>2, <2>3 DEF Hears, Shows
<1> QED BY <1>6, <1>7

\* The first n events are handed over.
LEMMA Sent ==
  ASSUME Typed, NEW c \in Calls, NEW evs \in Seq(EventTypes), NEW n \in 0 .. Len(evs),
         Sends(c, evs, n)
  PROVE  /\ Hears(c, evs) /\ seen'[c] = seen[c] \o SubSeq(evs, 1, n)
         /\ n = Len(evs) => seen'[c] = seen[c] \o evs
<1> DEFINE p == SubSeq(evs, 1, n)
<1>0. Len(evs) \in Nat /\ n \in Nat /\ n <= Len(evs) BY LenProperties
<1>1. p \in Seq(EventTypes) /\ ToSet(p) \subseteq ToSet(evs) /\ (Closed(evs) => Closed(p))
  BY Beginning
<1>2. PICK m \in {n, Shorter(n + 1, Len(evs))} :
        outbound' = IF Alive(c) THEN [outbound EXCEPT ![c] = @ \o SubSeq(evs, 1, m)]
                    ELSE outbound
  BY DEF Sends
<1>3. m \in 0 .. Len(evs) BY <1>0, <1>2 DEF Shorter
<1> DEFINE q == SubSeq(evs, 1, m)
<1>4. q \in Seq(EventTypes) /\ ToSet(q) \subseteq ToSet(evs) /\ (Closed(evs) => Closed(q))
  BY <1>3, Beginning
<1>5. seen' = [seen EXCEPT ![c] = @ \o p] BY DEF Sends
<1>6. outbound' = [outbound EXCEPT ![c] = @ \o q] \/ outbound' = outbound BY <1>2
<1>7. n = Len(evs) => p = evs BY Beginning
<1>8. seen'[c] = seen[c] \o p BY <1>5 DEF Typed
<1> HIDE DEF p, q
<1>9. Hears(c, evs) BY <1>1, <1>4, <1>5, <1>6, Hearing
<1> QED BY <1>7, <1>8, <1>9 DEF p

\* The events that get through are among those shown.
LEMMA SentAny ==
  ASSUME Typed, NEW c \in Calls, NEW evs \in Seq(EventTypes),
         NEW taken \in SUBSET (1 .. Len(evs)), SendsAny(c, evs, taken)
  PROVE  Hears(c, evs) /\ \A i \in taken : evs[i] \in ToSet(seen'[c])
<1>1. PICK recorded \in SUBSET (1 .. Len(evs)) :
        /\ seen' = [seen EXCEPT ![c] = @ \o Selected(evs, taken)]
        /\ outbound' = IF Alive(c) THEN [outbound EXCEPT ![c] = @ \o Selected(evs, recorded)]
                       ELSE outbound
  BY DEF SendsAny
<1> DEFINE p == Selected(evs, taken)
           q == Selected(evs, recorded)
<1>2. /\ p \in Seq(EventTypes) /\ ToSet(p) \subseteq ToSet(evs) /\ (Closed(evs) => Closed(p))
      /\ \A i \in taken : evs[i] \in ToSet(p)
  BY Selecting
<1>3. q \in Seq(EventTypes) /\ ToSet(q) \subseteq ToSet(evs) /\ (Closed(evs) => Closed(q))
  BY Selecting
<1>4. seen' = [seen EXCEPT ![c] = @ \o p] BY <1>1
<1>5. outbound' = [outbound EXCEPT ![c] = @ \o q] \/ outbound' = outbound BY <1>1
<1> HIDE DEF p, q
<1>6. Hears(c, evs) BY <1>2, <1>3, <1>4, <1>5, Hearing
<1>7. ToSet(p) \subseteq ToSet(seen'[c])
  <2>1. PICK s \in Seq(EventTypes) : s = seen[c] BY StreamTypes
  <2>2. ToSet(s \o p) = ToSet(s) \cup ToSet(p) BY <1>2, Appended
  <2>3. seen'[c] = s \o p BY <1>4, <2>1 DEF Typed
  <2> QED BY <2>2, <2>3
<1> QED BY <1>2, <1>6, <1>7

\* Nothing is sent.
LEMMA Unheard ==
  ASSUME Typed, NEW c \in Calls, seen' = seen, outbound' = outbound
  PROVE  Hears(c, <<>>)
<1>1. ToSet(<<>>) = {} BY DEF ToSet
<1>2. seen' \in [Calls -> Seq(EventTypes)] /\ outbound' \in [Calls -> Seq(EventTypes)]
  BY DEF Typed
<1> QED BY <1>1, <1>2 DEF Hears

\* A step of call c: what it may change of what the others depend on.
Touches(c) ==
  /\ config' = config /\ kind' = kind
  /\ \A d \in Calls \ {c} : /\ run'[d] = run[d] /\ seen'[d] = seen[d] /\ outbound'[d] = outbound[d]
                            /\ Unwritten(d)' <=> Unwritten(d)
                            /\ \A role : [turn |-> d, role |-> role] \in messages' <=> [turn |-> d, role |-> role] \in messages
  /\ ToSet(outbound[c]) \subseteq ToSet(outbound'[c])
  /\ \A k \in Keys :
       \/ idem'[k] = idem[k]
       \/ /\ KeyOf[c] = k /\ idem'[k] # NoRecord /\ idem'[k].turn = c
          /\ idem[k] = NoRecord \/ idem[k].turn = c
  /\ Len(approvals) <= Len(approvals')
  /\ \A i \in 1 .. Len(approvals) : approvals'[i] = "pending" => approvals[i] = "pending"
  /\ faults <= faults'

\* A call at which a step does not happen is as sound as before.
LEMMA OthersKeep ==
  ASSUME Typed, Typed', NEW c \in Calls, NEW d \in Calls \ {c}, CallSound(d), Touches(c)
  PROVE  CallSound(d)'
<1>0. KeyOf[d] \in Keys /\ KeyOf[c] \in Keys BY KeyAssumption
<1>1. /\ run'[d] = run[d] /\ seen'[d] = seen[d] /\ outbound'[d] = outbound[d]
      /\ (Unwritten(d)' <=> Unwritten(d)) /\ config' = config /\ kind' = kind
      /\ \A role : [turn |-> d, role |-> role] \in messages' <=> [turn |-> d, role |-> role] \in messages
  BY DEF Touches
<1>2. Stages(KeyOf[d])' = Stages(KeyOf[d]) BY <1>1 DEF Stages
<1>3. StageOf(d)' = StageOf(d) BY <1>1, <1>2 DEF StageOf
<1>4. /\ KindOf(d)' = KindOf(d) /\ (Resuming(d)' <=> Resuming(d)) /\ Shows(d)' = Shows(d)
      /\ DefersOutput(d)' <=> DefersOutput(d)
  BY <1>1, <1>3 DEF KindOf, Resuming, Shows, DefersOutput
<1>5. (Before(d)' <=> Before(d)) /\ (MayEnd(d)' <=> MayEnd(d))
  <2>1. Before(d)' <=> Before(d) BY <1>1, <1>3 DEF Before
  <2> QED BY <1>1, <1>3, <2>1 DEF MayEnd
<1>6. /\ idem'[KeyOf[d]] = idem[KeyOf[d]]
         \/ /\ KeyOf[c] = KeyOf[d] /\ idem'[KeyOf[d]] # NoRecord /\ idem'[KeyOf[d]].turn = c
            /\ idem[KeyOf[d]] = NoRecord \/ idem[KeyOf[d]].turn = c
  BY <1>0 DEF Touches
<1>7. /\ Owns(d)' <=> Owns(d)
      /\ Owns(d) => idem'[KeyOf[d]] = idem[KeyOf[d]]
  BY <1>6 DEF Owns
<1>8. Placed(d)' BY <1>1, <1>2, <1>3 DEF CallSound, Placed
<1>9. Owned(d)'
  <2>1. faults <= faults' /\ faults \in Nat /\ faults' \in Nat BY DEF Touches, Typed
  <2>2. faults > 0 => faults' > 0 BY <2>1
  <2> QED BY <1>1, <1>7, <2>2 DEF CallSound, Owned
<1>10. Echoes(d)'
  <2>1. idem[KeyOf[d]] # NoRecord =>
          idem'[KeyOf[d]] # NoRecord /\ idem'[KeyOf[d]].turn = idem[KeyOf[d]].turn
    BY <1>6
  <2>2. \A e \in Calls : ToSet(outbound[e]) \subseteq ToSet(outbound'[e]) BY DEF Touches
  <2>3. idem[KeyOf[d]] # NoRecord => idem[KeyOf[d]].turn \in Calls
    BY <1>0 DEF Typed, Records, NoRecord
  <2>4. seen[d] = <<>> => ToSet(seen[d]) = {} BY DEF ToSet
  <2>5. ~Owns(d) /\ idem'[KeyOf[d]] # NoRecord =>
          ToSet(seen[d]) \subseteq {"turn_status"} \cup ToSet(outbound'[idem'[KeyOf[d]].turn])
    BY <2>1, <2>2, <2>3, <2>4 DEF CallSound, Echoes
  <2> QED BY <1>1, <1>7, <2>1, <2>5 DEF CallSound, Echoes
<1>11. Answers(d)' BY <1>1, <1>3 DEF CallSound, Answers
<1>12. Unspoken(d)' BY <1>1, <1>4, <1>5 DEF CallSound, Unspoken
<1>13. Ordered(d)' BY <1>1, <1>3, <1>4, <1>5 DEF CallSound, Ordered
<1>14. Withheld(d)' BY <1>1, <1>4 DEF CallSound, Withheld
<1>15. Hidden(d)' BY <1>1, <1>4 DEF CallSound, Hidden
<1>16. Waits(d)'
  <2>0. /\ Len(approvals) \in Nat /\ Len(approvals') \in Nat /\ Len(approvals) <= Len(approvals')
        /\ \A i \in 1 .. Len(approvals) : approvals'[i] = "pending" => approvals[i] = "pending"
    BY LenProperties DEF Typed, Touches
  <2>1. Len(run[d].known) \in Nat BY LenProperties DEF Typed, RunState
  <2>2. StillOpen(d)' BY <1>1, <2>0, <2>1 DEF CallSound, Waits, StillOpen
  <2>3. approvals # <<>> => approvals' # <<>> BY <2>0, EmptySeq DEF Typed
  <2>4. Asking(d)' <=> Asking(d) BY <1>1, <1>3 DEF Asking
  <2>5. (Shown(d)' <=> Shown(d)) /\ (Told(d)' <=> Told(d)) BY <1>1 DEF Shown, Told
  <2> QED BY <1>1, <1>3, <1>4, <2>2, <2>3, <2>4, <2>5 DEF CallSound, Waits
<1> QED BY <1>8, <1>9, <1>10, <1>11, <1>12, <1>13, <1>14, <1>15, <1>16 DEF CallSound

-----------------------------------------------------------------------------
(* The call that moves *)

\* The stages in their order: preparation, Emotion, commit, approvals.
LEMMA StageLists ==
  ASSUME Typed, NEW k \in Keys, NEW i \in 1 .. Len(Stages(k))
  PROVE  /\ Len(Stages(k)) \in Nat
         /\ Stages(k)[i] \in Early \cup Emotion \cup Late
         /\ Stages(k)[i] \in Early =>
              i + 1 \in 1 .. Len(Stages(k)) /\ Stages(k)[i + 1] \in Early \cup Emotion
         /\ Stages(k)[i] \in Emotion /\ i # Len(Stages(k)) =>
              i + 1 \in 1 .. Len(Stages(k)) /\ Stages(k)[i + 1] \in Late
         /\ Stages(k)[i] = "memory_commit" /\ i # Len(Stages(k)) =>
              i + 1 \in 1 .. Len(Stages(k)) /\ Stages(k)[i + 1] = "approval_wait"
         /\ Stages(k)[i] = "memory_commit" => config.memory /\ kind[k] # "approval_action"
         /\ Stages(k)[i] = "approval_wait" => i = Len(Stages(k)) /\ kind[k] # "proactive_prompt"
         /\ Stages(k)[i] = "resume" => kind[k] = "approval_action"
         /\ i = Len(Stages(k)) /\ Stages(k)[i] # "approval_wait" => kind[k] = "proactive_prompt"
<1>1. kind[k] \in Kinds /\ config.memory \in BOOLEAN BY DEF Typed
<1>2. CASE kind[k] = "approval_action"
  <2>1. Stages(k) = <<"normalize", "approval_apply", "resume", "approval_wait">>
    BY <1>2 DEF Stages
  <2> QED BY <1>2, <2>1 DEF Early, Emotion, Late
<1>3. CASE kind[k] = "proactive_prompt" /\ config.memory
  <2>1. Stages(k) = <<"normalize", "memory_prepare", "emotion_prepare", "emotion_loop",
                      "memory_commit">>
    BY <1>3 DEF Stages
  <2> QED BY <1>3, <2>1 DEF Early, Emotion, Late
<1>4. CASE kind[k] = "proactive_prompt" /\ ~config.memory
  <2>1. Stages(k) = <<"normalize", "emotion_loop">> BY <1>4 DEF Stages
  <2> QED BY <1>4, <2>1 DEF Early, Emotion, Late
<1>5. CASE kind[k] = "user_message" /\ config.memory
  <2>1. Stages(k) = <<"normalize", "memory_prepare", "emotion_prepare", "emotion_loop",
                      "memory_commit", "approval_wait">>
    BY <1>5 DEF Stages
  <2> QED BY <1>5, <2>1 DEF Early, Emotion, Late
<1>6. CASE kind[k] = "user_message" /\ ~config.memory
  <2>1. Stages(k) = <<"normalize", "emotion_loop", "approval_wait">> BY <1>6 DEF Stages
  <2> QED BY <1>6, <2>1 DEF Early, Emotion, Late
<1> QED BY <1>1, <1>2, <1>3, <1>4, <1>5, <1>6 DEF Kinds

\* Every list begins with normalize.
LEMMA FirstStage ==
  ASSUME NEW k \in Keys
  PROVE  1 \in 1 .. Len(Stages(k)) /\ Stages(k)[1] = "normalize"
<1>1. CASE kind[k] = "approval_action" BY <1>1 DEF Stages
<1>2. CASE kind[k] = "proactive_prompt"
  <2>1. CASE config.memory BY <1>2, <2>1 DEF Stages
  <2>2. CASE ~config.memory BY <1>2, <2>2 DEF Stages
  <2> QED BY <2>1, <2>2
<1>3. CASE kind[k] \notin {"approval_action", "proactive_prompt"}
  <2>1. CASE config.memory BY <1>3, <2>1 DEF Stages
  <2>2. CASE ~config.memory BY <1>3, <2>2 DEF Stages
  <2> QED BY <2>1, <2>2
<1> QED BY <1>1, <1>2, <1>3

\* A step of c that leaves its place in the list has the same stage before it.
LEMMA SamePlace ==
  ASSUME NEW c \in Calls, config' = config, kind' = kind
  PROVE  /\ Stages(KeyOf[c])' = Stages(KeyOf[c])
         /\ KindOf(c)' = KindOf(c) /\ (DefersOutput(c)' <=> DefersOutput(c))
         /\ run'[c].at = run[c].at =>
              StageOf(c)' = StageOf(c) /\ (Resuming(c)' <=> Resuming(c))
<1>1. Stages(KeyOf[c])' = Stages(KeyOf[c]) BY DEF Stages
<1>2. KindOf(c)' = KindOf(c) /\ (DefersOutput(c)' <=> DefersOutput(c)) BY DEF KindOf, DefersOutput
<1>3. run'[c].at = run[c].at => StageOf(c)' = StageOf(c) BY <1>1 DEF StageOf
<1> QED BY <1>1, <1>2, <1>3 DEF Resuming

\* The fields of the call's state that a step leaves alone.
Fields == {"pc", "at", "state", "cancelled", "notice", "output", "deferEnd", "streamed",
           "silenced", "segs", "known", "missed", "unreported", "listed", "res", "status",
           "err", "dup"}
\* Those that change while Emotion speaks.
SpeechFields == {"pc", "known", "missed", "unreported", "streamed", "output", "segs"}
Keeps(c, changed) ==
  /\ run' \in [Calls -> RunState] /\ \A d \in Calls \ {c} : run'[d] = run[d]
  /\ \A f \in Fields \ changed : run'[c][f] = run[c][f]

\* A stage returns its result.
LEMMA Returning ==
  ASSUME Typed, NEW c \in Calls, NEW r \in Results, Returns(c, r)
  PROVE  Keeps(c, {"pc", "res"}) /\ run'[c].pc = "emit" /\ run'[c].res = r
<1>1. run[c] \in RunState BY DEF Typed
<1>2. run'[c] = [run[c] EXCEPT !.pc = "emit", !.res = r] BY DEF Typed, Returns
<1>3. run'[c] \in RunState BY <1>1, <1>2 DEF RunState, Staged
<1>4. run' \in [Calls -> RunState] /\ \A d \in Calls \ {c} : run'[d] = run[d]
  BY <1>3 DEF Returns, Typed
<1>5. \A f \in Fields \ {"pc", "res"} : run'[c][f] = run[c][f]
  BY <1>1, <1>2 DEF RunState, Fields
<1>6. run'[c].pc = "emit" /\ run'[c].res = r BY <1>1, <1>2 DEF RunState
<1> QED BY <1>4, <1>5, <1>6 DEF Keeps

\* What a step of c may have written.
LEMMA Touched ==
  ASSUME Typed, NEW c \in Calls, NEW evs, Hears(c, evs), config' = config, kind' = kind,
         \A d \in Calls \ {c} : run'[d] = run[d],
         messages' = messages \/ \E roles : messages' = Saved(c, roles),
         idem' = idem, approvals' = approvals, faults' = faults
  PROVE  Touches(c)
<1>1. \A d \in Calls \ {c} : \A role :
        [turn |-> d, role |-> role] \in messages' <=> [turn |-> d, role |-> role] \in messages
  BY DEF Saved
<1>2. \A d \in Calls \ {c} : Unwritten(d)' <=> Unwritten(d) BY <1>1 DEF Unwritten
<1>3. Len(approvals) \in Nat /\ faults \in Nat BY LenProperties DEF Typed
<1> QED BY <1>1, <1>2, <1>3 DEF Touches, Hears

Live == {"begun", "closing", "completing"} \cup Staged

\* A call that goes on owns its key.
LEMMA Working ==
  ASSUME Typed, NEW c \in Calls, CallSound(c), Touches(c), idem' = idem,
         run[c].pc \in Live, run'[c].pc \in Live
  PROVE  Owned(c)' /\ Echoes(c)'
<1>1. Owns(c) /\ (Owns(c)' <=> Owns(c)) BY DEF CallSound, Owned, Live, Ending, Owns
<1>2. Owned(c)'
  BY <1>1 DEF CallSound, Owned, Live, Ending, Staged, Speaking
<1>3. Echoes(c)' BY <1>1 DEF Echoes, Live, Staged, Speaking
<1> QED BY <1>2, <1>3

\* Requests are answered and added, never withdrawn.
LEMMA Listed ==
  ASSUME Typed, Typed', NEW c \in Calls, CallSound(c), Touches(c), run'[c].known = run[c].known
  PROVE  StillOpen(c)' /\ (approvals # <<>> => approvals' # <<>>)
<1>1. /\ Len(approvals) \in Nat /\ Len(approvals') \in Nat /\ Len(approvals) <= Len(approvals')
      /\ \A i \in 1 .. Len(approvals) : approvals'[i] = "pending" => approvals[i] = "pending"
  BY LenProperties DEF Typed, Touches
<1>2. Len(run[c].known) \in Nat BY LenProperties DEF Typed, RunState
<1>3. StillOpen(c)' BY <1>1, <1>2 DEF CallSound, Waits, StillOpen
<1>4. approvals # <<>> => approvals' # <<>> BY <1>1, EmptySeq DEF Typed
<1> QED BY <1>3, <1>4

\* What is known of the requests has just been listed, or nothing is.
LEMMA JustListed ==
  ASSUME Len(approvals') \in Nat, NEW c \in Calls, run'[c].known \in {approvals', <<>>}
  PROVE  StillOpen(c)'
<1>1. CASE run'[c].known = approvals' BY <1>1 DEF StillOpen
<1>2. CASE run'[c].known = <<>>
  <2>1. Len(<<>>) = 0 /\ \A i \in 1 .. 0 : FALSE BY EmptySeq
  <2> QED BY <1>2, <2>1 DEF StillOpen
<1> QED BY <1>1, <1>2

\* What its user was shown stays shown.
LEMMA StillTold ==
  ASSUME NEW c \in Calls, ToSet(seen[c]) \subseteq ToSet(seen'[c]),
         run'[c].unreported = run[c].unreported, Told(c)
  PROVE  Told(c)'
  BY DEF Told

\* Short streams and what is in them.
LEMMA ShortStreams ==
  /\ <<>> \in Seq(EventTypes) /\ ToSet(<<>>) = {} /\ Closed(<<>>) /\ Len(<<>>) = 0
  /\ \A e \in EventTypes : /\ <<e>> \in Seq(EventTypes) /\ ToSet(<<e>>) = {e} /\ Closed(<<e>>)
                           /\ Len(<<e>>) = 1
  /\ \A e, f \in EventTypes : /\ <<e, f>> \in Seq(EventTypes) /\ ToSet(<<e, f>>) = {e, f}
                              /\ e # "stream_end" => Closed(<<e, f>>)
<1>1. <<>> \in Seq(EventTypes) /\ ToSet(<<>>) = {} /\ Closed(<<>>) /\ Len(<<>>) = 0
  BY EmptySeq DEF ToSet, Closed
<1>2. ASSUME NEW e \in EventTypes
      PROVE  <<e>> \in Seq(EventTypes) /\ ToSet(<<e>>) = {e} /\ Closed(<<e>>) /\ Len(<<e>>) = 1
  <2>1. <<e>> \in Seq(EventTypes) /\ Len(<<e>>) = 1 /\ <<e>>[1] = e OBVIOUS
  <2> DEFINE s == <<e>>
  <2> HIDE DEF s
  <2>2. s \in Seq(EventTypes) /\ Len(s) = 1 /\ s[1] = e BY <2>1 DEF s
  <2>3. \A x : x \in ToSet(s) <=> x = e BY <2>2, Members
  <2>4. ToSet(s) = {e} BY <2>3
  <2>5. Closed(s) BY <2>2 DEF Closed
  <2> QED BY <2>2, <2>4, <2>5 DEF s
<1>3. ASSUME NEW e \in EventTypes, NEW f \in EventTypes
      PROVE  /\ <<e, f>> \in Seq(EventTypes) /\ ToSet(<<e, f>>) = {e, f}
             /\ e # "stream_end" => Closed(<<e, f>>)
  <2>1. <<e, f>> \in Seq(EventTypes) /\ Len(<<e, f>>) = 2 /\ <<e, f>>[1] = e /\ <<e, f>>[2] = f
    OBVIOUS
  <2>2. \A i : i \in 1 .. 2 <=> i = 1 \/ i = 2 OBVIOUS
  <2> DEFINE s == <<e, f>>
  <2> HIDE DEF s
  <2>3. s \in Seq(EventTypes) /\ Len(s) = 2 /\ s[1] = e /\ s[2] = f BY <2>1 DEF s
  <2>4. \A x : x \in ToSet(s) <=> x = e \/ x = f BY <2>2, <2>3, Members
  <2>5. ToSet(s) = {e, f} BY <2>4
  <2>6. \A i, j \in 1 .. Len(s) : i = 1 \/ (i = 2 /\ j <= i) BY <2>2, <2>3
  <2>7. e # "stream_end" => Closed(s) BY <2>3, <2>6 DEF Closed
  <2> QED BY <2>3, <2>5, <2>7 DEF s
<1> QED BY <1>1, <1>2, <1>3

\* The results stages return.
LEMMA ResultTypes ==
  /\ Failed \in Results /\ Failed.out = <<>>
  /\ \A s \in States : /\ Goes(s) \in Results /\ Goes(s).out = <<>> /\ Goes(s).next = s
                        /\ ~Goes(s).terminal /\ ~Goes(s).err
  /\ \A s \in States : \A terminal, err \in BOOLEAN : \A status \in Final \cup {""} :
       \A out \in Seq(EventTypes) : Result(s, terminal, status, out, err) \in Results
<1>1. \A s \in States : \A terminal, err \in BOOLEAN : \A status \in Final \cup {""} :
        \A out \in Seq(EventTypes) : Result(s, terminal, status, out, err) \in Results
  BY DEF Result, Results
<1>2. <<>> \in Seq(EventTypes) BY ShortStreams
<1>3. Failed \in Results /\ Failed.out = <<>>
  BY <1>1, <1>2 DEF Failed, Result, States, Final, Results
<1>4. ASSUME NEW s \in States
      PROVE  /\ Goes(s) \in Results /\ Goes(s).out = <<>> /\ Goes(s).next = s
             /\ ~Goes(s).terminal /\ ~Goes(s).err
  BY <1>1, <1>2 DEF Goes, Result
<1> QED BY <1>1, <1>3, <1>4

Preparing(r) ==
  \/ r = Failed
  \/ ~r.err /\ ~r.terminal /\ r.next # "approval_wait" /\ ToSet(r.out) \subseteq {"approval_updated"}

\* A stage before Emotion returns: no words, and an end only if it failed.
LEMMA EarlyReturn ==
  ASSUME Typed, Typed', NEW c \in Calls, CallSound(c), Touches(c), idem' = idem,
         run[c].pc = "stage", StageOf(c) \in Early, seen' = seen, outbound' = outbound,
         Keeps(c, {"pc", "res", "notice"}), run'[c].pc = "emit", Preparing(run'[c].res),
         KindOf(c) = "proactive_prompt" => messages' = messages
  PROVE  CallSound(c)'
<1>1. /\ run'[c].at = run[c].at /\ run'[c].output = run[c].output /\ run'[c].known = run[c].known
      /\ run'[c].deferEnd = run[c].deferEnd /\ run'[c].silenced = run[c].silenced
  BY DEF Keeps, Fields
<1>2. /\ StageOf(c)' = StageOf(c) /\ Stages(KeyOf[c])' = Stages(KeyOf[c]) /\ KindOf(c)' = KindOf(c)
  BY <1>1, SamePlace DEF Touches
<1>3. Before(c) /\ Before(c)' BY <1>2 DEF Before
<1>4. Shows(c)' = Shows(c) /\ Shows(c) \subseteq {"approval_updated"}
  BY <1>3 DEF Shows, CallSound, Unspoken
<1>5. run'[c].res.err => run'[c].res = Failed BY DEF Preparing
<1>6. ToSet(run'[c].res.out) \subseteq {"approval_updated"} /\ run'[c].res.out \in Seq(EventTypes)
  <2>1. run'[c] \in RunState BY DEF Keeps
  <2>2. run'[c].res \in Results BY <2>1 DEF RunState
  <2>3. run'[c].res.out \in Seq(EventTypes) BY <2>2 DEF Results
  <2>4. Failed.out = <<>> /\ ToSet(<<>>) = {} BY ResultTypes, ShortStreams
  <2> QED BY <2>3, <2>4 DEF Preparing
<1>7. Placed(c)' BY <1>1, <1>2 DEF CallSound, Placed, Staged, Speaking
<1>8. Owned(c)' /\ Echoes(c)' BY Working DEF Live, Staged
<1>9. Answers(c)'
  BY <1>2, <1>5 DEF Answers, Preparing, Failed, Result, Early, Emotion, Late, Ending, Final
<1>10. Unspoken(c)'
  <2>1. KindOf(c) = "proactive_prompt" => (Unwritten(c)' <=> Unwritten(c)) BY DEF Unwritten
  <2> QED BY <1>1, <1>2, <1>3, <1>4, <1>6, <2>1 DEF CallSound, Unspoken
<1>11. Ordered(c)'
  <2>1. Closed(run'[c].res.out) BY <1>6, Members DEF Closed
  <2> QED BY <1>2, <1>4, <1>6, <2>1 DEF CallSound, Ordered
<1>12. Withheld(c)' BY <1>1, <1>3 DEF CallSound, Unspoken, Withheld
<1>13. Hidden(c)' BY <1>1, <1>3 DEF CallSound, Unspoken, Hidden
<1>14. Waits(c)'
  <2>1. StillOpen(c)' BY <1>1, Listed
  <2>2. run'[c].res.next # "approval_wait" BY DEF Preparing, Failed, Result
  <2> QED BY <1>2, <2>1, <2>2 DEF Waits, Asking, Early, Ending
<1> QED BY <1>7, <1>8, <1>9, <1>10, <1>11, <1>12, <1>13, <1>14 DEF CallSound

\* A step that changes nothing but the call, its streams and its messages.
LEMMA StageStep ==
  ASSUME Typed, NEW c \in Calls, NEW evs, Hears(c, evs), NEW changed, Keeps(c, changed),
         UNCHANGED <<config, kind, idem, turns, approvals, crashes, faults>>,
         messages' = messages
           \/ \E roles \in SUBSET {"user", "assistant"} : messages' = Saved(c, roles)
  PROVE  Typed' /\ Touches(c)
<1>1. messages' \subseteq [turn : Calls, role : {"user", "assistant"}]
  <2>1. messages \subseteq [turn : Calls, role : {"user", "assistant"}] BY DEF Typed
  <2>2. ASSUME NEW roles \in SUBSET {"user", "assistant"}
        PROVE  Saved(c, roles) \subseteq [turn : Calls, role : {"user", "assistant"}]
    <3>1. \A r \in roles : [turn |-> c, role |-> r] \in [turn : Calls, role : {"user", "assistant"}]
      OBVIOUS
    <3> QED BY <2>1, <3>1 DEF Saved
  <2> QED BY <2>1, <2>2
<1>2. Typed' BY <1>1 DEF Typed, Hears, Keeps
<1>3. Touches(c)
  <2>1. messages' = messages \/ \E roles : messages' = Saved(c, roles) OBVIOUS
  <2> QED BY <2>1, Touched DEF Keeps
<1> QED BY <1>2, <1>3

\* What every action of a call must do.
Keeping(c) == Typed' /\ Touches(c) /\ CallSound(c)'

\* The input is normalized, or refused.
LEMMA NormalizeKeeps ==
  ASSUME Typed, NEW c \in Calls, CallSound(c), Normalize(c)
  PROVE  Keeping(c)
<1>1. PICK r \in {Goes("normalizing"), Failed} : Returns(c, r) BY DEF Normalize
<1>2. r \in Results BY ResultTypes DEF States
<1>3. Keeps(c, {"pc", "res"}) /\ run'[c].pc = "emit" /\ run'[c].res = r BY <1>1, <1>2, Returning
<1>4. Hears(c, <<>>) BY Unheard DEF Normalize
<1>5. Typed' /\ Touches(c) BY <1>3, <1>4, StageStep DEF Normalize
<1>6. Preparing(r)
  BY <1>1, ResultTypes, ShortStreams DEF Preparing, States
<1>7. Keeps(c, {"pc", "res", "notice"}) BY <1>3 DEF Keeps
<1>8. run[c].pc = "stage" /\ StageOf(c) \in Early BY DEF Normalize, AtStage, Early
<1>9. CallSound(c)' BY <1>3, <1>5, <1>6, <1>7, <1>8, EarlyReturn DEF Normalize
<1> QED BY <1>5, <1>9 DEF Keeping

\* Memory is retrieved, or the turn fails.
LEMMA EmotionPrepareKeeps ==
  ASSUME Typed, NEW c \in Calls, CallSound(c), EmotionPrepare(c)
  PROVE  Keeping(c)
<1>1. PICK r \in {Goes("emotion_prepared"), Failed} : Returns(c, r) BY DEF EmotionPrepare
<1>2. r \in Results BY ResultTypes DEF States
<1>3. Keeps(c, {"pc", "res"}) /\ run'[c].pc = "emit" /\ run'[c].res = r BY <1>1, <1>2, Returning
<1>4. Hears(c, <<>>) BY Unheard DEF EmotionPrepare
<1>5. Typed' /\ Touches(c) BY <1>3, <1>4, StageStep DEF EmotionPrepare
<1>6. Preparing(r)
  BY <1>1, ResultTypes, ShortStreams DEF Preparing, States
<1>7. Keeps(c, {"pc", "res", "notice"}) BY <1>3 DEF Keeps
<1>8. run[c].pc = "stage" /\ StageOf(c) \in Early BY DEF EmotionPrepare, AtStage, Early
<1>9. CallSound(c)' BY <1>3, <1>5, <1>6, <1>7, <1>8, EarlyReturn DEF EmotionPrepare
<1> QED BY <1>5, <1>9 DEF Keeping

\* The message is saved, with the notice or without it.
LEMMA MemoryPrepareKeeps ==
  ASSUME Typed, NEW c \in Calls, CallSound(c), MemoryPrepare(c)
  PROVE  Keeping(c)
<1>1. Goes("memory_prepared") \in Results /\ Failed \in Results BY ResultTypes DEF States
<1>2. /\ \E changed \in {{"pc", "res"}, {"pc", "res", "notice"}} : Keeps(c, changed)
      /\ run'[c].pc = "emit" /\ run'[c].res \in {Goes("memory_prepared"), Failed}
      /\ messages' = messages
           \/ \E roles \in SUBSET {"user", "assistant"} : messages' = Saved(c, roles)
      /\ KindOf(c) = "proactive_prompt" => messages' = messages
  <2>1. CASE KindOf(c) = "proactive_prompt"
    <3>1. Returns(c, Goes("memory_prepared")) /\ messages' = messages
      BY <2>1 DEF MemoryPrepare
    <3> QED BY <1>1, <2>1, <3>1, Returning
  <2>2. CASE KindOf(c) # "proactive_prompt"
    <3>1. CASE \E roles \in {{}, {"user"}, {"user", "assistant"}} :
                 messages' = Saved(c, roles) /\ Returns(c, Failed)
      BY <1>1, <2>2, <3>1, Returning
    <3>2. CASE \E notice \in BOOLEAN :
                 /\ messages' = Saved(c, IF notice THEN {"user", "assistant"} ELSE {"user"})
                 /\ run' = [run EXCEPT ![c].pc = "emit", ![c].notice = notice,
                                       ![c].res = Goes("memory_prepared")]
      <4>1. PICK notice \in BOOLEAN :
              /\ messages' = Saved(c, IF notice THEN {"user", "assistant"} ELSE {"user"})
              /\ run' = [run EXCEPT ![c].pc = "emit", ![c].notice = notice,
                                    ![c].res = Goes("memory_prepared")]
        BY <3>2
      <4>2. run[c] \in RunState BY DEF Typed
      <4> DEFINE r == Goes("memory_prepared")
      <4> HIDE DEF r
      <4>3. run'[c] = [run[c] EXCEPT !.pc = "emit", !.notice = notice, !.res = r]
        BY <4>1 DEF Typed, r
      <4>4. r \in Results BY <1>1 DEF r
      <4>5. run'[c] \in RunState BY <4>2, <4>3, <4>4 DEF RunState, Staged
      <4>6. run' \in [Calls -> RunState] /\ \A d \in Calls \ {c} : run'[d] = run[d]
        BY <4>1, <4>5 DEF Typed
      <4>7. \A f \in Fields \ {"pc", "res", "notice"} : run'[c][f] = run[c][f]
        BY <4>2, <4>3 DEF RunState, Fields
      <4>8. run'[c].pc = "emit" /\ run'[c].res = r BY <4>2, <4>3 DEF RunState
      <4>9. Keeps(c, {"pc", "res", "notice"}) BY <4>6, <4>7 DEF Keeps
      <4> QED BY <2>2, <4>1, <4>8, <4>9 DEF r
    <3> QED BY <2>2, <3>1, <3>2 DEF MemoryPrepare
  <2> QED BY <2>1, <2>2
<1>3. Hears(c, <<>>) BY Unheard DEF MemoryPrepare
<1>4. Typed' /\ Touches(c) BY <1>2, <1>3, StageStep DEF MemoryPrepare
<1>5. Preparing(run'[c].res)
  BY <1>2, ResultTypes, ShortStreams DEF Preparing, States
<1>6. Keeps(c, {"pc", "res", "notice"}) BY <1>2 DEF Keeps
<1>7. run[c].pc = "stage" /\ StageOf(c) \in Early BY DEF MemoryPrepare, AtStage, Early
<1>8. CallSound(c)' BY <1>2, <1>4, <1>5, <1>6, <1>7, EarlyReturn DEF MemoryPrepare
<1> QED BY <1>4, <1>8 DEF Keeping

\* The request answered is no longer pending.
LEMMA ApprovalApplyKeeps ==
  ASSUME Typed, NEW c \in Calls, CallSound(c), ApprovalApply(c)
  PROVE  Keeping(c)
<1> DEFINE told == Result("running_emotion", FALSE, "", <<"approval_updated">>, FALSE)
<1>1. /\ told \in Results /\ Failed \in Results /\ told.out = <<"approval_updated">>
      /\ ~told.err /\ ~told.terminal /\ told.next = "running_emotion"
  BY ResultTypes, ShortStreams DEF States, EventTypes, Final, Result
<1> HIDE DEF told
<1>2. \/ /\ Returns(c, told) /\ approvals # <<>>
         /\ approvals' = [approvals EXCEPT ![1] = "settled"]
      \/ Returns(c, Failed) /\ approvals' = approvals
  BY DEF ApprovalApply, told
<1>3. /\ Keeps(c, {"pc", "res"}) /\ run'[c].pc = "emit" /\ run'[c].res \in {told, Failed}
  BY <1>1, <1>2, Returning
<1>4. Hears(c, <<>>) BY Unheard DEF ApprovalApply
<1>5. /\ approvals' \in Seq(Requests) /\ Len(approvals') = Len(approvals)
      /\ \A i \in 1 .. Len(approvals) : approvals'[i] = "pending" => approvals[i] = "pending"
  <2>1. CASE approvals' = approvals BY <2>1 DEF Typed
  <2>2. CASE approvals # <<>> /\ approvals' = [approvals EXCEPT ![1] = "settled"]
    <3>1. 1 \in 1 .. Len(approvals) BY <2>2, EmptySeq, LenProperties DEF Typed
    <3>2. "settled" \in Requests /\ approvals \in Seq(Requests) BY DEF Requests, Typed
    <3> QED BY <2>2, <3>1, <3>2, ExceptSeq
  <2> QED BY <1>2, <2>1, <2>2
<1>6. Typed' BY <1>3, <1>4, <1>5 DEF Typed, Hears, Keeps, ApprovalApply
<1>7. Touches(c)
  <2>1. \A d \in Calls : Unwritten(d)' <=> Unwritten(d) BY DEF ApprovalApply, Unwritten
  <2>2. Len(approvals) \in Nat /\ faults \in Nat BY LenProperties DEF Typed
  <2>3. faults' = faults BY DEF ApprovalApply
  <2>6. Len(approvals) <= Len(approvals') /\ faults <= faults' BY <1>5, <2>2, <2>3
  <2>4. \A d \in Calls \ {c} : run'[d] = run[d] /\ seen'[d] = seen[d] /\ outbound'[d] = outbound[d]
    BY <1>3, <1>4 DEF Hears, Keeps
  <2>5. ToSet(outbound[c]) \subseteq ToSet(outbound'[c]) BY <1>4 DEF Hears
  <2> QED BY <1>5, <2>1, <2>6, <2>4, <2>5 DEF Touches, ApprovalApply
<1>8. Preparing(run'[c].res)
  <2>1. ToSet(told.out) = {"approval_updated"} BY <1>1, ShortStreams DEF EventTypes
  <2> QED BY <1>1, <1>3, <2>1 DEF Preparing
<1>9. Keeps(c, {"pc", "res", "notice"}) BY <1>3 DEF Keeps
<1>10. run[c].pc = "stage" /\ StageOf(c) \in Early BY DEF ApprovalApply, AtStage, Early
<1>11. CallSound(c)' BY <1>3, <1>6, <1>7, <1>8, <1>9, <1>10, EarlyReturn DEF ApprovalApply
<1> QED BY <1>6, <1>7, <1>11 DEF Keeping

\* The Emotion stage returns: nothing has ended so far, and the end it returns
\* is not for a text that is not saved.
LEMMA EmotionReturn ==
  ASSUME Typed, Typed', NEW c \in Calls, CallSound(c), Touches(c), idem' = idem,
         messages \subseteq messages', StageOf(c) \in Emotion, run[c].pc \in {"stage"} \cup Speaking,
         NEW evs, Hears(c, evs), Closed(evs), "stream_end" \notin ToSet(evs),
         Keeps(c, {"pc", "res", "silenced", "deferEnd"}), run'[c].pc = "emit",
         NEW r \in Results, run'[c].res = r, Closed(r.out), r.next \in Final,
         r.err => r.out = <<>> /\ r.terminal /\ r.status = "failed",
         r.terminal => r.status \in {"done", "failed"},
         r.next = "approval_wait" => approvals # <<>> /\ Told(c),
         run'[c].deferEnd => "stream_end" \notin ToSet(r.out),
         config.memory /\ run[c].output = "text"
           /\ [turn |-> c, role |-> "assistant"] \notin messages'
           => "stream_end" \notin ToSet(r.out),
         run'[c].silenced =>
           /\ Shows(c)' \cap Visible = {} /\ Unwritten(c)'
           /\ r.terminal /\ r.out = <<>>
  PROVE  CallSound(c)'
<1>1. /\ run'[c].at = run[c].at /\ run'[c].output = run[c].output /\ run'[c].known = run[c].known
  BY DEF Keeps, Fields
<1>2. /\ StageOf(c)' = StageOf(c) /\ Stages(KeyOf[c])' = Stages(KeyOf[c]) /\ KindOf(c)' = KindOf(c)
      /\ config' = config
  BY <1>1, SamePlace DEF Touches
<1>3. MayEnd(c) /\ "stream_end" \notin Shows(c) /\ Closed(seen[c]) /\ Closed(outbound[c])
  <2>1. MayEnd(c) BY DEF MayEnd, Before
  <2> QED BY <2>1 DEF CallSound, Ordered
<1>4. /\ "stream_end" \notin Shows(c)' /\ Closed(seen'[c]) /\ Closed(outbound'[c])
      /\ "stream_end" \notin ToSet(seen'[c])
  BY <1>3 DEF Hears, Shows
<1>5. ~Before(c)' BY <1>2 DEF Before, Emotion, Early
<1>6. Placed(c)' BY <1>1, <1>2 DEF CallSound, Placed, Staged, Speaking
<1>7. Owned(c)' /\ Echoes(c)' BY Working DEF Live, Staged
<1>8. Answers(c)' BY <1>2 DEF Answers, Emotion, Early, Late, Ending, Final
<1>9. Unspoken(c)' BY <1>5 DEF Unspoken
<1>10. Ordered(c)' BY <1>4 DEF Ordered
<1>11. Withheld(c)' BY <1>1, <1>2, <1>4 DEF Withheld
<1>12. Hidden(c)' BY DEF Hidden
<1>13. Waits(c)'
  <2>1. StillOpen(c)' /\ (approvals # <<>> => approvals' # <<>>) BY <1>1, Listed
  <2>2. Told(c) => Told(c)'
    <3>1. run'[c].unreported = run[c].unreported BY DEF Keeps, Fields
    <3> QED BY <3>1, StillTold DEF Hears
  <2> QED BY <1>2, <2>1, <2>2 DEF Waits, Asking, Emotion, Ending
<1> QED BY <1>6, <1>7, <1>8, <1>9, <1>10, <1>11, <1>12, <1>13 DEF CallSound

\* Where Emotion speaks, it is Emotion's stage.
LEMMA SpeakingPlace ==
  ASSUME NEW c \in Calls, CallSound(c), run[c].pc \in Speaking \/ Speaks(c)
  PROVE  StageOf(c) \in Emotion /\ run[c].pc \in {"stage"} \cup Speaking
  BY DEF CallSound, Placed, Speaks, Emotion

\* Before Emotion has spoken a call has no text.
LEMMA NoText ==
  ASSUME NEW c \in Calls, CallSound(c), StageOf(c) \in Emotion,
         run[c].pc \in {"stage", "speaking", "interrupted"}
  PROVE  run[c].output = "none" /\ ~run[c].deferEnd
  BY DEF CallSound, Unspoken, Before

\* Silence comes after Emotion has been called.
LEMMA NotSilenced ==
  ASSUME NEW c \in Calls, CallSound(c), run[c].pc \in {"stage"} \cup Speaking
  PROVE  ~run[c].silenced
  BY DEF CallSound, Hidden, Speaking, Ending

\* A notice is a whole reply, text and end.
LEMMA SpeakNoticeKeeps ==
  ASSUME Typed, NEW c \in Calls, CallSound(c), SpeakNotice(c)
  PROVE  Keeping(c)
<1> DEFINE r == Result("done", FALSE, "done", <<"stream_delta", "stream_end">>, FALSE)
<1>1. <<"stream_delta", "stream_end">> \in Seq(EventTypes) /\ Closed(<<"stream_delta", "stream_end">>)
  BY ShortStreams DEF EventTypes
<1>2. /\ r \in Results /\ Closed(r.out) /\ r.next = "done" /\ ~r.err /\ ~r.terminal
  BY <1>1, ResultTypes DEF Result, States, Final
<1>3. Returns(c, r) BY DEF SpeakNotice
<1> HIDE DEF r
<1>4. Keeps(c, {"pc", "res"}) /\ run'[c].pc = "emit" /\ run'[c].res = r BY <1>2, <1>3, Returning
<1>5. Hears(c, <<>>) BY Unheard DEF SpeakNotice
<1>6. Typed' /\ Touches(c) BY <1>4, <1>5, StageStep DEF SpeakNotice
<1>7. Keeps(c, {"pc", "res", "silenced", "deferEnd"}) BY <1>4 DEF Keeps
<1>8. StageOf(c) \in Emotion /\ run[c].pc = "stage" BY DEF SpeakNotice, Speaks, Emotion
<1>9. run'[c].deferEnd = run[c].deferEnd /\ run'[c].silenced = run[c].silenced
  BY <1>4 DEF Keeps, Fields
<1>10. run[c].output = "none" /\ ~run[c].deferEnd /\ ~run[c].silenced
  BY <1>8, NoText, NotSilenced
<1>11. CallSound(c)'
  BY <1>2, <1>4, <1>5, <1>6, <1>7, <1>8, <1>9, <1>10, EmotionReturn, ShortStreams
     DEF SpeakNotice, Final
<1> QED BY <1>6, <1>11 DEF Keeping

\* The Emotion stage fails, whatever it has sent and saved.
LEMMA EmotionFails ==
  ASSUME Typed, NEW c \in Calls, CallSound(c), StageOf(c) \in Emotion,
         run[c].pc \in {"stage"} \cup Speaking, Returns(c, Failed),
         NEW evs, Hears(c, evs), Closed(evs), "stream_end" \notin ToSet(evs),
         UNCHANGED <<config, kind, idem, turns, approvals, crashes, faults>>,
         messages' = messages
           \/ \E roles \in SUBSET {"user", "assistant"} : messages' = Saved(c, roles)
  PROVE  Keeping(c)
<1>1. /\ Failed \in Results /\ Failed.out = <<>> /\ Failed.next = "failed" /\ Failed.err
      /\ Failed.terminal /\ Failed.status = "failed"
  BY ResultTypes DEF Failed, Result
<1>2. Keeps(c, {"pc", "res"}) /\ run'[c].pc = "emit" /\ run'[c].res = Failed
  BY <1>1, Returning
<1>3. Typed' /\ Touches(c) BY <1>2, StageStep
<1>4. Keeps(c, {"pc", "res", "silenced", "deferEnd"}) BY <1>2 DEF Keeps
<1>5. ~run'[c].silenced
  <2>1. run'[c].silenced = run[c].silenced BY <1>2 DEF Keeps, Fields
  <2> QED BY <2>1, NotSilenced
<1>6. messages \subseteq messages' BY DEF Saved
<1>7. CallSound(c)'
  BY <1>1, <1>2, <1>3, <1>4, <1>5, <1>6, EmotionReturn, ShortStreams DEF Final
<1> QED BY <1>3, <1>7 DEF Keeping

\* The engine fails, with or without its commit.
LEMMA SpeakFailsKeeps ==
  ASSUME Typed, NEW c \in Calls, CallSound(c), SpeakFails(c)
  PROVE  Keeping(c)
<1>1. Hears(c, <<>>) BY Unheard DEF SpeakFails
<1>2. StageOf(c) \in Emotion /\ run[c].pc \in {"stage"} \cup Speaking
  BY SpeakingPlace DEF SpeakFails, Speaking
<1>3. \E roles \in SUBSET {"user", "assistant"} : messages' = Saved(c, roles)
  BY DEF SpeakFails
<1> QED BY <1>1, <1>2, <1>3, EmotionFails, ShortStreams DEF SpeakFails

\* Emotion goes on speaking.
LEMMA SpeakOn ==
  ASSUME Typed, Typed', NEW c \in Calls, CallSound(c), Touches(c), idem' = idem,
         messages \subseteq messages', StageOf(c) \in Emotion, run[c].pc \in {"stage"} \cup Speaking,
         NEW evs, Hears(c, evs), Closed(evs), "stream_end" \notin ToSet(evs),
         Keeps(c, SpeechFields), run'[c].pc \in Speaking,
         run'[c].pc \in {"speaking", "interrupted"} =>
           run'[c].output = run[c].output /\ run[c].pc \in {"stage", "speaking", "interrupted"},
         StillOpen(c)', run'[c].pc = "interrupted" => approvals' # <<>> /\ Told(c)',
         run'[c].pc = "spoken" /\ config.memory /\ run'[c].output = "text"
           /\ [turn |-> c, role |-> "assistant"] \notin messages' => ~Resuming(c),
         run'[c].pc = "speaking" /\ DefersOutput(c) =>
           Shows(c)' \cap Visible = {} /\ Unwritten(c)'
  PROVE  CallSound(c)'
<1>1. /\ run'[c].at = run[c].at /\ run'[c].deferEnd = run[c].deferEnd
      /\ run'[c].silenced = run[c].silenced
  BY DEF Keeps, Fields, SpeechFields
<1>2. /\ StageOf(c)' = StageOf(c) /\ Stages(KeyOf[c])' = Stages(KeyOf[c]) /\ KindOf(c)' = KindOf(c)
      /\ config' = config /\ (Resuming(c)' <=> Resuming(c)) /\ (DefersOutput(c)' <=> DefersOutput(c))
  BY <1>1, SamePlace DEF Touches
<1>3. MayEnd(c) /\ "stream_end" \notin Shows(c) /\ Closed(seen[c]) /\ Closed(outbound[c])
  <2>1. MayEnd(c) BY DEF MayEnd, Before
  <2> QED BY <2>1 DEF CallSound, Ordered
<1>4. /\ "stream_end" \notin Shows(c)' /\ Closed(seen'[c]) /\ Closed(outbound'[c])
      /\ "stream_end" \notin ToSet(seen'[c])
  BY <1>3 DEF Hears, Shows
<1>5. ~Before(c)' BY <1>2 DEF Before, Speaking
<1>6. Placed(c)' BY <1>1, <1>2 DEF CallSound, Placed, Staged
<1>7. Owned(c)' /\ Echoes(c)' BY Working DEF Live, Staged
<1>8. Answers(c)' BY DEF Answers, Speaking, Ending
<1>9. Unspoken(c)'
  <2>1. run'[c].pc \in {"speaking", "interrupted"} => run'[c].output = "none" /\ ~run'[c].deferEnd
    BY <1>1, NoText
  <2> QED BY <1>5, <2>1 DEF Unspoken
<1>10. Ordered(c)' BY <1>4 DEF Ordered, Speaking
<1>11. Withheld(c)' BY <1>2, <1>4 DEF Withheld, Speaking
<1>12. Hidden(c)'
  <2>1. ~run'[c].silenced BY <1>1, NotSilenced
  <2> QED BY <1>2, <2>1 DEF Hidden
<1>13. Waits(c)' BY DEF Waits, Asking, Speaking, Ending
<1> QED BY <1>6, <1>7, <1>8, <1>9, <1>10, <1>11, <1>12, <1>13 DEF CallSound

\* What a call is holding back before Emotion speaks.
LEMMA HeldBack ==
  ASSUME Typed, NEW c \in Calls, CallSound(c), DefersOutput(c), StageOf(c) \in Emotion,
         run[c].pc \in {"stage", "speaking"}
  PROVE  Shows(c) \cap Visible = {} /\ Unwritten(c) /\ config.memory
<1>1. KindOf(c) = "proactive_prompt" BY DEF DefersOutput
<1>2. config.memory BY <1>1, KeyAssumption DEF KindOf, Typed
<1>3. CASE run[c].pc = "stage"
  <2>1. Before(c) BY <1>3 DEF Before
  <2> QED BY <1>1, <1>2, <2>1 DEF CallSound, Unspoken, Visible
<1>4. CASE run[c].pc = "speaking" BY <1>2, <1>4 DEF CallSound, Hidden
<1> QED BY <1>3, <1>4

\* The opening of a stream, or nothing.
LEMMA Opening ==
  ASSUME NEW evs \in {<<>>, <<"stream_start">>}
  PROVE  /\ evs \in Seq(EventTypes) /\ Closed(evs) /\ "stream_end" \notin ToSet(evs)
         /\ evs = <<>> => Len(evs) = 0
         /\ evs = <<"stream_start">> => Len(evs) = 1
<1>1. CASE evs = <<>> BY <1>1, ShortStreams
<1>2. CASE evs = <<"stream_start">>
  <2>1. "stream_start" \in EventTypes BY DEF EventTypes
  <2>2. /\ <<"stream_start">> \in Seq(EventTypes) /\ Closed(<<"stream_start">>)
        /\ ToSet(<<"stream_start">>) = {"stream_start"} /\ Len(<<"stream_start">>) = 1
    BY <2>1, ShortStreams
  <2> QED BY <1>2, <2>2
<1> QED BY <1>1, <1>2

\* The loop looks at the session's requests.
LEMMA Looking ==
  ASSUME Typed, NEW c \in Calls, NEW pc \in Speaking, NEW now \in Seq(Requests),
         NEW fails \in BOOLEAN, Looks(c, pc, now, fails)
  PROVE  /\ Keeps(c, {"pc", "known", "missed"}) /\ Keeps(c, SpeechFields)
         /\ run'[c].pc = pc /\ run'[c].output = run[c].output
         /\ run'[c].known = IF fails THEN <<>> ELSE now
<1> DEFINE known == IF fails THEN <<>> ELSE now
           missed == IF fails THEN run[c].missed + 1 ELSE run[c].missed
<1>1. run[c] \in RunState BY DEF Typed
<1>2. run'[c] = [run[c] EXCEPT !.pc = pc, !.known = known, !.missed = missed] BY DEF Looks, Typed
<1>3. known \in Seq(Requests) BY EmptySeq
<1>4. missed \in Nat
  <2>1. run[c].missed \in Nat BY <1>1 DEF RunState
  <2> QED BY <2>1
<1>5. \A d \in Calls \ {c} : run'[d] = run[d] BY DEF Looks, Typed
<1> HIDE DEF known, missed
<1>6. run'[c] \in RunState BY <1>1, <1>2, <1>3, <1>4 DEF RunState, Staged
<1>7. run' \in [Calls -> RunState] BY <1>6 DEF Looks, Typed
<1>8. /\ \A f \in Fields \ {"pc", "known", "missed"} : run'[c][f] = run[c][f]
      /\ run'[c].pc = pc /\ run'[c].known = known /\ run'[c].output = run[c].output
  BY <1>1, <1>2 DEF RunState, Fields
<1> QED BY <1>5, <1>7, <1>8 DEF Keeps, SpeechFields, known

\* The stream opens and the engine is called.
LEMMA SpeakStartKeeps ==
  ASSUME Typed, NEW c \in Calls, CallSound(c), SpeakStart(c)
  PROVE  Keeping(c)
<1> DEFINE evs == IF DefersOutput(c) THEN <<>> ELSE <<"stream_start">>
<1>1. /\ evs \in Seq(EventTypes) /\ Closed(evs) /\ "stream_end" \notin ToSet(evs)
      /\ DefersOutput(c) => evs = <<>>
      /\ Len(evs) = IF DefersOutput(c) THEN 0 ELSE 1
  BY Opening
<1>2. StageOf(c) \in Emotion /\ run[c].pc = "stage"
  BY SpeakingPlace DEF SpeakStart, Speaks, Emotion
<1>3. PICK n \in 0 .. 1 :
        /\ Sends(c, evs, IF DefersOutput(c) THEN 0 ELSE n)
        /\ IF n = 0 /\ ~DefersOutput(c)
             THEN Returns(c, Failed) /\ UNCHANGED messages
             ELSE LET saves == ~config.memory /\ ~Resuming(c) IN
                  \/ /\ saves => Alive(c)
                     /\ messages' = IF saves THEN Saved(c, {"user"}) ELSE messages
                     /\ \E fails \in {FALSE} \cup Misses(c) : Looks(c, "speaking", approvals, fails)
                  \/ saves /\ Returns(c, Failed) /\ UNCHANGED messages
  BY DEF SpeakStart
<1>4. (IF DefersOutput(c) THEN 0 ELSE n) \in 0 .. Len(evs) BY <1>1
<1> HIDE DEF evs
<1>5. Hears(c, evs) BY <1>1, <1>3, <1>4, Sent
<1>6. CASE Returns(c, Failed) /\ UNCHANGED messages
  BY <1>1, <1>2, <1>5, <1>6, EmotionFails DEF SpeakStart
<1>7. CASE /\ messages' = IF ~config.memory /\ ~Resuming(c) THEN Saved(c, {"user"}) ELSE messages
           /\ \E fails \in {FALSE} \cup Misses(c) : Looks(c, "speaking", approvals, fails)
  <2>1. PICK fails \in BOOLEAN : Looks(c, "speaking", approvals, fails) BY <1>7 DEF Misses
  <2>2. "speaking" \in Speaking /\ approvals \in Seq(Requests) BY DEF Speaking, Typed
  <2>5. /\ Keeps(c, {"pc", "known", "missed"}) /\ Keeps(c, SpeechFields)
        /\ run'[c].pc = "speaking" /\ run'[c].output = run[c].output
        /\ run'[c].known \in {approvals, <<>>}
    BY <2>1, <2>2, Looking
  <2>7. Typed' /\ Touches(c) BY <1>5, <1>7, <2>5, StageStep DEF SpeakStart
  <2>9. StillOpen(c)'
    <3>1. Len(approvals) \in Nat BY LenProperties DEF Typed
    <3>2. approvals' = approvals BY DEF SpeakStart
    <3> QED BY <2>5, <3>1, <3>2, JustListed
  <2>10. DefersOutput(c) => Shows(c)' \cap Visible = {} /\ Unwritten(c)'
    <3> SUFFICES ASSUME DefersOutput(c) PROVE Shows(c)' \cap Visible = {} /\ Unwritten(c)'
      OBVIOUS
    <3>1. Shows(c) \cap Visible = {} /\ Unwritten(c) /\ config.memory BY <1>2, HeldBack
    <3>2. ToSet(evs) = {} BY <1>1, ShortStreams
    <3>3. Shows(c)' \subseteq Shows(c) BY <1>5, <3>2 DEF Hears, Shows
    <3> QED BY <1>7, <3>1, <3>3 DEF Unwritten
  <2>11. messages \subseteq messages' BY <1>7 DEF Saved
  <2>12. CallSound(c)'
    BY <1>1, <1>2, <1>5, <2>5, <2>7, <2>9, <2>10, <2>11, SpeakOn DEF SpeakStart, Speaking
  <2> QED BY <2>7, <2>12 DEF Keeping
<1> QED BY <1>3, <1>6, <1>7

\* A token reaches the sink.
LEMMA SpeakDeltaKeeps ==
  ASSUME Typed, NEW c \in Calls, CallSound(c), SpeakDelta(c)
  PROVE  Keeping(c)
<1> DEFINE evs == <<"stream_delta">>
<1>1. /\ evs \in Seq(EventTypes) /\ Closed(evs) /\ "stream_end" \notin ToSet(evs)
      /\ Len(evs) = 1 /\ 1 .. 1 = {1}
  BY ShortStreams DEF EventTypes
<1>2. PICK taken \in SUBSET {1} : SendsAny(c, evs, taken) BY DEF SpeakDelta
<1> HIDE DEF evs
<1>3. Hears(c, evs) BY <1>1, <1>2, SentAny
<1>4. StageOf(c) \in Emotion /\ run[c].pc = "speaking" /\ ~DefersOutput(c)
  BY SpeakingPlace DEF SpeakDelta, Speaking, Streams
<1>5. run' = [run EXCEPT ![c].streamed = TRUE] BY DEF SpeakDelta
<1>6. run[c] \in RunState BY DEF Typed
<1>7. run'[c] = [run[c] EXCEPT !.streamed = TRUE] BY <1>5 DEF Typed
<1>8. run'[c] \in RunState BY <1>6, <1>7 DEF RunState
<1>9. run' \in [Calls -> RunState] /\ \A d \in Calls \ {c} : run'[d] = run[d]
  BY <1>5, <1>8 DEF Typed
<1>10. /\ \A f \in Fields \ {"streamed"} : run'[c][f] = run[c][f]
       /\ run'[c].pc = run[c].pc /\ run'[c].known = run[c].known /\ run'[c].output = run[c].output
  BY <1>6, <1>7 DEF RunState, Fields
<1>11. Keeps(c, {"streamed"}) BY <1>9, <1>10 DEF Keeps
<1>12. Typed' /\ Touches(c) BY <1>3, <1>11, StageStep DEF SpeakDelta
<1>13. Keeps(c, SpeechFields) BY <1>11 DEF Keeps, SpeechFields
<1>14. StillOpen(c)' BY <1>10, <1>12, Listed
<1>15. CallSound(c)'
  BY <1>1, <1>3, <1>4, <1>10, <1>12, <1>13, <1>14, SpeakOn DEF SpeakDelta, Speaking
<1> QED BY <1>12, <1>15 DEF Keeping

\* A listing reported as events.
LEMMA Reporting ==
  ASSUME NEW requests \in Seq(Requests)
  PROVE  /\ EventsFor(requests) \in Seq(EventTypes) /\ Len(EventsFor(requests)) = Len(requests)
         /\ \A i \in 1 .. Len(requests) : EventsFor(requests)[i] = EventFor(requests[i])
         /\ ToSet(EventsFor(requests)) \subseteq {"approval_required", "approval_updated"}
         /\ Closed(EventsFor(requests))
<1> DEFINE evs == EventsFor(requests)
<1>1. Len(requests) \in Nat BY LenProperties
<1>2. \A i \in 1 .. Len(requests) : EventFor(requests[i]) \in {"approval_required", "approval_updated"}
  BY DEF EventFor
<1>3. /\ evs \in [1 .. Len(requests) -> EventTypes]
      /\ \A i \in 1 .. Len(requests) : evs[i] = EventFor(requests[i])
  BY <1>2 DEF EventsFor, EventTypes
<1> HIDE DEF evs
<1>4. evs \in Seq(EventTypes) /\ Len(evs) = Len(requests) BY <1>1, <1>3, FunctionIsSeq
<1>5. ToSet(evs) \subseteq {"approval_required", "approval_updated"}
  BY <1>2, <1>3, <1>4, Members
<1>6. Closed(evs) BY <1>2, <1>3, <1>4 DEF Closed
<1> QED BY <1>3, <1>4, <1>5, <1>6 DEF evs

\* A tool round adds at most one request.
LEMMA Growing ==
  ASSUME Typed, NEW raised \in Raised
  PROVE  /\ approvals \o raised \in Seq(Requests)
         /\ Len(approvals) \in Nat /\ Len(approvals \o raised) \in Nat
         /\ Len(approvals) <= Len(approvals \o raised) /\ Len(approvals \o raised) <= MaxApprovals
         /\ \A i \in 1 .. Len(approvals) : (approvals \o raised)[i] = approvals[i]
         /\ raised # <<>> => approvals \o raised # <<>>
<1> DEFINE now == approvals \o raised
<1>1. approvals \in Seq(Requests) /\ Len(approvals) \in Nat /\ Len(approvals) <= MaxApprovals
  BY LenProperties DEF Typed
<1>2. MaxApprovals \in Nat BY BoundAssumption
<1>3. raised = <<>> \/ (raised = <<"pending">> /\ Len(approvals) < MaxApprovals) BY DEF Raised
<1>4. <<>> \in Seq(Requests) /\ Len(<<>>) = 0 BY EmptySeq
<1>5. <<"pending">> \in Seq(Requests) /\ Len(<<"pending">>) = 1 BY DEF Requests
<1>6. /\ raised \in Seq(Requests)
      /\ \/ raised = <<>> /\ Len(raised) = 0
         \/ Len(raised) = 1 /\ Len(approvals) < MaxApprovals
  <2>1. CASE raised = <<>> BY <1>4, <2>1
  <2>2. CASE raised = <<"pending">> /\ Len(approvals) < MaxApprovals BY <1>5, <2>2
  <2> QED BY <1>3, <2>1, <2>2
<1>7. /\ now \in Seq(Requests) /\ Len(now) = Len(approvals) + Len(raised)
      /\ \A i \in 1 .. Len(approvals) : now[i] = approvals[i]
  BY <1>1, <1>6, ConcatProperties
<1> HIDE DEF now
<1>8. Len(now) \in Nat /\ Len(approvals) <= Len(now) /\ Len(now) <= MaxApprovals
  <2>1. CASE Len(raised) = 0 BY <1>1, <1>7, <2>1
  <2>2. CASE Len(raised) = 1 /\ Len(approvals) < MaxApprovals BY <1>1, <1>2, <1>7, <2>2
  <2> QED BY <1>6, <2>1, <2>2
<1>9. raised # <<>> => now # <<>>
  <2>1. Len(raised) = 1 => Len(now) # 0 BY <1>1, <1>7
  <2> QED BY <1>4, <1>6, <2>1
<1> QED BY <1>1, <1>7, <1>8, <1>9 DEF now

\* A tool round changes the call, its streams and the requests.
LEMMA ToolStep ==
  ASSUME Typed, NEW c \in Calls, NEW raised \in Raised, approvals' = approvals \o raised,
         NEW evs, Hears(c, evs), NEW changed, Keeps(c, changed),
         UNCHANGED <<config, kind, idem, turns, messages, crashes, faults>>
  PROVE  Typed' /\ Touches(c)
<1> DEFINE now == approvals \o raised
<1>1. /\ now \in Seq(Requests) /\ Len(now) \in Nat /\ Len(approvals) \in Nat
      /\ Len(approvals) <= Len(now) /\ Len(now) <= MaxApprovals
      /\ \A i \in 1 .. Len(approvals) : now[i] = approvals[i]
  BY Growing
<1>2. approvals' = now OBVIOUS
<1> HIDE DEF now
<1>3. Typed' BY <1>1, <1>2 DEF Typed, Hears, Keeps
<1>4. Touches(c)
  <2>1. \A d \in Calls : Unwritten(d)' <=> Unwritten(d) BY DEF Unwritten
  <2>2. faults <= faults' BY DEF Typed
  <2>3. \A d \in Calls \ {c} : seen'[d] = seen[d] /\ outbound'[d] = outbound[d] /\ run'[d] = run[d]
    BY DEF Hears, Keeps
  <2>4. ToSet(outbound[c]) \subseteq ToSet(outbound'[c]) BY DEF Hears
  <2> QED BY <1>1, <1>2, <2>1, <2>2, <2>3, <2>4 DEF Touches
<1> QED BY <1>3, <1>4

\* A tool round adds at most a request and reports what has changed.
LEMMA SpeakToolRoundKeeps ==
  ASSUME Typed, NEW c \in Calls, CallSound(c), SpeakToolRound(c)
  PROVE  Keeping(c)
<1>1. PICK raised \in Raised :
        LET now == approvals \o raised
            changed == {i \in 1 .. Len(now) : i > Len(run[c].known) \/ run[c].known[i] # now[i]}
            events == Selected(EventsFor(now), changed)
        IN
        /\ changed # {}
        /\ approvals' = now
        /\ \E taken \in SUBSET (1 .. Len(events)) :
             /\ SendsAny(c, events, taken)
             /\ IF "approval_required" \in ToSet(events)
                  THEN run' = [run EXCEPT ![c].pc = "interrupted", ![c].known = now,
                                 ![c].unreported = \E i \in (1 .. Len(events)) \ taken :
                                                     events[i] = "approval_required"]
                  ELSE run' = [run EXCEPT ![c].known = now]
  BY DEF SpeakToolRound
<1> DEFINE now == approvals \o raised
           changed == {i \in 1 .. Len(now) : i > Len(run[c].known) \/ run[c].known[i] # now[i]}
           events == Selected(EventsFor(now), changed)
<1>2. PICK taken \in SUBSET (1 .. Len(events)) :
        /\ SendsAny(c, events, taken)
        /\ IF "approval_required" \in ToSet(events)
             THEN run' = [run EXCEPT ![c].pc = "interrupted", ![c].known = now,
                            ![c].unreported = \E i \in (1 .. Len(events)) \ taken :
                                                events[i] = "approval_required"]
             ELSE run' = [run EXCEPT ![c].known = now]
  BY <1>1
<1>26. approvals' = now BY <1>1
<1>3. /\ now \in Seq(Requests) /\ Len(now) \in Nat BY Growing
<1>4. changed \in SUBSET (1 .. Len(now)) OBVIOUS
<1> HIDE DEF now, changed
<1>5. /\ events \in Seq(EventTypes) /\ Closed(events)
      /\ ToSet(events) \subseteq {"approval_required", "approval_updated"}
      /\ ToSet(events) \subseteq ToSet(EventsFor(now))
  BY <1>3, <1>4, Reporting, Selecting
<1> HIDE DEF events
<1>6. Hears(c, events) /\ \A i \in taken : events[i] \in ToSet(seen'[c]) BY <1>2, <1>5, SentAny
<1>7. run[c] \in RunState BY DEF Typed
<1> DEFINE missing == \E i \in (1 .. Len(events)) \ taken : events[i] = "approval_required"
<1>27. missing \in BOOLEAN OBVIOUS
<1>28. "approval_required" \in ToSet(events) /\ ~missing => "approval_required" \in ToSet(seen'[c])
  <2> SUFFICES ASSUME "approval_required" \in ToSet(events), ~missing
               PROVE  "approval_required" \in ToSet(seen'[c])
    OBVIOUS
  <2>1. PICK i \in 1 .. Len(events) : events[i] = "approval_required" BY <1>5, Members
  <2>2. i \in taken BY <2>1
  <2> QED BY <1>6, <2>1, <2>2
<1>29. \/ /\ "approval_required" \in ToSet(events)
          /\ run' = [run EXCEPT ![c].pc = "interrupted", ![c].known = now, ![c].unreported = missing]
       \/ /\ "approval_required" \notin ToSet(events)
          /\ run' = [run EXCEPT ![c].known = now]
  BY <1>2
<1> HIDE DEF missing
<1>8. \/ /\ "approval_required" \in ToSet(events)
         /\ run'[c] = [run[c] EXCEPT !.pc = "interrupted", !.known = now, !.unreported = missing]
      \/ /\ "approval_required" \notin ToSet(events)
         /\ run'[c] = [run[c] EXCEPT !.known = now]
  BY <1>29 DEF Typed
<1>9. run'[c] \in RunState
  <2>1. CASE run'[c] = [run[c] EXCEPT !.pc = "interrupted", !.known = now, !.unreported = missing]
    BY <1>3, <1>7, <1>27, <2>1 DEF RunState, Staged, Speaking
  <2>2. CASE run'[c] = [run[c] EXCEPT !.known = now] BY <1>3, <1>7, <2>2 DEF RunState
  <2> QED BY <1>8, <2>1, <2>2
<1>10. run' \in [Calls -> RunState] /\ \A d \in Calls \ {c} : run'[d] = run[d]
  BY <1>9, <1>29 DEF Typed
<1>11. \A f \in Fields \ {"pc", "known", "unreported"} : run'[c][f] = run[c][f]
  BY <1>7, <1>8 DEF RunState, Fields
<1>12. /\ run'[c].known = now /\ run'[c].output = run[c].output
       /\ run'[c].pc = IF "approval_required" \in ToSet(events) THEN "interrupted" ELSE run[c].pc
       /\ "approval_required" \in ToSet(events) => run'[c].unreported = missing
  BY <1>7, <1>8 DEF RunState
<1>13. Keeps(c, SpeechFields) BY <1>10, <1>11 DEF Keeps, SpeechFields
<1>14. /\ config' = config /\ kind' = kind /\ idem' = idem /\ turns' = turns
       /\ messages' = messages /\ crashes' = crashes /\ faults' = faults
       /\ run[c].pc = "speaking"
  BY DEF SpeakToolRound
<1>15. Typed' /\ Touches(c) BY <1>6, <1>13, <1>14, <1>26, ToolStep DEF now
<1>17. StageOf(c) \in Emotion BY <1>14, SpeakingPlace DEF Speaking
<1>18. StillOpen(c)' BY <1>3, <1>12, <1>26, JustListed
<1>19. "approval_required" \in ToSet(events) => approvals' # <<>>
  <2>1. ASSUME now = <<>> PROVE ToSet(EventsFor(now)) = {}
    <3>1. Len(now) = 0 BY <2>1
    <3>2. EventsFor(now) \in Seq(EventTypes) /\ Len(EventsFor(now)) = 0 BY <1>3, <3>1, Reporting
    <3>3. \A i \in 1 .. 0 : FALSE OBVIOUS
    <3>4. \A e : e \notin ToSet(EventsFor(now)) BY <3>2, <3>3, Members
    <3> QED BY <3>4
  <2> QED BY <1>5, <1>26, <2>1
<1>20. run'[c].pc = "speaking" /\ DefersOutput(c) => Shows(c)' \cap Visible = {} /\ Unwritten(c)'
  <2> SUFFICES ASSUME run'[c].pc = "speaking", DefersOutput(c)
               PROVE  Shows(c)' \cap Visible = {} /\ Unwritten(c)'
    OBVIOUS
  <2>1. Shows(c) \cap Visible = {} /\ Unwritten(c) BY <1>14, <1>17, HeldBack
  <2>2. ToSet(events) \subseteq {"approval_updated"} BY <1>5, <1>12
  <2>3. Shows(c)' \subseteq Shows(c) \cup {"approval_updated"} BY <1>6, <2>2 DEF Hears, Shows
  <2> QED BY <1>14, <2>1, <2>3 DEF Unwritten, Visible
<1>22. run'[c].pc \in {"speaking", "interrupted"} BY <1>12, <1>14
<1>23. "stream_end" \notin ToSet(events) BY <1>5
<1>24. run'[c].pc = "interrupted" => approvals' # <<>> /\ Told(c)'
  BY <1>12, <1>14, <1>19, <1>28 DEF Told
<1>25. CallSound(c)'
  BY <1>5, <1>6, <1>12, <1>13, <1>14, <1>15, <1>17, <1>18, <1>20, <1>22, <1>23, <1>24,
     SpeakOn DEF Speaking
<1> QED BY <1>15, <1>25 DEF Keeping

\* A tool round whose listing fails reports nothing.
LEMMA SpeakToolBlindKeeps ==
  ASSUME Typed, NEW c \in Calls, CallSound(c), SpeakToolBlind(c)
  PROVE  Keeping(c)
<1>1. PICK raised \in Raised :
        /\ approvals' = approvals \o raised
        /\ \/ Looks(c, "speaking", approvals, TRUE)
           \/ /\ raised # <<>>
              /\ run' = [run EXCEPT ![c].pc = "interrupted", ![c].known = <<>>,
                                    ![c].missed = @ + 1, ![c].unreported = TRUE]
  BY DEF SpeakToolBlind
<1>2. /\ config' = config /\ kind' = kind /\ idem' = idem /\ turns' = turns
      /\ messages' = messages /\ crashes' = crashes /\ faults' = faults
      /\ seen' = seen /\ outbound' = outbound /\ run[c].pc = "speaking"
  BY DEF SpeakToolBlind
<1>3. Hears(c, <<>>) BY <1>2, Unheard
<1>4. StageOf(c) \in Emotion BY <1>2, SpeakingPlace DEF Speaking
<1>5. /\ Keeps(c, SpeechFields) /\ run'[c].known = <<>> /\ run'[c].output = run[c].output
      /\ \/ run'[c].pc = "speaking"
         \/ run'[c].pc = "interrupted" /\ raised # <<>> /\ run'[c].unreported
  <2>1. CASE Looks(c, "speaking", approvals, TRUE)
    <3>1. "speaking" \in Speaking /\ approvals \in Seq(Requests) BY DEF Speaking, Typed
    <3> QED BY <2>1, <3>1, Looking
  <2>2. CASE /\ raised # <<>>
             /\ run' = [run EXCEPT ![c].pc = "interrupted", ![c].known = <<>>,
                                   ![c].missed = @ + 1, ![c].unreported = TRUE]
    <3> DEFINE more == run[c].missed + 1
    <3>1. run[c] \in RunState BY DEF Typed
    <3>2. run'[c] = [run[c] EXCEPT !.pc = "interrupted", !.known = <<>>, !.missed = more,
                                   !.unreported = TRUE]
      BY <2>2 DEF Typed
    <3>3. more \in Nat
      <4>1. run[c].missed \in Nat BY <3>1 DEF RunState
      <4> QED BY <4>1
    <3>4. <<>> \in Seq(Requests) BY EmptySeq
    <3> HIDE DEF more
    <3>5. run'[c] \in RunState BY <3>1, <3>2, <3>3, <3>4 DEF RunState, Staged, Speaking
    <3>6. run' \in [Calls -> RunState] /\ \A d \in Calls \ {c} : run'[d] = run[d]
      BY <2>2, <3>5 DEF Typed
    <3>7. /\ \A f \in Fields \ {"pc", "known", "missed", "unreported"} : run'[c][f] = run[c][f]
          /\ run'[c].pc = "interrupted" /\ run'[c].known = <<>> /\ run'[c].unreported
          /\ run'[c].output = run[c].output
      BY <3>1, <3>2 DEF RunState, Fields
    <3> QED BY <2>2, <3>6, <3>7 DEF Keeps, SpeechFields
  <2> QED BY <1>1, <2>1, <2>2
<1>6. Typed' /\ Touches(c) BY <1>1, <1>2, <1>3, <1>5, ToolStep
<1>7. StillOpen(c)' BY <1>5, <1>6, JustListed, LenProperties DEF Typed
<1>8. run'[c].pc = "interrupted" => approvals' # <<>> /\ Told(c)' BY <1>1, <1>5, Growing DEF Told
<1>9. run'[c].pc = "speaking" /\ DefersOutput(c) => Shows(c)' \cap Visible = {} /\ Unwritten(c)'
  <2>1. Shows(c)' = Shows(c) /\ (Unwritten(c)' <=> Unwritten(c)) BY <1>2 DEF Shows, Unwritten
  <2> QED BY <1>2, <1>4, <2>1, HeldBack
<1>10. CallSound(c)'
  BY <1>2, <1>3, <1>4, <1>5, <1>6, <1>7, <1>8, <1>9, SpeakOn, ShortStreams DEF Speaking
<1> QED BY <1>6, <1>10 DEF Keeping

\* The turn gives way to the request.
LEMMA SpeakWaitKeeps ==
  ASSUME Typed, NEW c \in Calls, CallSound(c), SpeakWait(c)
  PROVE  Keeping(c)
<1> DEFINE evs == IF DefersOutput(c) THEN <<"stream_start">> ELSE <<>>
           r == Result("approval_wait", FALSE, "approval_wait", <<"stream_end">>, FALSE)
<1>1. evs \in Seq(EventTypes) /\ Closed(evs) /\ "stream_end" \notin ToSet(evs) BY Opening
<1>2. <<"stream_end">> \in Seq(EventTypes) /\ Closed(<<"stream_end">>)
  BY ShortStreams DEF EventTypes
<1>3. r \in Results /\ Closed(r.out) /\ r.next = "approval_wait" /\ ~r.err /\ ~r.terminal
  BY <1>2, ResultTypes DEF Result, States, Final
<1>4. PICK n \in 0 .. Len(evs) :
        Sends(c, evs, n) /\ Returns(c, IF n < Len(evs) THEN Failed ELSE r)
  BY DEF SpeakWait
<1> HIDE DEF evs, r
<1>5. Hears(c, evs) BY <1>1, <1>4, Sent
<1>6. StageOf(c) \in Emotion /\ run[c].pc = "interrupted"
  BY SpeakingPlace DEF SpeakWait, Speaking
<1>7. run[c].pc \in {"stage"} \cup Speaking BY <1>6 DEF Speaking
<1>8. CASE Returns(c, Failed) BY <1>1, <1>5, <1>6, <1>7, <1>8, EmotionFails DEF SpeakWait
<1>9. CASE Returns(c, r)
  <2>1. Keeps(c, {"pc", "res"}) /\ run'[c].pc = "emit" /\ run'[c].res = r BY <1>3, <1>9, Returning
  <2>2. Typed' /\ Touches(c) BY <1>5, <2>1, StageStep DEF SpeakWait
  <2>3. Keeps(c, {"pc", "res", "silenced", "deferEnd"}) BY <2>1 DEF Keeps
  <2>4. run'[c].deferEnd = run[c].deferEnd /\ run'[c].silenced = run[c].silenced
    BY <2>1 DEF Keeps, Fields
  <2>5. run[c].output = "none" /\ ~run[c].deferEnd /\ ~run[c].silenced
    BY <1>6, <1>7, NoText, NotSilenced
  <2>6. approvals # <<>> /\ Told(c) BY <1>6 DEF CallSound, Waits, Asking
  <2>7. CallSound(c)'
    BY <1>1, <1>3, <1>5, <1>6, <1>7, <2>1, <2>2, <2>3, <2>4, <2>5, <2>6, EmotionReturn
       DEF SpeakWait, Final
  <2> QED BY <2>2, <2>7 DEF Keeping
<1> QED BY <1>4, <1>8, <1>9

\* A turn that resumes is an approval action.
LEMMA Resumed ==
  ASSUME Typed, NEW c \in Calls, CallSound(c), run[c].pc \in Staged, Resuming(c)
  PROVE  KindOf(c) = "approval_action"
<1>1. run[c].at \in 1 .. Len(Stages(KeyOf[c])) BY DEF CallSound, Placed
<1>2. Stages(KeyOf[c])[run[c].at] = "resume" BY DEF Resuming, StageOf
<1> QED BY <1>1, <1>2, StageLists, KeyAssumption DEF KindOf

\* The engine's reply, its silence, or a stream that cannot open.
LEMMA SpeakReplyKeeps ==
  ASSUME Typed, NEW c \in Calls, CallSound(c), NEW reply \in {"text", "none"},
         SpeakReply(c, reply)
  PROVE  Keeping(c)
<1> DEFINE silenced == DefersOutput(c) /\ reply = "none"
           evs == IF DefersOutput(c) /\ ~silenced THEN <<"stream_start">> ELSE <<>>
           r == Result("done", TRUE, "done", <<>>, FALSE)
<1>1. /\ evs \in Seq(EventTypes) /\ Closed(evs) /\ "stream_end" \notin ToSet(evs)
      /\ silenced => evs = <<>>
  BY Opening
<1>2. /\ r \in Results /\ r.out = <<>> /\ Closed(r.out) /\ r.next = "done" /\ ~r.err
      /\ r.terminal /\ r.status = "done"
  BY ResultTypes, ShortStreams DEF Result, States, Final
<1>3. PICK n \in 0 .. 1 :
        /\ n <= Len(evs)
        /\ Sends(c, evs, n)
        /\ run' = IF silenced
                    THEN [run EXCEPT ![c].pc = "emit", ![c].silenced = TRUE, ![c].res = r]
                    ELSE IF n < Len(evs) THEN [run EXCEPT ![c].pc = "emit", ![c].res = Failed]
                    ELSE [run EXCEPT ![c].pc = "spoken", ![c].output = reply]
  BY DEF SpeakReply
<1>4. IF EngineCommits(c) THEN messages' = Saved(c, {"assistant"}) ELSE messages' = messages
  BY DEF SpeakReply
<1>5. messages' = messages
        \/ \E roles \in SUBSET {"user", "assistant"} : messages' = Saved(c, roles)
  BY <1>4
<1> HIDE DEF evs, r
<1>6. n \in 0 .. Len(evs) BY <1>1, <1>3, LenProperties
<1>7. Hears(c, evs) BY <1>1, <1>3, <1>6, Sent
<1>8. StageOf(c) \in Emotion /\ run[c].pc = "speaking" BY SpeakingPlace DEF SpeakReply, Speaking
<1>9. run[c].pc \in {"stage"} \cup Speaking /\ ~run[c].silenced BY <1>8, NotSilenced DEF Speaking
<1>10. run[c].output = "none" /\ ~run[c].deferEnd BY <1>8, NoText
<1>11. run[c] \in RunState BY DEF Typed
<1>12. messages \subseteq messages' BY <1>4 DEF Saved
<1>13. CASE silenced
  <2>1. run'[c] = [run[c] EXCEPT !.pc = "emit", !.silenced = TRUE, !.res = r]
    BY <1>3, <1>13 DEF Typed
  <2>20. r \in Results /\ "emit" \in Staged BY <1>2 DEF Staged
  <2>2. run'[c] \in RunState BY <1>11, <2>1, <2>20 DEF RunState
  <2>3. run' \in [Calls -> RunState] /\ \A d \in Calls \ {c} : run'[d] = run[d]
    BY <1>3, <1>13, <2>2 DEF Typed
  <2>4. /\ \A f \in Fields \ {"pc", "res", "silenced"} : run'[c][f] = run[c][f]
        /\ run'[c].pc = "emit" /\ run'[c].res = r /\ run'[c].deferEnd = run[c].deferEnd
    BY <1>11, <2>1 DEF RunState, Fields
  <2>5. Keeps(c, {"pc", "res", "silenced"}) /\ Keeps(c, {"pc", "res", "silenced", "deferEnd"})
    BY <2>3, <2>4 DEF Keeps
  <2>6. Typed' /\ Touches(c) BY <1>5, <1>7, <2>5, StageStep DEF SpeakReply
  <2>7. Shows(c) \cap Visible = {} /\ Unwritten(c) /\ config.memory BY <1>8, <1>13, HeldBack
  <2>8. ToSet(evs) = {} BY <1>1, <1>13, ShortStreams
  <2>9. Shows(c)' \subseteq Shows(c) BY <1>7, <2>8 DEF Hears, Shows
  <2>10. KindOf(c) = "proactive_prompt" BY <1>13 DEF DefersOutput
  <2>11. ~EngineCommits(c) BY <1>8, <2>7, <2>10, Resumed DEF EngineCommits, Staged, Speaking
  <2>12. Shows(c)' \cap Visible = {} /\ Unwritten(c)' BY <1>4, <2>7, <2>9, <2>11 DEF Unwritten
  <2>13. CallSound(c)'
    BY <1>1, <1>2, <1>7, <1>8, <1>9, <1>10, <1>12, <2>4, <2>5, <2>6, <2>12, EmotionReturn
       DEF SpeakReply, Final
  <2> QED BY <2>6, <2>13 DEF Keeping
<1>14. CASE ~silenced /\ n < Len(evs)
  <2>1. Returns(c, Failed) BY <1>3, <1>14 DEF Returns
  <2> QED BY <1>1, <1>5, <1>7, <1>8, <1>9, <2>1, EmotionFails DEF SpeakReply
<1>15. CASE ~silenced /\ ~(n < Len(evs))
  <2>1. run'[c] = [run[c] EXCEPT !.pc = "spoken", !.output = reply]
    BY <1>3, <1>15 DEF Typed
  <2>2. run'[c] \in RunState BY <1>11, <2>1 DEF RunState, Staged, Speaking
  <2>3. run' \in [Calls -> RunState] /\ \A d \in Calls \ {c} : run'[d] = run[d]
    BY <1>3, <1>15, <2>2 DEF Typed
  <2>4. /\ \A f \in Fields \ {"pc", "output"} : run'[c][f] = run[c][f]
        /\ run'[c].pc = "spoken" /\ run'[c].known = run[c].known
    BY <1>11, <2>1 DEF RunState, Fields
  <2>5. Keeps(c, {"pc", "output"}) /\ Keeps(c, SpeechFields)
    BY <2>3, <2>4 DEF Keeps, SpeechFields
  <2>6. Typed' /\ Touches(c) BY <1>5, <1>7, <2>5, StageStep DEF SpeakReply
  <2>7. StillOpen(c)' BY <2>4, <2>6, Listed
  <2>8. [turn |-> c, role |-> "assistant"] \notin messages' => ~Resuming(c)
    BY <1>4 DEF EngineCommits, Saved
  <2>9. CallSound(c)'
    BY <1>1, <1>7, <1>8, <1>9, <1>12, <2>4, <2>5, <2>6, <2>7, <2>8, SpeakOn
       DEF SpeakReply, Speaking
  <2> QED BY <2>6, <2>9 DEF Keeping
<1> QED BY <1>13, <1>14, <1>15

\* A segment of the reply is delivered, or not.
LEMMA SpeakSegmentKeeps ==
  ASSUME Typed, NEW c \in Calls, CallSound(c), SpeakSegment(c)
  PROVE  Keeping(c)
<1> DEFINE evs == <<"assistant_segment">>
<1>1. evs \in Seq(EventTypes) /\ Closed(evs) /\ "stream_end" \notin ToSet(evs) /\ Len(evs) = 1
  BY ShortStreams DEF EventTypes
<1>2. PICK n \in 0 .. 1 :
        /\ Sends(c, evs, n)
        /\ IF n = 0 THEN Returns(c, Failed) ELSE run' = [run EXCEPT ![c].segs = @ + 1]
  BY DEF SpeakSegment
<1> HIDE DEF evs
<1>3. Hears(c, evs) BY <1>1, <1>2, Sent
<1>4. StageOf(c) \in Emotion /\ run[c].pc = "spoken" /\ run[c].pc \in {"stage"} \cup Speaking
  BY SpeakingPlace DEF SpeakSegment, Speaking
<1>5. CASE Returns(c, Failed) BY <1>1, <1>3, <1>4, <1>5, EmotionFails DEF SpeakSegment
<1>6. CASE run' = [run EXCEPT ![c].segs = @ + 1]
  <2> DEFINE more == run[c].segs + 1
  <2>1. run[c] \in RunState BY DEF Typed
  <2>2. run'[c] = [run[c] EXCEPT !.segs = more] BY <1>6 DEF Typed
  <2>0. more \in Nat
    <3>1. run[c].segs \in Nat BY <2>1 DEF RunState
    <3> QED BY <3>1
  <2> HIDE DEF more
  <2>3. run'[c] \in RunState BY <2>0, <2>1, <2>2 DEF RunState
  <2>4. run' \in [Calls -> RunState] /\ \A d \in Calls \ {c} : run'[d] = run[d]
    BY <1>6, <2>3 DEF Typed
  <2>5. /\ \A f \in Fields \ {"segs"} : run'[c][f] = run[c][f]
        /\ run'[c].pc = "spoken" /\ run'[c].known = run[c].known /\ run'[c].output = run[c].output
    BY <1>4, <2>1, <2>2 DEF RunState, Fields
  <2>6. Keeps(c, {"segs"}) /\ Keeps(c, SpeechFields)
    BY <2>4, <2>5 DEF Keeps, SpeechFields
  <2>7. Typed' /\ Touches(c) BY <1>3, <2>6, StageStep DEF SpeakSegment
  <2>8. StillOpen(c)' BY <2>5, <2>7, Listed
  <2>9. config.memory /\ run'[c].output = "text"
          /\ [turn |-> c, role |-> "assistant"] \notin messages' => ~Resuming(c)
    BY <1>4, <2>5 DEF CallSound, Withheld, SpeakSegment
  <2>10. messages' = messages /\ idem' = idem BY DEF SpeakSegment
  <2>11. CallSound(c)'
    BY <1>1, <1>3, <1>4, <2>5, <2>6, <2>7, <2>8, <2>9, <2>10, SpeakOn DEF Speaking
  <2> QED BY <2>7, <2>11 DEF Keeping
<1> QED BY <1>2, <1>5, <1>6

\* Emotion's stage ends; with the memory stages the end of the stream waits.
LEMMA SpeakEndKeeps ==
  ASSUME Typed, NEW c \in Calls, CallSound(c), SpeakEnd(c)
  PROVE  Keeping(c)
<1>1. PICK text \in {<<>>, <<"stream_delta">>} :
        run' = [run EXCEPT ![c].pc = "emit", ![c].deferEnd = HoldsEnd(c),
                           ![c].res = Result("done", FALSE, "done", text \o EndNow(c), FALSE)]
  BY DEF SpeakEnd
<1> DEFINE out == text \o EndNow(c)
           r == Result("done", FALSE, "done", out, FALSE)
<1>2. /\ text \in Seq(EventTypes) /\ Closed(text) /\ "stream_end" \notin ToSet(text)
  <2>1. <<"stream_delta">> \in Seq(EventTypes) /\ Closed(<<"stream_delta">>)
          /\ ToSet(<<"stream_delta">>) = {"stream_delta"}
    BY ShortStreams DEF EventTypes
  <2>2. CASE text = <<>> BY <2>2, ShortStreams
  <2>3. CASE text = <<"stream_delta">> BY <2>1, <2>3
  <2> QED BY <2>2, <2>3
<1>3. /\ EndNow(c) \in Seq(EventTypes) /\ Closed(EndNow(c))
      /\ HoldsEnd(c) => ToSet(EndNow(c)) = {}
  <2>1. <<"stream_end">> \in Seq(EventTypes) /\ Closed(<<"stream_end">>)
    BY ShortStreams DEF EventTypes
  <2>2. CASE HoldsEnd(c) BY <2>2, ShortStreams DEF EndNow
  <2>3. CASE ~HoldsEnd(c) BY <2>1, <2>3 DEF EndNow
  <2> QED BY <2>2, <2>3
<1>4. out \in Seq(EventTypes) /\ Closed(out) /\ (HoldsEnd(c) => "stream_end" \notin ToSet(out))
  <2>1. /\ out \in Seq(EventTypes) /\ ToSet(out) = ToSet(text) \cup ToSet(EndNow(c))
        /\ Closed(text) /\ Closed(EndNow(c))
             /\ ("stream_end" \notin ToSet(text) \/ NoWords(EndNow(c))) => Closed(out)
    BY <1>2, <1>3, Appended
  <2> QED BY <1>2, <1>3, <2>1
<1> HIDE DEF out
<1>5. /\ r \in Results /\ r.out = out /\ r.next = "done" /\ ~r.err /\ ~r.terminal
  BY <1>4, ResultTypes DEF Result, States, Final
<1>6. run' = [run EXCEPT ![c].pc = "emit", ![c].deferEnd = HoldsEnd(c), ![c].res = r]
  BY <1>1 DEF out
<1> HIDE DEF r
<1>7. HoldsEnd(c) \in BOOLEAN BY DEF HoldsEnd, Typed
<1>8. run[c] \in RunState BY DEF Typed
<1>9. run'[c] = [run[c] EXCEPT !.pc = "emit", !.deferEnd = HoldsEnd(c), !.res = r]
  BY <1>6 DEF Typed
<1>10. run'[c] \in RunState BY <1>5, <1>7, <1>8, <1>9 DEF RunState, Staged
<1>11. run' \in [Calls -> RunState] /\ \A d \in Calls \ {c} : run'[d] = run[d]
  BY <1>6, <1>10 DEF Typed
<1>12. /\ \A f \in Fields \ {"pc", "res", "deferEnd"} : run'[c][f] = run[c][f]
       /\ run'[c].pc = "emit" /\ run'[c].res = r /\ run'[c].deferEnd = HoldsEnd(c)
       /\ run'[c].silenced = run[c].silenced
  BY <1>8, <1>9 DEF RunState, Fields
<1>13. Keeps(c, {"pc", "res", "deferEnd"}) /\ Keeps(c, {"pc", "res", "silenced", "deferEnd"})
  BY <1>11, <1>12 DEF Keeps
<1>14. Hears(c, <<>>) BY Unheard DEF SpeakEnd
<1>15. Typed' /\ Touches(c) BY <1>13, <1>14, StageStep DEF SpeakEnd
<1>16. /\ StageOf(c) \in Emotion /\ run[c].pc = "spoken"
       /\ run[c].pc \in {"stage"} \cup Speaking /\ ~run[c].silenced
  BY SpeakingPlace, NotSilenced DEF SpeakEnd, Speaking
<1>17. config.memory /\ run[c].output = "text"
         /\ [turn |-> c, role |-> "assistant"] \notin messages' => "stream_end" \notin ToSet(r.out)
  <2>1. config.memory /\ run[c].output = "text"
          /\ [turn |-> c, role |-> "assistant"] \notin messages' => ~Resuming(c)
    BY <1>16 DEF CallSound, Withheld, SpeakEnd
  <2> QED BY <1>4, <1>5, <2>1 DEF HoldsEnd
<1>18. messages' = messages /\ idem' = idem BY DEF SpeakEnd
<1>19. CallSound(c)'
  BY <1>4, <1>5, <1>12, <1>13, <1>14, <1>15, <1>16, <1>17, <1>18, EmotionReturn, ShortStreams
     DEF Final
<1> QED BY <1>15, <1>19 DEF Keeping

\* Late in the turn nothing is said: at most the end that was withheld.
LEMMA LateCall ==
  ASSUME NEW c \in Calls, CallSound(c), run[c].pc = "stage", StageOf(c) \in Late
  PROVE  /\ ~Before(c) /\ ~run[c].silenced /\ run[c].state \in Final
         /\ run[c].state = "approval_wait" => approvals # <<>> /\ Told(c)
         /\ Closed(seen[c]) /\ Closed(outbound[c])
<1>1. ~Before(c) BY DEF Before, Late, Early, Emotion
<1>2. ~run[c].silenced BY NotSilenced
<1>3. run[c].state \in Final BY DEF CallSound, Answers
<1>4. run[c].state = "approval_wait" => approvals # <<>> /\ Told(c) BY DEF CallSound, Waits, Asking
<1>5. Closed(seen[c]) /\ Closed(outbound[c]) BY DEF CallSound, Ordered
<1> QED BY <1>1, <1>2, <1>3, <1>4, <1>5

\* The reply is saved and its end released, or the commit fails and it is not.
LEMMA MemoryCommitKeeps ==
  ASSUME Typed, NEW c \in Calls, CallSound(c), MemoryCommit(c)
  PROVE  Keeping(c)
<1> DEFINE end == IF run[c].deferEnd THEN <<"stream_end">> ELSE <<>>
           committed == Result(run[c].state, FALSE, "", end, FALSE)
           failed == Result("commit_failed_after_output", TRUE, "commit_failed_after_output",
                            <<>>, TRUE)
<1>1. run[c].pc = "stage" /\ StageOf(c) = "memory_commit" BY DEF MemoryCommit, AtStage
<1>2. StageOf(c) \in Late BY <1>1 DEF Late
<1>3. /\ ~Before(c) /\ ~run[c].silenced /\ run[c].state \in Final
      /\ run[c].state = "approval_wait" => approvals # <<>> /\ Told(c)
      /\ Closed(seen[c]) /\ Closed(outbound[c])
  BY <1>1, <1>2, LateCall
<1>4. /\ end \in Seq(EventTypes) /\ Closed(end)
      /\ ToSet(end) \subseteq {"stream_end"} /\ (~run[c].deferEnd => ToSet(end) = {})
  BY ShortStreams DEF EventTypes
<1> HIDE DEF end
<1>5. run[c].state \in States BY DEF Typed, RunState
<1>6. /\ committed \in Results /\ committed.out = end /\ committed.next = run[c].state
      /\ ~committed.err /\ ~committed.terminal
  BY <1>4, <1>5, ResultTypes DEF Result
<1>7. /\ failed \in Results /\ failed.out = <<>> /\ failed.next = "commit_failed_after_output"
      /\ failed.status = "commit_failed_after_output" /\ failed.terminal
  BY ResultTypes, ShortStreams DEF Result, States, Final
<1>8. PICK r \in {committed, failed} :
        /\ Returns(c, r)
        /\ messages' = messages
             \/ \E roles \in SUBSET {"user", "assistant"} : messages' = Saved(c, roles)
        /\ r = committed =>
             run[c].output = "none" \/ [turn |-> c, role |-> "assistant"] \in messages'
  <2>1. [turn |-> c, role |-> "assistant"] \in Saved(c, {"assistant"}) BY DEF Saved
  <2>2. {} \in SUBSET {"user", "assistant"} /\ {"assistant"} \in SUBSET {"user", "assistant"}
    OBVIOUS
  <2>3. \/ run[c].output = "none" /\ Returns(c, committed) /\ messages' = messages
        \/ Returns(c, committed) /\ messages' = Saved(c, {"assistant"})
        \/ Returns(c, failed) /\ \E roles \in {{}, {"assistant"}} : messages' = Saved(c, roles)
    BY DEF MemoryCommit, end
  <2> HIDE DEF committed, failed
  <2>4. CASE run[c].output = "none" /\ Returns(c, committed) /\ messages' = messages
    BY <2>4
  <2>5. CASE Returns(c, committed) /\ messages' = Saved(c, {"assistant"}) BY <2>1, <2>2, <2>5
  <2>6. CASE Returns(c, failed) /\ \E roles \in {{}, {"assistant"}} : messages' = Saved(c, roles)
    <3>1. failed # committed BY <1>6, <1>7
    <3> QED BY <2>2, <2>6, <3>1
  <2> QED BY <2>3, <2>4, <2>5, <2>6
<1> HIDE DEF committed, failed
<1>9. r \in Results BY <1>6, <1>7, <1>8
<1>10. Keeps(c, {"pc", "res"}) /\ run'[c].pc = "emit" /\ run'[c].res = r BY <1>8, <1>9, Returning
<1>11. Hears(c, <<>>) BY Unheard DEF MemoryCommit
<1>12. Typed' /\ Touches(c) BY <1>8, <1>10, <1>11, StageStep DEF MemoryCommit
<1>13. /\ r.out \in Seq(EventTypes) /\ Closed(r.out)
       /\ ToSet(r.out) \cap (Content \cup {"stream_end"}) # {} => run[c].deferEnd
       /\ "stream_end" \in ToSet(r.out) =>
            run[c].output = "none" \/ [turn |-> c, role |-> "assistant"] \in messages'
       /\ r.next \in Final /\ (r.next = "approval_wait" => approvals # <<>> /\ Told(c))
       /\ r.err => r.out = <<>> /\ r.terminal
       /\ r.terminal => r.status = "commit_failed_after_output"
  <2>1. CASE r = committed BY <1>3, <1>4, <1>6, <1>8, <2>1 DEF Content
  <2>2. CASE r = failed BY <1>7, <2>2, ShortStreams DEF Final
  <2> QED BY <1>8, <2>1, <2>2
<1>14. /\ run'[c].at = run[c].at /\ run'[c].output = run[c].output /\ run'[c].known = run[c].known
       /\ run'[c].deferEnd = run[c].deferEnd /\ run'[c].silenced = run[c].silenced
  BY <1>10 DEF Keeps, Fields
<1>15. /\ StageOf(c)' = "memory_commit" /\ Stages(KeyOf[c])' = Stages(KeyOf[c])
       /\ KindOf(c)' = KindOf(c) /\ config' = config
  BY <1>1, <1>12, <1>14, SamePlace DEF Touches
<1>16. /\ seen' = seen /\ outbound' = outbound /\ idem' = idem
       /\ Shows(c)' = Shows(c) /\ messages \subseteq messages'
  BY <1>8 DEF MemoryCommit, Saved, Shows
<1>17. ~Before(c)' BY <1>10, <1>15 DEF Before, Early
<1>18. Placed(c)' BY <1>1, <1>10, <1>14, <1>15 DEF CallSound, Placed, Staged, Speaking
<1>19. Owned(c)' /\ Echoes(c)' BY <1>1, <1>10, <1>12, <1>16, Working DEF Live, Staged
<1>20. Answers(c)' BY <1>10, <1>13, <1>15 DEF Answers, Early, Ending, Final
<1>21. Unspoken(c)' BY <1>10, <1>17 DEF Unspoken
<1>22. Ordered(c)'
  <2>1. MayEnd(c)' => run[c].deferEnd
    BY <1>10, <1>13, <1>15, <1>17 DEF MayEnd, Speaking, Emotion
  <2>2. run[c].deferEnd => "stream_end" \notin Shows(c) BY <1>1 DEF CallSound, Ordered, MayEnd
  <2> QED BY <1>3, <1>10, <1>13, <1>15, <1>16, <2>1, <2>2 DEF Ordered, Emotion
<1>23. Withheld(c)'
  BY <1>10, <1>13, <1>14, <1>15, <1>16 DEF CallSound, Withheld
<1>24. Hidden(c)' BY <1>3, <1>10, <1>14 DEF Hidden
<1>25. Waits(c)'
  <2>1. StillOpen(c)' /\ (approvals # <<>> => approvals' # <<>>) BY <1>12, <1>14, Listed
  <2>2. Told(c) => Told(c)'
    <3>1. run'[c].unreported = run[c].unreported BY <1>10 DEF Keeps, Fields
    <3> QED BY <1>16, <3>1, StillTold
  <2> QED BY <1>10, <1>13, <1>15, <2>1, <2>2 DEF Waits, Asking, Ending
<1> QED BY <1>12, <1>18, <1>19, <1>20, <1>21, <1>22, <1>23, <1>24, <1>25 DEF Keeping, CallSound

\* Every request of the session is listed, or none.
LEMMA EmitApprovalsKeeps ==
  ASSUME Typed, NEW c \in Calls, CallSound(c), EmitApprovals(c)
  PROVE  Keeping(c)
<1> DEFINE s == run[c].state
           status == IF s = "approval_wait" THEN "approval_wait" ELSE "done"
<1>1. run[c].pc = "stage" /\ StageOf(c) = "approval_wait" BY DEF EmitApprovals, AtStage
<1>2. StageOf(c) \in Late BY <1>1 DEF Late
<1>3. /\ ~Before(c) /\ ~run[c].silenced /\ s \in Final
      /\ s = "approval_wait" => approvals # <<>> /\ Told(c)
      /\ Closed(seen[c]) /\ Closed(outbound[c])
  BY <1>1, <1>2, LateCall
<1>4. PICK listed \in BOOLEAN, err \in BOOLEAN :
        /\ listed => ~err
        /\ run' = [run EXCEPT ![c].pc = "emit", ![c].listed = listed,
                              ![c].known = IF listed THEN approvals ELSE @,
                              ![c].res = Result(s, TRUE, status,
                                                IF listed THEN EventsFor(approvals) ELSE <<>>, err)]
  BY DEF EmitApprovals, Listing
<1> DEFINE events == IF listed THEN EventsFor(approvals) ELSE <<>>
           known == IF listed THEN approvals ELSE run[c].known
           r == Result(s, TRUE, status, events, err)
<1>5. /\ events \in Seq(EventTypes) /\ Closed(events)
      /\ ToSet(events) \subseteq {"approval_required", "approval_updated"}
      /\ err => events = <<>>
      /\ listed => events = EventsFor(known) /\ known = approvals
  <2>1. approvals \in Seq(Requests) BY DEF Typed
  <2>2. CASE listed BY <1>4, <2>1, <2>2, Reporting
  <2>3. CASE ~listed BY <2>3, ShortStreams
  <2> QED BY <2>2, <2>3
<1>30. known \in Seq(Requests) BY DEF Typed, RunState
<1>6. s \in States /\ status \in Final BY DEF Typed, RunState, Final
<1>8. run' = [run EXCEPT ![c].pc = "emit", ![c].listed = listed, ![c].known = known, ![c].res = r]
  BY <1>4 DEF Typed
<1> HIDE DEF events, known
<1>7. /\ r \in Results /\ r.out = events /\ r.next = s /\ (r.err <=> err) /\ r.terminal
      /\ r.status = status
  BY <1>5, <1>6, ResultTypes DEF Result
<1>9. /\ seen' = seen /\ outbound' = outbound /\ idem' = idem /\ config' = config /\ kind' = kind
      /\ messages' = messages /\ approvals' = approvals /\ Shows(c)' = Shows(c)
  BY DEF EmitApprovals, Shows
<1> HIDE DEF r
<1>10. run[c] \in RunState BY DEF Typed
<1>11. run'[c] = [run[c] EXCEPT !.pc = "emit", !.listed = listed, !.known = known, !.res = r]
  BY <1>8 DEF Typed
<1>12. run'[c] \in RunState
  <2>1. r \in Results /\ "emit" \in Staged BY <1>7 DEF Staged
  <2> HIDE DEF s, status
  <2> QED BY <1>10, <1>11, <1>30, <2>1 DEF RunState
<1>13. run' \in [Calls -> RunState] /\ \A d \in Calls \ {c} : run'[d] = run[d]
  BY <1>8, <1>12 DEF Typed
<1>14. /\ \A f \in Fields \ {"pc", "known", "listed", "res"} : run'[c][f] = run[c][f]
       /\ run'[c].pc = "emit" /\ run'[c].res = r /\ run'[c].known = known
       /\ run'[c].listed = listed
  BY <1>10, <1>11 DEF RunState, Fields
<1>15. /\ run'[c].at = run[c].at /\ run'[c].output = run[c].output
       /\ run'[c].deferEnd = run[c].deferEnd /\ run'[c].silenced = run[c].silenced
  BY <1>14 DEF Fields
<1>16. Keeps(c, {"pc", "known", "listed", "res"}) BY <1>13, <1>14 DEF Keeps
<1>17. Hears(c, <<>>) BY <1>9, Unheard
<1>18. Typed' /\ Touches(c) BY <1>16, <1>17, StageStep DEF EmitApprovals
<1>19. /\ StageOf(c)' = "approval_wait" /\ Stages(KeyOf[c])' = Stages(KeyOf[c])
       /\ KindOf(c)' = KindOf(c)
  BY <1>1, <1>9, <1>15, SamePlace
<1>20. ~Before(c)' BY <1>14, <1>19 DEF Before, Early
<1>21. "stream_end" \notin ToSet(r.out) /\ ToSet(r.out) \cap (Content \cup {"stream_end"}) = {}
  BY <1>5, <1>7 DEF Content
<1>22. Placed(c)' BY <1>1, <1>14, <1>15, <1>19 DEF CallSound, Placed, Staged, Speaking
<1>23. Owned(c)' /\ Echoes(c)' BY <1>1, <1>9, <1>14, <1>18, Working DEF Live, Staged
<1>24. Answers(c)' BY <1>3, <1>5, <1>6, <1>7, <1>14, <1>19 DEF Answers, Early, Emotion, Ending
<1>25. Unspoken(c)' BY <1>14, <1>20 DEF Unspoken
<1>26. Ordered(c)'
  <2>1. ~MayEnd(c)' BY <1>14, <1>19, <1>20, <1>21 DEF MayEnd, Speaking, Emotion
  <2> QED BY <1>3, <1>5, <1>7, <1>9, <1>14, <1>19, <2>1 DEF Ordered, Emotion
<1>27. Withheld(c)' BY <1>9, <1>14, <1>15, <1>21 DEF CallSound, Withheld
<1>28. Hidden(c)' BY <1>3, <1>14, <1>15 DEF Hidden
<1>29. Waits(c)'
  <2>1. StillOpen(c)'
    <3>1. Len(approvals) \in Nat BY LenProperties DEF Typed
    <3>2. CASE listed BY <1>5, <1>9, <1>14, <3>1, <3>2, JustListed
    <3>3. CASE ~listed BY <1>14, <1>18, <3>3, Listed DEF known
    <3> QED BY <3>2, <3>3
  <2>2. r.status = "approval_wait" => approvals # <<>> /\ Told(c) BY <1>3, <1>7
  <2>3. Told(c) => Told(c)'
    <3>1. run'[c].unreported = run[c].unreported BY <1>14 DEF Fields
    <3> QED BY <1>9, <3>1, StillTold
  <2> QED BY <1>3, <1>5, <1>7, <1>9, <1>14, <1>19, <2>1, <2>2, <2>3 DEF Waits, Asking, Ending
<1> QED BY <1>18, <1>22, <1>23, <1>24, <1>25, <1>26, <1>27, <1>28, <1>29 DEF Keeping, CallSound

\* A step of c that leaves the record and the journal row of every call alone.
LEMMA StillJournaled ==
  ASSUME Journaled, idem' = idem, turns' = turns
  PROVE  Journaled'
  BY DEF Journaled, Owns

RowSet(c) == \A d \in Calls : turns'[d] = turns[d] \/ (d = c /\ turns'[d].state # "none")

\* A row of the journal that is updated stays a row.
LEMMA RowUpdated ==
  ASSUME Journaled, NEW c \in Calls, idem' = idem, RowSet(c)
  PROVE  Journaled'
  BY DEF Journaled, Owns, RowSet, NoTurn

\* The last of the numbers up to p is p.
LEMMA LastPlace ==
  ASSUME NEW p \in Nat
  PROVE  p + 1 \notin 1 .. p /\ \A q \in 0 .. p : q < p \/ q = p
  OBVIOUS

EndsWith(c, r, n, refused, fails, status) ==
  /\ r = run[c].res /\ n \in 0 .. Len(r.out)
  /\ refused <=> n < Len(r.out)
  /\ fails <=> (r.err \/ refused) /\ ~(r.terminal /\ ~refused /\ r.next = "approval_wait")
  /\ fails \/ r.terminal \/ run[c].at = Len(Stages(KeyOf[c]))
  /\ status = IF refused /\ ~r.err THEN "failed"
              ELSE IF r.status # "" /\ (fails \/ r.terminal) THEN r.status
              ELSE r.next

\* The status a turn ends with is one it can end with; and a turn that waits
\* has shown its list, if it has one.
LEMMA EndingStatus ==
  ASSUME Typed, NEW c \in Calls, CallSound(c), run[c].pc = "emit", NEW n, NEW r,
         NEW refused \in BOOLEAN, NEW fails \in BOOLEAN, NEW status,
         EndsWith(c, r, n, refused, fails, status)
  PROVE  /\ status \in Final
         /\ status = "approval_wait" /\ KindOf(c) # "proactive_prompt" =>
              /\ n = Len(r.out) /\ Told(c)
              /\ run[c].listed => r.out = EventsFor(run[c].known) /\ run[c].known # <<>>
<1>12. /\ r = run[c].res /\ n \in 0 .. Len(r.out)
       /\ refused <=> n < Len(r.out)
       /\ fails <=> (r.err \/ refused) /\ ~(r.terminal /\ ~refused /\ r.next = "approval_wait")
       /\ fails \/ r.terminal \/ run[c].at = Len(Stages(KeyOf[c]))
       /\ status = IF refused /\ ~r.err THEN "failed"
                   ELSE IF r.status # "" /\ (fails \/ r.terminal) THEN r.status
                   ELSE r.next
  BY DEF EndsWith
<1>1. r \in Results /\ Len(r.out) \in Nat /\ n \in 0 .. Len(r.out)
  BY <1>12, LenProperties DEF Typed, RunState, Results
<1>0. ~refused => n = Len(r.out) BY <1>1, <1>12, LastPlace
<1>2. /\ r.err => r.out = <<>> /\ r.terminal
      /\ r.terminal => r.status \in Final
      /\ StageOf(c) \in Emotion \cup Late => r.next \in Final
      /\ r.terminal /\ StageOf(c) # "approval_wait" => r.status # "approval_wait"
  BY <1>12 DEF CallSound, Answers
<1>3. StageOf(c) = "approval_wait" =>
        /\ r.terminal /\ (run[c].listed => r.out = EventsFor(run[c].known))
        /\ r.status = "approval_wait" => Told(c) /\ (run[c].listed => run[c].known # <<>>)
  BY <1>12 DEF CallSound, Waits
<1>13. r.err => ~refused
  <2> SUFFICES ASSUME r.err PROVE ~(n < Len(r.out))
    BY <1>12
  <2>1. Len(r.out) = 0 BY <1>2, ShortStreams
  <2>2. n \in 0 .. 0 BY <1>1, <2>1
  <2> QED BY <2>1, <2>2
<1>4. PICK k \in Keys : k = KeyOf[c] BY KeyAssumption
<1>10. PICK i \in 1 .. Len(Stages(k)) : i = run[c].at BY <1>4 DEF CallSound, Placed, Staged
<1>11. StageOf(c) = Stages(k)[i] BY <1>4, <1>10 DEF StageOf
<1>5. StageOf(c) \in Early \cup Emotion \cup Late BY <1>11, StageLists
<1>6. ~fails /\ ~r.terminal =>
        StageOf(c) \in Emotion \cup Late /\ (StageOf(c) = "approval_wait" \/ KindOf(c) = "proactive_prompt")
  <2> SUFFICES ASSUME ~fails, ~r.terminal
               PROVE  /\ StageOf(c) \in Emotion \cup Late
                      /\ StageOf(c) = "approval_wait" \/ KindOf(c) = "proactive_prompt"
    OBVIOUS
  <2>1. i = Len(Stages(k)) BY <1>4, <1>10, <1>12
  <2>2. Len(Stages(k)) \in Nat BY StageLists
  <2>3. i + 1 \notin 1 .. Len(Stages(k)) BY <2>1, <2>2, LastPlace
  <2>4. StageOf(c) \notin Early BY <1>11, <2>3, StageLists
  <2>5. StageOf(c) = "approval_wait" \/ KindOf(c) = "proactive_prompt"
    BY <1>4, <1>11, <2>1, StageLists DEF KindOf
  <2> QED BY <1>5, <2>4, <2>5
<1>7. CASE refused /\ ~r.err BY <1>7, <1>12 DEF Final
<1>8. CASE ~(refused /\ ~r.err) /\ r.status # "" /\ (fails \/ r.terminal)
  <2>1. r.terminal BY <1>2, <1>8, <1>12
  <2>2. status = r.status BY <1>8, <1>12
  <2>3. status = "approval_wait" => StageOf(c) = "approval_wait" /\ ~refused
    BY <1>2, <1>3, <1>8, <1>13, <2>1, <2>2
  <2> QED BY <1>0, <1>2, <1>3, <2>1, <2>2, <2>3
<1>9. CASE ~(refused /\ ~r.err) /\ ~(r.status # "" /\ (fails \/ r.terminal))
  <2>1. ~r.terminal BY <1>2, <1>9 DEF Final
  <2>2. ~fails BY <1>2, <1>9, <1>12, <2>1
  <2>3. status = r.next BY <1>9, <1>12
  <2>4. StageOf(c) # "approval_wait" BY <1>3, <2>1
  <2> QED BY <1>2, <1>6, <2>1, <2>2, <2>3, <2>4
<1> QED BY <1>7, <1>8, <1>9

\* What the stage's events leave at the call: nothing unsaved has ended, and
\* nothing is shown of a call that is silent.
LEMMA EventsSent ==
  ASSUME Typed, NEW c \in Calls, CallSound(c), run[c].pc = "emit", Hears(c, run[c].res.out)
  PROVE  /\ Closed(seen'[c]) /\ Closed(outbound'[c])
         /\ Shows(c)' \subseteq Shows(c) \cup ToSet(run[c].res.out)
         /\ config.memory /\ run[c].output = "text"
              /\ [turn |-> c, role |-> "assistant"] \notin messages => "stream_end" \notin ToSet(seen'[c])
         /\ run[c].silenced => Shows(c)' \cap Visible = {} /\ run[c].res.terminal
<1> DEFINE out == run[c].res.out
<1>1. Closed(seen[c]) /\ Closed(outbound[c]) /\ Closed(out) BY DEF CallSound, Ordered
<1>2. "stream_end" \notin Shows(c) \/ NoWords(out)
  BY DEF CallSound, Ordered, MayEnd, NoWords
<1>3. Closed(seen'[c]) /\ Closed(outbound'[c]) BY <1>1, <1>2 DEF Hears
<1>4. Shows(c)' \subseteq Shows(c) \cup ToSet(out) BY DEF Hears, Shows
<1>5. config.memory /\ run[c].output = "text"
        /\ [turn |-> c, role |-> "assistant"] \notin messages => "stream_end" \notin ToSet(seen'[c])
  BY DEF CallSound, Withheld, Hears
<1>6. run[c].silenced => Shows(c) \cap Visible = {} /\ run[c].res.terminal /\ ToSet(out) = {}
  BY ShortStreams DEF CallSound, Hidden
<1> QED BY <1>3, <1>4, <1>5, <1>6

\* The turn ends with its stage.
LEMMA StageEnds ==
  ASSUME Typed, Typed', NEW c \in Calls, CallSound(c), Touches(c), run[c].pc = "emit",
         idem' = idem, messages' = messages, approvals' = approvals,
         Hears(c, run[c].res.out), Keeps(c, {"pc", "state", "status", "err"}),
         run'[c].pc = "closing", run'[c].status \in Final,
         run'[c].status = "approval_wait" /\ KindOf(c) # "proactive_prompt" =>
           /\ Told(c)
           /\ run[c].listed =>
                run[c].known # <<>> /\ seen'[c] = seen[c] \o EventsFor(run[c].known)
  PROVE  CallSound(c)'
<1>1. /\ run'[c].at = run[c].at /\ run'[c].output = run[c].output /\ run'[c].known = run[c].known
      /\ run'[c].deferEnd = run[c].deferEnd /\ run'[c].silenced = run[c].silenced
  BY DEF Keeps, Fields
<1>2. KindOf(c)' = KindOf(c) /\ config' = config BY SamePlace DEF Touches
<1>3. /\ Closed(seen'[c]) /\ Closed(outbound'[c])
      /\ config.memory /\ run[c].output = "text"
           /\ [turn |-> c, role |-> "assistant"] \notin messages => "stream_end" \notin ToSet(seen'[c])
      /\ run[c].silenced => Shows(c)' \cap Visible = {}
  BY EventsSent
<1>4. ~Before(c)' BY DEF Before
<1>5. Placed(c)' BY DEF Placed, Staged, Speaking
<1>6. Owned(c)' /\ Echoes(c)' BY Working DEF Live, Staged
<1>7. Answers(c)' BY DEF Answers
<1>8. Unspoken(c)' BY <1>4 DEF Unspoken
<1>9. Ordered(c)'
  <2>1. ~MayEnd(c)' BY <1>4 DEF MayEnd, Speaking
  <2> QED BY <1>3, <2>1 DEF Ordered
<1>10. Withheld(c)' BY <1>1, <1>2, <1>3 DEF Withheld
<1>11. Hidden(c)'
  <2>1. run[c].silenced => Unwritten(c)' BY DEF CallSound, Hidden, Unwritten
  <2> QED BY <1>1, <1>3, <2>1 DEF Hidden, Ending
<1>12. Waits(c)'
  <2>1. StillOpen(c)' BY <1>1, Listed
  <2>2. ~Asking(c)' BY DEF Asking
  <2>4. run'[c].listed = run[c].listed /\ (Told(c) => Told(c)')
    <3>1. run'[c].listed = run[c].listed /\ run'[c].unreported = run[c].unreported
      BY DEF Keeps, Fields
    <3> QED BY <3>1, StillTold DEF Hears
  <2>3. ASSUME run'[c].status = "approval_wait", KindOf(c) # "proactive_prompt", run[c].listed
        PROVE  Shown(c)'
    <3>1. PICK requests \in Seq(Requests) : requests = run[c].known BY DEF Typed, RunState
    <3>2. PICK s \in Seq(EventTypes) : s = seen[c] BY DEF Typed
    <3> DEFINE evs == EventsFor(requests)
    <3>3. /\ evs \in Seq(EventTypes) /\ Len(evs) = Len(requests)
          /\ \A i \in 1 .. Len(requests) : evs[i] = EventFor(requests[i])
      BY Reporting
    <3> HIDE DEF evs
    <3>4. Len(s) \in Nat /\ Len(evs) \in Nat BY <3>3, LenProperties
    <3>5. Len(s \o evs) = Len(s) + Len(evs) /\ \A i \in 1 .. Len(evs) : (s \o evs)[Len(s) + i] = evs[i]
      BY <3>3, Appended
    <3>6. seen'[c] = s \o evs BY <2>3, <3>1, <3>2 DEF evs
    <3>7. Len(s) \in 0 .. Len(seen'[c]) BY <3>4, <3>5, <3>6
    <3>8. \A i \in 1 .. Len(requests) : requests[i] = "pending" =>
            Len(s) + i <= Len(seen'[c]) /\ seen'[c][Len(s) + i] = "approval_required"
      <4> SUFFICES ASSUME NEW i \in 1 .. Len(requests), requests[i] = "pending"
                   PROVE  /\ Len(s) + i <= Len(seen'[c])
                          /\ seen'[c][Len(s) + i] = "approval_required"
        OBVIOUS
      <4>1. Len(s) + i <= Len(s) + Len(evs) BY <3>3, <3>4
      <4>2. evs[i] = "approval_required" BY <3>3 DEF EventFor
      <4> QED BY <3>3, <3>5, <3>6, <4>1, <4>2
    <3> QED BY <1>1, <3>1, <3>7, <3>8 DEF Shown
  <2> QED BY <1>1, <1>2, <2>1, <2>2, <2>3, <2>4 DEF Waits
<1> QED BY <1>5, <1>6, <1>7, <1>8, <1>9, <1>10, <1>11, <1>12 DEF CallSound

\* The turn goes on to its next stage.
LEMMA StageFollows ==
  ASSUME Typed, Typed', NEW c \in Calls, CallSound(c), Touches(c), run[c].pc = "emit",
         idem' = idem, messages' = messages, approvals' = approvals,
         Hears(c, run[c].res.out), Keeps(c, {"pc", "state", "at"}),
         ~run[c].res.terminal, run[c].at # Len(Stages(KeyOf[c])),
         run'[c].pc = "stage", run'[c].state = run[c].res.next, run'[c].at = run[c].at + 1
  PROVE  CallSound(c)'
<1>1. /\ run'[c].output = run[c].output /\ run'[c].known = run[c].known
      /\ run'[c].deferEnd = run[c].deferEnd /\ run'[c].silenced = run[c].silenced
  BY DEF Keeps, Fields
<1>2. Stages(KeyOf[c])' = Stages(KeyOf[c]) /\ KindOf(c)' = KindOf(c) /\ config' = config
  BY SamePlace DEF Touches
<1>3. PICK k \in Keys : k = KeyOf[c] BY KeyAssumption
<1>4. PICK i \in 1 .. Len(Stages(k)) : i = run[c].at BY <1>3 DEF CallSound, Placed, Staged
<1>5. StageOf(c) = Stages(k)[i] BY <1>3, <1>4 DEF StageOf
<1>6. StageOf(c)' = Stages(k)[i + 1] BY <1>2, <1>3, <1>4 DEF StageOf
<1>7. i # Len(Stages(k)) BY <1>3, <1>4
<1>8. /\ Stages(k)[i] \in Early \cup Emotion \cup Late
      /\ Stages(k)[i] \in Early =>
           i + 1 \in 1 .. Len(Stages(k)) /\ Stages(k)[i + 1] \in Early \cup Emotion
      /\ Stages(k)[i] \in Emotion => i + 1 \in 1 .. Len(Stages(k)) /\ Stages(k)[i + 1] \in Late
      /\ Stages(k)[i] = "memory_commit" =>
           i + 1 \in 1 .. Len(Stages(k)) /\ Stages(k)[i + 1] = "approval_wait"
      /\ Stages(k)[i] # "approval_wait"
  BY <1>7, StageLists
<1>9. i + 1 \in 1 .. Len(Stages(k)) BY <1>8 DEF Late
<1>10. /\ Closed(seen'[c]) /\ Closed(outbound'[c])
       /\ Shows(c)' \subseteq Shows(c) \cup ToSet(run[c].res.out)
       /\ config.memory /\ run[c].output = "text"
            /\ [turn |-> c, role |-> "assistant"] \notin messages => "stream_end" \notin ToSet(seen'[c])
       /\ ~run[c].silenced
  BY EventsSent
<1>11. Before(c)' => StageOf(c) \in Early /\ Before(c)
  BY <1>5, <1>6, <1>8 DEF Before, Early, Emotion, Late
<1>12. StageOf(c)' \in Late => StageOf(c) \in Emotion \cup Late
  BY <1>5, <1>6, <1>8 DEF Early, Emotion, Late
<1>13. StageOf(c)' = "memory_commit" => StageOf(c) \in Emotion
  BY <1>5, <1>6, <1>8 DEF Early, Emotion, Late
<1>14. Placed(c)' BY <1>2, <1>3, <1>4, <1>9 DEF Placed, Speaking
<1>15. Owned(c)' /\ Echoes(c)' BY Working DEF Live, Staged
<1>16. Answers(c)' BY <1>12 DEF CallSound, Answers, Ending
<1>17. Unspoken(c)'
  <2>1. Before(c)' => /\ run[c].output = "none" /\ ~run[c].deferEnd
                      /\ Shows(c) \cup ToSet(run[c].res.out) \subseteq {"approval_updated"}
                      /\ KindOf(c) = "proactive_prompt" => Unwritten(c)
    BY <1>11 DEF CallSound, Unspoken
  <2> QED BY <1>1, <1>2, <1>10, <2>1 DEF Unspoken, Unwritten
<1>18. Ordered(c)'
  <2>1. Before(c)' => "stream_end" \notin Shows(c)'
    BY <1>10, <1>11 DEF CallSound, Unspoken
  <2>2. run[c].deferEnd /\ StageOf(c)' = "memory_commit" => "stream_end" \notin Shows(c)'
    BY <1>10, <1>13 DEF CallSound, Ordered, MayEnd
  <2> QED BY <1>1, <1>10, <2>1, <2>2 DEF Ordered, MayEnd, Speaking
<1>19. Withheld(c)' BY <1>1, <1>2, <1>10 DEF Withheld
<1>20. Hidden(c)' BY <1>1, <1>10 DEF Hidden
<1>21. Waits(c)'
  <2>1. StillOpen(c)' BY <1>1, Listed
  <2>2. Told(c) => Told(c)'
    <3>1. run'[c].unreported = run[c].unreported BY DEF Keeps, Fields
    <3> QED BY <3>1, StillTold DEF Hears
  <2> QED BY <2>1, <2>2 DEF CallSound, Waits, Asking, Ending
<1> QED BY <1>14, <1>15, <1>16, <1>17, <1>18, <1>19, <1>20, <1>21 DEF CallSound

\* A journal row as an update leaves it.
LEMMA RowTyped ==
  ASSUME Typed, Journaled, NEW c \in Calls, Owns(c), NEW state \in States, NEW status \in Statuses,
         NEW keeps \in BOOLEAN,
         turns' = turns
           \/ turns' = [turns EXCEPT ![c].state = state,
                                     ![c].status = IF keeps THEN @ ELSE status]
           \/ turns' = [turns EXCEPT ![c].status = status]
  PROVE  turns' \in [Calls -> [state : States, status : Statuses] \cup {NoTurn}] /\ RowSet(c)
<1>1. turns \in [Calls -> [state : States, status : Statuses] \cup {NoTurn}] BY DEF Typed
<1>2. turns[c] \in [state : States, status : Statuses] BY <1>1 DEF Journaled
<1>3. "none" \notin States BY DEF States
<1>4. CASE turns' = turns BY <1>1, <1>4 DEF RowSet
<1>5. CASE turns' = [turns EXCEPT ![c].state = state, ![c].status = IF keeps THEN @ ELSE status]
  <2>1. turns'[c] = [turns[c] EXCEPT !.state = state, !.status = IF keeps THEN @ ELSE status]
    BY <1>1, <1>5
  <2>2. turns'[c] \in [state : States, status : Statuses] /\ turns'[c].state = state BY <1>2, <2>1
  <2>3. turns' \in [Calls -> [state : States, status : Statuses] \cup {NoTurn}]
    BY <1>1, <1>5, <2>2
  <2>4. \A d \in Calls \ {c} : turns'[d] = turns[d] BY <1>1, <1>5
  <2> QED BY <1>3, <2>2, <2>3, <2>4 DEF RowSet
<1>6. CASE turns' = [turns EXCEPT ![c].status = status]
  <2>1. turns'[c] = [turns[c] EXCEPT !.status = status] BY <1>1, <1>6
  <2>2. turns'[c] \in [state : States, status : Statuses] BY <1>2, <2>1
  <2>3. turns' \in [Calls -> [state : States, status : Statuses] \cup {NoTurn}]
    BY <1>1, <1>6, <2>2
  <2>4. \A d \in Calls \ {c} : turns'[d] = turns[d] BY <1>1, <1>6
  <2> QED BY <1>3, <2>2, <2>3, <2>4 DEF RowSet
<1> QED BY <1>4, <1>5, <1>6

Recorded(c, r, n) ==
  LET refused == n < Len(r.out)
      err == r.err \/ refused
      fails == err /\ ~(r.terminal /\ ~refused /\ r.next = "approval_wait")
      last == r.terminal \/ run[c].at = Len(Stages(KeyOf[c]))
      status == IF refused /\ ~r.err THEN "failed"
                ELSE IF r.status # "" /\ (fails \/ r.terminal) THEN r.status
                ELSE r.next
  IN
  /\ Sends(c, r.out, n)
  /\ turns' = IF Alive(c)
                THEN [turns EXCEPT ![c].state = r.next,
                                   ![c].status = IF fails \/ last THEN status ELSE @]
                ELSE turns
  /\ run' = IF fails \/ last
              THEN [run EXCEPT ![c].pc = "closing", ![c].state = r.next,
                               ![c].status = status, ![c].err = fails]
              ELSE [run EXCEPT ![c].pc = "stage", ![c].state = r.next, ![c].at = @ + 1]

\* The stage's result is recorded and its events sent; the turn fails, ends
\* or goes on.
LEMMA AfterStageKeeps ==
  ASSUME Typed, Journaled, NEW c \in Calls, CallSound(c), AfterStage(c)
  PROVE  Keeping(c) /\ Journaled'
<1>1. /\ run[c].pc = "emit" /\ run[c] \in RunState /\ run[c].res \in Results
      /\ config' = config /\ kind' = kind /\ idem' = idem /\ messages' = messages
      /\ approvals' = approvals /\ crashes' = crashes /\ faults' = faults
  BY DEF AfterStage, Typed, RunState
<1>2. PICK r \in Results : r = run[c].res BY <1>1
<1>3. r.out \in Seq(EventTypes) /\ Len(r.out) \in Nat /\ r.next \in States /\ r.terminal \in BOOLEAN
        /\ r.err \in BOOLEAN
  BY LenProperties DEF Results
<1>4. PICK k \in Keys : k = KeyOf[c] BY KeyAssumption
<1>5. PICK n \in 0 .. Len(r.out) : Recorded(c, r, n)
  <2>1. \E n \in 0 .. Len(run[c].res.out) : Recorded(c, run[c].res, n)
    BY DEF AfterStage, StatusForState, Recorded
  <2> QED BY <1>2, <2>1
<1> DEFINE refused == n < Len(r.out)
           fails == (r.err \/ refused) /\ ~(r.terminal /\ ~refused /\ r.next = "approval_wait")
           last == r.terminal \/ run[c].at = Len(Stages(KeyOf[c]))
           status == IF refused /\ ~r.err THEN "failed"
                     ELSE IF r.status # "" /\ (fails \/ r.terminal) THEN r.status
                     ELSE r.next
<1>6. Hears(c, r.out) /\ (n = Len(r.out) => seen'[c] = seen[c] \o r.out) BY <1>3, <1>5, Sent DEF Recorded
<1>7. Owns(c) BY <1>1 DEF CallSound, Owned, Staged
<1>8. CASE fails \/ last
  <2>1. /\ turns' = turns
           \/ turns' = [turns EXCEPT ![c].state = r.next, ![c].status = status]
        /\ run' = [run EXCEPT ![c].pc = "closing", ![c].state = r.next,
                              ![c].status = status, ![c].err = fails]
    BY <1>5, <1>8 DEF Recorded
  <2>2. /\ status \in Final
        /\ status = "approval_wait" /\ KindOf(c) # "proactive_prompt" =>
             /\ n = Len(r.out) /\ Told(c)
             /\ run[c].listed => r.out = EventsFor(run[c].known) /\ run[c].known # <<>>
    <3> DEFINE f == fails
               g == refused
               st == status
    <3>1. f \in BOOLEAN /\ g \in BOOLEAN /\ EndsWith(c, r, n, g, f, st)
      BY <1>2, <1>8 DEF EndsWith
    <3>2. run[c].pc = "emit" BY <1>1
    <3> HIDE DEF f, g, st
    <3>3. /\ st \in Final
          /\ st = "approval_wait" /\ KindOf(c) # "proactive_prompt" =>
               /\ n = Len(r.out) /\ Told(c)
               /\ run[c].listed => r.out = EventsFor(run[c].known) /\ run[c].known # <<>>
      BY <3>1, <3>2, EndingStatus, ZenonT(30)
    <3> QED BY <3>3 DEF st
  <2>3. fails \in BOOLEAN OBVIOUS
  <2> HIDE DEF status, fails
  <2>4. run'[c] = [run[c] EXCEPT !.pc = "closing", !.state = r.next, !.status = status, !.err = fails]
    BY <2>1 DEF Typed
  <2>5. run'[c] \in RunState BY <1>1, <1>3, <2>2, <2>3, <2>4 DEF RunState, Ending
  <2>6. run' \in [Calls -> RunState] /\ \A d \in Calls \ {c} : run'[d] = run[d]
    BY <2>1, <2>5 DEF Typed
  <2>7. /\ \A f \in Fields \ {"pc", "state", "status", "err"} : run'[c][f] = run[c][f]
        /\ run'[c].pc = "closing" /\ run'[c].status = status
    BY <1>1, <2>4 DEF RunState, Fields
  <2>8. Keeps(c, {"pc", "state", "status", "err"}) BY <2>6, <2>7 DEF Keeps
  <2>9. status \in Statuses BY <2>2 DEF Final, Statuses
  <2>10. turns' \in [Calls -> [state : States, status : Statuses] \cup {NoTurn}] /\ RowSet(c)
    <3>1. turns' = turns
            \/ turns' = [turns EXCEPT ![c].state = r.next, ![c].status = IF FALSE THEN @ ELSE status]
      BY <2>1
    <3> QED BY <1>3, <1>7, <2>9, <3>1, RowTyped
  <2>11. Typed' BY <1>1, <1>6, <2>6, <2>10 DEF Typed, Hears
  <2>12. Touches(c) BY <1>1, <1>6, <2>6, Touched
  <2>13. Journaled' BY <1>1, <2>10, RowUpdated
  <2>14. CallSound(c)' BY <1>1, <1>2, <1>6, <2>2, <2>7, <2>8, <2>11, <2>12, StageEnds
  <2> QED BY <2>11, <2>12, <2>13, <2>14 DEF Keeping
<1>9. CASE ~(fails \/ last)
  <2>1. /\ turns' = turns \/ turns' = [turns EXCEPT ![c].state = r.next, ![c].status = @]
        /\ run' = [run EXCEPT ![c].pc = "stage", ![c].state = r.next, ![c].at = @ + 1]
    BY <1>5, <1>9 DEF Recorded
  <2> DEFINE following == run[c].at + 1
  <2>2. following \in Nat
    <3>1. run[c].at \in Nat BY <1>1 DEF RunState
    <3> QED BY <3>1
  <2>3. run'[c] = [run[c] EXCEPT !.pc = "stage", !.state = r.next, !.at = following]
    BY <2>1 DEF Typed
  <2>4. ~r.terminal /\ run[c].at # Len(Stages(KeyOf[c])) BY <1>9
  <2> HIDE DEF following
  <2>5. run'[c] \in RunState BY <1>1, <1>3, <2>2, <2>3 DEF RunState, Staged
  <2>6. run' \in [Calls -> RunState] /\ \A d \in Calls \ {c} : run'[d] = run[d]
    BY <2>1, <2>5 DEF Typed
  <2>7. /\ \A f \in Fields \ {"pc", "state", "at"} : run'[c][f] = run[c][f]
        /\ run'[c].pc = "stage" /\ run'[c].state = r.next /\ run'[c].at = following
    BY <1>1, <2>3 DEF RunState, Fields
  <2>8. Keeps(c, {"pc", "state", "at"}) BY <2>6, <2>7 DEF Keeps
  <2>9. turns' \in [Calls -> [state : States, status : Statuses] \cup {NoTurn}] /\ RowSet(c)
    <3>1. turns' = turns
            \/ turns' = [turns EXCEPT ![c].state = r.next, ![c].status = IF TRUE THEN @ ELSE "done"]
      BY <2>1
    <3>2. "done" \in Statuses BY DEF Statuses
    <3> QED BY <1>3, <1>7, <3>1, <3>2, RowTyped
  <2>10. Typed' BY <1>1, <1>6, <2>6, <2>9 DEF Typed, Hears
  <2>11. Touches(c) BY <1>1, <1>6, <2>6, Touched
  <2>12. Journaled' BY <1>1, <2>9, RowUpdated
  <2>13. run'[c].at = run[c].at + 1 BY <2>7 DEF following
  <2>14. CallSound(c)'
    BY <1>1, <1>2, <1>6, <2>4, <2>7, <2>8, <2>10, <2>11, <2>13, StageFollows
  <2> QED BY <2>10, <2>11, <2>12, <2>14 DEF Keeping
<1> QED BY <1>8, <1>9

\* A turn that has ended is closed, completed and returned as it is, or failed.
LEMMA Settling ==
  ASSUME Typed, Typed', NEW c \in Calls, CallSound(c), Touches(c),
         run[c].pc \in {"closing", "completing"}, run'[c].pc \in Ending,
         seen' = seen, outbound' = outbound, messages' = messages,
         Keeps(c, {"pc", "status", "err"}), run'[c].status \in {run[c].status, "failed"},
         Owned(c)', Owns(c)'
  PROVE  CallSound(c)'
<1>1. /\ run'[c].output = run[c].output /\ run'[c].known = run[c].known
      /\ run'[c].silenced = run[c].silenced
  BY DEF Keeps, Fields
<1>2. KindOf(c)' = KindOf(c) /\ config' = config BY SamePlace DEF Touches
<1>3. Closed(seen[c]) /\ Closed(outbound[c]) /\ Shows(c)' = Shows(c)
  BY DEF CallSound, Ordered, Shows
<1>4. ~Before(c)' /\ ~MayEnd(c)' BY DEF Before, MayEnd, Ending, Speaking
<1>5. Placed(c)' BY DEF Placed, Staged, Speaking, Ending
<1>6. Echoes(c)' BY DEF Echoes, Ending
<1>7. Answers(c)' BY DEF CallSound, Answers, Ending, Final
<1>8. Unspoken(c)' BY <1>4 DEF Unspoken, Ending
<1>9. Ordered(c)' BY <1>3, <1>4 DEF Ordered, Ending
<1>10. Withheld(c)' BY <1>1, <1>2 DEF CallSound, Withheld, Ending
<1>11. Hidden(c)'
  <2>1. run[c].silenced => Shows(c) \cap Visible = {} /\ Unwritten(c)' BY DEF CallSound, Hidden, Unwritten
  <2> QED BY <1>1, <1>3, <2>1 DEF Hidden, Ending
<1>12. Waits(c)'
  <2>1. StillOpen(c)' BY <1>1, Listed
  <2>2. ~Asking(c)' BY DEF Asking, Ending
  <2>3. run'[c].status = "approval_wait" /\ KindOf(c) # "proactive_prompt" =>
          Told(c) /\ (run[c].listed => run[c].known # <<>> /\ Shown(c))
    BY DEF CallSound, Waits, Ending
  <2>4. (Shown(c)' <=> Shown(c)) /\ (Told(c)' <=> Told(c)) /\ run'[c].listed = run[c].listed
    <3>1. run'[c].listed = run[c].listed /\ run'[c].unreported = run[c].unreported
      BY DEF Keeps, Fields
    <3> QED BY <1>1, <3>1 DEF Shown, Told
  <2> QED BY <1>1, <1>2, <2>1, <2>2, <2>3, <2>4 DEF Waits, Ending
<1> QED BY <1>5, <1>6, <1>7, <1>8, <1>9, <1>10, <1>11, <1>12 DEF CallSound

\* The stream is closed; a turn that could not deliver it has failed.
LEMMA CloseStreamKeeps ==
  ASSUME Typed, Journaled, NEW c \in Calls, CallSound(c), CloseStream(c)
  PROVE  Keeping(c) /\ Journaled'
<1>1. /\ run[c].pc = "closing" /\ run[c] \in RunState
      /\ config' = config /\ kind' = kind /\ idem' = idem /\ messages' = messages
      /\ approvals' = approvals /\ crashes' = crashes /\ faults' = faults
      /\ seen' = seen /\ outbound' = outbound
  BY DEF CloseStream, Typed
<1>2. Owns(c) /\ Owns(c)' BY <1>1 DEF CallSound, Owned, Ending, Owns
<1>3. PICK status \in {run[c].status, "failed"}, err \in BOOLEAN :
        run'[c] = [run[c] EXCEPT !.pc = "completing", !.status = status, !.err = err]
  <2>1. run[c].err \in BOOLEAN BY <1>1 DEF RunState
  <2>2. run[c] = [run[c] EXCEPT !.status = run[c].status, !.err = run[c].err] BY <1>1 DEF RunState
  <2>3. CASE run' = [run EXCEPT ![c].pc = "completing"]
    <3>1. run'[c] = [run[c] EXCEPT !.pc = "completing"] BY <2>3 DEF Typed
    <3>2. run'[c] = [run[c] EXCEPT !.pc = "completing", !.status = run[c].status, !.err = run[c].err]
      BY <1>1, <3>1 DEF RunState
    <3> QED BY <2>1, <3>2
  <2>4. CASE run' = [run EXCEPT ![c].pc = "completing", ![c].status = "failed", ![c].err = TRUE]
    BY <2>4 DEF Typed
  <2> QED BY <2>3, <2>4 DEF CloseStream
<1>4. "failed" \in Final /\ status \in Final \cup {""}
  BY <1>1, <1>3 DEF Final, RunState
<1>5. run'[c] \in RunState BY <1>1, <1>3, <1>4 DEF RunState, Ending
<1>6. run' \in [Calls -> RunState] /\ \A d \in Calls \ {c} : run'[d] = run[d]
  BY <1>5 DEF Typed, CloseStream
<1>7. /\ \A f \in Fields \ {"pc", "status", "err"} : run'[c][f] = run[c][f]
      /\ run'[c].pc = "completing" /\ run'[c].status = status
  BY <1>1, <1>3 DEF RunState, Fields
<1>8. Keeps(c, {"pc", "status", "err"}) BY <1>6, <1>7 DEF Keeps
<1>9. turns' \in [Calls -> [state : States, status : Statuses] \cup {NoTurn}] /\ RowSet(c)
  <2>1. turns' = turns \/ turns' = [turns EXCEPT ![c].status = "failed"] BY DEF CloseStream
  <2>2. "failed" \in Statuses /\ "done" \in States BY DEF Statuses, States
  <2> QED BY <1>2, <2>1, <2>2, RowTyped
<1>10. Typed' BY <1>1, <1>6, <1>9 DEF Typed
<1>11. Hears(c, <<>>) BY <1>1, Unheard
<1>12. Touches(c) BY <1>1, <1>6, <1>11, Touched
<1>13. Journaled' BY <1>1, <1>9, RowUpdated
<1>14. Owned(c)' BY <1>1, <1>7, <1>12, Working DEF Live
<1>15. CallSound(c)' BY <1>1, <1>2, <1>3, <1>7, <1>8, <1>10, <1>12, <1>14, Settling DEF Ending
<1> QED BY <1>10, <1>12, <1>13, <1>15 DEF Keeping

\* The record is completed, or the write is lost.
LEMMA CompleteKeeps ==
  ASSUME Typed, Journaled, NEW c \in Calls, CallSound(c), Complete(c)
  PROVE  Keeping(c) /\ Journaled'
<1>1. /\ run[c].pc = "completing" /\ run[c] \in RunState /\ run[c].status \in Final
      /\ config' = config /\ kind' = kind /\ turns' = turns /\ messages' = messages
      /\ approvals' = approvals /\ crashes' = crashes
      /\ seen' = seen /\ outbound' = outbound /\ run' = [run EXCEPT ![c].pc = "returned"]
  BY DEF Complete, Typed, CallSound, Answers, Ending
<1>2. PICK k \in Keys : k = KeyOf[c] BY KeyAssumption
<1>3. /\ idem[k] \in [turn : Calls, status : Statuses] /\ idem[k].turn = c
      /\ idem[k].status = "running" /\ faults \in Nat
  BY <1>1, <1>2 DEF CallSound, Owned, Owns, Ending, Typed, Records
<1>4. /\ \/ idem' = [idem EXCEPT ![k].status = run[c].status]
         \/ idem' = idem /\ faults' > 0
      /\ faults' \in Nat /\ faults <= faults'
  <2>1. CASE idem' = [idem EXCEPT ![KeyOf[c]].status = FinalStatus(c)] /\ faults' = faults
    BY <1>2, <1>3, <2>1 DEF FinalStatus
  <2>2. CASE faults' = faults + 1 /\ idem' = idem
    BY <1>3, <2>2
  <2> QED BY <2>1, <2>2 DEF Complete
<1>5. PICK status \in Final \cup {"running"} :
        /\ idem'[k] = [idem[k] EXCEPT !.status = status]
        /\ idem'[k].status = run[c].status \/ (idem'[k].status = "running" /\ faults' > 0)
        /\ \A j \in Keys \ {k} : idem'[j] = idem[j]
        /\ idem' \in [Keys -> Records]
  <2>1. idem \in [Keys -> Records] BY DEF Typed
  <2>2. CASE idem' = [idem EXCEPT ![k].status = run[c].status]
    <3>1. idem'[k] = [idem[k] EXCEPT !.status = run[c].status] BY <2>1, <2>2
    <3>2. run[c].status \in Statuses BY <1>1 DEF Final, Statuses
    <3>3. idem'[k].status = run[c].status /\ idem'[k] \in Records BY <1>3, <3>1, <3>2 DEF Records
    <3>4. \A j \in Keys \ {k} : idem'[j] = idem[j] BY <2>1, <2>2
    <3>5. idem' \in [Keys -> Records] BY <2>1, <2>2, <3>3
    <3> QED BY <1>1, <3>1, <3>3, <3>4, <3>5
  <2>3. CASE idem' = idem /\ faults' > 0
    <3>1. idem[k] = [idem[k] EXCEPT !.status = "running"] BY <1>3
    <3> QED BY <1>3, <2>1, <2>3, <3>1
  <2> QED BY <1>4, <2>2, <2>3
<1>6. idem'[k].turn = c /\ idem'[k] # NoRecord /\ idem[k] # NoRecord
  BY <1>3, <1>5 DEF Final, NoRecord, Statuses
<1>7. Owns(c)' /\ Owns(c) BY <1>2, <1>3, <1>6 DEF Owns
<1>8. run'[c] = [run[c] EXCEPT !.pc = "returned"] BY <1>1 DEF Typed
<1>18. run[c] \in RunState BY DEF Typed
<1>9. run'[c] \in RunState BY <1>8, <1>18 DEF RunState, Ending
<1>10. run' \in [Calls -> RunState] /\ \A d \in Calls \ {c} : run'[d] = run[d]
  BY <1>1, <1>9 DEF Typed
<1>11. /\ \A f \in Fields \ {"pc"} : run'[c][f] = run[c][f]
       /\ run'[c].pc = "returned" /\ run'[c].status = run[c].status
  BY <1>8, <1>18 DEF RunState, Fields
<1>12. Keeps(c, {"pc", "status", "err"}) BY <1>10, <1>11 DEF Keeps
<1>13. Typed' BY <1>1, <1>4, <1>5, <1>10 DEF Typed
<1>14. Touches(c)
  <2>1. \A d \in Calls : Unwritten(d)' <=> Unwritten(d) BY <1>1 DEF Unwritten
  <2>2. \A j \in Keys : \/ idem'[j] = idem[j]
                        \/ KeyOf[c] = j /\ idem'[j] # NoRecord /\ idem'[j].turn = c /\ idem[j].turn = c
    BY <1>2, <1>3, <1>5, <1>6
  <2>3. Len(approvals') = Len(approvals) /\ Len(approvals) \in Nat BY <1>1, LenProperties DEF Typed
  <2> QED BY <1>1, <1>4, <1>10, <2>1, <2>2, <2>3 DEF Touches
<1>15. Journaled'
  <2>1. \A d \in Calls : Owns(d)' => Owns(d)
    BY <1>2, <1>3, <1>5, <1>6, KeyAssumption DEF Owns
  <2> QED BY <1>1, <2>1 DEF Journaled
<1>16. Owned(c)' BY <1>2, <1>5, <1>6, <1>7, <1>11 DEF Owned, Ending
<1>17. CallSound(c)' BY <1>1, <1>7, <1>11, <1>12, <1>13, <1>14, <1>16, Settling DEF Ending
<1> QED BY <1>13, <1>14, <1>15, <1>17 DEF Keeping

-----------------------------------------------------------------------------
(* Entry, duplicates, cancellation, crashes *)

\* The idempotency record is made, or read.
LEMMA BeginKeeps ==
  ASSUME Typed, Journaled, NEW c \in Calls, CallSound(c), Begin(c)
  PROVE  Keeping(c) /\ Journaled'
<1>1. /\ run[c].pc = "idle"
      /\ config' = config /\ kind' = kind /\ outbound' = outbound /\ messages' = messages
      /\ approvals' = approvals /\ seen' = seen /\ crashes' = crashes /\ faults' = faults
  BY DEF Begin
<1>2. PICK k \in Keys : k = KeyOf[c] BY KeyAssumption
<1>3. run[c] \in RunState BY DEF Typed
<1>4. ~Owns(c) /\ Unwritten(c) BY <1>1 DEF CallSound, Owned, Staged, Speaking, Ending
<1>5. run[c] = Idle /\ seen[c] = <<>> /\ outbound[c] = <<>> BY <1>1, <1>4 DEF CallSound, Echoes
<1>6. Shows(c) = {} /\ Shows(c)' = Shows(c) /\ (Unwritten(c)' <=> Unwritten(c))
  BY <1>1, <1>5, ShortStreams DEF Shows, Unwritten
<1>7. Closed(seen'[c]) /\ Closed(outbound'[c]) BY <1>1, <1>5, ShortStreams
<1>8. idem[k] \in Records BY DEF Typed
<1>9. Len(approvals) \in Nat /\ faults \in Nat BY LenProperties DEF Typed
<1>10. \A d \in Calls : Unwritten(d)' <=> Unwritten(d) BY <1>1 DEF Unwritten
<1>13. run[c].output = "none" /\ ~run[c].deferEnd /\ ~run[c].silenced /\ run[c].known = <<>>
  <2>1. Idle.output = "none" /\ ~Idle.deferEnd /\ ~Idle.silenced /\ Idle.known = <<>>
    BY DEF Idle
  <2> QED BY <1>5, <2>1
<1>11. CASE Free(k)
  <2>1. /\ idem' = [idem EXCEPT ![k] = [turn |-> c, status |-> "running"]]
        /\ turns' = [turns EXCEPT ![c] = [state |-> "created", status |-> "running"]]
        /\ run' = [run EXCEPT ![c].pc = "begun"]
    BY <1>2, <1>11 DEF Begin
  <2>2. /\ idem[k] = NoRecord /\ idem'[k] = [turn |-> c, status |-> "running"]
        /\ \A j \in Keys \ {k} : idem'[j] = idem[j]
    BY <1>11, <2>1 DEF Free, Typed
  <2>3. /\ [turn |-> c, status |-> "running"] \in Records
        /\ [turn |-> c, status |-> "running"] # NoRecord
    BY DEF Records, Statuses, NoRecord
  <2>4. idem' \in [Keys -> Records] BY <2>1, <2>3 DEF Typed
  <2>5. /\ turns'[c] # NoTurn /\ \A d \in Calls \ {c} : turns'[d] = turns[d]
        /\ turns' \in [Calls -> [state : States, status : Statuses] \cup {NoTurn}]
    BY <2>1 DEF Typed, States, Statuses, NoTurn
  <2>6. run'[c] = [run[c] EXCEPT !.pc = "begun"] BY <2>1 DEF Typed
  <2>7. run'[c] \in RunState BY <1>3, <2>6 DEF RunState
  <2>8. run' \in [Calls -> RunState] /\ \A d \in Calls \ {c} : run'[d] = run[d]
    BY <2>1, <2>7 DEF Typed
  <2>9. /\ run'[c].pc = "begun" /\ run'[c].output = "none" /\ ~run'[c].deferEnd
        /\ ~run'[c].silenced /\ run'[c].known = <<>>
    BY <1>3, <1>13, <2>6 DEF RunState
  <2>10. Typed' BY <1>1, <2>4, <2>5, <2>8 DEF Typed
  <2>11. Touches(c)
    <3>1. \A j \in Keys : \/ idem'[j] = idem[j]
                          \/ KeyOf[c] = j /\ idem'[j] # NoRecord /\ idem'[j].turn = c /\ idem[j] = NoRecord
      BY <1>2, <2>2, <2>3
    <3> QED BY <1>1, <1>9, <1>10, <2>8, <3>1 DEF Touches
  <2>12. Owns(c)' /\ idem'[k].status = "running" BY <1>2, <2>2, <2>3 DEF Owns
  <2>13. Journaled'
    <3>1. \A d \in Calls \ {c} : Owns(d)' => Owns(d) BY <1>2, <2>2, KeyAssumption DEF Owns
    <3> QED BY <2>5, <3>1 DEF Journaled
  <2>14. Placed(c)' BY <2>9 DEF Placed, Staged, Speaking
  <2>15. Owned(c)' BY <1>2, <2>2, <2>9, <2>12 DEF Owned
  <2>16. Echoes(c)' BY <2>9, <2>12 DEF Echoes
  <2>17. Answers(c)' BY <2>9 DEF Answers, Ending
  <2>18. Unspoken(c)' BY <1>4, <1>6, <2>9 DEF Unspoken
  <2>19. Ordered(c)' BY <1>6, <1>7, <2>9 DEF Ordered
  <2>20. Withheld(c)' BY <2>9 DEF Withheld
  <2>21. Hidden(c)' BY <2>9 DEF Hidden
  <2>22. Waits(c)'
    <3>1. Len(run'[c].known) = 0 BY <2>9, ShortStreams
    <3>2. StillOpen(c)' BY <3>1 DEF StillOpen
    <3> QED BY <2>9, <3>2 DEF Waits, Asking, Ending
  <2> QED BY <2>10, <2>11, <2>13, <2>14, <2>15, <2>16, <2>17, <2>18, <2>19, <2>20, <2>21, <2>22
          DEF Keeping, CallSound
<1>12. CASE ~Free(k)
  <2>1. run' = [run EXCEPT ![c].pc = "duplicate", ![c].dup = idem[k]]
          /\ idem' = idem /\ turns' = turns /\ idem[k] # NoRecord
    BY <1>2, <1>12 DEF Begin, Free
  <2>2. run'[c] = [run[c] EXCEPT !.pc = "duplicate", !.dup = idem[k]] BY <2>1 DEF Typed
  <2>3. run'[c] \in RunState BY <1>3, <1>8, <2>2 DEF RunState
  <2>4. run' \in [Calls -> RunState] /\ \A d \in Calls \ {c} : run'[d] = run[d]
    BY <2>1, <2>3 DEF Typed
  <2>5. /\ run'[c].pc = "duplicate" /\ run'[c].output = "none" /\ ~run'[c].deferEnd
        /\ ~run'[c].silenced /\ run'[c].known = <<>> /\ run'[c].dup = idem[k]
    BY <1>3, <1>13, <2>2 DEF RunState
  <2>6. Typed' BY <1>1, <2>1, <2>4 DEF Typed
  <2>7. Touches(c) BY <1>1, <1>9, <1>10, <2>1, <2>4 DEF Touches
  <2>8. Journaled' BY <2>1, StillJournaled
  <2>9. ~Owns(c)' BY <1>4, <2>1 DEF Owns
  <2>10. Placed(c)' BY <2>5 DEF Placed, Staged, Speaking
  <2>11. Owned(c)'
    BY <1>4, <1>6, <2>1, <2>5, <2>9 DEF CallSound, Owned, Staged, Speaking, Ending
  <2>12. Echoes(c)'
    <3>1. ToSet(seen'[c]) = {} /\ seen'[c] = <<>> /\ outbound'[c] = <<>>
      BY <1>1, <1>5, ShortStreams
    <3> QED BY <1>2, <2>1, <2>5, <2>9, <3>1 DEF Echoes
  <2>13. Answers(c)' BY <2>5 DEF Answers, Ending
  <2>14. ~Before(c)' /\ ~MayEnd(c)' BY <2>5 DEF Before, MayEnd, Speaking
  <2>15. Unspoken(c)' BY <2>5, <2>14 DEF Unspoken
  <2>16. Ordered(c)' BY <1>7, <2>5, <2>14 DEF Ordered
  <2>17. Withheld(c)' BY <2>5 DEF Withheld
  <2>18. Hidden(c)' BY <2>5 DEF Hidden
  <2>19. Waits(c)'
    <3>1. Len(run'[c].known) = 0 BY <2>5, ShortStreams
    <3>2. StillOpen(c)' BY <3>1 DEF StillOpen
    <3> QED BY <2>5, <3>2 DEF Waits, Asking, Ending
  <2> QED BY <2>6, <2>7, <2>8, <2>10, <2>11, <2>12, <2>13, <2>15, <2>16, <2>17, <2>18, <2>19
          DEF Keeping, CallSound
<1> QED BY <1>11, <1>12

\* The transaction fails and the call leaves nothing behind.
LEMMA BeginFailsKeeps ==
  ASSUME Typed, Journaled, NEW c \in Calls, CallSound(c), BeginFails(c)
  PROVE  Keeping(c) /\ Journaled'
<1>1. /\ run[c].pc = "idle" /\ idem' = idem /\ turns' = turns
      /\ config' = config /\ kind' = kind /\ outbound' = outbound /\ messages' = messages
      /\ approvals' = approvals /\ seen' = seen /\ crashes' = crashes
  BY DEF BeginFails
<1>2. faults' \in Nat /\ faults <= faults' BY DEF BeginFails, Typed
<1>3. run[c] \in RunState BY DEF Typed
<1>4. run'[c] = [run[c] EXCEPT !.pc = "refused"] BY DEF BeginFails, Typed
<1>5. run'[c] \in RunState BY <1>3, <1>4 DEF RunState
<1>6. run' \in [Calls -> RunState] /\ \A d \in Calls \ {c} : run'[d] = run[d]
  BY <1>5 DEF BeginFails, Typed
<1>7. /\ run'[c].pc = "refused" /\ run'[c].output = run[c].output /\ run'[c].known = run[c].known
      /\ run'[c].deferEnd = run[c].deferEnd /\ run'[c].silenced = run[c].silenced
  BY <1>3, <1>4 DEF RunState
<1>8. Typed' BY <1>1, <1>2, <1>6 DEF Typed
<1>9. Touches(c)
  <2>1. \A d \in Calls : Unwritten(d)' <=> Unwritten(d) BY <1>1 DEF Unwritten
  <2>2. Len(approvals) \in Nat BY LenProperties DEF Typed
  <2> QED BY <1>1, <1>2, <1>6, <2>1, <2>2 DEF Touches
<1>10. Journaled' BY <1>1, StillJournaled
<1>11. ~Owns(c) /\ ~Owns(c)' /\ Before(c) /\ Before(c)' /\ Shows(c)' = Shows(c)
       /\ (Unwritten(c)' <=> Unwritten(c)) /\ KindOf(c)' = KindOf(c)
  BY <1>1, <1>7 DEF CallSound, Owned, Owns, Staged, Speaking, Ending, Before, Shows, Unwritten, KindOf
<1>12. Placed(c)' BY <1>7 DEF Placed, Staged, Speaking
<1>13. Owned(c)'
  BY <1>1, <1>7, <1>11 DEF CallSound, Owned, Staged, Speaking, Ending
<1>14. Echoes(c)' BY <1>1, <1>7, <1>11 DEF CallSound, Echoes
<1>15. Answers(c)' BY <1>7 DEF Answers, Ending
<1>16. Unspoken(c)' BY <1>1, <1>7, <1>11 DEF CallSound, Unspoken
<1>17. Ordered(c)'
  <2>1. "stream_end" \notin Shows(c) BY <1>11 DEF CallSound, Unspoken
  <2> QED BY <1>1, <1>7, <1>11, <2>1 DEF CallSound, Ordered
<1>18. Withheld(c)' BY <1>1, <1>7, <1>11 DEF CallSound, Unspoken, Withheld
<1>19. Hidden(c)' BY <1>7, <1>11 DEF CallSound, Unspoken, Hidden
<1>20. Waits(c)'
  <2>1. StillOpen(c)' BY <1>7, <1>8, <1>9, Listed
  <2> QED BY <1>7, <2>1 DEF Waits, Asking, Ending
<1> QED BY <1>8, <1>9, <1>10, <1>12, <1>13, <1>14, <1>15, <1>16, <1>17, <1>18, <1>19, <1>20
        DEF Keeping, CallSound

\* The turn is entered at its first stage, or a cancelled one fails there.
LEMMA StartTurnKeeps ==
  ASSUME Typed, Journaled, NEW c \in Calls, CallSound(c), StartTurn(c)
  PROVE  Keeping(c) /\ Journaled'
<1>1. /\ run[c].pc = "begun" /\ idem' = idem /\ turns' = turns
      /\ config' = config /\ kind' = kind /\ outbound' = outbound /\ messages' = messages
      /\ approvals' = approvals /\ seen' = seen /\ crashes' = crashes /\ faults' = faults
  BY DEF StartTurn
<1>2. run[c] \in RunState BY DEF Typed
<1>3. PICK k \in Keys : k = KeyOf[c] BY KeyAssumption
<1>4. 1 \in 1 .. Len(Stages(k)) /\ Stages(k)[1] = "normalize" BY FirstStage
<1>5. \/ run'[c] = [run[c] EXCEPT !.pc = "stage", !.at = 1]
      \/ run'[c] = [run[c] EXCEPT !.pc = "closing", !.status = "failed", !.err = TRUE]
  BY DEF StartTurn, Typed
<1>6. run'[c] \in RunState
  <2>1. 1 \in Nat /\ "failed" \in Final BY DEF Final
  <2>2. CASE run'[c] = [run[c] EXCEPT !.pc = "stage", !.at = 1]
    BY <1>2, <2>1, <2>2 DEF RunState, Staged
  <2>3. CASE run'[c] = [run[c] EXCEPT !.pc = "closing", !.status = "failed", !.err = TRUE]
    BY <1>2, <2>1, <2>3 DEF RunState, Ending
  <2> QED BY <1>5, <2>2, <2>3
<1>7. run' \in [Calls -> RunState] /\ \A d \in Calls \ {c} : run'[d] = run[d]
  BY <1>6 DEF StartTurn, Typed
<1>8. /\ run'[c].output = run[c].output /\ run'[c].known = run[c].known
      /\ run'[c].deferEnd = run[c].deferEnd /\ run'[c].silenced = run[c].silenced
      /\ \/ run'[c].pc = "stage" /\ run'[c].at = 1
         \/ run'[c].pc = "closing" /\ run'[c].status = "failed"
  BY <1>2, <1>5 DEF RunState
<1>9. Typed' BY <1>1, <1>7 DEF Typed
<1>10. Touches(c)
  <2>1. Hears(c, <<>>) BY <1>1, Unheard
  <2> QED BY <1>1, <1>7, <2>1, Touched
<1>11. Journaled' BY <1>1, StillJournaled
<1>12. /\ Stages(KeyOf[c])' = Stages(KeyOf[c]) /\ KindOf(c)' = KindOf(c)
       /\ Shows(c)' = Shows(c) /\ (Unwritten(c)' <=> Unwritten(c))
  BY <1>1, SamePlace DEF Shows, Unwritten
<1>13. run'[c].pc = "stage" => StageOf(c)' = "normalize"
  BY <1>3, <1>4, <1>8, <1>12 DEF StageOf
<1>14. Before(c) /\ (run'[c].pc = "stage" => Before(c)') /\ (run'[c].pc = "closing" => ~Before(c)')
  BY <1>1, <1>13 DEF Before, Early
<1>15. run[c].output = "none" /\ ~run[c].silenced /\ ~run[c].deferEnd
       /\ Shows(c) \subseteq {"approval_updated"} /\ (KindOf(c) = "proactive_prompt" => Unwritten(c))
  BY <1>14 DEF CallSound, Unspoken
<1>16. Placed(c)' BY <1>3, <1>4, <1>8, <1>12 DEF Placed, Speaking, Staged
<1>17. Owned(c)' /\ Echoes(c)' BY <1>1, <1>8, <1>10, Working DEF Live, Staged
<1>18. Answers(c)' BY <1>8, <1>13 DEF Answers, Late, Ending, Final
<1>19. Unspoken(c)' BY <1>8, <1>12, <1>15 DEF Unspoken
<1>20. Ordered(c)' BY <1>1, <1>8, <1>12, <1>15 DEF CallSound, Ordered
<1>21. Withheld(c)' BY <1>8, <1>15 DEF Withheld
<1>22. Hidden(c)' BY <1>8, <1>15 DEF Hidden
<1>23. Waits(c)'
  <2>1. StillOpen(c)' BY <1>8, <1>9, <1>10, Listed
  <2> QED BY <1>8, <1>13, <2>1 DEF Waits, Asking, Late, Ending
<1> QED BY <1>9, <1>10, <1>11, <1>16, <1>17, <1>18, <1>19, <1>20, <1>21, <1>22, <1>23
        DEF Keeping, CallSound

\* A duplicate is shown what the journal of the turn it names holds.
LEMMA ReplayKeeps ==
  ASSUME Typed, Journaled, \A e \in Calls : CallSound(e), NEW c \in Calls, Replay(c)
  PROVE  Keeping(c) /\ Journaled'
<1>1. /\ run[c].pc = "duplicate" /\ idem' = idem /\ turns' = turns
      /\ config' = config /\ kind' = kind /\ outbound' = outbound /\ messages' = messages
      /\ approvals' = approvals /\ crashes' = crashes /\ faults' = faults
  BY DEF Replay
<1>2. CallSound(c) OBVIOUS
<1>3. ~Owns(c) BY <1>1, <1>2 DEF CallSound, Owned, Staged, Speaking, Ending
<1>4. /\ idem[KeyOf[c]] # NoRecord /\ run[c].dup.turn = idem[KeyOf[c]].turn
      /\ outbound[c] = <<>> /\ ~run[c].silenced /\ run[c].output = "none"
  BY <1>1, <1>2, <1>3 DEF CallSound, Echoes
<1>5. run[c] \in RunState BY DEF Typed
<1>6. PICK owner \in Calls : owner = idem[KeyOf[c]].turn
  BY <1>4, KeyAssumption DEF Typed, Records
<1>7. PICK recorded \in Seq(EventTypes) : recorded = outbound[owner] BY DEF Typed
<1>8. Closed(recorded) BY <1>7 DEF CallSound, Ordered
<1>9. PICK places \in SUBSET (1 .. Len(recorded)) :
        \E n \in 0 .. Len(Selected(recorded, places)), told \in {<<>>, <<"turn_status">>} :
          seen' = [seen EXCEPT ![c] = told \o SubSeq(Selected(recorded, places), 1, n)]
  <2> DEFINE P == {i \in 1 .. Len(recorded) : recorded[i] \in Replayed(run[c].dup.status)}
  <2>1. outbound[run[c].dup.turn] = recorded BY <1>4, <1>6, <1>7
  <2>2. \E n \in 0 .. Len(Selected(recorded, P)), told \in {<<>>, <<"turn_status">>} :
          seen' = [seen EXCEPT ![c] = told \o SubSeq(Selected(recorded, P), 1, n)]
    BY <2>1 DEF Replay
  <2>3. P \in SUBSET (1 .. Len(recorded)) OBVIOUS
  <2> HIDE DEF P
  <2> QED BY <2>2, <2>3
<1>36. PICK n \in 0 .. Len(Selected(recorded, places)), told \in {<<>>, <<"turn_status">>} :
         seen' = [seen EXCEPT ![c] = told \o SubSeq(Selected(recorded, places), 1, n)]
  BY <1>9
<1> DEFINE kept == Selected(recorded, places)
           part == SubSeq(kept, 1, n)
           shown == told \o part
<1>10. kept \in Seq(EventTypes) /\ ToSet(kept) \subseteq ToSet(recorded) /\ Closed(kept)
  BY <1>8, Selecting
<1>11. n \in 0 .. Len(kept) OBVIOUS
<1> HIDE DEF kept
<1>12. part \in Seq(EventTypes) /\ ToSet(part) \subseteq ToSet(recorded) /\ Closed(part)
  BY <1>10, <1>11, Beginning
<1> HIDE DEF part
<1>13. told \in Seq(EventTypes) /\ ToSet(told) \subseteq {"turn_status"} /\ Closed(told)
  <2>1. CASE told = <<>> BY <2>1, ShortStreams
  <2>2. CASE told = <<"turn_status">>
    <3>1. "turn_status" \in EventTypes BY DEF EventTypes
    <3> QED BY <2>2, <3>1, ShortStreams
  <2> QED BY <2>1, <2>2
<1>14. "stream_end" \notin ToSet(told) BY <1>13
<1>15. /\ shown \in Seq(EventTypes) /\ ToSet(shown) = ToSet(told) \cup ToSet(part) /\ Closed(shown)
  BY <1>12, <1>13, <1>14, Appended
<1>16. seen' = [seen EXCEPT ![c] = shown] BY <1>36 DEF part, kept
<1> HIDE DEF shown
<1>17. /\ seen' \in [Calls -> Seq(EventTypes)] /\ seen'[c] = shown
       /\ \A d \in Calls \ {c} : seen'[d] = seen[d]
  BY <1>15, <1>16 DEF Typed
<1>18. run'[c] = [run[c] EXCEPT !.pc = "replayed"] BY DEF Replay, Typed
<1>19. run'[c] \in RunState BY <1>5, <1>18 DEF RunState
<1>20. run' \in [Calls -> RunState] /\ \A d \in Calls \ {c} : run'[d] = run[d]
  BY <1>19 DEF Replay, Typed
<1>21. /\ run'[c].pc = "replayed" /\ run'[c].output = "none" /\ run'[c].known = run[c].known
       /\ ~run'[c].silenced /\ run'[c].dup = run[c].dup
  BY <1>4, <1>5, <1>18 DEF RunState
<1>22. Typed' BY <1>1, <1>17, <1>20 DEF Typed
<1>23. Touches(c)
  <2>1. \A d \in Calls : Unwritten(d)' <=> Unwritten(d) BY <1>1 DEF Unwritten
  <2>2. Len(approvals) \in Nat /\ faults \in Nat BY LenProperties DEF Typed
  <2> QED BY <1>1, <1>17, <1>20, <2>1, <2>2 DEF Touches
<1>24. Journaled' BY <1>1, StillJournaled
<1>25. ~Owns(c)' /\ (Unwritten(c)' <=> Unwritten(c)) BY <1>1, <1>3 DEF Owns, Unwritten
<1>26. ~Before(c)' /\ ~MayEnd(c)' BY <1>21 DEF Before, MayEnd, Speaking
<1>27. Placed(c)' BY <1>21 DEF Placed, Staged, Speaking
<1>28. Owned(c)'
  BY <1>1, <1>2, <1>3, <1>21, <1>25 DEF CallSound, Owned, Staged, Speaking, Ending
<1>29. Echoes(c)'
  <2>1. ToSet(seen'[c]) \subseteq {"turn_status"} \cup ToSet(outbound'[idem'[KeyOf[c]].turn])
    BY <1>1, <1>6, <1>7, <1>12, <1>13, <1>15, <1>17
  <2>2. run[c].dup # NoRecord BY <1>1, <1>2 DEF CallSound, Echoes
  <2> QED BY <1>1, <1>4, <1>21, <2>1, <2>2 DEF Echoes
<1>30. Answers(c)' BY <1>21 DEF Answers, Ending
<1>31. Unspoken(c)' BY <1>21, <1>26 DEF Unspoken
<1>32. Ordered(c)' BY <1>1, <1>4, <1>15, <1>17, <1>21, <1>26, ShortStreams DEF Ordered
<1>33. Withheld(c)' BY <1>21 DEF Withheld
<1>34. Hidden(c)' BY <1>21 DEF Hidden
<1>35. Waits(c)'
  <2>1. StillOpen(c)' BY <1>2, <1>21, <1>22, <1>23, Listed
  <2> QED BY <1>21, <2>1 DEF Waits, Asking, Ending
<1> QED BY <1>22, <1>23, <1>24, <1>27, <1>28, <1>29, <1>30, <1>31, <1>32, <1>33, <1>34, <1>35
        DEF Keeping, CallSound

\* A call is cancelled and no more, so far.
LEMMA StopKeeps ==
  ASSUME Typed, Journaled, NEW c \in Calls, CallSound(c), Stop(c)
  PROVE  Keeping(c) /\ Journaled'
<1>1. /\ idem' = idem /\ turns' = turns /\ seen' = seen /\ crashes' = crashes
      /\ config' = config /\ kind' = kind /\ outbound' = outbound /\ messages' = messages
      /\ approvals' = approvals /\ faults' = faults
  BY DEF Stop
<1>2. run[c] \in RunState /\ run[c].pc # "idle" BY DEF Typed, Stop, Executing
<1>3. run'[c] = [run[c] EXCEPT !.cancelled = TRUE] BY DEF Stop, Typed
<1>4. run'[c] \in RunState BY <1>2, <1>3 DEF RunState
<1>5. run' \in [Calls -> RunState] /\ \A d \in Calls \ {c} : run'[d] = run[d]
  BY <1>4 DEF Stop, Typed
<1>6. /\ run'[c].pc = run[c].pc /\ run'[c].at = run[c].at /\ run'[c].state = run[c].state
      /\ run'[c].output = run[c].output /\ run'[c].deferEnd = run[c].deferEnd
      /\ run'[c].silenced = run[c].silenced /\ run'[c].known = run[c].known
      /\ run'[c].res = run[c].res /\ run'[c].status = run[c].status /\ run'[c].dup = run[c].dup
      /\ run'[c].unreported = run[c].unreported /\ run'[c].listed = run[c].listed
  BY <1>2, <1>3 DEF RunState
<1>7. Typed' BY <1>1, <1>5 DEF Typed
<1>8. Touches(c)
  <2>1. Hears(c, <<>>) BY <1>1, Unheard
  <2> QED BY <1>1, <1>5, <2>1, Touched
<1>9. Journaled' BY <1>1, StillJournaled
<1>10. /\ Stages(KeyOf[c])' = Stages(KeyOf[c]) /\ KindOf(c)' = KindOf(c)
       /\ StageOf(c)' = StageOf(c) /\ (Resuming(c)' <=> Resuming(c))
       /\ (DefersOutput(c)' <=> DefersOutput(c))
  BY <1>1, <1>6, SamePlace
<1>11. Shows(c)' = Shows(c) /\ (Unwritten(c)' <=> Unwritten(c)) /\ (Owns(c)' <=> Owns(c))
  BY <1>1 DEF Shows, Unwritten, Owns
<1>12. Before(c)' <=> Before(c) BY <1>6, <1>10 DEF Before
<1>13. MayEnd(c)' <=> MayEnd(c) BY <1>6, <1>10, <1>12 DEF MayEnd
<1>14. Placed(c)' BY <1>6, <1>10 DEF CallSound, Placed
<1>15. Owned(c)' BY <1>1, <1>6, <1>11 DEF CallSound, Owned
<1>16. Echoes(c)' BY <1>1, <1>2, <1>6, <1>11 DEF CallSound, Echoes
<1>17. Answers(c)' BY <1>6, <1>10 DEF CallSound, Answers
<1>18. Unspoken(c)' BY <1>6, <1>10, <1>11, <1>12 DEF CallSound, Unspoken
<1>19. Ordered(c)' BY <1>1, <1>6, <1>10, <1>11, <1>13 DEF CallSound, Ordered
<1>20. Withheld(c)' BY <1>1, <1>6, <1>10 DEF CallSound, Withheld
<1>21. Hidden(c)' BY <1>6, <1>10, <1>11 DEF CallSound, Hidden
<1>22. Waits(c)'
  <2>1. StillOpen(c)' BY <1>6, <1>7, <1>8, Listed
  <2>2. (Asking(c)' <=> Asking(c)) /\ (Shown(c)' <=> Shown(c)) /\ (Told(c)' <=> Told(c))
    BY <1>1, <1>6, <1>10 DEF Asking, Shown, Told
  <2> QED BY <1>1, <1>6, <1>10, <2>1, <2>2 DEF CallSound, Waits
<1> QED BY <1>7, <1>8, <1>9, <1>14, <1>15, <1>16, <1>17, <1>18, <1>19, <1>20, <1>21, <1>22
        DEF Keeping, CallSound

\* A crash loses what is executed and no more.
LEMMA CrashKeeps ==
  ASSUME Typed, Journaled, \A c \in Calls : CallSound(c), Crash
  PROVE  Typed' /\ Journaled' /\ \A c \in Calls : CallSound(c)'
<1>1. /\ idem' = idem /\ turns' = turns /\ seen' = seen
      /\ config' = config /\ kind' = kind /\ outbound' = outbound /\ messages' = messages
      /\ approvals' = approvals /\ faults' = faults /\ crashes' \in Nat
      /\ run' = [c \in Calls |-> IF Executing(c) \/ run[c].pc = "duplicate"
                                  THEN [run[c] EXCEPT !.pc = "lost"] ELSE run[c]]
  BY DEF Crash, Typed
<1>2. ASSUME NEW c \in Calls
      PROVE  /\ run'[c] \in RunState
             /\ \/ run'[c] = run[c]
                \/ /\ run[c].pc \in {"begun", "duplicate", "closing", "completing"} \cup Staged
                   /\ run'[c] = [run[c] EXCEPT !.pc = "lost"]
  <2>1. run[c] \in RunState BY DEF Typed
  <2>2. run[c].pc \in {"idle", "refused", "begun", "duplicate", "replayed", "lost"} \cup Staged \cup Ending
    BY <2>1 DEF RunState
  <2>3. [run[c] EXCEPT !.pc = "lost"] \in RunState BY <2>1 DEF RunState
  <2>4. Executing(c) \/ run[c].pc = "duplicate" =>
          run[c].pc \in {"begun", "duplicate", "closing", "completing"} \cup Staged
    BY <2>2 DEF Executing, Ending
  <2> QED BY <1>1, <2>1, <2>3, <2>4
<1>3. run' \in [Calls -> RunState] BY <1>1, <1>2
<1>4. Typed' BY <1>1, <1>3 DEF Typed
<1>5. Journaled' BY <1>1, StillJournaled
<1>6. ASSUME NEW c \in Calls PROVE CallSound(c)'
  <2>1. /\ Stages(KeyOf[c])' = Stages(KeyOf[c]) /\ KindOf(c)' = KindOf(c)
        /\ (DefersOutput(c)' <=> DefersOutput(c))
        /\ run'[c].at = run[c].at =>
             StageOf(c)' = StageOf(c) /\ (Resuming(c)' <=> Resuming(c))
    BY <1>1, SamePlace
  <2>2. Shows(c)' = Shows(c) /\ (Unwritten(c)' <=> Unwritten(c)) /\ (Owns(c)' <=> Owns(c))
    BY <1>1 DEF Shows, Unwritten, Owns
  <2>3. CallSound(c) OBVIOUS
  <2>4. CASE run'[c] = run[c]
    <3>1. /\ StageOf(c)' = StageOf(c) /\ (Resuming(c)' <=> Resuming(c)) BY <2>1, <2>4
    <3>2. Before(c)' <=> Before(c) BY <2>4, <3>1 DEF Before
    <3>3. MayEnd(c)' <=> MayEnd(c) BY <2>4, <3>1, <3>2 DEF MayEnd
    <3>4. Placed(c)' BY <2>1, <2>3, <2>4, <3>1 DEF CallSound, Placed
    <3>5. Owned(c)' BY <1>1, <2>2, <2>3, <2>4 DEF CallSound, Owned
    <3>6. Echoes(c)' BY <1>1, <2>2, <2>3, <2>4 DEF CallSound, Echoes
    <3>7. Answers(c)' BY <2>3, <2>4, <3>1 DEF CallSound, Answers
    <3>8. Unspoken(c)' BY <2>1, <2>2, <2>3, <2>4, <3>2 DEF CallSound, Unspoken
    <3>9. Ordered(c)' BY <1>1, <2>2, <2>3, <2>4, <3>1, <3>3 DEF CallSound, Ordered
    <3>10. Withheld(c)' BY <1>1, <2>3, <2>4, <3>1 DEF CallSound, Withheld
    <3>11. Hidden(c)' BY <2>1, <2>2, <2>3, <2>4 DEF CallSound, Hidden
    <3>12. Waits(c)'
      <4>1. (StillOpen(c)' <=> StillOpen(c)) /\ (Shown(c)' <=> Shown(c)) /\ (Told(c)' <=> Told(c))
        BY <1>1, <2>4 DEF StillOpen, Shown, Told
      <4>2. Asking(c)' <=> Asking(c) BY <2>4, <3>1 DEF Asking
      <4> QED BY <1>1, <2>1, <2>3, <2>4, <3>1, <4>1, <4>2 DEF CallSound, Waits
    <3> QED BY <3>4, <3>5, <3>6, <3>7, <3>8, <3>9, <3>10, <3>11, <3>12 DEF CallSound
  <2>5. CASE /\ run[c].pc \in {"begun", "duplicate", "closing", "completing"} \cup Staged
             /\ run'[c] = [run[c] EXCEPT !.pc = "lost"]
    <3>1. run[c] \in RunState BY DEF Typed
    <3>2. /\ run'[c].pc = "lost" /\ run'[c].output = run[c].output
          /\ run'[c].silenced = run[c].silenced /\ run'[c].known = run[c].known
      BY <2>5, <3>1 DEF RunState
    <3>3. ~Before(c)' /\ ~MayEnd(c)' BY <3>2 DEF Before, MayEnd, Speaking
    <3>4. Placed(c)' BY <3>2 DEF Placed, Staged, Speaking
    <3>5. Owned(c)'
      <4>1. run[c].pc # "returned" BY <2>5 DEF Staged, Speaking
      <4> QED BY <1>1, <2>2, <2>3, <3>2, <4>1 DEF CallSound, Owned, Staged, Speaking, Ending
    <3>6. Echoes(c)' BY <1>1, <2>2, <2>3, <3>2 DEF CallSound, Echoes
    <3>7. Answers(c)' BY <3>2 DEF Answers, Ending
    <3>8. Unspoken(c)' BY <3>2, <3>3 DEF Unspoken
    <3>9. Ordered(c)' BY <1>1, <2>3, <3>2, <3>3 DEF CallSound, Ordered
    <3>10. Withheld(c)' BY <1>1, <2>3, <3>2 DEF CallSound, Withheld
    <3>11. Hidden(c)' BY <2>2, <2>3, <3>2 DEF CallSound, Hidden
    <3>12. Waits(c)'
      <4>1. StillOpen(c)' <=> StillOpen(c) BY <1>1, <3>2 DEF StillOpen
      <4> QED BY <2>3, <3>2, <4>1 DEF CallSound, Waits, Asking, Ending
    <3> QED BY <3>4, <3>5, <3>6, <3>7, <3>8, <3>9, <3>10, <3>11, <3>12 DEF CallSound
  <2> QED BY <1>2, <2>4, <2>5
<1> QED BY <1>4, <1>5, <1>6

-----------------------------------------------------------------------------
(* The invariant *)

\* The initial states are sound.
LEMMA Starts == Init => TurnInv
<1> SUFFICES ASSUME Init PROVE TurnInv OBVIOUS
<1>1. MaxApprovals \in Nat BY BoundAssumption
<1>2. /\ <<>> \in Seq(EventTypes) /\ <<>> \in Seq(Requests) /\ Len(<<>>) = 0
      /\ ToSet(<<>>) = {} /\ Closed(<<>>)
  BY ShortStreams
<1>3. /\ idem = [k \in Keys |-> NoRecord] /\ turns = [c \in Calls |-> NoTurn]
      /\ outbound = [c \in Calls |-> <<>>] /\ messages = {} /\ approvals = <<>>
      /\ run = [c \in Calls |-> Idle] /\ seen = [c \in Calls |-> <<>>]
  BY DEF Init
<1>4. NoResult \in Results BY <1>2, ResultTypes DEF NoResult, States
<1>5. Idle \in RunState /\ Idle.pc = "idle" /\ Idle.output = "none" /\ ~Idle.deferEnd
        /\ ~Idle.silenced /\ Idle.known = <<>>
  BY <1>2, <1>4 DEF Idle, RunState, States, Records
<1>6. run \in [Calls -> RunState] BY <1>3, <1>5
<1>7. idem \in [Keys -> Records] BY <1>3 DEF Records
<1>8. Typed
  BY <1>1, <1>2, <1>3, <1>6, <1>7 DEF Typed, Init
<1>9. \A k \in Keys : idem[k] = NoRecord BY <1>3
<1>10. \A c \in Calls : ~Owns(c) BY <1>9, KeyAssumption DEF Owns
<1>11. Named /\ Journaled BY <1>9, <1>10 DEF Named, Journaled
<1>12. ASSUME NEW c \in Calls PROVE CallSound(c)
  <2>1. /\ run[c] = Idle /\ run[c].pc = "idle" /\ run[c].output = "none" /\ ~run[c].deferEnd
        /\ ~run[c].silenced /\ run[c].known = <<>>
        /\ seen[c] = <<>> /\ outbound[c] = <<>> /\ Unwritten(c) /\ KeyOf[c] \in Keys
    BY <1>3, <1>5, KeyAssumption DEF Unwritten
  <2>2. Shows(c) = {} BY <1>2, <2>1 DEF Shows
  <2>3. Placed(c) BY <2>1 DEF Placed, Staged, Speaking
  <2>4. Owned(c) BY <1>10, <2>1 DEF Owned, Staged, Speaking, Ending
  <2>5. Echoes(c) BY <1>2, <1>9, <2>1 DEF Echoes
  <2>6. Answers(c) BY <2>1 DEF Answers, Ending
  <2>7. Unspoken(c) BY <2>1, <2>2 DEF Unspoken
  <2>8. Ordered(c) BY <1>2, <2>1, <2>2 DEF Ordered
  <2>9. Withheld(c) BY <2>1 DEF Withheld
  <2>10. Hidden(c) BY <2>1 DEF Hidden
  <2>11. Waits(c) BY <1>2, <2>1 DEF Waits, StillOpen, Asking, Ending
  <2> QED BY <2>3, <2>4, <2>5, <2>6, <2>7, <2>8, <2>9, <2>10, <2>11 DEF CallSound
<1> QED BY <1>8, <1>11, <1>12 DEF TurnInv

\* A call's step leaves every record with a call of its key.
LEMMA StillNamed ==
  ASSUME Named, NEW c \in Calls, Touches(c)
  PROVE  Named'
<1> SUFFICES ASSUME NEW k \in Keys, idem'[k] # NoRecord PROVE KeyOf[idem'[k].turn] = k
  BY DEF Named
<1>1. idem'[k] = idem[k] \/ (KeyOf[c] = k /\ idem'[k].turn = c) BY DEF Touches
<1> QED BY <1>1 DEF Named

\* A step of one call keeps the invariant.
LEMMA CallSteps ==
  ASSUME TurnInv, NEW c \in Calls, Keeping(c), Journaled'
  PROVE  TurnInv'
<1>1. Typed /\ Named /\ \A d \in Calls : CallSound(d) BY DEF TurnInv
<1>2. Typed' /\ Touches(c) /\ CallSound(c)' BY DEF Keeping
<1>3. Named' BY <1>1, <1>2, StillNamed
<1>4. ASSUME NEW d \in Calls PROVE CallSound(d)'
  <2>1. CASE d = c BY <1>2, <2>1
  <2>2. CASE d # c
    <3>1. d \in Calls \ {c} BY <2>2
    <3> QED BY <1>1, <1>2, <3>1, OthersKeep
  <2> QED BY <2>1, <2>2
<1> QED BY <1>2, <1>3, <1>4 DEF TurnInv

\* Nothing changes and everything stays sound.
LEMMA Stutters ==
  ASSUME TurnInv, UNCHANGED vars
  PROVE  TurnInv'
<1>1. /\ idem' = idem /\ turns' = turns /\ seen' = seen /\ run' = run
      /\ config' = config /\ kind' = kind /\ outbound' = outbound /\ messages' = messages
      /\ approvals' = approvals /\ faults' = faults /\ crashes' = crashes
  BY DEF vars
<1>2. Typed /\ Named /\ Journaled /\ \A c \in Calls : CallSound(c) BY DEF TurnInv
<1>3. Typed' /\ Named' /\ Journaled' BY <1>1, <1>2 DEF Typed, Named, Journaled, Owns
<1>4. ASSUME NEW c \in Calls PROVE CallSound(c)'
  <2>1. \A d \in Calls : Stages(KeyOf[d])' = Stages(KeyOf[d]) BY <1>1 DEF Stages
  <2>2. StageOf(c)' = StageOf(c) /\ KindOf(c)' = KindOf(c) BY <1>1, <2>1 DEF StageOf, KindOf
  <2>3. /\ (Resuming(c)' <=> Resuming(c)) /\ (DefersOutput(c)' <=> DefersOutput(c))
        /\ Shows(c)' = Shows(c) /\ (Unwritten(c)' <=> Unwritten(c)) /\ (Owns(c)' <=> Owns(c))
    BY <1>1, <2>2 DEF Resuming, DefersOutput, Shows, Unwritten, Owns
  <2>4. Before(c)' <=> Before(c) BY <1>1, <2>2 DEF Before
  <2>5. MayEnd(c)' <=> MayEnd(c) BY <1>1, <2>2, <2>4 DEF MayEnd
  <2>6. CallSound(c) BY <1>2
  <2>7. Placed(c)' BY <1>1, <2>1, <2>2, <2>6 DEF CallSound, Placed
  <2>8. Owned(c)' BY <1>1, <2>3, <2>6 DEF CallSound, Owned
  <2>9. Echoes(c)' BY <1>1, <2>3, <2>6 DEF CallSound, Echoes
  <2>10. Answers(c)' BY <1>1, <2>2, <2>6 DEF CallSound, Answers
  <2>11. Unspoken(c)' BY <1>1, <2>2, <2>3, <2>4, <2>6 DEF CallSound, Unspoken
  <2>12. Ordered(c)' BY <1>1, <2>2, <2>3, <2>5, <2>6 DEF CallSound, Ordered
  <2>13. Withheld(c)' BY <1>1, <2>3, <2>6 DEF CallSound, Withheld
  <2>14. Hidden(c)' BY <1>1, <2>3, <2>6 DEF CallSound, Hidden
  <2>15. Waits(c)'
    <3>1. /\ (StillOpen(c)' <=> StillOpen(c)) /\ (Shown(c)' <=> Shown(c))
          /\ (Asking(c)' <=> Asking(c)) /\ (Told(c)' <=> Told(c))
      BY <1>1, <2>2 DEF StillOpen, Shown, Asking, Told
    <3> QED BY <1>1, <2>2, <2>6, <3>1 DEF CallSound, Waits
  <2> QED BY <2>7, <2>8, <2>9, <2>10, <2>11, <2>12, <2>13, <2>14, <2>15 DEF CallSound
<1> QED BY <1>3, <1>4 DEF TurnInv

\* Every step keeps the invariant.
LEMMA Steps == TurnInv /\ [Next]_vars => TurnInv'
<1> SUFFICES ASSUME TurnInv, [Next]_vars PROVE TurnInv' OBVIOUS
<1>1. Typed /\ Named /\ Journaled /\ \A c \in Calls : CallSound(c) BY DEF TurnInv
<1>2. ASSUME NEW c \in Calls, Enter(c) PROVE TurnInv'
  <2>1. Keeping(c) /\ Journaled'
    BY <1>1, <1>2, BeginKeeps, BeginFailsKeeps, StartTurnKeeps DEF Enter
  <2> QED BY <2>1, CallSteps
<1>3. ASSUME NEW c \in Calls, Prepare(c) PROVE TurnInv'
  <2>1. Keeping(c)
    BY <1>1, <1>3, NormalizeKeeps, MemoryPrepareKeeps, EmotionPrepareKeeps, ApprovalApplyKeeps
       DEF Prepare
  <2>2. idem' = idem /\ turns' = turns
    BY <1>3 DEF Prepare, Normalize, MemoryPrepare, EmotionPrepare, ApprovalApply
  <2> QED BY <1>1, <2>1, <2>2, StillJournaled, CallSteps
<1>4. ASSUME NEW c \in Calls, Speak(c) PROVE TurnInv'
  <2>1. Keeping(c)
    BY <1>1, <1>4, SpeakNoticeKeeps, SpeakStartKeeps, SpeakDeltaKeeps, SpeakToolRoundKeeps,
       SpeakToolBlindKeeps, SpeakWaitKeeps, SpeakFailsKeeps, SpeakReplyKeeps, SpeakSegmentKeeps, SpeakEndKeeps
       DEF Speak
  <2>2. idem' = idem /\ turns' = turns
    <3>1. ASSUME NEW reply \in {"text", "none"}, SpeakReply(c, reply)
          PROVE  idem' = idem /\ turns' = turns
      BY <3>1 DEF SpeakReply
    <3>2. SpeakNotice(c) \/ SpeakFails(c) \/ SpeakEnd(c) => idem' = idem /\ turns' = turns
      BY DEF SpeakNotice, SpeakFails, SpeakEnd
    <3>3. SpeakStart(c) \/ SpeakDelta(c) => idem' = idem /\ turns' = turns
      BY DEF SpeakStart, SpeakDelta
    <3>4. SpeakToolRound(c) \/ SpeakToolBlind(c) => idem' = idem /\ turns' = turns
      BY DEF SpeakToolRound, SpeakToolBlind
    <3>5. SpeakWait(c) \/ SpeakSegment(c) => idem' = idem /\ turns' = turns
      BY DEF SpeakWait, SpeakSegment
    <3> QED BY <1>4, <3>1, <3>2, <3>3, <3>4, <3>5 DEF Speak
  <2> QED BY <1>1, <2>1, <2>2, StillJournaled, CallSteps
<1>5. ASSUME NEW c \in Calls, Finish(c) PROVE TurnInv'
  <2>1. CASE MemoryCommit(c) \/ EmitApprovals(c)
    <3>1. Keeping(c) BY <1>1, <2>1, MemoryCommitKeeps, EmitApprovalsKeeps
    <3>2. idem' = idem /\ turns' = turns BY <2>1 DEF MemoryCommit, EmitApprovals
    <3> QED BY <1>1, <3>1, <3>2, StillJournaled, CallSteps
  <2>2. CASE AfterStage(c) \/ CloseStream(c) \/ Complete(c)
    <3>1. Keeping(c) /\ Journaled'
      BY <1>1, <2>2, AfterStageKeeps, CloseStreamKeeps, CompleteKeeps
    <3> QED BY <3>1, CallSteps
  <2> QED BY <1>5, <2>1, <2>2 DEF Finish
<1>6. ASSUME NEW c \in Calls, Replay(c) \/ Stop(c) PROVE TurnInv'
  <2>1. Keeping(c) /\ Journaled' BY <1>1, <1>6, ReplayKeeps, StopKeeps
  <2> QED BY <2>1, CallSteps
<1>7. ASSUME Crash PROVE TurnInv'
  <2>1. Typed' /\ Journaled' /\ \A c \in Calls : CallSound(c)' BY <1>1, <1>7, CrashKeeps
  <2>2. Named' BY <1>1, <1>7 DEF Named, Crash
  <2> QED BY <2>1, <2>2 DEF TurnInv
<1>8. ASSUME UNCHANGED vars PROVE TurnInv' BY <1>8, Stutters
<1> QED BY <1>2, <1>3, <1>4, <1>5, <1>6, <1>7, <1>8 DEF Next

\* The invariant holds in every reachable state, for any calls and keys.
THEOREM TurnInductive == Spec => []TurnInv
  BY Starts, Steps, PTL DEF Spec

-----------------------------------------------------------------------------
(* The properties *)

\* The places of an event in a stream, and how many there are.
LEMMA Counting ==
  ASSUME NEW s \in Seq(EventTypes), NEW e
  PROVE  /\ IsFiniteSet({i \in 1 .. Len(s) : s[i] = e})
         /\ Count(s, e) = Cardinality({i \in 1 .. Len(s) : s[i] = e}) /\ Count(s, e) \in Nat
         /\ Count(s, e) > 0 => e \in ToSet(s)
<1> DEFINE P == {i \in 1 .. Len(s) : s[i] = e}
<1>1. Len(s) \in Nat /\ P \in SUBSET (1 .. Len(s)) BY LenProperties
<1>2. IsFiniteSet(P)
  <2>1. IsFiniteSet(1 .. Len(s)) BY <1>1, FS_Interval
  <2> QED BY <1>1, <2>1, FS_Subset
<1>3. Count(s, e) = Cardinality(P) /\ Cardinality(P) \in Nat BY <1>2, FS_CardinalityType DEF Count
<1>4. Count(s, e) > 0 => P # {}
  <2>1. Cardinality({}) = 0 /\ ~(0 > 0) BY FS_EmptySet
  <2> HIDE DEF P
  <2> QED BY <1>3, <2>1
<1>5. P # {} => e \in ToSet(s) BY Members
<1> QED BY <1>2, <1>3, <1>4, <1>5

\* A set of at most one thing.
LEMMA AtMostOne ==
  ASSUME NEW S, NEW x, S \subseteq {x}
  PROVE  Cardinality(S) <= 1
<1>1. IsFiniteSet({x}) /\ Cardinality({x}) = 1 BY FS_Singleton
<1>2. S \in SUBSET {x} OBVIOUS
<1>3. Cardinality(S) <= Cardinality({x}) BY <1>1, <1>2, FS_Subset
<1> QED BY <1>1, <1>3

\* Every variable stays in its set, whatever the calls, keys and bounds.
THEOREM TypeCorrect == Spec => []TypeOK
<1>1. TurnInv => TypeOK
  <2> SUFFICES ASSUME TurnInv PROVE TypeOK OBVIOUS
  <2>1. Typed BY DEF TurnInv
  <2>2. \A c \in Calls : ToSet(outbound[c]) \subseteq EventTypes /\ ToSet(seen[c]) \subseteq EventTypes
    BY <2>1, StreamTypes, Members
  <2>3. approvals \in BoundedSeq({"pending", "settled"}, MaxApprovals)
    <3>1. /\ approvals \in Seq({"pending", "settled"}) /\ Len(approvals) <= MaxApprovals
      BY <2>1 DEF Typed, Requests
    <3>2. /\ Len(approvals) \in Nat /\ approvals \in [1 .. Len(approvals) -> {"pending", "settled"}]
      BY <3>1, LenProperties
    <3>3. Len(approvals) \in 0 .. MaxApprovals BY <3>1, <3>2, BoundAssumption
    <3> QED BY <3>2, <3>3 DEF BoundedSeq, SeqOf
  <2> QED BY <2>1, <2>2, <2>3 DEF TypeOK, Typed, Records
<1> QED BY <1>1, TurnInductive, PTL

\* However often a message is delivered and whatever fails or crashes, it is
\* recorded once and answered at most once: who writes owns the record.
THEOREM OneAnswer == Spec => []AnsweredOnce
<1>1. TurnInv => AnsweredOnce
  <2> SUFFICES ASSUME TurnInv, NEW k \in Keys, NEW role \in {"user", "assistant"}
               PROVE  Cardinality(SavedBy(k, role)) <= 1
    BY DEF AnsweredOnce
  <2>1. messages \subseteq [turn : Calls, role : {"user", "assistant"}] BY DEF TurnInv, Typed
  <2>2. SavedBy(k, role) \subseteq {[turn |-> idem[k].turn, role |-> role]}
    <3> SUFFICES ASSUME NEW m \in SavedBy(k, role)
                 PROVE  m = [turn |-> idem[k].turn, role |-> role]
      OBVIOUS
    <3>1. /\ m \in messages /\ m.turn \in Calls /\ KeyOf[m.turn] = k /\ m.role = role
          /\ m = [turn |-> m.turn, role |-> role]
      BY <2>1 DEF SavedBy
    <3>2. PICK d \in Calls : d = m.turn BY <3>1
    <3>3. ~Unwritten(d) BY <3>1, <3>2 DEF Unwritten
    <3>4. Owns(d) BY <3>3 DEF TurnInv, CallSound, Owned
    <3> QED BY <3>1, <3>2, <3>4 DEF Owns
  <2> QED BY <2>2, AtMostOne
<1> QED BY <1>1, TurnInductive, PTL

\* With the memory stages, a client shown the reply and the end of its stream
\* can rely on the reply being in the history.
THEOREM EndMeansSaved == Spec => []EndedReplyIsSaved
<1>1. TurnInv => EndedReplyIsSaved
  <2> SUFFICES ASSUME TurnInv, NEW c \in Calls, config.memory, Ends(seen[c]) > 0,
                      run[c].output = "text"
               PROVE  [turn |-> c, role |-> "assistant"] \in messages
    BY DEF EndedReplyIsSaved
  <2>1. PICK s \in Seq(EventTypes) : s = seen[c] BY DEF TurnInv, Typed
  <2>2. "stream_end" \in ToSet(s) BY <2>1, Counting DEF Ends
  <2> QED BY <2>1, <2>2 DEF TurnInv, CallSound, Withheld
<1> QED BY <1>1, TurnInductive, PTL

\* One stream, one end, and no words after it, for the client and for every
\* replay of the journal.
THEOREM OneEnd == Spec => []StreamEndsOnce
<1>1. ASSUME NEW s \in Seq(EventTypes), Closed(s)
      PROVE  /\ Ends(s) <= 1
             /\ \A i, j \in 1 .. Len(s) : (s[i] = "stream_end" /\ s[j] \in Content) => j < i
  <2> DEFINE P == {i \in 1 .. Len(s) : s[i] = "stream_end"}
  <2>0. Len(s) \in Nat BY LenProperties
  <2>1. ASSUME NEW i \in 1 .. Len(s), NEW j \in 1 .. Len(s), s[i] = "stream_end", s[j] \in Content
        PROVE  j < i
    <3>1. j <= i BY <1>1, <2>1 DEF Closed
    <3>2. j # i BY <2>1 DEF Content
    <3> QED BY <2>0, <3>1, <3>2
  <2>2. \A i, j \in P : i = j
    <3> SUFFICES ASSUME NEW i \in P, NEW j \in P PROVE i = j OBVIOUS
    <3>1. i <= j /\ j <= i BY <1>1 DEF Closed
    <3>2. i \in Int /\ j \in Int BY <2>0
    <3> QED BY <3>1, <3>2
  <2>3. Cardinality(P) <= 1
    <3>1. CASE P = {}
      <4>1. Cardinality({}) = 0 /\ 0 <= 1 BY FS_EmptySet
      <4> HIDE DEF P
      <4> QED BY <3>1, <4>1
    <3>2. CASE P # {}
      <4>1. PICK i \in P : TRUE BY <3>2
      <4>2. P \subseteq {i} BY <2>2
      <4> HIDE DEF P
      <4> QED BY <4>2, AtMostOne
    <3> QED BY <3>1, <3>2
  <2> QED BY <2>1, <2>3 DEF Ends, Count
<1>2. TurnInv => StreamEndsOnce
  <2> SUFFICES ASSUME TurnInv, NEW c \in Calls, NEW s \in {seen[c], outbound[c]}
               PROVE  /\ Ends(s) <= 1
                      /\ \A i, j \in 1 .. Len(s) :
                           (s[i] = "stream_end" /\ s[j] \in Content) => j < i
    BY DEF StreamEndsOnce
  <2>1. s \in Seq(EventTypes) BY DEF TurnInv, Typed
  <2>2. Closed(s) BY DEF TurnInv, CallSound, Ordered
  <2> QED BY <1>1, <2>1, <2>2
<1> QED BY <1>2, TurnInductive, PTL

\* A proactive turn Emotion declined leaves nothing, at the call or at any
\* duplicate of it: a duplicate is shown only what the owner's journal holds.
THEOREM SilenceIsKept == Spec => []SilenceKept
<1>1. TurnInv => SilenceKept
  <2> SUFFICES ASSUME TurnInv, NEW c \in Calls, run[c].silenced
               PROVE  /\ \A d \in Calls : KeyOf[d] = KeyOf[c] => ToSet(seen[d]) \cap Visible = {}
                      /\ SavedBy(KeyOf[c], "assistant") = {} /\ SavedBy(KeyOf[c], "user") = {}
    BY DEF SilenceKept
  <2>1. /\ messages \subseteq [turn : Calls, role : {"user", "assistant"}]
        /\ \A d \in Calls : CallSound(d)
    BY DEF TurnInv, Typed
  <2>2. Shows(c) \cap Visible = {} /\ Unwritten(c) BY <2>1 DEF CallSound, Hidden
  <2>3. Owns(c) BY <2>1 DEF CallSound, Echoes
  <2>4. ASSUME NEW d \in Calls, KeyOf[d] = KeyOf[c], d # c PROVE ~Owns(d)
    BY <2>3, <2>4 DEF Owns
  <2>5. ASSUME NEW d \in Calls, KeyOf[d] = KeyOf[c] PROVE ToSet(seen[d]) \cap Visible = {}
    <3>1. CASE d = c BY <2>2, <3>1 DEF Shows
    <3>2. CASE d # c
      <4>1. ~Owns(d) BY <2>4, <2>5, <3>2
      <4>2. ToSet(seen[d]) \subseteq {"turn_status"} \cup ToSet(outbound[c])
        BY <2>1, <2>3, <2>5, <4>1 DEF CallSound, Echoes, Owns
      <4> QED BY <2>2, <4>2 DEF Shows, Visible
    <3> QED BY <3>1, <3>2
  <2>6. ASSUME NEW role \in {"user", "assistant"} PROVE SavedBy(KeyOf[c], role) = {}
    <3> SUFFICES ASSUME NEW m \in SavedBy(KeyOf[c], role) PROVE FALSE OBVIOUS
    <3>1. /\ m \in messages /\ m.turn \in Calls /\ KeyOf[m.turn] = KeyOf[c] /\ m.role = role
          /\ m = [turn |-> m.turn, role |-> role]
      BY <2>1 DEF SavedBy
    <3>2. PICK d \in Calls : d = m.turn BY <3>1
    <3>3. ~Unwritten(d) BY <3>1, <3>2 DEF Unwritten
    <3>4. Owns(d) BY <2>1, <3>3 DEF CallSound, Owned
    <3> QED BY <2>2, <2>4, <3>1, <3>2, <3>3, <3>4
  <2> QED BY <2>5, <2>6
<1> QED BY <1>1, TurnInductive, PTL

\* A key stays "running" only while a call owns it, or when the process died
\* or the final write was lost.
THEOREM RunningHasOwner == Spec => []RunningIsOwned
<1>1. TurnInv => RunningIsOwned
  <2> SUFFICES ASSUME TurnInv, NEW k \in Keys, idem[k].status = "running"
               PROVE  LET c == idem[k].turn IN
                      Executing(c) \/ run[c].pc = "lost" \/ faults > 0
    BY DEF RunningIsOwned
  <2>1. idem[k] # NoRecord /\ idem[k] \in Records BY DEF NoRecord, TurnInv, Typed
  <2>2. PICK c \in Calls : c = idem[k].turn BY <2>1 DEF Records
  <2>3. KeyOf[c] = k BY <2>1, <2>2 DEF TurnInv, Named
  <2>4. Owns(c) BY <2>1, <2>2, <2>3 DEF Owns
  <2>5. run[c].pc \in {"begun", "lost"} \cup Staged \cup Ending
    BY <2>4 DEF TurnInv, CallSound, Owned
  <2>6. CASE run[c].pc = "returned"
    <3>1. run[c].status # "running" BY <2>6 DEF TurnInv, CallSound, Answers, Ending, Final
    <3>2. faults > 0 BY <2>3, <2>4, <2>6, <3>1 DEF TurnInv, CallSound, Owned
    <3> QED BY <2>2, <3>2
  <2>7. CASE run[c].pc # "returned" /\ run[c].pc # "lost"
    <3>1. Executing(c) BY <2>5, <2>7 DEF Executing, Staged, Speaking, Ending
    <3> QED BY <2>2, <3>1
  <2> QED BY <2>2, <2>6, <2>7
<1> QED BY <1>1, TurnInductive, PTL

\* A turn waits for an approval its user has not been shown only after two failures: the
\* loop could not report the request, or did not list it, and the last listing failed.
THEOREM WaitIsShown == Spec => []WaitShowsRequest
<1>1. TurnInv => WaitShowsRequest
  <2> SUFFICES ASSUME TurnInv, NEW k \in Keys, idem[k].status = "approval_wait",
                      kind[k] # "proactive_prompt"
               PROVE  LET c == idem[k].turn IN
                      /\ run[c].listed =>
                           /\ run[c].known # <<>>
                           /\ Count(seen[c], "approval_required") >=
                                Cardinality({i \in 1 .. Len(run[c].known) : approvals[i] = "pending"})
                      /\ ~run[c].unreported => "approval_required" \in ToSet(seen[c])
    BY DEF WaitShowsRequest
  <2>1. idem[k] # NoRecord /\ idem[k] \in Records BY DEF NoRecord, TurnInv, Typed
  <2>2. PICK c \in Calls : c = idem[k].turn BY <2>1 DEF Records
  <2>3. KeyOf[c] = k BY <2>1, <2>2 DEF TurnInv, Named
  <2>4. CallSound(c) /\ Owns(c) BY <2>1, <2>2, <2>3 DEF Owns, TurnInv
  <2>5. run[c].pc = "returned" /\ run[c].status = "approval_wait"
    BY <2>3, <2>4 DEF CallSound, Owned
  <2>18. Told(c) /\ (run[c].listed => run[c].known # <<>> /\ Shown(c)) /\ StillOpen(c)
    BY <2>3, <2>4, <2>5 DEF CallSound, Waits, Ending, KindOf
  <2>19. CASE ~run[c].listed BY <2>2, <2>18, <2>19 DEF Told
  <2>20. CASE run[c].listed
    <3>7. PICK s \in Seq(EventTypes) : s = seen[c] BY DEF TurnInv, Typed
    <3>8. PICK known \in Seq(Requests) : known = run[c].known BY DEF TurnInv, Typed, RunState
    <3>9. PICK n \in 0 .. Len(s) : \A i \in 1 .. Len(known) : known[i] = "pending" =>
            n + i <= Len(s) /\ s[n + i] = "approval_required"
      BY <2>20, <2>18, <3>7, <3>8 DEF Shown
    <3> DEFINE A == {i \in 1 .. Len(known) : approvals[i] = "pending"}
               B == {i \in 1 .. Len(s) : s[i] = "approval_required"}
               f == [i \in A |-> n + i]
    <3>10. Len(s) \in Nat /\ Len(known) \in Nat /\ n \in Nat BY LenProperties
    <3>11. \A i \in A : n + i \in B
      <4> SUFFICES ASSUME NEW i \in A PROVE n + i \in B OBVIOUS
      <4>1. known[i] = "pending" BY <2>20, <2>18, <3>8 DEF StillOpen
      <4>2. n + i <= Len(s) /\ s[n + i] = "approval_required" BY <3>9, <4>1
      <4>3. n + i \in 1 .. Len(s) BY <3>10, <4>2
      <4> QED BY <4>2, <4>3
    <3>12. \A i, j \in A : n + i = n + j => i = j BY <3>10
    <3>13. f \in Injection(A, B) BY <3>11, <3>12 DEF Injection, IsInjective
    <3>14. IsFiniteSet(B) /\ Count(s, "approval_required") = Cardinality(B)
             /\ Count(s, "approval_required") \in Nat
      BY Counting
    <3> HIDE DEF A, B, f
    <3>15. IsFiniteSet(A) /\ Cardinality(A) <= Cardinality(B) BY <3>13, <3>14, FS_Injection
    <3>16. Cardinality(A) \in Nat BY <3>15, FS_CardinalityType
    <3>17. Count(s, "approval_required") >= Cardinality(A) BY <3>14, <3>15, <3>16
    <3> QED BY <2>2, <2>18, <2>20, <3>7, <3>8, <3>17 DEF A, Told
  <2> QED BY <2>19, <2>20
<1> QED BY <1>1, TurnInductive, PTL

-----------------------------------------------------------------------------
(* What a duplicate is answered from *)

\* A step is one call's, which has not returned yet, or leaves the tables alone.
LEMMA StepTouches ==
  ASSUME TurnInv, [Next]_vars
  PROVE  \/ \E c \in Calls : Touches(c) /\ run[c].pc # "returned"
         \/ idem' = idem /\ outbound' = outbound /\ messages' = messages
<1>1. Typed /\ Named /\ Journaled /\ \A c \in Calls : CallSound(c) BY DEF TurnInv
<1>2. ASSUME NEW c \in Calls, Enter(c) PROVE Touches(c) /\ run[c].pc # "returned"
  <2>1. Touches(c) BY <1>1, <1>2, BeginKeeps, BeginFailsKeeps, StartTurnKeeps DEF Enter, Keeping
  <2>2. run[c].pc # "returned" BY <1>2 DEF Enter, Begin, BeginFails, StartTurn
  <2> QED BY <2>1, <2>2
<1>3. ASSUME NEW c \in Calls, Prepare(c) PROVE Touches(c) /\ run[c].pc # "returned"
  <2>1. Touches(c)
    BY <1>1, <1>3, NormalizeKeeps, MemoryPrepareKeeps, EmotionPrepareKeeps, ApprovalApplyKeeps
    DEF Prepare, Keeping
  <2>2. run[c].pc # "returned"
    BY <1>3 DEF Prepare, Normalize, MemoryPrepare, EmotionPrepare, ApprovalApply, AtStage
  <2> QED BY <2>1, <2>2
<1>4. ASSUME NEW c \in Calls, Speak(c) PROVE Touches(c) /\ run[c].pc # "returned"
  <2>1. Touches(c)
    BY <1>1, <1>4, SpeakNoticeKeeps, SpeakStartKeeps, SpeakDeltaKeeps, SpeakToolRoundKeeps,
       SpeakToolBlindKeeps, SpeakWaitKeeps, SpeakFailsKeeps, SpeakReplyKeeps, SpeakSegmentKeeps, SpeakEndKeeps
    DEF Speak, Keeping
  <2>2. \A reply \in {"text", "none"} : SpeakReply(c, reply) => run[c].pc # "returned"
    BY DEF SpeakReply
  <2>3. SpeakNotice(c) \/ SpeakStart(c) => run[c].pc # "returned"
    BY DEF SpeakNotice, SpeakStart, Speaks
  <2>4. SpeakDelta(c) \/ SpeakToolRound(c) \/ SpeakToolBlind(c) \/ SpeakWait(c) =>
          run[c].pc # "returned"
    BY DEF SpeakDelta, SpeakToolRound, SpeakToolBlind, SpeakWait
  <2>5. SpeakFails(c) \/ SpeakSegment(c) \/ SpeakEnd(c) => run[c].pc # "returned"
    BY DEF SpeakFails, SpeakSegment, SpeakEnd
  <2> QED BY <1>4, <2>1, <2>2, <2>3, <2>4, <2>5 DEF Speak
<1>5. ASSUME NEW c \in Calls, Finish(c) PROVE Touches(c) /\ run[c].pc # "returned"
  <2>1. Touches(c)
    BY <1>1, <1>5, MemoryCommitKeeps, EmitApprovalsKeeps, AfterStageKeeps, CloseStreamKeeps,
       CompleteKeeps
    DEF Finish, Keeping
  <2>2. MemoryCommit(c) \/ EmitApprovals(c) => run[c].pc # "returned"
    BY DEF MemoryCommit, EmitApprovals, AtStage
  <2>3. AfterStage(c) \/ CloseStream(c) \/ Complete(c) => run[c].pc # "returned"
    BY DEF AfterStage, CloseStream, Complete
  <2> QED BY <1>5, <2>1, <2>2, <2>3 DEF Finish
<1>6. ASSUME NEW c \in Calls, Replay(c) \/ Stop(c) PROVE Touches(c) /\ run[c].pc # "returned"
  <2>1. Touches(c) BY <1>1, <1>6, ReplayKeeps, StopKeeps DEF Keeping
  <2>2. run[c].pc # "returned" BY <1>6 DEF Replay, Stop, Executing
  <2> QED BY <2>1, <2>2
<1>7. Crash \/ UNCHANGED vars => idem' = idem /\ outbound' = outbound /\ messages' = messages
  BY DEF Crash, vars
<1> QED BY <1>2, <1>3, <1>4, <1>5, <1>6, <1>7 DEF Next

\* What is saved of a recorded message is what its owner saved.
OwnerSaves ==
  \A k \in Keys : idem[k] # NoRecord =>
    \A role \in {"user", "assistant"} :
      SavedBy(k, role) = {m \in {[turn |-> idem[k].turn, role |-> role]} : m \in messages}

\* Nobody else ever saves anything under its key.
LEMMA SavedByOwner == TurnInv => OwnerSaves
<1> SUFFICES ASSUME TurnInv, NEW k \in Keys, idem[k] # NoRecord, NEW role \in {"user", "assistant"}
             PROVE  SavedBy(k, role) = {m \in {[turn |-> idem[k].turn, role |-> role]} : m \in messages}
  BY DEF OwnerSaves
<1>1. idem[k].turn \in Calls /\ KeyOf[idem[k].turn] = k BY DEF TurnInv, Typed, Named, Records
<1>2. ASSUME NEW m \in messages, KeyOf[m.turn] = k, m.role = role
      PROVE  m = [turn |-> idem[k].turn, role |-> role]
  <2>1. m \in [turn : Calls, role : {"user", "assistant"}] BY DEF TurnInv, Typed
  <2>2. m = [turn |-> m.turn, role |-> m.role] /\ m.turn \in Calls BY <2>1
  <2>3. ~Unwritten(m.turn) BY <1>2, <2>2 DEF Unwritten
  <2>4. Owns(m.turn) BY <2>2, <2>3 DEF TurnInv, CallSound, Owned
  <2> QED BY <1>2, <2>2, <2>4 DEF Owns
<1> QED BY <1>1, <1>2 DEF SavedBy

\* The record of a message names one call for ever, and once it says how the turn ended,
\* what a duplicate is answered from is final (Complete, replayDuplicate).
THEOREM AnswersAreFinal == Spec => AnswerIsFinal
<1> DEFINE A == \A k \in Keys : idem[k] # NoRecord =>
       /\ idem'[k] # NoRecord /\ idem'[k].turn = idem[k].turn
       /\ idem[k].status # "running" =>
            /\ idem'[k] = idem[k]
            /\ outbound'[idem[k].turn] = outbound[idem[k].turn]
            /\ \A role \in {"user", "assistant"} : SavedBy(k, role)' = SavedBy(k, role)
<1>1. TurnInv /\ [Next]_vars => OwnerSaves /\ OwnerSaves'
  BY Steps, SavedByOwner, PTL
<1>2. TurnInv /\ [Next]_vars => [A]_vars
  <2> SUFFICES ASSUME TurnInv, [Next]_vars, NEW k \in Keys, idem[k] # NoRecord
               PROVE  /\ idem'[k] # NoRecord /\ idem'[k].turn = idem[k].turn
                      /\ idem[k].status # "running" =>
                           /\ idem'[k] = idem[k]
                           /\ outbound'[idem[k].turn] = outbound[idem[k].turn]
                           /\ \A role \in {"user", "assistant"} : SavedBy(k, role)' = SavedBy(k, role)
    OBVIOUS
  <2> DEFINE o == idem[k].turn
  <2>1. o \in Calls /\ KeyOf[o] = k BY DEF TurnInv, Typed, Named, Records
  <2>2. idem'[k] # NoRecord /\ idem'[k].turn = o BY StepTouches DEF Touches
  <2>3. ASSUME idem[k].status # "running"
        PROVE  /\ idem'[k] = idem[k] /\ outbound'[o] = outbound[o]
               /\ \A role \in {"user", "assistant"} : SavedBy(k, role)' = SavedBy(k, role)
    <3>1. run[o].pc = "returned" BY <2>1, <2>3 DEF Owns, TurnInv, CallSound, Owned
    <3>2. /\ idem'[k] = idem[k] /\ outbound'[o] = outbound[o]
          /\ \A role : [turn |-> o, role |-> role] \in messages' <=> [turn |-> o, role |-> role] \in messages
      BY <2>1, <3>1, StepTouches DEF Touches
    <3>3. ASSUME NEW role \in {"user", "assistant"} PROVE SavedBy(k, role)' = SavedBy(k, role)
      <4>1. SavedBy(k, role) = {m \in {[turn |-> o, role |-> role]} : m \in messages}
        BY <1>1 DEF OwnerSaves
      <4>2. SavedBy(k, role)' = {m \in {[turn |-> idem'[k].turn, role |-> role]} : m \in messages'}
        BY <1>1, <2>2 DEF OwnerSaves
      <4> QED BY <2>2, <3>2, <4>1, <4>2
    <3> QED BY <3>2, <3>3
  <2> QED BY <2>2, <2>3
<1> QED BY <1>2, TurnInductive, PTL DEF Spec, AnswerIsFinal
=============================================================================
