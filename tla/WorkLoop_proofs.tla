---------------------------- MODULE WorkLoop_proofs ----------------------------
(***************************************************************************)
(* Proofs about WorkLoop, for any replies of the model and any limits: the  *)
(* types of its state, that no task has more decisions taken for it than    *)
(* its limit, that consent is spent on the call it was given for, that the  *)
(* history pairs every call with its results, and that it tells the truth   *)
(* about effects.                                                           *)
(***************************************************************************)
EXTENDS WorkLoop, TLAPS, SequenceTheorems, FiniteSetTheorems

-----------------------------------------------------------------------------
(* Histories *)

\* A message of the model carries its calls ...
LEMMA Asking ==
  ASSUME NEW cs \in SUBSET CallIds
  PROVE  /\ Assistant(cs) \in Messages /\ Assistant(cs).role = "assistant"
         /\ Assistant(cs).calls = cs /\ Assistant(cs).done = {}
  BY DEF Assistant, Messages

\* ... answers with what was done, ...
LEMMA Answering ==
  ASSUME NEW cs \in SUBSET CallIds, NEW done \in SUBSET CallIds
  PROVE  /\ Results(cs, done) \in Messages /\ Results(cs, done).role = "tool"
         /\ Results(cs, done).calls = cs /\ Results(cs, done).done = done
  BY DEF Results, Messages

\* ... and a summary with what it remembers.
LEMMA Remembering ==
  ASSUME NEW p \in SUBSET CallIds
  PROVE  /\ ProgressMessage(p) \in Messages /\ ProgressMessage(p).role = "user"
         /\ ProgressMessage(p).calls = {} /\ ProgressMessage(p).done = {}
  BY DEF ProgressMessage, Messages

\* A message is appended behind all others.
LEMMA Appended ==
  ASSUME NEW h \in Seq(Messages), NEW m \in Messages
  PROVE  /\ Append(h, m) \in Seq(Messages) /\ Len(h) \in Nat /\ Len(Append(h, m)) = Len(h) + 1
         /\ DOMAIN h = 1..Len(h) /\ DOMAIN Append(h, m) = 1..(Len(h) + 1)
         /\ \A i \in 1..Len(h) : Append(h, m)[i] = h[i] /\ h[i] \in Messages
         /\ Append(h, m)[Len(h) + 1] = m
  OBVIOUS

\* Calls of a message are calls.
LEMMA Calling ==
  ASSUME NEW h \in Seq(Messages), NEW i \in DOMAIN h
  PROVE  /\ i \in 1..Len(h) /\ Len(h) \in Nat /\ h[i] \in Messages
         /\ h[i].calls \subseteq CallIds /\ h[i].done \subseteq CallIds
         /\ \A c \in h[i].calls : c \in CallIds /\ c.round \in Nat
<1>1. i \in 1..Len(h) /\ Len(h) \in Nat /\ h[i] \in Messages OBVIOUS
<1>2. h[i].calls \subseteq CallIds /\ h[i].done \subseteq CallIds BY <1>1 DEF Messages
<1>3. \A c \in CallIds : c.round \in Nat BY DEF CallIds
<1> QED BY <1>1, <1>2, <1>3

\* The answers of a history do not bear on whether it is paired.
LEMMA PairedDone ==
  ASSUME NEW h \in Seq(Messages), NEW cs \in SUBSET CallIds, NEW done \in SUBSET CallIds,
         Paired(Append(h, Results(cs, {})))
  PROVE  Paired(Append(h, Results(cs, done)))
<1> DEFINE m == Results(cs, {})
           n == Results(cs, done)
<1>1. /\ m \in Messages /\ m.role = "tool" /\ m.calls = cs
      /\ n \in Messages /\ n.role = "tool" /\ n.calls = cs
  BY Answering, {} \in SUBSET CallIds
<1> HIDE DEF m, n
<1>2. \A i \in 1..(Len(h) + 1) : /\ Append(h, m)[i].role = Append(h, n)[i].role
                                 /\ Append(h, m)[i].calls = Append(h, n)[i].calls
  BY <1>1, Appended
<1>3. /\ Len(h) \in Nat /\ Len(Append(h, m)) = Len(h) + 1 /\ Len(Append(h, n)) = Len(h) + 1
      /\ DOMAIN Append(h, m) = 1..(Len(h) + 1) /\ DOMAIN Append(h, n) = 1..(Len(h) + 1)
  BY <1>1, Appended
<1>4. Paired(Append(h, m)) BY DEF m
<1>5. Paired(Append(h, n)) BY <1>2, <1>3, <1>4 DEF Paired
<1> QED BY <1>5 DEF n

\* A round is opened by the message that makes its calls.
LEMMA OpensRound ==
  ASSUME NEW h \in Seq(Messages), NEW r \in Nat, Closed(h, r), NEW cs \in SUBSET CallIds,
         \A c \in cs : c.round = r
  PROVE  Append(h, Assistant(cs)) \in Seq(Messages) /\ Opened(Append(h, Assistant(cs)), r, cs)
<1> DEFINE m == Assistant(cs)
           n == Results(cs, {})
           g == Append(h, m)
           k == Append(g, n)
<1>1. /\ m \in Messages /\ m.role = "assistant" /\ m.calls = cs
      /\ n \in Messages /\ n.role = "tool" /\ n.calls = cs
  BY Asking, Answering, {} \in SUBSET CallIds
<1> HIDE DEF m, n
<1>2. /\ g \in Seq(Messages) /\ Len(h) \in Nat /\ Len(g) = Len(h) + 1
      /\ DOMAIN h = 1..Len(h) /\ DOMAIN g = 1..(Len(h) + 1)
      /\ \A i \in 1..Len(h) : g[i] = h[i] /\ h[i] \in Messages
      /\ g[Len(h) + 1] = m
  BY <1>1, Appended
<1> HIDE DEF g
<1>3. /\ DOMAIN k = 1..(Len(h) + 2) /\ Len(k) = Len(h) + 2
      /\ \A i \in 1..Len(h) : k[i] = h[i]
      /\ k[Len(h) + 1] = m /\ k[Len(h) + 2] = n
  <2>1. /\ DOMAIN k = 1..(Len(g) + 1) /\ Len(k) = Len(g) + 1
        /\ \A i \in 1..Len(g) : k[i] = g[i]
        /\ k[Len(g) + 1] = n
    BY <1>1, <1>2, Appended
  <2> QED BY <1>2, <2>1
<1> HIDE DEF k
<1>4. Paired(k)
  <2>1. ASSUME NEW i \in 1..Len(h)
        PROVE  /\ k[i].role = "assistant" =>
                    i < Len(k) /\ k[i + 1].role = "tool" /\ k[i + 1].calls = k[i].calls
               /\ k[i].role = "tool" => i > 1 /\ k[i - 1].role = "assistant"
    <3>1. /\ h[i].role = "assistant" =>
                i < Len(h) /\ h[i + 1].role = "tool" /\ h[i + 1].calls = h[i].calls
          /\ h[i].role = "tool" => i > 1 /\ h[i - 1].role = "assistant"
      BY <1>2 DEF Closed, Paired
    <3>2. k[i] = h[i] /\ (i < Len(h) => k[i + 1] = h[i + 1]) /\ (i > 1 => k[i - 1] = h[i - 1])
      BY <1>2, <1>3
    <3> QED BY <1>2, <1>3, <3>1, <3>2
  <2>2. k[Len(h) + 1].role = "assistant" /\ k[Len(h) + 2].role = "tool"
        /\ k[Len(h) + 1].calls = k[Len(h) + 2].calls
    BY <1>1, <1>3
  <2>3. \A i \in 1..(Len(h) + 2) : i \in 1..Len(h) \/ i = Len(h) + 1 \/ i = Len(h) + 2
    BY <1>2
  <2> QED BY <1>2, <1>3, <2>1, <2>2, <2>3 DEF Paired
<1>5. \A i \in DOMAIN h : \A c \in h[i].calls : c.round < r BY DEF Closed
<1>6. \A i \in DOMAIN g : \A c \in g[i].calls : c.round < r \/ (i = Len(g) /\ c.round = r)
  BY <1>1, <1>2, <1>5
<1>7. RoundsOrdered(g)
  <2> SUFFICES ASSUME NEW a \in 1..(Len(h) + 1), g[a].role = "assistant",
                      NEW i \in 1..(a - 1), NEW j \in a..(Len(h) + 1),
                      NEW c \in g[i].calls, NEW d \in g[j].calls
               PROVE  c.round < d.round
    BY <1>2 DEF RoundsOrdered
  <2>1. i \in 1..Len(h) /\ g[i] = h[i] BY <1>2
  <2>2. CASE j = Len(h) + 1 BY <1>1, <1>2, <1>5, <2>1, <2>2
  <2>3. CASE j # Len(h) + 1
    <3>1. j \in 1..Len(h) /\ a \in 1..Len(h) /\ g[j] = h[j] /\ g[a] = h[a] BY <1>2, <2>3
    <3>2. j \in a..Len(h) BY <1>2, <2>3
    <3> QED BY <1>2, <2>1, <3>1, <3>2 DEF Closed, RoundsOrdered
  <2> QED BY <2>2, <2>3
<1> QED BY <1>2, <1>4, <1>6, <1>7 DEF Opened, g, k, m, n

\* ... and closed by the message that answers them.
LEMMA ClosesRound ==
  ASSUME NEW g \in Seq(Messages), NEW r \in Nat, NEW cs \in SUBSET CallIds, Opened(g, r, cs),
         NEW done \in SUBSET CallIds
  PROVE  Append(g, Results(cs, done)) \in Seq(Messages) /\ Closed(Append(g, Results(cs, done)), r + 1)
<1> DEFINE n == Results(cs, done)
           k == Append(g, n)
<1>1. n \in Messages /\ n.role = "tool" /\ n.calls = cs BY Answering
<1>2. Paired(k) BY PairedDone DEF Opened
<1> HIDE DEF n
<1>3. /\ k \in Seq(Messages) /\ Len(g) \in Nat /\ Len(k) = Len(g) + 1
      /\ DOMAIN g = 1..Len(g) /\ DOMAIN k = 1..(Len(g) + 1)
      /\ \A i \in 1..Len(g) : k[i] = g[i] /\ g[i] \in Messages
      /\ k[Len(g) + 1] = n
  BY <1>1, Appended
<1> HIDE DEF k
<1>4. /\ \A i \in 1..Len(g) : \A c \in g[i].calls :
           c.round \in Nat /\ (c.round < r \/ (i = Len(g) /\ c.round = r))
      /\ \A c \in cs : c.round = r
  BY <1>3, Calling DEF Opened
<1>5. \A i \in DOMAIN k : \A c \in k[i].calls : c.round < r + 1
  <2>1. ASSUME NEW i \in 1..Len(g), NEW c \in g[i].calls PROVE c.round < r + 1 BY <1>4
  <2>2. \A c \in cs : c.round < r + 1 BY <1>4
  <2> QED BY <1>1, <1>3, <2>1, <2>2
<1>6. RoundsOrdered(k)
  <2> SUFFICES ASSUME NEW a \in 1..(Len(g) + 1), k[a].role = "assistant",
                      NEW i \in 1..(a - 1), NEW j \in a..(Len(g) + 1),
                      NEW c \in k[i].calls, NEW d \in k[j].calls
               PROVE  c.round < d.round
    BY <1>3 DEF RoundsOrdered
  <2>1. a # Len(g) + 1 BY <1>1, <1>3
  <2>2. /\ a \in 1..Len(g) /\ i \in 1..Len(g) /\ i < Len(g) /\ k[i] = g[i] /\ k[a] = g[a]
    BY <1>3, <2>1
  <2>3. CASE j = Len(g) + 1
    <3>1. c.round < r BY <1>4, <2>2
    <3>2. d.round = r BY <1>1, <1>3, <1>4, <2>3
    <3> QED BY <3>1, <3>2
  <2>4. CASE j # Len(g) + 1
    <3>1. j \in a..Len(g) /\ j \in 1..Len(g) /\ k[j] = g[j] BY <1>3, <2>4
    <3> QED BY <1>3, <2>2, <3>1 DEF Opened, RoundsOrdered
  <2> QED BY <2>3, <2>4
<1> QED BY <1>2, <1>3, <1>5, <1>6 DEF Closed, k, n

\* The history kept behind a summary.
Kept(h, b, p) == <<ProgressMessage(p)>> \o SubSeq(h, b, Len(h))

\* A summary stands before the messages that are kept.
LEMMA KeptShape ==
  ASSUME NEW h \in Seq(Messages), NEW b \in DOMAIN h, NEW p \in SUBSET CallIds
  PROVE  /\ Kept(h, b, p) \in Seq(Messages) /\ Len(h) \in Nat /\ b \in 1..Len(h)
         /\ Len(Kept(h, b, p)) = (Len(h) - b) + 2
         /\ DOMAIN Kept(h, b, p) = 1..((Len(h) - b) + 2)
         /\ Kept(h, b, p)[1] = ProgressMessage(p)
         /\ \A i \in 2..((Len(h) - b) + 2) :
              Kept(h, b, p)[i] = h[(b + i) - 2] /\ (b + i) - 2 \in b..Len(h)
<1>1. /\ Len(h) \in Nat /\ b \in 1..Len(h) /\ \A i \in b..Len(h) : h[i] \in Messages OBVIOUS
<1> DEFINE s == SubSeq(h, b, Len(h))
           one == <<ProgressMessage(p)>>
<1>2. /\ s \in Seq(Messages) /\ Len(s) = (Len(h) - b) + 1
      /\ \A i \in 1..((Len(h) - b) + 1) : s[i] = h[(b + i) - 1]
  BY <1>1, SubSeqProperties
<1>3. one \in Seq(Messages) /\ Len(one) = 1 /\ one[1] = ProgressMessage(p) BY Remembering
<1> HIDE DEF s, one
<1>4. /\ one \o s \in Seq(Messages) /\ Len(one \o s) = Len(one) + Len(s)
      /\ \A i \in 1..(Len(one) + Len(s)) :
           (one \o s)[i] = IF i <= Len(one) THEN one[i] ELSE s[i - Len(one)]
  BY <1>2, <1>3, ConcatProperties
<1> DEFINE g == one \o s
<1>5. g = Kept(h, b, p) BY DEF Kept, s, one
<1> HIDE DEF g
<1>6. /\ g \in Seq(Messages) /\ Len(g) = (Len(h) - b) + 2 /\ DOMAIN g = 1..Len(g)
      /\ \A i \in 1..Len(g) : g[i] = IF i <= 1 THEN one[i] ELSE s[i - 1]
  BY <1>1, <1>2, <1>3, <1>4 DEF g
<1>7. g[1] = ProgressMessage(p) BY <1>1, <1>3, <1>6
<1>8. ASSUME NEW i \in 2..((Len(h) - b) + 2)
      PROVE  g[i] = h[(b + i) - 2] /\ (b + i) - 2 \in b..Len(h)
  <2>1. g[i] = s[i - 1] BY <1>1, <1>6
  <2>2. i - 1 \in 1..((Len(h) - b) + 1) BY <1>1
  <2>3. s[i - 1] = h[(b + (i - 1)) - 1] BY <1>2, <2>2
  <2>4. (b + (i - 1)) - 1 = (b + i) - 2 /\ (b + i) - 2 \in b..Len(h) BY <1>1
  <2> QED BY <2>1, <2>3, <2>4
<1> QED BY <1>1, <1>5, <1>6, <1>7, <1>8

\* Positions keep their order behind a summary.
LEMMA Shifted ==
  \A x, y, n \in Int : /\ (n + x) - 2 \in Int
                       /\ x <= y => (n + x) - 2 <= (n + y) - 2
                       /\ x <= y - 1 => (n + x) - 2 <= ((n + y) - 2) - 1
  OBVIOUS

\* What is kept from an assistant message on is a history at the head of a round.
LEMMA KeptClosed ==
  ASSUME NEW h \in Seq(Messages), NEW r \in Nat, Closed(h, r), NEW b \in DOMAIN h,
         h[b].role = "assistant", NEW p \in SUBSET CallIds
  PROVE  Closed(Kept(h, b, p), r)
<1> DEFINE g == Kept(h, b, p)
<1>1. /\ Len(h) \in Nat /\ b \in 1..Len(h) /\ Len(g) = (Len(h) - b) + 2 /\ DOMAIN g = 1..Len(g)
      /\ g[1] = ProgressMessage(p) /\ DOMAIN h = 1..Len(h)
      /\ \A i \in 2..Len(g) : g[i] = h[(b + i) - 2] /\ (b + i) - 2 \in b..Len(h)
  BY KeptShape
<1>2. g[1].role = "user" /\ g[1].calls = {} BY <1>1, Remembering
<1> HIDE DEF g
<1>3. \A i \in DOMAIN h :
        /\ h[i].role = "assistant" =>
             i < Len(h) /\ h[i + 1].role = "tool" /\ h[i + 1].calls = h[i].calls
        /\ h[i].role = "tool" => i > 1 /\ h[i - 1].role = "assistant"
  BY DEF Closed, Paired
<1>4. Paired(g)
  <2>1. ASSUME NEW i \in 2..Len(g)
        PROVE  /\ g[i].role = "assistant" =>
                    i < Len(g) /\ g[i + 1].role = "tool" /\ g[i + 1].calls = g[i].calls
               /\ g[i].role = "tool" => i > 1 /\ g[i - 1].role = "assistant"
    <3>1. PICK j \in b..Len(h) : j = (b + i) - 2 /\ g[i] = h[j] /\ j \in DOMAIN h BY <1>1
    <3>2. ASSUME g[i].role = "assistant"
          PROVE  i < Len(g) /\ g[i + 1].role = "tool" /\ g[i + 1].calls = g[i].calls
      <4>1. j < Len(h) /\ h[j + 1].role = "tool" /\ h[j + 1].calls = h[j].calls BY <1>3, <3>1, <3>2
      <4>2. i + 1 \in 2..Len(g) /\ (b + (i + 1)) - 2 = j + 1
        <5>1. /\ i \in Int /\ j \in Int /\ b \in Int /\ Len(h) \in Int /\ i >= 2
              /\ j = (b + i) - 2 /\ j < Len(h) /\ Len(g) = (Len(h) - b) + 2
          BY <1>1, <3>1, <4>1
        <5> QED BY <5>1
      <4>3. g[i + 1] = h[j + 1] BY <1>1, <4>2
      <4> QED BY <1>1, <3>1, <4>1, <4>2, <4>3
    <3>3. ASSUME g[i].role = "tool" PROVE i > 1 /\ g[i - 1].role = "assistant"
      <4>1. j > 1 /\ h[j - 1].role = "assistant" BY <1>3, <3>1, <3>3
      <4>2. j # b BY <3>1, <3>3
      <4>3. i - 1 \in 2..Len(g) /\ (b + (i - 1)) - 2 = j - 1 BY <1>1, <3>1, <4>2
      <4>4. g[i - 1] = h[j - 1] BY <1>1, <4>3
      <4> QED BY <1>1, <4>1, <4>4
    <3> QED BY <3>2, <3>3
  <2>2. \A i \in 1..Len(g) : i = 1 \/ i \in 2..Len(g) BY <1>1
  <2> QED BY <1>1, <1>2, <2>1, <2>2 DEF Paired
<1>5. ASSUME NEW i \in DOMAIN g, NEW c \in g[i].calls
      PROVE  i \in 2..Len(g) /\ c.round < r
  <2>1. i \in 2..Len(g) BY <1>1, <1>2
  <2>2. g[i] = h[(b + i) - 2] /\ (b + i) - 2 \in DOMAIN h BY <1>1, <2>1
  <2> QED BY <2>1, <2>2 DEF Closed
<1>6. RoundsOrdered(g)
  <2> SUFFICES ASSUME NEW a \in 1..Len(g), g[a].role = "assistant",
                      NEW i \in 1..(a - 1), NEW j \in a..Len(g),
                      NEW c \in g[i].calls, NEW d \in g[j].calls
               PROVE  c.round < d.round
    BY <1>1 DEF RoundsOrdered
  <2>1. a \in DOMAIN g /\ i \in DOMAIN g /\ j \in DOMAIN g BY <1>1
  <2>2. i \in 2..Len(g) /\ j \in 2..Len(g) /\ a \in 2..Len(g) BY <1>1, <1>5, <2>1
  <2> DEFINE a1 == (b + a) - 2
             i1 == (b + i) - 2
             j1 == (b + j) - 2
  <2>3. /\ g[a] = h[a1] /\ g[i] = h[i1] /\ g[j] = h[j1]
        /\ a1 \in b..Len(h) /\ i1 \in b..Len(h) /\ j1 \in b..Len(h)
    BY <1>1, <2>2
  <2>4. a1 \in DOMAIN h /\ i1 \in 1..(a1 - 1) /\ j1 \in a1..Len(h)
    <3>1. /\ a \in Int /\ i \in Int /\ j \in Int /\ b \in Int /\ i <= a - 1 /\ a <= j
          /\ Len(h) \in Nat /\ b >= 1 /\ DOMAIN h = 1..Len(h)
      BY <1>1, <2>2
    <3>2. a1 \in Int /\ i1 \in Int /\ j1 \in Int /\ i1 <= a1 - 1 /\ a1 <= j1
      <4>1. i1 \in Int /\ a1 \in Int /\ i1 <= a1 - 1 BY <3>1, Shifted
      <4>2. j1 \in Int /\ a1 <= j1 BY <3>1, Shifted
      <4> QED BY <4>1, <4>2
    <3>3. i1 >= 1 /\ a1 >= 1 /\ a1 <= Len(h) /\ j1 <= Len(h)
      <4> HIDE DEF a1, i1, j1
      <4> QED BY <2>3, <3>1
    <3> HIDE DEF a1, i1, j1
    <3> QED BY <3>1, <3>2, <3>3
  <2> HIDE DEF a1, i1, j1
  <2> QED BY <2>3, <2>4 DEF Closed, RoundsOrdered
<1>7. Closed(g, r) BY <1>4, <1>5, <1>6 DEF Closed
<1> QED BY <1>7 DEF g

\* What is reported stays reported when a round is opened, ...
LEMMA ReportedOpen ==
  ASSUME NEW h \in Seq(Messages), NEW r \in Nat, NEW cs \in SUBSET CallIds,
         \A c \in cs : c.round = r, NEW e \in CallIds, Reported(h, r, e)
  PROVE  Reported(Append(h, Assistant(cs)), r, e)
<1> DEFINE m == Assistant(cs)
           g == Append(h, m)
<1>1. m \in Messages /\ m.calls = cs BY Asking
<1> HIDE DEF m
<1>2. /\ Len(h) \in Nat /\ DOMAIN h = 1..Len(h) /\ DOMAIN g = 1..(Len(h) + 1)
      /\ \A i \in 1..Len(h) : g[i] = h[i] /\ g[Len(h) + 1] = m
  BY <1>1, Appended
<1>3. g[Len(h) + 1] = m BY <1>1, Appended
<1> HIDE DEF g
<1>4. CASE \E i \in DOMAIN h : e \in h[i].done
  <2>1. PICK i \in 1..Len(h) : e \in h[i].done BY <1>2, <1>4
  <2> QED BY <1>2, <2>1 DEF Reported, g, m
<1>5. CASE e.round < r /\ \A i \in DOMAIN h : \A d \in h[i].calls : d.round > e.round
  <2>1. e.round \in Nat BY DEF CallIds
  <2>2. \A d \in cs : d.round > e.round BY <1>5, <2>1
  <2>3. ASSUME NEW i \in 1..(Len(h) + 1), NEW d \in g[i].calls PROVE d.round > e.round
    <3>1. CASE i = Len(h) + 1 BY <1>1, <1>3, <2>2, <2>3, <3>1
    <3>2. CASE i # Len(h) + 1
      <4>1. i \in 1..Len(h) BY <1>2, <3>2
      <4> QED BY <1>2, <1>5, <2>3, <4>1
    <3> QED BY <3>1, <3>2
  <2> QED BY <1>2, <1>5, <2>3 DEF Reported, g, m
<1> QED BY <1>4, <1>5 DEF Reported

\* ... when it is closed, by which its own effects are reported, ...
LEMMA ReportedClose ==
  ASSUME NEW h \in Seq(Messages), NEW r \in Nat, NEW cs \in SUBSET CallIds,
         \A c \in cs : c.round = r, NEW done \in SUBSET CallIds,
         NEW e \in CallIds, Reported(h, r, e) \/ e \in done
  PROVE  Reported(Append(h, Results(cs, done)), r + 1, e)
<1> DEFINE m == Results(cs, done)
           g == Append(h, m)
<1>1. m \in Messages /\ m.calls = cs /\ m.done = done BY Answering
<1> HIDE DEF m
<1>2. /\ Len(h) \in Nat /\ DOMAIN h = 1..Len(h) /\ DOMAIN g = 1..(Len(h) + 1)
      /\ \A i \in 1..Len(h) : g[i] = h[i]
      /\ g[Len(h) + 1] = m
  BY <1>1, Appended
<1> HIDE DEF g
<1>3. CASE e \in done
  <2>1. Len(h) + 1 \in DOMAIN g /\ e \in g[Len(h) + 1].done BY <1>1, <1>2, <1>3
  <2> QED BY <2>1 DEF Reported, g, m
<1>4. CASE \E i \in DOMAIN h : e \in h[i].done
  <2>1. PICK i \in 1..Len(h) : e \in h[i].done BY <1>2, <1>4
  <2> QED BY <1>2, <2>1 DEF Reported, g, m
<1>5. CASE e.round < r /\ \A i \in DOMAIN h : \A d \in h[i].calls : d.round > e.round
  <2>1. e.round \in Nat /\ e.round < r + 1 BY <1>5 DEF CallIds
  <2>2. \A d \in cs : d.round > e.round BY <1>5, <2>1
  <2>3. ASSUME NEW i \in 1..(Len(h) + 1), NEW d \in g[i].calls PROVE d.round > e.round
    <3>1. CASE i = Len(h) + 1 BY <1>1, <1>2, <2>2, <2>3, <3>1
    <3>2. CASE i # Len(h) + 1
      <4>1. i \in 1..Len(h) BY <1>2, <3>2
      <4> QED BY <1>2, <1>5, <2>3, <4>1
    <3> QED BY <3>1, <3>2
  <2> QED BY <1>2, <2>1, <2>3 DEF Reported, g, m
<1> QED BY <1>3, <1>4, <1>5 DEF Reported

\* ... and when what came before a round is summarised.
LEMMA ReportedKept ==
  ASSUME NEW h \in Seq(Messages), NEW r \in Nat, Closed(h, r), NEW b \in DOMAIN h,
         h[b].role = "assistant", NEW p \in SUBSET CallIds, NEW effects, Truthful(h, effects),
         NEW e \in CallIds, Reported(h, r, e)
  PROVE  Reported(Kept(h, b, p), r, e)
<1> DEFINE g == Kept(h, b, p)
<1>1. /\ Len(h) \in Nat /\ b \in 1..Len(h) /\ DOMAIN g = 1..((Len(h) - b) + 2)
      /\ g[1] = ProgressMessage(p) /\ DOMAIN h = 1..Len(h)
      /\ \A i \in 2..((Len(h) - b) + 2) : g[i] = h[(b + i) - 2] /\ (b + i) - 2 \in b..Len(h)
  BY KeptShape
<1>2. g[1].calls = {} BY <1>1, Remembering
<1> HIDE DEF g
<1>3. ASSUME NEW k \in DOMAIN g, NEW d \in g[k].calls
      PROVE  \E j \in b..Len(h) : d \in h[j].calls
  <2>1. k \in 2..((Len(h) - b) + 2) BY <1>1, <1>2, <1>3
  <2> QED BY <1>1, <1>3, <2>1
<1>4. CASE \E i \in DOMAIN h : e \in h[i].done
  <2>1. PICK i \in 1..Len(h) : e \in h[i].done /\ i \in DOMAIN h BY <1>1, <1>4
  <2>2. e \in h[i].calls BY <2>1 DEF Truthful
  <2>3. CASE i >= b
    <3>1. (i + 2) - b \in 2..((Len(h) - b) + 2) /\ (b + ((i + 2) - b)) - 2 = i BY <1>1, <2>1, <2>3
    <3>2. (i + 2) - b \in DOMAIN g BY <1>1, <3>1
    <3>3. g[(i + 2) - b] = h[i] BY <1>1, <3>1
    <3> QED BY <2>1, <3>2, <3>3 DEF Reported, g
  <2>4. CASE i < b
    <3>1. e.round < r BY <2>1, <2>2 DEF Closed
    <3>2. i \in 1..(b - 1) BY <1>1, <2>1, <2>4
    <3>3. \A j \in b..Len(h) : \A d \in h[j].calls : e.round < d.round
      BY <2>2, <3>2 DEF Closed, RoundsOrdered
    <3>4. ASSUME NEW k \in DOMAIN g, NEW d \in g[k].calls PROVE d.round > e.round
      <4>1. PICK j \in b..Len(h) : d \in h[j].calls BY <1>3
      <4>2. j \in DOMAIN h BY <1>1, <4>1
      <4>3. d.round \in Nat /\ e.round \in Nat BY <4>1, <4>2, Calling DEF CallIds
      <4> QED BY <3>3, <4>1, <4>3
    <3> QED BY <3>1, <3>4 DEF Reported, g
  <2> QED BY <1>1, <2>1, <2>3, <2>4
<1>5. CASE e.round < r /\ \A i \in DOMAIN h : \A d \in h[i].calls : d.round > e.round
  <2>1. ASSUME NEW k \in DOMAIN g, NEW d \in g[k].calls PROVE d.round > e.round
    <3>1. PICK j \in b..Len(h) : d \in h[j].calls BY <1>3
    <3>2. j \in DOMAIN h BY <1>1, <3>1
    <3> QED BY <1>5, <3>1, <3>2
  <2> QED BY <1>5, <2>1 DEF Reported, g
<1> QED BY <1>4, <1>5 DEF Reported

\* A history stays truthful when a round is opened, ...
LEMMA TruthfulOpen ==
  ASSUME NEW h \in Seq(Messages), NEW cs \in SUBSET CallIds, NEW effects, Truthful(h, effects)
  PROVE  Truthful(Append(h, Assistant(cs)), effects)
<1> DEFINE m == Assistant(cs)
           g == Append(h, m)
<1>1. m \in Messages /\ m.done = {} BY Asking
<1> HIDE DEF m
<1>2. /\ Len(h) \in Nat /\ DOMAIN h = 1..Len(h) /\ DOMAIN g = 1..(Len(h) + 1)
      /\ \A i \in 1..Len(h) : g[i] = h[i]
      /\ g[Len(h) + 1] = m
  BY <1>1, Appended
<1> HIDE DEF g
<1>3. ASSUME NEW i \in DOMAIN g, NEW c \in g[i].done
      PROVE  i \in 1..Len(h) /\ c \in h[i].done /\ g[i] = h[i]
  BY <1>1, <1>2
<1> QED BY <1>2, <1>3 DEF Truthful, g, m

\* ... when it is closed with effects and decisions of its calls, ...
LEMMA TruthfulClose ==
  ASSUME NEW h \in Seq(Messages), NEW cs \in SUBSET CallIds, NEW done \in SUBSET cs,
         NEW effects, Truthful(h, effects), NEW now, effects \subseteq now,
         \A c \in done : c.kind = "decide" \/ \E e \in now : e.call = c
  PROVE  Truthful(Append(h, Results(cs, done)), now)
<1> DEFINE m == Results(cs, done)
           g == Append(h, m)
<1>1. m \in Messages /\ m.done = done /\ m.calls = cs BY Answering, done \in SUBSET CallIds
<1> HIDE DEF m
<1>2. /\ Len(h) \in Nat /\ DOMAIN h = 1..Len(h) /\ DOMAIN g = 1..(Len(h) + 1)
      /\ \A i \in 1..Len(h) : g[i] = h[i]
      /\ g[Len(h) + 1] = m
  BY <1>1, Appended
<1> HIDE DEF g
<1>3. ASSUME NEW i \in DOMAIN g, NEW c \in g[i].done
      PROVE  c \in g[i].calls /\ (c.kind = "decide" \/ \E e \in now : e.call = c)
  <2>1. CASE i = Len(h) + 1 BY <1>1, <1>2, <1>3, <2>1
  <2>2. CASE i # Len(h) + 1
    <3>1. i \in DOMAIN h /\ g[i] = h[i] BY <1>2, <2>2
    <3> QED BY <1>3, <3>1 DEF Truthful
  <2> QED BY <2>1, <2>2
<1> QED BY <1>3 DEF Truthful, g, m

\* ... and when what came before a round is summarised.
LEMMA TruthfulKept ==
  ASSUME NEW h \in Seq(Messages), NEW b \in DOMAIN h, NEW p \in SUBSET CallIds,
         NEW effects, Truthful(h, effects)
  PROVE  Truthful(Kept(h, b, p), effects)
<1> DEFINE g == Kept(h, b, p)
<1>1. /\ Len(h) \in Nat /\ b \in 1..Len(h) /\ DOMAIN g = 1..((Len(h) - b) + 2)
      /\ g[1] = ProgressMessage(p) /\ DOMAIN h = 1..Len(h)
      /\ \A i \in 2..((Len(h) - b) + 2) : g[i] = h[(b + i) - 2] /\ (b + i) - 2 \in b..Len(h)
  BY KeptShape
<1>2. g[1].done = {} BY <1>1, Remembering
<1> HIDE DEF g
<1>3. ASSUME NEW i \in DOMAIN g, NEW c \in g[i].done
      PROVE  c \in g[i].calls /\ (c.kind = "decide" \/ \E e \in effects : e.call = c)
  <2>1. i \in 2..((Len(h) - b) + 2) BY <1>1, <1>2, <1>3
  <2>2. PICK j \in b..Len(h) : g[i] = h[j] BY <1>1, <2>1
  <2>3. j \in DOMAIN h BY <1>1, <2>2
  <2> QED BY <1>3, <2>2, <2>3 DEF Truthful
<1> QED BY <1>3 DEF Truthful, g

-----------------------------------------------------------------------------
(* Calls of a reply *)

\* The calls of a reply belong to the round in which it is made.
LEMMA Calls ==
  ASSUME TypeOK, NEW ks \in Replies
  PROVE  /\ ks \in Seq(CallKinds) /\ Len(ks) \in Nat /\ DOMAIN ks = 1..Len(ks)
         /\ \A i \in DOMAIN ks : /\ ks[i] \in CallKinds /\ Called(ks)[i] \in CallIds
                                 /\ Called(ks)[i].round = round /\ Called(ks)[i].kind = ks[i]
         /\ CallSet(ks) \in SUBSET CallIds /\ \A c \in CallSet(ks) : c.round = round
<1>1. ks \in Seq(CallKinds) BY LoopAssumption
<1>2. Len(ks) \in Nat /\ DOMAIN ks = 1..Len(ks) /\ \A i \in DOMAIN ks : ks[i] \in CallKinds
  BY <1>1
<1>3. round \in Nat BY LoopAssumption DEF TypeOK
<1>4. ASSUME NEW i \in DOMAIN ks
      PROVE  /\ Called(ks)[i] \in CallIds /\ Called(ks)[i].round = round /\ Called(ks)[i].kind = ks[i]
  <2>1. Called(ks)[i] = [round |-> round, n |-> i, kind |-> ks[i]] BY DEF Called
  <2>2. i \in Nat BY <1>2
  <2> QED BY <1>2, <1>3, <2>1, <2>2 DEF CallIds
<1> QED BY <1>1, <1>2, <1>4 DEF CallSet

\* Without an approval in force, what is executed needs no consent (ClassifyCall).
LEMMA Executable ==
  ASSUME NEW kind, NEW p, NEW exists, ClassifyCall(kind, p, None, exists) = "execute"
  PROVE  ~NeedsConsent(kind, exists)
<1>1. \A k \in ApprovalKinds : ~ApprovalSatisfied(None, k, kind)
  BY DEF ApprovalSatisfied, None, ApprovalKinds
<1>2. ~ApprovalSatisfied(None, "destructive_write", kind) /\ ~ApprovalSatisfied(None, "sensitive_read", kind)
  BY <1>1 DEF ApprovalKinds
<1>3. kind # "hooked" BY DEF ClassifyCall
<1>4. kind # "sensitive" BY <1>2 DEF ClassifyCall
<1>5. Required(kind, exists) # "approved-destructive" BY <1>2 DEF ClassifyCall
<1> QED BY <1>3, <1>4, <1>5 DEF NeedsConsent

\* A function on an initial segment is a sequence.
LEMMA FunctionIsSeq ==
  ASSUME NEW S, NEW n \in Nat, NEW f \in [1..n -> S]
  PROVE  f \in Seq(S)
  BY SeqDef

\* Every call is classified, and those to be executed need no consent.
LEMMA ClassifiedSound ==
  ASSUME TypeOK, NEW ks \in Replies
  PROVE  /\ Classified(ks) \in Seq([call : CallIds, existed : BOOLEAN, action : Actions])
         /\ DOMAIN Classified(ks) = DOMAIN ks
         /\ \A i \in DOMAIN ks :
              /\ Classified(ks)[i].call = Called(ks)[i]
              /\ Classified(ks)[i].action = "execute" =>
                   ~NeedsConsent(Classified(ks)[i].call.kind, Classified(ks)[i].existed)
<1>1. \A kind, p, g, exists : ClassifyCall(kind, p, g, exists) \in Actions
  BY DEF ClassifyCall, Actions
<1>2. ASSUME NEW i \in DOMAIN ks
      PROVE  /\ Classified(ks)[i] \in [call : CallIds, existed : BOOLEAN, action : Actions]
             /\ Classified(ks)[i].call = Called(ks)[i]
             /\ Classified(ks)[i].action = "execute" =>
                  ~NeedsConsent(Classified(ks)[i].call.kind, Classified(ks)[i].existed)
  <2>1. Classified(ks)[i] = [call |-> Called(ks)[i], existed |-> file,
                             action |-> ClassifyCall(ks[i], scope, LoopApproval, file)]
    BY DEF Classified
  <2> DEFINE action == ClassifyCall(ks[i], scope, LoopApproval, file)
  <2>2. /\ action \in Actions /\ Called(ks)[i] \in CallIds /\ Called(ks)[i].kind = ks[i]
        /\ file \in BOOLEAN
    BY <1>1, Calls DEF TypeOK
  <2>3. action = "execute" => ~NeedsConsent(ks[i], file) BY Executable DEF LoopApproval
  <2> HIDE DEF action
  <2>4. Classified(ks)[i] = [call |-> Called(ks)[i], existed |-> file, action |-> action]
    BY <2>1 DEF action
  <2> QED BY <2>2, <2>3, <2>4
<1>3. DOMAIN Classified(ks) = DOMAIN ks /\ DOMAIN ks = 1..Len(ks) /\ Len(ks) \in Nat
  BY Calls DEF Classified
<1>4. Classified(ks) = [i \in 1..Len(ks) |-> Classified(ks)[i]] BY <1>3 DEF Classified
<1>5. Classified(ks) \in [1..Len(ks) -> [call : CallIds, existed : BOOLEAN, action : Actions]]
  BY <1>2, <1>3, <1>4
<1>6. Classified(ks) \in Seq([call : CallIds, existed : BOOLEAN, action : Actions])
  <2> DEFINE S == [call : CallIds, existed : BOOLEAN, action : Actions]
  <2>1. Classified(ks) \in [1..Len(ks) -> S] /\ Len(ks) \in Nat BY <1>3, <1>5
  <2> HIDE DEF S
  <2>2. Classified(ks) \in Seq(S) BY <2>1, FunctionIsSeq
  <2> QED BY <2>2 DEF S
<1> QED BY <1>2, <1>3, <1>6

-----------------------------------------------------------------------------
(* Where a step leaves the loop *)

\* A task that ends, or whose pause is lost, keeps everything else.
LEMMA EndKeeps ==
  ASSUME LoopInv,
         \/ phase \in {"check", "ask"} /\ phase' = "reported"
         \/ phase = "paused" /\ phase' = "lost",
         UNCHANGED <<brief, scope, round, history, progress, escalations, calls, at, ran,
                     pending, grant, file, edits, allowed, log, routed>>
  PROVE  LoopInv'
<1>1. TypeOK' BY DEF LoopInv, TypeOK
<1>2. LoopSound' BY DEF LoopInv, LoopSound
<1>3. RoutedCounted' BY DEF LoopInv, RoutedCounted
<1>4. ConsentSpentOnce' /\ RunningAllowed' BY DEF LoopInv, ConsentSpentOnce, RunningAllowed
<1>5. HistorySound' BY DEF HistorySound
<1>6. EffectsKept' BY DEF LoopInv, EffectsKept
<1> QED BY <1>1, <1>2, <1>3, <1>4, <1>5, <1>6 DEF LoopInv

\* The next iteration starts with a closed history that reports every effect.
LEMMA NextKeeps ==
  ASSUME LoopInv, phase' = "check", round < MaxToolRounds, round' = round + 1,
         history' \in Seq(Messages), Closed(history', round'),
         Truthful(history', log'), \A e \in log' : Reported(history', round', e.call),
         progress' = progress, escalations' \in 0..MaxEscalations,
         brief' = brief, scope' \in ScopeNames, calls' = <<>>, at' = 1, ran' = {},
         pending' = None, file' \in BOOLEAN, edits' = edits,
         RoutedCounted', ConsentSpentOnce', log' \subseteq [call : CallIds, gated : BOOLEAN]
  PROVE  LoopInv'
<1>1. round' \in 0..MaxToolRounds BY LoopAssumption DEF LoopInv, TypeOK
<1>2. /\ Len(calls') = 0 /\ DOMAIN calls' = {}
      /\ calls' \in Seq([call : CallIds, existed : BOOLEAN, action : Actions])
  OBVIOUS
<1>3. TypeOK' BY <1>1, <1>2 DEF LoopInv, TypeOK
<1>4. LoopSound' BY <1>2 DEF LoopSound
<1>5. RunningAllowed' BY <1>2 DEF RunningAllowed
<1>6. HistorySound' BY DEF HistorySound
<1>7. EffectsKept' BY DEF EffectsKept
<1> QED BY <1>3, <1>4, <1>5, <1>6, <1>7 DEF LoopInv

\* A round is begun: the history is open, and the calls in hand belong to it.
LEMMA BeginKeeps ==
  ASSUME LoopInv, phase = "ask", phase' \in {"run", "paused"},
         NEW cs \in SUBSET CallIds, \A c \in cs : c.round = round,
         history' = Append(history, Assistant(cs)),
         phase' = "run" => cs = CurrentCalls',
         phase' = "paused" => cs = {pending'.call},
         progress' = progress \/ progress' = {}, escalations' \in 0..MaxEscalations,
         calls' \in Seq([call : CallIds, existed : BOOLEAN, action : Actions]),
         phase' = "paused" => calls' = <<>>, RunningAllowed',
         IF phase' = "paused" THEN pending' \in PausedCalls ELSE pending' = None,
         phase' = "paused" /\ pending'.kind = "decision" => pending'.call.kind = "decide",
         RoutedCounted',
         UNCHANGED <<brief, scope, round, at, ran, file, edits, allowed, log>>
  PROVE  LoopInv'
<1>1. /\ history \in Seq(Messages) /\ round \in Nat /\ Closed(history, round)
      /\ Truthful(history, log) /\ \A e \in log : e.call \in CallIds /\ Reported(history, round, e.call)
  BY LoopAssumption DEF LoopInv, TypeOK, LoopSound, HistorySound, EffectsKept
<1>2. history' \in Seq(Messages) /\ Opened(history', round, cs) BY <1>1, OpensRound
<1>3. Truthful(history', log) BY <1>1, TruthfulOpen
<1>4. \A e \in log : Reported(history', round, e.call) BY <1>1, ReportedOpen
<1>5. pending' = None <=> phase' \notin {"paused", "lost"}
  <2>1. None \notin PausedCalls BY DEF None, PausedCalls
  <2> QED BY <2>1
<1>6. at = 1 /\ ran = {} BY DEF LoopInv, LoopSound
<1>7. 1 \in 1..(Len(calls') + 1) OBVIOUS
<1>8. TypeOK' BY <1>2, <1>5, <1>6, <1>7 DEF LoopInv, TypeOK
<1>9. LoopSound' BY <1>6 DEF LoopInv, LoopSound
<1>10. ConsentSpentOnce' BY DEF LoopInv, ConsentSpentOnce
<1>11. HistorySound' BY <1>2 DEF HistorySound
<1>12. EffectsKept' BY <1>3, <1>4, <1>6 DEF EffectsKept
<1> QED BY <1>8, <1>9, <1>10, <1>11, <1>12 DEF LoopInv

\* One more decision is counted.
LEMMA Routes ==
  ASSUME LoopInv, NEW c, routed' = routed \cup {c}, escalations < MaxEscalations,
         escalations' = escalations + 1
  PROVE  RoutedCounted' /\ escalations' \in 0..MaxEscalations
<1>1. /\ IsFiniteSet(routed) /\ Cardinality(routed) <= escalations /\ Cardinality(routed) \in Nat
      /\ escalations \in Nat /\ MaxEscalations \in Nat
  BY FS_CardinalityType, LoopAssumption DEF LoopInv, RoutedCounted, TypeOK
<1>2. /\ IsFiniteSet(routed \cup {c})
      /\ Cardinality(routed \cup {c}) = IF c \in routed THEN Cardinality(routed) ELSE Cardinality(routed) + 1
  BY <1>1, FS_AddElement
<1>3. Cardinality(routed \cup {c}) <= escalations + 1 BY <1>1, <1>2
<1> QED BY <1>1, <1>2, <1>3 DEF RoutedCounted

-----------------------------------------------------------------------------
(* The steps of the loop *)

\* A summary before the kept rounds changes nothing that is said of the history (Prompt,
\* compressWorkContext, findKeepBoundary).
LEMMA PromptKeeps == LoopInv /\ Prompt => LoopInv'
<1> SUFFICES ASSUME LoopInv, Prompt PROVE LoopInv' OBVIOUS
<1>1. /\ phase = "check" /\ phase' = "ask" /\ round < MaxToolRounds
      /\ UNCHANGED <<brief, scope, round, escalations, calls, at, ran, pending, grant, file, edits,
                     allowed, log, routed>>
      /\ Compress \/ UNCHANGED <<history, progress>>
  BY DEF Prompt, HasRounds, running
<1>2. /\ history \in Seq(Messages) /\ round \in Nat /\ Closed(history, round)
      /\ Truthful(history, log) /\ progress \subseteq CallIds
      /\ \A e \in log : e.call \in CallIds /\ Reported(history, round, e.call)
  BY <1>1, LoopAssumption DEF LoopInv, TypeOK, LoopSound, HistorySound, EffectsKept
<1>3. /\ history' \in Seq(Messages) /\ Closed(history', round) /\ Truthful(history', log)
      /\ progress' \subseteq CallIds /\ \A e \in log : Reported(history', round, e.call)
  <2>1. CASE UNCHANGED <<history, progress>> BY <1>2, <2>1
  <2>2. CASE Compress
    <3> DEFINE b == KeepBoundary(history)
               delta == SubSeq(history, 1, b - 1)
    <3>1. /\ DOMAIN delta # {}
          /\ \E mentioned \in SUBSET Decisions(delta) : progress' = progress \cup mentioned
          /\ history' = Kept(history, b, progress')
      BY <2>2 DEF Compress, Summarised, Kept
    <3>2. b = 1 \/ (b \in DOMAIN history /\ history[b].role = "assistant")
      BY DEF KeepBoundary
    <3>3. b # 1
      <4> SUFFICES ASSUME b = 1 PROVE FALSE OBVIOUS
      <4>1. delta = <<>> BY SubSeqEmpty
      <4> HIDE DEF delta
      <4> QED BY <3>1, <4>1
    <3> HIDE DEF b
    <3>4. b \in DOMAIN history /\ history[b].role = "assistant" BY <3>2, <3>3
    <3>5. delta \in Seq(Messages)
      <4>1. b \in 1..Len(history) /\ Len(history) \in Nat BY <1>2, <3>4
      <4>2. 1 \in Int /\ b - 1 \in Int /\ \A i \in 1..(b - 1) : history[i] \in Messages
        BY <1>2, <4>1
      <4> QED BY <4>2, SubSeqProperties
    <3> HIDE DEF delta
    <3>6. Decisions(delta) \subseteq CallIds BY <3>5, Calling DEF Decisions
    <3>7. progress' \in SUBSET CallIds BY <1>2, <3>1, <3>6
    <3>8. Closed(Kept(history, b, progress'), round) BY <1>2, <3>4, <3>7, KeptClosed
    <3>9. Kept(history, b, progress') \in Seq(Messages) BY <1>2, <3>4, <3>7, KeptShape
    <3>10. Truthful(Kept(history, b, progress'), log) BY <1>2, <3>4, <3>7, TruthfulKept
    <3>11. \A e \in log : Reported(Kept(history, b, progress'), round, e.call)
      BY <1>2, <3>4, <3>7, ReportedKept
    <3> QED BY <3>1, <3>7, <3>8, <3>9, <3>10, <3>11
  <2> QED BY <1>1, <2>1, <2>2
<1>4. TypeOK' BY <1>1, <1>3 DEF LoopInv, TypeOK
<1>5. LoopSound' BY <1>1 DEF LoopInv, LoopSound
<1>6. RoutedCounted' BY <1>1 DEF LoopInv, RoutedCounted
<1>7. ConsentSpentOnce' /\ RunningAllowed' BY <1>1 DEF LoopInv, ConsentSpentOnce, RunningAllowed
<1>8. HistorySound' BY <1>1, <1>3 DEF HistorySound
<1>9. EffectsKept' BY <1>1, <1>3 DEF LoopInv, EffectsKept
<1> QED BY <1>4, <1>5, <1>6, <1>7, <1>8, <1>9 DEF LoopInv

\* A round that is answered at once closes the history behind it.
LEMMA AnswerKeeps ==
  ASSUME LoopInv, phase = "ask", NEW ks \in Replies, NEW done \in SUBSET CallSet(ks),
         \A c \in done : c.kind = "decide", Continue(Answered(ks, done)),
         escalations' \in 0..MaxEscalations, RoutedCounted',
         UNCHANGED <<brief, scope, calls, at, ran, pending, file, edits, allowed, log>>
  PROVE  LoopInv'
<1>1. /\ history \in Seq(Messages) /\ round \in Nat /\ Closed(history, round)
      /\ Truthful(history, log) /\ round < MaxToolRounds
      /\ \A e \in log : e.call \in CallIds /\ Reported(history, round, e.call)
  BY LoopAssumption DEF LoopInv, TypeOK, LoopSound, HistorySound, EffectsKept
<1>2. CallSet(ks) \in SUBSET CallIds /\ done \in SUBSET CallIds /\ \A c \in CallSet(ks) : c.round = round
  BY Calls DEF LoopInv
<1> DEFINE cs == CallSet(ks)
           g == Append(history, Assistant(cs))
           k == Append(g, Results(cs, done))
<1>3. phase' = "check" /\ round' = round + 1 /\ history' = k /\ progress' = progress
  BY DEF Continue, Answered, Replied
<1> HIDE DEF cs
<1>4. cs \in SUBSET CallIds /\ done \in SUBSET cs /\ \A c \in cs : c.round = round BY <1>2 DEF cs
<1>5. g \in Seq(Messages) /\ Opened(g, round, cs) BY <1>1, <1>4, OpensRound
<1>6. Truthful(g, log) BY <1>1, <1>4, TruthfulOpen
<1>7. \A e \in log : Reported(g, round, e.call) BY <1>1, <1>4, ReportedOpen
<1> HIDE DEF g
<1>8. k \in Seq(Messages) /\ Closed(k, round + 1) BY <1>1, <1>2, <1>4, <1>5, ClosesRound
<1>9. Truthful(k, log) BY <1>4, <1>5, <1>6, TruthfulClose
<1>10. \A e \in log : Reported(k, round + 1, e.call)
  BY <1>1, <1>2, <1>4, <1>5, <1>7, ReportedClose
<1> HIDE DEF k
<1>11. /\ calls = <<>> /\ at = 1 /\ ran = {} /\ pending = None /\ scope \in ScopeNames /\ file \in BOOLEAN
       /\ log \subseteq [call : CallIds, gated : BOOLEAN] /\ ConsentSpentOnce'
  BY DEF LoopInv, TypeOK, LoopSound, ConsentSpentOnce
<1> QED BY <1>1, <1>3, <1>8, <1>9, <1>10, <1>11, NextKeeps

\* A reply that is refused is answered with errors (RejectReply).
LEMMA RejectKeeps ==
  ASSUME LoopInv, Reply, NEW ks \in Replies, RejectReply(ks)
  PROVE  LoopInv'
<1>1. /\ phase = "ask" /\ Continue(Answered(ks, {}))
      /\ UNCHANGED <<brief, scope, escalations, calls, at, ran, pending, routed, file, edits, allowed, log>>
  BY DEF Reply, RejectReply
<1>2. escalations' \in 0..MaxEscalations /\ RoutedCounted'
  BY <1>1 DEF LoopInv, TypeOK, RoutedCounted
<1> QED BY <1>1, <1>2, AnswerKeeps

\* A request_decision is answered by the runtime decider, routed, or ends the task.
LEMMA DecideKeeps ==
  ASSUME LoopInv, Reply, NEW ks \in Replies, Decide(ks)
  PROVE  LoopInv'
<1>1. /\ phase = "ask" /\ ks = <<"decide">>
      /\ UNCHANGED <<brief, scope, at, ran, file, edits, allowed, log, grant>>
  BY DEF Reply, Decide
<1>2. 1 \in DOMAIN ks /\ DOMAIN ks = {1} /\ ks[1] = "decide" BY <1>1
<1> DEFINE c == Called(ks)[1]
<1>3. /\ c \in CallIds /\ c.round = round /\ c.kind = "decide" /\ CallSet(ks) = {c}
  BY <1>2, Calls DEF LoopInv, CallSet
<1> HIDE DEF c
<1>4. CASE RouteFails
  BY <1>1, <1>4, EndKeeps DEF RouteFails, Report
<1>5. CASE escalations < MaxEscalations /\ AutoDecide(ks)
  <2>1. /\ Continue(Answered(ks, CallSet(ks))) /\ escalations' = escalations + 1
        /\ routed' = routed \cup {c} /\ UNCHANGED <<calls, pending>>
    BY <1>3, <1>5 DEF AutoDecide
  <2>2. RoutedCounted' /\ escalations' \in 0..MaxEscalations BY <1>5, <2>1, Routes
  <2>3. CallSet(ks) \in SUBSET CallSet(ks) /\ \A d \in CallSet(ks) : d.kind = "decide" BY <1>3
  <2> QED BY <1>1, <2>1, <2>2, <2>3, AnswerKeeps
<1>6. CASE escalations < MaxEscalations /\ Pause(Replied(ks), Called(ks)[1], "decision", "none")
  <2>1. /\ phase' = "paused" /\ history' = Append(history, Assistant({c}))
        /\ progress' = {} /\ escalations' = escalations + 1
        /\ pending' = [kind |-> "decision", call |-> c, approval |-> "none"]
        /\ routed' = routed \cup {c} /\ UNCHANGED <<round, calls>>
    BY <1>3, <1>6 DEF Pause, Replied, StoredProgress, StoredEscalations, c
  <2>2. RoutedCounted' /\ escalations' \in 0..MaxEscalations BY <1>6, <2>1, Routes
  <2>3. pending' \in PausedCalls /\ pending'.call = c /\ pending'.kind = "decision"
    BY <1>3, <2>1 DEF PausedCalls
  <2>4. calls = <<>> /\ calls \in Seq([call : CallIds, existed : BOOLEAN, action : Actions])
    BY <1>1 DEF LoopInv, LoopSound
  <2>5. RunningAllowed' BY <2>1 DEF LoopInv, RunningAllowed
  <2>6. {c} \in SUBSET CallIds /\ \A d \in {c} : d.round = round BY <1>3
  <2> QED BY <1>1, <1>3, <2>1, <2>2, <2>3, <2>4, <2>5, <2>6, BeginKeeps
<1> QED BY <1>4, <1>5, <1>6 DEF Decide

\* A blocked call pauses the task with a history that holds this call alone (Block,
\* filterAssistantMessageForBlockedCallPause).
LEMMA BlockKeeps ==
  ASSUME LoopInv, Reply, NEW ks \in Replies, Block(ks)
  PROVE  LoopInv'
<1> DEFINE cs == Classified(ks)
           blocking == IF FirstBlocked(cs, "escalation") # {} THEN "escalation" ELSE "approval"
<1>1. /\ phase = "ask" /\ UNCHANGED <<brief, scope, at, ran, file, edits, allowed, log, grant>>
  BY DEF Reply
<1>2. PICK i \in FirstBlocked(cs, blocking) :
        \/ RouteFails
        \/ /\ escalations < MaxEscalations
           /\ \E k \in KindsAsked(ks[i]) :
                Pause(Append(history, Assistant(Filtered(CallSet(ks), cs[i].call))),
                      cs[i].call, blocking, k)
  BY DEF Block
<1>3. blocking \in {"escalation", "approval"} /\ i \in DOMAIN cs BY DEF FirstBlocked
<1>4. CASE RouteFails
  BY <1>1, <1>4, EndKeeps DEF RouteFails, Report
<1>5. CASE escalations < MaxEscalations /\ ~RouteFails
  <2>1. PICK k \in KindsAsked(ks[i]) :
          Pause(Append(history, Assistant({cs[i].call})), cs[i].call, blocking, k)
    BY <1>2, <1>5 DEF Filtered
  <2>2. k \in ApprovalKinds BY DEF KindsAsked, ApprovalKinds
  <2> DEFINE c == cs[i].call
  <2>3. c \in CallIds /\ c.round = round BY <1>3, ClassifiedSound, Calls DEF LoopInv
  <2> HIDE DEF blocking, cs
  <2>4. /\ phase' = "paused" /\ history' = Append(history, Assistant({c}))
        /\ progress' = {} /\ escalations' = escalations + 1
        /\ pending' = [kind |-> blocking, call |-> c, approval |-> k]
        /\ routed' = routed \cup {c} /\ UNCHANGED <<round, calls>>
    BY <2>1 DEF Pause, StoredProgress, StoredEscalations
  <2> HIDE DEF c
  <2>5. RoutedCounted' /\ escalations' \in 0..MaxEscalations BY <1>5, <2>4, Routes
  <2>6. pending' \in PausedCalls /\ pending'.call = c /\ pending'.kind # "decision"
    BY <1>3, <2>2, <2>3, <2>4 DEF PausedCalls
  <2>7. calls = <<>> /\ calls \in Seq([call : CallIds, existed : BOOLEAN, action : Actions])
    BY <1>1 DEF LoopInv, LoopSound
  <2>8. RunningAllowed' BY <2>4 DEF LoopInv, RunningAllowed
  <2>9. {c} \in SUBSET CallIds /\ \A d \in {c} : d.round = round BY <2>3
  <2> QED BY <1>1, <2>4, <2>5, <2>6, <2>7, <2>8, <2>9, BeginKeeps
<1> QED BY <1>2, <1>4, <1>5

\* The calls of a round are taken in hand as they were classified.
LEMMA ExecuteKeeps ==
  ASSUME LoopInv, Reply, NEW ks \in Replies, Execute(ks)
  PROVE  LoopInv'
<1> DEFINE cs == CallSet(ks)
<1>1. /\ phase = "ask" /\ phase' = "run" /\ calls' = Classified(ks)
      /\ history' = Append(history, Assistant(cs))
      /\ UNCHANGED <<brief, scope, round, progress, escalations, at, ran, pending, file, edits,
                     allowed, log, routed>>
  BY DEF Reply, Execute, Replied
<1>2. cs \in SUBSET CallIds /\ \A c \in cs : c.round = round BY Calls DEF LoopInv
<1>3. CurrentCalls' = cs
  <2>1. DOMAIN calls' = DOMAIN ks /\ \A i \in DOMAIN ks : calls'[i].call = Called(ks)[i]
    BY <1>1, ClassifiedSound DEF LoopInv
  <2> QED BY <2>1 DEF CurrentCalls, CallSet
<1> HIDE DEF cs
<1>4. calls' \in Seq([call : CallIds, existed : BOOLEAN, action : Actions])
  BY <1>1, ClassifiedSound DEF LoopInv
<1>5. RunningAllowed' BY <1>1, ClassifiedSound DEF LoopInv, RunningAllowed
<1>6. escalations' \in 0..MaxEscalations /\ RoutedCounted'
  BY <1>1 DEF LoopInv, TypeOK, RoutedCounted
<1>7. pending' = None BY <1>1 DEF LoopInv, TypeOK
<1> QED BY <1>1, <1>2, <1>3, <1>4, <1>5, <1>6, <1>7, BeginKeeps

\* What the model answers keeps the loop sound.
LEMMA ReplyKeeps == LoopInv /\ Reply => LoopInv'
<1> SUFFICES ASSUME LoopInv, Reply PROVE LoopInv' OBVIOUS
<1>1. PICK ks \in Replies : RejectReply(ks) \/ Finish(ks) \/ Decide(ks) \/ Block(ks) \/ Execute(ks)
  BY DEF Reply
<1>2. CASE Finish(ks) BY <1>2, EndKeeps DEF Reply, Finish, Report
<1> QED BY <1>1, <1>2, RejectKeeps, DecideKeeps, BlockKeeps, ExecuteKeeps

\* A call that takes effect without being asked about needed no consent (RunCall).
LEMMA RunKeeps == LoopInv /\ RunCall => LoopInv'
<1> SUFFICES ASSUME LoopInv, RunCall PROVE LoopInv' OBVIOUS
<1>1. /\ phase = "run" /\ at \in 1..Len(calls) /\ at' = at + 1
      /\ UNCHANGED <<brief, scope, phase, round, history, progress, escalations, calls, pending, grant,
                     edits, allowed, routed>>
  BY DEF RunCall, LoopInv, TypeOK, control
<1>2. /\ calls \in Seq([call : CallIds, existed : BOOLEAN, action : Actions])
      /\ Len(calls) \in Nat /\ at \in DOMAIN calls
      /\ calls[at] \in [call : CallIds, existed : BOOLEAN, action : Actions]
  <2>1. calls \in Seq([call : CallIds, existed : BOOLEAN, action : Actions])
    BY DEF LoopInv, LoopSound
  <2>2. at \in DOMAIN calls /\ Len(calls) \in Nat BY <1>1, <2>1, LenProperties
  <2> QED BY <1>1, <2>1, <2>2, ElementOfSeq
<1>3. at' \in 1..(Len(calls) + 1) BY <1>1, <1>2
<1> DEFINE new == [call |-> calls[at].call, gated |-> NeedsConsent(calls[at].call.kind, calls[at].existed)]
<1>4. /\ \/ UNCHANGED <<ran, log, file>>
         \/ /\ calls[at].action = "execute" /\ ran' = ran \cup {calls[at].call}
            /\ log' = log \cup {new} /\ file' \in BOOLEAN
  <2>1. file \in BOOLEAN BY DEF LoopInv, TypeOK
  <2> QED BY <2>1 DEF RunCall, TakesEffect, NoEffect
<1>5. /\ new \in [call : CallIds, gated : BOOLEAN] /\ new.call = calls[at].call
      /\ calls[at].action = "execute" => ~new.gated
  <2>1. NeedsConsent(calls[at].call.kind, calls[at].existed) \in BOOLEAN BY DEF NeedsConsent
  <2>2. calls[at].call \in CallIds BY <1>2
  <2>3. calls[at].action = "execute" => ~NeedsConsent(calls[at].call.kind, calls[at].existed)
    BY <1>2 DEF LoopInv, RunningAllowed
  <2> QED BY <2>1, <2>2, <2>3
<1> HIDE DEF new
<1>6. /\ ran \subseteq CurrentCalls /\ calls[at].call \in CurrentCalls /\ file' \in BOOLEAN
  BY <1>2, <1>4 DEF LoopInv, TypeOK, CurrentCalls
<1>7. TypeOK'
  <2>1. ran' \subseteq {calls'[i].call : i \in DOMAIN calls'} BY <1>1, <1>4, <1>6 DEF CurrentCalls
  <2> QED BY <1>1, <1>3, <1>6, <2>1 DEF LoopInv, TypeOK
<1>8. LoopSound' BY <1>1, <1>4, <1>5 DEF LoopInv, LoopSound
<1>9. RoutedCounted' BY <1>1 DEF LoopInv, RoutedCounted
<1>10. ConsentSpentOnce' BY <1>1, <1>4, <1>5 DEF LoopInv, ConsentSpentOnce
<1>11. RunningAllowed' BY <1>1 DEF LoopInv, RunningAllowed
<1>12. HistorySound' BY <1>1 DEF LoopInv, HistorySound, CurrentCalls
<1>13. EffectsKept'
  <2>1. \A e \in log' : Reported(history, round, e.call) \/ e.call \in ran'
    BY <1>1, <1>4, <1>5 DEF LoopInv, EffectsKept
  <2>2. Truthful(history, log') BY <1>4 DEF LoopInv, EffectsKept, Truthful
  <2>3. \A c \in ran' : \E e \in log' : e.call = c BY <1>4, <1>5 DEF LoopInv, EffectsKept
  <2> QED BY <1>1, <2>1, <2>2, <2>3 DEF EffectsKept
<1> QED BY <1>7, <1>8, <1>9, <1>10, <1>11, <1>12, <1>13 DEF LoopInv

\* The results of the calls in hand close the round (EndRound).
LEMMA EndRoundKeeps == LoopInv /\ EndRound => LoopInv'
<1> SUFFICES ASSUME LoopInv, EndRound PROVE LoopInv' OBVIOUS
<1>1. /\ phase = "run" /\ phase' = "check" /\ round' = round + 1
      /\ history' = Append(history, Results(CurrentCalls, ran))
      /\ calls' = <<>> /\ at' = 1 /\ ran' = {}
      /\ UNCHANGED <<brief, scope, progress, escalations, pending, file, edits, allowed, log, routed>>
  BY DEF EndRound, Continue, RoundResults, CurrentCalls, ghosts
<1>2. /\ history \in Seq(Messages) /\ round \in Nat /\ Opened(history, round, CurrentCalls)
      /\ Truthful(history, log) /\ round < MaxToolRounds
      /\ \A e \in log : e.call \in CallIds /\ (Reported(history, round, e.call) \/ e.call \in ran)
  BY <1>1, LoopAssumption DEF LoopInv, TypeOK, LoopSound, HistorySound, EffectsKept
<1>3. CurrentCalls \in SUBSET CallIds /\ ran \in SUBSET CurrentCalls /\ ran \in SUBSET CallIds
  <2>1. \A i \in DOMAIN calls : calls[i].call \in CallIds
    <3>1. calls \in Seq([call : CallIds, existed : BOOLEAN, action : Actions])
      BY DEF LoopInv, LoopSound
    <3>2. \A i \in DOMAIN calls : calls[i] \in [call : CallIds, existed : BOOLEAN, action : Actions]
      BY <3>1, LenProperties, ElementOfSeq
    <3> QED BY <3>2
  <2> QED BY <2>1 DEF LoopInv, TypeOK, CurrentCalls
<1>4. \A c \in CurrentCalls : c.round = round BY <1>2 DEF Opened
<1>5. history' \in Seq(Messages) /\ Closed(history', round + 1) BY <1>1, <1>2, <1>3, ClosesRound
<1>6. Truthful(history', log)
  <2>1. \A c \in ran : \E e \in log : e.call = c BY DEF LoopInv, EffectsKept
  <2> QED BY <1>1, <1>2, <1>3, <2>1, TruthfulClose
<1>7. \A e \in log : Reported(history', round + 1, e.call)
  BY <1>1, <1>2, <1>3, <1>4, ReportedClose
<1>8. /\ escalations' \in 0..MaxEscalations /\ scope' \in ScopeNames /\ file' \in BOOLEAN
      /\ pending' = None /\ RoutedCounted' /\ ConsentSpentOnce'
      /\ log' \subseteq [call : CallIds, gated : BOOLEAN]
  BY <1>1 DEF LoopInv, TypeOK, LoopSound, RoutedCounted, ConsentSpentOnce
<1> QED BY <1>1, <1>2, <1>5, <1>6, <1>7, <1>8, NextKeeps

\* A resume answers the call the task waits for, with its effect if it had one.
LEMMA ResumeKeeps ==
  ASSUME LoopInv, phase = "paused", NEW done \in SUBSET {pending.call}, ResumeWith(done),
         scope' \in ScopeNames, file' \in BOOLEAN, log \subseteq log',
         \A e \in log' : e \in log \/ (e \in [call : CallIds, gated : BOOLEAN] /\ e.call \in done),
         \A c \in done : c.kind = "decide" \/ \E e \in log' : e.call = c,
         ConsentSpentOnce'
  PROVE  LoopInv'
<1>1. /\ phase' = "check" /\ round' = round + 1 /\ pending' = None
      /\ history' = Append(history, Results({pending.call}, done))
      /\ UNCHANGED <<brief, progress, escalations, calls, at, ran, edits, routed>>
  BY DEF ResumeWith, Continue, running
<1>2. /\ history \in Seq(Messages) /\ round \in Nat /\ Opened(history, round, {pending.call})
      /\ Truthful(history, log) /\ round < MaxToolRounds
      /\ \A e \in log : e.call \in CallIds /\ Reported(history, round, e.call)
  BY LoopAssumption DEF LoopInv, TypeOK, LoopSound, HistorySound, EffectsKept
<1>3. pending.call \in CallIds
  BY DEF LoopInv, TypeOK, LoopSound, PausedCalls
<1>4. PICK cs \in SUBSET CallIds : cs = {pending.call} BY <1>3
<1>5. done \in SUBSET cs /\ done \in SUBSET CallIds /\ \A c \in cs : c.round = round
  BY <1>2, <1>4 DEF Opened
<1>6. history' = Append(history, Results(cs, done)) /\ Opened(history, round, cs) BY <1>1, <1>2, <1>4
<1>7. history' \in Seq(Messages) /\ Closed(history', round + 1)
  BY <1>2, <1>5, <1>6, ClosesRound
<1>8. Truthful(history', log') BY <1>2, <1>5, <1>6, TruthfulClose
<1>9. ASSUME NEW e \in log' PROVE Reported(history', round + 1, e.call)
  <2>1. e.call \in CallIds /\ (Reported(history, round, e.call) \/ e.call \in done)
    BY <1>2, <1>5
  <2> QED BY <1>2, <1>5, <1>6, <2>1, ReportedClose
<1>10. /\ escalations' \in 0..MaxEscalations /\ RoutedCounted' /\ calls' = <<>> /\ at' = 1 /\ ran' = {}
       /\ log' \subseteq [call : CallIds, gated : BOOLEAN]
  BY <1>1 DEF LoopInv, TypeOK, LoopSound, RoutedCounted
<1> QED BY <1>1, <1>2, <1>7, <1>8, <1>9, <1>10, NextKeeps

\* An answer, or a rejection, has no effect (ResumeAnswered).
LEMMA ResumeAnsweredKeeps == LoopInv /\ ResumeAnswered => LoopInv'
<1> SUFFICES ASSUME LoopInv, ResumeAnswered PROVE LoopInv' OBVIOUS
<1>1. /\ phase = "paused" /\ ResumeWith(IF pending.kind = "decision" THEN {pending.call} ELSE {})
      /\ UNCHANGED <<log, file, allowed>>
      /\ scope' \in {scope, ScopeAfter(pending.approval)}
  BY DEF ResumeAnswered, NoEffect
<1>2. PICK done \in SUBSET {pending.call} :
        done = IF pending.kind = "decision" THEN {pending.call} ELSE {}
  OBVIOUS
<1>3. \A c \in done : c.kind = "decide" BY <1>1, <1>2 DEF LoopInv, EffectsKept
<1>4. scope' \in ScopeNames /\ file' \in BOOLEAN /\ ConsentSpentOnce'
  <2>1. "approved-destructive" \in ScopeNames /\ scope \in ScopeNames
    BY DEF LoopInv, TypeOK, ScopeNames, Scopes
  <2>2. scope' \in ScopeNames BY <1>1, <2>1 DEF ScopeAfter
  <2> QED BY <1>1, <2>2 DEF LoopInv, TypeOK, ConsentSpentOnce
<1> QED BY <1>1, <1>2, <1>3, <1>4, ResumeKeeps

\* An allowed call takes effect, or is answered with an error (ResumeAllowed).
LEMMA ResumeAllowedKeeps == LoopInv /\ ResumeAllowed => LoopInv'
<1> SUFFICES ASSUME LoopInv, ResumeAllowed PROVE LoopInv' OBVIOUS
<1> DEFINE c == pending.call
           new == [call |-> c, gated |-> NeedsConsent(c.kind, file)]
<1>1. /\ phase = "paused"
      /\ scope' = ScopeAfter(pending.approval)
      /\ allowed' = allowed \cup {[call |-> c, kind |-> pending.approval]}
  BY DEF ResumeAllowed
<1>2. scope' \in ScopeNames
  <2>1. "approved-destructive" \in ScopeNames /\ scope \in ScopeNames
    BY DEF LoopInv, TypeOK, ScopeNames, Scopes
  <2> QED BY <1>1, <2>1 DEF ScopeAfter
<1>3. file \in BOOLEAN /\ c \in CallIds
  BY <1>1 DEF LoopInv, TypeOK, LoopSound, PausedCalls
<1>4. new \in [call : CallIds, gated : BOOLEAN] /\ new.call = c
  <2>1. NeedsConsent(c.kind, file) \in BOOLEAN BY DEF NeedsConsent
  <2> QED BY <1>3, <2>1
<1>5. \E a \in allowed' : a.call = c
  <2> DEFINE a == [call |-> c, kind |-> pending.approval]
  <2>1. a \in allowed' /\ a.call = c BY <1>1
  <2> HIDE DEF a
  <2> QED BY <2>1
<1>6. CASE TakesEffect(c, file) /\ ResumeWith({c})
  <2>1. log' = log \cup {new} /\ file' \in BOOLEAN BY <1>3, <1>6 DEF TakesEffect
  <2> HIDE DEF new
  <2>2. ConsentSpentOnce' BY <1>1, <1>4, <1>5, <2>1 DEF LoopInv, ConsentSpentOnce
  <2>3. {c} \in SUBSET {pending.call} OBVIOUS
  <2> QED BY <1>1, <1>2, <1>4, <1>6, <2>1, <2>2, <2>3, ResumeKeeps
<1>7. CASE NoEffect /\ ResumeWith({})
  <2>1. ConsentSpentOnce' BY <1>1, <1>7 DEF LoopInv, ConsentSpentOnce, NoEffect
  <2>2. log' = log /\ file' \in BOOLEAN /\ {} \in SUBSET {pending.call} BY <1>3, <1>7 DEF NoEffect
  <2> QED BY <1>1, <1>2, <1>7, <2>1, <2>2, ResumeKeeps
<1> QED BY <1>6, <1>7 DEF ResumeAllowed

\* Somebody else's edit touches the file only.
LEMMA EditKeeps == LoopInv /\ EditFile => LoopInv'
<1> SUFFICES ASSUME LoopInv, EditFile PROVE LoopInv' OBVIOUS
<1>1. /\ file' \in BOOLEAN /\ edits < MaxEdits /\ edits' = edits + 1
      /\ UNCHANGED <<brief, scope, phase, round, history, progress, escalations, calls, at, ran,
                     pending, grant, allowed, log, routed>>
  BY DEF EditFile, control, running, ghosts
<1>2. edits' \in 0..MaxEdits BY <1>1, LoopAssumption DEF LoopInv, TypeOK
<1>3. TypeOK' BY <1>1, <1>2 DEF LoopInv, TypeOK
<1> QED BY <1>1, <1>3 DEF LoopInv, LoopSound, RoutedCounted, ConsentSpentOnce, RunningAllowed,
                           HistorySound, CurrentCalls, EffectsKept

-----------------------------------------------------------------------------
(* The loop *)

\* A task starts with nothing said and nothing done.
LEMMA Starts == Init => LoopInv
<1> SUFFICES ASSUME Init PROVE LoopInv OBVIOUS
<1>1. /\ history = <<>> /\ calls = <<>> /\ at = 1 /\ ran = {} /\ log = {} /\ routed = {}
      /\ phase = "check" /\ round = 0 /\ escalations = 0 /\ pending = None /\ progress = {}
      /\ brief \in ScopeNames /\ scope = brief /\ file \in BOOLEAN /\ edits = 0
  BY DEF Init
<1>2. /\ history \in Seq(Messages) /\ DOMAIN history = {} /\ DOMAIN calls = {} /\ Len(calls) = 0
      /\ calls \in Seq([call : CallIds, existed : BOOLEAN, action : Actions])
  BY <1>1
<1>3. TypeOK BY <1>1, <1>2, LoopAssumption DEF TypeOK
<1>4. LoopSound BY <1>1, <1>2 DEF LoopSound
<1>5. RoutedCounted BY <1>1, FS_EmptySet DEF RoutedCounted
<1>6. ConsentSpentOnce /\ RunningAllowed BY <1>1, <1>2 DEF ConsentSpentOnce, RunningAllowed
<1>7. HistorySound BY <1>1, <1>2 DEF HistorySound, Closed, Paired, RoundsOrdered
<1>8. EffectsKept BY <1>1, <1>2 DEF EffectsKept, Truthful
<1> QED BY <1>3, <1>4, <1>5, <1>6, <1>7, <1>8 DEF LoopInv

\* Every step keeps the loop sound.
LEMMA Steps == LoopInv /\ [Next]_vars => LoopInv'
<1> SUFFICES ASSUME LoopInv, [Next]_vars PROVE LoopInv' OBVIOUS
<1>1. CASE GiveUp BY <1>1, EndKeeps DEF GiveUp, Report, running, ghosts
<1>2. CASE Lose BY <1>2, EndKeeps DEF Lose, running, ghosts
<1>3. CASE UNCHANGED vars
  BY <1>3 DEF vars, control, running, ghosts, LoopInv, TypeOK, LoopSound, RoutedCounted,
              ConsentSpentOnce, RunningAllowed, HistorySound, CurrentCalls, EffectsKept
<1> QED BY <1>1, <1>2, <1>3, PromptKeeps, ReplyKeeps, RunKeeps, EndRoundKeeps, ResumeAnsweredKeeps,
           ResumeAllowedKeeps, EditKeeps DEF Next

\* The inductive invariant of the tool loop holds in every state.
THEOREM LoopInductive == Spec => []LoopInv
  BY Starts, Steps, PTL DEF Spec

\* Every variable of the loop keeps its type, and rounds and escalations their limits.
THEOREM TypeCorrect == Spec => []TypeOK
<1>1. LoopInv => TypeOK BY DEF LoopInv
<1> QED BY <1>1, LoopInductive, PTL

\* No task has more than max_escalations decisions taken for it, by whomever.
THEOREM DecisionsLimited == Spec => []DecisionsBounded
<1>1. LoopInv => DecisionsBounded
  <2> SUFFICES ASSUME LoopInv PROVE DecisionsBounded OBVIOUS
  <2>1. /\ Cardinality(routed) \in Nat /\ Cardinality(routed) <= escalations
        /\ escalations \in 0..MaxEscalations /\ MaxEscalations \in Nat
    BY FS_CardinalityType, LoopAssumption DEF LoopInv, RoutedCounted, TypeOK
  <2> QED BY <2>1 DEF DecisionsBounded
<1> QED BY <1>1, LoopInductive, PTL

\* Consent is spent on the very call it was given for (Runtime.Resume, ClassifyCall).
THEOREM ConsentSpent == Spec => []ConsentSpentOnce
<1>1. LoopInv => ConsentSpentOnce BY DEF LoopInv
<1> QED BY <1>1, LoopInductive, PTL

\* What the model is sent pairs every call with its results (filterAssistantMessage-
\* ForBlockedCallPause, findKeepBoundary).
THEOREM HistoryAccepted == Spec => []HistoryPaired
<1>1. LoopInv => HistoryPaired BY DEF LoopInv, HistorySound, Closed, Opened, HistoryPaired
<1> QED BY <1>1, LoopInductive, PTL

\* The history tells the truth about effects (Block, ExecuteAllClassified, compress.go).
THEOREM HistoryTruthful == Spec => []EffectsReported
<1>1. LoopInv => EffectsReported
  <2> SUFFICES ASSUME LoopInv, phase \in {"ask", "paused"} PROVE EffectsReported
    BY DEF EffectsReported
  <2>1. \A e \in log : Reported(history, round, e.call) BY DEF LoopInv, EffectsKept
  <2>2. Truthful(history, log) BY DEF LoopInv, EffectsKept
  <2> QED BY <2>1, <2>2 DEF EffectsReported, Reported, Truthful
<1> QED BY <1>1, LoopInductive, PTL
=============================================================================
