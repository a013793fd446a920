---------------------------- MODULE EventLogProofs ----------------------------
(***************************************************************************)
(* Lemmas about logs of events, for every log: what appending to one and   *)
(* removing from one leave, and what the events selected from it are.      *)
(***************************************************************************)
EXTENDS EventLog, SequenceTheorems, WellFoundedInduction, TLAPS

\* sess.events.push adds one event at the end and duplicates none of the others.
LEMMA AppendFacts ==
    ASSUME NEW S, NEW evs \in Seq(S), NEW e \in S
    PROVE  /\ Append(evs, e) \in Seq(S)
           /\ \A x : Contains(Append(evs, e), x) <=> Contains(evs, x) \/ x = e
           /\ NoDuplicates(evs) /\ ~Contains(evs, e) => NoDuplicates(Append(evs, e))
<1> DEFINE a == Append(evs, e)
<1>1. a \in Seq(S) /\ Len(a) = Len(evs) + 1 /\ Len(evs) \in Nat
  BY AppendProperties, LenProperties
<1>2. a[Len(evs) + 1] = e /\ \A i \in 1..Len(evs) : a[i] = evs[i]
  BY AppendProperties
<1>3. \A x : Contains(a, x) <=> Contains(evs, x) \/ x = e
  BY <1>1, <1>2 DEF Contains
<1>4. ASSUME NoDuplicates(evs), ~Contains(evs, e)
      PROVE  NoDuplicates(a)
  BY <1>1, <1>2, <1>4 DEF NoDuplicates, Contains
<1> QED
  BY <1>1, <1>3, <1>4

\* `remove(pos)` shifts what follows down by one.
LEMMA RemoveAtFacts ==
    ASSUME NEW S, NEW evs \in Seq(S), NEW i \in 1..Len(evs)
    PROVE  /\ RemoveAt(evs, i) \in Seq(S)
           /\ Len(RemoveAt(evs, i)) = Len(evs) - 1
           /\ \A j \in 1..Len(evs) - 1 :
                RemoveAt(evs, i)[j] = IF j < i THEN evs[j] ELSE evs[j + 1]
<1> DEFINE front == SubSeq(evs, 1, i - 1)
           back  == SubSeq(evs, i + 1, Len(evs))
<1>1. Len(evs) \in Nat /\ i \in Nat
  BY LenProperties
<1>2. /\ front \in Seq(S) /\ Len(front) = i - 1
      /\ \A j \in 1..i - 1 : front[j] = evs[j]
  BY <1>1, SubSeqProperties
<1>3. /\ back \in Seq(S) /\ Len(back) = Len(evs) - i
      /\ \A j \in 1..Len(evs) - i : back[j] = evs[i + j]
  BY <1>1, SubSeqProperties
<1> HIDE DEF front, back
<1>4. /\ front \o back \in Seq(S)
      /\ Len(front \o back) = Len(evs) - 1
      /\ \A j \in 1..Len(evs) - 1 :
            (front \o back)[j] = IF j <= i - 1 THEN front[j] ELSE back[j - (i - 1)]
  <2>1. Len(front) + Len(back) = Len(evs) - 1
    BY <1>1, <1>2, <1>3
  <2>2. /\ front \o back \in Seq(S)
        /\ Len(front \o back) = Len(front) + Len(back)
        /\ \A j \in 1..Len(front) + Len(back) :
              (front \o back)[j] = IF j <= Len(front) THEN front[j] ELSE back[j - Len(front)]
    <3> front \in Seq(S) /\ back \in Seq(S)
      BY <1>2, <1>3
    <3> QED
      BY ConcatProperties
  <2> QED
    BY <1>2, <2>1, <2>2
<1>5. \A j \in 1..Len(evs) - 1 :
        (front \o back)[j] = IF j < i THEN evs[j] ELSE evs[j + 1]
  BY <1>1, <1>2, <1>3, <1>4
<1> QED
  BY <1>4, <1>5 DEF RemoveAt, front, back

-----------------------------------------------------------------------------
(* Induction, and the events of a log that are in a set.                   *)

\* A set of numbers that has 0 and the successor of each of its members has all.
LEMMA SetInduction ==
    ASSUME NEW S, 0 \in S, \A n \in Nat : n \in S => n + 1 \in S
    PROVE  Nat \subseteq S
<1> DEFINE Less == OpToRel(<, Nat)
           rest == Nat \ S
<1>1. \A x, y \in Nat : <<x, y>> \in Less <=> x < y
  BY DEF OpToRel
<1>2. IsWellFoundedOn(Less, Nat)
  BY NatLessThanWellFounded
<1>3. SUFFICES ASSUME rest # {} PROVE FALSE
  OBVIOUS
<1>4. rest \subseteq Nat
  OBVIOUS
<1> HIDE DEF Less
<1>5. PICK x \in rest : \A y \in rest : ~ (<<y, x>> \in Less)
  BY <1>2, <1>3, <1>4, WFMin
<1>6. x \in Nat /\ x # 0
  BY <1>5
<1>7. x - 1 \in Nat /\ x - 1 < x
  BY <1>6
<1>8. x - 1 \in S
  BY <1>1, <1>5, <1>6, <1>7
<1>9. (x - 1) + 1 = x
  BY <1>6
<1> QED
  BY <1>5, <1>7, <1>8, <1>9

\* f is the selection from evs up to its first, second .. n-th event.
SelectsUpTo(evs, A, f, n) ==
    f = [i \in 0 .. n |-> IF i = 0 THEN <<>>
                          ELSE IF evs[i] \in A THEN Append(f[i - 1], evs[i]) ELSE f[i - 1]]

LEMMA SelectionExists == \A evs, A : \A n \in Nat : \E f : SelectsUpTo(evs, A, f, n)
<1> SUFFICES ASSUME NEW evs, NEW A PROVE \A n \in Nat : \E f : SelectsUpTo(evs, A, f, n)
  OBVIOUS
<1> DEFINE S == {n \in Nat : \E f : SelectsUpTo(evs, A, f, n)}
<1>1. 0 \in S
  <2>1. SelectsUpTo(evs, A, [i \in 0 .. 0 |-> <<>>], 0)
    BY DEF SelectsUpTo
  <2> QED
    BY <2>1
<1>2. ASSUME NEW n \in Nat, n \in S PROVE n + 1 \in S
  <2>1. PICK f : SelectsUpTo(evs, A, f, n)
    BY <1>2
  <2> DEFINE new == IF evs[n + 1] \in A THEN Append(f[n], evs[n + 1]) ELSE f[n]
             g == [i \in 0 .. n + 1 |-> IF i = n + 1 THEN new ELSE f[i]]
  <2>2. ASSUME NEW i \in 0 .. n + 1
        PROVE  g[i] = IF i = 0 THEN <<>> ELSE IF evs[i] \in A THEN Append(g[i - 1], evs[i]) ELSE g[i - 1]
    <3>1. CASE i = n + 1
      <4>1. i # 0 /\ i - 1 = n /\ n \in 0 .. n + 1 /\ n # n + 1
        BY <3>1
      <4>2. g[i] = new /\ g[i - 1] = f[n]
        BY <3>1, <4>1
      <4> QED
        BY <3>1, <4>1, <4>2
    <3>2. CASE i # n + 1
      <4>1. i \in 0 .. n /\ (i # 0 => i - 1 \in 0 .. n + 1 /\ i - 1 # n + 1)
        BY <3>2
      <4>2. g[i] = f[i] /\ (i # 0 => g[i - 1] = f[i - 1])
        BY <3>2, <4>1
      <4>3. f[i] = IF i = 0 THEN <<>> ELSE IF evs[i] \in A THEN Append(f[i - 1], evs[i]) ELSE f[i - 1]
        BY <2>1, <4>1 DEF SelectsUpTo
      <4> QED
        BY <4>2, <4>3
    <3> QED
      BY <3>1, <3>2
  <2>3. g = [i \in 0 .. n + 1 |-> g[i]]
    OBVIOUS
  <2> HIDE DEF g
  <2>4. SelectsUpTo(evs, A, g, n + 1)
    BY <2>2, <2>3 DEF SelectsUpTo
  <2> QED
    BY <2>4
<1> HIDE DEF S
<1>3. Nat \subseteq S
  BY <1>1, <1>2, SetInduction
<1> QED
  BY <1>3 DEF S

\* Selections from logs that begin alike do.
LEMMA SelectionsAgree ==
    ASSUME NEW evs, NEW evs2, NEW A, NEW m \in Nat, NEW n \in Nat, NEW k \in Nat, k <= m, k <= n,
           \A i \in 1 .. k : evs[i] = evs2[i],
           NEW f, SelectsUpTo(evs, A, f, m), NEW g, SelectsUpTo(evs2, A, g, n)
    PROVE  f[k] = g[k]
<1> DEFINE S == {i \in Nat : i <= k => f[i] = g[i]}
<1>1. 0 \in S
  BY DEF SelectsUpTo
<1>2. ASSUME NEW i \in Nat, i \in S PROVE i + 1 \in S
  <2> SUFFICES ASSUME i + 1 <= k PROVE f[i + 1] = g[i + 1]
    OBVIOUS
  <2>1. f[i] = g[i] /\ i + 1 \in 0 .. m /\ i + 1 \in 0 .. n /\ i + 1 # 0 /\ (i + 1) - 1 = i
        /\ i + 1 \in 1 .. k
    BY <1>2
  <2>2. f[i + 1] = IF evs[i + 1] \in A THEN Append(f[i], evs[i + 1]) ELSE f[i]
    BY <2>1 DEF SelectsUpTo
  <2>3. g[i + 1] = IF evs2[i + 1] \in A THEN Append(g[i], evs2[i + 1]) ELSE g[i]
    BY <2>1 DEF SelectsUpTo
  <2> QED
    BY <2>1, <2>2, <2>3
<1> HIDE DEF S
<1>3. k \in S
  BY <1>1, <1>2, SetInduction
<1> QED
  BY <1>3 DEF S

LEMMA SelectedIs ==
    ASSUME NEW S, NEW evs \in Seq(S), NEW A
    PROVE  \E f : SelectsUpTo(evs, A, f, Len(evs)) /\ Selected(evs, A) = f[Len(evs)]
<1> DEFINE f == CHOOSE x : SelectsUpTo(evs, A, x, Len(evs))
<1>1. SelectsUpTo(evs, A, f, Len(evs))
  BY SelectionExists
<1>2. Selected(evs, A) = f[Len(evs)]
  BY DEF Selected, SelectsUpTo
<1> HIDE DEF f
<1> QED
  BY <1>1, <1>2

\* One more event is selected or not.
LEMMA SelectedAppend ==
    ASSUME NEW S, NEW evs \in Seq(S), NEW e \in S, NEW A
    PROVE  Selected(Append(evs, e), A)
               = IF e \in A THEN Append(Selected(evs, A), e) ELSE Selected(evs, A)
<1> DEFINE n == Len(evs)
           more == Append(evs, e)
<1>1. more \in Seq(S) /\ Len(more) = n + 1 /\ n \in Nat
      /\ more[n + 1] = e /\ \A i \in 1 .. n : evs[i] = more[i]
  OBVIOUS
<1>2. PICK f : SelectsUpTo(evs, A, f, n) /\ Selected(evs, A) = f[n]
  BY SelectedIs
<1> HIDE DEF more
<1>3. PICK g : SelectsUpTo(more, A, g, n + 1) /\ Selected(more, A) = g[n + 1]
  BY <1>1, SelectedIs
<1> HIDE DEF n
<1>4. f[n] = g[n]
  BY <1>1, <1>2, <1>3, SelectionsAgree
<1>5. g[n + 1] = IF more[n + 1] \in A THEN Append(g[n], more[n + 1]) ELSE g[n]
  <2>1. n + 1 \in 0 .. n + 1 /\ n + 1 # 0 /\ (n + 1) - 1 = n
    BY <1>1
  <2> QED
    BY <1>3, <2>1 DEF SelectsUpTo
<1>6. Selected(more, A) = IF e \in A THEN Append(Selected(evs, A), e) ELSE Selected(evs, A)
  BY <1>1, <1>2, <1>3, <1>4, <1>5
<1> QED
  BY <1>6 DEF more

\* Nothing is selected from a log that has no event of the set.
LEMMA SelectedNone ==
    ASSUME NEW S, NEW evs \in Seq(S), NEW A, \A i \in 1 .. Len(evs) : evs[i] \notin A
    PROVE  Selected(evs, A) = <<>>
<1>1. PICK f : SelectsUpTo(evs, A, f, Len(evs)) /\ Selected(evs, A) = f[Len(evs)]
  BY SelectedIs
<1> DEFINE T == {i \in Nat : i <= Len(evs) => f[i] = <<>>}
<1>2. Len(evs) \in Nat
  OBVIOUS
<1>3. 0 \in T
  BY <1>1, <1>2 DEF SelectsUpTo
<1>4. ASSUME NEW i \in Nat, i \in T PROVE i + 1 \in T
  <2> SUFFICES ASSUME i + 1 <= Len(evs) PROVE f[i + 1] = <<>>
    OBVIOUS
  <2>1. f[i] = <<>> /\ i + 1 \in 0 .. Len(evs) /\ i + 1 # 0 /\ (i + 1) - 1 = i /\ i + 1 \in 1 .. Len(evs)
    BY <1>2, <1>4
  <2> QED
    BY <1>1, <2>1 DEF SelectsUpTo
<1> HIDE DEF T
<1>5. Len(evs) \in T
  BY <1>2, <1>3, <1>4, SetInduction
<1> QED
  BY <1>1, <1>5 DEF T

LEMMA SelectedOfNothing == \A A : Selected(<<>>, A) = <<>>
<1>1. <<>> \in Seq({}) /\ \A i \in 1 .. Len(<<>>) : FALSE
  OBVIOUS
<1> QED
  BY <1>1, SelectedNone

\* Sets with the same events of a log select the same.
LEMMA SelectedSame ==
    ASSUME NEW S, NEW evs \in Seq(S), NEW A, NEW B, \A i \in 1 .. Len(evs) : evs[i] \in A <=> evs[i] \in B
    PROVE  Selected(evs, A) = Selected(evs, B)
<1>1. PICK f : SelectsUpTo(evs, A, f, Len(evs)) /\ Selected(evs, A) = f[Len(evs)]
  BY SelectedIs
<1>2. PICK g : SelectsUpTo(evs, B, g, Len(evs)) /\ Selected(evs, B) = g[Len(evs)]
  BY SelectedIs
<1> DEFINE T == {i \in Nat : i <= Len(evs) => f[i] = g[i]}
<1>3. Len(evs) \in Nat
  OBVIOUS
<1>4. 0 \in T
  BY <1>1, <1>2, <1>3 DEF SelectsUpTo
<1>5. ASSUME NEW i \in Nat, i \in T PROVE i + 1 \in T
  <2> SUFFICES ASSUME i + 1 <= Len(evs) PROVE f[i + 1] = g[i + 1]
    OBVIOUS
  <2>1. /\ f[i] = g[i] /\ i + 1 \in 0 .. Len(evs) /\ i + 1 # 0 /\ (i + 1) - 1 = i /\ i + 1 \in 1 .. Len(evs)
    BY <1>3, <1>5
  <2>2. f[i + 1] = IF evs[i + 1] \in A THEN Append(f[i], evs[i + 1]) ELSE f[i]
    BY <1>1, <2>1 DEF SelectsUpTo
  <2>3. g[i + 1] = IF evs[i + 1] \in B THEN Append(g[i], evs[i + 1]) ELSE g[i]
    BY <1>2, <2>1 DEF SelectsUpTo
  <2> QED
    BY <2>1, <2>2, <2>3
<1> HIDE DEF T
<1>6. Len(evs) \in T
  BY <1>3, <1>4, <1>5, SetInduction
<1> QED
  BY <1>1, <1>2, <1>6 DEF T

\* A log whose events are all in the set is selected whole.
LEMMA SelectedAll ==
    ASSUME NEW S, NEW evs \in Seq(S), NEW A, \A i \in 1 .. Len(evs) : evs[i] \in A
    PROVE  Selected(evs, A) = evs
<1>1. PICK f : SelectsUpTo(evs, A, f, Len(evs)) /\ Selected(evs, A) = f[Len(evs)]
  BY SelectedIs
<1> DEFINE T == {i \in Nat : i <= Len(evs) => f[i] = SubSeq(evs, 1, i)}
<1>2. Len(evs) \in Nat
  OBVIOUS
<1>3. 0 \in T
  <2>1. f[0] = <<>>
    BY <1>1, <1>2 DEF SelectsUpTo
  <2>2. SubSeq(evs, 1, 0) \in Seq(S) /\ Len(SubSeq(evs, 1, 0)) = 0
    BY <1>2, SubSeqProperties
  <2>3. SubSeq(evs, 1, 0) = <<>>
    BY <2>2, EmptySeq
  <2> QED
    BY <2>1, <2>3
<1>4. ASSUME NEW i \in Nat, i \in T PROVE i + 1 \in T
  <2> SUFFICES ASSUME i + 1 <= Len(evs) PROVE f[i + 1] = SubSeq(evs, 1, i + 1)
    OBVIOUS
  <2>1. /\ f[i] = SubSeq(evs, 1, i) /\ i + 1 \in 0 .. Len(evs) /\ i + 1 # 0 /\ (i + 1) - 1 = i
        /\ i + 1 \in 1 .. Len(evs)
    BY <1>2, <1>4
  <2>2. f[i + 1] = Append(SubSeq(evs, 1, i), evs[i + 1])
    BY <1>1, <2>1 DEF SelectsUpTo
  <2>3. Append(SubSeq(evs, 1, i), evs[i + 1]) = SubSeq(evs, 1, i + 1)
    BY <1>2, <2>1
  <2> QED
    BY <2>2, <2>3
<1> HIDE DEF T
<1>5. Len(evs) \in T
  BY <1>2, <1>3, <1>4, SetInduction
<1>6. SubSeq(evs, 1, Len(evs)) = evs
  BY <1>2
<1> QED
  BY <1>1, <1>2, <1>5, <1>6 DEF T

\* What is selected is what is in the set; a relation that holds along the log holds
\* along the selection.
LEMMA SelectedKeeps ==
    ASSUME NEW S, NEW evs \in Seq(S), NEW A, NEW R,
           \A i, j \in 1 .. Len(evs) : i < j => <<evs[i], evs[j]>> \in R
    PROVE  LET q == Selected(evs, A)
           IN  /\ q \in Seq(S)
               /\ \A x : (\E i \in 1 .. Len(q) : q[i] = x) <=> x \in A /\ \E i \in 1 .. Len(evs) : evs[i] = x
               /\ \A i, j \in 1 .. Len(q) : i < j => <<q[i], q[j]>> \in R
<1>1. PICK f : SelectsUpTo(evs, A, f, Len(evs)) /\ Selected(evs, A) = f[Len(evs)]
  BY SelectedIs
<1> DEFINE Good(n, q) ==
             /\ q \in Seq(S)
             /\ \A x : (\E i \in 1 .. Len(q) : q[i] = x) <=> x \in A /\ \E i \in 1 .. n : evs[i] = x
             /\ \A i, j \in 1 .. Len(q) : i < j => <<q[i], q[j]>> \in R
           T == {n \in Nat : n <= Len(evs) => Good(n, f[n])}
<1>2. Len(evs) \in Nat /\ \A i \in 1 .. Len(evs) : evs[i] \in S
  OBVIOUS
<1>3. 0 \in T
  <2>1. f[0] = <<>>
    BY <1>1, <1>2 DEF SelectsUpTo
  <2>2. Good(0, <<>>)
    OBVIOUS
  <2> HIDE DEF Good
  <2> QED
    BY <2>1, <2>2
<1>4. ASSUME NEW n \in Nat, n \in T PROVE n + 1 \in T
  <2> SUFFICES ASSUME n + 1 <= Len(evs) PROVE Good(n + 1, f[n + 1])
    BY SMTT(30)
  <2>1. n + 1 \in 1 .. Len(evs) /\ n <= Len(evs) /\ n + 1 \in 0 .. Len(evs) /\ n + 1 # 0 /\ (n + 1) - 1 = n
    BY <1>2
  <2>2. f[n + 1] = IF evs[n + 1] \in A THEN Append(f[n], evs[n + 1]) ELSE f[n]
    BY <1>1, <2>1 DEF SelectsUpTo
  <2>3. Good(n, f[n])
    BY <1>4, <2>1
  <2>4. \A x : (\E i \in 1 .. n + 1 : evs[i] = x) <=> (\E i \in 1 .. n : evs[i] = x) \/ evs[n + 1] = x
    BY <2>1
  <2> DEFINE q == f[n]
             e == evs[n + 1]
             r == f[n + 1]
  <2>5. q \in Seq(S) /\ e \in S
    BY <1>2, <2>1, <2>3
  <2> HIDE DEF q, e, r
  <2>6. CASE e \notin A
    BY <2>2, <2>3, <2>4, <2>6 DEF q, e
  <2>7. CASE e \in A
    <3>1. r = Append(q, e)
      BY <2>2, <2>7 DEF q, e, r
    <3>2. r \in Seq(S) /\ Len(r) = Len(q) + 1 /\ Len(q) \in Nat /\ r[Len(q) + 1] = e
          /\ \A i \in 1 .. Len(q) : r[i] = q[i]
      BY <2>5, <3>1
    <3>3. \A x : (\E i \in 1 .. Len(r) : r[i] = x) <=> (\E i \in 1 .. Len(q) : q[i] = x) \/ e = x
      BY <3>2, SMTT(30)
    <3>4. \A x : (\E i \in 1 .. Len(r) : r[i] = x) <=> x \in A /\ \E i \in 1 .. n + 1 : evs[i] = x
      BY <2>3, <2>4, <2>7, <3>3, ZenonT(30) DEF q, e
    <3>5. ASSUME NEW i \in 1 .. Len(r), NEW j \in 1 .. Len(r), i < j PROVE <<r[i], r[j]>> \in R
      <4>1. i \in 1 .. Len(q) /\ r[i] = q[i]
        BY <3>2, <3>5
      <4>2. CASE j \in 1 .. Len(q)
        BY <2>3, <3>2, <3>5, <4>1, <4>2 DEF q
      <4>3. CASE j = Len(q) + 1
        <5>1. PICK k \in 1 .. n : evs[k] = q[i]
          BY <2>3, <4>1, ZenonT(30) DEF q
        <5>2. <<evs[k], evs[n + 1]>> \in R
          BY <2>1, <5>1, SMTT(30)
        <5> QED
          BY <3>2, <4>1, <4>3, <5>1, <5>2 DEF e
      <4> QED
        BY <3>2, <4>2, <4>3
    <3> QED
      BY <3>2, <3>4, <3>5 DEF r
  <2> QED
    BY <2>6, <2>7
<1> HIDE DEF T
<1>5. Nat \subseteq T
  BY <1>3, <1>4, SetInduction
<1>6. Good(Len(evs), f[Len(evs)])
  <2> HIDE DEF Good
  <2> QED
    BY <1>2, <1>5 DEF T
<1> QED
  BY <1>1, <1>6

\* The first occurrence of one more event counts, and no other.
LEMMA WithoutRepeatsAppend ==
    ASSUME NEW S, NEW evs \in Seq(S), NEW e \in S
    PROVE  WithoutRepeats(Append(evs, e))
               = IF Contains(evs, e) THEN WithoutRepeats(evs) ELSE Append(WithoutRepeats(evs), e)
<1> DEFINE N(s) == [i \in 1 .. Len(s) |-> <<i, s[i]>>]
           F(s) == {N(s)[i] : i \in {j \in 1 .. Len(s) : \A k \in 1 .. j - 1 : s[k] # s[j]}}
           D(s) == [i \in 1 .. Len(s) |-> s[i][2]]
           n == Len(evs)
           more == Append(evs, e)
           last == <<n + 1, e>>
           first == Selected(N(evs), F(evs))
<1>1. n \in Nat /\ Len(more) = n + 1 /\ more[n + 1] = e /\ \A i \in 1 .. n : more[i] = evs[i]
  OBVIOUS
<1>2. N(evs) \in Seq(Nat \X S) /\ Len(N(evs)) = n /\ last \in Nat \X S
  <2>1. \A i \in 1 .. n : <<i, evs[i]>> \in Nat \X S
    BY <1>1
  <2> QED
    BY <1>1, <2>1
<1>3. N(more) = Append(N(evs), last)
  <2> HIDE DEF more
  <2>1. N(more) = [i \in 1 .. n + 1 |-> IF i <= n THEN <<i, evs[i]>> ELSE last]
    BY <1>1
  <2> QED
    BY <1>1, <1>2, <2>1
<1>4. WithoutRepeats(evs) = D(first) /\ WithoutRepeats(more) = D(Selected(N(more), F(more)))
  BY DEF WithoutRepeats
<1> HIDE DEF more
<1>5. \A i \in 1 .. n : N(evs)[i] \in F(more) <=> N(evs)[i] \in F(evs)
  <2> SUFFICES ASSUME NEW i \in 1 .. n PROVE N(evs)[i] \in F(more) <=> N(evs)[i] \in F(evs)
    OBVIOUS
  <2>1. N(evs)[i] \in F(evs) <=> \A k \in 1 .. i - 1 : evs[k] # evs[i]
    BY <1>1
  <2>2. i \in 1 .. Len(more) /\ N(more)[i] = N(evs)[i] /\ i - 1 <= n
    BY <1>1
  <2>3. N(more)[i] \in F(more) <=> \A k \in 1 .. i - 1 : more[k] # more[i]
    <3>1. \A j \in 1 .. Len(more) : N(more)[j] = N(more)[i] => j = i
      BY <2>2
    <3> QED
      BY <2>2, <3>1
  <2>4. (\A k \in 1 .. i - 1 : more[k] # more[i]) <=> \A k \in 1 .. i - 1 : evs[k] # evs[i]
    BY <1>1
  <2> QED
    BY <2>1, <2>2, <2>3, <2>4
<1>6. last \in F(more) <=> ~ Contains(evs, e)
  <2>1. n + 1 \in 1 .. Len(more) /\ N(more)[n + 1] = last /\ \A j \in 1 .. Len(more) : N(more)[j] = last => j = n + 1
    BY <1>1
  <2>2. last \in F(more) <=> \A k \in 1 .. (n + 1) - 1 : more[k] # more[n + 1]
    BY <2>1
  <2>3. Contains(evs, e) <=> \E k \in 1 .. n : evs[k] = e
    BY <1>1 DEF Contains
  <2> QED
    BY <1>1, <2>2, <2>3
<1>7. Selected(N(evs), F(more)) = first
  <2> HIDE DEF N, F
  <2> QED
    BY <1>2, <1>5, SelectedSame
<1>8. Selected(N(more), F(more)) = IF Contains(evs, e) THEN first ELSE Append(first, last)
  <2> DEFINE P == Nat \X S
  <2>1. N(evs) \in Seq(P) /\ last \in P
    BY <1>2
  <2> HIDE DEF N, F, first, last, n, P
  <2>2. Selected(Append(N(evs), last), F(more)) = IF last \in F(more) THEN Append(Selected(N(evs), F(more)), last)
                                                 ELSE Selected(N(evs), F(more))
    BY <2>1, SelectedAppend
  <2> QED
    BY <1>3, <1>6, <1>7, <2>2
<1>9. first \in Seq(Nat \X S)
  <2> DEFINE P == Nat \X S
             R == P \X P
  <2>1. N(evs) \in Seq(P) /\ Len(N(evs)) = n
    BY <1>2
  <2> HIDE DEF N, P
  <2>2. \A i, j \in 1 .. Len(N(evs)) : i < j => <<N(evs)[i], N(evs)[j]>> \in R
    BY <2>1
  <2> HIDE DEF F, R
  <2>3. Selected(N(evs), F(evs)) \in Seq(P)
    BY <2>1, <2>2, SelectedKeeps
  <2> QED
    BY <2>3 DEF P
<1> HIDE DEF first, N, F
<1>10. D(Append(first, last)) = Append(D(first), e)
  <2>1. Len(Append(first, last)) = Len(first) + 1 /\ Len(first) \in Nat
        /\ \A i \in 1 .. Len(first) : Append(first, last)[i] = first[i]
        /\ Append(first, last)[Len(first) + 1] = last
    BY <1>2, <1>9
  <2>2. D(Append(first, last)) = [i \in 1 .. Len(first) + 1 |-> IF i <= Len(first) THEN first[i][2] ELSE e]
    BY <2>1
  <2>3. D(first) \in Seq(S) /\ Len(D(first)) = Len(first)
    <3>1. \A i \in 1 .. Len(first) : first[i][2] \in S
      BY <1>9
    <3> QED
      BY <2>1, <3>1
  <2> QED
    BY <2>1, <2>2, <2>3
<1> QED
  BY <1>4, <1>8, <1>10 DEF more

\* A log without repeats is left as it is.
LEMMA WithoutRepeatsSame ==
    ASSUME NEW S, NEW evs \in Seq(S), NoDuplicates(evs)
    PROVE  WithoutRepeats(evs) = evs
<1> DEFINE N == [i \in 1 .. Len(evs) |-> <<i, evs[i]>>]
           F == {N[i] : i \in {j \in 1 .. Len(evs) : \A k \in 1 .. j - 1 : evs[k] # evs[j]}}
<1>1. Len(evs) \in Nat /\ N \in Seq(Nat \X S) /\ Len(N) = Len(evs)
  <2>1. \A i \in 1 .. Len(evs) : <<i, evs[i]>> \in Nat \X S
    OBVIOUS
  <2> QED
    BY <2>1
<1>2. \A i \in 1 .. Len(N) : N[i] \in F
  <2> SUFFICES ASSUME NEW i \in 1 .. Len(evs) PROVE \A k \in 1 .. i - 1 : evs[k] # evs[i]
    BY <1>1
  <2> QED
    BY <1>1 DEF NoDuplicates
<1>3. Selected(N, F) = N
  <2> HIDE DEF N, F
  <2> QED
    BY <1>1, <1>2, SelectedAll
<1>4. WithoutRepeats(evs) = [i \in 1 .. Len(N) |-> N[i][2]]
  BY <1>3 DEF WithoutRepeats
<1> QED
  BY <1>1, <1>4

\* The highest of some numbers up to m.
LEMMA MaxFacts ==
    ASSUME NEW m \in Nat, NEW S, S \subseteq 0 .. m, S # {}
    PROVE  Max(S) \in S /\ \A x \in S : x <= Max(S)
<1> DEFINE T == {n \in Nat : n <= m /\ m - n \in S}
           Less == OpToRel(<, Nat)
<1>1. \A x, y \in Nat : <<x, y>> \in Less <=> x < y
  BY DEF OpToRel
<1>2. IsWellFoundedOn(Less, Nat)
  BY NatLessThanWellFounded
<1>3. T \subseteq Nat /\ T # {}
  <2>1. PICK x \in S : TRUE
    OBVIOUS
  <2>2. x \in Nat /\ x <= m /\ m - x \in Nat /\ m - x <= m /\ m - (m - x) = x
    BY <2>1
  <2>3. m - x \in T
    BY <2>1, <2>2
  <2> QED
    BY <2>3
<1> HIDE DEF Less
<1>4. PICK n \in T : \A k \in T : ~ (<<k, n>> \in Less)
  <2> HIDE DEF T
  <2> QED
    BY <1>2, <1>3, WFMin
<1>5. m - n \in S /\ n \in Nat /\ n <= m
  BY <1>4
<1>6. ASSUME NEW x \in S PROVE x <= m - n
  <2>1. x \in Nat /\ x <= m
    OBVIOUS
  <2>2. m - x \in Nat /\ m - x <= m /\ m - (m - x) = x
    BY <2>1
  <2>3. m - x \in T
    BY <2>2
  <2>4. ~ (m - x < n)
    BY <1>1, <1>4, <1>5, <2>2, <2>3
  <2> QED
    BY <1>5, <2>1, <2>2, <2>4
<1>7. \E x \in S : \A y \in S : x >= y
  <2>1. m - n >= m - n
    BY <1>5
  <2> QED
    BY <1>5, <1>6
<1>8. Max(S) \in S /\ \A y \in S : Max(S) >= y
  BY <1>7 DEF Max
<1> QED
  BY <1>8

==============================================================================
