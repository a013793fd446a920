------------------------ MODULE WorkflowAgentsProofs ------------------------
(***************************************************************************)
(* Proofs about module WorkflowAgents, for every finite tree of agents and *)
(* every bound: types; what a persisted checkpoint counts has run to its   *)
(* end; after a pause or an escalation nothing begins that a pipeline      *)
(* would run next; a finished leaf of nested sequences does not run again  *)
(* when the invocation is resumed.                                         *)
(*                                                                         *)
(* The inductive invariant, TreeInv, says what has ended and how: above an *)
(* agent under way everything runs, and is at its place; what a pipeline   *)
(* has passed is done, with all its leaves; and the pipelines above a leaf *)
(* that stopped stay at it.                                                *)
(***************************************************************************)
EXTENDS WorkflowAgents, EventLogProofs, FiniteSetTheorems

-----------------------------------------------------------------------------
(* The tree.                                                               *)

Under(m) == {d \in Agent : IsPrefix(m, d)}
Below(m) == {d \in Agent : IsStrictPrefix(m, d)}

LEMMA PrefixIs ==
    ASSUME NEW s \in Seq(Nat), NEW t \in Seq(Nat)
    PROVE  /\ IsPrefix(s, t) <=> Len(s) <= Len(t) /\ \A i \in 1 .. Len(s) : s[i] = t[i]
           /\ IsStrictPrefix(s, t) <=> Len(s) < Len(t) /\ \A i \in 1 .. Len(s) : s[i] = t[i]
<1>1. Len(s) \in Nat /\ Len(t) \in Nat
  OBVIOUS
<1>2. ASSUME Len(s) <= Len(t)
      PROVE  SubSeq(s, 1, Len(s)) = SubSeq(t, 1, Len(s)) <=> \A i \in 1 .. Len(s) : s[i] = t[i]
  <2> DEFINE a == SubSeq(s, 1, Len(s))
             b == SubSeq(t, 1, Len(s))
  <2>1. a \in Seq(Nat) /\ Len(a) = Len(s) /\ \A i \in 1 .. Len(s) : a[i] = s[i]
    BY <1>1
  <2>2. b \in Seq(Nat) /\ Len(b) = Len(s) /\ \A i \in 1 .. Len(s) : b[i] = t[i]
    BY <1>1, <1>2
  <2> HIDE DEF a, b
  <2>3. a = b <=> \A i \in 1 .. Len(s) : a[i] = b[i]
    <3>1. Len(a) = Len(b)
      BY <2>1, <2>2
    <3>2. (\A i \in 1 .. Len(a) : a[i] = b[i]) => a = b
      BY <2>1, <2>2, <3>1, SeqEqual
    <3> QED
      BY <2>1, <3>2
  <2>4. a = b <=> \A i \in 1 .. Len(s) : s[i] = t[i]
    BY <2>1, <2>2, <2>3
  <2> QED
    BY <2>4 DEF a, b
<1>3. IsPrefix(s, t) <=> Len(s) <= Len(t) /\ \A i \in 1 .. Len(s) : s[i] = t[i]
  BY <1>2 DEF IsPrefix
<1>4. ASSUME Len(s) = Len(t), \A i \in 1 .. Len(s) : s[i] = t[i] PROVE s = t
  BY <1>1, <1>4
<1>5. IsStrictPrefix(s, t) <=> Len(s) < Len(t) /\ \A i \in 1 .. Len(s) : s[i] = t[i]
  BY <1>1, <1>3, <1>4 DEF IsStrictPrefix
<1> QED
  BY <1>3, <1>5

\* Agents are ordered by their paths.
LEMMA PathOrder ==
    /\ \A n \in Agent : IsPrefix(n, n) /\ IsPrefix(Root, n)
    /\ \A m, n \in Agent : IsPrefix(m, n) <=> IsStrictPrefix(m, n) \/ m = n
    /\ \A m, n \in Agent : IsStrictPrefix(m, n) => m # n /\ ~ IsPrefix(n, m)
    /\ \A m, n, d \in Agent : IsPrefix(m, n) /\ IsPrefix(n, d) => IsPrefix(m, d)
    /\ \A m, n, d \in Agent : IsStrictPrefix(m, n) /\ IsPrefix(n, d) => IsStrictPrefix(m, d)
    /\ \A m, n, d \in Agent : IsPrefix(m, n) /\ IsStrictPrefix(n, d) => IsStrictPrefix(m, d)
    /\ \A m, n, d \in Agent : IsPrefix(m, d) /\ IsPrefix(n, d) => IsPrefix(m, n) \/ IsStrictPrefix(n, m)
<1>1. Agent \subseteq Seq(Nat) /\ Root \in Agent
  BY TreeAssumption
<1>2. ASSUME NEW n \in Agent PROVE IsPrefix(n, n) /\ IsPrefix(Root, n)
  BY <1>1, PrefixIs DEF Root
<1>3. ASSUME NEW m \in Agent, NEW n \in Agent
      PROVE  /\ IsPrefix(m, n) <=> IsStrictPrefix(m, n) \/ m = n
             /\ IsStrictPrefix(m, n) => m # n /\ ~ IsPrefix(n, m)
  <2>1. Len(m) \in Nat /\ Len(n) \in Nat
    BY <1>1
  <2>2. IsPrefix(m, n) <=> IsStrictPrefix(m, n) \/ m = n
    BY <1>2 DEF IsStrictPrefix
  <2>3. ASSUME IsStrictPrefix(m, n) PROVE ~ IsPrefix(n, m)
    <3>1. Len(m) < Len(n)
      BY <1>1, <2>3, PrefixIs
    <3> QED
      BY <1>1, <2>1, <3>1, PrefixIs
  <2> QED
    BY <1>2, <2>2, <2>3
<1>4. ASSUME NEW m \in Agent, NEW n \in Agent, NEW d \in Agent
      PROVE  /\ IsPrefix(m, n) /\ IsPrefix(n, d) => IsPrefix(m, d)
             /\ IsStrictPrefix(m, n) /\ IsPrefix(n, d) => IsStrictPrefix(m, d)
             /\ IsPrefix(m, n) /\ IsStrictPrefix(n, d) => IsStrictPrefix(m, d)
             /\ IsPrefix(m, d) /\ IsPrefix(n, d) => IsPrefix(m, n) \/ IsStrictPrefix(n, m)
  <2>1. Len(m) \in Nat /\ Len(n) \in Nat /\ Len(d) \in Nat
    BY <1>1
  <2>2. \A s, t \in {m, n, d} :
            /\ IsPrefix(s, t) <=> Len(s) <= Len(t) /\ \A i \in 1 .. Len(s) : s[i] = t[i]
            /\ IsStrictPrefix(s, t) <=> Len(s) < Len(t) /\ \A i \in 1 .. Len(s) : s[i] = t[i]
    <3> SUFFICES ASSUME NEW s \in {m, n, d}, NEW t \in {m, n, d}
                 PROVE  /\ IsPrefix(s, t) <=> Len(s) <= Len(t) /\ \A i \in 1 .. Len(s) : s[i] = t[i]
                        /\ IsStrictPrefix(s, t) <=> Len(s) < Len(t) /\ \A i \in 1 .. Len(s) : s[i] = t[i]
      BY Zenon
    <3>1. s \in Seq(Nat) /\ t \in Seq(Nat)
      BY <1>1
    <3> QED
      BY <3>1, PrefixIs
  <2>3. IsPrefix(m, n) /\ IsPrefix(n, d) => IsPrefix(m, d)
    BY <2>1, <2>2
  <2>4. IsStrictPrefix(m, n) /\ IsPrefix(n, d) => IsStrictPrefix(m, d)
    BY <2>1, <2>2
  <2>5. IsPrefix(m, n) /\ IsStrictPrefix(n, d) => IsStrictPrefix(m, d)
    BY <2>1, <2>2
  <2>6. IsPrefix(m, d) /\ IsPrefix(n, d) => IsPrefix(m, n) \/ IsStrictPrefix(n, m)
    BY <2>1, <2>2
  <2> QED
    BY <2>3, <2>4, <2>5, <2>6
<1> QED
  BY <1>2, <1>3, <1>4

\* A sub-agent is its parent's path and its number.
LEMMA SubIs ==
    ASSUME NEW n \in Agent, NEW i \in Nat
    PROVE  /\ Sub(n, i) \in Seq(Nat) /\ Len(Sub(n, i)) = Len(n) + 1 /\ Sub(n, i)[Len(n) + 1] = i
           /\ \A k \in 1 .. Len(n) : Sub(n, i)[k] = n[k]
           /\ Front(Sub(n, i)) = n /\ Sub(n, i) # Root /\ Last(Sub(n, i)) = i
<1>1. n \in Seq(Nat) /\ Len(n) \in Nat
  BY TreeAssumption
<1> DEFINE s == Sub(n, i)
<1>2. s \in Seq(Nat) /\ Len(s) = Len(n) + 1 /\ s[Len(n) + 1] = i /\ \A k \in 1 .. Len(n) : s[k] = n[k]
  BY <1>1 DEF Sub
<1> HIDE DEF s
<1>3. Front(s) = n
  <2> DEFINE f == SubSeq(s, 1, Len(s) - 1)
  <2>1. f \in Seq(Nat) /\ Len(f) = Len(n) /\ \A k \in 1 .. Len(n) : f[k] = n[k]
    BY <1>1, <1>2
  <2> HIDE DEF f
  <2>2. f = n
    BY <1>1, <2>1
  <2> QED
    BY <2>2 DEF Front, f
<1>4. s # Root /\ Last(s) = i
  BY <1>1, <1>2 DEF Root, Last
<1> QED
  BY <1>2, <1>3, <1>4 DEF s

LEMMA TreeFacts ==
    /\ Agent \subseteq Seq(Nat) /\ Root \in Agent /\ Kind \in [Agent -> {"leaf", "sequential", "loop", "parallel"}]
    /\ \A n \in Agent : Count[n] \in Nat /\ SubAgents(n) = {Sub(n, i) : i \in 1 .. Count[n]}
    /\ \A n \in Agent : Kind[n] # "leaf" => Count[n] >= 1
    /\ \A n \in Agent : Kind[n] = "leaf" => SubAgents(n) = {}
    /\ \A n \in Agent \ {Root} : Front(n) \in Agent /\ n \in SubAgents(Front(n))
    /\ \A n \in Agent : SubAgents(n) \subseteq Agent \ {Root}
<1>1. ASSUME NEW n \in Agent PROVE Count[n] \in Nat
  <2>1. SubAgents(n) \subseteq Agent
    BY DEF SubAgents
  <2>2. IsFiniteSet(SubAgents(n))
    BY <2>1, FS_Subset, TreeAssumption
  <2> QED
    BY <2>2, FS_CardinalityType DEF Count
<1>2. ASSUME NEW n \in Agent, Kind[n] # "leaf" PROVE Count[n] >= 1
  <2>1. SubAgents(n) # {} /\ SubAgents(n) = {Sub(n, i) : i \in 1 .. Count[n]}
    BY <1>2, TreeAssumption
  <2> QED
    BY <1>1, <2>1
<1> QED
  BY <1>1, <1>2, TreeAssumption DEF SubAgents

\* Parents, sub-agents and the order.
LEMMA SubOrder ==
    ASSUME NEW n \in Agent, NEW m \in SubAgents(n)
    PROVE  /\ m \in Agent /\ m # Root /\ Front(m) = n /\ m[Len(n) + 1] \in 1 .. Count[n] /\ m = Sub(n, m[Len(n) + 1])
           /\ Kind[n] # "leaf" /\ IsStrictPrefix(n, m) /\ IsPrefix(n, m)
           /\ \A v \in Agent : IsStrictPrefix(v, m) <=> IsPrefix(v, n)
           /\ \A d \in Agent : IsPrefix(m, d) <=> IsStrictPrefix(n, d) /\ d[Len(n) + 1] = m[Len(n) + 1]
<1>1. PICK i \in 1 .. Count[n] : m = Sub(n, i)
  BY TreeFacts
<1>2. /\ m \in Agent /\ m # Root /\ n \in Seq(Nat) /\ m \in Seq(Nat) /\ Len(n) \in Nat /\ i \in Nat /\ Front(m) = n
      /\ Len(m) = Len(n) + 1 /\ m[Len(n) + 1] = i /\ \A k \in 1 .. Len(n) : m[k] = n[k]
  <2>1. i \in Nat /\ m \in Agent /\ n \in Seq(Nat) /\ m \in Seq(Nat) /\ Len(n) \in Nat
    BY TreeFacts
  <2> QED
    BY <1>1, <2>1, SubIs
<1>3. Kind[n] # "leaf"
  BY TreeFacts
<1>4. IsStrictPrefix(n, m) /\ IsPrefix(n, m)
  BY <1>2, PrefixIs
<1>5. ASSUME NEW v \in Agent PROVE IsStrictPrefix(v, m) <=> IsPrefix(v, n)
  <2>1. v \in Seq(Nat) /\ Len(v) \in Nat
    BY TreeFacts
  <2>2. IsStrictPrefix(v, m) <=> Len(v) < Len(m) /\ \A k \in 1 .. Len(v) : v[k] = m[k]
    BY <1>2, <2>1, PrefixIs
  <2>3. IsPrefix(v, n) <=> Len(v) <= Len(n) /\ \A k \in 1 .. Len(v) : v[k] = n[k]
    BY <1>2, <2>1, PrefixIs
  <2>4. Len(v) < Len(m) <=> Len(v) <= Len(n)
    BY <1>2, <2>1
  <2>5. ASSUME Len(v) <= Len(n), NEW k \in 1 .. Len(v) PROVE m[k] = n[k]
    BY <1>2, <2>1, <2>5
  <2> QED
    BY <2>2, <2>3, <2>4, <2>5
<1>6. ASSUME NEW d \in Agent PROVE IsPrefix(m, d) <=> IsStrictPrefix(n, d) /\ d[Len(n) + 1] = m[Len(n) + 1]
  <2>1. d \in Seq(Nat) /\ Len(d) \in Nat
    BY TreeFacts
  <2>2. IsPrefix(m, d) <=> Len(m) <= Len(d) /\ \A k \in 1 .. Len(m) : m[k] = d[k]
    BY <1>2, <2>1, PrefixIs
  <2>3. IsStrictPrefix(n, d) <=> Len(n) < Len(d) /\ \A k \in 1 .. Len(n) : n[k] = d[k]
    BY <1>2, <2>1, PrefixIs
  <2>4. (\A k \in 1 .. Len(m) : m[k] = d[k]) <=> m[Len(n) + 1] = d[Len(n) + 1] /\ \A k \in 1 .. Len(n) : m[k] = d[k]
    <3>1. 1 .. Len(m) = (1 .. Len(n)) \cup {Len(n) + 1}
      BY <1>2
    <3> QED
      BY <3>1
  <2>5. Len(m) <= Len(d) <=> Len(n) < Len(d)
    BY <1>2, <2>1
  <2> QED
    BY <1>2, <2>2, <2>3, <2>4, <2>5
<1> QED
  BY <1>1, <1>2, <1>3, <1>4, <1>5, <1>6

\* The sub-agents of n are its numbers.
LEMMA Numbered ==
    ASSUME NEW n \in Agent, NEW i \in 1 .. Count[n]
    PROVE  /\ Sub(n, i) \in SubAgents(n) /\ Sub(n, i) \in Agent /\ Sub(n, i)[Len(n) + 1] = i
           /\ \A j \in 1 .. Count[n] : Sub(n, j) = Sub(n, i) => j = i
<1>1. \A j \in 1 .. Count[n] : Sub(n, j) \in SubAgents(n) /\ j \in Nat
  BY TreeFacts
<1>2. \A j \in 1 .. Count[n] : Sub(n, j)[Len(n) + 1] = j
  BY <1>1, SubIs
<1> QED
  BY <1>1, <1>2, TreeFacts

LEMMA FirstOnes ==
    ASSUME NEW s \in Seq(Nat), NEW m \in 0 .. Len(s)
    PROVE  /\ SubSeq(s, 1, m) \in Seq(Nat) /\ Len(SubSeq(s, 1, m)) = m
           /\ \A j \in 1 .. m : SubSeq(s, 1, m)[j] = s[j]
OBVIOUS

LEMMA FrontOfFront ==
    ASSUME NEW n \in Seq(Nat), NEW k \in Nat, Len(n) >= k + 1
    PROVE  LET f == SubSeq(n, 1, Len(n) - 1)
           IN  Len(f) >= k /\ SubSeq(f, 1, Len(f) - k) = SubSeq(n, 1, Len(n) - (k + 1))
<1> DEFINE f == SubSeq(n, 1, Len(n) - 1)
           a == SubSeq(f, 1, Len(f) - k)
           b == SubSeq(n, 1, Len(n) - (k + 1))
<1>1. Len(n) \in Nat
  OBVIOUS
<1>2. f \in Seq(Nat) /\ Len(f) = Len(n) - 1 /\ \A j \in 1 .. Len(n) - 1 : f[j] = n[j]
  <2>1. Len(n) - 1 \in 0 .. Len(n)
    BY <1>1
  <2> QED
    BY <1>1, <2>1, FirstOnes
<1> HIDE DEF f
<1>3. a \in Seq(Nat) /\ Len(a) = Len(n) - (k + 1) /\ \A j \in 1 .. Len(n) - (k + 1) : a[j] = n[j]
  <2>1. Len(f) - k \in 0 .. Len(f) /\ Len(f) - k = Len(n) - (k + 1)
    BY <1>1, <1>2
  <2>2. a \in Seq(Nat) /\ Len(a) = Len(f) - k /\ \A j \in 1 .. Len(f) - k : a[j] = f[j]
    BY <1>2, <2>1, FirstOnes
  <2>3. \A j \in 1 .. Len(f) - k : j \in 1 .. Len(n) - 1
    BY <1>1, <2>1
  <2> QED
    BY <1>2, <2>1, <2>2, <2>3
<1>4. b \in Seq(Nat) /\ Len(b) = Len(n) - (k + 1) /\ \A j \in 1 .. Len(n) - (k + 1) : b[j] = n[j]
  BY <1>1
<1> HIDE DEF a, b
<1>5. a = b
  BY <1>3, <1>4, SeqEqual
<1>6. Len(f) >= k
  BY <1>1, <1>2
<1> QED
  BY <1>5, <1>6 DEF a, b, f

\* The prefixes of an agent are agents; what is under n is n or under a sub-agent.
LEMMA PathIsAgents ==
    ASSUME NEW d \in Agent
    PROVE  /\ \A v \in Seq(Nat) : IsPrefix(v, d) => v \in Agent
           /\ \A n \in Agent : IsStrictPrefix(n, d) =>
                  /\ d[Len(n) + 1] \in 1 .. Count[n] /\ Kind[n] # "leaf"
                  /\ Sub(n, d[Len(n) + 1]) \in SubAgents(n) /\ IsPrefix(Sub(n, d[Len(n) + 1]), d)
<1> DEFINE S == {k \in Nat : \A n \in Agent : Len(n) >= k => SubSeq(n, 1, Len(n) - k) \in Agent}
<1>1. 0 \in S
  <2>1. ASSUME NEW n \in Agent PROVE SubSeq(n, 1, Len(n) - 0) = n
    BY TreeFacts
  <2> QED
    BY <2>1
<1>2. ASSUME NEW k \in Nat, k \in S PROVE k + 1 \in S
  <2> SUFFICES ASSUME NEW n \in Agent, Len(n) >= k + 1 PROVE SubSeq(n, 1, Len(n) - (k + 1)) \in Agent
    OBVIOUS
  <2>1. n \in Seq(Nat) /\ Len(n) \in Nat /\ Len(n) > 0
    BY TreeFacts
  <2>2. n # Root
    BY <2>1 DEF Root
  <2>3. Front(n) \in Agent /\ Front(n) = SubSeq(n, 1, Len(n) - 1)
    BY <2>2, TreeFacts DEF Front
  <2>4. /\ Len(Front(n)) >= k
        /\ SubSeq(Front(n), 1, Len(Front(n)) - k) = SubSeq(n, 1, Len(n) - (k + 1))
    BY <2>1, <2>3, FrontOfFront
  <2> QED
    BY <1>2, <2>3, <2>4
<1>3. Nat \subseteq S
  <2> HIDE DEF S
  <2> QED
    BY <1>1, <1>2, SetInduction
<1>4. d \in Seq(Nat) /\ Len(d) \in Nat
  BY TreeFacts
<1>5. ASSUME NEW v \in Seq(Nat), IsPrefix(v, d) PROVE v \in Agent
  <2>1. Len(v) \in Nat /\ Len(v) <= Len(d) /\ \A i \in 1 .. Len(v) : v[i] = d[i]
    BY <1>4, <1>5, PrefixIs
  <2>2. Len(d) - Len(v) \in Nat /\ Len(d) >= Len(d) - Len(v) /\ Len(d) - (Len(d) - Len(v)) = Len(v)
    BY <1>4, <2>1
  <2>3. SubSeq(d, 1, Len(v)) \in Agent
    BY <1>3, <2>2
  <2> DEFINE a == SubSeq(d, 1, Len(v))
  <2>4. a \in Seq(Nat) /\ Len(a) = Len(v) /\ \A i \in 1 .. Len(v) : a[i] = d[i]
    BY <1>4, <2>1
  <2> HIDE DEF a
  <2>5. a = v
    BY <2>1, <2>4
  <2> QED
    BY <2>3, <2>5 DEF a
<1>6. ASSUME NEW n \in Agent, IsStrictPrefix(n, d)
      PROVE  /\ d[Len(n) + 1] \in 1 .. Count[n] /\ Kind[n] # "leaf"
             /\ Sub(n, d[Len(n) + 1]) \in SubAgents(n) /\ IsPrefix(Sub(n, d[Len(n) + 1]), d)
  <2>1. n \in Seq(Nat) /\ Len(n) \in Nat /\ Len(n) < Len(d) /\ \A i \in 1 .. Len(n) : n[i] = d[i]
    BY <1>4, <1>6, PrefixIs, TreeFacts
  <2>2. PICK i \in Nat : i = d[Len(n) + 1]
    BY <1>4, <2>1
  <2> DEFINE s == Sub(n, i)
  <2>3. s \in Seq(Nat) /\ Len(s) = Len(n) + 1 /\ s[Len(n) + 1] = i /\ (\A k \in 1 .. Len(n) : s[k] = n[k]) /\ Front(s) = n /\ s # Root
    BY SubIs
  <2> HIDE DEF s
  <2>4. IsPrefix(s, d)
    <3>1. Len(s) <= Len(d)
      BY <1>4, <2>1, <2>3
    <3>2. \A k \in 1 .. Len(s) : s[k] = d[k]
      BY <2>1, <2>2, <2>3
    <3> QED
      BY <1>4, <2>3, <3>1, <3>2, PrefixIs
  <2>5. s \in SubAgents(n)
    BY <1>5, <2>3, <2>4 DEF SubAgents
  <2>6. i \in 1 .. Count[n] /\ Kind[n] # "leaf"
    BY <2>3, <2>5, SubOrder
  <2> QED
    BY <2>2, <2>4, <2>5, <2>6 DEF s
<1> QED
  BY <1>5, <1>6

\* A set of positions has a first one.
LEMMA LeastOne ==
    ASSUME NEW L \in Nat, NEW D \in SUBSET (1 .. L), D # {}
    PROVE  \E k \in D : \A j \in D : k <= j
<1> DEFINE N == {L - j : j \in D}
<1>1. N \subseteq 0 .. L /\ N # {}
  <2>1. ASSUME NEW j \in D PROVE L - j \in 0 .. L
    BY j \in 1 .. L
  <2> QED
    BY <2>1
<1>2. \A j \in D : L - j \in N
  OBVIOUS
<1>3. \A x \in N : \E j \in D : x = L - j
  OBVIOUS
<1> HIDE DEF N
<1>4. PICK x \in N : \A y \in N : y <= x
  BY <1>1, MaxFacts
<1>5. PICK k \in D : x = L - k
  BY <1>3
<1>6. ASSUME NEW j \in D PROVE k <= j
  <2>1. L - j <= L - k
    BY <1>2, <1>4, <1>5
  <2>2. j \in Nat /\ k \in Nat
    OBVIOUS
  <2> QED
    BY <2>1, <2>2
<1> QED
  BY <1>6

LEMMA Earlier ==
    ASSUME NEW Q \in Nat, NEW L \in Nat, NEW k \in 1 .. Q, k <= L, NEW j \in 1 .. k - 1
    PROVE  j \in 1 .. Q /\ j <= L /\ ~ k <= j
OBVIOUS

\* Two agents part at a common ancestor, or one is under the other.
LEMMA Parting ==
    ASSUME NEW q \in Agent, NEW l \in Agent, ~ IsPrefix(q, l), ~ IsPrefix(l, q)
    PROVE  \E c \in Agent : IsStrictPrefix(c, q) /\ IsStrictPrefix(c, l) /\ q[Len(c) + 1] # l[Len(c) + 1]
<1>1. q \in Seq(Nat) /\ l \in Seq(Nat) /\ Len(q) \in Nat /\ Len(l) \in Nat
  BY TreeFacts
<1> DEFINE D == {k \in 1 .. Len(q) : k <= Len(l) /\ q[k] # l[k]}
<1>a. D \subseteq 1 .. Len(q)
  OBVIOUS
<1>b. \A k \in D : k <= Len(l) /\ q[k] # l[k]
  OBVIOUS
<1>c. \A k \in 1 .. Len(q) : k <= Len(l) /\ q[k] # l[k] => k \in D
  OBVIOUS
<1> HIDE DEF D
<1>2. D # {}
  <2> SUFFICES ASSUME D = {} PROVE FALSE
    OBVIOUS
  <2>1. \A k \in 1 .. Len(q) : k <= Len(l) => q[k] = l[k]
    BY <1>c
  <2>2. CASE Len(q) <= Len(l)
    <3>1. \A k \in 1 .. Len(q) : q[k] = l[k]
      BY <1>1, <2>1, <2>2
    <3> QED
      BY <1>1, <2>2, <3>1, PrefixIs
  <2>3. CASE Len(l) <= Len(q)
    <3>1. \A k \in 1 .. Len(l) : k \in 1 .. Len(q) /\ k <= Len(l)
      BY <1>1, <2>3
    <3>2. \A k \in 1 .. Len(l) : l[k] = q[k]
      BY <2>1, <3>1
    <3> QED
      BY <1>1, <2>3, <3>2, PrefixIs
  <2> QED
    BY <1>1, <2>2, <2>3
<1>3. PICK k \in D : \A j \in D : k <= j
  BY <1>1, <1>2, <1>a, LeastOne
<1>4. k \in 1 .. Len(q) /\ k <= Len(l) /\ q[k] # l[k] /\ k - 1 \in 0 .. Len(q) /\ k - 1 < Len(l) /\ k - 1 < Len(q) /\ (k - 1) + 1 = k
  <2>1. k \in 1 .. Len(q) /\ k <= Len(l) /\ q[k] # l[k]
    BY <1>a, <1>b
  <2> QED
    BY <1>1, <2>1
<1> DEFINE c == SubSeq(q, 1, k - 1)
<1>5. c \in Seq(Nat) /\ Len(c) = k - 1 /\ \A j \in 1 .. k - 1 : c[j] = q[j]
  BY <1>1, <1>4, FirstOnes
<1> HIDE DEF c
<1>6. \A j \in 1 .. k - 1 : q[j] = l[j]
  <2> SUFFICES ASSUME NEW j \in 1 .. k - 1, q[j] # l[j] PROVE FALSE
    OBVIOUS
  <2>1. j \in 1 .. Len(q) /\ j <= Len(l) /\ ~ k <= j
    BY <1>1, <1>4, Earlier
  <2>2. j \in D
    BY <1>c, <2>1
  <2> QED
    BY <1>3, <2>1, <2>2
<1>7. IsStrictPrefix(c, q) /\ IsStrictPrefix(c, l) /\ IsPrefix(c, q)
  <2>1. Len(c) < Len(q) /\ Len(c) < Len(l) /\ \A j \in 1 .. Len(c) : c[j] = q[j] /\ c[j] = l[j]
    BY <1>4, <1>5, <1>6
  <2>2. IsStrictPrefix(c, q) /\ IsStrictPrefix(c, l)
    BY <1>1, <1>5, <2>1, PrefixIs
  <2> QED
    BY <2>2 DEF IsStrictPrefix
<1>8. c \in Agent
  BY <1>5, <1>7, PathIsAgents
<1> QED
  BY <1>4, <1>5, <1>7, <1>8

-----------------------------------------------------------------------------
(* The tasks.                                                              *)

\* An agent is polled by the task of the nearest top above it.
LEMMA TopOfIs ==
    ASSUME NEW n \in Agent
    PROVE  TopOf[n] \in Top /\ TopOf[n] \in Agent /\ IsPrefix(TopOf[n], n)
           /\ \A u \in Top : IsPrefix(u, n) => IsPrefix(u, TopOf[n])
<1>1. Top \subseteq Agent /\ Root \in Top
  BY TreeFacts DEF Top, Branch
<1> DEFINE T == {u \in Top : IsPrefix(u, n)}
           N == {Len(u) : u \in T}
<1>2. Root \in T
  BY <1>1, PathOrder
<1>3. n \in Seq(Nat) /\ Len(n) \in Nat
  BY TreeFacts
<1>4. \A u \in T : u \in Seq(Nat) /\ Len(u) \in Nat /\ Len(u) <= Len(n)
  <2> SUFFICES ASSUME NEW u \in T PROVE u \in Seq(Nat) /\ Len(u) \in Nat /\ Len(u) <= Len(n)
    OBVIOUS
  <2>1. u \in Seq(Nat) /\ IsPrefix(u, n)
    BY <1>1, TreeFacts
  <2> QED
    BY <1>3, <2>1, PrefixIs
<1> HIDE DEF T
<1>5. N # {} /\ N \subseteq 0 .. Len(n)
  <2>1. ASSUME NEW x \in N PROVE x \in 0 .. Len(n)
    <3>1. PICK u \in T : x = Len(u)
      OBVIOUS
    <3> QED
      BY <1>3, <1>4, <3>1
  <2>2. Len(Root) \in N
    BY <1>2
  <2> QED
    BY <2>1, <2>2
<1>6. PICK t \in T : \A u \in T : Len(u) <= Len(t)
  <2> HIDE DEF N
  <2>1. PICK x \in N : \A y \in N : y <= x
    BY <1>3, <1>5, MaxFacts
  <2> QED
    BY <2>1 DEF N
<1>7. \A u \in Top : IsPrefix(u, n) => IsPrefix(u, t)
  <2> SUFFICES ASSUME NEW u \in T PROVE IsPrefix(u, t)
    BY DEF T
  <2>1. t \in Agent /\ u \in Agent /\ IsPrefix(t, n) /\ IsPrefix(u, n)
    BY <1>1 DEF T
  <2>2. IsPrefix(u, t) \/ IsStrictPrefix(t, u)
    BY <2>1, PathOrder
  <2>3. ~ IsStrictPrefix(t, u)
    <3>1. Len(u) <= Len(t) /\ t \in Seq(Nat) /\ u \in Seq(Nat) /\ Len(t) \in Nat /\ Len(u) \in Nat
      BY <1>4, <1>6
    <3> QED
      BY <3>1, PrefixIs
  <2> QED
    BY <2>2, <2>3
<1>8. \E x \in Top : IsPrefix(x, n) /\ \A u \in Top : IsPrefix(u, n) => IsPrefix(u, x)
  BY <1>7 DEF T
<1>9. TopOf[n] = CHOOSE x \in Top : IsPrefix(x, n) /\ \A u \in Top : IsPrefix(u, n) => IsPrefix(u, x)
  BY DEF TopOf
<1> QED
  BY <1>1, <1>8, <1>9

\* The task of a sub-agent is its parent's, but under a parallel agent.
LEMMA TaskOfSub ==
    ASSUME NEW n \in Agent, NEW m \in SubAgents(n)
    PROVE  /\ m \in Branch <=> Kind[n] = "parallel"
           /\ m \in Top <=> Kind[n] = "parallel"
           /\ Kind[n] = "parallel" => TopOf[m] = m
           /\ Kind[n] # "parallel" => TopOf[m] = TopOf[n]
<1>1. m \in Agent /\ n \in Agent /\ m # Root /\ Front(m) = n /\ IsStrictPrefix(n, m) /\ IsPrefix(n, m)
  BY SubOrder
<1>2. (m \in Branch <=> Kind[n] = "parallel") /\ (m \in Top <=> Kind[n] = "parallel")
  BY <1>1 DEF Branch, Top
<1>3. Top \subseteq Agent
  BY TreeFacts DEF Top, Branch
<1>4. ASSUME Kind[n] = "parallel" PROVE TopOf[m] = m
  <2>1. m \in Top /\ IsPrefix(m, m) /\ TopOf[m] \in Agent
    BY <1>1, <1>2, <1>4, PathOrder, TopOfIs
  <2>2. IsPrefix(m, TopOf[m]) /\ IsPrefix(TopOf[m], m)
    BY <1>1, <2>1, TopOfIs
  <2> QED
    BY <1>1, <2>1, <2>2, PathOrder
<1>5. ASSUME Kind[n] # "parallel" PROVE TopOf[m] = TopOf[n]
  <2> DEFINE t == TopOf[m]
             u == TopOf[n]
  <2>1. t \in Top /\ u \in Top /\ t \in Agent /\ u \in Agent /\ IsPrefix(t, m) /\ IsPrefix(u, n)
        /\ (\A x \in Top : IsPrefix(x, m) => IsPrefix(x, t)) /\ (\A x \in Top : IsPrefix(x, n) => IsPrefix(x, u))
    BY <1>1, TopOfIs
  <2> HIDE DEF t, u
  <2>2. t # m
    BY <1>2, <1>5, <2>1
  <2>3. IsPrefix(t, n)
    BY <1>1, <2>1, <2>2, PathOrder, SubOrder
  <2>4. IsPrefix(t, u)
    BY <2>1, <2>3
  <2>5. IsPrefix(u, t)
    BY <1>1, <2>1, PathOrder
  <2>6. t = u
    BY <2>1, <2>4, <2>5, PathOrder
  <2> QED
    BY <2>6 DEF t, u
<1> QED
  BY <1>2, <1>4, <1>5

\* What polls an agent: the pipelines above it in its task.
LEMMA AboveIs ==
    ASSUME NEW d \in Agent
    PROVE  /\ Above[d] \subseteq Pipeline /\ d \in TaskOf(TopOf[d]) /\ Above[d] \subseteq TaskOf(TopOf[d])
           /\ \A v \in Agent : v \in Above[d] <=> TopOf[v] = TopOf[d] /\ IsStrictPrefix(v, d)
           /\ d \in Top => TopOf[d] = d /\ Above[d] = {}
<1>1. \A v \in Agent : v \in Above[d] <=> TopOf[v] = TopOf[d] /\ IsStrictPrefix(v, d)
  BY DEF Above, TaskOf
<1>2. Above[d] \subseteq TaskOf(TopOf[d]) /\ d \in TaskOf(TopOf[d]) /\ Above[d] \subseteq Agent
  BY DEF Above, TaskOf
<1>3. ASSUME NEW v \in Above[d] PROVE v \in Pipeline
  <2>1. v \in Agent /\ TopOf[v] = TopOf[d] /\ IsStrictPrefix(v, d)
    BY <1>1, <1>2
  <2>2. Kind[v] # "leaf"
    BY <2>1, PathIsAgents
  <2>3. ASSUME Kind[v] = "parallel" PROVE FALSE
    <3> DEFINE c == Sub(v, d[Len(v) + 1])
    <3>1. c \in SubAgents(v) /\ IsPrefix(c, d)
      BY <2>1, PathIsAgents
    <3> HIDE DEF c
    <3>2. c \in Agent /\ c \in Top /\ IsStrictPrefix(v, c)
      BY <2>1, <2>3, <3>1, SubOrder, TaskOfSub
    <3>3. IsPrefix(c, TopOf[v])
      BY <2>1, <3>1, <3>2, TopOfIs
    <3>4. IsPrefix(TopOf[v], v) /\ TopOf[v] \in Agent
      BY <2>1, TopOfIs
    <3>5. IsPrefix(c, v)
      BY <2>1, <3>2, <3>3, <3>4, PathOrder
    <3> QED
      BY <2>1, <3>2, <3>5, PathOrder
  <2> QED
    BY <2>1, <2>2, <2>3, TreeFacts DEF Pipeline, Kinds
<1>4. ASSUME d \in Top PROVE TopOf[d] = d /\ Above[d] = {}
  <2>1. IsPrefix(d, TopOf[d]) /\ IsPrefix(TopOf[d], d) /\ TopOf[d] \in Agent
    BY <1>4, PathOrder, TopOfIs
  <2>2. TopOf[d] = d
    BY <2>1, PathOrder
  <2>3. ASSUME NEW v \in Above[d] PROVE FALSE
    <3>1. v \in Agent /\ TopOf[v] = d /\ IsStrictPrefix(v, d)
      BY <1>1, <1>2, <2>2
    <3>2. IsPrefix(d, v)
      BY <3>1, TopOfIs
    <3> QED
      BY <3>1, <3>2, PathOrder
  <2> QED
    BY <2>2, <2>3
<1> QED
  BY <1>1, <1>2, <1>3, <1>4

\* The sub-agent of a pipeline has one more above it.
LEMMA AboveSub ==
    ASSUME NEW n \in Agent, NEW m \in SubAgents(n), Kind[n] # "parallel"
    PROVE  Above[m] = Above[n] \cup {n} /\ TopOf[m] = TopOf[n] /\ m \notin Top
<1>1. m \in Agent /\ TopOf[m] = TopOf[n] /\ m \notin Top
  BY SubOrder, TaskOfSub
<1>2. \A v \in Agent : IsStrictPrefix(v, m) <=> IsStrictPrefix(v, n) \/ v = n
  BY SubOrder, PathOrder
<1>3. Above[m] \subseteq Agent /\ Above[n] \subseteq Agent
  BY <1>1, AboveIs DEF TaskOf
<1> QED
  BY <1>1, <1>2, <1>3, AboveIs

\* What is above one that is above d is above d.
LEMMA AboveAbove ==
    ASSUME NEW d \in Agent, NEW v \in Above[d]
    PROVE  /\ v \in Agent /\ v \in Pipeline /\ IsStrictPrefix(v, d) /\ TopOf[v] = TopOf[d]
           /\ Above[v] \subseteq Above[d]
           /\ \A c \in SubAgents(v) : IsPrefix(c, d) => c \in Above[d] \cup {d}
<1>1. v \in Agent /\ v \in Pipeline /\ IsStrictPrefix(v, d) /\ TopOf[v] = TopOf[d]
  BY AboveIs DEF TaskOf
<1>2. ASSUME NEW u \in Above[v] PROVE u \in Above[d]
  <2>1. u \in Agent /\ TopOf[u] = TopOf[v] /\ IsStrictPrefix(u, v)
    BY <1>1, AboveIs DEF TaskOf
  <2>2. IsStrictPrefix(u, d)
    BY <1>1, <2>1, PathOrder
  <2> QED
    BY <1>1, <2>1, <2>2, AboveIs
<1>3. ASSUME NEW c \in SubAgents(v), IsPrefix(c, d) PROVE c \in Above[d] \cup {d}
  <2>1. Kind[v] # "parallel"
    BY <1>1 DEF Pipeline, Kinds
  <2>2. c \in Agent /\ TopOf[c] = TopOf[v]
    BY <1>1, <2>1, SubOrder, TaskOfSub
  <2>3. c = d \/ IsStrictPrefix(c, d)
    BY <1>3, <2>2, PathOrder
  <2> QED
    BY <1>1, <2>2, <2>3, AboveIs
<1> QED
  BY <1>1, <1>2, <1>3

-----------------------------------------------------------------------------
(* Type correctness.                                                       *)

\* The domains of the functions that TypeOK does not give.
Domains ==
    /\ pos \in [Pipeline -> Nat] /\ iter \in [Pipeline -> Nat]
    /\ chan \in [Kinds("parallel") -> Seq(Item)] /\ ckpt \in [Kinds("sequential") -> Nat]
    /\ made \in [Leaf -> Nat] /\ got \in [Leaf -> Seq(Nat)]

\* Only a sequential agent that has more sub-agents yields a checkpoint; a cancellation
\* is in the history.
Flags ==
    /\ \A n \in Agent : st[n] = "checkpoint" => Kind[n] = "sequential" /\ pos[n] < Count[n]
    /\ cancelled => "cancel" \in cuts

WorkflowTypes == TypeOK /\ Domains /\ Flags

LEMMA KindFacts ==
    /\ Pipeline \subseteq Agent /\ Leaf \subseteq Agent /\ Kinds("parallel") \subseteq Agent
    /\ Kinds("sequential") \subseteq Pipeline /\ Kinds("loop") \subseteq Pipeline
    /\ \A n \in Pipeline : Kind[n] \in {"sequential", "loop"} /\ n \notin Leaf /\ n \notin Kinds("parallel") /\ Count[n] >= 1
    /\ \A l \in Leaf : Kind[l] = "leaf" /\ SubAgents(l) = {}
    /\ \A n \in Agent : n \in Pipeline \/ n \in Leaf \/ n \in Kinds("parallel")
    /\ \A p \in Kinds("parallel") : Kind[p] = "parallel"
    /\ \A s \in Kinds("sequential") : Kind[s] = "sequential"
    /\ Top \subseteq Agent /\ Branch \subseteq Top /\ Root \in Top
    /\ \A b \in Branch : Front(b) \in Agent /\ Kind[Front(b)] = "parallel" /\ b \in SubAgents(Front(b)) /\ b # Root
<1>1. /\ Pipeline \subseteq Agent /\ Leaf \subseteq Agent /\ Kinds("parallel") \subseteq Agent
      /\ Kinds("sequential") \subseteq Pipeline /\ Kinds("loop") \subseteq Pipeline
      /\ \A n \in Pipeline : Kind[n] \in {"sequential", "loop"} /\ n \notin Leaf /\ n \notin Kinds("parallel")
      /\ \A l \in Leaf : Kind[l] = "leaf"
      /\ \A p \in Kinds("parallel") : Kind[p] = "parallel"
      /\ \A s \in Kinds("sequential") : Kind[s] = "sequential"
  BY DEF Pipeline, Leaf, Kinds
<1>2. \A n \in Agent : n \in Pipeline \/ n \in Leaf \/ n \in Kinds("parallel")
  BY TreeFacts DEF Pipeline, Leaf, Kinds
<1>3. Top \subseteq Agent /\ Branch \subseteq Top /\ Root \in Top
  BY TreeFacts DEF Top, Branch
<1>4. \A b \in Branch : Front(b) \in Agent /\ Kind[Front(b)] = "parallel" /\ b \in SubAgents(Front(b)) /\ b # Root
  BY TreeFacts DEF Branch
<1>5. (\A n \in Pipeline : Count[n] >= 1) /\ \A l \in Leaf : SubAgents(l) = {}
  BY <1>1, TreeFacts
<1> QED
  BY <1>1, <1>2, <1>3, <1>4, <1>5

\* What an item is, by its kind.
LEMMA ItemFacts ==
    /\ NoItem.kind = "none" /\ NoItem \notin Item
    /\ Failure \in Item /\ Failure.kind = "error"
    /\ \A l \in Leaf : Escalation(l) \in Item /\ Escalation(l).kind = "escalate"
    /\ \A l \in Leaf : \A k \in 1 .. MaxEvents[l] :
           EventOf(l, k) \in Item /\ EventOf(l, k).kind = "event" /\ EventOf(l, k).from = l /\ EventOf(l, k).n = k
    /\ \A s \in Kinds("sequential") : \A k \in 1 .. Count[s] - 1 :
           /\ Checkpoint(s, k) \in Item /\ Checkpoint(s, k).kind = "checkpoint"
           /\ Checkpoint(s, k).from = s /\ Checkpoint(s, k).n = k
    /\ \A x \in Item : x.kind \in {"event", "escalate", "error", "checkpoint"}
    /\ \A x \in Item : x.kind = "event" => x.from \in Leaf /\ x.n \in 1 .. MaxEvents[x.from]
    /\ \A x \in Item : x.kind = "checkpoint" => x.from \in Kinds("sequential") /\ x.n \in 1 .. Count[x.from] - 1
<1>0. \A x : x \in Item <=>
          \/ \E l \in Leaf : \E k \in 1 .. MaxEvents[l] : x = EventOf(l, k)
          \/ \E l \in Leaf : x = Escalation(l)
          \/ x = Failure
          \/ \E s \in Kinds("sequential") : \E k \in 1 .. Count[s] - 1 : x = Checkpoint(s, k)
  <2> DEFINE Ev(l) == {EventOf(l, k) : k \in 1 .. MaxEvents[l]}
             Ch(s) == {Checkpoint(s, k) : k \in 1 .. Count[s] - 1}
             A == UNION {Ev(l) : l \in Leaf}
             B == {Escalation(l) : l \in Leaf}
             C == UNION {Ch(s) : s \in Kinds("sequential")}
  <2>1. \A x, l : x \in Ev(l) <=> \E k \in 1 .. MaxEvents[l] : x = EventOf(l, k)
    OBVIOUS
  <2>2. \A x, s : x \in Ch(s) <=> \E k \in 1 .. Count[s] - 1 : x = Checkpoint(s, k)
    OBVIOUS
  <2>3. Item = A \cup B \cup {Failure} \cup C
    BY DEF Item
  <2> HIDE DEF Ev, Ch
  <2>4. \A x : x \in A <=> \E l \in Leaf : x \in Ev(l)
    OBVIOUS
  <2>5. \A x : x \in C <=> \E s \in Kinds("sequential") : x \in Ch(s)
    OBVIOUS
  <2>6. \A x : x \in B <=> \E l \in Leaf : x = Escalation(l)
    OBVIOUS
  <2> HIDE DEF A, B, C
  <2> QED
    BY <2>1, <2>2, <2>3, <2>4, <2>5, <2>6
<1>1. ASSUME NEW x \in Item
      PROVE  \/ \E l \in Leaf : \E k \in 1 .. MaxEvents[l] : x = EventOf(l, k)
             \/ \E l \in Leaf : x = Escalation(l)
             \/ x = Failure
             \/ \E s \in Kinds("sequential") : \E k \in 1 .. Count[s] - 1 : x = Checkpoint(s, k)
  BY <1>0
<1>2. /\ \A l, k : EventOf(l, k).kind = "event" /\ EventOf(l, k).from = l /\ EventOf(l, k).n = k
      /\ \A l : Escalation(l).kind = "escalate"
      /\ Failure.kind = "error" /\ NoItem.kind = "none"
      /\ \A s, k : Checkpoint(s, k).kind = "checkpoint" /\ Checkpoint(s, k).from = s /\ Checkpoint(s, k).n = k
  BY DEF EventOf, Escalation, Failure, NoItem, Checkpoint
<1>3. \A x \in Item : x.kind \in {"event", "escalate", "error", "checkpoint"}
  BY <1>1, <1>2
<1>4. \A x \in Item : x.kind = "event" => x.from \in Leaf /\ x.n \in 1 .. MaxEvents[x.from]
  BY <1>1, <1>2
<1>5. \A x \in Item : x.kind = "checkpoint" => x.from \in Kinds("sequential") /\ x.n \in 1 .. Count[x.from] - 1
  BY <1>1, <1>2
<1>6. NoItem \notin Item
  BY <1>2, <1>3
<1>7. /\ Failure \in Item /\ (\A l \in Leaf : Escalation(l) \in Item)
      /\ \A l \in Leaf : \A k \in 1 .. MaxEvents[l] : EventOf(l, k) \in Item
      /\ \A s \in Kinds("sequential") : \A k \in 1 .. Count[s] - 1 : Checkpoint(s, k) \in Item
  BY <1>0
<1> QED
  BY <1>2, <1>3, <1>4, <1>5, <1>6, <1>7

LEMMA WorkflowInitTypes == Init => WorkflowTypes
<1> SUFFICES ASSUME Init PROVE WorkflowTypes
  OBVIOUS
<1>1. /\ \A n \in Pipeline : Count[n] \in Nat /\ Count[n] >= 1
      /\ \A s \in Kinds("sequential") : s \in Pipeline
      /\ \A n \in Agent : Fresh[n] \in {"start", "idle"}
  BY KindFacts, TreeFacts DEF Fresh
<1>2. MaxIterations \in Nat \ {0} /\ ChannelCapacity \in Nat \ {0} /\ MaxEvents \in [Leaf -> Nat] /\ MaxResumes \in Nat
  BY BoundAssumption
<1>3. <<>> \in Seq(Item) /\ Len(<<>>) = 0 /\ \A S : <<>> \in Seq(S)
  OBVIOUS
<1>4. Domains
  BY <1>3 DEF Init, Domains
<1>5. Flags
  BY <1>1 DEF Init, Flags
<1>6. TypeOK
  <2>1. st \in [Agent -> Status]
    BY <1>1 DEF Init, Fresh, Status
  <2>2. \A n \in Pipeline : pos[n] \in 1 .. Count[n] /\ iter[n] \in 1 .. MaxIterations
    BY <1>1, <1>2 DEF Init
  <2>3. hand \in [Top -> Item \cup {NoItem}]
    BY DEF Init
  <2>4. \A p \in Kinds("parallel") : chan[p] \in Seq(Item) /\ Len(chan[p]) <= ChannelCapacity
    BY <1>2, <1>3 DEF Init
  <2>5. \A s \in Kinds("sequential") : ckpt[s] \in 0 .. Count[s] - 1
    BY <1>1 DEF Init
  <2>6. \A l \in Leaf : made[l] \in 0 .. MaxEvents[l] /\ got[l] \in Seq(1 .. MaxEvents[l])
    BY <1>2, <1>3 DEF Init
  <2>7. /\ cancelled \in BOOLEAN /\ paused \in BOOLEAN /\ cuts \subseteq Cut /\ resumable \in BOOLEAN
        /\ resumes \in 0 .. MaxResumes /\ finished \subseteq Leaf /\ stopped \subseteq Leaf
    <3>1. cancelled \in BOOLEAN /\ paused \in BOOLEAN /\ resumable \in BOOLEAN
      BY DEF Init
    <3>2. cuts \subseteq Cut /\ finished \subseteq Leaf /\ stopped \subseteq Leaf
      BY DEF Init
    <3>3. resumes \in 0 .. MaxResumes
      BY <1>2 DEF Init
    <3> QED
      BY <3>1, <3>2, <3>3
  <2> QED
    BY <2>1, <2>2, <2>3, <2>4, <2>5, <2>6, <2>7 DEF TypeOK
<1> QED
  BY <1>4, <1>5, <1>6 DEF WorkflowTypes

\* The parts of the types, by variable.
StatusTypes == st \in [Agent -> Status]
PlaceTypes  == pos \in [Pipeline -> Nat] /\ \A n \in Pipeline : pos[n] \in 1 .. Count[n]
RoundTypes  == iter \in [Pipeline -> Nat] /\ \A n \in Pipeline : iter[n] \in 1 .. MaxIterations
HandTypes   == hand \in [Top -> Item \cup {NoItem}]
ChanTypes   ==
    /\ chan \in [Kinds("parallel") -> Seq(Item)]
    /\ \A p \in Kinds("parallel") : Len(chan[p]) <= ChannelCapacity
SignalTypes ==
    /\ cancelled \in BOOLEAN /\ paused \in BOOLEAN /\ cuts \subseteq Cut
    /\ resumable \in BOOLEAN /\ resumes \in 0 .. MaxResumes
    /\ cancelled => "cancel" \in cuts
LogTypes    ==
    /\ ckpt \in [Kinds("sequential") -> Nat] /\ \A s \in Kinds("sequential") : ckpt[s] \in 0 .. Count[s] - 1
    /\ got \in [Leaf -> Seq(Nat)] /\ \A l \in Leaf : got[l] \in Seq(1 .. MaxEvents[l])
LeafTypes   ==
    /\ made \in [Leaf -> Nat] /\ \A l \in Leaf : made[l] \in 0 .. MaxEvents[l]
    /\ finished \subseteq Leaf /\ stopped \subseteq Leaf
CheckpointsMore == \A n \in Agent : st[n] = "checkpoint" => Kind[n] = "sequential" /\ pos[n] < Count[n]

LEMMA TypesByVariable ==
    /\ WorkflowTypes <=> /\ StatusTypes /\ PlaceTypes /\ RoundTypes /\ HandTypes /\ ChanTypes
                         /\ SignalTypes /\ LogTypes /\ LeafTypes /\ CheckpointsMore
    /\ WorkflowTypes' <=> /\ StatusTypes' /\ PlaceTypes' /\ RoundTypes' /\ HandTypes' /\ ChanTypes'
                          /\ SignalTypes' /\ LogTypes' /\ LeafTypes' /\ CheckpointsMore'
<1>1. \A c \in [Kinds("parallel") -> Seq(Item)] : \A p \in Kinds("parallel") : c[p] \in Seq(Item)
  OBVIOUS
<1>2. WorkflowTypes <=> /\ StatusTypes /\ PlaceTypes /\ RoundTypes /\ HandTypes /\ ChanTypes
                        /\ SignalTypes /\ LogTypes /\ LeafTypes /\ CheckpointsMore
  BY <1>1 DEF WorkflowTypes, TypeOK, Domains, Flags, StatusTypes, PlaceTypes, RoundTypes, HandTypes, ChanTypes,
              SignalTypes, LogTypes, LeafTypes, CheckpointsMore
<1>3. WorkflowTypes' <=> /\ StatusTypes' /\ PlaceTypes' /\ RoundTypes' /\ HandTypes' /\ ChanTypes'
                         /\ SignalTypes' /\ LogTypes' /\ LeafTypes' /\ CheckpointsMore'
  BY <1>1 DEF WorkflowTypes, TypeOK, Domains, Flags, StatusTypes, PlaceTypes, RoundTypes, HandTypes, ChanTypes,
              SignalTypes, LogTypes, LeafTypes, CheckpointsMore
<1> QED
  BY <1>2, <1>3

\* What stays typed when its variable stays.
LEMMA Unchanged ==
    /\ StatusTypes /\ st' = st => StatusTypes'
    /\ PlaceTypes /\ pos' = pos => PlaceTypes'
    /\ RoundTypes /\ iter' = iter => RoundTypes'
    /\ HandTypes /\ hand' = hand => HandTypes'
    /\ ChanTypes /\ chan' = chan => ChanTypes'
    /\ SignalTypes /\ UNCHANGED <<signals, resumable, resumes, cuts>> => SignalTypes'
    /\ LogTypes /\ ckpt' = ckpt /\ got' = got => LogTypes'
    /\ LeafTypes /\ UNCHANGED <<made, finished, stopped>> => LeafTypes'
    /\ CheckpointsMore /\ st' = st /\ pos' = pos => CheckpointsMore'
BY DEF StatusTypes, PlaceTypes, RoundTypes, HandTypes, ChanTypes, SignalTypes, LogTypes, LeafTypes, CheckpointsMore, signals

\* An agent gets another status.
LEMMA SetTypes ==
    ASSUME StatusTypes, NEW n \in Agent, NEW status \in Status, Set(n, status)
    PROVE  /\ StatusTypes' /\ st'[n] = status /\ \A m \in Agent \ {n} : st'[m] = st[m]
           /\ CheckpointsMore /\ pos' = pos /\ status # "checkpoint" => CheckpointsMore'
BY DEF StatusTypes, Set, CheckpointsMore

\* Streams end.
LEMMA EndTypes ==
    ASSUME StatusTypes, ChanTypes, NEW ns, End(ns)
    PROVE  /\ StatusTypes' /\ ChanTypes'
           /\ \A n \in Agent : st'[n] = IF n \in ns /\ st[n] # "idle" THEN "ended" ELSE st[n]
           /\ \A p \in Kinds("parallel") : chan'[p] = IF p \in ns THEN <<>> ELSE chan[p]
           /\ CheckpointsMore /\ pos' = pos => CheckpointsMore'
<1>1. \A n \in Agent : st'[n] = IF n \in ns /\ st[n] # "idle" THEN "ended" ELSE st[n]
  BY DEF End
<1>2. \A p \in Kinds("parallel") : chan'[p] = IF p \in ns THEN <<>> ELSE chan[p]
  BY DEF End
<1>3. StatusTypes'
  BY DEF End, StatusTypes, Status
<1>4. ChanTypes'
  <2>1. <<>> \in Seq(Item) /\ Len(<<>>) = 0 /\ ChannelCapacity \in Nat
    BY BoundAssumption
  <2>2. chan' \in [Kinds("parallel") -> Seq(Item)]
    BY <2>1 DEF End, ChanTypes
  <2> QED
    BY <1>2, <2>1, <2>2 DEF ChanTypes
<1> QED
  BY <1>1, <1>2, <1>3, <1>4 DEF CheckpointsMore

\* An item is put in a task's hand.
LEMMA YieldTypes ==
    ASSUME HandTypes, NEW n \in Agent, NEW item \in Item, Yield(n, item)
    PROVE  /\ HandTypes' /\ TopOf[n] \in Top /\ hand'[TopOf[n]] = item
           /\ \A t \in Top \ {TopOf[n]} : hand'[t] = hand[t]
BY TopOfIs DEF HandTypes, Yield

\* A pipeline goes to a sub-agent.
LEMMA EnterTypes ==
    ASSUME StatusTypes, PlaceTypes, CheckpointsMore, NEW n \in Pipeline, NEW i \in 1 .. Count[n], Enter(n, i)
    PROVE  /\ StatusTypes' /\ PlaceTypes' /\ CheckpointsMore'
           /\ Sub(n, i) \in SubAgents(n) /\ Sub(n, i) \in Agent /\ Sub(n, i) # n
           /\ st'[n] = "running" /\ st'[Sub(n, i)] = "start"
           /\ \A m \in Agent \ {n, Sub(n, i)} : st'[m] = st[m]
           /\ pos'[n] = i /\ \A m \in Pipeline \ {n} : pos'[m] = pos[m]
<1>1. n \in Agent /\ Count[n] \in Nat
  BY KindFacts, TreeFacts
<1>2. Sub(n, i) \in SubAgents(n) /\ Sub(n, i) \in Agent /\ Sub(n, i) # n
  BY <1>1, Numbered, SubOrder, PathOrder
<1>3. /\ st' = [st EXCEPT ![n] = "running", ![Sub(n, i)] = "start"]
      /\ pos' = [pos EXCEPT ![n] = i] /\ i \in Nat
  BY <1>1 DEF Enter
<1>4. StatusTypes' /\ PlaceTypes'
  BY <1>1, <1>2, <1>3 DEF StatusTypes, Status, PlaceTypes
<1>5. /\ st'[n] = "running" /\ st'[Sub(n, i)] = "start"
      /\ \A m \in Agent \ {n, Sub(n, i)} : st'[m] = st[m]
      /\ pos'[n] = i /\ \A m \in Pipeline \ {n} : pos'[m] = pos[m]
  BY <1>1, <1>2, <1>3 DEF StatusTypes, PlaceTypes
<1>6. CheckpointsMore'
  <2>1. \A m \in Agent : Kind[m] = "sequential" => m \in Pipeline
    BY DEF Pipeline, Kinds
  <2> QED
    BY <1>5, <2>1 DEF CheckpointsMore
<1> QED
  BY <1>2, <1>4, <1>5, <1>6

\* What a pipeline does.
LEMMA PipelineTypes ==
    ASSUME WorkflowTypes, NEW n \in Pipeline, PipelineStep(n)
    PROVE  WorkflowTypes'
<1>1. /\ StatusTypes /\ PlaceTypes /\ RoundTypes /\ HandTypes /\ ChanTypes
      /\ SignalTypes /\ LogTypes /\ LeafTypes /\ CheckpointsMore
  BY TypesByVariable
<1>2. n \in Agent /\ Count[n] \in Nat /\ pos[n] \in 1 .. Count[n] /\ Count[n] >= 1 /\ pos[n] \in Nat
  BY <1>1, KindFacts, TreeFacts DEF PlaceTypes
<1>3. "ended" \in Status /\ "checkpoint" \in Status /\ MaxIterations \in Nat \ {0}
  BY BoundAssumption DEF Status
<1>4. UNCHANGED <<chan, signals, ckpt, resumable, resumes, history>>
  BY DEF PipelineStep, BeginPipeline, NextInSequence, AfterCheckpoint, NextInLoop, transit
<1>5. ChanTypes' /\ SignalTypes' /\ LogTypes' /\ LeafTypes'
  BY <1>1, <1>4, Unchanged DEF history
<1> SUFFICES StatusTypes' /\ PlaceTypes' /\ RoundTypes' /\ HandTypes' /\ CheckpointsMore'
  BY <1>5, TypesByVariable
<1>6. CASE BeginPipeline(n)
  <2>1. HandTypes' /\ RoundTypes'
    <3>1. hand' = hand /\ iter' = [iter EXCEPT ![n] = 1]
      BY <1>6 DEF BeginPipeline, transit
    <3> QED
      BY <1>1, <1>3, <3>1 DEF HandTypes, RoundTypes
  <2>2. CASE cancelled
    BY <1>1, <1>2, <1>3, <1>6, <2>1, <2>2, SetTypes, Unchanged DEF BeginPipeline
  <2>3. CASE ~ cancelled
    <3> DEFINE i == IF Kind[n] = "sequential" THEN StartIndex(n) ELSE 1
    <3>1. i \in 1 .. Count[n]
      <4>1. Kind[n] = "sequential" => ckpt[n] \in 0 .. Count[n] - 1
        BY <1>1, <1>2 DEF LogTypes, Kinds
      <4> QED
        BY <1>2, <4>1 DEF StartIndex
    <3>2. Enter(n, i)
      BY <1>6, <2>3 DEF BeginPipeline
    <3> HIDE DEF i
    <3> QED
      BY <1>1, <2>1, <3>1, <3>2, EnterTypes
  <2> QED
    BY <2>2, <2>3
<1>7. CASE Kind[n] = "sequential" /\ NextInSequence(n)
  <2>1. RoundTypes'
    BY <1>1, <1>7, Unchanged DEF NextInSequence
  <2>2. CASE Set(n, "ended") /\ UNCHANGED <<pos, hand>>
    BY <1>1, <1>2, <1>3, <2>1, <2>2, SetTypes, Unchanged
  <2>3. CASE pos[n] < Count[n] /\ Set(n, "checkpoint") /\ Yield(n, Checkpoint(n, pos[n])) /\ UNCHANGED pos
    <3>1. Checkpoint(n, pos[n]) \in Item
      <4>1. n \in Kinds("sequential") /\ pos[n] \in 1 .. Count[n] - 1
        BY <1>2, <1>7, <2>3 DEF Kinds
      <4> QED
        BY <4>1, ItemFacts
    <3>2. HandTypes'
      BY <1>1, <1>2, <2>3, <3>1, YieldTypes
    <3>3. StatusTypes' /\ st'[n] = "checkpoint" /\ \A m \in Agent \ {n} : st'[m] = st[m]
      BY <1>1, <1>2, <1>3, <2>3, SetTypes
    <3>4. CheckpointsMore'
      BY <1>1, <1>7, <2>3, <3>3 DEF CheckpointsMore
    <3> QED
      BY <1>1, <2>1, <2>3, <3>2, <3>3, <3>4, Unchanged
  <2>4. CASE pos[n] < Count[n] /\ Enter(n, pos[n] + 1) /\ UNCHANGED hand
    <3>1. pos[n] + 1 \in 1 .. Count[n]
      BY <1>2, <2>4
    <3> QED
      BY <1>1, <2>1, <2>4, <3>1, EnterTypes, Unchanged
  <2> QED
    BY <1>7, <2>2, <2>3, <2>4 DEF NextInSequence
<1>8. CASE Kind[n] = "sequential" /\ AfterCheckpoint(n)
  <2>1. HandTypes' /\ RoundTypes'
    BY <1>1, <1>8, Unchanged DEF AfterCheckpoint, transit
  <2>2. CASE cancelled
    BY <1>1, <1>2, <1>3, <1>8, <2>1, <2>2, SetTypes, Unchanged DEF AfterCheckpoint
  <2>3. CASE ~ cancelled
    <3>1. Enter(n, pos[n] + 1) /\ st[n] = "checkpoint"
      BY <1>8, <2>3 DEF AfterCheckpoint, At
    <3>2. pos[n] + 1 \in 1 .. Count[n]
      BY <1>1, <1>2, <3>1 DEF CheckpointsMore
    <3> QED
      BY <1>1, <2>1, <3>1, <3>2, EnterTypes
  <2> QED
    BY <2>2, <2>3
<1>9. CASE Kind[n] = "loop" /\ NextInLoop(n)
  <2>1. HandTypes'
    BY <1>1, <1>9, Unchanged DEF NextInLoop, transit
  <2>2. CASE Set(n, "ended") /\ UNCHANGED <<pos, iter>>
    BY <1>1, <1>2, <1>3, <2>1, <2>2, SetTypes, Unchanged
  <2>3. CASE ~ (Set(n, "ended") /\ UNCHANGED <<pos, iter>>)
    <3> DEFINE i == IF pos[n] = Count[n] THEN 1 ELSE pos[n] + 1
    <3>1. Enter(n, i) /\ iter' = [iter EXCEPT ![n] = IF pos[n] = Count[n] THEN @ + 1 ELSE @]
          /\ ~ (pos[n] = Count[n] /\ iter[n] = MaxIterations)
      BY <1>9, <2>3 DEF NextInLoop
    <3>2. i \in 1 .. Count[n]
      BY <1>2
    <3>3. RoundTypes'
      <4>1. iter[n] \in 1 .. MaxIterations /\ iter \in [Pipeline -> Nat]
        BY <1>1 DEF RoundTypes
      <4>2. PICK k \in Nat : k = (IF pos[n] = Count[n] THEN iter[n] + 1 ELSE iter[n]) /\ k \in 1 .. MaxIterations
        BY <1>3, <3>1, <4>1
      <4>3. iter' = [iter EXCEPT ![n] = k]
        BY <3>1, <4>2
      <4> QED
        BY <1>1, <4>2, <4>3 DEF RoundTypes
    <3> HIDE DEF i
    <3> QED
      BY <1>1, <2>1, <3>1, <3>2, <3>3, EnterTypes
  <2> QED
    BY <2>2, <2>3
<1> QED
  BY <1>6, <1>7, <1>8, <1>9 DEF PipelineStep

\* What a parallel agent and its branches do.
LEMMA ParallelTypes ==
    ASSUME WorkflowTypes, NEW p \in Kinds("parallel"), ParallelStep(p)
    PROVE  WorkflowTypes'
<1>1. /\ StatusTypes /\ PlaceTypes /\ RoundTypes /\ HandTypes /\ ChanTypes
      /\ SignalTypes /\ LogTypes /\ LeafTypes /\ CheckpointsMore
  BY TypesByVariable
<1>2. p \in Agent /\ "ended" \in Status /\ chan[p] \in Seq(Item) /\ Failure \in Item
  BY <1>1, KindFacts, ItemFacts DEF Status, ChanTypes
<1>3. UNCHANGED <<pos, iter, signals, ckpt, resumable, resumes, history>>
  BY DEF ParallelStep, BeginParallel, Receive, ParallelEnd
<1>4. PlaceTypes' /\ RoundTypes' /\ SignalTypes' /\ LogTypes' /\ LeafTypes'
  BY <1>1, <1>3, Unchanged DEF history
<1> SUFFICES StatusTypes' /\ HandTypes' /\ ChanTypes' /\ CheckpointsMore'
  BY <1>4, TypesByVariable
<1>5. CASE BeginParallel(p)
  <2>1. st' = [n \in Agent |-> IF n = p THEN "running" ELSE IF n \in SubAgents(p) THEN "start" ELSE st[n]]
        /\ chan' = [chan EXCEPT ![p] = <<>>] /\ hand' = hand
    BY <1>5 DEF BeginParallel
  <2>2. StatusTypes'
    BY <1>1, <2>1 DEF StatusTypes, Status
  <2>3. CheckpointsMore'
    BY <1>1, <1>3, <2>1 DEF CheckpointsMore
  <2>4. ChanTypes'
    <3>1. <<>> \in Seq(Item) /\ Len(<<>>) = 0 /\ ChannelCapacity \in Nat
      BY BoundAssumption
    <3> QED
      BY <1>1, <2>1, <3>1 DEF ChanTypes
  <2> QED
    BY <1>1, <2>1, <2>2, <2>3, <2>4, Unchanged
<1>6. CASE Receive(p)
  <2>0. chan[p] # <<>> /\ Head(chan[p]) \in Item
    BY <1>2, <1>6 DEF Receive
  <2>1. CASE End({p}) /\ UNCHANGED hand
    BY <1>1, <1>3, <2>1, EndTypes, Unchanged
  <2>2. CASE YieldError(p)
    BY <1>1, <1>2, <1>3, <2>2, EndTypes, YieldTypes DEF YieldError
  <2>3. CASE Yield(p, Head(chan[p])) /\ End(Above[p] \cup {p})
    BY <1>1, <1>2, <1>3, <2>0, <2>3, EndTypes, YieldTypes
  <2>4. CASE Yield(p, Head(chan[p])) /\ chan' = [chan EXCEPT ![p] = Tail(@)] /\ UNCHANGED st
    <3>1. HandTypes'
      BY <1>1, <1>2, <2>0, <2>4, YieldTypes
    <3>2. Tail(chan[p]) \in Seq(Item) /\ Len(Tail(chan[p])) <= ChannelCapacity
      <4>1. Len(Tail(chan[p])) = Len(chan[p]) - 1 /\ Len(chan[p]) \in Nat /\ Tail(chan[p]) \in Seq(Item)
        BY <1>2, <2>0
      <4> QED
        BY <1>1, <4>1, BoundAssumption DEF ChanTypes
    <3>3. chan' = [chan EXCEPT ![p] = Tail(chan[p])]
      BY <2>4
    <3>4. ChanTypes'
      BY <1>1, <3>2, <3>3 DEF ChanTypes
    <3> QED
      BY <1>1, <1>3, <2>4, <3>1, <3>4, Unchanged
  <2> QED
    BY <1>6, <2>1, <2>2, <2>3, <2>4 DEF Receive
<1>7. CASE ParallelEnd(p)
  <2>1. Set(p, "ended") /\ hand' = hand /\ chan' = chan
    BY <1>7 DEF ParallelEnd, transit
  <2> QED
    BY <1>1, <1>2, <1>3, <2>1, SetTypes, Unchanged
<1> QED
  BY <1>5, <1>6, <1>7 DEF ParallelStep

LEMMA BranchTypes ==
    ASSUME WorkflowTypes, NEW b \in Branch, BranchStep(b)
    PROVE  WorkflowTypes'
<1>1. /\ StatusTypes /\ PlaceTypes /\ RoundTypes /\ HandTypes /\ ChanTypes
      /\ SignalTypes /\ LogTypes /\ LeafTypes /\ CheckpointsMore
  BY TypesByVariable
<1>2. b \in Top /\ Front(b) \in Kinds("parallel") /\ hand[b] \in Item
  <2>1. b \in Top /\ Front(b) \in Kinds("parallel")
    BY KindFacts DEF Kinds
  <2>2. hand[b] # NoItem
    BY DEF BranchStep, Send, SendFails
  <2> QED
    BY <1>1, <2>1, <2>2 DEF HandTypes
<1>3. UNCHANGED <<pos, iter, signals, ckpt, resumable, resumes, history>> /\ hand' = [hand EXCEPT ![b] = NoItem]
  BY DEF BranchStep, Send, SendFails, control
<1>4. PlaceTypes' /\ RoundTypes' /\ SignalTypes' /\ LogTypes' /\ LeafTypes' /\ HandTypes'
  <2>1. HandTypes'
    BY <1>1, <1>2, <1>3 DEF HandTypes
  <2> QED
    BY <1>1, <1>3, <2>1, Unchanged DEF history
<1> SUFFICES StatusTypes' /\ ChanTypes' /\ CheckpointsMore'
  BY <1>4, TypesByVariable
<1>5. CASE Send(b)
  <2> DEFINE p == Front(b)
             s == Append(chan[p], hand[b])
  <2>1. st' = st /\ chan' = [chan EXCEPT ![p] = s] /\ Len(chan[p]) < ChannelCapacity
    BY <1>5 DEF Send, control
  <2>2. chan[p] \in Seq(Item) /\ Len(chan[p]) \in Nat
    BY <1>1, <1>2 DEF ChanTypes
  <2>3. s \in Seq(Item) /\ Len(s) <= ChannelCapacity
    BY <1>2, <2>1, <2>2, BoundAssumption
  <2> HIDE DEF s
  <2>4. ChanTypes'
    BY <1>1, <1>2, <2>1, <2>3 DEF ChanTypes
  <2> QED
    BY <1>1, <1>3, <2>1, <2>4, Unchanged
<1>6. CASE SendFails(b)
  BY <1>1, <1>3, <1>6, EndTypes DEF SendFails
<1> QED
  BY <1>5, <1>6 DEF BranchStep

\* What a leaf does.
LEMMA LeafStepTypes ==
    ASSUME WorkflowTypes, NEW l \in Leaf, LeafStep(l)
    PROVE  WorkflowTypes'
<1>1. /\ StatusTypes /\ PlaceTypes /\ RoundTypes /\ HandTypes /\ ChanTypes
      /\ SignalTypes /\ LogTypes /\ LeafTypes /\ CheckpointsMore
  BY TypesByVariable
<1>2. l \in Agent /\ {"ended", "running"} \subseteq Status /\ Failure \in Item /\ Escalation(l) \in Item
  BY KindFacts, ItemFacts DEF Status
<1>3. UNCHANGED <<pos, iter, ckpt, resumable, resumes, got, cancelled>>
  BY DEF LeafStep, BeginLeaf, LeafEvent, LeafFinish, LeafPause, LeafEscalate, LeafError, LeafCancelled, control, history, signals
<1>4. PlaceTypes' /\ RoundTypes' /\ LogTypes'
  BY <1>1, <1>3, Unchanged
<1> SUFFICES StatusTypes' /\ HandTypes' /\ ChanTypes' /\ SignalTypes' /\ LeafTypes' /\ CheckpointsMore'
  BY <1>4, TypesByVariable
<1>5. CASE LeafEvent(l)
  <2>1. /\ UNCHANGED <<st, pos, chan, signals, resumable, resumes, finished, stopped, cuts>>
        /\ made[l] < MaxEvents[l] /\ made' = [made EXCEPT ![l] = made[l] + 1] /\ Yield(l, EventOf(l, made[l] + 1))
    BY <1>5 DEF LeafEvent, control
  <2>2. made[l] + 1 \in 1 .. MaxEvents[l] /\ made[l] + 1 \in Nat
    <3>1. made[l] \in Nat
      BY <1>1 DEF LeafTypes
    <3>2. MaxEvents[l] \in Nat
      BY BoundAssumption
    <3> QED
      BY <2>1, <3>1, <3>2
  <2>3. HandTypes'
    BY <1>1, <1>2, <2>1, <2>2, ItemFacts, YieldTypes
  <2>4. LeafTypes'
    BY <1>1, <2>1, <2>2 DEF LeafTypes
  <2> QED
    BY <1>1, <2>1, <2>3, <2>4, Unchanged
<1>6. CASE LeafFinish(l) \/ LeafPause(l) \/ LeafCancelled(l) \/ BeginLeaf(l)
  <2>1. /\ UNCHANGED <<pos, hand, chan, cancelled, resumable, resumes, made, cuts>>
        /\ Set(l, "ended") \/ Set(l, "running")
        /\ finished' \in {finished, finished \cup {l}} /\ stopped' \in {stopped, stopped \cup {l}} /\ paused' \in {paused, TRUE}
    BY <1>6 DEF LeafFinish, LeafPause, LeafCancelled, BeginLeaf, transit, signals, history
  <2>2. StatusTypes' /\ CheckpointsMore'
    BY <1>1, <1>2, <2>1, SetTypes
  <2>3. SignalTypes'
    BY <1>1, <2>1 DEF SignalTypes
  <2>4. LeafTypes'
    BY <1>1, <2>1 DEF LeafTypes
  <2> QED
    BY <1>1, <2>1, <2>2, <2>3, <2>4, Unchanged
<1>7. CASE LeafEscalate(l) \/ LeafError(l)
  <2>1. /\ UNCHANGED <<pos, signals, resumable, resumes, made, finished>> /\ cuts' = cuts \cup {"stop"}
        /\ End(Above[l] \cup {l}) /\ stopped' \in {stopped, stopped \cup {l}}
        /\ \E item \in {Failure, Escalation(l)} : Yield(l, item)
    BY <1>7 DEF LeafEscalate, LeafError, YieldError
  <2>2. HandTypes'
    BY <1>1, <1>2, <2>1, YieldTypes
  <2>3. StatusTypes' /\ ChanTypes' /\ CheckpointsMore'
    BY <1>1, <2>1, EndTypes
  <2>4. SignalTypes'
    BY <1>1, <2>1 DEF SignalTypes, signals, Cut
  <2>5. LeafTypes'
    BY <1>1, <2>1 DEF LeafTypes
  <2> QED
    BY <2>2, <2>3, <2>4, <2>5
<1> QED
  BY <1>5, <1>6, <1>7 DEF LeafStep

\* What the runner and its callers do.
LEMMA RunnerTypes ==
    ASSUME WorkflowTypes, Take \/ DropStream \/ Cancel \/ Resume
    PROVE  WorkflowTypes'
<1>1. /\ StatusTypes /\ PlaceTypes /\ RoundTypes /\ HandTypes /\ ChanTypes
      /\ SignalTypes /\ LogTypes /\ LeafTypes /\ CheckpointsMore
  BY TypesByVariable
<1>2. Root \in Top
  BY KindFacts
<1>3. CASE Take
  <2> DEFINE item == hand[Root]
  <2>1. UNCHANGED <<st, pos, iter, chan, signals, resumable, resumes, made, finished, stopped, cuts>>
        /\ hand' = [hand EXCEPT ![Root] = NoItem] /\ item \in Item
    BY <1>1, <1>2, <1>3 DEF Take, control, HandTypes
  <2>2. HandTypes'
    BY <1>1, <1>2, <2>1 DEF HandTypes
  <2>3. ckpt' = IF item.kind = "checkpoint" THEN [ckpt EXCEPT ![item.from] = item.n] ELSE ckpt
    BY <1>3 DEF Take
  <2>4. got' = IF item.kind = "event" THEN [got EXCEPT ![item.from] = Append(got[item.from], item.n)] ELSE got
    BY <1>3 DEF Take
  <2>5. ckpt' \in [Kinds("sequential") -> Nat] /\ \A s \in Kinds("sequential") : ckpt'[s] \in 0 .. Count[s] - 1
    <3>1. CASE item.kind = "checkpoint"
      <4>1. item.from \in Kinds("sequential") /\ item.n \in 1 .. Count[item.from] - 1
        BY <2>1, <3>1, ItemFacts
      <4>2. PICK f \in Kinds("sequential"), k \in Nat : f = item.from /\ k = item.n /\ k \in 0 .. Count[f] - 1
        BY <4>1, TreeFacts, KindFacts
      <4>3. ckpt' = [ckpt EXCEPT ![f] = k]
        BY <2>3, <3>1, <4>2
      <4> QED
        BY <1>1, <4>2, <4>3 DEF LogTypes
    <3>2. CASE item.kind # "checkpoint"
      BY <1>1, <2>3, <3>2 DEF LogTypes
    <3> QED
      BY <3>1, <3>2
  <2>6. got' \in [Leaf -> Seq(Nat)] /\ \A l \in Leaf : got'[l] \in Seq(1 .. MaxEvents[l])
    <3>1. CASE item.kind = "event"
      <4>1. item.from \in Leaf /\ item.n \in 1 .. MaxEvents[item.from]
        BY <2>1, <3>1, ItemFacts
      <4>2. PICK f \in Leaf, k \in Nat : f = item.from /\ k = item.n /\ k \in 1 .. MaxEvents[f]
        BY <4>1, BoundAssumption
      <4> DEFINE g == Append(got[f], k)
      <4>3. g \in Seq(Nat) /\ g \in Seq(1 .. MaxEvents[f])
        BY <1>1, <4>2 DEF LogTypes
      <4>4. got' = [got EXCEPT ![f] = g]
        BY <2>4, <3>1, <4>2
      <4> HIDE DEF g
      <4> QED
        BY <1>1, <4>2, <4>3, <4>4 DEF LogTypes
    <3>2. CASE item.kind # "event"
      BY <1>1, <2>4, <3>2 DEF LogTypes
    <3> QED
      BY <3>1, <3>2
  <2>7. LogTypes'
    BY <2>5, <2>6 DEF LogTypes
  <2> QED
    BY <1>1, <2>1, <2>2, <2>7, TypesByVariable, Unchanged
<1>4. CASE DropStream
  <2>1. /\ UNCHANGED <<pos, iter, signals, ckpt, resumable, resumes, made, got, finished, stopped>>
        /\ cuts' = cuts \cup {"stop"} /\ hand' = [hand EXCEPT ![Root] = NoItem] /\ End(TaskOf(Root))
    BY <1>4 DEF DropStream
  <2>2. HandTypes'
    BY <1>1, <1>2, <2>1 DEF HandTypes
  <2>3. SignalTypes'
    BY <1>1, <2>1 DEF SignalTypes, signals, Cut
  <2> QED
    BY <1>1, <2>1, <2>2, <2>3, EndTypes, TypesByVariable, Unchanged
<1>5. CASE Cancel
  <2>1. /\ UNCHANGED <<st, pos, iter, hand, chan, paused, ckpt, resumable, resumes, made, got, finished, stopped>>
        /\ cancelled' = TRUE /\ cuts' = cuts \cup {"cancel"}
    BY <1>5 DEF Cancel, control, transit
  <2>2. SignalTypes'
    BY <1>1, <2>1 DEF SignalTypes, Cut
  <2> QED
    BY <1>1, <2>1, <2>2, TypesByVariable, Unchanged
<1>6. CASE Resume
  <2>1. /\ UNCHANGED <<pos, iter, ckpt, resumable, made, got, finished>>
        /\ resumes < MaxResumes /\ resumes' = resumes + 1 /\ st' = Fresh
        /\ hand' = [t \in Top |-> NoItem] /\ chan' = [p \in Kinds("parallel") |-> <<>>]
        /\ cancelled' = FALSE /\ paused' = FALSE /\ stopped' = {} /\ cuts' \in {cuts, cuts \cup {"end"}}
    BY <1>6 DEF Resume
  <2>2. StatusTypes' /\ CheckpointsMore'
    BY <2>1 DEF StatusTypes, Status, Fresh, CheckpointsMore
  <2>3. HandTypes'
    BY <2>1 DEF HandTypes
  <2>4. ChanTypes'
    <3>1. <<>> \in Seq(Item) /\ Len(<<>>) = 0 /\ ChannelCapacity \in Nat
      BY BoundAssumption
    <3> QED
      BY <2>1, <3>1 DEF ChanTypes
  <2>5. SignalTypes'
    <3>1. resumes' \in 0 .. MaxResumes
      BY <1>1, <2>1, BoundAssumption DEF SignalTypes
    <3>2. cuts' \subseteq Cut
      BY <1>1, <2>1 DEF SignalTypes, Cut
    <3> QED
      BY <1>1, <2>1, <3>1, <3>2 DEF SignalTypes
  <2>6. LeafTypes'
    BY <1>1, <2>1 DEF LeafTypes
  <2> QED
    BY <1>1, <2>1, <2>2, <2>3, <2>4, <2>5, <2>6, TypesByVariable, Unchanged
<1> QED
  BY <1>3, <1>4, <1>5, <1>6

LEMMA WorkflowTypesStep == WorkflowTypes /\ [Next]_vars => WorkflowTypes'
<1> SUFFICES ASSUME WorkflowTypes, [Next]_vars PROVE WorkflowTypes'
  OBVIOUS
<1>1. CASE UNCHANGED vars
  <2>1. /\ StatusTypes /\ PlaceTypes /\ RoundTypes /\ HandTypes /\ ChanTypes
        /\ SignalTypes /\ LogTypes /\ LeafTypes /\ CheckpointsMore
    BY TypesByVariable
  <2> QED
    BY <1>1, <2>1, TypesByVariable, Unchanged DEF vars, control, transit, history
<1>2. CASE Next
  BY <1>2, PipelineTypes, ParallelTypes, BranchTypes, LeafStepTypes, RunnerTypes DEF Next
<1> QED
  BY <1>1, <1>2

-----------------------------------------------------------------------------
(* What has ended, and how.                                                *)

Active(d) == st[d] \in {"start", "running", "checkpoint"}
Alive(n)  == st[n] \in {"running", "checkpoint"}

\* The leaves of m have all run to their end.
AllDone(m) == \A l \in Leaf : IsPrefix(m, l) => l \in finished

\* Nothing of m runs, and nothing of m has paused or escalated.
Clean(m) == \A d \in Under(m) : ~ Active(d) /\ d \notin stopped

\* m has ended by itself.
Done(m) == Clean(m) /\ ("cancel" \in cuts \/ AllDone(m))

IsStop(item) == item.kind \in {"error", "escalate"}
HasStop(s)   == \E k \in 1 .. Len(s) : IsStop(s[k])

\* From p to b there are parallel agents only: what b yields and p takes meets no pipeline.
Chain(p, b) ==
    IsStrictPrefix(p, b) /\ \A v \in Agent : IsPrefix(p, v) /\ IsStrictPrefix(v, b) => Kind[v] = "parallel"

\* The sub-agent of p that b is, or is under.
Toward(p, b) == Sub(p, b[Len(p) + 1])

\* The error or the escalation that ended b is on its way up, or has arrived.
EscapesAt(p, b) == p = Root \/ st[p] = "ended" \/ HasStop(chan[p]) \/ IsStop(hand[Toward(p, b)])
Escapes(b)      == \E p \in Kinds("parallel") : Chain(p, b) /\ EscapesAt(p, b)

\* What polls an active agent is running.
PathRunning == \A d \in Agent : Active(d) => \A v \in Above[d] : st[v] = "running"

\* Under a pipeline, in all tasks, only the sub-agent that it is at is active.
ActiveAtPlace ==
    \A d \in Agent, n \in Pipeline : Active(d) /\ IsStrictPrefix(n, d) => d[Len(n) + 1] = pos[n]

\* What has paused or escalated has ended, and no pipeline above it goes on.
StoppedStay ==
    \A d \in stopped :
        st[d] = "ended" /\ \A n \in Pipeline : IsStrictPrefix(n, d) => d[Len(n) + 1] = pos[n]

\* What is not begun has nothing that runs; what is begun again has run to its end.
FreshBelow ==
    \A n \in Agent : st[n] \in {"idle", "start"} =>
        /\ \A d \in Below(n) : ~ Active(d) /\ d \notin stopped
        /\ "cancel" \in cuts \/ AllDone(n) \/ \A d \in Below(n) : st[d] = "idle"

\* A sub-agent that a pipeline finds ended has ended by itself, or the pipeline goes no further.
PipelineEnds ==
    \A n \in Pipeline : Alive(n) =>
        \A i \in 1 .. Count[n] : st[Sub(n, i)] = "ended" =>
            Done(Sub(n, i)) \/ (i = pos[n] /\ ((st[n] = "running" /\ paused) \/ cancelled))

\* So has a branch, or what ended it will end the pipelines above.
BranchEnds ==
    \A p \in Kinds("parallel") : Alive(p) =>
        \A b \in SubAgents(p) : st[b] = "ended" => Done(b) \/ paused \/ cancelled \/ Escapes(b)

\* A pipeline has passed what has run to its end.
PassedDone ==
    "cancel" \in cuts \/
    \A n \in Pipeline : Alive(n) =>
        /\ \A i \in 1 .. pos[n] - 1 : AllDone(Sub(n, i))
        /\ st[n] = "checkpoint" => AllDone(Sub(n, pos[n]))

TreeInv ==
    /\ PathRunning /\ ActiveAtPlace /\ StoppedStay /\ FreshBelow
    /\ PipelineEnds /\ BranchEnds /\ PassedDone

\* A step after which nothing is active that was not: it begins no sub-agent.
Shrinks ==
    /\ pos' = pos
    /\ \A d \in Agent :
        /\ Active(d)' => Active(d)
        /\ st[d] = "ended" => st'[d] = "ended"
        /\ st'[d] = "idle" <=> st[d] = "idle"
        /\ st'[d] = "start" => st[d] = "start"
    /\ \A p \in Kinds("parallel") : st'[p] = st[p] \/ st'[p] = "ended"
    /\ \A n \in Pipeline :
        \/ st'[n] = st[n] \/ st'[n] = "ended"
        \/ st'[n] = "checkpoint" /\ st[n] = "running" /\ ~ paused /\ st[Sub(n, pos[n])] = "ended"
    /\ \A d \in stopped' : d \in stopped \/ (d \in Agent /\ Active(d) /\ st'[d] = "ended")
    /\ finished \subseteq finished' /\ cuts \subseteq cuts' /\ (paused => paused') /\ (cancelled => cancelled')

\* What such a step ends has ended by itself, or the step says why not.
EndsWell ==
    \A n \in Agent : \A m \in SubAgents(n) :
        st[m] # "ended" /\ st'[m] = "ended" /\ Alive(n)' =>
            Done(m)' \/ paused' \/ cancelled' \/ (Kind[n] = "parallel" /\ Escapes(m)')

LEMMA AllDoneStays ==
    ASSUME finished \subseteq finished', NEW m, AllDone(m)
    PROVE  AllDone(m)'
BY DEF AllDone

LEMMA DoneStays ==
    ASSUME Shrinks, NEW m \in Agent, Done(m)
    PROVE  Done(m)'
<1>1. Clean(m)'
  <2> SUFFICES ASSUME NEW d \in Under(m) PROVE ~ Active(d)' /\ d \notin stopped'
    BY DEF Clean, Under
  <2>1. d \in Agent /\ ~ Active(d) /\ d \notin stopped
    BY DEF Done, Clean, Under
  <2> QED
    BY <2>1 DEF Shrinks
<1>2. "cancel" \in cuts' \/ AllDone(m)'
  BY AllDoneStays DEF Done, Shrinks
<1> QED
  BY <1>1, <1>2 DEF Done

LEMMA ShrinkKeeps ==
    ASSUME WorkflowTypes, TreeInv, Shrinks, PathRunning', EndsWell,
           \A b \in Branch : Alive(Front(b)) /\ Escapes(b) => Escapes(b)'
    PROVE  TreeInv'
<1>1. ActiveAtPlace'
  BY DEF TreeInv, ActiveAtPlace, Shrinks
<1>2. StoppedStay'
  <2> SUFFICES ASSUME NEW d \in stopped'
               PROVE  st'[d] = "ended" /\ \A n \in Pipeline : IsStrictPrefix(n, d) => d[Len(n) + 1] = pos'[n]
    BY DEF StoppedStay
  <2>1. CASE d \in stopped
    <3>1. d \in Agent
      BY <2>1, KindFacts DEF WorkflowTypes, TypeOK
    <3> QED
      BY <2>1, <3>1 DEF TreeInv, StoppedStay, Shrinks
  <2>2. CASE d \in Agent /\ Active(d) /\ st'[d] = "ended"
    BY <2>2 DEF TreeInv, ActiveAtPlace, Shrinks
  <2> QED
    BY <2>1, <2>2 DEF Shrinks
<1>3. FreshBelow'
  <2> SUFFICES ASSUME NEW n \in Agent, st'[n] \in {"idle", "start"}
               PROVE  /\ \A d \in Below(n) : ~ Active(d)' /\ d \notin stopped'
                      /\ "cancel" \in cuts' \/ AllDone(n)' \/ \A d \in Below(n) : st'[d] = "idle"
    BY DEF FreshBelow, Below
  <2>1. st[n] \in {"idle", "start"}
    BY DEF Shrinks
  <2>2. /\ \A d \in Below(n) : ~ Active(d) /\ d \notin stopped
        /\ "cancel" \in cuts \/ AllDone(n) \/ \A d \in Below(n) : st[d] = "idle"
    BY <2>1 DEF TreeInv, FreshBelow
  <2>3. \A d \in Below(n) : d \in Agent
    BY DEF Below
  <2>4. \A d \in Below(n) : ~ Active(d)' /\ d \notin stopped'
    BY <2>2, <2>3 DEF Shrinks
  <2>5. AllDone(n) => AllDone(n)'
    BY AllDoneStays DEF Shrinks
  <2>6. (\A d \in Below(n) : st[d] = "idle") => \A d \in Below(n) : st'[d] = "idle"
    BY <2>3 DEF Shrinks
  <2>7. "cancel" \in cuts => "cancel" \in cuts'
    BY DEF Shrinks
  <2> QED
    BY <2>2, <2>4, <2>5, <2>6, <2>7
<1>4. \A n \in Agent : Kind[n] # "leaf" /\ Alive(n)' => Alive(n)
  <2>1. \A n \in Agent : Kind[n] # "leaf" => n \in Pipeline \/ n \in Kinds("parallel")
    BY KindFacts
  <2> QED
    BY <2>1 DEF Shrinks, Alive
<1>5. PipelineEnds'
  <2> SUFFICES ASSUME NEW n \in Pipeline, Alive(n)', NEW i \in 1 .. Count[n], st'[Sub(n, i)] = "ended"
               PROVE  Done(Sub(n, i))' \/ (i = pos'[n] /\ ((st'[n] = "running" /\ paused') \/ cancelled'))
    BY DEF PipelineEnds
  <2>1. n \in Agent /\ Kind[n] # "leaf" /\ Kind[n] # "parallel" /\ Alive(n)
    <3>1. n \in Agent /\ Kind[n] \in {"sequential", "loop"}
      BY KindFacts
    <3> QED
      BY <1>4, <3>1
  <2> DEFINE m == Sub(n, i)
  <2>2. m \in SubAgents(n) /\ m \in Agent /\ m[Len(n) + 1] = i
    BY <2>1, Numbered
  <2>3. pos'[n] = pos[n] /\ (paused => paused') /\ (cancelled => cancelled')
    BY DEF Shrinks
  <2>4. CASE st[m] = "ended"
    <3>1. Done(m) \/ (i = pos[n] /\ ((st[n] = "running" /\ paused) \/ cancelled))
      BY <2>1, <2>4 DEF TreeInv, PipelineEnds
    <3>2. st[n] = "running" /\ paused => st'[n] = "running"
      BY <2>1 DEF Shrinks, Alive
    <3>3. Done(m) => Done(m)'
      BY <2>2, DoneStays
    <3> QED
      BY <2>3, <3>1, <3>2, <3>3
  <2>5. CASE st[m] # "ended"
    <3>1. Done(m)' \/ paused' \/ cancelled'
      BY <2>1, <2>2, <2>5 DEF EndsWell
    <3>2. Active(m) /\ IsStrictPrefix(n, m)
      <4>1. st[m] \in Status /\ st[m] # "idle"
        BY <2>2, <2>5 DEF Shrinks, WorkflowTypes, TypeOK
      <4> QED
        BY <2>1, <2>2, <2>5, <4>1, SubOrder DEF Status, Active
    <3>3. i = pos[n]
      BY <2>2, <3>2 DEF TreeInv, ActiveAtPlace
    <3>4. st'[n] = "running"
      <4>1. st[Sub(n, pos[n])] # "ended"
        BY <2>5, <3>3
      <4>2. st[n] = "running"
        <5>1. n \in Above[m]
          BY <2>1, <2>2, AboveSub
        <5> QED
          BY <2>2, <3>2, <5>1 DEF TreeInv, PathRunning
      <4> QED
        BY <4>1, <4>2 DEF Shrinks, Alive
    <3> QED
      BY <2>3, <3>1, <3>3, <3>4
  <2> QED
    BY <2>4, <2>5
<1>6. BranchEnds'
  <2> SUFFICES ASSUME NEW p \in Kinds("parallel"), Alive(p)', NEW b \in SubAgents(p), st'[b] = "ended"
               PROVE  Done(b)' \/ paused' \/ cancelled' \/ Escapes(b)'
    BY DEF BranchEnds
  <2>1. p \in Agent /\ Kind[p] = "parallel" /\ Alive(p) /\ b \in Agent /\ b \in Branch /\ Front(b) = p
    BY <1>4, KindFacts, SubOrder, TaskOfSub
  <2>2. CASE st[b] = "ended"
    <3>1. Done(b) \/ paused \/ cancelled \/ Escapes(b)
      BY <2>1, <2>2 DEF TreeInv, BranchEnds
    <3>2. Done(b) => Done(b)'
      BY <2>1, DoneStays
    <3> QED
      BY <2>1, <3>1, <3>2 DEF Shrinks
  <2>3. CASE st[b] # "ended"
    BY <2>1, <2>3 DEF EndsWell
  <2> QED
    BY <2>2, <2>3
<1>7. PassedDone'
  <2> SUFFICES ASSUME "cancel" \notin cuts', NEW n \in Pipeline, Alive(n)'
               PROVE  /\ \A i \in 1 .. pos'[n] - 1 : AllDone(Sub(n, i))'
                      /\ st'[n] = "checkpoint" => AllDone(Sub(n, pos[n]))'
    BY DEF PassedDone
  <2>1. n \in Agent /\ Alive(n) /\ "cancel" \notin cuts /\ ~ cancelled /\ pos' = pos
    <3>1. n \in Agent /\ Kind[n] \in {"sequential", "loop"}
      BY KindFacts
    <3> QED
      BY <1>4, <3>1 DEF Shrinks, WorkflowTypes, Flags
  <2>2. /\ \A i \in 1 .. pos[n] - 1 : AllDone(Sub(n, i))
        /\ st[n] = "checkpoint" => AllDone(Sub(n, pos[n]))
    BY <2>1 DEF TreeInv, PassedDone
  <2>3. \A m : AllDone(m) => AllDone(m)'
    BY AllDoneStays DEF Shrinks
  <2>4. \A i \in 1 .. pos'[n] - 1 : AllDone(Sub(n, i))'
    BY <2>1, <2>2, <2>3
  <2>5. ASSUME st'[n] = "checkpoint" PROVE AllDone(Sub(n, pos[n]))
    <3>1. CASE st[n] = "checkpoint"
      BY <2>2, <3>1
    <3>2. CASE st[n] = "running" /\ ~ paused /\ st[Sub(n, pos[n])] = "ended"
      <4>1. pos[n] \in 1 .. Count[n]
        BY DEF WorkflowTypes, TypeOK
      <4>2. Done(Sub(n, pos[n]))
        BY <2>1, <3>2, <4>1 DEF TreeInv, PipelineEnds
      <4> QED
        BY <2>1, <4>2 DEF Done
    <3> QED
      BY <2>5, <3>1, <3>2 DEF Shrinks
  <2>6. st'[n] = "checkpoint" => AllDone(Sub(n, pos[n]))'
    <3>1. AllDone(Sub(n, pos[n])) => AllDone(Sub(n, pos[n]))'
      BY <2>1 DEF AllDone, Shrinks
    <3> QED
      BY <2>5, <3>1
  <2> QED
    BY <2>4, <2>6
<1> QED
  BY <1>1, <1>2, <1>3, <1>5, <1>6, <1>7 DEF TreeInv

\* The number of a sub-agent on the way to d is that on the way to what is under d.
LEMMA SameNumber ==
    ASSUME NEW v \in Agent, NEW n \in Agent, NEW d \in Agent, IsStrictPrefix(v, n), IsPrefix(n, d)
    PROVE  d[Len(v) + 1] = n[Len(v) + 1] /\ Toward(v, d) = Toward(v, n)
<1>1. v \in Seq(Nat) /\ n \in Seq(Nat) /\ d \in Seq(Nat) /\ Len(v) \in Nat /\ Len(n) \in Nat
  BY TreeFacts
<1>2. Len(v) < Len(n) /\ \A i \in 1 .. Len(n) : n[i] = d[i]
  BY <1>1, PrefixIs
<1>3. Len(v) + 1 \in 1 .. Len(n)
  BY <1>1, <1>2
<1> QED
  BY <1>2, <1>3 DEF Toward

\* What is between two agents of a task is of the task.
LEMMA BetweenAbove ==
    ASSUME NEW d \in Agent, NEW v \in Above[d], NEW c \in Agent, IsPrefix(v, c), IsStrictPrefix(c, d)
    PROVE  c \in Above[d]
<1>1. v \in Agent /\ TopOf[v] = TopOf[d]
  BY AboveAbove
<1> DEFINE t == TopOf[d]
           u == TopOf[c]
<1>2. t \in Top /\ t \in Agent /\ IsPrefix(t, v) /\ u \in Top /\ u \in Agent /\ IsPrefix(u, c)
      /\ (\A x \in Top : IsPrefix(x, d) => IsPrefix(x, t)) /\ (\A x \in Top : IsPrefix(x, c) => IsPrefix(x, u))
  BY <1>1, TopOfIs
<1> HIDE DEF t, u
<1>3. IsPrefix(t, c) /\ IsPrefix(u, d)
  BY <1>1, <1>2, PathOrder
<1>4. u = t
  BY <1>2, <1>3, PathOrder
<1> QED
  BY <1>4, AboveIs DEF t, u

\* The parent of a branch is at the end of a chain to it, and a chain goes on through a branch.
LEMMA Chains ==
    /\ \A b \in Branch : Front(b) \in Kinds("parallel") /\ Chain(Front(b), b) /\ Toward(Front(b), b) = b
    /\ \A p, b \in Agent : Chain(p, b) /\ p \in Branch => Chain(Front(p), b) /\ Toward(Front(p), b) = p
    /\ \A p, b \in Agent : Chain(p, b) => Kind[Front(b)] = "parallel" /\ (p = Front(b) \/ Chain(p, Front(b)))
    /\ \A p \in Kinds("parallel"), b \in Agent : Chain(p, b) => Toward(p, b) \in Branch /\ Front(Toward(p, b)) = p
<1>1. ASSUME NEW b \in Branch
      PROVE  Front(b) \in Kinds("parallel") /\ Chain(Front(b), b) /\ Toward(Front(b), b) = b
  <2>1. Front(b) \in Agent /\ Kind[Front(b)] = "parallel" /\ b \in SubAgents(Front(b)) /\ b \in Agent
    BY KindFacts
  <2>2. IsStrictPrefix(Front(b), b) /\ Toward(Front(b), b) = b
        /\ \A v \in Agent : IsStrictPrefix(v, b) => IsPrefix(v, Front(b))
    BY <2>1, SubOrder DEF Toward
  <2>3. ASSUME NEW v \in Agent, IsPrefix(Front(b), v), IsStrictPrefix(v, b) PROVE Kind[v] = "parallel"
    BY <2>1, <2>2, <2>3, PathOrder
  <2> QED
    BY <2>1, <2>2, <2>3 DEF Chain, Kinds
<1>2. ASSUME NEW p \in Agent, NEW b \in Agent, Chain(p, b), p \in Branch
      PROVE  Chain(Front(p), b) /\ Toward(Front(p), b) = p
  <2> DEFINE f == Front(p)
  <2>1. f \in Agent /\ Kind[f] = "parallel" /\ p \in SubAgents(f) /\ Toward(f, p) = p
    BY <1>1, <1>2, KindFacts
  <2> HIDE DEF f
  <2>2. IsStrictPrefix(f, p) /\ (\A v \in Agent : IsStrictPrefix(v, p) => IsPrefix(v, f)) /\ IsStrictPrefix(p, b)
    BY <1>2, <2>1, SubOrder DEF Chain
  <2>3. IsStrictPrefix(f, b) /\ Toward(f, b) = p
    BY <2>1, <2>2, PathOrder, SameNumber
  <2>4. ASSUME NEW v \in Agent, IsPrefix(f, v), IsStrictPrefix(v, b) PROVE Kind[v] = "parallel"
    <3>1. CASE IsPrefix(p, v)
      BY <1>2, <2>4, <3>1 DEF Chain
    <3>2. CASE ~ IsPrefix(p, v)
      <4>1. IsStrictPrefix(v, p)
        BY <2>2, <2>4, <3>2, PathOrder
      <4>2. v = f
        BY <2>1, <2>2, <2>4, <4>1, PathOrder
      <4> QED
        BY <2>1, <4>2
    <3> QED
      BY <3>1, <3>2
  <2> QED
    BY <2>3, <2>4 DEF Chain, f
<1>3. ASSUME NEW p \in Agent, NEW b \in Agent, Chain(p, b)
      PROVE  Kind[Front(b)] = "parallel" /\ (p = Front(b) \/ Chain(p, Front(b)))
  <2> DEFINE f == Front(b)
  <2>1. IsStrictPrefix(p, b) /\ b # Root
    BY <1>3, PathOrder DEF Chain
  <2>2. f \in Agent /\ b \in SubAgents(f)
    BY <2>1, TreeFacts
  <2> HIDE DEF f
  <2>3. IsPrefix(p, f) /\ IsStrictPrefix(f, b)
    BY <2>1, <2>2, SubOrder
  <2>4. Kind[f] = "parallel"
    BY <1>3, <2>2, <2>3 DEF Chain
  <2>5. ASSUME p # f PROVE Chain(p, f)
    <3>1. IsStrictPrefix(p, f)
      BY <2>2, <2>3, <2>5, PathOrder
    <3>2. \A v \in Agent : IsStrictPrefix(v, f) => IsStrictPrefix(v, b)
      BY <2>2, <2>3, PathOrder
    <3> QED
      BY <1>3, <3>1, <3>2 DEF Chain
  <2> QED
    BY <2>4, <2>5 DEF f
<1>4. ASSUME NEW p \in Kinds("parallel"), NEW b \in Agent, Chain(p, b)
      PROVE  Toward(p, b) \in Branch /\ Front(Toward(p, b)) = p
  <2>1. p \in Agent /\ Kind[p] = "parallel" /\ IsStrictPrefix(p, b)
    BY <1>4 DEF Kinds, Chain
  <2>2. Toward(p, b) \in SubAgents(p)
    BY <2>1, PathIsAgents DEF Toward
  <2> QED
    BY <2>1, <2>2, SubOrder, TaskOfSub
<1> QED
  BY <1>1, <1>2, <1>3, <1>4

\* A step that drops no error and no escalation on its way.
StopsKept ==
    /\ \A p \in Kinds("parallel") :
        HasStop(chan[p]) => \/ HasStop(chan[p])' \/ st'[p] = "ended" \/ p = Root
                            \/ p \in Branch /\ IsStop(hand[p])'
                            \/ st[p] \in {"idle", "start"}
    /\ \A u \in Branch :
        IsStop(hand[u]) => IsStop(hand[u])' \/ HasStop(chan[Front(u)])' \/ st'[Front(u)] = "ended"

\* What ended a branch does not get lost on its way.
LEMMA EscapesStay ==
    ASSUME WorkflowTypes, FreshBelow, StopsKept,
           \A p \in Kinds("parallel") : st[p] = "ended" => st'[p] = "ended",
           NEW b \in Branch, Active(Front(b)), st[Front(b)] # "start", Escapes(b)
    PROVE  Escapes(b)'
<1>1. PICK p \in Kinds("parallel") : Chain(p, b) /\ EscapesAt(p, b)
  BY DEF Escapes
<1>2. p \in Agent /\ b \in Agent /\ Kind[p] = "parallel"
  BY KindFacts
<1> SUFFICES ASSUME p # Root PROVE \E q \in Kinds("parallel") : Chain(q, b) /\ EscapesAt(q, b)'
  BY <1>1 DEF Escapes, EscapesAt
<1>3. CASE st[p] = "ended"
  BY <1>1, <1>3 DEF EscapesAt
<1>4. CASE HasStop(chan[p])
  <2>1. st[p] \notin {"idle", "start"}
    <3>1. p = Front(b) \/ IsStrictPrefix(p, Front(b))
      BY <1>1, <1>2, Chains DEF Chain
    <3>2. Front(b) \in Agent
      BY KindFacts
    <3> QED
      BY <1>2, <3>1, <3>2 DEF FreshBelow, Below, Active
  <2>2. CASE HasStop(chan[p])' \/ st'[p] = "ended"
    BY <1>1, <2>2 DEF EscapesAt
  <2>3. CASE p \in Branch /\ IsStop(hand[p])'
    <3>1. Front(p) \in Kinds("parallel") /\ Chain(Front(p), b) /\ Toward(Front(p), b) = p
      BY <1>1, <1>2, <2>3, Chains
    <3> QED
      BY <2>3, <3>1 DEF EscapesAt
  <2> QED
    BY <1>4, <2>1, <2>2, <2>3 DEF StopsKept
<1>5. CASE IsStop(hand[Toward(p, b)])
  <2>1. Toward(p, b) \in Branch /\ Front(Toward(p, b)) = p
    BY <1>1, <1>2, Chains
  <2> QED
    BY <1>1, <1>5, <2>1 DEF EscapesAt, StopsKept
<1> QED
  BY <1>1, <1>3, <1>4, <1>5 DEF EscapesAt

\* The active agents of a task are on one path.
LEMMA TaskIsPath ==
    ASSUME ActiveAtPlace, NEW d \in Agent, NEW n \in Agent, Active(d), Active(n), TopOf[d] = TopOf[n]
    PROVE  IsPrefix(d, n) \/ IsPrefix(n, d)
<1> SUFFICES ASSUME ~ IsPrefix(d, n), ~ IsPrefix(n, d) PROVE FALSE
  OBVIOUS
<1>1. PICK c \in Agent : IsStrictPrefix(c, d) /\ IsStrictPrefix(c, n) /\ d[Len(c) + 1] # n[Len(c) + 1]
  BY Parting
<1> DEFINE t == TopOf[d]
<1>2. t \in Agent /\ t \in Top /\ IsPrefix(t, d) /\ IsPrefix(t, n)
  BY TopOfIs
<1> HIDE DEF t
<1>3. ~ IsStrictPrefix(c, t)
  BY <1>1, <1>2, SameNumber
<1>4. IsPrefix(t, c)
  BY <1>1, <1>2, <1>3, PathOrder
<1>5. t \in Above[d]
  <2>1. IsStrictPrefix(t, d) /\ TopOf[t] = t
    BY <1>1, <1>2, <1>4, AboveIs, PathOrder
  <2> QED
    BY <1>2, <2>1, AboveIs DEF t
<1>6. c \in Above[d]
  BY <1>1, <1>4, <1>5, BetweenAbove
<1>7. c \in Pipeline
  BY <1>6, AboveIs
<1> QED
  BY <1>1, <1>7 DEF ActiveAtPlace

\* Nothing is active below an agent that does not wait for a sub-agent, in its task.
LEMMA NoneBelow ==
    ASSUME TreeInv, NEW n \in Agent,
           n \in Pipeline /\ st[n] = "running" => pos[n] \in 1 .. Count[n] /\ st[Sub(n, pos[n])] = "ended"
    PROVE  \A d \in Agent : Active(d) => n \notin Above[d]
<1> SUFFICES ASSUME NEW d \in Agent, Active(d), n \in Above[d] PROVE FALSE
  OBVIOUS
<1>1. n \in Pipeline /\ st[n] = "running" /\ IsStrictPrefix(n, d)
  BY AboveAbove DEF TreeInv, PathRunning
<1>2. d[Len(n) + 1] = pos[n]
  BY <1>1 DEF TreeInv, ActiveAtPlace
<1> DEFINE c == Sub(n, pos[n])
<1>3. c \in SubAgents(n) /\ IsPrefix(c, d)
  BY <1>1, <1>2, PathIsAgents
<1>4. c \in Above[d] \cup {d}
  BY <1>3, AboveAbove
<1>5. st[c] = "ended"
  BY <1>1
<1> QED
  BY <1>4, <1>5 DEF TreeInv, PathRunning, Active

\* When the sub-agent that a pipeline is at has ended and it may go on, all below is clean.
LEMMA CleanBelow ==
    ASSUME WorkflowTypes, TreeInv, NEW n \in Pipeline, ~ cancelled,
           st[n] = "checkpoint" \/ (st[n] = "running" /\ st[Sub(n, pos[n])] = "ended" /\ ~ paused)
    PROVE  /\ \A d \in Below(n) : ~ Active(d) /\ d \notin stopped
           /\ "cancel" \in cuts \/ \A i \in 1 .. pos[n] : AllDone(Sub(n, i))
<1> DEFINE m == Sub(n, pos[n])
<1>1. n \in Agent /\ Alive(n) /\ pos[n] \in 1 .. Count[n] /\ Kind[n] # "parallel" /\ Count[n] \in Nat
  BY KindFacts, TreeFacts DEF Alive, WorkflowTypes, TypeOK
<1>2. m \in SubAgents(n) /\ m \in Agent /\ m[Len(n) + 1] = pos[n]
  BY <1>1, Numbered
<1> HIDE DEF m
<1>3. st[m] = "ended" => Done(m)
  <2>1. st[m] = "ended" => Done(m) \/ (st[n] = "running" /\ paused) \/ cancelled
    BY <1>1 DEF TreeInv, PipelineEnds, m
  <2> QED
    BY <2>1 DEF m
<1>4. ~ Active(m)
  <2>1. n \in Above[m]
    BY <1>1, <1>2, AboveSub
  <2>2. st[m] = "ended" \/ st[n] # "running"
    BY DEF m
  <2> QED
    BY <1>2, <2>1, <2>2 DEF TreeInv, PathRunning, Active
<1>5. st[m] \in {"idle", "ended"}
  <2>1. st[m] \in Status
    BY <1>2 DEF WorkflowTypes, TypeOK
  <2> QED
    BY <1>4, <2>1 DEF Active, Status
<1>6. m \notin stopped
  <2>1. m \in stopped => st[m] = "ended"
    BY DEF TreeInv, StoppedStay
  <2>2. m \in Under(m)
    BY <1>2, PathOrder DEF Under
  <2> QED
    BY <1>3, <2>1, <2>2 DEF Done, Clean
<1>7. Clean(m)
  <2>1. CASE st[m] = "ended"
    BY <1>3, <2>1 DEF Done
  <2>2. CASE st[m] = "idle"
    <3>1. \A d \in Below(m) : ~ Active(d) /\ d \notin stopped
      BY <1>2, <2>2 DEF TreeInv, FreshBelow
    <3>2. \A d \in Under(m) : d = m \/ d \in Below(m)
      BY <1>2, PathOrder DEF Under, Below
    <3> QED
      BY <1>4, <1>6, <3>1, <3>2 DEF Clean
  <2> QED
    BY <1>5, <2>1, <2>2
<1>8. ASSUME NEW d \in Below(n) PROVE ~ Active(d) /\ d \notin stopped
  <2>1. d \in Agent /\ IsStrictPrefix(n, d)
    BY DEF Below
  <2> SUFFICES ASSUME Active(d) \/ d \in stopped PROVE FALSE
    OBVIOUS
  <2>2. d[Len(n) + 1] = pos[n]
    BY <2>1 DEF TreeInv, ActiveAtPlace, StoppedStay
  <2>3. d \in Under(m)
    BY <1>1, <1>2, <2>1, <2>2, SubOrder DEF Under
  <2> QED
    BY <1>7, <2>3 DEF Clean
<1>9. "cancel" \in cuts \/ AllDone(m)
  <2>1. CASE st[n] = "checkpoint"
    BY <1>1, <2>1 DEF TreeInv, PassedDone, m
  <2>2. CASE st[n] = "running" /\ st[m] = "ended"
    BY <1>3, <2>2 DEF Done
  <2> QED
    BY <2>1, <2>2 DEF m
<1>10. "cancel" \in cuts \/ \A i \in 1 .. pos[n] - 1 : AllDone(Sub(n, i))
  BY <1>1 DEF TreeInv, PassedDone
<1>11. \A i \in 1 .. pos[n] : i \in 1 .. pos[n] - 1 \/ i = pos[n]
  BY <1>1
<1> QED
  BY <1>8, <1>9, <1>10, <1>11 DEF m

\* Nothing in the history or the flags is undone.
Onward ==
    /\ pos' = pos /\ finished \subseteq finished' /\ cuts \subseteq cuts'
    /\ (paused => paused') /\ (cancelled => cancelled')

\* Agents ns have ended, or were not begun.
Ended(ns) == \A d \in Agent : st'[d] = IF d \in ns /\ st[d] # "idle" THEN "ended" ELSE st[d]

LEMMA EndingKeeps ==
    ASSUME WorkflowTypes, TreeInv, NEW ns, Ended(ns), Onward, StopsKept, EndsWell,
           \A d \in stopped' : d \in stopped \/ (d \in Agent /\ d \in ns /\ Active(d)),
           \A v \in ns, d \in Agent : v \in Above[d] /\ Active(d) => d \in ns
    PROVE  TreeInv'
<1>1. \A d \in Agent : st[d] \in Status
  BY DEF WorkflowTypes, TypeOK
<1>2. Shrinks
  <2>1. ASSUME NEW d \in Agent
        PROVE  /\ Active(d)' => Active(d)
               /\ st[d] = "ended" => st'[d] = "ended"
               /\ st'[d] = "idle" <=> st[d] = "idle"
               /\ st'[d] = "start" => st[d] = "start"
               /\ st'[d] = st[d] \/ st'[d] = "ended"
    BY DEF Ended, Active
  <2>2. \A d \in stopped' : d \in stopped \/ (d \in Agent /\ Active(d) /\ st'[d] = "ended")
    BY DEF Ended, Active
  <2>3. Pipeline \subseteq Agent /\ Kinds("parallel") \subseteq Agent
    BY KindFacts
  <2> QED
    BY <2>1, <2>2, <2>3 DEF Shrinks, Onward
<1>3. PathRunning'
  <2> SUFFICES ASSUME NEW d \in Agent, Active(d)', NEW v \in Above[d] PROVE st'[v] = "running"
    BY DEF PathRunning
  <2>1. v \in Agent /\ Active(d) /\ st[v] = "running"
    BY <1>2, AboveAbove DEF Shrinks, TreeInv, PathRunning
  <2>2. v \notin ns
    <3>1. v \in ns => d \in ns
      BY <2>1
    <3>2. d \in ns => st'[d] = "ended"
      BY <2>1 DEF Ended, Active
    <3> QED
      BY <3>1, <3>2 DEF Active
  <2> QED
    BY <2>1, <2>2 DEF Ended
<1>4. ASSUME NEW b \in Branch, Alive(Front(b)), Escapes(b) PROVE Escapes(b)'
  <2>1. \A p \in Kinds("parallel") : st[p] = "ended" => st'[p] = "ended"
    BY <1>2, KindFacts DEF Shrinks
  <2>2. Active(Front(b)) /\ st[Front(b)] # "start"
    BY <1>4 DEF Alive, Active
  <2> QED
    BY <1>4, <2>1, <2>2, EscapesStay DEF TreeInv
<1> QED
  BY <1>2, <1>3, <1>4, ShrinkKeeps

\* An agent ends by itself, or paused or cancelled.
LEMMA EndOfOne ==
    ASSUME WorkflowTypes, TreeInv, NEW n \in Agent, Active(n), Set(n, "ended"), Onward, UNCHANGED transit,
           \A d \in stopped' : d \in stopped \/ d = n,
           n \in Pipeline /\ st[n] = "running" => st[Sub(n, pos[n])] = "ended",
           n # Root => Done(n)' \/ paused' \/ cancelled' \/ (Kind[Front(n)] = "parallel" /\ Escapes(n)')
    PROVE  TreeInv'
<1>1. StatusTypes /\ "ended" \in Status /\ \A v \in Pipeline : pos[v] \in 1 .. Count[v]
  BY TypesByVariable DEF Status, PlaceTypes
<1>2. Ended({n})
  <2>1. st'[n] = "ended" /\ \A m \in Agent \ {n} : st'[m] = st[m]
    BY <1>1, SetTypes
  <2> QED
    BY <2>1 DEF Ended, Active
<1>3. StopsKept
  BY DEF StopsKept, transit
<1>4. EndsWell
  <2> SUFFICES ASSUME NEW c \in Agent, NEW m \in SubAgents(c), st[m] # "ended", st'[m] = "ended"
               PROVE  Done(m)' \/ paused' \/ cancelled' \/ (Kind[c] = "parallel" /\ Escapes(m)')
    BY DEF EndsWell
  <2>1. m \in Agent /\ m # Root /\ Front(m) = c
    BY SubOrder
  <2>2. m = n
    BY <1>2, <2>1 DEF Ended
  <2> QED
    BY <2>1, <2>2
<1>5. \A v \in {n}, d \in Agent : v \in Above[d] /\ Active(d) => d \in {n}
  BY <1>1, NoneBelow
<1>6. \A d \in stopped' : d \in stopped \/ (d \in Agent /\ d \in {n} /\ Active(d))
  OBVIOUS
<1> QED
  BY <1>2, <1>3, <1>4, <1>5, <1>6, EndingKeeps

\* A pipeline that ends after its last sub-agent has done all of it.
LEMMA LastIsDone ==
    ASSUME WorkflowTypes, TreeInv, NEW n \in Pipeline, ~ cancelled, ~ paused, st[n] = "running",
           st[Sub(n, pos[n])] = "ended", pos[n] = Count[n], Set(n, "ended"), UNCHANGED <<finished, stopped, cuts>>
    PROVE  Done(n)'
<1>1. n \in Agent /\ n \notin Leaf /\ Count[n] \in Nat
  BY KindFacts, TreeFacts
<1>2. /\ \A d \in Below(n) : ~ Active(d) /\ d \notin stopped
      /\ "cancel" \in cuts \/ \A i \in 1 .. pos[n] : AllDone(Sub(n, i))
  BY CleanBelow
<1>3. st'[n] = "ended" /\ \A m \in Agent \ {n} : st'[m] = st[m]
  BY <1>1, TypesByVariable, SetTypes DEF Status
<1>4. \A d \in Under(n) : d \in Agent /\ (d = n \/ d \in Below(n))
  BY <1>1, PathOrder DEF Under, Below
<1>5. Clean(n)'
  <2>1. n \notin stopped
    BY <1>1 DEF WorkflowTypes, TypeOK
  <2> SUFFICES ASSUME NEW d \in Under(n) PROVE ~ Active(d)' /\ d \notin stopped'
    BY DEF Clean, Under
  <2> QED
    BY <1>2, <1>3, <1>4, <2>1 DEF Active
<1>6. ASSUME "cancel" \notin cuts, NEW l \in Leaf, IsPrefix(n, l) PROVE l \in finished
  <2>1. l \in Agent /\ IsStrictPrefix(n, l)
    BY <1>1, <1>6, KindFacts, PathOrder
  <2>2. l[Len(n) + 1] \in 1 .. Count[n] /\ IsPrefix(Sub(n, l[Len(n) + 1]), l)
    BY <1>1, <2>1, PathIsAgents
  <2> QED
    BY <1>2, <1>6, <2>2 DEF AllDone
<1>7. "cancel" \in cuts' \/ AllDone(n)'
  BY <1>6 DEF AllDone
<1> QED
  BY <1>5, <1>7 DEF Done

\* So has a parallel agent whose branches are over, or the error or escalation of one of
\* them is on its way.
LEMMA MergedIsDone ==
    ASSUME WorkflowTypes, TreeInv, NEW p \in Kinds("parallel"), ~ cancelled, ~ paused, p # Root,
           st[p] = "running", chan[p] = <<>>, \A b \in SubAgents(p) : BranchDone(b),
           Set(p, "ended"), UNCHANGED <<transit, finished, stopped, cuts>>
    PROVE  Done(p)' \/ (Kind[Front(p)] = "parallel" /\ Escapes(p)')
<1>1. p \in Agent /\ p \notin Leaf /\ Alive(p) /\ Kind[p] = "parallel"
  BY KindFacts DEF Alive, Kinds, Leaf
<1>2. st'[p] = "ended" /\ \A m \in Agent \ {p} : st'[m] = st[m]
  BY <1>1, TypesByVariable, SetTypes DEF Status
<1>3. \A b \in SubAgents(p) : b \in Branch /\ b \in Agent /\ Front(b) = p /\ (Done(b) \/ Escapes(b))
  <2>1. \A b \in SubAgents(p) : b \in Branch /\ b \in Agent /\ Front(b) = p
    BY <1>1, SubOrder, TaskOfSub
  <2> QED
    BY <1>1, <2>1 DEF TreeInv, BranchEnds, BranchDone
<1>4. CASE \A b \in SubAgents(p) : Done(b)
  <2>1. \A d \in Agent : IsPrefix(p, d) /\ d # p => \E b \in SubAgents(p) : IsPrefix(b, d)
    BY <1>1, PathIsAgents, PathOrder
  <2>2. Clean(p)'
    <3> SUFFICES ASSUME NEW d \in Under(p) PROVE ~ Active(d)' /\ d \notin stopped'
      BY DEF Clean, Under
    <3>1. CASE d = p
      BY <1>1, <1>2, <3>1 DEF WorkflowTypes, TypeOK, Active
    <3>2. CASE d # p
      <4>1. PICK b \in SubAgents(p) : d \in Under(b)
        BY <2>1, <3>2 DEF Under
      <4>2. ~ Active(d) /\ d \notin stopped
        BY <1>4, <4>1 DEF Done, Clean
      <4> QED
        BY <1>2, <3>2, <4>2 DEF Active, Under
    <3> QED
      BY <3>1, <3>2
  <2>3. ASSUME "cancel" \notin cuts, NEW l \in Leaf, IsPrefix(p, l) PROVE l \in finished
    <3>1. PICK b \in SubAgents(p) : IsPrefix(b, l)
      BY <1>1, <2>1, <2>3, KindFacts
    <3> QED
      BY <1>4, <2>3, <3>1 DEF Done, AllDone
  <2> QED
    BY <2>2, <2>3 DEF Done, AllDone
<1>5. ASSUME NEW b \in SubAgents(p), Escapes(b) PROVE Kind[Front(p)] = "parallel" /\ Escapes(p)'
  <2>1. b \in Branch /\ b \in Agent /\ Front(b) = p /\ IsPrefix(p, b)
    BY <1>1, <1>3, SubOrder
  <2>2. PICK q \in Kinds("parallel") : Chain(q, b) /\ EscapesAt(q, b)
    BY <1>5 DEF Escapes
  <2>3. q \in Agent /\ (q = p \/ Chain(q, p))
    BY <2>1, <2>2, Chains, KindFacts
  <2>4. q # p
    <3>1. ~ HasStop(<<>>)
      BY DEF HasStop
    <3>2. ~ IsStop(hand[b])
      BY ItemFacts DEF BranchDone, IsStop
    <3>3. Toward(p, b) = b
      BY <2>1, Chains
    <3> QED
      BY <2>2, <3>1, <3>2, <3>3 DEF EscapesAt
  <2>5. Toward(q, b) = Toward(q, p)
    BY <1>1, <2>1, <2>3, <2>4, SameNumber DEF Chain
  <2>6. EscapesAt(q, p)'
    BY <1>2, <2>2, <2>3, <2>4, <2>5 DEF EscapesAt, transit
  <2>7. Kind[Front(p)] = "parallel"
    BY <1>1, <2>3, <2>4, Chains
  <2> QED
    BY <2>3, <2>4, <2>6, <2>7 DEF Escapes
<1> QED
  BY <1>3, <1>4, <1>5

\* An error or an escalation ends the streams it goes through, up to the top of its task.
LEMMA StopKeeps ==
    ASSUME WorkflowTypes, TreeInv, NEW n \in Agent, n \notin Pipeline, Active(n), hand[TopOf[n]] = NoItem,
           NEW item \in Item, IsStop(item), Yield(n, item), End(Above[n] \cup {n}), Onward,
           \A d \in stopped' : d \in stopped \/ d = n
    PROVE  TreeInv'
<1> DEFINE ns == Above[n] \cup {n}
<1>1. ns \subseteq Agent /\ \A v \in ns : TopOf[v] = TopOf[n]
  BY AboveAbove
<1>2. /\ \A d \in Agent : st'[d] = IF d \in ns /\ st[d] # "idle" THEN "ended" ELSE st[d]
      /\ \A p \in Kinds("parallel") : chan'[p] = IF p \in ns THEN <<>> ELSE chan[p]
  BY TypesByVariable, EndTypes
<1>3. TopOf[n] \in Top /\ hand'[TopOf[n]] = item /\ \A t \in Top \ {TopOf[n]} : hand'[t] = hand[t]
  BY TypesByVariable, YieldTypes
<1>4. Ended(ns)
  BY <1>2 DEF Ended
<1> HIDE DEF ns
<1>5. ASSUME NEW v \in ns, NEW d \in Agent, v \in Above[d], Active(d) PROVE d \in ns
  <2>1. TopOf[d] = TopOf[n]
    BY <1>1, <1>5, AboveAbove
  <2>2. IsPrefix(d, n) \/ IsPrefix(n, d)
    BY <1>5, <2>1, TaskIsPath DEF TreeInv
  <2>3. ~ IsStrictPrefix(n, d)
    BY <2>1, AboveIs
  <2>4. d = n \/ IsStrictPrefix(d, n)
    BY <2>2, <2>3, PathOrder
  <2> QED
    BY <2>1, <2>4, AboveIs DEF ns
<1>6. StopsKept
  <2>1. \A p \in Kinds("parallel") : HasStop(chan[p]) =>
            HasStop(chan[p])' \/ st'[p] = "ended" \/ st[p] \in {"idle", "start"}
    BY <1>2, KindFacts DEF HasStop, IsStop
  <2>2. \A u \in Branch : IsStop(hand[u]) => IsStop(hand[u])'
    BY <1>3, KindFacts, ItemFacts DEF IsStop
  <2> QED
    BY <2>1, <2>2 DEF StopsKept
<1>7. EndsWell
  <2> SUFFICES ASSUME NEW c \in Agent, NEW m \in SubAgents(c), st[m] # "ended", st'[m] = "ended", Alive(c)'
               PROVE  Kind[c] = "parallel" /\ Escapes(m)'
    BY DEF EndsWell
  <2>1. m \in Agent /\ m \in ns /\ Front(m) = c /\ IsStrictPrefix(c, m)
    BY <1>2, SubOrder
  <2>2. Kind[c] = "parallel"
    <3> SUFFICES ASSUME Kind[c] # "parallel" PROVE FALSE
      OBVIOUS
    <3>1. TopOf[c] = TopOf[n]
      BY <1>1, <2>1, AboveSub
    <3>2. m = n \/ m \in Above[n]
      BY <2>1 DEF ns
    <3>3. IsStrictPrefix(c, n)
      BY <2>1, <3>2, AboveAbove, PathOrder
    <3>4. c \in ns
      BY <3>1, <3>3, AboveIs DEF ns
    <3> QED
      BY <1>2, <3>4 DEF Alive
  <2>3. m \in Branch /\ TopOf[n] = m
    BY <1>1, <2>1, <2>2, TaskOfSub
  <2>4. c \in Kinds("parallel") /\ Chain(c, m) /\ Toward(c, m) = m
    BY <2>1, <2>3, Chains
  <2>5. IsStop(hand[Toward(c, m)])'
    BY <1>3, <2>3, <2>4
  <2>6. EscapesAt(c, m)'
    BY <2>5 DEF EscapesAt
  <2> QED
    BY <2>2, <2>4, <2>6 DEF Escapes
<1>8. \A d \in stopped' : d \in stopped \/ (d \in Agent /\ d \in ns /\ Active(d))
  BY DEF ns
<1> QED
  BY <1>4, <1>5, <1>6, <1>7, <1>8, EndingKeeps

\* What is in the hand of the top of a task is dropped with all of the task, when the task
\* is the root's or its receiver is gone.
LEMMA DropKeeps ==
    ASSUME WorkflowTypes, TreeInv, NEW t \in Top, t = Root \/ (t \in Branch /\ st[Front(t)] = "ended"),
           End(TaskOf(t)), hand' = [hand EXCEPT ![t] = NoItem], Onward, stopped' = stopped
    PROVE  TreeInv'
<1> DEFINE ns == TaskOf(t)
<1>1. ns \subseteq Agent /\ \A v \in Agent : v \in ns <=> TopOf[v] = t
  BY DEF TaskOf
<1>2. /\ \A d \in Agent : st'[d] = IF d \in ns /\ st[d] # "idle" THEN "ended" ELSE st[d]
      /\ \A p \in Kinds("parallel") : chan'[p] = IF p \in ns THEN <<>> ELSE chan[p]
  BY TypesByVariable, EndTypes
<1>3. \A u \in Top \ {t} : hand'[u] = hand[u]
  BY TypesByVariable DEF HandTypes
<1>4. Ended(ns)
  BY <1>2 DEF Ended
<1> HIDE DEF ns
<1>5. \A v \in ns, d \in Agent : v \in Above[d] /\ Active(d) => d \in ns
  BY <1>1, AboveAbove
<1>6. t \in Branch => st'[Front(t)] = "ended" \/ t = Root
  BY <1>2, KindFacts
<1>7. StopsKept
  <2>1. \A p \in Kinds("parallel") : HasStop(chan[p]) =>
            HasStop(chan[p])' \/ st'[p] = "ended" \/ st[p] \in {"idle", "start"}
    BY <1>2, KindFacts DEF HasStop, IsStop
  <2>2. \A u \in Branch : IsStop(hand[u]) => IsStop(hand[u])' \/ st'[Front(u)] = "ended"
    BY <1>3, <1>6, KindFacts DEF IsStop
  <2> QED
    BY <2>1, <2>2 DEF StopsKept
<1>8. EndsWell
  <2> SUFFICES ASSUME NEW c \in Agent, NEW m \in SubAgents(c), st[m] # "ended", st'[m] = "ended", Alive(c)'
               PROVE  FALSE
    BY DEF EndsWell
  <2>1. m \in Agent /\ m \in ns /\ Front(m) = c /\ TopOf[m] = t /\ m # Root
    BY <1>1, <1>2, SubOrder
  <2>2. CASE Kind[c] = "parallel"
    <3>1. m = t
      BY <2>1, <2>2, TaskOfSub
    <3> QED
      BY <1>2, <2>1, <3>1 DEF Alive
  <2>3. CASE Kind[c] # "parallel"
    <3>1. c \in ns
      BY <1>1, <2>1, <2>3, TaskOfSub
    <3> QED
      BY <1>2, <3>1 DEF Alive
  <2> QED
    BY <2>2, <2>3
<1> QED
  BY <1>4, <1>5, <1>7, <1>8, EndingKeeps

\* Nothing ends.
LEMMA StayKeeps ==
    ASSUME WorkflowTypes, TreeInv, st' = st, Onward, StopsKept, stopped' = stopped
    PROVE  TreeInv'
<1>1. Ended({}) /\ EndsWell
  BY DEF Ended, EndsWell, SubAgents
<1> QED
  BY <1>1, EndingKeeps

\* An agent, the statuses of which are not those of a pipeline's sub-agents that begin or
\* end, goes on.
LEMMA AdvanceKeeps ==
    ASSUME WorkflowTypes, TreeInv, NEW n \in Agent, Onward, StopsKept, UNCHANGED <<stopped, paused>>,
           \/ n \in Leaf /\ st[n] = "start" /\ Set(n, "running")
           \/ /\ n \in Kinds("sequential") /\ st[n] = "running" /\ Set(n, "checkpoint") /\ ~ paused
              /\ st[Sub(n, pos[n])] = "ended"
    PROVE  TreeInv'
<1>1. StatusTypes /\ (\A v \in Pipeline : pos[v] \in 1 .. Count[v]) /\ "running" \in Status /\ "checkpoint" \in Status
  BY TypesByVariable DEF Status, PlaceTypes
<1>2. /\ st'[n] \in {"running", "checkpoint"} /\ Active(n) /\ st[n] # "ended" /\ st[n] # "idle"
      /\ \A m \in Agent \ {n} : st'[m] = st[m]
  BY <1>1, SetTypes DEF Active
<1>3. \A d \in Agent : Active(d) => n \notin Above[d]
  <2>1. n \in Pipeline => n \notin Leaf /\ n \notin Kinds("parallel")
    BY KindFacts
  <2> QED
    BY <1>1, <2>1, NoneBelow
<1>4. Shrinks
  <2>1. \A d \in Agent :
            /\ Active(d)' => Active(d)
            /\ st[d] = "ended" => st'[d] = "ended"
            /\ st'[d] = "idle" <=> st[d] = "idle"
            /\ st'[d] = "start" => st[d] = "start"
    BY <1>2 DEF Active
  <2>2. \A p \in Kinds("parallel") : st'[p] = st[p]
    BY <1>2 DEF Kinds, Leaf
  <2>3. ASSUME NEW v \in Pipeline
        PROVE  st'[v] = st[v] \/ (st'[v] = "checkpoint" /\ st[v] = "running" /\ ~ paused /\ st[Sub(v, pos[v])] = "ended")
    <3>1. v \in Agent /\ v \notin Leaf
      BY KindFacts
    <3>2. v = n => st'[n] = "checkpoint"
      BY <1>1, <3>1, SetTypes
    <3> QED
      BY <1>2, <3>1, <3>2
  <2> QED
    BY <2>1, <2>2, <2>3 DEF Shrinks, Onward
<1>5. PathRunning'
  <2> SUFFICES ASSUME NEW d \in Agent, Active(d)', NEW v \in Above[d] PROVE st'[v] = "running"
    BY DEF PathRunning
  <2>1. v \in Agent /\ Active(d) /\ st[v] = "running" /\ v # n
    BY <1>3, <1>4, AboveAbove DEF Shrinks, TreeInv, PathRunning
  <2> QED
    BY <1>2, <2>1
<1>6. EndsWell
  <2>1. \A c \in Agent : \A m \in SubAgents(c) : m \in Agent
    BY SubOrder
  <2> QED
    BY <1>2, <2>1 DEF EndsWell
<1>7. ASSUME NEW b \in Branch, Alive(Front(b)), Escapes(b) PROVE Escapes(b)'
  <2>1. \A p \in Kinds("parallel") : st[p] = "ended" => st'[p] = "ended"
    BY <1>4, KindFacts DEF Shrinks
  <2>2. Active(Front(b)) /\ st[Front(b)] # "start"
    BY <1>7 DEF Alive, Active
  <2> QED
    BY <1>7, <2>1, <2>2, EscapesStay DEF TreeInv
<1> QED
  BY <1>4, <1>5, <1>6, <1>7, ShrinkKeeps

\* An agent begins: it goes on to a sub-agent, or to all of them.
LEMMA GrowKeeps ==
    ASSUME WorkflowTypes, TreeInv, NEW n \in Agent, NEW K \in SUBSET SubAgents(n), Active(n),
           st'[n] = "running", \A k \in K : st'[k] = "start", \A d \in Agent : d # n /\ d \notin K => st'[d] = st[d],
           n \in Pipeline => \A k \in K : k[Len(n) + 1] = pos'[n],
           \A c \in Pipeline : c # n => pos'[c] = pos[c],
           \A p \in Kinds("parallel") : p # n => chan'[p] = chan[p],
           UNCHANGED <<hand, signals, finished, stopped, cuts>>,
           \A d \in Below(n) : ~ Active(d) /\ d \notin stopped,
           "cancel" \in cuts \/ \A m \in SubAgents(n) : st[m] = "ended" => AllDone(m),
           n \in Pipeline => "cancel" \in cuts \/ \A i \in 1 .. pos'[n] - 1 : AllDone(Sub(n, i))
    PROVE  TreeInv'
<1>1. /\ \A k \in K : k \in Agent /\ k \in Below(n) /\ k # n /\ ~ Active(k) /\ st[k] \in {"idle", "ended"}
      /\ \A k \in K : \A c \in Agent : IsStrictPrefix(c, k) <=> IsPrefix(c, n)
  <2> SUFFICES ASSUME NEW k \in K
               PROVE  /\ k \in Agent /\ k \in Below(n) /\ k # n /\ ~ Active(k) /\ st[k] \in {"idle", "ended"}
                      /\ \A c \in Agent : IsStrictPrefix(c, k) <=> IsPrefix(c, n)
    OBVIOUS
  <2>1. k \in Agent /\ k \in Below(n) /\ k # n /\ \A c \in Agent : IsStrictPrefix(c, k) <=> IsPrefix(c, n)
    BY SubOrder, PathOrder DEF Below
  <2>2. ~ Active(k) /\ st[k] \in Status
    BY <2>1 DEF WorkflowTypes, TypeOK
  <2> QED
    BY <2>1, <2>2 DEF Active, Status
<1>2. n \notin K /\ st[n] # "ended" /\ st[n] # "idle" /\ UNCHANGED <<cancelled, paused>>
  BY <1>1 DEF Active, signals
<1>3. \A d \in Agent : Active(d)' => Active(d) \/ d \in K
  BY DEF Active
<1>4. \A d \in Agent : st'[d] = "ended" => st[d] = "ended" /\ d # n /\ d \notin K
  OBVIOUS
<1>5. PathRunning'
  <2> SUFFICES ASSUME NEW d \in Agent, Active(d)', NEW v \in Above[d] PROVE st'[v] = "running"
    BY DEF PathRunning
  <2>1. v \in Agent /\ IsStrictPrefix(v, d)
    BY AboveAbove
  <2>2. CASE v = n
    BY <2>2
  <2>3. CASE v # n /\ d \in K
    <3>1. Kind[n] # "parallel" => v \in Above[n]
      BY <2>3, AboveSub
    <3>2. Kind[n] = "parallel" => FALSE
      <4>1. Kind[n] = "parallel" => d \in Top
        BY <2>3, TaskOfSub
      <4>2. d \in Top => Above[d] = {}
        BY AboveIs
      <4> QED
        BY <4>1, <4>2
    <3>3. st[v] = "running"
      BY <3>1, <3>2 DEF TreeInv, PathRunning
    <3>4. v \notin K
      BY <1>1, <2>1, <3>3 DEF Active
    <3> QED
      BY <2>1, <2>3, <3>3, <3>4
  <2>4. CASE v # n /\ d \notin K
    <3>1. st[v] = "running"
      BY <1>3, <2>4 DEF TreeInv, PathRunning
    <3>2. v \notin K
      BY <1>1, <3>1 DEF Active
    <3> QED
      BY <2>1, <2>4, <3>1, <3>2
  <2> QED
    BY <2>2, <2>3, <2>4
<1>6. ActiveAtPlace'
  <2> SUFFICES ASSUME NEW d \in Agent, NEW c \in Pipeline, Active(d)', IsStrictPrefix(c, d)
               PROVE  d[Len(c) + 1] = pos'[c]
    BY DEF ActiveAtPlace
  <2>1. c \in Agent
    BY KindFacts
  <2>2. CASE c = n
    <3>1. d \in K
      BY <1>3, <2>2 DEF Below
    <3> QED
      BY <2>2, <3>1
  <2>3. CASE c # n /\ d \in K
    <3>1. IsStrictPrefix(c, n)
      BY <1>1, <2>1, <2>3, PathOrder
    <3>2. n[Len(c) + 1] = pos[c]
      BY <3>1 DEF TreeInv, ActiveAtPlace
    <3>3. IsPrefix(n, d)
      BY <2>3, SubOrder
    <3> QED
      BY <2>1, <2>3, <3>1, <3>2, <3>3, SameNumber
  <2>4. CASE c # n /\ d \notin K
    BY <1>3, <2>4 DEF TreeInv, ActiveAtPlace
  <2> QED
    BY <2>2, <2>3, <2>4
<1>7. StoppedStay'
  <2> SUFFICES ASSUME NEW d \in stopped
               PROVE  st'[d] = "ended" /\ \A c \in Pipeline : IsStrictPrefix(c, d) => d[Len(c) + 1] = pos'[c]
    BY DEF StoppedStay
  <2>1. d \in Agent /\ st[d] = "ended" /\ d \notin Below(n)
    BY KindFacts DEF TreeInv, StoppedStay, WorkflowTypes, TypeOK
  <2>2. d # n /\ d \notin K /\ ~ IsStrictPrefix(n, d)
    BY <1>1, <1>2, <2>1 DEF Below
  <2> QED
    BY <2>1, <2>2 DEF TreeInv, StoppedStay
<1>8. FreshBelow'
  <2> SUFFICES ASSUME NEW c \in Agent, st'[c] \in {"idle", "start"}
               PROVE  /\ \A d \in Below(c) : ~ Active(d)' /\ d \notin stopped
                      /\ "cancel" \in cuts \/ AllDone(c) \/ \A d \in Below(c) : st'[d] = "idle"
    BY DEF FreshBelow, Below, AllDone
  <2>1. CASE c \in K
    <3>1. \A d \in Below(c) : d \in Below(n) /\ d \in Agent /\ d # n /\ d \notin K
      <4> SUFFICES ASSUME NEW d \in Below(c) PROVE d \in Below(n) /\ d \in Agent /\ d # n /\ d \notin K
        OBVIOUS
      <4>1. d \in Agent /\ IsStrictPrefix(c, d) /\ IsStrictPrefix(n, c) /\ c \in Agent
        BY <1>1, <2>1 DEF Below
      <4>2. IsStrictPrefix(n, d) /\ d # n
        BY <4>1, PathOrder
      <4>3. d \notin K
        BY <1>1, <4>1, PathOrder
      <4> QED
        BY <4>1, <4>2, <4>3 DEF Below
    <3>2. \A d \in Below(c) : st'[d] = st[d] /\ ~ Active(d) /\ d \notin stopped
      BY <3>1
    <3>3. st[c] = "ended" => "cancel" \in cuts \/ AllDone(c)
      BY <2>1
    <3>4. st[c] = "idle" => "cancel" \in cuts \/ AllDone(c) \/ \A d \in Below(c) : st[d] = "idle"
      BY DEF TreeInv, FreshBelow
    <3> QED
      BY <1>1, <2>1, <3>2, <3>3, <3>4 DEF Active
  <2>2. CASE c \notin K
    <3>1. c # n /\ st[c] \in {"idle", "start"}
      BY <2>2
    <3>2. /\ \A d \in Below(c) : ~ Active(d) /\ d \notin stopped
          /\ "cancel" \in cuts \/ AllDone(c) \/ \A d \in Below(c) : st[d] = "idle"
      BY <3>1 DEF TreeInv, FreshBelow
    <3>3. \A d \in Below(c) : d \in Agent /\ d # n /\ d \notin K
      <4>1. n \notin Below(c)
        BY <3>2
      <4>2. \A k \in K : k \in Below(c) => IsPrefix(c, n)
        BY <1>1 DEF Below
      <4> QED
        BY <3>1, <4>1, <4>2, PathOrder DEF Below
    <3>4. \A d \in Below(c) : st'[d] = st[d]
      BY <3>3
    <3> QED
      BY <3>2, <3>4 DEF Active
  <2> QED
    BY <2>1, <2>2
<1>9. ASSUME NEW c \in Agent, NEW m \in SubAgents(c), c # n, Alive(c)', st'[m] = "ended", Done(m) PROVE Done(m)'
  <2>1. m \in Agent /\ m # n /\ m \notin K /\ ~ IsPrefix(m, n)
    <3>1. m \in Agent /\ m # n /\ m \notin K
      BY <1>4, <1>9, SubOrder
    <3>2. IsPrefix(m, n) => n \in Under(m)
      BY DEF Under
    <3> QED
      BY <1>9, <3>1, <3>2 DEF Done, Clean
  <2>2. \A d \in Under(m) : d \in Agent /\ d # n /\ d \notin K
    <3> SUFFICES ASSUME NEW d \in Under(m) PROVE d \in Agent /\ d # n /\ d \notin K
      OBVIOUS
    <3>1. d \in Agent /\ IsPrefix(m, d)
      BY DEF Under
    <3>2. d \notin K
      BY <1>1, <2>1, <3>1, PathOrder
    <3> QED
      BY <2>1, <3>1, <3>2
  <2>3. Clean(m)'
    BY <1>9, <2>2 DEF Done, Clean, Under, Active
  <2> QED
    BY <1>9, <2>3 DEF Done, AllDone
<1>10. \A c \in Agent : c # n /\ Alive(c)' => Alive(c) /\ st'[c] = st[c]
  BY DEF Alive
<1>11. ASSUME NEW m \in SubAgents(n), st'[m] = "ended" PROVE Done(m)'
  <2>1. m \in Agent /\ m \notin K /\ st[m] = "ended" /\ m # n /\ IsStrictPrefix(n, m)
    BY <1>4, <1>11, SubOrder
  <2>2. \A d \in Under(m) : d \in Agent /\ d \in Below(n)
    BY <2>1, PathOrder DEF Under, Below
  <2>3. \A d \in Under(m) : d # n /\ d \notin K
    <3> SUFFICES ASSUME NEW d \in Under(m) PROVE d # n /\ d \notin K
      OBVIOUS
    <3>1. d \in Agent /\ IsPrefix(m, d) /\ d # n
      BY <2>1, <2>2, PathOrder DEF Under, Below
    <3>2. d \in K => IsPrefix(m, n)
      BY <1>1, <2>1, <3>1, PathOrder
    <3> QED
      BY <2>1, <3>1, <3>2, PathOrder
  <2>4. Clean(m)'
    BY <2>2, <2>3 DEF Clean, Under, Active
  <2> QED
    BY <2>1, <2>4 DEF Done, AllDone
<1>12. PipelineEnds'
  <2> SUFFICES ASSUME NEW c \in Pipeline, Alive(c)', NEW i \in 1 .. Count[c], st'[Sub(c, i)] = "ended"
               PROVE  Done(Sub(c, i))' \/ (i = pos'[c] /\ ((st'[c] = "running" /\ paused') \/ cancelled'))
    BY DEF PipelineEnds
  <2> DEFINE m == Sub(c, i)
  <2>1. c \in Agent /\ m \in SubAgents(c) /\ m \in Agent
    BY KindFacts, Numbered
  <2>2. CASE c = n
    BY <1>11, <2>1, <2>2
  <2>3. CASE c # n
    <3>1. Done(m) \/ (i = pos[c] /\ ((st[c] = "running" /\ paused) \/ cancelled))
      BY <1>4, <1>10, <2>1, <2>3 DEF TreeInv, PipelineEnds
    <3>2. Done(m) => Done(m)'
      BY <1>9, <2>1, <2>3
    <3> QED
      BY <1>2, <1>10, <2>1, <2>3, <3>1, <3>2
  <2> QED
    BY <2>2, <2>3
<1>13. BranchEnds'
  <2> SUFFICES ASSUME NEW c \in Kinds("parallel"), Alive(c)', NEW m \in SubAgents(c), st'[m] = "ended"
               PROVE  Done(m)' \/ paused' \/ cancelled' \/ Escapes(m)'
    BY DEF BranchEnds
  <2>1. c \in Agent /\ Kind[c] = "parallel" /\ m \in Agent /\ Front(m) = c /\ m \in Branch
    BY KindFacts, SubOrder, TaskOfSub
  <2>2. CASE c = n
    BY <1>11, <2>2
  <2>3. CASE c # n
    <3>1. Alive(c) /\ st'[c] = st[c] /\ st[m] = "ended"
      BY <1>4, <1>10, <2>1, <2>3
    <3>2. Done(m) \/ paused \/ cancelled \/ Escapes(m)
      BY <3>1 DEF TreeInv, BranchEnds
    <3>3. Done(m) => Done(m)'
      BY <1>9, <2>1, <2>3
    <3>4. ASSUME Escapes(m) PROVE Escapes(m)'
      <4>1. PICK p \in Kinds("parallel") : Chain(p, m) /\ EscapesAt(p, m)
        BY <3>4 DEF Escapes
      <4>2. p \in Agent /\ (p = c \/ IsStrictPrefix(p, c))
        BY <2>1, <4>1, Chains, KindFacts DEF Chain
      <4>3. Active(c) /\ ~ IsStrictPrefix(n, c)
        BY <2>1, <3>1 DEF Alive, Active, Below
      <4>4. p # n
        BY <2>3, <4>2, <4>3
      <4>5. p \notin K
        <5> SUFFICES ASSUME p \in K PROVE FALSE
          OBVIOUS
        <5>1. IsStrictPrefix(n, p)
          BY <1>1 DEF Below
        <5> QED
          BY <2>1, <4>2, <4>3, <5>1, PathOrder
      <4>6. EscapesAt(p, m)'
        BY <4>1, <4>2, <4>4, <4>5 DEF EscapesAt
      <4> QED
        BY <4>1, <4>6 DEF Escapes
    <3> QED
      BY <1>2, <3>2, <3>3, <3>4
  <2> QED
    BY <2>2, <2>3
<1>14. PassedDone'
  <2> SUFFICES ASSUME "cancel" \notin cuts, NEW c \in Pipeline, Alive(c)'
               PROVE  /\ \A i \in 1 .. pos'[c] - 1 : AllDone(Sub(c, i))
                      /\ st'[c] = "checkpoint" => AllDone(Sub(c, pos'[c]))
    BY DEF PassedDone, AllDone
  <2>1. c \in Agent
    BY KindFacts
  <2>2. CASE c = n
    BY <2>2
  <2>3. CASE c # n
    <3>1. Alive(c) /\ st'[c] = st[c] /\ pos'[c] = pos[c]
      BY <1>10, <2>1, <2>3
    <3>2. /\ \A i \in 1 .. pos[c] - 1 : AllDone(Sub(c, i))
          /\ st[c] = "checkpoint" => AllDone(Sub(c, pos[c]))
      BY <3>1 DEF TreeInv, PassedDone
    <3> QED
      BY <3>1, <3>2
  <2> QED
    BY <2>2, <2>3
<1> QED
  BY <1>5, <1>6, <1>7, <1>8, <1>12, <1>13, <1>14 DEF TreeInv

\* Nothing has begun but the root.
LEMMA FreshTree ==
    /\ st = Fresh /\ stopped = {} => TreeInv
    /\ st' = Fresh /\ stopped' = {} => TreeInv'
<1> DEFINE A(s, d) == s[d] \in {"start", "running", "checkpoint"}
<1>1. \A d \in Agent : (A(Fresh, d) => d = Root) /\ Fresh[d] \notin {"running", "checkpoint"} /\ Fresh[d] # "ended"
  BY DEF Fresh
<1>2. Above[Root] = {}
  BY KindFacts, AboveIs
<1>3. \A d \in Agent : ~ IsStrictPrefix(d, Root)
  BY TreeFacts, PathOrder
<1>4. \A c \in Agent : \A d \in Below(c) : d \in Agent /\ d # Root
  BY <1>3 DEF Below
<1>5. \A c \in Agent : \A d \in Below(c) : ~ A(Fresh, d) /\ Fresh[d] = "idle"
  BY <1>4 DEF Fresh
<1>6. Pipeline \subseteq Agent /\ Kinds("parallel") \subseteq Agent
  BY KindFacts
<1>7. ASSUME st = Fresh, stopped = {} PROVE TreeInv
  <2>1. PathRunning /\ ActiveAtPlace
    BY <1>1, <1>2, <1>3, <1>6, <1>7 DEF PathRunning, ActiveAtPlace, Active
  <2>2. StoppedStay /\ FreshBelow
    BY <1>5, <1>7 DEF StoppedStay, FreshBelow, Active
  <2>3. PipelineEnds /\ BranchEnds /\ PassedDone
    BY <1>1, <1>6, <1>7 DEF PipelineEnds, BranchEnds, PassedDone, Alive
  <2> QED
    BY <2>1, <2>2, <2>3 DEF TreeInv
<1>8. ASSUME st' = Fresh, stopped' = {} PROVE TreeInv'
  <2>1. PathRunning' /\ ActiveAtPlace'
    BY <1>1, <1>2, <1>3, <1>6, <1>8 DEF PathRunning, ActiveAtPlace, Active
  <2>2. StoppedStay' /\ FreshBelow'
    BY <1>5, <1>8 DEF StoppedStay, FreshBelow, Active
  <2>3. PipelineEnds' /\ BranchEnds' /\ PassedDone'
    BY <1>1, <1>6, <1>8 DEF PipelineEnds, BranchEnds, PassedDone, Alive
  <2> QED
    BY <2>1, <2>2, <2>3 DEF TreeInv
<1> QED
  BY <1>7, <1>8

\* A checkpoint counts what has run to its end.
Sound(x) == x.kind = "checkpoint" => \A i \in 1 .. x.n : AllDone(Sub(x.from, i))

CheckpointsDone ==
    "cancel" \in cuts \/
    /\ \A s \in Kinds("sequential") : \A i \in 1 .. ckpt[s] : AllDone(Sub(s, i))
    /\ \A t \in Top : Sound(hand[t])
    /\ \A p \in Kinds("parallel") : \A k \in 1 .. Len(chan[p]) : Sound(chan[p][k])

\* A pipeline goes to a sub-agent.
LEMMA EnterKeeps ==
    ASSUME WorkflowTypes, TreeInv, NEW n \in Pipeline, NEW i \in 1 .. Count[n], Active(n), Enter(n, i),
           UNCHANGED <<transit, signals, finished, stopped, cuts>>,
           \A d \in Below(n) : ~ Active(d) /\ d \notin stopped,
           "cancel" \in cuts \/ \A m \in SubAgents(n) : st[m] = "ended" => AllDone(m),
           "cancel" \in cuts \/ \A j \in 1 .. i - 1 : AllDone(Sub(n, j))
    PROVE  TreeInv'
<1>1. n \in Agent /\ n \notin Kinds("parallel")
  BY KindFacts
<1>2. StatusTypes /\ PlaceTypes /\ CheckpointsMore
  BY TypesByVariable
<1> DEFINE K == {Sub(n, i)}
<1>3. /\ Sub(n, i) \in SubAgents(n) /\ st'[n] = "running" /\ st'[Sub(n, i)] = "start"
      /\ \A m \in Agent \ {n, Sub(n, i)} : st'[m] = st[m]
      /\ pos'[n] = i /\ \A m \in Pipeline \ {n} : pos'[m] = pos[m]
  BY <1>2, EnterTypes
<1>4. Sub(n, i)[Len(n) + 1] = i
  BY <1>1, Numbered
<1>5. K \subseteq SubAgents(n) /\ (\A k \in K : st'[k] = "start") /\ (\A k \in K : k[Len(n) + 1] = pos'[n])
  BY <1>3, <1>4
<1>6. \A d \in Agent : d # n /\ d \notin K => st'[d] = st[d]
  BY <1>3
<1> HIDE DEF K
<1>7. \A p \in Kinds("parallel") : p # n => chan'[p] = chan[p]
  BY DEF transit
<1>8. UNCHANGED <<hand, signals, finished, stopped, cuts>>
  BY DEF transit
<1>9. "cancel" \in cuts \/ \A j \in 1 .. pos'[n] - 1 : AllDone(Sub(n, j))
  BY <1>3
<1>10. \A c \in Pipeline : c # n => pos'[c] = pos[c]
  BY <1>3
<1> QED
  BY <1>1, <1>3, <1>5, <1>6, <1>7, <1>8, <1>9, <1>10, GrowKeeps

\* The sub-agents that a pipeline that may go on finds ended have run to their end.
LEMMA EndedAreDone ==
    ASSUME WorkflowTypes, TreeInv, NEW n \in Pipeline, Alive(n), ~ cancelled, st[n] = "checkpoint" \/ ~ paused
    PROVE  "cancel" \in cuts \/ \A m \in SubAgents(n) : st[m] = "ended" => AllDone(m)
<1> SUFFICES ASSUME "cancel" \notin cuts, NEW m \in SubAgents(n), st[m] = "ended" PROVE AllDone(m)
  OBVIOUS
<1>1. n \in Agent
  BY KindFacts
<1>2. m[Len(n) + 1] \in 1 .. Count[n] /\ m = Sub(n, m[Len(n) + 1])
  BY <1>1, SubOrder
<1>3. Done(m)
  BY <1>2 DEF TreeInv, PipelineEnds
<1> QED
  BY <1>3 DEF Done

LEMMA PipelineKeeps ==
    ASSUME WorkflowTypes, TreeInv, CheckpointsDone, NEW n \in Pipeline, PipelineStep(n)
    PROVE  TreeInv'
<1>1. /\ n \in Agent /\ Count[n] \in Nat /\ pos[n] \in 1 .. Count[n] /\ Count[n] >= 1
      /\ Kind[n] \in {"sequential", "loop"} /\ n \notin Leaf
  BY KindFacts, TreeFacts DEF WorkflowTypes, TypeOK
<1>2. UNCHANGED <<chan, signals, cancelled, paused, finished, stopped, cuts>>
  BY DEF PipelineStep, BeginPipeline, NextInSequence, AfterCheckpoint, NextInLoop, transit, history, signals
<1>3. HandTypes /\ TopOf[n] \in Top
  BY <1>1, TypesByVariable, TopOfIs
<1>4. hand[TopOf[n]] = NoItem
  BY DEF PipelineStep, BeginPipeline, NextInSequence, AfterCheckpoint, NextInLoop, At
<1>5. CASE BeginPipeline(n)
  <2>1. st[n] = "start" /\ Active(n) /\ UNCHANGED transit
    BY <1>5 DEF BeginPipeline, At, Active
  <2>2. CASE cancelled
    <3>1. Set(n, "ended") /\ Onward
      BY <1>2, <1>5, <2>2 DEF BeginPipeline, Onward
    <3> QED
      BY <1>1, <1>2, <2>1, <2>2, <3>1, EndOfOne
  <2>3. CASE ~ cancelled
    <3> DEFINE i == IF Kind[n] = "sequential" THEN StartIndex(n) ELSE 1
    <3>1. Enter(n, i)
      BY <1>5, <2>3 DEF BeginPipeline
    <3>2. Kind[n] = "sequential" => n \in Kinds("sequential") /\ ckpt[n] \in 0 .. Count[n] - 1
      BY <1>1 DEF Kinds, WorkflowTypes, TypeOK
    <3>3. i \in 1 .. Count[n] /\ (Kind[n] = "sequential" => i - 1 \in 0 .. ckpt[n]) /\ (Kind[n] # "sequential" => i = 1)
      BY <1>1, <3>2 DEF StartIndex
    <3> HIDE DEF i
    <3>4. /\ \A d \in Below(n) : ~ Active(d) /\ d \notin stopped
          /\ "cancel" \in cuts \/ AllDone(n) \/ \A d \in Below(n) : st[d] = "idle"
      BY <1>1, <2>1 DEF TreeInv, FreshBelow
    <3>5. "cancel" \in cuts \/ \A m \in SubAgents(n) : st[m] = "ended" => AllDone(m)
      <4> SUFFICES ASSUME "cancel" \notin cuts, NEW m \in SubAgents(n), st[m] = "ended" PROVE AllDone(m)
        OBVIOUS
      <4>1. m \in Below(n) /\ m \in Agent /\ IsPrefix(n, m)
        BY <1>1, SubOrder DEF Below
      <4>2. AllDone(n)
        BY <3>4, <4>1
      <4> QED
        BY <1>1, <4>1, <4>2, KindFacts, PathOrder DEF AllDone
    <3>6. "cancel" \in cuts \/ \A j \in 1 .. i - 1 : AllDone(Sub(n, j))
      BY <3>2, <3>3 DEF CheckpointsDone
    <3> QED
      BY <1>2, <2>1, <3>1, <3>3, <3>4, <3>5, <3>6, EnterKeeps
  <2> QED
    BY <2>2, <2>3
<1>6. CASE Kind[n] = "sequential" /\ NextInSequence(n)
  <2>1. st[n] = "running" /\ Active(n) /\ Alive(n) /\ st[Sub(n, pos[n])] = "ended"
    BY <1>6 DEF NextInSequence, At, Active, Alive
  <2>2. CASE (paused \/ pos[n] = Count[n] \/ cancelled) /\ Set(n, "ended") /\ UNCHANGED <<pos, hand>>
    <3>1. Onward /\ UNCHANGED transit
      BY <1>2, <2>2 DEF Onward, transit
    <3>2. Done(n)' \/ paused' \/ cancelled'
      BY <1>2, <2>1, <2>2, LastIsDone
    <3> QED
      BY <1>1, <1>2, <2>1, <2>2, <3>1, <3>2, EndOfOne
  <2>3. CASE ~ paused /\ pos[n] < Count[n] /\ Set(n, "checkpoint") /\ Yield(n, Checkpoint(n, pos[n])) /\ UNCHANGED pos
    <3>1. Onward /\ n \in Kinds("sequential")
      BY <1>1, <1>2, <1>6, <2>3 DEF Onward, Kinds
    <3>2. StopsKept
      <4>1. \A t \in Top \ {TopOf[n]} : hand'[t] = hand[t]
        BY <1>3, <2>3 DEF HandTypes, Yield
      <4>2. ~ IsStop(hand[TopOf[n]])
        BY <1>4, ItemFacts DEF IsStop
      <4>3. \A u \in Branch : IsStop(hand[u]) => IsStop(hand[u])'
        BY <4>1, <4>2, KindFacts DEF IsStop
      <4> QED
        BY <1>2, <4>3 DEF StopsKept, HasStop, IsStop
    <3> QED
      BY <1>1, <1>2, <2>1, <2>3, <3>1, <3>2, AdvanceKeeps
  <2>4. CASE ~ paused /\ pos[n] < Count[n] /\ ~ cancelled /\ Enter(n, pos[n] + 1) /\ UNCHANGED hand
    <3>1. pos[n] + 1 \in 1 .. Count[n] /\ UNCHANGED transit /\ \A j \in 1 .. (pos[n] + 1) - 1 : j \in 1 .. pos[n]
      BY <1>1, <1>2, <2>4 DEF transit
    <3> QED
      BY <1>2, <2>1, <2>4, <3>1, CleanBelow, EndedAreDone, EnterKeeps
  <2> QED
    BY <1>6, <2>2, <2>3, <2>4 DEF NextInSequence
<1>7. CASE Kind[n] = "sequential" /\ AfterCheckpoint(n)
  <2>1. st[n] = "checkpoint" /\ Active(n) /\ Alive(n) /\ UNCHANGED transit
    BY <1>7 DEF AfterCheckpoint, At, Active, Alive
  <2>2. CASE cancelled
    <3>1. Set(n, "ended") /\ Onward
      BY <1>2, <1>7, <2>2 DEF AfterCheckpoint, Onward
    <3> QED
      BY <1>1, <1>2, <2>1, <2>2, <3>1, EndOfOne
  <2>3. CASE ~ cancelled
    <3>1. pos[n] + 1 \in 1 .. Count[n] /\ \A j \in 1 .. (pos[n] + 1) - 1 : j \in 1 .. pos[n]
      BY <1>1, <2>1 DEF WorkflowTypes, Flags
    <3>2. Enter(n, pos[n] + 1)
      BY <1>7, <2>3 DEF AfterCheckpoint
    <3> QED
      BY <1>2, <2>1, <2>3, <3>1, <3>2, CleanBelow, EndedAreDone, EnterKeeps
  <2> QED
    BY <2>2, <2>3
<1>8. CASE Kind[n] = "loop" /\ NextInLoop(n)
  <2>1. st[n] = "running" /\ Active(n) /\ Alive(n) /\ st[Sub(n, pos[n])] = "ended" /\ UNCHANGED transit
    BY <1>8 DEF NextInLoop, At, Active, Alive
  <2>2. CASE (paused \/ cancelled \/ pos[n] = Count[n]) /\ Set(n, "ended") /\ UNCHANGED pos
    <3>1. Onward
      BY <1>2, <2>2 DEF Onward
    <3>2. Done(n)' \/ paused' \/ cancelled'
      BY <1>2, <2>1, <2>2, LastIsDone
    <3> QED
      BY <1>1, <1>2, <2>1, <2>2, <3>1, <3>2, EndOfOne
  <2>3. CASE ~ paused /\ ~ cancelled /\ Enter(n, IF pos[n] = Count[n] THEN 1 ELSE pos[n] + 1)
    <3> DEFINE i == IF pos[n] = Count[n] THEN 1 ELSE pos[n] + 1
    <3>1. i \in 1 .. Count[n] /\ \A j \in 1 .. i - 1 : j \in 1 .. pos[n]
      BY <1>1
    <3>2. Enter(n, i)
      BY <2>3
    <3> HIDE DEF i
    <3> QED
      BY <1>2, <2>1, <2>3, <3>1, <3>2, CleanBelow, EndedAreDone, EnterKeeps
  <2> QED
    BY <1>8, <2>2, <2>3 DEF NextInLoop
<1> QED
  BY <1>5, <1>6, <1>7, <1>8 DEF PipelineStep

\* What is appended to a channel, and what is taken from it.
LEMMA AppendedItem ==
    ASSUME NEW s \in Seq(Item), NEW x \in Item
    PROVE  /\ HasStop(s) \/ IsStop(x) => HasStop(Append(s, x))
           /\ \A k \in 1 .. Len(Append(s, x)) : Append(s, x)[k] = x \/ (k \in 1 .. Len(s) /\ Append(s, x)[k] = s[k])
<1>1. Len(s) \in Nat /\ Len(Append(s, x)) = Len(s) + 1 /\ Append(s, x)[Len(s) + 1] = x
      /\ \A k \in 1 .. Len(s) : Append(s, x)[k] = s[k] /\ k \in 1 .. Len(s) + 1
  OBVIOUS
<1>2. Len(s) + 1 \in 1 .. Len(s) + 1 /\ \A k \in 1 .. Len(s) + 1 : k = Len(s) + 1 \/ k \in 1 .. Len(s)
  BY <1>1
<1> QED
  BY <1>1, <1>2 DEF HasStop

LEMMA TakenItem ==
    ASSUME NEW s \in Seq(Item), s # <<>>
    PROVE  /\ Head(s) \in Item
           /\ HasStop(s) => IsStop(Head(s)) \/ HasStop(Tail(s))
           /\ \E k \in 1 .. Len(s) : Head(s) = s[k]
           /\ \A k \in 1 .. Len(Tail(s)) : k + 1 \in 1 .. Len(s) /\ Tail(s)[k] = s[k + 1]
<1>1. /\ Len(s) \in Nat /\ Len(s) >= 1 /\ Head(s) = s[1] /\ Head(s) \in Item /\ Len(Tail(s)) = Len(s) - 1
      /\ \A k \in 1 .. Len(s) - 1 : Tail(s)[k] = s[k + 1]
  OBVIOUS
<1>2. \A k \in 1 .. Len(s) : k = 1 \/ (k - 1 \in 1 .. Len(s) - 1 /\ (k - 1) + 1 = k)
  BY <1>1
<1>3. \A k \in 1 .. Len(s) - 1 : k + 1 \in 1 .. Len(s)
  BY <1>1
<1>4. HasStop(s) => IsStop(Head(s)) \/ HasStop(Tail(s))
  <2> SUFFICES ASSUME NEW k \in 1 .. Len(s), IsStop(s[k]), k # 1 PROVE HasStop(Tail(s))
    BY <1>1 DEF HasStop
  <2>1. k - 1 \in 1 .. Len(Tail(s)) /\ Tail(s)[k - 1] = s[k]
    BY <1>1, <1>2
  <2> QED
    BY <2>1 DEF HasStop
<1> QED
  BY <1>1, <1>3, <1>4

LEMMA ParallelKeeps ==
    ASSUME WorkflowTypes, TreeInv, NEW p \in Kinds("parallel"), ParallelStep(p)
    PROVE  TreeInv'
<1>1. p \in Agent /\ Kind[p] = "parallel" /\ p \notin Pipeline /\ p \notin Leaf /\ TopOf[p] \in Top
  BY KindFacts, TopOfIs DEF Kinds, Leaf, Pipeline
<1>2. /\ StatusTypes /\ HandTypes /\ ChanTypes
      /\ UNCHANGED <<pos, cancelled, paused, finished, stopped, cuts>>
  BY TypesByVariable DEF ParallelStep, BeginParallel, Receive, ParallelEnd, signals, history
<1>3. Onward /\ UNCHANGED signals
  BY <1>2 DEF Onward, signals
<1>4. CASE BeginParallel(p)
  <2>1. st[p] = "start" /\ Active(p) /\ hand' = hand
    BY <1>4 DEF BeginParallel, At, Active
  <2>2. SubAgents(p) \subseteq Agent /\ p \notin SubAgents(p) /\ \A m \in SubAgents(p) : IsPrefix(p, m)
    BY <1>1, SubOrder, PathOrder
  <2>3. /\ st'[p] = "running" /\ (\A k \in SubAgents(p) : st'[k] = "start")
        /\ \A d \in Agent : d # p /\ d \notin SubAgents(p) => st'[d] = st[d]
    <3>1. st' = [m \in Agent |-> IF m = p THEN "running" ELSE IF m \in SubAgents(p) THEN "start" ELSE st[m]]
      BY <1>4 DEF BeginParallel
    <3> QED
      BY <1>1, <2>2, <3>1
  <2>4. \A q \in Kinds("parallel") : q # p => chan'[q] = chan[q]
    BY <1>2, <1>4 DEF BeginParallel, ChanTypes
  <2>5. /\ \A d \in Below(p) : ~ Active(d) /\ d \notin stopped
        /\ "cancel" \in cuts \/ AllDone(p) \/ \A d \in Below(p) : st[d] = "idle"
    BY <1>1, <2>1 DEF TreeInv, FreshBelow
  <2>6. "cancel" \in cuts \/ \A m \in SubAgents(p) : st[m] = "ended" => AllDone(m)
    <3> SUFFICES ASSUME "cancel" \notin cuts, NEW m \in SubAgents(p), st[m] = "ended" PROVE AllDone(m)
      OBVIOUS
    <3>1. m \in Below(p) /\ m \in Agent /\ IsPrefix(p, m)
      BY <1>1, SubOrder DEF Below
    <3>2. AllDone(p)
      BY <2>5, <3>1
    <3> QED
      BY <1>1, <3>1, <3>2, KindFacts, PathOrder DEF AllDone
  <2>7. \A c \in Pipeline : c # p => pos'[c] = pos[c]
    BY <1>2
  <2> DEFINE K == SubAgents(p)
  <2> HIDE DEF K
  <2>8. K \subseteq SubAgents(p) /\ (\A k \in K : st'[k] = "start") /\ \A d \in Agent : d # p /\ d \notin K => st'[d] = st[d]
    BY <2>3 DEF K
  <2> QED
    BY <1>1, <1>2, <1>3, <2>1, <2>3, <2>4, <2>5, <2>6, <2>7, <2>8, GrowKeeps
<1>5. CASE Receive(p)
  <2> DEFINE item == Head(chan[p])
  <2>1. st[p] = "running" /\ hand[TopOf[p]] = NoItem /\ chan[p] # <<>> /\ Active(p)
    BY <1>5 DEF Receive, At, Active
  <2>2. /\ chan[p] \in Seq(Item) /\ item \in Item
        /\ HasStop(chan[p]) => IsStop(item) \/ HasStop(Tail(chan[p]))
    BY <1>2, <2>1, TakenItem DEF ChanTypes
  <2>3. \/ cancelled /\ End({p}) /\ UNCHANGED hand
        \/ item.kind = "error" /\ Yield(p, Failure) /\ End(Above[p] \cup {p})
        \/ item.kind = "escalate" /\ Yield(p, item) /\ End(Above[p] \cup {p})
        \/ /\ item.kind \in {"event", "checkpoint"} \/ Above[p] = {}
           /\ Yield(p, item) /\ chan' = [chan EXCEPT ![p] = Tail(@)] /\ UNCHANGED st
    BY <1>5 DEF Receive, YieldError
  <2> HIDE DEF item
  <2>4. CASE cancelled /\ End({p}) /\ UNCHANGED hand
    <3>1. /\ \A d \in Agent : st'[d] = IF d \in {p} /\ st[d] # "idle" THEN "ended" ELSE st[d]
          /\ \A q \in Kinds("parallel") : chan'[q] = IF q \in {p} THEN <<>> ELSE chan[q]
      BY <1>2, <2>4, EndTypes
    <3>2. Ended({p})
      BY <3>1 DEF Ended
    <3>3. StopsKept
      BY <2>4, <3>1, KindFacts DEF StopsKept, HasStop, IsStop
    <3>4. EndsWell
      BY <1>2, <2>4 DEF EndsWell
    <3>5. \A v \in {p}, d \in Agent : v \in Above[d] /\ Active(d) => d \in {p}
      BY <1>1, AboveIs
    <3>6. \A d \in stopped' : d \in stopped \/ (d \in Agent /\ d \in {p} /\ Active(d))
      BY <1>2
    <3> QED
      BY <1>3, <3>2, <3>3, <3>4, <3>5, <3>6, EndingKeeps
  <2>5. CASE item.kind = "error" /\ Yield(p, Failure) /\ End(Above[p] \cup {p})
    BY <1>1, <1>2, <1>3, <2>1, <2>5, ItemFacts, StopKeeps DEF IsStop
  <2>6. CASE item.kind = "escalate" /\ Yield(p, item) /\ End(Above[p] \cup {p})
    BY <1>1, <1>2, <1>3, <2>1, <2>2, <2>6, StopKeeps DEF IsStop
  <2>7. CASE /\ item.kind \in {"event", "checkpoint"} \/ Above[p] = {}
             /\ Yield(p, item) /\ chan' = [chan EXCEPT ![p] = Tail(@)] /\ UNCHANGED st
    <3>1. /\ hand'[TopOf[p]] = item /\ (\A t \in Top \ {TopOf[p]} : hand'[t] = hand[t])
          /\ chan'[p] = Tail(chan[p]) /\ \A q \in Kinds("parallel") \ {p} : chan'[q] = chan[q]
      BY <1>1, <1>2, <2>2, <2>7, YieldTypes DEF ChanTypes
    <3>2. ~ IsStop(hand[TopOf[p]])
      BY <2>1, ItemFacts DEF IsStop
    <3>3. IsStop(item) => p = Root \/ (p \in Branch /\ TopOf[p] = p)
      <4>1. IsStop(item) => Above[p] = {}
        BY <2>7 DEF IsStop
      <4>2. TopOf[p] \in Agent /\ IsPrefix(TopOf[p], p) /\ TopOf[TopOf[p]] = TopOf[p]
        BY <1>1, TopOfIs, AboveIs
      <4>3. Above[p] = {} => TopOf[p] = p
        BY <1>1, <4>2, AboveIs, PathOrder
      <4> QED
        BY <1>1, <4>1, <4>3 DEF Top
    <3>4. StopsKept
      <4>1. \A q \in Kinds("parallel") \ {p} : HasStop(chan[q]) => HasStop(chan[q])'
        BY <3>1 DEF HasStop, IsStop
      <4>2. HasStop(chan[p]) => HasStop(chan[p])' \/ p = Root \/ (p \in Branch /\ IsStop(hand[p])')
        BY <2>2, <3>1, <3>3 DEF HasStop, IsStop
      <4>3. \A u \in Branch : IsStop(hand[u]) => IsStop(hand[u])'
        BY <3>1, <3>2, KindFacts DEF IsStop
      <4> QED
        BY <4>1, <4>2, <4>3 DEF StopsKept
    <3> QED
      BY <1>2, <1>3, <2>7, <3>4, StayKeeps
  <2> QED
    BY <2>3, <2>4, <2>5, <2>6, <2>7
<1>6. CASE ParallelEnd(p)
  <2>1. /\ st[p] = "running" /\ chan[p] = <<>> /\ (\A b \in SubAgents(p) : BranchDone(b))
        /\ Set(p, "ended") /\ UNCHANGED transit /\ Active(p)
    BY <1>6 DEF ParallelEnd, At, Active
  <2>2. p # Root => Done(p)' \/ paused' \/ cancelled' \/ (Kind[Front(p)] = "parallel" /\ Escapes(p)')
    BY <1>2, <2>1, MergedIsDone
  <2> QED
    BY <1>1, <1>2, <1>3, <2>1, <2>2, EndOfOne
<1> QED
  BY <1>4, <1>5, <1>6 DEF ParallelStep

LEMMA BranchKeeps ==
    ASSUME WorkflowTypes, TreeInv, NEW b \in Branch, BranchStep(b)
    PROVE  TreeInv'
<1>1. b \in Top /\ b \in Agent /\ Front(b) \in Kinds("parallel")
  BY KindFacts DEF Kinds
<1>2. HandTypes /\ ChanTypes /\ UNCHANGED <<pos, cancelled, paused, finished, stopped, cuts>>
  BY TypesByVariable DEF BranchStep, Send, SendFails, signals, history, control
<1>3. Onward
  BY <1>2 DEF Onward
<1>4. CASE Send(b)
  <2>1. /\ hand[b] \in Item /\ st' = st /\ hand' = [hand EXCEPT ![b] = NoItem]
        /\ chan' = [chan EXCEPT ![Front(b)] = Append(@, hand[b])] /\ chan[Front(b)] \in Seq(Item)
    BY <1>1, <1>2, <1>4 DEF Send, HandTypes, ChanTypes, control
  <2>2. /\ \A t \in Top \ {b} : hand'[t] = hand[t]
        /\ chan'[Front(b)] = Append(chan[Front(b)], hand[b])
        /\ \A p \in Kinds("parallel") \ {Front(b)} : chan'[p] = chan[p]
    BY <1>1, <1>2, <2>1 DEF HandTypes, ChanTypes
  <2>3. StopsKept
    <3>1. \A p \in Kinds("parallel") : HasStop(chan[p]) => HasStop(chan[p])'
      BY <2>1, <2>2, AppendedItem DEF HasStop, IsStop
    <3>2. IsStop(hand[b]) => HasStop(chan[Front(b)])'
      BY <2>1, <2>2, AppendedItem DEF HasStop, IsStop
    <3>3. \A u \in Branch : u # b => (IsStop(hand[u]) => IsStop(hand[u])')
      BY <2>2, KindFacts DEF IsStop
    <3> QED
      BY <3>1, <3>2, <3>3 DEF StopsKept
  <2> QED
    BY <1>2, <1>3, <2>1, <2>3, StayKeeps
<1>5. CASE SendFails(b)
  BY <1>1, <1>2, <1>3, <1>5, DropKeeps DEF SendFails
<1> QED
  BY <1>4, <1>5 DEF BranchStep

LEMMA LeafKeeps ==
    ASSUME WorkflowTypes, TreeInv, NEW l \in Leaf, LeafStep(l)
    PROVE  TreeInv'
<1>1. /\ l \in Agent /\ l \notin Pipeline /\ TopOf[l] \in Top /\ HandTypes /\ SignalTypes
      /\ MaxEvents[l] \in Nat /\ made[l] \in 0 .. MaxEvents[l]
  BY KindFacts, TopOfIs, TypesByVariable, BoundAssumption DEF LeafTypes
<1>2. UNCHANGED pos /\ hand[TopOf[l]] = NoItem
  BY DEF LeafStep, BeginLeaf, LeafEvent, LeafFinish, LeafPause, LeafEscalate, LeafError, LeafCancelled, At, control
<1>3. CASE BeginLeaf(l)
  <2>1. Onward /\ StopsKept /\ UNCHANGED <<stopped, paused>> /\ st[l] = "start" /\ Set(l, "running")
    BY <1>2, <1>3 DEF BeginLeaf, At, Onward, StopsKept, transit, signals, history
  <2> QED
    BY <1>1, <2>1, AdvanceKeeps
<1>4. CASE LeafEvent(l)
  <2>1. st' = st /\ chan' = chan /\ stopped' = stopped /\ Onward /\ Yield(l, EventOf(l, made[l] + 1))
    BY <1>2, <1>4 DEF LeafEvent, Onward, signals, control
  <2>2. EventOf(l, made[l] + 1) \in Item
    <3>1. made[l] + 1 \in 1 .. MaxEvents[l]
      BY <1>1, <1>4 DEF LeafEvent
    <3> QED
      BY <3>1, ItemFacts
  <2>3. \A t \in Top \ {TopOf[l]} : hand'[t] = hand[t]
    BY <1>1, <2>1, <2>2, YieldTypes
  <2>4. \A u \in Branch : IsStop(hand[u]) => IsStop(hand[u])'
    BY <1>2, <2>3, KindFacts, ItemFacts DEF IsStop
  <2>5. StopsKept
    BY <2>1, <2>4 DEF StopsKept, HasStop, IsStop
  <2> QED
    BY <2>1, <2>5, StayKeeps
<1>5. CASE LeafFinish(l)
  <2>1. /\ st[l] = "running" /\ Active(l) /\ Set(l, "ended") /\ UNCHANGED transit /\ Onward /\ stopped' = stopped
        /\ finished' = finished \cup {l}
    BY <1>2, <1>5 DEF LeafFinish, At, Active, Onward, signals
  <2>2. st'[l] = "ended"
    BY <1>1, <2>1, TypesByVariable, SetTypes DEF Status
  <2>3. \A d \in Agent : IsPrefix(l, d) => d = l
    BY <1>1, KindFacts, PathOrder, PathIsAgents
  <2>4. l \notin stopped
    BY <2>1 DEF TreeInv, StoppedStay
  <2>5. Done(l)'
    BY <2>1, <2>2, <2>3, <2>4, KindFacts DEF Done, Clean, AllDone, Under, Active
  <2> QED
    BY <1>1, <2>1, <2>5, EndOfOne
<1>6. CASE LeafPause(l)
  <2>1. /\ st[l] = "running" /\ Active(l) /\ Set(l, "ended") /\ UNCHANGED transit /\ Onward /\ paused' = TRUE
        /\ stopped' = stopped \cup {l}
    BY <1>2, <1>6 DEF LeafPause, At, Active, Onward
  <2> QED
    BY <1>1, <2>1, EndOfOne
<1>7. CASE LeafEscalate(l)
  <2>1. /\ Active(l) /\ Yield(l, Escalation(l)) /\ End(Above[l] \cup {l}) /\ Onward
        /\ \A d \in stopped' : d \in stopped \/ d = l
    BY <1>2, <1>7 DEF LeafEscalate, At, Active, Onward, signals
  <2> QED
    BY <1>1, <1>2, <2>1, ItemFacts, StopKeeps DEF IsStop
<1>8. CASE LeafError(l)
  <2>1. /\ Active(l) /\ Yield(l, Failure) /\ End(Above[l] \cup {l}) /\ Onward
        /\ \A d \in stopped' : d \in stopped \/ d = l
    BY <1>2, <1>8 DEF LeafError, YieldError, At, Active, Onward, signals
  <2> QED
    BY <1>1, <1>2, <2>1, ItemFacts, StopKeeps DEF IsStop
<1>9. CASE LeafCancelled(l)
  <2>1. /\ st[l] = "running" /\ Active(l) /\ Set(l, "ended") /\ UNCHANGED transit /\ Onward /\ cancelled'
        /\ stopped' = stopped
    BY <1>2, <1>9 DEF LeafCancelled, At, Active, Onward, signals, history
  <2> QED
    BY <1>1, <2>1, EndOfOne
<1> QED
  BY <1>3, <1>4, <1>5, <1>6, <1>7, <1>8, <1>9 DEF LeafStep

LEMMA RunnerKeeps ==
    ASSUME WorkflowTypes, TreeInv, Take \/ DropStream \/ Cancel \/ Resume
    PROVE  TreeInv'
<1>1. HandTypes /\ Root \in Top /\ Root \notin Branch
  BY TypesByVariable, KindFacts
<1>2. CASE Take
  <2>1. st' = st /\ stopped' = stopped /\ Onward /\ chan' = chan /\ hand' = [hand EXCEPT ![Root] = NoItem]
    BY <1>2 DEF Take, Onward, signals, control
  <2>2. \A u \in Branch : hand'[u] = hand[u]
    BY <1>1, <2>1, KindFacts DEF HandTypes
  <2>3. StopsKept
    BY <2>1, <2>2 DEF StopsKept, HasStop, IsStop
  <2> QED
    BY <2>1, <2>3, StayKeeps
<1>3. CASE DropStream
  <2>1. Onward /\ stopped' = stopped /\ End(TaskOf(Root)) /\ hand' = [hand EXCEPT ![Root] = NoItem]
    BY <1>3 DEF DropStream, Onward, signals
  <2> QED
    BY <1>1, <2>1, DropKeeps
<1>4. CASE Cancel
  <2>1. st' = st /\ stopped' = stopped /\ Onward /\ UNCHANGED transit
    BY <1>4 DEF Cancel, Onward, control
  <2>2. StopsKept
    BY <2>1 DEF StopsKept, transit
  <2> QED
    BY <2>1, <2>2, StayKeeps
<1>5. CASE Resume
  BY <1>5, FreshTree DEF Resume
<1> QED
  BY <1>2, <1>3, <1>4, <1>5

-----------------------------------------------------------------------------
(* Checkpoints count what has run to its end.                              *)

\* A sequential agent yields a checkpoint.
Counts(s) ==
    /\ st[s] = "running" /\ st[Sub(s, pos[s])] = "ended" /\ ~ paused /\ pos[s] \in 1 .. Count[s] - 1
    /\ st'[s] = "checkpoint" /\ pos' = pos

\* Where the items in a hand, in a channel and in the log come from.
ItemsMove ==
    /\ \A s \in Kinds("sequential") :
        \/ ckpt'[s] = ckpt[s]
        \/ hand[Root].kind = "checkpoint" /\ hand[Root].from = s /\ hand[Root].n = ckpt'[s]
    /\ \A t \in Top :
        \/ hand'[t] = hand[t] \/ hand'[t].kind # "checkpoint"
        \/ \E s \in Kinds("sequential") : TopOf[s] = t /\ Counts(s) /\ hand'[t] = Checkpoint(s, pos[s])
        \/ \E p \in Kinds("parallel") : \E k \in 1 .. Len(chan[p]) : hand'[t] = chan[p][k]
    /\ \A p \in Kinds("parallel") : \A k \in 1 .. Len(chan'[p]) :
        (\E t \in Branch : chan'[p][k] = hand[t]) \/ \E j \in 1 .. Len(chan[p]) : chan'[p][k] = chan[p][j]

LEMMA CheckpointsKeep ==
    ASSUME WorkflowTypes, TreeInv, CheckpointsDone, ItemsMove, finished \subseteq finished', cuts \subseteq cuts'
    PROVE  CheckpointsDone'
<1> SUFFICES ASSUME "cancel" \notin cuts'
             PROVE  /\ \A s \in Kinds("sequential") : \A i \in 1 .. ckpt'[s] : AllDone(Sub(s, i))'
                    /\ \A t \in Top : Sound(hand[t])'
                    /\ \A p \in Kinds("parallel") : \A k \in 1 .. Len(chan'[p]) : Sound(chan[p][k])'
  BY DEF CheckpointsDone
<1>1. /\ \A s \in Kinds("sequential") : \A i \in 1 .. ckpt[s] : AllDone(Sub(s, i))
      /\ \A t \in Top : Sound(hand[t])
      /\ \A p \in Kinds("parallel") : \A k \in 1 .. Len(chan[p]) : Sound(chan[p][k])
      /\ "cancel" \notin cuts
  BY DEF CheckpointsDone
<1>2. \A m : AllDone(m) => AllDone(m)'
  BY AllDoneStays
<1>3. \A x : Sound(x) /\ x.kind = "checkpoint" => \A i \in 1 .. x.n : AllDone(Sub(x.from, i))
  BY DEF Sound
<1>4. \A x : Sound(x) => Sound(x)'
  BY DEF Sound, AllDone
<1>5. ASSUME NEW s \in Kinds("sequential"), NEW i \in 1 .. ckpt'[s] PROVE AllDone(Sub(s, i))'
  <2>1. CASE ckpt'[s] = ckpt[s]
    BY <1>1, <1>2, <2>1
  <2>2. CASE hand[Root].kind = "checkpoint" /\ hand[Root].from = s /\ hand[Root].n = ckpt'[s]
    <3>1. AllDone(Sub(s, i))
      BY <1>1, <2>2, KindFacts DEF Sound
    <3> QED
      BY <1>2, <3>1
  <2> QED
    BY <2>1, <2>2 DEF ItemsMove
<1>6. ASSUME NEW t \in Top PROVE Sound(hand[t])'
  <2>1. PICK x : x = hand'[t]
    OBVIOUS
  <2>2. x.kind # "checkpoint" \/ Sound(x)
    <3>1. ASSUME NEW s \in Kinds("sequential"), Counts(s), x = Checkpoint(s, pos[s]) PROVE Sound(x)
      <4>1. s \in Pipeline /\ ~ cancelled
        BY <1>1, KindFacts DEF WorkflowTypes, Flags
      <4>2. \A i \in 1 .. pos[s] : AllDone(Sub(s, i))
        BY <1>1, <3>1, <4>1, CleanBelow DEF Counts
      <4>3. x.from = s /\ x.n = pos[s]
        BY <3>1, ItemFacts DEF Counts
      <4> QED
        BY <4>2, <4>3 DEF Sound
    <3> QED
      BY <1>1, <2>1, <3>1 DEF ItemsMove
  <2>3. x.kind # "checkpoint" => Sound(x)'
    BY DEF Sound
  <2>4. Sound(x)'
    BY <1>4, <2>2, <2>3
  <2> QED
    BY <2>1, <2>4 DEF Sound, AllDone
<1>7. ASSUME NEW p \in Kinds("parallel"), NEW k \in 1 .. Len(chan'[p]) PROVE Sound(chan[p][k])'
  <2>1. PICK x : x = chan'[p][k]
    OBVIOUS
  <2>2. Sound(x)
    BY <1>1, <2>1, KindFacts DEF ItemsMove
  <2>3. Sound(x)'
    BY <1>4, <2>2
  <2> QED
    BY <2>1, <2>3 DEF Sound, AllDone
<1> QED
  BY <1>5, <1>6, <1>7

\* The items in transit stay where they are.
LEMMA ItemsStay ==
    ASSUME UNCHANGED <<hand, chan, ckpt>>
    PROVE  ItemsMove
BY DEF ItemsMove

\* Streams end, with or without an item that is no checkpoint.
LEMMA ItemsEnd ==
    ASSUME WorkflowTypes, NEW ns, End(ns), ckpt' = ckpt, NEW t \in Top, NEW item, item.kind # "checkpoint",
           hand' = hand \/ hand' = [hand EXCEPT ![t] = item]
    PROVE  ItemsMove
<1>1. HandTypes /\ \A p \in Kinds("parallel") : chan'[p] = IF p \in ns THEN <<>> ELSE chan[p]
  BY TypesByVariable, EndTypes
<1>2. \A u \in Top : hand'[u] = hand[u] \/ hand'[u] = item
  BY <1>1 DEF HandTypes
<1>3. \A p \in Kinds("parallel") : chan'[p] = chan[p] \/ Len(chan'[p]) = 0
  BY <1>1
<1> QED
  BY <1>2, <1>3 DEF ItemsMove

LEMMA ItemsMoveSo ==
    ASSUME WorkflowTypes, [Next]_vars
    PROVE  ItemsMove
<1>1. HandTypes /\ ChanTypes /\ Root \in Top
  BY TypesByVariable, KindFacts
<1>2. NoItem.kind # "checkpoint" /\ Failure.kind # "checkpoint"
      /\ \A l \in Leaf : Escalation(l).kind # "checkpoint"
  BY ItemFacts
<1>3. CASE UNCHANGED vars
  BY <1>3, ItemsStay DEF vars, transit
<1>4. ASSUME NEW n \in Pipeline, PipelineStep(n) PROVE ItemsMove
  <2>1. n \in Agent /\ pos[n] \in 1 .. Count[n] /\ Count[n] \in Nat
    BY KindFacts, TreeFacts DEF WorkflowTypes, TypeOK
  <2>2. CASE UNCHANGED <<hand, chan, ckpt>>
    BY <2>2, ItemsStay
  <2>3. CASE /\ n \in Kinds("sequential") /\ st[n] = "running" /\ st[Sub(n, pos[n])] = "ended" /\ ~ paused
             /\ pos[n] < Count[n] /\ Yield(n, Checkpoint(n, pos[n])) /\ UNCHANGED <<chan, ckpt, pos>>
             /\ Set(n, "checkpoint")
    <3>1. pos[n] \in 1 .. Count[n] - 1
      BY <2>1, <2>3
    <3>2. \A t \in Top : hand'[t] = hand[t] \/ (t = TopOf[n] /\ hand'[t] = Checkpoint(n, pos[n]))
      BY <1>1, <2>1, <2>3, TopOfIs DEF HandTypes, Yield
    <3>3. Counts(n)
      BY <2>1, <2>3, <3>1, TypesByVariable, SetTypes DEF Counts, Status
    <3> QED
      BY <2>3, <3>2, <3>3 DEF ItemsMove
  <2> QED
    BY <1>4, <2>2, <2>3 DEF PipelineStep, BeginPipeline, NextInSequence, AfterCheckpoint, NextInLoop, At, transit, Kinds,
                            Pipeline
<1>5. ASSUME NEW p \in Kinds("parallel"), ParallelStep(p) PROVE ItemsMove
  <2>1. p \in Agent /\ TopOf[p] \in Top /\ ckpt' = ckpt
    BY <1>5, KindFacts, TopOfIs DEF ParallelStep, BeginParallel, Receive, ParallelEnd
  <2>2. CASE BeginParallel(p)
    <3>1. \A q \in Kinds("parallel") : chan'[q] = chan[q] \/ Len(chan'[q]) = 0
      BY <1>1, <2>2 DEF BeginParallel, ChanTypes
    <3> QED
      BY <2>1, <2>2, <3>1 DEF BeginParallel, ItemsMove
  <2>3. CASE Receive(p)
    <3> DEFINE item == Head(chan[p])
    <3>1. /\ chan[p] \in Seq(Item) /\ chan[p] # <<>> /\ item \in Item
          /\ \E k \in 1 .. Len(chan[p]) : item = chan[p][k]
          /\ \A k \in 1 .. Len(Tail(chan[p])) : k + 1 \in 1 .. Len(chan[p]) /\ Tail(chan[p])[k] = chan[p][k + 1]
      BY <1>1, <2>3, TakenItem DEF Receive, ChanTypes
    <3>2. \/ End({p}) /\ UNCHANGED hand
          \/ Yield(p, Failure) /\ End(Above[p] \cup {p})
          \/ item.kind = "escalate" /\ Yield(p, item) /\ End(Above[p] \cup {p})
          \/ Yield(p, item) /\ chan' = [chan EXCEPT ![p] = Tail(@)]
      BY <2>3 DEF Receive, YieldError
    <3> HIDE DEF item
    <3>3. CASE End({p}) /\ UNCHANGED hand
      BY <1>1, <1>2, <2>1, <3>3, ItemsEnd
    <3>4. CASE Yield(p, Failure) /\ End(Above[p] \cup {p})
      BY <1>2, <2>1, <3>4, ItemsEnd DEF Yield
    <3>5. CASE item.kind = "escalate" /\ Yield(p, item) /\ End(Above[p] \cup {p})
      BY <2>1, <3>5, ItemsEnd DEF Yield
    <3>6. CASE Yield(p, item) /\ chan' = [chan EXCEPT ![p] = Tail(@)]
      <4>1. \A t \in Top : hand'[t] = hand[t] \/ hand'[t] = item
        BY <1>1, <3>6 DEF HandTypes, Yield
      <4>2. chan'[p] = Tail(chan[p]) /\ \A q \in Kinds("parallel") \ {p} : chan'[q] = chan[q]
        BY <1>1, <3>6 DEF ChanTypes
      <4>3. \A q \in Kinds("parallel") : \A k \in 1 .. Len(chan'[q]) :
                \E j \in 1 .. Len(chan[q]) : chan'[q][k] = chan[q][j]
        <5> SUFFICES ASSUME NEW q \in Kinds("parallel"), NEW k \in 1 .. Len(chan'[q])
                     PROVE  \E j \in 1 .. Len(chan[q]) : chan'[q][k] = chan[q][j]
          OBVIOUS
        <5>1. CASE q = p
          <6>1. k \in 1 .. Len(Tail(chan[p])) /\ chan'[p][k] = Tail(chan[p])[k]
            BY <4>2, <5>1
          <6>2. k + 1 \in 1 .. Len(chan[p]) /\ Tail(chan[p])[k] = chan[p][k + 1]
            BY <3>1, <6>1
          <6> QED
            BY <5>1, <6>1, <6>2
        <5>2. CASE q # p
          BY <4>2, <5>2
        <5> QED
          BY <5>1, <5>2
      <4> QED
        BY <2>1, <3>1, <4>1, <4>3 DEF ItemsMove
    <3> QED
      BY <3>2, <3>3, <3>4, <3>5, <3>6
  <2>4. CASE ParallelEnd(p)
    BY <2>4, ItemsStay DEF ParallelEnd, transit
  <2> QED
    BY <1>5, <2>2, <2>3, <2>4 DEF ParallelStep
<1>6. ASSUME NEW b \in Branch, BranchStep(b) PROVE ItemsMove
  <2>1. b \in Top /\ Front(b) \in Kinds("parallel") /\ ckpt' = ckpt
    BY <1>6, KindFacts DEF Kinds, BranchStep, Send, SendFails
  <2>2. CASE Send(b)
    <3>1. /\ hand[b] \in Item /\ hand' = [hand EXCEPT ![b] = NoItem]
          /\ chan' = [chan EXCEPT ![Front(b)] = Append(@, hand[b])] /\ chan[Front(b)] \in Seq(Item)
      BY <1>1, <2>1, <2>2 DEF Send, HandTypes, ChanTypes
    <3>2. \A t \in Top : hand'[t] = hand[t] \/ hand'[t] = NoItem
      BY <1>1, <3>1 DEF HandTypes
    <3>3. /\ chan'[Front(b)] = Append(chan[Front(b)], hand[b])
          /\ \A p \in Kinds("parallel") \ {Front(b)} : chan'[p] = chan[p]
      BY <1>1, <2>1, <3>1 DEF ChanTypes
    <3>4. \A p \in Kinds("parallel") : \A k \in 1 .. Len(chan'[p]) :
              (\E t \in Branch : chan'[p][k] = hand[t]) \/ \E j \in 1 .. Len(chan[p]) : chan'[p][k] = chan[p][j]
      BY <2>1, <3>1, <3>3, AppendedItem
    <3> QED
      BY <1>2, <2>1, <3>2, <3>4 DEF ItemsMove
  <2>3. CASE SendFails(b)
    BY <1>2, <2>1, <2>3, ItemsEnd DEF SendFails
  <2> QED
    BY <1>6, <2>2, <2>3 DEF BranchStep
<1>7. ASSUME NEW l \in Leaf, LeafStep(l) PROVE ItemsMove
  <2>1. l \in Agent /\ TopOf[l] \in Top /\ ckpt' = ckpt /\ MaxEvents[l] \in Nat /\ made[l] \in 0 .. MaxEvents[l]
    BY <1>7, KindFacts, TopOfIs, TypesByVariable, BoundAssumption
       DEF LeafTypes, LeafStep, BeginLeaf, LeafEvent, LeafFinish, LeafPause, LeafEscalate, LeafError, LeafCancelled, history
  <2>2. CASE LeafEvent(l)
    <3>1. hand' = [hand EXCEPT ![TopOf[l]] = EventOf(l, made[l] + 1)] /\ UNCHANGED <<chan, ckpt>>
          /\ EventOf(l, made[l] + 1).kind # "checkpoint"
      BY <2>2 DEF LeafEvent, Yield, EventOf
    <3>2. \A t \in Top : hand'[t] = hand[t] \/ hand'[t] = EventOf(l, made[l] + 1)
      BY <1>1, <2>1, <3>1 DEF HandTypes
    <3> QED
      BY <3>1, <3>2 DEF ItemsMove
  <2>3. CASE LeafEscalate(l) \/ LeafError(l)
    BY <1>2, <2>1, <2>3, ItemsEnd DEF LeafEscalate, LeafError, YieldError, Yield
  <2>4. CASE BeginLeaf(l) \/ LeafFinish(l) \/ LeafPause(l) \/ LeafCancelled(l)
    BY <2>1, <2>4, ItemsStay DEF BeginLeaf, LeafFinish, LeafPause, LeafCancelled, transit
  <2> QED
    BY <1>7, <2>2, <2>3, <2>4 DEF LeafStep
<1>8. CASE Take
  <2>1. \A t \in Top : hand'[t] = hand[t] \/ hand'[t] = NoItem
    BY <1>1, <1>8 DEF Take, HandTypes
  <2>2. \A s \in Kinds("sequential") : ckpt'[s] = ckpt[s] \/
            (hand[Root].kind = "checkpoint" /\ hand[Root].from = s /\ hand[Root].n = ckpt'[s])
    BY <1>8, TypesByVariable DEF Take, LogTypes
  <2> QED
    BY <1>1, <1>2, <1>8, <2>1, <2>2 DEF Take, ItemsMove
<1>9. CASE DropStream
  BY <1>1, <1>2, <1>9, ItemsEnd DEF DropStream
<1>10. CASE Cancel
  BY <1>10, ItemsStay DEF Cancel, transit
<1>11. CASE Resume
  <2>1. (\A t \in Top : hand'[t] = NoItem) /\ ckpt' = ckpt /\ \A p \in Kinds("parallel") : Len(chan'[p]) = 0
    BY <1>11 DEF Resume
  <2> QED
    BY <1>2, <2>1 DEF ItemsMove
<1> QED
  BY <1>3, <1>4, <1>5, <1>6, <1>7, <1>8, <1>9, <1>10, <1>11 DEF Next

LEMMA CheckpointsStep ==
    ASSUME WorkflowTypes, TreeInv, CheckpointsDone, [Next]_vars
    PROVE  CheckpointsDone'
<1>1. finished \subseteq finished' /\ cuts \subseteq cuts'
  BY DEF Next, PipelineStep, ParallelStep, BranchStep, LeafStep, BeginPipeline, NextInSequence, AfterCheckpoint,
         NextInLoop, BeginParallel, Receive, ParallelEnd, Send, SendFails, BeginLeaf, LeafEvent, LeafFinish, LeafPause,
         LeafEscalate, LeafError, LeafCancelled, Take, DropStream, Cancel, Resume, vars, history
<1> QED
  BY <1>1, ItemsMoveSo, CheckpointsKeep

-----------------------------------------------------------------------------
(* Theorems.                                                               *)

WorkflowInv == WorkflowTypes /\ TreeInv /\ CheckpointsDone

LEMMA WorkflowInvStep == WorkflowInv /\ [Next]_vars => WorkflowInv'
<1> SUFFICES ASSUME WorkflowInv, [Next]_vars PROVE WorkflowInv'
  OBVIOUS
<1>1. WorkflowTypes /\ TreeInv /\ CheckpointsDone
  BY DEF WorkflowInv
<1>2. WorkflowTypes' /\ CheckpointsDone'
  BY <1>1, WorkflowTypesStep, CheckpointsStep
<1>3. TreeInv'
  <2>1. CASE UNCHANGED vars
    <3>1. st' = st /\ Onward /\ StopsKept /\ stopped' = stopped
      BY <2>1 DEF vars, control, transit, signals, history, Onward, StopsKept
    <3> QED
      BY <1>1, <3>1, StayKeeps
  <2>2. CASE Next
    BY <1>1, <2>2, PipelineKeeps, ParallelKeeps, BranchKeeps, LeafKeeps, RunnerKeeps DEF Next
  <2> QED
    BY <2>1, <2>2
<1> QED
  BY <1>2, <1>3 DEF WorkflowInv

LEMMA WorkflowInvInit == Init => WorkflowInv
<1> SUFFICES ASSUME Init PROVE WorkflowInv
  OBVIOUS
<1>1. WorkflowTypes /\ TreeInv
  BY WorkflowInitTypes, FreshTree DEF Init
<1>2. CheckpointsDone
  <2>1. \A s \in Kinds("sequential") : \A i \in 1 .. ckpt[s] : FALSE
    BY DEF Init
  <2>2. \A t \in Top : Sound(hand[t])
    BY ItemFacts DEF Init, Sound
  <2>3. \A p \in Kinds("parallel") : \A k \in 1 .. Len(chan[p]) : FALSE
    BY DEF Init
  <2> QED
    BY <2>1, <2>2, <2>3 DEF CheckpointsDone
<1> QED
  BY <1>1, <1>2 DEF WorkflowInv

LEMMA WorkflowInvHolds == Spec => []WorkflowInv
BY WorkflowInvInit, WorkflowInvStep, PTL DEF Spec

\* The variables of the workflow agents have their types.
THEOREM TypeCorrect == Spec => []TypeOK
<1>1. WorkflowInv => TypeOK
  BY DEF WorkflowInv, WorkflowTypes
<1> QED
  BY <1>1, WorkflowInvHolds, PTL

\* What a persisted checkpoint counts has run to its end: every leaf of it, in whatever
\* nesting of agents, and whatever ended the runs before (sequential_agent.rs:113-131).
THEOREM CheckpointedIsFinished == Spec => []CheckpointMeansFinished
<1>1. WorkflowInv => CheckpointMeansFinished
  <2> SUFFICES ASSUME WorkflowInv, "cancel" \notin cuts, NEW s \in Kinds("sequential"), NEW i \in 1 .. Count[s],
                      NEW l \in Leaf, i <= ckpt[s], IsPrefix(Sub(s, i), l)
               PROVE  l \in finished
    BY DEF CheckpointMeansFinished
  <2>1. s \in Agent /\ Count[s] \in Nat /\ ckpt[s] \in 0 .. Count[s] - 1
    BY KindFacts, TreeFacts DEF WorkflowInv, WorkflowTypes, TypeOK
  <2>2. i \in 1 .. ckpt[s]
    BY <2>1
  <2> QED
    BY <2>2 DEF WorkflowInv, CheckpointsDone, AllDone
<1> QED
  BY <1>1, WorkflowInvHolds, PTL

\* After a leaf has paused or escalated, nothing begins that a pipeline above it would run
\* next (sequential_agent.rs:113-128, loop_agent.rs:69-82).
THEOREM StopIsHeeded == Spec => NothingAfterStop
<1>1. WorkflowInv => \A q \in stopped, l \in Leaf : Suspends(q, l) => ~ Begins(l)
  <2> SUFFICES ASSUME WorkflowInv, NEW q \in stopped, NEW l \in Leaf, Suspends(q, l), st[l] = "start"
               PROVE  FALSE
    BY DEF Begins
  <2>1. q \in Leaf /\ q \in Agent /\ l \in Agent /\ Active(l)
    BY KindFacts DEF WorkflowInv, WorkflowTypes, TypeOK, Active
  <2>2. q # l
    BY <2>1 DEF WorkflowInv, TreeInv, StoppedStay
  <2>3. ASSUME NEW c \in Pipeline, IsStrictPrefix(c, q), IsStrictPrefix(c, l)
        PROVE  q[Len(c) + 1] = l[Len(c) + 1] /\ l[Len(c) + 1] \in Nat
    <3>1. q[Len(c) + 1] = pos[c] /\ l[Len(c) + 1] = pos[c]
      BY <2>1, <2>3 DEF WorkflowInv, TreeInv, StoppedStay, ActiveAtPlace
    <3>2. pos[c] \in Nat
      BY DEF WorkflowInv, WorkflowTypes, Domains
    <3> QED
      BY <3>1, <3>2
  <2>4. CASE \E c \in Common(q, l) : Kind[c] = "sequential" /\ q[Len(c) + 1] < l[Len(c) + 1]
    <3>1. PICK c \in Common(q, l) : Kind[c] = "sequential" /\ q[Len(c) + 1] < l[Len(c) + 1]
      BY <2>4
    <3>2. c \in Pipeline /\ IsStrictPrefix(c, q) /\ IsStrictPrefix(c, l)
      BY <3>1 DEF Common, Pipeline, Kinds
    <3> QED
      BY <2>3, <3>1, <3>2
  <2>5. CASE Common(q, l) \cap Kinds("parallel") = {}
    <3>1. ~ IsPrefix(q, l) /\ ~ IsPrefix(l, q)
      BY <2>1, <2>2, KindFacts, PathIsAgents, PathOrder
    <3>2. PICK c \in Agent : IsStrictPrefix(c, q) /\ IsStrictPrefix(c, l) /\ q[Len(c) + 1] # l[Len(c) + 1]
      BY <2>1, <3>1, Parting
    <3>3. c \notin Kinds("parallel") /\ c \notin Leaf
      BY <2>1, <2>5, <3>2, KindFacts, PathIsAgents DEF Common
    <3> QED
      BY <2>3, <3>2, <3>3, KindFacts
  <2> QED
    BY <2>2, <2>4, <2>5 DEF Suspends
<1> QED
  BY <1>1, WorkflowInvHolds, PTL DEF NothingAfterStop

-----------------------------------------------------------------------------
(* Resumes.                                                                *)

\* Only sequential agents are above n.
Straight(n) == \A v \in Agent : IsStrictPrefix(v, n) => Kind[v] = "sequential"

\* A resumable invocation that nothing but a pause has stopped.
Steady == resumable /\ cuts = {}

\* What parallel agents merge counts nothing of a straight agent.
MergedCounts ==
    /\ \A b \in Branch : hand[b].kind = "checkpoint" => ~ Straight(hand[b].from)
    /\ \A p \in Kinds("parallel") : \A k \in 1 .. Len(chan[p]) :
        chan[p][k].kind = "checkpoint" => ~ Straight(chan[p][k].from)

\* A straight sequential agent is past what its persisted checkpoint counts.
PastCheckpoint(s) ==
    /\ st[s] = "running" => pos[s] > ckpt[s]
    /\ st[s] = "checkpoint" => pos[s] >= ckpt[s]
    /\ hand[Root].kind = "checkpoint" /\ hand[Root].from = s =>
           st[s] = "checkpoint" /\ pos[s] = hand[Root].n /\ pos[s] > ckpt[s]

\* Once paused, straight agents only return.
OnlyReturns(n) == st[n] \notin {"start", "checkpoint"} /\ (n \in Leaf => ~ Active(n))

\* The sub-agent i of v has ended, and its end is counted or will be: it is persisted, on
\* its way, or about to be seen.
Settled(v, i) ==
    \/ i <= ckpt[v]
    \/ st[v] = "checkpoint" /\ hand[Root] = Checkpoint(v, i)
    \/ st[v] = "running" /\ pos[v] = i /\ st[Sub(v, i)] = "ended" /\ ~ paused

\* So has all of the tree.
AllOver == st[Root] = "ended" /\ ~ paused /\ \A d \in Agent : ~ Active(d)

IsCounted(l) == AllOver \/ \E v \in Agent : IsStrictPrefix(v, l) /\ Settled(v, l[Len(v) + 1])

ResumeInv ==
    /\ MergedCounts
    /\ Steady => /\ \A s \in Kinds("sequential") : Straight(s) => PastCheckpoint(s)
                 /\ paused => \A n \in Agent : Straight(n) => OnlyReturns(n)
                 /\ \A l \in finished : Straight(l) => IsCounted(l)

\* Straight agents are of the root's task.
LEMMA StraightIs ==
    ASSUME NEW n \in Agent, Straight(n)
    PROVE  /\ TopOf[n] = Root /\ n \notin Branch
           /\ \A v \in Agent : IsStrictPrefix(v, n) => v \in Above[n] /\ v \in Kinds("sequential") /\ Straight(v)
<1>1. \A b \in Branch : Front(b) \in Agent /\ Kind[Front(b)] = "parallel" /\ b \in Agent /\ IsStrictPrefix(Front(b), b)
  BY KindFacts, SubOrder
<1>2. \A b \in Branch : ~ IsPrefix(b, n)
  BY <1>1, PathOrder DEF Straight
<1>3. TopOf[n] = Root /\ n \notin Branch
  BY <1>2, TopOfIs, PathOrder DEF Top
<1>4. ASSUME NEW v \in Agent, IsStrictPrefix(v, n) PROVE v \in Above[n] /\ v \in Kinds("sequential") /\ Straight(v)
  <2>1. v \in Kinds("sequential") /\ Straight(v)
    BY <1>4, PathOrder DEF Straight, Kinds
  <2>2. \A b \in Branch : ~ IsPrefix(b, v)
    BY <1>2, <1>4, PathOrder, KindFacts
  <2>3. TopOf[v] = Root
    BY <2>2, TopOfIs DEF Top
  <2> QED
    BY <1>3, <1>4, <2>1, <2>3, AboveIs
<1> QED
  BY <1>3, <1>4

\* Who can take a step of its own, and what of it is the same for all.
Acts(x) ==
    /\ Active(x) /\ hand[TopOf[x]] = NoItem
    /\ x \in Pipeline /\ st[x] = "running" => st[Sub(x, pos[x])] = "ended"
    /\ \/ x \in Pipeline /\ PipelineStep(x)
       \/ x \in Kinds("parallel") /\ ParallelStep(x)
       \/ x \in Leaf /\ LeafStep(x)

LEMMA StepIs ==
    ASSUME [Next]_vars
    PROVE  \/ UNCHANGED vars
           \/ \E x \in Agent : Acts(x) /\ ckpt' = ckpt /\ resumable' = resumable
           \/ \E b \in Branch : BranchStep(b)
           \/ Take \/ DropStream \/ Cancel \/ Resume
<1>1. ASSUME NEW n \in Pipeline, PipelineStep(n) PROVE \E x \in Agent : Acts(x) /\ ckpt' = ckpt /\ resumable' = resumable
  <2>1. n \in Agent /\ Active(n) /\ hand[TopOf[n]] = NoItem /\ (st[n] = "running" => st[Sub(n, pos[n])] = "ended")
    BY <1>1, KindFacts DEF PipelineStep, BeginPipeline, NextInSequence, AfterCheckpoint, NextInLoop, At, Active
  <2>2. ckpt' = ckpt /\ resumable' = resumable
    BY <1>1 DEF PipelineStep, BeginPipeline, NextInSequence, AfterCheckpoint, NextInLoop
  <2> QED
    BY <1>1, <2>1, <2>2 DEF Acts
<1>2. ASSUME NEW p \in Kinds("parallel"), ParallelStep(p)
      PROVE  \E x \in Agent : Acts(x) /\ ckpt' = ckpt /\ resumable' = resumable
  <2>1. p \in Agent /\ p \notin Pipeline
    BY KindFacts
  <2>2. Active(p) /\ hand[TopOf[p]] = NoItem /\ ckpt' = ckpt /\ resumable' = resumable
    BY <1>2 DEF ParallelStep, BeginParallel, Receive, ParallelEnd, At, Active
  <2> QED
    BY <1>2, <2>1, <2>2 DEF Acts
<1>3. ASSUME NEW l \in Leaf, LeafStep(l) PROVE \E x \in Agent : Acts(x) /\ ckpt' = ckpt /\ resumable' = resumable
  <2>1. l \in Agent /\ l \notin Pipeline
    BY KindFacts
  <2>2. Active(l) /\ hand[TopOf[l]] = NoItem /\ ckpt' = ckpt /\ resumable' = resumable
    BY <1>3 DEF LeafStep, BeginLeaf, LeafEvent, LeafFinish, LeafPause, LeafEscalate, LeafError, LeafCancelled, At, Active
  <2> QED
    BY <1>3, <2>1, <2>2 DEF Acts
<1> QED
  BY <1>1, <1>2, <1>3 DEF Next

\* What a step of x does to the streams and the places: to x and its sub-agents, or it
\* ends what is above x.
Effects(x) ==
    /\ \A n \in Agent : n = x \/ n \in SubAgents(x) \/ st'[n] = st[n] \/ (n \in Above[x] /\ st'[n] = "ended")
    /\ \A n \in Pipeline : n # x => pos'[n] = pos[n]
    /\ \A t \in Top : t # TopOf[x] => hand'[t] = hand[t]
    /\ \A m \in SubAgents(x) : st'[m] = st[m] \/
           /\ st'[m] = "start" /\ x \notin Leaf
           /\ x \in Kinds("sequential") => st[x] \in {"start", "checkpoint"} \/ ~ paused'
    /\ x \in Kinds("sequential") =>
           \/ st'[x] = "ended"
           \/ st'[x] = "checkpoint" /\ st[x] = "running" /\ pos'[x] = pos[x] /\ ~ paused'
           \/ st'[x] = "running" /\ st[x] = "start" /\ pos'[x] = StartIndex(x)
           \/ st'[x] = "running" /\ st[x] = "checkpoint" /\ pos'[x] = pos[x] + 1
           \/ st'[x] = "running" /\ ~ resumable
           \/ st'[x] = st[x] /\ pos'[x] = pos[x]
    /\ x \notin Kinds("sequential") => st'[x] # "checkpoint" \/ st[x] = "checkpoint"
    /\ st'[x] # "start" \/ st[x] = "start"

LEMMA ActsOn ==
    ASSUME WorkflowTypes, NEW x \in Agent, Acts(x)
    PROVE  Effects(x)
<1>1. /\ StatusTypes /\ PlaceTypes /\ HandTypes /\ ChanTypes /\ CheckpointsMore /\ TopOf[x] \in Top
      /\ \A n \in Pipeline : n \in Agent /\ n \notin Leaf /\ n \notin Kinds("parallel")
      /\ \A m \in SubAgents(x) : m \in Agent /\ m # x
      /\ "ended" \in Status /\ "checkpoint" \in Status /\ "running" \in Status
      /\ Kinds("sequential") \subseteq Pipeline
  BY TypesByVariable, TopOfIs, KindFacts, SubOrder, PathOrder DEF Status
<1>2. CASE x \in Pipeline /\ PipelineStep(x)
  <2>1. /\ paused' = paused /\ pos[x] \in 1 .. Count[x] /\ Count[x] \in Nat
        /\ x \in Kinds("sequential") <=> Kind[x] = "sequential"
    BY <1>1, <1>2, TreeFacts
       DEF PipelineStep, BeginPipeline, NextInSequence, AfterCheckpoint, NextInLoop, signals, PlaceTypes, Kinds
  <2>2. \A t \in Top : t # TopOf[x] => hand'[t] = hand[t]
    BY <1>1, <1>2 DEF PipelineStep, BeginPipeline, NextInSequence, AfterCheckpoint, NextInLoop, transit, Yield, HandTypes
  <2>3. CASE Set(x, "ended") /\ UNCHANGED pos
    <3>1. st'[x] = "ended" /\ \A m \in Agent \ {x} : st'[m] = st[m]
      BY <1>1, <2>3, SetTypes
    <3> QED
      BY <1>1, <2>2, <2>3, <3>1 DEF Effects
  <2>4. CASE Set(x, "checkpoint") /\ UNCHANGED pos /\ st[x] = "running" /\ ~ paused /\ x \in Kinds("sequential")
    <3>1. st'[x] = "checkpoint" /\ \A m \in Agent \ {x} : st'[m] = st[m]
      BY <1>1, <2>4, SetTypes
    <3> QED
      BY <1>1, <2>1, <2>2, <2>4, <3>1 DEF Effects
  <2>5. ASSUME NEW i \in 1 .. Count[x], Enter(x, i),
               x \in Kinds("sequential") => st[x] \in {"start", "checkpoint"} \/ ~ paused,
               x \in Kinds("sequential") => \/ st[x] = "start" /\ i = StartIndex(x)
                                            \/ st[x] = "checkpoint" /\ i = pos[x] + 1
                                            \/ ~ resumable
        PROVE  Effects(x)
    <3>1. /\ Sub(x, i) \in SubAgents(x) /\ st'[x] = "running" /\ st'[Sub(x, i)] = "start"
          /\ (\A m \in Agent \ {x, Sub(x, i)} : st'[m] = st[m])
          /\ pos'[x] = i /\ \A m \in Pipeline \ {x} : pos'[m] = pos[m]
      BY <1>1, <1>2, <2>5, EnterTypes
    <3> QED
      BY <1>1, <1>2, <2>1, <2>2, <2>5, <3>1 DEF Effects
  <2>6. CASE BeginPipeline(x) /\ ~ cancelled
    <3>1. x \in Kinds("sequential") => ckpt[x] \in 0 .. Count[x] - 1
      BY DEF WorkflowTypes, TypeOK
    <3>2. st[x] = "start" /\ Enter(x, IF Kind[x] = "sequential" THEN StartIndex(x) ELSE 1)
      BY <2>6 DEF BeginPipeline, At
    <3>3. Count[x] >= 1
      BY <1>2, KindFacts
    <3>4. (IF Kind[x] = "sequential" THEN StartIndex(x) ELSE 1) \in 1 .. Count[x]
      BY <2>1, <3>1, <3>3 DEF StartIndex
    <3> QED
      BY <2>1, <2>5, <3>2, <3>4
  <2>7. CASE Kind[x] = "sequential" /\ NextInSequence(x)
    BY <1>2, <2>1, <2>3, <2>4, <2>5, <2>7 DEF NextInSequence, At
  <2>8. CASE Kind[x] = "sequential" /\ AfterCheckpoint(x) /\ ~ cancelled
    <3>1. st[x] = "checkpoint" /\ Enter(x, pos[x] + 1) /\ pos[x] < Count[x]
      BY <1>1, <2>8 DEF AfterCheckpoint, At, CheckpointsMore
    <3>2. pos[x] + 1 \in 1 .. Count[x]
      BY <2>1, <3>1
    <3> QED
      BY <2>1, <2>5, <3>1, <3>2
  <2>9. CASE Kind[x] = "loop" /\ NextInLoop(x)
    <3>1. (IF pos[x] = Count[x] THEN 1 ELSE pos[x] + 1) \in 1 .. Count[x]
      BY <2>1
    <3> QED
      BY <2>1, <2>3, <2>5, <2>9, <3>1 DEF NextInLoop
  <2>10. CASE cancelled /\ (BeginPipeline(x) \/ AfterCheckpoint(x))
    BY <2>3, <2>10 DEF BeginPipeline, AfterCheckpoint
  <2> QED
    BY <1>2, <2>6, <2>7, <2>8, <2>9, <2>10 DEF PipelineStep
<1>3. ASSUME NEW ns \in SUBSET (Above[x] \cup {x}), End(ns), UNCHANGED pos,
             \A t \in Top : t # TopOf[x] => hand'[t] = hand[t]
      PROVE  Effects(x)
  <2>1. \A n \in Agent : st'[n] = st[n] \/ (n \in ns /\ st'[n] = "ended")
    BY <1>1, <1>3, EndTypes
  <2>2. \A m \in SubAgents(x) : m \notin Above[x]
    BY <1>1, SubOrder, PathOrder, AboveIs
  <2>3. \A m \in SubAgents(x) : st'[m] = st[m]
    BY <1>1, <2>1, <2>2
  <2> QED
    BY <1>1, <1>3, <2>1, <2>3 DEF Effects
<1>4. ASSUME NEW status \in {"running", "ended"}, Set(x, status), UNCHANGED <<pos, hand>>, x \notin Kinds("sequential")
      PROVE  Effects(x)
  <2>1. st'[x] = status /\ \A m \in Agent \ {x} : st'[m] = st[m]
    BY <1>1, <1>4, SetTypes
  <2> QED
    BY <1>1, <1>4, <2>1 DEF Effects
<1>5. ASSUME NEW item, Yield(x, item) PROVE \A t \in Top : t # TopOf[x] => hand'[t] = hand[t]
  BY <1>1, <1>5 DEF Yield, HandTypes
<1>6. ASSUME st' = st, UNCHANGED pos, \A t \in Top : t # TopOf[x] => hand'[t] = hand[t]
      PROVE  Effects(x)
  BY <1>1, <1>6 DEF Effects
<1>7. CASE x \in Kinds("parallel") /\ ParallelStep(x)
  <2>1. x \notin Pipeline /\ x \notin Leaf /\ x \notin Kinds("sequential") /\ pos' = pos
    BY <1>1, <1>7, KindFacts DEF ParallelStep, BeginParallel, Receive, ParallelEnd, Kinds, Leaf
  <2>2. CASE BeginParallel(x)
    <3>1. hand' = hand /\ st' = [m \in Agent |-> IF m = x THEN "running" ELSE IF m \in SubAgents(x) THEN "start" ELSE st[m]]
      BY <2>2 DEF BeginParallel
    <3> QED
      BY <1>1, <2>1, <3>1 DEF Effects
  <2>3. CASE Receive(x)
    <3>1. \/ End({x}) /\ UNCHANGED hand
          \/ \E item : Yield(x, item) /\ (End(Above[x] \cup {x}) \/ st' = st)
      BY <2>3 DEF Receive, YieldError
    <3> QED
      BY <1>3, <1>5, <1>6, <2>1, <3>1
  <2>4. CASE ParallelEnd(x)
    BY <1>4, <2>1, <2>4 DEF ParallelEnd, transit
  <2> QED
    BY <1>7, <2>2, <2>3, <2>4 DEF ParallelStep
<1>8. CASE x \in Leaf /\ LeafStep(x)
  <2>1. x \notin Kinds("sequential") /\ pos' = pos
    BY <1>8 DEF LeafStep, BeginLeaf, LeafEvent, LeafFinish, LeafPause, LeafEscalate, LeafError, LeafCancelled, control,
                Kinds, Leaf
  <2>2. CASE LeafEvent(x)
    BY <1>5, <1>6, <2>1, <2>2 DEF LeafEvent, control
  <2>3. CASE LeafEscalate(x) \/ LeafError(x)
    BY <1>3, <1>5, <2>1, <2>3 DEF LeafEscalate, LeafError, YieldError
  <2>4. CASE BeginLeaf(x) \/ LeafFinish(x) \/ LeafPause(x) \/ LeafCancelled(x)
    BY <1>4, <2>1, <2>4 DEF BeginLeaf, LeafFinish, LeafPause, LeafCancelled, transit
  <2> QED
    BY <1>8, <2>2, <2>3, <2>4 DEF LeafStep
<1> QED
  BY <1>2, <1>7, <1>8 DEF Acts

LEMMA RootWaits ==
    ASSUME WorkflowTypes, NEW x \in Agent, Acts(x), TopOf[x] # Root
    PROVE  /\ hand'[Root] = hand[Root]
           /\ \A n \in Agent : Straight(n) => st'[n] = st[n]
           /\ \A n \in Pipeline : Straight(n) => pos'[n] = pos[n]
<1>1. Effects(x) /\ Root \in Top /\ Pipeline \subseteq Agent
  BY ActsOn, KindFacts
<1>2. \A n \in Agent : Straight(n) => n # x /\ TopOf[n] = Root /\ n \notin Branch
  BY StraightIs
<1>3. \A n \in SubAgents(x) : n \in Branch \/ TopOf[n] = TopOf[x]
  BY TaskOfSub
<1>4. \A n \in Above[x] : TopOf[n] = TopOf[x]
  BY AboveAbove
<1>5. ASSUME NEW n \in Agent, Straight(n) PROVE st'[n] = st[n]
  BY <1>1, <1>2, <1>3, <1>4, <1>5 DEF Effects
<1> QED
  BY <1>1, <1>2, <1>5 DEF Effects

LEMMA BranchesApart ==
    ASSUME WorkflowTypes, NEW b \in Branch, BranchStep(b)
    PROVE  /\ UNCHANGED <<pos, ckpt, paused, finished, resumable>> /\ hand'[Root] = hand[Root]
           /\ \A n \in Agent : st'[n] = st[n] \/ st'[n] = "ended"
           /\ \A n \in Agent : Straight(n) => st'[n] = st[n]
<1>1. UNCHANGED <<pos, ckpt, paused, finished, resumable>>
  BY DEF BranchStep, Send, SendFails, signals, history, control
<1>2. hand' = [hand EXCEPT ![b] = NoItem] /\ (st' = st \/ End(TaskOf(b)))
  BY DEF BranchStep, Send, SendFails, control
<1>3. hand'[Root] = hand[Root] /\ b # Root
  BY <1>2, TypesByVariable, KindFacts DEF HandTypes
<1>4. \A n \in Agent : st'[n] = st[n] \/ (n \in TaskOf(b) /\ st'[n] = "ended")
  BY <1>2, TypesByVariable, EndTypes
<1>5. \A n \in Agent : Straight(n) => n \notin TaskOf(b)
  BY <1>3, StraightIs DEF TaskOf
<1> QED
  BY <1>1, <1>3, <1>4, <1>5

LEMMA MergedCountsStep ==
    ASSUME WorkflowTypes, MergedCounts, [Next]_vars
    PROVE  MergedCounts'
<1>1. ItemsMove
  BY ItemsMoveSo
<1>2. ASSUME NEW b \in Branch, hand'[b].kind = "checkpoint" PROVE ~ Straight(hand'[b].from)
  <2>1. b \in Top /\ b # Root
    BY KindFacts
  <2>2. CASE hand'[b] = hand[b]
    BY <1>2, <2>2 DEF MergedCounts
  <2>3. CASE \E s \in Kinds("sequential") : TopOf[s] = b /\ Counts(s) /\ hand'[b] = Checkpoint(s, pos[s])
    <3>1. PICK s \in Kinds("sequential") : TopOf[s] = b /\ Counts(s) /\ hand'[b] = Checkpoint(s, pos[s])
      BY <2>3
    <3>2. s \in Agent /\ hand'[b].from = s
      BY <3>1, KindFacts, ItemFacts DEF Counts
    <3> QED
      BY <2>1, <3>1, <3>2, StraightIs
  <2>4. CASE \E p \in Kinds("parallel") : \E k \in 1 .. Len(chan[p]) : hand'[b] = chan[p][k]
    BY <1>2, <2>4 DEF MergedCounts
  <2> QED
    BY <1>1, <1>2, <2>1, <2>2, <2>3, <2>4 DEF ItemsMove
<1>3. ASSUME NEW p \in Kinds("parallel"), NEW k \in 1 .. Len(chan'[p]), chan'[p][k].kind = "checkpoint"
      PROVE  ~ Straight(chan'[p][k].from)
  BY <1>1, <1>3 DEF ItemsMove, MergedCounts
<1>4. \A n : Straight(n)' <=> Straight(n)
  BY DEF Straight
<1> QED
  BY <1>2, <1>3, <1>4 DEF MergedCounts, Straight

\* A checkpoint that the runner takes.
LEMMA TakeIs ==
    ASSUME WorkflowTypes, Take
    PROVE  /\ UNCHANGED <<st, pos, paused, finished, resumable>> /\ hand'[Root] = NoItem
           /\ \A s \in Kinds("sequential") :
                  ckpt'[s] = IF hand[Root].kind = "checkpoint" /\ hand[Root].from = s THEN hand[Root].n ELSE ckpt[s]
<1>1. UNCHANGED <<st, pos, paused, finished, resumable>>
  BY DEF Take, control, signals
<1>2. hand'[Root] = NoItem
  BY TypesByVariable, KindFacts DEF Take, HandTypes
<1>3. \A s \in Kinds("sequential") :
          ckpt'[s] = IF hand[Root].kind = "checkpoint" /\ hand[Root].from = s THEN hand[Root].n ELSE ckpt[s]
  BY TypesByVariable DEF Take, LogTypes
<1> QED
  BY <1>1, <1>2, <1>3

LEMMA PastCheckpointStep ==
    ASSUME WorkflowTypes, MergedCounts, Steady, Steady', [Next]_vars,
           NEW s \in Kinds("sequential"), Straight(s), PastCheckpoint(s)
    PROVE  PastCheckpoint(s)'
<1>1. /\ s \in Agent /\ s \in Pipeline /\ s \notin Leaf /\ TopOf[s] = Root /\ pos[s] \in Nat /\ ckpt[s] \in Nat
      /\ hand[Root] = NoItem \/ hand[Root] \in Item
  BY KindFacts, StraightIs, TypesByVariable DEF PlaceTypes, LogTypes, HandTypes
<1>2. NoItem.kind # "checkpoint"
  BY ItemFacts
<1>3. CASE UNCHANGED vars
  BY <1>3 DEF vars, control, transit, PastCheckpoint
<1>4. ASSUME NEW x \in Agent, Acts(x), ckpt' = ckpt PROVE PastCheckpoint(s)'
  <2>1. CASE TopOf[x] # Root
    BY <1>1, <1>4, <2>1, RootWaits DEF PastCheckpoint
  <2>2. CASE TopOf[x] = Root
    <3>1. hand[Root] = NoItem
      BY <1>4, <2>2 DEF Acts
    <3>2. \/ st'[s] = st[s] /\ pos'[s] = pos[s]
          \/ st'[s] \in {"ended", "start"}
          \/ st'[s] = "checkpoint" /\ st[s] = "running" /\ pos'[s] = pos[s]
          \/ st'[s] = "running" /\ pos'[s] = ckpt[s] + 1
          \/ st'[s] = "running" /\ st[s] = "checkpoint" /\ pos'[s] = pos[s] + 1
      <4>1. Effects(x)
        BY <1>4, ActsOn
      <4>2. CASE s = x
        BY <1>1, <4>1, <4>2 DEF Effects, StartIndex, Steady
      <4>3. CASE s # x
        BY <1>1, <4>1, <4>3 DEF Effects
      <4> QED
        BY <4>2, <4>3
    <3>3. (st'[s] = "running" => pos'[s] > ckpt[s]) /\ (st'[s] = "checkpoint" => pos'[s] >= ckpt[s])
      BY <1>1, <3>2 DEF PastCheckpoint
    <3>4. ASSUME hand'[Root].kind = "checkpoint", hand'[Root].from = s
          PROVE  st'[s] = "checkpoint" /\ pos'[s] = hand'[Root].n /\ pos'[s] > ckpt[s]
      <4>1. hand'[Root] # hand[Root] /\ Root \in Top
        BY <1>2, <3>1, <3>4, KindFacts
      <4>2. ~ \E p \in Kinds("parallel") : \E k \in 1 .. Len(chan[p]) : hand'[Root] = chan[p][k]
        BY <3>4 DEF MergedCounts
      <4>3. PICK c \in Kinds("sequential") : Counts(c) /\ hand'[Root] = Checkpoint(c, pos[c])
        BY <3>4, <4>1, <4>2, ItemsMoveSo DEF ItemsMove
      <4>4. c = s /\ hand'[Root].n = pos[s]
        BY <3>4, <4>3, ItemFacts DEF Counts
      <4> QED
        BY <4>3, <4>4 DEF Counts, PastCheckpoint
    <3> QED
      BY <1>4, <3>3, <3>4 DEF PastCheckpoint
  <2> QED
    BY <2>1, <2>2
<1>5. ASSUME NEW b \in Branch, BranchStep(b) PROVE PastCheckpoint(s)'
  BY <1>1, <1>5, BranchesApart DEF PastCheckpoint
<1>6. CASE Take
  BY <1>1, <1>2, <1>6, TakeIs DEF PastCheckpoint
<1>7. CASE Resume
  BY <1>1, <1>2, <1>7, KindFacts DEF Resume, Fresh, PastCheckpoint
<1>8. ~ DropStream /\ ~ Cancel
  BY DEF DropStream, Cancel, Steady
<1> QED
  BY <1>3, <1>4, <1>5, <1>6, <1>7, <1>8, StepIs

\* Beside a straight agent that is active, what is active is above it or below it.
LEMMA StraightAlone ==
    ASSUME ActiveAtPlace, NEW n \in Agent, NEW x \in Agent, Straight(n), Active(n), Active(x)
    PROVE  IsPrefix(n, x) \/ IsPrefix(x, n)
<1> SUFFICES ASSUME ~ IsPrefix(n, x), ~ IsPrefix(x, n) PROVE FALSE
  OBVIOUS
<1>1. PICK c \in Agent : IsStrictPrefix(c, n) /\ IsStrictPrefix(c, x) /\ n[Len(c) + 1] # x[Len(c) + 1]
  BY Parting
<1>2. c \in Pipeline
  BY <1>1, StraightIs, KindFacts
<1> QED
  BY <1>1, <1>2 DEF ActiveAtPlace

LEMMA PausedBy ==
    ASSUME [Next]_vars, ~ paused, paused', paused \in BOOLEAN
    PROVE  \E l \in Leaf : LeafPause(l)
<1>1. \A n \in Pipeline : PipelineStep(n) => paused' = paused
  BY DEF PipelineStep, BeginPipeline, NextInSequence, AfterCheckpoint, NextInLoop, signals
<1>2. \A p \in Kinds("parallel") : ParallelStep(p) => paused' = paused
  BY DEF ParallelStep, BeginParallel, Receive, ParallelEnd, signals
<1>3. \A b \in Branch : BranchStep(b) => paused' = paused
  BY DEF BranchStep, Send, SendFails, signals
<1>4. \A l \in Leaf : LeafStep(l) => paused' = paused \/ LeafPause(l)
  BY DEF LeafStep, BeginLeaf, LeafEvent, LeafFinish, LeafEscalate, LeafError, LeafCancelled, signals
<1>5. Take \/ DropStream \/ Cancel \/ Resume => paused' = paused \/ paused' = FALSE
  BY DEF Take, DropStream, Cancel, Resume, signals
<1>6. UNCHANGED vars => paused' = paused
  BY DEF vars, signals
<1> QED
  BY <1>1, <1>2, <1>3, <1>4, <1>5, <1>6 DEF Next

LEMMA OnlyReturnsStep ==
    ASSUME WorkflowTypes, TreeInv, Steady, Steady', [Next]_vars, paused',
           paused => \A n \in Agent : Straight(n) => OnlyReturns(n),
           NEW n \in Agent, Straight(n)
    PROVE  OnlyReturns(n)'
<1>1. StatusTypes /\ paused \in BOOLEAN /\ ~ cancelled /\ Leaf \subseteq Agent
  BY TypesByVariable, KindFacts DEF SignalTypes, Steady
<1>2. CASE paused
  <2>1. OnlyReturns(n)
    BY <1>2
  <2>2. CASE st'[n] = st[n] \/ st'[n] = "ended"
    BY <2>1, <2>2 DEF OnlyReturns, Active
  <2>3. ASSUME NEW x \in Agent, Acts(x) PROVE OnlyReturns(n)'
    <3>1. Effects(x)
      BY <2>3, ActsOn
    <3>2. CASE n = x
      <4>1. st[n] = "running" /\ n \notin Leaf
        BY <2>1, <2>3, <3>2 DEF Acts, Active, OnlyReturns
      <4> QED
        BY <3>1, <3>2, <4>1 DEF Effects, OnlyReturns
    <3>3. CASE n \in SubAgents(x)
      <4>1. x \in Kinds("sequential") /\ Straight(x)
        BY <3>3, SubOrder, StraightIs
      <4>2. OnlyReturns(x)
        BY <1>2, <4>1
      <4>3. st'[n] = st[n]
        BY <3>1, <3>3, <4>1, <4>2 DEF Effects, OnlyReturns
      <4> QED
        BY <2>2, <4>3
    <3>4. CASE n # x /\ n \notin SubAgents(x)
      BY <2>2, <3>1, <3>4 DEF Effects
    <3> QED
      BY <3>2, <3>3, <3>4
  <2>4. ASSUME NEW b \in Branch, BranchStep(b) PROVE OnlyReturns(n)'
    BY <2>2, <2>4, BranchesApart
  <2>5. CASE Take
    BY <2>2, <2>5, TakeIs
  <2>6. CASE UNCHANGED vars
    BY <2>2, <2>6 DEF vars, control
  <2>7. ~ DropStream /\ ~ Cancel /\ ~ Resume
    BY DEF DropStream, Cancel, Steady, Resume
  <2> QED
    BY <2>3, <2>4, <2>5, <2>6, <2>7, StepIs
<1>3. CASE ~ paused
  <2>1. PICK l \in Leaf : LeafPause(l)
    BY <1>1, <1>3, PausedBy
  <2>2. l \in Agent /\ st[l] = "running" /\ Active(l) /\ Set(l, "ended")
    BY <1>1, <2>1 DEF LeafPause, At, Active
  <2>3. st'[l] = "ended" /\ \A m \in Agent \ {l} : st'[m] = st[m]
    BY <1>1, <2>2, SetTypes DEF Status
  <2>4. CASE n = l
    BY <2>3, <2>4 DEF OnlyReturns, Active
  <2>5. CASE n # l
    <3> SUFFICES ASSUME ~ OnlyReturns(n) PROVE FALSE
      BY <2>3, <2>5 DEF OnlyReturns, Active
    <3>1. Active(n) /\ ~ IsPrefix(l, n)
      BY <2>2, <2>5, KindFacts, PathOrder, PathIsAgents DEF OnlyReturns, Active
    <3>2. IsStrictPrefix(n, l)
      BY <2>2, <2>5, <3>1, StraightAlone, PathOrder DEF TreeInv
    <3>3. n \notin Leaf /\ l \in Below(n)
      BY <2>2, <3>2, KindFacts, PathIsAgents DEF Below
    <3>4. CASE st[n] = "start"
      BY <2>2, <3>3, <3>4 DEF TreeInv, FreshBelow
    <3>5. CASE st[n] = "checkpoint"
      <4>1. n \in Pipeline
        BY <3>5 DEF WorkflowTypes, Flags, Pipeline, Kinds
      <4> QED
        BY <1>1, <2>2, <3>3, <3>5, <4>1, CleanBelow
    <3> QED
      BY <3>3, <3>4, <3>5 DEF OnlyReturns
  <2> QED
    BY <2>4, <2>5
<1> QED
  BY <1>1, <1>2, <1>3

\* While a straight pipeline sees that its sub-agent has ended, nobody else acts.
LEMMA OnlyOneActs ==
    ASSUME WorkflowTypes, TreeInv, ~ cancelled, ~ paused, NEW v \in Pipeline, Straight(v), st[v] = "running",
           st[Sub(v, pos[v])] = "ended", NEW x \in Agent, Acts(x)
    PROVE  x = v
<1>1. v \in Agent /\ Active(v) /\ Active(x)
  BY KindFacts DEF Acts, Active
<1>2. x \notin Below(v)
  BY <1>1, CleanBelow
<1>3. IsPrefix(x, v)
  BY <1>1, <1>2, StraightAlone, PathOrder DEF TreeInv, Below
<1>4. ~ IsStrictPrefix(x, v)
  <2>1. IsStrictPrefix(x, v) => x \in Above[v]
    BY <1>1, StraightIs
  <2>2. x \in Pipeline /\ st[x] = "running" => pos[x] \in 1 .. Count[x] /\ st[Sub(x, pos[x])] = "ended"
    BY DEF Acts, WorkflowTypes, TypeOK
  <2> QED
    BY <1>1, <2>1, <2>2, NoneBelow
<1> QED
  BY <1>1, <1>3, <1>4, PathOrder

\* A straight agent, the sub-agent of its parent's place, has ended.
LEMMA EndIsSeen ==
    ASSUME WorkflowTypes, TreeInv, ~ paused', NEW l \in Leaf, NEW v \in Agent, Straight(v), Active(v), IsPrefix(v, l),
           st'[v] = "ended", \A d \in Agent : d # v => st'[d] = st[d], pos' = pos,
           \A d \in Below(v) : ~ Active(d)
    PROVE  IsCounted(l)'
<1>1. l \in Agent
  BY KindFacts
<1>2. CASE v = Root
  <2>1. \A d \in Agent : d = v \/ d \in Below(v)
    BY <1>2, PathOrder DEF Below
  <2> QED
    BY <1>2, <2>1 DEF IsCounted, AllOver, Active
<1>3. CASE v # Root
  <2> DEFINE u == Front(v)
             i == l[Len(u) + 1]
  <2>1. u \in Agent /\ v \in SubAgents(u)
    BY <1>3, TreeFacts
  <2>2. IsStrictPrefix(u, v) /\ u # v /\ v = Sub(u, v[Len(u) + 1])
    BY <2>1, SubOrder, PathOrder
  <2>3. i = v[Len(u) + 1] /\ IsStrictPrefix(u, l)
    BY <1>1, <2>1, <2>2, PathOrder, SameNumber
  <2>4. u \in Above[v] /\ u \in Pipeline
    BY <2>1, <2>2, StraightIs, KindFacts
  <2>5. st[u] = "running" /\ pos[u] = i
    BY <2>2, <2>3, <2>4 DEF TreeInv, PathRunning, ActiveAtPlace
  <2>6. Sub(u, i) = v
    BY <2>2, <2>3
  <2> HIDE DEF u, i
  <2>7. st'[u] = "running" /\ pos'[u] = i /\ st'[Sub(u, i)] = "ended"
    BY <2>1, <2>2, <2>5, <2>6
  <2>8. Settled(u, i)'
    BY <2>7 DEF Settled
  <2> QED
    BY <2>1, <2>3, <2>8 DEF IsCounted, i
<1> QED
  BY <1>2, <1>3

LEMMA IsCountedStep ==
    ASSUME WorkflowTypes, TreeInv, Steady, Steady', [Next]_vars,
           \A s \in Kinds("sequential") : Straight(s) => PastCheckpoint(s),
           NEW l \in finished, Straight(l), IsCounted(l)
    PROVE  IsCounted(l)'
<1>1. /\ StatusTypes /\ ~ cancelled /\ l \in Leaf /\ l \in Agent /\ paused \in BOOLEAN /\ resumable
      /\ Root \in Top /\ Root \in Agent
  BY TypesByVariable, KindFacts, TreeFacts DEF SignalTypes, LeafTypes, Steady
<1>2. CASE UNCHANGED vars
  BY <1>2 DEF vars, control, transit, signals, IsCounted, AllOver, Settled, Active
<1>3. ~ DropStream /\ ~ Cancel
  BY DEF DropStream, Cancel, Steady
<1>4. CASE AllOver
  <2>1. \A x \in Agent : ~ Acts(x)
    BY <1>4 DEF AllOver, Acts
  <2>2. ~ Resume
    BY <1>4 DEF AllOver, Resume, Steady
  <2>3. ASSUME \A n \in Agent : st'[n] = st[n] \/ st'[n] = "ended", paused' = paused PROVE IsCounted(l)'
    BY <1>1, <1>4, <2>3 DEF AllOver, Active, IsCounted
  <2>4. ASSUME NEW b \in Branch, BranchStep(b) PROVE IsCounted(l)'
    BY <2>3, <2>4, BranchesApart
  <2>5. CASE Take
    BY <2>3, <2>5, TakeIs
  <2> QED
    BY <1>2, <1>3, <2>1, <2>2, <2>4, <2>5, StepIs
<1>5. ASSUME NEW v \in Agent, IsStrictPrefix(v, l), Settled(v, l[Len(v) + 1]) PROVE IsCounted(l)'
  <2> DEFINE i == l[Len(v) + 1]
  <2>2. v \in Kinds("sequential") /\ Straight(v) /\ v \in Pipeline /\ PastCheckpoint(v)
    BY <1>1, <1>5, StraightIs, KindFacts
  <2>3. i \in 1 .. Count[v] /\ i \in Nat /\ Sub(v, i) \in SubAgents(v) /\ IsPrefix(Sub(v, i), l) /\ Count[v] \in Nat
    BY <1>1, <1>5, PathIsAgents, TreeFacts
  <2> HIDE DEF i
  <2> SUFFICES Settled(v, i)' \/ IsCounted(l)'
    BY <1>5 DEF IsCounted, i
  <2>4. ckpt[v] \in Nat /\ pos[v] \in Nat /\ (hand[Root] = NoItem \/ hand[Root] \in Item) /\ NoItem.kind # "checkpoint"
    BY <1>1, <2>2, TypesByVariable, ItemFacts DEF LogTypes, PlaceTypes, HandTypes
  <2>5. CASE i <= ckpt[v]
    <3>1. CASE ckpt' = ckpt
      BY <2>5, <3>1 DEF Settled
    <3>2. CASE Take
      <4>1. ckpt'[v] = ckpt[v] \/ (ckpt'[v] = pos[v] /\ pos[v] > ckpt[v])
        BY <2>2, <3>2, TakeIs DEF PastCheckpoint
      <4> QED
        BY <2>3, <2>4, <2>5, <4>1 DEF Settled
    <3>3. UNCHANGED vars => ckpt' = ckpt
      BY DEF vars
    <3>4. Resume => ckpt' = ckpt
      BY DEF Resume
    <3> QED
      BY <1>3, <3>1, <3>2, <3>3, <3>4, StepIs, BranchesApart
  <2>6. CASE st[v] = "checkpoint" /\ hand[Root] = Checkpoint(v, i)
    <3>1. hand[Root].kind = "checkpoint" /\ hand[Root].from = v /\ hand[Root].n = i /\ hand[Root] # NoItem
      BY <2>4, <2>6 DEF Checkpoint
    <3>2. ASSUME NEW x \in Agent, Acts(x) PROVE Settled(v, i)'
      <4>1. TopOf[x] # Root
        BY <3>1, <3>2 DEF Acts
      <4> QED
        BY <2>2, <2>6, <3>2, <4>1, RootWaits DEF Settled
    <3>3. ASSUME NEW b \in Branch, BranchStep(b) PROVE Settled(v, i)'
      BY <2>2, <2>6, <3>3, BranchesApart DEF Settled
    <3>4. CASE Take
      BY <2>2, <2>3, <3>1, <3>4, TakeIs DEF Settled
    <3>5. ~ Resume
      BY <3>1 DEF Resume, Over
    <3> QED
      BY <1>2, <1>3, <3>2, <3>3, <3>4, <3>5, StepIs
  <2>7. CASE st[v] = "running" /\ pos[v] = i /\ st[Sub(v, i)] = "ended" /\ ~ paused
    <3>1. Sub(v, i) \in Agent /\ Straight(Sub(v, i))
      <4>1. Sub(v, i) \in Agent /\ \A c \in Agent : IsStrictPrefix(c, Sub(v, i)) => IsPrefix(c, v)
        BY <2>3, SubOrder
      <4>2. \A c \in Agent : IsPrefix(c, v) => IsStrictPrefix(c, l)
        BY <1>1, <1>5, PathOrder
      <4> QED
        BY <4>1, <4>2 DEF Straight
    <3>2. ASSUME NEW x \in Agent, Acts(x), ckpt' = ckpt PROVE Settled(v, i)' \/ IsCounted(l)'
      <4>1. x = v
        BY <1>1, <2>2, <2>7, <3>2, OnlyOneActs
      <4>2. NextInSequence(v) /\ Active(v)
        <5>1. PipelineStep(v) /\ Kind[v] = "sequential" /\ Active(v)
          <6>1. v \notin Kinds("parallel") /\ v \notin Leaf
            BY <2>2, KindFacts
          <6> QED
            BY <2>2, <3>2, <4>1, <6>1 DEF Acts, Kinds
        <5> QED
          BY <2>7, <5>1 DEF PipelineStep, BeginPipeline, AfterCheckpoint, At
      <4>3. \A d \in Below(v) : ~ Active(d)
        BY <1>1, <2>2, <2>7, CleanBelow
      <4>4. paused' = paused
        BY <4>2 DEF NextInSequence, signals
      <4>5. CASE Set(v, "ended") /\ UNCHANGED <<pos, hand>>
        <5>1. st'[v] = "ended" /\ \A d \in Agent : d # v => st'[d] = st[d]
          BY <1>1, <4>5, SetTypes DEF Status
        <5>2. IsPrefix(v, l)
          BY <1>1, <1>5, PathOrder
        <5> QED
          BY <1>1, <2>2, <2>7, <4>2, <4>3, <4>4, <4>5, <5>1, <5>2, EndIsSeen
      <4>6. CASE Set(v, "checkpoint") /\ Yield(v, Checkpoint(v, pos[v]))
        <5>1. st'[v] = "checkpoint"
          BY <1>1, <4>6, SetTypes DEF Status
        <5>2. hand'[Root] = Checkpoint(v, i)
          BY <1>1, <2>2, <2>7, <4>6, StraightIs, TypesByVariable DEF Yield, HandTypes
        <5> QED
          BY <5>1, <5>2 DEF Settled
      <4> QED
        BY <1>1, <4>2, <4>5, <4>6 DEF NextInSequence
    <3>3. ASSUME NEW b \in Branch, BranchStep(b) PROVE Settled(v, i)'
      BY <2>2, <2>7, <3>1, <3>3, BranchesApart DEF Settled
    <3>4. CASE Take
      BY <2>7, <3>4, TakeIs DEF Settled
    <3>5. ~ Resume
      <4>1. v # Root => Root \in Above[v]
        BY <1>1, <2>2, StraightIs, PathOrder
      <4>2. st[Root] = "running"
        BY <2>2, <2>7, <4>1, KindFacts DEF TreeInv, PathRunning, Active
      <4> QED
        BY <4>2 DEF Resume, Over
    <3> QED
      BY <1>2, <1>3, <3>2, <3>3, <3>4, <3>5, StepIs
  <2> QED
    BY <1>5, <2>5, <2>6, <2>7 DEF Settled, i
<1> QED
  BY <1>4, <1>5 DEF IsCounted

LEMMA ResumeInvStep == WorkflowInv /\ ResumeInv /\ [Next]_vars => ResumeInv'
<1> SUFFICES ASSUME WorkflowInv, ResumeInv, [Next]_vars PROVE ResumeInv'
  OBVIOUS
<1>1. WorkflowTypes /\ TreeInv /\ MergedCounts
  BY DEF WorkflowInv, ResumeInv
<1>2. cuts \subseteq cuts' /\ resumable' = resumable
      /\ (finished' = finished \/ \E l \in Leaf : LeafFinish(l) /\ finished' = finished \cup {l})
  BY DEF Next, PipelineStep, ParallelStep, BranchStep, LeafStep, BeginPipeline, NextInSequence, AfterCheckpoint,
         NextInLoop, BeginParallel, Receive, ParallelEnd, Send, SendFails, BeginLeaf, LeafEvent, LeafFinish, LeafPause,
         LeafEscalate, LeafError, LeafCancelled, Take, DropStream, Cancel, Resume, vars, history
<1>3. MergedCounts'
  BY <1>1, MergedCountsStep
<1>4. ASSUME Steady'
      PROVE  /\ \A s \in Kinds("sequential") : Straight(s) => PastCheckpoint(s)'
             /\ paused' => \A n \in Agent : Straight(n) => OnlyReturns(n)'
             /\ \A l \in finished' : Straight(l) => IsCounted(l)'
  <2>1. Steady
    BY <1>2, <1>4 DEF Steady
  <2>2. /\ \A s \in Kinds("sequential") : Straight(s) => PastCheckpoint(s)
        /\ paused => \A n \in Agent : Straight(n) => OnlyReturns(n)
        /\ \A l \in finished : Straight(l) => IsCounted(l)
    BY <2>1 DEF ResumeInv
  <2>3. \A s \in Kinds("sequential") : Straight(s) => PastCheckpoint(s)'
    BY <1>1, <1>4, <2>1, <2>2, PastCheckpointStep
  <2>4. paused' => \A n \in Agent : Straight(n) => OnlyReturns(n)'
    BY <1>1, <1>4, <2>1, <2>2, OnlyReturnsStep
  <2>5. \A l \in finished : Straight(l) => IsCounted(l)'
    BY <1>1, <1>4, <2>1, <2>2, IsCountedStep
  <2>6. ASSUME NEW l \in Leaf, LeafFinish(l), Straight(l) PROVE IsCounted(l)'
    <3>1. /\ l \in Agent /\ st[l] = "running" /\ Active(l) /\ Set(l, "ended") /\ UNCHANGED pos /\ paused' = paused
          /\ paused \in BOOLEAN
      BY <1>1, <2>6, KindFacts, TypesByVariable DEF LeafFinish, At, Active, signals, SignalTypes
    <3>2. st'[l] = "ended" /\ \A m \in Agent : m # l => st'[m] = st[m]
      BY <1>1, <3>1, TypesByVariable, SetTypes DEF Status
    <3>3. ~ paused
      BY <2>2, <2>6, <3>1 DEF OnlyReturns
    <3>4. \A d \in Below(l) : FALSE
      BY <3>1, KindFacts, PathIsAgents DEF Below
    <3> QED
      BY <1>1, <2>6, <3>1, <3>2, <3>3, <3>4, EndIsSeen, PathOrder
  <2> QED
    BY <1>2, <2>3, <2>4, <2>5, <2>6
<1>5. \A n : Straight(n)' <=> Straight(n)
  BY DEF Straight
<1>6. ASSUME Steady'
      PROVE  /\ \A s \in Kinds("sequential") : Straight(s)' => PastCheckpoint(s)'
             /\ paused' => \A n \in Agent : Straight(n)' => OnlyReturns(n)'
             /\ \A l \in finished' : Straight(l)' => IsCounted(l)'
  BY <1>4, <1>5, <1>6
<1> QED
  BY <1>3, <1>6 DEF ResumeInv

LEMMA ResumeInvInit == Init => ResumeInv
<1> SUFFICES ASSUME Init PROVE ResumeInv
  OBVIOUS
<1>1. NoItem.kind # "checkpoint" /\ Root \in Top /\ Branch \subseteq Top /\ Kinds("sequential") \subseteq Agent
  BY ItemFacts, KindFacts
<1>2. MergedCounts
  BY <1>1 DEF Init, MergedCounts
<1>3. \A s \in Kinds("sequential") : PastCheckpoint(s)
  BY <1>1 DEF Init, Fresh, PastCheckpoint
<1>4. ~ paused /\ finished = {}
  BY DEF Init
<1> QED
  BY <1>2, <1>3, <1>4 DEF ResumeInv

\* A leaf of nested sequences that has finished does not run again when the invocation,
\* paused and nothing else, is resumed (sequential_agent.rs:101-109).
THEOREM FinishedStaysFinished == Spec => FinishedNotRerun
<1>1. WorkflowInv /\ ResumeInv =>
          \A l \in finished :
              resumable /\ cuts = {} /\ (\A n \in Agent : IsStrictPrefix(n, l) => Kind[n] = "sequential")
              => ~ Begins(l)
  <2> SUFFICES ASSUME WorkflowInv, ResumeInv, NEW l \in finished, Steady, Straight(l), st[l] = "start"
               PROVE  FALSE
    BY DEF Begins, Steady, Straight
  <2>1. WorkflowTypes /\ TreeInv /\ IsCounted(l) /\ l \in Leaf
    BY DEF WorkflowInv, ResumeInv, WorkflowTypes, TypeOK
  <2>2. l \in Agent /\ Active(l)
    BY <2>1, KindFacts DEF Active
  <2>3. PICK v \in Agent : IsStrictPrefix(v, l) /\ Settled(v, l[Len(v) + 1])
    BY <2>1, <2>2 DEF IsCounted, AllOver
  <2> DEFINE i == l[Len(v) + 1]
             c == Sub(v, i)
  <2>4. v \in Above[l] /\ v \in Kinds("sequential") /\ v \in Pipeline /\ Straight(v)
    BY <2>2, <2>3, StraightIs, KindFacts
  <2>5. st[v] = "running" /\ pos[v] = i
    BY <2>1, <2>2, <2>3, <2>4 DEF TreeInv, PathRunning, ActiveAtPlace
  <2>6. pos[v] > ckpt[v] /\ pos[v] \in Nat /\ ckpt[v] \in Nat
    BY <2>1, <2>4, <2>5, TypesByVariable DEF ResumeInv, PastCheckpoint, PlaceTypes, LogTypes
  <2>7. c \in SubAgents(v) /\ IsPrefix(c, l)
    BY <2>2, <2>3, PathIsAgents
  <2>8. c \in Above[l] \cup {l}
    BY <2>2, <2>4, <2>7, AboveAbove
  <2>9. st[c] # "ended"
    BY <2>1, <2>2, <2>8 DEF TreeInv, PathRunning, Active
  <2> QED
    BY <2>3, <2>5, <2>6, <2>9 DEF Settled
<1>2. Init => WorkflowInv /\ ResumeInv
  BY WorkflowInvInit, ResumeInvInit
<1>3. WorkflowInv /\ ResumeInv /\ [Next]_vars => WorkflowInv' /\ ResumeInv'
  BY WorkflowInvStep, ResumeInvStep
<1>4. Spec => [](WorkflowInv /\ ResumeInv)
  BY <1>2, <1>3, PTL DEF Spec
<1> QED
  BY <1>1, <1>4, PTL DEF FinishedNotRerun

=============================================================================
