------------------------- MODULE EngineStateProofs --------------------------
(***************************************************************************)
(* Proofs about what an engine holds, for any tools, any rules, messages   *)
(* of any number and size and requests that give any number of blocks.     *)
(*                                                                         *)
(* EngineConfig: a sub-agent is no freer than its parent, an engine can be *)
(* forked, built-in guards answer to their names, what is carried over by  *)
(* name survives, and a tool scope hides what it should.                   *)
(*                                                                         *)
(* ContextManager: what is counted is what is there; a compaction leaves   *)
(* no tool result without its call, nothing that could have gone, and the  *)
(* last messages as they were; and the search for the cut finds the best.  *)
(***************************************************************************)
EXTENDS EngineConfig, ContextManager, SequenceTheorems, FiniteSetTheorems, TLAPS

(* Counting: what is proved by induction goes back to the least element of *)
(* a set of numbers.                                                       *)

LEMMA LeastElement ==
  ASSUME NEW S \in SUBSET Nat, S # {}
  PROVE  \E m \in S : \A n \in S : m <= n
<1> DEFINE Below(n) == 0..n
           B == {Below(n) : n \in S}
<1>1. B \subseteq FiniteSubsetsOf(Nat) /\ B # {}
  <2>1. \A n \in S : Below(n) \in FiniteSubsetsOf(Nat)
    <3> SUFFICES ASSUME NEW n \in S PROVE 0..n \in SUBSET Nat /\ IsFiniteSet(0..n)
      BY DEF FiniteSubsetsOf
    <3>1. IsFiniteSet(0..n)
      BY FS_Interval
    <3> QED
      BY <3>1
  <2> QED
    BY <2>1
<1>2. PICK X \in B : \A Y \in B : ~(<<Y, X>> \in StrictSubsetOrdering(Nat))
  <2>1. IsWellFoundedOn(StrictSubsetOrdering(Nat), FiniteSubsetsOf(Nat))
    BY FS_StrictSubsetOrderingWellFounded
  <2> HIDE DEF B
  <2> QED
    BY <1>1, <2>1, WFMin
<1>3. PICK m \in S : X = 0..m
  OBVIOUS
<1>4. ASSUME NEW n \in S, n < m PROVE FALSE
  <2>1. 0..n \in B /\ 0..n \subseteq 0..m /\ 0..n # 0..m
    <3>1. m \in 0..m /\ m \notin 0..n
      BY <1>4
    <3> QED
      BY <3>1, <1>4
  <2>2. <<0..n, 0..m>> \in (SUBSET Nat) \X (SUBSET Nat)
    OBVIOUS
  <2>3. <<0..n, 0..m>> \in StrictSubsetOrdering(Nat)
    BY <2>1, <2>2 DEF StrictSubsetOrdering
  <2> QED
    BY <1>2, <1>3, <2>1, <2>3
<1> QED
  BY <1>4

LEMMA Counting ==
  ASSUME NEW T, T \subseteq Nat, 0 \in T, \A n \in T : n + 1 \in T
  PROVE  T = Nat
<1> SUFFICES ASSUME Nat \ T # {} PROVE FALSE
  OBVIOUS
<1>1. PICK m \in Nat \ T : \A n \in Nat \ T : m <= n
  BY LeastElement
<1>2. m # 0 /\ m - 1 \in Nat /\ m - 1 \in T
  BY <1>1
<1> QED
  BY <1>1, <1>2

\* g holds what has become of v after each of n steps, F[i] being the i-th.
Iterates(g, v, n, F) == g[0] = v /\ \A i \in 1..n : g[i] = F[i][g[i - 1]]

LEMMA RecursionHasValues ==
  ASSUME NEW V, NEW v \in V, NEW n \in Nat, NEW F \in [1..n -> [V -> V]]
  PROVE  \E g \in [0..n -> V] : Iterates(g, v, n, F)
<1> DEFINE T == {k \in Nat : k <= n => \E g \in [0..k -> V] : Iterates(g, v, k, F)}
<1>1. 0 \in T
  <2> DEFINE g == [i \in 0..0 |-> v]
  <2>1. g \in [0..0 -> V] /\ g[0] = v
    OBVIOUS
  <2> HIDE DEF g
  <2>2. Iterates(g, v, 0, F)
    BY <2>1 DEF Iterates
  <2> QED
    BY <2>1, <2>2
<1>2. ASSUME NEW k \in T PROVE k + 1 \in T
  <2>0. k \in Nat
    OBVIOUS
  <2>1. ASSUME k + 1 <= n
        PROVE  \E g \in [0..(k + 1) -> V] : Iterates(g, v, k + 1, F)
    <3>1. k <= n /\ k + 1 \in 1..n
      BY <2>0, <2>1
    <3>2. PICK f \in [0..k -> V] : Iterates(f, v, k, F)
      BY <3>1
    <3> DEFINE g == [i \in 0..(k + 1) |-> IF i = k + 1 THEN F[k + 1][f[k]] ELSE f[i]]
    <3> HIDE DEF T
    <3>3. f[k] \in V /\ F[k + 1] \in [V -> V]
      BY <2>0, <3>1
    <3>4. F[k + 1][f[k]] \in V
      BY <3>3
    <3>5. g \in [0..(k + 1) -> V]
      BY <2>0, <3>4
    <3>6. \A i \in 0..k : g[i] = f[i]
      BY <2>0
    <3>7. g[k + 1] = F[k + 1][f[k]]
      BY <2>0
    <3> HIDE DEF g
    <3>8. \A i \in 1..(k + 1) : g[i] = F[i][g[i - 1]]
      <4> SUFFICES ASSUME NEW i \in 1..(k + 1) PROVE g[i] = F[i][g[i - 1]]
        OBVIOUS
      <4>1. CASE i = k + 1
        <5>1. i - 1 = k /\ k \in 0..k
          BY <2>0, <4>1
        <5> QED
          BY <3>6, <3>7, <4>1, <5>1
      <4>2. CASE i # k + 1
        <5>1. i \in 1..k /\ i \in 0..k /\ i - 1 \in 0..k
          BY <2>0, <4>2
        <5> QED
          BY <3>2, <3>6, <5>1 DEF Iterates
      <4> QED
        BY <4>1, <4>2
    <3>9. g[0] = v
      BY <2>0, <3>2, <3>6 DEF Iterates
    <3> QED
      BY <3>5, <3>8, <3>9 DEF Iterates
  <2> QED
    BY <2>0, <2>1
<1>3. T = Nat
  <2> HIDE DEF T
  <2>1. T \subseteq Nat
    BY DEF T
  <2> QED
    BY <1>1, <1>2, <2>1, Counting
<1>4. n \in T
  BY <1>3
<1> QED
  BY <1>4

LEMMA MinIsLeast ==
  ASSUME NEW S \in SUBSET Nat, S # {}
  PROVE  Min(S) \in S /\ \A n \in S : Min(S) <= n
<1>1. PICK m \in S : \A n \in S : m <= n
  BY LeastElement
<1> QED
  BY <1>1 DEF Min

LEMMA MaxIsGreatest ==
  ASSUME NEW S \in SUBSET Nat, S # {}, NEW b \in Nat, \A n \in S : n <= b
  PROVE  Max(S) \in S /\ \A n \in S : Max(S) >= n
<1> DEFINE D == {d \in Nat : \E n \in S : d = b - n}
<1>1. D \in SUBSET Nat
  OBVIOUS
<1>2. D # {}
  <2>1. PICK n \in S : TRUE
    OBVIOUS
  <2>2. b - n \in D
    BY <2>1
  <2> QED
    BY <2>2
<1>3. PICK d \in D : \A e \in D : d <= e
  <2> HIDE DEF D
  <2> QED
    BY <1>1, <1>2, LeastElement
<1>4. PICK m \in S : d = b - m
  BY <1>3
<1>5. ASSUME NEW n \in S PROVE m >= n
  <2>1. b - n \in D
    BY <1>5
  <2> QED
    BY <1>3, <1>4, <2>1
<1> QED
  BY <1>5 DEF Max

LEMMA MinOfTwo ==
  ASSUME NEW m \in Nat, NEW n \in Nat
  PROVE  Min({m, n}) <= m /\ Min({m, n}) <= n /\ Min({m, n}) \in Nat
<1>1. {m, n} \in SUBSET Nat /\ {m, n} # {}
  OBVIOUS
<1>2. Min({m, n}) \in {m, n} /\ \A k \in {m, n} : Min({m, n}) <= k
  BY <1>1, MinIsLeast
<1> QED
  BY <1>2

----------------------------------------------------------------------------
(* Sequences without repetitions, and what Kept leaves of them.            *)

\* What the recursive function in Kept computes.
Filters(f, s, S) ==
  /\ f[0] = <<>>
  /\ \A i \in 1..Len(s) : f[i] = IF s[i] \in S THEN Append(f[i - 1], s[i]) ELSE f[i - 1]

LEMMA KeptIsFiltered ==
  ASSUME NEW X, NEW s \in Seq(X), NEW S
  PROVE  \E f \in [0..Len(s) -> Seq(X)] : Filters(f, s, S) /\ Kept(s, S) = f[Len(s)]
<1> DEFINE n == Len(s)
           V == Seq(X)
           F == [i \in 1..n |-> [v \in V |-> IF s[i] \in S THEN Append(v, s[i]) ELSE v]]
           P(f) == f = [i \in 0..n |-> IF i = 0 THEN <<>>
                                       ELSE IF s[i] \in S THEN Append(f[i - 1], s[i])
                                       ELSE f[i - 1]]
           kept == CHOOSE f : P(f)
<1>1. n \in Nat /\ \A i \in 1..n : s[i] \in X
  BY ElementOfSeq
<1>2. <<>> \in V
  OBVIOUS
<1>3. \A i \in 1..n, v \in V : (IF s[i] \in S THEN Append(v, s[i]) ELSE v) \in V
  BY <1>1, AppendProperties
<1> HIDE DEF n, V
<1>4. F \in [1..n -> [V -> V]]
  BY <1>3
<1>5. PICK g \in [0..n -> V] : Iterates(g, <<>>, n, F)
  <2> HIDE DEF F
  <2> QED
    BY <1>1, <1>2, <1>4, RecursionHasValues
<1>6. \A i \in 1..n : g[i] = IF s[i] \in S THEN Append(g[i - 1], s[i]) ELSE g[i - 1]
  <2> SUFFICES ASSUME NEW i \in 1..n
               PROVE  g[i] = IF s[i] \in S THEN Append(g[i - 1], s[i]) ELSE g[i - 1]
    OBVIOUS
  <2>1. g[i] = F[i][g[i - 1]]
    BY <1>5 DEF Iterates
  <2>2. g[i - 1] \in V
    BY <1>1
  <2> QED
    BY <2>1, <2>2
<1> HIDE DEF F
<1>7. P(g)
  <2>1. g = [i \in 0..n |-> g[i]]
    OBVIOUS
  <2>2. g[0] = <<>>
    BY <1>5 DEF Iterates
  <2>3. \A i \in 0..n : i = 0 \/ i \in 1..n
    BY <1>1
  <2> QED
    BY <1>6, <2>1, <2>2, <2>3
<1>8. P(kept)
  BY <1>7
<1>9. Kept(s, S) = kept[n]
  BY DEF Kept, n
<1> HIDE DEF kept
<1>10. DOMAIN kept = 0..n /\ kept[0] = <<>> /\ kept = [i \in 0..n |-> kept[i]]
  BY <1>1, <1>8
<1>11. \A i \in 1..n : kept[i] = IF s[i] \in S THEN Append(kept[i - 1], s[i])
                                 ELSE kept[i - 1]
  <2> SUFFICES ASSUME NEW i \in 1..n
               PROVE  kept[i] = IF s[i] \in S THEN Append(kept[i - 1], s[i]) ELSE kept[i - 1]
    OBVIOUS
  <2>1. i \in 0..n /\ i # 0
    BY <1>1
  <2> QED
    BY <1>8, <2>1
<1> HIDE DEF P
<1> DEFINE T == {k \in Nat : k <= n => kept[k] \in V}
<1>12. T = Nat
  <2>1. 0 \in T
    BY <1>2, <1>10
  <2>2. ASSUME NEW k \in T PROVE k + 1 \in T
    <3> SUFFICES ASSUME k + 1 <= n PROVE kept[k + 1] \in V
      OBVIOUS
    <3>1. k + 1 \in 1..n /\ (k + 1) - 1 = k /\ kept[k] \in V
      BY <1>1
    <3>2. kept[k + 1] = IF s[k + 1] \in S THEN Append(kept[k], s[k + 1]) ELSE kept[k]
      BY <1>11, <3>1
    <3> QED
      BY <1>3, <3>1, <3>2
  <2> HIDE DEF T
  <2>3. T \subseteq Nat
    BY DEF T
  <2> QED
    BY <2>1, <2>2, <2>3, Counting
<1>13. \A i \in 0..n : kept[i] \in V
  <2> SUFFICES ASSUME NEW i \in 0..n PROVE kept[i] \in V
    OBVIOUS
  <2>1. i \in T
    BY <1>1, <1>12
  <2> QED
    BY <1>1, <2>1
<1>14. kept \in [0..n -> V]
  BY <1>10, <1>13
<1>15. Filters(kept, s, S)
  BY <1>10, <1>11 DEF Filters, n
<1> QED
  BY <1>9, <1>14, <1>15 DEF n, V

\* Kept takes from s the members of S, each once if s has each once.
LEMMA KeptProperties ==
  ASSUME NEW X, NEW s \in Seq(X), NEW S
  PROVE  /\ Kept(s, S) \in Seq(X)
         /\ ToSet(Kept(s, S)) = ToSet(s) \cap S
         /\ IsInjective(s) => IsInjective(Kept(s, S))
<1> DEFINE n == Len(s)
           Members(k) == {s[i] : i \in 1..k}
<1>1. n \in Nat /\ \A i \in 1..n : s[i] \in X
  BY ElementOfSeq
<1>2. PICK f \in [0..n -> Seq(X)] :
         /\ f[0] = <<>> /\ Kept(s, S) = f[n]
         /\ \A i \in 1..n : f[i] = IF s[i] \in S THEN Append(f[i - 1], s[i]) ELSE f[i - 1]
  <2>1. PICK f \in [0..Len(s) -> Seq(X)] : Filters(f, s, S) /\ Kept(s, S) = f[Len(s)]
    BY KeptIsFiltered
  <2> QED
    BY <2>1 DEF Filters
<1> HIDE DEF n
<1> DEFINE Right(k) == ToSet(f[k]) = Members(k) \cap S /\ (IsInjective(s) => IsInjective(f[k]))
           T == {k \in Nat : k <= n => Right(k)}
<1>3. 0 \in T
  <2>1. ToSet(<<>>) = {} /\ Members(0) = {}
    BY DEF ToSet
  <2>2. IsInjective(<<>>)
    BY DEF IsInjective
  <2> QED
    BY <1>2, <2>1, <2>2
<1>4. ASSUME NEW k \in T PROVE k + 1 \in T
  <2> SUFFICES ASSUME k + 1 <= n PROVE Right(k + 1)
    OBVIOUS
  <2>1. /\ k \in Nat /\ k + 1 \in 1..n /\ (k + 1) - 1 = k /\ k \in 0..n
        /\ f[k] \in Seq(X) /\ s[k + 1] \in X /\ Right(k)
    BY <1>1, <1>2
  <2>2. f[k + 1] = IF s[k + 1] \in S THEN Append(f[k], s[k + 1]) ELSE f[k]
    BY <1>2, <2>1
  <2>3. Members(k + 1) = Members(k) \cup {s[k + 1]}
    <3>1. \A i : i \in 1..(k + 1) <=> i \in 1..k \/ i = k + 1
      BY <2>1
    <3> QED
      BY <3>1
  <2>4. CASE s[k + 1] \notin S
    BY <2>1, <2>2, <2>3, <2>4
  <2>5. CASE s[k + 1] \in S
    <3> DEFINE h == Append(f[k], s[k + 1])
               m == Len(f[k])
    <3>1. /\ m \in Nat /\ Len(h) = m + 1 /\ DOMAIN h = 1..(m + 1) /\ DOMAIN f[k] = 1..m
          /\ h[m + 1] = s[k + 1] /\ \A i \in 1..m : h[i] = f[k][i]
      BY <2>1, AppendProperties
    <3>2. ToSet(h) = {h[i] : i \in 1..(m + 1)} /\ ToSet(f[k]) = {f[k][i] : i \in 1..m}
      BY <3>1 DEF ToSet
    <3>3. \A i : i \in 1..(m + 1) <=> i \in 1..m \/ i = m + 1
      BY <3>1
    <3> HIDE DEF h, m
    <3>4. ToSet(h) = ToSet(f[k]) \cup {s[k + 1]}
      BY <3>1, <3>2, <3>3
    <3>5. f[k + 1] = h
      BY <2>2, <2>5 DEF h
    <3>6. ToSet(f[k + 1]) = Members(k + 1) \cap S
      <4> HIDE DEF Members
      <4> QED
        BY <2>1, <2>3, <2>5, <3>4, <3>5
    <3>7. ASSUME IsInjective(s) PROVE IsInjective(h)
      <4>1. s[k + 1] \notin Members(k)
        <5>1. DOMAIN s = 1..n
          BY DEF n
        <5>2. \A i \in 1..k : i \in 1..n /\ i # k + 1
          BY <1>1, <2>1
        <5> QED
          BY <2>1, <3>7, <5>1, <5>2 DEF IsInjective
      <4>2. s[k + 1] \notin ToSet(f[k])
        BY <2>1, <4>1
      <4>3. \A i \in 1..m : f[k][i] # s[k + 1]
        BY <3>2, <4>2
      <4>4. IsInjective(f[k])
        BY <2>1, <3>7
      <4> QED
        BY <3>1, <3>3, <4>3, <4>4 DEF IsInjective
    <3> QED
      BY <3>5, <3>6, <3>7
  <2> QED
    BY <2>4, <2>5
<1>5. T = Nat
  <2> HIDE DEF T
  <2>1. T \subseteq Nat
    BY DEF T
  <2> QED
    BY <1>3, <1>4, <2>1, Counting
<1>6. Right(n)
  <2>1. n \in T
    BY <1>1, <1>5
  <2> QED
    BY <1>1, <2>1
<1>7. Members(n) = ToSet(s)
  BY DEF ToSet, n
<1> QED
  BY <1>1, <1>2, <1>6, <1>7

\* A sequence without repetitions is as long as it has members.
LEMMA LenOfInjective ==
  ASSUME NEW X, NEW s \in Seq(X), IsInjective(s)
  PROVE  IsFiniteSet(ToSet(s)) /\ Cardinality(ToSet(s)) = Len(s)
<1>1. Len(s) \in Nat /\ DOMAIN s = 1..Len(s) /\ ToSet(s) = {s[i] : i \in 1..Len(s)}
  BY DEF ToSet
<1>2. s \in [1..Len(s) -> ToSet(s)]
  BY <1>1
<1>3. s \in Bijection(1..Len(s), ToSet(s))
  BY <1>1, <1>2 DEF Bijection, Injection, Surjection
<1>4. ExistsBijection(1..Len(s), ToSet(s))
  BY <1>3 DEF ExistsBijection
<1>5. IsFiniteSet(ToSet(s))
  BY <1>1, <1>4, FS_NatBijection
<1>6. Cardinality(ToSet(s)) = Len(s)
  BY <1>1, <1>4, FS_CountingElements
<1> QED
  BY <1>5, <1>6

LEMMA ConcatDisjoint ==
  ASSUME NEW X, NEW s \in Seq(X), NEW t \in Seq(X), IsInjective(s), IsInjective(t),
         ToSet(s) \cap ToSet(t) = {}
  PROVE  /\ s \o t \in Seq(X) /\ IsInjective(s \o t)
         /\ ToSet(s \o t) = ToSet(s) \cup ToSet(t)
<1> DEFINE u == s \o t
           m == Len(s)
           n == Len(t)
<1>1. /\ u \in Seq(X) /\ Len(u) = m + n /\ m \in Nat /\ n \in Nat
      /\ \A i \in 1..(m + n) : u[i] = IF i <= m THEN s[i] ELSE t[i - m]
      /\ DOMAIN u = 1..(m + n) /\ DOMAIN s = 1..m /\ DOMAIN t = 1..n
  BY ConcatProperties
<1>2. /\ ToSet(u) = {u[i] : i \in 1..(m + n)} /\ ToSet(s) = {s[i] : i \in 1..m}
      /\ ToSet(t) = {t[i] : i \in 1..n}
  BY <1>1 DEF ToSet
<1> HIDE DEF u, m, n
<1>3. \A i \in 1..(m + n) : \/ i \in 1..m /\ u[i] = s[i]
                            \/ ~(i <= m) /\ i - m \in 1..n /\ u[i] = t[i - m]
  BY <1>1
<1>4. \A i \in 1..m : i \in 1..(m + n) /\ u[i] = s[i]
  BY <1>1
<1>5. \A i \in 1..n : i + m \in 1..(m + n) /\ u[i + m] = t[i]
  <2> SUFFICES ASSUME NEW i \in 1..n PROVE i + m \in 1..(m + n) /\ u[i + m] = t[i]
    OBVIOUS
  <2>1. i + m \in 1..(m + n) /\ ~(i + m <= m) /\ (i + m) - m = i
    BY <1>1
  <2> QED
    BY <1>1, <2>1
<1>6. ToSet(u) = ToSet(s) \cup ToSet(t)
  <2>1. \A x \in ToSet(u) : x \in ToSet(s) \cup ToSet(t)
    BY <1>2, <1>3
  <2>2. \A x \in ToSet(s) : x \in ToSet(u)
    BY <1>2, <1>4
  <2>3. \A x \in ToSet(t) : x \in ToSet(u)
    BY <1>2, <1>5
  <2> QED
    BY <2>1, <2>2, <2>3
<1>7. IsInjective(u)
  <2> SUFFICES ASSUME NEW i \in 1..(m + n), NEW j \in 1..(m + n), u[i] = u[j] PROVE i = j
    BY <1>1 DEF IsInjective
  <2>1. CASE i \in 1..m /\ j \in 1..m
    BY <1>1, <1>4, <2>1 DEF IsInjective
  <2>2. CASE ~(i <= m) /\ ~(j <= m)
    <3>1. /\ i - m \in 1..n /\ u[i] = t[i - m] /\ j - m \in 1..n /\ u[j] = t[j - m]
      BY <1>1, <1>3, <2>2
    <3>2. i - m = j - m
      BY <1>1, <3>1 DEF IsInjective
    <3> QED
      BY <1>1, <3>2
  <2>3. ASSUME NEW a \in 1..(m + n), NEW b \in 1..(m + n), a \in 1..m, ~(b <= m), u[a] = u[b]
        PROVE  FALSE
    <3>1. u[a] \in ToSet(s)
      BY <1>2, <1>4, <2>3
    <3>2. u[b] \in ToSet(t)
      BY <1>2, <1>3, <1>1, <2>3
    <3> QED
      BY <2>3, <3>1, <3>2
  <2> QED
    BY <1>1, <2>1, <2>2, <2>3
<1> QED
  BY <1>1, <1>6, <1>7 DEF u

\* The first k members of a sequence without repetitions.
LEMMA FrontIsInjective ==
  ASSUME NEW X, NEW s \in Seq(X), IsInjective(s), NEW k \in 0..Len(s)
  PROVE  /\ SubSeq(s, 1, k) \in Seq(X) /\ IsInjective(SubSeq(s, 1, k))
         /\ Len(SubSeq(s, 1, k)) = k /\ ToSet(SubSeq(s, 1, k)) \subseteq ToSet(s)
<1> DEFINE u == SubSeq(s, 1, k)
<1>1. /\ Len(s) \in Nat /\ DOMAIN s = 1..Len(s) /\ k \in Nat /\ k <= Len(s)
      /\ \A i \in 1..k : i \in 1..Len(s) /\ s[i] \in X
  BY ElementOfSeq
<1>2. u \in Seq(X) /\ Len(u) = k /\ DOMAIN u = 1..k
  <2>1. u \in Seq(X) /\ Len(u) = IF 1 <= k THEN k - 1 + 1 ELSE 0
    BY <1>1, SubSeqProperties
  <2> QED
    BY <1>1, <2>1
<1>3. \A i \in 1..k : u[i] = s[i]
  <2>1. \A i \in 1..(k - 1 + 1) : u[i] = s[1 + i - 1]
    BY <1>1, SubSeqProperties
  <2> QED
    BY <1>1, <2>1
<1> HIDE DEF u
<1>4. IsInjective(u)
  BY <1>1, <1>2, <1>3 DEF IsInjective
<1>5. ToSet(u) \subseteq ToSet(s)
  BY <1>1, <1>2, <1>3 DEF ToSet
<1> QED
  BY <1>2, <1>4, <1>5 DEF u

----------------------------------------------------------------------------
(* EngineConfig.                                                           *)

\* Tools have names of their own.
Names == eng.tools \in Seq(Tools) /\ IsInjective(eng.tools)

\* What a sub-agent was given is what its parent still has: a run keeps
\* agent.configure off.
Inherits ==
  child # Null =>
    /\ child.permission = eng.permission /\ ~child.approver
    /\ child.guards = eng.guards /\ child.verifiers = eng.verifiers
    /\ ~child.delegate /\ ~child.coordinator

\* The tool scope of an engine is one that a request may give.
Scoped == eng.scope \in {Null} \cup Scopes

\* The fields that the updates of an engine keep to.
Fields == {"limits", "notices", "delegate", "coordinator", "compaction", "permission",
           "approver", "guards", "verifiers", "scope", "loop", "router", "judge",
           "llm", "tools"}

Shape == /\ DOMAIN eng = Fields /\ eng = [f \in Fields |-> eng[f]]

Inv == Names /\ Scoped /\ Inherits /\ BuiltinsNotShadowed /\ Shape

\* What a block may hold, and nothing.
Values == UNION {BlockValues[b] : b \in Blocks}

Requestable == Values \cup {Null}

\* A request gives no block a value that the block may not have.
Proper == {p \in [Blocks -> Requestable] : \A b \in Blocks : p[b] \in BlockValues[b] \cup {Null}}

LEMMA ExtendIsProper ==
  ASSUME NEW requests \in SUBSET Proper, NEW b \in Blocks
  PROVE  Extend(requests, b) \in SUBSET Proper
<1> SUFFICES ASSUME NEW p \in requests, NEW v \in BlockValues[b]
             PROVE  [p EXCEPT ![b] = v] \in Proper
  BY DEF Extend
<1>1. p \in [Blocks -> Requestable] /\ \A c \in Blocks : p[c] \in BlockValues[c] \cup {Null}
  BY DEF Proper
<1>2. v \in Requestable
  BY DEF Requestable, Values
<1> QED
  BY <1>1, <1>2 DEF Proper

LEMMA RequestsAreProper == Requests \subseteq Proper
<1> DEFINE n == MaxBlocks
           V == SUBSET Proper
           More(r) == UNION {Extend(r, b) : b \in Blocks \ {"llm"}}
           F == [i \in 1..n |-> [r \in V |-> More(r)]]
           P(f) == f = [i \in 0..n |-> IF i = 0 THEN {Omitted} ELSE More(f[i - 1])]
           Give == CHOOSE f : P(f)
<1>1. n \in Nat
  BY ToolsAssumption
<1>2. {Omitted} \in V
  <2>1. Null \in Requestable
    BY DEF Requestable
  <2>2. Omitted \in [Blocks -> Requestable] /\ \A b \in Blocks : Omitted[b] = Null
    BY <2>1 DEF Omitted
  <2>3. Omitted \in Proper
    BY <2>2 DEF Proper
  <2> QED
    BY <2>3
<1>3. \A r \in V : More(r) \in V
  BY ExtendIsProper
<1> HIDE DEF More, V, n
<1>4. F \in [1..n -> [V -> V]]
  BY <1>3
<1>5. PICK g \in [0..n -> V] : Iterates(g, {Omitted}, n, F)
  <2> HIDE DEF F
  <2> QED
    BY <1>1, <1>2, <1>4, RecursionHasValues
<1>6. \A i \in 1..n : g[i] = More(g[i - 1])
  <2> SUFFICES ASSUME NEW i \in 1..n PROVE g[i] = More(g[i - 1])
    OBVIOUS
  <2>1. g[i] = F[i][g[i - 1]]
    BY <1>5 DEF Iterates
  <2>2. g[i - 1] \in V
    BY <1>1
  <2> QED
    BY <2>1, <2>2
<1> HIDE DEF F
<1>7. P(g)
  <2>1. g = [i \in 0..n |-> g[i]]
    OBVIOUS
  <2>2. g[0] = {Omitted}
    BY <1>5 DEF Iterates
  <2>3. \A i \in 0..n : i = 0 \/ i \in 1..n
    BY <1>1
  <2> QED
    BY <1>6, <2>1, <2>2, <2>3
<1>8. P(Give)
  BY <1>7
<1>9. Requests = Extend(Give[n], "llm")
  BY DEF Requests, More, n
<1> HIDE DEF Give
<1>10. DOMAIN Give = 0..n /\ Give[0] = {Omitted}
  BY <1>1, <1>8
<1>11. \A i \in 1..n : Give[i] = More(Give[i - 1])
  <2> SUFFICES ASSUME NEW i \in 1..n PROVE Give[i] = More(Give[i - 1])
    OBVIOUS
  <2>1. i \in 0..n /\ i # 0
    BY <1>1
  <2> QED
    BY <1>8, <2>1
<1> HIDE DEF P
<1> DEFINE T == {k \in Nat : k <= n => Give[k] \in V}
<1>12. T = Nat
  <2>1. 0 \in T
    BY <1>2, <1>10
  <2>2. ASSUME NEW k \in T PROVE k + 1 \in T
    <3> SUFFICES ASSUME k + 1 <= n PROVE Give[k + 1] \in V
      OBVIOUS
    <3>1. k + 1 \in 1..n /\ (k + 1) - 1 = k /\ Give[k] \in V
      BY <1>1
    <3>2. Give[k + 1] = More(Give[k])
      BY <1>11, <3>1
    <3> QED
      BY <1>3, <3>1, <3>2
  <2> HIDE DEF T
  <2>3. T \subseteq Nat
    BY DEF T
  <2> QED
    BY <2>1, <2>2, <2>3, Counting
<1>13. n \in T
  BY <1>1, <1>12
<1>14. Give[n] \in SUBSET Proper
  BY <1>1, <1>13 DEF V
<1>15. "llm" \in Blocks
  BY DEF Blocks, BlockValues
<1> QED
  BY <1>9, <1>14, <1>15, ExtendIsProper

LEMMA ScopeOfRequest ==
  ASSUME NEW p \in Requests
  PROVE  p.scope \in {Null} \cup Scopes
<1>1. "scope" \in Blocks /\ BlockValues["scope"] = Scopes
  BY DEF Blocks, BlockValues
<1>2. p["scope"] \in BlockValues["scope"] \cup {Null}
  BY <1>1, RequestsAreProper DEF Proper
<1> QED
  BY <1>1, <1>2

LEMMA DefaultShape ==
  /\ DOMAIN Default = Fields /\ Default = [f \in Fields |-> Default[f]]
  /\ Default.guards = <<>> /\ Default.verifiers = <<>> /\ Default.tools = <<>>
  /\ ~Default.approver
BY DEF Default, Fields

LEMMA InitHolds ==
  ASSUME Init
  PROVE  Inv
<1>1. eng.tools = <<>> /\ eng.guards = <<>> /\ eng.verifiers = <<>> /\ child = Null
      /\ eng.scope = Null
  BY DEF Init, Default
<1>2. Shape
  BY DEF Init, Default, Shape, Fields
<1>3. Names
  BY <1>1 DEF Names, IsInjective
<1>4. BuiltinsNotShadowed
  BY <1>1 DEF BuiltinsNotShadowed
<1> QED
  BY <1>1, <1>2, <1>3, <1>4 DEF Inv, Inherits, Scoped

\* The parts of a rebuilt engine that the properties are about.
LEMMA RebuiltParts ==
  ASSUME NEW p
  PROVE  /\ Rebuilt(p).tools = eng.tools /\ Rebuilt(p).scope = p.scope
         /\ Rebuilt(p).guards = IF p.guards = Null THEN <<>> ELSE Resolved("guards", p.guards)
         /\ Rebuilt(p).verifiers =
              IF p.verifiers = Null THEN <<>> ELSE Resolved("verifiers", p.verifiers)
         /\ Rebuilt(p).loop = Named(p.loop, eng.loop, "react")
         /\ Rebuilt(p).router = Named(p.router, eng.router, Null)
         /\ Rebuilt(p).judge = Named(p.judge, eng.judge, Null)
         /\ Rebuilt(p).llm = IF p.llm = "remote" THEN "remote" ELSE eng.llm
         /\ DOMAIN Rebuilt(p) = Fields /\ Rebuilt(p) = [f \in Fields |-> Rebuilt(p)[f]]
<1> DEFINE d == FromDefault(p)
<1>1. /\ DOMAIN d = Fields
      /\ d.guards = IF p.guards = Null THEN <<>> ELSE Resolved("guards", p.guards)
      /\ d.verifiers = IF p.verifiers = Null THEN <<>> ELSE Resolved("verifiers", p.verifiers)
      /\ d.loop = "react" /\ d.router = Null /\ d.judge = Null /\ d.scope = p.scope
  BY DEF FromDefault, Default, Fields
<1> QED
  BY <1>1 DEF Rebuilt, Fields

\* A name of a built-in guard or verifier resolves to the built-in one.
LEMMA ResolvedBuiltin ==
  ASSUME NEW kind \in {"guards", "verifiers"}, NEW names, ~Unresolved(kind, names),
         names # Null, NEW i \in DOMAIN names,
         Resolved(kind, names)[i][1] \in Builtins[kind]
  PROVE  Resolved(kind, names)[i][2] = "builtin"
<1> DEFINE c == Resolved(kind, names)[i]
<1>1. c = CHOOSE x \in Resolve(kind, names[i]) : TRUE
  BY DEF Resolved
<1>2. Resolve(kind, names[i]) # {}
  BY DEF Unresolved
<1>3. c \in Resolve(kind, names[i])
  BY <1>1, <1>2
<1>4. c[1] = names[i]
  BY <1>3 DEF Resolve
<1> QED
  BY <1>3, <1>4 DEF Resolve

LEMMA ConfigureKeeps ==
  ASSUME Inv, NEW p \in Requests, Configure(p)
  PROVE  Inv'
<1>1. eng' = Rebuilt(p) /\ child' = Null /\ child = Null /\ ~Refused(p)
  BY DEF Configure
<1>2. Names'
  BY <1>1, RebuiltParts DEF Inv, Names
<1>3. Inherits'
  BY <1>1 DEF Inherits
<1>4. BuiltinsNotShadowed'
  <2> SUFFICES ASSUME NEW kind \in {"guards", "verifiers"}, NEW i \in DOMAIN eng'[kind],
                      eng'[kind][i][1] \in Builtins[kind]
               PROVE  eng'[kind][i][2] = "builtin"
    BY DEF BuiltinsNotShadowed
  <2>1. CASE kind = "guards"
    <3>1. p.guards # Null /\ eng'.guards = Resolved("guards", p.guards)
      BY <1>1, <2>1, RebuiltParts
    <3>2. i \in DOMAIN p.guards /\ ~Unresolved("guards", p.guards)
      BY <1>1, <2>1, <3>1 DEF Resolved, Refused
    <3> QED
      BY <2>1, <3>1, <3>2, ResolvedBuiltin
  <2>2. CASE kind = "verifiers"
    <3>1. p.verifiers # Null /\ eng'.verifiers = Resolved("verifiers", p.verifiers)
      BY <1>1, <2>2, RebuiltParts
    <3>2. i \in DOMAIN p.verifiers /\ ~Unresolved("verifiers", p.verifiers)
      BY <1>1, <2>2, <3>1 DEF Resolved, Refused
    <3> QED
      BY <2>2, <3>1, <3>2, ResolvedBuiltin
  <2> QED
    BY <2>1, <2>2
<1>5. Shape'
  BY <1>1, RebuiltParts DEF Shape
<1>6. Scoped'
  <2>1. eng'.scope = p.scope
    BY <1>1, RebuiltParts
  <2>2. eng'.scope \in {Null} \cup Scopes
    BY <2>1, ScopeOfRequest
  <2> QED
    BY <2>2 DEF Scoped, Scopes, NoBudget
<1> QED
  BY <1>2, <1>3, <1>4, <1>5, <1>6 DEF Inv

LEMMA ScopedStays ==
  ASSUME Scoped, eng'.scope = eng.scope
  PROVE  Scoped'
<1>1. Scopes' = Scopes
  BY DEF Scopes, NoBudget
<1>2. eng.scope \in {Null} \cup Scopes
  BY DEF Scoped
<1> QED
  BY <1>1, <1>2 DEF Scoped

LEMMA RegisterToolKeeps ==
  ASSUME Inv, NEW t \in Tools, RegisterTool(t)
  PROVE  Inv'
<1> USE DEF Inv
<1>1. /\ eng' = [eng EXCEPT !.tools = Append(eng.tools, t)] /\ child' = child
      /\ t \notin ToSet(eng.tools)
  BY DEF RegisterTool
<1>2. /\ eng'.tools = Append(eng.tools, t)
      /\ \A f \in Fields \ {"tools"} : eng'[f] = eng[f]
      /\ DOMAIN eng' = Fields /\ eng' = [f \in Fields |-> eng'[f]]
  BY <1>1 DEF Shape, Fields
<1>3. Names'
  <2>1. eng'.tools \in Seq(Tools)
    BY <1>2, AppendProperties DEF Names
  <2>2. \A i \in 1..Len(eng.tools) : eng.tools[i] # t
    BY <1>1 DEF ToSet, Names
  <2>3. IsInjective(eng'.tools)
    BY <1>2, <2>2, AppendProperties DEF Names, IsInjective
  <2> QED
    BY <2>1, <2>3 DEF Names
<1>4. Inherits'
  BY <1>1, <1>2 DEF Inherits, Fields
<1>5. BuiltinsNotShadowed'
  BY <1>2 DEF BuiltinsNotShadowed, Fields
<1>6. Scoped'
  BY <1>2, ScopedStays DEF Fields
<1> QED
  BY <1>2, <1>3, <1>4, <1>5, <1>6 DEF Shape

LEMMA RegisterKeeps ==
  ASSUME Inv, NEW kind, NEW batch, Register(kind, batch)
  PROVE  Inv'
<1>1. eng' = eng /\ child' = child
  BY DEF Register
<1> QED
  BY <1>1, ScopedStays DEF Inv, Names, Inherits, BuiltinsNotShadowed, Shape

LEMMA ForkKeeps ==
  ASSUME Inv, Fork
  PROVE  Inv'
<1>1. eng' = eng /\ child' = Forked(eng)
  BY DEF Fork
<1>2. /\ Forked(eng).permission = eng.permission /\ ~Forked(eng).approver
      /\ Forked(eng).guards = eng.guards /\ Forked(eng).verifiers = eng.verifiers
      /\ ~Forked(eng).delegate /\ ~Forked(eng).coordinator
  BY DEF Forked, Default
<1>3. Inherits'
  BY <1>1, <1>2 DEF Inherits
<1> QED
  BY <1>1, <1>3, ScopedStays DEF Inv, Names, BuiltinsNotShadowed, Shape

LEMMA ReturnKeeps ==
  ASSUME Inv, ChildReturns \/ UNCHANGED vars
  PROVE  Inv'
BY ScopedStays DEF Inv, ChildReturns, vars, Names, Inherits, BuiltinsNotShadowed, Shape

\* The invariant behind every other theorem here.
THEOREM Invariant == Spec => []Inv
<1>1. Init => Inv
  BY InitHolds
<1>2. Inv /\ [Next]_vars => Inv'
  BY ConfigureKeeps, RegisterToolKeeps, RegisterKeeps, ForkKeeps, ReturnKeeps DEF Next
<1> QED
  BY <1>1, <1>2, PTL DEF Spec

----------------------------------------------------------------------------

\* A sub-agent is permitted no tool that its parent is not, and checked by the
\* same guards and verifiers, whatever was configured and whatever the parent's
\* user would answer (engine.go:187-226).
THEOREM ChildIsNoFreer == Spec => []ChildNoFreer
<1>1. Inv => ChildNoFreer
  BY DEF Inv, Inherits, ChildNoFreer, Allowed
<1> QED
  BY <1>1, Invariant, PTL

\* Forking an engine never panics (engine.go:257-266).
THEOREM ForksDoNotPanic == Spec => []ForkNeverPanics
<1>1. Forked(eng).tools = eng.tools
  BY DEF Forked, Default
<1>2. Inv => ForkNeverPanics
  BY <1>1 DEF Inv, Names, ForkNeverPanics, Panics
<1> QED
  BY <1>1, <1>2, Invariant, PTL

\* No registration puts itself in the place of a built-in guard or verifier
\* (configure.go:298-349).
THEOREM BuiltinsAnswer == Spec => []BuiltinsNotShadowed
<1>1. Inv => BuiltinsNotShadowed
  BY DEF Inv
<1> QED
  BY <1>1, Invariant, PTL

LEMMA ScopeHolds ==
  ASSUME Names, Scoped
  PROVE  OfferedInScope
<1> SUFFICES ASSUME NEW calls \in [Tools -> 0..1], eng.scope # Null,
                    \A t \in Tools : eng.scope.budget[t] # 0
             PROVE  LET offered == ToSet(Offered(eng, calls))
                        within == {t \in ToSet(eng.tools) :
                                     eng.scope.budget[t] # 1 \/ calls[t] = 0}
                        always == within \cap eng.scope.always
                    IN /\ offered \subseteq within /\ always \subseteq offered
                       /\ offered # within =>
                            Cardinality(offered) =
                              IF eng.scope.max < Cardinality(always) THEN Cardinality(always)
                              ELSE eng.scope.max
  BY DEF OfferedInScope
<1> DEFINE max == eng.scope.max
           W == {t \in Tools : ~Exhausted(eng.scope, t, calls)}
           within == Kept(eng.tools, W)
           always == Kept(within, eng.scope.always)
           rest == Kept(within, Tools \ eng.scope.always)
           room == IF max < Len(always) THEN 0 ELSE max - Len(always)
           Inside == {t \in ToSet(eng.tools) : eng.scope.budget[t] # 1 \/ calls[t] = 0}
<1>1. /\ eng.tools \in Seq(Tools) /\ IsInjective(eng.tools) /\ ToSet(eng.tools) \subseteq Tools
      /\ max \in Nat /\ eng.scope.always \subseteq Tools
      /\ \A t \in Tools : eng.scope.budget[t] \in {Null, 1}
  <2>1. eng.scope \in Scopes
    BY DEF Scoped
  <2>2. max \in Nat /\ eng.scope.always \subseteq Tools
    BY <2>1 DEF Scopes
  <2>3. eng.scope.budget \in {NoBudget} \cup {[NoBudget EXCEPT ![t] = n] : t \in Tools, n \in 0..1}
    BY <2>1 DEF Scopes
  <2>4. \A t \in Tools : eng.scope.budget[t] \in {Null, 1}
    BY <2>3 DEF NoBudget
  <2>5. ToSet(eng.tools) \subseteq Tools
    BY ElementOfSeq DEF Names, ToSet
  <2> QED
    BY <2>2, <2>4, <2>5 DEF Names
<1>2. /\ within \in Seq(Tools) /\ IsInjective(within)
      /\ ToSet(within) = ToSet(eng.tools) \cap W
  BY <1>1, KeptProperties
<1>3. ToSet(within) = Inside
  <2>1. \A t \in Tools : Exhausted(eng.scope, t, calls) <=>
                           ~(eng.scope.budget[t] # 1 \/ calls[t] = 0)
    <3> SUFFICES ASSUME NEW t \in Tools
                 PROVE  Exhausted(eng.scope, t, calls) <=>
                          ~(eng.scope.budget[t] # 1 \/ calls[t] = 0)
      OBVIOUS
    <3>1. CASE eng.scope.budget[t] = Null
      BY <3>1, NullAssumption DEF Exhausted
    <3>2. CASE eng.scope.budget[t] = 1
      BY <3>2, NullAssumption DEF Exhausted
    <3> QED
      BY <1>1, <3>1, <3>2
  <2> QED
    BY <1>1, <1>2, <2>1
<1> HIDE DEF within, W
<1>4. /\ always \in Seq(Tools) /\ IsInjective(always)
      /\ ToSet(always) = ToSet(within) \cap eng.scope.always
      /\ rest \in Seq(Tools) /\ IsInjective(rest)
      /\ ToSet(rest) = ToSet(within) \cap (Tools \ eng.scope.always)
  BY <1>2, KeptProperties
<1> HIDE DEF always, rest
<1>5. ToSet(within) \subseteq Tools
  BY <1>1, <1>3
<1>6. ToSet(rest) = ToSet(within) \ ToSet(always) /\ ToSet(always) \subseteq ToSet(within)
  BY <1>4, <1>5
<1>7. /\ IsFiniteSet(ToSet(within)) /\ Cardinality(ToSet(within)) = Len(within)
      /\ IsFiniteSet(ToSet(always)) /\ Cardinality(ToSet(always)) = Len(always)
      /\ Cardinality(ToSet(rest)) = Len(rest)
      /\ Len(within) \in Nat /\ Len(always) \in Nat /\ Len(rest) \in Nat
  <2>1. IsFiniteSet(ToSet(within)) /\ Cardinality(ToSet(within)) = Len(within)
    BY <1>2, LenOfInjective
  <2>2. IsFiniteSet(ToSet(always)) /\ Cardinality(ToSet(always)) = Len(always)
    BY <1>4, LenOfInjective
  <2>3. Cardinality(ToSet(rest)) = Len(rest)
    BY <1>4, LenOfInjective
  <2> QED
    BY <1>2, <1>4, <2>1, <2>2, <2>3
<1>8. Len(rest) = Len(within) - Len(always)
  <2>1. Cardinality(ToSet(within) \ ToSet(always)) =
          Cardinality(ToSet(within)) - Cardinality(ToSet(within) \cap ToSet(always))
    BY <1>7, FS_Difference
  <2>2. ToSet(within) \cap ToSet(always) = ToSet(always)
    BY <1>6
  <2> QED
    BY <1>6, <1>7, <2>1, <2>2
<1>9. Offered(eng, calls) = IF max = 0 \/ max >= Len(within) THEN within
                            ELSE always \o SubSeq(rest, 1, room)
  BY DEF Offered, within, always, rest, W
<1>10. CASE max = 0 \/ max >= Len(within)
  <2>1. ToSet(Offered(eng, calls)) = Inside
    BY <1>3, <1>9, <1>10
  <2> HIDE DEF Inside, max
  <2>2. Inside \cap eng.scope.always \subseteq Inside
    OBVIOUS
  <2> QED
    BY <2>1, <2>2 DEF Inside
<1>11. CASE ~(max = 0 \/ max >= Len(within))
  <2> DEFINE front == SubSeq(rest, 1, room)
             offered == always \o front
  <2>1. room \in 0..Len(rest)
    BY <1>1, <1>7, <1>8, <1>11
  <2>2. /\ front \in Seq(Tools) /\ IsInjective(front) /\ Len(front) = room
        /\ ToSet(front) \subseteq ToSet(rest)
    <3> HIDE DEF room
    <3> QED
      BY <1>4, <2>1, FrontIsInjective
  <2> HIDE DEF front
  <2>3. ToSet(always) \cap ToSet(front) = {}
    BY <1>6, <2>2
  <2>4. /\ offered \in Seq(Tools) /\ IsInjective(offered)
        /\ ToSet(offered) = ToSet(always) \cup ToSet(front)
    BY <1>4, <2>2, <2>3, ConcatDisjoint
  <2>5. Len(offered) = Len(always) + room
    <3>1. always \in Seq(Tools) /\ front \in Seq(Tools)
      BY <1>4, <2>2
    <3>2. Len(always \o front) = Len(always) + Len(front)
      BY <3>1, ConcatProperties
    <3> QED
      BY <2>2, <3>2
  <2> HIDE DEF offered
  <2>6. Cardinality(ToSet(offered)) = Len(always) + room
    BY <2>4, <2>5, LenOfInjective
  <2>7. Cardinality(ToSet(offered)) = IF max < Len(always) THEN Len(always) ELSE max
    BY <1>1, <1>7, <2>6
  <2>8. ToSet(offered) \subseteq Inside /\ ToSet(always) \subseteq ToSet(offered)
        /\ ToSet(always) = Inside \cap eng.scope.always
    <3> HIDE DEF Inside
    <3> QED
      BY <1>3, <1>4, <1>6, <2>2, <2>4
  <2>9. Offered(eng, calls) = offered
    BY <1>9, <1>11 DEF offered, front
  <2>10. Cardinality(Inside \cap eng.scope.always) = Len(always)
    BY <1>7, <2>8
  <2> HIDE DEF max, Inside
  <2>11. /\ ToSet(Offered(eng, calls)) \subseteq Inside
         /\ Inside \cap eng.scope.always \subseteq ToSet(Offered(eng, calls))
         /\ Cardinality(ToSet(Offered(eng, calls))) =
              IF max < Cardinality(Inside \cap eng.scope.always)
              THEN Cardinality(Inside \cap eng.scope.always) ELSE max
    BY <2>7, <2>8, <2>9, <2>10
  <2> QED
    BY <2>11 DEF Inside, max
<1> QED
  BY <1>10, <1>11

\* A tool scope hides from the router what is used up and what finds no room, and
\* nothing else, where no budget of 0 is given (registry.go:93-137).
THEOREM OfferedIsInScope == Spec => []OfferedInScope
<1>1. Inv => OfferedInScope
  BY ScopeHolds DEF Inv
<1> QED
  BY <1>1, Invariant, PTL

----------------------------------------------------------------------------
(* What agent.configure carries over.                                      *)

LEMMA PrefixOfItself ==
  ASSUME NEW s \in Seq(Tools)
  PROVE  IsPrefix(s, s)
BY DEF IsPrefix

LEMMA PrefixOfLonger ==
  ASSUME NEW s \in Seq(Tools), NEW t \in Tools
  PROVE  IsPrefix(s, Append(s, t))
<1>1. Len(Append(s, t)) = Len(s) + 1 /\ Len(s) \in Nat
  BY AppendProperties
<1>2. SubSeq(Append(s, t), 1, Len(s)) = SubSeq(s, 1, Len(s))
  BY <1>1, AppendProperties
<1> QED
  BY <1>1, <1>2 DEF IsPrefix

LEMMA ConfigureCarriesOver ==
  ASSUME Inv, NEW p, Configure(p)
  PROVE  /\ IsPrefix(eng.tools, eng'.tools)
         /\ \A b \in {"loop", "router", "judge", "llm"} : eng'[b] # eng[b] => b \in given'
<1>1. eng' = Rebuilt(p) /\ given' = {b \in Blocks : p[b] # Null}
  BY DEF Configure
<1>2. {"loop", "router", "judge", "llm"} \subseteq Blocks
  BY DEF Blocks, BlockValues
<1>3. eng'.tools = eng.tools
  BY <1>1, RebuiltParts
<1>4. IsPrefix(eng.tools, eng'.tools)
  BY <1>3, PrefixOfItself DEF Inv, Names
<1>5. /\ eng'.loop # eng.loop => p.loop # Null
      /\ eng'.router # eng.router => p.router # Null
      /\ eng'.judge # eng.judge => p.judge # Null
  BY <1>1, RebuiltParts DEF Named
<1>6. eng'.llm # eng.llm => p.llm # Null
  BY <1>1, RebuiltParts, NullAssumption
<1> QED
  BY <1>1, <1>2, <1>4, <1>5, <1>6

\* Tools, driver, loop, router and judge survive every agent.configure that
\* does not name them (configure.go:251-283).
THEOREM PartsAreCarriedOver == Spec => PartsCarriedOver
<1> DEFINE Survives ==
      /\ IsPrefix(eng.tools, eng'.tools)
      /\ \A b \in {"loop", "router", "judge", "llm"} : eng'[b] # eng[b] => b \in given'
<1>1. Inv /\ [Next]_vars => [Survives]_vars
  <2> SUFFICES ASSUME Inv, Next PROVE Survives
    OBVIOUS
  <2>1. ASSUME eng' = eng PROVE Survives
    BY <2>1, PrefixOfItself DEF Inv, Names
  <2>2. ASSUME NEW t \in Tools, RegisterTool(t) PROVE Survives
    <3>1. eng'.tools = Append(eng.tools, t)
          /\ \A b \in {"loop", "router", "judge", "llm"} : eng'[b] = eng[b]
      BY <2>2 DEF RegisterTool, Inv, Shape, Fields
    <3> QED
      BY <3>1, PrefixOfLonger DEF Inv, Names
  <2>3. ASSUME NEW p, Configure(p) PROVE Survives
    BY <2>3, ConfigureCarriesOver
  <2> QED
    BY <2>1, <2>2, <2>3 DEF Next, Register, Fork, ChildReturns
<1> QED
  BY <1>1, Invariant, PTL DEF Spec, PartsCarriedOver

----------------------------------------------------------------------------
(* ContextManager: the sum of the sizes.                                   *)

\* f holds the sizes of the first messages together, of none to all n.
Sums(es, n, f) ==
  f \in [0..n -> Nat] /\ f[0] = 0 /\ \A i \in 1..n : f[i] = f[i - 1] + es[i].size

LEMMA SumsExist ==
  ASSUME NEW es, NEW n \in Nat, \A i \in 1..n : es[i].size \in Nat
  PROVE  \E f \in [0..n -> Nat] : Sums(es, n, f)
<1> DEFINE F == [i \in 1..n |-> [v \in Nat |-> v + es[i].size]]
<1>1. F \in [1..n -> [Nat -> Nat]]
  OBVIOUS
<1>2. PICK f \in [0..n -> Nat] : Iterates(f, 0, n, F)
  <2> HIDE DEF F
  <2> QED
    BY <1>1, RecursionHasValues
<1>3. \A i \in 1..n : f[i] = f[i - 1] + es[i].size
  <2> SUFFICES ASSUME NEW i \in 1..n PROVE f[i] = f[i - 1] + es[i].size
    OBVIOUS
  <2>1. f[i] = F[i][f[i - 1]]
    BY <1>2 DEF Iterates
  <2>2. i - 1 \in 0..n
    OBVIOUS
  <2>3. f[i - 1] \in Nat
    BY <2>2
  <2> QED
    BY <2>1, <2>3
<1> QED
  BY <1>2, <1>3 DEF Sums, Iterates

LEMMA SumsAgree ==
  ASSUME NEW es, NEW fs, NEW n \in Nat, NEW m \in Nat, NEW f, NEW g, n <= m,
         Sums(es, n, f), Sums(fs, m, g), \A i \in 1..n : fs[i].size = es[i].size
  PROVE  f[n] = g[n]
<1> DEFINE T == {k \in Nat : k <= n => f[k] = g[k]}
<1>1. 0 \in T
  BY DEF Sums
<1>2. ASSUME NEW k \in T PROVE k + 1 \in T
  <2> SUFFICES ASSUME k + 1 <= n PROVE f[k + 1] = g[k + 1]
    OBVIOUS
  <2>1. f[k] = g[k] /\ k + 1 \in 1..n /\ k + 1 \in 1..m /\ (k + 1) - 1 = k
    OBVIOUS
  <2>2. f[k + 1] = f[k] + es[k + 1].size /\ g[k + 1] = g[k] + fs[k + 1].size
    BY <2>1 DEF Sums
  <2> QED
    BY <2>1, <2>2
<1>3. T = Nat
  <2> HIDE DEF T
  <2>1. T \subseteq Nat
    BY DEF T
  <2> QED
    BY <1>1, <1>2, <2>1, Counting
<1> QED
  BY <1>3

\* The recursive function in Total is the one that the recursion describes.
LEMMA TotalIsSum ==
  ASSUME NEW es, Len(es) \in Nat, \A i \in 1..Len(es) : es[i].size \in Nat
  PROVE  \E f : Sums(es, Len(es), f) /\ Total(es) = f[Len(es)]
<1> DEFINE P(f) == f = [i \in 0..Len(es) |-> IF i = 0 THEN 0 ELSE f[i - 1] + es[i].size]
           total == CHOOSE f : P(f)
<1>1. PICK f \in [0..Len(es) -> Nat] : Sums(es, Len(es), f)
  BY SumsExist
<1>2. P(f)
  BY <1>1 DEF Sums
<1>3. P(total)
  BY <1>2
<1>4. Total(es) = total[Len(es)]
  BY DEF Total
<1> HIDE DEF total
<1>5. total[0] = 0 /\ DOMAIN total = 0..Len(es)
  BY <1>3
<1>6. \A i \in 1..Len(es) : total[i] = total[i - 1] + es[i].size
  BY <1>3
<1>7. total \in [0..Len(es) -> Nat]
  <2> DEFINE T == {k \in Nat : k <= Len(es) => total[k] \in Nat}
  <2>1. 0 \in T
    BY <1>5
  <2>2. ASSUME NEW k \in T PROVE k + 1 \in T
    <3> SUFFICES ASSUME k + 1 <= Len(es) PROVE total[k + 1] \in Nat
      OBVIOUS
    <3>1. total[k + 1] = total[k] + es[k + 1].size
      BY <1>6
    <3> QED
      BY <3>1
  <2>3. T = Nat
    <3> HIDE DEF T
    <3>1. T \subseteq Nat
      BY DEF T
    <3> QED
      BY <2>1, <2>2, <3>1, Counting
  <2>4. \A k \in 0..Len(es) : total[k] \in Nat
    BY <2>3
  <2>5. total = [i \in 0..Len(es) |-> total[i]]
    BY <1>3
  <2> QED
    BY <2>4, <2>5
<1> QED
  BY <1>4, <1>5, <1>6, <1>7 DEF Sums

LEMMA TotalType ==
  ASSUME NEW es, Len(es) \in Nat, \A i \in 1..Len(es) : es[i].size \in Nat
  PROVE  Total(es) \in Nat
BY TotalIsSum DEF Sums

LEMMA TotalOfNone == Total(<<>>) = 0
<1>1. Len(<<>>) = 0 /\ \A i \in 1..0 : <<>>[i].size \in Nat
  OBVIOUS
<1> QED
  BY <1>1, TotalIsSum DEF Sums

LEMMA TotalOfAppend ==
  ASSUME NEW S, NEW es \in Seq(S), NEW m \in S, \A x \in S : x.size \in Nat
  PROVE  Total(Append(es, m)) = Total(es) + m.size
<1> DEFINE fs == Append(es, m)
           n == Len(es)
<1>1. /\ n \in Nat /\ Len(fs) = n + 1 /\ fs[n + 1] = m
      /\ \A i \in 1..n : fs[i] = es[i]
      /\ \A i \in 1..n : es[i].size \in Nat
      /\ \A i \in 1..(n + 1) : fs[i].size \in Nat
  BY AppendProperties, ElementOfSeq
<1>2. PICK f : Sums(es, n, f) /\ Total(es) = f[n]
  BY <1>1, TotalIsSum
<1>3. PICK g : Sums(fs, n + 1, g) /\ Total(fs) = g[n + 1]
  <2> HIDE DEF fs
  <2> QED
    BY <1>1, TotalIsSum
<1>4. f[n] = g[n]
  <2> HIDE DEF fs, n
  <2>1. n <= n + 1 /\ n + 1 \in Nat /\ \A i \in 1..n : fs[i].size = es[i].size
    BY <1>1
  <2> QED
    BY <1>1, <1>2, <1>3, <2>1, SumsAgree
<1>5. g[n + 1] = g[(n + 1) - 1] + fs[n + 1].size
  <2> HIDE DEF fs
  <2> QED
    BY <1>1, <1>3 DEF Sums
<1> QED
  BY <1>1, <1>2, <1>3, <1>4, <1>5

----------------------------------------------------------------------------
(* ContextManager: histories.                                              *)

Roles == {"user", "assistant", "tool"}
Texts == {"whole", "call", "trimmed", "masked", "marker", "summary"}
Messages == [role : Roles, text : Texts, id : Nat, of : Nat, size : Nat]

\* The result at i answers the call at c.
Pair(es, c, i) == c < i /\ es[c].text = "call" /\ es[i].of = es[c].id

\* Names are those written so far; only an assistant calls, only a tool answers,
\* and no two calls have one name.
WellFormed(es, w) ==
  /\ es \in Seq(Messages) /\ w \in Nat
  /\ \A i \in 1..Len(es) : es[i].id <= w /\ es[i].of <= w
  /\ \A i \in 1..Len(es) : es[i].text = "call" => es[i].role = "assistant" /\ es[i].id > 0
  /\ \A i \in 1..Len(es) : es[i].role # "tool" => es[i].of = 0
  /\ \A c, d \in 1..Len(es) :
       es[c].text = "call" /\ es[d].text = "call" /\ es[c].id = es[d].id => c = d

\* Of two pairs that begin one after the other the second has not begun before
\* the first is complete, or is complete before the first.
NoneCross(es) ==
  \A c, d, i, j \in 1..Len(es) :
    c < d /\ d < i /\ i < j => ~(Pair(es, c, i) /\ Pair(es, d, j))

LEMMA Constants ==
  /\ Threshold \in Nat /\ Target \in Nat /\ KeepLast \in Nat /\ Budget \in Nat
  /\ MaxMessages \in Nat /\ TrimmedSize \in Nat /\ MaskedSize \in Nat
  /\ MarkerSize \in Nat /\ SummarySize \in Nat
  /\ \A s \in Sizes : s \in Nat
  /\ \A r \in Reserves : r \in Nat
BY SizesAssumption

----------------------------------------------------------------------------
(* Where adjustKeepBoundary cuts. *)

LEMMA CutFound ==
  ASSUME NEW es \in Seq(Messages), KeepLast < Len(es)
  PROVE  /\ adjustKeepBoundary(es) \in 0..(Len(es) - KeepLast)
         /\ \A c \in findToolCallAssistant(es, Len(es) - KeepLast) :
              adjustKeepBoundary(es) <= c - 1
         /\ \/ adjustKeepBoundary(es) = Len(es) - KeepLast
            \/ \E c \in findToolCallAssistant(es, Len(es) - KeepLast) :
                 adjustKeepBoundary(es) = c - 1
<1> DEFINE k == Len(es) - KeepLast
           F == findToolCallAssistant(es, k)
           S == {k} \cup {c - 1 : c \in F}
<1>1. Len(es) \in Nat /\ k \in Nat /\ F \subseteq 1..Len(es)
  BY Constants DEF findToolCallAssistant
<1> HIDE DEF F
<1>2. S \in SUBSET Nat /\ S # {}
  BY <1>1
<1>3. Min(S) \in S /\ \A n \in S : Min(S) <= n
  BY <1>2, MinIsLeast
<1>4. adjustKeepBoundary(es) = Min(S)
  BY <1>1, Constants DEF adjustKeepBoundary, F
<1>5. \A c \in F : c - 1 \in S
  OBVIOUS
<1>6. k \in S
  OBVIOUS
<1> HIDE DEF k
<1>7. Min(S) \in Nat /\ Min(S) <= k
  BY <1>2, <1>3, <1>6
<1>8. \A c \in F : Min(S) <= c - 1
  BY <1>3, <1>5
<1>9. Min(S) = k \/ \E c \in F : Min(S) = c - 1
  BY <1>3
<1> HIDE DEF S
<1>10. /\ adjustKeepBoundary(es) \in 0..k
       /\ \A c \in F : adjustKeepBoundary(es) <= c - 1
       /\ adjustKeepBoundary(es) = k \/ \E c \in F : adjustKeepBoundary(es) = c - 1
  BY <1>1, <1>4, <1>7, <1>8, <1>9
<1> QED
  BY <1>10 DEF k, F

LEMMA NoCut ==
  ASSUME NEW es \in Seq(Messages), KeepLast >= Len(es)
  PROVE  adjustKeepBoundary(es) = 0
BY DEF adjustKeepBoundary

LEMMA CutRange ==
  ASSUME NEW es \in Seq(Messages)
  PROVE  /\ adjustKeepBoundary(es) \in Nat
         /\ adjustKeepBoundary(es) # 0 => adjustKeepBoundary(es) + KeepLast <= Len(es)
<1>1. Len(es) \in Nat /\ KeepLast \in Nat
  BY Constants
<1>2. CASE KeepLast >= Len(es)
  BY <1>2, NoCut
<1>3. CASE KeepLast < Len(es)
  BY <1>1, <1>3, CutFound
<1> QED
  BY <1>1, <1>2, <1>3

\* The cut is where the search ends: behind it no result is left alone.
LEMMA CutSeparatesNone ==
  ASSUME NEW es, NEW w, WellFormed(es, w), NoneCross(es)
  PROVE  ~Separates(es, adjustKeepBoundary(es))
<1> DEFINE a == adjustKeepBoundary(es)
           k == Len(es) - KeepLast
<1>1. es \in Seq(Messages) /\ Len(es) \in Nat /\ KeepLast \in Nat
  BY Constants DEF WellFormed
<1>2. CASE KeepLast >= Len(es)
  BY <1>1, <1>2, NoCut DEF Separates
<1>3. CASE KeepLast < Len(es)
  <2>1. /\ a \in 0..k /\ k \in Nat /\ k <= Len(es)
        /\ \A c \in findToolCallAssistant(es, k) : a <= c - 1
        /\ a = k \/ \E c \in findToolCallAssistant(es, k) : a = c - 1
    BY <1>1, <1>3, CutFound
  <2> HIDE DEF a, k
  <2> SUFFICES ASSUME NEW c \in 1..a, NEW i \in (a + 1)..Len(es),
                      es[c].text = "call", es[i].of = es[c].id
               PROVE  FALSE
    BY DEF Separates, a
  <2>2. c \in 1..Len(es) /\ i \in 1..Len(es) /\ c < i
    BY <1>1, <2>1
  <2>3. CASE i > k
    <3>1. c \in findToolCallAssistant(es, k)
      BY <2>1, <2>2, <2>3, <1>1 DEF findToolCallAssistant
    <3> QED
      BY <2>1, <3>1
  <2>4. CASE i <= k
    <3>1. PICK d \in findToolCallAssistant(es, k) : a = d - 1
      BY <2>1, <2>4
    <3>2. PICK j \in (k + 1)..Len(es) : d < j /\ es[j].of = es[d].id
      BY <3>1 DEF findToolCallAssistant
    <3>3. d \in 1..Len(es) /\ es[d].text = "call"
      BY <3>1 DEF findToolCallAssistant
    <3>4. es[i].role = "tool" /\ es[d].role = "assistant"
      <4>1. es[i].of > 0 /\ es[d].role = "assistant"
        BY <1>1, <2>2, <3>3 DEF WellFormed
      <4> QED
        BY <4>1, <2>2 DEF WellFormed
    <3>5. i # d
      BY <3>4
    <3>6. c < d /\ d < i /\ i < j /\ j \in 1..Len(es)
      BY <1>1, <2>1, <2>2, <2>4, <3>1, <3>2, <3>3, <3>5
    <3> QED
      BY <2>2, <3>2, <3>3, <3>6 DEF NoneCross, Pair
  <2> QED
    BY <1>1, <2>1, <2>3, <2>4
<1> QED
  BY <1>1, <1>2, <1>3

\* A cut further on would leave fewer than KeepLast messages or separate a pair.
LEMMA NoBetterCut ==
  ASSUME NEW es \in Seq(Messages), NEW b \in Nat,
         b > adjustKeepBoundary(es), b + KeepLast <= Len(es)
  PROVE  Separates(es, b)
<1> DEFINE a == adjustKeepBoundary(es)
           k == Len(es) - KeepLast
<1>1. Len(es) \in Nat /\ KeepLast \in Nat /\ a \in Nat
  BY Constants, CutRange
<1>2. KeepLast < Len(es)
  BY <1>1
<1>3. /\ a \in 0..k /\ k \in Nat /\ k <= Len(es)
      /\ a = k \/ \E c \in findToolCallAssistant(es, k) : a = c - 1
  BY <1>1, <1>2, CutFound
<1>4. PICK c \in findToolCallAssistant(es, k) : a = c - 1
  BY <1>1, <1>3
<1>5. PICK i \in (k + 1)..Len(es) : c < i /\ es[i].of = es[c].id
  BY <1>4 DEF findToolCallAssistant
<1>6. c \in 1..Len(es) /\ es[c].text = "call"
  BY <1>4 DEF findToolCallAssistant
<1>7. c \in 1..b /\ i \in (b + 1)..Len(es)
  BY <1>1, <1>3, <1>4, <1>5, <1>6
<1> QED
  BY <1>5, <1>6, <1>7 DEF Separates

\* adjustKeepBoundary finds the best cut there is (compaction.go: its comment).
THEOREM CutIsBest ==
  ASSUME NEW es, NEW w, WellFormed(es, w), NoneCross(es)
  PROVE  adjustKeepBoundary(es) = BestCut(es)
<1> DEFINE a == adjustKeepBoundary(es)
           S == {0} \cup {cut \in 1..Len(es) : cut + KeepLast <= Len(es) /\ ~Separates(es, cut)}
<1>1. es \in Seq(Messages) /\ Len(es) \in Nat /\ KeepLast \in Nat
  BY Constants DEF WellFormed
<1>2. a \in Nat /\ (a # 0 => a + KeepLast <= Len(es)) /\ ~Separates(es, a)
  BY <1>1, CutRange, CutSeparatesNone
<1>3. \A b \in Nat : b > a /\ b + KeepLast <= Len(es) => Separates(es, b)
  BY <1>1, NoBetterCut
<1> HIDE DEF a
<1>4. a \in S
  BY <1>1, <1>2
<1>5. \A b \in S : b <= a /\ b \in Nat
  BY <1>1, <1>2, <1>3
<1>6. Max(S) \in S /\ \A b \in S : Max(S) >= b
  <2> HIDE DEF S
  <2>1. S \in SUBSET Nat /\ S # {}
    BY <1>4, <1>5
  <2> QED
    BY <1>2, <1>5, <2>1, MaxIsGreatest
<1>7. Max(S) = a
  <2> HIDE DEF S
  <2>1. Max(S) <= a /\ Max(S) \in Nat
    BY <1>5, <1>6
  <2>2. Max(S) >= a
    BY <1>4, <1>6
  <2> QED
    BY <1>2, <2>1, <2>2
<1> QED
  BY <1>7 DEF BestCut, a

----------------------------------------------------------------------------
(* What the stages of the cascade leave.                                   *)

SameShape(es, fs) ==
  /\ fs \in Seq(Messages) /\ Len(fs) = Len(es)
  /\ \A i \in 1..Len(es) :
       /\ fs[i].id = es[i].id /\ fs[i].of = es[i].of /\ fs[i].role = es[i].role
       /\ (fs[i].text = "call") = (es[i].text = "call")

LEMMA SameShapeKeeps ==
  ASSUME NEW es, NEW fs, NEW w, WellFormed(es, w), NoneCross(es), SameShape(es, fs)
  PROVE  WellFormed(fs, w) /\ NoneCross(fs) /\ Orphans(fs) = Orphans(es)
<1>1. es \in Seq(Messages) /\ Len(es) \in Nat
  BY DEF WellFormed
<1>2. WellFormed(fs, w)
  BY <1>1 DEF WellFormed, SameShape
<1>3. \A c, i \in 1..Len(es) : Pair(fs, c, i) <=> Pair(es, c, i)
  BY DEF Pair, SameShape
<1>4. NoneCross(fs)
  BY <1>3 DEF NoneCross, SameShape
<1>5. Orphans(fs) = Orphans(es)
  <2> DEFINE Alone(ss, j) ==
        /\ ss[j].role = "tool"
        /\ ~\E c \in 1..(j - 1) : ss[c].text = "call" /\ ss[c].id = ss[j].of
  <2>1. \A j \in 1..Len(es) : Alone(fs, j) <=> Alone(es, j)
    <3> SUFFICES ASSUME NEW j \in 1..Len(es) PROVE Alone(fs, j) <=> Alone(es, j)
      OBVIOUS
    <3>1. \A c \in 1..(j - 1) : c \in 1..Len(es)
      BY <1>1
    <3>2. \A c \in 1..(j - 1) :
            fs[c].text = "call" /\ fs[c].id = fs[j].of <=>
            es[c].text = "call" /\ es[c].id = es[j].of
      BY <3>1 DEF SameShape
    <3> QED
      BY <3>2 DEF SameShape
  <2>2. {j \in 1..Len(fs) : Alone(fs, j)} = {j \in 1..Len(es) : Alone(es, j)}
    BY <2>1 DEF SameShape
  <2>3. \A j \in 1..Len(es) : fs[j].id = es[j].id
    BY DEF SameShape
  <2> HIDE DEF Alone
  <2>4. {fs[i].id : i \in {j \in 1..Len(fs) : Alone(fs, j)}} =
        {es[i].id : i \in {j \in 1..Len(es) : Alone(es, j)}}
    BY <2>2, <2>3
  <2> QED
    BY <2>4 DEF Orphans, Alone
<1> QED
  BY <1>2, <1>4, <1>5

LEMMA TrimShape ==
  ASSUME NEW es \in Seq(Messages)
  PROVE  SameShape(es, budgetTrim(es))
<1> DEFINE fs == budgetTrim(es)
<1>1. Len(es) \in Nat /\ \A i \in 1..Len(es) : es[i] \in Messages
  BY ElementOfSeq
<1>2. Len(fs) = Len(es) /\ DOMAIN fs = 1..Len(es)
  BY <1>1 DEF budgetTrim
<1>3. \A i \in 1..Len(es) :
        /\ fs[i] \in Messages
        /\ fs[i].id = es[i].id /\ fs[i].of = es[i].of /\ fs[i].role = es[i].role
        /\ (fs[i].text = "call") = (es[i].text = "call")
  <2> SUFFICES ASSUME NEW i \in 1..Len(es)
               PROVE  /\ fs[i] \in Messages
                      /\ fs[i].id = es[i].id /\ fs[i].of = es[i].of /\ fs[i].role = es[i].role
                      /\ (fs[i].text = "call") = (es[i].text = "call")
    OBVIOUS
  <2>1. es[i] \in Messages
    BY <1>1
  <2>2. CASE fs[i] = es[i]
    BY <2>1, <2>2
  <2>3. CASE /\ fs[i] = [es[i] EXCEPT !.text = "trimmed", !.size = TrimmedSize]
             /\ es[i].role = "tool" /\ es[i].text = "whole"
    BY <2>1, <2>3, Constants DEF Messages, Texts
  <2> QED
    BY <2>2, <2>3 DEF budgetTrim
<1>4. fs \in Seq(Messages)
  <2>1. fs = [i \in 1..Len(es) |-> fs[i]]
    BY DEF budgetTrim
  <2> HIDE DEF fs
  <2> QED
    BY <1>1, <1>3, <2>1, SeqDef
<1> QED
  BY <1>2, <1>3, <1>4 DEF SameShape

LEMMA MaskShape ==
  ASSUME NEW es, NEW w, WellFormed(es, w)
  PROVE  SameShape(es, observationMask(es))
<1> DEFINE fs == observationMask(es)
<1>1. Len(es) \in Nat /\ \A i \in 1..Len(es) : es[i] \in Messages
  BY ElementOfSeq DEF WellFormed
<1>2. Len(fs) = Len(es) /\ DOMAIN fs = 1..Len(es)
  BY <1>1 DEF observationMask
<1>3. \A i \in 1..Len(es) :
        /\ fs[i] \in Messages
        /\ fs[i].id = es[i].id /\ fs[i].of = es[i].of /\ fs[i].role = es[i].role
        /\ (fs[i].text = "call") = (es[i].text = "call")
  <2> SUFFICES ASSUME NEW i \in 1..Len(es)
               PROVE  /\ fs[i] \in Messages
                      /\ fs[i].id = es[i].id /\ fs[i].of = es[i].of /\ fs[i].role = es[i].role
                      /\ (fs[i].text = "call") = (es[i].text = "call")
    OBVIOUS
  <2>1. es[i] \in Messages /\ (es[i].text = "call" => es[i].role = "assistant")
    BY <1>1 DEF WellFormed
  <2>2. CASE fs[i] = es[i]
    BY <2>1, <2>2
  <2>3. CASE /\ fs[i] = [es[i] EXCEPT !.text = "masked", !.size = MaskedSize]
             /\ es[i].role = "tool"
    BY <2>1, <2>3, Constants DEF Messages, Texts
  <2> QED
    BY <2>2, <2>3 DEF observationMask
<1>4. fs \in Seq(Messages)
  <2>1. fs = [i \in 1..Len(es) |-> fs[i]]
    BY DEF observationMask
  <2> HIDE DEF fs
  <2> QED
    BY <1>1, <1>3, <2>1, SeqDef
<1> QED
  BY <1>2, <1>3, <1>4 DEF SameShape

\* What snip and compact leave: a message for those that go, and the rest.
LEMMA ReplacedIs ==
  ASSUME NEW es \in Seq(Messages), NEW text \in {"marker", "summary"},
         adjustKeepBoundary(es) # 0
  PROVE  /\ Replaced(es, text) \in Seq(Messages)
         /\ Len(Replaced(es, text)) = Len(es) + 1 - adjustKeepBoundary(es)
         /\ Replaced(es, text)[1] = Marker(text)
         /\ \A i \in 2..(Len(es) + 1 - adjustKeepBoundary(es)) :
              Replaced(es, text)[i] = es[i + adjustKeepBoundary(es) - 1]
<1> DEFINE a == adjustKeepBoundary(es)
           rest == SubSeq(es, a + 1, Len(es))
<1>1. Len(es) \in Nat /\ a \in Nat /\ a # 0 /\ a <= Len(es)
  BY CutRange, Constants
<1>2. Replaced(es, text) = <<Marker(text)>> \o rest
  BY <1>1 DEF Replaced
<1>3. Marker(text) \in Messages
  BY Constants DEF Marker, Message, Messages, Roles, Texts
<1> HIDE DEF a
<1>4. \A i \in (a + 1)..Len(es) : es[i] \in Messages
  BY <1>1, ElementOfSeq
<1>5. /\ rest \in Seq(Messages) /\ Len(rest) = Len(es) - a
      /\ \A i \in 1..(Len(es) - a) : rest[i] = es[a + i]
  <2>1. a + 1 \in Int /\ Len(es) \in Int /\ Len(es) - (a + 1) + 1 = Len(es) - a
    BY <1>1
  <2>2. /\ rest \in Seq(Messages)
        /\ Len(rest) = IF a + 1 <= Len(es) THEN Len(es) - (a + 1) + 1 ELSE 0
        /\ \A i \in 1..(Len(es) - (a + 1) + 1) : rest[i] = es[(a + 1) + i - 1]
    BY <2>1, <1>4, SubSeqProperties
  <2>3. \A i \in 1..(Len(es) - a) : (a + 1) + i - 1 = a + i
    BY <1>1
  <2> QED
    BY <1>1, <2>1, <2>2, <2>3
<1> HIDE DEF rest
<1>6. <<Marker(text)>> \in Seq(Messages) /\ Len(<<Marker(text)>>) = 1
  BY <1>3
<1>7. /\ Replaced(es, text) \in Seq(Messages)
      /\ Len(Replaced(es, text)) = 1 + Len(rest)
      /\ \A i \in 1..(1 + Len(rest)) :
           Replaced(es, text)[i] = IF i <= 1 THEN <<Marker(text)>>[i] ELSE rest[i - 1]
  BY <1>2, <1>5, <1>6, ConcatProperties
<1>8. Len(Replaced(es, text)) = Len(es) + 1 - a
  BY <1>1, <1>5, <1>7
<1>9. Replaced(es, text)[1] = Marker(text)
  BY <1>1, <1>5, <1>7
<1>10. \A i \in 2..(Len(es) + 1 - a) : Replaced(es, text)[i] = es[i + a - 1]
  <2> SUFFICES ASSUME NEW i \in 2..(Len(es) + 1 - a)
               PROVE  Replaced(es, text)[i] = es[i + a - 1]
    OBVIOUS
  <2>1. i \in 1..(1 + Len(rest)) /\ ~(i <= 1) /\ i - 1 \in 1..(Len(es) - a)
        /\ a + (i - 1) = i + a - 1
    BY <1>1, <1>5
  <2> QED
    BY <1>5, <1>7, <2>1
<1> QED
  BY <1>7, <1>8, <1>9, <1>10 DEF a

\* A message behind the first is one of those that stayed.
LEMMA ReplacedComesFrom ==
  ASSUME NEW es \in Seq(Messages), NEW text \in {"marker", "summary"},
         adjustKeepBoundary(es) # 0,
         NEW i \in 1..Len(Replaced(es, text)), i # 1
  PROVE  /\ i + adjustKeepBoundary(es) - 1 \in (adjustKeepBoundary(es) + 1)..Len(es)
         /\ Replaced(es, text)[i] = es[i + adjustKeepBoundary(es) - 1]
<1>1. Len(es) \in Nat /\ adjustKeepBoundary(es) \in Nat
  BY CutRange
<1> QED
  BY <1>1, ReplacedIs

\* And what stayed is found there.
LEMMA ReplacedHolds ==
  ASSUME NEW es \in Seq(Messages), NEW text \in {"marker", "summary"},
         adjustKeepBoundary(es) # 0,
         NEW i \in (adjustKeepBoundary(es) + 1)..Len(es)
  PROVE  /\ i + 1 - adjustKeepBoundary(es) \in 2..Len(Replaced(es, text))
         /\ Replaced(es, text)[i + 1 - adjustKeepBoundary(es)] = es[i]
<1> DEFINE a == adjustKeepBoundary(es)
           n == i + 1 - a
<1>1. Len(es) \in Nat /\ a \in Nat
  BY CutRange
<1>2. n \in 2..(Len(es) + 1 - a) /\ n + a - 1 = i
  BY <1>1
<1>3. Len(Replaced(es, text)) = Len(es) + 1 - a
  BY ReplacedIs
<1>4. \A k \in 2..(Len(es) + 1 - a) : Replaced(es, text)[k] = es[k + a - 1]
  BY ReplacedIs
<1> HIDE DEF a, n
<1>5. Replaced(es, text)[n] = es[i]
  BY <1>2, <1>4
<1> QED
  BY <1>2, <1>3, <1>5 DEF a, n

LEMMA MarkerFields ==
  ASSUME NEW text \in {"marker", "summary"}
  PROVE  /\ Marker(text) \in Messages
         /\ Marker(text).text = text /\ Marker(text).role = "user"
         /\ Marker(text).id = 0 /\ Marker(text).of = 0
BY Constants DEF Marker, Message, Messages, Roles, Texts

LEMMA ReplacedKeeps ==
  ASSUME NEW es, NEW w, WellFormed(es, w), NoneCross(es),
         NEW text \in {"marker", "summary"}, adjustKeepBoundary(es) # 0
  PROVE  WellFormed(Replaced(es, text), w) /\ NoneCross(Replaced(es, text))
<1> DEFINE a == adjustKeepBoundary(es)
           fs == Replaced(es, text)
           At(i) == i + a - 1
<1>1. es \in Seq(Messages) /\ Len(es) \in Nat /\ a \in Nat /\ w \in Nat
  BY CutRange DEF WellFormed
<1>2. fs \in Seq(Messages) /\ Len(fs) = Len(es) + 1 - a /\ fs[1] = Marker(text)
  BY <1>1, ReplacedIs
<1>3. \A i \in 1..Len(fs) : i # 1 => At(i) \in 1..Len(es) /\ At(i) > a /\ fs[i] = es[At(i)]
  BY <1>1, ReplacedComesFrom
<1>4. fs[1].text # "call" /\ fs[1].id = 0 /\ fs[1].of = 0
  BY <1>2, MarkerFields
<1> HIDE DEF fs, a
<1>5. WellFormed(fs, w)
  <2>1. \A i \in 1..Len(fs) : fs[i].id <= w /\ fs[i].of <= w
    <3> SUFFICES ASSUME NEW i \in 1..Len(fs) PROVE fs[i].id <= w /\ fs[i].of <= w
      OBVIOUS
    <3>1. CASE i = 1
      BY <1>1, <1>4, <3>1
    <3>2. CASE i # 1
      BY <1>3, <3>2 DEF WellFormed
    <3> QED
      BY <3>1, <3>2
  <2>2. \A i \in 1..Len(fs) : fs[i].text = "call" => fs[i].role = "assistant" /\ fs[i].id > 0
    <3> SUFFICES ASSUME NEW i \in 1..Len(fs), fs[i].text = "call"
                 PROVE  fs[i].role = "assistant" /\ fs[i].id > 0
      OBVIOUS
    <3>1. i # 1
      BY <1>4
    <3> QED
      BY <1>3, <3>1 DEF WellFormed
  <2>3. \A i \in 1..Len(fs) : fs[i].role # "tool" => fs[i].of = 0
    <3> SUFFICES ASSUME NEW i \in 1..Len(fs), fs[i].role # "tool" PROVE fs[i].of = 0
      OBVIOUS
    <3>1. CASE i = 1
      BY <1>4, <3>1
    <3>2. CASE i # 1
      BY <1>3, <3>2 DEF WellFormed
    <3> QED
      BY <3>1, <3>2
  <2>4. \A c, d \in 1..Len(fs) :
          fs[c].text = "call" /\ fs[d].text = "call" /\ fs[c].id = fs[d].id => c = d
    <3> SUFFICES ASSUME NEW c \in 1..Len(fs), NEW d \in 1..Len(fs),
                        fs[c].text = "call", fs[d].text = "call", fs[c].id = fs[d].id
                 PROVE  c = d
      OBVIOUS
    <3>1. c # 1 /\ d # 1
      BY <1>4
    <3>2. At(c) = At(d)
      BY <1>3, <3>1 DEF WellFormed
    <3> QED
      BY <1>1, <3>2
  <2> QED
    BY <1>1, <1>2, <2>1, <2>2, <2>3, <2>4 DEF WellFormed
<1>6. NoneCross(fs)
  <2> SUFFICES ASSUME NEW c \in 1..Len(fs), NEW d \in 1..Len(fs), NEW i \in 1..Len(fs),
                      NEW j \in 1..Len(fs), c < d, d < i, i < j,
                      Pair(fs, c, i), Pair(fs, d, j)
               PROVE  FALSE
    BY DEF NoneCross
  <2>1. c # 1 /\ d # 1 /\ i # 1 /\ j # 1
    BY <1>4 DEF Pair
  <2>2. At(c) < At(d) /\ At(d) < At(i) /\ At(i) < At(j)
    BY <1>1
  <2>3. Pair(es, At(c), At(i)) /\ Pair(es, At(d), At(j))
    <3>1. At(c) < At(i) /\ At(d) < At(j)
      BY <1>1
    <3>2. fs[c] = es[At(c)] /\ fs[d] = es[At(d)] /\ fs[i] = es[At(i)] /\ fs[j] = es[At(j)]
      BY <1>3, <2>1
    <3> HIDE DEF At
    <3> QED
      BY <3>1, <3>2 DEF Pair
  <2>4. At(c) \in 1..Len(es) /\ At(d) \in 1..Len(es) /\ At(i) \in 1..Len(es) /\ At(j) \in 1..Len(es)
    BY <1>3, <2>1
  <2> HIDE DEF At
  <2> QED
    BY <2>2, <2>3, <2>4 DEF NoneCross
<1> QED
  BY <1>5, <1>6 DEF fs

LEMMA ReplacedLeavesNoneAlone ==
  ASSUME NEW es, NEW w, WellFormed(es, w), NoneCross(es),
         NEW text \in {"marker", "summary"}, adjustKeepBoundary(es) # 0
  PROVE  Orphans(Replaced(es, text)) \subseteq Orphans(es)
<1> DEFINE a == adjustKeepBoundary(es)
           fs == Replaced(es, text)
           At(i) == i + a - 1
<1>1. es \in Seq(Messages) /\ Len(es) \in Nat /\ a \in Nat
  BY CutRange DEF WellFormed
<1>2. fs \in Seq(Messages) /\ Len(fs) = Len(es) + 1 - a /\ fs[1] = Marker(text)
  BY <1>1, ReplacedIs
<1>3. \A i \in 1..Len(fs) : i # 1 => At(i) \in 1..Len(es) /\ At(i) > a /\ fs[i] = es[At(i)]
  BY <1>1, ReplacedComesFrom
<1>4. \A i \in (a + 1)..Len(es) : i + 1 - a \in 2..Len(fs) /\ fs[i + 1 - a] = es[i]
  BY <1>1, ReplacedHolds
<1>5. fs[1].role # "tool"
  BY <1>2, MarkerFields
<1>6. ~Separates(es, a)
  BY CutSeparatesNone
<1> HIDE DEF fs, a
<1>7. ASSUME NEW j \in 1..Len(fs), fs[j].role = "tool",
             ~\E c \in 1..(j - 1) : fs[c].text = "call" /\ fs[c].id = fs[j].of
      PROVE  fs[j].id \in Orphans(es)
  <2>1. j # 1 /\ At(j) \in 1..Len(es) /\ At(j) > a /\ fs[j] = es[At(j)]
    BY <1>3, <1>5, <1>7
  <2>2. ASSUME NEW c \in 1..(At(j) - 1), es[c].text = "call", es[c].id = es[At(j)].of
        PROVE  FALSE
    <3>1. CASE c <= a
      <4>1. c \in 1..a /\ At(j) \in (a + 1)..Len(es)
        BY <1>1, <2>1, <3>1
      <4> QED
        BY <1>6, <2>2, <4>1 DEF Separates
    <3>2. CASE c > a
      <4>1. c \in (a + 1)..Len(es) /\ c + 1 - a \in 1..(j - 1)
        BY <1>1, <2>1, <3>2
      <4>2. fs[c + 1 - a] = es[c]
        BY <1>4, <4>1
      <4> QED
        BY <1>7, <2>1, <2>2, <4>1, <4>2
    <3> QED
      BY <1>1, <3>1, <3>2
  <2>3. At(j) \in {k \in 1..Len(es) :
                     /\ es[k].role = "tool"
                     /\ ~\E c \in 1..(k - 1) : es[c].text = "call" /\ es[c].id = es[k].of}
    <3> HIDE DEF At
    <3> QED
      BY <1>7, <2>1, <2>2
  <2> HIDE DEF At
  <2> QED
    BY <2>1, <2>3 DEF Orphans
<1>8. \A x \in Orphans(fs) : x \in Orphans(es)
  <2> SUFFICES ASSUME NEW x \in Orphans(fs) PROVE x \in Orphans(es)
    OBVIOUS
  <2>1. PICK j \in 1..Len(fs) :
          /\ x = fs[j].id /\ fs[j].role = "tool"
          /\ ~\E c \in 1..(j - 1) : fs[c].text = "call" /\ fs[c].id = fs[j].of
    BY DEF Orphans
  <2> QED
    BY <1>7, <2>1
<1> QED
  BY <1>8 DEF fs

\* After one cut there is nothing more to cut but the message put there.
LEMMA ReplacedIsEnough ==
  ASSUME NEW es, NEW w, WellFormed(es, w), NoneCross(es),
         NEW text \in {"marker", "summary"}, adjustKeepBoundary(es) # 0
  PROVE  BestCut(Replaced(es, text)) \in {0, 1}
<1> DEFINE a == adjustKeepBoundary(es)
           fs == Replaced(es, text)
           b == adjustKeepBoundary(fs)
<1>1. es \in Seq(Messages) /\ Len(es) \in Nat /\ a \in Nat /\ KeepLast \in Nat
  BY CutRange, Constants DEF WellFormed
<1>2. fs \in Seq(Messages) /\ Len(fs) = Len(es) + 1 - a
  BY <1>1, ReplacedIs
<1>3. WellFormed(fs, w) /\ NoneCross(fs)
  BY ReplacedKeeps
<1>4. b = BestCut(fs) /\ ~Separates(fs, b) /\ b \in Nat /\ (b # 0 => b + KeepLast <= Len(fs))
  <2> HIDE DEF fs
  <2> QED
    BY <1>2, <1>3, CutIsBest, CutSeparatesNone, CutRange
<1>5. \A i \in (a + 1)..Len(es) : fs[i + 1 - a] = es[i] /\ i + 1 - a \in 2..Len(fs)
  BY <1>1, ReplacedHolds
<1>6. ~Separates(es, a)
  BY CutSeparatesNone
<1>7. \A n \in Nat : n > a /\ n + KeepLast <= Len(es) => Separates(es, n)
  BY <1>1, NoBetterCut
<1> HIDE DEF a, b, fs
<1>8. ASSUME b > 1 PROVE FALSE
  <2>1. b + a - 1 \in Nat /\ b + a - 1 > a /\ (b + a - 1) + KeepLast <= Len(es)
    BY <1>1, <1>2, <1>4, <1>8
  <2>2. Separates(es, b + a - 1)
    BY <1>7, <2>1
  <2>3. PICK c \in 1..(b + a - 1), i \in (b + a)..Len(es) :
               es[c].text = "call" /\ es[i].of = es[c].id
    <3>1. (b + a - 1) + 1 = b + a
      BY <1>1, <1>4
    <3> QED
      BY <2>2, <3>1 DEF Separates
  <2>4. i \in (a + 1)..Len(es) /\ i + 1 - a \in (b + 1)..Len(fs)
    <3>1. b \in Nat /\ b > 1 /\ i \in Int /\ b + a <= i /\ i <= Len(es)
      BY <1>1, <1>4, <1>8
    <3> QED
      BY <1>1, <1>2, <3>1
  <2>5. CASE c <= a
    <3>1. c \in 1..a
      BY <1>1, <2>5
    <3> QED
      BY <1>6, <2>3, <2>4, <3>1 DEF Separates
  <2>6. CASE c > a
    <3>1. c \in (a + 1)..Len(es) /\ c + 1 - a \in 1..b
      BY <1>1, <1>4, <2>1, <2>6
    <3>2. fs[c + 1 - a] = es[c] /\ fs[i + 1 - a] = es[i]
      BY <1>5, <2>4, <3>1
    <3>3. Separates(fs, b)
      BY <2>3, <2>4, <3>1, <3>2 DEF Separates
    <3> QED
      BY <1>4, <3>3
  <2> QED
    BY <1>1, <2>5, <2>6
<1> QED
  BY <1>4, <1>8 DEF fs

----------------------------------------------------------------------------
(* The invariant of the manager.                                           *)

\* No pair lies around a call named o.
Clear(es, o) ==
  \A c, d, i \in 1..Len(es) :
    c < d /\ d < i /\ Pair(es, c, i) => ~(es[d].text = "call" /\ es[d].id = o)

OpenClear == open \in 0..written /\ (open # 0 => Clear(entries, open))

ManagerInv ==
  CountsAgree /\ WellFormed(entries, written) /\ NoneCross(entries) /\ OpenClear

\* No message of t belongs to a call of s.
Apart(s, t) ==
  \A c \in 1..Len(s), i \in 1..Len(t) :
    s[c].text = "call" =>
      t[i].of # s[c].id /\ (t[i].text = "call" => t[i].id # s[c].id)

LEMMA MessageFields ==
  ASSUME NEW es \in Seq(Messages), NEW i \in 1..Len(es)
  PROVE  es[i].id \in Nat /\ es[i].of \in Nat /\ es[i].size \in Nat
<1>1. es[i] \in Messages
  BY ElementOfSeq
<1> QED
  BY <1>1 DEF Messages

LEMMA WellFormedLater ==
  ASSUME NEW es, NEW w, WellFormed(es, w), NEW v \in Nat, w <= v
  PROVE  WellFormed(es, v)
<1>1. es \in Seq(Messages) /\ \A i \in 1..Len(es) : es[i].id \in Nat /\ es[i].of \in Nat
  BY MessageFields DEF WellFormed
<1>2. \A i \in 1..Len(es) : es[i].id <= v /\ es[i].of <= v
  BY <1>1 DEF WellFormed
<1> QED
  BY <1>2 DEF WellFormed

LEMMA ConcatKeeps ==
  ASSUME NEW s, NEW t, NEW w, WellFormed(s, w), WellFormed(t, w),
         NoneCross(s), NoneCross(t), Apart(s, t)
  PROVE  /\ WellFormed(s \o t, w) /\ NoneCross(s \o t)
         /\ \A o : Clear(s, o) /\ Clear(t, o) => Clear(s \o t, o)
<1> DEFINE fs == s \o t
           n == Len(s)
<1>1. /\ s \in Seq(Messages) /\ t \in Seq(Messages) /\ fs \in Seq(Messages)
      /\ n \in Nat /\ Len(t) \in Nat /\ Len(fs) = n + Len(t)
      /\ \A i \in 1..Len(fs) : fs[i] = IF i <= n THEN s[i] ELSE t[i - n]
  BY ConcatProperties DEF WellFormed
<1> HIDE DEF fs, n
<1>2. \A i \in 1..n : i \in 1..Len(fs) /\ fs[i] = s[i]
  BY <1>1
<1>3. \A i \in 1..Len(fs) :
        \/ i \in 1..n /\ fs[i] = s[i]
        \/ i > n /\ i - n \in 1..Len(t) /\ fs[i] = t[i - n]
  BY <1>1
<1>4. WellFormed(fs, w)
  <2>1. \A i \in 1..Len(fs) : fs[i].id <= w /\ fs[i].of <= w
    BY <1>3 DEF WellFormed, n
  <2>2. \A i \in 1..Len(fs) : fs[i].text = "call" => fs[i].role = "assistant" /\ fs[i].id > 0
    BY <1>3 DEF WellFormed, n
  <2>3. \A i \in 1..Len(fs) : fs[i].role # "tool" => fs[i].of = 0
    BY <1>3 DEF WellFormed, n
  <2>4. ASSUME NEW c \in 1..Len(fs), NEW d \in 1..Len(fs),
               fs[c].text = "call", fs[d].text = "call", fs[c].id = fs[d].id
        PROVE  c = d
    <3>1. CASE c \in 1..n /\ d \in 1..n
      BY <1>2, <2>4, <3>1 DEF WellFormed, n
    <3>2. CASE c > n /\ d > n
      <4>1. /\ c - n \in 1..Len(t) /\ fs[c] = t[c - n]
            /\ d - n \in 1..Len(t) /\ fs[d] = t[d - n]
        BY <1>1, <1>3, <3>2
      <4>2. c - n = d - n
        BY <2>4, <4>1 DEF WellFormed
      <4> QED
        BY <1>1, <4>2
    <3>3. CASE c \in 1..n /\ d > n
      <4>1. d - n \in 1..Len(t) /\ fs[d] = t[d - n] /\ fs[c] = s[c]
        BY <1>1, <1>2, <1>3, <3>3
      <4> QED
        BY <2>4, <3>3, <4>1 DEF Apart, n
    <3>4. CASE d \in 1..n /\ c > n
      <4>1. c - n \in 1..Len(t) /\ fs[c] = t[c - n] /\ fs[d] = s[d]
        BY <1>1, <1>2, <1>3, <3>4
      <4> QED
        BY <2>4, <3>4, <4>1 DEF Apart, n
    <3> QED
      BY <1>1, <3>1, <3>2, <3>3, <3>4
  <2>5. w \in Nat
    BY DEF WellFormed
  <2> QED
    BY <1>1, <2>1, <2>2, <2>3, <2>4, <2>5 DEF WellFormed
\* A pair of the two together is a pair of one of them.
<1>5. ASSUME NEW c \in 1..Len(fs), NEW i \in 1..Len(fs), Pair(fs, c, i)
      PROVE  \/ c \in 1..n /\ i \in 1..n /\ Pair(s, c, i)
             \/ /\ c > n /\ i > n /\ c - n \in 1..Len(t) /\ i - n \in 1..Len(t)
                /\ Pair(t, c - n, i - n)
  <2>1. CASE c \in 1..n /\ i \in 1..n
    BY <1>2, <1>5, <2>1 DEF Pair
  <2>2. CASE c > n /\ i > n
    <3>1. /\ c - n \in 1..Len(t) /\ fs[c] = t[c - n]
          /\ i - n \in 1..Len(t) /\ fs[i] = t[i - n]
      BY <1>1, <1>3, <2>2
    <3>2. c - n < i - n
      BY <1>1, <1>5 DEF Pair
    <3> QED
      BY <1>5, <2>2, <3>1, <3>2 DEF Pair
  <2>3. CASE c \in 1..n /\ i > n
    <3>1. i - n \in 1..Len(t) /\ fs[i] = t[i - n] /\ fs[c] = s[c]
      BY <1>1, <1>2, <1>3, <2>3
    <3> QED
      BY <1>5, <2>3, <3>1 DEF Pair, Apart, n
  <2>4. ~(i \in 1..n /\ c > n)
    BY <1>1, <1>5 DEF Pair
  <2> QED
    BY <1>1, <2>1, <2>2, <2>3, <2>4
<1>6. NoneCross(fs)
  <2> SUFFICES ASSUME NEW c \in 1..Len(fs), NEW d \in 1..Len(fs), NEW i \in 1..Len(fs),
                      NEW j \in 1..Len(fs), c < d, d < i, i < j,
                      Pair(fs, c, i), Pair(fs, d, j)
               PROVE  FALSE
    BY DEF NoneCross
  <2>1. CASE c \in 1..n
    <3>1. i \in 1..n /\ d \in 1..n
      BY <1>1, <1>5, <2>1
    <3>2. j \in 1..n /\ Pair(s, c, i) /\ Pair(s, d, j)
      BY <1>1, <1>5, <2>1, <3>1
    <3> QED
      BY <2>1, <3>1, <3>2 DEF NoneCross, n
  <2>2. CASE c > n
    <3>1. d > n
      BY <1>1, <2>2
    <3>2. /\ c - n \in 1..Len(t) /\ i - n \in 1..Len(t) /\ Pair(t, c - n, i - n)
          /\ d - n \in 1..Len(t) /\ j - n \in 1..Len(t) /\ Pair(t, d - n, j - n)
      BY <1>1, <1>5, <2>2, <3>1
    <3>3. c - n < d - n /\ d - n < i - n /\ i - n < j - n
      BY <1>1
    <3> QED
      BY <3>2, <3>3 DEF NoneCross
  <2> QED
    BY <1>1, <2>1, <2>2
<1>7. ASSUME NEW o, Clear(s, o), Clear(t, o)
      PROVE  Clear(fs, o)
  <2> SUFFICES ASSUME NEW c \in 1..Len(fs), NEW d \in 1..Len(fs), NEW i \in 1..Len(fs),
                      c < d, d < i, Pair(fs, c, i), fs[d].text = "call", fs[d].id = o
               PROVE  FALSE
    BY DEF Clear
  <2>1. CASE c \in 1..n
    <3>1. i \in 1..n /\ d \in 1..n /\ Pair(s, c, i)
      BY <1>1, <1>5, <2>1
    <3>2. fs[d] = s[d]
      BY <1>2, <3>1
    <3> QED
      BY <1>7, <2>1, <3>1, <3>2 DEF Clear, n
  <2>2. CASE c > n
    <3>1. d > n /\ d - n \in 1..Len(t) /\ fs[d] = t[d - n]
      BY <1>1, <1>3, <2>2
    <3>2. c - n \in 1..Len(t) /\ i - n \in 1..Len(t) /\ Pair(t, c - n, i - n)
      BY <1>1, <1>5, <2>2
    <3>3. c - n < d - n /\ d - n < i - n
      BY <1>1
    <3> QED
      BY <1>7, <3>1, <3>2, <3>3 DEF Clear
  <2> QED
    BY <1>1, <2>1, <2>2
<1> QED
  BY <1>4, <1>6, <1>7 DEF fs

----------------------------------------------------------------------------
(* The actions. *)

LEMMA ManagerInitHolds ==
  ASSUME ManagerInit
  PROVE  ManagerInv
<1>1. entries = <<>> /\ tokenCount = 0 /\ open = 0 /\ written = 0 /\ reserved \in Nat
      /\ exceeded = (reserved >= Threshold)
  BY Constants DEF ManagerInit
<1>2. Len(entries) = 0 /\ entries \in Seq(Messages)
  BY <1>1
<1>3. CountsAgree
  BY <1>1, TotalOfNone DEF CountsAgree
<1> QED
  BY <1>1, <1>2, <1>3 DEF ManagerInv, WellFormed, NoneCross, OpenClear

LEMMA AloneIsWellFormed ==
  ASSUME NEW m \in Messages, NEW w \in Nat, m.id <= w, m.of <= w,
         m.text = "call" => m.role = "assistant" /\ m.id > 0,
         m.role # "tool" => m.of = 0
  PROVE  /\ WellFormed(<<m>>, w) /\ NoneCross(<<m>>)
         /\ \A o : Clear(<<m>>, o)
<1>1. <<m>> \in Seq(Messages) /\ Len(<<m>>) = 1 /\ <<m>>[1] = m
  OBVIOUS
<1>2. \A i \in 1..Len(<<m>>) : i = 1
  BY <1>1
<1> QED
  BY <1>1, <1>2 DEF WellFormed, NoneCross, Clear

\* A call and its result, as they are injected.
LEMMA PairIsWellFormed ==
  ASSUME NEW m \in Messages, NEW r \in Messages, NEW w \in Nat, m.id <= w, r.id <= w,
         m.text = "call", m.role = "assistant", m.id > 0, m.of = 0,
         r.text = "whole", r.role = "tool", r.of = m.id
  PROVE  /\ WellFormed(<<m, r>>, w) /\ NoneCross(<<m, r>>)
         /\ \A o : Clear(<<m, r>>, o)
<1>1. /\ <<m, r>> \in Seq(Messages) /\ Len(<<m, r>>) = 2
      /\ <<m, r>>[1] = m /\ <<m, r>>[2] = r
  OBVIOUS
<1>2. \A i \in 1..Len(<<m, r>>) : i = 1 \/ i = 2
  BY <1>1
<1>3. WellFormed(<<m, r>>, w)
  BY <1>1, <1>2 DEF WellFormed
<1>4. \A c, d, i \in 1..Len(<<m, r>>) : ~(c < d /\ d < i)
  BY <1>2
<1> QED
  BY <1>3, <1>4 DEF NoneCross, Clear

\* Names written later than w belong to nothing that was there.
LEMMA NewIsApart ==
  ASSUME NEW es, NEW w, WellFormed(es, w), NEW ms \in Seq(Messages),
         \A i \in 1..Len(ms) :
           /\ ms[i].of = 0 \/ ms[i].of > w
           /\ ms[i].text = "call" => ms[i].id > w
  PROVE  Apart(es, ms) /\ Apart(ms, es)
<1>1. \A c \in 1..Len(es) : es[c].id <= w /\ es[c].of <= w /\ es[c].id \in Nat /\ es[c].of \in Nat
  BY MessageFields DEF WellFormed
<1>2. \A i \in 1..Len(ms) : ms[i].id \in Nat /\ ms[i].of \in Nat
  BY MessageFields
<1>3. w \in Nat /\ \A c \in 1..Len(es) : es[c].text = "call" => es[c].id > 0
  BY DEF WellFormed
<1>4. Apart(es, ms)
  BY <1>1, <1>2, <1>3 DEF Apart
<1>5. Apart(ms, es)
  BY <1>1, <1>2, <1>3 DEF Apart
<1> QED
  BY <1>4, <1>5

\* No call is named by what was not written yet.
LEMMA ClearOfNew ==
  ASSUME NEW es, NEW w, WellFormed(es, w)
  PROVE  Clear(es, w + 1)
<1>1. \A d \in 1..Len(es) : es[d].id # w + 1
  BY ElementOfSeq DEF WellFormed, Messages
<1> QED
  BY <1>1 DEF Clear

----------------------------------------------------------------------------
LEMMA WrittenFields ==
  ASSUME ManagerInv, NEW size \in Sizes
  PROVE  /\ Said(size) \in Messages /\ Said(size).text = "whole"
         /\ Said(size).id = written + 1 /\ Said(size).of = 0 /\ Said(size).role = "user"
         /\ Call(size) \in Messages /\ Call(size).text = "call"
         /\ Call(size).id = written + 1 /\ Call(size).of = 0 /\ Call(size).role = "assistant"
<1>1. size \in Nat /\ written + 1 \in Nat
  BY Constants DEF ManagerInv, WellFormed
<1> QED
  BY <1>1 DEF Said, Call, Message, Messages, Roles, Texts

LEMMA ResultFields ==
  ASSUME ManagerInv, NEW size \in Sizes, NEW c \in Nat
  PROVE  /\ Result(c, size) \in Messages /\ Result(c, size).text = "whole"
         /\ Result(c, size).id = written + 1 /\ Result(c, size).of = c
         /\ Result(c, size).role = "tool"
<1>1. size \in Nat /\ written + 1 \in Nat
  BY Constants DEF ManagerInv, WellFormed
<1> QED
  BY <1>1 DEF Result, Message, Messages, Roles, Texts

LEMMA AddCounts ==
  ASSUME ManagerInv, NEW m \in Messages, Add(m)
  PROVE  CountsAgree'
<1>1. entries \in Seq(Messages) /\ \A x \in Messages : x.size \in Nat
  BY DEF ManagerInv, WellFormed, Messages
<1>2. entries' = Append(entries, m) /\ tokenCount' = tokenCount + m.size /\ reserved' = reserved
      /\ exceeded' = (reserved + tokenCount' >= Threshold)
  BY DEF Add, checkThreshold
<1>3. Total(entries') = Total(entries) + m.size
  BY <1>1, <1>2, TotalOfAppend
<1> QED
  BY <1>2, <1>3 DEF ManagerInv, CountsAgree

LEMMA ReplaceCounts ==
  ASSUME NEW es, replaceEntries(es), reserved' = reserved
  PROVE  CountsAgree'
BY DEF replaceEntries, CountsAgree, checkThreshold

\* A message that belongs to none of those there.
LEMMA AddApart ==
  ASSUME ManagerInv, NEW m \in Messages, entries' = Append(entries, m),
         written' = written + 1, m.id = written + 1, m.of = 0, m.role # "tool",
         m.text = "call" => m.role = "assistant"
  PROVE  /\ WellFormed(entries, written)' /\ NoneCross(entries)'
         /\ \A o : Clear(entries, o) => Clear(entries', o)
<1>1. written \in Nat /\ WellFormed(entries, written) /\ NoneCross(entries)
      /\ entries \in Seq(Messages)
  BY DEF ManagerInv, WellFormed
<1>2. WellFormed(entries, written + 1)
  BY <1>1, WellFormedLater
<1>3. WellFormed(<<m>>, written + 1) /\ NoneCross(<<m>>) /\ \A o : Clear(<<m>>, o)
  BY <1>1, AloneIsWellFormed
<1>4. Apart(entries, <<m>>)
  <2>1. /\ <<m>> \in Seq(Messages)
        /\ \A i \in 1..Len(<<m>>) :
             /\ <<m>>[i].of = 0 \/ <<m>>[i].of > written
             /\ <<m>>[i].text = "call" => <<m>>[i].id > written
    BY <1>1
  <2> QED
    BY <1>1, <2>1, NewIsApart
<1>5. entries' = entries \o <<m>>
  BY <1>1, AppendIsConcat
<1>6. /\ WellFormed(entries \o <<m>>, written + 1) /\ NoneCross(entries \o <<m>>)
      /\ \A o : Clear(entries, o) /\ Clear(<<m>>, o) => Clear(entries \o <<m>>, o)
  BY <1>1, <1>2, <1>3, <1>4, ConcatKeeps
<1>7. WellFormed(entries', written') /\ NoneCross(entries')
      /\ \A o : Clear(entries, o) => Clear(entries', o)
  BY <1>3, <1>5, <1>6
<1> QED
  BY <1>7 DEF WellFormed, NoneCross, Clear, Pair

LEMMA AddMessageKeeps ==
  ASSUME ManagerInv, NEW size \in Sizes, AddMessage(size)
  PROVE  ManagerInv'
<1>1. /\ open = 0 /\ open' = 0 /\ Add(Said(size)) /\ written' = written + 1
      /\ entries' = Append(entries, Said(size)) /\ written \in Nat
  BY DEF AddMessage, Add, ManagerInv, WellFormed
<1>2. /\ Said(size) \in Messages /\ Said(size).text = "whole" /\ Said(size).id = written + 1
      /\ Said(size).of = 0 /\ Said(size).role = "user"
  BY WrittenFields
<1>3. CountsAgree'
  BY <1>1, <1>2, AddCounts
<1>4. WellFormed(entries, written)' /\ NoneCross(entries)'
  BY <1>1, <1>2, AddApart
<1> QED
  BY <1>1, <1>3, <1>4 DEF ManagerInv, OpenClear

LEMMA AddCallKeeps ==
  ASSUME ManagerInv, NEW size \in Sizes, AddCall(size)
  PROVE  ManagerInv'
<1>1. /\ open' = written + 1 /\ Add(Call(size)) /\ written' = written + 1
      /\ entries' = Append(entries, Call(size)) /\ written \in Nat
  BY DEF AddCall, Add, ManagerInv, WellFormed
<1>2. /\ Call(size) \in Messages /\ Call(size).text = "call" /\ Call(size).id = written + 1
      /\ Call(size).of = 0 /\ Call(size).role = "assistant"
  BY WrittenFields
<1>3. CountsAgree'
  BY <1>1, <1>2, AddCounts
<1>4. /\ WellFormed(entries, written)' /\ NoneCross(entries)'
      /\ \A o : Clear(entries, o) => Clear(entries', o)
  BY <1>1, <1>2, AddApart
<1>5. Clear(entries, written + 1)
  BY ClearOfNew DEF ManagerInv
<1>6. Clear(entries', open')
  BY <1>1, <1>4, <1>5
<1>7. OpenClear'
  <2>1. open' \in 0..written' /\ (open' # 0 => Clear(entries', open'))
    BY <1>1, <1>6
  <2> QED
    BY <2>1 DEF OpenClear, Clear, Pair
<1> QED
  BY <1>3, <1>4, <1>7 DEF ManagerInv

LEMMA AddResultKeeps ==
  ASSUME ManagerInv, NEW size \in Sizes, AddResult(size)
  PROVE  ManagerInv'
<1> DEFINE m == Result(open, size)
           es == entries
           fs == Append(entries, m)
           n == Len(entries)
<1>1. /\ open # 0 /\ open' = 0 /\ Add(m) /\ written' = written + 1 /\ entries' = fs
      /\ written \in Nat /\ WellFormed(es, written) /\ NoneCross(es)
      /\ open \in 0..written /\ Clear(es, open)
  BY DEF AddResult, Add, ManagerInv, WellFormed, OpenClear
<1>2. /\ m \in Messages /\ m.text = "whole" /\ m.id = written + 1
      /\ m.of = open /\ m.role = "tool"
  <2>1. open \in Nat
    BY <1>1
  <2> QED
    BY <2>1, ResultFields
<1> HIDE DEF m
<1>3. CountsAgree'
  BY <1>1, <1>2, AddCounts
<1>4. /\ fs \in Seq(Messages) /\ n \in Nat /\ Len(fs) = n + 1 /\ fs[n + 1] = m
      /\ \A i \in 1..n : fs[i] = es[i]
  BY <1>1, <1>2, AppendProperties DEF WellFormed
<1>5. WellFormed(es, written + 1)
  BY <1>1, WellFormedLater
<1> HIDE DEF fs, es, n
<1>6. \A i \in 1..Len(fs) : \/ i \in 1..Len(es) /\ fs[i] = es[i]
                            \/ i = n + 1 /\ fs[i] = m
  BY <1>4 DEF n, es
<1>7. WellFormed(fs, written + 1)
  <2>1. \A i \in 1..Len(fs) : fs[i].id <= written + 1 /\ fs[i].of <= written + 1
    <3>1. m.id <= written + 1 /\ m.of <= written + 1
      BY <1>1, <1>2
    <3>2. \A i \in 1..Len(es) : es[i].id <= written + 1 /\ es[i].of <= written + 1
      BY <1>5 DEF WellFormed
    <3> QED
      BY <1>6, <3>1, <3>2
  <2>2. \A i \in 1..Len(fs) : fs[i].text = "call" => fs[i].role = "assistant" /\ fs[i].id > 0
    BY <1>2, <1>5, <1>6 DEF WellFormed
  <2>3. \A i \in 1..Len(fs) : fs[i].role # "tool" => fs[i].of = 0
    BY <1>2, <1>5, <1>6 DEF WellFormed
  <2>4. \A c, d \in 1..Len(fs) :
          fs[c].text = "call" /\ fs[d].text = "call" /\ fs[c].id = fs[d].id => c = d
    BY <1>2, <1>5, <1>6 DEF WellFormed
  <2> QED
    BY <1>1, <1>4, <2>1, <2>2, <2>3, <2>4 DEF WellFormed
<1>8. NoneCross(fs)
  <2> SUFFICES ASSUME NEW c \in 1..Len(fs), NEW d \in 1..Len(fs), NEW i \in 1..Len(fs),
                      NEW j \in 1..Len(fs), c < d, d < i, i < j,
                      Pair(fs, c, i), Pair(fs, d, j)
               PROVE  FALSE
    BY DEF NoneCross
  <2>1. /\ c \in 1..Len(es) /\ fs[c] = es[c] /\ d \in 1..Len(es) /\ fs[d] = es[d]
        /\ i \in 1..Len(es) /\ fs[i] = es[i]
    BY <1>4, <1>6 DEF n, es
  <2>2. Pair(es, c, i) /\ es[d].text = "call"
    BY <2>1 DEF Pair
  <2>3. CASE j \in 1..Len(es) /\ fs[j] = es[j]
    <3>1. Pair(es, d, j)
      BY <2>1, <2>3 DEF Pair
    <3> QED
      BY <1>1, <2>1, <2>2, <2>3, <3>1 DEF NoneCross
  <2>4. CASE j = n + 1 /\ fs[j] = m
    <3>1. es[d].id = open
      BY <1>2, <2>1, <2>4 DEF Pair
    <3> QED
      BY <1>1, <2>1, <2>2, <3>1 DEF Clear
  <2> QED
    BY <1>6, <2>3, <2>4
<1>9. WellFormed(entries', written') /\ NoneCross(entries')
  BY <1>1, <1>7, <1>8
<1> QED
  BY <1>1, <1>3, <1>9 DEF ManagerInv, OpenClear, WellFormed, NoneCross, Pair

LEMMA InjectKeeps ==
  ASSUME ManagerInv, NEW ms \in Injected, NEW position \in Positions, Inject(ms, position)
  PROVE  ManagerInv'
<1> DEFINE w == written + Len(ms)
<1>1. /\ written \in Nat /\ WellFormed(entries, written) /\ NoneCross(entries)
      /\ open \in 0..written /\ (open # 0 => Clear(entries, open))
  BY DEF ManagerInv, WellFormed, OpenClear
<1>2. /\ ms \in Seq(Messages) /\ Len(ms) \in {1, 2} /\ WellFormed(ms, w) /\ NoneCross(ms)
      /\ \A o : Clear(ms, o)
      /\ \A i \in 1..Len(ms) :
           /\ ms[i].of = 0 \/ ms[i].of > written
           /\ ms[i].text = "call" => ms[i].id > written
  <2>1. ASSUME NEW s \in Sizes, ms = <<Said(s)>> PROVE <1>2
    <3>1. /\ Said(s) \in Messages /\ Said(s).text = "whole" /\ Said(s).id = written + 1
          /\ Said(s).of = 0 /\ Said(s).role = "user"
      BY WrittenFields
    <3>2. Len(ms) = 1 /\ ms \in Seq(Messages) /\ ms[1] = Said(s)
      BY <2>1, <3>1
    <3>3. WellFormed(ms, w) /\ NoneCross(ms) /\ \A o : Clear(ms, o)
      BY <1>1, <2>1, <3>1, <3>2, AloneIsWellFormed
    <3>4. \A i \in 1..Len(ms) : i = 1
      BY <3>2
    <3> QED
      BY <3>1, <3>2, <3>3, <3>4
  <2>2. ASSUME NEW s \in Sizes,
               ms = <<Call(s), [Result(written + 1, s) EXCEPT !.id = written + 2]>>
        PROVE  <1>2
    <3> DEFINE r == [Result(written + 1, s) EXCEPT !.id = written + 2]
    <3>1. /\ Call(s) \in Messages /\ Call(s).text = "call" /\ Call(s).id = written + 1
          /\ Call(s).of = 0 /\ Call(s).role = "assistant"
          /\ r \in Messages /\ r.text = "whole" /\ r.id = written + 2
          /\ r.of = written + 1 /\ r.role = "tool"
      <4>1. written + 1 \in Nat /\ written + 2 \in Nat
        BY <1>1
      <4>2. Result(written + 1, s) \in Messages /\ Result(written + 1, s).text = "whole"
            /\ Result(written + 1, s).of = written + 1
            /\ Result(written + 1, s).role = "tool"
        BY <4>1, ResultFields
      <4>3. /\ r \in Messages /\ r.text = "whole" /\ r.id = written + 2
            /\ r.of = written + 1 /\ r.role = "tool"
        BY <4>1, <4>2 DEF Messages
      <4> QED
        BY <4>3, WrittenFields
    <3> HIDE DEF r
    <3>2. Len(ms) = 2 /\ ms \in Seq(Messages) /\ ms[1] = Call(s) /\ ms[2] = r
      BY <2>2, <3>1 DEF r
    <3>3. w = written + 2 /\ ms = <<Call(s), r>>
      BY <2>2, <3>2 DEF r
    <3>4. WellFormed(ms, w) /\ NoneCross(ms) /\ \A o : Clear(ms, o)
      BY <1>1, <3>1, <3>3, PairIsWellFormed
    <3>5. \A i \in 1..Len(ms) : i = 1 \/ i = 2
      BY <3>2
    <3> QED
      BY <1>1, <3>1, <3>2, <3>4, <3>5
  <2> QED
    BY <2>1, <2>2 DEF Injected
<1>3. WellFormed(entries, w) /\ w \in Nat /\ written <= w
  BY <1>1, <1>2, WellFormedLater
<1>4. Apart(entries, ms) /\ Apart(ms, entries)
  BY <1>1, <1>2, NewIsApart
<1> HIDE DEF w
<1>5. ASSUME NEW es, WellFormed(es, w), NoneCross(es), open # 0 => Clear(es, open),
             replaceEntries(es)
      PROVE  ManagerInv'
  <2>1. entries' = es /\ written' = w /\ open' = open /\ reserved' = reserved
    BY <1>5 DEF Inject, replaceEntries, w
  <2>2. CountsAgree'
    BY <1>5, <2>1, ReplaceCounts
  <2>3. open' \in 0..written' /\ (open' # 0 => Clear(entries', open'))
    BY <1>1, <1>3, <1>5, <2>1
  <2>4. OpenClear'
    BY <2>3 DEF OpenClear, Clear, Pair
  <2>5. WellFormed(entries', written') /\ NoneCross(entries')
    BY <1>5, <2>1
  <2> QED
    BY <2>2, <2>4, <2>5 DEF ManagerInv, WellFormed, NoneCross, Pair
<1>6. CASE position = "prepend"
  <2>1. replaceEntries(ms \o entries)
    BY <1>6 DEF Inject
  <2>2. /\ WellFormed(ms \o entries, w) /\ NoneCross(ms \o entries)
        /\ \A o : Clear(ms, o) /\ Clear(entries, o) => Clear(ms \o entries, o)
    BY <1>1, <1>2, <1>3, <1>4, ConcatKeeps
  <2> QED
    BY <1>1, <1>2, <1>5, <2>1, <2>2
<1>7. CASE position = "append"
  <2>1. replaceEntries(entries \o ms)
    BY <1>7 DEF Inject
  <2>2. /\ WellFormed(entries \o ms, w) /\ NoneCross(entries \o ms)
        /\ \A o : Clear(entries, o) /\ Clear(ms, o) => Clear(entries \o ms, o)
    BY <1>1, <1>2, <1>3, <1>4, ConcatKeeps
  <2> QED
    BY <1>1, <1>2, <1>5, <2>1, <2>2
<1>8. CASE position = "replace"
  <2>1. replaceEntries(ms)
    BY <1>8 DEF Inject
  <2> QED
    BY <1>2, <1>5, <2>1
<1> QED
  BY <1>6, <1>7, <1>8, PositionsAssumption

LEMMA SetReservedKeeps ==
  ASSUME ManagerInv, NEW r, SetReserved(r)
  PROVE  ManagerInv'
BY DEF ManagerInv, SetReserved, CountsAgree, checkThreshold, WellFormed, NoneCross,
       OpenClear, Clear, Pair

----------------------------------------------------------------------------
(* Compaction. *)

\* The last KeepLast messages of es are those of fs.
SameTail(es, fs) ==
  \A k \in 1..Len(es) :
    k <= KeepLast => k <= Len(fs) /\ fs[Len(fs) + 1 - k] = es[Len(es) + 1 - k]

LEMMA MaskKeepsTail ==
  ASSUME NEW es \in Seq(Messages)
  PROVE  SameTail(es, observationMask(es))
<1>1. Len(es) \in Nat /\ KeepLast \in Nat
  BY Constants
<1>2. Len(observationMask(es)) = Len(es)
  BY <1>1 DEF observationMask
<1>3. ASSUME NEW k \in 1..Len(es), k <= KeepLast
      PROVE  observationMask(es)[Len(es) + 1 - k] = es[Len(es) + 1 - k]
  <2>1. Len(es) + 1 - k \in 1..Len(es) /\ ~(Len(es) + 1 - k + KeepLast <= Len(es))
    BY <1>1, <1>3
  <2> QED
    BY <2>1 DEF observationMask
<1> QED
  BY <1>1, <1>2, <1>3 DEF SameTail

LEMMA ReplacedKeepsTail ==
  ASSUME NEW es \in Seq(Messages), NEW text \in {"marker", "summary"},
         adjustKeepBoundary(es) # 0
  PROVE  SameTail(es, Replaced(es, text))
<1> DEFINE a == adjustKeepBoundary(es)
           fs == Replaced(es, text)
<1>1. Len(es) \in Nat /\ KeepLast \in Nat /\ a \in Nat /\ a + KeepLast <= Len(es)
  BY Constants, CutRange
<1>2. Len(fs) = Len(es) + 1 - a
  BY ReplacedIs
<1>3. \A i \in (a + 1)..Len(es) : fs[i + 1 - a] = es[i]
  BY ReplacedHolds
<1> HIDE DEF a, fs
<1>4. ASSUME NEW k \in 1..Len(es), k <= KeepLast
      PROVE  k <= Len(fs) /\ fs[Len(fs) + 1 - k] = es[Len(es) + 1 - k]
  <2>1. /\ Len(es) + 1 - k \in (a + 1)..Len(es)
        /\ (Len(es) + 1 - k) + 1 - a = Len(fs) + 1 - k /\ k <= Len(fs)
    BY <1>1, <1>2, <1>4
  <2> QED
    BY <1>3, <2>1
<1> QED
  BY <1>4 DEF SameTail, fs

LEMMA SameTailIsTransitive ==
  ASSUME NEW es, NEW fs, NEW gs, Len(es) \in Nat, Len(fs) \in Nat,
         SameTail(es, fs), SameTail(fs, gs)
  PROVE  SameTail(es, gs)
<1> SUFFICES ASSUME NEW k \in 1..Len(es), k <= KeepLast
             PROVE  k <= Len(gs) /\ gs[Len(gs) + 1 - k] = es[Len(es) + 1 - k]
  BY DEF SameTail
<1>1. k \in 1..Len(fs) /\ fs[Len(fs) + 1 - k] = es[Len(es) + 1 - k]
  BY DEF SameTail
<1> QED
  BY <1>1 DEF SameTail

\* What one stage of the cascade after the trimming may do to a history.
Step(es, fs, w) ==
  /\ WellFormed(fs, w) /\ NoneCross(fs)
  /\ Orphans(fs) \subseteq Orphans(es) /\ SameTail(es, fs)

LEMMA NoStep ==
  ASSUME NEW es, NEW w, WellFormed(es, w), NoneCross(es)
  PROVE  Step(es, es, w)
<1>1. Len(es) \in Nat
  BY DEF WellFormed
<1> QED
  BY <1>1 DEF Step, SameTail

LEMMA TwoSteps ==
  ASSUME NEW es, NEW fs, NEW gs, NEW w, WellFormed(es, w), Step(es, fs, w), Step(fs, gs, w)
  PROVE  Step(es, gs, w)
<1>1. Len(es) \in Nat /\ Len(fs) \in Nat
  BY DEF WellFormed, Step
<1> QED
  BY <1>1, SameTailIsTransitive DEF Step

LEMMA MaskStep ==
  ASSUME NEW es, NEW w, WellFormed(es, w), NoneCross(es)
  PROVE  Step(es, observationMask(es), w)
<1>1. es \in Seq(Messages)
  BY DEF WellFormed
<1> QED
  BY <1>1, MaskShape, SameShapeKeeps, MaskKeepsTail DEF Step

LEMMA ReplacedStep ==
  ASSUME NEW es, NEW w, WellFormed(es, w), NoneCross(es), NEW text \in {"marker", "summary"},
         adjustKeepBoundary(es) # 0
  PROVE  Step(es, Replaced(es, text), w)
<1>1. es \in Seq(Messages)
  BY DEF WellFormed
<1> QED
  BY <1>1, ReplacedKeeps, ReplacedLeavesNoneAlone, ReplacedKeepsTail DEF Step

\* Nothing that could go is left but a message that stands for others.
Enough(es) == BestCut(es) = 0 \/ (BestCut(es) = 1 /\ es[1].text \in {"marker", "summary"})

LEMMA ReplacedEnough ==
  ASSUME NEW es, NEW w, WellFormed(es, w), NoneCross(es), NEW text \in {"marker", "summary"},
         adjustKeepBoundary(es) # 0
  PROVE  Enough(Replaced(es, text))
<1>1. es \in Seq(Messages)
  BY DEF WellFormed
<1>2. Replaced(es, text)[1] = Marker(text)
  BY <1>1, ReplacedIs
<1> QED
  BY <1>2, ReplacedIsEnough, MarkerFields DEF Enough

LEMMA StagesStep ==
  ASSUME NEW es, NEW w, WellFormed(es, w), NoneCross(es)
  PROVE  /\ WellFormed(budgetTrim(es), w) /\ NoneCross(budgetTrim(es))
         /\ Orphans(budgetTrim(es)) = Orphans(es)
         /\ Step(budgetTrim(es), Stages(es), w)
         /\ ~usageRatioMet(Stages(es)) => Enough(Stages(es))
<1> DEFINE trimmed == budgetTrim(es)
           masked  == IF usageRatioMet(trimmed) THEN trimmed ELSE observationMask(trimmed)
<1>1. WellFormed(trimmed, w) /\ NoneCross(trimmed) /\ Orphans(trimmed) = Orphans(es)
  <2>1. SameShape(es, trimmed)
    BY TrimShape DEF WellFormed
  <2> QED
    BY <2>1, SameShapeKeeps
<1> HIDE DEF trimmed
<1>2. Step(trimmed, masked, w)
  BY <1>1, NoStep, MaskStep
<1>3. WellFormed(masked, w) /\ NoneCross(masked)
  BY <1>2 DEF Step
<1>4. Stages(es) = IF usageRatioMet(masked) THEN masked ELSE Replaced(masked, "marker")
  BY DEF Stages, snip, trimmed
<1> HIDE DEF masked
<1>5. CASE usageRatioMet(masked)
  BY <1>1, <1>2, <1>4, <1>5 DEF trimmed
<1>6. CASE ~usageRatioMet(masked) /\ adjustKeepBoundary(masked) = 0
  <2>1. Stages(es) = masked
    BY <1>4, <1>6 DEF Replaced
  <2>2. Enough(masked)
    BY <1>3, <1>6, CutIsBest DEF Enough
  <2> QED
    BY <1>1, <1>2, <2>1, <2>2 DEF trimmed
<1>7. CASE ~usageRatioMet(masked) /\ adjustKeepBoundary(masked) # 0
  <2>1. Stages(es) = Replaced(masked, "marker")
    BY <1>4, <1>7
  <2>2. Step(masked, Replaced(masked, "marker"), w) /\ Enough(Replaced(masked, "marker"))
    BY <1>3, <1>7, ReplacedStep, ReplacedEnough
  <2>3. Step(trimmed, Stages(es), w)
    BY <1>1, <1>2, <2>1, <2>2, TwoSteps
  <2> QED
    BY <1>1, <2>1, <2>2, <2>3 DEF trimmed
<1> QED
  BY <1>5, <1>6, <1>7

\* Compact either leaves the history alone or puts there what the stages leave of it.
LEMMA CompactStep ==
  ASSUME ManagerInv, NEW summarizer, Compact(summarizer)
  PROVE  /\ written' = written /\ reserved' = reserved /\ open' = open /\ open = 0
         /\ \/ entries' = entries /\ tokenCount' = tokenCount /\ exceeded' = exceeded
            \/ /\ replaceEntries(entries')
               /\ Step(budgetTrim(entries), entries', written)
               /\ Orphans(budgetTrim(entries)) = Orphans(entries)
               /\ usageRatioMet(entries') \/ Enough(entries')
<1> DEFINE left == Stages(entries)
<1>1. WellFormed(entries, written) /\ NoneCross(entries)
  BY DEF ManagerInv
<1>2. /\ Step(budgetTrim(entries), left, written)
      /\ WellFormed(budgetTrim(entries), written)
      /\ Orphans(budgetTrim(entries)) = Orphans(entries)
      /\ ~usageRatioMet(left) => Enough(left)
  BY <1>1, StagesStep
<1>3. WellFormed(left, written) /\ NoneCross(left)
  BY <1>2 DEF Step
<1>4. written' = written /\ reserved' = reserved /\ open' = open /\ open = 0
  BY DEF Compact
<1>5. \/ replaceEntries(left)
      \/ entries' = entries /\ tokenCount' = tokenCount /\ exceeded' = exceeded
      \/ /\ replaceEntries(Replaced(left, "summary"))
         /\ adjustKeepBoundary(left) # 0
  BY DEF Compact
<1> HIDE DEF left
<1>6. CASE replaceEntries(left)
  <2>1. entries' = left
    BY <1>6 DEF replaceEntries
  <2> QED
    BY <1>2, <1>4, <1>6, <2>1
<1>7. CASE /\ replaceEntries(Replaced(left, "summary"))
           /\ adjustKeepBoundary(left) # 0
  <2>1. entries' = Replaced(left, "summary")
    BY <1>7 DEF replaceEntries
  <2>2. Step(left, Replaced(left, "summary"), written) /\ Enough(Replaced(left, "summary"))
    BY <1>3, <1>7, ReplacedStep, ReplacedEnough
  <2>3. Step(budgetTrim(entries), Replaced(left, "summary"), written)
    BY <1>2, <2>2, TwoSteps
  <2> QED
    BY <1>2, <1>4, <1>7, <2>1, <2>2, <2>3
<1> QED
  BY <1>4, <1>5, <1>6, <1>7

LEMMA CompactKeeps ==
  ASSUME ManagerInv, NEW summarizer, Compact(summarizer)
  PROVE  ManagerInv'
<1>1. CASE entries' = entries /\ tokenCount' = tokenCount /\ exceeded' = exceeded
  BY <1>1, CompactStep DEF ManagerInv, CountsAgree, WellFormed, NoneCross, OpenClear,
                           Clear, Pair
<1>2. CASE replaceEntries(entries') /\ Step(budgetTrim(entries), entries', written)
  <2>1. reserved' = reserved /\ written' = written /\ open' = open /\ open = 0
    BY CompactStep
  <2>2. CountsAgree'
    BY <1>2, <2>1, ReplaceCounts
  <2>3. WellFormed(entries', written') /\ NoneCross(entries')
    BY <1>2, <2>1 DEF Step
  <2>4. OpenClear'
    BY <2>1, <2>3 DEF OpenClear, WellFormed
  <2> QED
    BY <2>2, <2>3, <2>4 DEF ManagerInv, WellFormed, NoneCross, Pair
<1> QED
  BY <1>1, <1>2, CompactStep

\* The invariant behind the theorems about the history.
THEOREM ManagerInvariant == ManagerSpec => []ManagerInv
<1>1. ManagerInit => ManagerInv
  BY ManagerInitHolds
<1>2. ManagerInv /\ [ManagerNext]_managerVars => ManagerInv'
  <2> SUFFICES ASSUME ManagerInv, [ManagerNext]_managerVars PROVE ManagerInv'
    OBVIOUS
  <2>1. CASE \E s \in Sizes : AddMessage(s) \/ AddCall(s) \/ AddResult(s)
    BY <2>1, AddMessageKeeps, AddCallKeeps, AddResultKeeps
  <2>2. CASE \E ms \in Injected, position \in Positions : Inject(ms, position)
    BY <2>2, InjectKeeps
  <2>3. CASE \E r \in Reserves : SetReserved(r)
    BY <2>3, SetReservedKeeps
  <2>4. CASE \E summarizer \in {"none", "answers", "fails"} : Compact(summarizer)
    BY <2>4, CompactKeeps
  <2>5. CASE UNCHANGED managerVars
    BY <2>5 DEF managerVars, ManagerInv, CountsAgree, WellFormed, NoneCross, OpenClear,
                Clear, Pair
  <2> QED
    BY <2>1, <2>2, <2>3, <2>4, <2>5 DEF ManagerNext
<1> QED
  BY <1>1, <1>2, PTL DEF ManagerSpec

\* The running token count and what the observers were told agree with the
\* messages that are there, after any adding, injecting and compacting.
THEOREM CountsDoAgree == ManagerSpec => []CountsAgree
<1>1. ManagerInv => CountsAgree
  BY DEF ManagerInv
<1> QED
  BY <1>1, ManagerInvariant, PTL

\* Only a compaction writes no message and leaves the reserve alone.
LEMMA OnlyCompaction ==
  ASSUME ManagerInv, ManagerNext, Compacting
  PROVE  \E summarizer \in {"none", "answers", "fails"} : Compact(summarizer)
<1>1. written \in Nat
  BY DEF ManagerInv, WellFormed
<1>2. ASSUME NEW m, Add(m) PROVE FALSE
  BY <1>1, <1>2 DEF Add, Compacting
<1>3. ASSUME NEW ms \in Injected, NEW position, Inject(ms, position) PROVE FALSE
  <2>1. Len(ms) \in {1, 2}
    BY DEF Injected
  <2>2. written' = written + Len(ms) /\ written' = written
    BY <1>3 DEF Inject, Compacting
  <2> QED
    BY <1>1, <2>1, <2>2
<1>4. ASSUME NEW r, SetReserved(r) PROVE FALSE
  BY <1>4 DEF SetReserved, Compacting
<1> QED
  BY <1>2, <1>3, <1>4 DEF ManagerNext, AddMessage, AddCall, AddResult

\* No compaction leaves a tool result without its call, whatever was injected
\* between the two (compaction.go: adjustKeepBoundary).
THEOREM PairsDoSurvive == ManagerSpec => PairsSurvive
<1>1. ManagerInv /\ [ManagerNext]_managerVars =>
        [Compacting => Orphans(entries') \subseteq Orphans(entries)]_managerVars
  <2> SUFFICES ASSUME ManagerInv, ManagerNext, Compacting
               PROVE  Orphans(entries') \subseteq Orphans(entries)
    OBVIOUS
  <2>1. PICK summarizer \in {"none", "answers", "fails"} : Compact(summarizer)
    BY OnlyCompaction
  <2> QED
    BY <2>1, CompactStep DEF Step
<1> QED
  BY <1>1, ManagerInvariant, PTL DEF ManagerSpec, PairsSurvive

\* A compaction that is not enough leaves no message that could have gone.
THEOREM CompactsEnough == ManagerSpec => CompactedEnough
<1> DEFINE P == Compacting /\ entries' # entries =>
                  \/ usageRatioMet(entries)'
                  \/ BestCut(entries') = 0
                  \/ BestCut(entries') = 1 /\ entries'[1].text \in {"marker", "summary"}
<1>1. ManagerInv /\ [ManagerNext]_managerVars => [P]_managerVars
  <2> SUFFICES ASSUME ManagerInv, ManagerNext, Compacting, entries' # entries
               PROVE  usageRatioMet(entries)' \/ Enough(entries')
    BY DEF Enough
  <2>1. PICK summarizer \in {"none", "answers", "fails"} : Compact(summarizer)
    BY OnlyCompaction
  <2>2. usageRatioMet(entries') \/ Enough(entries')
    BY <2>1, CompactStep
  <2>3. reserved' = reserved
    BY DEF Compacting
  <2>4. usageRatioMet(entries') => usageRatioMet(entries)'
    BY <2>3 DEF usageRatioMet
  <2> QED
    BY <2>2, <2>4
<1> QED
  BY <1>1, ManagerInvariant, PTL DEF ManagerSpec, CompactedEnough

\* The last KeepLast messages come through a compaction as they are, but for tool
\* results over the budget (docs/api/concepts/compaction.md, stages).
THEOREM ProtectedAreKept == ManagerSpec => ProtectedKept
<1> DEFINE Same(k) ==
             LET old == entries[Len(entries) + 1 - k]
                 new == entries'[Len(entries') + 1 - k]
             IN \/ new = old
                \/ /\ old.role = "tool" /\ old.size > Budget
                   /\ new = [old EXCEPT !.text = "trimmed", !.size = TrimmedSize]
           P == Compacting => \A k \in 1..Min({KeepLast, Len(entries)}) : Same(k)
<1>1. ManagerInv /\ [ManagerNext]_managerVars => [P]_managerVars
  <2> SUFFICES ASSUME ManagerInv, ManagerNext, Compacting,
                      NEW k \in 1..Min({KeepLast, Len(entries)})
               PROVE  Same(k)
    OBVIOUS
  <2>1. entries \in Seq(Messages) /\ Len(entries) \in Nat /\ KeepLast \in Nat
    BY Constants DEF ManagerInv, WellFormed
  <2>2. k \in 1..Len(entries) /\ k <= KeepLast
    BY <2>1, MinOfTwo
  <2>3. PICK summarizer \in {"none", "answers", "fails"} : Compact(summarizer)
    BY OnlyCompaction
  <2>4. CASE entries' = entries
    BY <2>4
  <2>5. CASE SameTail(budgetTrim(entries), entries')
    <3>1. Len(budgetTrim(entries)) = Len(entries)
      BY <2>1 DEF budgetTrim
    <3>2. entries'[Len(entries') + 1 - k] = budgetTrim(entries)[Len(entries) + 1 - k]
      BY <2>2, <2>5, <3>1 DEF SameTail
    <3>3. Len(entries) + 1 - k \in 1..Len(entries)
      BY <2>1, <2>2
    <3> QED
      BY <3>2, <3>3 DEF budgetTrim
  <2> QED
    BY <2>3, <2>4, <2>5, CompactStep DEF Step
<1> QED
  BY <1>1, ManagerInvariant, PTL DEF ManagerSpec, ProtectedKept
=============================================================================
