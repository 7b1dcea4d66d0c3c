-------------------------- MODULE TopicPatternProofs --------------------------
(***************************************************************************)
(* Proofs about TopicPattern, for words of any kind and topics of any      *)
(* length.                                                                 *)
(***************************************************************************)
EXTENDS TopicPattern, TLAPS, FiniteSetTheorems, SequenceTheorems, WellFoundedInduction

-----------------------------------------------------------------------------
(* The sequence of the elements of a set.                                  *)

LEMMA LeastOf ==
  ASSUME NEW S \in SUBSET Nat, S # {}
  PROVE  \E m \in S : \A x \in S : m <= x
<1>1. IsWellFoundedOn({ss \in Nat \X Nat : ss[1] < ss[2]}, Nat)
  BY NatLessThanWellFounded DEF OpToRel
<1>2. \E m \in S : \A x \in S : ~(<<x, m>> \in {ss \in Nat \X Nat : ss[1] < ss[2]})
  BY <1>1, WFMin
<1>3. PICK m \in S : \A x \in S : ~(<<x, m>> \in {ss \in Nat \X Nat : ss[1] < ss[2]})
  BY <1>2
<1>4. ASSUME NEW x \in S PROVE m <= x
  <2>1. x \in Nat /\ m \in Nat /\ <<x, m>> \in Nat \X Nat
    OBVIOUS
  <2>2. ~(x < m)
    BY <1>3, <2>1
  <2>. QED BY <2>1, <2>2
<1>. QED BY <1>4

(* The sets of n numbers that have no order are none: the least n of which *)
(* there were one would have a lesser.                                     *)
Unsorted(n) ==
  \E S \in SUBSET Nat :
    /\ IsFiniteSet(S) /\ Cardinality(S) = n
    /\ ~\E f \in [1 .. n -> S] : Ascends(f)

LEMMA Extends ==
  ASSUME NEW S \in SUBSET Nat, NEW n \in Nat, NEW m \in S, \A x \in S : m <= x,
         NEW f \in [1 .. n - 1 -> S \ {m}], Ascends(f)
  PROVE  \E g \in [1 .. n -> S] : Ascends(g)
<1> DEFINE g == [i \in 1 .. n |-> IF i = 1 THEN m ELSE f[i - 1]]
<1>1. \A i \in 1 .. n : i # 1 => i - 1 \in 1 .. n - 1 /\ f[i - 1] \in S \ {m}
  OBVIOUS
<1>2. g \in [1 .. n -> S]
  BY <1>1
<1>3. ASSUME NEW i \in 1 .. n, NEW j \in 1 .. n, i < j PROVE g[i] < g[j]
  <2>1. j # 1 /\ g[j] = f[j - 1]
    BY <1>3
  <2>2. CASE i = 1
    <3>1. f[j - 1] \in S /\ f[j - 1] # m /\ g[i] = m
      BY <1>1, <2>1, <2>2
    <3>2. m \in Nat /\ f[j - 1] \in Nat /\ m <= f[j - 1]
      BY <3>1
    <3>. QED BY <2>1, <3>1, <3>2
  <2>3. CASE i # 1
    <3>1. i - 1 \in 1 .. n - 1 /\ j - 1 \in 1 .. n - 1 /\ i - 1 < j - 1 /\ g[i] = f[i - 1]
      BY <1>3, <2>3
    <3>. QED BY <2>1, <3>1 DEF Ascends
  <2>. QED BY <2>2, <2>3
<1>. QED BY <1>2, <1>3 DEF Ascends

LEMMA NoneUnsorted == \A n \in Nat : ~Unsorted(n)
<1> DEFINE N == {n \in Nat : Unsorted(n)}
<1> SUFFICES ASSUME N # {} PROVE FALSE
  OBVIOUS
<1>1. PICK n \in N : \A k \in N : n <= k
  BY LeastOf
<1>2. PICK S \in SUBSET Nat : /\ IsFiniteSet(S) /\ Cardinality(S) = n
                              /\ ~\E f \in [1 .. n -> S] : Ascends(f)
  BY DEF Unsorted
<1>3. CASE S = {}
  <2>1. n = 0
    BY <1>2, <1>3, FS_EmptySet
  <2>2. [i \in {} |-> i] \in [1 .. n -> S] /\ Ascends([i \in {} |-> i])
    BY <2>1 DEF Ascends
  <2>. QED BY <1>2, <2>2
<1>4. CASE S # {}
  <2>1. PICK m \in S : \A x \in S : m <= x
    BY <1>4, LeastOf
  <2>2. IsFiniteSet(S \ {m}) /\ Cardinality(S \ {m}) = n - 1
    BY <1>2, FS_RemoveElement
  <2>3. n - 1 \in Nat
    BY <2>2, FS_CardinalityType
  <2>4. ~Unsorted(n - 1)
    BY <1>1, <2>3
  <2>5. \E f \in [1 .. n - 1 -> S \ {m}] : Ascends(f)
    BY <2>2, <2>4 DEF Unsorted
  <2>. QED BY <1>2, <2>1, <2>5, Extends
<1>. QED BY <1>3, <1>4

LEMMA SortedAscends ==
  ASSUME NEW S \in SUBSET Nat, IsFiniteSet(S)
  PROVE  /\ Cardinality(S) \in Nat
         /\ Sorted(S) \in [1 .. Cardinality(S) -> S]
         /\ Ascends(Sorted(S))
<1>1. Cardinality(S) \in Nat
  BY FS_CardinalityType
<1>2. \E f \in [1 .. Cardinality(S) -> S] : Ascends(f)
  BY <1>1, NoneUnsorted DEF Unsorted
<1>. QED BY <1>1, <1>2 DEF Sorted

LEMMA AscendsStrictly ==
  ASSUME NEW S \in SUBSET Nat, NEW n \in Nat, NEW f \in [1 .. n -> S], Ascends(f),
         NEW i \in 1 .. n, NEW j \in 1 .. n
  PROVE  (i = j <=> f[i] = f[j]) /\ (i <= j <=> f[i] <= f[j])
<1>1. f[i] \in Nat /\ f[j] \in Nat
  <2>1. f[i] \in S /\ f[j] \in S
    OBVIOUS
  <2>. QED BY <2>1
<1>2. (i < j => f[i] < f[j]) /\ (j < i => f[j] < f[i])
  BY DEF Ascends
<1>3. i \in Nat /\ j \in Nat
  OBVIOUS
<1>. QED BY <1>1, <1>2, <1>3

(* The sequence has all that is in the set. *)
LEMMA SortedHasAll ==
  ASSUME NEW S \in SUBSET Nat, IsFiniteSet(S), NEW x \in S
  PROVE  \E i \in 1 .. Cardinality(S) : Sorted(S)[i] = x
<1> DEFINE n == Cardinality(S)
           f == Sorted(S)
<1>1. n \in Nat /\ f \in [1 .. n -> S] /\ Ascends(f)
  BY SortedAscends
<1>2. IsFiniteSet(1 .. n) /\ Cardinality(1 .. n) = n
  BY <1>1, FS_Interval
<1> HIDE DEF n, f
<1>3. ASSUME NEW i \in 1 .. n, NEW j \in 1 .. n
      PROVE  (i = j <=> f[i] = f[j]) /\ (i <= j <=> f[i] <= f[j])
  BY <1>1, AscendsStrictly
<1>4. f \in Injection(1 .. n, S)
  BY <1>1, <1>3 DEF Injection, IsInjective
<1> USE DEF n, f
<1>5. f \in Surjection(1 .. n, S)
  BY <1>2, <1>4, FS_Injection
<1>. QED BY <1>5 DEF Surjection

(* An element stands at the number of those that are not greater.          *)
LEMMA SortedRank ==
  ASSUME NEW S \in SUBSET Nat, IsFiniteSet(S), NEW x \in S
  PROVE  LET rank == Cardinality({y \in S : y <= x})
         IN rank \in 1 .. Cardinality(S) /\ Sorted(S)[rank] = x
<1> DEFINE n == Cardinality(S)
           f == Sorted(S)
           T == {y \in S : y <= x}
<1>1. n \in Nat /\ f \in [1 .. n -> S] /\ Ascends(f)
  BY SortedAscends
<1>2. PICK k \in 1 .. n : f[k] = x
  BY SortedHasAll
<1>3. ASSUME NEW i \in 1 .. n, NEW j \in 1 .. n
      PROVE  (i = j <=> f[i] = f[j]) /\ (i <= j <=> f[i] <= f[j])
  BY <1>1, AscendsStrictly
<1> DEFINE g == [i \in 1 .. k |-> f[i]]
<1>4. g \in [1 .. k -> T]
  BY <1>1, <1>2, <1>3
<1>5. ASSUME NEW y \in T PROVE \E i \in 1 .. k : g[i] = y
  <2>1. PICK i \in 1 .. n : f[i] = y
    BY SortedHasAll
  <2>2. i <= k
    BY <1>2, <1>3, <2>1
  <2>. QED BY <2>1, <2>2
<1>6. \A i, j \in 1 .. k : g[i] = g[j] => i = j
  BY <1>1, <1>3
<1>7. g \in Bijection(1 .. k, T)
  BY <1>4, <1>5, <1>6 DEF Bijection, Injection, Surjection, IsInjective
<1>8. IsFiniteSet(1 .. k) /\ Cardinality(1 .. k) = k
  BY FS_Interval
<1>9. Cardinality(T) = k
  BY <1>7, <1>8, FS_Bijection DEF ExistsBijection
<1>. QED BY <1>2, <1>9

-----------------------------------------------------------------------------
(* Sequences in two parts.                                                 *)
LEMMA SplitAt ==
  ASSUME NEW S, NEW u \in Seq(S), NEW l \in 0 .. Len(u),
         NEW head, head = [i \in 1 .. l |-> u[i]],
         NEW tail, tail = SubSeq(u, l + 1, Len(u))
  PROVE  /\ head \in Seq(S) /\ Len(head) = l
         /\ tail \in Seq(S) /\ Len(tail) = Len(u) - l
         /\ u = head \o tail
<1>1. Len(u) \in Nat /\ \A i \in 1 .. Len(u) : u[i] \in S
  OBVIOUS
<1>2. head \in Seq(S) /\ Len(head) = l
  BY <1>1
<1>3. tail \in Seq(S) /\ Len(tail) = Len(u) - l
  BY <1>1
<1>4. \A i \in 1 .. Len(u) - l : tail[i] = u[l + i]
  BY <1>1
<1>5. head \o tail \in Seq(S) /\ Len(head \o tail) = Len(u)
  BY <1>1, <1>2, <1>3, ConcatProperties
<1>6. ASSUME NEW i \in 1 .. Len(u) PROVE (head \o tail)[i] = u[i]
  <2>1. (head \o tail)[i] = IF i <= l THEN head[i] ELSE tail[i - l]
    BY <1>1, <1>2, <1>3, ConcatProperties
  <2>2. CASE i <= l
    BY <1>1, <2>1, <2>2
  <2>3. CASE ~(i <= l)
    <3>1. i - l \in 1 .. Len(u) - l /\ l + (i - l) = i
      BY <1>1, <2>3
    <3>2. tail[i - l] = u[i]
      BY <1>4, <3>1
    <3>. QED BY <2>1, <2>3, <3>2
  <2>. QED BY <2>2, <2>3
<1>. QED BY <1>2, <1>3, <1>5, <1>6, SeqEqual

-----------------------------------------------------------------------------
(* The levels of a topic or pattern.                                       *)
LEMMA TopicIsSeq ==
  ASSUME NEW words, NEW n \in Nat
  PROVE  \A u : u \in Topics(words, n) <=> u \in Seq(words) /\ Len(u) <= n
<1> SUFFICES ASSUME NEW u PROVE u \in Topics(words, n) <=> u \in Seq(words) /\ Len(u) <= n
  OBVIOUS
<1>1. ASSUME u \in Topics(words, n) PROVE u \in Seq(words) /\ Len(u) <= n
  <2>1. PICK k \in 0 .. n : u \in [1 .. k -> words]
    BY <1>1 DEF Topics
  <2>. QED BY <2>1
<1>2. ASSUME u \in Seq(words), Len(u) <= n PROVE u \in Topics(words, n)
  <2>1. Len(u) \in 0 .. n /\ u \in [1 .. Len(u) -> words]
    BY <1>2, LenProperties
  <2>. QED BY <2>1 DEF Topics
<1>. QED BY <1>1, <1>2

(* A pattern is its levels, and "#" behind them if it is open.             *)
IsPattern(p, words) ==
  /\ p \in Seq(words \cup {"*", "#"})
  /\ \A i \in 1 .. Levels(p) : p[i] \in words \cup {"*"}
  /\ Levels(p) \in Nat
  /\ IF Open(p) THEN Len(p) = Levels(p) + 1 /\ p[Len(p)] = "#" ELSE Len(p) = Levels(p)

LEMMA PatternLevels ==
  ASSUME NEW words, NEW n \in Nat, NEW p \in Patterns(words, n)
  PROVE  IsPattern(p, words) /\ Levels(p) <= n
<1>1. p \in Seq(words \cup {"*", "#"}) /\ Len(p) <= n /\ \A i \in DOMAIN p : p[i] = "#" => i = Len(p)
  BY TopicIsSeq DEF Patterns
<1>2. Len(p) \in Nat /\ DOMAIN p = 1 .. Len(p) /\ \A i \in 1 .. Len(p) : p[i] \in words \cup {"*", "#"}
  BY <1>1
<1>3. CASE Open(p)
  <2>1. PICK i \in 1 .. Len(p) : p[i] = "#"
    BY <1>2, <1>3 DEF Open
  <2>2. i = Len(p)
    BY <1>1, <1>2, <2>1
  <2>3. Levels(p) = Len(p) - 1 /\ Levels(p) \in Nat
    BY <1>2, <1>3, <2>2 DEF Levels
  <2>4. \A k \in 1 .. Levels(p) : p[k] # "#" /\ k \in 1 .. Len(p)
    BY <1>1, <1>2, <2>3
  <2>. QED BY <1>1, <1>2, <1>3, <2>1, <2>2, <2>3, <2>4 DEF IsPattern
<1>4. CASE ~Open(p)
  <2>1. Levels(p) = Len(p)
    BY <1>4 DEF Levels
  <2>2. \A i \in 1 .. Len(p) : p[i] # "#"
    BY <1>2, <1>4 DEF Open
  <2>. QED BY <1>1, <1>2, <1>4, <2>1, <2>2 DEF IsPattern
<1>. QED BY <1>3, <1>4

-----------------------------------------------------------------------------
(* A topic matches itself.                                                 *)
LEMMA MatchesItself ==
  ASSUME NEW words, NEW u \in Seq(words)
  PROVE  Match(u, u)
<1>1. Len(u) \in Nat /\ DOMAIN u = 1 .. Len(u)
  OBVIOUS
<1>2. Levels(u) <= Len(u) /\ Levels(u) \in Int
  BY <1>1 DEF Levels
<1>. QED BY <1>1, <1>2 DEF Match, Agree

(* The topics that match a pattern are those that it stands for: some      *)
(* words in place of each "*", and any words in place of "#".              *)
LEMMA MatchMeans ==
  ASSUME NEW words, NEW n \in Nat, NEW p, IsPattern(p, words)
  PROVE  {u \in Topics(words, n) : Match(u, p)} = Meaning(p, words, n)
<1>1. PICK l : l = Levels(p) /\ l \in Nat
  BY DEF IsPattern
<1>2. ASSUME NEW u \in Topics(words, n), Match(u, p) PROVE u \in Meaning(p, words, n)
  <2>1. u \in Seq(words) /\ Len(u) \in Nat /\ Len(u) <= n
    BY TopicIsSeq
  <2>2. l \in 0 .. Len(u) /\ (~Open(p) => Len(u) = l)
    BY <1>1, <1>2, <2>1 DEF Match, IsPattern
  <2>3. PICK head, tail : head = [i \in 1 .. l |-> u[i]] /\ tail = SubSeq(u, l + 1, Len(u))
    OBVIOUS
  <2>4. /\ head \in Seq(words) /\ Len(head) = l
        /\ tail \in Seq(words) /\ Len(tail) = Len(u) - l
        /\ u = head \o tail
    BY <2>1, <2>2, <2>3, SplitAt
  <2>5. Len(tail) <= n /\ (~Open(p) => tail = <<>>)
    BY <2>1, <2>2, <2>4
  <2>6. tail \in Topics(words, n) /\ head \in [1 .. l -> words]
    BY <1>1, <2>1, <2>4, <2>5, TopicIsSeq
  <2>7. u = head \o (IF Open(p) THEN tail ELSE <<>>)
    BY <2>4, <2>5
  <2>8. \A i \in 1 .. l : p[i] \in {"*", head[i]}
    BY <1>1, <1>2, <2>3 DEF Match, Agree
  <2>. QED BY <1>1, <2>6, <2>7, <2>8 DEF Meaning
<1>3. ASSUME NEW u \in Meaning(p, words, n) PROVE Match(u, p)
  <2>1. PICK tail \in Topics(words, n), head \in [1 .. l -> words] :
          /\ u = head \o (IF Open(p) THEN tail ELSE <<>>)
          /\ \A i \in 1 .. l : p[i] \in {"*", head[i]}
    BY <1>1 DEF Meaning
  <2>2. tail \in Seq(words) /\ Len(tail) \in Nat /\ head \in Seq(words) /\ Len(head) = l
    BY <1>1, TopicIsSeq
  <2>3. PICK rest : rest = IF Open(p) THEN tail ELSE <<>>
    OBVIOUS
  <2>4. rest \in Seq(words) /\ Len(rest) = IF Open(p) THEN Len(tail) ELSE 0
    BY <2>2, <2>3
  <2>5. u = head \o rest
    BY <2>1, <2>3
  <2>6. Len(u) = l + Len(rest)
    BY <2>2, <2>4, <2>5, ConcatProperties
  <2>7. ASSUME NEW i \in 1 .. l PROVE u[i] = head[i]
    BY <1>1, <2>2, <2>4, <2>5, ConcatProperties
  <2>8. Agree(u, p)
    BY <1>1, <2>1, <2>2, <2>4, <2>6, <2>7 DEF Agree
  <2>. QED BY <1>1, <2>2, <2>4, <2>6, <2>8 DEF Match, IsPattern
<1>. QED BY <1>2, <1>3 DEF Meaning

-----------------------------------------------------------------------------
(* Two patterns agree on the levels that both have, and there is a number  *)
(* of levels that fits both.                                               *)
LevelsMeet(p, q) ==
  /\ \A j \in 1 .. Levels(p) : j <= Levels(q) => Compatible(p[j], q[j])
  /\ ~Open(p) => IF Open(q) THEN Levels(q) <= Levels(p) ELSE Levels(p) = Levels(q)
  /\ ~Open(q) => IF Open(p) THEN Levels(p) <= Levels(q) ELSE Levels(p) = Levels(q)

LEMMA OpenIsLast ==
  ASSUME NEW words, "#" \notin words, NEW p, IsPattern(p, words), NEW i \in Nat
  PROVE  OpenAt(p, i) <=> Open(p) /\ i = Levels(p) + 1
<1>1. Len(p) \in Nat /\ DOMAIN p = 1 .. Len(p)
  BY DEF IsPattern
<1>2. \A j \in 1 .. Levels(p) : p[j] # "#"
  BY DEF IsPattern
<1>. QED BY <1>1, <1>2 DEF IsPattern, OpenAt, Open

LEMMA IntersectLevels ==
  ASSUME NEW words, "#" \notin words,
         NEW p, IsPattern(p, words), NEW q, IsPattern(q, words)
  PROVE  Intersect(p, q) <=> LevelsMeet(p, q)
<1> DEFINE wild == {i \in Common(p, q) : OpenAt(p, i) \/ OpenAt(q, i)}
           before(i) == \A j \in Common(p, q) : j < i => Compatible(p[j], q[j])
           next == (IF Len(p) < Len(q) THEN Len(p) ELSE Len(q)) + 1
<1>1. PICK l, m : /\ l = Levels(p) /\ l \in Nat /\ Len(p) = IF Open(p) THEN l + 1 ELSE l
                  /\ m = Levels(q) /\ m \in Nat /\ Len(q) = IF Open(q) THEN m + 1 ELSE m
  BY DEF IsPattern
<1>2. \A i \in Nat : OpenAt(p, i) <=> Open(p) /\ i = l + 1
  BY <1>1, OpenIsLast
<1>3. \A i \in Nat : OpenAt(q, i) <=> Open(q) /\ i = m + 1
  BY <1>1, OpenIsLast
<1>4. Common(p, q) = 1 .. next - 1 /\ next \in Nat \ {0}
  BY <1>1 DEF Common
<1>5. Intersect(p, q) <=> \/ \E i \in wild : before(i)
                          \/ /\ wild = {} /\ before(next)
                             /\ Len(p) = Len(q) \/ OpenAt(p, next) \/ OpenAt(q, next)
  BY DEF Intersect
<1>6. \A i \in Nat : i \in wild <=> i \in 1 .. next - 1 /\ ((Open(p) /\ i = l + 1) \/ (Open(q) /\ i = m + 1))
  <2> SUFFICES ASSUME NEW i \in Nat
               PROVE  i \in wild <=> i \in 1 .. next - 1 /\ ((Open(p) /\ i = l + 1) \/ (Open(q) /\ i = m + 1))
    OBVIOUS
  <2> HIDE DEF next
  <2>1. i \in wild <=> i \in 1 .. next - 1 /\ (OpenAt(p, i) \/ OpenAt(q, i))
    BY <1>4
  <2>2. OpenAt(p, i) <=> Open(p) /\ i = l + 1
    BY <1>2
  <2>3. OpenAt(q, i) <=> Open(q) /\ i = m + 1
    BY <1>3
  <2> HIDE DEF wild
  <2>. QED BY <2>1, <2>2, <2>3
<1>7. \A i \in Nat : before(i) <=> \A j \in 1 .. next - 1 : j < i => Compatible(p[j], q[j])
  BY <1>4
<1>8. \A i \in wild : i \in Nat
  BY <1>4
<1>9. LevelsMeet(p, q) <=> /\ \A j \in 1 .. l : j <= m => Compatible(p[j], q[j])
                           /\ ~Open(p) => IF Open(q) THEN m <= l ELSE l = m
                           /\ ~Open(q) => IF Open(p) THEN l <= m ELSE l = m
  BY <1>1 DEF LevelsMeet
<1>10. next = (IF Len(p) < Len(q) THEN Len(p) ELSE Len(q)) + 1
  OBVIOUS
<1> HIDE DEF wild, before, next
<1>11. CASE Open(p) /\ Open(q)
  <2>1. PICK i : i = next - 1 /\ i \in Nat /\ i = (IF l < m THEN l ELSE m) + 1
    BY <1>1, <1>4, <1>10, <1>11
  <2>2. i \in wild
    BY <1>1, <1>6, <1>11, <2>1
  <2>3. ASSUME NEW k \in wild, before(k) PROVE before(i)
    <3>1. k \in Nat /\ i <= k
      BY <1>1, <1>6, <1>8, <1>11, <2>1
    <3>. QED BY <1>7, <2>1, <2>3, <3>1
  <2>4. Intersect(p, q) <=> before(i)
    BY <1>5, <2>2, <2>3
  <2>5. before(i) <=> \A j \in 1 .. l : j <= m => Compatible(p[j], q[j])
    <3>1. ASSUME NEW j PROVE j \in 1 .. next - 1 /\ j < i <=> j \in 1 .. l /\ j <= m
      BY <1>1, <2>1
    <3>2. before(i) <=> \A j \in 1 .. next - 1 : j < i => Compatible(p[j], q[j])
      BY <1>7, <2>1
    <3>. QED BY <3>1, <3>2
  <2>. QED BY <1>9, <1>11, <2>4, <2>5
<1>12. CASE Open(p) /\ ~Open(q)
  <2>1. CASE l < m
    <3>1. l + 1 \in wild /\ \A i \in wild : i = l + 1
      <4>1. l + 1 \in Nat /\ l + 1 \in 1 .. next - 1
        BY <1>1, <1>10, <1>12, <2>1
      <4>2. l + 1 \in wild
        BY <1>6, <1>12, <4>1
      <4>3. ASSUME NEW i \in wild PROVE i = l + 1
        BY <1>6, <1>8, <1>12
      <4>. QED BY <4>2, <4>3
    <3>2. before(l + 1) <=> \A j \in 1 .. l : j <= m => Compatible(p[j], q[j])
      BY <1>1, <1>7, <1>10, <1>12, <2>1
    <3>. QED BY <1>1, <1>5, <1>9, <1>12, <2>1, <3>1, <3>2
  <2>2. CASE ~(l < m)
    <3>1. wild = {} /\ next = m + 1
      BY <1>1, <1>6, <1>8, <1>10, <1>12, <2>2
    <3>2. before(next) <=> \A j \in 1 .. l : j <= m => Compatible(p[j], q[j])
      BY <1>1, <1>7, <1>12, <2>2, <3>1
    <3>3. Len(p) = Len(q) \/ OpenAt(p, next) \/ OpenAt(q, next) <=> l = m
      BY <1>1, <1>2, <1>3, <1>12, <2>2, <3>1
    <3>. QED BY <1>1, <1>5, <1>9, <1>12, <2>2, <3>1, <3>2, <3>3
  <2>. QED BY <2>1, <2>2
<1>13. CASE ~Open(p) /\ Open(q)
  <2>1. CASE m < l
    <3>1. m + 1 \in wild /\ \A i \in wild : i = m + 1
      <4>1. m + 1 \in Nat /\ m + 1 \in 1 .. next - 1
        BY <1>1, <1>10, <1>13, <2>1
      <4>2. m + 1 \in wild
        BY <1>6, <1>13, <4>1
      <4>3. ASSUME NEW i \in wild PROVE i = m + 1
        BY <1>6, <1>8, <1>13
      <4>. QED BY <4>2, <4>3
    <3>2. before(m + 1) <=> \A j \in 1 .. l : j <= m => Compatible(p[j], q[j])
      BY <1>1, <1>7, <1>10, <1>13, <2>1
    <3>. QED BY <1>1, <1>5, <1>9, <1>13, <2>1, <3>1, <3>2
  <2>2. CASE ~(m < l)
    <3>1. wild = {} /\ next = l + 1
      BY <1>1, <1>6, <1>8, <1>10, <1>13, <2>2
    <3>2. before(next) <=> \A j \in 1 .. l : j <= m => Compatible(p[j], q[j])
      BY <1>1, <1>7, <1>13, <2>2, <3>1
    <3>3. Len(p) = Len(q) \/ OpenAt(p, next) \/ OpenAt(q, next) <=> l = m
      BY <1>1, <1>2, <1>3, <1>13, <2>2, <3>1
    <3>. QED BY <1>1, <1>5, <1>9, <1>13, <2>2, <3>1, <3>2, <3>3
  <2>. QED BY <2>1, <2>2
<1>14. CASE ~Open(p) /\ ~Open(q)
  <2>1. wild = {}
    BY <1>6, <1>8, <1>14
  <2>2. Len(p) = Len(q) \/ OpenAt(p, next) \/ OpenAt(q, next) <=> l = m
    BY <1>1, <1>2, <1>3, <1>4, <1>14
  <2>3. l = m => (before(next) <=> \A j \in 1 .. l : j <= m => Compatible(p[j], q[j]))
    BY <1>1, <1>7, <1>10, <1>14
  <2>. QED BY <1>5, <1>9, <1>14, <2>1, <2>2, <2>3
<1>. QED BY <1>11, <1>12, <1>13, <1>14

(* Two patterns intersect exactly if a topic, no longer than they are,     *)
(* matches both.                                                           *)
LEMMA IntersectMeets ==
  ASSUME NEW words, NEW w \in words, "*" \notin words, "#" \notin words,
         NEW p, IsPattern(p, words), NEW q, IsPattern(q, words),
         NEW n \in Nat, Levels(p) <= n, Levels(q) <= n
  PROVE  Intersect(p, q) <=> \E u \in Topics(words, n) : Match(u, p) /\ Match(u, q)
<1>1. PICK l, m : l = Levels(p) /\ l \in Nat /\ m = Levels(q) /\ m \in Nat
  BY DEF IsPattern
<1>2. /\ \A i \in 1 .. l : p[i] \in words \cup {"*"}
      /\ \A i \in 1 .. m : q[i] \in words \cup {"*"}
      /\ ~Open(p) => Len(p) = l
      /\ ~Open(q) => Len(q) = m
  BY <1>1 DEF IsPattern
<1>3. ASSUME LevelsMeet(p, q) PROVE \E u \in Topics(words, n) : Match(u, p) /\ Match(u, q)
  <2> DEFINE at(i) == IF i <= l /\ p[i] # "*" THEN p[i]
                      ELSE IF i <= m /\ q[i] # "*" THEN q[i] ELSE w
             k == IF l < m THEN m ELSE l
             u == [i \in 1 .. k |-> at(i)]
  <2>1. \A i \in 1 .. k : at(i) \in words
    BY <1>1, <1>2
  <2>2. u \in Seq(words) /\ Len(u) = k /\ k <= n
    BY <1>1, <2>1
  <2>3. ASSUME NEW i \in 1 .. l PROVE p[i] = "*" \/ (i <= Len(u) /\ u[i] = p[i])
    BY <1>1, <2>2
  <2>4. ASSUME NEW i \in 1 .. m PROVE q[i] = "*" \/ (i <= Len(u) /\ u[i] = q[i])
    <3>1. i <= k /\ i \in 1 .. k /\ u[i] = at(i)
      BY <1>1
    <3>2. i <= l => Compatible(p[i], q[i])
      BY <1>1, <1>3 DEF LevelsMeet
    <3>. QED BY <1>1, <2>2, <3>1, <3>2 DEF Compatible
  <2>5. u \in Topics(words, n)
    BY <2>2, TopicIsSeq
  <2>6. Agree(u, p) /\ Agree(u, q)
    BY <1>1, <2>3, <2>4 DEF Agree
  <2>7. (~Open(p) => k = l) /\ (~Open(q) => k = m)
    BY <1>1, <1>3 DEF LevelsMeet
  <2> HIDE DEF u, k
  <2>8. k \in Nat /\ l <= k /\ m <= k
    BY <1>1 DEF k
  <2>. QED BY <1>1, <1>2, <2>2, <2>5, <2>6, <2>7, <2>8 DEF Match
<1>4. ASSUME NEW u \in Topics(words, n), Match(u, p), Match(u, q) PROVE LevelsMeet(p, q)
  <2>1. u \in Seq(words) /\ Len(u) \in Nat
    BY TopicIsSeq
  <2>2. \A j \in 1 .. l : j <= m => Compatible(p[j], q[j])
    BY <1>1, <1>4 DEF Match, Agree, Compatible
  <2>3. /\ IF Open(p) THEN Len(u) >= l ELSE Len(u) = l
        /\ IF Open(q) THEN Len(u) >= m ELSE Len(u) = m
    BY <1>1, <1>2, <1>4 DEF Match
  <2>. QED BY <1>1, <2>1, <2>2, <2>3 DEF LevelsMeet
<1>. QED BY <1>3, <1>4, IntersectLevels

-----------------------------------------------------------------------------
(* merge restores a topic from what extract takes from it.                 *)
LEMMA MergeRestores ==
  ASSUME NEW words, NEW p, IsPattern(p, words), NEW u \in Seq(words), Match(u, p)
  PROVE  Merge(Extract(u, p), p) = u
<1>1. PICK l : l = Levels(p) /\ l \in Nat
  BY DEF IsPattern
<1>2. PICK S : S = Stars(p)
  OBVIOUS
<1>3. S \in SUBSET Nat /\ S \subseteq 1 .. l /\ IsFiniteSet(S)
  <2>1. S \subseteq 1 .. l
    BY <1>1, <1>2 DEF Stars
  <2>2. IsFiniteSet(1 .. l) /\ 1 .. l \subseteq Nat
    BY <1>1, FS_Interval
  <2>. QED BY <2>1, <2>2, FS_Subset
<1>4. PICK s, at : s = Cardinality(S) /\ at = Sorted(S)
  OBVIOUS
<1>5. s \in Nat /\ at \in [1 .. s -> S]
  BY <1>3, <1>4, SortedAscends
<1>6. Len(u) \in Nat /\ l <= Len(u) /\ (~Open(p) => Len(u) = l) /\ (Open(p) => Len(p) = l + 1)
  BY <1>1 DEF Match, IsPattern
<1>7. PICK stars, tail : /\ stars = [k \in 1 .. s |-> u[at[k]]]
                         /\ tail = SubSeq(u, l + 1, Len(u))
  OBVIOUS
<1>8. stars \in Seq(words) /\ Len(stars) = s
  <2>1. ASSUME NEW k \in 1 .. s PROVE u[at[k]] \in words
    <3>1. at[k] \in S
      BY <1>5
    <3>2. at[k] \in 1 .. Len(u)
      <4>1. at[k] \in 1 .. l
        BY <1>3, <3>1
      <4>. QED BY <1>1, <1>6, <4>1
    <3>. QED BY <3>2
  <2>. QED BY <1>5, <1>7, <2>1
<1>9. tail \in Seq(words) /\ Len(tail) = Len(u) - l
  BY <1>1, <1>6, <1>7
<1>10. PICK key : key = Extract(u, p)
  OBVIOUS
<1>11. key = stars \o (IF Open(p) THEN tail ELSE <<>>)
  BY <1>1, <1>2, <1>4, <1>5, <1>6, <1>7, <1>10 DEF Extract
<1>12. key = stars \o tail
  BY <1>6, <1>8, <1>9, <1>11
<1>13. key \in Seq(words) /\ Len(key) = s + Len(tail)
  BY <1>8, <1>9, <1>12, ConcatProperties
<1> DEFINE rank(i) == Cardinality({j \in S : j <= i})
<1>14. rank(l) = s
  <2>1. {j \in S : j <= l} = S
    <3>1. ASSUME NEW j \in S PROVE j <= l
      BY <1>1, <1>3
    <3>. QED BY <3>1
  <2>. QED BY <1>4, <2>1
<1>15. PICK head : head = [i \in 1 .. l |-> u[i]]
  OBVIOUS
<1>16. ASSUME NEW i \in 1 .. l PROVE (IF p[i] = "*" THEN key[rank(i)] ELSE p[i]) = u[i]
  <2>1. CASE p[i] = "*"
    <3>1. i \in S
      BY <1>1, <1>2, <2>1 DEF Stars
    <3>2. PICK r : r = rank(i)
      OBVIOUS
    <3>3. r \in 1 .. s /\ at[r] = i
      BY <1>3, <1>4, <3>1, <3>2, SortedRank
    <3>4. key[r] = stars[r]
      BY <1>5, <1>8, <1>9, <1>12, <3>3, ConcatProperties
    <3>. QED BY <1>7, <2>1, <3>2, <3>3, <3>4
  <2>2. CASE p[i] # "*"
    BY <1>1, <2>2 DEF Match, Agree
  <2>. QED BY <2>1, <2>2
<1>17. SubSeq(key, s + 1, Len(key)) = tail
  BY <1>8, <1>9, <1>12, ConcatSimplifications
<1>18. Merge(key, p) = head \o (IF Open(p) THEN tail ELSE <<>>)
  <2>1. Merge(key, p) = [i \in 1 .. l |-> IF p[i] = "*" THEN key[rank(i)] ELSE p[i]]
                          \o (IF Open(p) THEN SubSeq(key, rank(l) + 1, Len(key)) ELSE <<>>)
    BY <1>1, <1>2 DEF Merge
  <2>2. [i \in 1 .. l |-> IF p[i] = "*" THEN key[rank(i)] ELSE p[i]] = head
    BY <1>15, <1>16
  <2>. QED BY <1>14, <1>17, <2>1, <2>2
<1>19. head \in Seq(words) /\ u = head \o tail
  <2>1. l \in 0 .. Len(u)
    BY <1>1, <1>6
  <2>. QED BY <1>7, <1>15, <2>1, SplitAt
<1>20. ~Open(p) => tail = <<>>
  BY <1>6, <1>9
<1>. QED BY <1>10, <1>18, <1>19, <1>20
=============================================================================
