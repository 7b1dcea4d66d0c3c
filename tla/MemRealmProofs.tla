---------------------------- MODULE MemRealmProofs ----------------------------
(***************************************************************************)
(* Proofs about MemRealm, for any sessions, packets, wills and filters:    *)
(* every variable has its type; live events are written once; a client     *)
(* that connects again gets what was kept since; a will is published once; *)
(* and the lock that Hyper sessions make of a key is a mutex.              *)
(*                                                                         *)
(* The operations are functions from realms to realms, so each lemma says  *)
(* what one of them makes of a realm in order: first the folds of which    *)
(* the sessions of the MQTT gate are made, then the realm and one push     *)
(* (Effect, Done), then the ends of sessions and SUBSCRIBE, and at last    *)
(* the actions.                                                            *)
(***************************************************************************)
EXTENDS MemRealm, TopicPatternProofs

-----------------------------------------------------------------------------
(* Induction over the places of a sequence. *)
LEMMA UpTo ==
  ASSUME NEW n \in Nat, NEW P, 0 \in P, \A k \in 1 .. n : k - 1 \in P => k \in P
  PROVE  \A k \in 0 .. n : k \in P
<1> DEFINE S == {k \in 0 .. n : k \notin P}
<1> SUFFICES ASSUME S # {} PROVE FALSE
  OBVIOUS
<1>1. S \in SUBSET Nat
  OBVIOUS
<1>2. PICK k \in S : \A j \in S : k <= j
  BY <1>1, LeastOf
<1>3. k \in 1 .. n /\ k - 1 \in 0 .. n
  OBVIOUS
<1>4. k - 1 \in P
  BY <1>2, <1>3
<1>. QED BY <1>3, <1>4

LEMMA MaxOf ==
  ASSUME NEW n \in Nat, NEW s \in SUBSET (1 .. n), s # {}
  PROVE  Max(s) \in s /\ \A x \in s : x <= Max(s)
<1> DEFINE D == {d \in 0 .. n : n - d \in s}
<1>1. PICK x \in s : TRUE
  OBVIOUS
<1>2. x \in 1 .. n /\ n - x \in 0 .. n /\ n - (n - x) = x
  OBVIOUS
<1>3. n - x \in D
  BY <1>2
<1>4. D \in SUBSET Nat /\ D # {}
  <2>1. D \in SUBSET Nat
    OBVIOUS
  <2> HIDE DEF D
  <2>. QED BY <1>3, <2>1
<1>5. PICK d \in D : \A c \in D : d <= c
  BY <1>4, LeastOf
<1>6. n - d \in s
  OBVIOUS
<1>7. ASSUME NEW y \in s PROVE n - d >= y
  <2>1. y \in 1 .. n /\ n - y \in 0 .. n /\ n - (n - y) = y
    OBVIOUS
  <2>2. n - y \in D
    BY <2>1
  <2>3. d <= n - y
    BY <1>5, <2>2
  <2>. QED BY <2>1, <2>3
<1>8. \E z \in s : \A y \in s : z >= y
  BY <1>6, <1>7
<1>9. Max(s) \in s /\ \A y \in s : Max(s) >= y
  BY <1>8 DEF Max
<1>10. ASSUME NEW y \in s PROVE y <= Max(s)
  <2>1. y \in 1 .. n /\ Max(s) \in 1 .. n /\ Max(s) >= y
    BY <1>9
  <2>. QED BY <2>1
<1>. QED BY <1>9, <1>10

(* A fold over the places of a sequence: what FoldLeft iterates, with the  *)
(* operator as a function G over the set X of its values.                  *)
Iterates(f, n, base, G) ==
  f = [s \in SUBSET (1 .. n) |->
         IF s = {} THEN base ELSE G[<<f[s \ {Max(s)}], Max(s)>>]]

LEMMA FoldExtends ==
  ASSUME NEW n \in Nat, n # 0, NEW base, NEW G, NEW f, Iterates(f, n - 1, base, G)
  PROVE  \E g : Iterates(g, n, base, G)
<1> DEFINE g == [s \in SUBSET (1 .. n) |->
                   IF n \in s THEN G[<<f[s \ {n}], n>>] ELSE f[s]]
           h == [s \in SUBSET (1 .. n) |->
                   IF s = {} THEN base ELSE G[<<g[s \ {Max(s)}], Max(s)>>]]
<1>1. ASSUME NEW s \in SUBSET (1 .. n) PROVE g[s] = h[s]
  <2>1. CASE n \in s
    <3>1. Max(s) \in s /\ \A x \in s : x <= Max(s)
      BY <2>1, MaxOf
    <3>2. Max(s) = n
      <4>1. Max(s) \in 1 .. n /\ n <= Max(s)
        BY <2>1, <3>1
      <4>. QED BY <4>1
    <3>3. s \ {n} \in SUBSET (1 .. n) /\ n \notin s \ {n} /\ s # {}
      BY <2>1
    <3>4. g[s \ {n}] = f[s \ {n}]
      BY <3>3
    <3>5. h[s] = G[<<g[s \ {n}], n>>]
      BY <3>2, <3>3
    <3>6. g[s] = G[<<f[s \ {n}], n>>]
      BY <2>1
    <3>. QED BY <3>4, <3>5, <3>6
  <2>2. CASE n \notin s /\ s = {}
    <3>1. g[s] = f[s] /\ h[s] = base
      BY <2>2
    <3>2. {} \in SUBSET (1 .. n - 1)
      OBVIOUS
    <3>3. f[{}] = base
      BY <3>2 DEF Iterates
    <3>. QED BY <2>2, <3>1, <3>3
  <2>3. CASE n \notin s /\ s # {}
    <3>1. s \in SUBSET (1 .. n - 1)
      <4>1. ASSUME NEW x \in s PROVE x \in 1 .. n - 1
        <5>1. x \in 1 .. n /\ x # n
          BY <2>3
        <5>. QED BY <5>1
      <4>. QED BY <4>1
    <3>2. Max(s) \in s
      BY <2>3, MaxOf
    <3>3. f[s] = G[<<f[s \ {Max(s)}], Max(s)>>]
      BY <2>3, <3>1 DEF Iterates
    <3>4. s \ {Max(s)} \in SUBSET (1 .. n) /\ n \notin s \ {Max(s)}
      BY <2>3
    <3>5. g[s \ {Max(s)}] = f[s \ {Max(s)}]
      BY <3>4
    <3>6. g[s] = f[s] /\ h[s] = G[<<g[s \ {Max(s)}], Max(s)>>]
      BY <2>3
    <3>. QED BY <3>3, <3>5, <3>6
  <2>. QED BY <2>1, <2>2, <2>3
<1>2. g = h
  BY <1>1
<1> HIDE DEF g
<1>3. Iterates(g, n, base, G)
  BY <1>2 DEF Iterates
<1>. QED BY <1>3

LEMMA FoldIterates ==
  ASSUME NEW n \in Nat, NEW base, NEW G
  PROVE  \E f : Iterates(f, n, base, G)
<1> DEFINE P == {k \in 0 .. n : \E f : Iterates(f, k, base, G)}
<1>1. 0 \in P
  <2> DEFINE f == [s \in SUBSET (1 .. 0) |-> base]
             g == [s \in SUBSET (1 .. 0) |->
                     IF s = {} THEN base ELSE G[<<f[s \ {Max(s)}], Max(s)>>]]
  <2>1. \A s \in SUBSET (1 .. 0) : s = {}
    OBVIOUS
  <2>2. f = g
    BY <2>1
  <2> HIDE DEF f
  <2>3. Iterates(f, 0, base, G)
    BY <2>2 DEF Iterates
  <2>. QED BY <2>3
<1>2. ASSUME NEW k \in 1 .. n, k - 1 \in P PROVE k \in P
  <2>1. PICK f : Iterates(f, k - 1, base, G)
    BY <1>2
  <2>2. k \in Nat /\ k # 0 /\ k \in 0 .. n
    OBVIOUS
  <2>3. \E g : Iterates(g, k, base, G)
    BY <2>1, <2>2, FoldExtends
  <2>. QED BY <2>2, <2>3
<1> HIDE DEF P
<1>3. n \in P
  <2>1. \A k \in 0 .. n : k \in P
    BY <1>1, <1>2, UpTo
  <2>. QED BY <2>1
<1>. QED BY <1>3 DEF P

(* The values that the fold runs through. *)
Chain(g, n, base, G) ==
  g[0] = base /\ \A k \in 1 .. n : g[k] = G[<<g[k - 1], k>>]

LEMMA FoldChain ==
  ASSUME NEW n \in Nat, NEW base, NEW G, NEW f, Iterates(f, n, base, G)
  PROVE  Chain([k \in 0 .. n |-> f[1 .. k]], n, base, G)
<1> DEFINE g == [k \in 0 .. n |-> f[1 .. k]]
<1>1. g[0] = base
  <2>1. 1 .. 0 = {} /\ {} \in SUBSET (1 .. n)
    OBVIOUS
  <2>2. f[{}] = base
    BY <2>1 DEF Iterates
  <2>. QED BY <2>1, <2>2
<1>2. ASSUME NEW k \in 1 .. n PROVE g[k] = G[<<g[k - 1], k>>]
  <2>1. 1 .. k \in SUBSET (1 .. n) /\ 1 .. k # {} /\ k \in Nat /\ k \in 1 .. k
    OBVIOUS
  <2>2. f[1 .. k] = G[<<f[(1 .. k) \ {Max(1 .. k)}], Max(1 .. k)>>]
    BY <2>1 DEF Iterates
  <2>3. Max(1 .. k) \in 1 .. k /\ k <= Max(1 .. k)
    BY <2>1, MaxOf
  <2>4. Max(1 .. k) = k
    BY <2>1, <2>3
  <2>5. (1 .. k) \ {k} = 1 .. k - 1
    BY <2>1
  <2>6. g[k] = f[1 .. k] /\ g[k - 1] = f[1 .. k - 1]
    BY <2>1
  <2>. QED BY <2>2, <2>4, <2>5, <2>6
<1>. QED BY <1>1, <1>2 DEF Chain

LEMMA FoldTyped ==
  ASSUME NEW n \in Nat, NEW X, NEW base \in X, NEW G \in [X \X (1 .. n) -> X],
         NEW f, Iterates(f, n, base, G)
  PROVE  \A s \in SUBSET (1 .. n) : f[s] \in X
<1> DEFINE P == {k \in 0 .. n : \A s \in SUBSET (1 .. k) : f[s] \in X}
<1>1. 0 \in P
  <2>1. \A s \in SUBSET (1 .. 0) : s = {}
    OBVIOUS
  <2>2. {} \in SUBSET (1 .. n)
    OBVIOUS
  <2>3. f[{}] = base
    BY <2>2 DEF Iterates
  <2>4. \A s \in SUBSET (1 .. 0) : f[s] \in X
    BY <2>1, <2>3
  <2>. QED BY <2>4
<1>2. ASSUME NEW k \in 1 .. n, k - 1 \in P PROVE k \in P
  <2>1. ASSUME NEW s \in SUBSET (1 .. k) PROVE f[s] \in X
    <3>1. s \in SUBSET (1 .. n) /\ k \in Nat
      OBVIOUS
    <3>2. CASE s = {}
      <4>1. f[s] = base
        BY <3>1, <3>2 DEF Iterates
      <4>. QED BY <4>1
    <3>3. CASE s # {}
      <4>1. Max(s) \in s /\ \A x \in s : x <= Max(s)
        BY <3>1, <3>3, MaxOf
      <4>2. Max(s) \in 1 .. k /\ Max(s) \in 1 .. n
        BY <3>1, <4>1
      <4>3. ASSUME NEW x \in s \ {Max(s)} PROVE x \in 1 .. k - 1
        <5>1. x \in 1 .. k /\ x <= Max(s) /\ x # Max(s)
          BY <4>1
        <5>. QED BY <4>2, <5>1
      <4>4. f[s \ {Max(s)}] \in X
        BY <1>2, <4>3
      <4>5. f[s] = G[<<f[s \ {Max(s)}], Max(s)>>]
        BY <3>1, <3>3 DEF Iterates
      <4>. QED BY <4>2, <4>4, <4>5
    <3>. QED BY <3>2, <3>3
  <2>. QED BY <2>1
<1> HIDE DEF P
<1>3. n \in P
  <2>1. \A k \in 0 .. n : k \in P
    BY <1>1, <1>2, UpTo
  <2>. QED BY <2>1
<1>. QED BY <1>3 DEF P

-----------------------------------------------------------------------------
(* Sessions of the MQTT gate.                                              *)

Kind == {"live", "history", "retained"}
Value == {Empty, Letters} \cup {Text(n) : n \in Nat}
Message == [id : Nat, kind : Kind]
(* What a session of the MQTT gate is made of.                             *)
MqttRecord ==
  [state : {"new", "in", "over"}, will : WillPacket \cup {NoPacket}, last : Value,
   filters : Filters \cup {<<>>}, after : Nat, got : Seq(Message), unacked : SUBSET Nat,
   clean : BOOLEAN]

LEMMA GotIs ==
  ASSUME NEW m \in MqttRecord, NEW id \in Nat, NEW kind \in Kind, NEW trace \in BOOLEAN
  PROVE  LET g == Got(m, id, kind, trace)
         IN /\ g \in MqttRecord
            /\ g.state = m.state /\ g.will = m.will /\ g.filters = m.filters
            /\ g.after = m.after /\ g.clean = m.clean
            /\ g.last = Text(id)
            /\ g.got = Append(m.got, [id |-> id, kind |-> kind])
<1> DEFINE g == Got(m, id, kind, trace)
<1>1. Text(id) \in Value
  BY DEF Value
<1>2. m.got \in Seq(Message) /\ [id |-> id, kind |-> kind] \in Message
  BY DEF MqttRecord, Message
<1>3. Append(m.got, [id |-> id, kind |-> kind]) \in Seq(Message) /\ Len(m.got) + 1 \in Nat
  BY <1>2
<1>. PICK t : t = Text(id)
  OBVIOUS
<1>. PICK a : a = Append(m.got, [id |-> id, kind |-> kind])
  OBVIOUS
<1>. PICK u : u = IF trace THEN m.unacked \cup {Len(m.got) + 1} ELSE m.unacked
  OBVIOUS
<1>4. m = [state |-> m.state, will |-> m.will, last |-> m.last, filters |-> m.filters,
           after |-> m.after, got |-> m.got, unacked |-> m.unacked, clean |-> m.clean]
  BY DEF MqttRecord
<1>5. g = [state |-> m.state, will |-> m.will, last |-> t, filters |-> m.filters,
           after |-> m.after, got |-> a, unacked |-> u, clean |-> m.clean]
  <2>1. g = [m EXCEPT !.last = t, !.got = a, !.unacked = u]
    BY DEF Got
  <2> HIDE DEF g
  <2>. QED BY <1>4, <2>1
<1> HIDE DEF g
<1>6. g \in MqttRecord
  <2>1. u \in SUBSET Nat /\ m.unacked \in SUBSET Nat
    BY <1>3 DEF MqttRecord
  <2>2. t \in Value /\ a \in Seq(Message)
    BY <1>1, <1>3
  <2>. QED BY <1>5, <2>1, <2>2 DEF MqttRecord
<1>7. m.state = g.state /\ m.will = g.will /\ m.filters = g.filters /\ m.after = g.after
      /\ m.clean = g.clean
  BY <1>5
<1>8. g.last = t /\ g.got = a /\ g.unacked = u
  BY <1>5
<1>9. /\ g \in MqttRecord
      /\ g.state = m.state /\ g.will = m.will /\ g.filters = m.filters
      /\ g.after = m.after /\ g.clean = m.clean
      /\ g.last = Text(id)
      /\ g.got = Append(m.got, [id |-> id, kind |-> kind])
  BY <1>6, <1>7, <1>8
<1>. QED BY <1>9 DEF g

LEMMA GotUnacked ==
  ASSUME NEW m \in MqttRecord, NEW id, NEW kind, NEW trace \in BOOLEAN
  PROVE  \/ Got(m, id, kind, trace).unacked = m.unacked
         \/ Got(m, id, kind, trace).unacked = m.unacked \cup {Len(m.got) + 1}
BY DEF Got, MqttRecord

LEMMA GotQuietly ==
  ASSUME NEW m \in MqttRecord, NEW id, NEW kind
  PROVE  Got(m, id, kind, FALSE).unacked = m.unacked
BY DEF Got, MqttRecord

LEMMA SendEventType ==
  ASSUME NEW m \in MqttRecord, NEW id \in Nat, NEW kind \in Kind, NEW trace \in BOOLEAN
  PROVE  SendEvent(m, id, kind, trace) \in MqttRecord
<1>1. Got(m, id, kind, trace) \in MqttRecord
  BY GotIs
<1>. QED BY <1>1 DEF SendEvent

(* What SendAll runs through. *)
SendSteps(g, m, n, ids, kind, trace) ==
  /\ g \in [0 .. n -> MqttRecord]
  /\ g[0] = m
  /\ \A k \in 1 .. n : g[k] = SendEvent(g[k - 1], ids[k], kind, trace)

LEMMA SendAllSteps ==
  ASSUME NEW n \in Nat, NEW ids \in [1 .. n -> Nat],
         NEW m \in MqttRecord, NEW kind \in Kind, NEW trace \in BOOLEAN
  PROVE  \E g : SendSteps(g, m, n, ids, kind, trace) /\ g[n] = SendAll(m, ids, kind, trace)
<1> DEFINE Body(f) == [s \in SUBSET (1 .. n) |->
                         IF s = {} THEN m ELSE SendEvent(f[s \ {Max(s)}], ids[Max(s)], kind, trace)]
           c == CHOOSE f : f = Body(f)
           G == [p \in MqttRecord \X (1 .. n) |-> SendEvent(p[1], ids[p[2]], kind, trace)]
           H == [p \in {c[s] : s \in SUBSET (1 .. n)} \X (1 .. n) |->
                   SendEvent(p[1], ids[p[2]], kind, trace)]
<1>1. DOMAIN ids = 1 .. n
  OBVIOUS
<1>2. SendAll(m, ids, kind, trace) = c[1 .. n]
  BY <1>1 DEF SendAll, FoldLeft, MapThenFoldSet
<1>3. G \in [MqttRecord \X (1 .. n) -> MqttRecord]
  <2>1. ASSUME NEW p \in MqttRecord \X (1 .. n)
        PROVE  SendEvent(p[1], ids[p[2]], kind, trace) \in MqttRecord
    <3>1. p[1] \in MqttRecord /\ ids[p[2]] \in Nat
      OBVIOUS
    <3>. QED BY <3>1, SendEventType
  <2>. QED BY <2>1
<1>4. \E f : f = Body(f)
  <2> HIDE DEF G
  <2>1. PICK f : Iterates(f, n, m, G)
    BY FoldIterates
  <2>2. \A s \in SUBSET (1 .. n) : f[s] \in MqttRecord
    BY <1>3, <2>1, FoldTyped
  <2>3. ASSUME NEW s \in SUBSET (1 .. n), s # {}
        PROVE  G[<<f[s \ {Max(s)}], Max(s)>>] = SendEvent(f[s \ {Max(s)}], ids[Max(s)], kind, trace)
    <3>1. Max(s) \in 1 .. n
      BY <2>3, MaxOf
    <3>2. f[s \ {Max(s)}] \in MqttRecord
      BY <2>2
    <3>. QED BY <3>1, <3>2 DEF G
  <2>4. f = [s \in SUBSET (1 .. n) |-> IF s = {} THEN m ELSE G[<<f[s \ {Max(s)}], Max(s)>>]]
    BY <2>1 DEF Iterates
  <2>5. f = Body(f)
    BY <2>3, <2>4
  <2>. QED BY <2>5
<1>5. c = Body(c)
  BY <1>4
<1> HIDE DEF c
<1>6. Iterates(c, n, m, H)
  <2>1. ASSUME NEW s \in SUBSET (1 .. n), s # {}
        PROVE  H[<<c[s \ {Max(s)}], Max(s)>>] = SendEvent(c[s \ {Max(s)}], ids[Max(s)], kind, trace)
    <3>1. Max(s) \in 1 .. n
      BY <2>1, MaxOf
    <3>2. c[s \ {Max(s)}] \in {c[t] : t \in SUBSET (1 .. n)}
      OBVIOUS
    <3>. QED BY <3>1, <3>2
  <2> HIDE DEF H
  <2>2. c = [s \in SUBSET (1 .. n) |-> IF s = {} THEN m ELSE H[<<c[s \ {Max(s)}], Max(s)>>]]
    BY <1>5, <2>1
  <2>. QED BY <2>2 DEF Iterates
<1> DEFINE g == [k \in 0 .. n |-> c[1 .. k]]
<1>7. Chain(g, n, m, H)
  <2> HIDE DEF H
  <2>. QED BY <1>6, FoldChain
<1>8. ASSUME NEW k \in 1 .. n PROVE g[k] = SendEvent(g[k - 1], ids[k], kind, trace)
  <2>1. k - 1 \in 0 .. n /\ 1 .. k - 1 \in SUBSET (1 .. n)
    OBVIOUS
  <2>2. g[k - 1] = c[1 .. k - 1]
    BY <2>1
  <2>3. <<g[k - 1], k>> \in {c[s] : s \in SUBSET (1 .. n)} \X (1 .. n)
    BY <2>1, <2>2
  <2> HIDE DEF g
  <2>4. H[<<g[k - 1], k>>] = SendEvent(g[k - 1], ids[k], kind, trace)
    BY <2>3
  <2>. QED BY <1>7, <2>4 DEF Chain
<1>9. g[0] = m
  BY <1>7 DEF Chain
<1>10. g[n] = c[1 .. n]
  OBVIOUS
<1>11. DOMAIN g = 0 .. n /\ g = [k \in 0 .. n |-> g[k]]
  OBVIOUS
<1> HIDE DEF g
<1>12. \A k \in 0 .. n : g[k] \in MqttRecord
  <2> DEFINE P == {k \in 0 .. n : g[k] \in MqttRecord}
  <2>1. 0 \in P
    BY <1>9
  <2>2. ASSUME NEW k \in 1 .. n, k - 1 \in P PROVE k \in P
    <3>1. g[k - 1] \in MqttRecord /\ ids[k] \in Nat
      BY <2>2
    <3>2. SendEvent(g[k - 1], ids[k], kind, trace) \in MqttRecord
      BY <3>1, SendEventType
    <3>. QED BY <1>8, <3>2
  <2> HIDE DEF P
  <2>3. \A k \in 0 .. n : k \in P
    BY <2>1, <2>2, UpTo
  <2>. QED BY <2>3 DEF P
<1>13. g \in [0 .. n -> MqttRecord]
  BY <1>11, <1>12
<1>14. SendSteps(g, m, n, ids, kind, trace)
  BY <1>8, <1>9, <1>13 DEF SendSteps
<1>. QED BY <1>2, <1>10, <1>14

-----------------------------------------------------------------------------
LEMMA Appends ==
  ASSUME NEW S, NEW s \in Seq(S), NEW e \in S
  PROVE  LET t == Append(s, e)
         IN /\ t \in Seq(S) /\ Len(s) \in Nat /\ DOMAIN s = 1 .. Len(s)
            /\ Len(t) = Len(s) + 1 /\ DOMAIN t = 1 .. Len(s) + 1
            /\ \A i \in 1 .. Len(s) : t[i] = s[i]
            /\ t[Len(s) + 1] = e
OBVIOUS

(* What At picks. *)

LEMMA AtPlaces ==
  ASSUME NEW n \in Nat, NEW places \in SUBSET (1 .. n)
  PROVE  /\ Cardinality(places) \in Nat
         /\ Sorted(places) \in [1 .. Cardinality(places) -> places]
         /\ Ascends(Sorted(places))
         /\ \A i \in places : \E k \in 1 .. Cardinality(places) : Sorted(places)[k] = i
<1>1. IsFiniteSet(places)
  <2>1. IsFiniteSet(1 .. n)
    BY FS_Interval
  <2>. QED BY <2>1, FS_Subset
<1>2. places \in SUBSET Nat
  OBVIOUS
<1>. QED BY <1>1, <1>2, SortedAscends, SortedHasAll

LEMMA PlacesNone ==
  ASSUME NEW n \in Nat, NEW places \in SUBSET (1 .. n)
  PROVE  Cardinality(places) = 0 <=> places = {}
<1>1. IsFiniteSet(places)
  <2>1. IsFiniteSet(1 .. n)
    BY FS_Interval
  <2>. QED BY <2>1, FS_Subset
<1>. QED BY <1>1, FS_EmptySet

LEMMA AtNone == ASSUME NEW s PROVE At(s, {}) = <<>>
<1>1. Cardinality({}) = 0
  BY FS_EmptySet
<1>2. 1 .. 0 = {}
  OBVIOUS
<1>. QED BY <1>1, <1>2 DEF At

LEMMA AtAll ==
  ASSUME NEW n \in Nat, NEW s, s = [i \in 1 .. n |-> s[i]]
  PROVE  At(s, 1 .. n) = s
<1> DEFINE N == 1 .. n
<1>1. IsFiniteSet(N) /\ Cardinality(N) = n /\ N \in SUBSET Nat
  BY FS_Interval
<1>2. ASSUME NEW i \in N PROVE Sorted(N)[i] = i
  <2>1. {y \in N : y <= i} = 1 .. i /\ i \in Nat
    OBVIOUS
  <2>2. Cardinality(1 .. i) = i
    BY <2>1, FS_Interval
  <2> HIDE DEF N
  <2>3. Sorted(N)[Cardinality({y \in N : y <= i})] = i
    BY <1>1, SortedRank
  <2>. QED BY <2>1, <2>2, <2>3
<1>3. At(s, N) = [i \in 1 .. n |-> s[Sorted(N)[i]]]
  BY <1>1 DEF At
<1>. QED BY <1>2, <1>3

-----------------------------------------------------------------------------
(* A live event: every filter that it fits sends it, and all but the first *)
(* find that it was sent.                                                  *)

(* A topic that the session has subscribed to.                             *)
Fits(m, uri) == \E i \in DOMAIN m.filters : Match(uri, m.filters[i])

LEMMA FiltersType ==
  ASSUME NEW m \in MqttRecord
  PROVE  \E n \in Nat : DOMAIN m.filters = 1 .. n
<1>1. m.filters \in Filters \/ m.filters = <<>>
  BY DEF MqttRecord
<1>2. m.filters \in Seq(Seq(STRING))
  <2>1. m.filters \in Filters => m.filters \in Seq(Seq(STRING))
    BY FilterAssumption
  <2>2. <<>> \in Seq(Seq(STRING))
    OBVIOUS
  <2>. QED BY <1>1, <2>1, <2>2
<1>3. Len(m.filters) \in Nat /\ DOMAIN m.filters = 1 .. Len(m.filters)
  BY <1>2
<1>. QED BY <1>3

(* A session that is there gets a live event once, if it subscribed to it. *)
LEMMA DisperseIs ==
  ASSUME NEW m \in MqttRecord, NEW uri, NEW id \in Nat, NEW trace \in BOOLEAN,
         m.last # Text(id)
  PROVE  Disperse(m, uri, id, trace)
           = IF m.state = "in" /\ Fits(m, uri) THEN Got(m, id, "live", trace) ELSE m
<1>. PICK n \in Nat : DOMAIN m.filters = 1 .. n
  BY FiltersType
<1>. PICK places : places = {i \in DOMAIN m.filters : Match(uri, m.filters[i])}
  OBVIOUS
<1>. PICK c : c = Cardinality(places)
  OBVIOUS
<1>. PICK ids : ids = [i \in 1 .. c |-> id]
  OBVIOUS
<1>1. places \in SUBSET (1 .. n)
  OBVIOUS
<1>2. c \in Nat /\ DOMAIN At(m.filters, places) = 1 .. c
  BY <1>1, AtPlaces DEF At
<1>3. c = 0 <=> places = {}
  BY <1>1, PlacesNone
<1>4. Disperse(m, uri, id, trace)
        = IF m.state # "in" THEN m ELSE SendAll(m, ids, "live", trace)
  BY <1>2 DEF Disperse
<1>5. ids \in [1 .. c -> Nat]
  BY <1>2
<1>. PICK live : live = "live"
  OBVIOUS
<1>6. live \in Kind
  BY DEF Kind
<1>7. PICK g : SendSteps(g, m, c, ids, live, trace) /\ g[c] = SendAll(m, ids, live, trace)
  <2>1. c \in Nat
    BY <1>2
  <2>. QED BY ONLY m \in MqttRecord, trace \in BOOLEAN, <1>5, <1>6, <2>1, SendAllSteps
<1>8. SendEvent(m, id, live, trace) = Got(m, id, live, trace)
  BY DEF SendEvent
<1>9. Got(m, id, live, trace).last = Text(id)
  BY <1>6, <1>5, GotIs
<1>10. SendEvent(Got(m, id, live, trace), id, live, trace) = Got(m, id, live, trace)
  BY <1>9 DEF SendEvent
<1> DEFINE P == {k \in 0 .. c : k # 0 => g[k] = Got(m, id, live, trace)}
<1>11. 0 \in P
  BY <1>2
<1>12. ASSUME NEW k \in 1 .. c, k - 1 \in P PROVE k \in P
  <2>1. ids[k] = id /\ k \in 0 .. c /\ k # 0
    BY <1>2
  <2>2. g[0] = m /\ g[k] = SendEvent(g[k - 1], ids[k], live, trace)
    BY <1>7 DEF SendSteps
  <2>3. CASE k = 1
    <3>1. k - 1 = 0
      BY <2>3
    <3>. QED BY <1>8, <2>1, <2>2, <3>1
  <2>4. CASE k # 1
    <3>1. k - 1 # 0
      BY <1>2, <2>4
    <3>2. g[k - 1] = Got(m, id, live, trace)
      BY <1>12, <3>1
    <3>. QED BY <1>10, <2>1, <2>2, <3>2
  <2>. QED BY <2>3, <2>4
<1> HIDE DEF P
<1>13. \A k \in 0 .. c : k \in P
  BY <1>2, <1>11, <1>12, UpTo
<1>14. c # 0 => g[c] = Got(m, id, live, trace)
  <2>1. c \in P
    BY <1>2, <1>13
  <2>. QED BY <2>1 DEF P
<1>15. g[0] = m
  BY <1>7 DEF SendSteps
<1>16. Fits(m, uri) <=> places # {}
  BY DEF Fits
<1>17. SendAll(m, ids, live, trace) = IF Fits(m, uri) THEN Got(m, id, live, trace) ELSE m
  BY <1>7, <1>14, <1>15, <1>16, <1>3
<1>. QED BY <1>4, <1>17

-----------------------------------------------------------------------------
(* A replay: what is sent is appended, and what is not was sent before.    *)

(* n is what m becomes by messages that are not live, with ids of S;       *)
(* nothing that was written before is lost.                                *)
Since(m, n, S) ==
  /\ n \in MqttRecord
  /\ n.state = m.state /\ n.will = m.will /\ n.filters = m.filters
  /\ n.after = m.after /\ n.clean = m.clean /\ n.unacked = m.unacked
  /\ Len(m.got) <= Len(n.got)
  /\ \A i \in 1 .. Len(m.got) : n.got[i] = m.got[i]
  /\ \A i \in Len(m.got) + 1 .. Len(n.got) : n.got[i].kind # "live" /\ n.got[i].id \in S
  /\ n.last = m.last \/ \E j \in DOMAIN n.got : n.last = Text(n.got[j].id) /\ n.got[j].id \in S

(* The event of the id was the last one written before, or was written.    *)
Has(m, n, id) == m.last = Text(id) \/ \E j \in DOMAIN n.got : n.got[j].id = id

LEMMA GotType ==
  ASSUME NEW m \in MqttRecord
  PROVE  /\ m.got \in Seq(Message) /\ Len(m.got) \in Nat /\ DOMAIN m.got = 1 .. Len(m.got)
         /\ \A i \in DOMAIN m.got : m.got[i].id \in Nat /\ m.got[i].kind \in Kind
<1>1. m.got \in Seq(Message)
  BY DEF MqttRecord
<1>2. \A i \in DOMAIN m.got : m.got[i] \in Message
  BY <1>1
<1>. QED BY <1>1, <1>2 DEF Message

LEMMA SinceStill == ASSUME NEW m \in MqttRecord, NEW S PROVE Since(m, m, S)
<1>1. Len(m.got) \in Nat
  BY GotType
<1>. QED BY <1>1 DEF Since

LEMMA SinceThen ==
  ASSUME NEW S, NEW m \in MqttRecord, NEW n, Since(m, n, S), NEW p, Since(n, p, S)
  PROVE  /\ Since(m, p, S)
         /\ \A id : Has(m, n, id) \/ Has(n, p, id) => Has(m, p, id)
<1>1. m \in MqttRecord /\ n \in MqttRecord /\ p \in MqttRecord
  BY DEF Since
<1>2. /\ Len(m.got) \in Nat /\ Len(n.got) \in Nat /\ Len(p.got) \in Nat
      /\ Len(m.got) <= Len(n.got) /\ Len(n.got) <= Len(p.got)
      /\ DOMAIN m.got = 1 .. Len(m.got) /\ DOMAIN n.got = 1 .. Len(n.got)
      /\ DOMAIN p.got = 1 .. Len(p.got)
  <2>1. Len(m.got) <= Len(n.got) /\ Len(n.got) <= Len(p.got)
    BY DEF Since
  <2>. QED BY <1>1, <2>1, GotType
<1>3. /\ \A i \in 1 .. Len(m.got) : n.got[i] = m.got[i]
      /\ \A i \in 1 .. Len(n.got) : p.got[i] = n.got[i]
      /\ \A i \in Len(m.got) + 1 .. Len(n.got) : n.got[i].kind # "live" /\ n.got[i].id \in S
      /\ \A i \in Len(n.got) + 1 .. Len(p.got) : p.got[i].kind # "live" /\ p.got[i].id \in S
  BY DEF Since
<1>4. /\ n.last = m.last \/ \E j \in DOMAIN n.got : n.last = Text(n.got[j].id) /\ n.got[j].id \in S
      /\ p.last = n.last \/ \E j \in DOMAIN p.got : p.last = Text(p.got[j].id) /\ p.got[j].id \in S
  BY DEF Since
<1>5. \A i \in 1 .. Len(m.got) : p.got[i] = m.got[i]
  <2>1. ASSUME NEW i \in 1 .. Len(m.got) PROVE p.got[i] = m.got[i]
    <3>1. i \in 1 .. Len(n.got)
      BY <1>2
    <3>. QED BY <1>3, <3>1
  <2>. QED BY <2>1
<1>6. \A i \in Len(m.got) + 1 .. Len(p.got) : p.got[i].kind # "live" /\ p.got[i].id \in S
  <2>1. ASSUME NEW i \in Len(m.got) + 1 .. Len(p.got)
        PROVE  p.got[i].kind # "live" /\ p.got[i].id \in S
    <3>1. CASE i <= Len(n.got)
      <4>1. i \in 1 .. Len(n.got) /\ i \in Len(m.got) + 1 .. Len(n.got)
        BY <1>2, <3>1
      <4>2. p.got[i] = n.got[i] /\ n.got[i].kind # "live" /\ n.got[i].id \in S
        BY <1>3, <4>1
      <4>. QED BY <4>2
    <3>2. CASE ~(i <= Len(n.got))
      <4>1. i \in Len(n.got) + 1 .. Len(p.got)
        BY <1>2, <3>2
      <4>. QED BY <1>3, <4>1
    <3>. QED BY <3>1, <3>2
  <2>. QED BY <2>1
<1>7. \A j \in DOMAIN n.got : j \in DOMAIN p.got /\ p.got[j] = n.got[j]
  BY <1>2, <1>3
<1>8. p.last = m.last \/ \E j \in DOMAIN p.got : p.last = Text(p.got[j].id) /\ p.got[j].id \in S
  <2>1. CASE p.last = n.last /\ n.last # m.last
    <3>1. PICK j \in DOMAIN n.got : n.last = Text(n.got[j].id) /\ n.got[j].id \in S
      BY <1>4, <2>1
    <3>. QED BY <1>7, <2>1, <3>1
  <2>. QED BY <1>4, <2>1
<1>9. Len(m.got) <= Len(p.got)
  BY <1>2
<1>10. /\ p.state = m.state /\ p.will = m.will /\ p.filters = m.filters
       /\ p.after = m.after /\ p.clean = m.clean /\ p.unacked = m.unacked
  BY DEF Since
<1>11. Since(m, p, S)
  BY <1>1, <1>5, <1>6, <1>8, <1>9, <1>10 DEF Since
<1>12. ASSUME NEW id, Has(m, n, id) PROVE Has(m, p, id)
  <2>1. ASSUME NEW j \in DOMAIN n.got, n.got[j].id = id PROVE \E k \in DOMAIN p.got : p.got[k].id = id
    BY <1>7, <2>1
  <2>. QED BY <1>12, <2>1 DEF Has
<1>13. ASSUME NEW id, Has(n, p, id) PROVE Has(m, p, id)
  <2>1. CASE n.last = Text(id) /\ n.last # m.last
    <3>1. PICK j \in DOMAIN n.got : n.last = Text(n.got[j].id)
      BY <1>4, <2>1
    <3>2. Text(n.got[j].id) = Text(id)
      BY <2>1, <3>1
    <3>3. n.got[j].id = id
      BY <3>2 DEF Text
    <3>4. j \in DOMAIN p.got /\ p.got[j].id = id
      BY <1>7, <3>3
    <3>. QED BY <3>4 DEF Has
  <2>. QED BY <1>13, <2>1 DEF Has
<1>. QED BY <1>11, <1>12, <1>13

LEMMA SinceAppended ==
  ASSUME NEW S, NEW m \in MqttRecord, NEW n \in MqttRecord, NEW e \in Message,
         e.id \in S, e.kind # "live",
         n.state = m.state, n.will = m.will, n.filters = m.filters, n.after = m.after,
         n.clean = m.clean, n.unacked = m.unacked,
         n.last = Text(e.id), n.got = Append(m.got, e)
  PROVE  Since(m, n, S) /\ Has(m, n, e.id)
<1>. PICK s : s = m.got
  OBVIOUS
<1>. PICK t : t = n.got
  OBVIOUS
<1>. PICK l : l = Len(s)
  OBVIOUS
<1>1. s \in Seq(Message) /\ t = Append(s, e)
  BY GotType
<1>2. /\ l \in Nat /\ Len(t) = l + 1 /\ DOMAIN t = 1 .. l + 1
      /\ \A i \in 1 .. l : t[i] = s[i]
      /\ t[l + 1] = e
  BY <1>1, Appends
<1>3. l + 1 \in DOMAIN t /\ l <= Len(t)
  BY <1>2
<1>4. \A i \in l + 1 .. Len(t) : t[i].kind # "live" /\ t[i].id \in S
  <2>1. \A i \in l + 1 .. Len(t) : i = l + 1
    BY <1>2
  <2>. QED BY <1>2, <2>1
<1>5. \E j \in DOMAIN n.got : n.last = Text(n.got[j].id) /\ n.got[j].id \in S
  BY <1>2, <1>3
<1>6. /\ Len(m.got) <= Len(n.got)
      /\ \A i \in 1 .. Len(m.got) : n.got[i] = m.got[i]
      /\ \A i \in Len(m.got) + 1 .. Len(n.got) : n.got[i].kind # "live" /\ n.got[i].id \in S
  BY <1>2, <1>3, <1>4
<1>7. Since(m, n, S)
  BY <1>5, <1>6 DEF Since
<1>8. Has(m, n, e.id)
  BY <1>2, <1>3 DEF Has
<1>. QED BY <1>7, <1>8

LEMMA SendEventSince ==
  ASSUME NEW S \in SUBSET Nat, NEW m \in MqttRecord, NEW id \in S, NEW kind \in Kind, kind # "live"
  PROVE  LET n == SendEvent(m, id, kind, FALSE) IN Since(m, n, S) /\ Has(m, n, id)
<1>1. CASE m.last = Text(id)
  BY <1>1, SinceStill DEF SendEvent, Has
<1>2. CASE m.last # Text(id)
  <2>. PICK n : n = Got(m, id, kind, FALSE)
    OBVIOUS
  <2>. PICK e : e = [id |-> id, kind |-> kind]
    OBVIOUS
  <2>1. SendEvent(m, id, kind, FALSE) = n
    BY <1>2 DEF SendEvent
  <2>2. /\ n \in MqttRecord
        /\ n.state = m.state /\ n.will = m.will /\ n.filters = m.filters
        /\ n.after = m.after /\ n.clean = m.clean
        /\ n.last = Text(id)
        /\ n.got = Append(m.got, e)
        /\ n.unacked = m.unacked
    <3>1. id \in Nat
      OBVIOUS
    <3>2. /\ n \in MqttRecord
          /\ n.state = m.state /\ n.will = m.will /\ n.filters = m.filters
          /\ n.after = m.after /\ n.clean = m.clean
          /\ n.last = Text(id)
          /\ n.got = Append(m.got, e)
      BY <3>1, GotIs
    <3>3. n.unacked = m.unacked
      BY GotQuietly
    <3>. QED BY <3>2, <3>3
  <2>3. e \in Message /\ e.id = id /\ e.kind = kind
    BY DEF Message
  <2>4. Since(m, n, S) /\ Has(m, n, e.id)
    BY <2>2, <2>3, SinceAppended
  <2>. QED BY <2>1, <2>3, <2>4
<1>. QED BY <1>1, <1>2

(* After a list of ids was sent, every one of them was written, now or     *)
(* just before.                                                            *)
LEMMA SendAllSince ==
  ASSUME NEW S \in SUBSET Nat, NEW m \in MqttRecord, NEW c \in Nat, NEW ids \in [1 .. c -> S],
         NEW kind \in Kind, kind # "live"
  PROVE  LET n == SendAll(m, ids, kind, FALSE)
         IN Since(m, n, S) /\ \A k \in 1 .. c : Has(m, n, ids[k])
<1>1. ids \in [1 .. c -> Nat]
  OBVIOUS
<1>2. PICK g : SendSteps(g, m, c, ids, kind, FALSE) /\ g[c] = SendAll(m, ids, kind, FALSE)
  <2>1. FALSE \in BOOLEAN
    OBVIOUS
  <2>. QED BY <1>1, <2>1, SendAllSteps
<1> DEFINE P == {k \in 0 .. c : Since(m, g[k], S) /\ \A l \in 1 .. k : Has(m, g[k], ids[l])}
<1>3. 0 \in P
  <2>1. g[0] = m
    BY <1>2 DEF SendSteps
  <2>2. Since(m, g[0], S)
    BY <2>1, SinceStill
  <2>3. 1 .. 0 = {}
    OBVIOUS
  <2>. QED BY <2>2, <2>3
<1>4. ASSUME NEW k \in 1 .. c, k - 1 \in P PROVE k \in P
  <2>. PICK a : a = g[k - 1]
    OBVIOUS
  <2>. PICK b : b = g[k]
    OBVIOUS
  <2>1. a \in MqttRecord /\ b = SendEvent(a, ids[k], kind, FALSE)
    <3>1. k - 1 \in 0 .. c
      OBVIOUS
    <3>. QED BY <1>2, <3>1 DEF SendSteps
  <2>2. Since(m, a, S) /\ \A l \in 1 .. k - 1 : Has(m, a, ids[l])
    BY <1>4
  <2>3. ids[k] \in S
    OBVIOUS
  <2>4. Since(a, b, S) /\ Has(a, b, ids[k])
    BY <2>1, <2>3, SendEventSince
  <2>5. Since(m, b, S) /\ \A id : Has(m, a, id) \/ Has(a, b, id) => Has(m, b, id)
    BY <2>2, <2>4, SinceThen
  <2>6. ASSUME NEW l \in 1 .. k PROVE Has(m, b, ids[l])
    <3>1. l \in 1 .. k - 1 \/ l = k
      OBVIOUS
    <3>. QED BY <2>2, <2>4, <2>5, <3>1
  <2>7. k \in 0 .. c
    OBVIOUS
  <2>. QED BY <2>5, <2>6, <2>7
<1> HIDE DEF P
<1>5. c \in P
  <2>1. \A k \in 0 .. c : k \in P
    BY <1>3, <1>4, UpTo
  <2>. QED BY <2>1
<1>6. Since(m, g[c], S) /\ \A l \in 1 .. c : Has(m, g[c], ids[l])
  BY <1>5 DEF P
<1>. QED BY <1>2, <1>6

(* c lists of ids of S.                                                    *)
Lists(c, lists, S) ==
  /\ lists = [k \in 1 .. c |-> lists[k]]
  /\ \A k \in 1 .. c : \E l \in Nat : lists[k] \in [1 .. l -> S]

(* What Replay runs through. *)
ReplaySteps(g, m, c, lists, kind) ==
  /\ g[0] = m
  /\ \A k \in 1 .. c : g[k] = SendAll(g[k - 1], lists[k], kind, FALSE)

LEMMA ReplayRuns ==
  ASSUME NEW S \in SUBSET Nat, NEW m \in MqttRecord, NEW c \in Nat,
         NEW lists, Lists(c, lists, S), NEW kind \in Kind, kind # "live"
  PROVE  \E g : ReplaySteps(g, m, c, lists, kind) /\ g[c] = Replay(m, kind, lists)
<1> DEFINE Body(f) == [s \in SUBSET (1 .. c) |->
                         IF s = {} THEN m ELSE SendAll(f[s \ {Max(s)}], lists[Max(s)], kind, FALSE)]
           i == CHOOSE f : f = Body(f)
           G == [p \in MqttRecord \X (1 .. c) |-> SendAll(p[1], lists[p[2]], kind, FALSE)]
           H == [p \in {i[s] : s \in SUBSET (1 .. c)} \X (1 .. c) |->
                   SendAll(p[1], lists[p[2]], kind, FALSE)]
<1>1. DOMAIN lists = 1 .. c
  BY DEF Lists
<1>2. Replay(m, kind, lists) = i[1 .. c]
  BY <1>1 DEF Replay, FoldLeft, MapThenFoldSet
<1>3. G \in [MqttRecord \X (1 .. c) -> MqttRecord]
  <2>1. ASSUME NEW p \in MqttRecord \X (1 .. c)
        PROVE  SendAll(p[1], lists[p[2]], kind, FALSE) \in MqttRecord
    <3>1. p[1] \in MqttRecord /\ p[2] \in 1 .. c
      OBVIOUS
    <3>2. PICK l \in Nat : lists[p[2]] \in [1 .. l -> S]
      BY <3>1 DEF Lists
    <3>3. Since(p[1], SendAll(p[1], lists[p[2]], kind, FALSE), S)
      BY <3>1, <3>2, SendAllSince
    <3>. QED BY <3>3 DEF Since
  <2>. QED BY <2>1
<1>4. \E f : f = Body(f)
  <2> HIDE DEF G
  <2>1. PICK f : Iterates(f, c, m, G)
    BY FoldIterates
  <2>2. \A s \in SUBSET (1 .. c) : f[s] \in MqttRecord
    BY <1>3, <2>1, FoldTyped
  <2>3. ASSUME NEW s \in SUBSET (1 .. c), s # {}
        PROVE  G[<<f[s \ {Max(s)}], Max(s)>>] = SendAll(f[s \ {Max(s)}], lists[Max(s)], kind, FALSE)
    <3>1. Max(s) \in 1 .. c
      BY <2>3, MaxOf
    <3>2. f[s \ {Max(s)}] \in MqttRecord
      BY <2>2
    <3>. QED BY <3>1, <3>2 DEF G
  <2>4. f = [s \in SUBSET (1 .. c) |-> IF s = {} THEN m ELSE G[<<f[s \ {Max(s)}], Max(s)>>]]
    BY <2>1 DEF Iterates
  <2>5. f = Body(f)
    BY <2>3, <2>4
  <2>. QED BY <2>5
<1>5. i = Body(i)
  BY <1>4
<1> HIDE DEF i
<1>6. Iterates(i, c, m, H)
  <2>1. ASSUME NEW s \in SUBSET (1 .. c), s # {}
        PROVE  H[<<i[s \ {Max(s)}], Max(s)>>] = SendAll(i[s \ {Max(s)}], lists[Max(s)], kind, FALSE)
    <3>1. Max(s) \in 1 .. c
      BY <2>1, MaxOf
    <3>2. i[s \ {Max(s)}] \in {i[t] : t \in SUBSET (1 .. c)}
      OBVIOUS
    <3>. QED BY <3>1, <3>2
  <2> HIDE DEF H
  <2>2. i = [s \in SUBSET (1 .. c) |-> IF s = {} THEN m ELSE H[<<i[s \ {Max(s)}], Max(s)>>]]
    BY <1>5, <2>1
  <2>. QED BY <2>2 DEF Iterates
<1> DEFINE g == [k \in 0 .. c |-> i[1 .. k]]
<1>7. Chain(g, c, m, H)
  <2> HIDE DEF H
  <2>. QED BY <1>6, FoldChain
<1>8. ASSUME NEW k \in 1 .. c PROVE g[k] = SendAll(g[k - 1], lists[k], kind, FALSE)
  <2>1. k - 1 \in 0 .. c /\ 1 .. k - 1 \in SUBSET (1 .. c)
    OBVIOUS
  <2>2. g[k - 1] = i[1 .. k - 1]
    BY <2>1
  <2>3. <<g[k - 1], k>> \in {i[s] : s \in SUBSET (1 .. c)} \X (1 .. c)
    BY <2>1, <2>2
  <2> HIDE DEF g
  <2>4. H[<<g[k - 1], k>>] = SendAll(g[k - 1], lists[k], kind, FALSE)
    BY <2>3
  <2>. QED BY <1>7, <2>4 DEF Chain
<1>9. g[0] = m
  BY <1>7 DEF Chain
<1>10. g[c] = i[1 .. c]
  OBVIOUS
<1> HIDE DEF g
<1>11. ReplaySteps(g, m, c, lists, kind)
  BY <1>8, <1>9 DEF ReplaySteps
<1>. QED BY <1>2, <1>10, <1>11

(* After a replay each id of each list was written.                        *)
LEMMA ReplaySince ==
  ASSUME NEW S \in SUBSET Nat, NEW m \in MqttRecord, NEW c \in Nat,
         NEW lists, Lists(c, lists, S), NEW kind \in Kind, kind # "live"
  PROVE  LET n == Replay(m, kind, lists)
         IN /\ Since(m, n, S)
            /\ \A k \in 1 .. c : \A i \in DOMAIN lists[k] : Has(m, n, lists[k][i])
<1>1. PICK g : ReplaySteps(g, m, c, lists, kind) /\ g[c] = Replay(m, kind, lists)
  BY ReplayRuns
<1> DEFINE HasAll(n, k) == \A l \in 1 .. k : \A i \in DOMAIN lists[l] : Has(m, n, lists[l][i])
           P == {k \in 0 .. c : Since(m, g[k], S) /\ HasAll(g[k], k)}
<1>2. 0 \in P
  <2>1. g[0] = m
    BY <1>1 DEF ReplaySteps
  <2>2. Since(m, g[0], S)
    BY <2>1, SinceStill
  <2>3. 1 .. 0 = {}
    OBVIOUS
  <2>. QED BY <2>2, <2>3
<1>3. ASSUME NEW k \in 1 .. c, k - 1 \in P PROVE k \in P
  <2>. PICK a : a = g[k - 1]
    OBVIOUS
  <2>. PICK b : b = g[k]
    OBVIOUS
  <2>1. b = SendAll(a, lists[k], kind, FALSE)
    BY <1>1 DEF ReplaySteps
  <2>2. Since(m, a, S) /\ HasAll(a, k - 1)
    BY <1>3
  <2>3. a \in MqttRecord
    BY <2>2 DEF Since
  <2>4. PICK l \in Nat : lists[k] \in [1 .. l -> S]
    BY DEF Lists
  <2>5. Since(a, b, S) /\ \A i \in 1 .. l : Has(a, b, lists[k][i])
    BY <2>1, <2>3, <2>4, SendAllSince
  <2>6. Since(m, b, S) /\ \A id : Has(m, a, id) \/ Has(a, b, id) => Has(m, b, id)
    BY <2>2, <2>5, SinceThen
  <2>7. ASSUME NEW j \in 1 .. k, NEW i \in DOMAIN lists[j] PROVE Has(m, b, lists[j][i])
    <3>1. CASE j \in 1 .. k - 1
      <4>1. Has(m, a, lists[j][i])
        BY <2>2, <3>1
      <4>. QED BY <2>6, <4>1
    <3>2. CASE j = k
      <4>1. i \in 1 .. l
        BY <2>4, <3>2
      <4>2. Has(a, b, lists[j][i])
        BY <2>5, <3>2, <4>1
      <4>. QED BY <2>6, <4>2
    <3>3. j \in 1 .. k - 1 \/ j = k
      OBVIOUS
    <3>. QED BY <3>1, <3>2, <3>3
  <2>8. HasAll(b, k)
    BY <2>7
  <2>9. k \in 0 .. c
    OBVIOUS
  <2> HIDE DEF HasAll
  <2>. QED BY <2>6, <2>8, <2>9
<1>4. c \in P
  <2> HIDE DEF P
  <2>1. \A k \in 0 .. c : k \in P
    BY <1>2, <1>3, UpTo
  <2>. QED BY <2>1
<1>5. Since(m, g[c], S) /\ HasAll(g[c], c)
  BY <1>4
<1>. QED BY <1>1, <1>5

-----------------------------------------------------------------------------
(* The realm. *)

(* The values that the realm is made of, and the realm.                    *)
Topic == {LockUri, OffsetUri} \cup {p.uri : p \in Packet \cup WillPacket}
Data ==
  {Empty, Letters} \cup {Text(n) : n \in Nat} \cup {Object(h) : h \in HyperSession}
    \cup {p.data : p \in Packet \cup WillPacket}
EventRecord ==
  [uri : Topic, data : Data, sid : Session, id : Nat, trace : BOOLEAN, retain : BOOLEAN,
   when : BOOLEAN, watch : BOOLEAN, will : BOOLEAN]
Entry == [id : Nat, uri : Topic, sid : Session]
LockEvent(h, n) ==
  [uri |-> LockUri, data |-> Object(h), sid |-> h, id |-> n, trace |-> FALSE,
   retain |-> TRUE, when |-> TRUE, watch |-> TRUE, will |-> TRUE]
Waits == {LockEvent(h, n) : h \in HyperSession, n \in Nat}
Row == [data : Data, sid : HyperSession \cup {None}, id : Nat, waiters : Seq(Waits)]
RealmRecord ==
  [lastId : Nat, history : Seq(Entry), kv : [Key -> Row],
   hyper : [HyperSession -> {"new", "in", "over"}], mqtt : [MqttClientSession -> MqttRecord]]

Numbered(e, n) == [e EXCEPT !.id = n]

LEMMA NumberedIs ==
  ASSUME NEW e \in EventRecord, NEW n \in Nat
  PROVE  LET f == Numbered(e, n)
         IN /\ f \in EventRecord
            /\ f.uri = e.uri /\ f.data = e.data /\ f.sid = e.sid /\ f.id = n
            /\ f.trace = e.trace /\ f.retain = e.retain /\ f.when = e.when
            /\ f.watch = e.watch /\ f.will = e.will
<1> DEFINE f == Numbered(e, n)
<1>1. f = [uri |-> e.uri, data |-> e.data, sid |-> e.sid, id |-> n, trace |-> e.trace,
           retain |-> e.retain, when |-> e.when, watch |-> e.watch, will |-> e.will]
  BY DEF Numbered, EventRecord
<1> HIDE DEF f
<1>2. f \in EventRecord
  BY <1>1 DEF EventRecord
<1>3. /\ f.uri = e.uri /\ f.data = e.data /\ f.sid = e.sid /\ f.id = n
      /\ f.trace = e.trace /\ f.retain = e.retain /\ f.when = e.when
      /\ f.watch = e.watch /\ f.will = e.will
  BY <1>1
<1>4. /\ f \in EventRecord
      /\ f.uri = e.uri /\ f.data = e.data /\ f.sid = e.sid /\ f.id = n
      /\ f.trace = e.trace /\ f.retain = e.retain /\ f.when = e.when
      /\ f.watch = e.watch /\ f.will = e.will
  BY <1>2, <1>3
<1>. QED BY <1>4 DEF f

(* What a push does before it turns to the store. *)
Traced(x, e) ==
  IF e.trace THEN Append(x.history, [id |-> x.lastId + 1, uri |-> e.uri, sid |-> e.sid])
  ELSE x.history
Told(m, e, id) ==
  IF m.state = "in" /\ Fits(m, e.uri) THEN Got(m, id, "live", e.trace) ELSE m

(* Unsent: the next id was not sent to anybody. *)
Unsent(x) == \A m \in MqttClientSession : x.mqtt[m].last # Text(x.lastId + 1)

LEMMA ToldType ==
  ASSUME NEW m \in MqttRecord, NEW e \in EventRecord, NEW id \in Nat
  PROVE  Told(m, e, id) \in MqttRecord
<1>1. "live" \in Kind /\ e.trace \in BOOLEAN
  BY DEF Kind, EventRecord
<1>2. Got(m, id, "live", e.trace) \in MqttRecord
  BY <1>1, GotIs
<1>. QED BY <1>2 DEF Told

Sent(x, e) == DisperseToSubs(KeepMemHistory(x, Numbered(e, x.lastId + 1)), Numbered(e, x.lastId + 1))

LEMMA SentIs ==
  ASSUME NEW x \in RealmRecord, NEW e \in EventRecord, Unsent(x)
  PROVE  LET z == Sent(x, e)
         IN /\ z \in RealmRecord
            /\ z.lastId = x.lastId + 1 /\ z.history = Traced(x, e)
            /\ z.kv = x.kv /\ z.hyper = x.hyper
            /\ z.mqtt = [m \in MqttClientSession |-> Told(x.mqtt[m], e, x.lastId + 1)]
<1>. PICK n : n = x.lastId + 1
  OBVIOUS
<1>. PICK f : f = Numbered(e, n)
  OBVIOUS
<1>. PICK h : h = Traced(x, e)
  OBVIOUS
<1>. PICK c : c = [m \in MqttClientSession |-> Told(x.mqtt[m], e, n)]
  OBVIOUS
<1>. PICK y : y = KeepMemHistory(x, f)
  OBVIOUS
<1>. PICK z : z = Sent(x, e)
  OBVIOUS
<1>1. n \in Nat /\ x.lastId \in Nat
  BY DEF RealmRecord
<1>2. /\ f \in EventRecord /\ f.uri = e.uri /\ f.sid = e.sid /\ f.id = n /\ f.trace = e.trace
  BY <1>1, NumberedIs
<1>3. x = [lastId |-> x.lastId, history |-> x.history, kv |-> x.kv, hyper |-> x.hyper,
           mqtt |-> x.mqtt]
  BY DEF RealmRecord
<1>4. x.kv \in [Key -> Row] /\ x.hyper \in [HyperSession -> {"new", "in", "over"}]
      /\ x.mqtt \in [MqttClientSession -> MqttRecord] /\ x.history \in Seq(Entry)
  BY DEF RealmRecord
<1>5. h \in Seq(Entry)
  <2>. PICK t : t = [id |-> n, uri |-> e.uri, sid |-> e.sid]
    OBVIOUS
  <2>1. t \in Entry
    <3>1. e.uri \in Topic /\ e.sid \in Session
      BY DEF EventRecord
    <3>. QED BY <1>1, <3>1 DEF Entry
  <2>2. Append(x.history, t) \in Seq(Entry)
    BY <1>4, <2>1
  <2>3. h = IF e.trace THEN Append(x.history, t) ELSE x.history
    BY DEF Traced
  <2>. QED BY <1>4, <2>2, <2>3
<1>6. y = [x EXCEPT !.lastId = n, !.history = h]
  BY <1>2 DEF KeepMemHistory, Traced
<1>7. y = [lastId |-> n, history |-> h, kv |-> x.kv, hyper |-> x.hyper, mqtt |-> x.mqtt]
  BY <1>3, <1>6
<1>8. ASSUME NEW m \in MqttClientSession
      PROVE  Disperse(x.mqtt[m], f.uri, f.id, f.trace) = Told(x.mqtt[m], e, n)
             /\ Told(x.mqtt[m], e, n) \in MqttRecord
  <2>. PICK r : r = x.mqtt[m]
    OBVIOUS
  <2>1. r \in MqttRecord /\ r.last # Text(n) /\ e.trace \in BOOLEAN
    BY <1>4 DEF Unsent, EventRecord
  <2>2. Disperse(r, e.uri, n, e.trace) = Told(r, e, n)
    BY <1>1, <2>1, DisperseIs DEF Told
  <2>3. Told(r, e, n) \in MqttRecord
    BY <1>1, <2>1, ToldType
  <2>. QED BY <1>2, <2>2, <2>3
<1>9. [m \in MqttClientSession |-> Disperse(y.mqtt[m], f.uri, f.id, f.trace)] = c
  BY <1>7, <1>8
<1>10. z = [y EXCEPT !.mqtt = c]
  BY <1>9 DEF Sent, DisperseToSubs
<1>11. z = [lastId |-> n, history |-> h, kv |-> x.kv, hyper |-> x.hyper, mqtt |-> c]
  BY <1>7, <1>10
<1>12. c \in [MqttClientSession -> MqttRecord]
  BY <1>8
<1>13. z \in RealmRecord
  BY <1>1, <1>4, <1>5, <1>11, <1>12 DEF RealmRecord
<1>14. z.lastId = n /\ z.history = h /\ z.kv = x.kv /\ z.hyper = x.hyper /\ z.mqtt = c
  BY <1>11
<1>. QED BY <1>13, <1>14

(* A change of one row. *)
Put(x, k, row, n) == [x EXCEPT !.lastId = n, !.kv[k] = row]

LEMMA PutIs ==
  ASSUME NEW x \in RealmRecord, NEW k \in Key, NEW row \in Row, NEW n \in Nat
  PROVE  LET y == Put(x, k, row, n)
         IN /\ y \in RealmRecord
            /\ y.lastId = n /\ y.history = x.history /\ y.hyper = x.hyper /\ y.mqtt = x.mqtt
            /\ y.kv = [x.kv EXCEPT ![k] = row]
<1>. PICK y : y = Put(x, k, row, n)
  OBVIOUS
<1>. PICK v : v = [x.kv EXCEPT ![k] = row]
  OBVIOUS
<1>1. x = [lastId |-> x.lastId, history |-> x.history, kv |-> x.kv, hyper |-> x.hyper,
           mqtt |-> x.mqtt]
  BY DEF RealmRecord
<1>2. x.kv \in [Key -> Row] /\ x.hyper \in [HyperSession -> {"new", "in", "over"}]
      /\ x.mqtt \in [MqttClientSession -> MqttRecord] /\ x.history \in Seq(Entry)
  BY DEF RealmRecord
<1>3. v \in [Key -> Row]
  BY <1>2
<1>4. y = [x EXCEPT !.lastId = n, !.kv = v]
  BY <1>1 DEF Put
<1>5. y = [lastId |-> n, history |-> x.history, kv |-> v, hyper |-> x.hyper, mqtt |-> x.mqtt]
  BY <1>1, <1>4
<1>6. y \in RealmRecord
  BY <1>2, <1>3, <1>5 DEF RealmRecord
<1>7. y.lastId = n /\ y.history = x.history /\ y.kv = v /\ y.hyper = x.hyper /\ y.mqtt = x.mqtt
  BY <1>5
<1>. QED BY <1>6, <1>7

(* What one turn stores. *)
Stored(e, old, waiters) ==
  IF Merged(old, e.data) = Empty THEN NoRow
  ELSE [data |-> Merged(old, e.data), id |-> e.id, sid |-> IF e.will THEN e.sid ELSE None,
        waiters |-> waiters]

LEMMA PubOneIs ==
  ASSUME NEW x \in RealmRecord, NEW e, NEW old, NEW waiters
  PROVE  PubOne(x, e, old, waiters) = Put(x, e.uri, Stored(e, old, waiters), x.lastId + 1)
BY DEF PubOne, Put, Stored, RealmRecord

(* What may be stored at OffsetUri while the last id is n.                 *)
Acked(n) == {Empty, Letters} \cup {Text(i) : i \in 0 .. n}

(* A row: who holds the key and who waits for it is there.                 *)
RowOK(x, k, row) ==
  /\ row.id <= x.lastId
  /\ row = NoRow \/ row.data # Empty
  /\ k # LockUri => row.sid = None /\ row.waiters = <<>>
  /\ k = OffsetUri => row.data \in Acked(x.lastId)
  /\ k = LockUri /\ row # NoRow =>
       row.sid \in HyperSession /\ x.hyper[row.sid] = "in" /\ row.data = Object(row.sid)
  /\ \A i \in DOMAIN row.waiters :
       x.hyper[row.waiters[i].sid] = "in" /\ row.waiters[i].id <= x.lastId
RowsOK(x) == \A k \in Key : RowOK(x, k, x.kv[k])

LEMMA Values ==
  /\ Empty # Letters /\ Empty.kind = "empty"
  /\ \A n : Text(n) # Empty /\ Text(n) # Letters /\ Text(n).kind = "text" /\ Text(n).id = n
  /\ \A s : Object(s) # Empty /\ Object(s) # Letters /\ Object(s).kind = "object"
            /\ Object(s).by = s
BY DEF Empty, Letters, Text, Object

LEMMA NoRowIs ==
  /\ NoRow \in Row /\ NoRow.data = Empty /\ NoRow.sid = None /\ NoRow.id = 0
  /\ NoRow.waiters = <<>>
<1>1. Empty \in Data
  BY DEF Data
<1>2. <<>> \in Seq(Waits) /\ 0 \in Nat
  OBVIOUS
<1>. QED BY <1>1, <1>2 DEF NoRow, Row

LEMMA RowType ==
  ASSUME NEW x \in RealmRecord, NEW k \in Key
  PROVE  /\ x.kv[k] \in Row /\ x.kv[k].data \in Data /\ x.kv[k].sid \in HyperSession \cup {None}
         /\ x.kv[k].id \in Nat /\ x.kv[k].waiters \in Seq(Waits)
<1>1. x.kv[k] \in Row
  BY DEF RealmRecord
<1>. QED BY <1>1 DEF Row

LEMMA WaitsIs ==
  ASSUME NEW w \in Waits
  PROVE  /\ w.sid \in HyperSession /\ w.id \in Nat /\ w.data = Object(w.sid)
         /\ w.uri = LockUri /\ w.will = TRUE
         /\ w = LockEvent(w.sid, w.id)
<1>1. PICK h \in HyperSession, n \in Nat : w = LockEvent(h, n)
  BY DEF Waits
<1>. QED BY <1>1 DEF LockEvent

LEMMA NotSession == None \notin HyperSession
BY SessionAssumption

LEMMA LockIsKey == LockUri \in Key /\ OffsetUri \in Key /\ LockUri # OffsetUri
BY KeyAssumption DEF Key

LEMMA WaitingAll ==
  ASSUME NEW x \in RealmRecord, NEW k \in Key, RowOK(x, k, x.kv[k])
  PROVE  Waiting(x, x.kv[k]) = x.kv[k].waiters
<1>. PICK row : row = x.kv[k]
  OBVIOUS
<1>. PICK w : w = row.waiters
  OBVIOUS
<1>. PICK n : n = Len(w)
  OBVIOUS
<1>1. w \in Seq(Waits)
  BY RowType
<1>2. n \in Nat /\ DOMAIN w = 1 .. n /\ w = [i \in 1 .. n |-> w[i]]
  BY <1>1
<1>3. ASSUME NEW i \in DOMAIN w PROVE IsActive(x, w[i].sid)
  <2>1. w[i] \in Waits
    BY <1>1
  <2>2. w[i].sid \in HyperSession
    BY <2>1, WaitsIs
  <2>3. x.hyper[w[i].sid] = "in"
    BY DEF RowOK
  <2>. QED BY <2>2, <2>3 DEF IsActive
<1>4. {i \in DOMAIN w : IsActive(x, w[i].sid)} = 1 .. n
  BY <1>2, <1>3
<1>5. Waiting(x, row) = At(w, 1 .. n)
  BY <1>4 DEF Waiting
<1>. QED BY <1>2, <1>5, AtAll

LEMMA SameRealm ==
  ASSUME NEW x \in RealmRecord, NEW y \in RealmRecord,
         x.lastId = y.lastId, x.history = y.history, x.kv = y.kv, x.hyper = y.hyper,
         x.mqtt = y.mqtt
  PROVE  x = y
BY DEF RealmRecord

LEMMA PutTwice ==
  ASSUME NEW x \in RealmRecord, NEW k \in Key, NEW q \in Row, NEW r \in Row,
         NEW a \in Nat, NEW b \in Nat
  PROVE  Put(Put(x, k, q, a), k, r, b) = Put(x, k, r, b)
<1>. PICK y : y = Put(x, k, q, a)
  OBVIOUS
<1>1. y \in RealmRecord /\ y.history = x.history /\ y.hyper = x.hyper /\ y.mqtt = x.mqtt
      /\ y.kv = [x.kv EXCEPT ![k] = q]
  BY PutIs
<1>2. x.kv \in [Key -> Row]
  BY DEF RealmRecord
<1>3. [y.kv EXCEPT ![k] = r] = [x.kv EXCEPT ![k] = r]
  BY <1>1, <1>2
<1>. PICK p : p = Put(y, k, r, b)
  OBVIOUS
<1>. PICK q0 : q0 = Put(x, k, r, b)
  OBVIOUS
<1>4. /\ p \in RealmRecord /\ p.lastId = b /\ p.history = y.history /\ p.hyper = y.hyper
      /\ p.mqtt = y.mqtt /\ p.kv = [y.kv EXCEPT ![k] = r]
  BY <1>1, PutIs
<1>5. /\ q0 \in RealmRecord /\ q0.lastId = b /\ q0.history = x.history /\ q0.hyper = x.hyper
      /\ q0.mqtt = x.mqtt /\ q0.kv = [x.kv EXCEPT ![k] = r]
  BY PutIs
<1>6. p = q0
  BY <1>1, <1>3, <1>4, <1>5, SameRealm
<1>. QED BY <1>6

LEMMA MergedIs ==
  ASSUME NEW old, NEW new
  PROVE  /\ Merged(old, new) = new \/ Merged(old, new) = Letters
         /\ old = Empty \/ new = Empty => Merged(old, new) = new
         /\ Merged(old, new) = Empty <=> new = Empty
BY Values DEF Merged

LEMMA StoredIs ==
  ASSUME NEW e \in EventRecord, NEW old, NEW ws \in Seq(Waits), e.will => e.sid \in HyperSession
  PROVE  /\ Stored(e, old, ws) \in Row
         /\ e.data = Empty => Stored(e, old, ws) = NoRow
         /\ e.data # Empty =>
              LET row == Stored(e, old, ws)
              IN /\ row # NoRow /\ row.data = Merged(old, e.data) /\ row.data # Empty
                 /\ row.id = e.id /\ row.waiters = ws
                 /\ row.sid = IF e.will THEN e.sid ELSE None
<1>. PICK d : d = Merged(old, e.data)
  OBVIOUS
<1>. PICK s : s = IF e.will THEN e.sid ELSE None
  OBVIOUS
<1>. PICK r : r = [data |-> d, id |-> e.id, sid |-> s, waiters |-> ws]
  OBVIOUS
<1>. PICK row : row = Stored(e, old, ws)
  OBVIOUS
<1>1. e.data \in Data /\ e.id \in Nat /\ Letters \in Data
  BY DEF EventRecord, Data
<1>2. (d = e.data \/ d = Letters) /\ (d = Empty <=> e.data = Empty)
  BY MergedIs
<1>3. s \in HyperSession \cup {None}
  OBVIOUS
<1>4. r \in Row
  BY <1>1, <1>2, <1>3 DEF Row
<1>5. row = IF d = Empty THEN NoRow ELSE r
  BY DEF Stored
<1>6. r.data = d /\ r.id = e.id /\ r.sid = s /\ r.waiters = ws
  OBVIOUS
<1>7. row \in Row
  BY <1>4, <1>5, NoRowIs
<1>8. CASE e.data = Empty
  BY <1>2, <1>5, <1>7, <1>8
<1>9. CASE e.data # Empty
  <2>1. row = r /\ r # NoRow /\ d # Empty
    BY <1>2, <1>5, <1>6, <1>9, NoRowIs
  <2>. QED BY <1>6, <1>7, <1>9, <2>1
<1>. QED BY <1>8, <1>9

LEMMA PubWhileNone ==
  ASSUME NEW x \in RealmRecord, NEW e \in EventRecord, e.uri \in Key,
         RowOK(x, e.uri, x.kv[e.uri]), x.kv[e.uri].waiters = <<>>
  PROVE  PubWhile(x, e) = Put(x, e.uri, Stored(e, x.kv[e.uri].data, <<>>), x.lastId + 1)
<1>1. Waiting(x, x.kv[e.uri]) = <<>>
  BY WaitingAll
<1>2. PubWhile(x, e) = PubOne(x, e, x.kv[e.uri].data, <<>>)
  BY <1>1 DEF PubWhile
<1>. QED BY <1>2, PubOneIs

Given(w, ws) == [data |-> Object(w.sid), id |-> w.id, sid |-> w.sid, waiters |-> ws]

LEMMA GivenIs ==
  ASSUME NEW w \in Waits, NEW ws \in Seq(Waits)
  PROVE  /\ Given(w, ws) \in Row /\ Given(w, ws) # NoRow /\ Given(w, ws).data = Object(w.sid)
         /\ Given(w, ws).id = w.id /\ Given(w, ws).sid = w.sid /\ Given(w, ws).waiters = ws
<1>1. w.sid \in HyperSession /\ w.id \in Nat
  BY WaitsIs
<1>2. Object(w.sid) \in Data
  BY <1>1 DEF Data
<1>3. Given(w, ws) \in Row
  BY <1>1, <1>2 DEF Given, Row
<1>4. Given(w, ws).sid = w.sid
  BY DEF Given
<1>5. Given(w, ws) # NoRow
  BY <1>1, <1>4, NoRowIs, NotSession
<1>. QED BY <1>3, <1>4, <1>5 DEF Given

LEMMA PubWhileNext ==
  ASSUME NEW x \in RealmRecord, NEW e \in EventRecord, e.uri = LockUri, e.data = Empty,
         RowOK(x, LockUri, x.kv[LockUri]),
         NEW ws, ws = x.kv[LockUri].waiters, ws # <<>>
  PROVE  /\ Head(ws) \in Waits /\ Tail(ws) \in Seq(Waits)
         /\ PubWhile(x, e) = Put(x, LockUri, Given(Head(ws), Tail(ws)), x.lastId + 2)
<1>. PICK w : w = Head(ws)
  OBVIOUS
<1>. PICK t : t = Tail(ws)
  OBVIOUS
<1>. PICK row : row = x.kv[LockUri]
  OBVIOUS
<1>. PICK y : y = PubOne(x, e, row.data, ws)
  OBVIOUS
<1>1. ws \in Seq(Waits) /\ LockUri \in Key
  BY RowType, LockIsKey
<1>2. w \in Waits /\ t \in Seq(Waits)
  BY <1>1
<1>3. Waiting(x, row) = ws
  BY <1>1, WaitingAll
<1>4. row # NoRow
  BY NoRowIs
<1>5. row.sid \in HyperSession /\ row.data = Object(row.sid)
  BY <1>4 DEF RowOK
<1>6. Merged(row.data, e.data) = Empty
  BY MergedIs
<1>7. Stored(e, row.data, ws) = NoRow
  BY <1>6 DEF Stored
<1>8. y = Put(x, LockUri, NoRow, x.lastId + 1)
  BY <1>7, PubOneIs
<1>9. x.lastId \in Nat /\ x.lastId + 1 \in Nat /\ x.lastId + 2 \in Nat
  BY DEF RealmRecord
<1>10. y \in RealmRecord /\ y.lastId = x.lastId + 1 /\ y.kv = [x.kv EXCEPT ![LockUri] = NoRow]
  BY <1>1, <1>8, <1>9, NoRowIs, PutIs
<1>11. y.kv[LockUri].data = Empty
  <2>1. x.kv \in [Key -> Row]
    BY DEF RealmRecord
  <2>. QED BY <1>1, <1>10, <2>1, NoRowIs
<1>12. PubWhile(x, e) = PubOne(y, w, row.data, t)
  BY <1>3, <1>11 DEF PubWhile
<1>13. w.uri = LockUri /\ w.data = Object(w.sid) /\ w.will = TRUE
  BY <1>2, WaitsIs
<1>14. Merged(row.data, w.data) = w.data /\ w.data # Empty
  BY <1>5, <1>13, Values DEF Merged
<1>15. Stored(w, row.data, t) = Given(w, t)
  BY <1>13, <1>14 DEF Stored, Given
<1>16. PubWhile(x, e) = Put(y, LockUri, Given(w, t), y.lastId + 1)
  BY <1>10, <1>12, <1>13, <1>15, PubOneIs
<1>17. Given(w, t) \in Row
  BY <1>2, GivenIs
<1>18. y.lastId + 1 = x.lastId + 2
  BY <1>9, <1>10
<1>19. Put(y, LockUri, Given(w, t), x.lastId + 2) = Put(x, LockUri, Given(w, t), x.lastId + 2)
  BY <1>1, <1>8, <1>9, <1>17, NoRowIs, PutTwice
<1>. QED BY <1>2, <1>16, <1>18, <1>19

(* What a push does to the realm, if it leaves the keys as in rows.        *)
Effect(x, e, y, rows) ==
  /\ y \in RealmRecord
  /\ y.lastId > x.lastId /\ y.history = Traced(x, e) /\ y.hyper = x.hyper /\ y.kv = rows
  /\ y.mqtt = [m \in MqttClientSession |-> Told(x.mqtt[m], e, x.lastId + 1)]

(* A realm that is ready for a push.                                       *)
Ready(x) == x \in RealmRecord /\ RowsOK(x) /\ Unsent(x)

LEMMA RowLater ==
  ASSUME NEW x, NEW y, NEW k, NEW row, RowOK(x, k, row), y.hyper = x.hyper,
         row.id \in Nat, row.waiters \in Seq(Waits),
         x.lastId \in Nat, y.lastId \in Nat, x.lastId <= y.lastId
  PROVE  RowOK(y, k, row)
<1>1. row.id <= y.lastId
  BY DEF RowOK
<1>2. k = OffsetUri => row.data \in Acked(y.lastId)
  BY DEF RowOK, Acked
<1>3. ASSUME NEW i \in DOMAIN row.waiters
      PROVE  y.hyper[row.waiters[i].sid] = "in" /\ row.waiters[i].id <= y.lastId
  <2>1. row.waiters[i] \in Waits
    OBVIOUS
  <2>2. row.waiters[i].id \in Nat
    BY <2>1, WaitsIs
  <2>. QED BY <2>2 DEF RowOK
<1>4. /\ row = NoRow \/ row.data # Empty
      /\ k # LockUri => row.sid = None /\ row.waiters = <<>>
      /\ k = LockUri /\ row # NoRow =>
           row.sid \in HyperSession /\ y.hyper[row.sid] = "in" /\ row.data = Object(row.sid)
  BY DEF RowOK
<1>. QED BY <1>1, <1>2, <1>3, <1>4 DEF RowOK

LEMMA SentRows ==
  ASSUME NEW x, Ready(x), NEW e \in EventRecord, NEW k \in Key
  PROVE  LET z == Sent(x, e)
         IN z \in RealmRecord /\ z.kv[k] = x.kv[k] /\ RowOK(z, k, z.kv[k])
<1>. PICK z : z = Sent(x, e)
  OBVIOUS
<1>1. x \in RealmRecord /\ Unsent(x)
  BY DEF Ready
<1>2. z \in RealmRecord /\ z.lastId = x.lastId + 1 /\ z.kv = x.kv /\ z.hyper = x.hyper
  BY <1>1, SentIs
<1>3. x.lastId \in Nat /\ z.lastId \in Nat /\ x.lastId <= z.lastId
  <2>1. x.lastId \in Nat
    BY <1>1 DEF RealmRecord
  <2>. QED BY <1>2, <2>1
<1>4. RowOK(x, k, x.kv[k])
  BY DEF Ready, RowsOK
<1>5. x.kv[k].id \in Nat /\ x.kv[k].waiters \in Seq(Waits)
  BY <1>1, RowType
<1>6. RowOK(z, k, x.kv[k])
  BY <1>2, <1>3, <1>4, <1>5, RowLater
<1>. QED BY <1>2, <1>6

LEMMA PushUnkept ==
  ASSUME NEW x, Ready(x), NEW e \in EventRecord, ~e.retain
  PROVE  Effect(x, e, DoPush(x, e), x.kv)
<1>. PICK z : z = Sent(x, e)
  OBVIOUS
<1>1. x \in RealmRecord /\ Unsent(x)
  BY DEF Ready
<1>2. /\ z \in RealmRecord
      /\ z.lastId = x.lastId + 1 /\ z.history = Traced(x, e)
      /\ z.kv = x.kv /\ z.hyper = x.hyper
      /\ z.mqtt = [m \in MqttClientSession |-> Told(x.mqtt[m], e, x.lastId + 1)]
  BY <1>1, SentIs
<1>3. z.lastId > x.lastId
  <2>1. x.lastId \in Nat
    BY <1>1 DEF RealmRecord
  <2>. QED BY <1>2, <2>1
<1>4. DoPush(x, e) = z
  BY DEF DoPush, Sent, Numbered
<1>. QED BY <1>2, <1>3, <1>4 DEF Effect

(* A row that is put, once the event is sent.                              *)
LEMMA PutAfter ==
  ASSUME NEW x, Ready(x), NEW e \in EventRecord, NEW k \in Key, NEW row \in Row, NEW n \in Nat,
         n > x.lastId
  PROVE  Effect(x, e, Put(Sent(x, e), k, row, n), [x.kv EXCEPT ![k] = row])
<1>. PICK z : z = Sent(x, e)
  OBVIOUS
<1>1. x \in RealmRecord /\ Unsent(x)
  BY DEF Ready
<1>2. /\ z \in RealmRecord
      /\ z.lastId = x.lastId + 1 /\ z.history = Traced(x, e)
      /\ z.kv = x.kv /\ z.hyper = x.hyper
      /\ z.mqtt = [m \in MqttClientSession |-> Told(x.mqtt[m], e, x.lastId + 1)]
  BY <1>1, SentIs
<1>. PICK y : y = Put(z, k, row, n)
  OBVIOUS
<1>3. /\ y \in RealmRecord
      /\ y.lastId = n /\ y.history = z.history /\ y.hyper = z.hyper /\ y.mqtt = z.mqtt
      /\ y.kv = [z.kv EXCEPT ![k] = row]
  BY <1>2, PutIs
<1>. QED BY <1>2, <1>3 DEF Effect

LEMMA PushKept ==
  ASSUME NEW x, Ready(x), NEW e \in EventRecord, e.retain, ~e.when, e.uri \in Key,
         e.will => e.sid \in HyperSession, x.kv[e.uri].waiters = <<>>
  PROVE  Effect(x, e, DoPush(x, e),
                [x.kv EXCEPT ![e.uri] = Stored(Numbered(e, x.lastId + 1), x.kv[e.uri].data, <<>>)])
<1>. PICK z : z = Sent(x, e)
  OBVIOUS
<1>. PICK f : f = Numbered(e, x.lastId + 1)
  OBVIOUS
<1>1. x \in RealmRecord /\ Unsent(x) /\ x.lastId \in Nat /\ x.lastId + 1 \in Nat
  BY DEF Ready, RealmRecord
<1>2. z \in RealmRecord /\ z.lastId = x.lastId + 1
  BY <1>1, SentIs
<1>3. /\ f \in EventRecord /\ f.uri = e.uri /\ f.sid = e.sid
      /\ f.will = e.will /\ f.when = e.when /\ f.retain = e.retain
  BY <1>1, NumberedIs
<1>4. z.kv[e.uri] = x.kv[e.uri] /\ RowOK(z, e.uri, z.kv[e.uri])
  BY SentRows
<1>. PICK row : row = Stored(f, x.kv[e.uri].data, <<>>)
  OBVIOUS
<1>5. row \in Row
  <2>1. <<>> \in Seq(Waits)
    OBVIOUS
  <2>2. f.will => f.sid \in HyperSession
    BY <1>3
  <2>. QED BY <1>3, <2>1, <2>2, StoredIs
<1>6. PubWhile(z, f) = Put(z, e.uri, row, x.lastId + 2)
  <2>1. PubWhile(z, f) = Put(z, f.uri, Stored(f, z.kv[f.uri].data, <<>>), z.lastId + 1)
    BY <1>2, <1>3, <1>4, PubWhileNone
  <2>2. z.lastId + 1 = x.lastId + 2
    BY <1>1, <1>2
  <2>. QED BY <1>3, <1>4, <2>1, <2>2
<1>7. DoPush(x, e) = PubWhile(z, f)
  <2>1. DoPush(x, e) = SetKeyActor(z, f)
    BY DEF DoPush, Sent, Numbered
  <2>2. ~f.when
    BY <1>3
  <2>. QED BY <2>1, <2>2 DEF SetKeyActor
<1>8. x.lastId + 2 \in Nat /\ x.lastId + 2 > x.lastId
  BY <1>1
<1>. QED BY <1>5, <1>6, <1>7, <1>8, PutAfter

(* The key of the lock after it was emptied.                               *)
Released(row) ==
  IF row.waiters = <<>> THEN NoRow ELSE Given(Head(row.waiters), Tail(row.waiters))

LEMMA ReleasedType ==
  ASSUME NEW row, row.waiters \in Seq(Waits)
  PROVE  Released(row) \in Row
<1>1. row.waiters # <<>> => Head(row.waiters) \in Waits /\ Tail(row.waiters) \in Seq(Waits)
  OBVIOUS
<1>. QED BY <1>1, NoRowIs, GivenIs DEF Released

LEMMA PushRelease ==
  ASSUME NEW x, Ready(x), NEW e \in EventRecord, e.retain, ~e.when, ~e.will,
         e.uri = LockUri, e.data = Empty
  PROVE  Effect(x, e, DoPush(x, e), [x.kv EXCEPT ![LockUri] = Released(x.kv[LockUri])])
<1>. PICK z : z = Sent(x, e)
  OBVIOUS
<1>. PICK f : f = Numbered(e, x.lastId + 1)
  OBVIOUS
<1>. PICK ws : ws = x.kv[LockUri].waiters
  OBVIOUS
<1>1. LockUri \in Key
  BY LockIsKey
<1>2. x \in RealmRecord /\ Unsent(x) /\ x.lastId \in Nat /\ x.lastId + 1 \in Nat
  BY DEF Ready, RealmRecord
<1>3. z \in RealmRecord /\ z.lastId = x.lastId + 1
  BY <1>2, SentIs
<1>4. /\ f \in EventRecord /\ f.uri = LockUri /\ f.data = Empty /\ f.when = e.when
  BY <1>2, NumberedIs
<1>5. z.kv[LockUri] = x.kv[LockUri] /\ RowOK(z, LockUri, z.kv[LockUri])
  BY <1>1, SentRows
<1>6. CASE ws = <<>>
  <2>1. x.kv[e.uri].waiters = <<>> /\ e.uri \in Key
    BY <1>1, <1>6
  <2>2. e.will => e.sid \in HyperSession
    OBVIOUS
  <2>3. Effect(x, e, DoPush(x, e), [x.kv EXCEPT ![e.uri] = Stored(f, x.kv[e.uri].data, <<>>)])
    BY <2>1, <2>2, PushKept
  <2>4. Stored(f, x.kv[e.uri].data, <<>>) = NoRow
    <3>1. Merged(x.kv[e.uri].data, f.data) = Empty
      BY <1>4, MergedIs
    <3>. QED BY <3>1 DEF Stored
  <2>5. Released(x.kv[LockUri]) = NoRow
    BY <1>6 DEF Released
  <2>. QED BY <2>3, <2>4, <2>5
<1>7. CASE ws # <<>>
  <2>. PICK row : row = Given(Head(ws), Tail(ws))
    OBVIOUS
  <2>1. /\ Head(ws) \in Waits /\ Tail(ws) \in Seq(Waits)
        /\ PubWhile(z, f) = Put(z, LockUri, row, z.lastId + 2)
    BY <1>3, <1>4, <1>5, <1>7, PubWhileNext
  <2>2. DoPush(x, e) = PubWhile(z, f)
    <3>1. DoPush(x, e) = SetKeyActor(z, f)
      BY DEF DoPush, Sent, Numbered
    <3>2. ~f.when
      BY <1>4
    <3>. QED BY <3>1, <3>2 DEF SetKeyActor
  <2>3. row \in Row
    BY <2>1, GivenIs
  <2>4. z.lastId + 2 \in Nat /\ z.lastId + 2 > x.lastId
    BY <1>2, <1>3
  <2>5. Released(x.kv[LockUri]) = row
    BY <1>7 DEF Released
  <2>6. Effect(x, e, Put(z, LockUri, row, z.lastId + 2), [x.kv EXCEPT ![LockUri] = row])
    BY <1>1, <2>3, <2>4, PutAfter
  <2>. QED BY <2>1, <2>2, <2>5, <2>6
<1>. QED BY <1>6, <1>7

(* Lock and TryLock of a key that is absent.                               *)
LEMMA PushAcquire ==
  ASSUME NEW x, Ready(x), NEW e \in EventRecord, NEW h \in HyperSession,
         e.retain, e.will, e.uri = LockUri, e.data = Object(h), e.sid = h,
         x.kv[LockUri] = NoRow
  PROVE  Effect(x, e, DoPush(x, e),
                [x.kv EXCEPT ![LockUri] = [data |-> Object(h), id |-> x.lastId + 1, sid |-> h,
                                           waiters |-> <<>>]])
<1>. PICK z : z = Sent(x, e)
  OBVIOUS
<1>. PICK f : f = Numbered(e, x.lastId + 1)
  OBVIOUS
<1>. PICK row : row = [data |-> Object(h), id |-> x.lastId + 1, sid |-> h, waiters |-> <<>>]
  OBVIOUS
<1>1. LockUri \in Key
  BY LockIsKey
<1>2. x \in RealmRecord /\ Unsent(x) /\ x.lastId \in Nat /\ x.lastId + 1 \in Nat
  BY DEF Ready, RealmRecord
<1>3. z \in RealmRecord /\ z.lastId = x.lastId + 1
  BY <1>2, SentIs
<1>4. /\ f \in EventRecord /\ f.uri = LockUri /\ f.data = Object(h) /\ f.sid = h
      /\ f.will = e.will /\ f.id = x.lastId + 1
  BY <1>2, NumberedIs
<1>5. z.kv[LockUri] = NoRow /\ RowOK(z, LockUri, z.kv[LockUri])
  BY <1>1, SentRows
<1>6. PubWhile(z, f) = Put(z, LockUri, Stored(f, Empty, <<>>), x.lastId + 2)
  <2>1. z.lastId + 1 = x.lastId + 2
    BY <1>2, <1>3
  <2>2. z.kv[LockUri].waiters = <<>> /\ z.kv[LockUri].data = Empty
    BY <1>5, NoRowIs
  <2>3. PubWhile(z, f) = Put(z, f.uri, Stored(f, z.kv[f.uri].data, <<>>), z.lastId + 1)
    BY <1>1, <1>3, <1>4, <1>5, <2>2, PubWhileNone
  <2>. QED BY <1>4, <2>1, <2>2, <2>3
<1>7. Stored(f, Empty, <<>>) = row
  <2>1. Merged(Empty, f.data) = Object(h) /\ Object(h) # Empty
    BY <1>4, MergedIs, Values
  <2>2. f.data = Object(h) /\ f.will
    BY <1>4
  <2>. QED BY <1>4, <2>1, <2>2 DEF Stored
<1>8. DoPush(x, e) = PubWhile(z, f)
  <2>1. DoPush(x, e) = SetKeyActor(z, f)
    BY DEF DoPush, Sent, Numbered
  <2>2. z.kv[f.uri].data = Empty
    BY <1>4, <1>5, NoRowIs
  <2>. QED BY <2>1, <2>2 DEF SetKeyActor
<1>9. row \in Row
  <2>1. Object(h) \in Data /\ <<>> \in Seq(Waits)
    BY DEF Data
  <2>. QED BY <1>2, <2>1 DEF Row
<1>10. x.lastId + 2 \in Nat /\ x.lastId + 2 > x.lastId
  BY <1>2
<1>11. Effect(x, e, Put(z, LockUri, row, x.lastId + 2), [x.kv EXCEPT ![LockUri] = row])
  BY <1>1, <1>9, <1>10, PutAfter
<1>. QED BY <1>6, <1>7, <1>8, <1>11

(* TryLock of a key that is taken.                                         *)
LEMMA PushRefused ==
  ASSUME NEW x, Ready(x), NEW e \in EventRecord,
         e.retain, e.when, ~e.watch, e.uri = LockUri, x.kv[LockUri] # NoRow
  PROVE  Effect(x, e, DoPush(x, e), x.kv)
<1>. PICK z : z = Sent(x, e)
  OBVIOUS
<1>. PICK f : f = Numbered(e, x.lastId + 1)
  OBVIOUS
<1>1. LockUri \in Key
  BY LockIsKey
<1>2. x \in RealmRecord /\ Unsent(x) /\ x.lastId \in Nat /\ x.lastId + 1 \in Nat
  BY DEF Ready, RealmRecord
<1>3. /\ z \in RealmRecord
      /\ z.lastId = x.lastId + 1 /\ z.history = Traced(x, e)
      /\ z.kv = x.kv /\ z.hyper = x.hyper
      /\ z.mqtt = [m \in MqttClientSession |-> Told(x.mqtt[m], e, x.lastId + 1)]
  BY <1>2, SentIs
<1>4. f.uri = LockUri /\ f.when = e.when /\ f.watch = e.watch
  BY <1>2, NumberedIs
<1>5. z.kv[LockUri].data # Empty
  <2>1. RowOK(x, LockUri, x.kv[LockUri])
    BY <1>1 DEF Ready, RowsOK
  <2>. QED BY <1>3, <2>1 DEF RowOK
<1>6. DoPush(x, e) = z
  <2>1. DoPush(x, e) = SetKeyActor(z, f)
    BY DEF DoPush, Sent, Numbered
  <2>2. f.when /\ ~f.watch
    BY <1>4
  <2>. QED BY <1>4, <1>5, <2>1, <2>2 DEF SetKeyActor
<1>7. z.lastId > x.lastId
  BY <1>2, <1>3
<1>. QED BY <1>3, <1>6, <1>7 DEF Effect

(* Lock of a key that is taken.                                            *)
Queued(row, w) == [row EXCEPT !.waiters = Append(@, w)]

LEMMA PushAwait ==
  ASSUME NEW x, Ready(x), NEW h \in HyperSession, x.kv[LockUri] # NoRow,
         Lock(h) \in EventRecord, Lock(h) = LockEvent(h, 0)
  PROVE  LockEvent(h, x.lastId + 1) \in Waits
         /\ Effect(x, Lock(h), DoPush(x, Lock(h)),
                   [x.kv EXCEPT ![LockUri] =
                      Queued(x.kv[LockUri], LockEvent(h, x.lastId + 1))])
<1>. PICK e : e = Lock(h)
  OBVIOUS
<1>. PICK z : z = Sent(x, e)
  OBVIOUS
<1>. PICK f : f = Numbered(e, x.lastId + 1)
  OBVIOUS
<1>. PICK old : old = x.kv[LockUri]
  OBVIOUS
<1>. PICK row : row = [old EXCEPT !.waiters = Append(@, f)]
  OBVIOUS
<1>1. LockUri \in Key
  BY LockIsKey
<1>2. x \in RealmRecord /\ Unsent(x) /\ x.lastId \in Nat /\ x.lastId + 1 \in Nat
  BY DEF Ready, RealmRecord
<1>3. /\ z \in RealmRecord
      /\ z.lastId = x.lastId + 1
      /\ z.kv = x.kv
  BY <1>2, SentIs
<1>. PICK n : n = x.lastId + 1
  OBVIOUS
<1>4. f = LockEvent(h, n)
  <2>1. f = [LockEvent(h, 0) EXCEPT !.id = n]
    BY DEF Numbered
  <2>. QED BY <2>1 DEF LockEvent
<1>5. f \in Waits /\ f.uri = LockUri /\ f.when /\ f.watch
  <2>1. n \in Nat
    BY <1>2
  <2>2. f \in Waits
    BY <1>4, <2>1 DEF Waits
  <2>3. f.uri = LockUri
    BY <1>4 DEF LockEvent
  <2>4. f.when
    BY <1>4 DEF LockEvent
  <2>5. f.watch
    BY <1>4 DEF LockEvent
  <2>. QED BY <2>2, <2>3, <2>4, <2>5
<1>6. old.data # Empty
  <2>1. RowOK(x, LockUri, x.kv[LockUri])
    BY <1>1 DEF Ready, RowsOK
  <2>. QED BY <2>1 DEF RowOK
<1>7. SetKeyActor(z, f) = [z EXCEPT !.kv[f.uri].waiters = Append(@, f)]
  BY <1>3, <1>5, <1>6 DEF SetKeyActor
<1>8. row \in Row
  <2>1. old \in Row /\ old.waiters \in Seq(Waits)
    BY <1>1, <1>2, RowType
  <2>. PICK ws : ws = Append(old.waiters, f)
    OBVIOUS
  <2>2. ws \in Seq(Waits)
    BY <1>5, <2>1
  <2>3. row = [old EXCEPT !.waiters = ws]
    OBVIOUS
  <2>. QED BY <2>1, <2>2, <2>3 DEF Row
<1>9. SetKeyActor(z, f) = Put(z, LockUri, row, z.lastId)
  <2>1. [z EXCEPT !.kv[LockUri].waiters = Append(@, f)] = [z EXCEPT !.kv[LockUri] = row]
    BY <1>3
  <2>2. [z EXCEPT !.kv[LockUri] = row] = Put(z, LockUri, row, z.lastId)
    BY <1>3 DEF Put, RealmRecord
  <2>. QED BY <1>5, <1>7, <2>1, <2>2
<1>10. DoPush(x, e) = SetKeyActor(z, f)
  <2>1. e.retain
    BY DEF LockEvent
  <2>. QED BY <2>1 DEF DoPush, Sent, Numbered
<1>11. z.lastId \in Nat /\ z.lastId > x.lastId
  BY <1>2, <1>3
<1>12. Effect(x, e, Put(z, LockUri, row, z.lastId), [x.kv EXCEPT ![LockUri] = row])
  BY <1>1, <1>8, <1>11, PutAfter
<1>13. Queued(x.kv[LockUri], LockEvent(h, x.lastId + 1)) = row
  BY <1>4 DEF Queued
<1>. QED BY <1>4, <1>5, <1>9, <1>10, <1>12, <1>13

(* What holds of a session: the live events written to it ascend; all that *)
(* is kept since the event it went on from, and that it subscribed to, was *)
(* written to it.                                                          *)
LivesAscend(r) ==
  \A i, j \in DOMAIN r.got :
    i < j /\ r.got[i].kind = "live" /\ r.got[j].kind = "live" => r.got[i].id < r.got[j].id
Complete(sent, r) ==
  r.state = "in" /\ r.after # 0 =>
    \A i \in DOMAIN sent :
      sent[i].id > r.after /\ Fits(r, sent[i].uri) => \E j \in DOMAIN r.got : r.got[j].id = sent[i].id

(* A session that is new. *)
Untouched(r) == r.state = "new" => r.after = 0 /\ ~r.clean

(* LivesAscend and Complete depend on no other fields.                     *)
LEMMA LivesLike ==
  ASSUME NEW r, NEW t, t.got = r.got, LivesAscend(r)
  PROVE  LivesAscend(t)
BY DEF LivesAscend

LEMMA CompleteLike ==
  ASSUME NEW sent, NEW r, NEW t, t.state = r.state, t.after = r.after,
         t.filters = r.filters, t.got = r.got, Complete(sent, r)
  PROVE  Complete(sent, t)
BY DEF Complete, Fits

(* Moreover every id is of an event so far, and a session that has sent    *)
(* DISCONNECT has no will.                                                 *)
SessionOK(sent, n, r) ==
  /\ \A i \in DOMAIN r.got : r.got[i].id \in 0 .. n
  /\ r.last \in Acked(n)
  /\ r.unacked \subseteq DOMAIN r.got
  /\ LivesAscend(r)
  /\ Complete(sent, r)
  /\ r.clean => r.will = NoPacket
  /\ Untouched(r)

LEMMA AckedMore ==
  ASSUME NEW a \in Nat, NEW b \in Nat, a <= b
  PROVE  Acked(a) \subseteq Acked(b)
BY DEF Acked

(* A live event, its id above all before it, leaves a session in order.    *)
LEMMA LiveSent ==
  ASSUME NEW r \in MqttRecord, NEW a \in Nat, NEW b \in Nat, a < b,
         NEW trace \in BOOLEAN, NEW sent, SessionOK(sent, a, r)
  PROVE  LET t == Got(r, b, "live", trace)
         IN /\ t \in MqttRecord /\ t.state = r.state /\ t.after = r.after /\ t.filters = r.filters
            /\ \A i \in DOMAIN t.got : t.got[i].id \in 0 .. b
            /\ t.last \in Acked(b)
            /\ t.unacked \subseteq DOMAIN t.got
            /\ LivesAscend(t)
            /\ t.clean => t.will = NoPacket
            /\ Untouched(t)
            /\ \A i \in DOMAIN r.got : i \in DOMAIN t.got /\ t.got[i] = r.got[i]
            /\ \E i \in DOMAIN t.got : t.got[i].id = b
<1>. PICK kind : kind = "live"
  OBVIOUS
<1>. PICK t : t = Got(r, b, kind, trace)
  OBVIOUS
<1>. PICK e : e = [id |-> b, kind |-> kind]
  OBVIOUS
<1>. PICK s : s = r.got
  OBVIOUS
<1>. PICK u : u = t.got
  OBVIOUS
<1>. PICK l : l = Len(s)
  OBVIOUS
<1>1. kind \in Kind
  BY DEF Kind
<1>2. /\ t \in MqttRecord
      /\ t.state = r.state /\ t.will = r.will /\ t.filters = r.filters
      /\ t.after = r.after /\ t.clean = r.clean
      /\ t.last = Text(b)
      /\ u = Append(s, e)
  BY <1>1, GotIs
<1>3. t.unacked = r.unacked \/ t.unacked = r.unacked \cup {l + 1}
  BY GotUnacked
<1>4. s \in Seq(Message) /\ e \in Message /\ e.id = b
  <2>1. s \in Seq(Message)
    BY GotType
  <2>2. e \in Message
    BY <1>1 DEF Message
  <2>. QED BY <2>1, <2>2
<1>5. /\ l \in Nat /\ DOMAIN s = 1 .. l /\ Len(u) = l + 1 /\ DOMAIN u = 1 .. l + 1
      /\ \A i \in 1 .. l : u[i] = s[i]
      /\ u[l + 1] = e
  <2>1. u = Append(s, e)
    BY <1>2
  <2>2. /\ Len(s) \in Nat /\ DOMAIN s = 1 .. Len(s)
        /\ Len(u) = Len(s) + 1 /\ DOMAIN u = 1 .. Len(s) + 1
        /\ \A i \in 1 .. Len(s) : u[i] = s[i]
        /\ u[Len(s) + 1] = e
    BY ONLY <1>4, <2>1, Appends
  <2>. QED BY <2>2
<1>6. \A i \in 1 .. l : s[i].id \in 0 .. a
  BY <1>5 DEF SessionOK
<1>7. ASSUME NEW i \in DOMAIN u PROVE u[i].id \in 0 .. b
  <2>1. CASE i \in 1 .. l
    <3>1. u[i].id \in 0 .. a
      BY <1>5, <1>6, <2>1
    <3>. QED BY <3>1
  <2>2. CASE i = l + 1
    <3>1. u[i].id = b
      BY <1>4, <1>5, <2>2
    <3>2. b \in 0 .. b
      OBVIOUS
    <3>. QED BY <3>1, <3>2
  <2>3. i \in 1 .. l \/ i = l + 1
    BY <1>5
  <2>. QED BY <2>1, <2>2, <2>3
<1>8. t.last \in Acked(b)
  <2>1. b \in 0 .. b
    OBVIOUS
  <2>. QED BY <1>2, <2>1 DEF Acked
<1>9. t.unacked \subseteq DOMAIN u
  <2>1. r.unacked \subseteq 1 .. l
    BY <1>5 DEF SessionOK
  <2>2. l + 1 \in DOMAIN u /\ 1 .. l \subseteq DOMAIN u
    BY <1>5
  <2>. QED BY <1>3, <2>1, <2>2
<1>10. LivesAscend(t)
  <2> SUFFICES ASSUME NEW i \in DOMAIN u, NEW j \in DOMAIN u, i < j,
                      u[i].kind = "live", u[j].kind = "live"
               PROVE  u[i].id < u[j].id
    BY DEF LivesAscend
  <2>1. i \in 1 .. l
    BY <1>5
  <2>2. CASE j \in 1 .. l
    <3>1. s[i].kind = "live" /\ s[j].kind = "live"
      BY <1>5, <2>1, <2>2
    <3>2. s[i].id < s[j].id
      BY <1>5, <2>1, <2>2, <3>1 DEF SessionOK, LivesAscend
    <3>. QED BY <1>5, <2>1, <2>2, <3>2
  <2>3. CASE j = l + 1
    <3>1. u[i].id \in 0 .. a /\ u[j].id = b
      BY <1>4, <1>5, <1>6, <2>1, <2>3
    <3>. QED BY <3>1
  <2>4. j \in 1 .. l \/ j = l + 1
    BY ONLY j \in DOMAIN u, <1>5
  <2>. QED BY <2>2, <2>3, <2>4
<1>11. (t.clean => t.will = NoPacket) /\ Untouched(t)
  BY <1>2 DEF SessionOK, Untouched
<1>12. \A i \in DOMAIN s : i \in DOMAIN u /\ u[i] = s[i]
  BY <1>5
<1>13. \E i \in DOMAIN u : u[i].id = b
  <2>1. l + 1 \in DOMAIN u /\ u[l + 1].id = b
    BY <1>4, <1>5
  <2>. QED BY <2>1
<1>. QED BY <1>2, <1>7, <1>8, <1>9, <1>10, <1>11, <1>12, <1>13

LEMMA SessionLater ==
  ASSUME NEW sent, NEW r \in MqttRecord, NEW a \in Nat, NEW b \in Nat, a <= b, SessionOK(sent, a, r)
  PROVE  SessionOK(sent, b, r)
<1>1. \A i \in DOMAIN r.got : r.got[i].id \in 0 .. b
  <2>1. ASSUME NEW i \in DOMAIN r.got PROVE r.got[i].id \in 0 .. b
    <3>1. r.got[i].id \in 0 .. a
      BY DEF SessionOK
    <3>. QED BY <3>1
  <2>. QED BY <2>1
<1>2. r.last \in Acked(b)
  BY AckedMore DEF SessionOK
<1>3. /\ r.unacked \subseteq DOMAIN r.got /\ LivesAscend(r) /\ Complete(sent, r)
      /\ (r.clean => r.will = NoPacket) /\ Untouched(r)
  BY DEF SessionOK
<1>. QED BY <1>1, <1>2, <1>3 DEF SessionOK

(* The events that are kept, with one more.                                *)
LEMMA EntryAdded ==
  ASSUME NEW sent \in Seq(Entry), NEW e \in EventRecord, NEW n \in Nat
  PROVE  LET h == Append(sent, [id |-> n, uri |-> e.uri, sid |-> e.sid])
         IN /\ h \in Seq(Entry) /\ Len(sent) \in Nat /\ DOMAIN sent = 1 .. Len(sent)
            /\ DOMAIN h = 1 .. Len(sent) + 1
            /\ \A i \in 1 .. Len(sent) : h[i] = sent[i]
            /\ h[Len(sent) + 1].id = n /\ h[Len(sent) + 1].uri = e.uri
            /\ h[Len(sent) + 1].sid = e.sid
<1>. PICK t : t = [id |-> n, uri |-> e.uri, sid |-> e.sid]
  OBVIOUS
<1>1. t \in Entry
  <2>1. e.uri \in Topic /\ e.sid \in Session
    BY DEF EventRecord
  <2>. QED BY <2>1 DEF Entry
<1>2. t.id = n /\ t.uri = e.uri /\ t.sid = e.sid
  OBVIOUS
<1>. PICK h : h = Append(sent, t)
  OBVIOUS
<1>3. /\ h \in Seq(Entry) /\ Len(sent) \in Nat /\ DOMAIN sent = 1 .. Len(sent)
      /\ DOMAIN h = 1 .. Len(sent) + 1
      /\ \A i \in 1 .. Len(sent) : h[i] = sent[i]
      /\ h[Len(sent) + 1] = t
  BY <1>1, Appends
<1>. QED BY <1>2, <1>3

(* A session stays in order when an event is kept and told to it.          *)
LEMMA ToldOK ==
  ASSUME NEW x \in RealmRecord, NEW e \in EventRecord, NEW r \in MqttRecord,
         SessionOK(x.history, x.lastId, r),
         \A i \in DOMAIN x.history : x.history[i].id \in 1 .. x.lastId
  PROVE  SessionOK(Traced(x, e), x.lastId + 1, Told(r, e, x.lastId + 1))
<1>. PICK a : a = x.lastId
  OBVIOUS
<1>. PICK b : b = x.lastId + 1
  OBVIOUS
<1>. PICK old : old = x.history
  OBVIOUS
<1>. PICK new : new = Traced(x, e)
  OBVIOUS
<1>. PICK t : t = Told(r, e, b)
  OBVIOUS
<1>1. a \in Nat /\ b \in Nat /\ b = a + 1 /\ old \in Seq(Entry)
  BY DEF RealmRecord
<1>2. e.trace \in BOOLEAN
  BY DEF EventRecord
<1>3. ASSUME NEW i \in DOMAIN new
      PROVE  \/ i \in DOMAIN old /\ new[i] = old[i]
             \/ new[i].id = b /\ new[i].uri = e.uri
  <2>1. CASE ~e.trace
    BY <2>1 DEF Traced
  <2>2. CASE e.trace
    <3>1. new = Append(old, [id |-> b, uri |-> e.uri, sid |-> e.sid])
      BY <2>2 DEF Traced
    <3>2. /\ Len(old) \in Nat /\ DOMAIN old = 1 .. Len(old) /\ DOMAIN new = 1 .. Len(old) + 1
          /\ \A j \in 1 .. Len(old) : new[j] = old[j]
          /\ new[Len(old) + 1].id = b /\ new[Len(old) + 1].uri = e.uri
      BY <1>1, <3>1, EntryAdded
    <3>3. i \in 1 .. Len(old) \/ i = Len(old) + 1
      BY <3>2
    <3>. QED BY <3>2, <3>3
  <2>. QED BY <2>1, <2>2
<1>4. CASE r.state = "in" /\ Fits(r, e.uri)
  <2>1. t = Got(r, b, "live", e.trace)
    BY <1>4 DEF Told
  <2>2. /\ t \in MqttRecord /\ t.state = r.state /\ t.after = r.after /\ t.filters = r.filters
        /\ \A i \in DOMAIN t.got : t.got[i].id \in 0 .. b
        /\ t.last \in Acked(b)
        /\ t.unacked \subseteq DOMAIN t.got
        /\ LivesAscend(t)
        /\ t.clean => t.will = NoPacket
        /\ Untouched(t)
        /\ \A i \in DOMAIN r.got : i \in DOMAIN t.got /\ t.got[i] = r.got[i]
        /\ \E i \in DOMAIN t.got : t.got[i].id = b
    <3>1. a < b
      BY <1>1
    <3>2. SessionOK(old, a, r)
      OBVIOUS
    <3>. QED BY <1>1, <1>2, <2>1, <3>1, <3>2, LiveSent
  <2>3. Complete(new, t)
    <3> SUFFICES ASSUME t.state = "in", t.after # 0, NEW i \in DOMAIN new, new[i].id > t.after,
                        Fits(t, new[i].uri)
                 PROVE  \E j \in DOMAIN t.got : t.got[j].id = new[i].id
      BY DEF Complete
    <3>1. CASE i \in DOMAIN old /\ new[i] = old[i]
      <4>1. Fits(r, old[i].uri)
        BY <2>2, <3>1 DEF Fits
      <4>2. Complete(old, r)
        BY DEF SessionOK
      <4>3. r.state = "in" /\ r.after # 0 /\ old[i].id > r.after
        BY <2>2, <3>1
      <4>4. PICK j \in DOMAIN r.got : r.got[j].id = old[i].id
        BY <3>1, <4>1, <4>2, <4>3 DEF Complete
      <4>. QED BY <2>2, <3>1, <4>4
    <3>2. CASE new[i].id = b
      BY <2>2, <3>2
    <3>. QED BY <1>3, <3>1, <3>2
  <2>4. SessionOK(new, b, t)
    BY <2>2, <2>3 DEF SessionOK
  <2>. QED BY <2>4
<1>5. CASE ~(r.state = "in" /\ Fits(r, e.uri))
  <2>1. t = r
    BY <1>5 DEF Told
  <2>2. SessionOK(old, b, r)
    <3>1. a <= b
      BY <1>1
    <3>. QED BY <1>1, <3>1, SessionLater
  <2>3. Complete(new, r)
    <3> SUFFICES ASSUME r.state = "in", r.after # 0, NEW i \in DOMAIN new, new[i].id > r.after,
                        Fits(r, new[i].uri)
                 PROVE  \E j \in DOMAIN r.got : r.got[j].id = new[i].id
      BY DEF Complete
    <3>1. i \in DOMAIN old /\ new[i] = old[i]
      BY <1>3, <1>5
    <3>2. Complete(old, r)
      BY DEF SessionOK
    <3>. QED BY <3>1, <3>2 DEF Complete
  <2>4. SessionOK(new, b, r)
    BY <2>2, <2>3 DEF SessionOK
  <2>. QED BY <2>1, <2>4
<1>. QED BY <1>4, <1>5

(* The realm in order.                                                     *)
HistoryOK(x) == \A i \in DOMAIN x.history : x.history[i].id \in 1 .. x.lastId
SessionsOK(x) == \A m \in MqttClientSession : SessionOK(x.history, x.lastId, x.mqtt[m])
RealmOK(x) == x \in RealmRecord /\ RowsOK(x) /\ HistoryOK(x) /\ SessionsOK(x)

LEMMA OKReady == ASSUME NEW x, RealmOK(x) PROVE Ready(x)
<1>1. x \in RealmRecord /\ RowsOK(x) /\ x.lastId \in Nat
  BY DEF RealmOK, RealmRecord
<1>2. ASSUME NEW m \in MqttClientSession, x.mqtt[m].last = Text(x.lastId + 1) PROVE FALSE
  <2>1. x.mqtt[m].last \in Acked(x.lastId)
    BY DEF RealmOK, SessionsOK, SessionOK
  <2>2. Text(x.lastId + 1) # Empty /\ Text(x.lastId + 1) # Letters
    BY Values
  <2>3. PICK i \in 0 .. x.lastId : Text(x.lastId + 1) = Text(i)
    BY <1>2, <2>1, <2>2 DEF Acked
  <2>4. x.lastId + 1 = i
    BY <2>3, Values
  <2>. QED BY <1>1, <2>4
<1>. QED BY <1>1, <1>2 DEF Ready, Unsent

LEMMA EffectSessions ==
  ASSUME NEW x, RealmOK(x), NEW e \in EventRecord, NEW y, NEW rows, Effect(x, e, y, rows)
  PROVE  HistoryOK(y) /\ SessionsOK(y)
<1>1. x \in RealmRecord /\ y \in RealmRecord
  BY DEF RealmOK, Effect
<1>2. x.lastId \in Nat /\ y.lastId \in Nat /\ x.history \in Seq(Entry)
      /\ x.mqtt \in [MqttClientSession -> MqttRecord]
  BY <1>1 DEF RealmRecord
<1>3. y.lastId > x.lastId /\ y.history = Traced(x, e)
      /\ y.mqtt = [m \in MqttClientSession |-> Told(x.mqtt[m], e, x.lastId + 1)]
  BY DEF Effect
<1>4. x.lastId + 1 \in Nat /\ x.lastId + 1 <= y.lastId
  BY <1>2, <1>3
<1>. PICK n : n = x.lastId + 1
  OBVIOUS
<1>5. ASSUME NEW i \in DOMAIN y.history PROVE y.history[i].id \in 1 .. y.lastId
  <2>. PICK old : old = x.history
    OBVIOUS
  <2>. PICK new : new = y.history
    OBVIOUS
  <2>1. \A j \in DOMAIN old : old[j].id \in 1 .. x.lastId
    BY DEF RealmOK, HistoryOK
  <2>2. CASE ~e.trace
    <3>1. new = old
      BY <1>3, <2>2 DEF Traced
    <3>2. old[i].id \in 1 .. x.lastId
      BY <2>1, <3>1
    <3>. QED BY <1>2, <1>3, <3>1, <3>2
  <2>3. CASE e.trace
    <3>1. new = Append(old, [id |-> n, uri |-> e.uri, sid |-> e.sid])
      BY <1>3, <2>3 DEF Traced
    <3>2. /\ Len(old) \in Nat /\ DOMAIN old = 1 .. Len(old) /\ DOMAIN new = 1 .. Len(old) + 1
          /\ \A j \in 1 .. Len(old) : new[j] = old[j]
          /\ new[Len(old) + 1].id = n
      BY <1>2, <1>4, <3>1, EntryAdded
    <3>3. CASE i \in 1 .. Len(old)
      <4>1. new[i].id \in 1 .. x.lastId
        BY <2>1, <3>2, <3>3
      <4>. QED BY <1>2, <1>3, <4>1
    <3>4. CASE i = Len(old) + 1
      <4>1. new[i].id = x.lastId + 1
        BY <3>2, <3>4
      <4>. QED BY <1>2, <1>3, <4>1
    <3>5. i \in 1 .. Len(old) \/ i = Len(old) + 1
      BY <3>2
    <3>. QED BY <3>3, <3>4, <3>5
  <2>. QED BY <2>2, <2>3
<1>6. ASSUME NEW m \in MqttClientSession PROVE SessionOK(y.history, y.lastId, y.mqtt[m])
  <2>. PICK r : r = x.mqtt[m]
    OBVIOUS
  <2>1. r \in MqttRecord /\ SessionOK(x.history, x.lastId, r)
    BY <1>2 DEF RealmOK, SessionsOK
  <2>2. \A i \in DOMAIN x.history : x.history[i].id \in 1 .. x.lastId
    BY DEF RealmOK, HistoryOK
  <2>3. SessionOK(Traced(x, e), x.lastId + 1, Told(r, e, x.lastId + 1))
    BY <1>1, <2>1, <2>2, ToldOK
  <2>4. Told(r, e, x.lastId + 1) \in MqttRecord
    BY <1>4, <2>1, ToldType
  <2>5. y.mqtt[m] = Told(r, e, x.lastId + 1)
    BY <1>3
  <2>6. SessionOK(Traced(x, e), y.lastId, Told(r, e, x.lastId + 1))
    BY <1>2, <1>4, <2>3, <2>4, SessionLater
  <2>. QED BY <1>3, <2>5, <2>6
<1>7. HistoryOK(y)
  BY <1>5 DEF HistoryOK
<1>8. SessionsOK(y)
  BY <1>6 DEF SessionsOK
<1>. QED BY <1>7, <1>8

(* After a push the sessions, the history and all keys but one are in      *)
(* order if they were before.                                              *)
LEMMA EffectRows ==
  ASSUME NEW x, RealmOK(x), NEW e \in EventRecord, NEW y, NEW k \in Key, NEW row,
         Effect(x, e, y, [x.kv EXCEPT ![k] = row]), RowOK(y, k, row)
  PROVE  RealmOK(y) /\ y.kv[k] = row /\ \A j \in Key : j # k => y.kv[j] = x.kv[j]
<1>1. x \in RealmRecord /\ y \in RealmRecord
  BY DEF RealmOK, Effect
<1>2. x.lastId \in Nat /\ y.lastId \in Nat /\ x.kv \in [Key -> Row]
  BY <1>1 DEF RealmRecord
<1>3. y.lastId > x.lastId /\ y.hyper = x.hyper /\ y.kv = [x.kv EXCEPT ![k] = row]
  BY DEF Effect
<1>4. y.kv[k] = row /\ \A j \in Key : j # k => y.kv[j] = x.kv[j]
  BY <1>2, <1>3
<1>5. ASSUME NEW j \in Key, j # k PROVE RowOK(y, j, y.kv[j])
  <2>1. RowOK(x, j, x.kv[j])
    BY DEF RealmOK, RowsOK
  <2>2. x.kv[j].id \in Nat /\ x.kv[j].waiters \in Seq(Waits)
    BY <1>1, RowType
  <2>3. x.lastId <= y.lastId
    BY <1>2, <1>3
  <2>4. RowOK(y, j, x.kv[j])
    BY <1>2, <1>3, <2>1, <2>2, <2>3, RowLater
  <2>. QED BY <1>4, <1>5, <2>4
<1>6. RowsOK(y)
  BY <1>4, <1>5 DEF RowsOK
<1>7. HistoryOK(y) /\ SessionsOK(y)
  BY EffectSessions
<1>. QED BY <1>1, <1>4, <1>6, <1>7 DEF RealmOK

LEMMA EffectNoRows ==
  ASSUME NEW x, RealmOK(x), NEW e \in EventRecord, NEW y, Effect(x, e, y, x.kv)
  PROVE  RealmOK(y) /\ y.kv = x.kv
<1>1. x \in RealmRecord /\ y \in RealmRecord
  BY DEF RealmOK, Effect
<1>2. x.lastId \in Nat /\ y.lastId \in Nat
  BY <1>1 DEF RealmRecord
<1>3. y.lastId > x.lastId /\ y.hyper = x.hyper /\ y.kv = x.kv
  BY DEF Effect
<1>4. ASSUME NEW j \in Key PROVE RowOK(y, j, y.kv[j])
  <2>1. RowOK(x, j, x.kv[j])
    BY DEF RealmOK, RowsOK
  <2>2. x.kv[j].id \in Nat /\ x.kv[j].waiters \in Seq(Waits)
    BY <1>1, RowType
  <2>3. x.lastId <= y.lastId
    BY <1>2, <1>3
  <2>4. RowOK(y, j, x.kv[j])
    BY <1>2, <1>3, <2>1, <2>2, <2>3, RowLater
  <2>. QED BY <1>3, <2>4
<1>5. RowsOK(y)
  BY <1>4 DEF RowsOK
<1>6. HistoryOK(y) /\ SessionsOK(y)
  BY EffectSessions
<1>. QED BY <1>1, <1>3, <1>5, <1>6 DEF RealmOK

-----------------------------------------------------------------------------
(* The events that are pushed. *)

LEMMA KeyTopic == LockUri \in Topic /\ OffsetUri \in Topic
BY DEF Topic

LEMMA HyperEvents ==
  ASSUME NEW h \in HyperSession
  PROVE  /\ Lock(h) \in EventRecord /\ Lock(h) = LockEvent(h, 0) /\ ~Lock(h).trace
         /\ TryLock(h) \in EventRecord /\ ~TryLock(h).trace
         /\ TryLock(h).uri = LockUri /\ TryLock(h).data = Object(h) /\ TryLock(h).sid = h
         /\ TryLock(h).retain /\ TryLock(h).when /\ ~TryLock(h).watch /\ TryLock(h).will
         /\ Unlock(h) \in EventRecord /\ ~Unlock(h).trace
         /\ Unlock(h).uri = LockUri /\ Unlock(h).data = Empty /\ Unlock(h).sid = h
         /\ Unlock(h).retain /\ ~Unlock(h).when /\ ~Unlock(h).will
<1>1. h \in Session /\ LockUri \in Topic /\ Object(h) \in Data /\ Empty \in Data /\ 0 \in Nat
  BY KeyTopic DEF Session, Data
<1>2. Lock(h) = LockEvent(h, 0)
  <2>. PICK e : e = Lock(h)
    OBVIOUS
  <2>1. e = [uri |-> LockUri, data |-> Object(h), sid |-> h, id |-> 0, trace |-> FALSE,
             retain |-> TRUE, when |-> TRUE, watch |-> TRUE, will |-> TRUE]
    BY DEF Lock, Kept, Event
  <2>. QED BY <2>1 DEF LockEvent
<1>3. TryLock(h) = [uri |-> LockUri, data |-> Object(h), sid |-> h, id |-> 0, trace |-> FALSE,
                    retain |-> TRUE, when |-> TRUE, watch |-> FALSE, will |-> TRUE]
  <2>. PICK e : e = TryLock(h)
    OBVIOUS
  <2>1. e = [uri |-> LockUri, data |-> Object(h), sid |-> h, id |-> 0, trace |-> FALSE,
             retain |-> TRUE, when |-> TRUE, watch |-> FALSE, will |-> TRUE]
    BY DEF TryLock, Kept, Event
  <2>. QED BY <2>1
<1>4. Unlock(h) = [uri |-> LockUri, data |-> Empty, sid |-> h, id |-> 0, trace |-> FALSE,
                   retain |-> TRUE, when |-> FALSE, watch |-> FALSE, will |-> FALSE]
  <2>. PICK e : e = Unlock(h)
    OBVIOUS
  <2>1. e = [uri |-> LockUri, data |-> Empty, sid |-> h, id |-> 0, trace |-> FALSE,
             retain |-> TRUE, when |-> FALSE, watch |-> FALSE, will |-> FALSE]
    BY DEF Unlock, Kept, Event
  <2>. QED BY <2>1
<1>5. LockEvent(h, 0) \in EventRecord /\ ~LockEvent(h, 0).trace
  BY <1>1 DEF LockEvent, EventRecord
<1>6. TryLock(h) \in EventRecord /\ Unlock(h) \in EventRecord
  BY <1>1, <1>3, <1>4 DEF EventRecord
<1>7. /\ TryLock(h).uri = LockUri /\ TryLock(h).data = Object(h) /\ TryLock(h).sid = h
      /\ TryLock(h).retain /\ TryLock(h).when /\ ~TryLock(h).watch /\ TryLock(h).will
      /\ ~TryLock(h).trace
  BY <1>3
<1>8. /\ Unlock(h).uri = LockUri /\ Unlock(h).data = Empty /\ Unlock(h).sid = h
      /\ Unlock(h).retain /\ ~Unlock(h).when /\ ~Unlock(h).will /\ ~Unlock(h).trace
  BY <1>4
<1>. QED BY <1>2, <1>5, <1>6, <1>7, <1>8

LEMMA InboundIs ==
  ASSUME NEW uri \in Topic, NEW data \in Data, NEW s \in Session
  PROVE  LET e == Inbound(uri, data, s)
         IN /\ e \in EventRecord /\ e.uri = uri /\ e.data = data /\ e.sid = s
            /\ e.trace /\ e.retain /\ ~e.when /\ ~e.will
<1>. PICK e : e = Inbound(uri, data, s)
  OBVIOUS
<1>1. e = [uri |-> uri, data |-> data, sid |-> s, id |-> 0, trace |-> TRUE,
           retain |-> TRUE, when |-> FALSE, watch |-> FALSE, will |-> FALSE]
  BY DEF Inbound, Kept, Event
<1>2. e \in EventRecord
  BY <1>1 DEF EventRecord
<1>3. e.uri = uri /\ e.data = data /\ e.sid = s /\ e.trace /\ e.retain /\ ~e.when /\ ~e.will
  BY <1>1
<1>. QED BY <1>2, <1>3

LEMMA PublishCmdIs ==
  ASSUME NEW p \in Packet \cup WillPacket, NEW m \in MqttClientSession
  PROVE  LET e == PublishCmd(p, m)
         IN /\ e \in EventRecord /\ e.uri = p.uri /\ e.data = p.data /\ e.sid = m
            /\ e.trace /\ e.retain = p.retain /\ ~e.when /\ ~e.will
<1>. PICK e : e = PublishCmd(p, m)
  OBVIOUS
<1>1. e = [uri |-> p.uri, data |-> p.data, sid |-> m, id |-> 0, trace |-> TRUE,
           retain |-> p.retain, when |-> FALSE, watch |-> FALSE, will |-> FALSE]
  BY DEF PublishCmd, Event
<1>2. p.uri \in Topic /\ p.data \in Data /\ m \in Session /\ p.retain \in BOOLEAN
  BY PacketAssumption DEF Topic, Data, Session
<1>3. e \in EventRecord
  BY <1>1, <1>2 DEF EventRecord
<1>4. e.uri = p.uri /\ e.data = p.data /\ e.sid = m /\ e.trace /\ ~e.when /\ ~e.will
  BY <1>1
<1>5. e.retain = p.retain
  BY <1>1
<1>. QED BY <1>3, <1>4, <1>5

(* A push that leaves a realm in order, and row at the key of the lock.    *)
Done(x, e, y, row) ==
  /\ RealmOK(y) /\ y.hyper = x.hyper /\ y.history = Traced(x, e) /\ y.kv[LockUri] = row
  /\ y.lastId > x.lastId
  /\ y.mqtt = [m \in MqttClientSession |-> Told(x.mqtt[m], e, x.lastId + 1)]

LEMMA EffectDone ==
  ASSUME NEW x, RealmOK(x), NEW e \in EventRecord, NEW y, NEW k \in Key, NEW row \in Row,
         Effect(x, e, y, [x.kv EXCEPT ![k] = row]), RowOK(y, k, row)
  PROVE  Done(x, e, y, IF k = LockUri THEN row ELSE x.kv[LockUri])
<1>1. RealmOK(y) /\ y.kv[k] = row /\ \A j \in Key : j # k => y.kv[j] = x.kv[j]
  BY EffectRows
<1>2. y.kv[LockUri] = IF k = LockUri THEN row ELSE x.kv[LockUri]
  BY <1>1, LockIsKey
<1>. QED BY <1>1, <1>2 DEF Done, Effect

LEMMA EffectStill ==
  ASSUME NEW x, RealmOK(x), NEW e \in EventRecord, NEW y, Effect(x, e, y, x.kv)
  PROVE  Done(x, e, y, x.kv[LockUri])
<1>1. RealmOK(y) /\ y.kv = x.kv
  BY EffectNoRows
<1>. QED BY <1>1 DEF Done, Effect

LEMMA RowNone == ASSUME NEW y \in RealmRecord, NEW k PROVE RowOK(y, k, NoRow)
<1>1. y.lastId \in Nat
  BY DEF RealmRecord
<1>2. 0 <= y.lastId
  BY <1>1
<1>3. Empty \in Acked(y.lastId)
  BY DEF Acked
<1>4. DOMAIN <<>> = {}
  OBVIOUS
<1>. QED BY <1>2, <1>3, <1>4, NoRowIs DEF RowOK

(* The row of a lock that somebody holds.                                  *)
WaitersOK(y, ws) == \A i \in DOMAIN ws : y.hyper[ws[i].sid] = "in" /\ ws[i].id <= y.lastId

LEMMA LockRowOK ==
  ASSUME NEW y, NEW row, row.id <= y.lastId, row.data # Empty,
         row.sid \in HyperSession, y.hyper[row.sid] = "in", row.data = Object(row.sid),
         NEW ws, row.waiters = ws, WaitersOK(y, ws)
  PROVE  RowOK(y, LockUri, row)
<1>1. WaitersOK(y, row.waiters)
  OBVIOUS
<1>. QED BY <1>1, LockIsKey DEF RowOK, WaitersOK

LEMMA GivenOK ==
  ASSUME NEW y, NEW w \in Waits, NEW ws \in Seq(Waits), w.id <= y.lastId, y.hyper[w.sid] = "in",
         WaitersOK(y, ws)
  PROVE  RowOK(y, LockUri, Given(w, ws))
<1>. PICK row : row = Given(w, ws)
  OBVIOUS
<1>1. /\ row.data = Object(w.sid) /\ row.id = w.id /\ row.sid = w.sid
      /\ row.waiters = ws
  BY GivenIs
<1>2. w.sid \in HyperSession
  BY WaitsIs
<1>3. row.data # Empty
  BY <1>1, Values
<1>. QED BY <1>1, <1>2, <1>3, LockRowOK

LEMMA ReleasedOK ==
  ASSUME NEW x, RealmOK(x), NEW y \in RealmRecord, y.lastId > x.lastId, y.hyper = x.hyper
  PROVE  RowOK(y, LockUri, Released(x.kv[LockUri]))
<1>. PICK ws : ws = x.kv[LockUri].waiters
  OBVIOUS
<1>1. x \in RealmRecord /\ LockUri \in Key
  BY LockIsKey DEF RealmOK
<1>2. x.lastId \in Nat /\ y.lastId \in Nat /\ ws \in Seq(Waits)
  BY <1>1, RowType DEF RealmRecord
<1>3. CASE ws = <<>>
  BY <1>3, RowNone DEF Released
<1>4. CASE ws # <<>>
  <2>. PICK w : w = Head(ws)
    OBVIOUS
  <2>. PICK t : t = Tail(ws)
    OBVIOUS
  <2>1. /\ w \in Waits /\ t \in Seq(Waits) /\ 1 \in DOMAIN ws /\ w = ws[1]
        /\ \A i \in DOMAIN t : i + 1 \in DOMAIN ws /\ t[i] = ws[i + 1]
    BY <1>2, <1>4
  <2>3. \A i \in DOMAIN ws : x.hyper[ws[i].sid] = "in" /\ ws[i].id <= x.lastId
    BY <1>1 DEF RealmOK, RowsOK, RowOK
  <2>4. ASSUME NEW v \in Waits, v.id <= x.lastId PROVE v.id <= y.lastId
    <3>1. v.id \in Nat
      BY WaitsIs
    <3>. QED BY <1>2, <2>4, <3>1
  <2>5. w.sid \in HyperSession /\ y.hyper[w.sid] = "in" /\ w.id <= y.lastId
    BY <2>1, <2>3, <2>4, WaitsIs
  <2>6. ASSUME NEW i \in DOMAIN t PROVE y.hyper[t[i].sid] = "in" /\ t[i].id <= y.lastId
    <3>1. t[i] \in Waits
      BY <2>1
    <3>2. i + 1 \in DOMAIN ws /\ t[i] = ws[i + 1]
      BY <2>1
    <3>3. x.hyper[t[i].sid] = "in" /\ t[i].id <= x.lastId
      BY <2>3, <3>2
    <3>. QED BY <2>4, <3>1, <3>3
  <2>7. WaitersOK(y, t)
    BY <2>6 DEF WaitersOK
  <2>8. RowOK(y, LockUri, Given(w, t))
    BY <2>1, <2>5, <2>7, GivenOK
  <2>9. Released(x.kv[LockUri]) = Given(w, t)
    BY <1>4 DEF Released
  <2>. QED BY <2>8, <2>9
<1>. QED BY <1>3, <1>4

(* Any push that empties the key of the lock.                              *)
LEMMA ReleaseDone ==
  ASSUME NEW x, RealmOK(x), NEW e \in EventRecord, e.retain, ~e.when, ~e.will,
         e.uri = LockUri, e.data = Empty
  PROVE  Done(x, e, DoPush(x, e), Released(x.kv[LockUri]))
<1>. PICK y : y = DoPush(x, e)
  OBVIOUS
<1>. PICK row : row = Released(x.kv[LockUri])
  OBVIOUS
<1>1. Ready(x)
  BY OKReady
<1>2. Effect(x, e, y, [x.kv EXCEPT ![LockUri] = row])
  BY <1>1, PushRelease
<1>3. y \in RealmRecord /\ y.lastId > x.lastId /\ y.hyper = x.hyper
  BY <1>2 DEF Effect
<1>4. RowOK(y, LockUri, row)
  BY <1>3, ReleasedOK
<1>5. row \in Row
  <2>1. x.kv[LockUri].waiters \in Seq(Waits)
    BY LockIsKey, RowType DEF RealmOK
  <2>. QED BY <2>1, ReleasedType
<1>6. Done(x, e, y, IF LockUri = LockUri THEN row ELSE x.kv[LockUri])
  BY <1>2, <1>4, <1>5, LockIsKey, EffectDone
<1>. QED BY <1>6

LEMMA UnkeptDone ==
  ASSUME NEW x, RealmOK(x), NEW e \in EventRecord, ~e.retain
  PROVE  Done(x, e, DoPush(x, e), x.kv[LockUri])
<1>1. Ready(x)
  BY OKReady
<1>2. Effect(x, e, DoPush(x, e), x.kv)
  BY <1>1, PushUnkept
<1>. QED BY <1>2, EffectStill

LEMMA StoredFree ==
  ASSUME NEW f \in EventRecord, NEW old, ~f.will, f.data # Empty
  PROVE  LET row == Stored(f, old, <<>>)
         IN /\ row \in Row /\ row.data = Merged(old, f.data) /\ row.data # Empty
            /\ row.id = f.id /\ row.waiters = <<>> /\ row.sid = None
<1>1. <<>> \in Seq(Waits)
  OBVIOUS
<1>2. f.will => f.sid \in HyperSession
  OBVIOUS
<1>. PICK row : row = Stored(f, old, <<>>)
  OBVIOUS
<1>3. /\ row \in Row /\ row.data = Merged(old, f.data) /\ row.data # Empty
      /\ row.id = f.id /\ row.waiters = <<>>
      /\ row.sid = IF f.will THEN f.sid ELSE None
  BY <1>1, <1>2, StoredIs
<1>. QED BY <1>3

(* A push that stores something at another key.                            *)
LEMMA KeptDone ==
  ASSUME NEW x, RealmOK(x), NEW e \in EventRecord, e.retain, ~e.when, ~e.will,
         e.uri \in Key, e.uri # LockUri,
         e.uri = OffsetUri => \E i \in 0 .. x.lastId : e.data = Text(i)
  PROVE  Done(x, e, DoPush(x, e), x.kv[LockUri])
<1>. PICK y : y = DoPush(x, e)
  OBVIOUS
<1>. PICK k : k = e.uri
  OBVIOUS
<1>. PICK f : f = Numbered(e, x.lastId + 1)
  OBVIOUS
<1>. PICK row : row = Stored(f, x.kv[k].data, <<>>)
  OBVIOUS
<1>1. Ready(x) /\ x \in RealmRecord /\ RowOK(x, k, x.kv[k])
  BY OKReady DEF RealmOK, RowsOK
<1>2. x.kv[k].waiters = <<>>
  BY <1>1 DEF RowOK
<1>3. x.lastId \in Nat /\ x.lastId + 1 \in Nat
  BY <1>1 DEF RealmRecord
<1>4. Effect(x, e, y, [x.kv EXCEPT ![k] = row])
  <2>1. e.will => e.sid \in HyperSession
    OBVIOUS
  <2>. QED BY <1>1, <1>2, <2>1, PushKept
<1>5. y \in RealmRecord /\ y.lastId > x.lastId /\ y.hyper = x.hyper
  BY <1>4 DEF Effect
<1>6. y.lastId \in Nat /\ x.lastId <= y.lastId /\ x.lastId + 1 <= y.lastId
  <2>1. y.lastId \in Nat
    BY <1>5 DEF RealmRecord
  <2>. QED BY <1>3, <1>5, <2>1
<1>7. f \in EventRecord /\ f.data = e.data /\ f.id = x.lastId + 1 /\ f.will = e.will
  BY <1>3, NumberedIs
<1>8. ~f.will
  BY <1>7
<1>9. row \in Row /\ RowOK(y, k, row)
  <2>1. <<>> \in Seq(Waits) /\ DOMAIN <<>> = {}
    OBVIOUS
  <2>2. CASE e.data = Empty
    <3>1. row = NoRow
      BY <1>7, <1>8, <2>1, <2>2, StoredIs
    <3>. QED BY <1>5, <3>1, NoRowIs, RowNone
  <2>3. CASE e.data # Empty
    <3>1. /\ row \in Row /\ row.data = Merged(x.kv[k].data, f.data) /\ row.data # Empty
          /\ row.id = f.id /\ row.waiters = <<>> /\ row.sid = None
      BY <1>7, <1>8, <2>3, StoredFree
    <3>2. k = OffsetUri => row.data \in Acked(y.lastId)
      <4>1. row.data = e.data \/ row.data = Letters
        BY <1>7, <3>1, MergedIs
      <4>2. CASE k = OffsetUri
        <5>1. PICK i \in 0 .. x.lastId : e.data = Text(i)
          BY <4>2
        <5>2. i \in 0 .. y.lastId
          BY <1>3, <1>6
        <5>. QED BY <4>1, <5>1, <5>2 DEF Acked
      <4>. QED BY <4>2
    <3>3. row.id <= y.lastId
      BY <1>6, <1>7, <3>1
    <3>. QED BY <2>1, <3>1, <3>2, <3>3 DEF RowOK
  <2>. QED BY <2>2, <2>3
<1>10. Done(x, e, y, IF k = LockUri THEN row ELSE x.kv[LockUri])
  BY <1>4, <1>9, EffectDone
<1>. QED BY <1>10

-----------------------------------------------------------------------------
(* What the pushes of the sessions do to the lock. *)

(* The row of a lock that h has just got.                                  *)
Held(h, n) == [data |-> Object(h), id |-> n, sid |-> h, waiters |-> <<>>]

LEMMA HeldIs ==
  ASSUME NEW y \in RealmRecord, NEW h \in HyperSession, NEW n \in Nat, n <= y.lastId,
         y.hyper[h] = "in"
  PROVE  /\ Held(h, n) \in Row /\ RowOK(y, LockUri, Held(h, n))
         /\ Held(h, n).sid = h /\ Held(h, n).waiters = <<>>
<1>. PICK row : row = Held(h, n)
  OBVIOUS
<1>1. row.data = Object(h) /\ row.id = n /\ row.sid = h /\ row.waiters = <<>>
  BY DEF Held
<1>2. Object(h) \in Data /\ <<>> \in Seq(Waits) /\ DOMAIN <<>> = {}
  BY DEF Data
<1>3. row \in Row
  BY <1>2 DEF Held, Row
<1>4. row.data # Empty
  BY <1>1, Values
<1>5. RowOK(y, LockUri, row)
  BY <1>1, <1>2, <1>4, LockIsKey DEF RowOK
<1>. QED BY <1>1, <1>3, <1>5

LEMMA AcquireDone ==
  ASSUME NEW x, RealmOK(x), NEW h \in HyperSession, x.hyper[h] = "in",
         NEW e \in {Lock(h), TryLock(h)}, x.kv[LockUri] = NoRow
  PROVE  Done(x, e, DoPush(x, e), Held(h, x.lastId + 1))
<1>. PICK y : y = DoPush(x, e)
  OBVIOUS
<1>. PICK row : row = Held(h, x.lastId + 1)
  OBVIOUS
<1>1. e \in EventRecord /\ e.retain /\ e.will /\ e.uri = LockUri /\ e.data = Object(h) /\ e.sid = h
  <2>1. CASE e = Lock(h)
    BY <2>1, HyperEvents DEF LockEvent
  <2>2. CASE e = TryLock(h)
    BY <2>2, HyperEvents
  <2>. QED BY <2>1, <2>2
<1>2. Ready(x) /\ x \in RealmRecord
  BY OKReady DEF RealmOK
<1>3. Effect(x, e, y, [x.kv EXCEPT ![LockUri] = row])
  BY <1>1, <1>2, PushAcquire DEF Held
<1>4. y \in RealmRecord /\ y.lastId > x.lastId /\ y.hyper = x.hyper
  BY <1>3 DEF Effect
<1>5. x.lastId + 1 \in Nat /\ x.lastId + 1 <= y.lastId
  <2>1. x.lastId \in Nat /\ y.lastId \in Nat
    BY <1>2, <1>4 DEF RealmRecord
  <2>. QED BY <1>4, <2>1
<1>6. y.hyper[h] = "in"
  BY <1>4
<1>7. row \in Row /\ RowOK(y, LockUri, row)
  BY <1>4, <1>5, <1>6, HeldIs
<1>8. Done(x, e, y, IF LockUri = LockUri THEN row ELSE x.kv[LockUri])
  BY <1>1, <1>3, <1>7, LockIsKey, EffectDone
<1>. QED BY <1>8

LEMMA RefusedDone ==
  ASSUME NEW x, RealmOK(x), NEW h \in HyperSession, x.kv[LockUri] # NoRow
  PROVE  Done(x, TryLock(h), DoPush(x, TryLock(h)), x.kv[LockUri])
<1>. PICK e : e = TryLock(h)
  OBVIOUS
<1>1. e \in EventRecord /\ e.retain /\ e.when /\ ~e.watch /\ e.uri = LockUri
  BY HyperEvents
<1>2. Ready(x)
  BY OKReady
<1>3. Effect(x, e, DoPush(x, e), x.kv)
  BY <1>1, <1>2, PushRefused
<1>. QED BY <1>1, <1>3, EffectStill

LEMMA QueuedIs ==
  ASSUME NEW old \in Row, NEW w, NEW t \in Seq(Waits), t = Append(old.waiters, w)
  PROVE  /\ Queued(old, w) \in Row
         /\ Queued(old, w).data = old.data /\ Queued(old, w).sid = old.sid
         /\ Queued(old, w).id = old.id /\ Queued(old, w).waiters = t
<1>. PICK row : row = Queued(old, w)
  OBVIOUS
<1>1. row = [old EXCEPT !.waiters = t]
  BY DEF Queued
<1>. QED BY <1>1 DEF Row

LEMMA AwaitDone ==
  ASSUME NEW x, RealmOK(x), NEW h \in HyperSession, x.hyper[h] = "in", x.kv[LockUri] # NoRow
  PROVE  Done(x, Lock(h), DoPush(x, Lock(h)),
              Queued(x.kv[LockUri], LockEvent(h, x.lastId + 1)))
<1>. PICK e : e = Lock(h)
  OBVIOUS
<1>. PICK y : y = DoPush(x, e)
  OBVIOUS
<1>. PICK old : old = x.kv[LockUri]
  OBVIOUS
<1>. PICK w : w = LockEvent(h, x.lastId + 1)
  OBVIOUS
<1>. PICK row : row = Queued(old, w)
  OBVIOUS
<1>. PICK ws : ws = old.waiters
  OBVIOUS
<1>1. Lock(h) \in EventRecord /\ Lock(h) = LockEvent(h, 0)
  BY HyperEvents
<1>2. Ready(x) /\ x \in RealmRecord /\ RowOK(x, LockUri, old)
  BY OKReady, LockIsKey DEF RealmOK, RowsOK
<1>3. w \in Waits /\ Effect(x, e, y, [x.kv EXCEPT ![LockUri] = row])
  BY <1>1, <1>2, PushAwait
<1>4. y \in RealmRecord /\ y.lastId > x.lastId /\ y.hyper = x.hyper
  BY <1>3 DEF Effect
<1>5. x.lastId \in Nat /\ y.lastId \in Nat
  BY <1>2, <1>4 DEF RealmRecord
<1>6. old \in Row /\ ws \in Seq(Waits) /\ old.id \in Nat
  BY <1>2, LockIsKey, RowType
<1>. PICK t : t = Append(ws, w)
  OBVIOUS
<1>7. /\ t \in Seq(Waits) /\ Len(ws) \in Nat /\ DOMAIN ws = 1 .. Len(ws)
      /\ DOMAIN t = 1 .. Len(ws) + 1
      /\ \A i \in 1 .. Len(ws) : t[i] = ws[i]
      /\ t[Len(ws) + 1] = w
  BY <1>3, <1>6, Appends
<1>8. t \in Seq(Waits)
  BY <1>7
<1>9. t = Append(old.waiters, w)
  OBVIOUS
<1>10. /\ Queued(old, w) \in Row
       /\ Queued(old, w).data = old.data /\ Queued(old, w).sid = old.sid
       /\ Queued(old, w).id = old.id /\ Queued(old, w).waiters = t
  BY ONLY <1>6, <1>8, <1>9, QueuedIs
<1>11. row.data = old.data /\ row.sid = old.sid /\ row.id = old.id /\ row.waiters = t
  BY <1>10
<1>12. w.sid = h /\ w.id = x.lastId + 1
  BY DEF LockEvent
<1>13. ASSUME NEW i \in DOMAIN t PROVE y.hyper[t[i].sid] = "in" /\ t[i].id <= y.lastId
  <2>1. CASE i \in 1 .. Len(ws)
    <3>1. t[i] = ws[i] /\ ws[i] \in Waits
      BY <1>6, <1>7, <2>1
    <3>2. ws[i].id \in Nat /\ ws[i].id <= x.lastId /\ x.hyper[ws[i].sid] = "in"
      BY <1>2, <1>7, <2>1, <3>1, WaitsIs DEF RowOK
    <3>3. ws[i].id <= y.lastId /\ y.hyper[ws[i].sid] = "in"
      BY <1>4, <1>5, <3>2
    <3>. QED BY <3>1, <3>3
  <2>2. CASE i = Len(ws) + 1
    <3>1. t[i].sid = h /\ t[i].id = x.lastId + 1
      BY <1>7, <1>12, <2>2
    <3>2. x.lastId + 1 <= y.lastId
      BY <1>4, <1>5
    <3>3. y.hyper[h] = "in"
      BY <1>4
    <3>. QED BY <3>1, <3>2, <3>3
  <2>3. i \in 1 .. Len(ws) \/ i = Len(ws) + 1
    BY <1>7
  <2>. QED BY <2>1, <2>2, <2>3
<1>14. RowOK(y, LockUri, row)
  <2>1. row.id <= y.lastId
    <3>1. old.id <= x.lastId
      BY <1>2 DEF RowOK
    <3>. QED BY <1>4, <1>5, <1>6, <1>11, <3>1
  <2>2. old.data # Empty /\ old.sid \in HyperSession /\ x.hyper[old.sid] = "in"
        /\ old.data = Object(old.sid)
    BY <1>2 DEF RowOK
  <2>3. row.data # Empty /\ row.sid \in HyperSession /\ y.hyper[row.sid] = "in"
        /\ row.data = Object(row.sid)
    BY <1>4, <1>11, <2>2
  <2>4. WaitersOK(y, t)
    BY <1>13 DEF WaitersOK
  <2>. QED BY <1>11, <2>1, <2>3, <2>4, LockRowOK
<1>15. Done(x, e, y, IF LockUri = LockUri THEN row ELSE x.kv[LockUri])
  BY <1>1, <1>3, <1>10, <1>14, LockIsKey, EffectDone
<1>. QED BY <1>15

LEMMA UnlockDone ==
  ASSUME NEW x, RealmOK(x), NEW h \in HyperSession
  PROVE  Done(x, Unlock(h), DoPush(x, Unlock(h)), Released(x.kv[LockUri]))
<1>. PICK e : e = Unlock(h)
  OBVIOUS
<1>1. e \in EventRecord /\ e.retain /\ ~e.when /\ ~e.will /\ e.uri = LockUri /\ e.data = Empty
  BY HyperEvents
<1>. QED BY <1>1, ReleaseDone

LEMMA PacketDone ==
  ASSUME NEW x, RealmOK(x), NEW p \in Packet \cup WillPacket, NEW m \in MqttClientSession
  PROVE  LET e == PublishCmd(p, m)
         IN \/ Done(x, e, DoPush(x, e), x.kv[LockUri])
            \/ Done(x, e, DoPush(x, e), Released(x.kv[LockUri]))
<1>. PICK e : e = PublishCmd(p, m)
  OBVIOUS
<1>1. /\ e \in EventRecord /\ e.uri = p.uri /\ e.data = p.data /\ ~e.when /\ ~e.will
  BY PublishCmdIs
<1>2. e.retain = p.retain
  BY PublishCmdIs
<1>3. CASE ~p.retain
  <2>1. ~e.retain
    BY <1>2, <1>3
  <2>. QED BY <1>1, <2>1, UnkeptDone
<1>4. CASE p.retain /\ p.uri = LockUri
  <2>1. e.retain
    BY <1>2, <1>4
  <2>2. p.data = Empty
    BY <1>4, PacketAssumption
  <2>. QED BY <1>1, <1>4, <2>1, <2>2, ReleaseDone
<1>5. CASE p.retain /\ p.uri # LockUri
  <2>1. e.retain
    BY <1>2, <1>5
  <2>2. p.uri # OffsetUri
    BY <1>5, PacketAssumption
  <2>3. p.uri \in Key
    BY <1>5 DEF Key
  <2>. QED BY <1>1, <1>5, <2>1, <2>2, <2>3, KeptDone
<1>. QED BY <1>3, <1>4, <1>5

LEMMA OffsetDone ==
  ASSUME NEW x, RealmOK(x), NEW i \in 0 .. x.lastId, NEW m \in MqttClientSession
  PROVE  LET e == Inbound(OffsetUri, Text(i), m)
         IN Done(x, e, DoPush(x, e), x.kv[LockUri])
<1>. PICK e : e = Inbound(OffsetUri, Text(i), m)
  OBVIOUS
<1>1. i \in Nat
  OBVIOUS
<1>2. OffsetUri \in Topic /\ Text(i) \in Data /\ m \in Session
  BY <1>1, KeyTopic DEF Data, Session
<1>3. /\ e \in EventRecord /\ e.uri = OffsetUri /\ e.data = Text(i)
      /\ e.retain /\ ~e.when /\ ~e.will
  BY <1>2, InboundIs
<1>4. e.uri \in Key /\ e.uri # LockUri
  BY <1>3, LockIsKey
<1>. QED BY <1>3, <1>4, KeptDone

LEMMA EraseDone ==
  ASSUME NEW x, RealmOK(x), NEW h \in HyperSession
  PROVE  LET e == Inbound(LockUri, Empty, h)
         IN Done(x, e, DoPush(x, e), Released(x.kv[LockUri]))
<1>. PICK e : e = Inbound(LockUri, Empty, h)
  OBVIOUS
<1>1. LockUri \in Topic /\ Empty \in Data /\ h \in Session
  BY KeyTopic DEF Data, Session
<1>2. /\ e \in EventRecord /\ e.uri = LockUri /\ e.data = Empty
      /\ e.retain /\ ~e.when /\ ~e.will
  BY <1>1, InboundIs
<1>. QED BY <1>2, ReleaseDone

-----------------------------------------------------------------------------
(* The end of a session. *)

(* A session that holds no key leaves the keys alone; the others hold one. *)
LEMMA EraseNone ==
  ASSUME NEW x, NEW s, {k \in Key : x.kv[k].sid = s} = {}
  PROVE  EraseWills(x, s) = x
<1> DEFINE Body(f) == [t \in SUBSET {} |->
                         IF t = {} THEN x
                         ELSE DoPush(f[t \ {CHOOSE k \in t : TRUE}],
                                     Inbound(CHOOSE k \in t : TRUE, Empty, s))]
           c == CHOOSE f : f = Body(f)
           w == [t \in SUBSET {} |-> x]
<1>1. EraseWills(x, s) = c[{}]
  BY DEF EraseWills, FoldSet, MapThenFoldSet
<1>2. \A t \in SUBSET {} : t = {}
  OBVIOUS
<1>3. w = Body(w)
  BY <1>2
<1>4. c = Body(c)
  <2> HIDE DEF w, Body
  <2>. QED BY <1>3
<1> HIDE DEF c
<1>5. c[{}] = x
  BY <1>4
<1>. QED BY <1>1, <1>5

LEMMA EraseOne ==
  ASSUME NEW x, NEW s, NEW k, {j \in Key : x.kv[j].sid = s} = {k}
  PROVE  EraseWills(x, s) = DoPush(x, Inbound(k, Empty, s))
<1>. PICK S : S = {k}
  OBVIOUS
<1> DEFINE Body(f) == [t \in SUBSET S |->
                         IF t = {} THEN x
                         ELSE DoPush(f[t \ {CHOOSE j \in t : TRUE}],
                                     Inbound(CHOOSE j \in t : TRUE, Empty, s))]
           c == CHOOSE f : f = Body(f)
           w == [t \in SUBSET S |-> IF t = {} THEN x ELSE DoPush(x, Inbound(k, Empty, s))]
<1>1. EraseWills(x, s) = c[S]
  BY DEF EraseWills, FoldSet, MapThenFoldSet
<1>2. \A t \in SUBSET S : t = {} \/ t = {k}
  OBVIOUS
<1>3. (CHOOSE j \in {k} : TRUE) = k /\ {k} \ {k} = {} /\ {k} # {}
  OBVIOUS
<1>4. w = Body(w)
  <2>1. ASSUME NEW t \in SUBSET S PROVE w[t] = Body(w)[t]
    <3>1. CASE t = {}
      BY <3>1
    <3>2. CASE t = {k}
      <4>1. w[t] = DoPush(x, Inbound(k, Empty, s))
        BY <1>3, <3>2
      <4>2. {} \in SUBSET S
        OBVIOUS
      <4>3. w[{}] = x
        BY <4>2
      <4>4. Body(w)[t] = DoPush(w[t \ {CHOOSE j \in t : TRUE}],
                                Inbound(CHOOSE j \in t : TRUE, Empty, s))
        BY <1>3, <3>2
      <4>. QED BY <1>3, <3>2, <4>1, <4>3, <4>4
    <3>. QED BY <1>2, <3>1, <3>2
  <2>. QED BY <2>1
<1>5. c = Body(c)
  <2> HIDE DEF w, Body
  <2>. QED BY <1>4
<1> HIDE DEF c
<1>6. c[{}] = x
  BY <1>5
<1>7. S \in SUBSET S /\ S # {}
  OBVIOUS
<1>8. Body(c)[S] = DoPush(c[S \ {CHOOSE j \in S : TRUE}], Inbound(CHOOSE j \in S : TRUE, Empty, s))
  BY <1>7
<1> HIDE DEF Body
<1>9. c[S] = DoPush(c[S \ {CHOOSE j \in S : TRUE}], Inbound(CHOOSE j \in S : TRUE, Empty, s))
  BY <1>5, <1>8
<1>10. c[S] = DoPush(x, Inbound(k, Empty, s))
  BY <1>3, <1>6, <1>9
<1>. QED BY <1>1, <1>10

(* A row without the waiters of a session.                                 *)
LEMMA OthersAt ==
  ASSUME NEW ws \in Seq(Waits), NEW s
  PROVE  LET t == At(ws, Others(ws, s))
         IN /\ t \in Seq(Waits)
            /\ \A i \in DOMAIN t : \E j \in DOMAIN ws : t[i] = ws[j] /\ ws[j].sid # s
            /\ (\A j \in DOMAIN ws : ws[j].sid # s) => t = ws
<1>. PICK n : n = Len(ws)
  OBVIOUS
<1>. PICK p : p = Others(ws, s)
  OBVIOUS
<1>. PICK c : c = Cardinality(p)
  OBVIOUS
<1>. PICK t : t = At(ws, p)
  OBVIOUS
<1>1. n \in Nat /\ DOMAIN ws = 1 .. n /\ ws = [i \in 1 .. n |-> ws[i]]
      /\ \A i \in 1 .. n : ws[i] \in Waits
  OBVIOUS
<1>2. p \in SUBSET (1 .. n) /\ \A j \in p : ws[j].sid # s
  BY <1>1 DEF Others
<1>3. c \in Nat /\ Sorted(p) \in [1 .. c -> p]
  BY <1>1, <1>2, AtPlaces
<1>4. t = [i \in 1 .. c |-> ws[Sorted(p)[i]]]
  BY DEF At
<1>5. \A i \in 1 .. c : Sorted(p)[i] \in p
  BY <1>3
<1>6. t \in [1 .. c -> Waits]
  BY <1>1, <1>2, <1>4, <1>5
<1>7. t \in Seq(Waits)
  BY <1>3, <1>6
<1>8. \A i \in DOMAIN t : \E j \in DOMAIN ws : t[i] = ws[j] /\ ws[j].sid # s
  BY <1>1, <1>2, <1>4, <1>5
<1>9. (\A j \in DOMAIN ws : ws[j].sid # s) => t = ws
  <2> SUFFICES ASSUME \A j \in DOMAIN ws : ws[j].sid # s PROVE t = ws
    OBVIOUS
  <2>1. p = 1 .. n
    BY <1>1 DEF Others
  <2>. QED BY <1>1, <2>1, AtAll
<1>. QED BY <1>7, <1>8, <1>9

LEMMA DroppedIs ==
  ASSUME NEW row \in Row, NEW s
  PROVE  LET r == Dropped(row, s)
         IN /\ r \in Row /\ r.data = row.data /\ r.sid = row.sid /\ r.id = row.id
            /\ r.waiters = At(row.waiters, Others(row.waiters, s))
<1>. PICK t : t = At(row.waiters, Others(row.waiters, s))
  OBVIOUS
<1>. PICK r : r = Dropped(row, s)
  OBVIOUS
<1>1. t \in Seq(Waits)
  <2>1. row.waiters \in Seq(Waits)
    BY DEF Row
  <2>. QED BY <2>1, OthersAt
<1>2. r = [row EXCEPT !.waiters = t]
  BY DEF Dropped
<1>3. /\ r \in Row /\ r.data = row.data /\ r.sid = row.sid /\ r.id = row.id /\ r.waiters = t
  BY <1>1, <1>2 DEF Row
<1>. QED BY <1>3

LEMMA DroppedSame ==
  ASSUME NEW row \in Row, NEW s, \A i \in DOMAIN row.waiters : row.waiters[i].sid # s
  PROVE  Dropped(row, s) = row
<1>. PICK ws : ws = row.waiters
  OBVIOUS
<1>1. ws \in Seq(Waits)
  BY DEF Row
<1>2. At(ws, Others(ws, s)) = ws
  <2>1. \A i \in DOMAIN ws : ws[i].sid # s
    OBVIOUS
  <2>. QED BY ONLY <1>1, <2>1, OthersAt
<1>3. Dropped(row, s) = [row EXCEPT !.waiters = ws]
  BY <1>2 DEF Dropped
<1>. QED BY <1>3 DEF Row

LEMMA DropIs ==
  ASSUME NEW x \in RealmRecord, NEW s
  PROVE  LET y == DropWaiters(x, s)
         IN /\ y \in RealmRecord
            /\ y.lastId = x.lastId /\ y.history = x.history /\ y.hyper = x.hyper
            /\ y.mqtt = x.mqtt
            /\ y.kv = [k \in Key |-> Dropped(x.kv[k], s)]
<1>. PICK y : y = DropWaiters(x, s)
  OBVIOUS
<1>. PICK v : v = [k \in Key |-> Dropped(x.kv[k], s)]
  OBVIOUS
<1>1. x = [lastId |-> x.lastId, history |-> x.history, kv |-> x.kv, hyper |-> x.hyper,
           mqtt |-> x.mqtt]
  BY DEF RealmRecord
<1>2. /\ x.lastId \in Nat /\ x.kv \in [Key -> Row]
      /\ x.hyper \in [HyperSession -> {"new", "in", "over"}]
      /\ x.mqtt \in [MqttClientSession -> MqttRecord] /\ x.history \in Seq(Entry)
  BY DEF RealmRecord
<1>3. v \in [Key -> Row]
  BY <1>2, DroppedIs
<1>4. y = [x EXCEPT !.kv = v]
  BY DEF DropWaiters
<1>5. y = [lastId |-> x.lastId, history |-> x.history, kv |-> v, hyper |-> x.hyper,
           mqtt |-> x.mqtt]
  BY <1>1, <1>4
<1>6. y \in RealmRecord
  BY <1>2, <1>3, <1>5 DEF RealmRecord
<1>7. y.lastId = x.lastId /\ y.history = x.history /\ y.hyper = x.hyper /\ y.mqtt = x.mqtt
      /\ y.kv = v
  BY <1>5
<1>. QED BY <1>6, <1>7

LEMMA DroppedOK ==
  ASSUME NEW x, NEW k, NEW row \in Row, RowOK(x, k, row), NEW s
  PROVE  RowOK(x, k, Dropped(row, s))
<1>. PICK r : r = Dropped(row, s)
  OBVIOUS
<1>. PICK ws : ws = row.waiters
  OBVIOUS
<1>. PICK t : t = At(ws, Others(ws, s))
  OBVIOUS
<1>1. r \in Row /\ r.data = row.data /\ r.sid = row.sid /\ r.id = row.id /\ r.waiters = t
  BY DroppedIs
<1>2. ws \in Seq(Waits)
  BY DEF Row
<1>3. /\ \A i \in DOMAIN t : \E j \in DOMAIN ws : t[i] = ws[j] /\ ws[j].sid # s
      /\ (\A j \in DOMAIN ws : ws[j].sid # s) => t = ws
  BY <1>2, OthersAt
<1>4. \A i \in DOMAIN ws : x.hyper[ws[i].sid] = "in" /\ ws[i].id <= x.lastId
  BY DEF RowOK
<1>5. ASSUME NEW i \in DOMAIN t
      PROVE  x.hyper[t[i].sid] = "in" /\ t[i].id <= x.lastId
  <2>1. PICK j \in DOMAIN ws : t[i] = ws[j]
    BY <1>3
  <2>. QED BY <1>4, <2>1
<1>6. ws = <<>> => r = row
  <2>1. ASSUME ws = <<>> PROVE r = row
    <3>1. DOMAIN ws = {}
      BY <2>1
    <3>2. \A i \in DOMAIN row.waiters : row.waiters[i].sid # s
      BY <3>1
    <3>. QED BY <3>2, DroppedSame
  <2>. QED BY <2>1
<1>7. row = NoRow => r = row
  BY <1>6, NoRowIs
<1>8. r = NoRow \/ r.data # Empty
  BY <1>1, <1>7 DEF RowOK
<1>9. k # LockUri => r.sid = None /\ r.waiters = <<>>
  BY <1>1, <1>6 DEF RowOK
<1>10. k = LockUri /\ r # NoRow =>
         r.sid \in HyperSession /\ x.hyper[r.sid] = "in" /\ r.data = Object(r.sid)
  BY <1>1, <1>7 DEF RowOK
<1>11. r.id <= x.lastId /\ (k = OffsetUri => r.data \in Acked(x.lastId))
  BY <1>1 DEF RowOK
<1>12. \A i \in DOMAIN r.waiters :
         x.hyper[r.waiters[i].sid] = "in" /\ r.waiters[i].id <= x.lastId
  BY ONLY <1>1, <1>5
<1>. QED BY <1>8, <1>9, <1>10, <1>11, <1>12 DEF RowOK

(* A realm without the waiters of a session is in order.                   *)
LEMMA DropDone ==
  ASSUME NEW x, RealmOK(x), NEW s
  PROVE  LET y == DropWaiters(x, s)
         IN /\ RealmOK(y) /\ y.lastId = x.lastId /\ y.history = x.history /\ y.hyper = x.hyper
            /\ y.mqtt = x.mqtt /\ y.kv[LockUri] = Dropped(x.kv[LockUri], s)
<1>. PICK y : y = DropWaiters(x, s)
  OBVIOUS
<1>1. x \in RealmRecord /\ RowsOK(x) /\ HistoryOK(x) /\ SessionsOK(x)
  BY DEF RealmOK
<1>2. /\ y \in RealmRecord
      /\ y.lastId = x.lastId /\ y.history = x.history /\ y.hyper = x.hyper
      /\ y.mqtt = x.mqtt
      /\ y.kv = [k \in Key |-> Dropped(x.kv[k], s)]
  BY <1>1, DropIs
<1>3. ASSUME NEW k \in Key PROVE RowOK(y, k, y.kv[k])
  <2>1. x.kv[k] \in Row /\ RowOK(x, k, x.kv[k])
    BY <1>1, RowType DEF RowsOK
  <2>2. RowOK(x, k, Dropped(x.kv[k], s))
    BY <2>1, DroppedOK
  <2>3. RowOK(y, k, Dropped(x.kv[k], s))
    BY <1>2, <2>2 DEF RowOK
  <2>. QED BY <1>2, <2>3
<1>4. RowsOK(y) /\ HistoryOK(y) /\ SessionsOK(y)
  BY <1>1, <1>2, <1>3 DEF RowsOK, HistoryOK, SessionsOK
<1>5. y.kv[LockUri] = Dropped(x.kv[LockUri], s)
  BY <1>2, LockIsKey
<1>. QED BY <1>2, <1>4, <1>5 DEF RealmOK

(* Who else holds a key than Hyper sessions that hold the lock?            *)
KeysOf(x, s) == {k \in Key : x.kv[k].sid = s}

LEMMA HeldKeys ==
  ASSUME NEW x, RealmOK(x), NEW s, s # None
  PROVE  /\ x.kv[LockUri].sid = s => KeysOf(x, s) = {LockUri}
         /\ x.kv[LockUri].sid # s => KeysOf(x, s) = {}
<1>1. \A k \in Key : k # LockUri => x.kv[k].sid = None
  BY DEF RealmOK, RowsOK, RowOK
<1>. QED BY <1>1, LockIsKey DEF KeysOf

(* A row of a lock that h has left.                                        *)
Left(row, h) == row.sid # h /\ \A i \in DOMAIN row.waiters : row.waiters[i].sid # h

LEMMA DroppedLeft ==
  ASSUME NEW row \in Row, NEW h, row.sid # h
  PROVE  Left(Dropped(row, h), h)
<1>. PICK r : r = Dropped(row, h)
  OBVIOUS
<1>. PICK ws : ws = row.waiters
  OBVIOUS
<1>. PICK t : t = At(ws, Others(ws, h))
  OBVIOUS
<1>1. r.sid = row.sid /\ r.waiters = t
  BY DroppedIs
<1>2. ws \in Seq(Waits)
  BY DEF Row
<1>3. \A i \in DOMAIN t : \E j \in DOMAIN ws : t[i] = ws[j] /\ ws[j].sid # h
  BY <1>2, OthersAt
<1>4. \A i \in DOMAIN t : t[i].sid # h
  BY <1>3
<1>. QED BY <1>1, <1>4 DEF Left

LEMMA ReleasedLeft ==
  ASSUME NEW row \in Row, NEW h \in HyperSession
  PROVE  Left(Released(Dropped(row, h)), h)
<1>. PICK ws : ws = row.waiters
  OBVIOUS
<1>. PICK t : t = At(ws, Others(ws, h))
  OBVIOUS
<1>. PICK r : r = Dropped(row, h)
  OBVIOUS
<1>1. r.waiters = t
  BY DroppedIs
<1>2. ws \in Seq(Waits)
  BY DEF Row
<1>3. t \in Seq(Waits) /\ \A i \in DOMAIN t : \E j \in DOMAIN ws : t[i] = ws[j] /\ ws[j].sid # h
  BY <1>2, OthersAt
<1>4. \A i \in DOMAIN t : t[i].sid # h
  BY <1>3
<1>5. CASE t = <<>>
  <2>1. Released(r) = NoRow
    BY <1>1, <1>5 DEF Released
  <2>2. DOMAIN NoRow.waiters = {}
    BY NoRowIs
  <2>. QED BY <2>1, <2>2, NoRowIs, NotSession DEF Left
<1>6. CASE t # <<>>
  <2>. PICK w : w = Head(t)
    OBVIOUS
  <2>. PICK u : u = Tail(t)
    OBVIOUS
  <2>1. Released(r) = Given(w, u)
    BY <1>1, <1>6 DEF Released
  <2>2. /\ w \in Waits /\ u \in Seq(Waits) /\ 1 \in DOMAIN t /\ w = t[1]
        /\ \A i \in DOMAIN u : i + 1 \in DOMAIN t /\ u[i] = t[i + 1]
    BY <1>3, <1>6
  <2>3. w.sid # h
    BY <1>4, <2>2
  <2>4. \A i \in DOMAIN u : u[i].sid # h
    BY <1>4, <2>2
  <2>5. Given(w, u).sid = w.sid /\ Given(w, u).waiters = u
    BY <2>2, GivenIs
  <2>6. Left(Given(w, u), h)
    BY ONLY <2>3, <2>4, <2>5 DEF Left
  <2>. QED BY <2>1, <2>6
<1>. QED BY <1>5, <1>6

(* A session that holds nothing and waits for nothing may end.             *)
LEMMA HyperOver ==
  ASSUME NEW x, RealmOK(x), NEW h \in HyperSession, Left(x.kv[LockUri], h)
  PROVE  LET y == SessionOver(x, h)
         IN /\ RealmOK(y) /\ y.lastId = x.lastId /\ y.history = x.history /\ y.mqtt = x.mqtt
            /\ y.kv = x.kv /\ y.hyper = [x.hyper EXCEPT ![h] = "over"]
<1>. PICK y : y = SessionOver(x, h)
  OBVIOUS
<1>. PICK v : v = [x.hyper EXCEPT ![h] = "over"]
  OBVIOUS
<1>1. x \in RealmRecord /\ RowsOK(x) /\ HistoryOK(x) /\ SessionsOK(x)
  BY DEF RealmOK
<1>2. x = [lastId |-> x.lastId, history |-> x.history, kv |-> x.kv, hyper |-> x.hyper,
           mqtt |-> x.mqtt]
  BY <1>1 DEF RealmRecord
<1>3. /\ x.lastId \in Nat /\ x.kv \in [Key -> Row]
      /\ x.hyper \in [HyperSession -> {"new", "in", "over"}]
      /\ x.mqtt \in [MqttClientSession -> MqttRecord] /\ x.history \in Seq(Entry)
  BY <1>1 DEF RealmRecord
<1>4. v \in [HyperSession -> {"new", "in", "over"}]
  BY <1>3
<1>5. y = [lastId |-> x.lastId, history |-> x.history, kv |-> x.kv, hyper |-> v,
           mqtt |-> x.mqtt]
  BY <1>2 DEF SessionOver
<1>6. y \in RealmRecord
  BY <1>3, <1>4, <1>5 DEF RealmRecord
<1>7. y.lastId = x.lastId /\ y.history = x.history /\ y.hyper = v /\ y.mqtt = x.mqtt
      /\ y.kv = x.kv
  BY <1>5
<1>8. \A g \in HyperSession : g # h => y.hyper[g] = x.hyper[g]
  BY <1>3, <1>7
<1>9. ASSUME NEW k \in Key PROVE RowOK(y, k, x.kv[k])
  <2>. PICK row : row = x.kv[k]
    OBVIOUS
  <2>. PICK ws : ws = row.waiters
    OBVIOUS
  <2>1. RowOK(x, k, row)
    BY <1>1 DEF RowsOK
  <2>2. ws \in Seq(Waits)
    BY <1>1, RowType
  <2>3. CASE k = LockUri
    <3>1. row.sid # h /\ \A i \in DOMAIN ws : ws[i].sid # h
      BY <2>3 DEF Left
    <3>2. ASSUME NEW i \in DOMAIN ws
          PROVE  y.hyper[ws[i].sid] = "in" /\ ws[i].id <= y.lastId
      <4>1. ws[i] \in Waits
        BY <2>2
      <4>2. ws[i].sid \in HyperSession /\ ws[i].sid # h
        BY <3>1, <4>1, WaitsIs
      <4>3. x.hyper[ws[i].sid] = "in" /\ ws[i].id <= x.lastId
        BY <2>1 DEF RowOK
      <4>. QED BY <1>7, <1>8, <4>2, <4>3
    <3>3. row # NoRow =>
            row.sid \in HyperSession /\ y.hyper[row.sid] = "in" /\ row.data = Object(row.sid)
      BY <1>8, <2>1, <2>3, <3>1 DEF RowOK
    <3>4. row.id <= y.lastId /\ (row = NoRow \/ row.data # Empty)
      BY <1>7, <2>1 DEF RowOK
    <3>5. k # OffsetUri
      BY <2>3, LockIsKey
    <3>6. \A i \in DOMAIN row.waiters :
            y.hyper[row.waiters[i].sid] = "in" /\ row.waiters[i].id <= y.lastId
      BY <3>2
    <3>. QED BY <2>3, <3>3, <3>4, <3>5, <3>6 DEF RowOK
  <2>4. CASE k # LockUri
    <3>1. ws = <<>> /\ row.sid = None
      BY <2>1, <2>4 DEF RowOK
    <3>2. DOMAIN row.waiters = {}
      BY <3>1
    <3>3. row.id <= y.lastId /\ (row = NoRow \/ row.data # Empty)
          /\ (k = OffsetUri => row.data \in Acked(y.lastId))
      BY <1>7, <2>1 DEF RowOK
    <3>. QED BY <2>4, <3>1, <3>2, <3>3 DEF RowOK
  <2>. QED BY <2>3, <2>4
<1>10. RowsOK(y) /\ HistoryOK(y) /\ SessionsOK(y)
  BY <1>1, <1>7, <1>9 DEF RowsOK, HistoryOK, SessionsOK
<1>. QED BY <1>6, <1>7, <1>10 DEF RealmOK

(* A Hyper session that ends gives the lock to the first of the others     *)
(* that wait for it, if it has it.                                         *)
Vacated(row, h) == IF row.sid = h THEN Released(Dropped(row, h)) ELSE Dropped(row, h)

HyperClosed(x, y, h) ==
  /\ RealmOK(y) /\ y.lastId >= x.lastId /\ y.hyper = [x.hyper EXCEPT ![h] = "over"]
  /\ y.kv[LockUri] = Vacated(x.kv[LockUri], h)
  /\ \/ y.history = x.history /\ y.mqtt = x.mqtt
     \/ LET e == Inbound(LockUri, Empty, h)
        IN /\ y.history = Traced(x, e)
           /\ y.mqtt = [m \in MqttClientSession |-> Told(x.mqtt[m], e, x.lastId + 1)]

(* What closing a Hyper session comes to.                                  *)
LEMMA HyperCloseDone ==
  ASSUME NEW x, RealmOK(x), NEW h \in HyperSession
  PROVE  HyperClosed(x, Cleanup(x, h), h)
<1>. PICK row : row = x.kv[LockUri]
  OBVIOUS
<1>. PICK d : d = DropWaiters(x, h)
  OBVIOUS
<1>. PICK e : e = Inbound(LockUri, Empty, h)
  OBVIOUS
<1>. PICK y : y = Cleanup(x, h)
  OBVIOUS
<1>1. /\ RealmOK(d) /\ d.lastId = x.lastId /\ d.history = x.history /\ d.hyper = x.hyper
      /\ d.mqtt = x.mqtt /\ d.kv[LockUri] = Dropped(row, h)
  BY DropDone
<1>2. row \in Row /\ x.lastId \in Nat
  <2>1. x \in RealmRecord
    BY DEF RealmOK
  <2>. QED BY <2>1, LockIsKey, RowType DEF RealmRecord
<1>3. h # None
  BY NotSession
<1>4. Dropped(row, h).sid = row.sid
  BY <1>2, DroppedIs
<1>5. y = SessionOver(EraseWills(d, h), h)
  BY DEF Cleanup, EraseSessionData, CleanupTrace, PublishWill
<1>6. CASE row.sid = h
  <2>. PICK z : z = DoPush(d, e)
    OBVIOUS
  <2>1. {k \in Key : d.kv[k].sid = h} = {LockUri}
    <3>1. d.kv[LockUri].sid = h
      BY <1>1, <1>4, <1>6
    <3>2. KeysOf(d, h) = {LockUri}
      BY <1>1, <1>3, <3>1, HeldKeys
    <3>. QED BY <3>2 DEF KeysOf
  <2>2. EraseWills(d, h) = z
    BY <2>1, EraseOne
  <2>3. Done(d, e, z, Released(d.kv[LockUri]))
    BY <1>1, EraseDone
  <2>4. /\ RealmOK(z) /\ z.hyper = d.hyper /\ z.history = Traced(d, e)
        /\ z.kv[LockUri] = Released(Dropped(row, h)) /\ z.lastId > d.lastId
        /\ z.mqtt = [m \in MqttClientSession |-> Told(d.mqtt[m], e, d.lastId + 1)]
    BY <1>1, <2>3 DEF Done
  <2>5. Left(z.kv[LockUri], h)
    BY <1>2, <2>4, ReleasedLeft
  <2>6. /\ RealmOK(y) /\ y.lastId = z.lastId /\ y.history = z.history /\ y.mqtt = z.mqtt
        /\ y.kv = z.kv /\ y.hyper = [z.hyper EXCEPT ![h] = "over"]
    <3>1. y = SessionOver(z, h)
      BY <1>5, <2>2
    <3>2. RealmOK(z)
      BY <2>4
    <3>. QED BY <2>5, <3>1, <3>2, HyperOver
  <2>7. Traced(d, e) = Traced(x, e)
    BY <1>1 DEF Traced
  <2>8. y.lastId >= x.lastId
    <3>1. y \in RealmRecord
      BY <2>6 DEF RealmOK
    <3>2. y.lastId \in Nat
      BY <3>1 DEF RealmRecord
    <3>. QED BY <1>1, <1>2, <2>4, <2>6, <3>2
  <2>9. Vacated(row, h) = Released(Dropped(row, h))
    BY <1>6 DEF Vacated
  <2>. QED BY <1>1, <2>4, <2>6, <2>7, <2>8, <2>9 DEF HyperClosed
<1>7. CASE row.sid # h
  <2>1. {k \in Key : d.kv[k].sid = h} = {}
    <3>1. d.kv[LockUri].sid # h
      BY <1>1, <1>4, <1>7
    <3>2. KeysOf(d, h) = {}
      BY <1>1, <1>3, <3>1, HeldKeys
    <3>. QED BY <3>2 DEF KeysOf
  <2>2. EraseWills(d, h) = d
    BY <2>1, EraseNone
  <2>3. Left(d.kv[LockUri], h)
    BY <1>1, <1>2, <1>7, DroppedLeft
  <2>4. /\ RealmOK(y) /\ y.lastId = d.lastId /\ y.history = d.history /\ y.mqtt = d.mqtt
        /\ y.kv = d.kv /\ y.hyper = [d.hyper EXCEPT ![h] = "over"]
    BY <1>1, <1>5, <2>2, <2>3, HyperOver
  <2>5. Vacated(row, h) = Dropped(row, h)
    BY <1>7 DEF Vacated
  <2>6. y.lastId >= x.lastId
    BY <1>1, <1>2, <2>4
  <2>. QED BY <1>1, <2>4, <2>5, <2>6 DEF HyperClosed
<1>. QED BY <1>6, <1>7

(* One MQTT session is changed, and nothing else.                          *)
WithMqtt(x, m, r) == [x EXCEPT !.mqtt[m] = r]

Changed(x, m, r, y) ==
  /\ RealmOK(y) /\ y.lastId = x.lastId /\ y.history = x.history /\ y.kv = x.kv
  /\ y.hyper = x.hyper
  /\ y.mqtt[m] = r /\ \A n \in MqttClientSession : n # m => y.mqtt[n] = x.mqtt[n]

LEMMA WithMqttIs ==
  ASSUME NEW x, RealmOK(x), NEW m \in MqttClientSession, NEW r \in MqttRecord,
         SessionOK(x.history, x.lastId, r)
  PROVE  Changed(x, m, r, WithMqtt(x, m, r))
<1>. PICK y : y = WithMqtt(x, m, r)
  OBVIOUS
<1>. PICK v : v = [x.mqtt EXCEPT ![m] = r]
  OBVIOUS
<1>1. x \in RealmRecord /\ RowsOK(x) /\ HistoryOK(x) /\ SessionsOK(x)
  BY DEF RealmOK
<1>2. x = [lastId |-> x.lastId, history |-> x.history, kv |-> x.kv, hyper |-> x.hyper,
           mqtt |-> x.mqtt]
  BY <1>1 DEF RealmRecord
<1>3. /\ x.lastId \in Nat /\ x.kv \in [Key -> Row]
      /\ x.hyper \in [HyperSession -> {"new", "in", "over"}]
      /\ x.mqtt \in [MqttClientSession -> MqttRecord] /\ x.history \in Seq(Entry)
  BY <1>1 DEF RealmRecord
<1>4. /\ v \in [MqttClientSession -> MqttRecord] /\ v[m] = r
      /\ \A n \in MqttClientSession : n # m => v[n] = x.mqtt[n]
  BY <1>3
<1>5. y = [lastId |-> x.lastId, history |-> x.history, kv |-> x.kv, hyper |-> x.hyper,
           mqtt |-> v]
  BY <1>2 DEF WithMqtt
<1>6. y \in RealmRecord
  BY <1>3, <1>4, <1>5 DEF RealmRecord
<1>7. y.lastId = x.lastId /\ y.history = x.history /\ y.hyper = x.hyper /\ y.mqtt = v
      /\ y.kv = x.kv
  BY <1>5
<1>8. ASSUME NEW k \in Key PROVE RowOK(y, k, y.kv[k])
  <2>1. RowOK(x, k, x.kv[k])
    BY <1>1 DEF RowsOK
  <2>. QED BY <1>7, <2>1 DEF RowOK
<1>9. SessionsOK(y)
  <2>1. ASSUME NEW n \in MqttClientSession PROVE SessionOK(y.history, y.lastId, y.mqtt[n])
    <3>1. SessionOK(x.history, x.lastId, x.mqtt[n])
      BY <1>1 DEF SessionsOK
    <3>2. y.mqtt[n] = r \/ y.mqtt[n] = x.mqtt[n]
      BY <1>4, <1>7
    <3>. QED BY <1>7, <3>1, <3>2
  <2>. QED BY <2>1 DEF SessionsOK
<1>10. RowsOK(y) /\ HistoryOK(y)
  BY <1>1, <1>7, <1>8 DEF RowsOK, HistoryOK
<1>11. RealmOK(y)
  BY <1>6, <1>9, <1>10 DEF RealmOK
<1>. QED BY <1>4, <1>7, <1>11 DEF Changed

(* What stays of a session when something is sent to it.                   *)
Same(r, t) == t.state = r.state /\ t.will = r.will /\ t.clean = r.clean

LEMMA ToldSame ==
  ASSUME NEW r \in MqttRecord, NEW e \in EventRecord, NEW n \in Nat
  PROVE  Same(r, Told(r, e, n))
<1>1. "live" \in Kind /\ e.trace \in BOOLEAN
  BY DEF Kind, EventRecord
<1>2. LET t == Got(r, n, "live", e.trace)
      IN t.state = r.state /\ t.will = r.will /\ t.clean = r.clean
  BY <1>1, GotIs
<1>. QED BY <1>2 DEF Same, Told

LEMMA DoneSame ==
  ASSUME NEW x, RealmOK(x), NEW e \in EventRecord, NEW y, NEW row, Done(x, e, y, row)
  PROVE  \A m \in MqttClientSession : Same(x.mqtt[m], y.mqtt[m])
<1>. SUFFICES ASSUME NEW m \in MqttClientSession PROVE Same(x.mqtt[m], y.mqtt[m])
  OBVIOUS
<1>1. x.mqtt[m] \in MqttRecord /\ x.lastId + 1 \in Nat
  BY DEF RealmOK, RealmRecord
<1>2. y.mqtt[m] = Told(x.mqtt[m], e, x.lastId + 1)
  BY DEF Done
<1>. QED BY <1>1, <1>2, ToldSame

LEMMA DropStill ==
  ASSUME NEW x, RealmOK(x), NEW m \in MqttClientSession
  PROVE  DropWaiters(x, m) = x
<1>. PICK y : y = DropWaiters(x, m)
  OBVIOUS
<1>1. x \in RealmRecord
  BY DEF RealmOK
<1>2. /\ y \in RealmRecord
      /\ y.lastId = x.lastId /\ y.history = x.history /\ y.hyper = x.hyper
      /\ y.mqtt = x.mqtt
      /\ y.kv = [k \in Key |-> Dropped(x.kv[k], m)]
  BY <1>1, DropIs
<1>3. ASSUME NEW k \in Key PROVE Dropped(x.kv[k], m) = x.kv[k]
  <2>. PICK row : row = x.kv[k]
    OBVIOUS
  <2>1. row \in Row /\ row.waiters \in Seq(Waits)
    BY <1>1, RowType
  <2>2. ASSUME NEW i \in DOMAIN row.waiters PROVE row.waiters[i].sid # m
    <3>1. row.waiters[i] \in Waits
      BY <2>1
    <3>2. row.waiters[i].sid \in HyperSession
      BY <3>1, WaitsIs
    <3>. QED BY <3>2, SessionAssumption
  <2>3. Dropped(row, m) = row
    BY <2>1, <2>2, DroppedSame
  <2>. QED BY <2>3
<1>4. y.kv = x.kv
  <2>1. x.kv = [k \in Key |-> x.kv[k]]
    BY <1>1 DEF RealmRecord
  <2>. QED BY <1>2, <1>3, <2>1
<1>5. y = x
  BY <1>1, <1>2, <1>4, SameRealm
<1>. QED BY <1>5

LEMMA NoKeys ==
  ASSUME NEW x, RealmOK(x), NEW m \in MqttClientSession
  PROVE  EraseWills(x, m) = x
<1>1. m # None /\ m \notin HyperSession
  BY SessionAssumption
<1>2. x \in RealmRecord
  BY DEF RealmOK
<1>3. \A k \in Key : x.kv[k].sid # m
  BY <1>1, <1>2, RowType
<1>4. {k \in Key : x.kv[k].sid = m} = {}
  BY <1>3
<1>. QED BY <1>4, EraseNone

(* The end of an MQTT session publishes its will.                          *)
MqttClosed(x, y, m) ==
  /\ RealmOK(y) /\ y.lastId >= x.lastId /\ y.hyper = x.hyper
  /\ y.history = IF x.mqtt[m].will = NoPacket THEN x.history
                 ELSE Traced(x, PublishCmd(x.mqtt[m].will, m))
  /\ y.kv[LockUri] = x.kv[LockUri] \/ y.kv[LockUri] = Released(x.kv[LockUri])
  /\ y.mqtt[m].state = "over" /\ y.mqtt[m].will = x.mqtt[m].will
  /\ y.mqtt[m].clean = x.mqtt[m].clean
  /\ \A n \in MqttClientSession : n # m => Same(x.mqtt[n], y.mqtt[n])

LEMMA PublishWillIs ==
  ASSUME NEW x, RealmOK(x), NEW m \in MqttClientSession
  PROVE  LET y == PublishWill(x, m)
         IN /\ RealmOK(y) /\ y.lastId >= x.lastId /\ y.hyper = x.hyper
            /\ y.history = IF x.mqtt[m].will = NoPacket THEN x.history
                           ELSE Traced(x, PublishCmd(x.mqtt[m].will, m))
            /\ y.kv[LockUri] = x.kv[LockUri] \/ y.kv[LockUri] = Released(x.kv[LockUri])
            /\ \A n \in MqttClientSession : Same(x.mqtt[n], y.mqtt[n])
<1>. PICK y : y = PublishWill(x, m)
  OBVIOUS
<1>. PICK p : p = x.mqtt[m].will
  OBVIOUS
<1>1. m \notin HyperSession
  BY SessionAssumption
<1>2. x.mqtt[m] \in MqttRecord /\ x.lastId \in Nat
  BY DEF RealmOK, RealmRecord
<1>3. p \in WillPacket \cup {NoPacket}
  BY <1>2 DEF MqttRecord
<1>4. CASE p = NoPacket
  <2>1. y = x
    BY <1>4 DEF PublishWill
  <2>2. x.lastId >= x.lastId
    BY <1>2
  <2>. QED BY <1>4, <2>1, <2>2 DEF Same
<1>5. CASE p # NoPacket
  <2>. PICK e : e = PublishCmd(p, m)
    OBVIOUS
  <2>1. p \in Packet \cup WillPacket
    BY <1>3, <1>5
  <2>2. y = DoPush(x, e)
    BY <1>1, <1>5 DEF PublishWill
  <2>3. e \in EventRecord
    BY <2>1, PublishCmdIs
  <2>4. Done(x, e, y, x.kv[LockUri]) \/ Done(x, e, y, Released(x.kv[LockUri]))
    BY <2>1, <2>2, PacketDone
  <2>. PICK row : Done(x, e, y, row) /\ (row = x.kv[LockUri] \/ row = Released(x.kv[LockUri]))
    BY <2>4
  <2>5. \A n \in MqttClientSession : Same(x.mqtt[n], y.mqtt[n])
    BY <2>3, DoneSame
  <2>6. RealmOK(y) /\ y.hyper = x.hyper /\ y.history = Traced(x, e) /\ y.kv[LockUri] = row
        /\ y.lastId > x.lastId
    BY DEF Done
  <2>7. y.lastId >= x.lastId
    <3>1. y.lastId \in Nat
      BY <2>6 DEF RealmOK, RealmRecord
    <3>. QED BY <1>2, <2>6, <3>1
  <2>. QED BY <1>5, <2>5, <2>6, <2>7
<1>. QED BY <1>4, <1>5

LEMMA NewMqttIs ==
  /\ NewMqtt \in MqttRecord /\ NewMqtt.state = "new" /\ NewMqtt.will = NoPacket
  /\ NewMqtt.last = Empty /\ NewMqtt.filters = <<>> /\ NewMqtt.after = 0 /\ NewMqtt.got = <<>>
  /\ NewMqtt.unacked = {} /\ ~NewMqtt.clean
<1>1. Empty \in Value /\ <<>> \in Seq(Message) /\ 0 \in Nat
  BY DEF Value
<1>2. NewMqtt \in MqttRecord
  BY <1>1 DEF NewMqtt, MqttRecord
<1>3. /\ NewMqtt.state = "new" /\ NewMqtt.will = NoPacket
      /\ NewMqtt.last = Empty /\ NewMqtt.filters = <<>> /\ NewMqtt.after = 0 /\ NewMqtt.got = <<>>
      /\ NewMqtt.unacked = {}
  BY DEF NewMqtt
<1>4. ~NewMqtt.clean
  BY DEF NewMqtt
<1>. QED BY <1>2, <1>3, <1>4

LEMMA FreshOK ==
  ASSUME NEW r \in MqttRecord, r.got = <<>>, r.unacked = {}, NEW n \in Nat, r.last \in Acked(n),
         r.after = 0 \/ r.state # "in", r.clean => r.will = NoPacket,
         Untouched(r), NEW sent
  PROVE  SessionOK(sent, n, r)
<1>1. DOMAIN r.got = {}
  OBVIOUS
<1>2. Complete(sent, r)
  BY DEF Complete
<1>3. LivesAscend(r)
  BY <1>1 DEF LivesAscend
<1>. QED BY <1>1, <1>2, <1>3 DEF SessionOK

(* What closing an MQTT session comes to.                                  *)
LEMMA MqttCloseDone ==
  ASSUME NEW x, RealmOK(x), NEW m \in MqttClientSession
  PROVE  MqttClosed(x, Cleanup(x, m), m)
<1>. PICK p : p = PublishWill(x, m)
  OBVIOUS
<1>. PICK r : r = p.mqtt[m]
  OBVIOUS
<1>. PICK q : q = [r EXCEPT !.filters = <<>>]
  OBVIOUS
<1>. PICK c : c = WithMqtt(p, m, q)
  OBVIOUS
<1>. PICK o : o = [NewMqtt EXCEPT !.state = "over", !.will = q.will, !.clean = q.clean]
  OBVIOUS
<1>. PICK y : y = Cleanup(x, m)
  OBVIOUS
<1>1. m \notin HyperSession
  BY SessionAssumption
<1>2. /\ RealmOK(p) /\ p.lastId >= x.lastId /\ p.hyper = x.hyper
      /\ p.history = IF x.mqtt[m].will = NoPacket THEN x.history
                     ELSE Traced(x, PublishCmd(x.mqtt[m].will, m))
      /\ p.kv[LockUri] = x.kv[LockUri] \/ p.kv[LockUri] = Released(x.kv[LockUri])
      /\ \A n \in MqttClientSession : Same(x.mqtt[n], p.mqtt[n])
  BY PublishWillIs
<1>3. p.lastId \in Nat /\ p.mqtt \in [MqttClientSession -> MqttRecord] /\ r \in MqttRecord
      /\ SessionOK(p.history, p.lastId, r)
  BY <1>2 DEF RealmOK, RealmRecord, SessionsOK
<1>4. /\ q \in MqttRecord
      /\ q.state = r.state /\ q.will = r.will /\ q.last = r.last /\ q.filters = <<>>
      /\ q.after = r.after /\ q.got = r.got /\ q.unacked = r.unacked
  BY <1>3 DEF MqttRecord
<1>5. q.clean = r.clean
  BY <1>3 DEF MqttRecord
<1>6. SessionOK(p.history, p.lastId, q)
  <2>1. /\ \A i \in DOMAIN r.got : r.got[i].id \in 0 .. p.lastId
        /\ r.last \in Acked(p.lastId)
        /\ r.unacked \subseteq DOMAIN r.got
        /\ LivesAscend(r)
        /\ r.clean => r.will = NoPacket
        /\ Untouched(r)
    BY <1>3 DEF SessionOK
  <2>2. ASSUME NEW u PROVE ~Fits(q, u)
    BY <1>4 DEF Fits
  <2>3. LivesAscend(q)
    BY <1>4, <2>1, LivesLike
  <2>4. Complete(p.history, q)
    BY <2>2 DEF Complete
  <2>5. Untouched(q)
    BY <1>4, <1>5, <2>1 DEF Untouched
  <2>6. q.clean => q.will = NoPacket
    BY <1>4, <1>5, <2>1
  <2>. QED BY <1>4, <2>1, <2>3, <2>4, <2>5, <2>6 DEF SessionOK
<1>7. /\ RealmOK(c) /\ c.lastId = p.lastId /\ c.history = p.history /\ c.kv = p.kv
      /\ c.hyper = p.hyper
      /\ c.mqtt[m] = q /\ \A n \in MqttClientSession : n # m => c.mqtt[n] = p.mqtt[n]
  <2>1. Changed(p, m, q, c)
    BY <1>2, <1>4, <1>6, WithMqttIs
  <2>. QED BY <2>1 DEF Changed
<1>8. c = CleanupTrace(p, m)
  <2>1. p.mqtt = [n \in MqttClientSession |-> p.mqtt[n]]
    BY <1>3
  <2>2. CleanupTrace(p, m) = [p EXCEPT !.mqtt[m].filters = <<>>]
    BY <1>1 DEF CleanupTrace
  <2>3. [p EXCEPT !.mqtt[m].filters = <<>>] = [p EXCEPT !.mqtt[m] = q]
    OBVIOUS
  <2>. QED BY <2>2, <2>3 DEF WithMqtt
<1>9. EraseSessionData(c, m) = c
  BY <1>7, DropStill, NoKeys DEF EraseSessionData
<1>10. y = WithMqtt(c, m, o)
  <2>1. y = SessionOver(c, m)
    BY <1>8, <1>9 DEF Cleanup
  <2>. QED BY <1>1, <1>7, <2>1 DEF SessionOver, WithMqtt
<1>11. /\ o \in MqttRecord /\ o.state = "over" /\ o.will = q.will /\ o.last = Empty
       /\ o.got = <<>> /\ o.unacked = {}
  <2>1. q.will \in WillPacket \cup {NoPacket} /\ q.clean \in BOOLEAN
    BY <1>4 DEF MqttRecord
  <2>. QED BY <2>1, NewMqttIs DEF MqttRecord
<1>12. o.clean = q.clean
  BY NewMqttIs DEF MqttRecord
<1>13. SessionOK(c.history, c.lastId, o)
  <2>1. q.clean => q.will = NoPacket
    BY <1>6 DEF SessionOK
  <2>2. o.clean => o.will = NoPacket
    BY <1>11, <1>12, <2>1
  <2>3. Empty \in Acked(c.lastId)
    BY DEF Acked
  <2>4. c.lastId \in Nat /\ o.state # "in" /\ o.state # "new"
    BY <1>3, <1>7, <1>11
  <2>5. Untouched(o)
    BY <2>4 DEF Untouched
  <2>. QED BY <1>11, <2>2, <2>3, <2>4, <2>5, FreshOK
<1>14. /\ RealmOK(y) /\ y.lastId = c.lastId /\ y.history = c.history /\ y.kv = c.kv
       /\ y.hyper = c.hyper
       /\ y.mqtt[m] = o /\ \A n \in MqttClientSession : n # m => y.mqtt[n] = c.mqtt[n]
  <2>1. Changed(c, m, o, y)
    BY <1>7, <1>10, <1>11, <1>13, WithMqttIs
  <2>. QED BY <2>1 DEF Changed
<1>15. y.lastId >= x.lastId /\ y.hyper = x.hyper /\ y.history = p.history /\ y.kv = p.kv
  BY <1>2, <1>7, <1>14
<1>16. \A n \in MqttClientSession : n # m => Same(x.mqtt[n], y.mqtt[n])
  <2>1. \A n \in MqttClientSession : n # m => y.mqtt[n] = p.mqtt[n]
    BY <1>7, <1>14
  <2>. QED BY <1>2, <2>1
<1>17. y.mqtt[m].state = "over" /\ y.mqtt[m].will = x.mqtt[m].will
  <2>1. r.will = x.mqtt[m].will
    BY <1>2 DEF Same
  <2>. QED BY <1>4, <1>11, <1>14, <2>1
<1>18. y.mqtt[m].clean = x.mqtt[m].clean
  <2>1. r.clean = x.mqtt[m].clean
    BY <1>2 DEF Same
  <2>2. y.mqtt[m].clean = o.clean
    BY <1>14
  <2>. QED BY <1>5, <1>12, <2>1, <2>2
<1>. QED BY <1>2, <1>14, <1>15, <1>16, <1>17, <1>18 DEF MqttClosed

-----------------------------------------------------------------------------
(* SUBSCRIBE. *)

LEMMA RealmIs ==
  /\ Realm.lastId = lastId /\ Realm.history = history /\ Realm.kv = kv
  /\ Realm.hyper = hyper /\ Realm.mqtt = mqtt
BY DEF Realm

(* What History and Retained list, as functions to the ids so far.         *)
LEMMA HistoryList ==
  ASSUME RealmOK(Realm), NEW f, NEW after
  PROVE  \E l \in Nat :
           /\ History(f, after) \in [1 .. l -> 0 .. lastId]
           /\ \A j \in DOMAIN history :
                history[j].id > after /\ Match(history[j].uri, f) =>
                  \E i \in 1 .. l : History(f, after)[i] = history[j].id
<1>. PICK P : P = {i \in DOMAIN history : history[i].id > after /\ Match(history[i].uri, f)}
  OBVIOUS
<1>. PICK c : c = Cardinality(P)
  OBVIOUS
<1>. PICK t : t = Sorted(P)
  OBVIOUS
<1>. PICK s : s = History(f, after)
  OBVIOUS
<1>. PICK h : h = history
  OBVIOUS
<1>1. h \in Seq(Entry) /\ \A i \in DOMAIN h : h[i].id \in 1 .. lastId
  BY RealmIs DEF RealmOK, RealmRecord, HistoryOK
<1>2. Len(h) \in Nat /\ DOMAIN h = 1 .. Len(h)
  BY <1>1
<1>3. P \in SUBSET (1 .. Len(h))
  BY <1>2
<1>4. /\ c \in Nat /\ t \in [1 .. c -> P]
      /\ \A i \in P : \E k \in 1 .. c : t[k] = i
  BY <1>2, <1>3, AtPlaces
<1>. PICK found : found = At(h, P)
  OBVIOUS
<1>5. found = [i \in 1 .. c |-> h[t[i]]]
  BY DEF At
<1>6. s = [i \in DOMAIN found |-> found[i].id]
  BY DEF History
<1>7. s = [i \in 1 .. c |-> h[t[i]].id]
  BY <1>5, <1>6
<1>8. ASSUME NEW i \in 1 .. c PROVE h[t[i]].id \in 0 .. lastId
  <2>1. t[i] \in DOMAIN h
    BY <1>2, <1>3, <1>4
  <2>2. h[t[i]].id \in 1 .. lastId
    BY <1>1, <2>1
  <2>. QED BY <2>2
<1>9. s \in [1 .. c -> 0 .. lastId]
  BY <1>7, <1>8
<1>10. ASSUME NEW j \in DOMAIN h, h[j].id > after, Match(h[j].uri, f)
       PROVE  \E i \in 1 .. c : s[i] = h[j].id
  <2>1. j \in P
    BY <1>10
  <2>2. PICK k \in 1 .. c : t[k] = j
    BY <1>4, <2>1
  <2>3. s[k] = h[j].id
    BY <1>7, <2>2
  <2>. QED BY <2>3
<1>. QED BY <1>4, <1>9, <1>10

LEMMA RetainedList ==
  ASSUME RealmOK(Realm), NEW f
  PROVE  \E l \in Nat : Retained(f) \in [1 .. l -> 0 .. lastId]
<1>. PICK P : P = {kv[k].id : k \in {k \in Key : kv[k].data # Empty /\ Match(k, f)}}
  OBVIOUS
<1>. PICK n : n = lastId
  OBVIOUS
<1>1. n \in Nat
  BY RealmIs DEF RealmOK, RealmRecord
<1>2. ASSUME NEW k \in Key PROVE kv[k].id \in 0 .. n
  <2>1. Realm \in RealmRecord /\ RowOK(Realm, k, kv[k])
    BY RealmIs DEF RealmOK, RowsOK
  <2>2. kv[k].id \in Nat
    BY <2>1, RowType, RealmIs
  <2>3. kv[k].id <= n
    BY <2>1, RealmIs DEF RowOK
  <2>. QED BY <1>1, <2>2, <2>3
<1>3. P \subseteq 0 .. n
  BY <1>2
<1>4. IsFiniteSet(P)
  <2>1. IsFiniteSet(0 .. n)
    BY <1>1, FS_Interval
  <2>. QED BY <1>3, <2>1, FS_Subset
<1>5. P \in SUBSET Nat
  BY <1>1, <1>3
<1>6. Cardinality(P) \in Nat
  BY <1>4, FS_CardinalityType
<1>7. Sorted(P) \in [1 .. Cardinality(P) -> P]
  BY <1>4, <1>5, SortedAscends
<1>8. Sorted(P) \in [1 .. Cardinality(P) -> 0 .. n]
  BY <1>3, <1>7
<1>9. Retained(f) = Sorted(P)
  BY DEF Retained
<1>. QED BY <1>6, <1>8, <1>9

(* A session to which something was replayed.                              *)
Basic(n, r) ==
  /\ \A i \in DOMAIN r.got : r.got[i].id \in 0 .. n
  /\ r.last \in Acked(n)
  /\ r.unacked \subseteq DOMAIN r.got
  /\ LivesAscend(r)
  /\ r.clean => r.will = NoPacket
  /\ Untouched(r)

LEMMA BasicIs ==
  ASSUME NEW sent, NEW n, NEW r
  PROVE  SessionOK(sent, n, r) <=> Basic(n, r) /\ Complete(sent, r)
BY DEF SessionOK, Basic

LEMMA SinceBasic ==
  ASSUME NEW n \in Nat, NEW r \in MqttRecord, Basic(n, r), NEW t, Since(r, t, 0 .. n)
  PROVE  t \in MqttRecord /\ Basic(n, t) /\ Same(r, t) /\ t.filters = r.filters /\ t.after = r.after
<1>. PICK s : s = r.got
  OBVIOUS
<1>. PICK u : u = t.got
  OBVIOUS
<1>. PICK a : a = Len(s)
  OBVIOUS
<1>. PICK b : b = Len(u)
  OBVIOUS
<1>1. t \in MqttRecord
  BY DEF Since
<1>2. a \in Nat /\ DOMAIN s = 1 .. a /\ b \in Nat /\ DOMAIN u = 1 .. b
  BY <1>1, GotType
<1>3. /\ a <= b
      /\ \A i \in 1 .. a : u[i] = s[i]
      /\ \A i \in a + 1 .. b : u[i].kind # "live" /\ u[i].id \in 0 .. n
      /\ t.last = r.last \/ \E j \in DOMAIN u : t.last = Text(u[j].id) /\ u[j].id \in 0 .. n
  BY DEF Since
<1>4. ASSUME NEW i \in DOMAIN u PROVE u[i].id \in 0 .. n
  <2>1. CASE i \in 1 .. a
    <3>1. s[i].id \in 0 .. n
      BY <1>2, <2>1 DEF Basic
    <3>. QED BY <1>3, <2>1, <3>1
  <2>2. CASE i \in a + 1 .. b
    BY <1>3, <2>2
  <2>3. i \in 1 .. a \/ i \in a + 1 .. b
    BY <1>2
  <2>. QED BY <2>1, <2>2, <2>3
<1>5. t.last \in Acked(n)
  BY <1>3 DEF Basic, Acked
<1>6. t.unacked \subseteq DOMAIN u
  <2>1. t.unacked = r.unacked /\ r.unacked \subseteq 1 .. a
    BY <1>2 DEF Since, Basic
  <2>. QED BY <1>2, <1>3, <2>1
<1>7. LivesAscend(t)
  <2> SUFFICES ASSUME NEW i \in DOMAIN u, NEW j \in DOMAIN u, i < j,
                      u[i].kind = "live", u[j].kind = "live"
               PROVE  u[i].id < u[j].id
    BY DEF LivesAscend
  <2>1. i \in 1 .. a /\ j \in 1 .. a
    BY <1>2, <1>3
  <2>2. s[i].kind = "live" /\ s[j].kind = "live"
    BY <1>3, <2>1
  <2>3. s[i].id < s[j].id
    BY <1>2, <2>1, <2>2 DEF Basic, LivesAscend
  <2>. QED BY <1>3, <2>1, <2>3
<1>8. Same(r, t) /\ t.filters = r.filters /\ t.after = r.after
  BY DEF Since, Same
<1>9. t.clean = r.clean /\ t.will = r.will /\ t.state = r.state
  BY DEF Since
<1>10. (t.clean => t.will = NoPacket) /\ Untouched(t)
  BY <1>8, <1>9 DEF Basic, Untouched
<1>. QED BY <1>1, <1>4, <1>5, <1>6, <1>7, <1>8, <1>10 DEF Basic

(* What SUBSCRIBE makes of a session. *)
Subscribed(r, fs, after) == [r EXCEPT !.filters = fs, !.after = after]
HistoryLists(fs, after) == [i \in DOMAIN fs |-> History(fs[i], after)]
RetainedLists(fs) == [i \in DOMAIN fs |-> Retained(fs[i])]
Passed(r, fs, after) ==
  IF after = 0 THEN Subscribed(r, fs, after)
  ELSE Replay(Subscribed(r, fs, after), "history", HistoryLists(fs, after))
Served(r, fs, after) == Replay(Passed(r, fs, after), "retained", RetainedLists(fs))
After(r) == IF r.last = Empty THEN 0 ELSE r.last.id

(* All ids of all lists were written.                                      *)
HasAll(m, n, c, lists) == \A k \in 1 .. c : \A i \in DOMAIN lists[k] : Has(m, n, lists[k][i])

LEMMA ReplayHas ==
  ASSUME NEW S \in SUBSET Nat, NEW m \in MqttRecord, NEW c \in Nat,
         NEW lists, Lists(c, lists, S), NEW kind \in Kind, kind # "live"
  PROVE  Since(m, Replay(m, kind, lists), S) /\ HasAll(m, Replay(m, kind, lists), c, lists)
BY ReplaySince DEF HasAll

(* SUBSCRIBE leaves a session in order: what is dropped of the replay was  *)
(* written to this connection already.                                     *)
LEMMA ServedOK ==
  ASSUME RealmOK(Realm), NEW m \in MqttClientSession, mqtt[m].state = "in",
         mqtt[m].last = Empty \/ IsMarker(mqtt[m].last), NEW fs \in Filters
  PROVE  LET t == Served(mqtt[m], fs, After(mqtt[m]))
         IN t \in MqttRecord /\ SessionOK(history, lastId, t) /\ Same(mqtt[m], t)
<1>. PICK r : r = mqtt[m]
  OBVIOUS
<1>. PICK h : h = history
  OBVIOUS
<1>. PICK n : n = lastId
  OBVIOUS
<1>. PICK after : after = After(r)
  OBVIOUS
<1>. PICK r1 : r1 = Subscribed(r, fs, after)
  OBVIOUS
<1>. PICK r2 : r2 = Passed(r, fs, after)
  OBVIOUS
<1>. PICK t : t = Served(r, fs, after)
  OBVIOUS
<1>. PICK l1 : l1 = HistoryLists(fs, after)
  OBVIOUS
<1>. PICK l2 : l2 = RetainedLists(fs)
  OBVIOUS
<1>. PICK S : S = 0 .. n
  OBVIOUS
<1>1. /\ n \in Nat /\ r \in MqttRecord /\ SessionOK(h, n, r)
      /\ \A i \in DOMAIN h : h[i].id \in 1 .. n
  BY RealmIs DEF RealmOK, RealmRecord, SessionsOK, HistoryOK
<1>2. /\ after \in Nat
      /\ \A id \in Nat : after # 0 /\ r.last = Text(id) => after = id
  <2>1. CASE r.last = Empty
    <3>1. after = 0
      BY <2>1 DEF After
    <3>. QED BY <3>1
  <2>2. CASE r.last # Empty
    <3>1. r.last \in Acked(n) /\ r.last.kind = "text"
      BY <1>1, <2>2 DEF SessionOK, IsMarker
    <3>2. Letters.kind # "text"
      BY DEF Letters
    <3>3. PICK i \in 0 .. n : r.last = Text(i)
      BY <2>2, <3>1, <3>2 DEF Acked
    <3>4. after = i
      <4>1. after = r.last.id
        BY <2>2 DEF After
      <4>. QED BY <3>3, <4>1, Values
    <3>5. \A id \in Nat : r.last = Text(id) => id = i
      BY <3>3 DEF Text
    <3>. QED BY <3>3, <3>4, <3>5
  <2>. QED BY <2>1, <2>2
<1>3. PICK c \in Nat : DOMAIN fs = 1 .. c
  <2>1. fs \in Seq(Seq(STRING))
    BY FilterAssumption
  <2>2. Len(fs) \in Nat /\ DOMAIN fs = 1 .. Len(fs)
    BY <2>1
  <2>. QED BY <2>2
<1>4. /\ r1 \in MqttRecord /\ r1.filters = fs /\ r1.after = after
      /\ r1.state = r.state /\ r1.will = r.will /\ r1.last = r.last /\ r1.got = r.got
      /\ r1.unacked = r.unacked
  BY <1>1, <1>2 DEF Subscribed, MqttRecord
<1>5. r1.clean = r.clean
  BY <1>1 DEF Subscribed, MqttRecord
<1>6. Basic(n, r1) /\ Same(r, r1)
  <2>1. Basic(n, r)
    BY <1>1, BasicIs
  <2>2. Untouched(r1)
    BY <1>4 DEF Untouched
  <2>3. LivesAscend(r1)
    BY <1>4, <2>1 DEF Basic, LivesAscend
  <2>. QED BY <1>4, <1>5, <2>1, <2>2, <2>3 DEF Basic, Same
<1>7. S \in SUBSET Nat
  BY <1>1
<1>8. Lists(c, l1, S)
  <2>1. \A k \in 1 .. c : \E l \in Nat : l1[k] \in [1 .. l -> S]
    <3> SUFFICES ASSUME NEW k \in 1 .. c PROVE \E l \in Nat : l1[k] \in [1 .. l -> S]
      OBVIOUS
    <3>1. PICK l \in Nat : History(fs[k], after) \in [1 .. l -> 0 .. lastId]
      BY HistoryList
    <3>2. l1[k] = History(fs[k], after)
      BY <1>3 DEF HistoryLists
    <3>. QED BY <3>1, <3>2
  <2>2. l1 = [k \in 1 .. c |-> l1[k]]
    BY <1>3 DEF HistoryLists
  <2>. QED BY <2>1, <2>2 DEF Lists
<1>9. Lists(c, l2, S)
  <2>1. \A k \in 1 .. c : \E l \in Nat : l2[k] \in [1 .. l -> S]
    <3> SUFFICES ASSUME NEW k \in 1 .. c PROVE \E l \in Nat : l2[k] \in [1 .. l -> S]
      OBVIOUS
    <3>1. PICK l \in Nat : Retained(fs[k]) \in [1 .. l -> 0 .. lastId]
      BY RetainedList
    <3>2. l2[k] = Retained(fs[k])
      BY <1>3 DEF RetainedLists
    <3>. QED BY <3>1, <3>2
  <2>2. l2 = [k \in 1 .. c |-> l2[k]]
    BY <1>3 DEF RetainedLists
  <2>. QED BY <2>1, <2>2 DEF Lists
<1>10. /\ Since(r1, r2, S)
       /\ after # 0 => HasAll(r1, r2, c, l1)
  <2>1. CASE after = 0
    <3>1. r2 = r1
      BY <2>1 DEF Passed
    <3>. QED BY <1>4, <2>1, <3>1, SinceStill
  <2>2. CASE after # 0
    <3>. PICK kind : kind = "history"
      OBVIOUS
    <3>1. r2 = Replay(r1, kind, l1)
      BY <2>2 DEF Passed
    <3>2. kind \in Kind /\ kind # "live"
      BY DEF Kind
    <3>3. Since(r1, Replay(r1, kind, l1), S) /\ HasAll(r1, Replay(r1, kind, l1), c, l1)
      BY <1>4, <1>7, <1>8, <3>2, ReplayHas
    <3>. QED BY <3>1, <3>3
  <2>. QED BY <2>1, <2>2
<1>11. Since(r2, t, S)
  <2>. PICK kind : kind = "retained"
    OBVIOUS
  <2>1. t = Replay(r2, kind, l2)
    BY DEF Served
  <2>2. kind \in Kind /\ kind # "live"
    BY DEF Kind
  <2>3. r2 \in MqttRecord
    BY <1>10 DEF Since
  <2>4. Since(r2, Replay(r2, kind, l2), S)
    BY <1>7, <1>9, <2>2, <2>3, ReplaySince
  <2>. QED BY <2>1, <2>4
<1>12. /\ Since(r1, t, S)
       /\ \A id : Has(r1, r2, id) => Has(r1, t, id)
  BY <1>4, <1>10, <1>11, SinceThen
<1>13. t \in MqttRecord /\ Basic(n, t) /\ Same(r1, t) /\ t.filters = fs /\ t.after = after
  <2>1. Since(r1, t, 0 .. n)
    BY <1>12
  <2>. QED BY <1>1, <1>4, <1>6, <2>1, SinceBasic
<1>14. Complete(h, t)
  <2> SUFFICES ASSUME t.after # 0, NEW j \in DOMAIN h, h[j].id > t.after, Fits(t, h[j].uri)
               PROVE  \E i \in DOMAIN t.got : t.got[i].id = h[j].id
    BY DEF Complete
  <2>1. PICK k \in 1 .. c : Match(h[j].uri, fs[k])
    BY <1>3, <1>13 DEF Fits
  <2>2. PICK l \in Nat :
          /\ History(fs[k], after) \in [1 .. l -> 0 .. lastId]
          /\ \A q \in DOMAIN history :
               history[q].id > after /\ Match(history[q].uri, fs[k]) =>
                 \E i \in 1 .. l : History(fs[k], after)[i] = history[q].id
    BY HistoryList
  <2>3. l1[k] = History(fs[k], after)
    BY <1>3 DEF HistoryLists
  <2>4. PICK i \in 1 .. l : l1[k][i] = h[j].id
    BY <1>13, <2>1, <2>2, <2>3
  <2>5. i \in DOMAIN l1[k]
    BY <2>2, <2>3
  <2>6. Has(r1, t, h[j].id)
    BY <1>10, <1>12, <1>13, <2>4, <2>5 DEF HasAll
  <2>7. r1.last # Text(h[j].id)
    <3>1. h[j].id \in Nat
      BY <1>1
    <3>. QED BY <1>2, <1>4, <1>13, <3>1
  <2>. QED BY <2>6, <2>7 DEF Has
<1>15. SessionOK(h, n, t) /\ Same(r, t)
  BY <1>6, <1>13, <1>14, BasicIs DEF Same
<1>. QED BY <1>13, <1>15

-----------------------------------------------------------------------------
(* What each action does. *)

LEMMA Became ==
  ASSUME NEW y \in RealmRecord, Become(y)
  PROVE  y = Realm' /\ lastId' <= MaxId
BY DEF Become, Realm, RealmRecord

(* Login: a session is there.                                              *)
Joined(x, y, h) ==
  /\ RealmOK(y) /\ y.lastId = x.lastId /\ y.history = x.history /\ y.kv = x.kv
  /\ y.mqtt = x.mqtt /\ y.hyper = [x.hyper EXCEPT ![h] = "in"]

LEMMA LoginStep ==
  ASSUME RealmOK(Realm), NEW h \in HyperSession, Login(h)
  PROVE  Joined(Realm, Realm', h) /\ Realm.hyper[h] = "new" /\ lastId' <= MaxId
<1>. PICK x : x = Realm
  OBVIOUS
<1>. PICK y : y = [x EXCEPT !.hyper[h] = "in"]
  OBVIOUS
<1>. PICK v : v = [x.hyper EXCEPT ![h] = "in"]
  OBVIOUS
<1>1. hyper[h] = "new" /\ Become(y)
  BY DEF Login
<1>2. x \in RealmRecord /\ RowsOK(x) /\ HistoryOK(x) /\ SessionsOK(x)
  BY DEF RealmOK
<1>3. x = [lastId |-> x.lastId, history |-> x.history, kv |-> x.kv, hyper |-> x.hyper,
           mqtt |-> x.mqtt]
  BY <1>2 DEF RealmRecord
<1>4. /\ x.lastId \in Nat /\ x.kv \in [Key -> Row]
      /\ x.hyper \in [HyperSession -> {"new", "in", "over"}]
      /\ x.mqtt \in [MqttClientSession -> MqttRecord] /\ x.history \in Seq(Entry)
  BY <1>2 DEF RealmRecord
<1>5. v \in [HyperSession -> {"new", "in", "over"}]
      /\ \A g \in HyperSession : x.hyper[g] = "in" => v[g] = "in"
  BY <1>4
<1>6. y = [lastId |-> x.lastId, history |-> x.history, kv |-> x.kv, hyper |-> v,
           mqtt |-> x.mqtt]
  BY <1>3
<1>7. y \in RealmRecord
  BY <1>4, <1>5, <1>6 DEF RealmRecord
<1>8. y.lastId = x.lastId /\ y.history = x.history /\ y.hyper = v /\ y.mqtt = x.mqtt
      /\ y.kv = x.kv
  BY <1>6
<1>9. ASSUME NEW k \in Key PROVE RowOK(y, k, x.kv[k])
  <2>. PICK row : row = x.kv[k]
    OBVIOUS
  <2>. PICK ws : ws = row.waiters
    OBVIOUS
  <2>1. RowOK(x, k, row)
    BY <1>2 DEF RowsOK
  <2>2. ws \in Seq(Waits)
    BY <1>2, RowType
  <2>3. ASSUME NEW i \in DOMAIN ws
        PROVE  y.hyper[ws[i].sid] = "in" /\ ws[i].id <= y.lastId
    <3>1. ws[i] \in Waits
      BY <2>2
    <3>2. ws[i].sid \in HyperSession
      BY <3>1, WaitsIs
    <3>3. x.hyper[ws[i].sid] = "in" /\ ws[i].id <= x.lastId
      BY <2>1 DEF RowOK
    <3>. QED BY <1>5, <1>8, <3>2, <3>3
  <2>4. k = LockUri /\ row # NoRow =>
          row.sid \in HyperSession /\ y.hyper[row.sid] = "in" /\ row.data = Object(row.sid)
    BY <1>5, <1>8, <2>1 DEF RowOK
  <2>5. /\ row.id <= y.lastId /\ (row = NoRow \/ row.data # Empty)
        /\ k # LockUri => row.sid = None /\ row.waiters = <<>>
        /\ k = OffsetUri => row.data \in Acked(y.lastId)
    BY <1>8, <2>1 DEF RowOK
  <2>6. \A i \in DOMAIN row.waiters :
          y.hyper[row.waiters[i].sid] = "in" /\ row.waiters[i].id <= y.lastId
    BY <2>3
  <2>. QED BY <2>4, <2>5, <2>6 DEF RowOK
<1>10. RowsOK(y) /\ HistoryOK(y) /\ SessionsOK(y)
  BY <1>2, <1>8, <1>9 DEF RowsOK, HistoryOK, SessionsOK
<1>11. Joined(x, y, h)
  BY <1>7, <1>8, <1>10 DEF Joined, RealmOK
<1>12. y = Realm' /\ lastId' <= MaxId
  BY <1>1, <1>7, Became
<1>. QED BY <1>1, <1>11, <1>12, RealmIs

(* How a push changes the key of the lock.                                 *)
LockMoved(row, new, h, n) ==
  \/ row = NoRow /\ new = Held(h, n)
  \/ row # NoRow /\ new = Queued(row, LockEvent(h, n))
  \/ new = row
  \/ new = Released(row)

Pushed(x, y, h) ==
  \E e \in EventRecord : \E row :
    Done(x, e, y, row) /\ ~e.trace /\ LockMoved(x.kv[LockUri], row, h, x.lastId + 1)

LEMMA PushStep ==
  ASSUME RealmOK(Realm), NEW h \in HyperSession, Push(h)
  PROVE  Pushed(Realm, Realm', h) /\ Realm.hyper[h] = "in" /\ lastId' <= MaxId
<1>. PICK x : x = Realm
  OBVIOUS
<1>. PICK old : old = x.kv[LockUri]
  OBVIOUS
<1>. PICK n : n = x.lastId + 1
  OBVIOUS
<1>1. PICK e \in {Lock(h), TryLock(h), Unlock(h)} : Become(DoPush(x, e))
  BY DEF Push
<1>. PICK y : y = DoPush(x, e)
  OBVIOUS
<1>2. RealmOK(x) /\ x.hyper[h] = "in"
  BY RealmIs DEF Push
<1>3. e \in EventRecord /\ ~e.trace
  <2>1. Lock(h) \in EventRecord /\ TryLock(h) \in EventRecord /\ Unlock(h) \in EventRecord
    BY HyperEvents
  <2>2. ~Lock(h).trace
    BY HyperEvents
  <2>3. ~TryLock(h).trace
    BY HyperEvents
  <2>4. ~Unlock(h).trace
    BY HyperEvents
  <2>. QED BY <2>1, <2>2, <2>3, <2>4
<1>4. CASE e \in {Lock(h), TryLock(h)} /\ old = NoRow
  <2>1. Done(x, e, y, Held(h, n))
    BY <1>2, <1>4, AcquireDone
  <2>2. LockMoved(old, Held(h, n), h, n)
    BY <1>4 DEF LockMoved
  <2>3. Pushed(x, y, h)
    BY <1>3, <2>1, <2>2 DEF Pushed
  <2>4. y \in RealmRecord
    BY <2>1 DEF Done, RealmOK
  <2>5. y = Realm' /\ lastId' <= MaxId
    BY <1>1, <2>4, Became
  <2>. QED BY <1>2, <2>3, <2>5
<1>5. CASE e = Lock(h) /\ old # NoRow
  <2>1. Done(x, Lock(h), DoPush(x, Lock(h)), Queued(old, LockEvent(h, n)))
    BY <1>2, <1>5, AwaitDone
  <2>2. LockMoved(old, Queued(old, LockEvent(h, n)), h, n)
    BY <1>5 DEF LockMoved
  <2>3. Pushed(x, y, h)
    BY <1>3, <1>5, <2>1, <2>2 DEF Pushed
  <2>4. y \in RealmRecord
    BY <1>5, <2>1 DEF Done, RealmOK
  <2>5. y = Realm' /\ lastId' <= MaxId
    BY <1>1, <2>4, Became
  <2>. QED BY <1>2, <2>3, <2>5
<1>6. CASE e = TryLock(h) /\ old # NoRow
  <2>1. Done(x, TryLock(h), DoPush(x, TryLock(h)), old)
    BY <1>2, <1>6, RefusedDone
  <2>2. LockMoved(old, old, h, n)
    BY DEF LockMoved
  <2>3. Pushed(x, y, h)
    BY <1>3, <1>6, <2>1, <2>2 DEF Pushed
  <2>4. y \in RealmRecord
    BY <1>6, <2>1 DEF Done, RealmOK
  <2>5. y = Realm' /\ lastId' <= MaxId
    BY <1>1, <2>4, Became
  <2>. QED BY <1>2, <2>3, <2>5
<1>7. CASE e = Unlock(h)
  <2>1. Done(x, Unlock(h), DoPush(x, Unlock(h)), Released(old))
    BY <1>2, UnlockDone
  <2>2. LockMoved(old, Released(old), h, n)
    BY DEF LockMoved
  <2>3. Pushed(x, y, h)
    BY <1>3, <1>7, <2>1, <2>2 DEF Pushed
  <2>4. y \in RealmRecord
    BY <1>7, <2>1 DEF Done, RealmOK
  <2>5. y = Realm' /\ lastId' <= MaxId
    BY <1>1, <2>4, Became
  <2>. QED BY <1>2, <2>3, <2>5
<1>. QED BY <1>4, <1>5, <1>6, <1>7

LEMMA HyperCloseStep ==
  ASSUME RealmOK(Realm), NEW h \in HyperSession, Close(h)
  PROVE  HyperClosed(Realm, Realm', h) /\ Realm.hyper[h] = "in" /\ lastId' <= MaxId
<1>. PICK x : x = Realm
  OBVIOUS
<1>. PICK y : y = Cleanup(x, h)
  OBVIOUS
<1>1. Become(y) /\ IsActive(x, h)
  BY DEF Close
<1>2. x.hyper[h] = "in"
  BY <1>1 DEF IsActive
<1>3. HyperClosed(x, y, h)
  BY HyperCloseDone
<1>4. y \in RealmRecord
  BY <1>3 DEF HyperClosed, RealmOK
<1>5. y = Realm' /\ lastId' <= MaxId
  BY <1>1, <1>4, Became
<1>. QED BY <1>2, <1>3, <1>5

LEMMA MqttCloseStep ==
  ASSUME RealmOK(Realm), NEW m \in MqttClientSession, Close(m)
  PROVE  MqttClosed(Realm, Realm', m) /\ Realm.mqtt[m].state = "in" /\ lastId' <= MaxId
<1>. PICK x : x = Realm
  OBVIOUS
<1>. PICK y : y = Cleanup(x, m)
  OBVIOUS
<1>1. m \notin HyperSession
  BY SessionAssumption
<1>2. Become(y) /\ IsActive(x, m)
  BY DEF Close
<1>3. x.mqtt[m].state = "in"
  BY <1>1, <1>2 DEF IsActive
<1>4. MqttClosed(x, y, m)
  BY MqttCloseDone
<1>5. y \in RealmRecord
  BY <1>4 DEF MqttClosed, RealmOK
<1>6. y = Realm' /\ lastId' <= MaxId
  BY <1>2, <1>5, Became
<1>. QED BY <1>3, <1>4, <1>6

LEMMA ConnectStep ==
  ASSUME RealmOK(Realm), NEW m \in MqttClientSession, Connect(m)
  PROVE  /\ \E r \in MqttRecord :
              Changed(Realm, m, r, Realm') /\ r.state = "in" /\ ~r.clean
         /\ Realm.mqtt[m].state = "new" /\ lastId' <= MaxId
<1>. PICK x : x = Realm
  OBVIOUS
<1>. PICK r0 : r0 = x.mqtt[m]
  OBVIOUS
<1>. PICK last : last = kv[OffsetUri].data
  OBVIOUS
<1>1. PICK will \in WillPacket \cup {NoPacket} :
        Become([Realm EXCEPT !.mqtt[m] =
                  [@ EXCEPT !.state = "in", !.will = will, !.last = kv[OffsetUri].data]])
  BY DEF Connect
<1>. PICK r : r = [r0 EXCEPT !.state = "in", !.will = will, !.last = last]
  OBVIOUS
<1>2. Become(WithMqtt(x, m, r))
  BY <1>1 DEF WithMqtt
<1>3. r0.state = "new"
  BY RealmIs DEF Connect
<1>4. /\ x.lastId \in Nat /\ r0 \in MqttRecord /\ SessionOK(x.history, x.lastId, r0)
      /\ \A k \in Key : RowOK(x, k, x.kv[k])
  BY DEF RealmOK, RealmRecord, SessionsOK, RowsOK
<1>5. last \in Acked(x.lastId)
  BY <1>4, LockIsKey, RealmIs DEF RowOK
<1>6. last \in Value
  <2>1. \A i \in 0 .. x.lastId : i \in Nat
    BY <1>4
  <2>. QED BY <1>5, <2>1 DEF Acked, Value
<1>7. r0.after = 0 /\ ~r0.clean
  BY <1>3, <1>4 DEF SessionOK, Untouched
<1>8. /\ r \in MqttRecord /\ r.state = "in" /\ r.after = r0.after /\ r.last = last
      /\ r.got = r0.got /\ r.unacked = r0.unacked
  BY <1>4, <1>6 DEF MqttRecord
<1>9. r.clean = r0.clean
  BY <1>4 DEF MqttRecord
<1>10. ~r.clean
  BY <1>7, <1>9
<1>11. SessionOK(x.history, x.lastId, r)
  <2>1. /\ \A i \in DOMAIN r0.got : r0.got[i].id \in 0 .. x.lastId
        /\ r0.unacked \subseteq DOMAIN r0.got
        /\ LivesAscend(r0)
    BY <1>4 DEF SessionOK
  <2>2. LivesAscend(r)
    BY <1>8, <2>1 DEF LivesAscend
  <2>3. Complete(x.history, r)
    BY <1>7, <1>8 DEF Complete
  <2>4. Untouched(r)
    BY <1>8 DEF Untouched
  <2>. QED BY <1>5, <1>8, <1>10, <2>1, <2>2, <2>3, <2>4 DEF SessionOK
<1>12. Changed(x, m, r, WithMqtt(x, m, r))
  BY <1>8, <1>11, WithMqttIs
<1>13. WithMqtt(x, m, r) = Realm' /\ lastId' <= MaxId
  <2>1. WithMqtt(x, m, r) \in RealmRecord
    BY <1>12 DEF Changed, RealmOK
  <2>. QED BY <1>2, <2>1, Became
<1>. QED BY <1>3, <1>8, <1>10, <1>12, <1>13

LEMMA SubscribeStep ==
  ASSUME RealmOK(Realm), NEW m \in MqttClientSession, Subscribe(m)
  PROVE  /\ \E r \in MqttRecord : Changed(Realm, m, r, Realm') /\ Same(Realm.mqtt[m], r)
         /\ lastId' <= MaxId
<1>. PICK x : x = Realm
  OBVIOUS
<1>. PICK r0 : r0 = mqtt[m]
  OBVIOUS
<1>1. r0.state = "in" /\ (r0.last = Empty \/ IsMarker(r0.last))
  BY DEF Subscribe
<1>2. PICK fs \in Filters :
        LET after == IF mqtt[m].last = Empty THEN 0 ELSE mqtt[m].last.id
            subscribed == [mqtt[m] EXCEPT !.filters = fs, !.after = after]
            passed == IF after = 0 THEN subscribed
                      ELSE Replay(subscribed, "history",
                                  [i \in DOMAIN fs |-> History(fs[i], after)])
        IN Become([Realm EXCEPT !.mqtt[m] =
                     Replay(passed, "retained", [i \in DOMAIN fs |-> Retained(fs[i])])])
  BY DEF Subscribe
<1>. PICK r : r = Served(r0, fs, After(r0))
  OBVIOUS
<1>3. Become(WithMqtt(x, m, r))
  BY <1>2 DEF WithMqtt, Served, Passed, Subscribed, HistoryLists, RetainedLists, After
<1>4. r \in MqttRecord /\ SessionOK(history, lastId, r) /\ Same(r0, r)
  BY <1>1, ServedOK
<1>5. SessionOK(x.history, x.lastId, r) /\ Same(x.mqtt[m], r)
  BY <1>4, RealmIs
<1>6. Changed(x, m, r, WithMqtt(x, m, r))
  BY <1>4, <1>5, WithMqttIs
<1>7. WithMqtt(x, m, r) = Realm' /\ lastId' <= MaxId
  <2>1. WithMqtt(x, m, r) \in RealmRecord
    BY <1>6 DEF Changed, RealmOK
  <2>. QED BY <1>3, <2>1, Became
<1>. QED BY <1>4, <1>5, <1>6, <1>7

LEMMA DisconnectStep ==
  ASSUME RealmOK(Realm), NEW m \in MqttClientSession, Disconnect(m)
  PROVE  /\ \E r \in MqttRecord : Changed(Realm, m, r, Realm') /\ r.state = "in"
                                  /\ r.will = NoPacket
         /\ Realm.mqtt[m].state = "in" /\ lastId' <= MaxId
<1>. PICK x : x = Realm
  OBVIOUS
<1>. PICK r0 : r0 = x.mqtt[m]
  OBVIOUS
<1>. PICK r : r = [r0 EXCEPT !.clean = TRUE, !.will = NoPacket]
  OBVIOUS
<1>1. Become(WithMqtt(x, m, r))
  BY DEF Disconnect, CleanDisconnectPublish, WithMqtt
<1>2. r0.state = "in"
  BY RealmIs DEF Disconnect
<1>3. r0 \in MqttRecord /\ SessionOK(x.history, x.lastId, r0)
  BY DEF RealmOK, RealmRecord, SessionsOK
<1>4. /\ r \in MqttRecord /\ r.state = "in" /\ r.will = NoPacket /\ r.after = r0.after
      /\ r.last = r0.last /\ r.got = r0.got /\ r.unacked = r0.unacked
      /\ r.filters = r0.filters
  BY <1>2, <1>3 DEF MqttRecord
<1>5. SessionOK(x.history, x.lastId, r)
  <2>1. LivesAscend(r)
    <3>1. LivesAscend(r0)
      BY <1>3 DEF SessionOK
    <3>. QED BY ONLY <1>4, <3>1, LivesLike
  <2>2. Complete(x.history, r)
    <3>1. r.state = r0.state
      BY <1>2, <1>4
    <3>2. Complete(x.history, r0)
      BY <1>3 DEF SessionOK
    <3>. QED BY ONLY <1>4, <3>1, <3>2, CompleteLike
  <2>3. Untouched(r)
    BY <1>4 DEF Untouched
  <2>4. /\ \A i \in DOMAIN r.got : r.got[i].id \in 0 .. x.lastId
        /\ r.last \in Acked(x.lastId)
        /\ r.unacked \subseteq DOMAIN r.got
    BY <1>3, <1>4 DEF SessionOK
  <2>. QED BY <1>4, <2>1, <2>2, <2>3, <2>4 DEF SessionOK
<1>6. Changed(x, m, r, WithMqtt(x, m, r))
  BY <1>4, <1>5, WithMqttIs
<1>7. WithMqtt(x, m, r) = Realm' /\ lastId' <= MaxId
  <2>1. WithMqtt(x, m, r) \in RealmRecord
    BY <1>6 DEF Changed, RealmOK
  <2>. QED BY <1>1, <2>1, Became
<1>. QED BY <1>2, <1>4, <1>6, <1>7

(* Publish: an event is told, and it may release the lock.                 *)
Published(x, y, m) ==
  \E p \in Packet : \E row :
    /\ Done(x, PublishCmd(p, m), y, row)
    /\ row = x.kv[LockUri] \/ row = Released(x.kv[LockUri])

LEMMA PublishStep ==
  ASSUME RealmOK(Realm), NEW m \in MqttClientSession, Publish(m)
  PROVE  Published(Realm, Realm', m) /\ lastId' <= MaxId
<1>. PICK x : x = Realm
  OBVIOUS
<1>1. PICK p \in Packet : Become(DoPush(x, PublishCmd(p, m)))
  BY DEF Publish
<1>. PICK e : e = PublishCmd(p, m)
  OBVIOUS
<1>. PICK y : y = DoPush(x, e)
  OBVIOUS
<1>2. Done(x, e, y, x.kv[LockUri]) \/ Done(x, e, y, Released(x.kv[LockUri]))
  BY PacketDone
<1>3. y \in RealmRecord
  BY <1>2 DEF Done, RealmOK
<1>4. y = Realm' /\ lastId' <= MaxId
  BY <1>1, <1>3, Became
<1>5. Published(x, y, m)
  BY <1>2 DEF Published
<1>. QED BY <1>4, <1>5

LEMMA SameIs == \A r : Same(r, r)
BY Zenon DEF Same

LEMMA SameMore ==
  ASSUME NEW r, NEW t, NEW v, Same(r, t), Same(t, v)
  PROVE  Same(r, v)
BY Zenon DEF Same

LEMMA ChangedSame ==
  ASSUME NEW x, NEW m \in MqttClientSession, NEW r, NEW y, Changed(x, m, r, y),
         Same(x.mqtt[m], r)
  PROVE  \A n \in MqttClientSession : Same(x.mqtt[n], y.mqtt[n])
<1>. SUFFICES ASSUME NEW n \in MqttClientSession PROVE Same(x.mqtt[n], y.mqtt[n])
  OBVIOUS
<1>1. CASE n = m
  <2>1. y.mqtt[n] = r
    BY <1>1 DEF Changed
  <2>. QED BY <1>1, <2>1
<1>2. CASE n # m
  <2>1. y.mqtt[n] = x.mqtt[n]
    BY <1>2 DEF Changed
  <2>. QED BY <2>1, SameIs
<1>. QED BY <1>1, <1>2

(* What a client acknowledges is stored.                                   *)
Noted(x, y, m) ==
  /\ RealmOK(y) /\ y.lastId >= x.lastId /\ y.hyper = x.hyper /\ y.kv[LockUri] = x.kv[LockUri]
  /\ \A n \in MqttClientSession : Same(x.mqtt[n], y.mqtt[n])
  /\ \E e \in EventRecord : y.history = Traced(x, e) /\ e.uri = OffsetUri

LEMMA PubackStep ==
  ASSUME RealmOK(Realm), NEW m \in MqttClientSession, Puback(m)
  PROVE  Noted(Realm, Realm', m) /\ lastId' <= MaxId
<1>. PICK x : x = Realm
  OBVIOUS
<1>. PICK r0 : r0 = x.mqtt[m]
  OBVIOUS
<1>1. PICK i \in r0.unacked :
        Become(DoPush([Realm EXCEPT !.mqtt[m].unacked = @ \ {i}],
                      Inbound(OffsetUri, Text(r0.got[i].id), m)))
  BY RealmIs DEF Puback
<1>. PICK u : u = r0.unacked \ {i}
  OBVIOUS
<1>. PICK r : r = [r0 EXCEPT !.unacked = u]
  OBVIOUS
<1>. PICK z : z = WithMqtt(x, m, r)
  OBVIOUS
<1>. PICK a : a = r0.got[i].id
  OBVIOUS
<1>. PICK e : e = Inbound(OffsetUri, Text(a), m)
  OBVIOUS
<1>. PICK y : y = DoPush(z, e)
  OBVIOUS
<1>2. r0 \in MqttRecord /\ SessionOK(x.history, x.lastId, r0) /\ x.lastId \in Nat
  BY DEF RealmOK, RealmRecord, SessionsOK
<1>3. z = [Realm EXCEPT !.mqtt[m].unacked = @ \ {i}]
  BY DEF WithMqtt
<1>4. /\ r \in MqttRecord /\ r.state = r0.state /\ r.will = r0.will /\ r.after = r0.after
      /\ r.last = r0.last /\ r.got = r0.got /\ r.unacked = u /\ r.filters = r0.filters
  BY <1>2 DEF MqttRecord
<1>5. r.clean = r0.clean
  BY <1>2 DEF MqttRecord
<1>6. Same(r0, r)
  BY <1>4, <1>5 DEF Same
<1>7. SessionOK(x.history, x.lastId, r)
  <2>1. LivesAscend(r)
    <3>1. LivesAscend(r0)
      BY <1>2 DEF SessionOK
    <3>. QED BY ONLY <1>4, <3>1, LivesLike
  <2>2. Complete(x.history, r)
    <3>1. Complete(x.history, r0)
      BY <1>2 DEF SessionOK
    <3>. QED BY ONLY <1>4, <3>1, CompleteLike
  <2>3. Untouched(r)
    BY <1>2, <1>4, <1>5 DEF SessionOK, Untouched
  <2>4. /\ \A j \in DOMAIN r.got : r.got[j].id \in 0 .. x.lastId
        /\ r.last \in Acked(x.lastId)
        /\ r.unacked \subseteq DOMAIN r.got
    BY <1>2, <1>4 DEF SessionOK
  <2>5. r.clean => r.will = NoPacket
    BY <1>2, <1>4, <1>5 DEF SessionOK
  <2>. QED BY <2>1, <2>2, <2>3, <2>4, <2>5 DEF SessionOK
<1>8. Changed(x, m, r, z)
  BY <1>4, <1>7, WithMqttIs
<1>9. /\ RealmOK(z) /\ z.lastId = x.lastId /\ z.history = x.history /\ z.kv = x.kv
      /\ z.hyper = x.hyper
  BY <1>8 DEF Changed
<1>10. a \in 0 .. z.lastId
  <2>1. i \in DOMAIN r0.got
    BY <1>2 DEF SessionOK
  <2>. QED BY <1>2, <1>9, <2>1 DEF SessionOK
<1>11. Done(z, e, y, z.kv[LockUri])
  BY <1>9, <1>10, OffsetDone
<1>12. e \in EventRecord /\ e.uri = OffsetUri
  <2>1. a \in Nat
    BY <1>10
  <2>. PICK t : t = Text(a)
    OBVIOUS
  <2>2. t \in Data /\ m \in Session /\ OffsetUri \in Topic
    <3>1. t \in Data
      BY <2>1 DEF Data
    <3>. QED BY <3>1, KeyTopic DEF Session
  <2>3. Inbound(OffsetUri, t, m) \in EventRecord /\ Inbound(OffsetUri, t, m).uri = OffsetUri
    BY <2>2, InboundIs
  <2>. QED BY <2>3
<1>13. \A n \in MqttClientSession : Same(z.mqtt[n], y.mqtt[n])
  BY ONLY <1>9, <1>11, <1>12, DoneSame
<1>14. /\ RealmOK(y) /\ y.hyper = z.hyper /\ y.history = Traced(z, e)
       /\ y.kv[LockUri] = z.kv[LockUri] /\ y.lastId > z.lastId
  BY <1>11 DEF Done
<1>15. Traced(z, e) = Traced(x, e)
  BY <1>9 DEF Traced
<1>16. y.lastId >= x.lastId
  <2>1. y.lastId \in Nat
    BY <1>14 DEF RealmOK, RealmRecord
  <2>2. z.lastId = x.lastId /\ y.lastId > z.lastId /\ x.lastId \in Nat
    BY <1>2, <1>9, <1>14
  <2>. QED BY ONLY <2>1, <2>2
<1>17. ASSUME NEW n \in MqttClientSession PROVE Same(x.mqtt[n], y.mqtt[n])
  <2>1. Same(x.mqtt[n], z.mqtt[n])
    BY <1>6, <1>8, ChangedSame
  <2>2. Same(z.mqtt[n], y.mqtt[n])
    BY <1>13
  <2>. QED BY <2>1, <2>2, SameMore
<1>18. Noted(x, y, m)
  BY <1>9, <1>12, <1>14, <1>15, <1>16, <1>17 DEF Noted
<1>19. y = Realm' /\ lastId' <= MaxId
  <2>1. y \in RealmRecord
    BY <1>14 DEF RealmOK
  <2>2. Become(y)
    BY <1>1, <1>3
  <2>. QED BY <2>1, <2>2, Became
<1>. QED BY <1>18, <1>19

-----------------------------------------------------------------------------
(* The invariant. *)

(* The inductive invariant: the realm is in order. LiveOnce and            *)
(* ResumeComplete are parts of it, but neither is inductive: the first     *)
(* needs that all ids written are of events so far, the second that the    *)
(* text at OffsetUri, after which a session goes on, is such an id too.    *)
IInv == RealmOK(Realm) /\ lastId \in FirstId .. MaxId

LEMMA InitIInv == Init => IInv
<1>. SUFFICES ASSUME Init PROVE IInv
  OBVIOUS
<1>. PICK x : x = Realm
  OBVIOUS
<1>1. /\ x.lastId = FirstId /\ x.history = <<>> /\ x.kv = [k \in Key |-> NoRow]
      /\ x.hyper = [h \in HyperSession |-> "new"]
      /\ x.mqtt = [m \in MqttClientSession |-> NewMqtt]
      /\ x = [lastId |-> x.lastId, history |-> x.history, kv |-> x.kv, hyper |-> x.hyper,
              mqtt |-> x.mqtt]
  BY RealmIs DEF Init, Realm
<1>2. FirstId \in Nat /\ MaxId \in Nat /\ FirstId <= MaxId
  BY IdAssumption
<1>3. x.kv \in [Key -> Row] /\ \A k \in Key : x.kv[k] = NoRow
  BY <1>1, NoRowIs
<1>4. /\ x.mqtt \in [MqttClientSession -> MqttRecord]
      /\ \A m \in MqttClientSession : x.mqtt[m] = NewMqtt
  BY <1>1, NewMqttIs
<1>5. x.hyper \in [HyperSession -> {"new", "in", "over"}]
  BY <1>1
<1>6. x.history \in Seq(Entry) /\ x.lastId \in Nat
  BY <1>1, <1>2
<1>7. x \in RealmRecord
  BY <1>1, <1>3, <1>4, <1>5, <1>6 DEF RealmRecord
<1>8. RowsOK(x)
  <2>. SUFFICES ASSUME NEW k \in Key PROVE RowOK(x, k, NoRow)
    BY <1>3 DEF RowsOK
  <2>1. NoRow.id <= x.lastId
    BY <1>6, NoRowIs
  <2>2. NoRow.data \in Acked(x.lastId)
    BY NoRowIs DEF Acked
  <2>3. DOMAIN NoRow.waiters = {}
    BY NoRowIs
  <2>. QED BY <2>1, <2>2, <2>3, NoRowIs DEF RowOK
<1>9. HistoryOK(x)
  BY <1>1 DEF HistoryOK
<1>10. SessionsOK(x)
  <2>1. Untouched(NewMqtt)
    BY NewMqttIs DEF Untouched
  <2>2. NewMqtt.last \in Acked(x.lastId)
    BY NewMqttIs DEF Acked
  <2>3. SessionOK(x.history, x.lastId, NewMqtt)
    BY <1>6, <2>1, <2>2, NewMqttIs, FreshOK
  <2>. QED BY <1>4, <2>3 DEF SessionsOK
<1>11. lastId \in FirstId .. MaxId
  BY <1>1, <1>2, RealmIs
<1>. QED BY <1>7, <1>8, <1>9, <1>10, <1>11 DEF IInv, RealmOK

(* Where the next realm is one and its ids have not fallen, all is well.   *)
LEMMA Onward ==
  ASSUME IInv, NEW y, y = Realm', RealmOK(y), y.lastId >= lastId, lastId' <= MaxId
  PROVE  IInv'
<1>1. RealmOK(Realm')
  OBVIOUS
<1>2. y.lastId = lastId' /\ y.lastId \in Nat
  BY RealmIs DEF RealmOK, RealmRecord, Realm
<1>3. lastId \in FirstId .. MaxId /\ FirstId \in Nat /\ MaxId \in Nat
  BY IdAssumption DEF IInv
<1>4. lastId' \in FirstId .. MaxId
  BY <1>2, <1>3
<1>5. RealmOK(Realm)'
  BY <1>1 DEF RealmOK, RealmRecord, RowsOK, HistoryOK, SessionsOK
<1>. QED BY <1>4, <1>5 DEF IInv

(* Every step leaves the realm in order.                                   *)
LEMMA NextIInv == IInv /\ [Next]_vars => IInv'
<1>. SUFFICES ASSUME IInv, [Next]_vars PROVE IInv'
  OBVIOUS
<1>. PICK y : y = Realm'
  OBVIOUS
<1>1. /\ RealmOK(Realm) /\ Realm.lastId = lastId /\ lastId \in Nat
  BY RealmIs DEF IInv, RealmOK, RealmRecord
<1>2. ASSUME NEW h \in HyperSession, Login(h) PROVE IInv'
  <2>1. Joined(Realm, y, h) /\ lastId' <= MaxId
    BY <1>1, <1>2, LoginStep
  <2>2. RealmOK(y) /\ y.lastId = lastId
    BY <1>1, <2>1 DEF Joined
  <2>3. y.lastId >= lastId
    BY ONLY <1>1, <2>2
  <2>. QED BY <2>1, <2>2, <2>3, Onward
<1>3. ASSUME NEW h \in HyperSession, Push(h) PROVE IInv'
  <2>1. Pushed(Realm, y, h) /\ lastId' <= MaxId
    BY <1>1, <1>3, PushStep
  <2>2. PICK e, row : e \in EventRecord /\ Done(Realm, e, y, row)
    BY <2>1 DEF Pushed
  <2>3. RealmOK(y) /\ y.lastId > lastId /\ y.lastId \in Nat
    BY <1>1, <2>2 DEF Done, RealmOK, RealmRecord
  <2>4. y.lastId >= lastId
    BY ONLY <1>1, <2>3
  <2>. QED BY <2>1, <2>3, <2>4, Onward
<1>4. ASSUME NEW h \in HyperSession, Close(h) PROVE IInv'
  <2>1. HyperClosed(Realm, y, h) /\ lastId' <= MaxId
    BY <1>1, <1>4, HyperCloseStep
  <2>2. RealmOK(y) /\ y.lastId >= lastId
    BY <1>1, <2>1 DEF HyperClosed
  <2>. QED BY <2>1, <2>2, Onward
<1>5. ASSUME NEW m \in MqttClientSession, Close(m) PROVE IInv'
  <2>1. MqttClosed(Realm, y, m) /\ lastId' <= MaxId
    BY <1>1, <1>5, MqttCloseStep
  <2>2. RealmOK(y) /\ y.lastId >= lastId
    BY <1>1, <2>1 DEF MqttClosed
  <2>. QED BY <2>1, <2>2, Onward
<1>6. ASSUME NEW m \in MqttClientSession, NEW r, Changed(Realm, m, r, y), lastId' <= MaxId
      PROVE  IInv'
  <2>1. RealmOK(y) /\ y.lastId = lastId
    BY <1>1, <1>6 DEF Changed
  <2>2. y.lastId >= lastId
    BY ONLY <1>1, <2>1
  <2>. QED BY <1>6, <2>1, <2>2, Onward
<1>7. ASSUME NEW m \in MqttClientSession, Connect(m) PROVE IInv'
  BY <1>1, <1>6, <1>7, ConnectStep
<1>8. ASSUME NEW m \in MqttClientSession, Subscribe(m) PROVE IInv'
  BY <1>1, <1>6, <1>8, SubscribeStep
<1>9. ASSUME NEW m \in MqttClientSession, Disconnect(m) PROVE IInv'
  BY <1>1, <1>6, <1>9, DisconnectStep
<1>10. ASSUME NEW m \in MqttClientSession, Publish(m) PROVE IInv'
  <2>1. Published(Realm, y, m) /\ lastId' <= MaxId
    BY <1>1, <1>10, PublishStep
  <2>2. PICK p, row : p \in Packet /\ Done(Realm, PublishCmd(p, m), y, row)
    BY <2>1 DEF Published
  <2>3. RealmOK(y) /\ y.lastId > lastId /\ y.lastId \in Nat
    BY <1>1, <2>2 DEF Done, RealmOK, RealmRecord
  <2>4. y.lastId >= lastId
    BY ONLY <1>1, <2>3
  <2>. QED BY <2>1, <2>3, <2>4, Onward
<1>11. ASSUME NEW m \in MqttClientSession, Puback(m) PROVE IInv'
  <2>1. Noted(Realm, y, m) /\ lastId' <= MaxId
    BY <1>1, <1>11, PubackStep
  <2>2. RealmOK(y) /\ y.lastId >= lastId
    BY <1>1, <2>1 DEF Noted
  <2>. QED BY <2>1, <2>2, Onward
<1>12. CASE UNCHANGED vars
  <2>1. y = Realm /\ lastId' = lastId
    BY <1>12 DEF Realm, vars
  <2>2. RealmOK(y) /\ y.lastId = lastId /\ lastId' <= MaxId
    BY <1>1, <2>1, IdAssumption DEF IInv
  <2>3. y.lastId >= lastId
    BY ONLY <1>1, <2>2
  <2>. QED BY <2>2, <2>3, Onward
<1>13. CASE Next
  <2>1. CASE \E h \in HyperSession : Login(h) \/ Push(h)
    BY <1>2, <1>3, <2>1
  <2>2. CASE \E m \in MqttClientSession :
              Connect(m) \/ Subscribe(m) \/ Publish(m) \/ Puback(m) \/ Disconnect(m)
    BY <1>7, <1>8, <1>9, <1>10, <1>11, <2>2
  <2>3. CASE \E s \in Session : Close(s)
    BY <1>4, <1>5, <2>3 DEF Session
  <2>. QED BY <1>13, <2>1, <2>2, <2>3 DEF Next
<1>. QED BY <1>12, <1>13

(* The realm is in order in every state: each session, each row and the    *)
(* history, and the last id is between its bounds.                         *)
THEOREM InvariantCorrect == Spec => []IInv
BY InitIInv, NextIInv, PTL DEF Spec

LEMMA IInvType == IInv => TypeOK
<1>. SUFFICES ASSUME IInv PROVE TypeOK
  OBVIOUS
<1>. PICK x : x = Realm
  OBVIOUS
<1>1. /\ x \in RealmRecord /\ RowsOK(x) /\ HistoryOK(x) /\ SessionsOK(x)
      /\ lastId \in FirstId .. MaxId
  BY DEF IInv, RealmOK
<1>2. /\ x.lastId = lastId /\ x.history = history /\ x.kv = kv /\ x.hyper = hyper /\ x.mqtt = mqtt
  BY RealmIs
<1>3. \A i \in DOMAIN history : history[i].id \in 1 .. lastId
  BY <1>1, <1>2 DEF HistoryOK
<1>4. ASSUME NEW k \in Key
      PROVE  /\ kv[k].id \in 0 .. lastId
             /\ kv[k].data = Empty <=> kv[k] = NoRow
             /\ \A i \in DOMAIN kv[k].waiters : IsActive(Realm, kv[k].waiters[i].sid)
  <2>. PICK row : row = kv[k]
    OBVIOUS
  <2>1. row.id \in Nat /\ row.waiters \in Seq(Waits) /\ RowOK(x, k, row) /\ lastId \in Nat
    BY <1>1, <1>2, RowType DEF RowsOK, RealmRecord
  <2>2. row.id <= lastId /\ (row = NoRow \/ row.data # Empty)
        /\ \A i \in DOMAIN row.waiters : hyper[row.waiters[i].sid] = "in"
    BY <1>2, <2>1 DEF RowOK
  <2>3. row.id \in 0 .. lastId
    BY ONLY <2>1, <2>2
  <2>4. row.data = Empty <=> row = NoRow
    BY <2>2, NoRowIs
  <2>5. ASSUME NEW i \in DOMAIN row.waiters PROVE IsActive(Realm, row.waiters[i].sid)
    <3>1. row.waiters[i] \in Waits
      BY <2>1
    <3>2. row.waiters[i].sid \in HyperSession
      BY <3>1, WaitsIs
    <3>. QED BY <2>2, <3>2, RealmIs DEF IsActive
  <2>. QED BY <2>3, <2>4, <2>5
<1>5. hyper \in [HyperSession -> {"new", "in", "over"}]
  BY <1>1, <1>2 DEF RealmRecord
<1>6. ASSUME NEW m \in MqttClientSession
      PROVE  mqtt[m].state \in {"new", "in", "over"} /\ mqtt[m].unacked \subseteq DOMAIN mqtt[m].got
  <2>1. mqtt[m] \in MqttRecord /\ SessionOK(history, lastId, mqtt[m])
    BY <1>1, <1>2 DEF RealmRecord, SessionsOK
  <2>. QED BY <2>1 DEF MqttRecord, SessionOK
<1>. QED BY <1>1, <1>3, <1>4, <1>5, <1>6 DEF TypeOK

(* Every variable of MemRealm has its type; a row has a value or nobody    *)
(* waits for it, and whoever waits for a key is there (memkv.ts,           *)
(* eraseSessionData).                                                      *)
THEOREM TypeCorrect == Spec => []TypeOK
BY InvariantCorrect, IInvType, PTL

LEMMA IInvSession ==
  ASSUME IInv, NEW m \in MqttClientSession
  PROVE  SessionOK(history, lastId, mqtt[m])
BY RealmIs DEF IInv, RealmOK, SessionsOK

LEMMA IInvLive == IInv => LiveOnce
<1>. SUFFICES ASSUME IInv, NEW m \in MqttClientSession PROVE LivesAscend(mqtt[m])
  BY DEF LiveOnce, LivesAscend
<1>. QED BY IInvSession DEF SessionOK

(* A live event is written to an MQTT connection once, whatever filters it *)
(* subscribed to (gate.ts:68), and live events in the order in which they  *)
(* were pushed.                                                            *)
THEOREM LiveOnceCorrect == Spec => []LiveOnce
BY InvariantCorrect, IInvLive, PTL

LEMMA IInvResume == IInv => ResumeComplete
<1>. SUFFICES ASSUME IInv, NEW m \in MqttClientSession PROVE Complete(history, mqtt[m])
  BY DEF ResumeComplete, Complete, Fits
<1>. QED BY IInvSession DEF SessionOK

(* A client that connects again gets everything that was kept since the    *)
(* event it acknowledged and that it subscribes to, through the history    *)
(* and live events, in any order of SUBSCRIBE, pushes and PUBACK.          *)
THEOREM ResumeCompleteCorrect == Spec => []ResumeComplete
BY InvariantCorrect, IInvResume, PTL

-----------------------------------------------------------------------------
(* Wills. *)

(* The events kept of wills of m, and whether a will is due: the           *)
(* connection has ended without DISCONNECT.                                *)
Wills(h, m) == {i \in DOMAIN h : h[i].sid = m /\ h[i].uri \in WillUri}
Due(r) == r.state = "over" /\ ~r.clean /\ r.will # NoPacket
SentOnce(h, m, r) ==
  /\ Due(r) => \E i : Wills(h, m) = {i}
  /\ ~Due(r) => Wills(h, m) = {}
WillsSent(x) == \A m \in MqttClientSession : SentOnce(x.history, m, x.mqtt[m])

LEMMA SameDue ==
  ASSUME NEW r, NEW t, Same(r, t)
  PROVE  Due(r) <=> Due(t)
BY Zenon DEF Same, Due

LEMMA WillsKeep ==
  ASSUME NEW x \in RealmRecord, NEW e \in EventRecord, NEW m,
         ~e.trace \/ e.sid # m \/ e.uri \notin WillUri
  PROVE  Wills(Traced(x, e), m) = Wills(x.history, m)
<1>. PICK sent : sent = x.history
  OBVIOUS
<1>. PICK n : n = x.lastId + 1
  OBVIOUS
<1>. PICK h : h = Append(sent, [id |-> n, uri |-> e.uri, sid |-> e.sid])
  OBVIOUS
<1>1. sent \in Seq(Entry) /\ n \in Nat
  BY DEF RealmRecord
<1>2. CASE ~e.trace
  BY <1>2 DEF Traced
<1>3. CASE e.trace
  <2>1. Traced(x, e) = h
    BY <1>3 DEF Traced
  <2>2. /\ Len(sent) \in Nat /\ DOMAIN sent = 1 .. Len(sent) /\ DOMAIN h = 1 .. Len(sent) + 1
        /\ \A i \in 1 .. Len(sent) : h[i] = sent[i]
        /\ h[Len(sent) + 1].uri = e.uri /\ h[Len(sent) + 1].sid = e.sid
    BY <1>1, EntryAdded
  <2>3. e.sid # m \/ e.uri \notin WillUri
    BY <1>3
  <2>4. ASSUME NEW i PROVE i \in Wills(h, m) <=> i \in Wills(sent, m)
    <3>1. CASE i \in 1 .. Len(sent)
      BY <2>2, <3>1 DEF Wills
    <3>2. CASE i = Len(sent) + 1
      <4>1. i \notin Wills(h, m)
        BY <2>2, <2>3, <3>2 DEF Wills
      <4>2. i \notin DOMAIN sent
        BY ONLY <2>2, <3>2
      <4>. QED BY <4>1, <4>2 DEF Wills
    <3>3. CASE i \notin 1 .. Len(sent) + 1
      <4>1. i \notin 1 .. Len(sent)
        BY ONLY <2>2, <3>3
      <4>. QED BY <2>2, <3>3, <4>1 DEF Wills
    <3>4. i \in 1 .. Len(sent) \/ i = Len(sent) + 1 \/ i \notin 1 .. Len(sent) + 1
      BY ONLY <2>2
    <3>. QED BY <3>1, <3>2, <3>3, <3>4
  <2>. QED BY <2>1, <2>4
<1>. QED BY <1>2, <1>3

(* A will that is published is one more event, of this session only.       *)
LEMMA WillAdded ==
  ASSUME NEW x \in RealmRecord, NEW e \in EventRecord, e.trace, e.uri \in WillUri,
         Wills(x.history, e.sid) = {}
  PROVE  \E i : Wills(Traced(x, e), e.sid) = {i}
<1>. PICK sent : sent = x.history
  OBVIOUS
<1>. PICK n : n = x.lastId + 1
  OBVIOUS
<1>. PICK h : h = Append(sent, [id |-> n, uri |-> e.uri, sid |-> e.sid])
  OBVIOUS
<1>. PICK m : m = e.sid
  OBVIOUS
<1>1. sent \in Seq(Entry) /\ n \in Nat
  BY DEF RealmRecord
<1>2. Traced(x, e) = h
  BY DEF Traced
<1>3. /\ Len(sent) \in Nat /\ DOMAIN sent = 1 .. Len(sent) /\ DOMAIN h = 1 .. Len(sent) + 1
      /\ \A i \in 1 .. Len(sent) : h[i] = sent[i]
      /\ h[Len(sent) + 1].uri = e.uri /\ h[Len(sent) + 1].sid = m
  BY <1>1, EntryAdded
<1>4. \A i \in 1 .. Len(sent) : ~(h[i].sid = m /\ h[i].uri \in WillUri)
  BY <1>3 DEF Wills
<1>5. ASSUME NEW i PROVE i \in Wills(h, m) <=> i = Len(sent) + 1
  <2>1. i \in 1 .. Len(sent) + 1 <=> i \in 1 .. Len(sent) \/ i = Len(sent) + 1
    BY ONLY <1>3
  <2>. QED BY <1>3, <1>4, <2>1 DEF Wills
<1>6. Wills(h, m) = {Len(sent) + 1}
  BY <1>5
<1>. QED BY <1>2, <1>6

(* What leaves the wills that were published, and those that are due.      *)
LEMMA WillsStill ==
  ASSUME NEW x, NEW y, WillsSent(x),
         \A m \in MqttClientSession : Same(x.mqtt[m], y.mqtt[m]),
         \A m \in MqttClientSession : Wills(y.history, m) = Wills(x.history, m)
  PROVE  WillsSent(y)
<1>. SUFFICES ASSUME NEW m \in MqttClientSession PROVE SentOnce(y.history, m, y.mqtt[m])
  BY DEF WillsSent
<1>1. Due(x.mqtt[m]) <=> Due(y.mqtt[m])
  BY SameDue
<1>2. SentOnce(x.history, m, x.mqtt[m])
  BY DEF WillsSent
<1>. QED BY <1>1, <1>2 DEF SentOnce

LEMMA WillsDone ==
  ASSUME NEW x, RealmOK(x), WillsSent(x), NEW e \in EventRecord, NEW y, NEW row,
         Done(x, e, y, row),
         ~e.trace \/ e.sid \notin MqttClientSession \/ e.uri \notin WillUri
  PROVE  WillsSent(y)
<1>1. x \in RealmRecord /\ y.history = Traced(x, e)
  BY DEF RealmOK, Done
<1>2. \A m \in MqttClientSession : Same(x.mqtt[m], y.mqtt[m])
  BY DoneSame
<1>3. \A m \in MqttClientSession : Wills(y.history, m) = Wills(x.history, m)
  BY <1>1, WillsKeep
<1>. QED BY <1>2, <1>3, WillsStill

LEMMA WillsChanged ==
  ASSUME NEW x, WillsSent(x), NEW m \in MqttClientSession, NEW r, NEW y, Changed(x, m, r, y),
         Due(r) <=> Due(x.mqtt[m])
  PROVE  WillsSent(y)
<1>. SUFFICES ASSUME NEW n \in MqttClientSession PROVE SentOnce(y.history, n, y.mqtt[n])
  BY DEF WillsSent
<1>1. SentOnce(x.history, n, x.mqtt[n]) /\ y.history = x.history
  BY DEF WillsSent, Changed
<1>2. Due(y.mqtt[n]) <=> Due(x.mqtt[n])
  BY DEF Changed
<1>. QED BY <1>1, <1>2 DEF SentOnce

LEMMA WillsHyperClosed ==
  ASSUME NEW x, RealmOK(x), WillsSent(x), NEW h \in HyperSession, NEW y, HyperClosed(x, y, h)
  PROVE  WillsSent(y)
<1>. PICK e : e = Inbound(LockUri, Empty, h)
  OBVIOUS
<1>1. x \in RealmRecord /\ x.mqtt \in [MqttClientSession -> MqttRecord] /\ x.lastId + 1 \in Nat
  BY DEF RealmOK, RealmRecord
<1>2. CASE y.history = x.history /\ y.mqtt = x.mqtt
  <2>1. \A m \in MqttClientSession : y.mqtt[m] = x.mqtt[m]
    BY <1>2
  <2>. QED BY <1>2, <2>1, SameIs, WillsStill
<1>3. CASE /\ y.history = Traced(x, e)
           /\ y.mqtt = [m \in MqttClientSession |-> Told(x.mqtt[m], e, x.lastId + 1)]
  <2>1. Empty \in Data /\ h \in Session /\ h \notin MqttClientSession
    BY SessionAssumption DEF Data, Session
  <2>2. e \in EventRecord /\ e.sid = h
    BY <2>1, InboundIs, KeyTopic
  <2>3. ASSUME NEW m \in MqttClientSession PROVE Same(x.mqtt[m], y.mqtt[m])
    <3>1. y.mqtt[m] = Told(x.mqtt[m], e, x.lastId + 1) /\ x.mqtt[m] \in MqttRecord
      BY <1>1, <1>3
    <3>. QED BY <1>1, <2>2, <3>1, ToldSame
  <2>4. ASSUME NEW m \in MqttClientSession PROVE Wills(y.history, m) = Wills(x.history, m)
    BY <1>1, <1>3, <2>1, <2>2, WillsKeep
  <2>. QED BY <2>3, <2>4, WillsStill
<1>. QED BY <1>2, <1>3 DEF HyperClosed

LEMMA WillsMqttClosed ==
  ASSUME NEW x, RealmOK(x), WillsSent(x), NEW m \in MqttClientSession, NEW y,
         x.mqtt[m].state = "in", MqttClosed(x, y, m)
  PROVE  WillsSent(y)
<1>. PICK r : r = x.mqtt[m]
  OBVIOUS
<1>. PICK p : p = r.will
  OBVIOUS
<1>. PICK e : e = PublishCmd(p, m)
  OBVIOUS
<1>1. /\ x \in RealmRecord /\ r \in MqttRecord /\ SessionOK(x.history, x.lastId, r)
  BY DEF RealmOK, RealmRecord, SessionsOK
<1>2. p \in WillPacket \cup {NoPacket}
  BY <1>1 DEF MqttRecord
<1>3. r.clean => p = NoPacket
  BY <1>1 DEF SessionOK
<1>4. y.mqtt[m].state = "over" /\ y.mqtt[m].will = p
  BY DEF MqttClosed
<1>5. y.mqtt[m].clean = r.clean
  BY DEF MqttClosed
<1>6. Due(y.mqtt[m]) <=> p # NoPacket
  <2>1. Due(y.mqtt[m]) <=> ~r.clean /\ p # NoPacket
    BY <1>4, <1>5 DEF Due
  <2>. QED BY <1>3, <2>1
<1>7. Wills(x.history, m) = {}
  <2>1. ~Due(r)
    BY DEF Due
  <2>. QED BY <2>1 DEF WillsSent, SentOnce
<1>8. \A n \in MqttClientSession : n # m => Same(x.mqtt[n], y.mqtt[n])
  BY DEF MqttClosed
<1>9. ASSUME NEW n \in MqttClientSession, n # m,
             Wills(y.history, n) = Wills(x.history, n)
      PROVE  SentOnce(y.history, n, y.mqtt[n])
  <2>1. Due(x.mqtt[n]) <=> Due(y.mqtt[n])
    BY <1>8, <1>9, SameDue
  <2>2. SentOnce(x.history, n, x.mqtt[n])
    BY DEF WillsSent
  <2>. QED BY <1>9, <2>1, <2>2 DEF SentOnce
<1>10. CASE p = NoPacket
  <2>1. y.history = x.history
    BY <1>10 DEF MqttClosed
  <2>2. SentOnce(y.history, m, y.mqtt[m])
    BY <1>6, <1>7, <1>10, <2>1 DEF SentOnce
  <2>. QED BY <1>9, <2>1, <2>2 DEF WillsSent
<1>11. CASE p # NoPacket
  <2>1. y.history = Traced(x, e)
    BY <1>11 DEF MqttClosed
  <2>2. p \in WillPacket
    BY <1>2, <1>11
  <2>3. e \in EventRecord /\ e.uri = p.uri /\ e.sid = m /\ e.trace
    BY <2>2, PublishCmdIs
  <2>4. e.uri \in WillUri
    BY <2>2, <2>3 DEF WillUri
  <2>5. \E i : Wills(y.history, m) = {i}
    <3>1. Wills(x.history, e.sid) = {}
      BY <1>7, <2>3
    <3>2. e.trace
      BY <2>3
    <3>3. \E i : Wills(Traced(x, e), e.sid) = {i}
      BY <1>1, <2>3, <2>4, <3>1, <3>2, WillAdded
    <3>. QED BY <2>1, <2>3, <3>3
  <2>6. SentOnce(y.history, m, y.mqtt[m])
    BY <1>6, <1>11, <2>5 DEF SentOnce
  <2>7. ASSUME NEW n \in MqttClientSession, n # m
        PROVE  SentOnce(y.history, n, y.mqtt[n])
    <3>1. Wills(y.history, n) = Wills(x.history, n)
      BY <1>1, <2>1, <2>3, <2>7, WillsKeep
    <3>. QED BY <1>9, <2>7, <3>1
  <2>. QED BY <2>6, <2>7 DEF WillsSent
<1>. QED BY <1>10, <1>11

(* WillOnce needs that a will was not published before the session ends.   *)
WInv == IInv /\ WillsSent(Realm)

LEMMA InitWInv == Init => WInv
<1>. SUFFICES ASSUME Init PROVE WillsSent(Realm)
  BY InitIInv DEF WInv
<1>1. Realm.history = <<>> /\ \A m \in MqttClientSession : Realm.mqtt[m] = NewMqtt
  BY RealmIs DEF Init
<1>2. ~Due(NewMqtt)
  BY NewMqttIs DEF Due
<1>3. \A m : Wills(<<>>, m) = {}
  BY DEF Wills
<1>. QED BY <1>1, <1>2, <1>3 DEF WillsSent, SentOnce

LEMMA NextWInv == WillsApart /\ WInv /\ [Next]_vars => WInv'
<1>. SUFFICES ASSUME WillsApart, WInv, [Next]_vars PROVE WInv'
  OBVIOUS
<1>. PICK x : x = Realm
  OBVIOUS
<1>. PICK y : y = Realm'
  OBVIOUS
<1>1. RealmOK(x) /\ WillsSent(x) /\ IInv'
  BY NextIInv DEF WInv, IInv
<1>2. OffsetUri \notin WillUri /\ \A p \in Packet : p.uri \notin WillUri
  BY DEF WillsApart
<1>3. ASSUME NEW h \in HyperSession, Login(h) PROVE WillsSent(y)
  <2>1. Joined(x, y, h)
    BY <1>1, <1>3, LoginStep
  <2>2. y.history = x.history /\ y.mqtt = x.mqtt
    BY <2>1 DEF Joined
  <2>. QED BY <1>1, <2>2, SameIs, WillsStill
<1>4. ASSUME NEW h \in HyperSession, Push(h) PROVE WillsSent(y)
  <2>1. Pushed(x, y, h)
    BY <1>1, <1>4, PushStep
  <2>. PICK e, row : e \in EventRecord /\ Done(x, e, y, row) /\ ~e.trace
    BY <2>1 DEF Pushed
  <2>. QED BY <1>1, WillsDone
<1>5. ASSUME NEW h \in HyperSession, Close(h) PROVE WillsSent(y)
  BY <1>1, <1>5, HyperCloseStep, WillsHyperClosed
<1>6. ASSUME NEW m \in MqttClientSession, Close(m) PROVE WillsSent(y)
  BY <1>1, <1>6, MqttCloseStep, WillsMqttClosed
<1>7. ASSUME NEW m \in MqttClientSession, Connect(m) PROVE WillsSent(y)
  <2>1. x.mqtt[m].state = "new"
        /\ \E r \in MqttRecord : Changed(x, m, r, y) /\ r.state = "in"
    BY <1>1, <1>7, ConnectStep
  <2>. PICK r \in MqttRecord : Changed(x, m, r, y) /\ r.state = "in"
    BY <2>1
  <2>2. ~Due(r) /\ ~Due(x.mqtt[m])
    BY <2>1 DEF Due
  <2>. QED BY <1>1, <2>2, WillsChanged
<1>8. ASSUME NEW m \in MqttClientSession, Subscribe(m) PROVE WillsSent(y)
  <2>. PICK r \in MqttRecord : Changed(x, m, r, y) /\ Same(x.mqtt[m], r)
    BY <1>1, <1>8, SubscribeStep
  <2>1. Due(r) <=> Due(x.mqtt[m])
    BY SameDue
  <2>. QED BY <1>1, <2>1, WillsChanged
<1>9. ASSUME NEW m \in MqttClientSession, Publish(m) PROVE WillsSent(y)
  <2>1. Published(x, y, m)
    BY <1>1, <1>9, PublishStep
  <2>. PICK p, row : p \in Packet /\ Done(x, PublishCmd(p, m), y, row)
    BY <2>1 DEF Published
  <2>. PICK e : e = PublishCmd(p, m)
    OBVIOUS
  <2>2. e \in EventRecord /\ e.uri = p.uri
    BY PublishCmdIs
  <2>3. e.uri \notin WillUri
    BY <1>2, <2>2
  <2>. QED BY <1>1, <2>2, <2>3, WillsDone
<1>10. ASSUME NEW m \in MqttClientSession, Puback(m) PROVE WillsSent(y)
  <2>1. Noted(x, y, m)
    BY <1>1, <1>10, PubackStep
  <2>. PICK e \in EventRecord : y.history = Traced(x, e) /\ e.uri = OffsetUri
    BY <2>1 DEF Noted
  <2>2. \A n \in MqttClientSession : Same(x.mqtt[n], y.mqtt[n])
    BY <2>1 DEF Noted
  <2>3. x \in RealmRecord
    BY <1>1 DEF RealmOK
  <2>4. \A n \in MqttClientSession : Wills(y.history, n) = Wills(x.history, n)
    BY <1>2, <2>3, WillsKeep
  <2>. QED BY <1>1, <2>2, <2>4, WillsStill
<1>11. ASSUME NEW m \in MqttClientSession, Disconnect(m) PROVE WillsSent(y)
  <2>1. x.mqtt[m].state = "in"
        /\ \E r \in MqttRecord : Changed(x, m, r, y) /\ r.state = "in"
    BY <1>1, <1>11, DisconnectStep
  <2>. PICK r \in MqttRecord : Changed(x, m, r, y) /\ r.state = "in"
    BY <2>1
  <2>2. ~Due(r) /\ ~Due(x.mqtt[m])
    BY <2>1 DEF Due
  <2>. QED BY <1>1, <2>2, WillsChanged
<1>12. ASSUME UNCHANGED vars PROVE WillsSent(y)
  <2>1. y = x
    BY <1>12 DEF Realm, vars
  <2>. QED BY <1>1, <2>1
<1>13. ASSUME Next PROVE WillsSent(y)
  <2>1. ASSUME \E h \in HyperSession : Login(h) \/ Push(h) PROVE WillsSent(y)
    BY <1>3, <1>4, <2>1
  <2>2. ASSUME \E m \in MqttClientSession :
                 Connect(m) \/ Subscribe(m) \/ Publish(m) \/ Puback(m) \/ Disconnect(m)
        PROVE  WillsSent(y)
    BY <1>7, <1>8, <1>9, <1>10, <1>11, <2>2
  <2>3. ASSUME \E s \in Session : Close(s) PROVE WillsSent(y)
    BY <1>5, <1>6, <2>3 DEF Session
  <2>. QED BY <1>13, <2>1, <2>2, <2>3 DEF Next
<1>14. WillsSent(y)
  BY <1>12, <1>13
<1>. QED BY <1>1, <1>14 DEF WInv, WillsSent

LEMMA WInvOnce == WInv => WillOnce
<1>. SUFFICES ASSUME WInv, NEW m \in MqttClientSession
              PROVE  Cardinality(Wills(history, m)) = IF Due(mqtt[m]) THEN 1 ELSE 0
  BY DEF WillOnce, Wills, Due
<1>1. SentOnce(history, m, mqtt[m])
  BY RealmIs DEF WInv, WillsSent
<1>. QED BY <1>1, FS_Singleton, FS_EmptySet DEF SentOnce

(* A will is published once if the connection ends without DISCONNECT, and *)
(* never otherwise; nothing else is published to its topic by the client.  *)
THEOREM WillOnceCorrect ==
  ASSUME WillsApart
  PROVE  Spec => []WillOnce
<1>1. Spec => []WInv
  BY InitWInv, NextWInv, PTL DEF Spec
<1>. QED BY <1>1, WInvOnce, PTL

-----------------------------------------------------------------------------
(* The lock. *)

(* Operators of OrderedSets under their names in the abstract mutex.       *)
LEMMA CardinalitySame == ASSUME NEW S PROVE TheLock!Cardinality(S) = Cardinality(S)
BY DEF TheLock!Cardinality, Cardinality, TheLock!IsFiniteSet, IsFiniteSet

LEMMA SortedSame == ASSUME NEW S PROVE TheLock!Sorted(S) = Sorted(S)
BY CardinalitySame DEF TheLock!Sorted, Sorted, TheLock!Ascends, Ascends

LEMMA AtSame == ASSUME NEW s, NEW p PROVE TheLock!At(s, p) = At(s, p)
BY CardinalitySame, SortedSame DEF TheLock!At, At

(* What a client sees of the lock.                                         *)
Present(x) == {h \in HyperSession : x.hyper[h] = "in"}
Sids(ws) == [i \in DOMAIN ws |-> ws[i].sid]
Rest(q, h) == At(q, {i \in DOMAIN q : q[i] # h})

(* Who waits, after waiters were served, were added or have left.          *)
LEMMA SidsIs ==
  ASSUME NEW ws \in Seq(Waits)
  PROVE  /\ Sids(ws) \in Seq(HyperSession) /\ Len(Sids(ws)) = Len(ws)
         /\ Len(ws) \in Nat /\ DOMAIN ws = 1 .. Len(ws)
         /\ \A i \in 1 .. Len(ws) : Sids(ws)[i] = ws[i].sid /\ ws[i].sid \in HyperSession
<1>1. Len(ws) \in Nat /\ DOMAIN ws = 1 .. Len(ws)
  OBVIOUS
<1>2. ASSUME NEW i \in 1 .. Len(ws) PROVE ws[i].sid \in HyperSession
  <2>1. ws[i] \in Waits
    BY <1>1
  <2>. QED BY <2>1, WaitsIs
<1>3. Sids(ws) = [i \in 1 .. Len(ws) |-> ws[i].sid]
  BY <1>1 DEF Sids
<1>. QED BY <1>1, <1>2, <1>3

LEMMA SidsNone == Sids(<<>>) = <<>>
<1>1. <<>> \in Seq(Waits) /\ Len(<<>>) = 0
  OBVIOUS
<1>2. Sids(<<>>) \in Seq(HyperSession) /\ Len(Sids(<<>>)) = 0
  BY <1>1, SidsIs
<1>. QED BY <1>2

LEMMA SidsSome ==
  ASSUME NEW ws \in Seq(Waits), ws # <<>>
  PROVE  /\ Sids(ws) # <<>> /\ Head(Sids(ws)) = Head(ws).sid
         /\ Tail(Sids(ws)) = Sids(Tail(ws))
<1>. PICK q : q = Sids(ws)
  OBVIOUS
<1>. PICK n : n = Len(ws)
  OBVIOUS
<1>. PICK t : t = Tail(ws)
  OBVIOUS
<1>1. /\ q \in Seq(HyperSession) /\ Len(q) = n /\ n \in Nat
      /\ \A i \in 1 .. n : q[i] = ws[i].sid
  BY SidsIs
<1>2. n # 0 /\ n >= 1
  BY <1>1
<1>3. q # <<>> /\ Head(q) = q[1] /\ Head(ws) = ws[1]
  BY <1>1, <1>2
<1>4. /\ t \in Seq(Waits) /\ Len(t) = n - 1 /\ \A i \in 1 .. n - 1 : t[i] = ws[i + 1]
  BY <1>2
<1>5. /\ Tail(q) \in Seq(HyperSession) /\ Len(Tail(q)) = n - 1
      /\ \A i \in 1 .. n - 1 : Tail(q)[i] = q[i + 1]
  BY <1>1, <1>2, <1>3
<1>6. /\ Sids(t) \in Seq(HyperSession) /\ Len(Sids(t)) = n - 1
      /\ \A i \in 1 .. n - 1 : Sids(t)[i] = t[i].sid
  BY <1>4, SidsIs
<1>7. \A i \in 1 .. n - 1 : Sids(t)[i] = Tail(q)[i]
  <2>. SUFFICES ASSUME NEW i \in 1 .. n - 1 PROVE Sids(t)[i] = Tail(q)[i]
    OBVIOUS
  <2>1. i + 1 \in 1 .. n
    BY ONLY <1>1
  <2>. QED BY <1>1, <1>4, <1>5, <1>6, <2>1
<1>8. Sids(t) = Tail(q)
  BY <1>5, <1>6, <1>7
<1>9. Head(q) = Head(ws).sid
  BY <1>1, <1>2, <1>3
<1>. QED BY <1>3, <1>8, <1>9

LEMMA SidsMore ==
  ASSUME NEW ws \in Seq(Waits), NEW w \in Waits
  PROVE  Sids(Append(ws, w)) = Append(Sids(ws), w.sid)
<1>. PICK n : n = Len(ws)
  OBVIOUS
<1>. PICK t : t = Append(ws, w)
  OBVIOUS
<1>. PICK q : q = Append(Sids(ws), w.sid)
  OBVIOUS
<1>1. /\ Sids(ws) \in Seq(HyperSession) /\ Len(Sids(ws)) = n /\ n \in Nat
      /\ \A i \in 1 .. n : Sids(ws)[i] = ws[i].sid
  BY SidsIs
<1>2. t \in Seq(Waits) /\ Len(t) = n + 1 /\ t[n + 1] = w /\ \A i \in 1 .. n : t[i] = ws[i]
  BY <1>1
<1>3. w.sid \in HyperSession
  BY WaitsIs
<1>4. /\ q \in Seq(HyperSession) /\ Len(q) = n + 1 /\ q[n + 1] = w.sid
      /\ \A i \in 1 .. n : q[i] = Sids(ws)[i]
  BY <1>1, <1>3
<1>5. /\ Sids(t) \in Seq(HyperSession) /\ Len(Sids(t)) = n + 1
      /\ \A i \in 1 .. n + 1 : Sids(t)[i] = t[i].sid
  BY <1>2, SidsIs
<1>6. ASSUME NEW i \in 1 .. n + 1 PROVE Sids(t)[i] = q[i]
  <2>1. i \in 1 .. n \/ i = n + 1
    BY ONLY <1>1
  <2>. QED BY <1>1, <1>2, <1>4, <1>5, <2>1
<1>. QED BY <1>4, <1>5, <1>6

LEMMA SidsRest ==
  ASSUME NEW ws \in Seq(Waits), NEW h
  PROVE  Sids(At(ws, Others(ws, h))) = Rest(Sids(ws), h)
<1>. PICK p : p = Others(ws, h)
  OBVIOUS
<1>. PICK n : n = Len(ws)
  OBVIOUS
<1>. PICK q : q = Sids(ws)
  OBVIOUS
<1>. PICK f : f = Sorted(p)
  OBVIOUS
<1>. PICK t : t = At(ws, p)
  OBVIOUS
<1>1. /\ q \in Seq(HyperSession) /\ Len(q) = n /\ n \in Nat /\ DOMAIN ws = 1 .. n
      /\ DOMAIN q = 1 .. n
      /\ \A i \in 1 .. n : q[i] = ws[i].sid
  BY SidsIs
<1>2. p = {i \in DOMAIN q : q[i] # h}
  BY <1>1 DEF Others
<1>3. p \in SUBSET Nat /\ p \subseteq 1 .. n /\ IsFiniteSet(p)
  <2>1. p \subseteq 1 .. n
    BY <1>1, <1>2
  <2>2. IsFiniteSet(1 .. n)
    BY <1>1, FS_Interval
  <2>. QED BY <2>1, <2>2, FS_Subset
<1>4. Cardinality(p) \in Nat /\ f \in [1 .. Cardinality(p) -> p]
  BY <1>3, SortedAscends
<1>5. \A i \in 1 .. Cardinality(p) : f[i] \in 1 .. n
  BY <1>3, <1>4
<1>6. t = [i \in 1 .. Cardinality(p) |-> ws[f[i]]]
  BY DEF At
<1>7. Rest(q, h) = [i \in 1 .. Cardinality(p) |-> q[f[i]]]
  BY <1>2 DEF Rest, At
<1>8. Sids(t) = [i \in 1 .. Cardinality(p) |-> ws[f[i]].sid]
  BY <1>6 DEF Sids
<1>. QED BY <1>1, <1>5, <1>7, <1>8

(* A step of Mutex, of what is seen before it and after it.                *)
HandedOver(q, o2, q2) ==
  IF q = <<>> THEN o2 = None /\ q2 = <<>> ELSE o2 = Head(q) /\ q2 = Tail(q)
Entered(h, p, o, q, p2, o2, q2) == h \notin p /\ p2 = p \cup {h} /\ o2 = o /\ q2 = q
Taken(h, p, o, q, p2, o2, q2) == h \in p /\ o = None /\ o2 = h /\ p2 = p /\ q2 = q
Awaited(h, p, o, q, p2, o2, q2) ==
  h \in p /\ o # None /\ q2 = Append(q, h) /\ p2 = p /\ o2 = o
LeftBy(h, p, o, q, p2, o2, q2) ==
  /\ h \in p /\ p2 = p \ {h}
  /\ IF o = h THEN HandedOver(Rest(q, h), o2, q2) ELSE q2 = Rest(q, h) /\ o2 = o
Freed(p, o, q, p2, o2, q2) == o # None /\ HandedOver(q, o2, q2) /\ p2 = p
Moves(p, o, q, p2, o2, q2) ==
  \/ Freed(p, o, q, p2, o2, q2)
  \/ \E h \in HyperSession :
       \/ Entered(h, p, o, q, p2, o2, q2)
       \/ Taken(h, p, o, q, p2, o2, q2)
       \/ Awaited(h, p, o, q, p2, o2, q2)
       \/ LeftBy(h, p, o, q, p2, o2, q2)
  \/ p2 = p /\ o2 = o /\ q2 = q

LockStep(x, y) ==
  Moves(Present(x), x.kv[LockUri].sid, Sids(x.kv[LockUri].waiters),
        Present(y), y.kv[LockUri].sid, Sids(y.kv[LockUri].waiters))

LEMMA LockStepIs ==
  ASSUME LockStep(Realm, Realm')
  PROVE  [TheLock!Next]_TheLock!vars
<1>. PICK p : p = {h \in HyperSession : hyper[h] = "in"}
  OBVIOUS
<1>. PICK o : o = kv[LockUri].sid
  OBVIOUS
<1>. PICK q : q = [i \in DOMAIN kv[LockUri].waiters |-> kv[LockUri].waiters[i].sid]
  OBVIOUS
<1>. PICK p2 : p2 = {h \in HyperSession : hyper'[h] = "in"}
  OBVIOUS
<1>. PICK o2 : o2 = kv'[LockUri].sid
  OBVIOUS
<1>. PICK q2 : q2 = [i \in DOMAIN kv'[LockUri].waiters |-> kv'[LockUri].waiters[i].sid]
  OBVIOUS
<1>1. Moves(p, o, q, p2, o2, q2)
  BY DEF LockStep, Present, Sids, Realm
<1>2. ASSUME Freed(p, o, q, p2, o2, q2) PROVE TheLock!Release
  BY <1>2 DEF Freed, HandedOver, TheLock!Release, TheLock!HandOver
<1>3. ASSUME NEW h \in HyperSession, Entered(h, p, o, q, p2, o2, q2) PROVE TheLock!Enter(h)
  BY <1>3 DEF Entered, TheLock!Enter
<1>4. ASSUME NEW h \in HyperSession, Taken(h, p, o, q, p2, o2, q2) PROVE TheLock!Acquire(h)
  BY <1>4 DEF Taken, TheLock!Acquire
<1>5. ASSUME NEW h \in HyperSession, Awaited(h, p, o, q, p2, o2, q2) PROVE TheLock!Await(h)
  BY <1>5 DEF Awaited, TheLock!Await
<1>6. ASSUME NEW h \in HyperSession, LeftBy(h, p, o, q, p2, o2, q2) PROVE TheLock!Leave(h)
  BY <1>6, AtSame DEF LeftBy, Rest, HandedOver, TheLock!Leave, TheLock!HandOver
<1>7. ASSUME p2 = p, o2 = o, q2 = q PROVE UNCHANGED TheLock!vars
  BY <1>7 DEF TheLock!vars
<1>. QED BY <1>1, <1>2, <1>3, <1>4, <1>5, <1>6, <1>7 DEF Moves, TheLock!Next

(* Releasing hands the lock over to the first that waits.                  *)
LEMMA ReleasedSeen ==
  ASSUME NEW row \in Row
  PROVE  HandedOver(Sids(row.waiters), Released(row).sid, Sids(Released(row).waiters))
<1>. PICK ws : ws = row.waiters
  OBVIOUS
<1>1. ws \in Seq(Waits)
  BY DEF Row
<1>2. CASE ws = <<>>
  <2>1. Released(row) = NoRow /\ Sids(ws) = <<>>
    BY <1>2, SidsNone DEF Released
  <2>. QED BY <2>1, NoRowIs, SidsNone DEF HandedOver
<1>3. CASE ws # <<>>
  <2>1. Head(ws) \in Waits /\ Tail(ws) \in Seq(Waits)
    BY <1>1, <1>3
  <2>2. Released(row) = Given(Head(ws), Tail(ws))
    BY <1>3 DEF Released
  <2>. PICK w : w = Head(ws)
    OBVIOUS
  <2>. PICK t : t = Tail(ws)
    OBVIOUS
  <2>3. Given(w, t).sid = w.sid /\ Given(w, t).waiters = t
    BY <2>1, GivenIs
  <2>4. Released(row).sid = w.sid /\ Released(row).waiters = t
    BY <2>2, <2>3
  <2>. QED BY <1>1, <1>3, <2>4, SidsSome DEF HandedOver
<1>. QED BY <1>2, <1>3

LEMMA LockRow ==
  ASSUME NEW x, RealmOK(x)
  PROVE  LET row == x.kv[LockUri]
         IN row \in Row /\ row.waiters \in Seq(Waits) /\ (row.sid = None <=> row = NoRow)
<1>. PICK row : row = x.kv[LockUri]
  OBVIOUS
<1>1. x \in RealmRecord /\ LockUri \in Key /\ RowOK(x, LockUri, row)
  BY LockIsKey DEF RealmOK, RowsOK
<1>2. row \in Row /\ row.waiters \in Seq(Waits)
  BY <1>1, RowType
<1>3. row # NoRow => row.sid \in HyperSession
  BY <1>1 DEF RowOK
<1>4. None \notin HyperSession
  BY SessionAssumption
<1>. QED BY <1>2, <1>3, <1>4, NoRowIs

(* Steps after which the same sessions are there and the lock is as before *)
(* or was released.                                                        *)
LEMMA StillOrFreed ==
  ASSUME NEW x, RealmOK(x), NEW y, y.hyper = x.hyper,
         y.kv[LockUri] = x.kv[LockUri] \/ y.kv[LockUri] = Released(x.kv[LockUri])
  PROVE  LockStep(x, y)
<1>. PICK row : row = x.kv[LockUri]
  OBVIOUS
<1>. PICK new : new = y.kv[LockUri]
  OBVIOUS
<1>. PICK p : p = Present(x)
  OBVIOUS
<1>1. Present(y) = p
  BY DEF Present
<1>2. row \in Row /\ (row.sid = None <=> row = NoRow)
  BY LockRow
<1>3. CASE new = row
  <2>1. Moves(p, row.sid, Sids(row.waiters), p, new.sid, Sids(new.waiters))
    BY <1>3 DEF Moves
  <2>. QED BY <1>1, <2>1 DEF LockStep
<1>4. CASE new = Released(row) /\ row = NoRow
  <2>1. new = row
    BY <1>4, NoRowIs DEF Released
  <2>. QED BY <1>3, <2>1
<1>5. CASE new = Released(row) /\ row # NoRow
  <2>1. Freed(p, row.sid, Sids(row.waiters), p, new.sid, Sids(new.waiters))
    BY <1>2, <1>5, ReleasedSeen DEF Freed
  <2>2. Moves(p, row.sid, Sids(row.waiters), p, new.sid, Sids(new.waiters))
    BY <2>1 DEF Moves
  <2>. QED BY <1>1, <2>2 DEF LockStep
<1>. QED BY <1>3, <1>4, <1>5

LEMMA JoinedSeen ==
  ASSUME NEW x, RealmOK(x), NEW h \in HyperSession, NEW y, Joined(x, y, h), x.hyper[h] = "new"
  PROVE  LockStep(x, y)
<1>. PICK o : o = x.kv[LockUri].sid
  OBVIOUS
<1>. PICK q : q = Sids(x.kv[LockUri].waiters)
  OBVIOUS
<1>1. x.hyper \in [HyperSession -> {"new", "in", "over"}]
  BY DEF RealmOK, RealmRecord
<1>2. y.hyper = [x.hyper EXCEPT ![h] = "in"] /\ y.kv = x.kv
  BY DEF Joined
<1>3. h \notin Present(x) /\ Present(y) = Present(x) \cup {h}
  BY <1>1, <1>2 DEF Present
<1>4. Entered(h, Present(x), o, q, Present(y), o, q)
  BY <1>3 DEF Entered
<1>5. Moves(Present(x), o, q, Present(y), o, q)
  BY <1>4 DEF Moves
<1>. QED BY <1>2, <1>5 DEF LockStep

LEMMA PushedSeen ==
  ASSUME NEW x, RealmOK(x), NEW h \in HyperSession, NEW y, Pushed(x, y, h), x.hyper[h] = "in"
  PROVE  LockStep(x, y)
<1>. PICK row : row = x.kv[LockUri]
  OBVIOUS
<1>. PICK new : new = y.kv[LockUri]
  OBVIOUS
<1>. PICK n : n = x.lastId + 1
  OBVIOUS
<1>. PICK p : p = Present(x)
  OBVIOUS
<1>. PICK w : w = LockEvent(h, n)
  OBVIOUS
<1>1. y.hyper = x.hyper /\ LockMoved(row, new, h, n)
  BY DEF Pushed, Done
<1>2. Present(y) = p /\ h \in p
  BY <1>1 DEF Present
<1>3. row \in Row /\ row.waiters \in Seq(Waits) /\ (row.sid = None <=> row = NoRow)
  BY LockRow
<1>4. n \in Nat
  BY DEF RealmOK, RealmRecord
<1>5. w \in Waits /\ w.sid = h
  <2>1. w \in Waits
    BY <1>4 DEF Waits
  <2>2. w.sid = h
    BY DEF LockEvent
  <2>. QED BY <2>1, <2>2
<1>6. CASE row = NoRow /\ new = Held(h, n)
  <2>1. new.sid = h /\ new.waiters = <<>> /\ row.sid = None /\ row.waiters = <<>>
    BY <1>6, NoRowIs DEF Held
  <2>2. Taken(h, p, row.sid, Sids(row.waiters), p, new.sid, Sids(new.waiters))
    BY <1>2, <2>1 DEF Taken
  <2>3. Moves(p, row.sid, Sids(row.waiters), p, new.sid, Sids(new.waiters))
    BY <2>2 DEF Moves
  <2>. QED BY <1>2, <2>3 DEF LockStep
<1>7. CASE row # NoRow /\ new = Queued(row, w)
  <2>1. Append(row.waiters, w) \in Seq(Waits)
    BY <1>3, <1>5
  <2>. PICK t : t = Append(row.waiters, w)
    OBVIOUS
  <2>6. Queued(row, w).sid = row.sid /\ Queued(row, w).waiters = t
    BY <1>3, <2>1, QueuedIs
  <2>2. new.sid = row.sid /\ new.waiters = Append(row.waiters, w)
    BY <1>7, <2>6
  <2>3. Sids(new.waiters) = Append(Sids(row.waiters), h)
    BY <1>3, <1>5, <2>2, SidsMore
  <2>4. Awaited(h, p, row.sid, Sids(row.waiters), p, new.sid, Sids(new.waiters))
    BY <1>2, <1>3, <1>7, <2>2, <2>3 DEF Awaited
  <2>5. Moves(p, row.sid, Sids(row.waiters), p, new.sid, Sids(new.waiters))
    BY <2>4 DEF Moves
  <2>. QED BY <1>2, <2>5 DEF LockStep
<1>8. CASE new = row \/ new = Released(row)
  BY <1>1, <1>8, StillOrFreed
<1>. QED BY <1>1, <1>6, <1>7, <1>8 DEF LockMoved

LEMMA HyperClosedSeen ==
  ASSUME NEW x, RealmOK(x), NEW h \in HyperSession, NEW y, HyperClosed(x, y, h),
         x.hyper[h] = "in"
  PROVE  LockStep(x, y)
<1>. PICK row : row = x.kv[LockUri]
  OBVIOUS
<1>. PICK new : new = y.kv[LockUri]
  OBVIOUS
<1>. PICK d : d = Dropped(row, h)
  OBVIOUS
<1>. PICK p : p = Present(x)
  OBVIOUS
<1>. PICK q : q = Sids(row.waiters)
  OBVIOUS
<1>1. y.hyper = [x.hyper EXCEPT ![h] = "over"] /\ new = Vacated(row, h)
  BY DEF HyperClosed
<1>2. x.hyper \in [HyperSession -> {"new", "in", "over"}]
  BY DEF RealmOK, RealmRecord
<1>3. h \in p /\ Present(y) = p \ {h}
  BY <1>1, <1>2 DEF Present
<1>4. row \in Row /\ row.waiters \in Seq(Waits)
  BY LockRow
<1>5. d \in Row /\ d.sid = row.sid /\ d.waiters = At(row.waiters, Others(row.waiters, h))
  BY <1>4, DroppedIs
<1>6. Sids(d.waiters) = Rest(q, h)
  BY <1>4, <1>5, SidsRest
<1>7. CASE row.sid = h
  <2>1. new = Released(d)
    BY <1>1, <1>7 DEF Vacated
  <2>2. HandedOver(Rest(q, h), new.sid, Sids(new.waiters))
    BY <1>5, <1>6, <2>1, ReleasedSeen
  <2>3. LeftBy(h, p, row.sid, q, Present(y), new.sid, Sids(new.waiters))
    BY <1>3, <1>7, <2>2 DEF LeftBy
  <2>4. Moves(p, row.sid, q, Present(y), new.sid, Sids(new.waiters))
    BY <2>3 DEF Moves
  <2>. QED BY <2>4 DEF LockStep
<1>8. CASE row.sid # h
  <2>1. new = d
    BY <1>1, <1>8 DEF Vacated
  <2>2. LeftBy(h, p, row.sid, q, Present(y), new.sid, Sids(new.waiters))
    BY <1>3, <1>5, <1>6, <1>8, <2>1 DEF LeftBy
  <2>3. Moves(p, row.sid, q, Present(y), new.sid, Sids(new.waiters))
    BY <2>2 DEF Moves
  <2>. QED BY <2>3 DEF LockStep
<1>. QED BY <1>7, <1>8

(* Every step of a realm in order is a step of Mutex or changes nothing of *)
(* it.                                                                     *)
LEMMA NextMutex == IInv /\ [Next]_vars => [TheLock!Next]_TheLock!vars
<1>. SUFFICES ASSUME IInv, [Next]_vars PROVE LockStep(Realm, Realm')
  BY LockStepIs
<1>. PICK x : x = Realm
  OBVIOUS
<1>. PICK y : y = Realm'
  OBVIOUS
<1>1. RealmOK(x)
  BY DEF IInv
<1>2. ASSUME NEW h \in HyperSession, Login(h) PROVE LockStep(x, y)
  BY <1>1, <1>2, LoginStep, JoinedSeen
<1>3. ASSUME NEW h \in HyperSession, Push(h) PROVE LockStep(x, y)
  BY <1>1, <1>3, PushStep, PushedSeen
<1>4. ASSUME NEW h \in HyperSession, Close(h) PROVE LockStep(x, y)
  BY <1>1, <1>4, HyperCloseStep, HyperClosedSeen
<1>5. ASSUME NEW m \in MqttClientSession, Close(m) PROVE LockStep(x, y)
  <2>1. MqttClosed(x, y, m)
    BY <1>1, <1>5, MqttCloseStep
  <2>. QED BY <1>1, <2>1, StillOrFreed DEF MqttClosed
<1>6. ASSUME NEW m \in MqttClientSession, NEW r, Changed(x, m, r, y) PROVE LockStep(x, y)
  BY <1>1, <1>6, StillOrFreed DEF Changed
<1>7. ASSUME NEW m \in MqttClientSession, Connect(m) PROVE LockStep(x, y)
  BY <1>1, <1>6, <1>7, ConnectStep
<1>8. ASSUME NEW m \in MqttClientSession, Subscribe(m) PROVE LockStep(x, y)
  BY <1>1, <1>6, <1>8, SubscribeStep
<1>9. ASSUME NEW m \in MqttClientSession, Disconnect(m) PROVE LockStep(x, y)
  BY <1>1, <1>6, <1>9, DisconnectStep
<1>10. ASSUME NEW m \in MqttClientSession, Publish(m) PROVE LockStep(x, y)
  <2>1. Published(x, y, m)
    BY <1>1, <1>10, PublishStep
  <2>. QED BY <1>1, <2>1, StillOrFreed DEF Published, Done
<1>11. ASSUME NEW m \in MqttClientSession, Puback(m) PROVE LockStep(x, y)
  <2>1. Noted(x, y, m)
    BY <1>1, <1>11, PubackStep
  <2>. QED BY <1>1, <2>1, StillOrFreed DEF Noted
<1>12. ASSUME UNCHANGED vars PROVE LockStep(x, y)
  <2>1. y = x
    BY <1>12 DEF Realm, vars
  <2>. QED BY <1>1, <2>1, StillOrFreed
<1>13. ASSUME Next PROVE LockStep(x, y)
  <2>1. ASSUME \E h \in HyperSession : Login(h) \/ Push(h) PROVE LockStep(x, y)
    BY <1>2, <1>3, <2>1
  <2>2. ASSUME \E m \in MqttClientSession :
                 Connect(m) \/ Subscribe(m) \/ Publish(m) \/ Puback(m) \/ Disconnect(m)
        PROVE  LockStep(x, y)
    BY <1>7, <1>8, <1>9, <1>10, <1>11, <2>2
  <2>3. ASSUME \E s \in Session : Close(s) PROVE LockStep(x, y)
    BY <1>4, <1>5, <2>3 DEF Session
  <2>. QED BY <1>13, <2>1, <2>2, <2>3 DEF Next
<1>. QED BY <1>12, <1>13

LEMMA InitMutex == Init => TheLock!Init
<1>. SUFFICES ASSUME Init PROVE TheLock!Init
  OBVIOUS
<1>1. kv[LockUri] = NoRow /\ \A h \in HyperSession : hyper[h] = "new"
  BY LockIsKey DEF Init
<1>2. {h \in HyperSession : hyper[h] = "in"} = {}
  BY <1>1
<1>3. Sids(kv[LockUri].waiters) = <<>> /\ kv[LockUri].sid = None
  BY <1>1, NoRowIs, SidsNone
<1>. QED BY <1>2, <1>3 DEF TheLock!Init, Sids

(* The lock that Hyper sessions make of a key implements Mutex: one owner, *)
(* those who wait are served in their order, and whoever is gone neither   *)
(* owns the lock nor waits, however pushes, packets, wills and ends of     *)
(* sessions alternate.                                                     *)
THEOREM IsMutexCorrect == Spec => IsMutex
BY InvariantCorrect, InitMutex, NextMutex, PTL DEF Spec, IsMutex, TheLock!Spec

=============================================================================
