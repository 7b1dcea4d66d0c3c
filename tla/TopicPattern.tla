---------------------------- MODULE TopicPattern ----------------------------
(***************************************************************************)
(* Topics and topic patterns (lib/topic_pattern.ts).  A topic is a         *)
(* sequence of levels; in a pattern "*" stands for any level, and "#", its *)
(* last element, for any number of them.  (What the parsers do with "#"    *)
(* elsewhere is not modelled.)                                             *)
(***************************************************************************)
EXTENDS OrderedSets

Topics(words, n) == UNION {[1 .. k -> words] : k \in 0 .. n}

Open(p) == \E i \in DOMAIN p : p[i] = "#"
Levels(p) == IF Open(p) THEN Len(p) - 1 ELSE Len(p)

(* match: does the topic u fit the pattern p? *)
Agree(u, p) == \A i \in 1 .. Levels(p) : p[i] = "*" \/ (i <= Len(u) /\ u[i] = p[i])
MatchLonger(u, p) == Agree(u, p) /\ IF Open(p) THEN Len(u) > Levels(p) ELSE Len(u) = Len(p)
Match(u, p) == Agree(u, p) /\ IF Open(p) THEN Len(u) >= Levels(p) ELSE Len(u) = Len(p)

(* intersect: is there a topic that fits both patterns? *)
Compatible(a, b) == a = b \/ a = "*" \/ b = "*"
Common(p, q) == 1 .. (IF Len(p) < Len(q) THEN Len(p) ELSE Len(q))
OpenAt(p, i) == i \in DOMAIN p /\ p[i] = "#"
IntersectEqual(p, q) ==
  LET wild == {i \in Common(p, q) : OpenAt(p, i) \/ OpenAt(q, i)}
      before(i) == \A j \in Common(p, q) : j < i => Compatible(p[j], q[j])
      next == Len(p) + 1
  IN \/ \E i \in wild : before(i)
     \/ wild = {} /\ before(next) /\ Len(p) = Len(q)
Intersect(p, q) ==
  LET wild == {i \in Common(p, q) : OpenAt(p, i) \/ OpenAt(q, i)}
      before(i) == \A j \in Common(p, q) : j < i => Compatible(p[j], q[j])
      next == (IF Len(p) < Len(q) THEN Len(p) ELSE Len(q)) + 1
  IN \/ \E i \in wild : before(i)
     \/ /\ wild = {} /\ before(next)
        /\ Len(p) = Len(q) \/ OpenAt(p, next) \/ OpenAt(q, next)

(* extract: the levels of u that stand for a wildcard of p; none where u   *)
(* does not fit p, as well as where p has no wildcard.                     *)
Stars(p) == {i \in 1 .. Levels(p) : p[i] = "*"}
ExtractStars(u, p) ==
  IF ~Match(u, p) THEN <<>>
  ELSE LET at == Sorted(Stars(p)) IN [k \in DOMAIN at |-> u[at[k]]]
Extract(u, p) ==
  IF ~Match(u, p)
  THEN <<>>
  ELSE LET at == Sorted(Stars(p))
       IN [k \in DOMAIN at |-> u[at[k]]]
            \o (IF Open(p) THEN SubSeq(u, Len(p), Len(u)) ELSE <<>>)

(* merge: p, with its wildcards replaced by the levels of key in order. *)
Merge(key, p) ==
  LET rank(i) == Cardinality({j \in Stars(p) : j <= i})
  IN [i \in 1 .. Levels(p) |-> IF p[i] = "*" THEN key[rank(i)] ELSE p[i]]
       \o (IF Open(p) THEN SubSeq(key, rank(Levels(p)) + 1, Len(key)) ELSE <<>>)

-----------------------------------------------------------------------------
(* What a pattern means: the topics, up to n levels, that it stands for.   *)
Meaning(p, words, n) ==
  {u \in Topics(words, n) :
     \E tail \in Topics(words, n), head \in [1 .. Levels(p) -> words] :
       /\ u = head \o (IF Open(p) THEN tail ELSE <<>>)
       /\ \A i \in 1 .. Levels(p) : p[i] \in {"*", head[i]}}

Patterns(words, n) ==
  {p \in Topics(words \cup {"*", "#"}, n) : \A i \in DOMAIN p : p[i] = "#" => i = Len(p)}
=============================================================================
