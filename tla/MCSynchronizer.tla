--------------------------- MODULE MCSynchronizer ---------------------------
EXTENDS Synchronizer, TLC

Symmetry == Permutations(Sync) \cup Permutations(Ndb) \cup Permutations(Entry)

(* Votes reach a storage node only while no node has advanced to a second  *)
(* segment: ResolvedOnce is about the votes for one segment.               *)
Scope ==
  (\E n \in Sync, e \in Entry : recentAdvance[n][e] > 1) =>
    \A d \in Ndb : resolved[d] = {} /\ \A a \in AdvanceId : ready[d][a] = NoVotes
=============================================================================
