---------------------------- MODULE Synchronizer ----------------------------
(***************************************************************************)
(* The election of permanent segment ids (lib/masterfree/synchronizer.ts). *)
(* A sync node drafts one id for every closed segment and sends it to the  *)
(* other sync nodes (StageOneTask); when a quorum drafted for a segment,   *)
(* the node takes the lowest head of the voters' drafts and votes with it. *)
(* A storage node takes the highest challenger of a quorum of votes as the *)
(* permanent id of the segment (StageTwoTask).                             *)
(*                                                                         *)
(* An id is a pair <<prefix, position>>: keyComplexId writes it as a text  *)
(* that sorts like the pair.  Links keep the order of their messages (one  *)
(* TCP connection each).  A request for a draft comes from every storage   *)
(* node, in the order in which the entry closed its segments.              *)
(***************************************************************************)
EXTENDS Naturals, Sequences, FiniteSets

CONSTANTS
  Sync,         \* sync nodes
  Ndb,          \* storage nodes
  Entry,        \* entry nodes, the advance owners
  SyncQuorum,   \* config syncQuorum
  MaxSegment,   \* bound: segments of one entry
  MaxMinute     \* bound: prefixes (minutes) the clocks go through

ASSUME SyncAssumption == IsFiniteSet(Sync)
ASSUME QuorumAssumption == SyncQuorum \in 1 .. Cardinality(Sync)
ASSUME BoundAssumption == MaxSegment \in Nat /\ MaxMinute \in Nat \ {0}

VARIABLES
  makeId,         \* StageOneTask.makeId: last id drafted or seen, by sync node
  recentAdvance,  \* advanceOwnerState: last segment drafted for, by entry
  draftHeap,      \* draftHeap: drafts not passed by yet, by their owner
  voters,         \* advanceIdHeap: who drafted for a segment, first one first
  done,           \* keys of doneHeap (its sets are never read)
  recentValue,    \* recentValue: the last challenger
  halted,         \* sync nodes ended by an Error that nothing catches
  pick,           \* PICK_CHALLENGER messages from a sync node to another
  elect,          \* ELECT_SEGMENT messages from a sync node to a storage node
  ready,          \* StageTwoTask.readyQuorum, by storage node
  resolved        \* history: ADVANCE_SEGMENT_RESOLVED published, by storage node

stageOne == <<makeId, recentAdvance, draftHeap, voters, done, recentValue, halted>>
vars == <<stageOne, pick, elect, ready, resolved>>

AdvanceId == Entry \X (1 .. MaxSegment)
Id == Nat \X Nat
NoId == <<0, 0>>

Less(a, b) == a[1] < b[1] \/ (a[1] = b[1] /\ a[2] < b[2])
Lowest(S)  == {a \in S : \A b \in S : ~Less(b, a)}
Highest(S) == {a \in S : \A b \in S : ~Less(a, b)}

Votes == [vouters : SUBSET Sync, challengers : SUBSET Id]
NoVotes == [vouters |-> {}, challengers |-> {}]
PickMsg == [advanceId : AdvanceId, draftId : Id]
ElectMsg == [advanceId : AdvanceId, challenger : Id]
Resolution == [advanceId : AdvanceId, id : Id, vouters : SUBSET Sync]

IsQuorumShort(n) == n >= SyncQuorum - 1
IsQuorumStrict(n) == n > SyncQuorum
IsQuorum(n) == n >= SyncQuorum

-----------------------------------------------------------------------------
(* ProduceId *)

TakePos(pos, id) == id
ReconcilePrefix(pos, id) == IF pos[1] < id[1] THEN id ELSE pos
ReconcilePos(pos, id) == IF Less(pos, id) THEN id ELSE pos
GenerateIdRec(pos) == <<pos[1], pos[2] + 1>>

Init ==
  /\ makeId = [n \in Sync |-> <<1, 0>>]
  /\ recentAdvance = [n \in Sync |-> [e \in Entry |-> 0]]
  /\ draftHeap = [n \in Sync |-> [m \in Sync |-> <<>>]]
  /\ voters = [n \in Sync |-> [a \in AdvanceId |-> <<>>]]
  /\ done = [n \in Sync |-> {}]
  /\ recentValue = [n \in Sync |-> NoId]
  /\ halted = {}
  /\ pick = [m \in Sync |-> [n \in Sync |-> <<>>]]
  /\ elect = [n \in Sync |-> [d \in Ndb |-> <<>>]]
  /\ ready = [d \in Ndb |-> [a \in AdvanceId |-> NoVotes]]
  /\ resolved = [d \in Ndb |-> {}]

(* startActualizePrefixTimer: the clocks of the nodes need not agree. *)
ActualizePrefix(n, minute) ==
  /\ n \notin halted
  /\ makeId[n][1] < minute
  /\ makeId' = [makeId EXCEPT ![n] = <<minute, 0>>]
  /\ UNCHANGED <<recentAdvance, draftHeap, voters, done, recentValue, halted,
                 pick, elect, ready, resolved>>

-----------------------------------------------------------------------------
(* extractDraft.  A voter whose stack is empty makes the minimum start     *)
(* anew behind it: `undefined` is neither kept nor lower than anything.    *)
Candidates(heap, vs) ==
  {heap[vs[i]][1] : i \in {k \in DOMAIN vs : \A j \in k .. Len(vs) : heap[vs[j]] # <<>>}}

Passed(q, id) == {i \in DOMAIN q : \A j \in 1 .. i : ~Less(id, q[j])}
DropUpTo(q, id) == SubSeq(q, Cardinality(Passed(q, id)) + 1, Len(q))

WithVoter(vs, owner) ==
  IF \E i \in DOMAIN vs : vs[i] = owner THEN vs ELSE Append(vs, owner)

(* event_pick_challenger on node n, for a draft of owner. *)
LateDraft(n, a, heap) ==
  /\ a \in done[n]
  /\ draftHeap' = [draftHeap EXCEPT ![n] = heap]
  /\ UNCHANGED <<voters, done, recentValue, halted, elect>>

DraftVote(n, a, heap, vs) ==
  /\ a \notin done[n]
  /\ ~IsQuorum(Len(vs))
  /\ draftHeap' = [draftHeap EXCEPT ![n] = heap]
  /\ voters' = [voters EXCEPT ![n][a] = vs]
  /\ UNCHANGED <<done, recentValue, halted, elect>>

(* setRecentValue throws when the challenger is below the one before: the  *)
(* segment is marked as done, but no vote is sent and the process ends.    *)
SegmentElected(n, a, heap, vs) ==
  /\ a \notin done[n]
  /\ IsQuorum(Len(vs))
  /\ voters' = [voters EXCEPT ![n][a] = <<>>]
  /\ done' = [done EXCEPT ![n] = @ \cup {a}]
  /\ \E challenger \in Lowest(Candidates(heap, vs)) :
       /\ draftHeap' = [draftHeap EXCEPT ![n] = [m \in Sync |-> DropUpTo(heap[m], challenger)]]
       /\ \/ /\ Less(challenger, recentValue[n])
             /\ halted' = halted \cup {n}
             /\ UNCHANGED <<recentValue, elect>>
          \/ /\ ~Less(challenger, recentValue[n])
             /\ recentValue' = [recentValue EXCEPT ![n] = challenger]
             /\ elect' = [elect EXCEPT ![n] = [d \in Ndb |->
                           Append(@[d], [advanceId |-> a, challenger |-> challenger])]]
             /\ UNCHANGED halted

PickChallenger(n, owner, a, id) ==
  LET heap == [draftHeap[n] EXCEPT ![owner] = Append(@, id)]
      vs == WithVoter(voters[n][a], owner)
  IN LateDraft(n, a, heap) \/ DraftVote(n, a, heap, vs) \/ SegmentElected(n, a, heap, vs)

(* event_generate_draft: a request that was answered already is skipped. *)
NotDrafted(n, e, k) == recentAdvance[n][e] < k

GenerateDraft(n, e, k) ==
  /\ n \notin halted
  /\ k <= recentAdvance[n][e] + 1
  /\ NotDrafted(n, e, k)
  /\ recentAdvance' = [recentAdvance EXCEPT ![n][e] = k]
  /\ LET draftId == GenerateIdRec(makeId[n])
     IN /\ makeId' = [makeId EXCEPT ![n] = draftId]
        /\ pick' = [pick EXCEPT ![n] = [m \in Sync |->
                     IF m = n THEN @[m]
                     ELSE Append(@[m], [advanceId |-> <<e, k>>, draftId |-> draftId])]]
        /\ PickChallenger(n, n, <<e, k>>, draftId)
  /\ UNCHANGED <<ready, resolved>>

(* A pipe carries the messages of a link in their order. *)
AnyInTransit(q) == DOMAIN q
NextInTransit(q) == {i \in DOMAIN q : i = 1}
Without(q, i) == SubSeq(q, 1, i - 1) \o SubSeq(q, i + 1, Len(q))

DraftArrived(n, owner) ==
  /\ n \notin halted
  /\ \E i \in NextInTransit(pick[owner][n]) :
       LET msg == pick[owner][n][i]
       IN /\ pick' = [pick EXCEPT ![owner][n] = Without(@, i)]
          /\ makeId' = [makeId EXCEPT ![n] = ReconcilePos(@, msg.draftId)]
          /\ PickChallenger(n, owner, msg.advanceId, msg.draftId)
  /\ UNCHANGED <<recentAdvance, ready, resolved>>

-----------------------------------------------------------------------------
(* event_elect_segment on storage node d.  Its own recentValue is never    *)
(* set, so no vote is ever skipped as applied.                             *)
ElectSegment(d, n) ==
  /\ elect[n][d] # <<>>
  /\ elect' = [elect EXCEPT ![n][d] = Tail(@)]
  /\ LET msg == Head(elect[n][d])
         a == msg.advanceId
         readySet == [vouters |-> ready[d][a].vouters \cup {n},
                      challengers |-> ready[d][a].challengers \cup {msg.challenger}]
     IN \/ /\ IsQuorum(Cardinality(readySet.vouters))
           /\ ready' = [ready EXCEPT ![d][a] = NoVotes]
           /\ \E id \in Highest(readySet.challengers) :
                resolved' = [resolved EXCEPT ![d] = @ \cup
                  {[advanceId |-> a, id |-> id, vouters |-> readySet.vouters]}]
        \/ /\ ~IsQuorum(Cardinality(readySet.vouters))
           /\ ready' = [ready EXCEPT ![d][a] = readySet]
           /\ UNCHANGED resolved
  /\ UNCHANGED <<stageOne, pick>>

Next ==
  \/ \E n \in Sync, minute \in 1 .. MaxMinute : ActualizePrefix(n, minute)
  \/ \E n \in Sync, e \in Entry, k \in 1 .. MaxSegment : GenerateDraft(n, e, k)
  \/ \E n, owner \in Sync : DraftArrived(n, owner)
  \/ \E d \in Ndb, n \in Sync : ElectSegment(d, n)

Spec == Init /\ [][Next]_vars

-----------------------------------------------------------------------------
(* Every variable has its type, and the votes that are kept for a segment  *)
(* are fewer than a quorum, at a sync node (advanceIdHeap) and at a        *)
(* storage node (readyQuorum): a quorum is acted upon at once.             *)
TypeOK ==
  /\ makeId \in [Sync -> Id]
  /\ recentAdvance \in [Sync -> [Entry -> 0 .. MaxSegment]]
  /\ draftHeap \in [Sync -> [Sync -> Seq(Id)]]
  /\ voters \in [Sync -> [AdvanceId -> Seq(Sync)]]
  /\ \A n \in Sync, a \in AdvanceId : Len(voters[n][a]) < SyncQuorum
  /\ done \in [Sync -> SUBSET AdvanceId]
  /\ recentValue \in [Sync -> Id]
  /\ halted \subseteq Sync
  /\ pick \in [Sync -> [Sync -> Seq(PickMsg)]]
  /\ elect \in [Sync -> [Ndb -> Seq(ElectMsg)]]
  /\ ready \in [Ndb -> [AdvanceId -> Votes]]
  /\ \A d \in Ndb, a \in AdvanceId : Cardinality(ready[d][a].vouters) < SyncQuorum
  /\ resolved \in [Ndb -> SUBSET Resolution]

(* A sync node elects a segment only when a quorum of the sync nodes has   *)
(* drafted an id for that very segment (event_pick_challenger).            *)
Drafted(a) == {m \in Sync : recentAdvance[m][a[1]] >= a[2]}

ElectBacked ==
  \A n \in Sync : \A a \in done[n] : Cardinality(Drafted(a)) >= SyncQuorum

(* A sync node elects the segments of one entry in the order in which the  *)
(* entry closed them, whoever the voters of each segment are.              *)
ElectedInOrder ==
  \A n \in Sync, e \in Entry : \A j, k \in 1 .. MaxSegment :
    j < k /\ <<e, k>> \in done[n] => <<e, j>> \in done[n]

(* The stack of an owner's drafts, with those still on their way, ascends: *)
(* its first element is the lowest, as extractDraft takes it to be.        *)
Coming(m, n) == [i \in DOMAIN pick[m][n] |-> pick[m][n][i].draftId]

StacksAscend ==
  \A m, n \in Sync :
    LET q == draftHeap[n][m] \o Coming(m, n)
    IN \A i, j \in DOMAIN q : i < j => Less(q[i], q[j])

(* A new draft is above every draft that its node has seen or elected, so  *)
(* it can never be below the recentValue of that node.                     *)
DraftAboveSeen ==
  [][\A n \in Sync :
       recentAdvance'[n] # recentAdvance[n] =>
         /\ Less(recentValue[n], makeId'[n])
         /\ \A m \in Sync : \A i \in DOMAIN draftHeap[n][m] :
              Less(draftHeap[n][m][i], makeId'[n])]_vars

(* A storage node resolves a segment once: the votes that come after the   *)
(* quorum open readyQuorum again, but are too few to fill it.              *)
ResolvedOnce ==
  \A d \in Ndb : \A x, y \in resolved[d] : x.advanceId = y.advanceId => x = y

(* What openspec/specs/distributed-mode.md promises of a permanent id: no  *)
(* other segment has it ...                                                *)
UniqueId ==
  \A d \in Ndb : \A x, y \in resolved[d] : x.id = y.id => x.advanceId = y.advanceId

(* ... and every storage node stores the segment under the same one.       *)
NdbAgree ==
  \A c, d \in Ndb : \A x \in resolved[c], y \in resolved[d] :
    x.advanceId = y.advanceId => x.id = y.id
=============================================================================
