------------------------- MODULE SynchronizerProofs -------------------------
(* Theorems about the election of segment ids, for any sets of nodes and   *)
(* any quorum.                                                             *)
EXTENDS Synchronizer, TLAPS, FiniteSetTheorems, SequenceTheorems

-----------------------------------------------------------------------------
(* Operators of extractDraft and event_pick_challenger keep their types. *)

LEMMA DropUpToType ==
  ASSUME NEW q \in Seq(Id), NEW id
  PROVE  DropUpTo(q, id) \in Seq(Id)
<1>1. DOMAIN q = 1 .. Len(q) /\ Len(q) \in Nat
  BY LenProperties
<1>2. IsFiniteSet(1 .. Len(q))
  BY <1>1, FS_Interval
<1>3. Passed(q, id) \in SUBSET (1 .. Len(q))
  BY <1>1 DEF Passed
<1>4. IsFiniteSet(Passed(q, id))
  BY <1>2, <1>3, FS_Subset
<1>5. Cardinality(Passed(q, id)) \in Nat
  BY <1>4, FS_CardinalityType
<1>6. \A i \in (Cardinality(Passed(q, id)) + 1) .. Len(q) : q[i] \in Id
  BY <1>1, <1>5, ElementOfSeq
<1>7. Cardinality(Passed(q, id)) + 1 \in Int /\ Len(q) \in Int
  BY <1>1, <1>5
<1>. QED BY <1>6, <1>7, SubSeqProperties DEF DropUpTo

LEMMA WithVoterType ==
  ASSUME NEW vs \in Seq(Sync), NEW owner \in Sync
  PROVE  WithVoter(vs, owner) \in Seq(Sync)
  BY AppendProperties DEF WithVoter

LEMMA CandidatesType ==
  ASSUME NEW heap \in [Sync -> Seq(Id)], NEW vs \in Seq(Sync)
  PROVE  Candidates(heap, vs) \subseteq Id
<1>1. DOMAIN vs = 1 .. Len(vs) /\ Len(vs) \in Nat
  BY LenProperties
<1>2. ASSUME NEW i \in DOMAIN vs, \A j \in i .. Len(vs) : heap[vs[j]] # <<>>
      PROVE  heap[vs[i]][1] \in Id
  <2>1. heap[vs[i]] # <<>>
    BY <1>1, <1>2
  <2>2. vs[i] \in Sync
    BY <1>1, ElementOfSeq
  <2>3. heap[vs[i]] \in Seq(Id)
    BY <2>2
  <2>4. Len(heap[vs[i]]) \in Nat \ {0}
    BY <2>1, <2>3, EmptySeq
  <2>5. 1 \in 1 .. Len(heap[vs[i]])
    BY <2>4
  <2>. QED BY <2>3, <2>5, ElementOfSeq
<1>. QED BY <1>2 DEF Candidates

-----------------------------------------------------------------------------
(* What event_pick_challenger changes, for the proofs: either no segment   *)
(* is elected, or segment a is marked as done and at most one vote for it  *)
(* is sent to each storage node.                                           *)
VoteSent(n, a, challenger) ==
  elect' = [elect EXCEPT ![n] = [d \in Ndb |->
              Append(elect[n][d], [advanceId |-> a, challenger |-> challenger])]]

Elected(n, a) ==
  /\ a \notin done[n]
  /\ done' = [done EXCEPT ![n] = done[n] \cup {a}]
  /\ elect' = elect \/ \E challenger \in Id : VoteSent(n, a, challenger)

LEMMA PickChallengerStep ==
  ASSUME TypeOK, NEW n \in Sync, NEW owner \in Sync, NEW a \in AdvanceId,
         NEW id \in Id, PickChallenger(n, owner, a, id)
  PROVE  /\ draftHeap' \in [Sync -> [Sync -> Seq(Id)]]
         /\ voters' \in [Sync -> [AdvanceId -> Seq(Sync)]]
         /\ \A m \in Sync, b \in AdvanceId : Len(voters'[m][b]) < SyncQuorum
         /\ recentValue' \in [Sync -> Id]
         /\ halted' \subseteq Sync
         /\ Elected(n, a) \/ UNCHANGED <<done, elect>>
<1>1. PICK heap : heap = [draftHeap[n] EXCEPT ![owner] = Append(draftHeap[n][owner], id)]
  OBVIOUS
<1>2. PICK vs : vs = WithVoter(voters[n][a], owner)
  OBVIOUS
<1>3. heap \in [Sync -> Seq(Id)]
  <2>1. draftHeap[n] \in [Sync -> Seq(Id)]
    BY DEF TypeOK
  <2>2. Append(draftHeap[n][owner], id) \in Seq(Id)
    BY <2>1, AppendProperties
  <2>. QED BY <1>1, <2>1, <2>2
<1>4. vs \in Seq(Sync) /\ Len(vs) \in Nat
  BY <1>2, WithVoterType, LenProperties DEF TypeOK
<1>5. SyncQuorum \in Nat \ {0}
  BY QuorumAssumption, SyncAssumption, FS_CardinalityType
<1>6. LateDraft(n, a, heap) \/ DraftVote(n, a, heap, vs) \/ SegmentElected(n, a, heap, vs)
  BY <1>1, <1>2 DEF PickChallenger
<1>7. CASE LateDraft(n, a, heap)
  BY <1>3, <1>7 DEF LateDraft, TypeOK
<1>8. CASE DraftVote(n, a, heap, vs)
  <2>1. Len(vs) < SyncQuorum
    BY <1>4, <1>5, <1>8 DEF DraftVote, IsQuorum
  <2>2. voters' = [voters EXCEPT ![n][a] = vs] /\ draftHeap' = [draftHeap EXCEPT ![n] = heap]
    BY <1>8 DEF DraftVote
  <2>3. draftHeap' \in [Sync -> [Sync -> Seq(Id)]]
    BY <1>3, <2>2 DEF TypeOK
  <2>4. voters' \in [Sync -> [AdvanceId -> Seq(Sync)]]
    BY <1>4, <2>2 DEF TypeOK
  <2>5. \A m \in Sync, b \in AdvanceId : Len(voters'[m][b]) < SyncQuorum
    BY <2>1, <2>2 DEF TypeOK
  <2>. QED BY <1>8, <2>3, <2>4, <2>5 DEF DraftVote, TypeOK
<1>9. CASE SegmentElected(n, a, heap, vs)
  <2>1. PICK challenger \in Lowest(Candidates(heap, vs)) :
          /\ draftHeap' = [draftHeap EXCEPT ![n] = [m \in Sync |-> DropUpTo(heap[m], challenger)]]
          /\ \/ /\ halted' = halted \cup {n}
                /\ UNCHANGED <<recentValue, elect>>
             \/ /\ recentValue' = [recentValue EXCEPT ![n] = challenger]
                /\ VoteSent(n, a, challenger)
                /\ UNCHANGED halted
    BY <1>9 DEF SegmentElected, VoteSent
  <2>2. challenger \in Id
    BY <1>3, <1>4, CandidatesType DEF Lowest
  <2>3. [m \in Sync |-> DropUpTo(heap[m], challenger)] \in [Sync -> Seq(Id)]
    BY <1>3, DropUpToType
  <2>4. draftHeap' \in [Sync -> [Sync -> Seq(Id)]]
    BY <2>1, <2>3 DEF TypeOK
  <2>5. voters' = [voters EXCEPT ![n][a] = <<>>]
    BY <1>9 DEF SegmentElected
  <2>6. <<>> \in Seq(Sync) /\ Len(<<>>) = 0
    BY EmptySeq
  <2>7. voters' \in [Sync -> [AdvanceId -> Seq(Sync)]]
    BY <2>5, <2>6 DEF TypeOK
  <2>8. \A m \in Sync, b \in AdvanceId : Len(voters'[m][b]) < SyncQuorum
    BY <1>5, <2>5, <2>6 DEF TypeOK
  <2>9. halted' \subseteq Sync
    BY <2>1 DEF TypeOK
  <2>10. recentValue \in [Sync -> Id]
    BY DEF TypeOK
  <2>11. recentValue' \in [Sync -> Id]
    BY <2>1, <2>2, <2>10
  <2>12. Elected(n, a)
    BY <1>9, <2>1, <2>2 DEF SegmentElected, Elected
  <2>. QED BY <2>4, <2>7, <2>8, <2>9, <2>11, <2>12
<1>. QED BY <1>6, <1>7, <1>8, <1>9

-----------------------------------------------------------------------------
(* The type invariant, one lemma for each part of Next. *)

LEMMA VoteSentType ==
  ASSUME TypeOK, NEW n \in Sync, NEW a \in AdvanceId, Elected(n, a)
  PROVE  /\ done' \in [Sync -> SUBSET AdvanceId]
         /\ elect' \in [Sync -> [Ndb -> Seq(ElectMsg)]]
<1>1. done \in [Sync -> SUBSET AdvanceId] /\ elect \in [Sync -> [Ndb -> Seq(ElectMsg)]]
  BY DEF TypeOK
<1>2. done' = [done EXCEPT ![n] = done[n] \cup {a}]
  BY DEF Elected
<1>3. ASSUME NEW challenger \in Id, VoteSent(n, a, challenger)
      PROVE  elect' \in [Sync -> [Ndb -> Seq(ElectMsg)]]
  <2>1. [advanceId |-> a, challenger |-> challenger] \in ElectMsg
    BY DEF ElectMsg
  <2>2. \A d \in Ndb : Append(elect[n][d], [advanceId |-> a, challenger |-> challenger]) \in Seq(ElectMsg)
    BY <1>1, <2>1, AppendProperties
  <2>. QED BY <1>1, <1>3, <2>2 DEF VoteSent
<1>. QED BY <1>1, <1>2, <1>3 DEF Elected

LEMMA ReconcileType ==
  ASSUME NEW pos \in Id, NEW id \in Id
  PROVE  ReconcilePos(pos, id) \in Id /\ GenerateIdRec(pos) \in Id
  BY DEF ReconcilePos, GenerateIdRec, Id

LEMMA GenerateDraftType ==
  ASSUME TypeOK, NEW n \in Sync, NEW e \in Entry, NEW k \in 1 .. MaxSegment,
         GenerateDraft(n, e, k)
  PROVE  TypeOK'
<1>1. PICK draftId : draftId = GenerateIdRec(makeId[n])
  OBVIOUS
<1>2. PICK msg : msg = [advanceId |-> <<e, k>>, draftId |-> draftId]
  OBVIOUS
<1>3. draftId \in Id
  BY <1>1, ReconcileType DEF TypeOK
<1>4. <<e, k>> \in AdvanceId
  BY DEF AdvanceId
<1>5. msg \in PickMsg
  BY <1>2, <1>3, <1>4 DEF PickMsg
<1>6. /\ recentAdvance' = [recentAdvance EXCEPT ![n][e] = k]
      /\ makeId' = [makeId EXCEPT ![n] = draftId]
      /\ pick' = [pick EXCEPT ![n] = [m \in Sync |-> IF m = n THEN pick[n][m] ELSE Append(pick[n][m], msg)]]
      /\ PickChallenger(n, n, <<e, k>>, draftId)
      /\ UNCHANGED <<ready, resolved>>
  BY <1>1, <1>2 DEF GenerateDraft
<1>7. makeId' \in [Sync -> Id]
  BY <1>3, <1>6 DEF TypeOK
<1>8. recentAdvance' \in [Sync -> [Entry -> 0 .. MaxSegment]]
  <2>1. k \in 0 .. MaxSegment
    BY BoundAssumption
  <2>2. recentAdvance \in [Sync -> [Entry -> 0 .. MaxSegment]]
    BY DEF TypeOK
  <2>. QED BY <1>6, <2>1, <2>2
<1>9. pick' \in [Sync -> [Sync -> Seq(PickMsg)]]
  <2>1. pick \in [Sync -> [Sync -> Seq(PickMsg)]]
    BY DEF TypeOK
  <2>2. \A m \in Sync : Append(pick[n][m], msg) \in Seq(PickMsg)
    BY <1>5, <2>1, AppendProperties
  <2>. QED BY <1>6, <2>1, <2>2
<1>10. Elected(n, <<e, k>>) \/ UNCHANGED <<done, elect>>
  BY <1>3, <1>4, <1>6, PickChallengerStep
<1>11. done' \in [Sync -> SUBSET AdvanceId] /\ elect' \in [Sync -> [Ndb -> Seq(ElectMsg)]]
  BY <1>4, <1>10, VoteSentType DEF TypeOK
<1>12. /\ draftHeap' \in [Sync -> [Sync -> Seq(Id)]]
       /\ voters' \in [Sync -> [AdvanceId -> Seq(Sync)]]
       /\ \A m \in Sync, b \in AdvanceId : Len(voters'[m][b]) < SyncQuorum
       /\ recentValue' \in [Sync -> Id]
       /\ halted' \subseteq Sync
  BY <1>3, <1>4, <1>6, PickChallengerStep
<1>. QED BY <1>6, <1>7, <1>8, <1>9, <1>11, <1>12 DEF TypeOK

LEMMA WithoutType ==
  ASSUME NEW q \in Seq(PickMsg), NEW i \in DOMAIN q
  PROVE  Without(q, i) \in Seq(PickMsg)
<1>1. DOMAIN q = 1 .. Len(q) /\ Len(q) \in Nat /\ i \in 1 .. Len(q)
  BY LenProperties
<1>2. \A j \in 1 .. (i - 1) : q[j] \in PickMsg
  BY <1>1, ElementOfSeq
<1>3. \A j \in (i + 1) .. Len(q) : q[j] \in PickMsg
  BY <1>1, ElementOfSeq
<1>4. 1 \in Int /\ i - 1 \in Int /\ i + 1 \in Int /\ Len(q) \in Int
  BY <1>1
<1>5. SubSeq(q, 1, i - 1) \in Seq(PickMsg)
  BY <1>2, <1>4, SubSeqProperties
<1>6. SubSeq(q, i + 1, Len(q)) \in Seq(PickMsg)
  BY <1>3, <1>4, SubSeqProperties
<1>. QED BY <1>5, <1>6, ConcatProperties DEF Without

LEMMA DraftArrivedType ==
  ASSUME TypeOK, NEW n \in Sync, NEW owner \in Sync, DraftArrived(n, owner)
  PROVE  TypeOK'
<1>1. PICK i \in NextInTransit(pick[owner][n]) :
        /\ pick' = [pick EXCEPT ![owner][n] = Without(pick[owner][n], i)]
        /\ makeId' = [makeId EXCEPT ![n] = ReconcilePos(makeId[n], pick[owner][n][i].draftId)]
        /\ PickChallenger(n, owner, pick[owner][n][i].advanceId, pick[owner][n][i].draftId)
  BY DEF DraftArrived
<1>2. PICK msg : msg = pick[owner][n][i]
  OBVIOUS
<1>3. pick[owner][n] \in Seq(PickMsg) /\ i \in DOMAIN pick[owner][n]
  BY <1>1 DEF TypeOK, NextInTransit
<1>4. msg \in PickMsg
  BY <1>2, <1>3, LenProperties, ElementOfSeq
<1>5. msg.advanceId \in AdvanceId /\ msg.draftId \in Id
  BY <1>4 DEF PickMsg
<1>6. pick' \in [Sync -> [Sync -> Seq(PickMsg)]]
  BY <1>1, <1>3, WithoutType DEF TypeOK
<1>7. makeId' \in [Sync -> Id]
  BY <1>1, <1>2, <1>5, ReconcileType DEF TypeOK
<1>8. PickChallenger(n, owner, msg.advanceId, msg.draftId)
  BY <1>1, <1>2
<1>9. Elected(n, msg.advanceId) \/ UNCHANGED <<done, elect>>
  BY <1>5, <1>8, PickChallengerStep
<1>10. done' \in [Sync -> SUBSET AdvanceId] /\ elect' \in [Sync -> [Ndb -> Seq(ElectMsg)]]
  BY <1>5, <1>9, VoteSentType DEF TypeOK
<1>11. /\ draftHeap' \in [Sync -> [Sync -> Seq(Id)]]
       /\ voters' \in [Sync -> [AdvanceId -> Seq(Sync)]]
       /\ \A m \in Sync, b \in AdvanceId : Len(voters'[m][b]) < SyncQuorum
       /\ recentValue' \in [Sync -> Id]
       /\ halted' \subseteq Sync
  BY <1>5, <1>8, PickChallengerStep
<1>. QED BY <1>6, <1>7, <1>10, <1>11 DEF DraftArrived, TypeOK

(* What event_elect_segment does with the vote at the head of the link. *)
VoteCounted(d, n, msg, vouters, challengers) ==
  /\ elect[n][d] # <<>>
  /\ msg = Head(elect[n][d])
  /\ elect' = [elect EXCEPT ![n][d] = Tail(elect[n][d])]
  /\ vouters = ready[d][msg.advanceId].vouters \cup {n}
  /\ challengers = ready[d][msg.advanceId].challengers \cup {msg.challenger}

QuorumReached(d, a, vouters, id) ==
  /\ Cardinality(vouters) >= SyncQuorum
  /\ ready' = [ready EXCEPT ![d][a] = NoVotes]
  /\ resolved' = [resolved EXCEPT ![d] = resolved[d] \cup
                    {[advanceId |-> a, id |-> id, vouters |-> vouters]}]

VoteKept(d, a, vouters, challengers) ==
  /\ ~(Cardinality(vouters) >= SyncQuorum)
  /\ ready' = [ready EXCEPT ![d][a] = [vouters |-> vouters, challengers |-> challengers]]
  /\ UNCHANGED resolved

LEMMA ElectSegmentStep ==
  ASSUME TypeOK, NEW d \in Ndb, NEW n \in Sync, ElectSegment(d, n)
  PROVE  \E msg \in ElectMsg, vouters \in SUBSET Sync, challengers \in SUBSET Id :
           /\ VoteCounted(d, n, msg, vouters, challengers)
           /\ \/ \E id \in Id : QuorumReached(d, msg.advanceId, vouters, id)
              \/ VoteKept(d, msg.advanceId, vouters, challengers)
<1>1. PICK msg : msg = Head(elect[n][d])
  OBVIOUS
<1>2. PICK vouters : vouters = ready[d][msg.advanceId].vouters \cup {n}
  OBVIOUS
<1>3. PICK challengers : challengers = ready[d][msg.advanceId].challengers \cup {msg.challenger}
  OBVIOUS
<1>4. elect[n][d] \in Seq(ElectMsg) /\ elect[n][d] # <<>>
  <2>1. elect[n][d] \in Seq(ElectMsg)
    BY DEF TypeOK
  <2>. QED BY <2>1 DEF ElectSegment
<1>5. msg \in ElectMsg
  BY <1>1, <1>4, HeadTailProperties
<1>6. msg.advanceId \in AdvanceId /\ msg.challenger \in Id
  BY <1>5 DEF ElectMsg
<1>7. ready[d][msg.advanceId] \in Votes
  BY <1>6 DEF TypeOK
<1>8. vouters \in SUBSET Sync /\ challengers \in SUBSET Id
  BY <1>2, <1>3, <1>6, <1>7 DEF Votes
<1>9. VoteCounted(d, n, msg, vouters, challengers)
  BY <1>1, <1>2, <1>3, <1>4 DEF ElectSegment, VoteCounted
<1>10. \/ /\ IsQuorum(Cardinality(vouters))
          /\ ready' = [ready EXCEPT ![d][msg.advanceId] = NoVotes]
          /\ \E id \in Highest(challengers) :
               resolved' = [resolved EXCEPT ![d] = resolved[d] \cup
                 {[advanceId |-> msg.advanceId, id |-> id, vouters |-> vouters]}]
       \/ /\ ~IsQuorum(Cardinality(vouters))
          /\ ready' = [ready EXCEPT ![d][msg.advanceId] =
                         [vouters |-> vouters, challengers |-> challengers]]
          /\ UNCHANGED resolved
  BY <1>1, <1>2, <1>3 DEF ElectSegment
<1>11. \A id \in Highest(challengers) : id \in Id
  BY <1>8 DEF Highest
<1>12. \/ \E id \in Id : QuorumReached(d, msg.advanceId, vouters, id)
       \/ VoteKept(d, msg.advanceId, vouters, challengers)
  BY <1>10, <1>11 DEF IsQuorum, QuorumReached, VoteKept
<1>. QED BY <1>5, <1>8, <1>9, <1>12

LEMMA ElectSegmentType ==
  ASSUME TypeOK, NEW d \in Ndb, NEW n \in Sync, ElectSegment(d, n)
  PROVE  TypeOK'
<1>1. PICK msg \in ElectMsg, vouters \in SUBSET Sync, challengers \in SUBSET Id :
        /\ VoteCounted(d, n, msg, vouters, challengers)
        /\ \/ \E id \in Id : QuorumReached(d, msg.advanceId, vouters, id)
           \/ VoteKept(d, msg.advanceId, vouters, challengers)
  BY ElectSegmentStep
<1>2. elect \in [Sync -> [Ndb -> Seq(ElectMsg)]]
  BY DEF TypeOK
<1>3. Tail(elect[n][d]) \in Seq(ElectMsg)
  BY <1>1, <1>2, HeadTailProperties DEF VoteCounted
<1>4. elect' \in [Sync -> [Ndb -> Seq(ElectMsg)]]
  BY <1>1, <1>2, <1>3 DEF VoteCounted
<1>5. msg.advanceId \in AdvanceId
  BY DEF ElectMsg
<1>6. Cardinality(vouters) \in Nat /\ SyncQuorum \in Nat \ {0}
  BY SyncAssumption, QuorumAssumption, FS_Subset, FS_CardinalityType
<1>7. NoVotes \in Votes /\ Cardinality(NoVotes.vouters) = 0
  BY FS_EmptySet DEF NoVotes, Votes
<1>8. [vouters |-> vouters, challengers |-> challengers] \in Votes
  BY DEF Votes
<1>9. ready \in [Ndb -> [AdvanceId -> Votes]]
  BY DEF TypeOK
<1>10. ASSUME NEW id \in Id, QuorumReached(d, msg.advanceId, vouters, id)
       PROVE  TypeOK'
  <2>1. ready' \in [Ndb -> [AdvanceId -> Votes]]
    BY <1>7, <1>9, <1>10 DEF QuorumReached
  <2>2. \A c \in Ndb, a \in AdvanceId : Cardinality(ready'[c][a].vouters) < SyncQuorum
    BY <1>5, <1>6, <1>7, <1>9, <1>10 DEF QuorumReached, TypeOK
  <2>3. [advanceId |-> msg.advanceId, id |-> id, vouters |-> vouters] \in Resolution
    BY <1>5 DEF Resolution
  <2>4. resolved' \in [Ndb -> SUBSET Resolution]
    BY <1>10, <2>3 DEF QuorumReached, TypeOK
  <2>. QED BY <1>4, <2>1, <2>2, <2>4 DEF ElectSegment, stageOne, TypeOK
<1>11. ASSUME VoteKept(d, msg.advanceId, vouters, challengers)
       PROVE  TypeOK'
  <2>1. ready' \in [Ndb -> [AdvanceId -> Votes]]
    BY <1>8, <1>9, <1>11 DEF VoteKept
  <2>2. \A c \in Ndb, a \in AdvanceId : Cardinality(ready'[c][a].vouters) < SyncQuorum
    BY <1>5, <1>6, <1>9, <1>11 DEF VoteKept, TypeOK
  <2>. QED BY <1>4, <1>11, <2>1, <2>2 DEF ElectSegment, VoteKept, stageOne, TypeOK
<1>. QED BY <1>1, <1>10, <1>11

LEMMA InitType == Init => TypeOK
<1>1. SyncQuorum \in Nat \ {0}
  BY SyncAssumption, QuorumAssumption, FS_CardinalityType
<1>2. Cardinality({}) = 0 /\ Len(<<>>) = 0
  BY FS_EmptySet
<1>3. <<1, 0>> \in Id /\ NoId \in Id
  BY DEF Id, NoId
<1>4. 0 \in 0 .. MaxSegment
  BY BoundAssumption
<1>5. NoVotes \in Votes /\ NoVotes.vouters = {}
  BY DEF NoVotes, Votes
<1>6. /\ <<>> \in Seq(Id) /\ <<>> \in Seq(Sync)
      /\ <<>> \in Seq(PickMsg) /\ <<>> \in Seq(ElectMsg)
  BY EmptySeq
<1>. SUFFICES ASSUME Init PROVE TypeOK
  OBVIOUS
<1>7. /\ makeId \in [Sync -> Id]
      /\ recentAdvance \in [Sync -> [Entry -> 0 .. MaxSegment]]
      /\ recentValue \in [Sync -> Id]
  BY <1>3, <1>4 DEF Init
<1>8. /\ draftHeap \in [Sync -> [Sync -> Seq(Id)]]
      /\ voters \in [Sync -> [AdvanceId -> Seq(Sync)]]
      /\ \A n \in Sync, a \in AdvanceId : Len(voters[n][a]) < SyncQuorum
  BY <1>1, <1>2, <1>6 DEF Init
<1>9. /\ pick \in [Sync -> [Sync -> Seq(PickMsg)]]
      /\ elect \in [Sync -> [Ndb -> Seq(ElectMsg)]]
  BY <1>6 DEF Init
<1>10. /\ ready \in [Ndb -> [AdvanceId -> Votes]]
       /\ \A d \in Ndb, a \in AdvanceId : Cardinality(ready[d][a].vouters) < SyncQuorum
  <2>1. ready \in [Ndb -> [AdvanceId -> Votes]]
    BY <1>5 DEF Init
  <2>2. \A d \in Ndb, a \in AdvanceId : ready[d][a] = NoVotes
    BY DEF Init
  <2>3. Cardinality(NoVotes.vouters) = 0
    BY <1>2, <1>5
  <2>4. \A d \in Ndb, a \in AdvanceId : Cardinality(ready[d][a].vouters) = 0
    BY <2>2, <2>3
  <2>. QED BY <1>1, <2>1, <2>4
<1>11. /\ done \in [Sync -> SUBSET AdvanceId]
       /\ halted \subseteq Sync
       /\ resolved \in [Ndb -> SUBSET Resolution]
  BY DEF Init
<1>. QED BY <1>7, <1>8, <1>9, <1>10, <1>11 DEF TypeOK

LEMMA TypeStep ==
  ASSUME TypeOK, [Next]_vars
  PROVE  TypeOK'
<1>1. ASSUME NEW n \in Sync, NEW minute \in 1 .. MaxMinute, ActualizePrefix(n, minute)
      PROVE  TypeOK'
  <2>1. <<minute, 0>> \in Id
    BY BoundAssumption DEF Id
  <2>. QED BY <1>1, <2>1 DEF ActualizePrefix, TypeOK
<1>2. CASE UNCHANGED vars
  BY <1>2 DEF vars, stageOne, TypeOK
<1>. QED BY <1>1, <1>2, GenerateDraftType, DraftArrivedType, ElectSegmentType DEF Next

(* The variables keep their types, and the votes kept for a segment are    *)
(* fewer than a quorum: event_pick_challenger and event_elect_segment act  *)
(* on a quorum at once.                                                    *)
THEOREM TypeCorrect == Spec => []TypeOK
  BY InitType, TypeStep, PTL DEF Spec

-----------------------------------------------------------------------------
(* A storage node resolves a segment once.  The votes of a sync node for a *)
(* segment are one message, which is on its way or was counted in          *)
(* readyQuorum or in one resolution, so resolutions of the same segment    *)
(* have disjoint quorums.                                                  *)

UsedIn(n, d, a) == \E x \in resolved[d] : x.advanceId = a /\ n \in x.vouters

SentOnce ==
  \A n \in Sync, d \in Ndb : \A i, j \in DOMAIN elect[n][d] :
    elect[n][d][i].advanceId = elect[n][d][j].advanceId => i = j

SentUncounted ==
  \A n \in Sync, d \in Ndb : \A i \in DOMAIN elect[n][d] :
    /\ elect[n][d][i].advanceId \in done[n]
    /\ n \notin ready[d][elect[n][d][i].advanceId].vouters
    /\ ~UsedIn(n, d, elect[n][d][i].advanceId)

ReadyUnused ==
  \A n \in Sync, d \in Ndb, a \in AdvanceId :
    n \in ready[d][a].vouters => a \in done[n] /\ ~UsedIn(n, d, a)

UsedDone ==
  \A n \in Sync, d \in Ndb, a \in AdvanceId : UsedIn(n, d, a) => a \in done[n]

QuorumsDisjoint ==
  \A d \in Ndb : \A x, y \in resolved[d] :
    x.advanceId = y.advanceId /\ x # y => x.vouters \cap y.vouters = {}

QuorumsFull ==
  \A d \in Ndb : \A x \in resolved[d] : Cardinality(x.vouters) >= SyncQuorum

VotesInv ==
  /\ SentOnce
  /\ SentUncounted
  /\ ReadyUnused
  /\ UsedDone
  /\ QuorumsDisjoint
  /\ QuorumsFull

LEMMA VotesInit == Init => VotesInv
<1>. SUFFICES ASSUME Init PROVE VotesInv
  OBVIOUS
<1>1. \A n \in Sync, d \in Ndb : DOMAIN elect[n][d] = {}
  <2>1. \A n \in Sync, d \in Ndb : elect[n][d] = <<>>
    BY DEF Init
  <2>2. DOMAIN <<>> = {}
    OBVIOUS
  <2>. QED BY <2>1, <2>2
<1>2. \A d \in Ndb : resolved[d] = {}
  BY DEF Init
<1>3. \A d \in Ndb, a \in AdvanceId : ready[d][a].vouters = {}
  BY DEF Init, NoVotes
<1>4. SentOnce /\ SentUncounted
  BY <1>1 DEF SentOnce, SentUncounted
<1>5. ReadyUnused /\ UsedDone /\ QuorumsDisjoint /\ QuorumsFull
  BY <1>2, <1>3 DEF ReadyUnused, UsedDone, UsedIn, QuorumsDisjoint, QuorumsFull
<1>. QED BY <1>4, <1>5 DEF VotesInv

(* No vote is sent or counted. *)
LEMMA VotesUnchanged ==
  ASSUME VotesInv, UNCHANGED <<done, elect, ready, resolved>>
  PROVE  VotesInv'
  BY DEF VotesInv, SentOnce, SentUncounted, ReadyUnused, UsedDone, UsedIn,
         QuorumsDisjoint, QuorumsFull

(* A segment is marked as done and its vote is sent. *)
LEMMA VotesElected ==
  ASSUME TypeOK, VotesInv, NEW n \in Sync, NEW a \in AdvanceId, Elected(n, a),
         UNCHANGED <<ready, resolved>>
  PROVE  VotesInv'
<1>1. /\ a \notin done[n] /\ a \in done'[n]
      /\ \A m \in Sync : done[m] \subseteq done'[m]
  BY DEF Elected, TypeOK
<1>2. \A m \in Sync, d \in Ndb : \A b : UsedIn(m, d, b)' <=> UsedIn(m, d, b)
  BY DEF UsedIn
<1>3. (ReadyUnused /\ UsedDone)'
  BY <1>1, <1>2 DEF VotesInv, ReadyUnused, UsedDone
<1>4. (QuorumsDisjoint /\ QuorumsFull)'
  BY DEF VotesInv, QuorumsDisjoint, QuorumsFull
<1>5. CASE elect' = elect
  <2>1. (SentOnce /\ SentUncounted)'
    BY <1>1, <1>2, <1>5 DEF VotesInv, SentOnce, SentUncounted
  <2>. QED BY <1>3, <1>4, <2>1 DEF VotesInv
<1>6. ASSUME NEW challenger \in Id, VoteSent(n, a, challenger)
      PROVE  VotesInv'
  <2>1. PICK msg : msg = [advanceId |-> a, challenger |-> challenger]
    OBVIOUS
  <2>2. msg \in ElectMsg /\ msg.advanceId = a
    BY <2>1 DEF ElectMsg
  <2>3. \A d \in Ndb : elect[n][d] \in Seq(ElectMsg) /\ elect'[n][d] = Append(elect[n][d], msg)
    BY <1>6, <2>1 DEF VoteSent, TypeOK
  <2>4. \A m \in Sync \ {n}, d \in Ndb : elect'[m][d] = elect[m][d]
    BY <1>6 DEF VoteSent, TypeOK
  <2>5. ASSUME NEW d \in Ndb
        PROVE  /\ DOMAIN elect[n][d] = 1 .. Len(elect[n][d])
               /\ Len(elect[n][d]) \in Nat
               /\ DOMAIN elect'[n][d] = 1 .. (Len(elect[n][d]) + 1)
               /\ \A i \in 1 .. Len(elect[n][d]) : elect'[n][d][i] = elect[n][d][i]
               /\ elect'[n][d][Len(elect[n][d]) + 1].advanceId = a
    BY <2>2, <2>3, AppendProperties, LenProperties
  <2>6. \A d \in Ndb : \A i \in DOMAIN elect'[n][d] :
          \/ i \in DOMAIN elect[n][d] /\ elect'[n][d][i] = elect[n][d][i]
          \/ i = Len(elect[n][d]) + 1 /\ elect'[n][d][i].advanceId = a
    <3>1. ASSUME NEW d \in Ndb, NEW i \in DOMAIN elect'[n][d]
          PROVE  i \in 1 .. Len(elect[n][d]) \/ i = Len(elect[n][d]) + 1
      BY <2>5
    <3>. QED BY <2>5, <3>1
  <2>7. \A d \in Ndb : \A i \in DOMAIN elect[n][d] : elect[n][d][i].advanceId # a
    BY <1>1 DEF VotesInv, SentUncounted
  <2>8. SentOnce'
    <3>1. \A d \in Ndb : \A i, j \in DOMAIN elect'[n][d] :
            elect'[n][d][i].advanceId = elect'[n][d][j].advanceId => i = j
      BY <2>6, <2>7 DEF VotesInv, SentOnce
    <3>. QED BY <2>4, <3>1 DEF VotesInv, SentOnce
  <2>9. \A d \in Ndb : n \notin ready[d][a].vouters /\ ~UsedIn(n, d, a)
    BY <1>1 DEF VotesInv, ReadyUnused, UsedDone
  <2>10. SentUncounted'
    <3>1. \A d \in Ndb : \A i \in DOMAIN elect'[n][d] :
            /\ elect'[n][d][i].advanceId \in done'[n]
            /\ n \notin ready[d][elect'[n][d][i].advanceId].vouters
            /\ ~UsedIn(n, d, elect'[n][d][i].advanceId)
      BY <1>1, <2>6, <2>9 DEF VotesInv, SentUncounted
    <3>. QED BY <1>1, <1>2, <2>4, <3>1 DEF VotesInv, SentUncounted
  <2>. QED BY <1>3, <1>4, <2>8, <2>10 DEF VotesInv
<1>. QED BY <1>5, <1>6 DEF Elected

(* The votes that are still on their way once one was taken off a link. *)
LEMMA VotesLeft ==
  ASSUME TypeOK, VotesInv, NEW d \in Ndb, NEW n \in Sync, NEW msg, NEW vouters,
         NEW challengers, VoteCounted(d, n, msg, vouters, challengers)
  PROVE  /\ msg.advanceId \in done[n]
         /\ n \notin ready[d][msg.advanceId].vouters
         /\ ~UsedIn(n, d, msg.advanceId)
         /\ SentOnce'
         /\ \A m \in Sync, c \in Ndb : \A i \in DOMAIN elect'[m][c] :
              \E j \in DOMAIN elect[m][c] :
                /\ elect'[m][c][i] = elect[m][c][j]
                /\ m = n /\ c = d => elect[m][c][j].advanceId # msg.advanceId
<1>1. elect[n][d] \in Seq(ElectMsg) /\ elect[n][d] # <<>>
  <2>1. elect[n][d] \in Seq(ElectMsg)
    BY DEF TypeOK
  <2>. QED BY <2>1 DEF VoteCounted
<1>2. /\ DOMAIN elect[n][d] = 1 .. Len(elect[n][d])
      /\ Len(elect[n][d]) \in Nat \ {0}
  BY <1>1, LenProperties, EmptySeq
<1>3. elect'[n][d] = Tail(elect[n][d])
  BY DEF VoteCounted, TypeOK
<1>4. /\ DOMAIN elect'[n][d] = 1 .. (Len(elect[n][d]) - 1)
      /\ \A i \in 1 .. (Len(elect[n][d]) - 1) : elect'[n][d][i] = elect[n][d][i + 1]
  BY <1>1, <1>3, HeadTailProperties, LenProperties
<1>5. \A m \in Sync, c \in Ndb : ~(m = n /\ c = d) => elect'[m][c] = elect[m][c]
  BY DEF VoteCounted, TypeOK
<1>6. 1 \in DOMAIN elect[n][d] /\ msg = elect[n][d][1]
  BY <1>1, <1>2 DEF VoteCounted
<1>7. \A i \in DOMAIN elect'[n][d] :
        /\ i + 1 \in DOMAIN elect[n][d]
        /\ elect'[n][d][i] = elect[n][d][i + 1]
        /\ elect[n][d][i + 1].advanceId # msg.advanceId
  <2>1. \A i \in DOMAIN elect'[n][d] :
          i + 1 \in DOMAIN elect[n][d] /\ elect'[n][d][i] = elect[n][d][i + 1] /\ i + 1 # 1
    BY <1>2, <1>4
  <2>. QED BY <1>6, <2>1 DEF VotesInv, SentOnce
<1>8. SentOnce'
  <2>1. ASSUME NEW i \in DOMAIN elect'[n][d], NEW j \in DOMAIN elect'[n][d],
               elect'[n][d][i].advanceId = elect'[n][d][j].advanceId
        PROVE  i = j
    <3>1. i + 1 = j + 1
      BY <1>7, <2>1 DEF VotesInv, SentOnce
    <3>2. i \in Int /\ j \in Int
      BY <1>4
    <3>. QED BY <3>1, <3>2
  <2>. QED BY <1>5, <2>1 DEF VotesInv, SentOnce
<1>. QED BY <1>5, <1>6, <1>7, <1>8 DEF VotesInv, SentUncounted

LEMMA VotesCounted ==
  ASSUME TypeOK, VotesInv, NEW d \in Ndb, NEW n \in Sync, ElectSegment(d, n)
  PROVE  VotesInv'
<1>1. PICK msg \in ElectMsg, vouters \in SUBSET Sync, challengers \in SUBSET Id :
        /\ VoteCounted(d, n, msg, vouters, challengers)
        /\ \/ \E id \in Id : QuorumReached(d, msg.advanceId, vouters, id)
           \/ VoteKept(d, msg.advanceId, vouters, challengers)
  BY ElectSegmentStep
<1>2. PICK a \in AdvanceId : a = msg.advanceId
  BY DEF ElectMsg
<1>3. UNCHANGED done
  BY DEF ElectSegment, stageOne
<1>4. /\ SentOnce'
      /\ \A m \in Sync, c \in Ndb : \A i \in DOMAIN elect'[m][c] :
           /\ elect'[m][c][i].advanceId \in done[m]
           /\ m \notin ready[c][elect'[m][c][i].advanceId].vouters
           /\ ~UsedIn(m, c, elect'[m][c][i].advanceId)
           /\ m = n /\ c = d => elect'[m][c][i].advanceId # a
  BY <1>1, <1>2, VotesLeft DEF VotesInv, SentUncounted
<1>5. vouters = ready[d][a].vouters \cup {n}
  BY <1>1, <1>2 DEF VoteCounted
<1>6. \A m \in vouters : a \in done[m] /\ ~UsedIn(m, d, a)
  <2>1. a \in done[n] /\ ~UsedIn(n, d, a)
    BY <1>1, <1>2, VotesLeft
  <2>. QED BY <1>5, <2>1 DEF VotesInv, ReadyUnused
<1>7. \A m \in Sync : \A i \in DOMAIN elect'[m][d] :
        elect'[m][d][i].advanceId = a => m \notin vouters
  BY <1>4, <1>5
<1>8. \A c \in Ndb, b \in AdvanceId : ~(c = d /\ b = a) => ready'[c][b] = ready[c][b]
  BY <1>1, <1>2 DEF QuorumReached, VoteKept, TypeOK
<1>9. ASSUME NEW id \in Id, QuorumReached(d, a, vouters, id)
      PROVE  VotesInv'
  <2>1. PICK new : new = [advanceId |-> a, id |-> id, vouters |-> vouters]
    OBVIOUS
  <2>2. new.advanceId = a /\ new.vouters = vouters
    BY <2>1
  <2>3. /\ resolved'[d] = resolved[d] \cup {new}
        /\ \A c \in Ndb \ {d} : resolved'[c] = resolved[c]
    BY <1>9, <2>1 DEF QuorumReached, TypeOK
  <2>4. ready'[d][a].vouters = {}
    BY <1>9 DEF QuorumReached, NoVotes, TypeOK
  <2>5. \A m \in Sync, c \in Ndb, b \in AdvanceId :
          UsedIn(m, c, b)' <=> UsedIn(m, c, b) \/ (c = d /\ b = a /\ m \in vouters)
    BY <2>2, <2>3 DEF UsedIn
  <2>6. SentUncounted'
    <3>1. ASSUME NEW m \in Sync, NEW c \in Ndb, NEW i \in DOMAIN elect'[m][c]
          PROVE  elect'[m][c][i].advanceId \in AdvanceId
      BY <1>4 DEF TypeOK
    <3>. QED BY <1>3, <1>4, <1>7, <1>8, <2>4, <2>5, <3>1 DEF SentUncounted
  <2>7. ReadyUnused'
    BY <1>3, <1>8, <2>4, <2>5 DEF VotesInv, ReadyUnused
  <2>8. UsedDone'
    BY <1>3, <1>6, <2>5 DEF VotesInv, UsedDone
  <2>9. QuorumsDisjoint'
    <3>1. \A x \in resolved[d] : x.advanceId = a => x.vouters \cap vouters = {}
      BY <1>6 DEF UsedIn
    <3>. QED BY <2>2, <2>3, <3>1 DEF VotesInv, QuorumsDisjoint
  <2>10. QuorumsFull'
    BY <1>9, <2>2, <2>3 DEF VotesInv, QuorumsFull, QuorumReached
  <2>. QED BY <1>4, <2>6, <2>7, <2>8, <2>9, <2>10 DEF VotesInv
<1>10. ASSUME VoteKept(d, a, vouters, challengers)
       PROVE  VotesInv'
  <2>1. resolved' = resolved
    BY <1>10 DEF VoteKept
  <2>2. ready'[d][a].vouters = vouters
    BY <1>10 DEF VoteKept, TypeOK
  <2>3. \A m \in Sync, c \in Ndb, b \in AdvanceId : UsedIn(m, c, b)' <=> UsedIn(m, c, b)
    BY <2>1 DEF UsedIn
  <2>4. SentUncounted'
    <3>1. ASSUME NEW m \in Sync, NEW c \in Ndb, NEW i \in DOMAIN elect'[m][c]
          PROVE  elect'[m][c][i].advanceId \in AdvanceId
      BY <1>4 DEF TypeOK
    <3>. QED BY <1>3, <1>4, <1>7, <1>8, <2>2, <2>3, <3>1 DEF SentUncounted
  <2>5. ReadyUnused'
    BY <1>3, <1>6, <1>8, <2>2, <2>3 DEF VotesInv, ReadyUnused
  <2>6. UsedDone'
    BY <1>3, <2>3 DEF VotesInv, UsedDone
  <2>7. (QuorumsDisjoint /\ QuorumsFull)'
    BY <2>1 DEF VotesInv, QuorumsDisjoint, QuorumsFull
  <2>. QED BY <1>4, <2>4, <2>5, <2>6, <2>7 DEF VotesInv
<1>. QED BY <1>1, <1>2, <1>9, <1>10

LEMMA VotesStep ==
  ASSUME TypeOK, VotesInv, [Next]_vars
  PROVE  VotesInv'
<1>1. ASSUME NEW n \in Sync, NEW minute \in 1 .. MaxMinute, ActualizePrefix(n, minute)
      PROVE  VotesInv'
  BY <1>1, VotesUnchanged DEF ActualizePrefix
<1>2. ASSUME NEW n \in Sync, NEW owner \in Sync, NEW a \in AdvanceId, NEW id \in Id,
             PickChallenger(n, owner, a, id), UNCHANGED <<ready, resolved>>
      PROVE  VotesInv'
  <2>1. Elected(n, a) \/ UNCHANGED <<done, elect>>
    BY <1>2, PickChallengerStep
  <2>. QED BY <1>2, <2>1, VotesElected, VotesUnchanged
<1>3. ASSUME NEW n \in Sync, NEW e \in Entry, NEW k \in 1 .. MaxSegment, GenerateDraft(n, e, k)
      PROVE  VotesInv'
  <2>1. <<e, k>> \in AdvanceId /\ GenerateIdRec(makeId[n]) \in Id
    BY ReconcileType DEF AdvanceId, TypeOK
  <2>2. PickChallenger(n, n, <<e, k>>, GenerateIdRec(makeId[n])) /\ UNCHANGED <<ready, resolved>>
    BY <1>3 DEF GenerateDraft
  <2>. QED BY <1>2, <2>1, <2>2
<1>4. ASSUME NEW n \in Sync, NEW owner \in Sync, DraftArrived(n, owner)
      PROVE  VotesInv'
  <2>1. PICK i \in DOMAIN pick[owner][n] :
          PickChallenger(n, owner, pick[owner][n][i].advanceId, pick[owner][n][i].draftId)
    BY <1>4 DEF DraftArrived, NextInTransit
  <2>2. pick[owner][n] \in Seq(PickMsg)
    BY DEF TypeOK
  <2>3. pick[owner][n][i] \in PickMsg
    BY <2>2, LenProperties, ElementOfSeq
  <2>4. pick[owner][n][i].advanceId \in AdvanceId /\ pick[owner][n][i].draftId \in Id
    BY <2>3 DEF PickMsg
  <2>5. UNCHANGED <<ready, resolved>>
    BY <1>4 DEF DraftArrived
  <2>. QED BY <1>2, <2>1, <2>4, <2>5
<1>5. CASE UNCHANGED vars
  BY <1>5, VotesUnchanged DEF vars, stageOne
<1>. QED BY <1>1, <1>3, <1>4, <1>5, VotesCounted DEF Next

Majority == 2 * SyncQuorum > Cardinality(Sync)

LEMMA VotesImplyOnce ==
  ASSUME TypeOK, VotesInv, Majority
  PROVE  ResolvedOnce
<1>. SUFFICES ASSUME NEW d \in Ndb, NEW x \in resolved[d], NEW y \in resolved[d],
                     x.advanceId = y.advanceId, x # y
              PROVE  FALSE
  BY DEF ResolvedOnce
<1>1. x.vouters \subseteq Sync /\ y.vouters \subseteq Sync
  BY DEF TypeOK, Resolution
<1>2. Cardinality(x.vouters) >= SyncQuorum /\ Cardinality(y.vouters) >= SyncQuorum
  BY DEF VotesInv, QuorumsFull
<1>3. /\ Cardinality(x.vouters) \in Nat /\ Cardinality(y.vouters) \in Nat
      /\ Cardinality(Sync) \in Nat /\ SyncQuorum \in Nat
  BY <1>1, SyncAssumption, QuorumAssumption, FS_Subset, FS_CardinalityType
<1>4. Cardinality(x.vouters) + Cardinality(y.vouters) > Cardinality(Sync)
  BY <1>2, <1>3 DEF Majority
<1>5. x.vouters \cap y.vouters # {}
  BY <1>1, <1>4, SyncAssumption, FS_MajoritiesIntersect
<1>. QED BY <1>5 DEF VotesInv, QuorumsDisjoint

(* With a quorum of more than half of the sync nodes, a storage node       *)
(* resolves a segment once, whatever votes come after the quorum           *)
(* (event_elect_segment).  The code does not ask for such a quorum: config *)
(* takes any number, 2 by default.                                         *)
THEOREM ResolvedOnceCorrect ==
  ASSUME Majority
  PROVE  Spec => []ResolvedOnce
<1>1. Init => TypeOK /\ VotesInv
  BY InitType, VotesInit
<1>2. TypeOK /\ VotesInv /\ [Next]_vars => (TypeOK /\ VotesInv)'
  BY TypeStep, VotesStep
<1>3. TypeOK /\ VotesInv => ResolvedOnce
  BY VotesImplyOnce
<1>. QED BY <1>1, <1>2, <1>3, PTL DEF Spec

-----------------------------------------------------------------------------
(* Elections are backed by drafts: a voter of a segment, and the sender of *)
(* a draft that is on its way, has drafted for that segment.               *)

VotersDrafted ==
  \A n \in Sync, a \in AdvanceId : \A i \in DOMAIN voters[n][a] : voters[n][a][i] \in Drafted(a)

VotersDiffer ==
  \A n \in Sync, a \in AdvanceId : \A i, j \in DOMAIN voters[n][a] :
    voters[n][a][i] = voters[n][a][j] => i = j

SendersDrafted ==
  \A m, n \in Sync : \A i \in DOMAIN pick[m][n] : m \in Drafted(pick[m][n][i].advanceId)

BackedInv == VotersDrafted /\ VotersDiffer /\ SendersDrafted /\ ElectBacked

LEMMA BackedInit == Init => BackedInv
<1>. SUFFICES ASSUME Init PROVE BackedInv
  OBVIOUS
<1>1. DOMAIN <<>> = {}
  OBVIOUS
<1>2. VotersDrafted /\ VotersDiffer
  BY <1>1 DEF Init, VotersDrafted, VotersDiffer
<1>3. \A m, n \in Sync : pick[m][n] = <<>>
  BY DEF Init
<1>4. SendersDrafted
  BY <1>1, <1>3 DEF SendersDrafted
<1>5. ElectBacked
  BY DEF Init, ElectBacked
<1>. QED BY <1>2, <1>4, <1>5 DEF BackedInv

(* A sequence of different drafters is no longer than their number. *)
LEMMA DraftersCounted ==
  ASSUME NEW S \in SUBSET Sync, NEW vs \in Seq(Sync),
         \A i \in DOMAIN vs : vs[i] \in S,
         \A i, j \in DOMAIN vs : vs[i] = vs[j] => i = j
  PROVE  Cardinality(S) \in Nat /\ Len(vs) <= Cardinality(S)
<1>1. DOMAIN vs = 1 .. Len(vs) /\ Len(vs) \in Nat /\ vs \in [1 .. Len(vs) -> Sync]
  BY LenProperties
<1>2. vs \in Injection(1 .. Len(vs), S)
  BY <1>1 DEF Injection, IsInjective
<1>3. IsFiniteSet(S) /\ Cardinality(S) \in Nat
  BY SyncAssumption, FS_Subset, FS_CardinalityType
<1>4. Cardinality(1 .. Len(vs)) <= Cardinality(S)
  BY <1>2, <1>3, FS_Injection
<1>5. Cardinality(1 .. Len(vs)) = Len(vs)
  <2>1. 1 \in Int /\ Len(vs) \in Int
    BY <1>1
  <2>2. Cardinality(1 .. Len(vs)) = IF 1 > Len(vs) THEN 0 ELSE Len(vs) - 1 + 1
    BY <2>1, FS_Interval
  <2>. QED BY <1>1, <2>2
<1>. QED BY <1>3, <1>4, <1>5

LEMMA WithVoterProperties ==
  ASSUME NEW vs \in Seq(Sync), NEW owner \in Sync, NEW S,
         \A i \in DOMAIN vs : vs[i] \in S,
         \A i, j \in DOMAIN vs : vs[i] = vs[j] => i = j,
         owner \in S
  PROVE  /\ \A i \in DOMAIN WithVoter(vs, owner) : WithVoter(vs, owner)[i] \in S
         /\ \A i, j \in DOMAIN WithVoter(vs, owner) :
              WithVoter(vs, owner)[i] = WithVoter(vs, owner)[j] => i = j
<1>1. CASE \E i \in DOMAIN vs : vs[i] = owner
  BY <1>1 DEF WithVoter
<1>2. CASE \A i \in DOMAIN vs : vs[i] # owner
  <2>1. WithVoter(vs, owner) = Append(vs, owner)
    BY <1>2 DEF WithVoter
  <2>2. /\ DOMAIN vs = 1 .. Len(vs) /\ Len(vs) \in Nat
        /\ DOMAIN Append(vs, owner) = 1 .. (Len(vs) + 1)
        /\ \A i \in 1 .. Len(vs) : Append(vs, owner)[i] = vs[i]
        /\ Append(vs, owner)[Len(vs) + 1] = owner
    BY AppendProperties, LenProperties
  <2>3. ASSUME NEW i \in DOMAIN Append(vs, owner)
        PROVE  i \in DOMAIN vs \/ i = Len(vs) + 1
    BY <2>2
  <2>. QED BY <1>2, <2>1, <2>2, <2>3
<1>. QED BY <1>1, <1>2

(* The drafts known at any time stay known: recentAdvance only grows. *)
LEMMA DraftedGrows ==
  ASSUME TypeOK, \A n \in Sync, e \in Entry : recentAdvance'[n][e] >= recentAdvance[n][e],
         recentAdvance' \in [Sync -> [Entry -> 0 .. MaxSegment]]
  PROVE  /\ \A a \in AdvanceId : Drafted(a) \subseteq Drafted(a)'
         /\ \A a \in AdvanceId : Drafted(a) \in SUBSET Sync /\ Drafted(a)' \in SUBSET Sync
<1>1. ASSUME NEW a \in AdvanceId, NEW m \in Drafted(a) PROVE m \in Drafted(a)'
  <2>1. a[1] \in Entry /\ a[2] \in 1 .. MaxSegment
    BY DEF AdvanceId
  <2>2. recentAdvance[m][a[1]] \in Nat /\ recentAdvance'[m][a[1]] \in Nat
    BY <2>1, BoundAssumption DEF TypeOK, Drafted
  <2>3. a[2] \in Nat
    BY <2>1, BoundAssumption
  <2>. QED BY <2>1, <2>2, <2>3 DEF Drafted
<1>. QED BY <1>1 DEF Drafted

LEMMA VotersStep ==
  ASSUME TypeOK, NEW n \in Sync, NEW owner \in Sync, NEW a \in AdvanceId,
         NEW id \in Id, PickChallenger(n, owner, a, id)
  PROVE  /\ \A m \in Sync, b \in AdvanceId : ~(m = n /\ b = a) => voters'[m][b] = voters[m][b]
         /\ \/ voters'[n][a] = voters[n][a]
            \/ voters'[n][a] = WithVoter(voters[n][a], owner)
            \/ voters'[n][a] = <<>>
         /\ \/ done' = done
            \/ /\ done' = [done EXCEPT ![n] = done[n] \cup {a}]
               /\ Len(WithVoter(voters[n][a], owner)) >= SyncQuorum
<1>1. PICK heap : heap = [draftHeap[n] EXCEPT ![owner] = Append(draftHeap[n][owner], id)]
  OBVIOUS
<1>2. PICK vs : vs = WithVoter(voters[n][a], owner)
  OBVIOUS
<1>3. voters \in [Sync -> [AdvanceId -> Seq(Sync)]]
  BY DEF TypeOK
<1>4. ASSUME NEW new, voters' = [voters EXCEPT ![n][a] = new]
      PROVE  /\ voters'[n][a] = new
             /\ \A m \in Sync, b \in AdvanceId : ~(m = n /\ b = a) => voters'[m][b] = voters[m][b]
  BY <1>3, <1>4
<1>5. CASE LateDraft(n, a, heap)
  BY <1>5 DEF LateDraft
<1>6. CASE DraftVote(n, a, heap, vs)
  BY <1>2, <1>4, <1>6 DEF DraftVote
<1>7. CASE SegmentElected(n, a, heap, vs)
  <2>1. voters' = [voters EXCEPT ![n][a] = <<>>] /\ done' = [done EXCEPT ![n] = done[n] \cup {a}]
    BY <1>7 DEF SegmentElected
  <2>2. Len(vs) >= SyncQuorum
    BY <1>7 DEF SegmentElected, IsQuorum
  <2>. QED BY <1>2, <1>4, <2>1, <2>2
<1>. QED BY <1>1, <1>2, <1>5, <1>6, <1>7 DEF PickChallenger

LEMMA BackedPick ==
  ASSUME TypeOK, BackedInv, NEW n \in Sync, NEW owner \in Sync, NEW a \in AdvanceId,
         NEW id \in Id, PickChallenger(n, owner, a, id), owner \in Drafted(a)',
         \A b \in AdvanceId : Drafted(b) \subseteq Drafted(b)',
         \A b \in AdvanceId : Drafted(b) \in SUBSET Sync /\ Drafted(b)' \in SUBSET Sync
  PROVE  (VotersDrafted /\ VotersDiffer /\ ElectBacked)'
<1>1. PICK S \in SUBSET Sync : S = Drafted(a)'
  OBVIOUS
<1>2. PICK vs : vs = WithVoter(voters[n][a], owner)
  OBVIOUS
<1>3. voters[n][a] \in Seq(Sync) /\ vs \in Seq(Sync)
  BY <1>2, WithVoterType DEF TypeOK
<1>4. /\ \A i \in DOMAIN voters[n][a] : voters[n][a][i] \in S
      /\ \A i, j \in DOMAIN voters[n][a] : voters[n][a][i] = voters[n][a][j] => i = j
  BY <1>1 DEF BackedInv, VotersDrafted, VotersDiffer
<1>5. /\ \A i \in DOMAIN vs : vs[i] \in S
      /\ \A i, j \in DOMAIN vs : vs[i] = vs[j] => i = j
  BY <1>1, <1>2, <1>3, <1>4, WithVoterProperties
<1>6. DOMAIN <<>> = {}
  OBVIOUS
<1>7. \A m \in Sync, b \in AdvanceId : ~(m = n /\ b = a) => voters'[m][b] = voters[m][b]
  BY VotersStep
<1>8. voters'[n][a] = voters[n][a] \/ voters'[n][a] = vs \/ voters'[n][a] = <<>>
  BY <1>2, VotersStep
<1>9. /\ \A i \in DOMAIN voters'[n][a] : voters'[n][a][i] \in S
      /\ \A i, j \in DOMAIN voters'[n][a] : voters'[n][a][i] = voters'[n][a][j] => i = j
  BY <1>4, <1>5, <1>6, <1>8
<1>10. (VotersDrafted /\ VotersDiffer)'
  BY <1>1, <1>7, <1>9 DEF BackedInv, VotersDrafted, VotersDiffer
<1>11. ElectBacked'
  <2>1. \A b \in AdvanceId : Cardinality(Drafted(b)) \in Nat /\ Cardinality(Drafted(b)') \in Nat
                            /\ Cardinality(Drafted(b)) <= Cardinality(Drafted(b)')
    BY SyncAssumption, FS_Subset, FS_CardinalityType
  <2>2. SyncQuorum \in Nat
    BY SyncAssumption, QuorumAssumption, FS_CardinalityType
  <2>3. \A m \in Sync : \A b \in done[m] :
          b \in AdvanceId /\ Cardinality(Drafted(b)') >= SyncQuorum
    <3>1. ASSUME NEW m \in Sync, NEW b \in done[m]
          PROVE  b \in AdvanceId /\ Cardinality(Drafted(b)) >= SyncQuorum
      BY DEF BackedInv, ElectBacked, TypeOK
    <3>2. ASSUME NEW m \in Sync, NEW b \in done[m]
          PROVE  Cardinality(Drafted(b)') >= SyncQuorum
      <4>1. b \in AdvanceId /\ Cardinality(Drafted(b)) >= SyncQuorum
        BY <3>1
      <4>2. /\ Cardinality(Drafted(b)) \in Nat /\ Cardinality(Drafted(b)') \in Nat
            /\ Cardinality(Drafted(b)) <= Cardinality(Drafted(b)')
        BY <2>1, <4>1
      <4>. QED BY <2>2, <4>1, <4>2
    <3>. QED BY <3>1, <3>2
  <2>4. Len(vs) >= SyncQuorum => Cardinality(Drafted(a)') >= SyncQuorum
    <3>1. Cardinality(S) \in Nat /\ Len(vs) <= Cardinality(S)
      BY <1>3, <1>5, DraftersCounted
    <3>2. Len(vs) \in Nat
      BY <1>3, LenProperties
    <3>. QED BY <1>1, <2>2, <3>1, <3>2
  <2>5. done' = done \/ (done' = [done EXCEPT ![n] = done[n] \cup {a}] /\ Len(vs) >= SyncQuorum)
    BY <1>2, VotersStep
  <2>6. \A m \in Sync : \A b \in done'[m] : Cardinality(Drafted(b)') >= SyncQuorum
    <3>1. CASE done' = done
      BY <2>3, <3>1
    <3>2. CASE done' = [done EXCEPT ![n] = done[n] \cup {a}] /\ Len(vs) >= SyncQuorum
      <4>1. \A m \in Sync : \A b \in done'[m] : b \in done[m] \/ b = a
        BY <3>2 DEF TypeOK
      <4>. QED BY <2>3, <2>4, <3>2, <4>1
    <3>. QED BY <2>5, <3>1, <3>2
  <2>. QED BY <2>6 DEF ElectBacked
<1>. QED BY <1>10, <1>11

LEMMA BackedUnchanged ==
  ASSUME BackedInv, UNCHANGED <<recentAdvance, voters, done, pick>>
  PROVE  BackedInv'
  BY DEF BackedInv, VotersDrafted, VotersDiffer, SendersDrafted, ElectBacked, Drafted

LEMMA WithoutElements ==
  ASSUME NEW q \in Seq(PickMsg), NEW i \in DOMAIN q, NEW x \in DOMAIN Without(q, i)
  PROVE  \E j \in DOMAIN q : Without(q, i)[x] = q[j]
<1>1. DOMAIN q = 1 .. Len(q) /\ Len(q) \in Nat /\ i \in 1 .. Len(q)
  BY LenProperties
<1>2. PICK s, t : s = SubSeq(q, 1, i - 1) /\ t = SubSeq(q, i + 1, Len(q))
  OBVIOUS
<1>3. /\ \A j \in 1 .. (i - 1) : q[j] \in PickMsg
      /\ \A j \in (i + 1) .. Len(q) : q[j] \in PickMsg
  BY <1>1, ElementOfSeq
<1>4. 1 \in Int /\ i - 1 \in Int /\ i + 1 \in Int /\ Len(q) \in Int
  BY <1>1
<1>5. /\ s \in Seq(PickMsg)
      /\ Len(s) = IF 1 <= i - 1 THEN (i - 1) - 1 + 1 ELSE 0
      /\ \A j \in 1 .. (i - 1) - 1 + 1 : s[j] = q[1 + j - 1]
  BY <1>2, <1>3, <1>4, SubSeqProperties
<1>6. /\ t \in Seq(PickMsg)
      /\ Len(t) = IF i + 1 <= Len(q) THEN Len(q) - (i + 1) + 1 ELSE 0
      /\ \A j \in 1 .. Len(q) - (i + 1) + 1 : t[j] = q[i + 1 + j - 1]
  BY <1>2, <1>3, <1>4, SubSeqProperties
<1>7. Len(s) = i - 1 /\ Len(t) = Len(q) - i
  BY <1>1, <1>5, <1>6
<1>8. /\ s \o t \in Seq(PickMsg)
      /\ Len(s \o t) = Len(s) + Len(t)
      /\ \A j \in 1 .. Len(s) + Len(t) : (s \o t)[j] = IF j <= Len(s) THEN s[j] ELSE t[j - Len(s)]
  BY <1>5, <1>6, ConcatProperties
<1>9. Without(q, i) = s \o t
  BY <1>2 DEF Without
<1>10. x \in 1 .. (Len(s) + Len(t))
  BY <1>8, <1>9, LenProperties
<1>11. CASE x <= Len(s)
  <2>1. x \in 1 .. (i - 1) /\ 1 + x - 1 = x
    BY <1>1, <1>7, <1>10, <1>11
  <2>2. (s \o t)[x] = q[x] /\ x \in DOMAIN q
    BY <1>1, <1>5, <1>8, <1>10, <1>11, <2>1
  <2>. QED BY <1>9, <2>2
<1>12. CASE ~(x <= Len(s))
  <2>1. PICK y : y = x - Len(s)
    OBVIOUS
  <2>2. y \in 1 .. (Len(q) - i) /\ i + 1 + y - 1 = i + y /\ i + y \in 1 .. Len(q)
    <3>1. x \in 1 .. ((i - 1) + (Len(q) - i)) /\ ~(x <= i - 1) /\ y = x - (i - 1)
      BY <1>7, <1>10, <1>12, <2>1
    <3>2. x \in Int /\ i \in Int /\ Len(q) \in Int
      BY <1>1, <3>1
    <3>. QED BY <1>1, <3>1, <3>2
  <2>3. y \in 1 .. Len(q) - (i + 1) + 1
    BY <1>1, <2>2
  <2>4. (s \o t)[x] = t[y]
    BY <1>8, <1>10, <1>12, <2>1
  <2>5. t[y] = q[i + y]
    BY <1>6, <2>2, <2>3
  <2>. QED BY <1>1, <1>9, <2>2, <2>4, <2>5
<1>. QED BY <1>11, <1>12

LEMMA BackedGenerate ==
  ASSUME TypeOK, TypeOK', BackedInv, NEW n \in Sync, NEW e \in Entry,
         NEW k \in 1 .. MaxSegment, GenerateDraft(n, e, k)
  PROVE  BackedInv'
<1>1. <<e, k>> \in AdvanceId /\ GenerateIdRec(makeId[n]) \in Id
  BY ReconcileType DEF AdvanceId, TypeOK
<1>2. PICK msg : msg = [advanceId |-> <<e, k>>, draftId |-> GenerateIdRec(makeId[n])]
  OBVIOUS
<1>3. msg \in PickMsg /\ msg.advanceId = <<e, k>>
  BY <1>1, <1>2 DEF PickMsg
<1>4. /\ recentAdvance[n][e] < k
      /\ recentAdvance' = [recentAdvance EXCEPT ![n][e] = k]
      /\ pick' = [pick EXCEPT ![n] = [m \in Sync |-> IF m = n THEN pick[n][m] ELSE Append(pick[n][m], msg)]]
      /\ PickChallenger(n, n, <<e, k>>, GenerateIdRec(makeId[n]))
  BY <1>2 DEF GenerateDraft, NotDrafted
<1>5. recentAdvance \in [Sync -> [Entry -> 0 .. MaxSegment]] /\ MaxSegment \in Nat
  BY BoundAssumption DEF TypeOK
<1>6. \A m \in Sync, f \in Entry : recentAdvance'[m][f] >= recentAdvance[m][f]
  BY <1>4, <1>5
<1>7. recentAdvance' \in [Sync -> [Entry -> 0 .. MaxSegment]]
  BY DEF TypeOK
<1>8. /\ \A a \in AdvanceId : Drafted(a) \subseteq Drafted(a)'
      /\ \A a \in AdvanceId : Drafted(a) \in SUBSET Sync /\ Drafted(a)' \in SUBSET Sync
  BY <1>6, <1>7, DraftedGrows
<1>9. n \in Drafted(<<e, k>>)'
  BY <1>4, <1>5 DEF Drafted
<1>10. (VotersDrafted /\ VotersDiffer /\ ElectBacked)'
  BY <1>1, <1>4, <1>8, <1>9, BackedPick
<1>11. ASSUME NEW m \in Sync, NEW o \in Sync, NEW i \in DOMAIN pick'[m][o],
              NEW a, a = pick'[m][o][i].advanceId
       PROVE  m \in Drafted(a)'
  <2>1. pick[m][o] \in Seq(PickMsg)
    BY DEF TypeOK
  <2>2. ASSUME NEW j \in DOMAIN pick[m][o], a = pick[m][o][j].advanceId
        PROVE  m \in Drafted(a)'
    <3>1. pick[m][o][j] \in PickMsg
      BY <2>1, LenProperties, ElementOfSeq
    <3>2. a \in AdvanceId
      BY <2>2, <3>1 DEF PickMsg
    <3>3. m \in Drafted(a)
      BY <2>2 DEF BackedInv, SendersDrafted
    <3>. QED BY <1>8, <3>2, <3>3
  <2>3. CASE m = n /\ o # n
    <3>1. pick'[m][o] = Append(pick[m][o], msg)
      BY <1>4, <2>3 DEF TypeOK
    <3>2. /\ DOMAIN pick[m][o] = 1 .. Len(pick[m][o]) /\ Len(pick[m][o]) \in Nat
          /\ DOMAIN pick'[m][o] = 1 .. (Len(pick[m][o]) + 1)
          /\ \A j \in 1 .. Len(pick[m][o]) : pick'[m][o][j] = pick[m][o][j]
          /\ pick'[m][o][Len(pick[m][o]) + 1] = msg
      BY <1>3, <2>1, <3>1, AppendProperties, LenProperties
    <3>3. i \in DOMAIN pick[m][o] \/ i = Len(pick[m][o]) + 1
      BY <3>2
    <3>4. CASE i \in DOMAIN pick[m][o]
      BY <1>11, <2>2, <3>2, <3>4
    <3>5. CASE i = Len(pick[m][o]) + 1
      BY <1>3, <1>9, <1>11, <2>3, <3>2, <3>5
    <3>. QED BY <3>3, <3>4, <3>5
  <2>4. CASE ~(m = n /\ o # n)
    <3>1. pick'[m][o] = pick[m][o]
      BY <1>4, <2>4 DEF TypeOK
    <3>. QED BY <1>11, <2>2, <3>1
  <2>. QED BY <2>3, <2>4
<1>. QED BY <1>10, <1>11 DEF BackedInv, SendersDrafted

LEMMA BackedArrived ==
  ASSUME TypeOK, BackedInv, NEW n \in Sync, NEW owner \in Sync, DraftArrived(n, owner)
  PROVE  BackedInv'
<1>1. PICK i \in DOMAIN pick[owner][n] :
        /\ pick' = [pick EXCEPT ![owner][n] = Without(pick[owner][n], i)]
        /\ PickChallenger(n, owner, pick[owner][n][i].advanceId, pick[owner][n][i].draftId)
  BY DEF DraftArrived, NextInTransit
<1>2. pick[owner][n] \in Seq(PickMsg)
  BY DEF TypeOK
<1>3. pick[owner][n][i] \in PickMsg
  BY <1>2, LenProperties, ElementOfSeq
<1>4. PICK a \in AdvanceId, id \in Id :
        a = pick[owner][n][i].advanceId /\ id = pick[owner][n][i].draftId
  BY <1>3 DEF PickMsg
<1>5. recentAdvance' = recentAdvance
  BY DEF DraftArrived
<1>6. \A b : Drafted(b)' = Drafted(b)
  BY <1>5 DEF Drafted
<1>7. \A b \in AdvanceId : Drafted(b) \in SUBSET Sync
  BY DEF Drafted
<1>8. owner \in Drafted(a)'
  BY <1>4, <1>6 DEF BackedInv, SendersDrafted
<1>9. (VotersDrafted /\ VotersDiffer /\ ElectBacked)'
  BY <1>1, <1>4, <1>6, <1>7, <1>8, BackedPick
<1>10. SendersDrafted'
  <2>1. ASSUME NEW m \in Sync, NEW o \in Sync, NEW x \in DOMAIN pick'[m][o]
        PROVE  \E j \in DOMAIN pick[m][o] : pick'[m][o][x] = pick[m][o][j]
    <3>1. CASE m = owner /\ o = n
      <4>1. pick'[m][o] = Without(pick[owner][n], i)
        BY <1>1, <3>1 DEF TypeOK
      <4>. QED BY <1>2, <3>1, <4>1, WithoutElements
    <3>2. CASE ~(m = owner /\ o = n)
      <4>1. pick'[m][o] = pick[m][o]
        BY <1>1, <3>2 DEF TypeOK
      <4>. QED BY <4>1
    <3>. QED BY <3>1, <3>2
  <2>. QED BY <1>6, <2>1 DEF BackedInv, SendersDrafted
<1>. QED BY <1>9, <1>10 DEF BackedInv

LEMMA BackedStep ==
  ASSUME TypeOK, BackedInv, [Next]_vars
  PROVE  BackedInv'
<1>1. TypeOK'
  BY TypeStep
<1>2. ASSUME NEW n \in Sync, NEW minute \in 1 .. MaxMinute, ActualizePrefix(n, minute)
      PROVE  BackedInv'
  BY <1>2, BackedUnchanged DEF ActualizePrefix
<1>3. ASSUME NEW d \in Ndb, NEW n \in Sync, ElectSegment(d, n)
      PROVE  BackedInv'
  BY <1>3, BackedUnchanged DEF ElectSegment, stageOne
<1>4. CASE UNCHANGED vars
  BY <1>4, BackedUnchanged DEF vars, stageOne
<1>. QED BY <1>1, <1>2, <1>3, <1>4, BackedGenerate, BackedArrived DEF Next

(* A sync node elects a segment only when a quorum of the sync nodes has   *)
(* drafted an id for that very segment (event_pick_challenger), for any    *)
(* quorum: a draft that is counted for a segment was made for it, and is   *)
(* counted once.                                                           *)
THEOREM ElectBackedCorrect == Spec => []ElectBacked
<1>1. Init => TypeOK /\ BackedInv
  BY InitType, BackedInit
<1>2. TypeOK /\ BackedInv /\ [Next]_vars => (TypeOK /\ BackedInv)'
  BY TypeStep, BackedStep
<1>3. BackedInv => ElectBacked
  BY DEF BackedInv
<1>. QED BY <1>1, <1>2, <1>3, PTL DEF Spec

-----------------------------------------------------------------------------
(* A node elects the segments of an entry in their order.  A node drafts   *)
(* for them in order and links keep the order, so a node that hears of a   *)
(* draft has heard of all earlier ones of its owner: those segments are    *)
(* done, or the owner is among their voters.                               *)

Earlier(b, a) == b \in AdvanceId /\ b[1] = a[1] /\ b[2] < a[2]

VoterOf(m, n, a) == \E i \in DOMAIN voters[n][a] : voters[n][a][i] = m
Known(m, n, a) == a \in done[n] \/ VoterOf(m, n, a)
OnTheWay(m, n, a) == \E i \in DOMAIN pick[m][n] : pick[m][n][i].advanceId = a

DraftsSent ==
  \A m, n \in Sync, a \in AdvanceId :
    m \in Drafted(a) => Known(m, n, a) \/ (m # n /\ OnTheWay(m, n, a))

LinksInOrder ==
  \A m, n \in Sync : \A i \in DOMAIN pick[m][n] :
    \A b : Earlier(b, pick[m][n][i].advanceId) =>
      Known(m, n, b) \/ \E j \in DOMAIN pick[m][n] : j < i /\ pick[m][n][j].advanceId = b

VotersInOrder ==
  \A m, n \in Sync, a, b \in AdvanceId :
    VoterOf(m, n, a) /\ Earlier(b, a) => Known(m, n, b)

DoneInOrder ==
  \A n \in Sync, a, b \in AdvanceId : a \in done[n] /\ Earlier(b, a) => b \in done[n]

OrderInv == DraftsSent /\ LinksInOrder /\ VotersInOrder /\ DoneInOrder

LEMMA OrderInit == Init => OrderInv
<1>. SUFFICES ASSUME Init PROVE OrderInv
  OBVIOUS
<1>1. DOMAIN <<>> = {}
  OBVIOUS
<1>2. \A m, n \in Sync : DOMAIN pick[m][n] = {}
  <2>1. \A m, n \in Sync : pick[m][n] = <<>>
    BY DEF Init
  <2>. QED BY <1>1, <2>1
<1>3. \A m, n \in Sync, a \in AdvanceId : ~VoterOf(m, n, a)
  BY <1>1 DEF Init, VoterOf
<1>4. \A a \in AdvanceId : Drafted(a) = {}
  <2>1. ASSUME NEW a \in AdvanceId, NEW m \in Sync PROVE ~(recentAdvance[m][a[1]] >= a[2])
    <3>1. a[1] \in Entry /\ a[2] \in 1 .. MaxSegment
      BY DEF AdvanceId
    <3>2. recentAdvance[m][a[1]] = 0
      BY <3>1 DEF Init
    <3>. QED BY <3>1, <3>2, BoundAssumption
  <2>. QED BY <2>1 DEF Drafted
<1>5. DoneInOrder
  BY DEF Init, DoneInOrder
<1>. QED BY <1>2, <1>3, <1>4, <1>5 DEF OrderInv, DraftsSent, LinksInOrder, VotersInOrder

LEMMA OrderUnchanged ==
  ASSUME OrderInv, UNCHANGED <<recentAdvance, voters, done, pick>>
  PROVE  OrderInv'
<1>1. \A m, n, a : Known(m, n, a)' <=> Known(m, n, a)
  BY DEF Known, VoterOf
<1>2. \A m, n, a : VoterOf(m, n, a)' <=> VoterOf(m, n, a)
  BY DEF VoterOf
<1>3. \A m, n, a : OnTheWay(m, n, a)' <=> OnTheWay(m, n, a)
  BY DEF OnTheWay
<1>4. \A a : Drafted(a)' = Drafted(a)
  BY DEF Drafted
<1>5. DraftsSent' /\ VotersInOrder' /\ DoneInOrder'
  BY <1>1, <1>2, <1>3, <1>4 DEF OrderInv, DraftsSent, VotersInOrder, DoneInOrder
<1>6. LinksInOrder'
  BY <1>1 DEF OrderInv, LinksInOrder
<1>. QED BY <1>5, <1>6 DEF OrderInv

(* What a draft of owner for segment a tells node n: the owner is a voter  *)
(* of a, or a is done, and nothing that n knew is forgotten.               *)
LEMMA DraftKnown ==
  ASSUME TypeOK, NEW n \in Sync, NEW owner \in Sync, NEW a \in AdvanceId,
         NEW id \in Id, PickChallenger(n, owner, a, id)
  PROVE  /\ Known(owner, n, a)'
         /\ \A m, o \in Sync, b \in AdvanceId : Known(m, o, b) => Known(m, o, b)'
         /\ \A m, o \in Sync, b \in AdvanceId :
              VoterOf(m, o, b)' => VoterOf(m, o, b) \/ (m = owner /\ o = n /\ b = a)
         /\ \A o \in Sync : \A b \in done'[o] :
              b \in done[o] \/ (o = n /\ b = a /\ Len(WithVoter(voters[n][a], owner)) >= SyncQuorum)
<1>1. PICK heap : heap = [draftHeap[n] EXCEPT ![owner] = Append(draftHeap[n][owner], id)]
  OBVIOUS
<1>2. PICK vs : vs = WithVoter(voters[n][a], owner)
  OBVIOUS
<1>3. voters \in [Sync -> [AdvanceId -> Seq(Sync)]] /\ done \in [Sync -> SUBSET AdvanceId]
  BY DEF TypeOK
<1>4. /\ \A i \in DOMAIN voters[n][a] : \E j \in DOMAIN vs : vs[j] = voters[n][a][i]
      /\ \E j \in DOMAIN vs : vs[j] = owner
      /\ \A j \in DOMAIN vs : vs[j] = owner \/ \E i \in DOMAIN voters[n][a] : vs[j] = voters[n][a][i]
  <2>1. CASE \E i \in DOMAIN voters[n][a] : voters[n][a][i] = owner
    BY <1>2, <2>1 DEF WithVoter
  <2>2. CASE ~\E i \in DOMAIN voters[n][a] : voters[n][a][i] = owner
    <3>1. vs = Append(voters[n][a], owner)
      BY <1>2, <2>2 DEF WithVoter
    <3>2. voters[n][a] \in Seq(Sync)
      BY <1>3
    <3>3. /\ DOMAIN voters[n][a] = 1 .. Len(voters[n][a]) /\ Len(voters[n][a]) \in Nat
          /\ DOMAIN vs = 1 .. (Len(voters[n][a]) + 1)
          /\ \A i \in 1 .. Len(voters[n][a]) : vs[i] = voters[n][a][i]
          /\ vs[Len(voters[n][a]) + 1] = owner
      BY <3>1, <3>2, AppendProperties, LenProperties
    <3>4. ASSUME NEW j \in DOMAIN vs
          PROVE  j \in DOMAIN voters[n][a] \/ j = Len(voters[n][a]) + 1
      BY <3>3
    <3>5. \A i \in DOMAIN voters[n][a] : i \in DOMAIN vs
      BY <3>3
    <3>6. Len(voters[n][a]) + 1 \in DOMAIN vs
      BY <3>3
    <3>. QED BY <3>3, <3>4, <3>5, <3>6
  <2>. QED BY <2>1, <2>2
<1>5. ASSUME NEW new, voters' = [voters EXCEPT ![n][a] = new]
      PROVE  /\ voters'[n][a] = new
             /\ \A m \in Sync, b \in AdvanceId : ~(m = n /\ b = a) => voters'[m][b] = voters[m][b]
  BY <1>3, <1>5
<1>6. CASE LateDraft(n, a, heap)
  BY <1>6 DEF LateDraft, Known, VoterOf
<1>7. CASE DraftVote(n, a, heap, vs)
  <2>1. voters' = [voters EXCEPT ![n][a] = vs] /\ done' = done
    BY <1>7 DEF DraftVote
  <2>2. /\ voters'[n][a] = vs
        /\ \A m \in Sync, b \in AdvanceId : ~(m = n /\ b = a) => voters'[m][b] = voters[m][b]
    BY <1>5, <2>1
  <2>3. \A m, o \in Sync, b \in AdvanceId : VoterOf(m, o, b) => VoterOf(m, o, b)'
    BY <1>4, <2>2 DEF VoterOf
  <2>4. VoterOf(owner, n, a)'
    BY <1>4, <2>2 DEF VoterOf
  <2>5. \A m, o \in Sync, b \in AdvanceId :
          VoterOf(m, o, b)' => VoterOf(m, o, b) \/ (m = owner /\ o = n /\ b = a)
    BY <1>4, <2>2 DEF VoterOf
  <2>. QED BY <2>1, <2>3, <2>4, <2>5 DEF Known
<1>8. CASE SegmentElected(n, a, heap, vs)
  <2>1. voters' = [voters EXCEPT ![n][a] = <<>>] /\ done' = [done EXCEPT ![n] = done[n] \cup {a}]
    BY <1>8 DEF SegmentElected
  <2>2. /\ voters'[n][a] = <<>>
        /\ \A m \in Sync, b \in AdvanceId : ~(m = n /\ b = a) => voters'[m][b] = voters[m][b]
    BY <1>5, <2>1
  <2>3. /\ a \in done'[n] /\ \A o \in Sync : done[o] \subseteq done'[o]
        /\ \A o \in Sync : \A b \in done'[o] : b \in done[o] \/ (o = n /\ b = a)
    BY <1>3, <2>1
  <2>4. Len(vs) >= SyncQuorum
    BY <1>8 DEF SegmentElected, IsQuorum
  <2>5. DOMAIN <<>> = {}
    OBVIOUS
  <2>6. \A m, o \in Sync, b \in AdvanceId : VoterOf(m, o, b)' => VoterOf(m, o, b)
    BY <2>2, <2>5 DEF VoterOf
  <2>7. \A m, o \in Sync, b \in AdvanceId :
          VoterOf(m, o, b) => VoterOf(m, o, b)' \/ (o = n /\ b = a)
    BY <2>2 DEF VoterOf
  <2>. QED BY <1>2, <2>3, <2>4, <2>6, <2>7 DEF Known
<1>. QED BY <1>1, <1>2, <1>6, <1>7, <1>8 DEF PickChallenger

LEMMA RangeBound ==
  ASSUME NEW q \in Seq(Sync), NEW S, S = {q[i] : i \in DOMAIN q}
  PROVE  S \in SUBSET Sync /\ Cardinality(S) <= Len(q)
<1>1. DOMAIN q = 1 .. Len(q) /\ Len(q) \in Nat /\ q \in [1 .. Len(q) -> Sync]
  BY LenProperties
<1>2. 1 \in Int /\ Len(q) \in Int
  BY <1>1
<1>3. /\ IsFiniteSet(1 .. Len(q))
      /\ Cardinality(1 .. Len(q)) = IF 1 > Len(q) THEN 0 ELSE Len(q) - 1 + 1
  BY <1>2, FS_Interval
<1>4. Cardinality(1 .. Len(q)) = Len(q)
  BY <1>1, <1>3
<1>5. q \in Surjection(1 .. Len(q), S)
  BY <1>1 DEF Surjection
<1>6. Cardinality(S) <= Cardinality(1 .. Len(q))
  BY <1>3, <1>5, FS_Surjection
<1>. QED BY <1>1, <1>4, <1>6

(* An owner whose earlier drafts are known may draft: if its draft closes  *)
(* the quorum of a, every voter of a is a voter of each earlier segment b  *)
(* that is not done, so b would have had its quorum before.                *)
LEMMA OrderPick ==
  ASSUME TypeOK, BackedInv, OrderInv, NEW n \in Sync, NEW owner \in Sync,
         NEW a \in AdvanceId, NEW id \in Id, PickChallenger(n, owner, a, id),
         \A b : Earlier(b, a) => Known(owner, n, b)
  PROVE  (VotersInOrder /\ DoneInOrder)'
<1>1. VotersInOrder'
  <2>1. ASSUME NEW m \in Sync, NEW o \in Sync, NEW c \in AdvanceId, NEW b \in AdvanceId,
               VoterOf(m, o, c)', Earlier(b, c)
        PROVE  Known(m, o, b)'
    <3>1. VoterOf(m, o, c) \/ (m = owner /\ o = n /\ c = a)
      BY <2>1, DraftKnown
    <3>2. Known(m, o, b)
      BY <2>1, <3>1 DEF OrderInv, VotersInOrder
    <3>. QED BY <3>2, DraftKnown
  <2>. QED BY <2>1 DEF VotersInOrder, Earlier
<1>2. ASSUME NEW b \in AdvanceId, Earlier(b, a), b \notin done[n]
      PROVE  ~(Len(WithVoter(voters[n][a], owner)) >= SyncQuorum)
  <2>1. PICK vs : vs = WithVoter(voters[n][a], owner)
    OBVIOUS
  <2>2. PICK S : S = {voters[n][b][i] : i \in DOMAIN voters[n][b]}
    OBVIOUS
  <2>3. \A m : VoterOf(m, n, b) => m \in S
    BY <2>2 DEF VoterOf
  <2>4. voters[n][a] \in Seq(Sync) /\ voters[n][b] \in Seq(Sync)
    BY DEF TypeOK
  <2>5. owner \in S
    BY <1>2, <2>3 DEF Known
  <2>6. \A i \in DOMAIN voters[n][a] : voters[n][a][i] \in S
    <3>1. ASSUME NEW i \in DOMAIN voters[n][a] PROVE voters[n][a][i] \in S
      <4>1. voters[n][a][i] \in Sync
        BY <2>4, LenProperties, ElementOfSeq
      <4>2. VoterOf(voters[n][a][i], n, a)
        BY DEF VoterOf
      <4>3. Known(voters[n][a][i], n, b)
        BY <1>2, <4>1, <4>2 DEF OrderInv, VotersInOrder
      <4>. QED BY <1>2, <2>3, <4>3 DEF Known
    <3>. QED BY <3>1
  <2>7. \A i, j \in DOMAIN voters[n][a] : voters[n][a][i] = voters[n][a][j] => i = j
    BY DEF BackedInv, VotersDiffer
  <2>8. /\ \A i \in DOMAIN vs : vs[i] \in S
        /\ \A i, j \in DOMAIN vs : vs[i] = vs[j] => i = j
    BY <2>1, <2>4, <2>5, <2>6, <2>7, WithVoterProperties
  <2>9. S \in SUBSET Sync /\ Cardinality(S) <= Len(voters[n][b])
    BY <2>2, <2>4, RangeBound
  <2>10. vs \in Seq(Sync) /\ Len(vs) \in Nat /\ Len(voters[n][b]) \in Nat
    BY <2>1, <2>4, WithVoterType, LenProperties
  <2>11. Cardinality(S) \in Nat /\ Len(vs) <= Cardinality(S)
    BY <2>8, <2>9, <2>10, DraftersCounted
  <2>12. Len(voters[n][b]) < SyncQuorum
    BY DEF TypeOK
  <2>13. SyncQuorum \in Nat
    BY SyncAssumption, QuorumAssumption, FS_CardinalityType
  <2>. QED BY <2>1, <2>9, <2>10, <2>11, <2>12, <2>13
<1>3. DoneInOrder'
  <2>1. \A o \in Sync : done[o] \subseteq done'[o]
    <3>1. done' = done \/ done' = [done EXCEPT ![n] = done[n] \cup {a}]
      BY VotersStep
    <3>2. done \in [Sync -> SUBSET AdvanceId]
      BY DEF TypeOK
    <3>. QED BY <3>1, <3>2
  <2>2. ASSUME NEW o \in Sync, NEW c \in AdvanceId, NEW b \in AdvanceId,
               c \in done'[o], Earlier(b, c)
        PROVE  b \in done'[o]
    <3>1. CASE c \in done[o]
      BY <2>1, <2>2, <3>1 DEF OrderInv, DoneInOrder
    <3>2. CASE o = n /\ c = a /\ Len(WithVoter(voters[n][a], owner)) >= SyncQuorum
      BY <1>2, <2>1, <2>2, <3>2
    <3>. QED BY <2>2, <3>1, <3>2, DraftKnown
  <2>. QED BY <2>2 DEF DoneInOrder, Earlier
<1>. QED BY <1>1, <1>3

LEMMA WithoutFirst ==
  ASSUME NEW q \in Seq(PickMsg), 1 \in DOMAIN q
  PROVE  /\ DOMAIN Without(q, 1) = 1 .. (Len(q) - 1)
         /\ \A x \in 1 .. (Len(q) - 1) : Without(q, 1)[x] = q[x + 1]
<1>1. DOMAIN q = 1 .. Len(q) /\ Len(q) \in Nat \ {0}
  BY LenProperties
<1>2. SubSeq(q, 1, 1 - 1) = <<>>
  BY SubSeqEmpty
<1>3. \A j \in (1 + 1) .. Len(q) : q[j] \in PickMsg
  BY <1>1, ElementOfSeq
<1>4. 1 + 1 \in Int /\ Len(q) \in Int
  BY <1>1
<1>5. PICK t : t = SubSeq(q, 1 + 1, Len(q))
  OBVIOUS
<1>6. /\ t \in Seq(PickMsg)
      /\ Len(t) = IF 1 + 1 <= Len(q) THEN Len(q) - (1 + 1) + 1 ELSE 0
      /\ \A j \in 1 .. Len(q) - (1 + 1) + 1 : t[j] = q[1 + 1 + j - 1]
  BY <1>3, <1>4, <1>5, SubSeqProperties
<1>7. Len(t) = Len(q) - 1 /\ \A j \in 1 .. (Len(q) - 1) : t[j] = q[j + 1]
  <2>1. Len(t) = Len(q) - 1
    <3>1. PICK k \in Nat \ {0} : k = Len(q)
      BY <1>1
    <3>2. (IF 1 + 1 <= k THEN k - (1 + 1) + 1 ELSE 0) = k - 1
      BY <3>1
    <3>. QED BY <1>6, <3>1, <3>2
  <2>2. \A j \in 1 .. (Len(q) - 1) : j \in 1 .. Len(q) - (1 + 1) + 1 /\ 1 + 1 + j - 1 = j + 1
    BY <1>1
  <2>3. \A j \in 1 .. (Len(q) - 1) : t[j] = q[j + 1]
    BY <1>6, <2>2
  <2>. QED BY <2>1, <2>3
<1>8. Without(q, 1) = t
  BY <1>2, <1>5, <1>6, ConcatEmptySeq DEF Without
<1>. QED BY <1>6, <1>7, <1>8, LenProperties

LEMMA OrderArrived ==
  ASSUME TypeOK, BackedInv, OrderInv, NEW n \in Sync, NEW owner \in Sync, DraftArrived(n, owner)
  PROVE  OrderInv'
<1>1. PICK q : q = pick[owner][n]
  OBVIOUS
<1>2. q \in Seq(PickMsg)
  BY <1>1 DEF TypeOK
<1>3. /\ 1 \in DOMAIN q
      /\ pick' = [pick EXCEPT ![owner][n] = Without(q, 1)]
      /\ PickChallenger(n, owner, q[1].advanceId, q[1].draftId)
      /\ recentAdvance' = recentAdvance
  BY <1>1 DEF DraftArrived, NextInTransit
<1>4. DOMAIN q = 1 .. Len(q) /\ Len(q) \in Nat
  BY <1>2, LenProperties
<1>5. q[1] \in PickMsg
  BY <1>2, <1>3, <1>4, ElementOfSeq
<1>6. PICK a \in AdvanceId, id \in Id : a = q[1].advanceId /\ id = q[1].draftId
  BY <1>5 DEF PickMsg
<1>7. PickChallenger(n, owner, a, id)
  BY <1>3, <1>6
<1>8. pick'[owner][n] = Without(q, 1)
      /\ \A m, o \in Sync : ~(m = owner /\ o = n) => pick'[m][o] = pick[m][o]
  BY <1>3 DEF TypeOK
<1>9. /\ DOMAIN pick'[owner][n] = 1 .. (Len(q) - 1)
      /\ \A x \in 1 .. (Len(q) - 1) : pick'[owner][n][x] = q[x + 1]
  BY <1>2, <1>3, <1>8, WithoutFirst
<1>10. \A b : Earlier(b, a) => Known(owner, n, b)
  <2>1. \A j \in DOMAIN q : ~(j < 1)
    BY <1>4
  <2>. QED BY <1>1, <1>3, <1>6, <2>1 DEF OrderInv, LinksInOrder
<1>11. (VotersInOrder /\ DoneInOrder)'
  BY <1>7, <1>10, OrderPick
<1>12. /\ Known(owner, n, a)'
       /\ \A m, o \in Sync, b \in AdvanceId : Known(m, o, b) => Known(m, o, b)'
  BY <1>7, DraftKnown
<1>13. ASSUME NEW j \in DOMAIN q, j # 1
       PROVE  j - 1 \in DOMAIN pick'[owner][n] /\ pick'[owner][n][j - 1] = q[j] /\ j - 1 < j
  <2>1. j - 1 \in 1 .. (Len(q) - 1) /\ (j - 1) + 1 = j /\ j - 1 < j
    BY <1>4, <1>13
  <2>. QED BY <1>9, <2>1
<1>14. DraftsSent'
  <2>1. ASSUME NEW m \in Sync, NEW o \in Sync, NEW c \in AdvanceId, m \in Drafted(c)'
        PROVE  Known(m, o, c)' \/ (m # o /\ OnTheWay(m, o, c)')
    <3>1. m \in Drafted(c)
      BY <1>3, <2>1 DEF Drafted
    <3>2. CASE Known(m, o, c)
      BY <1>12, <3>2
    <3>3. CASE m # o /\ OnTheWay(m, o, c) /\ ~(m = owner /\ o = n)
      BY <1>8, <3>3 DEF OnTheWay
    <3>4. CASE m # o /\ OnTheWay(m, o, c) /\ m = owner /\ o = n
      <4>1. PICK j \in DOMAIN q : q[j].advanceId = c
        BY <1>1, <3>4 DEF OnTheWay
      <4>2. CASE j = 1
        BY <1>6, <1>12, <3>4, <4>1, <4>2
      <4>3. CASE j # 1
        BY <1>13, <3>4, <4>1, <4>3 DEF OnTheWay
      <4>. QED BY <4>2, <4>3
    <3>. QED BY <3>1, <3>2, <3>3, <3>4 DEF OrderInv, DraftsSent
  <2>. QED BY <2>1 DEF DraftsSent
<1>15. ASSUME NEW m \in Sync, NEW o \in Sync, NEW i \in DOMAIN pick'[m][o],
              NEW b, Earlier(b, pick'[m][o][i].advanceId)
       PROVE  Known(m, o, b)' \/ \E j \in DOMAIN pick'[m][o] : j < i /\ pick'[m][o][j].advanceId = b
  <2>1. b \in AdvanceId
    BY <1>15 DEF Earlier
  <2>2. CASE ~(m = owner /\ o = n)
    <3>1. pick'[m][o] = pick[m][o]
      BY <1>8, <2>2
    <3>. QED BY <1>12, <1>15, <2>1, <3>1 DEF OrderInv, LinksInOrder
  <2>3. CASE m = owner /\ o = n
    <3>1. i \in 1 .. (Len(q) - 1) /\ pick'[m][o][i] = q[i + 1]
      BY <1>9, <1>15, <2>3
    <3>2. i + 1 \in DOMAIN q /\ i \in Int
      BY <1>4, <3>1
    <3>3. Known(m, o, b) \/ \E j \in DOMAIN q : j < i + 1 /\ q[j].advanceId = b
      BY <1>1, <1>15, <2>3, <3>1, <3>2 DEF OrderInv, LinksInOrder
    <3>4. CASE Known(m, o, b)
      BY <1>12, <2>1, <3>4
    <3>5. ASSUME NEW j \in DOMAIN q, j < i + 1, q[j].advanceId = b, j # 1
          PROVE  j - 1 < i /\ j - 1 \in DOMAIN pick'[m][o] /\ pick'[m][o][j - 1].advanceId = b
      <4>1. j - 1 < i
        BY <1>4, <3>2, <3>5
      <4>. QED BY <1>13, <2>3, <3>5, <4>1
    <3>6. ASSUME NEW j \in DOMAIN q, q[j].advanceId = b, j = 1
          PROVE  Known(m, o, b)'
      BY <1>6, <1>12, <2>3, <3>6
    <3>. QED BY <3>3, <3>4, <3>5, <3>6
  <2>. QED BY <2>2, <2>3
<1>16. LinksInOrder'
  BY <1>15 DEF LinksInOrder, Earlier
<1>. QED BY <1>11, <1>14, <1>16 DEF OrderInv

LEMMA OrderGenerate ==
  ASSUME TypeOK, TypeOK', BackedInv, OrderInv, NEW n \in Sync, NEW e \in Entry,
         NEW k \in 1 .. MaxSegment, GenerateDraft(n, e, k)
  PROVE  OrderInv'
<1>1. PICK a \in AdvanceId : a = <<e, k>> /\ a[1] = e /\ a[2] = k
  <2>1. <<e, k>> \in AdvanceId
    BY DEF AdvanceId
  <2>2. <<e, k>>[1] = e /\ <<e, k>>[2] = k
    OBVIOUS
  <2>. QED BY <2>1, <2>2
<1>2. PICK id \in Id : id = GenerateIdRec(makeId[n])
  BY ReconcileType DEF TypeOK
<1>3. PICK msg \in PickMsg : msg = [advanceId |-> a, draftId |-> id] /\ msg.advanceId = a
  <2>1. [advanceId |-> a, draftId |-> id] \in PickMsg
    BY DEF PickMsg
  <2>2. [advanceId |-> a, draftId |-> id].advanceId = a
    OBVIOUS
  <2>. QED BY <2>1, <2>2
<1>4. /\ recentAdvance[n][e] < k /\ k <= recentAdvance[n][e] + 1
      /\ recentAdvance' = [recentAdvance EXCEPT ![n][e] = k]
      /\ pick' = [pick EXCEPT ![n] = [m \in Sync |-> IF m = n THEN pick[n][m] ELSE Append(pick[n][m], msg)]]
      /\ PickChallenger(n, n, a, id)
  BY <1>1, <1>2, <1>3 DEF GenerateDraft, NotDrafted
<1>5. recentAdvance \in [Sync -> [Entry -> 0 .. MaxSegment]] /\ MaxSegment \in Nat
  BY BoundAssumption DEF TypeOK
<1>6. recentAdvance[n][e] \in Nat /\ k \in Nat
  BY <1>5
<1>7. \A b : Earlier(b, a) => n \in Drafted(b)
  <2>1. ASSUME NEW b, Earlier(b, a) PROVE recentAdvance[n][b[1]] >= b[2]
    <3>1. b[2] \in 1 .. MaxSegment /\ b[1] = e /\ b[2] < k
      BY <1>1, <2>1 DEF Earlier, AdvanceId
    <3>. QED BY <1>4, <1>5, <1>6, <3>1
  <2>. QED BY <2>1 DEF Drafted
<1>8. \A m \in Sync : \A b : Earlier(b, a) => Known(n, m, b) \/ (n # m /\ OnTheWay(n, m, b))
  BY <1>7 DEF OrderInv, DraftsSent, Earlier
<1>9. (VotersInOrder /\ DoneInOrder)'
  BY <1>4, <1>8, OrderPick
<1>10. /\ Known(n, n, a)'
       /\ \A m, o \in Sync, b \in AdvanceId : Known(m, o, b) => Known(m, o, b)'
  BY <1>4, DraftKnown
<1>11. \A m, o \in Sync : ~(m = n /\ o # n) => pick'[m][o] = pick[m][o]
  BY <1>4 DEF TypeOK
<1>12. ASSUME NEW o \in Sync, o # n
       PROVE  /\ DOMAIN pick[n][o] = 1 .. Len(pick[n][o]) /\ Len(pick[n][o]) \in Nat
              /\ DOMAIN pick'[n][o] = 1 .. (Len(pick[n][o]) + 1)
              /\ \A j \in 1 .. Len(pick[n][o]) : pick'[n][o][j] = pick[n][o][j]
              /\ pick'[n][o][Len(pick[n][o]) + 1] = msg
  <2>1. pick'[n][o] = Append(pick[n][o], msg)
    BY <1>4, <1>12 DEF TypeOK
  <2>2. pick[n][o] \in Seq(PickMsg)
    BY DEF TypeOK
  <2>. QED BY <2>1, <2>2, AppendProperties, LenProperties
<1>13. \A m, o \in Sync : \A j \in DOMAIN pick[m][o] :
         j \in DOMAIN pick'[m][o] /\ pick'[m][o][j] = pick[m][o][j]
  <2>1. ASSUME NEW o \in Sync, o # n, NEW j \in DOMAIN pick[n][o]
        PROVE  j \in DOMAIN pick'[n][o] /\ pick'[n][o][j] = pick[n][o][j]
    <3>1. j \in 1 .. Len(pick[n][o]) /\ j \in 1 .. (Len(pick[n][o]) + 1)
      BY <1>12, <2>1
    <3>. QED BY <1>12, <2>1, <3>1
  <2>. QED BY <1>11, <2>1
<1>14. DraftsSent'
  <2>1. ASSUME NEW m \in Sync, NEW o \in Sync, NEW c \in AdvanceId, m \in Drafted(c)'
        PROVE  Known(m, o, c)' \/ (m # o /\ OnTheWay(m, o, c)')
    <3>1. CASE m \in Drafted(c)
      <4>1. OnTheWay(m, o, c) => OnTheWay(m, o, c)'
        BY <1>13 DEF OnTheWay
      <4>. QED BY <1>10, <3>1, <4>1 DEF OrderInv, DraftsSent
    <3>2. CASE m \notin Drafted(c)
      <4>1. c[1] \in Entry /\ c[2] \in Nat /\ c = <<c[1], c[2]>>
        BY <1>5 DEF AdvanceId
      <4>2. recentAdvance'[m][c[1]] >= c[2] /\ ~(recentAdvance[m][c[1]] >= c[2])
        BY <2>1, <3>2 DEF Drafted
      <4>3. m = n /\ c[1] = e
        BY <1>4, <1>5, <4>1, <4>2
      <4>4. recentAdvance'[n][e] = k
        BY <1>4, <1>5
      <4>5. c[2] = k
        BY <1>4, <1>6, <4>1, <4>2, <4>3, <4>4
      <4>6. c = a
        BY <1>1, <4>1, <4>3, <4>5
      <4>7. CASE o = n
        BY <1>10, <4>3, <4>6, <4>7
      <4>8. CASE o # n
        <5>1. Len(pick[n][o]) + 1 \in DOMAIN pick'[n][o]
          BY <1>12, <4>8
        <5>. QED BY <1>3, <1>12, <4>3, <4>6, <4>8, <5>1 DEF OnTheWay
      <4>. QED BY <4>7, <4>8
    <3>. QED BY <3>1, <3>2
  <2>. QED BY <2>1 DEF DraftsSent
<1>15. ASSUME NEW m \in Sync, NEW o \in Sync, NEW i \in DOMAIN pick'[m][o],
              NEW b, Earlier(b, pick'[m][o][i].advanceId)
       PROVE  Known(m, o, b)' \/ \E j \in DOMAIN pick'[m][o] : j < i /\ pick'[m][o][j].advanceId = b
  <2>1. b \in AdvanceId
    BY <1>15 DEF Earlier
  <2>2. CASE i \in DOMAIN pick[m][o]
    <3>1. pick'[m][o][i] = pick[m][o][i]
      BY <1>13, <2>2
    <3>2. Known(m, o, b) \/ \E j \in DOMAIN pick[m][o] : j < i /\ pick[m][o][j].advanceId = b
      BY <1>15, <2>2, <3>1 DEF OrderInv, LinksInOrder
    <3>. QED BY <1>10, <1>13, <2>1, <3>2
  <2>3. CASE m = n /\ o # n /\ i = Len(pick[n][o]) + 1
    <3>1. Earlier(b, a)
      BY <1>3, <1>12, <1>15, <2>3
    <3>2. Known(n, o, b) \/ OnTheWay(n, o, b)
      BY <1>8, <3>1
    <3>3. \A j \in DOMAIN pick[n][o] : j < i
      BY <1>12, <2>3
    <3>4. OnTheWay(n, o, b) =>
            \E j \in DOMAIN pick'[m][o] : j < i /\ pick'[m][o][j].advanceId = b
      BY <1>13, <2>3, <3>3 DEF OnTheWay
    <3>. QED BY <1>10, <2>1, <2>3, <3>2, <3>4
  <2>4. i \in DOMAIN pick[m][o] \/ (m = n /\ o # n /\ i = Len(pick[n][o]) + 1)
    <3>1. CASE m = n /\ o # n
      BY <1>12, <1>15, <3>1
    <3>2. CASE ~(m = n /\ o # n)
      BY <1>11, <1>15, <3>2
    <3>. QED BY <3>1, <3>2
  <2>. QED BY <2>2, <2>3, <2>4
<1>16. LinksInOrder'
  BY <1>15 DEF LinksInOrder, Earlier
<1>. QED BY <1>9, <1>14, <1>16 DEF OrderInv

LEMMA OrderStep ==
  ASSUME TypeOK, BackedInv, OrderInv, [Next]_vars
  PROVE  OrderInv'
<1>1. TypeOK'
  BY TypeStep
<1>2. ASSUME NEW n \in Sync, NEW minute \in 1 .. MaxMinute, ActualizePrefix(n, minute)
      PROVE  OrderInv'
  BY <1>2, OrderUnchanged DEF ActualizePrefix
<1>3. ASSUME NEW d \in Ndb, NEW n \in Sync, ElectSegment(d, n)
      PROVE  OrderInv'
  BY <1>3, OrderUnchanged DEF ElectSegment, stageOne
<1>4. CASE UNCHANGED vars
  BY <1>4, OrderUnchanged DEF vars, stageOne
<1>. QED BY <1>1, <1>2, <1>3, <1>4, OrderGenerate, OrderArrived DEF Next

(* A sync node elects the segments of one entry in the order in which the  *)
(* entry closed them (event_generate_draft, event_pick_challenger), for    *)
(* any number of nodes, entries and segments and any quorum, as long as    *)
(* links keep the order of their messages.                                 *)
THEOREM ElectedInOrderCorrect == Spec => []ElectedInOrder
<1>1. Init => TypeOK /\ BackedInv /\ OrderInv
  BY InitType, BackedInit, OrderInit
<1>2. TypeOK /\ BackedInv /\ OrderInv /\ [Next]_vars => (TypeOK /\ BackedInv /\ OrderInv)'
  BY TypeStep, BackedStep, OrderStep
<1>3. OrderInv => ElectedInOrder
  <2>1. ASSUME OrderInv, NEW n \in Sync, NEW e \in Entry, NEW j \in 1 .. MaxSegment,
               NEW k \in 1 .. MaxSegment, j < k, <<e, k>> \in done[n]
        PROVE  <<e, j>> \in done[n]
    <3>1. <<e, j>> \in AdvanceId /\ <<e, k>> \in AdvanceId
      BY DEF AdvanceId
    <3>2. Earlier(<<e, j>>, <<e, k>>)
      BY <2>1, <3>1 DEF Earlier
    <3>. QED BY <2>1, <3>1, <3>2 DEF OrderInv, DoneInOrder
  <2>. QED BY <2>1 DEF ElectedInOrder
<1>. QED BY <1>1, <1>2, <1>3, PTL DEF Spec

-----------------------------------------------------------------------------
(* The drafts of a node ascend, in the stack of another node and on the    *)
(* link to it; none is above the id that their owner made last, nor those  *)
(* that arrived above the id of the node that has them, nor is the last    *)
(* challenger.  A node sends itself nothing.                               *)

Below(a, b) == ~Less(b, a)

Climbs(q, link) ==
  /\ \A i, j \in DOMAIN q : i < j => Less(q[i], q[j])
  /\ \A i, j \in DOMAIN link : i < j => Less(link[i].draftId, link[j].draftId)
  /\ \A i \in DOMAIN q, j \in DOMAIN link : Less(q[i], link[j].draftId)

StackUnder(q, pos) == \A i \in DOMAIN q : Below(q[i], pos)
LinkUnder(link, pos) == \A i \in DOMAIN link : Below(link[i].draftId, pos)

Rising == \A m, n \in Sync : Climbs(draftHeap[n][m], pick[m][n])
OwnerAbove ==
  \A m, n \in Sync : StackUnder(draftHeap[n][m], makeId[m]) /\ LinkUnder(pick[m][n], makeId[m])
HolderAbove == \A m, n \in Sync : StackUnder(draftHeap[n][m], makeId[n])
RecentBelow == \A n \in Sync : Below(recentValue[n], makeId[n])
NoSelf == \A n \in Sync : pick[n][n] = <<>>
StackInv == Rising /\ OwnerAbove /\ HolderAbove /\ RecentBelow /\ NoSelf

LEMMA LessOrder ==
  ASSUME NEW a \in Id, NEW b \in Id, NEW c \in Id
  PROVE  /\ Less(a, b) => Below(a, b)
         /\ Below(a, a)
         /\ Below(a, b) /\ Below(b, c) => Below(a, c)
         /\ Below(a, b) /\ Less(b, c) => Less(a, c)
         /\ Less(a, b) /\ Below(b, c) => Less(a, c)
<1>1. PICK a1 \in Nat, a2 \in Nat : a1 = a[1] /\ a2 = a[2]
  BY DEF Id
<1>2. PICK b1 \in Nat, b2 \in Nat : b1 = b[1] /\ b2 = b[2]
  BY DEF Id
<1>3. PICK c1 \in Nat, c2 \in Nat : c1 = c[1] /\ c2 = c[2]
  BY DEF Id
<1>. QED BY <1>1, <1>2, <1>3 DEF Less, Below

(* The ids that a node makes are above the one it made before. *)
LEMMA IdsRise ==
  ASSUME NEW pos \in Id, NEW id \in Id
  PROVE  /\ Less(pos, GenerateIdRec(pos))
         /\ Below(pos, ReconcilePos(pos, id))
         /\ Below(id, ReconcilePos(pos, id))
<1>1. Less(pos, GenerateIdRec(pos))
  BY DEF GenerateIdRec, Less, Id
<1>2. Below(pos, ReconcilePos(pos, id)) /\ Below(id, ReconcilePos(pos, id))
  <2>1. CASE Less(pos, id)
    BY <2>1, LessOrder DEF ReconcilePos
  <2>2. CASE ~Less(pos, id)
    BY <2>2, LessOrder DEF ReconcilePos, Below
  <2>. QED BY <2>1, <2>2
<1>. QED BY <1>1, <1>2

(* p is what is left of q when some of its first elements are dropped. *)
Later(p, q) ==
  \E k \in Nat : \A i \in DOMAIN p : i \in Nat /\ i + k \in DOMAIN q /\ p[i] = q[i + k]

LEMMA LaterSelf ==
  ASSUME NEW q \in Seq(Id)
  PROVE  Later(q, q)
<1>1. \A i \in DOMAIN q : i \in Nat /\ i + 0 = i
  BY LenProperties
<1>. QED BY <1>1 DEF Later

(* extractDraft drops the drafts up to the challenger. *)
LEMMA DropUpToLater ==
  ASSUME NEW q \in Seq(Id), NEW id
  PROVE  Later(DropUpTo(q, id), q)
<1>1. DOMAIN q = 1 .. Len(q) /\ Len(q) \in Nat
  BY LenProperties
<1>2. IsFiniteSet(1 .. Len(q))
  BY <1>1, FS_Interval
<1>3. Passed(q, id) \in SUBSET (1 .. Len(q))
  BY <1>1 DEF Passed
<1>4. IsFiniteSet(Passed(q, id))
  BY <1>2, <1>3, FS_Subset
<1>5. PICK k \in Nat : k = Cardinality(Passed(q, id))
  BY <1>4, FS_CardinalityType
<1>6. \A i \in (k + 1) .. Len(q) : q[i] \in Id
  BY <1>1, <1>5, ElementOfSeq
<1>7. k + 1 \in Int /\ Len(q) \in Int
  BY <1>1, <1>5
<1>8. PICK p : p = SubSeq(q, k + 1, Len(q))
  OBVIOUS
<1>9. /\ p \in Seq(Id)
      /\ Len(p) = IF k + 1 <= Len(q) THEN Len(q) - (k + 1) + 1 ELSE 0
      /\ \A i \in 1 .. Len(q) - (k + 1) + 1 : p[i] = q[k + 1 + i - 1]
  BY <1>6, <1>7, <1>8, SubSeqProperties
<1>10. DOMAIN p = 1 .. Len(p) /\ Len(p) \in Nat
  BY <1>9, LenProperties
<1>11. ASSUME NEW i \in DOMAIN p
       PROVE  i \in Nat /\ i + k \in DOMAIN q /\ p[i] = q[i + k]
  <2>0. PICK l \in Nat, c \in Nat : l = Len(q) /\ c = Len(p)
    BY <1>1, <1>10
  <2>3. c = (IF k + 1 <= l THEN l - (k + 1) + 1 ELSE 0) /\ i \in 1 .. c
    BY <1>9, <1>10, <2>0
  <2>4. i \in 1 .. l - (k + 1) + 1
    BY <2>0, <2>3
  <2>1. i \in 1 .. Len(q) - (k + 1) + 1
    BY <2>0, <2>4
  <2>2. i \in Nat /\ i + k \in 1 .. Len(q) /\ k + 1 + i - 1 = i + k
    BY <1>1, <2>1
  <2>. QED BY <1>1, <1>9, <2>1, <2>2
<1>. QED BY <1>5, <1>8, <1>11 DEF Later, DropUpTo

LEMMA LaterKeeps ==
  ASSUME NEW p, NEW q \in Seq(Id), Later(p, q), NEW link, NEW pos
  PROVE  /\ Climbs(q, link) => Climbs(p, link)
         /\ StackUnder(q, pos) => StackUnder(p, pos)
<1>1. PICK k \in Nat : \A i \in DOMAIN p : i \in Nat /\ i + k \in DOMAIN q /\ p[i] = q[i + k]
  BY DEF Later
<1>2. ASSUME Climbs(q, link), NEW i \in DOMAIN p, NEW j \in DOMAIN p, i < j
      PROVE  Less(p[i], p[j])
  <2>1. i + k < j + k
    BY <1>1, <1>2
  <2>. QED BY <1>1, <1>2, <2>1 DEF Climbs
<1>. QED BY <1>1, <1>2 DEF Climbs, StackUnder

LEMMA UnderGrows ==
  ASSUME NEW q \in Seq(Id), NEW link \in Seq(PickMsg), NEW pos \in Id, NEW top \in Id,
         Below(pos, top)
  PROVE  /\ StackUnder(q, pos) => StackUnder(q, top)
         /\ LinkUnder(link, pos) => LinkUnder(link, top)
<1>1. \A i \in DOMAIN q : q[i] \in Id
  BY LenProperties, ElementOfSeq
<1>2. \A i \in DOMAIN link : link[i].draftId \in Id
  <2>1. \A i \in DOMAIN link : link[i] \in PickMsg
    BY LenProperties, ElementOfSeq
  <2>. QED BY <2>1 DEF PickMsg
<1>3. ASSUME StackUnder(q, pos) PROVE StackUnder(q, top)
  BY <1>1, <1>3, LessOrder DEF StackUnder
<1>4. ASSUME LinkUnder(link, pos) PROVE LinkUnder(link, top)
  BY <1>2, <1>4, LessOrder DEF LinkUnder
<1>. QED BY <1>3, <1>4

(* A draft above those of the stack is pushed on it. *)
LEMMA PushedClimbs ==
  ASSUME NEW q \in Seq(Id), NEW link, NEW id \in Id, Climbs(q, link),
         \A i \in DOMAIN q : Less(q[i], id),
         \A j \in DOMAIN link : Less(id, link[j].draftId)
  PROVE  Climbs(Append(q, id), link)
<1>1. DOMAIN q = 1 .. Len(q) /\ Len(q) \in Nat
  BY LenProperties
<1>2. PICK p : p = Append(q, id)
  OBVIOUS
<1>3. /\ DOMAIN p = 1 .. (Len(q) + 1)
      /\ \A i \in 1 .. Len(q) : p[i] = q[i]
      /\ p[Len(q) + 1] = id
  BY <1>2, AppendProperties, LenProperties
<1>4. \A i \in DOMAIN p : (i \in DOMAIN q /\ p[i] = q[i]) \/ (i = Len(q) + 1 /\ p[i] = id)
  BY <1>1, <1>3
<1>5. ASSUME NEW i \in DOMAIN p, NEW j \in DOMAIN p, i < j PROVE Less(p[i], p[j])
  <2>1. i \in DOMAIN q /\ p[i] = q[i]
    BY <1>1, <1>3, <1>5
  <2>. QED BY <1>4, <1>5, <2>1 DEF Climbs
<1>6. ASSUME NEW i \in DOMAIN p, NEW j \in DOMAIN link PROVE Less(p[i], link[j].draftId)
  BY <1>4, <1>6 DEF Climbs
<1>7. \A i, j \in DOMAIN link : i < j => Less(link[i].draftId, link[j].draftId)
  BY DEF Climbs
<1>8. Climbs(p, link)
  BY <1>5, <1>6, <1>7 DEF Climbs
<1>. QED BY <1>2, <1>8

LEMMA PushedUnder ==
  ASSUME NEW q \in Seq(Id), NEW id \in Id, NEW pos, StackUnder(q, pos), Below(id, pos)
  PROVE  StackUnder(Append(q, id), pos)
<1>1. DOMAIN q = 1 .. Len(q) /\ Len(q) \in Nat
  BY LenProperties
<1>2. PICK p : p = Append(q, id)
  OBVIOUS
<1>3. /\ DOMAIN p = 1 .. (Len(q) + 1)
      /\ \A i \in 1 .. Len(q) : p[i] = q[i]
      /\ p[Len(q) + 1] = id
  BY <1>2, AppendProperties, LenProperties
<1>4. \A i \in DOMAIN p : (i \in DOMAIN q /\ p[i] = q[i]) \/ p[i] = id
  BY <1>1, <1>3
<1>5. StackUnder(p, pos)
  BY <1>4 DEF StackUnder
<1>. QED BY <1>2, <1>5

(* A draft above those of the stack and of the link is sent. *)
LEMMA SentClimbs ==
  ASSUME NEW q \in Seq(Id), NEW link \in Seq(PickMsg), NEW msg \in PickMsg, NEW pos \in Id,
         Climbs(q, link), StackUnder(q, pos), LinkUnder(link, pos), Less(pos, msg.draftId)
  PROVE  Climbs(q, Append(link, msg)) /\ LinkUnder(Append(link, msg), msg.draftId)
<1>1. DOMAIN link = 1 .. Len(link) /\ Len(link) \in Nat
  BY LenProperties
<1>2. PICK w : w = Append(link, msg)
  OBVIOUS
<1>3. /\ DOMAIN w = 1 .. (Len(link) + 1)
      /\ \A i \in 1 .. Len(link) : w[i] = link[i]
      /\ w[Len(link) + 1] = msg
  BY <1>2, AppendProperties, LenProperties
<1>4. \A i \in DOMAIN w : (i \in DOMAIN link /\ w[i] = link[i]) \/ (i = Len(link) + 1 /\ w[i] = msg)
  BY <1>1, <1>3
<1>5. msg.draftId \in Id
  BY DEF PickMsg
<1>6. \A i \in DOMAIN q : Less(q[i], msg.draftId)
  <2>1. \A i \in DOMAIN q : q[i] \in Id
    BY LenProperties, ElementOfSeq
  <2>. QED BY <1>5, <2>1, LessOrder DEF StackUnder
<1>7. \A i \in DOMAIN link : Less(link[i].draftId, msg.draftId) /\ link[i].draftId \in Id
  <2>1. \A i \in DOMAIN link : link[i] \in PickMsg
    BY LenProperties, ElementOfSeq
  <2>2. \A i \in DOMAIN link : link[i].draftId \in Id
    BY <2>1 DEF PickMsg
  <2>. QED BY <1>5, <2>2, LessOrder DEF LinkUnder
<1>8. ASSUME NEW i \in DOMAIN w, NEW j \in DOMAIN w, i < j
      PROVE  Less(w[i].draftId, w[j].draftId)
  <2>1. i \in DOMAIN link /\ w[i] = link[i]
    BY <1>1, <1>3, <1>8
  <2>. QED BY <1>4, <1>7, <1>8, <2>1 DEF Climbs
<1>9. ASSUME NEW i \in DOMAIN q, NEW j \in DOMAIN w PROVE Less(q[i], w[j].draftId)
  BY <1>4, <1>6, <1>9 DEF Climbs
<1>10. Climbs(q, w)
  <2>1. \A i, j \in DOMAIN q : i < j => Less(q[i], q[j])
    BY DEF Climbs
  <2>. QED BY <1>8, <1>9, <2>1 DEF Climbs
<1>11. LinkUnder(w, msg.draftId)
  BY <1>4, <1>5, <1>7, LessOrder DEF LinkUnder
<1>. QED BY <1>2, <1>10, <1>11

(* The first draft of the link is pushed on the stack. *)
LEMMA ArrivedClimbs ==
  ASSUME NEW q \in Seq(Id), NEW link \in Seq(PickMsg), 1 \in DOMAIN link, NEW pos,
         Climbs(q, link), LinkUnder(link, pos)
  PROVE  /\ Climbs(Append(q, link[1].draftId), Without(link, 1))
         /\ LinkUnder(Without(link, 1), pos)
         /\ Below(link[1].draftId, pos)
<1>1. DOMAIN link = 1 .. Len(link) /\ Len(link) \in Nat
  BY LenProperties
<1>2. PICK w : w = Without(link, 1)
  OBVIOUS
<1>3. ASSUME NEW x \in DOMAIN w
      PROVE  x \in Nat /\ x + 1 \in DOMAIN link /\ w[x] = link[x + 1] /\ 1 < x + 1
  <2>1. DOMAIN w = 1 .. (Len(link) - 1) /\ \A y \in 1 .. (Len(link) - 1) : w[y] = link[y + 1]
    BY <1>2, WithoutFirst
  <2>2. x \in 1 .. (Len(link) - 1)
    BY <2>1
  <2>3. x \in Nat /\ x + 1 \in 1 .. Len(link) /\ 1 < x + 1
    BY <1>1, <2>2
  <2>. QED BY <1>1, <2>1, <2>2, <2>3
<1>4. \A x \in DOMAIN w : Less(link[1].draftId, w[x].draftId)
  BY <1>3 DEF Climbs
<1>5. ASSUME NEW x \in DOMAIN w, NEW y \in DOMAIN w, x < y
      PROVE  Less(w[x].draftId, w[y].draftId)
  <2>1. x + 1 < y + 1
    BY <1>3, <1>5
  <2>. QED BY <1>3, <2>1 DEF Climbs
<1>6. Climbs(q, w)
  BY <1>3, <1>5 DEF Climbs
<1>7. link[1].draftId \in Id
  <2>1. link[1] \in PickMsg
    BY <1>1, ElementOfSeq
  <2>. QED BY <2>1 DEF PickMsg
<1>8. \A i \in DOMAIN q : Less(q[i], link[1].draftId)
  BY DEF Climbs
<1>9. Climbs(Append(q, link[1].draftId), w)
  BY <1>4, <1>6, <1>7, <1>8, PushedClimbs
<1>10. LinkUnder(w, pos) /\ Below(link[1].draftId, pos)
  BY <1>3 DEF LinkUnder
<1>. QED BY <1>2, <1>9, <1>10

(* What event_pick_challenger does with the stacks of node n and with its  *)
(* recentValue, when a draft of owner comes.                               *)
Pushed(n, owner, id) ==
  /\ \A o \in Sync : o # n => draftHeap'[o] = draftHeap[o]
  /\ \A m \in Sync : m # owner => Later(draftHeap'[n][m], draftHeap[n][m])
  /\ Later(draftHeap'[n][owner], Append(draftHeap[n][owner], id))

Challenged(n, id) ==
  /\ \A o \in Sync : o # n => recentValue'[o] = recentValue[o]
  /\ \/ recentValue'[n] = recentValue[n]
     \/ recentValue'[n] = id
     \/ \E m \in Sync : \E i \in DOMAIN draftHeap[n][m] : recentValue'[n] = draftHeap[n][m][i]

LEMMA PickStacks ==
  ASSUME TypeOK, NEW n \in Sync, NEW owner \in Sync, NEW a \in AdvanceId,
         NEW id \in Id, PickChallenger(n, owner, a, id)
  PROVE  Pushed(n, owner, id) /\ Challenged(n, id)
<1>1. PICK q \in Seq(Id) : q = Append(draftHeap[n][owner], id)
  <2>1. draftHeap[n][owner] \in Seq(Id)
    BY DEF TypeOK
  <2>. QED BY <2>1, AppendProperties
<1>2. PICK heap : heap = [draftHeap[n] EXCEPT ![owner] = q]
  OBVIOUS
<1>3. PICK vs : vs = WithVoter(voters[n][a], owner)
  OBVIOUS
<1>4. /\ heap \in [Sync -> Seq(Id)]
      /\ heap[owner] = q
      /\ \A m \in Sync : m # owner => heap[m] = draftHeap[n][m]
  <2>1. draftHeap[n] \in [Sync -> Seq(Id)]
    BY DEF TypeOK
  <2>. QED BY <1>2, <2>1
<1>5. vs \in Seq(Sync)
  BY <1>3, WithVoterType DEF TypeOK
<1>6. LateDraft(n, a, heap) \/ DraftVote(n, a, heap, vs) \/ SegmentElected(n, a, heap, vs)
  BY <1>1, <1>2, <1>3 DEF PickChallenger
<1>7. CASE draftHeap' = [draftHeap EXCEPT ![n] = heap] /\ recentValue' = recentValue
  <2>1. draftHeap'[n] = heap /\ \A o \in Sync : o # n => draftHeap'[o] = draftHeap[o]
    BY <1>7 DEF TypeOK
  <2>2. \A m \in Sync : Later(heap[m], heap[m])
    BY <1>4, LaterSelf
  <2>3. Pushed(n, owner, id)
    BY <1>1, <1>4, <2>1, <2>2 DEF Pushed
  <2>4. Challenged(n, id)
    BY <1>7 DEF Challenged
  <2>. QED BY <2>3, <2>4
<1>8. CASE SegmentElected(n, a, heap, vs)
  <2>1. PICK challenger \in Lowest(Candidates(heap, vs)) :
          /\ draftHeap' = [draftHeap EXCEPT ![n] = [m \in Sync |-> DropUpTo(heap[m], challenger)]]
          /\ recentValue' = recentValue \/ recentValue' = [recentValue EXCEPT ![n] = challenger]
    BY <1>8 DEF SegmentElected
  <2>2. \A m \in Sync : draftHeap'[n][m] = DropUpTo(heap[m], challenger)
        /\ \A o \in Sync : o # n => draftHeap'[o] = draftHeap[o]
    BY <2>1 DEF TypeOK
  <2>3. \A m \in Sync : Later(DropUpTo(heap[m], challenger), heap[m])
    BY <1>4, DropUpToLater
  <2>4. Pushed(n, owner, id)
    BY <1>1, <1>4, <2>2, <2>3 DEF Pushed
  <2>5. PICK k \in DOMAIN vs : challenger = heap[vs[k]][1] /\ heap[vs[k]] # <<>>
    <3>1. challenger \in Candidates(heap, vs)
      BY DEF Lowest
    <3>2. PICK k \in DOMAIN vs : challenger = heap[vs[k]][1] /\ \A j \in k .. Len(vs) : heap[vs[j]] # <<>>
      BY <3>1 DEF Candidates
    <3>3. k \in k .. Len(vs)
      BY <1>5, LenProperties
    <3>. QED BY <3>2, <3>3
  <2>6. PICK m \in Sync : m = vs[k]
    BY <1>5, LenProperties, ElementOfSeq
  <2>7. challenger = id \/ \E o \in Sync : \E i \in DOMAIN draftHeap[n][o] : challenger = draftHeap[n][o][i]
    <3>1. CASE m # owner
      <4>1. challenger = draftHeap[n][m][1] /\ draftHeap[n][m] # <<>>
        BY <1>4, <2>5, <2>6, <3>1
      <4>2. draftHeap[n][m] \in Seq(Id)
        BY DEF TypeOK
      <4>3. 1 \in DOMAIN draftHeap[n][m]
        BY <4>1, <4>2, EmptySeq, LenProperties
      <4>. QED BY <4>1, <4>3
    <3>2. CASE m = owner
      <4>1. challenger = q[1]
        BY <1>4, <2>5, <2>6, <3>2
      <4>2. PICK p \in Seq(Id) : p = draftHeap[n][owner]
        BY DEF TypeOK
      <4>3. q = Append(p, id)
        BY <1>1, <4>2
      <4>4. CASE Len(p) = 0
        <5>1. q[Len(p) + 1] = id
          BY <4>2, <4>3, AppendProperties
        <5>. QED BY <4>1, <4>4, <5>1
      <4>5. CASE Len(p) # 0
        <5>1. 1 \in 1 .. Len(p) /\ DOMAIN p = 1 .. Len(p)
          BY <4>2, <4>5, LenProperties
        <5>2. q[1] = p[1]
          BY <4>2, <4>3, <5>1, AppendProperties
        <5>. QED BY <4>1, <4>2, <5>1, <5>2
      <4>. QED BY <4>4, <4>5
    <3>. QED BY <3>1, <3>2
  <2>8. Challenged(n, id)
    <3>1. recentValue \in [Sync -> Id]
      BY DEF TypeOK
    <3>2. /\ \A o \in Sync : o # n => recentValue'[o] = recentValue[o]
          /\ recentValue'[n] = recentValue[n] \/ recentValue'[n] = challenger
      BY <2>1, <3>1
    <3>. QED BY <2>7, <3>2 DEF Challenged
  <2>. QED BY <2>4, <2>8
<1>. QED BY <1>6, <1>7, <1>8 DEF LateDraft, DraftVote

LEMMA StackInit == Init => StackInv
<1>. SUFFICES ASSUME Init PROVE StackInv
  OBVIOUS
<1>1. \A m, n \in Sync : draftHeap[n][m] = <<>> /\ pick[m][n] = <<>>
  BY DEF Init
<1>2. \A n \in Sync : makeId[n] = <<1, 0>> /\ recentValue[n] = <<0, 0>>
  BY DEF Init, NoId
<1>3. DOMAIN <<>> = {}
  OBVIOUS
<1>4. Below(<<0, 0>>, <<1, 0>>)
  BY DEF Below, Less
<1>5. Rising /\ OwnerAbove /\ HolderAbove /\ NoSelf
  BY <1>1, <1>3 DEF Rising, OwnerAbove, HolderAbove, NoSelf, Climbs, StackUnder, LinkUnder
<1>6. RecentBelow
  BY <1>2, <1>4 DEF RecentBelow
<1>. QED BY <1>5, <1>6 DEF StackInv

(* Ids may grow, as the clocks do, when the drafts stay where they are. *)
LEMMA StackIdsGrow ==
  ASSUME TypeOK, TypeOK', StackInv, UNCHANGED <<draftHeap, pick, recentValue>>,
         \A m \in Sync : Below(makeId[m], makeId'[m])
  PROVE  StackInv'
<1>1. \A m \in Sync : makeId[m] \in Id /\ makeId'[m] \in Id /\ recentValue[m] \in Id
  BY DEF TypeOK
<1>2. ASSUME NEW m \in Sync, NEW n \in Sync
      PROVE  /\ StackUnder(draftHeap[n][m], makeId'[m])
             /\ LinkUnder(pick[m][n], makeId'[m])
             /\ StackUnder(draftHeap[n][m], makeId'[n])
  <2>1. draftHeap[n][m] \in Seq(Id) /\ pick[m][n] \in Seq(PickMsg)
    BY DEF TypeOK
  <2>2. /\ StackUnder(draftHeap[n][m], makeId[m])
        /\ LinkUnder(pick[m][n], makeId[m])
        /\ StackUnder(draftHeap[n][m], makeId[n])
    BY DEF StackInv, OwnerAbove, HolderAbove
  <2>. QED BY <1>1, <2>1, <2>2, UnderGrows
<1>3. OwnerAbove' /\ HolderAbove'
  BY <1>2 DEF OwnerAbove, HolderAbove
<1>4. RecentBelow'
  BY <1>1, LessOrder DEF StackInv, RecentBelow
<1>. QED BY <1>3, <1>4 DEF StackInv, Rising, NoSelf

LEMMA StackUnmoved ==
  ASSUME TypeOK, TypeOK', StackInv, UNCHANGED <<draftHeap, pick, recentValue, makeId>>
  PROVE  StackInv'
<1>1. \A m \in Sync : Below(makeId[m], makeId'[m])
  BY LessOrder DEF TypeOK
<1>. QED BY <1>1, StackIdsGrow

LEMMA StackPrefix ==
  ASSUME TypeOK, TypeOK', StackInv, NEW n \in Sync, NEW minute \in 1 .. MaxMinute,
         ActualizePrefix(n, minute)
  PROVE  StackInv'
<1>1. makeId[n][1] < minute /\ makeId' = [makeId EXCEPT ![n] = <<minute, 0>>]
  BY DEF ActualizePrefix
<1>2. ASSUME NEW m \in Sync PROVE Below(makeId[m], makeId'[m])
  <2>1. makeId[m] \in Id
    BY DEF TypeOK
  <2>2. CASE m = n
    <3>1. makeId'[m] = <<minute, 0>>
      BY <1>1, <2>2 DEF TypeOK
    <3>2. makeId[m][1] \in Nat /\ minute \in Nat
      BY <2>1, BoundAssumption DEF Id
    <3>. QED BY <1>1, <2>2, <3>1, <3>2 DEF Below, Less
  <2>3. CASE m # n
    <3>1. makeId'[m] = makeId[m]
      BY <1>1, <2>3 DEF TypeOK
    <3>. QED BY <2>1, <3>1, LessOrder
  <2>. QED BY <2>2, <2>3
<1>. QED BY <1>2, StackIdsGrow DEF ActualizePrefix

(* The last challenger is one of the ids that the node has seen. *)
LEMMA RecentKept ==
  ASSUME TypeOK, TypeOK', StackInv, NEW n \in Sync, NEW id \in Id, Challenged(n, id),
         Below(makeId[n], makeId'[n]), Below(id, makeId'[n]),
         \A o \in Sync : o # n => makeId'[o] = makeId[o]
  PROVE  RecentBelow'
<1>1. \A o \in Sync : makeId[o] \in Id /\ makeId'[o] \in Id /\ recentValue[o] \in Id
  BY DEF TypeOK
<1>2. ASSUME NEW o \in Sync, o # n PROVE Below(recentValue'[o], makeId'[o])
  BY <1>2 DEF StackInv, RecentBelow, Challenged
<1>3. Below(recentValue'[n], makeId'[n])
  <2>1. CASE recentValue'[n] = recentValue[n]
    BY <1>1, <2>1, LessOrder DEF StackInv, RecentBelow
  <2>2. CASE recentValue'[n] = id
    BY <2>2
  <2>3. ASSUME NEW m \in Sync, NEW i \in DOMAIN draftHeap[n][m],
               recentValue'[n] = draftHeap[n][m][i]
        PROVE  Below(recentValue'[n], makeId'[n])
    <3>1. draftHeap[n][m] \in Seq(Id)
      BY DEF TypeOK
    <3>2. StackUnder(draftHeap[n][m], makeId[n])
      BY DEF StackInv, HolderAbove
    <3>3. Below(draftHeap[n][m][i], makeId[n]) /\ draftHeap[n][m][i] \in Id
      BY <3>1, <3>2, LenProperties, ElementOfSeq DEF StackUnder
    <3>. QED BY <1>1, <2>3, <3>3, LessOrder
  <2>. QED BY <2>1, <2>2, <2>3 DEF Challenged
<1>. QED BY <1>2, <1>3 DEF RecentBelow

(* The invariant of one stack and the link that feeds it. *)
Fed(q, link, ownerId, holderId) ==
  /\ Climbs(q, link)
  /\ StackUnder(q, ownerId)
  /\ LinkUnder(link, ownerId)
  /\ StackUnder(q, holderId)

LEMMA FedAll ==
  StackInv <=> /\ \A m, n \in Sync : Fed(draftHeap[n][m], pick[m][n], makeId[m], makeId[n])
               /\ RecentBelow /\ NoSelf
  BY DEF StackInv, Rising, OwnerAbove, HolderAbove, Fed

LEMMA FedGrows ==
  ASSUME NEW p, NEW q \in Seq(Id), Later(p, q), NEW link \in Seq(PickMsg),
         NEW o \in Id, NEW h \in Id, NEW ownerId \in Id, NEW holderId \in Id,
         Fed(q, link, o, h), Below(o, ownerId), Below(h, holderId)
  PROVE  Fed(p, link, ownerId, holderId)
<1>1. StackUnder(q, ownerId) /\ LinkUnder(link, ownerId) /\ StackUnder(q, holderId)
  BY UnderGrows DEF Fed
<1>. QED BY <1>1, LaterKeeps DEF Fed

LEMMA StackTyped ==
  ASSUME TypeOK
  PROVE  /\ \A m, o \in Sync : draftHeap[o][m] \in Seq(Id) /\ pick[m][o] \in Seq(PickMsg)
         /\ \A o \in Sync : makeId[o] \in Id
<1>1. ASSUME NEW m \in Sync, NEW o \in Sync PROVE draftHeap[o][m] \in Seq(Id)
  BY DEF TypeOK
<1>2. ASSUME NEW m \in Sync, NEW o \in Sync PROVE pick[m][o] \in Seq(PickMsg)
  BY DEF TypeOK
<1>3. \A o \in Sync : makeId[o] \in Id
  BY DEF TypeOK
<1>. QED BY <1>1, <1>2, <1>3

LEMMA StackGenerate ==
  ASSUME TypeOK, TypeOK', StackInv, NEW n \in Sync, NEW e \in Entry,
         NEW k \in 1 .. MaxSegment, GenerateDraft(n, e, k)
  PROVE  StackInv'
<1>1. PICK a \in AdvanceId : a = <<e, k>>
  BY DEF AdvanceId
<1>2. PICK id \in Id : id = GenerateIdRec(makeId[n])
  BY ReconcileType DEF TypeOK
<1>3. PICK msg \in PickMsg : msg = [advanceId |-> a, draftId |-> id] /\ msg.draftId = id
  <2>1. [advanceId |-> a, draftId |-> id] \in PickMsg
    BY DEF PickMsg
  <2>2. [advanceId |-> a, draftId |-> id].draftId = id
    OBVIOUS
  <2>. QED BY <2>1, <2>2
<1>4. /\ makeId' = [makeId EXCEPT ![n] = id]
      /\ pick' = [pick EXCEPT ![n] = [m \in Sync |-> IF m = n THEN pick[n][m] ELSE Append(pick[n][m], msg)]]
      /\ PickChallenger(n, n, a, id)
  BY <1>1, <1>2, <1>3 DEF GenerateDraft
<1>5. Pushed(n, n, id) /\ Challenged(n, id)
  BY <1>4, PickStacks
<1>6. makeId'[n] = id /\ \A o \in Sync : o # n => makeId'[o] = makeId[o]
  BY <1>4 DEF TypeOK
<1>7. Less(makeId[n], id) /\ Below(makeId[n], id) /\ Below(id, id)
  <2>1. makeId[n] \in Id
    BY DEF TypeOK
  <2>. QED BY <1>2, <2>1, IdsRise, LessOrder
<1>8. /\ \A m, o \in Sync : ~(m = n /\ o # n) => pick'[m][o] = pick[m][o]
      /\ \A o \in Sync : o # n => pick'[n][o] = Append(pick[n][o], msg)
  BY <1>4 DEF TypeOK
<1>9. /\ \A m, o \in Sync : draftHeap[o][m] \in Seq(Id) /\ pick[m][o] \in Seq(PickMsg)
      /\ \A o \in Sync : makeId[o] \in Id /\ Below(makeId[o], makeId[o])
  <2>1. /\ \A m, o \in Sync : draftHeap[o][m] \in Seq(Id) /\ pick[m][o] \in Seq(PickMsg)
        /\ \A o \in Sync : makeId[o] \in Id
    BY StackTyped
  <2>. QED BY <2>1, LessOrder
<1>10. \A m, o \in Sync : Fed(draftHeap[o][m], pick[m][o], makeId[m], makeId[o])
  BY FedAll
<1>11. ASSUME NEW m \in Sync, NEW o \in Sync
       PROVE  Fed(draftHeap'[o][m], pick'[m][o], makeId'[m], makeId'[o])
  <2>1. PICK q \in Seq(Id), link \in Seq(PickMsg) : q = draftHeap[o][m] /\ link = pick[m][o]
    BY <1>9
  <2>2. Fed(q, link, makeId[m], makeId[o])
    BY <1>10, <2>1
  <2>3. CASE o = n /\ m = n
    <3>1. link = <<>> /\ pick'[m][o] = link
      BY <1>8, <2>1, <2>3 DEF StackInv, NoSelf
    <3>2. \A i \in DOMAIN q : Less(q[i], id)
      <4>1. \A i \in DOMAIN q : q[i] \in Id
        BY LenProperties, ElementOfSeq
      <4>. QED BY <1>7, <1>9, <2>2, <2>3, <4>1, LessOrder DEF Fed, StackUnder
    <3>3. DOMAIN link = {}
      BY <3>1
    <3>4. Climbs(Append(q, id), link)
      BY <2>2, <3>2, <3>3, PushedClimbs DEF Fed
    <3>5. StackUnder(q, id)
      BY <1>7, <1>9, <2>2, <2>3, UnderGrows DEF Fed
    <3>6. StackUnder(Append(q, id), id)
      BY <1>7, <3>5, PushedUnder
    <3>7. LinkUnder(link, id)
      BY <3>3 DEF LinkUnder
    <3>8. Append(q, id) \in Seq(Id)
      BY AppendProperties
    <3>9. Later(draftHeap'[o][m], Append(q, id))
      BY <1>5, <2>1, <2>3 DEF Pushed
    <3>10. Climbs(draftHeap'[o][m], link) /\ StackUnder(draftHeap'[o][m], id)
      BY <3>4, <3>6, <3>8, <3>9, LaterKeeps
    <3>. QED BY <1>6, <2>3, <3>1, <3>7, <3>10 DEF Fed
  <2>4. CASE o = n /\ m # n
    <3>1. Later(draftHeap'[o][m], q)
      BY <1>5, <2>1, <2>4 DEF Pushed
    <3>2. pick'[m][o] = link /\ makeId'[m] = makeId[m] /\ makeId'[o] = id
      BY <1>6, <1>8, <2>1, <2>4
    <3>. QED BY <1>7, <1>9, <2>2, <2>4, <3>1, <3>2, FedGrows
  <2>5. CASE o # n /\ m = n
    <3>1. draftHeap'[o][m] = q /\ pick'[m][o] = Append(link, msg) /\ makeId'[m] = id /\ makeId'[o] = makeId[o]
      BY <1>5, <1>6, <1>8, <2>1, <2>5 DEF Pushed
    <3>2. Climbs(q, Append(link, msg)) /\ LinkUnder(Append(link, msg), id)
      BY <1>3, <1>7, <1>9, <2>2, <2>5, SentClimbs DEF Fed
    <3>3. StackUnder(q, id)
      BY <1>7, <1>9, <2>2, <2>5, UnderGrows DEF Fed
    <3>. QED BY <2>2, <3>1, <3>2, <3>3 DEF Fed
  <2>6. CASE o # n /\ m # n
    <3>1. draftHeap'[o][m] = q /\ pick'[m][o] = link /\ makeId'[m] = makeId[m] /\ makeId'[o] = makeId[o]
      BY <1>5, <1>6, <1>8, <2>1, <2>6 DEF Pushed
    <3>. QED BY <2>2, <3>1
  <2>. QED BY <2>3, <2>4, <2>5, <2>6
<1>12. RecentBelow'
  BY <1>5, <1>6, <1>7, RecentKept
<1>13. NoSelf'
  BY <1>8 DEF StackInv, NoSelf
<1>14. Rising' /\ OwnerAbove' /\ HolderAbove'
  BY <1>11 DEF Rising, OwnerAbove, HolderAbove, Fed
<1>. QED BY <1>12, <1>13, <1>14 DEF StackInv

LEMMA StackArrived ==
  ASSUME TypeOK, TypeOK', StackInv, NEW n \in Sync, NEW owner \in Sync, DraftArrived(n, owner)
  PROVE  StackInv'
<1>1. PICK w \in Seq(PickMsg) : w = pick[owner][n]
  BY StackTyped
<1>2. /\ 1 \in DOMAIN w
      /\ pick' = [pick EXCEPT ![owner][n] = Without(w, 1)]
      /\ makeId' = [makeId EXCEPT ![n] = ReconcilePos(makeId[n], w[1].draftId)]
      /\ PickChallenger(n, owner, w[1].advanceId, w[1].draftId)
  BY <1>1 DEF DraftArrived, NextInTransit
<1>3. PICK a \in AdvanceId, id \in Id : a = w[1].advanceId /\ id = w[1].draftId
  <2>1. w[1] \in PickMsg
    BY <1>2, LenProperties, ElementOfSeq
  <2>. QED BY <2>1 DEF PickMsg
<1>4. PickChallenger(n, owner, a, id)
  BY <1>2, <1>3
<1>5. Pushed(n, owner, id) /\ Challenged(n, id)
  BY <1>4, PickStacks
<1>6. /\ makeId'[n] = ReconcilePos(makeId[n], id)
      /\ \A o \in Sync : o # n => makeId'[o] = makeId[o]
  BY <1>2, <1>3 DEF TypeOK
<1>7. /\ \A m, o \in Sync : draftHeap[o][m] \in Seq(Id) /\ pick[m][o] \in Seq(PickMsg)
      /\ \A o \in Sync : makeId[o] \in Id /\ Below(makeId[o], makeId[o])
      /\ makeId'[n] \in Id
  <2>1. /\ \A m, o \in Sync : draftHeap[o][m] \in Seq(Id) /\ pick[m][o] \in Seq(PickMsg)
        /\ \A o \in Sync : makeId[o] \in Id
    BY StackTyped
  <2>2. makeId'[n] \in Id
    BY DEF TypeOK
  <2>. QED BY <2>1, <2>2, LessOrder
<1>8. Below(makeId[n], makeId'[n]) /\ Below(id, makeId'[n])
  BY <1>6, <1>7, IdsRise
<1>9. \A o \in Sync : Below(makeId[o], makeId'[o]) /\ makeId'[o] \in Id
  BY <1>6, <1>7, <1>8
<1>10. owner # n
  BY <1>1, <1>2 DEF StackInv, NoSelf
<1>11. /\ pick'[owner][n] = Without(w, 1)
       /\ \A m, o \in Sync : ~(m = owner /\ o = n) => pick'[m][o] = pick[m][o]
  BY <1>2 DEF TypeOK
<1>12. \A m, o \in Sync : Fed(draftHeap[o][m], pick[m][o], makeId[m], makeId[o])
  BY FedAll
<1>13. ASSUME NEW m \in Sync, NEW o \in Sync
       PROVE  Fed(draftHeap'[o][m], pick'[m][o], makeId'[m], makeId'[o])
  <2>1. PICK q \in Seq(Id), link \in Seq(PickMsg) : q = draftHeap[o][m] /\ link = pick[m][o]
    BY <1>7
  <2>2. Fed(q, link, makeId[m], makeId[o])
    BY <1>12, <2>1
  <2>3. CASE o = n /\ m = owner
    <3>1. link = w /\ makeId'[m] = makeId[m]
      BY <1>1, <1>6, <1>10, <2>1, <2>3
    <3>2. /\ Climbs(Append(q, id), Without(w, 1))
          /\ LinkUnder(Without(w, 1), makeId[m])
          /\ Below(id, makeId[m])
      BY <1>2, <1>3, <2>2, <3>1, ArrivedClimbs DEF Fed
    <3>3. StackUnder(Append(q, id), makeId[m])
      BY <2>2, <3>2, PushedUnder DEF Fed
    <3>4. StackUnder(q, makeId'[n])
      BY <1>7, <1>8, <2>2, <2>3, UnderGrows DEF Fed
    <3>5. StackUnder(Append(q, id), makeId'[n])
      BY <1>8, <3>4, PushedUnder
    <3>6. Append(q, id) \in Seq(Id)
      BY AppendProperties
    <3>7. Later(draftHeap'[o][m], Append(q, id))
      BY <1>5, <2>1, <2>3 DEF Pushed
    <3>8. /\ Climbs(draftHeap'[o][m], Without(w, 1))
          /\ StackUnder(draftHeap'[o][m], makeId[m])
          /\ StackUnder(draftHeap'[o][m], makeId'[n])
      BY <3>2, <3>3, <3>5, <3>6, <3>7, LaterKeeps
    <3>. QED BY <1>11, <2>3, <3>1, <3>2, <3>8 DEF Fed
  <2>4. CASE ~(o = n /\ m = owner)
    <3>1. pick'[m][o] = link
      BY <1>11, <2>1, <2>4
    <3>2. Later(draftHeap'[o][m], q)
      <4>1. CASE o = n
        BY <1>5, <2>1, <2>4, <4>1 DEF Pushed
      <4>2. CASE o # n
        BY <1>5, <2>1, <4>2, LaterSelf DEF Pushed
      <4>. QED BY <4>1, <4>2
    <3>. QED BY <1>7, <1>9, <2>2, <3>1, <3>2, FedGrows
  <2>. QED BY <2>3, <2>4
<1>14. RecentBelow'
  BY <1>5, <1>6, <1>8, RecentKept
<1>15. NoSelf'
  BY <1>10, <1>11 DEF StackInv, NoSelf
<1>16. Rising' /\ OwnerAbove' /\ HolderAbove'
  BY <1>13 DEF Rising, OwnerAbove, HolderAbove, Fed
<1>. QED BY <1>14, <1>15, <1>16 DEF StackInv

LEMMA StackStep ==
  ASSUME TypeOK, StackInv, [Next]_vars
  PROVE  StackInv'
<1>1. TypeOK'
  BY TypeStep
<1>2. ASSUME NEW d \in Ndb, NEW n \in Sync, ElectSegment(d, n)
      PROVE  StackInv'
  BY <1>1, <1>2, StackUnmoved DEF ElectSegment, stageOne
<1>3. CASE UNCHANGED vars
  BY <1>1, <1>3, StackUnmoved DEF vars, stageOne
<1>. QED BY <1>1, <1>2, <1>3, StackPrefix, StackGenerate, StackArrived DEF Next

LEMMA StackImpliesAscend ==
  ASSUME TypeOK, StackInv
  PROVE  StacksAscend
<1>1. ASSUME NEW m \in Sync, NEW n \in Sync, NEW q, q = draftHeap[n][m] \o Coming(m, n),
             NEW i \in DOMAIN q, NEW j \in DOMAIN q, i < j
      PROVE  Less(q[i], q[j])
  <2>1. PICK s \in Seq(Id), link \in Seq(PickMsg) : s = draftHeap[n][m] /\ link = pick[m][n]
    BY DEF TypeOK
  <2>17. PICK c : c = Coming(m, n)
    OBVIOUS
  <2>2. Climbs(s, link)
    BY <2>1 DEF StackInv, Rising
  <2>3. DOMAIN link = 1 .. Len(link) /\ Len(link) \in Nat /\ \A x \in DOMAIN link : link[x] \in PickMsg
    BY LenProperties, ElementOfSeq
  <2>4. c = [x \in 1 .. Len(link) |-> link[x].draftId] /\ \A x \in 1 .. Len(link) : link[x].draftId \in Id
    BY <2>1, <2>3, <2>17 DEF Coming, PickMsg
  <2>5. c \in [1 .. Len(link) -> Id]
    BY <2>4
  <2>6. c \in Seq(Id)
    BY <2>3, <2>5
  <2>7. Len(c) = Len(link)
    BY <2>3, <2>5, <2>6, LenProperties
  <2>8. /\ Len(q) = Len(s) + Len(c) /\ q \in Seq(Id)
        /\ \A x \in 1 .. Len(s) : q[x] = s[x]
        /\ \A x \in 1 .. Len(c) : q[Len(s) + x] = c[x]
    BY <1>1, <2>1, <2>6, <2>17, ConcatProperties
  <2>9. DOMAIN q = 1 .. Len(q) /\ DOMAIN s = 1 .. Len(s) /\ Len(s) \in Nat
    BY <2>8, LenProperties
  <2>10. \A x \in DOMAIN q : x \in Nat /\
           (x \in DOMAIN s \/ (x > Len(s) /\ x - Len(s) \in DOMAIN link))
    BY <2>3, <2>7, <2>8, <2>9
  <2>11. \A x \in DOMAIN s : q[x] = s[x]
    BY <2>8, <2>9
  <2>12. ASSUME NEW x \in DOMAIN q, x > Len(s), x - Len(s) \in DOMAIN link
         PROVE  q[x] = link[x - Len(s)].draftId
    <3>1. PICK y \in 1 .. Len(link) : y = x - Len(s)
      BY <2>3, <2>12
    <3>2. x = Len(s) + y
      BY <2>9, <2>10, <3>1
    <3>. QED BY <2>4, <2>7, <2>8, <3>1, <3>2
  <2>13. CASE i \in DOMAIN s /\ j \in DOMAIN s
    BY <1>1, <2>2, <2>11, <2>13 DEF Climbs
  <2>14. CASE i \in DOMAIN s /\ j > Len(s) /\ j - Len(s) \in DOMAIN link
    BY <2>2, <2>11, <2>12, <2>14 DEF Climbs
  <2>15. CASE i > Len(s) /\ i - Len(s) \in DOMAIN link /\ j > Len(s) /\ j - Len(s) \in DOMAIN link
    <3>1. i - Len(s) < j - Len(s)
      BY <1>1, <2>9, <2>10
    <3>. QED BY <2>2, <2>12, <2>15, <3>1 DEF Climbs
  <2>16. ~(i > Len(s) /\ j \in DOMAIN s)
    BY <1>1, <2>9, <2>10
  <2>. QED BY <2>10, <2>13, <2>14, <2>15, <2>16
<1>. QED BY <1>1 DEF StacksAscend

(* The drafts of an owner ascend in its stack at another node and on their *)
(* way to it (event_pick_challenger, event_generate_draft), so that the    *)
(* first of a stack is the lowest, as extractDraft takes it to be: for any *)
(* nodes, segments and clocks, as long as links keep the order of their    *)
(* messages.                                                               *)
THEOREM StacksAscendCorrect == Spec => []StacksAscend
<1>1. Init => TypeOK /\ StackInv
  BY InitType, StackInit
<1>2. TypeOK /\ StackInv /\ [Next]_vars => (TypeOK /\ StackInv)'
  BY TypeStep, StackStep
<1>3. TypeOK /\ StackInv => StacksAscend
  BY StackImpliesAscend
<1>. QED BY <1>1, <1>2, <1>3, PTL DEF Spec

LEMMA DraftAbove ==
  ASSUME TypeOK, StackInv, Next, NEW n \in Sync, recentAdvance'[n] # recentAdvance[n]
  PROVE  /\ Less(recentValue[n], makeId'[n])
         /\ \A m \in Sync : \A i \in DOMAIN draftHeap[n][m] :
              Less(draftHeap[n][m][i], makeId'[n])
<1>1. PICK o \in Sync, e \in Entry, k \in 1 .. MaxSegment : GenerateDraft(o, e, k)
  BY DEF Next, ActualizePrefix, DraftArrived, ElectSegment, stageOne
<1>2. /\ recentAdvance' = [recentAdvance EXCEPT ![o][e] = k]
      /\ makeId' = [makeId EXCEPT ![o] = GenerateIdRec(makeId[o])]
  BY <1>1 DEF GenerateDraft
<1>3. o = n
  BY <1>2 DEF TypeOK
<1>4. PICK pos \in Id, id \in Id : pos = makeId[n] /\ id = makeId'[n] /\ id = GenerateIdRec(pos)
  BY <1>2, <1>3, ReconcileType DEF TypeOK
<1>5. Less(pos, id)
  BY <1>4, IdsRise
<1>6. recentValue[n] \in Id /\ Below(recentValue[n], pos)
  BY <1>4 DEF TypeOK, StackInv, RecentBelow
<1>7. ASSUME NEW m \in Sync, NEW i \in DOMAIN draftHeap[n][m]
      PROVE  draftHeap[n][m][i] \in Id /\ Below(draftHeap[n][m][i], pos)
  <2>1. draftHeap[n][m] \in Seq(Id)
    BY DEF TypeOK
  <2>2. StackUnder(draftHeap[n][m], pos)
    BY <1>4 DEF StackInv, HolderAbove
  <2>. QED BY <2>1, <2>2, LenProperties, ElementOfSeq DEF StackUnder
<1>. QED BY <1>4, <1>5, <1>6, <1>7, LessOrder

(* A new draft is above every draft that its node has in its stacks and    *)
(* above the challenger it elected last (event_generate_draft,             *)
(* ProduceId.generateIdRec, reconcilePos), whatever came before.           *)
THEOREM DraftAboveSeenCorrect == Spec => DraftAboveSeen
<1>1. Init => TypeOK /\ StackInv
  BY InitType, StackInit
<1>2. TypeOK /\ StackInv /\ [Next]_vars => (TypeOK /\ StackInv)'
  BY TypeStep, StackStep
<1>3. TypeOK /\ StackInv /\ [Next]_vars =>
        [\A n \in Sync :
           recentAdvance'[n] # recentAdvance[n] =>
             /\ Less(recentValue[n], makeId'[n])
             /\ \A m \in Sync : \A i \in DOMAIN draftHeap[n][m] :
                  Less(draftHeap[n][m][i], makeId'[n])]_vars
  BY DraftAbove
<1>. QED BY <1>1, <1>2, <1>3, PTL DEF Spec, DraftAboveSeen
=============================================================================
