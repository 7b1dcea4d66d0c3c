--------------------------- MODULE SegmentsProofs ---------------------------
(***************************************************************************)
(* Proofs about Segments, for any number of storage and sync nodes, of     *)
(* segments, of events and of faults: every variable has its type, the     *)
(* rows of a storage node have the ids that the entry node gave, and an    *)
(* entry node that has finished its initialisation is past every segment   *)
(* that was elected before it started.                                     *)
(***************************************************************************)
EXTENDS Segments, TLAPS, FiniteSetTheorems, WellFoundedInduction

-----------------------------------------------------------------------------
(* Max: the greatest of a set of numbers that has a bound. *)
LEMMA MaxIsGreatest ==
  ASSUME NEW S \in SUBSET Nat, S # {}, NEW b \in Nat, \A x \in S : x <= b
  PROVE  /\ Max(S) \in S
         /\ \A x \in S : x <= Max(S)
<1> DEFINE Below == {b - x : x \in S}
<1>1. Below \subseteq Nat /\ Below # {}
  <2>1. ASSUME NEW x \in S PROVE b - x \in Nat
    OBVIOUS
  <2>2. PICK x : x \in S
    OBVIOUS
  <2>3. b - x \in Below
    BY <2>2
  <2>. QED BY <2>1, <2>3
<1>2. IsWellFoundedOn({ss \in Nat \X Nat : ss[1] < ss[2]}, Nat)
  BY NatLessThanWellFounded DEF OpToRel
<1>3. PICK m \in Below : \A y \in Below : ~(y < m)
  <2>1. \E m \in Below : \A y \in Below : ~(<<y, m>> \in {ss \in Nat \X Nat : ss[1] < ss[2]})
    BY <1>1, <1>2, WFMin
  <2>. QED BY <1>1, <2>1
<1>4. PICK x \in S : m = b - x
  OBVIOUS
<1>5. \A y \in S : x >= y
  <2> SUFFICES ASSUME NEW y \in S PROVE x >= y
    OBVIOUS
  <2>1. b - y \in Below /\ ~(b - y < b - x)
    BY <1>3, <1>4
  <2>. QED BY <2>1
<1>6. /\ Max(S) \in S
      /\ \A y \in S : Max(S) >= y
  BY <1>5 DEF Max
<1>. QED BY <1>6

LEMMA Bounds == MaxSegment \in Nat /\ MaxFault \in Nat /\ MaxOffset \in Nat \ {0}
  BY SegmentBoundAssumption

(* Enough that answer meet enough that elect.                              *)
LEMMA QuorumsMeet ==
  ASSUME NEW Q \in SUBSET Sync, NEW R \in SUBSET Sync,
         Cardinality(Q) >= SyncQuorum, Cardinality(R) >= ConfigQuorum
  PROVE  Q \cap R # {}
<1>1. /\ IsFiniteSet(Sync) /\ Cardinality(Sync) \in Nat
      /\ IsFiniteSet(Q) /\ Cardinality(Q) \in Nat
      /\ IsFiniteSet(R) /\ Cardinality(R) \in Nat
  BY NodeAssumption, FS_Subset, FS_CardinalityType
<1>2. /\ SyncQuorum \in Nat /\ ConfigQuorum \in Nat
      /\ SyncQuorum + ConfigQuorum > Cardinality(Sync)
  BY <1>1, QuorumAssumption
<1>3. Cardinality(Q) + Cardinality(R) > Cardinality(Sync)
  BY <1>1, <1>2
<1>. QED BY <1>1, <1>3, FS_MajoritiesIntersect

-----------------------------------------------------------------------------
(* The types, part by part.                                                *)
Message ==
  {m \in [type : {"BEGIN", "KEEP", "OVER"}, segment : Segment, offset : 0 .. MaxOffset] :
     m.type = "KEEP" => m.offset \in Offset}

EntryTypes ==
  /\ recentSegment \in 0 .. MaxSegment /\ curSegment \in 0 .. recentSegment
  /\ offset \in 0 .. MaxOffset /\ (offset = 0 <=> curSegment = 0)
  /\ initDone \in BOOLEAN

HelloTypes ==
  hello \in [Sync -> [at : {"none", "sent", "received"}, seen : 0 .. MaxSegment]]

LinkTypes ==
  /\ piped \in [Ndb -> 0 .. TrimPipe] /\ exporting \subseteq Ndb
  /\ toNdb \in [Ndb -> Seq(Message)]
  /\ trims \in [Ndb -> SUBSET Segment]

BufferTypes ==
  /\ buffer \in [Ndb -> [Segment -> Seq(Offset)]]
  /\ rows \in [Ndb -> [Segment -> Seq(Offset)]]
  /\ logged \in [Ndb -> SUBSET Segment]
  /\ relayed \in [Ndb -> Seq(Segment)]

SavingTypes ==
  /\ saving \in [Ndb -> [segment : 0 .. MaxSegment, position : Nat, ended : BOOLEAN]]
  /\ \A d \in Ndb : saving[d] # NoSave =>
       /\ saving[d].segment \in Segment
       /\ saving[d].position <= Len(buffer[d][saving[d].segment])

SyncTypes ==
  /\ lastSeen \in [Sync -> 0 .. MaxSegment]
  /\ drafted \in [Segment -> SUBSET Sync]

ResolvedTypes ==
  /\ resolvedAt \in [Ndb -> SUBSET Segment]
  /\ \A d \in Ndb : resolvedAt[d] \subseteq Elected

FaultKind == {"link", "save", "storage", "entry"}

FaultTypes ==
  /\ electedBefore \in 0 .. MaxSegment
  /\ faults \in Seq(FaultKind) /\ Len(faults) <= MaxFault

Types ==
  /\ EntryTypes /\ HelloTypes /\ LinkTypes /\ BufferTypes /\ SavingTypes
  /\ SyncTypes /\ ResolvedTypes /\ FaultTypes

(* What a part is about is unchanged. *)
LEMMA EntryKept ==
  ASSUME EntryTypes, UNCHANGED entryVars
  PROVE  EntryTypes'
  BY DEF EntryTypes, entryVars

LEMMA LinkKept ==
  ASSUME LinkTypes, UNCHANGED linkVars
  PROVE  LinkTypes'
  BY DEF LinkTypes, linkVars

LEMMA StoreKept ==
  ASSUME BufferTypes, SavingTypes, UNCHANGED <<buffer, rows, logged, relayed, saving>>
  PROVE  BufferTypes' /\ SavingTypes'
  BY DEF BufferTypes, SavingTypes

LEMMA SyncKept ==
  ASSUME SyncTypes, ResolvedTypes, UNCHANGED <<syncVars, resolvedAt>>
  PROVE  SyncTypes' /\ ResolvedTypes'
  BY DEF SyncTypes, ResolvedTypes, syncVars, Elected

LEMMA TypesInit == Init => Types
<1> SUFFICES ASSUME Init PROVE Types
  OBVIOUS
<1> USE Bounds
<1>1. SyncTypes /\ ResolvedTypes
  BY DEF Init, SyncTypes, ResolvedTypes
<1>6. EntryTypes
  <2>1. MaxSegment \in Nat /\ MaxOffset \in Nat
    OBVIOUS
  <2>2. recentSegment = 0 /\ curSegment = 0 /\ offset = 0 /\ initDone = FALSE
    BY DEF Init
  <2>3. 0 \in 0 .. MaxSegment /\ 0 \in 0 .. MaxOffset /\ 0 \in 0 .. 0
    BY <2>1
  <2>. QED BY <2>2, <2>3 DEF EntryTypes
<1>5. HelloTypes
  BY DEF Init, HelloTypes
<1>4. FaultTypes
  BY DEF Init, FaultTypes
<1>2. LinkTypes
  BY DEF Init, LinkTypes, TrimPipe
<1>3. BufferTypes /\ SavingTypes
  BY DEF Init, BufferTypes, SavingTypes, NoSave, Save
<1>. QED BY <1>1, <1>2, <1>3, <1>4, <1>5, <1>6 DEF Types

(* A message that is published is typed, and so is the queue then.         *)
LEMMA PublishedTyped ==
  ASSUME NEW q \in Seq(Message), NEW d, NEW msg \in Message
  PROVE  Published(q, d, msg) \in Seq(Message)
  BY DEF Published

LEMMA MessagesTyped ==
  ASSUME NEW k \in Segment
  PROVE  /\ Begin(k) \in Message /\ Over(k) \in Message
         /\ \A i \in Offset : Keep(k, i) \in Message
  BY Bounds DEF Begin, Over, Keep, Message, Offset

LEMMA PushTypes ==
  ASSUME Types, Push
  PROVE  EntryTypes' /\ LinkTypes'
<1> USE Bounds DEF Types
<1>1. CASE PushOpens
  <2>1. PICK k \in Segment :
          /\ curSegment' = k /\ recentSegment' = k /\ offset' = 1
          /\ toNdb' = [d \in Ndb |-> Published(Published(toNdb[d], d, Begin(k)), d, Keep(k, 1))]
    BY <1>1 DEF PushOpens
  <2>2. initDone' = initDone /\ UNCHANGED <<piped, exporting, trims>>
    BY <1>1 DEF PushOpens, Push
  <2>3. EntryTypes'
    BY <2>1, <2>2 DEF EntryTypes, Segment
  <2>4. Begin(k) \in Message /\ Keep(k, 1) \in Message
    BY MessagesTyped DEF Offset
  <2>5. ASSUME NEW d \in Ndb
        PROVE  Published(Published(toNdb[d], d, Begin(k)), d, Keep(k, 1)) \in Seq(Message)
    BY <2>4, PublishedTyped DEF LinkTypes
  <2>6. toNdb' \in [Ndb -> Seq(Message)]
    BY <2>1, <2>5
  <2>. QED BY <2>2, <2>3, <2>6 DEF LinkTypes
<1>2. CASE PushJoins
  <2>1. /\ curSegment \in Segment /\ offset + 1 \in Offset
        /\ UNCHANGED <<curSegment, recentSegment, initDone, piped, exporting, trims>>
        /\ offset' = offset + 1
        /\ toNdb' = [d \in Ndb |-> Published(toNdb[d], d, Keep(curSegment, offset + 1))]
    BY <1>2 DEF PushJoins, Push, EntryTypes, Segment, Offset
  <2>2. EntryTypes'
    BY <2>1, <1>2 DEF EntryTypes, Offset, PushJoins
  <2>3. Keep(curSegment, offset + 1) \in Message
    BY <2>1, MessagesTyped
  <2>4. toNdb' \in [Ndb -> Seq(Message)]
    BY <2>1, <2>3, PublishedTyped DEF LinkTypes
  <2>. QED BY <2>1, <2>2, <2>4 DEF LinkTypes
<1>. QED BY <1>1, <1>2 DEF Push

LEMMA TrimTypes ==
  ASSUME Types, NEW e \in Ndb, NEW k \in Segment, TrimArrived(e, k)
  PROVE  EntryTypes' /\ LinkTypes'
<1> USE Bounds DEF Types
<1>1. trims' \in [Ndb -> SUBSET Segment] /\ UNCHANGED <<piped, exporting>>
  BY DEF TrimArrived, LinkTypes
<1>2. CASE SegmentOver(k)
  <2>1. EntryTypes'
    BY <1>2 DEF SegmentOver, EntryTypes
  <2>2. Over(k) \in Message
    BY MessagesTyped
  <2>3. toNdb' \in [Ndb -> Seq(Message)]
    BY <1>2, <2>2, PublishedTyped DEF SegmentOver, LinkTypes
  <2>. QED BY <1>1, <2>1, <2>3 DEF LinkTypes
<1>3. CASE UNCHANGED <<entryVars, toNdb>>
  BY <1>1, <1>3, EntryKept DEF LinkTypes
<1>. QED BY <1>2, <1>3 DEF TrimArrived

(* What event_init_entry_accepted computes is at least what it has.        *)
LEMMA ReceivedMax ==
  ASSUME EntryTypes, HelloTypes, NEW n \in Sync
  PROVE  /\ MaxReceived(n) \in recentSegment .. MaxSegment
         /\ \A m \in Received(n) : hello[m].seen <= MaxReceived(n)
<1> DEFINE S == {recentSegment} \cup {hello[m].seen : m \in Received(n)}
<1>1. MaxSegment \in Nat /\ recentSegment \in 0 .. MaxSegment
  BY Bounds DEF EntryTypes
<1>2. \A m \in Received(n) : hello[m].seen \in 0 .. MaxSegment
  BY DEF Received, HelloTypes
<1>3. S \in SUBSET Nat /\ recentSegment \in S /\ \A x \in S : x <= MaxSegment
  BY <1>1, <1>2
<1>4. S # {} /\ Max(S) \in S /\ \A x \in S : x <= Max(S)
  <2> HIDE DEF S
  <2>1. S # {}
    BY <1>3
  <2>. QED BY <1>1, <1>3, <2>1, MaxIsGreatest
<1>5. MaxReceived(n) = Max(S)
  BY DEF MaxReceived
<1>6. \A m \in Received(n) : hello[m].seen \in S
  OBVIOUS
<1> HIDE DEF S
<1>7. Max(S) \in Nat /\ recentSegment <= Max(S) /\ Max(S) <= MaxSegment
  BY <1>3, <1>4
<1>8. Max(S) \in recentSegment .. MaxSegment
  BY <1>1, <1>7
<1>9. \A m \in Received(n) : hello[m].seen <= Max(S)
  BY <1>4, <1>6
<1>. QED BY <1>5, <1>8, <1>9

LEMMA HelloStep ==
  ASSUME Types, NEW n \in Sync, SyncConnected(n) \/ InitEntryAccepted(n)
  PROVE  EntryTypes' /\ HelloTypes'
<1> USE DEF Types
<1>1. CASE SyncConnected(n)
  BY <1>1, EntryKept DEF SyncConnected, HelloTypes, SyncTypes
<1>2. CASE InitEntryAccepted(n)
  <2>1. HelloTypes'
    BY <1>2 DEF InitEntryAccepted, HelloTypes
  <2>2. MaxReceived(n) \in recentSegment .. MaxSegment
    BY ReceivedMax
  <2>3. MaxSegment \in Nat /\ curSegment' = curSegment /\ offset' = offset
    BY <1>2, Bounds DEF InitEntryAccepted
  <2>4. \/ initDone' = TRUE /\ recentSegment' = MaxReceived(n)
        \/ initDone' = initDone /\ recentSegment' = recentSegment
    BY <1>2 DEF InitEntryAccepted
  <2>7. initDone \in BOOLEAN /\ recentSegment \in recentSegment .. MaxSegment
    BY <2>3 DEF EntryTypes
  <2>5. initDone' \in BOOLEAN /\ recentSegment' \in recentSegment .. MaxSegment
    BY <2>2, <2>4, <2>7
  <2>6. EntryTypes'
    BY <2>3, <2>5 DEF EntryTypes
  <2>. QED BY <2>1, <2>6
<1>. QED BY <1>1, <1>2

(* A storage node receives a message.                                      *)
LEMMA ReceivedMessage ==
  ASSUME LinkTypes, NEW d \in Ndb, toNdb[d] # <<>>, toNdb' = [toNdb EXCEPT ![d] = Tail(@)]
  PROVE  /\ Head(toNdb[d]) \in Message
         /\ toNdb' \in [Ndb -> Seq(Message)]
<1>1. toNdb[d] \in Seq(Message)
  BY DEF LinkTypes
<1>2. Head(toNdb[d]) \in Message /\ Tail(toNdb[d]) \in Seq(Message)
  BY <1>1
<1>. QED BY <1>2 DEF LinkTypes

(* The buffer of a segment with one event more. *)
LEMMA HistoryTypes ==
  ASSUME BufferTypes, SavingTypes, NEW d \in Ndb, NEW k \in Segment, NEW i \in Offset,
         HistoryKept(d, k, i), UNCHANGED <<rows, relayed, saving>>
  PROVE  BufferTypes' /\ SavingTypes'
<1>1. /\ buffer' = [buffer EXCEPT ![d] = [buffer[d] EXCEPT ![k] = Append(buffer[d][k], i)]]
      /\ buffer[d][k] \in Seq(Offset)
      /\ logged' = [logged EXCEPT ![d] = IF NotEqual(buffer'[d][k], i) THEN logged[d] \cup {k} ELSE logged[d]]
  BY DEF HistoryKept, BufferTypes
<1>2. Append(buffer[d][k], i) \in Seq(Offset)
  BY <1>1
<1>3. buffer' \in [Ndb -> [Segment -> Seq(Offset)]]
  BY <1>1, <1>2 DEF BufferTypes
<1>4. logged' \in [Ndb -> SUBSET Segment]
  BY <1>1 DEF BufferTypes
<1>5. \A e \in Ndb, l \in Segment : Len(buffer[e][l]) \in Nat /\ Len(buffer'[e][l]) >= Len(buffer[e][l])
  <2>1. /\ Len(Append(buffer[d][k], i)) = Len(buffer[d][k]) + 1
        /\ \A e \in Ndb, l \in Segment : Len(buffer[e][l]) \in Nat
    BY <1>1 DEF BufferTypes
  <2>2. \A e \in Ndb, l \in Segment :
          buffer'[e][l] = IF e = d /\ l = k THEN Append(buffer[d][k], i) ELSE buffer[e][l]
    BY <1>1 DEF BufferTypes
  <2>3. ASSUME NEW e \in Ndb, NEW l \in Segment
        PROVE  Len(buffer'[e][l]) >= Len(buffer[e][l])
    <3>1. CASE e = d /\ l = k
      <4>1. buffer'[e][l] = Append(buffer[d][k], i)
        BY <2>2, <3>1
      <4>. QED BY <2>1, <3>1, <4>1
    <3>2. CASE ~(e = d /\ l = k)
      BY <2>1, <2>2, <3>2
    <3>. QED BY <3>1, <3>2
  <2>. QED BY <2>1, <2>3
<1>6. SavingTypes'
  BY <1>5 DEF SavingTypes
<1>. QED BY <1>3, <1>4, <1>6 DEF BufferTypes

LEMMA ReceivesTypes ==
  ASSUME Types, NEW d \in Ndb, NdbReceives(d)
  PROVE  LinkTypes' /\ BufferTypes' /\ SavingTypes'
<1> USE DEF Types
<1> DEFINE msg == Head(toNdb[d])
<1>1. msg \in Message /\ toNdb' \in [Ndb -> Seq(Message)] /\ UNCHANGED <<piped, exporting, saving, rows>>
  BY ReceivedMessage DEF NdbReceives
<1>2. msg.segment \in Segment /\ (msg.type = "KEEP" => msg.offset \in Offset)
  BY <1>1 DEF Message
<1> HIDE DEF msg
<1>3. CASE SegmentBegun(d, msg.segment)
  <2>1. LinkTypes'
    BY <1>1, <1>2, <1>3 DEF SegmentBegun, LinkTypes
  <2>. QED BY <1>1, <1>3, <2>1, StoreKept DEF SegmentBegun
<1>4. CASE msg.type = "KEEP" /\ HistoryKept(d, msg.segment, msg.offset)
  <2>1. UNCHANGED <<trims, relayed>>
    BY <1>4 DEF HistoryKept
  <2>2. LinkTypes'
    BY <1>1, <2>1 DEF LinkTypes
  <2>. QED BY <1>1, <1>2, <1>4, <2>1, <2>2, HistoryTypes
<1>5. CASE DraftRequested(d, msg.segment)
  <2>1. LinkTypes'
    BY <1>1, <1>5 DEF DraftRequested, LinkTypes
  <2>2. relayed' \in [Ndb -> Seq(Segment)]
    BY <1>2, <1>5 DEF DraftRequested, BufferTypes
  <2>3. UNCHANGED <<buffer, logged>>
    BY <1>5 DEF DraftRequested
  <2>4. BufferTypes' /\ SavingTypes'
    BY <1>1, <2>2, <2>3 DEF BufferTypes, SavingTypes
  <2>. QED BY <2>1, <2>4
<1>. QED BY <1>3, <1>4, <1>5 DEF NdbReceives, msg

LEMMA ResolveTypes ==
  ASSUME Types, NEW d \in Ndb, NEW k \in Segment, SegmentResolved(d, k)
  PROVE  SavingTypes' /\ ResolvedTypes'
<1> USE DEF Types
<1>1. resolvedAt' \in [Ndb -> SUBSET Segment] /\ \A e \in Ndb : resolvedAt'[e] \subseteq Elected
  BY DEF SegmentResolved, ResolvedTypes
<1>2. Elected' = Elected
  BY DEF SegmentResolved, syncVars, Elected
<1>3. Save(k) \in [segment : 0 .. MaxSegment, position : Nat, ended : BOOLEAN]
  <2>1. k \in 0 .. MaxSegment
    BY Bounds DEF Segment
  <2>. QED BY <2>1 DEF Save
<1>4. saving' = [saving EXCEPT ![d] = IF Saveable(d, k) THEN Save(k) ELSE saving[d]]
  BY DEF SegmentResolved
<1>5. saving' \in [Ndb -> [segment : 0 .. MaxSegment, position : Nat, ended : BOOLEAN]]
  BY <1>3, <1>4 DEF SavingTypes
<1>6. buffer' = buffer /\ Len(buffer[d][k]) \in Nat
  BY DEF SegmentResolved, BufferTypes
<1>7. SavingTypes'
  BY <1>4, <1>5, <1>6 DEF SavingTypes, Save
<1>. QED BY <1>1, <1>2, <1>7 DEF ResolvedTypes

(* dbSaveSegment, up to the COMMIT or to an error.                         *)
LEMMA SaveTypes ==
  ASSUME Types, NEW d \in Ndb, SaveRow(d) \/ SaveCommitted(d) \/ SaveFailed(d)
  PROVE  BufferTypes' /\ SavingTypes'
<1> USE DEF Types
<1> DEFINE k == saving[d].segment
           n == saving[d].position
<1>1. saving[d] # NoSave
  BY DEF SaveRow, SaveCommitted, SaveFailed, NoSave, Save
<1>2. k \in Segment /\ n \in Nat /\ n <= Len(buffer[d][k]) /\ buffer[d][k] \in Seq(Offset)
  BY <1>1 DEF SavingTypes, BufferTypes
<1>3. Len(buffer[d][k]) \in Nat
  BY <1>2
<1>4. CASE SaveRow(d)
  <2>1. UNCHANGED <<buffer, rows, logged, relayed>>
    BY <1>4 DEF SaveRow
  <2>2. CASE n < Len(buffer[d][k]) /\ saving' = [saving EXCEPT ![d] = [saving[d] EXCEPT !.position = n + 1]]
    <3>1. n + 1 <= Len(buffer[d][k]) /\ n + 1 \in Nat
      BY <1>2, <1>3, <2>2
    <3>2. [saving[d] EXCEPT !.position = n + 1] \in [segment : 0 .. MaxSegment, position : Nat, ended : BOOLEAN]
      BY <3>1 DEF SavingTypes
    <3>3. saving'[d].segment = k /\ saving'[d].position = n + 1
      BY <2>2 DEF SavingTypes
    <3>4. SavingTypes'
      BY <1>1, <1>2, <2>1, <2>2, <3>1, <3>2, <3>3 DEF SavingTypes
    <3>. QED BY <2>1, <3>4 DEF BufferTypes
  <2>3. CASE saving' = [saving EXCEPT ![d] = [saving[d] EXCEPT !.ended = TRUE]]
    <3>1. saving'[d].segment = k /\ saving'[d].position = n
      BY <2>3 DEF SavingTypes
    <3>2. SavingTypes'
      BY <1>1, <1>2, <2>1, <2>3, <3>1 DEF SavingTypes
    <3>. QED BY <2>1, <3>2 DEF BufferTypes
  <2>4. \/ n < Len(buffer[d][k]) /\ saving' = [saving EXCEPT ![d] = [saving[d] EXCEPT !.position = n + 1]]
        \/ saving' = [saving EXCEPT ![d] = [saving[d] EXCEPT !.ended = TRUE]]
    BY <1>4 DEF SaveRow
  <2>. QED BY <2>2, <2>3, <2>4
<1>5. CASE SaveCommitted(d)
  <2>1. SubSeq(buffer[d][k], 1, n) \in Seq(Offset)
    BY <1>2, <1>3
  <2>2. /\ rows' = [rows EXCEPT ![d] = [rows[d] EXCEPT ![k] = SubSeq(buffer[d][k], 1, n)]]
        /\ buffer' = [buffer EXCEPT ![d] = [buffer[d] EXCEPT ![k] = <<>>]]
        /\ saving' = [saving EXCEPT ![d] = NoSave]
        /\ UNCHANGED <<logged, relayed>>
    BY <1>5 DEF SaveCommitted, BufferTypes
  <2>3. BufferTypes'
    BY <1>2, <2>1, <2>2 DEF BufferTypes
  <2>4. /\ saving' \in [Ndb -> [segment : 0 .. MaxSegment, position : Nat, ended : BOOLEAN]]
        /\ \A e \in Ndb : e # d => buffer'[e] = buffer[e] /\ saving'[e] = saving[e]
        /\ saving'[d] = NoSave
    BY <2>2, Bounds DEF SavingTypes, BufferTypes, NoSave, Save
  <2>5. SavingTypes'
    BY <2>4 DEF SavingTypes
  <2>. QED BY <2>3, <2>5
<1>6. CASE SaveFailed(d)
  <2>1. /\ UNCHANGED <<buffer, rows, logged, relayed>>
        /\ saving' = [saving EXCEPT ![d] = NoSave]
    BY <1>6 DEF SaveFailed, storeVars
  <2>2. /\ saving' \in [Ndb -> [segment : 0 .. MaxSegment, position : Nat, ended : BOOLEAN]]
        /\ \A e \in Ndb : e # d => saving'[e] = saving[e]
        /\ saving'[d] = NoSave
    BY <2>1, Bounds DEF SavingTypes, NoSave, Save
  <2>3. SavingTypes'
    BY <2>1, <2>2 DEF SavingTypes
  <2>. QED BY <2>1, <2>3 DEF BufferTypes
<1>. QED BY <1>4, <1>5, <1>6

(* A sync node drafts: who drafted, drafted, and what was elected stays so. *)
LEMMA DraftTypes ==
  ASSUME Types, NEW n \in Sync, NEW d \in Ndb, GenerateDraft(n, d)
  PROVE  /\ SyncTypes' /\ ResolvedTypes'
         /\ lastSeen'[n] >= lastSeen[n]
         /\ \A m \in Sync : m # n => lastSeen'[m] = lastSeen[m]
         /\ Elected \subseteq Elected'
<1> USE DEF Types
<1>1. PICK i \in DOMAIN relayed[d] :
        /\ NextNewer(n, d, i)
        /\ lastSeen' = [lastSeen EXCEPT ![n] = relayed[d][i]]
        /\ drafted' = [drafted EXCEPT ![relayed[d][i]] = drafted[relayed[d][i]] \cup {n}]
  BY DEF GenerateDraft
<1>2. relayed[d] \in Seq(Segment)
  BY DEF BufferTypes
<1>3. PICK k : k = relayed[d][i]
  OBVIOUS
<1>4. k \in Segment /\ k \in 0 .. MaxSegment
  BY <1>1, <1>2, <1>3, Bounds DEF Segment
<1>5. SyncTypes'
  BY <1>1, <1>3, <1>4 DEF SyncTypes
<1>6. ASSUME NEW e \in Segment
      PROVE  /\ Cardinality(drafted[e]) \in Nat /\ Cardinality(drafted'[e]) \in Nat
             /\ Cardinality(drafted[e]) <= Cardinality(drafted'[e])
  <2>1. drafted[e] \subseteq drafted'[e] /\ drafted'[e] \subseteq Sync
    BY <1>1, <1>3, <1>4 DEF SyncTypes
  <2>2. IsFiniteSet(drafted'[e])
    BY <2>1, NodeAssumption, FS_Subset
  <2>. QED BY <2>1, <2>2, FS_Subset, FS_CardinalityType
<1>7. SyncQuorum \in Nat
  BY NodeAssumption, QuorumAssumption, FS_CardinalityType
<1>8. Elected \subseteq Elected'
  BY <1>6, <1>7 DEF Elected
<1>9. ResolvedTypes'
  BY <1>8 DEF ResolvedTypes, GenerateDraft, storeVars
<1>10. lastSeen[n] \in Nat /\ lastSeen'[n] = k /\ k > lastSeen[n]
  BY <1>1, <1>3, <1>4 DEF SyncTypes, NextNewer
<1>. QED BY <1>1, <1>4, <1>5, <1>8, <1>9, <1>10 DEF SyncTypes

(* Connections that are opened and lost. *)
LEMMA OpenTypes ==
  ASSUME Types, NEW d \in Ndb, OpenPipe(d)
  PROVE  LinkTypes'
<1>1. piped[d] + 1 \in 0 .. TrimPipe
  BY DEF OpenPipe, Types, LinkTypes, TrimPipe
<1>2. /\ piped' = [piped EXCEPT ![d] = piped[d] + 1]
      /\ exporting' \subseteq exporting \cup {d}
      /\ UNCHANGED <<toNdb, trims>>
  BY DEF OpenPipe
<1>. QED BY <1>1, <1>2 DEF Types, LinkTypes

LEMMA FaultKept ==
  ASSUME Types, NEW kind \in FaultKind, Fault(kind), electedBefore' \in 0 .. MaxSegment
  PROVE  FaultTypes'
<1>1. faults \in Seq(FaultKind) /\ Len(faults) < MaxFault /\ faults' = Append(faults, kind)
  BY DEF Types, FaultTypes, Fault
<1>2. Len(faults) \in Nat /\ MaxFault \in Nat
  BY <1>1, Bounds
<1>3. faults' \in Seq(FaultKind) /\ Len(faults') = Len(faults) + 1
  BY <1>1
<1>4. Len(faults') <= MaxFault
  BY <1>1, <1>2, <1>3
<1>. QED BY <1>3, <1>4 DEF FaultTypes

LEMMA LinkLostTypes ==
  ASSUME Types, NEW d \in Ndb, LinkLost(d)
  PROVE  LinkTypes' /\ FaultTypes'
<1>1. electedBefore' \in 0 .. MaxSegment
  BY DEF LinkLost, Types, FaultTypes
<1>2. FaultTypes'
  <2>1. Fault("link") /\ "link" \in FaultKind
    BY DEF LinkLost, FaultKind
  <2>. QED BY <1>1, <2>1, FaultKept
<1>3. LinkTypes'
  BY DEF LinkLost, Types, LinkTypes, TrimPipe
<1>. QED BY <1>2, <1>3

LEMMA NdbRestartTypes ==
  ASSUME Types, NEW d \in Ndb, NdbRestart(d)
  PROVE  LinkTypes' /\ BufferTypes' /\ SavingTypes' /\ FaultTypes'
<1> USE DEF Types
<1>1. electedBefore' \in 0 .. MaxSegment
  BY DEF NdbRestart, FaultTypes
<1>2. FaultTypes'
  <2>1. Fault("storage") /\ "storage" \in FaultKind
    BY DEF NdbRestart, FaultKind
  <2>. QED BY <1>1, <2>1, FaultKept
<1>3. LinkTypes'
  BY DEF NdbRestart, LinkTypes, TrimPipe
<1>4. BufferTypes'
  BY DEF NdbRestart, BufferTypes
<1>5. /\ saving' \in [Ndb -> [segment : 0 .. MaxSegment, position : Nat, ended : BOOLEAN]]
      /\ \A e \in Ndb : e # d => buffer'[e] = buffer[e] /\ saving'[e] = saving[e]
      /\ saving'[d] = NoSave
  BY Bounds DEF NdbRestart, SavingTypes, BufferTypes, NoSave, Save
<1>6. SavingTypes'
  BY <1>5 DEF SavingTypes
<1>. QED BY <1>2, <1>3, <1>4, <1>6

(* The last segment that is elected. *)
LEMMA LastElected ==
  /\ Max({0} \cup Elected) \in 0 .. MaxSegment
  /\ Max({0} \cup Elected) # 0 => Max({0} \cup Elected) \in Elected
<1> DEFINE S == {0} \cup Elected
<1>1. S \in SUBSET Nat /\ 0 \in S /\ \A x \in S : x <= MaxSegment
  BY Bounds DEF Elected, Segment
<1>2. Max(S) \in S
  <2> HIDE DEF S
  <2>1. S # {}
    BY <1>1
  <2>. QED BY <1>1, <2>1, Bounds, MaxIsGreatest
<1>3. Max(S) \in 0 .. MaxSegment
  <2> HIDE DEF S
  <2>1. Max(S) \in Nat /\ Max(S) <= MaxSegment
    BY <1>1, <1>2
  <2>. QED BY <2>1, Bounds
<1>. QED BY <1>2, <1>3

LEMMA EntryRestartTypes ==
  ASSUME Types, EntryRestart
  PROVE  EntryTypes' /\ HelloTypes' /\ LinkTypes' /\ FaultTypes'
<1> USE DEF Types
<1>1. electedBefore' \in 0 .. MaxSegment
  BY LastElected DEF EntryRestart
<1>2. FaultTypes'
  <2>1. Fault("entry") /\ "entry" \in FaultKind
    BY DEF EntryRestart, FaultKind
  <2>. QED BY <1>1, <2>1, FaultKept
<1>3. LinkTypes'
  BY DEF EntryRestart, LinkTypes, TrimPipe
<1>4. HelloTypes'
  BY Bounds DEF EntryRestart, HelloTypes
<1>5. EntryTypes'
  <2>1. recentSegment' = 0 /\ curSegment' = 0 /\ offset' = 0 /\ initDone' = FALSE
    BY DEF EntryRestart
  <2>2. 0 \in 0 .. MaxSegment /\ 0 \in 0 .. MaxOffset /\ 0 \in 0 .. 0
    BY Bounds
  <2>. QED BY <2>1, <2>2 DEF EntryTypes
<1>. QED BY <1>2, <1>3, <1>4, <1>5

LEMMA TypesStep == Types /\ [Next]_vars => Types'
<1> SUFFICES ASSUME Types, [Next]_vars PROVE Types'
  OBVIOUS
<1> USE DEF Types
<1>1. CASE UNCHANGED vars
  <2>1. UNCHANGED <<entryVars, hello, linkVars, buffer, rows, logged, relayed, saving, syncVars, resolvedAt>>
    BY <1>1 DEF vars, storeVars
  <2>2. HelloTypes' /\ FaultTypes'
    BY <1>1, <2>1 DEF vars, HelloTypes, FaultTypes
  <2>. QED BY <2>1, <2>2, EntryKept, LinkKept, StoreKept, SyncKept
<1>2. CASE Push
  <2>1. HelloTypes' /\ FaultTypes'
    BY <1>2 DEF Push, HelloTypes, FaultTypes
  <2>. QED BY <1>2, <2>1, PushTypes, StoreKept, SyncKept DEF Push, storeVars
<1>3. ASSUME NEW d \in Ndb, NEW k \in Segment, TrimArrived(d, k)
      PROVE  Types'
  <2>1. HelloTypes' /\ FaultTypes'
    BY <1>3 DEF TrimArrived, HelloTypes, FaultTypes
  <2>. QED BY <1>3, <2>1, TrimTypes, StoreKept, SyncKept DEF TrimArrived, storeVars
<1>4. ASSUME NEW d \in Ndb, NEW k \in Segment, SegmentResolved(d, k)
      PROVE  Types'
  <2>1. HelloTypes' /\ FaultTypes' /\ BufferTypes' /\ SyncTypes'
    BY <1>4 DEF SegmentResolved, HelloTypes, FaultTypes, BufferTypes, SyncTypes, syncVars
  <2>. QED BY <1>4, <2>1, ResolveTypes, EntryKept, LinkKept DEF SegmentResolved
<1>5. ASSUME NEW n \in Sync, SyncConnected(n) \/ InitEntryAccepted(n)
      PROVE  Types'
  <2>1. UNCHANGED <<linkVars, storeVars, syncVars, electedBefore, faults>>
    BY <1>5 DEF SyncConnected, InitEntryAccepted
  <2>2. FaultTypes'
    BY <2>1 DEF FaultTypes
  <2>. QED BY <1>5, <2>1, <2>2, HelloStep, LinkKept, StoreKept, SyncKept DEF storeVars
<1>6. ASSUME NEW d \in Ndb, OpenPipe(d)
      PROVE  Types'
  <2>1. HelloTypes' /\ FaultTypes'
    BY <1>6 DEF OpenPipe, HelloTypes, FaultTypes
  <2>. QED BY <1>6, <2>1, OpenTypes, EntryKept, StoreKept, SyncKept DEF OpenPipe, storeVars
<1>7. ASSUME NEW d \in Ndb, NdbReceives(d)
      PROVE  Types'
  <2>1. HelloTypes' /\ FaultTypes'
    BY <1>7 DEF NdbReceives, HelloTypes, FaultTypes
  <2>. QED BY <1>7, <2>1, ReceivesTypes, EntryKept, SyncKept DEF NdbReceives
<1>8. ASSUME NEW d \in Ndb, SaveRow(d) \/ SaveCommitted(d) \/ SaveFailed(d)
      PROVE  Types'
  <2>1. UNCHANGED <<entryVars, hello, linkVars, syncVars, electedBefore, resolvedAt>>
    BY <1>8 DEF SaveRow, SaveCommitted, SaveFailed
  <2>2. HelloTypes' /\ electedBefore' \in 0 .. MaxSegment
    BY <2>1 DEF HelloTypes, FaultTypes
  <2>3. faults' = faults \/ (Fault("save") /\ "save" \in FaultKind)
    BY <1>8 DEF SaveRow, SaveCommitted, SaveFailed, FaultKind
  <2>4. FaultTypes'
    BY <2>2, <2>3, FaultKept DEF FaultTypes
  <2>. QED BY <1>8, <2>1, <2>2, <2>4, SaveTypes, EntryKept, LinkKept, SyncKept
<1>9. ASSUME NEW n \in Sync, NEW d \in Ndb, GenerateDraft(n, d)
      PROVE  Types'
  <2>1. HelloTypes' /\ FaultTypes'
    BY <1>9 DEF GenerateDraft, HelloTypes, FaultTypes
  <2>. QED BY <1>9, <2>1, DraftTypes, EntryKept, LinkKept, StoreKept DEF GenerateDraft, storeVars
<1>10. ASSUME NEW d \in Ndb, LinkLost(d)
       PROVE  Types'
  <2>1. HelloTypes'
    BY <1>10 DEF LinkLost, HelloTypes
  <2>. QED BY <1>10, <2>1, LinkLostTypes, EntryKept, StoreKept, SyncKept DEF LinkLost, storeVars
<1>11. ASSUME NEW d \in Ndb, NdbRestart(d)
       PROVE  Types'
  <2>1. HelloTypes'
    BY <1>11 DEF NdbRestart, HelloTypes
  <2>. QED BY <1>11, <2>1, NdbRestartTypes, EntryKept, SyncKept DEF NdbRestart
<1>12. CASE EntryRestart
  BY <1>12, EntryRestartTypes, StoreKept, SyncKept DEF EntryRestart, storeVars
<1>. QED BY <1>1, <1>2, <1>3, <1>4, <1>5, <1>6, <1>7, <1>8, <1>9, <1>10, <1>11, <1>12 DEF Next

(* Every variable has its type, in every state: TypeOK of the run.         *)
THEOREM TypeCorrect == Spec => []TypeOK
<1>1. Types => TypeOK
  <2> SUFFICES ASSUME Types PROVE TypeOK
    OBVIOUS
  <2> USE DEF Types
  <2>1. /\ recentSegment \in 0 .. MaxSegment /\ curSegment \in 0 .. recentSegment
        /\ offset \in 0 .. MaxOffset /\ (offset = 0 <=> curSegment = 0)
        /\ initDone \in BOOLEAN
    BY DEF EntryTypes
  <2>2. /\ hello \in [Sync -> [at : {"none", "sent", "received"}, seen : 0 .. MaxSegment]]
        /\ piped \in [Ndb -> 0 .. TrimPipe] /\ exporting \subseteq Ndb
        /\ Len(faults) <= MaxFault
    BY DEF HelloTypes, LinkTypes, FaultTypes
  <2>3. ASSUME NEW d \in Ndb
        PROVE  /\ trims[d] \subseteq Segment
               /\ \A k \in Segment : buffer[d][k] \in Seq(Offset) /\ rows[d][k] \in Seq(Offset)
               /\ logged[d] \subseteq Segment
               /\ relayed[d] \in Seq(Segment)
               /\ saving[d] # NoSave => saving[d].position <= Len(buffer[d][saving[d].segment])
               /\ resolvedAt[d] \subseteq Elected
    BY DEF LinkTypes, BufferTypes, SavingTypes, ResolvedTypes
  <2>4. lastSeen \in [Sync -> 0 .. MaxSegment] /\ drafted \in [Segment -> SUBSET Sync]
    BY DEF SyncTypes
  <2>. QED BY <2>1, <2>2, <2>3, <2>4 DEF TypeOK
<1>. QED BY <1>1, TypesInit, TypesStep, PTL DEF Spec

-----------------------------------------------------------------------------
(* A buffer holds the events at the places that their offsets name, or     *)
(* the storage node has logged that it does not; what is saved of it then  *)
(* does as well.                                                           *)
BufferIsOffset ==
  \A d \in Ndb : \A k \in Segment \ logged[d] : \A i \in DOMAIN buffer[d][k] : buffer[d][k][i] = i

IdInv == Types /\ BufferIsOffset /\ IdIsOffset

(* One buffer, or the rows of one segment.                                 *)
InPlace(content) == \A i \in DOMAIN content : content[i] = i

LEMMA IdInvParts ==
  BufferIsOffset /\ IdIsOffset <=>
    \A d \in Ndb : \A k \in Segment \ logged[d] : InPlace(buffer[d][k]) /\ InPlace(rows[d][k])
  BY DEF BufferIsOffset, IdIsOffset, InPlace

LEMMA IdInvPartsNext ==
  (BufferIsOffset /\ IdIsOffset <=>
    \A d \in Ndb : \A k \in Segment \ logged[d] : InPlace(buffer[d][k]) /\ InPlace(rows[d][k]))'
  BY IdInvParts, PTL

(* An event that comes to a buffer is in its place, or this is logged. *)
LEMMA KeptInPlace ==
  ASSUME IdInv, NEW d \in Ndb, NEW k \in Segment, NEW i \in Offset,
         HistoryKept(d, k, i), UNCHANGED rows
  PROVE  BufferIsOffset' /\ IdIsOffset'
<1>1. /\ buffer \in [Ndb -> [Segment -> Seq(Offset)]] /\ logged \in [Ndb -> SUBSET Segment]
      /\ buffer[d][k] \in Seq(Offset)
  BY DEF IdInv, Types, BufferTypes
<1>2. \A e \in Ndb, l \in Segment :
        buffer'[e][l] = IF e = d /\ l = k THEN Append(buffer[d][k], i) ELSE buffer[e][l]
  BY <1>1 DEF HistoryKept
<1>3. /\ \A e \in Ndb : logged[e] \subseteq logged'[e]
      /\ k \notin logged'[d] => Len(buffer'[d][k]) = i
  BY <1>1 DEF HistoryKept, NotEqual
<1>4. ASSUME NEW e \in Ndb, NEW l \in Segment \ logged'[e]
      PROVE  InPlace(buffer'[e][l]) /\ InPlace(rows'[e][l])
  <2>1. InPlace(buffer[e][l]) /\ InPlace(rows[e][l])
    BY <1>3, IdInvParts DEF IdInv
  <2>2. CASE e = d /\ l = k
    <3>1. Len(Append(buffer[d][k], i)) = i /\ Len(buffer[d][k]) \in Nat
      <4>1. Len(buffer'[d][k]) = i
        BY <1>3, <2>2
      <4>2. buffer'[d][k] = Append(buffer[d][k], i)
        BY <1>2
      <4>. QED BY <1>1, <4>1, <4>2
    <3>2. i = Len(buffer[d][k]) + 1
      BY <1>1, <3>1
    <3>3. ASSUME NEW j \in DOMAIN Append(buffer[d][k], i)
          PROVE  Append(buffer[d][k], i)[j] = j
      BY <1>1, <2>1, <2>2, <3>2 DEF InPlace
    <3>4. InPlace(Append(buffer[d][k], i))
      BY <3>3 DEF InPlace
    <3>. QED BY <1>2, <2>1, <2>2, <3>4
  <2>3. CASE ~(e = d /\ l = k)
    <3>1. buffer'[e][l] = buffer[e][l]
      BY <1>2, <2>3
    <3>. QED BY <2>1, <3>1
  <2>. QED BY <2>2, <2>3
<1>. QED BY <1>4, IdInvPartsNext

(* The rows are a prefix of the buffer. *)
LEMMA SavedInPlace ==
  ASSUME IdInv, NEW d \in Ndb, SaveCommitted(d)
  PROVE  BufferIsOffset' /\ IdIsOffset'
<1> DEFINE k == saving[d].segment
           n == saving[d].position
<1>1. k \in Segment /\ n \in Nat /\ n <= Len(buffer[d][k]) /\ buffer[d][k] \in Seq(Offset)
  BY DEF SaveCommitted, NoSave, Save, IdInv, Types, SavingTypes, BufferTypes
<1>2. /\ \A e \in Ndb, l \in Segment :
           /\ buffer'[e][l] = IF e = d /\ l = k THEN <<>> ELSE buffer[e][l]
           /\ rows'[e][l] = IF e = d /\ l = k THEN SubSeq(buffer[d][k], 1, n) ELSE rows[e][l]
      /\ logged' = logged
  BY DEF SaveCommitted, IdInv, Types, BufferTypes
<1> HIDE DEF k, n
<1>3. ASSUME NEW e \in Ndb, NEW l \in Segment \ logged'[e]
      PROVE  InPlace(buffer'[e][l]) /\ InPlace(rows'[e][l])
  <2>1. InPlace(buffer[e][l]) /\ InPlace(rows[e][l])
    BY <1>2, IdInvParts DEF IdInv
  <2>2. CASE e = d /\ l = k
    <3>1. buffer'[e][l] = <<>> /\ rows'[e][l] = SubSeq(buffer[d][k], 1, n)
      BY <1>2, <2>2
    <3>2. InPlace(<<>>)
      BY DEF InPlace
    <3>3. ASSUME NEW j \in DOMAIN SubSeq(buffer[d][k], 1, n)
          PROVE  SubSeq(buffer[d][k], 1, n)[j] = j
      <4>1. Len(buffer[d][k]) \in Nat
        BY <1>1
      <4>2. j \in 1 .. n /\ j \in DOMAIN buffer[d][k] /\ SubSeq(buffer[d][k], 1, n)[j] = buffer[d][k][j]
        BY <1>1, <4>1
      <4>. QED BY <2>1, <2>2, <4>2 DEF InPlace
    <3>4. InPlace(SubSeq(buffer[d][k], 1, n))
      BY <3>3 DEF InPlace
    <3>. QED BY <3>1, <3>2, <3>4
  <2>3. CASE ~(e = d /\ l = k)
    <3>1. buffer'[e][l] = buffer[e][l] /\ rows'[e][l] = rows[e][l]
      BY <1>2, <2>3
    <3>. QED BY <2>1, <3>1
  <2>. QED BY <2>2, <2>3
<1>. QED BY <1>3, IdInvPartsNext

(* A restart forgets the buffers, and not what was logged or stored.       *)
LEMMA ForgottenInPlace ==
  ASSUME IdInv, NEW d \in Ndb, NdbRestart(d)
  PROVE  BufferIsOffset' /\ IdIsOffset'
<1>1. /\ \A e \in Ndb, l \in Segment :
           buffer'[e][l] = IF e = d THEN <<>> ELSE buffer[e][l]
      /\ rows' = rows /\ logged' = logged
  BY DEF NdbRestart, IdInv, Types, BufferTypes
<1>2. InPlace(<<>>)
  BY DEF InPlace
<1>. QED BY <1>1, <1>2, IdInvParts, IdInvPartsNext DEF IdInv

LEMMA IdStep == IdInv /\ [Next]_vars => IdInv'
<1> SUFFICES ASSUME IdInv, [Next]_vars PROVE IdInv'
  OBVIOUS
<1>1. Types'
  BY TypesStep DEF IdInv
<1>2. ASSUME UNCHANGED <<buffer, rows, logged>>
      PROVE  BufferIsOffset' /\ IdIsOffset'
  BY <1>2 DEF IdInv, BufferIsOffset, IdIsOffset
<1>3. ASSUME NEW d \in Ndb, NdbReceives(d)
      PROVE  BufferIsOffset' /\ IdIsOffset'
  <2> DEFINE msg == Head(toNdb[d])
  <2>1. msg \in Message
    BY <1>3, ReceivedMessage DEF NdbReceives, IdInv, Types
  <2>2. msg.segment \in Segment /\ (msg.type = "KEEP" => msg.offset \in Offset) /\ UNCHANGED rows
    BY <1>3, <2>1 DEF Message, NdbReceives
  <2> HIDE DEF msg
  <2>3. CASE msg.type = "KEEP" /\ HistoryKept(d, msg.segment, msg.offset)
    BY <2>2, <2>3, KeptInPlace
  <2>4. CASE SegmentBegun(d, msg.segment) \/ DraftRequested(d, msg.segment)
    BY <1>2, <2>2, <2>4 DEF SegmentBegun, DraftRequested
  <2>. QED BY <1>3, <2>3, <2>4 DEF NdbReceives, msg
<1>4. ASSUME NEW d \in Ndb, SaveCommitted(d) PROVE BufferIsOffset' /\ IdIsOffset'
  BY <1>4, SavedInPlace
<1>5. ASSUME NEW d \in Ndb, NdbRestart(d) PROVE BufferIsOffset' /\ IdIsOffset'
  BY <1>5, ForgottenInPlace
<1>6. \/ UNCHANGED <<buffer, rows, logged>>
      \/ \E d \in Ndb : NdbReceives(d) \/ SaveCommitted(d) \/ NdbRestart(d)
  BY DEF Next, vars, storeVars, Push, TrimArrived, SegmentResolved, SyncConnected, InitEntryAccepted,
         OpenPipe, SaveRow, GenerateDraft, LinkLost, SaveFailed, EntryRestart
<1>. QED BY <1>1, <1>2, <1>3, <1>4, <1>5, <1>6 DEF IdInv

(* A storage node stores every event of a segment under the id that the    *)
(* entry node gave it, or it has logged an error for that segment          *)
(* (event_keep_advance_history, dbSaveSegment).                            *)
THEOREM IdIsOffsetCorrect == Spec => []IdIsOffset
<1>1. Init => IdInv
  <2>1. Init => BufferIsOffset /\ IdIsOffset
    BY DEF Init, BufferIsOffset, IdIsOffset
  <2>. QED BY <2>1, TypesInit DEF IdInv
<1>2. IdInv => IdIsOffset
  BY DEF IdInv
<1>. QED BY <1>1, <1>2, IdStep, PTL DEF Spec

-----------------------------------------------------------------------------
(* A sync node has seen what it drafted for.                               *)
DraftSeen == \A k \in Segment : \A n \in drafted[k] : lastSeen[n] >= k

(* Those who elected the last segment before the entry node started tell   *)
(* it at least that segment.                                               *)
Tells(n) == /\ lastSeen[n] >= electedBefore
            /\ hello[n].at # "none" => hello[n].seen >= electedBefore
ElectorsTell ==
  electedBefore > 0 =>
    \E Q \in SUBSET Sync : Cardinality(Q) >= SyncQuorum /\ \A n \in Q : Tells(n)

FreshInv == Types /\ DraftSeen /\ ElectorsTell /\ FreshAfterInit

(* A sync node that sees more, or connects, tells no less.                 *)
LEMMA TellsKept ==
  ASSUME FreshInv, electedBefore' = electedBefore,
         \A n \in Sync : Tells(n) => Tells(n)'
  PROVE  ElectorsTell'
  BY DEF FreshInv, ElectorsTell

(* The handshake is complete with one who elected.                         *)
LEMMA InitIsFresh ==
  ASSUME FreshInv, NEW n \in Sync, InitEntryAccepted(n)
  PROVE  FreshAfterInit'
<1>1. /\ electedBefore \in 0 .. MaxSegment /\ recentSegment \in 0 .. MaxSegment
      /\ \A m \in Sync : hello[m].seen \in Nat
      /\ electedBefore' = electedBefore
  BY Bounds DEF FreshInv, Types, FaultTypes, EntryTypes, HelloTypes, InitEntryAccepted
<1>2. CASE ~InitCompleted(n)
  BY <1>2 DEF InitEntryAccepted, FreshInv, FreshAfterInit
<1>3. CASE InitCompleted(n) /\ electedBefore = 0
  <2>1. recentSegment' \in Nat
    BY <1>1, <1>3, ReceivedMax, Bounds DEF InitEntryAccepted, FreshInv, Types
  <2>. QED BY <1>1, <1>3, <2>1 DEF FreshAfterInit
<1>4. CASE InitCompleted(n) /\ electedBefore > 0
  <2>1. PICK Q \in SUBSET Sync : Cardinality(Q) >= SyncQuorum /\ \A m \in Q : Tells(m)
    BY <1>4 DEF FreshInv, ElectorsTell
  <2>2. Received(n) \in SUBSET Sync /\ Cardinality(Received(n)) >= ConfigQuorum
    BY <1>4 DEF Received, InitCompleted
  <2>3. PICK m \in Sync : m \in Q /\ m \in Received(n)
    BY <2>1, <2>2, QuorumsMeet
  <2>4. hello[m].at # "none"
    BY <2>3 DEF Received, InitEntryAccepted
  <2>5. hello[m].seen >= electedBefore
    BY <2>1, <2>3, <2>4 DEF Tells
  <2>6. hello[m].seen <= MaxReceived(n) /\ MaxReceived(n) \in recentSegment .. MaxSegment
    BY <2>3, ReceivedMax DEF FreshInv, Types
  <2>7. MaxReceived(n) >= electedBefore
    BY <1>1, <2>5, <2>6
  <2>8. recentSegment' = MaxReceived(n)
    BY <1>4 DEF InitEntryAccepted
  <2>. QED BY <1>1, <2>7, <2>8 DEF FreshAfterInit
<1>5. electedBefore = 0 \/ electedBefore > 0
  BY <1>1
<1>. QED BY <1>2, <1>3, <1>4, <1>5

(* A connection of a sync node, or the handshake, takes nothing away.      *)
LEMMA HelloTells ==
  ASSUME FreshInv, NEW n \in Sync, SyncConnected(n) \/ InitEntryAccepted(n)
  PROVE  DraftSeen' /\ ElectorsTell'
<1>1. UNCHANGED <<lastSeen, drafted, electedBefore>> /\ hello \in [Sync -> [at : {"none", "sent", "received"}, seen : 0 .. MaxSegment]]
  BY DEF SyncConnected, InitEntryAccepted, syncVars, FreshInv, Types, HelloTypes
<1>2. DraftSeen'
  BY <1>1 DEF FreshInv, DraftSeen
<1>3. CASE SyncConnected(n)
  <2>1. hello' = [hello EXCEPT ![n] = [at |-> "sent", seen |-> lastSeen[n]]]
    BY <1>3 DEF SyncConnected
  <2>2. ASSUME NEW m \in Sync, Tells(m) PROVE Tells(m)'
    BY <1>1, <2>1, <2>2 DEF Tells
  <2>. QED BY <1>1, <1>2, <2>2, TellsKept
<1>4. CASE InitEntryAccepted(n)
  <2>1. hello[n].at = "sent" /\ hello' = [hello EXCEPT ![n].at = "received"]
    BY <1>4 DEF InitEntryAccepted
  <2>2. \A m \in Sync : hello'[m].seen = hello[m].seen /\ (hello'[m].at # "none" => hello[m].at # "none")
    BY <1>1, <2>1
  <2>3. ASSUME NEW m \in Sync, Tells(m) PROVE Tells(m)'
    BY <1>1, <2>2, <2>3 DEF Tells
  <2>. QED BY <1>1, <1>2, <2>3, TellsKept
<1>. QED BY <1>3, <1>4

(* Who drafts sees more. *)
LEMMA DraftTells ==
  ASSUME FreshInv, NEW n \in Sync, NEW d \in Ndb, GenerateDraft(n, d)
  PROVE  DraftSeen' /\ ElectorsTell' /\ FreshAfterInit'
<1>1. PICK i \in DOMAIN relayed[d] :
        /\ lastSeen' = [lastSeen EXCEPT ![n] = relayed[d][i]]
        /\ drafted' = [drafted EXCEPT ![relayed[d][i]] = drafted[relayed[d][i]] \cup {n}]
  BY DEF GenerateDraft
<1>2. PICK k : k = relayed[d][i]
  OBVIOUS
<1>3. k \in Segment /\ k \in Nat
  BY <1>1, <1>2, Bounds DEF FreshInv, Types, BufferTypes, Segment
<1>4. /\ lastSeen'[n] >= lastSeen[n] /\ \A m \in Sync : m # n => lastSeen'[m] = lastSeen[m]
      /\ \A m \in Sync : lastSeen[m] \in Nat /\ lastSeen'[m] \in Nat
  BY DraftTypes, Bounds DEF FreshInv, Types, SyncTypes
<1>5. UNCHANGED <<hello, electedBefore, initDone, recentSegment>>
  BY DEF GenerateDraft, entryVars
<1>6. \A m \in Sync : lastSeen'[m] >= lastSeen[m]
  BY <1>4
<1>7. lastSeen'[n] = k
  BY <1>1, <1>2 DEF FreshInv, Types, SyncTypes
<1>8. ASSUME NEW l \in Segment, NEW m \in drafted'[l]
      PROVE  lastSeen'[m] >= l
  <2>1. m \in drafted[l] \/ (m = n /\ l = k)
    BY <1>1, <1>2, <1>3, <1>8 DEF FreshInv, Types, SyncTypes
  <2>2. l \in Nat /\ (m \in drafted[l] => m \in Sync /\ lastSeen[m] >= l)
    BY Bounds DEF Segment, FreshInv, DraftSeen, Types, SyncTypes
  <2>. QED BY <1>3, <1>4, <1>6, <1>7, <2>1, <2>2
<1>9. ASSUME NEW m \in Sync, Tells(m) PROVE Tells(m)'
  <2>1. electedBefore \in Nat
    BY Bounds DEF FreshInv, Types, FaultTypes
  <2>. QED BY <1>4, <1>5, <1>6, <1>9, <2>1 DEF Tells
<1>10. ElectorsTell'
  BY <1>5, <1>9, TellsKept
<1>11. FreshAfterInit'
  BY <1>5 DEF FreshInv, FreshAfterInit
<1>. QED BY <1>8, <1>10, <1>11 DEF DraftSeen

(* When the entry node starts again, those who elected the last segment    *)
(* have seen it, and none of them has told it anything.                    *)
LEMMA RestartTells ==
  ASSUME FreshInv, EntryRestart
  PROVE  DraftSeen' /\ ElectorsTell' /\ FreshAfterInit'
<1>1. UNCHANGED <<lastSeen, drafted>> /\ initDone' = FALSE
  BY DEF EntryRestart, syncVars
<1>2. ASSUME electedBefore' > 0
      PROVE  \E Q \in SUBSET Sync : Cardinality(Q) >= SyncQuorum /\ \A n \in Q : Tells(n)'
  <2>1. electedBefore' \in Elected
    BY <1>2, LastElected DEF EntryRestart
  <2>2. PICK k : k = electedBefore'
    OBVIOUS
  <2>3. k \in Segment /\ Cardinality(drafted[k]) >= SyncQuorum /\ drafted[k] \in SUBSET Sync
    BY <2>1, <2>2 DEF Elected, FreshInv, Types, SyncTypes
  <2>4. \A n \in drafted[k] : lastSeen[n] >= k /\ hello'[n].at = "none"
    BY <2>3 DEF FreshInv, DraftSeen, EntryRestart
  <2>5. \A n \in drafted[k] : Tells(n)'
    BY <1>1, <2>2, <2>4 DEF Tells
  <2>. QED BY <2>3, <2>5
<1>3. DraftSeen'
  BY <1>1 DEF FreshInv, DraftSeen
<1>. QED BY <1>1, <1>2, <1>3 DEF ElectorsTell, FreshAfterInit

(* The entry node only goes on to later segments.                          *)
LEMMA PushFresh ==
  ASSUME FreshInv, Push
  PROVE  FreshAfterInit'
<1>1. initDone' = initDone /\ electedBefore' = electedBefore
  BY DEF Push, PushOpens, PushJoins
<1>2. recentSegment' \in Nat /\ recentSegment' >= recentSegment
  <2>1. recentSegment \in 0 .. MaxSegment /\ recentSegment \in Nat
    BY Bounds DEF FreshInv, Types, EntryTypes
  <2>2. CASE PushOpens
    <3>1. PICK now \in Segment : recentSegment' = Max({recentSegment + 1, now}) /\ recentSegment' \in Segment
      BY <2>2 DEF PushOpens, NewSegment
    <3>2. now \in Nat /\ recentSegment + 1 \in Nat
      BY <2>1, Bounds DEF Segment
    <3>3. {recentSegment + 1, now} \in SUBSET Nat /\ {recentSegment + 1, now} # {}
          /\ \A x \in {recentSegment + 1, now} : x <= recentSegment + 1 + now
      BY <2>1, <3>2
    <3>4. recentSegment + 1 + now \in Nat
      BY <2>1, <3>2
    <3>5. /\ \A x \in {recentSegment + 1, now} : x <= Max({recentSegment + 1, now})
          /\ Max({recentSegment + 1, now}) \in {recentSegment + 1, now}
      BY <3>3, <3>4, MaxIsGreatest
    <3>6. recentSegment + 1 <= recentSegment' /\ recentSegment' \in Nat
      BY <3>1, <3>2, <3>5
    <3>. QED BY <2>1, <3>6
  <2>3. CASE PushJoins
    BY <2>1, <2>3 DEF PushJoins
  <2>. QED BY <2>2, <2>3 DEF Push
<1>3. recentSegment \in Nat /\ electedBefore \in Nat
  BY Bounds DEF FreshInv, Types, EntryTypes, FaultTypes
<1>. QED BY <1>1, <1>2, <1>3 DEF FreshInv, FreshAfterInit

LEMMA FreshStep == FreshInv /\ [Next]_vars => FreshInv'
<1> SUFFICES ASSUME FreshInv, [Next]_vars PROVE FreshInv'
  OBVIOUS
<1>1. Types'
  BY TypesStep DEF FreshInv
<1>2. ASSUME UNCHANGED <<hello, syncVars, electedBefore>>
      PROVE  DraftSeen' /\ ElectorsTell'
  BY <1>2 DEF FreshInv, DraftSeen, ElectorsTell, Tells, syncVars
<1>3. ASSUME UNCHANGED <<recentSegment, initDone, electedBefore>>
      PROVE  FreshAfterInit'
  BY <1>3 DEF FreshInv, FreshAfterInit
<1>4. ASSUME Push
      PROVE  DraftSeen' /\ ElectorsTell' /\ FreshAfterInit'
  BY <1>2, <1>4, PushFresh DEF Push
<1>5. ASSUME NEW d \in Ndb, NEW k \in Segment, TrimArrived(d, k)
      PROVE  DraftSeen' /\ ElectorsTell' /\ FreshAfterInit'
  BY <1>2, <1>3, <1>5 DEF TrimArrived, SegmentOver, entryVars
<1>6. ASSUME NEW n \in Sync, SyncConnected(n)
      PROVE  DraftSeen' /\ ElectorsTell' /\ FreshAfterInit'
  BY <1>3, <1>6, HelloTells DEF SyncConnected, entryVars
<1>7. ASSUME NEW n \in Sync, InitEntryAccepted(n)
      PROVE  DraftSeen' /\ ElectorsTell' /\ FreshAfterInit'
  BY <1>7, HelloTells, InitIsFresh
<1>8. ASSUME NEW n \in Sync, NEW d \in Ndb, GenerateDraft(n, d)
      PROVE  DraftSeen' /\ ElectorsTell' /\ FreshAfterInit'
  BY <1>8, DraftTells
<1>9. ASSUME EntryRestart
      PROVE  DraftSeen' /\ ElectorsTell' /\ FreshAfterInit'
  BY <1>9, RestartTells
<1>10. ASSUME UNCHANGED <<entryVars, hello, syncVars, electedBefore>>
       PROVE  DraftSeen' /\ ElectorsTell' /\ FreshAfterInit'
  BY <1>2, <1>3, <1>10 DEF entryVars
<1>11. \/ Push \/ EntryRestart
       \/ \E d \in Ndb, k \in Segment : TrimArrived(d, k)
       \/ \E n \in Sync : SyncConnected(n) \/ InitEntryAccepted(n)
       \/ \E n \in Sync, d \in Ndb : GenerateDraft(n, d)
       \/ UNCHANGED <<entryVars, hello, syncVars, electedBefore>>
  BY DEF Next, vars, SegmentResolved, OpenPipe, NdbReceives, SaveRow, SaveCommitted, LinkLost,
         SaveFailed, NdbRestart
<1>. QED BY <1>1, <1>4, <1>5, <1>6, <1>7, <1>8, <1>9, <1>10, <1>11 DEF FreshInv

(* An entry node that has finished its initialisation is past every        *)
(* segment that was elected before it started: a quorum that answers       *)
(* meets every quorum that elects (computeMaxId, getSegment).              *)
THEOREM FreshAfterInitCorrect == Spec => []FreshAfterInit
<1>1. Init => FreshInv
  <2> SUFFICES ASSUME Init PROVE FreshInv
    OBVIOUS
  <2>1. DraftSeen /\ ElectorsTell /\ FreshAfterInit
    BY DEF Init, DraftSeen, ElectorsTell, FreshAfterInit
  <2>. QED BY <2>1, TypesInit DEF FreshInv
<1>2. FreshInv => FreshAfterInit
  BY DEF FreshInv
<1>. QED BY <1>1, <1>2, FreshStep, PTL DEF Spec

=============================================================================
