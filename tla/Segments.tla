------------------------------ MODULE Segments ------------------------------
(***************************************************************************)
(* The way of an event through the distributed mode: the entry node        *)
(* (NetEngineMill, lib/masterfree/netengine.ts) puts it into its current   *)
(* segment and publishes it to the storage nodes (StorageTask,             *)
(* lib/masterfree/storage.ts); a storage node asks to trim the segment as  *)
(* soon as it hears of it, relays its end to the sync nodes and stores its *)
(* events when the segment is resolved.  A sync node tells the entry node, *)
(* when it connects, the last segment it has drafted for.                  *)
(*                                                                         *)
(* Links to the entry node are TCP connections that are opened again after *)
(* a loss; what is published meanwhile is lost.  The clock of the entry    *)
(* node may stand anywhere, also after a restart.  How the sync nodes      *)
(* choose the id of a segment is the matter of Synchronizer: here it is    *)
(* the segment itself, and a segment is resolved once on each storage node *)
(* at any time after a quorum has drafted.                                 *)
(*                                                                         *)
(* One entry node (buffers and drafts are kept by entry node), one realm   *)
(* whose table is there.  ADVANCE_SEGMENT_RESOLVED does not reach the      *)
(* entry node and nothing publishes dispatchEvent, so their handlers never *)
(* run.                                                                    *)
(***************************************************************************)
EXTENDS Naturals, Sequences, FiniteSets, FiniteSetsExt

CONSTANTS
  Ndb, Sync,
  SyncQuorum,    \* of the sync nodes, to elect
  ConfigQuorum,  \* of the entry node (QUORUM), to end its initialisation
  MaxSegment,    \* bound: the highest segment number
  MaxOffset,     \* bound: events of a segment
  MaxFault       \* bound: lost links, restarts, failed saves

ASSUME NodeAssumption == IsFiniteSet(Ndb) /\ IsFiniteSet(Sync)
ASSUME QuorumAssumption ==
  /\ {SyncQuorum, ConfigQuorum} \subseteq 1 .. Cardinality(Sync)
  /\ SyncQuorum + ConfigQuorum > Cardinality(Sync)
ASSUME SegmentBoundAssumption ==
  {MaxSegment, MaxFault} \subseteq Nat /\ MaxOffset \in Nat \ {0}

VARIABLES
  curSegment,     \* 0: null
  offset,         \* offsetGenerator of the current segment
  recentSegment,  \* recentAdvanceSegment
  initDone,       \* initReceivedDone
  hello,          \* INIT_ENTRY_ACCEPTED of a sync node: its value, and where it is
  piped,          \* how many of the four pipes of listenEntry a storage node has opened
  exporting,      \* the storage nodes whose pipe of TRIM is open
  toNdb,          \* what the entry node published to a storage node
  trims,          \* TRIM_ADVANCE_SEGMENT on their way to the entry node
  buffer,         \* bufferToWrite, by segment
  logged,         \* segments of which "serment position is not equal" was logged
  relayed,        \* GENERATE_DRAFT of a storage node
  saving,         \* the transaction of dbSaveSegment
  rows,           \* event_history: position in the segment, by the offset of the event
  lastSeen,       \* recentAdvanceSegment of a sync node
  drafted,        \* the sync nodes that drafted for a segment
  resolvedAt,     \* segments that were resolved on a storage node
  electedBefore,  \* history: the last segment elected when the entry node started
  faults          \* what has failed so far

entryVars == <<curSegment, offset, recentSegment, initDone>>
linkVars == <<piped, exporting, toNdb, trims>>
storeVars == <<buffer, logged, relayed, saving, rows, resolvedAt>>
syncVars == <<lastSeen, drafted>>
vars == <<entryVars, hello, linkVars, storeVars, syncVars, electedBefore, faults>>

Segment == 1 .. MaxSegment
Offset == 1 .. MaxOffset
Save(k) == [segment |-> k, position |-> 0, ended |-> FALSE]
NoSave == Save(0)

Begin(k) == [type |-> "BEGIN", segment |-> k, offset |-> 0]
Keep(k, i) == [type |-> "KEEP", segment |-> k, offset |-> i]
Over(k) == [type |-> "OVER", segment |-> k, offset |-> 0]

(* The order in which listenEntry opens its pipes; the fourth is that of   *)
(* TRIM, to the entry node.  It is a subscription of the storage node to   *)
(* its own realm, so unlike the others it outlives the connection.         *)
PipeOf(msg) == CASE msg.type = "BEGIN" -> 1 [] msg.type = "KEEP" -> 2 [] OTHER -> 3
TrimPipe == 4

Elected == {k \in Segment : Cardinality(drafted[k]) >= SyncQuorum}

Init ==
  /\ curSegment = 0 /\ offset = 0 /\ recentSegment = 0 /\ initDone = FALSE
  /\ hello = [n \in Sync |-> [at |-> "none", seen |-> 0]]
  /\ piped = [d \in Ndb |-> 0]
  /\ exporting = {}
  /\ toNdb = [d \in Ndb |-> <<>>]
  /\ trims = [d \in Ndb |-> {}]
  /\ buffer = [d \in Ndb |-> [k \in Segment |-> <<>>]]
  /\ logged = [d \in Ndb |-> {}]
  /\ relayed = [d \in Ndb |-> <<>>]
  /\ saving = [d \in Ndb |-> NoSave]
  /\ rows = [d \in Ndb |-> [k \in Segment |-> <<>>]]
  /\ lastSeen = [n \in Sync |-> 0]
  /\ drafted = [k \in Segment |-> {}]
  /\ resolvedAt = [d \in Ndb |-> {}]
  /\ electedBefore = 0
  /\ faults = <<>>

-----------------------------------------------------------------------------
(* The entry node *)

(* What is published comes into the queue q of a storage node that has     *)
(* opened the pipe of it.                                                  *)
Published(q, d, msg) == IF PipeOf(msg) <= piped[d] THEN Append(q, msg) ELSE q

(* getSegment, saveHistory; now is what Date.now() returns. *)
NewSegment(now) == Max({recentSegment + 1, now})

PushOpens ==
  /\ curSegment = 0
  /\ \E now \in Segment :
       LET k == NewSegment(now)
       IN /\ k \in Segment
          /\ curSegment' = k /\ recentSegment' = k /\ offset' = 1
          /\ toNdb' = [d \in Ndb |-> Published(Published(toNdb[d], d, Begin(k)), d, Keep(k, 1))]
  /\ UNCHANGED initDone

PushJoins ==
  /\ curSegment # 0 /\ offset < MaxOffset
  /\ offset' = offset + 1
  /\ toNdb' = [d \in Ndb |-> Published(toNdb[d], d, Keep(curSegment, offset + 1))]
  /\ UNCHANGED <<curSegment, recentSegment, initDone>>

Push ==
  /\ PushOpens \/ PushJoins
  /\ UNCHANGED <<hello, piped, exporting, trims, storeVars, syncVars, electedBefore, faults>>

(* event_trim_advance_segment: of another segment than the current one it  *)
(* is only logged.                                                         *)
TrimsOlder(k) == k < curSegment
Trims(k) == k = curSegment

SegmentOver(k) ==
  /\ Trims(k)
  /\ curSegment' = 0 /\ offset' = 0
  /\ toNdb' = [d \in Ndb |-> Published(toNdb[d], d, Over(k))]
  /\ UNCHANGED <<recentSegment, initDone>>
TrimArrived(d, k) ==
  /\ k \in trims[d]
  /\ trims' = [trims EXCEPT ![d] = @ \ {k}]
  /\ SegmentOver(k) \/ (~Trims(k) /\ UNCHANGED <<entryVars, toNdb>>)
  /\ UNCHANGED <<hello, piped, exporting, storeVars, syncVars, electedBefore, faults>>

(* listenEntry of a sync node: the value is read when it connects. *)
SyncConnected(n) ==
  /\ hello[n].at = "none"
  /\ hello' = [hello EXCEPT ![n] = [at |-> "sent", seen |-> lastSeen[n]]]
  /\ UNCHANGED <<entryVars, linkVars, storeVars, syncVars, electedBefore, faults>>

(* event_init_entry_accepted *)
Received(n) == {m \in Sync : hello[m].at = "received"} \cup {n}
LastReceived(n) == hello[n].seen
MaxOnlyReceived(n) == Max({hello[m].seen : m \in Received(n)})
MaxReceived(n) == Max({recentSegment} \cup {hello[m].seen : m \in Received(n)})
InitCompleted(n) == ~initDone /\ Cardinality(Received(n)) >= ConfigQuorum

InitEntryAccepted(n) ==
  /\ hello[n].at = "sent"
  /\ hello' = [hello EXCEPT ![n].at = "received"]
  /\ \/ /\ InitCompleted(n)
        /\ initDone' = TRUE
        /\ recentSegment' = MaxReceived(n)
     \/ /\ ~InitCompleted(n)
        /\ UNCHANGED <<initDone, recentSegment>>
  /\ UNCHANGED <<curSegment, offset, linkVars, storeVars, syncVars, electedBefore, faults>>

-----------------------------------------------------------------------------
(* A storage node *)

(* StorageTask.listenEntry *)
OpenPipe(d) ==
  /\ piped[d] < TrimPipe
  /\ piped' = [piped EXCEPT ![d] = @ + 1]
  /\ exporting' = IF piped'[d] = TrimPipe THEN exporting \cup {d} ELSE exporting
  /\ UNCHANGED <<entryVars, hello, toNdb, trims, storeVars, syncVars, electedBefore, faults>>

SegmentBegun(d, k) ==
  /\ trims' = [trims EXCEPT ![d] = IF d \in exporting THEN @ \cup {k} ELSE @]
  /\ UNCHANGED <<buffer, logged, relayed>>

(* event_keep_advance_history *)
TooMany(content, i) == Len(content) > i
NotEqual(content, i) == Len(content) # i
HistoryKept(d, k, i) ==
  /\ buffer' = [buffer EXCEPT ![d][k] = Append(@, i)]
  /\ logged' = [logged EXCEPT ![d] = IF NotEqual(buffer'[d][k], i) THEN @ \cup {k} ELSE @]
  /\ UNCHANGED <<trims, relayed>>

DraftRequested(d, k) ==
  /\ relayed' = [relayed EXCEPT ![d] = Append(@, k)]
  /\ UNCHANGED <<trims, buffer, logged>>

NdbReceives(d) ==
  /\ toNdb[d] # <<>>
  /\ toNdb' = [toNdb EXCEPT ![d] = Tail(@)]
  /\ LET msg == Head(toNdb[d])
     IN \/ msg.type = "BEGIN" /\ SegmentBegun(d, msg.segment)
        \/ msg.type = "KEEP" /\ HistoryKept(d, msg.segment, msg.offset)
        \/ msg.type = "OVER" /\ DraftRequested(d, msg.segment)
  /\ UNCHANGED <<entryVars, hello, piped, exporting, saving, rows, resolvedAt, syncVars, electedBefore, faults>>

(* commit_segment, dbSaveSegment: without a buffer there is nothing to     *)
(* save; BEGIN TRANSACTION fails while another segment is saved, as the    *)
(* connection is the same.  Neither is tried again.                        *)
Saveable(d, k) == buffer[d][k] # <<>> /\ saving[d] = NoSave

SegmentResolved(d, k) ==
  /\ k \in Elected \ resolvedAt[d]
  /\ resolvedAt' = [resolvedAt EXCEPT ![d] = @ \cup {k}]
  /\ saving' = [saving EXCEPT ![d] = IF Saveable(d, k) THEN Save(k) ELSE @]
  /\ UNCHANGED <<entryVars, hello, linkVars, buffer, logged, relayed, rows, syncVars,
                 electedBefore, faults>>

(* One turn of the loop, over what the buffer holds by now; then COMMIT.   *)
SaveRow(d) ==
  /\ saving[d] # NoSave /\ ~saving[d].ended
  /\ LET content == buffer[d][saving[d].segment]
     IN \/ /\ saving[d].position < Len(content)
           /\ saving' = [saving EXCEPT ![d].position = @ + 1]
        \/ /\ saving[d].position >= Len(content)
           /\ saving' = [saving EXCEPT ![d].ended = TRUE]
  /\ UNCHANGED <<entryVars, hello, linkVars, buffer, logged, relayed, rows, resolvedAt, syncVars,
                 electedBefore, faults>>

SaveCommitted(d) ==
  /\ saving[d].ended
  /\ LET k == saving[d].segment
     IN /\ rows' = [rows EXCEPT ![d][k] = SubSeq(buffer[d][k], 1, saving[d].position)]
        /\ buffer' = [buffer EXCEPT ![d][k] = <<>>]
  /\ saving' = [saving EXCEPT ![d] = NoSave]
  /\ UNCHANGED <<entryVars, hello, linkVars, logged, relayed, resolvedAt, syncVars,
                 electedBefore, faults>>

-----------------------------------------------------------------------------
(* A sync node: event_generate_draft.  Of the requests of a storage node,  *)
(* which come in their order, the next one that is above lastSeen counts.  *)
NextNewer(n, d, i) ==
  /\ relayed[d][i] > lastSeen[n]
  /\ \A j \in 1 .. i - 1 : relayed[d][j] <= lastSeen[n]
GenerateDraft(n, d) ==
  /\ \E i \in DOMAIN relayed[d] :
       /\ NextNewer(n, d, i)
       /\ lastSeen' = [lastSeen EXCEPT ![n] = relayed[d][i]]
       /\ drafted' = [drafted EXCEPT ![relayed[d][i]] = @ \cup {n}]
  /\ UNCHANGED <<entryVars, hello, linkVars, storeVars, electedBefore, faults>>

-----------------------------------------------------------------------------
(* Faults *)

Fault(kind) == Len(faults) < MaxFault /\ faults' = Append(faults, kind)

(* The connection of a storage node to the entry node is lost. *)
LinkLost(d) ==
  /\ Fault("link") /\ piped[d] # 0
  /\ piped' = [piped EXCEPT ![d] = 0]
  /\ toNdb' = [toNdb EXCEPT ![d] = <<>>]
  /\ trims' = [trims EXCEPT ![d] = {}]
  /\ UNCHANGED <<entryVars, hello, exporting, storeVars, syncVars, electedBefore>>

(* An INSERT or the COMMIT fails: ROLLBACK, and the buffer stays. *)
SaveFailed(d) ==
  /\ Fault("save") /\ saving[d] # NoSave
  /\ saving' = [saving EXCEPT ![d] = NoSave]
  /\ UNCHANGED <<entryVars, hello, linkVars, buffer, logged, relayed, rows, resolvedAt, syncVars,
                 electedBefore>>

(* A storage node restarts with what is in its database. *)
NdbRestart(d) ==
  /\ Fault("storage")
  /\ piped' = [piped EXCEPT ![d] = 0]
  /\ exporting' = exporting \ {d}
  /\ toNdb' = [toNdb EXCEPT ![d] = <<>>]
  /\ trims' = [trims EXCEPT ![d] = {}]
  /\ buffer' = [buffer EXCEPT ![d] = [k \in Segment |-> <<>>]]
  /\ relayed' = [relayed EXCEPT ![d] = <<>>]
  /\ saving' = [saving EXCEPT ![d] = NoSave]
  /\ UNCHANGED <<entryVars, hello, logged, rows, resolvedAt, syncVars, electedBefore>>

(* The entry node restarts; all connect to it again. *)
EntryRestart ==
  /\ Fault("entry")
  /\ curSegment' = 0 /\ offset' = 0 /\ recentSegment' = 0 /\ initDone' = FALSE
  /\ hello' = [n \in Sync |-> [at |-> "none", seen |-> 0]]
  /\ piped' = [d \in Ndb |-> 0]
  /\ toNdb' = [d \in Ndb |-> <<>>]
  /\ trims' = [d \in Ndb |-> {}]
  /\ electedBefore' = Max({0} \cup Elected)
  /\ UNCHANGED <<exporting, storeVars, syncVars>>

Next ==
  \/ Push
  \/ \E d \in Ndb, k \in Segment : TrimArrived(d, k) \/ SegmentResolved(d, k)
  \/ \E n \in Sync : SyncConnected(n) \/ InitEntryAccepted(n)
  \/ \E d \in Ndb : OpenPipe(d) \/ NdbReceives(d) \/ SaveRow(d) \/ SaveCommitted(d)
  \/ \E n \in Sync, d \in Ndb : GenerateDraft(n, d)
  \/ \E d \in Ndb : LinkLost(d) \/ SaveFailed(d) \/ NdbRestart(d)
  \/ EntryRestart

Spec == Init /\ [][Next]_vars

(* A message on a connection arrives, unless the connection is lost. *)
FairSpec ==
  /\ Spec
  /\ \A d \in Ndb : WF_vars(NdbReceives(d)) /\ WF_vars(\E k \in Segment : TrimArrived(d, k))

-----------------------------------------------------------------------------
(* Every variable has its type; the current segment is not above the       *)
(* recent one, whatever the handshake made of that.                        *)
TypeOK ==
  /\ recentSegment \in 0 .. MaxSegment /\ curSegment \in 0 .. recentSegment
  /\ offset \in 0 .. MaxOffset /\ (offset = 0 <=> curSegment = 0)
  /\ initDone \in BOOLEAN
  /\ hello \in [Sync -> [at : {"none", "sent", "received"}, seen : 0 .. MaxSegment]]
  /\ piped \in [Ndb -> 0 .. TrimPipe] /\ exporting \subseteq Ndb
  /\ \A d \in Ndb :
       /\ trims[d] \subseteq Segment
       /\ \A k \in Segment : buffer[d][k] \in Seq(Offset) /\ rows[d][k] \in Seq(Offset)
       /\ logged[d] \subseteq Segment
       /\ relayed[d] \in Seq(Segment)
       /\ saving[d] # NoSave => saving[d].position <= Len(buffer[d][saving[d].segment])
       /\ resolvedAt[d] \subseteq Elected
  /\ lastSeen \in [Sync -> 0 .. MaxSegment]
  /\ drafted \in [Segment -> SUBSET Sync]
  /\ Len(faults) <= MaxFault

(* The ids under which a storage node stores the events of a segment are   *)
(* those that the entry node gave (segment and offset), whatever else the  *)
(* node missed, unless it logged an error for that segment: so two storage *)
(* nodes store an event under the same id, or one of them has logged it.   *)
IdIsOffset ==
  \A d \in Ndb : \A k \in Segment \ logged[d] : \A i \in DOMAIN rows[d][k] : rows[d][k][i] = i

(* After its initialisation an entry node is past every segment that was   *)
(* elected before it started, though its clock stands behind and each sync *)
(* node saw only some of the segments: a quorum that answers meets every   *)
(* quorum that elected.                                                    *)
FreshAfterInit == initDone => recentSegment >= electedBefore

(* A segment ends once a storage node that exports TRIM hears of it and    *)
(* keeps its connection.                                                   *)
Hears(d, k) ==
  d \in exporting /\ \E i \in DOMAIN toNdb[d] : toNdb[d][i] = Begin(k)
SegmentEnds ==
  \A d \in Ndb, k \in Segment : Hears(d, k) ~> (curSegment # k \/ piped[d] = 0)
=============================================================================
