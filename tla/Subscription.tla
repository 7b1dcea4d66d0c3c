---------------------------- MODULE Subscription ----------------------------
(***************************************************************************)
(* Subscriptions of a realm (BaseRealm.cmdTrace, BaseEngine.doTrace of     *)
(* lib/realm.ts): replay of the history after an event, replay of retained *)
(* values, snapshots, and the events that are pushed meanwhile; over the   *)
(* engine that keeps its history in memory (lib/mono/memengine.ts) or over *)
(* SQLite (lib/sqlite/dbengine.ts, history.ts).                            *)
(*                                                                         *)
(* Left out: the data of events and the option filter; exclude_me; who may *)
(* write a key and the deletion of values (SqliteKv, MemRealm): here a     *)
(* push says whether its value is stored.  The rows of one SELECT arrive   *)
(* in one step.                                                            *)
(***************************************************************************)
EXTENDS TopicPattern

CONSTANTS
  Trace,         \* subscriptions
  Session,
  Topic,         \* topics of events
  PushRequest,   \* what clients push
  TraceRequest,  \* options of subscriptions, except after
  FirstId,       \* ids that the realm may have reached before
  MaxPush,       \* bound: pushes
  MaxRestart     \* bound: restarts

ASSUME RequestAssumption ==
  /\ PushRequest \subseteq [uri : Topic, trace : BOOLEAN,
                            retain : {"no", "set", "refused"}]
  /\ \A r \in TraceRequest : {r.retained, r.retainedState, r.snapshot} \subseteq BOOLEAN
ASSUME TopicAssumption == Topic \subseteq Seq(STRING)
ASSUME BoundAssumption ==
  /\ MaxPush \in Nat /\ MaxRestart \in Nat
  /\ FirstId \subseteq Nat /\ \A i \in FirstId : i + 2 * MaxPush < 100

VARIABLES
  engine,     \* "mem" or "db"
  lastId,     \* the id that was given last
  history,    \* events with the option trace that were stored
  kv,         \* id of the event that wrote the retained value; 0: no value
  push,       \* the pushes, in their order
  committed,  \* currentRetainedEventId, 0: null
  trace,      \* the subscriptions
  left,       \* sessions that are over
  restarts

vars == <<engine, lastId, history, kv, push, committed, trace, left, restarts>>

Event == [id : Nat, kind : {"live", "delta", "history", "retained"}]
NoTrace == [uri |-> <<>>, sid |-> "none", after |-> 0, retained |-> FALSE, retainedState |-> FALSE,
            snapshot |-> FALSE, active |-> FALSE, started |-> FALSE, delayed |-> <<>>,
            got |-> <<>>, history |-> "none", replay |-> "none", ends |-> 0]

Init ==
  /\ engine \in {"mem", "db"}
  /\ lastId \in IF engine = "mem" THEN FirstId ELSE {0}
  /\ history = <<>>
  /\ kv = [u \in Topic |-> 0]
  /\ push = <<>>
  /\ committed = 0
  /\ trace = [t \in Trace |-> NoTrace]
  /\ left = {}
  /\ restarts = 0

-----------------------------------------------------------------------------
(* ActorTrace *)

(* filter *)
Wants(r, kind) ==
  /\ ~(r.snapshot /\ r.started)
  /\ kind \in {"live", "history"} => r.snapshot \/ ~r.retained
  /\ kind = "delta" => r.retained

SendEvent(r, events) == [r EXCEPT !.got = @ \o events]
OfKind(kind, ids) == [i \in DOMAIN ids |-> [id |-> ids[i], kind |-> kind]]
FilterSendAny(r, kind, ids) == IF Wants(r, kind) THEN SendEvent(r, OfKind(kind, ids)) ELSE r
FilterSendEvent(r, kind, ids) ==
  IF r.active /\ Wants(r, kind) THEN SendEvent(r, OfKind(kind, ids)) ELSE r
DelayAny(r, e) == [r EXCEPT !.delayed = Append(@, e)]
DelayNothing(r, e) == r
DelayEvent(r, e) == IF r.snapshot THEN r ELSE [r EXCEPT !.delayed = Append(@, e)]

(* flushDelayStack, with traceStarted set before it *)
FlushDelayStack(r) ==
  [r EXCEPT !.started = TRUE, !.delayed = <<>>,
            !.got = IF r.active THEN @ \o r.delayed ELSE @]

(* disperseToSubs *)
DisperseToSubs(traces, uri, e) ==
  [t \in Trace |->
     LET r == traces[t]
     IN IF ~(r.active /\ Match(uri, r.uri) /\ Wants(r, e.kind)) THEN r
        ELSE IF r.started THEN SendEvent(r, <<e>>)
        ELSE DelayEvent(r, e)]

-----------------------------------------------------------------------------
(* The history *)

(* MemEngine compares the texts of its numbers: here of up to two digits.  *)
TextLess(a, b) ==
  LET digits(n) == IF n < 10 THEN <<n>> ELSE <<n \div 10, n % 10>>
      x == digits(a)
      y == digits(b)
  IN \/ x[1] < y[1]
     \/ x[1] = y[1] /\ Len(x) < Len(y)
     \/ x[1] = y[1] /\ Len(x) = 2 /\ Len(y) = 2 /\ x[2] < y[2]

After(id, after) == IF engine = "mem" THEN TextLess(after, id) ELSE after < id

(* MemEngine.getHistoryAfter matches patterns; getEventHistory compares    *)
(* the whole topic.                                                        *)
HistoryFits(uri, pattern) == IF engine = "mem" THEN Match(uri, pattern) ELSE uri = pattern

HistoryAfter(r) ==
  LET found == Sorted({i \in DOMAIN history :
                        After(history[i].id, r.after) /\ HistoryFits(history[i].uri, r.uri)})
  IN [i \in DOMAIN found |-> history[found[i]].id]

(* keepMemHistory, saveEventHistory *)
SaveHistory(request, id) ==
  history' = IF request.trace THEN Append(history, [id |-> id, uri |-> request.uri]) ELSE history

-----------------------------------------------------------------------------
(* The retained values *)

(* getKey: the rows come in any order, here in that of their ids. *)
RetainedRows(uri, values) ==
  Sorted({values[u] : u \in {u \in Topic : values[u] # 0 /\ Match(u, uri)}})

StoreValue(p) ==
  kv' = IF p.retain = "set" THEN [kv EXCEPT ![p.uri] = p.id] ELSE kv

-----------------------------------------------------------------------------
(* Pushes *)

NoId == 0
Pushed(p, id, pc) ==
  [uri |-> p.uri, trace |-> p.trace, retain |-> p.retain, id |-> id, pc |-> pc]
MayPush == Len(push) < MaxPush
PushAt(i, pc) == [push EXCEPT ![i].pc = pc]

(* MemEngine: history, subscribers and the value are done at once; what    *)
(* the change of a value is reported with takes an id of its own, and is   *)
(* not dispersed.                                                          *)
PushMem(request) ==
  /\ engine = "mem" /\ MayPush
  /\ LET id == lastId + 1
         p == Pushed(request, id, IF request.retain = "no" THEN "done" ELSE "stored")
     IN /\ push' = Append(push, p)
        /\ lastId' = IF p.retain = "set" THEN id + 1 ELSE id
        /\ SaveHistory(request, id)
        /\ trace' = DisperseToSubs(trace, p.uri, [id |-> id, kind |-> "live"])
        /\ StoreValue(p)
  /\ UNCHANGED <<engine, committed, left, restarts>>

(* DbEngine.doPush: one push after the other. *)
EnqueueDb(request) ==
  /\ engine = "db" /\ MayPush
  /\ push' = Append(push, Pushed(request, NoId, "queued"))
  /\ UNCHANGED <<engine, lastId, history, kv, committed, trace, left, restarts>>

AnyQueued(i) == push[i].pc = "queued"
Turn(i) == push[i].pc = "queued" /\ \A j \in 1 .. i - 1 : push[j].pc \in {"done", "failed"}

Insert(i) ==
  /\ Turn(i)
  /\ lastId' = lastId + 1
  /\ push' = [push EXCEPT ![i].pc = "inserted", ![i].id = lastId + 1]
  /\ SaveHistory(push[i], lastId + 1)
  /\ UNCHANGED <<engine, kv, committed, trace, left, restarts>>

(* The INSERT is refused: nothing else is done, and nobody is told. *)
InsertFails(i) ==
  /\ Turn(i) /\ push[i].trace
  /\ lastId' = lastId + 1
  /\ push' = PushAt(i, "failed")
  /\ UNCHANGED <<engine, history, kv, committed, trace, left, restarts>>

Disperse(i) ==
  /\ push[i].pc = "inserted"
  /\ trace' = DisperseToSubs(trace, push[i].uri, [id |-> push[i].id, kind |-> "live"])
  /\ push' = PushAt(i, IF push[i].retain = "no" THEN "done" ELSE "dispersed")
  /\ UNCHANGED <<engine, lastId, history, kv, committed, left, restarts>>

(* setKeyActor of SqliteKv; BaseEngine.saveChangeHistory disperses the new *)
(* value, with no id (here the id of the push).                            *)
StoreDb(i) ==
  /\ push[i].pc = "dispersed"
  /\ StoreValue(push[i])
  /\ trace' = IF push[i].retain = "set"
              THEN DisperseToSubs(trace, push[i].uri, [id |-> push[i].id, kind |-> "delta"])
              ELSE trace
  /\ push' = PushAt(i, "stored")
  /\ UNCHANGED <<engine, lastId, history, committed, left, restarts>>

-----------------------------------------------------------------------------
(* Waiting for a retained event *)

Wake(r, id) == IF r.replay = "wait" /\ id >= r.after THEN [r EXCEPT !.replay = "reached"] ELSE r

(* resolveRetainedEventWaiters: also after a push that was refused. *)
ResolveRetainedEventWaiters(i) ==
  /\ push[i].pc = "stored"
  /\ \A j \in 1 .. i - 1 : push[j].pc # "stored"
  /\ committed' = push[i].id
  /\ trace' = [t \in Trace |-> Wake(trace[t], push[i].id)]
  /\ push' = PushAt(i, "done")
  /\ UNCHANGED <<engine, lastId, history, kv, left, restarts>>

Timeout(t) ==
  /\ trace[t].replay = "wait"
  /\ trace' = [trace EXCEPT ![t].replay = "done"]
  /\ UNCHANGED <<engine, lastId, history, kv, push, committed, left, restarts>>

(* isRetainedEventReached *)
AnyCommit(after) == committed # 0
Reached(after) == committed # 0 /\ committed >= after

(* replayRetained: with an id to wait for, or at once, which in memory     *)
(* means in the same step.                                                 *)
ReplayRetained(r) ==
  CASE ~r.retainedState -> [r EXCEPT !.replay = "done"]
    [] r.retainedState /\ r.after # 0 ->
         [r EXCEPT !.replay = IF Reached(r.after) THEN "reached" ELSE "wait"]
    [] OTHER ->
         IF engine = "mem"
         THEN [FilterSendEvent(r, "retained", RetainedRows(r.uri, kv)) EXCEPT !.replay = "done"]
         ELSE [r EXCEPT !.replay = "reached"]

-----------------------------------------------------------------------------
(* doTrace *)

Starts(r) == ~r.snapshot \/ ~r.retainedState
MayStart(r) == IF Starts(r) THEN FlushDelayStack(r) ELSE r

ReplayHistory(r) ==
  CASE r.after = 0 -> [MayStart(r) EXCEPT !.history = "done"]
    [] r.after # 0 /\ engine = "mem" ->
         [FilterSendEvent(r, "history", HistoryAfter(r)) EXCEPT !.history = "sent"]
    [] OTHER -> [r EXCEPT !.history = "select"]

(* cmdTrace: a client names an event that it knows of, or none. *)
CmdTrace(t, s, request) ==
  /\ trace[t] = NoTrace /\ s \notin left
  /\ \E after \in {0} \cup {push[i].id : i \in DOMAIN push} :
       LET r == ReplayHistory(
                  [NoTrace EXCEPT !.uri = request.uri, !.sid = s, !.after = after,
                                  !.retained = request.retained,
                                  !.retainedState = request.retained \/ request.retainedState,
                                  !.snapshot = request.snapshot,
                                  !.active = TRUE])
       IN trace' = [trace EXCEPT ![t] = IF r.snapshot
                                        THEN [r EXCEPT !.replay = "history"]
                                        ELSE ReplayRetained(r)]
  /\ UNCHANGED <<engine, lastId, history, kv, push, committed, left, restarts>>

Continue(t, r) ==
  /\ trace' = [trace EXCEPT ![t] = r]
  /\ UNCHANGED <<engine, lastId, history, kv, push, committed, left, restarts>>

SelectHistory(t) ==
  /\ trace[t].history = "select"
  /\ Continue(t, [FilterSendEvent(trace[t], "history", HistoryAfter(trace[t])) EXCEPT !.history = "sent"])

HistoryDone(t) ==
  /\ trace[t].history = "sent"
  /\ Continue(t, [MayStart(trace[t]) EXCEPT !.history = "done"])

SnapshotRetained(t) ==
  /\ trace[t].replay = "history" /\ trace[t].history = "done"
  /\ Continue(t, ReplayRetained(trace[t]))

(* replayRetainedState, which looks again whether the subscription is there *)
SelectRetained(t) ==
  /\ trace[t].replay = "reached"
  /\ Continue(t, [FilterSendEvent(trace[t], "retained", RetainedRows(trace[t].uri, kv)) EXCEPT !.replay = "done"])

(* closeSubscription, cancelRetainedEventWaiters, sendEndSubscribe *)
ClosedKept(r) ==
  [r EXCEPT !.active = FALSE, !.delayed = <<>>, !.ends = @ + 1]
Closed(r) ==
  [r EXCEPT !.active = FALSE, !.delayed = <<>>, !.ends = @ + 1,
            !.replay = IF @ = "wait" THEN "done" ELSE @]

(* terminateTrace *)
TerminateAlways(r) == Closed(r)
TerminateFilled(r) == IF r.active /\ r.got # <<>> THEN Closed(r) ELSE r
TerminateTrace(r) == IF r.active THEN Closed(r) ELSE r

SnapshotDone(t) ==
  /\ trace[t].snapshot /\ trace[t].history = "done" /\ trace[t].replay = "done"
  /\ Continue(t, TerminateTrace([FlushDelayStack(trace[t]) EXCEPT !.replay = "over"]))

CmdUnTrace(t) ==
  /\ trace[t].active
  /\ Continue(t, Closed(trace[t]))

(* leaveSession, with which nothing more is sent *)
LeaveSession(s) ==
  /\ s \notin left
  /\ left' = left \cup {s}
  /\ trace' = [t \in Trace |-> IF trace[t].active /\ trace[t].sid = s
                               THEN [Closed(trace[t]) EXCEPT !.ends = trace[t].ends] ELSE trace[t]]
  /\ UNCHANGED <<engine, lastId, history, kv, push, committed, restarts>>

(* The process ends and starts again: of SQLite the tables are left. *)
Restart ==
  /\ engine = "db" /\ restarts < MaxRestart
  /\ restarts' = restarts + 1
  /\ committed' = 0
  /\ left' = {}
  /\ push' = [i \in DOMAIN push |->
                IF push[i].pc = "done" THEN push[i] ELSE [push[i] EXCEPT !.pc = "failed"]]
  /\ trace' = [t \in Trace |-> NoTrace]
  /\ UNCHANGED <<engine, lastId, history, kv>>

Replay(t) ==
  SelectHistory(t) \/ HistoryDone(t) \/ SnapshotRetained(t) \/ SelectRetained(t) \/ SnapshotDone(t)

Next ==
  \/ \E p \in PushRequest : PushMem(p) \/ EnqueueDb(p)
  \/ \E i \in DOMAIN push :
       Insert(i) \/ InsertFails(i) \/ Disperse(i) \/ StoreDb(i) \/ ResolveRetainedEventWaiters(i)
  \/ \E t \in Trace :
       \/ \E s \in Session, r \in TraceRequest : CmdTrace(t, s, r)
       \/ Replay(t) \/ Timeout(t) \/ CmdUnTrace(t)
  \/ \E s \in Session : LeaveSession(s)
  \/ Restart

Spec == Init /\ [][Next]_vars

(* Promises are continued, SQLite answers, and the timer of a waiter fires *)
(* (it need not come late).                                                *)
Fairness == \A t \in Trace : WF_vars(Replay(t)) /\ WF_vars(Timeout(t))
FairSpec == Spec /\ Fairness

-----------------------------------------------------------------------------
(* Every variable has its type; a subscription is ended once, be it by its *)
(* client or because it was a snapshot.                                    *)
TypeOK ==
  /\ engine \in {"mem", "db"}
  /\ lastId \in Nat /\ committed \in 0 .. lastId
  /\ history \in Seq([id : 1 .. lastId, uri : Topic])
  /\ kv \in [Topic -> 0 .. lastId]
  /\ \A i \in DOMAIN push :
       push[i].pc \in {"queued", "inserted", "dispersed", "stored", "done", "failed"}
  /\ \A t \in Trace :
       LET r == trace[t]
       IN /\ r.delayed \in Seq(Event) /\ r.got \in Seq(Event)
          /\ r.history \in {"none", "select", "sent", "done"}
          /\ r.replay \in {"none", "history", "wait", "reached", "done", "over"}
          /\ r.ends \in 0 .. 1
  /\ left \subseteq Session
  /\ restarts \in 0 .. MaxRestart

Ids(events) == {events[i].id : i \in DOMAIN events}
Ascending(events, kinds) ==
  \A i, j \in DOMAIN events :
    i < j /\ events[i].kind \in kinds /\ events[j].kind \in kinds => events[i].id < events[j].id

WasDispersed(id) ==
  \A i \in DOMAIN push : push[i].id = id => push[i].pc \in {"dispersed", "stored", "done"}
Comparable(r, h) == engine = "mem" => (h.id < 10 <=> r.after < 10)

(* No event falls into the gap between the history and the live events: a  *)
(* subscription that has replayed the history after an event has sent all  *)
(* that were stored after it and given to the subscribers.  In memory this *)
(* is so as long as the texts of the ids are of one length; in SQLite, for *)
(* subscriptions to one topic (README.md: "returns history events after    *)
(* this ID").                                                              *)
NoGap ==
  \A t \in Trace :
    LET r == trace[t]
    IN r.active /\ r.history = "done" /\ ~r.retained /\ ~r.snapshot /\ r.after # 0 =>
         \A i \in DOMAIN history :
           LET h == history[i]
           IN /\ r.after < h.id /\ Comparable(r, h)
              /\ HistoryFits(h.uri, r.uri) /\ WasDispersed(h.id)
              => h.id \in Ids(r.got)

(* Events are sent in the order in which they were pushed, and once: among *)
(* those of the history, and among the live ones with those that were held *)
(* back; in memory among all of them.  (Over SQLite an event that is       *)
(* stored before the history is read and dispersed after it is sent twice.)*)
InOrder ==
  \A t \in Trace :
    /\ Ascending(trace[t].got, {"live"})
    /\ Ascending(trace[t].got, {"history"})
    /\ engine = "mem" => Ascending(trace[t].got, {"history", "live"})

(* README.md, of snapshot: "Live events published during the replay are    *)
(* not delivered to the snapshot subscriber."                              *)
SnapshotReplayOnly ==
  \A t \in Trace : trace[t].snapshot =>
    \A i \in DOMAIN trace[t].got : trace[t].got[i].kind \notin {"live", "delta"}

(* README.md, of after: it "delays retained key-value lookup until         *)
(* retained storage has committed this event ID or a later comparable      *)
(* event ID": no push up to that event is still on its way to the store.   *)
RetainedIsFresh ==
  \A t \in Trace :
    trace[t].after # 0 /\ trace[t].replay = "reached" =>
      \A i \in DOMAIN push :
        push[i].id \in 1 .. trace[t].after /\ push[i].retain # "no" =>
          push[i].pc \in {"stored", "done", "failed"}

(* No wake-up is missed: the event that a subscription waits for has not   *)
(* been committed; and no waiter outlives its subscription, unless that is *)
(* a snapshot which ended before it came to wait: its timer clears it.     *)
WaiterIsLive ==
  \A t \in Trace :
    trace[t].replay = "wait" =>
      /\ committed < trace[t].after
      /\ trace[t].snapshot \/ trace[t].active

Over(r) == r.history # "none" /\ ~r.active

(* After its end a subscription gets nothing, whatever of its replay is    *)
(* still under way.                                                        *)
ClosedIsSilent ==
  [][\A t \in Trace :
       Over(trace[t]) /\ Over(trace'[t]) => trace'[t].got = trace[t].got]_vars

(* openspec/specs/snapshot-subscription: a snapshot is terminated once its *)
(* data are sent, also when the event that it waits for never comes.       *)
SnapshotEnds == \A t \in Trace : trace[t].snapshot ~> ~trace[t].active

-----------------------------------------------------------------------------
(* The operators on topics speak of no state: they are checked before the  *)
(* first event and subscription, for all patterns over two words.          *)
Untouched == push = <<>> /\ left = {} /\ \A t \in Trace : trace[t] = NoTrace
Word == {"a", "b"}

(* The topics up to three levels that match a pattern are those that it    *)
(* stands for.                                                             *)
MatchIsMeaning ==
  Untouched =>
    \A p \in Patterns(Word, 2) : {u \in Topics(Word, 3) : Match(u, p)} = Meaning(p, Word, 3)

(* Two patterns intersect exactly if a topic matches both: the stores that *)
(* getKey leaves out have no value for the subscription.                   *)
IntersectIsMeeting ==
  Untouched =>
    \A p, q \in Patterns(Word, 2) :
      Intersect(p, q) <=> \E u \in Topics(Word, 3) : Match(u, p) /\ Match(u, q)

(* A topic is restored from its key and the pattern of the store that it   *)
(* is kept in, so that no two topics have one key.                         *)
KeyRoundTrip ==
  Untouched =>
    \A p \in Patterns(Word, 3) : \A u \in Topics(Word, 3) :
      Match(u, p) => Merge(Extract(u, p), p) = u
=============================================================================
