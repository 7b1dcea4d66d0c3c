-------------------------- MODULE SubscriptionProofs --------------------------
(***************************************************************************)
(* Proofs about Subscription, for any subscriptions, sessions, topics and  *)
(* requests, any number of pushes and of restarts, over both engines.      *)
(***************************************************************************)
EXTENDS Subscription, TopicPatternProofs

-----------------------------------------------------------------------------
(* The types, part by part.                                                *)
PushType ==
  [uri : Topic, trace : BOOLEAN, retain : {"no", "set", "refused"}, id : Nat,
   pc : {"queued", "inserted", "dispersed", "stored", "done", "failed"}]

TraceType ==
  [uri : {q.uri : q \in TraceRequest} \cup {<<>>}, sid : Session \cup {"none"}, after : Nat,
   retained : BOOLEAN, retainedState : BOOLEAN, snapshot : BOOLEAN,
   active : BOOLEAN, started : BOOLEAN, delayed : Seq(Event), got : Seq(Event),
   history : {"none", "select", "sent", "done"},
   replay : {"none", "history", "wait", "reached", "done", "over"}, ends : 0 .. 1]

EngineTypes ==
  /\ engine \in {"mem", "db"}
  /\ lastId \in Nat /\ committed \in 0 .. lastId
  /\ left \subseteq Session
  /\ restarts \in 0 .. MaxRestart

PushTypes ==
  /\ push \in Seq(PushType)
  /\ \A i \in DOMAIN push : push[i].id <= lastId

StoreTypes ==
  /\ history \in Seq([id : 1 .. lastId, uri : Topic])
  /\ kv \in [Topic -> 0 .. lastId]

(* A subscription that is open was not ended yet. *)
Once(r) == r.active => r.ends = 0

TraceTypes ==
  /\ trace \in [Trace -> TraceType]
  /\ \A t \in Trace : Once(trace[t]) /\ trace[t].after <= lastId

Types == EngineTypes /\ PushTypes /\ StoreTypes /\ TraceTypes

LEMMA Bounds ==
  /\ MaxPush \in Nat /\ MaxRestart \in Nat
  /\ \A i \in FirstId : i \in Nat /\ i + 2 * MaxPush < 100
  BY BoundAssumption

LEMMA RequestTyped ==
  /\ \A p \in PushRequest : p.uri \in Topic /\ p.trace \in BOOLEAN /\ p.retain \in {"no", "set", "refused"}
  /\ \A r \in TraceRequest : r.retained \in BOOLEAN /\ r.retainedState \in BOOLEAN /\ r.snapshot \in BOOLEAN
  BY RequestAssumption

LEMMA NoTraceTyped == NoTrace \in TraceType /\ Once(NoTrace)
<1>1. <<>> \in Seq(Event)
  OBVIOUS
<1>. QED BY <1>1 DEF NoTrace, TraceType, Once

(* What is sent of one kind. *)
LEMMA OfKindTyped ==
  ASSUME NEW kind \in {"live", "delta", "history", "retained"}, NEW ids \in Seq(Nat)
  PROVE  /\ OfKind(kind, ids) \in Seq(Event)
         /\ Len(OfKind(kind, ids)) = Len(ids)
         /\ \A i \in 1 .. Len(ids) : /\ OfKind(kind, ids)[i].kind = kind
                                     /\ OfKind(kind, ids)[i].id = ids[i]
<1>1. \A i \in 1 .. Len(ids) : [id |-> ids[i], kind |-> kind] \in Event
  BY DEF Event
<1>. QED BY <1>1 DEF OfKind

LEMMA RetainedTyped ==
  ASSUME EngineTypes, StoreTypes, NEW uri
  PROVE  RetainedRows(uri, kv) \in Seq(Nat)
<1> DEFINE S == {kv[u] : u \in {u \in Topic : kv[u] # 0 /\ Match(u, uri)}}
<1>1. S \subseteq 0 .. lastId /\ 0 .. lastId \in SUBSET Nat
  BY DEF EngineTypes, StoreTypes
<1>2. IsFiniteSet(0 .. lastId)
  BY FS_Interval DEF EngineTypes
<1>3. S \in SUBSET Nat /\ IsFiniteSet(S)
  BY <1>1, <1>2, FS_Subset
<1>4. Cardinality(S) \in Nat /\ Sorted(S) \in [1 .. Cardinality(S) -> S]
  BY <1>3, SortedAscends
<1>5. RetainedRows(uri, kv) = Sorted(S)
  BY DEF RetainedRows
<1> HIDE DEF S
<1>6. PICK n, f : n = Cardinality(S) /\ f = Sorted(S)
  OBVIOUS
<1>7. n \in Nat /\ f \in [1 .. n -> Nat]
  BY <1>3, <1>4, <1>6
<1>. QED BY <1>5, <1>6, <1>7

Found(r) ==
  {i \in DOMAIN history : After(history[i].id, r.after) /\ HistoryFits(history[i].uri, r.uri)}

LEMMA FoundSorted ==
  ASSUME StoreTypes, NEW r
  PROVE  /\ Found(r) \in SUBSET Nat /\ Found(r) \subseteq DOMAIN history /\ IsFiniteSet(Found(r))
         /\ Cardinality(Found(r)) \in Nat
         /\ Sorted(Found(r)) \in [1 .. Cardinality(Found(r)) -> Found(r)]
         /\ HistoryAfter(r) = [k \in 1 .. Cardinality(Found(r)) |-> history[Sorted(Found(r))[k]].id]
<1>1. DOMAIN history = 1 .. Len(history) /\ Len(history) \in Nat
  BY DEF StoreTypes
<1>2. IsFiniteSet(1 .. Len(history)) /\ 1 .. Len(history) \in SUBSET Nat
  BY <1>1, FS_Interval
<1>3. Found(r) \subseteq 1 .. Len(history)
  BY <1>1 DEF Found
<1>4. Found(r) \in SUBSET Nat /\ IsFiniteSet(Found(r))
  BY <1>2, <1>3, FS_Subset
<1>5. Cardinality(Found(r)) \in Nat /\ Sorted(Found(r)) \in [1 .. Cardinality(Found(r)) -> Found(r)]
  BY <1>4, SortedAscends
<1>6. HistoryAfter(r) = [k \in DOMAIN Sorted(Found(r)) |-> history[Sorted(Found(r))[k]].id]
  BY DEF HistoryAfter, Found
<1>. QED BY <1>1, <1>3, <1>4, <1>5, <1>6

LEMMA HistoryTyped ==
  ASSUME StoreTypes, lastId \in Nat, NEW r
  PROVE  HistoryAfter(r) \in Seq(1 .. lastId) /\ HistoryAfter(r) \in Seq(Nat)
<1>1. PICK n, at : n = Cardinality(Found(r)) /\ at = Sorted(Found(r))
  OBVIOUS
<1>2. n \in Nat /\ at \in [1 .. n -> DOMAIN history] /\ HistoryAfter(r) = [k \in 1 .. n |-> history[at[k]].id]
  BY <1>1, FoundSorted
<1>3. ASSUME NEW k \in 1 .. n PROVE history[at[k]].id \in 1 .. lastId
  <2>1. at[k] \in DOMAIN history
    BY <1>2
  <2>2. history \in Seq([id : 1 .. lastId, uri : Topic])
    BY DEF StoreTypes
  <2>3. history[at[k]] \in [id : 1 .. lastId, uri : Topic]
    BY <2>1, <2>2, ElementOfSeq, LenProperties
  <2>. QED BY <2>3
<1>. QED BY <1>2, <1>3

-----------------------------------------------------------------------------
(* What becomes of a subscription: what it asks for stays as it is.        *)
Is(x, r, active, started, got, delayed, hist, replay) ==
  /\ x \in TraceType /\ Once(x)
  /\ x.uri = r.uri /\ x.sid = r.sid /\ x.after = r.after
  /\ x.retained = r.retained /\ x.retainedState = r.retainedState /\ x.snapshot = r.snapshot
  /\ x.active = active /\ x.started = started /\ x.got = got /\ x.delayed = delayed
  /\ x.history = hist /\ x.replay = replay

LEMMA SendIs ==
  ASSUME NEW r \in TraceType, Once(r), NEW events \in Seq(Event)
  PROVE  Is(SendEvent(r, events), r, r.active, r.started, r.got \o events, r.delayed, r.history, r.replay)
<1>1. r.got \o events \in Seq(Event)
  BY ConcatProperties DEF TraceType
<1>. QED BY <1>1 DEF Is, SendEvent, TraceType, Once

LEMMA FlushIs ==
  ASSUME NEW r \in TraceType, Once(r)
  PROVE  Is(FlushDelayStack(r), r, r.active, TRUE, IF r.active THEN r.got \o r.delayed ELSE r.got,
            <<>>, r.history, r.replay)
<1>1. r.got \o r.delayed \in Seq(Event) /\ r.got \in Seq(Event) /\ <<>> \in Seq(Event)
  BY ConcatProperties DEF TraceType
<1>. QED BY <1>1 DEF Is, FlushDelayStack, TraceType, Once

LEMMA DelayIs ==
  ASSUME NEW r \in TraceType, Once(r), NEW e \in Event
  PROVE  Is(DelayEvent(r, e), r, r.active, r.started, r.got,
            IF r.snapshot THEN r.delayed ELSE Append(r.delayed, e), r.history, r.replay)
<1>1. Append(r.delayed, e) \in Seq(Event)
  BY AppendProperties DEF TraceType
<1>. QED BY <1>1, SMTT(30) DEF Is, DelayEvent, TraceType, Once

LEMMA ClosedIs ==
  ASSUME NEW r \in TraceType, Once(r), r.active
  PROVE  Is(Closed(r), r, FALSE, r.started, r.got, <<>>, r.history,
            IF r.replay = "wait" THEN "done" ELSE r.replay)
<1>1. <<>> \in Seq(Event) /\ r.ends + 1 \in 0 .. 1
  BY DEF TraceType, Once
<1>. QED BY <1>1, ZenonT(60) DEF Is, Closed, TraceType, Once

LEMMA RepliedIs ==
  ASSUME NEW r \in TraceType, Once(r),
         NEW replay \in {"none", "history", "wait", "reached", "done", "over"}
  PROVE  Is([r EXCEPT !.replay = replay], r, r.active, r.started, r.got, r.delayed, r.history, replay)
  BY DEF Is, TraceType, Once

LEMMA HistoryIs ==
  ASSUME NEW r \in TraceType, Once(r), NEW hist \in {"none", "select", "sent", "done"}
  PROVE  Is([r EXCEPT !.history = hist], r, r.active, r.started, r.got, r.delayed, hist, r.replay)
  BY DEF Is, TraceType, Once

(* Two changes, one after the other. *)
LEMMA ThenIs ==
  ASSUME NEW x, NEW y, NEW r, NEW a, NEW b, NEW c, NEW d, NEW e, NEW f,
         NEW a2, NEW b2, NEW c2, NEW d2, NEW e2, NEW f2,
         Is(y, r, a2, b2, c2, d2, e2, f2), Is(x, y, a, b, c, d, e, f)
  PROVE  Is(x, r, a, b, c, d, e, f)
  BY DEF Is

(* What is sent of the history or of the retained values.                  *)
Sent(r, kind, ids) ==
  IF r.active /\ Wants(r, kind) THEN r.got \o OfKind(kind, ids) ELSE r.got

LEMMA FilterSendIs ==
  ASSUME NEW r \in TraceType, Once(r), NEW kind \in {"live", "delta", "history", "retained"},
         NEW ids \in Seq(Nat)
  PROVE  Is(FilterSendEvent(r, kind, ids), r, r.active, r.started, Sent(r, kind, ids),
            r.delayed, r.history, r.replay)
<1>1. CASE r.active /\ Wants(r, kind)
  BY <1>1, OfKindTyped, SendIs DEF FilterSendEvent, Sent
<1>2. CASE ~(r.active /\ Wants(r, kind))
  BY <1>2 DEF FilterSendEvent, Sent, Is, TraceType
<1>. QED BY <1>1, <1>2

(* An event that is given to the subscribers. *)
Reaches(r, uri, e) == r.active /\ Match(uri, r.uri) /\ Wants(r, e.kind)
GotOf(r, uri, e) == IF Reaches(r, uri, e) /\ r.started THEN Append(r.got, e) ELSE r.got
DelayedOf(r, uri, e) ==
  IF Reaches(r, uri, e) /\ ~r.started /\ ~r.snapshot THEN Append(r.delayed, e) ELSE r.delayed

LEMMA DisperseIs ==
  ASSUME TraceTypes, NEW uri, NEW e \in Event, NEW t \in Trace,
         NEW x, x = DisperseToSubs(trace, uri, e)[t], NEW r, r = trace[t]
  PROVE  Is(x, r, r.active, r.started, GotOf(r, uri, e), DelayedOf(r, uri, e), r.history, r.replay)
<1>1. r \in TraceType /\ Once(r)
  BY DEF TraceTypes
<1>2. x = IF ~Reaches(r, uri, e) THEN r ELSE IF r.started THEN SendEvent(r, <<e>>) ELSE DelayEvent(r, e)
  BY DEF DisperseToSubs, Reaches
<1>3. CASE ~Reaches(r, uri, e)
  BY <1>1, <1>2, <1>3 DEF Is, GotOf, DelayedOf
<1>4. CASE Reaches(r, uri, e) /\ r.started
  <2>1. <<e>> \in Seq(Event) /\ Append(r.got, e) = r.got \o <<e>>
    BY <1>1, AppendIsConcat DEF TraceType
  <2>. QED BY <1>1, <1>2, <1>4, <2>1, SendIs DEF GotOf, DelayedOf
<1>5. CASE Reaches(r, uri, e) /\ ~r.started
  BY <1>1, <1>2, <1>5, DelayIs DEF GotOf, DelayedOf
<1>. QED BY <1>3, <1>4, <1>5

LEMMA MayStartIs ==
  ASSUME NEW r \in TraceType, Once(r)
  PROVE  Is(MayStart(r), r, r.active, r.started \/ Starts(r),
            IF Starts(r) /\ r.active THEN r.got \o r.delayed ELSE r.got,
            IF Starts(r) THEN <<>> ELSE r.delayed, r.history, r.replay)
<1>1. CASE Starts(r)
  <2>1. (r.started \/ Starts(r)) = TRUE
    BY <1>1
  <2>. QED BY <1>1, <2>1, FlushIs DEF MayStart
<1>2. CASE ~Starts(r)
  BY <1>2 DEF MayStart, Is, TraceType
<1>. QED BY <1>1, <1>2

Replayed(r) ==
  IF ~r.retainedState THEN "done"
  ELSE IF r.after # 0 THEN IF Reached(r.after) THEN "reached" ELSE "wait"
  ELSE IF engine = "mem" THEN "done" ELSE "reached"

LEMMA ReplayRetainedIs ==
  ASSUME EngineTypes, StoreTypes, NEW r \in TraceType, Once(r)
  PROVE  Is(ReplayRetained(r), r, r.active, r.started,
            IF r.retainedState /\ r.after = 0 /\ engine = "mem"
            THEN Sent(r, "retained", RetainedRows(r.uri, kv)) ELSE r.got,
            r.delayed, r.history, Replayed(r))
<1>1. CASE ~r.retainedState
  BY <1>1, RepliedIs DEF ReplayRetained, Replayed
<1>2. CASE r.retainedState /\ r.after # 0
  <2>1. ReplayRetained(r) = [r EXCEPT !.replay = IF Reached(r.after) THEN "reached" ELSE "wait"]
    BY <1>2 DEF ReplayRetained
  <2>2. Replayed(r) = IF Reached(r.after) THEN "reached" ELSE "wait"
    BY <1>2 DEF Replayed
  <2>. QED BY <1>2, <2>1, <2>2, RepliedIs
<1>3. CASE r.retainedState /\ r.after = 0
  <2>1. CASE engine = "mem"
    <3>1. PICK y : y = FilterSendEvent(r, "retained", RetainedRows(r.uri, kv))
      OBVIOUS
    <3>2. ReplayRetained(r) = [y EXCEPT !.replay = "done"]
      BY <1>3, <2>1, <3>1 DEF ReplayRetained
    <3>3. Is(y, r, r.active, r.started, Sent(r, "retained", RetainedRows(r.uri, kv)),
             r.delayed, r.history, r.replay)
      BY <3>1, RetainedTyped, FilterSendIs
    <3>4. y \in TraceType /\ Once(y)
      BY <3>3 DEF Is
    <3>5. Is([y EXCEPT !.replay = "done"], y, y.active, y.started, y.got, y.delayed, y.history, "done")
      BY <3>4, RepliedIs
    <3>6. Replayed(r) = "done"
      BY <1>3, <2>1 DEF Replayed
    <3>. QED BY <1>3, <2>1, <3>2, <3>3, <3>5, <3>6 DEF Is
  <2>2. CASE engine # "mem"
    <3>1. ReplayRetained(r) = [r EXCEPT !.replay = "reached"] /\ Replayed(r) = "reached"
      BY <1>3, <2>2 DEF ReplayRetained, Replayed
    <3>. QED BY <2>2, <3>1, RepliedIs
  <2>. QED BY <2>1, <2>2
<1>. QED BY <1>1, <1>2, <1>3 DEF TraceType

(* What a subscription asks for, and how it begins. *)
Asked(r, s, request, after) ==
  /\ r \in TraceType /\ Once(r)
  /\ r.uri = request.uri /\ r.sid = s /\ r.after = after
  /\ r.retained = request.retained /\ r.retainedState = (request.retained \/ request.retainedState)
  /\ r.snapshot = request.snapshot
  /\ r.active /\ ~r.started /\ r.delayed = <<>> /\ r.got = <<>>
  /\ r.history = "none" /\ r.replay = "none"

HistoryGot(r) ==
  IF r.after # 0 /\ engine = "mem" /\ (r.snapshot \/ ~r.retained)
  THEN OfKind("history", HistoryAfter(r)) ELSE <<>>
HistoryState(r) == IF r.after = 0 THEN "done" ELSE IF engine = "mem" THEN "sent" ELSE "select"

FirstGot(r) ==
  IF r.after = 0
  THEN IF ~r.snapshot /\ r.retainedState /\ engine = "mem"
       THEN OfKind("retained", RetainedRows(r.uri, kv)) ELSE <<>>
  ELSE HistoryGot(r)

Begun(x, r) ==
  Is(x, r, TRUE, r.after = 0 /\ Starts(r), FirstGot(r), <<>>,
     HistoryState(r), IF r.snapshot THEN "history" ELSE Replayed(r))

Asks(r, s, request, after) ==
  r = [NoTrace EXCEPT !.uri = request.uri, !.sid = s, !.after = after,
                      !.retained = request.retained,
                      !.retainedState = request.retained \/ request.retainedState,
                      !.snapshot = request.snapshot,
                      !.active = TRUE]

LEMMA FreshTyped ==
  ASSUME NEW s \in Session, NEW request \in TraceRequest, NEW after \in Nat,
         NEW a \in BOOLEAN, NEW b \in BOOLEAN, NEW c \in BOOLEAN
  PROVE  [uri |-> request.uri, sid |-> s, after |-> after, retained |-> a, retainedState |-> b,
          snapshot |-> c, active |-> TRUE, started |-> FALSE, delayed |-> <<>>, got |-> <<>>,
          history |-> "none", replay |-> "none", ends |-> 0] \in TraceType
<1>1. <<>> \in Seq(Event)
  OBVIOUS
<1>2. request.uri \in {q.uri : q \in TraceRequest} \cup {<<>>} /\ s \in Session \cup {"none"}
  OBVIOUS
<1>3. 0 \in 0 .. 1 /\ TRUE \in BOOLEAN /\ FALSE \in BOOLEAN
  OBVIOUS
<1>. QED BY <1>1, <1>2, <1>3 DEF TraceType

LEMMA AskedIs ==
  ASSUME NEW s \in Session, NEW request \in TraceRequest, NEW after \in Nat, NEW r,
         Asks(r, s, request, after)
  PROVE  Asked(r, s, request, after)
<1>1. request.retained \in BOOLEAN /\ request.retainedState \in BOOLEAN /\ request.snapshot \in BOOLEAN
  BY RequestTyped
<1>3. PICK state : state = (request.retained \/ request.retainedState)
  OBVIOUS
<1>4. state \in BOOLEAN
  BY <1>3
<1>5. r = [uri |-> request.uri, sid |-> s, after |-> after, retained |-> request.retained,
           retainedState |-> state, snapshot |-> request.snapshot, active |-> TRUE,
           started |-> FALSE, delayed |-> <<>>, got |-> <<>>, history |-> "none",
           replay |-> "none", ends |-> 0]
  BY <1>3 DEF Asks, NoTrace
<1>6. r \in TraceType
  BY <1>1, <1>4, <1>5, FreshTyped
<1>7. /\ r.uri = request.uri /\ r.sid = s /\ r.after = after
      /\ r.retained = request.retained /\ r.snapshot = request.snapshot
      /\ r.active /\ ~r.started /\ r.delayed = <<>> /\ r.got = <<>>
      /\ r.history = "none" /\ r.replay = "none" /\ r.ends = 0
  BY <1>5
<1>8. r.retainedState = (request.retained \/ request.retainedState)
  BY <1>3, <1>5
<1>. QED BY <1>6, <1>7, <1>8 DEF Asked, Once

LEMMA ReplayHistoryIs ==
  ASSUME StoreTypes, lastId \in Nat, NEW r \in TraceType, Once(r),
         r.active, ~r.started, r.delayed = <<>>, r.got = <<>>
  PROVE  Is(ReplayHistory(r), r, TRUE, r.after = 0 /\ Starts(r), HistoryGot(r), <<>>,
            HistoryState(r), r.replay)
<1>1. r.active = TRUE /\ r.started = FALSE
  BY DEF TraceType
<1>2. \A events \in Seq(Event) : <<>> \o events = events
  BY ConcatEmptySeq
<1>3. CASE r.after = 0
  <2>1. PICK y : y = MayStart(r)
    OBVIOUS
  <2>2. ReplayHistory(r) = [y EXCEPT !.history = "done"]
    BY <1>3, <2>1 DEF ReplayHistory
  <2>3. <<>> \o <<>> = <<>>
    BY <1>2
  <2>4. Is(y, r, r.active, r.started \/ Starts(r),
           IF Starts(r) /\ r.active THEN r.got \o r.delayed ELSE r.got,
           IF Starts(r) THEN <<>> ELSE r.delayed, r.history, r.replay)
    BY <2>1, MayStartIs
  <2>5. (r.started \/ Starts(r)) = (r.after = 0 /\ Starts(r))
    BY <1>1, <1>3
  <2>6. (IF Starts(r) /\ r.active THEN r.got \o r.delayed ELSE r.got) = <<>>
    BY <2>3
  <2>7. (IF Starts(r) THEN <<>> ELSE r.delayed) = <<>>
    OBVIOUS
  <2>8. Is(y, r, TRUE, r.after = 0 /\ Starts(r), <<>>, <<>>, r.history, r.replay)
    BY <1>1, <2>4, <2>5, <2>6, <2>7
  <2>9. y \in TraceType /\ Once(y)
    BY <2>8 DEF Is
  <2>10. Is([y EXCEPT !.history = "done"], y, y.active, y.started, y.got, y.delayed, "done", y.replay)
    BY <2>9, HistoryIs
  <2>11. HistoryGot(r) = <<>> /\ HistoryState(r) = "done"
    BY <1>3 DEF HistoryGot, HistoryState
  <2>. QED BY <2>2, <2>8, <2>10, <2>11 DEF Is
<1>4. CASE r.after # 0 /\ engine = "mem"
  <2>1. PICK y : y = FilterSendEvent(r, "history", HistoryAfter(r))
    OBVIOUS
  <2>2. ReplayHistory(r) = [y EXCEPT !.history = "sent"]
    BY <1>4, <2>1 DEF ReplayHistory
  <2>3. HistoryAfter(r) \in Seq(Nat)
    BY HistoryTyped
  <2>4. Is(y, r, r.active, r.started, Sent(r, "history", HistoryAfter(r)), r.delayed, r.history, r.replay)
    BY <2>1, <2>3, FilterSendIs
  <2>5. Sent(r, "history", HistoryAfter(r)) = HistoryGot(r)
    <3>1. OfKind("history", HistoryAfter(r)) \in Seq(Event)
      BY <2>3, OfKindTyped
    <3>2. Wants(r, "history") <=> r.snapshot \/ ~r.retained
      BY <1>1 DEF Wants
    <3>. QED BY <1>1, <1>2, <1>4, <3>1, <3>2 DEF Sent, HistoryGot
  <2>6. y \in TraceType /\ Once(y)
    BY <2>4 DEF Is
  <2>7. Is([y EXCEPT !.history = "sent"], y, y.active, y.started, y.got, y.delayed, "sent", y.replay)
    BY <2>6, HistoryIs
  <2>8. HistoryState(r) = "sent" /\ (r.after = 0 /\ Starts(r)) = FALSE
    BY <1>4 DEF HistoryState
  <2>. QED BY <1>1, <2>2, <2>4, <2>5, <2>7, <2>8 DEF Is
<1>5. CASE r.after # 0 /\ engine # "mem"
  <2>1. ReplayHistory(r) = [r EXCEPT !.history = "select"]
    BY <1>5 DEF ReplayHistory
  <2>2. Is([r EXCEPT !.history = "select"], r, r.active, r.started, r.got, r.delayed, "select", r.replay)
    BY HistoryIs
  <2>3. HistoryState(r) = "select" /\ HistoryGot(r) = <<>> /\ (r.after = 0 /\ Starts(r)) = FALSE
    BY <1>5 DEF HistoryState, HistoryGot
  <2>. QED BY <1>1, <2>1, <2>2, <2>3
<1>. QED BY <1>3, <1>4, <1>5

LEMMA CmdTraceIs ==
  ASSUME EngineTypes, StoreTypes, PushTypes,
         NEW t \in Trace, NEW s \in Session, NEW request \in TraceRequest, CmdTrace(t, s, request)
  PROVE  \E r, x, after : /\ after \in 0 .. lastId
                          /\ Asked(r, s, request, after) /\ Begun(x, r)
                          /\ trace' = [trace EXCEPT ![t] = x]
<1>1. PICK after \in {0} \cup {push[i].id : i \in DOMAIN push} :
        LET r == ReplayHistory(
                   [NoTrace EXCEPT !.uri = request.uri, !.sid = s, !.after = after,
                                   !.retained = request.retained,
                                   !.retainedState = request.retained \/ request.retainedState,
                                   !.snapshot = request.snapshot,
                                   !.active = TRUE])
        IN trace' = [trace EXCEPT ![t] = IF r.snapshot
                                         THEN [r EXCEPT !.replay = "history"]
                                         ELSE ReplayRetained(r)]
  BY DEF CmdTrace
<1>2. after \in 0 .. lastId
  <2>1. ASSUME NEW i \in DOMAIN push PROVE push[i].id \in 0 .. lastId
    <3>1. push[i] \in PushType
      BY ElementOfSeq, LenProperties DEF PushTypes
    <3>2. push[i].id \in Nat /\ push[i].id <= lastId
      BY <3>1 DEF PushTypes, PushType
    <3>. QED BY <3>2 DEF EngineTypes
  <2>. QED BY <2>1 DEF EngineTypes
<1>3. PICK r : Asks(r, s, request, after)
  BY DEF Asks
<1>4. Asked(r, s, request, after)
  <2>1. after \in Nat
    BY <1>2 DEF EngineTypes
  <2>. QED BY <1>3, <2>1, AskedIs
<1>5. PICK y : y = ReplayHistory(r)
  OBVIOUS
<1>6. PICK x : x = IF y.snapshot THEN [y EXCEPT !.replay = "history"] ELSE ReplayRetained(y)
  OBVIOUS
<1>7. trace' = [trace EXCEPT ![t] = x]
  BY <1>1, <1>3, <1>5, <1>6 DEF Asks
<1>8. Is(y, r, TRUE, r.after = 0 /\ Starts(r), HistoryGot(r), <<>>, HistoryState(r), r.replay)
  BY <1>4, <1>5, ReplayHistoryIs DEF Asked, EngineTypes
<1>9. y \in TraceType /\ Once(y) /\ y.snapshot = r.snapshot
  BY <1>8 DEF Is
<1>10. Begun(x, r)
  <2>1. CASE y.snapshot
    <3>1. Is(x, y, y.active, y.started, y.got, y.delayed, y.history, "history")
      BY <1>6, <1>9, <2>1, RepliedIs
    <3>2. r.snapshot /\ HistoryGot(r) = FirstGot(r)
      BY <1>9, <2>1 DEF HistoryGot, FirstGot
    <3>. QED BY <1>8, <3>1, <3>2 DEF Is, Begun
  <2>2. CASE ~y.snapshot
    <3>1. Is(x, y, y.active, y.started,
             IF y.retainedState /\ y.after = 0 /\ engine = "mem"
             THEN Sent(y, "retained", RetainedRows(y.uri, kv)) ELSE y.got,
             y.delayed, y.history, Replayed(y))
      BY <1>6, <1>9, <2>2, ReplayRetainedIs
    <3>2. Replayed(y) = Replayed(r)
      BY <1>8 DEF Is, Replayed
    <3>3. r.after = 0 => Sent(y, "retained", RetainedRows(y.uri, kv)) = OfKind("retained", RetainedRows(r.uri, kv))
      <4> SUFFICES ASSUME r.after = 0
                   PROVE  Sent(y, "retained", RetainedRows(y.uri, kv)) = OfKind("retained", RetainedRows(r.uri, kv))
        OBVIOUS
      <4>1. y.uri = r.uri /\ y.active = TRUE /\ y.got = <<>>
        BY <1>8 DEF Is, HistoryGot
      <4>2. OfKind("retained", RetainedRows(r.uri, kv)) \in Seq(Event)
        BY RetainedTyped, OfKindTyped
      <4>3. Wants(y, "retained")
        BY <2>2 DEF Wants
      <4>. QED BY <4>1, <4>2, <4>3, ConcatEmptySeq DEF Sent
    <3>4. PICK g : g = IF y.retainedState /\ y.after = 0 /\ engine = "mem"
                      THEN Sent(y, "retained", RetainedRows(y.uri, kv)) ELSE y.got
      OBVIOUS
    <3>5. y.after = r.after /\ y.retainedState = r.retainedState /\ y.got = HistoryGot(r) /\ ~r.snapshot
      BY <1>8, <1>9, <2>2 DEF Is
    <3>6. g = FirstGot(r)
      BY <3>3, <3>4, <3>5 DEF FirstGot, HistoryGot
    <3>7. Is(x, y, y.active, y.started, FirstGot(r), y.delayed, y.history, Replayed(r))
      BY <3>1, <3>2, <3>4, <3>6
    <3>. QED BY <1>8, <3>5, <3>7 DEF Is, Begun
  <2>. QED BY <2>1, <2>2
<1>. QED BY <1>2, <1>4, <1>7, <1>10

-----------------------------------------------------------------------------
(* What a step makes of a subscription.                                    *)
Began(x, r) ==
  /\ r = NoTrace
  /\ \E s, request, after, q :
       after \in 0 .. lastId /\ Asked(q, s, request, after) /\ Begun(x, q)
Given(x, r, uri, e) ==
  Is(x, r, r.active, r.started, GotOf(r, uri, e), DelayedOf(r, uri, e), r.history, r.replay)
Woken(x, r) ==
  /\ r.replay = "wait"
  /\ \E i \in DOMAIN push : ResolveRetainedEventWaiters(i) /\ push[i].id >= r.after
  /\ Is(x, r, r.active, r.started, r.got, r.delayed, r.history, "reached")
TimedOut(x, r) ==
  /\ r.replay = "wait"
  /\ Is(x, r, r.active, r.started, r.got, r.delayed, r.history, "done")
Selected(x, r) ==
  /\ r.history = "select"
  /\ Is(x, r, r.active, r.started, Sent(r, "history", HistoryAfter(r)), r.delayed, "sent", r.replay)
Flushed(r) == IF Starts(r) /\ r.active THEN r.got \o r.delayed ELSE r.got
DoneHistory(x, r) ==
  /\ r.history = "sent"
  /\ Is(x, r, r.active, r.started \/ Starts(r), Flushed(r),
        IF Starts(r) THEN <<>> ELSE r.delayed, "done", r.replay)
Looked(x, r) ==
  /\ r.replay = "history" /\ r.history = "done"
  /\ Is(x, r, r.active, r.started,
        IF r.retainedState /\ r.after = 0 /\ engine = "mem"
        THEN Sent(r, "retained", RetainedRows(r.uri, kv)) ELSE r.got,
        r.delayed, r.history, Replayed(r))
Shown(x, r) ==
  /\ r.replay = "reached"
  /\ Is(x, r, r.active, r.started, Sent(r, "retained", RetainedRows(r.uri, kv)),
        r.delayed, r.history, "done")
Finished(x, r) ==
  /\ r.snapshot /\ r.history = "done" /\ r.replay = "done"
  /\ Is(x, r, FALSE, TRUE, IF r.active THEN r.got \o r.delayed ELSE r.got, <<>>, "done", "over")
Ended(x, r) ==
  /\ r.active
  /\ Is(x, r, FALSE, r.started, r.got, <<>>, r.history, IF r.replay = "wait" THEN "done" ELSE r.replay)

(* A live event is new, or comes from the push whose turn it is.           *)
Comes(e) ==
  e.kind = "live" =>
    \/ engine = "mem" /\ e.id = lastId + 1 /\ e.id <= lastId'
    \/ \E i \in DOMAIN push : Disperse(i) /\ e.id = push[i].id

(* Whatever the step is, one of these is what a subscription sees of it.   *)
StepOf(x, r) ==
  \/ x = r
  \/ x = NoTrace
  \/ Began(x, r)
  \/ \E uri, e : e \in Event /\ e.kind \in {"live", "delta"} /\ Comes(e) /\ Given(x, r, uri, e)
  \/ Woken(x, r) \/ TimedOut(x, r)
  \/ Selected(x, r) \/ DoneHistory(x, r)
  \/ Looked(x, r) \/ Shown(x, r)
  \/ Finished(x, r) \/ Ended(x, r)

LEMMA OnlyIs ==
  ASSUME TraceTypes, NEW t \in Trace, NEW x, trace' = [trace EXCEPT ![t] = x]
  PROVE  trace'[t] = x /\ \A u \in Trace : u # t => trace'[u] = trace[u]
  BY DEF TraceTypes

LEMMA TraceTyped ==
  ASSUME TraceTypes, NEW t \in Trace
  PROVE  trace[t] \in TraceType /\ Once(trace[t]) /\ trace[t].after \in 0 .. lastId
<1>1. trace[t] \in TraceType /\ Once(trace[t]) /\ trace[t].after <= lastId
  BY DEF TraceTypes
<1>2. trace[t].after \in Nat
  BY <1>1 DEF TraceType
<1>. QED BY <1>1, <1>2

LEMMA GivenIs ==
  ASSUME TraceTypes, NEW uri, NEW e \in Event, trace' = DisperseToSubs(trace, uri, e)
  PROVE  \A t \in Trace : Given(trace'[t], trace[t], uri, e)
<1>1. SUFFICES ASSUME NEW t \in Trace PROVE Given(trace'[t], trace[t], uri, e)
  OBVIOUS
<1>. QED BY DisperseIs DEF Given

LEMMA EventIs ==
  ASSUME NEW id \in Nat, NEW kind \in {"live", "delta"}, NEW e, e = [id |-> id, kind |-> kind]
  PROVE  e \in Event /\ e.id = id /\ e.kind = kind /\ e.kind \in {"live", "delta"}
  BY DEF Event

LEMMA PushTyped ==
  ASSUME EngineTypes, PushTypes, NEW i \in DOMAIN push
  PROVE  push[i] \in PushType /\ push[i].id \in 0 .. lastId
<1>1. push[i] \in PushType
  BY ElementOfSeq, LenProperties DEF PushTypes
<1>2. push[i].id \in Nat /\ push[i].id <= lastId
  BY <1>1 DEF PushTypes, PushType
<1>. QED BY <1>1, <1>2 DEF EngineTypes

LEMMA SelectHistoryIs ==
  ASSUME EngineTypes, StoreTypes, TraceTypes, NEW t \in Trace, SelectHistory(t)
  PROVE  Selected(trace'[t], trace[t]) /\ \A u \in Trace : u # t => trace'[u] = trace[u]
<1>1. PICK r : r = trace[t]
  OBVIOUS
<1>2. PICK y : y = FilterSendEvent(r, "history", HistoryAfter(r))
  OBVIOUS
<1>3. trace' = [trace EXCEPT ![t] = [y EXCEPT !.history = "sent"]] /\ r.history = "select"
  BY <1>1, <1>2 DEF SelectHistory, Continue
<1>4. HistoryAfter(r) \in Seq(Nat) /\ r \in TraceType /\ Once(r)
  BY <1>1, HistoryTyped, TraceTyped DEF EngineTypes
<1>5. Is(y, r, r.active, r.started, Sent(r, "history", HistoryAfter(r)), r.delayed, r.history, r.replay)
  BY <1>2, <1>4, FilterSendIs
<1>6. y \in TraceType /\ Once(y)
  BY <1>5 DEF Is
<1>7. Is([y EXCEPT !.history = "sent"], y, y.active, y.started, y.got, y.delayed, "sent", y.replay)
  BY <1>6, HistoryIs
<1>8. Selected([y EXCEPT !.history = "sent"], r)
  BY <1>3, <1>5, <1>7 DEF Is, Selected
<1>. QED BY <1>1, <1>3, <1>8, OnlyIs

LEMMA HistoryDoneIs ==
  ASSUME EngineTypes, TraceTypes, NEW t \in Trace, HistoryDone(t)
  PROVE  DoneHistory(trace'[t], trace[t]) /\ \A u \in Trace : u # t => trace'[u] = trace[u]
<1>1. PICK r : r = trace[t]
  OBVIOUS
<1>2. PICK y : y = MayStart(r)
  OBVIOUS
<1>3. trace' = [trace EXCEPT ![t] = [y EXCEPT !.history = "done"]] /\ r.history = "sent"
  BY <1>1, <1>2 DEF HistoryDone, Continue
<1>4. r \in TraceType /\ Once(r)
  BY <1>1, TraceTyped
<1>5. Is(y, r, r.active, r.started \/ Starts(r), Flushed(r),
         IF Starts(r) THEN <<>> ELSE r.delayed, r.history, r.replay)
  BY <1>2, <1>4, MayStartIs DEF Flushed
<1>6. y \in TraceType /\ Once(y)
  BY <1>5 DEF Is
<1>7. Is([y EXCEPT !.history = "done"], y, y.active, y.started, y.got, y.delayed, "done", y.replay)
  BY <1>6, HistoryIs
<1>8. DoneHistory([y EXCEPT !.history = "done"], r)
  BY <1>3, <1>5, <1>7 DEF Is, DoneHistory
<1>. QED BY <1>1, <1>3, <1>8, OnlyIs

LEMMA SnapshotRetainedIs ==
  ASSUME EngineTypes, StoreTypes, TraceTypes, NEW t \in Trace, SnapshotRetained(t)
  PROVE  Looked(trace'[t], trace[t]) /\ \A u \in Trace : u # t => trace'[u] = trace[u]
<1>1. trace' = [trace EXCEPT ![t] = ReplayRetained(trace[t])]
  BY DEF SnapshotRetained, Continue
<1>2. trace[t].replay = "history" /\ trace[t].history = "done"
  BY DEF SnapshotRetained
<1>3. trace[t] \in TraceType /\ Once(trace[t])
  BY TraceTyped
<1>4. Looked(ReplayRetained(trace[t]), trace[t])
  BY <1>2, <1>3, ReplayRetainedIs DEF Looked
<1>. QED BY <1>1, <1>4, OnlyIs

LEMMA SelectRetainedIs ==
  ASSUME EngineTypes, StoreTypes, TraceTypes, NEW t \in Trace, SelectRetained(t)
  PROVE  Shown(trace'[t], trace[t]) /\ \A u \in Trace : u # t => trace'[u] = trace[u]
<1>1. PICK r : r = trace[t]
  OBVIOUS
<1>2. PICK y : y = FilterSendEvent(r, "retained", RetainedRows(r.uri, kv))
  OBVIOUS
<1>3. trace' = [trace EXCEPT ![t] = [y EXCEPT !.replay = "done"]] /\ r.replay = "reached"
  BY <1>1, <1>2 DEF SelectRetained, Continue
<1>4. RetainedRows(r.uri, kv) \in Seq(Nat) /\ r \in TraceType /\ Once(r)
  BY <1>1, RetainedTyped, TraceTyped
<1>5. Is(y, r, r.active, r.started, Sent(r, "retained", RetainedRows(r.uri, kv)), r.delayed, r.history, r.replay)
  BY <1>2, <1>4, FilterSendIs
<1>6. y \in TraceType /\ Once(y)
  BY <1>5 DEF Is
<1>7. Is([y EXCEPT !.replay = "done"], y, y.active, y.started, y.got, y.delayed, y.history, "done")
  BY <1>6, RepliedIs
<1>8. Shown([y EXCEPT !.replay = "done"], r)
  BY <1>3, <1>5, <1>7 DEF Is, Shown
<1>. QED BY <1>1, <1>3, <1>8, OnlyIs

LEMMA SnapshotDoneIs ==
  ASSUME EngineTypes, TraceTypes, NEW t \in Trace, SnapshotDone(t)
  PROVE  Finished(trace'[t], trace[t]) /\ \A u \in Trace : u # t => trace'[u] = trace[u]
<1>1. PICK r : r = trace[t]
  OBVIOUS
<1>2. PICK y : y = FlushDelayStack(r)
  OBVIOUS
<1>3. PICK z : z = [y EXCEPT !.replay = "over"]
  OBVIOUS
<1>4. /\ trace' = [trace EXCEPT ![t] = TerminateTrace(z)]
      /\ r.snapshot /\ r.history = "done" /\ r.replay = "done"
  BY <1>1, <1>2, <1>3 DEF SnapshotDone, Continue
<1>5. r \in TraceType /\ Once(r)
  BY <1>1, TraceTyped
<1>6. Is(y, r, r.active, TRUE, IF r.active THEN r.got \o r.delayed ELSE r.got, <<>>, r.history, r.replay)
  BY <1>2, <1>5, FlushIs
<1>7. y \in TraceType /\ Once(y)
  BY <1>6 DEF Is
<1>8. Is(z, y, y.active, y.started, y.got, y.delayed, y.history, "over")
  BY <1>3, <1>7, RepliedIs
<1>9. Is(z, r, r.active, TRUE, IF r.active THEN r.got \o r.delayed ELSE r.got, <<>>, "done", "over")
  BY <1>4, <1>6, <1>8 DEF Is
<1>10. z \in TraceType /\ Once(z) /\ z.replay = "over" /\ z.active = r.active /\ z.active \in BOOLEAN
  BY <1>9 DEF Is, TraceType
<1>11. Is(TerminateTrace(z), r, FALSE, TRUE, IF r.active THEN r.got \o r.delayed ELSE r.got, <<>>, "done", "over")
  <2>1. CASE z.active
    <3>1. Is(Closed(z), z, FALSE, z.started, z.got, <<>>, z.history,
             IF z.replay = "wait" THEN "done" ELSE z.replay)
      BY <1>10, <2>1, ClosedIs
    <3>2. TerminateTrace(z) = Closed(z)
      BY <2>1 DEF TerminateTrace
    <3>. QED BY <1>9, <1>10, <3>1, <3>2 DEF Is
  <2>2. CASE ~z.active
    <3>1. TerminateTrace(z) = z /\ r.active = FALSE
      BY <1>10, <2>2 DEF TerminateTrace
    <3>. QED BY <1>9, <3>1
  <2>. QED BY <2>1, <2>2
<1>12. Finished(TerminateTrace(z), r)
  BY <1>4, <1>11 DEF Finished
<1>. QED BY <1>1, <1>4, <1>12, OnlyIs

LEMMA CmdUnTraceIs ==
  ASSUME EngineTypes, TraceTypes, NEW t \in Trace, CmdUnTrace(t)
  PROVE  Ended(trace'[t], trace[t]) /\ \A u \in Trace : u # t => trace'[u] = trace[u]
<1>1. trace' = [trace EXCEPT ![t] = Closed(trace[t])] /\ trace[t].active
  BY DEF CmdUnTrace, Continue
<1>2. trace[t] \in TraceType /\ Once(trace[t])
  BY TraceTyped
<1>3. Ended(Closed(trace[t]), trace[t])
  BY <1>1, <1>2, ClosedIs DEF Ended
<1>. QED BY <1>1, <1>3, OnlyIs

LEMMA TimeoutIs ==
  ASSUME EngineTypes, TraceTypes, NEW t \in Trace, Timeout(t)
  PROVE  TimedOut(trace'[t], trace[t]) /\ \A u \in Trace : u # t => trace'[u] = trace[u]
<1>1. trace[t].replay = "wait"
  BY DEF Timeout
<1>2. trace' = [trace EXCEPT ![t] = [trace[t] EXCEPT !.replay = "done"]]
  BY DEF Timeout, TraceTypes
<1>3. trace[t] \in TraceType /\ Once(trace[t])
  BY TraceTyped
<1>4. TimedOut([trace[t] EXCEPT !.replay = "done"], trace[t])
  BY <1>1, <1>3, RepliedIs DEF TimedOut
<1>. QED BY <1>2, <1>4, OnlyIs

LEMMA LeaveSessionIs ==
  ASSUME EngineTypes, TraceTypes, NEW s, LeaveSession(s), NEW t \in Trace
  PROVE  trace'[t] = trace[t] \/ Ended(trace'[t], trace[t])
<1>1. trace'[t] = IF trace[t].active /\ trace[t].sid = s
                  THEN [Closed(trace[t]) EXCEPT !.ends = trace[t].ends] ELSE trace[t]
  BY DEF LeaveSession
<1>2. CASE trace[t].active /\ trace[t].sid = s
  <2>1. PICK r, y : r = trace[t] /\ y = Closed(r)
    OBVIOUS
  <2>2. r \in TraceType /\ Once(r) /\ r.active
    BY <1>2, <2>1, TraceTyped
  <2>3. Is(y, r, FALSE, r.started, r.got, <<>>, r.history, IF r.replay = "wait" THEN "done" ELSE r.replay)
    BY <2>1, <2>2, ClosedIs
  <2>4. y \in TraceType /\ r.ends \in 0 .. 1 /\ y.active = FALSE
    BY <2>2, <2>3 DEF Is, TraceType
  <2>5. PICK z : z = [y EXCEPT !.ends = r.ends]
    OBVIOUS
  <2>6. z \in TraceType /\ Once(z)
    BY <2>4, <2>5 DEF TraceType, Once
  <2>7. Is(z, y, y.active, y.started, y.got, y.delayed, y.history, y.replay)
    BY <2>4, <2>5, <2>6 DEF Is, TraceType
  <2>8. Ended(z, r)
    BY <2>2, <2>3, <2>7 DEF Is, Ended
  <2>. QED BY <1>1, <1>2, <2>1, <2>5, <2>8
<1>3. CASE ~(trace[t].active /\ trace[t].sid = s)
  BY <1>1, <1>3
<1>. QED BY <1>2, <1>3

LEMMA ResolveIs ==
  ASSUME EngineTypes, PushTypes, TraceTypes, NEW i \in DOMAIN push, ResolveRetainedEventWaiters(i),
         NEW t \in Trace
  PROVE  trace'[t] = trace[t] \/ Woken(trace'[t], trace[t])
<1>1. trace'[t] = Wake(trace[t], push[i].id)
  BY DEF ResolveRetainedEventWaiters
<1>2. CASE trace[t].replay = "wait" /\ push[i].id >= trace[t].after
  <2>1. trace'[t] = [trace[t] EXCEPT !.replay = "reached"]
    BY <1>1, <1>2 DEF Wake
  <2>2. trace[t] \in TraceType /\ Once(trace[t])
    BY TraceTyped
  <2>. QED BY <1>2, <2>1, <2>2, RepliedIs DEF Woken
<1>3. CASE ~(trace[t].replay = "wait" /\ push[i].id >= trace[t].after)
  BY <1>1, <1>3 DEF Wake
<1>. QED BY <1>2, <1>3

LEMMA CmdTraceBegan ==
  ASSUME EngineTypes, StoreTypes, PushTypes, TraceTypes,
         NEW t \in Trace, NEW s \in Session, NEW request \in TraceRequest, CmdTrace(t, s, request)
  PROVE  Began(trace'[t], trace[t]) /\ \A u \in Trace : u # t => trace'[u] = trace[u]
<1>1. PICK r, x, after : /\ after \in 0 .. lastId
                         /\ Asked(r, s, request, after) /\ Begun(x, r)
                         /\ trace' = [trace EXCEPT ![t] = x]
  BY CmdTraceIs
<1>2. trace[t] = NoTrace
  BY DEF CmdTrace
<1>3. trace'[t] = x /\ \A u \in Trace : u # t => trace'[u] = trace[u]
  BY <1>1, OnlyIs
<1>4. Began(x, trace[t])
  BY <1>1, <1>2 DEF Began
<1>. QED BY <1>3, <1>4

LEMMA TraceStep ==
  ASSUME Types, Next, NEW t \in Trace
  PROVE  StepOf(trace'[t], trace[t])
<1>. USE DEF Types
<1>1. ASSUME NEW p \in PushRequest, PushMem(p) PROVE StepOf(trace'[t], trace[t])
  <2>1. PICK e : e = [id |-> lastId + 1, kind |-> "live"]
    OBVIOUS
  <2>2. e \in Event /\ e.kind \in {"live", "delta"}
    <3>1. lastId + 1 \in Nat /\ "live" \in {"live", "delta"}
      BY DEF EngineTypes
    <3>. QED BY <2>1, <3>1, EventIs
  <2>3. trace' = DisperseToSubs(trace, p.uri, e)
    BY <1>1, <2>1 DEF PushMem, Pushed
  <2>4. Comes(e)
    <3>1. lastId' = lastId + 1 + 1 \/ lastId' = lastId + 1
      BY <1>1 DEF PushMem
    <3>2. engine = "mem" /\ e.id = lastId + 1 /\ lastId \in Nat
      BY <1>1, <2>1 DEF PushMem, EngineTypes
    <3>. QED BY <3>1, <3>2 DEF Comes
  <2>. QED BY <2>2, <2>3, <2>4, GivenIs DEF StepOf
<1>2. ASSUME NEW p \in PushRequest, EnqueueDb(p) PROVE StepOf(trace'[t], trace[t])
  BY <1>2 DEF EnqueueDb, StepOf
<1>3. ASSUME NEW i \in DOMAIN push, Insert(i) PROVE StepOf(trace'[t], trace[t])
  BY <1>3 DEF Insert, StepOf
<1>4. ASSUME NEW i \in DOMAIN push, InsertFails(i) PROVE StepOf(trace'[t], trace[t])
  BY <1>4 DEF InsertFails, StepOf
<1>5. ASSUME NEW i \in DOMAIN push, Disperse(i) PROVE StepOf(trace'[t], trace[t])
  <2>1. PICK e : e = [id |-> push[i].id, kind |-> "live"]
    OBVIOUS
  <2>2. e \in Event /\ e.kind \in {"live", "delta"}
    <3>1. push[i].id \in Nat /\ "live" \in {"live", "delta"}
      BY PushTyped DEF EngineTypes
    <3>. QED BY <2>1, <3>1, EventIs
  <2>3. trace' = DisperseToSubs(trace, push[i].uri, e)
    BY <1>5, <2>1 DEF Disperse
  <2>4. Comes(e)
    BY <1>5, <2>1 DEF Comes
  <2>. QED BY <2>2, <2>3, <2>4, GivenIs DEF StepOf
<1>6. ASSUME NEW i \in DOMAIN push, StoreDb(i) PROVE StepOf(trace'[t], trace[t])
  <2>1. PICK e : e = [id |-> push[i].id, kind |-> "delta"]
    OBVIOUS
  <2>2. e \in Event /\ e.kind \in {"live", "delta"}
    <3>1. push[i].id \in Nat /\ "delta" \in {"live", "delta"}
      BY PushTyped DEF EngineTypes
    <3>. QED BY <2>1, <3>1, EventIs
  <2>3. trace' = trace \/ trace' = DisperseToSubs(trace, push[i].uri, e)
    BY <1>6, <2>1 DEF StoreDb
  <2>4. Comes(e)
    BY <2>1 DEF Comes
  <2>. QED BY <2>2, <2>3, <2>4, GivenIs DEF StepOf
<1>7. ASSUME NEW i \in DOMAIN push, ResolveRetainedEventWaiters(i) PROVE StepOf(trace'[t], trace[t])
  BY <1>7, ResolveIs DEF StepOf
<1>8. ASSUME NEW u \in Trace, NEW s \in Session, NEW request \in TraceRequest, CmdTrace(u, s, request)
      PROVE  StepOf(trace'[t], trace[t])
  BY <1>8, CmdTraceBegan DEF StepOf
<1>9. ASSUME NEW u \in Trace, Replay(u) PROVE StepOf(trace'[t], trace[t])
  BY <1>9, SelectHistoryIs, HistoryDoneIs, SnapshotRetainedIs, SelectRetainedIs, SnapshotDoneIs DEF Replay, StepOf
<1>10. ASSUME NEW u \in Trace, Timeout(u) \/ CmdUnTrace(u) PROVE StepOf(trace'[t], trace[t])
  BY <1>10, TimeoutIs, CmdUnTraceIs DEF StepOf
<1>11. ASSUME NEW s \in Session, LeaveSession(s) PROVE StepOf(trace'[t], trace[t])
  BY <1>11, LeaveSessionIs DEF StepOf
<1>12. ASSUME Restart PROVE StepOf(trace'[t], trace[t])
  BY <1>12 DEF Restart, StepOf
<1>. QED BY <1>1, <1>2, <1>3, <1>4, <1>5, <1>6, <1>7, <1>8, <1>9, <1>10, <1>11, <1>12 DEF Next

LEMMA StepTyped ==
  ASSUME EngineTypes, NEW r \in TraceType, Once(r), r.after \in 0 .. lastId, NEW x, StepOf(x, r)
  PROVE  x \in TraceType /\ Once(x) /\ x.after \in 0 .. lastId
<1>1. CASE Began(x, r)
  <2>1. PICK s, request, after, q :
          after \in 0 .. lastId /\ Asked(q, s, request, after) /\ Begun(x, q)
    BY <1>1 DEF Began
  <2>. QED BY <2>1 DEF Asked, Begun, Is
<1>2. CASE x = NoTrace
  BY <1>2, NoTraceTyped DEF NoTrace, EngineTypes
<1>3. CASE \E uri, e : e \in Event /\ e.kind \in {"live", "delta"} /\ Comes(e) /\ Given(x, r, uri, e)
  BY <1>3 DEF Given, Is
<1>4. CASE Woken(x, r) \/ TimedOut(x, r) \/ Selected(x, r) \/ DoneHistory(x, r)
  BY <1>4 DEF Woken, TimedOut, Selected, DoneHistory, Is
<1>5. CASE Looked(x, r) \/ Shown(x, r) \/ Finished(x, r) \/ Ended(x, r)
  BY <1>5 DEF Looked, Shown, Finished, Ended, Is
<1>. QED BY <1>1, <1>2, <1>3, <1>4, <1>5 DEF StepOf

LEMMA TraceDomain ==
  ASSUME Types, Next
  PROVE  DOMAIN trace' = Trace /\ trace' = [t \in Trace |-> trace'[t]]
<1>. USE DEF Types
<1>1. ASSUME NEW p \in PushRequest, PushMem(p) \/ EnqueueDb(p) PROVE trace' = [t \in Trace |-> trace'[t]]
  BY <1>1 DEF PushMem, EnqueueDb, DisperseToSubs, TraceTypes
<1>2. ASSUME NEW i \in DOMAIN push,
             Insert(i) \/ InsertFails(i) \/ Disperse(i) \/ StoreDb(i) \/ ResolveRetainedEventWaiters(i)
      PROVE  trace' = [t \in Trace |-> trace'[t]]
  BY <1>2 DEF Insert, InsertFails, Disperse, StoreDb, ResolveRetainedEventWaiters, DisperseToSubs, TraceTypes
<1>3. ASSUME NEW t \in Trace, NEW s \in Session, NEW request \in TraceRequest, CmdTrace(t, s, request)
      PROVE  trace' = [u \in Trace |-> trace'[u]]
  BY <1>3, CmdTraceIs DEF TraceTypes
<1>4. ASSUME NEW t \in Trace, Replay(t) \/ Timeout(t) \/ CmdUnTrace(t)
      PROVE  trace' = [u \in Trace |-> trace'[u]]
  <2>1. \E x : trace' = [trace EXCEPT ![t] = x]
    <3>1. CASE Replay(t) \/ CmdUnTrace(t)
      BY <1>4, <3>1 DEF Replay, SelectHistory, HistoryDone, SnapshotRetained, SelectRetained, SnapshotDone,
                   CmdUnTrace, Continue
    <3>2. CASE Timeout(t)
      <4>1. trace' = [trace EXCEPT ![t] = [trace[t] EXCEPT !.replay = "done"]]
        BY <3>2 DEF Timeout, TraceTypes
      <4>. QED BY <4>1
    <3>. QED BY <1>4, <3>1, <3>2
  <2>. QED BY <2>1 DEF TraceTypes
<1>5. ASSUME NEW s \in Session, LeaveSession(s) PROVE trace' = [t \in Trace |-> trace'[t]]
  BY <1>5 DEF LeaveSession
<1>6. ASSUME Restart PROVE trace' = [t \in Trace |-> trace'[t]]
  BY <1>6 DEF Restart
<1>. QED BY <1>1, <1>2, <1>3, <1>4, <1>5, <1>6 DEF Next

(* Ids only grow. *)
LEMMA IdsGrow ==
  ASSUME Types, Next
  PROVE  lastId' \in Nat /\ lastId' >= lastId
<1>1. lastId \in Nat
  BY DEF Types, EngineTypes
<1>2. \/ lastId' = lastId \/ lastId' = lastId + 1 \/ lastId' = lastId + 2
  <2>1. ASSUME NEW p \in PushRequest, PushMem(p) PROVE lastId' = lastId + 1 \/ lastId' = lastId + 2
    <3>1. lastId' = lastId + 1 + 1 \/ lastId' = lastId + 1
      BY <2>1 DEF PushMem
    <3>. QED BY <1>1, <3>1
  <2>2. ASSUME NEW i \in DOMAIN push,
             Insert(i) \/ InsertFails(i) \/ Disperse(i) \/ StoreDb(i) \/ ResolveRetainedEventWaiters(i)
        PROVE lastId' = lastId \/ lastId' = lastId + 1
    BY <2>2 DEF Insert, InsertFails, Disperse, StoreDb, ResolveRetainedEventWaiters
  <2>3. CASE (\E p \in PushRequest : EnqueueDb(p)) \/ (\E s \in Session : LeaveSession(s)) \/ Restart
    BY <2>3 DEF EnqueueDb, LeaveSession, Restart
  <2>4. ASSUME NEW t \in Trace, (\E s \in Session, r \in TraceRequest : CmdTrace(t, s, r))
                                \/ Replay(t) \/ Timeout(t) \/ CmdUnTrace(t)
        PROVE lastId' = lastId
    BY <2>4 DEF CmdTrace, Replay, SelectHistory, HistoryDone, SnapshotRetained, SelectRetained, SnapshotDone,
                   CmdUnTrace, Continue, Timeout
  <2>. QED BY <2>1, <2>2, <2>3, <2>4 DEF Next
<1>. QED BY <1>1, <1>2

LEMMA TraceTypesStep ==
  ASSUME Types, Next
  PROVE  TraceTypes'
<1>1. ASSUME NEW t \in Trace
      PROVE  trace'[t] \in TraceType /\ Once(trace'[t]) /\ trace'[t].after <= lastId'
  <2>1. trace'[t] \in TraceType /\ Once(trace'[t]) /\ trace'[t].after \in 0 .. lastId
    BY TraceStep, TraceTyped, StepTyped DEF Types
  <2>2. lastId \in Nat
    BY DEF Types, EngineTypes
  <2>. QED BY <2>1, <2>2, IdsGrow
<1>2. trace' \in [Trace -> TraceType]
  BY <1>1, TraceDomain
<1>. QED BY <1>1, <1>2 DEF TraceTypes

-----------------------------------------------------------------------------
(* What a step makes of the pushes.                                        *)
Same(x, q, id, pc) ==
  /\ x \in PushType
  /\ x.uri = q.uri /\ x.trace = q.trace /\ x.retain = q.retain
  /\ x.id = id /\ x.pc = pc
Moved(i, id, pc) ==
  /\ push' \in Seq(PushType) /\ Len(push') = Len(push)
  /\ Same(push'[i], push[i], id, pc)
  /\ \A j \in DOMAIN push : j # i => push'[j] = push[j]
Grown(p, id, pc) ==
  /\ push' \in Seq(PushType) /\ Len(push') = Len(push) + 1
  /\ Same(push'[Len(push) + 1], p, id, pc)
  /\ \A j \in DOMAIN push : push'[j] = push[j]

LEMMA PushIndices ==
  ASSUME PushTypes
  PROVE  DOMAIN push = 1 .. Len(push) /\ Len(push) \in Nat /\ push \in Seq(PushType)
  BY LenProperties DEF PushTypes

LEMMA GrownIs ==
  ASSUME PushTypes, NEW p \in PushRequest, NEW id \in Nat,
         NEW pc \in {"queued", "inserted", "dispersed", "stored", "done", "failed"},
         push' = Append(push, Pushed(p, id, pc))
  PROVE  Grown(p, id, pc)
<1>1. PICK x : x = Pushed(p, id, pc)
  OBVIOUS
<1>2. Same(x, p, id, pc)
  BY <1>1, RequestTyped DEF Pushed, Same, PushType
<1>3. x \in PushType
  BY <1>2 DEF Same
<1>4. push' = Append(push, x) /\ push \in Seq(PushType)
  BY <1>1, PushIndices
<1>. QED BY <1>2, <1>3, <1>4, AppendProperties, LenProperties DEF Grown

LEMMA MovedIs ==
  ASSUME PushTypes, NEW i \in DOMAIN push, NEW x, NEW id, NEW pc,
         Same(x, push[i], id, pc), push' = [push EXCEPT ![i] = x]
  PROVE  Moved(i, id, pc)
<1>1. x \in PushType /\ push \in Seq(PushType) /\ i \in 1 .. Len(push)
  BY PushIndices DEF Same
<1>2. push' \in Seq(PushType) /\ Len(push') = Len(push)
  BY <1>1, ExceptSeq
<1>3. push'[i] = x /\ \A j \in DOMAIN push : j # i => push'[j] = push[j]
  BY <1>1
<1>. QED BY <1>2, <1>3 DEF Moved

LEMMA AtIs ==
  ASSUME EngineTypes, PushTypes, NEW i \in DOMAIN push,
         NEW pc \in {"queued", "inserted", "dispersed", "stored", "done", "failed"},
         push' = PushAt(i, pc)
  PROVE  Moved(i, push[i].id, pc)
<1>1. PICK x : x = [push[i] EXCEPT !.pc = pc]
  OBVIOUS
<1>2. push[i] \in PushType
  BY PushTyped
<1>3. Same(x, push[i], push[i].id, pc)
  BY <1>1, <1>2 DEF Same, PushType
<1>4. push' = [push EXCEPT ![i] = x]
  BY <1>1, PushIndices DEF PushAt
<1>. QED BY <1>3, <1>4, MovedIs

LEMMA PushMemIs ==
  ASSUME EngineTypes, PushTypes, NEW p \in PushRequest, PushMem(p)
  PROVE  Grown(p, lastId + 1, IF p.retain = "no" THEN "done" ELSE "stored")
<1>1. lastId + 1 \in Nat
  BY DEF EngineTypes
<1>2. PICK pc : pc = IF p.retain = "no" THEN "done" ELSE "stored"
  OBVIOUS
<1>3. pc \in {"queued", "inserted", "dispersed", "stored", "done", "failed"}
  BY <1>2
<1>4. push' = Append(push, Pushed(p, lastId + 1, pc))
  BY <1>2 DEF PushMem
<1>5. Grown(p, lastId + 1, pc)
  BY <1>1, <1>3, <1>4, GrownIs
<1>. QED BY <1>2, <1>5

LEMMA EnqueueDbIs ==
  ASSUME PushTypes, NEW p \in PushRequest, EnqueueDb(p)
  PROVE  Grown(p, 0, "queued")
<1>1. push' = Append(push, Pushed(p, 0, "queued"))
  BY DEF EnqueueDb, NoId
<1>. QED BY <1>1, GrownIs

LEMMA InsertIs ==
  ASSUME EngineTypes, PushTypes, NEW i \in DOMAIN push, Insert(i)
  PROVE  Moved(i, lastId + 1, "inserted")
<1>1. PICK x : x = [push[i] EXCEPT !.pc = "inserted", !.id = lastId + 1]
  OBVIOUS
<1>2. push[i] \in PushType /\ lastId + 1 \in Nat
  BY PushTyped DEF EngineTypes
<1>3. Same(x, push[i], lastId + 1, "inserted")
  BY <1>1, <1>2 DEF Same, PushType
<1>4. push' = [push EXCEPT ![i] = x]
  BY <1>1, PushIndices DEF Insert
<1>. QED BY <1>3, <1>4, MovedIs

LEMMA RestartIs ==
  ASSUME EngineTypes, PushTypes, Restart
  PROVE  /\ push' \in Seq(PushType) /\ Len(push') = Len(push)
         /\ \A j \in DOMAIN push :
              Same(push'[j], push[j], push[j].id, IF push[j].pc = "done" THEN "done" ELSE "failed")
<1>1. push' = [j \in DOMAIN push |-> IF push[j].pc = "done" THEN push[j] ELSE [push[j] EXCEPT !.pc = "failed"]]
  BY DEF Restart
<1>2. ASSUME NEW j \in DOMAIN push
      PROVE  Same(push'[j], push[j], push[j].id, IF push[j].pc = "done" THEN "done" ELSE "failed")
  <2>1. push[j] \in PushType
    BY PushTyped
  <2>2. CASE push[j].pc = "done"
    BY <1>1, <2>1, <2>2 DEF Same, PushType
  <2>3. CASE push[j].pc # "done"
    <3>1. push'[j] = [push[j] EXCEPT !.pc = "failed"]
      BY <1>1, <2>3
    <3>2. Same(push'[j], push[j], push[j].id, "failed")
      BY <2>1, <3>1 DEF Same, PushType
    <3>. QED BY <2>3, <3>2
  <2>. QED BY <2>2, <2>3
<1>3. DOMAIN push = 1 .. Len(push) /\ Len(push) \in Nat
  BY PushIndices
<1>4. \A j \in 1 .. Len(push) : push'[j] \in PushType
  BY <1>2, <1>3 DEF Same
<1>5. push' = [j \in 1 .. Len(push) |-> push'[j]]
  BY <1>1, <1>3
<1>6. push' \in Seq(PushType) /\ Len(push') = Len(push)
  BY <1>3, <1>4, <1>5
<1>. QED BY <1>2, <1>6

LEMMA PushTypesStep ==
  ASSUME Types, Next
  PROVE  PushTypes'
<1>. USE DEF Types
<1>1. DOMAIN push = 1 .. Len(push) /\ Len(push) \in Nat /\ push \in Seq(PushType)
  BY PushIndices
<1>2. lastId \in Nat /\ lastId' \in Nat /\ lastId' >= lastId
  BY IdsGrow DEF EngineTypes
<1>3. \A j \in DOMAIN push : push[j].id <= lastId'
  BY <1>2, PushTyped
<1>4. ASSUME push' = push PROVE PushTypes'
  BY <1>1, <1>3, <1>4 DEF PushTypes
<1>5. ASSUME NEW p, NEW id \in Nat, NEW pc, Grown(p, id, pc), id <= lastId' PROVE PushTypes'
  <2>1. push' \in Seq(PushType) /\ DOMAIN push' = 1 .. Len(push) + 1
    BY <1>1, <1>5, LenProperties DEF Grown
  <2>2. ASSUME NEW j \in DOMAIN push' PROVE push'[j].id <= lastId'
    <3>1. CASE j \in DOMAIN push
      BY <1>3, <1>5, <3>1 DEF Grown
    <3>2. CASE j = Len(push) + 1
      BY <1>5, <3>2 DEF Grown, Same
    <3>. QED BY <1>1, <2>1, <3>1, <3>2
  <2>. QED BY <2>1, <2>2 DEF PushTypes
<1>6. ASSUME NEW i \in DOMAIN push, NEW id \in Nat, NEW pc, Moved(i, id, pc), id <= lastId' PROVE PushTypes'
  <2>1. push' \in Seq(PushType) /\ DOMAIN push' = DOMAIN push
    BY <1>1, <1>6, LenProperties DEF Moved
  <2>2. ASSUME NEW j \in DOMAIN push' PROVE push'[j].id <= lastId'
    BY <1>3, <1>6, <2>1 DEF Moved, Same
  <2>. QED BY <2>1, <2>2 DEF PushTypes
<1>7. ASSUME NEW p \in PushRequest, PushMem(p) PROVE PushTypes'
  <2>1. lastId' >= lastId + 1 /\ lastId + 1 \in Nat
    <3>1. lastId' = lastId + 1 + 1 \/ lastId' = lastId + 1
      BY <1>7 DEF PushMem
    <3>. QED BY <1>2, <3>1
  <2>. QED BY <1>2, <1>5, <1>7, <2>1, PushMemIs
<1>8. ASSUME NEW p \in PushRequest, EnqueueDb(p) PROVE PushTypes'
  BY <1>2, <1>5, <1>8, EnqueueDbIs
<1>9. ASSUME NEW i \in DOMAIN push, Insert(i) PROVE PushTypes'
  <2>1. lastId' = lastId + 1 /\ lastId + 1 \in Nat
    BY <1>2, <1>9 DEF Insert
  <2>. QED BY <1>2, <1>6, <1>9, <2>1, InsertIs
<1>10. ASSUME NEW i \in DOMAIN push, InsertFails(i) \/ Disperse(i) \/ StoreDb(i) \/ ResolveRetainedEventWaiters(i)
       PROVE  PushTypes'
  <2>1. \E pc \in {"queued", "inserted", "dispersed", "stored", "done", "failed"} : push' = PushAt(i, pc)
    BY <1>10 DEF InsertFails, Disperse, StoreDb, ResolveRetainedEventWaiters
  <2>2. \E pc : Moved(i, push[i].id, pc)
    BY <2>1, AtIs
  <2>3. push[i].id \in Nat /\ push[i].id <= lastId'
    BY <1>2, <1>3, PushTyped
  <2>. QED BY <1>6, <2>2, <2>3
<1>11. ASSUME NEW t \in Trace, (\E s \in Session, r \in TraceRequest : CmdTrace(t, s, r))
                                \/ Replay(t) \/ Timeout(t) \/ CmdUnTrace(t)
       PROVE PushTypes'
  BY <1>4, <1>11 DEF CmdTrace, Replay, SelectHistory, HistoryDone, SnapshotRetained, SelectRetained, SnapshotDone,
                   CmdUnTrace, Continue, Timeout
<1>12. ASSUME NEW s \in Session, LeaveSession(s) PROVE PushTypes'
  BY <1>4, <1>12 DEF LeaveSession
<1>13. ASSUME Restart PROVE PushTypes'
  <2>1. push' \in Seq(PushType) /\ DOMAIN push' = DOMAIN push
    BY <1>1, <1>13, RestartIs, LenProperties
  <2>2. \A j \in DOMAIN push' : push'[j].id <= lastId'
    BY <1>3, <1>13, <2>1, RestartIs DEF Same
  <2>. QED BY <2>1, <2>2 DEF PushTypes
<1>. QED BY <1>7, <1>8, <1>9, <1>10, <1>11, <1>12, <1>13 DEF Next

LEMMA SeqOfMore ==
  ASSUME NEW S, NEW T, \A x \in S : x \in T, NEW s \in Seq(S)
  PROVE  s \in Seq(T)
<1>1. Len(s) \in Nat /\ s \in [1 .. Len(s) -> S]
  BY LenProperties
<1>2. PICK n : n = Len(s)
  OBVIOUS
<1>3. \A i \in 1 .. n : s[i] \in T
  BY <1>1, <1>2
<1>4. s \in [1 .. n -> T]
  BY <1>1, <1>2, <1>3
<1>. QED BY <1>1, <1>2, <1>4

(* Rows and values stay; the push that is under way adds its own.          *)
LEMMA StoreStays ==
  ASSUME StoreTypes, lastId \in Nat, lastId' \in Nat, lastId' >= lastId
  PROVE  history \in Seq([id : 1 .. lastId', uri : Topic]) /\ kv \in [Topic -> 0 .. lastId']
<1>1. ASSUME NEW x \in [id : 1 .. lastId, uri : Topic] PROVE x \in [id : 1 .. lastId', uri : Topic]
  <2>1. x.id \in 1 .. lastId /\ x.uri \in Topic /\ x = [id |-> x.id, uri |-> x.uri]
    OBVIOUS
  <2>2. x.id \in 1 .. lastId'
    BY <2>1
  <2>. QED BY <2>1, <2>2
<1>2. history \in Seq([id : 1 .. lastId', uri : Topic])
  BY <1>1, SeqOfMore DEF StoreTypes
<1>3. \A u \in Topic : kv[u] \in 0 .. lastId'
  <2>1. \A u \in Topic : kv[u] \in 0 .. lastId
    BY DEF StoreTypes
  <2>. QED BY <2>1
<1>4. kv \in [Topic -> 0 .. lastId']
  BY <1>3 DEF StoreTypes
<1>. QED BY <1>2, <1>4

LEMMA HistoryGrows ==
  ASSUME StoreTypes, lastId \in Nat, lastId' \in Nat, lastId' >= lastId,
         NEW p, p.uri \in Topic, NEW id \in 1 .. lastId', SaveHistory(p, id)
  PROVE  history' \in Seq([id : 1 .. lastId', uri : Topic])
<1>3. history \in Seq([id : 1 .. lastId', uri : Topic])
  BY StoreStays
<1>4. [id |-> id, uri |-> p.uri] \in [id : 1 .. lastId', uri : Topic]
  OBVIOUS
<1>. QED BY <1>3, <1>4, AppendProperties DEF SaveHistory

LEMMA StoreTypesStep ==
  ASSUME Types, Next
  PROVE  StoreTypes'
<1>. USE DEF Types
<1>1. lastId \in Nat /\ lastId' \in Nat /\ lastId' >= lastId
  BY IdsGrow DEF EngineTypes
<1>2. history \in Seq([id : 1 .. lastId', uri : Topic]) /\ kv \in [Topic -> 0 .. lastId']
  BY <1>1, StoreStays
<1>3. ASSUME NEW p, p.uri \in Topic, NEW id \in 1 .. lastId', SaveHistory(p, id), kv' = kv PROVE StoreTypes'
  BY <1>1, <1>2, <1>3, HistoryGrows DEF StoreTypes
<1>4. ASSUME NEW p \in PushRequest, PushMem(p) PROVE StoreTypes'
  <2>1. lastId + 1 \in 1 .. lastId'
    <3>1. lastId' = lastId + 1 + 1 \/ lastId' = lastId + 1
      BY <1>4 DEF PushMem
    <3>. QED BY <1>1, <3>1
  <2>2. p.uri \in Topic
    BY RequestTyped
  <2>3. SaveHistory(p, lastId + 1)
    BY <1>4 DEF PushMem
  <2>4. kv' = IF p.retain = "set" THEN [kv EXCEPT ![p.uri] = lastId + 1] ELSE kv
    BY <1>4 DEF PushMem, StoreValue, Pushed
  <2>5. kv' \in [Topic -> 0 .. lastId']
    <3>1. lastId + 1 \in 0 .. lastId' /\ kv \in [Topic -> 0 .. lastId']
      BY <1>1, <1>2, <2>1
    <3>. QED BY <2>4, <3>1
  <2>6. history' \in Seq([id : 1 .. lastId', uri : Topic])
    BY <1>1, <2>1, <2>2, <2>3, HistoryGrows
  <2>. QED BY <2>5, <2>6 DEF StoreTypes
<1>5. ASSUME NEW i \in DOMAIN push, Insert(i) PROVE StoreTypes'
  <2>1. lastId + 1 \in 1 .. lastId' /\ SaveHistory(push[i], lastId + 1) /\ kv' = kv
    BY <1>1, <1>5 DEF Insert
  <2>2. push[i].uri \in Topic
    BY PushTyped DEF PushType
  <2>. QED BY <1>3, <2>1, <2>2
<1>6. ASSUME NEW i \in DOMAIN push, StoreDb(i) PROVE StoreTypes'
  <2>1. history' = history /\ kv' = IF push[i].retain = "set" THEN [kv EXCEPT ![push[i].uri] = push[i].id] ELSE kv
    BY <1>6 DEF StoreDb, StoreValue
  <2>2. push[i].id \in 0 .. lastId'
    BY <1>1, PushTyped
  <2>3. kv' \in [Topic -> 0 .. lastId']
    BY <1>2, <2>1, <2>2
  <2>. QED BY <1>2, <2>1, <2>3 DEF StoreTypes
<1>7. ASSUME history' = history, kv' = kv PROVE StoreTypes'
  BY <1>2, <1>7 DEF StoreTypes
<1>8. ASSUME NEW i \in DOMAIN push, InsertFails(i) \/ Disperse(i) \/ ResolveRetainedEventWaiters(i)
       PROVE  StoreTypes'
  BY <1>7, <1>8 DEF InsertFails, Disperse, ResolveRetainedEventWaiters
<1>9. ASSUME NEW t \in Trace, (\E s \in Session, r \in TraceRequest : CmdTrace(t, s, r))
                                \/ Replay(t) \/ Timeout(t) \/ CmdUnTrace(t)
       PROVE StoreTypes'
  BY <1>7, <1>9 DEF CmdTrace, Replay, SelectHistory, HistoryDone, SnapshotRetained, SelectRetained, SnapshotDone,
                   CmdUnTrace, Continue, Timeout
<1>10. CASE (\E p \in PushRequest : EnqueueDb(p)) \/ (\E s \in Session : LeaveSession(s)) \/ Restart
  BY <1>7, <1>10 DEF EnqueueDb, LeaveSession, Restart
<1>. QED BY <1>4, <1>5, <1>6, <1>8, <1>9, <1>10 DEF Next

LEMMA EngineTypesStep ==
  ASSUME Types, Next
  PROVE  EngineTypes'
<1>. USE DEF Types
<1>1. lastId \in Nat /\ lastId' \in Nat /\ lastId' >= lastId /\ committed \in 0 .. lastId
  BY IdsGrow DEF EngineTypes
<1>2. committed \in 0 .. lastId'
  BY <1>1
<1>3. ASSUME engine' = engine, committed' \in 0 .. lastId', left' = left, restarts' = restarts
      PROVE  EngineTypes'
  BY <1>1, <1>3 DEF EngineTypes
<1>4. ASSUME NEW p \in PushRequest, PushMem(p) \/ EnqueueDb(p) PROVE EngineTypes'
  BY <1>2, <1>3, <1>4 DEF PushMem, EnqueueDb
<1>5. ASSUME NEW i \in DOMAIN push, Insert(i) \/ InsertFails(i) \/ Disperse(i) \/ StoreDb(i) PROVE EngineTypes'
  BY <1>2, <1>3, <1>5 DEF Insert, InsertFails, Disperse, StoreDb
<1>6. ASSUME NEW i \in DOMAIN push, ResolveRetainedEventWaiters(i) PROVE EngineTypes'
  <2>1. push[i].id \in 0 .. lastId'
    BY <1>1, PushTyped
  <2>. QED BY <1>3, <1>6, <2>1 DEF ResolveRetainedEventWaiters
<1>7. ASSUME NEW t \in Trace, (\E s \in Session, r \in TraceRequest : CmdTrace(t, s, r))
                                \/ Replay(t) \/ Timeout(t) \/ CmdUnTrace(t)
      PROVE EngineTypes'
  BY <1>2, <1>3, <1>7 DEF CmdTrace, Replay, SelectHistory, HistoryDone, SnapshotRetained, SelectRetained,
                   SnapshotDone, CmdUnTrace, Continue, Timeout
<1>8. ASSUME NEW s \in Session, LeaveSession(s) PROVE EngineTypes'
  BY <1>1, <1>2, <1>8 DEF LeaveSession, EngineTypes
<1>9. ASSUME Restart PROVE EngineTypes'
  <2>1. restarts \in Nat /\ restarts' = restarts + 1 /\ restarts' <= MaxRestart
    BY <1>9, Bounds DEF Restart, EngineTypes
  <2>2. engine' = engine /\ committed' = 0 /\ left' = {}
    BY <1>9 DEF Restart
  <2>. QED BY <1>1, <2>1, <2>2, Bounds DEF EngineTypes
<1>. QED BY <1>4, <1>5, <1>6, <1>7, <1>8, <1>9 DEF Next

LEMMA InitTypes == Init => Types
<1>. SUFFICES ASSUME Init PROVE Types
  OBVIOUS
<1>1. lastId \in Nat
  BY Bounds DEF Init
<1>2. EngineTypes
  BY <1>1, Bounds DEF Init, EngineTypes
<1>3. PushTypes
  <2>1. push = <<>> /\ <<>> \in Seq(PushType)
    BY DEF Init
  <2>. QED BY <2>1 DEF PushTypes
<1>4. StoreTypes
  <2>1. history = <<>> /\ <<>> \in Seq([id : 1 .. lastId, uri : Topic])
    BY DEF Init
  <2>. QED BY <1>1, <2>1 DEF Init, StoreTypes
<1>5. TraceTypes
  <2>1. NoTrace.after = 0
    BY DEF NoTrace
  <2>. QED BY <1>1, <2>1, NoTraceTyped DEF Init, TraceTypes
<1>. QED BY <1>2, <1>3, <1>4, <1>5 DEF Types

LEMMA TypesStep == Types /\ [Next]_vars => Types'
<1>. SUFFICES ASSUME Types, [Next]_vars PROVE Types'
  OBVIOUS
<1>1. CASE Next
  BY <1>1, EngineTypesStep, PushTypesStep, StoreTypesStep, TraceTypesStep DEF Types
<1>2. CASE UNCHANGED vars
  BY <1>2 DEF vars, Types, EngineTypes, PushTypes, StoreTypes, TraceTypes
<1>. QED BY <1>1, <1>2

LEMMA TypesAlways == Spec => []Types
  BY InitTypes, TypesStep, PTL DEF Spec

LEMMA TypesGive == Types => TypeOK
<1>. SUFFICES ASSUME Types PROVE TypeOK
  OBVIOUS
<1>1. \A i \in DOMAIN push : push[i].pc \in {"queued", "inserted", "dispersed", "stored", "done", "failed"}
  BY PushTyped DEF Types, PushType
<1>2. \A t \in Trace : trace[t] \in TraceType
  BY TraceTyped DEF Types
<1>3. ASSUME NEW t \in Trace
      PROVE  /\ trace[t].delayed \in Seq(Event) /\ trace[t].got \in Seq(Event)
             /\ trace[t].history \in {"none", "select", "sent", "done"}
             /\ trace[t].replay \in {"none", "history", "wait", "reached", "done", "over"}
             /\ trace[t].ends \in 0 .. 1
  BY <1>2 DEF TraceType
<1>. QED BY <1>1, <1>3 DEF Types, EngineTypes, StoreTypes, TypeOK

(* Every variable keeps its type, and every subscription is ended at most  *)
(* once: by its client, or because it was a snapshot.                      *)
THEOREM TypeCorrect == Spec => []TypeOK
  BY TypesAlways, TypesGive, PTL

-----------------------------------------------------------------------------
(* After its end a subscription gets nothing.                              *)
LEMMA StepIsSilent ==
  ASSUME NEW x, NEW r \in TraceType, StepOf(x, r), Over(r), Over(x)
  PROVE  x.got = r.got
<1>1. r.active = FALSE /\ r.history # "none"
  BY DEF Over, TraceType
<1>2. ~Began(x, r) /\ x # NoTrace
  BY <1>1 DEF Began, NoTrace, Over
<1>3. CASE \E uri, e : e \in Event /\ e.kind \in {"live", "delta"} /\ Comes(e) /\ Given(x, r, uri, e)
  BY <1>1, <1>3 DEF Given, Is, GotOf, Reaches
<1>4. CASE Woken(x, r) \/ TimedOut(x, r) \/ Selected(x, r) \/ DoneHistory(x, r)
  BY <1>1, <1>4 DEF Woken, TimedOut, Selected, DoneHistory, Is, Sent, Flushed
<1>5. CASE Looked(x, r) \/ Shown(x, r) \/ Finished(x, r) \/ Ended(x, r)
  BY <1>1, <1>5 DEF Looked, Shown, Finished, Ended, Is, Sent
<1>. QED BY <1>2, <1>3, <1>4, <1>5 DEF StepOf

(* A subscription that is over is sent nothing more, whatever of its       *)
(* replay is still under way and whatever is pushed.                       *)
THEOREM ClosedIsSilentCorrect == Spec => ClosedIsSilent
<1>1. Types /\ [Next]_vars
      => [\A t \in Trace : Over(trace[t]) /\ Over(trace'[t]) => trace'[t].got = trace[t].got]_vars
  <2>. SUFFICES ASSUME Types, Next, NEW t \in Trace, Over(trace[t]), Over(trace'[t])
                PROVE  trace'[t].got = trace[t].got
    OBVIOUS
  <2>1. trace[t] \in TraceType /\ StepOf(trace'[t], trace[t])
    BY TraceTyped, TraceStep DEF Types
  <2>. QED BY <2>1, StepIsSilent
<1>. QED BY <1>1, TypesAlways, PTL DEF Spec, ClosedIsSilent

-----------------------------------------------------------------------------
(* What is sent after what was sent before.                                *)
LEMMA JoinedHas ==
  ASSUME NEW a \in Seq(Event), NEW b \in Seq(Event), NEW k \in DOMAIN (a \o b)
  PROVE  \/ k \in DOMAIN a /\ (a \o b)[k] = a[k]
         \/ \E m \in DOMAIN b : k = Len(a) + m /\ (a \o b)[k] = b[m]
<1>1. /\ Len(a) \in Nat /\ Len(b) \in Nat /\ DOMAIN a = 1 .. Len(a) /\ DOMAIN b = 1 .. Len(b)
      /\ DOMAIN (a \o b) = 1 .. Len(a) + Len(b)
  BY ConcatProperties, LenProperties
<1>2. \A i \in 1 .. Len(a) + Len(b) : (a \o b)[i] = IF i <= Len(a) THEN a[i] ELSE b[i - Len(a)]
  BY ConcatProperties
<1>3. CASE k <= Len(a)
  BY <1>1, <1>2, <1>3
<1>4. CASE ~(k <= Len(a))
  <2>1. k - Len(a) \in DOMAIN b /\ k = Len(a) + (k - Len(a)) /\ (a \o b)[k] = b[k - Len(a)]
    BY <1>1, <1>2, <1>4
  <2>. QED BY <2>1
<1>. QED BY <1>3, <1>4

LEMMA SentHas ==
  ASSUME NEW r \in TraceType, NEW kind \in {"live", "delta", "history", "retained"}, NEW ids \in Seq(Nat),
         NEW g, g = Sent(r, kind, ids), NEW k \in DOMAIN g
  PROVE  \/ k \in DOMAIN r.got /\ g[k] = r.got[k]
         \/ \E m \in 1 .. Len(ids) : k = Len(r.got) + m /\ g[k].kind = kind /\ g[k].id = ids[m]
<1>1. r.got \in Seq(Event) /\ OfKind(kind, ids) \in Seq(Event)
  BY OfKindTyped DEF TraceType
<1>2. DOMAIN OfKind(kind, ids) = 1 .. Len(ids)
  BY <1>1, OfKindTyped, LenProperties
<1>3. CASE g = r.got
  BY <1>3
<1>4. CASE g = r.got \o OfKind(kind, ids)
  <2>1. CASE k \in DOMAIN r.got /\ g[k] = r.got[k]
    BY <2>1
  <2>2. CASE \E m \in DOMAIN OfKind(kind, ids) : k = Len(r.got) + m /\ g[k] = OfKind(kind, ids)[m]
    BY <1>2, <2>2, OfKindTyped
  <2>. QED BY <1>1, <1>4, <2>1, <2>2, JoinedHas
<1>. QED BY <1>3, <1>4 DEF Sent

LEMMA AppendedHas ==
  ASSUME NEW a \in Seq(Event), NEW e \in Event, NEW k \in DOMAIN Append(a, e)
  PROVE  \/ k \in DOMAIN a /\ Append(a, e)[k] = a[k]
         \/ k = Len(a) + 1 /\ Append(a, e)[k] = e
<1>1. /\ Len(a) \in Nat /\ DOMAIN a = 1 .. Len(a) /\ DOMAIN Append(a, e) = 1 .. Len(a) + 1
  BY AppendProperties, LenProperties
<1>. QED BY <1>1, AppendProperties

LEMMA FirstGotHas ==
  ASSUME Types, NEW q
  PROVE  /\ FirstGot(q) \in Seq(Event)
         /\ \A k \in DOMAIN FirstGot(q) : FirstGot(q)[k].kind \in {"history", "retained"}
         /\ q.after = 0 => \A k \in DOMAIN FirstGot(q) : FirstGot(q)[k].kind = "retained"
<1>1. ASSUME NEW kind \in {"history", "retained"}, NEW ids \in Seq(Nat)
      PROVE  /\ OfKind(kind, ids) \in Seq(Event)
             /\ \A k \in DOMAIN OfKind(kind, ids) : OfKind(kind, ids)[k].kind = kind
  <2>1. OfKind(kind, ids) \in Seq(Event) /\ DOMAIN OfKind(kind, ids) = 1 .. Len(ids)
    BY OfKindTyped, LenProperties
  <2>. QED BY <2>1, OfKindTyped
<1>2. RetainedRows(q.uri, kv) \in Seq(Nat) /\ HistoryAfter(q) \in Seq(Nat)
  BY RetainedTyped, HistoryTyped DEF Types, EngineTypes
<1>3. <<>> \in Seq(Event) /\ DOMAIN <<>> = {}
  OBVIOUS
<1>4. PICK g, a, b : g = FirstGot(q) /\ a = OfKind("retained", RetainedRows(q.uri, kv))
                     /\ b = OfKind("history", HistoryAfter(q))
  OBVIOUS
<1>5. a \in Seq(Event) /\ \A k \in DOMAIN a : a[k].kind = "retained"
  BY <1>1, <1>2, <1>4
<1>6. b \in Seq(Event) /\ \A k \in DOMAIN b : b[k].kind = "history"
  BY <1>1, <1>2, <1>4
<1>7. (g = <<>> \/ g = a \/ g = b) /\ (q.after = 0 => g = <<>> \/ g = a)
  BY <1>4 DEF FirstGot, HistoryGot
<1>8. g \in Seq(Event)
  BY <1>3, <1>5, <1>6, <1>7
<1>9. \A k \in DOMAIN g : g[k].kind \in {"history", "retained"}
  BY <1>3, <1>5, <1>6, <1>7
<1>10. q.after = 0 => \A k \in DOMAIN g : g[k].kind = "retained"
  BY <1>3, <1>5, <1>7
<1>. QED BY <1>4, <1>8, <1>9, <1>10

-----------------------------------------------------------------------------
(* A snapshot holds back no event, and is sent none but those of the       *)
(* replay.                                                                 *)
Replays(r) ==
  r.snapshot => /\ r.delayed = <<>>
                /\ \A k \in DOMAIN r.got : r.got[k].kind \notin {"live", "delta"}
ReplayInv == \A t \in Trace : Replays(trace[t])

LEMMA StepReplays ==
  ASSUME Types, NEW x, NEW r \in TraceType, StepOf(x, r), Replays(r)
  PROVE  Replays(x)
<1>1. r.got \in Seq(Event) /\ \A s \in Seq(Event) : s \o <<>> = s
  BY ConcatEmptySeq DEF TraceType
<1>2. CASE x = NoTrace
  BY <1>2 DEF NoTrace, Replays
<1>3. CASE Began(x, r)
  <2>1. PICK q : Begun(x, q)
    BY <1>3 DEF Began
  <2>2. x.got = FirstGot(q) /\ x.delayed = <<>>
    BY <2>1 DEF Begun, Is
  <2>. QED BY <2>2, FirstGotHas DEF Replays
<1>4. ASSUME NEW uri, NEW e, Given(x, r, uri, e) PROVE Replays(x)
  BY <1>4 DEF Given, Is, GotOf, DelayedOf, Reaches, Wants, Replays
<1>5. CASE Woken(x, r) \/ TimedOut(x, r) \/ Ended(x, r)
  BY <1>5 DEF Woken, TimedOut, Ended, Is, Replays
<1>6. CASE DoneHistory(x, r) \/ Finished(x, r)
  <2>1. r.snapshot => (x.got = r.got \/ x.got = r.got \o r.delayed)
    BY <1>6 DEF DoneHistory, Finished, Is, Flushed
  <2>2. r.snapshot => x.got = r.got
    BY <1>1, <2>1 DEF Replays
  <2>3. r.snapshot => x.delayed = <<>>
    BY <1>6 DEF DoneHistory, Finished, Is, Replays
  <2>4. x.snapshot = r.snapshot
    BY <1>6 DEF DoneHistory, Finished, Is
  <2>. QED BY <2>2, <2>3, <2>4 DEF Replays
<1>7. ASSUME NEW kind \in {"history", "retained"}, NEW ids \in Seq(Nat), x.got = Sent(r, kind, ids),
             x.snapshot = r.snapshot, x.delayed = r.delayed
      PROVE  Replays(x)
  <2>. SUFFICES ASSUME r.snapshot, NEW k \in DOMAIN x.got PROVE x.got[k].kind \notin {"live", "delta"}
    BY <1>7 DEF Replays
  <2>. QED BY <1>7, SentHas DEF Replays
<1>8. RetainedRows(r.uri, kv) \in Seq(Nat) /\ HistoryAfter(r) \in Seq(Nat)
  BY RetainedTyped, HistoryTyped DEF Types, EngineTypes
<1>9. CASE Selected(x, r)
  <2>1. x.got = Sent(r, "history", HistoryAfter(r)) /\ x.snapshot = r.snapshot /\ x.delayed = r.delayed
    BY <1>9 DEF Selected, Is
  <2>. QED BY <1>7, <1>8, <2>1
<1>10. CASE Looked(x, r) \/ Shown(x, r)
  <2>1. x.snapshot = r.snapshot /\ x.delayed = r.delayed
    BY <1>10 DEF Looked, Shown, Is
  <2>2. x.got = Sent(r, "retained", RetainedRows(r.uri, kv)) \/ x.got = r.got
    BY <1>10 DEF Looked, Shown, Is
  <2>3. CASE x.got = r.got
    BY <2>1, <2>3 DEF Replays
  <2>4. CASE x.got = Sent(r, "retained", RetainedRows(r.uri, kv))
    BY <1>7, <1>8, <2>1, <2>4
  <2>. QED BY <2>2, <2>3, <2>4
<1>. QED BY <1>2, <1>3, <1>4, <1>5, <1>6, <1>9, <1>10 DEF StepOf

(* A snapshot is sent the history and the retained values, and no event    *)
(* that is pushed while they are read.                                     *)
THEOREM SnapshotReplayOnlyCorrect == Spec => []SnapshotReplayOnly
<1>1. Init => ReplayInv
  BY DEF Init, NoTrace, ReplayInv, Replays
<1>2. Types /\ ReplayInv /\ [Next]_vars => ReplayInv'
  <2>. SUFFICES ASSUME Types, ReplayInv, [Next]_vars, NEW t \in Trace PROVE Replays(trace'[t])
    BY DEF ReplayInv
  <2>1. CASE Next
    BY <2>1, TraceTyped, TraceStep, StepReplays DEF Types, ReplayInv
  <2>2. CASE UNCHANGED vars
    BY <2>2 DEF vars, ReplayInv
  <2>. QED BY <2>1, <2>2
<1>3. ReplayInv => SnapshotReplayOnly
  BY DEF ReplayInv, Replays, SnapshotReplayOnly
<1>. QED BY <1>1, <1>2, <1>3, TypesAlways, PTL DEF Spec

-----------------------------------------------------------------------------
(* Who waits, waits for an event that is not committed yet; only a         *)
(* snapshot comes to wait after its history.                               *)
Waits(r) ==
  /\ r.replay = "history" => r.snapshot
  /\ r.replay = "wait" => committed < r.after /\ (r.snapshot \/ r.active)
WaitInv == \A t \in Trace : Waits(trace[t])

LEMMA ReplayedIs ==
  ASSUME EngineTypes, NEW r, r.after \in Nat
  PROVE  /\ Replayed(r) \in {"done", "reached", "wait"}
         /\ Replayed(r) = "wait" => committed < r.after
         /\ Replayed(r) = "reached" /\ r.after # 0 => committed >= r.after
<1>1. committed \in Nat
  BY DEF EngineTypes
<1>. QED BY <1>1 DEF Replayed, Reached

LEMMA StepWaits ==
  ASSUME EngineTypes, NEW x, NEW r \in TraceType, StepOf(x, r), Waits(r)
  PROVE  Waits(x)
<1>1. CASE x = NoTrace
  BY <1>1 DEF NoTrace, Waits
<1>2. CASE Began(x, r)
  <2>1. PICK s, request, after, q :
          after \in 0 .. lastId /\ Asked(q, s, request, after) /\ Begun(x, q)
    BY <1>2 DEF Began
  <2>2. q.after \in Nat
    BY <2>1 DEF Asked, TraceType
  <2>3. /\ x.active = TRUE /\ x.after = q.after /\ x.snapshot = q.snapshot
        /\ x.replay = IF q.snapshot THEN "history" ELSE Replayed(q)
    BY <2>1 DEF Begun, Is
  <2>. QED BY <2>2, <2>3, ReplayedIs DEF Waits
<1>3. CASE \E uri, e : e \in Event /\ e.kind \in {"live", "delta"} /\ Comes(e) /\ Given(x, r, uri, e)
  BY <1>3 DEF Given, Is, Waits
<1>4. CASE Woken(x, r) \/ TimedOut(x, r) \/ Shown(x, r) \/ Finished(x, r) \/ Ended(x, r)
  BY <1>4 DEF Woken, TimedOut, Shown, Finished, Ended, Is, Waits
<1>5. CASE Selected(x, r) \/ DoneHistory(x, r)
  BY <1>5 DEF Selected, DoneHistory, Is, Waits
<1>6. CASE Looked(x, r)
  <2>1. r.snapshot /\ r.after \in Nat
    BY <1>6 DEF Looked, Waits, TraceType
  <2>2. x.snapshot = r.snapshot /\ x.after = r.after /\ x.replay = Replayed(r)
    BY <1>6 DEF Looked, Is
  <2>. QED BY <2>1, <2>2, ReplayedIs DEF Waits
<1>. QED BY <1>1, <1>2, <1>3, <1>4, <1>5, <1>6 DEF StepOf

LEMMA WaitStep ==
  ASSUME Types, WaitInv, Next
  PROVE  WaitInv'
<1>. SUFFICES ASSUME NEW t \in Trace PROVE Waits(trace[t])'
  BY DEF WaitInv
<1>1. trace[t] \in TraceType /\ StepOf(trace'[t], trace[t]) /\ Waits(trace[t])
  BY TraceTyped, TraceStep DEF Types, WaitInv
<1>2. Waits(trace'[t])
  BY <1>1, StepWaits DEF Types
<1>3. ASSUME committed' = committed PROVE Waits(trace[t])'
  BY <1>2, <1>3 DEF Waits
<1>4. ASSUME NEW i \in DOMAIN push, ResolveRetainedEventWaiters(i) PROVE Waits(trace[t])'
  <2>1. trace'[t] = Wake(trace[t], push[i].id) /\ committed' = push[i].id
    BY <1>4 DEF ResolveRetainedEventWaiters
  <2>2. push[i].id \in Nat /\ trace[t].after \in Nat
    BY <1>1, PushTyped DEF Types, EngineTypes, TraceType
  <2>3. CASE trace[t].replay = "wait" /\ push[i].id >= trace[t].after
    <3>1. trace'[t].replay = "reached"
      BY <1>1, <2>1, <2>3 DEF Wake, TraceType
    <3>. QED BY <3>1 DEF Waits
  <2>4. CASE ~(trace[t].replay = "wait" /\ push[i].id >= trace[t].after)
    <3>1. trace'[t] = trace[t]
      BY <2>1, <2>4 DEF Wake
    <3>. QED BY <1>1, <2>1, <2>2, <2>4, <3>1 DEF Waits
  <2>. QED BY <2>3, <2>4
<1>5. CASE Restart
  <2>1. trace'[t] = NoTrace
    BY <1>5 DEF Restart
  <2>. QED BY <2>1 DEF Waits, NoTrace
<1>6. ASSUME NEW i \in DOMAIN push, Insert(i) \/ InsertFails(i) \/ Disperse(i) \/ StoreDb(i)
      PROVE  Waits(trace[t])'
  BY <1>3, <1>6 DEF Insert, InsertFails, Disperse, StoreDb
<1>7. CASE (\E p \in PushRequest : PushMem(p) \/ EnqueueDb(p)) \/ (\E s \in Session : LeaveSession(s))
  BY <1>3, <1>7 DEF PushMem, EnqueueDb, LeaveSession
<1>8. ASSUME NEW u \in Trace, (\E s \in Session, r \in TraceRequest : CmdTrace(u, s, r))
                              \/ Replay(u) \/ Timeout(u) \/ CmdUnTrace(u)
      PROVE  Waits(trace[t])'
  BY <1>3, <1>8 DEF CmdTrace, Replay, SelectHistory, HistoryDone, SnapshotRetained, SelectRetained,
                    SnapshotDone, CmdUnTrace, Continue, Timeout
<1>. QED BY <1>4, <1>5, <1>6, <1>7, <1>8 DEF Next

(* No wake-up is missed: whoever waits for a retained event waits for one  *)
(* that is not committed, and is still subscribed or is a snapshot.        *)
THEOREM WaiterIsLiveCorrect == Spec => []WaiterIsLive
<1>1. Init => WaitInv
  BY DEF Init, NoTrace, WaitInv, Waits
<1>2. Types /\ WaitInv /\ [Next]_vars => WaitInv'
  <2>. SUFFICES ASSUME Types, WaitInv, [Next]_vars PROVE WaitInv'
    OBVIOUS
  <2>1. CASE Next
    BY <2>1, WaitStep
  <2>2. CASE UNCHANGED vars
    BY <2>2 DEF vars, WaitInv, Waits
  <2>. QED BY <2>1, <2>2
<1>3. WaitInv => WaiterIsLive
  BY DEF WaitInv, Waits, WaiterIsLive
<1>. QED BY <1>1, <1>2, <1>3, TypesAlways, PTL DEF Spec

-----------------------------------------------------------------------------
(* Pushes are done one after the other, and what is committed has passed   *)
(* the store.                                                              *)
Settled == {"stored", "done", "failed"}
Serial ==
  /\ \A i \in DOMAIN push : push[i].pc = "queued" => push[i].id = 0
  /\ \A i \in DOMAIN push : push[i].pc \in {"inserted", "dispersed", "stored"} => push[i].id # 0
  /\ engine = "mem" => \A i \in DOMAIN push : push[i].pc \in {"stored", "done"}
  /\ engine = "db" =>
       \A i, j \in DOMAIN push : i < j /\ push[i].pc \notin {"done", "failed"} => push[j].pc = "queued"
PassedTo(n) == \A i \in DOMAIN push : push[i].id \in 1 .. n => push[i].pc \in Settled
SerialInv == Serial /\ PassedTo(committed)

(* Of a push that has an id, a step keeps the id and what it asks for, and *)
(* does not take it back from the store.                                   *)
Onward(j, n) ==
  push'[j].id \in 1 .. n =>
    /\ j \in DOMAIN push /\ push'[j].id = push[j].id /\ push'[j].retain = push[j].retain
    /\ push'[j].uri = push[j].uri
    /\ push[j].pc \in Settled => push'[j].pc \in Settled

LEMMA PushesOnward ==
  ASSUME Types, Next, NEW n \in 0 .. lastId, NEW j \in DOMAIN push'
  PROVE  Onward(j, n)
<1>. USE DEF Types
<1>1. DOMAIN push = 1 .. Len(push) /\ Len(push) \in Nat /\ lastId \in Nat /\ n \in Nat /\ n <= lastId
  BY PushIndices DEF EngineTypes
<1>2. ASSUME push' = push PROVE Onward(j, n)
  BY <1>2 DEF Onward
<1>3. ASSUME NEW p, NEW id, NEW pc, Grown(p, id, pc), id \notin 1 .. n PROVE Onward(j, n)
  <2>1. DOMAIN push' = 1 .. Len(push) + 1
    BY <1>1, <1>3, LenProperties DEF Grown
  <2>2. CASE j \in DOMAIN push
    BY <1>3, <2>2 DEF Grown, Onward
  <2>3. CASE j = Len(push) + 1
    BY <1>3, <2>3 DEF Grown, Same, Onward
  <2>. QED BY <1>1, <2>1, <2>2, <2>3
<1>4. ASSUME NEW i \in DOMAIN push, NEW id, NEW pc, Moved(i, id, pc),
             id \notin 1 .. n \/ (id = push[i].id /\ (push[i].pc \in Settled => pc \in Settled))
      PROVE  Onward(j, n)
  <2>1. DOMAIN push' = DOMAIN push
    BY <1>1, <1>4, LenProperties DEF Moved
  <2>2. CASE j = i
    BY <1>4, <2>2 DEF Moved, Same, Onward
  <2>3. CASE j # i
    BY <1>4, <2>1, <2>3 DEF Moved, Onward
  <2>. QED BY <2>2, <2>3
<1>5. ASSUME NEW p \in PushRequest, PushMem(p) PROVE Onward(j, n)
  <2>1. lastId + 1 \notin 1 .. n
    BY <1>1
  <2>. QED BY <1>3, <1>5, <2>1, PushMemIs
<1>6. ASSUME NEW p \in PushRequest, EnqueueDb(p) PROVE Onward(j, n)
  BY <1>1, <1>3, <1>6, EnqueueDbIs
<1>7. ASSUME NEW i \in DOMAIN push, Insert(i) PROVE Onward(j, n)
  <2>1. lastId + 1 \notin 1 .. n
    BY <1>1
  <2>. QED BY <1>4, <1>7, <2>1, InsertIs
<1>8. ASSUME NEW i \in DOMAIN push, InsertFails(i) \/ Disperse(i) \/ StoreDb(i) \/ ResolveRetainedEventWaiters(i)
       PROVE  Onward(j, n)
  <2>1. \E pc \in {"queued", "inserted", "dispersed", "stored", "done", "failed"} :
           push' = PushAt(i, pc) /\ (push[i].pc \in Settled => pc \in Settled)
    BY <1>8 DEF InsertFails, Disperse, StoreDb, ResolveRetainedEventWaiters, Turn, Settled
  <2>. QED BY <1>4, <2>1, AtIs
<1>9. ASSUME NEW t \in Trace, (\E s \in Session, r \in TraceRequest : CmdTrace(t, s, r))
                                \/ Replay(t) \/ Timeout(t) \/ CmdUnTrace(t)
       PROVE Onward(j, n)
  BY <1>2, <1>9 DEF CmdTrace, Replay, SelectHistory, HistoryDone, SnapshotRetained, SelectRetained, SnapshotDone,
                   CmdUnTrace, Continue, Timeout
<1>10. ASSUME NEW s \in Session, LeaveSession(s) PROVE Onward(j, n)
  BY <1>2, <1>10 DEF LeaveSession
<1>11. ASSUME Restart PROVE Onward(j, n)
  <2>1. DOMAIN push' = DOMAIN push
    BY <1>1, <1>11, RestartIs, LenProperties
  <2>2. Same(push'[j], push[j], push[j].id, IF push[j].pc = "done" THEN "done" ELSE "failed")
    BY <1>11, <2>1, RestartIs
  <2>. QED BY <2>1, <2>2 DEF Same, Onward, Settled
<1>. QED BY <1>5, <1>6, <1>7, <1>8, <1>9, <1>10, <1>11 DEF Next

LEMMA MovedSerial ==
  ASSUME PushTypes, Serial, engine = "db", engine' = engine, NEW i \in DOMAIN push, NEW id, NEW pc,
         Moved(i, id, pc), pc # "queued", pc \in {"inserted", "dispersed", "stored"} => id # 0,
         push[i].pc \notin {"done", "failed"},
         push[i].pc = "queued" => Turn(i)
  PROVE  Serial'
<1>1. DOMAIN push = 1 .. Len(push) /\ Len(push) \in Nat
  BY PushIndices
<1>2. DOMAIN push' = DOMAIN push
  BY <1>1, LenProperties DEF Moved
<1>3. push'[i].id = id /\ push'[i].pc = pc /\ \A j \in DOMAIN push : j # i => push'[j] = push[j]
  BY DEF Moved, Same
<1>4. \A j \in DOMAIN push : i < j => push[j].pc = "queued"
  BY DEF Serial
<1>5. \A k \in DOMAIN push : k < i => push[k].pc \in {"done", "failed"}
  <2>1. CASE push[i].pc = "queued"
    BY <1>1, <2>1 DEF Turn
  <2>2. CASE push[i].pc # "queued"
    BY <2>2 DEF Serial
  <2>. QED BY <2>1, <2>2
<1>6. \A k \in DOMAIN push' : push'[k].pc = "queued" => push'[k].id = 0
  BY <1>2, <1>3 DEF Serial
<1>7. \A k \in DOMAIN push' : push'[k].pc \in {"inserted", "dispersed", "stored"} => push'[k].id # 0
  BY <1>2, <1>3 DEF Serial
<1>8. ASSUME NEW k \in DOMAIN push', NEW j \in DOMAIN push', k < j, push'[k].pc \notin {"done", "failed"}
      PROVE  push'[j].pc = "queued"
  <2>1. k \in 1 .. Len(push) /\ j \in 1 .. Len(push) /\ i \in 1 .. Len(push)
    BY <1>1, <1>2
  <2>2. CASE k < i
    BY <1>2, <1>3, <1>5, <1>8, <2>1, <2>2
  <2>3. CASE k = i
    BY <1>2, <1>3, <1>4, <1>8, <2>1, <2>3
  <2>4. CASE i < k
    BY <1>2, <1>3, <1>4, <1>8, <2>1, <2>4
  <2>. QED BY <2>1, <2>2, <2>3, <2>4
<1>. QED BY <1>6, <1>7, <1>8 DEF Serial

LEMMA SerialStep ==
  ASSUME Types, Serial, Next
  PROVE  Serial'
<1>. USE DEF Types
<1>1. DOMAIN push = 1 .. Len(push) /\ Len(push) \in Nat /\ lastId \in Nat /\ engine \in {"mem", "db"}
  BY PushIndices DEF EngineTypes
<1>2. ASSUME push' = push, engine' = engine PROVE Serial'
  BY <1>2 DEF Serial
<1>3. ASSUME NEW p, NEW id, NEW pc, Grown(p, id, pc), engine' = engine,
             pc = "queued" <=> engine = "db", pc \in {"queued", "stored", "done"}, pc = "queued" <=> id = 0
      PROVE Serial'
  <2>1. DOMAIN push' = 1 .. Len(push) + 1
    BY <1>1, <1>3, LenProperties DEF Grown
  <2>2. /\ \A j \in 1 .. Len(push) : push'[j] = push[j]
        /\ push'[Len(push) + 1].id = id /\ push'[Len(push) + 1].pc = pc
    BY <1>1, <1>3 DEF Grown, Same
  <2>3. ASSUME NEW k \in DOMAIN push' PROVE k \in DOMAIN push \/ k = Len(push) + 1
    BY <1>1, <2>1
  <2>4. \A k \in DOMAIN push' : push'[k].pc = "queued" => push'[k].id = 0
    BY <1>1, <1>3, <2>2, <2>3 DEF Serial
  <2>5. \A k \in DOMAIN push' : push'[k].pc \in {"inserted", "dispersed", "stored"} => push'[k].id # 0
    BY <1>1, <1>3, <2>2, <2>3 DEF Serial
  <2>6. engine' = "mem" => \A k \in DOMAIN push' : push'[k].pc \in {"stored", "done"}
    BY <1>1, <1>3, <2>2, <2>3 DEF Serial
  <2>7. ASSUME engine' = "db", NEW k \in DOMAIN push', NEW j \in DOMAIN push', k < j,
               push'[k].pc \notin {"done", "failed"}
        PROVE  push'[j].pc = "queued"
    <3>1. CASE j = Len(push) + 1
      BY <1>3, <2>2, <2>7, <3>1
    <3>2. CASE j \in DOMAIN push
      <4>1. k \in DOMAIN push
        BY <1>1, <2>1, <2>7, <3>2
      <4>. QED BY <1>1, <1>3, <2>2, <2>7, <3>2, <4>1 DEF Serial
    <3>. QED BY <2>3, <3>1, <3>2
  <2>. QED BY <2>4, <2>5, <2>6, <2>7 DEF Serial
<1>4. ASSUME NEW p \in PushRequest, PushMem(p) PROVE Serial'
  <2>1. engine = "mem" /\ engine' = engine /\ lastId + 1 # 0
    BY <1>1, <1>4 DEF PushMem
  <2>2. PICK pc : pc = IF p.retain = "no" THEN "done" ELSE "stored"
    OBVIOUS
  <2>3. Grown(p, lastId + 1, pc)
    BY <1>4, <2>2, PushMemIs
  <2>. QED BY <1>3, <2>1, <2>2, <2>3
<1>5. ASSUME NEW p \in PushRequest, EnqueueDb(p) PROVE Serial'
  <2>1. engine = "db" /\ engine' = engine /\ Grown(p, 0, "queued")
    BY <1>5, EnqueueDbIs DEF EnqueueDb
  <2>. QED BY <1>3, <2>1
<1>6. ASSUME NEW i \in DOMAIN push, Insert(i) PROVE Serial'
  <2>1. engine' = engine /\ push[i].pc = "queued" /\ Turn(i) /\ lastId + 1 # 0
    BY <1>1, <1>6 DEF Insert, Turn
  <2>2. engine = "db"
    BY <1>1, <2>1 DEF Serial
  <2>. QED BY <1>6, <2>1, <2>2, InsertIs, MovedSerial
<1>7. ASSUME NEW i \in DOMAIN push, InsertFails(i) PROVE Serial'
  <2>1. engine' = engine /\ push[i].pc = "queued" /\ Turn(i)
    BY <1>7 DEF InsertFails, Turn
  <2>2. engine = "db"
    BY <1>1, <2>1 DEF Serial
  <2>3. Moved(i, push[i].id, "failed")
    BY <1>7, AtIs DEF InsertFails
  <2>. QED BY <2>1, <2>2, <2>3, MovedSerial
<1>8. ASSUME NEW i \in DOMAIN push, Disperse(i) \/ StoreDb(i) PROVE Serial'
  <2>1. engine' = engine /\ push[i].pc \in {"inserted", "dispersed"}
    BY <1>8 DEF Disperse, StoreDb
  <2>2. engine = "db" /\ push[i].id # 0
    BY <1>1, <2>1 DEF Serial
  <2>3. \E pc \in {"done", "dispersed", "stored"} : push' = PushAt(i, pc)
    BY <1>8 DEF Disperse, StoreDb
  <2>4. \E pc \in {"done", "dispersed", "stored"} : Moved(i, push[i].id, pc)
    BY <2>3, AtIs
  <2>. QED BY <2>1, <2>2, <2>4, MovedSerial
<1>9. ASSUME NEW i \in DOMAIN push, ResolveRetainedEventWaiters(i) PROVE Serial'
  <2>1. engine' = engine /\ push[i].pc = "stored" /\ Moved(i, push[i].id, "done")
    BY <1>9, AtIs DEF ResolveRetainedEventWaiters
  <2>2. CASE engine = "db"
    BY <2>1, <2>2, MovedSerial
  <2>3. CASE engine = "mem"
    <3>1. DOMAIN push' = DOMAIN push
      BY <1>1, <2>1, LenProperties DEF Moved
    <3>2. push'[i].pc = "done" /\ \A j \in DOMAIN push : j # i => push'[j] = push[j]
      BY <2>1 DEF Moved, Same
    <3>3. push'[i].id # 0
      BY <2>1 DEF Serial, Moved, Same
    <3>. QED BY <2>1, <2>3, <3>1, <3>2, <3>3 DEF Serial
  <2>. QED BY <1>1, <2>2, <2>3
<1>10. ASSUME NEW t \in Trace, (\E s \in Session, r \in TraceRequest : CmdTrace(t, s, r))
                                \/ Replay(t) \/ Timeout(t) \/ CmdUnTrace(t)
       PROVE Serial'
  BY <1>2, <1>10 DEF CmdTrace, Replay, SelectHistory, HistoryDone, SnapshotRetained, SelectRetained, SnapshotDone,
                   CmdUnTrace, Continue, Timeout
<1>11. ASSUME NEW s \in Session, LeaveSession(s) PROVE Serial'
  BY <1>2, <1>11 DEF LeaveSession
<1>12. ASSUME Restart PROVE Serial'
  <2>1. DOMAIN push' = DOMAIN push /\ engine' = "db"
    BY <1>1, <1>12, RestartIs, LenProperties DEF Restart
  <2>2. \A j \in DOMAIN push : push'[j].pc \in {"done", "failed"}
    BY <1>12, RestartIs DEF Same
  <2>. QED BY <2>1, <2>2 DEF Serial
<1>. QED BY <1>4, <1>5, <1>6, <1>7, <1>8, <1>9, <1>10, <1>11, <1>12 DEF Next

(* When a push is through the store, those before it are.                  *)
LEMMA ResolvePassed ==
  ASSUME Types, Serial, NEW i \in DOMAIN push, ResolveRetainedEventWaiters(i)
  PROVE  \A j \in DOMAIN push : push[j].id # 0 => push[j].pc \in Settled
<1>1. push[i].pc = "stored" /\ DOMAIN push = 1 .. Len(push) /\ Len(push) \in Nat /\ engine \in {"mem", "db"}
  BY PushIndices DEF ResolveRetainedEventWaiters, Types, EngineTypes
<1>. SUFFICES ASSUME NEW j \in DOMAIN push, push[j].id # 0 PROVE push[j].pc \in Settled
  OBVIOUS
<1>2. CASE engine = "mem"
  BY <1>2 DEF Serial, Settled
<1>3. CASE engine = "db"
  <2>1. push[j].pc # "queued"
    BY DEF Serial
  <2>2. CASE j = i
    BY <1>1, <2>2 DEF Settled
  <2>3. CASE i < j
    BY <1>1, <1>3, <2>1, <2>3 DEF Serial
  <2>4. CASE j < i
    BY <1>1, <1>3, <2>4 DEF Serial, Settled
  <2>. QED BY <1>1, <2>2, <2>3, <2>4
<1>. QED BY <1>1, <1>2, <1>3

LEMMA PassedStep ==
  ASSUME Types, SerialInv, Next
  PROVE  PassedTo(committed)'
<1>1. lastId \in Nat /\ committed \in 0 .. lastId
  BY DEF Types, EngineTypes
<1>2. ASSUME committed' = committed PROVE PassedTo(committed)'
  <2>. SUFFICES ASSUME NEW j \in DOMAIN push', push'[j].id \in 1 .. committed PROVE push'[j].pc \in Settled
    BY <1>2 DEF PassedTo
  <2>1. Onward(j, committed)
    BY <1>1, PushesOnward
  <2>. QED BY <2>1 DEF Onward, SerialInv, PassedTo
<1>3. ASSUME NEW i \in DOMAIN push, ResolveRetainedEventWaiters(i) PROVE PassedTo(committed)'
  <2>1. committed' = push[i].id /\ push[i].id \in 0 .. lastId
    BY <1>3, PushTyped DEF Types, ResolveRetainedEventWaiters
  <2>. SUFFICES ASSUME NEW j \in DOMAIN push', push'[j].id \in 1 .. push[i].id PROVE push'[j].pc \in Settled
    BY <2>1 DEF PassedTo
  <2>2. Onward(j, push[i].id)
    BY <2>1, PushesOnward
  <2>3. j \in DOMAIN push /\ push[j].id # 0 /\ (push[j].pc \in Settled => push'[j].pc \in Settled)
    BY <1>1, <2>1, <2>2 DEF Onward
  <2>. QED BY <1>3, <2>3, ResolvePassed DEF SerialInv
<1>4. CASE Restart
  <2>1. committed' = 0
    BY <1>4 DEF Restart
  <2>. QED BY <2>1 DEF PassedTo
<1>5. ASSUME NEW i \in DOMAIN push, Insert(i) \/ InsertFails(i) \/ Disperse(i) \/ StoreDb(i)
      PROVE  PassedTo(committed)'
  BY <1>2, <1>5 DEF Insert, InsertFails, Disperse, StoreDb
<1>6. CASE (\E p \in PushRequest : PushMem(p) \/ EnqueueDb(p)) \/ (\E s \in Session : LeaveSession(s))
  BY <1>2, <1>6 DEF PushMem, EnqueueDb, LeaveSession
<1>7. ASSUME NEW u \in Trace, (\E s \in Session, r \in TraceRequest : CmdTrace(u, s, r))
                              \/ Replay(u) \/ Timeout(u) \/ CmdUnTrace(u)
      PROVE  PassedTo(committed)'
  BY <1>2, <1>7 DEF CmdTrace, Replay, SelectHistory, HistoryDone, SnapshotRetained, SelectRetained,
                    SnapshotDone, CmdUnTrace, Continue, Timeout
<1>. QED BY <1>3, <1>4, <1>5, <1>6, <1>7 DEF Next

LEMMA SerialAlways == Spec => []SerialInv
<1>1. Init => SerialInv
  BY DEF Init, SerialInv, Serial, PassedTo
<1>2. Types /\ SerialInv /\ [Next]_vars => SerialInv'
  <2>. SUFFICES ASSUME Types, SerialInv, [Next]_vars PROVE SerialInv'
    OBVIOUS
  <2>1. CASE Next
    BY <2>1, SerialStep, PassedStep DEF SerialInv
  <2>2. CASE UNCHANGED vars
    BY <2>2 DEF vars, SerialInv, Serial, PassedTo
  <2>. QED BY <2>1, <2>2
<1>. QED BY <1>1, <1>2, TypesAlways, PTL DEF Spec

(* Whoever reads the retained values after an event reads them once every  *)
(* push up to that event has passed the store.                             *)
Fresh(r) == r.after # 0 /\ r.replay = "reached" => PassedTo(r.after)

LEMMA StepFresh ==
  ASSUME Types, SerialInv, NEW x, NEW r \in TraceType, StepOf(x, r), Fresh(r), r.after \in 0 .. lastId,
         x.after # 0, x.replay = "reached"
  PROVE  x.after \in 0 .. lastId /\ PassedTo(x.after)
<1>1. lastId \in Nat /\ committed \in 0 .. lastId
  BY DEF Types, EngineTypes
<1>2. ASSUME NEW q, q.after \in 0 .. lastId, q.after # 0, Replayed(q) = "reached" PROVE PassedTo(q.after)
  <2>1. committed >= q.after
    BY <1>1, <1>2, ReplayedIs DEF Types
  <2>. QED BY <1>1, <1>2, <2>1 DEF PassedTo, SerialInv
<1>3. CASE x = NoTrace
  BY <1>3 DEF NoTrace
<1>4. CASE Began(x, r)
  <2>1. PICK s, request, after, q :
          after \in 0 .. lastId /\ Asked(q, s, request, after) /\ Begun(x, q)
    BY <1>4 DEF Began
  <2>2. q.after \in 0 .. lastId /\ x.after = q.after /\ (x.replay = IF q.snapshot THEN "history" ELSE Replayed(q))
    BY <2>1 DEF Asked, Begun, Is
  <2>. QED BY <1>2, <2>2
<1>5. CASE \E uri, e : e \in Event /\ e.kind \in {"live", "delta"} /\ Comes(e) /\ Given(x, r, uri, e)
  BY <1>5 DEF Given, Is, Fresh
<1>6. CASE Woken(x, r)
  <2>1. PICK i \in DOMAIN push : ResolveRetainedEventWaiters(i) /\ push[i].id >= r.after
    BY <1>6 DEF Woken
  <2>2. x.after = r.after
    BY <1>6 DEF Woken, Is
  <2>3. \A j \in DOMAIN push : push[j].id # 0 => push[j].pc \in Settled
    BY <2>1, ResolvePassed DEF SerialInv
  <2>. QED BY <1>1, <2>2, <2>3 DEF PassedTo
<1>7. CASE TimedOut(x, r) \/ Shown(x, r) \/ Finished(x, r) \/ Ended(x, r)
  BY <1>7 DEF TimedOut, Shown, Finished, Ended, Is, Fresh
<1>8. CASE Selected(x, r) \/ DoneHistory(x, r)
  BY <1>8 DEF Selected, DoneHistory, Is, Fresh
<1>9. CASE Looked(x, r)
  <2>1. x.after = r.after /\ x.replay = Replayed(r)
    BY <1>9 DEF Looked, Is
  <2>. QED BY <1>2, <2>1
<1>. QED BY <1>3, <1>4, <1>5, <1>6, <1>7, <1>8, <1>9 DEF StepOf, Fresh

FreshInv == \A t \in Trace : Fresh(trace[t])

LEMMA FreshStep ==
  ASSUME Types, SerialInv, FreshInv, Next
  PROVE  FreshInv'
<1>. SUFFICES ASSUME NEW t \in Trace, trace'[t].after # 0, trace'[t].replay = "reached",
                     NEW j \in DOMAIN push', push'[j].id \in 1 .. trace'[t].after
              PROVE  push'[j].pc \in Settled
  BY DEF FreshInv, Fresh, PassedTo
<1>1. trace[t] \in TraceType /\ trace[t].after \in 0 .. lastId /\ StepOf(trace'[t], trace[t]) /\ Fresh(trace[t])
  BY TraceTyped, TraceStep DEF Types, FreshInv
<1>2. trace'[t].after \in 0 .. lastId /\ PassedTo(trace'[t].after)
  BY <1>1, StepFresh
<1>3. Onward(j, trace'[t].after)
  BY <1>2, PushesOnward
<1>. QED BY <1>2, <1>3 DEF Onward, PassedTo

(* A subscription that waited for an event reads the retained values when  *)
(* no push up to that event is still on its way to the store.              *)
THEOREM RetainedIsFreshCorrect == Spec => []RetainedIsFresh
<1>1. Init => FreshInv
  BY DEF Init, NoTrace, FreshInv, Fresh
<1>2. Types /\ SerialInv /\ FreshInv /\ [Next]_vars => FreshInv'
  <2>. SUFFICES ASSUME Types, SerialInv, FreshInv, [Next]_vars PROVE FreshInv'
    OBVIOUS
  <2>1. CASE Next
    BY <2>1, FreshStep
  <2>2. CASE UNCHANGED vars
    BY <2>2 DEF vars, FreshInv, Fresh, PassedTo
  <2>. QED BY <2>1, <2>2
<1>3. FreshInv => RetainedIsFresh
  BY DEF FreshInv, Fresh, PassedTo, Settled, RetainedIsFresh
<1>. QED BY <1>1, <1>2, <1>3, TypesAlways, SerialAlways, PTL DEF Spec

-----------------------------------------------------------------------------
(* The order of events of some kinds: those that were sent, those that are *)
(* held back, and the former before the latter.                            *)
AllBelow(a, b, kinds) ==
  \A i \in DOMAIN a, j \in DOMAIN b :
    a[i].kind \in kinds /\ b[j].kind \in kinds => a[i].id < b[j].id
Before(a, e, kinds) == \A i \in DOMAIN a : a[i].kind \in kinds /\ e.kind \in kinds => a[i].id < e.id
Ordered(g, d, kinds) == Ascending(g, kinds) /\ Ascending(d, kinds) /\ AllBelow(g, d, kinds)

LEMMA JoinedAscends ==
  ASSUME NEW a \in Seq(Event), NEW b \in Seq(Event), NEW kinds,
         Ascending(a, kinds), Ascending(b, kinds), AllBelow(a, b, kinds)
  PROVE  Ascending(a \o b, kinds)
<1> DEFINE c == a \o b
<1>. SUFFICES ASSUME NEW i \in DOMAIN c, NEW j \in DOMAIN c, i < j, c[i].kind \in kinds, c[j].kind \in kinds
              PROVE  c[i].id < c[j].id
  BY DEF Ascending
<1>1. Len(a) \in Nat /\ DOMAIN a = 1 .. Len(a) /\ DOMAIN b = 1 .. Len(b) /\ Len(b) \in Nat
  BY LenProperties
<1>2. (i \in DOMAIN a /\ c[i] = a[i]) \/ \E m \in DOMAIN b : i = Len(a) + m /\ c[i] = b[m]
  BY JoinedHas
<1>3. (j \in DOMAIN a /\ c[j] = a[j]) \/ \E m \in DOMAIN b : j = Len(a) + m /\ c[j] = b[m]
  BY JoinedHas
<1> HIDE DEF c
<1>4. CASE i \in DOMAIN a /\ c[i] = a[i]
  <2>1. CASE j \in DOMAIN a /\ c[j] = a[j]
    BY <1>4, <2>1 DEF Ascending
  <2>2. CASE \E m \in DOMAIN b : j = Len(a) + m /\ c[j] = b[m]
    BY <1>4, <2>2 DEF AllBelow
  <2>. QED BY <1>3, <2>1, <2>2
<1>5. CASE \E m \in DOMAIN b : i = Len(a) + m /\ c[i] = b[m]
  <2>1. PICK m \in DOMAIN b : i = Len(a) + m /\ c[i] = b[m]
    BY <1>5
  <2>2. CASE j \in DOMAIN a /\ c[j] = a[j]
    BY <1>1, <2>1, <2>2
  <2>3. CASE \E k \in DOMAIN b : j = Len(a) + k /\ c[j] = b[k]
    <3>1. PICK k \in DOMAIN b : j = Len(a) + k /\ c[j] = b[k]
      BY <2>3
    <3>2. m < k
      BY <1>1, <2>1, <3>1
    <3>. QED BY <2>1, <3>1, <3>2 DEF Ascending
  <2>. QED BY <1>3, <2>2, <2>3
<1>. QED BY <1>2, <1>4, <1>5

LEMMA AppendedAscends ==
  ASSUME NEW a \in Seq(Event), NEW e \in Event, NEW kinds, Ascending(a, kinds), Before(a, e, kinds)
  PROVE  Ascending(Append(a, e), kinds)
<1> DEFINE c == Append(a, e)
<1>. SUFFICES ASSUME NEW i \in DOMAIN c, NEW j \in DOMAIN c, i < j, c[i].kind \in kinds, c[j].kind \in kinds
              PROVE  c[i].id < c[j].id
  BY DEF Ascending
<1>1. Len(a) \in Nat /\ DOMAIN a = 1 .. Len(a)
  BY LenProperties
<1>2. (i \in DOMAIN a /\ c[i] = a[i]) \/ (i = Len(a) + 1 /\ c[i] = e)
  BY AppendedHas
<1>3. (j \in DOMAIN a /\ c[j] = a[j]) \/ (j = Len(a) + 1 /\ c[j] = e)
  BY AppendedHas
<1> HIDE DEF c
<1>4. CASE i = Len(a) + 1
  BY <1>1, <1>3, <1>4
<1>5. CASE i \in DOMAIN a /\ c[i] = a[i]
  BY <1>3, <1>5 DEF Ascending, Before
<1>. QED BY <1>2, <1>4, <1>5

LEMMA EmptyOrdered ==
  ASSUME NEW kinds
  PROVE  Ascending(<<>>, kinds) /\ \A g : AllBelow(g, <<>>, kinds) /\ AllBelow(<<>>, g, kinds)
<1>1. DOMAIN <<>> = {}
  OBVIOUS
<1>. QED BY <1>1 DEF Ascending, AllBelow

LEMMA FlushOrdered ==
  ASSUME NEW g \in Seq(Event), NEW d \in Seq(Event), NEW kinds, Ordered(g, d, kinds)
  PROVE  Ordered(g \o d, <<>>, kinds)
  BY JoinedAscends, EmptyOrdered DEF Ordered

LEMMA DelayOrdered ==
  ASSUME NEW g \in Seq(Event), NEW d \in Seq(Event), NEW e \in Event, NEW kinds, Ordered(g, d, kinds),
         Before(g, e, kinds), Before(d, e, kinds)
  PROVE  Ordered(g, Append(d, e), kinds)
<1>1. Ascending(Append(d, e), kinds)
  BY AppendedAscends DEF Ordered
<1>2. ASSUME NEW i \in DOMAIN g, NEW j \in DOMAIN Append(d, e),
             g[i].kind \in kinds, Append(d, e)[j].kind \in kinds
      PROVE  g[i].id < Append(d, e)[j].id
  <2>1. CASE j \in DOMAIN d /\ Append(d, e)[j] = d[j]
    BY <1>2, <2>1 DEF Ordered, AllBelow
  <2>2. CASE Append(d, e)[j] = e
    BY <1>2, <2>2 DEF Before
  <2>. QED BY <2>1, <2>2, AppendedHas
<1>. QED BY <1>1, <1>2 DEF Ordered, AllBelow

LEMMA SendOrdered ==
  ASSUME NEW g \in Seq(Event), NEW e \in Event, NEW kinds, Ascending(g, kinds), Before(g, e, kinds)
  PROVE  Ordered(Append(g, e), <<>>, kinds)
  BY AppendedAscends, EmptyOrdered DEF Ordered

(* What is sent of another kind does not disturb the order. *)
LEMMA SentOrdered ==
  ASSUME NEW r \in TraceType, NEW kind \in {"live", "delta", "history", "retained"}, NEW ids \in Seq(Nat),
         NEW g, g = Sent(r, kind, ids), NEW kinds, kind \notin kinds
  PROVE  /\ Ascending(r.got, kinds) => Ascending(g, kinds)
         /\ \A d : Ordered(r.got, d, kinds) => Ordered(g, d, kinds)
<1>1. \A k \in DOMAIN g : g[k].kind \in kinds => k \in DOMAIN r.got /\ g[k] = r.got[k]
  BY SentHas
<1>. QED BY <1>1 DEF Ordered, Ascending, AllBelow

(* The history is sent once, in its order. *)
LEMMA SentAscends ==
  ASSUME NEW r \in TraceType, NEW ids \in Seq(Nat), NEW g, g = Sent(r, "history", ids),
         \A k \in DOMAIN r.got : r.got[k].kind # "history",
         \A i, j \in 1 .. Len(ids) : i < j => ids[i] < ids[j]
  PROVE  Ascending(g, {"history"})
<1>0. PICK kind \in {"live", "delta", "history", "retained"} : kind = "history"
  OBVIOUS
<1>5. g = Sent(r, kind, ids)
  BY <1>0
<1>6. \A k \in DOMAIN g :
        \/ k \in DOMAIN r.got /\ g[k] = r.got[k]
        \/ \E m \in 1 .. Len(ids) : k = Len(r.got) + m /\ g[k].kind = kind /\ g[k].id = ids[m]
  BY <1>5, SentHas
<1>. SUFFICES ASSUME NEW i \in DOMAIN g, NEW j \in DOMAIN g, i < j,
                     g[i].kind = "history", g[j].kind = "history"
              PROVE  g[i].id < g[j].id
  BY DEF Ascending
<1>4. ASSUME NEW k \in DOMAIN g, g[k].kind = "history"
      PROVE  \E m \in 1 .. Len(ids) : k = Len(r.got) + m /\ g[k].id = ids[m]
  BY <1>4, <1>6
<1>1. \E m \in 1 .. Len(ids) : i = Len(r.got) + m /\ g[i].id = ids[m]
  BY <1>4
<1>2. \E m \in 1 .. Len(ids) : j = Len(r.got) + m /\ g[j].id = ids[m]
  BY <1>4
<1>3. Len(r.got) \in Nat
  BY LenProperties DEF TraceType
<1>. QED BY <1>1, <1>2, <1>3

-----------------------------------------------------------------------------
(* The events of the history have ascending ids.                           *)
HistoryAscends == \A i, j \in DOMAIN history : i < j => history[i].id < history[j].id

LEMMA HistoryAscendsStep ==
  ASSUME Types, HistoryAscends, Next
  PROVE  HistoryAscends'
<1>. USE DEF Types
<1>1. /\ Len(history) \in Nat /\ DOMAIN history = 1 .. Len(history) /\ lastId \in Nat
      /\ \A i \in DOMAIN history : history[i] \in [id : 1 .. lastId, uri : Topic]
  <2>1. history \in Seq([id : 1 .. lastId, uri : Topic])
    BY DEF StoreTypes
  <2>2. Len(history) \in Nat /\ DOMAIN history = 1 .. Len(history)
    BY <2>1, LenProperties
  <2>3. \A i \in 1 .. Len(history) : history[i] \in [id : 1 .. lastId, uri : Topic]
    BY <2>1, ElementOfSeq
  <2>. QED BY <2>2, <2>3 DEF EngineTypes
<1>2. ASSUME history' = history PROVE HistoryAscends'
  BY <1>2 DEF HistoryAscends
<1>3. ASSUME NEW p, p.uri \in Topic, SaveHistory(p, lastId + 1) PROVE HistoryAscends'
  <2>1. CASE history' = history
    BY <1>2, <2>1
  <2>2. CASE history' = Append(history, [id |-> lastId + 1, uri |-> p.uri])
    <3>1. PICK h : h = [id |-> lastId + 1, uri |-> p.uri]
      OBVIOUS
    <3>2. h \in [id : 1 .. lastId + 1, uri : Topic] /\ h.id = lastId + 1
      BY <1>1, <1>3, <3>1
    <3>3. history \in Seq([id : 1 .. lastId + 1, uri : Topic])
      <4>1. ASSUME NEW y \in [id : 1 .. lastId, uri : Topic] PROVE y \in [id : 1 .. lastId + 1, uri : Topic]
        <5>1. y.id \in 1 .. lastId /\ y.uri \in Topic /\ y = [id |-> y.id, uri |-> y.uri]
          OBVIOUS
        <5>2. y.id \in 1 .. lastId + 1
          BY <1>1, <5>1
        <5>. QED BY <5>1, <5>2
      <4>. QED BY <4>1, SeqOfMore DEF StoreTypes
    <3>4. /\ DOMAIN history' = 1 .. Len(history) + 1 /\ history'[Len(history) + 1] = h
          /\ \A i \in 1 .. Len(history) : history'[i] = history[i]
      BY <2>2, <3>1, <3>2, <3>3, AppendProperties, LenProperties
    <3>5. ASSUME NEW i \in DOMAIN history', NEW j \in DOMAIN history', i < j
          PROVE  history'[i].id < history'[j].id
      <4>1. i \in 1 .. Len(history)
        BY <1>1, <3>4, <3>5
      <4>2. history[i].id \in 1 .. lastId
        BY <1>1, <4>1
      <4>3. CASE j \in 1 .. Len(history)
        BY <1>1, <3>4, <3>5, <4>1, <4>3 DEF HistoryAscends
      <4>4. CASE j = Len(history) + 1
        BY <1>1, <3>2, <3>4, <4>1, <4>2, <4>4
      <4>. QED BY <1>1, <3>4, <4>3, <4>4
    <3>. QED BY <3>5 DEF HistoryAscends
  <2>. QED BY <1>3, <2>1, <2>2 DEF SaveHistory
<1>4. ASSUME NEW p \in PushRequest, PushMem(p) PROVE HistoryAscends'
  BY <1>3, <1>4, RequestTyped DEF PushMem
<1>5. ASSUME NEW i \in DOMAIN push, Insert(i) PROVE HistoryAscends'
  <2>1. push[i].uri \in Topic
    BY PushTyped DEF PushType
  <2>. QED BY <1>3, <1>5, <2>1 DEF Insert
<1>6. ASSUME NEW i \in DOMAIN push, InsertFails(i) \/ Disperse(i) \/ StoreDb(i) \/ ResolveRetainedEventWaiters(i)
       PROVE  HistoryAscends'
  BY <1>2, <1>6 DEF InsertFails, Disperse, StoreDb, ResolveRetainedEventWaiters
<1>7. ASSUME NEW t \in Trace, (\E s \in Session, r \in TraceRequest : CmdTrace(t, s, r))
                                \/ Replay(t) \/ Timeout(t) \/ CmdUnTrace(t)
       PROVE HistoryAscends'
  BY <1>2, <1>7 DEF CmdTrace, Replay, SelectHistory, HistoryDone, SnapshotRetained, SelectRetained, SnapshotDone,
                   CmdUnTrace, Continue, Timeout
<1>8. CASE (\E p \in PushRequest : EnqueueDb(p)) \/ (\E s \in Session : LeaveSession(s)) \/ Restart
  BY <1>2, <1>8 DEF EnqueueDb, LeaveSession, Restart
<1>. QED BY <1>4, <1>5, <1>6, <1>7, <1>8 DEF Next

LEMMA HistoryAfterAscends ==
  ASSUME Types, HistoryAscends, NEW r
  PROVE  \A i, j \in 1 .. Len(HistoryAfter(r)) : i < j => HistoryAfter(r)[i] < HistoryAfter(r)[j]
<1>1. PICK n, at, S : n = Cardinality(Found(r)) /\ at = Sorted(Found(r)) /\ S = Found(r)
  OBVIOUS
<1>2. /\ S \in SUBSET Nat /\ S \subseteq DOMAIN history /\ IsFiniteSet(S) /\ n \in Nat
      /\ at \in [1 .. n -> S] /\ HistoryAfter(r) = [k \in 1 .. n |-> history[at[k]].id]
  BY <1>1, FoundSorted DEF Types
<1>3. Ascends(at)
  BY <1>1, <1>2, SortedAscends
<1>4. PICK f : f = HistoryAfter(r)
  OBVIOUS
<1>5. f \in Seq(Nat)
  BY <1>4, HistoryTyped DEF Types, EngineTypes
<1>6. DOMAIN f = 1 .. n /\ DOMAIN f = 1 .. Len(f) /\ Len(f) \in Nat
  BY <1>2, <1>4, <1>5, LenProperties
<1>7. ASSUME NEW i \in 1 .. Len(f), NEW j \in 1 .. Len(f), i < j PROVE f[i] < f[j]
  <2>1. i \in 1 .. n /\ j \in 1 .. n
    BY <1>6
  <2>2. at[i] \in S /\ at[j] \in S
    BY <1>2, <2>1
  <2>3. at[i] < at[j]
    BY <1>2, <1>3, <1>7, <2>1 DEF Ascends
  <2>4. history[at[i]].id < history[at[j]].id
    BY <1>2, <2>2, <2>3 DEF HistoryAscends
  <2>5. f[i] = history[at[i]].id /\ f[j] = history[at[j]].id
    BY <1>2, <1>4, <2>1
  <2>. QED BY <2>4, <2>5
<1>. QED BY <1>4, <1>7

(* Where the events of a subscription come from.                           *)
Among(e, a) == \E k \in DOMAIN a : a[k] = e
Has(r, e) == Among(e, r.got) \/ Among(e, r.delayed)
Source(e, r) ==
  \/ Has(r, e)
  \/ e.kind = "retained"
  \/ e.kind = "history" /\ e.id \in 1 .. lastId
  \/ e.kind \in {"live", "delta"} /\ e \in Event /\ Comes(e)

LEMMA SentSource ==
  ASSUME Types, NEW r \in TraceType, NEW uri, NEW k,
         NEW g, NEW kind, kind \in {"history", "retained"},
         g = Sent(r, kind, IF kind = "history" THEN HistoryAfter(r) ELSE RetainedRows(uri, kv)),
         k \in DOMAIN g
  PROVE  Source(g[k], r)
<1>1. PICK ids : ids = IF kind = "history" THEN HistoryAfter(r) ELSE RetainedRows(uri, kv)
  OBVIOUS
<1>2. ids \in Seq(Nat) /\ (kind = "history" => ids \in Seq(1 .. lastId))
  BY <1>1, RetainedTyped, HistoryTyped DEF Types, EngineTypes
<1>3. CASE k \in DOMAIN r.got /\ g[k] = r.got[k]
  BY <1>3 DEF Source, Has, Among
<1>4. CASE \E m \in 1 .. Len(ids) : k = Len(r.got) + m /\ g[k].kind = kind /\ g[k].id = ids[m]
  <2>1. PICK m \in 1 .. Len(ids) : g[k].kind = kind /\ g[k].id = ids[m]
    BY <1>4
  <2>2. kind = "history" => ids[m] \in 1 .. lastId
    BY <1>2, ElementOfSeq
  <2>. QED BY <2>1, <2>2 DEF Source
<1>5. kind \in {"live", "delta", "history", "retained"} /\ ids \in Seq(Nat) /\ g = Sent(r, kind, ids)
  BY <1>1, <1>2
<1>6. \/ k \in DOMAIN r.got /\ g[k] = r.got[k]
      \/ \E m \in 1 .. Len(ids) : k = Len(r.got) + m /\ g[k].kind = kind /\ g[k].id = ids[m]
  BY <1>5, SentHas
<1>. QED BY <1>3, <1>4, <1>6

LEMMA FirstGotSource ==
  ASSUME Types, NEW q, NEW r, NEW k \in DOMAIN FirstGot(q)
  PROVE  Source(FirstGot(q)[k], r)
<1>1. PICK g, a, b : g = FirstGot(q) /\ a = OfKind("retained", RetainedRows(q.uri, kv))
                     /\ b = OfKind("history", HistoryAfter(q))
  OBVIOUS
<1>2. g = <<>> \/ g = a \/ g = b
  BY <1>1 DEF FirstGot, HistoryGot
<1>3. CASE g = <<>>
  BY <1>1, <1>3
<1>4. CASE g = a
  BY <1>1, <1>4 DEF OfKind, Source
<1>5. CASE g = b
  <2>1. HistoryAfter(q) \in Seq(1 .. lastId)
    BY HistoryTyped DEF Types, EngineTypes
  <2>2. k \in DOMAIN HistoryAfter(q) /\ g[k] = [id |-> HistoryAfter(q)[k], kind |-> "history"]
    BY <1>1, <1>5 DEF OfKind
  <2>3. HistoryAfter(q)[k] \in 1 .. lastId
    BY <2>1, <2>2, ElementOfSeq, LenProperties
  <2>. QED BY <1>1, <2>2, <2>3 DEF Source
<1>. QED BY <1>2, <1>3, <1>4, <1>5

LEMMA JoinedAmong ==
  ASSUME NEW a \in Seq(Event), NEW b \in Seq(Event), NEW e
  PROVE  Among(e, a \o b) <=> Among(e, a) \/ Among(e, b)
<1>1. PICK c : c = a \o b
  OBVIOUS
<1>2. /\ Len(a) \in Nat /\ DOMAIN a = 1 .. Len(a) /\ Len(b) \in Nat /\ DOMAIN b = 1 .. Len(b)
      /\ DOMAIN c = 1 .. Len(a) + Len(b)
      /\ \A i \in 1 .. Len(a) + Len(b) : c[i] = IF i <= Len(a) THEN a[i] ELSE b[i - Len(a)]
  BY <1>1, ConcatProperties, LenProperties
<1>3. ASSUME NEW k \in DOMAIN c, c[k] = e PROVE Among(e, a) \/ Among(e, b)
  BY <1>1, <1>3, JoinedHas DEF Among
<1>4. ASSUME NEW k \in DOMAIN a PROVE k \in DOMAIN c /\ c[k] = a[k]
  BY <1>2
<1>5. ASSUME NEW k \in DOMAIN b PROVE Len(a) + k \in DOMAIN c /\ c[Len(a) + k] = b[k]
  BY <1>2
<1>6. Among(e, c) => Among(e, a) \/ Among(e, b)
  BY <1>3 DEF Among
<1>7. Among(e, a) \/ Among(e, b) => Among(e, c)
  BY <1>4, <1>5 DEF Among
<1>. QED BY <1>1, <1>6, <1>7

LEMMA AppendedAmong ==
  ASSUME NEW a \in Seq(Event), NEW e \in Event, NEW f
  PROVE  Among(f, Append(a, e)) <=> Among(f, a) \/ f = e
<1>1. PICK c : c = Append(a, e)
  OBVIOUS
<1>2. /\ Len(a) \in Nat /\ DOMAIN a = 1 .. Len(a) /\ DOMAIN c = 1 .. Len(a) + 1
      /\ c[Len(a) + 1] = e /\ \A i \in 1 .. Len(a) : c[i] = a[i]
  BY <1>1, AppendProperties, LenProperties
<1>3. Among(f, c) => Among(f, a) \/ f = e
  BY <1>1, AppendedHas DEF Among
<1>4. Among(f, a) => Among(f, c)
  BY <1>2 DEF Among
<1>5. Len(a) + 1 \in DOMAIN c
  BY <1>2
<1>6. f = e => Among(f, c)
  BY <1>2, <1>5 DEF Among
<1>. QED BY <1>1, <1>3, <1>4, <1>6

LEMMA StepSource ==
  ASSUME Types, NEW x, NEW r \in TraceType, StepOf(x, r), NEW e, Has(x, e)
  PROVE  Source(e, r)
<1>1. r.got \in Seq(Event) /\ r.delayed \in Seq(Event) /\ ~Among(e, <<>>)
  BY DEF TraceType, Among
<1>2. CASE x = r
  BY <1>2 DEF Source
<1>3. CASE x = NoTrace
  <2>1. x.got = <<>> /\ x.delayed = <<>>
    BY <1>3 DEF NoTrace
  <2>. QED BY <1>1, <2>1 DEF Has
<1>4. CASE Began(x, r)
  <2>1. PICK q : Begun(x, q)
    BY <1>4 DEF Began
  <2>2. x.got = FirstGot(q) /\ x.delayed = <<>>
    BY <2>1 DEF Begun, Is
  <2>. QED BY <1>1, <2>2, FirstGotSource DEF Has, Among
<1>5. ASSUME NEW uri, NEW f \in Event, f.kind \in {"live", "delta"}, Comes(f), Given(x, r, uri, f)
      PROVE  Source(e, r)
  <2>1. /\ x.got = r.got \/ x.got = Append(r.got, f)
        /\ x.delayed = r.delayed \/ x.delayed = Append(r.delayed, f)
    BY <1>5 DEF Given, Is, GotOf, DelayedOf
  <2>2. Has(r, e) \/ e = f
    <3>1. Among(e, Append(r.got, f)) => Among(e, r.got) \/ e = f
      BY <1>1, <1>5, AppendedAmong
    <3>2. Among(e, Append(r.delayed, f)) => Among(e, r.delayed) \/ e = f
      BY <1>1, <1>5, AppendedAmong
    <3>. QED BY <2>1, <3>1, <3>2 DEF Has
  <2>. QED BY <1>5, <2>2 DEF Source
<1>6. CASE Woken(x, r) \/ TimedOut(x, r) \/ Ended(x, r)
  <2>1. x.got = r.got /\ (x.delayed = r.delayed \/ x.delayed = <<>>)
    BY <1>6 DEF Woken, TimedOut, Ended, Is
  <2>. QED BY <1>1, <2>1 DEF Source, Has
<1>7. CASE DoneHistory(x, r) \/ Finished(x, r)
  <2>1. /\ x.got = r.got \/ x.got = r.got \o r.delayed
        /\ x.delayed = r.delayed \/ x.delayed = <<>>
    BY <1>7 DEF DoneHistory, Finished, Is, Flushed
  <2>2. Has(r, e)
    <3>1. Among(e, r.got \o r.delayed) => Among(e, r.got) \/ Among(e, r.delayed)
      BY <1>1, JoinedAmong
    <3>. QED BY <1>1, <2>1, <3>1 DEF Has
  <2>. QED BY <2>2 DEF Source
<1>8. CASE Selected(x, r)
  <2>1. x.got = Sent(r, "history", HistoryAfter(r)) /\ x.delayed = r.delayed
    BY <1>8 DEF Selected, Is
  <2>2. \A k \in DOMAIN x.got : Source(x.got[k], r)
    BY <2>1, SentSource
  <2>. QED BY <2>1, <2>2 DEF Source, Has, Among
<1>9. CASE Looked(x, r) \/ Shown(x, r)
  <2>1. x.delayed = r.delayed /\ (x.got = Sent(r, "retained", RetainedRows(r.uri, kv)) \/ x.got = r.got)
    BY <1>9 DEF Looked, Shown, Is
  <2>2. CASE x.got = r.got
    BY <2>1, <2>2 DEF Source, Has
  <2>3. CASE x.got = Sent(r, "retained", RetainedRows(r.uri, kv))
    <3>1. \A k \in DOMAIN x.got : Source(x.got[k], r)
      BY <2>3, SentSource
    <3>. QED BY <2>1, <3>1 DEF Source, Has, Among
  <2>. QED BY <2>1, <2>2, <2>3
<1>. QED BY <1>2, <1>3, <1>4, <1>5, <1>6, <1>7, <1>8, <1>9 DEF StepOf

-----------------------------------------------------------------------------
(* No event that was sent or held back is newer than the last id, and no   *)
(* live one is as new as the event whose turn it is.                       *)
Live == {"live"}
Both == {"history", "live"}
Under(n) == \A i \in DOMAIN push : push[i].pc = "inserted" => n < push[i].id
Low(e) == e.kind \in Both => e.id <= lastId /\ (e.kind = "live" => Under(e.id))
LowOf(r) == \A e : Has(r, e) => Low(e)
LowInv == \A t \in Trace : LowOf(trace[t])

(* A push is inserted with a new id. *)
LEMMA InsertedIs ==
  ASSUME Types, Next, NEW j \in DOMAIN push', push'[j].pc = "inserted"
  PROVE  push'[j].id = lastId + 1 \/ (j \in DOMAIN push /\ push'[j] = push[j] /\ ~Disperse(j))
<1>. USE DEF Types
<1>1. DOMAIN push = 1 .. Len(push) /\ Len(push) \in Nat
  BY PushIndices
<1>2. ASSUME NEW p, NEW id, NEW pc, Grown(p, id, pc), pc # "inserted"
      PROVE j \in DOMAIN push /\ push'[j] = push[j]
  <2>1. DOMAIN push' = 1 .. Len(push) + 1
    BY <1>1, <1>2, LenProperties DEF Grown
  <2>2. j # Len(push) + 1
    BY <1>2 DEF Grown, Same
  <2>. QED BY <1>1, <1>2, <2>1, <2>2 DEF Grown
<1>3. ASSUME NEW i \in DOMAIN push, NEW id, NEW pc, Moved(i, id, pc), pc # "inserted" \/ id = lastId + 1
      PROVE push'[j].id = lastId + 1 \/ (j \in DOMAIN push /\ push'[j] = push[j])
  <2>1. DOMAIN push' = DOMAIN push
    BY <1>1, <1>3, LenProperties DEF Moved
  <2>. QED BY <1>3, <2>1 DEF Moved, Same
<1>4. ASSUME Disperse(j), j \in DOMAIN push PROVE push'[j] # push[j]
  <2>1. push[j].pc = "inserted" /\ \E pc \in {"done", "dispersed"} : push' = PushAt(j, pc)
    BY <1>4 DEF Disperse
  <2>2. \E pc \in {"done", "dispersed"} : Moved(j, push[j].id, pc)
    BY <1>4, <2>1, AtIs
  <2>. QED BY <2>1, <2>2 DEF Moved, Same
<1>5. push'[j].id = lastId + 1 \/ (j \in DOMAIN push /\ push'[j] = push[j])
  <2>1. ASSUME NEW p \in PushRequest, PushMem(p) PROVE j \in DOMAIN push /\ push'[j] = push[j]
    <3>1. PICK pc : pc = IF p.retain = "no" THEN "done" ELSE "stored"
      OBVIOUS
    <3>2. Grown(p, lastId + 1, pc)
      BY <2>1, <3>1, PushMemIs
    <3>. QED BY <1>2, <3>1, <3>2
  <2>2. ASSUME NEW p \in PushRequest, EnqueueDb(p) PROVE j \in DOMAIN push /\ push'[j] = push[j]
    BY <1>2, <2>2, EnqueueDbIs
  <2>3. ASSUME NEW i \in DOMAIN push, Insert(i)
        PROVE push'[j].id = lastId + 1 \/ (j \in DOMAIN push /\ push'[j] = push[j])
    BY <1>3, <2>3, InsertIs
  <2>4. ASSUME NEW i \in DOMAIN push,
               InsertFails(i) \/ Disperse(i) \/ StoreDb(i) \/ ResolveRetainedEventWaiters(i)
        PROVE push'[j].id = lastId + 1 \/ (j \in DOMAIN push /\ push'[j] = push[j])
    <3>1. \E pc \in {"failed", "dispersed", "stored", "done"} : push' = PushAt(i, pc)
      BY <2>4 DEF InsertFails, Disperse, StoreDb, ResolveRetainedEventWaiters
    <3>2. \E pc \in {"failed", "dispersed", "stored", "done"} : Moved(i, push[i].id, pc)
      BY <3>1, AtIs
    <3>. QED BY <1>3, <3>2
  <2>5. ASSUME push' = push PROVE j \in DOMAIN push /\ push'[j] = push[j]
    BY <2>5
  <2>6. ASSUME NEW t \in Trace, (\E s \in Session, r \in TraceRequest : CmdTrace(t, s, r))
                                \/ Replay(t) \/ Timeout(t) \/ CmdUnTrace(t)
        PROVE j \in DOMAIN push /\ push'[j] = push[j]
    BY <2>5, <2>6 DEF CmdTrace, Replay, SelectHistory, HistoryDone, SnapshotRetained, SelectRetained,
                      SnapshotDone, CmdUnTrace, Continue, Timeout
  <2>7. ASSUME NEW s \in Session, LeaveSession(s) PROVE j \in DOMAIN push /\ push'[j] = push[j]
    BY <2>5, <2>7 DEF LeaveSession
  <2>8. ~Restart
    <3>. SUFFICES ASSUME Restart PROVE FALSE
      OBVIOUS
    <3>1. DOMAIN push' = DOMAIN push
      BY <1>1, RestartIs, LenProperties
    <3>. QED BY <3>1, RestartIs DEF Same
  <2>. QED BY <2>1, <2>2, <2>3, <2>4, <2>6, <2>7, <2>8 DEF Next
<1>. QED BY <1>4, <1>5

LEMMA UnderStays ==
  ASSUME Types, Next, NEW n \in Nat, n <= lastId, Under(n)
  PROVE  Under(n)'
<1>1. lastId \in Nat
  BY DEF Types, EngineTypes
<1>. SUFFICES ASSUME NEW j \in DOMAIN push', push'[j].pc = "inserted" PROVE n < push'[j].id
  BY DEF Under
<1>. QED BY <1>1, InsertedIs DEF Under

LEMMA ComesLow ==
  ASSUME Types, Serial, Next, NEW e \in Event, e.kind = "live", Comes(e)
  PROVE  e.id <= lastId' /\ Under(e.id)'
<1>1. lastId \in Nat /\ lastId' \in Nat /\ lastId' >= lastId /\ DOMAIN push = 1 .. Len(push) /\ Len(push) \in Nat
  BY IdsGrow, PushIndices DEF Types, EngineTypes
<1>2. CASE engine = "mem" /\ e.id = lastId + 1 /\ e.id <= lastId'
  <2>1. ASSUME NEW j \in DOMAIN push', push'[j].pc = "inserted" PROVE FALSE
    <3>1. engine' = "mem" \/ Restart
      BY <1>2 DEF Next, PushMem, EnqueueDb, Insert, InsertFails, Disperse, StoreDb, ResolveRetainedEventWaiters,
                  CmdTrace, Replay, SelectHistory, HistoryDone, SnapshotRetained, SelectRetained, SnapshotDone,
                  CmdUnTrace, Continue, Timeout, LeaveSession
    <3>2. engine' = "mem"
      BY <1>2, <3>1 DEF Restart
    <3>. QED BY <2>1, <3>2, SerialStep DEF Serial
  <2>. QED BY <1>2, <2>1 DEF Under
<1>3. ASSUME NEW i \in DOMAIN push, Disperse(i), e.id = push[i].id PROVE e.id <= lastId' /\ Under(e.id)'
  <2>1. push[i].id \in 0 .. lastId /\ push[i].pc = "inserted" /\ engine \in {"mem", "db"}
    BY <1>3, PushTyped DEF Disperse, Types, EngineTypes
  <2>2. engine = "db"
    BY <2>1 DEF Serial
  <2>3. ASSUME NEW j \in DOMAIN push', push'[j].pc = "inserted" PROVE e.id < push'[j].id
    <3>1. CASE push'[j].id = lastId + 1
      BY <1>1, <1>3, <2>1, <3>1
    <3>2. CASE j \in DOMAIN push /\ push'[j] = push[j] /\ ~Disperse(j)
      <4>1. j # i /\ push[j].pc = "inserted"
        BY <1>3, <2>3, <3>2
      <4>2. CASE i < j
        BY <2>1, <2>2, <3>2, <4>1, <4>2 DEF Serial
      <4>3. CASE j < i
        BY <2>1, <2>2, <3>2, <4>1, <4>3 DEF Serial
      <4>. QED BY <1>1, <3>2, <4>1, <4>2, <4>3
    <3>. QED BY <2>3, <3>1, <3>2, InsertedIs
  <2>. QED BY <1>1, <1>3, <2>1, <2>3 DEF Under
<1>. QED BY <1>2, <1>3 DEF Comes

LEMMA LowStep ==
  ASSUME Types, Serial, LowInv, Next
  PROVE  LowInv'
<1>1. lastId \in Nat /\ lastId' \in Nat /\ lastId' >= lastId
  BY IdsGrow DEF Types, EngineTypes
<1>2. ASSUME NEW t \in Trace, NEW e, Has(trace'[t], e), e.kind \in Both
      PROVE  e.id <= lastId' /\ (e.kind = "live" => Under(e.id)')
  <2>1. trace[t] \in TraceType /\ StepOf(trace'[t], trace[t]) /\ LowOf(trace[t])
    BY TraceTyped, TraceStep DEF Types, LowInv
  <2>2. Source(e, trace[t])
    BY <1>2, <2>1, StepSource
  <2>3. CASE Has(trace[t], e)
    <3>1. e.id <= lastId /\ (e.kind = "live" => Under(e.id))
      BY <1>2, <2>1, <2>3 DEF LowOf, Low
    <3>2. e \in Event
      <4>1. trace[t].got \in Seq(Event) /\ trace[t].delayed \in Seq(Event)
        BY <2>1 DEF TraceType
      <4>2. \A a \in Seq(Event) : \A k \in DOMAIN a : a[k] \in Event
        BY ElementOfSeq, LenProperties
      <4>. QED BY <2>3, <4>1, <4>2 DEF Has, Among
    <3>3. e.id \in Nat
      BY <3>2 DEF Event
    <3>. QED BY <1>1, <3>1, <3>3, UnderStays
  <2>4. CASE e.kind = "history" /\ e.id \in 1 .. lastId
    BY <1>1, <2>4
  <2>5. CASE e.kind \in {"live", "delta"} /\ e \in Event /\ Comes(e)
    <3>1. e.kind = "live"
      BY <1>2, <2>5 DEF Both
    <3>. QED BY <2>5, <3>1, ComesLow
  <2>. QED BY <1>2, <2>2, <2>3, <2>4, <2>5 DEF Source, Both
<1>3. ASSUME NEW t \in Trace, NEW e, Has(trace[t], e)' PROVE Low(e)'
  <2>1. Has(trace'[t], e)
    BY <1>3 DEF Has, Among
  <2>. QED BY <1>2, <2>1 DEF Low
<1>. QED BY <1>3 DEF LowInv, LowOf

LEMMA EngineStays == ASSUME Types, Next PROVE engine' = engine
  BY DEF Next, PushMem, EnqueueDb, Insert, InsertFails, Disperse, StoreDb, ResolveRetainedEventWaiters,
         CmdTrace, Replay, SelectHistory, HistoryDone, SnapshotRetained, SelectRetained, SnapshotDone,
         CmdUnTrace, Continue, Timeout, LeaveSession, Restart

(* The order in which a subscription is sent its events.                   *)
Tidy(r) ==
  /\ r.started => r.delayed = <<>>
  /\ \A k \in DOMAIN r.delayed : r.delayed[k].kind \in {"live", "delta"}
  /\ r.history \in {"none", "select"} => \A k \in DOMAIN r.got : r.got[k].kind # "history"
  /\ engine = "mem" => r.history # "select"
InTurn(r) ==
  /\ Ordered(r.got, r.delayed, Live)
  /\ Ascending(r.got, {"history"})
  /\ engine = "mem" => Ordered(r.got, r.delayed, Both)
OrderInv == \A t \in Trace : Tidy(trace[t]) /\ InTurn(trace[t])

LEMMA StepTidy ==
  ASSUME Types, NEW x, NEW r \in TraceType, StepOf(x, r), Tidy(r)
  PROVE  Tidy(x)
<1>1. r.got \in Seq(Event) /\ r.delayed \in Seq(Event) /\ DOMAIN <<>> = {}
  BY DEF TraceType
<1>2. CASE x = NoTrace
  BY <1>1, <1>2 DEF NoTrace, Tidy
<1>3. CASE Began(x, r)
  <2>1. PICK q : Begun(x, q)
    BY <1>3 DEF Began
  <2>2. x.got = FirstGot(q) /\ x.delayed = <<>> /\ x.history = HistoryState(q)
    BY <2>1 DEF Begun, Is
  <2>3. (engine = "mem" => x.history # "select") /\ x.history # "none"
    BY <2>2 DEF HistoryState
  <2>4. x.history = "select" => x.got = <<>>
    BY <2>2 DEF HistoryState, FirstGot, HistoryGot
  <2>. QED BY <1>1, <2>2, <2>3, <2>4 DEF Tidy
<1>4. ASSUME NEW uri, NEW e \in Event, e.kind \in {"live", "delta"}, Given(x, r, uri, e) PROVE Tidy(x)
  <2>1. /\ x.got = r.got \/ x.got = Append(r.got, e)
        /\ x.delayed = r.delayed \/ (x.delayed = Append(r.delayed, e) /\ ~r.started)
        /\ x.started = r.started /\ x.history = r.history
    BY <1>4 DEF Given, Is, GotOf, DelayedOf
  <2>2. \A k \in DOMAIN x.delayed : x.delayed[k].kind \in {"live", "delta"}
    BY <1>1, <1>4, <2>1, AppendedHas DEF Tidy
  <2>3. ASSUME r.history \in {"none", "select"}, NEW k \in DOMAIN x.got PROVE x.got[k].kind # "history"
    <3>1. \A j \in DOMAIN r.got : r.got[j].kind # "history"
      BY <2>3 DEF Tidy
    <3>2. CASE x.got = r.got
      BY <2>3, <3>1, <3>2
    <3>3. CASE x.got = Append(r.got, e)
      <4>1. k \in DOMAIN Append(r.got, e) /\ x.got[k] = Append(r.got, e)[k]
        BY <2>3, <3>3
      <4>2. CASE k \in DOMAIN r.got /\ Append(r.got, e)[k] = r.got[k]
        BY <3>1, <4>1, <4>2
      <4>3. CASE Append(r.got, e)[k] = e
        BY <1>4, <4>1, <4>3
      <4>. QED BY <1>1, <4>1, <4>2, <4>3, AppendedHas
    <3>. QED BY <2>1, <3>2, <3>3
  <2>4. x.started => x.delayed = <<>>
    BY <2>1 DEF Tidy
  <2>5. x.history = r.history /\ (engine = "mem" => x.history # "select")
    BY <2>1 DEF Tidy
  <2>. QED BY <2>2, <2>3, <2>4, <2>5 DEF Tidy
<1>5. CASE Woken(x, r) \/ TimedOut(x, r) \/ Ended(x, r)
  BY <1>1, <1>5 DEF Woken, TimedOut, Ended, Is, Tidy
<1>6. CASE DoneHistory(x, r) \/ Finished(x, r)
  <2>1. x.history = "done" /\ (x.delayed = <<>> \/ (x.delayed = r.delayed /\ (x.started => r.started)))
    BY <1>6 DEF DoneHistory, Finished, Is
  <2>. QED BY <1>1, <2>1 DEF Tidy
<1>7. CASE Selected(x, r)
  <2>1. x.history = "sent" /\ x.delayed = r.delayed /\ x.started = r.started
    BY <1>7 DEF Selected, Is
  <2>. QED BY <2>1 DEF Tidy
<1>8. CASE Looked(x, r) \/ Shown(x, r)
  <2>1. /\ x.history = r.history /\ x.delayed = r.delayed /\ x.started = r.started
        /\ x.got = Sent(r, "retained", RetainedRows(r.uri, kv)) \/ x.got = r.got
    BY <1>8 DEF Looked, Shown, Is
  <2>2. RetainedRows(r.uri, kv) \in Seq(Nat)
    BY RetainedTyped DEF Types
  <2>3. r.history \in {"none", "select"} => \A k \in DOMAIN x.got : x.got[k].kind # "history"
    BY <2>1, <2>2, SentHas DEF Tidy
  <2>. QED BY <2>1, <2>3 DEF Tidy
<1>. QED BY <1>2, <1>3, <1>4, <1>5, <1>6, <1>7, <1>8 DEF StepOf

LEMMA FirstGotInTurn ==
  ASSUME Types, HistoryAscends, NEW q
  PROVE  \A kinds : "retained" \notin kinds => Ascending(FirstGot(q), kinds)
<1>. SUFFICES ASSUME NEW kinds, "retained" \notin kinds PROVE Ascending(FirstGot(q), kinds)
  OBVIOUS
<1>1. PICK g, a, b, ids : /\ g = FirstGot(q) /\ a = OfKind("retained", RetainedRows(q.uri, kv))
                          /\ b = OfKind("history", ids) /\ ids = HistoryAfter(q)
  OBVIOUS
<1>2. g = <<>> \/ g = a \/ g = b
  BY <1>1 DEF FirstGot, HistoryGot
<1>3. Ascending(a, kinds)
  BY <1>1 DEF OfKind, Ascending
<1>4. ids \in Seq(Nat) /\ \A i, j \in 1 .. Len(ids) : i < j => ids[i] < ids[j]
  BY <1>1, HistoryTyped, HistoryAfterAscends DEF Types, EngineTypes
<1>5. DOMAIN b = 1 .. Len(ids) /\ \A i \in 1 .. Len(ids) : b[i].id = ids[i]
  BY <1>1, <1>4, LenProperties DEF OfKind
<1>6. Ascending(b, kinds)
  BY <1>4, <1>5 DEF Ascending
<1>. QED BY <1>1, <1>2, <1>3, <1>6, EmptyOrdered

(* What comes is newer than what was there. *)
LEMMA ComesAfter ==
  ASSUME Types, NEW r \in TraceType, LowOf(r), NEW e \in Event, e.kind \in {"live", "delta"}, Comes(e),
         NEW kinds, kinds = Live \/ (engine = "mem" /\ kinds = Both),
         Serial
  PROVE  Before(r.got, e, kinds) /\ Before(r.delayed, e, kinds)
<1>1. ASSUME NEW f, Has(r, f), f.kind \in kinds, e.kind \in kinds PROVE f.id < e.id
  <2>1. f.kind \in Both /\ e.kind = "live" /\ lastId \in Nat /\ engine \in {"mem", "db"}
    BY <1>1 DEF Live, Both, Types, EngineTypes
  <2>2. f.id <= lastId /\ (f.kind = "live" => Under(f.id))
    BY <1>1, <2>1 DEF LowOf, Low
  <2>3. f.id \in Nat
    <3>1. r.got \in Seq(Event) /\ r.delayed \in Seq(Event)
      BY DEF TraceType
    <3>2. \A a \in Seq(Event) : \A k \in DOMAIN a : a[k] \in Event
      BY ElementOfSeq, LenProperties
    <3>3. f \in Event
      BY <1>1, <3>1, <3>2 DEF Has, Among
    <3>. QED BY <3>3 DEF Event
  <2>4. CASE e.id = lastId + 1
    BY <2>1, <2>2, <2>3, <2>4
  <2>5. ASSUME NEW i \in DOMAIN push, Disperse(i), e.id = push[i].id PROVE f.id < e.id
    <3>1. push[i].pc = "inserted"
      BY <2>5 DEF Disperse
    <3>2. engine = "db"
      BY <2>1, <3>1 DEF Serial
    <3>3. f.kind = "live"
      BY <1>1, <3>2 DEF Live
    <3>. QED BY <2>2, <2>5, <3>1, <3>3 DEF Under
  <2>. QED BY <2>1, <2>4, <2>5 DEF Comes
<1>. QED BY <1>1 DEF Before, Has, Among

LEMMA GivenInTurn ==
  ASSUME NEW r \in TraceType, NEW uri, NEW e \in Event, NEW x, Given(x, r, uri, e), Tidy(r),
         NEW kinds, Ordered(r.got, r.delayed, kinds), Before(r.got, e, kinds), Before(r.delayed, e, kinds)
  PROVE  Ordered(x.got, x.delayed, kinds)
<1>1. r.got \in Seq(Event) /\ r.delayed \in Seq(Event)
  BY DEF TraceType
<1>2. x.got = GotOf(r, uri, e) /\ x.delayed = DelayedOf(r, uri, e)
  BY DEF Given, Is
<1>3. CASE Reaches(r, uri, e) /\ r.started
  <2>1. x.got = Append(r.got, e) /\ x.delayed = <<>>
    BY <1>2, <1>3 DEF GotOf, DelayedOf, Tidy
  <2>. QED BY <1>1, <2>1, SendOrdered DEF Ordered
<1>4. CASE Reaches(r, uri, e) /\ ~r.started /\ ~r.snapshot
  <2>1. x.got = r.got /\ x.delayed = Append(r.delayed, e)
    BY <1>2, <1>4 DEF GotOf, DelayedOf
  <2>. QED BY <1>1, <2>1, DelayOrdered
<1>5. CASE ~Reaches(r, uri, e) \/ (~r.started /\ r.snapshot)
  BY <1>2, <1>5 DEF GotOf, DelayedOf
<1>. QED BY <1>3, <1>4, <1>5

LEMMA StepInTurn ==
  ASSUME Types, Serial, HistoryAscends, NEW x, NEW r \in TraceType, StepOf(x, r), Tidy(r), LowOf(r), InTurn(r)
  PROVE  InTurn(x)
<1>1. r.got \in Seq(Event) /\ r.delayed \in Seq(Event) /\ \A a \in Seq(Event) : a \o <<>> = a
  BY ConcatEmptySeq DEF TraceType
<1>2. "retained" \notin Live /\ "retained" \notin Both /\ "retained" \notin {"history"}
      /\ "history" \notin Live
  BY DEF Live, Both
<1>3. CASE x = NoTrace
  BY <1>3, EmptyOrdered DEF NoTrace, InTurn, Ordered
<1>4. CASE Began(x, r)
  <2>1. PICK q : Begun(x, q)
    BY <1>4 DEF Began
  <2>2. x.got = FirstGot(q) /\ x.delayed = <<>>
    BY <2>1 DEF Begun, Is
  <2>3. \A kinds : "retained" \notin kinds => Ascending(x.got, kinds)
    BY <2>2, FirstGotInTurn
  <2>4. Ascending(x.got, Live) /\ Ascending(x.got, Both) /\ Ascending(x.got, {"history"})
    BY <1>2, <2>3
  <2>. QED BY <2>2, <2>4, EmptyOrdered DEF InTurn, Ordered
<1>5. ASSUME NEW uri, NEW e \in Event, e.kind \in {"live", "delta"}, Comes(e), Given(x, r, uri, e)
      PROVE  InTurn(x)
  <2>1. Ordered(x.got, x.delayed, Live)
    <3>1. PICK kinds : kinds = Live
      OBVIOUS
    <3>2. Before(r.got, e, kinds) /\ Before(r.delayed, e, kinds)
      BY <1>5, <3>1, ComesAfter
    <3>3. Ordered(r.got, r.delayed, kinds)
      BY <3>1 DEF InTurn
    <3>. QED BY <1>5, <3>1, <3>2, <3>3, GivenInTurn
  <2>2. engine = "mem" => Ordered(x.got, x.delayed, Both)
    <3>. SUFFICES ASSUME engine = "mem" PROVE Ordered(x.got, x.delayed, Both)
      OBVIOUS
    <3>1. PICK kinds : kinds = Both
      OBVIOUS
    <3>2. Before(r.got, e, kinds) /\ Before(r.delayed, e, kinds)
      BY <1>5, <3>1, ComesAfter
    <3>3. Ordered(r.got, r.delayed, kinds)
      BY <3>1 DEF InTurn
    <3>. QED BY <1>5, <3>1, <3>2, <3>3, GivenInTurn
  <2>3. Ascending(x.got, {"history"})
    <3>1. x.got = r.got \/ x.got = Append(r.got, e)
      BY <1>5 DEF Given, Is, GotOf
    <3>2. Before(r.got, e, {"history"})
      BY <1>5 DEF Before
    <3>3. Ascending(Append(r.got, e), {"history"})
      BY <1>1, <3>2, AppendedAscends DEF InTurn
    <3>. QED BY <3>1, <3>3 DEF InTurn
  <2>. QED BY <2>1, <2>2, <2>3 DEF InTurn
<1>6. CASE Woken(x, r) \/ TimedOut(x, r) \/ Ended(x, r)
  <2>1. x.got = r.got /\ (x.delayed = r.delayed \/ x.delayed = <<>>)
    BY <1>6 DEF Woken, TimedOut, Ended, Is
  <2>. QED BY <2>1, EmptyOrdered DEF InTurn, Ordered
<1>7. CASE DoneHistory(x, r) \/ Finished(x, r)
  <2>1. \/ x.got = r.got /\ x.delayed = r.delayed
        \/ x.got = r.got /\ x.delayed = <<>>
        \/ x.got = r.got \o r.delayed /\ x.delayed = <<>>
    BY <1>7 DEF DoneHistory, Finished, Is, Flushed
  <2>2. CASE x.got = r.got /\ (x.delayed = r.delayed \/ x.delayed = <<>>)
    BY <2>2, EmptyOrdered DEF InTurn, Ordered
  <2>3. CASE x.got = r.got \o r.delayed /\ x.delayed = <<>>
    <3>1. Ordered(x.got, x.delayed, Live) /\ (engine = "mem" => Ordered(x.got, x.delayed, Both))
      BY <1>1, <2>3, FlushOrdered DEF InTurn
    <3>2. Ascending(r.delayed, {"history"}) /\ AllBelow(r.got, r.delayed, {"history"})
      BY DEF Tidy, Ascending, AllBelow
    <3>3. Ascending(r.got \o r.delayed, {"history"})
      BY <1>1, <3>2, JoinedAscends DEF InTurn
    <3>. QED BY <2>3, <3>1, <3>3 DEF InTurn
  <2>. QED BY <2>1, <2>2, <2>3
<1>8. CASE Selected(x, r)
  <2>1. PICK ids, kind : ids = HistoryAfter(r) /\ kind = "history"
    OBVIOUS
  <2>2. x.got = Sent(r, kind, ids) /\ x.delayed = r.delayed /\ r.history = "select"
    BY <1>8, <2>1 DEF Selected, Is
  <2>3. ids \in Seq(Nat) /\ \A i, j \in 1 .. Len(ids) : i < j => ids[i] < ids[j]
    BY <2>1, HistoryTyped, HistoryAfterAscends DEF Types, EngineTypes
  <2>4. Ascending(x.got, {"history"})
    <3>1. \A k \in DOMAIN r.got : r.got[k].kind # "history"
      BY <2>2 DEF Tidy
    <3>. QED BY <2>1, <2>2, <2>3, <3>1, SentAscends
  <2>5. Ordered(x.got, x.delayed, Live)
    <3>1. kind \in {"live", "delta", "history", "retained"} /\ kind \notin Live
      BY <1>2, <2>1
    <3>. QED BY <2>2, <2>3, <3>1, SentOrdered DEF InTurn
  <2>6. engine # "mem"
    BY <2>2 DEF Tidy
  <2>. QED BY <2>4, <2>5, <2>6 DEF InTurn
<1>9. CASE Looked(x, r) \/ Shown(x, r)
  <2>1. PICK ids, kind : ids = RetainedRows(r.uri, kv) /\ kind = "retained"
    OBVIOUS
  <2>2. x.delayed = r.delayed /\ (x.got = Sent(r, kind, ids) \/ x.got = r.got)
    BY <1>9, <2>1 DEF Looked, Shown, Is
  <2>3. ids \in Seq(Nat) /\ kind \in {"live", "delta", "history", "retained"}
    BY <2>1, RetainedTyped DEF Types
  <2>4. CASE x.got = r.got
    BY <2>2, <2>4 DEF InTurn
  <2>5. CASE x.got = Sent(r, kind, ids)
    <3>1. Ordered(x.got, x.delayed, Live)
      BY <1>2, <2>1, <2>2, <2>3, <2>5, SentOrdered DEF InTurn
    <3>2. engine = "mem" => Ordered(x.got, x.delayed, Both)
      BY <1>2, <2>1, <2>2, <2>3, <2>5, SentOrdered DEF InTurn
    <3>3. Ascending(x.got, {"history"})
      BY <1>2, <2>1, <2>2, <2>3, <2>5, SentOrdered DEF InTurn
    <3>. QED BY <3>1, <3>2, <3>3 DEF InTurn
  <2>. QED BY <2>2, <2>4, <2>5
<1>. QED BY <1>3, <1>4, <1>5, <1>6, <1>7, <1>8, <1>9 DEF StepOf

OrderAll == HistoryAscends /\ LowInv /\ OrderInv

LEMMA OrderAllStep ==
  ASSUME Types, Serial, OrderAll, Next
  PROVE  OrderAll'
<1>1. HistoryAscends' /\ LowInv'
  BY HistoryAscendsStep, LowStep DEF OrderAll
<1>2. ASSUME NEW t \in Trace PROVE (Tidy(trace[t]) /\ InTurn(trace[t]))'
  <2>1. /\ trace[t] \in TraceType /\ StepOf(trace'[t], trace[t])
        /\ Tidy(trace[t]) /\ InTurn(trace[t]) /\ LowOf(trace[t])
    BY TraceTyped, TraceStep DEF Types, OrderAll, OrderInv, LowInv
  <2>2. Tidy(trace'[t]) /\ InTurn(trace'[t])
    BY <2>1, StepTidy, StepInTurn DEF OrderAll
  <2>. QED BY <2>2, EngineStays DEF Tidy, InTurn
<1>. QED BY <1>1, <1>2 DEF OrderAll, OrderInv

LEMMA OrderAlways == Spec => []OrderAll
<1>1. Init => OrderAll
  <2>. SUFFICES ASSUME Init PROVE OrderAll
    OBVIOUS
  <2>1. HistoryAscends
    BY DEF Init, HistoryAscends
  <2>2. /\ NoTrace.got = <<>> /\ NoTrace.delayed = <<>> /\ NoTrace.history = "none"
        /\ DOMAIN <<>> = {}
    BY DEF NoTrace
  <2>3. Tidy(NoTrace) /\ InTurn(NoTrace) /\ LowOf(NoTrace)
    BY <2>2, EmptyOrdered DEF Tidy, InTurn, Ordered, LowOf, Has, Among
  <2>4. \A t \in Trace : trace[t] = NoTrace
    BY DEF Init
  <2>. QED BY <2>1, <2>3, <2>4 DEF OrderAll, OrderInv, LowInv
<1>2. Types /\ SerialInv /\ OrderAll /\ [Next]_vars => OrderAll'
  <2>. SUFFICES ASSUME Types, SerialInv, OrderAll, [Next]_vars PROVE OrderAll'
    OBVIOUS
  <2>1. CASE Next
    BY <2>1, OrderAllStep DEF SerialInv
  <2>2. CASE UNCHANGED vars
    BY <2>2 DEF vars, OrderAll, HistoryAscends, LowInv, LowOf, Has, Among, Low, Under, OrderInv, Tidy, InTurn
  <2>. QED BY <2>1, <2>2
<1>. QED BY <1>1, <1>2, TypesAlways, SerialAlways, PTL DEF Spec

(* Every subscription is sent its events in the order of the pushes and    *)
(* each once: those of the history, the live ones, and in memory all.      *)
THEOREM InOrderCorrect == Spec => []InOrder
<1>1. OrderAll => InOrder
  BY DEF OrderAll, OrderInv, InTurn, Ordered, Live, Both, InOrder
<1>. QED BY <1>1, OrderAlways, PTL

-----------------------------------------------------------------------------
(* No event falls into the gap.  A row of the history is as it was, or of  *)
(* the push that is being done.                                            *)
LEMMA RowIs ==
  ASSUME Types, Next, NEW i \in DOMAIN history'
  PROVE  \/ i \in DOMAIN history /\ history'[i] = history[i]
         \/ /\ history'[i].id = lastId + 1
            /\ \/ \E p \in PushRequest : PushMem(p) /\ history'[i].uri = p.uri
               \/ \E j \in DOMAIN push : Insert(j) /\ history'[i].uri = push[j].uri
<1>. USE DEF Types
<1>1. Len(history) \in Nat /\ DOMAIN history = 1 .. Len(history)
  <2>1. history \in Seq([id : 1 .. lastId, uri : Topic])
    BY DEF StoreTypes
  <2>. QED BY <2>1, LenProperties
<1>2. ASSUME NEW p, SaveHistory(p, lastId + 1), history' # history
      PROVE  \/ i \in DOMAIN history /\ history'[i] = history[i]
             \/ history'[i].id = lastId + 1 /\ history'[i].uri = p.uri
  <2>1. PICK h : h = [id |-> lastId + 1, uri |-> p.uri]
    OBVIOUS
  <2>2. history' = Append(history, h)
    BY <1>2, <2>1 DEF SaveHistory
  <2>3. PICK S : S = [id : 1 .. lastId, uri : Topic] \cup {h}
    OBVIOUS
  <2>4. history \in Seq(S) /\ h \in S
    BY <2>3, SeqOfMore DEF StoreTypes
  <2>5. /\ DOMAIN history' = 1 .. Len(history) + 1 /\ history'[Len(history) + 1] = h
        /\ \A k \in 1 .. Len(history) : history'[k] = history[k]
    BY <2>2, <2>4, AppendProperties, LenProperties
  <2>6. CASE i = Len(history) + 1
    BY <2>1, <2>5, <2>6
  <2>7. CASE i # Len(history) + 1
    BY <1>1, <2>5, <2>7
  <2>. QED BY <2>6, <2>7
<1>3. CASE history' = history
  BY <1>3
<1>4. ASSUME history' # history
      PROVE (\E p \in PushRequest : PushMem(p)) \/ (\E j \in DOMAIN push : Insert(j))
  BY <1>4 DEF Next, EnqueueDb, InsertFails, Disperse, StoreDb, ResolveRetainedEventWaiters,
              CmdTrace, Replay, SelectHistory, HistoryDone, SnapshotRetained, SelectRetained, SnapshotDone,
              CmdUnTrace, Continue, Timeout, LeaveSession, Restart
<1>5. ASSUME NEW p \in PushRequest, PushMem(p) PROVE SaveHistory(p, lastId + 1)
  BY <1>5 DEF PushMem
<1>6. ASSUME NEW j \in DOMAIN push, Insert(j) PROVE SaveHistory(push[j], lastId + 1)
  BY <1>6 DEF Insert
<1>. QED BY <1>2, <1>3, <1>4, <1>5, <1>6

LEMMA RowTyped ==
  ASSUME StoreTypes, NEW i \in DOMAIN history
  PROVE  history[i].id \in 1 .. lastId /\ history[i].uri \in Topic
<1>1. history \in Seq([id : 1 .. lastId, uri : Topic])
  BY DEF StoreTypes
<1>2. history[i] \in [id : 1 .. lastId, uri : Topic]
  BY <1>1, ElementOfSeq, LenProperties
<1>. QED BY <1>2

(* A row and the push with its id have one topic. *)
RowsInv ==
  \A i \in DOMAIN history : \A j \in DOMAIN push :
    push[j].id = history[i].id => push[j].uri = history[i].uri

LEMMA RowsStep ==
  ASSUME Types, RowsInv, Next
  PROVE  RowsInv'
<1>. SUFFICES ASSUME NEW i \in DOMAIN history', NEW j \in DOMAIN push', push'[j].id = history'[i].id
              PROVE  push'[j].uri = history'[i].uri
  BY DEF RowsInv
<1>1. DOMAIN push = 1 .. Len(push) /\ Len(push) \in Nat /\ lastId \in Nat
      /\ \A k \in DOMAIN push : push[k].id # lastId + 1
  BY PushIndices, PushTyped DEF Types, EngineTypes
<1>2. CASE i \in DOMAIN history /\ history'[i] = history[i]
  <2>1. history[i].id \in 1 .. lastId
    BY <1>2, RowTyped DEF Types
  <2>2. history[i].id \in 0 .. lastId /\ push'[j].id \in 1 .. history[i].id
    BY <1>1, <1>2, <2>1
  <2>3. Onward(j, history[i].id)
    BY <2>2, PushesOnward
  <2>. QED BY <1>2, <2>2, <2>3 DEF Onward, RowsInv
<1>3. ASSUME history'[i].id = lastId + 1, NEW p \in PushRequest, PushMem(p), history'[i].uri = p.uri
      PROVE  push'[j].uri = history'[i].uri
  <2>1. PICK pc : Grown(p, lastId + 1, pc)
    BY <1>3, PushMemIs DEF Types
  <2>2. DOMAIN push' = 1 .. Len(push) + 1
    BY <1>1, <2>1, LenProperties DEF Grown
  <2>3. j = Len(push) + 1
    BY <1>1, <1>3, <2>1, <2>2 DEF Grown
  <2>. QED BY <1>3, <2>1, <2>3 DEF Grown, Same
<1>4. ASSUME history'[i].id = lastId + 1, NEW k \in DOMAIN push, Insert(k), history'[i].uri = push[k].uri
      PROVE  push'[j].uri = history'[i].uri
  <2>1. Moved(k, lastId + 1, "inserted")
    BY <1>4, InsertIs DEF Types
  <2>2. DOMAIN push' = DOMAIN push
    BY <1>1, <2>1, LenProperties DEF Moved
  <2>3. j = k
    BY <1>1, <1>4, <2>1, <2>2 DEF Moved
  <2>. QED BY <1>4, <2>1, <2>3 DEF Moved, Same
<1>. QED BY <1>2, <1>3, <1>4, RowIs

(* In memory the ids have at most two digits. *)
IdBound ==
  /\ Len(push) <= MaxPush
  /\ engine = "mem" => \E n \in FirstId : lastId <= n + 2 * Len(push)

LEMMA IdBoundStep ==
  ASSUME Types, Serial, IdBound, Next
  PROVE  IdBound'
<1>. USE DEF Types
<1>1. DOMAIN push = 1 .. Len(push) /\ Len(push) \in Nat /\ lastId \in Nat /\ engine' = engine
      /\ engine \in {"mem", "db"} /\ MaxPush \in Nat
  BY PushIndices, EngineStays, Bounds DEF EngineTypes
<1>2. ASSUME Len(push') = Len(push), lastId' = lastId \/ engine # "mem" PROVE IdBound'
  BY <1>1, <1>2 DEF IdBound
<1>3. ASSUME NEW p \in PushRequest, PushMem(p) PROVE IdBound'
  <2>1. Len(push') = Len(push) + 1 /\ Len(push) < MaxPush /\ engine = "mem"
    BY <1>3, PushMemIs DEF Grown, PushMem, MayPush
  <2>2. lastId' = lastId + 1 + 1 \/ lastId' = lastId + 1
    BY <1>3 DEF PushMem
  <2>3. PICK n \in FirstId : lastId <= n + 2 * Len(push)
    BY <2>1 DEF IdBound
  <2>4. n \in Nat
    BY Bounds
  <2>5. lastId' <= n + 2 * Len(push')
    BY <1>1, <2>1, <2>2, <2>3, <2>4
  <2>. QED BY <1>1, <2>1, <2>5 DEF IdBound
<1>4. ASSUME NEW p \in PushRequest, EnqueueDb(p) PROVE IdBound'
  <2>1. Len(push') = Len(push) + 1 /\ Len(push) < MaxPush /\ engine = "db"
    BY <1>4, EnqueueDbIs DEF Grown, EnqueueDb, MayPush
  <2>. QED BY <1>1, <2>1 DEF IdBound
<1>5. ASSUME NEW i \in DOMAIN push, Insert(i) \/ InsertFails(i) PROVE IdBound'
  <2>1. push[i].pc = "queued"
    BY <1>5 DEF Insert, InsertFails, Turn
  <2>2. engine # "mem"
    BY <2>1 DEF Serial
  <2>3. Len(push') = Len(push)
    BY <1>5, InsertIs, AtIs DEF Moved, InsertFails
  <2>. QED BY <1>2, <2>2, <2>3
<1>6. ASSUME NEW i \in DOMAIN push, Disperse(i) \/ StoreDb(i) \/ ResolveRetainedEventWaiters(i) PROVE IdBound'
  <2>1. lastId' = lastId /\ \E pc \in {"dispersed", "stored", "done"} : push' = PushAt(i, pc)
    BY <1>6 DEF Disperse, StoreDb, ResolveRetainedEventWaiters
  <2>2. Len(push') = Len(push)
    BY <2>1, AtIs DEF Moved
  <2>. QED BY <1>2, <2>1, <2>2
<1>7. ASSUME NEW t \in Trace, (\E s \in Session, r \in TraceRequest : CmdTrace(t, s, r))
                                \/ Replay(t) \/ Timeout(t) \/ CmdUnTrace(t)
       PROVE IdBound'
  BY <1>2, <1>7 DEF CmdTrace, Replay, SelectHistory, HistoryDone, SnapshotRetained, SelectRetained, SnapshotDone,
                   CmdUnTrace, Continue, Timeout
<1>8. ASSUME NEW s \in Session, LeaveSession(s) PROVE IdBound'
  BY <1>2, <1>8 DEF LeaveSession
<1>9. ASSUME Restart PROVE IdBound'
  BY <1>2, <1>9, RestartIs DEF Restart
<1>. QED BY <1>3, <1>4, <1>5, <1>6, <1>7, <1>8, <1>9 DEF Next

LEMMA TwoDigits ==
  ASSUME Types, IdBound, engine = "mem"
  PROVE  lastId < 100
<1>1. PICK n \in FirstId : lastId <= n + 2 * Len(push)
  BY DEF IdBound
<1>2. n \in Nat /\ n + 2 * MaxPush < 100 /\ MaxPush \in Nat /\ Len(push) \in Nat /\ lastId \in Nat
  BY Bounds, PushIndices DEF Types, EngineTypes
<1>. QED BY <1>1, <1>2 DEF IdBound

(* Among numbers of one length the order of the texts is that of the       *)
(* numbers.                                                                *)
LEMMA TextOrder ==
  ASSUME NEW a \in Nat, NEW b \in Nat, a < 100, b < 100, b < 10 <=> a < 10, a < b
  PROVE  TextLess(a, b)
<1>1. CASE a < 10
  <2>1. b < 10
    BY <1>1
  <2>. QED BY <1>1, <2>1 DEF TextLess
<1>2. CASE ~(a < 10)
  <2>1. ~(b < 10)
    BY <1>2
  <2>2. PICK x, y, c, d : x = a \div 10 /\ y = b \div 10 /\ c = a % 10 /\ d = b % 10
    OBVIOUS
  <2>3. x < y \/ (x = y /\ c < d)
    BY <2>2, Z3
  <2>. QED BY <1>2, <2>1, <2>2, <2>3 DEF TextLess
<1>. QED BY <1>1, <1>2
(* A push that has its id keeps it, and is not given to the subscribers    *)
(* but by Disperse.                                                        *)
Dispersed == {"dispersed", "stored", "done"}
Keeps(i) ==
  /\ i \in DOMAIN push' /\ push'[i].id = push[i].id
  /\ push'[i].pc \in Dispersed => push[i].pc \in Dispersed \/ Disperse(i)

LEMMA PushKeeps ==
  ASSUME Types, Serial, Next, NEW i \in DOMAIN push, push[i].id # 0
  PROVE  Keeps(i)
<1>. USE DEF Types
<1>1. DOMAIN push = 1 .. Len(push) /\ Len(push) \in Nat /\ push[i].pc # "queued"
  BY PushIndices DEF Serial
<1>2. ASSUME push' = push PROVE Keeps(i)
  BY <1>2 DEF Keeps
<1>3. ASSUME NEW p, NEW id, NEW pc, Grown(p, id, pc) PROVE Keeps(i)
  <2>1. DOMAIN push' = 1 .. Len(push) + 1
    BY <1>1, <1>3, LenProperties DEF Grown
  <2>. QED BY <1>1, <1>3, <2>1 DEF Grown, Keeps
<1>4. ASSUME NEW j \in DOMAIN push, NEW id, NEW pc, Moved(j, id, pc),
             j = i => id = push[j].id /\ (pc \in Dispersed => push[j].pc \in Dispersed \/ Disperse(j))
      PROVE  Keeps(i)
  <2>1. DOMAIN push' = DOMAIN push
    BY <1>1, <1>4, LenProperties DEF Moved
  <2>2. CASE j = i
    BY <1>4, <2>1, <2>2 DEF Moved, Same, Keeps
  <2>3. CASE j # i
    BY <1>4, <2>1, <2>3 DEF Moved, Keeps
  <2>. QED BY <2>2, <2>3
<1>5. ASSUME NEW p \in PushRequest, PushMem(p) PROVE Keeps(i)
  BY <1>3, <1>5, PushMemIs
<1>6. ASSUME NEW p \in PushRequest, EnqueueDb(p) PROVE Keeps(i)
  BY <1>3, <1>6, EnqueueDbIs
<1>7. ASSUME NEW j \in DOMAIN push, Insert(j) PROVE Keeps(i)
  <2>1. j # i
    BY <1>1, <1>7 DEF Insert, Turn
  <2>. QED BY <1>4, <1>7, <2>1, InsertIs
<1>8. ASSUME NEW j \in DOMAIN push, InsertFails(j) \/ Disperse(j) \/ StoreDb(j) \/ ResolveRetainedEventWaiters(j)
      PROVE  Keeps(i)
  <2>1. \E pc \in {"queued", "inserted", "dispersed", "stored", "done", "failed"} :
          push' = PushAt(j, pc) /\ (pc \in Dispersed => push[j].pc \in Dispersed \/ Disperse(j))
    BY <1>8 DEF InsertFails, Disperse, StoreDb, ResolveRetainedEventWaiters, Dispersed
  <2>. QED BY <1>4, <2>1, AtIs
<1>9. ASSUME NEW t \in Trace, (\E s \in Session, r \in TraceRequest : CmdTrace(t, s, r))
                                \/ Replay(t) \/ Timeout(t) \/ CmdUnTrace(t)
      PROVE  Keeps(i)
  BY <1>2, <1>9 DEF CmdTrace, Replay, SelectHistory, HistoryDone, SnapshotRetained, SelectRetained, SnapshotDone,
                   CmdUnTrace, Continue, Timeout
<1>10. ASSUME NEW s \in Session, LeaveSession(s) PROVE Keeps(i)
  BY <1>2, <1>10 DEF LeaveSession
<1>11. ASSUME Restart PROVE Keeps(i)
  <2>1. DOMAIN push' = DOMAIN push
    BY <1>1, <1>11, RestartIs, LenProperties
  <2>2. Same(push'[i], push[i], push[i].id, IF push[i].pc = "done" THEN "done" ELSE "failed")
    BY <1>11, RestartIs
  <2>. QED BY <2>1, <2>2 DEF Same, Keeps, Dispersed
<1>. QED BY <1>5, <1>6, <1>7, <1>8, <1>9, <1>10, <1>11 DEF Next

LEMMA DispersedBefore ==
  ASSUME Types, Serial, Next, NEW n \in Nat, n # 0, WasDispersed(n)'
  PROVE  WasDispersed(n) \/ \E i \in DOMAIN push : Disperse(i) /\ push[i].id = n
<1>1. ASSUME NEW i \in DOMAIN push, push[i].id = n
      PROVE  push[i].pc \in Dispersed \/ Disperse(i)
  <2>1. Keeps(i)
    BY <1>1, PushKeeps
  <2>2. i \in DOMAIN push' /\ push'[i].id = n
    BY <1>1, <2>1 DEF Keeps
  <2>3. push'[i].pc \in Dispersed
    BY <2>2 DEF WasDispersed, Dispersed
  <2>. QED BY <2>1, <2>3 DEF Keeps
<1>. QED BY <1>1 DEF WasDispersed, Dispersed
(* What is found after an event: a row that is later and fits.             *)
LEMMA FoundIds ==
  ASSUME Types, IdBound, NEW r, r.after \in 0 .. lastId, NEW i \in DOMAIN history,
         r.after < history[i].id, Comparable(r, history[i]), HistoryFits(history[i].uri, r.uri)
  PROVE  \E k \in 1 .. Len(HistoryAfter(r)) : HistoryAfter(r)[k] = history[i].id
<1>. USE DEF Types
<1>1. history[i].id \in 1 .. lastId /\ lastId \in Nat
  BY RowTyped DEF EngineTypes
<1>2. After(history[i].id, r.after)
  <2>1. CASE engine = "mem"
    <3>1. PICK a, b : a = r.after /\ b = history[i].id
      OBVIOUS
    <3>2. a \in Nat /\ b \in Nat /\ a <= lastId /\ b <= lastId /\ a < b
      BY <1>1, <3>1
    <3>3. lastId < 100
      BY <2>1, TwoDigits
    <3>4. a < 100 /\ b < 100
      BY <1>1, <3>2, <3>3
    <3>5. b < 10 <=> a < 10
      BY <2>1, <3>1 DEF Comparable
    <3>6. TextLess(a, b)
      BY <3>2, <3>4, <3>5, TextOrder
    <3>. QED BY <2>1, <3>1, <3>6 DEF After
  <2>2. CASE engine # "mem"
    BY <2>2 DEF After
  <2>. QED BY <2>1, <2>2
<1>3. i \in Found(r)
  BY <1>2 DEF Found
<1>4. PICK S, n, at, ids : S = Found(r) /\ n = Cardinality(S) /\ at = Sorted(S) /\ ids = HistoryAfter(r)
  OBVIOUS
<1>5. n \in Nat /\ at \in [1 .. n -> S] /\ ids = [k \in 1 .. n |-> history[at[k]].id] /\ S \in SUBSET Nat
      /\ IsFiniteSet(S) /\ i \in S
  BY <1>3, <1>4, FoundSorted
<1>6. PICK k \in 1 .. n : at[k] = i
  BY <1>4, <1>5, SortedHasAll
<1>7. Len(ids) = n
  <2>1. ids \in Seq(Nat) /\ DOMAIN ids = 1 .. n
    BY <1>1, <1>4, <1>5, HistoryTyped
  <2>. QED BY <1>5, <2>1, LenProperties
<1>8. ids[k] = history[i].id
  BY <1>5, <1>6
<1>. QED BY <1>4, <1>6, <1>7, <1>8

LEMMA SentHasAll ==
  ASSUME NEW r \in TraceType, NEW kind \in {"live", "delta", "history", "retained"}, NEW ids \in Seq(Nat)
  PROVE  /\ \A e : Among(e, r.got) => Among(e, Sent(r, kind, ids))
         /\ r.active /\ Wants(r, kind) =>
              \A k \in 1 .. Len(ids) : \E e : Among(e, Sent(r, kind, ids)) /\ e.id = ids[k]
<1>1. PICK b, g : b = OfKind(kind, ids) /\ g = Sent(r, kind, ids)
  OBVIOUS
<1>2. r.got \in Seq(Event) /\ b \in Seq(Event) /\ Len(b) = Len(ids)
      /\ \A k \in 1 .. Len(ids) : b[k].id = ids[k]
  BY <1>1, OfKindTyped DEF TraceType
<1>3. g = r.got \/ g = r.got \o b
  BY <1>1 DEF Sent
<1>4. \A e : Among(e, r.got) => Among(e, g)
  <2>1. \A e : Among(e, r.got \o b) <=> Among(e, r.got) \/ Among(e, b)
    BY <1>2, JoinedAmong
  <2>2. CASE g = r.got
    BY <2>2
  <2>3. CASE g = r.got \o b
    BY <2>1, <2>3
  <2>. QED BY <1>3, <2>2, <2>3
<1>5. ASSUME r.active, Wants(r, kind), NEW k \in 1 .. Len(ids)
      PROVE  \E e : Among(e, g) /\ e.id = ids[k]
  <2>1. g = r.got \o b
    BY <1>1, <1>5 DEF Sent
  <2>2. k \in DOMAIN b
    BY <1>2, LenProperties
  <2>3. Among(b[k], b) /\ b[k].id = ids[k]
    BY <1>2, <2>2 DEF Among
  <2>4. Among(b[k], g)
    BY <1>2, <2>1, <2>3, JoinedAmong
  <2>. QED BY <2>3, <2>4
<1>. QED BY <1>1, <1>4, <1>5

(* What a subscription that has its history is still owed: nothing. *)
Wanted(r) ==
  r.active /\ r.history \in {"sent", "done"} /\ ~r.retained /\ ~r.snapshot /\ r.after # 0
Due(r, h) == r.after < h.id /\ Comparable(r, h) /\ HistoryFits(h.uri, r.uri)
HasId(r, id) == \E e : Has(r, e) /\ e.id = id
Complete(r) ==
  Wanted(r) =>
    \A i \in DOMAIN history :
      Due(r, history[i]) /\ WasDispersed(history[i].id) => HasId(r, history[i].id)

(* Selecting the history, with which a subscription gets all of it. *)
LEMMA SelectedHas ==
  ASSUME Types, IdBound, NEW x, NEW r \in TraceType, r.after \in 0 .. lastId, Selected(x, r), Tidy(r), Wanted(x),
         NEW i \in DOMAIN history, Due(x, history[i])
  PROVE  HasId(x, history[i].id)
<1>1. PICK kind, ids : kind = "history" /\ ids = HistoryAfter(r)
  OBVIOUS
<1>2. /\ x.uri = r.uri /\ x.after = r.after /\ x.active = r.active /\ x.retained = r.retained
      /\ x.snapshot = r.snapshot /\ x.got = Sent(r, kind, ids)
  BY <1>1 DEF Selected, Is
<1>3. r.active /\ Wants(r, kind)
  BY <1>1, <1>2 DEF Wanted, Wants
<1>4. Due(r, history[i])
  BY <1>2 DEF Due, Comparable
<1>5. PICK k \in 1 .. Len(ids) : ids[k] = history[i].id
  BY <1>1, <1>4, FoundIds DEF Due
<1>6. ids \in Seq(Nat) /\ kind \in {"live", "delta", "history", "retained"}
  BY <1>1, HistoryTyped DEF Types, EngineTypes
<1>7. PICK e : Among(e, Sent(r, kind, ids)) /\ e.id = ids[k]
  BY <1>3, <1>6, SentHasAll
<1>. QED BY <1>2, <1>5, <1>7 DEF HasId, Has

(* In memory it has it from the start. *)
LEMMA BegunHas ==
  ASSUME Types, IdBound, NEW x, NEW r, Began(x, r), Wanted(x),
         NEW i \in DOMAIN history, Due(x, history[i])
  PROVE  HasId(x, history[i].id)
<1>1. PICK s, request, after, q :
        after \in 0 .. lastId /\ Asked(q, s, request, after) /\ Begun(x, q)
  BY DEF Began
<1>2. q.after = after /\ q \in TraceType
  BY <1>1 DEF Asked
<1>3. /\ x.uri = q.uri /\ x.after = q.after /\ x.retained = q.retained /\ x.snapshot = q.snapshot
      /\ x.got = FirstGot(q) /\ x.history = HistoryState(q)
  BY <1>1 DEF Begun, Is
<1>4. q.after # 0 /\ engine = "mem" /\ ~q.retained
  BY <1>3 DEF Wanted, HistoryState
<1>5. PICK ids : ids = HistoryAfter(q)
  OBVIOUS
<1>6. x.got = OfKind("history", ids)
  BY <1>3, <1>4, <1>5 DEF FirstGot, HistoryGot
<1>7. Due(q, history[i])
  BY <1>3 DEF Due, Comparable
<1>8. PICK k \in 1 .. Len(ids) : ids[k] = history[i].id
  BY <1>1, <1>2, <1>5, <1>7, FoundIds DEF Due
<1>9. ids \in Seq(Nat)
  BY <1>5, HistoryTyped DEF Types, EngineTypes
<1>10. k \in DOMAIN x.got /\ x.got[k].id = ids[k]
  <2>1. k \in DOMAIN ids
    BY <1>9, LenProperties
  <2>. QED BY <1>6, <2>1 DEF OfKind
<1>. QED BY <1>8, <1>10 DEF HasId, Has, Among

(* In all other steps it keeps what it has. *)
Stays(x, r) ==
  \/ x = r
  \/ \E uri, e : e \in Event /\ Given(x, r, uri, e)
  \/ Woken(x, r) \/ TimedOut(x, r) \/ DoneHistory(x, r)
  \/ Looked(x, r) \/ Shown(x, r) \/ Finished(x, r) \/ Ended(x, r)

LEMMA StaysHas ==
  ASSUME Types, NEW x, NEW r \in TraceType, Stays(x, r), Wanted(x)
  PROVE  /\ Wanted(r) /\ x.uri = r.uri /\ x.after = r.after
         /\ \A e : Has(r, e) => Has(x, e)
<1>1. r.got \in Seq(Event) /\ r.delayed \in Seq(Event)
  BY DEF TraceType
<1>2. CASE x = r
  BY <1>2
<1>3. ASSUME NEW uri, NEW e \in Event, Given(x, r, uri, e)
      PROVE  /\ Wanted(r) /\ x.uri = r.uri /\ x.after = r.after
             /\ \A f : Has(r, f) => Has(x, f)
  <2>1. Wanted(r) /\ x.uri = r.uri /\ x.after = r.after
    BY <1>3 DEF Given, Is, Wanted
  <2>2. /\ x.got = r.got \/ x.got = Append(r.got, e)
        /\ x.delayed = r.delayed \/ x.delayed = Append(r.delayed, e)
    BY <1>3 DEF Given, Is, GotOf, DelayedOf
  <2>3. \A f : (Among(f, r.got) => Among(f, x.got)) /\ (Among(f, r.delayed) => Among(f, x.delayed))
    <3>1. /\ \A f : Among(f, Append(r.got, e)) <=> Among(f, r.got) \/ f = e
          /\ \A f : Among(f, Append(r.delayed, e)) <=> Among(f, r.delayed) \/ f = e
      BY <1>1, AppendedAmong
    <3>2. \A f : Among(f, r.got) => Among(f, x.got)
      <4>1. CASE x.got = r.got
        BY <4>1
      <4>2. CASE x.got = Append(r.got, e)
        BY <3>1, <4>2
      <4>. QED BY <2>2, <4>1, <4>2
    <3>3. \A f : Among(f, r.delayed) => Among(f, x.delayed)
      <4>1. CASE x.delayed = r.delayed
        BY <4>1
      <4>2. CASE x.delayed = Append(r.delayed, e)
        BY <3>1, <4>2
      <4>. QED BY <2>2, <4>1, <4>2
    <3>. QED BY <3>2, <3>3
  <2>. QED BY <2>1, <2>3 DEF Has
<1>4. CASE Woken(x, r) \/ TimedOut(x, r)
  <2>1. /\ x.uri = r.uri /\ x.after = r.after /\ x.active = r.active /\ x.retained = r.retained
        /\ x.snapshot = r.snapshot /\ x.history = r.history /\ x.got = r.got /\ x.delayed = r.delayed
    BY <1>4 DEF Woken, TimedOut, Is
  <2>. QED BY <2>1 DEF Wanted, Has
<1>5. CASE DoneHistory(x, r)
  <2>1. /\ x.uri = r.uri /\ x.after = r.after /\ x.active = r.active /\ x.retained = r.retained
        /\ x.snapshot = r.snapshot /\ r.history = "sent" /\ x.got = Flushed(r)
    BY <1>5 DEF DoneHistory, Is
  <2>2. Wanted(r)
    BY <2>1 DEF Wanted
  <2>3. x.got = r.got \o r.delayed
    BY <2>1, <2>2 DEF Flushed, Starts, Wanted
  <2>4. \A f : Among(f, r.got) \/ Among(f, r.delayed) => Among(f, x.got)
    BY <1>1, <2>3, JoinedAmong
  <2>. QED BY <2>1, <2>2, <2>4 DEF Has
<1>6. CASE Looked(x, r) \/ Shown(x, r)
  <2>1. PICK kind, ids : kind = "retained" /\ ids = RetainedRows(r.uri, kv)
    OBVIOUS
  <2>2. /\ x.uri = r.uri /\ x.after = r.after /\ x.active = r.active /\ x.retained = r.retained
        /\ x.snapshot = r.snapshot /\ x.history = r.history /\ x.delayed = r.delayed
        /\ x.got = r.got \/ x.got = Sent(r, kind, ids)
    BY <1>6, <2>1 DEF Looked, Shown, Is
  <2>3. Wanted(r)
    BY <2>2 DEF Wanted
  <2>4. ids \in Seq(Nat) /\ kind \in {"live", "delta", "history", "retained"}
    BY <2>1, RetainedTyped DEF Types
  <2>5. \A f : Among(f, r.got) => Among(f, x.got)
    BY <2>2, <2>4, SentHasAll
  <2>. QED BY <2>2, <2>3, <2>5 DEF Has
<1>7. CASE Finished(x, r) \/ Ended(x, r)
  <2>1. x.active = FALSE
    BY <1>7 DEF Finished, Ended, Is
  <2>. QED BY <2>1 DEF Wanted
<1>. QED BY <1>2, <1>3, <1>4, <1>5, <1>6, <1>7 DEF Stays
LEMMA StepKind ==
  ASSUME NEW x, NEW r, StepOf(x, r)
  PROVE  x = NoTrace \/ Began(x, r) \/ Selected(x, r) \/ Stays(x, r)
  BY DEF StepOf, Stays

(* An event that is given to a subscription without retained and snapshot  *)
(* is sent, or held back to be sent.                                       *)
LEMMA GivenHas ==
  ASSUME NEW x, NEW r \in TraceType, NEW uri, NEW e \in Event, e.kind = "live", Given(x, r, uri, e), Wanted(x),
         Match(uri, x.uri)
  PROVE  HasId(x, e.id)
<1>1. /\ x.uri = r.uri /\ x.active = r.active /\ x.retained = r.retained /\ x.snapshot = r.snapshot
      /\ x.got = GotOf(r, uri, e) /\ x.delayed = DelayedOf(r, uri, e)
  BY DEF Given, Is
<1>2. Reaches(r, uri, e) /\ ~r.snapshot
  BY <1>1 DEF Reaches, Wants, Wanted
<1>3. x.got = Append(r.got, e) \/ x.delayed = Append(r.delayed, e)
  BY <1>1, <1>2 DEF GotOf, DelayedOf
<1>4. r.got \in Seq(Event) /\ r.delayed \in Seq(Event)
  BY DEF TraceType
<1>5. Among(e, x.got) \/ Among(e, x.delayed)
  <2>1. Among(e, Append(r.got, e)) /\ Among(e, Append(r.delayed, e))
    BY <1>4, AppendedAmong
  <2>2. CASE x.got = Append(r.got, e)
    BY <2>1, <2>2
  <2>3. CASE x.delayed = Append(r.delayed, e)
    BY <2>1, <2>3
  <2>. QED BY <1>3, <2>2, <2>3
<1>. QED BY <1>5 DEF HasId, Has

(* What Disperse does with a row that a subscription waits for. *)
LEMMA DispersedHas ==
  ASSUME Types, Serial, RowsInv, NEW t \in Trace, NEW j \in DOMAIN push, Disperse(j), Wanted(trace'[t]),
         NEW i \in DOMAIN history, push[j].id = history[i].id, Due(trace'[t], history[i])
  PROVE  HasId(trace'[t], history[i].id)
<1>. USE DEF Types
<1>1. engine = "db"
  BY DEF Disperse, Serial, EngineTypes
<1>2. PICK e : e = [id |-> push[j].id, kind |-> "live"]
  OBVIOUS
<1>3. e \in Event /\ e.kind = "live" /\ e.id = history[i].id
  <2>1. push[j].id \in Nat /\ "live" \in {"live", "delta"}
    BY PushTyped DEF EngineTypes
  <2>. QED BY <1>2, <2>1, EventIs
<1>4. trace' = DisperseToSubs(trace, push[j].uri, e)
  BY <1>2 DEF Disperse
<1>5. Given(trace'[t], trace[t], push[j].uri, e) /\ trace[t] \in TraceType
  BY <1>3, <1>4, GivenIs, TraceTyped
<1>6. push[j].uri = history[i].uri /\ trace'[t].uri = history[i].uri
  BY <1>1 DEF RowsInv, Due, HistoryFits
<1>7. Match(push[j].uri, trace'[t].uri)
  <2>1. PICK words : words = STRING
    OBVIOUS
  <2>2. history[i].uri \in Seq(words)
    BY <2>1, RowTyped, TopicAssumption
  <2>. QED BY <1>6, <2>2, MatchesItself
<1>. QED BY <1>3, <1>5, <1>7, GivenHas

LEMMA CompleteStep ==
  ASSUME Types, Serial, RowsInv, IdBound, Next, NEW t \in Trace, Complete(trace[t]), Tidy(trace[t])
  PROVE  Complete(trace[t])'
<1>. SUFFICES ASSUME Wanted(trace'[t]), NEW i \in DOMAIN history', Due(trace[t], history[i])',
                     WasDispersed(history[i].id)'
              PROVE  HasId(trace'[t], history'[i].id)
  BY DEF Complete, Wanted, HasId, Has, Among
<1>1. Due(trace'[t], history'[i])
  BY EngineStays DEF Due, Comparable, HistoryFits
<1>2. trace[t] \in TraceType /\ trace[t].after \in 0 .. lastId /\ StepOf(trace'[t], trace[t]) /\ lastId \in Nat
  BY TraceTyped, TraceStep DEF Types, EngineTypes
<1>3. ASSUME i \in DOMAIN history, history'[i] = history[i]
      PROVE  HasId(trace'[t], history'[i].id)
  <2>1. history[i].id \in Nat /\ history[i].id # 0 /\ Due(trace'[t], history[i])
    BY <1>1, <1>2, <1>3, RowTyped DEF Types
  <2>2. CASE trace'[t] = NoTrace
    BY <2>2 DEF NoTrace, Wanted
  <2>3. CASE Began(trace'[t], trace[t])
    BY <1>3, <2>1, <2>3, BegunHas
  <2>4. CASE Selected(trace'[t], trace[t])
    BY <1>2, <1>3, <2>1, <2>4, SelectedHas
  <2>5. CASE \E j \in DOMAIN push : Disperse(j) /\ push[j].id = history[i].id
    BY <1>3, <2>1, <2>5, DispersedHas
  <2>6. ASSUME Stays(trace'[t], trace[t]), WasDispersed(history[i].id)
        PROVE  HasId(trace'[t], history[i].id)
    <3>1. /\ Wanted(trace[t]) /\ trace'[t].uri = trace[t].uri /\ trace'[t].after = trace[t].after
          /\ \A e : Has(trace[t], e) => Has(trace'[t], e)
      BY <1>2, <2>6, StaysHas
    <3>2. Due(trace[t], history[i])
      BY <2>1, <3>1 DEF Due, Comparable
    <3>3. HasId(trace[t], history[i].id)
      BY <1>3, <2>6, <3>1, <3>2 DEF Complete
    <3>. QED BY <3>1, <3>3 DEF HasId
  <2>7. \/ WasDispersed(history[i].id)
        \/ \E j \in DOMAIN push : Disperse(j) /\ push[j].id = history[i].id
    <3>1. PICK n : n = history[i].id
      OBVIOUS
    <3>2. WasDispersed(n)'
      BY <1>3, <3>1 DEF WasDispersed
    <3>. QED BY <2>1, <3>1, <3>2, DispersedBefore
  <2>. QED BY <1>2, <1>3, <2>2, <2>3, <2>4, <2>5, <2>6, <2>7, StepKind
<1>4. ASSUME history'[i].id = lastId + 1, NEW p \in PushRequest, PushMem(p), history'[i].uri = p.uri
      PROVE  HasId(trace'[t], history'[i].id)
  <2>1. PICK e : e = [id |-> lastId + 1, kind |-> "live"]
    OBVIOUS
  <2>2. e \in Event /\ e.kind = "live" /\ e.id = lastId + 1
    <3>1. lastId + 1 \in Nat /\ "live" \in {"live", "delta"}
      BY <1>2
    <3>. QED BY <2>1, <3>1, EventIs
  <2>3. trace' = DisperseToSubs(trace, p.uri, e) /\ engine = "mem"
    BY <1>4, <2>1 DEF PushMem, Pushed
  <2>4. Given(trace'[t], trace[t], p.uri, e)
    BY <2>2, <2>3, GivenIs DEF Types
  <2>5. Match(p.uri, trace'[t].uri)
    BY <1>1, <1>4, <2>3 DEF Due, HistoryFits
  <2>. QED BY <1>2, <1>4, <2>2, <2>4, <2>5, GivenHas
<1>5. ASSUME history'[i].id = lastId + 1, NEW j \in DOMAIN push, Insert(j) PROVE FALSE
  <2>1. Moved(j, lastId + 1, "inserted")
    BY <1>5, InsertIs DEF Types
  <2>2. j \in DOMAIN push' /\ push'[j].id = lastId + 1 /\ push'[j].pc = "inserted"
    BY <1>5, <2>1, PushIndices, LenProperties DEF Types, Moved, Same
  <2>. QED BY <1>5, <2>2 DEF WasDispersed
<1>. QED BY <1>3, <1>4, <1>5, RowIs

(* A subscription that is done with the history has started. *)
Begins(r) == r.history = "done" /\ ~r.snapshot => r.started

LEMMA StepBegins ==
  ASSUME Types, NEW x, NEW r \in TraceType, StepOf(x, r), Begins(r)
  PROVE  Begins(x)
<1>1. CASE x = NoTrace
  BY <1>1 DEF NoTrace, Begins
<1>2. CASE Began(x, r)
  BY <1>2 DEF Began, Begun, Is, HistoryState, Starts, Begins
<1>3. CASE \E uri, e : Given(x, r, uri, e)
  BY <1>3 DEF Given, Is, Begins
<1>4. CASE x = r \/ Woken(x, r) \/ TimedOut(x, r) \/ Looked(x, r) \/ Shown(x, r) \/ Ended(x, r)
  BY <1>4 DEF Woken, TimedOut, Looked, Shown, Ended, Is, Begins
<1>5. CASE Selected(x, r) \/ DoneHistory(x, r) \/ Finished(x, r)
  BY <1>5 DEF Selected, DoneHistory, Finished, Is, Starts, Begins
<1>. QED BY <1>1, <1>2, <1>3, <1>4, <1>5 DEF StepOf

GapInv ==
  /\ RowsInv /\ IdBound
  /\ \A t \in Trace : Begins(trace[t]) /\ Complete(trace[t])

LEMMA GapStep ==
  ASSUME Types, Serial, OrderAll, GapInv, Next
  PROVE  GapInv'
<1>1. RowsInv' /\ IdBound'
  BY RowsStep, IdBoundStep DEF GapInv
<1>2. ASSUME NEW t \in Trace PROVE Begins(trace'[t]) /\ Complete(trace[t])'
  <2>1. trace[t] \in TraceType /\ StepOf(trace'[t], trace[t]) /\ Begins(trace[t]) /\ Complete(trace[t])
        /\ Tidy(trace[t])
    BY TraceTyped, TraceStep DEF Types, GapInv, OrderAll, OrderInv
  <2>2. Begins(trace'[t])
    BY <2>1, StepBegins
  <2>3. Complete(trace[t])'
    BY <2>1, CompleteStep DEF GapInv
  <2>. QED BY <2>2, <2>3
<1>. QED BY <1>1, <1>2 DEF GapInv, Begins

(* A subscription that has replayed the history after an event was sent    *)
(* all that were stored after it and given to the subscribers.             *)
THEOREM NoGapCorrect == Spec => []NoGap
<1>1. Init => GapInv
  <2>. SUFFICES ASSUME Init PROVE GapInv
    OBVIOUS
  <2>1. push = <<>> /\ history = <<>> /\ DOMAIN <<>> = {} /\ Len(<<>>) = 0
    BY DEF Init
  <2>2. RowsInv
    BY <2>1 DEF RowsInv
  <2>3. IdBound
    <3>1. engine = "mem" => lastId \in FirstId
      BY DEF Init
    <3>2. \A n \in FirstId : n <= n + 2 * 0
      BY Bounds
    <3>. QED BY <2>1, <3>1, <3>2, Bounds DEF IdBound
  <2>4. \A t \in Trace : trace[t] = NoTrace
    BY DEF Init
  <2>5. Begins(NoTrace) /\ Complete(NoTrace)
    BY DEF NoTrace, Begins, Complete, Wanted
  <2>. QED BY <2>2, <2>3, <2>4, <2>5 DEF GapInv
<1>2. Types /\ SerialInv /\ OrderAll /\ GapInv /\ [Next]_vars => GapInv'
  <2>. SUFFICES ASSUME Types, SerialInv, OrderAll, GapInv, [Next]_vars PROVE GapInv'
    OBVIOUS
  <2>1. CASE Next
    BY <2>1, GapStep DEF SerialInv
  <2>2. CASE UNCHANGED vars
    BY <2>2 DEF vars, GapInv, RowsInv, IdBound, Begins, Complete, Wanted, Due, Comparable, HistoryFits,
                WasDispersed, HasId, Has, Among
  <2>. QED BY <2>1, <2>2
<1>3. Types /\ OrderAll /\ GapInv => NoGap
  <2>. SUFFICES ASSUME Types, OrderAll, GapInv, NEW t \in Trace,
                       trace[t].active, trace[t].history = "done", ~trace[t].retained, ~trace[t].snapshot,
                       trace[t].after # 0, NEW i \in DOMAIN history, Due(trace[t], history[i]),
                       WasDispersed(history[i].id)
                PROVE  history[i].id \in Ids(trace[t].got)
    BY DEF NoGap, Due
  <2>1. HasId(trace[t], history[i].id)
    BY DEF GapInv, Complete, Wanted
  <2>2. trace[t].delayed = <<>> /\ DOMAIN <<>> = {}
    BY DEF GapInv, Begins, OrderAll, OrderInv, Tidy
  <2>. QED BY <2>1, <2>2 DEF HasId, Has, Among, Ids
<1>. QED BY <1>1, <1>2, <1>3, TypesAlways, SerialAlways, OrderAlways, PTL DEF Spec

-----------------------------------------------------------------------------
(* The operators on topics, for the words of the runs: as lemmas, with any *)
(* words and patterns of any length, they are in TopicPatternProofs.       *)

(* The topics that match a pattern are those that it stands for.           *)
THEOREM MatchIsMeaningCorrect == Spec => []MatchIsMeaning
<1>1. \A p \in Patterns(Word, 2) : {u \in Topics(Word, 3) : Match(u, p)} = Meaning(p, Word, 3)
  BY PatternLevels, MatchMeans
<1>2. MatchIsMeaning
  BY <1>1 DEF MatchIsMeaning
<1>. QED BY <1>2, PTL

(* Two patterns intersect exactly if some topic matches both.              *)
THEOREM IntersectIsMeetingCorrect == Spec => []IntersectIsMeeting
<1>1. "a" \in Word /\ "*" \notin Word /\ "#" \notin Word
  BY DEF Word
<1>2. ASSUME NEW p \in Patterns(Word, 2), NEW q \in Patterns(Word, 2)
      PROVE  Intersect(p, q) <=> \E u \in Topics(Word, 3) : Match(u, p) /\ Match(u, q)
  <2>1. IsPattern(p, Word) /\ IsPattern(q, Word) /\ Levels(p) <= 2 /\ Levels(q) <= 2
    BY PatternLevels
  <2>2. Levels(p) <= 3 /\ Levels(q) <= 3
    BY <2>1 DEF IsPattern
  <2>. QED BY <1>1, <2>1, <2>2, IntersectMeets
<1>3. IntersectIsMeeting
  BY <1>2 DEF IntersectIsMeeting
<1>. QED BY <1>3, PTL

(* A topic is restored from its key and the pattern of its store.          *)
THEOREM KeyRoundTripCorrect == Spec => []KeyRoundTrip
<1>1. ASSUME NEW p \in Patterns(Word, 3), NEW u \in Topics(Word, 3), Match(u, p)
      PROVE  Merge(Extract(u, p), p) = u
  <2>1. IsPattern(p, Word) /\ u \in Seq(Word)
    BY PatternLevels, TopicIsSeq
  <2>. QED BY <1>1, <2>1, MergeRestores
<1>2. KeyRoundTrip
  BY <1>1 DEF KeyRoundTrip
<1>. QED BY <1>2, PTL
=============================================================================
