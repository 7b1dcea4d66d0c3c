------------------------------ MODULE MemRealm ------------------------------
(***************************************************************************)
(* A realm that is kept in memory (lib/fox_router.ts): sessions that join  *)
(* and leave through the Hyper and the MQTT gate, the engine with its      *)
(* history (lib/mono/memengine.ts) and the key-value store                 *)
(* (lib/mono/memkv.ts).  A push, a packet and the end of a session are one *)
(* step each, as nothing in them is awaited but promises that are resolved *)
(* already; the wills of a session are pushed in the step that ends it.    *)
(*                                                                         *)
(* Left out: authentication; realms that are not there yet; conditions     *)
(* other than null (a push with watch on a key that is absent and a        *)
(* condition that is not null is forgotten, memkv.ts:81); payloads that    *)
(* are not JSON or that clients store at OffsetUri; ids of different       *)
(* numbers of digits, which the code compares as texts.                    *)
(***************************************************************************)
EXTENDS MqttSession

CONSTANTS
  HyperSession, MqttClientSession,  \* the latter are of one client, with one clientId
  LockUri,      \* the key that Hyper sessions use as a lock
  OffsetUri,    \* $FOX.clientOffset.<clientId>
  Packet,       \* what the MQTT client publishes
  WillPacket,   \* its wills
  Filters,      \* the topics of its SUBSCRIBE
  None,
  FirstId,      \* the last id given so far, to events of which nothing is kept
  MaxId         \* bound: the last id given

ASSUME SessionAssumption ==
  HyperSession \cap MqttClientSession = {} /\ None \notin HyperSession \cup MqttClientSession
ASSUME IdAssumption ==
  /\ FirstId \in Nat /\ MaxId \in Nat /\ FirstId <= MaxId
  /\ \E digits \in 1 .. MaxId : 10 ^ (digits - 1) <= FirstId + 1 /\ MaxId < 10 ^ digits
ASSUME KeyAssumption == LockUri # OffsetUri
ASSUME PacketAssumption ==
  \A p \in Packet \cup WillPacket :
    /\ p.retain \in BOOLEAN
    /\ p.retain => p.uri # OffsetUri /\ (p.uri = LockUri => p.data = Empty)
ASSUME FilterAssumption == \A fs \in Filters : fs \in Seq(Seq(STRING))

VARIABLES
  lastId,   \* _messageGen
  history,  \* _inMsg, the events with the option trace
  kv,       \* _keyDb
  hyper,    \* "new", "in" (the realm) or "over"
  mqtt      \* the sessions of the MQTT client

vars == <<lastId, history, kv, hyper, mqtt>>

Session == HyperSession \cup MqttClientSession
Key == {LockUri, OffsetUri} \cup {p.uri : p \in {q \in Packet \cup WillPacket : q.retain}}
NoRow == [data |-> Empty, sid |-> None, id |-> 0, waiters |-> <<>>]

Init ==
  /\ lastId = FirstId
  /\ history = <<>>
  /\ kv = [k \in Key |-> NoRow]
  /\ hyper = [h \in HyperSession |-> "new"]
  /\ mqtt = [m \in MqttClientSession |-> NewMqtt]

(* The operations of the realm map such records; one step may take several.*)
Realm == [lastId |-> lastId, history |-> history, kv |-> kv, hyper |-> hyper, mqtt |-> mqtt]

Become(x) ==
  /\ x.lastId <= MaxId
  /\ lastId' = x.lastId /\ history' = x.history /\ kv' = x.kv
  /\ hyper' = x.hyper /\ mqtt' = x.mqtt

IsActive(x, s) == IF s \in HyperSession THEN x.hyper[s] = "in" ELSE x.mqtt[s].state = "in"

-----------------------------------------------------------------------------
(* Pushes *)

(* What a client may ask of a key: the options when (null or none), watch, *)
(* will (null or none).                                                    *)
Event(uri, data, sid) ==
  [uri |-> uri, data |-> data, sid |-> sid, id |-> 0,
   trace |-> FALSE, retain |-> FALSE, when |-> FALSE, watch |-> FALSE, will |-> FALSE]
Kept(uri, data, sid) == [Event(uri, data, sid) EXCEPT !.retain = TRUE]

Lock(h) == [Kept(LockUri, Object(h), h) EXCEPT !.when = TRUE, !.watch = TRUE, !.will = TRUE]
TryLock(h) == [Kept(LockUri, Object(h), h) EXCEPT !.when = TRUE, !.will = TRUE]
Unlock(h) == Kept(LockUri, Empty, h)

(* runInboundEvent *)
Inbound(uri, data, sid) == [Kept(uri, data, sid) EXCEPT !.trace = TRUE]

(* makePublishCmd, with QoS 1 *)
PublishCmd(p, m) == [Event(p.uri, p.data, m) EXCEPT !.retain = p.retain, !.trace = TRUE]

(* saveInboundHistory *)
KeepMemHistory(x, e) ==
  [x EXCEPT !.lastId = @ + 1,
            !.history = IF e.trace
                        THEN Append(@, [id |-> x.lastId + 1, uri |-> e.uri, sid |-> e.sid])
                        ELSE @]

DisperseToSubs(x, e) ==
  [x EXCEPT !.mqtt = [m \in MqttClientSession |-> Disperse(@[m], e.uri, e.id, e.trace)]]

(* One turn of pubWhile.  New fields are put over those of the value that  *)
(* was there before the first turn; the change takes an id of its own.     *)
PubOne(x, e, old, waiters) ==
  LET data == Merged(old, e.data)
      row == [data |-> data, id |-> e.id, sid |-> IF e.will THEN e.sid ELSE None,
              waiters |-> waiters]
  IN [x EXCEPT !.lastId = @ + 1, !.kv[e.uri] = IF data = Empty THEN NoRow ELSE row]

(* findNextWhenActor: the first that is there still, if the key is absent. *)
Waiting(x, row) ==
  At(row.waiters, {i \in DOMAIN row.waiters : IsActive(x, row.waiters[i].sid)})

(* pubWhile: a second turn if somebody waits; no third, as the value of a  *)
(* lock is not empty.                                                      *)
PubWhile(x, e) ==
  LET row == x.kv[e.uri]
      waiting == Waiting(x, row)
      y == PubOne(x, e, row.data, waiting)
  IN IF waiting # <<>> /\ y.kv[e.uri].data = Empty
     THEN PubOne(y, Head(waiting), row.data, Tail(waiting))
     ELSE y

(* setKeyActor *)
SetKeyActor(x, e) ==
  CASE e.when /\ x.kv[e.uri].data # Empty /\ e.watch ->
         [x EXCEPT !.kv[e.uri].waiters = Append(@, e)]
    [] e.when /\ x.kv[e.uri].data # Empty /\ ~e.watch -> x
    [] OTHER -> PubWhile(x, e)

(* doPush: the subscribers get the event also if the store refuses it. *)
DoPush(x, e) ==
  LET f == [e EXCEPT !.id = x.lastId + 1]
      y == DisperseToSubs(KeepMemHistory(x, f), f)
  IN IF e.retain THEN SetKeyActor(y, f) ELSE y

-----------------------------------------------------------------------------
(* The end of a session *)

(* eraseSessionData: first its waiters, then its values. *)
EraseWills(x, s) ==
  FoldSet(LAMBDA k, y : DoPush(y, Inbound(k, Empty, s)), x, {k \in Key : x.kv[k].sid = s})
Others(ws, s) == {i \in DOMAIN ws : ws[i].sid # s}
Dropped(row, s) == [row EXCEPT !.waiters = At(@, Others(@, s))]
DropWaiters(x, s) == [x EXCEPT !.kv = [k \in Key |-> Dropped(@[k], s)]]
EraseOnlyWills(x, s) == EraseWills(x, s)
EraseWillsFirst(x, s) == DropWaiters(EraseWills(x, s), s)
EraseSessionData(x, s) == EraseWills(DropWaiters(x, s), s)

SessionOver(x, s) ==
  IF s \in HyperSession THEN [x EXCEPT !.hyper[s] = "over"]
  ELSE [x EXCEPT !.mqtt[s] = [NewMqtt EXCEPT !.state = "over", !.will = x.mqtt[s].will,
                                              !.clean = x.mqtt[s].clean]]

(* cleanupTrace *)
CleanupTrace(x, s) ==
  IF s \in HyperSession THEN x ELSE [x EXCEPT !.mqtt[s].filters = <<>>]

PublishWill(x, s) ==
  IF s \in HyperSession \/ x.mqtt[s].will = NoPacket THEN x
  ELSE DoPush(x, PublishCmd(x.mqtt[s].will, s))

(* removeSession, cleanup, leaveSession: isActive turns false last. *)
Cleanup(x, s) == SessionOver(EraseSessionData(CleanupTrace(PublishWill(x, s), s), s), s)

-----------------------------------------------------------------------------
(* Hyper sessions *)

Login(h) ==
  /\ hyper[h] = "new"
  /\ Become([Realm EXCEPT !.hyper[h] = "in"])

Push(h) ==
  /\ hyper[h] = "in"
  /\ \E e \in {Lock(h), TryLock(h), Unlock(h)} : Become(DoPush(Realm, e))

Close(s) ==
  /\ IsActive(Realm, s)
  /\ Become(Cleanup(Realm, s))

-----------------------------------------------------------------------------
(* MQTT sessions *)

(* connect, joinRealm: the will is set, and the last event is read that    *)
(* the client has acknowledged.                                            *)
Connect(m) ==
  /\ mqtt[m].state = "new"
  /\ \E will \in WillPacket \cup {NoPacket} :
       Become([Realm EXCEPT !.mqtt[m] =
                 [@ EXCEPT !.state = "in", !.will = will, !.last = kv[OffsetUri].data]])

History(f, after) ==
  LET found == At(history, {i \in DOMAIN history :
                              history[i].id > after /\ Match(history[i].uri, f)})
  IN [i \in DOMAIN found |-> found[i].id]

(* The rows that match, in any order, here in that of their ids.  Where    *)
(* after is given they come once the history of all topics was sent, and   *)
(* at once: the text of after was stored by a later push.                  *)
Retained(f) == Sorted({kv[k].id : k \in {k \in Key : kv[k].data # Empty /\ Match(k, f)}})

(* subscribe, cmdTrace: an offset that is not a text is refused, and the   *)
(* connection is going to be closed.                                       *)
Subscribe(m) ==
  /\ mqtt[m].state = "in" /\ mqtt[m].filters = <<>>
  /\ mqtt[m].last = Empty \/ IsMarker(mqtt[m].last)
  /\ \E fs \in Filters :
       LET after == IF mqtt[m].last = Empty THEN 0 ELSE mqtt[m].last.id
           subscribed == [mqtt[m] EXCEPT !.filters = fs, !.after = after]
           passed == IF after = 0 THEN subscribed
                     ELSE Replay(subscribed, "history",
                                 [i \in DOMAIN fs |-> History(fs[i], after)])
       IN Become([Realm EXCEPT !.mqtt[m] =
                    Replay(passed, "retained", [i \in DOMAIN fs |-> Retained(fs[i])])])

Publish(m) ==
  /\ mqtt[m].state = "in"
  /\ \E p \in Packet : Become(DoPush(Realm, PublishCmd(p, m)))

(* puback, in any order *)
Puback(m) ==
  \E i \in mqtt[m].unacked :
    Become(DoPush([Realm EXCEPT !.mqtt[m].unacked = @ \ {i}],
                  Inbound(OffsetUri, Text(mqtt[m].got[i].id), m)))

(* disconnect: the will is dropped; the socket is closed later. *)
WillKept(m) == [m EXCEPT !.clean = TRUE]
CleanDisconnectPublish(m) == [m EXCEPT !.clean = TRUE, !.will = NoPacket]
Disconnect(m) ==
  /\ mqtt[m].state = "in" /\ ~mqtt[m].clean
  /\ Become([Realm EXCEPT !.mqtt[m] = CleanDisconnectPublish(@)])

Next ==
  \/ \E h \in HyperSession : Login(h) \/ Push(h)
  \/ \E m \in MqttClientSession :
       Connect(m) \/ Subscribe(m) \/ Publish(m) \/ Puback(m) \/ Disconnect(m)
  \/ \E s \in Session : Close(s)

Spec == Init /\ [][Next]_vars

-----------------------------------------------------------------------------
(* Every variable has its type; waiters are of sessions that are there.    *)
TypeOK ==
  /\ lastId \in FirstId .. MaxId
  /\ \A i \in DOMAIN history : history[i].id \in 1 .. lastId
  /\ \A k \in Key :
       /\ kv[k].id \in 0 .. lastId
       /\ kv[k].data = Empty <=> kv[k] = NoRow
       /\ \A i \in DOMAIN kv[k].waiters : IsActive(Realm, kv[k].waiters[i].sid)
  /\ hyper \in [HyperSession -> {"new", "in", "over"}]
  /\ \A m \in MqttClientSession :
       /\ mqtt[m].state \in {"new", "in", "over"}
       /\ mqtt[m].unacked \subseteq DOMAIN mqtt[m].got

TheLock == INSTANCE Mutex WITH
  Client <- HyperSession,
  present <- {h \in HyperSession : hyper[h] = "in"},
  owner <- kv[LockUri].sid,
  queue <- [i \in DOMAIN kv[LockUri].waiters |-> kv[LockUri].waiters[i].sid]

(* The lock of README.md, made of a key with when null, watch and will     *)
(* null, is a mutex that is fair to those who wait and survives the end of *)
(* any session, also when the one that ends releases it with its MQTT will.*)
IsMutex == TheLock!Spec

(* lib/mqtt/gate.ts:68, "do not duplicate MQTT events on different         *)
(* subscriptions": a live event is written to a connection once.           *)
LiveOnce ==
  \A m \in MqttClientSession : \A i, j \in DOMAIN mqtt[m].got :
    i < j /\ mqtt[m].got[i].kind = "live" /\ mqtt[m].got[j].kind = "live" =>
      mqtt[m].got[i].id < mqtt[m].got[j].id

(* A client that connects again gets what was stored since the event it    *)
(* acknowledged (test/22.mqtt.ts:392: "save worker position, the message   *)
(* considered as handled"): what is dropped as a duplicate was written to  *)
(* that very connection.                                                   *)
ResumeComplete ==
  \A m \in MqttClientSession :
    mqtt[m].state = "in" /\ mqtt[m].after # 0 =>
      \A i \in DOMAIN history :
        LET h == history[i]
        IN h.id > mqtt[m].after /\ (\E j \in DOMAIN mqtt[m].filters : Match(h.uri, mqtt[m].filters[j]))
           => \E j \in DOMAIN mqtt[m].got : mqtt[m].got[j].id = h.id

(* The will of a connection is published once if it ends without           *)
(* DISCONNECT, and never otherwise (test/22.mqtt.ts:                       *)
(* "at-connection-fail-will-publish"); it is told by its topic, to which   *)
(* the client must not publish anything else.                              *)
WillUri == {p.uri : p \in WillPacket}
WillsApart == WillUri \cap ({OffsetUri} \cup {p.uri : p \in Packet}) = {}
WillOnce ==
  \A m \in MqttClientSession :
    Cardinality({i \in DOMAIN history : history[i].sid = m /\ history[i].uri \in WillUri})
      = IF mqtt[m].state = "over" /\ ~mqtt[m].clean /\ mqtt[m].will # NoPacket THEN 1 ELSE 0
=============================================================================
