---------------------------- MODULE MqttSession ----------------------------
(***************************************************************************)
(* A session of the MQTT gate (lib/mqtt/gate.ts, lib/session.ts), as a     *)
(* record: what it subscribed to, what was written to its socket, and the  *)
(* id of the last event written, which is also where a client goes on that *)
(* connects again.  The client sends one SUBSCRIBE with QoS 1, after       *)
(* CONNACK.                                                                *)
(***************************************************************************)
EXTENDS TopicPattern, SequencesExt

(* What getBodyValue returns of a stored value: nothing, a text (here the  *)
(* id of an event), an object of one field, or what deepMerge makes of two *)
(* texts, an object of their letters.                                      *)
Empty == [kind |-> "empty"]
Text(id) == [kind |-> "text", id |-> id]
Object(s) == [kind |-> "object", by |-> s]
Letters == [kind |-> "letters"]

(* deepDataMerge *)
Merged(old, new) ==
  IF old = Empty \/ new = Empty \/ (old.kind = "object" /\ new.kind = "object")
  THEN new ELSE Letters

(* isValidEventIdMarker *)
IsMarker(value) == value.kind = "text"

NoPacket == [uri |-> <<>>, data |-> Empty, retain |-> FALSE]

NewMqtt == [state |-> "new", will |-> NoPacket, last |-> Empty, filters |-> <<>>, after |-> 0,
            got |-> <<>>, unacked |-> {}, clean |-> FALSE]

(* sendEvent; the number of a message is its place in got, and the client  *)
(* acknowledges those of QoS 1, which keep the flag trace of the event.    *)
Got(m, id, kind, trace) ==
  [m EXCEPT !.last = Text(id),
            !.got = Append(@, [id |-> id, kind |-> kind]),
            !.unacked = IF trace THEN @ \cup {Len(m.got) + 1} ELSE @]
SendAlways(m, id, kind, trace) == Got(m, id, kind, trace)
SendNewer(m, id, kind, trace) ==
  IF m.last.kind = "text" /\ id <= m.last.id THEN m ELSE Got(m, id, kind, trace)
SendEvent(m, id, kind, trace) ==
  IF m.last = Text(id) THEN m ELSE Got(m, id, kind, trace)

SendAll(m, ids, kind, trace) ==
  FoldLeft(LAMBDA n, id : SendEvent(n, id, kind, trace), m, ids)

(* disperseToSubs: a live event, once for every filter that it matches.    *)
Disperse(m, uri, id, trace) ==
  LET fits == At(m.filters, {i \in DOMAIN m.filters : Match(uri, m.filters[i])})
  IN IF m.state # "in" THEN m
     ELSE SendAll(m, [i \in DOMAIN fits |-> id], "live", trace)

(* What is replayed, for one filter after the other, has no flag trace:    *)
(* QoS 0.                                                                  *)
Replay(m, kind, lists) == FoldLeft(LAMBDA n, ids : SendAll(n, ids, kind, FALSE), m, lists)
=============================================================================
