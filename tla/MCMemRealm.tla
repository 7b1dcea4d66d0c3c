----------------------------- MODULE MCMemRealm -----------------------------
EXTENDS MemRealm, TLC

L == <<"lock">>
O == <<"$FOX">>
T == <<"topic", "one">>
U == <<"topic", "two">>
W == <<"will">>

Pkt(uri, retain, data) == [uri |-> uri, retain |-> retain, data |-> data]

MCPacket == {Pkt(T, FALSE, Empty), Pkt(U, TRUE, Object("mqtt"))}
(* A will of its own, and one that empties the key of the lock. *)
MCWillPacket == {Pkt(W, FALSE, Empty), Pkt(L, TRUE, Empty)}
ASSUME WillsApart
(* Two topics that overlap. *)
MCFilters == {<<T, <<"topic", "#">>>>}

(* Sessions compete for the lock while MQTT connections come, end and      *)
(* publish their wills; events and subscriptions are explored by           *)
(* themselves, without wills.                                              *)
Publishing ==
  \/ \E i \in DOMAIN history : history[i].uri \in {T, U}
  \/ \E m \in MqttClientSession : mqtt[m].filters # <<>>
Scope ==
  Publishing =>
    /\ lastId <= 6
    /\ \A h \in HyperSession : hyper[h] = "new"
    /\ \A m \in MqttClientSession : mqtt[m].will = NoPacket

Symmetry == Permutations(HyperSession) \cup Permutations(MqttClientSession)
=============================================================================
