------------------------------ MODULE KeyStore ------------------------------
(***************************************************************************)
(* What the key-value store promises for events that are pushed with the   *)
(* option retain: each is applied at most once and in one step, only when  *)
(* the stored value fits its condition, and accepted after that; a key     *)
(* has the will of the last event applied to it, or none.                  *)
(***************************************************************************)
EXTENDS KvEvents, Naturals, Sequences

VARIABLES
  value,    \* data of each key
  will,     \* what to write when a session is over, by key
  asked,    \* the events, in the order of their arrival
  outcome   \* what became of each event

vars == <<value, will, asked, outcome>>

Init ==
  /\ value = [k \in Key |-> Null]
  /\ will = [k \in Key |-> NoWill]
  /\ asked = <<>>
  /\ outcome = <<>>

Ask(e) ==
  /\ asked' = Append(asked, e)
  /\ outcome' = Append(outcome, "open")
  /\ UNCHANGED <<value, will>>

Apply(i) ==
  LET e == asked[i]
  IN /\ outcome[i] = "open"
     /\ Allowed(e, value[e.key])
     /\ value' = [value EXCEPT ![e.key] = Merge(@, e.data)]
     /\ will' = [will EXCEPT ![e.key] = WillOf(e)]
     /\ outcome' = [outcome EXCEPT ![i] = "applied"]
     /\ UNCHANGED asked

Accept(i) ==
  /\ outcome[i] = "applied"
  /\ outcome' = [outcome EXCEPT ![i] = "accepted"]
  /\ UNCHANGED <<value, will, asked>>

Refuse(i) ==
  /\ outcome[i] = "open"
  /\ ~asked[i].watch
  /\ ~Allowed(asked[i], value[asked[i].key])
  /\ outcome' = [outcome EXCEPT ![i] = "refused"]
  /\ UNCHANGED <<value, will, asked>>

(* Comparing asked spares the search of Event where nothing was asked. *)
Next ==
  \/ \E i \in DOMAIN asked : Apply(i) \/ Accept(i) \/ Refuse(i)
  \/ asked' # asked /\ \E e \in Event : Ask(e)

Spec == Init /\ [][Next]_vars
=============================================================================
