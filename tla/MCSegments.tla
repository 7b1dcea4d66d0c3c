----------------------------- MODULE MCSegments -----------------------------
EXTENDS Segments

CONSTANTS d1, d2, n1, n2, n3

MCNdb == {d1, d2}
MCSync == {n1, n2, n3}

(* Explorations that do not mix:                                           *)
(*  - both storage nodes, of which d1 has opened its pipes before the      *)
(*    first event, while a quorum drafts for the first segment and it is   *)
(*    stored;                                                              *)
(*  - any sync nodes draft for both segments, which d1 relays; the         *)
(*    handshake comes after a restart of the entry node, while no storage  *)
(*    node is connected.                                                   *)
(* After a restart of the entry node, and in a segment above the first     *)
(* after any fault, d1 alone takes part.  No sync node is ahead of n1, nor *)
(* n3 of n2: it does not matter which of them is ahead.                    *)
Idle(d) == piped[d] = 0 /\ \A k \in Segment : buffer[d][k] = <<>>
Handshake == \E n \in Sync : hello[n].at # "none"
Election == lastSeen[n3] > 0 \/ lastSeen[n1] > 1 \/ Handshake
Restarted == \E i \in DOMAIN faults : faults[i] = "entry"
Scope ==
  /\ lastSeen[n1] >= lastSeen[n2] /\ lastSeen[n2] >= lastSeen[n3]
  /\ \E d \in Ndb : piped[d] \in {0, TrimPipe}
  /\ recentSegment > 0 /\ faults = <<>> => piped[d1] = TrimPipe
  /\ offset = 2 => curSegment = 1
  /\ recentSegment > 1 => \A d \in Ndb : resolvedAt[d] = {}
  /\ Election => offset <= 1 /\ (\A d \in Ndb : resolvedAt[d] = {}) /\ Idle(d2)
  /\ faults # <<>> /\ (Restarted \/ recentSegment > 1) => Idle(d2)
  /\ Handshake => electedBefore > 0
  /\ electedBefore > 0 => \A d \in Ndb : piped[d] = 0
=============================================================================
