------------------------------ MODULE MCDealer ------------------------------
(* Small instances of the dealer for TLC. *)
EXTENDS Dealer

CONSTANTS s1, s2, s3, p1, p2, c1, c2, c3, r1, r2

MCSession == {s1, s2, s3}
MCProcedure == {p1, p2}
MCCall == {c1, c2, c3}
MCRegistration == {r1, r2}
Limits == {-1, 0, 1}

Entered(s) == s \in joined \cup left
Used(p) ==
  \/ \E r \in Registration : reg[r].uri = p
  \/ \E c \in Call : call[c].uri = p

(* Ids are interchangeable: they are taken in order, in place of symmetry, *)
(* which liveness does not allow.                                          *)
InOrder ==
  /\ Entered(s3) => Entered(s2)
  /\ Entered(s2) => Entered(s1)
  /\ c3 \in Issued => c2 \in Issued
  /\ c2 \in Issued => c1 \in Issued
  /\ r2 \in Registered => r1 \in Registered
  /\ Used(p2) => Used(p1)

(* Three calls of one limited registration, or two calls and two           *)
(* registrations, one of which is limited to one call; with a second       *)
(* procedure, of two sessions.                                             *)
Scope ==
  /\ InOrder
  /\ c3 \in Issued => r2 \notin Registered /\ reg[r1].limit >= 0
  /\ r2 \in Registered => 1 \in {reg[r1].limit, reg[r2].limit}
  /\ Used(p2) =>
       /\ c3 \notin Issued /\ ~Entered(s3)
       /\ \A r \in Registered : reg[r].limit = 1
=============================================================================
