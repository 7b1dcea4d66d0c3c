------------------------------- MODULE Mutex -------------------------------
(***************************************************************************)
(* What README.md ("lock mutex") promises of the lock that clients make of *)
(* a key with the options when, watch and will: one owner; those who wait  *)
(* are served in the order in which they came; whoever is gone neither     *)
(* owns the lock nor waits for it.                                         *)
(***************************************************************************)
EXTENDS OrderedSets

CONSTANTS Client, None

VARIABLES present, owner, queue

vars == <<present, owner, queue>>

Init == present = {} /\ owner = None /\ queue = <<>>

Enter(c) ==
  /\ c \notin present
  /\ present' = present \cup {c}
  /\ UNCHANGED <<owner, queue>>

Acquire(c) ==
  /\ c \in present /\ owner = None
  /\ owner' = c
  /\ UNCHANGED <<present, queue>>

Await(c) ==
  /\ c \in present /\ owner # None
  /\ queue' = Append(queue, c)
  /\ UNCHANGED <<present, owner>>

(* The lock goes to the first that waits. *)
HandOver(waiting) ==
  IF waiting = <<>>
  THEN owner' = None /\ queue' = <<>>
  ELSE owner' = Head(waiting) /\ queue' = Tail(waiting)

Release == owner # None /\ HandOver(queue) /\ UNCHANGED present

Leave(c) ==
  /\ c \in present
  /\ present' = present \ {c}
  /\ LET others == At(queue, {i \in DOMAIN queue : queue[i] # c})
     IN IF owner = c THEN HandOver(others) ELSE queue' = others /\ UNCHANGED owner

Next == Release \/ \E c \in Client : Enter(c) \/ Acquire(c) \/ Await(c) \/ Leave(c)

Spec == Init /\ [][Next]_vars
=============================================================================
