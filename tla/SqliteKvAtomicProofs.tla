------------------------- MODULE SqliteKvAtomicProofs -------------------------
(***************************************************************************)
(* Proof that SqliteKv implements KeyStore while the process lives: with   *)
(* the statements of any pushes, cleanups and launches between each other, *)
(* every push takes effect in one step.                                    *)
(***************************************************************************)
EXTENDS SqliteKvProofs

-----------------------------------------------------------------------------
(* What became of the events: the event that a run applies is not answered *)
(* yet, and no other run has it.                                           *)
Asked ==
  \A i \in DOMAIN push :
    /\ run[i].pc = "queued" => run[i].actor = i /\ run[i].reply = "none"
    /\ Running(i) => /\ run[run[i].actor].reply = "none"
                     /\ run[i].actor = i \/ Ended(run[i].actor)
    /\ run[i].pc = "unwill" => Allowed(Actor(i), run[i].old)

ParkedOpen ==
  \A j \in parked :
    /\ Ended(j) /\ run[j].reply = "none"
    /\ \A i \in DOMAIN push : Running(i) => run[i].actor # j

AtomicInv == HeldInv /\ OldIsCurrent /\ Asked /\ ParkedOpen

LEMMA AskedQuiet ==
  ASSUME AtomicInv, parked' \subseteq parked, UNCHANGED <<push, run>> \/ \E e, by : Enqueued(e, by)
  PROVE  Asked' /\ ParkedOpen'
<1>1. /\ \A i \in DOMAIN push : /\ i \in DOMAIN push' /\ run'[i] = run[i] /\ Actor(i)' = Actor(i)
                                /\ run[i].actor \in DOMAIN push
      /\ parked \subseteq DOMAIN push
  BY QueueView DEF AtomicInv, HeldInv, LeaveInv, WillInv, Types, ParkedTypes, Enqueued, Actor
<1>2. ASSUME NEW i \in DOMAIN push', i \notin DOMAIN push
      PROVE  run'[i].pc = "queued" /\ run'[i].actor = i /\ run'[i].reply = "none"
  <2>1. CASE UNCHANGED <<push, run>>
    BY <1>2, <2>1
  <2>2. CASE \E e, by : Enqueued(e, by)
    BY <1>2, <2>2 DEF Enqueued, NewRun
  <2>. QED BY <2>1, <2>2
<1>3. Asked'
  BY <1>1, <1>2 DEF AtomicInv, Asked, Running, Ended
<1>4. ParkedOpen'
  BY <1>1, <1>2 DEF AtomicInv, ParkedOpen, Running, Ended
<1>. QED BY <1>3, <1>4

(* What a statement makes of the event that it is of. *)
LEMMA AskedRun ==
  ASSUME AtomicInv, NEW n \in DOMAIN push, Step(n)
  PROVE  Asked' /\ ParkedOpen'
<1>1. Types /\ push' = push /\ DOMAIN run = DOMAIN push /\ parked \subseteq DOMAIN push
  BY StepEffect, QueueView DEF AtomicInv, HeldInv, LeaveInv, WillInv, Types, ParkedTypes
<1>2. \A i \in DOMAIN push : i # n => ~Running(i)
  BY StepsAlone DEF AtomicInv, HeldInv, LeaveInv, WillInv
<1>3. PICK x : x = run[n].actor
  OBVIOUS
<1>4. x \in DOMAIN push /\ Actor(n) = push[x] /\ push[x] \in Event /\ push[x].key \in Key
  BY <1>1, <1>3, QueueView DEF Actor, Types, Event
<1>5. run[x].reply = "none" /\ (x = n \/ Ended(x)) /\ x \notin parked
  <2>1. CASE run[n].pc = "queued"
    BY <1>3, <2>1 DEF AtomicInv, Asked, ParkedOpen, Ended
  <2>2. CASE run[n].pc # "queued"
    <3>1. Running(n)
      BY <2>2, StepEffect, <1>1 DEF Running, Ended
    <3>. QED BY <1>3, <3>1 DEF AtomicInv, Asked, ParkedOpen
  <2>. QED BY <2>1, <2>2
(* The run goes on with its event. *)
<1>6. ASSUME NEW pc \in {"read", "unwill", "write", "will", "confirm"}, NEW o,
             StepRun(n, pc, x, o, n, run[n].reply), parked' = parked,
             pc = "unwill" => Allowed(push[x], o)
      PROVE  Asked' /\ ParkedOpen'
  <2>1. \A i \in DOMAIN push :
          /\ run'[i].pc = IF i = n THEN pc ELSE run[i].pc
          /\ run'[i].actor = run[i].actor /\ run'[i].reply = run[i].reply
    BY <1>1, <1>3, <1>6 DEF StepRun, RunTo
  <2>2. run'[n].old = o
    BY <1>1, <1>6 DEF StepRun, RunTo
  <2>3. Asked'
    <3> SUFFICES ASSUME NEW i \in DOMAIN push
                 PROVE  /\ run'[i].pc = "queued" => run'[i].actor = i /\ run'[i].reply = "none"
                        /\ run'[i].pc \notin {"queued", "ended"} =>
                             /\ run'[run'[i].actor].reply = "none"
                             /\ run'[i].actor = i \/ run'[run'[i].actor].pc = "ended"
                        /\ run'[i].pc = "unwill" => Allowed(push[run'[i].actor], run'[i].old)
      BY <1>1 DEF Asked, Running, Ended, Actor
    <3>1. CASE i = n
      BY <1>3, <1>4, <1>5, <1>6, <2>1, <2>2, <3>1 DEF Ended
    <3>2. CASE i # n
      BY <1>2, <2>1, <3>2 DEF AtomicInv, Asked, Running
    <3>. QED BY <3>1, <3>2
  <2>4. ParkedOpen'
    <3>1. \A j \in parked : j # n /\ j # x
      BY <1>5, StepEffect, <1>1 DEF AtomicInv, ParkedOpen
    <3>. QED BY <1>1, <1>2, <1>3, <1>6, <2>1, <3>1 DEF AtomicInv, ParkedOpen, Running, Ended
  <2>. QED BY <2>3, <2>4
(* The run ends, and its event waits or is answered. *)
<1>7. ASSUME NEW r, NEW h \in {n, x}, StepRun(n, "ended", x, run[n].old, h, r),
             \/ parked' = parked \cup {x} /\ h = n /\ r = run[n].reply
             \/ parked' \subseteq parked /\ h = x
      PROVE  Asked' /\ ParkedOpen'
  <2>1. \A i \in DOMAIN push :
          /\ run'[i].pc = IF i = n THEN "ended" ELSE run[i].pc
          /\ run'[i].actor = run[i].actor
          /\ run'[i].reply = IF i = h THEN r ELSE run[i].reply
    BY <1>1, <1>3, <1>7 DEF StepRun, RunTo
  <2>2. \A i \in DOMAIN push : run'[i].pc \in {"queued", "ended"}
    BY <1>2, <2>1 DEF Running
  <2>3. Asked'
    <3> SUFFICES ASSUME NEW i \in DOMAIN push, run'[i].pc = "queued"
                 PROVE  run'[i].actor = i /\ run'[i].reply = "none"
      BY <1>1, <2>2 DEF Asked, Running
    <3>1. i # n /\ run[i].pc = "queued"
      BY <2>1
    <3>. QED BY <1>5, <1>7, <2>1, <3>1 DEF AtomicInv, Asked, Ended
  <2>4. ParkedOpen'
    <3> SUFFICES ASSUME NEW j \in parked' PROVE run'[j].pc = "ended" /\ run'[j].reply = "none"
      BY <1>1, <2>2 DEF ParkedOpen, Ended, Running
    <3>1. CASE j \in parked
      <4>1. j # n /\ j # x /\ j \in DOMAIN push
        BY <1>1, <1>5, <3>1, StepEffect DEF AtomicInv, ParkedOpen
      <4>. QED BY <1>7, <2>1, <3>1, <4>1 DEF AtomicInv, ParkedOpen, Ended
    <3>2. CASE j \notin parked
      BY <1>4, <1>5, <1>7, <2>1, <3>2 DEF Ended
    <3>. QED BY <3>1, <3>2
  <2>. QED BY <2>3, <2>4
<1>8. CASE StartPush(n)
  BY <1>1, <1>3, <1>6, <1>8, StartRun DEF StartPush, Types
<1>9. CASE ReadValue(n) /\ ConditionMet(n)
  <2>1. StepRun(n, "unwill", x, kv[Actor(n).key].data, n, run[n].reply)
    BY <1>1, <1>3, <1>9, MetRun DEF Types
  <2>. QED BY <1>4, <1>6, <1>9, <2>1 DEF ConditionMet
<1>10. CASE ReadValue(n) /\ Parked(n)
  BY <1>1, <1>3, <1>7, <1>10, ParkedRun DEF Parked, Types
<1>11. CASE ReadValue(n) /\ NotAccepted(n)
  BY <1>1, <1>3, <1>7, <1>11, RefusedRun DEF NotAccepted, Types
<1>12. CASE DropWill(n)
  BY <1>1, <1>3, <1>6, <1>12, DropRun DEF DropWill, Types
<1>13. CASE WriteValue(n)
  BY <1>1, <1>3, <1>6, <1>13, WriteRun DEF WriteValue, AfterWrite, Types
<1>14. CASE AddWill(n)
  BY <1>1, <1>3, <1>6, <1>14, AddRun DEF AddWill, Types
<1>15. CASE Confirm(n) /\ NoneWaiting(n)
  BY <1>1, <1>3, <1>7, <1>15, LastRun DEF NoneWaiting, Types
<1>16. CASE Confirm(n) /\ NextWaiting(n)
  <2>1. PICK m : /\ m \in DOMAIN push /\ m \in parked /\ parked' \subseteq parked \ {m}
                 /\ StepRun(n, "read", m, run[n].old, x, "accepted")
    BY <1>1, <1>3, <1>16, NextRun DEF Types
  <2>2. \A i \in DOMAIN push :
          /\ run'[i].pc = IF i = n THEN "read" ELSE run[i].pc
          /\ run'[i].actor = IF i = n THEN m ELSE run[i].actor
          /\ run'[i].reply = IF i = x THEN "accepted" ELSE run[i].reply
    BY <1>1, <2>1 DEF StepRun, RunTo
  <2>3. /\ m # n /\ m # x /\ Ended(m) /\ run[m].reply = "none"
        /\ \A j \in parked : j # n /\ j # x
    BY <1>1, <1>5, <2>1, StepEffect DEF AtomicInv, ParkedOpen
  <2>4. Asked'
    <3> SUFFICES ASSUME NEW i \in DOMAIN push
                 PROVE  /\ run'[i].pc = "queued" => run'[i].actor = i /\ run'[i].reply = "none"
                        /\ run'[i].pc \notin {"queued", "ended"} =>
                             /\ run'[run'[i].actor].reply = "none"
                             /\ run'[i].actor = i \/ run'[run'[i].actor].pc = "ended"
                        /\ run'[i].pc # "unwill"
      BY <1>1 DEF Asked, Running, Ended, Actor
    <3>1. CASE i = n
      BY <2>1, <2>2, <2>3, <3>1 DEF Ended
    <3>2. CASE i # n
      <4>1. run[i].pc = "queued" => i # x
        BY <1>5, <3>2 DEF Ended
      <4>. QED BY <1>2, <2>2, <3>2, <4>1 DEF AtomicInv, Asked, Running
    <3>. QED BY <3>1, <3>2
  <2>5. ParkedOpen'
    BY <1>1, <1>2, <2>1, <2>2, <2>3 DEF AtomicInv, ParkedOpen, Running, Ended
  <2>. QED BY <2>4, <2>5
<1>. QED BY <1>8, <1>9, <1>10, <1>11, <1>12, <1>13, <1>14, <1>15, <1>16 DEF Step, ReadValue, Confirm

LEMMA AskedStep == MaxCrash = 0 /\ AtomicInv /\ [Next]_vars => Asked' /\ ParkedOpen'
<1> SUFFICES ASSUME MaxCrash = 0, AtomicInv, [Next]_vars PROVE Asked' /\ ParkedOpen'
  OBVIOUS
<1>1. CASE UNCHANGED <<push, run>> /\ parked' \subseteq parked
  BY <1>1, AskedQuiet
<1>2. ASSUME NEW s \in Session, NEW r \in Request, Push(s, r) PROVE Asked' /\ ParkedOpen'
  <2>1. Enqueued(PushEvent(s, r), NoOpt)
    BY <1>2, PushView DEF AtomicInv, HeldInv, LeaveInv, WillInv
  <2>. QED BY <1>2, <2>1, AskedQuiet DEF Push
<1>3. ASSUME NEW n \in DOMAIN push, Step(n) PROVE Asked' /\ ParkedOpen'
  BY <1>3, AskedRun
<1>4. ASSUME NEW c \in Cleaner, PushWill(c) PROVE Asked' /\ ParkedOpen'
  <2>1. PICK row : Enqueued(WillEvent(row), c)
    BY <1>4, PushWillView DEF AtomicInv, HeldInv, LeaveInv, WillInv
  <2>. QED BY <1>4, <2>1, AskedQuiet DEF PushWill
<1>5. ~Crash
  BY NoCrash DEF AtomicInv, HeldInv, LeaveInv, WillInv
<1>. QED BY <1>1, <1>2, <1>3, <1>4, <1>5
         DEF Next, Clean, Join, Leave, BeginCleanup, SelectWills, DeleteWill, vars

LEMMA AtomicInit == Init => AtomicInv
<1> SUFFICES ASSUME Init PROVE AtomicInv
  OBVIOUS
<1>1. push = <<>> /\ run = <<>> /\ parked = {}
  BY DEF Init
<1>2. OldIsCurrent /\ Asked /\ ParkedOpen
  BY <1>1 DEF OldIsCurrent, Asked, ParkedOpen
<1>. QED BY <1>2, HeldInit DEF AtomicInv

LEMMA AtomicInvStep == ~JoinWhileLaunching /\ MaxCrash = 0 /\ AtomicInv /\ [Next]_vars => AtomicInv'
<1>1. AtomicInv => HeldInv /\ OldInv
  BY DEF AtomicInv, HeldInv, LeaveInv, WillInv, OldInv
<1>. QED BY <1>1, HeldInvStep, OldStep, AskedStep DEF AtomicInv

-----------------------------------------------------------------------------
(* What is seen of the store, when no push but n is under way.             *)
OnlyOne(n) == \A i \in DOMAIN push : i # n => run[i].pc \notin {"write", "will", "confirm"}
At(n, pcs) == n \in DOMAIN push /\ run[n].pc \in pcs
Forms(n) ==
  /\ \A k \in Key :
       /\ SeenValue(k) = IF At(n, {"write"}) /\ Actor(n).key = k
                         THEN Merge(run[n].old, Actor(n).data) ELSE kv[k].data
       /\ SeenWill(k) = IF At(n, {"write", "will"}) /\ Actor(n).key = k
                        THEN WillOf(Actor(n)) ELSE wills[k]
  /\ \A j \in DOMAIN push :
       SeenOutcome(j) = IF run[j].reply # "none" THEN run[j].reply
                        ELSE IF At(n, {"write", "will", "confirm"}) /\ run[n].actor = j
                        THEN "applied" ELSE "open"

LEMMA SeenForms ==
  ASSUME NEW n
  PROVE  QueueTypes /\ Asked /\ OnlyOne(n) => Forms(n)
<1> SUFFICES ASSUME QueueTypes, Asked, OnlyOne(n) PROVE Forms(n)
  OBVIOUS
<1>1. DOMAIN run = DOMAIN push
  BY QueueView
<1>2. ASSUME NEW k \in Key, NEW pcs \in SUBSET {"write", "will", "confirm"}
      PROVE  Underway(k, pcs) = IF At(n, pcs) /\ Actor(n).key = k THEN {n} ELSE {}
  BY <1>1 DEF Underway, OnlyOne, At
<1>3. \A k \in Key : Underway(k, {"write"}) = IF At(n, {"write"}) /\ Actor(n).key = k THEN {n} ELSE {}
  BY <1>2
<1>4. \A k \in Key : Underway(k, {"write", "will"}) =
                       IF At(n, {"write", "will"}) /\ Actor(n).key = k THEN {n} ELSE {}
  BY <1>2
<1>6. ASSUME NEW k \in Key
      PROVE  SeenValue(k) = IF At(n, {"write"}) /\ Actor(n).key = k
                            THEN Merge(run[n].old, Actor(n).data) ELSE kv[k].data
  <2>1. CASE Underway(k, {"write"}) = {n}
    <3>1. (CHOOSE i \in Underway(k, {"write"}) : TRUE) = n
      BY <2>1
    <3>. QED BY <1>3, <2>1, <3>1 DEF SeenValue
  <2>2. CASE Underway(k, {"write"}) = {}
    BY <1>3, <2>2 DEF SeenValue
  <2>. QED BY <1>3, <2>1, <2>2
<1>7. ASSUME NEW k \in Key
      PROVE  SeenWill(k) = IF At(n, {"write", "will"}) /\ Actor(n).key = k
                           THEN WillOf(Actor(n)) ELSE wills[k]
  <2>1. CASE Underway(k, {"write", "will"}) = {n}
    <3>1. (CHOOSE i \in Underway(k, {"write", "will"}) : TRUE) = n
      BY <2>1
    <3>. QED BY <1>4, <2>1, <3>1 DEF SeenWill
  <2>2. CASE Underway(k, {"write", "will"}) = {}
    BY <1>4, <2>2 DEF SeenWill
  <2>. QED BY <1>4, <2>1, <2>2
<1>8. ASSUME NEW j \in DOMAIN push
      PROVE  SeenOutcome(j) = IF run[j].reply # "none" THEN run[j].reply
                              ELSE IF At(n, {"write", "will", "confirm"}) /\ run[n].actor = j
                              THEN "applied" ELSE "open"
  <2>1. (\E i \in DOMAIN run : run[i].actor = j /\ run[i].pc \in {"write", "will", "confirm"})
          <=> At(n, {"write", "will", "confirm"}) /\ run[n].actor = j
    BY <1>1 DEF OnlyOne, At
  <2>2. CASE run[j].reply # "none"
    <3>1. ~\E i \in DOMAIN run : run[i].actor = j /\ run[i].pc \in {"write", "will", "confirm"}
      BY <1>1, <2>2 DEF Asked, Running
    <3>. QED BY <2>2, <3>1 DEF SeenOutcome
  <2>3. CASE run[j].reply = "none" /\ At(n, {"write", "will", "confirm"}) /\ run[n].actor = j
    BY <2>1, <2>3 DEF SeenOutcome
  <2>4. CASE run[j].reply = "none" /\ ~(At(n, {"write", "will", "confirm"}) /\ run[n].actor = j)
    BY <2>1, <2>4 DEF SeenOutcome
  <2>. QED BY <2>2, <2>3, <2>4
<1>. QED BY <1>6, <1>7, <1>8 DEF Forms

-----------------------------------------------------------------------------
(* The steps of the store, as they are seen. *)
LEMMA StoreWords ==
  /\ \A e, d : Store!Allowed(e, d) <=> Allowed(e, d)
  /\ \A o, d : Store!Merge(o, d) = Merge(o, d)
  /\ \A e : Store!WillOf(e) = WillOf(e)
  /\ Store!Event = Event
<1>1. \A w, d : Store!Fit(w, d) <=> Fit(w, d)
  BY DEF Store!Fit, Fit
<1>2. \A e, d : Store!Allowed(e, d) <=> Allowed(e, d)
  BY <1>1 DEF Store!Allowed, Allowed
<1>3. \A o, d : Store!Merge(o, d) = Merge(o, d)
  BY DEF Store!Merge, Merge
<1>4. \A e : Store!WillOf(e) = WillOf(e)
  BY DEF Store!WillOf, WillOf, Store!NoWill, NoWill
<1>5. Store!Event = Event
  BY DEF Store!Event, Event, Store!Data, Data, Store!Document, Document
<1>. QED BY <1>2, <1>3, <1>4, <1>5

Same(k) == SeenValue(k)' = SeenValue(k) /\ SeenWill(k)' = SeenWill(k)

LEMMA StoreStutters ==
  ASSUME push' = push, \A k \in Key : Same(k),
         \A j \in DOMAIN push : SeenOutcome(j)' = SeenOutcome(j)
  PROVE  UNCHANGED Store!vars
  BY DEF Store!vars, Same

LEMMA StoreAsks ==
  ASSUME AtomicInv, NEW e \in Event, NEW by, Enqueued(e, by), push' = Append(push, e),
         \A k \in Key : Same(k),
         \A j \in DOMAIN push : SeenOutcome(j)' = SeenOutcome(j),
         NEW m, m = Len(push) + 1, SeenOutcome(m)' = "open"
  PROVE  Store!Next
<1>1. push' # push
  BY DEF Enqueued
<1>2. DOMAIN push = 1 .. Len(push) /\ DOMAIN push' = 1 .. Len(push) + 1 /\ Len(push) \in Nat
  BY QueueView DEF AtomicInv, HeldInv, LeaveInv, WillInv, Types, Enqueued, QueueTypes
<1>3. [j \in DOMAIN push |-> SeenOutcome(j)]' = Append([j \in DOMAIN push |-> SeenOutcome(j)], "open")
  <2>1. PICK s : s = [j \in DOMAIN push |-> SeenOutcome(j)]
    OBVIOUS
  <2>2. PICK t : t = [j \in DOMAIN push |-> SeenOutcome(j)]'
    OBVIOUS
  <2>3. PICK S : S = {SeenOutcome(j) : j \in DOMAIN push} \cup {"open"}
    OBVIOUS
  <2>4. s \in Seq(S) /\ Len(s) = Len(push)
    <3>1. s \in [1 .. Len(push) -> S]
      BY <1>2, <2>1, <2>3
    <3>. QED BY <1>2, <3>1, SeqDef, LenProperties
  <2>5. PICK u : u = Append(s, "open")
    OBVIOUS
  <2>6. /\ u \in Seq(S) /\ Len(u) = Len(push) + 1 /\ u[Len(push) + 1] = "open"
        /\ \A j \in 1 .. Len(push) : u[j] = s[j]
    BY <2>3, <2>4, <2>5, AppendProperties
  <2>7. /\ DOMAIN t = 1 .. Len(push) + 1 /\ t[Len(push) + 1] = "open"
        /\ \A j \in 1 .. Len(push) : t[j] = s[j]
    <3>1. \A j \in DOMAIN push' : t[j] = SeenOutcome(j)'
      BY <2>2
    <3>2. \A j \in DOMAIN push : s[j] = SeenOutcome(j)
      BY <2>1
    <3>3. DOMAIN t = DOMAIN push'
      BY <2>2
    <3>. QED BY <1>2, <3>1, <3>2, <3>3
  <2>8. t \in [1 .. Len(push) + 1 -> S]
    <3>1. \A j \in 1 .. Len(push) : s[j] \in S
      BY <2>4
    <3>2. t = [j \in DOMAIN t |-> t[j]]
      BY <2>2
    <3>3. \A j \in 1 .. Len(push) + 1 : j \in 1 .. Len(push) \/ j = Len(push) + 1
      BY <1>2
    <3>. QED BY <2>3, <2>7, <3>1, <3>2, <3>3
  <2>9. t \in Seq(S) /\ Len(t) = Len(push) + 1
    BY <1>2, <2>8, SeqDef, LenProperties
  <2>10. \A j \in 1 .. Len(t) : t[j] = u[j]
    BY <1>2, <2>6, <2>7, <2>9
  <2>11. t = u
    BY <2>6, <2>9, <2>10, SeqEqual
  <2>. QED BY <2>1, <2>2, <2>5, <2>11
<1>4. Store!Ask(e)
  BY <1>3 DEF Store!Ask, Same
<1>. QED BY <1>1, <1>4, StoreWords DEF Store!Next

LEMMA StoreApplies ==
  ASSUME push' = push, NEW a \in DOMAIN push, SeenOutcome(a) = "open", push[a].key \in Key,
         Allowed(push[a], SeenValue(push[a].key)),
         \A k \in Key :
           /\ SeenValue(k)' = IF k = push[a].key THEN Merge(SeenValue(k), push[a].data) ELSE SeenValue(k)
           /\ SeenWill(k)' = IF k = push[a].key THEN WillOf(push[a]) ELSE SeenWill(k),
         \A j \in DOMAIN push : SeenOutcome(j)' = IF j = a THEN "applied" ELSE SeenOutcome(j)
  PROVE  Store!Next
<1>1. Store!Apply(a)
  BY StoreWords DEF Store!Apply
<1>. QED BY <1>1 DEF Store!Next

LEMMA StoreAnswers ==
  ASSUME push' = push, NEW a \in DOMAIN push, \A k \in Key : Same(k), NEW r, push[a].key \in Key,
         \A j \in DOMAIN push : SeenOutcome(j)' = IF j = a THEN r ELSE SeenOutcome(j),
         \/ r = "accepted" /\ SeenOutcome(a) = "applied"
         \/ /\ r = "refused" /\ SeenOutcome(a) = "open" /\ ~push[a].watch
            /\ ~Allowed(push[a], SeenValue(push[a].key))
  PROVE  Store!Next
<1>1. CASE r = "accepted"
  <2>1. Store!Accept(a)
    BY <1>1 DEF Store!Accept, Same
  <2>. QED BY <2>1 DEF Store!Next
<1>2. CASE r = "refused"
  <2>1. Store!Refuse(a)
    BY <1>2, StoreWords DEF Store!Refuse, Same
  <2>. QED BY <2>1 DEF Store!Next
<1>. QED BY <1>1, <1>2

-----------------------------------------------------------------------------
(* An event joins the queue: the store is asked.                           *)
LEMMA EnqueueAsks ==
  ASSUME AtomicInv, QueueTypes', Asked', NEW e \in Event, NEW by, Enqueue(e, by), Enqueued(e, by),
         UNCHANGED <<kv, wills>>
  PROVE  Store!Next
<1>1. PICK m : m = Len(push) + 1
  OBVIOUS
<1>2. QueueTypes /\ Asked /\ DOMAIN run = DOMAIN push /\ m \notin DOMAIN push /\ DOMAIN push' = DOMAIN push \cup {m}
      /\ run'[m] = NewRun(by) /\ 0 \notin DOMAIN push /\ 0 # m
      /\ \A i \in DOMAIN push : /\ push'[i] = push[i] /\ run'[i] = run[i] /\ Actor(i)' = Actor(i)
                                /\ run[i].actor \in DOMAIN push
  BY <1>1, QueueView DEF AtomicInv, HeldInv, LeaveInv, WillInv, Types, Enqueued, Actor
<1>3. PICK n : OnlyOne(n) /\ n # m
  <2>1. CASE \E i \in DOMAIN push : Running(i)
    <3>1. PICK i \in DOMAIN push : Running(i)
      BY <2>1
    <3>2. OnlyOne(i)
      BY <3>1, OneRuns DEF OnlyOne, Running, AtomicInv, HeldInv, LeaveInv, WillInv
    <3>. QED BY <1>2, <3>2
  <2>2. CASE ~\E i \in DOMAIN push : Running(i)
    <3>1. OnlyOne(0)
      BY <2>2 DEF OnlyOne, Running
    <3>. QED BY <1>2, <3>1
  <2>. QED BY <2>1, <2>2
<1>4. OnlyOne(n)'
  BY <1>2, <1>3 DEF OnlyOne, NewRun
<1>5. Forms(n)
  BY <1>2, <1>3, SeenForms
<1>6. (QueueTypes /\ Asked /\ OnlyOne(n) => Forms(n))'
  BY SeenForms, PTL
<1>7. Forms(n)'
  BY <1>4, <1>6
<1>8. /\ At(n, {"write"})' <=> At(n, {"write"})
      /\ At(n, {"write", "will"})' <=> At(n, {"write", "will"})
      /\ At(n, {"write", "will", "confirm"})' <=> At(n, {"write", "will", "confirm"})
  BY <1>2, <1>3 DEF At
<1>9. \A k \in Key : Same(k)
  <2> SUFFICES ASSUME NEW k \in Key PROVE SeenValue(k)' = SeenValue(k) /\ SeenWill(k)' = SeenWill(k)
    BY DEF Same
  <2>1. CASE n \in DOMAIN push
    BY <1>2, <1>5, <1>7, <1>8, <2>1 DEF Forms
  <2>2. CASE n \notin DOMAIN push
    BY <1>2, <1>3, <1>5, <1>7, <2>2 DEF Forms, At
  <2>. QED BY <2>1, <2>2
<1>10. ASSUME NEW j \in DOMAIN push PROVE SeenOutcome(j)' = SeenOutcome(j)
  <2>1. CASE n \in DOMAIN push
    BY <1>2, <1>5, <1>7, <1>8, <2>1 DEF Forms
  <2>2. CASE n \notin DOMAIN push
    BY <1>2, <1>3, <1>5, <1>7, <2>2 DEF Forms, At
  <2>. QED BY <2>1, <2>2
<1>11. SeenOutcome(m)' = "open"
  <2>1. run'[m].reply = "none" /\ m \in DOMAIN push'
    BY <1>2 DEF NewRun
  <2>2. n \in DOMAIN push => run'[n].actor # m
    BY <1>2
  <2>3. ~(At(n, {"write", "will", "confirm"})' /\ run'[n].actor = m)
    BY <1>2, <1>3, <2>2 DEF At
  <2>. QED BY <1>7, <2>1, <2>3 DEF Forms
<1>12. push' = Append(push, e)
  BY DEF Enqueue
<1>. QED BY <1>1, <1>9, <1>10, <1>11, <1>12, StoreAsks

(* A statement of a push: it applies its event with the first that changes *)
(* the tables, answers it with the last, and nothing is seen of the rest.  *)
LEMMA StepStores ==
  ASSUME AtomicInv, QueueTypes', Asked', NEW n \in DOMAIN push, Step(n)
  PROVE  Store!Next \/ UNCHANGED Store!vars
<1>1. Types /\ QueueTypes /\ Asked /\ push' = push /\ DOMAIN run = DOMAIN push /\ ParkedTypes
  BY StepEffect, QueueView DEF AtomicInv, HeldInv, LeaveInv, WillInv, Types
<1>2. PICK x : x = run[n].actor
  OBVIOUS
<1>3. /\ x \in DOMAIN push /\ Actor(n) = push[x] /\ push[x] \in Event
      /\ push[x].key \in Key /\ push[x].data \in Data /\ run[n].old \in Data
  BY <1>1, <1>2, QueueView DEF Actor, Types, Event, Run
<1>4. OnlyOne(n)
  BY StepsAlone, <1>1 DEF OnlyOne, Running, AtomicInv, HeldInv
<1>5. OnlyOne(n)'
  <2>1. \A i \in DOMAIN push : i # n => run'[i].pc = run[i].pc
    BY <1>1, StepEffect DEF StepRun, RunTo
  <2>. QED BY <1>1, <1>4, <2>1 DEF OnlyOne
<1>6. Forms(n)
  BY <1>1, <1>4, SeenForms
<1>7. (QueueTypes /\ Asked /\ OnlyOne(n) => Forms(n))'
  BY SeenForms, PTL
<1>8. Forms(n)'
  BY <1>5, <1>7
(* The forms before the step and after it. *)
<1>9. ASSUME NEW pc, NEW a, NEW o, NEW h, NEW r, StepRun(n, pc, a, o, h, r), NEW k \in Key
      PROVE  /\ SeenValue(k)' = IF pc = "write" /\ push[a].key = k THEN Merge(o, push[a].data) ELSE kv'[k].data
             /\ SeenWill(k)' = IF pc \in {"write", "will"} /\ push[a].key = k THEN WillOf(push[a]) ELSE wills'[k]
  <2>1. run'[n].pc = pc /\ run'[n].actor = a /\ run'[n].old = o
    BY <1>1, <1>9 DEF StepRun, RunTo
  <2>. QED BY <1>1, <1>8, <2>1 DEF Forms, At, Actor
<1>10. ASSUME NEW pc, NEW a, NEW o, NEW h, NEW r, StepRun(n, pc, a, o, h, r), NEW j \in DOMAIN push
       PROVE  SeenOutcome(j)' = IF (IF j = h THEN r ELSE run[j].reply) # "none"
                                THEN (IF j = h THEN r ELSE run[j].reply)
                                ELSE IF pc \in {"write", "will", "confirm"} /\ a = j THEN "applied" ELSE "open"
  <2>1. run'[n].pc = pc /\ run'[n].actor = a /\ run'[j].reply = IF j = h THEN r ELSE run[j].reply
    BY <1>1, <1>10 DEF StepRun, RunTo
  <2>. QED BY <1>1, <1>8, <2>1 DEF Forms, At
<1>11. \A k \in Key :
         /\ SeenValue(k) = IF run[n].pc = "write" /\ push[x].key = k THEN Merge(run[n].old, push[x].data) ELSE kv[k].data
         /\ SeenWill(k) = IF run[n].pc \in {"write", "will"} /\ push[x].key = k THEN WillOf(push[x]) ELSE wills[k]
  BY <1>3, <1>6 DEF Forms, At
<1>12. \A j \in DOMAIN push :
         SeenOutcome(j) = IF run[j].reply # "none" THEN run[j].reply
                          ELSE IF run[n].pc \in {"write", "will", "confirm"} /\ x = j THEN "applied" ELSE "open"
  BY <1>2, <1>6 DEF Forms, At
<1>13. Running(n) => run[x].reply = "none"
  BY <1>1, <1>2 DEF Asked
<1>14. CASE StartPush(n)
  <2>1. StepRun(n, "read", x, run[n].old, n, run[n].reply) /\ kv' = kv /\ wills' = wills /\ run[n].pc = "queued"
    BY <1>1, <1>2, <1>14, StartRun DEF StartPush
  <2>2. \A k \in Key : Same(k)
    BY <1>9, <1>11, <2>1 DEF Same
  <2>3. \A j \in DOMAIN push : SeenOutcome(j)' = SeenOutcome(j)
    BY <1>10, <1>12, <2>1
  <2>. QED BY <1>1, <2>2, <2>3, StoreStutters
<1>15. CASE ReadValue(n) /\ ConditionMet(n)
  <2>1. PICK o : o = kv[Actor(n).key].data
    OBVIOUS
  <2>2. StepRun(n, "unwill", x, o, n, run[n].reply) /\ kv' = kv /\ wills' = wills /\ run[n].pc = "read"
    BY <1>1, <1>2, <1>15, <2>1, MetRun DEF ReadValue, Types
  <2>3. \A k \in Key : Same(k)
    BY <1>9, <1>11, <2>2 DEF Same
  <2>4. \A j \in DOMAIN push : SeenOutcome(j)' = SeenOutcome(j)
    BY <1>10, <1>12, <2>2
  <2>. QED BY <1>1, <2>3, <2>4, StoreStutters
<1>16. CASE ReadValue(n) /\ Parked(n)
  <2>1. StepRun(n, "ended", x, run[n].old, n, run[n].reply) /\ kv' = kv /\ wills' = wills /\ run[n].pc = "read"
    BY <1>1, <1>2, <1>16, ParkedRun DEF ReadValue
  <2>2. \A k \in Key : Same(k)
    BY <1>9, <1>11, <2>1 DEF Same
  <2>3. \A j \in DOMAIN push : SeenOutcome(j)' = SeenOutcome(j)
    BY <1>10, <1>12, <2>1
  <2>. QED BY <1>1, <2>2, <2>3, StoreStutters
<1>17. CASE ReadValue(n) /\ NotAccepted(n)
  <2>1. StepRun(n, "ended", x, run[n].old, x, "refused") /\ kv' = kv /\ wills' = wills /\ run[n].pc = "read"
    BY <1>1, <1>2, <1>17, RefusedRun DEF ReadValue
  <2>2. \A k \in Key : Same(k)
    BY <1>9, <1>11, <2>1 DEF Same
  <2>3. \A j \in DOMAIN push : SeenOutcome(j)' = IF j = x THEN "refused" ELSE SeenOutcome(j)
    BY <1>10, <1>12, <2>1
  <2>4. SeenOutcome(x) = "open" /\ SeenValue(push[x].key) = kv[push[x].key].data
    BY <1>3, <1>11, <1>12, <1>13, <2>1 DEF Running
  <2>5. ~push[x].watch /\ ~Allowed(push[x], kv[push[x].key].data)
    BY <1>3, <1>17 DEF NotAccepted
  <2>. QED BY <1>1, <1>3, <2>2, <2>3, <2>4, <2>5, StoreAnswers
<1>18. CASE DropWill(n)
  <2>1. StepRun(n, "write", x, run[n].old, n, run[n].reply) /\ kv' = kv /\ run[n].pc = "unwill"
    BY <1>1, <1>2, <1>18, DropRun DEF DropWill
  <2>2. kv[push[x].key].data = run[n].old
    BY <1>1, <1>3, <2>1 DEF AtomicInv, OldIsCurrent
  <2>3. Allowed(push[x], SeenValue(push[x].key)) /\ SeenOutcome(x) = "open" /\ run[x].reply = "none"
    BY <1>1, <1>3, <1>11, <1>12, <1>13, <2>1, <2>2 DEF Asked, Running
  <2>4. ASSUME NEW k \in Key
        PROVE  SeenValue(k)' = IF k = push[x].key THEN Merge(SeenValue(k), push[x].data) ELSE SeenValue(k)
    BY <1>9, <1>11, <2>1, <2>2, <2>4
  <2>5. ASSUME NEW k \in Key
        PROVE  SeenWill(k)' = IF k = push[x].key THEN WillOf(push[x]) ELSE SeenWill(k)
    <3>1. k # push[x].key => wills'[k] = wills[k]
      BY <1>1, <1>3, <1>18 DEF DropWill, Types, TableTypes
    <3>. QED BY <1>9, <1>11, <2>1, <3>1
  <2>6. \A j \in DOMAIN push : SeenOutcome(j)' = IF j = x THEN "applied" ELSE SeenOutcome(j)
    BY <1>10, <1>12, <2>1, <2>3
  <2>. QED BY <1>1, <1>3, <2>3, <2>4, <2>5, <2>6, StoreApplies
<1>19. CASE WriteValue(n)
  <2>1. PICK pc : pc = AfterWrite(push[x])
    OBVIOUS
  <2>2. StepRun(n, pc, x, run[n].old, n, run[n].reply) /\ wills' = wills /\ run[n].pc = "write"
    BY <1>1, <1>2, <1>3, <1>19, <2>1, WriteRun DEF WriteValue
  <2>3. PICK d : d = Merge(run[n].old, push[x].data)
    OBVIOUS
  <2>4. kv'[push[x].key] = RowOf(push[x], d) /\ \A k \in Key : k # push[x].key => kv'[k] = kv[k]
    BY <1>1, <1>3, <1>19, <2>3 DEF WriteValue, Types, TableTypes
  <2>5. kv'[push[x].key].data = d
    BY <1>3, <2>3, <2>4, MergeTyped, RowOfTyped
  <2>6. wills[push[x].key] = NoWill
    BY <1>3, <2>2 DEF AtomicInv, HeldInv, Dropped
  <2>7. pc = "confirm" => WillOf(push[x]) = NoWill
    BY <2>1 DEF AfterWrite, WillOf
  <2>8. pc \in {"confirm", "will"}
    BY <2>1 DEF AfterWrite
  <2>9. ASSUME NEW k \in Key PROVE SeenValue(k)' = SeenValue(k)
    BY <1>9, <1>11, <2>2, <2>3, <2>4, <2>5, <2>8
  <2>10. ASSUME NEW k \in Key PROVE SeenWill(k)' = SeenWill(k)
    BY <1>9, <1>11, <2>2, <2>6, <2>7, <2>8
  <2>11. \A j \in DOMAIN push : SeenOutcome(j)' = SeenOutcome(j)
    BY <1>10, <1>12, <2>2, <2>8
  <2>. QED BY <1>1, <2>9, <2>10, <2>11, StoreStutters DEF Same
<1>20. CASE AddWill(n)
  <2>1. StepRun(n, "confirm", x, run[n].old, n, run[n].reply) /\ kv' = kv /\ run[n].pc = "will"
    BY <1>1, <1>2, <1>20, AddRun DEF AddWill
  <2>2. wills'[push[x].key] = WillOf(push[x]) /\ \A k \in Key : k # push[x].key => wills'[k] = wills[k]
    BY <1>1, <1>3, <1>20 DEF AddWill, Types, TableTypes
  <2>3. \A k \in Key : Same(k)
    BY <1>9, <1>11, <2>1, <2>2 DEF Same
  <2>4. \A j \in DOMAIN push : SeenOutcome(j)' = SeenOutcome(j)
    BY <1>10, <1>12, <2>1
  <2>. QED BY <1>1, <2>3, <2>4, StoreStutters
<1>21. CASE Confirm(n)
  <2>1. PICK a, pc : pc \in {"read", "ended"} /\ StepRun(n, pc, a, run[n].old, x, "accepted")
    BY <1>1, <1>2, <1>21, NextRun, LastRun DEF Confirm
  <2>2. kv' = kv /\ wills' = wills /\ run[n].pc = "confirm"
    BY <1>21 DEF Confirm
  <2>3. \A k \in Key : Same(k)
    BY <1>9, <1>11, <2>1, <2>2 DEF Same
  <2>4. \A j \in DOMAIN push : SeenOutcome(j)' = IF j = x THEN "accepted" ELSE SeenOutcome(j)
    BY <1>10, <1>12, <2>1, <2>2
  <2>5. SeenOutcome(x) = "applied"
    BY <1>3, <1>12, <1>13, <2>2 DEF Running
  <2>. QED BY <1>1, <1>3, <2>3, <2>4, <2>5, StoreAnswers
<1>. QED BY <1>14, <1>15, <1>16, <1>17, <1>18, <1>19, <1>20, <1>21 DEF Step, ReadValue

LEMMA NextStores == MaxCrash = 0 /\ AtomicInv /\ AtomicInv' /\ [Next]_vars => [Store!Next]_Store!vars
<1> SUFFICES ASSUME MaxCrash = 0, AtomicInv, AtomicInv', [Next]_vars
             PROVE  Store!Next \/ UNCHANGED Store!vars
  OBVIOUS
<1>1. Types /\ QueueTypes' /\ Asked'
  BY DEF AtomicInv, HeldInv, LeaveInv, WillInv, Types
<1>2. ASSUME UNCHANGED <<push, run, kv, wills>> PROVE UNCHANGED Store!vars
  BY <1>2 DEF Store!vars, SeenValue, SeenWill, SeenOutcome, Underway, Actor
<1>3. ASSUME NEW s \in Session, NEW r \in Request, Push(s, r) PROVE Store!Next
  <2>1. Enqueue(PushEvent(s, r), NoOpt) /\ UNCHANGED <<kv, wills>>
    BY <1>3 DEF Push, PushEvent
  <2>. QED BY <1>1, <1>3, <2>1, PushView, EnqueueAsks
<1>4. ASSUME NEW c \in Cleaner, PushWill(c) PROVE Store!Next
  <2>1. PICK row \in cleaner[c].rows : Enqueue(WillEvent(row), c)
    BY <1>4 DEF PushWill, WillEvent
  <2>2. row \in WillRow
    BY <1>1, <2>1 DEF Types, CleanerTypes, Cleaning
  <2>3. WillEvent(row) \in Event
    BY <2>2 DEF WillEvent, WillRow, Event
  <2>4. Enqueued(WillEvent(row), c)
    BY <1>1, <2>1, <2>3, EnqueueView DEF Types
  <2>. QED BY <1>1, <1>4, <2>1, <2>3, <2>4, EnqueueAsks DEF PushWill
<1>5. ASSUME NEW n \in DOMAIN push, Step(n) PROVE Store!Next \/ UNCHANGED Store!vars
  BY <1>1, <1>5, StepStores
<1>6. ASSUME NEW c \in Cleaner, DeleteWill(c) PROVE UNCHANGED Store!vars
  <2>1. wills' = wills
    BY <1>6, DeleteNothing DEF AtomicInv, HeldInv
  <2>. QED BY <1>2, <1>6, <2>1 DEF DeleteWill
<1>7. ~Crash
  BY <1>1, NoCrash
<1>. QED BY <1>2, <1>3, <1>4, <1>5, <1>6, <1>7
         DEF Next, Clean, Join, Leave, BeginCleanup, SelectWills, vars

LEMMA InitStores == Init => Store!Init
<1> SUFFICES ASSUME Init PROVE Store!Init
  OBVIOUS
<1>1. push = <<>> /\ run = <<>> /\ kv = [k \in Key |-> NoRow] /\ wills = [k \in Key |-> NoWill]
  BY DEF Init
<1>2. ASSUME NEW k \in Key PROVE SeenValue(k) = Null /\ SeenWill(k) = Store!NoWill
  <2>1. Underway(k, {"write"}) = {} /\ Underway(k, {"write", "will"}) = {}
    BY <1>1 DEF Underway
  <2>2. kv[k].data = Null /\ wills[k] = NoWill
    BY <1>1 DEF NoRow
  <2>3. NoWill = Store!NoWill
    BY DEF NoWill, Store!NoWill
  <2>. QED BY <2>1, <2>2, <2>3 DEF SeenValue, SeenWill
<1>3. [j \in DOMAIN push |-> SeenOutcome(j)] = <<>>
  BY <1>1
<1>. QED BY <1>1, <1>2, <1>3 DEF Store!Init

(* While the process lives, pushes behave as if each were one step: it is  *)
(* applied once, when the stored value fits its condition, its will takes  *)
(* the place of the one before it, and it is accepted after that; no       *)
(* cleanup changes a value or a will but by such a push.                   *)
THEOREM AtomicCorrect ==
  ASSUME ~JoinWhileLaunching, MaxCrash = 0
  PROVE  Spec => Atomic
<1>1. AtomicInv /\ [Next]_vars => AtomicInv'
  BY AtomicInvStep
<1>2. AtomicInv /\ AtomicInv' /\ [Next]_vars => [Store!Next]_Store!vars
  BY NextStores
<1>. QED BY <1>1, <1>2, AtomicInit, InitStores, PTL DEF Spec, Atomic, Store!Spec

=============================================================================
