--------------------------- MODULE SqliteKvProofs ---------------------------
(***************************************************************************)
(* Proofs about SqliteKv, for any sessions, keys and data, any number of   *)
(* pushes and of crashes, whether or not sessions may join while the       *)
(* launch cleans up: every variable has its type, a push writes over the   *)
(* value that it has checked, and no event waits for a value that is       *)
(* there.  Of wills: a will is of the session that holds the value; once   *)
(* the wills of a session are carried out no row has one, when no session  *)
(* joins before the launch has ended; and a value is held by a session     *)
(* that is there, when moreover the process does not crash.                *)
(***************************************************************************)
EXTENDS SqliteKv, TLAPS, SequenceTheorems

-----------------------------------------------------------------------------
(* Documents that are merged, and the rows that they are stored in.        *)
LEMMA MergeTyped ==
  ASSUME NEW old \in Data, NEW new \in Data
  PROVE  Merge(old, new) \in Data
<1>1. CASE old = Null \/ new = Null
  BY <1>1 DEF Merge
<1>2. CASE old # Null /\ new # Null
  <2>1. PICK F \in SUBSET Field : old \in [F -> Content]
    BY <1>2 DEF Data, Document
  <2>2. PICK G \in SUBSET Field : new \in [G -> Content]
    BY <1>2 DEF Data, Document
  <2>3. Merge(old, new) = [f \in F \cup G |-> IF f \in G THEN new[f] ELSE old[f]]
    BY <1>2, <2>1, <2>2 DEF Merge
  <2>4. Merge(old, new) \in [F \cup G -> Content]
    BY <2>1, <2>2, <2>3
  <2>. QED BY <2>4 DEF Data, Document
<1>. QED BY <1>1, <1>2

LEMMA RowTyped ==
  ASSUME NEW r \in Row \cup {NoRow}
  PROVE  r.data \in Data /\ r.sid \in Session \cup {NoOpt}
  BY DEF Row, NoRow, Data

LEMMA RowOfTyped ==
  ASSUME NEW e \in Event, NEW d \in Data
  PROVE  /\ RowOf(e, d) \in Row \cup {NoRow}
         /\ RowOf(e, d).data = d
         /\ RowOf(e, d).sid \in {NoOpt, WillOf(e).sid}
<1>1. e.sid \in Session
  BY DEF Event
<1>2. WillOf(e).sid \in Session \cup {NoOpt}
  BY <1>1 DEF WillOf, NoWill
<1>. QED BY <1>2 DEF RowOf, Row, NoRow, Data

LEMMA WillOfTyped ==
  ASSUME NEW e \in Event
  PROVE  /\ WillOf(e) \in Will \cup {NoWill}
         /\ WillOf(e).sid = IF e.will = NoOpt THEN NoOpt ELSE e.sid
         /\ WillOf(e) = NoWill <=> e.will = NoOpt
<1>1. e.will \in Data \cup {NoOpt} /\ e.sid \in Session
  BY DEF Event
<1>2. NoOpt \notin Session /\ NoOpt \notin Data
  BY NoOptAssumption
<1>3. CASE e.will = NoOpt
  BY <1>3 DEF WillOf, NoWill
<1>4. CASE e.will # NoOpt
  <2>1. WillOf(e) = [data |-> e.will, sid |-> e.sid] /\ e.will \in Data
    BY <1>1, <1>4 DEF WillOf
  <2>2. WillOf(e) \in Will /\ WillOf(e).sid = e.sid /\ WillOf(e).data = e.will
    BY <1>1, <2>1 DEF Will
  <2>3. WillOf(e) # NoWill
    BY <1>4, <2>2 DEF NoWill
  <2>. QED BY <1>4, <2>2, <2>3
<1>. QED BY <1>3, <1>4

(* The sid tells a will from no will.                                      *)
LEMMA WillTyped ==
  ASSUME NEW w \in Will \cup {NoWill}
  PROVE  /\ w # NoWill => w \in Will /\ w.sid \in Session /\ w.data \in Data
         /\ w = NoWill <=> w.sid = NoOpt
<1>1. NoOpt \notin Session
  BY NoOptAssumption
<1>. QED BY <1>1 DEF Will, NoWill

-----------------------------------------------------------------------------
(* The types, part by part.                                                *)
SessionTypes == active \subseteq Session /\ gone \subseteq Session

TableTypes ==
  /\ kv \in [Key -> Row \cup {NoRow}]
  /\ wills \in [Key -> Will \cup {NoWill}]

QueueTypes ==
  /\ push \in Seq(Event)
  /\ run \in Seq(Run)
  /\ Len(run) = Len(push)
  /\ \A i \in DOMAIN push : run[i].actor \in DOMAIN push

ParkedTypes == parked \subseteq DOMAIN push

CleanerTypes ==
  /\ cleaner \in [Cleaner -> Cleaning]
  /\ \A c \in Cleaner : cleaner[c].pc = "pushed" => cleaner[c].push \in DOMAIN push

CrashTypes == crashes \in 0 .. MaxCrash

Types ==
  SessionTypes /\ TableTypes /\ QueueTypes /\ ParkedTypes /\ CleanerTypes /\ CrashTypes

(* The queue as functions: what a push and its run are.                    *)
LEMMA QueueView ==
  ASSUME QueueTypes
  PROVE  /\ DOMAIN run = DOMAIN push /\ DOMAIN push = 1 .. Len(push) /\ Len(push) \in Nat
         /\ \A i \in DOMAIN push :
              /\ push[i] \in Event /\ run[i] \in Run /\ i \in Nat
              /\ run[i].actor \in DOMAIN push /\ Actor(i) \in Event
  BY DEF QueueTypes, Actor

(* What a step does to the runs: it takes the run i to the statement pc,   *)
(* of the event a, which was checked against o, and it answers the push h  *)
(* with r.                                                                 *)
RunTo(i, pc, a, o, h, r) ==
  /\ DOMAIN run' = DOMAIN run
  /\ \A j \in DOMAIN run :
       /\ run'[j].pc = IF j = i THEN pc ELSE run[j].pc
       /\ run'[j].actor = IF j = i THEN a ELSE run[j].actor
       /\ run'[j].old = IF j = i THEN o ELSE run[j].old
       /\ run'[j].reply = IF j = h THEN r ELSE run[j].reply
       /\ run'[j].by = run[j].by

Pc == {"queued", "read", "unwill", "write", "will", "confirm", "ended"}
Reply == {"none", "accepted", "refused"}

(* One field of one run is changed. *)
PcSet(t, q, i, v) ==
  /\ t \in Seq(Run) /\ Len(t) = Len(q)
  /\ \A j \in 1 .. Len(q) :
       /\ t[j].pc = IF j = i THEN v ELSE q[j].pc
       /\ t[j].actor = q[j].actor /\ t[j].old = q[j].old /\ t[j].reply = q[j].reply /\ t[j].by = q[j].by

LEMMA SetPc ==
  ASSUME NEW q \in Seq(Run), NEW i \in 1 .. Len(q), NEW v \in Pc,
         NEW t, t = [q EXCEPT ![i] = [q[i] EXCEPT !.pc = v]]
  PROVE  PcSet(t, q, i, v)
<1>1. q[i] \in Run
  BY ElementOfSeq
<1>2. PICK x : x = [q[i] EXCEPT !.pc = v]
  OBVIOUS
<1>3. x \in Run
  BY <1>1, <1>2 DEF Run, Pc, Reply
<1>4. /\ t \in Seq(Run) /\ Len(t) = Len(q)
      /\ \A j \in 1 .. Len(q) : t[j] = IF j = i THEN x ELSE q[j]
  BY <1>2, <1>3, ExceptSeq
<1>5. x.pc = v /\ x.actor = q[i].actor /\ x.old = q[i].old /\ x.reply = q[i].reply /\ x.by = q[i].by
  BY <1>1, <1>2 DEF Run
<1>. QED BY <1>4, <1>5 DEF PcSet

(* The same for the event that it applies. *)
ActorSet(t, q, i, v) ==
  /\ t \in Seq(Run) /\ Len(t) = Len(q)
  /\ \A j \in 1 .. Len(q) :
       /\ t[j].actor = IF j = i THEN v ELSE q[j].actor
       /\ t[j].pc = q[j].pc /\ t[j].old = q[j].old /\ t[j].reply = q[j].reply /\ t[j].by = q[j].by

LEMMA SetActor ==
  ASSUME NEW q \in Seq(Run), NEW i \in 1 .. Len(q), NEW v \in Nat,
         NEW t, t = [q EXCEPT ![i] = [q[i] EXCEPT !.actor = v]]
  PROVE  ActorSet(t, q, i, v)
<1>1. q[i] \in Run
  BY ElementOfSeq
<1>2. PICK x : x = [q[i] EXCEPT !.actor = v]
  OBVIOUS
<1>3. x \in Run
  BY <1>1, <1>2 DEF Run, Pc, Reply
<1>4. /\ t \in Seq(Run) /\ Len(t) = Len(q)
      /\ \A j \in 1 .. Len(q) : t[j] = IF j = i THEN x ELSE q[j]
  BY <1>2, <1>3, ExceptSeq
<1>5. x.actor = v /\ x.pc = q[i].pc /\ x.old = q[i].old /\ x.reply = q[i].reply /\ x.by = q[i].by
  BY <1>1, <1>2 DEF Run
<1>. QED BY <1>4, <1>5 DEF ActorSet

(* The same for what it has read. *)
OldSet(t, q, i, v) ==
  /\ t \in Seq(Run) /\ Len(t) = Len(q)
  /\ \A j \in 1 .. Len(q) :
       /\ t[j].old = IF j = i THEN v ELSE q[j].old
       /\ t[j].pc = q[j].pc /\ t[j].actor = q[j].actor /\ t[j].reply = q[j].reply /\ t[j].by = q[j].by

LEMMA SetOld ==
  ASSUME NEW q \in Seq(Run), NEW i \in 1 .. Len(q), NEW v \in Data,
         NEW t, t = [q EXCEPT ![i] = [q[i] EXCEPT !.old = v]]
  PROVE  OldSet(t, q, i, v)
<1>1. q[i] \in Run
  BY ElementOfSeq
<1>2. PICK x : x = [q[i] EXCEPT !.old = v]
  OBVIOUS
<1>3. x \in Run
  BY <1>1, <1>2 DEF Run, Pc, Reply
<1>4. /\ t \in Seq(Run) /\ Len(t) = Len(q)
      /\ \A j \in 1 .. Len(q) : t[j] = IF j = i THEN x ELSE q[j]
  BY <1>2, <1>3, ExceptSeq
<1>5. x.old = v /\ x.pc = q[i].pc /\ x.actor = q[i].actor /\ x.reply = q[i].reply /\ x.by = q[i].by
  BY <1>1, <1>2 DEF Run
<1>. QED BY <1>4, <1>5 DEF OldSet

(* The same for its answer. *)
ReplySet(t, q, i, v) ==
  /\ t \in Seq(Run) /\ Len(t) = Len(q)
  /\ \A j \in 1 .. Len(q) :
       /\ t[j].reply = IF j = i THEN v ELSE q[j].reply
       /\ t[j].pc = q[j].pc /\ t[j].actor = q[j].actor /\ t[j].old = q[j].old /\ t[j].by = q[j].by

LEMMA SetReply ==
  ASSUME NEW q \in Seq(Run), NEW i \in 1 .. Len(q), NEW v \in Reply,
         NEW t, t = [q EXCEPT ![i] = [q[i] EXCEPT !.reply = v]]
  PROVE  ReplySet(t, q, i, v)
<1>1. q[i] \in Run
  BY ElementOfSeq
<1>2. PICK x : x = [q[i] EXCEPT !.reply = v]
  OBVIOUS
<1>3. x \in Run
  BY <1>1, <1>2 DEF Run, Pc, Reply
<1>4. /\ t \in Seq(Run) /\ Len(t) = Len(q)
      /\ \A j \in 1 .. Len(q) : t[j] = IF j = i THEN x ELSE q[j]
  BY <1>2, <1>3, ExceptSeq
<1>5. x.reply = v /\ x.pc = q[i].pc /\ x.actor = q[i].actor /\ x.old = q[i].old /\ x.by = q[i].by
  BY <1>1, <1>2 DEF Run
<1>. QED BY <1>4, <1>5 DEF ReplySet

LEMMA RunMoved ==
  ASSUME QueueTypes, NEW i \in DOMAIN push, NEW pc \in Pc, run' = [run EXCEPT ![i].pc = pc]
  PROVE  run' \in Seq(Run) /\ Len(run') = Len(run) /\ RunTo(i, pc, run[i].actor, run[i].old, i, run[i].reply)
<1>1. run \in Seq(Run) /\ i \in 1 .. Len(run)
  BY QueueView DEF QueueTypes
<1>2. run' = [run EXCEPT ![i] = [run[i] EXCEPT !.pc = pc]]
  BY <1>1
<1>3. PcSet(run', run, i, pc)
  BY <1>1, <1>2, SetPc
<1>4. run' \in Seq(Run) /\ Len(run') = Len(run) /\ DOMAIN run = 1 .. Len(run) /\ DOMAIN run' = 1 .. Len(run)
  BY <1>1, <1>3 DEF PcSet
<1>. QED BY <1>3, <1>4 DEF RunTo, PcSet

(* ConditionMet: the value that it was checked against is remembered.      *)
LEMMA RunChecked ==
  ASSUME QueueTypes, NEW i \in DOMAIN push, NEW pc \in Pc, NEW o \in Data,
         run' = [run EXCEPT ![i].pc = pc, ![i].old = o]
  PROVE  run' \in Seq(Run) /\ Len(run') = Len(run) /\ RunTo(i, pc, run[i].actor, o, i, run[i].reply)
<1>1. run \in Seq(Run) /\ i \in 1 .. Len(run)
  BY QueueView DEF QueueTypes
<1>2. PICK q : q = [run EXCEPT ![i] = [run[i] EXCEPT !.pc = pc]]
  OBVIOUS
<1>3. PcSet(q, run, i, pc)
  BY <1>1, <1>2, SetPc
<1>4. q \in Seq(Run) /\ Len(q) = Len(run) /\ i \in 1 .. Len(q)
  BY <1>1, <1>3 DEF PcSet
<1>5. run' = [q EXCEPT ![i] = [q[i] EXCEPT !.old = o]]
  BY <1>1, <1>2
<1>6. OldSet(run', q, i, o)
  BY <1>4, <1>5, SetOld
<1>7. run' \in Seq(Run) /\ Len(run') = Len(run) /\ DOMAIN run = 1 .. Len(run) /\ DOMAIN run' = 1 .. Len(run)
  BY <1>1, <1>4, <1>6 DEF OldSet
<1>. QED BY <1>3, <1>4, <1>6, <1>7 DEF RunTo, PcSet, OldSet

(* An event is accepted or refused. *)
LEMMA RunAnswered ==
  ASSUME QueueTypes, NEW i \in DOMAIN push, NEW h \in DOMAIN push, NEW pc \in Pc, NEW r \in Reply,
         run' = [run EXCEPT ![h].reply = r, ![i].pc = pc]
  PROVE  run' \in Seq(Run) /\ Len(run') = Len(run) /\ RunTo(i, pc, run[i].actor, run[i].old, h, r)
<1>1. run \in Seq(Run) /\ i \in 1 .. Len(run) /\ h \in 1 .. Len(run)
  BY QueueView DEF QueueTypes
<1>2. PICK q : q = [run EXCEPT ![h] = [run[h] EXCEPT !.reply = r]]
  OBVIOUS
<1>3. ReplySet(q, run, h, r)
  BY <1>1, <1>2, SetReply
<1>4. q \in Seq(Run) /\ Len(q) = Len(run) /\ i \in 1 .. Len(q)
  BY <1>1, <1>3 DEF ReplySet
<1>5. run' = [q EXCEPT ![i] = [q[i] EXCEPT !.pc = pc]]
  <2>1. run[i] \in Run /\ run[h] \in Run
    BY <1>1, ElementOfSeq
  <2>. QED BY <1>1, <1>2, <2>1 DEF Run
<1>6. PcSet(run', q, i, pc)
  BY <1>4, <1>5, SetPc
<1>7. run' \in Seq(Run) /\ Len(run') = Len(run) /\ DOMAIN run = 1 .. Len(run) /\ DOMAIN run' = 1 .. Len(run)
  BY <1>1, <1>4, <1>6 DEF PcSet
<1>8. ASSUME NEW j \in 1 .. Len(run)
      PROVE  /\ run'[j].pc = IF j = i THEN pc ELSE run[j].pc
             /\ run'[j].actor = run[j].actor
             /\ run'[j].old = run[j].old
             /\ run'[j].reply = IF j = h THEN r ELSE run[j].reply
             /\ run'[j].by = run[j].by
  <2>1. /\ q[j].reply = IF j = h THEN r ELSE run[j].reply
        /\ q[j].pc = run[j].pc /\ q[j].actor = run[j].actor /\ q[j].old = run[j].old /\ q[j].by = run[j].by
    BY <1>3 DEF ReplySet
  <2>2. /\ run'[j].pc = IF j = i THEN pc ELSE q[j].pc
        /\ run'[j].reply = q[j].reply /\ run'[j].actor = q[j].actor /\ run'[j].old = q[j].old
        /\ run'[j].by = q[j].by
    BY <1>4, <1>6 DEF PcSet
  <2>. QED BY <2>1, <2>2
<1>. QED BY <1>7, <1>8 DEF RunTo

(* An event is accepted, and the run takes up one that waited.             *)
LEMMA RunTaken ==
  ASSUME QueueTypes, NEW i \in DOMAIN push, NEW h \in DOMAIN push, NEW pc \in Pc, NEW r \in Reply,
         NEW n \in DOMAIN push, run' = [run EXCEPT ![h].reply = r, ![i].pc = pc, ![i].actor = n]
  PROVE  run' \in Seq(Run) /\ Len(run') = Len(run) /\ RunTo(i, pc, n, run[i].old, h, r)
<1>1. run \in Seq(Run) /\ i \in 1 .. Len(run) /\ h \in 1 .. Len(run) /\ n \in Nat
  BY QueueView DEF QueueTypes
<1>2. PICK q : q = [run EXCEPT ![h] = [run[h] EXCEPT !.reply = r]]
  OBVIOUS
<1>3. ReplySet(q, run, h, r)
  BY <1>1, <1>2, SetReply
<1>4. q \in Seq(Run) /\ Len(q) = Len(run) /\ i \in 1 .. Len(q)
  BY <1>1, <1>3 DEF ReplySet
<1>5. PICK t : t = [q EXCEPT ![i] = [q[i] EXCEPT !.pc = pc]]
  OBVIOUS
<1>6. PcSet(t, q, i, pc)
  BY <1>4, <1>5, SetPc
<1>7. t \in Seq(Run) /\ Len(t) = Len(run) /\ i \in 1 .. Len(t)
  BY <1>4, <1>6 DEF PcSet
<1>8. run' = [t EXCEPT ![i] = [t[i] EXCEPT !.actor = n]]
  BY <1>1, <1>2, <1>5
<1>9. ActorSet(run', t, i, n)
  BY <1>1, <1>7, <1>8, SetActor
<1>10. run' \in Seq(Run) /\ Len(run') = Len(run) /\ DOMAIN run = 1 .. Len(run) /\ DOMAIN run' = 1 .. Len(run)
  BY <1>1, <1>7, <1>9 DEF ActorSet
<1>11. ASSUME NEW j \in 1 .. Len(run)
       PROVE  /\ run'[j].pc = IF j = i THEN pc ELSE run[j].pc
              /\ run'[j].actor = IF j = i THEN n ELSE run[j].actor
              /\ run'[j].old = IF j = i THEN run[i].old ELSE run[j].old
              /\ run'[j].reply = IF j = h THEN r ELSE run[j].reply
              /\ run'[j].by = run[j].by
  <2>1. /\ q[j].reply = IF j = h THEN r ELSE run[j].reply
        /\ q[j].pc = run[j].pc /\ q[j].actor = run[j].actor /\ q[j].old = run[j].old /\ q[j].by = run[j].by
    BY <1>3 DEF ReplySet
  <2>2. /\ t[j].pc = IF j = i THEN pc ELSE q[j].pc
        /\ t[j].reply = q[j].reply /\ t[j].actor = q[j].actor /\ t[j].old = q[j].old /\ t[j].by = q[j].by
    BY <1>4, <1>6 DEF PcSet
  <2>3. /\ run'[j].actor = IF j = i THEN n ELSE t[j].actor
        /\ run'[j].pc = t[j].pc /\ run'[j].reply = t[j].reply /\ run'[j].old = t[j].old /\ run'[j].by = t[j].by
    BY <1>7, <1>9 DEF ActorSet
  <2>. QED BY <2>1, <2>2, <2>3
<1>. QED BY <1>10, <1>11 DEF RunTo

(* What each statement does to the runs. *)
StepRun(i, pc, a, o, h, r) ==
  /\ i \in DOMAIN push /\ a \in DOMAIN push /\ h \in DOMAIN push
  /\ run' \in Seq(Run) /\ Len(run') = Len(run) /\ push' = push
  /\ RunTo(i, pc, a, o, h, r)

LEMMA StartRun ==
  ASSUME QueueTypes, NEW i \in DOMAIN push, StartPush(i)
  PROVE  StepRun(i, "read", run[i].actor, run[i].old, i, run[i].reply)
  BY RunMoved, QueueView DEF StartPush, StepRun, Pc

LEMMA MetRun ==
  ASSUME QueueTypes, TableTypes, NEW i \in DOMAIN push, ReadValue(i), ConditionMet(i)
  PROVE  StepRun(i, "unwill", run[i].actor, kv[Actor(i).key].data, i, run[i].reply)
<1>1. Actor(i).key \in Key /\ run[i].actor \in DOMAIN push
  BY QueueView DEF Event
<1>2. kv[Actor(i).key].data \in Data
  BY <1>1, RowTyped DEF TableTypes
<1>3. PICK o : o = kv[Actor(i).key].data
  OBVIOUS
<1>4. run' = [run EXCEPT ![i].pc = "unwill", ![i].old = o] /\ push' = push
  BY <1>3 DEF ConditionMet, ReadValue
<1>5. "unwill" \in Pc
  BY DEF Pc
<1>. QED BY <1>1, <1>2, <1>3, <1>4, <1>5, RunChecked DEF StepRun

LEMMA ParkedRun ==
  ASSUME QueueTypes, NEW i \in DOMAIN push, ReadValue(i), Parked(i)
  PROVE  StepRun(i, "ended", run[i].actor, run[i].old, i, run[i].reply)
  BY RunMoved, QueueView DEF ReadValue, Parked, StepRun, Pc

LEMMA RefusedRun ==
  ASSUME QueueTypes, NEW i \in DOMAIN push, ReadValue(i), NotAccepted(i)
  PROVE  StepRun(i, "ended", run[i].actor, run[i].old, run[i].actor, "refused")
<1>1. PICK h \in DOMAIN push : h = run[i].actor
  BY QueueView
<1>2. run' = [run EXCEPT ![h].reply = "refused", ![i].pc = "ended"] /\ push' = push
  BY <1>1 DEF ReadValue, NotAccepted
<1>3. "ended" \in Pc /\ "refused" \in Reply
  BY DEF Pc, Reply
<1>. QED BY <1>1, <1>2, <1>3, RunAnswered DEF StepRun

LEMMA DropRun ==
  ASSUME QueueTypes, NEW i \in DOMAIN push, DropWill(i)
  PROVE  StepRun(i, "write", run[i].actor, run[i].old, i, run[i].reply)
  BY RunMoved, QueueView DEF DropWill, StepRun, Pc

AfterWrite(e) == IF e.will = NoOpt THEN "confirm" ELSE "will"

LEMMA WriteRun ==
  ASSUME QueueTypes, NEW i \in DOMAIN push, WriteValue(i)
  PROVE  StepRun(i, AfterWrite(Actor(i)), run[i].actor, run[i].old, i, run[i].reply)
<1>1. run' = [run EXCEPT ![i].pc = AfterWrite(Actor(i))] /\ push' = push
  BY DEF WriteValue, AfterWrite
<1>2. AfterWrite(Actor(i)) \in Pc
  BY DEF AfterWrite, Pc
<1>. QED BY <1>1, <1>2, RunMoved, QueueView DEF StepRun

LEMMA AddRun ==
  ASSUME QueueTypes, NEW i \in DOMAIN push, AddWill(i)
  PROVE  StepRun(i, "confirm", run[i].actor, run[i].old, i, run[i].reply)
  BY RunMoved, QueueView DEF AddWill, StepRun, Pc

LEMMA NextRun ==
  ASSUME QueueTypes, ParkedTypes, NEW i \in DOMAIN push, Confirm(i), NextWaiting(i)
  PROVE  \E n \in FirstOf(Fitting(Actor(i).key)) :
           /\ n \in DOMAIN push /\ n \in parked /\ push[n].key = Actor(i).key
           /\ push[n].sid \in active /\ Fit(push[n].when, kv[Actor(i).key].data)
           /\ parked' = parked \ ({n} \cup {j \in Waiting(Actor(i).key) : j < n /\ push[j].sid \notin active})
           /\ StepRun(i, "read", n, run[i].old, run[i].actor, "accepted")
<1>1. PICK h \in DOMAIN push : h = run[i].actor
  BY QueueView
<1>2. PICK n \in FirstOf(Fitting(Actor(i).key)) :
        /\ parked' = parked \ ({n} \cup {j \in Waiting(Actor(i).key) : j < n /\ push[j].sid \notin active})
        /\ run' = [run EXCEPT ![h].reply = "accepted", ![i].pc = "read", ![i].actor = n]
  BY <1>1 DEF NextWaiting
<1>3. /\ n \in DOMAIN push /\ n \in parked /\ push[n].key = Actor(i).key
      /\ push[n].sid \in active /\ Fit(push[n].when, kv[Actor(i).key].data)
  BY <1>2 DEF FirstOf, Fitting, Waiting, ParkedTypes
<1>4. "read" \in Pc /\ "accepted" \in Reply /\ push' = push
  BY DEF Pc, Reply, Confirm
<1>5. StepRun(i, "read", n, run[i].old, h, "accepted")
  BY <1>2, <1>3, <1>4, RunTaken DEF StepRun
<1>. QED BY <1>1, <1>2, <1>3, <1>5

LEMMA LastRun ==
  ASSUME QueueTypes, NEW i \in DOMAIN push, Confirm(i), NoneWaiting(i)
  PROVE  StepRun(i, "ended", run[i].actor, run[i].old, run[i].actor, "accepted")
<1>1. PICK h \in DOMAIN push : h = run[i].actor
  BY QueueView
<1>2. run' = [run EXCEPT ![h].reply = "accepted", ![i].pc = "ended"] /\ push' = push
  BY <1>1 DEF Confirm, NoneWaiting
<1>3. "ended" \in Pc /\ "accepted" \in Reply
  BY DEF Pc, Reply
<1>. QED BY <1>1, <1>2, <1>3, RunAnswered DEF StepRun

LEMMA StepQueueTypes ==
  ASSUME QueueTypes, NEW i, NEW pc, NEW a, NEW o, NEW h, NEW r, StepRun(i, pc, a, o, h, r)
  PROVE  QueueTypes'
<1>1. /\ push' = push /\ run' \in Seq(Run) /\ Len(run') = Len(push') /\ a \in DOMAIN push
      /\ \A j \in DOMAIN push : run'[j].actor = IF j = i THEN a ELSE run[j].actor
  BY QueueView DEF StepRun, RunTo, QueueTypes
<1>. QED BY <1>1 DEF QueueTypes

(* An event at the end of the queue.                                       *)
NewRun(by) == [pc |-> "queued", actor |-> Len(push) + 1, old |-> Null, reply |-> "none", by |-> by]
Enqueued(e, by) ==
  /\ push' \in Seq(Event) /\ run' \in Seq(Run) /\ Len(run') = Len(push')
  /\ DOMAIN push' = DOMAIN push \cup {Len(push) + 1} /\ DOMAIN run' = DOMAIN push'
  /\ Len(push') = Len(push) + 1 /\ Len(push) + 1 \notin DOMAIN push
  /\ \A i \in DOMAIN push : push'[i] = push[i] /\ run'[i] = run[i]
  /\ push'[Len(push) + 1] = e /\ run'[Len(push) + 1] = NewRun(by)

LEMMA EnqueueView ==
  ASSUME QueueTypes, NEW e \in Event, NEW by \in Cleaner \cup {NoOpt}, Enqueue(e, by)
  PROVE  Enqueued(e, by)
<1>1. push \in Seq(Event) /\ run \in Seq(Run) /\ Len(run) = Len(push) /\ Len(push) \in Nat
  BY DEF QueueTypes
<1>2. push' = Append(push, e) /\ run' = Append(run, NewRun(by))
  BY DEF Enqueue, NewRun
<1>3. NewRun(by) \in Run
  BY <1>1 DEF NewRun, Run, Data
<1>4. /\ push' \in Seq(Event) /\ Len(push') = Len(push) + 1 /\ push'[Len(push) + 1] = e
      /\ \A i \in 1 .. Len(push) : push'[i] = push[i]
  BY <1>1, <1>2
<1>5. /\ run' \in Seq(Run) /\ Len(run') = Len(push) + 1 /\ run'[Len(push) + 1] = NewRun(by)
      /\ \A i \in 1 .. Len(push) : run'[i] = run[i]
  BY <1>1, <1>2, <1>3
<1>6. /\ DOMAIN push = 1 .. Len(push) /\ DOMAIN push' = 1 .. Len(push) + 1
      /\ DOMAIN run' = 1 .. Len(push) + 1
  BY <1>1, <1>4, <1>5
<1>7. 1 .. Len(push) + 1 = (1 .. Len(push)) \cup {Len(push) + 1} /\ Len(push) + 1 \notin 1 .. Len(push)
  BY <1>1
<1>. QED BY <1>4, <1>5, <1>6, <1>7 DEF Enqueued

LEMMA EnqueueTypes ==
  ASSUME QueueTypes, NEW e, NEW by, Enqueued(e, by)
  PROVE  QueueTypes'
<1>1. \A i \in DOMAIN push' : run'[i].actor \in DOMAIN push'
  BY DEF Enqueued, QueueTypes, NewRun
<1>. QED BY <1>1 DEF Enqueued, QueueTypes

LEMMA CrashRuns ==
  ASSUME QueueTypes, Crash
  PROVE  /\ QueueTypes' /\ push' = push /\ DOMAIN run' = DOMAIN push
         /\ \A i \in DOMAIN push : /\ run'[i].pc = "ended" /\ run'[i].actor = run[i].actor
                                   /\ run'[i].reply = run[i].reply /\ run'[i].by = run[i].by
<1>1. push' = push /\ run' = [i \in DOMAIN run |-> [run[i] EXCEPT !.pc = "ended"]]
  BY DEF Crash
<1>2. run \in Seq(Run) /\ DOMAIN run = 1 .. Len(run) /\ Len(run) \in Nat /\ DOMAIN run = DOMAIN push
  BY QueueView DEF QueueTypes
<1>3. ASSUME NEW i \in DOMAIN run
      PROVE  /\ [run[i] EXCEPT !.pc = "ended"] \in Run /\ [run[i] EXCEPT !.pc = "ended"].pc = "ended"
             /\ [run[i] EXCEPT !.pc = "ended"].actor = run[i].actor
             /\ [run[i] EXCEPT !.pc = "ended"].reply = run[i].reply
             /\ [run[i] EXCEPT !.pc = "ended"].by = run[i].by
  <2>1. run[i] \in Run
    BY <1>2, QueueView
  <2>. QED BY <2>1 DEF Run
<1>4. run' \in [1 .. Len(run) -> Run]
  BY <1>1, <1>2, <1>3
<1>5. run' \in Seq(Run) /\ Len(run') = Len(run)
  BY <1>2, <1>4, SeqDef, LenProperties
<1>6. \A i \in DOMAIN push : /\ run'[i].pc = "ended" /\ run'[i].actor = run[i].actor
                             /\ run'[i].reply = run[i].reply /\ run'[i].by = run[i].by
  BY <1>1, <1>2, <1>3
<1>. QED BY <1>1, <1>2, <1>5, <1>6, QueueView DEF QueueTypes

LEMMA TypesInit == Init => Types
<1> SUFFICES ASSUME Init PROVE Types
  OBVIOUS
<1>1. SessionTypes /\ ParkedTypes
  BY DEF Init, SessionTypes, ParkedTypes
<1>2. TableTypes
  BY DEF Init, TableTypes
<1>3. QueueTypes
  BY DEF Init, QueueTypes
<1>4. CleanerTypes
  <2>1. NotCleaning \in Cleaning /\ [NotCleaning EXCEPT !.pc = "select"] \in Cleaning
    BY DEF NotCleaning, Cleaning
  <2>2. NotCleaning.pc = "none" /\ [NotCleaning EXCEPT !.pc = "select"].pc = "select"
    BY DEF NotCleaning
  <2>. QED BY <2>1, <2>2 DEF Init, CleanerTypes
<1>5. CrashTypes
  BY BoundAssumption DEF Init, CrashTypes
<1>. QED BY <1>1, <1>2, <1>3, <1>4, <1>5 DEF Types

(* One cleaner goes on.                                                    *)
LEMMA SetCleaner ==
  ASSUME CleanerTypes, NEW c \in Cleaner, NEW x \in Cleaning, DOMAIN push \subseteq DOMAIN push',
         x.pc = "pushed" => x.push \in DOMAIN push', cleaner' = [cleaner EXCEPT ![c] = x]
  PROVE  CleanerTypes'
  BY DEF CleanerTypes

LEMMA CleanerKept ==
  ASSUME CleanerTypes, DOMAIN push \subseteq DOMAIN push', cleaner' = cleaner
  PROVE  CleanerTypes'
  BY DEF CleanerTypes

(* The rows that are found, and what is left of them.                      *)
Applying(c, rows) ==
  [cleaner[c] EXCEPT !.pc = IF rows = {} THEN "done" ELSE "apply", !.rows = rows]

LEMMA ApplyRowsTyped ==
  ASSUME CleanerTypes, NEW c \in Cleaner, NEW rows \in SUBSET WillRow
  PROVE  /\ Applying(c, rows) \in Cleaning
         /\ Applying(c, rows).pc = IF rows = {} THEN "done" ELSE "apply"
         /\ Applying(c, rows).rows = rows
<1>1. cleaner[c] \in Cleaning
  BY DEF CleanerTypes
<1>2. PICK p : p = IF rows = {} THEN "done" ELSE "apply"
  OBVIOUS
<1>3. p \in {"none", "waiting", "select", "apply", "pushed", "done"}
  BY <1>2
<1>4. Applying(c, rows) = [cleaner[c] EXCEPT !.pc = p, !.rows = rows]
  BY <1>2 DEF Applying
<1>5. Applying(c, rows) \in Cleaning /\ Applying(c, rows).pc = p /\ Applying(c, rows).rows = rows
  BY <1>1, <1>3, <1>4 DEF Cleaning
<1>. QED BY <1>2, <1>5

LEMMA WillRowsTyped ==
  ASSUME TableTypes, NEW c
  PROVE  WillRows(c) \in SUBSET WillRow
<1>1. \A k \in Key : wills[k] # NoWill => wills[k].data \in Data /\ wills[k].sid \in Session
  BY WillTyped DEF TableTypes
<1>. QED BY <1>1 DEF WillRows, WillRow, IsStale

LEMMA LeaveTypes ==
  ASSUME Types, NEW s \in Session, Leave(s)
  PROVE  SessionTypes' /\ CleanerTypes'
<1>1. SessionTypes'
  BY DEF Types, SessionTypes, Leave
<1>2. PICK x : x = [cleaner[s] EXCEPT !.pc = "waiting", !.after = Len(push)]
  OBVIOUS
<1>3. cleaner[s] \in Cleaning /\ Len(push) \in Nat /\ s \in Cleaner
  BY DEF Types, CleanerTypes, QueueTypes, Cleaner
<1>4. x \in Cleaning /\ x.pc = "waiting"
  BY <1>2, <1>3 DEF Cleaning
<1>5. cleaner' = [cleaner EXCEPT ![s] = x] /\ push' = push
  BY <1>2 DEF Leave
<1>6. CleanerTypes'
  BY <1>3, <1>4, <1>5, SetCleaner DEF Types
<1>. QED BY <1>1, <1>6

LEMMA BeginTypes ==
  ASSUME Types, NEW c \in Cleaner, BeginCleanup(c)
  PROVE  CleanerTypes' /\ ParkedTypes'
<1>1. PICK x : x = [cleaner[c] EXCEPT !.pc = "select"]
  OBVIOUS
<1>2. cleaner[c] \in Cleaning
  BY DEF Types, CleanerTypes
<1>3. x \in Cleaning /\ x.pc = "select"
  BY <1>1, <1>2 DEF Cleaning
<1>4. cleaner' = [cleaner EXCEPT ![c] = x] /\ push' = push
  BY <1>1 DEF BeginCleanup
<1>5. CleanerTypes'
  BY <1>3, <1>4, SetCleaner DEF Types
<1>. QED BY <1>5 DEF BeginCleanup, Types, ParkedTypes

LEMMA SelectTypes ==
  ASSUME Types, NEW c \in Cleaner, SelectWills(c)
  PROVE  CleanerTypes'
<1>1. WillRows(c) \in SUBSET WillRow
  BY WillRowsTyped DEF Types
<1>2. cleaner' = [cleaner EXCEPT ![c] = Applying(c, WillRows(c))] /\ push' = push
  BY DEF SelectWills, ApplyRows, Applying
<1>3. Applying(c, WillRows(c)) \in Cleaning /\ Applying(c, WillRows(c)).pc # "pushed"
  BY <1>1, ApplyRowsTyped DEF Types
<1>. QED BY <1>2, <1>3, SetCleaner DEF Types

WillEvent(row) ==
  [key |-> row.key, data |-> row.data, when |-> NoOpt, watch |-> FALSE, will |-> NoOpt, sid |-> row.sid]

(* The will that is pushed. *)
LEMMA PushWillView ==
  ASSUME Types, NEW c \in Cleaner, PushWill(c)
  PROVE  \E row \in cleaner[c].rows :
           /\ row \in WillRow /\ WillEvent(row) \in Event
           /\ Enqueued(WillEvent(row), c)
           /\ cleaner' = [cleaner EXCEPT ![c] = [cleaner[c] EXCEPT !.pc = "pushed", !.push = Len(push) + 1]]
           /\ CleanerTypes'
<1>1. PICK row \in cleaner[c].rows : Enqueue(WillEvent(row), c)
  BY DEF PushWill, WillEvent
<1>2. cleaner[c] \in Cleaning
  BY DEF Types, CleanerTypes
<1>3. row \in WillRow
  BY <1>1, <1>2 DEF Cleaning
<1>4. WillEvent(row) \in Event
  BY <1>3 DEF WillEvent, WillRow, Event
<1>5. Enqueued(WillEvent(row), c)
  BY <1>1, <1>4, EnqueueView DEF Types
<1>6. PICK x : x = [cleaner[c] EXCEPT !.pc = "pushed", !.push = Len(push) + 1]
  OBVIOUS
<1>7. Len(push) + 1 \in Nat /\ Len(push) + 1 \in DOMAIN push' /\ DOMAIN push \subseteq DOMAIN push'
  BY <1>5 DEF Types, QueueTypes, Enqueued
<1>8. x \in Cleaning /\ x.push = Len(push) + 1
  BY <1>2, <1>6, <1>7 DEF Cleaning
<1>9. cleaner' = [cleaner EXCEPT ![c] = x]
  BY <1>6 DEF PushWill
<1>10. CleanerTypes'
  BY <1>7, <1>8, <1>9, SetCleaner DEF Types
<1>. QED BY <1>3, <1>4, <1>5, <1>6, <1>9, <1>10

Remaining(c) == {row \in cleaner[c].rows : row.key # push[cleaner[c].push].key}

LEMMA DeleteView ==
  ASSUME Types, NEW c \in Cleaner, DeleteWill(c)
  PROVE  /\ cleaner[c].push \in DOMAIN push /\ push[cleaner[c].push] \in Event
         /\ Remaining(c) \in SUBSET WillRow
         /\ cleaner' = [cleaner EXCEPT ![c] = Applying(c, Remaining(c))]
         /\ CleanerTypes' /\ TableTypes'
<1>1. cleaner[c].push \in DOMAIN push /\ push[cleaner[c].push] \in Event
  BY QueueView DEF DeleteWill, Types, CleanerTypes
<1>2. Remaining(c) \in SUBSET WillRow
  BY DEF Remaining, Types, CleanerTypes, Cleaning
<1>3. cleaner' = [cleaner EXCEPT ![c] = Applying(c, Remaining(c))] /\ push' = push /\ kv' = kv
  BY DEF DeleteWill, ApplyRows, Applying, Remaining
<1>4. Applying(c, Remaining(c)) \in Cleaning /\ Applying(c, Remaining(c)).pc # "pushed"
  BY <1>2, ApplyRowsTyped DEF Types
<1>5. CleanerTypes'
  BY <1>3, <1>4, SetCleaner DEF Types
<1>6. wills' \in [Key -> Will \cup {NoWill}]
  BY <1>1 DEF DeleteWill, Types, TableTypes, Event
<1>. QED BY <1>1, <1>2, <1>3, <1>5, <1>6 DEF Types, TableTypes

(* What a client pushes. *)
PushEvent(s, r) ==
  [key |-> r.key, data |-> r.data, when |-> r.when, watch |-> r.watch, will |-> r.will, sid |-> s]

LEMMA PushView ==
  ASSUME Types, NEW s \in Session, NEW r \in Request, Push(s, r)
  PROVE  PushEvent(s, r) \in Event /\ Enqueued(PushEvent(s, r), NoOpt)
<1>1. PushEvent(s, r) \in Event
  BY RequestAssumption DEF PushEvent, Event
<1>2. Enqueue(PushEvent(s, r), NoOpt)
  BY DEF Push, PushEvent
<1>. QED BY <1>1, <1>2, EnqueueView DEF Types

(* Each statement of a push takes its run to the next.                     *)
LEMMA StepTo ==
  ASSUME Types, NEW i \in DOMAIN push, Step(i)
  PROVE  \E pc, a, o, h, r : StepRun(i, pc, a, o, h, r)
<1>1. CASE StartPush(i)
  BY <1>1, StartRun DEF Types
<1>2. CASE ReadValue(i)
  BY <1>2, MetRun, ParkedRun, RefusedRun DEF Types, ReadValue
<1>3. CASE DropWill(i)
  BY <1>3, DropRun DEF Types
<1>4. CASE WriteValue(i)
  BY <1>4, WriteRun DEF Types
<1>5. CASE AddWill(i)
  BY <1>5, AddRun DEF Types
<1>6. CASE Confirm(i)
  BY <1>6, NextRun, LastRun DEF Types, Confirm
<1>. QED BY <1>1, <1>2, <1>3, <1>4, <1>5, <1>6 DEF Step

(* The row and the will that are written. *)
LEMMA StepTables ==
  ASSUME Types, NEW i \in DOMAIN push, Step(i)
  PROVE  TableTypes'
<1>1. /\ Actor(i) \in Event /\ Actor(i).key \in Key /\ Actor(i).data \in Data /\ run[i].old \in Data
  BY QueueView DEF Types, Event, Run
<1>2. CASE kv' = kv /\ wills' = wills
  BY <1>2 DEF Types, TableTypes
<1>3. CASE DropWill(i)
  BY <1>1, <1>3 DEF DropWill, Types, TableTypes
<1>4. CASE WriteValue(i)
  <2>1. RowOf(Actor(i), Merge(run[i].old, Actor(i).data)) \in Row \cup {NoRow}
    BY <1>1, MergeTyped, RowOfTyped
  <2>. QED BY <1>1, <1>4, <2>1 DEF WriteValue, Types, TableTypes
<1>5. CASE AddWill(i)
  <2>1. WillOf(Actor(i)) \in Will \cup {NoWill}
    BY <1>1, WillOfTyped
  <2>. QED BY <1>1, <1>5, <2>1 DEF AddWill, Types, TableTypes
<1>. QED BY <1>2, <1>3, <1>4, <1>5 DEF Step, StartPush, ReadValue, Confirm

LEMMA StepParked ==
  ASSUME Types, NEW i \in DOMAIN push, Step(i)
  PROVE  /\ parked' \subseteq parked \cup {run[i].actor} /\ ParkedTypes'
<1>1. run[i].actor \in DOMAIN push /\ push' = push
  BY QueueView DEF Types, Step, StartPush, ReadValue, DropWill, WriteValue, AddWill, Confirm
<1>2. parked' \subseteq parked \cup {run[i].actor}
  BY DEF Step, StartPush, ReadValue, ConditionMet, Parked, NotAccepted, DropWill, WriteValue, AddWill,
         Confirm, NextWaiting, NoneWaiting
<1>. QED BY <1>1, <1>2 DEF Types, ParkedTypes

LEMMA TypesStep == Types /\ [Next]_vars => Types'
<1> SUFFICES ASSUME Types, [Next]_vars PROVE Types'
  OBVIOUS
<1>1. CASE UNCHANGED vars
  BY <1>1 DEF vars, Types, SessionTypes, TableTypes, QueueTypes, ParkedTypes, CleanerTypes, CrashTypes
<1>2. ASSUME UNCHANGED <<active, gone>> PROVE SessionTypes'
  BY <1>2 DEF Types, SessionTypes
<1>3. ASSUME UNCHANGED <<kv, wills>> PROVE TableTypes'
  BY <1>3 DEF Types, TableTypes
<1>4. ASSUME UNCHANGED <<push, run>> PROVE QueueTypes'
  BY <1>4 DEF Types, QueueTypes
<1>5. ASSUME parked' \subseteq parked, DOMAIN push \subseteq DOMAIN push' PROVE ParkedTypes'
  BY <1>5 DEF Types, ParkedTypes
<1>6. ASSUME UNCHANGED crashes PROVE CrashTypes'
  BY <1>6 DEF Types, CrashTypes
<1>7. ASSUME NEW s \in Session, Join(s) PROVE Types'
  <2>1. SessionTypes'
    BY <1>7 DEF Join, Types, SessionTypes
  <2>. QED BY <1>3, <1>4, <1>5, <1>6, <1>7, <2>1, CleanerKept DEF Join, Types
<1>8. ASSUME NEW s \in Session, Leave(s) PROVE Types'
  BY <1>3, <1>4, <1>5, <1>6, <1>8, LeaveTypes DEF Leave, Types
<1>9. ASSUME NEW s \in Session, NEW r \in Request, Push(s, r) PROVE Types'
  <2>1. Enqueued(PushEvent(s, r), NoOpt)
    BY <1>9, PushView
  <2>2. QueueTypes' /\ DOMAIN push \subseteq DOMAIN push'
    BY <2>1, EnqueueTypes DEF Types, Enqueued
  <2>. QED BY <1>2, <1>3, <1>5, <1>6, <1>9, <2>2, CleanerKept DEF Push, Types
<1>10. ASSUME NEW i \in DOMAIN push, Step(i) PROVE Types'
  <2>1. QueueTypes' /\ push' = push
    BY <1>10, StepTo, StepQueueTypes DEF Types, StepRun
  <2>2. UNCHANGED <<active, gone, cleaner, crashes>>
    BY <1>10 DEF Step, StartPush, ReadValue, DropWill, WriteValue, AddWill, Confirm
  <2>. QED BY <1>2, <1>6, <1>10, <2>1, <2>2, StepTables, StepParked, CleanerKept DEF Types
<1>11. ASSUME NEW c \in Cleaner, BeginCleanup(c) PROVE Types'
  BY <1>2, <1>3, <1>4, <1>6, <1>11, BeginTypes DEF BeginCleanup, Types
<1>12. ASSUME NEW c \in Cleaner, SelectWills(c) PROVE Types'
  BY <1>2, <1>3, <1>4, <1>5, <1>6, <1>12, SelectTypes DEF SelectWills, Types
<1>13. ASSUME NEW c \in Cleaner, PushWill(c) PROVE Types'
  <2>1. PICK row : Enqueued(WillEvent(row), c) /\ CleanerTypes'
    BY <1>13, PushWillView
  <2>2. QueueTypes' /\ DOMAIN push \subseteq DOMAIN push'
    BY <2>1, EnqueueTypes DEF Types, Enqueued
  <2>. QED BY <1>2, <1>3, <1>5, <1>6, <1>13, <2>1, <2>2 DEF PushWill, Types
<1>14. ASSUME NEW c \in Cleaner, DeleteWill(c) PROVE Types'
  BY <1>2, <1>4, <1>5, <1>6, <1>14, DeleteView DEF DeleteWill, Types
<1>15. CASE Crash
  <2>1. SessionTypes' /\ TableTypes' /\ ParkedTypes'
    BY <1>15 DEF Crash, Types, SessionTypes, TableTypes, ParkedTypes
  <2>2. CleanerTypes'
    <3>1. NotCleaning \in Cleaning /\ [NotCleaning EXCEPT !.pc = "select"] \in Cleaning
      BY DEF NotCleaning, Cleaning
    <3>2. NotCleaning.pc = "none" /\ [NotCleaning EXCEPT !.pc = "select"].pc = "select"
      BY DEF NotCleaning
    <3>. QED BY <1>15, <3>1, <3>2 DEF Crash, CleanerTypes
  <2>3. CrashTypes'
    BY <1>15, BoundAssumption DEF Crash, Types, CrashTypes
  <2>. QED BY <1>15, <2>1, <2>2, <2>3, CrashRuns DEF Types
<1>. QED BY <1>1, <1>7, <1>8, <1>9, <1>10, <1>11, <1>12, <1>13, <1>14, <1>15 DEF Next, Clean

(* Every variable has its type, in every state; no row of kv is empty.     *)
THEOREM TypeCorrect == Spec => []TypeOK
<1>1. Types => TypeOK
  BY QueueView DEF Types, TypeOK, SessionTypes, TableTypes, QueueTypes, ParkedTypes, CleanerTypes, CrashTypes
<1>. QED BY <1>1, TypesInit, TypesStep, PTL DEF Spec


-----------------------------------------------------------------------------
(* What a statement leaves alone, and when a push begins.                  *)
LEMMA StepEffect ==
  ASSUME Types, NEW i \in DOMAIN push, Step(i)
  PROVE  /\ ~Ended(i) /\ (run[i].pc = "queued" => StartPush(i))
         /\ push' = push /\ UNCHANGED <<active, gone, cleaner, crashes>>
         /\ \E pc, a, o, h, r : StepRun(i, pc, a, o, h, r)
<1>1. ~Ended(i) /\ (run[i].pc = "queued" => StartPush(i))
  BY DEF Step, StartPush, ReadValue, DropWill, WriteValue, AddWill, Confirm, Ended
<1>2. push' = push /\ UNCHANGED <<active, gone, cleaner, crashes>>
  BY DEF Step, StartPush, ReadValue, DropWill, WriteValue, AddWill, Confirm
<1>. QED BY <1>1, <1>2, StepTo

(* The pushes run one after the other.                                     *)
Serial ==
  \A i, j \in DOMAIN push : i < j /\ ~Ended(i) => run[j].pc = "queued"

LEMMA OneRuns ==
  ASSUME Types, Serial, NEW i \in DOMAIN push, NEW j \in DOMAIN push, Running(i), Running(j)
  PROVE  i = j
<1>1. i \in Nat /\ j \in Nat
  BY QueueView DEF Types
<1>2. i < j \/ j < i \/ i = j
  BY <1>1
<1>. QED BY <1>2 DEF Serial, Running, Ended

(* A push begins when no other is under way. *)
LEMMA StartsAlone ==
  ASSUME Types, Serial, NEW i \in DOMAIN push, StartPush(i), NEW j \in DOMAIN push
  PROVE  ~Running(j)
<1>1. i \in Nat /\ j \in Nat /\ run[i].pc = "queued"
  BY QueueView DEF Types, StartPush
<1>2. CASE j < i
  BY <1>2 DEF StartPush, Turn, Running, Ended
<1>3. CASE i < j
  BY <1>1, <1>3 DEF Serial, Running, Ended
<1>4. CASE i = j
  BY <1>1, <1>4 DEF Running
<1>. QED BY <1>1, <1>2, <1>3, <1>4

LEMMA SerialEnqueue ==
  ASSUME Types, Serial, NEW e, NEW by, Enqueued(e, by)
  PROVE  Serial'
<1> SUFFICES ASSUME NEW i \in DOMAIN push', NEW j \in DOMAIN push', i < j, ~Ended(i)'
             PROVE  run'[j].pc = "queued"
  BY DEF Serial
<1>1. CASE j = Len(push) + 1
  BY <1>1 DEF Enqueued, NewRun
<1>2. CASE j # Len(push) + 1
  <2>1. j \in DOMAIN push /\ j \in 1 .. Len(push) /\ Len(push) \in Nat
    BY <1>2, QueueView DEF Enqueued, Types
  <2>2. i \in DOMAIN push
    BY <2>1 DEF Enqueued
  <2>. QED BY <2>1, <2>2 DEF Enqueued, Serial, Ended
<1>. QED BY <1>1, <1>2

LEMMA SerialStep == Types /\ Serial /\ [Next]_vars => Serial'
<1> SUFFICES ASSUME Types, Serial, [Next]_vars PROVE Serial'
  OBVIOUS
<1>1. CASE UNCHANGED <<push, run>>
  BY <1>1 DEF Serial, Ended
<1>2. ASSUME NEW s \in Session, NEW r \in Request, Push(s, r) PROVE Serial'
  BY <1>2, PushView, SerialEnqueue
<1>3. ASSUME NEW c \in Cleaner, PushWill(c) PROVE Serial'
  BY <1>3, PushWillView, SerialEnqueue
<1>4. ASSUME NEW n \in DOMAIN push, Step(n) PROVE Serial'
  <2>1. PICK pc, a, o, h, r : StepRun(n, pc, a, o, h, r)
    BY <1>4, StepEffect
  <2>2. push' = push /\ DOMAIN run = DOMAIN push
        /\ \A j \in DOMAIN push : j # n => run'[j].pc = run[j].pc
    BY <2>1, QueueView DEF StepRun, RunTo, Types
  <2> SUFFICES ASSUME NEW i \in DOMAIN push, NEW j \in DOMAIN push, i < j, ~Ended(i)'
               PROVE  run'[j].pc = "queued"
    BY <2>2 DEF Serial
  <2>3. i \in Nat /\ j \in Nat
    BY QueueView DEF Types
  <2>4. CASE j = n
    <3>1. i # n /\ ~Ended(i) /\ i < n
      BY <2>2, <2>3, <2>4 DEF Ended
    <3>2. StartPush(n)
      BY <1>4, <2>4, <3>1, StepEffect DEF Serial
    <3>. QED BY <3>1, <3>2 DEF StartPush, Turn
  <2>5. CASE j # n
    <3>1. ~Ended(i)
      BY <1>4, <2>2, StepEffect DEF Ended
    <3>. QED BY <2>2, <2>5, <3>1 DEF Serial
  <2>. QED BY <2>4, <2>5
<1>5. CASE Crash
  BY <1>5, CrashRuns DEF Serial, Ended, Types
<1>. QED BY <1>1, <1>2, <1>3, <1>4, <1>5 DEF Next, Clean, vars, Join, Leave, BeginCleanup, SelectWills, DeleteWill

LEMMA SerialInit == Init => Serial
  BY DEF Init, Serial

-----------------------------------------------------------------------------
OldInv == Types /\ Serial /\ OldIsCurrent

LEMMA OldEnqueue ==
  ASSUME OldInv, NEW e, NEW by, Enqueued(e, by), kv' = kv
  PROVE  OldIsCurrent'
<1> SUFFICES ASSUME NEW i \in DOMAIN push', run'[i].pc \in {"unwill", "write"}
             PROVE  kv'[Actor(i)'.key].data = run'[i].old
  BY DEF OldIsCurrent, Enqueued
<1>1. i \in DOMAIN push /\ run'[i] = run[i]
  BY DEF Enqueued, NewRun
<1>2. Actor(i)' = Actor(i)
  BY <1>1, QueueView DEF Enqueued, Actor, OldInv, Types
<1>. QED BY <1>1, <1>2, QueueView DEF OldInv, Types, OldIsCurrent

LEMMA OldStep == OldInv /\ [Next]_vars => OldIsCurrent'
<1> SUFFICES ASSUME OldInv, [Next]_vars PROVE OldIsCurrent'
  OBVIOUS
<1>1. CASE UNCHANGED <<push, run, kv>>
  BY <1>1 DEF OldInv, OldIsCurrent, Actor
<1>2. ASSUME NEW s \in Session, NEW r \in Request, Push(s, r) PROVE OldIsCurrent'
  BY <1>2, PushView, OldEnqueue DEF OldInv, Push
<1>3. ASSUME NEW c \in Cleaner, PushWill(c) PROVE OldIsCurrent'
  BY <1>3, PushWillView, OldEnqueue DEF OldInv, PushWill
<1>4. ASSUME NEW n \in DOMAIN push, Step(n) PROVE OldIsCurrent'
  <2>1. PICK pc, a, o, h, r : StepRun(n, pc, a, o, h, r)
    BY <1>4, StepEffect DEF OldInv
  <2>2. DOMAIN run' = DOMAIN push /\ push' = push /\ ~Ended(n)
    BY <1>4, <2>1, StepEffect, QueueView DEF StepRun, RunTo, OldInv, Types
  <2> SUFFICES ASSUME NEW i \in DOMAIN push, run'[i].pc \in {"unwill", "write"}
               PROVE  kv'[push[run'[i].actor].key].data = run'[i].old
    BY <2>2 DEF OldIsCurrent, Actor
  <2>3. CASE i # n
    <3>1. run'[i].pc = run[i].pc /\ run'[i].actor = run[i].actor /\ run'[i].old = run[i].old
      BY <2>1, <2>3, QueueView DEF StepRun, RunTo, OldInv, Types
    <3>2. Running(i) /\ ~Running(n)
      BY <2>3, <3>1, OneRuns DEF OldInv, Running
    <3>3. StartPush(n)
      BY <1>4, <2>2, <3>2, StepEffect DEF OldInv, Running, Ended
    <3>. QED BY <3>2, <3>3, StartsAlone DEF OldInv
  <2>4. CASE i = n
    <3>1. CASE StartPush(n)
      BY <2>4, <3>1, StartRun, QueueView DEF OldInv, Types, StepRun, RunTo
    <3>2. CASE ReadValue(n)
      <4>1. CASE ConditionMet(n)
        <5>1. StepRun(n, "unwill", run[n].actor, kv[Actor(n).key].data, n, run[n].reply)
          BY <3>2, <4>1, MetRun DEF OldInv, Types
        <5>. QED BY <2>4, <3>2, <5>1, QueueView DEF OldInv, Types, StepRun, RunTo, ReadValue, Actor
      <4>2. CASE Parked(n) \/ NotAccepted(n)
        BY <2>4, <3>2, <4>2, ParkedRun, RefusedRun, QueueView DEF OldInv, Types, StepRun, RunTo
      <4>. QED BY <3>2, <4>1, <4>2 DEF ReadValue
    <3>3. CASE DropWill(n)
      <4>1. StepRun(n, "write", run[n].actor, run[n].old, n, run[n].reply)
        BY <3>3, DropRun DEF OldInv, Types
      <4>. QED BY <2>4, <3>3, <4>1, QueueView DEF OldInv, Types, StepRun, RunTo, DropWill, Actor, OldIsCurrent
    <3>4. CASE WriteValue(n)
      BY <2>4, <3>4, WriteRun, QueueView DEF OldInv, Types, StepRun, RunTo, AfterWrite
    <3>5. CASE AddWill(n)
      BY <2>4, <3>5, AddRun, QueueView DEF OldInv, Types, StepRun, RunTo
    <3>6. CASE Confirm(n)
      BY <2>4, <3>6, NextRun, LastRun, QueueView DEF OldInv, Types, StepRun, RunTo, Confirm
    <3>. QED BY <1>4, <3>1, <3>2, <3>3, <3>4, <3>5, <3>6 DEF Step
  <2>. QED BY <2>3, <2>4
<1>5. CASE Crash
  BY <1>5, CrashRuns, QueueView DEF OldInv, OldIsCurrent, Types
<1>. QED BY <1>1, <1>2, <1>3, <1>4, <1>5 DEF Next, Clean, vars, Join, Leave, BeginCleanup, SelectWills, DeleteWill

(* A push writes over the value that it was checked against: nothing has   *)
(* changed it meanwhile, though the push awaited the database.             *)
THEOREM OldIsCurrentCorrect == Spec => []OldIsCurrent
<1>1. Init => OldInv
  <2>1. Init => OldIsCurrent
    BY DEF Init, OldIsCurrent
  <2>. QED BY <2>1, TypesInit, SerialInit DEF OldInv
<1>2. OldInv /\ [Next]_vars => OldInv'
  BY TypesStep, SerialStep, OldStep DEF OldInv
<1>3. OldInv => OldIsCurrent
  BY DEF OldInv
<1>. QED BY <1>1, <1>2, <1>3, PTL DEF Spec

-----------------------------------------------------------------------------
(* No session comes back: each that pushed, that a will is of or that a    *)
(* cleanup applies a will of is in the realm, or it is gone.               *)
Seen == active \cup gone
PushSeen == \A i \in DOMAIN push : push[i].sid \in Seen
WillSeen == \A k \in Key : wills[k] # NoWill => wills[k].sid \in Seen
RowSeen == \A c \in Cleaner : \A row \in cleaner[c].rows : row.sid \in Seen
Known == active \cap gone = {} /\ PushSeen /\ WillSeen /\ RowSeen

LEMMA SessionsStep ==
  ASSUME active \cap gone = {}, [Next]_vars
  PROVE  active' \cap gone' = {} /\ Seen \subseteq Seen'
<1>1. CASE UNCHANGED <<active, gone>>
  BY <1>1 DEF Seen
<1>2. ASSUME NEW s \in Session, Join(s) PROVE active' \cap gone' = {} /\ Seen \subseteq Seen'
  BY <1>2 DEF Join, Seen
<1>3. ASSUME NEW s \in Session, Leave(s) PROVE active' \cap gone' = {} /\ Seen \subseteq Seen'
  BY <1>3 DEF Leave, Seen
<1>4. CASE Crash
  BY <1>4 DEF Crash, Seen
<1>. QED BY <1>1, <1>2, <1>3, <1>4 DEF Next, Step, StartPush, ReadValue, DropWill, WriteValue, AddWill,
            Confirm, Clean, BeginCleanup, SelectWills, PushWill, DeleteWill, Push, vars

LEMMA PushSeenStep ==
  ASSUME Types, Known, [Next]_vars
  PROVE  PushSeen'
<1>1. Seen \subseteq Seen'
  BY SessionsStep DEF Known
<1>2. CASE push' = push
  BY <1>1, <1>2 DEF Known, PushSeen
<1>3. ASSUME NEW s \in Session, NEW r \in Request, Push(s, r) PROVE PushSeen'
  <2>1. Enqueued(PushEvent(s, r), NoOpt) /\ s \in Seen
    BY <1>3, PushView DEF Push, Seen
  <2>. QED BY <1>1, <2>1 DEF Enqueued, PushEvent, Known, PushSeen
<1>4. ASSUME NEW c \in Cleaner, PushWill(c) PROVE PushSeen'
  <2>1. PICK row \in cleaner[c].rows : Enqueued(WillEvent(row), c)
    BY <1>4, PushWillView
  <2>2. row.sid \in Seen
    BY <2>1 DEF Known, RowSeen
  <2>. QED BY <1>1, <2>1, <2>2 DEF Enqueued, WillEvent, Known, PushSeen
<1>5. push' = push \/ (\E s \in Session, r \in Request : Push(s, r)) \/ \E c \in Cleaner : PushWill(c)
  BY DEF Next, Step, StartPush, ReadValue, DropWill, WriteValue, AddWill, Confirm, Clean,
         BeginCleanup, SelectWills, DeleteWill, Crash, Join, Leave, vars
<1>. QED BY <1>2, <1>3, <1>4, <1>5

(* A will is dropped, or added by the push that it came with.              *)
LEMMA WillsStep ==
  ASSUME Types, [Next]_vars, NEW k \in Key, wills'[k] # NoWill
  PROVE  \/ wills'[k] = wills[k]
         \/ \E i \in DOMAIN push : AddWill(i) /\ k = Actor(i).key /\ wills'[k] = WillOf(Actor(i))
<1>1. CASE wills' = wills
  BY <1>1
<1>2. ASSUME NEW i \in DOMAIN push, DropWill(i) PROVE wills'[k] = wills[k]
  BY <1>2 DEF DropWill, Types, TableTypes
<1>3. ASSUME NEW i \in DOMAIN push, AddWill(i)
      PROVE  wills'[k] = wills[k] \/ (k = Actor(i).key /\ wills'[k] = WillOf(Actor(i)))
  BY <1>3 DEF AddWill, Types, TableTypes
<1>4. ASSUME NEW c \in Cleaner, DeleteWill(c) PROVE wills'[k] = wills[k]
  BY <1>4 DEF DeleteWill, Types, TableTypes
<1>5. \/ wills' = wills
      \/ \E i \in DOMAIN push : DropWill(i) \/ AddWill(i)
      \/ \E c \in Cleaner : DeleteWill(c)
  BY DEF Next, Step, StartPush, ReadValue, WriteValue, Confirm, Clean,
         BeginCleanup, SelectWills, PushWill, Crash, Join, Leave, Push, vars
<1>. QED BY <1>1, <1>2, <1>3, <1>4, <1>5

LEMMA WillSeenStep ==
  ASSUME Types, Known, [Next]_vars
  PROVE  WillSeen'
<1> SUFFICES ASSUME NEW k \in Key, wills'[k] # NoWill PROVE wills'[k].sid \in Seen'
  BY DEF WillSeen
<1>1. Seen \subseteq Seen'
  BY SessionsStep DEF Known
<1>2. CASE wills'[k] = wills[k]
  BY <1>1, <1>2 DEF Known, WillSeen
<1>3. ASSUME NEW i \in DOMAIN push, wills'[k] = WillOf(Actor(i)) PROVE wills'[k].sid \in Seen
  <2>1. Actor(i) \in Event /\ run[i].actor \in DOMAIN push
    BY QueueView DEF Types
  <2>2. WillOf(Actor(i)).sid = Actor(i).sid
    BY <1>3, <2>1, WillOfTyped
  <2>. QED BY <1>3, <2>1, <2>2 DEF Actor, Known, PushSeen
<1>. QED BY <1>1, <1>2, <1>3, WillsStep

(* What a cleanup has to apply are the wills that it has selected.         *)
LEMMA RowsStep ==
  ASSUME Types, [Next]_vars, NEW c \in Cleaner
  PROVE  cleaner'[c].rows \subseteq cleaner[c].rows \/ (SelectWills(c) /\ cleaner'[c].rows = WillRows(c))
<1>1. CASE cleaner' = cleaner
  BY <1>1
<1>2. cleaner \in [Cleaner -> Cleaning] /\ cleaner[c] \in Cleaning
  BY DEF Types, CleanerTypes
<1>3. ASSUME NEW s \in Session, Leave(s) PROVE cleaner'[c].rows = cleaner[c].rows
  BY <1>2, <1>3 DEF Leave, Cleaning
<1>4. ASSUME NEW d \in Cleaner, BeginCleanup(d) PROVE cleaner'[c].rows = cleaner[c].rows
  BY <1>2, <1>4 DEF BeginCleanup, Cleaning
<1>5. ASSUME NEW d \in Cleaner, SelectWills(d)
      PROVE  cleaner'[c].rows = IF c = d THEN WillRows(c) ELSE cleaner[c].rows
  BY <1>2, <1>5 DEF SelectWills, ApplyRows, Cleaning
<1>6. ASSUME NEW d \in Cleaner, PushWill(d) PROVE cleaner'[c].rows = cleaner[c].rows
  BY <1>2, <1>6 DEF PushWill, Cleaning
<1>7. ASSUME NEW d \in Cleaner, DeleteWill(d) PROVE cleaner'[c].rows \subseteq cleaner[c].rows
  <2>1. cleaner' = [cleaner EXCEPT ![d] = Applying(d, Remaining(d))] /\ Remaining(d) \in SUBSET WillRow
    BY <1>7, DeleteView
  <2>2. Applying(d, Remaining(d)).rows = Remaining(d)
    BY <2>1, ApplyRowsTyped DEF Types
  <2>. QED BY <1>2, <2>1, <2>2 DEF Remaining
<1>8. CASE Crash
  BY <1>8 DEF Crash, NotCleaning
<1>9. \/ cleaner' = cleaner
      \/ \E s \in Session : Leave(s)
      \/ \E d \in Cleaner : BeginCleanup(d) \/ SelectWills(d) \/ PushWill(d) \/ DeleteWill(d)
      \/ Crash
  BY DEF Next, Step, StartPush, ReadValue, DropWill, WriteValue, AddWill, Confirm, Clean, Join, Push, vars
<1>. QED BY <1>1, <1>3, <1>4, <1>5, <1>6, <1>7, <1>8, <1>9

LEMMA RowSeenStep ==
  ASSUME Types, Known, [Next]_vars
  PROVE  RowSeen'
<1> SUFFICES ASSUME NEW c \in Cleaner, NEW row \in cleaner'[c].rows PROVE row.sid \in Seen'
  BY DEF RowSeen
<1>1. Seen \subseteq Seen'
  BY SessionsStep DEF Known
<1>2. CASE row \in cleaner[c].rows
  BY <1>1, <1>2 DEF Known, RowSeen
<1>3. CASE row \in WillRows(c)
  <2>1. PICK k \in Key : wills[k] # NoWill /\ row.sid = wills[k].sid
    BY <1>3 DEF WillRows, IsStale
  <2>. QED BY <1>1, <2>1 DEF Known, WillSeen
<1>. QED BY <1>2, <1>3, RowsStep

LEMMA KnownInit == Init => Known
  BY DEF Init, Known, PushSeen, WillSeen, RowSeen, Seen, NotCleaning

LEMMA KnownStep == Types /\ Known /\ [Next]_vars => Known'
  BY SessionsStep, PushSeenStep, WillSeenStep, RowSeenStep DEF Known

-----------------------------------------------------------------------------
(* A push that finds its condition not met has nobody to wake.             *)
ReadWakes ==
  \A i \in DOMAIN push :
    run[i].pc = "read" /\ ~Allowed(Actor(i), kv[Actor(i).key].data) => Fitting(Actor(i).key) = {}

Wakes == \A k \in Key : Fitting(k) # {} => BeingPushed(k)

WakeInv == Types /\ Serial /\ Known /\ ReadWakes /\ Wakes

LEMMA WakesMeans ==
  ASSUME Types
  PROVE  Wakes => NoMissedWakeup
<1>1. \A j \in parked : j \in DOMAIN push /\ push[j].key \in Key
  BY QueueView DEF Types, ParkedTypes, Event
<1>. QED BY <1>1 DEF Wakes, NoMissedWakeup, Fitting, Waiting

(* Events begin to fit only when a value is written. *)
LEMMA FittingKept ==
  ASSUME Types, Known, parked' \subseteq parked, \A j \in DOMAIN push : push'[j] = push[j],
         kv' = kv, active' \cap Seen \subseteq active, NEW k
  PROVE  Fitting(k)' \subseteq Fitting(k)
<1> SUFFICES ASSUME NEW j, j \in Fitting(k)' PROVE j \in Fitting(k)
  OBVIOUS
<1>1. /\ j \in parked' /\ push'[j].key = k /\ push'[j].sid \in active'
      /\ Fit(push'[j].when, kv'[k].data)
  BY DEF Fitting, Waiting
<1>2. j \in parked /\ push'[j] = push[j]
  BY <1>1 DEF Types, ParkedTypes
<1>3. push[j].sid \in active
  BY <1>1, <1>2 DEF Types, ParkedTypes, Known, PushSeen
<1>. QED BY <1>1, <1>2, <1>3 DEF Fitting, Waiting

LEMMA WakeQuiet ==
  ASSUME WakeInv, parked' \subseteq parked, kv' = kv, active' \cap Seen \subseteq active,
         UNCHANGED <<push, run>> \/ \E e, by : Enqueued(e, by)
  PROVE  ReadWakes' /\ Wakes'
<1>1. \A i \in DOMAIN push : /\ i \in DOMAIN push' /\ push'[i] = push[i] /\ run'[i] = run[i]
                             /\ Actor(i)' = Actor(i)
  BY QueueView DEF WakeInv, Types, Enqueued, Actor
<1>2. ASSUME NEW i \in DOMAIN push', i \notin DOMAIN push PROVE run'[i].pc = "queued"
  <2>1. CASE UNCHANGED <<push, run>>
    BY <1>2, <2>1
  <2>2. CASE \E e, by : Enqueued(e, by)
    BY <1>2, <2>2 DEF Enqueued, NewRun
  <2>. QED BY <2>1, <2>2
<1>3. \A k : Fitting(k)' \subseteq Fitting(k)
  BY <1>1, FittingKept DEF WakeInv
<1>4. ReadWakes'
  <2> SUFFICES ASSUME NEW i \in DOMAIN push', run'[i].pc = "read", NEW k, k = Actor(i)'.key,
                      ~Allowed(Actor(i)', kv'[k].data)
               PROVE  Fitting(k)' = {}
    BY DEF ReadWakes
  <2>1. i \in DOMAIN push /\ run[i].pc = "read" /\ Actor(i)' = Actor(i)
    BY <1>1, <1>2
  <2>2. Fitting(k) = {}
    BY <2>1 DEF WakeInv, ReadWakes
  <2>. QED BY <1>3, <2>1, <2>2
<1>5. DOMAIN run = DOMAIN push /\ DOMAIN run' = DOMAIN push'
  BY QueueView DEF WakeInv, Types, Enqueued
<1>6. Wakes'
  <2> SUFFICES ASSUME NEW k \in Key, Fitting(k)' # {} PROVE BeingPushed(k)'
    BY DEF Wakes
  <2>1. PICK i \in DOMAIN run : Running(i) /\ Actor(i).key = k
    BY <1>3 DEF WakeInv, Wakes, BeingPushed
  <2>. QED BY <1>1, <1>5, <2>1 DEF BeingPushed, Running
<1>. QED BY <1>4, <1>6

(* What fits is seen to by the push that is under way. *)
LEMMA WakesOne ==
  ASSUME WakeInv, NEW n \in DOMAIN push, Step(n), ~StartPush(n), NEW k \in Key, Fitting(k) # {}
  PROVE  k = Actor(n).key
<1>1. PICK i \in DOMAIN run : Running(i) /\ Actor(i).key = k
  BY DEF WakeInv, Wakes, BeingPushed
<1>2. i \in DOMAIN push /\ Running(n)
  BY QueueView, StepEffect DEF WakeInv, Types, Running, Ended
<1>. QED BY <1>1, <1>2, OneRuns DEF WakeInv

LEMMA WakeRead ==
  ASSUME WakeInv, NEW n \in DOMAIN push, Step(n)
  PROVE  ReadWakes'
<1>1. PICK pc, a, o, h, r : StepRun(n, pc, a, o, h, r)
  BY StepEffect DEF WakeInv
<1>2. push' = push /\ active' = active
  BY StepEffect DEF WakeInv
<1> SUFFICES ASSUME NEW i \in DOMAIN push, run'[i].pc = "read", NEW k, k = push[run'[i].actor].key,
                    ~Allowed(push[run'[i].actor], kv'[k].data)
             PROVE  Fitting(k)' = {}
  BY <1>2 DEF ReadWakes, Actor
<1>3. CASE i # n
  <2>1. run'[i].pc = run[i].pc
    BY <1>1, <1>3, QueueView DEF StepRun, RunTo, WakeInv, Types
  <2>2. Running(i) /\ ~Running(n)
    BY <1>3, <2>1, OneRuns DEF WakeInv, Running
  <2>3. StartPush(n)
    BY <2>2, StepEffect DEF WakeInv, Running, Ended
  <2>. QED BY <2>2, <2>3, StartsAlone DEF WakeInv
<1>4. CASE i = n
  <2>1. CASE StartPush(n)
    <3>1. run'[n].actor = run[n].actor /\ kv' = kv /\ parked' = parked
      BY <2>1, StartRun, QueueView DEF WakeInv, Types, StepRun, RunTo, StartPush
    <3>2. Actor(n).key \in Key
      BY QueueView DEF WakeInv, Types, Event
    <3>3. ~BeingPushed(Actor(n).key)
      BY <2>1, StartsAlone, QueueView DEF WakeInv, Types, BeingPushed
    <3>4. Fitting(Actor(n).key) = {}
      BY <3>2, <3>3 DEF WakeInv, Wakes
    <3>. QED BY <1>2, <1>4, <3>1, <3>4 DEF Fitting, Waiting, Actor
  <2>2. CASE ReadValue(n)
    <3>1. run'[n].pc # "read"
      BY <2>2, MetRun, ParkedRun, RefusedRun, QueueView DEF WakeInv, Types, StepRun, RunTo, ReadValue
    <3>. QED BY <1>4, <3>1
  <2>3. CASE DropWill(n) \/ WriteValue(n) \/ AddWill(n)
    <3>1. run'[n].pc # "read"
      BY <2>3, DropRun, WriteRun, AddRun, QueueView DEF WakeInv, Types, StepRun, RunTo, AfterWrite
    <3>. QED BY <1>4, <3>1
  <2>4. CASE Confirm(n) /\ NoneWaiting(n)
    <3>1. run'[n].pc # "read"
      BY <2>4, LastRun, QueueView DEF WakeInv, Types, StepRun, RunTo
    <3>. QED BY <1>4, <3>1
  <2>5. CASE Confirm(n) /\ NextWaiting(n)
    <3>1. PICK m : /\ push[m].key = Actor(n).key /\ Fit(push[m].when, kv[Actor(n).key].data)
                   /\ run'[n].actor = m
      BY <2>5, NextRun, QueueView DEF WakeInv, Types, StepRun, RunTo
    <3>2. kv' = kv
      BY <2>5 DEF Confirm
    <3>. QED BY <1>4, <3>1, <3>2 DEF Allowed
  <2>. QED BY <2>1, <2>2, <2>3, <2>4, <2>5 DEF Step, Confirm
<1>. QED BY <1>3, <1>4

LEMMA WakePush ==
  ASSUME WakeInv, NEW n \in DOMAIN push, Step(n)
  PROVE  Wakes'
<1>1. push' = push /\ active' = active /\ active' \cap Seen \subseteq active
  BY StepEffect DEF WakeInv
<1>2. DOMAIN run = DOMAIN push /\ DOMAIN run' = DOMAIN push
  BY StepEffect, QueueView DEF WakeInv, Types, StepRun, RunTo
<1> SUFFICES ASSUME NEW k \in Key, Fitting(k)' # {} PROVE BeingPushed(k)'
  BY DEF Wakes
<1>3. ASSUME parked' \subseteq parked, kv' = kv PROVE Fitting(k) # {}
  BY <1>1, <1>3, FittingKept DEF WakeInv
<1>4. ASSUME k = Actor(n).key, run'[n].pc \notin {"queued", "ended"}, push[run'[n].actor].key = Actor(n).key
      PROVE  BeingPushed(k)'
  BY <1>1, <1>2, <1>4 DEF BeingPushed, Running, Actor
<1>5. CASE StartPush(n)
  <2>1. Fitting(k) # {}
    BY <1>3, <1>5 DEF StartPush
  <2>. QED BY <1>2, <1>5, <2>1, StartsAlone DEF WakeInv, Wakes, BeingPushed
<1>6. CASE ~StartPush(n) /\ (DropWill(n) \/ AddWill(n) \/ (ReadValue(n) /\ ConditionMet(n)))
  <2>1. k = Actor(n).key
    BY <1>3, <1>6, WakesOne DEF DropWill, AddWill, ReadValue, ConditionMet
  <2>2. run'[n].pc \notin {"queued", "ended"} /\ run'[n].actor = run[n].actor
    BY <1>6, DropRun, AddRun, MetRun, QueueView DEF WakeInv, Types, StepRun, RunTo
  <2>. QED BY <1>4, <2>1, <2>2 DEF Actor
<1>7. CASE WriteValue(n)
  <2>1. run'[n].pc \notin {"queued", "ended"} /\ run'[n].actor = run[n].actor
    BY <1>7, WriteRun, QueueView DEF WakeInv, Types, StepRun, RunTo, AfterWrite
  <2>2. CASE k = Actor(n).key
    BY <1>4, <2>1, <2>2 DEF Actor
  <2>3. CASE k # Actor(n).key
    <3>1. kv'[k] = kv[k] /\ parked' = parked
      BY <1>7, <2>3 DEF WriteValue, WakeInv, Types, TableTypes
    <3>2. Fitting(k) # {}
      BY <1>1, <3>1 DEF Fitting, Waiting
    <3>3. ~StartPush(n)
      BY <1>7 DEF WriteValue, StartPush
    <3>. QED BY <2>3, <3>2, <3>3, WakesOne
  <2>. QED BY <2>2, <2>3
<1>8. CASE ReadValue(n) /\ (Parked(n) \/ NotAccepted(n))
  <2>1. /\ run[n].pc = "read" /\ ~Allowed(Actor(n), kv[Actor(n).key].data) /\ kv' = kv
        /\ parked' \subseteq parked \cup {run[n].actor}
    BY <1>8 DEF ReadValue, Parked, NotAccepted
  <2>2. Fitting(Actor(n).key) = {}
    BY <2>1 DEF WakeInv, ReadWakes
  <2>3. ~Fit(Actor(n).when, kv[Actor(n).key].data)
    BY <2>1 DEF Allowed
  <2>4. Fitting(k)' \subseteq Fitting(k)
    BY <1>1, <2>1, <2>3 DEF Fitting, Waiting, Actor
  <2>5. ~StartPush(n)
    BY <2>1 DEF StartPush
  <2>. QED BY <2>2, <2>4, <2>5, WakesOne
<1>9. CASE Confirm(n)
  <2>1. parked' \subseteq parked /\ kv' = kv /\ ~StartPush(n)
    BY <1>9 DEF Confirm, NextWaiting, NoneWaiting, StartPush
  <2>2. Fitting(k) # {} /\ k = Actor(n).key
    BY <1>3, <2>1, WakesOne
  <2>3. NextWaiting(n)
    BY <1>9, <2>2 DEF Confirm, NoneWaiting
  <2>4. PICK m : push[m].key = Actor(n).key /\ run'[n].actor = m /\ run'[n].pc = "read"
    BY <1>9, <2>3, NextRun, QueueView DEF WakeInv, Types, StepRun, RunTo
  <2>. QED BY <1>4, <2>2, <2>4
<1>10. ~StartPush(n) \/ StartPush(n)
  OBVIOUS
<1>. QED BY <1>5, <1>6, <1>7, <1>8, <1>9, <1>10 DEF Step, ReadValue

LEMMA WakeStep == WakeInv /\ [Next]_vars => ReadWakes' /\ Wakes'
<1> SUFFICES ASSUME WakeInv, [Next]_vars PROVE ReadWakes' /\ Wakes'
  OBVIOUS
<1>1. CASE UNCHANGED vars
  BY <1>1, WakeQuiet DEF vars
<1>2. ASSUME NEW s \in Session, Join(s) PROVE ReadWakes' /\ Wakes'
  BY <1>2, WakeQuiet DEF Join, Seen
<1>3. ASSUME NEW s \in Session, Leave(s) PROVE ReadWakes' /\ Wakes'
  BY <1>3, WakeQuiet DEF Leave
<1>4. ASSUME NEW s \in Session, NEW r \in Request, Push(s, r) PROVE ReadWakes' /\ Wakes'
  <2>1. Enqueued(PushEvent(s, r), NoOpt)
    BY <1>4, PushView DEF WakeInv
  <2>. QED BY <1>4, <2>1, WakeQuiet DEF Push
<1>5. ASSUME NEW n \in DOMAIN push, Step(n) PROVE ReadWakes' /\ Wakes'
  BY <1>5, WakeRead, WakePush
<1>6. ASSUME NEW c \in Cleaner, BeginCleanup(c) \/ SelectWills(c) \/ DeleteWill(c) PROVE ReadWakes' /\ Wakes'
  BY <1>6, WakeQuiet DEF BeginCleanup, SelectWills, DeleteWill
<1>7. ASSUME NEW c \in Cleaner, PushWill(c) PROVE ReadWakes' /\ Wakes'
  <2>1. PICK row : Enqueued(WillEvent(row), c)
    BY <1>7, PushWillView DEF WakeInv
  <2>. QED BY <1>7, <2>1, WakeQuiet DEF PushWill
<1>8. CASE Crash
  <2>1. parked' = {} /\ push' = push /\ DOMAIN push' = DOMAIN push
    BY <1>8 DEF Crash
  <2>2. Wakes'
    BY <2>1 DEF Wakes, Fitting, Waiting
  <2>3. ReadWakes'
    BY <1>8, <2>1, CrashRuns DEF ReadWakes, WakeInv, Types
  <2>. QED BY <2>2, <2>3
<1>. QED BY <1>1, <1>2, <1>3, <1>4, <1>5, <1>6, <1>7, <1>8 DEF Next, Clean

(* No wake-up is missed: an event that waits for its condition does not    *)
(* fit the stored value, unless a push of that key is under way.           *)
THEOREM NoMissedWakeupCorrect == Spec => []NoMissedWakeup
<1>1. Init => WakeInv
  <2>1. Init => Wakes /\ ReadWakes
    BY DEF Init, Wakes, ReadWakes, Fitting, Waiting
  <2>. QED BY <2>1, TypesInit, SerialInit, KnownInit DEF WakeInv
<1>2. WakeInv /\ [Next]_vars => WakeInv'
  BY TypesStep, SerialStep, KnownStep, WakeStep DEF WakeInv
<1>3. WakeInv => NoMissedWakeup
  BY WakesMeans DEF WakeInv
<1>. QED BY <1>1, <1>2, <1>3, PTL DEF Spec

-----------------------------------------------------------------------------
(* What a step does to the cleanup c. *)
CleanerTo(c, pc, after, rows, p) ==
  \A d \in Cleaner :
    /\ cleaner'[d].pc = IF d = c THEN pc ELSE cleaner[d].pc
    /\ cleaner'[d].after = IF d = c THEN after ELSE cleaner[d].after
    /\ cleaner'[d].rows = IF d = c THEN rows ELSE cleaner[d].rows
    /\ cleaner'[d].push = IF d = c THEN p ELSE cleaner[d].push

LEMMA LeaveTo ==
  ASSUME Types, NEW s \in Session, Leave(s)
  PROVE  s \in Cleaner /\ CleanerTo(s, "waiting", Len(push), cleaner[s].rows, cleaner[s].push)
  BY DEF Types, CleanerTypes, Cleaning, Cleaner, Leave, CleanerTo

LEMMA BeginTo ==
  ASSUME Types, NEW c \in Cleaner, BeginCleanup(c)
  PROVE  CleanerTo(c, "select", cleaner[c].after, cleaner[c].rows, cleaner[c].push)
  BY DEF Types, CleanerTypes, Cleaning, BeginCleanup, CleanerTo

LEMMA ApplyTo ==
  ASSUME Types, NEW c \in Cleaner, NEW rows, ApplyRows(c, rows)
  PROVE  CleanerTo(c, IF rows = {} THEN "done" ELSE "apply", cleaner[c].after, rows, cleaner[c].push)
  BY DEF Types, CleanerTypes, Cleaning, ApplyRows, CleanerTo

LEMMA PushWillTo ==
  ASSUME Types, NEW c \in Cleaner, PushWill(c)
  PROVE  CleanerTo(c, "pushed", cleaner[c].after, cleaner[c].rows, Len(push) + 1)
  BY DEF Types, CleanerTypes, Cleaning, PushWill, CleanerTo

LEMMA CrashTo ==
  ASSUME Crash
  PROVE  \A d \in Cleaner : /\ cleaner'[d].pc = IF d = Launch THEN "select" ELSE "none"
                            /\ cleaner'[d].rows = {}
  BY DEF Crash, NotCleaning

LEMMA GoneGrows ==
  ASSUME [Next]_vars
  PROVE  gone \subseteq gone'
  BY DEF Next, Step, StartPush, ReadValue, DropWill, WriteValue, AddWill, Confirm, Clean,
         BeginCleanup, SelectWills, PushWill, DeleteWill, Crash, Join, Leave, Push, vars

(* The steps that take a cleanup on. *)
LEMMA CleanerSteps ==
  ASSUME Types, [Next]_vars
  PROVE  \/ cleaner' = cleaner
         \/ \E s \in Session : Leave(s)
         \/ \E c \in Cleaner : BeginCleanup(c) \/ SelectWills(c) \/ PushWill(c) \/ DeleteWill(c)
         \/ Crash
  BY DEF Next, Step, StartPush, ReadValue, DropWill, WriteValue, AddWill, Confirm, Clean, Join, Push, vars

(* Only of sessions that are gone is the end cleaned up.                   *)
Cleaners ==
  /\ \A s \in Session : cleaner[s].pc # "none" => s \in gone
  /\ cleaner[Launch].pc \in {"select", "apply", "pushed", "done"}

LEMMA CleanersStep == Types /\ Cleaners /\ [Next]_vars => Cleaners'
<1> SUFFICES ASSUME Types, Cleaners, [Next]_vars PROVE Cleaners'
  OBVIOUS
<1>1. gone \subseteq gone' /\ Launch \in Cleaner /\ Launch \notin Session /\ Session \subseteq Cleaner
  BY GoneGrows, LaunchAssumption DEF Cleaner
<1>2. CASE cleaner' = cleaner
  BY <1>1, <1>2 DEF Cleaners
<1>3. ASSUME NEW s \in Session, Leave(s) PROVE Cleaners'
  <2>1. CleanerTo(s, "waiting", Len(push), cleaner[s].rows, cleaner[s].push) /\ s \in gone'
    BY <1>3, LeaveTo DEF Leave
  <2>. QED BY <1>1, <2>1 DEF Cleaners, CleanerTo
<1>4. ASSUME NEW c \in Cleaner, BeginCleanup(c) PROVE Cleaners'
  BY <1>1, <1>4, BeginTo DEF Cleaners, CleanerTo, BeginCleanup
<1>5. ASSUME NEW c \in Cleaner, SelectWills(c) PROVE Cleaners'
  BY <1>1, <1>5, ApplyTo DEF Cleaners, CleanerTo, SelectWills
<1>6. ASSUME NEW c \in Cleaner, PushWill(c) PROVE Cleaners'
  <2>1. CleanerTo(c, "pushed", cleaner[c].after, cleaner[c].rows, Len(push) + 1) /\ cleaner[c].pc = "apply"
    BY <1>6, PushWillTo DEF PushWill
  <2>. QED BY <1>1, <2>1 DEF Cleaners, CleanerTo
<1>7. ASSUME NEW c \in Cleaner, DeleteWill(c) PROVE Cleaners'
  <2>1. PICK rows : ApplyRows(c, rows)
    BY <1>7 DEF DeleteWill
  <2>. QED BY <1>1, <1>7, <2>1, ApplyTo DEF Cleaners, CleanerTo, DeleteWill
<1>8. CASE Crash
  BY <1>1, <1>8, CrashTo DEF Cleaners
<1>. QED BY <1>2, <1>3, <1>4, <1>5, <1>6, <1>7, <1>8, CleanerSteps

-----------------------------------------------------------------------------
(* What a cleanup has to apply: at most one will of a key, and only wills  *)
(* of the session that left; the push that it awaits is of one of them.    *)
OwnSid(c, rows) == \A row \in rows : c # Launch => row.sid = c
OneOfKey(rows) == \A row1, row2 \in rows : row1.key = row2.key => row1 = row2
Awaited(c) ==
  cleaner[c].pc = "pushed" =>
    \E row \in cleaner[c].rows : /\ row.key = push[cleaner[c].push].key
                                 /\ row.sid = push[cleaner[c].push].sid
RowsInv == \A c \in Cleaner : OwnSid(c, cleaner[c].rows) /\ OneOfKey(cleaner[c].rows) /\ Awaited(c)

LEMMA WillRowsInv ==
  ASSUME Types, NEW c \in Cleaner
  PROVE  /\ OwnSid(c, WillRows(c)) /\ OneOfKey(WillRows(c))
         /\ \A k \in Key : IsStale(wills[k], c) =>
              \E row \in WillRows(c) : row.key = k /\ row.sid = wills[k].sid
<1>1. OwnSid(c, WillRows(c))
  BY DEF OwnSid, WillRows, IsStale
<1>2. OneOfKey(WillRows(c))
  BY DEF OneOfKey, WillRows
<1>3. ASSUME NEW k \in Key, IsStale(wills[k], c)
      PROVE  \E row \in WillRows(c) : row.key = k /\ row.sid = wills[k].sid
  <2>1. PICK row : row = [key |-> k, data |-> wills[k].data, sid |-> wills[k].sid]
    OBVIOUS
  <2>2. row \in WillRows(c) /\ row.key = k /\ row.sid = wills[k].sid
    BY <1>3, <2>1 DEF WillRows
  <2>. QED BY <2>2
<1>. QED BY <1>1, <1>2, <1>3

LEMMA AwaitedStep ==
  ASSUME Types, RowsInv, [Next]_vars, NEW c \in Cleaner
  PROVE  Awaited(c)'
<1>1. \A i \in DOMAIN push : push'[i] = push[i]
  <2>1. CASE push' = push
    BY <2>1
  <2>2. ASSUME NEW s \in Session, NEW r \in Request, Push(s, r) PROVE \A i \in DOMAIN push : push'[i] = push[i]
    BY <2>2, PushView DEF Enqueued
  <2>3. ASSUME NEW d \in Cleaner, PushWill(d) PROVE \A i \in DOMAIN push : push'[i] = push[i]
    BY <2>3, PushWillView DEF Enqueued
  <2>. QED BY <2>1, <2>2, <2>3 DEF Next, Step, StartPush, ReadValue, DropWill, WriteValue, AddWill, Confirm,
              Clean, BeginCleanup, SelectWills, DeleteWill, Crash, Join, Leave, vars
<1>2. ASSUME cleaner'[c].pc = cleaner[c].pc, cleaner'[c].rows = cleaner[c].rows,
             cleaner'[c].push = cleaner[c].push
      PROVE  Awaited(c)'
  <2> SUFFICES ASSUME cleaner'[c].pc = "pushed"
               PROVE  \E row \in cleaner'[c].rows : /\ row.key = push'[cleaner'[c].push].key
                                                     /\ row.sid = push'[cleaner'[c].push].sid
    BY DEF Awaited
  <2>1. cleaner[c].push \in DOMAIN push /\ cleaner[c].pc = "pushed"
    BY <1>2 DEF Types, CleanerTypes
  <2>2. push'[cleaner'[c].push] = push[cleaner[c].push]
    BY <1>1, <1>2, <2>1
  <2>. QED BY <1>2, <2>1, <2>2 DEF Awaited, RowsInv
<1>3. ASSUME cleaner'[c].pc # "pushed" PROVE Awaited(c)'
  BY <1>3 DEF Awaited
<1>4. CASE cleaner' = cleaner
  BY <1>2, <1>4
<1>5. ASSUME NEW s \in Session, Leave(s) PROVE Awaited(c)'
  BY <1>2, <1>3, <1>5, LeaveTo DEF CleanerTo
<1>6. ASSUME NEW d \in Cleaner, BeginCleanup(d) PROVE Awaited(c)'
  BY <1>2, <1>3, <1>6, BeginTo DEF CleanerTo
<1>7. ASSUME NEW d \in Cleaner, NEW rows, ApplyRows(d, rows) PROVE Awaited(c)'
  BY <1>2, <1>3, <1>7, ApplyTo DEF CleanerTo
<1>8. ASSUME NEW d \in Cleaner, PushWill(d) PROVE Awaited(c)'
  <2>1. PICK row \in cleaner[d].rows : Enqueued(WillEvent(row), d)
    BY <1>8, PushWillView
  <2>2. push'[Len(push) + 1].key = row.key /\ push'[Len(push) + 1].sid = row.sid
    BY <2>1 DEF Enqueued, WillEvent
  <2>3. CleanerTo(d, "pushed", cleaner[d].after, cleaner[d].rows, Len(push) + 1)
    BY <1>8, PushWillTo
  <2>4. CASE c = d
    BY <2>1, <2>2, <2>3, <2>4 DEF CleanerTo, Awaited
  <2>5. CASE c # d
    BY <1>2, <2>3, <2>5 DEF CleanerTo
  <2>. QED BY <2>4, <2>5
<1>9. CASE Crash
  BY <1>3, <1>9, CrashTo
<1>. QED BY <1>4, <1>5, <1>6, <1>7, <1>8, <1>9, CleanerSteps DEF SelectWills, DeleteWill

LEMMA RowsInvStep == Types /\ RowsInv /\ [Next]_vars => RowsInv'
<1> SUFFICES ASSUME Types, RowsInv, [Next]_vars, NEW c \in Cleaner
             PROVE  OwnSid(c, cleaner'[c].rows) /\ OneOfKey(cleaner'[c].rows) /\ Awaited(c)'
  BY DEF RowsInv, OwnSid, OneOfKey
<1>1. ASSUME cleaner'[c].rows \subseteq cleaner[c].rows
      PROVE  OwnSid(c, cleaner'[c].rows) /\ OneOfKey(cleaner'[c].rows)
  BY <1>1 DEF RowsInv, OwnSid, OneOfKey
<1>2. ASSUME cleaner'[c].rows = WillRows(c)
      PROVE  OwnSid(c, cleaner'[c].rows) /\ OneOfKey(cleaner'[c].rows)
  BY <1>2, WillRowsInv
<1>. QED BY <1>1, <1>2, RowsStep, AwaitedStep

-----------------------------------------------------------------------------
(* A push may leave a will as long as the cleanup of its session waits for *)
(* it.                                                                     *)
StillComing(i, s) == s \in active \/ (cleaner[s].pc = "waiting" /\ i <= cleaner[s].after)
Heir == \A i \in DOMAIN push : ~Ended(i) /\ Actor(i).will # NoOpt => StillComing(i, Actor(i).sid)

LEMMA HeirEnqueue ==
  ASSUME Types, Heir, NEW e, NEW by, Enqueued(e, by), e.will # NoOpt => e.sid \in active,
         active' = active,
         \A s \in Session : cleaner[s].pc = "waiting" =>
           cleaner'[s].pc = "waiting" /\ cleaner'[s].after = cleaner[s].after
  PROVE  Heir'
<1> SUFFICES ASSUME NEW i \in DOMAIN push', ~Ended(i)', Actor(i)'.will # NoOpt, NEW s, s = Actor(i)'.sid
             PROVE  StillComing(i, s)'
  BY DEF Heir
<1>1. CASE i \notin DOMAIN push
  <2>1. Actor(i)' = e
    BY <1>1 DEF Enqueued, NewRun, Actor
  <2>. QED BY <2>1 DEF StillComing
<1>2. CASE i \in DOMAIN push
  <2>1. Actor(i)' = Actor(i) /\ ~Ended(i) /\ s \in Session
    BY <1>2, QueueView DEF Enqueued, Types, Actor, Ended, Event
  <2>2. StillComing(i, s)
    BY <1>2, <2>1 DEF Heir
  <2>. QED BY <2>1, <2>2 DEF StillComing
<1>. QED BY <1>1, <1>2

LEMMA HeirRun ==
  ASSUME Types, Heir, NEW n \in DOMAIN push, Step(n)
  PROVE  Heir'
<1>1. push' = push /\ active' = active /\ cleaner' = cleaner /\ ~Ended(n)
  BY StepEffect
<1>2. \E a : /\ \A i \in DOMAIN push : i # n => run'[i].pc = run[i].pc /\ run'[i].actor = run[i].actor
             /\ run'[n].actor = a /\ (a = run[n].actor \/ push[a].sid \in active)
  <2>1. CASE Confirm(n) /\ NextWaiting(n)
    <3>1. PICK m : push[m].sid \in active /\ StepRun(n, "read", m, run[n].old, run[n].actor, "accepted")
      BY <2>1, NextRun DEF Types
    <3>. QED BY <3>1, QueueView DEF StepRun, RunTo, Types
  <2>2. CASE ~(Confirm(n) /\ NextWaiting(n))
    <3>1. \E pc, o, h, r : StepRun(n, pc, run[n].actor, o, h, r)
      BY <2>2, StartRun, MetRun, ParkedRun, RefusedRun, DropRun, WriteRun, AddRun, LastRun
         DEF Types, Step, ReadValue, Confirm
    <3>. QED BY <3>1, QueueView DEF StepRun, RunTo, Types
  <2>. QED BY <2>1, <2>2
<1> SUFFICES ASSUME NEW i \in DOMAIN push, ~Ended(i)', push[run'[i].actor].will # NoOpt,
                    NEW s, s = push[run'[i].actor].sid
             PROVE  StillComing(i, s)'
  BY <1>1 DEF Heir, Actor
<1>. QED BY <1>1, <1>2 DEF Heir, StillComing, Actor, Ended

LEMMA HeirStep == Types /\ Cleaners /\ Heir /\ [Next]_vars => Heir'
<1> SUFFICES ASSUME Types, Cleaners, Heir, [Next]_vars PROVE Heir'
  OBVIOUS
<1>1. ASSUME UNCHANGED <<push, run>>,
             \A i \in DOMAIN push, s \in Session : ~Ended(i) /\ StillComing(i, s) => StillComing(i, s)'
      PROVE  Heir'
  <2>1. \A i \in DOMAIN push : Actor(i).sid \in Session
    BY QueueView DEF Types, Event
  <2> SUFFICES ASSUME NEW i \in DOMAIN push, ~Ended(i), Actor(i).will # NoOpt, NEW s, s = Actor(i).sid
               PROVE  StillComing(i, s)'
    BY <1>1 DEF Heir, Actor, Ended
  <2>. QED BY <1>1, <2>1 DEF Heir
<1>2. CASE UNCHANGED vars
  BY <1>1, <1>2 DEF vars, StillComing
<1>3. ASSUME NEW s \in Session, Join(s) PROVE Heir'
  BY <1>1, <1>3 DEF Join, StillComing
<1>4. ASSUME NEW s \in Session, Leave(s) PROVE Heir'
  <2>1. \A i \in DOMAIN push : i <= Len(push)
    BY QueueView DEF Types
  <2>2. CleanerTo(s, "waiting", Len(push), cleaner[s].rows, cleaner[s].push)
    BY <1>4, LeaveTo
  <2>3. active' = active \ {s} /\ UNCHANGED <<push, run>>
    BY <1>4 DEF Leave
  <2>. QED BY <1>1, <2>1, <2>2, <2>3 DEF CleanerTo, StillComing, Cleaner
<1>5. ASSUME NEW s \in Session, NEW r \in Request, Push(s, r) PROVE Heir'
  <2>1. Enqueued(PushEvent(s, r), NoOpt) /\ s \in active /\ active' = active /\ cleaner' = cleaner
    BY <1>5, PushView DEF Push
  <2>. QED BY <2>1, HeirEnqueue DEF PushEvent
<1>6. ASSUME NEW n \in DOMAIN push, Step(n) PROVE Heir'
  BY <1>6, HeirRun
<1>7. ASSUME NEW c \in Cleaner, BeginCleanup(c) PROVE Heir'
  <2>1. \A i \in DOMAIN push : i \in Nat /\ i >= 1
    BY QueueView DEF Types
  <2>2. cleaner[c].after \in Nat
    BY DEF Types, CleanerTypes, Cleaning
  <2>3. \A i \in DOMAIN push : i <= cleaner[c].after => Ended(i)
    BY <1>7, <2>1, <2>2 DEF BeginCleanup, QueueDone
  <2>4. CleanerTo(c, "select", cleaner[c].after, cleaner[c].rows, cleaner[c].push)
    BY <1>7, BeginTo
  <2>5. active' = active /\ UNCHANGED <<push, run>>
    BY <1>7 DEF BeginCleanup
  <2>. QED BY <1>1, <2>3, <2>4, <2>5 DEF CleanerTo, StillComing, Cleaner
<1>8. ASSUME NEW c \in Cleaner, NEW rows, ApplyRows(c, rows), cleaner[c].pc # "waiting",
             UNCHANGED <<active, push, run>>
      PROVE  Heir'
  <2>1. PICK pc : CleanerTo(c, pc, cleaner[c].after, rows, cleaner[c].push)
    BY <1>8, ApplyTo
  <2>. QED BY <1>1, <1>8, <2>1 DEF CleanerTo, StillComing, Cleaner
<1>9. ASSUME NEW c \in Cleaner, PushWill(c) PROVE Heir'
  <2>1. PICK row : Enqueued(WillEvent(row), c)
    BY <1>9, PushWillView
  <2>2. CleanerTo(c, "pushed", cleaner[c].after, cleaner[c].rows, Len(push) + 1)
    BY <1>9, PushWillTo
  <2>3. cleaner[c].pc # "waiting" /\ active' = active
    BY <1>9 DEF PushWill
  <2>4. \A s \in Session : cleaner[s].pc = "waiting" =>
          cleaner'[s].pc = "waiting" /\ cleaner'[s].after = cleaner[s].after
    BY <2>2, <2>3 DEF CleanerTo, Cleaner
  <2>. QED BY <2>1, <2>3, <2>4, HeirEnqueue DEF WillEvent
<1>10. CASE Crash
  BY <1>10, CrashRuns DEF Heir, Ended, Types
<1>. QED BY <1>2, <1>3, <1>4, <1>5, <1>6, <1>7, <1>8, <1>9, <1>10 DEF Next, Clean, SelectWills, DeleteWill

-----------------------------------------------------------------------------
(* Who will still release the will of s of the key k.                      *)
Applies(c) == cleaner[c].pc \in {"apply", "pushed"}
OwnedBy(k, s) ==
  \/ s \in active
  \/ cleaner[s].pc \notin {"none", "done"}
  \/ cleaner[Launch].pc = "select"
  \/ Applies(Launch) /\ (\E row \in cleaner[Launch].rows : row.key = k /\ row.sid = s)
Owned == \A k \in Key : wills[k] # NoWill => OwnedBy(k, wills[k].sid)

(* While a cleanup applies wills, it has all that are left of its session. *)
OwnRows ==
  \A s \in Session, k \in Key :
    Applies(s) /\ wills[k].sid = s => \E row \in cleaner[s].rows : row.key = k

WillInv == Types /\ Known /\ Cleaners /\ RowsInv /\ Heir /\ Owned /\ OwnRows

LEMMA SomeWill ==
  ASSUME Types, NEW k \in Key
  PROVE  wills[k] # NoWill <=> wills[k].sid \in Session
<1>1. wills[k] \in Will \cup {NoWill} /\ NoOpt \notin Session
  BY NoOptAssumption DEF Types, TableTypes
<1>. QED BY <1>1, WillTyped

(* The will that a push leaves is of a session that is not cleaned up yet. *)
LEMMA AddedWill ==
  ASSUME WillInv, NEW n \in DOMAIN push, AddWill(n), wills'[Actor(n).key] # NoWill
  PROVE  /\ wills'[Actor(n).key].sid = Actor(n).sid /\ Actor(n).sid \in Session
         /\ Actor(n).sid \in active \/ cleaner[Actor(n).sid].pc = "waiting"
<1>1. Actor(n) \in Event /\ Actor(n).key \in Key /\ Actor(n).sid \in Session
  BY QueueView DEF WillInv, Types, Event
<1>2. wills'[Actor(n).key] = WillOf(Actor(n))
  BY <1>1 DEF AddWill, WillInv, Types, TableTypes
<1>3. Actor(n).will # NoOpt /\ wills'[Actor(n).key].sid = Actor(n).sid
  BY <1>1, <1>2, WillOfTyped
<1>. QED BY <1>1, <1>3 DEF WillInv, Heir, StillComing, AddWill, Ended

LEMMA OwnedKept ==
  ASSUME WillInv, [Next]_vars, cleaner' = cleaner, active \subseteq active'
  PROVE  Owned' /\ OwnRows'
<1>1. ASSUME NEW k \in Key, wills'[k] # NoWill, NEW s, s = wills'[k].sid PROVE OwnedBy(k, s)'
  <2>1. OwnedBy(k, s)
    <3>1. CASE wills'[k] = wills[k]
      BY <1>1, <3>1 DEF WillInv, Owned
    <3>2. CASE \E n \in DOMAIN push : AddWill(n) /\ k = Actor(n).key
      BY <1>1, <3>2, AddedWill DEF OwnedBy
    <3>. QED BY <1>1, <3>1, <3>2, WillsStep DEF WillInv
  <2>. QED BY <1>1, <2>1 DEF OwnedBy, Applies
<1>2. ASSUME NEW s \in Session, NEW k \in Key, Applies(s), wills'[k].sid = s
      PROVE  \E row \in cleaner[s].rows : row.key = k
  <2>1. wills'[k] # NoWill
    BY <1>2, NoOptAssumption DEF NoWill
  <2>2. CASE wills'[k] = wills[k]
    BY <1>2, <2>2 DEF WillInv, OwnRows
  <2>3. ASSUME NEW n \in DOMAIN push, AddWill(n), k = Actor(n).key PROVE FALSE
    <3>1. s \in active \/ cleaner[s].pc = "waiting"
      BY <1>2, <2>1, <2>3, AddedWill
    <3>. QED BY <1>2, <3>1 DEF Applies, WillInv, Known, Cleaners
  <2>. QED BY <1>2, <2>1, <2>2, <2>3, WillsStep DEF WillInv
<1>. QED BY <1>1, <1>2 DEF Owned, OwnRows, Applies

(* A session that leaves, and one whose cleanup begins. *)
LEMMA OwnedLeave ==
  ASSUME WillInv, NEW s \in Session, NEW pc \in {"waiting", "select"}, NEW after,
         CleanerTo(s, pc, after, cleaner[s].rows, cleaner[s].push),
         active \subseteq active' \cup {s}, wills' = wills
  PROVE  Owned' /\ OwnRows'
<1>1. Launch \in Cleaner /\ Launch \notin Session /\ Session \subseteq Cleaner
  BY LaunchAssumption DEF Cleaner
<1>2. /\ cleaner'[Launch].pc = cleaner[Launch].pc /\ cleaner'[Launch].rows = cleaner[Launch].rows
      /\ cleaner'[s].pc = pc
      /\ \A t \in Session : /\ t # s => cleaner'[t].pc = cleaner[t].pc
                            /\ cleaner'[t].rows = cleaner[t].rows
  BY <1>1 DEF CleanerTo
<1>3. ASSUME NEW k \in Key, wills[k] # NoWill, NEW t, t = wills[k].sid PROVE OwnedBy(k, t)'
  <2>1. OwnedBy(k, t) /\ t \in Session
    BY <1>3, SomeWill DEF WillInv, Owned
  <2>. QED BY <1>2, <2>1 DEF OwnedBy, Applies
<1>4. OwnRows'
  BY <1>2 DEF WillInv, OwnRows, Applies
<1>. QED BY <1>3, <1>4 DEF Owned

LEMMA OwnedSelect ==
  ASSUME WillInv, NEW c \in Cleaner, SelectWills(c)
  PROVE  Owned' /\ OwnRows'
<1>1. Launch \in Cleaner /\ Launch \notin Session /\ Session \subseteq Cleaner
  BY LaunchAssumption DEF Cleaner
<1>2. PICK rows : rows = WillRows(c)
  OBVIOUS
<1>3. CleanerTo(c, IF rows = {} THEN "done" ELSE "apply", cleaner[c].after, rows, cleaner[c].push)
  BY <1>2, ApplyTo DEF SelectWills, WillInv
<1>4. active' = active /\ wills' = wills
  BY DEF SelectWills
<1>5. \A k \in Key : IsStale(wills[k], c) => \E row \in rows : row.key = k /\ row.sid = wills[k].sid
  BY <1>2, WillRowsInv DEF WillInv
<1>6. ASSUME NEW k \in Key, wills[k] # NoWill, NEW t, t = wills[k].sid PROVE OwnedBy(k, t)'
  <2>1. OwnedBy(k, t) /\ t \in Session
    BY <1>6, SomeWill DEF WillInv, Owned
  <2>2. CASE c = Launch \/ c = t
    <3>1. PICK row \in rows : row.key = k /\ row.sid = t
      BY <1>5, <1>6, <2>2 DEF IsStale
    <3>2. cleaner'[c].pc = "apply" /\ cleaner'[c].rows = rows
      BY <1>3, <3>1 DEF CleanerTo
    <3>. QED BY <2>2, <3>1, <3>2 DEF OwnedBy, Applies
  <2>3. CASE c # Launch /\ c # t
    <3>1. /\ cleaner'[Launch].pc = cleaner[Launch].pc /\ cleaner'[Launch].rows = cleaner[Launch].rows
          /\ cleaner'[t].pc = cleaner[t].pc
      BY <1>1, <1>3, <2>1, <2>3 DEF CleanerTo
    <3>. QED BY <1>4, <2>1, <3>1 DEF OwnedBy, Applies
  <2>. QED BY <2>2, <2>3
<1>7. ASSUME NEW s \in Session, NEW k \in Key, Applies(s)', wills[k].sid = s
      PROVE  \E row \in cleaner'[s].rows : row.key = k
  <2>1. wills[k] # NoWill
    BY <1>7, SomeWill DEF WillInv
  <2>2. CASE c = s
    BY <1>1, <1>3, <1>5, <1>7, <2>1, <2>2 DEF CleanerTo, IsStale
  <2>3. CASE c # s
    <3>1. cleaner'[s].pc = cleaner[s].pc /\ cleaner'[s].rows = cleaner[s].rows
      BY <1>1, <1>3, <2>3 DEF CleanerTo
    <3>. QED BY <1>7, <3>1 DEF WillInv, OwnRows, Applies
  <2>. QED BY <2>2, <2>3
<1>. QED BY <1>4, <1>6, <1>7 DEF Owned, OwnRows

LEMMA OwnedPush ==
  ASSUME WillInv, NEW c \in Cleaner, PushWill(c)
  PROVE  Owned' /\ OwnRows'
<1>1. Launch \in Cleaner /\ Launch \notin Session /\ Session \subseteq Cleaner
  BY LaunchAssumption DEF Cleaner
<1>2. CleanerTo(c, "pushed", cleaner[c].after, cleaner[c].rows, Len(push) + 1)
  BY PushWillTo DEF WillInv
<1>3. active' = active /\ wills' = wills /\ cleaner[c].pc = "apply"
  BY DEF PushWill
<1>4. \A d \in Cleaner : /\ cleaner'[d].rows = cleaner[d].rows /\ Applies(d)' = Applies(d)
                         /\ (cleaner[d].pc = "select") => (cleaner'[d].pc = "select")
                         /\ cleaner[d].pc \notin {"none", "done"} => cleaner'[d].pc \notin {"none", "done"}
  BY <1>2, <1>3 DEF CleanerTo, Applies
<1>5. ASSUME NEW k \in Key, wills[k] # NoWill, NEW t, t = wills[k].sid PROVE OwnedBy(k, t)'
  <2>1. OwnedBy(k, t) /\ t \in Session
    BY <1>5, SomeWill DEF WillInv, Owned
  <2>. QED BY <1>1, <1>3, <1>4, <2>1 DEF OwnedBy
<1>6. OwnRows'
  BY <1>1, <1>3, <1>4 DEF WillInv, OwnRows
<1>. QED BY <1>3, <1>5, <1>6 DEF Owned

(* The will of the push that is awaited is deleted, unless another push    *)
(* has left a will of the key meanwhile.                                   *)
LEMMA OwnedDelete ==
  ASSUME WillInv, NEW c \in Cleaner, DeleteWill(c)
  PROVE  Owned' /\ OwnRows'
<1>1. Launch \in Cleaner /\ Launch \notin Session /\ Session \subseteq Cleaner
  BY LaunchAssumption DEF Cleaner
<1>2. PICK e : e = push[cleaner[c].push]
  OBVIOUS
<1>3. PICK rows : rows = {row \in cleaner[c].rows : row.key # e.key}
  OBVIOUS
<1>4. CleanerTo(c, IF rows = {} THEN "done" ELSE "apply", cleaner[c].after, rows, cleaner[c].push)
  BY <1>2, <1>3, ApplyTo DEF DeleteWill, WillInv
<1>5. active' = active /\ cleaner[c].pc = "pushed"
  BY DEF DeleteWill
<1>6. e \in Event /\ e.key \in Key
  BY <1>2, DeleteView DEF WillInv, Event
<1>7. \A k \in Key : wills'[k] # NoWill => wills'[k] = wills[k] /\ (k = e.key => wills[k].sid # e.sid)
  BY <1>2, <1>6 DEF DeleteWill, OwnWill, WillInv, Types, TableTypes
<1>8. PICK sent \in cleaner[c].rows : sent.key = e.key /\ sent.sid = e.sid
  BY <1>2, <1>5 DEF WillInv, RowsInv, Awaited
<1>9. \A row \in cleaner[c].rows : row.key = e.key => row.sid = e.sid
  BY <1>8 DEF WillInv, RowsInv, OneOfKey
<1>10. ASSUME NEW k \in Key, wills'[k] # NoWill, NEW t, t = wills'[k].sid PROVE OwnedBy(k, t)'
  <2>1. OwnedBy(k, t) /\ t \in Session /\ wills[k].sid = t
    BY <1>7, <1>10, SomeWill DEF WillInv, Owned
  <2>2. ASSUME NEW row \in cleaner[c].rows, row.key = k, row.sid = t
        PROVE  cleaner'[c].pc = "apply" /\ cleaner'[c].rows = rows /\ row \in rows
    <3>1. row \in rows
      BY <1>3, <1>7, <1>9, <1>10, <2>2
    <3>. QED BY <1>4, <3>1 DEF CleanerTo
  <2>3. CASE c = t
    <3>1. PICK row \in cleaner[c].rows : row.key = k
      BY <1>5, <2>1, <2>3 DEF WillInv, OwnRows, Applies
    <3>2. row.sid = t
      BY <1>1, <2>1, <2>3, <3>1 DEF WillInv, RowsInv, OwnSid
    <3>. QED BY <2>2, <2>3, <3>1, <3>2 DEF OwnedBy
  <2>4. CASE c = Launch
    <3>1. cleaner'[t].pc = cleaner[t].pc
      BY <1>1, <1>4, <2>1, <2>4 DEF CleanerTo
    <3>2. CASE \E row \in cleaner[Launch].rows : row.key = k /\ row.sid = t
      BY <2>2, <2>4, <3>2 DEF OwnedBy, Applies
    <3>3. CASE t \in active \/ cleaner[t].pc \notin {"none", "done"}
      BY <1>5, <3>1, <3>3 DEF OwnedBy
    <3>. QED BY <1>5, <2>1, <2>4, <3>2, <3>3 DEF OwnedBy
  <2>5. CASE c # Launch /\ c # t
    <3>1. /\ cleaner'[Launch].pc = cleaner[Launch].pc /\ cleaner'[Launch].rows = cleaner[Launch].rows
          /\ cleaner'[t].pc = cleaner[t].pc
      BY <1>1, <1>4, <2>1, <2>5 DEF CleanerTo
    <3>. QED BY <1>5, <2>1, <3>1 DEF OwnedBy, Applies
  <2>. QED BY <2>3, <2>4, <2>5
<1>11. ASSUME NEW s \in Session, NEW k \in Key, Applies(s)', wills'[k].sid = s
       PROVE  \E row \in cleaner'[s].rows : row.key = k
  <2>1. wills'[k] # NoWill /\ wills[k].sid = s
    <3>1. wills'[k] # NoWill
      BY <1>11, NoOptAssumption DEF NoWill
    <3>. QED BY <1>7, <1>11, <3>1
  <2>2. CASE c = s
    <3>1. PICK row \in cleaner[c].rows : row.key = k
      BY <1>5, <2>1, <2>2 DEF WillInv, OwnRows, Applies
    <3>2. row.sid = s
      BY <1>1, <2>2, <3>1 DEF WillInv, RowsInv, OwnSid
    <3>3. row \in rows
      BY <1>3, <1>7, <1>9, <2>1, <3>1, <3>2
    <3>. QED BY <1>4, <2>2, <3>1, <3>3 DEF CleanerTo
  <2>3. CASE c # s
    <3>1. cleaner'[s].pc = cleaner[s].pc /\ cleaner'[s].rows = cleaner[s].rows
      BY <1>1, <1>4, <2>3 DEF CleanerTo
    <3>. QED BY <1>11, <2>1, <3>1 DEF WillInv, OwnRows, Applies
  <2>. QED BY <2>2, <2>3
<1>. QED BY <1>10, <1>11 DEF Owned, OwnRows

LEMMA OwnedStep == WillInv /\ [Next]_vars => Owned' /\ OwnRows'
<1> SUFFICES ASSUME WillInv, [Next]_vars PROVE Owned' /\ OwnRows'
  OBVIOUS
<1>1. CASE UNCHANGED <<active, cleaner>>
  BY <1>1, OwnedKept
<1>2. ASSUME NEW s \in Session, Join(s) PROVE Owned' /\ OwnRows'
  BY <1>2, OwnedKept DEF Join
<1>3. ASSUME NEW s \in Session, Leave(s) PROVE Owned' /\ OwnRows'
  <2>1. CleanerTo(s, "waiting", Len(push), cleaner[s].rows, cleaner[s].push)
    BY <1>3, LeaveTo DEF WillInv
  <2>2. active' = active \ {s} /\ wills' = wills
    BY <1>3 DEF Leave
  <2>. QED BY <2>1, <2>2, OwnedLeave
<1>4. ASSUME NEW c \in Cleaner, BeginCleanup(c) PROVE Owned' /\ OwnRows'
  <2>1. CleanerTo(c, "select", cleaner[c].after, cleaner[c].rows, cleaner[c].push)
    BY <1>4, BeginTo DEF WillInv
  <2>2. c \in Session
    BY <1>4 DEF BeginCleanup, WillInv, Cleaners, Cleaner
  <2>3. active' = active /\ wills' = wills
    BY <1>4 DEF BeginCleanup
  <2>. QED BY <2>1, <2>2, <2>3, OwnedLeave
<1>5. ASSUME NEW c \in Cleaner, SelectWills(c) PROVE Owned' /\ OwnRows'
  BY <1>5, OwnedSelect
<1>6. ASSUME NEW c \in Cleaner, PushWill(c) PROVE Owned' /\ OwnRows'
  BY <1>6, OwnedPush
<1>7. ASSUME NEW c \in Cleaner, DeleteWill(c) PROVE Owned' /\ OwnRows'
  BY <1>7, OwnedDelete
<1>8. CASE Crash
  <2>1. cleaner'[Launch].pc = "select"
    BY <1>8, CrashTo DEF Cleaner
  <2>2. \A s \in Session : ~Applies(s)'
    BY <1>8, CrashTo, LaunchAssumption DEF Cleaner, Applies
  <2>3. Owned'
    BY <2>1 DEF Owned, OwnedBy
  <2>. QED BY <2>2, <2>3 DEF OwnRows
<1>. QED BY <1>1, <1>2, <1>3, <1>4, <1>5, <1>6, <1>7, <1>8 DEF Next, Step, StartPush, ReadValue, DropWill,
            WriteValue, AddWill, Confirm, Clean, Push, vars

LEMMA WillInit == Init => WillInv
<1> SUFFICES ASSUME Init PROVE WillInv
  OBVIOUS
<1>1. /\ Launch \in Cleaner /\ Launch \notin Session /\ push = <<>>
      /\ \A c \in Cleaner : /\ cleaner[c].pc = IF c = Launch THEN "select" ELSE "none"
                            /\ cleaner[c].rows = {}
  BY LaunchAssumption DEF Init, NotCleaning, Cleaner
<1>2. \A k \in Key : wills[k] = NoWill
  BY DEF Init
<1>3. Cleaners /\ RowsInv /\ Heir
  BY <1>1 DEF Cleaners, Cleaner, RowsInv, OwnSid, OneOfKey, Awaited, Heir
<1>4. Owned /\ OwnRows
  BY <1>1, <1>2 DEF Owned, OwnRows, Applies, Cleaner
<1>. QED BY <1>3, <1>4, TypesInit, KnownInit DEF WillInv

LEMMA WillStep == WillInv /\ [Next]_vars => WillInv'
<1>1. WillInv => Types /\ Known /\ Cleaners /\ RowsInv /\ Heir
  BY DEF WillInv
<1>. QED BY <1>1, TypesStep, KnownStep, CleanersStep, RowsInvStep, HeirStep, OwnedStep DEF WillInv

(* No will is forgotten: a row of session_kv belongs to a session that is  *)
(* there or whose end is being cleaned up, or the realm is being launched, *)
(* also when the process crashed between any two of its statements, and    *)
(* when sessions join while the realm is launched.                         *)
THEOREM NoStaleWillCorrect == Spec => []NoStaleWill
<1>1. WillInv => NoStaleWill
  BY DEF WillInv, Owned, OwnedBy, Applies, NoStaleWill, Pending
<1>. QED BY <1>1, WillInit, WillStep, PTL DEF Spec

-----------------------------------------------------------------------------
(* When sessions join only once the realm is launched, what is applied is  *)
(* always the will of a session that is gone.                              *)
LaunchAlone == cleaner[Launch].pc # "done" => active = {}
WillsOfGone == \A i \in DOMAIN push : run[i].by # NoOpt => push[i].sid \in gone
LeaveInv == WillInv /\ LaunchAlone /\ WillsOfGone

(* A realm is launched once. *)
LEMMA LaunchedOnce ==
  ASSUME Types, [Next]_vars, ~Crash, cleaner[Launch].pc = "done"
  PROVE  cleaner'[Launch].pc = "done"
<1>1. Launch \in Cleaner /\ Launch \notin Session
  BY LaunchAssumption DEF Cleaner
<1>2. ASSUME NEW s \in Session, Leave(s) PROVE cleaner'[Launch].pc = "done"
  BY <1>1, <1>2, LeaveTo DEF CleanerTo
<1>3. ASSUME NEW c \in Cleaner, BeginCleanup(c) PROVE cleaner'[Launch].pc = "done"
  BY <1>1, <1>3, BeginTo DEF CleanerTo, BeginCleanup
<1>4. ASSUME NEW c \in Cleaner, SelectWills(c) PROVE cleaner'[Launch].pc = "done"
  BY <1>1, <1>4, ApplyTo DEF CleanerTo, SelectWills
<1>5. ASSUME NEW c \in Cleaner, PushWill(c) PROVE cleaner'[Launch].pc = "done"
  BY <1>1, <1>5, PushWillTo DEF CleanerTo, PushWill
<1>6. ASSUME NEW c \in Cleaner, DeleteWill(c) PROVE cleaner'[Launch].pc = "done"
  <2>1. PICK rows : ApplyRows(c, rows) /\ cleaner[c].pc = "pushed"
    BY <1>6 DEF DeleteWill
  <2>. QED BY <1>1, <2>1, ApplyTo DEF CleanerTo
<1>. QED BY <1>2, <1>3, <1>4, <1>5, <1>6, CleanerSteps

LEMMA AloneStep == ~JoinWhileLaunching /\ WillInv /\ LaunchAlone /\ [Next]_vars => LaunchAlone'
<1> SUFFICES ASSUME ~JoinWhileLaunching, WillInv, LaunchAlone, [Next]_vars PROVE LaunchAlone'
  OBVIOUS
<1>1. CASE Crash
  BY <1>1 DEF Crash, LaunchAlone
<1>2. ASSUME NEW s \in Session, Join(s) PROVE LaunchAlone'
  BY <1>2 DEF Join, LaunchAlone
<1>3. CASE active' \subseteq active /\ ~Crash
  BY <1>3, LaunchedOnce DEF LaunchAlone, WillInv
<1>. QED BY <1>1, <1>2, <1>3 DEF Next, Leave, Push, Step, StartPush, ReadValue, DropWill, WriteValue, AddWill,
            Confirm, Clean, BeginCleanup, SelectWills, PushWill, DeleteWill, vars

LEMMA GoneStep == LeaveInv /\ [Next]_vars => WillsOfGone'
<1> SUFFICES ASSUME LeaveInv, [Next]_vars PROVE WillsOfGone'
  OBVIOUS
<1>1. gone \subseteq gone'
  BY GoneGrows
<1>2. DOMAIN run = DOMAIN push
  BY QueueView DEF LeaveInv, WillInv, Types
<1>3. CASE UNCHANGED <<push, run>>
  BY <1>1, <1>3 DEF LeaveInv, WillsOfGone
<1>4. ASSUME NEW s \in Session, NEW r \in Request, Push(s, r) PROVE WillsOfGone'
  <2>1. Enqueued(PushEvent(s, r), NoOpt)
    BY <1>4, PushView DEF LeaveInv, WillInv
  <2>. QED BY <1>1, <2>1 DEF Enqueued, NewRun, LeaveInv, WillsOfGone
<1>5. ASSUME NEW n \in DOMAIN push, Step(n) PROVE WillsOfGone'
  <2>1. push' = push /\ \A i \in DOMAIN push : run'[i].by = run[i].by
    BY <1>2, <1>5, StepEffect DEF StepRun, RunTo, LeaveInv, WillInv
  <2>. QED BY <1>1, <2>1 DEF LeaveInv, WillsOfGone
<1>6. ASSUME NEW c \in Cleaner, PushWill(c) PROVE WillsOfGone'
  <2>1. PICK row \in cleaner[c].rows : Enqueued(WillEvent(row), c)
    BY <1>6, PushWillView DEF LeaveInv, WillInv
  <2>2. cleaner[c].pc = "apply"
    BY <1>6 DEF PushWill
  <2>3. row.sid \in gone
    <3>1. CASE c = Launch
      BY <2>1, <2>2, <3>1 DEF LeaveInv, LaunchAlone, WillInv, Known, RowSeen, Seen
    <3>2. CASE c # Launch
      <4>1. c \in Session /\ row.sid = c
        BY <2>1, <3>2 DEF Cleaner, LeaveInv, WillInv, RowsInv, OwnSid
      <4>. QED BY <2>2, <4>1 DEF LeaveInv, WillInv, Cleaners
    <3>. QED BY <3>1, <3>2
  <2>. QED BY <1>1, <2>1, <2>3 DEF Enqueued, NewRun, WillEvent, LeaveInv, WillsOfGone
<1>7. CASE Crash
  BY <1>1, <1>2, <1>7, CrashRuns DEF LeaveInv, WillInv, Types, WillsOfGone
<1>. QED BY <1>3, <1>4, <1>5, <1>6, <1>7 DEF Next, Clean, Join, Leave, BeginCleanup, SelectWills, DeleteWill, vars

LEMMA LeaveInit == Init => LeaveInv
<1>1. Init => LaunchAlone /\ WillsOfGone
  BY DEF Init, LaunchAlone, WillsOfGone
<1>. QED BY <1>1, WillInit DEF LeaveInv

LEMMA LeaveStep == ~JoinWhileLaunching /\ LeaveInv /\ [Next]_vars => LeaveInv'
  BY WillStep, AloneStep, GoneStep DEF LeaveInv

(* A will is not applied while its session is there, if no session joins   *)
(* the realm while it is launched.                                         *)
THEOREM WillAfterLeaveCorrect ==
  ASSUME ~JoinWhileLaunching
  PROVE  Spec => []WillAfterLeave
<1>1. LeaveInv => WillAfterLeave
  <2> SUFFICES ASSUME LeaveInv PROVE WillAfterLeave
    OBVIOUS
  <2>1. DOMAIN run = DOMAIN push
    BY QueueView DEF LeaveInv, WillInv, Types
  <2>. QED BY <2>1 DEF LeaveInv, WillInv, Known, WillsOfGone, WillAfterLeave
<1>2. LeaveInv /\ [Next]_vars => LeaveInv'
  BY LeaveStep
<1>. QED BY <1>1, <1>2, LeaveInit, PTL DEF Spec

-----------------------------------------------------------------------------
(* While the process lives, the realm is launched with empty tables, and   *)
(* each will that is pushed is of a session that has left.                 *)
LaunchFirst ==
  cleaner[Launch].pc # "done" =>
    /\ cleaner[Launch].pc = "select" /\ gone = {} /\ push = <<>>
    /\ \A k \in Key : wills[k] = NoWill

(* The push of a will has no options.                                      *)
Plain ==
  \A i \in DOMAIN push :
    run[i].by # NoOpt => push[i].when = NoOpt /\ push[i].will = NoOpt /\ ~push[i].watch

LEMMA NoCrash ==
  ASSUME MaxCrash = 0, Types
  PROVE  ~Crash
  BY DEF Crash, Types, CrashTypes

LEMMA LaunchFirstStep == MaxCrash = 0 /\ LeaveInv /\ LaunchFirst /\ [Next]_vars => LaunchFirst'
<1> SUFFICES ASSUME MaxCrash = 0, LeaveInv, LaunchFirst, [Next]_vars PROVE LaunchFirst'
  OBVIOUS
<1>. CASE cleaner[Launch].pc = "done"
  BY LaunchedOnce, NoCrash DEF LaunchFirst, LeaveInv, WillInv
<1>. SUFFICES ASSUME cleaner[Launch].pc # "done" PROVE LaunchFirst'
  OBVIOUS
<1>1. Launch \in Cleaner /\ Launch \notin Session /\ Session \subseteq Cleaner
  BY LaunchAssumption DEF Cleaner
<1>2. /\ cleaner[Launch].pc = "select" /\ active = {} /\ gone = {} /\ push = <<>>
      /\ \A k \in Key : wills[k] = NoWill
      /\ \A s \in Session : cleaner[s].pc = "none"
  BY DEF LaunchFirst, LeaveInv, LaunchAlone, WillInv, Cleaners
<1>3. ~Crash
  BY DEF Crash, LeaveInv, WillInv, Types, CrashTypes
<1>4. CASE UNCHANGED <<gone, push, wills, cleaner>>
  BY <1>2, <1>4 DEF LaunchFirst
<1>5. ASSUME NEW c \in Cleaner, SelectWills(c) PROVE LaunchFirst'
  <2>1. c = Launch
    BY <1>2, <1>5 DEF SelectWills, Cleaner
  <2>2. WillRows(c) = {}
    BY <1>2 DEF WillRows, IsStale
  <2>. QED BY <1>1, <1>5, <2>1, <2>2, ApplyTo DEF SelectWills, CleanerTo, LaunchFirst, LeaveInv, WillInv
<1>6. UNCHANGED <<gone, push, wills, cleaner>> \/ \E c \in Cleaner : SelectWills(c)
  <2>1. \A n \in DOMAIN push : ~Step(n)
    BY <1>2
  <2>2. \A s \in Session : ~Leave(s) /\ \A r \in Request : ~Push(s, r)
    BY <1>2 DEF Leave, Push
  <2>3. \A c \in Cleaner : ~BeginCleanup(c) /\ ~PushWill(c) /\ ~DeleteWill(c)
    BY <1>2 DEF BeginCleanup, PushWill, DeleteWill, Cleaner
  <2>. QED BY <1>3, <2>1, <2>2, <2>3 DEF Next, Clean, Join, vars
<1>. QED BY <1>4, <1>5, <1>6

LEMMA PlainStep == Types /\ Plain /\ [Next]_vars => Plain'
<1> SUFFICES ASSUME Types, Plain, [Next]_vars PROVE Plain'
  OBVIOUS
<1>1. DOMAIN run = DOMAIN push
  BY QueueView DEF Types
<1>2. CASE UNCHANGED <<push, run>>
  BY <1>2 DEF Plain
<1>3. ASSUME NEW s \in Session, NEW r \in Request, Push(s, r) PROVE Plain'
  <2>1. Enqueued(PushEvent(s, r), NoOpt)
    BY <1>3, PushView
  <2>. QED BY <2>1 DEF Enqueued, NewRun, Plain
<1>4. ASSUME NEW n \in DOMAIN push, Step(n) PROVE Plain'
  <2>1. push' = push /\ \A i \in DOMAIN push : run'[i].by = run[i].by
    BY <1>1, <1>4, StepEffect DEF StepRun, RunTo
  <2>. QED BY <2>1 DEF Plain
<1>5. ASSUME NEW c \in Cleaner, PushWill(c) PROVE Plain'
  <2>1. PICK row : Enqueued(WillEvent(row), c)
    BY <1>5, PushWillView
  <2>. QED BY <2>1 DEF Enqueued, NewRun, WillEvent, Plain
<1>6. CASE Crash
  BY <1>6, CrashRuns DEF Types, Plain
<1>. QED BY <1>2, <1>3, <1>4, <1>5, <1>6 DEF Next, Clean, Join, Leave, BeginCleanup, SelectWills, DeleteWill, vars

(* The will of a session that a cleanup has pushed is away once the push   *)
(* has dropped it, and the value once it is written over: no later push    *)
(* leaves any of that session.                                             *)
Before(p, pcs) == run[p].actor = p /\ run[p].pc \in pcs
ReleasedBy(s, p) ==
  /\ run[p].by = s
  /\ wills[push[p].key].sid = s => Before(p, {"queued", "read", "unwill"})
  /\ kv[push[p].key].sid = s => Before(p, {"queued", "read", "unwill", "write"})
Released == \A s \in Session : cleaner[s].pc = "pushed" => ReleasedBy(s, cleaner[s].push)

(* Of a session whose wills are applied, nothing is written. *)
LEMMA NothingWritten ==
  ASSUME WillInv, NEW n \in DOMAIN push, Step(n), NEW s \in Session, Applies(s), NEW k \in Key
  PROVE  /\ wills'[k].sid = s => wills'[k] = wills[k] /\ ~(DropWill(n) /\ k = Actor(n).key)
         /\ kv'[k].sid = s => kv'[k] = kv[k] /\ ~(WriteValue(n) /\ k = Actor(n).key)
<1>1. Actor(n) \in Event /\ Actor(n).key \in Key /\ Actor(n).data \in Data /\ run[n].old \in Data
  BY QueueView DEF WillInv, Types, Event, Run
<1>2. s \notin active /\ cleaner[s].pc # "waiting" /\ s # NoOpt /\ NoWill.sid = NoOpt
  BY NoOptAssumption DEF Applies, WillInv, Known, Cleaners, NoWill
<1>3. Actor(n).sid = s /\ ~Ended(n) => Actor(n).will = NoOpt
  BY <1>2 DEF WillInv, Heir, StillComing
<1>4. WillOf(Actor(n)).sid # s
  BY <1>1, <1>2, <1>3, WillOfTyped, StepEffect DEF WillInv
<1>5. CASE wills' = wills /\ kv' = kv /\ ~DropWill(n) /\ ~WriteValue(n)
  BY <1>5
<1>6. CASE DropWill(n)
  BY <1>1, <1>2, <1>6 DEF DropWill, WriteValue, WillInv, Types, TableTypes
<1>7. CASE WriteValue(n)
  <2>1. Merge(run[n].old, Actor(n).data) \in Data
    BY <1>1, MergeTyped
  <2>2. RowOf(Actor(n), Merge(run[n].old, Actor(n).data)).sid # s
    BY <1>1, <1>2, <1>4, <2>1, RowOfTyped
  <2>. QED BY <1>1, <1>7, <2>2 DEF DropWill, WriteValue, WillInv, Types, TableTypes
<1>8. CASE AddWill(n)
  BY <1>1, <1>4, <1>8 DEF DropWill, WriteValue, AddWill, WillInv, Types, TableTypes
<1>9. CASE StartPush(n) \/ ReadValue(n) \/ Confirm(n)
  BY <1>5, <1>9 DEF StartPush, ReadValue, Confirm, DropWill, WriteValue
<1>. QED BY <1>6, <1>7, <1>8, <1>9 DEF Step

LEMMA ReleasedRun ==
  ASSUME LeaveInv, Plain, NEW n \in DOMAIN push, Step(n), NEW s \in Session, NEW p \in DOMAIN push,
         Applies(s), ReleasedBy(s, p)
  PROVE  ReleasedBy(s, p)'
<1>1. push[p].key \in Key /\ push' = push /\ s # NoOpt /\ DOMAIN run = DOMAIN push
  BY StepEffect, QueueView, NoOptAssumption DEF LeaveInv, WillInv, Types, Event
<1>2. run'[p].by = s
  BY <1>1, StepEffect DEF StepRun, RunTo, ReleasedBy, LeaveInv, WillInv
<1>3. push[p].when = NoOpt /\ push[p].will = NoOpt
  BY <1>1 DEF Plain, ReleasedBy
<1>4. CASE n # p
  <2>1. run'[p].pc = run[p].pc /\ run'[p].actor = run[p].actor
    BY <1>1, <1>4, StepEffect DEF StepRun, RunTo, LeaveInv, WillInv
  <2>. QED BY <1>1, <1>2, <2>1, NothingWritten DEF ReleasedBy, Before, LeaveInv
<1>5. CASE n = p
  <2>1. CASE run[p].actor = p /\ run[p].pc \in {"queued", "read", "unwill", "write"}
    <3>1. Actor(p) = push[p]
      BY <2>1 DEF Actor
    <3>2. CASE StartPush(n)
      <4>1. run'[p].pc = "read" /\ run'[p].actor = p
        BY <1>1, <1>5, <2>1, <3>2, StartRun DEF StepRun, RunTo, LeaveInv, WillInv, Types
      <4>. QED BY <1>1, <1>2, <4>1 DEF ReleasedBy, Before
    <3>3. CASE ReadValue(n)
      <4>1. ConditionMet(n)
        BY <1>3, <1>5, <3>1, <3>3 DEF ReadValue, Parked, NotAccepted, Allowed
      <4>2. run'[p].pc = "unwill" /\ run'[p].actor = p
        BY <1>1, <1>5, <2>1, <3>3, <4>1, MetRun DEF StepRun, RunTo, LeaveInv, WillInv, Types
      <4>. QED BY <1>1, <1>2, <4>2 DEF ReleasedBy, Before
    <3>4. CASE DropWill(n)
      <4>1. run'[p].pc = "write" /\ run'[p].actor = p
        BY <1>1, <1>5, <2>1, <3>4, DropRun DEF StepRun, RunTo, LeaveInv, WillInv, Types
      <4>2. wills'[push[p].key].sid # s
        BY <1>1, <1>5, <3>1, <3>4, NothingWritten DEF LeaveInv
      <4>. QED BY <1>1, <1>2, <4>1, <4>2 DEF ReleasedBy, Before
    <3>5. CASE WriteValue(n)
      <4>1. kv'[push[p].key].sid # s
        BY <1>1, <1>5, <3>1, <3>5, NothingWritten DEF LeaveInv
      <4>2. wills' = wills /\ run[p].pc = "write"
        BY <1>5, <3>5 DEF WriteValue
      <4>. QED BY <1>1, <1>2, <4>1, <4>2 DEF ReleasedBy, Before
    <3>. QED BY <1>4, <1>5, <2>1, <3>2, <3>3, <3>4, <3>5 DEF Step, AddWill, Confirm
  <2>2. CASE ~(run[p].actor = p /\ run[p].pc \in {"queued", "read", "unwill", "write"})
    <3>1. wills[push[p].key].sid # s /\ kv[push[p].key].sid # s
      BY <2>2 DEF ReleasedBy, Before
    <3>. QED BY <1>1, <1>2, <3>1, NothingWritten DEF ReleasedBy, LeaveInv
  <2>. QED BY <2>1, <2>2
<1>. QED BY <1>4, <1>5

LEMMA ReleasedStep ==
  ASSUME MaxCrash = 0, LeaveInv, LaunchFirst, Plain, Released, [Next]_vars
  PROVE  Released'
<1>1. Launch \in Cleaner /\ Launch \notin Session /\ Session \subseteq Cleaner
  BY LaunchAssumption DEF Cleaner
<1>2. \A s \in Session : cleaner[s].pc = "pushed" => cleaner[s].push \in DOMAIN push /\ s # NoOpt
  BY <1>1, NoOptAssumption DEF LeaveInv, WillInv, Types, CleanerTypes
<1>3. DOMAIN run = DOMAIN push /\ \A i \in DOMAIN push : push[i].key \in Key
  BY QueueView DEF LeaveInv, WillInv, Types, Event
<1>4. CASE UNCHANGED <<push, run, kv, wills, cleaner>>
  BY <1>4 DEF Released, ReleasedBy, Before
<1>5. ASSUME NEW c \in Cleaner, NEW pc, NEW after, NEW rows, NEW p, CleanerTo(c, pc, after, rows, p),
             pc # "pushed", UNCHANGED <<push, run, kv>>,
             \A k \in Key, s \in Session : wills'[k].sid = s => wills[k].sid = s
      PROVE  Released'
  <2> SUFFICES ASSUME NEW s \in Session, cleaner'[s].pc = "pushed", NEW q, q = cleaner'[s].push
               PROVE  ReleasedBy(s, q)'
    BY DEF Released
  <2>1. cleaner[s].pc = "pushed" /\ cleaner[s].push = q
    BY <1>1, <1>5 DEF CleanerTo
  <2>2. ReleasedBy(s, q) /\ q \in DOMAIN push
    BY <1>2, <2>1 DEF Released
  <2>. QED BY <1>3, <1>5, <2>2 DEF ReleasedBy, Before
<1>6. ASSUME NEW s \in Session, Leave(s) PROVE Released'
  <2>1. CleanerTo(s, "waiting", Len(push), cleaner[s].rows, cleaner[s].push) /\ s \in Cleaner
    BY <1>6, LeaveTo DEF LeaveInv, WillInv
  <2>. QED BY <1>5, <1>6, <2>1 DEF Leave
<1>7. ASSUME NEW c \in Cleaner, BeginCleanup(c) PROVE Released'
  <2>1. CleanerTo(c, "select", cleaner[c].after, cleaner[c].rows, cleaner[c].push)
    BY <1>7, BeginTo DEF LeaveInv, WillInv
  <2>. QED BY <1>5, <1>7, <2>1 DEF BeginCleanup
<1>8. ASSUME NEW c \in Cleaner, SelectWills(c) \/ DeleteWill(c) PROVE Released'
  <2>1. PICK rows : ApplyRows(c, rows)
    BY <1>8 DEF SelectWills, DeleteWill
  <2>2. PICK pc : pc = IF rows = {} THEN "done" ELSE "apply"
    OBVIOUS
  <2>3. CleanerTo(c, pc, cleaner[c].after, rows, cleaner[c].push) /\ pc # "pushed"
    BY <2>1, <2>2, ApplyTo DEF LeaveInv, WillInv
  <2>4. UNCHANGED <<push, run, kv>>
    BY <1>8 DEF SelectWills, DeleteWill
  <2>5. \A k \in Key, s \in Session : wills'[k].sid = s => wills[k].sid = s
    <3>1. CASE wills' = wills
      BY <3>1
    <3>2. CASE DeleteWill(c)
      <4>1. NoWill.sid \notin Session
        BY NoOptAssumption DEF NoWill
      <4>. QED BY <3>2, <4>1 DEF DeleteWill, LeaveInv, WillInv, Types, TableTypes
    <3>. QED BY <1>8, <3>1, <3>2 DEF SelectWills
  <2>. QED BY <1>5, <2>3, <2>4, <2>5
<1>9. ASSUME NEW e, NEW by, Enqueued(e, by), UNCHANGED <<kv, wills>>, NEW s \in Session, NEW p \in DOMAIN push,
             ReleasedBy(s, p)
      PROVE  ReleasedBy(s, p)'
  BY <1>9 DEF Enqueued, ReleasedBy, Before
<1>10. ASSUME NEW s \in Session, NEW r \in Request, Push(s, r) PROVE Released'
  <2>1. Enqueued(PushEvent(s, r), NoOpt) /\ UNCHANGED <<kv, wills, cleaner>>
    BY <1>10, PushView DEF Push, LeaveInv, WillInv
  <2>. QED BY <1>2, <1>9, <2>1 DEF Released
<1>11. ASSUME NEW c \in Cleaner, PushWill(c) PROVE Released'
  <2>1. PICK row : Enqueued(WillEvent(row), c)
    BY <1>11, PushWillView DEF LeaveInv, WillInv
  <2>2. CleanerTo(c, "pushed", cleaner[c].after, cleaner[c].rows, Len(push) + 1) /\ UNCHANGED <<kv, wills>>
    BY <1>11, PushWillTo DEF PushWill, LeaveInv, WillInv
  <2> SUFFICES ASSUME NEW s \in Session, cleaner'[s].pc = "pushed", NEW q, q = cleaner'[s].push
               PROVE  ReleasedBy(s, q)'
    BY DEF Released
  <2>3. CASE s = c
    <3>1. q = Len(push) + 1
      BY <1>1, <2>2, <2>3 DEF CleanerTo
    <3>. QED BY <2>1, <2>3, <3>1 DEF Enqueued, NewRun, ReleasedBy, Before
  <2>4. CASE s # c
    <3>1. cleaner[s].pc = "pushed" /\ cleaner[s].push = q
      BY <1>1, <2>2, <2>4 DEF CleanerTo
    <3>. QED BY <1>2, <1>9, <2>1, <2>2, <3>1 DEF Released
  <2>. QED BY <2>3, <2>4
<1>12. ASSUME NEW n \in DOMAIN push, Step(n) PROVE Released'
  <2>1. cleaner' = cleaner
    BY <1>12, StepEffect DEF LeaveInv, WillInv
  <2>. QED BY <1>2, <1>12, <2>1, ReleasedRun DEF Released, Applies
<1>13. ~Crash
  BY NoCrash DEF LeaveInv, WillInv
<1>. QED BY <1>4, <1>6, <1>7, <1>8, <1>10, <1>11, <1>12, <1>13 DEF Next, Clean, Join, vars

(* When the will that was pushed is deleted, there is none left.           *)
LEMMA DeleteNothing ==
  ASSUME LeaveInv, LaunchFirst, Released, NEW c \in Cleaner, DeleteWill(c)
  PROVE  wills' = wills
<1>1. c \in Session
  BY DEF DeleteWill, LaunchFirst, Cleaner
<1>2. PICK p : p = cleaner[c].push
  OBVIOUS
<1>3. ReleasedBy(c, p) /\ Ended(p) /\ p \in DOMAIN push
  BY <1>1, <1>2, DeleteView DEF DeleteWill, Released, LeaveInv, WillInv
<1>4. push[p].key \in Key /\ wills[push[p].key].sid # c
  BY <1>3, QueueView DEF ReleasedBy, Before, Ended, LeaveInv, WillInv, Types, Event
<1>5. PICK row \in cleaner[c].rows : row.sid = push[p].sid
  BY <1>2 DEF DeleteWill, LeaveInv, WillInv, RowsInv, Awaited
<1>6. push[p].sid = c
  BY <1>1, <1>5, LaunchAssumption DEF LeaveInv, WillInv, RowsInv, OwnSid
<1>. QED BY <1>2, <1>4, <1>6 DEF DeleteWill, OwnWill, LeaveInv, WillInv, Types, TableTypes

-----------------------------------------------------------------------------
(* A push has dropped the will of its key before it writes, and then its   *)
(* own takes the place.                                                    *)
Dropped ==
  \A i \in DOMAIN push :
    /\ run[i].pc \in {"write", "will"} => wills[Actor(i).key] = NoWill
    /\ run[i].pc = "will" => /\ Actor(i).will # NoOpt
                             /\ kv[Actor(i).key].sid \in {NoOpt, Actor(i).sid}

(* Each value that a session holds has its will, or it is being written.   *)
Writing(i, k) ==
  Actor(i).key = k /\ (run[i].pc = "write" \/ (run[i].pc = "will" /\ Actor(i).sid = kv[k].sid))
Backed ==
  \A k \in Key :
    kv[k].sid # NoOpt => wills[k].sid = kv[k].sid \/ \E i \in DOMAIN push : Writing(i, k)

HeldInv == LeaveInv /\ Serial /\ LaunchFirst /\ Plain /\ Released /\ Dropped /\ Backed

LEMMA DroppedQuiet ==
  ASSUME HeldInv, UNCHANGED <<kv, wills>>, UNCHANGED <<push, run>> \/ \E e, by : Enqueued(e, by)
  PROVE  Dropped' /\ Backed'
<1>1. \A i \in DOMAIN push : i \in DOMAIN push' /\ run'[i] = run[i] /\ Actor(i)' = Actor(i)
  BY QueueView DEF HeldInv, LeaveInv, WillInv, Types, Enqueued, Actor
<1>2. ASSUME NEW i \in DOMAIN push', i \notin DOMAIN push PROVE run'[i].pc = "queued"
  <2>1. CASE UNCHANGED <<push, run>>
    BY <1>2, <2>1
  <2>2. CASE \E e, by : Enqueued(e, by)
    BY <1>2, <2>2 DEF Enqueued, NewRun
  <2>. QED BY <2>1, <2>2
<1>3. Dropped'
  BY <1>1, <1>2 DEF HeldInv, Dropped
<1>4. Backed'
  BY <1>1 DEF HeldInv, Backed, Writing
<1>. QED BY <1>3, <1>4

(* A push whose run begins or goes on is the only one. *)
LEMMA StepsAlone ==
  ASSUME Types, Serial, NEW n \in DOMAIN push, Step(n), NEW i \in DOMAIN push, i # n
  PROVE  ~Running(i)
<1>1. CASE StartPush(n)
  BY <1>1, StartsAlone
<1>2. CASE ~StartPush(n)
  <2>1. Running(n)
    BY <1>2, StepEffect DEF Running, Ended
  <2>. QED BY <2>1, OneRuns
<1>. QED BY <1>1, <1>2

LEMMA DroppedRun ==
  ASSUME HeldInv, NEW n \in DOMAIN push, Step(n)
  PROVE  Dropped'
<1>1. push' = push
  BY StepEffect DEF HeldInv, LeaveInv, WillInv
<1>2. \A i \in DOMAIN push : i # n => run'[i].pc = run[i].pc
  BY StepEffect, QueueView DEF StepRun, RunTo, HeldInv, LeaveInv, WillInv, Types
<1>3. \A i \in DOMAIN push : i # n => run'[i].pc \notin {"write", "will"}
  BY <1>2, StepsAlone DEF Running, HeldInv, LeaveInv, WillInv
<1>4. /\ Actor(n) \in Event /\ Actor(n).key \in Key /\ Actor(n).data \in Data /\ run[n].old \in Data
      /\ n \in DOMAIN run
  BY QueueView DEF HeldInv, LeaveInv, WillInv, Types, Event, Run
<1>5. Types
  BY DEF HeldInv, LeaveInv, WillInv
<1>6. ASSUME run'[n].pc \notin {"write", "will"} PROVE Dropped'
  BY <1>1, <1>3, <1>6 DEF Dropped
<1>7. ASSUME run'[n].actor = run[n].actor, run'[n].pc \in {"write", "will"},
             wills'[Actor(n).key] = NoWill,
             run'[n].pc = "will" => Actor(n).will # NoOpt /\ kv'[Actor(n).key].sid \in {NoOpt, Actor(n).sid}
      PROVE  Dropped'
  <2>1. Actor(n)' = Actor(n)
    BY <1>1, <1>7 DEF Actor
  <2>. QED BY <1>1, <1>3, <1>7, <2>1 DEF Dropped
<1>8. CASE StartPush(n)
  BY <1>4, <1>5, <1>6, <1>8, StartRun DEF StepRun, RunTo, Types
<1>9. CASE ReadValue(n)
  BY <1>4, <1>5, <1>6, <1>9, MetRun, ParkedRun, RefusedRun DEF StepRun, RunTo, Types, ReadValue
<1>10. CASE DropWill(n)
  <2>1. run'[n].pc = "write" /\ run'[n].actor = run[n].actor
    BY <1>4, <1>5, <1>10, DropRun DEF StepRun, RunTo, Types
  <2>2. wills'[Actor(n).key] = NoWill
    BY <1>4, <1>5, <1>10 DEF DropWill, Types, TableTypes
  <2>. QED BY <1>7, <2>1, <2>2
<1>11. CASE WriteValue(n)
  <2>1. run'[n].pc = AfterWrite(Actor(n)) /\ run'[n].actor = run[n].actor
    BY <1>4, <1>5, <1>11, WriteRun DEF StepRun, RunTo, Types
  <2>2. wills'[Actor(n).key] = NoWill
    BY <1>11 DEF WriteValue, HeldInv, Dropped
  <2>3. kv'[Actor(n).key].sid \in {NoOpt, WillOf(Actor(n)).sid}
    BY <1>4, <1>5, <1>11, MergeTyped, RowOfTyped DEF WriteValue, Types, TableTypes
  <2>4. kv'[Actor(n).key].sid \in {NoOpt, Actor(n).sid}
    BY <1>4, <2>3, WillOfTyped
  <2>5. CASE Actor(n).will = NoOpt
    BY <1>6, <2>1, <2>5 DEF AfterWrite
  <2>6. CASE Actor(n).will # NoOpt
    BY <1>7, <2>1, <2>2, <2>4, <2>6 DEF AfterWrite
  <2>. QED BY <2>5, <2>6
<1>12. CASE AddWill(n)
  BY <1>4, <1>5, <1>6, <1>12, AddRun DEF StepRun, RunTo, Types
<1>13. CASE Confirm(n)
  BY <1>4, <1>5, <1>6, <1>13, NextRun, LastRun DEF StepRun, RunTo, Types, Confirm
<1>. QED BY <1>8, <1>9, <1>10, <1>11, <1>12, <1>13 DEF Step

LEMMA BackedRun ==
  ASSUME HeldInv, NEW n \in DOMAIN push, Step(n)
  PROVE  Backed'
<1> SUFFICES ASSUME NEW k \in Key, kv'[k].sid # NoOpt
             PROVE  wills'[k].sid = kv'[k].sid \/ \E i \in DOMAIN push' : Writing(i, k)'
  BY DEF Backed
<1>1. push' = push
  BY StepEffect DEF HeldInv, LeaveInv, WillInv
<1>2. \A i \in DOMAIN push : i # n => run[i].pc \notin {"write", "will"}
  BY StepsAlone DEF Running, HeldInv, LeaveInv, WillInv
<1>3. /\ Actor(n) \in Event /\ Actor(n).key \in Key /\ Actor(n).data \in Data /\ run[n].old \in Data
      /\ n \in DOMAIN run
  BY QueueView DEF HeldInv, LeaveInv, WillInv, Types, Event, Run
<1>4. Types
  BY DEF HeldInv, LeaveInv, WillInv
<1>5. kv[k].sid # NoOpt => wills[k].sid = kv[k].sid \/ Writing(n, k)
  BY <1>2 DEF HeldInv, Backed, Writing
<1>6. CASE StartPush(n) \/ ReadValue(n) \/ Confirm(n)
  BY <1>5, <1>6 DEF StartPush, ReadValue, Confirm, Writing
<1>7. CASE k # Actor(n).key
  <2>1. kv'[k] = kv[k] /\ wills'[k] = wills[k]
    BY <1>3, <1>4, <1>7 DEF Step, StartPush, ReadValue, DropWill, WriteValue, AddWill, Confirm, Types, TableTypes
  <2>. QED BY <1>5, <1>7, <2>1 DEF Writing
<1>8. CASE DropWill(n) /\ k = Actor(n).key
  <2>1. run'[n].pc = "write" /\ run'[n].actor = run[n].actor
    BY <1>3, <1>4, <1>8, DropRun DEF StepRun, RunTo, Types
  <2>2. Actor(n)' = Actor(n)
    BY <1>1, <2>1 DEF Actor
  <2>. QED BY <1>1, <1>8, <2>1, <2>2 DEF Writing
<1>9. CASE WriteValue(n) /\ k = Actor(n).key
  <2>1. run'[n].pc = AfterWrite(Actor(n)) /\ run'[n].actor = run[n].actor
    BY <1>3, <1>4, <1>9, WriteRun DEF StepRun, RunTo, Types
  <2>2. kv'[k].sid \in {NoOpt, WillOf(Actor(n)).sid}
    BY <1>3, <1>4, <1>9, MergeTyped, RowOfTyped DEF WriteValue, Types, TableTypes
  <2>3. Actor(n).will # NoOpt /\ kv'[k].sid = Actor(n).sid
    BY <1>3, <2>2, WillOfTyped
  <2>4. run'[n].pc = "will" /\ Actor(n)' = Actor(n)
    BY <1>1, <2>1, <2>3 DEF AfterWrite, Actor
  <2>. QED BY <1>1, <1>9, <2>3, <2>4 DEF Writing
<1>10. CASE AddWill(n) /\ k = Actor(n).key
  <2>1. Actor(n).will # NoOpt /\ kv[k].sid \in {NoOpt, Actor(n).sid} /\ kv' = kv
    BY <1>10 DEF AddWill, HeldInv, Dropped
  <2>2. wills'[k] = WillOf(Actor(n))
    BY <1>3, <1>4, <1>10 DEF AddWill, Types, TableTypes
  <2>. QED BY <1>3, <2>1, <2>2, WillOfTyped
<1>. QED BY <1>6, <1>7, <1>8, <1>9, <1>10 DEF Step

LEMMA HeldStep == MaxCrash = 0 /\ HeldInv /\ [Next]_vars => Dropped' /\ Backed'
<1> SUFFICES ASSUME MaxCrash = 0, HeldInv, [Next]_vars PROVE Dropped' /\ Backed'
  OBVIOUS
<1>1. CASE UNCHANGED <<push, run, kv, wills>>
  BY <1>1, DroppedQuiet
<1>2. ASSUME NEW s \in Session, NEW r \in Request, Push(s, r) PROVE Dropped' /\ Backed'
  <2>1. Enqueued(PushEvent(s, r), NoOpt)
    BY <1>2, PushView DEF HeldInv, LeaveInv, WillInv
  <2>. QED BY <1>2, <2>1, DroppedQuiet DEF Push
<1>3. ASSUME NEW n \in DOMAIN push, Step(n) PROVE Dropped' /\ Backed'
  BY <1>3, DroppedRun, BackedRun
<1>4. ASSUME NEW c \in Cleaner, PushWill(c) PROVE Dropped' /\ Backed'
  <2>1. PICK row : Enqueued(WillEvent(row), c)
    BY <1>4, PushWillView DEF HeldInv, LeaveInv, WillInv
  <2>. QED BY <1>4, <2>1, DroppedQuiet DEF PushWill
<1>5. ASSUME NEW c \in Cleaner, DeleteWill(c) PROVE Dropped' /\ Backed'
  <2>1. wills' = wills
    BY <1>5, DeleteNothing DEF HeldInv
  <2>. QED BY <1>1, <1>5, <2>1 DEF DeleteWill
<1>6. ~Crash
  BY NoCrash DEF HeldInv, LeaveInv, WillInv
<1>. QED BY <1>1, <1>2, <1>3, <1>4, <1>5, <1>6 DEF Next, Clean, Join, Leave, BeginCleanup, SelectWills, vars

LEMMA HeldInit == Init => HeldInv
<1> SUFFICES ASSUME Init PROVE HeldInv
  OBVIOUS
<1>1. push = <<>> /\ gone = {} /\ \A k \in Key : wills[k] = NoWill /\ kv[k].sid = NoOpt
  BY DEF Init, NoRow
<1>2. cleaner[Launch].pc = "select" /\ \A s \in Session : cleaner[s].pc = "none"
  BY LaunchAssumption DEF Init, NotCleaning, Cleaner
<1>3. LaunchFirst /\ Plain /\ Released /\ Dropped /\ Backed
  BY <1>1, <1>2 DEF LaunchFirst, Plain, Released, Dropped, Backed
<1>. QED BY <1>3, LeaveInit, SerialInit DEF HeldInv

LEMMA HeldInvStep == ~JoinWhileLaunching /\ MaxCrash = 0 /\ HeldInv /\ [Next]_vars => HeldInv'
<1>1. HeldInv => Types /\ LeaveInv /\ Serial /\ LaunchFirst /\ Plain /\ Released
  BY DEF HeldInv, LeaveInv, WillInv
<1>. QED BY <1>1, LeaveStep, SerialStep, LaunchFirstStep, PlainStep, ReleasedStep, HeldStep DEF HeldInv

(* A value that was written with a will does not outlive its session while *)
(* the process lives: the lock is released, also when the last push of its *)
(* holder was still in the queue as it left.                               *)
THEOREM HeldByLiveCorrect ==
  ASSUME ~JoinWhileLaunching, MaxCrash = 0
  PROVE  Spec => []HeldByLive
<1>1. HeldInv => HeldByLive
  <2> SUFFICES ASSUME HeldInv, NEW k \in Key, kv[k].sid # NoOpt PROVE Pending(kv[k].sid) \/ BeingPushed(k)
    BY DEF HeldByLive
  <2>1. CASE wills[k].sid = kv[k].sid
    <3>1. wills[k] # NoWill
      BY <2>1 DEF NoWill
    <3>. QED BY <2>1, <3>1 DEF HeldInv, LeaveInv, WillInv, Owned, OwnedBy, Applies, Pending
  <2>2. ASSUME NEW i \in DOMAIN push, Writing(i, k) PROVE BeingPushed(k)
    BY <2>2, QueueView DEF Writing, BeingPushed, Running, HeldInv, LeaveInv, WillInv, Types
  <2>. QED BY <2>1, <2>2 DEF HeldInv, Backed
<1>2. HeldInv /\ [Next]_vars => HeldInv'
  BY HeldInvStep
<1>. QED BY <1>1, <1>2, HeldInit, PTL DEF Spec

=============================================================================
