------------------------------ MODULE SqliteKv ------------------------------
(***************************************************************************)
(* The key-value store of a realm on SQLite: DbEngine.doPush               *)
(* (lib/sqlite/dbengine.ts) with SqliteKvFabric (lib/sqlite/sqlitekv.ts).  *)
(* Each statement sent to the database is an action, for anything may      *)
(* happen while it is awaited.                                             *)
(*                                                                         *)
(* Pushes of a realm run one after the other (pushQueue), so no two sets   *)
(* of a key meet in KPQueue, and a list of resWhen is in the order of      *)
(* arrival: here it is the set of its events, the lowest being the first.  *)
(* Histories of events and the subscribers are left out.                   *)
(***************************************************************************)
EXTENDS KvEvents, Naturals, Sequences, FiniteSets

CONSTANTS
  Request,           \* events that clients push, without their sid
  Launch,            \* the process of launchEngine
  JoinWhileLaunching,\* may a session ask for the realm while it is launched?
  MaxPush,           \* bound: events pushed by clients
  MaxCrash           \* bound: crashes

ASSUME RequestAssumption ==
  Request \subseteq [key : Key, data : Data, when : Data \cup {NoOpt}, watch : BOOLEAN,
                     will : Data \cup {NoOpt}]
ASSUME LaunchAssumption == Launch \notin Session \cup {NoOpt}
ASSUME BoundAssumption ==
  JoinWhileLaunching \in BOOLEAN /\ MaxPush \in Nat /\ MaxCrash \in Nat

VARIABLES
  active,   \* sessions in the realm
  gone,     \* sessions that left, or that a crash ended
  kv,       \* table kv
  wills,    \* table session_kv
  parked,   \* resWhen: events that wait for their condition
  push,     \* the events, in the order in which doPush was called
  run,      \* what became of each
  cleaner,  \* eraseSessionData of each session, processStaleRecords of Launch
  crashes   \* how many there were

vars == <<active, gone, kv, wills, parked, push, run, cleaner, crashes>>

Cleaner == Session \cup {Launch}
NoRow == [data |-> Null, sid |-> NoOpt]
Row == [data : Document, sid : Session \cup {NoOpt}]
WillRow == [key : Key, data : Data, sid : Session]
Run == [pc : {"queued", "read", "unwill", "write", "will", "confirm", "ended"},
        actor : Nat,   \* the event it applies: its own, or a parked one
        old : Data,    \* oldData
        reply : {"none", "accepted", "refused"},
        by : Cleaner \cup {NoOpt}]
Cleaning == [pc : {"none", "waiting", "select", "apply", "pushed", "done"},
             after : Nat,               \* the pushes that it waits for
             rows : SUBSET WillRow,     \* toApply
             push : Nat]                \* the push that it awaits
NotCleaning == [pc |-> "none", after |-> 0, rows |-> {}, push |-> 0]

Ended(i) == run[i].pc = "ended"
Running(i) == run[i].pc \notin {"queued", "ended"}
Actor(i) == push[run[i].actor]

Init ==
  /\ active = {} /\ gone = {}
  /\ kv = [k \in Key |-> NoRow]
  /\ wills = [k \in Key |-> NoWill]
  /\ parked = {}
  /\ push = <<>> /\ run = <<>>
  /\ cleaner = [c \in Cleaner |-> IF c = Launch THEN [NotCleaning EXCEPT !.pc = "select"]
                                  ELSE NotCleaning]
  /\ crashes = 0

-----------------------------------------------------------------------------
(* Router.getRealm: the realm is found from the moment it is being created *)
(* in, before launchEngine is done.                                        *)
Join(s) ==
  /\ s \notin active \cup gone
  /\ JoinWhileLaunching \/ cleaner[Launch].pc = "done"
  /\ active' = active \cup {s}
  /\ UNCHANGED <<gone, kv, wills, parked, push, run, cleaner, crashes>>

(* doPush puts an event into the queue. *)
Enqueue(e, by) ==
  /\ push' = Append(push, e)
  /\ run' = Append(run, [pc |-> "queued", actor |-> Len(push) + 1, old |-> Null,
                         reply |-> "none", by |-> by])

Push(s, r) ==
  /\ s \in active
  /\ Cardinality({i \in DOMAIN push : run[i].by = NoOpt}) < MaxPush
  /\ Enqueue([key |-> r.key, data |-> r.data, when |-> r.when, watch |-> r.watch,
              will |-> r.will, sid |-> s], NoOpt)
  /\ UNCHANGED <<active, gone, kv, wills, parked, cleaner, crashes>>

(* cleanupSession waits for the queue as it is now. *)
Leave(s) ==
  /\ s \in active
  /\ active' = active \ {s}
  /\ gone' = gone \cup {s}
  /\ cleaner' = [cleaner EXCEPT ![s] = [@ EXCEPT !.pc = "waiting", !.after = Len(push)]]
  /\ UNCHANGED <<kv, wills, parked, push, run, crashes>>

-----------------------------------------------------------------------------
(* The run of a push: setKeyValueLocked. *)

(* The pushes before it ended, and cleanups that waited for them began:    *)
(* they awaited the queue earlier than this push did.                      *)
AnyTurn(i) == TRUE
Turn(i) ==
  /\ \A j \in DOMAIN push : j < i => Ended(j)
  /\ \A c \in Cleaner : cleaner[c].pc = "waiting" => cleaner[c].after >= i

StartPush(i) ==
  /\ run[i].pc = "queued"
  /\ Turn(i)
  /\ run' = [run EXCEPT ![i].pc = "read"]
  /\ UNCHANGED <<active, gone, kv, wills, parked, push, cleaner, crashes>>

ConditionMet(i) ==
  /\ Allowed(Actor(i), kv[Actor(i).key].data)
  /\ run' = [run EXCEPT ![i].pc = "unwill", ![i].old = kv[Actor(i).key].data]
  /\ UNCHANGED parked

HoldQueue(i) ==
  /\ ~Allowed(Actor(i), kv[Actor(i).key].data)
  /\ Actor(i).watch
  /\ parked' = parked \cup {run[i].actor}
  /\ UNCHANGED run

Parked(i) ==
  /\ ~Allowed(Actor(i), kv[Actor(i).key].data)
  /\ Actor(i).watch
  /\ run' = [run EXCEPT ![i].pc = "ended"]
  /\ parked' = parked \cup {run[i].actor}

NotAccepted(i) ==
  /\ ~Allowed(Actor(i), kv[Actor(i).key].data)
  /\ ~Actor(i).watch
  /\ run' = [run EXCEPT ![run[i].actor].reply = "refused", ![i].pc = "ended"]
  /\ UNCHANGED parked

ReadValue(i) ==
  /\ run[i].pc = "read"
  /\ ConditionMet(i) \/ Parked(i) \/ NotAccepted(i)
  /\ UNCHANGED <<active, gone, kv, wills, push, cleaner, crashes>>

DropWill(i) ==
  /\ run[i].pc = "unwill"
  /\ wills' = [wills EXCEPT ![Actor(i).key] = NoWill]
  /\ run' = [run EXCEPT ![i].pc = "write"]
  /\ UNCHANGED <<active, gone, kv, parked, push, cleaner, crashes>>

(* Empty data delete the row. *)
RowAlways(e, data) == [data |-> data, sid |-> WillOf(e).sid]
RowOf(e, data) == IF data = Null THEN NoRow ELSE [data |-> data, sid |-> WillOf(e).sid]

WriteValue(i) ==
  /\ run[i].pc = "write"
  /\ kv' = [kv EXCEPT ![Actor(i).key] = RowOf(Actor(i), Merge(run[i].old, Actor(i).data))]
  /\ run' = [run EXCEPT ![i].pc = IF Actor(i).will = NoOpt THEN "confirm" ELSE "will"]
  /\ UNCHANGED <<active, gone, wills, parked, push, cleaner, crashes>>

AddWill(i) ==
  /\ run[i].pc = "will"
  /\ wills' = [wills EXCEPT ![Actor(i).key] = WillOf(Actor(i))]
  /\ run' = [run EXCEPT ![i].pc = "confirm"]
  /\ UNCHANGED <<active, gone, kv, parked, push, cleaner, crashes>>

(* findNextWhenActor: the first event that fits and whose session is there. *)
(* Events of other sessions that it meets on its way are dropped.           *)
Waiting(k) == {j \in parked : push[j].key = k}
FittingRow(k) ==
  {j \in Waiting(k) : /\ push[j].sid \in active
                      /\ kv[k] # NoRow /\ Fit(push[j].when, kv[k].data)}
Fitting(k) == {j \in Waiting(k) : push[j].sid \in active /\ Fit(push[j].when, kv[k].data)}
FirstOf(S) == {j \in S : \A h \in S : j <= h}

NextWaiting(i) ==
  LET k == Actor(i).key
  IN \E n \in FirstOf(Fitting(k)) :
       /\ parked' = parked \ ({n} \cup {j \in Waiting(k) : j < n /\ push[j].sid \notin active})
       /\ run' = [run EXCEPT ![run[i].actor].reply = "accepted", ![i].pc = "read", ![i].actor = n]

NoneWaiting(i) ==
  LET k == Actor(i).key
  IN /\ Fitting(k) = {}
     /\ parked' = parked \ {j \in Waiting(k) : push[j].sid \notin active}
     /\ run' = [run EXCEPT ![run[i].actor].reply = "accepted", ![i].pc = "ended"]

(* The event is confirmed, and an event that waits for the new value is    *)
(* applied by the same run.  The calls of setKeyValueLocked that are       *)
(* nested in each other then look again, and find nothing that this one    *)
(* did not find.                                                           *)
Confirm(i) ==
  /\ run[i].pc = "confirm"
  /\ NextWaiting(i) \/ NoneWaiting(i)
  /\ UNCHANGED <<active, gone, kv, wills, push, cleaner, crashes>>

Step(i) ==
  \/ StartPush(i) \/ ReadValue(i) \/ DropWill(i) \/ WriteValue(i) \/ AddWill(i) \/ Confirm(i)

-----------------------------------------------------------------------------
(* The end of a session: eraseSessionData; the start of the realm:         *)
(* processStaleRecords.                                                    *)

AtOnce(s) == TRUE
QueueDone(s) == \A j \in 1 .. cleaner[s].after : Ended(j)

BeginCleanup(s) ==
  /\ cleaner[s].pc = "waiting"
  /\ QueueDone(s)
  /\ parked' = {j \in parked : push[j].sid \in active}
  /\ cleaner' = [cleaner EXCEPT ![s].pc = "select"]
  /\ UNCHANGED <<active, gone, kv, wills, push, run, crashes>>

IsAny(w, c) == w # NoWill
IsOwn(w, c) == w # NoWill /\ w.sid = c
IsStale(w, c) == w # NoWill /\ (c = Launch \/ w.sid = c)
WillRows(c) ==
  {[key |-> k, data |-> wills[k].data, sid |-> wills[k].sid] : k \in {k \in Key : IsStale(wills[k], c)}}

ApplyRows(c, rows) ==
  cleaner' = [cleaner EXCEPT ![c] = [@ EXCEPT !.pc = IF rows = {} THEN "done" ELSE "apply",
                                              !.rows = rows]]

SelectWills(c) ==
  /\ cleaner[c].pc = "select"
  /\ ApplyRows(c, WillRows(c))
  /\ UNCHANGED <<active, gone, kv, wills, parked, push, run, crashes>>

(* runInboundEvent; the push of a will has no options of the client. *)
PushWill(c) ==
  /\ cleaner[c].pc = "apply"
  /\ \E row \in cleaner[c].rows :
       Enqueue([key |-> row.key, data |-> row.data, when |-> NoOpt, watch |-> FALSE,
                will |-> NoOpt, sid |-> row.sid], c)
  /\ cleaner' = [cleaner EXCEPT ![c] = [@ EXCEPT !.pc = "pushed", !.push = Len(push) + 1]]
  /\ UNCHANGED <<active, gone, kv, wills, parked, crashes>>

AnyWill(w, e) == TRUE
OwnWill(w, e) == w.sid = e.sid

DeleteWill(c) ==
  /\ cleaner[c].pc = "pushed"
  /\ Ended(cleaner[c].push)
  /\ LET e == push[cleaner[c].push]
     IN /\ wills' = [wills EXCEPT ![e.key] = IF OwnWill(@, e) THEN NoWill ELSE @]
        /\ ApplyRows(c, {row \in cleaner[c].rows : row.key # e.key})
  /\ UNCHANGED <<active, gone, kv, parked, push, run, crashes>>

Clean(c) == BeginCleanup(c) \/ SelectWills(c) \/ PushWill(c) \/ DeleteWill(c)

(* The process ends and is started again: only the tables are left. *)
Crash ==
  /\ crashes < MaxCrash
  /\ crashes' = crashes + 1
  /\ active' = {}
  /\ gone' = gone \cup active
  /\ parked' = {}
  /\ run' = [i \in DOMAIN run |-> [run[i] EXCEPT !.pc = "ended"]]
  /\ cleaner' = [c \in Cleaner |-> IF c = Launch THEN [NotCleaning EXCEPT !.pc = "select"]
                                   ELSE NotCleaning]
  /\ UNCHANGED <<kv, wills, push>>

Next ==
  \/ \E s \in Session : Join(s) \/ Leave(s) \/ \E r \in Request : Push(s, r)
  \/ \E i \in DOMAIN push : Step(i)
  \/ \E c \in Cleaner : Clean(c)
  \/ Crash

Spec == Init /\ [][Next]_vars

(* The database answers, and promises that are resolved are continued. *)
Fairness ==
  /\ WF_vars(\E i \in DOMAIN push : Step(i))
  /\ \A c \in Cleaner : WF_vars(Clean(c))

FairSpec == Spec /\ Fairness

-----------------------------------------------------------------------------
(* Every variable has its type; in particular no row of kv is empty.       *)
TypeOK ==
  /\ active \subseteq Session /\ gone \subseteq Session
  /\ kv \in [Key -> Row \cup {NoRow}]
  /\ wills \in [Key -> Will \cup {NoWill}]
  /\ parked \subseteq DOMAIN push
  /\ push \in Seq(Event)
  /\ run \in Seq(Run)
  /\ Len(run) = Len(push)
  /\ \A i \in DOMAIN run : run[i].actor \in DOMAIN push
  /\ cleaner \in [Cleaner -> Cleaning]
  /\ crashes \in 0 .. MaxCrash

(* The value that a push was checked against is still stored when it       *)
(* writes, though it awaits the database in between (setKeyValueLocked).   *)
OldIsCurrent ==
  \A i \in DOMAIN run :
    run[i].pc \in {"unwill", "write"} => kv[Actor(i).key].data = run[i].old

BeingPushed(k) == \E i \in DOMAIN run : Running(i) /\ Actor(i).key = k

(* No wake-up is missed: an event that waits for its condition (watch)     *)
(* does not fit the stored value, unless a push of that key is under way.  *)
NoMissedWakeup ==
  \A j \in parked :
    push[j].sid \in active /\ Fit(push[j].when, kv[push[j].key].data) => BeingPushed(push[j].key)

(* Someone will still release what a session holds: the session is there,  *)
(* or its end is being cleaned up, or the realm is being launched.         *)
Pending(s) ==
  \/ s \in active
  \/ cleaner[s].pc \notin {"none", "done"}
  \/ cleaner[Launch].pc # "done"

(* A value that was written with a will does not outlive its session: the  *)
(* lock of README.md is released, also when its holder's last push was     *)
(* still in the queue as it left.                                          *)
HeldByLive == \A k \in Key : kv[k].sid # NoOpt => Pending(kv[k].sid) \/ BeingPushed(k)

(* No will is forgotten: rows of session_kv belong to sessions that are    *)
(* there, are being cleaned up, or to a launch that is not done.           *)
NoStaleWill == \A k \in Key : wills[k] # NoWill => Pending(wills[k].sid)

(* A will is not applied while its session is there.                       *)
WillAfterLeave ==
  \A i \in DOMAIN run : run[i].by # NoOpt /\ ~Ended(i) => push[i].sid \notin active

(* README.md, of the option will: "If the value is changed by any process  *)
(* the will value is cleaned": what is applied is a will that is stored.   *)
WillIsStored ==
  \A i \in DOMAIN run :
    run[i].by # NoOpt /\ run[i].pc = "read" /\ run[i].actor = i =>
      wills[push[i].key] = [data |-> push[i].data, sid |-> push[i].sid]

(* The end of every session is cleaned up: pushes that wait for a          *)
(* condition, or for the cleanup itself, never hold the queue.             *)
CleanupEnds == \A s \in Session : s \in gone ~> cleaner[s].pc = "done"

-----------------------------------------------------------------------------
(* The statements of a push take effect with the first of them, DELETE     *)
(* FROM session_kv: until the others are done, the store is seen as if     *)
(* they were.                                                              *)
Underway(k, pcs) == {i \in DOMAIN run : run[i].pc \in pcs /\ Actor(i).key = k}

SeenValue(k) ==
  IF Underway(k, {"write"}) = {}
  THEN kv[k].data
  ELSE LET i == CHOOSE i \in Underway(k, {"write"}) : TRUE
       IN Merge(run[i].old, Actor(i).data)

SeenWill(k) ==
  IF Underway(k, {"write", "will"}) = {}
  THEN wills[k]
  ELSE LET i == CHOOSE i \in Underway(k, {"write", "will"}) : TRUE
       IN WillOf(Actor(i))

SeenOutcome(j) ==
  CASE run[j].reply # "none" -> run[j].reply
    [] \E i \in DOMAIN run : run[i].actor = j /\ run[i].pc \in {"write", "will", "confirm"} -> "applied"
    [] OTHER -> "open"

Store == INSTANCE KeyStore WITH
  value <- [k \in Key |-> SeenValue(k)],
  will <- [k \in Key |-> SeenWill(k)],
  asked <- push,
  outcome <- [j \in DOMAIN push |-> SeenOutcome(j)]

(* While the process lives, pushes behave as if each were one step: it is  *)
(* applied once, when the stored value fits its condition, its will takes  *)
(* the place of the one before it, and it is accepted after that; and      *)
(* nothing else, in particular no cleanup, changes a value or a will.      *)
Atomic == Store!Spec
=============================================================================
