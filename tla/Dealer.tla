------------------------------- MODULE Dealer -------------------------------
(***************************************************************************)
(* The RPC dealer of one realm (lib/realm.ts, lib/session.ts).  A session  *)
(* registers procedures (ActorReg), another one calls them (ActorCall).    *)
(* BaseEngine hands a call to a registration that still has a free slot,   *)
(* or parks it in qCall until one of the procedure's registrations reports *)
(* a result.  An invocation that was sent and not yet finally answered is  *)
(* a deferred entry of qYield.                                             *)
(*                                                                         *)
(* Node runs every handler to completion, so one handler is one action.    *)
(* Procedure names are compared for equality only.  randomId() gives call  *)
(* and registration ids that were never used before, and a session id is   *)
(* never used again once its session has left.                             *)
(***************************************************************************)
EXTENDS Integers, Sequences, FiniteSets

CONSTANTS
  Session,        \* sessions of the realm, callers and callees alike
  Procedure,      \* procedure uris
  Call,           \* ids of ActorCall (mkDeferId)
  Registration,   \* ids of ActorReg (subId)
  TaskLimit,      \* values of the option simultaneousTaskLimit; < 0 is no limit
  MaxEmit,        \* bound: progress results sent through one registration
  None            \* no session, no procedure, no registration

ASSUME SessionAssumption == None \notin Session
ASSUME RegistrationAssumption == None \notin Registration
ASSUME ProcedureAssumption == None \notin Procedure
ASSUME CallAssumption == IsFiniteSet(Call)
ASSUME TaskLimitAssumption == TaskLimit \subseteq Int
ASSUME MaxEmitAssumption == MaxEmit \in Nat

VARIABLES
  joined,     \* BaseRealm._sessions: sessions whose session.realm is this realm
  left,       \* sessions that were removed (session.realm = null, for good)
  wSub,       \* BaseEngine.wSub and every Session.sSub: registrations by procedure
  reg,        \* the ActorReg objects; a call in flight keeps a removed one alive
  call,       \* the ActorCall objects; call[c].reg is set by setRegistration
  qCall,      \* BaseEngine.qCall: calls waiting for a slot, by procedure
  qYield,     \* BaseEngine.qYield: calls in flight at a callee
  finals,     \* history: final replies (RESULT or ERROR) sent for a call
  emitted     \* history: progress results sent through a registration

vars == <<joined, left, wSub, reg, call, qCall, qYield, finals, emitted>>
rpcVars == <<wSub, reg, call, qCall, qYield, finals, emitted>>

NoReg  == [owner |-> None, uri |-> None, limit |-> 1, requested |-> 0]
NoCall == [caller |-> None, uri |-> None, reg |-> None]

RegRecord  == [owner : Session \cup {None}, uri : Procedure \cup {None},
               limit : Int, requested : Int]
CallRecord == [caller : Session \cup {None}, uri : Procedure \cup {None},
               reg : Registration \cup {None}]

Issued     == {c \in Call : call[c].caller # None}
Registered == {r \in Registration : reg[r].uri # None}
InFlight(r) == {c \in qYield : call[c].reg = r}
Queued     == {c \in Call : \E p \in Procedure :
                               \E i \in DOMAIN qCall[p] : qCall[p][i] = c}

-----------------------------------------------------------------------------
(* ActorReg.isAble, ActorCall.isActual and the two counter steps *)

AbleUpToLimit(limit, requested) == limit < 0 \/ limit - requested >= 0
IsAble(limit, requested) == limit < 0 \/ limit - requested > 0

Able(r) == IsAble(reg[r].limit, reg[r].requested)

IsActual(c) == call[c].caller \in joined

(* The positions of a queue that checkTasks may stop at: it shifts calls   *)
(* off until one is actual.                                                *)
ActualIn(q) == {i \in DOMAIN q : IsActual(q[i])}
First(S) == {i \in S : \A j \in S : i <= j}

AfterPeek(q, i) == SubSeq(q, i, Len(q))
AfterShift(q, i) == SubSeq(q, i + 1, Len(q))

KeepRegistration(c, r) == call
SetRegistration(c, r) == [call EXCEPT ![c].reg = r]

-----------------------------------------------------------------------------
Init ==
  /\ joined = {}
  /\ left = {}
  /\ wSub = [p \in Procedure |-> {}]
  /\ reg = [r \in Registration |-> NoReg]
  /\ call = [c \in Call |-> NoCall]
  /\ qCall = [p \in Procedure |-> <<>>]
  /\ qYield = {}
  /\ finals = [c \in Call |-> 0]
  /\ emitted = [r \in Registration |-> 0]

JoinSession(s) ==
  /\ s \notin joined \cup left
  /\ joined' = joined \cup {s}
  /\ UNCHANGED <<left, rpcVars>>

SubsKept(s) == wSub
SubsWithout(s) == [p \in Procedure |-> {r \in wSub[p] : reg[r].owner # s}]

(* leaveSession: cleanupReg removes the session's registrations; calls it  *)
(* made stay in qCall, calls it works on stay in qYield.                   *)
LeaveSession(s) ==
  /\ s \in joined
  /\ joined' = joined \ {s}
  /\ left' = left \cup {s}
  /\ wSub' = SubsWithout(s)
  /\ UNCHANGED <<reg, call, qCall, qYield, finals, emitted>>

(* cmdRegRpc: the new registration does not look at qCall. *)
RegRpc(s, p, limit, r) ==
  /\ s \in joined
  /\ r \notin Registered
  /\ reg' = [reg EXCEPT ![r] = [owner |-> s, uri |-> p, limit |-> limit, requested |-> 0]]
  /\ wSub' = [wSub EXCEPT ![p] = @ \cup {r}]
  /\ UNCHANGED <<joined, left, call, qCall, qYield, finals, emitted>>

(* cmdUnRegRpc: only a session's own registration is found in its sSub. *)
UnRegRpc(s, r) ==
  /\ s \in joined
  /\ reg[r].owner = s
  /\ r \in wSub[reg[r].uri]
  /\ wSub' = [wSub EXCEPT ![reg[r].uri] = @ \ {r}]
  /\ UNCHANGED <<joined, left, reg, call, qCall, qYield, finals, emitted>>

-----------------------------------------------------------------------------
(* cmdCallRpc and doCall.  doCall takes the first able registration of an  *)
(* object keyed by random ids: any able one.                               *)

NewCall(s, p, r) == [caller |-> s, uri |-> p, reg |-> r]

CallDispatched(s, p, c) ==
  \E r \in wSub[p] :
    /\ Able(r)
    /\ call' = [call EXCEPT ![c] = NewCall(s, p, r)]
    /\ reg' = [reg EXCEPT ![r].requested = @ + 1]
    /\ qYield' = qYield \cup {c}
    /\ UNCHANGED <<qCall, finals>>

CallQueued(s, p, c) ==
  /\ wSub[p] # {}
  /\ \A r \in wSub[p] : ~Able(r)
  /\ call' = [call EXCEPT ![c] = NewCall(s, p, None)]
  /\ qCall' = [qCall EXCEPT ![p] = Append(@, c)]
  /\ UNCHANGED <<reg, qYield, finals>>

NoSuchProcedure(s, p, c) ==
  /\ wSub[p] = {}
  /\ call' = [call EXCEPT ![c] = NewCall(s, p, None)]
  /\ finals' = [finals EXCEPT ![c] = @ + 1]
  /\ UNCHANGED <<reg, qCall, qYield>>

CallRpc(s, p, c) ==
  /\ s \in joined
  /\ c \notin Issued
  /\ \/ CallDispatched(s, p, c)
     \/ CallQueued(s, p, c)
     \/ NoSuchProcedure(s, p, c)
  /\ UNCHANGED <<joined, left, wSub, emitted>>

-----------------------------------------------------------------------------
(* cmdYield and responseArrived.  taskResolved runs for a final result and *)
(* for a progress result; with a free slot checkTasks then drops the       *)
(* waiting calls whose caller has left and hands over the first other one. *)

TaskKept(requested) == requested
TaskResolved(requested) == requested - 1

ResolveOnly(r, rest) ==
  /\ qYield' = rest
  /\ reg' = [reg EXCEPT ![r].requested = TaskResolved(@)]
  /\ UNCHANGED call

NoTaskFound(r, rest) ==
  LET p == reg[r].uri
  IN /\ IsAble(reg[r].limit, TaskResolved(reg[r].requested))
     /\ ActualIn(qCall[p]) = {}
     /\ qCall' = [qCall EXCEPT ![p] = <<>>]
     /\ ResolveOnly(r, rest)

NextTaskTaken(r, rest) ==
  LET p == reg[r].uri
  IN /\ IsAble(reg[r].limit, TaskResolved(reg[r].requested))
     /\ \E i \in First(ActualIn(qCall[p])) :
          /\ qCall' = [qCall EXCEPT ![p] = AfterShift(@, i)]
          /\ qYield' = rest \cup {qCall[p][i]}
          /\ call' = SetRegistration(qCall[p][i], r)
     /\ reg' = [reg EXCEPT ![r].requested = TaskResolved(@) + 1]

StillBusy(r, rest) ==
  /\ ~IsAble(reg[r].limit, TaskResolved(reg[r].requested))
  /\ ResolveOnly(r, rest)
  /\ UNCHANGED qCall

ResponseArrived(r, rest) ==
  NoTaskFound(r, rest) \/ NextTaskTaken(r, rest) \/ StillBusy(r, rest)

(* getDefer: a yield counts only from the session the invocation went to. *)
Defer(s, c) ==
  /\ s \in joined
  /\ c \in qYield
  /\ reg[call[c].reg].owner = s

YieldFinal(s, c) ==
  /\ Defer(s, c)
  /\ finals' = [finals EXCEPT ![c] = @ + 1]
  /\ ResponseArrived(call[c].reg, qYield \ {c})
  /\ UNCHANGED <<joined, left, wSub, emitted>>

YieldEmit(s, c) ==
  /\ Defer(s, c)
  /\ emitted[call[c].reg] < MaxEmit
  /\ emitted' = [emitted EXCEPT ![call[c].reg] = @ + 1]
  /\ ResponseArrived(call[c].reg, qYield)
  /\ UNCHANGED <<joined, left, wSub, finals>>

Next ==
  \/ \E s \in Session : JoinSession(s)
  \/ \E s \in Session : LeaveSession(s)
  \/ \E s \in Session, p \in Procedure, n \in TaskLimit, r \in Registration :
       RegRpc(s, p, n, r)
  \/ \E s \in Session, r \in Registration : UnRegRpc(s, r)
  \/ \E s \in Session, p \in Procedure, c \in Call : CallRpc(s, p, c)
  \/ \E s \in Session, c \in Call : YieldFinal(s, c)
  \/ \E s \in Session, c \in Call : YieldEmit(s, c)

Spec == Init /\ [][Next]_vars

(* The only progress assumed: a callee that stays answers each invocation. *)
Answer(c) == \E s \in Session : YieldFinal(s, c)
FairSpec == Spec /\ \A c \in Call : WF_vars(Answer(c))

-----------------------------------------------------------------------------
(* Every variable has its type; every registration on offer belongs to the *)
(* procedure it is listed under and every call in flight names the         *)
(* registration it went to (wSub, qYield: lib/realm.ts).                   *)
TypeOK ==
  /\ joined \subseteq Session
  /\ left \subseteq Session
  /\ joined \cap left = {}
  /\ reg \in [Registration -> RegRecord]
  /\ call \in [Call -> CallRecord]
  /\ wSub \in [Procedure -> SUBSET Registration]
  /\ \A p \in Procedure : \A r \in wSub[p] : reg[r].uri = p
  /\ qCall \in [Procedure -> Seq(Call)]
  /\ qYield \subseteq Call
  /\ \A c \in qYield : c \in Issued /\ call[c].reg \in Registered
  /\ finals \in [Call -> Nat]
  /\ emitted \in [Registration -> Nat]

(* No call is lost, doubled or answered twice while its caller stays: an   *)
(* issued call waits at one place of the queue of its own procedure, or is *)
(* in flight, or got its one final reply.  Only a call whose caller left   *)
(* may be none of the three (checkTasks drops it).                         *)
QueuedOnce ==
  \A p, q \in Procedure : \A i \in DOMAIN qCall[p], j \in DOMAIN qCall[q] :
    qCall[p][i] = qCall[q][j] => p = q /\ i = j

QueuedUnderItsUri ==
  \A p \in Procedure : \A i \in DOMAIN qCall[p] :
    /\ qCall[p][i] \in Issued
    /\ call[qCall[p][i]].uri = p
    /\ qCall[p][i] \notin qYield
    /\ finals[qCall[p][i]] = 0

InFlightUnanswered ==
  \A c \in qYield : finals[c] = 0

AnsweredOnce ==
  \A c \in Call : finals[c] <= IF c \in Issued THEN 1 ELSE 0

NoneLost ==
  \A c \in Issued :
    finals[c] = 0 /\ c \notin qYield /\ c \notin Queued => ~IsActual(c)

CallAccounting ==
  /\ QueuedOnce
  /\ QueuedUnderItsUri
  /\ InFlightUnanswered
  /\ AnsweredOnce
  /\ NoneLost

(* The limit of a registration bounds its calls in flight, but for the     *)
(* slots that progress results gave back: taskResolved runs on each yield. *)
ConcurrencyBound ==
  \A r \in Registered :
    /\ reg[r].requested = Cardinality(InFlight(r)) - emitted[r]
    /\ reg[r].limit >= 0 =>
         Cardinality(InFlight(r)) <= reg[r].limit + emitted[r]

(* A waiting call has something to wait for: while its caller is there,    *)
(* another call of the procedure is in flight, whose answer will pull the  *)
(* queue.  A registration with the limit 0 queues calls and never pulls.   *)
ZeroLimit(p) == \E r \in Registration : reg[r].uri = p /\ reg[r].limit = 0

QueueServed ==
  \A p \in Procedure :
    (\E i \in DOMAIN qCall[p] : IsActual(qCall[p][i])) =>
      (\E c \in qYield : call[c].uri = p) \/ ZeroLimit(p)

(* An invocation is sent only to a session that is in the realm, and to a  *)
(* registration of the procedure that was called (callWorker).             *)
DispatchToLive ==
  [][\A c \in qYield' \ qYield :
        /\ reg'[call'[c].reg].owner \in joined'
        /\ reg'[call'[c].reg].uri = call'[c].uri]_vars

(* The strict reading of "Limit concurent requests" (README.md): a         *)
(* registration never has more calls in flight than its limit.             *)
ConcurrencyLimit ==
  \A r \in Registered :
    reg[r].limit >= 0 => Cardinality(InFlight(r)) <= reg[r].limit

(* When the callees that stay answer, a waiting call is handed over or     *)
(* dropped with its caller, unless a callee of the procedure left without  *)
(* answering or registered with the limit 0.                               *)
Stranded(p) ==
  \/ ZeroLimit(p)
  \/ \E c \in qYield : call[c].uri = p /\ reg[call[c].reg].owner \in left

QueuedCallServed ==
  \A c \in Call :
    (c \in Queued) ~> (c \notin Queued \/ ~IsActual(c) \/ Stranded(call[c].uri))
=============================================================================
