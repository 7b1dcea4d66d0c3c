---------------------------- MODULE DealerProofs ----------------------------
(* Theorems about the dealer, for any sessions, procedures, calls and      *)
(* registrations.                                                          *)
EXTENDS Dealer, TLAPS, FiniteSetTheorems, SequenceTheorems

-----------------------------------------------------------------------------
(* What is left of a queue after its first i calls were shifted off. *)
LEMMA AfterShiftProperties ==
  ASSUME NEW q \in Seq(Call), NEW i \in DOMAIN q
  PROVE  /\ AfterShift(q, i) \in Seq(Call)
         /\ DOMAIN AfterShift(q, i) = 1 .. (Len(q) - i)
         /\ \A j \in 1 .. (Len(q) - i) : AfterShift(q, i)[j] = q[i + j]
<1>1. DOMAIN q = 1 .. Len(q) /\ Len(q) \in Nat
  BY LenProperties
<1>2. i \in 1 .. Len(q)
  BY <1>1
<1>3. \A j \in (i + 1) .. Len(q) : q[j] \in Call
  BY <1>1, <1>2, ElementOfSeq
<1>4. /\ SubSeq(q, i + 1, Len(q)) \in Seq(Call)
      /\ Len(SubSeq(q, i + 1, Len(q))) = IF i + 1 <= Len(q) THEN Len(q) - (i + 1) + 1 ELSE 0
      /\ \A j \in 1 .. (Len(q) - (i + 1) + 1) :
           SubSeq(q, i + 1, Len(q))[j] = q[(i + 1) + j - 1]
  <2>1. i + 1 \in Int /\ Len(q) \in Int
    BY <1>1, <1>2
  <2>. QED BY <2>1, <1>3, SubSeqProperties
<1>5. Len(SubSeq(q, i + 1, Len(q))) = Len(q) - i
  BY <1>1, <1>2, <1>4
<1>6. \A j \in 1 .. (Len(q) - i) : (i + 1) + j - 1 = i + j
  BY <1>1, <1>2
<1>7. Len(q) - (i + 1) + 1 = Len(q) - i
  BY <1>1, <1>2
<1>8. DOMAIN SubSeq(q, i + 1, Len(q)) = 1 .. (Len(q) - i)
  BY <1>4, <1>5, LenProperties
<1>9. \A j \in 1 .. (Len(q) - i) : SubSeq(q, i + 1, Len(q))[j] = q[i + j]
  BY <1>4, <1>6, <1>7
<1>. QED BY <1>4, <1>8, <1>9 DEF AfterShift

(* The calls of a queue after one more was appended. *)
LEMMA AppendedProperties ==
  ASSUME NEW q \in Seq(Call), NEW c \in Call
  PROVE  /\ Append(q, c) \in Seq(Call)
         /\ DOMAIN q = 1 .. Len(q)
         /\ Len(q) \in Nat
         /\ DOMAIN Append(q, c) = 1 .. (Len(q) + 1)
         /\ \A j \in 1 .. Len(q) : Append(q, c)[j] = q[j]
         /\ Append(q, c)[Len(q) + 1] = c
  BY AppendProperties, LenProperties

-----------------------------------------------------------------------------
(* What responseArrived does, in two cases: it only resolves the task (and *)
(* may find nothing but calls whose caller left), or it also hands over    *)
(* the call d at position i, the first one of the queue that is actual.    *)
ResolvedOnly(r, rest, p) ==
  /\ qYield' = rest
  /\ call' = call
  /\ reg' = [reg EXCEPT ![r].requested = reg[r].requested - 1]
  /\ \/ qCall' = qCall
     \/ ActualIn(qCall[p]) = {} /\ qCall' = [qCall EXCEPT ![p] = <<>>]

HandedOver(r, rest, p, i, d) ==
  /\ i \in ActualIn(qCall[p])
  /\ \A j \in ActualIn(qCall[p]) : i <= j
  /\ d = qCall[p][i]
  /\ qCall' = [qCall EXCEPT ![p] = AfterShift(qCall[p], i)]
  /\ qYield' = rest \cup {d}
  /\ call' = [call EXCEPT ![d].reg = r]
  /\ reg' = [reg EXCEPT ![r].requested = (reg[r].requested - 1) + 1]

LEMMA ResponseCases ==
  ASSUME NEW r, NEW rest, NEW p, p = reg[r].uri, ResponseArrived(r, rest)
  PROVE  ResolvedOnly(r, rest, p) \/ \E i, d : HandedOver(r, rest, p, i, d)
<1>1. CASE NoTaskFound(r, rest)
  BY <1>1 DEF NoTaskFound, ResolveOnly, TaskResolved, ResolvedOnly
<1>2. CASE NextTaskTaken(r, rest)
  BY <1>2 DEF NextTaskTaken, First, SetRegistration, TaskResolved, HandedOver
<1>3. CASE StillBusy(r, rest)
  BY <1>3 DEF StillBusy, ResolveOnly, TaskResolved, ResolvedOnly
<1>. QED BY <1>1, <1>2, <1>3 DEF ResponseArrived

-----------------------------------------------------------------------------
(* The record fields of typed registrations and calls. *)
LEMMA RecordTypes ==
  ASSUME TypeOK
  PROVE  /\ \A r \in Registration :
              /\ reg[r].owner \in Session \cup {None}
              /\ reg[r].uri \in Procedure \cup {None}
              /\ reg[r].limit \in Int
              /\ reg[r].requested \in Int
         /\ \A c \in Call :
              /\ call[c].caller \in Session \cup {None}
              /\ call[c].uri \in Procedure \cup {None}
              /\ call[c].reg \in Registration \cup {None}
  BY DEF TypeOK, RegRecord, CallRecord

(* A changed counter or a set registration leaves the other fields alone. *)
LEMMA RequestedOnly ==
  ASSUME TypeOK, NEW r \in Registration, NEW n \in Int,
         reg' = [reg EXCEPT ![r].requested = n]
  PROVE  /\ reg' \in [Registration -> RegRecord]
         /\ \A x \in Registration :
              /\ reg'[x].owner = reg[x].owner
              /\ reg'[x].uri = reg[x].uri
              /\ reg'[x].limit = reg[x].limit
              /\ reg'[x].requested = IF x = r THEN n ELSE reg[x].requested
  BY DEF TypeOK, RegRecord

LEMMA RegistrationSet ==
  ASSUME TypeOK, NEW c \in Call, NEW r \in Registration,
         call' = [call EXCEPT ![c].reg = r]
  PROVE  /\ call' \in [Call -> CallRecord]
         /\ \A x \in Call :
              /\ call'[x].caller = call[x].caller
              /\ call'[x].uri = call[x].uri
              /\ call'[x].reg = IF x = c THEN r ELSE call[x].reg
  BY DEF TypeOK, CallRecord

LEMMA ResponseType ==
  ASSUME TypeOK, NEW r \in Registered, NEW rest \in SUBSET qYield,
         ResponseArrived(r, rest),
         UNCHANGED <<joined, left, wSub>>,
         finals' \in [Call -> Nat], emitted' \in [Registration -> Nat]
  PROVE  TypeOK'
<1>1. PICK p : p = reg[r].uri
  OBVIOUS
<1>2. /\ r \in Registration
      /\ p \in Procedure
      /\ rest \subseteq Call
      /\ reg[r].requested \in Int
  BY <1>1, RecordTypes DEF TypeOK, Registered
<1>3. CASE ResolvedOnly(r, rest, p)
  <2>1. /\ reg' \in [Registration -> RegRecord]
        /\ \A x \in Registration : reg'[x].uri = reg[x].uri
    <3>1. reg[r].requested - 1 \in Int
      BY <1>2
    <3>. QED BY <1>2, <1>3, <3>1, RequestedOnly DEF ResolvedOnly
  <2>2. qCall' \in [Procedure -> Seq(Call)]
    <3>1. <<>> \in Seq(Call)
      BY EmptySeq
    <3>2. qCall \in [Procedure -> Seq(Call)]
      BY DEF TypeOK
    <3>. QED BY <1>2, <1>3, <3>1, <3>2 DEF ResolvedOnly
  <2>. QED BY <1>2, <1>3, <2>1, <2>2 DEF TypeOK, Registered, Issued, ResolvedOnly
<1>4. ASSUME NEW i, NEW d, HandedOver(r, rest, p, i, d) PROVE TypeOK'
  <2>1. qCall[p] \in Seq(Call) /\ i \in DOMAIN qCall[p] /\ d \in Call
    BY <1>2, <1>4, LenProperties, ElementOfSeq DEF TypeOK, ActualIn, HandedOver
  <2>2. /\ reg' \in [Registration -> RegRecord]
        /\ \A x \in Registration : reg'[x].uri = reg[x].uri
    <3>1. (reg[r].requested - 1) + 1 \in Int
      BY <1>2
    <3>. QED BY <1>2, <1>4, <3>1, RequestedOnly DEF HandedOver
  <2>3. /\ call' \in [Call -> CallRecord]
        /\ \A x \in Call :
              /\ call'[x].caller = call[x].caller
              /\ call'[x].reg = IF x = d THEN r ELSE call[x].reg
    <3>1. d \in Call /\ r \in Registration /\ call' = [call EXCEPT ![d].reg = r]
      BY <1>2, <1>4, <2>1 DEF HandedOver
    <3>. QED BY <3>1, RegistrationSet
  <2>4. qCall' \in [Procedure -> Seq(Call)]
    BY <1>2, <1>4, <2>1, AfterShiftProperties DEF TypeOK, HandedOver
  <2>5. call[d].caller # None
    BY <1>4, SessionAssumption DEF TypeOK, ActualIn, IsActual, HandedOver
  <2>6. \A x \in qYield' : x \in Issued' /\ call'[x].reg \in Registered'
    BY <1>2, <1>4, <2>1, <2>2, <2>3, <2>5 DEF TypeOK, Registered, Issued, HandedOver
  <2>. QED BY <1>2, <1>4, <2>1, <2>2, <2>3, <2>4, <2>6 DEF TypeOK, HandedOver
<1>. QED BY <1>1, <1>3, <1>4, ResponseCases

LEMMA TypeStep == TypeOK /\ [Next]_vars => TypeOK'
<1> SUFFICES ASSUME TypeOK, [Next]_vars PROVE TypeOK'
  OBVIOUS
<1>1. ASSUME NEW s \in Session, JoinSession(s) PROVE TypeOK'
  BY <1>1 DEF TypeOK, JoinSession, rpcVars, Registered, Issued
<1>2. ASSUME NEW s \in Session, LeaveSession(s) PROVE TypeOK'
  BY <1>2 DEF TypeOK, LeaveSession, SubsWithout, Registered, Issued
<1>3. ASSUME NEW s \in Session, NEW p \in Procedure, NEW n \in TaskLimit,
             NEW r \in Registration, RegRpc(s, p, n, r)
      PROVE  TypeOK'
  <2>1. n \in Int
    BY TaskLimitAssumption
  <2>2. reg' \in [Registration -> RegRecord]
    BY <1>3, <2>1 DEF TypeOK, RegRpc, RegRecord
  <2>3. reg[r].uri = None /\ reg'[r].uri = p
    BY <1>3 DEF TypeOK, RegRpc, Registered
  <2>4. \A x \in Registration : x # r => reg'[x] = reg[x]
    BY <1>3 DEF TypeOK, RegRpc
  <2>5. \A q \in Procedure : \A x \in wSub'[q] : reg'[x].uri = q
    BY <1>3, <2>3, <2>4, ProcedureAssumption DEF TypeOK, RegRpc
  <2>6. \A c \in qYield' : c \in Issued' /\ call'[c].reg \in Registered'
    BY <1>3, <2>3, <2>4, ProcedureAssumption DEF TypeOK, RegRpc, Registered, Issued
  <2>. QED BY <1>3, <2>2, <2>5, <2>6 DEF TypeOK, RegRpc
<1>4. ASSUME NEW s \in Session, NEW r \in Registration, UnRegRpc(s, r) PROVE TypeOK'
  BY <1>4 DEF TypeOK, UnRegRpc, Registered, Issued
<1>5. ASSUME NEW s \in Session, NEW p \in Procedure, NEW c \in Call, CallRpc(s, p, c)
      PROVE  TypeOK'
  <2>1. CASE CallDispatched(s, p, c)
    <3>1. PICK r \in wSub[p] :
             /\ call' = [call EXCEPT ![c] = NewCall(s, p, r)]
             /\ reg' = [reg EXCEPT ![r].requested = @ + 1]
             /\ qYield' = qYield \cup {c}
             /\ UNCHANGED <<qCall, finals>>
      BY <2>1 DEF CallDispatched
    <3>2. r \in Registration /\ reg[r].uri = p
      BY <3>1 DEF TypeOK
    <3>3. reg[r].requested + 1 \in Int
      BY <3>2, RecordTypes
    <3>4. /\ reg' \in [Registration -> RegRecord]
          /\ \A x \in Registration : reg'[x].uri = reg[x].uri
      <4>1. reg' = [reg EXCEPT ![r].requested = reg[r].requested + 1]
        BY <3>1
      <4>. QED BY <3>2, <3>3, <4>1, RequestedOnly
    <3>5. call' \in [Call -> CallRecord]
      BY <3>1, <3>2 DEF TypeOK, NewCall, CallRecord
    <3>6. call'[c].reg = r /\ \A x \in Call : x # c => call'[x] = call[x]
      BY <3>1 DEF TypeOK, NewCall
    <3>7. call'[c].caller # None
      BY <3>1, SessionAssumption DEF TypeOK, NewCall
    <3>8. \A x \in qYield' : x \in Issued' /\ call'[x].reg \in Registered'
      BY <3>1, <3>2, <3>4, <3>6, <3>7, ProcedureAssumption DEF TypeOK, Registered, Issued
    <3>9. \A q \in Procedure : \A x \in wSub'[q] : reg'[x].uri = q
      BY <1>5, <3>4 DEF TypeOK, CallRpc
    <3>10. qYield' \subseteq Call
      BY <3>1 DEF TypeOK
    <3>. QED BY <1>5, <3>1, <3>4, <3>5, <3>8, <3>9, <3>10 DEF TypeOK, CallRpc
  <2>2. ASSUME call' = [call EXCEPT ![c] = NewCall(s, p, None)], UNCHANGED <<reg, qYield>>,
               qCall' \in [Procedure -> Seq(Call)], finals' \in [Call -> Nat]
        PROVE  TypeOK'
    <3>1. c \notin qYield
      BY <1>5 DEF TypeOK, CallRpc
    <3>2. call' \in [Call -> CallRecord]
      BY <2>2 DEF TypeOK, NewCall, CallRecord
    <3>3. \A x \in qYield' : x \in Issued' /\ call'[x].reg \in Registered'
      BY <2>2, <3>1 DEF TypeOK, Issued, Registered
    <3>. QED BY <1>5, <2>2, <3>2, <3>3 DEF TypeOK, CallRpc
  <2>3. CASE CallQueued(s, p, c)
    <3>1. qCall' \in [Procedure -> Seq(Call)]
      BY <2>3, AppendedProperties DEF TypeOK, CallQueued
    <3>. QED BY <2>2, <2>3, <3>1 DEF TypeOK, CallQueued
  <2>4. CASE NoSuchProcedure(s, p, c)
    BY <2>2, <2>4 DEF TypeOK, NoSuchProcedure
  <2>. QED BY <1>5, <2>1, <2>3, <2>4 DEF CallRpc
<1>6. ASSUME NEW s \in Session, NEW c \in Call, YieldFinal(s, c) PROVE TypeOK'
  <2>1. call[c].reg \in Registered /\ qYield \ {c} \in SUBSET qYield
    BY <1>6 DEF YieldFinal, Defer, TypeOK
  <2>2. finals' \in [Call -> Nat] /\ emitted' \in [Registration -> Nat]
    BY <1>6 DEF YieldFinal, TypeOK
  <2>. QED BY <1>6, <2>1, <2>2, ResponseType DEF YieldFinal
<1>7. ASSUME NEW s \in Session, NEW c \in Call, YieldEmit(s, c) PROVE TypeOK'
  <2>1. call[c].reg \in Registered /\ qYield \in SUBSET qYield
    BY <1>7 DEF YieldEmit, Defer, TypeOK
  <2>2. finals' \in [Call -> Nat] /\ emitted' \in [Registration -> Nat]
    BY <1>7, <2>1 DEF YieldEmit, TypeOK, Registered
  <2>. QED BY <1>7, <2>1, <2>2, ResponseType DEF YieldEmit
<1>8. CASE UNCHANGED vars
  BY <1>8 DEF TypeOK, vars, Registered, Issued
<1>. QED BY <1>1, <1>2, <1>3, <1>4, <1>5, <1>6, <1>7, <1>8 DEF Next

LEMMA TypeInit == Init => TypeOK
<1>1. Init => \A p \in Procedure : qCall[p] = <<>> /\ wSub[p] = {}
  BY DEF Init
<1>. QED BY <1>1, EmptySeq
         DEF Init, TypeOK, NoReg, NoCall, RegRecord, CallRecord, Issued, Registered

(* The dealer's variables keep their types (lib/realm.ts). *)
THEOREM TypeCorrect == Spec => []TypeOK
  BY TypeInit, TypeStep, PTL DEF Spec

-----------------------------------------------------------------------------
(* A response keeps the accounting when it answers exactly the calls that  *)
(* it takes out of qYield.                                                 *)
LEMMA ResponseAccounting ==
  ASSUME TypeOK, CallAccounting,
         NEW r \in Registered, NEW rest \in SUBSET qYield,
         ResponseArrived(r, rest),
         joined' = joined,
         \A x \in Call :
           finals'[x] = (IF x \in qYield \ rest THEN finals[x] + 1 ELSE finals[x])
  PROVE  CallAccounting'
<1>1. PICK p : p = reg[r].uri
  OBVIOUS
<1>2. p \in Procedure /\ r \in Registration
  BY <1>1, RecordTypes DEF Registered
<1>3. \A x \in Call : finals[x] \in Nat
  BY DEF TypeOK
<1>4. \A q \in Procedure : \A i \in DOMAIN qCall[q] : qCall[q][i] \in Call
  BY DEF CallAccounting, QueuedUnderItsUri, Issued
<1>5. \A x \in qYield : x \in Call /\ finals[x] = 0
  BY DEF TypeOK, CallAccounting, InFlightUnanswered
<1>6. \A x \in Call : x \notin qYield => finals'[x] = finals[x]
  OBVIOUS
<1>7. CASE ResolvedOnly(r, rest, p)
  <2>1. \A q \in Procedure : 
          \/ qCall'[q] = qCall[q]
          \/ q = p /\ qCall'[q] = <<>> /\ ActualIn(qCall[q]) = {}
    BY <1>2, <1>7 DEF ResolvedOnly, TypeOK
  <2>2. \A q \in Procedure : \A i \in DOMAIN qCall'[q] :
          i \in DOMAIN qCall[q] /\ qCall'[q][i] = qCall[q][i]
    BY <2>1
  <2>3. Issued' = Issued /\ call' = call /\ qYield' = rest
    BY <1>7 DEF ResolvedOnly, Issued
  <2>4. QueuedOnce'
    BY <2>2 DEF CallAccounting, QueuedOnce
  <2>5. QueuedUnderItsUri'
    BY <1>4, <1>6, <2>2, <2>3 DEF CallAccounting, QueuedUnderItsUri
  <2>6. InFlightUnanswered'
    BY <1>5, <2>3 DEF InFlightUnanswered
  <2>7. AnsweredOnce'
    <3> SUFFICES ASSUME NEW x \in Call
                 PROVE  finals'[x] <= (IF x \in Issued THEN 1 ELSE 0)
      BY <2>3 DEF AnsweredOnce
    <3>1. CASE x \in qYield \ rest
      BY <1>5, <3>1 DEF TypeOK
    <3>2. CASE x \notin qYield \ rest
      BY <3>2 DEF CallAccounting, AnsweredOnce
    <3>. QED BY <3>1, <3>2
  <2>8. NoneLost'
    <3> SUFFICES ASSUME NEW x \in Issued,
                        finals'[x] = 0, x \notin rest, x \notin Queued'
                 PROVE  ~IsActual(x)
      BY <2>3 DEF NoneLost, IsActual
    <3>1. x \in Call
      BY DEF Issued
    <3>2. x \notin qYield /\ finals[x] = 0
      BY <1>3, <1>5, <3>1
    <3>3. CASE x \notin Queued
      BY <3>2, <3>3 DEF CallAccounting, NoneLost
    <3>4. CASE x \in Queued
      <4>1. PICK q \in Procedure : \E j \in DOMAIN qCall[q] : qCall[q][j] = x
        BY <3>4 DEF Queued
      <4>2. qCall'[q] # qCall[q]
        BY <3>1, <4>1 DEF Queued
      <4>. QED BY <2>1, <4>1, <4>2 DEF ActualIn
    <3>. QED BY <3>3, <3>4
  <2>. QED BY <2>4, <2>5, <2>6, <2>7, <2>8 DEF CallAccounting
<1>8. ASSUME NEW i, NEW d, HandedOver(r, rest, p, i, d) PROVE CallAccounting'
  <2>1. qCall[p] \in Seq(Call) /\ i \in DOMAIN qCall[p] /\ d \in Call /\ d = qCall[p][i]
    BY <1>2, <1>4, <1>8 DEF TypeOK, ActualIn, HandedOver
  <2>2. /\ DOMAIN qCall[p] = 1 .. Len(qCall[p])
        /\ Len(qCall[p]) \in Nat
        /\ i \in 1 .. Len(qCall[p])
    BY <2>1, LenProperties
  <2>3. /\ qCall'[p] = AfterShift(qCall[p], i)
        /\ \A q \in Procedure : q # p => qCall'[q] = qCall[q]
    BY <1>2, <1>8 DEF HandedOver, TypeOK
  <2>4. /\ DOMAIN qCall'[p] = 1 .. (Len(qCall[p]) - i)
        /\ \A j \in 1 .. (Len(qCall[p]) - i) : qCall'[p][j] = qCall[p][i + j]
    <3>1. PICK s \in Seq(Call) : s = qCall[p] /\ i \in DOMAIN s
      BY <2>1
    <3>2. /\ DOMAIN AfterShift(s, i) = 1 .. (Len(s) - i)
          /\ \A j \in 1 .. (Len(s) - i) : AfterShift(s, i)[j] = s[i + j]
      BY <3>1, AfterShiftProperties
    <3>. QED BY <2>3, <3>1, <3>2
  <2>5. /\ \A x \in Call : call'[x].caller = call[x].caller /\ call'[x].uri = call[x].uri
        /\ Issued' = Issued
    <3>1. call' = [call EXCEPT ![d].reg = r]
      BY <1>8 DEF HandedOver
    <3>2. \A x \in Call : /\ call'[x].caller = call[x].caller
                          /\ call'[x].uri = call[x].uri
      BY <1>2, <2>1, <3>1, RegistrationSet
    <3>. QED BY <3>2 DEF Issued
  <2>6. qYield' = rest \cup {d}
    BY <1>8 DEF HandedOver
  <2>7. d \in Issued /\ d \notin qYield /\ finals[d] = 0
    BY <1>2, <2>1 DEF CallAccounting, QueuedUnderItsUri
  <2>8. \A q \in Procedure : \A j \in DOMAIN qCall'[q] :
          \E k \in DOMAIN qCall[q] : /\ qCall'[q][j] = qCall[q][k]
                                     /\ q = p => k = i + j /\ k # i
                                     /\ q # p => k = j
    <3> SUFFICES ASSUME NEW q \in Procedure, NEW j \in DOMAIN qCall'[q]
                 PROVE  \E k \in DOMAIN qCall[q] : /\ qCall'[q][j] = qCall[q][k]
                                                   /\ q = p => k = i + j /\ k # i
                                                   /\ q # p => k = j
      OBVIOUS
    <3>1. CASE q = p
      <4>1. j \in 1 .. (Len(qCall[p]) - i)
        BY <2>4, <3>1
      <4>2. i + j \in DOMAIN qCall[p] /\ i + j # i
        BY <2>2, <4>1
      <4>. QED BY <2>4, <3>1, <4>1, <4>2
    <3>2. CASE q # p
      BY <2>3, <3>2
    <3>. QED BY <3>1, <3>2
  <2>9. QueuedOnce'
    <3> SUFFICES ASSUME NEW q1 \in Procedure, NEW q2 \in Procedure,
                        NEW j1 \in DOMAIN qCall'[q1], NEW j2 \in DOMAIN qCall'[q2],
                        qCall'[q1][j1] = qCall'[q2][j2]
                 PROVE  q1 = q2 /\ j1 = j2
      BY DEF QueuedOnce
    <3>1. PICK k1 \in DOMAIN qCall[q1] : /\ qCall'[q1][j1] = qCall[q1][k1]
                                         /\ q1 = p => k1 = i + j1 /\ k1 # i
                                         /\ q1 # p => k1 = j1
      BY <2>8
    <3>2. PICK k2 \in DOMAIN qCall[q2] : /\ qCall'[q2][j2] = qCall[q2][k2]
                                         /\ q2 = p => k2 = i + j2 /\ k2 # i
                                         /\ q2 # p => k2 = j2
      BY <2>8
    <3>3. q1 = q2 /\ k1 = k2
      <4>1. qCall[q1][k1] = qCall[q2][k2]
        BY <3>1, <3>2
      <4>2. QueuedOnce
        BY DEF CallAccounting
      <4>. QED BY <4>1, <4>2 DEF QueuedOnce
    <3>4. CASE q1 = p
      <4>1. j1 \in Int /\ j2 \in Int /\ i \in Int
        BY <2>2, <2>4, <3>3, <3>4
      <4>. QED BY <3>1, <3>2, <3>3, <3>4, <4>1
    <3>5. CASE q1 # p
      BY <3>1, <3>2, <3>3, <3>5
    <3>. QED BY <3>4, <3>5
  <2>10. QueuedUnderItsUri'
    <3> SUFFICES ASSUME NEW q \in Procedure, NEW j \in DOMAIN qCall'[q]
                 PROVE  /\ qCall'[q][j] \in Issued
                        /\ call'[qCall'[q][j]].uri = q
                        /\ qCall'[q][j] \notin qYield'
                        /\ finals'[qCall'[q][j]] = 0
      BY <2>5 DEF QueuedUnderItsUri
    <3>1. PICK k \in DOMAIN qCall[q] : /\ qCall'[q][j] = qCall[q][k]
                                       /\ q = p => k = i + j /\ k # i
                                       /\ q # p => k = j
      BY <2>8
    <3>2. /\ qCall[q][k] \in Issued
          /\ qCall[q][k] \in Call
          /\ call[qCall[q][k]].uri = q
          /\ qCall[q][k] \notin qYield
          /\ finals[qCall[q][k]] = 0
      BY <1>4 DEF CallAccounting, QueuedUnderItsUri
    <3>3. qCall[q][k] # d
      BY <1>2, <2>1, <3>1 DEF CallAccounting, QueuedOnce
    <3>. QED BY <1>6, <2>5, <2>6, <3>1, <3>2, <3>3
  <2>11. InFlightUnanswered'
    BY <1>5, <1>6, <2>1, <2>6, <2>7 DEF InFlightUnanswered
  <2>12. AnsweredOnce'
    <3> SUFFICES ASSUME NEW x \in Call
                 PROVE  finals'[x] <= (IF x \in Issued THEN 1 ELSE 0)
      BY <2>5 DEF AnsweredOnce
    <3>1. CASE x \in qYield \ rest
      BY <1>5, <3>1 DEF TypeOK
    <3>2. CASE x \notin qYield \ rest
      BY <3>2 DEF CallAccounting, AnsweredOnce
    <3>. QED BY <3>1, <3>2
  <2>13. NoneLost'
    <3> SUFFICES ASSUME NEW x \in Issued,
                        finals'[x] = 0, x \notin qYield', x \notin Queued'
                 PROVE  ~IsActual(x)
      BY <2>5 DEF NoneLost, IsActual, Issued
    <3>1. x \in Call /\ x \notin rest /\ x # d
      BY <2>6 DEF Issued
    <3>2. x \notin qYield /\ finals[x] = 0
      BY <1>3, <1>5, <3>1
    <3>3. CASE x \notin Queued
      BY <3>2, <3>3 DEF CallAccounting, NoneLost
    <3>4. CASE x \in Queued
      <4>1. PICK q \in Procedure : \E j \in DOMAIN qCall[q] : qCall[q][j] = x
        BY <3>4 DEF Queued
      <4>6. PICK k \in DOMAIN qCall[q] : qCall[q][k] = x
        BY <4>1
      <4>2. q = p
        <5>1. CASE q # p
          <6>1. k \in DOMAIN qCall'[q] /\ qCall'[q][k] = x
            BY <2>3, <4>6, <5>1
          <6>. QED BY <3>1, <6>1 DEF Queued
        <5>. QED BY <5>1
      <4>3. k \in 1 .. Len(qCall[p]) /\ k # i
        BY <2>1, <2>2, <3>1, <4>6, <4>2
      <4>4. CASE k > i
        <5>1. k - i \in 1 .. (Len(qCall[p]) - i) /\ i + (k - i) = k
          BY <2>2, <4>3, <4>4
        <5>2. k - i \in DOMAIN qCall'[p] /\ qCall'[p][k - i] = x
          BY <2>4, <4>6, <4>2, <5>1
        <5>. QED BY <1>2, <3>1, <5>2 DEF Queued
      <4>5. CASE k < i
        BY <1>8, <2>2, <4>6, <4>2, <4>3, <4>5 DEF HandedOver, ActualIn
      <4>. QED BY <2>2, <4>3, <4>4, <4>5
    <3>. QED BY <3>3, <3>4
  <2>. QED BY <2>9, <2>10, <2>11, <2>12, <2>13 DEF CallAccounting
<1>. QED BY <1>1, <1>7, <1>8, ResponseCases

(* A new call that goes to a callee, to the queue or back as an error.     *)
LEMMA CallAccountingStep ==
  ASSUME TypeOK, CallAccounting,
         NEW s \in Session, NEW p \in Procedure, NEW c \in Call, CallRpc(s, p, c)
  PROVE  CallAccounting'
<1>1. c \notin Issued /\ joined' = joined
  BY DEF CallRpc
<1>2. c \notin qYield /\ finals[c] = 0
  BY <1>1 DEF TypeOK, CallAccounting, AnsweredOnce
<1>3. \A q \in Procedure : \A i \in DOMAIN qCall[q] :
        qCall[q][i] \in Issued /\ qCall[q][i] # c /\ qCall[q][i] \in Call
  BY <1>1 DEF CallAccounting, QueuedUnderItsUri, Issued
<1>4. ASSUME NEW r, call' = [call EXCEPT ![c] = NewCall(s, p, r)]
      PROVE  /\ Issued' = Issued \cup {c}
             /\ call'[c].uri = p
             /\ \A x \in Call : x # c => call'[x] = call[x]
  <2>1. \A x \in Call : x # c => call'[x] = call[x]
    BY <1>4 DEF TypeOK
  <2>2. call'[c].caller = s /\ call'[c].uri = p
    BY <1>4 DEF TypeOK, NewCall
  <2>. QED BY <2>1, <2>2, SessionAssumption DEF Issued
<1>5. ASSUME NEW r, call' = [call EXCEPT ![c] = NewCall(s, p, r)],
             UNCHANGED qCall, qYield' \subseteq qYield \cup {c}, qYield \subseteq qYield',
             \A x \in Call : x # c => finals'[x] = finals[x],
             \/ c \in qYield' /\ finals'[c] = 0
             \/ c \notin qYield' /\ finals'[c] = 1
      PROVE  CallAccounting'
  <2>1. /\ Issued' = Issued \cup {c}
        /\ \A x \in Call : x # c => call'[x] = call[x]
    BY <1>4, <1>5
  <2>2. QueuedOnce'
    BY <1>5 DEF CallAccounting, QueuedOnce
  <2>3. QueuedUnderItsUri'
    BY <1>3, <1>5, <2>1 DEF CallAccounting, QueuedUnderItsUri
  <2>4. InFlightUnanswered'
    BY <1>5 DEF TypeOK, CallAccounting, InFlightUnanswered
  <2>5. AnsweredOnce'
    BY <1>5, <2>1 DEF TypeOK, CallAccounting, AnsweredOnce
  <2>6. NoneLost'
    <3>1. Queued' = Queued
      BY <1>5 DEF Queued
    <3>. QED BY <1>1, <1>5, <2>1, <3>1 DEF CallAccounting, NoneLost, IsActual, Issued
  <2>. QED BY <2>2, <2>3, <2>4, <2>5, <2>6 DEF CallAccounting
<1>6. CASE CallDispatched(s, p, c)
  <2>1. PICK r \in wSub[p] :
           /\ call' = [call EXCEPT ![c] = NewCall(s, p, r)]
           /\ qYield' = qYield \cup {c}
           /\ UNCHANGED <<qCall, finals>>
    BY <1>6 DEF CallDispatched
  <2>. QED BY <1>2, <1>5, <2>1
<1>7. CASE CallQueued(s, p, c)
  <2>1. /\ call' = [call EXCEPT ![c] = NewCall(s, p, None)]
        /\ UNCHANGED <<qYield, finals>>
    BY <1>7 DEF CallQueued
  <2>2. /\ Issued' = Issued \cup {c}
        /\ call'[c].uri = p
        /\ \A x \in Call : x # c => call'[x] = call[x]
    BY <1>4, <2>1
  <2>3. qCall[p] \in Seq(Call)
    BY DEF TypeOK
  <2>4. /\ DOMAIN qCall[p] = 1 .. Len(qCall[p])
        /\ Len(qCall[p]) \in Nat
        /\ DOMAIN Append(qCall[p], c) = 1 .. (Len(qCall[p]) + 1)
        /\ \A j \in 1 .. Len(qCall[p]) : Append(qCall[p], c)[j] = qCall[p][j]
        /\ Append(qCall[p], c)[Len(qCall[p]) + 1] = c
    BY <2>3, AppendedProperties
  <2>5. /\ qCall'[p] = Append(qCall[p], c)
        /\ \A q \in Procedure : q # p => qCall'[q] = qCall[q]
    BY <1>7 DEF CallQueued, TypeOK
  <2>6. \A q \in Procedure : \A j \in DOMAIN qCall'[q] :
          \/ j \in DOMAIN qCall[q] /\ qCall'[q][j] = qCall[q][j]
          \/ q = p /\ j = Len(qCall[p]) + 1 /\ qCall'[q][j] = c
    <3> SUFFICES ASSUME NEW q \in Procedure, NEW j \in DOMAIN qCall'[q]
                 PROVE  \/ j \in DOMAIN qCall[q] /\ qCall'[q][j] = qCall[q][j]
                        \/ q = p /\ j = Len(qCall[p]) + 1 /\ qCall'[q][j] = c
      OBVIOUS
    <3>1. CASE q = p
      <4>1. j \in 1 .. Len(qCall[p]) \/ j = Len(qCall[p]) + 1
        BY <2>4, <2>5, <3>1
      <4>. QED BY <2>4, <2>5, <3>1, <4>1
    <3>2. CASE q # p
      BY <2>5, <3>2
    <3>. QED BY <3>1, <3>2
  <2>7. QueuedOnce'
    <3> SUFFICES ASSUME NEW q1 \in Procedure, NEW q2 \in Procedure,
                        NEW j1 \in DOMAIN qCall'[q1], NEW j2 \in DOMAIN qCall'[q2],
                        qCall'[q1][j1] = qCall'[q2][j2]
                 PROVE  q1 = q2 /\ j1 = j2
      BY DEF QueuedOnce
    <3>1. CASE qCall'[q1][j1] = c
      <4>1. q1 = p /\ j1 = Len(qCall[p]) + 1
        BY <1>3, <2>6, <3>1
      <4>2. q2 = p /\ j2 = Len(qCall[p]) + 1
        BY <1>3, <2>6, <3>1
      <4>. QED BY <4>1, <4>2
    <3>2. CASE qCall'[q1][j1] # c
      <4>1. /\ j1 \in DOMAIN qCall[q1]
            /\ j2 \in DOMAIN qCall[q2]
            /\ qCall[q1][j1] = qCall[q2][j2]
        BY <2>6, <3>2
      <4>2. QueuedOnce
        BY DEF CallAccounting
      <4>. QED BY <4>1, <4>2 DEF QueuedOnce
    <3>. QED BY <3>1, <3>2
  <2>8. QueuedUnderItsUri'
    <3> SUFFICES ASSUME NEW q \in Procedure, NEW j \in DOMAIN qCall'[q]
                 PROVE  /\ qCall'[q][j] \in Issued'
                        /\ call'[qCall'[q][j]].uri = q
                        /\ qCall'[q][j] \notin qYield
                        /\ finals[qCall'[q][j]] = 0
      BY <2>1 DEF QueuedUnderItsUri
    <3>1. CASE qCall'[q][j] = c
      BY <1>2, <1>3, <2>2, <2>6, <3>1
    <3>2. CASE qCall'[q][j] # c
      <4>1. j \in DOMAIN qCall[q] /\ qCall'[q][j] = qCall[q][j]
        BY <2>6, <3>2
      <4>2. QueuedUnderItsUri
        BY DEF CallAccounting
      <4>. QED BY <1>3, <2>2, <4>1, <4>2 DEF QueuedUnderItsUri
    <3>. QED BY <3>1, <3>2
  <2>9. InFlightUnanswered' /\ AnsweredOnce'
    BY <1>2, <2>1, <2>2 DEF CallAccounting, InFlightUnanswered, AnsweredOnce
  <2>10. Queued \cup {c} \subseteq Queued'
    <3>1. c \in Queued'
      <4>1. Len(qCall[p]) + 1 \in DOMAIN qCall'[p] /\ qCall'[p][Len(qCall[p]) + 1] = c
        BY <2>4, <2>5
      <4>. QED BY <4>1 DEF Queued
    <3>2. \A q \in Procedure : \A i \in DOMAIN qCall[q] :
            i \in DOMAIN qCall'[q] /\ qCall'[q][i] = qCall[q][i]
      BY <2>4, <2>5
    <3>. QED BY <3>1, <3>2 DEF Queued
  <2>11. NoneLost'
    BY <1>1, <2>1, <2>2, <2>10 DEF CallAccounting, NoneLost, IsActual, Issued
  <2>. QED BY <2>7, <2>8, <2>9, <2>11 DEF CallAccounting
<1>8. CASE NoSuchProcedure(s, p, c)
  <2>1. /\ call' = [call EXCEPT ![c] = NewCall(s, p, None)]
        /\ UNCHANGED <<qCall, qYield>>
        /\ finals' = [finals EXCEPT ![c] = 1]
    BY <1>2, <1>8 DEF NoSuchProcedure
  <2>2. finals'[c] = 1 /\ \A x \in Call : x # c => finals'[x] = finals[x]
    BY <2>1 DEF TypeOK
  <2>. QED BY <1>2, <1>5, <2>1, <2>2
<1>. QED BY <1>6, <1>7, <1>8 DEF CallRpc

(* The accounting looks at these variables only. *)
LEMMA AccountingUnchanged ==
  ASSUME CallAccounting, UNCHANGED <<call, qCall, qYield, finals>>,
         \A c \in Issued : c \in Call /\ (call[c].caller \in joined' => call[c].caller \in joined)
  PROVE  CallAccounting'
<1>1. Issued' = Issued /\ Queued' = Queued
  BY DEF Issued, Queued
<1>. QED BY <1>1 DEF CallAccounting, QueuedOnce, QueuedUnderItsUri, InFlightUnanswered,
                     AnsweredOnce, NoneLost, IsActual

(* The caller of an issued call is in the realm or was in it. *)
CallersKnown == \A c \in Issued : call[c].caller \in joined \cup left

AccountingInv == TypeOK /\ CallAccounting /\ CallersKnown

LEMMA CallersKnownStep ==
  ASSUME AccountingInv, [Next]_vars
  PROVE  CallersKnown'
<1>1. joined \cup left \subseteq joined' \cup left'
  BY DEF Next, vars, JoinSession, LeaveSession, RegRpc, UnRegRpc, CallRpc, YieldFinal, YieldEmit
<1>2. ASSUME \A c \in Call : call'[c].caller = call[c].caller PROVE CallersKnown'
  BY <1>1, <1>2 DEF AccountingInv, CallersKnown, Issued
<1>3. ASSUME NEW s \in Session, NEW p \in Procedure, NEW c \in Call, CallRpc(s, p, c)
      PROVE  CallersKnown'
  <2>1. PICK r : call' = [call EXCEPT ![c] = NewCall(s, p, r)]
    BY <1>3 DEF CallRpc, CallDispatched, CallQueued, NoSuchProcedure
  <2>2. \A x \in Call : call'[x].caller = (IF x = c THEN s ELSE call[x].caller)
    BY <2>1 DEF AccountingInv, TypeOK, NewCall
  <2>3. s \in joined
    BY <1>3 DEF CallRpc
  <2>. QED BY <1>1, <2>2, <2>3 DEF AccountingInv, CallersKnown, Issued
<1>4. ASSUME NEW r \in Registered, NEW rest, ResponseArrived(r, rest)
      PROVE  CallersKnown'
  <2>1. PICK p : p = reg[r].uri
    OBVIOUS
  <2>2. CASE ResolvedOnly(r, rest, p)
    BY <1>2, <2>2 DEF ResolvedOnly
  <2>3. ASSUME NEW i, NEW d, HandedOver(r, rest, p, i, d) PROVE CallersKnown'
    <3>1. \A x \in Call : call'[x].caller = call[x].caller
      BY <2>3 DEF HandedOver, AccountingInv, TypeOK, CallRecord
    <3>. QED BY <1>2, <3>1
  <2>. QED BY <1>4, <2>1, <2>2, <2>3, ResponseCases
<1>5. ASSUME NEW s \in Session, NEW c \in Call, YieldFinal(s, c) \/ YieldEmit(s, c)
      PROVE  CallersKnown'
  <2>1. call[c].reg \in Registered
    BY <1>5 DEF YieldFinal, YieldEmit, Defer, AccountingInv, TypeOK
  <2>. QED BY <1>4, <1>5, <2>1 DEF YieldFinal, YieldEmit
<1>6. ASSUME UNCHANGED call PROVE CallersKnown'
  BY <1>2, <1>6
<1>. QED BY <1>3, <1>5, <1>6
         DEF Next, vars, rpcVars, JoinSession, LeaveSession, RegRpc, UnRegRpc

LEMMA AccountingStep ==
  ASSUME AccountingInv, [Next]_vars
  PROVE  AccountingInv'
<1>1. TypeOK'
  BY TypeStep DEF AccountingInv
<1>2. CallersKnown'
  BY CallersKnownStep
<1>3. \A c \in Issued : c \in Call /\ call[c].caller \in Session
  BY DEF AccountingInv, TypeOK, CallRecord, Issued
<1>4. ASSUME NEW s \in Session, JoinSession(s) PROVE CallAccounting'
  <2>1. \A c \in Issued : call[c].caller # s
    BY <1>4 DEF JoinSession, AccountingInv, CallersKnown
  <2>. QED BY <1>3, <1>4, <2>1, AccountingUnchanged DEF AccountingInv, JoinSession, rpcVars
<1>5. ASSUME NEW s \in Session, LeaveSession(s) PROVE CallAccounting'
  BY <1>3, <1>5, AccountingUnchanged DEF AccountingInv, LeaveSession
<1>6. ASSUME NEW s \in Session, NEW p \in Procedure, NEW n \in TaskLimit,
             NEW r \in Registration, RegRpc(s, p, n, r)
      PROVE  CallAccounting'
  BY <1>3, <1>6, AccountingUnchanged DEF AccountingInv, RegRpc
<1>7. ASSUME NEW s \in Session, NEW r \in Registration, UnRegRpc(s, r)
      PROVE  CallAccounting'
  BY <1>3, <1>7, AccountingUnchanged DEF AccountingInv, UnRegRpc
<1>8. ASSUME NEW s \in Session, NEW p \in Procedure, NEW c \in Call, CallRpc(s, p, c)
      PROVE  CallAccounting'
  BY <1>8, CallAccountingStep DEF AccountingInv
<1>9. ASSUME NEW s \in Session, NEW c \in Call, YieldFinal(s, c)
      PROVE  CallAccounting'
  <2>1. call[c].reg \in Registered /\ qYield \ {c} \in SUBSET qYield
    BY <1>9 DEF YieldFinal, Defer, AccountingInv, TypeOK
  <2>2. \A x \in Call :
          finals'[x] = (IF x \in qYield \ (qYield \ {c}) THEN finals[x] + 1 ELSE finals[x])
    BY <1>9 DEF YieldFinal, Defer, AccountingInv, TypeOK
  <2>. QED BY <1>9, <2>1, <2>2, ResponseAccounting DEF YieldFinal, AccountingInv
<1>10. ASSUME NEW s \in Session, NEW c \in Call, YieldEmit(s, c)
       PROVE  CallAccounting'
  <2>1. call[c].reg \in Registered /\ qYield \in SUBSET qYield
    BY <1>10 DEF YieldEmit, Defer, AccountingInv, TypeOK
  <2>2. \A x \in Call :
          finals'[x] = (IF x \in qYield \ qYield THEN finals[x] + 1 ELSE finals[x])
    BY <1>10 DEF YieldEmit
  <2>. QED BY <1>10, <2>1, <2>2, ResponseAccounting DEF YieldEmit, AccountingInv
<1>11. ASSUME UNCHANGED vars PROVE CallAccounting'
  BY <1>3, <1>11, AccountingUnchanged DEF AccountingInv, vars
<1>12. ASSUME Next PROVE CallAccounting'
  BY <1>4, <1>5, <1>6, <1>7, <1>8, <1>9, <1>10, <1>12 DEF Next
<1>. QED BY <1>1, <1>2, <1>11, <1>12 DEF AccountingInv

LEMMA AccountingInit == Init => AccountingInv
<1> SUFFICES ASSUME Init PROVE AccountingInv
  OBVIOUS
<1>1. Issued = {} /\ \A p \in Procedure : DOMAIN qCall[p] = {}
  BY DEF Init, Issued, NoCall
<1>. QED BY <1>1, TypeInit
         DEF Init, AccountingInv, CallersKnown, CallAccounting, QueuedOnce, QueuedUnderItsUri,
             InFlightUnanswered, AnsweredOnce, NoneLost

(* No call is lost, doubled or answered twice while its caller stays       *)
(* (doCall, checkTasks and responseArrived, lib/realm.ts).                 *)
THEOREM AccountingCorrect == Spec => []CallAccounting
<1>1. AccountingInv /\ [Next]_vars => AccountingInv'
  BY AccountingStep
<1>2. AccountingInv => CallAccounting
  BY DEF AccountingInv
<1>. QED BY <1>1, <1>2, AccountingInit, PTL DEF Spec

-----------------------------------------------------------------------------
(* What holds of the callees: registrations on offer are of sessions that  *)
(* are there, and a call in flight is at a registration of its procedure.  *)
OwnersThere == \A p \in Procedure : \A r \in wSub[p] : reg[r].owner \in joined
FlightUri == \A c \in qYield : call[c].uri = reg[call[c].reg].uri

CalleeInv == AccountingInv /\ OwnersThere /\ FlightUri

(* The call d that is handed over to r waited for the procedure p of r,    *)
(* and was not in flight.                                                  *)
WaitedFor(d, p, r) ==
  /\ d \in Call /\ d \notin qYield
  /\ call[d].uri = p
  /\ \A x \in Call : /\ call'[x].caller = call[x].caller
                     /\ call'[x].uri = call[x].uri
                     /\ call'[x].reg = IF x = d THEN r ELSE call[x].reg

(* What callWorker does to the call it takes from the queue. *)
LEMMA HandedOverCall ==
  ASSUME AccountingInv, NEW r \in Registered, NEW rest, NEW p, p = reg[r].uri,
         NEW i, NEW d, HandedOver(r, rest, p, i, d)
  PROVE  WaitedFor(d, p, r)
<1>1. p \in Procedure /\ r \in Registration
  BY RecordTypes DEF AccountingInv, Registered
<1>2. i \in DOMAIN qCall[p] /\ d = qCall[p][i]
  BY DEF HandedOver, ActualIn
<1>3. d \in Call /\ d \notin qYield /\ call[d].uri = p
  BY <1>1, <1>2 DEF AccountingInv, CallAccounting, QueuedUnderItsUri, Issued
<1>4. TypeOK /\ call' = [call EXCEPT ![d].reg = r]
  BY DEF HandedOver, AccountingInv
<1>5. \A x \in Call : /\ call'[x].caller = call[x].caller
                      /\ call'[x].uri = call[x].uri
                      /\ call'[x].reg = IF x = d THEN r ELSE call[x].reg
  BY <1>1, <1>3, <1>4, RegistrationSet
<1>. QED BY <1>3, <1>5 DEF WaitedFor

(* The registration that answers takes the place that it gave back. *)
LEMMA HandedOverReg ==
  ASSUME AccountingInv, NEW r \in Registered, NEW rest, NEW p,
         NEW i, NEW d, HandedOver(r, rest, p, i, d)
  PROVE  reg' = reg
<1>1. r \in Registration /\ reg[r].requested \in Int
  BY RecordTypes DEF AccountingInv, Registered
<1>2. (reg[r].requested - 1) + 1 = reg[r].requested
  BY <1>1
<1>3. reg \in [Registration -> RegRecord]
  BY DEF AccountingInv, TypeOK
<1>4. [reg[r] EXCEPT !.requested = reg[r].requested] = reg[r]
  BY <1>1, <1>3 DEF RegRecord
<1>. QED BY <1>1, <1>2, <1>3, <1>4 DEF HandedOver

(* A response that pulls nothing from a queue only lowers the counter. *)
LEMMA ResolvedProperties ==
  ASSUME AccountingInv, NEW r \in Registered, NEW rest, NEW p,
         ResolvedOnly(r, rest, p)
  PROVE  /\ call' = call /\ qYield' = rest
         /\ \A x \in Registration :
              /\ reg'[x].owner = reg[x].owner
              /\ reg'[x].uri = reg[x].uri
              /\ reg'[x].limit = reg[x].limit
              /\ reg'[x].requested = IF x = r THEN reg[r].requested - 1 ELSE reg[x].requested
<1>1. r \in Registration /\ reg[r].requested - 1 \in Int
  BY RecordTypes DEF AccountingInv, Registered
<1>. QED BY <1>1, RequestedOnly DEF ResolvedOnly, AccountingInv

(* The registration that answers is on record. *)
LEMMA DeferRegistered ==
  ASSUME AccountingInv, NEW s \in Session, NEW c \in Call, Defer(s, c)
  PROVE  /\ call[c].reg \in Registered /\ call[c].reg \in Registration
         /\ c \in qYield /\ reg[call[c].reg].owner \in joined
  BY DEF Defer, AccountingInv, TypeOK, Registered

(* A response leaves the callees as they are. *)
LEMMA ResponseCallees ==
  ASSUME CalleeInv, NEW r \in Registered, NEW rest \in SUBSET qYield,
         ResponseArrived(r, rest), UNCHANGED <<joined, wSub>>
  PROVE  OwnersThere' /\ FlightUri'
<1>1. /\ \A p \in Procedure : wSub[p] \subseteq Registration
      /\ qYield \subseteq Call
      /\ \A c \in qYield : call[c].reg \in Registration
      /\ r \in Registration
  BY DEF CalleeInv, AccountingInv, TypeOK, Registered
<1>p. PICK p : p = reg[r].uri
  OBVIOUS
<1>2. CASE ResolvedOnly(r, rest, p)
  <2>1. /\ call' = call /\ qYield' = rest
        /\ \A x \in Registration : reg'[x].owner = reg[x].owner /\ reg'[x].uri = reg[x].uri
    BY <1>p, <1>2, ResolvedProperties DEF CalleeInv
  <2>. QED BY <1>1, <2>1 DEF CalleeInv, OwnersThere, FlightUri
<1>3. ASSUME NEW i, NEW d, HandedOver(r, rest, p, i, d)
      PROVE  OwnersThere' /\ FlightUri'
  <2>1. WaitedFor(d, p, r)
    BY <1>p, <1>3, HandedOverCall DEF CalleeInv
  <2>2. qYield' = rest \cup {d} /\ reg' = reg
    BY <1>3, HandedOverReg DEF HandedOver, CalleeInv
  <2>3. OwnersThere'
    BY <2>2 DEF CalleeInv, OwnersThere
  <2>4. FlightUri'
    BY <1>p, <1>1, <2>1, <2>2 DEF CalleeInv, FlightUri, WaitedFor
  <2>. QED BY <2>3, <2>4
<1>. QED BY <1>p, <1>2, <1>3, ResponseCases

(* No step breaks CalleeInv. *)
LEMMA CalleeStep ==
  ASSUME CalleeInv, [Next]_vars
  PROVE  CalleeInv'
<1>1. AccountingInv'
  BY AccountingStep DEF CalleeInv
<1>2. /\ \A p \in Procedure : wSub[p] \subseteq Registration
      /\ \A p \in Procedure : \A r \in wSub[p] : reg[r].uri = p
      /\ qYield \subseteq Call
      /\ \A c \in qYield : call[c].reg \in Registered /\ c \in Issued
      /\ DOMAIN reg = Registration
      /\ DOMAIN call = Call
      /\ DOMAIN wSub = Procedure
  BY DEF CalleeInv, AccountingInv, TypeOK
<1>3. ASSUME NEW s \in Session, JoinSession(s) PROVE OwnersThere' /\ FlightUri'
  BY <1>3 DEF CalleeInv, OwnersThere, FlightUri, JoinSession, rpcVars
<1>4. ASSUME NEW s \in Session, LeaveSession(s) PROVE OwnersThere' /\ FlightUri'
  BY <1>4 DEF CalleeInv, OwnersThere, FlightUri, LeaveSession, SubsWithout
<1>5. ASSUME NEW s \in Session, NEW p \in Procedure, NEW n \in TaskLimit,
             NEW r \in Registration, RegRpc(s, p, n, r)
      PROVE  OwnersThere' /\ FlightUri'
  <2>1. \A x \in Registered : reg'[x] = reg[x]
    BY <1>5 DEF RegRpc, Registered
  <2>2. \A q \in Procedure : wSub[q] \subseteq Registered
    BY <1>2, ProcedureAssumption DEF Registered
  <2>3. reg'[r].owner = s /\ s \in joined /\ joined' = joined
    BY <1>2, <1>5 DEF RegRpc
  <2>4. OwnersThere'
    BY <1>2, <1>5, <2>1, <2>2, <2>3 DEF CalleeInv, OwnersThere, RegRpc
  <2>5. FlightUri'
    BY <1>2, <1>5, <2>1 DEF CalleeInv, FlightUri, RegRpc
  <2>. QED BY <2>4, <2>5
<1>6. ASSUME NEW s \in Session, NEW r \in Registration, UnRegRpc(s, r)
      PROVE  OwnersThere' /\ FlightUri'
  BY <1>2, <1>6 DEF CalleeInv, OwnersThere, FlightUri, UnRegRpc
<1>7. ASSUME NEW s \in Session, NEW p \in Procedure, NEW c \in Call, CallRpc(s, p, c)
      PROVE  OwnersThere' /\ FlightUri'
  <2>1. c \notin qYield /\ UNCHANGED <<joined, wSub>>
    BY <1>2, <1>7 DEF CallRpc
  <2>2. PICK r : call' = [call EXCEPT ![c] = NewCall(s, p, r)]
    BY <1>7 DEF CallRpc, CallDispatched, CallQueued, NoSuchProcedure
  <2>3. \A x \in Call : x # c => call'[x] = call[x]
    BY <1>2, <2>2
  <2>4. CASE CallDispatched(s, p, c)
    <3>1. PICK q \in wSub[p] :
             /\ call' = [call EXCEPT ![c] = NewCall(s, p, q)]
             /\ reg' = [reg EXCEPT ![q].requested = @ + 1]
             /\ qYield' = qYield \cup {c}
      BY <2>4 DEF CallDispatched
    <3>2. q \in Registration /\ reg[q].uri = p
      BY <1>2
    <3>3. \A x \in Registration : reg'[x].owner = reg[x].owner /\ reg'[x].uri = reg[x].uri
      BY <3>1, <3>2, RequestedOnly, RecordTypes DEF CalleeInv, AccountingInv
    <3>4. call'[c].uri = p /\ call'[c].reg = q
      BY <1>2, <3>1 DEF NewCall
    <3>5. \A x \in qYield : call[x].reg \in Registration
      BY <1>2 DEF Registered
    <3>. QED BY <1>2, <2>1, <2>3, <3>1, <3>2, <3>3, <3>4, <3>5 DEF CalleeInv, OwnersThere, FlightUri
  <2>5. CASE CallQueued(s, p, c) \/ NoSuchProcedure(s, p, c)
    <3>1. UNCHANGED <<reg, qYield>>
      BY <2>5 DEF CallQueued, NoSuchProcedure
    <3>. QED BY <1>2, <2>1, <2>3, <3>1 DEF CalleeInv, OwnersThere, FlightUri
  <2>. QED BY <1>7, <2>4, <2>5 DEF CallRpc
<1>8. ASSUME NEW s \in Session, NEW c \in Call, YieldFinal(s, c)
      PROVE  OwnersThere' /\ FlightUri'
  <2>1. call[c].reg \in Registered /\ qYield \ {c} \in SUBSET qYield
    BY <1>8, DeferRegistered DEF YieldFinal, CalleeInv
  <2>. QED BY <1>8, <2>1, ResponseCallees DEF YieldFinal
<1>9. ASSUME NEW s \in Session, NEW c \in Call, YieldEmit(s, c)
      PROVE  OwnersThere' /\ FlightUri'
  <2>1. call[c].reg \in Registered /\ qYield \in SUBSET qYield
    BY <1>9, DeferRegistered DEF YieldEmit, CalleeInv
  <2>. QED BY <1>9, <2>1, ResponseCallees DEF YieldEmit
<1>10. ASSUME UNCHANGED vars PROVE OwnersThere' /\ FlightUri'
  BY <1>10 DEF CalleeInv, OwnersThere, FlightUri, vars
<1>11. ASSUME Next PROVE OwnersThere' /\ FlightUri'
  BY <1>3, <1>4, <1>5, <1>6, <1>7, <1>8, <1>9, <1>11 DEF Next
<1>. QED BY <1>1, <1>10, <1>11 DEF CalleeInv

(* CalleeInv holds at the start. *)
LEMMA CalleeInit == Init => CalleeInv
<1> SUFFICES ASSUME Init PROVE CalleeInv
  OBVIOUS
<1>1. qYield = {} /\ \A p \in Procedure : wSub[p] = {}
  BY DEF Init
<1>. QED BY <1>1, AccountingInit DEF CalleeInv, OwnersThere, FlightUri

-----------------------------------------------------------------------------
(* A call that comes in flight is sent to a session that is there. *)
LEMMA DispatchStep ==
  ASSUME CalleeInv, [Next]_vars, NEW x \in qYield' \ qYield
  PROVE  reg'[call'[x].reg].owner \in joined' /\ reg'[call'[x].reg].uri = call'[x].uri
<1>1. /\ \A p \in Procedure : wSub[p] \subseteq Registration
      /\ \A p \in Procedure : \A r \in wSub[p] : reg[r].uri = p
      /\ DOMAIN call = Call
  BY DEF CalleeInv, AccountingInv, TypeOK
<1>2. ASSUME NEW s \in Session, NEW p \in Procedure, NEW c \in Call, CallRpc(s, p, c)
      PROVE  reg'[call'[x].reg].owner \in joined' /\ reg'[call'[x].reg].uri = call'[x].uri
  <2>1. CallDispatched(s, p, c) /\ joined' = joined
    BY <1>2 DEF CallRpc, CallQueued, NoSuchProcedure
  <2>2. PICK r \in wSub[p] :
           /\ call' = [call EXCEPT ![c] = NewCall(s, p, r)]
           /\ reg' = [reg EXCEPT ![r].requested = @ + 1]
           /\ qYield' = qYield \cup {c}
    BY <2>1 DEF CallDispatched
  <2>3. r \in Registration /\ reg[r].uri = p /\ reg[r].owner \in joined
    BY <1>1 DEF CalleeInv, OwnersThere
  <2>4. reg'[r].owner = reg[r].owner /\ reg'[r].uri = reg[r].uri
    BY <2>2, <2>3, RequestedOnly, RecordTypes DEF CalleeInv, AccountingInv
  <2>5. x = c /\ call'[c].uri = p /\ call'[c].reg = r
    BY <1>1, <2>2 DEF NewCall
  <2>. QED BY <2>1, <2>3, <2>4, <2>5
<1>3. ASSUME NEW r \in Registered, NEW rest \in SUBSET qYield, reg[r].owner \in joined,
             ResponseArrived(r, rest), joined' = joined
      PROVE  reg'[call'[x].reg].owner \in joined' /\ reg'[call'[x].reg].uri = call'[x].uri
  <2>p. PICK p : p = reg[r].uri
    OBVIOUS
  <2>1. ~ResolvedOnly(r, rest, p)
    BY DEF ResolvedOnly
  <2>2. PICK i, d : HandedOver(r, rest, p, i, d)
    BY <1>3, <2>p, <2>1, ResponseCases
  <2>3. x = d
    BY <2>2 DEF HandedOver
  <2>4. reg' = reg
    BY <2>2, HandedOverReg DEF CalleeInv
  <2>5. WaitedFor(d, p, r)
    BY <2>p, <2>2, HandedOverCall DEF CalleeInv
  <2>6. call'[d].uri = p /\ call'[d].reg = r
    BY <2>5 DEF WaitedFor
  <2>. QED BY <1>3, <2>p, <2>3, <2>4, <2>6
<1>4. ASSUME NEW s \in Session, NEW c \in Call, YieldFinal(s, c) \/ YieldEmit(s, c)
      PROVE  reg'[call'[x].reg].owner \in joined' /\ reg'[call'[x].reg].uri = call'[x].uri
  <2>1. call[c].reg \in Registered /\ reg[call[c].reg].owner \in joined
    BY <1>4, DeferRegistered DEF YieldFinal, YieldEmit, CalleeInv
  <2>2. /\ ResponseArrived(call[c].reg, qYield \ {c}) \/ ResponseArrived(call[c].reg, qYield)
        /\ joined' = joined
    BY <1>4 DEF YieldFinal, YieldEmit
  <2>3. qYield \ {c} \in SUBSET qYield /\ qYield \in SUBSET qYield
    OBVIOUS
  <2>. QED BY <1>3, <2>1, <2>2, <2>3
<1>. QED BY <1>2, <1>4
         DEF Next, vars, rpcVars, JoinSession, LeaveSession, RegRpc, UnRegRpc

(* An invocation is sent only to a session that is in the realm, and to a  *)
(* registration of the procedure that was called (callWorker).             *)
THEOREM DispatchToLiveCorrect == Spec => DispatchToLive
<1>1. CalleeInv /\ [Next]_vars => CalleeInv'
  BY CalleeStep
<1>2. CalleeInv /\ [Next]_vars =>
        [\A c \in qYield' \ qYield :
           /\ reg'[call'[c].reg].owner \in joined'
           /\ reg'[call'[c].reg].uri = call'[c].uri]_vars
  BY DispatchStep
<1>. QED BY <1>1, <1>2, CalleeInit, PTL DEF Spec, DispatchToLive

-----------------------------------------------------------------------------
(* Nothing was sent through a registration that is not there. *)
EmitsRegistered == \A r \in Registration \ Registered : emitted[r] = 0

BoundInv == CalleeInv /\ ConcurrencyBound /\ EmitsRegistered

(* The calls in flight are finitely many, and the counter of a             *)
(* registration is an integer.                                             *)
LEMMA FlightFinite ==
  ASSUME AccountingInv, NEW r
  PROVE  IsFiniteSet(InFlight(r)) /\ Cardinality(InFlight(r)) \in Nat
<1>1. InFlight(r) \in SUBSET Call
  BY DEF InFlight, AccountingInv, TypeOK
<1>. QED BY <1>1, CallAssumption, FS_Subset, FS_CardinalityType

(* One registration keeps the bound.                                       *)
Bounded(r) ==
  /\ reg[r].requested = Cardinality(InFlight(r)) - emitted[r]
  /\ reg[r].limit >= 0 => Cardinality(InFlight(r)) <= reg[r].limit + emitted[r]

(* A registration of which nothing changed keeps the bound. *)
LEMMA BoundKept ==
  ASSUME NEW r \in Registration, Bounded(r), reg'[r] = reg[r], emitted'[r] = emitted[r],
         InFlight(r)' = InFlight(r)
  PROVE  Bounded(r)'
  BY DEF Bounded

(* A call more in flight, with the counter. *)
LEMMA BoundGrows ==
  ASSUME AccountingInv, NEW r \in Registration, Bounded(r), NEW c, c \notin InFlight(r),
         IsAble(reg[r].limit, reg[r].requested),
         InFlight(r)' = InFlight(r) \cup {c}, emitted'[r] = emitted[r],
         reg'[r].limit = reg[r].limit, reg'[r].requested = reg[r].requested + 1
  PROVE  Bounded(r)'
<1>1. Cardinality(InFlight(r)') = Cardinality(InFlight(r)) + 1
  BY FlightFinite, FS_AddElement
<1>2. /\ Cardinality(InFlight(r)) \in Nat
      /\ reg[r].limit \in Int /\ reg[r].requested \in Int /\ emitted[r] \in Nat
  BY FlightFinite, RecordTypes DEF AccountingInv, TypeOK
<1>3. /\ reg'[r].requested = Cardinality(InFlight(r)') - emitted'[r]
      /\ reg'[r].limit >= 0 => Cardinality(InFlight(r)') <= reg'[r].limit + emitted'[r]
  BY <1>1, <1>2 DEF Bounded, IsAble
<1>. QED BY <1>3 DEF Bounded

(* A call less in flight, with the counter. *)
LEMMA BoundShrinks ==
  ASSUME AccountingInv, NEW r \in Registration, Bounded(r),
         \/ /\ \E c \in InFlight(r) : InFlight(r)' = InFlight(r) \ {c}
            /\ emitted'[r] = emitted[r]
         \/ InFlight(r)' = InFlight(r) /\ emitted'[r] = emitted[r] + 1,
         reg'[r].limit = reg[r].limit, reg'[r].requested = reg[r].requested - 1
  PROVE  Bounded(r)'
<1>1. /\ Cardinality(InFlight(r)) \in Nat
      /\ reg[r].limit \in Int /\ reg[r].requested \in Int /\ emitted[r] \in Nat
  BY FlightFinite, RecordTypes DEF AccountingInv, TypeOK
<1>2. \/ /\ Cardinality(InFlight(r)') = Cardinality(InFlight(r)) - 1
         /\ emitted'[r] = emitted[r]
      \/ /\ Cardinality(InFlight(r)') = Cardinality(InFlight(r))
         /\ emitted'[r] = emitted[r] + 1
  BY FlightFinite, FS_RemoveElement
<1>3. /\ reg'[r].requested = Cardinality(InFlight(r)') - emitted'[r]
      /\ reg'[r].limit >= 0 => Cardinality(InFlight(r)') <= reg'[r].limit + emitted'[r]
  BY <1>1, <1>2 DEF Bounded
<1>. QED BY <1>3 DEF Bounded

(* An answered call c leaves the place to a call d that waited: as many    *)
(* are in flight as before.                                                *)
LEMMA BoundExchanged ==
  ASSUME AccountingInv, NEW r \in Registration, Bounded(r), NEW d, d \notin InFlight(r),
         IsAble(reg[r].limit, reg[r].requested - 1),
         \/ /\ \E c \in InFlight(r) : InFlight(r)' = (InFlight(r) \ {c}) \cup {d}
            /\ emitted'[r] = emitted[r]
         \/ InFlight(r)' = InFlight(r) \cup {d} /\ emitted'[r] = emitted[r] + 1,
         reg'[r] = reg[r]
  PROVE  Bounded(r)'
<1>1. /\ Cardinality(InFlight(r)) \in Nat
      /\ reg[r].limit \in Int /\ reg[r].requested \in Int /\ emitted[r] \in Nat
  BY FlightFinite, RecordTypes DEF AccountingInv, TypeOK
<1>2. \/ /\ Cardinality(InFlight(r)') = Cardinality(InFlight(r))
         /\ emitted'[r] = emitted[r]
      \/ /\ Cardinality(InFlight(r)') = Cardinality(InFlight(r)) + 1
         /\ emitted'[r] = emitted[r] + 1
  <2>1. ASSUME NEW c \in InFlight(r), InFlight(r)' = (InFlight(r) \ {c}) \cup {d}
        PROVE  Cardinality(InFlight(r)') = Cardinality(InFlight(r))
    <3>1. /\ IsFiniteSet(InFlight(r) \ {c})
          /\ Cardinality(InFlight(r) \ {c}) = Cardinality(InFlight(r)) - 1
      BY FlightFinite, FS_RemoveElement
    <3>2. d \notin InFlight(r) \ {c}
      OBVIOUS
    <3>3. Cardinality((InFlight(r) \ {c}) \cup {d}) = Cardinality(InFlight(r) \ {c}) + 1
      BY <3>1, <3>2, FS_AddElement
    <3>. QED BY <1>1, <2>1, <3>1, <3>3
  <2>2. ASSUME InFlight(r)' = InFlight(r) \cup {d}
        PROVE  Cardinality(InFlight(r)') = Cardinality(InFlight(r)) + 1
    BY <2>2, FlightFinite, FS_AddElement
  <2>. QED BY <2>1, <2>2
<1>3. /\ reg'[r].requested = Cardinality(InFlight(r)') - emitted'[r]
      /\ reg'[r].limit >= 0 => Cardinality(InFlight(r)') <= reg'[r].limit + emitted'[r]
  BY <1>1, <1>2 DEF Bounded, IsAble
<1>. QED BY <1>3 DEF Bounded

(* A response, progressive or final, keeps the bound of every registration. *)
LEMMA ResponseBound ==
  ASSUME BoundInv, NEW c \in qYield, NEW r, r = call[c].reg, NEW rest,
         ResponseArrived(r, rest),
         \/ rest = qYield \ {c} /\ emitted' = emitted
         \/ rest = qYield /\ emitted' = [emitted EXCEPT ![r] = @ + 1]
  PROVE  ConcurrencyBound' /\ EmitsRegistered'
<1>1. /\ r \in Registered /\ r \in Registration /\ c \in InFlight(r)
      /\ qYield \subseteq Call
      /\ emitted \in [Registration -> Nat]
  BY DEF BoundInv, CalleeInv, AccountingInv, TypeOK, Registered, InFlight
<1>2. \A x \in Registered : Bounded(x)
  BY DEF BoundInv, ConcurrencyBound, Bounded
<1>3. AccountingInv
  BY DEF BoundInv, CalleeInv
<1>4. \A x \in Registration : x # r => emitted'[x] = emitted[x]
  BY <1>1
<1>5. PICK p : p = reg[r].uri
  OBVIOUS
<1>6. ASSUME Bounded(r)',
             \A x \in Registration : reg'[x].uri = reg[x].uri,
             \A x \in Registration : x # r => reg'[x] = reg[x] /\ InFlight(x)' = InFlight(x)
      PROVE  ConcurrencyBound' /\ EmitsRegistered'
  <2>1. Registered' = Registered
    BY <1>6 DEF Registered
  <2>2. \A x \in Registered : x \in Registration
    BY DEF Registered
  <2>3. \A x \in Registered : Bounded(x)'
    BY <1>2, <1>4, <1>6, <2>2, BoundKept
  <2>4. ConcurrencyBound'
    BY <2>1, <2>3 DEF ConcurrencyBound, Bounded
  <2>5. EmitsRegistered'
    BY <1>1, <1>4, <2>1 DEF BoundInv, EmitsRegistered
  <2>. QED BY <2>4, <2>5
<1>7. CASE ResolvedOnly(r, rest, p)
  <2>1. /\ call' = call /\ qYield' = rest
        /\ \A x \in Registration :
              /\ reg'[x].uri = reg[x].uri
              /\ reg'[x].limit = reg[x].limit
              /\ reg'[x].requested = IF x = r THEN reg[r].requested - 1 ELSE reg[x].requested
    BY <1>1, <1>3, <1>7, ResolvedProperties
  <2>2. \A x \in Registration : x # r => reg'[x] = reg[x]
    BY <1>3, <1>7 DEF ResolvedOnly, AccountingInv, TypeOK
  <2>3. \A x : InFlight(x)' = InFlight(x) \ (qYield \ rest)
    BY <2>1 DEF InFlight
  <2>4. \A x : x # r => InFlight(x)' = InFlight(x)
    BY <2>3 DEF InFlight
  <2>5. \/ InFlight(r)' = InFlight(r) \ {c} /\ emitted'[r] = emitted[r]
        \/ InFlight(r)' = InFlight(r) /\ emitted'[r] = emitted[r] + 1
    BY <1>1, <2>3 DEF InFlight
  <2>6. Bounded(r)'
    BY <1>1, <1>2, <1>3, <2>1, <2>5, BoundShrinks
  <2>. QED BY <1>6, <2>1, <2>2, <2>4, <2>6
<1>8. ASSUME NEW i, NEW d, HandedOver(r, rest, p, i, d)
      PROVE  ConcurrencyBound' /\ EmitsRegistered'
  <2>1. reg' = reg /\ WaitedFor(d, p, r) /\ qYield' = rest \cup {d}
    BY <1>1, <1>3, <1>5, <1>8, HandedOverReg, HandedOverCall DEF HandedOver
  <2>2. /\ d \in Call /\ d \notin qYield
        /\ \A x \in Call : call'[x].reg = IF x = d THEN r ELSE call[x].reg
    BY <2>1 DEF WaitedFor
  <2>3. \A x : x # r => InFlight(x)' = InFlight(x)
    <3> SUFFICES ASSUME NEW x, x # r PROVE InFlight(x)' = InFlight(x)
      OBVIOUS
    <3>1. \A y : y \in InFlight(x)' <=> y \in InFlight(x)
      BY <1>1, <2>1, <2>2 DEF InFlight
    <3>. QED BY <3>1 DEF InFlight
  <2>4. InFlight(r)' = {y \in rest : call[y].reg = r} \cup {d}
    <3>1. \A y : y \in InFlight(r)' <=> y \in {z \in rest : call[z].reg = r} \cup {d}
      BY <1>1, <2>1, <2>2 DEF InFlight
    <3>. QED BY <3>1
  <2>5. \/ InFlight(r)' = (InFlight(r) \ {c}) \cup {d} /\ emitted'[r] = emitted[r]
        \/ InFlight(r)' = InFlight(r) \cup {d} /\ emitted'[r] = emitted[r] + 1
    <3>1. CASE rest = qYield \ {c} /\ emitted' = emitted
      <4>1. {y \in rest : call[y].reg = r} = InFlight(r) \ {c}
        BY <3>1 DEF InFlight
      <4>. QED BY <2>4, <3>1, <4>1
    <3>2. CASE rest = qYield /\ emitted' = [emitted EXCEPT ![r] = @ + 1]
      <4>1. {y \in rest : call[y].reg = r} = InFlight(r)
        BY <3>2 DEF InFlight
      <4>. QED BY <1>1, <2>4, <3>2, <4>1
    <3>. QED BY <3>1, <3>2
  <2>6. IsAble(reg[r].limit, reg[r].requested - 1)
    <3>1. d \in qYield' /\ d \notin rest
      BY <2>1, <2>2
    <3>2. CASE NoTaskFound(r, rest) \/ StillBusy(r, rest)
      BY <3>1, <3>2 DEF NoTaskFound, StillBusy, ResolveOnly
    <3>3. CASE NextTaskTaken(r, rest)
      BY <3>3 DEF NextTaskTaken, TaskResolved
    <3>. QED BY <3>2, <3>3 DEF ResponseArrived
  <2>7. d \notin InFlight(r)
    BY <2>2 DEF InFlight
  <2>8. Bounded(r)'
    BY <1>1, <1>2, <1>3, <2>1, <2>5, <2>6, <2>7, BoundExchanged
  <2>. QED BY <1>6, <2>1, <2>3, <2>8
<1>. QED BY <1>5, <1>7, <1>8, ResponseCases

(* A step that leaves the calls in flight alone keeps the bound. *)
LEMMA BoundUnchanged ==
  ASSUME BoundInv, UNCHANGED <<reg, qYield, emitted>>,
         \A c \in qYield : call'[c].reg = call[c].reg
  PROVE  ConcurrencyBound' /\ EmitsRegistered'
<1>1. \A r : InFlight(r)' = InFlight(r)
  BY DEF InFlight
<1>2. Registered' = Registered
  BY DEF Registered
<1>. QED BY <1>1, <1>2 DEF BoundInv, ConcurrencyBound, EmitsRegistered

(* A call sent to a registration that has a free slot keeps the bound. *)
LEMMA BoundDispatched ==
  ASSUME BoundInv, NEW s \in Session, NEW p \in Procedure, NEW c \in Call,
         c \notin qYield, CallDispatched(s, p, c), emitted' = emitted
  PROVE  ConcurrencyBound' /\ EmitsRegistered'
<1>1. PICK r \in wSub[p] :
        /\ Able(r)
        /\ call' = [call EXCEPT ![c] = NewCall(s, p, r)]
        /\ reg' = [reg EXCEPT ![r].requested = @ + 1]
        /\ qYield' = qYield \cup {c}
  BY DEF CallDispatched
<1>2. AccountingInv /\ TypeOK
  BY DEF BoundInv, CalleeInv, AccountingInv
<1>3. r \in Registration /\ reg[r].uri = p /\ r \in Registered
  BY <1>2, ProcedureAssumption DEF TypeOK, Registered
<1>4. \A x \in Registration :
        /\ reg'[x].uri = reg[x].uri
        /\ reg'[x].limit = reg[x].limit
        /\ reg'[x].requested = IF x = r THEN reg[r].requested + 1 ELSE reg[x].requested
  <2>1. /\ reg[r].requested + 1 \in Int
        /\ reg' = [reg EXCEPT ![r].requested = reg[r].requested + 1]
    BY <1>1, <1>2, <1>3, RecordTypes
  <2>. QED BY <1>2, <1>3, <2>1, RequestedOnly
<1>5. \A x \in Registration : x # r => reg'[x] = reg[x]
  BY <1>1, <1>2 DEF TypeOK
<1>6. call'[c].reg = r /\ \A x \in Call : x # c => call'[x] = call[x]
  BY <1>1, <1>2 DEF TypeOK, NewCall
<1>7. qYield \subseteq Call
  BY <1>2 DEF TypeOK
<1>8. InFlight(r)' = InFlight(r) \cup {c}
  BY <1>1, <1>6, <1>7 DEF InFlight
<1>9. \A x : x # r => InFlight(x)' = InFlight(x)
  <2> SUFFICES ASSUME NEW x, x # r PROVE InFlight(x)' = InFlight(x)
    OBVIOUS
  <2>1. \A y : y \in InFlight(x)' <=> y \in InFlight(x)
    BY <1>1, <1>6, <1>7 DEF InFlight
  <2>. QED BY <2>1 DEF InFlight
<1>10. \A x \in Registered : x \in Registration /\ Bounded(x)
  BY DEF BoundInv, ConcurrencyBound, Bounded, Registered
<1>11. c \notin InFlight(r) /\ IsAble(reg[r].limit, reg[r].requested)
  BY <1>1 DEF InFlight, Able
<1>12. Bounded(r)'
  BY <1>2, <1>3, <1>4, <1>8, <1>10, <1>11, BoundGrows
<1>13. \A x \in Registered : x # r => Bounded(x)'
  BY <1>5, <1>9, <1>10, BoundKept
<1>14. Registered' = Registered
  BY <1>4 DEF Registered
<1>15. ConcurrencyBound'
  BY <1>12, <1>13, <1>14 DEF ConcurrencyBound, Bounded
<1>16. EmitsRegistered'
  BY <1>14 DEF BoundInv, EmitsRegistered
<1>. QED BY <1>15, <1>16

(* No step breaks BoundInv. *)
LEMMA BoundStep ==
  ASSUME BoundInv, [Next]_vars
  PROVE  BoundInv'
<1>1. CalleeInv'
  BY CalleeStep DEF BoundInv
<1>2. /\ AccountingInv /\ DOMAIN call = Call /\ DOMAIN reg = Registration
      /\ qYield \subseteq Call
      /\ \A c \in qYield : c \in Issued /\ call[c].reg \in Registered
  BY DEF BoundInv, CalleeInv, AccountingInv, TypeOK
<1>3. ASSUME UNCHANGED <<reg, call, qYield, emitted>> PROVE ConcurrencyBound' /\ EmitsRegistered'
  BY <1>3, BoundUnchanged
<1>4. ASSUME NEW s \in Session, NEW p \in Procedure, NEW n \in TaskLimit,
             NEW r \in Registration, RegRpc(s, p, n, r)
      PROVE  ConcurrencyBound' /\ EmitsRegistered'
  <2>1. InFlight(r) = {} /\ emitted[r] = 0
    BY <1>2, <1>4 DEF RegRpc, InFlight, BoundInv, EmitsRegistered
  <2>2. \A x : InFlight(x)' = InFlight(x)
    BY <1>4 DEF RegRpc, InFlight
  <2>3. /\ reg'[r] = [owner |-> s, uri |-> p, limit |-> n, requested |-> 0]
        /\ \A x \in Registration : x # r => reg'[x] = reg[x]
    BY <1>2, <1>4 DEF RegRpc
  <2>4. Registered' = Registered \cup {r} /\ emitted' = emitted
    BY <1>4, <2>3, ProcedureAssumption DEF RegRpc, Registered
  <2>5. Cardinality(InFlight(r)) = 0 /\ n \in Int
    BY <2>1, FS_EmptySet, TaskLimitAssumption
  <2>6. Bounded(r)'
    <3>1. reg'[r].limit = n /\ reg'[r].requested = 0
      BY <2>3
    <3>2. Cardinality(InFlight(r)') = 0 /\ emitted'[r] = 0
      BY <2>1, <2>2, <2>4, <2>5
    <3>. QED BY <2>5, <3>1, <3>2 DEF Bounded
  <2>7. \A x \in Registered : x \in Registration /\ Bounded(x)
    BY DEF BoundInv, ConcurrencyBound, Bounded, Registered
  <2>8. \A x \in Registered : x # r => Bounded(x)'
    BY <2>2, <2>3, <2>4, <2>7, BoundKept
  <2>9. ConcurrencyBound'
    BY <2>4, <2>6, <2>8 DEF ConcurrencyBound, Bounded
  <2>10. EmitsRegistered'
    BY <2>4 DEF BoundInv, EmitsRegistered
  <2>. QED BY <2>9, <2>10
<1>5. ASSUME NEW s \in Session, NEW p \in Procedure, NEW c \in Call, CallRpc(s, p, c)
      PROVE  ConcurrencyBound' /\ EmitsRegistered'
  <2>1. c \notin qYield /\ emitted' = emitted
    BY <1>2, <1>5 DEF CallRpc
  <2>2. CASE CallDispatched(s, p, c)
    BY <2>1, <2>2, BoundDispatched
  <2>3. CASE CallQueued(s, p, c) \/ NoSuchProcedure(s, p, c)
    <3>1. /\ call' = [call EXCEPT ![c] = NewCall(s, p, None)]
          /\ UNCHANGED <<reg, qYield>>
      BY <2>3 DEF CallQueued, NoSuchProcedure
    <3>2. \A x \in qYield : call'[x].reg = call[x].reg
      BY <1>2, <2>1, <3>1
    <3>. QED BY <2>1, <3>1, <3>2, BoundUnchanged
  <2>. QED BY <1>5, <2>2, <2>3 DEF CallRpc
<1>6. ASSUME NEW s \in Session, NEW c \in Call, YieldFinal(s, c)
      PROVE  ConcurrencyBound' /\ EmitsRegistered'
  <2>1. /\ c \in qYield /\ emitted' = emitted
        /\ ResponseArrived(call[c].reg, qYield \ {c})
    BY <1>6 DEF YieldFinal, Defer
  <2>. QED BY <2>1, ResponseBound
<1>7. ASSUME NEW s \in Session, NEW c \in Call, YieldEmit(s, c)
      PROVE  ConcurrencyBound' /\ EmitsRegistered'
  <2>1. /\ c \in qYield /\ emitted' = [emitted EXCEPT ![call[c].reg] = @ + 1]
        /\ ResponseArrived(call[c].reg, qYield)
    BY <1>7 DEF YieldEmit, Defer
  <2>. QED BY <2>1, ResponseBound
<1>8. ASSUME Next PROVE ConcurrencyBound' /\ EmitsRegistered'
  BY <1>3, <1>4, <1>5, <1>6, <1>7, <1>8
     DEF Next, JoinSession, LeaveSession, UnRegRpc, rpcVars
<1>. QED BY <1>1, <1>3, <1>8 DEF BoundInv, vars

(* BoundInv holds at the start. *)
LEMMA BoundInit == Init => BoundInv
<1> SUFFICES ASSUME Init PROVE BoundInv
  OBVIOUS
<1>1. Registered = {} /\ \A r \in Registration : emitted[r] = 0
  BY DEF Init, Registered, NoReg
<1>. QED BY <1>1, CalleeInit DEF BoundInv, ConcurrencyBound, EmitsRegistered

(* The counter of a registration is the number of its calls in flight less *)
(* the progress results, and the limit bounds the calls in flight but for  *)
(* those (isAble, taskRequested and taskResolved, lib/realm.ts).           *)
THEOREM ConcurrencyBoundCorrect == Spec => []ConcurrencyBound
<1>1. BoundInv /\ [Next]_vars => BoundInv'
  BY BoundStep
<1>2. BoundInv => ConcurrencyBound
  BY DEF BoundInv
<1>. QED BY <1>1, <1>2, BoundInit, PTL DEF Spec

-----------------------------------------------------------------------------
(* A call that waits for p is served when one in flight comes back, or     *)
(* never for the limit 0.                                                  *)
Served(p) == (\E c \in qYield : call[c].uri = p) \/ ZeroLimit(p)

(* A registration without a free slot has a call in flight. *)
LEMMA BusyServes ==
  BoundInv => \A r \in Registered : ~Able(r) => Served(reg[r].uri)
<1> SUFFICES ASSUME BoundInv, NEW r \in Registered, ~Able(r) PROVE Served(reg[r].uri)
  OBVIOUS
<1>1. /\ r \in Registration /\ AccountingInv
      /\ reg[r].limit \in Int /\ reg[r].requested \in Int /\ emitted[r] \in Nat
  BY RecordTypes DEF BoundInv, CalleeInv, AccountingInv, TypeOK, Registered
<1>2. reg[r].limit >= 0 /\ reg[r].requested >= reg[r].limit
  BY <1>1 DEF Able, IsAble
<1>3. CASE reg[r].limit = 0
  BY <1>1, <1>3 DEF Served, ZeroLimit
<1>4. CASE reg[r].limit # 0
  <2>1. IsFiniteSet(InFlight(r)) /\ Cardinality(InFlight(r)) \in Nat
    BY <1>1, FlightFinite
  <2>2. Cardinality(InFlight(r)) # 0
    BY <1>1, <1>2, <1>4, <2>1 DEF BoundInv, ConcurrencyBound
  <2>3. PICK c : c \in InFlight(r)
    BY <2>1, <2>2, FS_EmptySet
  <2>4. c \in qYield /\ call[c].reg = r
    BY <2>3 DEF InFlight
  <2>. QED BY <2>4 DEF Served, BoundInv, CalleeInv, FlightUri
<1>. QED BY <1>3, <1>4

(* The same, after a step. *)
LEMMA BusyServesNext ==
  (BoundInv => \A r \in Registered : ~Able(r) => Served(reg[r].uri))'
  BY BusyServes, PTL

Awaited(p) == \E i \in DOMAIN qCall[p] : IsActual(qCall[p][i])

QueueInv == BoundInv /\ QueueServed

(* A call that was queued for p still has its uri. *)
LEMMA ServedKept ==
  ASSUME NEW p, Served(p), qYield \subseteq qYield',
         \A c \in qYield : call'[c].uri = call[c].uri,
         \A r \in Registration : reg[r].uri = p => reg'[r].uri = p /\ reg'[r].limit = reg[r].limit
  PROVE  Served(p)'
  BY DEF Served, ZeroLimit

(* A response pulls the queue, so that what still waits is served. *)
LEMMA ResponseServed ==
  ASSUME QueueInv, BoundInv', NEW c \in qYield, NEW r, r = call[c].reg, NEW rest,
         rest = qYield \ {c} \/ rest = qYield, joined' = joined,
         ResponseArrived(r, rest), NEW q \in Procedure, Awaited(q)'
  PROVE  Served(q)'
<1>1. /\ r \in Registered /\ r \in Registration
      /\ qYield \subseteq Call
      /\ call[c].uri = reg[r].uri
      /\ AccountingInv
      /\ qCall \in [Procedure -> Seq(Call)]
      /\ \A i \in DOMAIN qCall[q] : qCall[q][i] \in Call
  BY DEF QueueInv, BoundInv, CalleeInv, FlightUri, AccountingInv, CallAccounting,
         QueuedUnderItsUri, Issued, TypeOK, Registered
<1>2. PICK p : p = reg[r].uri
  OBVIOUS
<1>3. /\ \A x \in Registration : /\ reg'[x].uri = reg[x].uri
                                 /\ reg'[x].limit = reg[x].limit
      /\ \A x \in Call : call'[x].uri = call[x].uri /\ call'[x].caller = call[x].caller
      /\ rest \subseteq qYield'
      /\ q # p => qCall'[q] = qCall[q]
  <2>1. CASE ResolvedOnly(r, rest, p)
    BY <1>1, <2>1, ResolvedProperties DEF ResolvedOnly
  <2>2. ASSUME NEW i, NEW d, HandedOver(r, rest, p, i, d)
        PROVE  /\ \A x \in Registration : /\ reg'[x].uri = reg[x].uri
                                          /\ reg'[x].limit = reg[x].limit
               /\ \A x \in Call : call'[x].uri = call[x].uri /\ call'[x].caller = call[x].caller
               /\ rest \subseteq qYield'
               /\ q # p => qCall'[q] = qCall[q]
    <3>1. reg' = reg /\ WaitedFor(d, p, r)
      BY <1>1, <1>2, <2>2, HandedOverCall, HandedOverReg
    <3>2. rest \subseteq qYield'
      BY <2>2 DEF HandedOver
    <3>3. qCall' = [qCall EXCEPT ![p] = AfterShift(qCall[p], i)]
      BY <2>2 DEF HandedOver
    <3>4. q # p => qCall'[q] = qCall[q]
      BY <1>1, <3>3
    <3>. QED BY <3>1, <3>2, <3>4 DEF WaitedFor
  <2>. QED BY <1>2, <2>1, <2>2, ResponseCases
<1>4. CASE q # p
  <2>1. Awaited(q)
    BY <1>1, <1>3, <1>4 DEF Awaited, IsActual
  <2>2. Served(q)
    BY <2>1 DEF QueueInv, QueueServed, Awaited, Served
  <2>3. ASSUME NEW y \in qYield, call[y].uri = q PROVE y \in qYield' /\ call'[y].uri = q
    BY <1>1, <1>2, <1>3, <1>4, <2>3
  <2>4. ZeroLimit(q) => ZeroLimit(q)'
    BY <1>3 DEF ZeroLimit
  <2>. QED BY <2>2, <2>3, <2>4 DEF Served
<1>5. CASE q = p /\ NoTaskFound(r, rest)
  <2>1. qCall'[q] = <<>>
    BY <1>1, <1>2, <1>5 DEF NoTaskFound
  <2>. QED BY <2>1 DEF Awaited
<1>6. CASE q = p /\ NextTaskTaken(r, rest)
  <2>1. PICK i, d : HandedOver(r, rest, p, i, d)
    BY <1>2, <1>6 DEF NextTaskTaken, First, SetRegistration, TaskResolved, HandedOver
  <2>2. WaitedFor(d, p, r) /\ d \in qYield'
    BY <1>1, <1>2, <2>1, HandedOverCall DEF HandedOver
  <2>3. call'[d].uri = p
    BY <2>2 DEF WaitedFor
  <2>. QED BY <1>6, <2>2, <2>3 DEF Served
<1>7. CASE q = p /\ StillBusy(r, rest)
  <2>1. reg' = [reg EXCEPT ![r].requested = reg[r].requested - 1]
    BY <1>7 DEF StillBusy, ResolveOnly, TaskResolved
  <2>2. reg \in [Registration -> RegRecord]
    BY <1>1 DEF AccountingInv, TypeOK
  <2>3. reg'[r].requested = reg[r].requested - 1
    BY <1>1, <2>1, <2>2 DEF RegRecord
  <2>4. ~Able(r)'
    BY <1>1, <1>3, <1>7, <2>3 DEF StillBusy, Able, TaskResolved
  <2>5. r \in Registered' /\ reg'[r].uri = q
    BY <1>1, <1>2, <1>3, <1>7 DEF Registered
  <2>. QED BY <2>4, <2>5, BusyServesNext
<1>. QED BY <1>4, <1>5, <1>6, <1>7 DEF ResponseArrived

(* Registering, joining and leaving do not take anything away. *)
LEMMA QueueKept ==
  ASSUME QueueInv, UNCHANGED <<call, qCall, qYield>>,
         \A r \in Registered : reg'[r] = reg[r],
         \A c \in Issued : call[c].caller \in joined' => call[c].caller \in joined
  PROVE  QueueServed'
<1>1. \A p \in Procedure : \A i \in DOMAIN qCall[p] : qCall[p][i] \in Issued
  BY DEF QueueInv, BoundInv, CalleeInv, AccountingInv, CallAccounting, QueuedUnderItsUri
<1>2. \A p \in Procedure : Awaited(p)' => Awaited(p)
  BY <1>1 DEF Awaited, IsActual
<1>3. \A p \in Procedure : Served(p) => Served(p)'
  BY ProcedureAssumption DEF Served, ZeroLimit, Registered
<1>4. QueueServed' <=> \A p \in Procedure : Awaited(p)' => Served(p)'
  BY DEF QueueServed, Awaited, Served
<1>. QED BY <1>2, <1>3, <1>4 DEF QueueInv, QueueServed, Awaited, Served

(* A call that is queued found no free slot. *)
LEMMA QueueCall ==
  ASSUME QueueInv, BoundInv', NEW s \in Session, NEW p \in Procedure, NEW c \in Call,
         CallRpc(s, p, c), NEW q \in Procedure, Awaited(q)'
  PROVE  Served(q)'
<1>1. /\ AccountingInv
      /\ qYield \subseteq Call
      /\ DOMAIN call = Call /\ DOMAIN qCall = Procedure
      /\ \A x \in qYield : x \in Issued
      /\ \A r \in wSub[p] : r \in Registration /\ reg[r].uri = p
      /\ \A i \in DOMAIN qCall[q] : qCall[q][i] \in Issued /\ qCall[q][i] \in Call
  BY DEF QueueInv, BoundInv, CalleeInv, AccountingInv, CallAccounting, QueuedUnderItsUri, TypeOK,
         Issued
<1>2. c \notin Issued /\ joined' = joined
  BY DEF CallRpc
<1>3. PICK x : call' = [call EXCEPT ![c] = NewCall(s, p, x)]
  BY DEF CallRpc, CallDispatched, CallQueued, NoSuchProcedure
<1>4. \A y \in Call : y # c => call'[y] = call[y]
  BY <1>1, <1>3
<1>5. \A r \in Registration : reg'[r].uri = reg[r].uri /\ reg'[r].limit = reg[r].limit
  <2>1. CASE CallDispatched(s, p, c)
    <3>1. PICK r \in wSub[p] : reg' = [reg EXCEPT ![r].requested = @ + 1]
      BY <2>1 DEF CallDispatched
    <3>2. TypeOK /\ r \in Registration /\ reg[r].requested + 1 \in Int
      BY <1>1, RecordTypes DEF AccountingInv
    <3>. QED BY <3>1, <3>2, RequestedOnly
  <2>2. CASE CallQueued(s, p, c) \/ NoSuchProcedure(s, p, c)
    BY <2>2 DEF CallQueued, NoSuchProcedure
  <2>. QED BY <2>1, <2>2 DEF CallRpc
<1>6. qYield \subseteq qYield'
  BY DEF CallRpc, CallDispatched, CallQueued, NoSuchProcedure
<1>7. ASSUME Served(q) PROVE Served(q)'
  <2>1. \A y \in qYield : call'[y].uri = call[y].uri
    BY <1>1, <1>2, <1>4
  <2>. QED BY <1>5, <1>6, <1>7, <2>1, ServedKept
<1>8. CASE qCall'[q] = qCall[q]
  <2>1. Awaited(q)
    BY <1>1, <1>2, <1>4, <1>8 DEF Awaited, IsActual
  <2>. QED BY <1>7, <2>1 DEF QueueInv, QueueServed, Awaited, Served
<1>9. CASE qCall'[q] # qCall[q]
  <2>1. CallQueued(s, p, c)
    BY <1>9 DEF CallRpc, CallDispatched, NoSuchProcedure
  <2>2. q = p
    BY <1>1, <1>9, <2>1 DEF CallQueued
  <2>3. PICK r \in wSub[p] : ~Able(r)
    BY <2>1 DEF CallQueued
  <2>4. r \in Registered /\ reg[r].uri = q
    BY <1>1, <2>2, ProcedureAssumption DEF Registered
  <2>. QED BY <1>7, <2>3, <2>4, BusyServes DEF QueueInv
<1>. QED BY <1>8, <1>9

(* No step breaks QueueInv. *)
LEMMA QueueStep ==
  ASSUME QueueInv, [Next]_vars
  PROVE  QueueInv'
<1>1. BoundInv'
  BY BoundStep DEF QueueInv
<1>2. /\ \A c \in Issued : c \in Call /\ call[c].caller \in joined \cup left
      /\ joined \cap left = {}
      /\ \A r \in Registered : r \in Registration
      /\ DOMAIN reg = Registration
  BY DEF QueueInv, BoundInv, CalleeInv, AccountingInv, CallersKnown, TypeOK, Issued, Registered
<1>3. ASSUME NEW s \in Session, JoinSession(s) PROVE QueueServed'
  BY <1>2, <1>3, QueueKept DEF JoinSession, rpcVars
<1>4. ASSUME NEW s \in Session, LeaveSession(s) PROVE QueueServed'
  BY <1>4, QueueKept DEF LeaveSession
<1>5. ASSUME NEW s \in Session, NEW p \in Procedure, NEW n \in TaskLimit,
             NEW r \in Registration, RegRpc(s, p, n, r)
      PROVE  QueueServed'
  <2>1. \A x \in Registered : reg'[x] = reg[x]
    BY <1>2, <1>5 DEF RegRpc
  <2>. QED BY <1>5, <2>1, QueueKept DEF RegRpc
<1>6. ASSUME NEW s \in Session, NEW r \in Registration, UnRegRpc(s, r) PROVE QueueServed'
  BY <1>6, QueueKept DEF UnRegRpc
<1>7. ASSUME \A q \in Procedure : Awaited(q)' => Served(q)' PROVE QueueServed'
  BY <1>7 DEF QueueServed, Awaited, Served
<1>8. ASSUME NEW s \in Session, NEW p \in Procedure, NEW c \in Call, CallRpc(s, p, c)
      PROVE  QueueServed'
  BY <1>1, <1>7, <1>8, QueueCall
<1>9. ASSUME NEW s \in Session, NEW c \in Call, YieldFinal(s, c) PROVE QueueServed'
  <2>1. c \in qYield /\ joined' = joined /\ ResponseArrived(call[c].reg, qYield \ {c})
    BY <1>9 DEF YieldFinal, Defer
  <2>. QED BY <1>1, <1>7, <2>1, ResponseServed
<1>10. ASSUME NEW s \in Session, NEW c \in Call, YieldEmit(s, c) PROVE QueueServed'
  <2>1. c \in qYield /\ joined' = joined /\ ResponseArrived(call[c].reg, qYield)
    BY <1>10 DEF YieldEmit, Defer
  <2>. QED BY <1>1, <1>7, <2>1, ResponseServed
<1>11. ASSUME UNCHANGED vars PROVE QueueServed'
  BY <1>11, QueueKept DEF vars
<1>12. ASSUME Next PROVE QueueServed'
  BY <1>3, <1>4, <1>5, <1>6, <1>8, <1>9, <1>10, <1>12 DEF Next
<1>. QED BY <1>1, <1>11, <1>12 DEF QueueInv

(* QueueInv holds at the start. *)
LEMMA QueueInit == Init => QueueInv
<1> SUFFICES ASSUME Init PROVE QueueInv
  OBVIOUS
<1>1. \A p \in Procedure : DOMAIN qCall[p] = {}
  BY DEF Init
<1>. QED BY <1>1, BoundInit DEF QueueInv, QueueServed

(* While its caller is there a waiting call has another call of the        *)
(* procedure in flight, whose answer pulls the queue (doCall, checkTasks). *)
THEOREM QueueServedCorrect == Spec => []QueueServed
<1>1. QueueInv /\ [Next]_vars => QueueInv'
  BY QueueStep
<1>2. QueueInv => QueueServed
  BY DEF QueueInv
<1>. QED BY <1>1, <1>2, QueueInit, PTL DEF Spec
=============================================================================
