------------------------------ MODULE KvEvents ------------------------------
(***************************************************************************)
(* Events that are pushed with the option retain, and their data: null, or *)
(* an object whose fields hold scalars, so that deepMerge has one level    *)
(* (lib/realm.ts).                                                         *)
(***************************************************************************)
CONSTANTS
  Key, Session,
  Field,    \* names of fields
  Content,  \* what a field may hold
  Null,     \* the empty value: a key that is not there
  NoOpt     \* an option that is not given

Document == UNION {[F -> Content] : F \in SUBSET Field}
Data == Document \cup {Null}

ASSUME NullAssumption == Null \notin Document
ASSUME NoOptAssumption == NoOpt \notin Data \cup Session

(* isDataFit: the data has every field of the condition. *)
Fit(when, data) ==
  \/ when = Null /\ data = Null
  \/ /\ when # Null /\ data # Null
     /\ \A f \in DOMAIN when : f \in DOMAIN data /\ when[f] = data[f]

(* deepDataMerge: new fields over old ones, unless one of the two is empty. *)
Merge(old, new) ==
  IF old = Null \/ new = Null
  THEN new
  ELSE [f \in DOMAIN old \cup DOMAIN new |-> IF f \in DOMAIN new THEN new[f] ELSE old[f]]

(* ActorPush, ActorPushKv: what setKeyActor is given. *)
Event == [key : Key, data : Data, when : Data \cup {NoOpt}, watch : BOOLEAN,
          will : Data \cup {NoOpt}, sid : Session]

Allowed(e, data) == e.when # NoOpt => Fit(e.when, data)

(* A row of session_kv, or none. *)
NoWill == [data |-> NoOpt, sid |-> NoOpt]
Will == [data : Data, sid : Session]
WillOf(e) == IF e.will = NoOpt THEN NoWill ELSE [data |-> e.will, sid |-> e.sid]
=============================================================================
