----------------------------- MODULE MCSqliteKv -----------------------------
EXTENDS SqliteKv, TLC

Held == [f \in {"holder"} |-> 1]
Noted == [f \in {"note"} |-> 1]

MCField == {"holder", "note"}
MCContent == {1}

Event4(k, data, when, watch, will) ==
  [key |-> k, data |-> data, when |-> when, watch |-> watch, will |-> will]

Lock(k) == Event4(k, Held, Null, TRUE, Null)
TryLock(k) == Event4(k, Held, Null, FALSE, Noted)
Unlock(k) == Event4(k, Null, NoOpt, FALSE, NoOpt)
Note(k) == Event4(k, Noted, NoOpt, FALSE, NoOpt)
Bequest(k) == Event4(k, Null, NoOpt, FALSE, Noted)

OneKey == UNION {{Lock(k), TryLock(k), Unlock(k), Note(k)} : k \in Key}

(* Of a second key, only what gives a session a second will, with no value. *)
CONSTANTS k1, k2
TwoKeys == {Lock(k1), TryLock(k1), Unlock(k1), Bequest(k2)}

Sessions == Permutations(Session)
=============================================================================
