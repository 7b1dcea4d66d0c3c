--------------------------- MODULE MCSubscription ---------------------------
EXTENDS Subscription, TLC

A == <<"a">>
MCTopic == {A}

Push3(tr, retain) == [uri |-> A, trace |-> tr, retain |-> retain]
Pushes == {Push3(TRUE, "no"), Push3(TRUE, "set"), Push3(FALSE, "refused")}

Trace4(uri, retained, retainedState, snapshot) ==
  [uri |-> uri, retained |-> retained, retainedState |-> retainedState, snapshot |-> snapshot]
Traces ==
  {Trace4(A, FALSE, FALSE, FALSE), Trace4(<<"#">>, FALSE, TRUE, FALSE),
   Trace4(A, TRUE, TRUE, FALSE), Trace4(A, TRUE, TRUE, TRUE), Trace4(A, FALSE, FALSE, TRUE)}

FirstIds == {8}
=============================================================================
