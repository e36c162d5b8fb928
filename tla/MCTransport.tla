---------------------------- MODULE MCTransport ----------------------------
(* Model-checking instance of Transport: an event with a session, a second *)
(* session, and a client report; a response without and one with limits.   *)
EXTENDS Transport, TLC

CONSTANTS error, session, internal, bucket, all, e1, e2, e3, i1, i2, i3, i4, f1, f2

MCCategories == {error, session, internal}
MCEnvelopes == {e1, e2, e3}
MCItems == {i1, i2, i3, i4}
MCItemsOf == e1 :> {i1, i2} @@ e2 :> {i3} @@ e3 :> {i4}
MCCategoryOf == i1 :> error @@ i2 :> session @@ i3 :> session @@ i4 :> internal
MCReportItems == {i4}

NoRetryAfter == [kind |-> "absent", value |-> 0]
MCResponses ==
    { [limits |-> <<>>, retryAfter |-> NoRetryAfter, status |-> 429],
      [limits |-> <<[delay |-> <<0>>, categories |-> {}, namespaces |-> "absent"],
                    [delay |-> <<1>>, categories |-> {session}, namespaces |-> "absent"]>>,
       retryAfter |-> NoRetryAfter, status |-> 200] }
=============================================================================
