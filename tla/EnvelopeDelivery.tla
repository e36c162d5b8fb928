-------------------------- MODULE EnvelopeDelivery --------------------------
(***************************************************************************)
(* What a transport promises about the items it is given (the abstract     *)
(* specification of Transport).  Every item of an envelope is accepted or  *)
(* dropped when the envelope is sent, an accepted one meets one end, and   *)
(* the outcome counters grow in the same step by exactly what was lost.    *)
(***************************************************************************)
EXTENDS Naturals, FiniteSets

CONSTANTS Envelopes, Items, ItemsOf, Categories, CategoryOf, ReportItems

VARIABLES
    fate,      \* of each item
    outcomes   \* lost items told to the client, by reason and category

vars == <<fate, outcomes>>

Reasons == {"ratelimit_backoff", "queue_overflow", "send_error", "network_error"}
Fates == {"new", "inflight", "answered", "untold"} \cup Reasons

Init ==
    /\ fate = [i \in Items |-> "new"]
    /\ outcomes = [r \in Reasons |-> [c \in Categories |-> 0]]

MayBecome(f) ==
    CASE f = "new"      -> {"inflight", "ratelimit_backoff", "queue_overflow"}
      [] f = "inflight" -> {"answered", "untold", "send_error", "network_error"}
      [] OTHER          -> {}

\* The lost items that are told: losing an envelope with a client report
\* is not, unless by a rate limit.
Told(lost, r) == IF r # "ratelimit_backoff" /\ lost \cap ReportItems # {} THEN {} ELSE lost

\* An envelope is sent as a whole, or its request ends: items that are not
\* rate limited share their fate, one that met its end keeps it.
Move(e, old, new) ==
    LET Met(r) == {i \in ItemsOf[e] : old[i] # r /\ new[i] = r}
    IN  /\ new \in [Items -> Fates]
        /\ \A i \in Items \ ItemsOf[e] : new[i] = old[i]
        /\ \A i \in ItemsOf[e] :
              \/ new[i] \in MayBecome(old[i])
              \/ new[i] = old[i] /\ MayBecome(old[i]) = {}
        /\ \A i, j \in ItemsOf[e] :
              "ratelimit_backoff" \notin {new[i], new[j]} => new[i] = new[j]
        /\ outcomes' =
              [r \in Reasons |-> [c \in Categories |->
                  outcomes[r][c] + Cardinality({i \in Told(Met(r), r) : CategoryOf[i] = c})]]

Next == \E e \in Envelopes : Move(e, fate, fate')

Spec == Init /\ [][Next]_vars
=============================================================================
