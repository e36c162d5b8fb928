----------------------------- MODULE Batching -----------------------------
(***************************************************************************)
(* What every telemetry buffer promises of its batches: an item that was   *)
(* let go does not come back; what is held in a batch goes all together,   *)
(* so nothing is overtaken by what came later; and while a batch holds     *)
(* something a timer is armed that will let it go.  Whether an item that   *)
(* went was sent, and how often, is not said here.                         *)
(***************************************************************************)

CONSTANTS
    Item,
    Batch,    \* a trace of the span buffer; the other buffers have one batch
    BatchOf,  \* of each item
    Timed     \* the buffer has timers at all

VARIABLES held, gone, armed

vars == <<held, gone, armed>>

Of(items, k) == {i \in items : BatchOf[i] = k}

Init == held = {} /\ gone = {} /\ armed = [k \in Batch |-> FALSE]

(* takes `new`, then lets `out` go *)
Step(new, out) ==
    /\ new \subseteq Item \ (held \cup gone)
    /\ out \subseteq held \cup new
    /\ \A k \in Batch : Of(out, k) = {} \/ Of(held, k) \subseteq out
    /\ held' = (held \cup new) \ out
    /\ gone' = gone \cup out
    /\ armed' = [k \in Batch |-> Timed /\ Of(held', k) # {}]

Next ==
    \E new \in SUBSET (Item \ (held \cup gone)) : \E out \in SUBSET (held \cup new) : Step(new, out)

(* Finitely many items, so a batch that always goes is empty again and again *)
Spec == Init /\ [][Next]_vars /\ (Timed => \A k \in Batch : []<>(Of(held, k) = {}))
=============================================================================
