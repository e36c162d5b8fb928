---------------------------- MODULE ClientHooks ----------------------------
(***************************************************************************)
(* What the telemetry buffers see of their client: `options.enabled`, the  *)
(* hook 'flush' that flush() and close() emit before they wait, and the    *)
(* hook 'close' that close() emits when its wait is over.  Between the two *)
(* anything may be captured.                                               *)
(***************************************************************************)

CONSTANT HasRelease  \* a client without a release sends no session

ASSUME ReleaseAssumption == HasRelease \in BOOLEAN

VARIABLES
    enabled,  \* options.enabled
    closing   \* a close() waits for its flush

hookVars == <<enabled, closing>>

HooksTypeOK == enabled \in BOOLEAN /\ closing \in BOOLEAN

HooksInit == enabled = TRUE /\ closing = FALSE

(* flush(): emits 'flush'; what it then waits for is the module Client *)
EmitFlush == UNCHANGED hookVars

(* close() up to its first await *)
BeginClose ==
    /\ ~closing
    /\ closing' = TRUE
    /\ UNCHANGED enabled

(* close() after its flush answered or timed out: disables and emits 'close' *)
EndClose ==
    /\ closing
    /\ closing' = FALSE
    /\ enabled' = FALSE
=============================================================================
