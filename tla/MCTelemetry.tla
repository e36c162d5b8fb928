---------------------------- MODULE MCTelemetry ----------------------------
(* Model-checking instance of Telemetry. *)
EXTENDS Telemetry

MCLogSize == [l \in Log |-> IF l = "heavy" THEN 2 ELSE 1]
MCTraceOf == [s \in Span |-> IF s = "other" THEN "u" ELSE "t"]
MCSpanSize == [s \in Span |-> IF s = "big" THEN 3 ELSE 1]
MCFeatureSets == {{"logs"}, {"spans"}, {"requests"}, {"sessions"}}
=============================================================================
