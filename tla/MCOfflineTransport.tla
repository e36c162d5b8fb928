-------------------------- MODULE MCOfflineTransport --------------------------
(* Model-checking instance of OfflineTransport: two replays, an event and a *)
(* client report, a store for two.                                          *)
EXTENDS OfflineTransport, TLC

CONSTANTS r1, r2, event, report

MCEnvelopes == {r1, r2, event, report}
MCReplays == {r1, r2}
MCReports == {report}
=============================================================================
