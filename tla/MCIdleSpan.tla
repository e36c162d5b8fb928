----------------------------- MODULE MCIdleSpan -----------------------------
(* Two children, one of them ignored; the final timeout plus the idle      *)
(* timeout pass within the bound of the clock.                             *)
EXTENDS IdleSpan

CONSTANTS c1, c2

MCChildren == {c1, c2}
MCIgnored == {c2}
=============================================================================
