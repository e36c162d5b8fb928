------------------------------ MODULE MCClient ------------------------------
(* Model-checking instances of Client: a transaction and two errors for    *)
(* the pipeline, a transaction and one error where flushes are at stake.   *)
EXTENDS Client

CONSTANTS tx, err, err2, r1, r2, f1

ThreeEvents == {tx, err, err2}
TwoEvents == {tx, err}
OneDirect == {tx}
TwoErrors == {err, err2}
OneError == {err}
=============================================================================
