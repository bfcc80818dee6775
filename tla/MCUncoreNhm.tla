----------------------------- MODULE MCUncoreNhm -----------------------------
(* Model-checking instances of UncoreNhm.                                   *)
EXTENDS UncoreNhm

\* XYZ on node 0; SURVIVOR and another CPU on node 1.
TwoNodes == [c \in CPU |-> IF c < 6 THEN 0 ELSE 1]
=============================================================================
