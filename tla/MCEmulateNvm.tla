---------------------------- MODULE MCEmulateNvm ----------------------------
(* Model-checking instances of EmulateNvm.                                 *)
EXTENDS EmulateNvm

\* Two CPUs on each node.
TwoNodes == [c \in CPU |-> IF c < 2 THEN 0 ELSE 1]
=============================================================================
