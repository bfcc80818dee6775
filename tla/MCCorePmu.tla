------------------------------ MODULE MCCorePmu ------------------------------
(* Model-checking instances of CorePmu.                                     *)
EXTENDS CorePmu, TLC

\* Writers are interchangeable; used by the runs that check no liveness.
WriterSymmetry == Permutations(Writers)
=============================================================================
