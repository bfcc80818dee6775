----------------------------- MODULE MCUncoreImc -----------------------------
(* Model-checking instances of UncoreImc.                                   *)
EXTENDS UncoreImc

\* Two nodes with one device each.
OneEach == {<<0, 1>>}

\* Two nodes that share three devices, and two of which only one has any.
Uneven == {<<1, 0, 1>>, <<1, 1>>, <<0, 0>>}
=============================================================================
