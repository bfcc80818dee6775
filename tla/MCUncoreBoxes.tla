---------------------------- MODULE MCUncoreBoxes ----------------------------
(* Model-checking instances of UncoreBoxes.                                 *)
EXTENDS UncoreBoxes

Pci(id, bus) == [id |-> id, bus |-> bus]

\* Two sockets, each with a UBOX, two home agents and memory channels, one of
\* them not in the table of throttled ones.
TwoSockets ==
    << Pci("ubox", 0), Pci("2F30", 0), Pci("2F38", 0), Pci("2FB4", 0),
       Pci("ubox", 1), Pci("2F30", 1), Pci("2F38", 1), Pci("2FB4", 1), Pci("2FD4", 1) >>

\* Node 0 reports id 0 and node 1 id 4; no other node has an entry of its own.
NodeIds  == [b \in {0, 1} |-> IF b = 0 THEN 0 ELSE 4]
NodeMaps == [b \in {0, 1} |-> [i \in 0 .. 7 |-> IF i = 1 THEN 4 ELSE 0]]

=============================================================================
