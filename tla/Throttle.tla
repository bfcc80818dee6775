------------------------------- MODULE Throttle -------------------------------
(***************************************************************************)
(* What bandwidth emulation promises (uncore_imc.c, uncore_proc.c), with   *)
(* every operation atomic and nothing said of threads, locks, reads or     *)
(* writes: while the emulation runs the machine throttles at one ratio.  A *)
(* ratio is chosen only when the one before is in force everywhere, each   *)
(* channel goes from the old ratio straight to the new one, and all of     *)
(* them throttle or none does.  While it does not run, nothing is promised *)
(* of the channels.  UncoreImc implements this specification.              *)
(***************************************************************************)
EXTENDS Naturals

CONSTANTS
    Ratio,           \* the ratios there are; 1 is full bandwidth
    Off              \* what a channel that does not throttle has for a ratio (no ratio)

VARIABLES
    ratio,           \* the ratio chosen last
    running,         \* does the emulation run?
    throttle         \* of each channel: its ratio, or Off

vars == <<ratio, running, throttle>>

Channel == DOMAIN throttle

\* The ratio chosen is in force everywhere, or throttling is off everywhere.
Settled ==
    \/ \A c \in Channel : throttle[c] = ratio
    \/ \A c \in Channel : throttle[c] = Off

Init ==
    /\ ratio = 1
    /\ running = FALSE
    /\ \A c \in Channel : throttle[c] = 1

\* A new ratio is chosen.
Choose(n) ==
    /\ running => Settled
    /\ ratio' = n
    /\ UNCHANGED <<running, throttle>>

\* A channel that throttles gets the ratio chosen last.
Apply(c) ==
    /\ throttle[c] # Off
    /\ throttle' = [throttle EXCEPT ![c] = ratio]
    /\ UNCHANGED <<ratio, running>>

\* While the emulation does not run, a channel may be set up in any way.
SetUp ==
    /\ ~running
    /\ \E c \in Channel, e \in Ratio \cup {Off} :
           throttle' = [throttle EXCEPT ![c] = e]
    /\ UNCHANGED <<ratio, running>>

Start ==
    /\ ~running
    /\ Settled
    /\ running' = TRUE
    /\ UNCHANGED <<ratio, throttle>>

Stop ==
    /\ running
    /\ running' = FALSE
    /\ UNCHANGED <<ratio, throttle>>

Next == \/ \E n \in Ratio : Choose(n)
        \/ \E c \in Channel : Apply(c)
        \/ SetUp \/ Start \/ Stop

Spec == Init /\ [][Next]_vars
=============================================================================
