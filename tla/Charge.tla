-------------------------------- MODULE Charge --------------------------------
(***************************************************************************)
(* What latency emulation promises (emulate_nvm.c), with nothing said of   *)
(* timers, frozen boxes or halves of counters: while the emulation runs,   *)
(* each slow read is pending as soon as it is made, and now and then all   *)
(* pending reads together, each of them once, are charged to the emulated  *)
(* CPU.  What is pending when the emulation stops is given up.  EmulateNvm *)
(* implements this specification.                                          *)
(***************************************************************************)
EXTENDS Naturals

VARIABLES
    active,      \* are reads counted?
    pending,     \* reads counted and not yet charged
    charged      \* reads charged since the emulation began

vars == <<active, pending, charged>>

Init == active = FALSE /\ pending = 0 /\ charged = 0

\* The account is opened with nothing on it, ...
Open ==
    /\ ~active
    /\ charged' = 0
    /\ UNCHANGED <<active, pending>>

Begin ==
    /\ ~active
    /\ charged = 0
    /\ active' = TRUE
    /\ UNCHANGED <<pending, charged>>

\* ... each read goes on it ...
Read ==
    /\ active
    /\ pending' = pending + 1
    /\ UNCHANGED <<active, charged>>

\* ... and is paid for together with the others.
Deliver ==
    /\ active
    /\ charged' = charged + pending
    /\ pending' = 0
    /\ UNCHANGED active

Stop ==
    /\ active
    /\ active' = FALSE
    /\ pending' = 0
    /\ UNCHANGED charged

Next == Open \/ Begin \/ Read \/ Deliver \/ Stop

Spec == Init /\ [][Next]_vars
=============================================================================
