------------------------------ MODULE UncoreImc ------------------------------
(***************************************************************************)
(* Bandwidth emulation: uncore_imc.c, uncore_proc.c, the IMC methods of    *)
(* uncore_hswep.c and the calls emulate_nvm.c makes on them.               *)
(*                                                                         *)
(* Every IMC device (a PCI function of one memory controller, on the list  *)
(* uncore_imc_devices) has one register thrt_pwr_dimm per DIMM: an enable  *)
(* bit and a threshold.  Each method of uncore_imc_ops updates these by a  *)
(* read and a write of PCI configuration space with nothing to keep        *)
(* another thread out in between.  The loader runs insmod and rmmod, the   *)
(* writers write /proc/uncore_pmu.  A thread in a call of an uncore_imc    *)
(* function walks the nodes and, for each, the device list.                *)
(***************************************************************************)
EXTENDS Naturals, Sequences

CONSTANTS
    NNodes,       \* online NUMA nodes 0 .. NNodes-1
    Machines,     \* the machines to run on, each given as its device list
                  \* uncore_imc_devices: the node of each device, in list order
    NDimm,        \* registers per device (3 in the code)
    Loader, Writers,
    Ctl,          \* control characters: 0, 2, 4, or 5 for any invalid one
    EarlyWrites,  \* may a write begin before insmod has returned?
    StartFails    \* may start_emulate_nvm fail (wrong CPU, no HA box)?

Node   == 0 .. NNodes - 1
Thread == Writers \cup {Loader}

ASSUME UncoreImcAssumption ==
    /\ NNodes \in Nat \ {0}
    /\ \A m \in Machines : m \in Seq(0 .. NNodes - 1)
    /\ NDimm \in Nat \ {0}
    /\ Loader \notin Writers
    /\ Ctl \subseteq {0, 2, 4, 5}
    /\ EarlyWrites \in BOOLEAN
    /\ StartFails \in BOOLEAN

VARIABLES
    devices,   \* hardware: the machine, one of Machines
    reg,       \* thrt_pwr_dimm of each device and DIMM: [en, thr]
    bw_ratio,  \* the ratio the proc file shows
    listed,    \* does the device list exist (between init and exit)?
    procReg,   \* is /proc/uncore_pmu registered?
    mutex,     \* uncore_proc_mutex: its holder, or Loader when free
    started,   \* emulation_started
    pc,        \* threads: phase of insmod, rmmod or write
    walk,      \* their walk: the function called, where it is, the threshold
    cfg,       \* the register value a thread has read and not yet written
    ctl        \* the character each writer writes

vars == <<devices, reg, bw_ratio, listed, procReg, mutex, started, pc, walk,
          cfg, ctl>>

Reg == (DOMAIN devices) \X (1 .. NDimm)

\* Mutant: the ratio itself is written.
CodeRaw(threshold) == threshold

\* hswep_imc_set_threshold: what a ratio 1/threshold is written as.
Code(threshold) == CASE threshold = 2 -> 255
                     [] threshold = 4 -> 127
                     [] OTHER         -> 4095

RegValue == [en : BOOLEAN, thr : {127, 255, 4095}]
NoCfg    == [en |-> FALSE, thr |-> 0]   \* no value a register can have

LoaderPhase == {"unloaded", "create", "prepare", "set", "enable",
                "undo", "live", "disable", "wait"}
WriterPhase == {"idle", "lock", "set", "unlock"}

\* "set_threshold" stands for the two calls of a write.
CallName == {"none", "set_threshold", "set_threshold_all",
             "enable_throttle_all", "disable_throttle_all"}
Walk == [call : CallName, threshold : {1, 2, 4}, node : 0 .. NNodes,
         imc : 1 .. Len(devices) + 1, dimm : 1 .. NDimm]

\* A walk starts at node 0, the first device and its first DIMM.
WalkOf(call, threshold) == [call |-> call, threshold |-> threshold,
                            node |-> 0, imc |-> 1, dimm |-> 1]
NoWalk == WalkOf("none", 1)

TypeOK ==
    /\ devices \in Machines
    /\ reg \in [Reg -> RegValue]
    /\ bw_ratio \in {1, 2, 4}
    /\ listed \in BOOLEAN /\ procReg \in BOOLEAN /\ started \in BOOLEAN
    /\ mutex \in Thread
    /\ pc \in [Thread -> LoaderPhase \cup WriterPhase]
    /\ pc[Loader] \in LoaderPhase
    /\ \A w \in Writers : pc[w] \in WriterPhase
    /\ walk \in [Thread -> Walk]
    /\ cfg \in [Thread -> RegValue \cup {NoCfg}]
    /\ ctl \in [Writers -> {0, 2, 4, 5}]

\* After a hardware reset the registers throttle at full bandwidth.
Init ==
    /\ devices \in Machines
    /\ reg = [r \in Reg |-> [en |-> TRUE, thr |-> 4095]]
    /\ bw_ratio = 1
    /\ listed = FALSE
    /\ procReg = FALSE
    /\ mutex = Loader
    /\ started = FALSE
    /\ pc = [t \in Thread |-> IF t = Loader THEN "unloaded" ELSE "idle"]
    /\ walk = [t \in Thread |-> NoWalk]
    /\ cfg = [t \in Thread |-> NoCfg]
    /\ ctl = [w \in Writers |-> 0]

-----------------------------------------------------------------------------
(* The calls of uncore_imc functions.                                      *)

\* A call on a node without devices returns -ENXIO.  The hswep methods themselves
\* never fail.
Fails(n) == \A d \in DOMAIN devices : devices[d] # n

\* Mutant: the second call of each case of the switch is forgotten.
LastNodeFirst(call) == IF call = "set_threshold" THEN 0 ELSE NNodes - 1

\* The last node a walk visits: the switch of uncore_proc_write calls
\* uncore_imc_set_threshold on nodes 0 and 1, the others are for all online nodes.
LastNode(call) == IF call = "set_threshold" THEN 1 ELSE NNodes - 1

\* Does the loop over the nodes break here?
Breaks(w) ==
    w.call \in {"set_threshold_all", "enable_throttle_all"} /\ Fails(w.node)

InCall(t)   == walk[t].call # "none"
InList(t)   == InCall(t) /\ walk[t].imc <= Len(devices)
OnDevice(t) == InList(t) /\ devices[walk[t].imc] = walk[t].node
Cursor(t)   == <<walk[t].imc, walk[t].dimm>>

\* What one update writes, given what it has read.
Updated(w, v) ==
    CASE w.call \in {"set_threshold", "set_threshold_all"} ->
             [v EXCEPT !.thr = Code(w.threshold)]
      [] w.call = "enable_throttle_all"  -> [v EXCEPT !.en = TRUE]
      [] w.call = "disable_throttle_all" -> [v EXCEPT !.en = FALSE]

\* pci_read_config_word ...
ReadReg(t) ==
    /\ OnDevice(t)
    /\ cfg[t] = NoCfg
    /\ cfg' = [cfg EXCEPT ![t] = reg[Cursor(t)]]
    /\ UNCHANGED <<devices, reg, bw_ratio, listed, procReg, mutex, started,
                   pc, walk, ctl>>

\* The next DIMM of the device, or the next device on the list.
Advance(w) ==
    IF w.dimm < NDimm THEN [w EXCEPT !.dimm = @ + 1]
                      ELSE [w EXCEPT !.imc = @ + 1, !.dimm = 1]

\* Mutant: the new threshold overwrites the whole register.
WriteRegWhole(t) ==
    /\ cfg[t] # NoCfg
    /\ LET v == IF walk[t].call \in {"set_threshold", "set_threshold_all"}
                THEN [cfg[t] EXCEPT !.en = FALSE] ELSE cfg[t]
       IN  reg' = [reg EXCEPT ![Cursor(t)] = Updated(walk[t], v)]
    /\ walk' = [walk EXCEPT ![t] = Advance(@)]
    /\ cfg' = [cfg EXCEPT ![t] = NoCfg]
    /\ UNCHANGED <<devices, bw_ratio, listed, procReg, mutex, started, pc, ctl>>

\* ... and pci_write_config_word of one register.
WriteReg(t) ==
    /\ cfg[t] # NoCfg
    /\ reg' = [reg EXCEPT ![Cursor(t)] = Updated(walk[t], cfg[t])]
    /\ walk' = [walk EXCEPT ![t] = Advance(@)]
    /\ cfg' = [cfg EXCEPT ![t] = NoCfg]
    /\ UNCHANGED <<devices, bw_ratio, listed, procReg, mutex, started, pc, ctl>>

\* imc->nodeid is another node.
SkipDevice(t) ==
    /\ InList(t) /\ ~OnDevice(t)
    /\ walk' = [walk EXCEPT ![t].imc = @ + 1]
    /\ UNCHANGED <<devices, reg, bw_ratio, listed, procReg, mutex, started, pc,
                   cfg, ctl>>

\* Mutant: a node without devices ends the loop and undoes nothing.
AfterNodeKeep(w) ==
    IF Breaks(w) \/ w.node = LastNode(w.call) THEN NoWalk
    ELSE [w EXCEPT !.node = @ + 1, !.imc = 1]

\* What follows the walk of one node: the next node or the end of the loop, or its
\* break; uncore_imc_enable_throttle_all then undoes all nodes.
AfterNode(w) ==
    CASE Breaks(w) /\ w.call = "enable_throttle_all" ->
             WalkOf("disable_throttle_all", 1)
      [] ~Breaks(w) /\ w.node < LastNode(w.call) ->
             [w EXCEPT !.node = @ + 1, !.imc = 1]
      [] OTHER -> NoWalk

NodeDone(t) ==
    /\ InCall(t) /\ ~InList(t)
    /\ walk' = [walk EXCEPT ![t] = AfterNode(@)]
    /\ UNCHANGED <<devices, reg, bw_ratio, listed, procReg, mutex, started, pc,
                   cfg, ctl>>

\* Thread t, in no call in phase p, goes on to phase q.
Goto(t, p, q) ==
    /\ pc[t] = p
    /\ ~InCall(t)
    /\ pc' = [pc EXCEPT ![t] = q]

\* The same, and calls an uncore_imc function.
Call(t, p, q, function, threshold) ==
    /\ Goto(t, p, q)
    /\ walk' = [walk EXCEPT ![t] = WalkOf(function, threshold)]

-----------------------------------------------------------------------------
(* uncore_init and start_emulate_nvm.                                      *)

\* uncore_imc_init builds the device list.
ImcInit ==
    /\ Goto(Loader, "unloaded", "create")
    /\ listed' = TRUE
    /\ bw_ratio' = 1
    /\ UNCHANGED <<devices, reg, procReg, mutex, started, walk, cfg, ctl>>

\* uncore_proc_create, or its failure: uncore_imc_exit frees the list.
ProcCreate ==
    /\ \/ Goto(Loader, "create", "prepare") /\ procReg' = TRUE /\ UNCHANGED listed
       \/ Goto(Loader, "create", "unloaded") /\ listed' = FALSE /\ UNCHANGED procReg
    /\ UNCHANGED <<devices, reg, bw_ratio, mutex, started, walk, cfg, ctl>>

\* start_emulate_bandwidth: uncore_imc_set_threshold_all(1) ...
StartBandwidth ==
    /\ Call(Loader, "prepare", "set", "set_threshold_all", 1)
    /\ UNCHANGED <<devices, reg, bw_ratio, listed, procReg, mutex, started,
                   cfg, ctl>>

\* ... then uncore_imc_enable_throttle_all; both results are ignored.
StartThrottle ==
    /\ Call(Loader, "set", "enable", "enable_throttle_all", 1)
    /\ UNCHANGED <<devices, reg, bw_ratio, listed, procReg, mutex, started,
                   cfg, ctl>>

\* start_emulate_latency succeeds: emulation_started.
StartDone ==
    /\ Goto(Loader, "enable", "live")
    /\ started' = TRUE
    /\ UNCHANGED <<devices, reg, bw_ratio, listed, procReg, mutex, walk, cfg,
                   ctl>>

\* prepare_platform_configuration or the creation of /proc/emulate_nvm fails, and
\* insmod succeeds without emulation.
StartSkipped ==
    /\ StartFails
    /\ Goto(Loader, "prepare", "live")
    /\ UNCHANGED <<devices, reg, bw_ratio, listed, procReg, mutex, started,
                   walk, cfg, ctl>>

\* start_emulate_latency fails: finish_emulate_bandwidth, then the same.
StartUndone ==
    /\ StartFails
    /\ Call(Loader, "enable", "undo", "disable_throttle_all", 1)
    /\ UNCHANGED <<devices, reg, bw_ratio, listed, procReg, mutex, started,
                   cfg, ctl>>

StartUndoDone ==
    /\ Goto(Loader, "undo", "live")
    /\ UNCHANGED <<devices, reg, bw_ratio, listed, procReg, mutex, started,
                   walk, cfg, ctl>>

-----------------------------------------------------------------------------
(* uncore_exit.                                                            *)

\* finish_emulate_nvm: finish_emulate_bandwidth, if the emulation was started.
FinishBandwidth ==
    /\ \/ started /\ Call(Loader, "live", "disable", "disable_throttle_all", 1)
       \/ ~started /\ Goto(Loader, "live", "disable") /\ UNCHANGED walk
    /\ UNCHANGED <<devices, reg, bw_ratio, listed, procReg, mutex, started, cfg,
                   ctl>>

\* It ends, and uncore_proc_remove lets no new write in ...
ProcRemove ==
    /\ Goto(Loader, "disable", "wait")
    /\ started' = FALSE
    /\ procReg' = FALSE
    /\ UNCHANGED <<devices, reg, bw_ratio, listed, mutex, walk, cfg, ctl>>

\* Mutant: uncore_imc_exit does not wait for the writes in progress.
ImcExitEarly ==
    /\ Goto(Loader, "wait", "unloaded")
    /\ listed' = FALSE
    /\ UNCHANGED <<devices, reg, bw_ratio, procReg, mutex, started, walk,
                   cfg, ctl>>

\* ... and returns when those in progress have; uncore_imc_exit frees the list.
ImcExit ==
    /\ Goto(Loader, "wait", "unloaded")
    /\ \A w \in Writers : pc[w] = "idle"
    /\ listed' = FALSE
    /\ UNCHANGED <<devices, reg, bw_ratio, procReg, mutex, started, walk,
                   cfg, ctl>>

-----------------------------------------------------------------------------
(* uncore_proc_write.                                                      *)

WriteBegin(w, k) ==
    /\ Goto(w, "idle", "lock")
    /\ procReg
    /\ EarlyWrites \/ pc[Loader] \notin {"prepare", "set", "enable", "undo"}
    /\ ctl' = [ctl EXCEPT ![w] = k]
    /\ UNCHANGED <<devices, reg, bw_ratio, listed, procReg, mutex, started,
                   walk, cfg>>

\* Mutant: the default case returns directly.
WriteLockLeak(w) ==
    /\ mutex = Loader
    /\ mutex' = w
    /\ \/ /\ ctl[w] # 5
          /\ bw_ratio' = IF ctl[w] = 0 THEN 1 ELSE ctl[w]
          /\ Call(w, "lock", "set", "set_threshold", bw_ratio')
       \/ /\ ctl[w] = 5
          /\ Goto(w, "lock", "idle")
          /\ UNCHANGED <<bw_ratio, walk>>
    /\ UNCHANGED <<devices, reg, listed, procReg, started, cfg, ctl>>

\* mutex_lock, then the switch up to its first call, with the ratio as threshold.
WriteLock(w) ==
    /\ mutex = Loader
    /\ mutex' = w
    /\ \/ /\ ctl[w] # 5
          /\ bw_ratio' = IF ctl[w] = 0 THEN 1 ELSE ctl[w]
          /\ Call(w, "lock", "set", "set_threshold", bw_ratio')
       \/ /\ ctl[w] = 5
          /\ Goto(w, "lock", "unlock")
          /\ UNCHANGED <<bw_ratio, walk>>
    /\ UNCHANGED <<devices, reg, listed, procReg, started, cfg, ctl>>

\* The end of the switch.
WriteDone(w) ==
    /\ Goto(w, "set", "unlock")
    /\ UNCHANGED <<devices, reg, bw_ratio, listed, procReg, mutex, started,
                   walk, cfg, ctl>>

\* mutex_unlock and return.
WriteUnlock(w) ==
    /\ Goto(w, "unlock", "idle")
    /\ mutex' = Loader
    /\ ctl' = [ctl EXCEPT ![w] = 0]
    /\ UNCHANGED <<devices, reg, bw_ratio, listed, procReg, started, walk, cfg>>

-----------------------------------------------------------------------------
WalkStep(t) == ReadReg(t) \/ WriteReg(t) \/ SkipDevice(t) \/ NodeDone(t)

LoaderStep == \/ ImcInit \/ ProcCreate
              \/ StartBandwidth \/ StartThrottle \/ StartDone
              \/ StartSkipped \/ StartUndone \/ StartUndoDone
              \/ FinishBandwidth \/ ProcRemove \/ ImcExit

WriterStep(w) == WriteLock(w) \/ WriteDone(w) \/ WriteUnlock(w)

Next == \/ \E t \in Thread : WalkStep(t)
        \/ LoaderStep
        \/ \E w \in Writers : (\E k \in Ctl : WriteBegin(w, k)) \/ WriterStep(w)

Spec == Init /\ [][Next]_vars

\* rmmod is in progress.
Unloading == pc[Loader] \in {"disable", "wait"}

\* Threads are scheduled, the mutex is fair (FIFO), rmmod once begun goes on.
Fairness ==
    /\ \A t \in Thread : WF_vars(WalkStep(t))
    /\ \A w \in Writers : SF_vars(WriterStep(w))
    /\ WF_vars(Unloading /\ LoaderStep)

LiveSpec == Spec /\ Fairness

-----------------------------------------------------------------------------
(* Properties.                                                             *)

NodeOfReg(r) == devices[r[1]]

\* The emulation was started, and rmmod has not begun.
Running == started /\ pc[Loader] = "live"

\* Nor is a write in progress.
Quiescent ==
    Running /\ \A w \in Writers : pc[w] = "idle"

\* The ratio that the proc file shows is the one every register of nodes 0 and 1
\* throttles with: no read-modify-write of another thread takes it back or drops
\* the enable bit.  Where a node has no device enabling fails, and nothing is
\* throttled (uncore_proc.c:67-79, uncore_imc.c:243-255, uncore_hswep.c:961-988).
RatioInForce ==
    Quiescent =>
        IF \E n \in Node : Fails(n)
        THEN \A r \in Reg : ~reg[r].en
        ELSE \A r \in Reg :
                 reg[r].en /\ (NodeOfReg(r) \in {0, 1} => reg[r].thr = Code(bw_ratio))

\* Nobody walks the device list before it is built or after uncore_imc_exit has
\* freed it (uncore_imc.c:40-53, uncore_pmu.c:711-714).
NoUseAfterFree == \A t \in Thread : InCall(t) => listed

\* The bandwidth a register throttles to (1 / 2 / 4th part), 0 if it does not.
ThrottledTo(v) ==
    IF v.en THEN CASE v.thr = 255 -> 2 [] v.thr = 127 -> 4 [] OTHER -> 1
            ELSE 0

\* What bandwidth emulation promises, of the registers of nodes 0 and 1: those
\* that a write reaches (uncore_proc.c:67-79).
Promise == INSTANCE Throttle WITH
    Ratio    <- {1, 2, 4},
    Off      <- 0,
    ratio    <- bw_ratio,
    running  <- Running,
    throttle <- [r \in {x \in Reg : NodeOfReg(x) \in {0, 1}} |-> ThrottledTo(reg[r])]

\* UncoreImc implements Throttle: the updates, read and written apart by threads
\* that share only the mutex, add up to one ratio for the machine, changed as a
\* whole (uncore_imc.c:120-255, uncore_proc.c:60-80, uncore_hswep.c:961-1020).
ImplementsThrottle == Promise!Spec

\* rmmod, which waits for the writes in progress, returns
\* (uncore_proc.c:105-109, uncore_pmu.c:704-719).
ExitCompletes == Unloading ~> pc[Loader] = "unloaded"

\* "Game over, back to DRAM" (uncore_pmu.c:706-708): when rmmod has returned, no
\* memory controller is throttled below full bandwidth.
BackToDram ==
    pc[Loader] = "unloaded" => \A r \in Reg : reg[r].en => reg[r].thr = 4095

=============================================================================
