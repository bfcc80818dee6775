------------------------------ MODULE EmulateNvm ------------------------------
(***************************************************************************)
(* Latency emulation: emulate_nvm.c, its proc file, the hrtimer helpers of *)
(* uncore_pmu.c and the PCI box methods of uncore_hswep.c that it calls.   *)
(*                                                                         *)
(* The loader runs start_emulate_nvm (from insmod) and finish_emulate_nvm  *)
(* (from rmmod).  In between an hrtimer callback reads the home agent of   *)
(* node 1, which counts the reads that CPUs of other nodes make to the     *)
(* memory of node 1, and makes the emulated CPU waste time for each.  A    *)
(* counter is read and written in two halves of PCI configuration space,   *)
(* here of Radix values instead of 2^32, and it keeps counting unless the  *)
(* box is frozen.  Bandwidth throttling is one flag; UncoreImc details it. *)
(***************************************************************************)
EXTENDS Naturals, FiniteSets

CONSTANTS
    NCpu, NodeOf,    \* CPUs 0 .. NCpu-1 and the node (0 or 1) of each
    polling_cpu,     \* 6 in the code
    emulate_nvm_cpu, \* 0 in the code
    Stubborn,        \* CPUs that cannot be taken offline
    Bound,           \* is insmod bound to its CPU (numactl --physcpubind)?
    Radix,           \* values of the low half of a counter
    MaxReads         \* bound of the reads counted in a session

CPU == 0 .. NCpu - 1

ASSUME EmulateNvmAssumption ==
    /\ NCpu \in Nat \ {0}
    /\ NodeOf \in [CPU -> {0, 1}]
    /\ polling_cpu \in CPU /\ emulate_nvm_cpu \in CPU
    /\ Stubborn \subseteq CPU
    /\ Bound \in BOOLEAN
    /\ Radix \in Nat \ {0}
    /\ MaxReads \in Nat

VARIABLES
    online,
    here,              \* the CPU the loader runs on
    pc, pos,           \* the loader: phase, and CPU of a walk
    procReg,           \* is /proc/emulate_nvm registered?
    throttled,         \* is bandwidth throttling enabled?
    emulation_started, latency_started,
    box,               \* HA_Box_0 and HA_Box_1: [frz, sel, lo, hi]
    timer, timerCpu,   \* the hrtimer of HA_Box_1 and the CPU it is bound to
    cb, low, counts,   \* its callback: next step, low half and count it read
    counted, charged,  \* ghosts: reads counted in this session, and delayed for
    foreign,           \* ghost: was a read of another CPU than the emulated counted?
    haNodes,           \* hardware: the nodes with a home agent box
    before             \* ghost: the CPUs online when the module was loaded, but
                       \* for those that have failed to come up again

platform == <<online, here>>
loader   == <<pc, pos>>
flags    == <<procReg, throttled, emulation_started, latency_started>>
timers   == <<timer, timerCpu, cb, low, counts>>
ghosts   == <<counted, charged, foreign>>
fixed    == <<haNodes, before>>

vars == <<platform, loader, flags, box, timers, ghosts, fixed>>

emulate_nvm_node == NodeOf[emulate_nvm_cpu]
polling_node     == NodeOf[polling_cpu]

Down  == {"down_emulate", "down_poll"}
Phase == {"unloaded", "prepare", "down_emulate", "down_poll", "bandwidth",
          "latency", "freeze", "event", "unfreeze", "start_timer", "live",
          "undo", "undo_up", "finish_up", "finish_bw", "cancel", "stop", "clear"}

Box == [frz : BOOLEAN, sel : BOOLEAN, lo : 0 .. Radix - 1, hi : 0 .. MaxReads]
ClearedBox == [frz |-> FALSE, sel |-> FALSE, lo |-> 0, hi |-> 0]

TypeOK ==
    /\ online \subseteq CPU /\ before \subseteq CPU
    /\ here \in online
    /\ pc \in Phase
    /\ pos \in 0 .. NCpu
    /\ procReg \in BOOLEAN /\ throttled \in BOOLEAN
    /\ emulation_started \in BOOLEAN /\ latency_started \in BOOLEAN
    /\ box \in [{0, 1} -> Box]
    /\ timer \in {"off", "armed"}
    /\ timerCpu \in CPU
    /\ cb \in {"idle", "read_low", "read_high", "delay", "write_low",
               "write_high", "enable"}
    /\ low \in 0 .. Radix - 1
    /\ counts \in 0 .. MaxReads
    /\ counted \in 0 .. MaxReads /\ charged \in 0 .. MaxReads
    /\ foreign \in BOOLEAN
    /\ haNodes \subseteq {0, 1}

Init ==
    /\ online = CPU
    /\ here \in CPU
    /\ pc = "unloaded"
    /\ pos = 0
    /\ procReg = FALSE /\ throttled = FALSE
    /\ emulation_started = FALSE /\ latency_started = FALSE
    /\ box = [n \in {0, 1} |-> ClearedBox]
    /\ timer = "off"
    /\ timerCpu = 0
    /\ cb = "idle"
    /\ low = 0
    /\ counts = 0
    /\ counted = 0
    /\ charged = 0
    /\ foreign = FALSE
    /\ haNodes \in SUBSET {0, 1}
    /\ before = CPU

Goto(p, q) ==
    /\ pc = p
    /\ pc' = q
    /\ pos' = 0

-----------------------------------------------------------------------------
(* prepare_platform_configuration and restore_platform_configuration.      *)

\* cpumask_of_node: the kernel keeps the online CPUs of a node in it.
CpumaskOfNode(n) == {c \in online : NodeOf[c] = n}

\* insmod runs on any CPU; /proc/emulate_nvm is created, or that fails.
Start ==
    /\ \/ Goto("unloaded", "prepare") /\ procReg' = TRUE
       \/ Goto("unloaded", "live") /\ UNCHANGED procReg
    /\ here' \in online
    /\ before' = online
    /\ UNCHANGED <<online, throttled, emulation_started, latency_started, box,
                   timers, ghosts, haNodes>>

\* The module must be loaded on the polling CPU.
WrongCpu ==
    /\ Goto("prepare", "live")
    /\ here # polling_cpu
    /\ procReg' = FALSE
    /\ UNCHANGED <<platform, throttled, emulation_started, latency_started, box,
                   timers, ghosts, fixed>>

\* The scheduler moves insmod or rmmod to another CPU; insmod, if bound, only
\* before it is checked where it runs.
Reschedule ==
    /\ pc \in {"prepare", "finish_up", "finish_bw", "cancel"} \/ ~Bound
    /\ here' \in online \ {here}
    /\ UNCHANGED <<online, loader, flags, box, timers, ghosts, fixed>>

\* Mutant: the module may be loaded on any CPU.
AnyCpu ==
    /\ Goto("prepare", "down_emulate")
    /\ UNCHANGED <<platform, flags, box, timers, ghosts, fixed>>

RightCpu ==
    /\ Goto("prepare", "down_emulate")
    /\ here = polling_cpu
    /\ UNCHANGED <<platform, flags, box, timers, ghosts, fixed>>

\* The CPU each of the two walks keeps, and the node it walks over.
Kept(p)   == IF p = "down_emulate" THEN emulate_nvm_cpu ELSE polling_cpu
Walked(p) == IF p = "down_emulate" THEN emulate_nvm_node ELSE polling_node

\* cpu_down, whose result is ignored: it fails on a CPU that cannot be removed and
\* on the last one.  A thread of that CPU, the loader included, moves to another.
CpuDown ==
    /\ pc \in Down
    /\ pos \in CPU
    /\ IF /\ pos \in CpumaskOfNode(Walked(pc)) \ ({Kept(pc)} \cup Stubborn)
          /\ online # {pos}
       THEN /\ online' = online \ {pos}
            /\ here' \in IF here = pos THEN online' ELSE {here}
       ELSE UNCHANGED platform
    /\ pos' = pos + 1
    /\ UNCHANGED <<pc, flags, box, timers, ghosts, fixed>>

DownDone ==
    /\ pos = NCpu
    /\ Goto("down_emulate", "down_poll") \/ Goto("down_poll", "bandwidth")
    /\ UNCHANGED <<platform, flags, box, timers, ghosts, fixed>>

\* restore_platform_configuration: its first walk covers every CPU outside the
\* mask of the emulated node, so every offline CPU but the emulated one; cpu_up
\* may fail, and its result is ignored.  Its second walk finds only CPUs that are
\* online, where cpu_up does nothing.
CpuUp ==
    /\ pc \in {"undo_up", "finish_up"}
    /\ pos \in CPU
    /\ \/ /\ online' = IF pos = emulate_nvm_cpu THEN online ELSE online \cup {pos}
          /\ UNCHANGED before
       \/ /\ pos \notin online \cup {emulate_nvm_cpu}
          /\ before' = before \ {pos}
          /\ UNCHANGED online
    /\ pos' = pos + 1
    /\ UNCHANGED <<here, pc, flags, box, timers, ghosts, haNodes>>

-----------------------------------------------------------------------------
(* The rest of start_emulate_nvm.                                          *)

StartBandwidth ==
    /\ Goto("bandwidth", "latency")
    /\ throttled' = TRUE
    /\ UNCHANGED <<platform, procReg, emulation_started, latency_started, box,
                   timers, ghosts, fixed>>

\* start_emulate_latency finds no home agent box on node 0 or on node 1 ...
NoHaBox ==
    /\ Goto("latency", "undo")
    /\ haNodes # {0, 1}
    /\ UNCHANGED <<platform, flags, box, timers, ghosts, fixed>>

\* ... or initialises HA_Box_1, freezes it, selects the event, un-freezes it ...
InitBox ==
    /\ Goto("latency", "freeze")
    /\ haNodes = {0, 1}
    /\ box' = [box EXCEPT ![1] = ClearedBox]
    /\ counted' = 0 /\ charged' = 0 /\ foreign' = FALSE
    /\ UNCHANGED <<platform, flags, timers, fixed>>

SetupBox ==
    /\ \/ Goto("freeze", "event") /\ box' = [box EXCEPT ![1].frz = TRUE]
       \/ Goto("event", "unfreeze") /\ box' = [box EXCEPT ![1].sel = TRUE]
       \/ Goto("unfreeze", "start_timer") /\ box' = [box EXCEPT ![1].frz = FALSE]
    /\ UNCHANGED <<platform, flags, timers, ghosts, fixed>>

\* Mutant: the timer is configured and never started.
StartNoTimer ==
    /\ Goto("start_timer", "live")
    /\ latency_started' = TRUE
    /\ emulation_started' = TRUE
    /\ UNCHANGED <<platform, procReg, throttled, box, timers, ghosts, fixed>>

\* ... and starts the timer on the CPU it runs on.
StartTimer ==
    /\ Goto("start_timer", "live")
    /\ timer' = "armed"
    /\ timerCpu' = here
    /\ latency_started' = TRUE
    /\ emulation_started' = TRUE
    /\ UNCHANGED <<platform, procReg, throttled, box, cb, low, counts, ghosts,
                   fixed>>

\* Mutant: the failure path skips finish_emulate_bandwidth.
UndoCpusOnly ==
    /\ \/ Goto("undo", "undo_up") /\ UNCHANGED procReg
       \/ pos = NCpu /\ Goto("undo_up", "live") /\ procReg' = FALSE
    /\ UNCHANGED <<platform, throttled, emulation_started, latency_started, box,
                   timers, ghosts, fixed>>

\* out2, out1, out: finish_emulate_bandwidth, restore, remove the proc file.
Undo ==
    /\ \/ Goto("undo", "undo_up") /\ throttled' = FALSE /\ UNCHANGED procReg
       \/ /\ pos = NCpu
          /\ Goto("undo_up", "live")
          /\ procReg' = FALSE
          /\ UNCHANGED throttled
    /\ UNCHANGED <<platform, emulation_started, latency_started, box, timers,
                   ghosts, fixed>>

-----------------------------------------------------------------------------
(* finish_emulate_nvm.                                                     *)

Finish ==
    /\ \/ Goto("live", "finish_up") /\ emulation_started /\ procReg' = FALSE
       \/ Goto("live", "unloaded") /\ ~emulation_started /\ UNCHANGED procReg
    /\ UNCHANGED <<platform, throttled, emulation_started, latency_started, box,
                   timers, ghosts, fixed>>

FinishUpDone ==
    /\ pos = NCpu
    /\ Goto("finish_up", "finish_bw")
    /\ UNCHANGED <<platform, flags, box, timers, ghosts, fixed>>

FinishBandwidth ==
    /\ Goto("finish_bw", "cancel")
    /\ throttled' = FALSE
    /\ UNCHANGED <<platform, procReg, emulation_started, latency_started, box,
                   timers, ghosts, fixed>>

\* Mutant: hrtimer_try_to_cancel, which does not wait for the callback.
TryToCancelTimer ==
    /\ Goto("cancel", "stop")
    /\ timer' = IF cb = "idle" THEN "off" ELSE timer
    /\ UNCHANGED <<platform, flags, box, timerCpu, cb, low, counts, ghosts, fixed>>

\* Mutant: waits for a callback that does not restart its timer.
CancelWaitsOff ==
    /\ Goto("cancel", "stop")
    /\ timer = "off"
    /\ UNCHANGED <<platform, flags, box, timers, ghosts, fixed>>

\* uncore_box_cancel_hrtimer waits for a callback that runs.
CancelTimer ==
    /\ Goto("cancel", "stop")
    /\ cb = "idle"
    /\ timer' = "off"
    /\ UNCHANGED <<platform, flags, box, timerCpu, cb, low, counts, ghosts, fixed>>

\* uncore_disable_box of both boxes.
StopBoxes ==
    /\ Goto("stop", "clear")
    /\ box' = [n \in {0, 1} |-> [box[n] EXCEPT !.frz = TRUE]]
    /\ UNCHANGED <<platform, flags, timers, ghosts, fixed>>

\* uncore_clear_box of both boxes, and the end of finish_emulate_nvm.
ClearBoxes ==
    /\ Goto("clear", "unloaded")
    /\ box' = [n \in {0, 1} |-> ClearedBox]
    /\ latency_started' = FALSE
    /\ emulation_started' = FALSE
    /\ UNCHANGED <<platform, procReg, throttled, timers, ghosts, fixed>>

-----------------------------------------------------------------------------
(* The home agent and emulate_nvm_hrtimer.                                 *)

Value(b) == b.lo + Radix * b.hi

\* CPU c reads memory of node 1 from another node.  The home agent cannot tell
\* the CPUs of that node apart.
RemoteRead(c) ==
    /\ c \in online
    /\ NodeOf[c] # 1
    /\ box[1].sel /\ ~box[1].frz
    /\ counted < MaxReads
    /\ box' = [box EXCEPT ![1].lo = (@ + 1) % Radix,
                          ![1].hi = IF box[1].lo + 1 = Radix THEN @ + 1 ELSE @]
    /\ counted' = counted + 1
    /\ foreign' = (foreign \/ c # emulate_nvm_cpu)
    /\ UNCHANGED <<platform, loader, flags, timers, charged, fixed>>

Step(p, q) == cb = p /\ cb' = q

CbUnchanged == UNCHANGED <<platform, loader, flags, timer, timerCpu, counted,
                           foreign, fixed>>

\* Mutant: the counter is read while it counts.
FireUnfrozen ==
    /\ timer = "armed"
    /\ Step("idle", "read_low")
    /\ CbUnchanged
    /\ UNCHANGED <<box, low, counts, charged>>

\* Step I: uncore_disable_box, then uncore_read_counter, low half first.
Fire ==
    /\ timer = "armed"
    /\ Step("idle", "read_low")
    /\ box' = [box EXCEPT ![1].frz = TRUE]
    /\ CbUnchanged
    /\ UNCHANGED <<low, counts, charged>>

ReadCounter ==
    /\ \/ Step("read_low", "read_high") /\ low' = box[1].lo /\ UNCHANGED counts
       \/ /\ Step("read_high", "delay")
          /\ counts' = Radix * box[1].hi + low
          /\ low' = 0
    /\ CbUnchanged
    /\ UNCHANGED <<box, charged>>

\* Step II: the emulated CPU executes emulate_nvm_func; if it is offline the call
\* fails and the result is ignored.
SendDelay ==
    /\ Step("delay", "write_low")
    /\ charged' = IF emulate_nvm_cpu \in online THEN charged + counts ELSE charged
    /\ counts' = 0
    /\ CbUnchanged
    /\ UNCHANGED <<box, low>>

\* Mutant: only the low half is cleared.
ClearLowOnly ==
    /\ \/ Step("write_low", "write_high") /\ box' = [box EXCEPT ![1].lo = 0]
       \/ Step("write_high", "enable") /\ UNCHANGED box
    /\ CbUnchanged
    /\ UNCHANGED <<low, counts, charged>>

\* Step III: uncore_write_counter(0), low half first, then uncore_enable_box.
ClearCounter ==
    /\ \/ Step("write_low", "write_high") /\ box' = [box EXCEPT ![1].lo = 0]
       \/ Step("write_high", "enable") /\ box' = [box EXCEPT ![1].hi = 0]
    /\ CbUnchanged
    /\ UNCHANGED <<low, counts, charged>>

\* Mutant: the callback leaves the box frozen.
RestartFrozen ==
    /\ Step("enable", "idle")
    /\ CbUnchanged
    /\ UNCHANGED <<box, low, counts, charged>>

\* The callback returns HRTIMER_RESTART.
Restart ==
    /\ Step("enable", "idle")
    /\ box' = [box EXCEPT ![1].frz = FALSE]
    /\ CbUnchanged
    /\ UNCHANGED <<low, counts, charged>>

-----------------------------------------------------------------------------
LoaderStep ==
    \/ WrongCpu \/ RightCpu \/ CpuDown \/ DownDone
    \/ StartBandwidth \/ NoHaBox \/ InitBox \/ SetupBox \/ StartTimer
    \/ Undo \/ CpuUp
    \/ FinishUpDone \/ FinishBandwidth \/ CancelTimer \/ StopBoxes \/ ClearBoxes

Callback == Fire \/ ReadCounter \/ SendDelay \/ ClearCounter \/ Restart

Next == \/ Start \/ Finish \/ LoaderStep \/ Reschedule
        \/ Callback
        \/ \E c \in CPU : RemoteRead(c)

Spec == Init /\ [][Next]_vars

\* insmod and rmmod, once begun, go on; the timer fires and its callback runs to
\* the end.  The timer restarts itself, but hrtimer_cancel is tried again and
\* again and succeeds between two callbacks.
Fairness == SF_vars(LoaderStep) /\ WF_vars(Callback)

LiveSpec == Spec /\ Fairness

-----------------------------------------------------------------------------
(* Properties.                                                             *)

\* Every remote read the home agent counted in a session is charged to the
\* emulated CPU exactly once or still in the counter: none is lost or charged
\* twice by the two-part reads and writes or by the reads that arrive meanwhile
\* (emulate_nvm.c:96-117, uncore_hswep.c:454-474).
ChargedOnce ==
    latency_started =>
        CASE cb \in {"idle", "read_low", "read_high", "delay"} ->
                 charged + Value(box[1]) = counted
          [] OTHER -> charged = counted

\* What latency emulation promises.  A read is pending while it is in the counter
\* and the callback has not yet sent it: clearing the counter after that is of no
\* account.
Promise == INSTANCE Charge WITH
    active  <- box[1].sel,
    pending <- IF cb \in {"idle", "read_low", "read_high", "delay"}
               THEN Value(box[1]) ELSE 0

\* EmulateNvm implements Charge: freezing, two halves read and two halves cleared
\* amount to one step that charges what is pending, and neither a failed start nor
\* the end of a session leaves a debt to the next (emulate_nvm.c:83-125, 127-190).
ImplementsCharge == Promise!Spec

\* When start_emulate_nvm has failed, or rmmod has returned, nothing it did is
\* left: no timer or callback, no throttling, no proc file, no event selected,
\* and every CPU that was online at insmod is online, unless it has failed to come
\* up (emulate_nvm.c:347-366).
NothingLeftBehind ==
    pc = "unloaded" \/ (pc = "live" /\ ~emulation_started) =>
        /\ timer = "off" /\ cb = "idle"
        /\ ~throttled /\ ~procReg
        /\ \A n \in {0, 1} : ~box[n].sel
        /\ before \subseteq online

\* The boxes are cleared only when no callback can touch them again, so that the
\* counter and the timer in them may be freed (emulate_nvm.c:170-190).
TimerBeforeBoxes ==
    pc \in {"unloaded", "stop", "clear"} => timer = "off" /\ cb = "idle"

\* "Polling CPU is the one always polling uncore pmu" (emulate_nvm.c:303-304), and
\* it stays online, whatever happens to the loader and to the CPUs that are taken
\* down and brought back: the timer is bound to the CPU that starts it, and insmod
\* to the one that was checked (emulate_nvm.c:227-262).
PolledByPollingCpu ==
    timer = "armed" => timerCpu = polling_cpu /\ polling_cpu \in online

\* A counted read is charged in the end, unless the module is unloaded: the timer
\* is never left unarmed nor the box frozen (emulate_nvm.c:113-124).
ReadsAreCharged ==
    \A n \in 1 .. MaxReads :
        counted >= n /\ pc = "live" /\ latency_started
            ~> charged >= n \/ pc # "live"

\* The box counts again after every callback (emulate_nvm.c:114-118).
CountsAgain == pc = "live" /\ box[1].frz ~> ~box[1].frz \/ pc # "live"

\* rmmod returns, whatever the timer does (emulate_nvm.c:356-366).
FinishCompletes == pc = "finish_up" ~> pc = "unloaded"

\* "only the emulating cpu can alive!", because the event cannot distinguish the
\* requests of different CPUs (emulate_nvm.c:239-245): only reads of the emulated
\* CPU are ever counted and charged to it.
OnlyEmulatedCounted == ~foreign

=============================================================================
