------------------------------- MODULE CorePmu -------------------------------
(***************************************************************************)
(* The core-PMU latency emulator: core_pmu.c and core_proc.c.              *)
(*                                                                         *)
(* One loader thread runs core_pmu_init and core_pmu_exit, any number of   *)
(* writer threads run core_pmu_proc_write, and every CPU runs the NMI      *)
(* handler.  A "for_each_online_cpu" loop is a sweep: the thread t visits  *)
(* the CPUs in ascending order, pos[t] is the CPU it is at, and stp[t]     *)
(* counts the steps already executed by the function it runs there by IPI. *)
(* While stp[t] > 0 that CPU is in interrupt context: only an NMI can      *)
(* interrupt it.                                                           *)
(*                                                                         *)
(* Data abstraction.  The counter PMC0 holds the number of events that are *)
(* missing until it overflows: 32, 64, 128 or 256 for a counter armed with *)
(* -32 ... -256, and 0 for a counter that was cleared, armed with 0 or has *)
(* wrapped, which is 2^48 events away from an overflow and is taken never  *)
(* to overflow.  MSR_CORE_PERF_GLOBAL_OVF_CTRL has no state of its own.    *)
(***************************************************************************)
EXTENDS Naturals

CONSTANTS
    NCpu,         \* number of CPUs; the CPUs are 0 .. NCpu-1
    Loader,       \* the thread of insmod and rmmod
    Writers,      \* the threads that write /proc/core_pmu
    Ctl,          \* the control characters they write; 5 is any invalid one
    Removable,    \* CPUs that may be taken offline
    EarlyWrites,  \* may a write begin before insmod has returned?
    OtherNmis,    \* do NMIs of other sources arrive?
    Unmasks,      \* does the kernel's own NMI handler write LVTPC again?
    MaxTimes      \* bound of the NMI counts, which saturate at it

CPU == 0 .. NCpu - 1
Thread == Writers \cup {Loader}

ASSUME CorePmuAssumption ==
    /\ NCpu \in Nat \ {0}
    /\ Loader \notin Writers
    /\ Ctl \subseteq 0 .. 5
    /\ Removable \subseteq CPU \ {0}
    /\ EarlyWrites \in BOOLEAN
    /\ OtherNmis \in BOOLEAN
    /\ Unmasks \in BOOLEAN
    /\ MaxTimes \in Nat

VARIABLES
    pre_event_init_value, \* the programmed interval, 0 = never overflow
    event,                \* pre_event_info.event
    times,                \* PERCPU_NMI_TIMES
    pmc, sel, ctrl,       \* IA32_PMC0, IA32_PERFEVTSEL0, PERF_GLOBAL_CTRL bit 0
    status,               \* PERF_GLOBAL_STATUS bit 0
    lvtpc,                \* LVTPC: NMI delivery is set up and not masked
    nmi,                  \* the latched NMI of each CPU and its source
    stage, hval, hread,   \* NMI handler: its step, the interval and count it read
    handler, procReg,     \* is the NMI handler / the proc file registered?
    mutex,                \* core_pmu_proc_mutex: its holder, or Loader when free
    online,
    pc, pos, stp, arg,    \* threads: phase, sweep position, IPI step, value read
    ctl,                  \* the character each writer writes
    missed,               \* ghost: CPUs the last clearing sweep found offline
    since                 \* ghost: NMIs counted on a CPU since its count was reset

globals == <<pre_event_init_value, event>>
counts  == <<times, since>>
pmu     == <<pmc, sel, ctrl, status>>
nmiVars == <<nmi, stage, hval, hread>>
kernel  == <<handler, procReg, mutex, online>>
threads == <<pc, pos, stp, arg, ctl>>

vars == <<globals, counts, pmu, lvtpc, nmiVars, kernel, threads, missed>>

Interval == {0, 32, 64, 128, 256}
Event    == {"UNHALTED_CYCLES", "LLC_MISSES"}

\* Phases in which a thread walks over the CPUs, and all phases by thread.
Sweeps == {"lapic", "zero", "clear", "event", "enable", "exit_clear"}

LoaderPhase == {"unloaded", "lapic", "register", "setval", "clear", "event",
                "enable", "live", "remove", "exit_clear", "unregister", "sync"}
WriterPhase == {"idle", "lock", "zero", "clear", "event", "enable", "unlock"}

SysType ==
    /\ pre_event_init_value \in Interval
    /\ event \in Event
    /\ handler \in BOOLEAN
    /\ procReg \in BOOLEAN
    /\ mutex \in Thread
    /\ online \subseteq CPU
    /\ missed \subseteq CPU

CpuType ==
    /\ times \in [CPU -> 0 .. MaxTimes]
    /\ since \in [CPU -> 0 .. MaxTimes]
    /\ hread \in [CPU -> 0 .. MaxTimes]
    /\ pmc \in [CPU -> Interval]
    /\ hval \in [CPU -> Interval]
    /\ sel \in [CPU -> Event \cup {"none"}]
    /\ ctrl \in [CPU -> BOOLEAN]
    /\ status \in [CPU -> BOOLEAN]
    /\ lvtpc \in [CPU -> BOOLEAN]
    /\ nmi \in [CPU -> {"none", "pmi", "other"}]
    /\ stage \in [CPU -> {"none", "rearm", "inc"}]

ThreadType ==
    /\ pc \in [Thread -> LoaderPhase \cup WriterPhase]
    /\ pc[Loader] \in LoaderPhase
    /\ \A w \in Writers : pc[w] \in WriterPhase
    /\ pos \in [Thread -> 0 .. NCpu]
    /\ stp \in [Thread -> 0 .. 2]
    /\ arg \in [Thread -> Interval]
    /\ ctl \in [Writers -> 0 .. 5]

TypeOK == SysType /\ CpuType /\ ThreadType

Init ==
    /\ pre_event_init_value = 0
    /\ event = "UNHALTED_CYCLES"
    /\ times = [c \in CPU |-> 0]
    /\ since = [c \in CPU |-> 0]
    /\ pmc = [c \in CPU |-> 0]
    /\ sel = [c \in CPU |-> "none"]
    /\ ctrl = [c \in CPU |-> FALSE]
    /\ status = [c \in CPU |-> FALSE]
    /\ lvtpc = [c \in CPU |-> FALSE]
    /\ nmi = [c \in CPU |-> "none"]
    /\ stage = [c \in CPU |-> "none"]
    /\ hval = [c \in CPU |-> 0]
    /\ hread = [c \in CPU |-> 0]
    /\ handler = FALSE
    /\ procReg = FALSE
    /\ mutex = Loader
    /\ online = CPU
    /\ pc = [t \in Thread |-> IF t = Loader THEN "unloaded" ELSE "idle"]
    /\ pos = [t \in Thread |-> 0]
    /\ stp = [t \in Thread |-> 0]
    /\ arg = [t \in Thread |-> 0]
    /\ ctl = [w \in Writers |-> 0]
    /\ missed = {}

-----------------------------------------------------------------------------
(* Threads and their sweeps.                                               *)

\* Thread t goes on to phase p, at the first CPU if p is a sweep.
Goto(t, p) ==
    /\ pc' = [pc EXCEPT ![t] = p]
    /\ pos' = [pos EXCEPT ![t] = 0]
    /\ UNCHANGED stp

\* CPU c executes a function some thread sent to it by IPI.
InIpi(c) == \E t \in Thread : pos[t] = c /\ stp[t] > 0

\* CPU c can execute the next step of the function t has sent to it: it is
\* online, outside the NMI handler, and inside no other thread's function.
CanRun(t, c) ==
    /\ c \in online
    /\ pos[t] = c
    /\ stage[c] = "none"
    /\ \A u \in Thread \ {t} : ~(pos[u] = c /\ stp[u] > 0)

\* The function goes on on the same CPU, or returns and the sweep moves on.
StayOnCpu(t) ==
    /\ stp' = [stp EXCEPT ![t] = @ + 1]
    /\ UNCHANGED pos

NextCpu(t) ==
    /\ pos' = [pos EXCEPT ![t] = @ + 1]
    /\ stp' = [stp EXCEPT ![t] = 0]

\* __core_pmu_clear_msrs: PMC0, then PERFEVTSEL0, then GLOBAL_CTRL.  The last
\* write stores 0 in GLOBAL_OVF_CTRL, which clears no bit of GLOBAL_STATUS.
ClearMsrs(t, c) ==
    /\ pc[t] \in {"clear", "exit_clear"}
    /\ CanRun(t, c)
    /\ \/ /\ stp[t] = 0
          /\ pmc' = [pmc EXCEPT ![c] = 0]
          /\ missed' = missed \ {c}
          /\ StayOnCpu(t)
          /\ UNCHANGED <<sel, ctrl>>
       \/ /\ stp[t] = 1
          /\ sel' = [sel EXCEPT ![c] = "none"]
          /\ StayOnCpu(t)
          /\ UNCHANGED <<pmc, ctrl, missed>>
       \/ /\ stp[t] = 2
          /\ ctrl' = [ctrl EXCEPT ![c] = FALSE]
          /\ NextCpu(t)
          /\ UNCHANGED <<pmc, sel, missed>>
    /\ UNCHANGED <<globals, counts, status, lvtpc, nmiVars, kernel, pc, arg, ctl>>

\* __core_pmu_enable_predefined_event: read the shared interval, then write it
\* to PMC0 and the event to PERFEVTSEL0.
EnablePredefinedEvent(t, c) ==
    /\ pc[t] = "event"
    /\ CanRun(t, c)
    /\ \/ /\ stp[t] = 0
          /\ arg' = [arg EXCEPT ![t] = pre_event_init_value]
          /\ StayOnCpu(t)
          /\ UNCHANGED <<pmc, sel>>
       \/ /\ stp[t] = 1
          /\ pmc' = [pmc EXCEPT ![c] = arg[t]]
          /\ sel' = [sel EXCEPT ![c] = event]
          /\ arg' = [arg EXCEPT ![t] = 0]
          /\ NextCpu(t)
    /\ UNCHANGED <<globals, counts, ctrl, status, lvtpc, nmiVars, kernel, pc,
                   ctl, missed>>

\* __core_pmu_enable_counting.
EnableCounting(t, c) ==
    /\ pc[t] = "enable"
    /\ CanRun(t, c)
    /\ ctrl' = [ctrl EXCEPT ![c] = TRUE]
    /\ NextCpu(t)
    /\ UNCHANGED <<globals, counts, pmc, sel, status, lvtpc, nmiVars, kernel,
                   pc, arg, ctl, missed>>

\* __core_pmu_lapic_init.
LapicInit(t, c) ==
    /\ pc[t] = "lapic"
    /\ CanRun(t, c)
    /\ lvtpc' = [lvtpc EXCEPT ![c] = TRUE]
    /\ NextCpu(t)
    /\ UNCHANGED <<globals, counts, pmu, nmiVars, kernel, pc, arg, ctl, missed>>

\* core_pmu_clear_counter: a store to the other CPU's variable, no IPI.
ClearCounter(t, c) ==
    /\ pc[t] = "zero"
    /\ pos[t] = c
    /\ c \in online
    /\ times' = [times EXCEPT ![c] = 0]
    /\ since' = [since EXCEPT ![c] = 0]
    /\ NextCpu(t)
    /\ UNCHANGED <<globals, pmu, lvtpc, nmiVars, kernel, pc, arg, ctl, missed>>

\* for_each_online_cpu passes over an offline CPU; a CPU that goes offline after
\* the test makes smp_call_function_single fail, and the error is ignored.
SkipOffline(t, c) ==
    /\ pc[t] \in Sweeps
    /\ pos[t] = c
    /\ stp[t] = 0
    /\ c \notin online
    /\ missed' = IF pc[t] = "clear" THEN missed \cup {c} ELSE missed
    /\ NextCpu(t)
    /\ UNCHANGED <<globals, counts, pmu, lvtpc, nmiVars, kernel, pc, arg, ctl>>

\* What follows a sweep: core_pmu_start_sampling is the phases clear, event,
\* enable; a write of '0' calls core_pmu_clear_msrs alone.
AfterSweep(t) ==
    CASE pc[t] = "lapic"      -> "register"
      [] pc[t] = "zero"       -> "clear"
      [] pc[t] = "clear"      -> IF t \in Writers /\ ctl[t] = 0
                                 THEN "unlock" ELSE "event"
      [] pc[t] = "event"      -> "enable"
      [] pc[t] = "enable"     -> IF t = Loader THEN "live" ELSE "unlock"
      [] pc[t] = "exit_clear" -> "unregister"

\* The end of a sweep.  core_pmu_enable_predefined_event stores the event in
\* pre_event_info before its own sweep.
FinishSweep(t) ==
    /\ pc[t] \in Sweeps
    /\ pos[t] = NCpu
    /\ Goto(t, AfterSweep(t))
    /\ event' = IF AfterSweep(t) = "event" THEN "LLC_MISSES" ELSE event
    /\ UNCHANGED <<pre_event_init_value, counts, pmu, lvtpc, nmiVars, kernel,
                   arg, ctl, missed>>

-----------------------------------------------------------------------------
(* core_pmu_init and core_pmu_exit.                                        *)

\* The module is loaded with its statics zeroed and creates the proc file.  (If
\* proc_create fails, core_pmu_init returns with nothing changed.)
Insmod ==
    /\ pc[Loader] = "unloaded"
    /\ pre_event_init_value' = 0
    /\ event' = "UNHALTED_CYCLES"
    /\ times' = [c \in CPU |-> 0]
    /\ since' = [c \in CPU |-> 0]
    /\ procReg' = TRUE
    /\ missed' = {}
    /\ Goto(Loader, "lapic")
    /\ UNCHANGED <<pmu, lvtpc, nmiVars, handler, mutex, online, arg, ctl>>

\* Mutant: the registration of the handler is forgotten.
RegisterNothing ==
    /\ pc[Loader] = "register"
    /\ Goto(Loader, "setval")
    /\ UNCHANGED <<globals, counts, pmu, lvtpc, nmiVars, kernel, arg, ctl, missed>>

\* core_pmu_regitser_nmi_handler.
RegisterNmiHandler ==
    /\ pc[Loader] = "register"
    /\ handler' = TRUE
    /\ Goto(Loader, "setval")
    /\ UNCHANGED <<globals, counts, pmu, lvtpc, nmiVars, procReg, mutex, online,
                   arg, ctl, missed>>

\* Mutant: core_pmu_init arms the counters without clearing them.
SetInitValueNoClear ==
    /\ pc[Loader] = "setval"
    /\ pre_event_init_value' = 256
    /\ event' = "LLC_MISSES"
    /\ Goto(Loader, "event")
    /\ UNCHANGED <<counts, pmu, lvtpc, nmiVars, kernel, arg, ctl, missed>>

\* pre_event_init_value = -256, followed by core_pmu_start_sampling.
SetInitValue ==
    /\ pc[Loader] = "setval"
    /\ pre_event_init_value' = 256
    /\ Goto(Loader, "clear")
    /\ UNCHANGED <<event, counts, pmu, lvtpc, nmiVars, kernel, arg, ctl, missed>>

\* core_pmu_exit: remove_proc_entry lets no new write in ...
ProcRemove ==
    /\ pc[Loader] = "live"
    /\ procReg' = FALSE
    /\ Goto(Loader, "remove")
    /\ UNCHANGED <<globals, counts, pmu, lvtpc, nmiVars, handler, mutex, online,
                   arg, ctl, missed>>

\* ... and returns when the writes in progress have.
ProcRemoved ==
    /\ pc[Loader] = "remove"
    /\ \A w \in Writers : pc[w] = "idle"
    /\ Goto(Loader, "exit_clear")
    /\ UNCHANGED <<globals, counts, pmu, lvtpc, nmiVars, kernel, arg, ctl, missed>>

\* unregister_nmi_handler unlinks the handler ...
UnregisterNmiHandler ==
    /\ pc[Loader] = "unregister"
    /\ handler' = FALSE
    /\ Goto(Loader, "sync")
    /\ UNCHANGED <<globals, counts, pmu, lvtpc, nmiVars, procReg, mutex, online,
                   arg, ctl, missed>>

\* ... and waits for the handlers that are running.
UnregisterDone ==
    /\ pc[Loader] = "sync"
    /\ \A c \in CPU : stage[c] = "none"
    /\ Goto(Loader, "unloaded")
    /\ UNCHANGED <<globals, counts, pmu, lvtpc, nmiVars, kernel, arg, ctl, missed>>

-----------------------------------------------------------------------------
(* core_pmu_proc_write.  A write that fails its first two tests (length or *)
(* offset, copy_from_user) returns with nothing changed.                   *)

WriteBegin(w, k) ==
    /\ pc[w] = "idle"
    /\ procReg
    /\ EarlyWrites \/ pc[Loader] = "live"
    /\ ctl' = [ctl EXCEPT ![w] = k]
    /\ Goto(w, "lock")
    /\ UNCHANGED <<globals, counts, pmu, lvtpc, nmiVars, kernel, arg, missed>>

\* Mutant: a wrong literal.
CtlIntervalTypo(k) == IF k = 0 THEN 0 ELSE 16

\* The interval each control character stands for.
CtlInterval(k) ==
    CASE k = 0 -> 0
      [] k = 1 -> 32
      [] k = 2 -> 64
      [] k = 3 -> 128
      [] OTHER -> 256

\* Mutant: a write that finds the file unregistered waits with the mutex free.
WriteLockRegistered(w) ==
    /\ pc[w] = "lock"
    /\ procReg
    /\ mutex = Loader
    /\ mutex' = w
    /\ pre_event_init_value' = CtlInterval(ctl[w])
    /\ Goto(w, "zero")
    /\ UNCHANGED <<event, counts, pmu, lvtpc, nmiVars, handler, procReg, online,
                   arg, ctl, missed>>

\* mutex_lock, then the switch up to the call of core_pmu_clear_counter.
WriteLock(w) ==
    /\ pc[w] = "lock"
    /\ mutex = Loader
    /\ mutex' = w
    /\ \/ /\ ctl[w] # 5
          /\ pre_event_init_value' = CtlInterval(ctl[w])
          /\ Goto(w, "zero")
       \/ /\ ctl[w] = 5
          /\ Goto(w, "unlock")
          /\ UNCHANGED pre_event_init_value
    /\ UNCHANGED <<event, counts, pmu, lvtpc, nmiVars, handler, procReg, online,
                   arg, ctl, missed>>

\* mutex_unlock and return.
WriteUnlock(w) ==
    /\ pc[w] = "unlock"
    /\ mutex' = Loader
    /\ ctl' = [ctl EXCEPT ![w] = 0]
    /\ Goto(w, "idle")
    /\ UNCHANGED <<globals, counts, pmu, lvtpc, nmiVars, handler, procReg, online,
                   arg, missed>>

-----------------------------------------------------------------------------
(* The counters and the NMI handler.                                       *)

\* Counter 0 of CPU c counts towards an overflow.
Counting(c) == ctrl[c] /\ sel[c] # "none" /\ pmc[c] # 0

\* The event is counted in user mode only (USR_MODE), so never inside an IPI
\* function or the NMI handler.  INT_ENABLE raises the NMI, through the LVT, whose
\* mask the hardware sets on delivery.
Overflow(c) ==
    /\ c \in online
    /\ Counting(c)
    /\ stage[c] = "none"
    /\ ~InIpi(c)
    /\ pmc' = [pmc EXCEPT ![c] = 0]
    /\ status' = [status EXCEPT ![c] = TRUE]
    /\ nmi' = [nmi EXCEPT ![c] = IF lvtpc[c] THEN "pmi" ELSE @]
    /\ lvtpc' = [lvtpc EXCEPT ![c] = FALSE]
    /\ UNCHANGED <<globals, counts, sel, ctrl, stage, hval, hread, kernel,
                   threads, missed>>

\* An NMI of another source (watchdog, backtrace request).
OtherNmi(c) ==
    /\ OtherNmis
    /\ c \in online
    /\ nmi[c] = "none"
    /\ nmi' = [nmi EXCEPT ![c] = "other"]
    /\ UNCHANGED <<globals, counts, pmu, lvtpc, stage, hval, hread, kernel,
                   threads, missed>>

\* An NMI is taken: not inside another one, but inside an IPI function.  The
\* module's handler leaves LVTPC as it is, masked; the kernel's, which is called
\* after it in the same NMI, may unmask it, and nothing overflows before.
TakeNmi(c) ==
    /\ nmi[c] # "none"
    /\ stage[c] = "none"
    /\ nmi' = [nmi EXCEPT ![c] = "none"]
    /\ lvtpc' = [lvtpc EXCEPT ![c] = @ \/ Unmasks]

\* No handler, or the handler returns NMI_DONE.
NmiDone(c) ==
    /\ TakeNmi(c)
    /\ ~(handler /\ status[c])
    /\ UNCHANGED <<globals, counts, pmu, stage, hval, hread, kernel,
                   threads, missed>>

\* Mutant: an interval of 0 is taken for "not configured yet".
NmiRestartDefault(c) ==
    /\ TakeNmi(c)
    /\ handler
    /\ status[c]
    /\ pmc' = [pmc EXCEPT ![c] = 0]
    /\ sel' = [sel EXCEPT ![c] = "none"]
    /\ ctrl' = [ctrl EXCEPT ![c] = FALSE]
    /\ hval' = [hval EXCEPT ![c] = IF pre_event_init_value = 0 THEN 256
                                   ELSE pre_event_init_value]
    /\ stage' = [stage EXCEPT ![c] = "rearm"]
    /\ UNCHANGED <<globals, counts, status, hread, kernel, threads, missed>>

\* core_pmu_nmi_handler up to the read of pre_event_init_value ...
NmiRestart(c) ==
    /\ TakeNmi(c)
    /\ handler
    /\ status[c]
    /\ pmc' = [pmc EXCEPT ![c] = 0]
    /\ sel' = [sel EXCEPT ![c] = "none"]
    /\ ctrl' = [ctrl EXCEPT ![c] = FALSE]
    /\ hval' = [hval EXCEPT ![c] = pre_event_init_value]
    /\ stage' = [stage EXCEPT ![c] = "rearm"]
    /\ UNCHANGED <<globals, counts, status, hread, kernel, threads, missed>>

\* Mutant: the handler does not call __core_pmu_enable_counting.
NmiRearmStopped(c) ==
    /\ stage[c] = "rearm"
    /\ pmc' = [pmc EXCEPT ![c] = hval[c]]
    /\ sel' = [sel EXCEPT ![c] = event]
    /\ hval' = [hval EXCEPT ![c] = 0]
    /\ hread' = [hread EXCEPT ![c] = times[c]]
    /\ stage' = [stage EXCEPT ![c] = "inc"]
    /\ UNCHANGED <<globals, counts, ctrl, status, lvtpc, nmi, kernel, threads,
                   missed>>

\* ... up to the load of this_cpu_inc, an unlocked read-modify-write ...
NmiRearm(c) ==
    /\ stage[c] = "rearm"
    /\ pmc' = [pmc EXCEPT ![c] = hval[c]]
    /\ sel' = [sel EXCEPT ![c] = event]
    /\ ctrl' = [ctrl EXCEPT ![c] = TRUE]
    /\ hval' = [hval EXCEPT ![c] = 0]
    /\ hread' = [hread EXCEPT ![c] = times[c]]
    /\ stage' = [stage EXCEPT ![c] = "inc"]
    /\ UNCHANGED <<globals, counts, status, lvtpc, nmi, kernel, threads, missed>>

Incremented(n) == IF n < MaxTimes THEN n + 1 ELSE n

\* Mutant: all CPUs count in the variable of CPU 0.
NmiCountShared(c) ==
    /\ stage[c] = "inc"
    /\ times' = [times EXCEPT ![0] = Incremented(hread[c])]
    /\ since' = [since EXCEPT ![c] = Incremented(@)]
    /\ hread' = [hread EXCEPT ![c] = 0]
    /\ stage' = [stage EXCEPT ![c] = "none"]
    /\ UNCHANGED <<globals, pmu, lvtpc, nmi, hval, kernel, threads, missed>>

\* ... and its store.
NmiCount(c) ==
    /\ stage[c] = "inc"
    /\ times' = [times EXCEPT ![c] = Incremented(hread[c])]
    /\ since' = [since EXCEPT ![c] = Incremented(@)]
    /\ hread' = [hread EXCEPT ![c] = 0]
    /\ stage' = [stage EXCEPT ![c] = "none"]
    /\ UNCHANGED <<globals, pmu, lvtpc, nmi, hval, kernel, threads, missed>>

-----------------------------------------------------------------------------
(* CPU hotplug.  The MSRs of an offline CPU keep their values.             *)

CpuDown(c) ==
    /\ c \in Removable \cap online
    /\ stage[c] = "none"
    /\ nmi[c] = "none"
    /\ ~InIpi(c)
    /\ online' = online \ {c}
    /\ UNCHANGED <<globals, counts, pmu, lvtpc, nmiVars, handler, procReg, mutex,
                   threads, missed>>

CpuUp(c) ==
    /\ c \in Removable \ online
    /\ online' = online \cup {c}
    /\ UNCHANGED <<globals, counts, pmu, lvtpc, nmiVars, handler, procReg, mutex,
                   threads, missed>>

-----------------------------------------------------------------------------
SweepStep(t) ==
    \/ \E c \in CPU : \/ ClearMsrs(t, c)
                      \/ EnablePredefinedEvent(t, c)
                      \/ EnableCounting(t, c)
                      \/ LapicInit(t, c)
                      \/ ClearCounter(t, c)
                      \/ SkipOffline(t, c)
    \/ FinishSweep(t)

LoaderCall ==
    \/ RegisterNmiHandler
    \/ SetInitValue
    \/ ProcRemoved
    \/ UnregisterNmiHandler
    \/ UnregisterDone

WriterCall(w) == WriteLock(w) \/ WriteUnlock(w)

HandlerStep(c) == NmiDone(c) \/ NmiRestart(c) \/ NmiRearm(c) \/ NmiCount(c)

Next ==
    \/ \E t \in Thread : SweepStep(t)
    \/ Insmod
    \/ LoaderCall
    \/ ProcRemove
    \/ \E w \in Writers : (\E k \in Ctl : WriteBegin(w, k)) \/ WriterCall(w)
    \/ \E c \in CPU : Overflow(c) \/ OtherNmi(c) \/ HandlerStep(c)
    \/ \E c \in CPU : CpuDown(c) \/ CpuUp(c)

Spec == Init /\ [][Next]_vars

(***************************************************************************)
(* Fairness.  A CPU finishes the NMI handler it is in.  NMIs interrupt the *)
(* functions sent by IPI again and again but never forever (a counter      *)
(* overflows in user mode only), and the mutex is handed out in FIFO order *)
(* so the threads are strongly fair.  Nobody has to load or unload the     *)
(* module, or to write to the proc file.                                   *)
(***************************************************************************)
Fairness ==
    /\ \A t \in Thread : SF_vars(SweepStep(t))
    /\ WF_vars(LoaderCall)
    /\ \A w \in Writers : SF_vars(WriterCall(w))
    /\ \A c \in CPU : WF_vars(HandlerStep(c))

LiveSpec == Spec /\ Fairness

-----------------------------------------------------------------------------
(* Properties.                                                             *)

\* Thread t has still to clear the counter of CPU c, or to pass over it.
Owes(t, c) ==
    \/ pc[t] \in {"lapic", "register", "setval", "zero"}
    \/ pc[t] = "clear" /\ (pos[t] < c \/ (pos[t] = c /\ stp[t] = 0))

\* No CPU counts towards an interval other than the one last programmed, unless
\* a thread is on its way to clear that CPU or the last clearing sweep found it
\* offline: neither the NMI handler nor an IPI function that read the old value
\* of pre_event_init_value can leave it behind in PMC0 (core_pmu.c:303, 406).
NoStaleThreshold ==
    pc[Loader] # "unloaded" =>
        \A c \in CPU \ missed :
            pmc[c] \in {0, pre_event_init_value} \/ \E t \in Thread : Owes(t, c)

\* insmod has returned, rmmod has not begun, and no write is in progress.
Quiescent == pc[Loader] = "live" /\ \A w \in Writers : pc[w] = "idle"

\* An overflow of CPU c is, or will be, an NMI: LVTPC is unmasked, or is so when
\* the NMI before has been taken.
Delivers(c) == lvtpc[c] \/ nmi[c] = "pmi"

\* What core_pmu_start_sampling promises (core_pmu.c:432-438): once insmod or a
\* write has returned, every online CPU counts LLC misses towards the interval
\* in force, or has overflowed and is about to be re-armed with it.
SamplingInForce ==
    Quiescent /\ pre_event_init_value # 0 =>
        \A c \in online :
            \/ stage[c] = "rearm" /\ hval[c] = pre_event_init_value
            \/ /\ ctrl[c] /\ Delivers(c) /\ sel[c] = "LLC_MISSES"
               /\ pmc[c] = pre_event_init_value \/ (pmc[c] = 0 /\ nmi[c] = "pmi")

\* "0 = no overflow = disable" (core_proc.c:73): once a write of '0' has
\* returned, no online CPU can overflow, whatever NMI was in flight.
DisabledNeverOverflows ==
    Quiescent /\ pre_event_init_value = 0 =>
        \A c \in online : ~Counting(c) /\ (stage[c] = "rearm" => hval[c] = 0)

\* The count the proc file shows is never below the number of NMIs handled on
\* that CPU since a writer last reset it: the reset, a plain store from another
\* CPU in the middle of this_cpu_inc, loses no increment (core_pmu.c:130, 409).
NoLostNmi == \A c \in CPU : times[c] >= since[c]

\* rmmod returns: remove_proc_entry and unregister_nmi_handler wait for writers
\* and handlers that all finish (core_pmu.c:487-501).
ExitCompletes == pc[Loader] = "remove" ~> pc[Loader] = "unloaded"

\* An overflow does not end the sampling of a CPU: its counter is armed again
\* unless somebody writes or unloads the module (core_pmu.c:404-407), and it goes
\* on like this as long as the kernel's handler unmasks LVTPC.
OverflowRearms ==
    \A c \in CPU :
        nmi[c] = "pmi" /\ Quiescent /\ pre_event_init_value # 0
            ~> (Counting(c) /\ lvtpc[c]) \/ ~Quiescent

\* "Clear PMU of all CPU" (core_pmu.c:495): when rmmod has returned, no online
\* CPU still counts.
ExitClearsPmu == pc[Loader] = "unloaded" => \A c \in online : ~Counting(c)

\* "No overflow on *this* CPU" is what the handler's test of GLOBAL_STATUS is
\* there to detect (core_pmu.c:401): it restarts and counts for overflows only.
RestartIsOverflow ==
    [][\A c \in CPU : stage[c] = "none" /\ stage'[c] = "rearm" => nmi[c] = "pmi"]_vars

=============================================================================
