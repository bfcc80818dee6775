---------------------------- MODULE SamplingProofs ----------------------------
(***************************************************************************)
(* What core_pmu_start_sampling promises, and the count of handled NMIs:   *)
(* proofs about CorePmu that build on CorePmuProofs.                       *)
(*                                                                         *)
(* SamplingInForce says nothing of a call in progress, so it is not        *)
(* inductive.  The invariant that is follows the sweeping thread over the  *)
(* CPUs: a CPU the "event" sweep has passed holds the event and the        *)
(* interval in force (Programmed), one the "enable" sweep has passed also  *)
(* counts (Started), and neither is undone by an overflow or by the NMI    *)
(* handler, which puts back what it takes away, because the handler is     *)
(* registered, the LVT is set, or masked only until the NMI that is        *)
(* latched has been taken, and the event is chosen before (Prepared). All  *)
(* this is of the CPUs that stay online (Steady); the others may come and  *)
(* go meanwhile, and the sweeps pass over those that are gone.             *)
(***************************************************************************)
EXTENDS CorePmuProofs

USE DEF CPU, Thread, Steady

-----------------------------------------------------------------------------
(* No increment is lost.                                                   *)

\* While the handler is in the middle of this_cpu_inc, the count it has loaded
\* is not below the number of NMIs handled since the last reset either.
CountInv ==
    \A c \in CPU : /\ times[c] >= since[c]
                   /\ stage[c] = "inc" => hread[c] >= since[c]

LEMMA IncrementedMonotone ==
  ASSUME NEW m \in 0 .. MaxTimes, NEW n \in 0 .. MaxTimes, m >= n
  PROVE  Incremented(m) >= Incremented(n)
  BY CorePmuAssumption DEF Incremented

LEMMA CountStep == TypeOK /\ CountInv /\ [Next]_vars => CountInv'
<1> SUFFICES ASSUME TypeOK, CountInv, [Next]_vars PROVE CountInv'
  OBVIOUS
<1>1. ASSUME UNCHANGED <<times, since, stage, hread>> PROVE CountInv'
  BY <1>1 DEF CountInv
<1>2. ASSUME NEW t \in Thread, SweepStep(t) PROVE CountInv'
  <2>1. ASSUME NEW c \in CPU, ClearCounter(t, c) PROVE CountInv'
    BY <2>1, CorePmuAssumption
       DEF ClearCounter, CountInv, TypeOK, CpuType, nmiVars
  <2> QED
    BY <1>1, <1>2, <2>1
       DEF SweepStep, ClearMsrs, EnablePredefinedEvent, EnableCounting,
           LapicInit, SkipOffline, FinishSweep, counts, nmiVars
<1>3. CASE Insmod
  BY <1>3, CorePmuAssumption DEF Insmod, CountInv, TypeOK, CpuType, nmiVars
<1>4. CASE LoaderCall \/ ProcRemove
  BY <1>1, <1>4 DEF LoaderCall, ProcRemove, RegisterNmiHandler, SetInitValue,
       ProcRemoved, UnregisterNmiHandler, UnregisterDone, counts, nmiVars
<1>5. ASSUME NEW w \in Writers,
             (\E k \in Ctl : WriteBegin(w, k)) \/ WriterCall(w)
      PROVE  CountInv'
  BY <1>1, <1>5
     DEF WriteBegin, WriterCall, WriteLock, WriteUnlock, counts, nmiVars
<1>6. ASSUME NEW c \in CPU, HandlerStep(c) PROVE CountInv'
  <2>1. CASE NmiDone(c)
    BY <1>1, <2>1 DEF NmiDone, counts
  <2>2. CASE NmiRestart(c)
    BY <2>2 DEF NmiRestart, CountInv, TypeOK, CpuType, counts
  <2>3. CASE NmiRearm(c)
    BY <2>3 DEF NmiRearm, CountInv, TypeOK, CpuType, counts
  <2>4. CASE NmiCount(c)
    <3>1. Incremented(hread[c]) >= Incremented(since[c])
      BY <2>4, IncrementedMonotone DEF NmiCount, CountInv, TypeOK, CpuType
    <3> QED
      BY <2>4, <3>1 DEF NmiCount, CountInv, TypeOK, CpuType
  <2> QED
    BY <1>6, <2>1, <2>2, <2>3, <2>4 DEF HandlerStep
<1>7. ASSUME NEW c \in CPU,
             Overflow(c) \/ OtherNmi(c) \/ CpuDown(c) \/ CpuUp(c)
      PROVE  CountInv'
  BY <1>1, <1>7 DEF Overflow, OtherNmi, CpuDown, CpuUp, counts, nmiVars
<1>8. CASE UNCHANGED vars
  BY <1>1, <1>8 DEF vars, counts, nmiVars
<1> QED
  BY <1>2, <1>3, <1>4, <1>5, <1>6, <1>7, <1>8 DEF Next

\* A reset by a writer in the middle of the handler's this_cpu_inc may keep an
\* old count alive, but loses no NMI handled since (core_pmu.c:130, 409).
THEOREM NoLostNmiHolds == Spec => []NoLostNmi
<1>1. Init => CountInv
  BY DEF Init, CountInv
<1>2. CountInv => NoLostNmi
  BY DEF CountInv, NoLostNmi
<1> QED
  BY <1>1, <1>2, CountStep, TypeCorrect, PTL DEF Spec

-----------------------------------------------------------------------------
(* The mutex.                                                              *)

\* A writer has the mutex just when it is between mutex_lock and mutex_unlock: no
\* two are there at once, and nobody returns with it and leaves the others waiting
\* (core_proc.c:71, 101).
MutexHeld ==
    \A w \in Writers : mutex = w <=> pc[w] \notin {"idle", "lock"}

LEMMA MutexStep == TypeOK /\ MutexHeld /\ [Next]_vars => MutexHeld'
<1> SUFFICES ASSUME TypeOK, MutexHeld, [Next]_vars PROVE MutexHeld'
  OBVIOUS
<1> USE CorePmuAssumption DEF TypeOK, ThreadType
<1>1. ASSUME UNCHANGED mutex, \A w \in Writers : pc'[w] = pc[w] PROVE MutexHeld'
  BY <1>1 DEF MutexHeld
<1>2. ASSUME NEW t \in Thread, FinishSweep(t) PROVE MutexHeld'
  <2>1. pc' = [pc EXCEPT ![t] = AfterSweep(t)] /\ UNCHANGED mutex
    BY <1>2 DEF FinishSweep, Goto, kernel
  <2>2. CASE t = Loader
    BY <1>1, <2>1, <2>2
  <2>3. CASE t \in Writers
    <3>1. pc[t] \in {"zero", "clear", "event", "enable"}
      BY <1>2, <2>3 DEF FinishSweep, Sweeps, WriterPhase
    <3>2. AfterSweep(t) \in {"clear", "event", "enable", "unlock"}
      BY <2>3, <3>1 DEF AfterSweep
    <3>3. pc'[t] = AfterSweep(t) /\ \A w \in Writers \ {t} : pc'[w] = pc[w]
      BY <2>1
    <3> QED
      BY <2>1, <3>1, <3>2, <3>3 DEF MutexHeld
  <2> QED
    BY <2>2, <2>3
<1>3. ASSUME NEW t \in Thread, SweepStep(t), ~FinishSweep(t) PROVE MutexHeld'
  BY <1>1, <1>3
     DEF SweepStep, ClearMsrs, EnablePredefinedEvent, EnableCounting,
         LapicInit, ClearCounter, SkipOffline, kernel
<1>4. CASE Insmod \/ LoaderCall \/ ProcRemove
  <2>1. UNCHANGED mutex /\ \E p : pc' = [pc EXCEPT ![Loader] = p]
    BY <1>4, Zenon
       DEF Insmod, LoaderCall, ProcRemove, RegisterNmiHandler, SetInitValue,
           ProcRemoved, UnregisterNmiHandler, UnregisterDone, Goto, kernel
  <2> QED
    BY <1>1, <2>1
<1>5. ASSUME NEW w \in Writers, NEW k \in Ctl, WriteBegin(w, k)
      PROVE  MutexHeld'
  BY <1>5 DEF WriteBegin, Goto, kernel, MutexHeld
<1>6. ASSUME NEW w \in Writers, WriteLock(w) PROVE MutexHeld'
  <2>1. mutex = Loader /\ mutex' = w
    BY <1>6 DEF WriteLock
  <2>2. pc'[w] \in {"zero", "unlock"} /\ \A u \in Writers \ {w} : pc'[u] = pc[u]
    BY <1>6 DEF WriteLock, Goto
  <2> QED
    BY <2>1, <2>2 DEF MutexHeld
<1>7. ASSUME NEW w \in Writers, WriteUnlock(w) PROVE MutexHeld'
  <2>1. pc[w] = "unlock" /\ mutex' = Loader
    BY <1>7 DEF WriteUnlock
  <2>2. pc'[w] = "idle" /\ \A u \in Writers \ {w} : pc'[u] = pc[u]
    BY <1>7 DEF WriteUnlock, Goto
  <2> QED
    BY <2>1, <2>2 DEF MutexHeld
<1>8. ASSUME NEW c \in CPU, \/ Overflow(c) \/ OtherNmi(c) \/ HandlerStep(c)
                            \/ CpuDown(c) \/ CpuUp(c)
      PROVE  MutexHeld'
  BY <1>1, <1>8
     DEF Overflow, OtherNmi, HandlerStep, NmiDone, NmiRestart, NmiRearm,
         NmiCount, CpuDown, CpuUp, kernel, threads
<1>9. CASE UNCHANGED vars
  BY <1>1, <1>9 DEF vars, kernel, threads
<1> QED
  BY <1>2, <1>3, <1>4, <1>5, <1>6, <1>7, <1>8, <1>9 DEF Next, WriterCall

\* Early writes, hotplug and rmmod included.
THEOREM MutexHeldHolds == Spec => []MutexHeld
<1>1. Init => MutexHeld
  BY CorePmuAssumption DEF Init, MutexHeld
<1> QED
  BY <1>1, MutexStep, TypeCorrect, PTL DEF Spec

-----------------------------------------------------------------------------
(* The invariant behind SamplingInForce.                                   *)

\* Without early writes, writers are only about while insmod has returned and
\* remove_proc_entry has not; one of them at a time is behind mutex_lock, and a
\* write of '0' sweeps with the interval 0 in force.
WriterInv ==
    \A w \in Writers :
        /\ pc[w] # "idle" => pc[Loader] \in {"live", "remove"}
        /\ pc[w] \notin {"idle", "lock"} => mutex = w
        /\ pc[w] \in {"zero", "clear"} /\ ctl[w] = 0 => pre_event_init_value = 0

\* What core_pmu_init has done by the phase it is in: the LVTs set so far, the
\* handler registered, the event chosen.  A latched PMI has its status bit.
Prepared ==
    /\ \A c \in Steady :
          \/ pc[Loader] = "unloaded"
          \/ pc[Loader] = "lapic" /\ pos[Loader] <= c
          \/ Delivers(c)
    /\ \A c \in CPU : nmi[c] = "pmi" => status[c]
    /\ pc[Loader] \notin {"unloaded", "lapic", "register", "sync"} => handler
    /\ pc[Loader] \in {"event", "enable", "live"} => event = "LLC_MISSES"

\* Thread t has still to program, or to start, the counter of CPU c.
ToProgram(t, c) == \/ pc[t] \in {"zero", "clear"}
                   \/ pc[t] = "event" /\ pos[t] <= c

ToStart(t, c) == \/ pc[t] \in {"zero", "clear", "event"}
                 \/ pc[t] = "enable" /\ pos[t] <= c

\* CPU c has the event and the interval in force, or has just overflowed, or its
\* handler is about to put both back.
Programmed(c) ==
    IF stage[c] = "rearm"
    THEN hval[c] = pre_event_init_value
    ELSE /\ sel[c] = "LLC_MISSES"
         /\ pmc[c] = pre_event_init_value \/ (pmc[c] = 0 /\ nmi[c] = "pmi")

Started(c) == stage[c] = "rearm" \/ ctrl[c]

\* The promise is made when core_pmu_init starts to program the counters, and
\* for an interval other than 0.
Promised == /\ pc[Loader] \in {"event", "enable", "live"}
            /\ pre_event_init_value # 0

ForceOn(c) ==
    /\ (\A t \in Thread : ~ToProgram(t, c)) => Programmed(c)
    /\ (\A t \in Thread : ~ToStart(t, c)) => Started(c)

ForceInv == Promised => \A c \in Steady : ForceOn(c)

SamplingInv == WriterInv /\ Prepared /\ ForceInv

LEMMA SamplingInit == Init => SamplingInv
<1> SUFFICES ASSUME Init PROVE WriterInv /\ Prepared /\ ForceInv
  BY DEF SamplingInv
<1>1. pc[Loader] = "unloaded" /\ \A w \in Writers : pc[w] = "idle"
  BY CorePmuAssumption DEF Init
<1> QED
  BY <1>1 DEF Init, WriterInv, Prepared, ForceInv, Promised

-----------------------------------------------------------------------------
(* The writers and the mutex.                                              *)

LEMMA WriterStep ==
  ASSUME ~EarlyWrites, TypeOK, WriterInv, [Next]_vars PROVE WriterInv'
<1> USE CorePmuAssumption DEF TypeOK, ThreadType
<1>1. ASSUME UNCHANGED <<pc, mutex, ctl, pre_event_init_value>> PROVE WriterInv'
  BY <1>1 DEF WriterInv
<1>2. ASSUME NEW t \in Thread, NEW c \in CPU,
             \/ ClearMsrs(t, c) \/ EnablePredefinedEvent(t, c)
             \/ EnableCounting(t, c) \/ LapicInit(t, c)
             \/ ClearCounter(t, c) \/ SkipOffline(t, c)
      PROVE  WriterInv'
  BY <1>1, <1>2
     DEF ClearMsrs, EnablePredefinedEvent, EnableCounting, LapicInit,
         ClearCounter, SkipOffline, globals, kernel
<1>3. ASSUME NEW t \in Thread, FinishSweep(t) PROVE WriterInv'
  <2>1. /\ pc[t] \in Sweeps /\ pc' = [pc EXCEPT ![t] = AfterSweep(t)]
        /\ UNCHANGED <<pre_event_init_value, mutex, ctl>>
    BY <1>3 DEF FinishSweep, Goto, kernel
  <2>2. CASE t = Loader
    <3>1. \A w \in Writers : pc[w] = "idle"
      BY <2>1, <2>2 DEF WriterInv, Sweeps
    <3> QED
      BY <2>1, <2>2, <3>1 DEF WriterInv
  <2>3. CASE t \in Writers
    <3>1. /\ pc[t] \in {"zero", "clear", "event", "enable"}
          /\ AfterSweep(t) \in {"clear", "event", "enable", "unlock"}
          /\ AfterSweep(t) = "clear" => pc[t] = "zero"
      BY <2>1, <2>3 DEF Sweeps, WriterPhase, AfterSweep
    <3>2. pc'[Loader] = pc[Loader]
      BY <2>1, <2>3
    <3>3. ASSUME NEW w \in Writers, w # t PROVE pc'[w] = pc[w]
      BY <2>1, <3>3
    <3> QED
      BY <2>1, <2>3, <3>1, <3>2, <3>3 DEF WriterInv
  <2> QED
    BY <2>2, <2>3
<1>4. CASE Insmod \/ LoaderCall
  <2>1. PICK p : pc' = [pc EXCEPT ![Loader] = p]
    BY <1>4, Zenon
       DEF Insmod, LoaderCall, RegisterNmiHandler, SetInitValue, ProcRemoved,
           UnregisterNmiHandler, UnregisterDone, Goto
  <2>2. \A w \in Writers : pc[w] = "idle"
    BY <1>4 DEF WriterInv, Insmod, LoaderCall, RegisterNmiHandler, SetInitValue,
                ProcRemoved, UnregisterNmiHandler, UnregisterDone
  <2> QED
    BY <2>1, <2>2 DEF WriterInv
<1>5. CASE ProcRemove
  BY <1>5 DEF ProcRemove, WriterInv, Goto, globals
<1>6. ASSUME NEW w \in Writers, NEW k \in Ctl, WriteBegin(w, k)
      PROVE  WriterInv'
  BY <1>6 DEF WriteBegin, WriterInv, Goto, globals, kernel
<1>7. ASSUME NEW w \in Writers, WriteLock(w) PROVE WriterInv'
  <2>1. \A v \in Writers : pc[v] \in {"idle", "lock"}
    BY <1>7 DEF WriteLock, WriterInv
  <2>2. /\ pc'[Loader] = pc[Loader] /\ mutex' = w /\ ctl' = ctl
        /\ pc[w] = "lock"
        /\ \A v \in Writers \ {w} : pc'[v] = pc[v]
    BY <1>7 DEF WriteLock, Goto
  <2>3. pc'[w] \in {"zero", "clear"} /\ ctl[w] = 0 => pre_event_init_value' = 0
    BY <1>7 DEF WriteLock, Goto, CtlInterval
  <2> QED
    BY <2>1, <2>2, <2>3 DEF WriterInv
<1>8. ASSUME NEW w \in Writers, WriteUnlock(w) PROVE WriterInv'
  <2>1. pc[w] = "unlock" /\ pc' = [pc EXCEPT ![w] = "idle"]
        /\ ctl' = [ctl EXCEPT ![w] = 0] /\ UNCHANGED pre_event_init_value
    BY <1>8 DEF WriteUnlock, Goto, globals
  <2>2. \A v \in Writers \ {w} : pc[v] \in {"idle", "lock"}
    BY <2>1 DEF WriterInv
  <2> QED
    BY <2>1, <2>2 DEF WriterInv
<1>9. ASSUME NEW c \in CPU,
             \/ Overflow(c) \/ OtherNmi(c) \/ HandlerStep(c)
             \/ CpuDown(c) \/ CpuUp(c)
      PROVE  WriterInv'
  BY <1>1, <1>9
     DEF Overflow, OtherNmi, HandlerStep, NmiDone, NmiRestart, NmiRearm,
         NmiCount, CpuDown, CpuUp, globals, kernel, threads
<1>10. CASE UNCHANGED vars
  BY <1>1, <1>10 DEF vars, globals, kernel, threads
<1> QED
  BY <1>2, <1>3, <1>4, <1>5, <1>6, <1>7, <1>8, <1>9, <1>10
     DEF Next, SweepStep, WriterCall

-----------------------------------------------------------------------------
(* What core_pmu_init prepares.                                            *)

LEMMA PreparedStep ==
  ASSUME Unmasks, TypeOK, SteadyOnline, Prepared, [Next]_vars PROVE Prepared'
<1> USE CorePmuAssumption DEF TypeOK, ThreadType, Delivers
<1>1. ASSUME UNCHANGED <<nmi, status, lvtpc, handler, event>>,
             pc'[Loader] = pc[Loader],
             pos'[Loader] = pos[Loader] \/ pc[Loader] # "lapic"
      PROVE  Prepared'
  BY <1>1 DEF Prepared
<1>2. ASSUME NEW t \in Thread, NEW c \in CPU, LapicInit(t, c) PROVE Prepared'
  <2>1. t = Loader
    BY <1>2 DEF LapicInit, WriterPhase
  <2>2. /\ pc[Loader] = "lapic" /\ pos[Loader] = c /\ pc' = pc
        /\ pos' = [pos EXCEPT ![Loader] = c + 1]
        /\ lvtpc' = [lvtpc EXCEPT ![c] = TRUE]
        /\ UNCHANGED <<nmi, status, handler, event>>
    BY <1>2, <2>1
       DEF LapicInit, CanRun, NextCpu, nmiVars, pmu, kernel, globals
  <2>3. \A d \in Steady : pos'[Loader] <= d \/ Delivers(d)'
    BY <2>2 DEF Prepared, CpuType
  <2> QED
    BY <2>2, <2>3 DEF Prepared
<1>3. ASSUME NEW t \in Thread, NEW c \in CPU,
             \/ ClearMsrs(t, c) \/ EnablePredefinedEvent(t, c)
             \/ EnableCounting(t, c) \/ ClearCounter(t, c)
      PROVE  Prepared'
  <2>1. /\ UNCHANGED <<nmi, status, lvtpc, handler, event, pc>>
        /\ pc[t] # "lapic"
        /\ StayOnCpu(t) \/ NextCpu(t)
    BY <1>3
       DEF ClearMsrs, EnablePredefinedEvent, EnableCounting, ClearCounter,
           nmiVars, pmu, kernel, globals
  <2>2. pos'[Loader] = pos[Loader] \/ pc[Loader] # "lapic"
    BY <2>1 DEF StayOnCpu, NextCpu
  <2> QED
    BY <1>1, <2>1, <2>2
<1>4. ASSUME NEW t \in Thread, FinishSweep(t) PROVE Prepared'
  <2>1. /\ pc[t] \in Sweeps /\ pos[t] = NCpu /\ Goto(t, AfterSweep(t))
        /\ event' = IF AfterSweep(t) = "event" THEN "LLC_MISSES" ELSE event
        /\ UNCHANGED <<nmi, status, lvtpc, handler>>
    BY <1>4 DEF FinishSweep, nmiVars, pmu, kernel
  <2>2. CASE t = Loader
    <3>1. pc[Loader] \in {"lapic", "clear", "event", "enable", "exit_clear"}
      BY <2>1, <2>2 DEF Sweeps, LoaderPhase
    <3>2. /\ pc'[Loader] = AfterSweep(Loader)
          /\ AfterSweep(Loader) \in {"register", "event", "enable", "live",
                                      "unregister"}
          /\ AfterSweep(Loader) = "register" <=> pc[Loader] = "lapic"
          /\ AfterSweep(Loader) \in {"enable", "live"}
                => pc[Loader] \in {"event", "enable"}
      BY <2>1, <2>2, <3>1 DEF Goto, AfterSweep
    <3>3. /\ \A c \in Steady : Delivers(c)
          /\ \A c \in CPU : nmi[c] = "pmi" => status[c]
      BY <2>1, <2>2, <3>1 DEF Prepared
    <3>4. AfterSweep(Loader) # "register" => handler'
      BY <2>1, <3>1, <3>2 DEF Prepared
    <3>5. AfterSweep(Loader) \in {"event", "enable", "live"}
            => event' = "LLC_MISSES"
      BY <2>1, <2>2, <3>2 DEF Prepared
    <3> QED
      BY <2>1, <3>2, <3>3, <3>4, <3>5 DEF Prepared
  <2>3. CASE t # Loader
    <3>1. pc'[Loader] = pc[Loader] /\ pos'[Loader] = pos[Loader]
      BY <2>1, <2>3 DEF Goto
    <3> QED
      BY <2>1, <3>1 DEF Prepared
  <2> QED
    BY <2>2, <2>3
<1>5. ASSUME Insmod \/ LoaderCall \/ ProcRemove PROVE Prepared'
  <2>1. /\ UNCHANGED <<nmi, status, lvtpc>>
        /\ UNCHANGED event \/ pc'[Loader] = "lapic"
    BY <1>5 DEF Insmod, LoaderCall, ProcRemove, RegisterNmiHandler,
                SetInitValue, ProcRemoved, UnregisterNmiHandler,
                UnregisterDone, Goto, nmiVars, pmu, globals
  <2>2. /\ pc[Loader] # "lapic"
        /\ \/ pc[Loader] = "unloaded" /\ pc'[Loader] = "lapic"
              /\ pos'[Loader] = 0
           \/ pc[Loader] # "unloaded" /\ pc'[Loader] \in LoaderPhase
    BY <1>5 DEF Insmod, LoaderCall, ProcRemove, RegisterNmiHandler,
                SetInitValue, ProcRemoved, UnregisterNmiHandler,
                UnregisterDone, Goto, LoaderPhase
  <2>3. pc'[Loader] \notin {"unloaded", "lapic", "register", "sync"} => handler'
    BY <1>5 DEF Insmod, LoaderCall, ProcRemove, RegisterNmiHandler,
                SetInitValue, ProcRemoved, UnregisterNmiHandler,
                UnregisterDone, Goto, kernel, Prepared
  <2>4. pc'[Loader] \notin {"event", "enable", "live"}
    BY <1>5 DEF Insmod, LoaderCall, ProcRemove, RegisterNmiHandler,
                SetInitValue, ProcRemoved, UnregisterNmiHandler,
                UnregisterDone, Goto
  <2> QED
    BY <2>1, <2>2, <2>3, <2>4 DEF Prepared
<1>6. ASSUME NEW w \in Writers,
             (\E k \in Ctl : WriteBegin(w, k)) \/ WriterCall(w)
      PROVE  Prepared'
  <2>1. pc'[Loader] = pc[Loader] /\ pos'[Loader] = pos[Loader]
    BY <1>6 DEF WriteBegin, WriterCall, WriteLock, WriteUnlock, Goto
  <2> QED
    BY <1>1, <1>6, <2>1
       DEF WriteBegin, WriterCall, WriteLock, WriteUnlock, nmiVars, pmu,
           kernel, globals
<1>7. ASSUME NEW c \in CPU, Overflow(c) \/ OtherNmi(c) \/ HandlerStep(c)
      PROVE  Prepared'
  <2>1. UNCHANGED <<pc, pos, handler, event>>
    BY <1>7 DEF Overflow, OtherNmi, HandlerStep, NmiDone, NmiRestart, NmiRearm,
                NmiCount, globals, kernel, threads
  <2>2. \A d \in CPU : nmi'[d] = "pmi" => status'[d]
    <3>1. CASE Overflow(c)
      BY <3>1 DEF Overflow, Prepared, CpuType
    <3>2. CASE OtherNmi(c)
      BY <3>2 DEF OtherNmi, Prepared, CpuType, pmu
    <3>3. CASE HandlerStep(c)
      BY <3>3 DEF HandlerStep, NmiDone, NmiRestart, NmiRearm, NmiCount,
                  TakeNmi, Prepared, CpuType, pmu
    <3> QED
      BY <1>7, <3>1, <3>2, <3>3
  <2>3. \A d \in Steady : Delivers(d) => Delivers(d)'
    <3>1. CASE Overflow(c)
      BY <3>1 DEF Overflow, CpuType
    <3>2. CASE OtherNmi(c)
      BY <3>2 DEF OtherNmi, CpuType
    <3>3. CASE HandlerStep(c)
      BY <3>3 DEF HandlerStep, NmiDone, NmiRestart, NmiRearm, NmiCount, TakeNmi,
                  CpuType
    <3> QED
      BY <1>7, <3>1, <3>2, <3>3
  <2> QED
    BY <2>1, <2>2, <2>3 DEF Prepared
<1>8. ASSUME NEW c \in CPU, CpuDown(c) \/ CpuUp(c) PROVE Prepared'
  BY <1>1, <1>8 DEF CpuDown, CpuUp, globals, pmu, nmiVars, threads
<1>9. CASE UNCHANGED vars
  BY <1>1, <1>9 DEF vars, globals, pmu, nmiVars, kernel, threads
<1>10. ASSUME NEW t \in Thread, NEW c \in CPU, SkipOffline(t, c) PROVE Prepared'
  <2>1. /\ UNCHANGED <<nmi, status, lvtpc, handler, event, pc>>
        /\ pos[t] = c /\ pos' = [pos EXCEPT ![t] = c + 1]
    BY <1>10 DEF SkipOffline, NextCpu, nmiVars, pmu, kernel, globals
  <2>2. c \notin Steady
    BY <1>10 DEF SkipOffline, SteadyOnline
  <2>3. \A d \in Steady : pos[Loader] <= d => pos'[Loader] <= d
    BY <2>1, <2>2
  <2> QED
    BY <2>1, <2>3 DEF Prepared
<1> QED
  BY <1>2, <1>3, <1>4, <1>5, <1>6, <1>7, <1>8, <1>9, <1>10 DEF Next, SweepStep

-----------------------------------------------------------------------------
(* The promise, along the sweeps and across the NMI handler.               *)

\* A step that changes nothing of a counter keeps the promise, if no thread has
\* become done with a CPU.
LEMMA ForceByFrame ==
  ASSUME ForceInv, UNCHANGED <<pmc, sel, ctrl, nmi, stage, hval>>,
         Promised' => Promised /\ UNCHANGED pre_event_init_value,
         \A t \in Thread, c \in CPU :
            /\ ToProgram(t, c) => ToProgram(t, c)'
            /\ ToStart(t, c) => ToStart(t, c)'
  PROVE  ForceInv'
<1> SUFFICES ASSUME Promised', NEW c \in Steady PROVE ForceOn(c)'
  BY DEF ForceInv
<1>1. ForceOn(c) /\ UNCHANGED pre_event_init_value
  BY DEF ForceInv
<1>2. (Programmed(c)' <=> Programmed(c)) /\ (Started(c)' <=> Started(c))
  BY <1>1 DEF Programmed, Started
<1> QED
  BY <1>1, <1>2 DEF ForceOn

\* A thread that has still to program every CPU leaves nothing to be promised.
LEMMA ForceByDebt ==
  ASSUME \A c \in CPU : \E t \in Thread : ToProgram(t, c)' PROVE ForceInv'
<1>1. \A t \in Thread, c \in CPU : ToProgram(t, c)' => ToStart(t, c)'
  BY DEF ToProgram, ToStart
<1> QED
  BY <1>1 DEF ForceInv, ForceOn

\* On a CPU that is neither programmed nor started by it, a step keeps what it
\* held before.
LEMMA ForceElsewhere ==
  ASSUME NEW t \in Thread, NEW c \in CPU, NEW d \in Steady \ {c}, ForceOn(d),
         TypeOK, pos[t] = c, StayOnCpu(t) \/ NextCpu(t),
         UNCHANGED <<pc, nmi, stage, hval, pre_event_init_value>>,
         pmc'[d] = pmc[d], sel'[d] = sel[d], ctrl'[d] = ctrl[d]
  PROVE  ForceOn(d)'
<1>1. ASSUME NEW u \in Thread
      PROVE  /\ ToProgram(u, d)' <=> ToProgram(u, d)
             /\ ToStart(u, d)' <=> ToStart(u, d)
  BY CorePmuAssumption
     DEF ToProgram, ToStart, StayOnCpu, NextCpu, TypeOK, ThreadType
<1>2. (Programmed(d)' <=> Programmed(d)) /\ (Started(d)' <=> Started(d))
  BY DEF Programmed, Started
<1> QED
  BY <1>1, <1>2 DEF ForceOn

\* An overflow, an NMI and every step of the handler keep a programmed counter
\* programmed and a started one started.
LEMMA ForceByHandler ==
  ASSUME TypeOK, Prepared, ForceInv, NEW c \in CPU,
         Overflow(c) \/ OtherNmi(c) \/ HandlerStep(c)
  PROVE  ForceInv'
<1>1. UNCHANGED <<pc, pos, pre_event_init_value, event>>
  BY DEF Overflow, OtherNmi, HandlerStep, NmiDone, NmiRestart, NmiRearm,
         NmiCount, globals, threads
<1> SUFFICES ASSUME Promised, NEW d \in Steady, ForceOn(d) PROVE ForceOn(d)'
  BY <1>1 DEF ForceInv, Promised
<1>2. /\ Delivers(d) /\ handler /\ event = "LLC_MISSES"
      /\ nmi[c] = "pmi" => status[c]
  BY DEF Promised, Prepared
<1>3. \A t \in Thread : (ToProgram(t, d)' <=> ToProgram(t, d))
                      /\ (ToStart(t, d)' <=> ToStart(t, d))
  BY <1>1 DEF ToProgram, ToStart
<1>4. (Programmed(d) => Programmed(d)') /\ (Started(d) => Started(d)')
  <2>1. CASE Overflow(c)
    BY <1>1, <1>2, <2>1 DEF Overflow, Delivers, Programmed, Started, TypeOK, CpuType
  <2>2. CASE OtherNmi(c)
    BY <1>1, <2>2 DEF OtherNmi, Programmed, Started, TypeOK, CpuType, pmu
  <2>3. CASE NmiDone(c)
    BY <1>1, <1>2, <2>3
       DEF NmiDone, TakeNmi, Programmed, Started, TypeOK, CpuType, pmu
  <2>4. CASE NmiRestart(c)
    BY <1>1, <2>4
       DEF NmiRestart, TakeNmi, Programmed, Started, TypeOK, CpuType
  <2>5. CASE NmiRearm(c)
    BY <1>1, <1>2, <2>5 DEF NmiRearm, Programmed, Started, TypeOK, CpuType
  <2>6. CASE NmiCount(c)
    BY <1>1, <2>6 DEF NmiCount, Programmed, Started, TypeOK, CpuType, pmu
  <2> QED
    BY <2>1, <2>2, <2>3, <2>4, <2>5, <2>6 DEF HandlerStep
<1> QED
  BY <1>3, <1>4 DEF ForceOn

\* The visits of the "event" and the "enable" sweep make good the promise for
\* the CPU they are made to.
LEMMA ForceByVisit ==
  ASSUME TypeOK, FreshInv, SteadyOnline, Prepared, ForceInv,
         NEW t \in Thread, NEW c \in CPU,
         EnablePredefinedEvent(t, c) \/ EnableCounting(t, c)
  PROVE  ForceInv'
<1>1. /\ pos[t] = c /\ stage[c] = "none"
      /\ StayOnCpu(t) \/ NextCpu(t)
      /\ UNCHANGED <<pc, nmi, stage, hval, pre_event_init_value, event>>
      /\ \A d \in CPU \ {c} :
            pmc'[d] = pmc[d] /\ sel'[d] = sel[d] /\ ctrl'[d] = ctrl[d]
  BY DEF EnablePredefinedEvent, EnableCounting, CanRun, globals, nmiVars,
         TypeOK, CpuType
<1> SUFFICES ASSUME Promised, NEW d \in Steady, ForceOn(d) PROVE ForceOn(d)'
  BY <1>1 DEF ForceInv, Promised
<1>2. CASE d # c
  BY <1>1, <1>2, ForceElsewhere
<1>3. CASE d = c /\ EnableCounting(t, c)
  <2>1. pc[t] = "enable" /\ ctrl'[c] /\ UNCHANGED <<pmc, sel>>
    BY <1>3 DEF EnableCounting, TypeOK, CpuType
  <2>2. \A u \in Thread : ToProgram(u, c) => ToProgram(u, c)'
    BY <1>1, <2>1, CorePmuAssumption
       DEF ToProgram, StayOnCpu, NextCpu, TypeOK, ThreadType
  <2>3. Programmed(c) => Programmed(c)'
    BY <1>1, <2>1 DEF Programmed
  <2> QED
    BY <1>3, <2>1, <2>2, <2>3 DEF ForceOn, Started
<1>4. CASE d = c /\ EnablePredefinedEvent(t, c)
  <2>1. pc[t] = "event" /\ ToStart(t, c)'
    BY <1>1, <1>4 DEF EnablePredefinedEvent, ToStart
  <2>2. CASE stp[t] = 0
    <3>1. StayOnCpu(t) /\ UNCHANGED <<pmc, sel>>
      BY <1>4, <2>2 DEF EnablePredefinedEvent
    <3>2. ToProgram(t, c)'
      BY <1>1, <2>1, <3>1, CorePmuAssumption
      DEF ToProgram, StayOnCpu, TypeOK, ThreadType
    <3> QED
      BY <1>4, <2>1, <3>2 DEF ForceOn
  <2>3. CASE stp[t] = 1
    <3>1. event = "LLC_MISSES"
      BY DEF Prepared, Promised
    <3>2. /\ pmc' = [pmc EXCEPT ![c] = arg[t]]
          /\ sel' = [sel EXCEPT ![c] = event]
      BY <1>4, <2>3 DEF EnablePredefinedEvent
    <3>3. pmc'[c] = arg[t] /\ sel'[c] = "LLC_MISSES"
      BY <3>1, <3>2 DEF TypeOK, CpuType
    <3>4. CASE \E u \in Thread : Owes(u, c)
      <4>1. PICK u \in Thread : Owes(u, c)
        BY <3>4
      <4>2. pc[u] \in {"zero", "clear"}
        BY <4>1, CorePmuAssumption
        DEF Owes, Promised, TypeOK, ThreadType, WriterPhase
      <4>3. ToProgram(u, c)'
        BY <1>1, <4>2 DEF ToProgram
      <4> QED
        BY <1>4, <2>1, <4>3 DEF ForceOn
    <3>5. CASE \A u \in Thread : ~Owes(u, c)
      <4>1. arg[t] = pre_event_init_value
        BY <1>1, <1>4, <2>1, <2>3, <3>5
        DEF FreshInv, FreshArg, Excused, SteadyOnline
      <4>2. Programmed(c)'
        BY <1>1, <3>3, <4>1 DEF Programmed
      <4> QED
        BY <1>4, <2>1, <4>2 DEF ForceOn
    <3> QED
      BY <3>4, <3>5
  <2> QED
    BY <1>4, <2>2, <2>3 DEF EnablePredefinedEvent
<1> QED
  BY <1>2, <1>3, <1>4

LEMMA ForceStep ==
  ASSUME TypeOK, FreshInv, SteadyOnline, WriterInv, Prepared, ForceInv, [Next]_vars
  PROVE  ForceInv'
<1> USE CorePmuAssumption DEF TypeOK, ThreadType
<1>1. ASSUME NEW t \in Thread, NEW c \in CPU, ClearMsrs(t, c) PROVE ForceInv'
  <2>1. /\ pc[t] \in {"clear", "exit_clear"} /\ pc' = pc
        /\ t = Loader => ~Promised'
        /\ t \in Writers => pc[t] = "clear"
    BY <1>1 DEF ClearMsrs, Promised, WriterPhase
  <2>2. t \in Writers => \A d \in CPU : ToProgram(t, d)'
    BY <2>1 DEF ToProgram
  <2> QED
    BY <2>1, <2>2, ForceByDebt DEF ForceInv
<1>2. ASSUME NEW t \in Thread, NEW c \in CPU, LapicInit(t, c) PROVE ForceInv'
  BY <1>2 DEF LapicInit, WriterPhase, ForceInv, Promised
<1>3. ASSUME NEW t \in Thread, NEW c \in CPU, ClearCounter(t, c)
      PROVE  ForceInv'
  <2>1. \A d \in CPU : ToProgram(t, d)'
    BY <1>3 DEF ClearCounter, ToProgram
  <2> QED
    BY <2>1, ForceByDebt
<1>4. ASSUME NEW t \in Thread, FinishSweep(t) PROVE ForceInv'
  <2>1. /\ pc[t] \in Sweeps /\ pos[t] = NCpu
        /\ pc' = [pc EXCEPT ![t] = AfterSweep(t)]
        /\ pos' = [pos EXCEPT ![t] = 0]
        /\ UNCHANGED <<pmc, sel, ctrl, nmi, stage, hval, pre_event_init_value>>
    BY <1>4 DEF FinishSweep, Goto, pmu, nmiVars
  <2>2. CASE pc[t] \in {"zero", "clear"} /\ AfterSweep(t) \in {"clear", "event"}
    <3>1. \A d \in CPU : ToProgram(t, d)'
      BY <2>1, <2>2 DEF ToProgram
    <3> QED
      BY <3>1, ForceByDebt
  <2>3. CASE pc[t] = "clear" /\ AfterSweep(t) = "unlock"
    <3>1. t \in Writers /\ ctl[t] = 0
      BY <2>3 DEF AfterSweep
    <3>2. pre_event_init_value' = 0
      BY <2>1, <2>3, <3>1 DEF WriterInv
    <3> QED
      BY <3>2 DEF ForceInv, Promised
  <2>4. CASE pc[t] \in {"event", "enable"}
    <3>1. /\ AfterSweep(t) \in {"enable", "live", "unlock"}
          /\ pc[t] = "event" => AfterSweep(t) = "enable"
          /\ Promised' => Promised
      BY <2>1, <2>4 DEF AfterSweep, Promised
    <3>2. ASSUME NEW d \in CPU
          PROVE  /\ ~ToProgram(t, d)
                 /\ ToStart(t, d) => ToStart(t, d)'
      BY <2>1, <2>4, <3>1 DEF ToProgram, ToStart
    <3>3. ASSUME NEW u \in Thread, NEW d \in CPU, u # t
          PROVE  /\ ToProgram(u, d) => ToProgram(u, d)'
                 /\ ToStart(u, d) => ToStart(u, d)'
      BY <2>1, <3>3 DEF ToProgram, ToStart
    <3>4. \A u \in Thread, d \in CPU : /\ ToProgram(u, d) => ToProgram(u, d)'
                                       /\ ToStart(u, d) => ToStart(u, d)'
      BY <3>2, <3>3
    <3> QED
      BY <2>1, <3>1, <3>4, ForceByFrame
  <2>5. CASE pc[t] \in {"lapic", "exit_clear"}
    <3>1. t = Loader
      BY <2>5 DEF WriterPhase
    <3>2. AfterSweep(t) \in {"register", "unregister"}
      BY <2>5 DEF AfterSweep
    <3> QED
      BY <2>1, <3>1, <3>2 DEF ForceInv, Promised
  <2>6. pc[t] \in {"zero", "clear"}
          => AfterSweep(t) \in {"clear", "event", "unlock"}
    BY DEF AfterSweep
  <2>7. pc[t] = "zero" => AfterSweep(t) = "clear"
    BY DEF AfterSweep
  <2> QED
    BY <2>1, <2>2, <2>3, <2>4, <2>5, <2>6, <2>7 DEF Sweeps
<1>5. CASE Insmod \/ LoaderCall \/ ProcRemove
  BY <1>5 DEF Insmod, LoaderCall, ProcRemove, RegisterNmiHandler, SetInitValue,
              ProcRemoved, UnregisterNmiHandler, UnregisterDone, Goto,
              ForceInv, Promised
<1>6. ASSUME NEW w \in Writers,
             (\E k \in Ctl : WriteBegin(w, k)) \/ WriterCall(w)
      PROVE  ForceInv'
  <2>1. CASE Goto(w, "zero")
    <3>1. \A d \in CPU : ToProgram(w, d)'
      BY <2>1 DEF Goto, ToProgram
    <3> QED
      BY <3>1, ForceByDebt
  <2>2. CASE ~Goto(w, "zero")
    <3>1. UNCHANGED <<pmc, sel, ctrl, nmi, stage, hval, pre_event_init_value>>
      BY <1>6, <2>2 DEF WriteBegin, WriterCall, WriteLock, WriteUnlock, pmu,
                        nmiVars, globals
    <3>2. /\ pc[w] \in {"idle", "lock", "unlock"}
          /\ \E p : Goto(w, p)
      BY <1>6, Zenon DEF WriteBegin, WriterCall, WriteLock, WriteUnlock
    <3>3. /\ pc'[Loader] = pc[Loader]
          /\ \A u \in Thread \ {w} : pc'[u] = pc[u] /\ pos'[u] = pos[u]
      BY <3>2 DEF Goto
    <3>4. \A u \in Thread, d \in CPU : /\ ToProgram(u, d) => ToProgram(u, d)'
                                       /\ ToStart(u, d) => ToStart(u, d)'
      BY <3>2, <3>3 DEF ToProgram, ToStart
    <3> QED
      BY <3>1, <3>3, <3>4, ForceByFrame DEF Promised
  <2> QED
    BY <2>1, <2>2
<1>7. ASSUME UNCHANGED <<pmc, sel, ctrl, nmi, stage, hval, pre_event_init_value,
                         pc, pos>>
      PROVE  ForceInv'
  BY <1>7, ForceByFrame DEF Promised, ToProgram, ToStart
<1>8. ASSUME NEW c \in CPU, CpuDown(c) \/ CpuUp(c) PROVE ForceInv'
  BY <1>7, <1>8 DEF CpuDown, CpuUp, globals, pmu, nmiVars, threads
<1>9. CASE UNCHANGED vars
  BY <1>7, <1>9 DEF vars, globals, pmu, nmiVars, threads
<1>10. ASSUME NEW t \in Thread, NEW c \in CPU, SkipOffline(t, c) PROVE ForceInv'
  <2>1. /\ UNCHANGED <<pmc, sel, ctrl, nmi, stage, hval, pre_event_init_value, pc>>
        /\ pos[t] = c /\ NextCpu(t)
    BY <1>10 DEF SkipOffline, pmu, nmiVars, globals
  <2>2. c \notin Steady
    BY <1>10 DEF SkipOffline, SteadyOnline
  <2> SUFFICES ASSUME Promised, NEW d \in Steady, ForceOn(d) PROVE ForceOn(d)'
    BY <2>1 DEF ForceInv, Promised
  <2> QED
    BY <2>1, <2>2, ForceElsewhere
<1> QED
  BY <1>1, <1>2, <1>3, <1>4, <1>5, <1>6, <1>8, <1>9, <1>10, ForceByVisit,
     ForceByHandler DEF Next, SweepStep

\* CPU c counts LLC misses towards the interval in force, or has overflowed and is
\* about to be re-armed with it.
InForce(c) ==
    \/ stage[c] = "rearm" /\ hval[c] = pre_event_init_value
    \/ /\ ctrl[c] /\ Delivers(c) /\ sel[c] = "LLC_MISSES"
       /\ pmc[c] = pre_event_init_value \/ (pmc[c] = 0 /\ nmi[c] = "pmi")

\* Without a write before insmod has returned, and with a kernel that unmasks LVTPC
\* in its own NMI handler, every call of core_pmu_start_sampling ends with every CPU that stays online counting LLC
\* misses towards the interval last programmed, or about to be re-armed with it,
\* whatever NMIs interrupted it and whatever other CPUs came and went
\* (core_pmu.c:397-412, 432-445; core_proc.c:71-99).
SteadyInForce ==
    Quiescent /\ pre_event_init_value # 0 => \A c \in Steady : InForce(c)

THEOREM SteadyInForceHolds ==
  ASSUME ~EarlyWrites, Unmasks PROVE Spec => []SteadyInForce
<1>1. Init => SamplingInv
  BY SamplingInit
<1>2. IInv /\ SteadyOnline /\ SamplingInv /\ [Next]_vars => SamplingInv'
  BY WriterStep, PreparedStep, ForceStep DEF IInv, SamplingInv
<1>3. SamplingInv => SteadyInForce
  <2> SUFFICES ASSUME SamplingInv, Quiescent, pre_event_init_value # 0,
                      NEW c \in Steady
               PROVE  InForce(c)
    BY DEF SteadyInForce
  <2>1. \A t \in Thread : ~ToProgram(t, c) /\ ~ToStart(t, c)
    BY DEF Quiescent, ToProgram, ToStart
  <2>2. Promised /\ Delivers(c)
    BY DEF Quiescent, Promised, SamplingInv, Prepared
  <2> QED
    BY <2>1, <2>2
       DEF SamplingInv, ForceInv, ForceOn, Programmed, Started, InForce
<1> QED
  BY <1>1, <1>2, <1>3, SteadyOnlineHolds, IInvInductive, PTL DEF Spec

\* Without hotplug, that is every CPU.
THEOREM SamplingInForceHolds ==
  ASSUME Removable = {}, ~EarlyWrites, Unmasks PROVE Spec => []SamplingInForce
<1>1. TypeOK /\ SteadyInForce => SamplingInForce
  BY DEF TypeOK, SysType, SteadyInForce, SamplingInForce, InForce
<1> QED
  BY <1>1, TypeCorrect, SteadyInForceHolds, PTL
=============================================================================
