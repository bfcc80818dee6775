---------------------------- MODULE CorePmuProofs ----------------------------
(***************************************************************************)
(* Proofs about CorePmu, for every number of CPUs, every set of writers,   *)
(* with and without CPU hotplug, early writes and foreign NMIs.            *)
(*                                                                         *)
(* The chain behind NoStaleThreshold: a value of pre_event_init_value      *)
(* reaches PMC0 through a copy, hval of the NMI handler or arg of an IPI   *)
(* function.  A writer that changes the value owes every CPU a clearing    *)
(* visit (Owes), and it cannot pay CPU c while c is inside a handler or    *)
(* another thread's function, that is while c holds an old copy.           *)
(***************************************************************************)
EXTENDS CorePmu, TLAPS

\* Only a clearing or arming function can be half done, and only on a CPU.
StpInv ==
    \A t \in Thread :
        stp[t] > 0 => /\ pc[t] \in {"clear", "exit_clear", "event"}
                      /\ pos[t] < NCpu

\* CPU c is due a clearing visit, or was offline when it was made.
Excused(c) == c \in missed \/ \E t \in Thread : Owes(t, c)

FreshPmc == \A c \in CPU : pmc[c] \in {0, pre_event_init_value} \/ Excused(c)

FreshHval ==
    \A c \in CPU :
        stage[c] = "rearm" => hval[c] = pre_event_init_value \/ Excused(c)

FreshArg ==
    \A t \in Thread :
        pc[t] = "event" /\ stp[t] > 0 =>
            arg[t] = pre_event_init_value \/ Excused(pos[t])

FreshInv == FreshPmc /\ FreshHval /\ FreshArg

IInv == TypeOK /\ StpInv /\ FreshInv

USE DEF CPU, Thread

-----------------------------------------------------------------------------
(* Type correctness.                                                       *)

LEMMA TypeInit == Init => TypeOK
<1> SUFFICES ASSUME Init PROVE TypeOK
  OBVIOUS
<1>1. pc \in [Thread -> LoaderPhase \cup WriterPhase]
  BY DEF Init, LoaderPhase, WriterPhase
<1>2. /\ pc[Loader] \in LoaderPhase
      /\ \A w \in Writers : pc[w] \in WriterPhase
  BY CorePmuAssumption DEF Init, LoaderPhase, WriterPhase
<1>3. /\ pos \in [Thread -> 0 .. NCpu]
      /\ stp \in [Thread -> 0 .. 2]
      /\ arg \in [Thread -> Interval]
      /\ ctl \in [Writers -> 0 .. 5]
  BY CorePmuAssumption DEF Init, Interval
<1>4. ThreadType
  BY <1>1, <1>2, <1>3 DEF ThreadType
<1>5. /\ times \in [CPU -> 0 .. MaxTimes]
      /\ since \in [CPU -> 0 .. MaxTimes]
      /\ hread \in [CPU -> 0 .. MaxTimes]
  BY CorePmuAssumption DEF Init
<1>6. CpuType
  BY <1>5 DEF Init, CpuType, Interval, Event
<1>7. SysType
  BY DEF Init, SysType, Interval, Event
<1> QED
  BY <1>4, <1>6, <1>7 DEF TypeOK

\* A change of phase keeps the types of the threads' variables.
LEMMA GotoType ==
  ASSUME ThreadType, NEW t \in Thread, NEW p, Goto(t, p), UNCHANGED arg,
         ctl' \in [Writers -> 0 .. 5] \/ UNCHANGED ctl,
         p \in IF t = Loader THEN LoaderPhase ELSE WriterPhase
  PROVE  ThreadType'
<1>1. /\ pc' \in [Thread -> LoaderPhase \cup WriterPhase]
      /\ pc'[Loader] \in LoaderPhase
      /\ \A w \in Writers : pc'[w] \in WriterPhase
  BY CorePmuAssumption DEF ThreadType, Goto
<1>2. pos' \in [Thread -> 0 .. NCpu]
  BY CorePmuAssumption DEF ThreadType, Goto
<1> QED
  BY <1>1, <1>2 DEF ThreadType, Goto

\* So does a step of a sweep.
LEMMA SweepType ==
  ASSUME ThreadType, NEW t \in Thread, pos[t] \in CPU,
         (StayOnCpu(t) /\ stp[t] \in {0, 1}) \/ NextCpu(t), UNCHANGED <<pc, ctl>>,
         UNCHANGED arg \/ \E v \in Interval : arg' = [arg EXCEPT ![t] = v]
  PROVE  ThreadType'
<1>1. pos' \in [Thread -> 0 .. NCpu]
  BY CorePmuAssumption DEF ThreadType, StayOnCpu, NextCpu
<1>2. stp' \in [Thread -> 0 .. 2]
  BY DEF ThreadType, StayOnCpu, NextCpu
<1>3. arg' \in [Thread -> Interval]
  BY DEF ThreadType
<1> QED
  BY <1>1, <1>2, <1>3 DEF ThreadType

LEMMA TypeStep == TypeOK /\ [Next]_vars => TypeOK'
<1> SUFFICES ASSUME TypeOK, [Next]_vars PROVE TypeOK'
  OBVIOUS
<1>1. ASSUME NEW t \in Thread, NEW c \in CPU, ClearMsrs(t, c)
      PROVE  TypeOK'
  <2>1. pos[t] \in CPU
    BY <1>1 DEF ClearMsrs, CanRun
  <2>2. ThreadType'
    BY <1>1, <2>1, SweepType DEF ClearMsrs, TypeOK
  <2>3. SysType'
    BY <1>1, CorePmuAssumption
       DEF ClearMsrs, TypeOK, SysType, globals, kernel
  <2>4. CpuType'
    <3>1. pmc' \in [CPU -> Interval]
      BY <1>1 DEF ClearMsrs, TypeOK, CpuType, Interval
    <3>2. sel' \in [CPU -> Event \cup {"none"}] /\ ctrl' \in [CPU -> BOOLEAN]
      BY <1>1 DEF ClearMsrs, TypeOK, CpuType
    <3>3. UNCHANGED <<times, since, hread, hval, status, lvtpc, nmi, stage>>
      BY <1>1 DEF ClearMsrs, counts, nmiVars
    <3> QED
      BY <3>1, <3>2, <3>3 DEF TypeOK, CpuType
  <2> QED
    BY <2>2, <2>3, <2>4 DEF TypeOK
<1>2. ASSUME NEW t \in Thread, NEW c \in CPU, EnablePredefinedEvent(t, c)
      PROVE  TypeOK'
  <2>1. pos[t] \in CPU
    BY <1>2 DEF EnablePredefinedEvent, CanRun
  <2>2. ThreadType'
    <3>1. UNCHANGED arg \/ \E v \in Interval : arg' = [arg EXCEPT ![t] = v]
      BY <1>2 DEF EnablePredefinedEvent, TypeOK, SysType, Interval
    <3> QED
      BY <1>2, <2>1, <3>1, SweepType DEF EnablePredefinedEvent, TypeOK
  <2>3. SysType'
    BY <1>2, CorePmuAssumption
       DEF EnablePredefinedEvent, TypeOK, SysType, globals, kernel
  <2>4. CpuType'
    <3>1. pmc' \in [CPU -> Interval] /\ sel' \in [CPU -> Event \cup {"none"}]
      BY <1>2
         DEF EnablePredefinedEvent, TypeOK, CpuType, ThreadType, SysType
    <3> QED
      BY <1>2, <3>1 DEF EnablePredefinedEvent, TypeOK, CpuType, counts, nmiVars
  <2> QED
    BY <2>2, <2>3, <2>4 DEF TypeOK
<1>3. ASSUME NEW t \in Thread, NEW c \in CPU, EnableCounting(t, c)
      PROVE  TypeOK'
  <2>1. pos[t] \in CPU
    BY <1>3 DEF EnableCounting, CanRun
  <2>2. ThreadType'
    BY <1>3, <2>1, SweepType DEF EnableCounting, TypeOK
  <2>3. SysType'
    BY <1>3, CorePmuAssumption
       DEF EnableCounting, TypeOK, SysType, globals, kernel
  <2>4. CpuType'
    BY <1>3, CorePmuAssumption
       DEF EnableCounting, TypeOK, CpuType, counts, nmiVars
  <2> QED
    BY <2>2, <2>3, <2>4 DEF TypeOK
<1>4. ASSUME NEW t \in Thread, NEW c \in CPU, LapicInit(t, c)
      PROVE  TypeOK'
  <2>1. pos[t] \in CPU
    BY <1>4 DEF LapicInit, CanRun
  <2>2. ThreadType'
    BY <1>4, <2>1, SweepType DEF LapicInit, TypeOK
  <2>3. SysType'
    BY <1>4, CorePmuAssumption
       DEF LapicInit, TypeOK, SysType, globals, kernel
  <2>4. CpuType'
    BY <1>4, CorePmuAssumption
       DEF LapicInit, TypeOK, CpuType, counts, pmu, nmiVars
  <2> QED
    BY <2>2, <2>3, <2>4 DEF TypeOK
<1>5. ASSUME NEW t \in Thread, NEW c \in CPU, ClearCounter(t, c)
      PROVE  TypeOK'
  <2>1. pos[t] \in CPU
    BY <1>5 DEF ClearCounter
  <2>2. ThreadType'
    BY <1>5, <2>1, SweepType DEF ClearCounter, TypeOK
  <2>3. SysType'
    BY <1>5, CorePmuAssumption
       DEF ClearCounter, TypeOK, SysType, globals, kernel
  <2>4. CpuType'
    BY <1>5, CorePmuAssumption
       DEF ClearCounter, TypeOK, CpuType, pmu, nmiVars
  <2> QED
    BY <2>2, <2>3, <2>4 DEF TypeOK
<1>6. ASSUME NEW t \in Thread, NEW c \in CPU, SkipOffline(t, c)
      PROVE  TypeOK'
  <2>1. pos[t] \in CPU
    BY <1>6 DEF SkipOffline
  <2>2. ThreadType'
    BY <1>6, <2>1, SweepType DEF SkipOffline, TypeOK
  <2>3. SysType'
    BY <1>6, CorePmuAssumption
       DEF SkipOffline, TypeOK, SysType, globals, kernel
  <2>4. CpuType'
    BY <1>6, CorePmuAssumption
       DEF SkipOffline, TypeOK, CpuType, counts, pmu, nmiVars
  <2> QED
    BY <2>2, <2>3, <2>4 DEF TypeOK
<1>7. ASSUME NEW t \in Thread, FinishSweep(t)
      PROVE  TypeOK'
  <2>1. AfterSweep(t) \in IF t = Loader THEN LoaderPhase ELSE WriterPhase
    BY <1>7, CorePmuAssumption
       DEF FinishSweep, Sweeps, AfterSweep, TypeOK, ThreadType, LoaderPhase,
            WriterPhase
  <2>2. ThreadType'
    BY <1>7, <2>1, GotoType DEF FinishSweep, TypeOK
  <2>3. SysType'
    BY <1>7, CorePmuAssumption
       DEF FinishSweep, TypeOK, SysType, kernel, Event
  <2>4. CpuType'
    BY <1>7, CorePmuAssumption
       DEF FinishSweep, TypeOK, CpuType, counts, pmu, nmiVars
  <2> QED
    BY <2>2, <2>3, <2>4 DEF TypeOK
<1>8. CASE Insmod
  <2>1. ThreadType'
    BY <1>8, GotoType, CorePmuAssumption
       DEF Insmod, TypeOK, LoaderPhase, WriterPhase
  <2>2. SysType'
    BY <1>8, CorePmuAssumption
       DEF Insmod, TypeOK, SysType, Interval, Event
  <2>3. CpuType'
    BY <1>8, CorePmuAssumption
       DEF Insmod, TypeOK, CpuType, pmu, nmiVars, SysType, Interval
  <2> QED
    BY <2>1, <2>2, <2>3 DEF TypeOK
<1>9. CASE RegisterNmiHandler
  <2>1. ThreadType'
    BY <1>9, GotoType, CorePmuAssumption
       DEF RegisterNmiHandler, TypeOK, LoaderPhase, WriterPhase
  <2>2. SysType'
    BY <1>9, CorePmuAssumption
       DEF RegisterNmiHandler, TypeOK, SysType, globals
  <2>3. CpuType'
    BY <1>9, CorePmuAssumption
       DEF RegisterNmiHandler, TypeOK, CpuType, counts, pmu, nmiVars
  <2> QED
    BY <2>1, <2>2, <2>3 DEF TypeOK
<1>10. CASE SetInitValue
  <2>1. ThreadType'
    BY <1>10, GotoType, CorePmuAssumption
       DEF SetInitValue, TypeOK, LoaderPhase, WriterPhase
  <2>2. SysType'
    BY <1>10, CorePmuAssumption
       DEF SetInitValue, TypeOK, SysType, kernel, Interval
  <2>3. CpuType'
    BY <1>10, CorePmuAssumption
       DEF SetInitValue, TypeOK, CpuType, counts, pmu, nmiVars
  <2> QED
    BY <2>1, <2>2, <2>3 DEF TypeOK
<1>11. CASE ProcRemove
  <2>1. ThreadType'
    BY <1>11, GotoType, CorePmuAssumption
       DEF ProcRemove, TypeOK, LoaderPhase, WriterPhase
  <2>2. SysType'
    BY <1>11, CorePmuAssumption
       DEF ProcRemove, TypeOK, SysType, globals
  <2>3. CpuType'
    BY <1>11, CorePmuAssumption
       DEF ProcRemove, TypeOK, CpuType, counts, pmu, nmiVars
  <2> QED
    BY <2>1, <2>2, <2>3 DEF TypeOK
<1>12. CASE ProcRemoved
  <2>1. ThreadType'
    BY <1>12, GotoType, CorePmuAssumption
       DEF ProcRemoved, TypeOK, LoaderPhase, WriterPhase
  <2>2. SysType'
    BY <1>12, CorePmuAssumption
       DEF ProcRemoved, TypeOK, SysType, globals, kernel
  <2>3. CpuType'
    BY <1>12, CorePmuAssumption
       DEF ProcRemoved, TypeOK, CpuType, counts, pmu, nmiVars
  <2> QED
    BY <2>1, <2>2, <2>3 DEF TypeOK
<1>13. CASE UnregisterNmiHandler
  <2>1. ThreadType'
    BY <1>13, GotoType, CorePmuAssumption
       DEF UnregisterNmiHandler, TypeOK, LoaderPhase, WriterPhase
  <2>2. SysType'
    BY <1>13, CorePmuAssumption
       DEF UnregisterNmiHandler, TypeOK, SysType, globals
  <2>3. CpuType'
    BY <1>13, CorePmuAssumption
       DEF UnregisterNmiHandler, TypeOK, CpuType, counts, pmu, nmiVars
  <2> QED
    BY <2>1, <2>2, <2>3 DEF TypeOK
<1>14. CASE UnregisterDone
  <2>1. ThreadType'
    BY <1>14, GotoType, CorePmuAssumption
       DEF UnregisterDone, TypeOK, LoaderPhase, WriterPhase
  <2>2. SysType'
    BY <1>14, CorePmuAssumption
       DEF UnregisterDone, TypeOK, SysType, globals, kernel
  <2>3. CpuType'
    BY <1>14, CorePmuAssumption
       DEF UnregisterDone, TypeOK, CpuType, counts, pmu, nmiVars
  <2> QED
    BY <2>1, <2>2, <2>3 DEF TypeOK
<1>15. ASSUME NEW w \in Writers, NEW k \in Ctl, WriteBegin(w, k)
      PROVE  TypeOK'
  <2>1. ctl' \in [Writers -> 0 .. 5]
    BY <1>15, CorePmuAssumption DEF WriteBegin, TypeOK, ThreadType
  <2>2. ThreadType'
    BY <1>15, <2>1, GotoType, CorePmuAssumption DEF WriteBegin, TypeOK,
         LoaderPhase, WriterPhase
  <2>3. SysType'
    BY <1>15, CorePmuAssumption
       DEF WriteBegin, TypeOK, SysType, globals, kernel
  <2>4. CpuType'
    BY <1>15, CorePmuAssumption
       DEF WriteBegin, TypeOK, CpuType, counts, pmu, nmiVars
  <2> QED
    BY <2>2, <2>3, <2>4 DEF TypeOK
<1>16. ASSUME NEW w \in Writers, WriteLock(w)
      PROVE  TypeOK'
  <2>1. ThreadType'
    BY <1>16, GotoType, CorePmuAssumption
       DEF WriteLock, TypeOK, LoaderPhase, WriterPhase
  <2>2. SysType'
    BY <1>16, CorePmuAssumption
       DEF WriteLock, TypeOK, SysType, Interval, CtlInterval
  <2>3. CpuType'
    BY <1>16, CorePmuAssumption
       DEF WriteLock, TypeOK, CpuType, counts, pmu, nmiVars
  <2> QED
    BY <2>1, <2>2, <2>3 DEF TypeOK
<1>17. ASSUME NEW w \in Writers, WriteUnlock(w)
      PROVE  TypeOK'
  <2>1. ctl' \in [Writers -> 0 .. 5]
    BY <1>17 DEF WriteUnlock, TypeOK, ThreadType
  <2>2. ThreadType'
    BY <1>17, <2>1, GotoType, CorePmuAssumption
       DEF WriteUnlock, TypeOK, LoaderPhase, WriterPhase
  <2>3. SysType'
    BY <1>17, CorePmuAssumption
       DEF WriteUnlock, TypeOK, SysType, globals
  <2>4. CpuType'
    BY <1>17, CorePmuAssumption
       DEF WriteUnlock, TypeOK, CpuType, counts, pmu, nmiVars
  <2> QED
    BY <2>3, <2>4, <2>2 DEF TypeOK
<1>18. ASSUME NEW c \in CPU, Overflow(c)
      PROVE  TypeOK'
  <2>1. ThreadType'
    BY <1>18 DEF Overflow, threads, TypeOK, ThreadType
  <2>2. SysType'
    BY <1>18, CorePmuAssumption
       DEF Overflow, TypeOK, SysType, globals, kernel
  <2>3. CpuType'
    BY <1>18, CorePmuAssumption
       DEF Overflow, TypeOK, CpuType, counts, Interval
  <2> QED
    BY <2>1, <2>2, <2>3 DEF TypeOK
<1>19. ASSUME NEW c \in CPU, OtherNmi(c)
      PROVE  TypeOK'
  <2>1. ThreadType'
    BY <1>19 DEF OtherNmi, threads, TypeOK, ThreadType
  <2>2. SysType'
    BY <1>19, CorePmuAssumption
       DEF OtherNmi, TypeOK, SysType, globals, kernel
  <2>3. CpuType'
    BY <1>19, CorePmuAssumption
       DEF OtherNmi, TypeOK, CpuType, counts, pmu
  <2> QED
    BY <2>1, <2>2, <2>3 DEF TypeOK
<1>20. ASSUME NEW c \in CPU, NmiDone(c)
      PROVE  TypeOK'
  <2>1. ThreadType'
    BY <1>20 DEF NmiDone, threads, TypeOK, ThreadType
  <2>2. SysType'
    BY <1>20, CorePmuAssumption
       DEF NmiDone, TypeOK, SysType, globals, kernel
  <2>3. CpuType'
    BY <1>20, CorePmuAssumption
       DEF NmiDone, TypeOK, CpuType, counts, pmu, TakeNmi
  <2> QED
    BY <2>1, <2>2, <2>3 DEF TypeOK
<1>21. ASSUME NEW c \in CPU, NmiRestart(c)
      PROVE  TypeOK'
  <2>1. ThreadType'
    BY <1>21 DEF NmiRestart, threads, TypeOK, ThreadType
  <2>2. SysType'
    BY <1>21, CorePmuAssumption
       DEF NmiRestart, TypeOK, SysType, globals, kernel
  <2>3. CpuType'
    BY <1>21, CorePmuAssumption
       DEF NmiRestart, TypeOK, CpuType, counts, SysType, Interval, TakeNmi
  <2> QED
    BY <2>1, <2>2, <2>3 DEF TypeOK
<1>22. ASSUME NEW c \in CPU, NmiRearm(c)
      PROVE  TypeOK'
  <2>1. ThreadType'
    BY <1>22 DEF NmiRearm, threads, TypeOK, ThreadType
  <2>2. SysType'
    BY <1>22, CorePmuAssumption
       DEF NmiRearm, TypeOK, SysType, globals, kernel
  <2>3. CpuType'
    <3>1. pmc' \in [CPU -> Interval] /\ hval' \in [CPU -> Interval]
      BY <1>22 DEF NmiRearm, TypeOK, CpuType, Interval
    <3>2. /\ sel' \in [CPU -> Event \cup {"none"}]
          /\ ctrl' \in [CPU -> BOOLEAN]
      BY <1>22 DEF NmiRearm, TypeOK, CpuType, SysType
    <3>3. hread' \in [CPU -> 0 .. MaxTimes]
      BY <1>22 DEF NmiRearm, TypeOK, CpuType
    <3>4. stage' \in [CPU -> {"none", "rearm", "inc"}]
      BY <1>22 DEF NmiRearm, TypeOK, CpuType
    <3>5. UNCHANGED <<times, since, status, lvtpc, nmi>>
      BY <1>22 DEF NmiRearm, counts
    <3> QED
      BY <3>1, <3>2, <3>3, <3>4, <3>5 DEF TypeOK, CpuType
  <2> QED
    BY <2>1, <2>2, <2>3 DEF TypeOK
<1>23. ASSUME NEW c \in CPU, NmiCount(c)
      PROVE  TypeOK'
  <2>1. ThreadType'
    BY <1>23 DEF NmiCount, threads, TypeOK, ThreadType
  <2>2. SysType'
    BY <1>23, CorePmuAssumption
       DEF NmiCount, TypeOK, SysType, globals, kernel
  <2>3. CpuType'
    <3>1. \A n \in 0 .. MaxTimes : Incremented(n) \in 0 .. MaxTimes
      BY CorePmuAssumption DEF Incremented
    <3>2. times' \in [CPU -> 0 .. MaxTimes] /\ since' \in [CPU -> 0 .. MaxTimes]
      BY <1>23, <3>1 DEF NmiCount, TypeOK, CpuType
    <3>3. hread' \in [CPU -> 0 .. MaxTimes]
      BY <1>23, CorePmuAssumption DEF NmiCount, TypeOK, CpuType
    <3>4. stage' \in [CPU -> {"none", "rearm", "inc"}]
      BY <1>23 DEF NmiCount, TypeOK, CpuType
    <3>5. UNCHANGED <<pmc, hval, sel, ctrl, status, lvtpc, nmi>>
      BY <1>23 DEF NmiCount, pmu
    <3> QED
      BY <3>2, <3>3, <3>4, <3>5 DEF TypeOK, CpuType
  <2> QED
    BY <2>1, <2>2, <2>3 DEF TypeOK
<1>24. ASSUME NEW c \in CPU, CpuDown(c)
      PROVE  TypeOK'
  <2>1. ThreadType'
    BY <1>24 DEF CpuDown, threads, TypeOK, ThreadType
  <2>2. SysType'
    BY <1>24, CorePmuAssumption
       DEF CpuDown, TypeOK, SysType, globals
  <2>3. CpuType'
    BY <1>24, CorePmuAssumption
       DEF CpuDown, TypeOK, CpuType, counts, pmu, nmiVars
  <2> QED
    BY <2>1, <2>2, <2>3 DEF TypeOK
<1>25. ASSUME NEW c \in CPU, CpuUp(c)
      PROVE  TypeOK'
  <2>1. ThreadType'
    BY <1>25 DEF CpuUp, threads, TypeOK, ThreadType
  <2>2. SysType'
    BY <1>25, CorePmuAssumption
       DEF CpuUp, TypeOK, SysType, globals
  <2>3. CpuType'
    BY <1>25, CorePmuAssumption
       DEF CpuUp, TypeOK, CpuType, counts, pmu, nmiVars
  <2> QED
    BY <2>1, <2>2, <2>3 DEF TypeOK
<1>26. CASE UNCHANGED vars
  BY <1>26 DEF vars, globals, counts, pmu, nmiVars, kernel, threads, TypeOK,
       SysType, CpuType, ThreadType
<1> QED
  BY Zenon, <1>1, <1>2, <1>3, <1>4, <1>5, <1>6, <1>7, <1>8, <1>9, <1>10, <1>11,
       <1>12, <1>13, <1>14, <1>15, <1>16, <1>17, <1>18, <1>19, <1>20, <1>21,
       <1>22, <1>23, <1>24, <1>25, <1>26
     DEF Next, SweepStep, LoaderCall, WriterCall, HandlerStep

\* Every variable keeps its type: phases, positions, intervals and counts stay
\* in the ranges the code gives them.
THEOREM TypeCorrect == Spec => []TypeOK
  BY TypeInit, TypeStep, PTL DEF Spec

-----------------------------------------------------------------------------
(* The position of a thread inside a function it runs by IPI.              *)

\* A thread that is in no IPI function keeps StpInv when it changes its phase.
LEMMA GotoStp ==
  ASSUME ThreadType, StpInv, NEW t \in Thread, NEW p, Goto(t, p), stp[t] = 0
  PROVE  StpInv'
  BY DEF ThreadType, StpInv, Goto

\* A thread outside the IPI phases, or past the last CPU, is in no IPI function.
LEMMA OutsideIpi ==
  ASSUME ThreadType, StpInv, NEW t \in Thread,
         pc[t] \notin {"clear", "exit_clear", "event"} \/ pos[t] = NCpu
  PROVE  stp[t] = 0
  BY CorePmuAssumption DEF ThreadType, StpInv

LEMMA StpStep == TypeOK /\ StpInv /\ [Next]_vars => StpInv'
<1> SUFFICES ASSUME TypeOK, StpInv, [Next]_vars PROVE StpInv'
  OBVIOUS
<1> ThreadType
  BY DEF TypeOK
<1>1. ASSUME NEW t \in Thread, SweepStep(t) PROVE StpInv'
  <2>1. ASSUME NEW c \in CPU, ClearMsrs(t, c) PROVE StpInv'
    <3>1. pos[t] = c /\ c < NCpu
      BY <2>1, CorePmuAssumption DEF ClearMsrs, CanRun
    <3> QED
      BY <2>1, <3>1, CorePmuAssumption
         DEF ClearMsrs, StayOnCpu, NextCpu, ThreadType, StpInv
  <2>2. ASSUME NEW c \in CPU, EnablePredefinedEvent(t, c) PROVE StpInv'
    <3>1. pos[t] = c /\ c < NCpu
      BY <2>2, CorePmuAssumption DEF EnablePredefinedEvent, CanRun
    <3> QED
      BY <2>2, <3>1, CorePmuAssumption
         DEF EnablePredefinedEvent, StayOnCpu, NextCpu, ThreadType, StpInv
  <2>3. ASSUME NextCpu(t), UNCHANGED pc PROVE StpInv'
    BY <2>3 DEF NextCpu, ThreadType, StpInv
  <2>4. ASSUME FinishSweep(t) PROVE StpInv'
    BY <2>4, OutsideIpi, GotoStp DEF FinishSweep
  <2> QED
    BY <1>1, <2>1, <2>2, <2>3, <2>4
       DEF SweepStep, EnableCounting, LapicInit, ClearCounter, SkipOffline
<1>2. ASSUME Insmod \/ LoaderCall \/ ProcRemove PROVE StpInv'
  <2>1. pc[Loader] \notin {"clear", "exit_clear", "event"}
    BY <1>2 DEF Insmod, LoaderCall, ProcRemove, RegisterNmiHandler,
                SetInitValue, ProcRemoved, UnregisterNmiHandler, UnregisterDone
  <2>2. stp[Loader] = 0
    BY <2>1, OutsideIpi
  <2>3. \E p : Goto(Loader, p)
    BY <1>2, Zenon
       DEF Insmod, LoaderCall, ProcRemove, RegisterNmiHandler, SetInitValue,
           ProcRemoved, UnregisterNmiHandler, UnregisterDone
  <2> QED
    BY <2>2, <2>3, GotoStp
<1>3. ASSUME NEW w \in Writers,
             (\E k \in Ctl : WriteBegin(w, k)) \/ WriterCall(w)
      PROVE  StpInv'
  <2>1. pc[w] \notin {"clear", "exit_clear", "event"}
    BY <1>3 DEF WriteBegin, WriterCall, WriteLock, WriteUnlock
  <2>2. stp[w] = 0
    BY <2>1, OutsideIpi
  <2>3. \E p : Goto(w, p)
    BY <1>3, Zenon DEF WriteBegin, WriterCall, WriteLock, WriteUnlock
  <2> QED
    BY <2>2, <2>3, GotoStp
<1>4. ASSUME UNCHANGED <<pc, pos, stp>> PROVE StpInv'
  BY <1>4 DEF StpInv
<1> QED
  BY <1>1, <1>2, <1>3, <1>4
     DEF Next, Overflow, OtherNmi, HandlerStep, NmiDone, NmiRestart, NmiRearm,
         NmiCount, CpuDown, CpuUp, vars, threads

-----------------------------------------------------------------------------
(* Who is excused from holding the interval in force.                      *)

\* The phases in which the end of a phase can end the debt of a thread.
Debtor(t) == \/ pc[t] \in {"lapic", "register", "setval", "zero"}
             \/ pc[t] = "clear" /\ pos[t] < NCpu

\* A thread that starts a clearing sweep, or is to start one, owes every CPU.
LEMMA OwesAll ==
  ASSUME ThreadType, NEW t \in Thread, NEW p, Goto(t, p), stp[t] = 0,
         p \in {"lapic", "register", "setval", "zero", "clear"}
  PROVE  \A c \in CPU : Excused(c)'
  BY CorePmuAssumption DEF ThreadType, Goto, Excused, Owes

\* A change of phase of a thread that owes nothing excuses no CPU less.
LEMMA ExcusedByGoto ==
  ASSUME ThreadType, NEW t \in Thread, NEW p, Goto(t, p), ~Debtor(t),
         missed \subseteq missed'
  PROVE  \A c \in CPU : Excused(c) => Excused(c)'
<1> SUFFICES ASSUME NEW c \in CPU, NEW u \in Thread, Owes(u, c)
             PROVE  Owes(u, c)'
  BY DEF Excused
<1>1. u # t
  BY CorePmuAssumption DEF ThreadType, Owes, Debtor
<1> QED
  BY <1>1 DEF ThreadType, Goto, Owes

\* A step of a sweep at CPU c excuses no other CPU less, and c itself no less
\* unless it is the first step of a clearing visit or the skip of one.
LEMMA ExcusedBySweep ==
  ASSUME ThreadType, NEW t \in Thread, NEW c \in CPU, pos[t] = c,
         StayOnCpu(t) \/ NextCpu(t), UNCHANGED pc,
         missed \ {c} \subseteq missed'
  PROVE  /\ \A d \in CPU \ {c} : Excused(d) => Excused(d)'
         /\ (pc[t] # "clear" \/ stp[t] > 0) /\ missed \subseteq missed'
              => (Excused(c) => Excused(c)')
<1>1. ASSUME NEW d \in CPU \ {c}, NEW u \in Thread, Owes(u, d)
      PROVE  Owes(u, d)'
  BY <1>1, CorePmuAssumption DEF ThreadType, StayOnCpu, NextCpu, Owes
<1>2. ASSUME pc[t] # "clear" \/ stp[t] > 0, NEW u \in Thread, Owes(u, c)
      PROVE  Owes(u, c)'
  BY <1>2, CorePmuAssumption DEF ThreadType, StayOnCpu, NextCpu, Owes
<1> QED
  BY <1>1, <1>2 DEF Excused

-----------------------------------------------------------------------------
(* Copies of the interval stay fresh.                                      *)

\* If no CPU is excused less and no copy is changed, every copy stays fresh.
LEMMA FreshByGoto ==
  ASSUME TypeOK, StpInv, FreshInv, NEW t \in Thread, NEW p, Goto(t, p),
         stp[t] = 0, UNCHANGED <<pre_event_init_value, pmc, hval, stage, arg>>,
         \A c \in CPU : Excused(c) => Excused(c)'
  PROVE  FreshInv'
<1>1. FreshPmc' /\ FreshHval'
  BY DEF FreshInv, FreshPmc, FreshHval
<1>2. FreshArg'
  <2> SUFFICES ASSUME NEW u \in Thread, pc'[u] = "event", stp'[u] > 0
               PROVE  /\ arg'[u] = pre_event_init_value' \/ Excused(pos[u])'
                      /\ pos'[u] = pos[u]
    BY DEF FreshArg, Excused, Owes
  <2>1. u # t /\ pc[u] = "event" /\ pos'[u] = pos[u] /\ stp[u] > 0
    BY DEF TypeOK, ThreadType, Goto
  <2>2. pos[u] \in CPU
    BY <2>1, CorePmuAssumption DEF StpInv, TypeOK, ThreadType
  <2> QED
    BY <2>1, <2>2 DEF FreshInv, FreshArg
<1> QED
  BY <1>1, <1>2 DEF FreshInv

\* If every CPU is excused, nothing is required of a copy.
LEMMA FreshByDebt ==
  ASSUME TypeOK', StpInv', \A c \in CPU : Excused(c)'
  PROVE  FreshInv'
<1>1. \A t \in Thread : stp'[t] > 0 => pos'[t] \in CPU
  BY CorePmuAssumption DEF StpInv, TypeOK, ThreadType
<1>2. \A t \in Thread : stp'[t] > 0 => Excused(pos[t])'
  BY <1>1 DEF Excused, Owes
<1> QED
  BY <1>2 DEF FreshInv, FreshPmc, FreshHval, FreshArg

LEMMA FreshBySweep ==
  ASSUME TypeOK, StpInv, FreshInv, NEW t \in Thread,
         (StayOnCpu(t) /\ pc[t] # "event") \/ NextCpu(t),
         UNCHANGED <<pre_event_init_value, pmc, hval, stage, arg, pc>>,
         \A c \in CPU : Excused(c) => Excused(c)'
  PROVE  FreshInv'
<1>1. FreshPmc' /\ FreshHval'
  BY DEF FreshInv, FreshPmc, FreshHval
<1>2. ASSUME NEW u \in Thread, pc'[u] = "event", stp'[u] > 0
      PROVE  arg'[u] = pre_event_init_value' \/ Excused(pos[u])'
  <2>1. u # t
    BY <1>2 DEF TypeOK, ThreadType, StayOnCpu, NextCpu
  <2>2. pc[u] = "event" /\ pos'[u] = pos[u] /\ stp[u] > 0
    BY <1>2, <2>1 DEF TypeOK, ThreadType, StayOnCpu, NextCpu
  <2>3. pos[u] \in CPU
    BY <2>2, CorePmuAssumption DEF StpInv, TypeOK, ThreadType
  <2>4. Excused(pos[u]) => Excused(pos[u])'
    BY <2>2, <2>3 DEF Excused, Owes
  <2> QED
    BY <2>2, <2>4 DEF FreshInv, FreshArg
<1> QED
  BY <1>1, <1>2 DEF FreshInv, FreshArg

\* What the NMI handler and the environment may do to the copies on CPU c.
PmcStep(c) ==
    \/ pmc'[c] \in {0, pmc[c], pre_event_init_value}
    \/ stage[c] = "rearm" /\ pmc'[c] = hval[c]

HvalStep(c) ==
    stage'[c] = "rearm" =>
        \/ hval'[c] = pre_event_init_value
        \/ stage[c] = "rearm" /\ hval'[c] = hval[c]

LEMMA FreshOnCpu ==
  ASSUME FreshInv, UNCHANGED <<pre_event_init_value, pc, pos, stp, arg, missed>>,
         \A c \in CPU : PmcStep(c) /\ HvalStep(c)
  PROVE  FreshInv'
<1>1. \A c : Excused(c)' <=> Excused(c)
  BY DEF Excused, Owes
<1>2. FreshPmc' /\ FreshHval'
  BY <1>1 DEF FreshInv, FreshPmc, FreshHval, PmcStep, HvalStep
<1>3. FreshArg'
  BY <1>1 DEF FreshInv, FreshArg, Excused, Owes
<1> QED
  BY <1>2, <1>3 DEF FreshInv

\* The first step of a clearing visit: CPU c is in no handler and in no other
\* thread's function, so that no copy of the interval is on its way to it.
LEMMA FreshClear ==
  ASSUME TypeOK, StpInv, FreshInv, NEW t \in Thread, NEW c \in CPU,
         ClearMsrs(t, c), stp[t] = 0
  PROVE  FreshInv'
<1>1. /\ pos[t] = c /\ stage[c] = "none" /\ pmc' = [pmc EXCEPT ![c] = 0]
      /\ missed' = missed \ {c} /\ StayOnCpu(t) /\ pc[t] # "event"
      /\ UNCHANGED <<pre_event_init_value, hval, stage, arg, pc>>
      /\ \A u \in Thread \ {t} : ~(pos[u] = c /\ stp[u] > 0)
  BY DEF ClearMsrs, CanRun, globals, nmiVars
<1>2. \A d \in CPU \ {c} : Excused(d) => Excused(d)'
  BY <1>1, ExcusedBySweep DEF TypeOK
<1>3. FreshPmc' /\ FreshHval'
  BY <1>1, <1>2 DEF FreshInv, FreshPmc, FreshHval, TypeOK, CpuType
<1>4. ASSUME NEW u \in Thread, pc'[u] = "event", stp'[u] > 0
      PROVE  arg'[u] = pre_event_init_value' \/ Excused(pos[u])'
  <2>1. u # t
    BY <1>1, <1>4 DEF TypeOK, ThreadType
  <2>2. pc[u] = "event" /\ pos'[u] = pos[u] /\ stp[u] > 0 /\ pos[u] # c
    BY <1>1, <1>4, <2>1 DEF TypeOK, ThreadType, StayOnCpu
  <2>3. pos[u] \in CPU \ {c}
    BY <2>2, CorePmuAssumption DEF StpInv, TypeOK, ThreadType
  <2>4. Excused(pos[u]) => Excused(pos[u])'
    BY <1>2, <2>2, <2>3 DEF Excused, Owes
  <2> QED
    BY <1>1, <2>2, <2>4 DEF FreshInv, FreshArg
<1> QED
  BY <1>3, <1>4 DEF FreshInv, FreshArg

\* Both steps of __core_pmu_enable_predefined_event: the value read is the one
\* in force, and the value written is still in force or the CPU is excused.
LEMMA FreshEvent ==
  ASSUME TypeOK, StpInv, FreshInv, NEW t \in Thread, NEW c \in CPU,
         EnablePredefinedEvent(t, c)
  PROVE  FreshInv'
<1>1. /\ pos[t] = c /\ pc[t] = "event"
      /\ StayOnCpu(t) \/ NextCpu(t)
      /\ UNCHANGED <<pre_event_init_value, hval, stage, pc, missed>>
  BY DEF EnablePredefinedEvent, CanRun, globals, nmiVars
<1>2. \A d \in CPU : Excused(d) => Excused(d)'
  BY <1>1, ExcusedBySweep DEF TypeOK
<1>3. FreshHval'
  BY <1>1, <1>2 DEF FreshInv, FreshHval
<1>4. FreshPmc'
  <2>1. CASE UNCHANGED pmc
    BY <1>1, <1>2, <2>1 DEF FreshInv, FreshPmc
  <2>2. CASE stp[t] = 1 /\ pmc' = [pmc EXCEPT ![c] = arg[t]]
    <3>1. arg[t] = pre_event_init_value \/ Excused(c)
      BY <1>1, <2>2 DEF FreshInv, FreshArg
    <3> QED
      BY <1>1, <1>2, <2>2, <3>1 DEF FreshInv, FreshPmc, TypeOK, CpuType
  <2> QED
    BY <2>1, <2>2 DEF EnablePredefinedEvent
<1>5. ASSUME NEW u \in Thread, pc'[u] = "event", stp'[u] > 0
      PROVE  arg'[u] = pre_event_init_value' \/ Excused(pos[u])'
  <2>1. CASE u = t
    BY <1>1, <1>5, <2>1
       DEF EnablePredefinedEvent, NextCpu, StayOnCpu, TypeOK, ThreadType
  <2>2. CASE u # t
    <3>1. /\ pc[u] = "event" /\ pos'[u] = pos[u] /\ stp[u] > 0
          /\ arg'[u] = arg[u]
      BY <1>1, <1>5, <2>2
         DEF EnablePredefinedEvent, NextCpu, StayOnCpu, TypeOK, ThreadType
    <3>2. pos[u] \in CPU
      BY <3>1, CorePmuAssumption DEF StpInv, TypeOK, ThreadType
    <3>3. Excused(pos[u]) => Excused(pos[u])'
      BY <1>2, <3>1, <3>2 DEF Excused, Owes
    <3> QED
      BY <1>1, <3>1, <3>3 DEF FreshInv, FreshArg
  <2> QED
    BY <2>1, <2>2
<1> QED
  BY <1>3, <1>4, <1>5 DEF FreshInv, FreshArg

-----------------------------------------------------------------------------
(* The inductive invariant.                                                *)

LEMMA FreshStep == TypeOK /\ StpInv /\ FreshInv /\ [Next]_vars => FreshInv'
<1> SUFFICES ASSUME TypeOK, StpInv, FreshInv, [Next]_vars PROVE FreshInv'
  OBVIOUS
<1>1. TypeOK' /\ StpInv'
  BY TypeStep, StpStep
<1>2. ASSUME NEW t \in Thread, NEW c \in CPU, ClearMsrs(t, c) PROVE FreshInv'
  <2>1. CASE stp[t] = 0
    BY <1>2, <2>1, FreshClear
  <2>2. CASE stp[t] # 0
    <3>1. /\ pos[t] = c
          /\ StayOnCpu(t) \/ NextCpu(t)
          /\ pc[t] # "event" /\ stp[t] > 0
          /\ UNCHANGED <<pre_event_init_value, pmc, hval, stage, arg, pc, missed>>
      BY <1>2, <2>2
         DEF ClearMsrs, CanRun, globals, nmiVars, TypeOK, ThreadType
    <3>2. pos[t] = c
      BY <1>2 DEF ClearMsrs, CanRun
    <3>3. \A d \in CPU : Excused(d) => Excused(d)'
      BY <3>1, <3>2, ExcusedBySweep DEF TypeOK
    <3> QED
      BY <3>1, <3>3, FreshBySweep
  <2> QED
    BY <2>1, <2>2
<1>3. ASSUME NEW t \in Thread, NEW c \in CPU,
             EnableCounting(t, c) \/ LapicInit(t, c) \/ ClearCounter(t, c)
      PROVE  FreshInv'
  <2>1. /\ pos[t] = c /\ NextCpu(t) /\ pc[t] # "clear"
        /\ UNCHANGED <<pre_event_init_value, pmc, hval, stage, arg, pc, missed>>
    BY <1>3 DEF EnableCounting, LapicInit, ClearCounter, CanRun, globals, pmu,
                nmiVars
  <2>2. \A d \in CPU : Excused(d) => Excused(d)'
    BY <2>1, ExcusedBySweep DEF TypeOK
  <2> QED
    BY <2>1, <2>2, FreshBySweep
<1>4. ASSUME NEW t \in Thread, NEW c \in CPU, SkipOffline(t, c) PROVE FreshInv'
  <2>1. /\ pos[t] = c /\ NextCpu(t) /\ missed \subseteq missed'
        /\ pc[t] = "clear" => c \in missed'
        /\ UNCHANGED <<pre_event_init_value, pmc, hval, stage, arg, pc>>
    BY <1>4 DEF SkipOffline, globals, pmu, nmiVars
  <2>2. \A d \in CPU : Excused(d) => Excused(d)'
    BY <2>1, ExcusedBySweep DEF TypeOK, Excused
  <2> QED
    BY <2>1, <2>2, FreshBySweep
<1>5. ASSUME NEW t \in Thread, NEW c \in CPU, EnablePredefinedEvent(t, c)
      PROVE  FreshInv'
  BY <1>5, FreshEvent
<1>6. ASSUME NEW t \in Thread, FinishSweep(t) PROVE FreshInv'
  <2>1. /\ Goto(t, AfterSweep(t)) /\ stp[t] = 0 /\ pos[t] = NCpu
        /\ UNCHANGED <<pre_event_init_value, pmc, hval, stage, arg, missed>>
    BY <1>6, OutsideIpi DEF FinishSweep, pmu, nmiVars, TypeOK
  <2>2. CASE pc[t] \in {"lapic", "zero"}
    <3>1. AfterSweep(t) \in {"register", "clear"}
      BY <2>2 DEF AfterSweep
    <3> QED
      BY <1>1, <2>1, <3>1, OwesAll, FreshByDebt DEF TypeOK
  <2>3. CASE pc[t] \notin {"lapic", "zero"}
    <3>1. ~Debtor(t)
      BY <1>6, <2>1, <2>3, CorePmuAssumption DEF Debtor, FinishSweep, Sweeps
    <3>2. \A c \in CPU : Excused(c) => Excused(c)'
      BY <2>1, <3>1, ExcusedByGoto DEF TypeOK
    <3> QED
      BY <2>1, <3>2, FreshByGoto
  <2> QED
    BY <2>2, <2>3
<1>7. ASSUME Insmod \/ RegisterNmiHandler \/ SetInitValue PROVE FreshInv'
  <2>1. stp[Loader] = 0
    BY <1>7, OutsideIpi DEF Insmod, RegisterNmiHandler, SetInitValue, TypeOK
  <2>2. Goto(Loader, "lapic") \/ Goto(Loader, "setval") \/ Goto(Loader, "clear")
    BY <1>7 DEF Insmod, RegisterNmiHandler, SetInitValue
  <2> QED
    BY <1>1, <2>1, <2>2, OwesAll, FreshByDebt DEF TypeOK
<1>8. ASSUME ProcRemove \/ ProcRemoved \/ UnregisterNmiHandler \/ UnregisterDone
      PROVE  FreshInv'
  <2>1. /\ ~Debtor(Loader)
        /\ UNCHANGED <<pre_event_init_value, pmc, hval, stage, arg, missed>>
        /\ pc[Loader] \notin {"clear", "exit_clear", "event"}
    BY <1>8 DEF ProcRemove, ProcRemoved, UnregisterNmiHandler, UnregisterDone,
                Debtor, globals, pmu, nmiVars
  <2>2. PICK p : Goto(Loader, p)
    BY <1>8, Zenon
       DEF ProcRemove, ProcRemoved, UnregisterNmiHandler, UnregisterDone
  <2>3. \A c \in CPU : Excused(c) => Excused(c)'
    BY <2>1, <2>2, ExcusedByGoto DEF TypeOK
  <2> QED
    BY <2>1, <2>2, <2>3, OutsideIpi, FreshByGoto DEF TypeOK
<1>9. ASSUME NEW w \in Writers,
             (\E k \in Ctl : WriteBegin(w, k)) \/ WriterCall(w)
      PROVE  FreshInv'
  <2>1. pc[w] \in {"idle", "lock", "unlock"}
    BY <1>9 DEF WriteBegin, WriterCall, WriteLock, WriteUnlock
  <2>2. stp[w] = 0
    BY <2>1, OutsideIpi DEF TypeOK
  <2>3. CASE Goto(w, "zero")
    BY <1>1, <2>2, <2>3, OwesAll, FreshByDebt DEF TypeOK
  <2>4. CASE ~Goto(w, "zero")
    <3>1. UNCHANGED <<pre_event_init_value, pmc, hval, stage, arg, missed>>
      BY <1>9, <2>4 DEF WriteBegin, WriterCall, WriteLock, WriteUnlock, globals,
                        pmu, nmiVars
    <3>2. PICK p : Goto(w, p)
      BY <1>9, Zenon DEF WriteBegin, WriterCall, WriteLock, WriteUnlock
    <3>3. \A c \in CPU : Excused(c) => Excused(c)'
      BY <2>1, <3>1, <3>2, ExcusedByGoto DEF TypeOK, Debtor
    <3> QED
      BY <2>2, <3>1, <3>2, <3>3, FreshByGoto
  <2> QED
    BY <2>3, <2>4
<1>10. ASSUME NEW c \in CPU, Overflow(c) \/ HandlerStep(c) PROVE FreshInv'
  <2>1. UNCHANGED <<pre_event_init_value, pc, pos, stp, arg, missed>>
    BY <1>10 DEF Overflow, HandlerStep, NmiDone, NmiRestart, NmiRearm, NmiCount,
                 globals, threads
  <2>2. ASSUME NEW d \in CPU PROVE PmcStep(d) /\ HvalStep(d)
    <3>1. CASE Overflow(c)
      BY <3>1 DEF Overflow, TypeOK, CpuType, PmcStep, HvalStep
    <3>2. CASE NmiDone(c)
      BY <3>2 DEF NmiDone, pmu, PmcStep, HvalStep
    <3>3. CASE NmiRestart(c)
      BY <3>3 DEF NmiRestart, TypeOK, CpuType, PmcStep, HvalStep
    <3>4. CASE NmiRearm(c)
      BY <3>4 DEF NmiRearm, TypeOK, CpuType, PmcStep, HvalStep
    <3>5. CASE NmiCount(c)
      BY <3>5 DEF NmiCount, pmu, TypeOK, CpuType, PmcStep, HvalStep
    <3> QED
      BY <1>10, <3>1, <3>2, <3>3, <3>4, <3>5 DEF HandlerStep
  <2>3. \A d \in CPU : PmcStep(d) /\ HvalStep(d)
    BY <2>2
  <2> QED
    BY <2>1, <2>3, FreshOnCpu
<1>11. ASSUME UNCHANGED <<pre_event_init_value, pc, pos, stp, arg, missed, pmc,
                          hval, stage>>
       PROVE  FreshInv'
  <2>1. \A c \in CPU : PmcStep(c) /\ HvalStep(c)
    BY <1>11 DEF PmcStep, HvalStep
  <2> QED
    BY <1>11, <2>1, FreshOnCpu
<1> QED
  BY <1>2, <1>3, <1>4, <1>5, <1>6, <1>7, <1>8, <1>9, <1>10, <1>11
     DEF Next, SweepStep, LoaderCall, OtherNmi, CpuDown, CpuUp, vars, globals,
         pmu, nmiVars, threads

LEMMA IInvInductive == Spec => []IInv
<1>1. Init => IInv
  <2> SUFFICES ASSUME Init PROVE StpInv /\ FreshInv
    BY TypeInit DEF IInv
  <2>1. StpInv /\ FreshArg
    BY DEF Init, StpInv, FreshArg
  <2>2. FreshPmc /\ FreshHval
    BY DEF Init, FreshPmc, FreshHval
  <2> QED
    BY <2>1, <2>2 DEF FreshInv
<1>2. IInv /\ [Next]_vars => IInv'
  BY TypeStep, StpStep, FreshStep DEF IInv
<1> QED
  BY <1>1, <1>2, PTL DEF Spec

\* No interleaving of writers, NMI handlers, IPI functions and hotplug leaves a
\* CPU with an interval that is no longer in force, once its clearing visit has
\* been made (core_pmu.c:289-311, 397-412, 439-445; core_proc.c:71-99).
THEOREM NoStaleThresholdHolds == Spec => []NoStaleThreshold
<1>1. IInv => NoStaleThreshold
  BY DEF IInv, FreshInv, FreshPmc, Excused, NoStaleThreshold
<1> QED
  BY <1>1, IInvInductive, PTL

\* The CPUs that nobody takes offline, whatever becomes of the others; CPU 0 is
\* one of them.  No sweep misses one.
Steady == CPU \ Removable

SteadyOnline == Steady \subseteq online /\ Steady \cap missed = {}

LEMMA SteadyOnlineHolds == Spec => []SteadyOnline
<1>1. Init => SteadyOnline
  BY DEF Init, Steady, SteadyOnline
<1>2. SteadyOnline /\ [Next]_vars => SteadyOnline'
  <2> SUFFICES ASSUME SteadyOnline, [Next]_vars PROVE SteadyOnline'
    OBVIOUS
  <2> USE DEF Steady, SteadyOnline
  <2>1. ASSUME NEW t \in Thread, SweepStep(t) PROVE SteadyOnline'
    BY <2>1 DEF SweepStep, ClearMsrs, EnablePredefinedEvent, EnableCounting,
                LapicInit, ClearCounter, SkipOffline, FinishSweep, kernel
  <2>2. ASSUME Insmod \/ LoaderCall \/ ProcRemove PROVE SteadyOnline'
    BY <2>2 DEF Insmod, LoaderCall, ProcRemove, RegisterNmiHandler,
                SetInitValue, ProcRemoved, UnregisterNmiHandler,
                UnregisterDone, kernel
  <2>3. ASSUME NEW w \in Writers,
               (\E k \in Ctl : WriteBegin(w, k)) \/ WriterCall(w)
        PROVE  SteadyOnline'
    BY <2>3 DEF WriteBegin, WriterCall, WriteLock, WriteUnlock, kernel
  <2>4. ASSUME NEW c \in CPU, Overflow(c) \/ OtherNmi(c) \/ HandlerStep(c)
        PROVE  SteadyOnline'
    BY <2>4 DEF Overflow, OtherNmi, HandlerStep, NmiDone, NmiRestart, NmiRearm,
                NmiCount, kernel
  <2>5. ASSUME NEW c \in CPU, CpuDown(c) \/ CpuUp(c) PROVE SteadyOnline'
    BY <2>5 DEF CpuDown, CpuUp
  <2>6. CASE UNCHANGED vars
    BY <2>6 DEF vars, kernel
  <2> QED
    BY <2>1, <2>2, <2>3, <2>4, <2>5, <2>6 DEF Next
<1> QED
  BY <1>1, <1>2, PTL DEF Spec

\* The value 0 disables sampling for good, hotplug or not: when a write of '0' has
\* returned, no CPU can overflow again that the sweep of __core_pmu_clear_msrs did
\* not find offline, not even after an NMI that was in flight (core_proc.c:72-76).
DisabledWhereVisited ==
    Quiescent /\ pre_event_init_value = 0 =>
        \A c \in CPU \ missed : ~Counting(c) /\ (stage[c] = "rearm" => hval[c] = 0)

THEOREM DisabledWhereVisitedHolds == Spec => []DisabledWhereVisited
<1>1. IInv => DisabledWhereVisited
  <2> SUFFICES ASSUME IInv, Quiescent, pre_event_init_value = 0,
                      NEW c \in CPU \ missed
               PROVE  pmc[c] = 0 /\ (stage[c] = "rearm" => hval[c] = 0)
    BY DEF DisabledWhereVisited, Counting
  <2>1. \A t \in Thread : ~Owes(t, c)
    BY DEF Quiescent, Owes
  <2> QED
    BY <2>1 DEF IInv, FreshInv, FreshPmc, FreshHval, Excused
<1> QED
  BY <1>1, IInvInductive, PTL

\* Without hotplug no sweep finds a CPU offline, so that no CPU can overflow.
THEOREM DisabledHolds ==
  ASSUME Removable = {} PROVE Spec => []DisabledNeverOverflows
<1>1. TypeOK /\ SteadyOnline /\ DisabledWhereVisited => DisabledNeverOverflows
  BY DEF TypeOK, SysType, Steady, SteadyOnline, DisabledWhereVisited,
         DisabledNeverOverflows
<1> QED
  BY <1>1, TypeCorrect, SteadyOnlineHolds, DisabledWhereVisitedHolds, PTL
=============================================================================
