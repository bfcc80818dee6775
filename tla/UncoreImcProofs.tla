---------------------------- MODULE UncoreImcProofs ----------------------------
(***************************************************************************)
(* Proofs about UncoreImc, for every machine, every number of nodes and    *)
(* DIMMs and every set of writers.                                         *)
(*                                                                         *)
(* Nothing but the mutex and the phases of insmod and rmmod keeps two      *)
(* walks apart.  Where they do (WalkInv), a register that has been read    *)
(* still has the value that was read when it is written (CfgInv), and all  *)
(* registers a walk has passed are as the walk left them (RegInv).         *)
(***************************************************************************)
EXTENDS UncoreImc, SequenceTheorems, TLAPS

Complete == \A n \in Node : ~Fails(n)

Setting  == {"prepare", "set", "enable", "undo"}
Enabling == {"enable_throttle_all", "disable_throttle_all"}

\* Which thread may be where.
PhaseInv ==
    /\ pc[Loader] # "unloaded" => listed
    /\ procReg => pc[Loader] \in Setting \cup {"live", "disable"}
    /\ started => pc[Loader] \in {"live", "disable"}
    /\ \A w \in Writers :
           /\ pc[w] # "idle" =>
                  \/ pc[Loader] \in {"live", "disable", "wait"}
                  \/ EarlyWrites /\ pc[Loader] \in Setting
           /\ mutex = w <=> pc[w] \in {"set", "unlock"}

\* Which function a thread may be in, and where its walk is.
WalkInv ==
    /\ walk[Loader].call \in CASE pc[Loader] = "set"    -> {"none", "set_threshold_all"}
                               [] pc[Loader] = "enable" -> {"none"} \cup Enabling
                               [] pc[Loader] \in {"undo", "disable"} ->
                                      {"none", "disable_throttle_all"}
                               [] OTHER -> {"none"}
    /\ walk[Loader].threshold = 1
    /\ \A w \in Writers :
           /\ walk[w].call \in IF pc[w] = "set" THEN {"none", "set_threshold"}
                                                ELSE {"none"}
           /\ InCall(w) => walk[w].threshold = bw_ratio
    /\ \A t \in Thread :
           /\ cfg[t] # NoCfg => OnDevice(t)
           /\ walk[t].dimm > 1 => OnDevice(t)
           /\ InCall(t) => walk[t].node <= LastNode(walk[t].call)

\* The emulation is being started or runs.
Up == pc[Loader] \in Setting \cup {"live"}

CfgInv == Up => \A t \in Thread : cfg[t] # NoCfg => cfg[t] = reg[Cursor(t)]

\* The registers of machine m that walk w has passed.
Passed(m, w, r) ==
    \/ m[r[1]] < w.node
    \/ /\ m[r[1]] = w.node
       /\ r[1] < w.imc \/ (r[1] = w.imc /\ r[2] < w.dimm)

\* The registers, as far as the walks have come: while thresholds are set, ...
ThresholdInv ==
    /\ pc[Loader] \in Setting \cup {"create"} => bw_ratio = 1
    /\ Complete /\ pc[Loader] \in {"set", "enable"} =>
           \A r \in Reg :
               \/ /\ walk[Loader].call = "set_threshold_all"
                  /\ ~Passed(devices, walk[Loader], r)
               \/ reg[r].thr = 4095

\* ... while throttling is enabled, or disabled again because a node has no device, ...
EnableInv ==
    pc[Loader] = "enable" =>
        CASE walk[Loader].call = "enable_throttle_all" ->
                 /\ \A r \in Reg : Passed(devices, walk[Loader], r) => reg[r].en
                 /\ \A n \in Node : n < walk[Loader].node => ~Fails(n)
          [] walk[Loader].call = "disable_throttle_all" ->
                 /\ \A r \in Reg : Passed(devices, walk[Loader], r) => ~reg[r].en
                 /\ ~Complete
          [] OTHER -> \A r \in Reg : reg[r].en <=> Complete

\* ... and while the emulation runs.
RunningInv ==
    Running =>
        /\ \A r \in Reg : reg[r].en <=> Complete
        /\ Complete => \A r \in Reg :
               NodeOfReg(r) \in {0, 1} =>
                   \/ reg[r].thr = Code(bw_ratio)
                   \/ \E w \in Writers : InCall(w) /\ ~Passed(devices, walk[w], r)

RegInv == ThresholdInv /\ EnableInv /\ RunningInv

IInv == TypeOK /\ PhaseInv /\ WalkInv

\* Where no write begins before insmod has returned.
QuietInv == CfgInv /\ RegInv

-----------------------------------------------------------------------------
(* Machines and walks.                                                     *)

LEMMA DeviceFacts ==
  ASSUME devices \in Machines
  PROVE  /\ Len(devices) \in Nat
         /\ DOMAIN devices = 1 .. Len(devices)
         /\ \A d \in 1 .. Len(devices) : devices[d] \in 0 .. NNodes - 1
<1>1. devices \in Seq(0 .. NNodes - 1)
  BY UncoreImcAssumption
<1> QED
  BY <1>1, LenProperties, ElementOfSeq

\* Every register is one of a device on the list.
LEMMA RegFacts ==
  ASSUME devices \in Machines, NEW r \in Reg
  PROVE  /\ r[1] \in 1 .. Len(devices) /\ r[2] \in 1 .. NDimm
         /\ r = <<r[1], r[2]>>
         /\ NodeOfReg(r) \in 0 .. NNodes - 1
BY DeviceFacts DEF Reg, NodeOfReg

\* A new walk has passed nothing.
LEMMA StartPasses ==
  ASSUME devices \in Machines, NEW c, NEW threshold, NEW r \in Reg
  PROVE  ~Passed(devices, WalkOf(c, threshold), r)
BY RegFacts DEF Passed, WalkOf, NodeOfReg

\* Writing a register passes it and no other.
LEMMA AdvancePasses ==
  ASSUME devices \in Machines, NEW w \in Walk, w.imc <= Len(devices),
         devices[w.imc] = w.node
  PROVE  /\ Advance(w) \in Walk
         /\ <<w.imc, w.dimm>> \in Reg /\ NodeOfReg(<<w.imc, w.dimm>>) = w.node
         /\ ~Passed(devices, w, <<w.imc, w.dimm>>)
         /\ \A r \in Reg : Passed(devices, Advance(w), r)
                             <=> Passed(devices, w, r) \/ r = <<w.imc, w.dimm>>
<1> USE UncoreImcAssumption DEF Walk, CallName
<1>1. <<w.imc, w.dimm>> \in Reg /\ NodeOfReg(<<w.imc, w.dimm>>) = w.node
  BY DeviceFacts DEF Reg, NodeOfReg
<1>2. ~Passed(devices, w, <<w.imc, w.dimm>>)
  BY <1>1 DEF Passed, NodeOfReg
<1>3. ASSUME NEW r \in Reg
      PROVE  /\ r[1] \in 1 .. Len(devices) /\ r[2] \in 1 .. NDimm
             /\ NodeOfReg(r) \in 0 .. NNodes - 1
             /\ r = <<w.imc, w.dimm>> <=> r[1] = w.imc /\ r[2] = w.dimm
             /\ r[1] = w.imc => NodeOfReg(r) = w.node
  BY RegFacts DEF NodeOfReg
<1>4. CASE w.dimm < NDimm
  <2>1. w.dimm + 1 \in 1 .. NDimm
    BY <1>4
  <2>2. Advance(w) = [w EXCEPT !.dimm = w.dimm + 1]
    BY <1>4 DEF Advance
  <2>3. Advance(w) \in Walk
    BY <2>1, <2>2
  <2>4. /\ Advance(w).node = w.node /\ Advance(w).imc = w.imc
        /\ Advance(w).dimm = w.dimm + 1
    BY <2>1, <2>2
  <2>5. \A r \in Reg : Passed(devices, Advance(w), r)
                         <=> Passed(devices, w, r) \/ r = <<w.imc, w.dimm>>
    BY <1>3, <2>4, SMTT(30) DEF Passed, NodeOfReg
  <2> QED
    BY <1>1, <1>2, <2>3, <2>5
<1>5. CASE w.dimm = NDimm
  <2>1. w.imc + 1 \in 1 .. Len(devices) + 1 /\ 1 \in 1 .. NDimm
    BY DeviceFacts
  <2>2. Advance(w) = [w EXCEPT !.imc = w.imc + 1, !.dimm = 1]
    BY <1>5 DEF Advance
  <2>3. Advance(w) \in Walk
    BY <2>1, <2>2
  <2>4. /\ Advance(w).node = w.node /\ Advance(w).imc = w.imc + 1
        /\ Advance(w).dimm = 1
    BY <2>1, <2>2
  <2>5. \A r \in Reg : Passed(devices, Advance(w), r)
                         <=> Passed(devices, w, r) \/ r = <<w.imc, w.dimm>>
    BY <1>3, <1>5, <2>4, SMTT(30) DEF Passed, NodeOfReg
  <2> QED
    BY <1>1, <1>2, <2>3, <2>5
<1> QED
  BY <1>4, <1>5

\* Skipping a device of another node passes nothing.
LEMMA SkipPasses ==
  ASSUME devices \in Machines, NEW w \in Walk, w.imc <= Len(devices),
         devices[w.imc] # w.node, w.dimm = 1
  PROVE  /\ [w EXCEPT !.imc = @ + 1] \in Walk
         /\ \A r \in Reg : Passed(devices, [w EXCEPT !.imc = @ + 1], r)
                             <=> Passed(devices, w, r)
<1> USE UncoreImcAssumption DEF Walk, CallName
<1>1. [w EXCEPT !.imc = @ + 1] \in Walk
  <2>1. w.imc + 1 \in 1 .. Len(devices) + 1
    BY DeviceFacts
  <2> QED
    BY <2>1
<1>2. ASSUME NEW r \in Reg
      PROVE  Passed(devices, [w EXCEPT !.imc = @ + 1], r) <=> Passed(devices, w, r)
  BY RegFacts, SMTT(30) DEF Passed, NodeOfReg
<1> QED
  BY <1>1, <1>2

\* Neither does going on to the next node, when all devices of one are passed.
LEMMA NextNodePasses ==
  ASSUME devices \in Machines, NEW w \in Walk, w.imc > Len(devices), w.dimm = 1
  PROVE  /\ w.node < NNodes => [w EXCEPT !.node = @ + 1, !.imc = 1] \in Walk
         /\ \A r \in Reg : /\ Passed(devices, [w EXCEPT !.node = @ + 1, !.imc = 1], r)
                                <=> Passed(devices, w, r)
                           /\ Passed(devices, w, r) <=> NodeOfReg(r) <= w.node
<1> USE UncoreImcAssumption DEF Walk, CallName
<1>1. ASSUME w.node < NNodes PROVE [w EXCEPT !.node = @ + 1, !.imc = 1] \in Walk
  <2>1. w.node + 1 \in 0 .. NNodes /\ 1 \in 1 .. Len(devices) + 1
    BY <1>1, DeviceFacts
  <2> QED
    BY <2>1
<1>2. ASSUME NEW r \in Reg
      PROVE  /\ Passed(devices, [w EXCEPT !.node = @ + 1, !.imc = 1], r)
                  <=> Passed(devices, w, r)
             /\ Passed(devices, w, r) <=> NodeOfReg(r) <= w.node
  BY RegFacts DEF Passed, NodeOfReg
<1> QED
  BY <1>1, <1>2

\* An update writes a value a register can have.
LEMMA EnTypes ==
  ASSUME NEW v \in RegValue, NEW e \in BOOLEAN
  PROVE  /\ [v EXCEPT !.en = e] \in RegValue
         /\ [v EXCEPT !.en = e].en = e /\ [v EXCEPT !.en = e].thr = v.thr
BY DEF RegValue

LEMMA UpdatedTypes ==
  ASSUME NEW w, w.call \in CallName \ {"none"}, NEW v \in RegValue
  PROVE  Updated(w, v) \in RegValue
<1>1. CASE w.call \in {"set_threshold", "set_threshold_all"}
  <2>1. Code(w.threshold) \in {127, 255, 4095}
    BY DEF Code
  <2>2. [v EXCEPT !.thr = Code(w.threshold)] \in RegValue
    BY <2>1 DEF RegValue
  <2> QED
    BY <1>1, <2>2 DEF Updated
<1>2. CASE w.call = "enable_throttle_all"
  <2>1. [v EXCEPT !.en = TRUE] \in RegValue
    BY EnTypes, Zenon
  <2> QED
    BY <1>2, <2>1 DEF Updated
<1>3. CASE w.call = "disable_throttle_all"
  <2>1. [v EXCEPT !.en = FALSE] \in RegValue
    BY EnTypes, Zenon
  <2> QED
    BY <1>3, <2>1 DEF Updated
<1> QED
  BY <1>1, <1>2, <1>3 DEF CallName

\* Setting a threshold keeps the enable bit, ...
LEMMA UpdatedSet ==
  ASSUME NEW w, w.call \in {"set_threshold", "set_threshold_all"}, NEW v \in RegValue
  PROVE  Updated(w, v).thr = Code(w.threshold) /\ Updated(w, v).en = v.en
<1>1. Updated(w, v) = [v EXCEPT !.thr = Code(w.threshold)]
  BY DEF Updated
<1> QED
  BY <1>1 DEF RegValue

\* ... and setting that bit keeps the threshold.
LEMMA UpdatedEnable ==
  ASSUME NEW w, w.call \in Enabling, NEW v \in RegValue
  PROVE  /\ Updated(w, v).thr = v.thr
         /\ Updated(w, v).en <=> w.call = "enable_throttle_all"
<1>1. CASE w.call = "enable_throttle_all"
  <2>1. Updated(w, v) = [v EXCEPT !.en = TRUE]
    BY <1>1 DEF Updated
  <2>2. Updated(w, v).thr = v.thr /\ Updated(w, v).en = TRUE
    BY <2>1, EnTypes, Zenon
  <2> QED
    BY <1>1, <2>2
<1>2. CASE w.call = "disable_throttle_all"
  <2>1. Updated(w, v) = [v EXCEPT !.en = FALSE]
    BY <1>2 DEF Updated
  <2>2. Updated(w, v).thr = v.thr /\ Updated(w, v).en = FALSE
    BY <2>1, EnTypes, Zenon
  <2> QED
    BY <1>2, <2>2
<1> QED
  BY <1>1, <1>2 DEF Enabling

LEMMA WalkOfTypes ==
  ASSUME devices \in Machines, NEW c \in CallName, NEW threshold \in {1, 2, 4}
  PROVE  WalkOf(c, threshold) \in Walk
<1>1. 1 \in 1 .. Len(devices) + 1 /\ 0 \in 0 .. NNodes /\ 1 \in 1 .. NDimm
  BY DeviceFacts, UncoreImcAssumption
<1> QED
  BY <1>1 DEF WalkOf, Walk

LEMMA AfterNodeTypes ==
  ASSUME devices \in Machines, NEW w \in Walk, w.imc > Len(devices), w.dimm = 1
  PROVE  AfterNode(w) \in Walk
<1>1. CASE ~Breaks(w) /\ w.node < LastNode(w.call)
  <2>1. w.node < NNodes
    BY <1>1, UncoreImcAssumption DEF LastNode, Walk, CallName
  <2> QED
    BY <1>1, <2>1, NextNodePasses DEF AfterNode
<1>2. CASE AfterNode(w) \in {WalkOf("disable_throttle_all", 1), NoWalk}
  BY <1>2, WalkOfTypes DEF NoWalk, CallName
<1> QED
  BY <1>1, <1>2 DEF AfterNode
-----------------------------------------------------------------------------
(* Preservation of the parts of IInv, action by action.                    *)

\* The phases of the loader and of the writers do not mix.
LEMMA GotoTypes ==
  ASSUME TypeOK, NEW t \in Thread, NEW p, NEW q, Goto(t, p, q),
         IF t = Loader THEN q \in LoaderPhase ELSE q \in WriterPhase
  PROVE  /\ pc' \in [Thread -> LoaderPhase \cup WriterPhase]
         /\ pc'[Loader] \in LoaderPhase
         /\ \A w \in Writers : pc'[w] \in WriterPhase
<1> USE UncoreImcAssumption DEF TypeOK, Thread
<1>1. pc' = [pc EXCEPT ![t] = q]
  BY DEF Goto
<1> QED
  BY <1>1

\* The machine stays the same.
LEMMA MachineFixed ==
  ASSUME [Next]_vars
  PROVE  devices' = devices /\ Reg' = Reg /\ Walk' = Walk
<1>1. devices' = devices
  BY DEF Next, WalkStep, ReadReg, WriteReg, SkipDevice, NodeDone, LoaderStep, ImcInit,
         ProcCreate, StartBandwidth, StartThrottle, StartDone, StartSkipped,
         StartUndone, StartUndoDone, FinishBandwidth, ProcRemove, ImcExit,
         WriterStep, WriteBegin, WriteLock, WriteDone, WriteUnlock, vars
<1> QED
  BY <1>1, Zenon DEF Reg, Walk

LEMMA TypeStep ==
  ASSUME TypeOK, WalkInv, [Next]_vars
  PROVE  TypeOK'
<1> USE UncoreImcAssumption DEF TypeOK
<1>1. Loader \in Thread /\ Writers \subseteq Thread
  BY DEF Thread
<1> USE <1>1, MachineFixed
\* A walk changes registers, its own position and nothing else.
<1>2. ASSUME NEW t \in Thread, ReadReg(t) PROVE TypeOK'
  <2>1. walk[t] \in Walk /\ Cursor(t) \in Reg
    BY <1>2, AdvancePasses DEF ReadReg, OnDevice, InList, Cursor
  <2> QED
    BY <1>2, <2>1 DEF ReadReg, Reg
<1>3. ASSUME NEW t \in Thread, WriteReg(t) PROVE TypeOK'
  <2>1. OnDevice(t) /\ walk[t] \in Walk /\ cfg[t] \in RegValue
    BY <1>3 DEF WriteReg, WalkInv
  <2>2. Cursor(t) \in Reg /\ Advance(walk[t]) \in Walk
    BY <2>1, AdvancePasses DEF OnDevice, InList, Cursor
  <2>3. Updated(walk[t], cfg[t]) \in RegValue
    <3>1. walk[t].call \in CallName \ {"none"}
      BY <2>1 DEF OnDevice, InList, InCall, Walk, CallName
    <3> QED
      BY <2>1, <3>1, UpdatedTypes
  <2> QED
    BY <1>3, <2>2, <2>3 DEF WriteReg, Reg
<1>4. ASSUME NEW t \in Thread, SkipDevice(t) PROVE TypeOK'
  <2>1. walk[t] \in Walk /\ walk[t].imc <= Len(devices)
        /\ devices[walk[t].imc] # walk[t].node
    BY <1>4 DEF SkipDevice, OnDevice, InList
  <2>2. walk[t].dimm = 1
    BY <1>4, <2>1 DEF SkipDevice, WalkInv, Walk
  <2>3. [walk[t] EXCEPT !.imc = @ + 1] \in Walk
    BY <2>1, <2>2, SkipPasses
  <2> QED
    BY <1>4, <2>3 DEF SkipDevice
<1>5. ASSUME NEW t \in Thread, NodeDone(t) PROVE TypeOK'
  <2>1. walk[t] \in Walk /\ walk[t].imc > Len(devices)
    BY <1>5, DeviceFacts DEF NodeDone, InList, Walk
  <2>2. walk[t].dimm = 1
    BY <1>5, <2>1 DEF NodeDone, OnDevice, WalkInv, Walk
  <2>3. AfterNode(walk[t]) \in Walk
    BY <2>1, <2>2, AfterNodeTypes
  <2> QED
    BY <1>5, <2>3 DEF NodeDone
<1>6. CASE ImcInit
  BY <1>6, GotoTypes DEF ImcInit, LoaderPhase
<1>7. CASE ProcCreate
  BY <1>7, GotoTypes DEF ProcCreate, LoaderPhase
<1>8. CASE StartBandwidth
  BY <1>8, GotoTypes, WalkOfTypes DEF StartBandwidth, Call, LoaderPhase, CallName
<1>9. CASE StartThrottle
  BY <1>9, GotoTypes, WalkOfTypes DEF StartThrottle, Call, LoaderPhase, CallName
<1>10. CASE StartDone
  BY <1>10, GotoTypes DEF StartDone, LoaderPhase
<1>11. CASE StartSkipped
  BY <1>11, GotoTypes DEF StartSkipped, LoaderPhase
<1>12. CASE StartUndone
  BY <1>12, GotoTypes, WalkOfTypes DEF StartUndone, Call, LoaderPhase, CallName
<1>13. CASE StartUndoDone
  BY <1>13, GotoTypes DEF StartUndoDone, LoaderPhase
<1>14. CASE FinishBandwidth
  BY <1>14, GotoTypes, WalkOfTypes DEF FinishBandwidth, Call, LoaderPhase, CallName
<1>15. CASE ProcRemove
  BY <1>15, GotoTypes DEF ProcRemove, LoaderPhase
<1>16. CASE ImcExit
  BY <1>16, GotoTypes DEF ImcExit, LoaderPhase
<1>17. ASSUME NEW w \in Writers, NEW k \in Ctl, WriteBegin(w, k) PROVE TypeOK'
  BY <1>17, GotoTypes DEF WriteBegin, WriterPhase
<1>18. ASSUME NEW w \in Writers, WriteLock(w) PROVE TypeOK'
  <2>1. CASE ctl[w] # 5
    <3>1. bw_ratio' \in {1, 2, 4}
      BY <1>18, <2>1 DEF WriteLock
    <3>2. WalkOf("set_threshold", bw_ratio') \in Walk
      BY <3>1, WalkOfTypes DEF CallName
    <3>3. Call(w, "lock", "set", "set_threshold", bw_ratio')
      BY <1>18, <2>1 DEF WriteLock
    <3> QED
      BY <1>18, <3>1, <3>2, <3>3, GotoTypes DEF WriteLock, Call, WriterPhase
  <2>2. CASE ctl[w] = 5
    BY <1>18, <2>2, GotoTypes DEF WriteLock, WriterPhase
  <2> QED
    BY <2>1, <2>2
<1>19. ASSUME NEW w \in Writers, WriteDone(w) PROVE TypeOK'
  BY <1>19, GotoTypes DEF WriteDone, WriterPhase
<1>20. ASSUME NEW w \in Writers, WriteUnlock(w) PROVE TypeOK'
  BY <1>20, GotoTypes DEF WriteUnlock, WriterPhase
<1>21. CASE UNCHANGED vars
  BY <1>21 DEF vars
<1> QED
  BY <1>2, <1>3, <1>4, <1>5, <1>6, <1>7, <1>8, <1>9, <1>10, <1>11, <1>12, <1>13,
     <1>14, <1>15, <1>16, <1>17, <1>18, <1>19, <1>20, <1>21
  DEF Next, WalkStep, LoaderStep, WriterStep

LEMMA PhaseStep ==
  ASSUME TypeOK, PhaseInv, [Next]_vars
  PROVE  PhaseInv'
<1> USE UncoreImcAssumption DEF TypeOK, PhaseInv, Thread, Setting
<1>1. ASSUME NEW t \in Thread, ReadReg(t) PROVE PhaseInv'
  BY <1>1 DEF ReadReg
<1>2. ASSUME NEW t \in Thread, WriteReg(t) PROVE PhaseInv'
  BY <1>2 DEF WriteReg
<1>3. ASSUME NEW t \in Thread, SkipDevice(t) PROVE PhaseInv'
  BY <1>3 DEF SkipDevice
<1>4. ASSUME NEW t \in Thread, NodeDone(t) PROVE PhaseInv'
  BY <1>4 DEF NodeDone
<1>5. CASE ImcInit
  BY <1>5 DEF ImcInit, Goto, Call
<1>6. CASE ProcCreate
  <2>1. CASE Goto(Loader, "create", "prepare") /\ procReg' = TRUE /\ UNCHANGED listed
    BY <1>6, <2>1 DEF ProcCreate, Goto
  <2>2. CASE Goto(Loader, "create", "unloaded") /\ UNCHANGED procReg
    BY <1>6, <2>2 DEF ProcCreate, Goto
  <2> QED
    BY <1>6, <2>1, <2>2 DEF ProcCreate
<1>7. CASE StartBandwidth
  BY <1>7 DEF StartBandwidth, Goto, Call
<1>8. CASE StartThrottle
  BY <1>8 DEF StartThrottle, Goto, Call
<1>9. CASE StartDone
  BY <1>9 DEF StartDone, Goto, Call
<1>10. CASE StartSkipped
  BY <1>10 DEF StartSkipped, Goto, Call
<1>11. CASE StartUndone
  BY <1>11 DEF StartUndone, Goto, Call
<1>12. CASE StartUndoDone
  BY <1>12 DEF StartUndoDone, Goto, Call
<1>13. CASE FinishBandwidth
  BY <1>13 DEF FinishBandwidth, Goto, Call
<1>14. CASE ProcRemove
  BY <1>14 DEF ProcRemove, Goto, Call
<1>15. CASE ImcExit
  BY <1>15 DEF ImcExit, Goto, Call
<1>16. ASSUME NEW w \in Writers, NEW k \in Ctl, WriteBegin(w, k) PROVE PhaseInv'
  BY <1>16 DEF WriteBegin, Goto, Call
<1>17. ASSUME NEW w \in Writers, WriteLock(w) PROVE PhaseInv'
  BY <1>17 DEF WriteLock, Goto, Call
<1>18. ASSUME NEW w \in Writers, WriteDone(w) PROVE PhaseInv'
  BY <1>18 DEF WriteDone, Goto, Call
<1>19. ASSUME NEW w \in Writers, WriteUnlock(w) PROVE PhaseInv'
  BY <1>19 DEF WriteUnlock, Goto, Call
<1>20. CASE UNCHANGED vars
  BY <1>20 DEF vars
<1> QED
  BY <1>1, <1>2, <1>3, <1>4, <1>5, <1>6, <1>7, <1>8, <1>9, <1>10, <1>11, <1>12,
     <1>13, <1>14, <1>15, <1>16, <1>17, <1>18, <1>19, <1>20
  DEF Next, WalkStep, LoaderStep, WriterStep

\* A walk that has come to the end of the list.
LEMMA AfterNodeFacts ==
  ASSUME devices \in Machines, NEW w \in Walk, w.call # "none", w.imc > Len(devices),
         w.dimm = 1, w.node <= LastNode(w.call)
  PROVE  \/ /\ ~Breaks(w)
            /\ AfterNode(w) = [w EXCEPT !.node = @ + 1, !.imc = 1]
            /\ AfterNode(w).call = w.call /\ AfterNode(w).threshold = w.threshold
            /\ AfterNode(w).node = w.node + 1 /\ w.node + 1 <= LastNode(w.call)
            /\ AfterNode(w).dimm = 1
         \/ /\ Breaks(w) /\ w.call = "enable_throttle_all"
            /\ AfterNode(w) = WalkOf("disable_throttle_all", 1)
         \/ /\ (Breaks(w) /\ w.call = "set_threshold_all") \/ w.node = LastNode(w.call)
            /\ ~(Breaks(w) /\ w.call = "enable_throttle_all")
            /\ AfterNode(w) = NoWalk
<1> USE UncoreImcAssumption
<1>1. w.node \in Nat /\ LastNode(w.call) \in Nat
  BY DEF Walk, LastNode, CallName
<1>2. CASE Breaks(w) /\ w.call = "enable_throttle_all"
  BY <1>2 DEF AfterNode
<1>3. CASE ~Breaks(w) /\ w.node < LastNode(w.call)
  <2>1. AfterNode(w) = [w EXCEPT !.node = @ + 1, !.imc = 1]
    BY <1>3 DEF AfterNode
  <2>2. /\ AfterNode(w).call = w.call /\ AfterNode(w).threshold = w.threshold
        /\ AfterNode(w).node = w.node + 1 /\ AfterNode(w).dimm = 1
    BY <2>1 DEF Walk, CallName
  <2> QED
    BY <1>1, <1>3, <2>1, <2>2
<1>4. CASE /\ ~(Breaks(w) /\ w.call = "enable_throttle_all")
           /\ ~(~Breaks(w) /\ w.node < LastNode(w.call))
  <2>1. AfterNode(w) = NoWalk
    BY <1>4 DEF AfterNode
  <2> QED
    BY <1>1, <1>4, <2>1 DEF Breaks
<1> QED
  BY <1>2, <1>3, <1>4
LEMMA AdvanceFacts ==
  ASSUME NEW w \in Walk
  PROVE  /\ Advance(w).call = w.call /\ Advance(w).node = w.node
         /\ Advance(w).threshold = w.threshold
         /\ Advance(w).dimm > 1 => Advance(w).imc = w.imc
<1>1. CASE w.dimm < NDimm
  <2>1. Advance(w) = [w EXCEPT !.dimm = w.dimm + 1]
    BY <1>1 DEF Advance
  <2> QED
    BY <2>1 DEF Walk, CallName
<1>2. CASE ~(w.dimm < NDimm)
  <2>1. Advance(w) = [w EXCEPT !.imc = w.imc + 1, !.dimm = 1]
    BY <1>2 DEF Advance
  <2> QED
    BY <2>1 DEF Walk, CallName
<1> QED
  BY <1>1, <1>2

LEMMA WalkInvStep ==
  ASSUME TypeOK, PhaseInv, WalkInv, [Next]_vars
  PROVE  WalkInv'
<1> USE UncoreImcAssumption, MachineFixed
        DEF TypeOK, PhaseInv, WalkInv, Thread, InCall, InList, OnDevice, Enabling
<1>1. ASSUME NEW t \in Thread, ReadReg(t) PROVE WalkInv'
  BY <1>1 DEF ReadReg
<1>2. ASSUME NEW t \in Thread, WriteReg(t) PROVE WalkInv'
  <2>1. walk[t] \in Walk /\ walk' = [walk EXCEPT ![t] = Advance(walk[t])]
    BY <1>2 DEF WriteReg
  <2>2. OnDevice(t)
    BY <1>2 DEF WriteReg
  <2>3. /\ walk'[t].call = walk[t].call /\ walk'[t].node = walk[t].node
        /\ walk'[t].threshold = walk[t].threshold
        /\ walk'[t].dimm > 1 => walk'[t].imc = walk[t].imc
    BY <2>1, AdvanceFacts
  <2>4. \A u \in Thread \ {t} : walk'[u] = walk[u] /\ cfg'[u] = cfg[u]
    BY <1>2, <2>1 DEF WriteReg
  <2>5. cfg'[t] = NoCfg /\ UNCHANGED <<pc, bw_ratio>>
    BY <1>2 DEF WriteReg
  <2> QED
    BY <2>2, <2>3, <2>4, <2>5
<1>3. ASSUME NEW t \in Thread, SkipDevice(t) PROVE WalkInv'
  <2>1. walk[t] \in Walk /\ ~OnDevice(t) /\ cfg[t] = NoCfg
    BY <1>3 DEF SkipDevice
  <2>2. walk[t].dimm = 1
    BY <2>1 DEF Walk
  <2>3. /\ walk'[t].call = walk[t].call /\ walk'[t].node = walk[t].node
        /\ walk'[t].threshold = walk[t].threshold /\ walk'[t].dimm = 1
    BY <1>3, <2>1, <2>2 DEF SkipDevice, Walk, CallName
  <2>4. \A u \in Thread \ {t} : walk'[u] = walk[u]
    BY <1>3 DEF SkipDevice
  <2>5. UNCHANGED <<pc, bw_ratio, cfg>>
    BY <1>3 DEF SkipDevice
  <2> QED
    BY <2>1, <2>3, <2>4, <2>5
<1>4. ASSUME NEW t \in Thread, NodeDone(t) PROVE WalkInv'
  <2>1. walk[t] \in Walk /\ ~OnDevice(t) /\ cfg[t] = NoCfg /\ walk[t].imc > Len(devices)
    BY <1>4, DeviceFacts DEF NodeDone, Walk
  <2>2. walk[t].dimm = 1 /\ walk[t].call # "none"
    BY <1>4, <2>1 DEF NodeDone, Walk
  <2>3. \/ /\ AfterNode(walk[t]).call = walk[t].call
           /\ AfterNode(walk[t]).threshold = walk[t].threshold
           /\ AfterNode(walk[t]).node <= LastNode(walk[t].call)
           /\ AfterNode(walk[t]).dimm = 1
        \/ /\ walk[t].call = "enable_throttle_all"
           /\ AfterNode(walk[t]) = WalkOf("disable_throttle_all", 1)
        \/ AfterNode(walk[t]) = NoWalk
    BY <2>1, <2>2, AfterNodeFacts
  <2>4. \A u \in Thread \ {t} : walk'[u] = walk[u]
    BY <1>4 DEF NodeDone
  <2>5. UNCHANGED <<pc, bw_ratio, cfg>> /\ walk'[t] = AfterNode(walk[t])
    BY <1>4 DEF NodeDone
  <2>6. CASE /\ AfterNode(walk[t]).call = walk[t].call
             /\ AfterNode(walk[t]).threshold = walk[t].threshold
             /\ AfterNode(walk[t]).node <= LastNode(walk[t].call)
             /\ AfterNode(walk[t]).dimm = 1
    BY <2>1, <2>4, <2>5, <2>6
  <2>7. CASE /\ walk[t].call = "enable_throttle_all"
             /\ AfterNode(walk[t]) = WalkOf("disable_throttle_all", 1)
    <3>1. t = Loader /\ pc[Loader] = "enable"
      BY <2>7
    <3> QED
      BY <2>1, <2>4, <2>5, <2>7, <3>1 DEF WalkOf, LastNode
  <2>8. CASE AfterNode(walk[t]) = NoWalk
    <3>1. walk'[t].call = "none" /\ walk'[t].threshold = 1 /\ walk'[t].dimm = 1
      BY <2>5, <2>8 DEF WalkOf, NoWalk
    <3>2. UNCHANGED <<pc, bw_ratio, cfg, devices>> /\ cfg'[t] = NoCfg
      BY <2>1, <2>5
    <3>3. \A u \in Thread : u = t \/ walk'[u] = walk[u]
      BY <2>4
    <3>4. \A w \in Writers :
             /\ walk'[w].call \in IF pc'[w] = "set" THEN {"none", "set_threshold"}
                                                    ELSE {"none"}
             /\ InCall(w)' => walk'[w].threshold = bw_ratio'
      BY <3>1, <3>2, <3>3
    <3>5. \A u \in Thread :
             /\ cfg'[u] # NoCfg => OnDevice(u)'
             /\ walk'[u].dimm > 1 => OnDevice(u)'
             /\ InCall(u)' => walk'[u].node <= LastNode(walk'[u].call)
      BY <3>1, <3>2, <3>3
    <3>6. /\ walk'[Loader].call \in {"none", walk[Loader].call}
          /\ walk'[Loader].threshold = 1
      BY <3>1, <3>3
    <3>7. walk'[Loader].call \in CASE pc[Loader] = "set" -> {"none", "set_threshold_all"}
                                   [] pc[Loader] = "enable" -> {"none"} \cup Enabling
                                   [] pc[Loader] \in {"undo", "disable"} ->
                                          {"none", "disable_throttle_all"}
                                   [] OTHER -> {"none"}
      BY <3>6
    <3>8. pc'[Loader] = pc[Loader]
      BY <3>2
    <3> QED
      BY <3>4, <3>5, <3>6, <3>7, <3>8
  <2> QED
    BY <2>3, <2>6, <2>7, <2>8
<1>5. CASE ImcInit
  <2>1. \A w \in Writers : pc[w] = "idle" /\ walk[w].call = "none"
    BY <1>5 DEF ImcInit, Goto, Setting
  <2> QED
    BY <1>5, <2>1 DEF ImcInit, Goto
<1>6. CASE ProcCreate
  BY <1>6 DEF ProcCreate, Goto, Call, WalkOf, LastNode
<1>7. CASE StartBandwidth
  BY <1>7 DEF StartBandwidth, Goto, Call, WalkOf, LastNode
<1>8. CASE StartThrottle
  BY <1>8 DEF StartThrottle, Goto, Call, WalkOf, LastNode
<1>9. CASE StartDone
  BY <1>9 DEF StartDone, Goto, Call, WalkOf, LastNode
<1>10. CASE StartSkipped
  BY <1>10 DEF StartSkipped, Goto, Call, WalkOf, LastNode
<1>11. CASE StartUndone
  BY <1>11 DEF StartUndone, Goto, Call, WalkOf, LastNode
<1>12. CASE StartUndoDone
  BY <1>12 DEF StartUndoDone, Goto, Call, WalkOf, LastNode
<1>13. CASE FinishBandwidth
  <2>1. /\ walk[Loader].call = "none" /\ pc' = [pc EXCEPT ![Loader] = "disable"]
        /\ \/ walk' = [walk EXCEPT ![Loader] = WalkOf("disable_throttle_all", 1)]
           \/ walk' = walk
        /\ UNCHANGED <<bw_ratio, cfg, devices>>
    BY <1>13 DEF FinishBandwidth, Goto, Call
  <2> QED
    BY <2>1 DEF WalkOf, LastNode
<1>14. CASE ProcRemove
  BY <1>14 DEF ProcRemove, Goto, Call, WalkOf, LastNode
<1>15. CASE ImcExit
  BY <1>15 DEF ImcExit, Goto, Call, WalkOf, LastNode
<1>16. ASSUME NEW w \in Writers, NEW k \in Ctl, WriteBegin(w, k) PROVE WalkInv'
  BY <1>16 DEF WriteBegin, Goto, Call, WalkOf, LastNode
<1>17. ASSUME NEW w \in Writers, WriteLock(w) PROVE WalkInv'
  <2>1. CASE Call(w, "lock", "set", "set_threshold", bw_ratio')
    <3>1. \A v \in Writers : pc[v] # "set" /\ walk[v].call = "none"
      BY <1>17 DEF WriteLock
    <3> QED
      BY <1>17, <2>1, <3>1 DEF WriteLock, Goto, Call, WalkOf, LastNode
  <2>2. CASE Goto(w, "lock", "unlock") /\ UNCHANGED <<bw_ratio, walk>>
    BY <1>17, <2>2 DEF WriteLock, Goto
  <2> QED
    BY <1>17, <2>1, <2>2 DEF WriteLock
<1>18. ASSUME NEW w \in Writers, WriteDone(w) PROVE WalkInv'
  BY <1>18 DEF WriteDone, Goto, Call, WalkOf, LastNode
<1>19. ASSUME NEW w \in Writers, WriteUnlock(w) PROVE WalkInv'
  BY <1>19 DEF WriteUnlock, Goto, Call, WalkOf, LastNode
<1>20. CASE UNCHANGED vars
  BY <1>20 DEF vars
<1> QED
  BY <1>1, <1>2, <1>3, <1>4, <1>5, <1>6, <1>7, <1>8, <1>9, <1>10, <1>11, <1>12,
     <1>13, <1>14, <1>15, <1>16, <1>17, <1>18, <1>19, <1>20
  DEF Next, WalkStep, LoaderStep, WriterStep
-----------------------------------------------------------------------------
(* The registers, where no write begins before insmod has returned.        *)

\* While the emulation is being started or runs, one thread at a time is in a call.
LEMMA Alone ==
  ASSUME ~EarlyWrites, IInv, Up, NEW t \in Thread, InCall(t)
  PROVE  /\ \A u \in Thread \ {t} : ~InCall(u) /\ cfg[u] = NoCfg
         /\ pc[Loader] # "live" => t = Loader
         /\ pc[Loader] = "live" => t \in Writers
<1> USE UncoreImcAssumption
    DEF IInv, TypeOK, PhaseInv, WalkInv, InCall, Thread, Up, Setting
<1>1. CASE t = Loader
  <2>1. pc[Loader] \in {"set", "enable", "undo"}
    BY <1>1
  <2>2. \A w \in Writers : pc[w] = "idle"
    BY <2>1
  <2> QED
    BY <1>1, <2>1, <2>2 DEF OnDevice, InList
<1>2. CASE t \in Writers
  <2>1. pc[t] = "set" /\ mutex = t /\ pc[Loader] = "live"
    BY <1>2
  <2>2. \A w \in Writers \ {t} : pc[w] # "set"
    BY <2>1
  <2> QED
    BY <1>2, <2>1, <2>2 DEF OnDevice, InList
<1> QED
  BY <1>1, <1>2

LEMMA CfgStep ==
  ASSUME ~EarlyWrites, IInv, CfgInv, [Next]_vars
  PROVE  CfgInv'
<1> USE UncoreImcAssumption
    DEF IInv, TypeOK, PhaseInv, CfgInv, Thread, Up, Setting, Cursor
<1>1. \A t \in Thread : ~OnDevice(t) => cfg[t] = NoCfg
  BY DEF WalkInv
<1>2. ASSUME NEW t \in Thread, ReadReg(t) PROVE CfgInv'
  BY <1>2 DEF ReadReg
<1>3. ASSUME NEW t \in Thread, WriteReg(t) PROVE CfgInv'
  <2>1. InCall(t) /\ Up' = Up
    BY <1>3 DEF WriteReg, WalkInv, OnDevice, InList
  <2>2. Up => \A u \in Thread \ {t} : cfg[u] = NoCfg
    BY <2>1, Alone DEF IInv
  <2> QED
    BY <1>3, <2>1, <2>2 DEF WriteReg
<1>4. ASSUME NEW t \in Thread, SkipDevice(t) PROVE CfgInv'
  BY <1>1, <1>4 DEF SkipDevice
<1>5. ASSUME NEW t \in Thread, NodeDone(t) PROVE CfgInv'
  BY <1>1, <1>5 DEF NodeDone, OnDevice
<1>6. CASE ImcInit
  BY <1>1, <1>6 DEF ImcInit, Goto, Call, OnDevice, InList
<1>7. CASE ProcCreate
  <2>1. \A t \in Thread : ~InCall(t)
    BY <1>7 DEF ProcCreate, Goto, WalkInv, InCall
  <2> QED
    BY <1>1, <1>7, <2>1 DEF ProcCreate, OnDevice, InList
<1>8. CASE StartBandwidth
  BY <1>1, <1>8 DEF StartBandwidth, Goto, Call, OnDevice, InList
<1>9. CASE StartThrottle
  BY <1>1, <1>9 DEF StartThrottle, Goto, Call, OnDevice, InList
<1>10. CASE StartDone
  BY <1>1, <1>10 DEF StartDone, Goto, Call, OnDevice, InList
<1>11. CASE StartSkipped
  BY <1>1, <1>11 DEF StartSkipped, Goto, Call, OnDevice, InList
<1>12. CASE StartUndone
  BY <1>1, <1>12 DEF StartUndone, Goto, Call, OnDevice, InList
<1>13. CASE StartUndoDone
  BY <1>1, <1>13 DEF StartUndoDone, Goto, Call, OnDevice, InList
<1>14. CASE FinishBandwidth
  BY <1>1, <1>14 DEF FinishBandwidth, Goto, Call, OnDevice, InList
<1>15. CASE ProcRemove
  BY <1>1, <1>15 DEF ProcRemove, Goto, Call, OnDevice, InList
<1>16. CASE ImcExit
  BY <1>1, <1>16 DEF ImcExit, Goto, Call, OnDevice, InList
<1>17. ASSUME NEW w \in Writers, NEW k \in Ctl, WriteBegin(w, k) PROVE CfgInv'
  BY <1>1, <1>17 DEF WriteBegin, Goto, Call, OnDevice, InList
<1>18. ASSUME NEW w \in Writers, WriteLock(w) PROVE CfgInv'
  BY <1>1, <1>18 DEF WriteLock, Goto, Call, OnDevice, InList
<1>19. ASSUME NEW w \in Writers, WriteDone(w) PROVE CfgInv'
  BY <1>1, <1>19 DEF WriteDone, Goto, Call, OnDevice, InList
<1>20. ASSUME NEW w \in Writers, WriteUnlock(w) PROVE CfgInv'
  BY <1>1, <1>20 DEF WriteUnlock, Goto, Call, OnDevice, InList
<1>21. CASE UNCHANGED vars
  BY <1>21 DEF vars
<1> QED
  BY <1>2, <1>3, <1>4, <1>5, <1>6, <1>7, <1>8, <1>9, <1>10, <1>11, <1>12, <1>13,
     <1>14, <1>15, <1>16, <1>17, <1>18, <1>19, <1>20, <1>21
  DEF Next, WalkStep, LoaderStep, WriterStep
\* What holds of devices holds after a step.
LEMMA SameMachine ==
  ASSUME [Next]_vars
  PROVE  /\ Complete' = Complete
         /\ \A n : Fails(n)' = Fails(n)
         /\ \A r : NodeOfReg(r)' = NodeOfReg(r)
BY MachineFixed DEF Complete, Fails, NodeOfReg

\* What a write does to the registers and to what its walk has passed.
LEMMA WriteFacts ==
  ASSUME IInv, [Next]_vars, NEW t \in Thread, WriteReg(t)
  PROVE  /\ walk[t] \in Walk /\ InCall(t) /\ cfg[t] \in RegValue
         /\ Cursor(t) \in Reg /\ NodeOfReg(Cursor(t)) = walk[t].node
         /\ reg'[Cursor(t)] = Updated(walk[t], cfg[t])
         /\ \A r \in Reg : r # Cursor(t) => reg'[r] = reg[r]
         /\ \A r \in Reg : Passed(devices, walk'[t], r)
                             <=> Passed(devices, walk[t], r) \/ r = Cursor(t)
         /\ walk'[t].call = walk[t].call /\ walk'[t].node = walk[t].node
         /\ \A u \in Thread \ {t} : walk'[u] = walk[u]
         /\ UNCHANGED <<pc, bw_ratio, started>>
<1> USE DEF IInv, TypeOK
<1>1. OnDevice(t) /\ InCall(t) /\ walk[t] \in Walk /\ cfg[t] \in RegValue
  BY DEF WriteReg, WalkInv, OnDevice, InList
<1>2. /\ Cursor(t) \in Reg /\ NodeOfReg(Cursor(t)) = walk[t].node
      /\ \A r \in Reg : Passed(devices, Advance(walk[t]), r)
                          <=> Passed(devices, walk[t], r) \/ r = Cursor(t)
  BY <1>1, AdvancePasses DEF OnDevice, InList, Cursor
<1>3. /\ walk'[t] = Advance(walk[t])
      /\ \A u \in Thread \ {t} : walk'[u] = walk[u]
      /\ UNCHANGED <<pc, bw_ratio, started>>
  BY DEF WriteReg
<1>4. /\ reg'[Cursor(t)] = Updated(walk[t], cfg[t])
      /\ \A r \in Reg : r # Cursor(t) => reg'[r] = reg[r]
  BY <1>2 DEF WriteReg
<1> QED
  BY <1>1, <1>2, <1>3, <1>4, AdvanceFacts

LEMMA SkipFacts ==
  ASSUME IInv, [Next]_vars, NEW t \in Thread, SkipDevice(t)
  PROVE  /\ \A r \in Reg : Passed(devices, walk'[t], r) <=> Passed(devices, walk[t], r)
         /\ walk'[t].call = walk[t].call /\ walk'[t].node = walk[t].node
         /\ \A u \in Thread \ {t} : walk'[u] = walk[u]
         /\ UNCHANGED <<pc, bw_ratio, started, reg>>
<1> USE DEF IInv, TypeOK
<1>1. walk[t] \in Walk /\ walk[t].imc <= Len(devices)
      /\ devices[walk[t].imc] # walk[t].node
  BY DEF SkipDevice, OnDevice, InList
<1>2. walk[t].dimm = 1
  BY <1>1 DEF SkipDevice, WalkInv, Walk
<1>3. walk'[t] = [walk[t] EXCEPT !.imc = @ + 1]
  BY DEF SkipDevice
<1>4. \A r \in Reg : Passed(devices, walk'[t], r) <=> Passed(devices, walk[t], r)
  BY <1>1, <1>2, <1>3, SkipPasses
<1>5. walk'[t].call = walk[t].call /\ walk'[t].node = walk[t].node
  BY <1>1, <1>3 DEF Walk, CallName
<1> QED
  BY <1>4, <1>5 DEF SkipDevice

\* What the end of a node does: the loop goes on, is undone, or ends.
LEMMA NodeFacts ==
  ASSUME IInv, [Next]_vars, NEW t \in Thread, NodeDone(t)
  PROVE  /\ walk[t] \in Walk /\ InCall(t) /\ walk[t].node <= LastNode(walk[t].call)
         /\ \A r \in Reg : Passed(devices, walk[t], r) <=> NodeOfReg(r) <= walk[t].node
         /\ \/ /\ ~Breaks(walk[t])
               /\ walk'[t].call = walk[t].call /\ walk'[t].node = walk[t].node + 1
               /\ \A r \in Reg : Passed(devices, walk'[t], r)
                                   <=> Passed(devices, walk[t], r)
            \/ /\ Breaks(walk[t]) /\ walk[t].call = "enable_throttle_all"
               /\ walk'[t].call = "disable_throttle_all"
               /\ \A r \in Reg : ~Passed(devices, walk'[t], r)
            \/ /\ \/ Breaks(walk[t]) /\ walk[t].call = "set_threshold_all"
                  \/ walk[t].node = LastNode(walk[t].call)
               /\ ~(Breaks(walk[t]) /\ walk[t].call = "enable_throttle_all")
               /\ walk'[t].call = "none"
         /\ \A u \in Thread \ {t} : walk'[u] = walk[u]
         /\ UNCHANGED <<pc, bw_ratio, started, reg>>
<1> USE DEF IInv, TypeOK
<1>1. /\ walk[t] \in Walk /\ walk[t].imc > Len(devices) /\ InCall(t)
      /\ walk[t].node <= LastNode(walk[t].call)
  BY DeviceFacts DEF NodeDone, InList, Walk, WalkInv
<1>2. walk[t].dimm = 1 /\ walk[t].call # "none"
  BY <1>1 DEF NodeDone, WalkInv, Walk, OnDevice, InCall
<1>3. /\ walk'[t] = AfterNode(walk[t]) /\ \A u \in Thread \ {t} : walk'[u] = walk[u]
      /\ UNCHANGED <<pc, bw_ratio, started, reg>>
  BY DEF NodeDone
<1>4. \A r \in Reg : /\ Passed(devices, walk[t], r) <=> NodeOfReg(r) <= walk[t].node
                     /\ Passed(devices, [walk[t] EXCEPT !.node = @ + 1, !.imc = 1], r)
                            <=> Passed(devices, walk[t], r)
  BY <1>1, <1>2, NextNodePasses
<1>5. CASE /\ ~Breaks(walk[t])
           /\ AfterNode(walk[t]) = [walk[t] EXCEPT !.node = @ + 1, !.imc = 1]
           /\ AfterNode(walk[t]).call = walk[t].call
           /\ AfterNode(walk[t]).node = walk[t].node + 1
  <2>1. walk'[t] = [walk[t] EXCEPT !.node = @ + 1, !.imc = 1]
    BY <1>3, <1>5
  <2>2. \A r \in Reg : Passed(devices, walk'[t], r) <=> Passed(devices, walk[t], r)
    BY <1>4, <2>1
  <2> QED
    BY <1>1, <1>3, <1>4, <1>5, <2>2
<1>6. CASE /\ Breaks(walk[t]) /\ walk[t].call = "enable_throttle_all"
           /\ AfterNode(walk[t]) = WalkOf("disable_throttle_all", 1)
  <2>1. walk'[t].call = "disable_throttle_all"
    BY <1>3, <1>6 DEF WalkOf
  <2>2. \A r \in Reg : ~Passed(devices, walk'[t], r)
    BY <1>3, <1>6, StartPasses
  <2> QED
    BY <1>1, <1>3, <1>4, <1>6, <2>1, <2>2
<1>7. CASE /\ \/ Breaks(walk[t]) /\ walk[t].call = "set_threshold_all"
              \/ walk[t].node = LastNode(walk[t].call)
           /\ ~(Breaks(walk[t]) /\ walk[t].call = "enable_throttle_all")
           /\ AfterNode(walk[t]) = NoWalk
  <2>1. walk'[t].call = "none"
    BY <1>3, <1>7 DEF NoWalk, WalkOf
  <2> QED
    BY <1>1, <1>3, <1>4, <1>7, <2>1
<1> QED
  BY <1>1, <1>2, <1>5, <1>6, <1>7, AfterNodeFacts

LEMMA ThresholdStep ==
  ASSUME ~EarlyWrites, IInv, CfgInv, ThresholdInv, [Next]_vars
  PROVE  ThresholdInv'
<1> USE UncoreImcAssumption, MachineFixed, SameMachine DEF ThresholdInv, Thread, Setting
<1> /\ pc \in [Thread -> LoaderPhase \cup WriterPhase] /\ devices \in Machines
    /\ walk \in [Thread -> Walk] /\ reg \in [Reg -> RegValue]
  BY DEF IInv, TypeOK
<1>1. \A w \in Writers : pc[w] # "idle" => pc[Loader] \in {"live", "disable", "wait"}
  BY DEF IInv, PhaseInv
\* An action that leaves all that alone.
<1>2. ASSUME walk'[Loader] = walk[Loader], pc'[Loader] = pc[Loader],
             reg' = reg, bw_ratio' = bw_ratio
      PROVE  ThresholdInv'
  BY <1>2
<1>3. ASSUME NEW t \in Thread, ReadReg(t) PROVE ThresholdInv'
  BY <1>2, <1>3 DEF ReadReg
<1>4. ASSUME NEW t \in Thread, WriteReg(t) PROVE ThresholdInv'
  <2>1. UNCHANGED <<pc, bw_ratio>>
    BY <1>4 DEF WriteReg
  <2>2. ASSUME Complete, pc[Loader] \in {"set", "enable"}, NEW r \in Reg
        PROVE  \/ /\ walk'[Loader].call = "set_threshold_all"
                  /\ ~Passed(devices, walk'[Loader], r)
               \/ reg'[r].thr = 4095
    <3>1. t = Loader /\ cfg[t] = reg[Cursor(t)]
      <4>1. InCall(t)
        BY <1>4, WriteFacts
      <4>2. cfg[t] # NoCfg
        BY <1>4 DEF WriteReg
      <4>3. Up
        BY <2>2 DEF Up
      <4>4. t = Loader
        <5>1. pc[Loader] # "live"
          BY <2>2
        <5>2. t \in Thread
          BY DEF Thread
        <5> QED
          BY <5>1, <5>2, <4>1, <4>3, Alone
      <4> QED
        BY <4>2, <4>3, <4>4 DEF CfgInv
    <3>2. CASE r # Cursor(t)
      BY <1>4, <2>2, <3>1, <3>2, WriteFacts
    <3>3. CASE r = Cursor(t) /\ walk[t].call = "set_threshold_all"
      <4>1. Code(walk[t].threshold) = 4095
        BY <3>1 DEF IInv, WalkInv, Code
      <4>2. reg'[r] = Updated(walk[t], cfg[t]) /\ cfg[t] \in RegValue
        BY <1>4, <3>3, WriteFacts
      <4> QED
        BY <3>3, <4>1, <4>2, UpdatedSet
    <3>4. CASE r = Cursor(t) /\ walk[t].call \in Enabling
      BY <1>4, <2>2, <3>1, <3>4, WriteFacts, UpdatedEnable DEF Enabling
    <3>5. walk[t].call \in {"set_threshold_all"} \cup Enabling
      BY <1>4, <2>2, <3>1, WriteFacts DEF IInv, WalkInv, InCall
    <3> QED
      BY <3>2, <3>3, <3>4, <3>5
  <2> QED
    BY <2>1, <2>2
<1>5. ASSUME NEW t \in Thread, SkipDevice(t) PROVE ThresholdInv'
  <2>1. /\ walk'[Loader].call = walk[Loader].call /\ UNCHANGED <<pc, bw_ratio, reg>>
        /\ \A r \in Reg : Passed(devices, walk'[Loader], r)
                            <=> Passed(devices, walk[Loader], r)
    <3>1. CASE t = Loader
      BY <1>5, <3>1, SkipFacts
    <3>2. CASE t # Loader
      BY <1>5, <3>2, SkipFacts
    <3> QED
      BY <3>1, <3>2
  <2> QED
    BY <2>1
<1>6. ASSUME NEW t \in Thread, NodeDone(t) PROVE ThresholdInv'
  <2>1. UNCHANGED <<pc, bw_ratio, reg>>
    BY <1>6 DEF NodeDone
  <2>2. ASSUME Complete, pc[Loader] \in {"set", "enable"}, NEW r \in Reg,
               walk[Loader].call = "set_threshold_all", ~Passed(devices, walk[Loader], r)
        PROVE  walk'[Loader].call = "set_threshold_all"
               /\ ~Passed(devices, walk'[Loader], r)
    <3>1. CASE t # Loader
      BY <1>6, <2>2, <3>1, NodeFacts
    <3>2. CASE t = Loader
      <4>1. ~Breaks(walk[t]) /\ walk[t].node # LastNode(walk[t].call)
        BY <1>6, <2>2, <3>2, NodeFacts, RegFacts
        DEF Breaks, Complete, Node, LastNode, Walk
      <4> QED
        BY <1>6, <2>2, <3>2, <4>1, NodeFacts
    <3> QED
      BY <3>1, <3>2
  <2> QED
    BY <2>1, <2>2
<1>7. CASE ImcInit
  BY <1>7 DEF ImcInit, Goto, Call
<1>8. CASE ProcCreate
  BY <1>8 DEF ProcCreate, Goto, Call
<1>9. CASE StartBandwidth
  <2>1. walk'[Loader] = WalkOf("set_threshold_all", 1)
    BY <1>9 DEF StartBandwidth, Call
  <2>2. \A r \in Reg : ~Passed(devices, walk'[Loader], r)
    BY <2>1, StartPasses
  <2> QED
    BY <1>9, <2>1, <2>2 DEF StartBandwidth, Goto, Call, Setting, WalkOf
<1>10. CASE StartThrottle
  <2>1. walk[Loader].call = "none" /\ pc[Loader] = "set" /\ UNCHANGED <<reg, bw_ratio>>
    BY <1>10 DEF StartThrottle, Goto, Call, InCall
  <2> QED
    BY <2>1 DEF Setting
<1>11. CASE StartDone
  BY <1>11 DEF StartDone, Goto, Call
<1>12. CASE StartSkipped
  BY <1>12 DEF StartSkipped, Goto, Call
<1>13. CASE StartUndone
  BY <1>13 DEF StartUndone, Goto, Call
<1>14. CASE StartUndoDone
  BY <1>14 DEF StartUndoDone, Goto, Call
<1>15. CASE FinishBandwidth
  BY <1>15 DEF FinishBandwidth, Goto, Call
<1>16. CASE ProcRemove
  BY <1>16 DEF ProcRemove, Goto, Call
<1>17. CASE ImcExit
  BY <1>17 DEF ImcExit, Goto, Call
<1>18. ASSUME NEW w \in Writers, NEW k \in Ctl, WriteBegin(w, k) PROVE ThresholdInv'
  BY <1>2, <1>18 DEF WriteBegin, Goto, Call
<1>19. ASSUME NEW w \in Writers, WriteLock(w) PROVE ThresholdInv'
  BY <1>1, <1>19 DEF WriteLock, Goto, Call
<1>20. ASSUME NEW w \in Writers, WriteDone(w) PROVE ThresholdInv'
  BY <1>2, <1>20 DEF WriteDone, Goto, Call
<1>21. ASSUME NEW w \in Writers, WriteUnlock(w) PROVE ThresholdInv'
  BY <1>2, <1>21 DEF WriteUnlock, Goto, Call
<1>22. CASE UNCHANGED vars
  BY <1>2, <1>22 DEF vars
<1> QED
  BY <1>3, <1>4, <1>5, <1>6, <1>7, <1>8, <1>9, <1>10, <1>11, <1>12, <1>13, <1>14,
     <1>15, <1>16, <1>17, <1>18, <1>19, <1>20, <1>21, <1>22
  DEF Next, WalkStep, LoaderStep, WriterStep

LEMMA EnableStep ==
  ASSUME ~EarlyWrites, IInv, CfgInv, EnableInv, [Next]_vars
  PROVE  EnableInv'
<1> USE UncoreImcAssumption, MachineFixed, SameMachine DEF EnableInv, Thread, Setting
<1> /\ pc \in [Thread -> LoaderPhase \cup WriterPhase] /\ devices \in Machines
    /\ walk \in [Thread -> Walk] /\ reg \in [Reg -> RegValue]
  BY DEF IInv, TypeOK
<1>1. \A w \in Writers : pc[w] # "idle" => pc[Loader] \in {"live", "disable", "wait"}
  BY DEF IInv, PhaseInv
\* An action that leaves all that alone, or is not of this phase.
<1>2. ASSUME \/ walk'[Loader] = walk[Loader] /\ pc'[Loader] = pc[Loader] /\ reg' = reg
             \/ pc'[Loader] # "enable"
      PROVE  EnableInv'
  BY <1>2
<1>3. ASSUME NEW t \in Thread, ReadReg(t) PROVE EnableInv'
  BY <1>2, <1>3 DEF ReadReg
<1>4. ASSUME NEW t \in Thread, WriteReg(t) PROVE EnableInv'
  <2>1. UNCHANGED pc
    BY <1>4 DEF WriteReg
  <2> SUFFICES ASSUME pc[Loader] = "enable" PROVE EnableInv'
    BY <1>2, <2>1
  <2>2. t = Loader /\ cfg[t] = reg[Cursor(t)]
    <3>1. InCall(t) /\ Up /\ t \in Thread
      BY <1>4, WriteFacts DEF Up
    <3>2. t = Loader
      BY <3>1, Alone
    <3>3. cfg[t] # NoCfg
      BY <1>4 DEF WriteReg
    <3> QED
      BY <3>1, <3>2, <3>3 DEF CfgInv
  <2>3. walk[t].call \in Enabling
    BY <1>4, <2>2, WriteFacts DEF IInv, WalkInv, InCall
  <2>4. reg'[Cursor(t)].en <=> walk[t].call = "enable_throttle_all"
    <3>1. reg'[Cursor(t)] = Updated(walk[t], cfg[t]) /\ cfg[t] \in RegValue
      BY <1>4, WriteFacts
    <3>2. Updated(walk[t], cfg[t]).en <=> walk[t].call = "enable_throttle_all"
      BY <2>3, <3>1, UpdatedEnable
    <3> QED
      BY <3>1, <3>2
  <2>5. /\ walk'[Loader].call = walk[Loader].call
        /\ walk'[Loader].node = walk[Loader].node
        /\ \A r \in Reg : r # Cursor(t) => reg'[r] = reg[r]
        /\ \A r \in Reg : Passed(devices, walk'[Loader], r) <=>
                              Passed(devices, walk[Loader], r) \/ r = Cursor(t)
    BY <1>4, <2>2, WriteFacts
  <2>6. CASE walk[Loader].call = "enable_throttle_all"
    BY <2>1, <2>2, <2>4, <2>5, <2>6
  <2>7. CASE walk[Loader].call = "disable_throttle_all"
    BY <2>1, <2>2, <2>4, <2>5, <2>7
  <2> QED
    BY <2>2, <2>3, <2>6, <2>7 DEF Enabling
<1>5. ASSUME NEW t \in Thread, SkipDevice(t) PROVE EnableInv'
  <2>1. /\ walk'[Loader].call = walk[Loader].call /\ UNCHANGED <<pc, reg>>
        /\ walk'[Loader].node = walk[Loader].node
        /\ \A r \in Reg : Passed(devices, walk'[Loader], r)
                            <=> Passed(devices, walk[Loader], r)
    <3>1. CASE t = Loader
      BY <1>5, <3>1, SkipFacts
    <3>2. CASE t # Loader
      BY <1>5, <3>2, SkipFacts
    <3> QED
      BY <3>1, <3>2
  <2> QED
    BY <2>1
<1>6. ASSUME NEW t \in Thread, NodeDone(t) PROVE EnableInv'
  <2>1. UNCHANGED <<pc, reg>>
    BY <1>6 DEF NodeDone
  <2> SUFFICES ASSUME pc[Loader] = "enable", t = Loader PROVE EnableInv'
    BY <1>6, <1>2, <2>1, NodeFacts
  <2>2. /\ walk[t].call \in Enabling /\ walk[t] \in Walk
        /\ walk[t].node <= NNodes - 1
        /\ \A r \in Reg : Passed(devices, walk[t], r) <=> NodeOfReg(r) <= walk[t].node
    BY <1>6, NodeFacts DEF IInv, WalkInv, InCall, Enabling, LastNode
  <2>3. walk[t].node \in Node
    BY <2>2 DEF Node, Walk
  <2>4. CASE walk[t].call = "enable_throttle_all" /\ ~Breaks(walk[t])
    <3>1. ~Fails(walk[t].node)
      BY <2>4 DEF Breaks
    <3>2. CASE /\ walk'[t].call = walk[t].call /\ walk'[t].node = walk[t].node + 1
               /\ \A r \in Reg : Passed(devices, walk'[t], r)
                                   <=> Passed(devices, walk[t], r)
      BY <2>1, <2>3, <2>4, <3>1, <3>2 DEF Node
    <3>3. CASE walk[t].node = LastNode(walk[t].call) /\ walk'[t].call = "none"
      <4>1. walk[t].node = NNodes - 1
        BY <2>4, <3>3 DEF LastNode
      <4>2. Complete
        BY <2>4, <3>1, <4>1 DEF Complete, Node
      <4>3. \A r \in Reg : reg[r].en
        BY <2>2, <2>4, <4>1, RegFacts
      <4> QED
        BY <2>1, <3>3, <4>2, <4>3
    <3> QED
      BY <1>6, <2>4, <3>2, <3>3, NodeFacts
  <2>5. CASE walk[t].call = "enable_throttle_all" /\ Breaks(walk[t])
    <3>1. ~Complete
      BY <2>3, <2>5 DEF Breaks, Complete
    <3>2. /\ walk'[t].call = "disable_throttle_all"
          /\ \A r \in Reg : ~Passed(devices, walk'[t], r)
      BY <1>6, <2>5, NodeFacts
    <3> QED
      BY <2>1, <3>1, <3>2
  <2>6. CASE walk[t].call = "disable_throttle_all"
    <3>1. ~Breaks(walk[t])
      BY <2>6 DEF Breaks
    <3>2. CASE /\ walk'[t].call = walk[t].call
               /\ \A r \in Reg : Passed(devices, walk'[t], r)
                                   <=> Passed(devices, walk[t], r)
      BY <2>1, <2>6, <3>2
    <3>3. CASE walk[t].node = LastNode(walk[t].call) /\ walk'[t].call = "none"
      <4>1. walk[t].node = NNodes - 1
        BY <2>6, <3>3 DEF LastNode
      <4>2. \A r \in Reg : ~reg[r].en
        BY <2>2, <2>6, <4>1, RegFacts
      <4> QED
        BY <2>1, <2>6, <3>3, <4>2
    <3> QED
      BY <1>6, <2>6, <3>1, <3>2, <3>3, NodeFacts
  <2> QED
    BY <2>2, <2>4, <2>5, <2>6 DEF Enabling
<1>7. CASE ImcInit
  BY <1>2, <1>7 DEF ImcInit, Goto, Call
<1>8. CASE ProcCreate
  BY <1>2, <1>8 DEF ProcCreate, Goto, Call
<1>9. CASE StartBandwidth
  BY <1>2, <1>9 DEF StartBandwidth, Goto, Call
<1>10. CASE StartThrottle
  <2>1. walk'[Loader] = WalkOf("enable_throttle_all", 1) /\ UNCHANGED reg
    BY <1>10 DEF StartThrottle, Call
  <2>2. \A r \in Reg : ~Passed(devices, walk'[Loader], r)
    BY <2>1, StartPasses
  <2>3. walk'[Loader].call = "enable_throttle_all" /\ walk'[Loader].node = 0
    BY <2>1 DEF WalkOf
  <2> QED
    BY <2>1, <2>2, <2>3 DEF Node
<1>11. CASE StartDone
  BY <1>2, <1>11 DEF StartDone, Goto, Call
<1>12. CASE StartSkipped
  BY <1>2, <1>12 DEF StartSkipped, Goto, Call
<1>13. CASE StartUndone
  BY <1>2, <1>13 DEF StartUndone, Goto, Call
<1>14. CASE StartUndoDone
  BY <1>2, <1>14 DEF StartUndoDone, Goto, Call
<1>15. CASE FinishBandwidth
  BY <1>2, <1>15 DEF FinishBandwidth, Goto, Call
<1>16. CASE ProcRemove
  BY <1>2, <1>16 DEF ProcRemove, Goto, Call
<1>17. CASE ImcExit
  BY <1>2, <1>17 DEF ImcExit, Goto, Call
<1>18. ASSUME NEW w \in Writers, NEW k \in Ctl, WriteBegin(w, k) PROVE EnableInv'
  BY <1>2, <1>18 DEF WriteBegin, Goto
<1>19. ASSUME NEW w \in Writers, WriteLock(w) PROVE EnableInv'
  BY <1>2, <1>19 DEF WriteLock, Goto, Call
<1>20. ASSUME NEW w \in Writers, WriteDone(w) PROVE EnableInv'
  BY <1>2, <1>20 DEF WriteDone, Goto
<1>21. ASSUME NEW w \in Writers, WriteUnlock(w) PROVE EnableInv'
  BY <1>2, <1>21 DEF WriteUnlock, Goto
<1>22. CASE UNCHANGED vars
  BY <1>2, <1>22 DEF vars
<1> QED
  BY <1>3, <1>4, <1>5, <1>6, <1>7, <1>8, <1>9, <1>10, <1>11, <1>12, <1>13, <1>14,
     <1>15, <1>16, <1>17, <1>18, <1>19, <1>20, <1>21, <1>22
  DEF Next, WalkStep, LoaderStep, WriterStep

\* Only the end of start_emulate_nvm and rmmod change whether the emulation runs.
LEMMA RunningKept ==
  ASSUME TypeOK, PhaseInv, UNCHANGED started
  PROVE  /\ pc'[Loader] = pc[Loader] => Running' = Running
         /\ \A w \in Writers : \A p, q : Goto(w, p, q) => Running' = Running
         /\ \A p, q : Goto(Loader, p, q) /\ p \notin {"live", "disable"} => Running' = Running
<1>1. /\ \A w \in Writers : \A p, q : Goto(w, p, q) => pc'[Loader] = pc[Loader]
      /\ \A p, q : Goto(Loader, p, q) => pc[Loader] = p
  BY UncoreImcAssumption DEF Goto, TypeOK, Thread
<1>2. started \in BOOLEAN /\ started' = started
      /\ (started => pc[Loader] \in {"live", "disable"})
  BY DEF TypeOK, PhaseInv
<1>3. pc'[Loader] = pc[Loader] => Running' = Running
  BY <1>2 DEF Running
<1>4. \A p, q : Goto(Loader, p, q) /\ p \notin {"live", "disable"} => ~started
  BY <1>1, <1>2
<1>5. ~started => Running' = Running
  BY <1>2 DEF Running
<1> QED
  BY <1>1, <1>3, <1>4, <1>5

LEMMA RunningStep ==
  ASSUME ~EarlyWrites, IInv, CfgInv, RegInv, [Next]_vars
  PROVE  RunningInv'
<1> USE UncoreImcAssumption, MachineFixed, SameMachine DEF RegInv, RunningInv, Running, Thread
<1> /\ pc \in [Thread -> LoaderPhase \cup WriterPhase] /\ devices \in Machines
    /\ walk \in [Thread -> Walk] /\ reg \in [Reg -> RegValue]
    /\ started => pc[Loader] \in {"live", "disable"}
  BY DEF IInv, TypeOK, PhaseInv
\* An action that leaves all that alone.
<1>1. ASSUME Running' => Running, reg' = reg, bw_ratio' = bw_ratio,
             \A w \in Writers : walk'[w] = walk[w]
      PROVE  RunningInv'
  BY <1>1 DEF InCall
<1>2. ASSUME NEW t \in Thread, ReadReg(t) PROVE RunningInv'
  BY <1>1, <1>2 DEF ReadReg
<1>3. ASSUME NEW t \in Thread, WriteReg(t) PROVE RunningInv'
  <2>1. Running' = Running /\ bw_ratio' = bw_ratio
    BY <1>3 DEF WriteReg
  <2> SUFFICES ASSUME Running PROVE RunningInv'
    BY <2>1
  <2>2. t \in Writers /\ cfg[t] = reg[Cursor(t)] /\ \A w \in Writers \ {t} : ~InCall(w)
    <3>1. InCall(t) /\ Up /\ t \in Thread
      BY <1>3, WriteFacts DEF Up
    <3>2. t \in Writers /\ \A w \in Thread \ {t} : ~InCall(w)
      BY <3>1, Alone
    <3>3. cfg[t] # NoCfg
      BY <1>3 DEF WriteReg
    <3> QED
      BY <3>1, <3>2, <3>3 DEF CfgInv
  <2>3. walk[t].call = "set_threshold" /\ walk[t].threshold = bw_ratio
    BY <1>3, <2>2, WriteFacts DEF IInv, WalkInv, InCall
  <2>4. reg'[Cursor(t)].thr = Code(bw_ratio) /\ reg'[Cursor(t)].en = reg[Cursor(t)].en
    <3>1. reg'[Cursor(t)] = Updated(walk[t], cfg[t]) /\ cfg[t] \in RegValue
      BY <1>3, WriteFacts
    <3>2. /\ Updated(walk[t], cfg[t]).thr = Code(walk[t].threshold)
          /\ Updated(walk[t], cfg[t]).en = cfg[t].en
      BY <2>3, <3>1, UpdatedSet
    <3> QED
      BY <2>2, <2>3, <3>1, <3>2
  <2>5. /\ InCall(t)' = InCall(t)
        /\ \A r \in Reg : r # Cursor(t) => reg'[r] = reg[r]
        /\ \A r \in Reg : Passed(devices, walk'[t], r) <=>
                              Passed(devices, walk[t], r) \/ r = Cursor(t)
    BY <1>3, WriteFacts DEF InCall
  <2>6. \A r \in Reg : reg'[r].en <=> Complete
    BY <2>4, <2>5
  <2>7. ASSUME Complete, NEW r \in Reg, NodeOfReg(r) \in {0, 1}
        PROVE  \/ reg'[r].thr = Code(bw_ratio)
               \/ \E w \in Writers : InCall(w)' /\ ~Passed(devices, walk'[w], r)
    <3>1. CASE r = Cursor(t)
      BY <2>4, <3>1
    <3>2. CASE r # Cursor(t) /\ reg[r].thr = Code(bw_ratio)
      BY <2>5, <3>2
    <3>3. CASE /\ r # Cursor(t)
               /\ \E w \in Writers : InCall(w) /\ ~Passed(devices, walk[w], r)
      <4>1. InCall(t) /\ ~Passed(devices, walk[t], r)
        BY <2>2, <3>3
      <4>2. InCall(t)' /\ ~Passed(devices, walk'[t], r)
        BY <2>5, <3>3, <4>1
      <4> QED
        BY <2>2, <4>2
    <3> QED
      BY <2>7, <3>1, <3>2, <3>3
  <2> QED
    BY <2>1, <2>6, <2>7
<1>4. ASSUME NEW t \in Thread, SkipDevice(t) PROVE RunningInv'
  <2>1. /\ \A r \in Reg : Passed(devices, walk'[t], r) <=> Passed(devices, walk[t], r)
        /\ InCall(t)' = InCall(t) /\ \A u \in Thread \ {t} : walk'[u] = walk[u]
        /\ UNCHANGED <<reg, bw_ratio>> /\ Running' = Running
    BY <1>4, SkipFacts DEF InCall
  <2>2. ASSUME NEW r \in Reg, NEW w \in Writers, InCall(w), ~Passed(devices, walk[w], r)
        PROVE  InCall(w)' /\ ~Passed(devices, walk'[w], r)
    <3>1. CASE w = t
      BY <2>1, <2>2, <3>1
    <3>2. CASE w # t
      BY <2>1, <2>2, <3>2 DEF InCall
    <3> QED
      BY <3>1, <3>2
  <2> QED
    BY <2>1, <2>2
<1>5. ASSUME NEW t \in Thread, NodeDone(t) PROVE RunningInv'
  <2>1. UNCHANGED <<reg, bw_ratio>> /\ Running' = Running
    BY <1>5 DEF NodeDone
  <2> SUFFICES ASSUME Running PROVE RunningInv'
    BY <2>1
  <2>2. t \in Writers /\ \A w \in Writers \ {t} : ~InCall(w)
    <3>1. InCall(t) /\ Up /\ t \in Thread
      BY <1>5, NodeFacts DEF Up
    <3> QED
      BY <3>1, Alone
  <2>3. /\ walk[t].call = "set_threshold" /\ ~Breaks(walk[t])
        /\ \A r \in Reg : Passed(devices, walk[t], r) <=> NodeOfReg(r) <= walk[t].node
    BY <1>5, <2>2, NodeFacts DEF IInv, WalkInv, InCall, Breaks
  <2>4. ASSUME NEW r \in Reg, NodeOfReg(r) \in {0, 1}, ~Passed(devices, walk[t], r)
        PROVE  InCall(t)' /\ ~Passed(devices, walk'[t], r)
    <3>1. CASE walk'[t].call = "none" /\ walk[t].node = LastNode(walk[t].call)
      BY <2>3, <2>4, <3>1 DEF LastNode
    <3>2. CASE /\ walk'[t].call = walk[t].call
               /\ \A x \in Reg : Passed(devices, walk'[t], x)
                                   <=> Passed(devices, walk[t], x)
      BY <2>3, <2>4, <3>2 DEF InCall
    <3> QED
      BY <1>5, <2>3, <3>1, <3>2, NodeFacts
  <2> QED
    BY <2>1, <2>2, <2>4
<1>6. CASE ImcInit
  BY <1>6 DEF ImcInit, Goto
<1>7. CASE ProcCreate
  BY <1>1, <1>7 DEF ProcCreate, Goto, Call, IInv, TypeOK
<1>8. CASE StartBandwidth
  BY <1>1, <1>8 DEF StartBandwidth, Goto, Call, IInv, TypeOK
<1>9. CASE StartThrottle
  BY <1>1, <1>9 DEF StartThrottle, Goto, Call, IInv, TypeOK
<1>10. CASE StartDone
  <2>1. pc[Loader] = "enable" /\ walk[Loader].call = "none" /\ UNCHANGED <<reg, bw_ratio>>
    BY <1>10 DEF StartDone, Goto, InCall
  <2>2. \A r \in Reg : reg[r].en <=> Complete
    BY <2>1 DEF EnableInv
  <2>3. bw_ratio = 1 /\ (Complete => \A r \in Reg : reg[r].thr = 4095)
    BY <2>1 DEF ThresholdInv, Setting
  <2>4. Code(bw_ratio) = 4095
    BY <2>3 DEF Code
  <2> QED
    BY <2>1, <2>2, <2>3, <2>4
<1>11. CASE StartSkipped
  BY <1>1, <1>11 DEF StartSkipped, Goto, Call
<1>12. CASE StartUndone
  BY <1>1, <1>12 DEF StartUndone, Goto, Call
<1>13. CASE StartUndoDone
  BY <1>1, <1>13 DEF StartUndoDone, Goto, Call
<1>14. CASE FinishBandwidth
  BY <1>1, <1>14 DEF FinishBandwidth, Goto, Call
<1>15. CASE ProcRemove
  BY <1>1, <1>15 DEF ProcRemove, Goto, Call
<1>16. CASE ImcExit
  BY <1>1, <1>16 DEF ImcExit, Goto, Call
\* A writer that goes on.
<1>22. ASSUME NEW w \in Writers, NEW p, NEW q, Goto(w, p, q), UNCHANGED started
       PROVE  Running' = Running
  BY <1>22, RunningKept DEF IInv
<1>17. ASSUME NEW w \in Writers, NEW k \in Ctl, WriteBegin(w, k) PROVE RunningInv'
  <2>1. Running' = Running /\ UNCHANGED <<reg, bw_ratio, walk>>
    BY <1>17, <1>22 DEF WriteBegin
  <2> QED
    BY <1>1, <2>1
<1>18. ASSUME NEW w \in Writers, WriteLock(w) PROVE RunningInv'
  <2>1. CASE Call(w, "lock", "set", "set_threshold", bw_ratio')
    <3>1. walk'[w] = WalkOf("set_threshold", bw_ratio')
      BY <2>1 DEF Call
    <3>2. InCall(w)' /\ \A r \in Reg : ~Passed(devices, walk'[w], r)
      BY <3>1, StartPasses DEF InCall, WalkOf
    <3>3. Running' = Running /\ reg' = reg /\ RunningInv
      BY <1>18, <1>22, <2>1 DEF WriteLock, Call
    <3> QED
      BY <3>2, <3>3
  <2>2. CASE Goto(w, "lock", "unlock") /\ UNCHANGED <<bw_ratio, walk>>
    <3>1. Running' = Running /\ reg' = reg
      BY <1>18, <1>22, <2>2 DEF WriteLock
    <3> QED
      BY <1>1, <2>2, <3>1
  <2> QED
    BY <1>18, <2>1, <2>2 DEF WriteLock
<1>19. ASSUME NEW w \in Writers, WriteDone(w) PROVE RunningInv'
  <2>1. Running' = Running /\ UNCHANGED <<reg, bw_ratio, walk>>
    BY <1>19, <1>22 DEF WriteDone
  <2> QED
    BY <1>1, <2>1
<1>20. ASSUME NEW w \in Writers, WriteUnlock(w) PROVE RunningInv'
  <2>1. Running' = Running /\ UNCHANGED <<reg, bw_ratio, walk>>
    BY <1>20, <1>22 DEF WriteUnlock
  <2> QED
    BY <1>1, <2>1
<1>21. CASE UNCHANGED vars
  BY <1>1, <1>21 DEF vars
<1> QED
  BY <1>2, <1>3, <1>4, <1>5, <1>6, <1>7, <1>8, <1>9, <1>10, <1>11, <1>12, <1>13,
     <1>14, <1>15, <1>16, <1>17, <1>18, <1>19, <1>20, <1>21
  DEF Next, WalkStep, LoaderStep, WriterStep
-----------------------------------------------------------------------------
(* The theorems.                                                           *)

LEMMA InitIInv ==
  ASSUME Init PROVE IInv
<1> USE UncoreImcAssumption DEF Init
<1>1. NoWalk \in Walk /\ NoWalk.call = "none" /\ NoWalk.dimm = 1 /\ NoWalk.threshold = 1
  BY WalkOfTypes DEF NoWalk, CallName, WalkOf
<1>2. [en |-> TRUE, thr |-> 4095] \in RegValue
  BY DEF RegValue
<1>3. TypeOK
  <2>1. /\ pc \in [Thread -> LoaderPhase \cup WriterPhase]
        /\ pc[Loader] \in LoaderPhase
        /\ \A w \in Writers : pc[w] \in WriterPhase
    BY DEF Thread, LoaderPhase, WriterPhase
  <2>2. reg \in [Reg -> RegValue] /\ walk \in [Thread -> Walk]
    BY <1>1, <1>2
  <2>3. listed \in BOOLEAN /\ procReg \in BOOLEAN /\ started \in BOOLEAN
    BY Zenon
  <2>4. /\ devices \in Machines /\ bw_ratio \in {1, 2, 4} /\ mutex \in Thread
        /\ cfg \in [Thread -> RegValue \cup {NoCfg}]
        /\ ctl \in [Writers -> {0, 2, 4, 5}]
    BY DEF Thread
  <2> QED
    BY <2>1, <2>2, <2>3, <2>4 DEF TypeOK
<1>4. PhaseInv
  BY DEF PhaseInv, Thread, Setting
<1>5. WalkInv
  BY <1>1 DEF WalkInv, Thread, InCall
<1> QED
  BY <1>3, <1>4, <1>5 DEF IInv

LEMMA InitQuiet ==
  ASSUME Init PROVE QuietInv
BY DEF Init, QuietInv, CfgInv, RegInv, ThresholdInv, EnableInv, RunningInv, Running,
       Up, Setting, Thread

LEMMA QuietStep ==
  ASSUME ~EarlyWrites, IInv, QuietInv, [Next]_vars
  PROVE  QuietInv'
BY CfgStep, ThresholdStep, EnableStep, RunningStep DEF QuietInv, RegInv

\* The loader and the writers are only where the code lets them be.
THEOREM IInvHolds == Spec => []IInv
<1>1. Init => IInv
  BY InitIInv
<1>2. IInv /\ [Next]_vars => IInv'
  BY TypeStep, PhaseStep, WalkInvStep DEF IInv
<1> QED
  BY <1>1, <1>2, PTL DEF Spec

\* Where no write begins before insmod has returned, the registers are at all times
\* as far as the walk in progress has come.
THEOREM QuietInvHolds == ASSUME ~EarlyWrites PROVE Spec => []QuietInv
<1>1. Init => QuietInv
  BY InitQuiet
<1>2. IInv /\ QuietInv /\ [Next]_vars => QuietInv'
  BY QuietStep
<1> QED
  BY <1>1, <1>2, IInvHolds, PTL DEF Spec

\* Type correctness: every update writes a value that a register can have, and no
\* walk leaves the device list (uncore_hswep.c:961-1020).
THEOREM TypeCorrect == Spec => []TypeOK
<1>1. IInv => TypeOK
  BY DEF IInv
<1> QED
  BY <1>1, IInvHolds, PTL

\* Nobody walks the device list before it is built or after uncore_imc_exit has
\* freed it, although a write may begin before insmod has returned and may still
\* be in progress when rmmod begins (uncore_imc.c:40-53, uncore_pmu.c:711-714).
THEOREM NoUseAfterFreeHolds == Spec => []NoUseAfterFree
<1>1. IInv => NoUseAfterFree
  <2> SUFFICES ASSUME IInv, NEW t \in Thread, InCall(t) PROVE listed
    BY DEF NoUseAfterFree
  <2>1. pc[Loader] # "unloaded"
    BY UncoreImcAssumption DEF IInv, PhaseInv, WalkInv, InCall, Thread, Setting
  <2> QED
    BY <2>1 DEF IInv, PhaseInv
<1> QED
  BY <1>1, IInvHolds, PTL

\* With no write in progress every register throttles with the ratio that
\* /proc/uncore_pmu shows, or none throttles because a node has no device
\* (uncore_proc.c:60-80, uncore_imc.c:243-255, uncore_hswep.c:961-1020).
THEOREM RatioInForceHolds == ASSUME ~EarlyWrites PROVE Spec => []RatioInForce
<1>1. IInv /\ QuietInv => RatioInForce
  BY DEF QuietInv, RegInv, RunningInv, RatioInForce, Quiescent, Complete, IInv, WalkInv,
         InCall
<1> QED
  BY <1>1, IInvHolds, QuietInvHolds, PTL
-----------------------------------------------------------------------------
(* The refinement of Throttle.                                             *)

Channel  == {r \in Reg : NodeOfReg(r) \in {0, 1}}
Throttled == [r \in Channel |-> ThrottledTo(reg[r])]

LEMMA ThrottledToValues ==
  ASSUME NEW v \in RegValue
  PROVE  /\ ThrottledTo(v) \in {0, 1, 2, 4}
         /\ ThrottledTo(v) = 0 <=> ~v.en
         /\ \A k \in {1, 2, 4} : v.en /\ v.thr = Code(k) => ThrottledTo(v) = k
<1>1. v.en \in BOOLEAN /\ v.thr \in {127, 255, 4095}
  BY DEF RegValue
<1>2. CASE ~v.en
  <2>1. ThrottledTo(v) = 0
    BY <1>2 DEF ThrottledTo
  <2> QED
    BY <1>2, <2>1
<1>3. CASE v.en
  <2>1. \/ v.thr = 255 /\ ThrottledTo(v) = 2
        \/ v.thr = 127 /\ ThrottledTo(v) = 4
        \/ v.thr = 4095 /\ ThrottledTo(v) = 1
    BY <1>1, <1>3 DEF ThrottledTo
  <2>2. Code(1) = 4095 /\ Code(2) = 255 /\ Code(4) = 127
    BY DEF Code
  <2> QED
    BY <1>3, <2>1, <2>2
<1> QED
  BY <1>2, <1>3

\* While no write is in a call, one ratio is in force or none is.
LEMMA SettledFacts ==
  ASSUME IInv, \A r \in Reg : reg[r].en <=> Complete,
         Complete => \A r \in Channel : reg[r].thr = Code(bw_ratio)
  PROVE  \/ \A r \in Channel : Throttled[r] = bw_ratio
         \/ \A r \in Channel : Throttled[r] = 0
<1>1. \A r \in Channel : reg[r] \in RegValue /\ Throttled[r] = ThrottledTo(reg[r])
                         /\ r \in Reg
  BY DEF Channel, Throttled, IInv, TypeOK
<1>2. bw_ratio \in {1, 2, 4}
  BY DEF IInv, TypeOK
<1>3. CASE Complete
  BY <1>1, <1>2, <1>3, ThrottledToValues
<1>4. CASE ~Complete
  BY <1>1, <1>4, ThrottledToValues
<1> QED
  BY <1>3, <1>4

LEMMA PromiseInit ==
  ASSUME Init PROVE Promise!Init
<1>1. /\ DOMAIN Throttled = Channel /\ bw_ratio = 1 /\ Running = FALSE
      /\ \A r \in Channel : Throttled[r] = 1
  BY DEF Throttled, Channel, Init, ThrottledTo, Running
<1>2. Throttled = [r \in {x \in Reg : NodeOfReg(x) \in {0, 1}} |-> ThrottledTo(reg[r])]
  BY DEF Throttled, Channel
<1> QED
  BY <1>1, <1>2 DEF Promise!Init, Promise!Channel

LEMMA PromiseStep ==
  ASSUME ~EarlyWrites, IInv, QuietInv, [Next]_vars
  PROVE  [Promise!Next]_(Promise!vars)
<1> USE UncoreImcAssumption, MachineFixed, SameMachine DEF Thread
<1>1. /\ Throttled = [r \in {x \in Reg : NodeOfReg(x) \in {0, 1}} |-> ThrottledTo(reg[r])]
      /\ Throttled' = [r \in {x \in Reg : NodeOfReg(x) \in {0, 1}} |-> ThrottledTo(reg[r])]'
      /\ Channel' = Channel
      /\ Throttled' = [r \in Channel |-> ThrottledTo(reg'[r])]
      /\ DOMAIN Throttled = Channel
  BY DEF Throttled, Channel
\* What Throttle's steps come to here.
<1>2. ASSUME UNCHANGED <<reg, bw_ratio>>, Running' = Running PROVE UNCHANGED Promise!vars
  BY <1>2, <1>1 DEF Promise!vars, Throttled
<1>3. ASSUME NEW k \in {1, 2, 4}, Running => \/ \A r \in Channel : Throttled[r] = bw_ratio
                                            \/ \A r \in Channel : Throttled[r] = 0,
             bw_ratio' = k, UNCHANGED reg, Running' = Running
      PROVE  Promise!Next
  <2>1. Throttled' = Throttled
    BY <1>1, <1>3 DEF Throttled
  <2> QED
    BY <1>1, <1>3, <2>1 DEF Promise!Next, Promise!Choose, Promise!Settled, Promise!Channel
\* Steps that leave the loader where it is, or take it from where it does not run.
<1>30. ASSUME UNCHANGED <<reg, bw_ratio, started>>,
              \/ UNCHANGED pc
              \/ \E w \in Writers : \E p, q : Goto(w, p, q)
              \/ \E p, q : Goto(Loader, p, q) /\ p \notin {"live", "disable"}
       PROVE  UNCHANGED Promise!vars
  <2>1. Running' = Running
    BY <1>30, RunningKept DEF IInv
  <2> QED
    BY <1>2, <1>30, <2>1
<1>4. ASSUME NEW t \in Thread, ReadReg(t) PROVE UNCHANGED Promise!vars
  BY <1>30, <1>4 DEF ReadReg
<1>5. ASSUME NEW t \in Thread, WriteReg(t) PROVE [Promise!Next]_(Promise!vars)
  <2>1. UNCHANGED bw_ratio /\ Running' = Running
    BY <1>5, RunningKept DEF WriteReg, IInv
  <2>2. /\ Cursor(t) \in Reg /\ cfg[t] \in RegValue
        /\ walk[t].call \in CallName \ {"none"}
        /\ reg'[Cursor(t)] = Updated(walk[t], cfg[t])
        /\ \A r \in Reg : r # Cursor(t) => reg'[r] = reg[r]
    BY <1>5, WriteFacts DEF InCall, Walk
  <2>3. reg'[Cursor(t)] \in RegValue
    BY <2>2, UpdatedTypes
  <2>4. CASE Cursor(t) \notin Channel
    <3>1. Throttled' = Throttled
      BY <1>1, <2>2, <2>4 DEF Throttled, Channel
    <3> QED
      BY <1>1, <2>1, <3>1 DEF Promise!vars
  <2>5. CASE Cursor(t) \in Channel
    <3>1. Throttled' = [Throttled EXCEPT ![Cursor(t)] = ThrottledTo(reg'[Cursor(t)])]
      BY <1>1, <2>2, <2>5 DEF Throttled, Channel
    <3>2. CASE ~Running
      <4>1. ThrottledTo(reg'[Cursor(t)]) \in {1, 2, 4} \cup {0}
        BY <2>3, ThrottledToValues
      <4> QED
        BY <1>1, <2>1, <2>5, <3>1, <3>2, <4>1
        DEF Promise!Next, Promise!SetUp, Promise!Channel
    <3>3. CASE Running
      <4>1. /\ t \in Writers /\ cfg[t] = reg[Cursor(t)]
            /\ walk[t].call = "set_threshold" /\ walk[t].threshold = bw_ratio
        <5>1. InCall(t) /\ Up /\ pc[Loader] = "live" /\ t \in Thread
          BY <1>5, <3>3, WriteFacts DEF Up, IInv, PhaseInv, Running
        <5>2. t \in Writers
          BY <5>1, Alone
        <5>3. cfg[t] # NoCfg
          BY <1>5 DEF WriteReg
        <5> QED
          BY <5>1, <5>2, <5>3 DEF QuietInv, CfgInv, IInv, WalkInv, InCall
      <4>2. reg'[Cursor(t)].thr = Code(bw_ratio) /\ reg'[Cursor(t)].en = reg[Cursor(t)].en
        BY <2>2, <4>1, UpdatedSet
      <4>3. bw_ratio \in {1, 2, 4} /\ Throttled[Cursor(t)] = ThrottledTo(reg[Cursor(t)])
        BY <2>5 DEF IInv, TypeOK, Throttled
      <4>4. CASE ~reg[Cursor(t)].en
        <5>1. ThrottledTo(reg'[Cursor(t)]) = Throttled[Cursor(t)]
          BY <2>2, <2>3, <4>1, <4>2, <4>3, <4>4, ThrottledToValues
        <5>2. Throttled' = Throttled
          BY <1>1, <2>5, <3>1, <5>1 DEF Throttled
        <5> QED
          BY <1>1, <2>1, <5>2 DEF Promise!vars
      <4>5. CASE reg[Cursor(t)].en
        <5>1. ThrottledTo(reg'[Cursor(t)]) = bw_ratio /\ Throttled[Cursor(t)] # 0
          BY <2>2, <2>3, <4>1, <4>2, <4>3, <4>5, ThrottledToValues
        <5> QED
          BY <1>1, <2>1, <2>5, <3>1, <5>1 DEF Promise!Next, Promise!Apply, Promise!Channel
      <4> QED
        BY <4>4, <4>5
    <3> QED
      BY <3>2, <3>3
  <2> QED
    BY <2>4, <2>5
<1>6. ASSUME NEW t \in Thread, SkipDevice(t) PROVE UNCHANGED Promise!vars
  BY <1>30, <1>6 DEF SkipDevice
<1>7. ASSUME NEW t \in Thread, NodeDone(t) PROVE UNCHANGED Promise!vars
  BY <1>30, <1>7 DEF NodeDone
<1>8. CASE ImcInit
  <2>1. ~Running /\ Running' = Running
    BY <1>8, RunningKept DEF ImcInit, Goto, IInv, PhaseInv, Running
  <2> QED
    BY <1>3, <1>8, <2>1 DEF ImcInit
<1>9. CASE ProcCreate
  BY <1>30, <1>9 DEF ProcCreate
<1>10. CASE StartBandwidth
  BY <1>30, <1>10 DEF StartBandwidth, Call
<1>11. CASE StartThrottle
  BY <1>30, <1>11 DEF StartThrottle, Call
<1>12. CASE StartDone
  <2>1. pc[Loader] = "enable" /\ walk[Loader].call = "none" /\ ~Running
    BY <1>12 DEF StartDone, Goto, InCall, IInv, PhaseInv, Running
  <2>2. \A r \in Reg : reg[r].en <=> Complete
    BY <2>1 DEF QuietInv, RegInv, EnableInv
  <2>3. bw_ratio = 1 /\ (Complete => \A r \in Reg : reg[r].thr = 4095)
    BY <2>1 DEF QuietInv, RegInv, ThresholdInv, Setting
  <2>4. Complete => \A r \in Channel : reg[r].thr = Code(bw_ratio)
    BY <2>3 DEF Code, Channel
  <2>5. \/ \A r \in Channel : Throttled[r] = bw_ratio
        \/ \A r \in Channel : Throttled[r] = 0
    BY <2>2, <2>4, SettledFacts
  <2>6. Throttled' = Throttled
    BY <1>1, <1>12 DEF StartDone, Throttled
  <2>7. Running' = TRUE /\ bw_ratio' = bw_ratio
    BY <1>12 DEF StartDone, Goto, IInv, TypeOK, Running
  <2> QED
    BY <1>1, <2>1, <2>5, <2>6, <2>7
    DEF Promise!Next, Promise!Start, Promise!Settled, Promise!Channel
<1>13. CASE StartSkipped
  BY <1>30, <1>13 DEF StartSkipped
<1>14. CASE StartUndone
  BY <1>30, <1>14 DEF StartUndone, Call
<1>15. CASE StartUndoDone
  BY <1>30, <1>15 DEF StartUndoDone
<1>16. CASE FinishBandwidth
  <2>1. Throttled' = Throttled /\ bw_ratio' = bw_ratio
    BY <1>1, <1>16 DEF FinishBandwidth, Throttled
  <2>2. Running' = FALSE /\ Running \in BOOLEAN
    BY <1>16 DEF FinishBandwidth, Goto, Call, IInv, TypeOK, Running
  <2>3. CASE Running
    BY <1>1, <2>1, <2>2, <2>3 DEF Promise!Next, Promise!Stop
  <2>4. CASE ~Running
    BY <1>1, <2>1, <2>2, <2>4 DEF Promise!vars
  <2> QED
    BY <2>3, <2>4
<1>17. CASE ProcRemove
  <2>1. Running = FALSE /\ Running' = FALSE
    BY <1>17 DEF ProcRemove, Goto, IInv, TypeOK, Running
  <2> QED
    BY <1>2, <1>17, <2>1 DEF ProcRemove
<1>18. CASE ImcExit
  BY <1>30, <1>18 DEF ImcExit
<1>19. ASSUME NEW w \in Writers, NEW k \in Ctl, WriteBegin(w, k)
       PROVE UNCHANGED Promise!vars
  BY <1>30, <1>19 DEF WriteBegin
<1>20. ASSUME NEW w \in Writers, WriteLock(w) PROVE [Promise!Next]_(Promise!vars)
  <2>1. CASE ctl[w] # 5 /\ bw_ratio' = IF ctl[w] = 0 THEN 1 ELSE ctl[w]
    <3>1. bw_ratio' \in {1, 2, 4}
      BY <2>1 DEF IInv, TypeOK
    <3>2. ASSUME Running
          PROVE  \/ \A r \in Channel : Throttled[r] = bw_ratio
                 \/ \A r \in Channel : Throttled[r] = 0
      <4>1. \A u \in Writers : ~InCall(u)
        BY <1>20 DEF WriteLock, IInv, PhaseInv, WalkInv, InCall
      <4> QED
        BY <3>2, <4>1, SettledFacts DEF QuietInv, RegInv, RunningInv, Channel
    <3>3. UNCHANGED reg /\ Running' = Running
      BY <1>20, RunningKept DEF WriteLock, Call, IInv
    <3> QED
      BY <1>3, <3>1, <3>2, <3>3
  <2>2. CASE UNCHANGED bw_ratio
    BY <1>30, <1>20, <2>2 DEF WriteLock, Call
  <2> QED
    BY <1>20, <2>1, <2>2 DEF WriteLock
<1>21. ASSUME NEW w \in Writers, WriteDone(w) PROVE UNCHANGED Promise!vars
  BY <1>30, <1>21 DEF WriteDone
<1>22. ASSUME NEW w \in Writers, WriteUnlock(w) PROVE UNCHANGED Promise!vars
  BY <1>30, <1>22 DEF WriteUnlock
<1>23. CASE UNCHANGED vars
  BY <1>30, <1>23 DEF vars
<1> QED
  BY <1>4, <1>5, <1>6, <1>7, <1>8, <1>9, <1>10, <1>11, <1>12, <1>13, <1>14, <1>15,
     <1>16, <1>17, <1>18, <1>19, <1>20, <1>21, <1>22, <1>23
  DEF Next, WalkStep, LoaderStep, WriterStep

\* UncoreImc implements Throttle: the updates that threads read and write apart,
\* with nothing in common but the mutex, add up to one ratio for the machine, changed
\* as a whole and only when the one before is in force (uncore_imc.c:120-255,
\* uncore_proc.c:60-80, uncore_hswep.c:961-1020).
THEOREM ImplementsThrottleHolds == ASSUME ~EarlyWrites PROVE Spec => ImplementsThrottle
<1>1. IInv /\ QuietInv /\ [Next]_vars => [Promise!Next]_(Promise!vars)
  BY PromiseStep
<1>2. Init => Promise!Init
  BY PromiseInit
<1> QED
  BY <1>1, <1>2, IInvHolds, QuietInvHolds, PTL DEF Spec, ImplementsThrottle, Promise!Spec
=============================================================================
