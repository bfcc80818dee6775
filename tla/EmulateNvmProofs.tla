--------------------------- MODULE EmulateNvmProofs ---------------------------
(***************************************************************************)
(* Proofs about EmulateNvm, for every number of CPUs, every assignment of  *)
(* CPUs to nodes and every radix of the counter.                           *)
(*                                                                         *)
(* What holds the account together is that the box is frozen while the     *)
(* callback is between its first and its last step: what has been read of  *)
(* the counter is then still in it (FrozenInv), and the counter together   *)
(* with what was charged is what was counted (AccountInv).                 *)
(***************************************************************************)
EXTENDS EmulateNvm, TLAPS

\* The polling CPU is not on the emulated node, so that no walk takes it or the
\* emulated CPU down.
Apart == polling_node # emulate_nvm_node

SetUp    == {"freeze", "event", "unfreeze", "start_timer"}
Starting == Down \cup {"bandwidth", "latency"} \cup SetUp
Ending   == {"finish_up", "finish_bw", "cancel", "stop", "clear"}

\* What runs in which phase of the loader.
PhaseInv ==
    /\ emulation_started = latency_started
    /\ pc \in Ending => latency_started
    /\ latency_started => pc \in {"live"} \cup Ending
    /\ timer = "armed" =>
           latency_started /\ pc \in {"live", "finish_up", "finish_bw", "cancel"}
    /\ timer = "off" => cb = "idle"
    /\ throttled => \/ pc \in {"latency", "undo"} \cup SetUp
                    \/ latency_started /\ pc \in {"live", "finish_up", "finish_bw"}
    /\ procReg => \/ pc \in {"prepare", "undo", "undo_up"} \cup Starting
                  \/ latency_started /\ pc = "live"

\* The emulated CPU and the polling CPU stay online; the other CPUs are missing
\* only from the first walk to the end of the last.
OnlineInv ==
    /\ Apart => {emulate_nvm_cpu, polling_cpu} \subseteq online
    /\ Apart => \A c \in before \ online :
                    \/ pc \in Starting \cup {"undo"}
                    \/ pc = "live" /\ latency_started
                    \/ pc \in {"undo_up", "finish_up"} /\ pos <= c

\* The loader stays where it was checked to be.
BoundInv ==
    /\ Apart /\ Bound /\ pc \in Starting => here = polling_cpu
    /\ Apart /\ Bound /\ timer = "armed" => timerCpu = polling_cpu

\* The box: selected when it counts, clear when it is not, frozen when it is read.
FrozenInv ==
    /\ ~box[0].sel
    /\ box[1].sel <=> pc \in {"unfreeze", "start_timer"} \/ latency_started
    /\ ~box[1].sel => box[1].lo = 0 /\ box[1].hi = 0
    /\ pc \in {"event", "unfreeze"} => box[1].frz
    /\ cb # "idle" => box[1].frz
    /\ cb = "read_high" => low = box[1].lo
    /\ cb = "delay" => counts = Value(box[1])
    /\ cb \in {"write_high", "enable"} => box[1].lo = 0
    /\ cb = "enable" => box[1].hi = 0

\* Reads that are in the counter and have not been charged.
Pending == IF cb \in {"idle", "read_low", "read_high", "delay"}
           THEN Value(box[1]) ELSE 0

\* The account of a session.
AccountInv ==
    latency_started \/ pc \in SetUp =>
        /\ charged + Pending <= counted
        /\ Apart => charged + Pending = counted
        /\ pc \in {"freeze", "event"} => charged = 0

IInv == TypeOK /\ PhaseInv /\ OnlineInv /\ BoundInv /\ FrozenInv /\ AccountInv

USE DEF CPU, Box

-----------------------------------------------------------------------------
(* The counter as a number.                                                *)

\* A half never exceeds the whole, and a cleared counter is 0.
LEMMA ValueBounds ==
  ASSUME NEW b \in Box
  PROVE  /\ Value(b) \in Nat
         /\ b.hi <= Value(b)
         /\ b.lo = 0 /\ b.hi = 0 => Value(b) = 0
<1>1. Radix * b.hi \in Nat /\ b.hi <= Radix * b.hi
  BY EmulateNvmAssumption
<1> QED
  BY <1>1, EmulateNvmAssumption DEF Value

\* The callback adds the halves in the other order.
LEMMA ValueSum == ASSUME NEW b \in Box PROVE Radix * b.hi + b.lo = Value(b)
  BY EmulateNvmAssumption DEF Value

\* The low half, where it does not wrap.
LEMMA RemainderFacts ==
  ASSUME NEW r \in Nat, NEW n \in Nat, n < r
  PROVE  n % r = n
  OBVIOUS

\* Counting on, with the carry from the low to the high half, adds one.
LEMMA ValueCounts ==
  ASSUME NEW b \in Box, NEW d,
         d.lo = (b.lo + 1) % Radix,
         d.hi = IF b.lo + 1 = Radix THEN b.hi + 1 ELSE b.hi
  PROVE  /\ Value(d) = Value(b) + 1
         /\ d.lo \in 0 .. Radix - 1
         /\ d.hi \in Nat
<1>1. CASE b.lo + 1 = Radix
  <2>1. d.lo = 0
    BY <1>1, EmulateNvmAssumption
  <2>2. Radix * (b.hi + 1) = Radix * b.hi + Radix
    <3>1. b.hi \in Nat /\ Radix \in Nat
      BY EmulateNvmAssumption
    <3> QED
      BY <3>1
  <2>3. /\ Value(b) = b.lo + Radix * b.hi
        /\ Value(d) = d.lo + Radix * (b.hi + 1)
    BY <1>1, Zenon DEF Value
  <2> DEFINE high == Radix * b.hi
  <2>4. high \in Nat /\ b.hi \in Nat /\ b.lo \in Nat
    BY EmulateNvmAssumption
  <2>5. Value(b) = b.lo + high /\ Value(d) = d.lo + (high + Radix)
    BY <2>2, <2>3, Zenon
  <2>6. d.lo \in 0 .. Radix - 1 /\ d.hi \in Nat
    BY <1>1, <2>1, <2>4, EmulateNvmAssumption
  <2> HIDE DEF high
  <2>7. 0 + (high + Radix) = (b.lo + high) + 1
    BY <1>1, <2>4
  <2>8. Value(d) = Value(b) + 1
    BY <2>1, <2>5, <2>7, Zenon
  <2> QED
    BY <2>6, <2>8, Zenon
<1>2. CASE b.lo + 1 # Radix
  <2>1. /\ b.lo \in Nat /\ b.lo + 1 < Radix /\ b.hi \in Nat
        /\ d.lo = b.lo + 1 /\ d.hi = b.hi
    <3>1. b.lo \in 0 .. Radix - 1 /\ b.hi \in 0 .. MaxReads
      BY Zenon
    <3>2. b.lo \in Nat /\ b.lo + 1 < Radix /\ b.hi \in Nat
      BY <1>2, <3>1, EmulateNvmAssumption
    <3>3. d.hi = b.hi
      BY <1>2, Zenon
    <3> QED
      BY <3>2, <3>3, RemainderFacts, EmulateNvmAssumption
  <2> DEFINE high == Radix * b.hi
  <2>2. high \in Nat
    BY <2>1, EmulateNvmAssumption
  <2>3. Value(b) = b.lo + high /\ Value(d) = d.lo + high
    BY <2>1, Zenon DEF Value
  <2> HIDE DEF high
  <2> QED
    BY <2>1, <2>2, <2>3, EmulateNvmAssumption
<1> QED
  BY <1>1, <1>2

\* The fields of HA_Box_1 are written one at a time, and both boxes are cleared.
LEMMA BoxTypes ==
  ASSUME box \in [{0, 1} -> Box]
  PROVE  /\ \A v \in BOOLEAN :
                /\ [box EXCEPT ![1].frz = v] \in [{0, 1} -> Box]
                /\ [box EXCEPT ![1].sel = v] \in [{0, 1} -> Box]
                /\ [n \in {0, 1} |-> [box[n] EXCEPT !.frz = v]] \in [{0, 1} -> Box]
         /\ [box EXCEPT ![1].lo = 0] \in [{0, 1} -> Box]
         /\ [box EXCEPT ![1].hi = 0] \in [{0, 1} -> Box]
         /\ ClearedBox \in Box
<1>1. 0 \in 0 .. Radix - 1 /\ 0 \in 0 .. MaxReads
  BY EmulateNvmAssumption
<1>2. ClearedBox \in Box
  BY <1>1, Zenon DEF ClearedBox
<1>3. ASSUME NEW v \in BOOLEAN
      PROVE  /\ [box EXCEPT ![1].frz = v] \in [{0, 1} -> Box]
             /\ [box EXCEPT ![1].sel = v] \in [{0, 1} -> Box]
             /\ [n \in {0, 1} |-> [box[n] EXCEPT !.frz = v]] \in [{0, 1} -> Box]
  OBVIOUS
<1>4. /\ [box EXCEPT ![1].lo = 0] \in [{0, 1} -> Box]
      /\ [box EXCEPT ![1].hi = 0] \in [{0, 1} -> Box]
  BY <1>1
<1> QED
  BY <1>2, <1>3, <1>4
-----------------------------------------------------------------------------
(* Preservation of the parts of IInv, action by action.                    *)

LEMMA PhaseStep ==
  ASSUME TypeOK, PhaseInv, [Next]_vars
  PROVE  PhaseInv'
<1> USE DEF PhaseInv, SetUp, Starting, Ending, Down
<1>1. CASE Start
  BY <1>1 DEF Start, Goto, TypeOK, loader, flags, timers
<1>2. CASE Finish
  BY <1>2 DEF Finish, Goto, TypeOK, loader, flags, timers
<1>3. CASE WrongCpu
  BY <1>3 DEF WrongCpu, Goto, TypeOK, loader, flags, timers
<1>4. CASE RightCpu
  BY <1>4 DEF RightCpu, Goto, TypeOK, loader, flags, timers
<1>5. CASE CpuDown
  BY <1>5 DEF CpuDown, TypeOK, loader, flags, timers
<1>6. CASE DownDone
  BY <1>6 DEF DownDone, Goto, TypeOK, loader, flags, timers
<1>7. CASE StartBandwidth
  BY <1>7 DEF StartBandwidth, Goto, TypeOK, loader, flags, timers
<1>8. CASE NoHaBox
  BY <1>8 DEF NoHaBox, Goto, TypeOK, loader, flags, timers
<1>9. CASE InitBox
  BY <1>9 DEF InitBox, Goto, TypeOK, loader, flags, timers
<1>10. CASE SetupBox
  BY <1>10 DEF SetupBox, Goto, TypeOK, loader, flags, timers
<1>11. CASE StartTimer
  BY <1>11 DEF StartTimer, Goto, TypeOK, loader, flags, timers
<1>12. CASE Undo
  BY <1>12 DEF Undo, Goto, TypeOK, loader, flags, timers
<1>13. CASE CpuUp
  BY <1>13 DEF CpuUp, TypeOK, loader, flags, timers
<1>14. CASE FinishUpDone
  BY <1>14 DEF FinishUpDone, Goto, TypeOK, loader, flags, timers
<1>15. CASE FinishBandwidth
  BY <1>15 DEF FinishBandwidth, Goto, TypeOK, loader, flags, timers
<1>16. CASE CancelTimer
  BY <1>16 DEF CancelTimer, Goto, TypeOK, loader, flags, timers
<1>17. CASE StopBoxes
  BY <1>17 DEF StopBoxes, Goto, TypeOK, loader, flags, timers
<1>18. CASE ClearBoxes
  BY <1>18 DEF ClearBoxes, Goto, TypeOK, loader, flags, timers
<1>19. CASE Reschedule
  BY <1>19 DEF Reschedule, TypeOK, loader, flags, timers
<1>20. CASE Fire
  BY <1>20 DEF Fire, Step, CbUnchanged, TypeOK, loader, flags, timers
<1>21. CASE ReadCounter
  BY <1>21 DEF ReadCounter, Step, CbUnchanged, TypeOK, loader, flags, timers
<1>22. CASE SendDelay
  BY <1>22 DEF SendDelay, Step, CbUnchanged, TypeOK, loader, flags, timers
<1>23. CASE ClearCounter
  BY <1>23 DEF ClearCounter, Step, CbUnchanged, TypeOK, loader, flags, timers
<1>24. CASE Restart
  BY <1>24 DEF Restart, Step, CbUnchanged, TypeOK, loader, flags, timers
<1>25. ASSUME NEW c \in CPU, RemoteRead(c) PROVE PhaseInv'
  BY <1>25 DEF RemoteRead, TypeOK, loader, flags, timers
<1>26. CASE UNCHANGED vars
  BY <1>26 DEF vars, Pending, TypeOK, loader, flags, timers
<1> QED
  BY <1>1, <1>2, <1>3, <1>4, <1>5, <1>6, <1>7, <1>8, <1>9, <1>10, <1>11,
     <1>12, <1>13, <1>14, <1>15, <1>16, <1>17, <1>18, <1>19, <1>20, <1>21,
     <1>22, <1>23, <1>24, <1>25, <1>26
  DEF Next, LoaderStep, Callback

LEMMA OnlineStep ==
  ASSUME TypeOK, PhaseInv, OnlineInv, [Next]_vars
  PROVE  OnlineInv'
<1> USE EmulateNvmAssumption DEF OnlineInv, PhaseInv, Apart, SetUp, Starting, Ending, Down
<1>1. CASE Start
  BY <1>1 DEF Start, Goto, TypeOK, platform, loader, flags, fixed
<1>2. CASE Finish
  BY <1>2 DEF Finish, Goto, TypeOK, platform, loader, flags, fixed
<1>3. CASE WrongCpu
  BY <1>3 DEF WrongCpu, Goto, TypeOK, platform, loader, flags, fixed
<1>4. CASE RightCpu
  BY <1>4 DEF RightCpu, Goto, TypeOK, platform, loader, flags, fixed
<1>5. CASE CpuDown
  BY <1>5
  DEF CpuDown, Kept, Walked, CpumaskOfNode, emulate_nvm_node, polling_node, TypeOK,
      platform, loader, flags, fixed
<1>6. CASE DownDone
  BY <1>6 DEF DownDone, Goto, TypeOK, platform, loader, flags, fixed
<1>7. CASE StartBandwidth
  BY <1>7 DEF StartBandwidth, Goto, TypeOK, platform, loader, flags, fixed
<1>8. CASE NoHaBox
  BY <1>8 DEF NoHaBox, Goto, TypeOK, platform, loader, flags, fixed
<1>9. CASE InitBox
  BY <1>9 DEF InitBox, Goto, TypeOK, platform, loader, flags, fixed
<1>10. CASE SetupBox
  BY <1>10 DEF SetupBox, Goto, TypeOK, platform, loader, flags, fixed
<1>11. CASE StartTimer
  BY <1>11 DEF StartTimer, Goto, TypeOK, platform, loader, flags, fixed
<1>12. CASE Undo
  BY <1>12 DEF Undo, Goto, TypeOK, platform, loader, flags, fixed
<1>13. CASE CpuUp
  <2>1. /\ online \subseteq online' /\ before' \subseteq before
        /\ pc \in {"undo_up", "finish_up"} /\ pos \in CPU /\ pos' = pos + 1
        /\ UNCHANGED <<pc, latency_started>>
    BY <1>13 DEF CpuUp, flags
  <2>2. Apart => pos \notin before' \ online'
    BY <1>13 DEF CpuUp
  <2>3. Apart => \A c \in before' \ online' : c \in CPU /\ pos + 1 <= c
    BY <2>1, <2>2 DEF TypeOK
  <2> QED
    BY <2>1, <2>3
<1>14. CASE FinishUpDone
  BY <1>14 DEF FinishUpDone, Goto, TypeOK, platform, loader, flags, fixed
<1>15. CASE FinishBandwidth
  BY <1>15 DEF FinishBandwidth, Goto, TypeOK, platform, loader, flags, fixed
<1>16. CASE CancelTimer
  BY <1>16 DEF CancelTimer, Goto, TypeOK, platform, loader, flags, fixed
<1>17. CASE StopBoxes
  BY <1>17 DEF StopBoxes, Goto, TypeOK, platform, loader, flags, fixed
<1>18. CASE ClearBoxes
  BY <1>18 DEF ClearBoxes, Goto, TypeOK, platform, loader, flags, fixed
<1>19. CASE Reschedule
  BY <1>19 DEF Reschedule, TypeOK, platform, loader, flags, fixed
<1>20. CASE Fire
  BY <1>20 DEF Fire, Step, CbUnchanged, TypeOK, platform, loader, flags, fixed
<1>21. CASE ReadCounter
  BY <1>21
  DEF ReadCounter, Step, CbUnchanged, TypeOK, platform, loader, flags, fixed
<1>22. CASE SendDelay
  BY <1>22 DEF SendDelay, Step, CbUnchanged, TypeOK, platform, loader, flags, fixed
<1>23. CASE ClearCounter
  BY <1>23
  DEF ClearCounter, Step, CbUnchanged, TypeOK, platform, loader, flags, fixed
<1>24. CASE Restart
  BY <1>24 DEF Restart, Step, CbUnchanged, TypeOK, platform, loader, flags, fixed
<1>25. ASSUME NEW c \in CPU, RemoteRead(c) PROVE OnlineInv'
  BY <1>25 DEF RemoteRead, TypeOK, platform, loader, flags, fixed
<1>26. CASE UNCHANGED vars
  BY <1>26 DEF vars, Pending, TypeOK, platform, loader, flags, fixed
<1> QED
  BY <1>1, <1>2, <1>3, <1>4, <1>5, <1>6, <1>7, <1>8, <1>9, <1>10, <1>11,
     <1>12, <1>13, <1>14, <1>15, <1>16, <1>17, <1>18, <1>19, <1>20, <1>21,
     <1>22, <1>23, <1>24, <1>25, <1>26
  DEF Next, LoaderStep, Callback

LEMMA BoundStep ==
  ASSUME TypeOK, PhaseInv, OnlineInv, BoundInv, [Next]_vars
  PROVE  BoundInv'
<1> USE EmulateNvmAssumption
    DEF BoundInv, PhaseInv, OnlineInv, Apart, SetUp, Starting, Ending, Down
<1>1. CASE Start
  BY <1>1 DEF Start, Goto, TypeOK, platform, loader, timers
<1>2. CASE Finish
  BY <1>2 DEF Finish, Goto, TypeOK, platform, loader, timers
<1>3. CASE WrongCpu
  BY <1>3 DEF WrongCpu, Goto, TypeOK, platform, loader, timers
<1>4. CASE RightCpu
  BY <1>4 DEF RightCpu, Goto, TypeOK, platform, loader, timers
<1>5. CASE CpuDown
  BY <1>5
  DEF CpuDown, Kept, Walked, CpumaskOfNode, emulate_nvm_node, polling_node, TypeOK,
      platform, loader, timers
<1>6. CASE DownDone
  BY <1>6 DEF DownDone, Goto, TypeOK, platform, loader, timers
<1>7. CASE StartBandwidth
  BY <1>7 DEF StartBandwidth, Goto, TypeOK, platform, loader, timers
<1>8. CASE NoHaBox
  BY <1>8 DEF NoHaBox, Goto, TypeOK, platform, loader, timers
<1>9. CASE InitBox
  BY <1>9 DEF InitBox, Goto, TypeOK, platform, loader, timers
<1>10. CASE SetupBox
  BY <1>10 DEF SetupBox, Goto, TypeOK, platform, loader, timers
<1>11. CASE StartTimer
  BY <1>11 DEF StartTimer, Goto, TypeOK, platform, loader, timers
<1>12. CASE Undo
  BY <1>12 DEF Undo, Goto, TypeOK, platform, loader, timers
<1>13. CASE CpuUp
  BY <1>13 DEF CpuUp, TypeOK, platform, loader, timers
<1>14. CASE FinishUpDone
  BY <1>14 DEF FinishUpDone, Goto, TypeOK, platform, loader, timers
<1>15. CASE FinishBandwidth
  BY <1>15 DEF FinishBandwidth, Goto, TypeOK, platform, loader, timers
<1>16. CASE CancelTimer
  BY <1>16 DEF CancelTimer, Goto, TypeOK, platform, loader, timers
<1>17. CASE StopBoxes
  BY <1>17 DEF StopBoxes, Goto, TypeOK, platform, loader, timers
<1>18. CASE ClearBoxes
  BY <1>18 DEF ClearBoxes, Goto, TypeOK, platform, loader, timers
<1>19. CASE Reschedule
  BY <1>19 DEF Reschedule, TypeOK, platform, loader, timers
<1>20. CASE Fire
  BY <1>20 DEF Fire, Step, CbUnchanged, TypeOK, platform, loader, timers
<1>21. CASE ReadCounter
  BY <1>21 DEF ReadCounter, Step, CbUnchanged, TypeOK, platform, loader, timers
<1>22. CASE SendDelay
  BY <1>22 DEF SendDelay, Step, CbUnchanged, TypeOK, platform, loader, timers
<1>23. CASE ClearCounter
  BY <1>23 DEF ClearCounter, Step, CbUnchanged, TypeOK, platform, loader, timers
<1>24. CASE Restart
  BY <1>24 DEF Restart, Step, CbUnchanged, TypeOK, platform, loader, timers
<1>25. ASSUME NEW c \in CPU, RemoteRead(c) PROVE BoundInv'
  BY <1>25 DEF RemoteRead, TypeOK, platform, loader, timers
<1>26. CASE UNCHANGED vars
  BY <1>26 DEF vars, Pending, TypeOK, platform, loader, timers
<1> QED
  BY <1>1, <1>2, <1>3, <1>4, <1>5, <1>6, <1>7, <1>8, <1>9, <1>10, <1>11,
     <1>12, <1>13, <1>14, <1>15, <1>16, <1>17, <1>18, <1>19, <1>20, <1>21,
     <1>22, <1>23, <1>24, <1>25, <1>26
  DEF Next, LoaderStep, Callback

LEMMA FrozenStep ==
  ASSUME TypeOK, PhaseInv, FrozenInv, [Next]_vars
  PROVE  FrozenInv'
<1> USE EmulateNvmAssumption DEF FrozenInv, PhaseInv, SetUp, Starting, Ending, Down, Value
<1>1. CASE Start
  BY <1>1 DEF Start, Goto, TypeOK, ClearedBox, loader, flags, timers
<1>2. CASE Finish
  BY <1>2 DEF Finish, Goto, TypeOK, ClearedBox, loader, flags, timers
<1>3. CASE WrongCpu
  BY <1>3 DEF WrongCpu, Goto, TypeOK, ClearedBox, loader, flags, timers
<1>4. CASE RightCpu
  BY <1>4 DEF RightCpu, Goto, TypeOK, ClearedBox, loader, flags, timers
<1>5. CASE CpuDown
  BY <1>5 DEF CpuDown, TypeOK, ClearedBox, loader, flags, timers
<1>6. CASE DownDone
  BY <1>6 DEF DownDone, Goto, TypeOK, ClearedBox, loader, flags, timers
<1>7. CASE StartBandwidth
  BY <1>7 DEF StartBandwidth, Goto, TypeOK, ClearedBox, loader, flags, timers
<1>8. CASE NoHaBox
  BY <1>8 DEF NoHaBox, Goto, TypeOK, ClearedBox, loader, flags, timers
<1>9. CASE InitBox
  BY <1>9 DEF InitBox, Goto, TypeOK, ClearedBox, loader, flags, timers
<1>10. CASE SetupBox
  <2>1. cb = "idle" /\ ~latency_started
    BY <1>10 DEF SetupBox, Goto, TypeOK
  <2>2. box'[0] = box[0]
    <3>1. box \in [{0, 1} -> Box]
      BY DEF TypeOK
    <3> QED
      BY <1>10, <3>1 DEF SetupBox
  <2>3. CASE Goto("freeze", "event") /\ box' = [box EXCEPT ![1].frz = TRUE]
    <3>1. box[1] \in Box /\ box'[1] = [box[1] EXCEPT !.frz = TRUE]
      BY <2>3 DEF TypeOK
    <3>2. box'[1].frz /\ box'[1].sel = box[1].sel
      BY <3>1
    <3>3. box'[1].lo = box[1].lo /\ box'[1].hi = box[1].hi
      BY <3>1
    <3> QED
      BY <1>10, <2>1, <2>2, <2>3, <3>2, <3>3 DEF SetupBox, Goto, flags, timers
  <2>4. CASE Goto("event", "unfreeze") /\ box' = [box EXCEPT ![1].sel = TRUE]
    <3>1. box[1] \in Box /\ box'[1] = [box[1] EXCEPT !.sel = TRUE]
      BY <2>4 DEF TypeOK
    <3>2. box'[1].sel /\ box'[1].frz
      BY <2>4, <3>1 DEF Goto
    <3> QED
      BY <1>10, <2>1, <2>2, <2>4, <3>2 DEF SetupBox, Goto, flags, timers
  <2>5. CASE Goto("unfreeze", "start_timer") /\ box' = [box EXCEPT ![1].frz = FALSE]
    <3>1. box[1] \in Box /\ box'[1] = [box[1] EXCEPT !.frz = FALSE]
      BY <2>5 DEF TypeOK
    <3>2. box'[1].sel
      BY <2>5, <3>1 DEF Goto
    <3> QED
      BY <1>10, <2>1, <2>2, <2>5, <3>2 DEF SetupBox, Goto, flags, timers
  <2> QED
    BY <1>10, <2>3, <2>4, <2>5 DEF SetupBox
<1>11. CASE StartTimer
  BY <1>11 DEF StartTimer, Goto, TypeOK, ClearedBox, loader, flags, timers
<1>12. CASE Undo
  BY <1>12 DEF Undo, Goto, TypeOK, ClearedBox, loader, flags, timers
<1>13. CASE CpuUp
  BY <1>13 DEF CpuUp, TypeOK, ClearedBox, loader, flags, timers
<1>14. CASE FinishUpDone
  BY <1>14 DEF FinishUpDone, Goto, TypeOK, ClearedBox, loader, flags, timers
<1>15. CASE FinishBandwidth
  BY <1>15 DEF FinishBandwidth, Goto, TypeOK, ClearedBox, loader, flags, timers
<1>16. CASE CancelTimer
  BY <1>16 DEF CancelTimer, Goto, TypeOK, ClearedBox, loader, flags, timers
<1>17. CASE StopBoxes
  BY <1>17 DEF StopBoxes, Goto, TypeOK, ClearedBox, loader, flags, timers
<1>18. CASE ClearBoxes
  BY <1>18 DEF ClearBoxes, Goto, TypeOK, ClearedBox, loader, flags, timers
<1>19. CASE Reschedule
  BY <1>19 DEF Reschedule, TypeOK, ClearedBox, loader, flags, timers
<1>20. CASE Fire
  BY <1>20 DEF Fire, Step, CbUnchanged, TypeOK, ClearedBox, loader, flags, timers
<1>21. CASE ReadCounter
  BY <1>21
  DEF ReadCounter, Step, CbUnchanged, TypeOK, ClearedBox, loader, flags, timers
<1>22. CASE SendDelay
  BY <1>22
  DEF SendDelay, Step, CbUnchanged, TypeOK, ClearedBox, loader, flags, timers
<1>23. CASE ClearCounter
  <2>1. box[1] \in Box /\ box'[0] = box[0]
    BY <1>23 DEF ClearCounter, TypeOK
  <2>2. CASE Step("write_low", "write_high") /\ box' = [box EXCEPT ![1].lo = 0]
    <3>1. box'[1] = [box[1] EXCEPT !.lo = 0]
      BY <2>2 DEF TypeOK
    <3> QED
      BY <1>23, <2>1, <2>2, <3>1 DEF ClearCounter, Step, CbUnchanged, loader, flags
  <2>3. CASE Step("write_high", "enable") /\ box' = [box EXCEPT ![1].hi = 0]
    <3>1. box'[1] = [box[1] EXCEPT !.hi = 0]
      BY <2>3 DEF TypeOK
    <3> QED
      BY <1>23, <2>1, <2>3, <3>1 DEF ClearCounter, Step, CbUnchanged, loader, flags
  <2> QED
    BY <1>23, <2>2, <2>3 DEF ClearCounter
<1>24. CASE Restart
  BY <1>24 DEF Restart, Step, CbUnchanged, TypeOK, ClearedBox, loader, flags, timers
<1>25. ASSUME NEW c \in CPU, RemoteRead(c) PROVE FrozenInv'
  BY <1>25 DEF RemoteRead, TypeOK, ClearedBox, loader, flags, timers
<1>26. CASE UNCHANGED vars
  BY <1>26 DEF vars, Pending, TypeOK, ClearedBox, loader, flags, timers
<1> QED
  BY <1>1, <1>2, <1>3, <1>4, <1>5, <1>6, <1>7, <1>8, <1>9, <1>10, <1>11,
     <1>12, <1>13, <1>14, <1>15, <1>16, <1>17, <1>18, <1>19, <1>20, <1>21,
     <1>22, <1>23, <1>24, <1>25, <1>26
  DEF Next, LoaderStep, Callback

LEMMA AccountStep ==
  ASSUME TypeOK, PhaseInv, OnlineInv, FrozenInv, AccountInv, [Next]_vars
  PROVE  AccountInv'
<1> USE DEF AccountInv, PhaseInv, FrozenInv, OnlineInv, Apart, Pending,
            emulate_nvm_node, polling_node, SetUp, Starting, Ending, Down
<1> box[1] \in Box
  BY DEF TypeOK
<1> USE ValueBounds
<1>1. CASE Start
  BY <1>1 DEF Start, Goto, TypeOK, Value, loader, flags, timers, ghosts
<1>2. CASE Finish
  BY <1>2 DEF Finish, Goto, TypeOK, Value, loader, flags, timers, ghosts
<1>3. CASE WrongCpu
  BY <1>3 DEF WrongCpu, Goto, TypeOK, Value, loader, flags, timers, ghosts
<1>4. CASE RightCpu
  BY <1>4 DEF RightCpu, Goto, TypeOK, Value, loader, flags, timers, ghosts
<1>5. CASE CpuDown
  BY <1>5 DEF CpuDown, TypeOK, Value, loader, flags, timers, ghosts
<1>6. CASE DownDone
  BY <1>6 DEF DownDone, Goto, TypeOK, Value, loader, flags, timers, ghosts
<1>7. CASE StartBandwidth
  BY <1>7 DEF StartBandwidth, Goto, TypeOK, Value, loader, flags, timers, ghosts
<1>8. CASE NoHaBox
  BY <1>8 DEF NoHaBox, Goto, TypeOK, Value, loader, flags, timers, ghosts
<1>9. CASE InitBox
  <2>1. cb = "idle" /\ box'[1] = ClearedBox
    BY <1>9 DEF InitBox, Goto, TypeOK
  <2>2. Value(box'[1]) = 0
    <3>1. ClearedBox \in Box
      BY EmulateNvmAssumption DEF ClearedBox
    <3> QED
      BY <2>1, <3>1, ValueBounds DEF ClearedBox
  <2> QED
    BY <1>9, <2>1, <2>2 DEF InitBox, Goto, timers
<1>10. CASE SetupBox
  BY <1>10 DEF SetupBox, Goto, TypeOK, Value, loader, flags, timers, ghosts
<1>11. CASE StartTimer
  BY <1>11 DEF StartTimer, Goto, TypeOK, Value, loader, flags, timers, ghosts
<1>12. CASE Undo
  BY <1>12 DEF Undo, Goto, TypeOK, Value, loader, flags, timers, ghosts
<1>13. CASE CpuUp
  BY <1>13 DEF CpuUp, TypeOK, Value, loader, flags, timers, ghosts
<1>14. CASE FinishUpDone
  BY <1>14 DEF FinishUpDone, Goto, TypeOK, Value, loader, flags, timers, ghosts
<1>15. CASE FinishBandwidth
  BY <1>15 DEF FinishBandwidth, Goto, TypeOK, Value, loader, flags, timers, ghosts
<1>16. CASE CancelTimer
  BY <1>16 DEF CancelTimer, Goto, TypeOK, Value, loader, flags, timers, ghosts
<1>17. CASE StopBoxes
  BY <1>17 DEF StopBoxes, Goto, TypeOK, Value, loader, flags, timers, ghosts
<1>18. CASE ClearBoxes
  BY <1>18 DEF ClearBoxes, Goto, TypeOK, Value, loader, flags, timers, ghosts
<1>19. CASE Reschedule
  BY <1>19 DEF Reschedule, TypeOK, Value, loader, flags, timers, ghosts
<1>20. CASE Fire
  BY <1>20 DEF Fire, Step, CbUnchanged, TypeOK, Value, loader, flags, timers, ghosts
<1>21. CASE ReadCounter
  BY <1>21
  DEF ReadCounter, Step, CbUnchanged, TypeOK, Value, loader, flags, timers, ghosts
<1>22. CASE SendDelay
  BY <1>22
  DEF SendDelay, Step, CbUnchanged, TypeOK, Value, loader, flags, timers, ghosts
<1>23. CASE ClearCounter
  BY <1>23
  DEF ClearCounter, Step, CbUnchanged, TypeOK, Value, loader, flags, timers, ghosts
<1>24. CASE Restart
  BY <1>24
  DEF Restart, Step, CbUnchanged, TypeOK, Value, loader, flags, timers, ghosts
<1>25. ASSUME NEW c \in CPU, RemoteRead(c) PROVE AccountInv'
  <2>1. box[1] \in Box /\ cb = "idle"
    BY <1>25 DEF RemoteRead, TypeOK, FrozenInv
  <2>2. Value(box[1])' = Value(box[1]) + 1
    <3>1. /\ box'[1].lo = (box[1].lo + 1) % Radix
          /\ box'[1].hi = IF box[1].lo + 1 = Radix THEN box[1].hi + 1 ELSE box[1].hi
      BY <1>25 DEF RemoteRead, TypeOK
    <3> QED
      BY <2>1, <3>1, ValueCounts DEF Value
  <2> QED
    BY <1>25, <2>1, <2>2, ValueBounds DEF RemoteRead, loader, flags, timers, TypeOK
<1>26. CASE UNCHANGED vars
  BY <1>26 DEF vars, Pending, TypeOK, Value, loader, flags, timers, ghosts
<1> QED
  BY <1>1, <1>2, <1>3, <1>4, <1>5, <1>6, <1>7, <1>8, <1>9, <1>10, <1>11,
     <1>12, <1>13, <1>14, <1>15, <1>16, <1>17, <1>18, <1>19, <1>20, <1>21,
     <1>22, <1>23, <1>24, <1>25, <1>26
  DEF Next, LoaderStep, Callback

\* They stay boxes, whatever the loader or the callback writes to them.
LEMMA BoxWritten ==
  ASSUME box \in [{0, 1} -> Box],
         InitBox \/ SetupBox \/ StopBoxes \/ ClearBoxes \/ ClearCounter
  PROVE  box' \in [{0, 1} -> Box]
<1>1. TRUE \in BOOLEAN /\ FALSE \in BOOLEAN
  OBVIOUS
<1>2. CASE InitBox
  BY <1>2, BoxTypes DEF InitBox
<1>3. CASE SetupBox
  <2>1. \/ box' = [box EXCEPT ![1].frz = TRUE]
        \/ box' = [box EXCEPT ![1].sel = TRUE]
        \/ box' = [box EXCEPT ![1].frz = FALSE]
    BY <1>3, Zenon DEF SetupBox
  <2> QED
    BY <1>1, <2>1, BoxTypes, Zenon
<1>4. CASE StopBoxes
  BY <1>1, <1>4, BoxTypes, Zenon DEF StopBoxes
<1>5. CASE ClearBoxes
  BY <1>5, BoxTypes DEF ClearBoxes
<1>6. CASE ClearCounter
  BY <1>6, BoxTypes, Zenon DEF ClearCounter
<1> QED
  BY <1>2, <1>3, <1>4, <1>5, <1>6

LEMMA TypeStep ==
  ASSUME TypeOK, PhaseInv, FrozenInv, AccountInv, [Next]_vars, AccountInv'
  PROVE  TypeOK'
<1> USE EmulateNvmAssumption DEF TypeOK, Phase
<1>1. CASE Start
  <2>1. procReg' \in BOOLEAN
    BY <1>1, Zenon DEF Start
  <2> QED
    BY <1>1, <2>1 DEF Start, Goto, timers, ghosts
<1>2. CASE Finish
  <2>1. procReg' \in BOOLEAN
    BY <1>2, Zenon DEF Finish
  <2> QED
    BY <1>2, <2>1 DEF Finish, Goto, platform, timers, ghosts, fixed
<1>3. CASE WrongCpu
  <2>1. procReg' \in BOOLEAN
    BY <1>3, Zenon DEF WrongCpu
  <2> QED
    BY <1>3, <2>1 DEF WrongCpu, Goto, platform, timers, ghosts, fixed
<1>4. CASE RightCpu
  BY <1>4 DEF RightCpu, Goto, platform, flags, timers, ghosts, fixed
<1>5. CASE CpuDown
  <2>1. online' \subseteq CPU /\ here' \in online'
    <3>1. CASE UNCHANGED platform
      BY <3>1 DEF platform
    <3>2. CASE /\ online' = online \ {pos}
               /\ here' \in IF here = pos THEN online' ELSE {here}
      BY <3>2
    <3> QED
      BY <1>5, <3>1, <3>2 DEF CpuDown
  <2>2. pos' \in 0 .. NCpu
    BY <1>5 DEF CpuDown
  <2> QED
    BY <1>5, <2>1, <2>2 DEF CpuDown, flags, timers, ghosts, fixed
<1>6. CASE DownDone
  BY <1>6 DEF DownDone, Goto, platform, flags, timers, ghosts, fixed
<1>7. CASE StartBandwidth
  BY <1>7 DEF StartBandwidth, Goto, platform, timers, ghosts, fixed
<1>8. CASE NoHaBox
  BY <1>8 DEF NoHaBox, Goto, platform, flags, timers, ghosts, fixed
<1>9. CASE InitBox
  <2>1. box' \in [{0, 1} -> Box]
    BY <1>9, BoxWritten
  <2>2. foreign' \in BOOLEAN
    BY <1>9, Zenon DEF InitBox
  <2> QED
    BY <1>9, <2>1, <2>2 DEF InitBox, Goto, platform, flags, timers, fixed
<1>10. CASE SetupBox
  <2>1. box' \in [{0, 1} -> Box]
    BY <1>10, BoxWritten
  <2>2. pc' \in Phase /\ pos' \in 0 .. NCpu
    <3>1. pc' \in {"event", "unfreeze", "start_timer"} /\ pos' = 0
      BY <1>10, Zenon DEF SetupBox, Goto
    <3> QED
      BY <3>1
  <2>3. UNCHANGED <<platform, flags, timers, ghosts, fixed>>
    BY <1>10 DEF SetupBox
  <2> QED
    BY <2>1, <2>2, <2>3 DEF platform, flags, timers, ghosts, fixed
<1>11. CASE StartTimer
  BY <1>11 DEF StartTimer, Goto, platform, ghosts, fixed
<1>12. CASE Undo
  <2>1. procReg' \in BOOLEAN /\ throttled' \in BOOLEAN
    BY <1>12, Zenon DEF Undo
  <2> QED
    BY <1>12, <2>1 DEF Undo, Goto, platform, timers, ghosts, fixed
<1>13. CASE CpuUp
  <2>1. online' \subseteq CPU /\ before' \subseteq CPU /\ here' \in online'
    BY <1>13 DEF CpuUp
  <2>2. pc' \in Phase /\ pos' \in 0 .. NCpu
    BY <1>13 DEF CpuUp
  <2>3. UNCHANGED <<flags, box, timers, ghosts, haNodes>>
    BY <1>13 DEF CpuUp
  <2> QED
    BY <2>1, <2>2, <2>3 DEF flags, timers, ghosts
<1>14. CASE FinishUpDone
  BY <1>14 DEF FinishUpDone, Goto, platform, flags, timers, ghosts, fixed
<1>15. CASE FinishBandwidth
  <2>1. throttled' \in BOOLEAN
    BY <1>15, Zenon DEF FinishBandwidth
  <2> QED
    BY <1>15, <2>1 DEF FinishBandwidth, Goto, platform, timers, ghosts, fixed
<1>16. CASE CancelTimer
  BY <1>16 DEF CancelTimer, Goto, platform, flags, ghosts, fixed
<1>17. CASE StopBoxes
  <2>1. box' \in [{0, 1} -> Box]
    BY <1>17, BoxWritten
  <2>2. pc' \in Phase /\ pos' \in 0 .. NCpu
    BY <1>17 DEF StopBoxes, Goto
  <2>3. UNCHANGED <<platform, flags, timers, ghosts, fixed>>
    BY <1>17 DEF StopBoxes
  <2> QED
    BY <2>1, <2>2, <2>3 DEF platform, flags, timers, ghosts, fixed
<1>18. CASE ClearBoxes
  <2>1. latency_started' \in BOOLEAN /\ emulation_started' \in BOOLEAN
    BY <1>18, Zenon DEF ClearBoxes
  <2>2. box' \in [{0, 1} -> Box]
    BY <1>18, BoxWritten
  <2> QED
    BY <1>18, <2>1, <2>2 DEF ClearBoxes, Goto, platform, timers, ghosts, fixed
<1>19. CASE Reschedule
  BY <1>19 DEF Reschedule, loader, flags, timers, ghosts, fixed
<1>20. CASE Fire
  BY <1>20 DEF Fire, Step, CbUnchanged, platform, loader, flags, fixed
\* What is read is in the counter, which holds no more than was counted.
<1>21. CASE ReadCounter
  <2>1. box[1] \in Box /\ counts' \in {counts, Radix * box[1].hi + low}
    BY <1>21 DEF ReadCounter
  <2>2. ASSUME cb = "read_high" PROVE Radix * box[1].hi + low \in 0 .. MaxReads
    <3>1. low = box[1].lo /\ latency_started
      BY <2>2 DEF PhaseInv, FrozenInv
    <3>2. charged + Value(box[1]) <= counted
      BY <2>2, <3>1 DEF AccountInv, Pending
    <3>3. Value(box[1]) \in Nat /\ Radix * box[1].hi + box[1].lo = Value(box[1])
      BY <2>1, ValueBounds, ValueSum
    <3> QED
      BY <3>1, <3>2, <3>3
  <2>3. counts' \in 0 .. MaxReads /\ low' \in 0 .. Radix - 1
    <3>1. CASE Step("read_low", "read_high") /\ low' = box[1].lo /\ UNCHANGED counts
      BY <2>1, <3>1 DEF Box
    <3>2. CASE /\ Step("read_high", "delay")
               /\ counts' = Radix * box[1].hi + low /\ low' = 0
      BY <2>2, <3>2 DEF Step
    <3> QED
      BY <1>21, <3>1, <3>2, Zenon DEF ReadCounter
  <2>4. cb' \in {"read_high", "delay"} /\ CbUnchanged /\ UNCHANGED <<box, charged>>
    BY <1>21, Zenon DEF ReadCounter, Step
  <2> QED
    BY <2>3, <2>4 DEF CbUnchanged, platform, loader, flags, fixed
\* What is charged after that is at most what was counted.
<1>22. CASE SendDelay
  <2>1. box[1] \in Box /\ latency_started /\ counts = Value(box[1])
    BY <1>22 DEF SendDelay, Step, PhaseInv, FrozenInv
  <2>2. charged + counts <= counted
    BY <1>22, <2>1 DEF AccountInv, Pending, SendDelay, Step
  <2> QED
    BY <1>22, <2>2 DEF SendDelay, Step, CbUnchanged, platform, loader, flags, fixed
<1>23. CASE ClearCounter
  <2>1. box' \in [{0, 1} -> Box]
    BY <1>23, BoxWritten
  <2>2. cb' \in {"write_high", "enable"}
    BY <1>23, Zenon DEF ClearCounter, Step
  <2>3. CbUnchanged /\ UNCHANGED <<low, counts, charged>>
    BY <1>23, Zenon DEF ClearCounter
  <2> QED
    BY <2>1, <2>2, <2>3 DEF CbUnchanged, platform, loader, flags, fixed
<1>24. CASE Restart
  BY <1>24 DEF Restart, Step, CbUnchanged, platform, loader, flags, fixed
\* The high half is at most the counter, and so at most what was counted.
<1>25. ASSUME NEW c \in CPU, RemoteRead(c) PROVE TypeOK'
  <2> USE <1>25
  <2>. counted < MaxReads /\ counted' = counted + 1 /\ charged' = charged
    BY Zenon DEF RemoteRead
  <2>1. box[1] \in Box /\ cb = "idle" /\ cb' = "idle"
    BY DEF RemoteRead, FrozenInv, timers
  <2>2. latency_started \/ pc \in SetUp
    BY DEF RemoteRead, FrozenInv, SetUp
  <2>3. charged + Value(box[1]) <= counted
    BY <2>1, <2>2 DEF AccountInv, Pending
  <2>4. /\ box'[1].lo = (box[1].lo + 1) % Radix
        /\ box'[1].hi = IF box[1].lo + 1 = Radix THEN box[1].hi + 1 ELSE box[1].hi
    BY DEF RemoteRead
  <2>5. box'[1].lo \in 0 .. Radix - 1 /\ Value(box'[1]) = Value(box[1]) + 1
    BY <2>1, <2>4, ValueCounts
  <2>6. box'[1].hi \in 0 .. MaxReads
    <3>1. Value(box[1]) \in Nat /\ Value(box[1]) < MaxReads
      BY <2>1, <2>3, ValueBounds
    <3>2. box[1].hi \in Nat /\ box[1].hi <= Value(box[1])
      BY <2>1, ValueBounds
    <3>3. box[1].hi \in 0 .. MaxReads - 1 /\ MaxReads \in Nat
      BY <3>1, <3>2, EmulateNvmAssumption
    <3>4. box'[1].hi \in {box[1].hi, box[1].hi + 1}
      BY <2>4
    <3> QED
      BY <3>3, <3>4
  <2>7. box' \in [{0, 1} -> Box]
    BY <2>1, <2>4, <2>5, <2>6 DEF RemoteRead
  <2>8. counted' \in 0 .. MaxReads
    OBVIOUS
  <2>9. foreign' \in BOOLEAN
    BY Zenon DEF RemoteRead
  <2>10. UNCHANGED <<platform, loader, flags, timers, fixed>>
    BY DEF RemoteRead
  <2> QED
    BY <2>7, <2>8, <2>9, <2>10 DEF platform, loader, flags, timers, fixed
<1>26. CASE UNCHANGED vars
  BY <1>26 DEF vars, platform, loader, flags, timers, ghosts, fixed
<1> QED
  BY <1>1, <1>2, <1>3, <1>4, <1>5, <1>6, <1>7, <1>8, <1>9, <1>10, <1>11,
     <1>12, <1>13, <1>14, <1>15, <1>16, <1>17, <1>18, <1>19, <1>20, <1>21,
     <1>22, <1>23, <1>24, <1>25, <1>26
  DEF Next, LoaderStep, Callback
-----------------------------------------------------------------------------
(* The inductive invariant.                                                *)

LEMMA IInvInit == Init => IInv
<1> SUFFICES ASSUME Init PROVE IInv
  OBVIOUS
<1> USE EmulateNvmAssumption DEF Init
<1>1. ClearedBox \in Box
  BY DEF ClearedBox
<1>2. TypeOK
  <2>1. box \in [{0, 1} -> Box]
    BY <1>1
  <2>2. /\ procReg \in BOOLEAN /\ throttled \in BOOLEAN /\ foreign \in BOOLEAN
        /\ emulation_started \in BOOLEAN /\ latency_started \in BOOLEAN
    BY Zenon
  <2> QED
    BY <2>1, <2>2 DEF TypeOK, Phase
<1>3. PhaseInv /\ OnlineInv /\ BoundInv
  BY DEF PhaseInv, OnlineInv, BoundInv, Starting, SetUp, Ending, Down
<1>4. FrozenInv /\ AccountInv
  BY DEF FrozenInv, AccountInv, SetUp, ClearedBox
<1> QED
  BY <1>2, <1>3, <1>4 DEF IInv

LEMMA IInvStep == IInv /\ [Next]_vars => IInv'
<1> SUFFICES ASSUME IInv, [Next]_vars PROVE IInv'
  OBVIOUS
<1>1. AccountInv'
  BY AccountStep DEF IInv
<1> QED
  BY <1>1, TypeStep, PhaseStep, OnlineStep, BoundStep, FrozenStep DEF IInv

\* Every reachable state satisfies the inductive invariant.
THEOREM IInvHolds == Spec => []IInv
  BY IInvInit, IInvStep, PTL DEF Spec
-----------------------------------------------------------------------------
(* The properties of EmulateNvm.                                           *)

\* Each variable has its type; in particular the counter, the reads a callback
\* has in hand and what was charged never exceed the reads that were made, however
\* the two halves of the counter carry (emulate_nvm.c:96-117).
THEOREM TypeCorrect == Spec => []TypeOK
<1>1. IInv => TypeOK
  BY DEF IInv
<1> QED
  BY <1>1, IInvHolds, PTL

\* Each read counted in a session is charged once or still in the counter, if no
\* walk takes the emulated CPU down: smp_call_function_single then never fails
\* (emulate_nvm.c:96-117).
THEOREM ChargedOnceHolds == ASSUME Apart PROVE Spec => []ChargedOnce
<1>1. IInv => ChargedOnce
  <2> SUFFICES ASSUME IInv, latency_started PROVE ChargedOnce
    BY DEF ChargedOnce
  <2>1. charged + Pending = counted /\ charged \in Nat
    BY Apart DEF IInv, TypeOK, AccountInv
  <2>2. CASE cb \in {"idle", "read_low", "read_high", "delay"}
    BY <2>1, <2>2 DEF ChargedOnce, Pending
  <2>3. CASE cb \notin {"idle", "read_low", "read_high", "delay"}
    BY <2>1, <2>3 DEF ChargedOnce, Pending
  <2> QED
    BY <2>2, <2>3
<1> QED
  BY <1>1, IInvHolds, PTL

\* A failed insmod and a completed rmmod leave no timer, callback, throttling, proc
\* file, selected event or missing CPU behind (emulate_nvm.c:347-366).
THEOREM NothingLeftBehindHolds == ASSUME Apart PROVE Spec => []NothingLeftBehind
<1>1. IInv => NothingLeftBehind
  <2> SUFFICES ASSUME IInv, pc = "unloaded" \/ (pc = "live" /\ ~emulation_started)
               PROVE  /\ timer = "off" /\ cb = "idle" /\ ~throttled /\ ~procReg
                      /\ \A n \in {0, 1} : ~box[n].sel
                      /\ before \subseteq online
    BY DEF NothingLeftBehind
  <2> USE DEF IInv, TypeOK, PhaseInv, Starting, SetUp, Ending, Down
  <2>1. timer = "off" /\ cb = "idle" /\ ~throttled /\ ~procReg /\ ~latency_started
    OBVIOUS
  <2>2. \A n \in {0, 1} : ~box[n].sel
    BY <2>1 DEF FrozenInv
  <2>3. before \subseteq online
    BY <2>1, Apart DEF OnlineInv
  <2> QED
    BY <2>1, <2>2, <2>3
<1> QED
  BY <1>1, IInvHolds, PTL

\* The boxes are stopped, cleared and freed only when the timer is off and no
\* callback runs (emulate_nvm.c:170-190).
THEOREM TimerBeforeBoxesHolds == Spec => []TimerBeforeBoxes
<1>1. IInv => TimerBeforeBoxes
  BY DEF IInv, TypeOK, PhaseInv, TimerBeforeBoxes, Ending
<1> QED
  BY <1>1, IInvHolds, PTL

\* When insmod is bound to a CPU, the timer runs on the polling CPU, which stays
\* online, through both walks and the last one back (emulate_nvm.c:227-262).
THEOREM PolledByPollingCpuHolds == ASSUME Apart, Bound PROVE Spec => []PolledByPollingCpu
<1>1. IInv => PolledByPollingCpu
  BY Apart, Bound DEF IInv, OnlineInv, BoundInv, PolledByPollingCpu
<1> QED
  BY <1>1, IInvHolds, PTL
-----------------------------------------------------------------------------
(* EmulateNvm implements Charge.  A read of the counter and its clearing    *)
(* stutter; SendDelay is the step that delivers.                           *)

LEMMA PromiseInit == Init => Promise!Init
<1> SUFFICES ASSUME Init PROVE Promise!Init
  OBVIOUS
<1>1. ClearedBox \in Box
  BY EmulateNvmAssumption DEF ClearedBox
<1> QED
  BY <1>1, ValueBounds DEF Init, Promise!Init, ClearedBox

LEMMA PromiseStep ==
  ASSUME Apart, IInv, IInv', [Next]_vars
  PROVE  [Promise!Next]_Promise!vars
<1> USE DEF IInv
<1>1. /\ box[1] \in Box /\ box'[1] \in Box
      /\ box[1].sel \in BOOLEAN /\ box'[1].sel \in BOOLEAN
  BY DEF TypeOK
\* What an action that leaves the counter and its reader alone amounts to.
<1>2. ASSUME box'[1].sel = box[1].sel, Pending' = Pending, charged' = charged
      PROVE  UNCHANGED Promise!vars
  BY <1>2 DEF Promise!vars, Pending
<1>3. ASSUME UNCHANGED <<box, timers, charged>> PROVE UNCHANGED Promise!vars
  BY <1>3, <1>2 DEF Pending, timers, Value
<1>4. CASE \/ Start \/ Finish \/ WrongCpu \/ RightCpu \/ CpuDown \/ DownDone
           \/ StartBandwidth \/ NoHaBox \/ Undo \/ CpuUp \/ FinishUpDone
           \/ FinishBandwidth \/ Reschedule \/ UNCHANGED vars
  <2>1. UNCHANGED <<box, timers, charged>>
    BY <1>4 DEF Start, Finish, WrongCpu, RightCpu, CpuDown, DownDone,
                StartBandwidth, NoHaBox, Undo, CpuUp, FinishUpDone,
                FinishBandwidth, Reschedule, vars, ghosts
  <2> QED
    BY <2>1, <1>3
<1>5. CASE InitBox
  <2>1. ~latency_started /\ cb = "idle" /\ cb' = "idle"
    BY <1>5 DEF InitBox, Goto, TypeOK, PhaseInv, Ending, timers
  <2>2. ~box[1].sel /\ Value(box[1]) = 0
    BY <1>1, <1>5, <2>1, ValueBounds DEF InitBox, Goto, FrozenInv
  <2>3. box'[1] = ClearedBox
    BY <1>5 DEF InitBox, TypeOK
  <2>4. ~box'[1].sel /\ Value(box'[1]) = 0
    <3>1. ~box'[1].sel /\ box'[1].lo = 0 /\ box'[1].hi = 0
      BY <2>3 DEF ClearedBox
    <3> QED
      BY <1>1, <3>1, ValueBounds
  <2>5. charged' = 0
    BY <1>5 DEF InitBox
  <2> QED
    BY <1>1, <2>1, <2>2, <2>4, <2>5 DEF Promise!Next, Promise!Open
<1>6. CASE SetupBox
  <2>1. /\ cb = "idle" /\ cb' = "idle" /\ charged' = charged /\ ~latency_started
        /\ Value(box'[1]) = Value(box[1])
    BY <1>6 DEF SetupBox, Goto, TypeOK, PhaseInv, Ending, timers, ghosts, Value
  <2>2. CASE box'[1].sel = box[1].sel
    BY <1>2, <2>1, <2>2 DEF Pending
  <2>3. CASE box'[1].sel # box[1].sel
    <3>1. pc = "event" /\ pc' = "unfreeze"
      BY <1>1, <1>6, <2>3 DEF SetupBox, Goto, TypeOK
    <3>2. ~box[1].sel /\ box'[1].sel
      BY <3>1, <2>1, <2>3, <1>1 DEF FrozenInv
    <3>3. charged = 0
      BY <3>1 DEF AccountInv, SetUp
    <3> QED
      BY <2>1, <3>2, <3>3, <1>1 DEF Promise!Next, Promise!Begin
  <2> QED
    BY <2>2, <2>3
<1>7. CASE StartTimer \/ CancelTimer
  <2>1. UNCHANGED <<box, cb, charged>>
    BY <1>7 DEF StartTimer, CancelTimer, ghosts
  <2> QED
    BY <1>2, <2>1 DEF Pending, Value
<1>8. CASE StopBoxes
  <2>1. /\ box'[1].sel = box[1].sel /\ Value(box'[1]) = Value(box[1])
        /\ cb' = cb /\ charged' = charged
    BY <1>1, <1>8 DEF StopBoxes, timers, ghosts, Value
  <2> QED
    BY <1>2, <2>1 DEF Pending
<1>9. CASE ClearBoxes
  <2>1. latency_started /\ cb = "idle" /\ cb' = "idle" /\ charged' = charged
    BY <1>9 DEF ClearBoxes, Goto, TypeOK, PhaseInv, Ending, timers, ghosts
  <2>2. box[1].sel
    BY <2>1 DEF FrozenInv
  <2>3. box'[1] = ClearedBox
    BY <1>9 DEF ClearBoxes
  <2>4. ~box'[1].sel /\ Value(box'[1]) = 0
    <3>1. ~box'[1].sel /\ box'[1].lo = 0 /\ box'[1].hi = 0
      BY <2>3 DEF ClearedBox
    <3> QED
      BY <1>1, <3>1, ValueBounds
  <2> QED
    BY <1>1, <2>1, <2>2, <2>4 DEF Promise!Next, Promise!Stop
<1>10. CASE Fire
  <2>1. /\ box'[1].sel = box[1].sel /\ Value(box'[1]) = Value(box[1])
        /\ cb = "idle" /\ cb' = "read_low" /\ charged' = charged
    BY <1>10 DEF Fire, Step, TypeOK, Value
  <2> QED
    BY <1>2, <2>1 DEF Pending
<1>11. CASE ReadCounter
  <2>1. /\ cb \in {"read_low", "read_high"} /\ cb' \in {"read_high", "delay"}
        /\ UNCHANGED <<box, charged>>
    BY <1>11 DEF ReadCounter, Step
  <2> QED
    BY <1>2, <2>1 DEF Pending, Value
<1>12. CASE SendDelay
  <2>1. box[1].sel /\ counts = Value(box[1])
    BY <1>12 DEF SendDelay, Step, FrozenInv, PhaseInv, TypeOK
  <2>2. emulate_nvm_cpu \in online
    BY Apart DEF OnlineInv
  <2>3. cb = "delay" /\ cb' = "write_low" /\ box' = box /\ charged' = charged + counts
    BY <1>12, <2>2 DEF SendDelay, Step
  <2> QED
    BY <2>1, <2>3 DEF Promise!Next, Promise!Deliver
<1>13. CASE ClearCounter
  <2>1. /\ box'[1].sel = box[1].sel
        /\ cb \in {"write_low", "write_high"} /\ cb' \in {"write_high", "enable"}
        /\ charged' = charged
    BY <1>13 DEF ClearCounter, Step, TypeOK
  <2> QED
    BY <1>2, <2>1 DEF Pending
<1>14. CASE Restart
  <2>1. /\ box'[1].sel = box[1].sel /\ box'[1].lo = 0 /\ box'[1].hi = 0
        /\ cb = "enable" /\ cb' = "idle" /\ charged' = charged
    BY <1>14 DEF Restart, Step, TypeOK, FrozenInv
  <2>2. Value(box'[1]) = 0
    BY <1>1, <2>1, ValueBounds
  <2> QED
    BY <1>2, <2>1, <2>2 DEF Pending
<1>15. ASSUME NEW c \in CPU, RemoteRead(c) PROVE Promise!Next
  <2>1. /\ cb = "idle" /\ cb' = "idle" /\ charged' = charged /\ box[1].sel
    BY <1>15 DEF RemoteRead, FrozenInv, timers
  <2>2. /\ box'[1].lo = (box[1].lo + 1) % Radix
        /\ box'[1].hi = IF box[1].lo + 1 = Radix THEN box[1].hi + 1 ELSE box[1].hi
        /\ box'[1].sel = box[1].sel
    BY <1>15 DEF RemoteRead, TypeOK
  <2>3. Value(box'[1]) = Value(box[1]) + 1
    BY <1>1, <2>2, ValueCounts
  <2> QED
    BY <2>1, <2>2, <2>3 DEF Promise!Next, Promise!Read
<1> QED
  BY <1>4, <1>5, <1>6, <1>7, <1>8, <1>9, <1>10, <1>11, <1>12, <1>13, <1>14, <1>15
  DEF Next, LoaderStep, Callback

\* Freezing the box, reading it in two halves, delaying the emulated CPU and
\* clearing the counter in two halves amount to one step that charges all pending
\* reads, each of them once; loading and unloading open and close the account
\* (emulate_nvm.c:83-125, 127-190).
THEOREM ImplementsChargeHolds == ASSUME Apart PROVE Spec => ImplementsCharge
<1>1. IInv /\ IInv' /\ [Next]_vars => [Promise!Next]_Promise!vars
  BY Apart, PromiseStep
<1> QED
  BY <1>1, PromiseInit, IInvHolds, PTL DEF Spec, ImplementsCharge, Promise!Spec
=============================================================================
