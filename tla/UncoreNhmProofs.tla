---------------------------- MODULE UncoreNhmProofs ----------------------------
(***************************************************************************)
(* Proofs about UncoreNhm, for every set of CPUs on two nodes and every    *)
(* width of the counter.                                                   *)
(*                                                                         *)
(* The callback runs only while the timer is armed, so insmod finds it     *)
(* idle and rmmod leaves it idle (SessionInv).  What the callback has read *)
(* was counted, whatever the counter does until it is zeroed (ChargeInv).  *)
(* After the first tick the counter stays behind the number of writes      *)
(* (TickInv).  What rmmod has cleared stays clear, because a cleared       *)
(* counter does not count and the callback can only write zero (ClearInv). *)
(***************************************************************************)
EXTENDS UncoreNhm, TLAPS

\* Between the reset of the session's figures and the start of its timer.
Starting == {"clear", "pmc", "sel", "enable", "start"}

SessionInv ==
    /\ online \in {CPU, CPU \ {SURVIVOR}}
    /\ timer = "armed" <=> pc \in {"live", "exit_clear", "cancel"}
    /\ cb # "idle" => timer = "armed"
    /\ pc \in Starting \cup {"unloaded", "removed"} => call = NoCall
    /\ pc \in Starting => asked = 0 /\ ~ticked

Counter == pmu[NodeOf[home]].pmc

ChargeInv ==
    /\ pc \in {"sel", "enable", "start"} => Counter <= counted + INITVAL
    /\ pc = "live" =>
           /\ NeverTwice
           /\ cb = "send" => asked + cnt <= counted + INITVAL
           /\ cb = "zero" => asked <= counted + INITVAL

TickInv == pc = "live" /\ ticked => Counter <= counted

Targets == <<XYZ, SURVIVOR>>

\* The nodes that clear_all is done with in rmmod, and the one it is at.
ClearInv ==
    \A i \in 1 .. 2 :
        LET v == pmu[NodeOf[Targets[i]]]
        IN  Targets[i] \in online =>
                /\ \/ pc \in {"cancel", "free", "removed"}
                   \/ pc = "exit_clear" /\ i < pos
                   => v = Cleared
                /\ pc = "exit_clear" /\ i = pos =>
                       /\ stp > 0 => ~v.en /\ ~v.frz
                       /\ stp > 1 => v.pmc = 0

IInv == TypeOK /\ SessionInv /\ ChargeInv /\ TickInv /\ ClearInv

-----------------------------------------------------------------------------
(* The registers of a node.                                                *)

LEMMA Constants ==
  /\ INITVAL \in PmcValue /\ INITVAL \in 1 .. PmcMod - 1 /\ 0 \in PmcValue
  /\ PmcMod \in Nat /\ MaxWrites \in 0 .. PmcMod - 1
  /\ SURVIVOR \in CPU /\ XYZ \in CPU /\ XYZ # SURVIVOR
BY UncoreNhmAssumption DEF INITVAL, PmcValue

\* A counter counts up to its width and then from zero.
LEMMA Count ==
  ASSUME NEW x \in PmcValue
  PROVE  /\ (x + 1) % PmcMod \in PmcValue
         /\ (x + 1) % PmcMod <= x + 1
         /\ x + 1 < PmcMod => (x + 1) % PmcMod = x + 1
BY Constants DEF PmcValue

\* What writing one register of node n does, to that node and to others.
SetControl(P, n, e, f) == [P EXCEPT ![n].en = e, ![n].frz = f]
SetPmc(P, n, k)        == [P EXCEPT ![n].pmc = k]
SetSel(P, n, e)        == [P EXCEPT ![n].sel = e]
CountOne(P, n, e)      == [P EXCEPT ![n].pmc = (@ + 1) % PmcMod, ![n].en = e]

LEMMA ControlWrite ==
  ASSUME NEW P \in [Node -> PmuValue], NEW n \in Node,
         NEW e, e \in BOOLEAN, NEW f, f \in BOOLEAN,
         NEW Q, Q = SetControl(P, n, e, f)
  PROVE  /\ Q \in [Node -> PmuValue]
         /\ \A m \in Node \ {n} : Q[m] = P[m]
         /\ Q[n].en = e /\ Q[n].frz = f /\ Q[n].pmc = P[n].pmc /\ Q[n].sel = P[n].sel
BY DEF PmuValue, SetControl

LEMMA PmcWrite ==
  ASSUME NEW P \in [Node -> PmuValue], NEW n \in Node, NEW k \in PmcValue,
         NEW Q, Q = SetPmc(P, n, k)
  PROVE  /\ Q \in [Node -> PmuValue]
         /\ \A m \in Node \ {n} : Q[m] = P[m]
         /\ Q[n].pmc = k /\ Q[n].en = P[n].en /\ Q[n].frz = P[n].frz
         /\ Q[n].sel = P[n].sel
BY DEF PmuValue, SetPmc

LEMMA SelWrite ==
  ASSUME NEW P \in [Node -> PmuValue], NEW n \in Node,
         NEW e \in {"none", "other", "remote_writes"},
         NEW Q, Q = SetSel(P, n, e)
  PROVE  /\ Q \in [Node -> PmuValue]
         /\ \A m \in Node \ {n} : Q[m] = P[m]
         /\ Q[n].sel = e /\ Q[n].en = P[n].en /\ Q[n].frz = P[n].frz
         /\ Q[n].pmc = P[n].pmc
BY DEF PmuValue, SetSel

LEMMA CountWrite ==
  ASSUME NEW P \in [Node -> PmuValue], NEW n \in Node, NEW e, e \in BOOLEAN,
         NEW Q, Q = CountOne(P, n, e)
  PROVE  /\ Q \in [Node -> PmuValue]
         /\ \A m \in Node \ {n} : Q[m] = P[m]
         /\ Q[n].pmc = (P[n].pmc + 1) % PmcMod /\ Q[n].en = e
         /\ Q[n].frz = P[n].frz /\ Q[n].sel = P[n].sel
<1>1. P[n].pmc \in PmcValue
  BY DEF PmuValue
<1>2. (P[n].pmc + 1) % PmcMod \in PmcValue
  BY <1>1, Count
<1>3. \A k \in PmcValue :
         LET R == [P EXCEPT ![n].pmc = k, ![n].en = e]
         IN  /\ R \in [Node -> PmuValue]
             /\ \A m \in Node \ {n} : R[m] = P[m]
             /\ R[n].pmc = k /\ R[n].en = e /\ R[n].frz = P[n].frz /\ R[n].sel = P[n].sel
  BY DEF PmuValue
<1> QED
  BY <1>2, <1>3 DEF CountOne

\* A register whose parts are clear is clear.
LEMMA ClearedParts ==
  ASSUME NEW v \in PmuValue
  PROVE  v = Cleared <=> ~v.en /\ ~v.frz /\ v.sel = "none" /\ v.pmc = 0
BY DEF PmuValue, Cleared

LEMMA TargetFacts ==
  ASSUME TypeOK
  PROVE  /\ Target = Targets[pos] /\ Target \in {XYZ, SURVIVOR}
         /\ NodeOf[Target] \in Node /\ NodeOf[home] \in Node
         /\ Targets[1] = XYZ /\ Targets[2] = SURVIVOR
         /\ NodeOf[XYZ] \in Node /\ NodeOf[SURVIVOR] \in Node
         /\ NodeOf[XYZ] # NodeOf[SURVIVOR]
<1> USE UncoreNhmAssumption DEF TypeOK, Target, Targets, Node
<1>1. pos \in {1, 2} /\ home \in CPU
  OBVIOUS
<1> QED
  BY <1>1

\* What each action that writes registers does to them.
LEMMA ClearMsrsWrites ==
  ASSUME TypeOK, ClearMsrs
  PROVE  LET n == NodeOf[Target]
         IN  /\ pmu' \in [Node -> PmuValue]
             /\ \A m \in Node \ {n} : pmu'[m] = pmu[m]
             /\ stp = 0 => ~pmu'[n].en /\ ~pmu'[n].frz
             /\ stp = 1 => /\ pmu'[n].en = pmu[n].en /\ pmu'[n].frz = pmu[n].frz
                           /\ pmu'[n].pmc = 0
             /\ stp = 2 => /\ pmu'[n].en = pmu[n].en /\ pmu'[n].frz = pmu[n].frz
                           /\ pmu'[n].pmc = pmu[n].pmc /\ pmu'[n].sel = "none"
<1> DEFINE n == NodeOf[Target]
<1>1. n \in Node /\ pmu \in [Node -> PmuValue] /\ 0 \in PmcValue /\ FALSE \in BOOLEAN
  BY TargetFacts, Constants DEF TypeOK
<1> HIDE DEF n
<1>2. CASE stp = 0
  <2>1. PICK e \in BOOLEAN : ~e /\ pmu' = SetControl(pmu, n, e, e)
    <3>1. pmu' = SetControl(pmu, n, FALSE, FALSE)
      BY <1>2 DEF ClearMsrs, SetControl, n
    <3> QED
      BY <3>1, Zenon
  <2>2. /\ pmu' \in [Node -> PmuValue]
        /\ \A m \in Node \ {n} : pmu'[m] = pmu[m]
        /\ pmu'[n].en = e /\ pmu'[n].frz = e
    BY <1>1, <2>1, ControlWrite
  <2>3. ~pmu'[n].en /\ ~pmu'[n].frz
    BY <2>1, <2>2, Zenon
  <2> QED
    BY <1>2, <2>2, <2>3 DEF n
<1>3. CASE stp = 1
  <2>1. pmu' = SetPmc(pmu, n, 0)
    BY <1>3 DEF ClearMsrs, SetPmc, n
  <2>2. /\ pmu' \in [Node -> PmuValue]
        /\ \A m \in Node \ {n} : pmu'[m] = pmu[m]
        /\ pmu'[n].en = pmu[n].en /\ pmu'[n].frz = pmu[n].frz /\ pmu'[n].pmc = 0
    BY <1>1, <2>1, PmcWrite
  <2> QED
    BY <1>3, <2>2 DEF n
<1>4. CASE stp = 2
  <2>1. pmu' = SetSel(pmu, n, "none") /\ "none" \in {"none", "other", "remote_writes"}
    BY <1>4 DEF ClearMsrs, SetSel, n
  <2>2. /\ pmu' \in [Node -> PmuValue]
        /\ \A m \in Node \ {n} : pmu'[m] = pmu[m]
        /\ pmu'[n].en = pmu[n].en /\ pmu'[n].frz = pmu[n].frz
        /\ pmu'[n].pmc = pmu[n].pmc /\ pmu'[n].sel = "none"
    BY <1>1, <2>1, SelWrite
  <2> QED
    BY <1>4, <2>2 DEF n
<1> QED
  BY <1>2, <1>3, <1>4 DEF TypeOK

LEMMA SetEventWrites ==
  ASSUME TypeOK, SetEvent
  PROVE  /\ pmu' \in [Node -> PmuValue]
         /\ pmu'[NodeOf[home]].pmc = IF pc = "pmc" THEN INITVAL ELSE pmu[NodeOf[home]].pmc
<1>1. NodeOf[home] \in Node /\ pmu \in [Node -> PmuValue] /\ INITVAL \in PmcValue
  BY TargetFacts, Constants DEF TypeOK
<1>2. CASE pc = "pmc" /\ pmu' = SetPmc(pmu, NodeOf[home], INITVAL)
  <2>1. pmu' \in [Node -> PmuValue] /\ pmu'[NodeOf[home]].pmc = INITVAL
    BY <1>1, <1>2, PmcWrite
  <2> QED
    BY <1>2, <2>1
<1>3. CASE pc = "sel" /\ pmu' = SetSel(pmu, NodeOf[home], "remote_writes")
  <2>1. "remote_writes" \in {"none", "other", "remote_writes"}
    OBVIOUS
  <2>2. pmu' \in [Node -> PmuValue] /\ pmu'[NodeOf[home]].pmc = pmu[NodeOf[home]].pmc
    BY <1>1, <1>3, <2>1, SelWrite
  <2> QED
    BY <1>3, <2>2
<1> QED
  BY <1>2, <1>3 DEF SetEvent, Goto, SetPmc, SetSel

LEMMA EnableWrites ==
  ASSUME TypeOK, EnableCounting
  PROVE  /\ pmu' \in [Node -> PmuValue]
         /\ pmu'[NodeOf[home]].pmc = pmu[NodeOf[home]].pmc
<1>1. PICK n \in Node : n = NodeOf[home] /\ pmu \in [Node -> PmuValue]
  BY TargetFacts DEF TypeOK
<1>2. PICK e \in BOOLEAN, f \in BOOLEAN : pmu' = SetControl(pmu, n, e, f)
  BY <1>1, Zenon DEF EnableCounting, SetControl
<1>3. pmu' \in [Node -> PmuValue] /\ pmu'[n].pmc = pmu[n].pmc
  BY <1>1, <1>2, ControlWrite
<1> QED
  BY <1>1, <1>3

LEMMA ZeroWrites ==
  ASSUME TypeOK, ZeroCounter
  PROVE  LET n == NodeOf[home]
         IN  /\ pmu' \in [Node -> PmuValue]
             /\ \A m \in Node \ {n} : pmu'[m] = pmu[m]
             /\ pmu'[n].en = pmu[n].en /\ pmu'[n].frz = pmu[n].frz
             /\ pmu'[n].pmc = 0 /\ pmu'[n].sel = pmu[n].sel
<1>1. NodeOf[home] \in Node /\ pmu \in [Node -> PmuValue] /\ 0 \in PmcValue
  BY TargetFacts, Constants DEF TypeOK
<1>2. pmu' = SetPmc(pmu, NodeOf[home], 0)
  BY DEF ZeroCounter, SetPmc
<1> QED
  BY <1>1, <1>2, PmcWrite

LEMMA RemoteWrites ==
  ASSUME TypeOK, RemoteWrite
  PROVE  LET n == NodeOf[home]
         IN  /\ pmu' \in [Node -> PmuValue]
             /\ \A m \in Node \ {n} : pmu'[m] = pmu[m]
             /\ pmu'[n].pmc = (pmu[n].pmc + 1) % PmcMod
             /\ pmu'[n].en = ~(pmu[n].frz /\ pmu[n].pmc = PmcMod - 1)
<1>1. PICK n \in Node : n = NodeOf[home] /\ pmu \in [Node -> PmuValue]
  BY TargetFacts DEF TypeOK
<1>2. PICK e \in BOOLEAN : /\ e = ~(pmu[n].frz /\ pmu[n].pmc = PmcMod - 1)
                           /\ pmu' = CountOne(pmu, n, e)
  BY <1>1, Zenon DEF RemoteWrite, CountOne
<1>3. e \in BOOLEAN /\ pmu' = CountOne(pmu, n, e)
  BY <1>2, Zenon
<1>4. /\ pmu' \in [Node -> PmuValue]
      /\ \A m \in Node \ {n} : pmu'[m] = pmu[m]
      /\ pmu'[n].pmc = (pmu[n].pmc + 1) % PmcMod
      /\ pmu'[n].en = e
  BY <1>1, <1>3, CountWrite
<1> QED
  BY <1>1, <1>2, <1>4, Zenon

-----------------------------------------------------------------------------
(* Preservation of the parts of IInv, action by action.                    *)

LEMMA TypeStep ==
  ASSUME TypeOK, SessionInv, [Next]_vars
  PROVE  TypeOK'
<1> USE DEF TypeOK, loader, ghosts
<1>1. /\ NodeOf[Target] \in Node /\ NodeOf[home] \in Node /\ pmu \in [Node -> PmuValue]
      /\ INITVAL \in PmcValue /\ 0 \in PmcValue /\ MaxWrites \in Nat
      /\ PmcValue \subseteq Nat
  BY TargetFacts, Constants DEF PmcValue
<1>2. CASE Insmod
  <2>1. stale' \in BOOLEAN /\ ticked' \in BOOLEAN
    BY <1>2, Zenon DEF Insmod
  <2> QED
    BY <1>1, <1>2, <2>1 DEF Insmod
<1>3. CASE SkipOffline
  BY <1>3 DEF SkipOffline, NextTarget, Clearing
<1>4. CASE ClearMsrs
  <2>1. pmu' \in [Node -> PmuValue]
    BY <1>1, <1>4, ClearMsrsWrites
  <2> QED
    BY <1>4, <2>1 DEF ClearMsrs, NextTarget, Clearing
<1>5. CASE SetEvent
  <2>1. pmu' \in [Node -> PmuValue]
    BY <1>5, SetEventWrites
  <2> QED
    BY <1>5, <2>1 DEF SetEvent, Goto
<1>6. CASE EnableCounting
  <2>1. pmu' \in [Node -> PmuValue]
    BY <1>6, EnableWrites
  <2> QED
    BY <1>6, <2>1 DEF EnableCounting, Goto
<1>7. CASE StartTimer
  BY <1>7 DEF StartTimer, Goto
<1>8. CASE Rmmod
  BY <1>8 DEF Rmmod
<1>9. CASE CancelTimer
  BY <1>9 DEF CancelTimer, Goto
<1>10. CASE FreeModule
  BY <1>10 DEF FreeModule, Goto
<1>11. CASE RemoteWrite
  <2>1. pmu' \in [Node -> PmuValue]
    BY <1>11, RemoteWrites
  <2>2. counted' \in 0 .. MaxWrites
    BY <1>1, <1>11 DEF RemoteWrite
  <2> QED
    BY <1>11, <2>1, <2>2 DEF RemoteWrite
<1>12. CASE Fire
  <2>1. cnt' \in PmcValue
    BY <1>1, <1>12 DEF Fire, PmuValue
  <2> QED
    BY <1>12, <2>1 DEF Fire, Step
<1>13. CASE SendDelay
  <2>1. asked' \in Nat /\ delayed' \in Nat /\ call' \in [ns : PmcValue] \cup {NoCall}
    BY <1>1, <1>13 DEF SendDelay, PmcValue
  <2> QED
    BY <1>13, <2>1 DEF SendDelay, Step
<1>14. CASE ZeroCounter
  <2>1. pmu' \in [Node -> PmuValue]
    BY <1>14, ZeroWrites
  <2>2. ticked' \in BOOLEAN
    BY <1>14, Zenon DEF ZeroCounter
  <2> QED
    BY <1>1, <1>14, <2>1, <2>2 DEF ZeroCounter, Step
<1>15. CASE Restart
  BY <1>15 DEF Restart, Step
<1>16. CASE TakeCall
  <2>1. busy' \in BOOLEAN /\ stale' \in BOOLEAN
    BY <1>16, Zenon DEF TakeCall
  <2>2. delayed' \in Nat
    BY <1>1, <1>16 DEF TakeCall, PmcValue
  <2> QED
    BY <1>16, <2>1, <2>2 DEF TakeCall
<1>17. CASE DelayDone
  BY <1>17 DEF DelayDone
<1>18. CASE UNCHANGED vars
  BY <1>18 DEF vars
<1> QED
  BY <1>2, <1>3, <1>4, <1>5, <1>6, <1>7, <1>8, <1>9, <1>10, <1>11, <1>12, <1>13,
     <1>14, <1>15, <1>16, <1>17, <1>18
  DEF Next, LoaderStep, Callback

LEMMA SessionStep ==
  ASSUME TypeOK, SessionInv, [Next]_vars
  PROVE  SessionInv'
<1> USE DEF SessionInv, Starting, TypeOK, loader, ghosts
<1>1. CASE Insmod
  BY <1>1 DEF Insmod
<1>2. CASE SkipOffline
  BY <1>2 DEF SkipOffline, NextTarget, Clearing
<1>3. CASE ClearMsrs
  BY <1>3 DEF ClearMsrs, NextTarget, Clearing
<1>4. CASE SetEvent
  BY <1>4 DEF SetEvent, Goto
<1>5. CASE EnableCounting
  BY <1>5 DEF EnableCounting, Goto
<1>6. CASE StartTimer
  BY <1>6 DEF StartTimer, Goto
<1>7. CASE Rmmod
  BY <1>7 DEF Rmmod
<1>8. CASE CancelTimer
  BY <1>8 DEF CancelTimer, Goto
<1>9. CASE FreeModule
  BY <1>9 DEF FreeModule, Goto
<1>10. CASE RemoteWrite
  BY <1>10 DEF RemoteWrite
<1>11. CASE Fire
  BY <1>11 DEF Fire, Step
<1>12. CASE SendDelay
  BY <1>12 DEF SendDelay, Step
<1>13. CASE ZeroCounter
  BY <1>13 DEF ZeroCounter, Step
<1>14. CASE Restart
  BY <1>14 DEF Restart, Step
<1>15. CASE TakeCall
  BY <1>15 DEF TakeCall
<1>16. CASE DelayDone
  BY <1>16 DEF DelayDone
<1>17. CASE UNCHANGED vars
  BY <1>17 DEF vars
<1> QED
  BY <1>1, <1>2, <1>3, <1>4, <1>5, <1>6, <1>7, <1>8, <1>9, <1>10, <1>11, <1>12,
     <1>13, <1>14, <1>15, <1>16, <1>17
  DEF Next, LoaderStep, Callback

LEMMA ChargeStep ==
  ASSUME TypeOK, SessionInv, ChargeInv, [Next]_vars
  PROVE  ChargeInv'
<1> USE DEF ChargeInv, NeverTwice, Counter, SessionInv, Starting, loader, ghosts
<1>1. /\ Counter \in PmcValue /\ Counter \in Nat /\ cnt \in Nat /\ INITVAL \in Nat
      /\ counted \in Nat /\ asked \in Nat
  BY TargetFacts, Constants DEF TypeOK, PmuValue, PmcValue
<1>2. CASE Insmod
  BY <1>1, <1>2 DEF Insmod
<1>3. CASE SkipOffline
  BY <1>1, <1>3 DEF SkipOffline, NextTarget, Clearing
<1>4. CASE ClearMsrs
  BY <1>1, <1>4 DEF ClearMsrs, NextTarget, Clearing
<1>5. CASE SetEvent
  <2>1. Counter' = IF pc = "pmc" THEN INITVAL ELSE Counter
    BY <1>5, SetEventWrites DEF SetEvent
  <2> QED
    BY <1>1, <1>5, <2>1 DEF SetEvent, Goto
<1>6. CASE EnableCounting
  <2>1. Counter' = Counter
    BY <1>6, EnableWrites DEF EnableCounting
  <2> QED
    BY <1>1, <1>6, <2>1 DEF EnableCounting, Goto
<1>7. CASE StartTimer
  <2>1. cb = "idle" /\ asked = 0 /\ Counter <= counted + INITVAL
    BY <1>7 DEF StartTimer, Goto
  <2>2. UNCHANGED <<pmu, home, cb, asked, counted, cnt>>
    BY <1>7 DEF StartTimer
  <2>3. Counter' = Counter
    BY <2>2
  <2>4. Counter' \in Nat /\ Counter' <= counted' + INITVAL /\ asked' = 0 /\ cb' = "idle"
    BY <1>1, <2>1, <2>2, <2>3
  <2> QED
    BY <1>1, <1>7, <2>4 DEF StartTimer, Goto
<1>8. CASE Rmmod
  BY <1>1, <1>8 DEF Rmmod
<1>9. CASE CancelTimer
  BY <1>1, <1>9 DEF CancelTimer, Goto
<1>10. CASE FreeModule
  BY <1>1, <1>10 DEF FreeModule, Goto
<1>11. CASE RemoteWrite
  <2>1. Counter' <= Counter + 1 /\ Counter' \in Nat
    <3>1. Counter' = (Counter + 1) % PmcMod
      BY <1>11, RemoteWrites DEF RemoteWrite
    <3> QED
      BY <1>1, <3>1, Count DEF PmcValue
  <2> QED
    BY <1>1, <1>11, <2>1 DEF RemoteWrite
<1>12. CASE Fire
  BY <1>1, <1>12 DEF Fire, Step
<1>13. CASE SendDelay
  <2>1. /\ cb = "send" /\ cb' = "zero" 
        /\ asked' = asked \/ asked' = asked + cnt
        /\ UNCHANGED <<pmu, home, pc, counted, cnt>>
    BY <1>13 DEF SendDelay, Step
  <2>2. Counter' = Counter
    BY <2>1
  <2>3. asked' \in Nat /\ asked <= asked' /\ asked' <= asked + cnt
    BY <1>1, <2>1
  <2>4. ASSUME pc = "live" PROVE /\ asked' + Counter' <= counted' + INITVAL + cnt'
                                /\ asked' <= counted' + INITVAL
    BY <1>1, <2>1, <2>2, <2>3, <2>4
  <2> QED
    BY <2>1, <2>2, <2>4
<1>14. CASE ZeroCounter
  <2>1. Counter' = 0
    BY <1>14, ZeroWrites DEF ZeroCounter
  <2> QED
    BY <1>1, <1>14, <2>1 DEF ZeroCounter, Step
<1>15. CASE Restart
  BY <1>1, <1>15 DEF Restart, Step
<1>16. CASE TakeCall
  BY <1>1, <1>16 DEF TakeCall
<1>17. CASE DelayDone
  BY <1>1, <1>17 DEF DelayDone
<1>18. CASE UNCHANGED vars
  BY <1>1, <1>18 DEF vars
<1> QED
  BY <1>2, <1>3, <1>4, <1>5, <1>6, <1>7, <1>8, <1>9, <1>10, <1>11, <1>12, <1>13,
     <1>14, <1>15, <1>16, <1>17, <1>18
  DEF Next, LoaderStep, Callback

LEMMA TickStep ==
  ASSUME TypeOK, SessionInv, TickInv, [Next]_vars
  PROVE  TickInv'
<1> USE DEF TickInv, Counter, SessionInv, Starting, loader, ghosts
<1>1. Counter \in PmcValue /\ Counter \in Nat /\ counted \in Nat
  BY TargetFacts, Constants DEF TypeOK, PmuValue, PmcValue
<1>2. CASE Insmod
  BY <1>1, <1>2 DEF Insmod
<1>3. CASE SkipOffline
  BY <1>1, <1>3 DEF SkipOffline, NextTarget, Clearing
<1>4. CASE ClearMsrs
  BY <1>1, <1>4 DEF ClearMsrs, NextTarget, Clearing
<1>5. CASE SetEvent
  BY <1>1, <1>5 DEF SetEvent, Goto
<1>6. CASE EnableCounting
  BY <1>1, <1>6 DEF EnableCounting, Goto
<1>7. CASE StartTimer
  BY <1>1, <1>7 DEF StartTimer, Goto
<1>8. CASE Rmmod
  BY <1>1, <1>8 DEF Rmmod
<1>9. CASE CancelTimer
  BY <1>1, <1>9 DEF CancelTimer, Goto
<1>10. CASE FreeModule
  BY <1>1, <1>10 DEF FreeModule, Goto
<1>11. CASE RemoteWrite
  <2>1. Counter' <= Counter + 1 /\ Counter' \in Nat
    <3>1. Counter' = (Counter + 1) % PmcMod
      BY <1>11, RemoteWrites DEF RemoteWrite
    <3> QED
      BY <1>1, <3>1, Count DEF PmcValue
  <2> QED
    BY <1>1, <1>11, <2>1 DEF RemoteWrite
<1>12. CASE Fire
  BY <1>1, <1>12 DEF Fire, Step
<1>13. CASE SendDelay
  BY <1>1, <1>13 DEF SendDelay, Step
<1>14. CASE ZeroCounter
  <2>1. Counter' = 0
    BY <1>14, ZeroWrites DEF ZeroCounter
  <2> QED
    BY <1>1, <1>14, <2>1 DEF ZeroCounter, Step
<1>15. CASE Restart
  BY <1>1, <1>15 DEF Restart, Step
<1>16. CASE TakeCall
  BY <1>1, <1>16 DEF TakeCall
<1>17. CASE DelayDone
  BY <1>1, <1>17 DEF DelayDone
<1>18. CASE UNCHANGED vars
  BY <1>1, <1>18 DEF vars
<1> QED
  BY <1>2, <1>3, <1>4, <1>5, <1>6, <1>7, <1>8, <1>9, <1>10, <1>11, <1>12, <1>13,
     <1>14, <1>15, <1>16, <1>17, <1>18
  DEF Next, LoaderStep, Callback

LEMMA ClearStep ==
  ASSUME TypeOK, ClearInv, [Next]_vars
  PROVE  ClearInv'
<1> USE DEF loader, ghosts
<1>1. /\ pos \in 1 .. 2 /\ stp \in 0 .. 2 /\ Target = Targets[pos]
      /\ \A i \in 1 .. 2 : NodeOf[Targets[i]] \in Node
                           /\ pmu[NodeOf[Targets[i]]] \in PmuValue
      /\ \A i \in 1 .. 2 : i # pos => NodeOf[Targets[i]] # NodeOf[Target]
      /\ NodeOf[home] \in Node
  <2>1. \A i \in 1 .. 2 : i = 1 \/ i = 2
    OBVIOUS
  <2> QED
    BY <2>1, TargetFacts DEF TypeOK
\* Actions that write no register, and those of insmod.
<1>2. ASSUME UNCHANGED <<online, pmu, pc, pos, stp>> PROVE ClearInv'
  BY <1>2 DEF ClearInv
<1>3. ASSUME pc' \notin {"exit_clear", "cancel", "free", "removed"} PROVE ClearInv'
  BY <1>3 DEF ClearInv
\* A node that is cleared, or whose counter is off, is not counted on; and zero is
\* what a cleared counter has.
<1>4. ASSUME NEW n \in Node,
             \/ pmu[n].en
             \/ /\ pmu'[n].en = pmu[n].en /\ pmu'[n].frz = pmu[n].frz
                /\ pmu'[n].sel = pmu[n].sel /\ pmu'[n].pmc = 0,
             pmu' \in [Node -> PmuValue], \A m \in Node \ {n} : pmu'[m] = pmu[m],
             UNCHANGED <<online, pc, pos, stp>>
      PROVE  ClearInv'
  <2> SUFFICES ASSUME NEW i \in 1 .. 2, Targets[i] \in online
               PROVE  LET v == pmu'[NodeOf[Targets[i]]]
                      IN  /\ \/ pc \in {"cancel", "free", "removed"}
                             \/ pc = "exit_clear" /\ i < pos
                             => v = Cleared
                          /\ pc = "exit_clear" /\ i = pos =>
                                 /\ stp > 0 => ~v.en /\ ~v.frz
                                 /\ stp > 1 => v.pmc = 0
    BY <1>4 DEF ClearInv
  <2>1. CASE NodeOf[Targets[i]] # n
    BY <1>1, <1>4, <2>1 DEF ClearInv
  <2>2. CASE NodeOf[Targets[i]] = n
    <3>1. pmu[n] \in PmuValue /\ pmu'[n] \in PmuValue
      BY <1>1, <1>4, <2>2
    <3>2. pmu[n] = Cleared => pmu'[n] = Cleared
      BY <1>4, <3>1, ClearedParts
    <3> QED
      BY <1>1, <1>4, <2>2, <3>2 DEF ClearInv
  <2> QED
    BY <2>1, <2>2
<1>5. CASE Insmod
  BY <1>3, <1>5 DEF Insmod
<1>6. CASE SkipOffline
  <2>1. CASE pc = "clear"
    BY <1>3, <1>6, <2>1 DEF SkipOffline, NextTarget
  <2>2. CASE pc = "exit_clear"
    BY <1>1, <1>6, <2>2 DEF SkipOffline, NextTarget, ClearInv
  <2> QED
    BY <1>6, <2>1, <2>2 DEF SkipOffline, Clearing
<1>7. CASE ClearMsrs
  <2>1. CASE pc = "clear"
    BY <1>3, <1>7, <2>1 DEF ClearMsrs, NextTarget
  <2>2. CASE pc = "exit_clear"
    <3>1. /\ pmu' \in [Node -> PmuValue]
          /\ \A m \in Node \ {NodeOf[Target]} : pmu'[m] = pmu[m]
          /\ online' = online
      BY <1>7, TargetFacts, ClearMsrsWrites DEF ClearMsrs
    <3> DEFINE v == pmu[NodeOf[Targets[pos]]]
               w == pmu'[NodeOf[Targets[pos]]]
    <3>2. CASE stp = 0
      <4>1. ~w.en /\ ~w.frz /\ stp' = 1 /\ UNCHANGED <<pc, pos>>
        BY <1>1, <1>7, <3>2, ClearMsrsWrites DEF ClearMsrs
      <4> QED
        BY <1>1, <2>2, <3>1, <4>1 DEF ClearInv
    <3>3. CASE stp = 1
      <4>1. /\ w.en = v.en /\ w.frz = v.frz /\ w.pmc = 0
            /\ stp' = 2 /\ UNCHANGED <<pc, pos>>
        BY <1>1, <1>7, <3>3, ClearMsrsWrites DEF ClearMsrs
      <4>2. ~v.en /\ ~v.frz
        BY <1>1, <1>7, <2>2, <3>3 DEF ClearInv, ClearMsrs
      <4> QED
        BY <1>1, <2>2, <3>1, <4>1, <4>2 DEF ClearInv
    <3>4. CASE stp = 2
      <4>1. /\ w.en = v.en /\ w.frz = v.frz /\ w.pmc = v.pmc /\ w.sel = "none"
            /\ NextTarget
        BY <1>1, <1>7, <3>4, ClearMsrsWrites DEF ClearMsrs
      <4>2. ~v.en /\ ~v.frz /\ v.pmc = 0
        BY <1>1, <1>7, <2>2, <3>4 DEF ClearInv, ClearMsrs
      <4>3. w = Cleared
        <5>1. w \in PmuValue
          BY <1>1, <3>1
        <5> QED
          BY <4>1, <4>2, <5>1, ClearedParts
      <4> QED
        BY <1>1, <2>2, <3>1, <4>1, <4>3 DEF ClearInv, NextTarget
    <3> QED
      BY <1>1, <3>2, <3>3, <3>4
  <2> QED
    BY <1>7, <2>1, <2>2 DEF ClearMsrs, Clearing
<1>8. CASE SetEvent
  BY <1>3, <1>8 DEF SetEvent, Goto
<1>9. CASE EnableCounting
  BY <1>3, <1>9 DEF EnableCounting, Goto
<1>10. CASE StartTimer
  BY <1>3, <1>10 DEF StartTimer, Goto
<1>11. CASE Rmmod
  BY <1>1, <1>11 DEF Rmmod, ClearInv
<1>12. CASE CancelTimer
  BY <1>12 DEF CancelTimer, Goto, ClearInv
<1>13. CASE FreeModule
  BY <1>13 DEF FreeModule, Goto, ClearInv
<1>14. CASE RemoteWrite
  <2>1. PICK n \in Node : n = NodeOf[home]
    BY <1>1
  <2>2. /\ UNCHANGED <<online, pc, pos, stp>>
        /\ pmu' \in [Node -> PmuValue]
        /\ \A m \in Node \ {n} : pmu'[m] = pmu[m]
    BY <1>14, <2>1, RemoteWrites DEF RemoteWrite
  <2>3. pmu[n].en
    BY <1>14, <2>1, Zenon DEF RemoteWrite
  <2> QED
    BY <1>4, <2>2, <2>3, Zenon
<1>15. CASE Fire
  BY <1>2, <1>15 DEF Fire, Step
<1>16. CASE SendDelay
  BY <1>2, <1>16 DEF SendDelay, Step
<1>17. CASE ZeroCounter
  <2>1. /\ UNCHANGED <<online, pc, pos, stp>>
        /\ pmu' \in [Node -> PmuValue]
        /\ \A m \in Node \ {NodeOf[home]} : pmu'[m] = pmu[m]
    BY <1>17, ZeroWrites DEF ZeroCounter
  <2>2. LET n == NodeOf[home]
        IN  /\ pmu'[n].en = pmu[n].en /\ pmu'[n].frz = pmu[n].frz
            /\ pmu'[n].sel = pmu[n].sel /\ pmu'[n].pmc = 0
    BY <1>17, ZeroWrites
  <2> QED
    BY <1>1, <1>4, <2>1, <2>2
<1>18. CASE Restart
  BY <1>2, <1>18 DEF Restart, Step
<1>19. CASE TakeCall
  BY <1>2, <1>19 DEF TakeCall
<1>20. CASE DelayDone
  BY <1>2, <1>20 DEF DelayDone
<1>21. CASE UNCHANGED vars
  BY <1>2, <1>21 DEF vars
<1> QED
  BY <1>5, <1>6, <1>7, <1>8, <1>9, <1>10, <1>11, <1>12, <1>13, <1>14, <1>15, <1>16,
     <1>17, <1>18, <1>19, <1>20, <1>21
  DEF Next, LoaderStep, Callback

LEMMA DelaysStep ==
  ASSUME TypeOK, SessionInv, DelaysAsAsked, [Next]_vars
  PROVE  DelaysAsAsked'
<1> USE DEF DelaysAsAsked, TypeOK, loader, ghosts
<1>1. /\ PmcValue \subseteq Nat
      /\ \A k \in PmcValue : [ns |-> k] # NoCall /\ [ns |-> k].ns = k
      /\ \A c \in [ns : PmcValue] : c # NoCall /\ c.ns \in Nat
  BY Constants DEF NoCall, PmcValue
<1>2. CASE Insmod
  BY <1>2 DEF Insmod, SessionInv
<1>3. CASE SkipOffline
  BY <1>3 DEF SkipOffline, NextTarget, Clearing
<1>4. CASE ClearMsrs
  BY <1>4 DEF ClearMsrs, NextTarget, Clearing
<1>5. CASE SetEvent
  BY <1>5 DEF SetEvent, Goto
<1>6. CASE EnableCounting
  BY <1>6 DEF EnableCounting, Goto
<1>7. CASE StartTimer
  BY <1>7 DEF StartTimer, Goto
<1>8. CASE Rmmod
  BY <1>8 DEF Rmmod
<1>9. CASE CancelTimer
  BY <1>9 DEF CancelTimer, Goto
<1>10. CASE FreeModule
  BY <1>10 DEF FreeModule, Goto
<1>11. CASE RemoteWrite
  BY <1>11 DEF RemoteWrite
<1>12. CASE Fire
  BY <1>12 DEF Fire, Step
<1>13. CASE SendDelay
  <2>1. CASE SURVIVOR \in online /\ home # SURVIVOR
    <3>1. /\ call = NoCall /\ call' = [ns |-> cnt] /\ asked' = asked + cnt
          /\ delayed' = delayed /\ stale' = stale
      BY <1>13, <2>1 DEF SendDelay
    <3>2. call' # NoCall /\ call'.ns = cnt
      BY <1>1, <3>1
    <3> QED
      BY <1>1, <3>1, <3>2
  <2>2. CASE home = SURVIVOR
    <3>1. /\ call = NoCall /\ call' = NoCall /\ asked' = asked + cnt
          /\ delayed' = delayed + cnt /\ stale' = stale
      BY <1>13, <2>2 DEF SendDelay
    <3> QED
      BY <1>1, <3>1
  <2>3. CASE SURVIVOR \notin online
    <3>1. /\ call = NoCall /\ call' = NoCall /\ asked' = asked
          /\ delayed' = delayed /\ stale' = stale
      BY <1>13, <2>3 DEF SendDelay
    <3> QED
      BY <3>1
  <2> QED
    BY <2>1, <2>2, <2>3
<1>14. CASE ZeroCounter
  BY <1>14 DEF ZeroCounter, Step
<1>15. CASE Restart
  BY <1>15 DEF Restart, Step
<1>16. CASE TakeCall
  <2>1. CASE stale'
    BY <2>1
  <2>2. CASE ~stale'
    <3>1. /\ call # NoCall /\ call' = NoCall /\ asked' = asked
          /\ delayed' = delayed + call.ns /\ stale' = stale
      BY <1>16, <2>2 DEF TakeCall
    <3>2. call.ns \in Nat
      BY <1>1, <3>1
    <3> QED
      BY <2>2, <3>1, <3>2
  <2> QED
    BY <2>1, <2>2
<1>17. CASE DelayDone
  BY <1>17 DEF DelayDone
<1>18. CASE UNCHANGED vars
  BY <1>18 DEF vars
<1> QED
  BY <1>2, <1>3, <1>4, <1>5, <1>6, <1>7, <1>8, <1>9, <1>10, <1>11, <1>12, <1>13,
     <1>14, <1>15, <1>16, <1>17, <1>18
  DEF Next, LoaderStep, Callback
-----------------------------------------------------------------------------
(* The theorems.                                                           *)

LEMMA InitIInv ==
  ASSUME Init PROVE IInv /\ DelaysAsAsked
<1> USE DEF Init
<1>1. TypeOK
  <2>1. Cleared \in PmuValue /\ Dirty \in PmuValue
    <3>1. TRUE \in BOOLEAN /\ FALSE \in BOOLEAN
      OBVIOUS
    <3> QED
      BY <3>1, Constants DEF Cleared, Dirty, PmuValue
  <2>2. pmu \in [Node -> PmuValue]
    BY <2>1
  <2>3. busy \in BOOLEAN /\ stale \in BOOLEAN /\ ticked \in BOOLEAN
    BY Zenon
  <2>4. online \subseteq CPU /\ {home, here} \subseteq online
    OBVIOUS
  <2> QED
    BY <2>2, <2>3, <2>4, Constants DEF TypeOK
<1>2. SessionInv
  BY DEF SessionInv, Starting
<1>3. ChargeInv /\ TickInv /\ ClearInv
  BY DEF ChargeInv, TickInv, ClearInv
<1> QED
  BY <1>1, <1>2, <1>3 DEF IInv, DelaysAsAsked

\* The figures of a session and the registers are as far as the callback, insmod
\* and rmmod have come.
THEOREM IInvHolds == Spec => []IInv
<1>1. Init => IInv
  BY InitIInv
<1>2. IInv /\ [Next]_vars => IInv'
  BY TypeStep, SessionStep, ChargeStep, TickStep, ClearStep DEF IInv
<1> QED
  BY <1>1, <1>2, PTL DEF Spec

\* Type correctness: in particular INITVAL and what is counted stay in the width of
\* the counter, and asked and delayed are sums of what was read
\* (uncore_nhmep.c:478-515, 686-695).
THEOREM TypeCorrect == Spec => []TypeOK
<1>1. IInv => TypeOK
  BY DEF IInv
<1> QED
  BY <1>1, IInvHolds, PTL

\* No write is charged twice, but for INITVAL, although the counter counts between
\* its read and its zeroing (uncore_nhmep.c:686-695).
THEOREM NeverTwiceHolds == Spec => []NeverTwice
<1>1. IInv => NeverTwice
  BY DEF IInv, ChargeInv, NeverTwice
<1> QED
  BY <1>1, IInvHolds, PTL

\* SURVIVOR is delayed for just what it was asked for, unless it has read a
\* parameter that was gone: a call is neither lost nor overwritten, and none is left
\* over from one session to the next (uncore_nhmep.c:669-679).
THEOREM DelaysAsAskedHolds == Spec => []DelaysAsAsked
<1>1. Init => DelaysAsAsked
  BY InitIInv
<1>2. IInv /\ DelaysAsAsked /\ [Next]_vars => DelaysAsAsked'
  BY DelaysStep DEF IInv
<1> QED
  BY <1>1, <1>2, IInvHolds, PTL DEF Spec

\* rmmod clears the counters before it cancels the timer, and they are clear all the
\* same: the callback can only write zero to a counter that has been stopped
\* (uncore_nhmep.c:809-820).
THEOREM NothingLeftBehindHolds == Spec => []NothingLeftBehind
<1>1. IInv => NothingLeftBehind
  <2> SUFFICES ASSUME IInv, pc \in {"free", "removed"}
               PROVE  /\ timer = "off" /\ cb = "idle"
                      /\ \A n \in Node : n = NodeOf[XYZ] \/ SURVIVOR \in online
                                         => pmu[n] = Cleared
    BY DEF NothingLeftBehind
  <2>1. timer = "off" /\ cb = "idle"
    BY DEF IInv, TypeOK, SessionInv
  <2>2. XYZ \in online
    BY Constants DEF IInv, SessionInv
  <2>3. \A n \in Node : n \in {NodeOf[SURVIVOR], NodeOf[XYZ]}
    BY UncoreNhmAssumption DEF Node
  <2>4. /\ pmu[NodeOf[XYZ]] = Cleared
        /\ SURVIVOR \in online => pmu[NodeOf[SURVIVOR]] = Cleared
    BY <2>2 DEF IInv, ClearInv, Targets
  <2> QED
    BY <2>1, <2>3, <2>4
<1> QED
  BY <1>1, IInvHolds, PTL

\* After the first tick no counter freezes: what it has counted since is less than
\* its width, whatever the uninitialised mask was (uncore_nhmep.c:504-515, 743-752).
THEOREM FreezesFirstOrNeverHolds == Spec => FreezesFirstOrNever
<1>1. IInv /\ [Next]_vars =>
          [pc = "live" /\ ticked /\ pc' = "live" =>
              pmu'[NodeOf[home]].en = pmu[NodeOf[home]].en]_vars
  <2> SUFFICES ASSUME IInv, [Next]_vars, pc = "live", ticked, pc' = "live"
               PROVE  pmu'[NodeOf[home]].en = pmu[NodeOf[home]].en
    OBVIOUS
  <2>1. TypeOK /\ Counter <= counted /\ Counter \in Nat /\ counted \in Nat
    <3>1. TypeOK /\ NodeOf[home] \in Node
      BY TargetFacts DEF IInv
    <3> QED
      BY <3>1 DEF IInv, TickInv, Counter, TypeOK, PmuValue, PmcValue
  <2>2. CASE RemoteWrite
    <3>1. counted < PmcMod - 1
      BY <2>1, <2>2, Constants DEF RemoteWrite
    <3>2. pmu[NodeOf[home]].pmc # PmcMod - 1
      BY <2>1, <3>1, Constants DEF Counter
    <3>3. pmu'[NodeOf[home]].en =
             ~(pmu[NodeOf[home]].frz /\ pmu[NodeOf[home]].pmc = PmcMod - 1)
      BY <2>1, <2>2, RemoteWrites
    <3>4. pmu[NodeOf[home]].en
      BY <2>2 DEF RemoteWrite
    <3>5. pmu[NodeOf[home]].en \in BOOLEAN
      BY <2>1, TargetFacts DEF TypeOK, PmuValue
    <3> QED
      BY <3>2, <3>3, <3>4, <3>5, Zenon
  <2>3. CASE ZeroCounter
    BY <2>1, <2>3, ZeroWrites
  <2>4. CASE pmu' = pmu
    BY <2>4
  <2> QED
    BY <2>2, <2>3, <2>4
    DEF Next, LoaderStep, Callback, Insmod, Rmmod, SkipOffline, ClearMsrs, Clearing,
        SetEvent, EnableCounting, Goto, StartTimer, CancelTimer, FreeModule, Fire,
        SendDelay, Restart, TakeCall, DelayDone, vars
<1> QED
  BY <1>1, IInvHolds, PTL DEF Spec, FreezesFirstOrNever
=============================================================================
