------------------------------ MODULE UncoreNhm ------------------------------
(***************************************************************************)
(* The Nehalem-EP module: uncore_nhmep.c.                                  *)
(*                                                                         *)
(* insmod clears the uncore PMU of two nodes, lets a counter of its own    *)
(* node count remote writes and starts an hrtimer.  The callback reads the *)
(* counter, asks another CPU, SURVIVOR, to waste time for what it has      *)
(* read, without waiting for it to do so, and writes zero to the counter,  *)
(* which counts all the while.  A CPU in the callback, or in a function    *)
(* another CPU has asked it to run, takes no interrupt.                    *)
(***************************************************************************)
EXTENDS Naturals, Sequences

CONSTANTS
    CPU, NodeOf,   \* the CPUs and the node of each
    SURVIVOR,      \* the CPU that is delayed (6 in the code)
    XYZ,           \* the first CPU that clear_all asks (0 in the code)
    PmcMod,        \* values of a counter (2^48)
    Sample,        \* minus the value it starts with, INITVAL (100 in the code)
    MaxWrites      \* bound of the writes counted in a session

INITVAL == PmcMod - Sample

ASSUME UncoreNhmAssumption ==
    /\ SURVIVOR \in CPU /\ XYZ \in CPU
    /\ NodeOf[SURVIVOR] # NodeOf[XYZ]
    /\ \A c \in CPU : NodeOf[c] \in {NodeOf[SURVIVOR], NodeOf[XYZ]}
    /\ PmcMod \in Nat /\ Sample \in 1 .. PmcMod - 1
    /\ MaxWrites \in 0 .. PmcMod - 1   \* a session counts less than 2^48 writes

VARIABLES
    online,
    home,          \* the CPU insmod runs on, whose timer it is
    here,          \* the CPU insmod or rmmod runs on
    pc, pos, stp,  \* loader: phase, CPU of clear_all, and its register writes
    pmu,           \* of each node: [en, frz, sel, pmc]
    timer,
    cb, cnt,       \* the callback: next step, and what it has read
    call,          \* the call sent to SURVIVOR, not yet taken
    busy,          \* is SURVIVOR in uncore_pmu_delay?
    counted,       \* ghosts of a session: the writes counted, ...
    asked,         \* ... the writes the callback asked delays for, ...
    delayed,       \* ... those SURVIVOR was delayed for, ...
    stale,         \* ... has SURVIVOR read a parameter that was gone?
    ticked         \* ... has the counter been zeroed?

loader == <<here, pc, pos, stp>>
ghosts == <<counted, asked, delayed, stale, ticked>>
vars   == <<online, home, loader, pmu, timer, cb, cnt, call, busy, ghosts>>

Node     == {NodeOf[c] : c \in CPU}
PmcValue == 0 .. PmcMod - 1
Cleared  == [en |-> FALSE, frz |-> FALSE, sel |-> "none", pmc |-> 0]
Dirty    == [Cleared EXCEPT !.en = TRUE, !.sel = "other"]
NoCall   == [none |-> TRUE]

PmuValue == [en : BOOLEAN, frz : BOOLEAN, pmc : PmcValue,
             sel : {"none", "other", "remote_writes"}]

TypeOK ==
    /\ online \subseteq CPU /\ {home, here} \subseteq online
    /\ pc \in {"unloaded", "clear", "pmc", "sel", "enable", "start", "live",
               "exit_clear", "cancel", "free", "removed"}
    /\ pos \in 1 .. 2 /\ stp \in 0 .. 2
    /\ pmu \in [Node -> PmuValue]
    /\ timer \in {"off", "armed"}
    /\ cb \in {"idle", "send", "zero", "restart"}
    /\ cnt \in PmcValue
    /\ call \in [ns : PmcValue] \cup {NoCall}
    /\ busy \in BOOLEAN /\ stale \in BOOLEAN /\ ticked \in BOOLEAN
    /\ counted \in 0 .. MaxWrites
    /\ asked \in Nat /\ delayed \in Nat

\* SURVIVOR may be offline.  Registers are as another user has left them.
Init ==
    /\ online \in {CPU, CPU \ {SURVIVOR}}
    /\ home \in online
    /\ here = home
    /\ pc = "unloaded" /\ pos = 1 /\ stp = 0
    /\ pmu \in [Node -> {Cleared, Dirty}]
    /\ timer = "off" /\ cb = "idle" /\ cnt = 0
    /\ call = NoCall /\ busy = FALSE
    /\ counted = 0 /\ asked = 0 /\ delayed = 0
    /\ stale = FALSE /\ ticked = FALSE

-----------------------------------------------------------------------------
(* uncore_pmu_init and uncore_pmu_exit.                                    *)

Target   == <<XYZ, SURVIVOR>>[pos]
Clearing == pc \in {"clear", "exit_clear"}

\* Does CPU c take interrupts?
Interruptible(c) ==
    /\ ~(c = home /\ cb # "idle")
    /\ ~(c = SURVIVOR /\ busy)
    /\ ~(Clearing /\ Target = c /\ stp > 0)

Goto(p, q) ==
    /\ pc = p
    /\ pc' = q
    /\ pos' = 1 /\ stp' = 0
    /\ UNCHANGED here

\* uncore_pmu_main: uncore_pmu_hrtimer_init, then clear_all.
Insmod ==
    /\ pc \in {"unloaded", "removed"}
    /\ pc' = "clear" /\ pos' = 1 /\ stp' = 0
    /\ home' \in online /\ here' = home'
    /\ counted' = 0 /\ asked' = 0 /\ delayed' = 0
    /\ stale' = FALSE /\ ticked' = FALSE
    /\ UNCHANGED <<online, pmu, timer, cb, cnt, call, busy>>

\* The next CPU of clear_all, and what follows the last.
NextTarget ==
    /\ IF pos = 1
       THEN pos' = 2 /\ UNCHANGED pc
       ELSE /\ pos' = 1
            /\ pc' = IF pc = "clear" THEN "pmc" ELSE "cancel"
    /\ stp' = 0
    /\ UNCHANGED here

\* nhm_uncore_clear_all asks a CPU of each node ...
SkipOffline ==
    /\ Clearing
    /\ Target \notin online
    /\ NextTarget
    /\ UNCHANGED <<online, home, pmu, timer, cb, cnt, call, busy, ghosts>>

\* ... which runs nhm_uncore_clear_msrs: control, counter, event.
ClearMsrs ==
    /\ Clearing
    /\ Target \in online
    /\ stp = 0 => Interruptible(Target)
    /\ LET n == NodeOf[Target]
       IN  CASE stp = 0 -> pmu' = [pmu EXCEPT ![n].en = FALSE, ![n].frz = FALSE]
             [] stp = 1 -> pmu' = [pmu EXCEPT ![n].pmc = 0]
             [] stp = 2 -> pmu' = [pmu EXCEPT ![n].sel = "none"]
    /\ IF stp < 2 THEN stp' = stp + 1 /\ UNCHANGED <<here, pc, pos>> ELSE NextTarget
    /\ UNCHANGED <<online, home, timer, cb, cnt, call, busy, ghosts>>

\* Mutant: the initial value is not cut to the width of the counter.
SetEventUnmasked ==
    /\ \/ Goto("pmc", "sel") /\ pmu' = [pmu EXCEPT ![NodeOf[home]].pmc = 0 - Sample]
       \/ /\ Goto("sel", "enable")
          /\ pmu' = [pmu EXCEPT ![NodeOf[home]].sel = "remote_writes"]
    /\ UNCHANGED <<online, home, timer, cb, cnt, call, busy, ghosts>>

\* nhm_uncore_set_event, on the node the loader is on.
SetEvent ==
    /\ \/ Goto("pmc", "sel") /\ pmu' = [pmu EXCEPT ![NodeOf[home]].pmc = INITVAL]
       \/ /\ Goto("sel", "enable")
          /\ pmu' = [pmu EXCEPT ![NodeOf[home]].sel = "remote_writes"]
    /\ UNCHANGED <<online, home, timer, cb, cnt, call, busy, ghosts>>

\* nhm_uncore_enable_counting(0) sets bits of an uninitialised mask, so the one
\* that stops all counters at an overflow is set or not.
EnableCounting ==
    /\ Goto("enable", "start")
    /\ \E f \in BOOLEAN :
           pmu' = [pmu EXCEPT ![NodeOf[home]].en = TRUE, ![NodeOf[home]].frz = f]
    /\ UNCHANGED <<online, home, timer, cb, cnt, call, busy, ghosts>>

\* Mutant: the timer is set up and not started.
StartNothing ==
    /\ Goto("start", "live")
    /\ UNCHANGED <<online, home, pmu, timer, cb, cnt, call, busy, ghosts>>

\* uncore_pmu_hrtimer_start.
StartTimer ==
    /\ Goto("start", "live")
    /\ timer' = "armed"
    /\ UNCHANGED <<online, home, pmu, cb, cnt, call, busy, ghosts>>

\* rmmod, on any CPU: clear_all ...
Rmmod ==
    /\ pc = "live"
    /\ pc' = "exit_clear" /\ pos' = 1 /\ stp' = 0
    /\ here' \in online
    /\ UNCHANGED <<online, home, pmu, timer, cb, cnt, call, busy, ghosts>>

\* Mutant: hrtimer_try_to_cancel, which does not wait for the callback.
TryToCancelTimer ==
    /\ Goto("cancel", "free")
    /\ timer' = IF cb = "idle" THEN "off" ELSE timer
    /\ UNCHANGED <<online, home, pmu, cb, cnt, call, busy, ghosts>>

\* Mutant: waits for a callback that does not restart its timer.
CancelWaitsOff ==
    /\ Goto("cancel", "free")
    /\ timer = "off"
    /\ UNCHANGED <<online, home, pmu, timer, cb, cnt, call, busy, ghosts>>

\* ... and then uncore_pmu_hrtimer_cancel, which waits for a callback that runs.
CancelTimer ==
    /\ Interruptible(here)
    /\ Goto("cancel", "free")
    /\ cb = "idle"
    /\ timer' = "off"
    /\ UNCHANGED <<online, home, pmu, cb, cnt, call, busy, ghosts>>

\* The kernel frees the module once every CPU has passed through the scheduler,
\* and SURVIVOR does so when it has served its calls.
FreeModule ==
    /\ Goto("free", "removed")
    /\ call = NoCall /\ ~busy
    /\ UNCHANGED <<online, home, pmu, timer, cb, cnt, call, busy, ghosts>>

-----------------------------------------------------------------------------
(* The counter, uncore_pmu_hrtimer_cb and SURVIVOR.                        *)

\* A remote write is counted; at an overflow the freeze bit stops the counter.
RemoteWrite ==
    LET n == NodeOf[home]
    IN  /\ pmu[n].en /\ pmu[n].sel = "remote_writes"
        /\ counted < MaxWrites
        /\ pmu' = [pmu EXCEPT ![n].pmc = (@ + 1) % PmcMod,
                              ![n].en = ~(pmu[n].frz /\ pmu[n].pmc = PmcMod - 1)]
        /\ counted' = counted + 1
        /\ UNCHANGED <<online, home, loader, timer, cb, cnt, call, busy, asked,
                       delayed, stale, ticked>>

Step(p, q) == cb = p /\ cb' = q

\* rdmsr of the counter.
Fire ==
    /\ timer = "armed"
    /\ Interruptible(home)
    /\ Step("idle", "send")
    /\ cnt' = pmu[NodeOf[home]].pmc
    /\ UNCHANGED <<online, home, loader, pmu, timer, call, busy, ghosts>>

\* Mutant: a call is sent although the one before has not been taken.
SendOver ==
    /\ Step("send", "zero")
    /\ asked' = IF SURVIVOR \in online THEN asked + cnt ELSE asked
    /\ IF home = SURVIVOR
       THEN delayed' = delayed + cnt /\ UNCHANGED call
       ELSE /\ call' = IF SURVIVOR \in online THEN [ns |-> cnt] ELSE NoCall
            /\ UNCHANGED delayed
    /\ UNCHANGED <<online, home, loader, pmu, timer, cnt, busy, counted, stale,
                   ticked>>

\* uncore_pmu_delay_cpu: smp_call_function_single with wait = 0.  To its own CPU it
\* is a plain call; an offline CPU is an error that is dropped; and a CPU has one
\* such call under way, so the next waits until that one is taken.
SendDelay ==
    /\ Step("send", "zero")
    /\ call = NoCall
    /\ asked' = IF SURVIVOR \in online THEN asked + cnt ELSE asked
    /\ IF home = SURVIVOR
       THEN delayed' = delayed + cnt /\ UNCHANGED call
       ELSE /\ call' = IF SURVIVOR \in online THEN [ns |-> cnt] ELSE NoCall
            /\ UNCHANGED delayed
    /\ UNCHANGED <<online, home, loader, pmu, timer, cnt, busy, counted, stale,
                   ticked>>

\* Mutant: the counter is set back to INITVAL instead of zero.
ZeroToInitval ==
    /\ Step("zero", "restart")
    /\ pmu' = [pmu EXCEPT ![NodeOf[home]].pmc = INITVAL]
    /\ cnt' = 0
    /\ ticked' = TRUE
    /\ UNCHANGED <<online, home, loader, timer, call, busy, counted, asked,
                   delayed, stale>>

\* Mutant: the counter is not written.
ZeroNothing ==
    /\ Step("zero", "restart")
    /\ cnt' = 0
    /\ ticked' = TRUE
    /\ UNCHANGED <<online, home, loader, pmu, timer, call, busy, counted, asked,
                   delayed, stale>>

\* wrmsr of zero, whatever has been counted since the read.
ZeroCounter ==
    /\ Step("zero", "restart")
    /\ pmu' = [pmu EXCEPT ![NodeOf[home]].pmc = 0]
    /\ cnt' = 0
    /\ ticked' = TRUE
    /\ UNCHANGED <<online, home, loader, timer, call, busy, counted, asked,
                   delayed, stale>>

\* hrtimer_forward_now and HRTIMER_RESTART.
Restart ==
    /\ Step("restart", "idle")
    /\ UNCHANGED <<online, home, loader, pmu, timer, cnt, call, busy, ghosts>>

\* SURVIVOR takes the call and reads the parameter through its address, which is
\* on the stack of the callback: once that has returned, anything may be there.
TakeCall ==
    /\ call # NoCall
    /\ Interruptible(SURVIVOR)
    /\ busy' = TRUE
    /\ call' = NoCall
    /\ \/ cb \in {"zero", "restart"} /\ delayed' = delayed + call.ns /\ UNCHANGED stale
       \/ cb \in {"idle", "send"} /\ stale' = TRUE /\ UNCHANGED delayed
    /\ UNCHANGED <<online, home, loader, pmu, timer, cb, cnt, counted, asked, ticked>>

\* udelay ends.
DelayDone ==
    /\ busy
    /\ busy' = FALSE
    /\ UNCHANGED <<online, home, loader, pmu, timer, cb, cnt, call, ghosts>>

-----------------------------------------------------------------------------
LoaderStep == \/ SkipOffline \/ ClearMsrs \/ SetEvent \/ EnableCounting
              \/ StartTimer \/ CancelTimer \/ FreeModule

Callback  == Fire \/ SendDelay \/ ZeroCounter \/ Restart

Next == \/ Insmod \/ Rmmod \/ LoaderStep
        \/ Callback \/ TakeCall \/ DelayDone
        \/ RemoteWrite

Spec == Init /\ [][Next]_vars

\* The timer fires and its callback runs; SURVIVOR takes calls again and again
\* between delays that end; insmod and rmmod, once begun, go on.
Fairness ==
    /\ WF_vars(Callback) /\ SF_vars(TakeCall) /\ WF_vars(DelayDone)
    /\ SF_vars(LoaderStep)

LiveSpec == Spec /\ Fairness

-----------------------------------------------------------------------------
(* Properties.                                                             *)

\* No write is charged twice: what was asked for and what is in the counter, less
\* what the callback has just asked for and not yet zeroed, is never more than was
\* counted, plus INITVAL, which the first tick takes for writes although the
\* counter is not frozen between its read and its zeroing (uncore_nhmep.c:686-695).
NeverTwice ==
    pc = "live" =>
        asked + pmu[NodeOf[home]].pmc
            <= counted + INITVAL + (IF cb = "zero" THEN cnt ELSE 0)

\* Calls to SURVIVOR are not lost, repeated or overwritten by the next tick, so it
\* is delayed for just what it was asked for, unless it has read a parameter after
\* the callback's stack frame was gone (uncore_nhmep.c:669-679).
DelaysAsAsked ==
    ~stale => delayed + (IF call = NoCall THEN 0 ELSE call.ns) = asked

\* rmmod clears the counters before it cancels the timer, whose callback may write
\* to them once more: they are clear all the same on every node that it could ask
\* a CPU of, nothing is left counting there, and no timer runs
\* (uncore_nhmep.c:809-820).  With SURVIVOR offline the other node is never asked.
NothingLeftBehind ==
    pc \in {"free", "removed"} =>
        /\ timer = "off" /\ cb = "idle"
        /\ \A n \in Node : n = NodeOf[XYZ] \/ SURVIVOR \in online => pmu[n] = Cleared

\* The freeze bit, set or not as an uninitialised mask has it, matters only until
\* the first tick, since it is only INITVAL that is close to an overflow: a counter
\* that counts then counts until rmmod (uncore_nhmep.c:504-515, 743-752).
FreezesFirstOrNever ==
    [][pc = "live" /\ ticked /\ pc' = "live" =>
        pmu'[NodeOf[home]].en = pmu[NodeOf[home]].en]_vars

\* SURVIVOR, if online, is asked again and again although the callback waits in
\* interrupt context for it to take the last call (uncore_nhmep.c:676-700).
AskedAgain ==
    pc = "live" /\ SURVIVOR \in online
        ~> (cb = "zero" /\ (call # NoCall \/ busy \/ home = SURVIVOR)) \/ pc # "live"

\* rmmod returns: neither the callback nor a delay keeps it waiting for ever
\* (uncore_nhmep.c:809-820).  Run on SURVIVOR itself, it goes on as soon as a delay
\* is shorter than the interval of the timer, of which nothing is said here.
ExitCompletes ==
    pc = "exit_clear" /\ (here = SURVIVOR => home = SURVIVOR) ~> pc = "removed"

=============================================================================
