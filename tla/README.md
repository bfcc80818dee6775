# A verification project for NVM-Emulator

NVM-Emulator is a set of Linux kernel modules that make a NUMA machine of Intel
Xeon processors behave as if part of its memory were non-volatile: slower to
read and of lower bandwidth. This directory holds TLA+ models of the modules'
control, the TLC runs that check them on small instances, and proofs of most of
their safety properties for instances of every size.

All line numbers are those of the repository's sources.

## 1. The system

### 1.1 Components

| Component | Source | State | Operations |
|---|---|---|---|
| Core PMU sampling (module `core_pmu`) | `core_pmu.c` | `pre_event_init_value`, `PERCPU_NMI_TIMES`, per CPU `PMC0`, `PERFEVTSEL0`, `GLOBAL_CTRL`, `GLOBAL_STATUS`, `LVTPC` | insmod, rmmod, sweeps over the online CPUs by IPI, NMI handler |
| `/proc/core_pmu` | `core_proc.c` | `core_pmu_proc_mutex` | write of a control character |
| IMC bandwidth throttling (module `uncore_pmu`) | `uncore_imc.c`, end of `uncore_hswep.c` | `uncore_imc_devices`, `thrt_pwr_dimm` of each device and DIMM | init, exit, set threshold, enable, disable; on a node and on all |
| `/proc/uncore_pmu` | `uncore_proc.c` | `bw_ratio`, `uncore_proc_mutex` | write of a control character |
| Latency emulation | `emulate_nvm.c` | `emulation_started`, `latency_started`, the hrtimer, the set of online CPUs | start, its three undo labels, finish, timer callback |
| Registry of boxes | `uncore_pmu.c`, tables of `uncore_hswep.c` | `box_list` and `num_boxes` of each type, `uncore_pcibus_to_nodeid`, references on PCI devices | insmod with its failure labels, rmmod, lookups |
| PCI box methods | `uncore_hswep.c` | box control, event select, 48-bit counter | init, enable, disable, event, read, write |
| MSR box methods | `uncore_hswep.c`, `uncore_pmu.h` | the same in MSRs | the same; nothing calls them. Their register addresses are modelled |
| `/proc/emulate_nvm` | `emulate_nvm_proc.c` | registration | the write handler changes nothing |
| Nehalem module | `uncore_nhmep.c` | one counter, one hrtimer, an NMI handler that is compiled and not registered | insmod, rmmod, callback, the delay on another CPU |
| Migration module | `migrate.c` | a one-shot hrtimer | insmod, rmmod, page-table walk |
| I/O APIC test | `misc/ioapic.c` | none | prints and rewrites one entry |

### 1.2 How they interact

* `core_pmu` stands alone. A writer of `/proc/core_pmu` changes
  `pre_event_init_value` and sends IPIs; the NMI handler, on every CPU and at
  any instruction, reads the same variable; insmod and rmmod run the same
  sweeps as the writer, without its mutex.
* `uncore_pmu` is one module of four parts. `uncore_init` builds the registry,
  then the IMC list, registers the proc file and calls `start_emulate_nvm`;
  `uncore_exit` calls `finish_emulate_nvm` and takes the rest down in reverse.
  Latency emulation uses a box of the registry and calls the IMC part; writers
  of `/proc/uncore_pmu` call the IMC part at the same time.
* `uncore_nhmep.c` and `migrate.c` are modules of their own: the first asks CPU 6
  from its timer to waste time, the second reads the page table of a process.
* The kernel and the hardware act on their own: CPU hotplug, removal of PCI
  devices, counter overflows, NMIs of other sources, reads of memory.

### 1.3 What is hard here

* **Interleaving.** Several writers, insmod/rmmod, IPI functions and NMI
  handlers touch the same registers; only writers share a lock.
* **Read-modify-write of hardware registers** with no lock that all users hold.
* **Captured state.** The NMI handler and the IPI functions read the interval
  and write it to a register later.
* **Order of shutdown**: proc file, counters, handlers, timers, lists.
* **Partial failure**: a node without memory controllers, a platform that is
  not as expected, an allocation that fails in the middle of a walk.
* **Timers in interrupt context**: a callback waits for another CPU, or for a
  semaphore, while rmmod waits for the callback.
* **Liveness**: a counter that is not re-armed never interrupts again; a
  frozen box never counts again.

`PROJECT.json` lists each hazard with the line where it bites.

### 1.4 What makes each component correct

* Core PMU: what the file shows is what the counters do, on every online CPU,
  once a write has returned; '0' really disables; counts are not lost; writes
  and rmmod end; a counter that has overflowed is armed again; rmmod clears.
* IMC: the ratio shown is in force on every register; throttling is on
  everywhere or nowhere; the list is not walked when it is gone; rmmod returns
  the machine to full bandwidth.
* Latency emulation: every counted read is charged once; only the emulated
  CPU's reads are counted; failure and finish leave nothing behind; the polling
  CPU polls.
* Registry: references are owned and returned; no two boxes share a register;
  node numbers are those the UBOXes report; a lookup finds the first agent of a
  node.
* Nehalem: no write is charged twice; the CPU is delayed for what it was asked
  for; unloading leaves nothing counting, in spite of its order, and ends.
* Migration: the walk visits every page that is present and none twice; a page
  accessed is collected; nothing that is walked goes away once the semaphore is
  held; unloading ends, unless the callback has interrupted the holder of the
  semaphore or gone on in freed memory.

## 2. Modules

| Module | Models | Instance |
|---|---|---|
| `CorePmu` | `core_pmu.c`, `core_proc.c` | `MCCorePmu` |
| `CorePmuProofs`, `SamplingProofs` | theorems about `CorePmu` | |
| `UncoreImc` | `uncore_imc.c`, `uncore_proc.c`, IMC methods of `uncore_hswep.c`, bandwidth calls of `emulate_nvm.c` | `MCUncoreImc` |
| `Throttle` | what bandwidth emulation promises; `UncoreImc` implements it | |
| `UncoreImcProofs` | theorems about `UncoreImc` and its refinement of `Throttle` | |
| `EmulateNvm` | `emulate_nvm.c`, hrtimer helpers, PCI box methods | `MCEmulateNvm` |
| `Charge` | what latency emulation promises; `EmulateNvm` implements it | |
| `EmulateNvmProofs` | theorems about `EmulateNvm` and its refinement of `Charge` | |
| `UncoreBoxes` | `uncore_init`, `uncore_exit`, box and device lists, id tables, MSR addresses | `MCUncoreBoxes` |
| `UncoreBoxesProofs` | theorems about `UncoreBoxes` | |
| `UncoreNhm` | `uncore_nhmep.c` | `MCUncoreNhm` |
| `UncoreNhmProofs` | theorems about `UncoreNhm` | |
| `Migrate` | `migrate.c` | `MCMigrate` |
| `MigrateProofs` | theorems about `Migrate` | |
| `MinFacts` | the least element of a set of naturals, and induction with it, for proofs | |

A definition marked `Mutant:` in a comment is a plausible bug; nothing of the
specification uses it. `PROJECT.json` pairs each with the property it breaks.

### 2.1 CorePmu

Threads: one loader (insmod, rmmod) and the writers. `pc[t]` is the function a
thread is in. Each `for_each_online_cpu` loop is a *sweep*: `pos[t]` is the CPU
reached, `stp[t]` the number of register writes already made by the function
running there by IPI, `arg[t]` the value of `pre_event_init_value` it has read.
Between the writes of an IPI function only an NMI on that CPU can intervene, but
other threads run; with interrupts masked no other IPI function runs on it.

| Code | Definition |
|---|---|
| `core_pmu_init` | `Insmod`, `RegisterNmiHandler`, `SetInitValue`, then sweeps |
| `core_pmu_lapic_init` | sweep `lapic`, step `LapicInit` |
| `core_pmu_clear_msrs` | sweep `clear` (`exit_clear` at rmmod), step `ClearMsrs` |
| `core_pmu_enable_predefined_event` | sweep `event`, step `EnablePredefinedEvent` |
| `core_pmu_enable_counting` | sweep `enable`, step `EnableCounting` |
| `core_pmu_clear_counter` | sweep `zero`, step `ClearCounter` |
| a call that returns an error for an offline CPU | `SkipOffline` |
| `core_pmu_nmi_handler` | `NmiDone`, or `NmiRestart`, `NmiRearm`, `NmiCount` |
| `core_pmu_proc_write` | `WriteBegin`, `WriteLock`, sweeps, `WriteUnlock` |
| `core_pmu_exit` | `ProcRemove`, `ProcRemoved`, sweep `exit_clear`, `UnregisterNmiHandler`, `UnregisterDone` |

The increment `this_cpu_inc` is split into its read and its write, because
another CPU may zero the count by a plain store. Abstractions: `PMC0` is the
number of events missing until the overflow (0: cleared, armed with 0, or
wrapped; 2^48 events away from an overflow and taken never to overflow). The
write to `GLOBAL_OVF_CTRL` changes nothing, because it writes 0 and only ones
clear status bits. `LVTPC` is set or masked: hardware masks it when it delivers
an overflow (`Overflow`). The handler of the module never writes it
(`core_pmu.c:397-412`); what unmasks it is the kernel's own handler, called for
the same NMI, which `TakeNmi` stands for if the constant `Unmasks` says so. A CPU
that is offline keeps its registers. NMI counts saturate at `MaxTimes`. A failing
`proc_create`, and a write that fails its first tests, change nothing.

### 2.2 UncoreImc and Throttle

A register is a pair of enable bit and threshold. A call of an `uncore_imc`
function is a *walk*: `walk[t]` is the function thread t is in, its argument and
how far its loops over nodes, devices and DIMMs have come. On a device of the
node, `ReadReg` and `WriteReg` are the `pci_read_config_word` and
`pci_write_config_word` of one DIMM, two steps between which all others run;
`SkipDevice` passes a device of another node; at the end of the list `NodeDone`
goes on to the next node, ends the loop, or breaks it. A node without devices
makes a call fail with `-ENXIO`, and `AfterNode` says what each loop does then:
enabling turns into disabling on all nodes. The hswep methods never fail.
`StartSkipped` and `StartUndone` are the outcomes of `start_emulate_nvm` that
skip or undo bandwidth emulation; what decides them is in `EmulateNvm`.
`emulation_started` is cleared at the end of `finish_emulate_nvm`, in the step of
`ProcRemove`; throttling is promised only while rmmod has not begun (`Running`).
`Machines` are the device lists a behaviour may begin with.

`Throttle` is the same with every operation atomic: while emulation runs a ratio
is chosen only when the last one is in force on every channel or none throttles,
and a channel goes from the old ratio straight to the new one. In the refinement
(`Promise` in `UncoreImc`) a channel is a register of nodes 0 and 1, the ones a
write reaches, and its ratio is what enable bit and threshold amount to; the
walks, the registers read and the mutex have no counterpart, so that most steps
stutter.

### 2.3 EmulateNvm and Charge

The loader takes the walks of `prepare_platform_configuration` and
`restore_platform_configuration` CPU by CPU, on the online CPUs of a node (the
kernel's `cpumask_of_node` shrinks as CPUs go down). The timer callback is cut
where another actor can see it: `Fire` (freeze), `ReadCounter` twice (low and
high half), `SendDelay`, `ClearCounter` twice, `Restart`. `RemoteRead` is the
hardware counting. The timer stays on the CPU it was started on: it is armed
only after the walks that take CPUs down. The loader may be moved to another CPU
at any moment (`Reschedule`), unless it is bound to one, as
`scripts/hybrid-memory.sh:5` does by `numactl` (`Bound`). A `cpu_up` may fail,
and its result is ignored (`emulate_nvm.c:274, 280`): such a CPU stays offline,
and is not among those that `NothingLeftBehind` expects back (`before`).
`counted`, `charged`, `foreign` and `before` are history variables. A half of
the counter has `Radix` values instead of 2^32.

`Charge` is the account kept: a read is pending as soon as it is made, and all
that is pending is charged at once. In the refinement the pending reads are the
value of the counter until `SendDelay`, and 0 from there to the end of the
callback, where the counter still has a value that no longer matters.

### 2.4 UncoreBoxes

One thread, the loader, with the kernel removing devices. `pc` is the function
or loop insmod is in. `Find` and `NextRow` are the walk that `uncore_pci_init`
and `uncore_imc_init` have in common: `pci_get_device` puts the device the
search starts `from` and takes a reference on the one it returns, and
`get_device` takes a second. Failures go to the labels of `uncore_init`
(`exit_imc`, `exit_cpu`, `exit_pci`); an init function that fails calls its own
exit function first (`own_imc`, `own_cpu`, `own_pci`), so that this one runs
twice, and both runs are steps. `err` is the stack variable of
`hswep_pcibus_to_nodeid`: it has an arbitrary value until a register has been
read. `leaked` is a history variable: of the references held on a device, those
a failed walk has forgotten. The boxes made of a device are counted by their
places in the lists (`Places`, `BoxesOf`). The addresses of MSR boxes (`MsrsOf`)
are computed from the tables with the real numbers.

### 2.5 UncoreNhm

`home` is the CPU insmod ran on, which has the timer; `here` the one insmod or
rmmod runs on. The registers of a node are `[en, frz, sel, pmc]`. `Interruptible`
is what decides whether a CPU takes a call: not in the timer callback, not in
`uncore_pmu_delay` (both run with interrupts off), not in the middle of
`nhm_uncore_clear_msrs`. The call to `SURVIVOR` is sent with `wait = 0`: the
kernel has one slot for it, which the receiver frees when it takes the call, and
the next sender waits for the slot. The parameter is an address on the stack of
the callback, exact while the callback is between sending and returning, and
anything afterwards (`stale`). `hrtimer_cancel` waits for a callback, and the
kernel's `free_module` lets every CPU go through the scheduler, so that a delay
ends before the code is freed. The CPUs online do not change; `SURVIVOR` may be
offline from the start. The mask of `nhm_uncore_enable_counting` is an
uninitialised variable, of which one bit has an effect here: it is set or not.

### 2.6 Migrate

The four nested loops of the walk are one loop at four levels, with tables of
`Fan` entries; a table is present or not. `Loop` is a round of it, and `Visits`
the recursive function of level, address and end that `Loop` defines. The vmas of
a process are in order and apart (`Ascending`), as the kernel keeps them. What a walk
visits of a vma is fixed when the loop reaches the vma, since the lists and
tables do not change under the semaphore; the entries are read one by one
(`Visit`), while the process touches pages and the kernel reclaims them.

Two errors of the callback are modelled. It reads `task->mm` and the first vma
(`migrate.c:193-194`, `Fire`) before `down_write` (`DownWrite`). In between the
process may map a vma (`Map`), which the walk misses if it is the new first one;
unmap the vma in hand (`Unmap`); or leave its mm and have it freed (`Leave`,
`Exit`). `dangling` says that the vma or the mm has been freed; a callback that
goes on with it is in `Stray`, of which the model says only that it may come back
or not (`StrayReturns`). A process that is leaving has a null `mm`, through which
the list is read (`FireNoMm`: "oops"). And the callback waits for the semaphore in
an interrupt. When it fires, the task it interrupts may be the one that holds the
semaphore (`interrupted`), which then never goes on (`HoldsSem`), nor does the
callback. With a holder on another CPU `DownWrite` is a wait. The ghost `before`
is of the first vma in hand and those after it (`YoungAhead`).

The accessed bit is not cleared by the walk: what `pte_clear_flags` returns is
dropped (`migrate.c:112`). The timer is put forward but the callback returns
`HRTIMER_NORESTART`, so there is one walk for each insmod. Not modelled: huge
pages, and the freeing of tables by munmap.

## 3. Runs

`tlc -config X.cfg M`, with the module of the table. All runs check for
deadlock, but `boxes_main` and `migrate_main`, where the system may really stop.

| Run | Module | Question | Bounds |
|---|---|---|---|
| `core_main` | `MCCorePmu` | do file, counters and counts agree under all interleavings? | 2 CPUs, 2 writers (symmetric), '0', '1' and an invalid character, foreign NMIs, counts to 2 |
| `core_live` | `MCCorePmu` | does a settled write leave an old interval behind, does rmmod end, do counters go on, with hotplug? | 2 CPUs, CPU 1 removable, 1 writer, '0' and '1' |
| `imc_main` | `MCUncoreImc` | is the ratio shown in force? is enabling all or nothing? is `Throttle` implemented? is a freed list left alone? does rmmod end? | 2 nodes, devices on nodes 1, 0, 1, on node 1 only and on node 0 only; 1 DIMM, 2 writers, all kinds of characters, starts that fail |
| `nvm_main` | `MCEmulateNvm` | is every read charged, and once? is `Charge` implemented? does failure undo everything? does the polling CPU poll? does finishing end? | 4 CPUs, 2 on each node, one that cannot go down, radix 2, 7 reads |
| `boxes_main` | `MCUncoreBoxes` | are references owned, registers apart, nodes right? is a listed device ever freed? does a failed load leave boxes? | 2 sockets, 9 devices, 2 removable, every allocation and every configuration read may fail |
| `nhm_main` | `MCUncoreNhm` | are writes charged twice, calls lost? does rmmod leave something behind, and does it end? | 3 CPUs on 2 nodes, a counter of 8 values, 4 writes, insmod and rmmod on any CPU, reload |
| `migrate_main` | `MCMigrate` | does the walk visit what it should, for all tables and ranges? are accessed pages collected? does what is walked stay while the semaphore is held? does rmmod end, and if not, why? | 16 pages, 4 levels of fan 2, 2 address spaces, 2 pages in use |

Why the bounds are enough. In the core module a CPU interacts with another only
through the sweeps, which visit them one after the other: two CPUs give a
visited and an unvisited one. Two writers give one that holds the mutex and one
that waits. Two intervals besides 0 ('1' and insmod's -256) suffice to tell an
old one from the one in force. In the IMC module two devices on one node and one
on the other show both a loop inside a node and a loop over nodes, in a list
order that mixes them, and a node without devices makes the calls fail at the
first or the second node; one DIMM suffices as registers are independent. With
radix 2 and seven reads both halves of the counter and the carry between them
are exercised. Two sockets with two home agents, a throttled channel and one
that is not in the table reach every kind of row: no device, one device per
node, several rows of one type. In the Nehalem module eight values let the
counter wrap from INITVAL (-2) and count on, within four writes; `clear_all`
asks one CPU of each node, and a third one, on CPU 6's node, lets insmod and
rmmod run elsewhere.
With fan 2 and four levels a range begins and ends at every position in tables
of each level, and `WalkVisitsPresent` is evaluated for all ranges and all sets
of tables; of the pages in use one is the last of a vma and the other inside a
vma under another entry of the top level. `MaxHeld` bounds the references
one device keeps after failed loads: without it a leak at every load would make
the state space infinite. Once a device has more than that nothing is loaded
again, hence `CHECK_DEADLOCK FALSE` in `boxes_main`. `migrate_main` has it because
a callback that waits for the task it has interrupted, or is lost through a null
`mm` or in freed memory, stops rmmod, and at last everything: that is what the
code does, and `ExitCompletes` says that nothing else stops rmmod.

Assumptions of the passing runs. `core_main` has no hotplug, and neither core run
nor `imc_main` has a write before insmod has returned. In all core runs the
kernel's own NMI handler unmasks `LVTPC`. In `nvm_main` the emulated
and the polling CPU are on different nodes, and insmod is bound to a CPU. In
`boxes_main` the platform has UBOXes. In `nhm_main` a session counts fewer
writes than the counter has values. `migrate_main` assumes nothing of the process
beyond its use of the semaphore. What happens otherwise is in 3.2.

### 3.1 Disagreements between code and its comments

Each of these runs checks one property that the repository states, and TLC
finds a counterexample.

| Run | Property | What happens |
|---|---|---|
| `core_exit_residue` | `ExitClearsPmu` | rmmod clears a CPU; the NMI of an overflow before that restarts its counter; then the handler is unregistered. |
| `core_sticky_status` | `RestartIsOverflow` | Zero is written to `OVF_CTRL`, so the status bit of the first overflow stays and any NMI counts as an overflow. |
| `imc_exit_race` | `BackToDram` | A writer read a register before rmmod disabled it and writes it back enabled. |
| `nvm_foreign` | `OnlyEmulatedCounted` | CPUs are brought back before the timer is cancelled. |
| `boxes_leak` | `RefsReturned` | A box cannot be allocated: two references on its device stay. |

### 3.2 Outside the assumptions

What the models show, or the code alone, where an assumption of a passing run is
dropped. A run of each is a change of one constant of a `.cfg`, where one is
named.

* A write of '0' that begins before insmod has returned interleaves with
  insmod's own sweeps: the file shows -256 and counters are off
  (`core_pmu.c:482`). `EarlyWrites = TRUE` in `core_main` breaks
  `SamplingInForce`. In `imc_main` the same constant breaks `RatioInForce`: the
  write is overtaken by insmod's own setting of thresholds.
* A CPU that is offline during the write of '0' overflows when it is back
  (`core_pmu.c:229`). `Removable = {1}` in `core_main` breaks
  `DisabledNeverOverflows`, and `SamplingInForce` too.
* If nobody unmasks `LVTPC`, each counter interrupts once and never again.
  `Unmasks = FALSE` breaks `SamplingInForce` in `core_main` and `OverflowRearms`
  in `core_live`.
* Emulation did not start, a writer sets a ratio, and rmmod resets nothing,
  because `finish_emulate_nvm` returns at once (`emulate_nvm.c:358`).
  `StartFails = TRUE` in `imc_exit_race` reaches it.
* With early writes and hotplug at once, `NoStaleThreshold` is not run; the theorem
  of section 5 covers both.
* An insmod that is not bound may be moved to another CPU after the test of
  `emulate_nvm.c:231` and start the timer there, while `emulate_nvm.c:303-304`
  says that the polling CPU is the one that always polls. `Bound = FALSE` in
  `nvm_main` breaks `PolledByPollingCpu`.
* If CPUs 0 and 6 are on one node, the walk that brings down the other CPUs of
  the emulated node brings down the polling CPU too (`emulate_nvm.c:307`).
* Boxes of a type are numbered through all nodes, so box 0 of node 1 is not
  found by `uncore_get_box`, where `uncore_pmu.h:87-89` speaks of boxes of the
  same idx on different nodes (`uncore_pmu.c:463`). Nothing calls it: latency
  emulation asks `uncore_get_first_box`, which `FirstBoxIsAgent0` is about.
* On a platform without a UBOX insmod goes on or fails as the uninitialised
  `err` has it (`uncore_hswep.c:699`).
* `hswep_uncore_msr_enable_event` writes `event->disable` and
  `hswep_uncore_msr_disable_event` writes `event->enable`
  (`uncore_hswep.c:224-234`). Nothing calls them.
* `first_online_cpu_of_node` tests its result by `cpu > nr_cpu_ids`
  (`uncore_pmu.c:91`), so that the value for "none", `nr_cpu_ids`, passes.
* Nehalem: a write counted between the read and the zeroing is charged to nobody
  (`uncore_nhmep.c:694-695`); the first tick charges INITVAL itself, 2^48 - 100
  writes (`uncore_nhmep.c:686`), which is why `NeverTwice` allows for it; a delay
  taken late reads a parameter whose stack frame is gone (`uncore_nhmep.c:678`),
  which `DelaysAsAsked` excuses and the model reaches.
* Nehalem: `clear_all` asks CPU 6 for the second node (`uncore_nhmep.c:474-475`);
  if it is offline, the call fails and is ignored, and a counter that insmod has
  started from another CPU of that node goes on after rmmod. `NothingLeftBehind`
  is therefore about the node of CPU 0, and about the other one if CPU 6 is
  online. This was found by proving the property for all nodes.
* Migration: `migrate_main` itself reaches the callback that goes on with a vma or
  an mm freed before `down_write` (`Stray`), the null `mm` of a process that is
  leaving (`FireNoMm`) and the callback that waits for the task it has
  interrupted. Its properties say what holds nevertheless: `KeptOnceLocked` that
  nothing else can be lost, `CollectsAccessed` what a walk that ends has done, and
  `ExitCompletes` that rmmod waits for ever in these cases only. That
  `down_write` may sleep, which nothing called with interrupts off may, is a rule
  of the kernel that the model does not state.

## 4. Fairness

Safety runs use `Spec`, without fairness. `LiveSpec` adds, in each module, what
the kernel's scheduler provides.

* `CorePmu`: a CPU in the NMI handler finishes it (weak). NMIs interrupt the
  functions sent by IPI repeatedly but not for ever, because the counters count
  in user mode only; and the mutex is a FIFO queue: so steps of threads are
  strongly fair. Nobody has to load, unload or write.
* `UncoreImc`: threads are scheduled (weak); the mutex is FIFO (strong for a
  writer's calls); rmmod goes on once begun.
* `EmulateNvm`: the timer fires and its callback runs (weak). `hrtimer_cancel`
  retries until it hits a moment between two callbacks (strong for the loader).
* `UncoreNhm`: the callback runs and a delay ends (weak); `SURVIVOR` can take a
  call only between delays, and the loader act only between callbacks, both of
  which come again and again (strong). rmmod that runs on `SURVIVOR` itself, with
  the timer elsewhere, needs a delay shorter than the timer's interval, of which
  the model knows nothing; `ExitCompletes` leaves that case out.
* `Migrate`: the process releases the semaphore, if the timer has not interrupted
  it (`ProcessUnlock` is enabled in no other case), and `hrtimer_cancel` returns
  (weak); the semaphore is a queue, so the callback gets it (strong). A callback
  that strays into freed memory need not come back (no fairness).

The refinements of section 2 are of safety: `Throttle!Spec` and `Charge!Spec`
have no fairness. Liveness is stated on the detailed modules.

`ExitCompletes` of `CorePmu` and `UncoreImc` stands for the writers too: rmmod
waits for every write in progress, and may be tried at any moment, so a write
that never returned or left the mutex locked would keep it waiting for ever.

## 5. Proofs

Each theorem holds for every value of the constants that the module's `ASSUME`
allows: any number of CPUs, writers, nodes, DIMMs, any list of devices, any width
of a counter. `PROJECT.json` lists them. Hypotheses, where a theorem needs one,
are those of the passing runs, and 3.2 tells what happens without them:

| Hypothesis | Meaning | Needed by |
|---|---|---|
| `Removable = {}` | no CPU goes offline | `DisabledHolds`, `SamplingInForceHolds` |
| `Unmasks` | the kernel's own NMI handler unmasks `LVTPC` | `SamplingInForceHolds`, `SteadyInForceHolds` |
| `~EarlyWrites` | no write begins before insmod has returned | `SamplingInForceHolds`, `SteadyInForceHolds`, `RatioInForceHolds`, `ImplementsThrottleHolds`, `QuietInvHolds` |
| `Apart` | the polling CPU is not on the emulated node | `ChargedOnceHolds`, `NothingLeftBehindHolds` and `ImplementsChargeHolds` of latency emulation, `PolledByPollingCpuHolds` |
| `Bound` | insmod is bound to a CPU | `PolledByPollingCpuHolds` |
| `BusesMapped` | every bus has a UBOX that stays and tells its node, no two the same | `OneNodePerBusHolds` |

All the others are unconditional. None of the safety properties is inductive as
it stands; what follows says which invariant is, and why it is needed. TLC finds
the invariants true as well, on the constants of the component's passing run.

**`CorePmuProofs`**: `TypeOK`, `NoStaleThreshold`, `DisabledNeverOverflows`. The
value in `PMC0` comes from an NMI handler or an IPI function that read the
interval earlier. The invariant `IInv` adds

* `StpInv`: a thread in the middle of an IPI function is in a sweep that has
  such steps and is at an online CPU;
* `FreshHval`: what the NMI handler of a CPU has read is the interval in force,
  or some thread has still to clear that CPU;
* `FreshArg`: the same for what an IPI function has read.

`Owes(t, c)` ("thread t has still to clear CPU c") is what makes it go through:
whoever changes the interval does so before a clearing sweep, so each CPU that
may get an old value is one the writer still owes a visit; and when the visit
comes, an NMI handler that holds an old value has finished, since a function
sent by IPI cannot start inside it. A CPU offline at the visit is in `missed`
and excused. `DisabledWhereVisited` follows, with no hypothesis: with interval 0
in force and nobody in a sweep, the counter of every CPU that is not in `missed`,
and the value held by its handler, is 0. Without hotplug none is in `missed`, and
this is `DisabledNeverOverflows`.

**`SamplingProofs`** builds on it. `SamplingInForce` speaks of finished calls
only; `ForceInv` follows the sweeping thread over the CPUs: those the "event"
sweep has passed hold event and interval, those the "enable" sweep has passed
also count, unless the NMI handler has taken it away and will put it back. That
it will rests on `Prepared`: before the first counter counts the handler is
registered, the event chosen and the LVT set, and from there on it is set or
masked only until the NMI that is latched has been taken (`Delivers`). At most
one thread sweeps (`WriterInv`). The invariant is of the CPUs that stay online
(`Steady`), so that `SteadyInForce` holds for each of them while others come and
go in the middle of the sweeps; `SamplingInForce`, for all online CPUs, needs
that there are no others, since a CPU that was offline during a sweep comes back
with what it held before. `MutexHeld` says that a writer has the mutex just
between `mutex_lock` and `mutex_unlock`. `NoLostNmi` is an invariant of its own,
of the count the handler has loaded (`CountInv`).

**`UncoreImcProofs`**: `TypeOK`, `NoUseAfterFree`, `RatioInForce` and the refinement
of `Throttle`. Nothing but the mutex and the phases of insmod and rmmod keeps
two walks apart. `WalkInv` says which function a thread may be in, from which
`NoUseAfterFree` follows even with early writes. Where walks are kept apart, a
register that has been read is unchanged when it is written (`CfgInv`: no lost
update), and `RegInv` says of every register, by whether a walk has passed it
(`Passed`), what it holds; a walk has passed all registers of its nodes when it
ends. In the refinement each `WriteReg` is a step of `Throttle` on one channel, or a
stutter, and what the write must satisfy there is what `RegInv` says.

**`EmulateNvmProofs`**: `TypeOK`, `ChargedOnce`, `NothingLeftBehind`,
`TimerBeforeBoxes`, `PolledByPollingCpu` and the refinement of `Charge`. The
account adds up because the box is frozen from the first step of the callback
to its last (`FrozenInv`): what has been read of the two halves is still in
them; the two clearing writes undo just what was charged (`AccountInv`,
`Pending`). That the call to the emulated CPU never fails rests on `OnlineInv`: no
walk takes it down. Which phases have a timer, throttling, a proc file is
`PhaseInv`; where loader and timer are is `BoundInv`. `ValueCounts` is the
arithmetic of the carry, for every radix.

**`UncoreBoxesProofs`**: all seven invariants of `boxes_main`. `WalkInv` says where
the search stands in each phase, `EmptyInv` which lists may hold something; with
them `NothingRegistered`. `RefInv` states the balance by device as the steps
change it: what the search owes (`Search`), what has been made of the device
(`Made`), what was leaked; `RefBalance` reduces each action to how it moves the
three, `BoxAdded` and `ImcAdded` say what a new box changes. `NoFreedDevice`
follows, and so does that no count goes below zero. `OrderInv`: a list is in the
order of the id table, as the walk goes through the table and each id is in it
once. `NodeInv`: the map is complete before a box reads it, because the search
passes no UBOX that is present. `MsrInv` gives the boxes their indices, and
`RangesApart` is arithmetic on the real register numbers.

**`UncoreNhmProofs`**: `TypeOK`, `NeverTwice`, `DelaysAsAsked`, `NothingLeftBehind`
and, an action property, `FreezesFirstOrNever`. The callback runs only while the timer
is armed (`SessionInv`); what it has read was counted, whatever the counter does
until it is zeroed (`ChargeInv`); after the first tick the counter stays behind the
number of writes, which is less than its width (`TickInv`); what rmmod has cleared
stays clear, because a cleared counter does not count and the callback can only
write zero (`ClearInv`).

**`MigrateProofs`**: `TypeOK`, `WalkVisitsPresent`, `CollectsAccessed` and
`KeptOnceLocked`, without a hypothesis, so with the modules above every safety
property of the passing runs is a theorem. It has two parts.

* The walk, for every fan, every set of tables and every range (`WalkVisits`). An
  entry of any level spans what `AddrEnd` cuts off (`AddrEndFacts`), so a round
  either ends, or goes on closer to its end, or goes down a level: `Measure`
  decreases. That the recursive function exists is proved first, as a library
  theorem on recursive definitions would need an operator as a parameter:
  functions that satisfy the equation for all rounds of measure less than n exist
  for every n (`SolvedAll`), one of them solves it for all rounds, and so `Visits`
  is what `Loop` says (`RoundsUnfold`). Then what it returns (`RoundsVisit`), again
  by the measure: what a loop at level l visits is what is present, from level l
  down, of its range. Both inductions are over a set of naturals, not a
  predicate, by its least element outside (`InductionBySet` of `MinFacts`).
* The run. `TypeInv` adds to `TypeOK` that the list is `Ascending` whatever is
  mapped or unmapped, and that the vma in hand has pages. The vma in hand is on
  the list, or `dangling` says that it has been freed (`VmaInv`). Once the
  callback has the semaphore (`LockInv`) nobody else changes the list, and only
  the freeing of an mm that was left before can make it dangling, after which
  there is no process (`FreeInv`). For `CollectsAccessed`: a page that has ever been
  present has a vma and all its tables (`TablesInv`), so the walk of its vma
  visits it; what has been collected, what is left of the vma, and the vmas to
  come are apart and in order (`OrderInv`); and a page accessed before and not
  aged has been collected or is still ahead (`CoverInv`).

Only model-checked: liveness (`ExitCompletes`, `OverflowRearms`,
`ReadsAreCharged`, `CountsAgain`, `FinishCompletes`, `AskedAgain`), since fairness
and `ENABLED` are out of the prover's reach.

## 6. Not modelled

* Nanoseconds: the length of a delay, its rounding to microseconds
  (`emulate_nvm.c:67`), the period of the timer.
* MSR box methods: no caller; their addresses are modelled, their accesses are
  those of the PCI methods. Global uncore control: written once at load and
  unload. `misc/ioapic.c`, prints, `show` functions, scripts: no state.
* The NMI handler of `uncore_nhmep.c` and what only it calls: it is compiled and
  never registered.
* Huge pages and the length of page tables in `migrate.c`; the process's own
  changes of tables, beyond faults and unmapping.
* The kernel's NMI dispatcher, IPI queue, hotplug machinery, proc file system,
  memory management and PCI core: modelled as far as the code relies on them,
  and marked external.

## 7. Plan

Done: `CorePmu` first, as it has the most actors and the fewest locks, with its
proof; then `UncoreImc`, `EmulateNvm`, `UncoreBoxes`; then `UncoreNhm` and
`Migrate`, and the abstract specifications `Throttle` and `Charge` with their
refinements.

The proofs followed: first the invariants of `CorePmu`, then those of the other
modules with the two refinements, and last the page-table walk of `Migrate` with
its recursion.

Left:

1. A proof that `boxes_main`'s lookups and `nvm_main`'s box agree on which box
   they mean.
2. Composition of `UncoreImc` and `EmulateNvm`, so that what makes a start fail
   and what throttling does are one model.
