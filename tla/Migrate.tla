------------------------------- MODULE Migrate -------------------------------
(***************************************************************************)
(* The page migration module: migrate.c.                                   *)
(*                                                                         *)
(* insmod starts an hrtimer.  Its callback looks up a process, takes the   *)
(* semaphore mmap_sem of its address space and walks the page table over   *)
(* every vma, four levels deep, to collect the pages whose accessed bit is *)
(* set.  Meanwhile the process touches pages, and the kernel reclaims      *)
(* some; faults, mmap, munmap and the exit of the process need the         *)
(* semaphore.                                                              *)
(*                                                                         *)
(* Two things in the callback are errors of the code, and are modelled.    *)
(* It reads task->mm and its first vma before it has the semaphore: what   *)
(* it walks then may have been freed.  And it waits for the semaphore in   *)
(* an interrupt: a holder that runs on the CPU of the timer never goes on. *)
(*                                                                         *)
(* A page is its number, and a table has Fan entries instead of 512.       *)
(***************************************************************************)
EXTENDS Naturals, Sequences, SequencesExt, FiniteSetsExt

CONSTANTS
    Fan,       \* entries of a table, of each of the Levels levels
    VmaLists,  \* address spaces: ascending lists of [vm_start, vm_end], in pages
    Used       \* the pages that the process ever touches

\* The pages that an entry spans: PGDIR_SIZE, PUD_SIZE, PMD_SIZE and PAGE_SIZE.
Levels == 4
Spans  == <<Fan * Fan * Fan, Fan * Fan, Fan, 1>>
Size   == Fan * Spans[1]
Page   == 0 .. Size - 1
Vma    == [vm_start : Page, vm_end : 1 .. Size]

\* The kernel keeps the vmas of a process in order and apart.
Ascending(list) ==
    \A i \in DOMAIN list :
        /\ list[i].vm_start < list[i].vm_end
        /\ \A j \in 1 .. i - 1 : list[j].vm_end <= list[i].vm_start

ASSUME MigrateAssumption ==
    /\ Fan \in Nat \ {0}
    /\ Used \subseteq Page
    /\ VmaLists \subseteq Seq(Vma)
    /\ \A l \in VmaLists : Ascending(l)

VARIABLES
    pc,        \* the loader: is the module out, in, or in migrate_exit?
    timer,
    cb,        \* the callback: next step
    vma, todo, \* its vma, and the page table entries it has still to visit there
    collected, \* the pages it has called collect_statistics for
    dangling,  \* has its vma been freed, or the mm, since it was read?
    lock,      \* mmap_sem: who has it
    interrupted, \* is the holder the task that the timer has interrupted?
    task,      \* the process: "alive", "leaving" (task->mm is NULL), or "none"
    mmap,      \* its list of vmas
    tables,    \* the entries above the last level that are not none
    pte,       \* the last level: "none", "swapped", "old", or "young" (accessed)
    before,    \* ghosts of a walk: pages young when it began, ...
    seen,      \* ... or at some time since
    aged       \* pages that the kernel has made old since

callback == <<cb, vma, todo, collected>>
memory   == <<mmap, tables, pte>>
sem      == <<lock, interrupted>>
ghosts   == <<before, seen, aged>>
vars     == <<pc, timer, callback, dangling, sem, task, memory, ghosts>>

\* The entry of level l (1 pgd, 2 pud, 3 pmd) that a page is reached through.
Entry(l, p) == <<l, p \div Spans[l]>>
Path(p)     == {Entry(l, p) : l \in 1 .. Levels - 1}

NoVma   == [vm_start |-> 0, vm_end |-> 0]
PagesOf(v) == v.vm_start .. v.vm_end - 1
Young   == {p \in Page : pte[p] = "young"}

TypeOK ==
    /\ pc \in {"out", "in", "exit"}
    /\ timer \in {"off", "armed"}
    /\ cb \in {"idle", "lock", "walk", "unlock", "stray", "oops"}
    /\ vma \in Vma \cup {NoVma}
    /\ todo \in Seq(Page) /\ collected \in Seq(Page)
    /\ lock \in {"free", "callback", "process"}
    /\ {dangling, interrupted} \subseteq BOOLEAN
    /\ task \in {"alive", "leaving", "none"}
    /\ mmap \in Seq(Vma)
    /\ \A e \in tables : e \in (1 .. Levels - 1) \X Page
    /\ pte \in [Page -> {"none", "swapped", "old", "young"}]
    /\ before \cup seen \cup aged \subseteq Page

Init ==
    /\ pc = "out" /\ timer = "off"
    /\ cb = "idle" /\ vma = NoVma /\ todo = <<>> /\ collected = <<>>
    /\ dangling = FALSE
    /\ lock = "free" /\ interrupted = FALSE
    /\ \/ task = "alive" /\ mmap \in VmaLists
       \/ task = "none" /\ mmap = <<>>
    /\ tables = {}
    /\ pte = [p \in Page |-> "none"]
    /\ before = {} /\ seen = {} /\ aged = {}

-----------------------------------------------------------------------------
(* The walk.                                                               *)

\* pgd_addr_end, pud_addr_end, pmd_addr_end: the next boundary, or the end.
AddrEnd(l, addr, end) ==
    LET boundary == (addr \div Spans[l] + 1) * Spans[l]
    IN  IF boundary < end THEN boundary ELSE end

\* A round: the level, and the address it starts from and the end of the loop.
Round == (1 .. Levels) \X (0 .. Size) \X (0 .. Size)

\* Mutant: an entry that is none ends the loop.
LoopGivesUp(T, range, l, addr, end) ==
    IF addr = end THEN <<>>
    ELSE LET next == AddrEnd(l, addr, end)
         IN  IF l = Levels THEN <<addr>> \o range[<<l, next, end>>]
             ELSE IF Entry(l, addr) \notin T THEN <<>>
             ELSE range[<<l + 1, addr, next>>] \o range[<<l, next, end>>]

\* clear_page_range, clear_pud_range, clear_pmd_range and clear_pte_range are one
\* loop at four levels: a round of it from addr, where the tables T are present,
\* with what range says of the level below and of the rounds that follow.
Loop(T, range, l, addr, end) ==
    IF addr = end THEN <<>>
    ELSE LET next == AddrEnd(l, addr, end)
         IN  (IF l = Levels THEN <<addr>>
              ELSE IF Entry(l, addr) \notin T THEN <<>>
              ELSE range[<<l + 1, addr, next>>]) \o range[<<l, next, end>>]

\* The entries of the last level that they visit, in order.
Visits(T, start, stop) ==
    LET range[x \in Round] == Loop(T, range, x[1], x[2], x[3])
    IN  range[<<1, start, stop>>]

-----------------------------------------------------------------------------
(* migrate_init, migrate_exit and hrtimer_def.                             *)

Load ==
    /\ pc = "out"
    /\ pc' = "in"
    /\ timer' = "armed"
    /\ UNCHANGED <<callback, dangling, sem, task, memory, ghosts>>

Unload ==
    /\ pc = "in"
    /\ pc' = "exit"
    /\ UNCHANGED <<timer, callback, dangling, sem, task, memory, ghosts>>

\* hrtimer_cancel waits for a callback that runs.
CancelTimer ==
    /\ pc = "exit" /\ cb = "idle"
    /\ pc' = "out"
    /\ timer' = "off"
    /\ UNCHANGED <<callback, dangling, sem, task, memory, ghosts>>

\* The timer fires.  There is no such process, ...
FireNoTask ==
    /\ timer = "armed" /\ task = "none"
    /\ timer' = "off"
    /\ UNCHANGED <<pc, callback, dangling, sem, task, memory, ghosts>>

\* ... or it has no mm any more, and mm->mmap is read through NULL, ...
FireNoMm ==
    /\ timer = "armed" /\ task = "leaving"
    /\ timer' = "off"
    /\ cb' = "oops"
    /\ UNCHANGED <<pc, vma, todo, collected, dangling, sem, task, memory, ghosts>>

\* ... or its first vma is read, before the semaphore is taken.  The timer may
\* have interrupted the process while it held the semaphore.
Fire ==
    /\ timer = "armed" /\ task = "alive"
    /\ timer' = "off"
    /\ cb' = "lock"
    /\ vma' = IF mmap = <<>> THEN NoVma ELSE Head(mmap)
    /\ collected' = <<>>
    /\ dangling' = FALSE
    /\ interrupted' \in {FALSE, lock = "process"}
    /\ UNCHANGED <<pc, todo, lock, task, memory, ghosts>>

\* Mutant: the loop runs until the address is past the end.
VisitsPast(v) ==
    IF v = NoVma THEN <<>>
    ELSE Append(Visits(tables, v.vm_start, v.vm_end), v.vm_end)

\* What is visited of a vma, if there is one.
VisitsOf(v) == IF v = NoVma THEN <<>> ELSE Visits(tables, v.vm_start, v.vm_end)

\* The young pages of the first vma and of those after it.
YoungAhead == {p \in Young : vma # NoVma /\ vma.vm_start <= p}

\* Mutant: the semaphore is not taken, as the comment before it considers.
WalkUnlocked ==
    /\ cb = "lock" /\ ~dangling
    /\ cb' = "walk"
    /\ todo' = VisitsOf(vma)
    /\ before' = YoungAhead /\ seen' = Young /\ aged' = {}
    /\ UNCHANGED <<pc, timer, vma, collected, dangling, sem, task, memory>>

\* down_write.
DownWrite ==
    /\ cb = "lock" /\ lock = "free" /\ ~dangling
    /\ lock' = "callback"
    /\ cb' = "walk"
    /\ todo' = VisitsOf(vma)
    /\ before' = YoungAhead /\ seen' = Young /\ aged' = {}
    /\ UNCHANGED <<pc, timer, vma, collected, dangling, interrupted, task, memory>>

\* Mutant: every present page is collected.
VisitPresent ==
    /\ cb = "walk" /\ todo # <<>> /\ ~dangling
    /\ todo' = Tail(todo)
    /\ collected' = IF pte[Head(todo)] \in {"old", "young"}
                    THEN Append(collected, Head(todo)) ELSE collected
    /\ UNCHANGED <<pc, timer, cb, vma, dangling, sem, task, memory, ghosts>>

\* One round of clear_pte_range.  The accessed bit is cleared in a copy only:
\* pte_clear_flags returns its result, and nobody takes it.
Visit ==
    /\ cb = "walk" /\ todo # <<>> /\ ~dangling
    /\ todo' = Tail(todo)
    /\ collected' = IF pte[Head(todo)] = "young"
                    THEN Append(collected, Head(todo)) ELSE collected
    /\ UNCHANGED <<pc, timer, cb, vma, dangling, sem, task, memory, ghosts>>

\* vm_next: the vma after v in the list as it is.
VmNext(v) ==
    LET after == {i \in DOMAIN mmap : mmap[i].vm_start > v.vm_start}
    IN  IF after = {} THEN NoVma ELSE mmap[Min(after)]

\* Mutant: a vma with nothing to visit is "continue", before vma = vma->vm_next.
NextVmaContinue ==
    /\ cb = "walk" /\ todo = <<>> /\ ~dangling
    /\ IF vma = NoVma
       THEN cb' = "unlock" /\ UNCHANGED <<vma, todo>>
       ELSE /\ vma' = IF VisitsOf(vma) = <<>> THEN vma ELSE VmNext(vma)
            /\ todo' = VisitsOf(vma')
            /\ UNCHANGED cb
    /\ UNCHANGED <<pc, timer, collected, dangling, sem, task, memory, ghosts>>

\* clear_single_vma has returned: the loop over the vmas goes on, or ends.
NextVma ==
    /\ cb = "walk" /\ todo = <<>> /\ ~dangling
    /\ IF vma = NoVma
       THEN cb' = "unlock" /\ UNCHANGED <<vma, todo>>
       ELSE vma' = VmNext(vma) /\ todo' = VisitsOf(vma') /\ UNCHANGED cb
    /\ UNCHANGED <<pc, timer, collected, dangling, sem, task, memory, ghosts>>

\* up_write, and HRTIMER_NORESTART: the timer has been put forward in vain.
UpWrite ==
    /\ cb = "unlock" /\ ~dangling
    /\ cb' = "idle"
    /\ lock' = "free"
    /\ UNCHANGED <<pc, timer, vma, todo, collected, dangling, interrupted, task,
                   memory, ghosts>>

\* The callback goes on in freed memory: a vma, or the mm with the semaphore and
\* the tables.  Nothing is said of what it does there, ...
Stray ==
    /\ dangling
    /\ \/ cb = "lock" /\ lock = "free"
       \/ cb \in {"walk", "unlock"}
    /\ cb' = "stray"
    /\ lock' = "callback"
    /\ UNCHANGED <<pc, timer, vma, todo, collected, dangling, interrupted, task,
                   memory, ghosts>>

\* ... and it may come back or not.
StrayReturns ==
    /\ cb = "stray"
    /\ cb' = "idle"
    /\ lock' = "free"
    /\ UNCHANGED <<pc, timer, vma, todo, collected, dangling, interrupted, task,
                   memory, ghosts>>

-----------------------------------------------------------------------------
(* The process and the kernel.                                             *)

Mapped(p) == \E i \in DOMAIN mmap : p \in PagesOf(mmap[i])

\* A present page is touched: the hardware sets its accessed bit.
Touch(p) ==
    /\ task = "alive"
    /\ pte[p] = "old"
    /\ pte' = [pte EXCEPT ![p] = "young"]
    /\ seen' = seen \cup {p}
    /\ UNCHANGED <<pc, timer, callback, dangling, sem, task, mmap, tables, before, aged>>

ProcessLock ==
    /\ task = "alive" /\ lock = "free"
    /\ lock' = "process"
    /\ UNCHANGED <<pc, timer, callback, dangling, interrupted, task, memory, ghosts>>

\* The process has the semaphore, and its CPU.
HoldsSem == lock = "process" /\ ~interrupted

\* A page fault makes a page present, with all the tables above it.
Fault(p) ==
    /\ HoldsSem /\ task = "alive"
    /\ Mapped(p) /\ pte[p] \in {"none", "swapped"}
    /\ pte' = [pte EXCEPT ![p] = "young"]
    /\ tables' = tables \cup Path(p)
    /\ seen' = seen \cup {p}
    /\ UNCHANGED <<pc, timer, callback, dangling, sem, task, mmap, before, aged>>

\* mmap of a vma, where there is room for it.
Map(i, v) ==
    /\ HoldsSem /\ task = "alive"
    /\ mmap' = InsertAt(mmap, i, v)
    /\ Ascending(mmap')
    /\ UNCHANGED <<pc, timer, callback, dangling, sem, task, tables, pte, ghosts>>

\* munmap of a vma, which is freed.
Unmap(i) ==
    /\ HoldsSem /\ task = "alive"
    /\ mmap' = RemoveAt(mmap, i)
    /\ pte' = [p \in Page |-> IF p \in PagesOf(mmap[i]) THEN "none" ELSE pte[p]]
    /\ aged' = aged \cup PagesOf(mmap[i])
    /\ dangling' = (dangling \/ (cb \in {"lock", "walk"} /\ vma = mmap[i]))
    /\ UNCHANGED <<pc, timer, callback, sem, task, tables, before, seen>>

\* exit_mm: task->mm = NULL.
Leave ==
    /\ HoldsSem /\ task = "alive"
    /\ task' = "leaving"
    /\ UNCHANGED <<pc, timer, callback, dangling, sem, memory, ghosts>>

ProcessUnlock ==
    /\ HoldsSem
    /\ lock' = "free"
    /\ UNCHANGED <<pc, timer, callback, dangling, interrupted, task, memory, ghosts>>

\* mmput: the vmas, the tables and the mm are freed, without the semaphore.
Exit ==
    /\ task = "leaving" /\ lock # "process"
    /\ task' = "none"
    /\ mmap' = <<>> /\ tables' = {}
    /\ pte' = [p \in Page |-> "none"]
    /\ aged' = Page
    /\ dangling' = (dangling \/ cb \in {"lock", "walk", "unlock"})
    /\ UNCHANGED <<pc, timer, callback, sem, before, seen>>

\* Reclaim, without the semaphore, makes a page old, or swaps an old one out.
Reclaim(p) ==
    /\ \/ pte[p] = "young" /\ pte' = [pte EXCEPT ![p] = "old"]
       \/ pte[p] = "old" /\ pte' = [pte EXCEPT ![p] = "swapped"]
    /\ aged' = aged \cup {p}
    /\ UNCHANGED <<pc, timer, callback, dangling, sem, task, mmap, tables, before, seen>>

-----------------------------------------------------------------------------
Callback == \/ FireNoTask \/ FireNoMm \/ Fire
            \/ DownWrite \/ Visit \/ NextVma \/ UpWrite \/ Stray

\* The vmas that a process may have.
Vmas == UNION {ToSet(l) : l \in VmaLists}

Next == \/ Load \/ Unload \/ CancelTimer
        \/ Callback \/ StrayReturns
        \/ \E p \in Used : Touch(p) \/ Fault(p) \/ Reclaim(p)
        \/ ProcessLock \/ ProcessUnlock \/ Leave \/ Exit
        \/ \E v \in Vmas : \E i \in 1 .. Len(mmap) + 1 : Map(i, v)
        \/ \E i \in DOMAIN mmap : Unmap(i)

Spec == Init /\ [][Next]_vars

\* The timer fires and its callback runs; the semaphore, a queue, is released by
\* a process that can go on; rmmod, once begun, goes on.
Fairness == SF_vars(Callback) /\ WF_vars(ProcessUnlock) /\ WF_vars(CancelTimer)

LiveSpec == Spec /\ Fairness

-----------------------------------------------------------------------------
(* Properties.                                                             *)

InOrder(pages) == \A j \in DOMAIN pages : \A i \in 1 .. j - 1 : pages[i] < pages[j]

AllTables ==
    {T \in SUBSET UNION {Path(p) : p \in Page} :
        \A l \in 1 .. Levels - 2 : \A p \in Page :
            Entry(l + 1, p) \in T => Entry(l, p) \in T}

\* The four nested loops visit each page of a vma that all tables above are
\* present for once, in ascending order, and nothing else, whatever tables there
\* are: also where a vma begins or ends inside a table (migrate.c:88-171).  This
\* does not depend on the state, and TLC looks at it in one state only.
WalkVisitsPresent ==
    pc = "out" /\ tables = {} /\ task = "none" /\ collected = <<>> =>
        \A T \in AllTables : \A s \in Page : \A e \in s + 1 .. Size :
            LET visited == Visits(T, s, e)
            IN  /\ ToSet(visited) = {p \in s .. e - 1 : Path(p) \subseteq T}
                /\ InOrder(visited)

\* A walk that comes to its end has collected every mapped page that was accessed
\* before it and not aged meanwhile, in the vma that it read first and those after
\* it, and only pages accessed before or meanwhile, in ascending order and none
\* twice, although they are touched and aged while it goes on, and vmas were mapped
\* and unmapped before down_write (migrate.c:94-114, 194-210).
CollectsAccessed ==
    cb = "unlock" =>
        /\ {p \in before : Mapped(p)} \ aged \subseteq ToSet(collected)
        /\ ToSet(collected) \subseteq seen
        /\ InOrder(collected)

\* Once the callback has the semaphore over memory that is there, this remains so:
\* the vma that it walks stays on the list of the process.  What it walks that is
\* gone was freed before down_write, or by a process that had left the mm before
\* (migrate.c:193-210).
KeptOnceLocked ==
    cb \in {"walk", "unlock"} =>
        \/ task = "none"
        \/ ~dangling /\ (vma # NoVma => \E i \in DOMAIN mmap : mmap[i] = vma)

\* rmmod, which waits for the callback, returns, unless the callback waits for the
\* task that it has interrupted, or is lost in freed memory or through NULL
\* (migrate.c:193-215, 232-236).
ExitCompletes ==
    pc = "exit" ~> \/ pc = "out"
                   \/ interrupted
                   \/ cb \in {"stray", "oops"}

=============================================================================
