----------------------------- MODULE UncoreBoxes -----------------------------
(***************************************************************************)
(* The registry of uncore PMU boxes: uncore_init and uncore_exit of        *)
(* uncore_pmu.c, the init functions they call in uncore_pmu.c,             *)
(* uncore_imc.c and uncore_hswep.c, and the lookups of a box.              *)
(*                                                                         *)
(* insmod maps PCI buses to NUMA nodes, walks all PCI devices once per row *)
(* of two id tables and makes a box, or an IMC device, of each device it   *)
(* finds; rmmod and every failure take it all apart again.  What is hard   *)
(* is who holds which reference: pci_get_device takes one on the device it *)
(* returns and puts the one on the device the search starts from, so the   *)
(* code takes one more, by hand, for as long as the device is listed.      *)
(***************************************************************************)
EXTENDS Integers, Sequences, FiniteSets, SequencesExt, FiniteSetsExt

CONSTANTS
    Machine,      \* the PCI devices, in the kernel's order: [id, bus]
    NodeIdReg,    \* of each bus: the node id its UBOX reports ...
    NodeMapReg,   \* ... and its map: the id of each of the nodes 0 .. 7
    MaxCores,     \* boot_cpu_data.x86_max_cores
    FailSites,    \* where kzalloc may fail: any of "pci", "msr", "imc"
    ConfigFails,  \* may a read of PCI configuration space fail?
    Unpluggable,  \* the devices the kernel may remove
    MaxHeld       \* bound: insmod only while no device has more leaked references

Dev == DOMAIN Machine
Bus == DOMAIN NodeIdReg

ASSUME UncoreBoxesAssumption ==
    /\ Machine \in Seq([id : STRING, bus : Bus])
    /\ NodeIdReg \in [Bus -> 0 .. 7]
    /\ NodeMapReg \in [Bus -> [0 .. 7 -> 0 .. 7]]
    /\ MaxCores \in Nat \ {0}
    /\ FailSites \subseteq {"pci", "msr", "imc"}
    /\ ConfigFails \in BOOLEAN
    /\ Unpluggable \subseteq Dev
    /\ MaxHeld \in Nat

VARIABLES
    pc,         \* where insmod or rmmod is
    row,        \* the row of the id table the walk is at
    from,       \* the device pci_get_device returned last, 0 for NULL
    err,        \* hswep_pcibus_to_nodeid: the variable err says "failed"
    nodeOf,     \* uncore_pcibus_to_nodeid, -1 where nothing is known
    num_boxes,  \* num_boxes of each type
    pciBoxes,   \* box_list of each PCI type
    msrBoxes,   \* box_list of each MSR type: the indices
    imcs,       \* uncore_imc_devices
    held,       \* the references this module holds on each device
    present,    \* the devices on the kernel's list
    leaked      \* ghost: of the references held, those a failed walk forgot

walk == <<row, from>>
lists == <<pciBoxes, msrBoxes, imcs, num_boxes>>
refs == <<held, present>>
vars == <<pc, walk, err, nodeOf, lists, refs, leaked>>

-----------------------------------------------------------------------------
(* Tables of uncore_hswep.c.                                               *)

PciType == {"HA", "IMC", "IRP", "QPI", "R2PCIE", "R3QPI"}
MsrType == <<"U", "PCU", "S", "C">>

Row(id, type) == [id |-> id, type |-> type]

HSWEP_UNCORE_PCI_IDS == <<
    Row("2F30", "HA"),  Row("2F38", "HA"),
    Row("2FB0", "IMC"), Row("2FB1", "IMC"), Row("2FB4", "IMC"), Row("2FB5", "IMC"),
    Row("2FD0", "IMC"), Row("2FD1", "IMC"), Row("2FD4", "IMC"), Row("2FD5", "IMC"),
    Row("2F39", "IRP"),
    Row("2F32", "QPI"), Row("2F33", "QPI"), Row("2F3A", "QPI"),
    Row("2F34", "R2PCIE"),
    Row("2F36", "R3QPI"), Row("2F37", "R3QPI"), Row("2F3E", "R3QPI") >>

\* The channels whose bandwidth is throttled: two of the eight are not listed.
HSWEP_E5_IMC == <<
    Row("2FB4", "imc"), Row("2FB5", "imc"), Row("2FB0", "imc"),
    Row("2FB1", "imc"), Row("2FD0", "imc"), Row("2FD1", "imc") >>

StaticBoxes == [HA |-> 2, IMC |-> 8, IRP |-> 1, QPI |-> 3, R2PCIE |-> 1,
                R3QPI |-> 3, U |-> 1, PCU |-> 1, S |-> 4, C |-> 18]

\* The MSRs of the first box of each MSR type, with 0 for one it does not have, and
\* the distance to those of the next box.
HSWEP_UNCORE_MSR == [
    U   |-> [ctl |-> 0, status |-> \h708, filter |-> {}, fixed |-> {\h703, \h704},
             counters |-> 2, perf_ctl |-> \h705, perf_ctr |-> \h709, offset |-> 0],
    PCU |-> [ctl |-> \h710, status |-> \h716, filter |-> {\h715}, fixed |-> {},
             counters |-> 4, perf_ctl |-> \h711, perf_ctr |-> \h717, offset |-> 0],
    S   |-> [ctl |-> \h720, status |-> \h725, filter |-> {}, fixed |-> {},
             counters |-> 4, perf_ctl |-> \h721, perf_ctr |-> \h726, offset |-> \hA],
    C   |-> [ctl |-> \hE00, status |-> \hE07, filter |-> {\hE05, \hE06}, fixed |-> {},
             counters |-> 4, perf_ctl |-> \hE01, perf_ctr |-> \hE08, offset |-> \h10] ]

\* Mutant: the distance is taken for the number of counters of a box.
uncore_msr_box_offset_counters(type, idx) == idx * HSWEP_UNCORE_MSR[type].counters

uncore_msr_box_offset(type, idx) == idx * HSWEP_UNCORE_MSR[type].offset

\* All MSRs of box idx of a type: uncore_msr_box_ctl, uncore_msr_perf_ctr, ...
MsrsOf(type, idx) ==
    LET m   == HSWEP_UNCORE_MSR[type]
        own == (({m.ctl, m.status} \cup m.filter \cup m.fixed) \ {0})
                   \cup (m.perf_ctl .. m.perf_ctl + m.counters - 1)
                   \cup (m.perf_ctr .. m.perf_ctr + m.counters - 1)
    IN  {r + uncore_msr_box_offset(type, idx) : r \in own}

-----------------------------------------------------------------------------
Phase == {"unloaded", "map", "pci", "pci_new", "cpu", "imc", "imc_new", "proc",
          "live", "own_imc", "own_cpu", "own_pci", "exit_imc", "exit_cpu", "exit_pci"}
PciBox == [idx : Nat, node : -1 .. 7, dev : Dev]
ImcDev == [node : -1 .. 7, dev : Dev]

TypeOK ==
    /\ pc \in Phase
    /\ row \in 0 .. Len(HSWEP_UNCORE_PCI_IDS) + 1
    /\ from \in Dev \cup {0}
    /\ err \in BOOLEAN
    /\ nodeOf \in [Bus -> -1 .. 7]
    /\ num_boxes \in [DOMAIN StaticBoxes -> Nat]
    /\ pciBoxes \in [PciType -> Seq(PciBox)]
    /\ msrBoxes \in [ToSet(MsrType) -> Seq(Nat)]
    /\ imcs \in Seq(ImcDev)
    /\ held \in [Dev -> Nat] /\ leaked \in [Dev -> Nat]
    /\ present \subseteq Dev

Init ==
    /\ pc = "unloaded"
    /\ row = 0
    /\ from = 0
    /\ err = FALSE
    /\ nodeOf = [b \in Bus |-> -1]
    /\ num_boxes = StaticBoxes
    /\ pciBoxes = [t \in PciType |-> <<>>]
    /\ msrBoxes = [t \in ToSet(MsrType) |-> <<>>]
    /\ imcs = <<>>
    /\ held = [d \in Dev |-> 0]
    /\ leaked = [d \in Dev |-> 0]
    /\ present = Dev

-----------------------------------------------------------------------------
(* pci_get_device.                                                         *)

\* The devices a search for an id may still return.
Ahead(id) == {d \in present : d > from /\ Machine[d].id = id}

\* The references after the search: n on the device found, one less on from.
Put == [d \in Dev |-> held[d] - (IF d = from THEN 1 ELSE 0)]
Got(found, n) == [Put EXCEPT ![found] = @ + n]

-----------------------------------------------------------------------------
(* insmod: uncore_pci_init.                                                *)

\* The module's data is as the compiler laid it out, but for err, which lives
\* on the stack and is never initialised.
Insmod ==
    /\ pc = "unloaded"
    /\ \A d \in Dev : held[d] <= MaxHeld
    /\ pc' = "map"
    /\ err' \in BOOLEAN
    /\ nodeOf' = [b \in Bus |-> -1]
    /\ num_boxes' = StaticBoxes
    /\ UNCHANGED <<walk, pciBoxes, msrBoxes, imcs, refs, leaked>>

\* The nodes whose entry in the map of a bus is the id its UBOX reports.
Matches(b) == {i \in 0 .. 7 : NodeMapReg[b][i] = NodeIdReg[b]}

\* Mutant: the loop ends at the first UBOX.
MapUboxOnce ==
    /\ pc = "map"
    /\ Ahead("ubox") # {}
    /\ LET ubox == Min(Ahead("ubox"))
           b == Machine[ubox].bus
       IN  nodeOf' = [nodeOf EXCEPT ![b] = Min(Matches(b) \cup {7})]
    /\ err' = FALSE
    /\ pc' = "pci"
    /\ row' = 1
    /\ UNCHANGED <<from, lists, refs, leaked>>

\* hswep_pcibus_to_nodeid: one UBOX read.
MapUbox ==
    /\ pc = "map"
    /\ Ahead("ubox") # {}
    /\ LET ubox == Min(Ahead("ubox"))
           b == Machine[ubox].bus
       IN  /\ nodeOf' = IF Matches(b) = {} THEN nodeOf
                        ELSE [nodeOf EXCEPT ![b] = Min(Matches(b))]
           /\ held' = Got(ubox, 1)
           /\ from' = ubox
    /\ err' = FALSE
    /\ UNCHANGED <<pc, row, lists, present, leaked>>

\* Mutant: the UBOX whose read failed is not put.
MapFailsNoPut ==
    /\ pc = "map"
    /\ ConfigFails
    /\ Ahead("ubox") # {}
    /\ held' = Got(Min(Ahead("ubox")), 1)
    /\ err' = TRUE
    /\ from' = 0
    /\ pc' = "exit_pci"
    /\ UNCHANGED <<row, nodeOf, lists, present, leaked>>

\* A read of its registers fails: the UBOX is put and insmod fails.
MapFails ==
    /\ pc = "map"
    /\ ConfigFails
    /\ Ahead("ubox") # {}
    /\ held' = Put
    /\ err' = TRUE
    /\ from' = 0
    /\ pc' = "exit_pci"
    /\ UNCHANGED <<row, nodeOf, lists, present, leaked>>

\* No UBOX is left.  Without any, err has never been assigned.
MapDone ==
    /\ pc = "map"
    /\ Ahead("ubox") = {}
    /\ held' = Put
    /\ from' = 0
    /\ pc' = IF err THEN "exit_pci" ELSE "pci"
    /\ row' = 1
    /\ UNCHANGED <<err, nodeOf, lists, present, leaked>>

\* Mutant: the reference is not taken by hand.
FindNoGet(phase, ids, next) ==
    /\ pc = phase
    /\ row <= Len(ids)
    /\ Ahead(ids[row].id) # {}
    /\ held' = Got(Min(Ahead(ids[row].id)), 1)
    /\ from' = Min(Ahead(ids[row].id))
    /\ pc' = next
    /\ UNCHANGED <<row, err, nodeOf, lists, present, leaked>>

\* The walk of uncore_pci_init and of uncore_imc_init finds a device and takes a
\* second reference on it ...
Find(phase, ids, next) ==
    /\ pc = phase
    /\ row <= Len(ids)
    /\ Ahead(ids[row].id) # {}
    /\ held' = Got(Min(Ahead(ids[row].id)), 2)
    /\ from' = Min(Ahead(ids[row].id))
    /\ pc' = next
    /\ UNCHANGED <<row, err, nodeOf, lists, present, leaked>>

\* ... or there is none and it goes on to the next row ...
NextRow(phase, ids) ==
    /\ pc = phase
    /\ row <= Len(ids)
    /\ Ahead(ids[row].id) = {}
    /\ held' = Put
    /\ from' = 0
    /\ row' = row + 1
    /\ UNCHANGED <<pc, err, nodeOf, lists, present, leaked>>

\* ... until the table ends.
PciDone ==
    /\ pc = "pci"
    /\ row > Len(HSWEP_UNCORE_PCI_IDS)
    /\ pc' = "cpu"
    /\ num_boxes' = [num_boxes EXCEPT !.C = Min({@, MaxCores})]
    /\ UNCHANGED <<walk, err, nodeOf, pciBoxes, msrBoxes, imcs, refs, leaked>>

\* The box uncore_pci_new_box makes of a device for a list.
NewPciBox(list, d) ==
    [idx |-> IF list = <<>> THEN 0 ELSE Last(list).idx + 1,
     node |-> nodeOf[Machine[d].bus],
     dev |-> d]

\* Mutant: the box goes to the head of the list.
PciNewBoxAtHead ==
    LET type == HSWEP_UNCORE_PCI_IDS[row].type
        list == pciBoxes[type]
    IN  /\ pc = "pci_new"
        /\ pciBoxes' = [pciBoxes EXCEPT ![type] = <<NewPciBox(list, from)>> \o @]
        /\ num_boxes' = [num_boxes EXCEPT ![type] = IF list = <<>> THEN 1 ELSE @ + 1]
        /\ pc' = "pci"
        /\ UNCHANGED <<walk, err, nodeOf, msrBoxes, imcs, refs, leaked>>

\* uncore_pci_new_box.
PciNewBox ==
    LET type == HSWEP_UNCORE_PCI_IDS[row].type
        list == pciBoxes[type]
    IN  /\ pc = "pci_new"
        /\ pciBoxes' = [pciBoxes EXCEPT ![type] = Append(list, NewPciBox(list, from))]
        /\ num_boxes' = [num_boxes EXCEPT ![type] = IF list = <<>> THEN 1 ELSE @ + 1]
        /\ pc' = "pci"
        /\ UNCHANGED <<walk, err, nodeOf, msrBoxes, imcs, refs, leaked>>

\* kzalloc fails: the walk is left with both references on the device.  What an
\* init function has done it undoes itself ("own_pci"), and then once more at the
\* label of uncore_init it jumps to ("exit_pci").
PciNewFails ==
    /\ pc = "pci_new"
    /\ "pci" \in FailSites
    /\ leaked' = [leaked EXCEPT ![from] = @ + 2]
    /\ from' = 0
    /\ pc' = "own_pci"
    /\ UNCHANGED <<row, err, nodeOf, lists, refs>>

-----------------------------------------------------------------------------
(* insmod: uncore_cpu_init, uncore_imc_init and uncore_proc_create.        *)

\* The types that still lack boxes, as positions in uncore_msr_type.
Lacking == {n \in DOMAIN MsrType :
                Len(msrBoxes[MsrType[n]]) < num_boxes[MsrType[n]]}

\* uncore_msr_new_box.
MsrNewBox ==
    /\ pc = "cpu"
    /\ Lacking # {}
    /\ LET type == MsrType[Min(Lacking)]
       IN  msrBoxes' = [msrBoxes EXCEPT ![type] = Append(@, Len(@))]
    /\ UNCHANGED <<pc, walk, err, nodeOf, pciBoxes, imcs, num_boxes, refs, leaked>>

\* Mutant: only what uncore_cpu_init itself made is freed.
MsrNewFailsReturn ==
    /\ pc = "cpu"
    /\ Lacking # {}
    /\ "msr" \in FailSites
    /\ msrBoxes' = [t \in ToSet(MsrType) |-> <<>>]
    /\ pc' = "unloaded"
    /\ row' = 0
    /\ UNCHANGED <<from, err, nodeOf, pciBoxes, imcs, num_boxes, refs, leaked>>

MsrNewFails ==
    /\ pc = "cpu"
    /\ Lacking # {}
    /\ "msr" \in FailSites
    /\ pc' = "own_cpu"
    /\ UNCHANGED <<walk, err, nodeOf, lists, refs, leaked>>

MsrDone ==
    /\ pc = "cpu"
    /\ Lacking = {}
    /\ pc' = "imc"
    /\ row' = 1
    /\ UNCHANGED <<from, err, nodeOf, lists, refs, leaked>>

\* uncore_imc_new_device.
ImcNewDevice ==
    /\ pc = "imc_new"
    /\ imcs' = Append(imcs, [node |-> nodeOf[Machine[from].bus], dev |-> from])
    /\ pc' = "imc"
    /\ UNCHANGED <<walk, err, nodeOf, pciBoxes, msrBoxes, num_boxes, refs, leaked>>

ImcNewFails ==
    /\ pc = "imc_new"
    /\ "imc" \in FailSites
    /\ leaked' = [leaked EXCEPT ![from] = @ + 2]
    /\ from' = 0
    /\ pc' = "own_imc"
    /\ UNCHANGED <<row, err, nodeOf, lists, refs>>

ImcDone ==
    /\ pc = "imc"
    /\ row > Len(HSWEP_E5_IMC)
    /\ pc' = "proc"
    /\ UNCHANGED <<walk, err, nodeOf, lists, refs, leaked>>

\* uncore_proc_create succeeds or not.
ProcCreate ==
    /\ pc = "proc"
    /\ pc' \in {"live", "exit_imc"}
    /\ UNCHANGED <<walk, err, nodeOf, lists, refs, leaked>>

-----------------------------------------------------------------------------
(* rmmod, the labels out, cpuerr and pcierr of uncore_init, and the label  *)
(* of each init function itself, which calls its exit function as well.    *)

Rmmod ==
    /\ pc = "live"
    /\ pc' = "exit_imc"
    /\ UNCHANGED <<walk, err, nodeOf, lists, refs, leaked>>

ImcExit ==
    /\ \/ pc = "own_imc" /\ pc' = "exit_imc"
       \/ pc = "exit_imc" /\ pc' = "exit_cpu"
    /\ held' = [d \in Dev |->
                    held[d] - Cardinality({i \in DOMAIN imcs : imcs[i].dev = d})]
    /\ imcs' = <<>>
    /\ UNCHANGED <<walk, err, nodeOf, pciBoxes, msrBoxes, num_boxes, present, leaked>>

CpuExit ==
    /\ \/ pc = "own_cpu" /\ pc' = "exit_cpu"
       \/ pc = "exit_cpu" /\ pc' = "exit_pci"
    /\ msrBoxes' = [t \in ToSet(MsrType) |-> <<>>]
    /\ UNCHANGED <<walk, err, nodeOf, pciBoxes, imcs, num_boxes, refs, leaked>>

\* The boxes made of a device, by type and place in the list of the type.
Places == UNION {{t} \X DOMAIN pciBoxes[t] : t \in PciType}
BoxesOf(d) == {s \in Places : pciBoxes[s[1]][s[2]].dev = d}

\* Mutant: the boxes are put and stay on the list, to be put again.
PciExitKeeps ==
    /\ \/ pc = "own_pci" /\ pc' = "exit_pci"
       \/ pc = "exit_pci" /\ pc' = "unloaded"
    /\ held' = [d \in Dev |-> held[d] - Cardinality(BoxesOf(d))]
    /\ pciBoxes' = IF pc = "own_pci" THEN pciBoxes ELSE [t \in PciType |-> <<>>]
    /\ row' = 0
    /\ UNCHANGED <<from, err, nodeOf, msrBoxes, imcs, num_boxes, present, leaked>>

PciExit ==
    /\ \/ pc = "own_pci" /\ pc' = "exit_pci"
       \/ pc = "exit_pci" /\ pc' = "unloaded"
    /\ held' = [d \in Dev |-> held[d] - Cardinality(BoxesOf(d))]
    /\ pciBoxes' = [t \in PciType |-> <<>>]
    /\ row' = 0
    /\ UNCHANGED <<from, err, nodeOf, msrBoxes, imcs, num_boxes, present, leaked>>

-----------------------------------------------------------------------------
(* The kernel removes a device and drops its own reference.  A device the  *)
(* search stands at is left alone: what the kernel's list does then is its *)
(* own business.                                                           *)
Unplug(d) ==
    /\ d \in Unpluggable \cap present
    /\ d # from
    /\ present' = present \ {d}
    /\ UNCHANGED <<pc, walk, err, nodeOf, lists, held, leaked>>

PciInit ==
    \/ Insmod \/ MapUbox \/ MapFails \/ MapDone
    \/ Find("pci", HSWEP_UNCORE_PCI_IDS, "pci_new")
    \/ NextRow("pci", HSWEP_UNCORE_PCI_IDS)
    \/ PciNewBox \/ PciNewFails \/ PciDone

CpuImcInit ==
    \/ MsrNewBox \/ MsrNewFails \/ MsrDone
    \/ Find("imc", HSWEP_E5_IMC, "imc_new")
    \/ NextRow("imc", HSWEP_E5_IMC)
    \/ ImcNewDevice \/ ImcNewFails \/ ImcDone
    \/ ProcCreate

Exit == Rmmod \/ ImcExit \/ CpuExit \/ PciExit

Next == PciInit \/ CpuImcInit \/ Exit \/ \E d \in Unpluggable : Unplug(d)

Spec == Init /\ [][Next]_vars

-----------------------------------------------------------------------------
(* Lookups.                                                                *)

NoBox == [idx |-> 0, node |-> -1, dev |-> 0]

UNCORE_MAX_SOCKET == 8

\* uncore_get_first_box: the first of the list that is on the node.  The node is
\* an unsigned int there, so that no bus without a node (-1) passes the test.
OnNode(type, n) == {i \in DOMAIN pciBoxes[type] : pciBoxes[type][i].node = n}
uncore_get_first_box(type, n) ==
    IF n \notin 0 .. UNCORE_MAX_SOCKET \/ OnNode(type, n) = {} THEN NoBox
    ELSE pciBoxes[type][Min(OnNode(type, n))]

-----------------------------------------------------------------------------
(* Properties.                                                             *)

AllBoxes == UNION {ToSet(pciBoxes[t]) : t \in PciType}
Listed == {b.dev : b \in AllBoxes \cup ToSet(imcs)}

\* Every reference the module holds has an owner: one for each box and each IMC
\* device, one for the device the search stands at, one for the device about to
\* be listed (uncore_pmu.c:540-547, uncore_imc.c:121-122).  Only those are lost
\* that a failed allocation leaves behind.
RefsOwned ==
    \A d \in Dev :
        held[d] = leaked[d] + Cardinality(BoxesOf(d))
                  + Cardinality({i \in DOMAIN imcs : imcs[i].dev = d})
                  + (IF from = d THEN 1 ELSE 0)
                  + (IF from = d /\ pc \in {"pci_new", "imc_new"} THEN 1 ELSE 0)

\* A device on one of the lists has not been freed, even when the kernel has
\* removed it: that is what the extra get_device is for (uncore_pmu.c:540-546).
NoFreedDevice == Listed \subseteq {d \in Dev : d \in present \/ held[d] > 0}

\* Nothing is left of a module that failed to load or was unloaded: the labels
\* of uncore_init and the order of uncore_exit (uncore_pmu.c:694-701).
NothingRegistered ==
    pc = "unloaded" => /\ Listed = {}
                       /\ \A t \in ToSet(MsrType) : msrBoxes[t] = <<>>
                       /\ from = 0

\* No two MSR boxes share a register: the addresses are computed from the table of
\* a type and the index that a box gets from the length of the list, of which there
\* is one for each core and not for each of the 18 the table allows
\* (uncore_pmu.h:248-280, uncore_pmu.c:461-470, uncore_hswep.c:95-122, 285-342).
MsrsApart ==
    LET places == UNION {{t} \X DOMAIN msrBoxes[t] : t \in ToSet(MsrType)}
        msrs(p) == MsrsOf(p[1], msrBoxes[p[1]][p[2]])
    IN  /\ \A p, q \in places : p # q => msrs(p) \cap msrs(q) = {}
        /\ pc = "live" => Len(msrBoxes.C) <= MaxCores

\* Boxes and IMC devices of one bus are on one node, and boxes of different
\* buses are on different ones, as their UBOXes tell (uncore_hswep.c:717-723):
\* the two walks ran at different times but read the same map.
OneNodePerBus ==
    pc = "live" =>
        \A b, c \in AllBoxes \cup ToSet(imcs) :
            /\ b.node \in Matches(Machine[b.dev].bus)
            /\ (b.node = c.node) <=> (Machine[b.dev].bus = Machine[c.dev].bus)

\* The first box of a known node is the one whose id comes first in the table: home
\* agent 0 of the node, which latency emulation counts on (uncore_pmu.c:216-230,
\* emulate_nvm.c:132-133).
RowOf(d) == CHOOSE r \in DOMAIN HSWEP_UNCORE_PCI_IDS :
                HSWEP_UNCORE_PCI_IDS[r].id = Machine[d].id
FirstBoxIsAgent0 ==
    pc = "live" =>
        \A b \in {a \in ToSet(pciBoxes.HA) : a.node # -1} :
            RowOf(uncore_get_first_box("HA", b.node).dev) <= RowOf(b.dev)

\* "we will put pdev when pci_exit" (uncore_pmu.c:545): an unloaded module holds
\* no reference.
RefsReturned == pc = "unloaded" => \A d \in Dev : held[d] = 0
=============================================================================
