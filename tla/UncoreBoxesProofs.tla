-------------------------- MODULE UncoreBoxesProofs --------------------------
(***************************************************************************)
(* Proofs about UncoreBoxes, for every machine: every list of devices,     *)
(* mapping of buses to nodes and number of cores, with every allocation    *)
(* and every read of configuration space free to fail.                     *)
(*                                                                         *)
(* The search holds a reference on the device it stands at and hands one   *)
(* over to the box it makes; exit gives back one for each box (RefInv).    *)
(* The walk of the id table leaves every list in the table's order         *)
(* (OrderInv), the one over the UBOXes is complete before a box reads the  *)
(* node of its bus (NodeInv), and an MSR box has its place in the list for *)
(* its index (MsrInv).                                                     *)
(***************************************************************************)
EXTENDS UncoreBoxes, MinFacts, FiniteSetTheorems, SequenceTheorems, TLAPS

-----------------------------------------------------------------------------
(* The tables and the machine.                                             *)

LEMMA IdsFacts ==
  /\ Len(HSWEP_UNCORE_PCI_IDS) = 18
  /\ \A r \in 1 .. 18 : HSWEP_UNCORE_PCI_IDS[r].type \in PciType
  /\ Len(HSWEP_E5_IMC) = 6
<1>1. Len(HSWEP_UNCORE_PCI_IDS) = 18
  BY DEF HSWEP_UNCORE_PCI_IDS
<1>2. \A r \in 1 .. 18 : HSWEP_UNCORE_PCI_IDS[r].type \in PciType
  BY DEF HSWEP_UNCORE_PCI_IDS, Row, PciType
<1>3. Len(HSWEP_E5_IMC) = 6
  BY DEF HSWEP_E5_IMC
<1> QED
  BY <1>1, <1>2, <1>3

LEMMA DevFacts ==
  /\ Len(Machine) \in Nat /\ Dev = 1 .. Len(Machine) /\ 0 \notin Dev
  /\ Dev \subseteq Nat
  /\ \A d \in Dev : Machine[d].bus \in Bus
<1>1. Machine \in Seq([id : STRING, bus : Bus])
  BY UncoreBoxesAssumption
<1>2. Len(Machine) \in Nat /\ DOMAIN Machine = 1 .. Len(Machine)
  BY <1>1
<1>3. \A d \in 1 .. Len(Machine) : Machine[d] \in [id : STRING, bus : Bus]
  BY <1>1, ElementOfSeq
<1> QED
  BY <1>2, <1>3 DEF Dev

\* pci_get_device returns a device of the machine behind the one it starts from.
LEMMA AheadFacts ==
  ASSUME NEW id, Ahead(id) # {}, present \subseteq Dev
  PROVE  /\ Min(Ahead(id)) \in Dev /\ Min(Ahead(id)) \in present
         /\ Min(Ahead(id)) > from /\ Machine[Min(Ahead(id))].id = id
<1>1. Ahead(id) \in SUBSET Nat
  BY DevFacts DEF Ahead
<1>2. Min(Ahead(id)) \in Ahead(id)
  BY <1>1, MinOfNats
<1> QED
  BY <1>2 DEF Ahead

\* hswep_pcibus_to_nodeid finds a node if there is one.
LEMMA MatchFacts ==
  ASSUME NEW b \in Bus, Matches(b) # {}
  PROVE  Min(Matches(b)) \in Matches(b) /\ Min(Matches(b)) \in 0 .. 7
<1>1. Matches(b) \in SUBSET Nat
  BY DEF Matches
<1>2. Min(Matches(b)) \in Matches(b)
  BY <1>1, MinOfNats
<1> QED
  BY <1>2 DEF Matches

LEMMA MsrTypes == ToSet(MsrType) = {"U", "PCU", "S", "C"}
  BY DEF ToSet, MsrType

-----------------------------------------------------------------------------
(* Where insmod and rmmod are.                                             *)

\* The search stands at a device only during a walk, and at one that has the id
\* of its row when a box is to be made of it.
WalkInv ==
    /\ pc \in Phase
    /\ row \in 0 .. 19
    /\ from \in Dev \cup {0}
    /\ err \in BOOLEAN
    /\ present \subseteq Dev
    /\ pc \notin {"map", "pci", "pci_new", "imc", "imc_new"} => from = 0
    /\ pc \in {"pci", "pci_new", "imc", "imc_new"} => row >= 1
    /\ pc = "pci_new" => /\ row <= 18 /\ from # 0
                         /\ Machine[from].id = HSWEP_UNCORE_PCI_IDS[row].id
    /\ pc = "imc_new" => row <= 6 /\ from # 0
    /\ pc = "pci" /\ row > 18 => from = 0
    /\ pc = "imc" => row <= 7 /\ (row > 6 => from = 0)

LEMMA WalkInit == Init => WalkInv
<1> SUFFICES ASSUME Init PROVE WalkInv
  OBVIOUS
<1>1. err \in BOOLEAN
  BY Zenon DEF Init
<1>2. pc = "unloaded" /\ row = 0 /\ from = 0 /\ present = Dev
  BY DEF Init
<1> QED
  BY <1>1, <1>2 DEF WalkInv, Phase

LEMMA WalkStep == WalkInv /\ [Next]_vars => WalkInv'
<1> SUFFICES ASSUME WalkInv, [Next]_vars PROVE WalkInv'
  OBVIOUS
<1> USE DEF WalkInv, Phase
<1>1. Len(HSWEP_UNCORE_PCI_IDS) = 18 /\ Len(HSWEP_E5_IMC) = 6 /\ 0 \notin Dev
  BY IdsFacts, DevFacts
<1>2. CASE Insmod
  BY <1>2 DEF Insmod, walk, refs
<1>3. CASE MapUbox
  <2>1. Min(Ahead("ubox")) \in Dev
    BY <1>3, AheadFacts DEF MapUbox
  <2> QED
    BY <1>3, <2>1 DEF MapUbox
<1>4. CASE MapFails \/ MapDone
  <2>1. err' \in BOOLEAN
    BY <1>4, Zenon DEF MapFails, MapDone, WalkInv
  <2>2. /\ pc' \in {"exit_pci", "pci"} /\ from' = 0 /\ present' = present
    BY <1>4 DEF MapFails, MapDone
  <2>3. row' \in {row, 1} /\ (pc' = "pci" => row' = 1)
    BY <1>4 DEF MapFails, MapDone
  <2> QED
    BY <2>1, <2>2, <2>3
<1>5. CASE Find("pci", HSWEP_UNCORE_PCI_IDS, "pci_new")
  <2>1. PICK d \in Dev : /\ d = Min(Ahead(HSWEP_UNCORE_PCI_IDS[row].id))
                        /\ Machine[d].id = HSWEP_UNCORE_PCI_IDS[row].id
    BY <1>5, AheadFacts DEF Find
  <2> QED
    BY <1>1, <1>5, <2>1 DEF Find
<1>6. CASE Find("imc", HSWEP_E5_IMC, "imc_new")
  <2>1. PICK d \in Dev : d = Min(Ahead(HSWEP_E5_IMC[row].id))
    BY <1>6, AheadFacts DEF Find
  <2> QED
    BY <1>1, <1>6, <2>1 DEF Find
<1>7. CASE NextRow("pci", HSWEP_UNCORE_PCI_IDS) \/ NextRow("imc", HSWEP_E5_IMC)
  <2>1. /\ (pc = "pci" /\ row <= 18) \/ (pc = "imc" /\ row <= 6)
        /\ from' = 0 /\ row' = row + 1
        /\ UNCHANGED <<pc, err, present>>
    BY <1>1, <1>7 DEF NextRow
  <2> QED
    BY <2>1
<1>8. CASE PciNewBox
  BY <1>1, <1>8 DEF PciNewBox, walk, refs
<1>9. CASE PciNewFails \/ ImcNewFails
  BY <1>9 DEF PciNewFails, ImcNewFails, refs
<1>10. CASE PciDone \/ MsrDone \/ ImcDone
  BY <1>1, <1>10 DEF PciDone, MsrDone, ImcDone, walk, refs
<1>11. CASE MsrNewBox \/ MsrNewFails
  BY <1>11 DEF MsrNewBox, MsrNewFails, walk, refs
<1>12. CASE ImcNewDevice
  <2>1. pc = "imc_new" /\ pc' = "imc" /\ UNCHANGED <<row, from, err, present>>
    BY <1>12 DEF ImcNewDevice, walk, refs
  <2> QED
    BY <2>1
<1>13. CASE ProcCreate \/ Rmmod
  BY <1>13 DEF ProcCreate, Rmmod, walk, refs
<1>14. CASE ImcExit \/ CpuExit \/ PciExit
  <2>1. /\ pc \notin {"map", "pci", "pci_new", "imc", "imc_new"}
        /\ pc' \in {"exit_imc", "exit_cpu", "exit_pci", "unloaded"}
        /\ row' \in {row, 0} /\ UNCHANGED <<from, err, present>>
    BY <1>14 DEF ImcExit, CpuExit, PciExit, walk, refs
  <2> QED
    BY <2>1
<1>15. ASSUME NEW d \in Unpluggable, Unplug(d) PROVE WalkInv'
  BY <1>15 DEF Unplug, walk
<1>16. CASE UNCHANGED vars
  BY <1>16 DEF vars, walk, refs
<1> QED
  BY <1>2, <1>3, <1>4, <1>5, <1>6, <1>7, <1>8, <1>9, <1>10, <1>11, <1>12, <1>13,
     <1>14, <1>15, <1>16 DEF Next, PciInit, CpuImcInit, Exit

-----------------------------------------------------------------------------
(* The lists.                                                              *)

\* Which list may hold something depends on how far insmod or rmmod has come.
EmptyInv ==
    /\ pc \in {"unloaded", "map"} => \A t \in PciType : pciBoxes[t] = <<>>
    /\ pc \notin {"imc", "imc_new", "proc", "live", "own_imc", "exit_imc"} => imcs = <<>>
    /\ pc \in {"unloaded", "map", "pci", "pci_new", "own_pci", "exit_pci"}
          => \A t \in ToSet(MsrType) : msrBoxes[t] = <<>>

ListType ==
    /\ nodeOf \in [Bus -> -1 .. 7]
    /\ num_boxes \in [DOMAIN StaticBoxes -> Nat]
    /\ pciBoxes \in [PciType -> Seq(PciBox)]
    /\ msrBoxes \in [ToSet(MsrType) -> Seq(Nat)]
    /\ imcs \in Seq(ImcDev)

\* A new PCI box is made of the device the search stands at, for its row.
LEMMA NewBoxFrom ==
  ASSUME WalkInv, PciNewBox
  PROVE  /\ pc = "pci_new" /\ row \in 1 .. 18 /\ from \in Dev
         /\ Machine[from].id = HSWEP_UNCORE_PCI_IDS[row].id
<1>1. pc = "pci_new"
  BY Zenon DEF PciNewBox
<1> QED
  BY <1>1 DEF WalkInv

\* A new MSR box is of the first type that lacks one.
LEMMA LackingFacts ==
  ASSUME MsrNewBox
  PROVE  Lacking \in SUBSET (1 .. 4) /\ Min(Lacking) \in Lacking
<1>1. DOMAIN MsrType = 1 .. 4
  BY DEF MsrType
<1>2. Lacking \in SUBSET (1 .. 4)
  BY <1>1 DEF Lacking
<1>3. Lacking # {}
  BY DEF MsrNewBox
<1>4. Lacking \in SUBSET Nat
  BY <1>2
<1> QED
  BY <1>2, <1>3, <1>4, MinOfNats

\* The box or the IMC device made of a device is of its type.
LEMMA NewBoxType ==
  ASSUME ListType, NEW list \in Seq(PciBox), NEW d \in Dev
  PROVE  NewPciBox(list, d) \in PciBox /\ NewPciBox(list, d).dev = d
<1>1. nodeOf[Machine[d].bus] \in -1 .. 7
  BY DevFacts DEF ListType
<1>2. list # <<>> => Last(list) \in PciBox
  BY DEF Last
<1> QED
  BY <1>1, <1>2 DEF NewPciBox, PciBox

LEMMA ListStep ==
  WalkInv /\ ListType /\ EmptyInv /\ [Next]_vars => ListType' /\ EmptyInv'
<1> SUFFICES ASSUME WalkInv, ListType, EmptyInv, [Next]_vars
             PROVE  ListType' /\ EmptyInv'
  OBVIOUS
<1> USE IdsFacts, DevFacts, MsrTypes
<1>1. CASE Insmod
  <2>1. num_boxes' \in [DOMAIN StaticBoxes -> Nat]
    BY <1>1 DEF Insmod, StaticBoxes
  <2>2. nodeOf' \in [Bus -> -1 .. 7]
    BY <1>1 DEF Insmod
  <2> QED
    BY <1>1, <2>1, <2>2 DEF Insmod, ListType, EmptyInv
<1>2. CASE MapUbox
  <2>1. /\ pc = "map" /\ UNCHANGED <<pc, pciBoxes, msrBoxes, imcs, num_boxes>>
        /\ LET b == Machine[Min(Ahead("ubox"))].bus
           IN  nodeOf' = IF Matches(b) = {} THEN nodeOf
                         ELSE [nodeOf EXCEPT ![b] = Min(Matches(b))]
    BY <1>2 DEF MapUbox, lists
  <2>2. PICK b \in Bus : b = Machine[Min(Ahead("ubox"))].bus
    BY <1>2, AheadFacts DEF MapUbox, WalkInv
  <2>3. nodeOf' \in [Bus -> -1 .. 7]
    <3>1. CASE Matches(b) = {}
      BY <2>1, <2>2, <3>1 DEF ListType
    <3>2. CASE Matches(b) # {}
      <4>1. PICK n \in 0 .. 7 : n = Min(Matches(b))
        BY <3>2, MatchFacts
      <4>2. nodeOf \in [Bus -> -1 .. 7]
        BY DEF ListType
      <4>3. n \in -1 .. 7
        BY <4>1
      <4>4. nodeOf' = [nodeOf EXCEPT ![b] = n]
        BY <2>1, <2>2, <3>2, <4>1
      <4> QED
        BY <4>4, <4>2, <4>3
    <3> QED
      BY <3>1, <3>2
  <2> QED
    BY <2>1, <2>3 DEF ListType, EmptyInv
<1>3. ASSUME UNCHANGED <<nodeOf, lists>>,
             pc' \in {"unloaded", "map"}
               => pc \in {"unloaded", "map"} \/ \A t \in PciType : pciBoxes[t] = <<>>,
             pc' \notin {"imc", "imc_new", "proc", "live", "own_imc", "exit_imc"}
               => pc \notin {"imc", "imc_new", "proc", "live", "own_imc", "exit_imc"},
             pc' \in {"unloaded", "map", "pci", "pci_new", "own_pci", "exit_pci"}
               => pc \in {"unloaded", "map", "pci", "pci_new", "own_pci", "exit_pci"}
      PROVE  ListType' /\ EmptyInv'
  BY <1>3 DEF ListType, EmptyInv, lists
<1>4. CASE MapFails \/ MapDone
  BY <1>3, <1>4 DEF MapFails, MapDone
<1>5. ASSUME NEW phase \in {"pci", "imc"}, NEW ids, NEW next \in {"pci_new", "imc_new"},
             Find(phase, ids, next), phase = "pci" <=> next = "pci_new"
      PROVE  ListType' /\ EmptyInv'
  BY <1>3, <1>5 DEF Find
<1>6. ASSUME NEW phase, NEW ids, NextRow(phase, ids) PROVE ListType' /\ EmptyInv'
  BY <1>3, <1>6 DEF NextRow
<1>7. CASE PciNewBox
  <2>1. row \in 1 .. 18
    BY <1>7, NewBoxFrom
  <2>2. PICK t \in PciType : t = HSWEP_UNCORE_PCI_IDS[row].type
    BY <2>1, IdsFacts
  <2>3. from \in Dev
    BY <1>7, NewBoxFrom
  <2>4. PICK b \in PciBox : b = NewPciBox(pciBoxes[t], from)
    BY <2>3, NewBoxType DEF ListType
  <2>5. /\ pciBoxes' = [pciBoxes EXCEPT ![t] = Append(pciBoxes[t], b)]
        /\ num_boxes' = [num_boxes EXCEPT ![t] = IF pciBoxes[t] = <<>> THEN 1
                                                  ELSE @ + 1]
        /\ pc = "pci_new" /\ pc' = "pci" /\ UNCHANGED <<nodeOf, msrBoxes, imcs>>
    BY <1>7, <2>2, <2>4 DEF PciNewBox
  <2>6. Append(pciBoxes[t], b) \in Seq(PciBox)
    BY AppendProperties DEF ListType
  <2>7. num_boxes' \in [DOMAIN StaticBoxes -> Nat]
    <3> DEFINE n == IF pciBoxes[t] = <<>> THEN 1 ELSE num_boxes[t] + 1
    <3>1. n \in Nat
      <4>1. t \in DOMAIN StaticBoxes
        BY DEF StaticBoxes, PciType
      <4>2. num_boxes[t] \in Nat
        BY <4>1 DEF ListType
      <4> QED
        BY <4>2
    <3>2. num_boxes' = [num_boxes EXCEPT ![t] = n]
      BY <2>5
    <3> HIDE DEF n
    <3> QED
      BY <3>2, <3>1 DEF ListType
  <2> QED
    BY <2>5, <2>6, <2>7 DEF ListType, EmptyInv
<1>8. CASE PciNewFails \/ ImcNewFails
  BY <1>3, <1>8 DEF PciNewFails, ImcNewFails
<1>9. CASE PciDone
  <2>1. PICK n \in Nat : n = Min({num_boxes.C, MaxCores})
    <3>1. num_boxes.C \in Nat
      BY DEF ListType, StaticBoxes
    <3>2. {num_boxes.C, MaxCores} \in SUBSET Nat /\ {num_boxes.C, MaxCores} # {}
      BY <3>1, UncoreBoxesAssumption
    <3>3. Min({num_boxes.C, MaxCores}) \in {num_boxes.C, MaxCores}
      BY <3>2, MinOfNats
    <3> QED
      BY <3>2, <3>3
  <2>2. num_boxes' = [num_boxes EXCEPT !.C = n]
    BY <1>9, <2>1 DEF PciDone
  <2>3. num_boxes' \in [DOMAIN StaticBoxes -> Nat]
    BY <2>2 DEF ListType, StaticBoxes
  <2> QED
    BY <1>9, <2>3 DEF PciDone, ListType, EmptyInv
<1>10. CASE MsrNewBox
  <2>1. PICK t \in ToSet(MsrType) : t = MsrType[Min(Lacking)]
    <3>1. Min(Lacking) \in Lacking /\ Lacking \in SUBSET (1 .. 4)
      BY <1>10, LackingFacts
    <3>2. PICK i \in 1 .. 4 : i = Min(Lacking)
      BY <3>1
    <3> QED
      BY <3>2 DEF MsrType
  <2>2. msrBoxes \in [ToSet(MsrType) -> Seq(Nat)]
    BY DEF ListType
  <2>3. msrBoxes[t] \in Seq(Nat) /\ Len(msrBoxes[t]) \in Nat
    BY <2>2, LenProperties
  <2>4. PICK l \in Seq(Nat) : l = Append(msrBoxes[t], Len(msrBoxes[t]))
    BY <2>3, AppendProperties
  <2>5. msrBoxes' = [msrBoxes EXCEPT ![t] = l]
    BY <1>10, <2>1, <2>4 DEF MsrNewBox
  <2>6. msrBoxes' \in [ToSet(MsrType) -> Seq(Nat)]
    BY <2>5 DEF ListType
  <2> QED
    BY <1>10, <2>6 DEF MsrNewBox, ListType, EmptyInv
<1>11. CASE MsrNewFails \/ MsrDone \/ ImcDone \/ ProcCreate \/ Rmmod
  BY <1>3, <1>11 DEF MsrNewFails, MsrDone, ImcDone, ProcCreate, Rmmod
<1>12. CASE ImcNewDevice
  <2>1. from \in Dev
    BY <1>12 DEF ImcNewDevice, WalkInv
  <2>2. [node |-> nodeOf[Machine[from].bus], dev |-> from] \in ImcDev
    BY <2>1 DEF ListType, ImcDev
  <2>3. imcs' \in Seq(ImcDev)
    BY <1>12, <2>2, AppendProperties DEF ImcNewDevice, ListType
  <2> QED
    BY <1>12, <2>3 DEF ImcNewDevice, ListType, EmptyInv
<1>13. CASE ImcExit
  <2>1. imcs' = <<>> /\ imcs' \in Seq(ImcDev)
    BY <1>13, EmptySeq DEF ImcExit
  <2> QED
    BY <1>13, <2>1 DEF ImcExit, ListType, EmptyInv
<1>14. CASE CpuExit
  <2>1. msrBoxes' \in [ToSet(MsrType) -> Seq(Nat)]
    BY <1>14, EmptySeq, Zenon DEF CpuExit
  <2>2. \A t \in ToSet(MsrType) : msrBoxes'[t] = <<>>
    BY <1>14 DEF CpuExit
  <2> QED
    BY <1>14, <2>1, <2>2 DEF CpuExit, ListType, EmptyInv
<1>15. CASE PciExit
  <2>1. pciBoxes' \in [PciType -> Seq(PciBox)]
    BY <1>15, EmptySeq, Zenon DEF PciExit
  <2>2. \A t \in PciType : pciBoxes'[t] = <<>>
    BY <1>15 DEF PciExit
  <2> QED
    BY <1>15, <2>1, <2>2 DEF PciExit, ListType, EmptyInv
<1>16. ASSUME NEW d \in Unpluggable, Unplug(d) PROVE ListType' /\ EmptyInv'
  BY <1>3, <1>16 DEF Unplug
<1>17. CASE UNCHANGED vars
  BY <1>3, <1>17 DEF vars
<1> QED
  BY <1>1, <1>2, <1>4, <1>5, <1>6, <1>7, <1>8, <1>9, <1>10, <1>11, <1>12, <1>13,
     <1>14, <1>15, <1>16, <1>17 DEF Next, PciInit, CpuImcInit, Exit

LEMMA ListInit == Init => ListType /\ EmptyInv
<1> SUFFICES ASSUME Init PROVE ListType /\ EmptyInv
  OBVIOUS
<1>1. num_boxes \in [DOMAIN StaticBoxes -> Nat]
  BY DEF Init, StaticBoxes
<1> QED
  BY <1>1 DEF Init, ListType, EmptyInv

LEMMA ListsHold == Spec => [](WalkInv /\ ListType /\ EmptyInv)
  BY WalkInit, WalkStep, ListInit, ListStep, PTL DEF Spec

\* Whatever fails, and whenever: when insmod has returned an error or rmmod has
\* returned, no box and no IMC device is on a list (uncore_pmu.c:626-701).
THEOREM NothingRegisteredHolds == Spec => []NothingRegistered
<1>1. WalkInv /\ ListType /\ EmptyInv => NothingRegistered
  <2> SUFFICES ASSUME WalkInv, ListType, EmptyInv, pc = "unloaded"
               PROVE  Listed = {} /\ from = 0
                      /\ \A t \in ToSet(MsrType) : msrBoxes[t] = <<>>
    BY DEF NothingRegistered
  <2>1. AllBoxes = {} /\ ToSet(imcs) = {}
    BY DEF EmptyInv, AllBoxes, ToSet
  <2> QED
    BY <2>1 DEF Listed, WalkInv, EmptyInv
<1> QED
  BY <1>1, ListsHold, PTL

-----------------------------------------------------------------------------
(* The references.                                                         *)

ImcsOf(d) == {i \in DOMAIN imcs : imcs[i].dev = d}

\* The boxes and the IMC devices made of each device ...
Made == [d \in Dev |-> Cardinality(BoxesOf(d)) + Cardinality(ImcsOf(d))]
MadeFinite == \A d \in Dev : IsFiniteSet(BoxesOf(d)) /\ IsFiniteSet(ImcsOf(d))

\* ... and the references to it that the search has to put or to hand over.
Search == [d \in Dev |-> (IF from = d THEN 1 ELSE 0)
                         + (IF from = d /\ pc \in {"pci_new", "imc_new"} THEN 1 ELSE 0)]

RefInv ==
    /\ held \in [Dev -> Nat] /\ leaked \in [Dev -> Nat]
    /\ MadeFinite
    /\ \A d \in Dev : held[d] = leaked[d] + Made[d] + Search[d]

LEMMA MadeType == MadeFinite => Made \in [Dev -> Nat]
<1> SUFFICES ASSUME MadeFinite, NEW d \in Dev
             PROVE  Cardinality(BoxesOf(d)) + Cardinality(ImcsOf(d)) \in Nat
  BY Zenon DEF Made
<1>1. IsFiniteSet(BoxesOf(d)) /\ IsFiniteSet(ImcsOf(d))
  BY DEF MadeFinite
<1>2. Cardinality(BoxesOf(d)) \in Nat /\ Cardinality(ImcsOf(d)) \in Nat
  BY <1>1, FS_CardinalityType
<1> QED
  BY <1>2

LEMMA SearchType == Search \in [Dev -> Nat]
<1>1. \A d \in Dev :
         (IF from = d THEN 1 ELSE 0)
         + (IF from = d /\ pc \in {"pci_new", "imc_new"} THEN 1 ELSE 0) \in Nat
  OBVIOUS
<1> QED
  BY <1>1, Zenon DEF Search

LEMMA NextTypes ==
  (Search \in [Dev -> Nat])' /\ (MadeFinite => Made \in [Dev -> Nat])'
  BY MadeType, SearchType, PTL

LEMMA RefInit == Init => RefInv
<1> SUFFICES ASSUME Init PROVE RefInv
  OBVIOUS
<1>1. Places = {} /\ imcs = <<>>
  BY DEF Init, Places
<1>2. \A d \in Dev : BoxesOf(d) = {} /\ ImcsOf(d) = {}
  BY <1>1 DEF BoxesOf, ImcsOf
<1>3. IsFiniteSet({}) /\ Cardinality({}) = 0
  BY FS_EmptySet
<1>4. MadeFinite /\ \A d \in Dev : Made[d] = 0
  BY <1>2, <1>3 DEF MadeFinite, Made
<1>5. \A d \in Dev : Search[d] = 0
  BY DevFacts DEF Init, Search
<1>6. held = [d \in Dev |-> 0] /\ leaked = [d \in Dev |-> 0]
  BY DEF Init
<1> QED
  BY <1>4, <1>5, <1>6 DEF RefInv

\* A step keeps RefInv if it changes what is held as it changes what is owed.
LEMMA RefBalance ==
  ASSUME RefInv, leaked' \in [Dev -> Nat], held' \in [Dev -> Int], MadeFinite',
         \A d \in Dev : held'[d] - held[d] = (leaked'[d] - leaked[d])
                                             + (Made'[d] - Made[d])
                                             + (Search'[d] - Search[d])
  PROVE  RefInv'
<1>1. Made \in [Dev -> Nat] /\ Search \in [Dev -> Nat]
  BY MadeType, SearchType DEF RefInv
<1>2. Made' \in [Dev -> Nat]
  BY NextTypes
<1>3. Search' \in [Dev -> Nat]
  BY NextTypes
<1>4. ASSUME NEW d \in Dev
      PROVE  held'[d] = leaked'[d] + Made'[d] + Search'[d] /\ held'[d] \in Nat
  <2>1. held[d] = leaked[d] + Made[d] + Search[d] /\ held[d] \in Nat /\ leaked[d] \in Nat
    BY DEF RefInv
  <2>2. /\ held'[d] \in Int /\ leaked'[d] \in Nat /\ Made[d] \in Nat /\ Search[d] \in Nat
        /\ Made'[d] \in Nat /\ Search'[d] \in Nat
    BY <1>1, <1>2, <1>3
  <2>3. held'[d] - held[d] = (leaked'[d] - leaked[d]) + (Made'[d] - Made[d])
                             + (Search'[d] - Search[d])
    OBVIOUS
  <2> QED
    BY <2>1, <2>2, <2>3
<1>5. held' \in [Dev -> Nat]
  BY <1>4
<1> QED
  BY <1>4, <1>5 DEF RefInv

\* What is made of a device depends on the lists alone.
LEMMA MadeSame ==
  ASSUME MadeFinite, UNCHANGED <<pciBoxes, imcs>> PROVE Made' = Made /\ MadeFinite'
<1>1. Places' = Places
  BY DEF Places
<1>2. \A d \in Dev : BoxesOf(d)' = BoxesOf(d) /\ ImcsOf(d)' = ImcsOf(d)
  BY <1>1 DEF BoxesOf, ImcsOf
<1> QED
  BY <1>2 DEF Made, MadeFinite

\* A new box adds one to the boxes of its device.
LEMMA BoxAdded ==
  ASSUME ListType, MadeFinite, NEW t \in PciType, NEW b \in PciBox,
         pciBoxes' = [pciBoxes EXCEPT ![t] = Append(pciBoxes[t], b)], imcs' = imcs
  PROVE  /\ MadeFinite'
         /\ \A d \in Dev : Made'[d] - Made[d] = IF d = b.dev THEN 1 ELSE 0
<1> DEFINE n == Len(pciBoxes[t]) + 1
<1>1. /\ pciBoxes \in [PciType -> Seq(PciBox)] /\ pciBoxes[t] \in Seq(PciBox)
      /\ Len(pciBoxes[t]) \in Nat
  BY LenProperties DEF ListType
<1>2. /\ pciBoxes'[t] = Append(pciBoxes[t], b)
      /\ \A u \in PciType \ {t} : pciBoxes'[u] = pciBoxes[u]
  BY <1>1
<1>3. /\ DOMAIN pciBoxes'[t] = DOMAIN pciBoxes[t] \cup {n}
      /\ n \notin DOMAIN pciBoxes[t]
      /\ pciBoxes'[t][n] = b
      /\ \A i \in DOMAIN pciBoxes[t] : pciBoxes'[t][i] = pciBoxes[t][i]
  BY <1>1, <1>2, AppendProperties
<1>4. Places' = Places \cup {<<t, n>>} /\ <<t, n>> \notin Places
  BY <1>2, <1>3 DEF Places
<1>5. \A p \in Places : pciBoxes'[p[1]][p[2]] = pciBoxes[p[1]][p[2]]
  BY <1>2, <1>3 DEF Places
<1>6. ASSUME NEW d \in Dev
      PROVE  /\ IsFiniteSet(BoxesOf(d)') /\ IsFiniteSet(ImcsOf(d)')
             /\ Made'[d] - Made[d] = IF d = b.dev THEN 1 ELSE 0
  <2>1. IsFiniteSet(BoxesOf(d)) /\ IsFiniteSet(ImcsOf(d))
    BY DEF MadeFinite
  <2>2. ImcsOf(d)' = ImcsOf(d)
    BY DEF ImcsOf
  <2>3. Cardinality(BoxesOf(d)) \in Nat /\ Cardinality(ImcsOf(d)) \in Nat
    BY <2>1, FS_CardinalityType
  <2>4. /\ Made[d] = Cardinality(BoxesOf(d)) + Cardinality(ImcsOf(d))
        /\ Made'[d] = Cardinality(BoxesOf(d)') + Cardinality(ImcsOf(d)')
    BY DEF Made
  <2>5. BoxesOf(d)' = BoxesOf(d) \cup (IF d = b.dev THEN {<<t, n>>} ELSE {})
    <3>1. \A p \in Places : p \in BoxesOf(d)' <=> p \in BoxesOf(d)
      BY <1>4, <1>5 DEF BoxesOf
    <3>2. <<t, n>> \in BoxesOf(d)' <=> d = b.dev
      BY <1>3, <1>4 DEF BoxesOf
    <3>3. BoxesOf(d) \subseteq Places /\ BoxesOf(d)' \subseteq Places \cup {<<t, n>>}
      BY <1>4 DEF BoxesOf
    <3> HIDE DEF n
    <3> QED
      BY <1>4, <3>1, <3>2, <3>3
  <2>6. CASE d = b.dev
    <3>1. BoxesOf(d)' = BoxesOf(d) \cup {<<t, n>>}
      BY <2>5, <2>6
    <3>2. <<t, n>> \notin BoxesOf(d)
      BY <1>4 DEF BoxesOf
    <3>3. /\ IsFiniteSet(BoxesOf(d) \cup {<<t, n>>})
          /\ Cardinality(BoxesOf(d) \cup {<<t, n>>}) = Cardinality(BoxesOf(d)) + 1
      BY <2>1, <3>2, FS_AddElement
    <3> QED
      BY <2>1, <2>2, <2>3, <2>4, <2>6, <3>1, <3>3
  <2>7. CASE d # b.dev
    <3>1. BoxesOf(d)' = BoxesOf(d)
      BY <2>5, <2>7
    <3> QED
      BY <2>1, <2>2, <2>3, <2>4, <2>7, <3>1
  <2> QED
    BY <2>6, <2>7
<1> QED
  BY <1>6 DEF MadeFinite

\* So does a new IMC device.
LEMMA ImcAdded ==
  ASSUME ListType, MadeFinite, NEW b \in ImcDev, imcs' = Append(imcs, b),
         pciBoxes' = pciBoxes
  PROVE  /\ MadeFinite'
         /\ \A d \in Dev : Made'[d] - Made[d] = IF d = b.dev THEN 1 ELSE 0
<1> DEFINE n == Len(imcs) + 1
<1>1. imcs \in Seq(ImcDev) /\ Len(imcs) \in Nat
  BY LenProperties DEF ListType
<1>2. /\ DOMAIN imcs' = DOMAIN imcs \cup {n} /\ n \notin DOMAIN imcs
      /\ imcs'[n] = b /\ \A i \in DOMAIN imcs : imcs'[i] = imcs[i]
  BY <1>1, AppendProperties
<1>3. ASSUME NEW d \in Dev
      PROVE  /\ IsFiniteSet(BoxesOf(d)') /\ IsFiniteSet(ImcsOf(d)')
             /\ Made'[d] - Made[d] = IF d = b.dev THEN 1 ELSE 0
  <2>1. IsFiniteSet(BoxesOf(d)) /\ IsFiniteSet(ImcsOf(d))
    BY DEF MadeFinite
  <2>2. BoxesOf(d)' = BoxesOf(d)
    BY DEF BoxesOf, Places
  <2>3. Cardinality(BoxesOf(d)) \in Nat /\ Cardinality(ImcsOf(d)) \in Nat
    BY <2>1, FS_CardinalityType
  <2>4. /\ Made[d] = Cardinality(BoxesOf(d)) + Cardinality(ImcsOf(d))
        /\ Made'[d] = Cardinality(BoxesOf(d)') + Cardinality(ImcsOf(d)')
    BY DEF Made
  <2>5. CASE d = b.dev
    <3>1. ImcsOf(d)' = ImcsOf(d) \cup {n}
      BY <1>2, <2>5 DEF ImcsOf
    <3>2. n \notin ImcsOf(d)
      BY <1>2 DEF ImcsOf
    <3>3. /\ IsFiniteSet(ImcsOf(d) \cup {n})
          /\ Cardinality(ImcsOf(d) \cup {n}) = Cardinality(ImcsOf(d)) + 1
      BY <2>1, <3>2, FS_AddElement
    <3> QED
      BY <2>1, <2>2, <2>3, <2>4, <2>5, <3>1, <3>3
  <2>6. CASE d # b.dev
    <3>1. ImcsOf(d)' = ImcsOf(d)
      BY <1>2, <2>6 DEF ImcsOf
    <3> QED
      BY <2>1, <2>2, <2>3, <2>4, <2>6, <3>1
  <2> QED
    BY <2>5, <2>6
<1> QED
  BY <1>3 DEF MadeFinite

LEMMA RefStep ==
  ASSUME WalkInv, ListType, EmptyInv, RefInv, [Next]_vars PROVE RefInv'
<1> USE DevFacts
<1>1. MadeFinite /\ held \in [Dev -> Nat] /\ leaked \in [Dev -> Nat]
  BY DEF RefInv
<1>2. Made \in [Dev -> Nat]
  BY <1>1, MadeType
<1>3. ASSUME UNCHANGED <<pciBoxes, imcs, leaked>>, held' \in [Dev -> Int],
             \A d \in Dev : held'[d] - held[d] = Search'[d] - Search[d]
      PROVE  RefInv'
  <2>1. Made' = Made /\ MadeFinite'
    BY <1>1, <1>3, MadeSame
  <2>2. \A d \in Dev : Made'[d] - Made[d] = 0 /\ leaked'[d] - leaked[d] = 0
    BY <1>1, <1>2, <1>3, <2>1
  <2>3. \A d \in Dev : Search'[d] \in Nat /\ Search[d] \in Nat
    <3>1. Search \in [Dev -> Nat] /\ Search' \in [Dev -> Nat]
      BY SearchType, NextTypes
    <3> QED
      BY <3>1
  <2>4. \A d \in Dev : held'[d] - held[d] = (leaked'[d] - leaked[d])
                           + (Made'[d] - Made[d]) + (Search'[d] - Search[d])
    BY <1>3, <2>2, <2>3
  <2> QED
    BY <1>1, <1>3, <2>1, <2>4, RefBalance
<1>4. ASSUME UNCHANGED <<pciBoxes, imcs, leaked, held, from>>,
             pc \in {"pci_new", "imc_new"} <=> pc' \in {"pci_new", "imc_new"}
      PROVE  RefInv'
  <2>1. Search' = Search
    BY <1>4 DEF Search
  <2>2. \A d \in Dev : held'[d] - held[d] = Search'[d] - Search[d]
    BY <1>1, <1>4, <2>1, SearchType
  <2> QED
    BY <1>1, <1>3, <1>4, <2>2
<1>5. ASSUME pc \notin {"pci_new", "imc_new"}, pc' \notin {"pci_new", "imc_new"},
             from' = 0, held' = Put, UNCHANGED <<pciBoxes, imcs, leaked>>
      PROVE  RefInv'
  <2>1. held' \in [Dev -> Int]
    BY <1>1, <1>5 DEF Put
  <2>2. \A d \in Dev : held'[d] - held[d] = Search'[d] - Search[d]
    BY <1>1, <1>5 DEF Put, Search
  <2> QED
    BY <1>3, <1>5, <2>1, <2>2
<1>6. ASSUME NEW u \in Dev, u > from, pc \notin {"pci_new", "imc_new"},
             NEW n, n = IF pc' \in {"pci_new", "imc_new"} THEN 2 ELSE 1,
             from' = u, held' = Got(u, n), UNCHANGED <<pciBoxes, imcs, leaked>>
      PROVE  RefInv'
  <2>1. Put \in [Dev -> Int] /\ n \in Int
    BY <1>1, <1>6 DEF Put
  <2>2. held' = [Put EXCEPT ![u] = Put[u] + n]
    BY <1>6 DEF Got
  <2>3. held' \in [Dev -> Int]
    BY <2>1, <2>2
  <2>4. ASSUME NEW d \in Dev PROVE held'[d] - held[d] = Search'[d] - Search[d]
    <3>1. Put[d] = held[d] - (IF d = from THEN 1 ELSE 0)
      BY DEF Put
    <3>2. held'[d] = IF d = u THEN Put[d] + n ELSE Put[d]
      BY <2>1, <2>2
    <3>3. Search[d] = IF d = from THEN 1 ELSE 0
      BY <1>6 DEF Search
    <3>4. Search'[d] = IF d = u THEN n ELSE 0
      BY <1>6 DEF Search
    <3>5. held[d] \in Nat
      BY <1>1
    <3> QED
      BY <1>6, <3>1, <3>2, <3>3, <3>4, <3>5
  <2> QED
    BY <1>3, <1>6, <2>3, <2>4
<1>7. CASE MapUbox
  <2>1. PICK u \in Dev : u = Min(Ahead("ubox")) /\ u > from
    BY <1>7, AheadFacts DEF MapUbox, WalkInv
  <2>2. /\ pc = "map" /\ pc' = "map" /\ from' = u /\ held' = Got(u, 1)
        /\ UNCHANGED <<pciBoxes, imcs, leaked>>
    BY <1>7, <2>1 DEF MapUbox, lists
  <2> QED
    BY <1>6, <2>1, <2>2
<1>8. CASE MapFails \/ MapDone
  BY <1>5, <1>8 DEF MapFails, MapDone, lists
<1>9. ASSUME NEW phase \in {"pci", "imc"}, NEW ids, NEW next \in {"pci_new", "imc_new"},
             Find(phase, ids, next)
      PROVE  RefInv'
  <2>1. PICK u \in Dev : u = Min(Ahead(ids[row].id)) /\ u > from
    BY <1>9, AheadFacts DEF Find, WalkInv
  <2>2. /\ pc = phase /\ pc' = next /\ from' = u /\ held' = Got(u, 2)
        /\ UNCHANGED <<pciBoxes, imcs, leaked>>
    BY <1>9, <2>1 DEF Find, lists
  <2> QED
    BY <1>6, <1>9, <2>1, <2>2
<1>10. ASSUME NEW phase \in {"pci", "imc"}, NEW ids, NextRow(phase, ids)
       PROVE  RefInv'
  BY <1>5, <1>10 DEF NextRow, lists
\* A new box or IMC device takes over the second reference of the search.
<1>11. ASSUME MadeFinite', UNCHANGED <<from, held, leaked>>,
              pc \in {"pci_new", "imc_new"}, pc' \notin {"pci_new", "imc_new"},
              \A d \in Dev : Made'[d] - Made[d] = IF d = from THEN 1 ELSE 0
       PROVE  RefInv'
  <2>1. ASSUME NEW d \in Dev
        PROVE  held'[d] - held[d] = (leaked'[d] - leaked[d])
                                    + (Made'[d] - Made[d]) + (Search'[d] - Search[d])
    <3>1. Search[d] = IF d = from THEN 2 ELSE 0
      BY <1>11 DEF Search
    <3>2. Search'[d] = IF d = from THEN 1 ELSE 0
      BY <1>11 DEF Search
    <3>3. held'[d] - held[d] = 0 /\ leaked'[d] - leaked[d] = 0
      BY <1>1, <1>11
    <3> QED
      BY <1>11, <3>1, <3>2, <3>3
  <2>2. leaked' \in [Dev -> Nat] /\ held' \in [Dev -> Int]
    BY <1>1, <1>11
  <2> QED
    BY <1>11, <2>1, <2>2, RefBalance
<1>12. CASE PciNewBox
  <2>1. row \in 1 .. 18
    BY <1>12, NewBoxFrom
  <2>2. PICK t \in PciType : t = HSWEP_UNCORE_PCI_IDS[row].type
    BY <2>1, IdsFacts
  <2>3. from \in Dev /\ pciBoxes[t] \in Seq(PciBox)
    BY <1>12, NewBoxFrom DEF ListType
  <2>4. PICK b \in PciBox : b = NewPciBox(pciBoxes[t], from) /\ b.dev = from
    BY <2>3, NewBoxType
  <2>5. /\ pciBoxes' = [pciBoxes EXCEPT ![t] = Append(pciBoxes[t], b)]
        /\ pc = "pci_new" /\ pc' = "pci" /\ UNCHANGED <<from, imcs, held, leaked>>
    BY <1>12, <2>2, <2>4 DEF PciNewBox, walk, refs
  <2>6. MadeFinite' /\ \A d \in Dev : Made'[d] - Made[d] = IF d = b.dev THEN 1 ELSE 0
    BY <1>1, <2>5, BoxAdded
  <2> QED
    BY <1>11, <2>4, <2>5, <2>6
<1>13. CASE ImcNewDevice
  <2>1. from \in Dev
    BY <1>13 DEF ImcNewDevice, WalkInv
  <2>2. PICK b \in ImcDev : b = [node |-> nodeOf[Machine[from].bus], dev |-> from]
    BY <2>1 DEF ListType, ImcDev
  <2>3. /\ imcs' = Append(imcs, b) /\ b.dev = from
        /\ pc = "imc_new" /\ pc' = "imc"
        /\ UNCHANGED <<from, pciBoxes, held, leaked>>
    BY <1>13, <2>2 DEF ImcNewDevice, walk, refs
  <2>4. MadeFinite' /\ \A d \in Dev : Made'[d] - Made[d] = IF d = b.dev THEN 1 ELSE 0
    BY <1>1, <2>3, ImcAdded
  <2> QED
    BY <1>11, <2>3, <2>4
<1>14. CASE PciNewFails \/ ImcNewFails
  <2>1. from \in Dev
    BY <1>14 DEF PciNewFails, ImcNewFails, WalkInv
  <2>2. /\ leaked' = [leaked EXCEPT ![from] = leaked[from] + 2] /\ from' = 0
        /\ pc \in {"pci_new", "imc_new"} /\ pc' \notin {"pci_new", "imc_new"}
        /\ UNCHANGED <<pciBoxes, imcs, held>>
    BY <1>14 DEF PciNewFails, ImcNewFails, lists, refs
  <2>3. leaked' \in [Dev -> Nat] /\ held' \in [Dev -> Int]
    BY <1>1, <2>1, <2>2
  <2>4. Made' = Made /\ MadeFinite'
    BY <1>1, <2>2, MadeSame
  <2>5. ASSUME NEW d \in Dev
        PROVE  held'[d] - held[d] = (leaked'[d] - leaked[d])
                                    + (Made'[d] - Made[d]) + (Search'[d] - Search[d])
    <3>1. Search[d] = IF d = from THEN 2 ELSE 0
      BY <2>2 DEF Search
    <3>2. Search'[d] = 0
      BY <2>2 DEF Search
    <3>3. held'[d] - held[d] = 0 /\ Made'[d] - Made[d] = 0
      BY <1>1, <1>2, <2>2, <2>4
    <3>4. leaked'[d] - leaked[d] = IF d = from THEN 2 ELSE 0
      BY <1>1, <2>2
    <3> QED
      BY <3>1, <3>2, <3>3, <3>4
  <2> QED
    BY <2>3, <2>4, <2>5, RefBalance
\* Exit puts what is made of a device, once for each.
<1>15. ASSUME UNCHANGED <<from, leaked>>, MadeFinite', held' \in [Dev -> Int],
              pc \notin {"pci_new", "imc_new"}, pc' \notin {"pci_new", "imc_new"},
              \A d \in Dev : held'[d] - held[d] = Made'[d] - Made[d]
       PROVE  RefInv'
  <2>1. Search' = Search
    BY <1>15 DEF Search
  <2>2. Made' \in [Dev -> Nat]
    BY <1>15, NextTypes
  <2>3. \A d \in Dev : Search'[d] - Search[d] = 0 /\ leaked'[d] - leaked[d] = 0
    BY <1>1, <1>15, <2>1, SearchType
  <2>4. \A d \in Dev : held'[d] - held[d] = (leaked'[d] - leaked[d])
                           + (Made'[d] - Made[d]) + (Search'[d] - Search[d])
    BY <1>2, <1>15, <2>2, <2>3
  <2> QED
    BY <1>1, <1>15, <2>4, RefBalance
<1>16. IsFiniteSet({}) /\ Cardinality({}) = 0
  BY FS_EmptySet
<1>17. CASE ImcExit
  <2>1. /\ UNCHANGED <<pciBoxes, from, leaked>> /\ imcs' = <<>>
        /\ pc \notin {"pci_new", "imc_new"} /\ pc' \notin {"pci_new", "imc_new"}
        /\ held' = [e \in Dev |-> held[e] - Cardinality(ImcsOf(e))]
    BY <1>17 DEF ImcExit, walk, ImcsOf
  <2>2. ASSUME NEW d \in Dev
        PROVE  /\ IsFiniteSet(BoxesOf(d)') /\ IsFiniteSet(ImcsOf(d)')
               /\ held'[d] - held[d] = Made'[d] - Made[d] /\ held'[d] \in Int
    <3>1. IsFiniteSet(BoxesOf(d)) /\ IsFiniteSet(ImcsOf(d))
      BY <1>1 DEF MadeFinite
    <3>2. Cardinality(BoxesOf(d)) \in Nat /\ Cardinality(ImcsOf(d)) \in Nat
      BY <3>1, FS_CardinalityType
    <3>3. BoxesOf(d)' = BoxesOf(d)
      BY <2>1 DEF BoxesOf, Places
    <3>4. ImcsOf(d)' = {}
      BY <2>1 DEF ImcsOf
    <3>5. /\ Made[d] = Cardinality(BoxesOf(d)) + Cardinality(ImcsOf(d))
          /\ Made'[d] = Cardinality(BoxesOf(d)') + Cardinality(ImcsOf(d)')
      BY DEF Made
    <3>6. held'[d] = held[d] - Cardinality(ImcsOf(d)) /\ held[d] \in Nat
      BY <1>1, <2>1
    <3> QED
      BY <1>16, <3>1, <3>2, <3>3, <3>4, <3>5, <3>6
  <2>3. held' \in [Dev -> Int]
    BY <2>1, <2>2
  <2>4. MadeFinite'
    BY <2>2 DEF MadeFinite
  <2> QED
    BY <1>15, <2>1, <2>2, <2>3, <2>4
<1>18. CASE PciExit
  <2>1. /\ UNCHANGED <<imcs, from, leaked>> /\ pciBoxes' = [t \in PciType |-> <<>>]
        /\ pc \notin {"pci_new", "imc_new"} /\ pc' \notin {"pci_new", "imc_new"}
        /\ held' = [e \in Dev |-> held[e] - Cardinality(BoxesOf(e))]
    BY <1>18 DEF PciExit
  <2>2. ASSUME NEW d \in Dev
        PROVE  /\ IsFiniteSet(BoxesOf(d)') /\ IsFiniteSet(ImcsOf(d)')
               /\ held'[d] - held[d] = Made'[d] - Made[d] /\ held'[d] \in Int
    <3>1. IsFiniteSet(BoxesOf(d)) /\ IsFiniteSet(ImcsOf(d))
      BY <1>1 DEF MadeFinite
    <3>2. Cardinality(BoxesOf(d)) \in Nat /\ Cardinality(ImcsOf(d)) \in Nat
      BY <3>1, FS_CardinalityType
    <3>3. BoxesOf(d)' = {}
      BY <2>1 DEF BoxesOf, Places
    <3>4. ImcsOf(d)' = ImcsOf(d)
      BY <2>1 DEF ImcsOf
    <3>5. /\ Made[d] = Cardinality(BoxesOf(d)) + Cardinality(ImcsOf(d))
          /\ Made'[d] = Cardinality(BoxesOf(d)') + Cardinality(ImcsOf(d)')
      BY DEF Made
    <3>6. held'[d] = held[d] - Cardinality(BoxesOf(d)) /\ held[d] \in Nat
      BY <1>1, <2>1
    <3> QED
      BY <1>16, <3>1, <3>2, <3>3, <3>4, <3>5, <3>6
  <2>3. held' \in [Dev -> Int]
    BY <2>1, <2>2
  <2>4. MadeFinite'
    BY <2>2 DEF MadeFinite
  <2> QED
    BY <1>15, <2>1, <2>2, <2>3, <2>4
<1>19. CASE Insmod \/ PciDone \/ MsrNewBox \/ MsrNewFails \/ MsrDone \/ ImcDone
            \/ ProcCreate \/ Rmmod \/ CpuExit
  BY <1>4, <1>19 DEF Insmod, PciDone, MsrNewBox, MsrNewFails, MsrDone, ImcDone,
                     ProcCreate, Rmmod, CpuExit, walk, lists, refs
<1>20. ASSUME NEW d \in Unpluggable, Unplug(d) PROVE RefInv'
  BY <1>4, <1>20 DEF Unplug, walk, lists
<1>21. CASE UNCHANGED vars
  BY <1>4, <1>21 DEF vars, walk, lists, refs
<1> QED
  BY <1>7, <1>8, <1>9, <1>10, <1>12, <1>13, <1>14, <1>17, <1>18, <1>19, <1>20, <1>21
     DEF Next, PciInit, CpuImcInit, Exit

LEMMA RefsHold == Spec => [](WalkInv /\ ListType /\ EmptyInv /\ RefInv)
<1>1. WalkInv /\ ListType /\ EmptyInv /\ RefInv /\ [Next]_vars => RefInv'
  BY RefStep
<1> QED
  BY <1>1, RefInit, ListsHold, PTL DEF Spec

\* Every reference that is held has an owner that will put it, but for those that
\* a walk whose kzalloc failed has left behind (uncore_pmu.c:499-566,
\* uncore_imc.c:93-142).
THEOREM RefsOwnedHolds == Spec => []RefsOwned
<1>1. RefInv => RefsOwned
  <2> SUFFICES ASSUME RefInv, NEW d \in Dev
               PROVE  held[d] = leaked[d] + Cardinality(BoxesOf(d))
                        + Cardinality({i \in DOMAIN imcs : imcs[i].dev = d})
                        + (IF from = d THEN 1 ELSE 0)
                        + (IF from = d /\ pc \in {"pci_new", "imc_new"} THEN 1 ELSE 0)
    BY DEF RefsOwned
  <2>1. IsFiniteSet(BoxesOf(d)) /\ IsFiniteSet(ImcsOf(d))
    BY DEF RefInv, MadeFinite
  <2>2. Cardinality(BoxesOf(d)) \in Nat /\ Cardinality(ImcsOf(d)) \in Nat
    BY <2>1, FS_CardinalityType
  <2>3. held[d] = leaked[d] + Made[d] + Search[d] /\ leaked[d] \in Nat
    BY DEF RefInv
  <2>4. Made[d] = Cardinality(BoxesOf(d)) + Cardinality(ImcsOf(d))
    BY DEF Made
  <2>5. Search[d] = (IF from = d THEN 1 ELSE 0)
                    + (IF from = d /\ pc \in {"pci_new", "imc_new"} THEN 1 ELSE 0)
    BY DEF Search
  <2>6. ImcsOf(d) = {i \in DOMAIN imcs : imcs[i].dev = d}
    BY DEF ImcsOf
  <2> QED
    BY <2>2, <2>3, <2>4, <2>5, <2>6
<1> QED
  BY <1>1, RefsHold, PTL

\* Every operation of insmod and rmmod keeps the variables in their types.
THEOREM TypeCorrect == Spec => []TypeOK
<1>1. WalkInv /\ ListType /\ RefInv => TypeOK
  <2> SUFFICES ASSUME WalkInv, ListType, RefInv PROVE TypeOK
    OBVIOUS
  <2>1. row \in 0 .. Len(HSWEP_UNCORE_PCI_IDS) + 1
    BY IdsFacts DEF WalkInv
  <2>2. pc \in Phase /\ from \in Dev \cup {0} /\ err \in BOOLEAN /\ present \subseteq Dev
    BY Zenon DEF WalkInv
  <2>3. held \in [Dev -> Nat] /\ leaked \in [Dev -> Nat]
    BY DEF RefInv
  <2> QED
    BY <2>1, <2>2, <2>3, Zenon DEF ListType, TypeOK
<1> QED
  BY <1>1, RefsHold, PTL

\* A device on a list is never one the kernel has freed: while it is listed the
\* module holds a reference (uncore_pmu.c:540-546, uncore_imc.c:115-122).
THEOREM NoFreedDeviceHolds == Spec => []NoFreedDevice
<1>1. ListType /\ RefInv => NoFreedDevice
  <2> SUFFICES ASSUME ListType, RefInv, NEW d \in Listed
               PROVE  d \in Dev /\ held[d] > 0
    BY DEF NoFreedDevice
  <2>1. PICK b \in AllBoxes \cup ToSet(imcs) : d = b.dev
    BY DEF Listed
  <2>2. b \in AllBoxes => \E t \in PciType : \E i \in DOMAIN pciBoxes[t] :
                              b = pciBoxes[t][i] /\ b \in PciBox
    BY DEF AllBoxes, ToSet, ListType
  <2>3. b \in ToSet(imcs) => \E i \in DOMAIN imcs : b = imcs[i] /\ b \in ImcDev
    BY DEF ToSet, ListType
  <2>4. d \in Dev
    BY <2>1, <2>2, <2>3 DEF PciBox, ImcDev
  <2>5. b \in AllBoxes => BoxesOf(d) # {}
    <3>1. SUFFICES ASSUME NEW t \in PciType, NEW i \in DOMAIN pciBoxes[t],
                          b = pciBoxes[t][i]
                   PROVE  <<t, i>> \in BoxesOf(d)
      BY <2>2
    <3>2. <<t, i>> \in Places
      BY DEF Places
    <3> QED
      BY <2>1, <3>1, <3>2 DEF BoxesOf
  <2>6. b \in ToSet(imcs) => ImcsOf(d) # {}
    BY <2>1, <2>3 DEF ImcsOf
  <2>7. /\ IsFiniteSet(BoxesOf(d)) /\ IsFiniteSet(ImcsOf(d))
        /\ held[d] = leaked[d] + Made[d] + Search[d] /\ leaked[d] \in Nat
    BY <2>4 DEF RefInv, MadeFinite
  <2>8. /\ Cardinality(BoxesOf(d)) \in Nat /\ Cardinality(ImcsOf(d)) \in Nat
        /\ Cardinality(BoxesOf(d)) = 0 <=> BoxesOf(d) = {}
        /\ Cardinality(ImcsOf(d)) = 0 <=> ImcsOf(d) = {}
    BY <2>7, FS_CardinalityType, FS_EmptySet
  <2>9. Made[d] = Cardinality(BoxesOf(d)) + Cardinality(ImcsOf(d)) /\ Search[d] \in Nat
    BY <2>4, SearchType DEF Made
  <2> QED
    BY <2>1, <2>4, <2>5, <2>6, <2>7, <2>8, <2>9
<1> QED
  BY <1>1, RefsHold, PTL

-----------------------------------------------------------------------------
(* The order of the boxes.                                                 *)

LEMMA IdsApart ==
  \A q, r \in 1 .. 18 : HSWEP_UNCORE_PCI_IDS[q].id = HSWEP_UNCORE_PCI_IDS[r].id => q = r
  BY DEF HSWEP_UNCORE_PCI_IDS, Row

LEMMA RowFound ==
  ASSUME NEW r \in 1 .. 18, NEW d, Machine[d].id = HSWEP_UNCORE_PCI_IDS[r].id
  PROVE  RowOf(d) = r
<1>1. DOMAIN HSWEP_UNCORE_PCI_IDS = 1 .. 18
  BY DEF HSWEP_UNCORE_PCI_IDS
<1> QED
  BY <1>1, IdsApart DEF RowOf

\* The boxes of a list are in the order of the id table, because the walk goes
\* through the table and a box goes to the end of its list.
OrderInv ==
    \A t \in PciType : \A i \in DOMAIN pciBoxes[t] :
        /\ RowOf(pciBoxes[t][i].dev) \in Nat
        /\ \A j \in DOMAIN pciBoxes[t] :
               i <= j => RowOf(pciBoxes[t][i].dev) <= RowOf(pciBoxes[t][j].dev)
        /\ pc \in {"map", "pci", "pci_new"} => RowOf(pciBoxes[t][i].dev) <= row

LEMMA OrderStep ==
  ASSUME WalkInv, ListType, EmptyInv, OrderInv, [Next]_vars PROVE OrderInv'
<1>1. ASSUME pciBoxes' = pciBoxes,
             pc' \in {"map", "pci", "pci_new"}
                => \/ pc \in {"map", "pci", "pci_new"} /\ row <= row'
                   \/ pc \in {"unloaded", "map"}
      PROVE  OrderInv'
  <2>1. row \in Int /\ row' \in Int
    BY WalkStep DEF WalkInv
  <2>2. ASSUME NEW t \in PciType, NEW i \in DOMAIN pciBoxes[t],
               pc' \in {"map", "pci", "pci_new"}
        PROVE  RowOf(pciBoxes[t][i].dev) <= row'
    <3>1. CASE pc \in {"unloaded", "map"}
      BY <2>2, <3>1 DEF EmptyInv
    <3>2. CASE pc \in {"map", "pci", "pci_new"} /\ row <= row'
      <4>1. PICK n \in Nat : n = RowOf(pciBoxes[t][i].dev) /\ n <= row
        BY <2>2, <3>2 DEF OrderInv
      <4> QED
        BY <2>1, <3>2, <4>1
    <3> QED
      BY <1>1, <2>2, <3>1, <3>2
  <2> QED
    BY <1>1, <2>2 DEF OrderInv
<1>2. ASSUME pciBoxes' = pciBoxes, row' = row,
             pc' \in {"map", "pci", "pci_new"} => pc \in {"map", "pci", "pci_new"}
      PROVE  OrderInv'
  BY <1>1, <1>2 DEF WalkInv
<1>3. CASE Insmod \/ MapFails \/ MapDone
  BY <1>1, <1>3 DEF Insmod, MapFails, MapDone, lists
<1>4. ASSUME NEW phase, NEW ids, NEW next \in {"pci_new", "imc_new"},
             Find(phase, ids, next), phase = "pci" <=> next = "pci_new"
      PROVE  OrderInv'
  BY <1>2, <1>4 DEF Find, lists
<1>5. ASSUME NEW phase, NEW ids, NextRow(phase, ids) PROVE OrderInv'
  <2>1. pciBoxes' = pciBoxes /\ pc' = pc /\ row' = row + 1
    BY <1>5, Zenon DEF NextRow, lists
  <2>2. row <= row'
    BY <2>1 DEF WalkInv
  <2> QED
    BY <1>1, <2>1, <2>2, Zenon
<1>6. CASE PciNewBox
  <2>1. row \in 1 .. 18 /\ from \in Dev /\ Machine[from].id = HSWEP_UNCORE_PCI_IDS[row].id
    BY <1>6, NewBoxFrom
  <2>2. PICK t \in PciType : t = HSWEP_UNCORE_PCI_IDS[row].type
    BY <2>1, IdsFacts
  <2>3. PICK b \in PciBox : b = NewPciBox(pciBoxes[t], from) /\ b.dev = from
    BY <2>1, NewBoxType DEF ListType
  <2>4. RowOf(b.dev) = row
    BY <2>1, <2>3, RowFound
  <2>5. /\ pciBoxes' = [pciBoxes EXCEPT ![t] = Append(pciBoxes[t], b)]
        /\ pc = "pci_new" /\ pc' = "pci" /\ row' = row
    BY <1>6, <2>2, <2>3 DEF PciNewBox, walk
  <2>6. ASSUME NEW u \in PciType, u # t PROVE pciBoxes'[u] = pciBoxes[u]
    BY <2>5, <2>6 DEF ListType
  <2> DEFINE n == Len(pciBoxes[t]) + 1
  <2>7. /\ pciBoxes'[t] = Append(pciBoxes[t], b) /\ pciBoxes[t] \in Seq(PciBox)
        /\ Len(pciBoxes[t]) \in Nat
    BY <2>5, LenProperties DEF ListType
  <2>8. /\ DOMAIN pciBoxes'[t] = DOMAIN pciBoxes[t] \cup {n}
        /\ DOMAIN pciBoxes[t] = 1 .. n - 1
        /\ pciBoxes'[t][n] = b
        /\ \A i \in DOMAIN pciBoxes[t] : pciBoxes'[t][i] = pciBoxes[t][i]
    BY <2>7, AppendProperties
  <2>9. n \in Nat
    BY <2>7
  <2> HIDE DEF n
  <2> DEFINE R(u, i) == RowOf(pciBoxes[u][i].dev)
             S(u, i) == RowOf(pciBoxes'[u][i].dev)
  <2>10. \A u \in PciType : \A i \in DOMAIN pciBoxes[u] :
            /\ R(u, i) \in Nat /\ R(u, i) <= row
            /\ \A j \in DOMAIN pciBoxes[u] : i <= j => R(u, i) <= R(u, j)
    BY <2>5 DEF OrderInv
  <2>11. \A i \in DOMAIN pciBoxes[t] : S(t, i) = R(t, i)
    BY <2>8
  <2>12. S(t, n) = row
    BY <2>4, <2>8
  <2>13. \A u \in PciType \ {t} : pciBoxes'[u] = pciBoxes[u]
                                  /\ \A i \in DOMAIN pciBoxes[u] : S(u, i) = R(u, i)
    BY <2>6
  <2> HIDE DEF R, S
  <2>14. ASSUME NEW u \in PciType, NEW i \in DOMAIN pciBoxes'[u]
         PROVE  /\ S(u, i) \in Nat /\ S(u, i) <= row
                /\ \A j \in DOMAIN pciBoxes'[u] : i <= j => S(u, i) <= S(u, j)
    <3>1. CASE u # t
      BY <2>10, <2>13, <3>1
    <3>2. CASE u = t
      <4>1. i \in DOMAIN pciBoxes[t] \cup {n} /\ i \in 1 .. n
        <5>1. i \in DOMAIN pciBoxes'[t]
          BY <3>2
        <5>2. i \in DOMAIN pciBoxes[t] \cup {n}
          BY <2>8, <5>1, Zenon
        <5>3. i \in 1 .. n - 1 \/ i = n
          BY <2>8, <5>2, Zenon
        <5>4. 1 <= n
          BY <2>7 DEF n
        <5> QED
          BY <2>9, <5>2, <5>3, <5>4
      <4>2. S(t, i) \in Nat /\ S(t, i) <= row
        <5>1. CASE i = n
          BY <2>1, <2>12, <5>1
        <5>2. CASE i \in DOMAIN pciBoxes[t]
          BY <2>10, <2>11, <5>2
        <5> QED
          BY <4>1, <5>1, <5>2
      <4>3. ASSUME NEW j \in DOMAIN pciBoxes'[t], i <= j PROVE S(t, i) <= S(t, j)
        <5>1. CASE j = n
          BY <2>12, <4>2, <5>1
        <5>2. CASE j # n
          <6>1. j \in DOMAIN pciBoxes[t] /\ i \in DOMAIN pciBoxes[t]
            BY <2>8, <2>9, <4>1, <4>3, <5>2
          <6> QED
            BY <2>10, <2>11, <4>3, <6>1
        <5> QED
          BY <5>1, <5>2
      <4> QED
        BY <3>2, <4>2, <4>3
    <3> QED
      BY <3>1, <3>2
  <2> QED
    BY <2>5, <2>14 DEF OrderInv, S
<1>7. CASE PciNewFails \/ ImcNewFails \/ MsrNewFails \/ MsrDone \/ ImcDone \/ ProcCreate
           \/ Rmmod
  BY <1>1, <1>7 DEF PciNewFails, ImcNewFails, MsrNewFails, MsrDone, ImcDone, ProcCreate,
                    Rmmod, lists, walk
<1>8. CASE MapUbox \/ PciDone \/ MsrNewBox \/ ImcNewDevice \/ ImcExit \/ CpuExit
  BY <1>2, <1>8 DEF MapUbox, PciDone, MsrNewBox, ImcNewDevice, ImcExit, CpuExit, lists,
                    walk
<1>9. CASE PciExit
  <2>1. \A t \in PciType : DOMAIN pciBoxes'[t] = {}
    BY <1>9 DEF PciExit
  <2> QED
    BY <2>1 DEF OrderInv
<1>10. ASSUME NEW d \in Unpluggable, Unplug(d) PROVE OrderInv'
  BY <1>2, <1>10 DEF Unplug, lists, walk
<1>11. CASE UNCHANGED vars
  BY <1>2, <1>11 DEF vars, lists, walk
<1> QED
  BY <1>3, <1>4, <1>5, <1>6, <1>7, <1>8, <1>9, <1>10, <1>11
     DEF Next, PciInit, CpuImcInit, Exit

\* Whatever devices the machine has, and whichever the kernel removes, the box that
\* uncore_get_first_box finds on a known node is of the first id of the table that
\* any box of that node is of (uncore_pmu.c:216-230).
THEOREM FirstBoxIsAgent0Holds == Spec => []FirstBoxIsAgent0
<1>1. Init => OrderInv
  BY DEF Init, OrderInv
<1>2. WalkInv /\ ListType /\ EmptyInv /\ OrderInv /\ [Next]_vars => OrderInv'
  BY OrderStep
<1>3. ListType /\ OrderInv => FirstBoxIsAgent0
  <2> SUFFICES ASSUME OrderInv, ListType, NEW b \in ToSet(pciBoxes.HA), b.node # -1
               PROVE  RowOf(uncore_get_first_box("HA", b.node).dev) <= RowOf(b.dev)
    BY DEF FirstBoxIsAgent0
  <2>1. PICK j \in DOMAIN pciBoxes.HA : b = pciBoxes.HA[j]
    BY DEF ToSet
  <2>2. "HA" \in PciType /\ pciBoxes["HA"] \in Seq(PciBox)
    BY DEF ListType, PciType
  <2>3. j \in OnNode("HA", b.node) /\ OnNode("HA", b.node) \in SUBSET Nat
    BY <2>1, <2>2 DEF OnNode
  <2>4. PICK i \in OnNode("HA", b.node) : i = Min(OnNode("HA", b.node)) /\ i <= j
    BY <2>3, MinOfNats
  <2>5. b.node \in 0 .. UNCORE_MAX_SOCKET
    <3>1. b \in PciBox
      BY <2>1, <2>2
    <3> QED
      BY <3>1 DEF PciBox, UNCORE_MAX_SOCKET
  <2>6. i \in DOMAIN pciBoxes["HA"]
        /\ uncore_get_first_box("HA", b.node) = pciBoxes["HA"][i]
    BY <2>4, <2>5 DEF OnNode, uncore_get_first_box
  <2> QED
    BY <2>1, <2>2, <2>4, <2>6 DEF OrderInv
<1> QED
  BY <1>1, <1>2, <1>3, ListsHold, PTL DEF Spec

-----------------------------------------------------------------------------
(* The nodes of the boxes.                                                 *)

\* Every bus has a UBOX that stays and that knows its node, and no two buses are of
\* one node.
BusesMapped ==
    /\ \A b \in Bus : /\ Matches(b) # {}
                      /\ \E u \in Dev \ Unpluggable : /\ Machine[u].id = "ubox"
                                                      /\ Machine[u].bus = b
    /\ \A a, b \in Bus : Min(Matches(a)) = Min(Matches(b)) => a = b

NodeOfBus(b) == Min(Matches(b))

\* The walk over the UBOXes has done those it has passed; the lists are made after
\* it has passed them all.
NodeInv ==
    /\ Dev \ Unpluggable \subseteq present
    /\ pc = "map" => \A u \in Dev \ Unpluggable :
                        Machine[u].id = "ubox" /\ u <= from
                          => nodeOf[Machine[u].bus] = NodeOfBus(Machine[u].bus)
    /\ pc \in {"pci", "pci_new", "cpu", "imc", "imc_new", "proc", "live"}
          => \A b \in Bus : nodeOf[b] = NodeOfBus(b)
    /\ \A t \in PciType : \A i \in DOMAIN pciBoxes[t] :
          pciBoxes[t][i].node = NodeOfBus(Machine[pciBoxes[t][i].dev].bus)
    /\ \A i \in DOMAIN imcs : imcs[i].node = NodeOfBus(Machine[imcs[i].dev].bus)

LEMMA NodeStep ==
  ASSUME BusesMapped, WalkInv, ListType, EmptyInv, NodeInv, [Next]_vars PROVE NodeInv'
<1> USE DevFacts
<1> DEFINE Later == {"pci", "pci_new", "cpu", "imc", "imc_new", "proc", "live"}
<1>1. ASSUME UNCHANGED <<nodeOf, pciBoxes, imcs, present>>,
             pc' = "map" => pc = "unloaded" \/ (from' = from /\ pc = "map"),
             pc' = "map" => from' = 0 \/ (from' = from /\ pc = "map"),
             pc' \in Later => pc \in Later
      PROVE  NodeInv'
  BY <1>1 DEF NodeInv
<1>2. CASE Insmod
  <2>1. /\ pc = "unloaded" /\ pc' = "map" /\ from' = 0
        /\ UNCHANGED <<pciBoxes, imcs, present>>
    BY <1>2 DEF Insmod, walk, refs, WalkInv
  <2> QED
    BY <2>1 DEF NodeInv
<1>3. CASE MapUbox
  <2>1. Ahead("ubox") # {} /\ pc = "map" /\ pc' = "map"
        /\ UNCHANGED <<pciBoxes, imcs, present>>
    BY <1>3 DEF MapUbox, lists
  <2>2. PICK v \in Dev : v = Min(Ahead("ubox")) /\ v > from /\ Machine[v].id = "ubox"
    BY <2>1, AheadFacts DEF WalkInv
  <2>3. PICK b \in Bus : b = Machine[v].bus
    OBVIOUS
  <2>4. Matches(b) # {}
    BY DEF BusesMapped
  <2>5. PICK m \in 0 .. 7 : m = Min(Matches(b)) /\ m = NodeOfBus(b)
    BY <2>4, MatchFacts DEF NodeOfBus
  <2>6. from' = v /\ nodeOf' = [nodeOf EXCEPT ![b] = m]
    BY <1>3, <2>2, <2>3, <2>4, <2>5 DEF MapUbox
  <2>7. \A c \in Bus : nodeOf'[c] = IF c = b THEN NodeOfBus(b) ELSE nodeOf[c]
    BY <2>5, <2>6 DEF ListType
  <2>8. ASSUME NEW u \in Dev \ Unpluggable, Machine[u].id = "ubox", u <= v
        PROVE  nodeOf'[Machine[u].bus] = NodeOfBus(Machine[u].bus)
    <3>1. Machine[u].bus \in Bus /\ u \in Nat /\ v \in Nat /\ from \in Nat
      BY DEF WalkInv
    <3>2. CASE u <= from
      <4>1. nodeOf[Machine[u].bus] = NodeOfBus(Machine[u].bus)
        BY <2>1, <2>8, <3>2 DEF NodeInv
      <4> QED
        BY <2>7, <3>1, <4>1
    <3>3. CASE u > from
      <4>1. u \in Ahead("ubox")
        BY <2>8, <3>3 DEF Ahead, NodeInv
      <4>2. Ahead("ubox") \in SUBSET Nat
        BY DEF Ahead, WalkInv
      <4>3. v <= u
        BY <2>2, <4>1, <4>2, MinOfNats
      <4>4. u = v
        BY <2>8, <3>1, <4>3
      <4> QED
        BY <2>3, <2>7, <4>4
    <3> QED
      BY <3>1, <3>2, <3>3
  <2> QED
    BY <2>1, <2>6, <2>8 DEF NodeInv
<1>4. CASE MapFails
  BY <1>1, <1>4 DEF MapFails, lists
<1>5. CASE MapDone
  <2>1. /\ pc = "map" /\ Ahead("ubox") = {} /\ pc' \in {"exit_pci", "pci"}
        /\ UNCHANGED <<nodeOf, pciBoxes, imcs, present>>
    BY <1>5 DEF MapDone, lists
  <2>2. ASSUME NEW b \in Bus PROVE nodeOf[b] = NodeOfBus(b)
    <3>1. PICK u \in Dev \ Unpluggable : Machine[u].id = "ubox" /\ Machine[u].bus = b
      BY DEF BusesMapped
    <3>2. u \in present /\ u \notin Ahead("ubox")
      BY <2>1 DEF NodeInv
    <3>3. u <= from
      BY <3>1, <3>2 DEF Ahead, WalkInv
    <3> QED
      BY <2>1, <3>1, <3>3 DEF NodeInv
  <2> QED
    BY <2>1, <2>2 DEF NodeInv
<1>6. ASSUME NEW phase \in {"pci", "imc"}, NEW ids, NEW next \in {"pci_new", "imc_new"},
             Find(phase, ids, next)
      PROVE  NodeInv'
  BY <1>1, <1>6 DEF Find, lists
<1>7. ASSUME NEW phase \in {"pci", "imc"}, NEW ids, NextRow(phase, ids) PROVE NodeInv'
  BY <1>1, <1>7 DEF NextRow, lists
<1>8. CASE PciNewBox
  <2>1. row \in 1 .. 18 /\ from \in Dev /\ pc = "pci_new"
    BY <1>8, NewBoxFrom
  <2>2. PICK t \in PciType : t = HSWEP_UNCORE_PCI_IDS[row].type
    BY <2>1, IdsFacts
  <2>3. PICK b \in PciBox : b = NewPciBox(pciBoxes[t], from) /\ b.dev = from
    BY <2>1, NewBoxType DEF ListType
  <2>4. /\ pciBoxes' = [pciBoxes EXCEPT ![t] = Append(pciBoxes[t], b)]
        /\ pc' = "pci" /\ UNCHANGED <<nodeOf, imcs, present>>
    BY <1>8, <2>2, <2>3 DEF PciNewBox, refs
  <2>5. b.node = nodeOf[Machine[from].bus]
    BY <2>3 DEF NewPciBox
  <2>6. b.node = NodeOfBus(Machine[b.dev].bus)
    BY <2>1, <2>3, <2>5 DEF NodeInv
  <2>7. ASSUME NEW u \in PciType, NEW i \in DOMAIN pciBoxes'[u]
        PROVE  pciBoxes'[u][i] = b \/ (i \in DOMAIN pciBoxes[u]
                                       /\ pciBoxes'[u][i] = pciBoxes[u][i])
    <3>1. pciBoxes[t] \in Seq(PciBox) /\ u # t => pciBoxes'[u] = pciBoxes[u]
      BY <2>4 DEF ListType
    <3>2. CASE u = t
      <4>1. pciBoxes[t] \in Seq(PciBox) /\ pciBoxes'[t] = Append(pciBoxes[t], b)
        BY <2>4 DEF ListType
      <4>2. i \in DOMAIN pciBoxes'[t]
        BY <3>2
      <4>3. i \in 1 .. Len(pciBoxes[t]) + 1 /\ Len(pciBoxes[t]) \in Nat
            /\ DOMAIN pciBoxes[t] = 1 .. Len(pciBoxes[t])
        BY <4>1, <4>2, AppendProperties, LenProperties
      <4> QED
        BY <3>2, <4>1, <4>3, AppendProperties
    <3> QED
      BY <2>4, <3>2 DEF ListType
  <2>8. ASSUME NEW u \in PciType, NEW i \in DOMAIN pciBoxes'[u]
        PROVE  pciBoxes'[u][i].node = NodeOfBus(Machine[pciBoxes'[u][i].dev].bus)
    BY <2>6, <2>7 DEF NodeInv
  <2> QED
    BY <2>1, <2>4, <2>8 DEF NodeInv
<1>9. CASE ImcNewDevice
  <2>1. from \in Dev /\ pc = "imc_new"
    BY <1>9 DEF ImcNewDevice, WalkInv
  <2>2. PICK b \in ImcDev : b = [node |-> nodeOf[Machine[from].bus], dev |-> from]
    BY <2>1 DEF ListType, ImcDev
  <2>3. /\ imcs' = Append(imcs, b) /\ pc' = "imc"
        /\ UNCHANGED <<nodeOf, pciBoxes, present>>
    BY <1>9, <2>2 DEF ImcNewDevice, refs
  <2>4. b.node = NodeOfBus(Machine[b.dev].bus)
    BY <2>1, <2>2 DEF NodeInv
  <2>5. ASSUME NEW i \in DOMAIN imcs'
        PROVE  imcs'[i] = b \/ (i \in DOMAIN imcs /\ imcs'[i] = imcs[i])
    <3>1. imcs \in Seq(ImcDev)
      BY DEF ListType
    <3>2. i \in 1 .. Len(imcs) + 1 /\ Len(imcs) \in Nat /\ DOMAIN imcs = 1 .. Len(imcs)
      BY <2>3, <3>1, AppendProperties, LenProperties
    <3> QED
      BY <2>3, <3>1, <3>2, AppendProperties
  <2>6. ASSUME NEW i \in DOMAIN imcs'
        PROVE  imcs'[i].node = NodeOfBus(Machine[imcs'[i].dev].bus)
    BY <2>4, <2>5 DEF NodeInv
  <2> QED
    BY <2>1, <2>3, <2>6 DEF NodeInv
<1>10. CASE PciNewFails \/ ImcNewFails \/ PciDone \/ MsrNewBox \/ MsrNewFails \/ MsrDone
            \/ ImcDone \/ ProcCreate \/ Rmmod \/ CpuExit
  BY <1>1, <1>10 DEF PciNewFails, ImcNewFails, PciDone, MsrNewBox, MsrNewFails, MsrDone,
                     ImcDone, ProcCreate, Rmmod, CpuExit, lists, refs
<1>11. CASE ImcExit
  <2>1. DOMAIN imcs' = {} /\ pc' \in {"exit_imc", "exit_cpu"}
        /\ UNCHANGED <<pciBoxes, present>>
    BY <1>11 DEF ImcExit
  <2> QED
    BY <2>1 DEF NodeInv
<1>12. CASE PciExit
  <2>1. \A t \in PciType : DOMAIN pciBoxes'[t] = {}
    BY <1>12 DEF PciExit
  <2>2. pc' \in {"exit_pci", "unloaded"} /\ UNCHANGED <<imcs, present>>
    BY <1>12 DEF PciExit
  <2> QED
    BY <2>1, <2>2 DEF NodeInv
<1>13. ASSUME NEW d \in Unpluggable, Unplug(d) PROVE NodeInv'
  <2>1. present' = present \ {d} /\ UNCHANGED <<pc, from, nodeOf, pciBoxes, imcs>>
    BY <1>13 DEF Unplug, walk, lists
  <2> QED
    BY <2>1 DEF NodeInv
<1>14. CASE UNCHANGED vars
  BY <1>1, <1>14 DEF vars, walk, lists, refs
<1> QED
  BY <1>2, <1>3, <1>4, <1>5, <1>6, <1>7, <1>8, <1>9, <1>10, <1>11, <1>12, <1>13, <1>14
     DEF Next, PciInit, CpuImcInit, Exit

\* Boxes and IMC devices are on the node of their bus and no other bus has that
\* node, if the UBOX of every bus tells one (uncore_hswep.c:693-741).
THEOREM OneNodePerBusHolds == BusesMapped /\ Spec => []OneNodePerBus
<1> SUFFICES ASSUME BusesMapped PROVE Spec => []OneNodePerBus
  OBVIOUS
<1>1. Init => NodeInv
  BY DevFacts DEF Init, NodeInv
<1>2. WalkInv /\ ListType /\ EmptyInv /\ NodeInv /\ [Next]_vars => NodeInv'
  BY NodeStep
<1>3. ListType /\ NodeInv => OneNodePerBus
  <2> SUFFICES ASSUME ListType, NodeInv,
                      NEW b \in AllBoxes \cup ToSet(imcs),
                      NEW c \in AllBoxes \cup ToSet(imcs)
               PROVE  /\ b.node \in Matches(Machine[b.dev].bus)
                      /\ (b.node = c.node) <=> (Machine[b.dev].bus = Machine[c.dev].bus)
    BY DEF OneNodePerBus
  <2>1. ASSUME NEW x \in AllBoxes \cup ToSet(imcs)
        PROVE  Machine[x.dev].bus \in Bus /\ x.node = NodeOfBus(Machine[x.dev].bus)
    <3>1. CASE x \in AllBoxes
      <4>1. PICK t \in PciType : x \in ToSet(pciBoxes[t])
        BY <3>1 DEF AllBoxes
      <4>2. PICK i \in DOMAIN pciBoxes[t] : x = pciBoxes[t][i]
        BY <4>1 DEF ToSet
      <4>3. x \in PciBox
        BY <4>2 DEF ListType
      <4> QED
        BY <4>2, <4>3, DevFacts DEF PciBox, NodeInv
    <3>2. CASE x \in ToSet(imcs)
      <4>1. PICK i \in DOMAIN imcs : x = imcs[i]
        BY <3>2 DEF ToSet
      <4>2. x \in ImcDev
        BY <4>1 DEF ListType
      <4> QED
        BY <4>1, <4>2, DevFacts DEF ImcDev, NodeInv
    <3> QED
      BY <3>1, <3>2
  <2>2. \A a \in Bus : NodeOfBus(a) \in Matches(a)
    BY MatchFacts DEF BusesMapped, NodeOfBus
  <2>3. \A a, e \in Bus : NodeOfBus(a) = NodeOfBus(e) => a = e
    BY DEF BusesMapped, NodeOfBus
  <2> QED
    BY <2>1, <2>2, <2>3
<1> QED
  BY <1>1, <1>2, <1>3, ListsHold, PTL DEF Spec

-----------------------------------------------------------------------------
(* The MSRs.                                                               *)

\* The registers of a box lie within a range of its own.
MsrFirst(t, i) == CASE t = "U"   -> 1795
                    [] t = "PCU" -> 1808
                    [] t = "S"   -> 1824 + i * 10
                    [] t = "C"   -> 3584 + i * 16
MsrLast(t, i) == MsrFirst(t, i) + (IF t = "S" THEN 9 ELSE IF t = "U" THEN 12 ELSE 15)

LEMMA MsrRange ==
  ASSUME NEW t \in ToSet(MsrType), NEW i \in Nat
  PROVE  /\ MsrFirst(t, i) \in Int /\ MsrLast(t, i) \in Int
         /\ MsrsOf(t, i) \subseteq MsrFirst(t, i) .. MsrLast(t, i)
<1> USE DEF MsrsOf, HSWEP_UNCORE_MSR, uncore_msr_box_offset, MsrFirst, MsrLast
<1>1. CASE t = "U"
  BY <1>1
<1>2. CASE t = "PCU"
  BY <1>2
<1>3. CASE t = "S"
  BY <1>3
<1>4. CASE t = "C"
  BY <1>4
<1> QED
  BY <1>1, <1>2, <1>3, <1>4, MsrTypes

LEMMA RangesApart ==
  ASSUME NEW t \in ToSet(MsrType), NEW i \in 0 .. StaticBoxes[t] - 1,
         NEW u \in ToSet(MsrType), NEW j \in 0 .. StaticBoxes[u] - 1,
         t # u \/ i # j
  PROVE  MsrsOf(t, i) \cap MsrsOf(u, j) = {}
<1>1. i \in Nat /\ j \in Nat
  OBVIOUS
<1>2. /\ t \in {"U", "PCU", "S", "C"} /\ u \in {"U", "PCU", "S", "C"}
      /\ t \in {"U", "PCU"} => i = 0
      /\ t = "S" => i <= 3
      /\ u \in {"U", "PCU"} => j = 0
      /\ u = "S" => j <= 3
  BY MsrTypes DEF StaticBoxes
<1>3. MsrLast(t, i) < MsrFirst(u, j) \/ MsrLast(u, j) < MsrFirst(t, i)
  BY <1>1, <1>2 DEF MsrFirst, MsrLast
<1>4. MsrFirst(t, i) \in Int /\ MsrLast(t, i) \in Int /\ MsrFirst(u, j) \in Int
      /\ MsrLast(u, j) \in Int
  BY <1>1, MsrRange
<1>5. /\ MsrsOf(t, i) \subseteq MsrFirst(t, i) .. MsrLast(t, i)
      /\ MsrsOf(u, j) \subseteq MsrFirst(u, j) .. MsrLast(u, j)
  BY <1>1, MsrRange
<1> QED
  BY <1>3, <1>4, <1>5

\* A box of an MSR type has its place in the list for its index, and there are no
\* more of them than the table allows and, C boxes, than there are cores.
MsrInv ==
    /\ \A t \in ToSet(MsrType) :
          /\ num_boxes[t] <= StaticBoxes[t]
          /\ Len(msrBoxes[t]) <= num_boxes[t]
          /\ \A i \in DOMAIN msrBoxes[t] : msrBoxes[t][i] = i - 1
    /\ pc \in {"cpu", "imc", "imc_new", "proc", "live"} => num_boxes["C"] <= MaxCores

LEMMA MsrInit == Init => MsrInv
<1> SUFFICES ASSUME Init PROVE MsrInv
  OBVIOUS
<1>1. num_boxes = StaticBoxes /\ pc = "unloaded"
  BY DEF Init
<1>2. \A t \in ToSet(MsrType) : StaticBoxes[t] \in Nat
  BY MsrTypes DEF StaticBoxes
<1>3. \A t \in ToSet(MsrType) : msrBoxes[t] = <<>>
  BY DEF Init
<1> QED
  BY <1>1, <1>2, <1>3 DEF MsrInv

LEMMA MsrStep ==
  ASSUME WalkInv, ListType, EmptyInv, MsrInv, [Next]_vars PROVE MsrInv'
<1> DEFINE Capped == {"cpu", "imc", "imc_new", "proc", "live"}
<1>1. /\ \A t \in ToSet(MsrType) : num_boxes[t] \in Nat /\ StaticBoxes[t] \in Nat
                                   /\ t \notin PciType
      /\ "C" \in ToSet(MsrType)
  BY MsrTypes DEF ListType, StaticBoxes, PciType
<1>2. ASSUME UNCHANGED <<num_boxes, msrBoxes>>, pc' \in Capped => pc \in Capped
      PROVE  MsrInv'
  BY <1>2 DEF MsrInv
<1>3. ASSUME \A t \in ToSet(MsrType) : msrBoxes'[t] = <<>>,
             num_boxes' \in {num_boxes, StaticBoxes}, pc' \notin Capped
      PROVE  MsrInv'
  <2>1. ASSUME NEW t \in ToSet(MsrType)
        PROVE  num_boxes'[t] <= StaticBoxes[t] /\ 0 <= num_boxes'[t]
    BY <1>1, <1>3 DEF MsrInv
  <2>2. \A t \in ToSet(MsrType) : Len(msrBoxes'[t]) = 0 /\ DOMAIN msrBoxes'[t] = {}
    BY <1>3
  <2> QED
    BY <1>3, <2>1, <2>2 DEF MsrInv
<1>4. CASE Insmod
  BY <1>3, <1>4 DEF Insmod, EmptyInv
<1>5. CASE PciDone
  <2>1. num_boxes["C"] \in Nat /\ MaxCores \in Nat
    BY <1>1, UncoreBoxesAssumption
  <2>2. {num_boxes["C"], MaxCores} \in SUBSET Nat /\ {num_boxes["C"], MaxCores} # {}
    BY <2>1
  <2>3. PICK n \in Nat : n = Min({num_boxes["C"], MaxCores})
                         /\ n <= num_boxes["C"] /\ n <= MaxCores
    BY <2>1, <2>2, MinOfNats
  <2>4. num_boxes' = [num_boxes EXCEPT !["C"] = n] /\ msrBoxes' = msrBoxes /\ pc = "pci"
    BY <1>5, <2>3 DEF PciDone
  <2>5. \A t \in ToSet(MsrType) : num_boxes'[t] = IF t = "C" THEN n ELSE num_boxes[t]
    BY <2>4, MsrTypes DEF ListType, StaticBoxes
  <2>6. ASSUME NEW t \in ToSet(MsrType)
        PROVE  num_boxes'[t] <= StaticBoxes[t] /\ 0 <= num_boxes'[t]
    <3>1. num_boxes[t] <= StaticBoxes[t] /\ num_boxes[t] \in Nat /\ StaticBoxes[t] \in Nat
      BY <1>1 DEF MsrInv
    <3> QED
      BY <2>3, <2>5, <3>1
  <2>7. \A t \in ToSet(MsrType) : Len(msrBoxes'[t]) = 0 /\ DOMAIN msrBoxes'[t] = {}
    BY <2>4 DEF EmptyInv
  <2>8. num_boxes'["C"] <= MaxCores
    BY <1>1, <2>3, <2>5
  <2> QED
    BY <2>6, <2>7, <2>8 DEF MsrInv
<1>6. CASE PciNewBox
  <2>1. row \in 1 .. 18
    BY <1>6, NewBoxFrom
  <2>2. PICK u \in PciType : u = HSWEP_UNCORE_PCI_IDS[row].type
    BY <2>1, IdsFacts
  <2>3. PICK n : num_boxes' = [num_boxes EXCEPT ![u] = n]
    BY <1>6, <2>2 DEF PciNewBox
  <2>4. msrBoxes' = msrBoxes /\ pc' = "pci"
    BY <1>6 DEF PciNewBox
  <2>5. \A t \in ToSet(MsrType) : num_boxes'[t] = num_boxes[t]
    BY <1>1, <2>3 DEF ListType
  <2> QED
    BY <2>4, <2>5 DEF MsrInv
<1>7. CASE MsrNewBox
  <2>1. PICK n \in DOMAIN MsrType : n = Min(Lacking)
                                    /\ Len(msrBoxes[MsrType[n]]) < num_boxes[MsrType[n]]
    <3>1. Min(Lacking) \in Lacking
      BY <1>7, LackingFacts
    <3> QED
      BY <3>1 DEF Lacking
  <2>2. PICK u \in ToSet(MsrType) : u = MsrType[n] /\ Len(msrBoxes[u]) < num_boxes[u]
    BY <2>1 DEF ToSet
  <2>3. msrBoxes \in [ToSet(MsrType) -> Seq(Nat)]
    BY DEF ListType
  <2>4. msrBoxes[u] \in Seq(Nat) /\ Len(msrBoxes[u]) \in Nat
    BY <2>3, LenProperties
  <2> DEFINE l == Len(msrBoxes[u])
             new == Append(msrBoxes[u], l)
  <2>5. /\ new \in Seq(Nat) /\ Len(new) = l + 1
        /\ DOMAIN new = 1 .. l + 1
        /\ \A i \in 1 .. l : new[i] = msrBoxes[u][i]
        /\ new[l + 1] = l
        /\ DOMAIN msrBoxes[u] = 1 .. l
    BY <2>4, AppendProperties, LenProperties
  <2>6. msrBoxes' = [msrBoxes EXCEPT ![u] = new] /\ UNCHANGED <<pc, num_boxes>>
    BY <1>7, <2>1, <2>2 DEF MsrNewBox
  <2> HIDE DEF new
  <2>7. msrBoxes'[u] = new /\ \A t \in ToSet(MsrType) \ {u} : msrBoxes'[t] = msrBoxes[t]
    BY <2>3, <2>6
  <2>8. \A i \in DOMAIN new : new[i] = i - 1
    <3>1. \A i \in 1 .. l : msrBoxes[u][i] = i - 1
      BY <2>5 DEF MsrInv
    <3>2. l \in Nat
      BY <2>4
    <3> HIDE DEF l
    <3> QED
      BY <2>5, <3>1, <3>2
  <2>9. Len(new) <= num_boxes[u]
    BY <1>1, <2>2, <2>4, <2>5
  <2> QED
    BY <2>6, <2>7, <2>8, <2>9 DEF MsrInv
<1>8. CASE CpuExit
  <2>1. \A t \in ToSet(MsrType) : msrBoxes'[t] = <<>>
    BY <1>8 DEF CpuExit
  <2> QED
    BY <1>3, <1>8, <2>1 DEF CpuExit
<1>9. CASE MapUbox \/ MapFails \/ MapDone \/ PciNewFails \/ MsrNewFails \/ MsrDone
           \/ ImcNewDevice \/ ImcNewFails \/ ImcDone \/ ProcCreate \/ Rmmod \/ ImcExit
           \/ PciExit
  BY <1>2, <1>9 DEF MapUbox, MapFails, MapDone, PciNewFails, MsrNewFails, MsrDone,
     ImcNewDevice, ImcNewFails, ImcDone, ProcCreate, Rmmod, ImcExit, PciExit, lists
<1>10. ASSUME NEW phase \in {"pci", "imc"}, NEW ids, NEW next \in {"pci_new", "imc_new"},
              Find(phase, ids, next), phase = "pci" <=> next = "pci_new"
       PROVE  MsrInv'
  BY <1>2, <1>10 DEF Find, lists
<1>11. ASSUME NEW phase \in {"pci", "imc"}, NEW ids, NextRow(phase, ids) PROVE MsrInv'
  BY <1>2, <1>11 DEF NextRow, lists
<1>12. ASSUME NEW d \in Unpluggable, Unplug(d) PROVE MsrInv'
  BY <1>2, <1>12 DEF Unplug, lists
<1>13. CASE UNCHANGED vars
  BY <1>2, <1>13 DEF vars, lists
<1> QED
  BY <1>4, <1>5, <1>6, <1>7, <1>8, <1>9, <1>10, <1>11, <1>12, <1>13
     DEF Next, PciInit, CpuImcInit, Exit

\* No two MSR boxes of any machine share a register, and there are no more C boxes
\* than cores (uncore_hswep.c:95-122, 285-342, uncore_pmu.c:454-470, 590-603).
THEOREM MsrsApartHolds == Spec => []MsrsApart
<1>1. WalkInv /\ ListType /\ EmptyInv /\ MsrInv /\ [Next]_vars => MsrInv'
  BY MsrStep
<1>2. ListType /\ MsrInv => MsrsApart
  <2> SUFFICES ASSUME ListType, MsrInv PROVE MsrsApart
    OBVIOUS
  <2> DEFINE places == UNION {{t} \X DOMAIN msrBoxes[t] : t \in ToSet(MsrType)}
  <2>1. ASSUME NEW p \in places
        PROVE  /\ p[1] \in ToSet(MsrType) /\ p[2] \in DOMAIN msrBoxes[p[1]]
               /\ p = <<p[1], p[2]>>
    OBVIOUS
  <2>2. ASSUME NEW t \in ToSet(MsrType), NEW i \in DOMAIN msrBoxes[t]
        PROVE  msrBoxes[t][i] = i - 1 /\ i - 1 \in 0 .. StaticBoxes[t] - 1 /\ i \in Nat
    <3>1. msrBoxes[t] \in Seq(Nat) /\ num_boxes[t] \in Nat /\ StaticBoxes[t] \in Nat
      <4>1. t \in DOMAIN StaticBoxes /\ StaticBoxes[t] \in Nat
        BY MsrTypes DEF StaticBoxes
      <4> QED
        BY <4>1 DEF ListType
    <3>2. Len(msrBoxes[t]) \in Nat /\ i \in 1 .. Len(msrBoxes[t])
      BY <3>1, LenProperties
    <3>3. /\ num_boxes[t] <= StaticBoxes[t] /\ Len(msrBoxes[t]) <= num_boxes[t]
          /\ msrBoxes[t][i] = i - 1
      BY DEF MsrInv
    <3> QED
      BY <3>1, <3>2, <3>3
  <2>3. ASSUME NEW p \in places, NEW q \in places, p # q
        PROVE  MsrsOf(p[1], msrBoxes[p[1]][p[2]]) \cap MsrsOf(q[1], msrBoxes[q[1]][q[2]])
                  = {}
    <3>1. PICK t \in ToSet(MsrType), i \in Nat :
             /\ t = p[1] /\ i = p[2] /\ p = <<t, i>> /\ msrBoxes[p[1]][p[2]] = i - 1
             /\ i - 1 \in 0 .. StaticBoxes[t] - 1
      BY <2>1, <2>2
    <3>2. PICK u \in ToSet(MsrType), j \in Nat :
             /\ u = q[1] /\ j = q[2] /\ q = <<u, j>> /\ msrBoxes[q[1]][q[2]] = j - 1
             /\ j - 1 \in 0 .. StaticBoxes[u] - 1
      BY <2>1, <2>2
    <3>3. t # u \/ i - 1 # j - 1
      BY <2>3, <3>1, <3>2
    <3>4. MsrsOf(t, i - 1) \cap MsrsOf(u, j - 1) = {}
      BY <3>1, <3>2, <3>3, RangesApart
    <3> QED
      BY <3>1, <3>2, <3>4
  <2>4. pc = "live" => Len(msrBoxes["C"]) <= MaxCores
    <3>1. "C" \in ToSet(MsrType)
      BY MsrTypes
    <3>2. msrBoxes["C"] \in Seq(Nat) /\ num_boxes["C"] \in Nat /\ MaxCores \in Nat
      BY <3>1, UncoreBoxesAssumption DEF ListType, StaticBoxes
    <3>3. Len(msrBoxes["C"]) \in Nat
      BY <3>2, LenProperties
    <3> QED
      BY <3>1, <3>2, <3>3 DEF MsrInv
  <2> QED
    BY <2>3, <2>4 DEF MsrsApart
<1> QED
  BY <1>1, <1>2, MsrInit, ListsHold, PTL DEF Spec
=============================================================================
