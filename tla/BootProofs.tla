------------------------------- MODULE BootProofs -------------------------------
(***************************************************************************)
(* The boot sequence is a client of pmm.c like any other: every behaviour  *)
(* of Boot.tla is one of PMM.tla, so what PMMProofs shows for any sequence *)
(* of calls holds while the kernel boots, for every boot loader:           *)
(*                                                                         *)
(*   BootIsPMMClient   BootSpec implies PMM's Spec                         *)
(*   BootKeepsPages    what PMMProofs shows, while the kernel boots        *)
(*   BootRefinement    page tables and heap get the abstract allocator's   *)
(*                     pages                                               *)
(*   BootTypes         BootTypeOK                                          *)
(*   TypesListedApart  ListedApart                                         *)
(*   PagesStayApart    PagesApart, if the boot loader is Sound             *)
(*   NoOtherFault      FaultsOnlyUnanswered, if the boot loader is Sound   *)
(*                                                                         *)
(* The last four follow from PMM's invariant and StartInv: how far _start, *)
(* the allocator and the page tables are at each stage (StageInv) and who  *)
(* has which pages (PagesInv); the last one needs also what the page       *)
(* tables map where (SpaceInv) and that they map every range that vmm_init *)
(* has been through (CoverInv).                                            *)
(***************************************************************************)
EXTENDS Boot, PMMProofs, FiniteSetTheorems, SequenceTheorems

\* The steps of _start in which the CPU is not in pmm.c.
LEMMA OutsidePMM ==
  ASSUME \/ start_early \/ check_bl_supported \/ print_bl_info \/ print_firmware
         \/ print_addresses \/ print_memmap_entry \/ print_memmap_end
         \/ arch_init_early \/ vmm_map \/ next_range \/ vmm_switch \/ start_late
         \/ Fault \/ BootHalted
  PROVE  UNCHANGED vars
<1>1. CASE \/ start_early \/ check_bl_supported \/ print_bl_info \/ print_firmware
           \/ print_addresses \/ print_memmap_entry \/ print_memmap_end \/ start_late
  BY <1>1 DEF start_early, check_bl_supported, print_bl_info, print_firmware,
              print_addresses, print_memmap_entry, print_memmap_end, start_late, Goes
<1>2. CASE \/ arch_init_early \/ vmm_map \/ next_range \/ vmm_switch \/ Fault \/ BootHalted
  BY <1>2 DEF arch_init_early, vmm_map, next_range, vmm_switch, Fault, BootHalted, allVars
<1> QED BY <1>1, <1>2

\* The calls of pmm_alloc: for one page by the page tables, for the initial
\* heap by kheap_init; and their returns.
LEMMA Calls ==
  ASSUME vmm_new_pt \/ page_from_index \/ kheap_init
  PROVE  (\E n \in Requests : pmm_alloc(n)) \/ UNCHANGED vars
<1>1. 1 \in Requests /\ KHEAP_INIT_PAGES \in Requests
  BY BootAssumption
<1>2. CASE vmm_new_pt
  BY <1>1, <1>2 DEF vmm_new_pt, CallAlloc
<1>3. CASE page_from_index
  BY <1>1, <1>3 DEF page_from_index, CallAlloc
<1>4. CASE kheap_init
  BY <1>1, <1>4 DEF kheap_init, CallAlloc
<1> QED BY <1>2, <1>3, <1>4

\* Every step of the boot sequence is a step of pmm.c or leaves it alone.
LEMMA BootStepIsPMMStep == [BootNext]_allVars => [Next]_vars
<1> SUFFICES ASSUME [BootNext]_allVars PROVE Next \/ UNCHANGED vars
  OBVIOUS
<1>1. CASE start_pmm
  BY <1>1 DEF start_pmm, Next
<1>2. CASE alloc_step
  BY <1>2 DEF alloc_step, Next
<1>3. CASE vmm_new_pt \/ page_from_index \/ kheap_init
  BY <1>3, Calls DEF Next
<1>4. CASE UNCHANGED allVars
  BY <1>4 DEF allVars
<1> QED BY <1>1, <1>2, <1>3, <1>4, OutsidePMM DEF BootNext, BootStep

\* The boot sequence, from the boot loader to the halt, uses the page frame
\* allocator only in ways that PMM.tla allows its callers.
THEOREM BootIsPMMClient == BootSpec => Spec
<1>1. BootInit => Init
  BY DEF BootInit
<1> QED BY <1>1, BootStepIsPMMStep, PTL DEF BootSpec, Spec

\* The kernel boots without a call of pmm_free.
LEMMA NothingFreed == FreesFit
BY BootAssumption DEF FreesFit

\* While the kernel boots, whatever the boot loader left behind, pmm.c keeps
\* its types, hands no page out twice, loses none, fails no bound check after
\* pmm_init, and its bitmap is not overwritten.
THEOREM BootKeepsPages ==
  BootSpec => [](TypeOK /\ Conservation /\ NoLateAssert /\ BitmapIntact)
BY BootIsPMMClient, NothingFreed, TypeCorrect, Safety, PTL

\* The pages that the page tables and the initial heap get are the ones the
\* abstract allocator would give them.
THEOREM BootRefinement == BootSpec => ImplementsAllocator
BY BootIsPMMClient, NothingFreed, Refinement, PTL

-----------------------------------------------------------------------------
(***************************************************************************)
(* The inductive invariant.                                                *)
(***************************************************************************)
Early == {"gdt", "serial", "supported", "blinfo", "firmware", "hhdm", "kernel", "memmap",
          "pmm"}

Late == {"newpt", "vmm", "kheap", "late", "done"}

\* The variables of _start have their types.
StartTypes ==
  /\ limine \in Loaders /\ memmap = MemMapOf(limine)
  /\ stage \in Stages
  /\ idt \in BOOLEAN /\ cr3 \in {"loader", "kernel"}
  /\ want \in {"nothing", "root", "table", "heap"}
  /\ DOMAIN tables \subseteq (1 .. 4) \X Nat /\ IsFiniteSet(DOMAIN tables)
  /\ DOMAIN space \subseteq Nat
  /\ range \in 1 .. (Len(memmap) + 2) /\ off \in Nat
  /\ heap \subseteq Nat

\* How far the allocator, the IDT, the switch of page tables and the running
\* pmm_alloc are at each stage.
StageInv ==
  /\ stage \in Early => pc = "boot"
  /\ stage \in Early \cup {"idt"} => idt = FALSE
  /\ stage \in Late => idt = TRUE
  /\ stage \in Early \cup {"idt", "newpt"} =>
       DOMAIN tables = {} /\ DOMAIN space = {} /\ range = 1 /\ off = 0
  /\ stage \in Early \cup {"idt", "newpt", "vmm"} => cr3 = "loader"
  /\ stage \in Early \cup {"idt", "newpt", "vmm", "kheap"} => heap = {}
  /\ cr3 = "kernel" => range = Len(memmap) + 2
  /\ stage = "idt" \/ stage \in Late => pc \in {"idle", "scan", "mark"}
  /\ stage \in Early \cup {"idt", "late", "done"} => want = "nothing"
  /\ stage = "newpt" => want \in {"nothing", "root"}
  /\ stage = "vmm" => want \in {"nothing", "table"}
  /\ stage = "kheap" => want \in {"nothing", "heap"}
  /\ stage = "vmm" /\ want = "table" => InRange /\ Missing(Virtual) # {}

\* The pages that the callers of pmm_alloc have taken over, and the ones that
\* it has found for them or is about to return.
Held == TablePages \cup heap

Found == base .. (base + pages - 1)

Returning == want # "nothing" /\ pc \in {"mark", "idle"}

PagesInv ==
  /\ pc # "clear"
  /\ want = "nothing" => pc \notin {"scan", "mark"}
  /\ want \in {"root", "table"} => pages = 1
  /\ want = "heap" => pages = KHEAP_INIT_PAGES
  /\ ~Returning => owned = Held
  /\ Returning => owned = Held \cup Found /\ Held \cap Found = {}
  /\ TablePages \cap heap = {}
  /\ Cardinality(TablePages) = Cardinality(DOMAIN tables)

\* Where the kernel runs.
KernelVirtual == PagesTouched(limine.kernel.va, limine.kernel.file)

\* Every page that is mapped is mapped to the frame that it is meant for.
SpaceInv ==
  \A v \in DOMAIN space :
    space[v] = IF v \in KernelVirtual
               THEN v - PageOf(limine.kernel.va) + PageOf(limine.kernel.pa)
               ELSE v - PageOf(HHDM)

\* MappedRange, and the virtual pages of the first size bytes of a range, as
\* functions of what they depend on.
RangeOf(mm, l, n) ==
  IF n \in DOMAIN mm
  THEN [pa |-> Shifted(mm[n]).base, va |-> Shifted(mm[n]).base + HHDM,
        size |-> Shifted(mm[n]).length]
  ELSE [pa |-> l.kernel.pa, va |-> l.kernel.va, size |-> l.kernel.file]

UpTo(mm, l, n, size) ==
  {PageOf(RangeOf(mm, l, n).va + PAGE_SIZE * k) : k \in {j \in Nat : PAGE_SIZE * j < size}}

\* The ranges that vmm_init has been through are mapped, and the current one
\* up to the offset.
CoverInv ==
  /\ \A n \in 1 .. (range - 1) :
       UpTo(memmap, limine, n, RangeOf(memmap, limine, n).size) \subseteq DOMAIN space
  /\ range <= Len(memmap) + 1 => UpTo(memmap, limine, range, off) \subseteq DOMAIN space
  /\ off % PAGE_SIZE = 0

\* The bitmap is never put into page 0.
BitmapPageInv == bitmapSize > 0 => bitmapPhys >= PAGE_SIZE

\* The names that have been printed are those of the first entries.
TypeNames == {boot_proto_memmap_type_to_str(memmap[i].type) : i \in DOMAIN memmap}

ListInv ==
  /\ listed \in Seq(TypeNames) /\ Len(listed) <= Len(memmap)
  /\ \A i \in DOMAIN listed : listed[i] = boot_proto_memmap_type_to_str(memmap[i].type)

\* What Limine promises of the addresses it hands out, and vmm_init takes for
\* granted: the direct map and the kernel start on pages, the reclaimable
\* memory that holds stack and answers too, and not at address 0; the kernel
\* does not run inside the direct map; its image and the reclaimable memory
\* are not usable.
Sound(l) ==
  /\ HHDM % PAGE_SIZE = 0
  /\ l.kernel.va % PAGE_SIZE = 0 /\ l.kernel.pa % PAGE_SIZE = 0
  /\ \A i \in DOMAIN l.entries :
       l.entries[i].type = LimineReclaimable =>
         /\ l.entries[i].base % PAGE_SIZE = 0 /\ l.entries[i].length % PAGE_SIZE = 0
         /\ l.entries[i].base # 0
  /\ \A i \in DOMAIN l.entries : \A p \in FramesOf(l.entries[i]) :
       p + PageOf(HHDM) \notin PagesTouched(l.kernel.va, l.kernel.file)
  /\ \A i \in DOMAIN l.entries :
       l.entries[i].type = LimineUsable =>
         /\ FramesOf(l.entries[i]) \cap PagesTouched(l.kernel.pa, l.kernel.image) = {}
         /\ \A j \in DOMAIN l.entries :
              l.entries[j].type = LimineReclaimable =>
                FramesOf(l.entries[i]) \cap FramesOf(l.entries[j]) = {}

SoundLoaders == \A l \in Loaders : Sound(l)

-----------------------------------------------------------------------------
(***************************************************************************)
(* What the boot loader left.                                              *)
(***************************************************************************)

\* Limine's memory map, and what boot_proto_memmap_entry_get makes of it.
LEMMA LoaderTypes ==
  ASSUME NEW l \in Loaders
  PROVE  /\ l \in LoaderStates /\ MemMapOf(l) \in MemMaps
         /\ l.kernel.pa \in Nat /\ l.kernel.va \in Nat /\ l.kernel.image \in Nat
         /\ l.kernel.file \in Nat /\ l.kernel.image <= l.kernel.file
<1>1. l \in LoaderStates /\ MemMapOf(l) \in MemMaps /\ l.kernel.image <= l.kernel.file
  BY BootAssumption
<1>2. l.kernel \in Kernels
  BY <1>1 DEF LoaderStates
<1> QED BY <1>1, <1>2 DEF Kernels

LEMMA MapEntries ==
  ASSUME NEW l \in Loaders
  PROVE  /\ Len(l.entries) \in Nat /\ DOMAIN l.entries = 1 .. Len(l.entries)
         /\ DOMAIN MemMapOf(l) = DOMAIN l.entries
         /\ Len(MemMapOf(l)) = Len(l.entries)
         /\ \A i \in DOMAIN l.entries :
              /\ l.entries[i].base \in Nat /\ l.entries[i].length \in Nat
              /\ l.entries[i].type \in Nat
              /\ MemMapOf(l)[i].base = l.entries[i].base
              /\ MemMapOf(l)[i].length = l.entries[i].length
              /\ MemMapOf(l)[i].type = IF l.entries[i].type \in LimineTypes
                                       THEN TypeTable[l.entries[i].type + 1]
                                       ELSE "BOOT_PROTO_MEMMAP_UNKNOWN"
<1> DEFINE E == [base : Nat, length : Nat, type : Nat]
<1>1. l.entries \in Seq(E)
  BY LoaderTypes DEF LoaderStates
<1>2. Len(l.entries) \in Nat /\ DOMAIN l.entries = 1 .. Len(l.entries)
  BY <1>1
<1>3. ASSUME NEW i \in DOMAIN l.entries
      PROVE  /\ l.entries[i].base \in Nat /\ l.entries[i].length \in Nat
             /\ l.entries[i].type \in Nat
  <2>1. l.entries[i] \in E
    <3> HIDE DEF E
    <3> QED BY <1>1, <1>2
  <2> QED BY <2>1
<1>4. DOMAIN MemMapOf(l) = DOMAIN l.entries
  BY DEF MemMapOf
<1>5. Len(MemMapOf(l)) = Len(l.entries)
  <2>1. MemMapOf(l) \in MemMaps
    BY LoaderTypes
  <2>2. Len(MemMapOf(l)) \in Nat /\ DOMAIN MemMapOf(l) = 1 .. Len(MemMapOf(l))
    BY <2>1, EntryIndex
  <2> QED BY <1>2, <1>4, <2>2
<1>6. ASSUME NEW i \in DOMAIN l.entries
      PROVE  /\ MemMapOf(l)[i].base = l.entries[i].base
             /\ MemMapOf(l)[i].length = l.entries[i].length
             /\ MemMapOf(l)[i].type = IF l.entries[i].type \in LimineTypes
                                      THEN TypeTable[l.entries[i].type + 1]
                                      ELSE "BOOT_PROTO_MEMMAP_UNKNOWN"
  BY DEF MemMapOf, boot_proto_memmap_entry_get
<1> QED BY <1>2, <1>3, <1>4, <1>5, <1>6

\* boot_proto.c calls the same entries usable as Limine.
LEMMA UsableIsUsable ==
  ASSUME NEW l \in Loaders, NEW i \in DOMAIN l.entries
  PROVE  MemMapOf(l)[i].type = USABLE <=> l.entries[i].type = LimineUsable
<1> DEFINE t == l.entries[i].type
<1>1. t \in Nat
  BY MapEntries
<1>2. MemMapOf(l)[i].type = IF t \in LimineTypes THEN TypeTable[t + 1]
                            ELSE "BOOT_PROTO_MEMMAP_UNKNOWN"
  BY MapEntries
<1> HIDE DEF t
<1>3. CASE t \notin LimineTypes
  BY <1>2, <1>3 DEF LimineTypes, LimineUsable, USABLE, t
<1>4. CASE t \in LimineTypes
  BY <1>1, <1>2, <1>4 DEF LimineTypes, TypeTable, LimineUsable, USABLE, t
<1> QED BY <1>3, <1>4

-----------------------------------------------------------------------------
(***************************************************************************)
(* What steps leave alone.                                                 *)
(***************************************************************************)

\* The answers of the boot loader and the memory map are never written.
LEMMA FixedStep ==
  ASSUME [BootNext]_allVars
  PROVE  limine' = limine /\ memmap' = memmap
<1>1. memmap' = memmap
  <2>1. [Next]_vars
    BY BootStepIsPMMStep
  <2>2. CASE pmm_init \/ pmm_init_assert \/ Halted \/ UNCHANGED vars
    BY <2>2 DEF pmm_init, pmm_init_assert, Halted, initVars, vars
  <2>3. CASE Step
    BY <2>3 DEF Step, ScanUsed, ScanFree, ScanPanic, MarkPage, MarkDone, ClearPage, ClearDone,
                initVars
  <2>4. CASE \/ \E n \in Requests : pmm_alloc(n)
             \/ \E p \in owned, n \in Frees : pmm_free(p * PAGE_SIZE, n)
             \/ \E p \in owned : OwnerWrite(p)
    BY <2>4 DEF pmm_alloc, pmm_free, OwnerWrite, initVars
  <2> QED BY <2>1, <2>2, <2>3, <2>4 DEF Next
<1>2. limine' = limine
  <2>1. CASE Fault \/ BootHalted \/ UNCHANGED allVars
    BY <2>1 DEF Fault, BootHalted, allVars, bootVars
  <2>2. CASE \/ start_early \/ check_bl_supported \/ print_bl_info \/ print_firmware
             \/ print_addresses \/ print_memmap_entry \/ print_memmap_end \/ start_late
    BY <2>2 DEF start_early, check_bl_supported, print_bl_info, print_firmware,
                print_addresses, print_memmap_entry, print_memmap_end, start_late, Goes
  <2>3. CASE start_pmm \/ arch_init_early \/ alloc_step
    BY <2>3 DEF start_pmm, arch_init_early, alloc_step
  <2>4. CASE vmm_new_pt \/ page_from_index \/ kheap_init
    BY <2>4 DEF vmm_new_pt, page_from_index, kheap_init, CallAlloc
  <2>5. CASE vmm_map \/ next_range \/ vmm_switch
    BY <2>5 DEF vmm_map, next_range, vmm_switch
  <2> QED BY <2>1, <2>2, <2>3, <2>4, <2>5 DEF BootNext, BootStep
<1> QED BY <1>1, <1>2

\* A missing table lies on a level and at a position.
LEMMA MissingTypes ==
  ASSUME NEW v \in Nat
  PROVE  Missing(v) \subseteq (1 .. 4) \X Nat
<1>1. \A l \in 2 .. 4 : TableSpan[l] \in Nat \ {0}
  <2>1. ENTRIES \in Nat \ {0}
    BY BootAssumption
  <2>2. ENTRIES * ENTRIES \in Nat \ {0}
    BY <2>1
  <2>3. ENTRIES * ENTRIES * ENTRIES \in Nat \ {0}
    BY <2>1, <2>2
  <2> QED BY <2>1, <2>2, <2>3 DEF TableSpan
<1>2. \A l \in 2 .. 4 : TableAt(l, v) \in (1 .. 4) \X Nat
  <2> SUFFICES ASSUME NEW l \in 2 .. 4 PROVE TableAt(l, v) \in (1 .. 4) \X Nat
    OBVIOUS
  <2>1. v \div TableSpan[l] \in Nat
    BY <1>1, DivMod
  <2> QED BY <2>1 DEF TableAt
<1> QED BY <1>2 DEF Missing

\* There is a topmost one among the missing tables.
LEMMA TopMostIn ==
  ASSUME NEW S \in SUBSET ((1 .. 4) \X Nat), S # {}
  PROVE  TopMost(S) \in S
<1> DEFINE L == {t[1] : t \in S}
<1>1. L \in SUBSET Nat /\ L # {}
  OBVIOUS
<1>2. PICK x \in L : \A y \in L : x <= y
  <2> HIDE DEF L
  <2> QED BY <1>1, Least
<1>3. \E t \in S : \A u \in S : t[1] <= u[1]
  BY <1>2
<1> QED BY <1>3 DEF TopMost

\* Every range starts at addresses and has a length.
LEMMA RangeTypes ==
  ASSUME StartTypes, NEW n \in 1 .. (Len(memmap) + 1)
  PROVE  /\ MappedRange(n).pa \in Nat /\ MappedRange(n).va \in Nat
         /\ MappedRange(n).size \in Nat
<1>1. /\ limine.kernel.pa \in Nat /\ limine.kernel.va \in Nat /\ limine.kernel.file \in Nat
      /\ memmap \in MemMaps
  BY LoaderTypes DEF StartTypes
<1>2. CASE n \notin DOMAIN memmap
  BY <1>1, <1>2 DEF MappedRange
<1>3. CASE n \in DOMAIN memmap
  <2> DEFINE e == memmap[n]
  <2>1. e \in MemMapEntries /\ HHDM \in Nat /\ PAGE_SIZE \in Nat
    BY <1>1, <1>3, PMMAssumption
  <2>2. Shifted(e).base \in Nat /\ Shifted(e).length \in Nat
    BY <2>1 DEF Shifted, MemMapEntries
  <2>3. MappedRange(n) = [pa |-> Shifted(e).base, va |-> Shifted(e).base + HHDM,
                          size |-> Shifted(e).length]
    BY <1>3 DEF MappedRange
  <2> HIDE DEF e
  <2> QED BY <2>1, <2>2, <2>3
<1> QED BY <1>2, <1>3

LEMMA VirtualType ==
  ASSUME StartTypes, range <= Len(memmap) + 1
  PROVE  Virtual \in Nat /\ MappedRange(range).pa + off \in Nat
<1>1. range \in 1 .. (Len(memmap) + 1) /\ off \in Nat
  <2>1. memmap \in MemMaps
    BY LoaderTypes DEF StartTypes
  <2>2. Len(memmap) \in Nat
    BY <2>1, EntryIndex
  <2> QED BY <2>2 DEF StartTypes
<1>2. MappedRange(range).va + off \in Nat /\ MappedRange(range).pa + off \in Nat
  BY <1>1, RangeTypes
<1> QED BY <1>2, PMMAssumption, DivMod DEF Virtual, PageOf

-----------------------------------------------------------------------------
(***************************************************************************)
(* The stages of _start.                                                   *)
(***************************************************************************)
StagePart == StartTypes /\ StageInv

\* The sequence may end at any point.
LEMMA EndStep ==
  ASSUME StagePart, stage' \in {"panic", "fault", "reset"},
         UNCHANGED <<limine, memmap, idt, cr3, tables, space, range, off, want, heap>>
  PROVE  StagePart'
<1>1. StartTypes'
  BY DEF StagePart, StartTypes, Stages
<1>2. StageInv'
  BY DEF StagePart, StageInv, Early, Late
<1> QED BY <1>1, <1>2 DEF StagePart

\* Where nothing changes.
LEMMA StageStutter ==
  ASSUME StagePart, UNCHANGED <<limine, memmap, stage, idt, cr3, tables, space, range, off,
                                want, heap>>,
         pc' = pc \/ (pc \in {"scan", "mark"} /\ pc' \in {"scan", "mark", "idle"})
  PROVE  StagePart'
<1>1. StartTypes'
  BY DEF StagePart, StartTypes
<1>2. /\ InRange' = InRange /\ Virtual' = Virtual /\ Missing(Virtual)' = Missing(Virtual)
  BY DEF InRange, Virtual, Missing, MappedRange
<1>3. StageInv'
  BY <1>2 DEF StagePart, StageInv, Early, Late
<1> QED BY <1>1, <1>3 DEF StagePart

\* Before pmm_init nothing but the stage and the output changes.
LEMMA EarlyStep ==
  ASSUME StagePart,
         \/ start_early \/ check_bl_supported \/ print_bl_info \/ print_firmware
         \/ print_addresses \/ print_memmap_entry \/ print_memmap_end
  PROVE  StagePart'
<1>1. /\ UNCHANGED <<vars, limine, idt, vmmVars, want, heap>>
      /\ stage \in Early /\ stage' \in Early \cup {"panic"}
  BY DEF start_early, check_bl_supported, print_bl_info, print_firmware,
         print_addresses, print_memmap_entry, print_memmap_end, Goes, Early
<1>2. UNCHANGED <<pc, limine, memmap, idt, cr3, tables, space, range, off, want, heap>>
  BY <1>1 DEF vars, vmmVars
<1>3. CASE stage' = "panic"
  BY <1>2, <1>3, EndStep
<1>4. CASE stage' \in Early
  <2>1. StartTypes'
    BY <1>2, <1>4 DEF StagePart, StartTypes, Stages, Early
  <2>2. StageInv'
    BY <1>1, <1>2, <1>4 DEF StagePart, StageInv, Early, Late
  <2> QED BY <2>1, <2>2 DEF StagePart
<1> QED BY <1>1, <1>3, <1>4

\* pmm_init, and the IDT.
LEMMA MiddleStep ==
  ASSUME StagePart, start_pmm \/ arch_init_early
  PROVE  StagePart'
<1>1. CASE arch_init_early
  <2>1. /\ UNCHANGED <<pc, limine, memmap, cr3, tables, space, range, off, want, heap>>
        /\ stage = "idt" /\ stage' = "newpt" /\ idt' = TRUE
    BY <1>1 DEF arch_init_early, vars, vmmVars
  <2>2. StartTypes'
    BY <2>1 DEF StagePart, StartTypes, Stages
  <2>3. StageInv'
    BY <2>1 DEF StagePart, StageInv, Early, Late
  <2> QED BY <2>2, <2>3 DEF StagePart
<1>2. CASE start_pmm
  <2>1. /\ UNCHANGED <<limine, memmap, idt, cr3, tables, space, range, off, want, heap>>
        /\ stage = "pmm" /\ (stage' = "panic" \/ (stage' = "idt" /\ pc' = "idle"))
    <3>1. /\ UNCHANGED <<limine, idt, vmmVars, want, heap>>
          /\ \/ pmm_init /\ stage' = "idt"
             \/ pmm_init_assert /\ stage' = "panic"
          /\ stage = "pmm"
      BY <1>2 DEF start_pmm
    <3>2. pmm_init => memmap' = memmap /\ pc' = "idle"
      BY DEF pmm_init
    <3>3. pmm_init_assert => memmap' = memmap
      BY DEF pmm_init_assert, initVars
    <3>4. UNCHANGED <<idt, cr3, tables, space, range, off, want, heap>>
      BY <3>1 DEF vmmVars
    <3>5. limine' = limine /\ memmap' = memmap
      BY <3>1, <3>2, <3>3
    <3>6. UNCHANGED <<limine, memmap, idt, cr3, tables, space, range, off, want, heap>>
      BY <3>4, <3>5
    <3> QED BY <3>1, <3>2, <3>6
  <2>2. CASE stage' = "panic"
    BY <2>1, <2>2, EndStep
  <2>3. CASE stage' = "idt" /\ pc' = "idle"
    <3>1. StartTypes'
      BY <2>1, <2>3 DEF StagePart, StartTypes, Stages
    <3>2. StageInv'
      BY <2>1, <2>3 DEF StagePart, StageInv, Early, Late
    <3> QED BY <3>1, <3>2 DEF StagePart
  <2> QED BY <2>1, <2>2, <2>3
<1> QED BY <1>1, <1>2

\* The loops of pmm_alloc.
LEMMA LoopStep ==
  ASSUME StagePart, alloc_step, ~Ended, NoLateAssert'
  PROVE  StagePart'
<1>1. /\ UNCHANGED <<limine, memmap, idt, cr3, tables, space, range, off, want, heap>>
      /\ stage' = IF pc' \in {"panic", "assert"} THEN "panic" ELSE stage
  <2>1. memmap' = memmap
    BY DEF alloc_step, Step, ScanUsed, ScanFree, ScanPanic, MarkPage, MarkDone, ClearPage,
           ClearDone, initVars
  <2> QED BY <2>1 DEF alloc_step, vmmVars
<1>2. pc \in {"scan", "mark", "clear"} /\ pc' \in {"scan", "mark", "clear", "idle", "panic",
                                                 "assert", "fault"}
  BY DEF alloc_step, Step, ScanUsed, ScanFree, ScanPanic, MarkPage, MarkDone, ClearPage,
         ClearDone
<1>3. pc \in {"scan", "mark"}
  <2>1. stage \in Stages
    BY DEF StagePart, StartTypes
  <2> QED BY <1>2, <2>1 DEF StagePart, StageInv, Ended, Stages, Early, Late
<1>4. pc' \in {"scan", "mark", "idle", "panic"}
  <2>1. ~ClearPage /\ ~ClearDone
    BY <1>3 DEF ClearPage, ClearDone
  <2>2. pc' # "assert"
    BY DEF NoLateAssert
  <2>3. pc' \notin {"clear", "fault"}
    BY <1>3, <2>1 DEF alloc_step, Step, ScanUsed, ScanFree, ScanPanic, MarkPage, MarkDone
  <2> QED BY <1>2, <2>2, <2>3
<1>5. CASE pc' = "panic"
  BY <1>1, <1>5, EndStep
<1>6. CASE pc' # "panic"
  BY <1>1, <1>3, <1>4, <1>6, StageStutter
<1> QED BY <1>5, <1>6

\* The first page table.
LEMMA RootStep ==
  ASSUME StagePart, vmm_new_pt
  PROVE  StagePart'
<1>1. CASE stage = "newpt" /\ CallAlloc(1, "root")
  <2>1. /\ UNCHANGED <<limine, memmap, stage, idt, cr3, tables, space, range, off, heap>>
        /\ want' = "root" /\ pc' = "scan"
    BY <1>1 DEF CallAlloc, pmm_alloc, initVars, vmmVars
  <2>2. StartTypes'
    BY <1>1, <2>1 DEF StagePart, StartTypes
  <2>3. StageInv'
    BY <1>1, <2>1 DEF StagePart, StageInv, Early, Late
  <2> QED BY <2>2, <2>3 DEF StagePart
<1>2. CASE ~(stage = "newpt" /\ CallAlloc(1, "root"))
  <2>1. /\ UNCHANGED <<pc, limine, memmap, idt, cr3, space, range, off, heap>>
        /\ stage = "newpt" /\ want' = "nothing" /\ stage' = "vmm"
        /\ AddTable(<<1, 0>>)
    BY <1>2 DEF vmm_new_pt, Got, vars
  <2>2. DOMAIN tables' = {<<1, 0>>}
    BY <2>1 DEF AddTable, StagePart, StageInv
  <2>3. IsFiniteSet(DOMAIN tables')
    BY <2>2, FS_Singleton
  <2>4. DOMAIN tables' \subseteq (1 .. 4) \X Nat
    BY <2>2
  <2>5. StartTypes'
    BY <2>1, <2>3, <2>4 DEF StagePart, StartTypes, Stages
  <2>6. StageInv'
    BY <2>1 DEF StagePart, StageInv, Early, Late
  <2> QED BY <2>5, <2>6 DEF StagePart
<1> QED BY <1>1, <1>2

\* The tables further down.
LEMMA TableStep ==
  ASSUME StagePart, page_from_index
  PROVE  StagePart'
<1>1. CASE stage = "vmm" /\ InRange /\ Missing(Virtual) # {} /\ CallAlloc(1, "table")
  <2>1. /\ UNCHANGED <<limine, memmap, stage, idt, cr3, tables, space, range, off, heap>>
        /\ want' = "table" /\ pc' = "scan"
    BY <1>1 DEF CallAlloc, pmm_alloc, initVars, vmmVars
  <2>2. StartTypes'
    BY <1>1, <2>1 DEF StagePart, StartTypes
  <2>3. InRange' /\ Missing(Virtual)' # {}
    <3>1. InRange' = InRange /\ Missing(Virtual)' = Missing(Virtual)
      BY <2>1 DEF InRange, Virtual, Missing, MappedRange
    <3> QED BY <1>1, <3>1
  <2>4. StageInv'
    BY <1>1, <2>1, <2>3 DEF StagePart, StageInv, Early, Late
  <2> QED BY <2>2, <2>4 DEF StagePart
<1>2. CASE ~(stage = "vmm" /\ InRange /\ Missing(Virtual) # {} /\ CallAlloc(1, "table"))
  <2>1. /\ UNCHANGED <<pc, limine, memmap, stage, idt, cr3, space, range, off, heap>>
        /\ stage = "vmm" /\ want = "table" /\ want' = "nothing"
        /\ AddTable(TopMost(Missing(Virtual)))
    BY <1>2 DEF page_from_index, Got, vars
  <2>2. TopMost(Missing(Virtual)) \in (1 .. 4) \X Nat
    <3>1. Missing(Virtual) # {} /\ range <= Len(memmap) + 1
      BY <2>1 DEF StagePart, StageInv, InRange
    <3>2. Missing(Virtual) \subseteq (1 .. 4) \X Nat
      BY <3>1, VirtualType, MissingTypes DEF StagePart
    <3> QED BY <3>1, <3>2, TopMostIn
  <2>3. DOMAIN tables' = DOMAIN tables \cup {TopMost(Missing(Virtual))}
    BY <2>1 DEF AddTable
  <2>4. IsFiniteSet(DOMAIN tables')
    <3>1. IsFiniteSet(DOMAIN tables)
      BY DEF StagePart, StartTypes
    <3>2. IsFiniteSet(DOMAIN tables \cup {TopMost(Missing(Virtual))})
      BY <3>1, FS_AddElement
    <3> QED BY <2>3, <3>2
  <2>5. StartTypes'
    BY <2>1, <2>2, <2>3, <2>4 DEF StagePart, StartTypes
  <2>6. StageInv'
    BY <2>1 DEF StagePart, StageInv, Early, Late
  <2> QED BY <2>5, <2>6 DEF StagePart
<1> QED BY <1>1, <1>2

\* Pages and ranges are mapped, and the page tables are switched.
LEMMA MapStep ==
  ASSUME StagePart, vmm_map \/ next_range \/ vmm_switch
  PROVE  StagePart'
<1>0. Len(memmap) \in Nat /\ range \in Nat
  <2>1. memmap \in MemMaps
    BY LoaderTypes DEF StagePart, StartTypes
  <2>2. Len(memmap) \in Nat
    BY <2>1, EntryIndex
  <2> QED BY <2>2 DEF StagePart, StartTypes
<1>1. CASE vmm_map
  <2>1. /\ UNCHANGED <<pc, limine, memmap, stage, idt, cr3, tables, range, want, heap>>
        /\ stage = "vmm" /\ want = "nothing" /\ off' = off + PAGE_SIZE
        /\ DOMAIN space' = DOMAIN space \cup {Virtual} /\ InRange
    BY <1>1 DEF vmm_map, vars
  <2>2. Virtual \in Nat
    BY <2>1, VirtualType DEF InRange, StagePart
  <2>3. StartTypes'
    BY <2>1, <2>2, PMMAssumption DEF StagePart, StartTypes
  <2>4. StageInv'
    BY <2>1 DEF StagePart, StageInv, Early, Late
  <2> QED BY <2>3, <2>4 DEF StagePart
<1>2. CASE next_range
  <2>1. /\ UNCHANGED <<pc, limine, memmap, stage, idt, cr3, tables, space, want, heap>>
        /\ stage = "vmm" /\ off' = 0 /\ ~InRange
        /\ range' = range + 1 /\ range <= Len(memmap) + 1
    BY <1>2 DEF next_range, vars
  <2>2. want = "nothing"
    BY <2>1 DEF StagePart, StageInv
  <2>3. StartTypes'
    BY <1>0, <2>1 DEF StagePart, StartTypes
  <2>4. StageInv'
    BY <2>1, <2>2 DEF StagePart, StageInv, Early, Late
  <2> QED BY <2>3, <2>4 DEF StagePart
<1>3. CASE vmm_switch
  <2>1. /\ UNCHANGED <<pc, limine, memmap, idt, tables, space, range, off, want, heap>>
        /\ stage = "vmm" /\ range = Len(memmap) + 2 /\ cr3' = "kernel" /\ stage' = "kheap"
    BY <1>3 DEF vmm_switch, vars
  <2>2. ~InRange
    BY <1>0, <2>1 DEF InRange
  <2>3. want = "nothing"
    BY <2>1, <2>2 DEF StagePart, StageInv
  <2>4. StartTypes'
    BY <2>1 DEF StagePart, StartTypes, Stages
  <2>5. StageInv'
    BY <2>1, <2>3 DEF StagePart, StageInv, Early, Late
  <2> QED BY <2>4, <2>5 DEF StagePart
<1> QED BY <1>1, <1>2, <1>3

\* The heap, and the end.
LEMMA HeapStep ==
  ASSUME StagePart, IndInv, kheap_init \/ start_late
  PROVE  StagePart'
<1>1. CASE stage = "kheap" /\ CallAlloc(KHEAP_INIT_PAGES, "heap")
  <2>1. /\ UNCHANGED <<limine, memmap, stage, idt, cr3, tables, space, range, off, heap>>
        /\ want' = "heap" /\ pc' = "scan"
    BY <1>1 DEF CallAlloc, pmm_alloc, initVars, vmmVars
  <2>2. StartTypes'
    BY <1>1, <2>1 DEF StagePart, StartTypes
  <2>3. StageInv'
    BY <1>1, <2>1 DEF StagePart, StageInv, Early, Late
  <2> QED BY <2>2, <2>3 DEF StagePart
<1>2. CASE kheap_init /\ ~(stage = "kheap" /\ CallAlloc(KHEAP_INIT_PAGES, "heap"))
  <2>1. /\ UNCHANGED <<pc, limine, memmap, idt, cr3, tables, space, range, off>>
        /\ stage = "kheap" /\ want' = "nothing" /\ stage' = "late"
        /\ heap' = base .. (base + KHEAP_INIT_PAGES - 1)
    BY <1>2 DEF kheap_init, Got, vars, vmmVars
  <2>2. heap' \subseteq Nat
    <3>1. base \in Nat /\ KHEAP_INIT_PAGES \in Nat
      BY BootAssumption DEF IndInv, TypeOK
    <3> QED BY <2>1, <3>1
  <2>3. StartTypes'
    BY <2>1, <2>2 DEF StagePart, StartTypes, Stages
  <2>4. StageInv'
    BY <2>1 DEF StagePart, StageInv, Early, Late
  <2> QED BY <2>3, <2>4 DEF StagePart
<1>3. CASE start_late
  <2>1. /\ UNCHANGED <<pc, limine, memmap, idt, cr3, tables, space, range, off, want, heap>>
        /\ stage = "late" /\ stage' = "done"
    BY <1>3 DEF start_late, Goes, vars, vmmVars
  <2>2. StartTypes'
    BY <2>1 DEF StagePart, StartTypes, Stages
  <2>3. StageInv'
    BY <2>1 DEF StagePart, StageInv, Early, Late
  <2> QED BY <2>2, <2>3 DEF StagePart
<1> QED BY <1>1, <1>2, <1>3

\* Every step keeps the stages in order.
LEMMA StageStep ==
  ASSUME StagePart, IndInv, NoLateAssert', [BootNext]_allVars
  PROVE  StagePart'
<1>1. CASE Fault
  BY <1>1, EndStep DEF Fault, vars, vmmVars
<1>2. CASE BootHalted \/ UNCHANGED allVars
  <2>1. UNCHANGED vars /\ UNCHANGED bootVars
    BY <1>2 DEF BootHalted, allVars
  <2>2. pc' = pc /\ memmap' = memmap
    BY <2>1 DEF vars
  <2>3. UNCHANGED <<limine, stage, idt, cr3, tables, space, range, off, want, heap>>
    BY <2>1 DEF bootVars, vmmVars
  <2>4. UNCHANGED <<limine, memmap, stage, idt, cr3, tables, space, range, off, want, heap>>
    BY <2>2, <2>3
  <2> QED BY <2>2, <2>4, StageStutter
<1>3. CASE alloc_step /\ ~Ended
  BY <1>3, LoopStep
<1> QED BY <1>1, <1>2, <1>3, EarlyStep, MiddleStep, RootStep, TableStep, MapStep, HeapStep
        DEF BootNext, BootStep

-----------------------------------------------------------------------------
(***************************************************************************)
(* Who has which pages.                                                    *)
(***************************************************************************)

\* Most steps of _start neither take pages nor change what is running.
LEMMA PagesKept ==
  ASSUME PagesInv, UNCHANGED <<pc, base, pages, owned, tables, heap, want>>
  PROVE  PagesInv'
BY DEF PagesInv, Returning, Held, Found, TablePages

LEMMA PagesQuiet ==
  ASSUME PagesInv,
         \/ start_early \/ check_bl_supported \/ print_bl_info \/ print_firmware
         \/ print_addresses \/ print_memmap_entry \/ print_memmap_end
         \/ arch_init_early \/ vmm_map \/ next_range \/ vmm_switch \/ start_late
         \/ Fault \/ BootHalted \/ UNCHANGED allVars
  PROVE  PagesInv'
<1>1. UNCHANGED vars
  BY OutsidePMM DEF allVars
<1>2. UNCHANGED <<tables, heap, want>>
  <2>1. CASE Fault \/ BootHalted \/ UNCHANGED allVars
    BY <2>1 DEF Fault, BootHalted, allVars, bootVars, vmmVars
  <2>2. CASE \/ start_early \/ check_bl_supported \/ print_bl_info \/ print_firmware
             \/ print_addresses \/ print_memmap_entry \/ print_memmap_end \/ start_late
    BY <2>2 DEF start_early, check_bl_supported, print_bl_info, print_firmware,
                print_addresses, print_memmap_entry, print_memmap_end, start_late, Goes,
                vmmVars
  <2>3. CASE arch_init_early \/ vmm_map \/ next_range \/ vmm_switch
    BY <2>3 DEF arch_init_early, vmm_map, next_range, vmm_switch, vmmVars
  <2> QED BY <2>1, <2>2, <2>3
<1>3. UNCHANGED <<pc, base, pages, owned>>
  BY <1>1 DEF vars
<1>4. UNCHANGED <<pc, base, pages, owned, tables, heap, want>>
  BY <1>2, <1>3
<1> QED BY <1>4, PagesKept

\* pmm_init hands out nothing.
LEMMA PagesStart ==
  ASSUME StagePart, PagesInv, start_pmm
  PROVE  PagesInv'
<1>1. /\ UNCHANGED <<base, pages, owned>> /\ pc' \in {"idle", "initassert"}
      /\ UNCHANGED <<tables, heap, want>> /\ stage = "pmm"
  <2>1. UNCHANGED <<tables, heap, want>> /\ stage = "pmm" /\ (pmm_init \/ pmm_init_assert)
    BY DEF start_pmm, vmmVars
  <2>2. UNCHANGED <<base, pages, owned>> /\ pc' \in {"idle", "initassert"}
    BY <2>1 DEF pmm_init, pmm_init_assert, scanVars
  <2> QED BY <2>1, <2>2
<1>2. want = "nothing" /\ want' = "nothing"
  BY <1>1 DEF StagePart, StageInv, Early
<1>3. Held' = Held /\ TablePages' = TablePages
  BY <1>1 DEF Held, TablePages
<1> QED BY <1>1, <1>2, <1>3 DEF PagesInv, Returning

\* A call of pmm_alloc.
LEMMA PagesCall ==
  ASSUME PagesInv, NEW n, NEW what, CallAlloc(n, what),
         \/ what \in {"root", "table"} /\ n = 1
         \/ what = "heap" /\ n = KHEAP_INIT_PAGES
  PROVE  PagesInv'
<1>1. /\ want = "nothing" /\ want' = what /\ pc = "idle" /\ pc' = "scan" /\ pages' = n
      /\ UNCHANGED <<owned, tables, heap>>
  BY DEF CallAlloc, pmm_alloc, vmmVars
<1>2. Held' = Held /\ TablePages' = TablePages
  BY <1>1 DEF Held, TablePages
<1> QED BY <1>1, <1>2 DEF PagesInv, Returning

\* pmm_find_free_pages finds pages that nobody has.
LEMMA PagesLoop ==
  ASSUME PagesInv, IndInv, NoLateAssert', alloc_step
  PROVE  PagesInv'
<1>1. Step /\ UNCHANGED <<tables, heap, want>>
  BY DEF alloc_step, vmmVars
<1>2. Held' = Held /\ TablePages' = TablePages
  BY <1>1 DEF Held, TablePages
<1>3. ~ClearPage /\ ~ClearDone
  BY DEF PagesInv, ClearPage, ClearDone
<1>4. pages' = pages
  BY <1>1, <1>3 DEF Step, ScanUsed, ScanFree, ScanPanic, MarkPage, MarkDone, scanVars
<1>5. pc \in {"scan", "mark"} /\ want # "nothing"
  <2>1. pc \in {"scan", "mark"}
    BY <1>1, <1>3 DEF Step, ScanUsed, ScanFree, ScanPanic, MarkPage, MarkDone
  <2> QED BY <2>1 DEF PagesInv
<1>6. CASE ScanUsed \/ ScanPanic \/ (ScanFree /\ found' # pages)
  <2>1. pc = "scan" /\ pc' \in {"scan", "panic"} /\ owned' = owned
    BY <1>6 DEF ScanUsed, ScanPanic, ScanFree
  <2> QED BY <1>1, <1>2, <1>4, <1>5, <2>1 DEF PagesInv, Returning
<1>7. CASE ScanFree /\ found' = pages
  <2>1. pc = "scan" /\ pc' = "mark" /\ owned' = owned \cup Found'
    BY <1>4, <1>7 DEF ScanFree, Found
  <2>2. base' .. (base' + pages - 1) \subseteq FreeBits
    BY <1>7, FoundStep
  <2>3. Found' \subseteq FreeBits
    BY <1>4, <2>2 DEF Found
  <2>4. FreeBits \cap owned = {}
    BY <2>1, Apart
  <2>5. owned = Held
    BY <2>1 DEF PagesInv, Returning
  <2> QED BY <1>1, <1>2, <1>4, <1>5, <2>1, <2>3, <2>4, <2>5 DEF PagesInv, Returning
<1>8. CASE MarkPage \/ MarkDone
  <2>1. pc = "mark" /\ pc' \in {"mark", "idle"} /\ owned' = owned /\ base' = base
    BY <1>8 DEF MarkPage, MarkDone, scanVars, NoLateAssert
  <2>2. Found' = Found
    BY <1>4, <2>1 DEF Found
  <2> QED BY <1>1, <1>2, <1>4, <1>5, <2>1, <2>2 DEF PagesInv, Returning
<1> QED BY <1>1, <1>3, <1>6, <1>7, <1>8 DEF Step

\* The caller takes over the page for a table.
LEMMA PagesTable ==
  ASSUME StagePart, PagesInv, IndInv, NEW t, t \notin DOMAIN tables, AddTable(t),
         pc = "idle", want \in {"root", "table"}, want' = "nothing",
         UNCHANGED <<pc, base, pages, owned, heap>>
  PROVE  PagesInv'
<1>1. DOMAIN tables' = DOMAIN tables \cup {t} /\ TablePages' = TablePages \cup {base}
  BY DEF AddTable, TablePages
<1>2. owned = Held \cup Found /\ Held \cap Found = {} /\ pages = 1
  BY DEF PagesInv, Returning
<1>3. Found = {base}
  <2>1. base \in Nat
    BY DEF IndInv, TypeOK
  <2> QED BY <1>2, <2>1 DEF Found
<1>4. base \notin TablePages /\ base \notin heap
  BY <1>2, <1>3 DEF Held
<1>5. Cardinality(TablePages') = Cardinality(DOMAIN tables')
  <2>1. IsFiniteSet(DOMAIN tables)
    BY DEF StagePart, StartTypes
  <2>2. IsFiniteSet(TablePages)
    <3> DEFINE f == [u \in DOMAIN tables |-> tables[u]]
    <3>1. f \in Surjection(DOMAIN tables, TablePages)
      BY DEF TablePages, Surjection
    <3> HIDE DEF f
    <3> QED BY <2>1, <3>1, FS_Surjection
  <2>3. Cardinality(DOMAIN tables \cup {t}) = Cardinality(DOMAIN tables) + 1
    BY <2>1, FS_AddElement
  <2>4. Cardinality(TablePages \cup {base}) = Cardinality(TablePages) + 1
    BY <1>4, <2>2, FS_AddElement
  <2> QED BY <1>1, <2>3, <2>4 DEF PagesInv
<1>6. owned' = Held' /\ TablePages' \cap heap' = {}
  BY <1>1, <1>2, <1>3, <1>4 DEF Held, PagesInv
<1> QED BY <1>5, <1>6 DEF PagesInv, Returning

\* kheap_init takes over its pages.
LEMMA PagesHeap ==
  ASSUME StagePart, PagesInv, stage = "kheap", pc = "idle", want = "heap", want' = "nothing",
         heap' = base .. (base + KHEAP_INIT_PAGES - 1),
         UNCHANGED <<pc, base, pages, owned, tables>>
  PROVE  PagesInv'
<1>1. owned = Held \cup Found /\ Held \cap Found = {} /\ pages = KHEAP_INIT_PAGES
  BY DEF PagesInv, Returning
<1>2. heap = {} /\ heap' = Found
  BY <1>1 DEF StagePart, StageInv, Found
<1>3. TablePages' = TablePages
  BY DEF TablePages
<1> QED BY <1>1, <1>2, <1>3 DEF PagesInv, Returning, Held

\* What is missing is not there.
LEMMA TopMostMissing ==
  ASSUME StagePart, stage = "vmm", want = "table"
  PROVE  TopMost(Missing(Virtual)) \notin DOMAIN tables
<1>1. Missing(Virtual) # {} /\ range <= Len(memmap) + 1
  BY DEF StagePart, StageInv, InRange
<1>2. Missing(Virtual) \subseteq (1 .. 4) \X Nat
  BY <1>1, VirtualType, MissingTypes DEF StagePart
<1>3. TopMost(Missing(Virtual)) \in Missing(Virtual)
  BY <1>1, <1>2, TopMostIn
<1> QED BY <1>3 DEF Missing

\* Every step keeps the pages apart.
LEMMA PagesStep ==
  ASSUME StagePart, PagesInv, IndInv, NoLateAssert', [BootNext]_allVars
  PROVE  PagesInv'
<1>1. CASE vmm_new_pt
  <2>1. CASE CallAlloc(1, "root")
    BY <2>1, PagesCall
  <2>2. CASE ~CallAlloc(1, "root")
    <3>1. /\ stage = "newpt" /\ pc = "idle" /\ want = "root" /\ want' = "nothing"
          /\ AddTable(<<1, 0>>) /\ UNCHANGED <<pc, base, pages, owned, heap>>
      BY <1>1, <2>2 DEF vmm_new_pt, Got, vars
    <3>2. <<1, 0>> \notin DOMAIN tables
      BY <3>1 DEF StagePart, StageInv
    <3> QED BY <3>1, <3>2, PagesTable
  <2> QED BY <2>1, <2>2
<1>2. CASE page_from_index
  <2>1. CASE CallAlloc(1, "table")
    BY <2>1, PagesCall
  <2>2. CASE ~CallAlloc(1, "table")
    <3>1. /\ stage = "vmm" /\ pc = "idle" /\ want = "table" /\ want' = "nothing"
          /\ AddTable(TopMost(Missing(Virtual))) /\ UNCHANGED <<pc, base, pages, owned, heap>>
      BY <1>2, <2>2 DEF page_from_index, Got, vars
    <3> QED BY <3>1, TopMostMissing, PagesTable
  <2> QED BY <2>1, <2>2
<1>3. CASE kheap_init
  <2>1. CASE CallAlloc(KHEAP_INIT_PAGES, "heap")
    BY <2>1, PagesCall
  <2>2. CASE ~CallAlloc(KHEAP_INIT_PAGES, "heap")
    <3>1. /\ stage = "kheap" /\ pc = "idle" /\ want = "heap" /\ want' = "nothing"
          /\ heap' = base .. (base + KHEAP_INIT_PAGES - 1)
          /\ UNCHANGED <<pc, base, pages, owned, tables>>
      BY <1>3, <2>2 DEF kheap_init, Got, vars, vmmVars
    <3> QED BY <3>1, PagesHeap
  <2> QED BY <2>1, <2>2
<1>4. CASE alloc_step
  BY <1>4, PagesLoop
<1>5. CASE start_pmm
  BY <1>5, PagesStart
<1> QED BY <1>1, <1>2, <1>3, <1>4, <1>5, PagesQuiet DEF BootNext, BootStep

-----------------------------------------------------------------------------
(***************************************************************************)
(* Pages and addresses.                                                    *)
(***************************************************************************)

\* Quotients of a sum with a multiple, and of a multiple.
LEMMA DivPlus ==
  ASSUME NEW d \in Nat \ {0}, NEW q \in Nat, NEW r \in 0 .. (d - 1), NEW k \in Nat
  PROVE  ((d * q + r) + d * k) \div d = q + k
<1>1. (d * q + r) + d * k = d * (q + k) + r
  <2>1. d * (q + k) = d * q + d * k
    OBVIOUS
  <2>2. d * q \in Nat /\ d * k \in Nat
    OBVIOUS
  <2> QED BY <2>1, <2>2
<1>2. (d * (q + k) + r) \div d = q + k
  BY DivExact
<1> QED BY <1>1, <1>2

LEMMA DivBelow ==
  ASSUME NEW d \in Nat \ {0}, NEW x \in Nat
  PROVE  d * (x \div d) \in Nat /\ d * (x \div d) <= x
<1>1. x \div d \in Nat /\ x % d \in 0 .. (d - 1) /\ x = d * (x \div d) + (x % d)
  BY DivMod
<1>2. \A q, r \in Nat : x = d * q + r => d * q \in Nat /\ d * q <= x
  OBVIOUS
<1> QED BY <1>1, <1>2

LEMMA MultipleMod ==
  ASSUME NEW d \in Nat \ {0}, NEW k \in Nat
  PROVE  (d * k) % d = 0
<1>1. (d * k + 0) \div d = k
  BY DivExact
<1>2. d * k \in Nat /\ d * k + 0 = d * k
  OBVIOUS
<1>3. (d * k) \div d = k
  BY <1>1, <1>2
<1>4. /\ (d * k) % d \in 0 .. (d - 1)
      /\ d * k = d * ((d * k) \div d) + ((d * k) % d)
  BY <1>2, DivMod
<1>5. \A r \in Nat : d * k = d * k + r => r = 0
  BY <1>2
<1> QED BY <1>3, <1>4, <1>5

\* An address k pages further lies in the k-th page after.
LEMMA PagePlus ==
  ASSUME NEW a \in Nat, NEW k \in Nat
  PROVE  PageOf(a + PAGE_SIZE * k) = PageOf(a) + k
<1> DEFINE d == PAGE_SIZE
<1>1. d \in Nat \ {0}
  BY PMMAssumption
<1>2. /\ a \div d \in Nat /\ a % d \in 0 .. (d - 1)
      /\ a = d * (a \div d) + (a % d)
  BY <1>1, DivMod
<1>3. ((d * (a \div d) + (a % d)) + d * k) \div d = (a \div d) + k
  BY <1>1, <1>2, DivPlus
<1>4. (a + d * k) \div d = (a \div d) + k
  <2> HIDE DEF d
  <2> QED BY <1>2, <1>3, Zenon
<1> QED BY <1>4 DEF PageOf

\* The page of an address in the direct map.
LEMMA PageSum ==
  ASSUME NEW a \in Nat, NEW b \in Nat, b % PAGE_SIZE = 0
  PROVE  PageOf(a + b) = PageOf(a) + PageOf(b)
<1>1. PageOf(b) \in Nat /\ b = PAGE_SIZE * PageOf(b)
  BY AlignedPage
<1>2. PageOf(a + PAGE_SIZE * PageOf(b)) = PageOf(a) + PageOf(b)
  BY <1>1, PagePlus
<1> QED BY <1>1, <1>2

\* A byte of an area lies in one of the pages that the area touches.
LEMMA ByteTouched ==
  ASSUME NEW a \in Nat, NEW n \in Nat, NEW x \in Nat, a <= x, x < a + n
  PROVE  PageOf(x) \in PagesTouched(a, n)
<1>1. a + n - 1 \in Nat /\ x <= a + n - 1 /\ n # 0
  OBVIOUS
<1>2. PageOf(a) <= PageOf(x) /\ PageOf(x) <= PageOf(a + n - 1)
  BY <1>1, DivMonotone, PMMAssumption DEF PageOf
<1>3. PageOf(a) \in Nat /\ PageOf(x) \in Nat /\ PageOf(a + n - 1) \in Nat
  BY <1>1, DivMod, PMMAssumption DEF PageOf
<1> QED BY <1>1, <1>2, <1>3 DEF PagesTouched

\* A page that an area touches starts before the area's end and ends after
\* its start.
LEMMA TouchedPage ==
  ASSUME NEW a \in Nat, NEW n \in Nat, NEW p \in PagesTouched(a, n)
  PROVE  /\ n # 0 /\ p \in Nat /\ PageOf(a) \in Nat
         /\ PageOf(a) <= p /\ PAGE_SIZE * p < a + n
<1>1. n # 0 /\ p \in PageOf(a) .. PageOf(a + n - 1)
  BY DEF PagesTouched
<1>2. a + n - 1 \in Nat
  BY <1>1
<1> DEFINE d == PAGE_SIZE
           q == (a + n - 1) \div d
<1>3. d \in Nat \ {0} /\ q \in Nat /\ d * q <= a + n - 1 /\ a \div d \in Nat
  BY <1>2, PMMAssumption, DivMod, DivBelow
<1> HIDE DEF q
<1>4. p \in Nat /\ PageOf(a) <= p /\ p <= q
  BY <1>1, <1>3 DEF PageOf, q
<1>5. d * p \in Nat /\ d * p <= d * q
  BY <1>3, <1>4
<1> QED BY <1>1, <1>3, <1>4, <1>5 DEF PageOf

\* The ranges of vmm_init, and their types.
LEMMA RangeIsMapped ==
  ASSUME NEW n
  PROVE  MappedRange(n) = RangeOf(memmap, limine, n)
BY DEF MappedRange, RangeOf

LEMMA MapLength ==
  ASSUME StartTypes
  PROVE  /\ Len(memmap) \in Nat /\ DOMAIN memmap = 1 .. Len(memmap)
         /\ DOMAIN limine.entries = DOMAIN memmap /\ range \in Nat
         /\ Len(memmap) + 1 \notin DOMAIN memmap
<1>1. limine \in Loaders /\ memmap = MemMapOf(limine)
  BY DEF StartTypes
<1>2. /\ Len(memmap) \in Nat /\ DOMAIN memmap = 1 .. Len(memmap)
      /\ DOMAIN limine.entries = DOMAIN memmap
  BY <1>1, MapEntries
<1> QED BY <1>2 DEF StartTypes

\* An entry of the memory map as vmm_init sees it lies in the entry of Limine.
LEMMA ShiftedInside ==
  ASSUME StartTypes, NEW i \in DOMAIN memmap
  PROVE  LET s == Shifted(memmap[i])
             e == limine.entries[i]
         IN  /\ s.base \in Nat /\ s.length \in Nat /\ e.base \in Nat /\ e.length \in Nat
             /\ memmap[i].base = e.base /\ memmap[i].length = e.length
             /\ e.base <= s.base
             /\ s.length > 0 => s.base + s.length = e.base + e.length
             /\ s.base = IF e.base = 0 THEN PAGE_SIZE ELSE e.base
             /\ s.length = IF e.base # 0 THEN e.length
                           ELSE IF e.length >= PAGE_SIZE THEN e.length - PAGE_SIZE ELSE 0
<1>1. /\ limine \in Loaders /\ memmap = MemMapOf(limine) /\ memmap \in MemMaps
      /\ i \in DOMAIN limine.entries
  BY LoaderTypes, MapLength DEF StartTypes
<1>2. /\ memmap[i].base = limine.entries[i].base
      /\ memmap[i].length = limine.entries[i].length
      /\ limine.entries[i].base \in Nat /\ limine.entries[i].length \in Nat
  BY <1>1, MapEntries
<1>3. memmap[i] \in MemMapEntries /\ PAGE_SIZE \in Nat \ {0}
  BY <1>1, PMMAssumption
<1>4. /\ Shifted(memmap[i]).base = IF memmap[i].base = 0 THEN PAGE_SIZE ELSE memmap[i].base
      /\ Shifted(memmap[i]).length =
           IF memmap[i].base # 0 THEN memmap[i].length
           ELSE IF memmap[i].length >= PAGE_SIZE THEN memmap[i].length - PAGE_SIZE ELSE 0
  BY <1>3 DEF Shifted, MemMapEntries
<1> QED BY <1>2, <1>3, <1>4

-----------------------------------------------------------------------------
(***************************************************************************)
(* What the kernel's page tables map.                                      *)
(***************************************************************************)
MapPart == SpaceInv /\ CoverInv

\* Most steps map nothing.
LEMMA MapKept ==
  ASSUME MapPart, UNCHANGED <<limine, memmap, space, range, off>>
  PROVE  MapPart'
BY DEF MapPart, SpaceInv, CoverInv, KernelVirtual

LEMMA MapQuiet ==
  ASSUME MapPart, [BootNext]_allVars, ~vmm_map, ~next_range
  PROVE  MapPart'
<1>1. limine' = limine /\ memmap' = memmap
  BY FixedStep
<1>2. UNCHANGED <<space, range, off>>
  <2>1. CASE Fault \/ BootHalted \/ UNCHANGED allVars
    BY <2>1 DEF Fault, BootHalted, allVars, bootVars, vmmVars
  <2>2. CASE \/ start_early \/ check_bl_supported \/ print_bl_info \/ print_firmware
             \/ print_addresses \/ print_memmap_entry \/ print_memmap_end \/ start_late
    BY <2>2 DEF start_early, check_bl_supported, print_bl_info, print_firmware,
                print_addresses, print_memmap_entry, print_memmap_end, start_late, Goes,
                vmmVars
  <2>3. CASE start_pmm \/ arch_init_early \/ alloc_step \/ vmm_switch
    BY <2>3 DEF start_pmm, arch_init_early, alloc_step, vmm_switch, vmmVars
  <2>4. CASE vmm_new_pt \/ page_from_index \/ kheap_init
    BY <2>4 DEF vmm_new_pt, page_from_index, kheap_init, CallAlloc, vmmVars
  <2> QED BY <2>1, <2>2, <2>3, <2>4 DEF BootNext, BootStep
<1> QED BY <1>1, <1>2, MapKept

\* The page that vmm_map maps gets the frame that it is meant for.
LEMMA MeantFor ==
  ASSUME StartTypes, Sound(limine), InRange, CoverInv
  PROVE  PageOf(MappedRange(range).pa + off) =
           IF Virtual \in KernelVirtual
           THEN Virtual - PageOf(limine.kernel.va) + PageOf(limine.kernel.pa)
           ELSE Virtual - PageOf(HHDM)
<1>1. /\ range \in 1 .. (Len(memmap) + 1) /\ off \in Nat /\ off < MappedRange(range).size
      /\ HHDM \in Nat
  BY MapLength, PMMAssumption DEF InRange, StartTypes
<1>2. PICK k \in Nat : off = PAGE_SIZE * k
  BY <1>1, AlignedPage DEF CoverInv
<1>3. CASE range \in DOMAIN memmap
  <2> DEFINE s == Shifted(memmap[range])
             e == limine.entries[range]
  <2>1. /\ MappedRange(range).pa = s.base /\ MappedRange(range).va = s.base + HHDM
        /\ MappedRange(range).size = s.length
    BY <1>3 DEF MappedRange
  <2>2. /\ s.base \in Nat /\ s.length \in Nat /\ e.base \in Nat /\ e.length \in Nat
        /\ e.base <= s.base
        /\ s.length > 0 => s.base + s.length = e.base + e.length
    BY <1>3, ShiftedInside
  <2> HIDE DEF s
  <2>3. s.base + off \in Nat /\ e.base <= s.base + off /\ s.base + off < e.base + e.length
    BY <1>1, <2>1, <2>2
  <2>4. PageOf(s.base + off) \in FramesOf(e)
    BY <2>2, <2>3, ByteTouched DEF FramesOf
  <2>5. Virtual = PageOf(s.base + off) + PageOf(HHDM)
    <3>1. MappedRange(range).va + off = (s.base + off) + HHDM
      BY <1>1, <2>1, <2>2
    <3>2. PageOf((s.base + off) + HHDM) = PageOf(s.base + off) + PageOf(HHDM)
      BY <1>1, <2>3, PageSum DEF Sound
    <3> QED BY <3>1, <3>2 DEF Virtual
  <2>6. Virtual \notin KernelVirtual
    <3>1. range \in DOMAIN limine.entries
      BY <1>3, MapLength
    <3> QED BY <2>4, <2>5, <3>1 DEF Sound, KernelVirtual
  <2>7. PageOf(s.base + off) \in Nat /\ PageOf(HHDM) \in Nat
    BY <1>1, <2>3, DivMod, PMMAssumption DEF PageOf
  <2> QED BY <2>1, <2>5, <2>6, <2>7
<1>4. CASE range \notin DOMAIN memmap
  <2> DEFINE m == limine.kernel
  <2>1. /\ MappedRange(range).pa = m.pa /\ MappedRange(range).va = m.va
        /\ MappedRange(range).size = m.file
    BY <1>4 DEF MappedRange
  <2>2. m.pa \in Nat /\ m.va \in Nat /\ m.file \in Nat
    BY LoaderTypes DEF StartTypes
  <2>3. PageOf(m.va + off) \in KernelVirtual
    BY <1>1, <2>1, <2>2, ByteTouched DEF KernelVirtual
  <2>4. PageOf(m.va + off) = PageOf(m.va) + k /\ PageOf(m.pa + off) = PageOf(m.pa) + k
    BY <1>2, <2>2, PagePlus
  <2>5. PageOf(m.va) \in Nat /\ PageOf(m.pa) \in Nat
    BY <2>2, DivMod, PMMAssumption DEF PageOf
  <2>6. Virtual = PageOf(m.va + off)
    BY <2>1 DEF Virtual
  <2> HIDE DEF m
  <2>7. PageOf(m.pa + off) = Virtual - PageOf(m.va) + PageOf(m.pa)
    BY <2>4, <2>5, <2>6
  <2> QED BY <2>1, <2>3, <2>6, <2>7 DEF m
<1> QED BY <1>3, <1>4

\* vmm_map covers one page more of the range.
LEMMA MapPageStep ==
  ASSUME StartTypes, Sound(limine), MapPart, vmm_map
  PROVE  MapPart'
<1>1. /\ UNCHANGED <<limine, memmap, range>> /\ InRange /\ off' = off + PAGE_SIZE
      /\ space' = [v \in DOMAIN space \cup {Virtual} |->
                     IF v = Virtual THEN PageOf(MappedRange(range).pa + off) ELSE space[v]]
  BY DEF vmm_map, vars
<1>2. SpaceInv'
  <2>1. KernelVirtual' = KernelVirtual
    BY <1>1 DEF KernelVirtual
  <2> SUFFICES ASSUME NEW v \in DOMAIN space'
               PROVE  space'[v] = IF v \in KernelVirtual
                                  THEN v - PageOf(limine.kernel.va) + PageOf(limine.kernel.pa)
                                  ELSE v - PageOf(HHDM)
    BY <1>1, <2>1 DEF SpaceInv
  <2>2. CASE v = Virtual
    BY <1>1, <2>2, MeantFor DEF MapPart
  <2>3. CASE v # Virtual
    BY <1>1, <2>3 DEF MapPart, SpaceInv
  <2> QED BY <2>2, <2>3
<1>3. CoverInv'
  <2>1. DOMAIN space \subseteq DOMAIN space' /\ Virtual \in DOMAIN space'
    BY <1>1
  <2>2. off \in Nat /\ PAGE_SIZE \in Nat \ {0} /\ off % PAGE_SIZE = 0
    BY PMMAssumption DEF StartTypes, MapPart, CoverInv
  <2>3. off' % PAGE_SIZE = 0
    <3>1. PICK k \in Nat : off = PAGE_SIZE * k
      BY <2>2, AlignedPage
    <3>2. off' = PAGE_SIZE * (k + 1) /\ k + 1 \in Nat
      BY <1>1, <2>2, <3>1
    <3> QED BY <2>2, <3>2, MultipleMod
  <2>4. ASSUME NEW j \in Nat, PAGE_SIZE * j < off + PAGE_SIZE
        PROVE  PageOf(RangeOf(memmap, limine, range).va + PAGE_SIZE * j) \in DOMAIN space'
    <3>1. PICK k \in Nat : off = PAGE_SIZE * k
      BY <2>2, AlignedPage
    <3>2. CASE j = k
      <4>1. Virtual = PageOf(RangeOf(memmap, limine, range).va + PAGE_SIZE * j)
        BY <3>1, <3>2, RangeIsMapped DEF Virtual
      <4> QED BY <2>1, <4>1
    <3>3. CASE j # k
      <4>1. PAGE_SIZE * j < off
        <5>1. PAGE_SIZE * j < PAGE_SIZE * (k + 1)
          BY <2>2, <2>4, <3>1
        <5>2. j < k + 1
          BY <2>2, <5>1
        <5>3. PAGE_SIZE * j < PAGE_SIZE * k
          BY <2>2, <3>3, <5>2
        <5> QED BY <3>1, <5>3
      <4>2. PageOf(RangeOf(memmap, limine, range).va + PAGE_SIZE * j)
              \in UpTo(memmap, limine, range, off)
        BY <4>1 DEF UpTo
      <4> QED BY <1>1, <2>1, <4>2 DEF MapPart, CoverInv, InRange
    <3> QED BY <3>2, <3>3
  <2>5. UpTo(memmap, limine, range, off + PAGE_SIZE) \subseteq DOMAIN space'
    BY <2>4 DEF UpTo
  <2>6. ASSUME NEW n \in 1 .. (range - 1)
        PROVE  UpTo(memmap, limine, n, RangeOf(memmap, limine, n).size) \subseteq DOMAIN space'
    BY <2>1 DEF MapPart, CoverInv
  <2> QED BY <1>1, <2>3, <2>5, <2>6 DEF CoverInv
<1> QED BY <1>2, <1>3 DEF MapPart

\* At the end of a range all of it is mapped.
LEMMA NextRangeStep ==
  ASSUME StartTypes, MapPart, next_range
  PROVE  MapPart'
<1>1. /\ UNCHANGED <<limine, memmap, space>> /\ ~InRange /\ range <= Len(memmap) + 1
      /\ range' = range + 1 /\ off' = 0
  BY DEF next_range, vars
<1>2. SpaceInv'
  BY <1>1 DEF MapPart, SpaceInv, KernelVirtual
<1>3. /\ range \in 1 .. (Len(memmap) + 1) /\ off \in Nat /\ PAGE_SIZE \in Nat \ {0}
      /\ Len(memmap) \in Nat
  BY <1>1, MapLength, PMMAssumption DEF StartTypes
<1>4. RangeOf(memmap, limine, range).size \in Nat /\ RangeOf(memmap, limine, range).size <= off
  <2>1. MappedRange(range).size \in Nat /\ MappedRange(range).size <= off
    BY <1>1, <1>3, RangeTypes DEF InRange
  <2> QED BY <2>1, RangeIsMapped
<1>5. UpTo(memmap, limine, range, RangeOf(memmap, limine, range).size) \subseteq DOMAIN space
  <2> DEFINE z == RangeOf(memmap, limine, range).size
  <2>1. \A j \in Nat : PAGE_SIZE * j < z => PAGE_SIZE * j < off
    <3> HIDE DEF z
    <3>1. z \in Nat /\ z <= off
      BY <1>4 DEF z
    <3> SUFFICES ASSUME NEW j \in Nat, PAGE_SIZE * j < z PROVE PAGE_SIZE * j < off
      OBVIOUS
    <3>2. PAGE_SIZE * j \in Nat
      BY <1>3
    <3> QED BY <1>3, <3>1, <3>2
  <2>2. UpTo(memmap, limine, range, z) \subseteq UpTo(memmap, limine, range, off)
    <3> HIDE DEF z
    <3> QED BY <2>1 DEF UpTo
  <2> QED BY <1>1, <2>2 DEF MapPart, CoverInv
<1>6. ASSUME NEW n \in 1 .. range
      PROVE  UpTo(memmap, limine, n, RangeOf(memmap, limine, n).size) \subseteq DOMAIN space
  <2>1. CASE n = range
    BY <1>5, <2>1
  <2>2. CASE n # range
    BY <1>3, <2>2 DEF MapPart, CoverInv
  <2> QED BY <2>1, <2>2
<1>7. UpTo(memmap, limine, range + 1, 0) = {}
  <2>1. \A j \in Nat : ~(PAGE_SIZE * j < 0)
    BY <1>3
  <2> QED BY <2>1 DEF UpTo
<1>8. 0 % PAGE_SIZE = 0
  BY <1>3
<1>9. (range + 1) - 1 = range
  BY <1>3
<1>10. CoverInv'
  BY <1>1, <1>6, <1>7, <1>8, <1>9 DEF CoverInv
<1> QED BY <1>2, <1>10 DEF MapPart

LEMMA MapPartStep ==
  ASSUME StagePart, Sound(limine), MapPart, [BootNext]_allVars
  PROVE  MapPart'
BY MapQuiet, MapPageStep, NextRangeStep DEF StagePart

\* What the first size bytes of a range cover.
LEMMA Covered ==
  ASSUME NEW n, NEW size, NEW k \in Nat, PAGE_SIZE * k < size
  PROVE  PageOf(RangeOf(memmap, limine, n).va + PAGE_SIZE * k)
           \in UpTo(memmap, limine, n, size)
BY DEF UpTo

\* After the last range every page of an aligned entry but page 0 is mapped
\* directly.
LEMMA EntryMapped ==
  ASSUME StartTypes, Sound(limine), MapPart, range = Len(memmap) + 2,
         NEW i \in DOMAIN memmap, NEW p \in FramesOf(limine.entries[i]), p # 0,
         limine.entries[i].base % PAGE_SIZE = 0
  PROVE  p + PageOf(HHDM) \in DOMAIN space /\ space[p + PageOf(HHDM)] = p
<1> DEFINE s == Shifted(memmap[i])
           e == limine.entries[i]
<1>1. /\ s.base \in Nat /\ s.length \in Nat /\ e.base \in Nat /\ e.length \in Nat
      /\ s.base = IF e.base = 0 THEN PAGE_SIZE ELSE e.base
      /\ s.length = IF e.base # 0 THEN e.length
                    ELSE IF e.length >= PAGE_SIZE THEN e.length - PAGE_SIZE ELSE 0
  BY ShiftedInside
<1>2. /\ p \in Nat /\ PageOf(e.base) \in Nat /\ PageOf(e.base) <= p
      /\ PAGE_SIZE * p < e.base + e.length
  BY <1>1, TouchedPage DEF FramesOf
<1>3. /\ PAGE_SIZE \in Nat \ {0} /\ HHDM \in Nat /\ HHDM % PAGE_SIZE = 0
      /\ PageOf(HHDM) \in Nat
  BY PMMAssumption, DivMod DEF Sound, PageOf
<1>4. PICK b \in Nat : s.base = PAGE_SIZE * b /\ b <= p /\ PAGE_SIZE * p < s.base + s.length
  <2>1. CASE e.base = 0
    <3>1. s.base = PAGE_SIZE * 1 /\ 1 <= p
      BY <1>1, <1>2, <1>3, <2>1
    <3>2. PAGE_SIZE <= PAGE_SIZE * p
      BY <1>2, <1>3, <3>1
    <3>3. e.length >= PAGE_SIZE
      BY <1>1, <1>2, <1>3, <2>1, <3>2
    <3>4. s.base + s.length = e.base + e.length
      BY <1>1, <1>3, <2>1, <3>3
    <3> HIDE DEF s, e
    <3> QED BY <1>2, <3>1, <3>4
  <2>2. CASE e.base # 0
    <3>1. e.base = PAGE_SIZE * PageOf(e.base)
      BY <1>1, AlignedPage
    <3>2. s.base = e.base /\ s.length = e.length
      BY <1>1, <2>2
    <3> HIDE DEF s, e
    <3> QED BY <1>2, <3>1, <3>2
  <2> QED BY <2>1, <2>2
<1> DEFINE k == p - b
<1>5. k \in Nat /\ PAGE_SIZE * k < s.length /\ b + k = p
  <2>1. k \in Nat /\ b + k = p
    BY <1>2, <1>4
  <2>2. PAGE_SIZE * p = PAGE_SIZE * b + PAGE_SIZE * k
    <3> HIDE DEF k
    <3>1. PAGE_SIZE * (b + k) = PAGE_SIZE * b + PAGE_SIZE * k
      BY <1>3, <2>1
    <3> QED BY <2>1, <3>1
  <2>3. PAGE_SIZE * b \in Nat /\ PAGE_SIZE * k \in Nat
    BY <1>3, <2>1
  <2>4. s.base \in Nat /\ s.length \in Nat
    BY <1>1
  <2> DEFINE kk == PAGE_SIZE * k
             bb == PAGE_SIZE * b
             pp == PAGE_SIZE * p
             sb == s.base
             sl == s.length
  <2>5. /\ pp = bb + kk /\ bb \in Nat /\ kk \in Nat /\ sb \in Nat /\ sl \in Nat
        /\ sb = bb /\ pp < sb + sl
    BY <1>4, <2>2, <2>3, <2>4
  <2> HIDE DEF kk, bb, pp, sb, sl
  <2>6. kk < sl
    BY <2>5
  <2> QED BY <2>1, <2>6 DEF kk, sl
<1> HIDE DEF k
<1>6. RangeOf(memmap, limine, i).va = s.base + HHDM /\ RangeOf(memmap, limine, i).size = s.length
  BY DEF RangeOf
<1> HIDE DEF s
<1>7. PageOf(RangeOf(memmap, limine, i).va + PAGE_SIZE * k) = p + PageOf(HHDM)
  <2>1. PageOf((s.base + HHDM) + PAGE_SIZE * k) = PageOf(s.base + HHDM) + k
    <3>1. s.base + HHDM \in Nat
      BY <1>1, <1>3
    <3> QED BY <3>1, <1>5, PagePlus
  <2>2. PageOf(s.base + HHDM) = PageOf(s.base) + PageOf(HHDM)
    BY <1>1, <1>3, PageSum
  <2>3. PageOf(s.base) = b
    BY <1>4, PageOfMultiple
  <2> QED BY <1>3, <1>4, <1>5, <1>6, <2>1, <2>2, <2>3
<1>8. p + PageOf(HHDM) \in DOMAIN space
  <2>1. i \in 1 .. (range - 1)
    BY MapLength
  <2>2. p + PageOf(HHDM) \in UpTo(memmap, limine, i, RangeOf(memmap, limine, i).size)
    <3>1. PageOf(RangeOf(memmap, limine, i).va + PAGE_SIZE * k)
            \in UpTo(memmap, limine, i, s.length)
      BY <1>5, Covered
    <3> QED BY <1>6, <1>7, <3>1
  <2> QED BY <2>1, <2>2 DEF MapPart, CoverInv
<1>9. p + PageOf(HHDM) \notin KernelVirtual
  <2>1. i \in DOMAIN limine.entries
    BY MapLength
  <2> QED BY <2>1 DEF Sound, KernelVirtual
<1> QED BY <1>2, <1>3, <1>8, <1>9 DEF MapPart, SpaceInv

\* So the stack and the answers of the boot loader are, ...
LEMMA StackMapped ==
  ASSUME StartTypes, Sound(limine), MapPart, range = Len(memmap) + 2
  PROVE  DirectMapped(StackFrames)
<1> SUFFICES ASSUME NEW i \in DOMAIN limine.entries,
                    limine.entries[i].type = LimineReclaimable,
                    NEW p \in FramesOf(limine.entries[i])
             PROVE  p + PageOf(HHDM) \in DOMAIN space /\ space[p + PageOf(HHDM)] = p
  BY DEF DirectMapped, StackFrames
<1> DEFINE e == limine.entries[i]
<1>1. i \in DOMAIN memmap /\ e.base % PAGE_SIZE = 0 /\ e.base # 0
  BY MapLength DEF Sound
<1>2. e.base \in Nat /\ e.length \in Nat
  BY <1>1, ShiftedInside
<1>3. p # 0
  <2>1. PageOf(e.base) \in Nat /\ e.base = PAGE_SIZE * PageOf(e.base)
    BY <1>1, <1>2, AlignedPage
  <2>2. PageOf(e.base) # 0
    <3>1. PAGE_SIZE * 0 = 0 /\ e.base # 0
      BY <1>1, PMMAssumption
    <3> DEFINE q == PageOf(e.base)
               b == e.base
    <3>2. b = PAGE_SIZE * q /\ b # 0 /\ PAGE_SIZE * 0 = 0
      BY <2>1, <3>1
    <3> HIDE DEF q, b
    <3>3. q # 0
      BY <3>2
    <3> QED BY <3>3 DEF q
  <2>3. PageOf(e.base) <= p /\ p \in Nat
    BY <1>2, TouchedPage DEF FramesOf
  <2> QED BY <2>1, <2>2, <2>3
<1> QED BY <1>1, <1>3, EntryMapped

\* ... the kernel is at the addresses it runs at, ...
LEMMA KernelIsMapped ==
  ASSUME StartTypes, Sound(limine), MapPart, range = Len(memmap) + 2
  PROVE  ImageMapped
<1> DEFINE m == limine.kernel
           n == Len(memmap) + 1
<1>1. /\ m.pa \in Nat /\ m.va \in Nat /\ m.image \in Nat /\ m.file \in Nat
      /\ m.image <= m.file /\ m.pa % PAGE_SIZE = 0
  BY LoaderTypes DEF StartTypes, Sound
<1>2. /\ RangeOf(memmap, limine, n).va = m.va
      /\ RangeOf(memmap, limine, n).size = m.file
  BY MapLength DEF RangeOf
<1>3. n \in 1 .. (range - 1)
  BY MapLength
<1> HIDE DEF n
<1> SUFFICES ASSUME NEW f \in ImageFrames
             PROVE  /\ f - PageOf(m.pa) + PageOf(m.va) \in DOMAIN space
                    /\ space[f - PageOf(m.pa) + PageOf(m.va)] = f
  BY DEF ImageMapped
<1>4. /\ f \in Nat /\ PageOf(m.pa) \in Nat /\ PageOf(m.pa) <= f
      /\ PAGE_SIZE * f < m.pa + m.image
  BY <1>1, TouchedPage DEF ImageFrames
<1>5. PageOf(m.va) \in Nat /\ PAGE_SIZE \in Nat \ {0} /\ m.pa = PAGE_SIZE * PageOf(m.pa)
  BY <1>1, PMMAssumption, DivMod, AlignedPage DEF PageOf
<1> DEFINE k == f - PageOf(m.pa)
<1>6. k \in Nat /\ PageOf(m.pa) + k = f /\ k + PageOf(m.va) = PageOf(m.va) + k
  BY <1>4, <1>5
<1>7. PAGE_SIZE * k < m.file
  <2> DEFINE a == PageOf(m.pa)
  <2>1. a \in Nat /\ a + k = f
    BY <1>4, <1>6
  <2> HIDE DEF k, a
  <2>2. PAGE_SIZE * (a + k) = PAGE_SIZE * a + PAGE_SIZE * k
    BY <1>5, <1>6, <2>1
  <2>3. PAGE_SIZE * a = m.pa /\ PAGE_SIZE * k \in Nat
    BY <1>5, <1>6 DEF a
  <2> HIDE DEF m
  <2> QED BY <1>1, <1>4, <2>1, <2>2, <2>3
<1> HIDE DEF k
<1>8. PageOf(m.va + PAGE_SIZE * k) = PageOf(m.va) + k
  BY <1>1, <1>6, PagePlus
<1>9. PageOf(m.va) + k \in DOMAIN space
  <2>1. PageOf(RangeOf(memmap, limine, n).va + PAGE_SIZE * k) \in UpTo(memmap, limine, n, m.file)
    BY <1>6, <1>7, Covered
  <2>2. PageOf(m.va) + k \in UpTo(memmap, limine, n, RangeOf(memmap, limine, n).size)
    BY <1>2, <1>8, <2>1
  <2> QED BY <1>3, <2>2 DEF MapPart, CoverInv
<1>10. PageOf(m.va) + k \in KernelVirtual
  <2>1. PAGE_SIZE * k \in Nat
    BY <1>5, <1>6
  <2>2. m.va + PAGE_SIZE * k \in Nat /\ m.va <= m.va + PAGE_SIZE * k
        /\ m.va + PAGE_SIZE * k < m.va + m.file
    BY <1>1, <1>7, <2>1
  <2>3. PageOf(m.va + PAGE_SIZE * k) \in PagesTouched(m.va, m.file)
    BY <1>1, <2>2, ByteTouched
  <2> QED BY <1>8, <2>3 DEF KernelVirtual
<1>11. space[PageOf(m.va) + k] = (PageOf(m.va) + k) - PageOf(m.va) + PageOf(m.pa)
  BY <1>9, <1>10 DEF MapPart, SpaceInv
<1>12. (PageOf(m.va) + k) - PageOf(m.va) + PageOf(m.pa) = f
  BY <1>4, <1>5, <1>6
<1>13. f - PageOf(m.pa) + PageOf(m.va) = PageOf(m.va) + k
  BY <1>6 DEF k
<1> QED BY <1>9, <1>11, <1>12, <1>13

\* A page that memory map entries describe as usable is one of Limine's.
LEMMA UsableFrames ==
  ASSUME StartTypes, NEW p \in UsablePages(memmap)
  PROVE  \E i \in DOMAIN memmap :
           /\ limine.entries[i].type = LimineUsable
           /\ limine.entries[i].base % PAGE_SIZE = 0
           /\ p \in FramesOf(limine.entries[i])
<1>1. PICK i \in DOMAIN memmap : memmap[i].type = USABLE /\ p \in EntryPages(memmap[i])
  BY DEF UsablePages, UsableEntries
<1> DEFINE e == limine.entries[i]
<1>2. /\ e.base \in Nat /\ e.length \in Nat
      /\ memmap[i].base = e.base /\ memmap[i].length = e.length
  BY ShiftedInside
<1>3. /\ e.base % PAGE_SIZE = 0 /\ e.length % PAGE_SIZE = 0 /\ e.type = LimineUsable
      /\ PAGE_SIZE \in Nat \ {0}
  <2>1. limine \in Loaders /\ memmap = MemMapOf(limine) /\ memmap \in MemMaps
    BY LoaderTypes DEF StartTypes
  <2>2. i \in DOMAIN limine.entries
    BY MapLength
  <2> QED BY <1>1, <1>2, <2>1, <2>2, UsableIsUsable, PMMAssumption
<1>4. p \in PageOf(e.base) .. (PageOf(e.base + e.length) - 1)
  BY <1>1, <1>2 DEF EntryPages
<1> DEFINE b == PageOf(e.base)
           l == PageOf(e.length)
<1>5. b \in Nat /\ l \in Nat /\ e.base = PAGE_SIZE * b /\ e.length = PAGE_SIZE * l
  BY <1>2, <1>3, AlignedPage
<1>6. PageOf(e.base + e.length) = b + l
  BY <1>2, <1>3, PageSum
<1>7. p \in Nat /\ b <= p /\ p < b + l
  BY <1>4, <1>5, <1>6
<1>8. PAGE_SIZE * p \in Nat /\ e.base <= PAGE_SIZE * p /\ PAGE_SIZE * p < e.base + e.length
  <2> HIDE DEF b, l
  <2>1. PAGE_SIZE * b <= PAGE_SIZE * p /\ PAGE_SIZE * p \in Nat
    BY <1>3, <1>5, <1>7
  <2>2. PAGE_SIZE * p < PAGE_SIZE * (b + l)
    BY <1>3, <1>5, <1>7
  <2>3. PAGE_SIZE * (b + l) = PAGE_SIZE * b + PAGE_SIZE * l
    BY <1>3, <1>5
  <2> HIDE DEF e
  <2> QED BY <1>5, <2>1, <2>2, <2>3
<1>9. PageOf(PAGE_SIZE * p) \in PagesTouched(e.base, e.length)
  BY <1>2, <1>8, ByteTouched
<1>10. PageOf(PAGE_SIZE * p) = p
  BY <1>7, PageOfMultiple
<1> QED BY <1>3, <1>9, <1>10 DEF FramesOf

\* ... and all usable memory but page 0 is mapped directly.
LEMMA UsableMapped ==
  ASSUME StartTypes, Sound(limine), MapPart, range = Len(memmap) + 2,
         NEW F, F \subseteq UsablePages(memmap) \ {0}
  PROVE  DirectMapped(F)
<1> SUFFICES ASSUME NEW p \in F
             PROVE  p + PageOf(HHDM) \in DOMAIN space /\ space[p + PageOf(HHDM)] = p
  BY DEF DirectMapped
<1>1. PICK i \in DOMAIN memmap : /\ limine.entries[i].base % PAGE_SIZE = 0
                                 /\ p \in FramesOf(limine.entries[i])
  BY UsableFrames
<1> QED BY <1>1, EntryMapped

-----------------------------------------------------------------------------
(***************************************************************************)
(* The bitmap's place, and the list of the memory map.                     *)
(***************************************************************************)
LEMMA BitmapPageStep ==
  ASSUME StartTypes, BitmapPageInv, [BootNext]_allVars
  PROVE  BitmapPageInv'
<1>1. [Next]_vars
  BY BootStepIsPMMStep
<1>2. CASE pmm_init
  <2>1. PICK i \in DOMAIN memmap : /\ i \in UsableEntries(memmap)
                                   /\ bitmapPhys' = Shifted(memmap[i]).base
    BY <1>2 DEF pmm_init, FirstEntryFor
  <2>2. memmap \in MemMaps /\ PAGE_SIZE \in Nat \ {0}
    BY LoaderTypes, PMMAssumption DEF StartTypes
  <2>3. memmap[i].base % PAGE_SIZE = 0 /\ memmap[i].base \in Nat
    BY <2>1, <2>2, EntryType, PMMAssumption DEF UsableEntries
  <2>4. bitmapPhys' = IF memmap[i].base = 0 THEN PAGE_SIZE ELSE memmap[i].base
    BY <2>1, ShiftedInside
  <2>5. PageOf(memmap[i].base) \in Nat /\ memmap[i].base = PAGE_SIZE * PageOf(memmap[i].base)
    BY <2>3, AlignedPage
  <2>6. memmap[i].base # 0 => memmap[i].base >= PAGE_SIZE
    <3> DEFINE q == PageOf(memmap[i].base)
    <3>1. memmap[i].base # 0 => q >= 1
      BY <2>2, <2>5
    <3> HIDE DEF q
    <3>2. q \in Nat /\ memmap[i].base = PAGE_SIZE * q
      BY <2>5 DEF q
    <3>3. q >= 1 => PAGE_SIZE * q >= PAGE_SIZE
      BY <2>2, <3>2
    <3> QED BY <3>1, <3>2, <3>3
  <2>7. bitmapPhys' >= PAGE_SIZE
    BY <2>2, <2>4, <2>6
  <2> QED BY <2>7 DEF BitmapPageInv
<1>3. CASE ~pmm_init
  <2>1. CASE pmm_init_assert \/ Halted \/ UNCHANGED vars
    BY <2>1 DEF pmm_init_assert, Halted, initVars, vars, BitmapPageInv
  <2>2. CASE Step
    BY <2>2 DEF Step, ScanUsed, ScanFree, ScanPanic, MarkPage, MarkDone, ClearPage, ClearDone,
                initVars, BitmapPageInv
  <2>3. CASE \/ \E n \in Requests : pmm_alloc(n)
             \/ \E p \in owned, n \in Frees : pmm_free(p * PAGE_SIZE, n)
             \/ \E p \in owned : OwnerWrite(p)
    BY <2>3 DEF pmm_alloc, pmm_free, OwnerWrite, initVars, BitmapPageInv
  <2> QED BY <1>1, <1>3, <2>1, <2>2, <2>3 DEF Next
<1> QED BY <1>2, <1>3

\* The entries are printed one after the other.
LEMMA ListStep ==
  ASSUME StartTypes, ListInv, [BootNext]_allVars
  PROVE  ListInv'
<1>1. memmap' = memmap
  BY FixedStep
<1>2. CASE print_memmap_entry
  <2> DEFINE n == Len(listed) + 1
             x == boot_proto_memmap_type_to_str(memmap[n].type)
  <2>1. listed' = Append(listed, x) /\ Len(listed) < Len(memmap)
    BY <1>2 DEF print_memmap_entry
  <2>2. listed \in Seq(TypeNames) /\ Len(listed) \in Nat
    BY DEF ListInv
  <2>3. n \in DOMAIN memmap /\ x \in TypeNames
    BY <2>1, <2>2, MapLength DEF TypeNames
  <2> HIDE DEF x
  <2>4. /\ listed' \in Seq(TypeNames) /\ Len(listed') = n
        /\ \A i \in DOMAIN listed' : listed'[i] = IF i = n THEN x ELSE listed[i]
        /\ DOMAIN listed' = DOMAIN listed \cup {n}
    BY <2>1, <2>2, <2>3
  <2>5. n <= Len(memmap)
    BY <2>1, <2>2, MapLength
  <2>6. TypeNames' = TypeNames
    BY <1>1 DEF TypeNames
  <2>7. \A i \in DOMAIN listed' : listed'[i] = boot_proto_memmap_type_to_str(memmap[i].type)
    BY <2>4 DEF ListInv, x
  <2> QED BY <1>1, <2>4, <2>5, <2>6, <2>7 DEF ListInv
<1>3. CASE ~print_memmap_entry
  <2>1. listed' = listed
    <3>1. CASE Fault \/ BootHalted \/ UNCHANGED allVars
      BY <3>1 DEF Fault, BootHalted, allVars, bootVars, outputVars
    <3>2. CASE \/ start_early \/ check_bl_supported \/ print_bl_info \/ print_firmware
               \/ print_addresses \/ print_memmap_end \/ start_late
      BY <3>2 DEF start_early, check_bl_supported, print_bl_info, print_firmware,
                  print_addresses, print_memmap_end, start_late, outputVars
    <3>3. CASE start_pmm \/ arch_init_early \/ alloc_step
      BY <3>3 DEF start_pmm, arch_init_early, alloc_step, outputVars
    <3>4. CASE vmm_new_pt \/ page_from_index \/ kheap_init
      BY <3>4 DEF vmm_new_pt, page_from_index, kheap_init, CallAlloc, outputVars
    <3>5. CASE vmm_map \/ next_range \/ vmm_switch
      BY <3>5 DEF vmm_map, next_range, vmm_switch, outputVars
    <3> QED BY <1>3, <3>1, <3>2, <3>3, <3>4, <3>5 DEF BootNext, BootStep
  <2>2. TypeNames' = TypeNames
    BY <1>1 DEF TypeNames
  <2> QED BY <1>1, <2>1, <2>2 DEF ListInv
<1> QED BY <1>2, <1>3

-----------------------------------------------------------------------------
(***************************************************************************)
(* Faults.                                                                 *)
(***************************************************************************)

\* The allocator runs on pages that the kernel's page table maps.
LEMMA AccessedUsable ==
  ASSUME StagePart, PagesInv, BitmapPageInv, IndInv, cr3 = "kernel", ~Ended
  PROVE  Accessed \subseteq UsablePages(memmap) \ {0}
<1>1. stage \in {"kheap", "late"}
  BY DEF StagePart, StartTypes, StageInv, Stages, Early, Ended
<1>2. pc \in {"idle", "scan", "mark"} /\ Booted
  BY <1>1 DEF StagePart, StageInv, Late, Booted
<1>3. CASE pc \in {"scan", "mark"}
  <2>1. Accessed = PagesTouched(bitmapPhys, bitmapSize)
    BY <1>3 DEF Accessed
  <2>2. Accessed \subseteq UsablePages(memmap)
    BY <1>2, <2>1 DEF IndInv, StorageInv
  <2>3. /\ bitmapPhys \in Nat /\ bitmapSize \in Nat /\ bitmapPhys >= PAGE_SIZE
        /\ PAGE_SIZE \in Nat \ {0}
    BY <1>2, PMMAssumption DEF IndInv, TypeOK, BootInv, BitmapPageInv
  <2>4. PageOf(bitmapPhys) >= 1 /\ PageOf(bitmapPhys) \in Nat
    <3>1. PageOf(PAGE_SIZE * 1) = 1
      BY PageOfMultiple
    <3>2. PAGE_SIZE * 1 = PAGE_SIZE
      BY <2>3
    <3>3. PageOf(PAGE_SIZE) <= PageOf(bitmapPhys)
      BY <2>3, DivMonotone DEF PageOf
    <3>4. PageOf(bitmapPhys) \in Nat
      BY <2>3, DivMod DEF PageOf
    <3> QED BY <3>1, <3>2, <3>3, <3>4
  <2>5. ASSUME NEW p \in PagesTouched(bitmapPhys, bitmapSize)
        PROVE  p # 0
    BY <2>3, <2>4, TouchedPage
  <2> QED BY <2>1, <2>2, <2>5
<1>4. CASE pc = "idle" /\ want = "heap"
  <2>1. Accessed = {base}
    BY <1>4 DEF Accessed
  <2>2. owned = Held \cup Found /\ pages = KHEAP_INIT_PAGES
    BY <1>4 DEF PagesInv, Returning
  <2>3. base \in Nat /\ KHEAP_INIT_PAGES \in Nat \ {0}
    BY BootAssumption DEF IndInv, TypeOK
  <2>4. base \in Found
    BY <2>2, <2>3 DEF Found
  <2>5. owned \subseteq Pool
    BY <1>2 DEF IndInv, PartitionInv
  <2> QED BY <2>1, <2>2, <2>4, <2>5 DEF Pool
<1>5. CASE pc = "idle" /\ want # "heap"
  BY <1>5 DEF Accessed
<1> QED BY <1>2, <1>3, <1>4, <1>5

\* Once the answers are there nothing faults.
LEMMA OnlyUnanswered ==
  ASSUME StagePart, PagesInv, MapPart, BitmapPageInv, IndInv, Sound(limine),
         Faulting, ~Ended
  PROVE  Unanswered
<1> SUFFICES ASSUME ~Unanswered PROVE FALSE
  OBVIOUS
<1>1. cr3 = "kernel"
  <2>1. cr3 \in {"loader", "kernel"}
    BY DEF StagePart, StartTypes
  <2> QED BY <2>1 DEF Faulting, CanRun
<1>2. StartTypes /\ range = Len(memmap) + 2
  BY <1>1 DEF StagePart, StageInv
<1>3. ImageMapped /\ DirectMapped(StackFrames)
  BY <1>2, KernelIsMapped, StackMapped
<1>4. Accessed \subseteq UsablePages(memmap) \ {0}
  BY <1>1, AccessedUsable
<1>5. DirectMapped(Accessed)
  BY <1>2, <1>4, UsableMapped
<1> QED BY <1>3, <1>5 DEF Faulting, CanRun

\* No other step ends in a fault.
LEMMA OtherSteps ==
  ASSUME [BootNext]_allVars, ~Fault
  PROVE  stage' = stage \/ stage' \notin {"reset", "fault"}
<1>1. CASE BootHalted \/ UNCHANGED allVars
  BY <1>1 DEF BootHalted, allVars, bootVars
<1>2. CASE \/ start_early \/ check_bl_supported \/ print_bl_info \/ print_firmware
           \/ print_addresses \/ print_memmap_entry \/ print_memmap_end \/ start_late
  BY <1>2 DEF start_early, check_bl_supported, print_bl_info, print_firmware,
              print_addresses, print_memmap_entry, print_memmap_end, start_late, Goes
<1>3. CASE start_pmm \/ arch_init_early \/ alloc_step
  BY <1>3 DEF start_pmm, arch_init_early, alloc_step
<1>4. CASE vmm_new_pt \/ page_from_index \/ kheap_init
  BY <1>4 DEF vmm_new_pt, page_from_index, kheap_init, CallAlloc
<1>5. CASE vmm_map \/ next_range \/ vmm_switch
  BY <1>5 DEF vmm_map, next_range, vmm_switch
<1> QED BY <1>1, <1>2, <1>3, <1>4, <1>5 DEF BootNext, BootStep

LEMMA FaultStep ==
  ASSUME StagePart, PagesInv, MapPart, BitmapPageInv, IndInv, Sound(limine),
         FaultsOnlyUnanswered, [BootNext]_allVars
  PROVE  FaultsOnlyUnanswered'
<1>1. limine' = limine
  BY FixedStep
<1>2. CASE ~Fault
  BY <1>1, <1>2, OtherSteps DEF FaultsOnlyUnanswered
<1>3. CASE Fault
  <2>1. /\ ~Ended /\ Faulting /\ stage' = IF idt /\ CanRun THEN "fault" ELSE "reset"
    BY <1>3 DEF Fault
  <2>2. Unanswered
    BY <2>1, OnlyUnanswered
  <2>3. CASE stage \in DOMAIN AnswerRead /\ AnswerRead[stage] \notin limine.answered
    <3>1. stage \in {"blinfo", "firmware", "hhdm", "kernel", "memmap"}
      BY <2>3 DEF AnswerRead
    <3>2. AnswerRead[stage] \in Answers \ {"kernel_file"}
      BY <3>1 DEF AnswerRead, Answers
    <3>3. idt = FALSE
      BY <3>1 DEF StagePart, StageInv, Early
    <3>4. stage' = "reset"
      BY <2>1, <3>3
    <3>5. ~(Answers \ {"kernel_file"} \subseteq limine.answered)
      BY <2>3, <3>2
    <3> QED BY <1>1, <3>4, <3>5 DEF FaultsOnlyUnanswered
  <2>4. CASE stage = "vmm" /\ "kernel_file" \notin limine.answered
    <3>1. idt = TRUE /\ cr3 = "loader"
      BY <2>4 DEF StagePart, StageInv, Late
    <3>2. stage' = "fault"
      BY <2>1, <3>1 DEF CanRun
    <3> QED BY <1>1, <2>4, <3>2 DEF FaultsOnlyUnanswered
  <2> QED BY <2>2, <2>3, <2>4 DEF Unanswered
<1> QED BY <1>2, <1>3

-----------------------------------------------------------------------------
(***************************************************************************)
(* What the invariants say.                                                *)
(***************************************************************************)
LEMMA ApartFromInv ==
  ASSUME StagePart, PagesInv, BitmapPageInv, IndInv, Sound(limine)
  PROVE  PagesApart
<1> DEFINE Bitmap == PagesTouched(bitmapPhys, bitmapSize)
<1> SUFFICES ASSUME bitmapSize > 0
             PROVE  /\ Bitmap \cup TablePages \cup heap \subseteq LimineFree \ {0}
                    /\ Cardinality(TablePages) = Cardinality(DOMAIN tables)
                    /\ Bitmap \cap TablePages = {} /\ Bitmap \cap heap = {}
                    /\ TablePages \cap heap = {}
                    /\ (ImageFrames \cup StackFrames) \cap (Bitmap \cup TablePages \cup heap) = {}
                    /\ want = "nothing" => owned = TablePages \cup heap
  BY DEF PagesApart
<1> HIDE DEF Bitmap
<1>1. Booted /\ bitmapPhys \in Nat /\ bitmapSize \in Nat /\ bitmapPhys >= PAGE_SIZE
  BY DEF IndInv, BootInv, TypeOK, BitmapPageInv
<1>2. Held \subseteq owned /\ owned \subseteq Pool
  BY <1>1 DEF PagesInv, IndInv, PartitionInv
<1>3. Bitmap \subseteq Storage /\ Bitmap \subseteq UsablePages(memmap)
  BY <1>1 DEF Bitmap, IndInv, StorageInv
<1>4. 0 \notin Bitmap
  <2>1. PAGE_SIZE \in Nat \ {0}
    BY PMMAssumption
  <2>2. PageOf(bitmapPhys) >= 1 /\ PageOf(bitmapPhys) \in Nat
    <3>1. PageOf(PAGE_SIZE * 1) = 1
      BY PageOfMultiple
    <3>2. PAGE_SIZE * 1 = PAGE_SIZE
      BY <2>1
    <3>3. PageOf(PAGE_SIZE) <= PageOf(bitmapPhys)
      BY <1>1, <2>1, DivMonotone DEF PageOf
    <3>4. PageOf(bitmapPhys) \in Nat
      BY <1>1, <2>1, DivMod DEF PageOf
    <3> QED BY <3>1, <3>2, <3>3, <3>4
  <2>3. ASSUME NEW p \in Bitmap PROVE p # 0
    <3>1. p \in PagesTouched(bitmapPhys, bitmapSize)
      BY DEF Bitmap
    <3>2. PageOf(bitmapPhys) <= p /\ p \in Nat
      BY <1>1, <3>1, TouchedPage
    <3> QED BY <2>2, <3>2
  <2> QED BY <2>3
<1> DEFINE All == Bitmap \cup TablePages \cup heap
<1>5. All \subseteq UsablePages(memmap) /\ 0 \notin All
  BY <1>2, <1>3, <1>4 DEF Pool, Held
<1>6. Bitmap \cap TablePages = {} /\ Bitmap \cap heap = {}
  BY <1>2, <1>3 DEF Pool, Held
<1> HIDE DEF All
<1>7. ASSUME NEW p \in All
      PROVE  p \in LimineFree /\ p \notin ImageFrames /\ p \notin StackFrames
  <2>1. StartTypes /\ p \in UsablePages(memmap)
    BY <1>5, <1>7 DEF StagePart
  <2>2. PICK i \in DOMAIN memmap : /\ limine.entries[i].type = LimineUsable
                                   /\ p \in FramesOf(limine.entries[i])
    BY <2>1, UsableFrames
  <2>3. i \in DOMAIN limine.entries
    BY <2>1, MapLength
  <2>4. p \in LimineFree
    BY <2>2, <2>3 DEF LimineFree
  <2>5. p \notin ImageFrames
    BY <2>2, <2>3 DEF Sound, ImageFrames
  <2>6. p \notin StackFrames
    BY <2>2, <2>3 DEF Sound, StackFrames
  <2> QED BY <2>4, <2>5, <2>6
<1>8. want = "nothing" => owned = TablePages \cup heap
  BY DEF PagesInv, Returning, Held
<1>9. All \subseteq LimineFree \ {0} /\ (ImageFrames \cup StackFrames) \cap All = {}
  BY <1>5, <1>7
<1> QED BY <1>6, <1>8, <1>9 DEF PagesInv, All

\* The name that an entry of Limine's type t is printed under.
NameOf(t) ==
  boot_proto_memmap_type_to_str(IF t \in LimineTypes THEN TypeTable[t + 1]
                                ELSE "BOOT_PROTO_MEMMAP_UNKNOWN")

LEMMA Names ==
  /\ NameOf(0) = "Usable" /\ NameOf(1) = "Reserved" /\ NameOf(2) = "ACPI Reclaimable"
  /\ NameOf(3) = "ACPI NVS" /\ NameOf(4) = "Bad Memory"
  /\ NameOf(5) = "Bootloader Reclaimable" /\ NameOf(6) = "Kernel and Modules"
  /\ NameOf(7) = "Framebuffer"
  /\ \A t \in Nat \ LimineTypes : NameOf(t) = "Unknown"
<1>1. /\ TypeTable[1] = "BOOT_PROTO_MEMMAP_USABLE"
      /\ TypeTable[2] = "BOOT_PROTO_MEMMAP_RESERVED"
      /\ TypeTable[3] = "BOOT_PROTO_MEMMAP_ACPI_RECLAIMABLE"
      /\ TypeTable[4] = "BOOT_PROTO_MEMMAP_ACPI_NVS"
      /\ TypeTable[5] = "BOOT_PROTO_MEMMAP_BAD_MEMORY"
      /\ TypeTable[6] = "BOOT_PROTO_MEMMAP_BOOTLOADER_RECLAIMABLE"
      /\ TypeTable[7] = "BOOT_PROTO_MEMMAP_KERNEL_AND_MODULES"
      /\ TypeTable[8] = "BOOT_PROTO_MEMMAP_FRAMEBUFFER"
  BY DEF TypeTable, USABLE
<1>2. \A t \in LimineTypes : NameOf(t) = boot_proto_memmap_type_to_str(TypeTable[t + 1])
  BY DEF NameOf
<1>3. \A t \in 0 .. 7 : t \in LimineTypes
  BY DEF LimineTypes
<1>4. /\ NameOf(0) = boot_proto_memmap_type_to_str(TypeTable[1])
      /\ NameOf(1) = boot_proto_memmap_type_to_str(TypeTable[2])
      /\ NameOf(2) = boot_proto_memmap_type_to_str(TypeTable[3])
      /\ NameOf(3) = boot_proto_memmap_type_to_str(TypeTable[4])
      /\ NameOf(4) = boot_proto_memmap_type_to_str(TypeTable[5])
      /\ NameOf(5) = boot_proto_memmap_type_to_str(TypeTable[6])
      /\ NameOf(6) = boot_proto_memmap_type_to_str(TypeTable[7])
      /\ NameOf(7) = boot_proto_memmap_type_to_str(TypeTable[8])
  BY <1>2, <1>3
<1>5. \A t \in Nat \ LimineTypes : NameOf(t) = "Unknown"
  BY DEF NameOf, boot_proto_memmap_type_to_str
<1>6. /\ boot_proto_memmap_type_to_str("BOOT_PROTO_MEMMAP_USABLE") = "Usable"
      /\ boot_proto_memmap_type_to_str("BOOT_PROTO_MEMMAP_RESERVED") = "Reserved"
  BY DEF boot_proto_memmap_type_to_str
<1>7. /\ boot_proto_memmap_type_to_str("BOOT_PROTO_MEMMAP_ACPI_RECLAIMABLE")
           = "ACPI Reclaimable"
      /\ boot_proto_memmap_type_to_str("BOOT_PROTO_MEMMAP_ACPI_NVS") = "ACPI NVS"
  BY DEF boot_proto_memmap_type_to_str
<1>8. /\ boot_proto_memmap_type_to_str("BOOT_PROTO_MEMMAP_BAD_MEMORY") = "Bad Memory"
      /\ boot_proto_memmap_type_to_str("BOOT_PROTO_MEMMAP_BOOTLOADER_RECLAIMABLE")
           = "Bootloader Reclaimable"
  BY DEF boot_proto_memmap_type_to_str
<1>9. /\ boot_proto_memmap_type_to_str("BOOT_PROTO_MEMMAP_KERNEL_AND_MODULES")
           = "Kernel and Modules"
      /\ boot_proto_memmap_type_to_str("BOOT_PROTO_MEMMAP_FRAMEBUFFER") = "Framebuffer"
  BY DEF boot_proto_memmap_type_to_str
<1>10. /\ NameOf(0) = "Usable" /\ NameOf(1) = "Reserved"
       /\ NameOf(2) = "ACPI Reclaimable" /\ NameOf(3) = "ACPI NVS"
  BY <1>1, <1>4, <1>6, <1>7
<1>11. /\ NameOf(4) = "Bad Memory" /\ NameOf(5) = "Bootloader Reclaimable"
       /\ NameOf(6) = "Kernel and Modules" /\ NameOf(7) = "Framebuffer"
  BY <1>1, <1>4, <1>8, <1>9
<1> QED BY <1>5, <1>10, <1>11

LEMMA NamesApart ==
  ASSUME NEW s \in Nat, NEW t \in Nat
  PROVE  NameOf(s) = NameOf(t) <=> (s = t \/ {s, t} \cap LimineTypes = {})
<1>1. \A u \in LimineTypes : u = 0 \/ u = 1 \/ u = 2 \/ u = 3 \/ u = 4 \/ u = 5 \/ u = 6 \/ u = 7
  BY DEF LimineTypes
<1>2. \A u \in LimineTypes : NameOf(u) # "Unknown"
  BY <1>1, Names
<1>3. CASE s \in LimineTypes /\ t \in LimineTypes
  <2>1. ASSUME s # t PROVE NameOf(s) # NameOf(t)
    <3>1. t = 0 \/ t = 1 \/ t = 2 \/ t = 3 \/ t = 4 \/ t = 5 \/ t = 6 \/ t = 7
      BY <1>1, <1>3
    <3>2. CASE s = 0
      BY <2>1, <3>1, <3>2, Names
    <3>3. CASE s = 1
      BY <2>1, <3>1, <3>3, Names
    <3>4. CASE s = 2
      BY <2>1, <3>1, <3>4, Names
    <3>5. CASE s = 3
      BY <2>1, <3>1, <3>5, Names
    <3>6. CASE s = 4
      BY <2>1, <3>1, <3>6, Names
    <3>7. CASE s = 5
      BY <2>1, <3>1, <3>7, Names
    <3>8. CASE s = 6
      BY <2>1, <3>1, <3>8, Names
    <3>9. CASE s = 7
      BY <2>1, <3>1, <3>9, Names
    <3> QED BY <1>1, <1>3, <3>2, <3>3, <3>4, <3>5, <3>6, <3>7, <3>8, <3>9
  <2> QED BY <1>3, <2>1
<1>4. CASE s \in LimineTypes /\ t \notin LimineTypes
  <2>1. NameOf(t) = "Unknown" /\ NameOf(s) # "Unknown" /\ s # t
    BY <1>2, <1>4, Names
  <2> QED BY <1>4, <2>1
<1>5. CASE s \notin LimineTypes /\ t \in LimineTypes
  <2>1. NameOf(s) = "Unknown" /\ NameOf(t) # "Unknown" /\ s # t
    BY <1>2, <1>5, Names
  <2> QED BY <1>5, <2>1
<1>6. CASE s \notin LimineTypes /\ t \notin LimineTypes
  <2>1. NameOf(s) = "Unknown" /\ NameOf(t) = "Unknown"
    BY <1>6, Names
  <2> QED BY <1>6, <2>1
<1> QED BY <1>3, <1>4, <1>5, <1>6

LEMMA ListedFromInv ==
  ASSUME StartTypes, ListInv
  PROVE  ListedApart
<1>1. limine \in Loaders /\ memmap = MemMapOf(limine)
  BY DEF StartTypes
<1>2. DOMAIN listed \subseteq DOMAIN memmap /\ DOMAIN memmap = DOMAIN limine.entries
  <2>1. DOMAIN listed = 1 .. Len(listed) /\ Len(listed) \in Nat
    BY DEF ListInv
  <2>2. Len(memmap) \in Nat /\ DOMAIN memmap = 1 .. Len(memmap)
        /\ DOMAIN memmap = DOMAIN limine.entries
    BY MapLength
  <2> QED BY <2>1, <2>2 DEF ListInv
<1>3. ASSUME NEW i \in DOMAIN listed
      PROVE  limine.entries[i].type \in Nat /\ listed[i] = NameOf(limine.entries[i].type)
  <2>1. i \in DOMAIN limine.entries
    BY <1>2
  <2>2. /\ limine.entries[i].type \in Nat
        /\ memmap[i].type = IF limine.entries[i].type \in LimineTypes
                            THEN TypeTable[limine.entries[i].type + 1]
                            ELSE "BOOT_PROTO_MEMMAP_UNKNOWN"
    BY <1>1, <2>1, MapEntries
  <2> QED BY <2>2 DEF ListInv, NameOf
<1> QED BY <1>3, NamesApart DEF ListedApart

-----------------------------------------------------------------------------
(***************************************************************************)
(* The theorems.                                                           *)
(***************************************************************************)
StartInv == StagePart /\ PagesInv /\ BitmapPageInv /\ ListInv

LEMMA StartInit == BootInit => StartInv /\ MapPart /\ FaultsOnlyUnanswered
<1> SUFFICES ASSUME BootInit PROVE StartInv /\ MapPart /\ FaultsOnlyUnanswered
  OBVIOUS
<1>1. /\ limine \in Loaders /\ memmap = MemMapOf(limine) /\ stage = "gdt" /\ idt = FALSE
      /\ cr3 = "loader" /\ DOMAIN tables = {} /\ DOMAIN space = {} /\ range = 1 /\ off = 0
      /\ want = "nothing" /\ heap = {} /\ listed = << >>
      /\ pc = "boot" /\ bitmapSize = 0 /\ owned = {}
  BY DEF BootInit, Init
<1>2. Len(memmap) \in Nat /\ DOMAIN memmap = 1 .. Len(memmap)
  BY <1>1, MapEntries
<1>3. StartTypes
  <2>1. IsFiniteSet(DOMAIN tables)
    BY <1>1, FS_EmptySet
  <2>2. range \in 1 .. (Len(memmap) + 2) /\ off \in Nat
    BY <1>1, <1>2
  <2> QED BY <1>1, <2>1, <2>2 DEF StartTypes, Stages
<1>4. StageInv
  BY <1>1 DEF StageInv, Early, Late
<1>5. PagesInv
  <2>1. TablePages = {}
    BY <1>1 DEF TablePages
  <2> QED BY <1>1, <2>1 DEF PagesInv, Returning, Held
<1>6. BitmapPageInv /\ FaultsOnlyUnanswered
  BY <1>1 DEF BitmapPageInv, FaultsOnlyUnanswered
<1>7. ListInv
  <2>1. listed \in Seq(TypeNames) /\ Len(listed) = 0 /\ DOMAIN listed = {}
    BY <1>1
  <2> QED BY <1>2, <2>1 DEF ListInv
<1>8. MapPart
  <2>1. UpTo(memmap, limine, 1, 0) = {}
    <3>1. PAGE_SIZE \in Nat
      BY PMMAssumption
    <3>2. \A j \in Nat : PAGE_SIZE * j \in Nat
      BY <3>1
    <3>3. \A j \in Nat : ~(PAGE_SIZE * j < 0)
      BY <3>2
    <3> QED BY <3>3 DEF UpTo
  <2>2. 1 .. (range - 1) = {}
    BY <1>1
  <2>3. off % PAGE_SIZE = 0
    BY <1>1, PMMAssumption
  <2> QED BY <1>1, <2>1, <2>2, <2>3 DEF MapPart, SpaceInv, CoverInv
<1> QED BY <1>3, <1>4, <1>5, <1>6, <1>7, <1>8 DEF StartInv, StagePart

LEMMA StartStep ==
  ASSUME StartInv, IndInv, IndInv', [BootNext]_allVars
  PROVE  StartInv'
<1>1. NoLateAssert'
  BY DEF IndInv, BootInv
<1>2. StagePart /\ StartTypes /\ PagesInv /\ BitmapPageInv /\ ListInv
  BY DEF StartInv, StagePart
<1>3. StagePart' /\ PagesInv' /\ BitmapPageInv' /\ ListInv'
  BY <1>1, <1>2, StageStep, PagesStep, BitmapPageStep, ListStep
<1> QED BY <1>3 DEF StartInv

LEMMA BootInvariance == BootSpec => [](IndInv /\ StartInv)
<1>1. BootInit => StartInv
  BY StartInit
<1>2. IndInv /\ IndInv' /\ StartInv /\ [BootNext]_allVars => StartInv'
  BY StartStep
<1>3. BootSpec => []IndInv
  BY BootIsPMMClient, NothingFreed, Invariance, PTL
<1> QED BY <1>1, <1>2, <1>3, PTL DEF BootSpec

\* The variables of _start and of pmm.c have their types, whatever Limine
\* left behind.
THEOREM BootTypes == BootSpec => []BootTypeOK
<1>1. IndInv /\ StartInv => BootTypeOK
  BY DEF IndInv, StartInv, StagePart, StartTypes, BootTypeOK
<1> QED BY <1>1, BootInvariance, PTL

\* print_memmap of kernel.c gives entries of different types different names.
THEOREM TypesListedApart == BootSpec => []ListedApart
<1>1. StartInv => ListedApart
  BY ListedFromInv DEF StartInv, StagePart
<1> QED BY <1>1, BootInvariance, PTL

LEMMA LoaderSound == SoundLoaders /\ StartInv => Sound(limine)
BY DEF SoundLoaders, StartInv, StagePart, StartTypes

\* If Limine keeps the kernel and the stack out of usable memory, bitmap,
\* page tables and heap never share a page with them or with each other.
THEOREM PagesStayApart == SoundLoaders => (BootSpec => []PagesApart)
<1> SUFFICES ASSUME SoundLoaders PROVE BootSpec => []PagesApart
  OBVIOUS
<1>1. IndInv /\ StartInv => PagesApart
  BY LoaderSound, ApartFromInv DEF StartInv
<1> QED BY <1>1, BootInvariance, PTL

\* If the addresses in Limine's answers are what it promises, _start faults
\* only at an answer that is missing; vmm_init maps all that the rest of the
\* boot sequence touches before vmm_switch_pagetable.
THEOREM NoOtherFault == SoundLoaders => (BootSpec => []FaultsOnlyUnanswered)
<1> SUFFICES ASSUME SoundLoaders PROVE BootSpec => []FaultsOnlyUnanswered
  OBVIOUS
<1>1. BootInit => MapPart /\ FaultsOnlyUnanswered
  BY StartInit
<1>2. /\ IndInv /\ StartInv /\ MapPart /\ FaultsOnlyUnanswered
      /\ [BootNext]_allVars
      => (MapPart /\ FaultsOnlyUnanswered)'
  <2> SUFFICES ASSUME IndInv, StartInv, MapPart, FaultsOnlyUnanswered, [BootNext]_allVars
               PROVE  MapPart' /\ FaultsOnlyUnanswered'
    OBVIOUS
  <2>1. StagePart /\ PagesInv /\ BitmapPageInv
    BY DEF StartInv
  <2>2. Sound(limine)
    BY LoaderSound
  <2>3. MapPart'
    BY <2>1, <2>2, MapPartStep
  <2>4. FaultsOnlyUnanswered'
    BY <2>1, <2>2, FaultStep
  <2> QED BY <2>3, <2>4
<1> QED BY <1>1, <1>2, BootInvariance, PTL DEF BootSpec
=============================================================================
