------------------------------- MODULE PageTables -------------------------------
(***************************************************************************)
(* Virtual memory: the x86-64 page tables of symphony/arch/x86_64/mm.c and *)
(* the manager on top of them, symphony/mm/vmm.c.                          *)
(*                                                                         *)
(* The walk of page_from_index, which allocates the tables it misses, is   *)
(* executed one level per step, and the CPU may load a translation into    *)
(* its TLB between any two steps.  Frames come from PageAllocator.         *)
(* Names ending in _mut are faulty variants of what follows them.          *)
(***************************************************************************)
EXTENDS Integers, Sequences, FiniteSets

CONSTANTS
  PAGE_SIZE,
  ENTRIES,        \* entries per table (512)
  Frames,         \* the page frames that pmm_init made available
  MemMap,         \* the memory map, as a sequence of bases and lengths
  HHDM,           \* boot_proto_hhdm_offset()
  Kernel,         \* the kernel's physical base, virtual base and size
  VirtAddrs,      \* virtual addresses that callers map, unmap, ...
  RangeSizes,     \* sizes that callers pass to vmm_map_range
  FlagSets,       \* flags that callers pass, e.g. {"PRESENT", "RW"}
  MaxRoots,       \* bound: page tables at a time
  MaxHeld         \* bound: frames that callers hold at a time

ASSUME PageTablesAssumption ==
  /\ PAGE_SIZE \in Nat \ {0}
  /\ ENTRIES \in Nat /\ ENTRIES > 1
  /\ Frames \subseteq Nat \ {0}
  /\ MemMap \in Seq([base : Nat, length : Nat])
  /\ HHDM \in Nat
  /\ Kernel \in [pa : Nat, va : Nat, size : Nat]
  /\ VirtAddrs \subseteq Nat /\ RangeSizes \subseteq Nat \ {0}
  /\ FlagSets \subseteq SUBSET {"PRESENT", "RW", "USER", "EXEC"}
  /\ MaxRoots \in Nat /\ MaxHeld \in Nat

VARIABLES
  usable, phase, avail, owned,  \* the page allocator
  tables,    \* the page tables in memory, by frame
  roots,     \* frames of the top-level tables that callers hold
  kernelPT,  \* the one of the kernel
  cr3,
  tlb,       \* cached translations: virtual page, frame and rights
  held,      \* frames that callers got for data
  todo,      \* ranges vmm_init has still to map
  pc,        \* "boot", "init", "idle", "walk" or "invlpg"
  call,      \* the running call
  level,     \* level of the table that page_from_index has reached, 1 .. 4
  cur        \* and its frame

pageVars == <<usable, phase, avail, owned>>
cpuVars == <<cr3, tlb>>
vars == <<pageVars, tables, roots, kernelPT, cpuVars, held, todo, pc, call, level, cur>>

PMM == INSTANCE PageAllocator WITH Requests <- {}

NONE == 0  \* NULL: frame 0 is never allocated

-----------------------------------------------------------------------------
(***************************************************************************)
(* Entries and addresses.                                                  *)
(***************************************************************************)
PageOf(addr) == addr \div PAGE_SIZE

\* The virtual address, shifted further for every level above the last.
Shifts(va) ==
  LET P == PageOf(va)  PT == P \div ENTRIES  PD == PT \div ENTRIES
  IN  << PD \div ENTRIES, PD, PT, P >>

page_index_mut(va, l) ==  \* one shift is missing: PTi is Pi
  Shifts(va)[IF l = 3 THEN 4 ELSE l] % ENTRIES

\* page_index: PDPi, PDi, PTi and Pi are the indexes of levels 1 to 4.
page_index(va, l) == Shifts(va)[l] % ENTRIES

Indexes == 0 .. (ENTRIES - 1)

\* All bits are zero, the no-execute bit too.
Empty == [present |-> FALSE, addr |-> 0, rights |-> {"EXEC"}]

EmptyTable == [i \in Indexes |-> Empty]

TableEntry(f) == [present |-> TRUE, addr |-> f, rights |-> {"RW", "USER", "EXEC"}]

\* The present entries for level l of va in the tables S.
EntriesIn(S, va, l) == {e \in {tables[t][page_index(va, l)] : t \in S} : e.present}

Follow(S, va, l) == {e.addr : e \in EntriesIn(S, va, l)}

\* The entry that translates va, if there is one.
Translating(pt, va) == EntriesIn(Follow(Follow(Follow({pt}, va, 1), va, 2), va, 3), va, 4)

Lookup(pt, va) ==
  IF Translating(pt, va) = {} THEN Empty ELSE CHOOSE e \in Translating(pt, va) : TRUE

Present(S) == {e \in {tables[f][i] : f \in S, i \in Indexes} : e.present}

Targets(S) == {e.addr : e \in Present(S)}

\* The tables of levels 1, 2, 3 and 4 below the top-level tables S.
Tables(S) ==
  LET L2 == Targets(S) L3 == Targets(L2) L4 == Targets(L3)
  IN  S \cup L2 \cup L3 \cup L4

-----------------------------------------------------------------------------
NoCall == [op |-> "none", pt |-> NONE, va |-> 0, pa |-> 0, size |-> 0, i |-> 0, flags |-> {}]

Shifted_mut(e) ==  \* an entry at address 0 is dropped
  IF e.base # 0 THEN e ELSE [base |-> PAGE_SIZE, length |-> 0]

Shifted(e) ==
  IF e.base # 0 THEN e
  ELSE [base |-> PAGE_SIZE,
        length |-> IF e.length >= PAGE_SIZE THEN e.length - PAGE_SIZE ELSE 0]

\* What vmm_init maps: the memory map at the HHDM offset, then the kernel.
InitRanges ==
  [k \in DOMAIN MemMap |-> LET e == Shifted(MemMap[k])
                           IN  [pa |-> e.base, va |-> e.base + HHDM, size |-> e.length]]
  \o << Kernel >>

Init ==
  /\ usable = Frames /\ phase = "run" /\ avail = Frames /\ owned = {}
  /\ tables = [f \in {} |-> EmptyTable]
  /\ roots = {} /\ kernelPT = NONE /\ cr3 = NONE /\ tlb = {} /\ held = {}
  /\ todo = << >>
  /\ pc = "boot" /\ call = NoCall /\ level = 1 /\ cur = NONE

NewTable(f) == [g \in DOMAIN tables \cup {f} |-> IF g = f THEN EmptyTable ELSE tables[g]]

\* page_from_index starts at the top-level table.
StartWalk(c) == pc' = "walk" /\ call' = c /\ level' = 1 /\ cur' = c.pt

Idle == /\ pc' = IF cr3 = NONE THEN "init" ELSE "idle"
        /\ call' = NoCall /\ level' = 1 /\ cur' = NONE

-----------------------------------------------------------------------------
(***************************************************************************)
(* vmm_init.                                                               *)
(***************************************************************************)
vmm_init ==
  /\ pc = "boot" /\ phase = "run"
  /\ \E f \in avail : /\ PMM!Alloc(f, 1)
                      /\ tables' = NewTable(f)
                      /\ kernelPT' = f
                      /\ roots' = {f}
  /\ todo' = InitRanges
  /\ pc' = "init"
  /\ UNCHANGED <<cpuVars, held, call, level, cur>>

\* vmm_map_range with the next range; one of size 0 is done at once.
vmm_init_range ==
  /\ pc = "init" /\ phase = "run" /\ todo # << >>
  /\ LET r == Head(todo) IN
     IF r.size = 0
     THEN UNCHANGED <<pc, call, level, cur>>
     ELSE StartWalk([op |-> "map", pt |-> kernelPT, va |-> r.va, pa |-> r.pa,
                     size |-> r.size, i |-> 0, flags |-> {"PRESENT", "RW", "EXEC"}])
  /\ todo' = Tail(todo)
  /\ UNCHANGED <<pageVars, tables, roots, kernelPT, cpuVars, held>>

vmm_init_switch ==
  /\ pc = "init" /\ phase = "run" /\ todo = << >>
  /\ cr3' = kernelPT /\ tlb' = {}
  /\ pc' = "idle"
  /\ UNCHANGED <<pageVars, tables, roots, kernelPT, held, todo, call, level, cur>>

-----------------------------------------------------------------------------
(***************************************************************************)
(* The operations.                                                         *)
(***************************************************************************)
arch_vmm_new_pt ==
  /\ pc = "idle" /\ phase = "run" /\ Cardinality(roots) < MaxRoots
  /\ \E f \in avail : /\ PMM!Alloc(f, 1)
                      /\ tables' = NewTable(f)
                      /\ roots' = roots \cup {f}
  /\ UNCHANGED <<kernelPT, cpuVars, held, todo, pc, call, level, cur>>

\* The tables below the lower half of the top-level tables S.
Lower(S) ==
  {e.addr : e \in {x \in {tables[t][i] : t \in S, i \in 0 .. (ENTRIES \div 2 - 1)} :
                     x.present}}

LowerHalf_mut(pt) ==  \* starts with entry 1
  {tables[pt][i].addr : i \in {j \in 1 .. (ENTRIES \div 2 - 1) : tables[pt][j].present}}

\* The tables of the lower half and everything they map are freed, then the
\* top-level table.
LowerHalf(pt) == Lower({pt})

FramesIn_mut(S) ==  \* present is not tested
  {tables[f][i].addr : f \in S, i \in Indexes}

\* The frames that the last-level tables S map.
FramesIn(S) == Targets(S)

arch_vmm_destroy_pt(pt) ==
  LET L2 == LowerHalf(pt)
      L3 == Targets(L2)
      L4 == Targets(L3)
      freedTables == {pt} \cup L2 \cup L3 \cup L4
      freed == freedTables \cup FramesIn(L4)
  IN
  /\ pc = "idle" /\ phase = "run"
  /\ avail' = avail \cup freed
  /\ owned' = owned \ freed
  /\ tables' = [f \in DOMAIN tables \ freedTables |-> tables[f]]
  /\ roots' = roots \ {pt}
  /\ held' = held \ freed
  /\ UNCHANGED <<usable, phase, kernelPT, cpuVars, todo, pc, call, level, cur>>

arch_vmm_switch(pt) ==
  /\ pc = "idle" /\ phase = "run"
  /\ cr3' = pt /\ tlb' = {}
  /\ UNCHANGED <<pageVars, tables, roots, kernelPT, held, todo, pc, call, level, cur>>

\* vmm_map is the range of one byte.
vmm_map_range(pt, pa, va, size, flags) ==
  /\ pc = "idle" /\ phase = "run"
  /\ StartWalk([op |-> "map", pt |-> pt, va |-> va, pa |-> pa, size |-> size,
                i |-> 0, flags |-> flags])
  /\ UNCHANGED <<pageVars, tables, roots, kernelPT, cpuVars, held, todo>>

arch_vmm_unmap(pt, va) ==
  /\ pc = "idle" /\ phase = "run"
  /\ StartWalk([NoCall EXCEPT !.op = "unmap", !.pt = pt, !.va = va, !.size = 1])
  /\ UNCHANGED <<pageVars, tables, roots, kernelPT, cpuVars, held, todo>>

arch_vmm_set_flags(pt, va, flags) ==
  /\ pc = "idle" /\ phase = "run"
  /\ StartWalk([NoCall EXCEPT !.op = "flags", !.pt = pt, !.va = va, !.size = 1,
                              !.flags = flags])
  /\ UNCHANGED <<pageVars, tables, roots, kernelPT, cpuVars, held, todo>>

-----------------------------------------------------------------------------
(***************************************************************************)
(* page_from_index and what is done with the entry it returns.             *)
(***************************************************************************)
Index == page_index(call.va + call.i, level)

Descend_mut ==  \* one level too far
  /\ pc = "walk" /\ phase = "run" /\ level < 5
  /\ tables[cur][Index].present
  /\ cur' = tables[cur][Index].addr
  /\ level' = level + 1
  /\ UNCHANGED <<pageVars, tables, roots, kernelPT, cpuVars, held, todo, pc, call>>

Descend ==
  /\ pc = "walk" /\ phase = "run" /\ level < 4
  /\ tables[cur][Index].present
  /\ cur' = tables[cur][Index].addr
  /\ level' = level + 1
  /\ UNCHANGED <<pageVars, tables, roots, kernelPT, cpuVars, held, todo, pc, call>>

AllocTable ==
  /\ pc = "walk" /\ phase = "run" /\ level < 4
  /\ ~tables[cur][Index].present
  /\ \E f \in avail : /\ PMM!Alloc(f, 1)
                      /\ tables' = [NewTable(f) EXCEPT ![cur][Index] = TableEntry(f)]
                      /\ cur' = f
  /\ level' = level + 1
  /\ UNCHANGED <<roots, kernelPT, cpuVars, held, todo, pc, call>>

\* pmm_alloc panics: for a table on the way, a top-level table or a frame.
OutOfMemory ==
  /\ \/ pc = "walk" /\ level < 4 /\ ~tables[cur][Index].present
     \/ pc \in {"boot", "idle"}
  /\ PMM!AllocPanic(1)
  /\ UNCHANGED <<tables, roots, kernelPT, cpuVars, held, todo, pc, call, level, cur>>

\* arch_vmm_map stores the frame and calls arch_vmm_set_flags, which walks
\* the tables once more.
StoreAddr ==
  /\ pc = "walk" /\ level = 4 /\ call.op = "map"
  /\ tables' = [tables EXCEPT ![cur][Index].addr = PageOf(call.pa + call.i)]
  /\ StartWalk([call EXCEPT !.op = "map_flags"])
  /\ UNCHANGED <<pageVars, roots, kernelPT, cpuVars, held, todo>>

\* arch_vmm_set_flags, then the next iteration of vmm_map_range.
StoreFlags ==
  /\ pc = "walk" /\ level = 4 /\ call.op \in {"map_flags", "flags"}
  /\ tables' = [tables EXCEPT ![cur][Index].present = "PRESENT" \in call.flags,
                              ![cur][Index].rights = call.flags \ {"PRESENT"}]
  /\ IF call.op = "map_flags" /\ call.i + PAGE_SIZE < call.size
     THEN StartWalk([call EXCEPT !.op = "map", !.i = @ + PAGE_SIZE])
     ELSE Idle
  /\ UNCHANGED <<pageVars, roots, kernelPT, cpuVars, held, todo>>

ClearEntry ==
  /\ pc = "walk" /\ level = 4 /\ call.op = "unmap"
  /\ tables' = [tables EXCEPT ![cur][Index].present = FALSE, ![cur][Index].addr = 0]
  /\ pc' = "invlpg"
  /\ UNCHANGED <<pageVars, roots, kernelPT, cpuVars, held, todo, call, level, cur>>

Invlpg_mut ==  \* flushes nothing
  /\ pc = "invlpg"
  /\ Idle
  /\ UNCHANGED <<pageVars, tables, roots, kernelPT, cpuVars, held, todo>>

Invlpg ==
  /\ pc = "invlpg"
  /\ tlb' = {t \in tlb : t.page # PageOf(call.va)}
  /\ Idle
  /\ UNCHANGED <<pageVars, tables, roots, kernelPT, cr3, held, todo>>

-----------------------------------------------------------------------------
(***************************************************************************)
(* The CPU, and the callers' own frames.                                   *)
(***************************************************************************)

\* The page walker caches what the tables say now.
TLBFill(va) ==
  /\ phase = "run" /\ cr3 # NONE
  /\ LET e == Lookup(cr3, va) IN
     /\ e.present
     /\ tlb' = tlb \cup {[page |-> PageOf(va), frame |-> e.addr, rights |-> e.rights]}
  /\ UNCHANGED <<pageVars, tables, roots, kernelPT, cr3, held, todo, pc, call, level, cur>>

GetFrame ==
  /\ pc = "idle" /\ Cardinality(held) < MaxHeld
  /\ \E f \in avail : PMM!Alloc(f, 1) /\ held' = held \cup {f}
  /\ UNCHANGED <<tables, roots, kernelPT, cpuVars, todo, pc, call, level, cur>>

PutFrame(f) ==
  /\ pc = "idle"
  /\ PMM!Free(f, 1)
  /\ held' = held \ {f}
  /\ UNCHANGED <<tables, roots, kernelPT, cpuVars, todo, pc, call, level, cur>>

Halted == phase = "halt" /\ UNCHANGED vars

-----------------------------------------------------------------------------
(***************************************************************************)
(* How callers use the operations: they map frames they hold at addresses  *)
(* of the lower half that are not mapped, a frame at one place at a time,  *)
(* and unmap a frame before they give it back; flags are set for mapped    *)
(* addresses; the page table in use is not destroyed.                      *)
(***************************************************************************)

\* The frames that callers have mapped.
UserFrames == Targets(Targets(Targets(Lower(roots))))

\* A canonical address of the lower half.
IsLower(va) == Shifts(va)[1] < ENTRIES \div 2

Mappable(pt, pa, va) ==
  IsLower(va) /\ ~Lookup(pt, va).present /\ PageOf(pa) \in held \ UserFrames

UserMap ==
  \E pt \in roots, va \in VirtAddrs, f \in held, n \in RangeSizes, fl \in FlagSets :
    LET pa == f * PAGE_SIZE + (va % PAGE_SIZE) IN
    /\ \A b \in 0 .. (n - 1) : Mappable(pt, pa + b, va + b)
    /\ vmm_map_range(pt, pa, va, n, fl)

UserSetFlags ==
  \E pt \in roots, va \in VirtAddrs, fl \in FlagSets :
    /\ Lookup(pt, va).present
    /\ arch_vmm_set_flags(pt, va, fl)

Step ==
  \/ vmm_init_range \/ vmm_init_switch
  \/ Descend \/ AllocTable \/ OutOfMemory
  \/ StoreAddr \/ StoreFlags \/ ClearEntry \/ Invlpg

Next ==
  \/ vmm_init
  \/ Step
  \/ arch_vmm_new_pt
  \/ \E pt \in roots \ {kernelPT, cr3} : arch_vmm_destroy_pt(pt)
  \/ \E pt \in roots : arch_vmm_switch(pt)
  \/ UserMap
  \/ \E pt \in roots, va \in VirtAddrs : arch_vmm_unmap(pt, va)
  \/ UserSetFlags
  \/ \E va \in VirtAddrs : TLBFill(va)
  \/ GetFrame
  \/ \E f \in held \ UserFrames : PutFrame(f)
  \/ Halted

Spec == Init /\ [][Next]_vars

-----------------------------------------------------------------------------
(***************************************************************************)
(* Properties.                                                             *)
(***************************************************************************)
EntryType == [present : BOOLEAN, addr : Nat, rights : SUBSET {"RW", "USER", "EXEC"}]

TypeOK ==
  /\ phase \in {"run", "halt"} /\ avail \subseteq Nat /\ owned \subseteq usable
  /\ DOMAIN tables \subseteq Nat
  /\ \A f \in DOMAIN tables : DOMAIN tables[f] = Indexes
                             /\ \A i \in Indexes : tables[f][i] \in EntryType
  /\ roots \subseteq DOMAIN tables
  /\ {kernelPT, cr3} \subseteq roots \cup {NONE}
  /\ held \subseteq Nat
  /\ pc \in {"boot", "init", "idle", "walk", "invlpg"}
  /\ call.op \in {"none", "map", "map_flags", "flags", "unmap"}
  /\ level \in 1 .. 4
  /\ cur \in DOMAIN tables \cup {NONE}

\* The page tables are trees of their own: every table is reached by exactly
\* one entry, a top-level table by none, and no table lies in a frame that is
\* free or that a caller holds for data.  None is forgotten: every table in
\* memory belongs to a page table that is still there (common.h: "Free
\* top-level page table and all sub-page tables").
TreeShaped ==
  LET L2 == Targets(roots)
      L3 == Targets(L2)
      inner == roots \cup L2 \cup L3
      RefsTo(f) == {r \in inner \X Indexes :
                      LET e == tables[r[1]][r[2]] IN e.present /\ e.addr = f}
  IN
  /\ L2 \subseteq DOMAIN tables /\ L3 \subseteq DOMAIN tables
  /\ Targets(L3) \subseteq DOMAIN tables
  /\ \A f \in roots : RefsTo(f) = {}
  /\ \A f \in Tables(roots) \ roots : Cardinality(RefsTo(f)) = 1
  /\ Tables(roots) \cap (avail \cup held) = {}
  /\ Tables(roots) = DOMAIN tables

\* The CPU never uses a translation to a frame that has been given back:
\* arch_vmm_unmap removes the entry before it flushes the TLB.
TLBNeverDangles == \A t \in tlb : t.frame \notin avail

\* Between two calls the CPU grants no access that the page table in use does
\* not grant (common.h: "Set virtual page flags").
TLBRightsCurrent ==
  pc = "idle" =>
    \A t \in tlb : LET e == Lookup(cr3, t.page * PAGE_SIZE) IN
                   e.present => t.frame = e.addr /\ t.rights \subseteq e.rights

\* Once vmm_init has switched to the kernel's page table, every byte of the
\* memory map outside page 0 is mapped at the HHDM offset and every byte of
\* the kernel at its virtual base, and no later call for other addresses
\* disturbs this.
KernelMapped ==
  LET MapsTo(va, pa) ==
        Lookup(kernelPT, va) =
          [present |-> TRUE, addr |-> PageOf(pa), rights |-> {"RW", "EXEC"}]
  IN
  cr3 # NONE =>
    /\ \A k \in DOMAIN MemMap :
         \A pa \in MemMap[k].base .. (MemMap[k].base + MemMap[k].length - 1) :
           PageOf(pa) # 0 => MapsTo(pa + HHDM, pa)
    /\ \A b \in 0 .. (Kernel.size - 1) : MapsTo(Kernel.va + b, Kernel.pa + b)

\* The walk, the allocation of tables on the way and the separate stores of
\* the frame and the flags do not show: seen through the CPU's page walk, a
\* call changes the translation of the page it was called for, in the page
\* table it was called for, to what it was called for, in one step, and no
\* other step changes any translation (AddressSpace.tla).
Translation(pt, va) ==
  {[frame |-> e.addr, rights |-> e.rights] : e \in Translating(pt, va)}

\* The pages whose translations are compared.
WatchedPages ==
  {PageOf(va) : va \in VirtAddrs} \cup
  UNION {LET r == InitRanges[k] IN
         IF r.size = 0 THEN {} ELSE PageOf(r.va) .. PageOf(r.va + r.size - 1) :
           k \in DOMAIN InitRanges}

JobBar ==
  IF pc # "walk" THEN [op |-> "none", space |-> 0, page |-> 0, to |-> {}]
  ELSE [op |-> IF call.op = "map_flags" THEN "map" ELSE call.op,
        space |-> call.pt, page |-> PageOf(call.va + call.i),
        to |-> {[frame |-> PageOf(call.pa + call.i), rights |-> call.flags \ {"PRESENT"}]}]

Spaces == INSTANCE AddressSpace
  WITH VirtualPages <- WatchedPages, ids <- roots, active <- cr3, job <- JobBar,
       spaces <- [pt \in roots |->
                    [v \in WatchedPages |-> Translation(pt, v * PAGE_SIZE)]]

ImplementsAddressSpace == Spaces!SpaceSpec

\* Only frames that were allocated are given back; frame 0 never (pmm.c:
\* "the first page (page 0) is never used").
FreesOnlyOwned == [][avail' \ avail \subseteq owned]_vars
=============================================================================
