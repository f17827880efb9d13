---------------------------------- MODULE Boot ----------------------------------
(***************************************************************************)
(* The boot sequence, _start of symphony/kernel.c, from the entry by the   *)
(* boot loader to the halt after "Init done", with what the boot protocol  *)
(* layer symphony/boot_proto.c makes of Limine's answers.                  *)
(*                                                                         *)
(* The page frame allocator is PMM itself, bitmap and all: vmm_init and    *)
(* kheap_init call its pmm_alloc and run its loops.  The page tables are   *)
(* kept here by what they map; PageTables.tla has their entries.  An       *)
(* access through a missing answer, or to memory that the page table in    *)
(* use does not map, is a fault: it is reported once the IDT is loaded,    *)
(* and resets the machine before.                                          *)
(* Names ending in _mut are faulty variants of what follows them.          *)
(***************************************************************************)
EXTENDS PMM, FiniteSets

CONSTANTS
  ENTRIES,           \* entries per page table (512)
  KHEAP_INIT_PAGES,  \* pages of the initial heap
  Loaders            \* what the boot loader may have left behind

\* Limine's answers, by request of boot_proto.c.
Answers == {"bootloader_info", "firmware_type", "hhdm", "memmap", "kernel_address",
            "kernel_file"}

\* The kernel is loaded at pa, runs at va, occupies image bytes in memory
\* and file bytes in its file.
Kernels == [pa : Nat, va : Nat, image : Nat, file : Nat]

LoaderStates ==
  [supported : BOOLEAN, answered : SUBSET Answers, firmware : Nat,
   entries : Seq([base : Nat, length : Nat, type : Nat]), kernel : Kernels]

VARIABLES
  limine,    \* what the boot loader left: answers, memory map, kernel
  stage,     \* how far _start has come, or how it ended
  firmware,  \* the firmware that was printed
  listed,    \* the type names that were printed for the memory map
  idt,       \* the IDT is loaded
  cr3,       \* "loader" or "kernel": whose page table is in use
  tables,    \* frames of the kernel's page tables, by level and position
  space,     \* what they map: virtual page to frame
  range,     \* vmm_init: the range it is at, and the offset in it
  off,
  want,      \* what the running pmm_alloc is for
  heap       \* pages of the initial heap

outputVars == <<firmware, listed>>
vmmVars == <<cr3, tables, space, range, off>>
bootVars == <<limine, stage, outputVars, idt, vmmVars, want, heap>>
allVars == <<vars, bootVars>>

-----------------------------------------------------------------------------
(***************************************************************************)
(* boot_proto.c.                                                           *)
(***************************************************************************)
LimineUsable == 0

LimineReclaimable == 5

LimineTypes == 0 .. 7

TypeTable_mut ==  \* two cases are swapped
  << "BOOT_PROTO_MEMMAP_BOOTLOADER_RECLAIMABLE", "BOOT_PROTO_MEMMAP_RESERVED",
     "BOOT_PROTO_MEMMAP_ACPI_RECLAIMABLE", "BOOT_PROTO_MEMMAP_ACPI_NVS",
     "BOOT_PROTO_MEMMAP_BAD_MEMORY", USABLE,
     "BOOT_PROTO_MEMMAP_KERNEL_AND_MODULES", "BOOT_PROTO_MEMMAP_FRAMEBUFFER" >>

\* Limine counts its types from 0.
TypeTable ==
  << USABLE, "BOOT_PROTO_MEMMAP_RESERVED", "BOOT_PROTO_MEMMAP_ACPI_RECLAIMABLE",
     "BOOT_PROTO_MEMMAP_ACPI_NVS", "BOOT_PROTO_MEMMAP_BAD_MEMORY",
     "BOOT_PROTO_MEMMAP_BOOTLOADER_RECLAIMABLE",
     "BOOT_PROTO_MEMMAP_KERNEL_AND_MODULES", "BOOT_PROTO_MEMMAP_FRAMEBUFFER" >>

boot_proto_memmap_entry_get(e) ==
  [base |-> e.base, length |-> e.length,
   type |-> IF e.type \in LimineTypes THEN TypeTable[e.type + 1]
            ELSE "BOOT_PROTO_MEMMAP_UNKNOWN"]

MemMapOf(l) ==
  [i \in DOMAIN l.entries |-> boot_proto_memmap_entry_get(l.entries[i])]

boot_proto_memmap_type_to_str_mut(type) ==  \* two types share a name
  [BOOT_PROTO_MEMMAP_UNKNOWN |-> "Unknown",
   BOOT_PROTO_MEMMAP_USABLE |-> "Usable",
   BOOT_PROTO_MEMMAP_RESERVED |-> "Reserved",
   BOOT_PROTO_MEMMAP_ACPI_RECLAIMABLE |-> "ACPI Reclaimable",
   BOOT_PROTO_MEMMAP_ACPI_NVS |-> "ACPI NVS",
   BOOT_PROTO_MEMMAP_BAD_MEMORY |-> "Bad Memory",
   BOOT_PROTO_MEMMAP_BOOTLOADER_RECLAIMABLE |-> "ACPI Reclaimable",
   BOOT_PROTO_MEMMAP_KERNEL_AND_MODULES |-> "Kernel and Modules",
   BOOT_PROTO_MEMMAP_FRAMEBUFFER |-> "Framebuffer"][type]

boot_proto_memmap_type_to_str(type) ==
  [BOOT_PROTO_MEMMAP_UNKNOWN |-> "Unknown",
   BOOT_PROTO_MEMMAP_USABLE |-> "Usable",
   BOOT_PROTO_MEMMAP_RESERVED |-> "Reserved",
   BOOT_PROTO_MEMMAP_ACPI_RECLAIMABLE |-> "ACPI Reclaimable",
   BOOT_PROTO_MEMMAP_ACPI_NVS |-> "ACPI NVS",
   BOOT_PROTO_MEMMAP_BAD_MEMORY |-> "Bad Memory",
   BOOT_PROTO_MEMMAP_BOOTLOADER_RECLAIMABLE |-> "Bootloader Reclaimable",
   BOOT_PROTO_MEMMAP_KERNEL_AND_MODULES |-> "Kernel and Modules",
   BOOT_PROTO_MEMMAP_FRAMEBUFFER |-> "Framebuffer"][type]

\* Limine's 0, 1 and 2; every other value counts as 64-bit UEFI.
boot_proto_firmware_type(t) ==
  CASE t = 0 -> "x86 BIOS"
    [] t = 1 -> "32-bit UEFI"
    [] OTHER -> "64-bit UEFI"

\* The answer that a stage of _start reads first.
AnswerRead ==
  [blinfo |-> "bootloader_info", firmware |-> "firmware_type", hhdm |-> "hhdm",
   kernel |-> "kernel_address", memmap |-> "memmap"]

-----------------------------------------------------------------------------
(***************************************************************************)
(* What the kernel needs to reach, and what happens when it cannot.        *)
(***************************************************************************)
FramesOf(e) == PagesTouched(e.base, e.length)

\* The stack and Limine's answers are in bootloader reclaimable memory.
StackFrames ==
  UNION {FramesOf(limine.entries[i]) :
           i \in {j \in DOMAIN limine.entries : limine.entries[j].type = LimineReclaimable}}

ImageFrames == PagesTouched(limine.kernel.pa, limine.kernel.image)

DirectMapped(frames) ==
  \A f \in frames : LET v == f + PageOf(HHDM) IN v \in DOMAIN space /\ space[v] = f

ImageMapped ==
  \A f \in ImageFrames :
    LET v == f - PageOf(limine.kernel.pa) + PageOf(limine.kernel.va)
    IN  v \in DOMAIN space /\ space[v] = f

\* Code and stack: without them not even an exception can be reported.
CanRun == cr3 = "loader" \/ (ImageMapped /\ DirectMapped(StackFrames))

\* What else the next step reads or writes.
Accessed ==
  CASE pc \in {"scan", "mark"} -> PagesTouched(bitmapPhys, bitmapSize)
    [] pc = "idle" /\ want = "heap" -> {base}
    [] OTHER -> {}

Unanswered ==
  \/ stage \in DOMAIN AnswerRead /\ AnswerRead[stage] \notin limine.answered
  \/ /\ stage = "vmm" /\ range > Len(memmap)
     /\ "kernel_file" \notin limine.answered

Faulting ==
  \/ Unanswered
  \/ ~CanRun
  \/ cr3 = "kernel" /\ ~DirectMapped(Accessed)

Ended == stage \in {"done", "panic", "fault", "reset"}

Fault ==
  /\ ~Ended /\ Faulting
  /\ stage' = IF idt /\ CanRun THEN "fault" ELSE "reset"
  /\ UNCHANGED <<vars, limine, outputVars, idt, vmmVars, want, heap>>

-----------------------------------------------------------------------------
(***************************************************************************)
(* _start up to the memory map.                                            *)
(***************************************************************************)
BootInit ==
  /\ Init
  /\ limine \in Loaders
  /\ memmap = MemMapOf(limine)
  /\ stage = "gdt"
  /\ firmware = "" /\ listed = << >> /\ idt = FALSE
  /\ cr3 = "loader" /\ tables = [t \in {} |-> 0] /\ space = [v \in {} |-> 0]
  /\ range = 1 /\ off = 0 /\ want = "nothing" /\ heap = {}

\* A step of _start from one stage to the next that changes nothing else.
Goes(from, to) ==
  /\ stage = from /\ stage' = to
  /\ UNCHANGED <<vars, limine, idt, vmmVars, want, heap>>

\* arch_load_gdt and serial_init, neither of which can fail.
start_early ==
  /\ Goes("gdt", "serial") \/ Goes("serial", "supported")
  /\ UNCHANGED outputVars

check_bl_supported ==
  /\ Goes("supported", IF limine.supported THEN "blinfo" ELSE "panic")
  /\ UNCHANGED outputVars

print_bl_info == Goes("blinfo", "firmware") /\ UNCHANGED outputVars

print_firmware ==
  /\ Goes("firmware", "hhdm")
  /\ firmware' = boot_proto_firmware_type(limine.firmware)
  /\ UNCHANGED listed

print_addresses ==
  /\ Goes("hhdm", "kernel") \/ Goes("kernel", "memmap")
  /\ UNCHANGED outputVars

print_memmap_entry ==
  /\ Len(listed) < Len(memmap)
  /\ Goes("memmap", "memmap")
  /\ listed' = Append(listed, boot_proto_memmap_type_to_str(memmap[Len(listed) + 1].type))
  /\ UNCHANGED firmware

print_memmap_end ==
  /\ Len(listed) = Len(memmap)
  /\ Goes("memmap", "pmm")
  /\ UNCHANGED outputVars

-----------------------------------------------------------------------------
(***************************************************************************)
(* pmm_init, the IDT, and pmm_alloc on behalf of the rest.                 *)
(***************************************************************************)
start_pmm ==
  /\ stage = "pmm"
  /\ \/ pmm_init /\ stage' = "idt"
     \/ pmm_init_assert /\ stage' = "panic"
  /\ UNCHANGED <<limine, outputVars, idt, vmmVars, want, heap>>

arch_init_early ==
  /\ stage = "idt" /\ stage' = "newpt"
  /\ idt' = TRUE
  /\ UNCHANGED <<vars, limine, outputVars, vmmVars, want, heap>>

CallAlloc(n, what) ==
  /\ want = "nothing" /\ want' = what
  /\ pmm_alloc(n)
  /\ UNCHANGED <<limine, stage, outputVars, idt, vmmVars, heap>>

\* An iteration of pmm_alloc, or its panic.
alloc_step ==
  /\ Step
  /\ stage' = IF pc' \in {"panic", "assert"} THEN "panic" ELSE stage
  /\ UNCHANGED <<limine, outputVars, idt, vmmVars, want, heap>>

\* pmm_alloc has returned.
Got(what) == pc = "idle" /\ want = what /\ want' = "nothing"

-----------------------------------------------------------------------------
(***************************************************************************)
(* vmm_init.                                                               *)
(***************************************************************************)
\* The n-th range that is mapped: the memory map, then the kernel.
MappedRange(n) ==
  IF n \in DOMAIN memmap
  THEN LET e == Shifted(memmap[n]) IN
       [pa |-> e.base, va |-> e.base + HHDM, size |-> e.length]
  ELSE [pa |-> limine.kernel.pa, va |-> limine.kernel.va, size |-> limine.kernel.file]

\* Virtual pages per table, from the top level down.
TableSpan ==
  << ENTRIES * ENTRIES * ENTRIES * ENTRIES, ENTRIES * ENTRIES * ENTRIES,
     ENTRIES * ENTRIES, ENTRIES >>

\* The table of level 2, 3 or 4 that virtual page v is in; <<1, 0>> is the top.
TableAt(l, v) == <<l, v \div TableSpan[l]>>

Missing(v) == {t \in {TableAt(l, v) : l \in 2 .. 4} : t \notin DOMAIN tables}

TopMost(S) == CHOOSE t \in S : \A u \in S : t[1] <= u[1]

Virtual == PageOf(MappedRange(range).va + off)

AddTable(t) == tables' = [u \in DOMAIN tables \cup {t} |-> IF u = t THEN base ELSE tables[u]]

vmm_new_pt ==
  \/ stage = "newpt" /\ CallAlloc(1, "root")
  \/ /\ stage = "newpt" /\ Got("root")
     /\ AddTable(<<1, 0>>)
     /\ stage' = "vmm"
     /\ UNCHANGED <<vars, limine, outputVars, idt, cr3, space, range, off, heap>>

InRange == range <= Len(memmap) + 1 /\ off < MappedRange(range).size

\* page_from_index allocates the next table that is missing.
page_from_index ==
  \/ stage = "vmm" /\ InRange /\ Missing(Virtual) # {} /\ CallAlloc(1, "table")
  \/ /\ stage = "vmm" /\ Got("table")
     /\ AddTable(TopMost(Missing(Virtual)))
     /\ UNCHANGED <<vars, limine, stage, outputVars, idt, cr3, space, range, off, heap>>

vmm_map ==
  /\ stage = "vmm" /\ want = "nothing" /\ InRange /\ Missing(Virtual) = {}
  /\ space' = [v \in DOMAIN space \cup {Virtual} |->
                 IF v = Virtual THEN PageOf(MappedRange(range).pa + off) ELSE space[v]]
  /\ off' = off + PAGE_SIZE
  /\ UNCHANGED <<vars, limine, stage, outputVars, idt, cr3, tables, range, want, heap>>

next_range_mut ==  \* does not stop after the kernel
  /\ stage = "vmm" /\ range <= Len(memmap) + 2 /\ ~InRange
  /\ range' = range + 1 /\ off' = 0
  /\ UNCHANGED <<vars, limine, stage, outputVars, idt, cr3, tables, space, want, heap>>

next_range ==
  /\ stage = "vmm" /\ range <= Len(memmap) + 1 /\ ~InRange
  /\ range' = range + 1 /\ off' = 0
  /\ UNCHANGED <<vars, limine, stage, outputVars, idt, cr3, tables, space, want, heap>>

vmm_switch_mut ==  \* before the kernel is mapped
  /\ stage = "vmm" /\ range = Len(memmap) + 1
  /\ cr3' = "kernel" /\ stage' = "kheap"
  /\ UNCHANGED <<vars, limine, outputVars, idt, tables, space, range, off, want, heap>>

vmm_switch ==
  /\ stage = "vmm" /\ range = Len(memmap) + 2
  /\ cr3' = "kernel" /\ stage' = "kheap"
  /\ UNCHANGED <<vars, limine, outputVars, idt, tables, space, range, off, want, heap>>

-----------------------------------------------------------------------------
(***************************************************************************)
(* kheap_init and the end.                                                 *)
(***************************************************************************)
kheap_init ==
  \/ stage = "kheap" /\ CallAlloc(KHEAP_INIT_PAGES, "heap")
  \/ /\ stage = "kheap" /\ Got("heap")
     /\ heap' = base .. (base + KHEAP_INIT_PAGES - 1)
     /\ stage' = "late"
     /\ UNCHANGED <<vars, limine, outputVars, idt, vmmVars>>

\* arch_init_late does nothing; "Init done".
start_late == Goes("late", "done") /\ UNCHANGED outputVars

BootHalted == Ended /\ UNCHANGED allVars

BootStep ==
  \/ Fault
  \/ /\ ~Ended /\ ~Faulting
     /\ \/ start_early \/ check_bl_supported \/ print_bl_info \/ print_firmware
        \/ print_addresses \/ print_memmap_entry \/ print_memmap_end
        \/ start_pmm \/ arch_init_early \/ alloc_step
        \/ vmm_new_pt \/ page_from_index \/ vmm_map \/ next_range \/ vmm_switch
        \/ kheap_init \/ start_late

BootNext == BootStep \/ BootHalted

\* The CPU keeps executing.
BootSpec == BootInit /\ [][BootNext]_allVars /\ WF_allVars(BootStep)

-----------------------------------------------------------------------------
(***************************************************************************)
(* Properties.                                                             *)
(***************************************************************************)
ASSUME BootAssumption ==
  /\ ENTRIES \in Nat \ {0, 1}
  /\ KHEAP_INIT_PAGES \in Nat \ {0}
  /\ {1, KHEAP_INIT_PAGES} \subseteq Requests
  /\ Frees = {}
  /\ Loaders \subseteq LoaderStates
  /\ MemMaps = {MemMapOf(l) : l \in Loaders}
  /\ \A l \in Loaders : l.kernel.image <= l.kernel.file

Stages == {"gdt", "serial", "supported", "blinfo", "firmware", "hhdm", "kernel", "memmap",
           "pmm", "idt", "newpt", "vmm", "kheap", "late",
           "done", "panic", "fault", "reset"}

BootTypeOK ==
  /\ TypeOK
  /\ limine \in Loaders /\ stage \in Stages
  /\ idt \in BOOLEAN /\ cr3 \in {"loader", "kernel"}
  /\ DOMAIN tables \subseteq (1 .. 4) \X Nat
  /\ DOMAIN space \subseteq Nat
  /\ range \in 1 .. (Len(memmap) + 2) /\ off \in Nat
  /\ want \in {"nothing", "root", "table", "heap"}
  /\ heap \subseteq Nat

TablePages == {tables[t] : t \in DOMAIN tables}

\* What the boot loader itself calls usable, before boot_proto.c translates it.
LimineFree ==
  UNION {FramesOf(limine.entries[i]) :
           i \in {j \in DOMAIN limine.entries : limine.entries[j].type = LimineUsable}}

\* The bitmap, every page table and the heap live in pages of their own, in
\* memory that Limine reports as usable, never in page 0, and never in the
\* kernel's image or the stack; and pmm_alloc has handed out nothing else.
PagesApart ==
  LET Bitmap == PagesTouched(bitmapPhys, bitmapSize) IN
  bitmapSize > 0 =>
    /\ Bitmap \cup TablePages \cup heap \subseteq LimineFree \ {0}
    /\ Cardinality(TablePages) = Cardinality(DOMAIN tables)
    /\ Bitmap \cap TablePages = {} /\ Bitmap \cap heap = {} /\ TablePages \cap heap = {}
    /\ (ImageFrames \cup StackFrames) \cap (Bitmap \cup TablePages \cup heap) = {}
    /\ want = "nothing" => owned = TablePages \cup heap

\* With all of Limine's answers there is no fault at any stage: what _start
\* needs after each step is set up by the steps before it, the page tables
\* before the switch to them in particular.  A missing answer resets the
\* machine without a report, except the kernel file's, which is read after
\* the IDT is loaded.
FaultsOnlyUnanswered ==
  /\ stage = "reset" => ~(Answers \ {"kernel_file"} \subseteq limine.answered)
  /\ stage = "fault" => "kernel_file" \notin limine.answered

\* The list of the memory map tells Limine's types apart: two entries have
\* the same name exactly if they have the same type, or both one that the
\* kernel does not know.
ListedApart ==
  \A i, j \in DOMAIN listed :
    LET s == limine.entries[i].type
        t == limine.entries[j].type
    IN  listed[i] = listed[j] <=> (s = t \/ {s, t} \cap LimineTypes = {})

\* The boot sequence comes to an end, whatever the boot loader left.
BootEnds == <>Ended
=============================================================================
