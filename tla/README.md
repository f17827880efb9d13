# A TLA+ model of the Symphony kernel

Symphony is the kernel of OrchestrOS: a Limine-booted x86-64 kernel that sets
up physical memory, page tables, a heap and exception handling, logs over a
serial port, and halts.  One CPU runs it and interrupts stay off, so no two
pieces of kernel code run at the same time.  What makes it hard is elsewhere:
long sequences of legal calls on intrusive data structures, arithmetic at
boundaries, and hardware that acts on its own (the TLB, the UART, exceptions,
whatever memory map the boot loader delivers).

This directory holds TLA+ modules translated from the source, TLC
configurations that check them on small instances, and TLAPS proofs of almost
all of the safety properties for every value of the constants.  `PROJECT.json`
lists the runs, the lines each definition models, the hazards, the findings and
the theorems.

    tlc -config MCPMM_alloc.cfg MCPMM        # a run
    tlapm PMMProofs.tla                      # the proofs of a component

## Inventory

| Component | State | Operations | What is hard |
|---|---|---|---|
| Physical memory manager (`symphony/mm/pmm.c`) | bitmap, its size and place | `pmm_init`, `pmm_alloc`, `pmm_free` | sequences of allocations and partial frees; rounding of bitmap and pages; the bitmap lies in the memory it manages |
| Kernel heap (`symphony/mm/kheap.c`) | list of blocks, its ends, sizes | `kheap_init`, `kmalloc`, `kzalloc`, `kfree` | splitting and merging; runs of pages that are not adjacent; repeated frees; sizes near `SIZE_MAX` |
| Page tables (`symphony/arch/x86_64/mm.c`) | four-level trees, CR3, the TLB | new, destroy, switch, map, unmap, set flags | the CPU caches translations at any time; tables are allocated on the way |
| Virtual memory manager (`symphony/mm/vmm.c`) | `kernelPT` | `vmm_init`, `vmm_map_range` | everything must be mapped before CR3 is switched |
| Exceptions (`interrupt.asm`, `interrupt.c`) | IDT, stack frames | 32 stubs, the handler | nesting; stubs, CPU and `struct regs` must agree on the frame |
| Segmentation (`gdt.c`) | GDT, TSS | `arch_load_gdt`, `arch_set_kernel_stack` | hand-written far return |
| Debug output (`symphony/debug.c`) | none between calls | printf, log, panic, assert | scanning of unchecked formats; conversion of numbers |
| Serial port (`symphony/serial.c`) | the UART's registers | `serial_init`, `serial_char` | the UART drains at its own speed |
| Boot protocol (`symphony/boot_proto.c`) | Limine's responses | accessors | responses that are missing, values that are unknown |
| Boot sequence (`symphony/kernel.c`) | none | `_start` | the order of initialisation; memory that runs out half-way; faults before and after the IDT is loaded |
| Strings (`symphony/string.c`) | none | memory and string functions | overlapping regions; where a scan stops; signed characters |
| Error values, aarch64, riscv64 | none | none | macros and stubs |

Calls go downwards: the heap and the page tables take pages from the physical
memory manager, `vmm_init` reads the memory map, everything reports through
debug output, which ends in the serial port.  A failed assertion, a panic and
an exception all end in `arch_halt`, and the machine stays there.

What makes the components correct:

* Physical memory: a page is free or held, never both or neither; only usable
  memory is handed out, never page 0 or the bitmap; allocation is first fit,
  and out of memory is reported only if it is true; what is given back is
  filled with 0xff.
* Heap: the list is one chain whose blocks tile the heap's pages; a holder's
  bytes are nobody else's; a block is as long as was asked for; kfree
  recognises what was freed before; kmalloc ends.
* Page tables: tables form trees and are not leaked; a call changes the
  translation of its own address only; no translation survives its frame; the
  kernel and physical memory stay mapped.
* Exceptions: the report shows the interrupted code's registers and the CPU's
  error code; the machine halts.
* Boot: the bitmap, the page tables and the heap get free pages of their own;
  each step finds what it needs; whatever the boot loader left, `_start` ends
  in a halt or a report, and only a missing answer makes it fault.
* Strings: no function leaves the memory it was given; memmove moves whatever
  the overlap; comparisons tell equal from different.
* Output: formats are scanned within bounds; the number printed is the number
  passed; no character is lost on the serial line.

## Modules

| Module | Models | Uses |
|---|---|---|
| `PageAllocator` | what the physical memory manager promises, on sets of pages | |
| `PMM` | `pmm.c`, the loops one iteration per step | refines `PageAllocator` |
| `PMMProofs` | theorems about `PMM` | `PMM`, TLAPS |
| `HeapSpec` | what the heap promises: chunks that are long enough and do not overlap | |
| `KHeap` | `kheap.c`; kmalloc walks one block per step | `PageAllocator`; refines `HeapSpec` |
| `KHeapProofs` | theorems about `KHeap` | `KHeap` |
| `AddressSpace` | what the virtual memory manager promises: spaces that translate pages, one page at a time | |
| `PageTables` | `arch/x86_64/mm.c`, `vmm.c`, the TLB; the walk goes one level per step | `PageAllocator`; refines `AddressSpace` |
| `PageTablesProofs` | theorems about `PageTables` | `PageTables` |
| `Boot` | `kernel.c`, `boot_proto.c`, `arch/x86_64/init.c` | extends `PMM` |
| `BootProofs` | theorems about `Boot` | `Boot`, `PMMProofs` |
| `Memory` | `string.c`, one loop iteration per step | |
| `MemoryProofs` | theorems about `Memory` | `Memory` |
| `Exceptions` | `gdt.c`, `interrupt.c`, `interrupt.asm` | |
| `ExceptionsProofs` | theorems about `Exceptions` | `Exceptions` |
| `DebugPrint` | `debug.c` from `debug_print_int` to `debug_log` | |
| `DebugPrintProofs` | theorems about `DebugPrint` | `DebugPrint` |
| `Serial` | `serial.c`, `debug_putchar`, the UART | |
| `SerialProofs` | theorems about `Serial` | `Serial` |
| `MC...` | instances of these for TLC | |

The heap and the page tables are composed with the abstract allocator instead
of the bitmap: `PMM` is proved to implement it, so what is checked on top of
`PageAllocator` holds on top of `pmm.c`.  The boot sequence runs on the bitmap
itself, so that what `pmm_init` does to the machine's first pages is part of it.

**PMM.** `bitmap` is a function from bytes to sets of bits, bit 0 being
`0b10000000`.  `pc` is the loop the CPU is in: `scan` is
`pmm_find_free_pages`, `mark` the loop of `pmm_alloc`, `clear` that of
`pmm_free`; `pos` is the page the loop is at (`i*8+j` or `i`).  `pmm_init` is
one step, because nothing can happen between its parts.  `owned` and `mem` are
ghosts: the pages that callers hold, and whether a page holds data, poison or
the bitmap.  Callers free pages they hold, in any piece; the header file leaves
the rest to them.  The length of the memset of `pmm_free` is an `int` product
that wraps around as in the compiled code (`PoisonBytes`): 2^20 pages clear
nothing, and 2^19 give a negative number, as a `size_t` nearly 2^64, so that the
memset runs through memory until it faults.

**KHeap.** `hdr` holds the block headers in memory by address, also those that
merging has taken out of the list, since a repeated `kfree` reads them.  `live`
are the pointers held, with the sizes asked for, and `filled` is the range of
the memset in the last step.  `size_t` wraps at `WORD`, and page counts become
an `int`.  Callers free what they hold, NULL, and again what they freed before,
as long as nobody has been given those bytes; other parts of the kernel take
and return pages between two calls.  Headers and list are hidden by the mapping
to `HeapSpec`: a chunk is a block that is held, as long as its header says, and
the abstract heap gives it out in the step in which `kmalloc` has found it.

**PageTables.** `tables` holds the tables by frame; `call`, `level` and `cur`
are the locals of the running call.  `TLBFill` lets the CPU cache what the
tables say between any two steps.  The compiler merges the bit-field stores of
`arch_vmm_set_flags`, and those of `arch_vmm_unmap`, into one store each, so
each is one step.  Callers map a frame at one place at a time, map only
addresses that are not mapped, unmap a frame before they give it back, and set
flags for mapped addresses, and do not destroy the page table in use.  A switch
to a page table whose upper half is empty stops a real machine; the model goes
on, which only adds behaviours to those that the safety properties hold for.  The
mapping to `AddressSpace` looks at the tables as the CPU does, by a walk from
the root: the step that sets the flags, or clears the entry, is the one in which
a page's translation changes, and the walk, the tables it adds and the store of
the frame are invisible.

**Boot.** `stage` is the line of `_start`; `want` says which `pmm_alloc` is
running, whose loops are `PMM`'s own actions.  `limine` is what the boot loader
left: whether it supports the base revision, which requests it answered, its
memory map with Limine's type numbers, and the kernel's place.  `space` is what
the kernel's page tables map, `tables` the frames they take.  An access that the
page table in use does not map, or through an answer that is NULL, is a fault:
`fault` if the handler can report it (the IDT is loaded, code and stack are
mapped), else `reset`.  The checks of return values in `_start` cannot fail,
because the functions return 0 or halt.

**Memory.** Every function is called on every content of memory and then
stepped; `touched` collects the addresses it uses and `old` is the memory it was
called on.  Callers pass areas that exist and strings that are terminated.

**Exceptions.** The stack is a sequence of named words: `<<"rip", 1>>` is the
RIP of the code that handled the first exception.  An exception may arrive in
any state in which the IDT is loaded, two deep; a halted CPU takes the NMI.
The CPU puts the gate's address together and checks its selector in the GDT; a
gate that leads to no stub resets the machine.
The code after the call in `exception_common` is never reached, because the
handler ends in `debug_panic`; it is the operator `Unwind`.

**DebugPrint.** `fmt` is a sequence of characters; `At` tells apart the NUL at
its end and what lies behind it.  The argument is chosen when `va_arg` takes
it.  `debug_print_int` collects the digits in reverse in a word of `WORD` values,
as in the code; its two loops divide until nothing is left, so `Divided` is a
recursive function, and `Collected` follows the same number of steps.

**Serial.** One port access per step; `Shift` is the UART sending.  The UART
starts in any mode, with the divisor latch selected or not, in loopback or not;
a character sent with another divisor than the terminal's arrives garbled.
`NothingLost` speaks of the moments between two calls; `AllSent` requires that
these come: each character reaches the line, with the carriage return that
`serial_char` adds to a line feed.

Definitions that end in `_mut` are faulty variants of the definition they
precede.  They are not used by the specifications: a property is kept only if
putting one of them in the place of the original makes TLC report it.

## Runs

| Run | Shows | Distinct states |
|---|---|---|
| `pmm_alloc` | 55 memory maps (usable memory at 0, in the middle, at the end; bitmap in the first or a later entry, or filling one; no room; none usable; empty; last page at the boundary of a byte of the bitmap), requests of 0 to 3 pages, frees of any 1 to 6 adjoining pages that are held | 193,000 |
| `kheap` | three pages of 128 bytes, the real header of 32 bytes, requests of 33 and 100 bytes | 89,000 |
| `page_tables` | tables of four entries, 14 frames, two page tables, two lower-half addresses in different last-level tables | 155,000 |
| `boot` | six machines with all types of entries, one answer or none missing, each firmware; memory of 96 sizes around the kernel | 20,900 |
| `exceptions` | 28 vectors, two deep | 6,400 |
| `printf` | all formats of up to four characters over three alphabets of six, eight and nine | 126,000 |
| `serial` | four characters of three kinds, a FIFO of two | 1,500 |
| `memory` | all contents of four bytes with five values, all arguments, any number of calls | 419,000 |

Bounds.  With two bytes per page a bitmap of three bytes has two pages, so the
rounding of its storage matters; eight bits per byte are the code's.  In the
heap a page has room for one small block and a remainder that cannot be split,
two adjoining pages for three blocks, and three pages are enough for an
extension that is not adjacent to the heap because another user holds the page
between.  Eight frames hold the kernel's tables, five a second page table with
one mapping, so that both exhaustion and reuse of freed tables occur.  Two
exceptions are enough to tell the interrupted context from the one before it.
Words of eight bits and ints of four keep the proportions that matter to the
conversion of numbers: hexadecimal digits fill a word exactly, octal and
decimal ones do not.

Four entries per table and pages of two bytes give the boot sequence tables on
every level and for several last-level tables, and memory of every size makes
`pmm_alloc` fail for the bitmap, for the first and for later tables and for the
heap.  A byte of five values has a NUL, two positive and two negative
characters; four bytes are enough for areas that overlap by all of their length,
part of it or not at all, and for strings that are prefixes of each other.

Fairness.  Liveness (`KmallocEnds`, `BootEnds`, `ExceptionHalts`,
`VprintfEnds`, `AllSent`) assumes weak fairness of the steps of the running call
(the CPU executes instructions as long as it is not halted), and in `Serial`
of the UART's transmitter, without which polling cannot end.  Callers, the TLB
and exceptions are not fair: nothing has to call, cache or fault.

### Where code and documents disagree

Each of these runs checks one statement from a comment or a header and TLC
shows a behaviour of the code that contradicts it; the text is quoted under
`findings`.

| Run | What the code does |
|---|---|
| `page_tables_flags` | rights that were taken away stay in the TLB |
| `exceptions_error_code` | vectors 17, 21, 29 and 30 are reported with a shifted frame |
| `task_register` | the TSS is not loaded |
| `printf_wide` | large decimal and octal numbers are printed wrong |

The passing runs of the same modules leave these cases out by their constants:
aligned addresses, vectors on which stub and CPU agree, numbers whose reverse
fits a word.  They also leave out, for the same reason, cases in which a
property they check fails and for which there is no run of its own:

* a memory map whose only usable entry is entry 0 (`BootFailsOnlyWithoutRoom`:
  `pmm_bitmap_last_tracked_page` never looks at entry 0);
* addresses that are multiples of 2^32, which `assert` takes for null pointers;
* frees of 2 GiB or more (`FreedPagesPoisoned`: the length of the memset
  overflows; no caller gives back more than one page at a time yet);
* `kmalloc` of nearly `SIZE_MAX` bytes (`ImplementsHeap`: the size wraps);
* ranges that straddle one more page than `size / PAGE_SIZE`: `vmm_map_range`
  discards the rounded size, and the last page is not mapped;
* a kernel whose image in memory is longer than its file, because of its .bss
  (`FaultsOnlyUnanswered`: `vmm_init` maps as much as the file is long);
* addresses in the upper half (`TreeShaped`: `arch_vmm_destroy_pt` frees the
  tables of the lower half only);
* flags set for an address that is not mapped (`FreesOnlyOwned`: the entry
  becomes present with frame 0, and destroying the page table frees frame 0);
* formats with both `-` and `0`: `%-03u` prints 900 for 9.  The formats are in the
  run; `NumbersReadBack` says nothing about this pair of flags.

More that the model shows and no property is about: kmalloc leaves sizes that
are multiples of 10 unrounded, so later headers are not aligned; unmapping an
address that was never mapped allocates tables for it; debug_vprintf
returns a number that leaves out prefixes and log levels and counts `%%` as 37;
a firmware type that Limine may add is reported as 64-bit UEFI, never as
unknown; and strcmp orders characters from 128 on before all others, because
char is signed (`DoesItsJob` asks for the order of ASCII strings only).

## Proofs

Each proof module states its inductive invariant first, then what each action
does to it, one lemma per action or per change of a data structure, and the
theorems last.  Few of the properties are inductive: most speak of the moments
between two calls, and the invariant has to say what holds in the middle of
each loop.

A theorem assumes what its module assumes of the constants and, where it
says so, a named hypothesis about them:

| Hypothesis | What it says | Why the code has it |
|---|---|---|
| `OrderlyMaps` (PMM) | usable entries are sorted and do not overlap, entry 0 is not the only one, the bitmap's size and address do not become 0 as an `int` | the first part is the Limine protocol's; without the others the theorem is false, see above |
| `FreesFit` (PMM) | no call of `pmm_free` gives back 2 GiB or more, so `PAGE_SIZE*pages` is a positive `int` | callers free one page at a time; nothing in the code checks this, and without it `Poisoning` is false and the memset overwrites whatever lies above, see above |
| `NoOverflow` (KHeap) | requests leave room for a header below `SIZE_MAX`, and their pages are an `int` (below 2^43 bytes) | nothing in the code checks this; the size wraps otherwise, see above |
| `Halves` (PageTables) | callers map in the lower half and `vmm_init` in the upper one; flags include `PRESENT` | HHDM and kernel are placed so; `arch_vmm_destroy_pt` frees the lower half only |
| `RangesAgree`, `RangesCovered` (PageTables) | where ranges of `vmm_init` overlap they map to the same frame; each has its pages met by steps of `PAGE_SIZE` from its start | entries that share a page lie in one direct map; aligned ranges, see above |
| `LoaderLayout`, `CallersLow`, `MapAligned` (PageTables) | HHDM and kernel start on pages; physical memory at the HHDM offset, then the kernel, in the upper half of one range of canonical addresses; callers stay in the lower half; entries of the map start on pages | `linker.ld` puts the kernel into the topmost 2 GiB, the HHDM starts at 0xffff800000000000 or above; the three hypotheses before follow |
| `CodesAgree` (Exceptions) | vectors on which CPU and stub agree whether there is an error code | vectors 17, 21, 29 and 30 do not, see above |
| `ArgumentsFit` (DebugPrint) | the digits of every argument, read in reverse, are below 2^64 | nothing in the code checks this; large decimal and octal numbers are printed wrong otherwise, see above |
| `SoundLoaders` (Boot) | the direct map, the kernel and the reclaimable memory start on pages, the latter not at address 0; the kernel's image and that memory are not usable; the kernel does not run inside the direct map | the Limine protocol |

TLC evaluated each of them for the instances of the runs: all hold there
(`LoaderLayout` with the one range of 512 bytes whose upper half starts at 256).

**PMM**, for every page size, every memory map whose usable entries are
page-aligned (which the Limine protocol promises), every set of requests and, but
for `BootsWhereRoom`, every set of frees that `FreesFit`: `TypeCorrect`; `Safety` (`Conservation`, `NoLateAssert`, `BitmapIntact`, and
`OwnedFromPool`, which extends half of `Conservation` to the middle of a call);
`Poisoning`; `Refinement` (`ImplementsAllocator`); `BootsWhereRoom`
(`BootFailsOnlyWithoutRoom`).

`Conservation` says nothing while a loop is under way, and the bitmap and the
callers' view differ then, so `IndInv` describes the middle of each loop.
While `pmm_find_free_pages` scans, the chunk `base .. pos-1` consists of `found`
free pages, the page before it is not free, and no run of the length asked for
starts below it: this makes the result the first fit, and a panic true.  While
pages are marked or cleared, the bits up to `pos` are done and the others are
not, and all pages of the call are tracked and owned.  `StorageInv` keeps the
pages of the bitmap apart from the pool.  That `pmm_init` establishes this
rests on arithmetic (`DivMod`, `AlignUp`, `BitIndex`) and on `BitmapPlace`: the
entry with room for the bitmap has room for its pages.  `StepRefines` maps
every step to one of `PageAllocator` or to none; the abstract allocation happens
when the scan succeeds, the abstract free when `pmm_free` returns.
`BootsWhereRoom` takes the least entry that is long enough (`Least`), and shows
that every page that `pmm_init` touches then passes the bound check.

**KHeap**, for every pool of pages, page size, header size and set of requests
without overflow: `HeapTypes`, `HeapListLinked`, `HeapTiled`, `UsedIsHeld`,
`HeapCoalesced`, `ExtendsOnce`, `HeapWritesStayHome` (an action property) and
`HeapImplements` (the refinement of `HeapSpec`).  The invariant's parts are
operators of the headers `h`, so that they can be said of the headers between
two stores of `kfree`.  `ListIn` is the least set that holds the first block and
is closed under `next`, which needs no induction to reason about: a change of
the list is followed by giving the closed set that belongs to it.
`TiledIn` says that the blocks are apart and that their bytes are those of the
heap's pages; a split, a merge and an extension are three ways to replace blocks
by blocks that cover the same bytes (`Parted`, `Swallowed`, `Appended`).
`StaleIn` keeps the headers that merging left behind free, so a repeated `kfree`
of one does nothing.  While `kfree` merges, one block may touch a free
one; `CoalescedBut` names it.  `WalkInv` makes an extension sufficient for the
request, so that the second walk finds it.
`KmallocAdvances` is the safe part of `KmallocEnds`: a step of the walk leaves
fewer blocks ahead, or it is the one extension of a call.  What is ahead is again
a least closed set, and `NoRing` shows that a block is not ahead of its successor:
on a ring every block would have its predecessor in the ring, and the first
block, which has none, could not lead into it.

**PageTables**, under `Halves`: `PageTablesTypes`, `PageTablesAreTrees`,
`NoTranslationDangles`, `OnlyOwnedIsFreed` (an action property); with
`RangesAgree` also `TablesImplementSpaces`, the refinement of `AddressSpace`, and
with `RangesCovered` `KernelStaysMapped`.  A tree is hard to say without
recursion; `Shape` gives every table a level, the root it belongs to and the
half it serves, and asks every entry to lead one level down within the same root
and half, and every table but the roots to have one parent.  These three
functions are not state: the invariant says that they exist, and each step
is shown to extend them.  The frames that lower halves map are held and mapped
once, so what `arch_vmm_destroy_pt` frees is neither a table in use nor a
caller's frame (`Destroyed`).  By `TLBInv` a cached translation leads to the frame
that the tables name, except between the store of `arch_vmm_unmap` and its
`invlpg`, when the frame is still its owner's.  `RangeInv`
follows `vmm_init`: the ranges done are mapped, the current one up to the
offset, and nothing is mapped to a wrong frame.  For the refinement `Seen` is
the walk of the CPU as a set of at most one frame and rights; each store either
leaves it alone for all pages or changes it for the page of the call.
`LoadedTablesAreSafe` and `LoadedKernelStaysMapped` restate these results on the
layout that a boot loader leaves, from which the hypotheses about indexes are
derived: in the upper half of a range the last shift leaves the range's number
and an index of the upper half (`UpperIndex`), so that equal indexes mean equal
pages (`UpperPages`); the direct map and the kernel shift pages as a whole
(`PageOfSum`), and the kernel begins on a page that memory does not reach
(`PagesApart`).

**Boot** extends `PMM`, and `BootIsPMMClient` shows that it is a client of the
allocator like any other: every step of `Boot` is a step of `PMM` or leaves its
variables alone.  So the theorems above hold while the kernel boots
(`BootKeepsPages`, `BootRefinement`); nothing is freed during boot, so `FreesFit`
holds.  `BootTypes` and `TypesListedApart` hold
for every boot loader, `PagesStayApart` and `NoOtherFault` for those that are
sound.  `StageInv` ties the allocator, the IDT, the page tables and the running
`pmm_alloc` to the stage of `_start`; `PagesInv` says at each moment of a call
who has which pages, and that no two tables share a frame; `SpaceInv` and
`CoverInv` say that pages are mapped to the right frames and that the ranges
done are mapped.  Together they show that after the switch the image, the stack,
the bitmap and the new heap page are mapped, and that a fault can come only from
an answer that is missing.

**Memory**, for memories of every size, bytes of every width, every content
and all arguments a caller may pass: `MemoryTypes`, `NoStrayAccess`,
`StringFunctionsCorrect`.  The last claims of `memcpy` what it does where the areas
are apart or dest is the lower one, and of `strcmp` and `strncmp` the order of
ASCII strings only.  `MoveInv` says which bytes of a copy have arrived, from
below or from above, and that the rest is as it was; `ScanInv` that the
characters compared so far agree and hold no NUL.  That a string ends needs the
least address with a NUL (`LeastElement`).

**Exceptions**, under `CodesAgree`: `FrameInvariant`, `ExceptionTypes`,
`RegistersShown`, `ErrorCodeShown`.  `IDTInv` says that each gate leads to the
stub of its vector, which the proof recomposes from the digits of the address;
`FrameInv` that the words on top of the stack are those of the last exception,
in the order of `struct regs`, as far as they are pushed at that moment.

**Serial**, for every FIFO, every mode the firmware leaves the UART in and
every text: `SerialInvariant`, `SerialTypes`, `PrintedIsHeld`, and `NeverOverrun`
(an action property: each character is written to an empty transmitter and
taken by it).  `Setup` gives the
registers after each write of `serial_init`; `Content` says how far the current
character has come: what is on the line and in the FIFO is the expansion of all
that was printed, or of all but the last character, or lacks one carriage
return.  `IsExpanded` is declarative, with the number of line feeds before a
position, so that appending needs no induction.

**DebugPrint**, for every set of formats and arguments: `ScanInvariant`,
`ScanStaysInFormat`, `TypeInvariant`, and `ScanProgress`, the safe part of
`VprintfEnds`: every step decreases a natural number, which counts what is left
of the format and of the directive.  Of the numbers printed there are four
theorems.  `FittingNumbersReadBack` says that a conversion prints its argument as
the number it is if the digits in reverse fit a word (`FitsReversed`), whatever
flags, width and the other arguments are; with `ArgumentsFit` this is
`NumbersReadBack` (`FittingArgumentsReadBack`).  `ShortArgumentsReadBack` replaces
that condition by one on the number of digits: it is enough that no argument has
more digits than the largest power of its base that is a word, so decimal numbers
below 10^19 and octal ones below 8^21 are printed right where words have 64 bits.
`HexadecimalReadsBack` needs no condition on the arguments, since a word is a
power of 16 and its digits in reverse fit again.

The loops of `debug_print_int` are recursive functions, and the library's
induction theorems are out of the prover's reach.  `SetInduction` takes their
place: a set of numbers that contains 0 and with every number the next one
contains all of them, which follows from the well-ordering of the numbers.  With
it `RecursionExists` shows that such a function has values, put together
from finite beginnings, and each fact about a loop is the statement that the set of
numbers of iterations for which it holds is closed.  The digits collected in
reverse are compared with the digits read back one power at a time (`Powers`), so
that no exponentiation is needed.

A width of so many digits that it overflows an `int` is not part of the model.

TLC checked the invariants on the instances of the runs before they were
proved, except the trees of `PageTables`, for which it would have to find the
three functions.  `TableSpan` in `Boot` multiplies instead of raising to a power
because the prover does not know `^`.

Only model-checked is liveness (`KmallocEnds`, `BootEnds`, `ExceptionHalts`,
`VprintfEnds`, `AllSent`): it rests on fairness, and so on ENABLED, which is out
of the prover's reach.  Every invariant, action property and refinement of the
passing runs is a theorem.

## Not modelled

`error.h` (constants and casts that nothing uses yet); the wording of messages;
`assert_warn`, which only prints; `arch_set_kernel_stack`, whose word nothing
reads, and the base and limit of the TSS descriptor, at which the CPU does not
look as long as the task register is not loaded; the type, present bit and IST
index of a gate and the limit that `lidt` loads, so that a gate that is not
present would not be seen; the aarch64 and riscv64 stubs;
build files.  Concurrency of several CPUs is not there to model, and nothing is
persistent, so there is no recovery to check.

## Plan

1. Done: the modules for all components, and the proofs of all their safety
   properties.
2. With every stack word of a nested exception at an address of its own,
   whether a chain of exceptions can overrun the boot loader's stack.
3. `SoundLoaders` of `Boot` and `LoaderLayout` of `PageTables` as one statement of
   what Limine promises, in a module that both extend.
4. The safe part of the other liveness properties, as for `KmallocEnds` and
   `VprintfEnds`: a number that every step of the running call decreases.
