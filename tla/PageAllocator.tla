----------------------------- MODULE PageAllocator -----------------------------
(***************************************************************************)
(* What the physical memory manager promises the rest of the kernel        *)
(* (include/symphony/mm.h, pmm_init, pmm_alloc, pmm_free), stated on sets  *)
(* of page frame numbers.  There is no bitmap here and no search: an       *)
(* allocation takes the lowest run of free pages that is long enough, and  *)
(* the kernel halts exactly when there is none.                            *)
(*                                                                         *)
(* PMM.tla is shown to implement this module; the kernel heap and the      *)
(* page tables are built on it.                                            *)
(***************************************************************************)
EXTENDS Integers

CONSTANT Requests  \* the page counts callers ask for

VARIABLES
  usable,  \* page frames the boot loader reports as usable; never changes
  phase,   \* "boot", "run" or "halt"
  avail,   \* pages pmm_alloc may hand out
  owned    \* pages handed out and not yet given back

allocVars == <<usable, phase, avail, owned>>

Run(b, n) == b .. (b + n - 1)

\* Pages b .. b+n-1 are the lowest n consecutive free pages.
IsFirstFit(b, n) ==
  /\ Run(b, n) \subseteq avail
  /\ \A c \in avail : c < b => ~(Run(c, n) \subseteq avail)

AllocInit ==
  /\ phase = "boot"
  /\ avail = {}
  /\ owned = {}

\* pmm_init gives out nothing but usable memory, and never page 0.
Boot ==
  /\ phase = "boot"
  /\ phase' = "run"
  /\ avail' \subseteq usable \ {0}
  /\ UNCHANGED <<usable, owned>>

\* A failed assertion of pmm_init halts the machine.
BootFail ==
  /\ phase = "boot"
  /\ phase' = "halt"
  /\ UNCHANGED <<usable, avail, owned>>

Alloc(b, n) ==
  /\ phase = "run"
  /\ n >= 1
  /\ b \in avail
  /\ IsFirstFit(b, n)
  /\ avail' = avail \ Run(b, n)
  /\ owned' = owned \cup Run(b, n)
  /\ UNCHANGED <<usable, phase>>

\* "Out of Memory!": only if no run of n free pages exists.
AllocPanic(n) ==
  /\ phase = "run"
  /\ n >= 1 => \A b \in avail : ~(Run(b, n) \subseteq avail)
  /\ phase' = "halt"
  /\ UNCHANGED <<usable, avail, owned>>

Free(b, n) ==
  /\ phase = "run"
  /\ n >= 1
  /\ Run(b, n) \subseteq owned
  /\ owned' = owned \ Run(b, n)
  /\ avail' = avail \cup Run(b, n)
  /\ UNCHANGED <<usable, phase>>

AllocNext ==
  \/ Boot
  \/ BootFail
  \/ \E n \in Requests : AllocPanic(n) \/ \E b \in avail : Alloc(b, n)
  \/ \E b, c \in owned : Free(b, c - b + 1)

AllocSpec == AllocInit /\ [][AllocNext]_allocVars
=============================================================================
