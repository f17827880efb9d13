------------------------------ MODULE AddressSpace ------------------------------
(***************************************************************************)
(* What the virtual memory manager promises (include/symphony/mm.h and     *)
(* arch/common.h): address spaces that translate virtual pages.            *)
(* There are no tables here.  A call that maps, unmaps or changes the      *)
(* flags of a page has one effect, at one moment: the translation of that  *)
(* page in that space becomes what was asked for, and nothing else does.   *)
(* PageTables.tla is shown to implement this module.                       *)
(***************************************************************************)
EXTENDS Integers

CONSTANT VirtualPages  \* the virtual pages that are ever translated

VARIABLES
  ids,     \* the spaces there are
  spaces,  \* the translations of each of them
  active,  \* the space in use
  job      \* the page the running call is about to change, and how

spaceVars == <<ids, active, job, spaces>>

\* A page has one translation, a frame with rights, or none.
NoJob == [op |-> "none", space |-> 0, page |-> 0, to |-> {}]

SpaceInit == ids = {} /\ spaces = [s \in {} |-> 0] /\ active = 0 /\ job = NoJob

Create(s) ==
  /\ s \notin ids
  /\ ids' = ids \cup {s}
  /\ UNCHANGED <<active, job>>
  /\ spaces' = [r \in ids' |->
                  IF r = s THEN [v \in VirtualPages |-> {}] ELSE spaces[r]]

\* Never the space in use.
Destroy(s) ==
  /\ s # active
  /\ ids' = ids \ {s}
  /\ UNCHANGED <<active, job>>
  /\ spaces' = [r \in ids' |-> spaces[r]]

Switch(s) ==
  /\ active' = s
  /\ UNCHANGED <<ids, job, spaces>>

\* A call for a page begins.
Ask ==
  /\ job = NoJob /\ job'.space \in ids
  /\ UNCHANGED <<ids, active, spaces>>

Becomes(old) ==
  CASE job.op = "map"   -> job.to
    [] job.op = "unmap" -> {}
    [] job.op = "flags" -> {[frame |-> o.frame, rights |-> t.rights] : o \in old, t \in job.to}

\* It has its effect, and is done or goes on to the next page of its range.
Perform ==
  /\ job # NoJob
  /\ job' = NoJob \/ (job.op = "map" /\ job'.op = "map" /\ job'.page = job.page + 1)
  /\ UNCHANGED <<ids, active>>
  /\ spaces' = [spaces EXCEPT ![job.space][job.page] = Becomes(@)]

SpaceNext ==
  \/ \E s \in ids' \ ids : Create(s)
  \/ \E s \in ids \ ids' : Destroy(s)
  \/ \E s \in ids : Switch(s)
  \/ Ask
  \/ Perform

SpaceSpec == SpaceInit /\ [][SpaceNext]_spaceVars
=============================================================================
