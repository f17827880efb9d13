---------------------------- MODULE PageTablesProofs ----------------------------
(***************************************************************************)
(* Proofs about PageTables: for page tables of every size, every memory    *)
(* map and every set of addresses in the two halves, the tables stay trees *)
(* of their own, and no translation outlives its frame.                    *)
(***************************************************************************)
EXTENDS PageTables, TLAPS, FiniteSetTheorems

Half == ENTRIES \div 2

-----------------------------------------------------------------------------
(***************************************************************************)
(* Where callers and vmm_init map: callers in the lower half, vmm_init in  *)
(* the upper half, as boot loaders place the HHDM and the kernel; callers  *)
(* use arch_vmm_unmap, not flags without PRESENT, to unmap.                *)
(***************************************************************************)
SameIndexes(va, vb) == \A l \in 1 .. 4 : page_index(va, l) = page_index(vb, l)

Halves ==
  /\ \A va \in VirtAddrs : IsLower(va)
  /\ \A k \in DOMAIN InitRanges : \A b \in 0 .. (InitRanges[k].size - 1) :
       page_index(InitRanges[k].va + b, 1) >= Half
  /\ \A fl \in FlagSets : "PRESENT" \in fl

\* Where two ranges of vmm_init overlap they agree on the frame, and none of
\* them wraps around in the tables.
RangesAgree ==
  \A j, k \in DOMAIN InitRanges :
    \A b \in 0 .. (InitRanges[j].size - 1), c \in 0 .. (InitRanges[k].size - 1) :
      SameIndexes(InitRanges[j].va + b, InitRanges[k].va + c) =>
        /\ PageOf(InitRanges[j].va + b) = PageOf(InitRanges[k].va + c)
        /\ PageOf(InitRanges[j].pa + b) = PageOf(InitRanges[k].pa + c)

\* vmm_map_range, which goes on from the first byte by whole pages, meets every
\* page of every range; a range that starts on a page has this.
RangesCovered ==
  \A k \in DOMAIN InitRanges : \A b \in 0 .. (InitRanges[k].size - 1) :
    \E i \in 0 .. (InitRanges[k].size - 1) :
      i % PAGE_SIZE = 0 /\ PageOf(InitRanges[k].va + i) = PageOf(InitRanges[k].va + b)

-----------------------------------------------------------------------------
(***************************************************************************)
(* The entries on the way to the page of va, for tables T and from the     *)
(* top-level table pt.                                                     *)
(***************************************************************************)
E1(T, pt, va) == T[pt][page_index(va, 1)]
E2(T, pt, va) == T[E1(T, pt, va).addr][page_index(va, 2)]
E3(T, pt, va) == T[E2(T, pt, va).addr][page_index(va, 3)]
E4(T, pt, va) == T[E3(T, pt, va).addr][page_index(va, 4)]

HasLeaf(T, pt, va) ==
  E1(T, pt, va).present /\ E2(T, pt, va).present /\ E3(T, pt, va).present

Whole(T, pt, va) == HasLeaf(T, pt, va) /\ E4(T, pt, va).present

\* What the CPU sees of the way: the frame and the rights of the entry.
Seen(T, pt, va) ==
  IF Whole(T, pt, va)
  THEN {[frame |-> E4(T, pt, va).addr, rights |-> E4(T, pt, va).rights]}
  ELSE {}

\* Where page_from_index is when it has reached level l.
Reached(T, pt, va, l, c) ==
  \/ l = 1 /\ c = pt
  \/ l = 2 /\ E1(T, pt, va).present /\ c = E1(T, pt, va).addr
  \/ l = 3 /\ E1(T, pt, va).present /\ E2(T, pt, va).present /\ c = E2(T, pt, va).addr
  \/ l = 4 /\ HasLeaf(T, pt, va) /\ c = E3(T, pt, va).addr

-----------------------------------------------------------------------------
(***************************************************************************)
(* The shape of the tables T below the top-level tables R: a level, a root *)
(* and a half for every table, which the entries respect.                  *)
(***************************************************************************)
GhostTypes(T, R, lev, own, low) ==
  /\ lev \in [DOMAIN T -> 1 .. 4] /\ own \in [DOMAIN T -> R] /\ low \in [DOMAIN T -> BOOLEAN]
  /\ \A t \in R : t \in DOMAIN T
  /\ \A t \in DOMAIN T : lev[t] = 1 <=> t \in R
  /\ \A t \in R : own[t] = t

\* An entry of a table above the last level leads to a table one level down.
EdgesDown(T, R, lev, own, low) ==
  \A t \in DOMAIN T, i \in Indexes :
    lev[t] < 4 /\ T[t][i].present =>
      /\ T[t][i].addr \in DOMAIN T
      /\ lev[T[t][i].addr] = lev[t] + 1
      /\ own[T[t][i].addr] = own[t]
      /\ low[T[t][i].addr] = IF lev[t] = 1 THEN i < Half ELSE low[t]

OneParent(T, lev) ==
  \A t, u \in DOMAIN T : \A i, j \in Indexes :
    /\ lev[t] < 4 /\ lev[u] < 4
    /\ T[t][i].present /\ T[u][j].present /\ T[t][i].addr = T[u][j].addr
    => t = u /\ i = j

HasParent(T, lev) ==
  \A t \in DOMAIN T : lev[t] # 1 =>
    \E u \in DOMAIN T, i \in Indexes : lev[u] < 4 /\ T[u][i].present /\ T[u][i].addr = t

\* Only the kernel's page table k has something in the upper half.
UpperEmpty(T, R, k) ==
  \A t \in R \ {k} : \A i \in Indexes : i >= Half => ~T[t][i].present

\* Frames that last-level tables of the lower half map are held, and mapped
\* once.
UserMaps(T, lev, low, H) ==
  /\ \A t \in DOMAIN T, i \in Indexes :
       lev[t] = 4 /\ low[t] /\ T[t][i].present => T[t][i].addr \in H
  /\ \A t, u \in DOMAIN T : \A i, j \in Indexes :
       /\ lev[t] = 4 /\ low[t] /\ lev[u] = 4 /\ low[u]
       /\ T[t][i].present /\ T[u][j].present /\ T[t][i].addr = T[u][j].addr
       => t = u /\ i = j

Shape(T, R, k, H, lev, own, low) ==
  /\ GhostTypes(T, R, lev, own, low)
  /\ EdgesDown(T, R, lev, own, low)
  /\ OneParent(T, lev)
  /\ HasParent(T, lev)
  /\ UpperEmpty(T, R, k)
  /\ UserMaps(T, lev, low, H)

TreeInv == \E lev, own, low : Shape(tables, roots, kernelPT, held, lev, own, low)

-----------------------------------------------------------------------------
(***************************************************************************)
(* Frames, the stages of vmm_init, the running call, and the TLB.          *)
(***************************************************************************)
TablesTyped(T) ==
  \A f \in DOMAIN T : DOMAIN T[f] = Indexes /\ \A i \in Indexes : T[f][i] \in EntryType

PagesInv ==
  /\ usable = Frames /\ avail \subseteq Frames /\ owned \subseteq Frames
  /\ avail \cap owned = {}
  /\ DOMAIN tables \subseteq owned /\ held \subseteq owned
  /\ held \cap DOMAIN tables = {}

StageInv ==
  /\ pc = "boot" => roots = {} /\ cr3 = NONE /\ kernelPT = NONE
  /\ pc # "boot" => kernelPT \in roots
  /\ pc = "init" => cr3 = NONE
  /\ pc \in {"idle", "invlpg"} => cr3 # NONE
  /\ pc \notin {"walk", "invlpg"} => cur = NONE
  /\ cr3 = NONE => roots \subseteq {kernelPT} /\ held = {} /\ tlb = {}
  /\ cr3 \in roots \cup {NONE}
  /\ \A n \in DOMAIN todo : \E k \in DOMAIN InitRanges : todo[n] = InitRanges[k]
  /\ todo \in Seq([pa : Nat, va : Nat, size : Nat])

CallType ==
  [op : {"none", "map", "map_flags", "flags", "unmap"}, pt : Nat, va : Nat, pa : Nat,
   size : Nat, i : Nat, flags : SUBSET {"PRESENT", "RW", "USER", "EXEC"}]

UserRange(T, UF, b) ==
  /\ IsLower(call.va + b) /\ ~Whole(T, call.pt, call.va + b)
  /\ PageOf(call.pa + b) \in held \ UF

MappedFrames(T, lev, low) ==
  {x \in Nat : \E t \in DOMAIN T, i \in Indexes :
                 lev[t] = 4 /\ low[t] /\ T[t][i].present /\ x = T[t][i].addr}

\* The call that vmm_init makes, and those that other callers make.
InitCall ==
  /\ call.op \in {"map", "map_flags"} /\ call.pt = kernelPT
  /\ call.flags = {"PRESENT", "RW", "EXEC"}
  /\ call.i < call.size
  /\ \A b \in call.i .. (call.size - 1) : page_index(call.va + b, 1) >= Half

UserCall(T, UF) ==
  /\ IsLower(call.va + call.i)
  /\ call.op # "unmap" => "PRESENT" \in call.flags
  /\ call.op \in {"unmap", "flags"} => call.i = 0
  /\ call.op = "flags" => Whole(T, call.pt, call.va)
  /\ call.op = "map" => \A b \in call.i .. (call.size - 1) : UserRange(T, UF, b)
  /\ call.op = "map_flags" =>
       /\ \A b \in (call.i + PAGE_SIZE) .. (call.size - 1) : UserRange(T, UF, b)
       /\ UserRange(T, UF, call.i)

CallInv ==
  /\ call \in CallType
  /\ pc = "walk" =>
       /\ call.op # "none" /\ call.pt \in roots
       /\ call.op \in {"map", "map_flags"} => call.i < call.size
       /\ Reached(tables, call.pt, call.va + call.i, level, cur)
       /\ call.op = "map_flags" =>
            /\ HasLeaf(tables, call.pt, call.va + call.i)
            /\ E4(tables, call.pt, call.va + call.i).addr = PageOf(call.pa + call.i)
       /\ IF cr3 = NONE THEN InitCall ELSE UserCall(tables, UserFrames)

\* A cached translation is in the tables, or was until arch_vmm_unmap took
\* it out, which flushes it next.
TLBInv ==
  \A t \in tlb :
    /\ \E va \in VirtAddrs : t.page = PageOf(va)
    /\ \A va \in VirtAddrs : t.page = PageOf(va) =>
         \/ Whole(tables, cr3, va) /\ E4(tables, cr3, va).addr = t.frame
         \/ pc = "invlpg" /\ PageOf(call.va) = t.page /\ t.frame \in owned

\* The ranges that vmm_init has started with are the first ones; the running
\* one is the last of them.
Started == Len(InitRanges) - Len(todo)

TodoInv ==
  pc # "boot" =>
    /\ Started \in Nat
    /\ \A n \in DOMAIN todo : todo[n] = InitRanges[Started + n]
    /\ cr3 # NONE => todo = << >>

RangeCall ==
  pc = "walk" /\ cr3 = NONE =>
    /\ Started \in DOMAIN InitRanges
    /\ LET r == InitRanges[Started] IN call.va = r.va /\ call.pa = r.pa /\ call.size = r.size
    /\ call.i % PAGE_SIZE = 0

\* What byte b of range k is to be translated to; it is never translated to
\* anything else, and what vmm_map_range has done is translated.
Mapping(k, b) == [frame |-> PageOf(InitRanges[k].pa + b), rights |-> {"RW", "EXEC"}]

SeenAt(T, k, b) == Seen(T, kernelPT, InitRanges[k].va + b)

MappedRight ==
  \A k \in DOMAIN InitRanges : \A b \in 0 .. (InitRanges[k].size - 1) :
    pc # "boot" => SeenAt(tables, k, b) \subseteq {Mapping(k, b)}

Done(k, b) ==
  /\ pc # "boot" /\ k <= Started
  /\ k = Started /\ pc = "walk" /\ cr3 = NONE => b < call.i

MappedDone ==
  \A k \in DOMAIN InitRanges : \A b \in 0 .. (InitRanges[k].size - 1) :
    b % PAGE_SIZE = 0 /\ Done(k, b) => SeenAt(tables, k, b) # {}

RangeInv == TodoInv /\ RangeCall /\ MappedRight /\ MappedDone

IndInv == TypeOK /\ PagesInv /\ TreeInv /\ StageInv /\ CallInv /\ TLBInv

-----------------------------------------------------------------------------
(***************************************************************************)
(* Addresses and indexes.                                                  *)
(***************************************************************************)

\* What is left of a page number when it is shifted is a number.
LEMMA ShiftsType ==
  ASSUME NEW va \in Nat
  PROVE  /\ PageOf(va) \in Nat
         /\ Shifts(va)[1] \in Nat /\ Shifts(va)[2] \in Nat
         /\ Shifts(va)[3] \in Nat /\ Shifts(va)[4] \in Nat
<1>1. PAGE_SIZE \in Nat \ {0} /\ ENTRIES \in Nat \ {0}
  BY PageTablesAssumption
<1>2. \A x \in Nat, y \in Nat \ {0} : x \div y \in Nat
  OBVIOUS
<1>3. PageOf(va) \in Nat
  BY <1>1, <1>2 DEF PageOf
<1> DEFINE a == PageOf(va) \div ENTRIES
           b == a \div ENTRIES
           c == b \div ENTRIES
<1>4. a \in Nat /\ b \in Nat /\ c \in Nat
  <2>1. a \in Nat
    BY <1>1, <1>2, <1>3
  <2>2. b \in Nat
    BY <2>1, <1>1, <1>2
  <2>3. c \in Nat
    BY <2>2, <1>1, <1>2
  <2> QED  BY <2>1, <2>2, <2>3
<1>5. Shifts(va) = << c, b, a, PageOf(va) >>
  BY DEF Shifts
<1> QED  BY <1>3, <1>4, <1>5

\* page_index gives indexes of a table, for a canonical address of the lower
\* half one of the lower half.
LEMMA IndexType ==
  ASSUME NEW va \in Nat, NEW l \in 1 .. 4
  PROVE  page_index(va, l) \in Indexes
<1>1. ENTRIES \in Nat \ {0}
  BY PageTablesAssumption
<1>2. Shifts(va)[l] \in Nat
  BY ShiftsType
<1> QED  BY <1>1, <1>2 DEF page_index, Indexes

LEMMA HalfType == Half \in Nat /\ Half > 0 /\ Half < ENTRIES
  BY PageTablesAssumption DEF Half

LEMMA LowerIndex ==
  ASSUME NEW va \in Nat, IsLower(va)
  PROVE  page_index(va, 1) < Half
<1>1. Shifts(va)[1] \in Nat /\ Shifts(va)[1] < Half
  BY ShiftsType DEF IsLower, Half
<1>2. \A x \in Nat : x < ENTRIES => x % ENTRIES = x
  BY PageTablesAssumption
<1>3. Shifts(va)[1] % ENTRIES = Shifts(va)[1]
  BY <1>1, <1>2, HalfType, PageTablesAssumption
<1> QED  BY <1>1, <1>3 DEF page_index

LEMMA SamePageIndexes ==
  ASSUME NEW va, NEW vb, PageOf(va) = PageOf(vb)
  PROVE  SameIndexes(va, vb)
BY DEF SameIndexes, page_index, Shifts

\* A quotient and a remainder determine a number.
LEMMA ModIs ==
  ASSUME NEW n \in Nat \ {0}, NEW x \in Nat
  PROVE  x % n = x - n * (x \div n)
OBVIOUS

LEMMA SmallMod ==
  ASSUME NEW n \in Nat \ {0}, NEW x \in Nat, x < n
  PROVE  x % n = x
OBVIOUS

LEMMA DivMod ==
  ASSUME NEW x \in Nat, NEW y \in Nat, x \div ENTRIES = y \div ENTRIES, x % ENTRIES = y % ENTRIES
  PROVE  x = y
<1>1. ENTRIES \in Nat \ {0}
  BY PageTablesAssumption
<1> DEFINE m == ENTRIES * (x \div ENTRIES)
<1>2. x % ENTRIES = x - m /\ y % ENTRIES = y - m
  BY <1>1, ModIs
<1>3. m \in Int
  BY <1>1
<1> HIDE DEF m
<1> QED  BY <1>2, <1>3

\* Two canonical addresses of the lower half with the same indexes are in the
\* same page.
LEMMA LowerPages ==
  ASSUME NEW va \in Nat, NEW vb \in Nat, IsLower(va), IsLower(vb), SameIndexes(va, vb)
  PROVE  PageOf(va) = PageOf(vb)
<1> DEFINE s == Shifts(va)
           t == Shifts(vb)
<1>1. /\ s[1] \in Nat /\ s[2] \in Nat /\ s[3] \in Nat /\ s[4] \in Nat
      /\ t[1] \in Nat /\ t[2] \in Nat /\ t[3] \in Nat /\ t[4] \in Nat
  BY ShiftsType
<1>2. /\ s[4] = PageOf(va) /\ s[3] = s[4] \div ENTRIES /\ s[2] = s[3] \div ENTRIES
      /\ s[1] = s[2] \div ENTRIES
      /\ t[4] = PageOf(vb) /\ t[3] = t[4] \div ENTRIES /\ t[2] = t[3] \div ENTRIES
      /\ t[1] = t[2] \div ENTRIES
  BY DEF Shifts
<1>3. /\ s[1] % ENTRIES = t[1] % ENTRIES /\ s[2] % ENTRIES = t[2] % ENTRIES
      /\ s[3] % ENTRIES = t[3] % ENTRIES /\ s[4] % ENTRIES = t[4] % ENTRIES
  BY DEF SameIndexes, page_index
<1>4. s[1] = t[1]
  <2>1. s[1] < ENTRIES /\ t[1] < ENTRIES
    <3>1. s[1] < Half /\ t[1] < Half
      BY DEF IsLower, Half
    <3>2. ENTRIES \in Nat
      BY PageTablesAssumption
    <3> HIDE DEF s, t
    <3> QED  BY <1>1, <3>1, <3>2, HalfType
  <2>2. ENTRIES \in Nat \ {0}
    BY PageTablesAssumption
  <2>3. s[1] % ENTRIES = s[1] /\ t[1] % ENTRIES = t[1]
    BY <1>1, <2>1, <2>2, SmallMod
  <2> QED  BY <1>3, <2>3
<1> HIDE DEF s, t
<1>5. s[2] = t[2]
  BY <1>1, <1>2, <1>3, <1>4, DivMod
<1>6. s[3] = t[3]
  BY <1>1, <1>2, <1>3, <1>5, DivMod
<1>7. s[4] = t[4]
  BY <1>1, <1>2, <1>3, <1>6, DivMod
<1> QED  BY <1>2, <1>7

-----------------------------------------------------------------------------
(***************************************************************************)
(* The way along the tables.                                               *)
(***************************************************************************)

\* The page walk of the model, for tables T.
EntriesOf(T, S, va, l) == {e \in {T[t][page_index(va, l)] : t \in S} : e.present}

FollowOf(T, S, va, l) == {e.addr : e \in EntriesOf(T, S, va, l)}

WalkOf(T, pt, va) ==
  EntriesOf(T, FollowOf(T, FollowOf(T, FollowOf(T, {pt}, va, 1), va, 2), va, 3), va, 4)

LEMMA WalksAre ==
  ASSUME NEW pt, NEW va
  PROVE  /\ Translating(pt, va) = WalkOf(tables, pt, va)
         /\ Translating(pt, va)' = WalkOf(tables', pt, va)
BY DEF Translating, Follow, EntriesIn, WalkOf, FollowOf, EntriesOf

\* It follows the four entries.
LEMMA WalkIs ==
  ASSUME NEW T, NEW pt, NEW va
  PROVE  WalkOf(T, pt, va) = IF Whole(T, pt, va) THEN {E4(T, pt, va)} ELSE {}
<1>1. \A x, l : EntriesOf(T, {x}, va, l) =
                  IF T[x][page_index(va, l)].present THEN {T[x][page_index(va, l)]} ELSE {}
  BY DEF EntriesOf
<1>2. \A l : EntriesOf(T, {}, va, l) = {}
  BY DEF EntriesOf
<1>3. \A x, l : FollowOf(T, {x}, va, l) =
                  IF T[x][page_index(va, l)].present THEN {T[x][page_index(va, l)].addr} ELSE {}
  BY <1>1 DEF FollowOf
<1>4. \A l : FollowOf(T, {}, va, l) = {}
  BY <1>2 DEF FollowOf
<1> DEFINE e1 == E1(T, pt, va)
           e2 == E2(T, pt, va)
           e3 == E3(T, pt, va)
           e4 == E4(T, pt, va)
<1>5. FollowOf(T, {pt}, va, 1) = IF e1.present THEN {e1.addr} ELSE {}
  BY <1>3 DEF E1
<1>6. FollowOf(T, {e1.addr}, va, 2) = IF e2.present THEN {e2.addr} ELSE {}
  BY <1>3 DEF E2
<1>7. FollowOf(T, {e2.addr}, va, 3) = IF e3.present THEN {e3.addr} ELSE {}
  BY <1>3 DEF E3
<1>8. EntriesOf(T, {e3.addr}, va, 4) = IF e4.present THEN {e4} ELSE {}
  BY <1>1 DEF E4
<1>9. Whole(T, pt, va) <=> e1.present /\ e2.present /\ e3.present /\ e4.present
  BY DEF Whole, HasLeaf
<1> HIDE DEF e1, e2, e3, e4
<1>a. CASE ~e1.present
  BY <1>a, <1>2, <1>4, <1>5, <1>9 DEF WalkOf
<1>b. CASE e1.present /\ ~e2.present
  BY <1>b, <1>2, <1>4, <1>5, <1>6, <1>9 DEF WalkOf
<1>c. CASE e1.present /\ e2.present /\ ~e3.present
  BY <1>c, <1>2, <1>5, <1>6, <1>7, <1>9 DEF WalkOf
<1>d. CASE e1.present /\ e2.present /\ e3.present
  <2>1. WalkOf(T, pt, va) = IF e4.present THEN {e4} ELSE {}
    BY <1>d, <1>5, <1>6, <1>7, <1>8 DEF WalkOf
  <2> QED  BY <1>d, <2>1, <1>9 DEF e4
<1> QED  BY <1>a, <1>b, <1>c, <1>d

LEMMA TranslationIs ==
  ASSUME NEW pt, NEW va
  PROVE  /\ Translation(pt, va) = Seen(tables, pt, va)
         /\ Translation(pt, va)' = Seen(tables', pt, va)
<1>1. \A T : {[frame |-> e.addr, rights |-> e.rights] : e \in WalkOf(T, pt, va)} = Seen(T, pt, va)
  BY WalkIs DEF Seen
<1>2. /\ Translation(pt, va) =
           {[frame |-> e.addr, rights |-> e.rights] : e \in WalkOf(tables, pt, va)}
      /\ Translation(pt, va)' =
           {[frame |-> e.addr, rights |-> e.rights] : e \in WalkOf(tables', pt, va)}
  BY WalksAre DEF Translation
<1> QED  BY <1>1, <1>2

LEMMA LookupIs ==
  ASSUME NEW pt, NEW va
  PROVE  Lookup(pt, va) = IF Whole(tables, pt, va) THEN E4(tables, pt, va) ELSE Empty
BY WalksAre, WalkIs DEF Lookup

LEMMA LookupPresent ==
  ASSUME NEW pt, NEW va
  PROVE  Lookup(pt, va).present <=> Whole(tables, pt, va)
<1>1. ~Empty.present
  BY DEF Empty
<1>2. Whole(tables, pt, va) => E4(tables, pt, va).present
  BY DEF Whole
<1> QED  BY LookupIs, <1>1, <1>2

\* Another state of the tables has the same way to the page of va.
SameWay(T, T2, pt, va) ==
  /\ HasLeaf(T, pt, va) => HasLeaf(T2, pt, va) /\ E4(T2, pt, va) = E4(T, pt, va)
  /\ Whole(T2, pt, va) <=> Whole(T, pt, va)

LEMMA SameWaySeen ==
  ASSUME NEW T, NEW T2, NEW pt, NEW va, SameWay(T, T2, pt, va)
  PROVE  Seen(T2, pt, va) = Seen(T, pt, va)
BY DEF SameWay, Seen, Whole

\* Where page_from_index is, the table has the level of the walk.
LEMMA ReachedFacts ==
  ASSUME NEW T, NEW R, NEW lev, NEW own, NEW low, NEW pt \in R, NEW va \in Nat,
         GhostTypes(T, R, lev, own, low), EdgesDown(T, R, lev, own, low),
         NEW l \in 1 .. 4, NEW c, Reached(T, pt, va, l, c)
  PROVE  /\ c \in DOMAIN T /\ lev[c] = l /\ own[c] = pt
         /\ l > 1 => low[c] = (page_index(va, 1) < Half)
<1> DEFINE p1 == page_index(va, 1)
           p2 == page_index(va, 2)
           p3 == page_index(va, 3)
<1>1. p1 \in Indexes /\ p2 \in Indexes /\ p3 \in Indexes
  BY IndexType
<1>2. pt \in DOMAIN T /\ lev[pt] = 1 /\ own[pt] = pt
  BY DEF GhostTypes
<1>3. ASSUME E1(T, pt, va).present
      PROVE  LET d == E1(T, pt, va).addr IN
             d \in DOMAIN T /\ lev[d] = 2 /\ own[d] = pt /\ low[d] = (p1 < Half)
  BY <1>1, <1>2, <1>3 DEF EdgesDown, E1
<1>4. ASSUME E1(T, pt, va).present, E2(T, pt, va).present
      PROVE  LET d == E2(T, pt, va).addr IN
             d \in DOMAIN T /\ lev[d] = 3 /\ own[d] = pt /\ low[d] = (p1 < Half)
  BY <1>1, <1>3, <1>4 DEF EdgesDown, E2
<1>5. ASSUME HasLeaf(T, pt, va)
      PROVE  LET d == E3(T, pt, va).addr IN
             d \in DOMAIN T /\ lev[d] = 4 /\ own[d] = pt /\ low[d] = (p1 < Half)
  BY <1>1, <1>4, <1>5 DEF EdgesDown, E3, HasLeaf
<1> QED  BY <1>2, <1>3, <1>4, <1>5 DEF Reached

\* Two ways to one last-level table are the same way.
LEMMA SameLeaf ==
  ASSUME NEW T, NEW R, NEW lev, NEW own, NEW low, NEW pt \in R, NEW qt \in R,
         NEW va \in Nat, NEW vb \in Nat,
         GhostTypes(T, R, lev, own, low), EdgesDown(T, R, lev, own, low), OneParent(T, lev),
         HasLeaf(T, pt, va), HasLeaf(T, qt, vb), E3(T, pt, va).addr = E3(T, qt, vb).addr
  PROVE  pt = qt /\ \A l \in 1 .. 3 : page_index(va, l) = page_index(vb, l)
<1>1. \A l \in 1 .. 4 : page_index(va, l) \in Indexes /\ page_index(vb, l) \in Indexes
  BY IndexType
<1>2. /\ Reached(T, pt, va, 1, pt) /\ Reached(T, qt, vb, 1, qt)
      /\ Reached(T, pt, va, 2, E1(T, pt, va).addr) /\ Reached(T, qt, vb, 2, E1(T, qt, vb).addr)
      /\ Reached(T, pt, va, 3, E2(T, pt, va).addr) /\ Reached(T, qt, vb, 3, E2(T, qt, vb).addr)
  BY DEF Reached, HasLeaf
<1>3. /\ pt \in DOMAIN T /\ lev[pt] = 1 /\ qt \in DOMAIN T /\ lev[qt] = 1
      /\ E1(T, pt, va).addr \in DOMAIN T /\ lev[E1(T, pt, va).addr] = 2
      /\ E1(T, qt, vb).addr \in DOMAIN T /\ lev[E1(T, qt, vb).addr] = 2
      /\ E2(T, pt, va).addr \in DOMAIN T /\ lev[E2(T, pt, va).addr] = 3
      /\ E2(T, qt, vb).addr \in DOMAIN T /\ lev[E2(T, qt, vb).addr] = 3
  BY <1>2, ReachedFacts
<1>4. E2(T, pt, va).addr = E2(T, qt, vb).addr /\ page_index(va, 3) = page_index(vb, 3)
  <2>1. E3(T, pt, va).present /\ E3(T, qt, vb).present
    BY DEF HasLeaf
  <2> QED  BY <1>1, <1>3, <2>1 DEF OneParent, E3
<1>5. E1(T, pt, va).addr = E1(T, qt, vb).addr /\ page_index(va, 2) = page_index(vb, 2)
  <2>1. E2(T, pt, va).present /\ E2(T, qt, vb).present
    BY DEF HasLeaf
  <2> QED  BY <1>1, <1>3, <1>4, <2>1 DEF OneParent, E2
<1>6. pt = qt /\ page_index(va, 1) = page_index(vb, 1)
  <2>1. E1(T, pt, va).present /\ E1(T, qt, vb).present
    BY DEF HasLeaf
  <2> QED  BY <1>1, <1>3, <1>5, <2>1 DEF OneParent, E1
<1>7. \A l \in 1 .. 3 : l = 1 \/ l = 2 \/ l = 3
  OBVIOUS
<1> QED  BY <1>4, <1>5, <1>6, <1>7

-----------------------------------------------------------------------------
(***************************************************************************)
(* Levels, roots and halves are what the model's sets of tables say.       *)
(***************************************************************************)
\* Targets, Lower and UserFrames for tables T and top-level tables R.
Heads(T, S) == {e.addr : e \in {x \in {T[f][i] : f \in S, i \in Indexes} : x.present}}

LowerOf(T, S) ==
  {e.addr : e \in {x \in {T[t][i] : t \in S, i \in 0 .. (Half - 1)} : x.present}}

UserFramesOf(T, R) == Heads(T, Heads(T, Heads(T, LowerOf(T, R))))

LEMMA SetsAre ==
  /\ \A S : Targets(S) = Heads(tables, S)
  /\ \A S : Lower(S) = LowerOf(tables, S)
  /\ UserFrames = UserFramesOf(tables, roots)
<1>1. \A S : Targets(S) = Heads(tables, S)
  BY DEF Targets, Present, Heads
<1>2. \A S : Lower(S) = LowerOf(tables, S)
  BY DEF Lower, LowerOf, Half
<1> QED  BY <1>1, <1>2 DEF UserFrames, UserFramesOf

\* The same after a step.
LEMMA UserFramesNext == UserFrames' = UserFramesOf(tables', roots')
BY DEF UserFrames, Targets, Present, Lower, UserFramesOf, Heads, LowerOf, Half

LEMMA TargetsIs ==
  ASSUME NEW T, NEW S, NEW x
  PROVE  x \in Heads(T, S) <=>
           \E t \in S, i \in Indexes : T[t][i].present /\ T[t][i].addr = x
BY DEF Heads

LEMMA LowerIs ==
  ASSUME NEW T, NEW S, NEW x
  PROVE  x \in LowerOf(T, S) <=>
           \E t \in S, i \in Indexes : i < Half /\ T[t][i].present /\ T[t][i].addr = x
<1>1. \A i : i \in 0 .. (Half - 1) <=> i \in Indexes /\ i < Half
  BY HalfType, PageTablesAssumption DEF Indexes
<1> QED  BY <1>1 DEF LowerOf

\* Tables of level l below the roots P in the halves B.
Class(T, lev, own, low, l, P, B) ==
  {t \in DOMAIN T : lev[t] = l /\ own[t] \in P /\ low[t] \in B}

LEMMA ClassDown ==
  ASSUME NEW T, NEW R, NEW lev, NEW own, NEW low, NEW l \in 2 .. 3, NEW P, NEW B,
         GhostTypes(T, R, lev, own, low), EdgesDown(T, R, lev, own, low),
         HasParent(T, lev)
  PROVE  Heads(T, Class(T, lev, own, low, l, P, B)) =
           Class(T, lev, own, low, l + 1, P, B)
<1> DEFINE C == Class(T, lev, own, low, l, P, B)
           D == Class(T, lev, own, low, l + 1, P, B)
<1>1. ASSUME NEW x \in Heads(T, C) PROVE x \in D
  <2>1. PICK t \in C, i \in Indexes : T[t][i].present /\ T[t][i].addr = x
    BY <1>1, TargetsIs
  <2>2. t \in DOMAIN T /\ lev[t] = l /\ own[t] \in P /\ low[t] \in B
    BY DEF Class
  <2> QED  BY <2>1, <2>2 DEF Class, EdgesDown
<1>2. ASSUME NEW x \in D PROVE x \in Heads(T, C)
  <2>1. x \in DOMAIN T /\ lev[x] = l + 1 /\ own[x] \in P /\ low[x] \in B
    BY DEF Class
  <2>2. PICK u \in DOMAIN T, i \in Indexes :
          lev[u] < 4 /\ T[u][i].present /\ T[u][i].addr = x
    BY <2>1 DEF HasParent
  <2>3. lev[u] \in 1 .. 4
    BY DEF GhostTypes
  <2>4. lev[u] = l /\ own[u] = own[x] /\ low[u] = low[x]
    BY <2>1, <2>2, <2>3 DEF EdgesDown
  <2>5. u \in C
    BY <2>1, <2>4 DEF Class
  <2> QED  BY <2>2, <2>5, TargetsIs
<1> QED  BY <1>1, <1>2

LEMMA ClassTop ==
  ASSUME NEW T, NEW R, NEW lev, NEW own, NEW low, NEW P \in SUBSET R,
         GhostTypes(T, R, lev, own, low), EdgesDown(T, R, lev, own, low),
         HasParent(T, lev)
  PROVE  /\ Heads(T, P) = Class(T, lev, own, low, 2, P, BOOLEAN)
         /\ LowerOf(T, P) = Class(T, lev, own, low, 2, P, {TRUE})
<1>1. ASSUME NEW x \in Heads(T, P) PROVE x \in Class(T, lev, own, low, 2, P, BOOLEAN)
  <2>1. PICK t \in P, i \in Indexes : T[t][i].present /\ T[t][i].addr = x
    BY <1>1, TargetsIs
  <2>2. t \in DOMAIN T /\ lev[t] = 1 /\ own[t] = t
    BY DEF GhostTypes
  <2>3. x \in DOMAIN T /\ lev[x] = 2 /\ own[x] = t
    BY <2>1, <2>2 DEF EdgesDown
  <2> QED  BY <2>3 DEF Class, GhostTypes
<1>2. ASSUME NEW x \in LowerOf(T, P) PROVE x \in Class(T, lev, own, low, 2, P, {TRUE})
  <2>1. PICK t \in P, i \in Indexes : i < Half /\ T[t][i].present /\ T[t][i].addr = x
    BY <1>2, LowerIs
  <2>2. t \in DOMAIN T /\ lev[t] = 1 /\ own[t] = t
    BY DEF GhostTypes
  <2>3. x \in DOMAIN T /\ lev[x] = 2 /\ own[x] = t /\ low[x] = (i < Half)
    BY <2>1, <2>2 DEF EdgesDown
  <2>4. low[x] = TRUE
    BY <2>1, <2>3
  <2> QED  BY <2>3, <2>4 DEF Class
<1>3. ASSUME NEW x \in DOMAIN T, lev[x] = 2, own[x] \in P
      PROVE  \E i \in Indexes : /\ T[own[x]][i].present /\ T[own[x]][i].addr = x
                                /\ low[x] = (i < Half)
  <2>2. PICK u \in DOMAIN T, i \in Indexes :
          lev[u] < 4 /\ T[u][i].present /\ T[u][i].addr = x
    BY <1>3 DEF HasParent
  <2>3. lev[u] \in 1 .. 4
    BY DEF GhostTypes
  <2>4. lev[u] = 1 /\ own[u] = own[x] /\ low[x] = (i < Half)
    BY <1>3, <2>2, <2>3 DEF EdgesDown
  <2>5. own[u] = u
    BY <2>4 DEF GhostTypes
  <2> QED  BY <2>2, <2>4, <2>5
<1>4. ASSUME NEW x \in Class(T, lev, own, low, 2, P, BOOLEAN) PROVE x \in Heads(T, P)
  BY <1>3, TargetsIs DEF Class
<1>5. ASSUME NEW x \in Class(T, lev, own, low, 2, P, {TRUE}) PROVE x \in LowerOf(T, P)
  <2>1. x \in DOMAIN T /\ lev[x] = 2 /\ own[x] \in P /\ low[x] = TRUE
    BY DEF Class
  <2>2. PICK i \in Indexes : /\ T[own[x]][i].present /\ T[own[x]][i].addr = x
                             /\ low[x] = (i < Half)
    BY <1>3, <2>1
  <2> QED  BY <2>1, <2>2, LowerIs
<1> QED  BY <1>1, <1>2, <1>4, <1>5

\* The frames that callers have mapped are those in last-level T of the
\* lower half.
LEMMA UserFramesIs ==
  ASSUME NEW T, NEW R, NEW lev, NEW own, NEW low, TablesTyped(T),
         GhostTypes(T, R, lev, own, low), EdgesDown(T, R, lev, own, low),
         HasParent(T, lev)
  PROVE  UserFramesOf(T, R) = MappedFrames(T, lev, low)
<1> DEFINE C(l) == Class(T, lev, own, low, l, R, {TRUE})
<1>1. LowerOf(T, R) = C(2)
  BY ClassTop
<1>2. Heads(T, C(2)) = C(3) /\ Heads(T, C(3)) = C(4)
  <2>1. 2 \in 2 .. 3 /\ 3 \in 2 .. 3 /\ 2 + 1 = 3 /\ 3 + 1 = 4
    OBVIOUS
  <2>2. Heads(T, C(2)) = C(2 + 1) /\ Heads(T, C(3)) = C(3 + 1)
    BY <2>1, ClassDown
  <2> QED  BY <2>1, <2>2
<1>3. UserFramesOf(T, R) = Heads(T, C(4))
  BY <1>1, <1>2 DEF UserFramesOf
<1>4. \A x : x \in C(4) <=> x \in DOMAIN T /\ lev[x] = 4 /\ low[x]
  BY DEF Class, GhostTypes
<1>5. \A t \in DOMAIN T, i \in Indexes : T[t][i].addr \in Nat
  BY DEF TablesTyped, EntryType
<1> HIDE DEF C
<1>6. \A x : x \in UserFramesOf(T, R) <=> x \in MappedFrames(T, lev, low)
  BY <1>3, <1>4, <1>5, TargetsIs DEF MappedFrames
<1> QED  BY <1>6

\* Below a page table that is not the kernel's there are only the tables of
\* the lower half.
LEMMA BelowIs ==
  ASSUME NEW lev, NEW own, NEW low, NEW pt \in roots \ {kernelPT},
         GhostTypes(tables, roots, lev, own, low), EdgesDown(tables, roots, lev, own, low),
         HasParent(tables, lev), UpperEmpty(tables, roots, kernelPT)
  PROVE  LET L2 == LowerHalf(pt)
             L3 == Targets(L2)
             L4 == Targets(L3)
         IN  /\ {pt} \cup L2 \cup L3 \cup L4 = {t \in DOMAIN tables : own[t] = pt}
             /\ L4 = {t \in DOMAIN tables : own[t] = pt /\ lev[t] = 4}
             /\ \A t \in L4 : low[t]
<1> DEFINE C(l) == Class(tables, lev, own, low, l, {pt}, {TRUE})
<1>1. LowerHalf(pt) = C(2)
  BY ClassTop, SetsAre DEF LowerHalf
<1>2. Targets(C(2)) = C(3) /\ Targets(C(3)) = C(4)
  <2>1. 2 \in 2 .. 3 /\ 3 \in 2 .. 3 /\ 2 + 1 = 3 /\ 3 + 1 = 4
    OBVIOUS
  <2>2. Targets(C(2)) = C(2 + 1) /\ Targets(C(3)) = C(3 + 1)
    BY <2>1, ClassDown, SetsAre
  <2> QED  BY <2>1, <2>2
<1>3. \A x, l : x \in C(l) <=> x \in DOMAIN tables /\ lev[x] = l /\ own[x] = pt /\ low[x] = TRUE
  BY DEF Class
<1>4. ASSUME NEW x \in DOMAIN tables, own[x] = pt, lev[x] = 2
      PROVE  low[x] = TRUE
  <2>2. PICK u \in DOMAIN tables, i \in Indexes :
          lev[u] < 4 /\ tables[u][i].present /\ tables[u][i].addr = x
    BY <1>4 DEF HasParent
  <2>3. lev[u] \in 1 .. 4
    BY DEF GhostTypes
  <2>4. lev[u] = 1 /\ own[u] = pt /\ low[x] = (i < Half)
    BY <1>4, <2>2, <2>3 DEF EdgesDown
  <2>5. u = pt
    BY <2>4 DEF GhostTypes
  <2>6. i < Half
    BY <2>2, <2>5, HalfType, PageTablesAssumption DEF UpperEmpty, Indexes
  <2> QED  BY <2>4, <2>6
<1>5. ASSUME NEW l \in 2 .. 3, NEW x \in DOMAIN tables, own[x] = pt, lev[x] = l + 1,
             \A y \in DOMAIN tables : own[y] = pt /\ lev[y] = l => low[y] = TRUE
      PROVE  low[x] = TRUE
  <2>2. PICK u \in DOMAIN tables, i \in Indexes :
          lev[u] < 4 /\ tables[u][i].present /\ tables[u][i].addr = x
    BY <1>5 DEF HasParent
  <2>3. lev[u] \in 1 .. 4
    BY DEF GhostTypes
  <2> QED  BY <1>5, <2>2, <2>3 DEF EdgesDown
<1>6. \A x \in DOMAIN tables : own[x] = pt /\ lev[x] \in 2 .. 4 => low[x] = TRUE
  <2>1. \A x \in DOMAIN tables : own[x] = pt /\ lev[x] = 2 => low[x] = TRUE
    BY <1>4
  <2>2. \A x \in DOMAIN tables : own[x] = pt /\ lev[x] = 3 => low[x] = TRUE
    <3>1. 2 \in 2 .. 3 /\ 2 + 1 = 3
      OBVIOUS
    <3> QED  BY <2>1, <3>1, <1>5
  <2>3. \A x \in DOMAIN tables : own[x] = pt /\ lev[x] = 4 => low[x] = TRUE
    <3>1. 3 \in 2 .. 3 /\ 3 + 1 = 4
      OBVIOUS
    <3> QED  BY <2>2, <3>1, <1>5
  <2> QED  BY <2>1, <2>2, <2>3
<1>7. \A x \in DOMAIN tables : own[x] = pt /\ lev[x] = 1 <=> x = pt
  BY DEF GhostTypes
<1>8. \A x \in DOMAIN tables : lev[x] \in 1 .. 4
  BY DEF GhostTypes
<1>9. pt \in DOMAIN tables /\ own[pt] = pt
  BY DEF GhostTypes
<1> HIDE DEF C
<1>a. {pt} \cup C(2) \cup C(3) \cup C(4) = {t \in DOMAIN tables : own[t] = pt}
  BY <1>3, <1>6, <1>7, <1>8, <1>9
<1>b. C(4) = {t \in DOMAIN tables : own[t] = pt /\ lev[t] = 4}
  BY <1>3, <1>6
<1>c. \A t \in C(4) : low[t]
  BY <1>3
<1> QED  BY <1>1, <1>2, <1>a, <1>b, <1>c

-----------------------------------------------------------------------------
(***************************************************************************)
(* What the invariant says about the properties of the runs.               *)
(***************************************************************************)
LEMMA InvTree ==
  ASSUME TypeOK, PagesInv, TreeInv
  PROVE  TreeShaped
<1>1. PICK lev, own, low : Shape(tables, roots, kernelPT, held, lev, own, low)
  BY DEF TreeInv
<1>2. /\ GhostTypes(tables, roots, lev, own, low) /\ EdgesDown(tables, roots, lev, own, low)
      /\ OneParent(tables, lev) /\ HasParent(tables, lev)
  BY <1>1 DEF Shape
<1> DEFINE L2 == Targets(roots)
           L3 == Targets(L2)
           L4 == Targets(L3)
           inner == roots \cup L2 \cup L3
           C(l) == Class(tables, lev, own, low, l, roots, BOOLEAN)
           RefsTo(f) == {r \in inner \X Indexes :
                           LET e == tables[r[1]][r[2]] IN e.present /\ e.addr = f}
<1>3. L2 = C(2) /\ L3 = C(3) /\ L4 = C(4)
  <2>1. L2 = C(2)
    BY <1>2, ClassTop, SetsAre
  <2>2. 2 \in 2 .. 3 /\ 3 \in 2 .. 3 /\ 2 + 1 = 3 /\ 3 + 1 = 4
    OBVIOUS
  <2>3. Targets(C(2)) = C(2 + 1) /\ Targets(C(3)) = C(3 + 1)
    BY <2>2, <1>2, ClassDown, SetsAre
  <2> QED  BY <2>1, <2>2, <2>3
<1>4. \A x, l : x \in C(l) <=> x \in DOMAIN tables /\ lev[x] = l
  BY <1>2 DEF Class, GhostTypes
<1>5. \A x \in DOMAIN tables : lev[x] \in 1 .. 4 /\ (lev[x] = 1 <=> x \in roots)
  BY <1>2 DEF GhostTypes
<1>6. roots \subseteq DOMAIN tables
  BY DEF TypeOK
<1>7. \A x : x \in inner <=> x \in DOMAIN tables /\ lev[x] < 4
  <2> HIDE DEF L2, L3, C
  <2> QED  BY <1>3, <1>4, <1>5, <1>6
<1>8. Tables(roots) = DOMAIN tables
  <2>1. Tables(roots) = roots \cup L2 \cup L3 \cup L4
    BY DEF Tables
  <2> HIDE DEF L2, L3, L4, C
  <2> QED  BY <2>1, <1>3, <1>4, <1>5, <1>6
<1>9. L2 \subseteq DOMAIN tables /\ L3 \subseteq DOMAIN tables /\ Targets(L3) \subseteq DOMAIN tables
  <2> HIDE DEF C
  <2> QED  BY <1>3, <1>4
<1> HIDE DEF inner
<1>a. \A f, t, i : << t, i >> \in RefsTo(f) <=>
        t \in DOMAIN tables /\ lev[t] < 4 /\ i \in Indexes /\ tables[t][i].present
        /\ tables[t][i].addr = f
  BY <1>7
<1>b. \A f : RefsTo(f) \subseteq inner \X Indexes
  OBVIOUS
<1>c. ASSUME NEW f \in roots PROVE RefsTo(f) = {}
  <2> SUFFICES ASSUME NEW r \in RefsTo(f) PROVE FALSE
    OBVIOUS
  <2>1. PICK t, i : r = << t, i >>
    BY <1>b
  <2>2. /\ t \in DOMAIN tables /\ lev[t] < 4 /\ i \in Indexes /\ tables[t][i].present
        /\ tables[t][i].addr = f
    BY <2>1, <1>a
  <2>3. lev[f] = lev[t] + 1
    BY <2>2, <1>2 DEF EdgesDown
  <2>4. lev[f] = 1 /\ lev[t] \in 1 .. 4
    BY <2>2, <1>5, <1>6
  <2> QED  BY <2>3, <2>4
<1>d. ASSUME NEW f \in Tables(roots) \ roots PROVE Cardinality(RefsTo(f)) = 1
  <2>1. f \in DOMAIN tables /\ lev[f] # 1
    BY <1>5, <1>8
  <2>2. PICK u \in DOMAIN tables, j \in Indexes :
          lev[u] < 4 /\ tables[u][j].present /\ tables[u][j].addr = f
    BY <2>1, <1>2 DEF HasParent
  <2>3. << u, j >> \in RefsTo(f)
    BY <2>2, <1>a
  <2>4. ASSUME NEW r \in RefsTo(f) PROVE r = << u, j >>
    <3>1. PICK t, i : r = << t, i >>
      BY <1>b
    <3>2. /\ t \in DOMAIN tables /\ lev[t] < 4 /\ i \in Indexes /\ tables[t][i].present
          /\ tables[t][i].addr = f
      BY <3>1, <1>a
    <3>3. t = u /\ i = j
      BY <2>2, <3>2, <1>2 DEF OneParent
    <3> QED  BY <3>1, <3>3
  <2> HIDE DEF RefsTo
  <2>5. RefsTo(f) = {<< u, j >>}
    BY <2>3, <2>4
  <2> QED  BY <2>5, FS_Singleton
<1>e. Tables(roots) \cap (avail \cup held) = {}
  BY <1>8 DEF PagesInv
<1> QED  BY <1>8, <1>9, <1>c, <1>d, <1>e DEF TreeShaped, inner

\* A frame that the page table in use maps at an address of the lower half is
\* held, so it is not free.
LEMMA InvTLB ==
  ASSUME TypeOK, PagesInv, TreeInv, StageInv, TLBInv, Halves
  PROVE  TLBNeverDangles
<1> SUFFICES ASSUME NEW t \in tlb PROVE t.frame \notin avail
  BY DEF TLBNeverDangles
<1>1. PICK va \in VirtAddrs : t.page = PageOf(va)
  BY DEF TLBInv
<1>2. CASE Whole(tables, cr3, va) /\ E4(tables, cr3, va).addr = t.frame
  <2>1. PICK lev, own, low : Shape(tables, roots, kernelPT, held, lev, own, low)
    BY DEF TreeInv
  <2>2. /\ GhostTypes(tables, roots, lev, own, low) /\ EdgesDown(tables, roots, lev, own, low)
        /\ UserMaps(tables, lev, low, held)
    BY <2>1 DEF Shape
  <2>3. cr3 \in roots /\ va \in Nat /\ IsLower(va)
    BY PageTablesAssumption DEF StageInv, Halves
  <2>4. Reached(tables, cr3, va, 4, E3(tables, cr3, va).addr)
    BY <1>2 DEF Reached, Whole
  <2> DEFINE c == E3(tables, cr3, va).addr
  <2>5. c \in DOMAIN tables /\ lev[c] = 4 /\ low[c] = (page_index(va, 1) < Half)
    BY <2>2, <2>3, <2>4, ReachedFacts
  <2>6. page_index(va, 1) < Half /\ page_index(va, 4) \in Indexes
    BY <2>3, LowerIndex, IndexType
  <2>7. tables[c][page_index(va, 4)].present /\ tables[c][page_index(va, 4)].addr = t.frame
    BY <1>2 DEF Whole, E4
  <2>8. t.frame \in held
    BY <2>2, <2>5, <2>6, <2>7 DEF UserMaps
  <2> QED  BY <2>8 DEF PagesInv
<1>3. CASE pc = "invlpg" /\ PageOf(call.va) = t.page /\ t.frame \in owned
  BY <1>3 DEF PagesInv
<1> QED  BY <1>1, <1>2, <1>3 DEF TLBInv

-----------------------------------------------------------------------------
(***************************************************************************)
(* A store to one entry of a last-level table.                             *)
(***************************************************************************)
Changed(T, T2, c, i) ==
  /\ DOMAIN T2 = DOMAIN T
  /\ \A t \in DOMAIN T : /\ DOMAIN T2[t] = Indexes
                         /\ \A j \in Indexes : t # c \/ j # i => T2[t][j] = T[t][j]

LEMMA ChangedShape ==
  ASSUME NEW T, NEW T2, NEW R, NEW k, NEW lev, NEW own, NEW low, NEW c \in DOMAIN T,
         NEW i \in Indexes, Changed(T, T2, c, i), lev[c] = 4,
         GhostTypes(T, R, lev, own, low), EdgesDown(T, R, lev, own, low),
         OneParent(T, lev), HasParent(T, lev), UpperEmpty(T, R, k)
  PROVE  /\ GhostTypes(T2, R, lev, own, low) /\ EdgesDown(T2, R, lev, own, low)
         /\ OneParent(T2, lev) /\ HasParent(T2, lev) /\ UpperEmpty(T2, R, k)
<1>1. DOMAIN T2 = DOMAIN T
  BY DEF Changed
<1>2. \A t \in DOMAIN T, j \in Indexes : lev[t] < 4 => T2[t][j] = T[t][j]
  BY DEF Changed
<1>3. GhostTypes(T2, R, lev, own, low)
  BY <1>1 DEF GhostTypes
<1>4. EdgesDown(T2, R, lev, own, low)
  BY <1>1, <1>2 DEF EdgesDown
<1>5. OneParent(T2, lev)
  BY <1>1, <1>2 DEF OneParent
<1>6. HasParent(T2, lev)
  BY <1>1, <1>2 DEF HasParent
<1>7. UpperEmpty(T2, R, k)
  <2>1. \A t \in R : t \in DOMAIN T /\ lev[t] = 1
    BY DEF GhostTypes
  <2> QED  BY <1>2, <2>1 DEF UpperEmpty
<1> QED  BY <1>3, <1>4, <1>5, <1>6, <1>7

\* It changes no way to a last-level table, and there only its own entry.
EntryAfter(T, T2, c, i, pt, va) ==
  E4(T2, pt, va) = IF E3(T, pt, va).addr = c /\ page_index(va, 4) = i
                   THEN T2[c][i] ELSE E4(T, pt, va)

LEMMA ChangedWay ==
  ASSUME NEW T, NEW T2, NEW R, NEW lev, NEW own, NEW low, NEW c \in DOMAIN T,
         NEW i \in Indexes, Changed(T, T2, c, i), lev[c] = 4,
         GhostTypes(T, R, lev, own, low), EdgesDown(T, R, lev, own, low),
         NEW pt \in R, NEW va \in Nat
  PROVE  /\ HasLeaf(T2, pt, va) <=> HasLeaf(T, pt, va)
         /\ HasLeaf(T, pt, va) => EntryAfter(T, T2, c, i, pt, va)
<1>1. \A l \in 1 .. 4 : page_index(va, l) \in Indexes
  BY IndexType
<1>2. \A t \in DOMAIN T, j \in Indexes : lev[t] < 4 => T2[t][j] = T[t][j]
  BY DEF Changed
<1>3. E1(T2, pt, va) = E1(T, pt, va)
  <2>1. pt \in DOMAIN T /\ lev[pt] = 1
    BY DEF GhostTypes
  <2> QED  BY <1>1, <1>2, <2>1 DEF E1
<1>4. ASSUME E1(T, pt, va).present
      PROVE  E2(T2, pt, va) = E2(T, pt, va)
  <2>1. Reached(T, pt, va, 2, E1(T, pt, va).addr)
    BY <1>4 DEF Reached
  <2>2. E1(T, pt, va).addr \in DOMAIN T /\ lev[E1(T, pt, va).addr] = 2
    BY <2>1, ReachedFacts
  <2> QED  BY <1>1, <1>2, <1>3, <2>2 DEF E2
<1>5. ASSUME E1(T, pt, va).present, E2(T, pt, va).present
      PROVE  E3(T2, pt, va) = E3(T, pt, va)
  <2>1. Reached(T, pt, va, 3, E2(T, pt, va).addr)
    BY <1>5 DEF Reached
  <2>2. E2(T, pt, va).addr \in DOMAIN T /\ lev[E2(T, pt, va).addr] = 3
    BY <2>1, ReachedFacts
  <2> QED  BY <1>1, <1>2, <1>4, <1>5, <2>2 DEF E3
<1>6. HasLeaf(T2, pt, va) <=> HasLeaf(T, pt, va)
  BY <1>3, <1>4, <1>5 DEF HasLeaf
<1>7. ASSUME HasLeaf(T, pt, va)
      PROVE  EntryAfter(T, T2, c, i, pt, va)
  <2>1. E3(T2, pt, va) = E3(T, pt, va)
    BY <1>5, <1>7 DEF HasLeaf
  <2>2. Reached(T, pt, va, 4, E3(T, pt, va).addr)
    BY <1>7 DEF Reached
  <2>3. E3(T, pt, va).addr \in DOMAIN T
    BY <2>2, ReachedFacts
  <2> DEFINE d == E3(T, pt, va).addr
  <2>4. CASE d = c /\ page_index(va, 4) = i
    BY <2>1, <2>3, <2>4 DEF E4, EntryAfter
  <2>5. CASE ~(d = c /\ page_index(va, 4) = i)
    <3>1. T2[d][page_index(va, 4)] = T[d][page_index(va, 4)]
      BY <1>1, <2>3, <2>5 DEF Changed
    <3> QED  BY <2>1, <2>3, <2>5, <3>1 DEF E4, EntryAfter
  <2> QED  BY <2>4, <2>5
<1> QED  BY <1>6, <1>7

-----------------------------------------------------------------------------
(***************************************************************************)
(* A new table f, and the entry of c that leads to it.                     *)
(***************************************************************************)
Added(T, T2, c, i, f) ==
  /\ f \notin DOMAIN T /\ DOMAIN T2 = DOMAIN T \cup {f}
  /\ T2[f] = EmptyTable
  /\ \A t \in DOMAIN T : /\ DOMAIN T2[t] = Indexes
                         /\ \A j \in Indexes : t # c \/ j # i => T2[t][j] = T[t][j]
  /\ ~T[c][i].present /\ T2[c][i].present /\ T2[c][i].addr = f

LEMMA AddedShape ==
  ASSUME NEW T, NEW T2, NEW R, NEW k, NEW H, NEW lev, NEW own, NEW low, NEW c \in DOMAIN T,
         NEW i \in Indexes, NEW f, Added(T, T2, c, i, f), lev[c] < 4,
         lev[c] = 1 /\ c # k => i < Half,
         Shape(T, R, k, H, lev, own, low)
  PROVE  \E lev2, own2, low2 :
           /\ Shape(T2, R, k, H, lev2, own2, low2)
           /\ MappedFrames(T2, lev2, low2) = MappedFrames(T, lev, low)
<1> DEFINE l2 == [t \in DOMAIN T2 |-> IF t = f THEN lev[c] + 1 ELSE lev[t]]
           o2 == [t \in DOMAIN T2 |-> IF t = f THEN own[c] ELSE own[t]]
           w2 == [t \in DOMAIN T2 |-> IF t = f THEN IF lev[c] = 1 THEN i < Half ELSE low[c]
                                      ELSE low[t]]
<1>0. /\ GhostTypes(T, R, lev, own, low) /\ EdgesDown(T, R, lev, own, low)
      /\ OneParent(T, lev) /\ HasParent(T, lev) /\ UpperEmpty(T, R, k)
      /\ UserMaps(T, lev, low, H)
  BY DEF Shape
<1>1. \A t \in DOMAIN T : /\ l2[t] = lev[t] /\ o2[t] = own[t] /\ w2[t] = low[t]
                          /\ t # f /\ t \in DOMAIN T2
  BY DEF Added
<1>2. /\ f \in DOMAIN T2 /\ l2[f] = lev[c] + 1 /\ o2[f] = own[c]
      /\ w2[f] = IF lev[c] = 1 THEN i < Half ELSE low[c]
      /\ \A j \in Indexes : ~T2[f][j].present
  BY DEF Added, EmptyTable, Empty
<1>3. \A t \in DOMAIN T2 : t \in DOMAIN T \/ t = f
  BY DEF Added
<1>4. \A t \in DOMAIN T : lev[t] \in 1 .. 4
  BY <1>0 DEF GhostTypes
<1>5. GhostTypes(T2, R, l2, o2, w2)
  <2>1. lev[c] + 1 \in 1 .. 4 /\ lev[c] + 1 # 1 /\ own[c] \in R
    BY <1>0, <1>4 DEF GhostTypes
  <2>2. w2[f] \in BOOLEAN
    <3>1. (i < Half) \in BOOLEAN
      OBVIOUS
    <3>2. low[c] \in BOOLEAN
      BY <1>0 DEF GhostTypes
    <3> HIDE DEF l2, o2, w2
    <3> QED  BY <1>2, <3>1, <3>2
  <2>3. \A t \in DOMAIN T2 : l2[t] \in 1 .. 4 /\ o2[t] \in R /\ w2[t] \in BOOLEAN
    BY <1>0, <1>1, <1>2, <1>3, <2>1, <2>2 DEF GhostTypes
  <2>4. l2 \in [DOMAIN T2 -> 1 .. 4] /\ o2 \in [DOMAIN T2 -> R] /\ w2 \in [DOMAIN T2 -> BOOLEAN]
    BY <2>3
  <2> HIDE DEF l2, o2, w2
  <2>5. \A t \in R : t \in DOMAIN T2
    BY <1>0, <1>1 DEF GhostTypes
  <2>6. \A t \in DOMAIN T2 : l2[t] = 1 <=> t \in R
    <3>1. f \notin R
      BY <1>0, <1>1 DEF GhostTypes
    <3> QED  BY <1>0, <1>1, <1>2, <1>3, <2>1, <3>1 DEF GhostTypes
  <2>7. \A t \in R : o2[t] = t
    BY <1>0, <1>1 DEF GhostTypes
  <2> QED  BY <2>4, <2>5, <2>6, <2>7 DEF GhostTypes
<1> HIDE DEF l2, o2, w2
<1>6. \A t \in DOMAIN T, j \in Indexes : t # c \/ j # i => T2[t][j] = T[t][j]
  BY DEF Added
<1>7. ~T[c][i].present /\ T2[c][i].present /\ T2[c][i].addr = f
  BY DEF Added
<1>8. EdgesDown(T2, R, l2, o2, w2)
  <2> SUFFICES ASSUME NEW t \in DOMAIN T2, NEW j \in Indexes, l2[t] < 4, T2[t][j].present
               PROVE  /\ T2[t][j].addr \in DOMAIN T2
                      /\ l2[T2[t][j].addr] = l2[t] + 1
                      /\ o2[T2[t][j].addr] = o2[t]
                      /\ w2[T2[t][j].addr] = IF l2[t] = 1 THEN j < Half ELSE w2[t]
    BY DEF EdgesDown
  <2>1. t \in DOMAIN T
    BY <1>2, <1>3
  <2>2. CASE t = c /\ j = i
    BY <1>1, <1>2, <1>7, <2>2
  <2>3. CASE ~(t = c /\ j = i)
    <3>1. T2[t][j] = T[t][j] /\ lev[t] < 4
      BY <1>1, <1>6, <2>1, <2>3
    <3>2. /\ T[t][j].addr \in DOMAIN T /\ lev[T[t][j].addr] = lev[t] + 1
          /\ own[T[t][j].addr] = own[t]
          /\ low[T[t][j].addr] = IF lev[t] = 1 THEN j < Half ELSE low[t]
      BY <1>0, <2>1, <3>1 DEF EdgesDown
    <3> QED  BY <1>1, <2>1, <3>1, <3>2
  <2> QED  BY <2>2, <2>3
<1>9. OneParent(T2, l2)
  <2> SUFFICES ASSUME NEW t \in DOMAIN T2, NEW u \in DOMAIN T2, NEW j \in Indexes, NEW m \in Indexes,
                      l2[t] < 4, l2[u] < 4, T2[t][j].present, T2[u][m].present,
                      T2[t][j].addr = T2[u][m].addr
               PROVE  t = u /\ j = m
    BY DEF OneParent
  <2>1. t \in DOMAIN T /\ u \in DOMAIN T /\ lev[t] < 4 /\ lev[u] < 4
    BY <1>1, <1>2, <1>3
  <2>2. \A x \in DOMAIN T, y \in Indexes : lev[x] < 4 /\ T[x][y].present => T[x][y].addr # f
    BY <1>0, <1>1 DEF EdgesDown
  <2> QED  BY <1>0, <1>6, <1>7, <2>1, <2>2 DEF OneParent
<1>a. HasParent(T2, l2)
  <2> SUFFICES ASSUME NEW t \in DOMAIN T2, l2[t] # 1
               PROVE  \E u \in DOMAIN T2, j \in Indexes :
                        l2[u] < 4 /\ T2[u][j].present /\ T2[u][j].addr = t
    BY DEF HasParent
  <2>1. CASE t = f
    BY <1>1, <1>7, <2>1
  <2>2. CASE t \in DOMAIN T
    <3>1. PICK u \in DOMAIN T, j \in Indexes : lev[u] < 4 /\ T[u][j].present /\ T[u][j].addr = t
      BY <1>0, <1>1, <2>2 DEF HasParent
    <3>2. T2[u][j] = T[u][j]
      BY <1>6, <1>7, <3>1
    <3> QED  BY <1>1, <3>1, <3>2
  <2> QED  BY <1>3, <2>1, <2>2
<1>b. UpperEmpty(T2, R, k)
  <2> SUFFICES ASSUME NEW t \in R \ {k}, NEW j \in Indexes, j >= Half PROVE ~T2[t][j].present
    BY DEF UpperEmpty
  <2>1. t \in DOMAIN T /\ lev[t] = 1
    BY <1>0 DEF GhostTypes
  <2>2. ~(t = c /\ j = i)
    BY <2>1, HalfType, PageTablesAssumption DEF Indexes
  <2> QED  BY <1>0, <1>6, <2>1, <2>2 DEF UpperEmpty
<1>c. \A t \in DOMAIN T2, j \in Indexes : l2[t] = 4 /\ T2[t][j].present =>
        t \in DOMAIN T /\ lev[t] = 4 /\ w2[t] = low[t] /\ T2[t][j] = T[t][j]
  BY <1>1, <1>2, <1>3, <1>6
<1>d. UserMaps(T2, l2, w2, H)
  BY <1>0, <1>c DEF UserMaps
<1>e. MappedFrames(T2, l2, w2) = MappedFrames(T, lev, low)
  <2>1. \A t \in DOMAIN T, j \in Indexes : lev[t] = 4 => T2[t][j] = T[t][j]
    BY <1>6
  <2> QED  BY <1>1, <1>c, <2>1 DEF MappedFrames
<1>f. Shape(T2, R, k, H, l2, o2, w2)
  BY <1>5, <1>8, <1>9, <1>a, <1>b, <1>d DEF Shape
<1> QED  BY <1>e, <1>f
\* It completes no way to a page and breaks none, and the walk goes on in it.
LEMMA AddedWay ==
  ASSUME NEW T, NEW T2, NEW R, NEW lev, NEW own, NEW low, NEW c \in DOMAIN T,
         NEW i \in Indexes, NEW f, Added(T, T2, c, i, f), lev[c] < 4,
         GhostTypes(T, R, lev, own, low), EdgesDown(T, R, lev, own, low),
         NEW pt \in R, NEW va \in Nat
  PROVE  /\ SameWay(T, T2, pt, va)
         /\ \A l \in 1 .. 3 : Reached(T, pt, va, l, c) /\ i = page_index(va, l) =>
                                Reached(T2, pt, va, l + 1, f)
<1>1. \A l \in 1 .. 4 : page_index(va, l) \in Indexes
  BY IndexType
<1>2. \A t \in DOMAIN T, j \in Indexes : t # c \/ j # i => T2[t][j] = T[t][j]
  BY DEF Added
<1>3. ~T[c][i].present /\ T2[c][i].present /\ T2[c][i].addr = f
  BY DEF Added
<1>4. \A t \in DOMAIN T, j \in Indexes : T[t][j].present => T2[t][j] = T[t][j]
  BY <1>2, <1>3
<1>5. \A j \in Indexes : ~T2[f][j].present
  BY DEF Added, EmptyTable, Empty
<1>6. pt \in DOMAIN T
  BY DEF GhostTypes
<1>7. ASSUME E1(T, pt, va).present
      PROVE  E1(T2, pt, va) = E1(T, pt, va) /\ E1(T, pt, va).addr \in DOMAIN T
             /\ lev[E1(T, pt, va).addr] = 2
  <2>1. Reached(T, pt, va, 2, E1(T, pt, va).addr)
    BY <1>7 DEF Reached
  <2>2. E1(T, pt, va).addr \in DOMAIN T /\ lev[E1(T, pt, va).addr] = 2
    BY <2>1, ReachedFacts
  <2> QED  BY <1>1, <1>4, <1>6, <1>7, <2>2 DEF E1
<1>8. ASSUME E1(T, pt, va).present, E2(T, pt, va).present
      PROVE  E2(T2, pt, va) = E2(T, pt, va) /\ E2(T, pt, va).addr \in DOMAIN T
             /\ lev[E2(T, pt, va).addr] = 3
  <2>1. Reached(T, pt, va, 3, E2(T, pt, va).addr)
    BY <1>8 DEF Reached
  <2>2. E2(T, pt, va).addr \in DOMAIN T /\ lev[E2(T, pt, va).addr] = 3
    BY <2>1, ReachedFacts
  <2> QED  BY <1>1, <1>4, <1>7, <1>8, <2>2 DEF E2
<1>9. ASSUME HasLeaf(T, pt, va)
      PROVE  E3(T2, pt, va) = E3(T, pt, va) /\ E3(T, pt, va).addr \in DOMAIN T
             /\ lev[E3(T, pt, va).addr] = 4
  <2>1. Reached(T, pt, va, 4, E3(T, pt, va).addr)
    BY <1>9 DEF Reached
  <2>2. E3(T, pt, va).addr \in DOMAIN T /\ lev[E3(T, pt, va).addr] = 4
    BY <2>1, ReachedFacts
  <2> QED  BY <1>1, <1>4, <1>8, <1>9, <2>2 DEF E3, HasLeaf
<1>a. ASSUME HasLeaf(T, pt, va)
      PROVE  HasLeaf(T2, pt, va) /\ E4(T2, pt, va) = E4(T, pt, va)
  <2>1. HasLeaf(T2, pt, va)
    BY <1>7, <1>8, <1>9, <1>a DEF HasLeaf
  <2>2. E3(T, pt, va).addr # c
    BY <1>9, <1>a
  <2>3. E4(T2, pt, va) = E4(T, pt, va)
    BY <1>1, <1>2, <1>9, <1>a, <2>2 DEF E4
  <2> QED  BY <2>1, <2>3
<1>b. ASSUME Whole(T2, pt, va) PROVE Whole(T, pt, va)
  <2>1. E1(T2, pt, va).present /\ E2(T2, pt, va).present /\ E3(T2, pt, va).present
        /\ E4(T2, pt, va).present
    BY <1>b DEF Whole, HasLeaf
  <2>2. E1(T, pt, va).present
    <3> SUFFICES ASSUME ~E1(T, pt, va).present PROVE FALSE
      OBVIOUS
    <3>1. pt = c /\ page_index(va, 1) = i
      BY <1>1, <1>2, <1>6, <2>1 DEF E1
    <3>2. E1(T2, pt, va).addr = f
      BY <1>3, <3>1 DEF E1
    <3> QED  BY <1>1, <1>5, <2>1, <3>2 DEF E2
  <2>3. E2(T, pt, va).present
    <3> SUFFICES ASSUME ~E2(T, pt, va).present PROVE FALSE
      OBVIOUS
    <3>1. E1(T, pt, va).addr = c /\ page_index(va, 2) = i
      BY <1>1, <1>2, <1>7, <2>1, <2>2 DEF E2
    <3>2. E2(T2, pt, va).addr = f
      BY <1>3, <1>7, <2>2, <3>1 DEF E2
    <3> QED  BY <1>1, <1>5, <2>1, <3>2 DEF E3
  <2>4. E3(T, pt, va).present
    <3> SUFFICES ASSUME ~E3(T, pt, va).present PROVE FALSE
      OBVIOUS
    <3>1. E2(T, pt, va).addr = c /\ page_index(va, 3) = i
      BY <1>1, <1>2, <1>8, <2>1, <2>2, <2>3 DEF E3
    <3>2. E3(T2, pt, va).addr = f
      BY <1>3, <1>8, <2>2, <2>3, <3>1 DEF E3
    <3> QED  BY <1>1, <1>5, <2>1, <3>2 DEF E4
  <2> QED  BY <1>a, <2>1, <2>2, <2>3, <2>4 DEF Whole, HasLeaf
<1>c. Whole(T, pt, va) => Whole(T2, pt, va)
  BY <1>a DEF Whole
<1>d. ASSUME NEW l \in 1 .. 3, Reached(T, pt, va, l, c), i = page_index(va, l)
      PROVE  Reached(T2, pt, va, l + 1, f)
  <2>1. CASE l = 1
    <3>1. c = pt
      BY <1>d, <2>1 DEF Reached
    <3>2. E1(T2, pt, va).present /\ E1(T2, pt, va).addr = f
      BY <1>3, <1>d, <2>1, <3>1 DEF E1
    <3> QED  BY <2>1, <3>2 DEF Reached
  <2>2. CASE l = 2
    <3>1. E1(T, pt, va).present /\ c = E1(T, pt, va).addr
      BY <1>d, <2>2 DEF Reached
    <3>2. E2(T2, pt, va).present /\ E2(T2, pt, va).addr = f
      BY <1>3, <1>7, <1>d, <2>2, <3>1 DEF E2
    <3> QED  BY <1>7, <2>2, <3>1, <3>2 DEF Reached
  <2>3. CASE l = 3
    <3>1. E1(T, pt, va).present /\ E2(T, pt, va).present /\ c = E2(T, pt, va).addr
      BY <1>d, <2>3 DEF Reached
    <3>2. E3(T2, pt, va).present /\ E3(T2, pt, va).addr = f
      BY <1>3, <1>8, <1>d, <2>3, <3>1 DEF E3
    <3> QED  BY <1>7, <1>8, <2>3, <3>1, <3>2 DEF Reached, HasLeaf
  <2> QED  BY <2>1, <2>2, <2>3
<1> QED  BY <1>a, <1>b, <1>c, <1>d DEF SameWay

-----------------------------------------------------------------------------
(***************************************************************************)
(* A new top-level table f.                                                *)
(***************************************************************************)
Rooted(T, T2, f) ==
  /\ f \notin DOMAIN T /\ DOMAIN T2 = DOMAIN T \cup {f}
  /\ T2[f] = EmptyTable
  /\ \A t \in DOMAIN T : T2[t] = T[t]

LEMMA RootedShape ==
  ASSUME NEW T, NEW T2, NEW R, NEW k, NEW k2, NEW H, NEW lev, NEW own, NEW low,
         NEW f, Rooted(T, T2, f), R = {} \/ k2 = k,
         Shape(T, R, k, H, lev, own, low)
  PROVE  \E lev2, own2, low2 :
           /\ Shape(T2, R \cup {f}, k2, H, lev2, own2, low2)
           /\ MappedFrames(T2, lev2, low2) = MappedFrames(T, lev, low)
<1> DEFINE l2 == [t \in DOMAIN T2 |-> IF t = f THEN 1 ELSE lev[t]]
           o2 == [t \in DOMAIN T2 |-> IF t = f THEN f ELSE own[t]]
           w2 == [t \in DOMAIN T2 |-> IF t = f THEN TRUE ELSE low[t]]
<1>0. /\ GhostTypes(T, R, lev, own, low) /\ EdgesDown(T, R, lev, own, low)
      /\ OneParent(T, lev) /\ HasParent(T, lev) /\ UpperEmpty(T, R, k)
      /\ UserMaps(T, lev, low, H)
  BY DEF Shape
<1>1. \A t \in DOMAIN T : /\ l2[t] = lev[t] /\ o2[t] = own[t] /\ w2[t] = low[t]
                          /\ t # f /\ t \in DOMAIN T2 /\ T2[t] = T[t]
  BY DEF Rooted
<1>2. /\ f \in DOMAIN T2 /\ l2[f] = 1 /\ o2[f] = f /\ w2[f] = TRUE
      /\ \A j \in Indexes : ~T2[f][j].present
  BY DEF Rooted, EmptyTable, Empty
<1>3. \A t \in DOMAIN T2 : t \in DOMAIN T \/ t = f
  BY DEF Rooted
<1>5. GhostTypes(T2, R \cup {f}, l2, o2, w2)
  <2>1. \A t \in DOMAIN T2 : l2[t] \in 1 .. 4 /\ o2[t] \in R \cup {f} /\ w2[t] \in BOOLEAN
    <3> SUFFICES ASSUME NEW t \in DOMAIN T2
                 PROVE  l2[t] \in 1 .. 4 /\ o2[t] \in R \cup {f} /\ w2[t] \in BOOLEAN
      OBVIOUS
    <3> HIDE DEF l2, o2, w2
    <3>1. CASE t = f
      <4>1. l2[t] = 1 /\ o2[t] = f /\ w2[t] = TRUE
        BY <1>2, <3>1
      <4>2. w2[t] \in BOOLEAN
        BY ONLY <4>1, Zenon
      <4> QED  BY <4>1, <4>2
    <3>2. CASE t \in DOMAIN T
      BY <1>0, <1>1, <3>2 DEF GhostTypes
    <3> QED  BY <1>3, <3>1, <3>2
  <2>2. l2 \in [DOMAIN T2 -> 1 .. 4] /\ o2 \in [DOMAIN T2 -> R \cup {f}]
        /\ w2 \in [DOMAIN T2 -> BOOLEAN]
    BY <2>1
  <2> HIDE DEF l2, o2, w2
  <2>3. \A t \in R \cup {f} : t \in DOMAIN T2
    BY <1>0, <1>1, <1>2 DEF GhostTypes
  <2>4. \A t \in DOMAIN T2 : l2[t] = 1 <=> t \in R \cup {f}
    BY <1>0, <1>1, <1>2, <1>3 DEF GhostTypes
  <2>5. \A t \in R \cup {f} : o2[t] = t
    BY <1>0, <1>1, <1>2 DEF GhostTypes
  <2> QED  BY <2>2, <2>3, <2>4, <2>5 DEF GhostTypes
<1> HIDE DEF l2, o2, w2
<1>6. \A t \in DOMAIN T2, j \in Indexes : T2[t][j].present =>
        /\ t \in DOMAIN T /\ T[t][j] = T2[t][j]
        /\ l2[t] = lev[t] /\ w2[t] = low[t] /\ o2[t] = own[t]
  BY <1>1, <1>2, <1>3
<1>8. EdgesDown(T2, R \cup {f}, l2, o2, w2)
  <2> SUFFICES ASSUME NEW t \in DOMAIN T2, NEW j \in Indexes, l2[t] < 4, T2[t][j].present
               PROVE  /\ T2[t][j].addr \in DOMAIN T2
                      /\ l2[T2[t][j].addr] = l2[t] + 1
                      /\ o2[T2[t][j].addr] = o2[t]
                      /\ w2[T2[t][j].addr] = IF l2[t] = 1 THEN j < Half ELSE w2[t]
    BY DEF EdgesDown
  <2>1. t \in DOMAIN T /\ T[t][j] = T2[t][j] /\ lev[t] = l2[t]
    BY <1>6
  <2>2. /\ T[t][j].addr \in DOMAIN T /\ lev[T[t][j].addr] = lev[t] + 1
        /\ own[T[t][j].addr] = own[t]
        /\ low[T[t][j].addr] = IF lev[t] = 1 THEN j < Half ELSE low[t]
    BY <1>0, <2>1 DEF EdgesDown
  <2> QED  BY <1>1, <2>1, <2>2
<1>9. OneParent(T2, l2)
  BY <1>0, <1>6 DEF OneParent
<1>a. HasParent(T2, l2)
  <2> SUFFICES ASSUME NEW t \in DOMAIN T2, l2[t] # 1
               PROVE  \E u \in DOMAIN T2, j \in Indexes :
                        l2[u] < 4 /\ T2[u][j].present /\ T2[u][j].addr = t
    BY DEF HasParent
  <2>1. t \in DOMAIN T /\ lev[t] # 1
    BY <1>1, <1>2, <1>3
  <2>2. PICK u \in DOMAIN T, j \in Indexes : lev[u] < 4 /\ T[u][j].present /\ T[u][j].addr = t
    BY <1>0, <2>1 DEF HasParent
  <2> QED  BY <1>1, <2>2
<1>b. UpperEmpty(T2, R \cup {f}, k2)
  <2> SUFFICES ASSUME NEW t \in (R \cup {f}) \ {k2}, NEW j \in Indexes, j >= Half
               PROVE  ~T2[t][j].present
    BY DEF UpperEmpty
  <2>1. CASE t = f
    BY <1>2, <2>1
  <2>2. CASE t \in R \ {k}
    BY <1>0, <1>1, <2>2 DEF UpperEmpty, GhostTypes
  <2> QED  BY <2>1, <2>2
<1>d. UserMaps(T2, l2, w2, H)
  BY <1>0, <1>6 DEF UserMaps
<1>e. MappedFrames(T2, l2, w2) = MappedFrames(T, lev, low)
  BY <1>1, <1>6 DEF MappedFrames
<1>f. Shape(T2, R \cup {f}, k2, H, l2, o2, w2)
  BY <1>5, <1>8, <1>9, <1>a, <1>b, <1>d DEF Shape
<1> QED  BY <1>e, <1>f

\* Tables that are kept keep the ways along them.
Kept(T, T2, own, pt) == \A t \in DOMAIN T : own[t] = pt => T2[t] = T[t]

LEMMA KeptWay ==
  ASSUME NEW T, NEW T2, NEW R, NEW lev, NEW own, NEW low,
         GhostTypes(T, R, lev, own, low), EdgesDown(T, R, lev, own, low),
         NEW pt \in R, NEW va \in Nat, Kept(T, T2, own, pt)
  PROVE  SameWay(T, T2, pt, va)
<1>1. \A t \in DOMAIN T : own[t] = pt => T2[t] = T[t]
  BY DEF Kept
<1>2. pt \in DOMAIN T /\ own[pt] = pt
  BY DEF GhostTypes
<1>3. E1(T2, pt, va) = E1(T, pt, va)
  BY <1>1, <1>2 DEF E1
<1>4. ASSUME E1(T, pt, va).present PROVE E2(T2, pt, va) = E2(T, pt, va)
  <2>1. Reached(T, pt, va, 2, E1(T, pt, va).addr)
    BY <1>4 DEF Reached
  <2>2. E1(T, pt, va).addr \in DOMAIN T /\ own[E1(T, pt, va).addr] = pt
    BY <2>1, ReachedFacts
  <2> QED  BY <1>1, <1>3, <2>2 DEF E2
<1>5. ASSUME E1(T, pt, va).present, E2(T, pt, va).present
      PROVE  E3(T2, pt, va) = E3(T, pt, va)
  <2>1. Reached(T, pt, va, 3, E2(T, pt, va).addr)
    BY <1>5 DEF Reached
  <2>2. E2(T, pt, va).addr \in DOMAIN T /\ own[E2(T, pt, va).addr] = pt
    BY <2>1, ReachedFacts
  <2> QED  BY <1>1, <1>4, <1>5, <2>2 DEF E3
<1>6. ASSUME HasLeaf(T, pt, va) PROVE E4(T2, pt, va) = E4(T, pt, va)
  <2>1. Reached(T, pt, va, 4, E3(T, pt, va).addr)
    BY <1>6 DEF Reached
  <2>2. E3(T, pt, va).addr \in DOMAIN T /\ own[E3(T, pt, va).addr] = pt
    BY <2>1, ReachedFacts
  <2> QED  BY <1>1, <1>5, <1>6, <2>2 DEF E4, HasLeaf
<1> QED  BY <1>3, <1>4, <1>5, <1>6 DEF SameWay, Whole, HasLeaf

-----------------------------------------------------------------------------
(***************************************************************************)
(* The tables below one root p are gone, and the frames F that they        *)
(* mapped.                                                                 *)
(***************************************************************************)
Destroyed(T, T2, own, p) ==
  /\ DOMAIN T2 = {t \in DOMAIN T : own[t] # p}
  /\ \A t \in DOMAIN T2 : T2[t] = T[t]

FramesBelow(T, lev, own, low, p, F) ==
  \A x \in F : \E t \in DOMAIN T, i \in Indexes :
     own[t] = p /\ lev[t] = 4 /\ low[t] /\ T[t][i].present /\ T[t][i].addr = x

Remaining(H, H2, T, T2, F) ==
  H \cap DOMAIN T = {} /\ H2 = H \ (F \cup (DOMAIN T \ DOMAIN T2))

LEMMA DestroyedShape ==
  ASSUME NEW T, NEW T2, NEW R, NEW k, NEW H, NEW H2, NEW lev, NEW own, NEW low,
         NEW p \in R, NEW F, Destroyed(T, T2, own, p), FramesBelow(T, lev, own, low, p, F),
         Remaining(H, H2, T, T2, F),
         Shape(T, R, k, H, lev, own, low)
  PROVE  \E lev2, own2, low2 : Shape(T2, R \ {p}, k, H2, lev2, own2, low2)
<1> DEFINE l2 == [t \in DOMAIN T2 |-> lev[t]]
           o2 == [t \in DOMAIN T2 |-> own[t]]
           w2 == [t \in DOMAIN T2 |-> low[t]]
<1>0. /\ GhostTypes(T, R, lev, own, low) /\ EdgesDown(T, R, lev, own, low)
      /\ OneParent(T, lev) /\ HasParent(T, lev) /\ UpperEmpty(T, R, k)
      /\ UserMaps(T, lev, low, H)
  BY DEF Shape
<1>1. \A t \in DOMAIN T2 : /\ l2[t] = lev[t] /\ o2[t] = own[t] /\ w2[t] = low[t]
                           /\ t \in DOMAIN T /\ T2[t] = T[t] /\ own[t] # p
  BY DEF Destroyed
<1>2. \A t \in DOMAIN T : own[t] # p => t \in DOMAIN T2
  BY DEF Destroyed
<1>3. GhostTypes(T2, R \ {p}, l2, o2, w2)
  <2>1. \A t \in DOMAIN T2 : lev[t] \in 1 .. 4 /\ own[t] \in R \ {p} /\ low[t] \in BOOLEAN
    BY <1>0, <1>1 DEF GhostTypes
  <2>2. l2 \in [DOMAIN T2 -> 1 .. 4] /\ o2 \in [DOMAIN T2 -> R \ {p}]
        /\ w2 \in [DOMAIN T2 -> BOOLEAN]
    BY <2>1
  <2> HIDE DEF l2, o2, w2
  <2>3. \A t \in R \ {p} : t \in DOMAIN T2
    BY <1>0, <1>2 DEF GhostTypes
  <2>4. \A t \in DOMAIN T2 : l2[t] = 1 <=> t \in R \ {p}
    BY <1>0, <1>1 DEF GhostTypes
  <2>5. \A t \in R \ {p} : o2[t] = t
    BY <1>0, <1>1, <2>3 DEF GhostTypes
  <2> QED  BY <2>2, <2>3, <2>4, <2>5 DEF GhostTypes
<1> HIDE DEF l2, o2, w2
<1>4. EdgesDown(T2, R \ {p}, l2, o2, w2)
  <2> SUFFICES ASSUME NEW t \in DOMAIN T2, NEW j \in Indexes, l2[t] < 4, T2[t][j].present
               PROVE  /\ T2[t][j].addr \in DOMAIN T2
                      /\ l2[T2[t][j].addr] = l2[t] + 1
                      /\ o2[T2[t][j].addr] = o2[t]
                      /\ w2[T2[t][j].addr] = IF l2[t] = 1 THEN j < Half ELSE w2[t]
    BY DEF EdgesDown
  <2>1. t \in DOMAIN T /\ T[t][j] = T2[t][j] /\ lev[t] = l2[t] /\ own[t] # p
    BY <1>1
  <2>2. /\ T[t][j].addr \in DOMAIN T /\ lev[T[t][j].addr] = lev[t] + 1
        /\ own[T[t][j].addr] = own[t]
        /\ low[T[t][j].addr] = IF lev[t] = 1 THEN j < Half ELSE low[t]
    BY <1>0, <2>1 DEF EdgesDown
  <2>3. T[t][j].addr \in DOMAIN T2
    BY <1>2, <2>1, <2>2
  <2> QED  BY <1>1, <2>1, <2>2, <2>3
<1>5. OneParent(T2, l2)
  BY <1>0, <1>1 DEF OneParent
<1>6. HasParent(T2, l2)
  <2> SUFFICES ASSUME NEW t \in DOMAIN T2, l2[t] # 1
               PROVE  \E u \in DOMAIN T2, j \in Indexes :
                        l2[u] < 4 /\ T2[u][j].present /\ T2[u][j].addr = t
    BY DEF HasParent
  <2>1. t \in DOMAIN T /\ lev[t] # 1 /\ own[t] # p
    BY <1>1
  <2>2. PICK u \in DOMAIN T, j \in Indexes : lev[u] < 4 /\ T[u][j].present /\ T[u][j].addr = t
    BY <1>0, <2>1 DEF HasParent
  <2>3. own[u] = own[t]
    BY <1>0, <2>2 DEF EdgesDown
  <2>4. u \in DOMAIN T2
    BY <1>2, <2>1, <2>2, <2>3
  <2> QED  BY <1>1, <2>2, <2>4
<1>7. UpperEmpty(T2, R \ {p}, k)
  BY <1>0, <1>1, <1>3 DEF UpperEmpty, GhostTypes
<1>8. UserMaps(T2, l2, w2, H2)
  <2>1. ASSUME NEW t \in DOMAIN T2, NEW i \in Indexes, l2[t] = 4, w2[t], T2[t][i].present
        PROVE  T2[t][i].addr \in H2
    <3>1. t \in DOMAIN T /\ lev[t] = 4 /\ low[t] /\ T[t][i].present /\ T2[t][i] = T[t][i]
          /\ own[t] # p
      BY <1>1, <2>1
    <3>2. T[t][i].addr \in H
      BY <1>0, <3>1 DEF UserMaps
    <3>3. T[t][i].addr \notin DOMAIN T
      BY <3>2 DEF Remaining
    <3>4. T[t][i].addr \notin F
      <4> SUFFICES ASSUME T[t][i].addr \in F PROVE FALSE
        OBVIOUS
      <4>1. PICK u \in DOMAIN T, j \in Indexes :
              own[u] = p /\ lev[u] = 4 /\ low[u] /\ T[u][j].present
              /\ T[u][j].addr = T[t][i].addr
        BY DEF FramesBelow
      <4>2. t = u
        BY <1>0, <3>1, <4>1 DEF UserMaps
      <4> QED  BY <3>1, <4>1, <4>2
    <3> QED  BY <3>1, <3>2, <3>3, <3>4 DEF Remaining
  <2>2. ASSUME NEW t \in DOMAIN T2, NEW u \in DOMAIN T2, NEW i \in Indexes, NEW j \in Indexes,
               l2[t] = 4, w2[t], l2[u] = 4, w2[u],
               T2[t][i].present, T2[u][j].present, T2[t][i].addr = T2[u][j].addr
        PROVE  t = u /\ i = j
    <3>1. /\ t \in DOMAIN T /\ u \in DOMAIN T /\ lev[t] = 4 /\ low[t] /\ lev[u] = 4 /\ low[u]
          /\ T2[t] = T[t] /\ T2[u] = T[u]
      BY <1>1, <2>2
    <3> QED  BY <1>0, <2>2, <3>1 DEF UserMaps
  <2> QED  BY <2>1, <2>2 DEF UserMaps
<1>9. Shape(T2, R \ {p}, k, H2, l2, o2, w2)
  BY <1>3, <1>4, <1>5, <1>6, <1>7, <1>8 DEF Shape
<1> QED  BY <1>9
-----------------------------------------------------------------------------
(***************************************************************************)
(* The frames that callers have mapped, when an entry of the last level    *)
(* changes: the new entry maps nothing, what it mapped before, or a frame  *)
(* that was not mapped, or it is in the upper half.                        *)
(***************************************************************************)
LEMMA ChangedUser ==
  ASSUME NEW T, NEW T2, NEW H, NEW lev, NEW low, NEW c \in DOMAIN T,
         NEW i \in Indexes, Changed(T, T2, c, i), lev[c] = 4, UserMaps(T, lev, low, H),
         TablesTyped(T),
         \/ ~low[c]
         \/ ~T2[c][i].present
         \/ T[c][i].present /\ T2[c][i].addr = T[c][i].addr
         \/ T2[c][i].addr \in H \ MappedFrames(T, lev, low)
  PROVE  /\ UserMaps(T2, lev, low, H)
         /\ MappedFrames(T2, lev, low) \subseteq
              MappedFrames(T, lev, low) \cup
                (IF low[c] /\ T2[c][i].present THEN {T2[c][i].addr} ELSE {})
<1>1. DOMAIN T2 = DOMAIN T
  BY DEF Changed
<1>2. \A t \in DOMAIN T, j \in Indexes : t # c \/ j # i => T2[t][j] = T[t][j]
  BY DEF Changed
<1>3. \A t \in DOMAIN T, j \in Indexes :
        lev[t] = 4 /\ low[t] /\ T[t][j].present =>
          T[t][j].addr \in H /\ T[t][j].addr \in MappedFrames(T, lev, low)
  BY DEF UserMaps, MappedFrames, TablesTyped, EntryType
<1>4. ASSUME NEW t \in DOMAIN T, NEW j \in Indexes, lev[t] = 4, low[t], T2[t][j].present
      PROVE  T2[t][j].addr \in H
  BY <1>2, <1>3, <1>4
<1>5. ASSUME NEW t \in DOMAIN T, NEW j \in Indexes, lev[t] = 4, low[t], T2[t][j].present,
             low[c], T2[c][i].present, T2[t][j].addr = T2[c][i].addr
      PROVE  t = c /\ j = i
  <2> SUFFICES ASSUME t # c \/ j # i PROVE FALSE
    OBVIOUS
  <2>1. T2[t][j] = T[t][j]
    BY <1>2
  <2>2. T[t][j].addr \in MappedFrames(T, lev, low)
    BY <1>3, <1>5, <2>1
  <2>3. T[c][i].present /\ T2[c][i].addr = T[c][i].addr
    BY <1>5, <2>1, <2>2
  <2> QED  BY <1>5, <2>1, <2>3 DEF UserMaps
<1>6. UserMaps(T2, lev, low, H)
  <2>1. ASSUME NEW t \in DOMAIN T, NEW u \in DOMAIN T, NEW j \in Indexes, NEW m \in Indexes,
               lev[t] = 4, low[t], lev[u] = 4, low[u],
               T2[t][j].present, T2[u][m].present, T2[t][j].addr = T2[u][m].addr
        PROVE  t = u /\ j = m
    <3>1. CASE t = c /\ j = i
      <4>1. u = c /\ m = i
        BY <1>5, <2>1, <3>1
      <4> QED  BY <3>1, <4>1
    <3>2. CASE u = c /\ m = i
      <4>1. t = c /\ j = i
        BY <1>5, <2>1, <3>2
      <4> QED  BY <3>2, <4>1
    <3>3. CASE ~(t = c /\ j = i) /\ ~(u = c /\ m = i)
      <4>1. T2[t][j] = T[t][j] /\ T2[u][m] = T[u][m]
        BY <1>2, <3>3
      <4> QED  BY <2>1, <4>1 DEF UserMaps
    <3> QED  BY <3>1, <3>2, <3>3
  <2> QED  BY <1>1, <1>4, <2>1 DEF UserMaps
<1>7. ASSUME NEW x \in MappedFrames(T2, lev, low)
      PROVE  \/ x \in MappedFrames(T, lev, low)
             \/ low[c] /\ T2[c][i].present /\ x = T2[c][i].addr
  <2>1. PICK t \in DOMAIN T, j \in Indexes :
          lev[t] = 4 /\ low[t] /\ T2[t][j].present /\ x = T2[t][j].addr
    BY <1>1 DEF MappedFrames
  <2>2. CASE t = c /\ j = i
    BY <2>1, <2>2
  <2>3. CASE ~(t = c /\ j = i)
    <3>1. T2[t][j] = T[t][j]
      BY <1>2, <2>3
    <3> QED  BY <1>3, <2>1, <3>1
  <2> QED  BY <2>2, <2>3
<1>8. MappedFrames(T2, lev, low) \subseteq
        MappedFrames(T, lev, low) \cup
          (IF low[c] /\ T2[c][i].present THEN {T2[c][i].addr} ELSE {})
  BY <1>7
<1> QED  BY <1>6, <1>8

-----------------------------------------------------------------------------
(***************************************************************************)
(* The page allocator, and the ranges of vmm_init.                         *)
(***************************************************************************)
LEMMA AllocOne ==
  ASSUME NEW f \in Nat, PMM!Alloc(f, 1)
  PROVE  /\ phase = "run" /\ phase' = phase /\ usable' = usable /\ f \in avail
         /\ avail' = avail \ {f} /\ owned' = owned \cup {f}
<1>1. PMM!Run(f, 1) = {f}
  BY DEF PMM!Run
<1> QED  BY <1>1 DEF PMM!Alloc

LEMMA FreeOne ==
  ASSUME NEW f \in Nat, PMM!Free(f, 1)
  PROVE  /\ phase = "run" /\ phase' = phase /\ usable' = usable /\ f \in owned
         /\ avail' = avail \cup {f} /\ owned' = owned \ {f}
<1>1. PMM!Run(f, 1) = {f}
  BY DEF PMM!Run
<1> QED  BY <1>1 DEF PMM!Free

RangeType == [pa : Nat, va : Nat, size : Nat]

LEMMA ElementOf ==
  ASSUME NEW S, NEW s \in Seq(S), NEW k \in DOMAIN s
  PROVE  s[k] \in S
OBVIOUS

LEMMA InitRangesType == InitRanges \in Seq(RangeType)
<1>1. \A k \in DOMAIN MemMap : MemMap[k] \in [base : Nat, length : Nat]
  <2>1. MemMap \in Seq([base : Nat, length : Nat])
    BY PageTablesAssumption
  <2> DEFINE E == [base : Nat, length : Nat]
  <2> HIDE DEF E
  <2> QED  BY <2>1, ElementOf DEF E
<1>2. PAGE_SIZE \in Nat /\ HHDM \in Nat /\ Kernel \in RangeType
  BY PageTablesAssumption DEF RangeType
<1> DEFINE r(k) == LET e == Shifted(MemMap[k])
                   IN  [pa |-> e.base, va |-> e.base + HHDM, size |-> e.length]
           s == [k \in DOMAIN MemMap |-> r(k)]
<1>3. \A k \in DOMAIN MemMap : r(k) \in RangeType
  <2> TAKE k \in DOMAIN MemMap
  <2>1. Shifted(MemMap[k]).base \in Nat /\ Shifted(MemMap[k]).length \in Nat
    BY <1>1, <1>2 DEF Shifted
  <2> QED  BY <1>2, <2>1 DEF RangeType
<1>4. s \in Seq(RangeType)
  <2>1. DOMAIN MemMap = 1 .. Len(MemMap) /\ Len(MemMap) \in Nat
    BY PageTablesAssumption
  <2> HIDE DEF r
  <2> QED  BY <1>3, <2>1
<1>5. InitRanges = s \o << Kernel >>
  BY DEF InitRanges
<1> HIDE DEF s
<1> QED  BY <1>2, <1>4, <1>5

-----------------------------------------------------------------------------
(***************************************************************************)
(* A walk.                                                                 *)
(***************************************************************************)
LEMMA WalkFacts ==
  ASSUME IndInv, pc = "walk", NEW lev, NEW own, NEW low,
         GhostTypes(tables, roots, lev, own, low), EdgesDown(tables, roots, lev, own, low)
  PROVE  /\ call \in CallType /\ call.pt \in roots /\ call.va + call.i \in Nat
         /\ level \in 1 .. 4 /\ Index = page_index(call.va + call.i, level)
         /\ Reached(tables, call.pt, call.va + call.i, level, cur)
         /\ cur \in DOMAIN tables /\ lev[cur] = level /\ own[cur] = call.pt
         /\ Index \in Indexes /\ tables[cur][Index] \in EntryType
         /\ level > 1 => low[cur] = (page_index(call.va + call.i, 1) < Half)
         /\ cr3 = NONE <=> page_index(call.va + call.i, 1) >= Half
         /\ cr3 = NONE => call.pt = kernelPT
<1>1. /\ call \in CallType /\ call.pt \in roots /\ level \in 1 .. 4
      /\ Reached(tables, call.pt, call.va + call.i, level, cur)
  BY DEF IndInv, CallInv, TypeOK
<1>2. call.va + call.i \in Nat
  BY <1>1 DEF CallType
<1>3. Index = page_index(call.va + call.i, level) /\ Index \in Indexes
  BY <1>1, <1>2, IndexType DEF Index
<1>4. /\ cur \in DOMAIN tables /\ lev[cur] = level /\ own[cur] = call.pt
      /\ level > 1 => low[cur] = (page_index(call.va + call.i, 1) < Half)
  BY <1>1, <1>2, ReachedFacts
<1>5. tables[cur][Index] \in EntryType
  BY <1>3, <1>4 DEF IndInv, TypeOK
<1>6. cr3 = NONE => call.pt = kernelPT /\ page_index(call.va + call.i, 1) >= Half
  <2> SUFFICES ASSUME cr3 = NONE
               PROVE  call.pt = kernelPT /\ page_index(call.va + call.i, 1) >= Half
    OBVIOUS
  <2>1. InitCall
    BY DEF IndInv, CallInv
  <2>2. call.i \in call.i .. (call.size - 1)
    BY <1>1, <2>1 DEF InitCall, CallType
  <2> QED  BY <2>1, <2>2 DEF InitCall
<1>7. cr3 # NONE => page_index(call.va + call.i, 1) < Half
  <2> SUFFICES ASSUME cr3 # NONE PROVE page_index(call.va + call.i, 1) < Half
    OBVIOUS
  <2>1. IsLower(call.va + call.i)
    BY DEF IndInv, CallInv, UserCall
  <2> QED  BY <1>2, <2>1, LowerIndex
<1>8. page_index(call.va + call.i, 1) \in Int /\ Half \in Int
  <2>1. 1 \in 1 .. 4
    OBVIOUS
  <2> QED  BY <1>2, <2>1, IndexType, HalfType, PageTablesAssumption DEF Indexes
<1>9. cr3 = NONE <=> page_index(call.va + call.i, 1) >= Half
  BY <1>6, <1>7, <1>8
<1> QED  BY <1>1, <1>2, <1>3, <1>4, <1>5, <1>6, <1>9

\* The type invariant in terms of the tables.
LEMMA TypedTables == TypeOK => TablesTyped(tables)
BY DEF TypeOK, TablesTyped

LEMMA TypedTablesNext ==
  TypeOK' <=> /\ TablesTyped(tables') /\ DOMAIN tables' \subseteq Nat
              /\ phase' \in {"run", "halt"} /\ avail' \subseteq Nat /\ owned' \subseteq usable'
              /\ roots' \subseteq DOMAIN tables' /\ {kernelPT', cr3'} \subseteq roots' \cup {NONE}
              /\ held' \subseteq Nat
              /\ pc' \in {"boot", "init", "idle", "walk", "invlpg"}
              /\ call'.op \in {"none", "map", "map_flags", "flags", "unmap"}
              /\ level' \in 1 .. 4 /\ cur' \in DOMAIN tables' \cup {NONE}
BY DEF TypeOK, TablesTyped

-----------------------------------------------------------------------------
(***************************************************************************)
(* The invariant is preserved: steps that leave the tables alone.          *)
(***************************************************************************)
LEMMA KeepsTree ==
  ASSUME TreeInv, UNCHANGED <<tables, roots, kernelPT, held>>
  PROVE  TreeInv' /\ UserFrames' = UserFrames
<1>1. TreeInv'
  BY DEF TreeInv
<1>2. UserFrames' = UserFrames
  BY SetsAre, UserFramesNext
<1> QED  BY <1>1, <1>2

LEMMA ReachedOn ==
  ASSUME NEW T, NEW pt, NEW va, NEW l \in 1 .. 3, NEW c, Reached(T, pt, va, l, c),
         T[c][page_index(va, l)].present
  PROVE  Reached(T, pt, va, l + 1, T[c][page_index(va, l)].addr)
<1>1. CASE l = 1
  BY <1>1 DEF Reached, E1
<1>2. CASE l = 2
  BY <1>2 DEF Reached, E1, E2
<1>3. CASE l = 3
  <2>1. E1(T, pt, va).present /\ E2(T, pt, va).present /\ c = E2(T, pt, va).addr
    BY <1>3 DEF Reached
  <2>2. E3(T, pt, va) = T[c][page_index(va, l)]
    BY <1>3, <2>1 DEF E3
  <2> QED  BY <1>3, <2>1, <2>2 DEF Reached, HasLeaf
<1> QED  BY <1>1, <1>2, <1>3

LEMMA DescendStep ==
  ASSUME IndInv, Descend
  PROVE  IndInv'
<1> USE DEF Descend, pageVars, cpuVars
<1>1. PICK lev, own, low : Shape(tables, roots, kernelPT, held, lev, own, low)
  BY DEF IndInv, TreeInv
<1>2. GhostTypes(tables, roots, lev, own, low) /\ EdgesDown(tables, roots, lev, own, low)
  BY <1>1 DEF Shape
<1>3. /\ call \in CallType /\ call.pt \in roots /\ call.va + call.i \in Nat
      /\ level \in 1 .. 3 /\ Index = page_index(call.va + call.i, level)
      /\ Reached(tables, call.pt, call.va + call.i, level, cur)
      /\ cur \in DOMAIN tables /\ lev[cur] = level /\ Index \in Indexes
  BY <1>2, WalkFacts
<1>4. Reached(tables, call.pt, call.va + call.i, level', cur')
  BY <1>3, ReachedOn
<1>5. cur' \in DOMAIN tables
  BY <1>2, <1>3 DEF EdgesDown
<1>6. TypeOK'
  BY <1>3, <1>5 DEF IndInv, TypeOK
<1>7. PagesInv' /\ StageInv' /\ TLBInv'
  <2>1. PagesInv'
    BY DEF IndInv, PagesInv
  <2>2. StageInv'
    BY DEF IndInv, StageInv
  <2>3. TLBInv'
    BY DEF IndInv, TLBInv
  <2> QED  BY <2>1, <2>2, <2>3
<1>8. TreeInv' /\ UserFrames' = UserFrames
  BY KeepsTree DEF IndInv
<1>9. CallInv'
  BY <1>4, <1>8 DEF IndInv, CallInv, InitCall, UserCall, UserRange
<1> QED  BY <1>6, <1>7, <1>8, <1>9 DEF IndInv

LEMMA PanicStep ==
  ASSUME IndInv, OutOfMemory
  PROVE  IndInv'
<1> USE DEF OutOfMemory, PMM!AllocPanic, cpuVars
<1>1. TypeOK' /\ PagesInv'
  BY DEF IndInv, TypeOK, PagesInv
<1>2. TreeInv' /\ UserFrames' = UserFrames
  BY KeepsTree DEF IndInv
<1>3. StageInv'
  BY DEF IndInv, StageInv
<1>4. TLBInv'
  BY DEF IndInv, TLBInv
<1>5. CallInv'
  BY <1>2 DEF IndInv, CallInv, InitCall, UserCall, UserRange
<1> QED  BY <1>1, <1>2, <1>3, <1>4, <1>5 DEF IndInv

LEMMA SwitchStep ==
  ASSUME IndInv, NEW pt \in roots, arch_vmm_switch(pt)
  PROVE  IndInv'
<1> USE DEF arch_vmm_switch, pageVars
<1>1. TypeOK' /\ PagesInv'
  BY DEF IndInv, TypeOK, PagesInv
<1>2. TreeInv'
  BY KeepsTree DEF IndInv
<1>3. pt # NONE
  BY PageTablesAssumption DEF IndInv, TypeOK, PagesInv, NONE
<1>4. StageInv'
  BY <1>3 DEF IndInv, StageInv
<1>5. TLBInv'
  BY DEF TLBInv
<1>6. CallInv'
  BY DEF IndInv, CallInv
<1> QED  BY <1>1, <1>2, <1>4, <1>5, <1>6 DEF IndInv

LEMMA InitSwitchStep ==
  ASSUME IndInv, vmm_init_switch
  PROVE  IndInv'
<1> USE DEF vmm_init_switch, pageVars
<1>0. kernelPT \in roots /\ kernelPT # NONE
  BY PageTablesAssumption DEF IndInv, TypeOK, PagesInv, StageInv, NONE
<1>1. TypeOK' /\ PagesInv'
  BY <1>0 DEF IndInv, TypeOK, PagesInv
<1>2. TreeInv'
  BY KeepsTree DEF IndInv
<1>4. StageInv'
  BY <1>0 DEF IndInv, StageInv
<1>5. TLBInv'
  BY DEF TLBInv
<1>6. CallInv'
  BY DEF IndInv, CallInv
<1> QED  BY <1>1, <1>2, <1>4, <1>5, <1>6 DEF IndInv

LEMMA InvlpgStep ==
  ASSUME IndInv, Invlpg
  PROVE  IndInv'
<1> USE DEF Invlpg, Idle, pageVars
<1>0. cr3 # NONE /\ pc' = "idle"
  BY DEF IndInv, StageInv
<1>1. TypeOK' /\ PagesInv'
  BY <1>0 DEF IndInv, TypeOK, PagesInv, NoCall
<1>2. TreeInv'
  BY KeepsTree DEF IndInv
<1>4. StageInv'
  BY <1>0 DEF IndInv, StageInv
<1>5. TLBInv'
  BY <1>0 DEF IndInv, TLBInv
<1>6. CallInv'
  <2>1. NoCall \in CallType
    BY DEF NoCall, CallType, NONE
  <2> QED  BY <1>0, <2>1 DEF CallInv
<1> QED  BY <1>1, <1>2, <1>4, <1>5, <1>6 DEF IndInv

LEMMA FillStep ==
  ASSUME IndInv, NEW va \in VirtAddrs, TLBFill(va)
  PROVE  IndInv'
<1> USE DEF TLBFill, pageVars
<1>1. TypeOK' /\ PagesInv'
  BY DEF IndInv, TypeOK, PagesInv
<1>2. TreeInv' /\ UserFrames' = UserFrames
  BY KeepsTree DEF IndInv
<1>4. StageInv'
  BY DEF IndInv, StageInv
<1>5. TLBInv'
  <2> DEFINE e == Lookup(cr3, va)
             n == [page |-> PageOf(va), frame |-> e.addr, rights |-> e.rights]
  <2>1. Whole(tables, cr3, va) /\ e = E4(tables, cr3, va)
    BY LookupPresent, LookupIs
  <2>2. ASSUME NEW vb \in VirtAddrs, PageOf(va) = PageOf(vb)
        PROVE  Whole(tables, cr3, vb) /\ E4(tables, cr3, vb) = E4(tables, cr3, va)
    <3>1. \A l \in 1 .. 4 : page_index(va, l) = page_index(vb, l)
      BY <2>2, SamePageIndexes DEF SameIndexes
    <3>2. /\ page_index(va, 1) = page_index(vb, 1) /\ page_index(va, 2) = page_index(vb, 2)
          /\ page_index(va, 3) = page_index(vb, 3) /\ page_index(va, 4) = page_index(vb, 4)
      BY <3>1
    <3> QED  BY <2>1, <3>2 DEF Whole, HasLeaf, E1, E2, E3, E4
  <2>3. tlb' = tlb \cup {n}
    OBVIOUS
  <2>4. n.page = PageOf(va) /\ n.frame = E4(tables, cr3, va).addr
    BY <2>1
  <2> HIDE DEF n, e
  <2>5. ASSUME NEW t \in tlb'
        PROVE  /\ \E vb \in VirtAddrs : t.page = PageOf(vb)
               /\ \A vb \in VirtAddrs : t.page = PageOf(vb) =>
                    \/ Whole(tables, cr3, vb) /\ E4(tables, cr3, vb).addr = t.frame
                    \/ pc = "invlpg" /\ PageOf(call.va) = t.page /\ t.frame \in owned
    <3>1. CASE t \in tlb
      BY <3>1 DEF IndInv, TLBInv
    <3>2. CASE t = n
      BY <2>2, <2>4, <3>2
    <3> QED  BY <2>3, <2>5, <3>1, <3>2
  <2> QED  BY <2>5 DEF TLBInv
<1>6. CallInv'
  BY <1>2 DEF IndInv, CallInv, InitCall, UserCall, UserRange
<1> QED  BY <1>1, <1>2, <1>4, <1>5, <1>6 DEF IndInv

\* The calls.
LEMMA InitRangeStep ==
  ASSUME IndInv, Halves, vmm_init_range
  PROVE  IndInv'
<1> USE DEF vmm_init_range, pageVars, cpuVars
<1> DEFINE r == Head(todo)
<1>1. r \in RangeType /\ \E k \in DOMAIN InitRanges : r = InitRanges[k]
  <2>1. todo \in Seq(RangeType) /\ todo # << >>
    BY DEF IndInv, StageInv, RangeType
  <2>2. 1 \in DOMAIN todo /\ r = todo[1]
    BY <2>1
  <2> QED  BY <2>1, <2>2, ElementOf DEF IndInv, StageInv
<1>2. /\ todo' \in Seq(RangeType)
      /\ \A n \in DOMAIN todo' : \E k \in DOMAIN InitRanges : todo'[n] = InitRanges[k]
  <2>1. todo \in Seq(RangeType) /\ todo # << >>
    BY DEF IndInv, StageInv, RangeType
  <2>2. todo' = Tail(todo)
    OBVIOUS
  <2>3. todo' \in Seq(RangeType)
    BY <2>1, <2>2
  <2>4. \A n \in DOMAIN todo' : n + 1 \in DOMAIN todo /\ todo'[n] = todo[n + 1]
    BY <2>1, <2>2
  <2> QED  BY <2>3, <2>4 DEF IndInv, StageInv
<1>3. kernelPT \in roots /\ cr3 = NONE /\ tlb = {}
  BY DEF IndInv, StageInv
<1>4. TreeInv' /\ UserFrames' = UserFrames
  BY KeepsTree DEF IndInv
<1>5. PagesInv'
  BY DEF IndInv, PagesInv
<1>6. TLBInv'
  BY <1>3 DEF TLBInv
<1>7. StageInv'
  BY <1>2, <1>3 DEF IndInv, StageInv, StartWalk, RangeType
<1>8. CASE r.size = 0
  <2>1. UNCHANGED <<pc, call, level, cur>>
    BY <1>8
  <2>2. TypeOK'
    BY <2>1 DEF IndInv, TypeOK
  <2>3. CallInv'
    BY <2>1 DEF IndInv, CallInv
  <2> QED  BY <1>4, <1>5, <1>6, <1>7, <2>2, <2>3 DEF IndInv
<1>9. CASE r.size # 0
  <2> DEFINE c == [op |-> "map", pt |-> kernelPT, va |-> r.va, pa |-> r.pa,
                   size |-> r.size, i |-> 0, flags |-> {"PRESENT", "RW", "EXEC"}]
  <2>1. pc' = "walk" /\ call' = c /\ level' = 1 /\ cur' = kernelPT
    BY <1>9 DEF StartWalk
  <2>2. kernelPT \in Nat /\ kernelPT \in DOMAIN tables
    BY <1>3 DEF IndInv, TypeOK
  <2>3. /\ c.op = "map" /\ c.pt = kernelPT /\ c.i = 0 /\ c.flags = {"PRESENT", "RW", "EXEC"}
        /\ c.va = r.va /\ c.size = r.size
    OBVIOUS
  <2>4. c \in CallType
    BY <1>1, <2>2 DEF CallType, RangeType
  <2>5. \A b \in 0 .. (r.size - 1) : page_index(r.va + b, 1) >= Half
    BY <1>1 DEF Halves
  <2>6. TypeOK'
    BY <2>1, <2>2, <2>3 DEF IndInv, TypeOK
  <2>7. r.size \in Nat /\ r.size > 0
    BY <1>1, <1>9 DEF RangeType
  <2> HIDE DEF c, r
  <2>8. InitCall'
    BY <1>3, <2>1, <2>3, <2>5, <2>7 DEF InitCall
  <2>9. CallInv'
    BY <1>3, <2>1, <2>3, <2>4, <2>7, <2>8 DEF CallInv, Reached
  <2> QED  BY <1>4, <1>5, <1>6, <1>7, <2>6, <2>9 DEF IndInv
<1> QED  BY <1>8, <1>9

LEMMA UnmapStep ==
  ASSUME IndInv, Halves, NEW pt \in roots, NEW va \in VirtAddrs, arch_vmm_unmap(pt, va)
  PROVE  IndInv'
<1> USE DEF arch_vmm_unmap, pageVars, cpuVars
<1> DEFINE c == [NoCall EXCEPT !.op = "unmap", !.pt = pt, !.va = va, !.size = 1]
<1>1. pc' = "walk" /\ call' = c /\ level' = 1 /\ cur' = pt
  BY DEF StartWalk, NoCall
<1>2. /\ c.op = "unmap" /\ c.pt = pt /\ c.va = va /\ c.i = 0
  BY DEF NoCall
<1>3. va \in Nat /\ IsLower(va) /\ pt \in DOMAIN tables /\ pt \in Nat
  BY PageTablesAssumption DEF Halves, IndInv, TypeOK
<1>4. c \in CallType
  BY <1>3 DEF NoCall, CallType
<1>5. cr3 # NONE /\ pc = "idle"
  BY DEF IndInv, StageInv
<1> HIDE DEF c
<1>6. TypeOK' /\ PagesInv'
  BY <1>1, <1>2, <1>3 DEF IndInv, TypeOK, PagesInv
<1>7. TreeInv' /\ UserFrames' = UserFrames
  BY KeepsTree DEF IndInv
<1>8. StageInv'
  BY <1>1, <1>5 DEF IndInv, StageInv
<1>9. TLBInv'
  BY <1>1, <1>5 DEF IndInv, TLBInv
<1>a. CallInv'
  BY <1>1, <1>2, <1>3, <1>4, <1>5 DEF CallInv, UserCall, Reached
<1> QED  BY <1>6, <1>7, <1>8, <1>9, <1>a DEF IndInv

LEMMA SetFlagsStep ==
  ASSUME IndInv, Halves, UserSetFlags
  PROVE  IndInv'
<1>0. PICK pt \in roots, va \in VirtAddrs, fl \in FlagSets :
        Lookup(pt, va).present /\ arch_vmm_set_flags(pt, va, fl)
  BY DEF UserSetFlags
<1> USE <1>0 DEF arch_vmm_set_flags, pageVars, cpuVars
<1> DEFINE c == [NoCall EXCEPT !.op = "flags", !.pt = pt, !.va = va, !.size = 1, !.flags = fl]
<1>1. pc' = "walk" /\ call' = c /\ level' = 1 /\ cur' = pt
  BY DEF StartWalk, NoCall
<1>2. /\ c.op = "flags" /\ c.pt = pt /\ c.va = va /\ c.i = 0 /\ c.flags = fl
  BY DEF NoCall
<1>3. va \in Nat /\ IsLower(va) /\ pt \in DOMAIN tables /\ pt \in Nat
  BY PageTablesAssumption DEF Halves, IndInv, TypeOK
<1>4. c \in CallType
  <2>1. fl \in SUBSET {"PRESENT", "RW", "USER", "EXEC"}
    BY PageTablesAssumption
  <2> QED  BY <1>3, <2>1 DEF NoCall, CallType
<1>5. cr3 # NONE /\ pc = "idle"
  BY DEF IndInv, StageInv
<1> HIDE DEF c
<1>6. TypeOK' /\ PagesInv'
  BY <1>1, <1>2, <1>3 DEF IndInv, TypeOK, PagesInv
<1>7. TreeInv' /\ UserFrames' = UserFrames
  BY KeepsTree DEF IndInv
<1>8. StageInv'
  BY <1>1, <1>5 DEF IndInv, StageInv
<1>9. TLBInv'
  BY <1>1, <1>5 DEF IndInv, TLBInv
<1>a. CallInv'
  <2>1. Whole(tables, pt, va)
    BY LookupPresent
  <2>2. "PRESENT" \in fl
    BY DEF Halves
  <2> QED  BY <1>1, <1>2, <1>3, <1>4, <1>5, <2>1, <2>2 DEF CallInv, UserCall, Reached
<1> QED  BY <1>6, <1>7, <1>8, <1>9, <1>a DEF IndInv

LEMMA MapStep ==
  ASSUME IndInv, Halves, UserMap
  PROVE  IndInv'
<1>0. PICK pt \in roots, va \in VirtAddrs, f \in held, n \in RangeSizes, fl \in FlagSets :
        LET pa == f * PAGE_SIZE + (va % PAGE_SIZE) IN
        /\ \A b \in 0 .. (n - 1) : Mappable(pt, pa + b, va + b)
        /\ vmm_map_range(pt, pa, va, n, fl)
  BY DEF UserMap
<1> DEFINE pa == f * PAGE_SIZE + (va % PAGE_SIZE)
           c == [op |-> "map", pt |-> pt, va |-> va, pa |-> pa, size |-> n, i |-> 0,
                 flags |-> fl]
<1> USE DEF vmm_map_range, pageVars, cpuVars
<1>1. pc' = "walk" /\ call' = c /\ level' = 1 /\ cur' = pt
  BY <1>0 DEF StartWalk
<1>2. /\ c.op = "map" /\ c.pt = pt /\ c.va = va /\ c.i = 0 /\ c.flags = fl
      /\ c.size = n /\ c.pa = pa
  OBVIOUS
<1>3. va \in Nat /\ IsLower(va) /\ pt \in DOMAIN tables /\ pt \in Nat /\ n \in Nat /\ n > 0
  BY PageTablesAssumption DEF Halves, IndInv, TypeOK
<1>4. pa \in Nat
  <2>1. f \in Nat /\ PAGE_SIZE \in Nat \ {0}
    BY PageTablesAssumption DEF IndInv, TypeOK
  <2>2. f * PAGE_SIZE \in Nat /\ va % PAGE_SIZE \in Nat
    BY <1>3, <2>1
  <2> QED  BY <2>2
<1>5. \A b \in 0 .. (n - 1) : IsLower(va + b) /\ ~Whole(tables, pt, va + b)
                              /\ PageOf(pa + b) \in held \ UserFrames
  BY <1>0, LookupPresent DEF Mappable
<1>6. cr3 # NONE /\ pc = "idle" /\ UNCHANGED <<pageVars, tables, roots, kernelPT, cpuVars, held, todo>>
  BY <1>0 DEF IndInv, StageInv
<1> HIDE DEF pa
<1>7. c \in CallType
  <2>1. fl \in SUBSET {"PRESENT", "RW", "USER", "EXEC"}
    BY PageTablesAssumption
  <2> QED  BY <1>3, <1>4, <2>1 DEF CallType
<1> HIDE DEF c
<1>8. TypeOK' /\ PagesInv'
  BY <1>1, <1>2, <1>3, <1>6 DEF IndInv, TypeOK, PagesInv
<1>9. TreeInv' /\ UserFrames' = UserFrames
  BY <1>6, KeepsTree DEF IndInv
<1>a. StageInv'
  BY <1>1, <1>6 DEF IndInv, StageInv
<1>b. TLBInv'
  BY <1>1, <1>6 DEF IndInv, TLBInv
<1>c. CallInv'
  <2>1. "PRESENT" \in fl
    BY DEF Halves
  <2>2. \A b \in 0 .. (n - 1) : UserRange(tables, UserFrames, b)'
    BY <1>1, <1>2, <1>5, <1>6, <1>9 DEF UserRange
  <2>3. UserCall(tables, UserFrames)'
    BY <1>1, <1>2, <1>3, <2>1, <2>2 DEF UserCall
  <2> QED  BY <1>1, <1>2, <1>3, <1>6, <1>7, <2>3 DEF CallInv, Reached
<1> QED  BY <1>8, <1>9, <1>a, <1>b, <1>c DEF IndInv

-----------------------------------------------------------------------------
(***************************************************************************)
(* The invariant is preserved: steps that change the tables or the frames. *)
(***************************************************************************)
LEMMA KeepsTLB ==
  ASSUME TLBInv, pc # "invlpg", UNCHANGED <<tlb, cr3>>,
         \A va \in VirtAddrs : Whole(tables, cr3, va) =>
           /\ Whole(tables', cr3, va)
           /\ E4(tables', cr3, va).addr = E4(tables, cr3, va).addr
  PROVE  TLBInv'
BY DEF TLBInv

\* The step that adds a table on the way.
LEMMA AllocTableFacts ==
  ASSUME IndInv, AllocTable, NEW lev, NEW own, NEW low,
         Shape(tables, roots, kernelPT, held, lev, own, low)
  PROVE  /\ lev[cur] < 4 /\ cur \in DOMAIN tables /\ Index \in Indexes
         /\ lev[cur] = 1 /\ cur # kernelPT => Index < Half
         /\ \E f \in avail : /\ PMM!Alloc(f, 1) /\ cur' = f
                            /\ Added(tables, tables', cur, Index, f) /\ TablesTyped(tables')
<1> USE DEF AllocTable, cpuVars
<1> DEFINE v == call.va + call.i
<1>1. PICK f \in avail : /\ PMM!Alloc(f, 1)
                         /\ tables' = [NewTable(f) EXCEPT ![cur][Index] = TableEntry(f)]
                         /\ cur' = f
  OBVIOUS
<1>3. /\ GhostTypes(tables, roots, lev, own, low) /\ EdgesDown(tables, roots, lev, own, low)
      /\ HasParent(tables, lev)
  BY DEF Shape
<1>4. /\ call \in CallType /\ call.pt \in roots /\ v \in Nat
      /\ level \in 1 .. 3 /\ Index = page_index(v, level)
      /\ Reached(tables, call.pt, v, level, cur)
      /\ cur \in DOMAIN tables /\ lev[cur] = level /\ own[cur] = call.pt /\ Index \in Indexes
      /\ cr3 = NONE <=> page_index(v, 1) >= Half
      /\ cr3 = NONE => call.pt = kernelPT
  BY <1>3, WalkFacts
<1>5. f \in Nat /\ f \notin DOMAIN tables /\ f \notin held /\ f \in Frames
  BY <1>1 DEF IndInv, PagesInv, TypeOK
<1>7. TablesTyped(tables)
  BY TypedTables DEF IndInv
<1>8. Added(tables, tables', cur, Index, f) /\ TablesTyped(tables')
  <2> DEFINE T0 == NewTable(f)
  <2>1. /\ DOMAIN T0 = DOMAIN tables \cup {f} /\ T0[f] = EmptyTable
        /\ \A t \in DOMAIN tables : T0[t] = tables[t]
    BY <1>5 DEF NewTable
  <2>2. DOMAIN EmptyTable = Indexes /\ \A j \in Indexes : EmptyTable[j] \in EntryType
    BY DEF EmptyTable, Empty, EntryType
  <2>3. TableEntry(f).present /\ TableEntry(f).addr = f /\ TableEntry(f) \in EntryType
    BY <1>5 DEF TableEntry, EntryType
  <2>4. tables' = [T0 EXCEPT ![cur][Index] = TableEntry(f)]
    BY <1>1
  <2> HIDE DEF T0
  <2>5. /\ DOMAIN tables' = DOMAIN tables \cup {f} /\ tables'[f] = EmptyTable
        /\ tables'[cur] = [tables[cur] EXCEPT ![Index] = TableEntry(f)]
        /\ \A t \in DOMAIN tables : t # cur => tables'[t] = tables[t]
    BY <1>4, <1>5, <2>1, <2>4
  <2>6. \A t \in DOMAIN tables : DOMAIN tables[t] = Indexes /\ \A j \in Indexes : tables[t][j] \in EntryType
    BY <1>7 DEF TablesTyped
  <2>7. /\ tables'[cur][Index] = TableEntry(f) /\ DOMAIN tables'[cur] = Indexes
        /\ \A j \in Indexes : j # Index => tables'[cur][j] = tables[cur][j]
    BY <1>4, <2>5, <2>6
  <2>8. Added(tables, tables', cur, Index, f)
    BY <1>5, <2>3, <2>5, <2>6, <2>7 DEF Added
  <2>9. TablesTyped(tables')
    <3> SUFFICES ASSUME NEW t \in DOMAIN tables'
                 PROVE  DOMAIN tables'[t] = Indexes /\ \A j \in Indexes : tables'[t][j] \in EntryType
      BY DEF TablesTyped
    <3>1. CASE t = f
      BY <2>2, <2>5, <3>1
    <3>2. CASE t = cur
      BY <2>3, <2>6, <2>7, <1>4, <3>2
    <3>3. CASE t # f /\ t # cur
      BY <2>5, <2>6, <3>3
    <3> QED  BY <3>1, <3>2, <3>3
  <2> QED  BY <2>8, <2>9
<1>9. lev[cur] < 4 /\ (lev[cur] = 1 /\ cur # kernelPT => Index < Half)
  <2> SUFFICES ASSUME lev[cur] = 1, cur # kernelPT PROVE Index < Half
    BY <1>4
  <2>1. cur = call.pt
    BY <1>3, <1>4 DEF GhostTypes
  <2>2. cr3 # NONE
    BY <1>4, <2>1
  <2>3. page_index(v, 1) \in Nat
    BY <1>4, IndexType, PageTablesAssumption DEF Indexes
  <2>4. Index = page_index(v, 1)
    BY <1>4
  <2> QED  BY <1>4, <2>2, <2>3, <2>4, HalfType
<1> QED  BY <1>1, <1>4, <1>8, <1>9

LEMMA AllocTableWay ==
  ASSUME IndInv, AllocTable, NEW pt \in roots, NEW va \in Nat
  PROVE  SameWay(tables, tables', pt, va)
<1>1. PICK lev, own, low : Shape(tables, roots, kernelPT, held, lev, own, low)
  BY DEF IndInv, TreeInv
<1>2. GhostTypes(tables, roots, lev, own, low) /\ EdgesDown(tables, roots, lev, own, low)
  BY <1>1 DEF Shape
<1>3. PICK f : Added(tables, tables', cur, Index, f)
  BY <1>1, AllocTableFacts
<1>4. lev[cur] < 4 /\ cur \in DOMAIN tables /\ Index \in Indexes
  BY <1>1, AllocTableFacts
<1> QED  BY <1>2, <1>3, <1>4, AddedWay

LEMMA AllocTableStep ==
  ASSUME IndInv, AllocTable
  PROVE  IndInv'
<1> DEFINE v == call.va + call.i
<1>2. PICK lev, own, low : Shape(tables, roots, kernelPT, held, lev, own, low)
  BY DEF IndInv, TreeInv
<1>8. PICK f \in avail : /\ PMM!Alloc(f, 1) /\ cur' = f
                         /\ Added(tables, tables', cur, Index, f) /\ TablesTyped(tables')
  BY <1>2, AllocTableFacts
<1>9. lev[cur] < 4 /\ (lev[cur] = 1 /\ cur # kernelPT => Index < Half)
  BY <1>2, AllocTableFacts
<1> USE DEF AllocTable, cpuVars
<1>3. /\ GhostTypes(tables, roots, lev, own, low) /\ EdgesDown(tables, roots, lev, own, low)
      /\ HasParent(tables, lev)
  BY <1>2 DEF Shape
<1>4. /\ call \in CallType /\ call.pt \in roots /\ v \in Nat
      /\ level \in 1 .. 3 /\ Index = page_index(v, level)
      /\ Reached(tables, call.pt, v, level, cur)
      /\ cur \in DOMAIN tables /\ lev[cur] = level /\ own[cur] = call.pt /\ Index \in Indexes
      /\ cr3 = NONE <=> page_index(v, 1) >= Half
      /\ cr3 = NONE => call.pt = kernelPT
  BY <1>3, WalkFacts
<1>5. f \in Nat /\ f \notin DOMAIN tables /\ f \notin held /\ f \in Frames
  BY <1>8 DEF IndInv, PagesInv, TypeOK
<1>6. /\ phase = "run" /\ phase' = phase /\ usable' = usable
      /\ avail' = avail \ {f} /\ owned' = owned \cup {f}
  BY <1>8, <1>5, AllocOne
<1>7. TablesTyped(tables)
  BY TypedTables DEF IndInv
<1>a. PICK lev2, own2, low2 :
        /\ Shape(tables', roots, kernelPT, held, lev2, own2, low2)
        /\ MappedFrames(tables', lev2, low2) = MappedFrames(tables, lev, low)
  BY <1>2, <1>4, <1>8, <1>9, AddedShape
<1>b. UserFrames' = UserFrames
  <2>1. /\ GhostTypes(tables', roots, lev2, own2, low2)
        /\ EdgesDown(tables', roots, lev2, own2, low2) /\ HasParent(tables', lev2)
    BY <1>a DEF Shape
  <2>2. UserFramesOf(tables', roots) = MappedFrames(tables', lev2, low2)
    BY <1>8, <2>1, UserFramesIs
  <2>3. UserFramesOf(tables, roots) = MappedFrames(tables, lev, low)
    BY <1>3, <1>7, UserFramesIs
  <2> QED  BY <1>a, <2>2, <2>3, SetsAre, UserFramesNext
<1>c. TreeInv'
  BY <1>a DEF TreeInv
<1> HIDE DEF v
<1>d. \A pt \in roots, va \in Nat :
        /\ HasLeaf(tables, pt, va) => /\ HasLeaf(tables', pt, va)
                                      /\ E4(tables', pt, va) = E4(tables, pt, va)
        /\ Whole(tables', pt, va) <=> Whole(tables, pt, va)
  BY AllocTableWay DEF SameWay
<1>e. Reached(tables', call.pt, v, level + 1, f)
  <2>1. /\ call.pt \in roots /\ v \in Nat /\ level \in 1 .. 3 /\ cur \in DOMAIN tables
        /\ Index \in Indexes /\ lev[cur] < 4 /\ Index = page_index(v, level)
        /\ Reached(tables, call.pt, v, level, cur)
    BY <1>4, <1>9
  <2> HIDE DEF AllocTable
  <2>2. \A l \in 1 .. 3 : Reached(tables, call.pt, v, l, cur) /\ Index = page_index(v, l) =>
                            Reached(tables', call.pt, v, l + 1, f)
    BY <1>3, <1>8, <2>1, AddedWay
  <2> QED  BY <2>1, <2>2
<1>f. DOMAIN tables' = DOMAIN tables \cup {f}
  BY <1>8 DEF Added
<1>g. TypeOK'
  <2>1. level' = level + 1 /\ level' \in 1 .. 4 /\ cur' = f
    BY <1>8, <1>4
  <2>2. UNCHANGED <<roots, kernelPT, cr3, held, pc, call>>
    OBVIOUS
  <2>3. /\ DOMAIN tables \subseteq Nat /\ roots \subseteq DOMAIN tables /\ held \subseteq Nat
        /\ {kernelPT, cr3} \subseteq roots \cup {NONE}
        /\ pc \in {"boot", "init", "idle", "walk", "invlpg"}
        /\ call.op \in {"none", "map", "map_flags", "flags", "unmap"}
        /\ avail \subseteq Nat /\ owned \subseteq usable /\ usable = Frames
    BY DEF IndInv, TypeOK, PagesInv
  <2> HIDE DEF AllocTable
  <2>4. DOMAIN tables' \subseteq Nat /\ roots' \subseteq DOMAIN tables'
        /\ owned' \subseteq usable' /\ avail' \subseteq Nat /\ phase' \in {"run", "halt"}
    BY <1>5, <1>6, <1>f, <2>2, <2>3
  <2> QED  BY <1>8, <1>f, <2>1, <2>2, <2>3, <2>4, TypedTablesNext
<1>h. PagesInv'
  BY <1>5, <1>6, <1>f DEF IndInv, PagesInv
<1>i. StageInv'
  BY DEF IndInv, StageInv
<1>j. TLBInv'
  <2>1. CASE cr3 = NONE
    <3>1. tlb' = {}
      BY <2>1 DEF IndInv, StageInv
    <3> QED  BY <3>1 DEF TLBInv
  <2>2. CASE cr3 # NONE
    <3>1. cr3 \in roots /\ VirtAddrs \subseteq Nat
      BY <2>2, PageTablesAssumption DEF IndInv, StageInv
    <3>2. \A va \in VirtAddrs : Whole(tables, cr3, va) =>
            /\ Whole(tables', cr3, va)
            /\ E4(tables', cr3, va).addr = E4(tables, cr3, va).addr
      BY <1>d, <3>1 DEF Whole
    <3> QED  BY <3>2, KeepsTLB DEF IndInv
  <2> QED  BY <2>1, <2>2
<1>k. CallInv'
  <2>1. UNCHANGED <<call, cr3, held, kernelPT, roots, pc>> /\ level' = level + 1 /\ cur' = f
    BY <1>8
  <2>2. \A b \in Nat : UserRange(tables, UserFrames, b) => UserRange(tables, UserFrames, b)'
    <3>1. \A b \in Nat : call.va + b \in Nat
      BY <1>4 DEF CallType
    <3> QED  BY <1>4, <1>b, <1>d, <2>1, <3>1 DEF UserRange
  <2>3. call.i \in Nat /\ call.size \in Nat /\ call.va \in Nat /\ PAGE_SIZE \in Nat
    BY <1>4, PageTablesAssumption DEF CallType
  <2>4. \A n \in Nat : \A b \in n .. (call.size - 1) : b \in Nat
    BY <2>3
  <2>5. cr3 # NONE => UserCall(tables, UserFrames)'
    <3> SUFFICES ASSUME cr3 # NONE PROVE UserCall(tables, UserFrames)'
      OBVIOUS
    <3>1. UserCall(tables, UserFrames)
      BY DEF IndInv, CallInv
    <3>2. call.op = "flags" => Whole(tables', call.pt, call.va)
      BY <1>4, <1>d, <2>3, <3>1 DEF UserCall
    <3>3. call.op = "map" => \A b \in call.i .. (call.size - 1) : UserRange(tables, UserFrames, b)'
      BY <2>2, <2>3, <2>4, <3>1 DEF UserCall
    <3>4. call.op = "map_flags" =>
            /\ \A b \in (call.i + PAGE_SIZE) .. (call.size - 1) : UserRange(tables, UserFrames, b)'
            /\ UserRange(tables, UserFrames, call.i)'
      <4>1. call.i + PAGE_SIZE \in Nat
        BY <2>3
      <4> QED  BY <2>2, <2>3, <2>4, <3>1, <4>1 DEF UserCall
    <3> HIDE DEF AllocTable
    <3>5. UNCHANGED call
      BY <2>1
    <3> QED  BY <3>1, <3>2, <3>3, <3>4, <3>5 DEF UserCall
  <2>6. cr3 = NONE => InitCall'
    BY <2>1 DEF IndInv, CallInv, InitCall
  <2>7. Reached(tables', call.pt, call.va + call.i, level', cur')
    BY <1>e, <2>1 DEF v
  <2>8. call.op = "map_flags" =>
          /\ HasLeaf(tables', call.pt, call.va + call.i)
          /\ E4(tables', call.pt, call.va + call.i).addr = PageOf(call.pa + call.i)
    BY <1>4, <1>d DEF IndInv, CallInv, v
  <2> QED  BY <2>1, <2>5, <2>6, <2>7, <2>8 DEF IndInv, CallInv
<1> QED  BY <1>c, <1>g, <1>h, <1>i, <1>j, <1>k DEF IndInv


LEMMA NewTableIs ==
  ASSUME NEW f \in Nat, f \notin DOMAIN tables, TablesTyped(tables), tables' = NewTable(f)
  PROVE  Rooted(tables, tables', f) /\ TablesTyped(tables')
<1>1. /\ DOMAIN tables' = DOMAIN tables \cup {f} /\ tables'[f] = EmptyTable
      /\ \A t \in DOMAIN tables : tables'[t] = tables[t]
  BY DEF NewTable
<1>2. DOMAIN EmptyTable = Indexes /\ \A j \in Indexes : EmptyTable[j] \in EntryType
  BY DEF EmptyTable, Empty, EntryType
<1> QED  BY <1>1, <1>2 DEF Rooted, TablesTyped

LEMMA InitStep ==
  ASSUME IndInv, vmm_init
  PROVE  IndInv'
<1> USE DEF vmm_init, cpuVars
<1>1. PICK f \in avail : /\ PMM!Alloc(f, 1) /\ tables' = NewTable(f)
                         /\ kernelPT' = f /\ roots' = {f}
  OBVIOUS
<1>2. f \in Nat /\ f \notin DOMAIN tables /\ f \notin held /\ f \in Frames
  BY <1>1 DEF IndInv, PagesInv, TypeOK
<1>3. /\ phase = "run" /\ phase' = phase /\ usable' = usable
      /\ avail' = avail \ {f} /\ owned' = owned \cup {f}
  BY <1>1, <1>2, AllocOne
<1>4. Rooted(tables, tables', f) /\ TablesTyped(tables')
  BY <1>1, <1>2, NewTableIs, TypedTables DEF IndInv
<1>5. roots = {} /\ cr3 = NONE /\ held = {} /\ tlb = {}
  BY DEF IndInv, StageInv
<1>6. DOMAIN tables' = DOMAIN tables \cup {f}
  BY <1>4 DEF Rooted
<1>7. TypeOK'
  <2>1. /\ DOMAIN tables \subseteq Nat /\ held \subseteq Nat /\ avail \subseteq Nat
        /\ call.op \in {"none", "map", "map_flags", "flags", "unmap"}
        /\ level \in 1 .. 4 /\ cur \in DOMAIN tables \cup {NONE} /\ owned \subseteq usable
        /\ usable = Frames
    BY DEF IndInv, TypeOK, PagesInv
  <2> QED  BY <1>1, <1>2, <1>3, <1>4, <1>5, <1>6, <2>1, TypedTablesNext
<1>8. PagesInv'
  BY <1>2, <1>3, <1>6 DEF IndInv, PagesInv
<1>9. TreeInv'
  <2>1. PICK lev, own, low : Shape(tables, roots, kernelPT, held, lev, own, low)
    BY DEF IndInv, TreeInv
  <2>2. roots' = roots \cup {f} /\ held' = held
    BY <1>1, <1>5
  <2> HIDE DEF vmm_init
  <2> QED  BY <1>4, <1>5, <2>1, <2>2, RootedShape DEF TreeInv
<1>a. StageInv'
  <2>1. todo' = InitRanges /\ InitRanges \in Seq([pa : Nat, va : Nat, size : Nat])
    BY InitRangesType DEF RangeType
  <2> QED  BY <1>1, <1>5, <2>1 DEF IndInv, StageInv
<1>b. CallInv' /\ TLBInv'
  BY <1>5 DEF IndInv, CallInv, TLBInv
<1> QED  BY <1>7, <1>8, <1>9, <1>a, <1>b DEF IndInv

\* A new top-level table f: the others translate what they did, it nothing.
LEMMA NewRootSeen ==
  ASSUME IndInv, NEW f \in avail, tables' = NewTable(f)
  PROVE  /\ \A pt \in roots, va \in Nat : SameWay(tables, tables', pt, va)
         /\ \A va \in Nat : Seen(tables', f, va) = {}
<1>1. PICK lev, own, low : Shape(tables, roots, kernelPT, held, lev, own, low)
  BY DEF IndInv, TreeInv
<1>2. GhostTypes(tables, roots, lev, own, low) /\ EdgesDown(tables, roots, lev, own, low)
  BY <1>1 DEF Shape
<1>3. f \in Nat /\ f \notin DOMAIN tables
  BY DEF IndInv, PagesInv, TypeOK
<1>4. Rooted(tables, tables', f)
  BY <1>3, NewTableIs, TypedTables DEF IndInv
<1>5. \A pt : Kept(tables, tables', own, pt)
  BY <1>4 DEF Rooted, Kept
<1>6. ASSUME NEW va \in Nat PROVE Seen(tables', f, va) = {}
  <2>1. page_index(va, 1) \in Indexes
    BY IndexType
  <2>2. ~E1(tables', f, va).present
    BY <1>4, <2>1 DEF Rooted, E1, EmptyTable, Empty
  <2> QED  BY <2>2 DEF Seen, Whole, HasLeaf
<1> QED  BY <1>2, <1>5, <1>6, KeptWay

LEMMA NewPTWay ==
  ASSUME IndInv, arch_vmm_new_pt, NEW pt \in roots, NEW va \in Nat
  PROVE  SameWay(tables, tables', pt, va)
<1>1. \E f \in avail : tables' = NewTable(f)
  BY DEF arch_vmm_new_pt
<1> QED  BY <1>1, NewRootSeen

LEMMA NewPTStep ==
  ASSUME IndInv, arch_vmm_new_pt
  PROVE  IndInv'
<1> USE DEF arch_vmm_new_pt, cpuVars
<1>1. PICK f \in avail : /\ PMM!Alloc(f, 1) /\ tables' = NewTable(f)
                         /\ roots' = roots \cup {f}
  OBVIOUS
<1>2. f \in Nat /\ f \notin DOMAIN tables /\ f \notin held /\ f \in Frames
  BY <1>1 DEF IndInv, PagesInv, TypeOK
<1>3. /\ phase = "run" /\ phase' = phase /\ usable' = usable
      /\ avail' = avail \ {f} /\ owned' = owned \cup {f}
  BY <1>1, <1>2, AllocOne
<1>4. Rooted(tables, tables', f) /\ TablesTyped(tables')
  BY <1>1, <1>2, NewTableIs, TypedTables DEF IndInv
<1>5. cr3 \in roots /\ cr3 # NONE
  BY DEF IndInv, StageInv
<1>6. DOMAIN tables' = DOMAIN tables \cup {f}
  BY <1>4 DEF Rooted
<1>7. TypeOK'
  <2>1. /\ DOMAIN tables \subseteq Nat /\ held \subseteq Nat /\ avail \subseteq Nat
        /\ call.op \in {"none", "map", "map_flags", "flags", "unmap"}
        /\ {kernelPT, cr3} \subseteq roots \cup {NONE} /\ roots \subseteq DOMAIN tables
        /\ level \in 1 .. 4 /\ cur \in DOMAIN tables \cup {NONE} /\ owned \subseteq usable
        /\ usable = Frames
    BY DEF IndInv, TypeOK, PagesInv
  <2> QED  BY <1>1, <1>2, <1>3, <1>4, <1>5, <1>6, <2>1, TypedTablesNext
<1>8. PagesInv'
  BY <1>2, <1>3, <1>6 DEF IndInv, PagesInv
<1>9. PICK lev, own, low : Shape(tables, roots, kernelPT, held, lev, own, low)
  BY DEF IndInv, TreeInv
<1>a. TreeInv'
  <2>1. UNCHANGED <<kernelPT, held>>
    OBVIOUS
  <2> HIDE DEF arch_vmm_new_pt
  <2> QED  BY <1>1, <1>4, <1>9, <2>1, RootedShape DEF TreeInv
<1>b. StageInv'
  BY <1>1, <1>5 DEF IndInv, StageInv
<1>c. CallInv'
  BY DEF IndInv, CallInv
<1>d. TLBInv'
  <2>1. UNCHANGED <<tlb, cr3>> /\ pc # "invlpg" /\ VirtAddrs \subseteq Nat
    BY PageTablesAssumption
  <2>2. \A va \in VirtAddrs : SameWay(tables, tables', cr3, va)
    BY <1>5, <2>1, NewPTWay
  <2> QED  BY <2>1, <2>2, KeepsTLB DEF IndInv, SameWay, Whole
<1> QED  BY <1>7, <1>8, <1>a, <1>b, <1>c, <1>d DEF IndInv

LEMMA DestroyFacts ==
  ASSUME IndInv, NEW pt \in roots \ {kernelPT, cr3}, arch_vmm_destroy_pt(pt),
         NEW lev, NEW own, NEW low, Shape(tables, roots, kernelPT, held, lev, own, low)
  PROVE  Destroyed(tables, tables', own, pt)
<1>1. /\ GhostTypes(tables, roots, lev, own, low) /\ EdgesDown(tables, roots, lev, own, low)
      /\ HasParent(tables, lev) /\ UpperEmpty(tables, roots, kernelPT)
  BY DEF Shape
<1> DEFINE L2 == LowerHalf(pt)
           L3 == Targets(L2)
           L4 == Targets(L3)
           gone == {pt} \cup L2 \cup L3 \cup L4
<1>2. gone = {t \in DOMAIN tables : own[t] = pt}
  BY <1>1, BelowIs
<1>3. tables' = [f \in DOMAIN tables \ gone |-> tables[f]]
  BY DEF arch_vmm_destroy_pt
<1> HIDE DEF gone
<1> QED  BY <1>2, <1>3 DEF Destroyed

LEMMA DestroyWay ==
  ASSUME IndInv, NEW pt \in roots \ {kernelPT, cr3}, arch_vmm_destroy_pt(pt),
         NEW qt \in roots \ {pt}, NEW va \in Nat
  PROVE  SameWay(tables, tables', qt, va)
<1>1. PICK lev, own, low : Shape(tables, roots, kernelPT, held, lev, own, low)
  BY DEF IndInv, TreeInv
<1>2. GhostTypes(tables, roots, lev, own, low) /\ EdgesDown(tables, roots, lev, own, low)
  BY <1>1 DEF Shape
<1>3. Destroyed(tables, tables', own, pt)
  BY <1>1, DestroyFacts
<1>4. Kept(tables, tables', own, qt)
  BY <1>3 DEF Destroyed, Kept
<1> QED  BY <1>2, <1>4, KeptWay

LEMMA DestroyStep ==
  ASSUME IndInv, NEW pt \in roots \ {kernelPT, cr3}, arch_vmm_destroy_pt(pt)
  PROVE  IndInv' /\ avail' \ avail \subseteq owned
<1> DEFINE L2 == LowerHalf(pt)
           L3 == Targets(L2)
           L4 == Targets(L3)
           gone == {pt} \cup L2 \cup L3 \cup L4
           F == FramesIn(L4)
<1>1. /\ pc = "idle" /\ phase = "run"
      /\ avail' = avail \cup (gone \cup F) /\ owned' = owned \ (gone \cup F)
      /\ tables' = [f \in DOMAIN tables \ gone |-> tables[f]]
      /\ roots' = roots \ {pt} /\ held' = held \ (gone \cup F)
      /\ UNCHANGED <<usable, phase, kernelPT, cpuVars, todo, pc, call, level, cur>>
  BY DEF arch_vmm_destroy_pt
<1>2. PICK lev, own, low : Shape(tables, roots, kernelPT, held, lev, own, low)
  BY DEF IndInv, TreeInv
<1>3. /\ GhostTypes(tables, roots, lev, own, low) /\ EdgesDown(tables, roots, lev, own, low)
      /\ HasParent(tables, lev) /\ UpperEmpty(tables, roots, kernelPT)
      /\ UserMaps(tables, lev, low, held)
  BY <1>2 DEF Shape
<1>4. /\ gone = {t \in DOMAIN tables : own[t] = pt}
      /\ L4 = {t \in DOMAIN tables : own[t] = pt /\ lev[t] = 4}
      /\ \A t \in L4 : low[t]
  BY <1>3, BelowIs
<1>5. F = Heads(tables, L4)
  BY SetsAre DEF FramesIn
<1> HIDE DEF F, L4, L3, L2, gone
<1>6. FramesBelow(tables, lev, own, low, pt, F)
  BY <1>4, <1>5, TargetsIs DEF FramesBelow
<1>7. F \subseteq held
  <2> SUFFICES ASSUME NEW x \in F PROVE x \in held
    OBVIOUS
  <2>1. PICK t \in L4, i \in Indexes : tables[t][i].present /\ tables[t][i].addr = x
    BY <1>5, TargetsIs
  <2> QED  BY <1>3, <1>4, <2>1 DEF UserMaps
<1>8. gone \subseteq DOMAIN tables /\ pt \in gone
  BY <1>3, <1>4 DEF GhostTypes
<1>9. /\ usable = Frames /\ avail \subseteq Frames /\ owned \subseteq Frames /\ avail \cap owned = {}
      /\ DOMAIN tables \subseteq owned /\ held \subseteq owned /\ held \cap DOMAIN tables = {}
  BY DEF IndInv, PagesInv
<1>a. Destroyed(tables, tables', own, pt) /\ DOMAIN tables' = DOMAIN tables \ gone
  BY <1>1, <1>2, DestroyFacts
<1>b. \A t \in roots \ {pt} : t \in DOMAIN tables'
  BY <1>3, <1>4, <1>a DEF GhostTypes
<1>c. TypeOK'
  <2>1. /\ DOMAIN tables \subseteq Nat /\ held \subseteq Nat /\ Frames \subseteq Nat
        /\ phase \in {"run", "halt"} /\ pc = "idle"
        /\ call.op \in {"none", "map", "map_flags", "flags", "unmap"}
        /\ {kernelPT, cr3} \subseteq roots \cup {NONE} /\ roots \subseteq DOMAIN tables
        /\ level \in 1 .. 4
    BY <1>1, PageTablesAssumption DEF IndInv, TypeOK
  <2>2. cur = NONE
    BY <1>1 DEF IndInv, StageInv
  <2>3. TablesTyped(tables')
    BY <1>1, <1>a, TypedTables DEF IndInv, TablesTyped
  <2>4. UNCHANGED <<usable, phase, kernelPT, cr3, pc, call, level, cur>>
    BY <1>1 DEF cpuVars
  <2> QED  BY <1>1, <1>7, <1>8, <1>9, <1>a, <1>b, <2>1, <2>2, <2>3, <2>4, TypedTablesNext
<1>d. PagesInv'
  BY <1>1, <1>7, <1>8, <1>9, <1>a DEF PagesInv
<1>e. TreeInv'
  <2>1. Remaining(held, held', tables, tables', F)
    BY <1>1, <1>8, <1>9, <1>a DEF Remaining
  <2>2. kernelPT' = kernelPT /\ roots' = roots \ {pt} /\ pt \in roots
    BY <1>1
  <2>3. \E lev2, own2, low2 : Shape(tables', roots \ {pt}, kernelPT, held', lev2, own2, low2)
    BY <1>2, <1>6, <1>a, <2>1, <2>2, DestroyedShape
  <2> QED  BY <2>2, <2>3 DEF TreeInv
<1>f. StageInv'
  BY <1>1 DEF IndInv, StageInv, cpuVars
<1>g. CallInv'
  BY <1>1 DEF IndInv, CallInv
<1>h. TLBInv'
  <2>1. UNCHANGED <<tlb, cr3>> /\ pc # "invlpg" /\ VirtAddrs \subseteq Nat
    BY <1>1, PageTablesAssumption DEF cpuVars
  <2>2. cr3 \in roots \ {pt}
    BY <1>1 DEF IndInv, StageInv
  <2>3. \A va \in VirtAddrs : SameWay(tables, tables', cr3, va)
    BY <2>1, <2>2, DestroyWay
  <2> QED  BY <2>1, <2>3, KeepsTLB DEF IndInv, SameWay, Whole
<1>i. avail' \ avail \subseteq owned
  BY <1>1, <1>7, <1>8, <1>9
<1> QED  BY <1>c, <1>d, <1>e, <1>f, <1>g, <1>h, <1>i DEF IndInv

LEMMA GetFrameStep ==
  ASSUME IndInv, GetFrame
  PROVE  IndInv'
<1> USE DEF GetFrame, cpuVars
<1>1. PICK f \in avail : PMM!Alloc(f, 1) /\ held' = held \cup {f}
  OBVIOUS
<1>2. f \in Nat /\ f \notin DOMAIN tables /\ f \in Frames
  BY <1>1 DEF IndInv, PagesInv, TypeOK
<1>3. /\ phase = "run" /\ phase' = phase /\ usable' = usable
      /\ avail' = avail \ {f} /\ owned' = owned \cup {f}
  BY <1>1, <1>2, AllocOne
<1>4. TypeOK'
  BY <1>1, <1>2, <1>3 DEF IndInv, TypeOK, PagesInv
<1>5. PagesInv'
  BY <1>1, <1>2, <1>3 DEF IndInv, PagesInv
<1>6. TreeInv'
  <2>1. PICK lev, own, low : Shape(tables, roots, kernelPT, held, lev, own, low)
    BY DEF IndInv, TreeInv
  <2>2. UserMaps(tables, lev, low, held')
    BY <1>1, <2>1 DEF Shape, UserMaps
  <2>3. UNCHANGED <<tables, roots, kernelPT>>
    OBVIOUS
  <2> QED  BY <2>1, <2>2, <2>3 DEF Shape, TreeInv
<1>7. StageInv'
  BY DEF IndInv, StageInv
<1>8. CallInv'
  BY DEF IndInv, CallInv
<1>9. TLBInv'
  BY DEF IndInv, TLBInv
<1> QED  BY <1>4, <1>5, <1>6, <1>7, <1>8, <1>9 DEF IndInv

LEMMA PutFrameStep ==
  ASSUME IndInv, NEW f \in held \ UserFrames, PutFrame(f)
  PROVE  IndInv' /\ avail' \ avail \subseteq owned
<1> USE DEF PutFrame, cpuVars
<1>1. PMM!Free(f, 1) /\ held' = held \ {f}
  OBVIOUS
<1>2. f \in Nat /\ f \in owned /\ f \notin DOMAIN tables
  BY <1>1 DEF IndInv, PagesInv, TypeOK
<1>3. /\ phase = "run" /\ phase' = phase /\ usable' = usable /\ f \in owned
      /\ avail' = avail \cup {f} /\ owned' = owned \ {f}
  BY <1>1, <1>2, FreeOne
<1>4. TypeOK'
  BY <1>1, <1>2, <1>3 DEF IndInv, TypeOK, PagesInv
<1>5. PagesInv'
  BY <1>1, <1>2, <1>3 DEF IndInv, PagesInv
<1>6. TreeInv'
  <2>1. PICK lev, own, low : Shape(tables, roots, kernelPT, held, lev, own, low)
    BY DEF IndInv, TreeInv
  <2>2. /\ GhostTypes(tables, roots, lev, own, low) /\ EdgesDown(tables, roots, lev, own, low)
        /\ HasParent(tables, lev) /\ UserMaps(tables, lev, low, held)
    BY <2>1 DEF Shape
  <2>3. TablesTyped(tables)
    BY TypedTables DEF IndInv
  <2>4. f \notin MappedFrames(tables, lev, low)
    <3>1. UserFramesOf(tables, roots) = MappedFrames(tables, lev, low)
      BY <2>2, <2>3, UserFramesIs
    <3> QED  BY <3>1, SetsAre
  <2>5. UserMaps(tables, lev, low, held')
    BY <1>1, <1>2, <2>2, <2>4 DEF UserMaps, MappedFrames
  <2>6. UNCHANGED <<tables, roots, kernelPT>>
    OBVIOUS
  <2> QED  BY <2>1, <2>5, <2>6 DEF Shape, TreeInv
<1>7. StageInv'
  BY DEF IndInv, StageInv
<1>8. CallInv'
  BY DEF IndInv, CallInv
<1>9. TLBInv'
  BY DEF IndInv, TLBInv
<1> QED  BY <1>3, <1>4, <1>5, <1>6, <1>7, <1>8, <1>9 DEF IndInv

-----------------------------------------------------------------------------
(***************************************************************************)
(* The invariant is preserved: stores to the entry that the walk reached.  *)
(***************************************************************************)
Stores(e) ==
  /\ Changed(tables, tables', cur, Index) /\ tables'[cur][Index] = e /\ e \in EntryType
  /\ UNCHANGED <<roots, kernelPT, held, cr3>>

\* What the walk reached, at the last level.
LEMMA LeafReached ==
  ASSUME IndInv, pc = "walk", level = 4, NEW lev, NEW own, NEW low,
         Shape(tables, roots, kernelPT, held, lev, own, low)
  PROVE  /\ cur \in DOMAIN tables /\ Index \in Indexes /\ lev[cur] = 4
         /\ tables[cur][Index] \in EntryType
         /\ call.pt \in roots /\ call.va + call.i \in Nat
         /\ HasLeaf(tables, call.pt, call.va + call.i)
         /\ cur = E3(tables, call.pt, call.va + call.i).addr
         /\ Index = page_index(call.va + call.i, 4)
         /\ tables[cur][Index] = E4(tables, call.pt, call.va + call.i)
         /\ cr3 = NONE => ~low[cur]
         /\ cr3 # NONE => low[cur]
<1>1. GhostTypes(tables, roots, lev, own, low) /\ EdgesDown(tables, roots, lev, own, low)
  BY DEF Shape
<1>2. /\ call.pt \in roots /\ call.va + call.i \in Nat
      /\ level \in 1 .. 4 /\ Index = page_index(call.va + call.i, level)
      /\ Reached(tables, call.pt, call.va + call.i, level, cur)
      /\ cur \in DOMAIN tables /\ lev[cur] = level
      /\ Index \in Indexes /\ tables[cur][Index] \in EntryType
      /\ level > 1 => low[cur] = (page_index(call.va + call.i, 1) < Half)
      /\ cr3 = NONE <=> page_index(call.va + call.i, 1) >= Half
  BY <1>1, WalkFacts
<1>3. /\ HasLeaf(tables, call.pt, call.va + call.i)
      /\ cur = E3(tables, call.pt, call.va + call.i).addr
  BY <1>2 DEF Reached
<1>4. tables[cur][Index] = E4(tables, call.pt, call.va + call.i)
  BY <1>2, <1>3 DEF E4
<1>5. page_index(call.va + call.i, 1) \in Int /\ Half \in Int
  <2>1. 1 \in 1 .. 4
    OBVIOUS
  <2> QED  BY <1>2, <2>1, IndexType, HalfType, PageTablesAssumption DEF Indexes
<1>6. low[cur] = (page_index(call.va + call.i, 1) < Half)
  BY <1>2
<1>7. (cr3 = NONE => ~low[cur]) /\ (cr3 # NONE => low[cur])
  <2>1. page_index(call.va + call.i, 1) < Half <=> cr3 # NONE
    BY <1>2, <1>5
  <2> QED  BY ONLY <1>6, <2>1
<1> QED  BY <1>2, <1>3, <1>4, <1>7

\* The only page of the lower half that the entry translates.
LEMMA OnePage ==
  ASSUME IndInv, pc = "walk", level = 4, cr3 # NONE, NEW pt \in roots, NEW va \in Nat,
         IsLower(va), HasLeaf(tables, pt, va), E3(tables, pt, va).addr = cur,
         page_index(va, 4) = Index
  PROVE  pt = call.pt /\ PageOf(va) = PageOf(call.va + call.i)
<1>1. PICK lev, own, low : Shape(tables, roots, kernelPT, held, lev, own, low)
  BY DEF IndInv, TreeInv
<1>2. /\ GhostTypes(tables, roots, lev, own, low) /\ EdgesDown(tables, roots, lev, own, low)
      /\ OneParent(tables, lev)
  BY <1>1 DEF Shape
<1> DEFINE v == call.va + call.i
<1>3. /\ call.pt \in roots /\ v \in Nat /\ HasLeaf(tables, call.pt, v)
      /\ cur = E3(tables, call.pt, v).addr /\ Index = page_index(v, 4)
  BY <1>1, LeafReached
<1>4. IsLower(v)
  BY DEF IndInv, CallInv, UserCall
<1> HIDE DEF v
<1>5. pt = call.pt /\ \A l \in 1 .. 3 : page_index(va, l) = page_index(v, l)
  BY <1>2, <1>3, SameLeaf
<1>6. SameIndexes(va, v)
  <2>1. \A l \in 1 .. 4 : l \in 1 .. 3 \/ l = 4
    OBVIOUS
  <2> QED  BY <1>3, <1>5, <2>1 DEF SameIndexes
<1>7. PageOf(va) = PageOf(v)
  BY <1>3, <1>4, <1>6, LowerPages
<1> QED  BY <1>5, <1>7 DEF v

LEMMA StoredTree ==
  ASSUME IndInv, pc = "walk", level = 4, NEW e, Stores(e),
         \/ cr3 = NONE
         \/ ~e.present
         \/ tables[cur][Index].present /\ e.addr = tables[cur][Index].addr
         \/ e.addr \in held \ UserFrames
  PROVE  /\ TreeInv' /\ TablesTyped(tables') /\ DOMAIN tables' = DOMAIN tables
         /\ UserFrames' \subseteq UserFrames \cup
              (IF cr3 # NONE /\ e.present THEN {e.addr} ELSE {})
<1>1. PICK lev, own, low : Shape(tables, roots, kernelPT, held, lev, own, low)
  BY DEF IndInv, TreeInv
<1>2. /\ GhostTypes(tables, roots, lev, own, low) /\ EdgesDown(tables, roots, lev, own, low)
      /\ OneParent(tables, lev) /\ HasParent(tables, lev)
      /\ UpperEmpty(tables, roots, kernelPT) /\ UserMaps(tables, lev, low, held)
  BY <1>1 DEF Shape
<1>3. /\ cur \in DOMAIN tables /\ Index \in Indexes /\ lev[cur] = 4
      /\ cr3 = NONE => ~low[cur]
      /\ cr3 # NONE => low[cur]
  BY <1>1, LeafReached
<1>4. Changed(tables, tables', cur, Index) /\ tables'[cur][Index] = e /\ e \in EntryType
      /\ UNCHANGED <<roots, kernelPT, held, cr3>>
  BY DEF Stores
<1>5. TablesTyped(tables) /\ DOMAIN tables' = DOMAIN tables
  BY <1>4, TypedTables DEF IndInv, Changed
<1>6. TablesTyped(tables')
  BY <1>3, <1>4, <1>5 DEF TablesTyped, Changed
<1>7. UserFrames = MappedFrames(tables, lev, low)
  <2>1. UserFramesOf(tables, roots) = MappedFrames(tables, lev, low)
    BY <1>2, <1>5, UserFramesIs
  <2> QED  BY <2>1, SetsAre
<1>8. /\ GhostTypes(tables', roots, lev, own, low) /\ EdgesDown(tables', roots, lev, own, low)
      /\ OneParent(tables', lev) /\ HasParent(tables', lev)
      /\ UpperEmpty(tables', roots, kernelPT)
  BY <1>2, <1>3, <1>4, ChangedShape
<1>9. \/ ~low[cur]
      \/ ~tables'[cur][Index].present
      \/ tables[cur][Index].present /\ tables'[cur][Index].addr = tables[cur][Index].addr
      \/ tables'[cur][Index].addr \in held \ MappedFrames(tables, lev, low)
  BY <1>3, <1>4, <1>7
<1>a. /\ UserMaps(tables', lev, low, held)
      /\ MappedFrames(tables', lev, low) \subseteq
           MappedFrames(tables, lev, low) \cup
             (IF low[cur] /\ tables'[cur][Index].present THEN {tables'[cur][Index].addr} ELSE {})
  BY <1>2, <1>3, <1>4, <1>5, <1>9, ChangedUser
<1>b. Shape(tables', roots, kernelPT, held, lev, own, low)
  BY <1>8, <1>a DEF Shape
<1>c. TreeInv'
  BY <1>4, <1>b DEF TreeInv
<1>d. UserFrames' = MappedFrames(tables', lev, low)
  <2>1. UserFramesOf(tables', roots) = MappedFrames(tables', lev, low)
    BY <1>6, <1>8, UserFramesIs
  <2> QED  BY <1>4, <2>1, UserFramesNext
<1>e. UserFrames' \subseteq UserFrames \cup (IF cr3 # NONE /\ e.present THEN {e.addr} ELSE {})
  BY <1>3, <1>4, <1>7, <1>a, <1>d
<1> QED  BY <1>5, <1>6, <1>c, <1>e

LEMMA StoredWay ==
  ASSUME IndInv, pc = "walk", level = 4, NEW e, Stores(e), NEW pt \in roots, NEW va \in Nat
  PROVE  /\ HasLeaf(tables', pt, va) <=> HasLeaf(tables, pt, va)
         /\ HasLeaf(tables, pt, va) =>
              E4(tables', pt, va) = IF E3(tables, pt, va).addr = cur /\ page_index(va, 4) = Index
                                    THEN e ELSE E4(tables, pt, va)
<1>1. PICK lev, own, low : Shape(tables, roots, kernelPT, held, lev, own, low)
  BY DEF IndInv, TreeInv
<1>2. GhostTypes(tables, roots, lev, own, low) /\ EdgesDown(tables, roots, lev, own, low)
  BY <1>1 DEF Shape
<1>3. cur \in DOMAIN tables /\ Index \in Indexes /\ lev[cur] = 4
  BY <1>1, LeafReached
<1>4. Changed(tables, tables', cur, Index) /\ tables'[cur][Index] = e
  BY DEF Stores
<1>5. HasLeaf(tables', pt, va) <=> HasLeaf(tables, pt, va)
  BY <1>2, <1>3, <1>4, ChangedWay
<1>6. HasLeaf(tables, pt, va) => EntryAfter(tables, tables', cur, Index, pt, va)
  BY <1>2, <1>3, <1>4, ChangedWay
<1> QED  BY <1>4, <1>5, <1>6 DEF EntryAfter

LEMMA StoreAddrStep ==
  ASSUME IndInv, StoreAddr
  PROVE  IndInv'
<1> DEFINE v == call.va + call.i
           e == [tables[cur][Index] EXCEPT !.addr = PageOf(call.pa + call.i)]
<1>1. /\ pc = "walk" /\ level = 4 /\ call.op = "map"
      /\ tables' = [tables EXCEPT ![cur][Index].addr = PageOf(call.pa + call.i)]
      /\ pc' = "walk" /\ call' = [call EXCEPT !.op = "map_flags"] /\ level' = 1 /\ cur' = call'.pt
      /\ UNCHANGED <<pageVars, roots, kernelPT, cpuVars, held, todo>>
  BY DEF StoreAddr, StartWalk
<1>2. PICK lev, own, low : Shape(tables, roots, kernelPT, held, lev, own, low)
  BY DEF IndInv, TreeInv
<1>3. /\ cur \in DOMAIN tables /\ Index \in Indexes /\ tables[cur][Index] \in EntryType
      /\ call.pt \in roots /\ v \in Nat /\ HasLeaf(tables, call.pt, v)
      /\ cur = E3(tables, call.pt, v).addr /\ Index = page_index(v, 4)
      /\ tables[cur][Index] = E4(tables, call.pt, v)
  BY <1>1, <1>2, LeafReached
<1>4. /\ call \in CallType /\ call.pa + call.i \in Nat /\ call.i < call.size
  BY <1>1 DEF IndInv, CallInv, CallType
<1>5. e \in EntryType /\ e.present = tables[cur][Index].present /\ e.addr = PageOf(call.pa + call.i)
  BY <1>3, <1>4, ShiftsType DEF EntryType
<1>6. Stores(e)
  <2>1. \A t \in DOMAIN tables : DOMAIN tables[t] = Indexes
    BY DEF IndInv, TypeOK
  <2> QED  BY <1>1, <1>3, <1>5, <2>1 DEF Stores, Changed, pageVars, cpuVars
<1> HIDE DEF e, v
<1>7. cr3 # NONE => ~e.present
  <2> SUFFICES ASSUME cr3 # NONE PROVE ~e.present
    OBVIOUS
  <2>1. \A b \in call.i .. (call.size - 1) : UserRange(tables, UserFrames, b)
    BY <1>1 DEF IndInv, CallInv, UserCall
  <2>2. call.i \in call.i .. (call.size - 1)
    BY <1>4 DEF CallType
  <2>3. ~Whole(tables, call.pt, v)
    BY <2>1, <2>2 DEF UserRange, v
  <2> QED  BY <1>3, <1>5, <2>3 DEF Whole
<1>8. /\ TreeInv' /\ TablesTyped(tables') /\ DOMAIN tables' = DOMAIN tables
      /\ cr3 # NONE => UserFrames' \subseteq UserFrames
  <2>1. cr3 = NONE \/ ~e.present
    BY <1>7
  <2>2. /\ TreeInv' /\ TablesTyped(tables') /\ DOMAIN tables' = DOMAIN tables
        /\ UserFrames' \subseteq UserFrames \cup
             (IF cr3 # NONE /\ e.present THEN {e.addr} ELSE {})
    BY <1>1, <1>6, <2>1, StoredTree
  <2> QED  BY <1>7, <2>2
<1>9. ASSUME NEW pt \in roots, NEW va \in Nat
      PROVE  /\ HasLeaf(tables', pt, va) <=> HasLeaf(tables, pt, va)
             /\ HasLeaf(tables, pt, va) =>
                  E4(tables', pt, va) = IF E3(tables, pt, va).addr = cur /\ page_index(va, 4) = Index
                                        THEN e ELSE E4(tables, pt, va)
  BY <1>1, <1>6, StoredWay
<1>a. \A pt \in roots, va \in Nat : Whole(tables', pt, va) => Whole(tables, pt, va)
  <2> SUFFICES ASSUME NEW pt \in roots, NEW va \in Nat, Whole(tables', pt, va)
               PROVE  Whole(tables, pt, va)
    OBVIOUS
  <2>1. HasLeaf(tables, pt, va) /\ E4(tables', pt, va).present
    BY <1>9 DEF Whole
  <2>2. CASE E3(tables, pt, va).addr = cur /\ page_index(va, 4) = Index
    <3>1. E4(tables, pt, va) = tables[cur][Index]
      BY <2>2 DEF E4
    <3> QED  BY <1>5, <1>9, <2>1, <2>2, <3>1 DEF Whole
  <2>3. CASE ~(E3(tables, pt, va).addr = cur /\ page_index(va, 4) = Index)
    BY <1>9, <2>1, <2>3 DEF Whole
  <2> QED  BY <2>2, <2>3
<1>b. \A pt \in roots, va \in Nat : cr3 # NONE /\ Whole(tables, pt, va) =>
        Whole(tables', pt, va) /\ E4(tables', pt, va) = E4(tables, pt, va)
  <2> SUFFICES ASSUME NEW pt \in roots, NEW va \in Nat, cr3 # NONE, Whole(tables, pt, va)
               PROVE  Whole(tables', pt, va) /\ E4(tables', pt, va) = E4(tables, pt, va)
    OBVIOUS
  <2>1. HasLeaf(tables, pt, va) /\ E4(tables, pt, va).present
    BY DEF Whole
  <2>2. ~(E3(tables, pt, va).addr = cur /\ page_index(va, 4) = Index)
    <3> SUFFICES ASSUME E3(tables, pt, va).addr = cur /\ page_index(va, 4) = Index PROVE FALSE
      OBVIOUS
    <3>1. E4(tables, pt, va) = tables[cur][Index]
      BY DEF E4
    <3> QED  BY <1>5, <1>7, <2>1, <3>1
  <2> QED  BY <1>9, <2>1, <2>2 DEF Whole
<1>c. /\ call'.op = "map_flags" /\ call'.pt = call.pt /\ call'.va = call.va /\ call'.pa = call.pa
      /\ call'.size = call.size /\ call'.i = call.i /\ call'.flags = call.flags
      /\ call' \in CallType
  BY <1>1, <1>4 DEF CallType
<1>d. UNCHANGED <<usable, phase, avail, owned, roots, kernelPT, cr3, tlb, held, todo>>
  BY <1>1 DEF pageVars, cpuVars
<1>e. TypeOK'
  <2>1. /\ DOMAIN tables \subseteq Nat /\ held \subseteq Nat /\ avail \subseteq Nat
        /\ phase \in {"run", "halt"} /\ owned \subseteq usable
        /\ {kernelPT, cr3} \subseteq roots \cup {NONE} /\ roots \subseteq DOMAIN tables
    BY DEF IndInv, TypeOK
  <2> QED  BY <1>1, <1>3, <1>8, <1>c, <1>d, <2>1, TypedTablesNext
<1>f. PagesInv'
  BY <1>8, <1>d DEF IndInv, PagesInv
<1>g. StageInv'
  BY <1>1, <1>d DEF IndInv, StageInv
<1>h. TLBInv'
  <2>1. CASE cr3 = NONE
    <3>1. tlb' = {}
      BY <2>1, <1>d DEF IndInv, StageInv
    <3> QED  BY <3>1 DEF TLBInv
  <2>2. CASE cr3 # NONE
    <3>1. cr3 \in roots /\ VirtAddrs \subseteq Nat
      BY <2>2, PageTablesAssumption DEF IndInv, StageInv
    <3>2. \A va \in VirtAddrs : Whole(tables, cr3, va) =>
            /\ Whole(tables', cr3, va)
            /\ E4(tables', cr3, va).addr = E4(tables, cr3, va).addr
      BY <1>b, <2>2, <3>1
    <3>3. UNCHANGED <<tlb, cr3>> /\ pc # "invlpg"
      BY <1>1, <1>d
    <3> QED  BY <3>2, <3>3, KeepsTLB DEF IndInv
  <2> QED  BY <2>1, <2>2
<1>i. CallInv'
  <2>1. /\ HasLeaf(tables', call'.pt, call'.va + call'.i)
        /\ E4(tables', call'.pt, call'.va + call'.i).addr = PageOf(call'.pa + call'.i)
    BY <1>3, <1>5, <1>9, <1>c DEF v
  <2>2. cr3 = NONE => InitCall'
    BY <1>1, <1>c, <1>d DEF IndInv, CallInv, InitCall
  <2>3. cr3 # NONE => UserCall(tables, UserFrames)'
    <3> SUFFICES ASSUME cr3 # NONE PROVE UserCall(tables, UserFrames)'
      OBVIOUS
    <3>1. UserCall(tables, UserFrames)
      BY <1>1 DEF IndInv, CallInv
    <3>2. call.i \in Nat /\ call.size \in Nat /\ call.va \in Nat /\ PAGE_SIZE \in Nat \ {0}
      BY <1>4, PageTablesAssumption DEF CallType
    <3>3. \A b \in call.i .. (call.size - 1) : UserRange(tables, UserFrames, b)'
      <4> SUFFICES ASSUME NEW b \in call.i .. (call.size - 1)
                   PROVE  UserRange(tables, UserFrames, b)'
        OBVIOUS
      <4>1. UserRange(tables, UserFrames, b)
        BY <1>1, <3>1 DEF UserCall
      <4>2. call.va + b \in Nat
        BY <3>2
      <4> QED  BY <1>3, <1>8, <1>a, <1>c, <1>d, <4>1, <4>2 DEF UserRange
    <3>4. call.i \in call.i .. (call.size - 1)
      BY <1>4, <3>2
    <3>5. \A b \in (call.i + PAGE_SIZE) .. (call.size - 1) : b \in call.i .. (call.size - 1)
      BY <3>2
    <3> QED  BY <1>1, <1>c, <1>d, <3>1, <3>3, <3>4, <3>5 DEF UserCall
  <2>4. Reached(tables', call'.pt, call'.va + call'.i, level', cur')
    BY <1>1 DEF Reached
  <2> QED  BY <1>1, <1>3, <1>4, <1>c, <1>d, <2>1, <2>2, <2>3, <2>4 DEF CallInv
<1> QED  BY <1>8, <1>e, <1>f, <1>g, <1>h, <1>i DEF IndInv

LEMMA ClearEntryStep ==
  ASSUME IndInv, Halves, ClearEntry
  PROVE  IndInv'
<1> DEFINE v == call.va + call.i
           e == [tables[cur][Index] EXCEPT !.present = FALSE, !.addr = 0]
<1>1. /\ pc = "walk" /\ level = 4 /\ call.op = "unmap"
      /\ tables' = [tables EXCEPT ![cur][Index].present = FALSE, ![cur][Index].addr = 0]
      /\ pc' = "invlpg"
      /\ UNCHANGED <<pageVars, roots, kernelPT, cpuVars, held, todo, call, level, cur>>
  BY DEF ClearEntry
<1>2. PICK lev, own, low : Shape(tables, roots, kernelPT, held, lev, own, low)
  BY DEF IndInv, TreeInv
<1>3. /\ cur \in DOMAIN tables /\ Index \in Indexes /\ tables[cur][Index] \in EntryType
      /\ lev[cur] = 4
      /\ call.pt \in roots /\ v \in Nat /\ HasLeaf(tables, call.pt, v)
      /\ cr3 # NONE => low[cur]
  BY <1>1, <1>2, LeafReached
<1>4. cr3 # NONE /\ call \in CallType /\ call.i = 0
  BY <1>1 DEF IndInv, CallInv, InitCall, UserCall
<1>5. e \in EntryType /\ ~e.present
  BY <1>3 DEF EntryType
<1>6. Stores(e)
  <2>1. \A t \in DOMAIN tables : DOMAIN tables[t] = Indexes
    BY DEF IndInv, TypeOK
  <2> QED  BY <1>1, <1>3, <1>5, <2>1 DEF Stores, Changed, pageVars, cpuVars
<1> HIDE DEF e
<1>7. TreeInv' /\ TablesTyped(tables') /\ DOMAIN tables' = DOMAIN tables
  BY <1>1, <1>5, <1>6, StoredTree
<1>8. UNCHANGED <<usable, phase, avail, owned, roots, kernelPT, cr3, tlb, held, todo, call,
                  level, cur>>
  BY <1>1 DEF pageVars, cpuVars
<1>9. TypeOK'
  <2>1. /\ DOMAIN tables \subseteq Nat /\ held \subseteq Nat /\ avail \subseteq Nat
        /\ phase \in {"run", "halt"} /\ owned \subseteq usable
        /\ {kernelPT, cr3} \subseteq roots \cup {NONE} /\ roots \subseteq DOMAIN tables
        /\ call.op \in {"none", "map", "map_flags", "flags", "unmap"}
    BY DEF IndInv, TypeOK
  <2> QED  BY <1>1, <1>3, <1>7, <1>8, <2>1, TypedTablesNext
<1>a. PagesInv'
  BY <1>7, <1>8 DEF IndInv, PagesInv
<1>b. StageInv'
  BY <1>1, <1>4, <1>8 DEF IndInv, StageInv
<1>c. CallInv'
  BY <1>1, <1>4, <1>8 DEF CallInv
<1>d. TLBInv'
  <2> SUFFICES ASSUME NEW t \in tlb, NEW va \in VirtAddrs, t.page = PageOf(va)
               PROVE  \/ Whole(tables', cr3, va) /\ E4(tables', cr3, va).addr = t.frame
                      \/ PageOf(call.va) = t.page /\ t.frame \in owned
    BY <1>1, <1>8 DEF IndInv, TLBInv
  <2>1. Whole(tables, cr3, va) /\ E4(tables, cr3, va).addr = t.frame
    BY <1>1 DEF IndInv, TLBInv
  <2>2. cr3 \in roots /\ va \in Nat /\ IsLower(va)
    BY <1>4, PageTablesAssumption DEF IndInv, StageInv, Halves
  <2>3. HasLeaf(tables, cr3, va) /\ E4(tables, cr3, va).present
    BY <2>1 DEF Whole
  <2>4. CASE E3(tables, cr3, va).addr = cur /\ page_index(va, 4) = Index
    <3>1. PageOf(va) = PageOf(call.va + call.i)
      BY <1>1, <1>4, <2>2, <2>3, <2>4, OnePage
    <3>2. call.va + call.i = call.va
      BY <1>4 DEF CallType
    <3>3. E4(tables, cr3, va) = tables[cur][Index]
      BY <2>4 DEF E4
    <3>4. t.frame \in held
      BY <1>2, <1>3, <1>4, <2>1, <2>3, <3>3 DEF Shape, UserMaps
    <3> QED  BY <3>1, <3>2, <3>4 DEF IndInv, PagesInv
  <2>5. CASE ~(E3(tables, cr3, va).addr = cur /\ page_index(va, 4) = Index)
    <3>1. /\ HasLeaf(tables', cr3, va) <=> HasLeaf(tables, cr3, va)
          /\ HasLeaf(tables, cr3, va) =>
               E4(tables', cr3, va) = IF E3(tables, cr3, va).addr = cur /\ page_index(va, 4) = Index
                                      THEN e ELSE E4(tables, cr3, va)
      BY <1>1, <1>6, <2>2, StoredWay
    <3> QED  BY <2>1, <2>3, <2>5, <3>1 DEF Whole
  <2> QED  BY <2>4, <2>5
<1> QED  BY <1>7, <1>9, <1>a, <1>b, <1>c, <1>d DEF IndInv

\* Bytes a page apart lie in different pages.
LEMMA APageApart ==
  ASSUME NEW x \in Nat, NEW i \in Nat, NEW b \in Nat, b >= i + PAGE_SIZE
  PROVE  PageOf(x + b) # PageOf(x + i)
<1>1. PAGE_SIZE \in Nat \ {0}
  BY PageTablesAssumption
<1> DEFINE y == x + i
           z == x + b
           q == y \div PAGE_SIZE
<1>2. y \in Nat /\ z \in Nat /\ z >= y + PAGE_SIZE
  BY <1>1
<1> HIDE DEF y, z
<1>3. \A n \in Nat \ {0}, p \in Nat, r \in Nat : r >= p + n => r \div n # p \div n
  OBVIOUS
<1> QED  BY <1>1, <1>2, <1>3 DEF PageOf, y, z

LEMMA StoreFlagsStep ==
  ASSUME IndInv, StoreFlags
  PROVE  IndInv'
<1> DEFINE v == call.va + call.i
           e == [tables[cur][Index] EXCEPT !.present = "PRESENT" \in call.flags,
                                           !.rights = call.flags \ {"PRESENT"}]
           goesOn == call.op = "map_flags" /\ call.i + PAGE_SIZE < call.size
<1>1. /\ pc = "walk" /\ level = 4 /\ call.op \in {"map_flags", "flags"}
      /\ tables' = [tables EXCEPT ![cur][Index].present = "PRESENT" \in call.flags,
                                  ![cur][Index].rights = call.flags \ {"PRESENT"}]
      /\ UNCHANGED <<pageVars, roots, kernelPT, cpuVars, held, todo>>
  BY DEF StoreFlags
<1>2. /\ goesOn => /\ pc' = "walk" /\ level' = 1 /\ cur' = call'.pt
                   /\ call' = [call EXCEPT !.op = "map", !.i = @ + PAGE_SIZE]
      /\ ~goesOn => /\ pc' = IF cr3 = NONE THEN "init" ELSE "idle"
                    /\ call' = NoCall /\ level' = 1 /\ cur' = NONE
  BY DEF StoreFlags, StartWalk, Idle
<1>3. PICK lev, own, low : Shape(tables, roots, kernelPT, held, lev, own, low)
  BY DEF IndInv, TreeInv
<1>4. /\ cur \in DOMAIN tables /\ Index \in Indexes /\ tables[cur][Index] \in EntryType
      /\ call.pt \in roots /\ v \in Nat /\ HasLeaf(tables, call.pt, v)
      /\ cur = E3(tables, call.pt, v).addr /\ Index = page_index(v, 4)
      /\ tables[cur][Index] = E4(tables, call.pt, v)
  BY <1>1, <1>3, LeafReached
<1>5. /\ call \in CallType /\ call.i \in Nat /\ call.size \in Nat /\ call.va \in Nat
      /\ call.pa \in Nat /\ PAGE_SIZE \in Nat \ {0} /\ call.pt \in Nat
      /\ call.flags \in SUBSET {"PRESENT", "RW", "USER", "EXEC"}
  BY <1>1, PageTablesAssumption DEF IndInv, CallInv, CallType
<1>6. /\ e \in EntryType /\ e.addr = tables[cur][Index].addr
      /\ "PRESENT" \in call.flags => e.present
  <2>1. ("PRESENT" \in call.flags) \in BOOLEAN
    OBVIOUS
  <2>2. call.flags \ {"PRESENT"} \in SUBSET {"RW", "USER", "EXEC"}
    BY <1>5
  <2> DEFINE p == "PRESENT" \in call.flags
             r == call.flags \ {"PRESENT"}
             e2 == [tables[cur][Index] EXCEPT !.present = p, !.rights = r]
  <2> HIDE DEF p, r
  <2>3. /\ p \in BOOLEAN => (r \in SUBSET {"RW", "USER", "EXEC"} => e2 \in EntryType)
        /\ e2.addr = tables[cur][Index].addr /\ e2.present = p
    BY <1>4 DEF EntryType
  <2> QED  BY <2>1, <2>2, <2>3 DEF p, r
<1>7. Stores(e)
  <2>1. \A t \in DOMAIN tables : DOMAIN tables[t] = Indexes
    BY DEF IndInv, TypeOK
  <2>2. tables'[cur][Index] = e
    BY <1>1, <1>4, <2>1
  <2>3. Changed(tables, tables', cur, Index)
    BY <1>1, <1>4, <2>1 DEF Changed
  <2> QED  BY <1>1, <1>6, <2>2, <2>3 DEF Stores, cpuVars
<1> HIDE DEF e, v
<1>8. cr3 # NONE => /\ UserCall(tables, UserFrames) /\ e.present
                    /\ call.op = "flags" => tables[cur][Index].present
                    /\ call.op = "map_flags" => e.addr = PageOf(call.pa + call.i)
                                                /\ e.addr \in held \ UserFrames
  <2> SUFFICES ASSUME cr3 # NONE
               PROVE  /\ UserCall(tables, UserFrames) /\ e.present
                      /\ call.op = "flags" => tables[cur][Index].present
                      /\ call.op = "map_flags" => e.addr = PageOf(call.pa + call.i)
                                                  /\ e.addr \in held \ UserFrames
    OBVIOUS
  <2>1. UserCall(tables, UserFrames)
    BY <1>1 DEF IndInv, CallInv
  <2>2. e.present
    BY <1>1, <1>6, <2>1 DEF UserCall
  <2>3. ASSUME call.op = "flags" PROVE tables[cur][Index].present
    <3>1. call.va + call.i = call.va /\ Whole(tables, call.pt, call.va)
      BY <1>5, <2>1, <2>3 DEF UserCall
    <3> QED  BY <1>4, <3>1 DEF Whole, v
  <2>4. ASSUME call.op = "map_flags"
        PROVE  e.addr = PageOf(call.pa + call.i) /\ e.addr \in held \ UserFrames
    <3>1. E4(tables, call.pt, v).addr = PageOf(call.pa + call.i)
      BY <1>1, <2>4 DEF IndInv, CallInv, v
    <3>2. UserRange(tables, UserFrames, call.i)
      BY <2>1, <2>4 DEF UserCall
    <3> QED  BY <1>4, <1>6, <3>1, <3>2 DEF UserRange
  <2> QED  BY <2>1, <2>2, <2>3, <2>4
<1>9. /\ TreeInv' /\ TablesTyped(tables') /\ DOMAIN tables' = DOMAIN tables
      /\ cr3 # NONE => UserFrames' \subseteq UserFrames \cup {e.addr}
  <2>1. \/ cr3 = NONE
        \/ tables[cur][Index].present /\ e.addr = tables[cur][Index].addr
        \/ e.addr \in held \ UserFrames
    BY <1>1, <1>6, <1>8
  <2>2. /\ TreeInv' /\ TablesTyped(tables') /\ DOMAIN tables' = DOMAIN tables
        /\ UserFrames' \subseteq UserFrames \cup
             (IF cr3 # NONE /\ e.present THEN {e.addr} ELSE {})
    BY <1>1, <1>7, <2>1, StoredTree
  <2> QED  BY <1>8, <2>2
<1>a. ASSUME NEW pt \in roots, NEW va \in Nat
      PROVE  /\ HasLeaf(tables', pt, va) <=> HasLeaf(tables, pt, va)
             /\ HasLeaf(tables, pt, va) =>
                  E4(tables', pt, va) = IF E3(tables, pt, va).addr = cur /\ page_index(va, 4) = Index
                                        THEN e ELSE E4(tables, pt, va)
  BY <1>1, <1>7, StoredWay
<1>b. UNCHANGED <<usable, phase, avail, owned, roots, kernelPT, cr3, tlb, held, todo>>
  BY <1>1 DEF pageVars, cpuVars
<1>c. ASSUME goesOn
      PROVE  /\ call'.op = "map" /\ call'.pt = call.pt /\ call'.va = call.va /\ call'.pa = call.pa
             /\ call'.size = call.size /\ call'.i = call.i + PAGE_SIZE
             /\ call'.flags = call.flags /\ call' \in CallType /\ call'.i < call'.size
             /\ pc' = "walk" /\ level' = 1 /\ cur' = call.pt
  <2>1. /\ pc' = "walk" /\ level' = 1 /\ cur' = call'.pt /\ call.i + PAGE_SIZE < call.size
        /\ call' = [call EXCEPT !.op = "map", !.i = call.i + PAGE_SIZE]
    BY <1>2, <1>c
  <2>2. call.i + PAGE_SIZE \in Nat
    BY <1>5
  <2> HIDE DEF goesOn
  <2>3. /\ call'.op = "map" /\ call'.pt = call.pt /\ call'.va = call.va /\ call'.pa = call.pa
        /\ call'.size = call.size /\ call'.i = call.i + PAGE_SIZE /\ call'.flags = call.flags
        /\ call' \in CallType
    BY <1>5, <2>1, <2>2 DEF CallType
  <2> QED  BY <2>1, <2>3
<1> HIDE DEF goesOn
<1>d. TypeOK'
  <2>1. /\ DOMAIN tables \subseteq Nat /\ held \subseteq Nat /\ avail \subseteq Nat
        /\ phase \in {"run", "halt"} /\ owned \subseteq usable
        /\ {kernelPT, cr3} \subseteq roots \cup {NONE} /\ roots \subseteq DOMAIN tables
    BY DEF IndInv, TypeOK
  <2>2. /\ pc' \in {"boot", "init", "idle", "walk", "invlpg"} /\ level' = 1
        /\ call'.op \in {"none", "map", "map_flags", "flags", "unmap"}
        /\ cur' \in DOMAIN tables' \cup {NONE}
    <3>1. CASE goesOn
      BY <1>4, <1>9, <1>c, <2>1, <3>1
    <3>2. CASE ~goesOn
      BY <1>2, <3>2 DEF NoCall
    <3> QED  BY <3>1, <3>2
  <2> QED  BY <1>9, <1>b, <2>1, <2>2, TypedTablesNext
<1>e. PagesInv'
  BY <1>9, <1>b DEF IndInv, PagesInv
<1>f. StageInv'
  <2>1. CASE goesOn
    BY <1>1, <1>b, <1>c, <2>1 DEF IndInv, StageInv
  <2>2. CASE ~goesOn
    BY <1>1, <1>2, <1>b, <2>2 DEF IndInv, StageInv
  <2> QED  BY <2>1, <2>2
<1>g. TLBInv'
  <2>1. CASE cr3 = NONE
    <3>1. tlb' = {}
      BY <2>1, <1>b DEF IndInv, StageInv
    <3> QED  BY <3>1 DEF TLBInv
  <2>2. CASE cr3 # NONE
    <3>1. cr3 \in roots /\ VirtAddrs \subseteq Nat
      BY <2>2, PageTablesAssumption DEF IndInv, StageInv
    <3>2. ASSUME NEW va \in VirtAddrs, Whole(tables, cr3, va)
          PROVE  /\ Whole(tables', cr3, va)
                 /\ E4(tables', cr3, va).addr = E4(tables, cr3, va).addr
      <4>1. HasLeaf(tables, cr3, va) /\ E4(tables, cr3, va).present
        BY <3>2 DEF Whole
      <4>2. CASE E3(tables, cr3, va).addr = cur /\ page_index(va, 4) = Index
        <5>1. E4(tables, cr3, va) = tables[cur][Index]
          BY <4>2 DEF E4
        <5> QED  BY <1>6, <1>8, <1>a, <2>2, <3>1, <4>1, <4>2, <5>1 DEF Whole
      <4>3. CASE ~(E3(tables, cr3, va).addr = cur /\ page_index(va, 4) = Index)
        BY <1>a, <3>1, <4>1, <4>3 DEF Whole
      <4> QED  BY <4>2, <4>3
    <3>3. UNCHANGED <<tlb, cr3>> /\ pc # "invlpg"
      BY <1>1, <1>b
    <3> QED  BY <3>2, <3>3, KeepsTLB DEF IndInv
  <2> QED  BY <2>1, <2>2
<1>h. CASE ~goesOn
  <2>1. NoCall \in CallType
    BY DEF NoCall, CallType, NONE
  <2>2. CallInv'
    BY <1>2, <1>h, <2>1 DEF CallInv
  <2> QED  BY <1>9, <1>d, <1>e, <1>f, <1>g, <2>2 DEF IndInv
<1>i. CASE goesOn
  <2>1. cr3 = NONE => InitCall'
    <3> SUFFICES ASSUME cr3 = NONE PROVE InitCall'
      OBVIOUS
    <3>1. InitCall
      BY <1>1 DEF IndInv, CallInv
    <3>2. \A b \in (call.i + PAGE_SIZE) .. (call.size - 1) : b \in call.i .. (call.size - 1)
      BY <1>5
    <3> QED  BY <1>b, <1>c, <1>i, <3>1, <3>2 DEF InitCall
  <2>2. cr3 # NONE => UserCall(tables, UserFrames)'
    <3> SUFFICES ASSUME cr3 # NONE PROVE UserCall(tables, UserFrames)'
      OBVIOUS
    <3>1. call.op = "map_flags" /\ call.i + PAGE_SIZE < call.size
      BY <1>i DEF goesOn
    <3>2. /\ \A b \in (call.i + PAGE_SIZE) .. (call.size - 1) : UserRange(tables, UserFrames, b)
          /\ "PRESENT" \in call.flags
      BY <1>8, <3>1 DEF UserCall
    <3>3. ASSUME NEW b \in (call.i + PAGE_SIZE) .. (call.size - 1)
          PROVE  UserRange(tables, UserFrames, b)'
      <4>1. /\ IsLower(call.va + b) /\ ~Whole(tables, call.pt, call.va + b)
            /\ PageOf(call.pa + b) \in held \ UserFrames
        BY <3>2 DEF UserRange
      <4>2. b \in Nat /\ b >= call.i + PAGE_SIZE /\ call.va + b \in Nat
        BY <1>5
      <4>3. PageOf(call.pa + b) # PageOf(call.pa + call.i)
        BY <1>5, <4>2, APageApart
      <4>4. PageOf(call.va + b) # PageOf(call.va + call.i)
        BY <1>5, <4>2, APageApart
      <4>5. PageOf(call.pa + b) \in held \ UserFrames'
        BY <1>8, <1>9, <3>1, <4>1, <4>3
      <4>6. ~Whole(tables', call.pt, call.va + b)
        <5> SUFFICES ASSUME Whole(tables', call.pt, call.va + b) PROVE FALSE
          OBVIOUS
        <5>1. HasLeaf(tables, call.pt, call.va + b) /\ E4(tables', call.pt, call.va + b).present
          BY <1>4, <1>a, <4>2 DEF Whole
        <5>2. ~(E3(tables, call.pt, call.va + b).addr = cur /\ page_index(call.va + b, 4) = Index)
          BY <1>1, <1>4, <4>1, <4>2, <4>4, <5>1, OnePage
        <5>3. E4(tables', call.pt, call.va + b) = E4(tables, call.pt, call.va + b)
          BY <1>4, <1>a, <4>2, <5>1, <5>2
        <5> QED  BY <4>1, <5>1, <5>3 DEF Whole
      <4> QED  BY <1>b, <1>c, <1>i, <4>1, <4>5, <4>6 DEF UserRange
    <3>4. call'.i \in call'.i .. (call'.size - 1)
      BY <1>5, <1>c, <1>i
    <3>5. IsLower(call'.va + call'.i)
      BY <1>5, <1>c, <1>i, <3>2, <3>4 DEF UserRange
    <3> QED  BY <1>c, <1>i, <3>2, <3>3, <3>5 DEF UserCall
  <2>3. Reached(tables', call'.pt, call'.va + call'.i, level', cur')
    BY <1>c, <1>i DEF Reached
  <2>4. CallInv'
    BY <1>4, <1>b, <1>c, <1>i, <2>1, <2>2, <2>3 DEF CallInv
  <2> QED  BY <1>9, <1>d, <1>e, <1>f, <1>g, <2>4 DEF IndInv
<1> QED  BY <1>h, <1>i

-----------------------------------------------------------------------------
(***************************************************************************)
(* The inductive invariant, and the theorems.                              *)
(***************************************************************************)
LEMMA InitInv == Init => IndInv
<1> SUFFICES ASSUME Init PROVE IndInv
  OBVIOUS
<1> USE DEF Init
<1>1. TypeOK
  BY PageTablesAssumption DEF TypeOK, NoCall
<1>2. PagesInv
  BY DEF PagesInv
<1>3. TreeInv
  <2> DEFINE none == [f \in {} |-> 1]
  <2>1. DOMAIN tables = {}
    OBVIOUS
  <2>2. Shape(tables, roots, kernelPT, held, none, none, none)
    BY <2>1 DEF Shape, GhostTypes, EdgesDown, OneParent, HasParent, UpperEmpty, UserMaps
  <2> QED  BY <2>2 DEF TreeInv
<1>4. StageInv
  BY DEF StageInv
<1>5. CallInv
  BY DEF CallInv, CallType, NoCall, NONE
<1>6. TLBInv
  BY DEF TLBInv
<1> QED  BY <1>1, <1>2, <1>3, <1>4, <1>5, <1>6 DEF IndInv

LEMMA StutterStep == IndInv /\ UNCHANGED vars => IndInv'
<1> SUFFICES ASSUME IndInv, UNCHANGED vars PROVE IndInv'
  OBVIOUS
<1> USE DEF vars, pageVars, cpuVars
<1>1. TypeOK' /\ PagesInv' /\ StageInv'
  BY DEF IndInv, TypeOK, PagesInv, StageInv
<1>2. TreeInv' /\ UserFrames' = UserFrames
  BY KeepsTree DEF IndInv
<1>3. CallInv'
  BY <1>2 DEF IndInv, CallInv, InitCall, UserCall, UserRange
<1>4. TLBInv'
  BY DEF IndInv, TLBInv
<1> QED  BY <1>1, <1>2, <1>3, <1>4 DEF IndInv

LEMMA NextInv ==
  ASSUME Halves, IndInv, [Next]_vars
  PROVE  IndInv'
<1>1. CASE vmm_init
  BY <1>1, InitStep
<1>2. CASE vmm_init_range
  BY <1>2, InitRangeStep
<1>3. CASE vmm_init_switch
  BY <1>3, InitSwitchStep
<1>4. CASE Descend
  BY <1>4, DescendStep
<1>5. CASE AllocTable
  BY <1>5, AllocTableStep
<1>6. CASE OutOfMemory
  BY <1>6, PanicStep
<1>7. CASE StoreAddr
  BY <1>7, StoreAddrStep
<1>8. CASE StoreFlags
  BY <1>8, StoreFlagsStep
<1>9. CASE ClearEntry
  BY <1>9, ClearEntryStep
<1>a. CASE Invlpg
  BY <1>a, InvlpgStep
<1>b. CASE arch_vmm_new_pt
  BY <1>b, NewPTStep
<1>c. CASE \E pt \in roots \ {kernelPT, cr3} : arch_vmm_destroy_pt(pt)
  BY <1>c, DestroyStep
<1>d. CASE \E pt \in roots : arch_vmm_switch(pt)
  BY <1>d, SwitchStep
<1>e. CASE UserMap
  BY <1>e, MapStep
<1>f. CASE \E pt \in roots, va \in VirtAddrs : arch_vmm_unmap(pt, va)
  BY <1>f, UnmapStep
<1>g. CASE UserSetFlags
  BY <1>g, SetFlagsStep
<1>h. CASE \E va \in VirtAddrs : TLBFill(va)
  BY <1>h, FillStep
<1>i. CASE GetFrame
  BY <1>i, GetFrameStep
<1>j. CASE \E f \in held \ UserFrames : PutFrame(f)
  BY <1>j, PutFrameStep
<1>k. CASE Halted \/ UNCHANGED vars
  BY <1>k, StutterStep DEF Halted
<1> QED
  BY <1>1, <1>2, <1>3, <1>4, <1>5, <1>6, <1>7, <1>8, <1>9, <1>a, <1>b, <1>c, <1>d, <1>e,
     <1>f, <1>g, <1>h, <1>i, <1>j, <1>k DEF Next, Step

\* Frames become free by the steps that give them back only.
LEMMA NextFrees ==
  ASSUME IndInv, [Next]_vars
  PROVE  avail' \ avail \subseteq owned
<1>1. CASE \E pt \in roots \ {kernelPT, cr3} : arch_vmm_destroy_pt(pt)
  BY <1>1, DestroyStep
<1>2. CASE \E f \in held \ UserFrames : PutFrame(f)
  BY <1>2, PutFrameStep
<1>3. CASE vmm_init \/ arch_vmm_new_pt \/ AllocTable \/ GetFrame
  <2>1. \E f \in avail : PMM!Alloc(f, 1)
    BY <1>3 DEF vmm_init, arch_vmm_new_pt, AllocTable, GetFrame
  <2>2. avail \subseteq Nat
    BY DEF IndInv, TypeOK
  <2> QED  BY <2>1, <2>2, AllocOne
<1>4. CASE \/ vmm_init_range \/ vmm_init_switch \/ Descend \/ OutOfMemory \/ StoreAddr
           \/ StoreFlags \/ ClearEntry \/ Invlpg \/ Halted \/ UNCHANGED vars
  BY <1>4 DEF vmm_init_range, vmm_init_switch, Descend, OutOfMemory, PMM!AllocPanic, StoreAddr,
     StoreFlags, ClearEntry, Invlpg, Halted, vars, pageVars
<1>5. CASE \E pt \in roots : arch_vmm_switch(pt)
  BY <1>5 DEF arch_vmm_switch, pageVars
<1>6. CASE UserMap
  BY <1>6 DEF UserMap, vmm_map_range, pageVars
<1>7. CASE \E pt \in roots, va \in VirtAddrs : arch_vmm_unmap(pt, va)
  BY <1>7 DEF arch_vmm_unmap, pageVars
<1>8. CASE UserSetFlags
  BY <1>8 DEF UserSetFlags, arch_vmm_set_flags, pageVars
<1>9. CASE \E va \in VirtAddrs : TLBFill(va)
  BY <1>9 DEF TLBFill, pageVars
<1> QED
  BY <1>1, <1>2, <1>3, <1>4, <1>5, <1>6, <1>7, <1>8, <1>9 DEF Next, Step

\* The invariant of every state of vmm_init and of the calls after it.
THEOREM PageTablesInvariant == Halves => (Spec => []IndInv)
<1> SUFFICES ASSUME Halves PROVE Spec => []IndInv
  OBVIOUS
<1>1. IndInv /\ [Next]_vars => IndInv'
  BY NextInv
<1> QED  BY InitInv, <1>1, PTL DEF Spec

\* Tables, entries, the running call and the walk stay what the code takes
\* them for, at every step of page_from_index (mm.c).
THEOREM PageTablesTypes == Halves => (Spec => []TypeOK)
<1> SUFFICES ASSUME Halves PROVE Spec => []TypeOK
  OBVIOUS
<1>1. Spec => []IndInv
  BY PageTablesInvariant
<1>2. IndInv => TypeOK
  BY DEF IndInv
<1> QED  BY <1>1, <1>2, PTL

\* page_from_index, arch_vmm_new_pt and arch_vmm_destroy_pt keep the page
\* tables trees of their own and forget none of their tables.
THEOREM PageTablesAreTrees == Halves => (Spec => []TreeShaped)
<1> SUFFICES ASSUME Halves PROVE Spec => []TreeShaped
  OBVIOUS
<1>1. Spec => []IndInv
  BY PageTablesInvariant
<1>2. IndInv => TreeShaped
  BY InvTree DEF IndInv
<1> QED  BY <1>1, <1>2, PTL

\* arch_vmm_unmap flushes in time, arch_vmm_destroy_pt frees no frame of the
\* page table in use: no translation outlives its frame.
THEOREM NoTranslationDangles == Halves => (Spec => []TLBNeverDangles)
<1> SUFFICES ASSUME Halves PROVE Spec => []TLBNeverDangles
  OBVIOUS
<1>1. Spec => []IndInv
  BY PageTablesInvariant
<1>2. IndInv => TLBNeverDangles
  BY InvTLB DEF IndInv
<1> QED  BY <1>1, <1>2, PTL

\* What arch_vmm_destroy_pt and callers give back with pmm_free was allocated,
\* and is given back once.
THEOREM OnlyOwnedIsFreed == Halves => (Spec => FreesOnlyOwned)
<1> SUFFICES ASSUME Halves PROVE Spec => FreesOnlyOwned
  OBVIOUS
<1>1. Spec => []IndInv
  BY PageTablesInvariant
<1>2. IndInv /\ [Next]_vars => [avail' \ avail \subseteq owned]_vars
  BY NextFrees
<1> QED  BY <1>1, <1>2, PTL DEF Spec, FreesOnlyOwned

-----------------------------------------------------------------------------
(***************************************************************************)
(* What the CPU sees of every step.                                        *)
(***************************************************************************)

\* The ways to the entry that the walk reached.
LEMMA UsesEntry ==
  ASSUME IndInv, pc = "walk", level = 4, NEW pt \in roots, NEW va \in Nat
  PROVE  /\ HasLeaf(tables, pt, va) /\ E3(tables, pt, va).addr = cur /\ page_index(va, 4) = Index
         <=> pt = call.pt /\ SameIndexes(va, call.va + call.i)
<1> DEFINE v == call.va + call.i
<1>1. PICK lev, own, low : Shape(tables, roots, kernelPT, held, lev, own, low)
  BY DEF IndInv, TreeInv
<1>2. /\ GhostTypes(tables, roots, lev, own, low) /\ EdgesDown(tables, roots, lev, own, low)
      /\ OneParent(tables, lev)
  BY <1>1 DEF Shape
<1>3. /\ call.pt \in roots /\ v \in Nat /\ HasLeaf(tables, call.pt, v)
      /\ cur = E3(tables, call.pt, v).addr /\ Index = page_index(v, 4)
  BY <1>1, LeafReached
<1> HIDE DEF v
<1>4. ASSUME HasLeaf(tables, pt, va), E3(tables, pt, va).addr = cur, page_index(va, 4) = Index
      PROVE  pt = call.pt /\ SameIndexes(va, v)
  <2>1. pt = call.pt /\ \A l \in 1 .. 3 : page_index(va, l) = page_index(v, l)
    BY <1>2, <1>3, <1>4, SameLeaf
  <2>2. \A l \in 1 .. 4 : l \in 1 .. 3 \/ l = 4
    OBVIOUS
  <2> QED  BY <1>3, <1>4, <2>1, <2>2 DEF SameIndexes
<1>5. ASSUME pt = call.pt, SameIndexes(va, v)
      PROVE  HasLeaf(tables, pt, va) /\ E3(tables, pt, va).addr = cur /\ page_index(va, 4) = Index
  <2>1. /\ page_index(va, 1) = page_index(v, 1) /\ page_index(va, 2) = page_index(v, 2)
        /\ page_index(va, 3) = page_index(v, 3) /\ page_index(va, 4) = page_index(v, 4)
    BY <1>5 DEF SameIndexes
  <2> QED  BY <1>3, <1>5, <2>1 DEF HasLeaf, E1, E2, E3
<1> QED  BY <1>4, <1>5 DEF v

LEMMA StoredSeen ==
  ASSUME IndInv, pc = "walk", level = 4, NEW e, Stores(e), NEW pt \in roots, NEW va \in Nat
  PROVE  LET here == pt = call.pt /\ SameIndexes(va, call.va + call.i) IN
         /\ ~here => Seen(tables', pt, va) = Seen(tables, pt, va)
         /\ here /\ ~e.present => Seen(tables', pt, va) = {}
         /\ here /\ e.present =>
              Seen(tables', pt, va) = {[frame |-> e.addr, rights |-> e.rights]}
<1> DEFINE uses == /\ HasLeaf(tables, pt, va) /\ E3(tables, pt, va).addr = cur
                   /\ page_index(va, 4) = Index
<1>1. uses <=> pt = call.pt /\ SameIndexes(va, call.va + call.i)
  BY UsesEntry
<1>2. /\ HasLeaf(tables', pt, va) <=> HasLeaf(tables, pt, va)
      /\ HasLeaf(tables, pt, va) => E4(tables', pt, va) = IF uses THEN e ELSE E4(tables, pt, va)
  BY StoredWay
<1>3. CASE uses
  <2>1. HasLeaf(tables', pt, va) /\ E4(tables', pt, va) = e
    BY <1>2, <1>3
  <2>2. Whole(tables', pt, va) <=> e.present
    BY <2>1 DEF Whole
  <2>3. Seen(tables', pt, va) =
          IF e.present THEN {[frame |-> e.addr, rights |-> e.rights]} ELSE {}
    BY <2>1, <2>2 DEF Seen
  <2> HIDE DEF uses
  <2> QED  BY <1>1, <1>3, <2>3
<1>4. CASE ~uses
  <2>1. SameWay(tables, tables', pt, va)
    BY <1>2, <1>4 DEF SameWay, Whole
  <2>2. Seen(tables', pt, va) = Seen(tables, pt, va)
    BY <2>1, SameWaySeen
  <2> HIDE DEF uses
  <2> QED  BY <1>1, <1>4, <2>2
<1> QED  BY <1>3, <1>4

\* The entry that the walk reached, and what the CPU sees of it.
LEMMA LeafSeen ==
  ASSUME IndInv, pc = "walk", level = 4
  PROVE  /\ cur \in DOMAIN tables /\ Index \in Indexes /\ tables[cur][Index] \in EntryType
         /\ \A t \in DOMAIN tables : DOMAIN tables[t] = Indexes
         /\ call \in CallType /\ call.pt \in roots /\ call.va + call.i \in Nat
         /\ Seen(tables, call.pt, call.va + call.i) =
              IF tables[cur][Index].present
              THEN {[frame |-> tables[cur][Index].addr, rights |-> tables[cur][Index].rights]}
              ELSE {}
<1> DEFINE v == call.va + call.i
<1>1. PICK lev, own, low : Shape(tables, roots, kernelPT, held, lev, own, low)
  BY DEF IndInv, TreeInv
<1>2. /\ cur \in DOMAIN tables /\ Index \in Indexes /\ tables[cur][Index] \in EntryType
      /\ call.pt \in roots /\ v \in Nat /\ HasLeaf(tables, call.pt, v)
      /\ tables[cur][Index] = E4(tables, call.pt, v)
  BY <1>1, LeafReached
<1>3. \A t \in DOMAIN tables : DOMAIN tables[t] = Indexes
  BY DEF IndInv, TypeOK
<1>4. call \in CallType
  BY DEF IndInv, CallInv
<1>5. Seen(tables, call.pt, v) =
        IF tables[cur][Index].present
        THEN {[frame |-> tables[cur][Index].addr, rights |-> tables[cur][Index].rights]}
        ELSE {}
  BY <1>2 DEF Seen, Whole
<1> QED  BY <1>2, <1>3, <1>4, <1>5

\* What a call has asked for so far.
Asked == {[frame |-> PageOf(call.pa + call.i), rights |-> call.flags \ {"PRESENT"}]}

LEMMA StoreFlagsSeen ==
  ASSUME IndInv, StoreFlags, NEW pt \in roots, NEW va \in Nat
  PROVE  LET here == pt = call.pt /\ SameIndexes(va, call.va + call.i) IN
         /\ ~here => Seen(tables', pt, va) = Seen(tables, pt, va)
         /\ here /\ call.op = "map_flags" => Seen(tables', pt, va) = Asked
         /\ here /\ call.op = "flags" =>
              /\ Seen(tables, call.pt, call.va + call.i) =
                   {[frame |-> tables[cur][Index].addr, rights |-> tables[cur][Index].rights]}
              /\ Seen(tables', pt, va) =
                   {[frame |-> tables[cur][Index].addr, rights |-> call.flags \ {"PRESENT"}]}
<1> DEFINE v == call.va + call.i
           e == [tables[cur][Index] EXCEPT !.present = "PRESENT" \in call.flags,
                                           !.rights = call.flags \ {"PRESENT"}]
           here == pt = call.pt /\ SameIndexes(va, v)
<1>1. /\ pc = "walk" /\ level = 4 /\ call.op \in {"map_flags", "flags"}
      /\ tables' = [tables EXCEPT ![cur][Index].present = "PRESENT" \in call.flags,
                                  ![cur][Index].rights = call.flags \ {"PRESENT"}]
      /\ UNCHANGED <<roots, kernelPT, cpuVars, held>>
  BY DEF StoreFlags
<1>2. /\ cur \in DOMAIN tables /\ Index \in Indexes /\ tables[cur][Index] \in EntryType
      /\ \A t \in DOMAIN tables : DOMAIN tables[t] = Indexes
      /\ call \in CallType /\ call.pt \in roots /\ v \in Nat
      /\ Seen(tables, call.pt, v) =
           IF tables[cur][Index].present
           THEN {[frame |-> tables[cur][Index].addr, rights |-> tables[cur][Index].rights]}
           ELSE {}
  BY <1>1, LeafSeen
<1>3. "PRESENT" \in call.flags
  BY <1>1 DEF IndInv, CallInv, InitCall, UserCall
<1>4. /\ e \in EntryType /\ e.addr = tables[cur][Index].addr /\ e.present
      /\ e.rights = call.flags \ {"PRESENT"}
  <2>1. ("PRESENT" \in call.flags) \in BOOLEAN
    OBVIOUS
  <2>2. call.flags \ {"PRESENT"} \in SUBSET {"RW", "USER", "EXEC"}
    BY <1>2 DEF CallType
  <2> DEFINE p == "PRESENT" \in call.flags
             r == call.flags \ {"PRESENT"}
             e2 == [tables[cur][Index] EXCEPT !.present = p, !.rights = r]
  <2> HIDE DEF p, r
  <2>3. /\ p \in BOOLEAN => (r \in SUBSET {"RW", "USER", "EXEC"} => e2 \in EntryType)
        /\ e2.addr = tables[cur][Index].addr /\ e2.present = p /\ e2.rights = r
    BY <1>2 DEF EntryType
  <2>4. p
    BY <1>3 DEF p
  <2> QED  BY <2>1, <2>2, <2>3, <2>4 DEF p, r
<1>5. Stores(e)
  <2>1. tables'[cur][Index] = e
    BY <1>1, <1>2
  <2>2. Changed(tables, tables', cur, Index)
    BY <1>1, <1>2 DEF Changed
  <2> QED  BY <1>1, <1>4, <2>1, <2>2 DEF Stores, cpuVars
<1> HIDE DEF e
<1>6. /\ ~here => Seen(tables', pt, va) = Seen(tables, pt, va)
      /\ here => Seen(tables', pt, va) = {[frame |-> e.addr, rights |-> e.rights]}
  <2>1. pc = "walk" /\ level = 4 /\ e.present
    BY <1>1, <1>4
  <2> HIDE DEF StoreFlags
  <2> QED  BY <2>1, <1>5, StoredSeen
<1>7. call.op = "map_flags" => e.addr = PageOf(call.pa + call.i)
  <2>1. PICK lev, own, low : Shape(tables, roots, kernelPT, held, lev, own, low)
    BY DEF IndInv, TreeInv
  <2>2. tables[cur][Index] = E4(tables, call.pt, v)
    BY <1>1, <2>1, LeafReached
  <2> QED  BY <1>1, <1>4, <2>2 DEF IndInv, CallInv
<1>8. call.op = "flags" => tables[cur][Index].present
  <2> SUFFICES ASSUME call.op = "flags" PROVE tables[cur][Index].present
    OBVIOUS
  <2>1. Whole(tables, call.pt, call.va) /\ call.i = 0
    BY <1>1 DEF IndInv, CallInv, InitCall, UserCall
  <2>2. v = call.va
    BY <1>2, <2>1 DEF CallType
  <2>3. Seen(tables, call.pt, v) # {}
    BY <2>1, <2>2 DEF Seen
  <2> QED  BY <1>2, <2>3
<1> HIDE DEF v
<1> QED  BY <1>2, <1>4, <1>6, <1>7, <1>8 DEF Asked, v

LEMMA ClearEntrySeen ==
  ASSUME IndInv, ClearEntry, NEW pt \in roots, NEW va \in Nat
  PROVE  LET here == pt = call.pt /\ SameIndexes(va, call.va + call.i) IN
         /\ ~here => Seen(tables', pt, va) = Seen(tables, pt, va)
         /\ here => Seen(tables', pt, va) = {}
<1> DEFINE e == [tables[cur][Index] EXCEPT !.present = FALSE, !.addr = 0]
<1>1. /\ pc = "walk" /\ level = 4
      /\ tables' = [tables EXCEPT ![cur][Index].present = FALSE, ![cur][Index].addr = 0]
      /\ UNCHANGED <<roots, kernelPT, cpuVars, held>>
  BY DEF ClearEntry
<1>2. /\ cur \in DOMAIN tables /\ Index \in Indexes /\ tables[cur][Index] \in EntryType
      /\ \A t \in DOMAIN tables : DOMAIN tables[t] = Indexes
  BY <1>1, LeafSeen
<1>3. e \in EntryType /\ ~e.present
  BY <1>2 DEF EntryType
<1>4. Stores(e)
  BY <1>1, <1>2, <1>3 DEF Stores, Changed, cpuVars
<1> HIDE DEF e
<1> QED  BY <1>1, <1>3, <1>4, StoredSeen

\* The entries of a page are the same for all its addresses.
LEMMA SameIndexesSeen ==
  ASSUME NEW T, NEW pt, NEW va, NEW vb, SameIndexes(va, vb)
  PROVE  Seen(T, pt, va) = Seen(T, pt, vb)
<1>1. /\ page_index(va, 1) = page_index(vb, 1) /\ page_index(va, 2) = page_index(vb, 2)
      /\ page_index(va, 3) = page_index(vb, 3) /\ page_index(va, 4) = page_index(vb, 4)
  BY DEF SameIndexes
<1>2. /\ HasLeaf(T, pt, va) <=> HasLeaf(T, pt, vb)
      /\ E4(T, pt, va) = E4(T, pt, vb)
  BY <1>1 DEF HasLeaf, E1, E2, E3, E4
<1> QED  BY <1>2 DEF Seen, Whole

\* The running call of vmm_init is about a byte of the range that it has
\* started with last.
LEMMA RunningRange ==
  ASSUME IndInv, RangeInv, pc = "walk", cr3 = NONE
  PROVE  /\ Started \in DOMAIN InitRanges /\ call.pt = kernelPT
         /\ call.i \in 0 .. (InitRanges[Started].size - 1) /\ call.i % PAGE_SIZE = 0
         /\ call.va + call.i = InitRanges[Started].va + call.i
         /\ call.pa + call.i = InitRanges[Started].pa + call.i
         /\ call.size = InitRanges[Started].size
         /\ call.flags \ {"PRESENT"} = {"RW", "EXEC"}
         /\ Asked = {Mapping(Started, call.i)}
<1>1. /\ call \in CallType /\ InitCall
  BY DEF IndInv, CallInv
<1>2. /\ call.pt = kernelPT /\ call.flags = {"PRESENT", "RW", "EXEC"} /\ call.i < call.size
      /\ call.i \in Nat /\ call.size \in Nat
  BY <1>1 DEF InitCall, CallType
<1>3. /\ Started \in DOMAIN InitRanges
      /\ call.va = InitRanges[Started].va /\ call.pa = InitRanges[Started].pa
      /\ call.size = InitRanges[Started].size /\ call.i % PAGE_SIZE = 0
  BY DEF RangeInv, RangeCall
<1>4. call.flags \ {"PRESENT"} = {"RW", "EXEC"}
  BY <1>2
<1>5. Asked = {Mapping(Started, call.i)}
  BY <1>3, <1>4 DEF Asked, Mapping
<1>6. call.i \in 0 .. (call.size - 1)
  BY <1>2
<1> QED  BY <1>2, <1>3, <1>4, <1>5, <1>6

\* arch_vmm_map stores the frame before it sets the flags: that does not show,
\* neither where nothing is mapped nor where a range maps the same frame again.
LEMMA StoreAddrSeen ==
  ASSUME IndInv, RangeInv, StoreAddr, NEW pt \in roots, NEW va \in Nat
  PROVE  Seen(tables', pt, va) = Seen(tables, pt, va)
<1> DEFINE v == call.va + call.i
           e == [tables[cur][Index] EXCEPT !.addr = PageOf(call.pa + call.i)]
           here == pt = call.pt /\ SameIndexes(va, v)
<1>1. /\ pc = "walk" /\ level = 4 /\ call.op = "map"
      /\ tables' = [tables EXCEPT ![cur][Index].addr = PageOf(call.pa + call.i)]
      /\ UNCHANGED <<roots, kernelPT, cpuVars, held>>
  BY DEF StoreAddr
<1>2. /\ cur \in DOMAIN tables /\ Index \in Indexes /\ tables[cur][Index] \in EntryType
      /\ \A t \in DOMAIN tables : DOMAIN tables[t] = Indexes
      /\ call \in CallType /\ call.pt \in roots /\ v \in Nat
      /\ tables[cur][Index].present =>
           Seen(tables, call.pt, v) =
             {[frame |-> tables[cur][Index].addr, rights |-> tables[cur][Index].rights]}
      /\ ~tables[cur][Index].present => Seen(tables, call.pt, v) = {}
  BY <1>1, LeafSeen
<1>3. call.pa + call.i \in Nat
  BY <1>2 DEF CallType
<1>4. /\ e \in EntryType /\ e.present = tables[cur][Index].present
      /\ e.addr = PageOf(call.pa + call.i) /\ e.rights = tables[cur][Index].rights
  BY <1>2, <1>3, ShiftsType DEF EntryType
<1>5. Stores(e)
  BY <1>1, <1>2, <1>4 DEF Stores, Changed, cpuVars
<1> HIDE DEF e
<1>6. /\ ~here => Seen(tables', pt, va) = Seen(tables, pt, va)
      /\ here /\ ~e.present => Seen(tables', pt, va) = {}
      /\ here /\ e.present => Seen(tables', pt, va) = {[frame |-> e.addr, rights |-> e.rights]}
  <2>1. pc = "walk" /\ level = 4
    BY <1>1
  <2> HIDE DEF StoreAddr
  <2> QED  BY <2>1, <1>5, StoredSeen
<1>7. here => Seen(tables, pt, va) = Seen(tables, call.pt, v)
  BY SameIndexesSeen
<1>8. e.present => e.addr = tables[cur][Index].addr
  <2> SUFFICES ASSUME e.present PROVE e.addr = tables[cur][Index].addr
    OBVIOUS
  <2>1. Seen(tables, call.pt, v) =
          {[frame |-> tables[cur][Index].addr, rights |-> tables[cur][Index].rights]}
    BY <1>2, <1>4
  <2>2. cr3 = NONE
    <3> SUFFICES ASSUME cr3 # NONE PROVE FALSE
      OBVIOUS
    <3>1. \A b \in call.i .. (call.size - 1) : UserRange(tables, UserFrames, b)
      BY <1>1 DEF IndInv, CallInv, UserCall
    <3>2. call.i < call.size
      BY <1>1 DEF IndInv, CallInv
    <3>3. call.i \in call.i .. (call.size - 1)
      BY <1>2, <3>2 DEF CallType
    <3>4. ~Whole(tables, call.pt, v)
      BY <3>1, <3>3 DEF UserRange
    <3>5. Seen(tables, call.pt, v) = {}
      BY <3>4 DEF Seen
    <3> QED  BY <2>1, <3>5
  <2>3. /\ Started \in DOMAIN InitRanges /\ call.pt = kernelPT
        /\ call.i \in 0 .. (InitRanges[Started].size - 1)
        /\ v = InitRanges[Started].va + call.i
        /\ call.pa + call.i = InitRanges[Started].pa + call.i
    BY <1>1, <2>2, RunningRange
  <2>4. SeenAt(tables, Started, call.i) \subseteq {Mapping(Started, call.i)}
    BY <1>1, <2>3 DEF RangeInv, MappedRight
  <2>5. [frame |-> tables[cur][Index].addr, rights |-> tables[cur][Index].rights]
          = Mapping(Started, call.i)
    BY <2>1, <2>3, <2>4 DEF SeenAt
  <2> QED  BY <1>4, <2>3, <2>5 DEF Mapping
<1> HIDE DEF v
<1>9. CASE ~here
  BY <1>6, <1>9
<1>a. CASE here /\ ~e.present
  <2>1. Seen(tables, call.pt, v) = {}
    BY <1>2, <1>4, <1>a
  <2> QED  BY <1>6, <1>7, <1>a, <2>1
<1>b. CASE here /\ e.present
  <2>1. Seen(tables, call.pt, v) =
          {[frame |-> tables[cur][Index].addr, rights |-> tables[cur][Index].rights]}
    BY <1>2, <1>4, <1>b
  <2> QED  BY <1>4, <1>6, <1>7, <1>8, <1>b, <2>1
<1> QED  BY <1>9, <1>a, <1>b

\* Apart from the stores that set the flags or clear the entry no step changes
\* what the CPU sees of a page table.
LEMMA OthersSeen ==
  ASSUME IndInv, RangeInv, [Next]_vars, ~StoreFlags, ~ClearEntry,
         NEW pt \in roots, pt \in roots', NEW va \in Nat
  PROVE  Seen(tables', pt, va) = Seen(tables, pt, va)
<1>1. CASE StoreAddr
  BY <1>1, StoreAddrSeen
<1>2. CASE AllocTable
  BY <1>2, AllocTableWay, SameWaySeen
<1>3. CASE arch_vmm_new_pt
  BY <1>3, NewPTWay, SameWaySeen
<1>4. CASE \E qt \in roots \ {kernelPT, cr3} : arch_vmm_destroy_pt(qt)
  <2>1. PICK qt \in roots \ {kernelPT, cr3} : arch_vmm_destroy_pt(qt)
    BY <1>4
  <2>2. pt \in roots \ {qt}
    BY <2>1 DEF arch_vmm_destroy_pt
  <2> QED  BY <2>1, <2>2, DestroyWay, SameWaySeen
<1>5. CASE vmm_init
  BY <1>5 DEF vmm_init, IndInv, StageInv
<1>6. ASSUME UNCHANGED tables PROVE Seen(tables', pt, va) = Seen(tables, pt, va)
  BY <1>6
<1>7. CASE \/ vmm_init_range \/ vmm_init_switch \/ Descend \/ OutOfMemory \/ Invlpg \/ Halted
           \/ UNCHANGED vars
  BY <1>6, <1>7 DEF vmm_init_range, vmm_init_switch, Descend, OutOfMemory, Invlpg, Halted, vars
<1>8. CASE \E qt \in roots : arch_vmm_switch(qt)
  BY <1>6, <1>8 DEF arch_vmm_switch
<1>9. CASE UserMap
  BY <1>6, <1>9 DEF UserMap, vmm_map_range
<1>a. CASE \E qt \in roots, vb \in VirtAddrs : arch_vmm_unmap(qt, vb)
  BY <1>6, <1>a DEF arch_vmm_unmap
<1>b. CASE UserSetFlags
  BY <1>6, <1>b DEF UserSetFlags, arch_vmm_set_flags
<1>c. CASE \E vb \in VirtAddrs : TLBFill(vb)
  BY <1>6, <1>c DEF TLBFill
<1>d. CASE GetFrame
  BY <1>6, <1>d DEF GetFrame
<1>e. CASE \E f \in held \ UserFrames : PutFrame(f)
  BY <1>6, <1>e DEF PutFrame
<1> QED
  BY <1>1, <1>2, <1>3, <1>4, <1>5, <1>7, <1>8, <1>9, <1>a, <1>b, <1>c, <1>d, <1>e DEF Next, Step

-----------------------------------------------------------------------------
(***************************************************************************)
(* What vmm_init maps stays mapped.                                        *)
(***************************************************************************)
LEMMA RangesTyped ==
  ASSUME NEW k \in DOMAIN InitRanges
  PROVE  /\ InitRanges[k].pa \in Nat /\ InitRanges[k].va \in Nat /\ InitRanges[k].size \in Nat
         /\ DOMAIN InitRanges = 1 .. Len(InitRanges) /\ Len(InitRanges) \in Nat
<1>1. InitRanges[k] \in RangeType
  BY InitRangesType, ElementOf
<1>2. DOMAIN InitRanges = 1 .. Len(InitRanges) /\ Len(InitRanges) \in Nat
  BY InitRangesType
<1> QED  BY <1>1, <1>2 DEF RangeType

\* vmm_init walks to the upper half, other callers to the lower one.
LEMMA WalkHalf ==
  ASSUME IndInv, pc = "walk"
  PROVE  /\ call \in CallType /\ call.pt \in roots /\ call.va + call.i \in Nat
         /\ cr3 = NONE <=> page_index(call.va + call.i, 1) >= Half
<1>1. PICK lev, own, low : Shape(tables, roots, kernelPT, held, lev, own, low)
  BY DEF IndInv, TreeInv
<1>2. GhostTypes(tables, roots, lev, own, low) /\ EdgesDown(tables, roots, lev, own, low)
  BY <1>1 DEF Shape
<1> QED  BY <1>2, WalkFacts

\* A page of a range is changed by vmm_init only, to what it is to be.
LEMMA RangePageSeen ==
  ASSUME Halves, RangesAgree, IndInv, RangeInv, [Next]_vars, pc # "boot",
         kernelPT' = kernelPT, kernelPT \in roots',
         NEW k \in DOMAIN InitRanges, NEW b \in 0 .. (InitRanges[k].size - 1)
  PROVE  \/ SeenAt(tables', k, b) = SeenAt(tables, k, b)
         \/ SeenAt(tables', k, b) = {Mapping(k, b)}
<1> DEFINE va == InitRanges[k].va + b
           v == call.va + call.i
<1>1. va \in Nat /\ kernelPT \in roots
  BY RangesTyped DEF IndInv, StageInv
<1>2. page_index(va, 1) >= Half
  BY DEF Halves
<1>3. ASSUME pc = "walk", SameIndexes(va, v) PROVE cr3 = NONE
  <2>1. page_index(v, 1) = page_index(va, 1)
    BY <1>3 DEF SameIndexes
  <2> QED  BY <1>2, <1>3, <2>1, WalkHalf
<1>4. CASE ~StoreFlags /\ ~ClearEntry
  BY <1>1, <1>4, OthersSeen DEF SeenAt
<1>5. CASE ClearEntry
  <2>1. pc = "walk" /\ call.op = "unmap"
    BY <1>5 DEF ClearEntry
  <2>2. cr3 # NONE
    BY <2>1 DEF IndInv, CallInv, InitCall
  <2>3. ~SameIndexes(va, v)
    BY <1>3, <2>1, <2>2
  <2>4. Seen(tables', kernelPT, va) = Seen(tables, kernelPT, va)
    BY <1>1, <1>5, <2>3, ClearEntrySeen
  <2> QED  BY <2>4 DEF SeenAt
<1>6. CASE StoreFlags
  <2>1. pc = "walk" /\ call.op \in {"map_flags", "flags"}
    BY <1>6 DEF StoreFlags
  <2>2. CASE ~(kernelPT = call.pt /\ SameIndexes(va, v))
    <3>1. Seen(tables', kernelPT, va) = Seen(tables, kernelPT, va)
      BY <1>1, <1>6, <2>2, StoreFlagsSeen
    <3> QED  BY <3>1 DEF SeenAt
  <2>3. CASE kernelPT = call.pt /\ SameIndexes(va, v)
    <3>1. cr3 = NONE
      BY <1>3, <2>1, <2>3
    <3>2. /\ Started \in DOMAIN InitRanges
          /\ call.i \in 0 .. (InitRanges[Started].size - 1)
          /\ v = InitRanges[Started].va + call.i
          /\ Asked = {Mapping(Started, call.i)}
      BY <2>1, <3>1, RunningRange
    <3>3. call.op = "map_flags"
      BY <2>1, <3>1 DEF IndInv, CallInv, InitCall
    <3>4. Seen(tables', kernelPT, va) = Asked
      BY <1>1, <1>6, <2>3, <3>3, StoreFlagsSeen
    <3>5. PageOf(InitRanges[k].pa + b) = PageOf(InitRanges[Started].pa + call.i)
      BY <2>3, <3>2 DEF RangesAgree
    <3>6. Mapping(k, b) = Mapping(Started, call.i)
      BY <3>5 DEF Mapping
    <3> QED  BY <3>2, <3>4, <3>6 DEF SeenAt
  <2> QED  BY <2>2, <2>3
<1> QED  BY <1>4, <1>5, <1>6

\* Steps that do not go on with the ranges of vmm_init.
Quiet ==
  /\ UNCHANGED <<todo, kernelPT>>
  /\ \/ /\ UNCHANGED <<pc, cr3>>
        /\ call'.va = call.va /\ call'.pa = call.pa /\ call'.size = call.size /\ call'.i = call.i
     \/ cr3 # NONE /\ cr3' # NONE /\ pc # "boot" /\ pc' # "boot"

LEMMA StepKinds ==
  ASSUME IndInv, [Next]_vars
  PROVE  vmm_init \/ vmm_init_range \/ vmm_init_switch \/ StoreFlags \/ Quiet
<1> USE DEF cpuVars
<1>1. CASE \/ Descend \/ AllocTable \/ OutOfMemory \/ Halted \/ UNCHANGED vars
           \/ arch_vmm_new_pt \/ GetFrame
  BY <1>1 DEF Descend, AllocTable, OutOfMemory, Halted, vars, arch_vmm_new_pt, GetFrame, Quiet
<1>2. CASE \E vb \in VirtAddrs : TLBFill(vb)
  BY <1>2 DEF TLBFill, Quiet
<1>3. CASE \E f \in held \ UserFrames : PutFrame(f)
  BY <1>3 DEF PutFrame, Quiet
<1>4. CASE \E qt \in roots \ {kernelPT, cr3} : arch_vmm_destroy_pt(qt)
  BY <1>4 DEF arch_vmm_destroy_pt, Quiet
<1>5. CASE StoreAddr
  <2>1. /\ call' = [call EXCEPT !.op = "map_flags"] /\ pc' = pc
        /\ UNCHANGED <<kernelPT, cr3, todo>>
    BY <1>5 DEF StoreAddr, StartWalk
  <2>2. call \in CallType
    BY DEF IndInv, CallInv
  <2>3. call'.va = call.va /\ call'.pa = call.pa /\ call'.size = call.size /\ call'.i = call.i
    BY <2>1, <2>2 DEF CallType
  <2> QED  BY <2>1, <2>3 DEF Quiet
<1>6. CASE ClearEntry
  <2>1. pc = "walk" /\ call.op = "unmap" /\ pc' = "invlpg" /\ UNCHANGED <<kernelPT, cr3, todo>>
    BY <1>6 DEF ClearEntry
  <2>2. cr3 # NONE
    BY <2>1 DEF IndInv, CallInv, InitCall
  <2> QED  BY <2>1, <2>2 DEF Quiet
<1>7. CASE Invlpg
  <2>1. pc = "invlpg" /\ pc' # "boot" /\ UNCHANGED <<kernelPT, cr3, todo>>
    BY <1>7 DEF Invlpg, Idle
  <2> QED  BY <2>1 DEF Quiet, IndInv, StageInv
<1>8. CASE \E qt \in roots : arch_vmm_switch(qt)
  <2>1. PICK qt \in roots : arch_vmm_switch(qt)
    BY <1>8
  <2>2. qt # NONE
    BY <2>1, PageTablesAssumption DEF IndInv, TypeOK, PagesInv, NONE
  <2> QED  BY <2>1, <2>2 DEF arch_vmm_switch, Quiet, IndInv, StageInv
<1>9. ASSUME pc = "idle", pc' = "walk", UNCHANGED <<kernelPT, cr3, todo>> PROVE Quiet
  BY <1>9 DEF Quiet, IndInv, StageInv
<1>a. CASE UserMap
  BY <1>9, <1>a DEF UserMap, vmm_map_range, StartWalk
<1>b. CASE \E qt \in roots, vb \in VirtAddrs : arch_vmm_unmap(qt, vb)
  BY <1>9, <1>b DEF arch_vmm_unmap, StartWalk
<1>c. CASE UserSetFlags
  BY <1>9, <1>c DEF UserSetFlags, arch_vmm_set_flags, StartWalk
<1> QED
  BY <1>1, <1>2, <1>3, <1>4, <1>5, <1>6, <1>7, <1>8, <1>a, <1>b, <1>c DEF Next, Step

\* After an iteration of vmm_map_range comes the next one, or the call is over.
LEMMA StoreFlagsNext ==
  ASSUME IndInv, StoreFlags
  PROVE  /\ pc = "walk" /\ call.op \in {"map_flags", "flags"}
         /\ UNCHANGED <<roots, kernelPT, cr3, todo>>
         /\ \/ /\ call.op = "map_flags" /\ call.i + PAGE_SIZE < call.size
               /\ pc' = "walk" /\ call'.op = "map" /\ call'.pt = call.pt
               /\ call'.va = call.va /\ call'.pa = call.pa /\ call'.size = call.size
               /\ call'.i = call.i + PAGE_SIZE /\ call'.flags = call.flags
            \/ /\ call.op = "map_flags" => ~(call.i + PAGE_SIZE < call.size)
               /\ pc' = IF cr3 = NONE THEN "init" ELSE "idle"
<1>1. call \in CallType
  BY DEF IndInv, CallInv
<1>2. /\ pc = "walk" /\ call.op \in {"map_flags", "flags"}
      /\ UNCHANGED <<roots, kernelPT, cr3, todo>>
      /\ IF call.op = "map_flags" /\ call.i + PAGE_SIZE < call.size
         THEN pc' = "walk" /\ call' = [call EXCEPT !.op = "map", !.i = @ + PAGE_SIZE]
         ELSE pc' = IF cr3 = NONE THEN "init" ELSE "idle"
  BY DEF StoreFlags, StartWalk, Idle, cpuVars
<1>3. CASE call.op = "map_flags" /\ call.i + PAGE_SIZE < call.size
  <2>1. pc' = "walk" /\ call' = [call EXCEPT !.op = "map", !.i = @ + PAGE_SIZE]
    BY <1>2, <1>3
  <2>2. /\ call'.op = "map" /\ call'.pt = call.pt
        /\ call'.va = call.va /\ call'.pa = call.pa /\ call'.size = call.size
        /\ call'.i = call.i + PAGE_SIZE /\ call'.flags = call.flags
    BY <1>1, <2>1 DEF CallType
  <2> QED  BY <1>2, <1>3, <2>1, <2>2
<1>4. CASE ~(call.op = "map_flags" /\ call.i + PAGE_SIZE < call.size)
  BY <1>2, <1>4
<1> QED  BY <1>3, <1>4

\* The next multiple of the page size is a page size away.
LEMMA NextPage ==
  ASSUME NEW i \in Nat, NEW b \in Nat, i % PAGE_SIZE = 0
  PROVE  /\ (i + PAGE_SIZE) % PAGE_SIZE = 0
         /\ b % PAGE_SIZE = 0 /\ b < i + PAGE_SIZE => b <= i
<1>1. PAGE_SIZE \in Nat \ {0}
  BY PageTablesAssumption
<1> DEFINE n == PAGE_SIZE
<1>z. \A z \in Int : (n * z) % n = 0
  BY <1>1
<1>2. (i + n) % n = 0
  <2> DEFINE p == i \div n
  <2>1. i = n * p /\ p \in Int
    BY <1>1, ModIs
  <2> HIDE DEF p
  <2>2. i + n = n * (p + 1)
    BY <1>1, <2>1
  <2> QED  BY <1>z, <2>1, <2>2
<1>3. ASSUME b % n = 0, b < i + n, i < b PROVE FALSE
  <2>1. (b - i) % n = 0
    <3>1. i = n * (i \div n) /\ b = n * (b \div n) /\ i \div n \in Nat /\ b \div n \in Nat
      BY <1>1, <1>3
    <3> DEFINE p == i \div n
               q == b \div n
    <3> HIDE DEF p, q
    <3>2. b - i = n * (q - p)
      BY <1>1, <3>1 DEF p, q
    <3>4. q - p \in Int
      BY <3>1 DEF p, q
    <3> QED  BY <3>2, <1>z, <3>4
  <2>2. b - i \in Nat /\ b - i < n /\ b - i > 0
    BY <1>1, <1>3
  <2>3. (b - i) % n = b - i
    BY <1>1, <2>2, SmallMod
  <2> QED  BY <2>1, <2>2, <2>3
<1> QED  BY <1>1, <1>2, <1>3

\* From the start there is only vmm_init.
LEMMA BootStep ==
  ASSUME IndInv, [Next]_vars, pc = "boot", pc' # "boot"
  PROVE  vmm_init
BY StepKinds DEF vmm_init_range, vmm_init_switch, StoreFlags, Quiet

LEMMA KernelPTStays ==
  ASSUME Halves, IndInv, [Next]_vars, pc # "boot"
  PROVE  kernelPT' = kernelPT /\ kernelPT \in roots' /\ pc' # "boot"
<1>1. IndInv'
  BY NextInv
<1>2. vmm_init_range \/ vmm_init_switch \/ StoreFlags \/ Quiet
  BY StepKinds DEF vmm_init
<1>3. pc' # "boot" /\ kernelPT' = kernelPT
  <2>1. CASE vmm_init_range \/ vmm_init_switch
    BY <2>1 DEF vmm_init_range, vmm_init_switch, StartWalk
  <2>2. CASE StoreFlags
    BY <2>2, StoreFlagsNext
  <2>3. CASE Quiet
    BY <2>3 DEF Quiet
  <2> QED  BY <1>2, <2>1, <2>2, <2>3
<1> QED  BY <1>1, <1>3 DEF IndInv, StageInv

\* Byte b of range k, before and after a step.
LEMMA SeenAtNext ==
  ASSUME NEW k, NEW b
  PROVE  SeenAt(tables, k, b)' = Seen(tables', kernelPT', InitRanges[k].va + b)
BY DEF SeenAt

LEMMA RangePageNext ==
  ASSUME Halves, RangesAgree, IndInv, RangeInv, [Next]_vars, pc # "boot",
         NEW k \in DOMAIN InitRanges, NEW b \in 0 .. (InitRanges[k].size - 1)
  PROVE  \/ SeenAt(tables, k, b)' = SeenAt(tables, k, b)
         \/ SeenAt(tables, k, b)' = {Mapping(k, b)}
<1>1. kernelPT' = kernelPT /\ kernelPT \in roots'
  BY KernelPTStays
<1>2. \/ SeenAt(tables', k, b) = SeenAt(tables, k, b)
      \/ SeenAt(tables', k, b) = {Mapping(k, b)}
  BY <1>1, RangePageSeen
<1>3. SeenAt(tables, k, b)' = SeenAt(tables', k, b)
  BY <1>1, SeenAtNext DEF SeenAt
<1> QED  BY <1>2, <1>3

LEMMA MappedRightStep ==
  ASSUME Halves, RangesAgree, IndInv, RangeInv, [Next]_vars
  PROVE  MappedRight'
<1> SUFFICES ASSUME NEW k \in DOMAIN InitRanges, NEW b \in 0 .. (InitRanges[k].size - 1),
                    pc' # "boot"
             PROVE  SeenAt(tables, k, b)' \subseteq {Mapping(k, b)}
  BY DEF MappedRight
<1>1. CASE pc = "boot"
  <2>1. PICK f \in avail : tables' = NewTable(f) /\ kernelPT' = f
    BY <1>1, BootStep DEF vmm_init
  <2>2. InitRanges[k].va + b \in Nat
    BY RangesTyped
  <2>3. SeenAt(tables, k, b)' = {}
    BY <2>1, <2>2, NewRootSeen, SeenAtNext
  <2> QED  BY <2>3
<1>2. CASE pc # "boot"
  <2>1. SeenAt(tables, k, b) \subseteq {Mapping(k, b)}
    BY <1>2 DEF RangeInv, MappedRight
  <2> QED  BY <1>2, <2>1, RangePageNext
<1> QED  BY <1>1, <1>2

\* What is done stays so, and vmm_init adds the page that it has just mapped.
LEMMA DoneNext ==
  ASSUME IndInv, RangeInv, [Next]_vars, pc # "boot",
         NEW k \in DOMAIN InitRanges, NEW b \in 0 .. (InitRanges[k].size - 1),
         b % PAGE_SIZE = 0, Done(k, b)'
  PROVE  \/ Done(k, b)
         \/ StoreFlags /\ cr3 = NONE /\ k = Started /\ b = call.i
<1> USE DEF Done
<1>0. k \in Nat /\ Started \in Nat /\ b \in Nat /\ Len(todo) \in Nat /\ Len(InitRanges) \in Nat
  BY RangesTyped DEF RangeInv, TodoInv, IndInv, StageInv
<1>1. CASE vmm_init_range
  <2> DEFINE r == Head(todo)
  <2>1. pc = "init" /\ todo # << >> /\ todo' = Tail(todo) /\ cr3 = NONE /\ cr3' = cr3
    BY <1>1 DEF vmm_init_range, cpuVars, IndInv, StageInv
  <2>2. Started' = Started + 1 /\ r = todo[1] /\ 1 \in DOMAIN todo
    BY <2>1, <1>0 DEF Started, IndInv, StageInv
  <2>3. r = InitRanges[Started + 1]
    BY <2>1, <2>2 DEF RangeInv, TodoInv
  <2>4. CASE k = Started + 1
    <3>1. r.size # 0
      BY <2>3, <2>4, RangesTyped
    <3>2. pc' = "walk" /\ call'.i = 0
      BY <1>1, <3>1 DEF vmm_init_range, StartWalk
    <3>3. b < 0
      BY <2>1, <2>2, <2>4, <3>2
    <3> QED  BY <1>0, <3>3
  <2>5. CASE k # Started + 1
    BY <1>0, <2>1, <2>2, <2>5
  <2> QED  BY <2>4, <2>5
<1>2. CASE vmm_init_switch
  BY <1>2 DEF vmm_init_switch, Started
<1>3. CASE Quiet
  BY <1>3 DEF Quiet, Started
<1>4. CASE StoreFlags
  <2>1. pc = "walk" /\ UNCHANGED <<cr3, todo>> /\ Started' = Started
    BY <1>4, StoreFlagsNext DEF Started
  <2>2. CASE cr3 # NONE \/ k # Started
    BY <2>1, <2>2
  <2>3. CASE cr3 = NONE /\ k = Started
    <3>1. /\ call.i \in Nat /\ call.i % PAGE_SIZE = 0 /\ call.size = InitRanges[k].size
      BY <2>1, <2>3, RunningRange, RangesTyped
    <3>2. call.op = "map_flags"
      BY <2>1, <2>3, <1>4, StoreFlagsNext DEF IndInv, CallInv, InitCall
    <3>3. b < call.i + PAGE_SIZE
      <4>1. CASE pc' = "walk" /\ call'.i = call.i + PAGE_SIZE
        BY <2>1, <2>3, <4>1
      <4>2. CASE ~(call.i + PAGE_SIZE < call.size)
        <5>1. InitRanges[k].size \in Nat /\ PAGE_SIZE \in Nat
          BY RangesTyped, PageTablesAssumption
        <5>2. b <= InitRanges[k].size - 1
          OBVIOUS
        <5> QED  BY <3>1, <4>2, <5>1, <5>2, <1>0
      <4> QED  BY <1>4, <3>2, <4>1, <4>2, StoreFlagsNext
    <3>4. b <= call.i
      BY <1>0, <3>1, <3>3, NextPage
    <3> QED  BY <1>0, <1>4, <2>1, <2>3, <3>1, <3>4
  <2> QED  BY <2>2, <2>3
<1> QED  BY <1>1, <1>2, <1>3, <1>4, StepKinds DEF vmm_init

LEMMA MappedDoneStep ==
  ASSUME Halves, RangesAgree, IndInv, RangeInv, [Next]_vars
  PROVE  MappedDone'
<1> SUFFICES ASSUME NEW k \in DOMAIN InitRanges, NEW b \in 0 .. (InitRanges[k].size - 1),
                    b % PAGE_SIZE = 0, Done(k, b)'
             PROVE  SeenAt(tables, k, b)' # {}
  BY DEF MappedDone
<1>0. k \in Nat /\ k >= 1 /\ Len(InitRanges) \in Nat
  BY RangesTyped
<1>1. CASE pc = "boot"
  <2>1. vmm_init
    BY <1>1, BootStep DEF Done
  <2>2. todo' = InitRanges
    BY <2>1 DEF vmm_init
  <2>3. Started' = 0
    BY <1>0, <2>2 DEF Started
  <2> QED  BY <1>0, <2>3 DEF Done
<1>2. CASE pc # "boot"
  <2>1. CASE Done(k, b)
    <3>1. SeenAt(tables, k, b) # {}
      BY <2>1 DEF RangeInv, MappedDone
    <3> QED  BY <1>2, <3>1, RangePageNext
  <2>2. CASE StoreFlags /\ cr3 = NONE /\ k = Started /\ b = call.i
    <3>1. pc = "walk" /\ kernelPT' = kernelPT
      BY <2>2, StoreFlagsNext
    <3>2. /\ call.pt = kernelPT /\ Asked = {Mapping(k, b)}
          /\ call.va + call.i = InitRanges[k].va + b
      BY <2>2, <3>1, RunningRange
    <3>3. call.op = "map_flags" /\ kernelPT \in roots /\ call.va + call.i \in Nat
      BY <2>2, <3>1, StoreFlagsNext, WalkHalf DEF IndInv, CallInv, InitCall, StageInv
    <3>4. SameIndexes(InitRanges[k].va + b, call.va + call.i)
      BY <3>2 DEF SameIndexes
    <3>5. Seen(tables', kernelPT, InitRanges[k].va + b) = Asked
      BY <2>2, <3>2, <3>3, <3>4, StoreFlagsSeen
    <3> QED  BY <3>1, <3>2, <3>5, SeenAtNext
  <2> QED  BY <1>2, <2>1, <2>2, DoneNext
<1> QED  BY <1>1, <1>2

LEMMA TodoStep ==
  ASSUME IndInv, RangeInv, [Next]_vars
  PROVE  TodoInv'
<1> SUFFICES ASSUME pc' # "boot"
             PROVE  /\ Started' \in Nat
                    /\ \A n \in DOMAIN todo' : todo'[n] = InitRanges[Started' + n]
                    /\ cr3' # NONE => todo' = << >>
  BY DEF TodoInv
<1>0. InitRanges \in Seq(RangeType) /\ Len(InitRanges) \in Nat
  BY InitRangesType
<1>1. CASE pc = "boot"
  <2>1. todo' = InitRanges /\ cr3' = NONE
    BY <1>1, BootStep DEF vmm_init, cpuVars, IndInv, StageInv
  <2>2. Started' = 0
    BY <1>0, <2>1 DEF Started
  <2>3. \A n \in DOMAIN InitRanges : 0 + n = n
    BY <1>0
  <2> QED  BY <2>1, <2>2, <2>3
<1>2. CASE pc # "boot"
  <2>0. /\ Started \in Nat /\ \A n \in DOMAIN todo : todo[n] = InitRanges[Started + n]
        /\ cr3 # NONE => todo = << >>
        /\ todo \in Seq(RangeType)
    BY <1>2 DEF RangeInv, TodoInv, IndInv, StageInv, RangeType
  <2>1. ASSUME todo' = todo, cr3' # NONE => cr3 # NONE \/ todo = << >>
        PROVE  /\ Started' \in Nat
               /\ \A n \in DOMAIN todo' : todo'[n] = InitRanges[Started' + n]
               /\ cr3' # NONE => todo' = << >>
    BY <2>0, <2>1 DEF Started
  <2>2. CASE vmm_init_range
    <3>1. todo # << >> /\ todo' = Tail(todo) /\ cr3' = NONE
      BY <2>2 DEF vmm_init_range, cpuVars, IndInv, StageInv
    <3>2. /\ Len(todo') = Len(todo) - 1 /\ Len(todo) \in Nat
          /\ \A n \in DOMAIN todo' : /\ n \in Nat /\ n + 1 \in DOMAIN todo
                                     /\ todo'[n] = todo[n + 1]
      BY <2>0, <3>1
    <3>3. Started' = Started + 1
      BY <1>0, <3>2 DEF Started
    <3>4. ASSUME NEW n \in DOMAIN todo' PROVE todo'[n] = InitRanges[Started' + n]
      <4>1. todo'[n] = InitRanges[Started + (n + 1)]
        BY <2>0, <3>2
      <4>2. Started + (n + 1) = (Started + 1) + n
        BY <2>0, <3>2
      <4> QED  BY <3>3, <4>1, <4>2
    <3> QED  BY <2>0, <3>1, <3>3, <3>4
  <2>3. CASE vmm_init_switch
    BY <2>1, <2>3 DEF vmm_init_switch
  <2>4. CASE Quiet
    BY <2>1, <2>4 DEF Quiet
  <2>5. CASE StoreFlags
    BY <2>1, <2>5, StoreFlagsNext
  <2> QED  BY <1>2, <2>2, <2>3, <2>4, <2>5, StepKinds DEF vmm_init
<1> QED  BY <1>1, <1>2

LEMMA RangeCallStep ==
  ASSUME IndInv, RangeInv, [Next]_vars
  PROVE  RangeCall'
<1> SUFFICES ASSUME pc' = "walk", cr3' = NONE
             PROVE  /\ Started' \in DOMAIN InitRanges
                    /\ call'.va = InitRanges[Started'].va /\ call'.pa = InitRanges[Started'].pa
                    /\ call'.size = InitRanges[Started'].size /\ call'.i % PAGE_SIZE = 0
  BY DEF RangeCall
<1>1. CASE vmm_init
  BY <1>1 DEF vmm_init
<1>2. CASE vmm_init_range
  <2> DEFINE r == Head(todo)
  <2>1. pc = "init" /\ todo # << >> /\ todo' = Tail(todo)
    BY <1>2 DEF vmm_init_range
  <2>2. todo \in Seq(RangeType) /\ Len(InitRanges) \in Nat /\ Started \in Nat
    BY <2>1, InitRangesType DEF RangeInv, TodoInv, IndInv, StageInv, RangeType
  <2>3. /\ Len(todo') = Len(todo) - 1 /\ Len(todo) \in Nat /\ Len(todo) > 0
        /\ r = todo[1] /\ 1 \in DOMAIN todo
    BY <2>1, <2>2
  <2>4. Started' = Started + 1
    BY <2>2, <2>3 DEF Started
  <2>5. Started + 1 \in 1 .. Len(InitRanges)
    BY <2>2, <2>3 DEF Started
  <2>6. DOMAIN InitRanges = 1 .. Len(InitRanges)
    BY InitRangesType
  <2>7. r = InitRanges[Started']
    BY <2>1, <2>3, <2>4 DEF RangeInv, TodoInv
  <2>8. /\ call'.va = r.va /\ call'.pa = r.pa /\ call'.size = r.size /\ call'.i = 0
    BY <1>2, <2>1 DEF vmm_init_range, StartWalk
  <2>9. 0 % PAGE_SIZE = 0
    BY PageTablesAssumption
  <2> QED  BY <2>4, <2>5, <2>6, <2>7, <2>8, <2>9
<1>3. CASE vmm_init_switch
  BY <1>3 DEF vmm_init_switch
<1>4. CASE Quiet
  <2>1. /\ pc = "walk" /\ cr3 = NONE /\ Started' = Started
        /\ call'.va = call.va /\ call'.pa = call.pa /\ call'.size = call.size /\ call'.i = call.i
    BY <1>4 DEF Quiet, Started
  <2> QED  BY <2>1 DEF RangeInv, RangeCall
<1>5. CASE StoreFlags
  <2>1. /\ pc = "walk" /\ cr3 = NONE /\ Started' = Started
        /\ call'.va = call.va /\ call'.pa = call.pa /\ call'.size = call.size
        /\ call'.i = call.i + PAGE_SIZE
    BY <1>5, StoreFlagsNext DEF Started
  <2>2. call.i \in Nat
    BY DEF IndInv, CallInv, CallType
  <2>3. call'.i % PAGE_SIZE = 0
    BY <2>1, <2>2, NextPage DEF RangeInv, RangeCall
  <2> QED  BY <2>1, <2>3 DEF RangeInv, RangeCall
<1> QED  BY <1>1, <1>2, <1>3, <1>4, <1>5, StepKinds

LEMMA RangeNext ==
  ASSUME Halves, RangesAgree, IndInv, RangeInv, [Next]_vars
  PROVE  RangeInv'
BY MappedRightStep, MappedDoneStep, TodoStep, RangeCallStep DEF RangeInv

LEMMA InitRange == Init => RangeInv
BY DEF Init, RangeInv, TodoInv, RangeCall, MappedRight, MappedDone, Done

THEOREM RangesInvariant == Halves /\ RangesAgree => (Spec => [](IndInv /\ RangeInv))
<1> SUFFICES ASSUME Halves, RangesAgree PROVE Spec => [](IndInv /\ RangeInv)
  OBVIOUS
<1>1. IndInv /\ RangeInv /\ [Next]_vars => IndInv' /\ RangeInv'
  BY NextInv, RangeNext
<1> QED  BY InitInv, InitRange, <1>1, PTL DEF Spec

\* What the CPU sees says what the walk of the model finds.
LEMMA SeenLookup ==
  ASSUME IndInv, NEW pt \in roots, NEW va \in Nat, NEW x, Seen(tables, pt, va) = {x}
  PROVE  Lookup(pt, va) = [present |-> TRUE, addr |-> x.frame, rights |-> x.rights]
<1> DEFINE e == E4(tables, pt, va)
<1>1. Whole(tables, pt, va)
  BY DEF Seen
<1>2. e.present /\ e.addr = x.frame /\ e.rights = x.rights
  <2>1. [frame |-> e.addr, rights |-> e.rights] = x
    BY <1>1 DEF Seen
  <2> QED  BY <1>1, <2>1 DEF Whole
<1>3. e \in EntryType
  <2>1. PICK lev, own, low : Shape(tables, roots, kernelPT, held, lev, own, low)
    BY DEF IndInv, TreeInv
  <2>2. GhostTypes(tables, roots, lev, own, low) /\ EdgesDown(tables, roots, lev, own, low)
    BY <2>1 DEF Shape
  <2>3. Reached(tables, pt, va, 4, E3(tables, pt, va).addr)
    BY <1>1 DEF Reached, Whole
  <2>4. E3(tables, pt, va).addr \in DOMAIN tables
    BY <2>2, <2>3, ReachedFacts
  <2>5. page_index(va, 4) \in Indexes
    BY IndexType
  <2> QED  BY <2>4, <2>5 DEF E4, IndInv, TypeOK
<1>4. Lookup(pt, va) = e
  BY <1>1, LookupIs
<1> HIDE DEF e
<1>5. e = [present |-> TRUE, addr |-> x.frame, rights |-> x.rights]
  BY <1>2, <1>3 DEF EntryType
<1> QED  BY <1>4, <1>5

\* After vmm_init every byte of every range is mapped.
LEMMA RangesMapped ==
  ASSUME RangesAgree, RangesCovered, IndInv, RangeInv, cr3 # NONE,
         NEW k \in DOMAIN InitRanges, NEW b \in 0 .. (InitRanges[k].size - 1)
  PROVE  Lookup(kernelPT, InitRanges[k].va + b) =
           [present |-> TRUE, addr |-> PageOf(InitRanges[k].pa + b), rights |-> {"RW", "EXEC"}]
<1>1. pc # "boot" /\ kernelPT \in roots
  BY DEF IndInv, StageInv
<1>2. PICK i \in 0 .. (InitRanges[k].size - 1) :
        i % PAGE_SIZE = 0 /\ PageOf(InitRanges[k].va + i) = PageOf(InitRanges[k].va + b)
  BY DEF RangesCovered
<1>3. Done(k, i)
  <2>1. Started = Len(InitRanges) /\ k <= Len(InitRanges)
    <3>1. todo = << >> /\ Len(InitRanges) \in Nat /\ DOMAIN InitRanges = 1 .. Len(InitRanges)
      BY <1>1, RangesTyped DEF RangeInv, TodoInv
    <3> QED  BY <3>1 DEF Started
  <2> QED  BY <1>1, <2>1 DEF Done
<1>4. SeenAt(tables, k, i) = {Mapping(k, i)}
  <2>1. SeenAt(tables, k, i) \subseteq {Mapping(k, i)} /\ SeenAt(tables, k, i) # {}
    BY <1>1, <1>2, <1>3 DEF RangeInv, MappedRight, MappedDone
  <2> QED  BY <2>1
<1>5. SameIndexes(InitRanges[k].va + b, InitRanges[k].va + i)
  BY <1>2, SamePageIndexes
<1>6. Seen(tables, kernelPT, InitRanges[k].va + b) = SeenAt(tables, k, i)
  BY <1>5, SameIndexesSeen DEF SeenAt
<1>7. PageOf(InitRanges[k].pa + b) = PageOf(InitRanges[k].pa + i)
  BY <1>5 DEF RangesAgree
<1>8. InitRanges[k].va + b \in Nat
  BY RangesTyped
<1>9. Seen(tables, kernelPT, InitRanges[k].va + b) =
        {[frame |-> PageOf(InitRanges[k].pa + b), rights |-> {"RW", "EXEC"}]}
  BY <1>4, <1>6, <1>7 DEF Mapping
<1> DEFINE x == [frame |-> PageOf(InitRanges[k].pa + b), rights |-> {"RW", "EXEC"}]
           va == InitRanges[k].va + b
<1> HIDE DEF x, va
<1>a. Seen(tables, kernelPT, va) = {x} /\ va \in Nat
  BY <1>8, <1>9 DEF x, va
<1>b. Lookup(kernelPT, va) = [present |-> TRUE, addr |-> x.frame, rights |-> x.rights]
  BY <1>1, <1>a, SeenLookup
<1> QED  BY <1>b DEF x, va

\* The ranges of vmm_init leave out page 0 only.
LEMMA ShiftedBytes ==
  ASSUME NEW e \in [base : Nat, length : Nat], NEW pa \in e.base .. (e.base + e.length - 1),
         PageOf(pa) # 0
  PROVE  pa - Shifted(e).base \in 0 .. (Shifted(e).length - 1)
<1>1. e.base \in Nat /\ e.length \in Nat /\ PAGE_SIZE \in Nat \ {0} /\ pa \in Nat
  BY PageTablesAssumption
<1>2. pa >= PAGE_SIZE
  <2>1. \A x \in Nat, n \in Nat \ {0} : x < n => x \div n = 0
    OBVIOUS
  <2> QED  BY <1>1, <2>1 DEF PageOf
<1>3. CASE e.base # 0
  BY <1>1, <1>3 DEF Shifted
<1>4. CASE e.base = 0
  <2>1. e.length >= PAGE_SIZE
    BY <1>1, <1>2, <1>4
  <2>2. Shifted(e).base = PAGE_SIZE /\ Shifted(e).length = e.length - PAGE_SIZE
    BY <1>4, <2>1 DEF Shifted
  <2> QED  BY <1>1, <1>2, <1>4, <2>2
<1> QED  BY <1>3, <1>4

LEMMA RangesAre ==
  /\ \A k \in DOMAIN MemMap :
       /\ k \in DOMAIN InitRanges /\ MemMap[k] \in [base : Nat, length : Nat]
       /\ InitRanges[k] = [pa |-> Shifted(MemMap[k]).base, va |-> Shifted(MemMap[k]).base + HHDM,
                           size |-> Shifted(MemMap[k]).length]
  /\ Len(InitRanges) \in DOMAIN InitRanges /\ InitRanges[Len(InitRanges)] = Kernel
<1> DEFINE r(k) == LET e == Shifted(MemMap[k])
                   IN  [pa |-> e.base, va |-> e.base + HHDM, size |-> e.length]
           s == [k \in DOMAIN MemMap |-> r(k)]
<1>1. \A k \in DOMAIN MemMap : MemMap[k] \in [base : Nat, length : Nat]
  <2>1. MemMap \in Seq([base : Nat, length : Nat])
    BY PageTablesAssumption
  <2> DEFINE E == [base : Nat, length : Nat]
  <2> HIDE DEF E
  <2> QED  BY <2>1, ElementOf DEF E
<1>2. DOMAIN MemMap = 1 .. Len(MemMap) /\ Len(MemMap) \in Nat
  BY PageTablesAssumption
<1>3. s \in Seq({r(k) : k \in DOMAIN MemMap}) /\ Len(s) = Len(MemMap)
  <2> HIDE DEF r
  <2>1. s \in [1 .. Len(MemMap) -> {r(k) : k \in DOMAIN MemMap}]
    BY <1>2
  <2> QED  BY <1>2, <2>1
<1>4. InitRanges = s \o << Kernel >>
  BY DEF InitRanges
<1> HIDE DEF r
<1>5. \A k \in DOMAIN MemMap : s[k] = r(k)
  OBVIOUS
<1> HIDE DEF s
<1>6. Len(InitRanges) = Len(MemMap) + 1 /\ DOMAIN InitRanges = 1 .. (Len(MemMap) + 1)
  BY <1>2, <1>3, <1>4
<1>7. InitRanges[Len(MemMap) + 1] = Kernel
  BY <1>2, <1>3, <1>4
<1>8. \A k \in DOMAIN MemMap : k \in DOMAIN InitRanges /\ InitRanges[k] = s[k]
  BY <1>2, <1>3, <1>4, <1>6
<1>9. \A k \in DOMAIN MemMap : InitRanges[k] = r(k)
  BY <1>5, <1>8
<1>a. Len(InitRanges) \in DOMAIN InitRanges /\ InitRanges[Len(InitRanges)] = Kernel
  BY <1>2, <1>6, <1>7
<1> QED  BY <1>1, <1>8, <1>9, <1>a DEF r

LEMMA InvKernelMapped ==
  ASSUME RangesAgree, RangesCovered, IndInv, RangeInv
  PROVE  KernelMapped
<1> SUFFICES ASSUME cr3 # NONE
             PROVE
             /\ \A k \in DOMAIN MemMap :
                  \A pa \in MemMap[k].base .. (MemMap[k].base + MemMap[k].length - 1) :
                    PageOf(pa) # 0 => Lookup(kernelPT, pa + HHDM) =
                      [present |-> TRUE, addr |-> PageOf(pa), rights |-> {"RW", "EXEC"}]
             /\ \A b \in 0 .. (Kernel.size - 1) : Lookup(kernelPT, Kernel.va + b) =
                  [present |-> TRUE, addr |-> PageOf(Kernel.pa + b), rights |-> {"RW", "EXEC"}]
  BY DEF KernelMapped
<1>1. ASSUME NEW k \in DOMAIN MemMap,
             NEW pa \in MemMap[k].base .. (MemMap[k].base + MemMap[k].length - 1),
             PageOf(pa) # 0
      PROVE  Lookup(kernelPT, pa + HHDM) =
               [present |-> TRUE, addr |-> PageOf(pa), rights |-> {"RW", "EXEC"}]
  <2> DEFINE base == Shifted(MemMap[k]).base
             b == pa - base
  <2>1. /\ k \in DOMAIN InitRanges /\ MemMap[k] \in [base : Nat, length : Nat]
        /\ InitRanges[k].pa = base /\ InitRanges[k].va = base + HHDM
        /\ InitRanges[k].size = Shifted(MemMap[k]).length
    <3>1. /\ k \in DOMAIN InitRanges /\ MemMap[k] \in [base : Nat, length : Nat]
          /\ InitRanges[k] = [pa |-> base, va |-> base + HHDM,
                               size |-> Shifted(MemMap[k]).length]
      BY RangesAre
    <3> HIDE DEF base
    <3> QED  BY <3>1
  <2>2. b \in 0 .. (InitRanges[k].size - 1)
    BY <1>1, <2>1, ShiftedBytes
  <2>3. base \in Nat /\ HHDM \in Nat /\ pa \in Int
    BY <2>1, RangesTyped, PageTablesAssumption
  <2>4. base + b = pa /\ (base + HHDM) + b = pa + HHDM
    <3> HIDE DEF base
    <3> QED  BY <2>3
  <2> HIDE DEF base, b
  <2> QED  BY <2>1, <2>2, <2>4, RangesMapped
<1>2. ASSUME NEW b \in 0 .. (Kernel.size - 1)
      PROVE  Lookup(kernelPT, Kernel.va + b) =
               [present |-> TRUE, addr |-> PageOf(Kernel.pa + b), rights |-> {"RW", "EXEC"}]
  BY RangesAre, RangesMapped
<1> QED  BY <1>1, <1>2

\* A range that begins on a page is covered, and the ranges that begin so are
\* those of the boot protocol.
LEMMA AlignedCovered ==
  ASSUME \A k \in DOMAIN InitRanges : InitRanges[k].va % PAGE_SIZE = 0
  PROVE  RangesCovered
<1> SUFFICES ASSUME NEW k \in DOMAIN InitRanges, NEW b \in 0 .. (InitRanges[k].size - 1)
             PROVE  \E i \in 0 .. (InitRanges[k].size - 1) :
                      /\ i % PAGE_SIZE = 0
                      /\ PageOf(InitRanges[k].va + i) = PageOf(InitRanges[k].va + b)
  BY DEF RangesCovered
<1> DEFINE n == PAGE_SIZE
           va == InitRanges[k].va
           p == va \div n
           q == b \div n
<1>1. n \in Nat \ {0} /\ va \in Nat /\ b \in Nat /\ InitRanges[k].size \in Nat
  BY RangesTyped, PageTablesAssumption
<1>2. p \in Nat /\ q \in Nat /\ va = n * p
  <2>1. va % n = 0
    OBVIOUS
  <2>2. va % n = va - n * (va \div n)
    BY <1>1, ModIs
  <2> QED  BY <1>1, <2>1, <2>2
<1>3. b % n = b - n * q /\ b % n \in 0 .. (n - 1)
  <2>1. \A x \in Nat : x % n \in 0 .. (n - 1)
    BY <1>1
  <2> QED  BY <1>1, <2>1, ModIs
<1> DEFINE r == b % n
<1> HIDE DEF p, q, r
<1>4. b = n * q + r /\ r \in 0 .. (n - 1) /\ n * q \in Nat
  BY <1>1, <1>2, <1>3 DEF r
<1>5. \A z \in Nat, x \in 0 .. (n - 1) : (n * z) % n = 0 /\ (n * z + x) \div n = z
  BY <1>1
<1>6. va + n * q = n * (p + q) + 0 /\ va + b = n * (p + q) + r
  BY <1>1, <1>2, <1>4
<1>7. PageOf(va + n * q) = p + q /\ PageOf(va + b) = p + q
  BY <1>1, <1>2, <1>4, <1>5, <1>6 DEF PageOf
<1>8. n * q \in 0 .. (InitRanges[k].size - 1) /\ (n * q) % n = 0
  <2>1. n * q \in Nat /\ n * q <= b /\ b <= InitRanges[k].size - 1
    BY <1>1, <1>4
  <2>2. (n * q) % n = 0
    BY <1>1, <1>2, <1>5
  <2> QED  BY <1>1, <2>1, <2>2
<1> QED  BY <1>7, <1>8

\* vmm_init maps all of the memory map at the HHDM offset and all of the
\* kernel, and no later arch_vmm_map, arch_vmm_unmap or arch_vmm_set_flags
\* disturbs that.
THEOREM KernelStaysMapped ==
  Halves /\ RangesAgree /\ RangesCovered => (Spec => []KernelMapped)
<1> SUFFICES ASSUME Halves, RangesAgree, RangesCovered PROVE Spec => []KernelMapped
  OBVIOUS
<1>1. Spec => [](IndInv /\ RangeInv)
  BY RangesInvariant
<1>2. IndInv /\ RangeInv => KernelMapped
  BY InvKernelMapped
<1> QED  BY <1>1, <1>2, PTL

-----------------------------------------------------------------------------
(***************************************************************************)
(* The page tables implement AddressSpace.                                 *)
(***************************************************************************)
SpacesOf(T, R) == [pt \in R |-> [v \in WatchedPages |-> Seen(T, pt, v * PAGE_SIZE)]]

LEMMA BarIs ==
  /\ [pt \in roots |-> [v \in WatchedPages |-> Translation(pt, v * PAGE_SIZE)]]
       = SpacesOf(tables, roots)
  /\ [pt \in roots |-> [v \in WatchedPages |-> Translation(pt, v * PAGE_SIZE)]]'
       = SpacesOf(tables', roots')
<1>1. \A pt, va : Translation(pt, va) = Seen(tables, pt, va)
  BY TranslationIs
<1>2. \A pt, va : Translation(pt, va)' = Seen(tables', pt, va)
  BY TranslationIs
<1> QED  BY <1>1, <1>2 DEF SpacesOf

\* The CPU sees the same in the page tables R.
SameSeen(T, T2, R) ==
  \A pt \in R : \A v \in WatchedPages :
    Seen(T2, pt, v * PAGE_SIZE) = Seen(T, pt, v * PAGE_SIZE)

LEMMA SameSpaces ==
  ASSUME NEW T, NEW T2, NEW R, SameSeen(T, T2, R)
  PROVE  SpacesOf(T2, R) = SpacesOf(T, R)
BY DEF SameSeen, SpacesOf

LEMMA Stutters ==
  ASSUME roots' = roots, cr3' = cr3, JobBar' = JobBar, SameSeen(tables, tables', roots)
  PROVE  UNCHANGED Spaces!spaceVars
<1>1. SpacesOf(tables', roots') = SpacesOf(tables, roots)
  BY SameSpaces
<1> QED  BY <1>1, BarIs DEF Spaces!spaceVars

LEMMA Creates ==
  ASSUME NEW f, f \notin roots, roots' = roots \cup {f}, cr3' = cr3, JobBar' = JobBar,
         SameSeen(tables, tables', roots),
         \A v \in WatchedPages : Seen(tables', f, v * PAGE_SIZE) = {}
  PROVE  Spaces!SpaceNext
<1>1. SpacesOf(tables', roots') =
        [r \in roots' |-> IF r = f THEN [v \in WatchedPages |-> {}]
                          ELSE SpacesOf(tables, roots)[r]]
  BY DEF SpacesOf, SameSeen
<1>2. Spaces!Create(f)
  BY <1>1, BarIs DEF Spaces!Create
<1> QED  BY <1>2 DEF Spaces!SpaceNext

LEMMA Destroys ==
  ASSUME NEW f \in roots, f # cr3, roots' = roots \ {f}, cr3' = cr3, JobBar' = JobBar,
         SameSeen(tables, tables', roots')
  PROVE  Spaces!SpaceNext
<1>1. SpacesOf(tables', roots') = [r \in roots' |-> SpacesOf(tables, roots)[r]]
  BY DEF SpacesOf, SameSeen
<1>2. Spaces!Destroy(f)
  BY <1>1, BarIs DEF Spaces!Destroy
<1> QED  BY <1>2 DEF Spaces!SpaceNext

LEMMA Switches ==
  ASSUME cr3' \in roots, roots' = roots, JobBar' = JobBar, tables' = tables
  PROVE  Spaces!SpaceNext
<1>1. Spaces!Switch(cr3')
  BY BarIs DEF Spaces!Switch
<1> QED  BY <1>1 DEF Spaces!SpaceNext

LEMMA JobIs ==
  /\ pc # "walk" => JobBar = Spaces!NoJob
  /\ pc = "walk" => /\ JobBar.op = IF call.op = "map_flags" THEN "map" ELSE call.op
                    /\ JobBar.space = call.pt /\ JobBar.page = PageOf(call.va + call.i)
                    /\ JobBar.to = Asked
BY DEF JobBar, Spaces!NoJob, Asked

LEMMA JobIsNext ==
  /\ pc' # "walk" => JobBar' = Spaces!NoJob
  /\ pc' = "walk" => /\ JobBar'.op = IF call'.op = "map_flags" THEN "map" ELSE call'.op
                     /\ JobBar'.space = call'.pt /\ JobBar'.page = PageOf(call'.va + call'.i)
BY DEF JobBar, Spaces!NoJob

LEMMA Asks ==
  ASSUME pc # "walk", pc' = "walk", call'.pt \in roots, roots' = roots, cr3' = cr3,
         tables' = tables
  PROVE  Spaces!SpaceNext
<1>1. Spaces!Ask
  BY BarIs, JobIs, JobIsNext DEF Spaces!Ask
<1> QED  BY <1>1 DEF Spaces!SpaceNext

\* A watched page is one of the lower half, where callers map, or of a range
\* of vmm_init.
LEMMA WatchedKinds ==
  ASSUME Halves, NEW v \in WatchedPages
  PROVE  /\ v \in Nat /\ v * PAGE_SIZE \in Nat /\ PageOf(v * PAGE_SIZE) = v
         /\ \/ IsLower(v * PAGE_SIZE)
            \/ \E k \in DOMAIN InitRanges : \E b \in 0 .. (InitRanges[k].size - 1) :
                 PageOf(InitRanges[k].va + b) = v
<1>1. PAGE_SIZE \in Nat \ {0} /\ VirtAddrs \subseteq Nat
  BY PageTablesAssumption
<1>2. \A x \in Nat : x * PAGE_SIZE \in Nat /\ PageOf(x * PAGE_SIZE) = x
  BY <1>1 DEF PageOf
<1>3. CASE \E va \in VirtAddrs : v = PageOf(va)
  <2>1. PICK va \in VirtAddrs : v = PageOf(va)
    BY <1>3
  <2>2. v \in Nat /\ IsLower(va)
    BY <1>1, <2>1, ShiftsType DEF Halves
  <2>3. PageOf(v * PAGE_SIZE) = PageOf(va)
    BY <1>2, <2>1, <2>2
  <2>4. IsLower(v * PAGE_SIZE)
    BY <2>2, <2>3 DEF IsLower, Shifts
  <2> QED  BY <1>2, <2>2, <2>4
<1>4. CASE \E k \in DOMAIN InitRanges :
             /\ InitRanges[k].size # 0
             /\ v \in PageOf(InitRanges[k].va) .. PageOf(InitRanges[k].va + InitRanges[k].size - 1)
  <2>1. PICK k \in DOMAIN InitRanges :
             /\ InitRanges[k].size # 0
             /\ v \in PageOf(InitRanges[k].va) .. PageOf(InitRanges[k].va + InitRanges[k].size - 1)
    BY <1>4
  <2> DEFINE va == InitRanges[k].va
             n == InitRanges[k].size
             last == va + n - 1
  <2>2. va \in Nat /\ n \in Nat /\ n # 0 /\ last \in Nat
    BY <2>1, RangesTyped
  <2> HIDE DEF va, n
  <2>3. PageOf(va) \in Nat /\ PageOf(last) \in Nat /\ v \in PageOf(va) .. PageOf(last)
    BY <2>1, <2>2, ShiftsType DEF va, n
  <2>4. v \in Nat
    BY <2>3
  <2>5. \E b \in 0 .. (n - 1) : PageOf(va + b) = v
    <3>1. CASE v = PageOf(va)
      <4>1. 0 \in 0 .. (n - 1) /\ va + 0 = va
        BY <2>2
      <4> QED  BY <3>1, <4>1
    <3>2. CASE v # PageOf(va)
      <4> DEFINE b == v * PAGE_SIZE - va
      <4>1. v * PAGE_SIZE <= last
        <5>1. v <= PageOf(last)
          BY <2>3
        <5>2. \A x \in Nat, y \in Nat, m \in Nat \ {0} : y <= x \div m => y * m <= x
          OBVIOUS
        <5> QED  BY <1>1, <2>2, <2>4, <5>1, <5>2 DEF PageOf
      <4>2. va <= v * PAGE_SIZE
        <5>1. PageOf(va) < v
          BY <2>3, <3>2
        <5>2. \A x \in Nat, y \in Nat, m \in Nat \ {0} : x \div m < y => x <= y * m
          OBVIOUS
        <5> QED  BY <1>1, <2>2, <2>4, <5>1, <5>2 DEF PageOf
      <4>3. b \in 0 .. (n - 1) /\ va + b = v * PAGE_SIZE
        BY <1>2, <2>2, <2>4, <4>1, <4>2
      <4> QED  BY <1>2, <2>4, <4>3
    <3> QED  BY <3>1, <3>2
  <2> QED  BY <1>2, <2>4, <2>5 DEF va, n
<1>5. \/ \E va \in VirtAddrs : v = PageOf(va)
      \/ \E k \in DOMAIN InitRanges :
             /\ InitRanges[k].size # 0
             /\ v \in PageOf(InitRanges[k].va) .. PageOf(InitRanges[k].va + InitRanges[k].size - 1)
  BY DEF WatchedPages
<1> QED  BY <1>3, <1>4, <1>5

\* The page of the running call is the only watched one with its indexes.
LEMMA WatchedApart ==
  ASSUME Halves, RangesAgree, IndInv, RangeInv, pc = "walk", NEW v \in WatchedPages
  PROVE  SameIndexes(v * PAGE_SIZE, call.va + call.i) <=> v = PageOf(call.va + call.i)
<1> DEFINE a == call.va + call.i
           w == v * PAGE_SIZE
<1>1. /\ v \in Nat /\ w \in Nat /\ PageOf(w) = v
      /\ \/ IsLower(w)
         \/ \E k \in DOMAIN InitRanges : \E b \in 0 .. (InitRanges[k].size - 1) :
              PageOf(InitRanges[k].va + b) = v
  BY WatchedKinds
<1>2. a \in Nat /\ (cr3 = NONE <=> page_index(a, 1) >= Half)
  BY WalkHalf
<1>3. \A va \in Nat : page_index(va, 1) \in Int /\ Half \in Int
  BY IndexType, HalfType, PageTablesAssumption DEF Indexes
<1> HIDE DEF w, a
<1>4. v = PageOf(a) => SameIndexes(w, a)
  BY <1>1, SamePageIndexes
<1>5. ASSUME SameIndexes(w, a) PROVE v = PageOf(a)
  <2>1. page_index(w, 1) = page_index(a, 1)
    BY <1>5 DEF SameIndexes
  <2>2. CASE IsLower(w)
    <3>1. page_index(w, 1) < Half
      BY <1>1, <2>2, LowerIndex
    <3>2. cr3 # NONE
      BY <1>1, <1>2, <1>3, <2>1, <3>1
    <3>3. IsLower(a)
      BY <3>2 DEF a, IndInv, CallInv, UserCall
    <3> QED  BY <1>1, <1>2, <1>5, <2>2, <3>3, LowerPages
  <2>3. CASE \E k \in DOMAIN InitRanges : \E b \in 0 .. (InitRanges[k].size - 1) :
               PageOf(InitRanges[k].va + b) = v
    <3>1. PICK k \in DOMAIN InitRanges : \E b \in 0 .. (InitRanges[k].size - 1) :
                 PageOf(InitRanges[k].va + b) = v
      BY <2>3
    <3>2. PICK b \in 0 .. (InitRanges[k].size - 1) : PageOf(InitRanges[k].va + b) = v
      BY <3>1
    <3> DEFINE x == InitRanges[k].va + b
    <3>3. x \in Nat /\ page_index(x, 1) >= Half
      BY RangesTyped DEF Halves
    <3>4. SameIndexes(x, w)
      BY <1>1, <3>2, SamePageIndexes
    <3>5. SameIndexes(x, a)
      BY <1>5, <3>4 DEF SameIndexes
    <3>6. cr3 = NONE
      <4>1. page_index(x, 1) = page_index(a, 1)
        BY <3>5 DEF SameIndexes
      <4> QED  BY <1>2, <3>3, <4>1
    <3>7. /\ Started \in DOMAIN InitRanges
          /\ call.i \in 0 .. (InitRanges[Started].size - 1)
          /\ a = InitRanges[Started].va + call.i
      BY <3>6, RunningRange DEF a
    <3> QED  BY <3>2, <3>5, <3>7 DEF RangesAgree
  <2> QED  BY <1>1, <2>2, <2>3
<1> QED  BY <1>4, <1>5 DEF w, a

\* A table of tables changed in one place.
IsTable(f, R, W) == f = [r \in R |-> [v \in W |-> f[r][v]]]

ChangedAt(f, g, R, W, s, p, x) ==
  /\ s \in R /\ p \in W => g[s][p] = x
  /\ \A r \in R : \A v \in W : ~(r = s /\ v = p) => g[r][v] = f[r][v]

LEMMA UpdateIs ==
  ASSUME NEW R, NEW W, NEW f, NEW g, NEW s, NEW p, NEW x,
         IsTable(f, R, W), IsTable(g, R, W), ChangedAt(f, g, R, W, s, p, x)
  PROVE  g = [f EXCEPT ![s][p] = x]
<1> DEFINE y == [f[s] EXCEPT ![p] = x]
<1>1. /\ f = [r \in R |-> f[r]] /\ \A r \in R : f[r] = [v \in W |-> f[r][v]]
      /\ g = [r \in R |-> g[r]] /\ \A r \in R : g[r] = [v \in W |-> g[r][v]]
  BY DEF IsTable
<1>2. ASSUME s \in R PROVE g[s] = y
  <2>1. y = [v \in W |-> IF v = p THEN x ELSE f[s][v]]
    BY <1>1, <1>2
  <2>2. \A v \in W : v # p => g[s][v] = f[s][v]
    BY <1>2 DEF ChangedAt
  <2>3. p \in W => g[s][p] = x
    BY <1>2 DEF ChangedAt
  <2>4. \A v \in W : g[s][v] = IF v = p THEN x ELSE f[s][v]
    BY <2>2, <2>3
  <2>5. g[s] = [v \in W |-> g[s][v]]
    BY <1>1, <1>2
  <2> QED  BY <2>1, <2>4, <2>5
<1>3. ASSUME NEW r \in R, r # s PROVE g[r] = f[r]
  <2>1. \A v \in W : g[r][v] = f[r][v]
    BY <1>3 DEF ChangedAt
  <2> QED  BY <1>1, <2>1
<1> HIDE DEF y
<1>4. [f EXCEPT ![s] = y] = [r \in R |-> IF r = s THEN y ELSE f[r]]
  BY <1>1
<1>5. g = [r \in R |-> IF r = s THEN y ELSE f[r]]
  <2>1. \A r \in R : g[r] = IF r = s THEN y ELSE f[r]
    BY <1>2, <1>3
  <2> QED  BY <1>1, <2>1
<1> QED  BY <1>4, <1>5 DEF y

LEMMA Performs ==
  ASSUME JobBar # Spaces!NoJob,
         \/ JobBar' = Spaces!NoJob
         \/ JobBar.op = "map" /\ JobBar'.op = "map" /\ JobBar'.page = JobBar.page + 1,
         roots' = roots, cr3' = cr3,
         \A pt \in roots : \A v \in WatchedPages :
           /\ pt = JobBar.space /\ v = JobBar.page =>
                Seen(tables', pt, v * PAGE_SIZE) = Spaces!Becomes(Seen(tables, pt, v * PAGE_SIZE))
           /\ ~(pt = JobBar.space /\ v = JobBar.page) =>
                Seen(tables', pt, v * PAGE_SIZE) = Seen(tables, pt, v * PAGE_SIZE)
  PROVE  Spaces!SpaceNext
<1> DEFINE S == SpacesOf(tables, roots)
<1>1. SpacesOf(tables', roots') =
        [S EXCEPT ![JobBar.space][JobBar.page] = Spaces!Becomes(S[JobBar.space][JobBar.page])]
  <2> DEFINE T == SpacesOf(tables', roots')
             x == Spaces!Becomes(S[JobBar.space][JobBar.page])
  <2>1. IsTable(S, roots, WatchedPages) /\ IsTable(T, roots, WatchedPages)
    BY DEF SpacesOf, IsTable
  <2>2. \A r \in roots : \A v \in WatchedPages :
          S[r][v] = Seen(tables, r, v * PAGE_SIZE) /\ T[r][v] = Seen(tables', r, v * PAGE_SIZE)
    BY DEF SpacesOf
  <2>3. ChangedAt(S, T, roots, WatchedPages, JobBar.space, JobBar.page, x)
    <3> HIDE DEF S, T
    <3> QED  BY <2>2 DEF ChangedAt
  <2> HIDE DEF S, T, x
  <2>4. T = [S EXCEPT ![JobBar.space][JobBar.page] = x]
    BY <2>1, <2>3, UpdateIs
  <2> QED  BY <2>4 DEF T, x
<1>2. Spaces!Perform
  BY <1>1, BarIs DEF Spaces!Perform
<1> QED  BY <1>2 DEF Spaces!SpaceNext

LEMMA BecomesIs ==
  ASSUME pc = "walk"
  PROVE  /\ call.op \in {"map", "map_flags"} => \A o : Spaces!Becomes(o) = Asked
         /\ call.op = "unmap" => \A o : Spaces!Becomes(o) = {}
         /\ call.op = "flags" => \A x, y :
              Spaces!Becomes({[frame |-> x, rights |-> y]}) =
                {[frame |-> x, rights |-> call.flags \ {"PRESENT"}]}
<1>1. /\ JobBar.op = IF call.op = "map_flags" THEN "map" ELSE call.op
      /\ JobBar.to = Asked
  BY JobIs
<1>2. CASE call.op \in {"map", "map_flags"}
  BY <1>1, <1>2 DEF Spaces!Becomes
<1>3. CASE call.op = "unmap"
  BY <1>1, <1>3 DEF Spaces!Becomes
<1>4. CASE call.op = "flags"
  BY <1>1, <1>4 DEF Spaces!Becomes, Asked
<1> QED  BY <1>2, <1>3, <1>4

\* Stores to last-level entries: the effects of a call.
LEMMA StoreFlagsPerforms ==
  ASSUME Halves, RangesAgree, IndInv, RangeInv, StoreFlags
  PROVE  Spaces!SpaceNext
<1> DEFINE a == call.va + call.i
<1>1. /\ pc = "walk" /\ call.op \in {"map_flags", "flags"}
      /\ UNCHANGED <<roots, kernelPT, cr3, todo>>
      /\ \/ /\ call.op = "map_flags" /\ pc' = "walk" /\ call'.op = "map"
            /\ call'.va = call.va /\ call'.i = call.i + PAGE_SIZE
         \/ pc' \in {"init", "idle"}
  BY StoreFlagsNext
<1>2. /\ JobBar.op = IF call.op = "map_flags" THEN "map" ELSE call.op
      /\ JobBar.space = call.pt /\ JobBar.page = PageOf(a)
  BY <1>1, JobIs
<1>3. JobBar # Spaces!NoJob
  BY <1>1, <1>2 DEF Spaces!NoJob
<1>4. \/ JobBar' = Spaces!NoJob
      \/ JobBar.op = "map" /\ JobBar'.op = "map" /\ JobBar'.page = JobBar.page + 1
  <2>1. CASE /\ call.op = "map_flags" /\ pc' = "walk" /\ call'.op = "map"
             /\ call'.va = call.va /\ call'.i = call.i + PAGE_SIZE
    <3>1. JobBar'.op = "map" /\ JobBar'.page = PageOf(call'.va + call'.i)
      BY <2>1, JobIsNext
    <3>2. call'.va + call'.i = a + PAGE_SIZE /\ a \in Nat
      BY <1>1, <2>1, PageTablesAssumption DEF IndInv, CallInv, CallType
    <3>3. \A x \in Nat, n \in Nat \ {0} : (x + n) \div n = x \div n + 1
      OBVIOUS
    <3>4. PageOf(a + PAGE_SIZE) = PageOf(a) + 1
      BY <3>2, <3>3, PageTablesAssumption DEF PageOf
    <3> QED  BY <1>2, <2>1, <3>1, <3>2, <3>4
  <2>2. CASE pc' \in {"init", "idle"}
    BY <2>2, JobIsNext
  <2> QED  BY <1>1, <2>1, <2>2
<1>5. ASSUME NEW pt \in roots, NEW v \in WatchedPages
      PROVE  /\ pt = JobBar.space /\ v = JobBar.page =>
                  Seen(tables', pt, v * PAGE_SIZE) =
                    Spaces!Becomes(Seen(tables, pt, v * PAGE_SIZE))
             /\ ~(pt = JobBar.space /\ v = JobBar.page) =>
                  Seen(tables', pt, v * PAGE_SIZE) = Seen(tables, pt, v * PAGE_SIZE)
  <2> DEFINE w == v * PAGE_SIZE
  <2>1. w \in Nat
    BY WatchedKinds
  <2>2. SameIndexes(w, a) <=> v = PageOf(a)
    BY <1>1, WatchedApart
  <2>3. CASE ~(pt = JobBar.space /\ v = JobBar.page)
    BY <1>2, <2>1, <2>2, <2>3, StoreFlagsSeen
  <2>4. CASE pt = JobBar.space /\ v = JobBar.page
    <3>1. pt = call.pt /\ SameIndexes(w, a)
      BY <1>2, <2>2, <2>4
    <3>2. CASE call.op = "map_flags"
      <4>1. Seen(tables', pt, w) = Asked
        BY <2>1, <3>1, <3>2, StoreFlagsSeen
      <4> QED  BY <1>1, <2>4, <3>2, <4>1, BecomesIs
    <3>3. CASE call.op = "flags"
      <4> DEFINE e == tables[cur][Index]
      <4>1. /\ Seen(tables, call.pt, a) = {[frame |-> e.addr, rights |-> e.rights]}
            /\ Seen(tables', pt, w) = {[frame |-> e.addr, rights |-> call.flags \ {"PRESENT"}]}
        BY <2>1, <3>1, <3>3, StoreFlagsSeen
      <4>2. Seen(tables, pt, w) = Seen(tables, call.pt, a)
        BY <3>1, SameIndexesSeen
      <4>3. Spaces!Becomes({[frame |-> e.addr, rights |-> e.rights]}) =
              {[frame |-> e.addr, rights |-> call.flags \ {"PRESENT"}]}
        BY <1>1, <3>3, BecomesIs
      <4> HIDE DEF e, w, a
      <4> QED  BY <2>4, <4>1, <4>2, <4>3 DEF w
    <3> QED  BY <1>1, <3>2, <3>3
  <2> QED  BY <2>3, <2>4
<1> QED  BY <1>1, <1>3, <1>4, <1>5, Performs

LEMMA ClearEntryPerforms ==
  ASSUME Halves, RangesAgree, IndInv, RangeInv, ClearEntry
  PROVE  Spaces!SpaceNext
<1> DEFINE a == call.va + call.i
<1>1. /\ pc = "walk" /\ call.op = "unmap" /\ pc' = "invlpg"
      /\ roots' = roots /\ cr3' = cr3
  BY DEF ClearEntry, cpuVars
<1>2. JobBar.op = "unmap" /\ JobBar.space = call.pt /\ JobBar.page = PageOf(a)
  BY <1>1, JobIs
<1>3. JobBar # Spaces!NoJob /\ JobBar' = Spaces!NoJob
  BY <1>1, <1>2, JobIsNext DEF Spaces!NoJob
<1>4. ASSUME NEW pt \in roots, NEW v \in WatchedPages
      PROVE  /\ pt = JobBar.space /\ v = JobBar.page =>
                  Seen(tables', pt, v * PAGE_SIZE) =
                    Spaces!Becomes(Seen(tables, pt, v * PAGE_SIZE))
             /\ ~(pt = JobBar.space /\ v = JobBar.page) =>
                  Seen(tables', pt, v * PAGE_SIZE) = Seen(tables, pt, v * PAGE_SIZE)
  <2>1. v * PAGE_SIZE \in Nat
    BY WatchedKinds
  <2>2. SameIndexes(v * PAGE_SIZE, a) <=> v = PageOf(a)
    BY <1>1, WatchedApart
  <2>3. CASE ~(pt = JobBar.space /\ v = JobBar.page)
    BY <1>2, <2>1, <2>2, <2>3, ClearEntrySeen
  <2>4. CASE pt = JobBar.space /\ v = JobBar.page
    <3>1. Seen(tables', pt, v * PAGE_SIZE) = {}
      BY <1>2, <2>1, <2>2, <2>4, ClearEntrySeen
    <3> QED  BY <1>1, <2>4, <3>1, BecomesIs
  <2> QED  BY <2>3, <2>4
<1> QED  BY <1>1, <1>3, <1>4, Performs

\* Every step is one of AddressSpace, or shows nothing.
LEMMA SpaceStep ==
  ASSUME Halves, RangesAgree, IndInv, RangeInv, [Next]_vars
  PROVE  [Spaces!SpaceNext]_(Spaces!spaceVars)
<1> USE DEF cpuVars
<1>0. \A v \in WatchedPages : v * PAGE_SIZE \in Nat
  BY WatchedKinds
<1>1. CASE StoreFlags
  BY <1>1, StoreFlagsPerforms
<1>2. CASE ClearEntry
  BY <1>2, ClearEntryPerforms
<1>3. ASSUME ~StoreFlags, ~ClearEntry, NEW R, R \subseteq roots, R \subseteq roots'
      PROVE  SameSeen(tables, tables', R)
  BY <1>0, <1>3, OthersSeen DEF SameSeen
<1>4. ASSUME roots' = roots, cr3' = cr3, JobBar' = JobBar, ~StoreFlags, ~ClearEntry
      PROVE  [Spaces!SpaceNext]_(Spaces!spaceVars)
  BY <1>3, <1>4, Stutters
<1>5. ASSUME NEW f \in avail, tables' = NewTable(f), roots' = roots \cup {f}, cr3' = cr3,
             pc # "walk", pc' # "walk"
      PROVE  Spaces!SpaceNext
  <2>1. f \notin roots
    BY DEF IndInv, PagesInv, TypeOK
  <2>2. JobBar' = JobBar
    BY <1>5, JobIs, JobIsNext
  <2>3. ~StoreFlags /\ ~ClearEntry
    BY <1>5 DEF StoreFlags, ClearEntry
  <2>4. SameSeen(tables, tables', roots)
    BY <1>3, <1>5, <2>3
  <2>5. \A v \in WatchedPages : Seen(tables', f, v * PAGE_SIZE) = {}
    BY <1>0, <1>5, NewRootSeen
  <2> QED  BY <1>5, <2>1, <2>2, <2>4, <2>5, Creates
<1>6. CASE vmm_init
  BY <1>5, <1>6 DEF vmm_init, IndInv, StageInv
<1>7. CASE arch_vmm_new_pt
  BY <1>5, <1>7 DEF arch_vmm_new_pt
<1>8. CASE \E qt \in roots \ {kernelPT, cr3} : arch_vmm_destroy_pt(qt)
  <2>1. PICK f \in roots \ {kernelPT, cr3} : arch_vmm_destroy_pt(f)
    BY <1>8
  <2>2. /\ pc = "idle" /\ pc' = "idle" /\ roots' = roots \ {f} /\ cr3' = cr3
    BY <2>1 DEF arch_vmm_destroy_pt
  <2>3. ~StoreFlags /\ ~ClearEntry
    BY <2>2 DEF StoreFlags, ClearEntry
  <2>4. SameSeen(tables, tables', roots')
    BY <1>3, <2>2, <2>3
  <2>5. JobBar' = JobBar
    BY <2>2, JobIs, JobIsNext
  <2> QED  BY <2>1, <2>2, <2>4, <2>5, Destroys
<1>9. CASE vmm_init_switch \/ \E qt \in roots : arch_vmm_switch(qt)
  <2>1. /\ cr3' \in roots /\ roots' = roots /\ tables' = tables /\ pc # "walk" /\ pc' # "walk"
    BY <1>9 DEF vmm_init_switch, arch_vmm_switch, IndInv, StageInv
  <2>2. JobBar' = JobBar
    BY <2>1, JobIs, JobIsNext
  <2> QED  BY <2>1, <2>2, Switches
<1>a. ASSUME pc # "walk", call'.pt \in roots, pc' = "walk",
             UNCHANGED <<roots, cr3, tables>>
      PROVE  Spaces!SpaceNext
  BY <1>a, Asks
<1>b. CASE vmm_init_range
  <2> DEFINE r == Head(todo)
  <2>1. pc = "init" /\ kernelPT \in roots /\ UNCHANGED <<roots, cr3, tables>>
    BY <1>b DEF vmm_init_range, IndInv, StageInv
  <2>2. CASE r.size = 0
    <3>1. pc' = pc /\ ~StoreFlags /\ ~ClearEntry
      BY <1>b, <2>1, <2>2 DEF vmm_init_range, StoreFlags, ClearEntry
    <3> QED  BY <1>4, <2>1, <3>1, JobIs, JobIsNext
  <2>3. CASE r.size # 0
    <3>1. pc' = "walk" /\ call'.pt = kernelPT
      BY <1>b, <2>3 DEF vmm_init_range, StartWalk
    <3> QED  BY <1>a, <2>1, <3>1
  <2> QED  BY <2>2, <2>3
<1>c. CASE UserMap
  BY <1>a, <1>c DEF UserMap, vmm_map_range, StartWalk
<1>d. CASE \E qt \in roots, va \in VirtAddrs : arch_vmm_unmap(qt, va)
  BY <1>a, <1>d DEF arch_vmm_unmap, StartWalk, NoCall
<1>e. CASE UserSetFlags
  BY <1>a, <1>e DEF UserSetFlags, arch_vmm_set_flags, StartWalk, NoCall
<1>f. CASE StoreAddr
  <2>1. /\ call' = [call EXCEPT !.op = "map_flags"] /\ pc' = "walk" /\ pc = "walk"
        /\ call.op = "map" /\ UNCHANGED <<roots, cr3>>
    BY <1>f DEF StoreAddr, StartWalk
  <2>2. call \in CallType
    BY DEF IndInv, CallInv
  <2>3. JobBar' = JobBar
    <3>1. /\ call'.op = "map_flags" /\ call'.pt = call.pt /\ call'.va = call.va
          /\ call'.pa = call.pa /\ call'.i = call.i /\ call'.flags = call.flags
      BY <2>1, <2>2 DEF CallType
    <3> QED  BY <2>1, <3>1 DEF JobBar
  <2>4. ~StoreFlags /\ ~ClearEntry
    BY <2>1 DEF StoreFlags, ClearEntry
  <2> QED  BY <1>4, <2>1, <2>3, <2>4
<1>g. ASSUME UNCHANGED <<roots, cr3, pc, call>>, ~StoreFlags, ~ClearEntry
      PROVE  [Spaces!SpaceNext]_(Spaces!spaceVars)
  <2>1. JobBar' = JobBar
    BY <1>g DEF JobBar
  <2> QED  BY <1>4, <1>g, <2>1
<1>h. CASE Invlpg
  <2>1. pc = "invlpg" /\ pc' # "walk" /\ UNCHANGED <<roots, cr3>>
    BY <1>h DEF Invlpg, Idle
  <2>2. ~StoreFlags /\ ~ClearEntry
    BY <2>1 DEF StoreFlags, ClearEntry
  <2>3. JobBar' = JobBar
    BY <2>1, JobIs, JobIsNext
  <2> QED  BY <1>4, <2>1, <2>2, <2>3
<1>i. CASE Descend \/ AllocTable \/ OutOfMemory \/ Halted \/ UNCHANGED vars
  <2>1. UNCHANGED <<roots, cr3, pc, call>>
    BY <1>i DEF Descend, AllocTable, OutOfMemory, Halted, vars
  <2> QED  BY <1>1, <1>2, <1>g, <2>1
<1>j. CASE (\E va \in VirtAddrs : TLBFill(va)) \/ GetFrame \/ \E f \in held \ UserFrames : PutFrame(f)
  <2>1. UNCHANGED <<roots, cr3, pc, call>>
    BY <1>j DEF TLBFill, GetFrame, PutFrame
  <2> QED  BY <1>1, <1>2, <1>g, <2>1
<1> QED
  BY <1>1, <1>2, <1>6, <1>7, <1>8, <1>9, <1>b, <1>c, <1>d, <1>e, <1>f, <1>h, <1>i, <1>j
     DEF Next, Step

\* The walk, the allocation of tables and the two stores of arch_vmm_map do not
\* show: every call of arch_vmm_map, arch_vmm_unmap and arch_vmm_set_flags
\* changes the page it was called for, at one moment, and nothing else does.
THEOREM TablesImplementSpaces ==
  Halves /\ RangesAgree => (Spec => ImplementsAddressSpace)
<1> SUFFICES ASSUME Halves, RangesAgree PROVE Spec => ImplementsAddressSpace
  OBVIOUS
<1>1. Init => Spaces!SpaceInit
  <2> SUFFICES ASSUME Init PROVE Spaces!SpaceInit
    OBVIOUS
  <2>1. roots = {} /\ cr3 = 0 /\ pc # "walk"
    BY DEF Init, NONE
  <2>2. SpacesOf(tables, roots) = [s \in {} |-> 0]
    BY <2>1 DEF SpacesOf
  <2> QED  BY <2>1, <2>2, BarIs, JobIs DEF Spaces!SpaceInit
<1>2. IndInv /\ RangeInv /\ [Next]_vars => [Spaces!SpaceNext]_(Spaces!spaceVars)
  BY SpaceStep
<1>3. Spec => [](IndInv /\ RangeInv)
  BY RangesInvariant
<1> QED  BY <1>1, <1>2, <1>3, PTL DEF Spec, ImplementsAddressSpace, Spaces!SpaceSpec

-----------------------------------------------------------------------------
(***************************************************************************)
(* The layout that a boot loader leaves, and what it gives the theorems    *)
(* above: physical memory at the HHDM offset, in the upper half, then the  *)
(* kernel, at the top of it (symphony/arch/x86_64/linker.ld).              *)
(***************************************************************************)
\* Bytes below one entry of the top-level table: 512 GiB.
EntrySpan == ENTRIES * ENTRIES * ENTRIES * PAGE_SIZE

\* The upper half and the end of the n-th address range that the tables index:
\* canonical addresses of the upper half are in the last one of 64 bits.
UpperHalf(n) == ((n - 1) * ENTRIES + Half) * EntrySpan
RangeEnd(n) == (n * ENTRIES) * EntrySpan

LayoutIn(n) ==
  /\ UpperHalf(n) <= HHDM /\ HHDM <= Kernel.va
  /\ \A k \in DOMAIN MemMap : MemMap[k].base + MemMap[k].length + HHDM <= Kernel.va
  /\ Kernel.va + Kernel.size <= RangeEnd(n)

LoaderLayout ==
  /\ HHDM % PAGE_SIZE = 0 /\ Kernel.va % PAGE_SIZE = 0 /\ Kernel.pa % PAGE_SIZE = 0
  /\ \E n \in Nat \ {0} : LayoutIn(n)

\* Callers map in the lower half, and to unmap they use arch_vmm_unmap.
CallersLow ==
  /\ \A va \in VirtAddrs : IsLower(va)
  /\ \A fl \in FlagSets : "PRESENT" \in fl

\* The memory map is made of whole pages; the code does not round.
MapAligned == \A k \in DOMAIN MemMap : MemMap[k].base % PAGE_SIZE = 0

LEMMA DivRange ==
  ASSUME NEW a \in Nat, NEW b \in Nat, NEW d \in Nat \ {0}, NEW x \in Nat,
         a * d <= x, x < b * d
  PROVE  x \div d \in Nat /\ a <= x \div d /\ x \div d < b
<1> DEFINE q == x \div d
           r == x % d
<1>1. q \in Nat /\ r \in Nat /\ r < d
  OBVIOUS
<1>2. r = x - d * q
  BY ModIs
<1> HIDE DEF q, r
<1>3. x = d * q + r
  <2> DEFINE m == d * q
  <2>1. m \in Int
    BY <1>1
  <2> HIDE DEF m
  <2>2. r = x - m
    BY <1>2 DEF m
  <2>3. x = m + r
    BY <1>1, <2>1, <2>2
  <2> QED  BY <2>3 DEF m
<1>4. a <= q
  <2> SUFFICES ASSUME q + 1 <= a PROVE FALSE
    BY <1>1
  <2>1. d * (q + 1) <= d * a
    BY <1>1
  <2>2. d * (q + 1) = d * q + d /\ d * a = a * d
    BY <1>1
  <2> QED  BY <1>1, <1>3, <2>1, <2>2
<1>5. q < b
  <2> SUFFICES ASSUME b <= q PROVE FALSE
    BY <1>1
  <2>1. d * b <= d * q /\ d * b = b * d
    BY <1>1
  <2> QED  BY <1>1, <1>3, <2>1
<1> QED  BY <1>1, <1>4, <1>5 DEF q

\* In the upper half of a range the last shift leaves the range's number and an
\* index of the upper half.
LEMMA UpperShift ==
  ASSUME NEW n \in Nat \ {0}, NEW x \in Nat, UpperHalf(n) <= x, x < RangeEnd(n)
  PROVE  /\ Shifts(x)[1] \in Nat
         /\ (n - 1) * ENTRIES + Half <= Shifts(x)[1] /\ Shifts(x)[1] < n * ENTRIES
<1> DEFINE e == ENTRIES
           p == PAGE_SIZE
           A == (n - 1) * e + Half
           B == n * e
<1>1. e \in Nat \ {0} /\ p \in Nat \ {0} /\ Half \in Nat
  BY PageTablesAssumption, HalfType
<1>2. A \in Nat /\ B \in Nat
  BY <1>1
<1>3. A * (e * e * e * p) <= x /\ x < B * (e * e * e * p)
  BY DEF UpperHalf, RangeEnd, EntrySpan
<1> HIDE DEF e, p, A, B
<1> DEFINE A1 == A * e
           A2 == A1 * e
           A3 == A2 * e
           B1 == B * e
           B2 == B1 * e
           B3 == B2 * e
<1>4. A1 \in Nat /\ B1 \in Nat /\ A2 \in Nat /\ B2 \in Nat /\ A3 \in Nat /\ B3 \in Nat
  <2>1. \A u, v \in Nat : u * v \in Nat
    OBVIOUS
  <2>2. A1 \in Nat /\ B1 \in Nat
    BY <1>1, <1>2, <2>1
  <2>3. A2 \in Nat /\ B2 \in Nat
    BY <1>1, <2>1, <2>2
  <2>4. A3 \in Nat /\ B3 \in Nat
    BY <1>1, <2>1, <2>3
  <2> QED  BY <2>2, <2>3, <2>4
<1>5. A3 * p = A * (e * e * e * p) /\ B3 * p = B * (e * e * e * p)
  BY <1>1, <1>2
<1>6. Shifts(x) = << ((((x \div p) \div e) \div e) \div e), (((x \div p) \div e) \div e),
                     ((x \div p) \div e), x \div p >>
  BY DEF Shifts, PageOf, e, p
<1> DEFINE q4 == x \div p
           q3 == q4 \div e
           q2 == q3 \div e
           q1 == q2 \div e
<1>7. q4 \in Nat /\ A3 <= q4 /\ q4 < B3
  <2>1. A3 * p <= x /\ x < B3 * p
    BY <1>3, <1>5
  <2> HIDE DEF A3, B3
  <2> QED  BY <1>1, <1>4, <2>1, DivRange
<1>8. q3 \in Nat /\ A2 <= q3 /\ q3 < B2
  <2>1. A2 * e <= q4 /\ q4 < B2 * e
    BY <1>7
  <2> HIDE DEF A2, B2, q4
  <2> QED  BY <1>1, <1>4, <1>7, <2>1, DivRange
<1>9. q2 \in Nat /\ A1 <= q2 /\ q2 < B1
  <2>1. A1 * e <= q3 /\ q3 < B1 * e
    BY <1>8
  <2> HIDE DEF A1, B1, q3
  <2> QED  BY <1>1, <1>4, <1>8, <2>1, DivRange
<1>a. q1 \in Nat /\ A <= q1 /\ q1 < B
  <2>1. A * e <= q2 /\ q2 < B * e
    BY <1>9
  <2> HIDE DEF q2
  <2> QED  BY <1>1, <1>2, <1>9, <2>1, DivRange
<1> QED  BY <1>6, <1>a DEF A, B, e

\* Addresses of the upper half have indexes of the upper half, and those with
\* the same indexes are in the same page.
LEMMA UpperIndex ==
  ASSUME NEW n \in Nat \ {0}, NEW x \in Nat, UpperHalf(n) <= x, x < RangeEnd(n)
  PROVE  /\ page_index(x, 1) >= Half
         /\ Shifts(x)[1] \div ENTRIES = n - 1
<1> DEFINE e == ENTRIES
           s == Shifts(x)[1]
           q == s \div e
           m == (n - 1) * e
<1>1. e \in Nat \ {0} /\ Half \in Nat
  BY PageTablesAssumption, HalfType
<1>2. s \in Nat /\ m + Half <= s /\ s < n * e
  BY UpperShift
<1>3. m \in Nat /\ n * e = m + e
  BY <1>1
<1> HIDE DEF s
<1>4. q \in Nat /\ n - 1 <= q /\ q < n
  <2>1. (n - 1) * e <= s /\ s < n * e
    BY <1>1, <1>2, <1>3
  <2>2. n - 1 \in Nat /\ n \in Nat
    OBVIOUS
  <2> HIDE DEF e, m
  <2> QED  BY <1>1, <1>2, <2>1, <2>2, DivRange
<1>5. q = n - 1
  <2> HIDE DEF q
  <2> QED  BY <1>4
<1>6. s % e = s - e * q
  <2> HIDE DEF e
  <2> QED  BY <1>1, <1>2, ModIs
<1>7. e * q = m
  BY <1>1, <1>5
<1>8. s % e = s - m
  BY <1>6, <1>7
<1>9. page_index(x, 1) = s % e
  BY DEF page_index, s
<1>a. s - m >= Half
  <2> HIDE DEF m, e
  <2> QED  BY <1>1, <1>2, <1>3
<1> QED  BY <1>5, <1>8, <1>9, <1>a DEF s

LEMMA UpperPages ==
  ASSUME NEW n \in Nat \ {0}, NEW x \in Nat, UpperHalf(n) <= x, x < RangeEnd(n),
         NEW y \in Nat, UpperHalf(n) <= y, y < RangeEnd(n), SameIndexes(x, y)
  PROVE  PageOf(x) = PageOf(y)
<1> DEFINE s == Shifts(x)
           t == Shifts(y)
<1>1. /\ s[1] \in Nat /\ s[2] \in Nat /\ s[3] \in Nat /\ s[4] \in Nat
      /\ t[1] \in Nat /\ t[2] \in Nat /\ t[3] \in Nat /\ t[4] \in Nat
  BY ShiftsType
<1>2. /\ s[4] = PageOf(x) /\ s[3] = s[4] \div ENTRIES /\ s[2] = s[3] \div ENTRIES
      /\ s[1] = s[2] \div ENTRIES
      /\ t[4] = PageOf(y) /\ t[3] = t[4] \div ENTRIES /\ t[2] = t[3] \div ENTRIES
      /\ t[1] = t[2] \div ENTRIES
  BY DEF Shifts
<1>3. /\ s[1] % ENTRIES = t[1] % ENTRIES /\ s[2] % ENTRIES = t[2] % ENTRIES
      /\ s[3] % ENTRIES = t[3] % ENTRIES /\ s[4] % ENTRIES = t[4] % ENTRIES
  BY DEF SameIndexes, page_index
<1>4. s[1] \div ENTRIES = t[1] \div ENTRIES
  BY UpperIndex
<1> HIDE DEF s, t
<1>5. s[1] = t[1]
  BY <1>1, <1>3, <1>4, DivMod
<1>6. s[2] = t[2]
  BY <1>1, <1>2, <1>3, <1>5, DivMod
<1>7. s[3] = t[3]
  BY <1>1, <1>2, <1>3, <1>6, DivMod
<1>8. s[4] = t[4]
  BY <1>1, <1>2, <1>3, <1>7, DivMod
<1> QED  BY <1>2, <1>8

\* Adding whole pages adds to the page number.
LEMMA PageOfSum ==
  ASSUME NEW d \in Nat, d % PAGE_SIZE = 0, NEW x \in Nat
  PROVE  PageOf(d + x) = PageOf(d) + PageOf(x)
<1> DEFINE n == PAGE_SIZE
           q == d \div n
           p == x \div n
           r == x % n
<1>1. n \in Nat \ {0}
  BY PageTablesAssumption
<1>2. q \in Nat /\ p \in Nat /\ r \in 0 .. (n - 1) /\ PageOf(d) = q /\ PageOf(x) = p
  <2>1. \A z \in Nat : z \div n \in Nat /\ z % n \in 0 .. (n - 1)
    BY <1>1
  <2> QED  BY <2>1 DEF PageOf
<1>3. d % n = d - n * q /\ r = x - n * p
  BY <1>1, ModIs
<1>4. d % n = 0
  OBVIOUS
<1> HIDE DEF q, p, r
<1>5. d = n * q /\ x = n * p + r
  <2>1. n * q \in Nat /\ n * p \in Nat
    BY <1>1, <1>2
  <2> DEFINE u == n * q
             v == n * p
  <2> HIDE DEF u, v
  <2>2. d = u /\ x = v + r
    <3>1. u \in Nat /\ v \in Nat /\ d - u = 0 /\ r = x - v
      BY <1>3, <1>4, <2>1 DEF u, v
    <3> QED  BY <3>1, <1>2
  <2> QED  BY <2>2 DEF u, v
<1>6. d + x = n * (q + p) + r
  BY <1>1, <1>2, <1>5
<1>7. \A z \in Nat, w \in 0 .. (n - 1) : (n * z + w) \div n = z
  BY <1>1
<1>8. q + p \in Nat
  BY <1>2
<1>9. (n * (q + p) + r) \div n = q + p
  BY <1>2, <1>7, <1>8
<1> QED  BY <1>2, <1>6, <1>9 DEF PageOf

\* A page that begins at d is not one before it.
LEMMA PagesApart ==
  ASSUME NEW d \in Nat, d % PAGE_SIZE = 0, NEW x \in Nat, NEW y \in Nat, x < d, d <= y
  PROVE  PageOf(x) # PageOf(y)
<1> DEFINE n == PAGE_SIZE
           q == d \div n
<1>1. n \in Nat \ {0}
  BY PageTablesAssumption
<1>2. q \in Nat
  <2>1. \A z \in Nat : z \div n \in Nat
    BY <1>1
  <2> QED  BY <2>1
<1>3. d % n = d - n * q /\ d % n = 0
  BY <1>1, ModIs
<1> HIDE DEF q
<1>4. d = n * q
  <2> DEFINE u == n * q
  <2>1. u \in Nat
    BY <1>1, <1>2
  <2> HIDE DEF u
  <2>2. d - u = 0
    BY <1>3 DEF u
  <2>3. d = u
    BY <2>1, <2>2
  <2> QED  BY <2>3 DEF u
<1>5. y - d \in Nat /\ PageOf(d + (y - d)) = PageOf(d) + PageOf(y - d) /\ d + (y - d) = y
  BY PageOfSum
<1>6. PageOf(d) = q /\ PageOf(y - d) \in Nat
  <2>1. \A z \in Nat : z \div n \in Nat
    BY <1>1
  <2> QED  BY <1>5, <2>1 DEF PageOf, q
<1>7. PageOf(y) >= q
  BY <1>2, <1>5, <1>6
<1>8. x < q * n /\ 0 * n <= x
  BY <1>1, <1>2, <1>4
<1>9. PageOf(x) \in Nat /\ PageOf(x) < q
  BY <1>1, <1>2, <1>8, DivRange DEF PageOf
<1>a. PageOf(y) \in Nat
  BY <1>2, <1>5, <1>6
<1> QED  BY <1>2, <1>7, <1>9, <1>a

\* What vmm_init maps of an entry of the memory map lies in that entry.
LEMMA ShiftedWithin ==
  ASSUME NEW k \in DOMAIN MemMap, NEW b \in 0 .. (Shifted(MemMap[k]).length - 1)
  PROVE  /\ Shifted(MemMap[k]).base \in Nat
         /\ Shifted(MemMap[k]).base + b < MemMap[k].base + MemMap[k].length
<1> DEFINE e == MemMap[k]
<1>1. e \in [base : Nat, length : Nat]
  BY RangesAre
<1> HIDE DEF e
<1>2. e.base \in Nat /\ e.length \in Nat /\ PAGE_SIZE \in Nat \ {0}
  BY <1>1, PageTablesAssumption
<1>3. Shifted(e).base \in Nat /\ Shifted(e).base + b < e.base + e.length
  <2>1. b \in 0 .. (Shifted(e).length - 1)
    BY DEF e
  <2>2. CASE e.base # 0
    BY <1>2, <2>1, <2>2 DEF Shifted
  <2>3. CASE e.base = 0 /\ e.length >= PAGE_SIZE
    BY <1>2, <2>1, <2>3 DEF Shifted
  <2>4. CASE e.base = 0 /\ ~(e.length >= PAGE_SIZE)
    <3>1. Shifted(e).length = 0
      BY <2>4 DEF Shifted
    <3> QED  BY <2>1, <3>1
  <2> QED  BY <2>2, <2>3, <2>4
<1> QED  BY <1>3 DEF e

\* A range of vmm_init is the kernel, or one of memory, mapped below the kernel.
IsMemory(k) == k \in DOMAIN MemMap /\ InitRanges[k].va = InitRanges[k].pa + HHDM

LEMMA RangeKinds ==
  ASSUME NEW k \in DOMAIN InitRanges
  PROVE  IsMemory(k) \/ InitRanges[k] = Kernel
<1> DEFINE r(j) == LET e == Shifted(MemMap[j])
                   IN  [pa |-> e.base, va |-> e.base + HHDM, size |-> e.length]
<1>1. DOMAIN MemMap = 1 .. Len(MemMap) /\ Len(MemMap) \in Nat
  BY PageTablesAssumption
<1>2. Len(InitRanges) = Len(MemMap) + 1 /\ DOMAIN InitRanges = 1 .. (Len(MemMap) + 1)
  <2> DEFINE s == [j \in DOMAIN MemMap |-> r(j)]
  <2>1. InitRanges = s \o << Kernel >>
    BY DEF InitRanges
  <2>2. s \in Seq({r(j) : j \in DOMAIN MemMap}) /\ Len(s) = Len(MemMap)
    <3> HIDE DEF r
    <3>1. s \in [1 .. Len(MemMap) -> {r(j) : j \in DOMAIN MemMap}]
      BY <1>1
    <3> QED  BY <1>1, <3>1
  <2> HIDE DEF s
  <2> QED  BY <1>1, <2>1, <2>2
<1>3. CASE k \in DOMAIN MemMap
  <2>1. InitRanges[k] = [pa |-> Shifted(MemMap[k]).base, va |-> Shifted(MemMap[k]).base + HHDM,
                         size |-> Shifted(MemMap[k]).length]
    BY <1>3, RangesAre
  <2> QED  BY <1>3, <2>1 DEF IsMemory
<1>4. CASE k \notin DOMAIN MemMap
  <2>1. k = Len(InitRanges)
    BY <1>1, <1>2, <1>4
  <2> QED  BY <2>1, RangesAre
<1> QED  BY <1>3, <1>4

LEMMA MemoryBytes ==
  ASSUME NEW n \in Nat \ {0}, LayoutIn(n), NEW k \in DOMAIN InitRanges, IsMemory(k),
         NEW b \in 0 .. (InitRanges[k].size - 1)
  PROVE  /\ HHDM <= InitRanges[k].va + b /\ InitRanges[k].va + b < Kernel.va
         /\ InitRanges[k].va + b = HHDM + (InitRanges[k].pa + b)
<1> DEFINE base == Shifted(MemMap[k]).base
           end == MemMap[k].base + MemMap[k].length
<1>1. /\ k \in DOMAIN MemMap /\ MemMap[k] \in [base : Nat, length : Nat]
      /\ InitRanges[k].pa = base /\ InitRanges[k].va = base + HHDM
      /\ InitRanges[k].size = Shifted(MemMap[k]).length
  <2>1. InitRanges[k] = [pa |-> base, va |-> base + HHDM, size |-> Shifted(MemMap[k]).length]
    BY RangesAre DEF IsMemory
  <2>2. k \in DOMAIN MemMap /\ MemMap[k] \in [base : Nat, length : Nat]
    BY RangesAre DEF IsMemory
  <2> HIDE DEF base
  <2> QED  BY <2>1, <2>2
<1>2. base \in Nat /\ base + b < end
  BY <1>1, ShiftedWithin
<1>3. end + HHDM <= Kernel.va
  BY <1>1 DEF LayoutIn
<1>4. end \in Nat /\ HHDM \in Nat /\ Kernel.va \in Nat
  BY <1>1, PageTablesAssumption
<1>5. b \in Nat
  BY RangesTyped
<1> HIDE DEF base, end
<1>6. HHDM <= (base + HHDM) + b /\ (base + HHDM) + b < Kernel.va
  BY <1>2, <1>3, <1>4, <1>5
<1>7. (base + HHDM) + b = HHDM + (base + b)
  BY <1>2, <1>4, <1>5
<1> QED  BY <1>1, <1>6, <1>7

\* Every byte that vmm_init maps is in the upper half.
LEMMA UpperBytes ==
  ASSUME NEW n \in Nat \ {0}, LayoutIn(n), NEW k \in DOMAIN InitRanges,
         NEW b \in 0 .. (InitRanges[k].size - 1)
  PROVE  /\ InitRanges[k].va + b \in Nat
         /\ UpperHalf(n) <= InitRanges[k].va + b /\ InitRanges[k].va + b < RangeEnd(n)
<1>1. /\ InitRanges[k].va \in Nat /\ InitRanges[k].size \in Nat /\ HHDM \in Nat
      /\ Kernel.va \in Nat /\ Kernel.size \in Nat
  BY RangesTyped, PageTablesAssumption
<1>2. UpperHalf(n) \in Int /\ RangeEnd(n) \in Int
  <2>1. ENTRIES \in Int /\ PAGE_SIZE \in Int /\ Half \in Int
    BY PageTablesAssumption, HalfType
  <2>2. \A u, v \in Int : u * v \in Int
    OBVIOUS
  <2>3. EntrySpan \in Int
    BY <2>1, <2>2 DEF EntrySpan
  <2>4. (n - 1) * ENTRIES + Half \in Int /\ n * ENTRIES \in Int
    BY <2>1
  <2> QED  BY <2>2, <2>3, <2>4 DEF UpperHalf, RangeEnd
<1>3. /\ UpperHalf(n) <= HHDM /\ HHDM <= Kernel.va
      /\ Kernel.va + Kernel.size <= RangeEnd(n)
  BY DEF LayoutIn
<1>4. CASE IsMemory(k)
  <2>1. HHDM <= InitRanges[k].va + b /\ InitRanges[k].va + b < Kernel.va
    BY <1>4, MemoryBytes
  <2> QED  BY <1>1, <1>2, <1>3, <2>1
<1>5. CASE InitRanges[k] = Kernel
  BY <1>1, <1>2, <1>3, <1>5
<1> QED  BY <1>4, <1>5, RangeKinds

LEMMA LayoutHalves == LoaderLayout /\ CallersLow => Halves
<1> SUFFICES ASSUME LoaderLayout, CallersLow PROVE Halves
  OBVIOUS
<1>1. PICK n \in Nat \ {0} : LayoutIn(n)
  BY DEF LoaderLayout
<1>2. ASSUME NEW k \in DOMAIN InitRanges, NEW b \in 0 .. (InitRanges[k].size - 1)
      PROVE  page_index(InitRanges[k].va + b, 1) >= Half
  BY <1>1, UpperBytes, UpperIndex
<1> QED  BY <1>2 DEF Halves, CallersLow

\* A byte of memory and one of the kernel share no page; two bytes that are in
\* one page after a shift by whole pages were in one page.
LEMMA LayoutAgree == LoaderLayout => RangesAgree
<1> SUFFICES ASSUME LoaderLayout,
                    NEW j \in DOMAIN InitRanges, NEW k \in DOMAIN InitRanges,
                    NEW b \in 0 .. (InitRanges[j].size - 1),
                    NEW c \in 0 .. (InitRanges[k].size - 1),
                    SameIndexes(InitRanges[j].va + b, InitRanges[k].va + c)
             PROVE  /\ PageOf(InitRanges[j].va + b) = PageOf(InitRanges[k].va + c)
                    /\ PageOf(InitRanges[j].pa + b) = PageOf(InitRanges[k].pa + c)
  BY DEF RangesAgree
<1>1. PICK n \in Nat \ {0} : LayoutIn(n)
  BY DEF LoaderLayout
<1>2. /\ HHDM \in Nat /\ HHDM % PAGE_SIZE = 0 /\ Kernel.va \in Nat /\ Kernel.va % PAGE_SIZE = 0
      /\ Kernel.pa \in Nat /\ Kernel.pa % PAGE_SIZE = 0
  BY PageTablesAssumption DEF LoaderLayout
<1>3. /\ InitRanges[j].pa \in Nat /\ InitRanges[k].pa \in Nat /\ b \in Nat /\ c \in Nat
      /\ InitRanges[j].pa + b \in Nat /\ InitRanges[k].pa + c \in Nat
      /\ InitRanges[j].va + b \in Nat /\ InitRanges[k].va + c \in Nat
  <2>1. /\ InitRanges[j].pa \in Nat /\ InitRanges[j].size \in Nat /\ InitRanges[j].va \in Nat
        /\ InitRanges[k].pa \in Nat /\ InitRanges[k].size \in Nat /\ InitRanges[k].va \in Nat
    BY RangesTyped
  <2> QED  BY <2>1
<1>4. PageOf(InitRanges[j].va + b) = PageOf(InitRanges[k].va + c)
  <2>1. /\ UpperHalf(n) <= InitRanges[j].va + b /\ InitRanges[j].va + b < RangeEnd(n)
        /\ UpperHalf(n) <= InitRanges[k].va + c /\ InitRanges[k].va + c < RangeEnd(n)
    BY <1>1, UpperBytes
  <2> QED  BY <1>3, <2>1, UpperPages
<1>5. \A x \in Nat : PageOf(x) \in Nat
  BY ShiftsType
<1>6. CASE IsMemory(j) /\ IsMemory(k)
  <2>1. /\ InitRanges[j].va + b = HHDM + (InitRanges[j].pa + b)
        /\ InitRanges[k].va + c = HHDM + (InitRanges[k].pa + c)
    BY <1>1, <1>6, MemoryBytes
  <2>2. /\ PageOf(InitRanges[j].va + b) = PageOf(HHDM) + PageOf(InitRanges[j].pa + b)
        /\ PageOf(InitRanges[k].va + c) = PageOf(HHDM) + PageOf(InitRanges[k].pa + c)
    BY <1>2, <1>3, <2>1, PageOfSum
  <2>3. /\ PageOf(HHDM) \in Nat /\ PageOf(InitRanges[j].pa + b) \in Nat
        /\ PageOf(InitRanges[k].pa + c) \in Nat
    BY <1>2, <1>3, <1>5
  <2> QED  BY <1>4, <2>2, <2>3
<1>7. CASE InitRanges[j] = Kernel /\ InitRanges[k] = Kernel
  <2>1. /\ PageOf(Kernel.va + b) = PageOf(Kernel.va) + PageOf(b)
        /\ PageOf(Kernel.va + c) = PageOf(Kernel.va) + PageOf(c)
        /\ PageOf(Kernel.pa + b) = PageOf(Kernel.pa) + PageOf(b)
        /\ PageOf(Kernel.pa + c) = PageOf(Kernel.pa) + PageOf(c)
    BY <1>2, <1>3, PageOfSum
  <2>2. PageOf(Kernel.va) \in Nat /\ PageOf(b) \in Nat /\ PageOf(c) \in Nat
    BY <1>2, <1>3, <1>5
  <2>3. PageOf(Kernel.va + b) = PageOf(Kernel.va + c)
    BY <1>4, <1>7
  <2>4. PageOf(b) = PageOf(c)
    BY <2>1, <2>2, <2>3
  <2> QED  BY <1>4, <1>7, <2>1, <2>4
<1>8. CASE IsMemory(j) /\ InitRanges[k] = Kernel
  <2>1. InitRanges[j].va + b < Kernel.va /\ Kernel.va <= InitRanges[k].va + c
    BY <1>1, <1>2, <1>3, <1>8, MemoryBytes
  <2> QED  BY <1>2, <1>3, <1>4, <2>1, PagesApart
<1>9. CASE InitRanges[j] = Kernel /\ IsMemory(k)
  <2>1. InitRanges[k].va + c < Kernel.va /\ Kernel.va <= InitRanges[j].va + b
    BY <1>1, <1>2, <1>3, <1>9, MemoryBytes
  <2> QED  BY <1>2, <1>3, <1>4, <2>1, PagesApart
<1> QED  BY <1>6, <1>7, <1>8, <1>9, RangeKinds

LEMMA MultipleMod ==
  ASSUME NEW n \in Nat \ {0}, NEW z \in Nat
  PROVE  (n * z) % n = 0
OBVIOUS

\* The sum of two aligned addresses is aligned.
LEMMA AlignedSum ==
  ASSUME NEW n \in Nat \ {0}, NEW x \in Nat, NEW y \in Nat, x % n = 0, y % n = 0
  PROVE  (x + y) % n = 0
<1> DEFINE p == x \div n
           q == y \div n
           u == n * p
           v == n * q
<1>1. p \in Nat /\ q \in Nat
  OBVIOUS
<1>2. x % n = x - n * p /\ y % n = y - n * q
  BY ModIs
<1> HIDE DEF p, q
<1>3. u \in Nat /\ v \in Nat /\ u + v = n * (p + q) /\ p + q \in Nat
  BY <1>1
<1>4. x - u = 0 /\ y - v = 0
  BY <1>2
<1> HIDE DEF u, v
<1>5. x + y = n * (p + q)
  BY <1>3, <1>4
<1> QED  BY <1>3, <1>5, MultipleMod

LEMMA LayoutCovered == LoaderLayout /\ MapAligned => RangesCovered
<1> SUFFICES ASSUME LoaderLayout, MapAligned, NEW k \in DOMAIN InitRanges
             PROVE  InitRanges[k].va % PAGE_SIZE = 0
  BY AlignedCovered
<1>1. PAGE_SIZE \in Nat \ {0} /\ HHDM \in Nat /\ HHDM % PAGE_SIZE = 0
  BY PageTablesAssumption DEF LoaderLayout
<1>2. CASE IsMemory(k)
  <2> DEFINE e == MemMap[k]
  <2>1. /\ e \in [base : Nat, length : Nat] /\ e.base % PAGE_SIZE = 0
        /\ InitRanges[k].pa = Shifted(e).base
    <3>1. e \in [base : Nat, length : Nat] /\ e.base % PAGE_SIZE = 0
      BY <1>2, RangesAre DEF IsMemory, MapAligned
    <3>2. InitRanges[k] = [pa |-> Shifted(e).base, va |-> Shifted(e).base + HHDM,
                           size |-> Shifted(e).length]
      BY <1>2, RangesAre DEF IsMemory
    <3> HIDE DEF e
    <3> QED  BY <3>1, <3>2
  <2> HIDE DEF e
  <2>2. Shifted(e).base \in Nat /\ Shifted(e).base % PAGE_SIZE = 0
    <3>1. PAGE_SIZE % PAGE_SIZE = 0
      BY <1>1
    <3> QED  BY <1>1, <2>1, <3>1 DEF Shifted
  <2>3. (Shifted(e).base + HHDM) % PAGE_SIZE = 0
    BY <1>1, <2>2, AlignedSum
  <2>4. InitRanges[k].va = Shifted(e).base + HHDM
    BY <1>2, <2>1 DEF IsMemory
  <2> QED  BY <2>3, <2>4
<1>3. CASE InitRanges[k] = Kernel
  BY <1>3 DEF LoaderLayout
<1> QED  BY <1>2, <1>3, RangeKinds

\* On the layout that the boot loader leaves: the page tables stay trees, no
\* translation dangles, only the caller's frames are freed and the tables
\* implement AddressSpace.
THEOREM LoadedTablesAreSafe ==
  LoaderLayout /\ CallersLow =>
    (Spec => /\ []TreeShaped /\ []TLBNeverDangles
             /\ FreesOnlyOwned /\ ImplementsAddressSpace)
BY LayoutHalves, LayoutAgree, PageTablesAreTrees, NoTranslationDangles, OnlyOwnedIsFreed,
   TablesImplementSpaces

\* On that layout, with a memory map of whole pages: all of the memory map and
\* the kernel stay mapped.
THEOREM LoadedKernelStaysMapped ==
  LoaderLayout /\ CallersLow /\ MapAligned => (Spec => []KernelMapped)
BY LayoutHalves, LayoutAgree, LayoutCovered, KernelStaysMapped
=============================================================================
