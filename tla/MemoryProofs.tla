----------------------------- MODULE MemoryProofs -----------------------------
(***************************************************************************)
(* Proofs about Memory: for memories of every size, bytes of every width   *)
(* and every content, the memory and string functions touch only what      *)
(* their arguments describe and do what string.h says they do.             *)
(***************************************************************************)
EXTENDS Memory, TLAPS, WellFoundedInduction

-----------------------------------------------------------------------------
(***************************************************************************)
(* The inductive invariant.                                                *)
(***************************************************************************)
NulAfter(a) == \E k \in Addrs : a <= k /\ old[k] = NUL

\* While a function runs its arguments are what a caller may pass, judged by
\* the memory as it was at the call.
CallInv ==
  pc # "idle" =>
    /\ call.op \in Ops \ {"none"}
    /\ call.d \in Addrs /\ call.s \in Addrs /\ call.n \in Lens
    /\ call.op \in {"memcpy", "memmove", "memcmp"} =>
         call.d + call.n <= TOP /\ call.s + call.n <= TOP
    /\ call.op = "memset" => call.d + call.n <= TOP
    /\ call.op \in {"strcmp", "strlen"} => NulAfter(call.d)
    /\ call.op = "strcmp" => NulAfter(call.s)
    /\ call.op = "strncmp" =>
         \A a \in {call.d, call.s} : NulAfter(a) \/ a + call.n <= TOP

\* The bytes of lo .. hi-1 of the copy have arrived and no other byte changed.
Copied(lo, hi) ==
  \A a \in Addrs : mem[a] = IF call.d + lo <= a /\ a < call.d + hi
                            THEN old[call.s + (a - call.d)] ELSE old[a]

MoveInv ==
  pc = "run" =>
    /\ call.op = "memcpy" => i <= call.n /\ ((Overlapping => call.d < call.s) => Copied(0, i))
    /\ MovesUp => i <= call.n /\ Copied(0, i)
    /\ MovesDown => i <= call.n /\ Copied(i, call.n)
    /\ call.op = "memmove" /\ call.s = call.d => i = call.n /\ mem = old
    /\ call.op = "memset" =>
         /\ i <= call.n
         /\ \A a \in Addrs : mem[a] = IF call.d <= a /\ a < call.d + i
                                      THEN call.c % BYTE ELSE old[a]

\* A comparison has found the first i characters the same, and a string
\* function no NUL among them.
ScanInv ==
  pc = "run" /\ call.op \in {"memcmp", "strcmp", "strncmp", "strlen"} =>
    /\ mem = old
    /\ call.op # "strlen" => SameFor(i)
    /\ call.op # "memcmp" => \A j \in Span(0, i) : old[call.d + j] # NUL
    /\ call.op \in {"memcmp", "strncmp"} => i <= call.n

IndInv == TypeOK /\ CallInv /\ MoveInv /\ ScanInv /\ StaysInside /\ DoesItsJob
-----------------------------------------------------------------------------
(***************************************************************************)
(* The length of a string.                                                 *)
(***************************************************************************)
\* A set of natural numbers that is not empty has a least element.
LEMMA LeastElement ==
  ASSUME NEW T \in SUBSET Nat, T # {}
  PROVE  \E x \in T : \A y \in T : x <= y
<1> DEFINE LT == {ss \in Nat \X Nat : ss[1] < ss[2]}
<1>1. IsWellFoundedOn(LT, Nat)
  BY NatLessThanWellFounded DEF OpToRel
<1>2. \A x, y \in Nat : <<y, x>> \in LT <=> y < x
  OBVIOUS
<1> HIDE DEF LT
<1>3. PICK x \in T : \A y \in T : ~ (<<y, x>> \in LT)
  BY <1>1, WFMin
<1>4. ASSUME NEW y \in T PROVE x <= y
  <2>1. x \in Nat /\ y \in Nat
    OBVIOUS
  <2>2. ~ (y < x)
    BY <1>2, <1>3, <2>1
  <2> QED  BY <2>1, <2>2
<1> QED  BY <1>4

\* n bytes from an address on are memory iff they end at TOP or before.
LEMMA SpanInside ==
  ASSUME NEW a \in Addrs, NEW n \in Lens, Span(a, n) \subseteq Addrs
  PROVE  a + n <= TOP
<1> USE MemoryAssumption
<1>1. CASE n = 0
  BY <1>1 DEF Addrs, Lens
<1>2. CASE n # 0
  <2>1. a + n - 1 \in Span(a, n)
    BY <1>2 DEF Span, Addrs, Lens
  <2> QED  BY <2>1 DEF Addrs, Lens
<1> QED  BY <1>1, <1>2

\* A string that is terminated has a length, which is the number of
\* characters before its first NUL.
LEMMA LengthExists ==
  ASSUME TypeOK, NEW a \in Addrs, NulAfter(a)
  PROVE  /\ StrLen(a) \in Lens /\ a + StrLen(a) \in Addrs
         /\ StringOf(a, StrLen(a))
<1> USE MemoryAssumption
<1> DEFINE T == {k \in Nat : a + k \in Addrs /\ old[a + k] = NUL}
<1>1. T # {}
  <2>1. PICK k \in Addrs : a <= k /\ old[k] = NUL
    BY DEF NulAfter
  <2>2. k - a \in Nat /\ a + (k - a) = k
    BY <2>1 DEF Addrs
  <2>3. k - a \in T
    BY <2>1, <2>2
  <2> QED  BY <2>3
<1>2. PICK x \in T : \A y \in T : x <= y
  BY <1>1, LeastElement
<1>3. x \in Lens /\ a + x \in Addrs
  BY <1>2 DEF Addrs, Lens
<1>4. ASSUME NEW j \in Span(a, x) PROVE old[j] # NUL
  <2>1. j - a \in Nat /\ a + (j - a) = j /\ j \in Addrs /\ j - a < x
    BY <1>3 DEF Addrs, Lens, Span
  <2>2. j - a \notin T
    BY <1>2, <1>3, <2>1 DEF Lens
  <2> QED  BY <2>1, <2>2
<1>5. StringOf(a, x)
  BY <1>2, <1>4 DEF StringOf
<1> HIDE DEF T
<1> QED  BY <1>3, <1>5 DEF StrLen

\* A function that has met no NUL yet is not past the end of its string.
LEMMA BeforeEnd ==
  ASSUME TypeOK, NEW a \in Addrs, NulAfter(a), NEW k \in Nat,
         \A j \in Span(0, k) : old[a + j] # NUL
  PROVE  k <= StrLen(a)
<1>1. StrLen(a) \in Nat /\ old[a + StrLen(a)] = NUL
  BY LengthExists DEF StringOf, Lens
<1>2. StrLen(a) < k => StrLen(a) \in Span(0, k)
  BY <1>1 DEF Span
<1> QED  BY <1>1, <1>2

\* The length depends only on the memory at the call, what a function may
\* look at also on the call.
LEMMA SameLength ==
  ASSUME UNCHANGED <<call, old>>
  PROVE  /\ \A a : StrLen(a)' = StrLen(a) /\ Looked(a)' = Looked(a)
         /\ Looked(call.d)' = Looked(call.d) /\ Looked(call.s)' = Looked(call.s)
<1>1. ASSUME NEW a PROVE StrLen(a)' = StrLen(a) /\ Looked(a)' = Looked(a)
  <2>1. StrLen(a)' = StrLen(a)
    BY DEF StrLen, StringOf
  <2> QED  BY <2>1 DEF Looked, Shorter
<1>2. StrLen(call.d)' = StrLen(call.d) /\ StrLen(call.s)' = StrLen(call.s)
  BY <1>1 DEF StrLen
<1>3. Looked(call.d)' = Looked(call.d) /\ Looked(call.s)' = Looked(call.s)
  BY <1>2 DEF Looked, Shorter
<1> QED  BY <1>1, <1>3

-----------------------------------------------------------------------------
(***************************************************************************)
(* Facts that the steps share.                                             *)
(***************************************************************************)
\* How far from its argument a a function may look.
Room(a) ==
  CASE call.op \in {"strcmp", "strlen"} -> StrLen(a) + 1
    [] call.op = "strncmp" -> Shorter(Looked(a) + 1, call.n)
    [] OTHER -> call.n

Inside == UNION {Span(a, Room(a)) : a \in Arguments}

LEMMA KeepCall ==
  ASSUME CallInv, pc # "idle", UNCHANGED <<call, old>>
  PROVE  CallInv'
BY DEF CallInv, NulAfter, Addrs, Lens

\* A step that looks only at what is inside keeps the function inside.
LEMMA KeepInside ==
  ASSUME StaysInside, pc = "run", UNCHANGED <<call, old>>,
         touched' \subseteq touched \cup Inside
  PROVE  StaysInside'
<1>1. touched \subseteq Inside
  BY DEF StaysInside, Inside, Room
<1>2. Inside' = Inside
  <2>1. ASSUME NEW a PROVE Room(a)' = Room(a)
    BY SameLength DEF Room, Shorter
  <2> QED  BY <2>1 DEF Inside, Arguments, Span
<1>3. touched' \subseteq Inside'
  BY <1>1, <1>2
<1> QED  BY <1>3 DEF StaysInside, Inside, Room

\* Where strcmp and strncmp read is memory and inside both strings, and a
\* string is over exactly where its NUL is met.
LEMMA StringRoom ==
  ASSUME TypeOK, CallInv, ScanInv, Running({"strcmp", "strncmp"}),
         NEW a \in {call.d, call.s}
  PROVE  /\ a \in Addrs
         /\ Looked(a) \in Nat /\ i <= Looked(a)
         /\ call.op = "strncmp" => Looked(a) <= call.n
         /\ ~CountedOut =>
              /\ a + i \in Addrs /\ a + i \in Inside
              /\ Looked(a) = i <=> old[a + i] = NUL
<1> USE MemoryAssumption
<1>1. a \in Addrs /\ call.n \in Nat /\ i \in Nat /\ call.op \in {"strcmp", "strncmp"}
  BY DEF Running, CallInv, TypeOK, Addrs, Lens
<1>2. \A j \in Span(0, i) : old[a + j] # NUL
  <2>1. SameFor(i) /\ \A j \in Span(0, i) : old[call.d + j] # NUL
    BY DEF ScanInv, Running
  <2> QED  BY <2>1 DEF SameFor
<1>3. a + i \in Span(a, Room(a)) => a + i \in Inside
  BY <1>1 DEF Inside, Arguments
<1>4. CASE NulAfter(a)
  <2>1. /\ StrLen(a) \in Nat /\ a + StrLen(a) \in Addrs
        /\ StringOf(a, StrLen(a)) /\ i <= StrLen(a)
    BY <1>1, <1>2, <1>4, LengthExists, BeforeEnd DEF Lens
  <2>2. a + i \in Addrs
    BY <1>1, <2>1 DEF Addrs
  <2>3. StrLen(a) = i <=> old[a + i] = NUL
    <3>1. ASSUME StrLen(a) # i PROVE old[a + i] # NUL
      <4>1. a + i \in Span(a, StrLen(a))
        BY <1>1, <2>1, <3>1 DEF Span, Addrs
      <4> QED  BY <2>1, <4>1 DEF StringOf
    <3> QED  BY <2>1, <3>1 DEF StringOf
  <2>4. CASE call.op = "strcmp"
    <3>1. Looked(a) = StrLen(a) /\ Room(a) = StrLen(a) + 1
      <4>1. Looked(a) = StrLen(a)
        BY <2>4 DEF Looked
      <4>2. Room(a) = StrLen(a) + 1
        BY <2>1, <2>4 DEF Room
      <4> QED  BY <4>1, <4>2
    <3>2. a + i \in Span(a, Room(a))
      BY <1>1, <2>1, <3>1 DEF Span, Addrs
    <3> QED  BY <1>1, <1>3, <2>1, <2>2, <2>3, <2>4, <3>1, <3>2
  <2>5. CASE call.op = "strncmp"
    <3>1. Looked(a) = Shorter(StrLen(a), call.n) /\ Room(a) = Shorter(Looked(a) + 1, call.n)
      BY <1>4, <2>5 DEF Looked, Room, NulAfter
    <3>2. i <= call.n
      BY <2>5 DEF ScanInv, Running
    <3>3. ~CountedOut => i < call.n
      BY <1>1, <2>5, <3>2 DEF CountedOut
    <3>4. i < call.n => a + i \in Span(a, Room(a))
      BY <1>1, <2>1, <3>1 DEF Span, Shorter, Addrs
    <3>5. /\ Looked(a) \in Nat /\ i <= Looked(a) /\ Looked(a) <= call.n
          /\ i < call.n => (Looked(a) = i <=> StrLen(a) = i)
      BY <1>1, <2>1, <3>1, <3>2 DEF Shorter
    <3> QED  BY <1>1, <1>3, <2>2, <2>3, <3>3, <3>4, <3>5
  <2> QED  BY <1>1, <2>4, <2>5
<1>5. CASE ~NulAfter(a)
  <2>1. call.op = "strncmp" /\ a + call.n <= TOP
    BY <1>1, <1>5 DEF CallInv, Running
  <2>2. Looked(a) = call.n /\ Room(a) = Shorter(Looked(a) + 1, call.n)
    BY <1>5, <2>1 DEF Looked, Room, NulAfter
  <2>3. i <= call.n
    BY <2>1 DEF ScanInv, Running
  <2>4. ASSUME ~CountedOut
        PROVE  i # call.n /\ a + i \in Addrs /\ a + i \in Span(a, Room(a)) /\ old[a + i] # NUL
    <3>1. i < call.n
      BY <1>1, <2>1, <2>3, <2>4 DEF CountedOut
    <3>2. a + i \in Addrs
      BY <1>1, <2>1, <3>1 DEF Addrs
    <3>3. a + i \in Span(a, Room(a))
      BY <1>1, <2>2, <3>1 DEF Span, Shorter, Addrs
    <3>4. a <= a + i
      BY <1>1 DEF Addrs
    <3>5. old[a + i] # NUL
      BY <1>5, <3>2, <3>4 DEF NulAfter
    <3> QED  BY <1>1, <3>1, <3>2, <3>3, <3>5
  <2> QED  BY <1>1, <1>3, <2>1, <2>2, <2>3, <2>4
<1> QED  BY <1>4, <1>5

\* strlen has not passed the end of its string either.
LEMMA LengthRoom ==
  ASSUME TypeOK, CallInv, ScanInv, Running({"strlen"})
  PROVE  /\ call.d \in Addrs /\ call.d + i \in Addrs /\ call.d + i \in Inside
<1> USE MemoryAssumption
<1>1. call.d \in Addrs /\ i \in Nat /\ call.op = "strlen" /\ NulAfter(call.d)
  BY DEF Running, CallInv, TypeOK
<1>2. \A j \in Span(0, i) : old[call.d + j] # NUL
  BY DEF ScanInv, Running
<1>3. StrLen(call.d) \in Nat /\ call.d + StrLen(call.d) \in Addrs /\ i <= StrLen(call.d)
  BY <1>1, <1>2, LengthExists, BeforeEnd DEF Lens
<1>4. Room(call.d) = StrLen(call.d) + 1 /\ Arguments = {call.d}
  BY <1>1 DEF Room, Arguments
<1>5. call.d + i \in Span(call.d, Room(call.d))
  BY <1>1, <1>3, <1>4 DEF Span, Addrs
<1> QED  BY <1>1, <1>3, <1>4, <1>5 DEF Inside, Addrs

\* Where the functions that are told how many bytes there are read and write.
LEMMA CountedRoom ==
  ASSUME TypeOK, CallInv, pc = "run", NEW k \in Nat, k < call.n
  PROVE  /\ call.op \in {"memcpy", "memmove", "memcmp"} =>
              /\ call.d + k \in Addrs /\ call.s + k \in Addrs
              /\ {call.d + k, call.s + k} \subseteq Inside
         /\ call.op = "memset" =>
              call.d + k \in Addrs /\ call.d + k \in Inside
<1> USE MemoryAssumption
<1>1. call.d \in Addrs /\ call.s \in Addrs /\ call.n \in Nat
  BY DEF CallInv, TypeOK
<1>2. ASSUME call.op \in {"memcpy", "memmove", "memcmp", "memset"},
             NEW a \in Arguments
      PROVE  a + k \in Inside
  <2>1. Room(a) = call.n
    BY <1>2 DEF Room
  <2>2. a \in Int
    BY <1>1 DEF Arguments, Addrs
  <2>3. a + k \in Span(a, Room(a))
    BY <1>1, <2>1, <2>2 DEF Span
  <2> QED  BY <2>3 DEF Inside
<1>3. CASE call.op \in {"memcpy", "memmove", "memcmp"}
  <2>1. call.d \in Arguments /\ call.s \in Arguments
    BY <1>3 DEF Arguments
  <2>2. call.d + k \in Addrs /\ call.s + k \in Addrs
    BY <1>1, <1>3 DEF CallInv, Addrs
  <2> QED  BY <1>2, <1>3, <2>1, <2>2
<1>4. CASE call.op = "memset"
  <2>1. call.d \in Arguments
    BY <1>4 DEF Arguments
  <2>2. call.d + k \in Addrs
    BY <1>1, <1>4 DEF CallInv, Addrs
  <2> QED  BY <1>2, <1>4, <2>1, <2>2
<1> QED  BY <1>3, <1>4

-----------------------------------------------------------------------------
(***************************************************************************)
(* The steps, one lemma for each action.                                   *)
(***************************************************************************)
LEMMA InitIndInv == Init => IndInv
BY MemoryAssumption
   DEF Init, IndInv, TypeOK, CallInv, MoveInv, ScanInv, StaysInside, DoesItsJob, NoCall, Ops

LEMMA StepCaller == IndInv /\ Caller => IndInv'
<1> SUFFICES ASSUME IndInv, Caller PROVE IndInv'
  OBVIOUS
<1> USE MemoryAssumption
<1>1. /\ TypeOK /\ pc = "idle" /\ pc' = "run"
      /\ mem' = mem /\ old' = mem /\ touched' = {} /\ ret' = 0
  BY DEF IndInv, Caller, Enter, memcpy, memset, memmove, memcmp, strcmp, strncmp, strlen
<1>2. SameFor(0)' /\ Span(0, 0) = {}
  BY DEF SameFor, Span
<1>3. CASE \E d, s \in Addrs, n \in Lens :
             /\ Span(d, n) \subseteq Addrs /\ Span(s, n) \subseteq Addrs
             /\ memcpy(d, s, n) \/ memmove(d, s, n) \/ memcmp(d, s, n)
  <2>1. PICK d \in Addrs, s \in Addrs, n \in Lens :
             /\ Span(d, n) \subseteq Addrs /\ Span(s, n) \subseteq Addrs
             /\ memcpy(d, s, n) \/ memmove(d, s, n) \/ memcmp(d, s, n)
    BY <1>3
  <2>2. d + n <= TOP /\ s + n <= TOP /\ d \in Nat /\ s \in Nat /\ n \in Nat
    BY <2>1, SpanInside DEF Addrs, Lens
  <2>3. /\ call'.op \in {"memcpy", "memmove", "memcmp"}
        /\ call'.d = d /\ call'.s = s /\ call'.n = n /\ call'.c = 0
        /\ call' = [op |-> call'.op, d |-> d, s |-> s, n |-> n, c |-> 0]
        /\ i' = IF call'.op = "memmove" /\ ~(s > d) THEN n ELSE 0
    BY <2>1 DEF memcpy, memmove, memcmp, Enter, NoCall
  <2>4. TypeOK'
    BY <1>1, <2>2, <2>3 DEF TypeOK, Ops
  <2>5. CallInv'
    BY <1>1, <2>1, <2>2, <2>3 DEF CallInv, Ops
  <2>6. MoveInv'
    BY <1>1, <2>2, <2>3 DEF MoveInv, Copied, MovesUp, MovesDown, Addrs
  <2>7. ScanInv'
    BY <1>1, <1>2, <2>2, <2>3 DEF ScanInv
  <2> QED  BY <1>1, <2>4, <2>5, <2>6, <2>7 DEF IndInv, StaysInside, DoesItsJob
<1>4. CASE \E d \in Addrs, n \in Lens, c \in Ints :
             Span(d, n) \subseteq Addrs /\ memset(d, c, n)
  <2>1. PICK d \in Addrs, n \in Lens, c \in Ints :
             Span(d, n) \subseteq Addrs /\ memset(d, c, n)
    BY <1>4
  <2>2. d + n <= TOP /\ d \in Nat /\ 0 \in Addrs /\ n \in Nat /\ c \in Int
    BY <2>1, SpanInside DEF Addrs, Lens
  <2>3. call' = [op |-> "memset", d |-> d, s |-> 0, n |-> n, c |-> c] /\ i' = 0
    BY <2>1 DEF memset, Enter, NoCall
  <2>4. TypeOK'
    BY <1>1, <2>2, <2>3 DEF TypeOK, Ops
  <2>5. CallInv'
    BY <1>1, <2>1, <2>2, <2>3 DEF CallInv, Ops
  <2>6. MoveInv'
    BY <1>1, <2>2, <2>3 DEF MoveInv, MovesUp, MovesDown, Addrs
  <2>7. ScanInv'
    BY <2>3 DEF ScanInv
  <2> QED  BY <1>1, <2>4, <2>5, <2>6, <2>7 DEF IndInv, StaysInside, DoesItsJob
<1>5. CASE \E d, s \in Addrs : Terminated(d) /\ Terminated(s) /\ strcmp(d, s)
  <2>1. PICK d \in Addrs, s \in Addrs : Terminated(d) /\ Terminated(s) /\ strcmp(d, s)
    BY <1>5
  <2>2. d \in Nat /\ s \in Nat /\ 0 \in Lens
    BY DEF Addrs, Lens
  <2>3. call' = [op |-> "strcmp", d |-> d, s |-> s, n |-> 0, c |-> 0] /\ i' = 0
    BY <2>1 DEF strcmp, Enter, NoCall
  <2>4. TypeOK'
    BY <1>1, <2>2, <2>3 DEF TypeOK, Ops
  <2>5. CallInv'
    BY <1>1, <2>1, <2>2, <2>3 DEF CallInv, Ops, NulAfter, Terminated
  <2>6. MoveInv'
    BY <2>3 DEF MoveInv, MovesUp, MovesDown
  <2>7. ScanInv'
    BY <1>1, <1>2, <2>3 DEF ScanInv
  <2> QED  BY <1>1, <2>4, <2>5, <2>6, <2>7 DEF IndInv, StaysInside, DoesItsJob
<1>6. CASE \E d, s \in Addrs, n \in Lens :
             /\ \A a \in {d, s} : Terminated(a) \/ Span(a, n) \subseteq Addrs
             /\ strncmp(d, s, n)
  <2>1. PICK d \in Addrs, s \in Addrs, n \in Lens :
             /\ \A a \in {d, s} : Terminated(a) \/ Span(a, n) \subseteq Addrs
             /\ strncmp(d, s, n)
    BY <1>6
  <2>2. d \in Nat /\ s \in Nat /\ n \in Nat
    BY DEF Addrs, Lens
  <2>3. call' = [op |-> "strncmp", d |-> d, s |-> s, n |-> n, c |-> 0] /\ i' = 0
    BY <2>1 DEF strncmp, Enter, NoCall
  <2>4. TypeOK'
    BY <1>1, <2>2, <2>3 DEF TypeOK, Ops
  <2>5. CallInv'
    <3>1. \A a \in {d, s} : Terminated(a) \/ a + n <= TOP
      BY <2>1, SpanInside
    <3> QED  BY <1>1, <2>1, <2>2, <2>3, <3>1 DEF CallInv, Ops, NulAfter, Terminated
  <2>6. MoveInv'
    BY <2>3 DEF MoveInv, MovesUp, MovesDown
  <2>7. ScanInv'
    BY <1>1, <1>2, <2>2, <2>3 DEF ScanInv
  <2> QED  BY <1>1, <2>4, <2>5, <2>6, <2>7 DEF IndInv, StaysInside, DoesItsJob
<1>7. CASE \E s \in Addrs : Terminated(s) /\ strlen(s)
  <2>1. PICK s \in Addrs : Terminated(s) /\ strlen(s)
    BY <1>7
  <2>2. s \in Nat /\ 0 \in Addrs /\ 0 \in Lens
    BY DEF Addrs, Lens
  <2>3. call' = [op |-> "strlen", d |-> s, s |-> 0, n |-> 0, c |-> 0] /\ i' = 0
    BY <2>1 DEF strlen, Enter, NoCall
  <2>4. TypeOK'
    BY <1>1, <2>2, <2>3 DEF TypeOK, Ops
  <2>5. CallInv'
    BY <1>1, <2>1, <2>2, <2>3 DEF CallInv, Ops, NulAfter, Terminated
  <2>6. MoveInv'
    BY <2>3 DEF MoveInv, MovesUp, MovesDown
  <2>7. ScanInv'
    BY <1>1, <1>2, <2>3 DEF ScanInv
  <2> QED  BY <1>1, <2>4, <2>5, <2>6, <2>7 DEF IndInv, StaysInside, DoesItsJob
<1> QED  BY <1>3, <1>4, <1>5, <1>6, <1>7 DEF Caller

LEMMA StepResume == IndInv /\ Resume => IndInv'
BY MemoryAssumption
   DEF Resume, IndInv, TypeOK, CallInv, MoveInv, ScanInv, StaysInside, DoesItsJob, NoCall, Ops

LEMMA StepCopyUp == IndInv /\ CopyUp => IndInv'
<1> SUFFICES ASSUME IndInv, CopyUp PROVE IndInv'
  OBVIOUS
<1> USE MemoryAssumption
<1>1. /\ TypeOK /\ CallInv /\ MoveInv /\ StaysInside
      /\ pc = "run" /\ call.op \in {"memcpy", "memmove"} /\ i \in Nat /\ i < call.n
      /\ call.op = "memcpy" \/ MovesUp
      /\ mem' = [mem EXCEPT ![call.d + i] = mem[call.s + i]]
      /\ touched' = touched \cup Here /\ i' = i + 1
      /\ UNCHANGED <<pc, call, ret, old>>
  BY DEF IndInv, CopyUp, Goto, MovesUp, TypeOK
<1>2. /\ call.d \in Addrs /\ call.s \in Addrs /\ call.n \in Nat
      /\ call.d + i \in Addrs /\ call.s + i \in Addrs /\ Here \subseteq Inside
  BY <1>1, CountedRoom DEF CallInv, Here, TypeOK
<1>3. TypeOK'
  <2>1. mem' \in [Addrs -> Bytes]
    BY <1>1, <1>2 DEF TypeOK
  <2>2. touched' \subseteq Int
    <3>1. touched \subseteq Int
      BY <1>1 DEF TypeOK
    <3>2. Here \subseteq Int
      BY <1>1, <1>2 DEF Addrs, Here
    <3> QED  BY <1>1, <3>1, <3>2
  <2> QED  BY <1>1, <2>1, <2>2 DEF TypeOK
<1>4. CallInv'
  BY <1>1, KeepCall
<1>5. ASSUME call.s > call.d \/ ~Overlapping, Copied(0, i)
      PROVE  Copied(0, i)'
  <2>1. ~ (call.d <= call.s + i /\ call.s + i < call.d + i)
    <3>1. CASE call.s > call.d
      BY <1>1, <1>2, <3>1 DEF Addrs
    <3>2. CASE ~Overlapping
      <4>1. call.s + i \in Span(call.s, call.n)
        BY <1>1, <1>2 DEF Span, Addrs
      <4>2. call.s + i \notin Span(call.d, call.n)
        BY <3>2, <4>1 DEF Overlapping
      <4> QED  BY <1>1, <1>2, <4>2 DEF Span, Addrs
    <3> QED  BY <1>5, <3>1, <3>2
  <2>2. mem[call.s + i] = old[call.s + i]
    BY <1>1, <1>2, <1>5, <2>1 DEF Copied, Addrs
  <2>3. call.s + ((call.d + i) - call.d) = call.s + i
    BY <1>1, <1>2 DEF Addrs
  <2>4. ASSUME NEW a \in Addrs
        PROVE  mem'[a] = IF call.d + 0 <= a /\ a < call.d + (i + 1)
                         THEN old[call.s + (a - call.d)] ELSE old[a]
    <3>1. CASE a = call.d + i
      BY <1>1, <1>2, <2>2, <2>3, <3>1 DEF TypeOK, Addrs
    <3>2. CASE a # call.d + i
      <4>1. mem'[a] = mem[a]
        BY <1>1, <3>2 DEF TypeOK
      <4>2. a < call.d + (i + 1) <=> a < call.d + i
        BY <1>1, <1>2, <3>2 DEF Addrs
      <4> QED  BY <1>5, <4>1, <4>2 DEF Copied
    <3> QED  BY <3>1, <3>2
  <2> QED  BY <1>1, <2>4 DEF Copied
<1>6. MoveInv'
  <2>1. CASE MovesUp
    <3>1. Copied(0, i) /\ call.s > call.d
      BY <1>1, <2>1 DEF MoveInv, MovesUp
    <3>3. Copied(0, i)'
      BY <1>5, <3>1
    <3> QED  BY <1>1, <1>2, <2>1, <3>1, <3>3 DEF MoveInv, MovesUp, MovesDown, Addrs
  <2>2. CASE call.op = "memcpy"
    <3>1. ASSUME Overlapping => call.d < call.s PROVE Copied(0, i)'
      <4>1. Copied(0, i)
        BY <1>1, <2>2, <3>1 DEF MoveInv
      <4>2. call.s > call.d \/ ~Overlapping
        BY <1>2, <3>1 DEF Addrs
      <4> QED  BY <1>5, <4>1, <4>2
    <3>2. (Overlapping => call.d < call.s)' => Copied(0, i)'
      BY <1>1, <3>1 DEF Overlapping
    <3> QED  BY <1>1, <1>2, <2>2, <3>2 DEF MoveInv, MovesUp, MovesDown, Addrs
  <2> QED  BY <1>1, <2>1, <2>2
<1>7. ScanInv'
  BY <1>1 DEF ScanInv
<1>8. StaysInside'
  BY <1>1, <1>2, KeepInside
<1> QED  BY <1>1, <1>3, <1>4, <1>6, <1>7, <1>8 DEF IndInv, DoesItsJob

LEMMA StepCopyDown == IndInv /\ CopyDown => IndInv'
<1> SUFFICES ASSUME IndInv, CopyDown PROVE IndInv'
  OBVIOUS
<1> USE MemoryAssumption
<1>1. /\ TypeOK /\ CallInv /\ MoveInv /\ StaysInside
      /\ pc = "run" /\ MovesDown /\ call.op = "memmove" /\ i \in Nat /\ i > 0
      /\ mem' = [mem EXCEPT ![call.d + i - 1] = mem[call.s + i - 1]]
      /\ touched' = touched \cup {call.d + i - 1, call.s + i - 1} /\ i' = i - 1
      /\ UNCHANGED <<pc, call, ret, old>>
  BY DEF IndInv, CopyDown, Goto, MovesDown, TypeOK
<1>2. /\ call.d \in Addrs /\ call.s \in Addrs /\ call.n \in Nat /\ call.s < call.d
      /\ i <= call.n /\ Copied(i, call.n)
  BY <1>1 DEF CallInv, TypeOK, MoveInv, MovesDown
<1>3. /\ i - 1 \in Nat /\ i - 1 < call.n
      /\ call.d + i - 1 = call.d + (i - 1) /\ call.s + i - 1 = call.s + (i - 1)
  BY <1>1, <1>2 DEF Addrs
<1>4. /\ call.d + i - 1 \in Addrs /\ call.s + i - 1 \in Addrs
      /\ {call.d + i - 1, call.s + i - 1} \subseteq Inside
  <2>1. /\ call.d + (i - 1) \in Addrs /\ call.s + (i - 1) \in Addrs
        /\ {call.d + (i - 1), call.s + (i - 1)} \subseteq Inside
    BY <1>1, <1>3, CountedRoom
  <2> QED  BY <1>3, <2>1
<1>5. TypeOK'
  <2>1. mem' \in [Addrs -> Bytes]
    BY <1>1, <1>4 DEF TypeOK
  <2>2. touched' \subseteq Int
    <3>1. touched \subseteq Int
      BY <1>1 DEF TypeOK
    <3>2. {call.d + i - 1, call.s + i - 1} \subseteq Int
      BY <1>4 DEF Addrs
    <3> QED  BY <1>1, <3>1, <3>2
  <2> QED  BY <1>1, <1>3, <2>1, <2>2 DEF TypeOK
<1>6. CallInv'
  BY <1>1, KeepCall
<1>7. mem[call.s + i - 1] = old[call.s + i - 1]
  <2>1. ~ (call.d + i <= call.s + i - 1)
    BY <1>1, <1>2 DEF Addrs
  <2> QED  BY <1>2, <1>4, <2>1 DEF Copied
<1>8. ASSUME NEW a \in Addrs
      PROVE  mem'[a] = IF call.d + (i - 1) <= a /\ a < call.d + call.n
                       THEN old[call.s + (a - call.d)] ELSE old[a]
  <2>1. CASE a = call.d + i - 1
    <3>1. call.s + (a - call.d) = call.s + i - 1
      BY <1>1, <1>2, <2>1 DEF Addrs
    <3>2. call.d + (i - 1) <= a /\ a < call.d + call.n
      BY <1>1, <1>2, <2>1 DEF Addrs
    <3>3. mem'[a] = old[call.s + i - 1]
      BY <1>1, <1>7, <2>1 DEF TypeOK
    <3> QED  BY <3>1, <3>2, <3>3
  <2>2. CASE a # call.d + i - 1
    <3>1. mem'[a] = mem[a]
      BY <1>1, <2>2 DEF TypeOK
    <3>2. call.d + (i - 1) <= a <=> call.d + i <= a
      BY <1>1, <1>2, <2>2 DEF Addrs
    <3> QED  BY <1>2, <3>1, <3>2 DEF Copied
  <2> QED  BY <2>1, <2>2
<1>9. MoveInv'
  <2>1. Copied(i, call.n)'
    BY <1>1, <1>8 DEF Copied
  <2> QED  BY <1>1, <1>2, <1>3, <2>1 DEF MoveInv, MovesUp, MovesDown, Addrs
<1>10. ScanInv'
  BY <1>1 DEF ScanInv
<1>11. StaysInside'
  BY <1>1, <1>4, KeepInside
<1> QED  BY <1>1, <1>5, <1>6, <1>9, <1>10, <1>11 DEF IndInv, DoesItsJob

LEMMA StepFill == IndInv /\ Fill => IndInv'
<1> SUFFICES ASSUME IndInv, Fill PROVE IndInv'
  OBVIOUS
<1> USE MemoryAssumption
<1>1. /\ TypeOK /\ CallInv /\ MoveInv /\ StaysInside
      /\ pc = "run" /\ call.op = "memset" /\ i \in Nat /\ i < call.n
      /\ mem' = [mem EXCEPT ![call.d + i] = call.c % BYTE]
      /\ touched' = touched \cup {call.d + i} /\ i' = i + 1
      /\ UNCHANGED <<pc, call, ret, old>>
  BY DEF IndInv, Fill, Running, Stored, Goto, TypeOK
<1>2. /\ call.d \in Addrs /\ call.n \in Nat /\ call.c \in Int
      /\ call.d + i \in Addrs /\ {call.d + i} \subseteq Inside
  BY <1>1, CountedRoom DEF CallInv, TypeOK
<1>3. call.c % BYTE \in Bytes
  BY <1>2 DEF Bytes
<1>4. TypeOK'
  <2>1. mem' \in [Addrs -> Bytes]
    BY <1>1, <1>2, <1>3 DEF TypeOK
  <2>2. touched' \subseteq Int
    <3>1. touched \subseteq Int
      BY <1>1 DEF TypeOK
    <3>2. {call.d + i} \subseteq Int
      BY <1>2 DEF Addrs
    <3> QED  BY <1>1, <3>1, <3>2
  <2> QED  BY <1>1, <2>1, <2>2 DEF TypeOK
<1>5. CallInv'
  BY <1>1, KeepCall
<1>6. MoveInv'
  <2>1. ASSUME NEW a \in Addrs
        PROVE  mem'[a] = IF call.d <= a /\ a < call.d + (i + 1) THEN call.c % BYTE ELSE old[a]
    <3>1. mem[a] = IF call.d <= a /\ a < call.d + i THEN call.c % BYTE ELSE old[a]
      BY <1>1 DEF MoveInv
    <3>2. CASE a = call.d + i
      BY <1>1, <1>2, <3>2 DEF TypeOK, Addrs
    <3>3. CASE a # call.d + i
      <4>1. mem'[a] = mem[a]
        BY <1>1, <3>3 DEF TypeOK
      <4>2. a < call.d + (i + 1) <=> a < call.d + i
        BY <1>1, <1>2, <3>3 DEF Addrs
      <4> QED  BY <3>1, <4>1, <4>2
    <3> QED  BY <3>2, <3>3
  <2>2. i + 1 <= call.n
    BY <1>1, <1>2
  <2> QED  BY <1>1, <2>1, <2>2 DEF MoveInv, MovesUp, MovesDown
<1>7. ScanInv'
  BY <1>1 DEF ScanInv
<1>8. StaysInside'
  BY <1>1, <1>2, KeepInside
<1> QED  BY <1>1, <1>4, <1>5, <1>6, <1>7, <1>8 DEF IndInv, DoesItsJob

\* memcpy, memmove and memset have done their job when their loop is done.
LEMMA StepStop == IndInv /\ Stop => IndInv'
<1> SUFFICES ASSUME IndInv, Stop PROVE IndInv'
  OBVIOUS
<1> USE MemoryAssumption
<1>1. /\ TypeOK /\ CallInv /\ MoveInv /\ StaysInside
      /\ pc = "run" /\ pc' = "done" /\ call.op \in {"memcpy", "memset", "memmove"}
      /\ IF MovesDown THEN i = 0 ELSE i = call.n
      /\ ret' = 0 /\ UNCHANGED <<mem, call, i, old, touched>>
  BY DEF IndInv, Stop, Running, Return
<1>2. /\ call.d \in Addrs /\ call.s \in Addrs /\ call.n \in Nat /\ mem \in [Addrs -> Bytes]
      /\ old \in [Addrs -> Bytes]
  BY <1>1 DEF CallInv, TypeOK
<1>3. ASSUME Copied(0, call.n) PROVE Moved
  BY <1>2, <1>3 DEF Copied, Moved, Span, Addrs
<1>4. ASSUME call.op = "memmove" PROVE Moved
  <2>1. CASE MovesDown
    <3>1. Copied(0, call.n)
      BY <1>1, <2>1 DEF MoveInv
    <3> QED  BY <1>3, <3>1
  <2>2. CASE MovesUp
    <3>1. ~MovesDown
      BY <1>2, <2>2 DEF MovesUp, MovesDown, Addrs
    <3>2. Copied(0, call.n)
      BY <1>1, <2>2, <3>1 DEF MoveInv
    <3> QED  BY <1>3, <3>2
  <2>3. CASE call.s = call.d
    <3>1. mem = old
      BY <1>1, <1>4, <2>3 DEF MoveInv
    <3>2. \A a \in Addrs : call.s + (a - call.d) = a
      BY <1>2, <2>3 DEF Addrs
    <3> QED  BY <1>2, <3>1, <3>2 DEF Moved
  <2>4. call.s < call.d \/ call.s > call.d \/ call.s = call.d
    BY <1>2 DEF Addrs
  <2> QED  BY <1>4, <2>1, <2>2, <2>3, <2>4 DEF MovesUp, MovesDown
<1>5. ASSUME call.op = "memcpy", Overlapping => call.d < call.s PROVE Moved
  <2>1. i = call.n
    BY <1>1, <1>5 DEF MovesDown
  <2>2. Copied(0, call.n)
    BY <1>1, <1>5, <2>1 DEF MoveInv
  <2> QED  BY <1>3, <2>2
<1>6. ASSUME call.op = "memset"
      PROVE  mem = [a \in Addrs |-> IF a \in Span(call.d, call.n)
                                    THEN call.c % BYTE ELSE old[a]]
  <2>1. i = call.n
    BY <1>1, <1>6 DEF MovesDown
  <2>2. \A a \in Addrs : mem[a] = IF call.d <= a /\ a < call.d + call.n
                                  THEN call.c % BYTE ELSE old[a]
    BY <1>1, <1>6, <2>1 DEF MoveInv
  <2>3. \A a \in Addrs : a \in Span(call.d, call.n) <=> call.d <= a /\ a < call.d + call.n
    BY <1>2 DEF Span, Addrs
  <2> QED  BY <1>2, <2>2, <2>3
<1>7. DoesItsJob'
  <2>1. CASE call.op = "memmove"
    <3>1. Moved'
      BY <1>1, <1>4, <2>1 DEF Moved
    <3> QED  BY <1>1, <2>1, <3>1 DEF DoesItsJob
  <2>2. CASE call.op = "memcpy"
    <3>1. (Overlapping => call.d < call.s)' => Moved'
      BY <1>1, <1>5, <2>2 DEF Moved, Overlapping
    <3> QED  BY <1>1, <2>2, <3>1 DEF DoesItsJob
  <2>3. CASE call.op = "memset"
    BY <1>1, <1>6, <2>3 DEF DoesItsJob
  <2> QED  BY <1>1, <2>1, <2>2, <2>3
<1>8. StaysInside'
  BY <1>1, KeepInside
<1>9. TypeOK'
  BY <1>1 DEF TypeOK
<1> QED  BY <1>1, <1>7, <1>8, <1>9, KeepCall DEF IndInv, MoveInv, ScanInv

\* A step that reads and goes on, or returns, keeps the types.
LEMMA KeepTypes ==
  ASSUME TypeOK, UNCHANGED <<mem, call, old>>,
         touched' \subseteq touched \cup Addrs, pc' \in {"run", "done"}, i' \in Nat, ret' \in Int
  PROVE  TypeOK'
<1>1. touched' \subseteq Int
  <2>1. touched \subseteq Int
    BY DEF TypeOK
  <2>2. Addrs \subseteq Int
    BY MemoryAssumption DEF Addrs
  <2> QED  BY <2>1, <2>2
<1> QED  BY <1>1 DEF TypeOK

LEMMA StepMemEqual == IndInv /\ MemEqual => IndInv'
<1> SUFFICES ASSUME IndInv, MemEqual PROVE IndInv'
  OBVIOUS
<1> USE MemoryAssumption
<1>1. /\ TypeOK /\ CallInv /\ ScanInv /\ StaysInside
      /\ pc = "run" /\ call.op = "memcmp" /\ i \in Nat /\ call.n \in Nat /\ i < call.n
      /\ mem[call.d + i] = mem[call.s + i] /\ touched' = touched \cup Here
      /\ i' = i + 1 /\ UNCHANGED <<mem, pc, call, ret, old>> /\ ret \in Int
  BY DEF IndInv, MemEqual, Running, Goto, TypeOK
<1>2. Here \subseteq Addrs /\ Here \subseteq Inside
  BY <1>1, CountedRoom DEF Here
<1>3. TypeOK'
  BY <1>1, <1>2, KeepTypes
<1>4. ScanInv'
  <2>1. mem = old /\ SameFor(i)
    BY <1>1 DEF ScanInv
  <2>2. \A j \in Span(0, i + 1) : j \in Span(0, i) \/ j = i
    BY <1>1 DEF Span
  <2>3. SameFor(i)'
    BY <1>1, <2>1, <2>2 DEF SameFor
  <2>4. i + 1 <= call.n
    BY <1>1
  <2> QED  BY <1>1, <2>1, <2>3, <2>4 DEF ScanInv
<1>5. StaysInside'
  BY <1>1, <1>2, KeepInside
<1> QED  BY <1>1, <1>3, <1>4, <1>5, KeepCall
         DEF IndInv, DoesItsJob, MoveInv, MovesUp, MovesDown

\* What comes first: the areas at d and s are the same up to i.
LEMMA FirstDifference ==
  ASSUME i \in Nat, SameFor(i), NEW m \in Nat, NEW n \in Nat, i < m, i < n,
         old[call.d + i] # old[call.s + i],
         \A j \in Span(0, i) : old[call.d + j] \in Int
  PROVE  /\ ~SameFor(m)
         /\ Before(m, n) <=> old[call.d + i] < old[call.s + i]
<1>1. ASSUME NEW k \in Nat, i < k PROVE ~SameFor(k)
  <2>1. i \in Span(0, k)
    BY <1>1 DEF Span
  <2> QED  BY <2>1 DEF SameFor
<1>2. ASSUME old[call.d + i] < old[call.s + i] PROVE Before(m, n)
  <2>1. i \in Span(0, m + 1) /\ i <= n
    BY DEF Span
  <2> QED  BY <1>2, <2>1 DEF Before
<1>3. ASSUME Before(m, n) PROVE old[call.d + i] < old[call.s + i]
  <2>1. PICK k \in Span(0, m + 1) :
          /\ k <= n /\ SameFor(k)
          /\ \/ k = m /\ k < n
             \/ k < m /\ k < n /\ old[call.d + k] < old[call.s + k]
    BY <1>3 DEF Before
  <2>2. k \in Nat
    BY DEF Span
  <2>3. k <= i
    BY <1>1, <2>1, <2>2
  <2>4. old[call.d + k] < old[call.s + k]
    BY <2>1, <2>2, <2>3
  <2>5. ~ (k < i)
    <3> SUFFICES ASSUME k < i PROVE FALSE
      OBVIOUS
    <3>1. k \in Span(0, i)
      BY <2>2 DEF Span
    <3> QED  BY <2>4, <3>1 DEF SameFor
  <2>6. k = i
    BY <2>2, <2>3, <2>5
  <2> QED  BY <2>4, <2>6
<1> QED  BY <1>1, <1>2, <1>3

\* Of two areas that are the same neither comes first.
LEMMA SameNotBefore ==
  ASSUME NEW m \in Nat, SameFor(m), \A j \in Span(0, m) : old[call.d + j] \in Int
  PROVE  ~Before(m, m)
<1> SUFFICES ASSUME Before(m, m) PROVE FALSE
  OBVIOUS
<1>1. PICK k \in Span(0, m + 1) : k < m /\ old[call.d + k] < old[call.s + k]
  BY DEF Before, Span
<1>2. k \in Span(0, m)
  BY <1>1 DEF Span
<1> QED  BY <1>1, <1>2 DEF SameFor

LEMMA AreaOfInts ==
  ASSUME TypeOK, CallInv, pc = "run", call.op = "memcmp"
  PROVE  \A j \in Span(0, call.n) : old[call.d + j] \in Int
<1> USE MemoryAssumption
<1>1. ASSUME NEW j \in Span(0, call.n) PROVE old[call.d + j] \in Int
  <2>1. j \in Nat /\ j < call.n
    BY DEF Span, TypeOK
  <2>2. call.d + j \in Addrs
    BY <2>1, CountedRoom
  <2> QED  BY <2>2 DEF TypeOK, Bytes
<1> QED  BY <1>1

LEMMA StepMemDiffers == IndInv /\ MemDiffers => IndInv'
<1> SUFFICES ASSUME IndInv, MemDiffers PROVE IndInv'
  OBVIOUS
<1> USE MemoryAssumption
<1> DEFINE x == mem[call.d + i]
           y == mem[call.s + i]
<1>1. /\ TypeOK /\ CallInv /\ ScanInv /\ StaysInside
      /\ pc = "run" /\ call.op = "memcmp" /\ i \in Nat /\ call.n \in Nat /\ i < call.n
      /\ x # y /\ touched' = touched \cup Here
      /\ ret' = (IF x < y THEN -1 ELSE 1) /\ pc' = "done"
      /\ UNCHANGED <<mem, call, i, old>>
  BY DEF IndInv, MemDiffers, Running, Return, TypeOK
<1>2. Here \subseteq Addrs /\ Here \subseteq Inside
  BY <1>1, CountedRoom DEF Here
<1>3. TypeOK'
  BY <1>1, <1>2, KeepTypes
<1>4. DoesItsJob'
  <2>1. mem = old /\ SameFor(i)
    BY <1>1 DEF ScanInv
  <2>2. ~SameFor(call.n) /\ (Before(call.n, call.n) <=> x < y)
    <3>1. \A j \in Span(0, i) : j \in Span(0, call.n)
      BY <1>1 DEF Span
    <3>2. \A j \in Span(0, i) : old[call.d + j] \in Int
      BY <1>1, <3>1, AreaOfInts
    <3> QED  BY <1>1, <2>1, <3>2, FirstDifference
  <2>3. (SameFor(call.n) <=> SameFor(call.n)') /\ (Before(call.n, call.n) <=> Before(call.n, call.n)')
    BY <1>1 DEF SameFor, Before
  <2>4. ret' # 0 /\ (ret' < 0 <=> x < y)
    BY <1>1
  <2> HIDE DEF x, y
  <2> QED  BY <1>1, <2>1, <2>2, <2>3, <2>4 DEF DoesItsJob
<1>5. StaysInside'
  BY <1>1, <1>2, KeepInside
<1> QED  BY <1>1, <1>3, <1>4, <1>5, KeepCall DEF IndInv, ScanInv, MoveInv

LEMMA StepMemEnd == IndInv /\ MemEnd => IndInv'
<1> SUFFICES ASSUME IndInv, MemEnd PROVE IndInv'
  OBVIOUS
<1> USE MemoryAssumption
<1>1. /\ TypeOK /\ CallInv /\ ScanInv /\ StaysInside
      /\ pc = "run" /\ call.op = "memcmp" /\ i \in Nat /\ i = call.n
      /\ ret' = 0 /\ pc' = "done" /\ UNCHANGED <<mem, call, i, old, touched>>
  BY DEF IndInv, MemEnd, Running, Return, TypeOK
<1>2. TypeOK'
  BY <1>1 DEF TypeOK
<1>3. DoesItsJob'
  <2>1. mem = old /\ SameFor(call.n)
    BY <1>1 DEF ScanInv
  <2>2. \A j \in Span(0, call.n) : old[call.d + j] \in Int
    BY <1>1, AreaOfInts
  <2>3. ~Before(call.n, call.n)
    BY <1>1, <2>1, <2>2, SameNotBefore
  <2>4. (SameFor(call.n) <=> SameFor(call.n)') /\ (Before(call.n, call.n) <=> Before(call.n, call.n)')
    BY <1>1 DEF SameFor, Before
  <2>5. mem' = old' /\ (ret' = 0 <=> SameFor(call.n)') /\ (ret' < 0 <=> Before(call.n, call.n)')
    BY <1>1, <2>1, <2>3, <2>4
  <2> QED  BY <1>1, <2>5 DEF DoesItsJob
<1>4. StaysInside'
  BY <1>1, KeepInside
<1> QED  BY <1>1, <1>2, <1>3, <1>4, KeepCall DEF IndInv, ScanInv, MoveInv

\* char is signed, and a char below 128 is its byte.
LEMMA CharOrder ==
  ASSUME NEW x \in Bytes, NEW y \in Bytes
  PROVE  /\ Char(x) - Char(y) \in Int
         /\ Char(x) - Char(y) = 0 <=> x = y
         /\ 2 * x < BYTE /\ 2 * y < BYTE => (Char(x) - Char(y) < 0 <=> x < y)
BY MemoryAssumption DEF Char, Bytes

\* The strings before the place reached are bytes.
LEMMA StringOfInts ==
  ASSUME TypeOK, CallInv, ScanInv, Running({"strcmp", "strncmp"}), ~CountedOut,
         NEW j \in Span(0, i)
  PROVE  old[call.d + j] \in Int
<1> USE MemoryAssumption
<1>1. call.d \in Addrs /\ call.d + i \in Addrs /\ i \in Nat
  BY StringRoom DEF TypeOK
<1>2. call.d + j \in Addrs
  BY <1>1 DEF Addrs, Span
<1> QED  BY <1>2 DEF TypeOK, Bytes

\* Where two strings part, the difference of the characters tells how.
LEMMA StringsPart ==
  ASSUME TypeOK, CallInv, ScanInv, Running({"strcmp", "strncmp"}), ~CountedOut, ~SameChars,
         NEW r, r = Char(mem[call.d + i]) - Char(mem[call.s + i]),
         NEW m, m = Looked(call.d), NEW n, n = Looked(call.s)
  PROVE  /\ r \in Int
         /\ r = 0 <=> m = n /\ SameFor(m)
         /\ Ascii(call.d, m) /\ Ascii(call.s, n) => (r < 0 <=> Before(m, n))
<1> USE MemoryAssumption
<1> DEFINE x == old[call.d + i]
           y == old[call.s + i]
<1>1. /\ mem = old /\ SameFor(i) /\ i \in Nat /\ \A j \in Span(0, i) : old[call.d + j] \in Int
  BY StringOfInts DEF ScanInv, Running, TypeOK
<1>2. /\ m \in Nat /\ i <= m /\ (m = i <=> x = NUL)
      /\ call.d \in Addrs /\ call.d + i \in Addrs
  BY StringRoom
<1>3. /\ n \in Nat /\ i <= n /\ (n = i <=> y = NUL)
      /\ call.s \in Addrs /\ call.s + i \in Addrs
  BY StringRoom
<1>4. x \in Bytes /\ y \in Bytes
  BY <1>2, <1>3 DEF TypeOK
<1>5. x = y => x = NUL
  BY <1>1 DEF SameChars
<1>6. i < m => (Ascii(call.d, m) => 2 * x < BYTE)
  <2>1. i < m => call.d + i \in Span(call.d, m)
    BY <1>1, <1>2 DEF Span, Addrs
  <2> QED  BY <2>1 DEF Ascii
<1>7. i < n => (Ascii(call.s, n) => 2 * y < BYTE)
  <2>1. i < n => call.s + i \in Span(call.s, n)
    BY <1>1, <1>3 DEF Span, Addrs
  <2> QED  BY <2>1 DEF Ascii
<1>8. r = Char(x) - Char(y)
  BY <1>1
<1>9. /\ r \in Int /\ (r = 0 <=> x = y)
      /\ 2 * x < BYTE /\ 2 * y < BYTE => (r < 0 <=> x < y)
  BY <1>4, <1>8, CharOrder
<1>10. NUL \in Bytes /\ 2 * NUL < BYTE /\ x >= NUL /\ y >= NUL /\ x \in Int /\ y \in Int
  BY <1>4 DEF Bytes, NUL
<1> HIDE DEF x, y
<1>11. CASE x = y
  <2>1. m = i /\ n = i
    BY <1>2, <1>3, <1>5, <1>11
  <2>2. ~Before(m, n)
    BY <1>1, <2>1, SameNotBefore
  <2> QED  BY <1>1, <1>9, <1>11, <2>1, <2>2
<1>12. CASE x # y /\ i < m /\ i < n
  <2>1. ~SameFor(m) /\ (Before(m, n) <=> x < y)
    BY <1>1, <1>2, <1>3, <1>12, FirstDifference DEF x, y
  <2> QED  BY <1>6, <1>7, <1>9, <1>12, <2>1
<1>13. CASE x # y /\ m = i
  <2>1. x = NUL /\ y # NUL /\ i < n
    BY <1>1, <1>2, <1>3, <1>13
  <2>2. Before(m, n)
    <3>1. i \in Span(0, m + 1)
      BY <1>1, <1>13 DEF Span
    <3> QED  BY <1>1, <1>3, <1>13, <2>1, <3>1 DEF Before
  <2>3. x < y
    BY <1>10, <2>1
  <2>4. m # n
    BY <1>1, <1>13, <2>1
  <2> QED  BY <1>7, <1>9, <1>10, <2>1, <2>2, <2>3, <2>4
<1>14. CASE x # y /\ n = i
  <2>1. y = NUL /\ x # NUL /\ i < m
    BY <1>1, <1>2, <1>3, <1>14
  <2>2. ~Before(m, n)
    <3> SUFFICES ASSUME Before(m, n) PROVE FALSE
      OBVIOUS
    <3>1. PICK k \in Span(0, m + 1) : k < n /\ (k = m \/ old[call.d + k] < old[call.s + k])
      BY DEF Before
    <3>2. k \in Span(0, i) /\ k # m
      BY <1>1, <1>2, <1>14, <2>1, <3>1 DEF Span
    <3> QED  BY <1>1, <3>1, <3>2 DEF SameFor
  <2>3. ~ (x < y)
    BY <1>10, <2>1
  <2>4. m # n
    BY <1>1, <1>14, <2>1
  <2> QED  BY <1>6, <1>9, <1>10, <2>1, <2>2, <2>3, <2>4
<1> QED  BY <1>1, <1>2, <1>3, <1>11, <1>12, <1>13, <1>14

LEMMA StepStrEqual == IndInv /\ StrEqual => IndInv'
<1> SUFFICES ASSUME IndInv, StrEqual PROVE IndInv'
  OBVIOUS
<1> USE MemoryAssumption
<1>1. /\ TypeOK /\ CallInv /\ ScanInv /\ StaysInside
      /\ Running({"strcmp", "strncmp"}) /\ ~CountedOut /\ SameChars
      /\ pc = "run" /\ call.op \in {"strcmp", "strncmp"} /\ i \in Nat /\ call.n \in Nat
      /\ touched' = touched \cup Here /\ i' = i + 1
      /\ UNCHANGED <<mem, pc, call, ret, old>> /\ ret \in Int
  BY DEF IndInv, StrEqual, Running, Goto, TypeOK
<1>2. Here \subseteq Addrs /\ Here \subseteq Inside
  BY <1>1, StringRoom DEF Here
<1>3. TypeOK'
  BY <1>1, <1>2, KeepTypes
<1>4. ScanInv'
  <2>1. mem = old /\ SameFor(i) /\ \A j \in Span(0, i) : old[call.d + j] # NUL
    BY <1>1 DEF ScanInv
  <2>2. \A j \in Span(0, i + 1) : j \in Span(0, i) \/ j = i
    BY <1>1 DEF Span
  <2>3. SameFor(i)'
    BY <1>1, <2>1, <2>2 DEF SameFor, SameChars
  <2>4. \A j \in Span(0, i + 1) : old[call.d + j] # NUL
    BY <1>1, <2>1, <2>2 DEF SameChars
  <2>5. call.op = "strncmp" => i + 1 <= call.n
    BY <1>1 DEF CountedOut, ScanInv
  <2> QED  BY <1>1, <2>1, <2>3, <2>4, <2>5 DEF ScanInv
<1>5. StaysInside'
  BY <1>1, <1>2, KeepInside
<1> QED  BY <1>1, <1>3, <1>4, <1>5, KeepCall
         DEF IndInv, DoesItsJob, MoveInv, MovesUp, MovesDown

\* What DoesItsJob says of strcmp and strncmp.
Compared ==
  LET m == Looked(call.d) n == Looked(call.s) IN
  /\ mem = old
  /\ ret = 0 <=> m = n /\ SameFor(m)
  /\ Ascii(call.d, m) /\ Ascii(call.s, n) => (ret < 0 <=> Before(m, n))

LEMMA ComparedIsJob ==
  ASSUME call' = call, call.op \in {"strcmp", "strncmp"}, Compared'
  PROVE  DoesItsJob'
BY DEF DoesItsJob, Compared

LEMMA StepStrDiffers == IndInv /\ StrDiffers => IndInv'
<1> SUFFICES ASSUME IndInv, StrDiffers PROVE IndInv'
  OBVIOUS
<1> USE MemoryAssumption
<1>1. /\ TypeOK /\ CallInv /\ ScanInv /\ StaysInside
      /\ Running({"strcmp", "strncmp"}) /\ ~CountedOut /\ ~SameChars
      /\ pc = "run" /\ call.op \in {"strcmp", "strncmp"} /\ i \in Nat
      /\ touched' = touched \cup Here /\ pc' = "done"
      /\ ret' = Char(mem[call.d + i]) - Char(mem[call.s + i])
      /\ UNCHANGED <<mem, call, i, old>>
  BY DEF IndInv, StrDiffers, Running, Return, TypeOK
<1>2. Here \subseteq Addrs /\ Here \subseteq Inside
  BY <1>1, StringRoom DEF Here
<1> DEFINE m == Looked(call.d)
           n == Looked(call.s)
<1>3. /\ ret' \in Int
      /\ ret' = 0 <=> m = n /\ SameFor(m)
      /\ Ascii(call.d, m) /\ Ascii(call.s, n) => (ret' < 0 <=> Before(m, n))
  BY <1>1, StringsPart
<1>4. TypeOK'
  BY <1>1, <1>2, <1>3, KeepTypes
<1>5. DoesItsJob'
  <2>1. mem = old
    BY <1>1 DEF ScanInv
  <2>2. Looked(call.d)' = Looked(call.d) /\ Looked(call.s)' = Looked(call.s)
    BY <1>1, SameLength
  <2>3. Compared'
    BY <1>1, <1>3, <2>1, <2>2 DEF Compared, SameFor, Ascii, Before
  <2> QED  BY <1>1, <2>3, ComparedIsJob
<1>6. StaysInside'
  BY <1>1, <1>2, KeepInside
<1> QED  BY <1>1, <1>4, <1>5, <1>6, KeepCall DEF IndInv, ScanInv, MoveInv

LEMMA StepStrEnd == IndInv /\ StrEnd => IndInv'
<1> SUFFICES ASSUME IndInv, StrEnd PROVE IndInv'
  OBVIOUS
<1> USE MemoryAssumption
<1>1. /\ TypeOK /\ CallInv /\ ScanInv /\ StaysInside
      /\ Running({"strcmp", "strncmp"}) /\ CountedOut
      /\ pc = "run" /\ call.op = "strncmp" /\ i \in Nat /\ i = call.n
      /\ pc' = "done" /\ ret' = 0 /\ UNCHANGED <<mem, call, i, old, touched>>
  BY DEF IndInv, StrEnd, Running, Return, TypeOK, CountedOut
<1>2. TypeOK'
  BY <1>1 DEF TypeOK
<1>3. DoesItsJob'
  <2>1. mem = old /\ SameFor(i)
    BY <1>1 DEF ScanInv
  <2>2. Looked(call.d) = i /\ Looked(call.s) = i
    BY <1>1, StringRoom
  <2>3. \A j \in Span(0, i) : old[call.d + j] \in Int
    <3>1. ASSUME NEW j \in Span(0, i) PROVE old[call.d + j] \in Int
      <4>1. j \in Nat /\ j < i /\ call.d \in Addrs
        BY <1>1 DEF Span, CallInv
      <4>2. call.d + j \in Addrs
        <5>1. CASE call.d + call.n <= TOP
          BY <1>1, <4>1, <5>1 DEF Addrs
        <5>2. CASE NulAfter(call.d)
          <6>1. i <= StrLen(call.d) /\ call.d + StrLen(call.d) \in Addrs /\ StrLen(call.d) \in Nat
            BY <1>1, <4>1, <5>2, LengthExists, BeforeEnd DEF ScanInv, Lens
          <6> QED  BY <1>1, <4>1, <6>1 DEF Addrs
        <5> QED  BY <1>1, <5>1, <5>2 DEF CallInv
      <4> QED  BY <1>1, <4>2 DEF TypeOK, Bytes
    <3> QED  BY <3>1
  <2>4. ~Before(i, i)
    BY <1>1, <2>1, <2>3, SameNotBefore
  <2>5. Looked(call.d)' = i /\ Looked(call.s)' = i
    BY <1>1, <2>2, SameLength
  <2>6. Compared'
    BY <1>1, <2>1, <2>4, <2>5 DEF Compared, SameFor, Ascii, Before
  <2> QED  BY <1>1, <2>6, ComparedIsJob
<1>4. StaysInside'
  BY <1>1, KeepInside
<1> QED  BY <1>1, <1>2, <1>3, <1>4, KeepCall DEF IndInv, ScanInv, MoveInv

LEMMA StepLenCount == IndInv /\ LenCount => IndInv'
<1> SUFFICES ASSUME IndInv, LenCount PROVE IndInv'
  OBVIOUS
<1> USE MemoryAssumption
<1>1. /\ TypeOK /\ CallInv /\ ScanInv /\ StaysInside
      /\ Running({"strlen"}) /\ mem[call.d + i] # NUL
      /\ pc = "run" /\ call.op = "strlen" /\ i \in Nat
      /\ touched' = touched \cup {call.d + i} /\ i' = i + 1
      /\ UNCHANGED <<mem, pc, call, ret, old>> /\ ret \in Int
  BY DEF IndInv, LenCount, Running, Goto, TypeOK
<1>2. {call.d + i} \subseteq Addrs /\ {call.d + i} \subseteq Inside
  BY <1>1, LengthRoom
<1>3. TypeOK'
  BY <1>1, <1>2, KeepTypes
<1>4. ScanInv'
  <2>1. mem = old /\ \A j \in Span(0, i) : old[call.d + j] # NUL
    BY <1>1 DEF ScanInv
  <2>2. \A j \in Span(0, i + 1) : j \in Span(0, i) \/ j = i
    BY <1>1 DEF Span
  <2> QED  BY <1>1, <2>1, <2>2 DEF ScanInv
<1>5. StaysInside'
  BY <1>1, <1>2, KeepInside
<1> QED  BY <1>1, <1>3, <1>4, <1>5, KeepCall
         DEF IndInv, DoesItsJob, MoveInv, MovesUp, MovesDown

LEMMA StepLenEnd == IndInv /\ LenEnd => IndInv'
<1> SUFFICES ASSUME IndInv, LenEnd PROVE IndInv'
  OBVIOUS
<1> USE MemoryAssumption
<1>1. /\ TypeOK /\ CallInv /\ ScanInv /\ StaysInside
      /\ Running({"strlen"}) /\ mem[call.d + i] = NUL
      /\ pc = "run" /\ call.op = "strlen" /\ i \in Nat
      /\ touched' = touched \cup {call.d + i} /\ pc' = "done" /\ ret' = i
      /\ UNCHANGED <<mem, call, i, old>>
  BY DEF IndInv, LenEnd, Running, Return, TypeOK
<1>2. call.d \in Addrs /\ {call.d + i} \subseteq Addrs /\ {call.d + i} \subseteq Inside
  BY <1>1, LengthRoom
<1>3. TypeOK'
  BY <1>1, <1>2, KeepTypes
<1>4. DoesItsJob'
  <2>1. mem = old /\ \A j \in Span(0, i) : old[call.d + j] # NUL
    BY <1>1 DEF ScanInv
  <2>2. ASSUME NEW j \in Span(call.d, i) PROVE old[j] # NUL
    <3>1. j - call.d \in Span(0, i) /\ call.d + (j - call.d) = j
      BY <1>1, <1>2 DEF Span, Addrs
    <3> QED  BY <2>1, <3>1
  <2> QED  BY <1>1, <2>1, <2>2 DEF DoesItsJob, StringOf
<1>5. StaysInside'
  BY <1>1, <1>2, KeepInside
<1> QED  BY <1>1, <1>3, <1>4, <1>5, KeepCall DEF IndInv, ScanInv, MoveInv

LEMMA NextIndInv == IndInv /\ [Next]_vars => IndInv'
<1> SUFFICES ASSUME IndInv, [Next]_vars PROVE IndInv'
  OBVIOUS
<1>1. CASE Step
  BY <1>1, StepCopyUp, StepCopyDown, StepFill, StepStop, StepMemEqual, StepMemDiffers,
     StepMemEnd, StepStrEqual, StepStrDiffers, StepStrEnd, StepLenCount, StepLenEnd
     DEF Step
<1>2. CASE UNCHANGED vars
  <2>1. \A a : StrLen(a)' = StrLen(a) /\ Looked(a)' = Looked(a)
    BY <1>2, SameLength DEF vars
  <2>2. TypeOK' /\ CallInv' /\ MoveInv' /\ ScanInv'
    BY <1>2 DEF vars, IndInv, TypeOK, CallInv, NulAfter, MoveInv, MovesUp, MovesDown,
       Copied, Overlapping, ScanInv, SameFor
  <2>3. StaysInside'
    BY <1>2, <2>1 DEF vars, IndInv, StaysInside, Arguments, Shorter
  <2>4. DoesItsJob'
    <3>1. Looked(call.d)' = Looked(call.d) /\ Looked(call.s)' = Looked(call.s)
      BY <1>2, SameLength DEF vars
    <3> QED  BY <1>2, <3>1 DEF vars, IndInv, DoesItsJob, Moved, Overlapping, SameFor, Before,
       Ascii, StringOf
  <2> QED  BY <2>2, <2>3, <2>4 DEF IndInv
<1> QED  BY <1>1, <1>2, StepCaller, StepResume DEF Next

-----------------------------------------------------------------------------
(***************************************************************************)
(* The theorems.                                                           *)
(***************************************************************************)
LEMMA Inductive == Spec => []IndInv
BY InitIndInv, NextIndInv, PTL DEF Spec

\* The variables keep their types: no function stores what is not a byte, and
\* no result is computed from a read outside memory.
THEOREM MemoryTypes == Spec => []TypeOK
<1>1. IndInv => TypeOK
  BY DEF IndInv
<1> QED  BY <1>1, Inductive, PTL

\* Whatever memory holds and however the arguments overlap, no function reads
\* or writes outside what its arguments describe.
THEOREM NoStrayAccess == Spec => []StaysInside
<1>1. IndInv => StaysInside
  BY DEF IndInv
<1> QED  BY <1>1, Inductive, PTL

\* Every function of string.c does its job: memmove moves whatever the
\* overlap, memcpy where dest is the lower area or the areas are apart, memset
\* fills, strlen counts; memcmp, strcmp and strncmp tell equal from different
\* for every content, memcmp also which is the greater.  strcmp and strncmp
\* tell the greater of ASCII strings only: they compare signed characters, so
\* of the order of other strings nothing is claimed.
THEOREM StringFunctionsCorrect == Spec => []DoesItsJob
<1>1. IndInv => DoesItsJob
  BY DEF IndInv
<1> QED  BY <1>1, Inductive, PTL
=============================================================================
