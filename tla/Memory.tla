--------------------------------- MODULE Memory ---------------------------------
(***************************************************************************)
(* The memory and string functions of symphony/string.c on a byte-         *)
(* addressed memory, one loop iteration per step.  GCC calls the first     *)
(* four by itself, and the rest of the kernel uses them by their effect.   *)
(*                                                                         *)
(* The first argument of a call is d (dest, s or s1), the second s (src or *)
(* s2).  Names ending in _mut are faulty variants of what follows them.    *)
(***************************************************************************)
EXTENDS Integers

CONSTANTS
  BYTE,   \* number of values of a uint8_t (256)
  TOP,    \* addresses are 0 .. TOP-1
  Ints    \* the values callers pass to memset

ASSUME MemoryAssumption ==
  /\ BYTE \in Nat /\ BYTE > 1
  /\ TOP \in Nat
  /\ Ints \subseteq Int

VARIABLES
  mem,      \* the bytes
  pc,       \* "idle", "run" or "done"
  call,     \* the running function and its arguments
  i,        \* iterations done; in memmove's second loop, those left to do
  ret,      \* what an int or size_t function returned
  old,      \* the memory when the function was called
  touched   \* the addresses that the function has read or written

vars == <<mem, pc, call, i, ret, old, touched>>

Addrs == 0 .. (TOP - 1)

Bytes == 0 .. (BYTE - 1)

Span(a, n) == a .. (a + n - 1)

NUL == 0

\* char is signed on x86-64.
Char(b) == IF 2 * b < BYTE THEN b ELSE b - BYTE

-----------------------------------------------------------------------------
NoCall == [op |-> "none", d |-> 0, s |-> 0, n |-> 0, c |-> 0]

Init ==
  /\ mem \in [Addrs -> Bytes]
  /\ pc = "idle" /\ call = NoCall /\ i = 0 /\ ret = 0
  /\ old = mem /\ touched = {}

Enter(c, start) ==
  /\ pc' = "run" /\ call' = c /\ i' = start /\ ret' = 0
  /\ old' = mem /\ touched' = {}
  /\ UNCHANGED mem

Goto(k) == i' = k /\ UNCHANGED <<pc, call, ret, old>>

Return(r) == pc' = "done" /\ ret' = r /\ UNCHANGED <<mem, call, i, old>>

Running(ops) == pc = "run" /\ call.op \in ops

\* The pointers as the loop has advanced them.
Here == {call.d + i, call.s + i}

-----------------------------------------------------------------------------
(***************************************************************************)
(* memcpy, memset and memmove.                                             *)
(***************************************************************************)
memcpy(d, s, n) == Enter([NoCall EXCEPT !.op = "memcpy", !.d = d, !.s = s, !.n = n], 0)

memset(s, c, n) == Enter([NoCall EXCEPT !.op = "memset", !.d = s, !.c = c, !.n = n], 0)

\* The first loop counts up, the second down.
memmove(d, s, n) ==
  Enter([NoCall EXCEPT !.op = "memmove", !.d = d, !.s = s, !.n = n],
        IF s > d THEN 0 ELSE n)

MovesUp_mut ==  \* the order of the arguments is not looked at
  call.op = "memmove" /\ call.s # call.d

MovesUp == call.op = "memmove" /\ call.s > call.d

MovesDown == call.op = "memmove" /\ call.s < call.d

CopyUp ==
  /\ pc = "run" /\ (call.op = "memcpy" \/ MovesUp)
  /\ i < call.n
  /\ mem' = [mem EXCEPT ![call.d + i] = mem[call.s + i]]
  /\ touched' = touched \cup Here
  /\ Goto(i + 1)

CopyDown ==
  /\ pc = "run" /\ MovesDown
  /\ i > 0
  /\ mem' = [mem EXCEPT ![call.d + i - 1] = mem[call.s + i - 1]]
  /\ touched' = touched \cup {call.d + i - 1, call.s + i - 1}
  /\ Goto(i - 1)

Stored_mut(c) ==  \* the int is not narrowed
  c

Stored(c) == c % BYTE

Fill ==
  /\ Running({"memset"}) /\ i < call.n
  /\ mem' = [mem EXCEPT ![call.d + i] = Stored(call.c)]
  /\ touched' = touched \cup {call.d + i}
  /\ Goto(i + 1)

\* The loop is done; with src = dest memmove has none.
Stop ==
  /\ Running({"memcpy", "memset", "memmove"})
  /\ IF MovesDown THEN i = 0 ELSE i = call.n
  /\ Return(0) /\ UNCHANGED touched

-----------------------------------------------------------------------------
(***************************************************************************)
(* memcmp.                                                                 *)
(***************************************************************************)
memcmp(s1, s2, n) == Enter([NoCall EXCEPT !.op = "memcmp", !.d = s1, !.s = s2, !.n = n], 0)

MemEqual ==
  /\ Running({"memcmp"}) /\ i < call.n
  /\ mem[call.d + i] = mem[call.s + i]
  /\ touched' = touched \cup Here
  /\ UNCHANGED mem
  /\ Goto(i + 1)

MemDiffers ==
  /\ Running({"memcmp"}) /\ i < call.n
  /\ mem[call.d + i] # mem[call.s + i]
  /\ touched' = touched \cup Here
  /\ Return(IF mem[call.d + i] < mem[call.s + i] THEN -1 ELSE 1)

MemEnd ==
  /\ Running({"memcmp"}) /\ i = call.n
  /\ Return(0) /\ UNCHANGED touched

-----------------------------------------------------------------------------
(***************************************************************************)
(* strcmp, strncmp and strlen.                                             *)
(***************************************************************************)
strcmp(s1, s2) == Enter([NoCall EXCEPT !.op = "strcmp", !.d = s1, !.s = s2], 0)

strncmp(s1, s2, n) == Enter([NoCall EXCEPT !.op = "strncmp", !.d = s1, !.s = s2, !.n = n], 0)

CountedOut_mut ==  \* one character more
  call.op = "strncmp" /\ i = call.n + 1

\* n has been counted down to 0.
CountedOut == call.op = "strncmp" /\ i = call.n

SameChars == /\ mem[call.d + i] # NUL /\ mem[call.s + i] # NUL
             /\ mem[call.d + i] = mem[call.s + i]

StrEqual ==
  /\ Running({"strcmp", "strncmp"}) /\ ~CountedOut /\ SameChars
  /\ touched' = touched \cup Here
  /\ UNCHANGED mem
  /\ Goto(i + 1)

StrDiffers ==
  /\ Running({"strcmp", "strncmp"}) /\ ~CountedOut /\ ~SameChars
  /\ touched' = touched \cup Here
  /\ Return(Char(mem[call.d + i]) - Char(mem[call.s + i]))

StrEnd ==
  /\ Running({"strcmp", "strncmp"}) /\ CountedOut
  /\ Return(0) /\ UNCHANGED touched

strlen(s) == Enter([NoCall EXCEPT !.op = "strlen", !.d = s], 0)

LenCount ==
  /\ Running({"strlen"}) /\ mem[call.d + i] # NUL
  /\ touched' = touched \cup {call.d + i}
  /\ UNCHANGED mem
  /\ Goto(i + 1)

LenEnd ==
  /\ Running({"strlen"}) /\ mem[call.d + i] = NUL
  /\ touched' = touched \cup {call.d + i}
  /\ Return(i)

-----------------------------------------------------------------------------
(***************************************************************************)
(* Callers pass memory that exists, and strings that are terminated or, to *)
(* strncmp, at least n characters long.                                    *)
(***************************************************************************)
Terminated(a) == \E k \in Addrs : a <= k /\ mem[k] = NUL

Lens == 0 .. TOP

Caller ==
  /\ pc = "idle"
  /\ \/ \E d, s \in Addrs, n \in Lens :
          /\ Span(d, n) \subseteq Addrs /\ Span(s, n) \subseteq Addrs
          /\ memcpy(d, s, n) \/ memmove(d, s, n) \/ memcmp(d, s, n)
     \/ \E d \in Addrs, n \in Lens, c \in Ints :
          Span(d, n) \subseteq Addrs /\ memset(d, c, n)
     \/ \E d, s \in Addrs : Terminated(d) /\ Terminated(s) /\ strcmp(d, s)
     \/ \E d, s \in Addrs, n \in Lens :
          /\ \A a \in {d, s} : Terminated(a) \/ Span(a, n) \subseteq Addrs
          /\ strncmp(d, s, n)
     \/ \E s \in Addrs : Terminated(s) /\ strlen(s)

\* The caller has the result and goes on.
Resume ==
  /\ pc = "done"
  /\ pc' = "idle" /\ call' = NoCall /\ i' = 0 /\ ret' = 0
  /\ old' = mem /\ touched' = {}
  /\ UNCHANGED mem

Step ==
  \/ CopyUp \/ CopyDown \/ Fill \/ Stop
  \/ MemEqual \/ MemDiffers \/ MemEnd
  \/ StrEqual \/ StrDiffers \/ StrEnd
  \/ LenCount \/ LenEnd

Next == Caller \/ Step \/ Resume

Spec == Init /\ [][Next]_vars

-----------------------------------------------------------------------------
(***************************************************************************)
(* Properties.                                                             *)
(***************************************************************************)
Ops == {"none", "memcpy", "memset", "memmove", "memcmp", "strcmp", "strncmp", "strlen"}

TypeOK ==
  /\ mem \in [Addrs -> Bytes] /\ old \in [Addrs -> Bytes]
  /\ pc \in {"idle", "run", "done"}
  /\ call \in [op : Ops, d : Nat, s : Nat, n : Nat, c : Int]
  /\ i \in Nat /\ ret \in Int
  /\ touched \subseteq Int

\* The k characters from address a on, and then a NUL.
StringOf(a, k) == (\A j \in Span(a, k) : old[j] # NUL) /\ old[a + k] = NUL

StrLen(a) == CHOOSE k \in Lens : a + k \in Addrs /\ StringOf(a, k)

Shorter(m, n) == IF m < n THEN m ELSE n

Arguments == IF call.op \in {"memset", "strlen"} THEN {call.d} ELSE {call.d, call.s}

\* The characters that a string function may look at.
Looked(a) ==
  IF call.op # "strncmp" THEN StrLen(a)
  ELSE IF \E k \in Addrs : a <= k /\ old[k] = NUL THEN Shorter(StrLen(a), call.n)
  ELSE call.n

\* No function reads or writes outside the memory its arguments describe: n
\* bytes, or the string with its NUL, or its first n characters if it is
\* longer, however the two arguments overlap.
StaysInside ==
  pc # "idle" =>
    touched \subseteq
      UNION {Span(a, CASE call.op \in {"strcmp", "strlen"} -> StrLen(a) + 1
                       [] call.op = "strncmp" -> Shorter(Looked(a) + 1, call.n)
                       [] OTHER -> call.n) : a \in Arguments}

\* The n bytes at s appear at d as if they had gone through a buffer, and no
\* other byte has changed.
Moved == mem = [a \in Addrs |-> IF a \in Span(call.d, call.n)
                                THEN old[call.s + (a - call.d)] ELSE old[a]]

Overlapping == Span(call.d, call.n) \cap Span(call.s, call.n) # {}

SameFor(k) == \A j \in Span(0, k) : old[call.d + j] = old[call.s + j]

\* The m bytes at d come before the n bytes at s in the dictionary.
Before(m, n) ==
  \E k \in Span(0, m + 1) :
    /\ k <= n /\ SameFor(k)
    /\ \/ k = m /\ k < n
       \/ k < m /\ k < n /\ old[call.d + k] < old[call.s + k]

Ascii(a, k) == \A j \in Span(a, k) : 2 * old[j] < BYTE

\* What each function is for (string.h): memmove moves whatever the overlap,
\* memcpy where the areas do not overlap or dest is the lower one, the
\* comparisons tell equal from different and, for memory and for ASCII
\* strings, which one is the greater; only the first three write.  string.c
\* orders characters from 128 on before all others, so the order of strings
\* with such characters is left out.
DoesItsJob ==
  pc = "done" =>
    CASE call.op = "memmove" -> Moved
      [] call.op = "memcpy" -> (Overlapping => call.d < call.s) => Moved
      [] call.op = "memset" ->
           mem = [a \in Addrs |-> IF a \in Span(call.d, call.n)
                                  THEN call.c % BYTE ELSE old[a]]
      [] call.op = "memcmp" ->
           /\ mem = old
           /\ ret = 0 <=> SameFor(call.n)
           /\ ret < 0 <=> Before(call.n, call.n)
      [] call.op \in {"strcmp", "strncmp"} ->
           LET m == Looked(call.d) n == Looked(call.s) IN
           /\ mem = old
           /\ ret = 0 <=> m = n /\ SameFor(m)
           /\ Ascii(call.d, m) /\ Ascii(call.s, n) => (ret < 0 <=> Before(m, n))
      [] call.op = "strlen" -> mem = old /\ StringOf(call.d, ret)
=============================================================================
