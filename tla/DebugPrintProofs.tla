---------------------------- MODULE DebugPrintProofs ----------------------------
(***************************************************************************)
(* Proofs about DebugPrint.  For every format string, however long and     *)
(* wherever it ends, the scan of debug_vprintf stays inside it and comes   *)
(* closer to its end with every step.  For every argument whose digits fit *)
(* a word in reverse, debug_print_int prints the argument; all hexadecimal *)
(* numbers do.                                                             *)
(*                                                                         *)
(* The loops of debug_print_int are recursive functions of the model.  What*)
(* they compute is proved by induction over sets of natural numbers.       *)
(***************************************************************************)
EXTENDS DebugPrint, WellFoundedInduction, SequenceTheorems, TLAPS

InDirective == {"flags", "width", "length", "print"}

\* The scan, without the output.
ScanInv ==
  /\ fmt \in Formats
  /\ pc \in {"call", "next", "done"} \cup InDirective
  /\ i \in Nat \ {0}
  /\ flags \subseteq FlagChars
  /\ width \in Nat /\ (pc \in {"length", "print"} => width <= MAX_WIDTH)
  /\ length \in {"NONE", "INT", "LONG", "LONG_LONG", "WORD", "PTR"}
  /\ pc \in InDirective => i <= Len(fmt) + 1

LEMMA FormatIs ==
  ASSUME ScanInv
  PROVE  Len(fmt) \in Nat /\ DOMAIN fmt = 1 .. Len(fmt)
BY DebugPrintAssumption DEF ScanInv

\* A character that is neither NUL nor behind it is one of the string.
LEMMA AtIs ==
  ASSUME ScanInv, NEW p \in Nat \ {0}, At(p) \notin {"NUL", "beyond"}
  PROVE  p <= Len(fmt)
BY FormatIs DEF At

\* A digit is neither.
LEMMA DigitIs ==
  ASSUME NEW c, IsDigit(c)
  PROVE  c \notin {"NUL", "beyond"} /\ DigitValue(c) \in Nat
<1>1. DOMAIN Digits = 1 .. 16
  BY DEF Digits
<1>2. \A p \in 1 .. 10 : Digits[p] \notin {"NUL", "beyond"}
  BY DEF Digits
<1> PICK p \in 1 .. 10 : Digits[p] = c
  BY DEF IsDigit
<1>3. c \notin {"NUL", "beyond"}
  BY <1>2
<1> DEFINE q == CHOOSE k \in DOMAIN Digits : Digits[k] = c
<1>4. q \in 1 .. 16
  <2>1. p \in 1 .. 16
    OBVIOUS
  <2> QED  BY <1>1, <2>1
<1>5. DigitValue(c) = q - 1
  BY DEF DigitValue
<1> HIDE DEF q
<1> QED  BY <1>3, <1>4, <1>5

LEMMA FlagIs ==
  ASSUME NEW c \in FlagChars
  PROVE  c \notin {"NUL", "beyond"}
BY DEF FlagChars

\* A length has no more characters than there are.
LEMMA LengthIs ==
  ASSUME ScanInv, i <= Len(fmt) + 1
  PROVE  /\ LengthOf(At(i), At(i + 1))[1] \in {"INT", "LONG", "LONG_LONG", "WORD", "PTR"}
         /\ LengthOf(At(i), At(i + 1))[2] \in 0 .. 2
         /\ i + LengthOf(At(i), At(i + 1))[2] <= Len(fmt) + 1
<1> DEFINE c == At(i)
           d == At(i + 1)
<1>1. i \in Nat \ {0} /\ i + 1 \in Nat \ {0} /\ Len(fmt) \in Nat
  BY FormatIs DEF ScanInv
<1>2. c \notin {"NUL", "beyond"} => i <= Len(fmt)
  BY <1>1, AtIs
<1>3. d \notin {"NUL", "beyond"} => i + 1 <= Len(fmt)
  BY <1>1, AtIs
<1> HIDE DEF c, d
<1>4. CASE c = "h"
  <2>1. CASE d = "h"
    <3>1. LengthOf(c, d) = << "INT", 2 >>
      BY <1>4, <2>1 DEF LengthOf
    <3> QED  BY <1>1, <1>3, <2>1, <3>1 DEF c, d
  <2>2. CASE d # "h"
    <3>1. LengthOf(c, d) = << "INT", 1 >>
      BY <1>4, <2>2 DEF LengthOf
    <3> QED  BY <1>1, <1>2, <1>4, <3>1 DEF c, d
  <2> QED  BY <2>1, <2>2
<1>5. CASE c = "l"
  <2>1. CASE d = "l"
    <3>1. LengthOf(c, d) = << "LONG_LONG", 2 >>
      BY <1>5, <2>1 DEF LengthOf
    <3> QED  BY <1>1, <1>3, <2>1, <3>1 DEF c, d
  <2>2. CASE d # "l"
    <3>1. LengthOf(c, d) = << "LONG", 1 >>
      BY <1>5, <2>2 DEF LengthOf
    <3> QED  BY <1>1, <1>2, <1>5, <3>1 DEF c, d
  <2> QED  BY <2>1, <2>2
<1>6. CASE c \in {"z", "j", "t"}
  <2>1. LengthOf(c, d) = << "WORD", 1 >>
    BY <1>6 DEF LengthOf
  <2> QED  BY <1>1, <1>2, <1>6, <2>1 DEF c, d
<1>7. CASE c \notin {"h", "l", "z", "j", "t"}
  <2>1. LengthOf(c, d) \in {<< "PTR", 0 >>, << "INT", 0 >>}
    BY <1>7 DEF LengthOf
  <2> QED  BY <1>1, <2>1 DEF c, d
<1> QED  BY <1>4, <1>5, <1>6, <1>7

LEMMA Initially ==
  ASSUME Init
  PROVE  ScanInv
BY DEF Init, ScanInv, InDirective

\* One step of the scan.
LEMMA StepKeeps ==
  ASSUME ScanInv, [Next]_vars
  PROVE  ScanInv'
<1>0. Len(fmt) \in Nat /\ MAX_WIDTH \in Nat
  BY FormatIs, DebugPrintAssumption
<1>1. CASE debug_printf \/ debug_log
  BY <1>1 DEF debug_printf, debug_log, ScanInv, InDirective
<1>2. CASE Literal
  BY <1>2 DEF Literal, ScanInv, InDirective
<1>3. CASE Percent
  BY <1>0, <1>3 DEF Percent, ScanInv, InDirective
<1>4. CASE Flag
  <2>1. i <= Len(fmt) /\ At(i) \in FlagChars
    BY <1>4, AtIs, FlagIs DEF Flag, ScanInv
  <2> QED  BY <1>0, <1>4, <2>1 DEF Flag, ScanInv, InDirective
<1>5. CASE EndFlags
  BY <1>5 DEF EndFlags, ScanInv, InDirective
<1>6. CASE Digit
  <2>1. i <= Len(fmt) /\ DigitValue(At(i)) \in Nat
    BY <1>6, AtIs, DigitIs DEF Digit, ScanInv
  <2>2. width' \in Nat
    BY <1>6, <2>1 DEF Digit, ScanInv
  <2> QED  BY <1>0, <1>6, <2>1, <2>2 DEF Digit, ScanInv, InDirective
<1>7. CASE EndWidth
  BY <1>0, <1>7 DEF EndWidth, ScanInv, InDirective
<1>8. CASE GetLength
  <2> DEFINE l == LengthOf(At(i), At(i + 1))
  <2>1. /\ l[1] \in {"INT", "LONG", "LONG_LONG", "WORD", "PTR"} /\ l[2] \in 0 .. 2
        /\ i + l[2] <= Len(fmt) + 1
    BY <1>8, LengthIs DEF GetLength, ScanInv, InDirective
  <2>2. /\ length' = l[1] /\ i' = i + l[2] /\ pc' = "print" /\ pc = "length"
        /\ UNCHANGED <<fmt, flags, width>>
    BY <1>8 DEF GetLength
  <2> HIDE DEF l
  <2> QED  BY <2>1, <2>2 DEF ScanInv, InDirective
<1>9. CASE NextChar
  BY <1>9 DEF NextChar, ScanInv, InDirective
<1>10. CASE Return
  BY <1>10 DEF Return, ScanInv, InDirective
<1>11. CASE UNCHANGED vars
  BY <1>11 DEF vars, ScanInv
<1>12. ASSUME NEW v \in ArgValues, PrintInt(v) \/ PrintString(v)
       PROVE  NextChar
  BY <1>12 DEF PrintInt, PrintString
<1>13. ASSUME PrintChar \/ PrintPercent \/ PrintNothing
       PROVE  NextChar
  BY <1>13 DEF PrintChar, PrintPercent, PrintNothing
<1> QED  BY <1>1, <1>2, <1>3, <1>4, <1>5, <1>6, <1>7, <1>8, <1>9, <1>10, <1>11, <1>12, <1>13
         DEF Next, Step, Returned

-----------------------------------------------------------------------------
(***************************************************************************)
(* Induction and recursion over the natural numbers.                       *)
(***************************************************************************)
LEMMA LeastElement ==
  ASSUME NEW T \in SUBSET Nat, T # {}
  PROVE  \E x \in T : \A y \in T : x <= y
<1> DEFINE LT == {ss \in Nat \X Nat : ss[1] < ss[2]}
<1>1. IsWellFoundedOn(LT, Nat)
  BY NatLessThanWellFounded DEF OpToRel
<1>2. \A x, y \in Nat : <<y, x>> \in LT <=> y < x
  OBVIOUS
<1> HIDE DEF LT
<1>3. PICK x \in T : \A y \in T : ~ (<<y, x>> \in LT)
  BY <1>1, WFMin
<1>4. ASSUME NEW y \in T PROVE x <= y
  <2>1. x \in Nat /\ y \in Nat
    OBVIOUS
  <2>2. ~ (y < x)
    BY <1>2, <1>3, <2>1
  <2> QED  BY <2>1, <2>2
<1> QED  BY <1>4

\* Induction, with a set for the predicate.
LEMMA SetInduction ==
  ASSUME NEW T \in SUBSET Nat, 0 \in T, \A k \in T : k + 1 \in T
  PROVE  \A k \in Nat : k \in T
<1> SUFFICES ASSUME Nat \ T # {} PROVE FALSE
  OBVIOUS
<1>1. PICK x \in Nat \ T : \A y \in Nat \ T : x <= y
  BY LeastElement
<1>2. x # 0 /\ x - 1 \in Nat
  BY <1>1
<1>3. x - 1 \in T
  BY <1>1, <1>2
<1>4. x - 1 + 1 = x
  BY <1>1
<1> QED  BY <1>3, <1>4

\* Recursion over the natural numbers: the functions on 0 .. k that start with
\* a and go on with step, and the one on all numbers.
Approximations(k, a, step) ==
  {g \in [0 .. k -> Nat] : g[0] = a /\ \A j \in 0 .. (k - 1) : g[j + 1] = step[<<j, g[j]>>]}

LEMMA ApproximationExists ==
  ASSUME NEW a \in Nat, NEW step \in [Nat \X Nat -> Nat]
  PROVE  \A k \in Nat : \E g : g \in Approximations(k, a, step)
<1> DEFINE T == {k \in Nat : \E g : g \in Approximations(k, a, step)}
<1>1. 0 \in T
  <2> DEFINE g == [j \in 0 .. 0 |-> a]
  <2>1. g \in Approximations(0, a, step)
    BY DEF Approximations
  <2> QED  BY <2>1
<1>2. ASSUME NEW k \in T PROVE k + 1 \in T
  <2>1. PICK g \in [0 .. k -> Nat] : g[0] = a /\ \A j \in 0 .. (k - 1) : g[j + 1] = step[<<j, g[j]>>]
    BY DEF Approximations
  <2> DEFINE h == [j \in 0 .. (k + 1) |-> IF j = k + 1 THEN step[<<k, g[k]>>] ELSE g[j]]
  <2>2. h \in [0 .. (k + 1) -> Nat]
    <3>1. g[k] \in Nat /\ step[<<k, g[k]>>] \in Nat
      OBVIOUS
    <3> QED  BY <3>1
  <2>3. h[0] = a
    BY <2>1
  <2>4. ASSUME NEW j \in 0 .. ((k + 1) - 1) PROVE h[j + 1] = step[<<j, h[j]>>]
    <3>1. CASE j = k
      <4>1. k \in 0 .. (k + 1) /\ k + 1 \in 0 .. (k + 1) /\ k # k + 1
        OBVIOUS
      <4>2. h[k + 1] = step[<<k, g[k]>>] /\ h[k] = g[k]
        BY <4>1
      <4> QED  BY <3>1, <4>2
    <3>2. CASE j # k
      <4>1. j \in 0 .. (k - 1) /\ h[j + 1] = g[j + 1] /\ h[j] = g[j]
        BY <3>2
      <4> QED  BY <2>1, <4>1
    <3> QED  BY <3>1, <3>2
  <2> HIDE DEF h
  <2>5. h \in Approximations(k + 1, a, step)
    BY <2>2, <2>3, <2>4 DEF Approximations
  <2>6. k + 1 \in Nat
    OBVIOUS
  <2> QED  BY <2>5, <2>6
<1>3. T \in SUBSET Nat
  OBVIOUS
<1> HIDE DEF T
<1>4. \A k \in Nat : k \in T
  BY <1>1, <1>2, <1>3, SetInduction
<1> QED  BY <1>4 DEF T

LEMMA ApproximationsAgree ==
  ASSUME NEW a \in Nat, NEW step \in [Nat \X Nat -> Nat],
         NEW k \in Nat, NEW g \in Approximations(k, a, step),
         NEW m \in Nat, NEW h \in Approximations(m, a, step)
  PROVE  \A j \in Nat : j <= k /\ j <= m => g[j] = h[j]
<1> DEFINE T == {j \in Nat : j <= k /\ j <= m => g[j] = h[j]}
<1>1. 0 \in T
  BY DEF Approximations
<1>2. ASSUME NEW j \in T PROVE j + 1 \in T
  <2> SUFFICES ASSUME j + 1 <= k, j + 1 <= m PROVE g[j + 1] = h[j + 1]
    OBVIOUS
  <2>1. j \in 0 .. (k - 1) /\ j \in 0 .. (m - 1) /\ g[j] = h[j]
    OBVIOUS
  <2> QED  BY <2>1 DEF Approximations
<1>3. T \in SUBSET Nat
  OBVIOUS
<1> HIDE DEF T
<1>4. \A j \in Nat : j \in T
  BY <1>1, <1>2, <1>3, SetInduction
<1> QED  BY <1>4 DEF T

LEMMA RecursionExists ==
  ASSUME NEW a \in Nat, NEW step \in [Nat \X Nat -> Nat]
  PROVE  \E f \in [Nat -> Nat] : f[0] = a /\ \A k \in Nat : f[k + 1] = step[<<k, f[k]>>]
<1> DEFINE App(k) == CHOOSE g : g \in Approximations(k, a, step)
           f == [k \in Nat |-> App(k)[k]]
<1>1. ASSUME NEW k \in Nat PROVE App(k) \in Approximations(k, a, step)
  BY ApproximationExists
<1> HIDE DEF App
<1>2. f \in [Nat -> Nat]
  <2> SUFFICES ASSUME NEW k \in Nat PROVE App(k)[k] \in Nat
    OBVIOUS
  <2>1. k \in 0 .. k
    OBVIOUS
  <2> QED  BY <1>1, <2>1 DEF Approximations
<1>3. f[0] = a
  BY <1>1 DEF Approximations
<1>4. ASSUME NEW k \in Nat PROVE f[k + 1] = step[<<k, f[k]>>]
  <2>1. k + 1 \in Nat /\ k <= k /\ k <= k + 1 /\ k \in 0 .. ((k + 1) - 1)
    OBVIOUS
  <2>2. App(k + 1)[k] = App(k)[k]
    BY <1>1, <2>1, ApproximationsAgree
  <2>3. App(k + 1)[k + 1] = step[<<k, App(k + 1)[k]>>]
    BY <1>1, <2>1 DEF Approximations
  <2> QED  BY <2>1, <2>2, <2>3
<1> QED  BY <1>2, <1>3, <1>4

-----------------------------------------------------------------------------
(***************************************************************************)
(* The division loops of debug_print_int.                                  *)
(***************************************************************************)
Bases == {8, 10, 16}

LEMMA DividedIs ==
  ASSUME NEW n \in Nat, NEW base \in Bases
  PROVE  /\ Divided(n, base) \in [Nat -> Nat]
         /\ Divided(n, base)[0] = n
         /\ \A k \in Nat : Divided(n, base)[k + 1] = Divided(n, base)[k] \div base
<1> DEFINE step == [p \in Nat \X Nat |-> p[2] \div base]
<1>1. \A x \in Nat : x \div base \in Nat
  BY DEF Bases
<1>2. step \in [Nat \X Nat -> Nat]
  BY <1>1
<1>3. \A k, x \in Nat : step[<<k, x>>] = x \div base
  OBVIOUS
<1> HIDE DEF step
<1>4. PICK f \in [Nat -> Nat] : f[0] = n /\ \A k \in Nat : f[k + 1] = step[<<k, f[k]>>]
  BY <1>2, RecursionExists
<1>5. \A k \in Nat : f[k + 1] = f[k] \div base
  BY <1>3, <1>4
<1>6. f = [k \in Nat |-> IF k = 0 THEN n ELSE f[k - 1] \div base]
  <2> SUFFICES ASSUME NEW k \in Nat PROVE f[k] = IF k = 0 THEN n ELSE f[k - 1] \div base
    OBVIOUS
  <2>1. k # 0 => k - 1 \in Nat /\ (k - 1) + 1 = k
    OBVIOUS
  <2> QED  BY <1>4, <1>5, <2>1
<1> DEFINE Q == Divided(n, base)
<1>7. Q = [k \in Nat |-> IF k = 0 THEN n ELSE Q[k - 1] \div base]
  BY <1>6, Zenon DEF Divided
<1> HIDE DEF Q
<1>8. Q[0] = n
  BY <1>7
<1>9. \A k \in Nat : Q[k + 1] = Q[k] \div base
  <2> SUFFICES ASSUME NEW k \in Nat PROVE Q[k + 1] = Q[k] \div base
    OBVIOUS
  <2>1. k + 1 \in Nat /\ k + 1 # 0 /\ (k + 1) - 1 = k
    OBVIOUS
  <2> QED  BY <1>7, <2>1
<1>10. Q \in [Nat -> Nat]
  <2> DEFINE T == {k \in Nat : Q[k] \in Nat}
  <2>1. 0 \in T
    BY <1>8
  <2>2. \A k \in T : k + 1 \in T
    BY <1>1, <1>9
  <2>3. \A k \in Nat : k \in T
    <3> HIDE DEF T
    <3> QED  BY <2>1, <2>2, SetInduction DEF T
  <2>4. \A k \in Nat : Q[k] \in Nat
    BY <2>3
  <2> QED  BY <1>7, <2>4
<1> QED  BY <1>8, <1>9, <1>10 DEF Q

LEMMA DividedLess ==
  ASSUME NEW q \in Nat, NEW base \in Bases
  PROVE  /\ q \div base \in Nat /\ q % base \in 0 .. 15 /\ q % base < base
         /\ q = (q \div base) * base + (q % base)
         /\ q = 0 => q \div base = 0
         /\ q # 0 => q \div base < q
<1>1. CASE base = 8
  <2>1. q \div 8 \in Nat /\ q % 8 \in 0 .. (8 - 1)
    OBVIOUS
  <2>2. q = (q \div 8) * 8 + (q % 8)
    OBVIOUS
  <2> DEFINE x == q \div 8
             y == q % 8
  <2> HIDE DEF x, y
  <2>3. x \in Nat /\ y \in 0 .. (8 - 1) /\ q = x * 8 + y
    BY <2>1, <2>2 DEF x, y
  <2>4. (q = 0 => x = 0) /\ (q # 0 => x < q) /\ y \in 0 .. 15
    BY <2>3
  <2> QED  BY <1>1, <2>3, <2>4 DEF x, y
<1>2. CASE base = 10
  <2>1. q \div 10 \in Nat /\ q % 10 \in 0 .. (10 - 1)
    OBVIOUS
  <2>2. q = (q \div 10) * 10 + (q % 10)
    OBVIOUS
  <2> DEFINE x == q \div 10
             y == q % 10
  <2> HIDE DEF x, y
  <2>3. x \in Nat /\ y \in 0 .. (10 - 1) /\ q = x * 10 + y
    BY <2>1, <2>2 DEF x, y
  <2>4. (q = 0 => x = 0) /\ (q # 0 => x < q) /\ y \in 0 .. 15
    BY <2>3
  <2> QED  BY <1>2, <2>3, <2>4 DEF x, y
<1>3. CASE base = 16
  <2>1. q \div 16 \in Nat /\ q % 16 \in 0 .. (16 - 1)
    OBVIOUS
  <2>2. q = (q \div 16) * 16 + (q % 16)
    OBVIOUS
  <2> DEFINE x == q \div 16
             y == q % 16
  <2> HIDE DEF x, y
  <2>3. x \in Nat /\ y \in 0 .. (16 - 1) /\ q = x * 16 + y
    BY <2>1, <2>2 DEF x, y
  <2>4. (q = 0 => x = 0) /\ (q # 0 => x < q) /\ y \in 0 .. 15
    BY <2>3
  <2> QED  BY <1>3, <2>3, <2>4 DEF x, y
<1> QED  BY <1>1, <1>2, <1>3 DEF Bases

LEMMA AppendDigit ==
  ASSUME NEW q \in Nat, NEW d \in Nat, NEW base \in Bases, d < base
  PROVE  /\ q * base + d \in Nat /\ q <= q * base + d
         /\ (q * base + d) \div base = q /\ (q * base + d) % base = d
<1>1. CASE base = 8
  BY <1>1
<1>2. CASE base = 10
  BY <1>2
<1>3. CASE base = 16
  BY <1>3
<1> QED  BY <1>1, <1>2, <1>3 DEF Bases

LEMMA CollectedIs ==
  ASSUME NEW n \in Nat, NEW base \in Bases
  PROVE  /\ Collected(n, base) \in [Nat -> Nat]
         /\ Collected(n, base)[0] = 0
         /\ \A k \in Nat : Collected(n, base)[k + 1] =
              ((Collected(n, base)[k] * base) + (Divided(n, base)[k] % base)) % WORD
<1> DEFINE Q == Divided(n, base)
           step == [p \in Nat \X Nat |-> ((p[2] * base) + (Q[p[1]] % base)) % WORD]
<1>0. /\ Q \in [Nat -> Nat] /\ base \in Nat /\ WORD \in Nat \ {0}
      /\ \A k \in Nat : Q[k] % base \in Nat
  <2>1. Q \in [Nat -> Nat]
    BY DividedIs
  <2>2. \A k \in Nat : Q[k] \in Nat
    BY <2>1
  <2>3. \A k \in Nat : Q[k] % base \in Nat
    <3> HIDE DEF Q
    <3> QED  BY <2>2, DividedLess
  <2>4. base \in Nat
    BY DEF Bases
  <2>5. WORD \in Nat \ {0}
    BY DebugPrintAssumption
  <2> QED  BY <2>1, <2>3, <2>4, <2>5
<1> HIDE DEF Q
<1>1. \A k, x \in Nat : ((x * base) + (Q[k] % base)) % WORD \in Nat
  <2> SUFFICES ASSUME NEW k \in Nat, NEW x \in Nat
               PROVE  ((x * base) + (Q[k] % base)) % WORD \in Nat
    OBVIOUS
  <2> DEFINE y == (x * base) + (Q[k] % base)
  <2>1. y \in Nat
    BY <1>0
  <2> HIDE DEF y
  <2>2. y % WORD \in Nat
    BY <1>0, <2>1
  <2> QED  BY <2>2 DEF y
<1>2. step \in [Nat \X Nat -> Nat]
  BY <1>1
<1>3. \A k, x \in Nat : step[<<k, x>>] = ((x * base) + (Q[k] % base)) % WORD
  OBVIOUS
<1> HIDE DEF step
<1>4. PICK f \in [Nat -> Nat] : f[0] = 0 /\ \A k \in Nat : f[k + 1] = step[<<k, f[k]>>]
  <2>1. 0 \in Nat
    OBVIOUS
  <2> QED  BY <1>2, <2>1, RecursionExists
<1>5. \A k \in Nat : f[k + 1] = ((f[k] * base) + (Q[k] % base)) % WORD
  BY <1>3, <1>4
<1>6. f = [k \in Nat |-> IF k = 0 THEN 0
                         ELSE ((f[k - 1] * base) + (Q[k - 1] % base)) % WORD]
  <2> SUFFICES ASSUME NEW k \in Nat, k # 0
               PROVE  f[k] = ((f[k - 1] * base) + (Q[k - 1] % base)) % WORD
    BY <1>4
  <2>1. k - 1 \in Nat /\ (k - 1) + 1 = k
    OBVIOUS
  <2> QED  BY <1>5, <2>1
<1> DEFINE R == Collected(n, base)
<1>7. R = [k \in Nat |-> IF k = 0 THEN 0 
                         ELSE ((R[k - 1] * base) + (Q[k - 1] % base)) % WORD]
  BY <1>6, Zenon DEF Collected, Q
<1> HIDE DEF R
<1>8. R[0] = 0
  BY <1>7
<1>9. \A k \in Nat : R[k + 1] = ((R[k] * base) + (Q[k] % base)) % WORD
  <2> SUFFICES ASSUME NEW k \in Nat PROVE R[k + 1] = ((R[k] * base) + (Q[k] % base)) % WORD
    OBVIOUS
  <2>1. k + 1 \in Nat /\ k + 1 # 0 /\ (k + 1) - 1 = k
    OBVIOUS
  <2> QED  BY <1>7, <2>1
<1>10. R \in [Nat -> Nat]
  <2> DEFINE T == {k \in Nat : R[k] \in Nat}
  <2>1. 0 \in T
    BY <1>8
  <2>2. ASSUME NEW k \in T PROVE k + 1 \in T
    <3>1. k \in Nat /\ k + 1 \in Nat /\ R[k] \in Nat
      OBVIOUS
    <3>2. R[k + 1] \in Nat
      BY <1>1, <1>9, <3>1
    <3> QED  BY <3>1, <3>2
  <2>3. \A k \in Nat : k \in T
    <3> HIDE DEF T
    <3> QED  BY <2>1, <2>2, SetInduction DEF T
  <2>4. \A k \in Nat : R[k] \in Nat
    BY <2>3
  <2> QED  BY <1>7, <2>4
<1> QED  BY <1>8, <1>9, <1>10 DEF R, Q

\* The loop that counts the digits ends.
LEMMA DigitCountIs ==
  ASSUME NEW n \in 0 .. (WORD - 1), NEW base \in Bases
  PROVE  /\ DigitCount(n, base) \in 1 .. WORD
         /\ Divided(n, base)[DigitCount(n, base)] = 0
         /\ DigitCount(n, base) > 1 => Divided(n, base)[DigitCount(n, base) - 1] # 0
<1> DEFINE Q == Divided(n, base)
<1>0. n \in Nat /\ n + 1 \in 1 .. WORD
  BY DebugPrintAssumption
<1>1. Q \in [Nat -> Nat] /\ Q[0] = n /\ \A k \in Nat : Q[k + 1] = Q[k] \div base
  BY <1>0, DividedIs
<1> HIDE DEF Q
<1>2. Q[n + 1] = 0
  <2> DEFINE T == {k \in Nat : Q[k] = 0 \/ Q[k] + k <= n}
  <2>1. 0 \in T
    BY <1>0, <1>1
  <2>2. ASSUME NEW k \in T PROVE k + 1 \in T
    <3>1. k \in Nat /\ Q[k] \in Nat /\ Q[k + 1] = Q[k] \div base /\ Q[k] \div base \in Nat
      BY <1>1, DividedLess
    <3>2. (Q[k] = 0 => Q[k + 1] = 0) /\ (Q[k] # 0 => Q[k + 1] < Q[k])
      BY <3>1, DividedLess
    <3> QED  BY <1>0, <3>1, <3>2
  <2>3. \A k \in Nat : k \in T
    <3>1. T \in SUBSET Nat
      OBVIOUS
    <3> HIDE DEF T
    <3> QED  BY <2>1, <2>2, <3>1, SetInduction
  <2>4. n + 1 \in Nat /\ Q[n + 1] \in Nat
    BY <1>0, <1>1
  <2> QED  BY <1>0, <2>3, <2>4
<1> DEFINE U == {k \in Nat \ {0} : Q[k] = 0}
<1>3. U \in SUBSET Nat /\ n + 1 \in U
  BY <1>0, <1>2
<1>4. PICK x \in U : \A y \in U : x <= y
  BY <1>3, LeastElement
<1>5. x \in 1 .. WORD /\ Q[x] = 0
  BY <1>0, <1>3, <1>4, DebugPrintAssumption
<1>6. x > 1 => Q[x - 1] # 0
  <2> SUFFICES ASSUME x > 1, Q[x - 1] = 0 PROVE FALSE
    OBVIOUS
  <2>1. x - 1 \in U
    OBVIOUS
  <2> QED  BY <1>4, <2>1
<1>7. \E d \in 1 .. WORD : Q[d] = 0 /\ (d > 1 => Q[d - 1] # 0)
  BY <1>5, <1>6
<1> QED  BY <1>7 DEF DigitCount, Q

-----------------------------------------------------------------------------
(***************************************************************************)
(* Digits, and what a reader makes of a text.                              *)
(***************************************************************************)
DigitChars == ToSet(Digits)

LEMMA DigitsAre ==
  /\ DOMAIN Digits = 1 .. 16
  /\ \A j \in 1 .. 16 : Digits[j] \in DigitChars /\ Digits[j] # "-"
  /\ \A c \in DigitChars : \E j \in 1 .. 16 : Digits[j] = c
<1>1. DOMAIN Digits = 1 .. 16
  BY DEF Digits
<1>2. \A j \in 1 .. 16 : Digits[j] # "-"
  BY DEF Digits
<1>3. \A j \in 1 .. 16 : Digits[j] \in DigitChars
  BY <1>1 DEF DigitChars, ToSet
<1>4. \A c \in DigitChars : \E j \in 1 .. 16 : Digits[j] = c
  BY <1>1 DEF DigitChars, ToSet
<1> QED  BY <1>1, <1>2, <1>3, <1>4

LEMMA DigitsDiffer ==
  ASSUME NEW j \in 1 .. 16, NEW k \in 1 .. 16, Digits[j] = Digits[k]
  PROVE  j = k
<1>1. CASE j = 1
  BY <1>1 DEF Digits
<1>2. CASE j = 2
  BY <1>2 DEF Digits
<1>3. CASE j = 3
  BY <1>3 DEF Digits
<1>4. CASE j = 4
  BY <1>4 DEF Digits
<1>5. CASE j = 5
  BY <1>5 DEF Digits
<1>6. CASE j = 6
  BY <1>6 DEF Digits
<1>7. CASE j = 7
  BY <1>7 DEF Digits
<1>8. CASE j = 8
  BY <1>8 DEF Digits
<1>9. CASE j = 9
  BY <1>9 DEF Digits
<1>10. CASE j = 10
  BY <1>10 DEF Digits
<1>11. CASE j = 11
  BY <1>11 DEF Digits
<1>12. CASE j = 12
  BY <1>12 DEF Digits
<1>13. CASE j = 13
  BY <1>13 DEF Digits
<1>14. CASE j = 14
  BY <1>14 DEF Digits
<1>15. CASE j = 15
  BY <1>15 DEF Digits
<1>16. CASE j = 16
  BY <1>16 DEF Digits
<1> QED  BY <1>1, <1>2, <1>3, <1>4, <1>5, <1>6, <1>7, <1>8, <1>9, <1>10, <1>11, <1>12,
            <1>13, <1>14, <1>15, <1>16

LEMMA DigitValueIs ==
  /\ \A c \in DigitChars : DigitValue(c) \in 0 .. 15
  /\ \A v \in 0 .. 15 : DigitValue(Digits[v + 1]) = v
<1>1. ASSUME NEW c \in DigitChars, NEW j \in 1 .. 16, Digits[j] = c
      PROVE  DigitValue(c) = j - 1
  <2> DEFINE q == CHOOSE k \in DOMAIN Digits : Digits[k] = c
  <2>1. q \in 1 .. 16 /\ Digits[q] = c
    BY <1>1, DigitsAre
  <2>2. DigitValue(c) = q - 1
    BY DEF DigitValue
  <2> HIDE DEF q
  <2>3. q = j
    BY <1>1, <2>1, DigitsDiffer
  <2> QED  BY <2>2, <2>3
<1>2. ASSUME NEW c \in DigitChars PROVE DigitValue(c) \in 0 .. 15
  <2>1. PICK j \in 1 .. 16 : Digits[j] = c
    BY DigitsAre
  <2>2. DigitValue(c) = j - 1
    BY <1>1, <2>1
  <2> QED  BY <2>2
<1>3. ASSUME NEW v \in 0 .. 15 PROVE DigitValue(Digits[v + 1]) = v
  <2>1. v + 1 \in 1 .. 16 /\ (v + 1) - 1 = v
    OBVIOUS
  <2>2. Digits[v + 1] \in DigitChars
    BY <2>1, DigitsAre
  <2>3. DigitValue(Digits[v + 1]) = (v + 1) - 1
    BY <1>1, <2>1, <2>2
  <2> QED  BY <2>1, <2>3
<1> QED  BY <1>2, <1>3

\* What a reader has after each character.
LEMMA ReadUpToIs ==
  ASSUME NEW text, NEW base \in Bases
  PROVE  /\ ReadUpTo(text, base) \in [Nat -> Nat]
         /\ ReadUpTo(text, base)[0] = 0
         /\ \A k \in Nat : text[k + 1] \in DigitChars =>
              ReadUpTo(text, base)[k + 1] = ReadUpTo(text, base)[k] * base + DigitValue(text[k + 1])
         /\ \A k \in Nat : text[k + 1] \notin DigitChars =>
              ReadUpTo(text, base)[k + 1] = ReadUpTo(text, base)[k]
<1> DEFINE nextOf(k, x) == IF text[k + 1] \in DigitChars THEN x * base + DigitValue(text[k + 1]) ELSE x
           step == [p \in Nat \X Nat |-> nextOf(p[1], p[2])]
<1>0. base \in Nat
  BY DEF Bases
<1>1. ASSUME NEW k \in Nat, NEW x \in Nat PROVE nextOf(k, x) \in Nat
  <2>1. CASE text[k + 1] \in DigitChars
    <3> DEFINE v == DigitValue(text[k + 1])
    <3>1. v \in Nat
      BY <2>1, DigitValueIs
    <3> HIDE DEF v
    <3>2. x * base + v \in Nat
      BY <1>0, <3>1
    <3> QED  BY <2>1, <3>2 DEF v
  <2>2. CASE text[k + 1] \notin DigitChars
    BY <2>2
  <2> QED  BY <2>1, <2>2
<1> HIDE DEF nextOf
<1>2. step \in [Nat \X Nat -> Nat]
  BY <1>1
<1>3. \A k, x \in Nat : step[<<k, x>>] = nextOf(k, x)
  OBVIOUS
<1> HIDE DEF step
<1>4. PICK f \in [Nat -> Nat] : f[0] = 0 /\ \A k \in Nat : f[k + 1] = step[<<k, f[k]>>]
  <2>1. 0 \in Nat
    OBVIOUS
  <2> QED  BY <1>2, <2>1, RecursionExists
<1>5. \A k \in Nat : f[k + 1] = nextOf(k, f[k])
  BY <1>3, <1>4
<1> DEFINE Reads(g, k) == CASE k = 0 -> 0
                            [] k # 0 /\ text[k] \in ToSet(Digits) -> g[k - 1] * base + DigitValue(text[k])
                            [] OTHER -> g[k - 1]
<1>a. ASSUME NEW g, NEW k \in Nat PROVE Reads(g, k + 1) = nextOf(k, g[k])
  <2>1. k + 1 # 0 /\ (k + 1) - 1 = k
    OBVIOUS
  <2>2. CASE text[k + 1] \in DigitChars
    <3>1. Reads(g, k + 1) = g[(k + 1) - 1] * base + DigitValue(text[k + 1])
      BY <2>1, <2>2 DEF DigitChars
    <3> QED  BY <2>1, <2>2, <3>1 DEF nextOf
  <2>3. CASE text[k + 1] \notin DigitChars
    <3>1. Reads(g, k + 1) = g[(k + 1) - 1]
      BY <2>1, <2>3 DEF DigitChars
    <3> QED  BY <2>1, <2>3, <3>1 DEF nextOf
  <2> QED  BY <2>2, <2>3
<1>b. \A g : Reads(g, 0) = 0
  OBVIOUS
<1>6. f = [k \in Nat |-> Reads(f, k)]
  <2> HIDE DEF Reads
  <2> SUFFICES ASSUME NEW k \in Nat PROVE f[k] = Reads(f, k)
    OBVIOUS
  <2>1. CASE k = 0
    BY <1>4, <1>b, <2>1
  <2>2. CASE k # 0
    <3>1. k - 1 \in Nat /\ (k - 1) + 1 = k
      BY <2>2
    <3>2. f[(k - 1) + 1] = Reads(f, (k - 1) + 1)
      BY <1>5, <1>a, <3>1
    <3> QED  BY <3>1, <3>2
  <2> QED  BY <2>1, <2>2
<1> DEFINE N == ReadUpTo(text, base)
<1>7. N = [k \in Nat |-> Reads(N, k)]
  BY <1>6, Zenon DEF ReadUpTo
<1> HIDE DEF N, Reads
<1>8. N[0] = 0
  BY <1>7, <1>b
<1>9. \A k \in Nat : N[k + 1] = nextOf(k, N[k])
  <2> SUFFICES ASSUME NEW k \in Nat PROVE N[k + 1] = nextOf(k, N[k])
    OBVIOUS
  <2>1. k + 1 \in Nat
    OBVIOUS
  <2> QED  BY <1>7, <1>a, <2>1
<1>10. N \in [Nat -> Nat]
  <2> DEFINE T == {k \in Nat : N[k] \in Nat}
  <2>1. 0 \in T
    BY <1>8
  <2>2. ASSUME NEW k \in T PROVE k + 1 \in T
    <3>1. k \in Nat /\ k + 1 \in Nat /\ N[k] \in Nat
      OBVIOUS
    <3>2. N[k + 1] \in Nat
      BY <1>1, <1>9, <3>1
    <3> QED  BY <3>1, <3>2
  <2>3. \A k \in Nat : k \in T
    <3> HIDE DEF T
    <3> QED  BY <2>1, <2>2, SetInduction DEF T
  <2>4. \A k \in Nat : N[k] \in Nat
    BY <2>3
  <2> QED  BY <1>7, <2>4
<1> QED  BY <1>8, <1>9, <1>10 DEF N, nextOf

\* M is the number with the digits of n in reverse, in a word without bound.
Mirrors(M, n, base) ==
  /\ M \in [Nat -> Nat] /\ M[0] = 0
  /\ \A k \in Nat : M[k + 1] = (M[k] * base) + (Divided(n, base)[k] % base)

\* The digits of n in reverse make a number that a word can hold.
FitsReversed(n, base) ==
  \E M : Mirrors(M, n, base) /\ M[DigitCount(n, base)] < WORD

LEMMA MirrorStep ==
  ASSUME NEW n \in Nat, NEW base \in Bases, NEW M, Mirrors(M, n, base), NEW k \in Nat
  PROVE  /\ M[k] \in Nat /\ M[k + 1] \in Nat /\ M[k] <= M[k + 1]
         /\ M[k + 1] \div base = M[k]
         /\ M[k + 1] % base = Divided(n, base)[k] % base
<1> DEFINE q == Divided(n, base)[k]
<1>1. q \in Nat
  BY DividedIs
<1>2. M[k] \in Nat /\ M[k + 1] \in Nat /\ M[k + 1] = (M[k] * base) + (q % base)
  BY DEF Mirrors
<1> HIDE DEF q
<1>3. q % base \in Nat /\ q % base < base
  BY <1>1, DividedLess
<1> DEFINE d == q % base
           m == M[k]
           r == M[k + 1]
<1>4. m \in Nat /\ d \in Nat /\ d < base /\ r = (m * base) + d
  BY <1>2, <1>3
<1> HIDE DEF d, m, r
<1>5. m <= r /\ r \div base = m /\ r % base = d
  BY <1>4, AppendDigit
<1> QED  BY <1>2, <1>5 DEF d, m, r, q

LEMMA MirrorGrows ==
  ASSUME NEW n \in Nat, NEW base \in Bases, NEW M, Mirrors(M, n, base), NEW k \in Nat
  PROVE  \A m \in Nat : M[k] <= M[k + m]
<1> DEFINE T == {m \in Nat : M[k] <= M[k + m]}
<1>0. \A m \in Nat : M[m] \in Nat
  BY DEF Mirrors
<1>1. 0 \in T
  BY <1>0
<1>2. ASSUME NEW m \in T PROVE m + 1 \in T
  <2>1. m \in Nat /\ m + 1 \in Nat /\ k + m \in Nat /\ k + (m + 1) = (k + m) + 1 /\ M[k] <= M[k + m]
    OBVIOUS
  <2>2. M[k + m] <= M[(k + m) + 1]
    BY <2>1, MirrorStep
  <2>3. M[k] \in Nat /\ M[k + m] \in Nat /\ M[(k + m) + 1] \in Nat
    BY <1>0, <2>1
  <2>4. M[k] <= M[(k + m) + 1]
    BY <2>1, <2>2, <2>3
  <2> QED  BY <2>1, <2>4
<1>3. T \in SUBSET Nat
  OBVIOUS
<1>4. \A m \in Nat : m \in T
  <2> HIDE DEF T
  <2> QED  BY <1>1, <1>2, <1>3, SetInduction
<1> QED  BY <1>4

\* The first loop: in a word that the reversed number fits nothing is lost.
LEMMA CollectedFits ==
  ASSUME NEW n \in Nat, NEW base \in Bases, NEW M, Mirrors(M, n, base),
         NEW D \in Nat, M[D] < WORD
  PROVE  Collected(n, base)[D] = M[D]
<1> DEFINE R == Collected(n, base)
           Q == Divided(n, base)
           T == {k \in Nat : k <= D => R[k] = M[k]}
<1>0. WORD \in Nat
  BY DebugPrintAssumption
<1>1. 0 \in T
  BY CollectedIs DEF Mirrors
<1>2. ASSUME NEW k \in T PROVE k + 1 \in T
  <2> SUFFICES ASSUME k + 1 <= D PROVE R[k + 1] = M[k + 1]
    OBVIOUS
  <2>1. k \in Nat /\ k + 1 \in Nat /\ D - (k + 1) \in Nat /\ (k + 1) + (D - (k + 1)) = D /\ R[k] = M[k]
    OBVIOUS
  <2>2. M[k + 1] <= M[D]
    BY <2>1, MirrorGrows
  <2>3. M[k + 1] \in Nat /\ M[D] \in Nat
    BY <2>1 DEF Mirrors
  <2>4. M[k + 1] = (M[k] * base) + (Q[k] % base)
    BY <2>1 DEF Mirrors
  <2>5. R[k + 1] = ((R[k] * base) + (Q[k] % base)) % WORD
    BY <2>1, CollectedIs
  <2>6. R[k + 1] = M[k + 1] % WORD
    BY <2>1, <2>4, <2>5
  <2> DEFINE x == M[k + 1]
  <2>7. x \in Nat /\ x < WORD
    BY <1>0, <2>2, <2>3
  <2> HIDE DEF x
  <2>8. x % WORD = x
    BY <1>0, <2>7
  <2> QED  BY <2>6, <2>8 DEF x
<1>3. T \in SUBSET Nat
  OBVIOUS
<1>4. \A k \in Nat : k \in T
  <2> HIDE DEF T
  <2> QED  BY <1>1, <1>2, <1>3, SetInduction
<1> QED  BY <1>4

\* The second loop takes the reversed number apart.
LEMMA TakenApart ==
  ASSUME NEW n \in Nat, NEW base \in Bases, NEW M, Mirrors(M, n, base), NEW D \in Nat
  PROVE  \A k \in Nat : k <= D => Divided(M[D], base)[k] = M[D - k]
<1> DEFINE S == Divided(M[D], base)
           T == {k \in Nat : k <= D => S[k] = M[D - k]}
<1>0. \A k \in Nat : M[k] \in Nat
  BY DEF Mirrors
<1>a. S[0] = M[D] /\ \A k \in Nat : S[k + 1] = S[k] \div base
  BY <1>0, DividedIs
<1> HIDE DEF S
<1>1. 0 \in T
  BY <1>a
<1>2. ASSUME NEW k \in T PROVE k + 1 \in T
  <2> SUFFICES ASSUME k + 1 <= D PROVE S[k + 1] = M[D - (k + 1)]
    OBVIOUS
  <2>1. k \in Nat /\ D - (k + 1) \in Nat /\ (D - (k + 1)) + 1 = D - k /\ S[k] = M[D - k]
    OBVIOUS
  <2>2. M[(D - (k + 1)) + 1] \div base = M[D - (k + 1)]
    BY <2>1, MirrorStep
  <2> QED  BY <1>a, <2>1, <2>2
<1>3. T \in SUBSET Nat
  OBVIOUS
<1>4. \A k \in Nat : k \in T
  <2> HIDE DEF T
  <2> QED  BY <1>1, <1>2, <1>3, SetInduction
<1> QED  BY <1>4 DEF S

\* The digits that are printed, whatever their number is.
LEMMA DigitsOfAre ==
  ASSUME NEW n \in 0 .. (WORD - 1), NEW base \in Bases
  PROVE  /\ DigitsOf(n, base) \in Seq(DigitChars)
         /\ Len(DigitsOf(n, base)) = DigitCount(n, base)
         /\ DigitCount(n, base) \in Nat \ {0}
<1> DEFINE D == DigitCount(n, base)
           revn == Collected(n, base)[D]
           S == Divided(revn, base)
<1>1. n \in Nat /\ D \in Nat \ {0}
  BY DigitCountIs, DebugPrintAssumption
<1> HIDE DEF D
<1>2. revn \in Nat
  BY <1>1, CollectedIs
<1> HIDE DEF revn
<1>3. \A k \in Nat : S[k] \in Nat
  BY <1>2, DividedIs
<1> HIDE DEF S
<1>4. \A k \in 1 .. D : Digits[(S[k - 1] % base) + 1] \in DigitChars
  <2> SUFFICES ASSUME NEW k \in 1 .. D PROVE Digits[(S[k - 1] % base) + 1] \in DigitChars
    OBVIOUS
  <2>1. k - 1 \in Nat
    BY <1>1
  <2>2. S[k - 1] \in Nat
    BY <1>3, <2>1
  <2>3. S[k - 1] % base \in 0 .. 15
    BY <2>2, DividedLess
  <2>4. (S[k - 1] % base) + 1 \in 1 .. 16
    BY <2>3
  <2> QED  BY <2>4, DigitsAre
<1> DEFINE ds == [k \in 1 .. D |-> Digits[(S[k - 1] % base) + 1]]
<1>5. ds \in [1 .. D -> DigitChars]
  BY <1>4
<1>6. ds \in Seq(DigitChars) /\ Len(ds) = D
  BY <1>1, <1>5
<1>7. DigitsOf(n, base) = ds
  BY DEF DigitsOf, D, revn, S
<1> QED  BY <1>1, <1>6, <1>7 DEF D

\* When they fit they are those of the number, the first one first.
LEMMA DigitsAreThoseOf ==
  ASSUME NEW n \in 0 .. (WORD - 1), NEW base \in Bases, FitsReversed(n, base)
  PROVE  \A k \in 1 .. DigitCount(n, base) :
           DigitsOf(n, base)[k] = Digits[(Divided(n, base)[DigitCount(n, base) - k] % base) + 1]
<1> DEFINE D == DigitCount(n, base)
           revn == Collected(n, base)[D]
<1>1. n \in Nat /\ D \in Nat \ {0}
  BY DigitCountIs, DebugPrintAssumption
<1>2. PICK M : Mirrors(M, n, base) /\ M[D] < WORD
  BY DEF FitsReversed
<1>3. \A k \in 1 .. D : DigitsOf(n, base)[k] = Digits[(Divided(revn, base)[k - 1] % base) + 1]
  BY DEF DigitsOf
<1> HIDE DEF D
<1>4. revn = M[D]
  BY <1>1, <1>2, CollectedFits
<1> HIDE DEF revn
<1>5. ASSUME NEW k \in 1 .. D
      PROVE  DigitsOf(n, base)[k] = Digits[(Divided(n, base)[D - k] % base) + 1]
  <2>1. k - 1 \in Nat /\ k - 1 <= D /\ D - (k - 1) = (D - k) + 1 /\ D - k \in Nat
    BY <1>1
  <2>2. Divided(revn, base)[k - 1] = M[(D - k) + 1]
    BY <1>1, <1>2, <1>4, <2>1, TakenApart
  <2>3. M[(D - k) + 1] % base = Divided(n, base)[D - k] % base
    BY <1>1, <1>2, <2>1, MirrorStep
  <2> QED  BY <1>3, <2>2, <2>3
<1> QED  BY <1>5 DEF D

\* Characters a + 1 and on of a text are the digits of n; what is in front of
\* them is no digit or "0", and what is behind them is none.
Spells(text, n, base, a, l) ==
  LET D == DigitCount(n, base) IN
  /\ a + D <= l
  /\ \A k \in 1 .. a : text[k] \in DigitChars => text[k] = "0"
  /\ \A k \in 1 .. D : text[a + k] = Digits[(Divided(n, base)[D - k] % base) + 1]
  /\ \A k \in (a + D + 1) .. l : text[k] \notin DigitChars

LEMMA ReadsAs ==
  ASSUME NEW n \in 0 .. (WORD - 1), NEW base \in Bases, NEW text, NEW a \in Nat, NEW l \in Nat,
         Spells(text, n, base, a, l)
  PROVE  ReadUpTo(text, base)[l] = n
<1> DEFINE D == DigitCount(n, base)
           Q == Divided(n, base)
           N == ReadUpTo(text, base)
<1>0. n \in Nat /\ D \in Nat \ {0} /\ Q[D] = 0
  BY DigitCountIs, DebugPrintAssumption
<1>1. Q \in [Nat -> Nat] /\ Q[0] = n /\ \A k \in Nat : Q[k + 1] = Q[k] \div base
  BY <1>0, DividedIs
<1>2. /\ N[0] = 0
      /\ \A k \in Nat : text[k + 1] \in DigitChars => N[k + 1] = N[k] * base + DigitValue(text[k + 1])
      /\ \A k \in Nat : text[k + 1] \notin DigitChars => N[k + 1] = N[k]
  BY ReadUpToIs
<1>3. \A k \in 1 .. D : text[a + k] = Digits[(Q[D - k] % base) + 1]
  BY DEF Spells
<1>4. /\ a + D <= l /\ \A k \in (a + D + 1) .. l : text[k] \notin DigitChars
      /\ \A k \in 1 .. a : text[k] \in DigitChars => text[k] = "0"
  BY DEF Spells
<1> HIDE DEF D, Q, N
<1>5. N[a] = 0
  <2> DEFINE T == {k \in Nat : k <= a => N[k] = 0}
  <2>1. 0 \in T
    BY <1>2
  <2>2. ASSUME NEW k \in T PROVE k + 1 \in T
    <3> SUFFICES ASSUME k + 1 <= a PROVE N[k + 1] = 0
      OBVIOUS
    <3>1. k \in Nat /\ N[k] = 0 /\ k + 1 \in 1 .. a
      OBVIOUS
    <3>2. CASE text[k + 1] \in DigitChars
      <4>1. text[k + 1] = Digits[0 + 1]
        BY <1>4, <3>1, <3>2 DEF Digits
      <4>2. DigitValue(text[k + 1]) = 0
        BY <4>1, DigitValueIs
      <4>3. N[k + 1] = 0 * base + 0
        BY <1>2, <3>1, <3>2, <4>2
      <4> QED  BY <4>3 DEF Bases
    <3>3. CASE text[k + 1] \notin DigitChars
      BY <1>2, <3>1, <3>3
    <3> QED  BY <3>2, <3>3
  <2>3. \A k \in Nat : k \in T
    <3>1. T \in SUBSET Nat
      OBVIOUS
    <3> HIDE DEF T
    <3> QED  BY <2>1, <2>2, <3>1, SetInduction
  <2> QED  BY <2>3
<1>6. N[a + D] = n
  <2> DEFINE T == {k \in Nat : k <= D => N[a + k] = Q[D - k]}
  <2>1. 0 \in T
    <3>1. a + 0 = a /\ D - 0 = D
      BY <1>0
    <3> QED  BY <1>0, <1>5, <3>1
  <2>2. ASSUME NEW k \in T PROVE k + 1 \in T
    <3> SUFFICES ASSUME k + 1 <= D PROVE N[a + (k + 1)] = Q[D - (k + 1)]
      OBVIOUS
    <3> DEFINE j == D - (k + 1)
               q == Q[j]
               d == q % base
    <3>1. /\ k \in Nat /\ k + 1 \in 1 .. D /\ a + (k + 1) = (a + k) + 1 /\ a + k \in Nat
          /\ j \in Nat /\ j + 1 = D - k /\ N[a + k] = Q[D - k]
      BY <1>0
    <3>2. text[(a + k) + 1] = Digits[d + 1]
      BY <1>3, <3>1
    <3>3. q \in Nat /\ N[a + k] = q \div base
      BY <1>1, <3>1
    <3> HIDE DEF q
    <3>4. q \div base \in Nat /\ d \in 0 .. 15 /\ q = (q \div base) * base + d
      BY <3>3, DividedLess
    <3> HIDE DEF d
    <3>5. d + 1 \in 1 .. 16
      BY <3>4
    <3>6. text[(a + k) + 1] \in DigitChars /\ DigitValue(text[(a + k) + 1]) = d
      BY <3>2, <3>4, <3>5, DigitsAre, DigitValueIs
    <3>7. N[(a + k) + 1] = N[a + k] * base + d
      BY <1>2, <3>1, <3>6
    <3> QED  BY <3>1, <3>3, <3>4, <3>7 DEF q
  <2>3. \A k \in Nat : k \in T
    <3>1. T \in SUBSET Nat
      OBVIOUS
    <3> HIDE DEF T
    <3> QED  BY <2>1, <2>2, <3>1, SetInduction
  <2>4. N[a + D] = Q[D - D] /\ D - D = 0
    BY <1>0, <2>3
  <2> QED  BY <1>1, <2>4
<1>7. N[l] = n
  <2> DEFINE T == {k \in Nat : (a + D) + k <= l => N[(a + D) + k] = n}
  <2>1. 0 \in T
    <3>1. (a + D) + 0 = a + D
      BY <1>0
    <3> QED  BY <1>6, <3>1
  <2>2. ASSUME NEW k \in T PROVE k + 1 \in T
    <3> SUFFICES ASSUME (a + D) + (k + 1) <= l PROVE N[(a + D) + (k + 1)] = n
      OBVIOUS
    <3> DEFINE p == (a + D) + k
    <3>1. /\ k \in Nat /\ p \in Nat /\ (a + D) + (k + 1) = p + 1 /\ N[p] = n
          /\ p + 1 \in (a + D + 1) .. l
      BY <1>0
    <3> HIDE DEF p
    <3>2. text[p + 1] \notin DigitChars
      BY <1>4, <3>1
    <3>3. N[p + 1] = n
      BY <1>2, <3>1, <3>2
    <3> QED  BY <3>1, <3>3
  <2>3. \A k \in Nat : k \in T
    <3>1. T \in SUBSET Nat
      OBVIOUS
    <3> HIDE DEF T
    <3> QED  BY <2>1, <2>2, <3>1, SetInduction
  <2>4. l - (a + D) \in Nat /\ (a + D) + (l - (a + D)) = l
    BY <1>0, <1>4
  <2> QED  BY <2>3, <2>4
<1> QED  BY <1>7 DEF N

-----------------------------------------------------------------------------
(***************************************************************************)
(* Numbers that fit a word in reverse.                                     *)
(***************************************************************************)
\* The powers of a base.
Powers(P, base) ==
  P \in [Nat -> Nat] /\ P[0] = 1 /\ \A k \in Nat : P[k + 1] = base * P[k]

LEMMA PowerSteps ==
  ASSUME NEW base \in Bases, NEW p \in Nat, p > 0
  PROVE  /\ base * p \in Nat /\ p <= base * p
         /\ \A q \in Nat : q < base * p => q \div base < p
         /\ \A m \in Nat : \A d \in Nat : m < p /\ d < base => (m * base) + d < base * p
<1>1. CASE base = 8
  BY <1>1
<1>2. CASE base = 10
  BY <1>2
<1>3. CASE base = 16
  BY <1>3
<1> QED  BY <1>1, <1>2, <1>3 DEF Bases

LEMMA PowersGrow ==
  ASSUME NEW base \in Bases, NEW P, Powers(P, base)
  PROVE  /\ \A k \in Nat : P[k] \in Nat /\ P[k] > 0
         /\ \A k, m \in Nat : P[k] <= P[k + m]
<1>0. P[0] = 1 /\ \A k \in Nat : P[k] \in Nat /\ P[k + 1] = base * P[k]
  BY DEF Powers
<1>1. \A k \in Nat : P[k] > 0
  <2> DEFINE T == {k \in Nat : P[k] > 0}
  <2>1. 0 \in T
    BY <1>0
  <2>2. ASSUME NEW k \in T PROVE k + 1 \in T
    <3>1. k \in Nat /\ P[k] \in Nat /\ P[k] > 0 /\ k + 1 \in Nat
      BY <1>0
    <3>2. P[k] <= base * P[k] /\ P[k + 1] = base * P[k] /\ P[k + 1] \in Nat
      BY <1>0, <3>1, PowerSteps
    <3> QED  BY <3>1, <3>2
  <2>3. \A k \in Nat : k \in T
    <3>1. T \in SUBSET Nat
      OBVIOUS
    <3> HIDE DEF T
    <3> QED  BY <2>1, <2>2, <3>1, SetInduction
  <2> QED  BY <2>3
<1>2. ASSUME NEW k \in Nat, NEW m \in Nat PROVE P[k] <= P[k + m]
  <2> DEFINE T == {x \in Nat : P[k] <= P[k + x]}
  <2>1. 0 \in T
    BY <1>0
  <2>2. ASSUME NEW x \in T PROVE x + 1 \in T
    <3>1. x \in Nat /\ k + x \in Nat /\ k + (x + 1) = (k + x) + 1 /\ P[k] <= P[k + x]
      OBVIOUS
    <3>2. P[k + x] \in Nat /\ P[k + x] > 0 /\ P[(k + x) + 1] \in Nat /\ P[(k + x) + 1] = base * P[k + x]
      BY <1>0, <1>1, <3>1
    <3>3. P[k + x] <= P[(k + x) + 1]
      BY <3>2, PowerSteps
    <3>4. P[k] \in Nat
      BY <1>0
    <3>5. P[k] <= P[(k + x) + 1]
      BY <3>1, <3>2, <3>3, <3>4
    <3> QED  BY <3>1, <3>5
  <2>3. \A x \in Nat : x \in T
    <3>1. T \in SUBSET Nat
      OBVIOUS
    <3> HIDE DEF T
    <3> QED  BY <2>1, <2>2, <3>1, SetInduction
  <2> QED  BY <2>3
<1> QED  BY <1>0, <1>1, <1>2

\* A number below a power of the base that a word can hold has no more digits
\* than the power says, and they fit in any order.
LEMMA ShortFits ==
  ASSUME NEW n \in 0 .. (WORD - 1), NEW base \in Bases, NEW P, Powers(P, base),
         NEW w \in Nat \ {0}, n < P[w], P[w] <= WORD
  PROVE  FitsReversed(n, base)
<1> DEFINE Q == Divided(n, base)
           D == DigitCount(n, base)
           step == [p \in Nat \X Nat |-> (p[2] * base) + (Q[p[1]] % base)]
<1>1. n \in Nat /\ WORD \in Nat /\ D \in Nat \ {0} /\ Q[D] = 0 /\ (D > 1 => Q[D - 1] # 0)
  BY DigitCountIs, DebugPrintAssumption
<1>2. Q \in [Nat -> Nat] /\ Q[0] = n /\ \A k \in Nat : Q[k + 1] = Q[k] \div base
  BY <1>1, DividedIs
<1>3. /\ \A k \in Nat : P[k] \in Nat /\ P[k] > 0
      /\ \A k, m \in Nat : P[k] <= P[k + m]
      /\ P[0] = 1 /\ \A k \in Nat : P[k + 1] = base * P[k]
  BY PowersGrow DEF Powers
<1> HIDE DEF Q, D
<1>4. PICK M : Mirrors(M, n, base)
  <2>1. ASSUME NEW k \in Nat, NEW x \in Nat PROVE (x * base) + (Q[k] % base) \in Nat
    <3>1. Q[k] \in Nat
      BY <1>2
    <3>2. Q[k] % base \in Nat /\ base \in Nat
      BY <3>1, DividedLess DEF Bases
    <3> QED  BY <3>2
  <2>2. step \in [Nat \X Nat -> Nat]
    BY <2>1
  <2>3. \A k, x \in Nat : step[<<k, x>>] = (x * base) + (Q[k] % base)
    OBVIOUS
  <2> HIDE DEF step
  <2>4. PICK f \in [Nat -> Nat] : f[0] = 0 /\ \A k \in Nat : f[k + 1] = step[<<k, f[k]>>]
    <3>1. 0 \in Nat
      OBVIOUS
    <3> QED  BY <2>2, <3>1, RecursionExists
  <2>5. Mirrors(f, n, base)
    BY <2>3, <2>4 DEF Mirrors, Q
  <2> QED  BY <2>5
<1>5. \A k \in Nat : M[k] \in Nat /\ M[k + 1] = (M[k] * base) + (Q[k] % base)
  BY <1>4 DEF Mirrors, Q
<1>6. Q[w] = 0
  <2> DEFINE T == {k \in Nat : k <= w => Q[k] < P[w - k]}
  <2>1. 0 \in T
    BY <1>2
  <2>2. ASSUME NEW k \in T PROVE k + 1 \in T
    <3> SUFFICES ASSUME k + 1 <= w PROVE Q[k + 1] < P[w - (k + 1)]
      OBVIOUS
    <3> DEFINE j == w - (k + 1)
    <3>1. k \in Nat /\ j \in Nat /\ j + 1 = w - k /\ Q[k] < P[w - k]
      OBVIOUS
    <3> HIDE DEF j
    <3>2. Q[k] \in Nat /\ P[j] \in Nat /\ P[j] > 0 /\ Q[k] < base * P[j]
      BY <1>2, <1>3, <3>1
    <3>3. Q[k] \div base < P[j]
      BY <3>2, PowerSteps
    <3> QED  BY <1>2, <3>1, <3>3 DEF j
  <2>3. \A k \in Nat : k \in T
    <3>1. T \in SUBSET Nat
      OBVIOUS
    <3> HIDE DEF T
    <3> QED  BY <2>1, <2>2, <3>1, SetInduction
  <2>4. Q[w] < P[w - w] /\ w - w = 0 /\ Q[w] \in Nat
    BY <1>2, <2>3
  <2> QED  BY <1>3, <2>4
<1>7. D <= w
  <2> SUFFICES ASSUME w < D PROVE FALSE
    BY <1>1
  <2> DEFINE T == {k \in Nat : Q[w + k] = 0}
  <2>1. 0 \in T
    BY <1>6
  <2>2. ASSUME NEW k \in T PROVE k + 1 \in T
    <3>1. w + k \in Nat /\ w + (k + 1) = (w + k) + 1 /\ Q[w + k] = 0
      OBVIOUS
    <3>2. Q[(w + k) + 1] = Q[w + k] \div base /\ Q[w + k] \in Nat
      BY <1>2, <3>1
    <3>3. Q[(w + k) + 1] = 0
      BY <3>1, <3>2, DividedLess
    <3> QED  BY <3>1, <3>3
  <2>3. \A k \in Nat : k \in T
    <3>1. T \in SUBSET Nat
      OBVIOUS
    <3> HIDE DEF T
    <3> QED  BY <2>1, <2>2, <3>1, SetInduction
  <2>4. (D - 1) - w \in Nat /\ w + ((D - 1) - w) = D - 1 /\ D > 1
    BY <1>1
  <2>5. Q[D - 1] = 0
    BY <2>3, <2>4
  <2> QED  BY <1>1, <2>4, <2>5
<1>8. M[D] < P[D]
  <2> DEFINE T == {k \in Nat : M[k] < P[k]}
  <2>1. 0 \in T
    BY <1>3, <1>4 DEF Mirrors
  <2>2. ASSUME NEW k \in T PROVE k + 1 \in T
    <3>1. k \in Nat /\ k + 1 \in Nat /\ M[k] < P[k] /\ M[k] \in Nat /\ P[k] \in Nat /\ P[k] > 0
      BY <1>3, <1>5
    <3>2. Q[k] % base \in Nat /\ Q[k] % base < base
      BY <1>2, <3>1, DividedLess
    <3>3. (M[k] * base) + (Q[k] % base) < base * P[k]
      BY <3>1, <3>2, PowerSteps
    <3>4. M[k + 1] < P[k + 1]
      BY <1>3, <1>5, <3>1, <3>3
    <3> QED  BY <3>1, <3>4
  <2>3. \A k \in Nat : k \in T
    <3>1. T \in SUBSET Nat
      OBVIOUS
    <3> HIDE DEF T
    <3> QED  BY <2>1, <2>2, <3>1, SetInduction
  <2> QED  BY <1>1, <2>3
<1>9. P[D] <= P[w]
  <2>1. w - D \in Nat /\ D + (w - D) = w
    BY <1>1, <1>7
  <2> QED  BY <1>1, <1>3, <2>1
<1>10. M[D] < WORD
  <2>1. M[D] \in Nat /\ P[D] \in Nat /\ P[w] \in Nat
    BY <1>1, <1>3, <1>5
  <2> QED  BY <1>1, <1>8, <1>9, <2>1
<1> QED  BY <1>4, <1>10 DEF FitsReversed, D

\* What va_arg delivers.
Conversions == {"d", "i", "u", "x", "X", "o", "p"}

Lengths == {"NONE", "INT", "LONG", "LONG_LONG", "WORD", "PTR"}

\* The number whose digits are printed.
Magnitude(c, len, v) ==
  LET n == ArgValue(c, len, v) IN IF IsSigned(c) /\ n >= WORD \div 2 THEN WORD - n ELSE n

LEMMA BaseIs ==
  ASSUME NEW c
  PROVE  Base(c) \in Bases /\ IsSigned(c) \in BOOLEAN
BY DEF Base, Bases, IsSigned

LEMMA ArgumentIs ==
  ASSUME NEW c, NEW len, NEW v \in ArgValues
  PROVE  /\ ArgValue(c, len, v) \in 0 .. (WORD - 1)
         /\ Magnitude(c, len, v) \in 0 .. (WORD - 1)
         /\ ArgNumber(c, len, v) = IF IsSigned(c) /\ ArgValue(c, len, v) >= WORD \div 2
                                   THEN -Magnitude(c, len, v) ELSE Magnitude(c, len, v)
<1>1. WORD \in Nat \ {0, 1} /\ INT_MOD \in Nat \ {0, 1} /\ INT_MOD <= WORD /\ v \in Nat /\ v < WORD
  BY DebugPrintAssumption
<1> DEFINE n == v % INT_MOD
           hw == WORD \div 2
           hi == INT_MOD \div 2
           x == ArgValue(c, len, v)
<1>2. n \in Nat /\ n < INT_MOD
  BY <1>1
<1>3. /\ hw \in Nat /\ hi \in Nat /\ hw > 0 /\ hi > 0
      /\ hw <= WORD /\ hi <= INT_MOD /\ hi <= hw /\ INT_MOD - hi <= WORD - hw
  BY <1>1
<1>4. v % WORD = v
  BY <1>1
<1>5. CASE len = "INT" /\ c # "p" /\ IsSigned(c) /\ n >= hi
  <2>1. c # "p"
    BY <1>5 DEF IsSigned
  <2>2. x = WORD - (INT_MOD - n)
    BY <1>5 DEF ArgValue
  <2>3. ArgNumber(c, len, v) = n - INT_MOD
    BY <1>5, <2>1 DEF ArgNumber
  <2> HIDE DEF n, hw, hi, x
  <2>4. x \in 0 .. (WORD - 1) /\ x >= hw
    BY <1>1, <1>2, <1>3, <1>5, <2>2
  <2>5. Magnitude(c, len, v) = WORD - x
    BY <1>5, <2>4 DEF Magnitude, x, hw
  <2>6. WORD - x = INT_MOD - n /\ WORD - x \in 0 .. (WORD - 1)
    BY <1>1, <1>2, <1>3, <1>5, <2>2
  <2>7. ArgNumber(c, len, v) = -Magnitude(c, len, v)
    BY <1>1, <1>2, <2>3, <2>5, <2>6
  <2> QED  BY <1>5, <2>4, <2>5, <2>6, <2>7 DEF x, hw
<1>6. CASE len = "INT" /\ c # "p" /\ ~(IsSigned(c) /\ n >= hi)
  <2>1. x = n
    BY <1>6 DEF ArgValue
  <2>2. ArgNumber(c, len, v) = n
    BY <1>6 DEF ArgNumber
  <2> HIDE DEF n, hw, hi, x
  <2>3. x \in 0 .. (WORD - 1) /\ ~(IsSigned(c) /\ x >= hw)
    BY <1>1, <1>2, <1>3, <1>6, <2>1
  <2>4. Magnitude(c, len, v) = x
    BY <2>3 DEF Magnitude, x, hw
  <2> QED  BY <2>1, <2>2, <2>3, <2>4 DEF x, hw
<1>7. CASE ~(len = "INT" /\ c # "p")
  <2>1. x = v
    BY <1>7 DEF ArgValue, IsSigned
  <2>2. ArgNumber(c, len, v) = IF IsSigned(c) /\ v >= hw THEN v - WORD ELSE v
    BY <1>4, <1>7 DEF ArgNumber
  <2>3. Magnitude(c, len, v) = IF IsSigned(c) /\ v >= hw THEN WORD - v ELSE v
    BY <2>1 DEF Magnitude
  <2> HIDE DEF n, hw, hi, x
  <2>4. CASE IsSigned(c) /\ v >= hw
    <3>1. ArgNumber(c, len, v) = v - WORD /\ Magnitude(c, len, v) = WORD - v
      BY <2>2, <2>3, <2>4
    <3>2. WORD - v \in 0 .. (WORD - 1) /\ v - WORD = -(WORD - v) /\ v \in 0 .. (WORD - 1)
      BY <1>1, <1>3, <2>4
    <3> QED  BY <2>1, <2>4, <3>1, <3>2 DEF x, hw
  <2>5. CASE ~(IsSigned(c) /\ v >= hw)
    <3>1. ArgNumber(c, len, v) = v /\ Magnitude(c, len, v) = v
      BY <2>2, <2>3, <2>5
    <3>2. v \in 0 .. (WORD - 1)
      BY <1>1
    <3> QED  BY <2>1, <2>5, <3>1, <3>2 DEF x, hw
  <2> QED  BY <2>4, <2>5
<1> QED  BY <1>5, <1>6, <1>7

-----------------------------------------------------------------------------
(***************************************************************************)
(* The text of a conversion: sign, prefix, padding and digits.             *)
(***************************************************************************)
\* What stands in front of the digits, the sign "-" apart.
LeadChars == {"+", " ", "0", "x"}

TextChars == DigitChars \cup {"-", "+", " ", "x"}

LEMMA LeadIsNoNumber ==
  /\ \A c \in LeadChars \cup {"-"} : c \in DigitChars => c = "0"
  /\ " " \notin DigitChars /\ "0" \in DigitChars /\ "-" \notin DigitChars
<1> DEFINE Chars == {"0", "1", "2", "3", "4", "5", "6", "7", "8", "9", "a", "b", "c", "d", "e", "f"}
<1>1. \A j \in 1 .. 16 : Digits[j] \in Chars
  BY DEF Digits
<1>2. \A c \in DigitChars : c \in Chars
  BY <1>1, DigitsAre
<1>3. "-" \notin Chars /\ " " \notin Chars /\ "+" \notin Chars /\ "x" \notin Chars
  OBVIOUS
<1> HIDE DEF Chars
<1>4. "0" \in DigitChars
  <2>1. Digits[1] = "0" /\ 1 \in 1 .. 16
    BY DEF Digits
  <2> QED  BY <2>1, DigitsAre
<1>5. "-" \notin DigitChars /\ " " \notin DigitChars /\ "+" \notin DigitChars /\ "x" \notin DigitChars
  BY <1>2, <1>3
<1>6. ASSUME NEW c \in LeadChars \cup {"-"}, c \in DigitChars PROVE c = "0"
  BY <1>5, <1>6 DEF LeadChars
<1> QED  BY <1>4, <1>5, <1>6

LEMMA Concat3 ==
  ASSUME NEW s \in Seq(TextChars), NEW t \in Seq(TextChars), NEW u \in Seq(TextChars)
  PROVE  (s \o t) \o u = s \o (t \o u)
BY ConcatAssociative

LEMMA RepeatIs ==
  ASSUME NEW c, NEW w \in Int
  PROVE  Repeat(c, w) \in Seq({c})
<1>1. CASE w \in Nat
  BY <1>1 DEF Repeat
<1>2. CASE w \notin Nat
  <2>1. 1 .. w = 1 .. 0
    BY <1>2
  <2> QED  BY <2>1 DEF Repeat
<1> QED  BY <1>1, <1>2

LEMMA SignIs ==
  ASSUME NEW n \in 0 .. (WORD - 1), NEW base \in Bases, NEW sign \in BOOLEAN
  PROVE  LET t == IntText(n, base, sign).sign IN
         /\ (sign /\ n >= WORD \div 2) => t = << "-" >>
         /\ ~(sign /\ n >= WORD \div 2) => t \in Seq(LeadChars)
<1> DEFINE t == IntText(n, base, sign).sign
           negative == sign /\ n >= WORD \div 2
<1>1. CASE negative
  <2>1. t = << "-" >>
    BY <1>1 DEF IntText
  <2> QED  BY <1>1, <2>1
<1>2. CASE ~negative /\ "+" \in flags
  <2>1. t = << "+" >>
    BY <1>2 DEF IntText
  <2>2. << "+" >> \in Seq(LeadChars)
    BY DEF LeadChars
  <2> QED  BY <1>2, <2>1, <2>2
<1>3. CASE ~negative /\ "+" \notin flags /\ " " \in flags
  <2>1. t = << " " >>
    BY <1>3 DEF IntText
  <2>2. << " " >> \in Seq(LeadChars)
    BY DEF LeadChars
  <2> QED  BY <1>3, <2>1, <2>2
<1>4. CASE ~negative /\ "+" \notin flags /\ " " \notin flags
  <2>1. t = << >>
    BY <1>4 DEF IntText
  <2>2. << >> \in Seq(LeadChars)
    OBVIOUS
  <2> QED  BY <1>4, <2>1, <2>2
<1> QED  BY <1>1, <1>2, <1>3, <1>4

LEMMA PrefixIs ==
  ASSUME NEW n, NEW base, NEW sign
  PROVE  IntText(n, base, sign).prefix \in Seq(LeadChars)
<1> DEFINE t == IntText(n, base, sign).prefix
<1>1. CASE "#" \in flags /\ base = 8
  <2>1. t = << "0" >>
    BY <1>1 DEF IntText
  <2> QED  BY <2>1 DEF LeadChars
<1>2. CASE "#" \in flags /\ base = 16
  <2>1. t = << "0", "x" >>
    BY <1>2 DEF IntText
  <2>2. << "0", "x" >> \in Seq(LeadChars)
    BY DEF LeadChars
  <2> QED  BY <2>1, <2>2
<1>3. CASE ~("#" \in flags /\ base = 8) /\ ~("#" \in flags /\ base = 16)
  <2>1. t = << >>
    BY <1>3 DEF IntText
  <2> QED  BY <2>1
<1> QED  BY <1>1, <1>2, <1>3

\* A text has its digits in the middle, signs, prefixes and padding around.
TextHas(text, lead, digits, trail) ==
  /\ text = (lead \o digits) \o trail
  /\ lead \in Seq(LeadChars \cup {"-"}) /\ trail \in Seq({"0", " "})
  /\ ~({"-", "0"} \subseteq flags) => trail \in Seq({" "})

LEMMA TextIs ==
  ASSUME width \in Nat,
         NEW n \in 0 .. (WORD - 1), NEW base \in Bases, NEW sign \in BOOLEAN,
         NEW m \in 0 .. (WORD - 1), m = IF sign /\ n >= WORD \div 2 THEN WORD - n ELSE n
  PROVE  LET r == debug_print_int(n, base, sign) IN
         /\ r.chars \in Nat
         /\ \E lead, trail :
              /\ TextHas(r.text, lead, DigitsOf(m, base), trail)
              /\ (sign /\ n >= WORD \div 2) => Len(lead) > 0 /\ lead[1] = "-"
              /\ ~(sign /\ n >= WORD \div 2) => lead \in Seq(LeadChars)
<1> DEFINE negative == sign /\ n >= WORD \div 2
           t == IntText(n, base, sign)
           r == debug_print_int(n, base, sign)
           s == t.sign
           p == t.prefix
           ds == DigitsOf(m, base)
           pad == Repeat(IF "0" \in flags THEN "0" ELSE " ", width - Len(ds))
           C == TextChars
           L == LeadChars \cup {"-"}
<1>1. r.text = s \o p \o t.body /\ r.chars = Len(s) + Len(t.body)
  BY DEF debug_print_int
<1>2. t.body = IF "-" \in flags THEN ds \o pad ELSE pad \o ds
  BY DEF IntText
<1>3. ds \in Seq(DigitChars) /\ Len(ds) \in Nat
  BY DigitsOfAre
<1>4. (negative => s = << "-" >>) /\ (~negative => s \in Seq(LeadChars))
  BY SignIs
<1>5. p \in Seq(LeadChars)
  BY PrefixIs
<1> HIDE DEF ds
<1>6. pad \in Seq({"0", " "}) /\ ("0" \notin flags => pad \in Seq({" "}))
  <2>1. width - Len(ds) \in Int
    BY <1>3
  <2>2. Repeat("0", width - Len(ds)) \in Seq({"0"}) /\ Repeat(" ", width - Len(ds)) \in Seq({" "})
    BY <2>1, RepeatIs
  <2>3. Seq({"0"}) \subseteq Seq({"0", " "}) /\ Seq({" "}) \subseteq Seq({"0", " "})
    <3>1. {"0"} \subseteq {"0", " "} /\ {" "} \subseteq {"0", " "}
      OBVIOUS
    <3> QED  BY <3>1, SeqMonotonic
  <2>4. CASE "0" \in flags
    <3>1. pad = Repeat("0", width - Len(ds))
      BY <2>4
    <3> QED  BY <2>2, <2>3, <2>4, <3>1
  <2>5. CASE "0" \notin flags
    <3>1. pad = Repeat(" ", width - Len(ds))
      BY <2>5
    <3> QED  BY <2>2, <2>3, <2>5, <3>1
  <2> QED  BY <2>4, <2>5
<1> HIDE DEF pad, t, r, s, p, negative
<1>7. Seq(LeadChars) \subseteq Seq(L) /\ Seq({"0", " "}) \subseteq Seq(L) /\ Seq({"0", " "}) \subseteq Seq(LeadChars)
  <2>1. LeadChars \subseteq L /\ {"0", " "} \subseteq L /\ {"0", " "} \subseteq LeadChars
    BY DEF LeadChars
  <2> QED  BY <2>1, SeqMonotonic
<1>8. Seq(DigitChars) \subseteq Seq(C) /\ Seq(L) \subseteq Seq(C)
  <2>1. DigitChars \subseteq C /\ L \subseteq C
    BY LeadIsNoNumber DEF LeadChars, TextChars
  <2> QED  BY <2>1, SeqMonotonic
<1>9. << "-" >> \in Seq(L) /\ Len(<< "-" >>) = 1 /\ << "-" >>[1] = "-"
  BY DEF LeadChars
<1>10. s \in Seq(L) /\ p \in Seq(L) /\ pad \in Seq(L)
  BY <1>4, <1>5, <1>6, <1>7, <1>9
<1> HIDE DEF C, L
<1>11. s \in Seq(C) /\ p \in Seq(C) /\ pad \in Seq(C) /\ ds \in Seq(C)
  BY <1>3, <1>8, <1>10
<1>12. s \o p \in Seq(L) /\ (~negative => s \o p \in Seq(LeadChars))
  <2>1. s \o p \in Seq(L)
    BY <1>10, ConcatProperties
  <2>2. ~negative => s \o p \in Seq(LeadChars)
    BY <1>4, <1>5, ConcatProperties
  <2> QED  BY <2>1, <2>2
<1>13. negative => Len(s \o p) > 0 /\ (s \o p)[1] = "-"
  <2> SUFFICES ASSUME negative PROVE Len(s \o p) > 0 /\ (s \o p)[1] = "-"
    OBVIOUS
  <2>1. Len(s) = 1 /\ s[1] = "-" /\ Len(p) \in Nat
    BY <1>4, <1>9, <1>10, LenProperties
  <2>2. Len(s \o p) = Len(s) + Len(p)
    BY <1>10, ConcatProperties
  <2>3. 1 \in 1 .. Len(s) + Len(p) /\ 1 <= Len(s)
    BY <2>1
  <2>4. (s \o p)[1] = s[1]
    BY <1>10, <2>3, ConcatProperties
  <2> QED  BY <2>1, <2>2, <2>4
<1>14. s \o p \in Seq(C) /\ ds \o pad \in Seq(C) /\ pad \o ds \in Seq(C)
  BY <1>11, ConcatProperties
<1>15. r.chars \in Nat
  <2>1. t.body \in Seq(C)
    BY <1>2, <1>14
  <2>2. Len(s) \in Nat /\ Len(t.body) \in Nat
    BY <1>11, <2>1, LenProperties
  <2> QED  BY <1>1, <2>2
<1>16. CASE "-" \in flags
  <2>1. r.text = (s \o p) \o (ds \o pad)
    BY <1>1, <1>2, <1>16
  <2>2. r.text = ((s \o p) \o ds) \o pad
    <3> DEFINE sp == s \o p
    <3>1. sp \in Seq(C) /\ r.text = sp \o (ds \o pad)
      BY <1>14, <2>1
    <3> HIDE DEF sp
    <3>2. (sp \o ds) \o pad = sp \o (ds \o pad)
      BY <1>11, <3>1, Concat3 DEF C
    <3> QED  BY <3>1, <3>2 DEF sp
  <2>3. ~({"-", "0"} \subseteq flags) => pad \in Seq({" "})
    BY <1>6, <1>16
  <2>4. TextHas(r.text, s \o p, ds, pad)
    BY <1>6, <1>12, <2>2, <2>3 DEF TextHas, L
  <2> QED  BY <1>12, <1>13, <1>15, <2>4 DEF r, ds, negative
<1>17. CASE "-" \notin flags
  <2> DEFINE lead == (s \o p) \o pad
  <2>1. r.text = (s \o p) \o (pad \o ds)
    BY <1>1, <1>2, <1>17
  <2>2. r.text = lead \o ds
    <3> DEFINE sp == s \o p
    <3>1. sp \in Seq(C) /\ r.text = sp \o (pad \o ds) /\ lead = sp \o pad
      BY <1>14, <2>1
    <3> HIDE DEF sp
    <3>2. (sp \o pad) \o ds = sp \o (pad \o ds)
      BY <1>11, <3>1, Concat3 DEF C
    <3> QED  BY <3>1, <3>2
  <2>3. lead \in Seq(L) /\ lead \in Seq(C)
    <3>1. lead \in Seq(L)
      BY <1>10, <1>12, ConcatProperties
    <3> QED  BY <1>8, <3>1
  <2>4. ~negative => lead \in Seq(LeadChars)
    <3>1. pad \in Seq(LeadChars)
      BY <1>6, <1>7
    <3> QED  BY <1>12, <3>1, ConcatProperties
  <2>5. negative => Len(lead) > 0 /\ lead[1] = "-"
    <3> SUFFICES ASSUME negative PROVE Len(lead) > 0 /\ lead[1] = "-"
      OBVIOUS
    <3> DEFINE sp == s \o p
    <3>1. sp \in Seq(L) /\ Len(sp) \in Nat /\ Len(pad) \in Nat /\ Len(sp) > 0 /\ sp[1] = "-"
      BY <1>10, <1>12, <1>13, LenProperties
    <3> HIDE DEF sp
    <3>2. Len(sp \o pad) = Len(sp) + Len(pad)
      BY <1>10, <3>1, ConcatProperties
    <3>3. 1 \in 1 .. Len(sp) + Len(pad) /\ 1 <= Len(sp)
      BY <3>1
    <3>4. (sp \o pad)[1] = sp[1]
      BY <1>10, <3>1, <3>3, ConcatProperties
    <3>5. Len(sp \o pad) > 0
      BY <3>1, <3>2
    <3> QED  BY <3>1, <3>4, <3>5 DEF sp
  <2> HIDE DEF lead
  <2>6. r.text = (lead \o ds) \o << >>
    <3>1. lead \o ds \in Seq(C)
      BY <1>11, <2>3, ConcatProperties
    <3> QED  BY <2>2, <3>1, ConcatEmptySeq
  <2>7. << >> \in Seq({"0", " "}) /\ << >> \in Seq({" "})
    OBVIOUS
  <2>8. TextHas(r.text, lead, ds, << >>)
    BY <2>3, <2>6, <2>7 DEF TextHas, L
  <2> QED  BY <1>15, <2>4, <2>5, <2>8 DEF r, ds, negative
<1> QED  BY <1>16, <1>17

LEMMA TextTyped ==
  ASSUME NEW text, NEW lead, NEW digits \in Seq(DigitChars), NEW trail,
         TextHas(text, lead, digits, trail)
  PROVE  /\ lead \in Seq(TextChars) /\ digits \in Seq(TextChars) /\ trail \in Seq(TextChars)
         /\ lead \o digits \in Seq(TextChars)
         /\ text \in Seq(TextChars)
<1>1. LeadChars \cup {"-"} \subseteq TextChars /\ {"0", " "} \subseteq TextChars /\ DigitChars \subseteq TextChars
  BY LeadIsNoNumber DEF LeadChars, TextChars
<1>2. lead \in Seq(TextChars) /\ digits \in Seq(TextChars) /\ trail \in Seq(TextChars)
  BY <1>1, SeqMonotonic DEF TextHas
<1>3. lead \o digits \in Seq(TextChars)
  BY <1>2, ConcatProperties
<1>4. (lead \o digits) \o trail \in Seq(TextChars)
  BY <1>2, <1>3, ConcatProperties
<1> QED  BY <1>2, <1>3, <1>4 DEF TextHas

\* Where the characters of the parts are in the text.
LEMMA TextParts ==
  ASSUME NEW text, NEW lead, NEW digits \in Seq(DigitChars), NEW trail,
         TextHas(text, lead, digits, trail)
  PROVE  /\ Len(lead) \in Nat /\ Len(digits) \in Nat /\ Len(trail) \in Nat
         /\ Len(text) = Len(lead) + Len(digits) + Len(trail)
         /\ \A k \in 1 .. Len(lead) : text[k] = lead[k]
         /\ \A k \in 1 .. Len(digits) : text[Len(lead) + k] = digits[k]
         /\ \A k \in 1 .. Len(trail) : text[Len(lead) + Len(digits) + k] = trail[k]
<1> DEFINE C == TextChars
           front == lead \o digits
           a == Len(lead)
           d == Len(digits)
           z == Len(trail)
<1>1. lead \in Seq(C) /\ digits \in Seq(C) /\ trail \in Seq(C) /\ front \in Seq(C) /\ text = front \o trail
  BY TextTyped DEF TextHas
<1> HIDE DEF C
<1>2. /\ Len(front) = a + d
      /\ \A k \in 1 .. a + d : front[k] = IF k <= a THEN lead[k] ELSE digits[k - a]
  BY <1>1, ConcatProperties
<1> HIDE DEF front
<1>3. /\ Len(text) = Len(front) + z
      /\ \A k \in 1 .. Len(front) + z : text[k] = IF k <= Len(front) THEN front[k] ELSE trail[k - Len(front)]
  BY <1>1, ConcatProperties
<1>4. a \in Nat /\ d \in Nat /\ z \in Nat
  BY <1>1, LenProperties
<1> HIDE DEF a, d, z
<1>5. Len(text) = a + d + z
  BY <1>2, <1>3, <1>4
<1>6. ASSUME NEW k \in 1 .. a PROVE text[k] = lead[k]
  <2>1. k \in 1 .. a + d /\ k <= a /\ k \in 1 .. Len(front) + z /\ k <= Len(front)
    BY <1>2, <1>4
  <2> QED  BY <1>2, <1>3, <2>1
<1>7. ASSUME NEW k \in 1 .. d PROVE text[a + k] = digits[k]
  <2>1. /\ a + k \in 1 .. a + d /\ ~(a + k <= a) /\ a + k \in 1 .. Len(front) + z
        /\ a + k <= Len(front) /\ (a + k) - a = k
    BY <1>2, <1>4
  <2> QED  BY <1>2, <1>3, <2>1
<1>8. ASSUME NEW k \in 1 .. z PROVE text[a + d + k] = trail[k]
  <2>1. a + d + k \in 1 .. Len(front) + z /\ ~(a + d + k <= Len(front)) /\ (a + d + k) - Len(front) = k
    BY <1>2, <1>4
  <2> QED  BY <1>3, <2>1
<1> QED  BY <1>4, <1>5, <1>6, <1>7, <1>8 DEF a, d, z

\* The text of a number that fits in reverse stands for the number.
LEMMA TextReadsBack ==
  ASSUME width \in Nat, ~({"-", "0"} \subseteq flags),
         NEW n \in 0 .. (WORD - 1), NEW base \in Bases, NEW sign \in BOOLEAN,
         NEW m \in 0 .. (WORD - 1), m = IF sign /\ n >= WORD \div 2 THEN WORD - n ELSE n,
         FitsReversed(m, base)
  PROVE  ReadBack(debug_print_int(n, base, sign).text, base) =
           IF sign /\ n >= WORD \div 2 THEN -m ELSE m
<1> DEFINE negative == sign /\ n >= WORD \div 2
           text == debug_print_int(n, base, sign).text
           ds == DigitsOf(m, base)
           D == DigitCount(m, base)
<1>1. PICK lead, trail : /\ TextHas(text, lead, ds, trail)
                         /\ negative => Len(lead) > 0 /\ lead[1] = "-"
                         /\ ~negative => lead \in Seq(LeadChars)
  BY TextIs
<1>2. ds \in Seq(DigitChars) /\ Len(ds) = D /\ D \in Nat \ {0}
  BY DigitsOfAre
<1>3. \A k \in 1 .. D : ds[k] = Digits[(Divided(m, base)[D - k] % base) + 1]
  BY DigitsAreThoseOf
<1> HIDE DEF text, ds, D, negative
<1> DEFINE a == Len(lead)
           z == Len(trail)
           l == Len(text)
<1>4. /\ a \in Nat /\ z \in Nat /\ l = a + D + z
      /\ \A k \in 1 .. a : text[k] = lead[k]
      /\ \A k \in 1 .. D : text[a + k] = ds[k]
      /\ \A k \in 1 .. z : text[a + D + k] = trail[k]
  <2>0. TextHas(text, lead, ds, trail)
    BY <1>1
  <2>1. /\ Len(text) = a + Len(ds) + z
        /\ \A k \in 1 .. Len(ds) : text[a + k] = ds[k]
        /\ \A k \in 1 .. z : text[a + Len(ds) + k] = trail[k]
    <3>1. Len(text) = a + Len(ds) + z
      BY <1>2, <2>0, TextParts
    <3>2. \A k \in 1 .. Len(ds) : text[a + k] = ds[k]
      BY <1>2, <2>0, TextParts
    <3>3. \A k \in 1 .. z : text[a + Len(ds) + k] = trail[k]
      BY <1>2, <2>0, TextParts
    <3> QED  BY <3>1, <3>2, <3>3
  <2>2. a \in Nat /\ z \in Nat /\ \A k \in 1 .. a : text[k] = lead[k]
    BY <1>1, <1>2, TextParts
  <2> QED  BY <1>2, <2>1, <2>2
<1>5. \A k \in 1 .. a : lead[k] \in LeadChars \cup {"-"} /\ (~negative => lead[k] \in LeadChars)
  <2>1. lead \in Seq(LeadChars \cup {"-"})
    BY <1>1 DEF TextHas
  <2>2. \A k \in 1 .. a : lead[k] \in LeadChars \cup {"-"}
    BY <2>1, ElementOfSeq
  <2>3. ~negative => \A k \in 1 .. a : lead[k] \in LeadChars
    BY <1>1, ElementOfSeq
  <2> QED  BY <2>2, <2>3
<1>6. \A k \in 1 .. z : trail[k] = " "
  <2>1. trail \in Seq({" "})
    BY <1>1 DEF TextHas
  <2>2. \A k \in 1 .. z : trail[k] \in {" "}
    BY <2>1, ElementOfSeq
  <2> QED  BY <2>2
<1>7. text \in Seq(TextChars)
  BY <1>1, <1>2, TextTyped
<1> HIDE DEF a, z, l
<1>8. ReadUpTo(text, base)[l] = m
  <2>1. \A k \in 1 .. a : text[k] \in DigitChars => text[k] = "0"
    BY <1>4, <1>5, LeadIsNoNumber
  <2>2. \A k \in 1 .. D : text[a + k] = Digits[(Divided(m, base)[D - k] % base) + 1]
    BY <1>3, <1>4
  <2>3. ASSUME NEW k \in (a + D + 1) .. l PROVE text[k] \notin DigitChars
    <3>1. k - (a + D) \in 1 .. z /\ a + D + (k - (a + D)) = k
      BY <1>2, <1>4
    <3>2. text[k] = " "
      BY <1>4, <1>6, <3>1
    <3> QED  BY <3>2, LeadIsNoNumber
  <2>4. a + D <= l /\ l \in Nat
    BY <1>2, <1>4
  <2>5. Spells(text, m, base, a, l)
    BY <2>1, <2>2, <2>3, <2>4 DEF Spells, D
  <2> QED  BY <1>4, <2>4, <2>5, ReadsAs
<1>9. "-" \in ToSet(text) <=> negative
  <2>1. DOMAIN text = 1 .. l
    BY <1>7, LenProperties DEF l
  <2>2. ToSet(text) = {text[k] : k \in 1 .. l}
    BY <2>1 DEF ToSet
  <2>3. CASE negative
    <3>1. 1 \in 1 .. a /\ 1 \in 1 .. l /\ lead[1] = "-"
      BY <1>1, <1>2, <1>4, <2>3 DEF a
    <3>2. text[1] = "-"
      BY <1>4, <3>1
    <3> QED  BY <2>2, <2>3, <3>1, <3>2
  <2>4. CASE ~negative
    <3>1. ASSUME NEW k \in 1 .. l PROVE text[k] # "-"
      <4>1. CASE k <= a
        <5>1. k \in 1 .. a
          BY <4>1
        <5>2. text[k] \in LeadChars
          BY <1>4, <1>5, <2>4, <5>1
        <5> QED  BY <5>2 DEF LeadChars
      <4>2. CASE a < k /\ k <= a + D
        <5>1. k - a \in 1 .. D /\ a + (k - a) = k
          BY <1>2, <1>4, <4>2
        <5>2. text[k] = ds[k - a] /\ ds[k - a] \in DigitChars
          BY <1>2, <1>4, <5>1, ElementOfSeq
        <5> QED  BY <5>2, LeadIsNoNumber
      <4>3. CASE a + D < k
        <5>1. k - (a + D) \in 1 .. z /\ a + D + (k - (a + D)) = k
          BY <1>2, <1>4, <4>3
        <5>2. text[k] = " "
          BY <1>4, <1>6, <5>1
        <5> QED  BY <5>2
      <4> QED  BY <1>2, <1>4, <4>1, <4>2, <4>3
    <3> QED  BY <2>2, <2>4, <3>1
  <2> QED  BY <2>3, <2>4
<1>10. ReadBack(text, base) = IF negative THEN -m ELSE m
  BY <1>8, <1>9 DEF ReadBack, l
<1> QED  BY <1>10 DEF text, negative

-----------------------------------------------------------------------------
(***************************************************************************)
(* The conversions of debug_vprintf.                                       *)
(***************************************************************************)
\* What a conversion leaves behind.
LEMMA PrintIntIs ==
  ASSUME ScanInv, NEW v \in ArgValues, PrintInt(v)
  PROVE  LET c == At(i)
             r == debug_print_int(ArgValue(c, length, v), Base(c), IsSigned(c))
         IN  /\ chars' = chars + r.chars /\ r.chars \in Nat
             /\ last'.number = v /\ last'.text = r.text /\ r.text \in Seq(TextChars)
<1> DEFINE c == At(i)
           n == ArgValue(c, length, v)
           m == Magnitude(c, length, v)
           r == debug_print_int(n, Base(c), IsSigned(c))
           b == Base(c)
           sg == IsSigned(c)
<1>1. chars' = chars + r.chars /\ last'.number = v /\ last'.text = r.text
  BY DEF PrintInt
<1>2. /\ n \in 0 .. (WORD - 1) /\ m \in 0 .. (WORD - 1)
      /\ m = IF sg /\ n >= WORD \div 2 THEN WORD - n ELSE n
  BY ArgumentIs DEF Magnitude
<1>3. b \in Bases /\ sg \in BOOLEAN /\ width \in Nat
  BY BaseIs DEF ScanInv
<1> DEFINE q == debug_print_int(n, b, sg)
<1> HIDE DEF n, m, b, sg
<1>4. q.chars \in Nat /\ \E lead, trail : TextHas(q.text, lead, DigitsOf(m, b), trail)
  <2> HIDE DEF q
  <2> QED  BY <1>2, <1>3, TextIs DEF q
<1>5. DigitsOf(m, b) \in Seq(DigitChars)
  BY <1>2, <1>3, DigitsOfAre
<1>6. q.text \in Seq(TextChars)
  BY <1>4, <1>5, TextTyped
<1> QED  BY <1>1, <1>4, <1>6 DEF n, b, sg

\* One conversion of an argument that fits in reverse.
LEMMA PrintIntReadsBack ==
  ASSUME ScanInv, NEW v \in ArgValues, PrintInt(v), ~({"-", "0"} \subseteq flags),
         FitsReversed(Magnitude(At(i), length, v), Base(At(i)))
  PROVE  ReadBack(last'.text, Base(At(i))) = ArgNumber(At(i), length, v)
<1> DEFINE c == At(i)
           n == ArgValue(c, length, v)
           m == Magnitude(c, length, v)
           b == Base(c)
           sg == IsSigned(c)
           num == ArgNumber(c, length, v)
<1>1. last'.text = debug_print_int(n, b, sg).text
  BY PrintIntIs
<1>2. /\ n \in 0 .. (WORD - 1) /\ m \in 0 .. (WORD - 1)
      /\ num = IF sg /\ n >= WORD \div 2 THEN -m ELSE m
  BY ArgumentIs
<1>3. m = IF sg /\ n >= WORD \div 2 THEN WORD - n ELSE n
  BY DEF Magnitude
<1>4. b \in Bases /\ sg \in BOOLEAN /\ width \in Nat /\ FitsReversed(m, b)
  BY BaseIs DEF ScanInv
<1> HIDE DEF n, m, b, sg, num
<1>5. ReadBack(debug_print_int(n, b, sg).text, b) = IF sg /\ n >= WORD \div 2 THEN -m ELSE m
  BY <1>2, <1>3, <1>4, TextReadsBack
<1>6. ReadBack(last'.text, b) = num
  BY <1>1, <1>2, <1>5
<1> QED  BY <1>6 DEF b, num

\* A step out of "print" that leaves a text is a conversion of an argument.
LEMMA PrintIs ==
  ASSUME Next, pc = "print", last'.text # << >>
  PROVE  \E v \in ArgValues : PrintInt(v) /\ last'.number = v
<1>1. ASSUME NEW v \in ArgValues, PrintString(v) PROVE FALSE
  BY <1>1 DEF PrintString, NoLast
<1>2. ASSUME PrintChar \/ PrintPercent \/ PrintNothing PROVE FALSE
  BY <1>2 DEF PrintChar, PrintPercent, PrintNothing, NoLast
<1>3. ~(debug_printf \/ debug_log \/ Literal \/ Percent \/ Flag \/ EndFlags)
  BY DEF debug_printf, debug_log, Literal, Percent, Flag, EndFlags
<1>4. ~(Digit \/ EndWidth \/ GetLength \/ Return \/ Returned)
  BY DEF Digit, EndWidth, GetLength, Return, Returned
<1>5. PICK v \in ArgValues : PrintInt(v)
  BY <1>1, <1>2, <1>3, <1>4 DEF Next, Step
<1>6. last'.number = v
  BY <1>5 DEF PrintInt
<1> QED  BY <1>5, <1>6

LEMMA TypeKept ==
  ASSUME ScanInv, TypeOK, [Next]_vars, ScanInv'
  PROVE  TypeOK'
<1>1. chars \in Nat /\ last.text \in Seq(TextChars)
  BY DEF TypeOK, TextChars, DigitChars
<1>2. chars' \in Nat /\ last'.text \in Seq(TextChars)
  <2>0. << >> \in Seq(TextChars) /\ NoLast.text = << >>
    BY DEF NoLast
  <2>1. ASSUME NEW v \in ArgValues, PrintInt(v) PROVE chars' \in Nat /\ last'.text \in Seq(TextChars)
    <3> DEFINE r == debug_print_int(ArgValue(At(i), length, v), Base(At(i)), IsSigned(At(i)))
    <3>1. chars' = chars + r.chars /\ r.chars \in Nat /\ last'.text = r.text /\ r.text \in Seq(TextChars)
      BY <2>1, PrintIntIs
    <3> HIDE DEF r
    <3> QED  BY <1>1, <3>1
  <2>2. ASSUME NEW v \in ArgValues, PrintString(v) PROVE chars' \in Nat /\ last'.text \in Seq(TextChars)
    <3>1. v \in Nat
      BY DebugPrintAssumption
    <3>2. StringLength(v) \in Nat
      BY <3>1 DEF StringLength
    <3>3. chars' = chars + StringLength(v) /\ last' = NoLast
      BY <2>2 DEF PrintString
    <3>4. last'.text \in Seq(TextChars)
      BY <2>0, <3>3
    <3>5. chars' \in Nat
      BY <1>1, <3>2, <3>3
    <3> QED  BY <3>4, <3>5
  <2>3. CASE PrintChar \/ PrintPercent \/ PrintNothing
    <3>1. last' = NoLast
      BY <2>3 DEF PrintChar, PrintPercent, PrintNothing
    <3>2. chars' \in {chars, chars + 1, chars + 37}
      BY <2>3 DEF PrintChar, PrintPercent, PrintNothing
    <3>3. last'.text \in Seq(TextChars)
      BY <2>0, <3>1
    <3>4. chars' \in Nat
      BY <1>1, <3>2
    <3> QED  BY <3>3, <3>4
  <2>4. CASE Literal
    BY <1>1, <2>4 DEF Literal
  <2>5. CASE debug_printf \/ debug_log \/ Percent \/ Flag \/ EndFlags \/ Digit
    BY <1>1, <2>5 DEF debug_printf, debug_log, Percent, Flag, EndFlags, Digit
  <2>6. CASE EndWidth \/ GetLength \/ Return \/ UNCHANGED vars
    BY <1>1, <2>6 DEF EndWidth, GetLength, Return, vars
  <2> QED  BY <2>1, <2>2, <2>3, <2>4, <2>5, <2>6 DEF Next, Step, Returned
<1> QED  BY <1>2 DEF TypeOK, ScanInv, InDirective, TextChars, DigitChars

LEMMA TypeInitially ==
  ASSUME Init
  PROVE  TypeOK
<1>1. << >> \in Seq(ToSet(Digits) \cup {"-", "+", " ", "x"}) /\ NoLast.text = << >>
  BY DEF NoLast
<1> QED  BY <1>1 DEF Init, TypeOK


-----------------------------------------------------------------------------
(***************************************************************************)
(* The end of the scan.                                                    *)
(***************************************************************************)
\* What is left of the scan.
Rank == [p \in {"call", "next", "flags", "width", "length", "print", "done"} |->
           CASE p = "call" -> 5 [] p = "next" -> 4 [] p = "flags" -> 3
             [] p = "width" -> 2 [] p = "length" -> 1 [] OTHER -> 0]
Rest == 5 * ((Len(fmt) + 2) - i) + Rank[pc]

LEMMA RankIs ==
  /\ Rank["call"] = 5 /\ Rank["next"] = 4 /\ Rank["flags"] = 3
  /\ Rank["width"] = 2 /\ Rank["length"] = 1 /\ Rank["print"] = 0 /\ Rank["done"] = 0
BY DEF Rank

LEMMA StepKeepsFormat ==
  ASSUME Step
  PROVE  fmt' = fmt
<1>1. ASSUME NEW v \in ArgValues, PrintInt(v) \/ PrintString(v) PROVE fmt' = fmt
  BY <1>1 DEF PrintInt, PrintString, NextChar
<1>2. CASE PrintChar \/ PrintPercent \/ PrintNothing
  BY <1>2 DEF PrintChar, PrintPercent, PrintNothing, NextChar
<1>3. CASE debug_printf \/ debug_log \/ Literal \/ Percent \/ Flag \/ EndFlags
  BY <1>3 DEF debug_printf, debug_log, Literal, Percent, Flag, EndFlags
<1>4. CASE Digit \/ EndWidth \/ GetLength \/ Return
  BY <1>4 DEF Digit, EndWidth, GetLength, Return
<1> QED  BY <1>1, <1>2, <1>3, <1>4 DEF Step

\* Every step shortens what is left of the scan.
LEMMA StepShortens ==
  ASSUME ScanInv, i <= Len(fmt) + 2, ScanInv', Step
  PROVE  Rest' < Rest /\ Rest \in Nat /\ i' <= Len(fmt) + 2
<1> DEFINE n == Len(fmt)
<1>1. /\ n \in Nat /\ i \in Nat /\ i' \in Nat /\ fmt' = fmt /\ i <= n + 2
      /\ pc \in InDirective => i <= n + 1
      /\ pc' \in InDirective => i' <= n + 1
  <2>1. fmt' = fmt
    BY StepKeepsFormat
  <2>2. n \in Nat
    BY FormatIs DEF ScanInv
  <2> QED  BY <2>1, <2>2 DEF ScanInv
<1>2. Rest = 5 * ((n + 2) - i) + Rank[pc] /\ Rest' = 5 * ((n + 2) - i') + Rank[pc']
  BY <1>1 DEF Rest
<1> HIDE DEF n
<1>3. \/ i' = i /\ Rank[pc'] < Rank[pc]
      \/ i' \in {i + 1, i + 2} /\ Rank[pc'] <= Rank[pc] + 4
  <2>1. CASE debug_printf \/ debug_log
    BY <2>1, RankIs DEF debug_printf, debug_log
  <2>2. CASE Literal
    BY <2>2, RankIs DEF Literal
  <2>3. CASE Percent
    BY <2>3, RankIs DEF Percent
  <2>4. CASE Flag
    BY <2>4, RankIs DEF Flag
  <2>5. CASE EndFlags
    BY <2>5, RankIs DEF EndFlags
  <2>6. CASE Digit
    BY <2>6, RankIs DEF Digit
  <2>7. CASE EndWidth
    BY <2>7, RankIs DEF EndWidth
  <2>8. CASE GetLength
    <3> DEFINE l == LengthOf(At(i), At(i + 1))[2]
    <3>1. i' = i + l /\ pc = "length" /\ pc' = "print"
      BY <2>8 DEF GetLength
    <3>2. l \in 0 .. 2
      BY <1>1, <3>1, LengthIs DEF InDirective, n
    <3> HIDE DEF l
    <3> QED  BY <1>1, <3>1, <3>2, RankIs
  <2>9. ASSUME pc = "print", NextChar
        PROVE  i' \in {i + 1, i + 2} /\ Rank[pc'] <= Rank[pc] + 4
    BY <2>9, RankIs DEF NextChar
  <2>10. CASE Return
    BY <2>10, RankIs DEF Return
  <2>11. ASSUME NEW v \in ArgValues, PrintInt(v) \/ PrintString(v)
         PROVE  pc = "print" /\ NextChar
    BY <2>11 DEF PrintInt, PrintString
  <2>12. ASSUME PrintChar \/ PrintPercent \/ PrintNothing
         PROVE  pc = "print" /\ NextChar
    BY <2>12 DEF PrintChar, PrintPercent, PrintNothing
  <2> QED  BY <2>1, <2>2, <2>3, <2>4, <2>5, <2>6, <2>7, <2>8, <2>9, <2>10, <2>11, <2>12 DEF Step
<1>4. Rank[pc] \in 0 .. 5 /\ Rank[pc'] \in 0 .. 5
  <2>1. pc \in {"call", "next", "done"} \cup InDirective /\ pc' \in {"call", "next", "done"} \cup InDirective
    BY DEF ScanInv
  <2> QED  BY <2>1, RankIs DEF InDirective
<1>5. i' <= n + 2
  <2>1. CASE pc' \in InDirective
    BY <1>1, <2>1
  <2>2. CASE i' = i
    BY <1>1, <2>2
  <2>3. CASE pc \in InDirective /\ pc' \notin InDirective
    <3>1. i' = i + 1
      <4>1. ASSUME NEW v \in ArgValues, PrintInt(v) \/ PrintString(v) PROVE i' = i + 1
        BY <4>1 DEF PrintInt, PrintString, NextChar
      <4>2. CASE PrintChar \/ PrintPercent \/ PrintNothing
        BY <4>2 DEF PrintChar, PrintPercent, PrintNothing, NextChar
      <4>3. ~(debug_printf \/ debug_log \/ Literal \/ Percent \/ Flag \/ EndFlags)
        BY <2>3 DEF debug_printf, debug_log, Literal, Percent, Flag, EndFlags, InDirective
      <4>4. ~(Digit \/ EndWidth \/ GetLength \/ Return)
        BY <2>3 DEF Digit, EndWidth, GetLength, Return, InDirective
      <4> QED  BY <4>1, <4>2, <4>3, <4>4 DEF Step
    <3> QED  BY <1>1, <2>3, <3>1
  <2>4. CASE pc \notin InDirective /\ pc' \notin InDirective /\ i' # i
    <3>1. Literal
      <4>1. ASSUME NEW v \in ArgValues, PrintInt(v) \/ PrintString(v) PROVE FALSE
        BY <2>4, <4>1 DEF PrintInt, PrintString, InDirective
      <4>2. ~(PrintChar \/ PrintPercent \/ PrintNothing)
        BY <2>4 DEF PrintChar, PrintPercent, PrintNothing, InDirective
      <4>3. ~(debug_printf \/ debug_log \/ Percent \/ Flag \/ EndFlags)
        BY <2>4 DEF debug_printf, debug_log, Percent, Flag, EndFlags, InDirective
      <4>4. ~(Digit \/ EndWidth \/ GetLength \/ Return)
        BY <2>4 DEF Digit, EndWidth, GetLength, Return, InDirective
      <4> QED  BY <4>1, <4>2, <4>3, <4>4 DEF Step
    <3>2. i <= n /\ i' = i + 1
      BY <3>1 DEF Literal, n
    <3> QED  BY <1>1, <3>2
  <2> QED  BY <2>1, <2>2, <2>3, <2>4
<1>6. Rest' < Rest /\ Rest \in Nat
  <2> DEFINE j == i'
             r == Rank[pc]
             s == Rank[pc']
  <2>1. /\ n \in Nat /\ i \in Nat /\ j \in Nat /\ i <= n + 2 /\ r \in 0 .. 5 /\ s \in 0 .. 5
        /\ Rest = 5 * ((n + 2) - i) + r /\ Rest' = 5 * ((n + 2) - j) + s
        /\ (j = i /\ s < r) \/ (j \in {i + 1, i + 2} /\ s <= r + 4)
    BY <1>1, <1>2, <1>3, <1>4
  <2> HIDE DEF j, r, s
  <2> QED  BY <2>1
<1> QED  BY <1>5, <1>6 DEF n

-----------------------------------------------------------------------------
(***************************************************************************)
(* Theorems.                                                               *)
(***************************************************************************)
\* The scan of debug_vprintf: position, flags, width and length, and where in
\* the format string it is.
THEOREM ScanInvariant == Spec => []ScanInv
BY Initially, StepKeeps, PTL DEF Spec

\* debug_vprintf reads nothing behind the NUL of any format string, wherever
\* in a directive it ends.
THEOREM ScanStaysInFormat == Spec => []StaysInFormat
<1>1. ScanInv => StaysInFormat
  BY DEF ScanInv, StaysInFormat, InDirective
<1> QED  BY <1>1, ScanInvariant, PTL

\* Format, position, directive, count and text have their types; a text is made
\* of digits, signs, spaces and the x of a prefix.
THEOREM TypeInvariant == Spec => []TypeOK
<1>1. ScanInv /\ TypeOK /\ [Next]_vars /\ ScanInv' => TypeOK'
  BY TypeKept
<1> QED  BY <1>1, TypeInitially, ScanInvariant, PTL DEF Spec

\* NumbersReadBack, for one argument whose digits fit a word in reverse.
ReadsBackWhenFits ==
  [][ pc = "print" /\ last'.text # << >> /\ ~({"-", "0"} \subseteq flags)
      /\ FitsReversed(Magnitude(At(i), length, last'.number), Base(At(i))) =>
        ReadBack(last'.text, Base(At(i))) = ArgNumber(At(i), length, last'.number) ]_vars

\* Whatever the format and the other arguments, debug_print_int prints an
\* argument whose digits fit a word in reverse as the number it is.
THEOREM FittingNumbersReadBack == Spec => ReadsBackWhenFits
<1>1. ASSUME ScanInv, Next, pc = "print", last'.text # << >>, ~({"-", "0"} \subseteq flags),
             FitsReversed(Magnitude(At(i), length, last'.number), Base(At(i)))
      PROVE  ReadBack(last'.text, Base(At(i))) = ArgNumber(At(i), length, last'.number)
  <2>1. PICK v \in ArgValues : PrintInt(v) /\ last'.number = v
    BY <1>1, PrintIs
  <2> QED  BY <1>1, <2>1, PrintIntReadsBack
<1> QED  BY <1>1, ScanInvariant, PTL DEF Spec, ReadsBackWhenFits

\* The digits of all arguments fit a word in reverse, in every conversion.
ArgumentsFit ==
  \A v \in ArgValues, c \in Conversions, len \in Lengths :
     FitsReversed(Magnitude(c, len, v), Base(c))

\* If all arguments fit, debug_vprintf prints all numbers as what they are.
THEOREM FittingArgumentsReadBack ==
  ASSUME ArgumentsFit
  PROVE  Spec => NumbersReadBack
<1>1. ASSUME ScanInv, Next, pc = "print", last'.text # << >>, ~({"-", "0"} \subseteq flags)
      PROVE  ReadBack(last'.text, Base(At(i))) = ArgNumber(At(i), length, last'.number)
  <2>1. PICK v \in ArgValues : PrintInt(v) /\ last'.number = v
    BY <1>1, PrintIs
  <2>2. At(i) \in Conversions
    BY <2>1 DEF PrintInt, Conversions
  <2>3. length \in Lengths
    BY <1>1 DEF ScanInv, Lengths
  <2>4. FitsReversed(Magnitude(At(i), length, v), Base(At(i)))
    BY <2>2, <2>3 DEF ArgumentsFit
  <2> QED  BY <1>1, <2>1, <2>4, PrintIntReadsBack
<1> QED  BY <1>1, ScanInvariant, PTL DEF Spec, NumbersReadBack

\* Arguments of no more digits than a word has room for in every base: where
\* WORD is 2^64, decimal numbers below 10^19 and octal ones below 8^21.
THEOREM ShortArgumentsReadBack ==
  ASSUME NEW P, \A b \in Bases : Powers(P[b], b),
         NEW w \in [Bases -> Nat \ {0}], \A b \in Bases : P[b][w[b]] <= WORD,
         \A v \in ArgValues, c \in Conversions, len \in Lengths :
            Magnitude(c, len, v) < P[Base(c)][w[Base(c)]]
  PROVE  Spec => NumbersReadBack
<1>1. ASSUME NEW v \in ArgValues, NEW c \in Conversions,
             NEW len \in Lengths
      PROVE  FitsReversed(Magnitude(c, len, v), Base(c))
  <2> DEFINE b == Base(c)
             m == Magnitude(c, len, v)
  <2>1. b \in Bases /\ m \in 0 .. (WORD - 1)
    BY BaseIs, ArgumentIs
  <2>2. Powers(P[b], b) /\ w[b] \in Nat \ {0} /\ P[b][w[b]] <= WORD /\ m < P[b][w[b]]
    BY <2>1
  <2> HIDE DEF b, m
  <2>3. FitsReversed(m, b)
    BY <2>1, <2>2, ShortFits
  <2> QED  BY <2>3 DEF b, m
<1>2. ArgumentsFit
  BY <1>1 DEF ArgumentsFit
<1> QED  BY <1>2, FittingArgumentsReadBack

\* NumbersReadBack, for the conversions with hexadecimal digits.
HexReadsBack ==
  [][ pc = "print" /\ At(i) \in {"x", "X", "p"} /\ last'.text # << >>
      /\ ~({"-", "0"} \subseteq flags) =>
        ReadBack(last'.text, 16) = ArgNumber(At(i), length, last'.number) ]_vars

\* Hexadecimal digits fill a word exactly: %x, %X and %p of debug_vprintf print
\* every argument as what it is.
THEOREM HexadecimalReadsBack ==
  ASSUME NEW P, Powers(P, 16), NEW w \in Nat \ {0}, WORD = P[w]
  PROVE  Spec => HexReadsBack
<1>1. ASSUME ScanInv, Next, pc = "print", At(i) \in {"x", "X", "p"}, last'.text # << >>,
             ~({"-", "0"} \subseteq flags)
      PROVE  ReadBack(last'.text, 16) = ArgNumber(At(i), length, last'.number)
  <2>1. PICK v \in ArgValues : PrintInt(v) /\ last'.number = v
    BY <1>1, PrintIs
  <2>2. Base(At(i)) = 16
    BY <1>1 DEF Base
  <2> DEFINE m == Magnitude(At(i), length, v)
  <2>3. m \in 0 .. (WORD - 1) /\ 16 \in Bases /\ WORD \in Nat
    BY ArgumentIs, DebugPrintAssumption DEF Bases
  <2> HIDE DEF m
  <2>4. m < P[w] /\ P[w] <= WORD
    BY <2>3
  <2>5. FitsReversed(m, 16)
    BY <2>3, <2>4, ShortFits
  <2> QED  BY <1>1, <2>1, <2>2, <2>5, PrintIntReadsBack DEF m
<1> QED  BY <1>1, ScanInvariant, PTL DEF Spec, HexReadsBack

\* Every step of debug_vprintf shortens what is left of the scan, which is a
\* natural number: as long as the call takes steps it comes to its end.
THEOREM ScanProgress == Spec => [][Rest' < Rest /\ Rest \in Nat]_vars
<1> DEFINE J == i <= Len(fmt) + 2
<1>1. Init => J
  <2>1. ASSUME Init PROVE J
    <3>1. Len(fmt) \in Nat /\ i = 1
      BY <2>1, Initially, FormatIs DEF Init
    <3> QED  BY <3>1
  <2> QED  BY <2>1
<1>2. ScanInv /\ J /\ [Next]_vars /\ ScanInv' => J'
  <2>1. ASSUME ScanInv, J, ScanInv', Step PROVE J'
    <3>1. fmt' = fmt
      BY <2>1, StepKeepsFormat
    <3>2. i' <= Len(fmt) + 2
      BY <2>1, StepShortens
    <3> QED  BY <3>1, <3>2
  <2>2. UNCHANGED vars /\ J => J'
    BY DEF vars
  <2> QED  BY <2>1, <2>2 DEF Next, Returned
<1>3. ScanInv /\ J /\ [Next]_vars /\ ScanInv' => [Rest' < Rest /\ Rest \in Nat]_vars
  <2> HIDE DEF J
  <2>1. ASSUME ScanInv, J, ScanInv', Step PROVE Rest \in Nat /\ Rest' < Rest
    BY <2>1, StepShortens DEF J
  <2>2. UNCHANGED vars \/ Step \/ ~[Next]_vars
    BY DEF Next, Returned
  <2> QED  BY <2>1, <2>2
<1> QED  BY <1>1, <1>2, <1>3, ScanInvariant, PTL DEF Spec

=============================================================================
