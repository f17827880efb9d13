------------------------------- MODULE DebugPrint -------------------------------
(***************************************************************************)
(* Formatted output, symphony/debug.c: debug_log and debug_vprintf with    *)
(* the integer conversion debug_print_int.                                 *)
(*                                                                         *)
(* The format string is scanned one character per step; an argument is     *)
(* chosen when va_arg takes it.  Of the output only the text of the last   *)
(* conversion and the number of characters are kept; upper and lower case  *)
(* digits are the same.                                                    *)
(* Names ending in _mut are faulty variants of what follows them.          *)
(***************************************************************************)
EXTENDS Integers, Sequences, SequencesExt

CONSTANTS
  Formats,    \* the format strings, as sequences of characters
  ArgValues,  \* what callers pass, as bit patterns
  WORD,       \* number of values of a uintmax_t (2^64)
  INT_MOD,    \* number of values of an int (2^32)
  MAX_WIDTH

ASSUME DebugPrintAssumption ==
  /\ Formats \subseteq Seq(STRING)
  /\ WORD \in Nat /\ INT_MOD \in 2 .. WORD
  /\ ArgValues \subseteq 0 .. (WORD - 1)
  /\ MAX_WIDTH \in Nat

VARIABLES
  fmt,      \* the format string
  pc,       \* "call", "next", "flags", "width", "length", "print" or "done"
  i,        \* position in fmt, from 1
  flags, width, length,
  chars,    \* what is to be returned
  last      \* the last conversion: its argument's number and its text

vars == <<fmt, pc, i, flags, width, length, chars, last>>

FlagChars == {"-", "+", " ", "0", "'", "#"}

Digits == << "0", "1", "2", "3", "4", "5", "6", "7", "8", "9", "a", "b", "c", "d", "e", "f" >>

DigitValue(c) == (CHOOSE k \in DOMAIN Digits : Digits[k] = c) - 1

IsDigit(c) == \E k \in 1 .. 10 : Digits[k] = c

\* The string ends with a NUL; what comes after it is not the caller's.
At(k) == IF k \in DOMAIN fmt THEN fmt[k] ELSE IF k = Len(fmt) + 1 THEN "NUL" ELSE "beyond"

-----------------------------------------------------------------------------
(***************************************************************************)
(* debug_print_int.                                                        *)
(***************************************************************************)
Repeat(c, n) == [k \in 1 .. n |-> c]

\* What n is after k divisions, in either loop.
Divided(n, base) ==
  LET Q[k \in Nat] == IF k = 0 THEN n ELSE Q[k - 1] \div base
  IN  Q

\* dcount: a number has at least one digit.
DigitCount(n, base) ==
  CHOOSE d \in 1 .. WORD :
    Divided(n, base)[d] = 0 /\ (d > 1 => Divided(n, base)[d - 1] # 0)

\* revn after k rounds of the first loop: the digits in reverse, in a word.
Collected(n, base) ==
  LET R[k \in Nat] ==
        IF k = 0 THEN 0
        ELSE ((R[k - 1] * base) + (Divided(n, base)[k - 1] % base)) % WORD
  IN  R

\* The digits, the first one first.
DigitsOf(n, base) ==
  LET revn == Collected(n, base)[DigitCount(n, base)] IN
  [k \in 1 .. DigitCount(n, base) |-> Digits[(Divided(revn, base)[k - 1] % base) + 1]]

\* The text, in its parts.
IntText(n, base, sign) ==
  LET negative == sign /\ n >= WORD \div 2
      digits == DigitsOf(IF negative THEN WORD - n ELSE n, base)
      pad == Repeat(IF "0" \in flags THEN "0" ELSE " ", width - Len(digits))
  IN  [sign |-> CASE negative -> << "-" >>
                  [] ~negative /\ "+" \in flags -> << "+" >>
                  [] ~negative /\ "+" \notin flags /\ " " \in flags -> << " " >>
                  [] OTHER -> << >>,
       prefix |-> CASE "#" \in flags /\ base = 8  -> << "0" >>
                    [] "#" \in flags /\ base = 16 -> << "0", "x" >>
                    [] OTHER -> << >>,
       body |-> IF "-" \in flags THEN digits \o pad ELSE pad \o digits]

\* The prefix is printed and not counted.
debug_print_int(n, base, sign) ==
  LET t == IntText(n, base, sign) IN
  [text |-> t.sign \o t.prefix \o t.body, chars |-> Len(t.sign) + Len(t.body)]

-----------------------------------------------------------------------------
(***************************************************************************)
(* The argument, as va_arg and the conversions deliver it.                 *)
(***************************************************************************)
Base(c) == CASE c \in {"d", "i", "u"} -> 10 [] c = "o" -> 8 [] OTHER -> 16

IsSigned(c) == c \in {"d", "i"}

ArgValue_mut(c, len, v) ==  \* an int is not extended with its sign
  IF len = "INT" THEN v % INT_MOD ELSE v

ArgValue(c, len, v) ==
  LET n == v % INT_MOD IN
  CASE len = "INT" /\ IsSigned(c) /\ n >= INT_MOD \div 2 -> WORD - (INT_MOD - n)
    [] len = "INT" /\ c # "p" /\ ~(IsSigned(c) /\ n >= INT_MOD \div 2) -> n
    [] OTHER -> v

\* A string is as long as its pointer is large; NULL is "(null)".
StringLength(v) == IF v = 0 THEN 6 ELSE v % 3

-----------------------------------------------------------------------------
NoLast == [number |-> 0, text |-> << >>]

Init ==
  /\ fmt \in Formats
  /\ pc = "call" /\ i = 1 /\ flags = {} /\ width = 0 /\ length = "NONE"
  /\ chars = 0 /\ last = NoLast

debug_printf ==
  /\ pc = "call"
  /\ pc' = "next"
  /\ UNCHANGED <<fmt, i, flags, width, length, chars, last>>

\* The log level that debug_log prints first is not counted.
debug_log ==
  /\ pc = "call"
  /\ pc' = "next"
  /\ UNCHANGED <<fmt, i, flags, width, length, chars, last>>

Literal ==
  /\ pc = "next" /\ i <= Len(fmt) /\ fmt[i] # "%"
  /\ i' = i + 1
  /\ chars' = chars + 1
  /\ UNCHANGED <<fmt, pc, flags, width, length, last>>

Percent ==
  /\ pc = "next" /\ i <= Len(fmt) /\ fmt[i] = "%"
  /\ flags' = {}
  /\ i' = i + 1
  /\ pc' = "flags"
  /\ UNCHANGED <<fmt, width, length, chars, last>>

\* A flag that is already set does not change flags: the loop ends with it.
Flag ==
  /\ pc = "flags" /\ At(i) \in FlagChars \ flags
  /\ flags' = flags \cup {At(i)}
  /\ i' = i + 1
  /\ UNCHANGED <<fmt, pc, width, length, chars, last>>

EndFlags ==
  /\ pc = "flags" /\ At(i) \notin FlagChars \ flags
  /\ width' = 0
  /\ pc' = "width"
  /\ UNCHANGED <<fmt, i, flags, length, chars, last>>

Digit_mut ==  \* does not go on to the next character
  /\ pc = "width" /\ IsDigit(At(i))
  /\ width' = (width * 10 + DigitValue(At(i))) % INT_MOD
  /\ UNCHANGED <<fmt, pc, i, flags, length, chars, last>>

\* No caller writes a width that overflows an int.
Digit ==
  /\ pc = "width" /\ IsDigit(At(i))
  /\ width' = width * 10 + DigitValue(At(i))
  /\ i' = i + 1
  /\ UNCHANGED <<fmt, pc, flags, length, chars, last>>

EndWidth_mut ==  \* does not cut
  /\ pc = "width" /\ ~IsDigit(At(i))
  /\ pc' = "length"
  /\ UNCHANGED <<fmt, i, flags, width, length, chars, last>>

EndWidth ==
  /\ pc = "width" /\ ~IsDigit(At(i))
  /\ width' = IF width > MAX_WIDTH THEN MAX_WIDTH ELSE width
  /\ pc' = "length"
  /\ UNCHANGED <<fmt, i, flags, length, chars, last>>

LengthOf_mut(c, d) ==  \* takes every h for hh
  CASE c = "h" -> << "INT", 2 >>
    [] c = "l" -> IF d = "l" THEN << "LONG_LONG", 2 >> ELSE << "LONG", 1 >>
    [] c \in {"z", "j", "t"} -> << "WORD", 1 >>
    [] c \in {"p", "s"} -> << "PTR", 0 >>
    [] OTHER -> << "INT", 0 >>

\* The length and the number of characters that say so, from the next two.
LengthOf(c, d) ==
  CASE c = "h" -> IF d = "h" THEN << "INT", 2 >> ELSE << "INT", 1 >>
    [] c = "l" -> IF d = "l" THEN << "LONG_LONG", 2 >> ELSE << "LONG", 1 >>
    [] c \in {"z", "j", "t"} -> << "WORD", 1 >>
    [] c \in {"p", "s"} -> << "PTR", 0 >>
    [] OTHER -> << "INT", 0 >>

GetLength ==
  /\ pc = "length"
  /\ LET l == LengthOf(At(i), At(i + 1)) IN length' = l[1] /\ i' = i + l[2]
  /\ pc' = "print"
  /\ UNCHANGED <<fmt, flags, width, chars, last>>

-----------------------------------------------------------------------------
(***************************************************************************)
(* The conversions.                                                        *)
(***************************************************************************)
NextChar == i' = i + 1 /\ pc' = "next" /\ UNCHANGED <<fmt, flags, width, length>>

PrintInt(v) ==
  /\ pc = "print" /\ At(i) \in {"d", "i", "u", "x", "X", "o", "p"}
  /\ LET n == ArgValue(At(i), length, v)
         r == debug_print_int(n, Base(At(i)), IsSigned(At(i)))
     IN  /\ chars' = chars + r.chars
         /\ last' = [number |-> v, text |-> r.text]
  /\ NextChar

PrintString(v) ==
  /\ pc = "print" /\ At(i) = "s"
  /\ chars' = chars + StringLength(v)
  /\ last' = NoLast
  /\ NextChar

PrintChar ==
  /\ pc = "print" /\ At(i) = "c"
  /\ chars' = chars + 1
  /\ last' = NoLast
  /\ NextChar

\* debug_putchar returns the character, and that is what is added.
PrintPercent ==
  /\ pc = "print" /\ At(i) = "%"
  /\ chars' = chars + 37
  /\ last' = NoLast
  /\ NextChar

PrintNothing ==
  /\ pc = "print" /\ At(i) \notin {"d", "i", "u", "x", "X", "o", "p", "s", "c", "%"}
  /\ last' = NoLast
  /\ UNCHANGED chars
  /\ NextChar

Return ==
  /\ pc = "next" /\ i > Len(fmt)
  /\ pc' = "done"
  /\ UNCHANGED <<fmt, i, flags, width, length, chars, last>>

Returned == pc = "done" /\ UNCHANGED vars

Step ==
  \/ debug_printf \/ debug_log
  \/ Literal \/ Percent \/ Flag \/ EndFlags \/ Digit \/ EndWidth \/ GetLength
  \/ \E v \in ArgValues : PrintInt(v) \/ PrintString(v)
  \/ PrintChar \/ PrintPercent \/ PrintNothing
  \/ Return

Next == Step \/ Returned

Spec == Init /\ [][Next]_vars

\* The CPU keeps executing the call.
FairSpec == Spec /\ WF_vars(Step)

-----------------------------------------------------------------------------
(***************************************************************************)
(* Properties.                                                             *)
(***************************************************************************)
TypeOK ==
  /\ fmt \in Formats
  /\ pc \in {"call", "next", "flags", "width", "length", "print", "done"}
  /\ i \in Nat \ {0}
  /\ flags \subseteq FlagChars
  /\ width \in Nat /\ (pc \in {"length", "print"} => width <= MAX_WIDTH)
  /\ length \in {"NONE", "INT", "LONG", "LONG_LONG", "WORD", "PTR"}
  /\ chars \in Nat
  /\ last.text \in Seq(ToSet(Digits) \cup {"-", "+", " ", "x"})

\* The scan never reads behind the NUL that ends the format string, wherever
\* in a directive the string ends.
StaysInFormat == pc \in {"flags", "width", "length", "print"} => i <= Len(fmt) + 1

\* The number that the text of an integer conversion stands for, read by
\* someone who skips the padding, is the argument (debug.h: "Sequence of
\* values to be used to replace the format specifiers in fmt").  Both "-" and
\* "0" in one directive append zeros, which read as digits.
ReadUpTo(text, base) ==
  LET N[k \in Nat] ==
        CASE k = 0 -> 0
          [] k # 0 /\ text[k] \in ToSet(Digits) -> N[k - 1] * base + DigitValue(text[k])
          [] OTHER -> N[k - 1]
  IN  N

ReadBack(text, base) ==
  LET n == ReadUpTo(text, base)[Len(text)] IN
  IF "-" \in ToSet(text) THEN -n ELSE n

ArgNumber(c, len, v) ==
  LET mod == IF len = "INT" /\ c # "p" THEN INT_MOD ELSE WORD
      n == v % mod
  IN  IF IsSigned(c) /\ n >= mod \div 2 THEN n - mod ELSE n

NumbersReadBack ==
  [][ pc = "print" /\ last'.text # << >> /\ ~({"-", "0"} \subseteq flags) =>
        ReadBack(last'.text, Base(At(i))) = ArgNumber(At(i), length, last'.number) ]_vars

\* debug_vprintf comes to the end of every format string.
VprintfEnds == <>(pc = "done")
=============================================================================
