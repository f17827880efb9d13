------------------------------ MODULE MCDebugPrint ------------------------------
(***************************************************************************)
(* Instances of DebugPrint for TLC: words of eight bits, ints of four, and *)
(* all format strings of up to four characters over small alphabets, cut   *)
(* off anywhere in a directive.                                            *)
(***************************************************************************)
EXTENDS DebugPrint

\* Zero padding and long arguments; left alignment, signs, short arguments,
\* other bases, strings and characters.
ScanFormats ==
  SeqOf({"%", "0", "2", "l", "d", "x"}, 4) \cup
  SeqOf({"%", "-", "0", "+", "2", "h", "u", "o"}, 4) \cup
  SeqOf({"%", "#", " ", "h", "z", "s", "c", "p", "i"}, 4)

\* Arguments that are positive and negative as an int and as a word, of one
\* to three digits; their digits in reverse are below 256.
SmallValues == {0, 9, 120, 200}

WideFormats == {<< "%", "l", "u" >>, << "%", "l", "x" >>}
=============================================================================
