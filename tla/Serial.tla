--------------------------------- MODULE Serial ---------------------------------
(***************************************************************************)
(* The serial port driver, symphony/serial.c, and debug_putchar, which     *)
(* writes every character to the debug port and to the serial port.        *)
(*                                                                         *)
(* The driver polls; the UART shifts characters out to the line on its own *)
(* between any two port accesses.  One port access is one step.            *)
(* Names ending in _mut are faulty variants of what follows them.          *)
(***************************************************************************)
EXTENDS Integers, Sequences, FiniteSets

CONSTANTS
  Chars,     \* the characters that the kernel prints, "LF" among them
  MaxChars,  \* bound: how many of them
  FIFO       \* characters that the UART's transmit FIFO holds (16)

ASSUME SerialAssumption == MaxChars \in Nat /\ FIFO \in Nat \ {0}

VARIABLES
  pc,       \* "init", "idle", "poll" or "send"
  k,        \* the next port write of serial_init
  chr,      \* argument of the running serial_char
  debugcon, \* what was written to port 0xE9
  dlab, divisorLSB, divisorMSB, ier, fifoOn, loopback,  \* the UART's registers
  thr,      \* characters in the transmit FIFO
  line      \* characters that have left the UART since serial_init

uartRegs == <<dlab, divisorLSB, divisorMSB, ier, fifoOn, loopback>>
vars == <<pc, k, chr, debugcon, uartRegs, thr, line>>

HasBit(x, mask) == (x \div mask) % 2 = 1

-----------------------------------------------------------------------------
(***************************************************************************)
(* The UART.                                                               *)
(***************************************************************************)
Capacity == IF fifoOn THEN FIFO ELSE 1

\* What a write to a register does.  Two registers change their meaning with
\* bit 7 of the line control register.  A character that finds no room in the
\* transmitter is lost.
Outb(port, x) ==
  /\ dlab' = IF port = "LINE_CONTROL" THEN HasBit(x, 128) ELSE dlab
  /\ divisorLSB' = IF port = "DATA" /\ dlab THEN x ELSE divisorLSB
  /\ divisorMSB' = IF port = "INT" /\ dlab THEN x ELSE divisorMSB
  /\ ier' = IF port = "INT" /\ ~dlab THEN x ELSE ier
  /\ fifoOn' = IF port = "FIFO_CTRL" THEN HasBit(x, 1) ELSE fifoOn
  /\ loopback' = IF port = "MODEM_CTRL" THEN HasBit(x, 16) ELSE loopback
  /\ thr' = CASE port = "FIFO_CTRL" /\ HasBit(x, 4) -> << >>
              [] port = "DATA" /\ ~dlab /\ Len(thr) < Capacity -> Append(thr, x)
              [] OTHER -> thr

TransmitterEmpty_mut == Len(thr) <= Capacity  \* does not look

\* Bit 5 of the line status register.
TransmitterEmpty == thr = << >>

\* The other end of the line reads at 9600 baud, divisor 12.
OnLine(c) == IF divisorLSB = 12 /\ divisorMSB = 0 THEN c ELSE "garbled"

\* The UART sends a character; before serial_init is done it is the
\* firmware's, and in loopback mode it stays inside.
Shift ==
  /\ thr # << >>
  /\ thr' = Tail(thr)
  /\ line' = IF pc = "init" \/ loopback THEN line ELSE Append(line, OnLine(Head(thr)))
  /\ UNCHANGED <<pc, k, chr, debugcon, uartRegs>>

-----------------------------------------------------------------------------
(***************************************************************************)
(* The driver.                                                             *)
(***************************************************************************)
InitWrites_mut_fifo ==  \* does not clear the FIFOs
  << << "INT", 0 >>, << "LINE_CONTROL", 128 >>, << "DATA", 12 >>, << "INT", 0 >>,
     << "LINE_CONTROL", 3 >>, << "FIFO_CTRL", 1 >>, << "MODEM_CTRL", 15 >> >>

InitWrites ==
  << << "INT", 0 >>, << "LINE_CONTROL", 128 >>, << "DATA", 12 >>, << "INT", 0 >>,
     << "LINE_CONTROL", 3 >>, << "FIFO_CTRL", 199 >>, << "MODEM_CTRL", 15 >> >>

\* The firmware leaves the UART in any mode, and perhaps with something to
\* send.
Init ==
  /\ pc = "init" /\ k = 1 /\ chr = "" /\ debugcon = << >>
  /\ dlab \in BOOLEAN /\ fifoOn \in BOOLEAN /\ loopback \in BOOLEAN
  /\ divisorLSB = 1 /\ divisorMSB = 1 /\ ier = 15
  /\ thr \in {<< >>, << "firmware" >>}
  /\ line = << >>

serial_init ==
  /\ pc = "init"
  /\ Outb(InitWrites[k][1], InitWrites[k][2])
  /\ k' = k + 1
  /\ pc' = IF k = Len(InitWrites) THEN "idle" ELSE "init"
  /\ UNCHANGED <<chr, debugcon, line>>

debug_putchar(c) ==
  /\ pc = "idle" /\ Len(debugcon) < MaxChars
  /\ debugcon' = Append(debugcon, c)
  /\ chr' = c
  /\ pc' = "poll"
  /\ UNCHANGED <<k, uartRegs, thr, line>>

Poll_mut ==  \* the wrong way round before the carriage return
  /\ pc = "poll"
  /\ pc' = IF TransmitterEmpty <=> chr # "CR" THEN "send" ELSE "poll"
  /\ UNCHANGED <<k, chr, debugcon, uartRegs, thr, line>>

\* The loop of serial_char, until the status says that there is room.
Poll ==
  /\ pc = "poll"
  /\ pc' = IF TransmitterEmpty THEN "send" ELSE "poll"
  /\ UNCHANGED <<k, chr, debugcon, uartRegs, thr, line>>

\* A line feed is followed by a carriage return.
Send ==
  /\ pc = "send"
  /\ Outb("DATA", chr)
  /\ IF chr = "LF" THEN chr' = "CR" /\ pc' = "poll"
                   ELSE chr' = "" /\ pc' = "idle"
  /\ UNCHANGED <<k, debugcon, line>>

Done == pc = "idle" /\ Len(debugcon) = MaxChars /\ UNCHANGED vars

Driver == serial_init \/ Poll \/ Send

Next ==
  \/ Driver
  \/ \E c \in Chars : debug_putchar(c)
  \/ Shift
  \/ Done

Spec == Init /\ [][Next]_vars

\* The CPU keeps executing the driver and the UART keeps sending.
FairSpec == Spec /\ WF_vars(Driver) /\ WF_vars(Shift)

-----------------------------------------------------------------------------
(***************************************************************************)
(* Properties.                                                             *)
(***************************************************************************)

\* t is what a terminal should get for s: every character in its order,
\* behind the carriage returns of the lines before, one after each line feed.
LineFeeds(s, n) == Cardinality({i \in 1 .. n : s[i] = "LF"})

IsExpanded(t, s) ==
  /\ Len(t) = Len(s) + LineFeeds(s, Len(s))
  /\ \A i \in 1 .. Len(s) :
       LET p == i + LineFeeds(s, i - 1)
       IN  t[p] = s[i] /\ (s[i] = "LF" => t[p + 1] = "CR")

TypeOK ==
  /\ pc \in {"init", "idle", "poll", "send"}
  /\ k \in 1 .. (Len(InitWrites) + 1)
  /\ chr \in Chars \cup {"", "CR"}
  /\ debugcon \in Seq(Chars) /\ Len(debugcon) <= MaxChars
  /\ dlab \in BOOLEAN /\ fifoOn \in BOOLEAN /\ loopback \in BOOLEAN
  /\ divisorLSB \in 0 .. 255 /\ divisorMSB \in 0 .. 255 /\ ier \in 0 .. 255
  /\ thr \in Seq(Chars \cup {"CR"} \cup (IF pc = "init" THEN {"firmware"} ELSE {}))
  /\ Len(thr) <= FIFO
  /\ line \in Seq(Chars \cup {"CR", "garbled"})

\* However the firmware left the UART, and whatever its speed, no character is
\* lost, garbled, kept in a loop or overtaken: between two calls the line and
\* the transmitter together hold what was printed, the same that the debug
\* port got, with line ends as a terminal wants them.
NothingLost == pc = "idle" => IsExpanded(line \o thr, debugcon)

\* The first n characters have left the UART as a terminal should get them,
\* the carriage return of a last line feed included.
HasLeft(n) ==
  /\ Len(debugcon) >= n
  /\ LET t == n + LineFeeds(debugcon, n) IN
     Len(line) >= t /\ IsExpanded(SubSeq(line, 1, t), SubSeq(debugcon, 1, n))

\* Every character that is printed gets to the line, each line feed with its
\* carriage return: serial_char ends its polling every time it is called.
AllSent == \A n \in 1 .. MaxChars : Len(debugcon) >= n ~> HasLeft(n)
=============================================================================
