------------------------------ MODULE SerialProofs ------------------------------
(***************************************************************************)
(* Proofs about Serial: whatever the kernel prints, however long, for      *)
(* every depth of the FIFO, every state the firmware leaves the UART in    *)
(* and however slowly it sends, no character is lost or garbled.           *)
(***************************************************************************)
EXTENDS Serial, FiniteSetTheorems, SequenceTheorems, TLAPS

Out == Chars \cup {"CR", "garbled"}

\* t is what a terminal should get for the first n characters of s.
ExpandedTo(t, s, n) ==
  /\ Len(t) = n + LineFeeds(s, n)
  /\ \A i \in 1 .. n :
       /\ t[i + LineFeeds(s, i - 1)] = s[i]
       /\ s[i] = "LF" => t[i + LineFeeds(s, i - 1) + 1] = "CR"

\* The n-th character of s is a line feed, and the carriage return is still
\* missing.
FedTo(t, s, n) ==
  /\ s[n] = "LF"
  /\ \E u \in Seq(Out) : ExpandedTo(u, s, n - 1) /\ t = Append(u, "LF")

-----------------------------------------------------------------------------
(***************************************************************************)
(* Line feeds and what a terminal should get.                              *)
(***************************************************************************)
LEMMA LineFeedsType ==
  ASSUME NEW s, NEW n \in Nat
  PROVE  LineFeeds(s, n) \in Nat /\ IsFiniteSet({i \in 1 .. n : s[i] = "LF"})
<1>1. IsFiniteSet(1 .. n)
  BY FS_Interval
<1>2. {i \in 1 .. n : s[i] = "LF"} \in SUBSET (1 .. n)
  OBVIOUS
<1>3. IsFiniteSet({i \in 1 .. n : s[i] = "LF"})
  BY <1>1, <1>2, FS_Subset
<1> QED  BY <1>3, FS_CardinalityType DEF LineFeeds

LEMMA LineFeedsGrow ==
  ASSUME NEW s, NEW m \in Nat, NEW n \in Nat, m <= n
  PROVE  LineFeeds(s, m) <= LineFeeds(s, n)
<1>1. {i \in 1 .. m : s[i] = "LF"} \in SUBSET {i \in 1 .. n : s[i] = "LF"}
  OBVIOUS
<1> QED  BY <1>1, LineFeedsType, FS_Subset DEF LineFeeds

LEMMA LineFeedsNext ==
  ASSUME NEW s, NEW n \in Nat \ {0}
  PROVE  LineFeeds(s, n) = IF s[n] = "LF" THEN LineFeeds(s, n - 1) + 1
                                          ELSE LineFeeds(s, n - 1)
<1> DEFINE S(m) == {i \in 1 .. m : s[i] = "LF"}
<1>1. IsFiniteSet(S(n - 1)) /\ n \notin S(n - 1)
  BY LineFeedsType
<1>2. CASE s[n] = "LF"
  <2>1. S(n) = S(n - 1) \cup {n}
    BY <1>2
  <2> HIDE DEF S
  <2>2. Cardinality(S(n)) = Cardinality(S(n - 1)) + 1
    BY <1>1, <2>1, FS_AddElement
  <2> QED  BY <1>2, <2>2 DEF LineFeeds, S
<1>3. CASE s[n] # "LF"
  <2>1. S(n) = S(n - 1)
    BY <1>3
  <2> QED  BY <1>3, <2>1 DEF LineFeeds
<1> QED  BY <1>2, <1>3

\* The places of a character of s, and of its carriage return.
LEMMA Places ==
  ASSUME NEW s, NEW n \in Nat, NEW i \in 1 .. n
  PROVE  /\ i + LineFeeds(s, i - 1) \in 1 .. (n + LineFeeds(s, n))
         /\ s[i] = "LF" => i + LineFeeds(s, i - 1) + 1 \in 1 .. (n + LineFeeds(s, n))
<1>1. i \in Nat \ {0} /\ i - 1 \in Nat /\ i <= n /\ i - 1 <= n
  OBVIOUS
<1>2. /\ LineFeeds(s, i - 1) \in Nat /\ LineFeeds(s, i) \in Nat /\ LineFeeds(s, n) \in Nat
  BY <1>1, LineFeedsType
<1>3. LineFeeds(s, i) <= LineFeeds(s, n) /\ LineFeeds(s, i - 1) <= LineFeeds(s, n)
  BY <1>1, LineFeedsGrow
<1>4. s[i] = "LF" => LineFeeds(s, i) = LineFeeds(s, i - 1) + 1
  BY <1>1, LineFeedsNext
<1> QED  BY <1>1, <1>2, <1>3, <1>4

\* A character is printed: what was complete stays so.
LEMMA StillExpanded ==
  ASSUME NEW s \in Seq(Chars), NEW c \in Chars, NEW t, ExpandedTo(t, s, Len(s))
  PROVE  ExpandedTo(t, Append(s, c), Len(s))
<1> DEFINE r == Append(s, c)
           n == Len(s)
<1>1. n \in Nat /\ \A i \in 1 .. n : r[i] = s[i]
  OBVIOUS
<1> HIDE DEF r, n
<1>2. ASSUME NEW m \in 0 .. n PROVE LineFeeds(r, m) = LineFeeds(s, m)
  <2>1. {i \in 1 .. m : r[i] = "LF"} = {i \in 1 .. m : s[i] = "LF"}
    BY <1>1
  <2> QED  BY <2>1 DEF LineFeeds
<1>3. LineFeeds(r, n) = LineFeeds(s, n)
  BY <1>1, <1>2
<1>4. ASSUME NEW i \in 1 .. n
      PROVE  /\ t[i + LineFeeds(r, i - 1)] = r[i]
             /\ r[i] = "LF" => t[i + LineFeeds(r, i - 1) + 1] = "CR"
  <2>1. LineFeeds(r, i - 1) = LineFeeds(s, i - 1) /\ r[i] = s[i]
    BY <1>1, <1>2
  <2> QED  BY <2>1 DEF ExpandedTo, n
<1>5. ExpandedTo(t, r, n)
  BY <1>3, <1>4 DEF ExpandedTo, n
<1> QED  BY <1>5 DEF r, n

\* The next character, other than a line feed, is sent.
LEMMA CharSent ==
  ASSUME NEW s, NEW n \in Nat \ {0}, NEW t \in Seq(Out),
         ExpandedTo(t, s, n - 1), s[n] # "LF", s[n] \in Out
  PROVE  ExpandedTo(Append(t, s[n]), s, n)
<1> DEFINE u == Append(t, s[n])
           L(m) == LineFeeds(s, m)
<1>1. L(n) = L(n - 1) /\ L(n - 1) \in Nat
  BY LineFeedsNext, LineFeedsType
<1>2. Len(t) = (n - 1) + L(n - 1)
  BY DEF ExpandedTo
<1>3. Len(u) = Len(t) + 1 /\ u[Len(t) + 1] = s[n] /\ \A p \in 1 .. Len(t) : u[p] = t[p]
  OBVIOUS
<1> HIDE DEF u, L
<1>4. Len(u) = n + L(n)
  BY <1>1, <1>2, <1>3
<1>5. ASSUME NEW i \in 1 .. n
      PROVE  u[i + L(i - 1)] = s[i] /\ (s[i] = "LF" => u[i + L(i - 1) + 1] = "CR")
  <2>1. CASE i = n
    <3>1. i + L(i - 1) = Len(t) + 1
      BY <1>1, <1>2, <2>1
    <3> QED  BY <1>3, <2>1, <3>1
  <2>2. CASE i # n
    <3>1. i \in 1 .. (n - 1) /\ n - 1 \in Nat
      BY <2>2
    <3>2. i + L(i - 1) \in 1 .. Len(t) /\ (s[i] = "LF" => i + L(i - 1) + 1 \in 1 .. Len(t))
      BY <1>2, <3>1, Places DEF L
    <3>3. t[i + L(i - 1)] = s[i] /\ (s[i] = "LF" => t[i + L(i - 1) + 1] = "CR")
      BY <3>1 DEF ExpandedTo, L
    <3> QED  BY <1>3, <3>2, <3>3
  <2> QED  BY <2>1, <2>2
<1>6. ExpandedTo(u, s, n)
  BY <1>4, <1>5 DEF ExpandedTo, L
<1> QED  BY <1>6 DEF u

\* A carriage return completes a line feed.
LEMMA LineEnded ==
  ASSUME NEW s, NEW n \in Nat \ {0}, NEW v, FedTo(v, s, n), "LF" \in Out
  PROVE  ExpandedTo(Append(v, "CR"), s, n)
<1> PICK t \in Seq(Out) : ExpandedTo(t, s, n - 1) /\ v = Append(t, "LF")
  BY DEF FedTo
<1>0. s[n] = "LF"
  BY DEF FedTo
<1> DEFINE u == Append(v, "CR")
           L(m) == LineFeeds(s, m)
<1>1. L(n) = L(n - 1) + 1 /\ L(n - 1) \in Nat
  <2>1. LineFeeds(s, n) = LineFeeds(s, n - 1) + 1
    BY <1>0, LineFeedsNext
  <2>2. n - 1 \in Nat
    OBVIOUS
  <2>3. LineFeeds(s, n - 1) \in Nat
    BY <2>2, LineFeedsType
  <2> QED  BY <2>1, <2>3
<1>2. Len(t) = (n - 1) + L(n - 1) /\ Len(t) \in Nat
  BY DEF ExpandedTo
<1>3. /\ Len(u) = Len(t) + 2 /\ u[Len(t) + 1] = "LF" /\ u[Len(t) + 2] = "CR"
      /\ \A p \in 1 .. Len(t) : u[p] = t[p]
  <2>1. v \in Seq(Out) /\ Len(v) = Len(t) + 1 /\ v[Len(t) + 1] = "LF"
        /\ \A p \in 1 .. Len(t) : v[p] = t[p]
    OBVIOUS
  <2>2. Len(u) = Len(v) + 1 /\ u[Len(v) + 1] = "CR" /\ \A p \in 1 .. Len(v) : u[p] = v[p]
    BY <2>1 DEF Out
  <2> HIDE DEF u
  <2> QED  BY <1>2, <2>1, <2>2
<1> HIDE DEF u, L
<1>4. Len(u) = n + L(n)
  BY <1>1, <1>2, <1>3
<1>5. ASSUME NEW i \in 1 .. n
      PROVE  u[i + L(i - 1)] = s[i] /\ (s[i] = "LF" => u[i + L(i - 1) + 1] = "CR")
  <2>1. CASE i = n
    <3>1. i + L(i - 1) = Len(t) + 1 /\ i + L(i - 1) + 1 = Len(t) + 2
      BY <1>1, <1>2, <2>1
    <3> QED  BY <1>0, <1>3, <2>1, <3>1
  <2>2. CASE i # n
    <3>1. i \in 1 .. (n - 1) /\ n - 1 \in Nat
      BY <2>2
    <3>2. i + L(i - 1) \in 1 .. Len(t) /\ (s[i] = "LF" => i + L(i - 1) + 1 \in 1 .. Len(t))
      BY <1>2, <3>1, Places DEF L
    <3>3. t[i + L(i - 1)] = s[i] /\ (s[i] = "LF" => t[i + L(i - 1) + 1] = "CR")
      BY <3>1 DEF ExpandedTo, L
    <3> QED  BY <1>3, <3>2, <3>3
  <2> QED  BY <2>1, <2>2
<1>6. ExpandedTo(u, s, n)
  BY <1>4, <1>5 DEF ExpandedTo, L
<1> QED  BY <1>6 DEF u

-----------------------------------------------------------------------------
(***************************************************************************)
(* The invariant.                                                          *)
(***************************************************************************)

\* serial_init, after its first k - 1 writes.
Setup ==
  /\ k \in 1 .. 8
  /\ pc = "init" <=> k # 8
  /\ k \in 3 .. 5 => dlab = TRUE
  /\ k >= 4 => divisorLSB = 12
  /\ k >= 5 => divisorMSB = 0
  /\ k >= 6 => dlab = FALSE
  /\ k >= 7 => fifoOn = TRUE
  /\ k = 7 => thr = << >>
  /\ k = 8 => loopback = FALSE
  /\ pc = "init" => debugcon = << >> /\ line = << >> /\ Len(thr) <= 1

Held == line \o thr

\* The last character is not sent yet, or it is a line feed and the carriage
\* return is not.
Sending ==
  LET n == Len(debugcon) IN
  /\ n > 0
  /\ \/ chr = debugcon[n] /\ ExpandedTo(Held, debugcon, n - 1)
     \/ chr = "CR" /\ FedTo(Held, debugcon, n)

Content ==
  /\ pc = "idle" => ExpandedTo(Held, debugcon, Len(debugcon))
  /\ pc \in {"poll", "send"} => Sending
  /\ pc = "send" => thr = << >>

IndInv == TypeOK /\ Setup /\ Content

\* The sequences of the state have elements of Out, the transmitter's after
\* serial_init of Chars and CR.
LEMMA Sequences ==
  ASSUME TypeOK
  PROVE  /\ line \in Seq(Out)
         /\ pc # "init" => thr \in Seq(Chars \cup {"CR"}) /\ thr \in Seq(Out) /\ Held \in Seq(Out)
<1>1. line \in Seq(Out)
  BY DEF TypeOK, Out
<1>2. ASSUME pc # "init" PROVE thr \in Seq(Chars \cup {"CR"})
  <2>1. Chars \cup {"CR"} \cup (IF pc = "init" THEN {"firmware"} ELSE {}) = Chars \cup {"CR"}
    BY <1>2
  <2> QED  BY <2>1 DEF TypeOK
<1>3. ASSUME NEW t \in Seq(Chars \cup {"CR"}) PROVE t \in Seq(Out)
  <2>1. DOMAIN t = 1 .. Len(t) /\ Len(t) \in Nat /\ \A i \in 1 .. Len(t) : t[i] \in Chars \cup {"CR"}
    OBVIOUS
  <2>2. t \in [1 .. Len(t) -> Out]
    BY <2>1 DEF Out
  <2> QED  BY <2>1, <2>2
<1>4. ASSUME NEW t \in Seq(Out) PROVE line \o t \in Seq(Out)
  BY <1>1
<1> QED  BY <1>1, <1>2, <1>3, <1>4 DEF Held

\* What is held does not change when a character moves on, and grows at the
\* end.
LEMMA MovesOn ==
  ASSUME NEW S, NEW l \in Seq(S), NEW t \in Seq(S), t # << >>
  PROVE  Append(l, Head(t)) \o Tail(t) = l \o t
<1> DEFINE u == Append(l, Head(t))
           w == Tail(t)
<1>1. Head(t) \in S /\ Len(t) \in Nat \ {0} /\ Head(t) = t[1] /\ Len(l) \in Nat
  BY EmptySeq
<1>2. u \in Seq(S) /\ Len(u) = Len(l) + 1 /\ u[Len(l) + 1] = t[1]
      /\ \A i \in 1 .. Len(l) : u[i] = l[i]
  BY <1>1
<1>3. w \in Seq(S) /\ Len(w) = Len(t) - 1 /\ \A i \in 1 .. Len(w) : w[i] = t[i + 1]
  BY HeadTailProperties
<1> HIDE DEF u, w
<1>4. /\ u \o w \in Seq(S) /\ Len(u \o w) = Len(u) + Len(w)
      /\ \A i \in 1 .. Len(u) + Len(w) :
           (u \o w)[i] = IF i <= Len(u) THEN u[i] ELSE w[i - Len(u)]
  BY <1>2, <1>3, ConcatProperties
<1>5. /\ l \o t \in Seq(S) /\ Len(l \o t) = Len(l) + Len(t)
      /\ \A i \in 1 .. Len(l) + Len(t) :
           (l \o t)[i] = IF i <= Len(l) THEN l[i] ELSE t[i - Len(l)]
  BY ConcatProperties
<1>6. Len(u \o w) = Len(l \o t)
  BY <1>1, <1>2, <1>3, <1>4, <1>5
<1>7. ASSUME NEW i \in 1 .. Len(u \o w) PROVE (u \o w)[i] = (l \o t)[i]
  <2>0. i \in 1 .. (Len(l) + Len(t)) /\ i \in 1 .. (Len(u) + Len(w))
    BY <1>4, <1>5, <1>6
  <2>1. CASE i <= Len(l)
    <3>1. (u \o w)[i] = u[i] /\ (l \o t)[i] = l[i] /\ u[i] = l[i]
      BY <1>1, <1>2, <1>4, <1>5, <2>0, <2>1
    <3> QED  BY <3>1
  <2>2. CASE i = Len(l) + 1
    <3>1. (u \o w)[i] = u[i] /\ (l \o t)[i] = t[1]
      BY <1>1, <1>2, <1>4, <1>5, <2>0, <2>2
    <3> QED  BY <1>2, <2>2, <3>1
  <2>3. CASE i > Len(l) + 1
    <3>1. i - Len(u) \in 1 .. Len(w) /\ i - Len(u) + 1 = i - Len(l)
      BY <1>1, <1>2, <1>3, <2>0, <2>3
    <3>2. (u \o w)[i] = w[i - Len(u)] /\ (l \o t)[i] = t[i - Len(l)]
      BY <1>1, <1>2, <1>4, <1>5, <2>0, <2>3
    <3> QED  BY <1>3, <3>1, <3>2
  <2> QED  BY <1>1, <2>0, <2>1, <2>2, <2>3
<1> QED  BY <1>4, <1>5, <1>6, <1>7, SeqEqual DEF u, w

LEMMA GrowsAtEnd ==
  ASSUME NEW S, NEW l \in Seq(S), NEW x \in S
  PROVE  l \o Append(<< >>, x) = Append(l, x)
OBVIOUS

LEMMA Empty ==
  /\ Len(<< >>) = 0
  /\ \A S : << >> \in Seq(S)
BY EmptySeq

LEMMA Initially ==
  ASSUME Init
  PROVE  IndInv
<1>0. pc = "init" /\ k = 1 /\ divisorLSB = 1 /\ divisorMSB = 1 /\ ier = 15
  BY DEF Init
<1>a. chr \in Chars \cup {"", "CR"}
  BY DEF Init
<1>1. debugcon = << >> /\ line = << >>
  BY DEF Init
<1>2. dlab \in BOOLEAN /\ fifoOn \in BOOLEAN /\ loopback \in BOOLEAN
  BY DEF Init
<1>3. thr = << >> \/ thr = << "firmware" >>
  BY DEF Init
<1>4. Len(InitWrites) = 7
  BY DEF InitWrites
<1> DEFINE S == Chars \cup {"CR"} \cup (IF pc = "init" THEN {"firmware"} ELSE {})
<1>5. thr \in Seq(S) /\ Len(thr) \in 0 .. 1
  <2>1. "firmware" \in S
    BY <1>0
  <2> HIDE DEF S
  <2>2. CASE thr = << >>
    BY <2>2, Empty
  <2>3. CASE thr = << "firmware" >>
    BY <2>1, <2>3
  <2> QED  BY <1>3, <2>2, <2>3
<1>6. /\ debugcon \in Seq(Chars) /\ Len(debugcon) = 0
      /\ line \in Seq(Chars \cup {"CR", "garbled"})
  BY <1>1, Empty
<1>7. Len(thr) <= FIFO /\ Len(debugcon) <= MaxChars
  <2>1. Len(thr) \in 0 .. 1 /\ Len(debugcon) = 0
    BY <1>5, <1>6
  <2>2. Len(thr) <= FIFO
    BY <2>1, SerialAssumption
  <2> QED  BY <2>1, <2>2, SerialAssumption
<1>8. k \in 1 .. (Len(InitWrites) + 1)
  BY <1>0, <1>4
<1> HIDE DEF S
<1>9. TypeOK
  <2>1. thr \in Seq(Chars \cup {"CR"} \cup (IF pc = "init" THEN {"firmware"} ELSE {}))
    BY <1>5 DEF S
  <2>2. debugcon \in Seq(Chars) /\ line \in Seq(Chars \cup {"CR", "garbled"})
    BY <1>6
  <2>3. divisorLSB \in 0 .. 255 /\ divisorMSB \in 0 .. 255 /\ ier \in 0 .. 255
    BY <1>0
  <2>4. pc \in {"init", "idle", "poll", "send"}
    BY <1>0
  <2> QED  BY <1>2, <1>7, <1>8, <1>a, <2>1, <2>2, <2>3, <2>4 DEF TypeOK
<1>10. Setup
  <2>a. Len(thr) \in 0 .. 1
    BY <1>5
  <2>1. Len(thr) <= 1
    BY <2>a
  <2> QED  BY <1>0, <1>1, <2>1 DEF Setup
<1>11. Content
  BY <1>0 DEF Content
<1> QED  BY <1>9, <1>10, <1>11 DEF IndInv

\* What a write of serial_init does to the registers.
LEMMA Writes ==
  ASSUME IndInv, serial_init
  PROVE  /\ Setup'
         /\ thr' = thr \/ thr' = << >>
         /\ dlab' \in BOOLEAN /\ fifoOn' \in BOOLEAN /\ loopback' \in BOOLEAN
         /\ divisorLSB' \in 0 .. 255 /\ divisorMSB' \in 0 .. 255 /\ ier' \in 0 .. 255
<1>0. k \in 1 .. 7 /\ Len(InitWrites) = 7 /\ k' = k + 1
      /\ pc' = (IF k = 7 THEN "idle" ELSE "init")
      /\ pc = "init" /\ UNCHANGED <<chr, debugcon, line>>
      /\ Outb(InitWrites[k][1], InitWrites[k][2])
  BY DEF IndInv, Setup, serial_init, InitWrites
<1>a. /\ dlab \in BOOLEAN /\ fifoOn \in BOOLEAN /\ loopback \in BOOLEAN
      /\ divisorLSB \in 0 .. 255 /\ divisorMSB \in 0 .. 255 /\ ier \in 0 .. 255
  BY DEF IndInv, TypeOK
<1>b. /\ k \in 3 .. 5 => dlab = TRUE
      /\ k >= 4 => divisorLSB = 12
      /\ k >= 5 => divisorMSB = 0
      /\ k >= 6 => dlab = FALSE
      /\ k >= 7 => fifoOn = TRUE
      /\ k = 7 => thr = << >>
      /\ debugcon = << >> /\ line = << >> /\ Len(thr) <= 1
  BY <1>0 DEF IndInv, Setup
<1>c. /\ HasBit(128, 128) = TRUE /\ HasBit(3, 128) = FALSE /\ HasBit(199, 1) = TRUE
      /\ HasBit(199, 4) = TRUE /\ HasBit(15, 16) = FALSE
  BY DEF HasBit
<1>d. Len(<< >>) = 0
  OBVIOUS
<1>1. CASE k = 1
  <2>1. Outb("INT", 0)
    BY <1>0, <1>1 DEF InitWrites
  <2>2. dlab' = dlab
    BY <2>1 DEF Outb
  <2>3. fifoOn' = fifoOn
    BY <2>1 DEF Outb
  <2>4. loopback' = loopback
    BY <2>1 DEF Outb
  <2>5. thr' = thr
    BY <2>1 DEF Outb
  <2>6. divisorLSB' = divisorLSB /\ divisorMSB' \in {divisorMSB, 0} /\ ier' \in {ier, 0}
    BY <2>1 DEF Outb
  <2>7. Setup'
    BY <1>0, <1>b, <1>d, <1>1, <2>2, <2>3, <2>4, <2>5, <2>6 DEF Setup
  <2> QED  BY <1>a, <2>2, <2>3, <2>4, <2>5, <2>6, <2>7
<1>2. CASE k = 2
  <2>1. Outb("LINE_CONTROL", 128)
    BY <1>0, <1>2 DEF InitWrites
  <2>2. dlab' = TRUE
    BY <2>1, <1>c DEF Outb
  <2>3. fifoOn' = fifoOn
    BY <2>1, <1>c DEF Outb
  <2>4. loopback' = loopback
    BY <2>1, <1>c DEF Outb
  <2>5. thr' = thr
    BY <2>1, <1>c DEF Outb
  <2>6. divisorLSB' = divisorLSB /\ divisorMSB' = divisorMSB /\ ier' = ier
    BY <2>1, <1>c DEF Outb
  <2>7. Setup'
    BY <1>0, <1>b, <1>d, <1>2, <2>2, <2>3, <2>4, <2>5, <2>6 DEF Setup
  <2> QED  BY <1>a, <2>2, <2>3, <2>4, <2>5, <2>6, <2>7
<1>3. CASE k = 3
  <2>1. Outb("DATA", 12)
    BY <1>0, <1>3 DEF InitWrites
  <2>2. dlab' = dlab
    BY <2>1, <1>b, <1>3 DEF Outb
  <2>3. fifoOn' = fifoOn
    BY <2>1, <1>b, <1>3 DEF Outb
  <2>4. loopback' = loopback
    BY <2>1, <1>b, <1>3 DEF Outb
  <2>5. thr' = thr
    BY <2>1, <1>b, <1>3 DEF Outb
  <2>6. divisorLSB' = 12 /\ divisorMSB' = divisorMSB /\ ier' = ier
    BY <2>1, <1>b, <1>3 DEF Outb
  <2>7. Setup'
    BY <1>0, <1>b, <1>d, <1>3, <2>2, <2>3, <2>4, <2>5, <2>6 DEF Setup
  <2> QED  BY <1>a, <2>2, <2>3, <2>4, <2>5, <2>6, <2>7
<1>4. CASE k = 4
  <2>1. Outb("INT", 0)
    BY <1>0, <1>4 DEF InitWrites
  <2>2. dlab' = dlab
    BY <2>1, <1>b, <1>4 DEF Outb
  <2>3. fifoOn' = fifoOn
    BY <2>1, <1>b, <1>4 DEF Outb
  <2>4. loopback' = loopback
    BY <2>1, <1>b, <1>4 DEF Outb
  <2>5. thr' = thr
    BY <2>1, <1>b, <1>4 DEF Outb
  <2>6. divisorLSB' = divisorLSB /\ divisorMSB' = 0 /\ ier' = ier
    BY <2>1, <1>b, <1>4 DEF Outb
  <2>7. Setup'
    BY <1>0, <1>b, <1>d, <1>4, <2>2, <2>3, <2>4, <2>5, <2>6 DEF Setup
  <2> QED  BY <1>a, <2>2, <2>3, <2>4, <2>5, <2>6, <2>7
<1>5. CASE k = 5
  <2>1. Outb("LINE_CONTROL", 3)
    BY <1>0, <1>5 DEF InitWrites
  <2>2. dlab' = FALSE
    BY <2>1, <1>c DEF Outb
  <2>3. fifoOn' = fifoOn
    BY <2>1, <1>c DEF Outb
  <2>4. loopback' = loopback
    BY <2>1, <1>c DEF Outb
  <2>5. thr' = thr
    BY <2>1, <1>c DEF Outb
  <2>6. divisorLSB' = divisorLSB /\ divisorMSB' = divisorMSB /\ ier' = ier
    BY <2>1, <1>c DEF Outb
  <2>7. Setup'
    BY <1>0, <1>b, <1>d, <1>5, <2>2, <2>3, <2>4, <2>5, <2>6 DEF Setup
  <2> QED  BY <1>a, <2>2, <2>3, <2>4, <2>5, <2>6, <2>7
<1>6. CASE k = 6
  <2>1. Outb("FIFO_CTRL", 199)
    BY <1>0, <1>6 DEF InitWrites
  <2>2. dlab' = dlab
    BY <2>1, <1>c DEF Outb
  <2>3. fifoOn' = TRUE
    BY <2>1, <1>c DEF Outb
  <2>4. loopback' = loopback
    BY <2>1, <1>c DEF Outb
  <2>5. thr' = << >>
    BY <2>1, <1>c DEF Outb
  <2>6. divisorLSB' = divisorLSB /\ divisorMSB' = divisorMSB /\ ier' = ier
    BY <2>1, <1>c DEF Outb
  <2>7. Setup'
    BY <1>0, <1>b, <1>d, <1>6, <2>2, <2>3, <2>4, <2>5, <2>6 DEF Setup
  <2> QED  BY <1>a, <2>2, <2>3, <2>4, <2>5, <2>6, <2>7
<1>7. CASE k = 7
  <2>1. Outb("MODEM_CTRL", 15)
    BY <1>0, <1>7 DEF InitWrites
  <2>2. dlab' = dlab
    BY <2>1, <1>c DEF Outb
  <2>3. fifoOn' = fifoOn
    BY <2>1, <1>c DEF Outb
  <2>4. loopback' = FALSE
    BY <2>1, <1>c DEF Outb
  <2>5. thr' = thr
    BY <2>1, <1>c DEF Outb
  <2>6. divisorLSB' = divisorLSB /\ divisorMSB' = divisorMSB /\ ier' = ier
    BY <2>1, <1>c DEF Outb
  <2>7. Setup'
    BY <1>0, <1>b, <1>d, <1>7, <2>2, <2>3, <2>4, <2>5, <2>6 DEF Setup
  <2> QED  BY <1>a, <2>2, <2>3, <2>4, <2>5, <2>6, <2>7
<1> QED  BY <1>0, <1>1, <1>2, <1>3, <1>4, <1>5, <1>6, <1>7

LEMMA InitKeeps ==
  ASSUME IndInv, serial_init
  PROVE  IndInv'
<1>0. /\ pc = "init" /\ pc' \in {"init", "idle"} /\ k' = k + 1 /\ k \in 1 .. 7
      /\ UNCHANGED <<chr, debugcon, line>> /\ debugcon = << >> /\ line = << >>
      /\ Len(InitWrites) = 7 /\ (pc' = "idle" => k = 7)
  BY DEF IndInv, Setup, serial_init, InitWrites
<1>1. pc' = "idle" => thr' = << >>
  BY <1>0, Writes DEF IndInv, Setup
<1>2. thr' \in Seq(Chars \cup {"CR"} \cup (IF pc' = "init" THEN {"firmware"} ELSE {}))
  <2>1. CASE thr' = << >>
    BY <2>1
  <2>2. CASE thr' # << >>
    BY <1>0, <1>1, <2>2, Writes DEF IndInv, TypeOK
  <2> QED  BY <2>1, <2>2
<1>3. Len(thr') <= FIFO
  <2>1. Len(<< >>) = 0 /\ 0 <= FIFO
    BY SerialAssumption
  <2> QED  BY <2>1, Writes DEF IndInv, TypeOK
<1>4. TypeOK'
  <2>1. /\ dlab' \in BOOLEAN /\ fifoOn' \in BOOLEAN /\ loopback' \in BOOLEAN
        /\ divisorLSB' \in 0 .. 255 /\ divisorMSB' \in 0 .. 255 /\ ier' \in 0 .. 255
    BY Writes
  <2>2. /\ chr' \in Chars \cup {"", "CR"} /\ line' \in Seq(Chars \cup {"CR", "garbled"})
        /\ debugcon' \in Seq(Chars) /\ Len(debugcon') <= MaxChars
    BY <1>0 DEF IndInv, TypeOK
  <2>3. pc' \in {"init", "idle", "poll", "send"} /\ k' \in 1 .. (Len(InitWrites) + 1)
    BY <1>0
  <2> QED  BY <1>2, <1>3, <2>1, <2>2, <2>3 DEF TypeOK
<1>5. pc' = "idle" => ExpandedTo(Held', debugcon', Len(debugcon'))
  <2> SUFFICES ASSUME pc' = "idle" PROVE ExpandedTo(Held', debugcon', Len(debugcon'))
    OBVIOUS
  <2>1. thr' = << >> /\ line' = << >> /\ debugcon' = << >>
    BY <1>0, <1>1
  <2>2. Held' = << >> /\ Len(debugcon') = 0 /\ Len(Held') = 0
    BY <2>1 DEF Held
  <2>3. LineFeeds(debugcon', 0) = 0
    <3>1. {i \in 1 .. 0 : debugcon'[i] = "LF"} = {}
      OBVIOUS
    <3> QED  BY <3>1, FS_EmptySet DEF LineFeeds
  <2> QED  BY <2>2, <2>3 DEF ExpandedTo
<1>6. Content'
  BY <1>0, <1>5 DEF Content
<1> QED  BY <1>4, <1>6, Writes DEF IndInv

LEMMA PutcharKeeps ==
  ASSUME IndInv, NEW c \in Chars, debug_putchar(c)
  PROVE  IndInv'
<1>1. /\ pc = "idle" /\ pc' = "poll" /\ chr' = c /\ debugcon' = Append(debugcon, c)
      /\ UNCHANGED <<k, uartRegs, thr, line>> /\ Len(debugcon) < MaxChars
  BY DEF debug_putchar
<1>2. debugcon \in Seq(Chars) /\ ExpandedTo(Held, debugcon, Len(debugcon))
  BY <1>1 DEF IndInv, TypeOK, Content
<1>3. /\ debugcon' \in Seq(Chars) /\ Len(debugcon') = Len(debugcon) + 1
      /\ debugcon'[Len(debugcon) + 1] = c /\ Len(debugcon) \in Nat
  BY <1>1, <1>2
<1>4. Len(debugcon') <= MaxChars
  BY <1>1, <1>3, SerialAssumption
<1>5. TypeOK'
  BY <1>1, <1>3, <1>4 DEF IndInv, TypeOK, uartRegs
<1>6. Setup'
  BY <1>1 DEF IndInv, Setup, uartRegs
<1>7. ExpandedTo(Held', debugcon', Len(debugcon))
  BY <1>1, <1>2, StillExpanded DEF Held
<1>8. Len(debugcon') - 1 = Len(debugcon) /\ Len(debugcon') > 0 /\ chr' = debugcon'[Len(debugcon')]
  BY <1>1, <1>3
<1>9. Content'
  BY <1>1, <1>7, <1>8 DEF Content, Sending
<1> QED  BY <1>5, <1>6, <1>9 DEF IndInv

LEMMA PollKeeps ==
  ASSUME IndInv, Poll
  PROVE  IndInv'
<1>1. /\ pc = "poll" /\ pc' \in {"poll", "send"} /\ (pc' = "send" => thr = << >>)
      /\ UNCHANGED <<k, chr, debugcon, uartRegs, thr, line>>
  BY DEF Poll, TransmitterEmpty
<1>2. TypeOK'
  BY <1>1 DEF IndInv, TypeOK, uartRegs
<1>3. Setup'
  BY <1>1 DEF IndInv, Setup, uartRegs
<1>4. Content'
  BY <1>1 DEF IndInv, Content, Sending, Held
<1> QED  BY <1>2, <1>3, <1>4 DEF IndInv

\* The UART passes on what it holds; before serial_init is done that is lost,
\* later it is what is held all the same.
LEMMA ShiftKeeps ==
  ASSUME IndInv, Shift
  PROVE  IndInv'
<1>1. /\ thr # << >> /\ thr' = Tail(thr) /\ UNCHANGED <<pc, k, chr, debugcon, uartRegs>>
      /\ line' = IF pc = "init" \/ loopback THEN line ELSE Append(line, OnLine(Head(thr)))
  BY DEF Shift
<1> DEFINE S == Chars \cup {"CR"} \cup (IF pc = "init" THEN {"firmware"} ELSE {})
<1>2. thr \in Seq(S) /\ Len(thr) <= FIFO
  BY DEF IndInv, TypeOK
<1> HIDE DEF S
<1>3. thr' \in Seq(S) /\ Len(thr') = Len(thr) - 1 /\ Head(thr) \in S /\ Len(thr) \in Nat
  BY <1>1, <1>2
<1>4. line' \in Seq(Chars \cup {"CR", "garbled"}) /\ (pc # "init" => Held' = Held)
  <2>1. CASE pc = "init"
    BY <1>1, <2>1 DEF IndInv, TypeOK
  <2>2. CASE pc # "init"
    <3>1. k = 8 /\ divisorLSB = 12 /\ divisorMSB = 0 /\ ~loopback
      BY <2>2 DEF IndInv, Setup
    <3>2. line' = Append(line, Head(thr))
      BY <1>1, <2>2, <3>1 DEF OnLine
    <3>3. line \in Seq(Out) /\ thr \in Seq(Out)
      BY <2>2, Sequences DEF IndInv
    <3>4. line' \in Seq(Out)
      BY <1>1, <3>2, <3>3
    <3>5. Held' = Held
      BY <1>1, <3>2, <3>3, MovesOn DEF Held
    <3> QED  BY <3>4, <3>5 DEF Out
  <2> QED  BY <2>1, <2>2
<1>5. Len(thr') <= FIFO
  BY <1>2, <1>3, SerialAssumption
<1>6. TypeOK'
  BY <1>1, <1>3, <1>4, <1>5 DEF IndInv, TypeOK, uartRegs, S
<1>7. Setup'
  <2>1. pc = "init" => line' = line /\ (Len(thr) <= 1 => Len(thr') <= 1)
    BY <1>1, <1>3
  <2> QED  BY <1>1, <2>1 DEF IndInv, Setup, uartRegs
<1>8. Content'
  BY <1>1, <1>4 DEF IndInv, Content, Sending
<1> QED  BY <1>6, <1>7, <1>8 DEF IndInv

LEMMA SendKeeps ==
  ASSUME IndInv, Send
  PROVE  IndInv'
<1>1. /\ pc = "send" /\ UNCHANGED <<k, debugcon, line>> /\ Outb("DATA", chr)
      /\ IF chr = "LF" THEN chr' = "CR" /\ pc' = "poll" ELSE chr' = "" /\ pc' = "idle"
  BY DEF Send
<1>2. k = 8 /\ dlab = FALSE /\ fifoOn = TRUE /\ thr = << >> /\ Sending
  <2>1. k = 8 /\ thr = << >> /\ Sending
    BY <1>1 DEF IndInv, Setup, Content
  <2> QED  BY <2>1 DEF IndInv, Setup
<1>3. Len(thr) < Capacity
  BY <1>2, SerialAssumption DEF Capacity
<1>4. thr' = Append(thr, chr) /\ UNCHANGED uartRegs
  BY <1>1, <1>2, <1>3 DEF Outb, uartRegs, IndInv, TypeOK
<1> DEFINE n == Len(debugcon)
<1>5. debugcon \in Seq(Chars) /\ n \in Nat \ {0} /\ debugcon[n] \in Chars
  <2>1. debugcon \in Seq(Chars)
    BY DEF IndInv, TypeOK
  <2>2. n > 0
    BY <1>2 DEF Sending
  <2> QED  BY <2>1, <2>2
<1>6. chr \in Chars \cup {"CR"} /\ chr \in Out
  BY <1>2, <1>5 DEF Sending, Out
<1>7. thr' \in Seq(Chars \cup {"CR"}) /\ Len(thr') = 1
  BY <1>2, <1>4, <1>6
<1>8. line \in Seq(Out) /\ thr \in Seq(Out) /\ Held \in Seq(Out)
  BY <1>1, Sequences DEF IndInv
<1>9. Held' = Append(Held, chr)
  <2>1. Held = line
    <3>1. Held = line \o << >>
      BY <1>2 DEF Held
    <3> QED  BY <1>8, <3>1
  <2>2. Held' = line \o Append(<< >>, chr)
    BY <1>1, <1>2, <1>4 DEF Held
  <2> QED  BY <1>6, <1>8, <2>1, <2>2, GrowsAtEnd
<1>10. TypeOK'
  <2>1. pc' \in {"poll", "idle"} /\ chr' \in {"", "CR"}
    BY <1>1
  <2>2. Chars \cup {"CR"} \cup (IF pc' = "init" THEN {"firmware"} ELSE {}) = Chars \cup {"CR"}
    BY <2>1
  <2>3. Len(thr') <= FIFO
    BY <1>7, SerialAssumption
  <2>4. thr' \in Seq(Chars \cup {"CR"} \cup (IF pc' = "init" THEN {"firmware"} ELSE {}))
    BY <1>7, <2>2
  <2> QED  BY <1>1, <1>4, <2>1, <2>3, <2>4 DEF IndInv, TypeOK, uartRegs
<1>11. Setup'
  <2>1. loopback = FALSE /\ divisorLSB = 12 /\ divisorMSB = 0
    BY <1>2 DEF IndInv, Setup
  <2>2. /\ dlab' = FALSE /\ fifoOn' = TRUE /\ loopback' = FALSE
        /\ divisorLSB' = 12 /\ divisorMSB' = 0
    BY <1>2, <1>4, <2>1 DEF uartRegs
  <2>3. k' = 8 /\ pc' # "init"
    BY <1>1, <1>2
  <2> QED  BY <2>2, <2>3 DEF Setup
<1> HIDE DEF n
<1>12. CASE chr = "CR" /\ FedTo(Held, debugcon, n)
  <2>1. ExpandedTo(Held', debugcon, n)
    <3>1. "LF" \in Out
      BY <1>5, <1>12 DEF FedTo, Out
    <3> QED  BY <1>5, <1>9, <1>12, <3>1, LineEnded
  <2>2. pc' = "idle"
    BY <1>1, <1>12
  <2>3. Content'
    BY <1>1, <2>1, <2>2 DEF Content, n
  <2> QED  BY <1>10, <1>11, <2>3 DEF IndInv
<1>13. CASE chr = debugcon[n] /\ ExpandedTo(Held, debugcon, n - 1)
  <2>1. CASE chr # "LF"
    <3>1. ExpandedTo(Held', debugcon, n)
      BY <1>5, <1>6, <1>8, <1>9, <1>13, <2>1, CharSent
    <3>2. pc' = "idle"
      BY <1>1, <2>1
    <3>3. Content'
      BY <1>1, <3>1, <3>2 DEF Content, n
    <3> QED  BY <1>10, <1>11, <3>3 DEF IndInv
  <2>2. CASE chr = "LF"
    <3>1. FedTo(Held', debugcon, n)
      BY <1>8, <1>9, <1>13, <2>2 DEF FedTo
    <3>2. pc' = "poll" /\ chr' = "CR"
      BY <1>1, <2>2
    <3>3. Content'
      BY <1>1, <1>5, <3>1, <3>2 DEF Content, Sending, n
    <3> QED  BY <1>10, <1>11, <3>3 DEF IndInv
  <2> QED  BY <2>1, <2>2
<1> QED  BY <1>2, <1>12, <1>13 DEF Sending, n

LEMMA StepKeeps ==
  ASSUME IndInv, [Next]_vars
  PROVE  IndInv'
<1>1. CASE serial_init
  BY <1>1, InitKeeps
<1>2. CASE Poll
  BY <1>2, PollKeeps
<1>3. CASE Send
  BY <1>3, SendKeeps
<1>4. CASE \E c \in Chars : debug_putchar(c)
  BY <1>4, PutcharKeeps
<1>5. CASE Shift
  BY <1>5, ShiftKeeps
<1>6. CASE UNCHANGED vars
  <2>1. UNCHANGED <<pc, k, chr, debugcon, uartRegs, thr, line>>
    BY <1>6 DEF vars
  <2>2. TypeOK'
    BY <2>1 DEF uartRegs, IndInv, TypeOK
  <2>3. Setup'
    BY <2>1 DEF uartRegs, IndInv, Setup
  <2>4. Content'
    BY <2>1 DEF IndInv, Content, Sending, Held
  <2> QED  BY <2>2, <2>3, <2>4 DEF IndInv
<1> QED  BY <1>1, <1>2, <1>3, <1>4, <1>5, <1>6 DEF Next, Driver, Done

-----------------------------------------------------------------------------
(***************************************************************************)
(* Theorems.                                                               *)
(***************************************************************************)

\* serial_init brings the UART to one state from all that the firmware may
\* leave it in, and serial_char keeps it there.
THEOREM SerialInvariant == Spec => []IndInv
BY Initially, StepKeeps, PTL DEF Spec

\* The driver's state and the UART's registers keep their types, and none of
\* the firmware's characters is left in the transmitter after serial_init.
THEOREM SerialTypes == Spec => []TypeOK
<1>1. IndInv => TypeOK
  BY DEF IndInv
<1> QED  BY <1>1, SerialInvariant, PTL

\* serial_char writes a character only when the transmitter is empty, and the
\* UART takes each one: no write finds a full transmitter or the divisor latch.
THEOREM NeverOverrun ==
  Spec => [][Send => thr = << >> /\ thr' = Append(thr, chr)]_vars
<1>1. ASSUME IndInv, Send PROVE thr = << >> /\ thr' = Append(thr, chr)
  <2>1. pc = "send" /\ Outb("DATA", chr)
    BY <1>1 DEF Send
  <2>2. thr = << >> /\ k = 8
    BY <1>1, <2>1 DEF IndInv, Content, Setup
  <2>3. dlab = FALSE /\ fifoOn = TRUE
    BY <1>1, <2>2 DEF IndInv, Setup
  <2>4. Len(thr) < Capacity
    BY <2>2, <2>3, SerialAssumption DEF Capacity
  <2> QED  BY <2>1, <2>2, <2>3, <2>4 DEF Outb
<1> DEFINE A == Send => thr = << >> /\ thr' = Append(thr, chr)
<1>2. IndInv /\ [Next]_vars => A \/ UNCHANGED vars
  BY <1>1
<1> QED  BY <1>2, SerialInvariant, PTL DEF Spec

\* No character is lost, garbled, kept in a loop or overtaken, whatever is
\* printed and however slow the line is.
THEOREM PrintedIsHeld == Spec => []NothingLost
<1>1. IndInv => NothingLost
  BY DEF IndInv, Content, NothingLost, Held, IsExpanded, ExpandedTo
<1> QED  BY <1>1, SerialInvariant, PTL

=============================================================================
