---------------------------- MODULE ExceptionsProofs ----------------------------
(***************************************************************************)
(* Proofs about Exceptions: for every set of vectors on whose error code   *)
(* stubs and CPU agree, every width of addresses and every depth of        *)
(* nesting, the panic reports the registers and the error code of the last *)
(* exception.                                                              *)
(***************************************************************************)
EXTENDS Exceptions, TLAPS

\* The stub pushes a word for the error code where the CPU does not.
CodesAgree == \A v \in Vectors : v \in HasErrorCode <=> v \in NoFakeCode

\* q and r are what division of x by n gives ...
Divided(x, n, q, r) == q = x \div n /\ r = x % n

\* ... and what is true of them.
Digits(x, n, q, r) == q \in Nat /\ r \in 0 .. (n - 1) /\ x = n * q + r

LEMMA Quotient ==
  ASSUME NEW n \in Nat \ {0}, NEW x \in Nat, NEW q, NEW r, Divided(x, n, q, r)
  PROVE  Digits(x, n, q, r)
<1>0. q = x \div n /\ r = x % n
  BY DEF Divided
<1>1. q \in Nat
  BY <1>0
<1>2. r \in 0 .. (n - 1)
  BY <1>0
<1>3. r = x - n * q
  BY <1>0
<1>4. n * q \in Int
  BY <1>1
<1> DEFINE e == n * q
<1>5. r = x - e /\ e \in Int /\ r \in Int
  BY <1>2, <1>3, <1>4
<1> HIDE DEF e
<1>6. x = e + r
  BY <1>5
<1> QED  BY <1>1, <1>2, <1>6 DEF e, Digits

\* Twice divided by n is divided by n * n.
LEMMA Twice ==
  ASSUME NEW n \in Nat \ {0}, NEW x \in Nat, NEW a, NEW b, NEW c,
         a = x \div n, b = a \div n, c = x \div (n * n)
  PROVE  b = c
<1>1. a \in Nat /\ n * n \in Nat \ {0}
  OBVIOUS
<1> QED  OBVIOUS

\* Three digits to base n, put together again.
LEMMA Together ==
  ASSUME NEW n \in Nat \ {0}, NEW x \in Nat, NEW a \in Nat, NEW b \in Nat,
         NEW p \in Nat, NEW q \in Nat, x = n * a + p, a = n * b + q
  PROVE  p + n * q + n * n * b = x
<1>1. n * a = n * (n * b) + n * q
  OBVIOUS
<1>2. n * n * b = n * (n * b)
  OBVIOUS
<1>3. n * q \in Nat /\ n * (n * b) \in Nat /\ n * a \in Nat
  OBVIOUS
<1> QED  BY <1>1, <1>2, <1>3

\* The highest digit of a number below m * m is below m.
LEMMA Highest ==
  ASSUME NEW m \in Nat \ {0}, NEW x \in Nat, NEW q, q = x \div m, x < m * m
  PROVE  q \in 0 .. (m - 1)
<1> DEFINE r == x % m
<1>0. Divided(x, m, q, r)
  BY DEF Divided
<1> HIDE DEF r
<1>1. q \in Nat /\ r \in 0 .. (m - 1) /\ x = m * q + r
  BY <1>0, Quotient DEF Digits
<1>2. q < m
  <2> SUFFICES ASSUME q >= m PROVE FALSE
    BY <1>1
  <2>1. m * q >= m * m
    BY <1>1
  <2>2. m * q \in Nat /\ m * m \in Nat
    BY <1>1
  <2> QED  BY <1>1, <2>1, <2>2
<1> QED  BY <1>1, <1>2

LEMMA GateOfStub ==
  ASSUME NEW x \in Nat
  PROVE  GateTarget(arch_idt_set_entry(x)) = x
<1> DEFINE a == x \div HALF
           b == a \div HALF
           c == x \div (HALF * HALF)
           p == x % HALF
           q == a % HALF
<1>1. HALF \in Nat \ {0}
  BY ExceptionsAssumption
<1>0. a = x \div HALF /\ b = a \div HALF /\ c = x \div (HALF * HALF)
      /\ Divided(x, HALF, a, p) /\ Divided(a, HALF, b, q)
  BY DEF Divided
<1>5. arch_idt_set_entry(x) = [offset0 |-> p, offset1 |-> q, offset2 |-> c, seg |-> 8]
  BY DEF arch_idt_set_entry
<1> HIDE DEF a, b, c, p, q
<1>a. Digits(x, HALF, a, p)
  BY <1>0, <1>1, Quotient
<1>2. a \in Nat /\ p \in 0 .. (HALF - 1) /\ x = HALF * a + p
  BY <1>a DEF Digits
<1>b. Digits(a, HALF, b, q)
  BY <1>0, <1>1, <1>2, Quotient
<1>3. b \in Nat /\ q \in 0 .. (HALF - 1) /\ a = HALF * b + q
  BY <1>b DEF Digits
<1>4. b = c
  BY <1>0, <1>1, Twice
<1>6. GateTarget(arch_idt_set_entry(x)) = p + HALF * q + HALF * HALF * c
  BY <1>5 DEF GateTarget
<1>7. p + HALF * q + HALF * HALF * b = x
  <2> p \in Nat /\ q \in Nat
    BY <1>1, <1>2, <1>3
  <2> QED  BY <1>1, <1>2, <1>3, Together
<1> QED  BY <1>4, <1>6, <1>7

GateType ==
  [offset0 : 0 .. (HALF - 1), offset1 : 0 .. (HALF - 1),
   offset2 : 0 .. (HALF * HALF - 1), seg : Nat]

LEMMA GateTyped ==
  ASSUME NEW x \in 0 .. (HALF * HALF * HALF * HALF - 1)
  PROVE  arch_idt_set_entry(x) \in GateType
<1> DEFINE a == x \div HALF
           m == HALF * HALF
           c == x \div m
           p == x % HALF
           q == a % HALF
           b == a \div HALF
<1>1. HALF \in Nat \ {0}
  BY ExceptionsAssumption
<1>2. m \in Nat \ {0} /\ HALF * HALF * HALF * HALF = m * m
  BY <1>1
<1>3. HALF * HALF * HALF * HALF \in Nat
  BY <1>1
<1>4. x \in Nat /\ x < m * m
  BY <1>2, <1>3
<1>0. Divided(x, HALF, a, p) /\ Divided(a, HALF, b, q) /\ c = x \div m
  BY DEF Divided
<1>8. arch_idt_set_entry(x) = [offset0 |-> p, offset1 |-> q, offset2 |-> c, seg |-> 8]
  BY DEF arch_idt_set_entry
<1> HIDE DEF a, b, c, p, q
<1>5. a \in Nat /\ p \in 0 .. (HALF - 1)
  BY <1>0, <1>1, <1>4, Quotient DEF Digits
<1>6. q \in 0 .. (HALF - 1)
  BY <1>0, <1>1, <1>5, Quotient DEF Digits
<1>7. c \in 0 .. (m - 1)
  <2> HIDE DEF m
  <2> QED  BY <1>0, <1>2, <1>4, Highest
<1> QED  BY <1>5, <1>6, <1>7, <1>8 DEF GateType, m

-----------------------------------------------------------------------------
(***************************************************************************)
(* The stack.                                                              *)
(***************************************************************************)
LEMMA LayoutLength == Len(RegsLayout) = 23 /\ DOMAIN RegsLayout = 1 .. 23
BY DEF RegsLayout

LEMMA LayoutDistinct ==
  \A i, j \in 1 .. 23 : RegsLayout[i] = RegsLayout[j] => i = j
BY DEF RegsLayout

LEMMA PushOrder ==
  /\ Len(Pushed) = 15 /\ DOMAIN Pushed = 1 .. 15
  /\ \A i \in 1 .. 15 : Pushed[i] = RegsLayout[17 - i]
<1>1. Len(Pushed) = 15 /\ DOMAIN Pushed = 1 .. 15
  BY DEF Pushed
<1>2. \A i \in 1 .. 15 : Pushed[i] = RegsLayout[17 - i]
  BY DEF Pushed, RegsLayout
<1> QED BY <1>1, <1>2

LEMMA PopOrder ==
  /\ Len(Popped) = 15 /\ DOMAIN Popped = 1 .. 15
  /\ \A i \in 1 .. 15 : Popped[i] = RegsLayout[i + 1]
<1>1. Len(Popped) = 15 /\ DOMAIN Popped = 1 .. 15
  BY DEF Popped
<1>2. \A i \in 1 .. 15 : Popped[i] = RegsLayout[i + 1]
  BY DEF Popped, RegsLayout
<1> QED BY <1>1, <1>2

\* The words of a register's name and of a number.
LEMMA WordsAre ==
  /\ \A d \in Nat : \A f \in Registers \cup {"errCode"} : << f, d >> \in Word
  /\ \A v \in Nat : Number(v) \in Word
BY DEF Word, Number

LEMMA RegistersAre ==
  \A i \in 1 .. 23 : RegsLayout[i] \in Registers \/ i \in {17, 18}
BY LayoutLength DEF Registers, ToSet, RegsLayout

\* The word of struct regs' field f after the exception of vector v in
\* context d.
Code(v, d) == IF v \in HasErrorCode THEN << "errCode", d >> ELSE Number(0)

WordAt(f, v, d) ==
  IF f = "intn" THEN Number(v) ELSE IF f = "errCode" THEN Code(v, d) ELSE << f, d >>

\* k words of struct regs, on top of its last n ones.
Words(w, n, k, v, d) ==
  /\ w \in Seq(Word) /\ Len(w) = k
  /\ \A i \in 1 .. k : w[i] = WordAt(RegsLayout[24 - (n + i)], v, d)

LEMMA WordTyped ==
  ASSUME NEW v \in Nat, NEW d \in Nat, NEW i \in 1 .. 23
  PROVE  WordAt(RegsLayout[i], v, d) \in Word
<1> DEFINE f == RegsLayout[i]
<1>1. f \in Registers \cup {"intn", "errCode"}
  BY LayoutLength DEF Registers, ToSet
<1> HIDE DEF f
<1>2. 0 \in Nat
  OBVIOUS
<1> QED  BY <1>1, <1>2, WordsAre DEF WordAt, Code, f

\* Words are pushed on top of others ...
LEMMA PushedOn ==
  ASSUME NEW fr, NEW n \in Nat, NEW w, NEW k \in Nat, NEW v, NEW d,
         Words(fr, 0, n, v, d), Words(w, n, k, v, d)
  PROVE  Words(fr \o w, 0, n + k, v, d)
<1> DEFINE t == fr \o w
<1>1. /\ fr \in Seq(Word) /\ Len(fr) = n
      /\ \A i \in 1 .. n : fr[i] = WordAt(RegsLayout[24 - (0 + i)], v, d)
  BY DEF Words
<1>2. /\ w \in Seq(Word) /\ Len(w) = k
      /\ \A i \in 1 .. k : w[i] = WordAt(RegsLayout[24 - (n + i)], v, d)
  BY DEF Words
<1>3. t \in Seq(Word) /\ Len(t) = n + k
  <2>1. fr \in Seq(Word) /\ w \in Seq(Word) /\ Len(fr) = n /\ Len(w) = k
    BY <1>1, <1>2
  <2> QED  BY <2>1
<1>4. ASSUME NEW i \in 1 .. (n + k) PROVE t[i] = WordAt(RegsLayout[24 - (0 + i)], v, d)
  <2>1. CASE i <= n
    <3>1. i \in 1 .. n /\ t[i] = fr[i]
      BY <1>1, <1>2, <2>1
    <3> QED  BY <1>1, <3>1
  <2>2. CASE i > n
    <3>1. i - n \in 1 .. k /\ 24 - (n + (i - n)) = 24 - (0 + i)
      BY <2>2
    <3>2. t[i] = w[i - n]
      BY <1>1, <1>2, <2>2
    <3> QED  BY <1>2, <3>1, <3>2
  <2>3. i <= n \/ i > n
    OBVIOUS
  <2> QED  BY <2>1, <2>2, <2>3
<1> QED  BY <1>3, <1>4 DEF Words

\* ... a single one ...
LEMMA OneWord ==
  ASSUME NEW x \in Word, NEW n \in Nat, NEW v, NEW d, x = WordAt(RegsLayout[23 - n], v, d)
  PROVE  Words(<< x >>, n, 1, v, d)
<1>1. << x >> \in Seq(Word) /\ Len(<< x >>) = 1 /\ << x >>[1] = x
  OBVIOUS
<1>2. 24 - (n + 1) = 23 - n
  OBVIOUS
<1>3. \A i \in 1 .. 1 : i = 1
  OBVIOUS
<1> QED  BY <1>1, <1>2, <1>3 DEF Words

\* ... or some registers.
Fit(names, n, k) ==
  /\ DOMAIN names = 1 .. k
  /\ \A i \in 1 .. k : /\ names[i] = RegsLayout[24 - (n + i)]
                        /\ names[i] \notin {"intn", "errCode"}

LEMMA RegisterWords ==
  ASSUME NEW n \in Nat, NEW k \in Nat, n + k <= 23, NEW v \in Nat, NEW d \in Nat,
         NEW names, Fit(names, n, k)
  PROVE  Words(Values(names, d), n, k, v, d)
<1> DEFINE w == Values(names, d)
<1>0. /\ DOMAIN names = 1 .. k
      /\ \A i \in 1 .. k : /\ names[i] = RegsLayout[24 - (n + i)]
                            /\ names[i] \notin {"intn", "errCode"}
  BY DEF Fit
<1>1. w = [i \in 1 .. k |-> << names[i], d >>]
  BY <1>0 DEF Values
<1> HIDE DEF w
<1>2. ASSUME NEW i \in 1 .. k
      PROVE  w[i] = WordAt(RegsLayout[24 - (n + i)], v, d) /\ w[i] \in Word
  <2>1. w[i] = << names[i], d >>
    BY <1>1
  <2>2. w[i] = WordAt(RegsLayout[24 - (n + i)], v, d)
    BY <1>0, <2>1 DEF WordAt
  <2>3. 24 - (n + i) \in 1 .. 23
    OBVIOUS
  <2> QED  BY <2>2, <2>3, WordTyped
<1>3. w \in [1 .. k -> Word]
  BY <1>1, <1>2
<1>4. w \in Seq(Word) /\ Len(w) = k
  BY <1>3
<1> QED  BY <1>2, <1>4 DEF Words, w

LEMMA CPUFrameIs ==
  ASSUME NEW v \in Vector, NEW d \in Nat
  PROVE  IF v \in HasErrorCode THEN Words(CPUFrame(v, d), 0, 6, v, d)
                               ELSE Words(CPUFrame(v, d), 0, 5, v, d)
<1> DEFINE names == << "ss", "rsp", "rflags", "cs", "rip" >>
           five == Values(names, d)
<1>1. DOMAIN names = 1 .. 5
  OBVIOUS
<1>2. \A i \in 1 .. 5 : names[i] = RegsLayout[24 - (0 + i)] /\ names[i] \notin {"intn", "errCode"}
  BY DEF RegsLayout
<1>3. RegsLayout[18] = "errCode" /\ v \in Nat
  BY DEF RegsLayout, Vector
<1>4. CPUFrame(v, d) = five \o (IF v \in HasErrorCode THEN << << "errCode", d >> >> ELSE << >>)
  BY DEF CPUFrame
<1>a. Fit(names, 0, 5)
  BY <1>1, <1>2 DEF Fit
<1> HIDE DEF names
<1>5. Words(five, 0, 5, v, d)
  BY <1>3, <1>a, RegisterWords
<1> HIDE DEF five
<1>6. CASE v \in HasErrorCode
  <2>1. CPUFrame(v, d) = five \o << << "errCode", d >> >>
    BY <1>4, <1>6
  <2> DEFINE x == << "errCode", d >>
  <2>2. x = WordAt(RegsLayout[18], v, d) /\ x \in Word
    BY <1>3, <1>6, WordsAre DEF WordAt, Code
  <2> HIDE DEF x
  <2>3. Words(<< x >>, 5, 1, v, d)
    BY <2>2, OneWord
  <2>4. Words(five \o << x >>, 0, 6, v, d)
    BY <1>5, <2>3, PushedOn
  <2> QED  BY <1>6, <2>1, <2>4 DEF x
<1>7. CASE v \notin HasErrorCode
  <2>1. CPUFrame(v, d) = five \o << >>
    BY <1>4, <1>7
  <2>2. five \o << >> = five
    BY <1>5 DEF Words
  <2> QED  BY <1>5, <1>7, <2>1, <2>2
<1> QED  BY <1>6, <1>7

LEMMA StubPushes ==
  ASSUME NEW v \in Vectors, NEW d \in Nat, CodesAgree, NEW fr,
         IF v \in HasErrorCode THEN Words(fr, 0, 6, v, d) ELSE Words(fr, 0, 5, v, d)
  PROVE  Words(fr \o (IF v \in NoFakeCode THEN << >> ELSE << Number(0) >>)
                  \o << Number(v) >>, 0, 7, v, d)
<1>1. RegsLayout[18] = "errCode" /\ RegsLayout[17] = "intn" /\ v \in Nat
  BY ExceptionsAssumption DEF RegsLayout, Vector
<1>2. Number(v) \in Word /\ Number(0) \in Word
  BY <1>1, WordsAre
<1>3. Number(v) = WordAt(RegsLayout[17], v, d)
  BY <1>1 DEF WordAt
<1> DEFINE one == fr \o (IF v \in NoFakeCode THEN << >> ELSE << Number(0) >>)
<1>4. Words(one, 0, 6, v, d)
  <2>1. CASE v \in HasErrorCode
    <3>1. v \in NoFakeCode /\ Words(fr, 0, 6, v, d)
      BY <2>1 DEF CodesAgree
    <3>2. fr \o << >> = fr
      BY <3>1 DEF Words
    <3> QED  BY <3>1, <3>2
  <2>2. CASE v \notin HasErrorCode
    <3>1. v \notin NoFakeCode /\ Words(fr, 0, 5, v, d)
      BY <2>2 DEF CodesAgree
    <3> DEFINE x == Number(0)
    <3>2. x = WordAt(RegsLayout[18], v, d) /\ x \in Word
      BY <1>1, <1>2, <2>2 DEF WordAt, Code
    <3>3. one = fr \o << x >>
      BY <3>1
    <3> HIDE DEF x, one
    <3>4. Words(<< x >>, 5, 1, v, d)
      BY <3>2, OneWord
    <3>5. Words(fr \o << x >>, 0, 6, v, d)
      BY <3>1, <3>4, PushedOn
    <3> QED  BY <3>3, <3>5
  <2> QED  BY <2>1, <2>2
<1> DEFINE x == Number(v)
<1> HIDE DEF one, x
<1>5. Words(<< x >>, 6, 1, v, d)
  BY <1>2, <1>3, OneWord DEF x
<1>6. Words(one \o << x >>, 0, 7, v, d)
  BY <1>4, <1>5, PushedOn
<1> QED  BY <1>6 DEF one, x

LEMMA CommonPushes ==
  ASSUME NEW v \in Nat, NEW d \in Nat, NEW fr, Words(fr, 0, 7, v, d)
  PROVE  Words(fr \o Values(Pushed, d) \o Values(<< "ds" >>, d), 0, 23, v, d)
<1>1. \A i \in 1 .. 16 : RegsLayout[17 - i] \notin {"intn", "errCode"}
  BY DEF RegsLayout
<1>2. Words(Values(Pushed, d), 7, 15, v, d)
  <2>1. ASSUME NEW i \in 1 .. 15
        PROVE  Pushed[i] = RegsLayout[24 - (7 + i)] /\ Pushed[i] \notin {"intn", "errCode"}
    <3>1. 24 - (7 + i) = 17 - i
      OBVIOUS
    <3> QED  BY <1>1, <3>1, PushOrder
  <2>2. Fit(Pushed, 7, 15)
    BY <2>1, PushOrder DEF Fit
  <2> QED  BY <2>2, RegisterWords
<1> DEFINE ds == << "ds" >>
<1>3. DOMAIN ds = 1 .. 1 /\ ds[1] = "ds" /\ RegsLayout[1] = "ds"
  BY DEF RegsLayout
<1> HIDE DEF ds
<1>4. Words(Values(ds, d), 22, 1, v, d)
  <2>1. ASSUME NEW i \in 1 .. 1
        PROVE  ds[i] = RegsLayout[24 - (22 + i)] /\ ds[i] \notin {"intn", "errCode"}
    BY <1>3
  <2>2. Fit(ds, 22, 1)
    BY <1>3, <2>1 DEF Fit
  <2> QED  BY <2>2, RegisterWords
<1>5. Words(fr \o Values(Pushed, d), 0, 22, v, d)
  BY <1>2, PushedOn
<1>6. Words((fr \o Values(Pushed, d)) \o Values(ds, d), 0, 23, v, d)
  BY <1>4, <1>5, PushedOn
<1> QED  BY <1>6 DEF ds

\* The handler finds every field of struct regs in its place ...
LEMMA FieldsFound ==
  ASSUME NEW fr, NEW v, NEW d, Words(fr, 0, 23, v, d), NEW f \in ToSet(RegsLayout)
  PROVE  FieldOf(fr, f) = WordAt(f, v, d)
<1> PICK k \in 1 .. 23 : RegsLayout[k] = f
  BY LayoutLength DEF ToSet
<1> DEFINE i == CHOOSE j \in DOMAIN RegsLayout : RegsLayout[j] = f
<1>1. i = k
  <2>1. i \in 1 .. 23 /\ RegsLayout[i] = f
    BY LayoutLength
  <2> QED  BY <2>1, LayoutDistinct
<1>2. FieldOf(fr, f) = fr[Len(fr) + 1 - i]
  BY DEF FieldOf
<1> HIDE DEF i
<1>3. Len(fr) = 23 /\ \A j \in 1 .. 23 : fr[j] = WordAt(RegsLayout[24 - (0 + j)], v, d)
  BY DEF Words
<1>4. Len(fr) + 1 - i = 24 - k /\ 24 - k \in 1 .. 23 /\ 24 - (0 + (24 - k)) = k
  BY <1>1, <1>3
<1> QED  BY <1>2, <1>3, <1>4

\* ... and the pops and iretq would give the registers back.
LEMMA Unwound ==
  ASSUME NEW fr, NEW v, NEW d, Words(fr, 0, 23, v, d), NEW r \in Registers
  PROVE  Unwind(fr)[r] = << r, d >>
<1> PICK k \in 1 .. 23 : RegsLayout[k] = r
  BY LayoutLength DEF Registers, ToSet
<1>1. r \notin {"intn", "errCode"}
  BY DEF Registers
<1>2. k \notin {17, 18}
  BY <1>1 DEF RegsLayout
<1>3. Len(fr) = 23 /\ \A j \in 1 .. 23 : fr[j] = WordAt(RegsLayout[24 - (0 + j)], v, d)
  BY DEF Words
<1> DEFINE Top(j) == fr[Len(fr) + 1 - j]
<1>4. Top(k) = << r, d >>
  <2>1. Len(fr) + 1 - k = 24 - k /\ 24 - k \in 1 .. 23 /\ 24 - (0 + (24 - k)) = k
    BY <1>3
  <2>2. Top(k) = WordAt(r, v, d)
    BY <1>3, <2>1
  <2> QED  BY <1>1, <2>2 DEF WordAt
<1> DEFINE five == << "rip", "cs", "rflags", "rsp", "ss" >>
           p == CHOOSE j \in DOMAIN Popped : Popped[j] = r
           q == CHOOSE j \in 1 .. 5 : five[j] = r
<1>5. Unwind(fr)[r] = CASE r = "ds" -> Top(1)
                        [] r \in ToSet(Popped) -> Top(1 + p)
                        [] OTHER -> Top(18 + q)
  BY DEF Unwind
<1>6. RegsLayout[1] = "ds" /\ \A j \in 1 .. 5 : five[j] = RegsLayout[18 + j]
  BY DEF RegsLayout
<1>7. r \in ToSet(Popped) <=> k \in 2 .. 16
  <2>1. ASSUME r \in ToSet(Popped) PROVE k \in 2 .. 16
    <3> PICK j \in 1 .. 15 : Popped[j] = r
      BY <2>1, PopOrder DEF ToSet
    <3>1. RegsLayout[j + 1] = RegsLayout[k] /\ j + 1 \in 1 .. 23
      BY PopOrder
    <3>2. j + 1 = k
      BY <3>1, LayoutDistinct
    <3> QED  BY <3>2
  <2>2. ASSUME k \in 2 .. 16 PROVE r \in ToSet(Popped)
    <3>1. k - 1 \in 1 .. 15 /\ (k - 1) + 1 = k
      BY <2>2
    <3>2. Popped[k - 1] = r
      BY <3>1, PopOrder
    <3> QED  BY <3>1, <3>2, PopOrder DEF ToSet
  <2> QED  BY <2>1, <2>2
<1>8. r = "ds" <=> k = 1
  <2>1. r = RegsLayout[1] => k = 1
    BY LayoutDistinct
  <2> QED  BY <1>6, <2>1
<1> HIDE DEF Top, five
<1>9. CASE k = 1
  <2>1. Unwind(fr)[r] = Top(1)
    BY <1>5, <1>7, <1>8, <1>9
  <2> QED  BY <1>4, <1>9, <2>1
<1>10. CASE k \in 2 .. 16
  <2>1. p \in 1 .. 15 /\ Popped[p] = r
    <3>1. \E j \in 1 .. 15 : Popped[j] = r
      BY <1>7, <1>10, PopOrder DEF ToSet
    <3> QED  BY <3>1, PopOrder
  <2>2. Unwind(fr)[r] = Top(1 + p)
    BY <1>5, <1>7, <1>8, <1>10
  <2> HIDE DEF p
  <2>3. RegsLayout[p + 1] = RegsLayout[k] /\ p + 1 \in 1 .. 23
    BY <2>1, PopOrder
  <2>4. p + 1 = k /\ 1 + p = p + 1
    BY <2>1, <2>3, LayoutDistinct
  <2> QED  BY <1>4, <2>2, <2>4
<1>11. CASE k \in 19 .. 23
  <2>1. q \in 1 .. 5 /\ five[q] = r
    <3>1. k - 18 \in 1 .. 5 /\ 18 + (k - 18) = k
      BY <1>11
    <3>2. five[k - 18] = r
      BY <1>6, <3>1
    <3> QED  BY <3>1, <3>2
  <2>2. Unwind(fr)[r] = Top(18 + q)
    BY <1>5, <1>7, <1>8, <1>11
  <2> HIDE DEF q
  <2>3. RegsLayout[18 + q] = RegsLayout[k] /\ 18 + q \in 1 .. 23
    BY <1>6, <2>1
  <2>4. 18 + q = k
    BY <2>3, LayoutDistinct
  <2> QED  BY <1>4, <2>2, <2>4
<1> QED  BY <1>2, <1>9, <1>10, <1>11

-----------------------------------------------------------------------------
(***************************************************************************)
(* The invariant.                                                          *)
(***************************************************************************)
InHandler == {"stub", "common", "handler", "report"}

IDTInv ==
  /\ DOMAIN idt \in {{}, Vector}
  /\ \A v \in DOMAIN idt : idt[v] = arch_idt_set_entry(StubAddr[v])
  /\ pc \in InHandler \cup {"run", "halt"} => DOMAIN idt = Vector

\* The words of struct regs that the CPU, the stub and exception_common have
\* pushed so far belong to the last exception and the code it interrupted.
StackAt(n) == Words(frame, 0, n, stub, Depth - 1)

FrameInv ==
  /\ pc \in InHandler => Depth > 0 /\ stub = raised[Depth] /\ stub \in Vectors
  /\ pc = "stub" => IF stub \in HasErrorCode THEN StackAt(6) ELSE StackAt(5)
  /\ pc = "common" => StackAt(7)
  /\ pc \in {"handler", "report"} => StackAt(23)
  /\ pc = "report" => report = [f \in ToSet(RegsLayout) |-> FieldOf(frame, f)]

\* Every gate leads to the stub of its own vector, if anywhere.
LEMMA GateLeads ==
  ASSUME IDTInv, NEW v \in Vector, DOMAIN idt = Vector, \E s \in Vector : LeadsTo(idt[v], s)
  PROVE  (CHOOSE s \in Vector : LeadsTo(idt[v], s)) = v
<1>1. StubAddr[v] \in Nat
  BY ExceptionsAssumption
<1>2. GateTarget(idt[v]) = StubAddr[v]
  BY <1>1, GateOfStub DEF IDTInv
<1>3. \A s \in Vector : LeadsTo(idt[v], s) => s = v
  BY <1>2, ExceptionsAssumption DEF LeadsTo
<1> HIDE DEF LeadsTo
<1> QED  BY <1>3

TypeInv ==
  /\ pc \in {"start", "early", "run", "stub", "common", "handler", "report",
            "halt", "reset"}
  /\ gdt \in Seq([access : 0 .. 255, flags : 0 .. 15])
  /\ tr \in Nat
  /\ raised \in Seq(Vectors) /\ Len(raised) <= MaxDepth
  /\ stub \in Vector
  /\ frame \in Seq(Word)
  /\ DOMAIN report \in {{}, ToSet(RegsLayout)}
  /\ \A f \in DOMAIN report : report[f] \in Word

LEMMA TypeFrom ==
  ASSUME TypeInv, IDTInv
  PROVE  TypeOK
<1>1. ASSUME NEW v \in DOMAIN idt PROVE idt[v] \in GateType
  <2>1. v \in Vector /\ idt[v] = arch_idt_set_entry(StubAddr[v])
    BY DEF IDTInv
  <2>2. StubAddr[v] \in 0 .. (HALF * HALF * HALF * HALF - 1)
    BY <2>1, ExceptionsAssumption
  <2> QED  BY <2>1, <2>2, GateTyped
<1> QED  BY <1>1 DEF TypeInv, IDTInv, TypeOK, GateType

Inv == TypeInv /\ IDTInv /\ FrameInv

LEMMA Initially ==
  ASSUME Init
  PROVE  Inv
<1>1. DOMAIN idt = {} /\ DOMAIN report = {}
  BY DEF Init
<1>2. IDTInv
  BY <1>1 DEF Init, IDTInv, InHandler
<1>3. TypeInv
  <2>1. gdt \in Seq([access : 0 .. 255, flags : 0 .. 15]) /\ raised \in Seq(Vectors)
        /\ frame \in Seq(Word) /\ Len(raised) = 0
    BY DEF Init
  <2> QED  BY <1>1, <2>1, ExceptionsAssumption DEF Init, TypeInv, Vector
<1>4. FrameInv
  BY DEF Init, FrameInv, InHandler
<1> QED  BY <1>2, <1>3, <1>4 DEF Inv

LEMMA DescriptorsTyped == Descriptors \in Seq([access : 0 .. 255, flags : 0 .. 15])
<1> DEFINE E == [access : 0 .. 255, flags : 0 .. 15]
<1>1. \A a \in 0 .. 255, f \in 0 .. 15 : gdt_set_entry(a, f) \in E
  BY DEF gdt_set_entry
<1> HIDE DEF E
<1>2. /\ gdt_set_entry(0, 0) \in E /\ gdt_set_entry(154, 10) \in E
      /\ gdt_set_entry(146, 12) \in E /\ gdt_set_entry(250, 10) \in E
      /\ gdt_set_entry(242, 12) \in E /\ gdt_set_entry(233, 0) \in E
  BY <1>1
<1>3. Descriptors \in Seq(E)
  BY <1>2 DEF Descriptors
<1> QED  BY <1>3 DEF E

\* What is true of a state in which no exception is being handled.
LEMMA NoFrame ==
  ASSUME pc \notin InHandler
  PROVE  FrameInv
BY DEF FrameInv, InHandler

LEMMA RaiseKeeps ==
  ASSUME Inv, NEW v \in Vectors, Raise(v), CodesAgree
  PROVE  Inv'
<1>0. v \in Vector /\ Vectors \subseteq Vector /\ MaxDepth \in Nat
  BY ExceptionsAssumption
<1>1. TypeInv /\ IDTInv /\ DOMAIN idt = Vector
  BY DEF Inv, IDTInv, Raise, InHandler
<1>2. raised' = Append(raised, v) /\ UNCHANGED <<gdt, tr, idt, report>> /\ Depth < MaxDepth
  BY DEF Raise
<1>3. raised' \in Seq(Vectors) /\ Len(raised') = Depth + 1 /\ Depth \in Nat
      /\ raised'[Depth + 1] = v
  BY <1>1, <1>2 DEF TypeInv, Depth
<1>4. Len(raised') <= MaxDepth
  BY <1>0, <1>2, <1>3
<1>5. IDTInv'
  BY <1>1, <1>2 DEF IDTInv
<1>6. CASE \E s \in Vector : LeadsTo(idt[v], s)
  <2>1. stub' = (CHOOSE s \in Vector : LeadsTo(idt[v], s)) /\ frame' = CPUFrame(v, Depth)
        /\ pc' = "stub"
    BY <1>6 DEF Raise
  <2>2. stub' = v
    BY <1>0, <1>1, <1>6, <2>1, GateLeads
  <2>3. IF v \in HasErrorCode THEN Words(frame', 0, 6, v, Depth) ELSE Words(frame', 0, 5, v, Depth)
    BY <1>0, <1>3, <2>1, CPUFrameIs
  <2>4. frame' \in Seq(Word)
    BY <2>3 DEF Words
  <2>5. TypeInv'
    BY <1>0, <1>1, <1>2, <1>3, <1>4, <2>1, <2>2, <2>4 DEF TypeInv
  <2>6. Depth' - 1 = Depth /\ Depth' > 0 /\ raised'[Depth'] = v
    BY <1>3 DEF Depth
  <2>7. FrameInv'
    BY <2>1, <2>2, <2>3, <2>6 DEF FrameInv, StackAt, InHandler
  <2> QED  BY <1>5, <2>5, <2>7 DEF Inv
<1>7. CASE ~ \E s \in Vector : LeadsTo(idt[v], s)
  <2>1. pc' = "reset" /\ UNCHANGED <<stub, frame>>
    BY <1>7 DEF Raise
  <2>2. TypeInv'
    BY <1>1, <1>2, <1>3, <1>4, <2>1 DEF TypeInv
  <2>3. FrameInv'
    BY <2>1 DEF FrameInv, InHandler
  <2> QED  BY <1>5, <2>2, <2>3 DEF Inv
<1> QED  BY <1>6, <1>7

LEMMA IsrKeeps ==
  ASSUME Inv, isr, CodesAgree
  PROVE  Inv'
<1>1. /\ pc = "stub" /\ pc' = "common" /\ UNCHANGED <<gdt, tr, idt, raised, stub, report>>
      /\ frame' = frame \o (IF stub \in NoFakeCode THEN << >> ELSE << Number(0) >>)
                        \o << Number(stub) >>
  BY DEF isr
<1>2. Depth > 0 /\ stub = raised[Depth] /\ stub \in Vectors
      /\ IF stub \in HasErrorCode THEN StackAt(6) ELSE StackAt(5)
  BY <1>1 DEF Inv, FrameInv, InHandler
<1>3. Depth - 1 \in Nat
  BY <1>2 DEF Inv, TypeInv, Depth
<1>4. Words(frame', 0, 7, stub, Depth - 1)
  BY <1>1, <1>2, <1>3, StubPushes DEF StackAt
<1>5. frame' \in Seq(Word)
  BY <1>4 DEF Words
<1>6. TypeInv'
  BY <1>1, <1>5 DEF Inv, TypeInv
<1>7. IDTInv'
  BY <1>1 DEF Inv, IDTInv, InHandler
<1>8. FrameInv'
  BY <1>1, <1>2, <1>4 DEF FrameInv, StackAt, InHandler, Depth
<1> QED  BY <1>6, <1>7, <1>8 DEF Inv

LEMMA CommonKeeps ==
  ASSUME Inv, exception_common
  PROVE  Inv'
<1>1. /\ pc = "common" /\ pc' = "handler" /\ UNCHANGED <<gdt, tr, idt, raised, stub, report>>
      /\ frame' = frame \o Values(Pushed, Depth - 1) \o Values(<< "ds" >>, Depth - 1)
  BY DEF exception_common
<1>2. Depth > 0 /\ stub = raised[Depth] /\ stub \in Vectors /\ StackAt(7)
  BY <1>1 DEF Inv, FrameInv, InHandler
<1>3. Depth - 1 \in Nat /\ stub \in Nat
  <2>1. Depth - 1 \in Nat
    BY <1>2 DEF Inv, TypeInv, Depth
  <2>2. stub \in Nat
    BY <1>2, ExceptionsAssumption DEF Vector
  <2> QED  BY <2>1, <2>2
<1>4. Words(frame', 0, 23, stub, Depth - 1)
  BY <1>1, <1>2, <1>3, CommonPushes DEF StackAt
<1>5. frame' \in Seq(Word)
  BY <1>4 DEF Words
<1>6. TypeInv'
  BY <1>1, <1>5 DEF Inv, TypeInv
<1>7. IDTInv'
  BY <1>1 DEF Inv, IDTInv, InHandler
<1>8. FrameInv'
  BY <1>1, <1>2, <1>4 DEF FrameInv, StackAt, InHandler, Depth
<1> QED  BY <1>6, <1>7, <1>8 DEF Inv

LEMMA HandlerKeeps ==
  ASSUME Inv, arch_exception_handler
  PROVE  Inv'
<1>1. /\ pc = "handler" /\ pc' = "report"
      /\ report' = [f \in ToSet(RegsLayout) |-> FieldOf(frame, f)]
      /\ UNCHANGED <<gdt, tr, idt, raised, stub, frame>>
  BY DEF arch_exception_handler
<1>2. Depth > 0 /\ stub = raised[Depth] /\ stub \in Vectors /\ StackAt(23)
  BY <1>1 DEF Inv, FrameInv, InHandler
<1>3. Depth - 1 \in Nat /\ stub \in Nat
  <2>1. Depth - 1 \in Nat
    BY <1>2 DEF Inv, TypeInv, Depth
  <2>2. stub \in Nat
    BY <1>2, ExceptionsAssumption DEF Vector
  <2> QED  BY <2>1, <2>2
<1>4. ASSUME NEW f \in ToSet(RegsLayout) PROVE FieldOf(frame, f) \in Word
  <2> PICK k \in 1 .. 23 : RegsLayout[k] = f
    BY LayoutLength DEF ToSet
  <2>1. FieldOf(frame, f) = WordAt(f, stub, Depth - 1)
    BY <1>2, FieldsFound DEF StackAt
  <2>2. WordAt(RegsLayout[k], stub, Depth - 1) \in Word
    BY <1>3, WordTyped
  <2> QED  BY <2>1, <2>2
<1>5. DOMAIN report' = ToSet(RegsLayout) /\ \A f \in DOMAIN report' : report'[f] \in Word
  BY <1>1, <1>4
<1>6. TypeInv'
  BY <1>1, <1>5 DEF Inv, TypeInv
<1>7. IDTInv'
  BY <1>1 DEF Inv, IDTInv, InHandler
<1>8. FrameInv'
  BY <1>1, <1>2 DEF FrameInv, StackAt, InHandler, Depth
<1> QED  BY <1>6, <1>7, <1>8 DEF Inv

\* Steps outside of handlers, and the last one of a handler.
LEMMA OthersKeep ==
  ASSUME Inv,
         arch_load_gdt \/ arch_interrupt_init \/ arch_halt \/ NoHandler \/ debug_panic
  PROVE  Inv'
<1>1. pc' \notin InHandler /\ UNCHANGED <<tr, raised, stub, frame, report>>
  BY DEF arch_load_gdt, arch_interrupt_init, arch_halt, NoHandler, debug_panic, InHandler
<1>2. gdt' \in Seq([access : 0 .. 255, flags : 0 .. 15])
  BY DescriptorsTyped
  DEF Inv, TypeInv, arch_load_gdt, arch_interrupt_init, arch_halt, NoHandler, debug_panic
<1>3. pc' \in {"early", "run", "halt", "reset"}
  BY DEF arch_load_gdt, arch_interrupt_init, arch_halt, NoHandler, debug_panic
<1>4. TypeInv'
  BY <1>1, <1>2, <1>3 DEF Inv, TypeInv
<1>5. FrameInv'
  BY <1>1 DEF FrameInv, InHandler
<1>6. IDTInv'
  <2>1. CASE arch_interrupt_init
    BY <2>1 DEF arch_interrupt_init, IDTInv
  <2>2. CASE arch_load_gdt \/ arch_halt \/ NoHandler \/ debug_panic
    <3>1. idt' = idt /\ (pc' \in {"early", "reset"} \/ pc \in {"run", "report"})
      BY <2>2 DEF arch_load_gdt, arch_halt, NoHandler, debug_panic
    <3> QED  BY <1>3, <3>1 DEF Inv, IDTInv, InHandler
  <2> QED  BY <2>1, <2>2
<1> QED  BY <1>4, <1>5, <1>6 DEF Inv

LEMMA StepKeeps ==
  ASSUME Inv, [Next]_vars, CodesAgree
  PROVE  Inv'
<1>1. CASE \E v \in Vectors : Raise(v)
  BY <1>1, RaiseKeeps
<1>2. CASE isr
  BY <1>2, IsrKeeps
<1>3. CASE exception_common
  BY <1>3, CommonKeeps
<1>4. CASE arch_exception_handler
  BY <1>4, HandlerKeeps
<1>5. CASE arch_load_gdt \/ arch_interrupt_init \/ arch_halt \/ NoHandler \/ debug_panic
  BY <1>5, OthersKeep
<1>6. CASE UNCHANGED vars
  BY <1>6 DEF vars, Inv, TypeInv, IDTInv, FrameInv, StackAt, Depth
<1> QED  BY <1>1, <1>2, <1>3, <1>4, <1>5, <1>6 DEF Next, Step, Stopped

-----------------------------------------------------------------------------
(***************************************************************************)
(* Theorems.                                                               *)
(***************************************************************************)

\* The stubs of interrupt.asm and exception_common leave the frame that
\* struct regs describes, whatever interrupts them.
THEOREM FrameInvariant == CodesAgree => (Spec => []Inv)
<1> SUFFICES ASSUME CodesAgree PROVE Spec => []Inv
  OBVIOUS
<1>1. Init => Inv
  BY Initially
<1>2. Inv /\ [Next]_vars => Inv'
  BY StepKeeps
<1> QED  BY <1>1, <1>2, PTL DEF Spec

\* The descriptor tables, the stack and the report keep their types; the gates
\* that arch_idt_set_entry writes fit into their fields.
THEOREM ExceptionTypes == CodesAgree => (Spec => []TypeOK)
<1> SUFFICES ASSUME CodesAgree PROVE Spec => []TypeOK
  OBVIOUS
<1>1. Inv => TypeOK
  BY TypeFrom DEF Inv
<1> QED  BY <1>1, FrameInvariant, PTL

\* debug_panic shows the vector and the registers of the code that the last
\* exception interrupted, and the code after the call of the handler in
\* exception_common would restore them.
THEOREM RegistersShown == CodesAgree => (Spec => []RegistersReported)
<1> SUFFICES ASSUME CodesAgree PROVE Spec => []RegistersReported
  OBVIOUS
<1>1. Inv => RegistersReported
  <2> SUFFICES ASSUME Inv, pc = "report"
               PROVE  /\ report["intn"] = Number(raised[Depth])
                      /\ \A r \in Registers : /\ report[r] = << r, Depth - 1 >>
                                              /\ Unwind(frame)[r] = << r, Depth - 1 >>
    BY DEF RegistersReported
  <2>1. Words(frame, 0, 23, stub, Depth - 1) /\ stub = raised[Depth]
        /\ report = [f \in ToSet(RegsLayout) |-> FieldOf(frame, f)]
    BY DEF Inv, FrameInv, InHandler, StackAt
  <2>2. "intn" \in ToSet(RegsLayout)
    <3>1. RegsLayout[17] = "intn"
      BY DEF RegsLayout
    <3> QED  BY <3>1, LayoutLength DEF ToSet
  <2>3. report["intn"] = Number(raised[Depth])
    <3>1. report["intn"] = WordAt("intn", stub, Depth - 1)
      BY <2>1, <2>2, FieldsFound
    <3> QED  BY <2>1, <3>1 DEF WordAt
  <2>4. ASSUME NEW r \in Registers
        PROVE  report[r] = << r, Depth - 1 >> /\ Unwind(frame)[r] = << r, Depth - 1 >>
    <3>1. r \in ToSet(RegsLayout) /\ r \notin {"intn", "errCode"}
      BY DEF Registers
    <3>2. report[r] = WordAt(r, stub, Depth - 1)
      BY <2>1, <3>1, FieldsFound
    <3>3. report[r] = << r, Depth - 1 >>
      BY <3>1, <3>2 DEF WordAt
    <3>4. Unwind(frame)[r] = << r, Depth - 1 >>
      BY <2>1, Unwound
    <3> QED  BY <3>3, <3>4
  <2> QED  BY <2>3, <2>4
<1> QED  BY <1>1, FrameInvariant, PTL

\* debug_panic shows the error code that the CPU has pushed, and the zero of
\* the stub where it pushes none.
THEOREM ErrorCodeShown == CodesAgree => (Spec => []ErrorCodeReported)
<1> SUFFICES ASSUME CodesAgree PROVE Spec => []ErrorCodeReported
  OBVIOUS
<1>1. Inv => ErrorCodeReported
  <2> SUFFICES ASSUME Inv, pc = "report"
               PROVE  report["errCode"] = IF raised[Depth] \in HasErrorCode
                                          THEN << "errCode", Depth - 1 >> ELSE Number(0)
    BY DEF ErrorCodeReported
  <2>1. Words(frame, 0, 23, stub, Depth - 1) /\ stub = raised[Depth]
        /\ report = [f \in ToSet(RegsLayout) |-> FieldOf(frame, f)]
    BY DEF Inv, FrameInv, InHandler, StackAt
  <2>2. "errCode" \in ToSet(RegsLayout)
    <3>1. RegsLayout[18] = "errCode"
      BY DEF RegsLayout
    <3> QED  BY <3>1, LayoutLength DEF ToSet
  <2>3. report["errCode"] = WordAt("errCode", stub, Depth - 1)
    BY <2>1, <2>2, FieldsFound
  <2> QED  BY <2>1, <2>3 DEF WordAt, Code
<1> QED  BY <1>1, FrameInvariant, PTL

=============================================================================
