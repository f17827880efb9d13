------------------------------- MODULE Exceptions -------------------------------
(***************************************************************************)
(* CPU exceptions on x86-64: the descriptor tables of                      *)
(* symphony/arch/x86_64/gdt.c and interrupt.c, the stubs of interrupt.asm, *)
(* and the handler that prints the registers and halts.                    *)
(*                                                                         *)
(* An exception may come at any time, also in the stub or the handler of   *)
(* an earlier one, which then is never finished: no handler returns.       *)
(* Context 0 is the kernel, context d the code that handles the d-th       *)
(* exception; <<"rax", d>> is what rax holds in context d.                 *)
(* Names ending in _mut are faulty variants of what follows them.          *)
(***************************************************************************)
EXTENDS Integers, Sequences, SequencesExt

CONSTANTS
  Vectors,   \* the exceptions that the CPU raises
  MaxDepth,  \* bound: exceptions on top of each other
  HALF,      \* number of values of a uint16_t
  StubAddr   \* address of the stub of each vector

Vector == 0 .. 31

ASSUME ExceptionsAssumption ==
  /\ Vectors \subseteq Vector
  /\ MaxDepth \in Nat
  /\ HALF \in Nat \ {0}
  /\ StubAddr \in [Vector -> 0 .. (HALF * HALF * HALF * HALF - 1)]
  /\ \A v, w \in Vector : StubAddr[v] = StubAddr[w] => v = w

VARIABLES
  pc,      \* where the CPU is
  gdt,     \* the segment descriptors, by slot of eight bytes
  tr,      \* the task register
  idt,     \* the gates of the exceptions
  raised,  \* the vectors of the exceptions so far
  stub,    \* the stub that the last one went to
  frame,   \* its stack, the top last
  report   \* what the handler printed last: the fields of struct regs

vars == <<pc, gdt, tr, idt, raised, stub, frame, report>>

Depth == Len(raised)

-----------------------------------------------------------------------------
(***************************************************************************)
(* The tables.                                                             *)
(***************************************************************************)
gdt_set_entry(access, flags) == [access |-> access, flags |-> flags]

\* The last descriptor, the TSS, takes two slots.
Descriptors ==
  << gdt_set_entry(0, 0),
     gdt_set_entry(154, 10), gdt_set_entry(146, 12),   \* 0x9A, 0x92
     gdt_set_entry(250, 10), gdt_set_entry(242, 12),   \* 0xFA, 0xF2
     gdt_set_entry(233, 0), gdt_set_entry(0, 0) >>     \* 0xE9

HasBit(x, b) == (x \div 2^b) % 2 = 1

\* A selector names a present 64-bit code segment of the kernel.
IsKernelCode(selector) ==
  LET i == selector \div 8 + 1 IN
  /\ i \in DOMAIN gdt
  /\ \A b \in {7, 4, 3} : HasBit(gdt[i].access, b)
  /\ \A b \in {6, 5} : ~HasBit(gdt[i].access, b)
  /\ HasBit(gdt[i].flags, 1)

arch_idt_set_entry_mut(isr) ==  \* the lowest part is not masked
  [offset0 |-> isr, offset1 |-> (isr \div HALF) % HALF,
   offset2 |-> isr \div (HALF * HALF), seg |-> 8]

arch_idt_set_entry_mut1(isr) ==  \* one shift is missing
  [offset0 |-> isr % HALF, offset1 |-> isr % HALF,
   offset2 |-> isr \div (HALF * HALF), seg |-> 8]

arch_idt_set_entry(isr) ==
  [offset0 |-> isr % HALF, offset1 |-> (isr \div HALF) % HALF,
   offset2 |-> isr \div (HALF * HALF), seg |-> 8]

\* How the CPU puts the address together.
GateTarget(g) == g.offset0 + HALF * g.offset1 + HALF * HALF * g.offset2

-----------------------------------------------------------------------------
(***************************************************************************)
(* The stack.                                                              *)
(***************************************************************************)
Pushed == << "rax", "rcx", "rdx", "rbx", "rbp", "rsi", "rdi", "r8", "r9", "r10",
             "r11", "r12", "r13", "r14", "r15" >>

Popped == << "r15", "r14", "r13", "r12", "r11", "r10", "r9", "r8", "rdi", "rsi",
             "rbp", "rbx", "rdx", "rcx", "rax" >>

\* struct regs, the lowest address first.
RegsLayout ==
  << "ds", "r15", "r14", "r13", "r12", "r11", "r10", "r9", "r8", "rdi", "rsi",
     "rbp", "rbx", "rdx", "rcx", "rax", "intn", "errCode", "rip", "cs",
     "rflags", "rsp", "ss" >>

Registers == ToSet(RegsLayout) \ {"intn", "errCode"}

Values(names, d) == [i \in DOMAIN names |-> << names[i], d >>]

Number(n) == << "number", n >>

\* The vectors for which the CPU pushes an error code.
HasErrorCode == {8, 10, 11, 12, 13, 14, 17, 21, 29, 30}

\* What the CPU pushes when context d is interrupted by vector v.
CPUFrame(v, d) ==
  Values(<< "ss", "rsp", "rflags", "cs", "rip" >>, d)
    \o (IF v \in HasErrorCode THEN << << "errCode", d >> >> ELSE << >>)

\* The stubs that rely on the CPU's error code.
NoFakeCode == {8, 10, 11, 12, 13, 14}

\* The word at struct regs' field f, of a frame with its top last.
FieldOf(fr, f) ==
  LET i == CHOOSE k \in DOMAIN RegsLayout : RegsLayout[k] = f
  IN  fr[Len(fr) + 1 - i]

\* The registers that the code after the call would restore, if the handler
\* returned: pop the data segment and the general registers, drop two words,
\* iretq.
Unwind(fr) ==
  LET n == Len(fr)
      Top(k) == fr[n + 1 - k]
  IN  [r \in Registers |->
         CASE r = "ds" -> Top(1)
           [] r \in ToSet(Popped) -> Top(1 + CHOOSE k \in DOMAIN Popped : Popped[k] = r)
           [] OTHER -> Top(18 + CHOOSE k \in 1 .. 5 :
                             << "rip", "cs", "rflags", "rsp", "ss" >>[k] = r)]

-----------------------------------------------------------------------------
Init ==
  /\ pc = "start"
  /\ gdt = << >> /\ tr = 0 /\ idt = [v \in {} |-> 0]
  /\ raised = << >> /\ stub = 0 /\ frame = << >>
  /\ report = [f \in {} |-> << "", 0 >>]

\* The far return at the end of the first asm block takes the word on top of
\* the stack for its target.  The compiler leaves the return address of
\* arch_load_gdt there, so the block returns to the caller, and the ltr that
\* follows it is not executed.
arch_load_gdt ==
  /\ pc = "start"
  /\ gdt' = Descriptors
  /\ pc' = "early"
  /\ UNCHANGED <<tr, idt, raised, stub, frame, report>>

arch_interrupt_init ==
  /\ pc = "early"
  /\ idt' = [v \in Vector |-> arch_idt_set_entry(StubAddr[v])]
  /\ pc' = "run"
  /\ UNCHANGED <<gdt, tr, raised, stub, frame, report>>

\* The kernel has nothing left to do.
arch_halt ==
  /\ pc = "run"
  /\ pc' = "halt"
  /\ UNCHANGED <<gdt, tr, idt, raised, stub, frame, report>>

\* An exception before there is an IDT: the machine resets.
NoHandler ==
  /\ pc \in {"start", "early"}
  /\ pc' = "reset"
  /\ UNCHANGED <<gdt, tr, idt, raised, stub, frame, report>>

\* A gate that leads to the start of stub s, in a code segment of the kernel.
LeadsTo(g, s) == GateTarget(g) = StubAddr[s] /\ IsKernelCode(g.seg)

\* The CPU delivers an exception; through a gate that leads nowhere it faults
\* again, and resets.  A halted CPU takes only the NMI.
Raise(v) ==
  /\ \/ pc \in {"run", "stub", "common", "handler", "report"}
     \/ pc = "halt" /\ v = 2
  /\ Depth < MaxDepth
  /\ raised' = Append(raised, v)
  /\ IF \E s \in Vector : LeadsTo(idt[v], s)
     THEN /\ stub' = CHOOSE s \in Vector : LeadsTo(idt[v], s)
          /\ frame' = CPUFrame(v, Depth)
          /\ pc' = "stub"
     ELSE pc' = "reset" /\ UNCHANGED <<stub, frame>>
  /\ UNCHANGED <<gdt, tr, idt, report>>

isr_mut ==  \* pushes its number twice
  /\ pc = "stub"
  /\ frame' = frame \o (IF stub \in NoFakeCode THEN << >> ELSE << Number(stub) >>)
                    \o << Number(stub) >>
  /\ pc' = "common"
  /\ UNCHANGED <<gdt, tr, idt, raised, stub, report>>

isr ==
  /\ pc = "stub"
  /\ frame' = frame \o (IF stub \in NoFakeCode THEN << >> ELSE << Number(0) >>)
                    \o << Number(stub) >>
  /\ pc' = "common"
  /\ UNCHANGED <<gdt, tr, idt, raised, stub, report>>

exception_common_mut ==  \* pushes the registers in the order of struct regs
  /\ pc = "common"
  /\ frame' = frame \o Values(Popped, Depth - 1) \o Values(<< "ds" >>, Depth - 1)
  /\ pc' = "handler"
  /\ UNCHANGED <<gdt, tr, idt, raised, stub, report>>

exception_common ==
  /\ pc = "common"
  /\ frame' = frame \o Values(Pushed, Depth - 1) \o Values(<< "ds" >>, Depth - 1)
  /\ pc' = "handler"
  /\ UNCHANGED <<gdt, tr, idt, raised, stub, report>>

\* debug_panic prints the fields of struct regs ...
arch_exception_handler ==
  /\ pc = "handler"
  /\ report' = [f \in ToSet(RegsLayout) |-> FieldOf(frame, f)]
  /\ pc' = "report"
  /\ UNCHANGED <<gdt, tr, idt, raised, stub, frame>>

\* ... and halts.
debug_panic ==
  /\ pc = "report"
  /\ pc' = "halt"
  /\ UNCHANGED <<gdt, tr, idt, raised, stub, frame, report>>

Stopped == pc \in {"halt", "reset"} /\ UNCHANGED vars

Step ==
  \/ isr \/ exception_common \/ arch_exception_handler \/ debug_panic

Next ==
  \/ arch_load_gdt \/ arch_interrupt_init \/ arch_halt \/ NoHandler
  \/ \E v \in Vectors : Raise(v)
  \/ Step
  \/ Stopped

Spec == Init /\ [][Next]_vars

\* The CPU keeps executing the stub and the handler.
FairSpec == Spec /\ WF_vars(Step)

-----------------------------------------------------------------------------
(***************************************************************************)
(* Properties.                                                             *)
(***************************************************************************)
Word == (Registers \cup {"errCode", "number"}) \X Nat

TypeOK ==
  /\ pc \in {"start", "early", "run", "stub", "common", "handler", "report",
            "halt", "reset"}
  /\ gdt \in Seq([access : 0 .. 255, flags : 0 .. 15])
  /\ tr \in Nat
  /\ DOMAIN idt \in {{}, Vector}
  /\ \A v \in DOMAIN idt :
       idt[v] \in [offset0 : 0 .. (HALF - 1), offset1 : 0 .. (HALF - 1),
                   offset2 : 0 .. (HALF * HALF - 1), seg : Nat]
  /\ raised \in Seq(Vectors) /\ Len(raised) <= MaxDepth
  /\ stub \in Vector
  /\ frame \in Seq(Word)
  /\ DOMAIN report \in {{}, ToSet(RegsLayout)}
  /\ \A f \in DOMAIN report : report[f] \in Word

\* The panic shows the vector and the registers of the code that the last
\* exception interrupted, not of the code that handles an earlier one, each
\* register in its own place; and if the handler returned, the interrupted
\* code would go on with them: pops mirror pushes, and iretq finds its frame.
RegistersReported ==
  pc = "report" =>
    /\ report["intn"] = Number(raised[Depth])
    /\ \A r \in Registers : /\ report[r] = << r, Depth - 1 >>
                            /\ Unwind(frame)[r] = << r, Depth - 1 >>

\* The panic shows the error code that the CPU delivered, and zero where
\* there is none (x86_64.h: "Exception error code.").
ErrorCodeReported ==
  pc = "report" =>
    report["errCode"] = IF raised[Depth] \in HasErrorCode
                        THEN << "errCode", Depth - 1 >> ELSE Number(0)

\* Once arch_load_gdt has returned, the task register names the TSS
\* (gdt.c: "Load the TSS").
TSSLoaded == pc # "start" => pc = "reset" \/ tr = 40  \* 0x28

\* Once there is an IDT, an exception ends in arch_halt, whatever happens
\* while it is reported: its gate leads to a stub through a selector that
\* gdt.c gives to a code segment of the kernel, and no handler returns.
ExceptionHalts == raised # << >> ~> pc = "halt"
=============================================================================
