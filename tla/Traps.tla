------------------------------- MODULE Traps -------------------------------
(***************************************************************************)
(* The way into the kernel and out of it (sys/i686/i686_cpu.c and .h): the *)
(* descriptor tables, the entry stubs of the exceptions, the common        *)
(* handler, and i686_userspace_return.  What is pushed, by the processor,  *)
(* by the stub and by the handler, is what the C code reads as a struct    *)
(* i686_context; what is popped is read from one.                          *)
(*                                                                         *)
(* A stack is the sequence of its words, the last one pushed first.        *)
(***************************************************************************)
EXTENDS Integers, Sequences, SequencesExt

\* struct i686_context, from the lowest address.
Fields == <<"gs", "fs", "es", "ds",
            "edi", "esi", "ebp", "esp", "ebx", "edx", "ecx", "eax",
            "int_no", "err_code",
            "eip", "cs", "eflags", "useresp", "ss">>

KernelEsp == 0
Registers == ToSet(Fields) \ {"int_no", "err_code", "useresp"}
Segments == {"gs", "fs", "es", "ds"}

Context(stack) ==
  [f \in ToSet(Fields) |-> stack[CHOOSE i \in DOMAIN Fields : Fields[i] = f]]
Words(context) == [i \in DOMAIN Fields |-> context[Fields[i]]]

-----------------------------------------------------------------------------
\* i686_setup_gdt
GDT == <<[kind |-> "null", dpl |-> 0],
         [kind |-> "code", dpl |-> 0], [kind |-> "data", dpl |-> 0],
         [kind |-> "code", dpl |-> 3], [kind |-> "data", dpl |-> 3],
         [kind |-> "tss", dpl |-> 0]>>

\* The descriptor that a selector names, and its requested privilege level.
Described(selector) == GDT[(selector \div 8) + 1]
Rpl(selector) == selector % 4

\* A selector the processor accepts as data segment, as stack or code segment
\* of a ring.
AsData(selector, ring) ==
  LET d == Described(selector)
  IN d.kind \in {"data", "code"} /\ d.dpl >= ring /\ d.dpl >= Rpl(selector)
AsStack(selector, ring) ==
  Described(selector) = [kind |-> "data", dpl |-> ring] /\ Rpl(selector) = ring
AsCode(selector, ring) ==
  Described(selector) = [kind |-> "code", dpl |-> ring] /\ Rpl(selector) = ring

Exceptions == 0 .. 20

\* The exceptions for which the processor pushes an error code.
PushesError(v) == v \in {8, 10, 11, 12, 13, 14, 17}

\* Mutant: the alignment check is taken for one without an error code.
Stub_alignment(v) == IF v \in {8} \cup (10 .. 14) THEN <<v>> ELSE <<v, 0>>

\* What the stub of a vector pushes: I686_INT_HANDLER_WERR and _NOERR, as
\* i686_setup_idt assigns them.
Stub(v) == IF v \in {8, 17} \cup (10 .. 14) THEN <<v>> ELSE <<v, 0>>

\* What the processor pushes; the kernel's stack from another ring.
Hardware(v, err, ring, regs) ==
  (IF PushesError(v) THEN <<err>> ELSE <<>>)
    \o <<regs["eip"], regs["cs"], regs["eflags"]>>
    \o (IF ring = 3 THEN <<regs["esp"], regs["ss"]>> ELSE <<>>)

\* i686_int_handler: pusha, then the segment registers.  The stack pointer that
\* pusha saves is the kernel's, and is no register of what was interrupted.
Saved(regs) ==
  <<regs["gs"], regs["fs"], regs["es"], regs["ds"],
    regs["edi"], regs["esi"], regs["ebp"], KernelEsp,
    regs["ebx"], regs["edx"], regs["ecx"], regs["eax"]>>

\* The stack when i686_int_entry is called, on top of what there was.
Frame(v, err, ring, regs, below) ==
  Saved(regs) \o Stub(v) \o Hardware(v, err, ring, regs) \o below

-----------------------------------------------------------------------------
\* i686_userspace_return: the register that each word goes to, "none"
\* where it is skipped.
Popped == <<"gs", "fs", "es", "ds",
            "edi", "esi", "ebp", "none", "ebx", "edx", "ecx", "eax",
            "none", "none",
            "eip", "cs", "eflags", "esp", "ss">>

i686_userspace_return(context) ==
  [r \in Registers |-> Words(context)[CHOOSE i \in DOMAIN Popped : Popped[i] = r]]

\* i686_thread_alloc: where a new thread starts.
NewContext ==
  [f \in ToSet(Fields) |-> CASE f \in Segments \cup {"ss"} -> 35   \* 0x23
                             [] f = "cs" -> 27                     \* 0x1B
                             [] f = "eip" -> 16777216              \* 0x1000000
                             [] OTHER -> 0]

\* Whether the processor accepts the registers on the way to ring 3.
Accepted(regs) ==
  /\ \A s \in Segments : AsData(regs[s], 3)
  /\ AsCode(regs["cs"], 3) /\ AsStack(regs["ss"], 3)
=============================================================================
