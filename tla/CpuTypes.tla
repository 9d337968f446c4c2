------------------------------ MODULE CpuTypes ------------------------------
(***************************************************************************)
(* Capabilities and instructions of the CPU core (src/examples/            *)
(* cpu_core.tbn), down to what tells its pipeline's results apart.         *)
(***************************************************************************)
EXTENDS Naturals

CONSTANTS
    WordCount,     \* how many words there are: arithmetic is modulo WordCount
    Registers,     \* the registers, of which "x0" is wired to zero
    Devices,       \* what answers on the bus, besides memory
    Instructions   \* the instructions a program may consist of

Words       == 0 .. WordCount - 1
MemoryWords == {"lo", "hi"}
Unmapped    == "unmapped"
Addresses   == MemoryWords \union Devices \union {Unmapped}
None        == [op |-> "none"]

Capabilities == [tag : {0, 1}, hi : Words, lo : Words]

IntCap(w) == [tag |-> 0, hi |-> 0, lo |-> w]     \* cap_from_int
Null      == IntCap(0)
Root      == [tag |-> 1, hi |-> WordCount - 1, lo |-> WordCount - 1]
Cause     == WordCount - 1

(* rd and rs: the register written and the one read; addr: the address of  *)
(* a word (a capability has but one place). "trap" stands for ecall, an    *)
(* illegal instruction and a refused memory access.                        *)
InstructionSet ==
    [op : {"alu", "cap", "csrrw", "jump", "trap", "lw", "sw", "lc", "sc"},
     rd : Registers, rs : Registers, imm : Words, addr : Addresses]

ASSUME CpuAssumption ==
    /\ WordCount \in Nat \ {0, 1}
    /\ "x0" \in Registers
    /\ Devices \intersect (MemoryWords \union {"mem", Unmapped}) = {}
    /\ Instructions \subseteq InstructionSet

(* The value an instruction reads from its register. *)
Operand(i, regs) ==
    IF i.op \in {"alu", "sw"} THEN IntCap(regs[i.rs].lo)
    ELSE IF i.op \in {"csrrw", "sc"} THEN regs[i.rs]
    ELSE Null

(* An instruction with the value it has read (record Decoded).  Only that  *)
(* of "alu" adds its immediate: a load's or store's is in its address.     *)
Decoded(i, regs) ==
    [op |-> i.op, rd |-> i.rd, imm |-> IF i.op = "alu" THEN i.imm ELSE 0,
     addr |-> i.addr, val |-> Operand(i, regs)]

AluResult(d) == IntCap((d.val.lo + d.imm) % WordCount)

(* x0 is the null capability, whatever is written to it. *)
Assign(regs, rd, cap) == IF rd = "x0" THEN regs ELSE [regs EXCEPT ![rd] = cap]

=============================================================================
