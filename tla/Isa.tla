-------------------------------- MODULE Isa ---------------------------------
(***************************************************************************)
(* What the CPU core of src/examples/cpu_core.tbn promises a program: one  *)
(* instruction after the other, each of which sees all that the ones       *)
(* before it did to the registers and to memory.                           *)
(*                                                                         *)
(* A register holds a capability: a tag, metadata (hi) and an address      *)
(* (lo).  An integer is a capability without tag and metadata.  Memory is  *)
(* one place for a capability: two words and a tag.  Which instruction     *)
(* comes next is left open, as the program is.                             *)
(***************************************************************************)
EXTENDS CpuTypes

VARIABLES
    regs,     \* register -> capability
    mem,      \* the capability in memory
    csr,      \* one of the trap registers, mcause
    current   \* the instruction under way with its operand, or None

isaVars == <<regs, mem, csr, current>>

Init ==
    /\ regs = [r \in Registers |-> Null]
    /\ mem = Null /\ csr = Null
    /\ current = None

Issue(i) ==
    /\ current = None
    /\ current' = Decoded(i, regs)
    /\ UNCHANGED <<regs, mem, csr>>

(* The instruction under way, if it is op, is performed. *)
Perform(op) ==
    /\ current # None /\ current.op = op
    /\ current' = None

Loads(rd, cap) == regs' = Assign(regs, rd, cap)

Alu == Perform("alu") /\ Loads(current.rd, AluResult(current)) /\ UNCHANGED <<mem, csr>>

(* An instruction that derives a capability from the program counter's. *)
Derive == Perform("cap") /\ Loads(current.rd, Root) /\ UNCHANGED <<mem, csr>>

Csrrw == /\ Perform("csrrw")
         /\ Loads(current.rd, csr)
         /\ csr' = current.val
         /\ UNCHANGED mem

(* Branches, jumps without link, and the return from a trap. *)
Jump == Perform("jump") /\ UNCHANGED <<regs, mem, csr>>

Trap == Perform("trap") /\ csr' = IntCap(Cause) /\ UNCHANGED <<regs, mem>>

(* A load from a device, or from where nothing is, yields any word.  *)
LoadWord ==
    /\ Perform("lw")
    /\ \E w \in IF current.addr \in MemoryWords THEN {mem[current.addr]} ELSE Words :
            Loads(current.rd, IntCap(w))
    /\ UNCHANGED <<mem, csr>>

(* A store clears the tag, also when it is to a device: tags are indexed   *)
(* without the region of the address.                                      *)
StoreWord ==
    /\ Perform("sw")
    /\ mem' = [a \in DOMAIN mem |-> IF a = "tag" THEN 0
                                    ELSE IF a = current.addr THEN current.val.lo
                                    ELSE mem[a]]
    /\ UNCHANGED <<regs, csr>>

LoadCap == Perform("lc") /\ Loads(current.rd, mem) /\ UNCHANGED <<mem, csr>>

StoreCap == Perform("sc") /\ mem' = current.val /\ UNCHANGED <<regs, csr>>

Next ==
    \/ \E i \in Instructions : Issue(i)
    \/ Alu \/ Derive \/ Csrrw \/ Jump \/ Trap
    \/ LoadWord \/ StoreWord \/ LoadCap \/ StoreCap

Spec == Init /\ [][Next]_isaVars

=============================================================================
