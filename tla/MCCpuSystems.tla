---------------------------- MODULE MCCpuSystems ----------------------------
(***************************************************************************)
(* Instances of CpuSystems for TLC: words of one bit, two registers, one   *)
(* place in memory.  CPU runs programs of all the instructions but loads   *)
(* to x0; Marie those whose way over the bus differs, without capability   *)
(* stores and loads to x0, with the UART for a device.                     *)
(***************************************************************************)
EXTENDS CpuSystems

Instr(op, rd, rs, imm, addr) == [op |-> op, rd |-> rd, rs |-> rs, imm |-> imm, addr |-> addr]

Loads(rd, addresses)  == {Instr("lw", rd, "x0", 0, a) : a \in addresses}
Stores(rs, addresses) == {Instr("sw", "x0", rs, 0, a) : a \in addresses}
LoadCap(rd)  == Instr("lc", rd, "x0", 0, "lo")
StoreCap(rs) == Instr("sc", "x0", rs, 0, "lo")

OnRegisters ==
    {Instr("alu", rd, rs, 1, "lo") : rd \in Registers, rs \in Registers}
        \union {Instr("cap", rd, "x0", 0, "lo") : rd \in Registers}
        \union {Instr("csrrw", rd, "x1", 0, "lo") : rd \in Registers}
        \union {Instr(op, "x0", "x0", 0, "lo") : op \in {"jump", "trap"}}

CoreInstructions ==
    OnRegisters \union Loads("x1", MemoryWords) \union Stores("x1", MemoryWords)
        \union {LoadCap("x1"), StoreCap("x1")}

BusInstructions ==
    Loads("x1", {"lo", "uart", Unmapped}) \union Stores("x1", {"lo", "uart"}) \union {LoadCap("x1")}

(* Programs that come upon a difference: they load to x0, store a          *)
(* capability over the bus.                                                *)
LoadsToZero ==
    OnRegisters \union Loads("x0", MemoryWords) \union Stores("x1", MemoryWords)
StoresOfCapabilities ==
    Loads("x1", {"hi"}) \union {Instr("cap", "x1", "x0", 0, "lo"), LoadCap("x1"), StoreCap("x1")}

=============================================================================
