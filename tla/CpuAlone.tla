------------------------------ MODULE CpuAlone ------------------------------
(***************************************************************************)
(* The CPU core wired to a data memory in its own clock domain             *)
(* (src/examples/rv32i.tbn and src/sim/tb_top.sv): the memory is always    *)
(* ready to write, and answers a read in the next cycle.                   *)
(***************************************************************************)
EXTENDS CpuCore

VARIABLES
    dmem,      \* word of memory -> its value
    dmemResp   \* the response register of the memory

vars == <<cpuVars, dmem, dmemResp>>

Init ==
    /\ CpuInit(CoreQueues)
    /\ dmem = [a \in MemoryWords |-> 0] /\ dmemResp = <<>>

Tick ==
    LET e == Execute(dmemResp)
        reads  == "dmem_rd_req" \in DOMAIN e.puts
        writes == "dmem_wr_req" \in DOMAIN e.puts
    IN  /\ CpuEdge(dmemResp, {})
        /\ dmemResp' = ReadReply(dmemResp, reads, IF reads THEN dmem[e.puts["dmem_rd_req"]] ELSE 0,
                                 "dmem_rd_resp" \in e.takes)
        /\ dmem' = IF writes THEN [dmem EXCEPT ![e.puts["dmem_wr_req"].addr] = e.puts["dmem_wr_req"].data]
                   ELSE dmem

-----------------------------------------------------------------------------

CpuAloneTypeOK ==
    /\ CpuTypeOK
    /\ dmem \in [MemoryWords -> Words]
    /\ Len(dmemResp) <= 1

(* Memory as the program sees it: a capability store under way counts.     *)
Memory ==
    IF stash.phase = 5 THEN stash.val
    ELSE [a \in {"tag", "hi", "lo"} |-> IF a = "tag" THEN tags ELSE dmem[a]]

=============================================================================
