------------------------------ MODULE CpuCore -------------------------------
(***************************************************************************)
(* The pipeline of src/examples/cpu_core.tbn, clock edge by clock edge:    *)
(* Fetch, Decode, Execute and Writeback over queues of depth 1, the        *)
(* register file, the trap registers and the tag memory.  What data memory *)
(* is wired to is left to the modules that extend this one: CpuAlone and   *)
(* MarieSoc.                                                               *)
(*                                                                         *)
(* In every cycle each process has an effect: the queues it takes from and *)
(* what it puts, all judged from the state before the edge.  A put at the  *)
(* top level of a rule waits for room; a put in a branch, as all those of  *)
(* Decode and Execute are, is made all the same.                           *)
(***************************************************************************)
EXTENDS CpuTypes, ClockedQueues

VARIABLES
    queues,    \* the queues of depth 1 in the CPU's clock domain
    stash,     \* Execute's Cell: the phase, and the instruction it stands for
    csr,       \* Execute's Cell trap, down to mcause
    regfile,   \* Writeback's Cell
    tags,      \* the tag memory
    tagResp    \* the response register of the tag memory

cpuVars == <<queues, stash, csr, regfile, tags, tagResp>>

CoreQueues == {"next_pcc_q", "fetch_q", "decode_q", "wb_q"}

(* Of a program counter only that there is one: the instruction fetched is *)
(* any instruction.                                                        *)
Pcc == "pcc"

IdleStash == [phase |-> 0, rd |-> "x0", addr |-> "lo", val |-> Null, lo |-> 0]

CpuInit(names) ==
    /\ queues = [q \in names |-> IF q = "next_pcc_q" THEN <<Pcc>> ELSE <<>>]
    /\ stash = IdleStash /\ csr = Null
    /\ regfile = [r \in Registers |-> Null]
    /\ tags = 0 /\ tagResp = <<>>

-----------------------------------------------------------------------------
(* Effects.                                                                *)

Effect(takes, puts) == [takes |-> takes, puts |-> puts]
Nothing == Effect({}, <<>>)

Holds(q) == queues[q] # <<>>
First(q) == Head(queues[q])

Offer(puts, q) == IF q \in DOMAIN puts THEN <<puts[q]>> ELSE <<>>

(* The queues after an edge at which the processes have these effects. *)
QueuesAfter(effects) ==
    LET takes == UNION {e.takes : e \in effects}
        offer(q) == LET putters == {e \in effects : q \in DOMAIN e.puts}
                    IN  IF putters = {} THEN <<>> ELSE <<(CHOOSE e \in putters : TRUE).puts[q]>>
    IN  [q \in DOMAIN queues |-> FifoAfter(queues[q], 1, q \in takes, offer(q))]

(* Instruction memory answers in the cycle of the request. *)
Fetch(instr) ==
    IF Holds("next_pcc_q") /\ ~Holds("fetch_q")
    THEN Effect({"next_pcc_q"}, [fetch_q |-> instr])
    ELSE Nothing

Decode ==
    IF Holds("fetch_q")
    THEN Effect({"fetch_q"}, [decode_q |-> Decoded(First("fetch_q"), regfile)])
    ELSE Nothing

Writeback == IF Holds("wb_q") THEN Effect({"wb_q"}, <<>>) ELSE Nothing

(* Mutant of RegfileAfter: what is not to be written is.                   *)
MutCommitsAll ==
    IF Holds("wb_q")
    THEN [regfile EXCEPT ![First("wb_q").rd] = First("wb_q").val]
    ELSE regfile

RegfileAfter ==
    IF Holds("wb_q") /\ First("wb_q").wb
    THEN [regfile EXCEPT ![First("wb_q").rd] = First("wb_q").val]
    ELSE regfile

-----------------------------------------------------------------------------
(* Execute.  resp: what dmem_read_resp can be taken from.                  *)

Wb(wb, rd, val) == [wb |-> wb, rd |-> rd, val |-> val]

Step(next, takes, puts) ==
    [stash |-> next, csr |-> csr, takes |-> takes, puts |-> puts]

Stay == Step(stash, {}, <<>>)

(* The instruction is done: its result goes to Writeback, the next program *)
(* counter to Fetch.                                                       *)
Retire(wb, takes) == Step(IdleStash, takes, [next_pcc_q |-> Pcc, wb_q |-> wb])

(* The same, when the instruction has stored a word and a tag. *)
RetireStore(write, tag, takes) ==
    Step(IdleStash, takes, [next_pcc_q |-> Pcc, wb_q |-> Wb(FALSE, stash.rd, Null),
                            dmem_wr_req |-> write, tmem_wr_req |-> tag])

Waiting(phase, d) ==
    [phase |-> phase, rd |-> d.rd, addr |-> d.addr, val |-> d.val, lo |-> 0]

NoWb(d) == Wb(FALSE, d.rd, Null)

Dispatch(d) ==
    LET takes == {"decode_q"} IN
    CASE d.op = "alu"  -> Retire(Wb(d.rd # "x0", d.rd, AluResult(d)), takes)
      [] d.op = "cap"  -> Retire(Wb(d.rd # "x0", d.rd, Root), takes)
      [] d.op = "jump" -> Retire(NoWb(d), takes)
      [] d.op = "trap" -> [Retire(NoWb(d), takes) EXCEPT !.csr = IntCap(Cause)]
      [] d.op = "csrrw" -> [Retire(Wb(d.rd # "x0", d.rd, csr), takes) EXCEPT !.csr = d.val]
      [] d.op = "lw" -> Step(Waiting(1, d), takes, [dmem_rd_req |-> d.addr])
      [] d.op = "sw" -> Step(Waiting(2, d), takes, [dmem_rd_req |-> d.addr])
      [] d.op = "lc" -> Step(Waiting(3, d), takes, [dmem_rd_req |-> "lo"])
      [] d.op = "sc" -> Step(Waiting(5, d), takes, [dmem_wr_req |-> [addr |-> "lo", data |-> d.val.lo]])

LoadReturns(word) == Retire(Wb(TRUE, stash.rd, IntCap(word)), {"dmem_rd_resp"})

(* An integer store has read the word, and writes it back merged. *)
StoreMerged ==
    RetireStore([addr |-> stash.addr, data |-> stash.val.lo], 0, {"dmem_rd_resp"})

(* Mutants of LowWord: the credit goes back with the first word; the tag   *)
(* is not asked for.                                                       *)
MutLowWordRetires(word) ==
    Step([Waiting(4, stash) EXCEPT !.lo = word], {"dmem_rd_resp"},
         [dmem_rd_req |-> "hi", tmem_rd_req |-> "tag", next_pcc_q |-> Pcc])

MutLowWordNoTag(word) ==
    Step([Waiting(4, stash) EXCEPT !.lo = word], {"dmem_rd_resp"}, [dmem_rd_req |-> "hi"])

LowWord(word) ==
    Step([Waiting(4, stash) EXCEPT !.lo = word], {"dmem_rd_resp"},
         [dmem_rd_req |-> "hi", tmem_rd_req |-> "tag"])

(* Mutant of HighWord: the tag is read and left where it is.               *)
MutHighWordPeeksTag(word) ==
    IF tagResp # <<>>
    THEN Retire(Wb(TRUE, stash.rd, [tag |-> Head(tagResp), hi |-> word, lo |-> stash.lo]),
                {"dmem_rd_resp"})
    ELSE Step(stash, {"dmem_rd_resp"}, <<>>)

(* The high word is taken whether or not the tag is there. *)
HighWord(word) ==
    IF tagResp # <<>>
    THEN Retire(Wb(TRUE, stash.rd, [tag |-> Head(tagResp), hi |-> word, lo |-> stash.lo]),
                {"dmem_rd_resp", "tmem_rd_resp"})
    ELSE Step(stash, {"dmem_rd_resp"}, <<>>)

StoreHigh ==
    RetireStore([addr |-> "hi", data |-> stash.val.hi], stash.val.tag, {})

Execute(resp) ==
    CASE stash.phase = 0 /\ Holds("decode_q") -> Dispatch(First("decode_q"))
      [] stash.phase = 1 /\ resp # <<>> -> LoadReturns(Head(resp))
      [] stash.phase = 2 /\ resp # <<>> -> StoreMerged
      [] stash.phase = 3 /\ resp # <<>> -> LowWord(Head(resp))
      [] stash.phase = 4 /\ resp # <<>> -> HighWord(Head(resp))
      [] stash.phase = 5 -> StoreHigh
      [] OTHER -> Stay

-----------------------------------------------------------------------------
(* A memory whose response is a register, held until it is taken.          *)
ReadReply(reply, request, word, taken) ==
    IF request /\ (reply = <<>> \/ taken) THEN <<word>>
    ELSE IF taken THEN <<>>
    ELSE reply

(* An edge of the CPU's clock, with what memory answers and the effects of *)
(* the other processes in the domain.                                      *)
CpuEdge(resp, others) ==
    LET e == Execute(resp) IN
    /\ \E instr \in Instructions :
          queues' = QueuesAfter({Fetch(instr), Decode, Writeback, Effect(e.takes, e.puts)} \union others)
    /\ stash' = e.stash
    /\ csr' = e.csr
    /\ regfile' = RegfileAfter
    /\ tags' = IF "tmem_wr_req" \in DOMAIN e.puts THEN e.puts["tmem_wr_req"] ELSE tags
    /\ tagResp' = ReadReply(tagResp, "tmem_rd_req" \in DOMAIN e.puts, tags, "tmem_rd_resp" \in e.takes)

-----------------------------------------------------------------------------
(* The program's view.                                                     *)

(* The registers, with the result that Writeback has yet to commit. *)
Registered ==
    IF Holds("wb_q") /\ First("wb_q").wb
    THEN Assign(regfile, First("wb_q").rd, First("wb_q").val)
    ELSE regfile

OpOfPhase == <<"lw", "sw", "lc", "lc">>

(* The instruction under way, wherever in the pipeline it is.  A store of  *)
(* a capability is over, to the program, with its first word.              *)
UnderWay ==
    IF Holds("fetch_q") THEN Decoded(First("fetch_q"), Registered)
    ELSE IF Holds("decode_q") THEN First("decode_q")
    ELSE IF stash.phase \in 1 .. 4 THEN [op |-> OpOfPhase[stash.phase], rd |-> stash.rd, imm |-> 0,
                                  addr |-> stash.addr, val |-> stash.val]
    ELSE None

CpuTypeOK ==
    /\ CoreQueues \subseteq DOMAIN queues
    /\ \A q \in DOMAIN queues : Len(queues[q]) <= 1
    /\ stash \in [phase : 0 .. 5, rd : Registers, addr : Addresses, val : Capabilities, lo : Words]
    /\ csr \in Capabilities /\ regfile \in [Registers -> Capabilities]
    /\ tags \in {0, 1} /\ Len(tagResp) <= 1

(* One credit circulates: exactly one instruction is under way or about to *)
(* be fetched, in exactly one place of the pipeline.                       *)
OneInstructionInFlight ==
    Len(queues["next_pcc_q"]) + Len(queues["fetch_q"]) + Len(queues["decode_q"])
        + (IF stash.phase = 0 THEN 0 ELSE 1) = 1

(* x0 is the null capability: src/examples/cpu_core.tbn, Writeback, "x0 is *)
(* hardwired to null capability (all zeros) — writes to x0 are discarded". *)
ZeroRegister == regfile["x0"] = Null

=============================================================================
