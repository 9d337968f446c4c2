------------------------------ MODULE IsaProofs -----------------------------
(***************************************************************************)
(* Proofs about what the two systems do for a program, for every word      *)
(* size, set of registers and devices and depth of the bus queues: what    *)
(* registers, queues, memory and bus hold is always of its type; each      *)
(* system is, to its programs, the sequential machine of Isa; and x0 stays *)
(* zero.                                                                   *)
(***************************************************************************)
EXTENDS PipelineProofs

-----------------------------------------------------------------------------
(* What the pieces hold.  reach: the addresses a program may use.          *)

Holding(s, T) == s = <<>> \/ \E x \in T : s = <<x>>

Fetched(reach)  == {i \in InstructionSet : i.addr \in reach}
Ready(reach)    == [op : Operations, rd : Registers, imm : Words, addr : reach, val : Capabilities]
Results         == [wb : BOOLEAN, rd : Registers, val : Capabilities]
Stores(reach)   == [addr : reach, data : Words]
Requests(reach) == [we : BOOLEAN, addr : reach, data : Words]
Stashes(reach)  == [phase : 0 .. 5, rd : Registers, addr : reach, val : Capabilities, lo : Words]

Items(q, reach) ==
    CASE q = "next_pcc_q"   -> {Pcc}
      [] q = "fetch_q"      -> Fetched(reach)
      [] q = "decode_q"     -> Ready(reach)
      [] q = "wb_q"         -> Results
      [] q = "dmem_rd_req"  -> reach
      [] q = "dmem_rd_resp" -> Words
      [] q = "dmem_wr_req"  -> Stores(reach)
      [] q = "tmem_wr_req"  -> {0, 1}
      [] q = "bus_req"      -> Requests(reach)
      [] OTHER -> {"tag"}

LEMMA ItemsOf ==
    ASSUME NEW reach
    PROVE  /\ Items("next_pcc_q", reach) = {Pcc}     /\ Items("fetch_q", reach) = Fetched(reach)
           /\ Items("decode_q", reach) = Ready(reach) /\ Items("wb_q", reach) = Results
           /\ Items("dmem_rd_req", reach) = reach     /\ Items("dmem_rd_resp", reach) = Words
           /\ Items("dmem_wr_req", reach) = Stores(reach) /\ Items("tmem_wr_req", reach) = {0, 1}
           /\ Items("tmem_rd_req", reach) = {"tag"}   /\ Items("bus_req", reach) = Requests(reach)
BY DEF Items

CoreTyped(reach) ==
    /\ \A q \in DOMAIN queues : Holding(queues[q], Items(q, reach))
    /\ stash \in Stashes(reach)
    /\ csr \in Capabilities /\ regfile \in [Registers -> Capabilities]
    /\ tags \in {0, 1} /\ Holding(tagResp, {0, 1})

PutsTyped(puts, reach) == \A q \in DOMAIN puts : puts[q] \in Items(q, reach)

LEMMA CapabilityTypes ==
    /\ Null \in Capabilities /\ Root \in Capabilities /\ IntCap(Cause) \in Capabilities
    /\ \A w \in Words : IntCap(w) \in Capabilities
    /\ 0 \in Words /\ "x0" \in Registers
    /\ \A c \in Capabilities : c.tag \in {0, 1} /\ c.hi \in Words /\ c.lo \in Words
    /\ \A d : d.val \in Capabilities /\ d.imm \in Words => AluResult(d) \in Capabilities
<1>1. 0 \in Words /\ WordCount - 1 \in Words /\ \A n \in Nat : n % WordCount \in Words
  BY CpuAssumption DEF Words
<1>2. \A w \in Words : IntCap(w) \in Capabilities
  BY <1>1 DEF IntCap, Capabilities
<1>3. \A c \in Capabilities : c.tag \in {0, 1} /\ c.hi \in Words /\ c.lo \in Words
  BY DEF Capabilities
<1>4. ASSUME NEW d, d.val \in Capabilities, d.imm \in Words
      PROVE  AluResult(d) \in Capabilities
  <2>1. d.val.lo + d.imm \in Nat
    BY <1>3, <1>4 DEF Words
  <2> QED
    BY <1>1, <1>2, <2>1 DEF AluResult
<1>5. Root \in Capabilities
  BY <1>1 DEF Root, Capabilities
<1> QED
  BY <1>1, <1>2, <1>3, <1>4, <1>5, CpuAssumption DEF Null, Cause

(* What Execute leaves and puts, when it dispatches,                       *)
ExecuteTyped(e, reach) ==
    e.stash \in Stashes(reach) /\ e.csr \in Capabilities /\ PutsTyped(e.puts, reach)

LEMMA RetireTyped ==
    ASSUME NEW reach, MemoryWords \subseteq reach, csr \in Capabilities, NEW wb \in Results, NEW takes
    PROVE  ExecuteTyped(Retire(wb, takes), reach)
<1>1. IdleStash \in Stashes(reach)
  BY CapabilityTypes DEF IdleStash, Stashes, MemoryWords
<1>2. PutsTyped([next_pcc_q |-> Pcc, wb_q |-> wb], reach)
  BY ItemsOf DEF PutsTyped
<1> QED
  BY <1>1, <1>2 DEF ExecuteTyped, Retire, Step

LEMMA DispatchTyped ==
    ASSUME NEW reach, MemoryWords \subseteq reach, csr \in Capabilities, NEW d \in Ready(reach)
    PROVE  ExecuteTyped(Dispatch(d), reach)
<1> DEFINE takes == {"decode_q"}
<1>1. /\ d.op \in Operations /\ d.rd \in Registers /\ d.imm \in Words
      /\ d.addr \in reach /\ d.val \in Capabilities
  BY DEF Ready
<1>2. ASSUME NEW b \in BOOLEAN, NEW c \in Capabilities
      PROVE  Wb(b, d.rd, c) \in Results
  BY <1>1 DEF Wb, Results
<1>3. NoWb(d) \in Results
  BY <1>2, CapabilityTypes DEF NoWb
<1>4. \A k \in 0 .. 5 : Waiting(k, d) \in Stashes(reach)
  BY <1>1, CapabilityTypes DEF Waiting, Stashes
<1>5. CASE d.op = "alu"
  <2>1. Dispatch(d) = Retire(Wb(d.rd # "x0", d.rd, AluResult(d)), takes)
    BY <1>5 DEF Dispatch
  <2>2. AluResult(d) \in Capabilities
    BY <1>1, CapabilityTypes
  <2> QED
    BY <1>2, <2>1, <2>2, RetireTyped
<1>6. CASE d.op = "cap"
  <2>1. Dispatch(d) = Retire(Wb(d.rd # "x0", d.rd, Root), takes)
    BY <1>6 DEF Dispatch
  <2> QED
    BY <1>2, <2>1, RetireTyped, CapabilityTypes
<1>7. CASE d.op = "jump"
  <2>1. Dispatch(d) = Retire(NoWb(d), takes)
    BY <1>7 DEF Dispatch
  <2> QED
    BY <1>3, <2>1, RetireTyped
<1>8. CASE d.op = "trap"
  <2>1. Dispatch(d) = [Retire(NoWb(d), takes) EXCEPT !.csr = IntCap(Cause)]
    BY <1>8 DEF Dispatch
  <2>2. /\ Dispatch(d).stash = Retire(NoWb(d), takes).stash
        /\ Dispatch(d).puts = Retire(NoWb(d), takes).puts
        /\ Dispatch(d).csr = IntCap(Cause)
    BY <2>1 DEF Retire, Step
  <2> QED
    BY <1>3, <2>2, RetireTyped, CapabilityTypes DEF ExecuteTyped
<1>9. CASE d.op = "csrrw"
  <2>1. Dispatch(d) = [Retire(Wb(d.rd # "x0", d.rd, csr), takes) EXCEPT !.csr = d.val]
    BY <1>9 DEF Dispatch
  <2>2. /\ Dispatch(d).stash = Retire(Wb(d.rd # "x0", d.rd, csr), takes).stash
        /\ Dispatch(d).puts = Retire(Wb(d.rd # "x0", d.rd, csr), takes).puts
        /\ Dispatch(d).csr = d.val
    BY <2>1 DEF Retire, Step
  <2>3. Wb(d.rd # "x0", d.rd, csr) \in Results
    BY <1>2
  <2> QED
    BY <1>1, <2>2, <2>3, RetireTyped DEF ExecuteTyped
<1>10. CASE d.op \in {"lw", "sw", "lc"}
  <2>1. PICK k \in 0 .. 5, a \in reach :
            /\ Dispatch(d).stash = Waiting(k, d) /\ Dispatch(d).csr = csr
            /\ Dispatch(d).puts = [dmem_rd_req |-> a]
    <3>1. CASE d.op = "lw"
      BY <1>1, <3>1 DEF Dispatch, Step
    <3>2. CASE d.op = "sw"
      BY <1>1, <3>2 DEF Dispatch, Step
    <3>3. CASE d.op = "lc"
      BY <1>1, <3>3 DEF Dispatch, Step, MemoryWords
    <3> QED
      BY <1>10, <3>1, <3>2, <3>3
  <2>2. PutsTyped(Dispatch(d).puts, reach)
    BY <2>1, ItemsOf DEF PutsTyped
  <2> QED
    BY <1>4, <2>1, <2>2 DEF ExecuteTyped
<1>11. CASE d.op = "sc"
  <2>1. /\ Dispatch(d).stash = Waiting(5, d) /\ Dispatch(d).csr = csr
        /\ Dispatch(d).puts = [dmem_wr_req |-> [addr |-> "lo", data |-> d.val.lo]]
    BY <1>11 DEF Dispatch, Step
  <2>2. [addr |-> "lo", data |-> d.val.lo] \in Stores(reach)
    BY <1>1, CapabilityTypes DEF Stores, MemoryWords
  <2>3. PutsTyped(Dispatch(d).puts, reach)
    BY <2>1, <2>2, ItemsOf DEF PutsTyped
  <2> QED
    BY <1>4, <2>1, <2>3 DEF ExecuteTyped
<1> QED
  BY <1>1, <1>5, <1>6, <1>7, <1>8, <1>9, <1>10, <1>11 DEF Operations

(* and whatever phase it is in.                                            *)
LEMMA ExecutionTyped ==
    ASSUME NEW reach, MemoryWords \subseteq reach, CoreTyped(reach), NEW resp, Holding(resp, Words),
           CreditCirculates
    PROVE  ExecuteTyped(Execute(resp), reach)
<1>1. /\ stash.phase \in 0 .. 5 /\ stash.rd \in Registers /\ stash.addr \in reach
      /\ stash.val \in Capabilities /\ stash.lo \in Words
      /\ stash \in Stashes(reach) /\ csr \in Capabilities /\ Holding(tagResp, {0, 1})
  BY DEF CoreTyped, Stashes
<1>2. resp # <<>> => Head(resp) \in Words
  BY DEF Holding
<1>3. tagResp # <<>> => Head(tagResp) \in {0, 1}
  BY <1>1 DEF Holding
<1>4. ASSUME NEW b \in BOOLEAN, NEW c \in Capabilities
      PROVE  Wb(b, stash.rd, c) \in Results
  BY <1>1 DEF Wb, Results
<1>5. ASSUME NEW write \in Stores(reach), NEW tag \in {0, 1}, NEW takes
      PROVE  ExecuteTyped(RetireStore(write, tag, takes), reach)
  <2>1. IdleStash \in Stashes(reach)
    BY CapabilityTypes DEF IdleStash, Stashes, MemoryWords
  <2>2. Wb(FALSE, stash.rd, Null) \in Results
    BY <1>4, CapabilityTypes
  <2> DEFINE result == Wb(FALSE, stash.rd, Null)
             puts   == [next_pcc_q |-> Pcc, wb_q |-> result, dmem_wr_req |-> write, tmem_wr_req |-> tag]
  <2>3. PutsTyped(puts, reach)
    <3>0. result \in Results
      BY <2>2
    <3> HIDE DEF result
    <3>1. /\ DOMAIN puts = {"next_pcc_q", "wb_q", "dmem_wr_req", "tmem_wr_req"}
          /\ puts["next_pcc_q"] = Pcc    /\ puts["wb_q"] = result
          /\ puts["dmem_wr_req"] = write /\ puts["tmem_wr_req"] = tag
      OBVIOUS
    <3> HIDE DEF puts
    <3>2. puts["next_pcc_q"] \in Items("next_pcc_q", reach) /\ puts["wb_q"] \in Items("wb_q", reach)
      BY <3>0, <3>1, ItemsOf
    <3>3. puts["dmem_wr_req"] \in Items("dmem_wr_req", reach) /\ puts["tmem_wr_req"] \in Items("tmem_wr_req", reach)
      BY <1>5, <3>1, ItemsOf
    <3> QED
      BY <3>1, <3>2, <3>3 DEF PutsTyped
  <2> QED
    BY <1>1, <2>1, <2>3 DEF ExecuteTyped, RetireStore, Step
<1>6. CASE stash.phase = 0 /\ Holds("decode_q")
  <2>1. Execute(resp) = Dispatch(First("decode_q"))
    BY <1>6 DEF Execute
  <2>2. First("decode_q") \in Ready(reach)
    <3>1. Holding(queues["decode_q"], Ready(reach))
      BY ItemsOf DEF CoreTyped, CreditCirculates, CreditQueues
    <3> QED
      BY <1>6, <3>1 DEF Holding, Holds, First
  <2> QED
    BY <1>1, <2>1, <2>2, DispatchTyped
<1>7. CASE stash.phase = 1 /\ resp # <<>>
  <2>1. Execute(resp) = Retire(Wb(TRUE, stash.rd, IntCap(Head(resp))), {"dmem_rd_resp"})
    BY <1>7 DEF Execute, LoadReturns
  <2>2. IntCap(Head(resp)) \in Capabilities
    BY <1>2, <1>7, CapabilityTypes
  <2> QED
    BY <1>1, <1>4, <2>1, <2>2, RetireTyped
<1>8. CASE stash.phase = 2 /\ resp # <<>>
  <2>1. Execute(resp) = RetireStore([addr |-> stash.addr, data |-> stash.val.lo], 0, {"dmem_rd_resp"})
    BY <1>8 DEF Execute, StoreMerged
  <2>2. [addr |-> stash.addr, data |-> stash.val.lo] \in Stores(reach)
    BY <1>1, CapabilityTypes DEF Stores
  <2> QED
    BY <1>5, <2>1, <2>2
<1>9. CASE stash.phase = 3 /\ resp # <<>>
  <2>1. Execute(resp) = LowWord(Head(resp))
    BY <1>9 DEF Execute
  <2>2. [Waiting(4, stash) EXCEPT !.lo = Head(resp)] \in Stashes(reach)
    BY <1>1, <1>2, <1>9 DEF Waiting, Stashes
  <2>3. PutsTyped([dmem_rd_req |-> "hi", tmem_rd_req |-> "tag"], reach)
    BY ItemsOf DEF PutsTyped, MemoryWords
  <2> QED
    BY <1>1, <2>1, <2>2, <2>3 DEF ExecuteTyped, LowWord, Step
<1>10. CASE stash.phase = 4 /\ resp # <<>>
  <2>1. Execute(resp) = HighWord(Head(resp))
    BY <1>10 DEF Execute
  <2>2. CASE tagResp # <<>>
    <3>1. [tag |-> Head(tagResp), hi |-> Head(resp), lo |-> stash.lo] \in Capabilities
      BY <1>1, <1>2, <1>3, <1>10, <2>2 DEF Capabilities
    <3> QED
      BY <1>1, <1>4, <2>1, <2>2, <3>1, RetireTyped DEF HighWord
  <2>3. CASE tagResp = <<>>
    <3>1. PutsTyped(<<>>, reach)
      BY DEF PutsTyped
    <3> QED
      BY <1>1, <2>1, <2>3, <3>1 DEF HighWord, Step, ExecuteTyped
  <2> QED
    BY <2>2, <2>3
<1>11. CASE stash.phase = 5
  <2>1. Execute(resp) = RetireStore([addr |-> "hi", data |-> stash.val.hi], stash.val.tag, {})
    BY <1>11 DEF Execute, StoreHigh
  <2>2. [addr |-> "hi", data |-> stash.val.hi] \in Stores(reach) /\ stash.val.tag \in {0, 1}
    BY <1>1, CapabilityTypes DEF Stores, MemoryWords
  <2> QED
    BY <1>5, <2>1, <2>2
<1>12. CASE /\ ~(stash.phase = 0 /\ Holds("decode_q")) /\ stash.phase # 5
            /\ ~(stash.phase \in 1 .. 4 /\ resp # <<>>)
  <2>1. Execute(resp) = Stay
    BY <1>12 DEF Execute
  <2>2. PutsTyped(<<>>, reach)
    BY DEF PutsTyped
  <2> QED
    BY <1>1, <2>1, <2>2 DEF Stay, Step, ExecuteTyped
<1> QED
  BY <1>1, <1>6, <1>7, <1>8, <1>9, <1>10, <1>11, <1>12

(* A queue of one place keeps its type. *)
LEMMA FifoTyped ==
    ASSUME NEW T, NEW items, Holding(items, T), NEW offer, Holding(offer, T),
           NEW taken \in BOOLEAN, taken => items # <<>>
    PROVE  Holding(FifoAfter(items, 1, taken, offer), T)
<1>1. CASE items = <<>>
  <2>1. FifoAfter(items, 1, taken, offer) = offer
    <3>1. CASE offer = <<>>
      BY <1>1, <3>1, OnePlace
    <3>2. CASE offer # <<>>
      BY <1>1, <3>2, OnePlace DEF Holding
    <3> QED
      BY <3>1, <3>2
  <2> QED
    BY <2>1
<1>2. CASE items # <<>>
  <2>1. PICK x \in T : items = <<x>>
    BY <1>2 DEF Holding
  <2>2. FifoAfter(items, 1, taken, offer) \in {<<>>, items}
    BY <2>1, ShortQueues DEF FifoAfter, Holding
  <2> QED
    BY <2>1, <2>2 DEF Holding
<1> QED
  BY <1>1, <1>2

EffectTyped(x, reach) ==
    PutsTyped(x.puts, reach) /\ \A q \in x.takes \intersect DOMAIN queues : Holds(q)

LEMMA QueuesTyped ==
    ASSUME NEW reach, CoreTyped(reach), NEW effects, \A x \in effects : EffectTyped(x, reach),
           queues' = QueuesAfter(effects)
    PROVE  /\ DOMAIN queues' = DOMAIN queues
           /\ \A q \in DOMAIN queues : Holding(queues'[q], Items(q, reach))
<1>1. DOMAIN queues' = DOMAIN queues
  BY DEF QueuesAfter
<1>2. ASSUME NEW q \in DOMAIN queues
      PROVE  Holding(queues'[q], Items(q, reach))
  <2> DEFINE putters == {e \in effects : q \in DOMAIN e.puts}
             chosen == CHOOSE e \in putters : TRUE
             offer == IF putters = {} THEN <<>> ELSE <<chosen.puts[q]>>
  <2>1. queues'[q] = FifoAfter(queues[q], 1, TakenBy(effects, q), offer)
    BY DEF QueuesAfter, TakenBy
  <2>2. Holding(offer, Items(q, reach))
    <3>1. CASE putters = {}
      BY <3>1 DEF Holding
    <3>2. CASE putters # {}
      <4>1. chosen \in putters
        BY <3>2
      <4> HIDE DEF chosen
      <4>2. chosen.puts[q] \in Items(q, reach)
        BY <4>1 DEF EffectTyped, PutsTyped
      <4> QED
        BY <3>2, <4>2 DEF Holding
    <3> QED
      BY <3>1, <3>2
  <2> HIDE DEF offer
  <2>3. TakenBy(effects, q) => queues[q] # <<>>
    BY TakenBySome DEF EffectTyped, Holds
  <2>4. TakenBy(effects, q) \in BOOLEAN
    BY DEF TakenBy
  <2> QED
    BY <2>1, <2>2, <2>3, <2>4, FifoTyped DEF CoreTyped
<1> QED
  BY <1>1, <1>2

(* The processes next to Execute. *)
LEMMA OthersTyped ==
    ASSUME NEW reach, CoreTyped(reach), CreditCirculates, NEW instr \in Fetched(reach)
    PROVE  EffectTyped(Fetch(instr), reach) /\ EffectTyped(Decode, reach) /\ EffectTyped(Writeback, reach)
<1>1. EffectTyped(Nothing, reach)
  BY DEF EffectTyped, Nothing, Effect, PutsTyped
<1>2. EffectTyped(Fetch(instr), reach)
  <2>1. PutsTyped([fetch_q |-> instr], reach)
    BY ItemsOf DEF PutsTyped
  <2> QED
    BY <1>1, <2>1 DEF Fetch, EffectTyped, Effect
<1>3. EffectTyped(Decode, reach)
  <2>1. CASE Holds("fetch_q")
    <3> DEFINE i == First("fetch_q")
    <3>1. i \in Fetched(reach)
      <4>1. Holding(queues["fetch_q"], Fetched(reach))
        BY ItemsOf DEF CoreTyped, CreditCirculates, CreditQueues
      <4> QED
        BY <2>1, <4>1 DEF Holding, Holds, First
    <3>2. /\ i.op \in Operations /\ i.rd \in Registers /\ i.rs \in Registers
          /\ i.imm \in Words /\ i.addr \in reach
      BY <3>1 DEF Fetched, InstructionSet, Operations
    <3>3. Operand(i, regfile) \in Capabilities
      BY <3>2, CapabilityTypes DEF Operand, CoreTyped
    <3>4. Decoded(i, regfile) \in Ready(reach)
      <4>1. \A imm : imm = (IF i.op = "alu" THEN i.imm ELSE 0) => imm \in Words
        BY <3>2, CapabilityTypes
      <4> HIDE DEF i
      <4> QED
        BY <3>2, <3>3, <4>1 DEF Decoded, Ready
    <3>5. PutsTyped([decode_q |-> Decoded(i, regfile)], reach)
      BY <3>4, ItemsOf DEF PutsTyped
    <3> HIDE DEF i
    <3>6. Decode = Effect({"fetch_q"}, [decode_q |-> Decoded(i, regfile)])
      BY <2>1 DEF Decode, i
    <3> QED
      BY <2>1, <3>5, <3>6 DEF EffectTyped, Effect
  <2> QED
    BY <1>1, <2>1 DEF Decode
<1>4. EffectTyped(Writeback, reach)
  BY <1>1 DEF Writeback, EffectTyped, Effect, PutsTyped
<1> QED
  BY <1>2, <1>3, <1>4

LEMMA ReplyTyped ==
    ASSUME NEW T, NEW reply, Holding(reply, T), NEW asked, NEW word, asked => word \in T, NEW taken
    PROVE  Holding(ReadReply(reply, asked, word, taken), T)
BY DEF ReadReply, Holding

(* An edge of the CPU's clock keeps the core's types.                      *)
LEMMA CoreEdge ==
    ASSUME NEW reach, MemoryWords \subseteq reach, CoreTyped(reach), TagArrives,
           NEW resp, Holding(resp, Words),
           "wb_q" \in DOMAIN queues, "tmem_rd_resp" \notin DOMAIN queues,
           "dmem_rd_resp" \in DOMAIN queues => resp = queues["dmem_rd_resp"],
           NEW others, \A x \in others : EffectTyped(x, reach),
           NEW instr \in Fetched(reach), NEW e, e = Execute(resp),
           queues' = QueuesAfter(Effects(instr, e, others)),
           stash' = e.stash, csr' = e.csr, regfile' = RegfileAfter,
           tags' = IF "tmem_wr_req" \in DOMAIN e.puts THEN e.puts["tmem_wr_req"] ELSE tags,
           tagResp' = ReadReply(tagResp, "tmem_rd_req" \in DOMAIN e.puts, tags, "tmem_rd_resp" \in e.takes)
    PROVE  CoreTyped(reach)' /\ ExecuteTyped(e, reach) /\ DOMAIN queues' = DOMAIN queues
<1>1. CreditCirculates /\ ExecuteStep(e) /\ MemoryStep(e, resp)
  BY Executes, ExecutesOnMemory DEF TagArrives
<1>2. ExecuteTyped(e, reach)
  BY <1>1, ExecutionTyped
<1>3. EffectTyped(Effect(e.takes, e.puts), reach)
  <2>1. ASSUME NEW q \in e.takes \intersect DOMAIN queues
        PROVE  Holds(q)
    BY <1>1, <2>1 DEF ExecuteStep, MemoryStep, Holds
  <2> QED
    BY <1>2, <2>1 DEF EffectTyped, Effect, ExecuteTyped
<1>4. \A x \in Effects(instr, e, others) : EffectTyped(x, reach)
  BY <1>1, <1>3, OthersTyped DEF Effects
<1>5. DOMAIN queues' = DOMAIN queues /\ \A q \in DOMAIN queues : Holding(queues'[q], Items(q, reach))
  BY <1>4, QueuesTyped
<1>6. regfile' \in [Registers -> Capabilities]
  <2>1. regfile \in [Registers -> Capabilities] /\ Holding(queues["wb_q"], Results)
    BY ItemsOf DEF CoreTyped
  <2>2. Holds("wb_q") => First("wb_q").rd \in Registers /\ First("wb_q").val \in Capabilities
    BY <2>1 DEF Holding, Holds, First, Results
  <2> QED
    BY <2>1, <2>2 DEF RegfileAfter
<1>7. tags' \in {0, 1}
  BY <1>2, ItemsOf DEF CoreTyped, ExecuteTyped, PutsTyped
<1>8. Holding(tagResp', {0, 1})
  BY ReplyTyped DEF CoreTyped
<1>9. stash' \in Stashes(reach) /\ csr' \in Capabilities
  BY <1>2 DEF ExecuteTyped
<1> QED
  BY <1>2, <1>5, <1>6, <1>7, <1>8, <1>9 DEF CoreTyped

-----------------------------------------------------------------------------
(* The crossings of the bus, and what they hold.                           *)

CrossingTyped(c, T) ==
    /\ c.items \in Seq(T)
    /\ c.seen1 \in Nat /\ c.seen2 \in Nat /\ c.hidden1 \in Nat /\ c.hidden2 \in Nat
    /\ c.seen2 <= c.seen1 /\ c.seen1 <= Len(c.items)
    /\ c.hidden1 <= c.hidden2 /\ Len(c.items) + c.hidden2 <= BusDepth

LEMMA CrossingCounts ==
    ASSUME NEW T, NEW c, CrossingTyped(c, T)
    PROVE  /\ c.items \in Seq(T) /\ Len(c.items) \in Nat
           /\ c.seen1 \in Nat /\ c.seen2 \in Nat /\ c.hidden1 \in Nat /\ c.hidden2 \in Nat
           /\ c.seen2 <= c.seen1 /\ c.seen1 <= Len(c.items)
           /\ c.hidden1 <= c.hidden2 /\ Len(c.items) + c.hidden2 <= BusDepth
BY LenProperties DEF CrossingTyped

LEMMA WriterTyped ==
    ASSUME NEW T, NEW c, CrossingTyped(c, T), NEW offer, Holding(offer, T)
    PROVE  CrossingTyped(WriterEdge(c, BusDepth, offer), T)
<1> DEFINE w == WriterEdge(c, BusDepth, offer)
<1> SUFFICES CrossingTyped(w, T)
  OBVIOUS
<1>1. w.seen1 = c.seen1 /\ w.seen2 = c.seen2 /\ w.hidden1 = 0 /\ w.hidden2 = c.hidden1
  BY DEF WriterEdge
<1>0. /\ Room(c, BusDepth) => w.items = c.items \o offer
      /\ ~Room(c, BusDepth) => w.items = c.items
  BY DEF WriterEdge
<1>2. c.items \in Seq(T) /\ Len(c.items) \in Nat /\ BusDepth \in Nat
  BY SocAssumption, LenProperties DEF CrossingTyped
<1>3. offer \in Seq(T) /\ Len(offer) \in {0, 1}
  <2>1. CASE offer = <<>>
    BY <2>1
  <2>2. CASE offer # <<>>
    BY SMTT(30), <2>2 DEF Holding
  <2> QED
    BY <2>1, <2>2
<1>4. c.items \o offer \in Seq(T) /\ Len(c.items \o offer) = Len(c.items) + Len(offer)
  BY <1>2, <1>3, ConcatProperties
<1> HIDE DEF w
<1>5. CASE Room(c, BusDepth)
  <2>1. w.items = c.items \o offer
    BY <1>0, <1>5
  <2>2. Len(c.items) + c.hidden2 < BusDepth
    BY <1>5 DEF Room
  <2>3. w.items \in Seq(T) /\ Len(w.items) = Len(c.items) + Len(offer)
    BY <1>4, <2>1
  <2>4. /\ c.seen1 <= Len(c.items) + Len(offer) /\ 0 <= c.hidden1 /\ 0 \in Nat
        /\ Len(c.items) + Len(offer) + c.hidden1 <= BusDepth
        /\ c.seen1 \in Nat /\ c.seen2 \in Nat /\ c.hidden1 \in Nat /\ c.seen2 <= c.seen1
    <3> DEFINE k == Len(c.items)
               o == Len(offer)
    <3>1. /\ k \in Nat /\ c.hidden1 \in Nat /\ c.hidden2 \in Nat /\ c.seen1 \in Nat /\ c.seen2 \in Nat
          /\ c.seen2 <= c.seen1 /\ c.seen1 <= k /\ c.hidden1 <= c.hidden2
      BY CrossingCounts
    <3>2. k + c.hidden2 < BusDepth /\ BusDepth \in Nat /\ o \in {0, 1}
      BY <1>2, <1>3, <2>2
    <3> HIDE DEF k, o
    <3>3. k + o + c.hidden1 <= BusDepth /\ c.seen1 <= k + o
      BY <3>1, <3>2
    <3> QED
      BY <3>1, <3>3 DEF k, o
  <2> QED
    BY <1>1, <2>3, <2>4 DEF CrossingTyped
<1>6. CASE ~Room(c, BusDepth)
  <2>1. w.items = c.items
    BY <1>0, <1>6
  <2> QED
    BY <1>1, <1>2, <2>1, CrossingCounts DEF CrossingTyped
<1> QED
  BY <1>5, <1>6

LEMMA ReaderTyped ==
    ASSUME NEW T, NEW c, CrossingTyped(c, T), NEW take \in BOOLEAN
    PROVE  CrossingTyped(ReaderEdge(c, take), T)
<1> DEFINE w == ReaderEdge(c, take)
           n == Len(c.items)
<1> SUFFICES CrossingTyped(w, T)
  OBVIOUS
<1>1. c.items \in Seq(T) /\ n \in Nat /\ BusDepth \in Nat
  BY SocAssumption, LenProperties DEF CrossingTyped
<1>2. CASE take /\ Readable(c)
  <2>1. /\ w.items = SubSeq(c.items, 1 + 1, n) /\ w.seen1 = n - 1 /\ w.seen2 = c.seen1 - 1
        /\ w.hidden1 = c.hidden1 + 1 /\ w.hidden2 = c.hidden2 + 1
    BY <1>2 DEF ReaderEdge
  <2>2. n >= 1 /\ c.seen1 >= 1
    BY <1>1, <1>2 DEF Readable, CrossingTyped
  <2>3. SubSeq(c.items, 1 + 1, n) \in Seq(T) /\ Len(SubSeq(c.items, 1 + 1, n)) = n - 1
    <3>1. DOMAIN c.items = 1 .. n /\ c.items \in [1 .. n -> T]
      BY <1>1, LenProperties
    <3> HIDE DEF n
    <3>2. \A i \in 2 .. n : c.items[i] \in T
      BY <1>1, <3>1
    <3>3. 2 \in Int /\ n \in Int /\ 1 + 1 = 2 /\ (2 <= n => n - 2 + 1 = n - 1) /\ (n < 2 => n - 1 = 0)
      BY <1>1, <2>2
    <3>4. /\ SubSeq(c.items, 2, n) \in Seq(T)
          /\ Len(SubSeq(c.items, 2, n)) = IF 2 <= n THEN n - 2 + 1 ELSE 0
      BY <3>2, <3>3, SubSeqProperties
    <3> QED
      BY <1>1, <3>3, <3>4
  <2>4. w.items \in Seq(T) /\ Len(w.items) = n - 1
    BY <2>1, <2>3
  <2>5. /\ n - 1 \in Nat /\ c.seen1 - 1 \in Nat /\ c.hidden1 + 1 \in Nat /\ c.hidden2 + 1 \in Nat
        /\ c.seen1 - 1 <= n - 1 /\ c.hidden1 + 1 <= c.hidden2 + 1
        /\ n - 1 + (c.hidden2 + 1) <= BusDepth
    BY SMTT(30), <1>1, <2>2, CrossingCounts
  <2> HIDE DEF w
  <2> QED
    BY SMTT(30), <2>1, <2>4, <2>5 DEF CrossingTyped
<1>3. CASE ~(take /\ Readable(c))
  <2>1. /\ w.items = SubSeq(c.items, 0 + 1, n) /\ w.seen1 = n - 0 /\ w.seen2 = c.seen1 - 0
        /\ w.hidden1 = c.hidden1 + 0 /\ w.hidden2 = c.hidden2 + 0
    BY <1>3 DEF ReaderEdge
  <2>2. SubSeq(c.items, 1, n) = c.items
    BY <1>1, SubSeqFull
  <2>3. /\ w.items = c.items /\ w.seen1 = n /\ w.seen2 = c.seen1
        /\ w.hidden1 = c.hidden1 /\ w.hidden2 = c.hidden2
    BY <1>1, <2>1, <2>2 DEF CrossingTyped
  <2> HIDE DEF w
  <2> QED
    BY <1>1, <2>3 DEF CrossingTyped
<1> QED
  BY <1>2, <1>3

(* An item that the reader sees is there. *)
LEMMA SeenIsThere ==
    ASSUME NEW T, NEW c, CrossingTyped(c, T), Readable(c)
    PROVE  Head(c.items) \in T
<1>1. c.items \in Seq(T) /\ c.items # <<>>
  <2>1. Len(c.items) >= 1 /\ c.items \in Seq(T) /\ Len(c.items) \in Nat
    BY LenProperties DEF CrossingTyped, Readable
  <2> QED
    BY <2>1, EmptySeq
<1> QED
  BY <1>1, HeadTailProperties

LinkTyped(link, asked, answered) ==
    CrossingTyped(link.req, asked) /\ CrossingTyped(link.resp, answered)

LEMMA NearEdgeTyped ==
    ASSUME NEW Q, NEW R, NEW link, LinkTyped(link, Q, R),
           NEW offer, Holding(offer, Q), NEW take \in BOOLEAN
    PROVE  LinkTyped([req |-> WriterEdge(link.req, BusDepth, offer), resp |-> ReaderEdge(link.resp, take)], Q, R)
BY WriterTyped, ReaderTyped DEF LinkTyped

LEMMA FarEdgeTyped ==
    ASSUME NEW Q, NEW R, NEW link, LinkTyped(link, Q, R),
           NEW answer, Holding(answer, R), NEW take \in BOOLEAN
    PROVE  LinkTyped([req |-> ReaderEdge(link.req, take), resp |-> WriterEdge(link.resp, BusDepth, answer)], Q, R)
BY WriterTyped, ReaderTyped DEF LinkTyped

LEMMA EmptyLink == \A Q, R : LinkTyped(Link, Q, R)
<1>1. ASSUME NEW T PROVE CrossingTyped(EmptyCrossing, T)
  BY SocAssumption DEF EmptyCrossing, CrossingTyped
<1> QED
  BY <1>1 DEF LinkTyped, Link

-----------------------------------------------------------------------------
(* What both systems hold is of its type.                                  *)

Served(d) == Requests(IF d = "mem" THEN MemoryWords ELSE Addresses)

FabricTyped ==
    /\ LinkTyped(host, Requests(Addresses), Words)
    /\ \A d \in Targets : LinkTyped(device[d], Served(d), Words)
    /\ uart.tx \in 0 .. TxDepth /\ uart.rx \in 0 .. RxDepth

SystemTyped ==
    /\ TagArrives /\ BusTakesTurns /\ top \in {"CPU", "Marie"}
    /\ top = "CPU" => CoreTyped(MemoryWords) /\ DOMAIN queues = CoreQueues
    /\ top = "Marie" => CoreTyped(Addresses) /\ DOMAIN queues = CoreQueues \union AdapterQueues
    /\ dmem \in [MemoryWords -> Words] /\ Holding(dmemResp, Words)
    /\ FabricTyped

LEMMA InitTyped == SystemsInit => SystemTyped
<1> SUFFICES ASSUME SystemsInit PROVE SystemTyped
  OBVIOUS
<1>1. TagArrives /\ BusTakesTurns /\ top \in {"CPU", "Marie"} /\ FabricInit
  BY InitTag, InitBus, SystemsAssumption DEF SystemsInit, Init
<1>2. Null \in Capabilities /\ 0 \in Words /\ "x0" \in Registers
  BY CapabilityTypes
<1>3. dmem \in [MemoryWords -> Words] /\ Holding(dmemResp, Words)
  <2>1. dmem = [a \in MemoryWords |-> 0] /\ dmemResp = <<>>
    BY DEF SystemsInit, Init, Alone!Init, Alone!MemoryWords, MemoryWords
  <2> QED
    BY <1>2, <2>1 DEF Holding
<1>4. FabricTyped
  BY <1>1, EmptyLink, SocAssumption DEF FabricInit, FabricTyped
<1>5. IdleStash \in Stashes(MemoryWords) /\ IdleStash \in Stashes(Addresses)
  BY <1>2 DEF IdleStash, Stashes, MemoryWords, Addresses
<1>6. ASSUME NEW names, NEW reach, CpuInit(names), IdleStash \in Stashes(reach)
      PROVE  CoreTyped(reach) /\ DOMAIN queues = names
  <2>1. \A q \in DOMAIN queues : Holding(queues[q], Items(q, reach))
    BY <1>6, ItemsOf DEF CpuInit, Holding
  <2> QED
    BY <1>2, <1>6, <2>1 DEF CpuInit, CoreTyped, Holding
<1>7. top = "CPU" => CpuInit(CoreQueues)
  BY DEF SystemsInit, Alone!Init, Alone!CpuInit, CpuInit, Alone!CoreQueues, CoreQueues, Alone!Pcc, Pcc,
         Alone!IdleStash, IdleStash, Alone!Null, Null, Alone!IntCap, IntCap
<1>8. top = "Marie" => CpuInit(CoreQueues \union AdapterQueues)
  BY DEF SystemsInit, Init
<1> QED
  BY <1>1, <1>3, <1>4, <1>5, <1>6, <1>7, <1>8 DEF SystemTyped

(* A cycle of CPU.                                                         *)
LEMMA TickTyped == SystemTyped /\ Tick => SystemTyped'
<1> SUFFICES ASSUME SystemTyped, Tick PROVE SystemTyped'
  OBVIOUS
<1> DEFINE e == Execute(dmemResp)
           reads  == "dmem_rd_req" \in DOMAIN e.puts
           writes == "dmem_wr_req" \in DOMAIN e.puts
<1>1. top = "CPU" /\ UNCHANGED <<top, fabric>> /\ Alone!Tick
  BY DEF Tick
<1>2. TagArrives' /\ BusTakesTurns'
  BY NextKeepsTag, NextKeepsTurns DEF SystemTyped, SystemsNext
<1>3. PICK instr \in AloneInstructions :
        /\ queues' = QueuesAfter(Effects(instr, e, {}))
        /\ stash' = e.stash /\ csr' = e.csr /\ regfile' = RegfileAfter
        /\ tags' = IF "tmem_wr_req" \in DOMAIN e.puts THEN e.puts["tmem_wr_req"] ELSE tags
        /\ tagResp' = ReadReply(tagResp, "tmem_rd_req" \in DOMAIN e.puts, tags, "tmem_rd_resp" \in e.takes)
  BY <1>1, SamePipeline DEF Alone!Tick, Alone!CpuEdge, Alone!Effect, Effect, Effects, Alone!RegfileAfter,
     RegfileAfter, Alone!Holds, Holds, Alone!First, First, Alone!ReadReply, ReadReply
<1>4. /\ dmemResp' = ReadReply(dmemResp, reads, IF reads THEN dmem[e.puts["dmem_rd_req"]] ELSE 0,
                              "dmem_rd_resp" \in e.takes)
      /\ writes => dmem' = [dmem EXCEPT ![e.puts["dmem_wr_req"].addr] = e.puts["dmem_wr_req"].data]
      /\ ~writes => dmem' = dmem
  BY <1>1, SamePipeline DEF Alone!Tick, Alone!ReadReply, ReadReply
<1>5. /\ CoreTyped(MemoryWords) /\ DOMAIN queues = CoreQueues /\ TagArrives
      /\ Holding(dmemResp, Words) /\ dmem \in [MemoryWords -> Words]
  BY <1>1 DEF SystemTyped
<1>6. instr \in Fetched(MemoryWords)
  BY SystemsAssumption DEF Fetched
<1>7. "wb_q" \in DOMAIN queues /\ "tmem_rd_resp" \notin DOMAIN queues /\ "dmem_rd_resp" \notin DOMAIN queues
  BY <1>5 DEF CoreQueues
<1>8. CoreTyped(MemoryWords)' /\ ExecuteTyped(e, MemoryWords) /\ DOMAIN queues' = CoreQueues
  BY <1>3, <1>5, <1>6, <1>7, CoreEdge
<1>9. Holding(dmemResp', Words)
  <2>1. reads => e.puts["dmem_rd_req"] \in MemoryWords
    BY <1>8, ItemsOf DEF ExecuteTyped, PutsTyped
  <2> DEFINE word == IF reads THEN dmem[e.puts["dmem_rd_req"]] ELSE 0
  <2>2. reads => word \in Words
    BY <1>5, <2>1
  <2> HIDE DEF word
  <2> QED
    BY <1>4, <1>5, <2>2, ReplyTyped DEF word
<1>10. dmem' \in [MemoryWords -> Words]
  <2>1. writes => e.puts["dmem_wr_req"] \in Stores(MemoryWords)
    BY <1>8, ItemsOf DEF ExecuteTyped, PutsTyped
  <2> QED
    BY <1>4, <1>5, <2>1 DEF Stores
<1>11. FabricTyped'
  BY <1>1 DEF SystemTyped, FabricTyped, fabric, busVars
<1> QED
  BY <1>1, <1>2, <1>8, <1>9, <1>10, <1>11 DEF SystemTyped

(* What the adapter does is typed, and so are the requests it makes.       *)
LEMMA AdapterTyped ==
    ASSUME SystemTyped, top = "Marie"
    PROVE  /\ EffectTyped(Effect(CpuDmemAdapter.takes, CpuDmemAdapter.puts), Addresses)
           /\ Holding(Offer(CpuDmemAdapter.puts, "bus_req"), Requests(Addresses))
<1> DEFINE a == CpuDmemAdapter
<1>1. /\ CoreTyped(Addresses) /\ DOMAIN queues = CoreQueues \union AdapterQueues
      /\ LinkTyped(host, Requests(Addresses), Words)
  BY DEF SystemTyped, FabricTyped
<1>2. /\ Holding(queues["dmem_rd_req"], Addresses) /\ Holding(queues["dmem_wr_req"], Stores(Addresses))
      /\ "bus_resp" \notin DOMAIN queues
  BY <1>1, ItemsOf DEF CoreTyped, AdapterQueues, CoreQueues
<1>3. SUFFICES PutsTyped(a.puts, Addresses) /\ \A q \in a.takes \intersect DOMAIN queues : Holds(q)
  <2> HIDE DEF a
  <2>1. "bus_req" \in DOMAIN a.puts => a.puts["bus_req"] \in Requests(Addresses)
    BY <1>3, ItemsOf DEF PutsTyped
  <2>2. Holding(Offer(a.puts, "bus_req"), Requests(Addresses))
    BY <2>1 DEF Offer, Holding
  <2> QED
    BY <1>3, <2>2 DEF EffectTyped, Effect, a
<1>4. CASE phase = 0 /\ Holds("dmem_rd_req")
  <2> DEFINE addr == First("dmem_rd_req")
  <2>1. a = AdapterStep(1, {"dmem_rd_req"}, [bus_req |-> Read(addr)])
    BY <1>4 DEF CpuDmemAdapter
  <2>2. addr \in Addresses
    BY <1>2, <1>4 DEF Holding, Holds, First
  <2> HIDE DEF a, addr
  <2>3. Read(addr) \in Requests(Addresses)
    BY <2>2, CapabilityTypes DEF Read, Requests
  <2> QED
    BY <1>4, <2>1, <2>3, ItemsOf DEF AdapterStep, PutsTyped
<1>5. CASE phase = 0 /\ ~Holds("dmem_rd_req") /\ Holds("dmem_wr_req")
  <2> DEFINE w == First("dmem_wr_req")
  <2>1. a = AdapterStep(2, {"dmem_wr_req"}, [bus_req |-> Write(w)])
    BY <1>5 DEF CpuDmemAdapter
  <2>2. w \in Stores(Addresses)
    BY <1>2, <1>5 DEF Holding, Holds, First
  <2> HIDE DEF a, w
  <2>3. Write(w) \in Requests(Addresses)
    BY <2>2 DEF Write, Requests, Stores
  <2> QED
    BY <1>5, <2>1, <2>3, ItemsOf DEF AdapterStep, PutsTyped
<1>6. CASE phase = 1 /\ Readable(host.resp)
  <2> DEFINE word == Head(host.resp.items)
  <2>1. a = AdapterStep(0, {"bus_resp"}, [dmem_rd_resp |-> word])
    BY <1>6 DEF CpuDmemAdapter
  <2>2. word \in Words
    BY <1>1, <1>6, SeenIsThere DEF LinkTyped
  <2> HIDE DEF a, word
  <2> QED
    BY <1>2, <2>1, <2>2, ItemsOf DEF AdapterStep, PutsTyped
<1>7. CASE phase = 2 /\ Readable(host.resp)
  <2>1. a = AdapterStep(0, {"bus_resp"}, <<>>)
    BY <1>7 DEF CpuDmemAdapter
  <2> QED
    BY <1>2, <2>1 DEF AdapterStep, PutsTyped
<1>8. CASE /\ ~(phase = 0 /\ Holds("dmem_rd_req"))
           /\ ~(phase = 0 /\ ~Holds("dmem_rd_req") /\ Holds("dmem_wr_req"))
           /\ ~(phase = 1 /\ Readable(host.resp)) /\ ~(phase = 2 /\ Readable(host.resp))
  <2>1. a = AdapterStep(phase, {}, <<>>)
    BY <1>8 DEF CpuDmemAdapter
  <2> QED
    BY <2>1 DEF AdapterStep, PutsTyped
<1> QED
  BY <1>4, <1>5, <1>6, <1>7, <1>8

(* An edge of the CPU's clock in Marie.                                    *)
LEMMA CpuClkTyped == SystemTyped /\ Marie /\ CpuClk => SystemTyped'
<1> SUFFICES ASSUME SystemTyped, Marie, CpuClk PROVE SystemTyped'
  OBVIOUS
<1> DEFINE resp   == queues["dmem_rd_resp"]
           e      == Execute(resp)
           a      == CpuDmemAdapter
           others == {Effect(a.takes, a.puts)}
           offer  == Offer(a.puts, "bus_req")
           take   == "bus_resp" \in a.takes
<1>1. top = "Marie" /\ top' = top
  BY DEF Marie
<1>2. TagArrives' /\ BusTakesTurns'
  BY NextKeepsTag, NextKeepsTurns DEF SystemTyped, SystemsNext, Next
<1>3. PICK instr \in Instructions :
        /\ queues' = QueuesAfter(Effects(instr, e, others))
        /\ stash' = e.stash /\ csr' = e.csr /\ regfile' = RegfileAfter
        /\ tags' = IF "tmem_wr_req" \in DOMAIN e.puts THEN e.puts["tmem_wr_req"] ELSE tags
        /\ tagResp' = ReadReply(tagResp, "tmem_rd_req" \in DOMAIN e.puts, tags, "tmem_rd_resp" \in e.takes)
  BY DEF CpuClk, CpuEdge, Effects
<1>4. /\ host' = [req |-> WriterEdge(host.req, BusDepth, offer), resp |-> ReaderEdge(host.resp, take)]
      /\ UNCHANGED <<device, dmem, dmemResp, uart>>
  BY DEF CpuClk, devVars
<1>5. /\ CoreTyped(Addresses) /\ DOMAIN queues = CoreQueues \union AdapterQueues /\ TagArrives
      /\ LinkTyped(host, Requests(Addresses), Words)
  BY <1>1 DEF SystemTyped, FabricTyped
<1>6. instr \in Fetched(Addresses) /\ MemoryWords \subseteq Addresses
  BY CpuAssumption DEF Fetched, InstructionSet, Addresses
<1>7. /\ "wb_q" \in DOMAIN queues /\ "tmem_rd_resp" \notin DOMAIN queues
      /\ "dmem_rd_resp" \in DOMAIN queues /\ Holding(resp, Words)
  BY <1>5, ItemsOf DEF CoreTyped, CoreQueues, AdapterQueues
<1>8. /\ \A x \in others : EffectTyped(x, Addresses)
      /\ Holding(offer, Requests(Addresses)) /\ take \in BOOLEAN
  BY <1>1, AdapterTyped
<1> HIDE DEF offer, take, others
<1>9. CoreTyped(Addresses)' /\ DOMAIN queues' = CoreQueues \union AdapterQueues
  BY <1>3, <1>5, <1>6, <1>7, <1>8, CoreEdge
<1>10. FabricTyped'
  <2>1. LinkTyped(host', Requests(Addresses), Words)
    BY <1>4, <1>5, <1>8, NearEdgeTyped
  <2> QED
    BY <1>4, <2>1 DEF SystemTyped, FabricTyped
<1> QED
  BY <1>1, <1>2, <1>4, <1>9, <1>10 DEF SystemTyped

(* What the crossbar hands on: a request to the device it is for.          *)
LEMMA XbarTyped ==
    ASSUME SystemTyped
    PROVE  /\ Holding(Xbar.answer, Words)
           /\ \A d \in Targets : Holding(Offer(Xbar.requests, d), Served(d))
<1> DEFINE x       == Xbar
           request == Head(host.req.items)
           target  == Route(request.addr)
<1>1. LinkTyped(host, Requests(Addresses), Words) /\ \A d \in Targets : LinkTyped(device[d], Served(d), Words)
  BY DEF SystemTyped, FabricTyped
<1>2. CASE xphase = "idle" /\ Readable(host.req) /\ target \in Targets
  <2>1. x = XbarStep(target, [d \in {target} |-> request], {}, <<>>)
    BY <1>2 DEF Xbar
  <2>2. request \in Requests(Addresses)
    BY <1>1, <1>2, SeenIsThere DEF LinkTyped
  <2>3. request \in Served(target)
    <3>1. /\ request = [we |-> request.we, addr |-> request.addr, data |-> request.data]
          /\ request.we \in BOOLEAN /\ request.addr \in Addresses /\ request.data \in Words
      BY <2>2 DEF Requests
    <3>2. target = "mem" => request.addr \in MemoryWords
      BY <3>1, CpuAssumption DEF Route, Addresses, Unmapped
    <3> HIDE DEF request, target
    <3>3. CASE target = "mem"
      BY <3>1, <3>2, <3>3 DEF Served, Requests
    <3>4. CASE target # "mem"
      BY <2>2, <3>4 DEF Served
    <3> QED
      BY <3>3, <3>4
  <2> HIDE DEF x, request, target
  <2>4. x.answer = <<>> /\ \A d \in Targets : Offer(x.requests, d) = IF d = target THEN <<request>> ELSE <<>>
    BY <2>1 DEF XbarStep, Offer
  <2>5. \A d \in Targets : Holding(Offer(x.requests, d), Served(d))
    BY <2>3, <2>4 DEF Holding
  <2> QED
    BY <2>4, <2>5 DEF Holding, x
<1>3. CASE xphase = "idle" /\ Readable(host.req) /\ target \notin Targets
  <2>1. x = XbarStep("idle", <<>>, {}, <<0>>)
    BY <1>3 DEF Xbar
  <2> QED
    BY <2>1, CapabilityTypes DEF XbarStep, Offer, Holding
<1>4. CASE xphase # "idle" /\ Readable(device[xphase].resp)
  <2> DEFINE word == Head(device[xphase].resp.items)
  <2>1. x = XbarStep("idle", <<>>, {xphase}, <<word>>)
    BY <1>4 DEF Xbar
  <2>2. word \in Words
    BY <1>1, <1>4, SeenIsThere DEF LinkTyped, SystemTyped, BusTakesTurns
  <2> HIDE DEF word
  <2> QED
    BY <2>1, <2>2 DEF XbarStep, Offer, Holding
<1>5. CASE /\ ~(xphase = "idle" /\ Readable(host.req))
           /\ ~(xphase # "idle" /\ Readable(device[xphase].resp))
  <2>1. x = XbarStep(xphase, <<>>, {}, <<>>)
    BY <1>5 DEF Xbar
  <2> QED
    BY <2>1 DEF XbarStep, Offer, Holding
<1> QED
  BY <1>2, <1>3, <1>4, <1>5

(* An edge of the crossbar's clock.                                        *)
LEMMA XbarClkTyped == SystemTyped /\ Marie /\ XbarClk => SystemTyped'
<1> SUFFICES ASSUME SystemTyped, Marie, XbarClk PROVE SystemTyped'
  OBVIOUS
<1> DEFINE x        == Xbar
           take     == xphase = "idle"
           offer(d) == Offer(x.requests, d)
           took(d)  == d \in x.answered
<1>1. /\ top = "Marie" /\ top' = top
      /\ UNCHANGED <<queues, stash, csr, regfile, tags, tagResp, dmem, dmemResp, uart>>
  BY DEF Marie, XbarClk, cpuVars, devVars
<1>2. TagArrives' /\ BusTakesTurns'
  BY NextKeepsTag, NextKeepsTurns DEF SystemTyped, SystemsNext, Next
<1>3. /\ host' = [req |-> ReaderEdge(host.req, take), resp |-> WriterEdge(host.resp, BusDepth, x.answer)]
      /\ device' = [d \in Targets |-> [req |-> WriterEdge(device[d].req, BusDepth, offer(d)),
                                       resp |-> ReaderEdge(device[d].resp, took(d))]]
  BY DEF XbarClk
<1>4. Holding(x.answer, Words) /\ \A d \in Targets : Holding(offer(d), Served(d))
  BY XbarTyped
<1>5. take \in BOOLEAN /\ \A d \in Targets : took(d) \in BOOLEAN
  OBVIOUS
<1> HIDE DEF x, take, offer, took
<1>6. LinkTyped(host', Requests(Addresses), Words)
  BY <1>3, <1>4, <1>5, FarEdgeTyped DEF SystemTyped, FabricTyped
<1>7. ASSUME NEW d \in Targets
      PROVE  LinkTyped(device'[d], Served(d), Words)
  <2>1. device'[d] = [req |-> WriterEdge(device[d].req, BusDepth, offer(d)),
                      resp |-> ReaderEdge(device[d].resp, took(d))]
    BY <1>3
  <2>2. LinkTyped(device[d], Served(d), Words)
    BY DEF SystemTyped, FabricTyped
  <2> QED
    BY <1>4, <1>5, <2>1, <2>2, NearEdgeTyped
<1>8. FabricTyped'
  BY <1>1, <1>6, <1>7 DEF SystemTyped, FabricTyped
<1>9. CoreTyped(Addresses)'
  BY <1>1 DEF SystemTyped, CoreTyped
<1> QED
  BY <1>1, <1>2, <1>8, <1>9 DEF SystemTyped

(* The UART's queues stay within their depths. *)
LEMMA UartTyped ==
    ASSUME uart.tx \in 0 .. TxDepth, uart.rx \in 0 .. RxDepth, NEW sent, NEW arrived
    PROVE  /\ UartQueuesAfter(sent, arrived).tx \in 0 .. TxDepth
           /\ UartQueuesAfter(sent, arrived).rx \in 0 .. RxDepth
<1> DEFINE after(n, depth, took, puts) ==
               n - (IF took /\ n > 0 THEN 1 ELSE 0) + (IF puts /\ n < depth THEN 1 ELSE 0)
<1>1. ASSUME NEW depth \in Nat, NEW n \in 0 .. depth, NEW took, NEW puts
      PROVE  after(n, depth, took, puts) \in 0 .. depth
  <2> DEFINE less == IF took /\ n > 0 THEN 1 ELSE 0
             more == IF puts /\ n < depth THEN 1 ELSE 0
  <2>1. less \in {0, 1} /\ (n = 0 => less = 0)
    BY <1>1
  <2>2. more \in {0, 1} /\ (n = depth => more = 0)
    BY <1>1
  <2> HIDE DEF less, more
  <2>3. n - less + more \in 0 .. depth
    BY <1>1, <2>1, <2>2
  <2> QED
    BY <2>3 DEF less, more
<1>2. /\ UartQueuesAfter(sent, arrived).tx = after(uart.tx, TxDepth, sent, UartWrites)
      /\ UartQueuesAfter(sent, arrived).rx = after(uart.rx, RxDepth, UartReads, arrived)
  BY DEF UartQueuesAfter
<1> HIDE DEF after
<1> QED
  BY <1>1, <1>2, SocAssumption

(* A request to memory that is there is one that memory can serve.         *)
LEMMA MemoryAsked ==
    ASSUME SystemTyped, Asked("mem")
    PROVE  Request("mem").addr \in MemoryWords /\ Request("mem").data \in Words
<1>1. LinkTyped(device["mem"], Requests(MemoryWords), Words)
  BY DEF SystemTyped, FabricTyped, Served, Targets
<1>2. Request("mem") \in Requests(MemoryWords)
  BY <1>1, SeenIsThere DEF LinkTyped, Asked, Request
<1> QED
  BY <1>2 DEF Requests

(* An edge of the devices' clock.                                          *)
LEMMA DevClkTyped == SystemTyped /\ Marie /\ DevClk => SystemTyped'
<1> SUFFICES ASSUME SystemTyped, Marie, DevClk PROVE SystemTyped'
  OBVIOUS
<1>1. /\ top = "Marie" /\ top' = top
      /\ UNCHANGED <<queues, stash, csr, regfile, tags, tagResp, host>>
  BY DEF Marie, DevClk, cpuVars, busVars
<1>2. TagArrives' /\ BusTakesTurns'
  BY NextKeepsTag, NextKeepsTurns DEF SystemTyped, SystemsNext, Next
<1>3. PICK word \in Words :
          device' = [d \in Targets |-> IF d = "mem" THEN MemDevice
                                       ELSE IF d = "uart" THEN UartDevice(word)
                                       ELSE AnswersAtOnce(d, word)]
  BY CapabilityTypes DEF DevClk
<1>4. 0 \in Words /\ \A d \in Targets : LinkTyped(device[d], Served(d), Words)
  BY CapabilityTypes DEF SystemTyped, FabricTyped
<1>5. ASSUME NEW d \in Targets, d # "mem"
      PROVE  LinkTyped(device'[d], Served(d), Words)
  <2>1. PICK w \in Words : device'[d] = AnswersAtOnce(d, w)
    <3>1. CASE d = "uart"
      <4>1. device'[d] = UartDevice(word)
        BY <1>3, <1>5, <3>1
      <4>2. CASE UartReads /\ uart.rx > 0
        BY <3>1, <4>1, <4>2 DEF UartDevice
      <4>3. CASE ~(UartReads /\ uart.rx > 0)
        BY <1>4, <3>1, <4>1, <4>3 DEF UartDevice
      <4> QED
        BY <4>2, <4>3
    <3>2. CASE d # "uart"
      BY <1>3, <1>5, <3>2
    <3> QED
      BY <3>1, <3>2
  <2> DEFINE answer == IF Asked(d) THEN <<w>> ELSE <<>>
  <2>2. device'[d] = [req |-> ReaderEdge(device[d].req, TRUE), resp |-> WriterEdge(device[d].resp, BusDepth, answer)]
    BY <2>1 DEF AnswersAtOnce, DeviceEdge
  <2>3. Holding(answer, Words)
    BY DEF Holding
  <2> HIDE DEF answer
  <2> QED
    BY <1>4, <2>2, <2>3, FarEdgeTyped
<1>6. LinkTyped(device'["mem"], Served("mem"), Words)
  <2> DEFINE take   == MemWrites \/ MemReads
             answer == IF MemWrites THEN <<0>> ELSE IF MemAnswers THEN dmemResp ELSE <<>>
  <2>1. "mem" \in Targets /\ take \in BOOLEAN
    BY DEF Targets, MemWrites, MemReads, Asked
  <2>2. device'["mem"] = [req |-> ReaderEdge(device["mem"].req, take),
                          resp |-> WriterEdge(device["mem"].resp, BusDepth, answer)]
    BY <1>3, <2>1 DEF MemDevice, DeviceEdge
  <2>3. Holding(answer, Words)
    <3>1. CASE MemWrites
      BY <1>4, <3>1 DEF Holding
    <3>2. CASE ~MemWrites /\ MemAnswers
      BY <3>2 DEF SystemTyped
    <3>3. CASE ~MemWrites /\ ~MemAnswers
      BY <3>3 DEF Holding
    <3> QED
      BY <3>1, <3>2, <3>3
  <2> HIDE DEF answer, take
  <2> QED
    BY <1>4, <2>1, <2>2, <2>3, FarEdgeTyped
<1>7. uart'.tx \in 0 .. TxDepth /\ uart'.rx \in 0 .. RxDepth
  <2>1. PICK sent, arrived : uart' = UartQueuesAfter(sent, arrived)
    BY DEF DevClk
  <2> QED
    BY <2>1, UartTyped DEF SystemTyped, FabricTyped
<1>8. dmem' \in [MemoryWords -> Words]
  <2>1. CASE MemWrites
    <3>1. Request("mem").addr \in MemoryWords /\ Request("mem").data \in Words
      BY <2>1, MemoryAsked DEF MemWrites
    <3>2. dmem' = [dmem EXCEPT ![Request("mem").addr] = Request("mem").data]
      BY <2>1 DEF DevClk
    <3> QED
      BY <3>1, <3>2 DEF SystemTyped
  <2>2. CASE ~MemWrites
    BY <2>2 DEF DevClk, SystemTyped
  <2> QED
    BY <2>1, <2>2
<1>9. Holding(dmemResp', Words)
  <2>1. CASE MemReads
    <3>1. dmem[Request("mem").addr] \in Words
      BY <2>1, MemoryAsked DEF MemReads, SystemTyped
    <3>2. dmemResp' = <<dmem[Request("mem").addr]>>
      BY <2>1 DEF DevClk
    <3> QED
      BY <3>1, <3>2 DEF Holding
  <2>2. CASE ~MemReads
    BY <2>2 DEF DevClk, SystemTyped, Holding
  <2> QED
    BY <2>1, <2>2
<1>10. FabricTyped' /\ CoreTyped(Addresses)'
  BY <1>1, <1>5, <1>6, <1>7 DEF SystemTyped, FabricTyped, CoreTyped
<1> QED
  BY <1>1, <1>2, <1>8, <1>9, <1>10 DEF SystemTyped

LEMMA NextTyped == SystemTyped /\ [SystemsNext]_allVars => SystemTyped'
<1> SUFFICES ASSUME SystemTyped, [SystemsNext]_allVars PROVE SystemTyped'
  OBVIOUS
<1>1. CASE UNCHANGED allVars
  <2>1. TagArrives' /\ BusTakesTurns'
    BY NextKeepsTag, NextKeepsTurns DEF SystemTyped
  <2>2. UNCHANGED <<top, queues, stash, csr, regfile, tags, tagResp, host, device, dmem, dmemResp, uart>>
    BY <1>1 DEF allVars, vars, cpuVars, busVars, devVars
  <2>3. /\ top = "CPU" => CoreTyped(MemoryWords)'
        /\ top = "Marie" => CoreTyped(Addresses)'
    BY <2>2 DEF SystemTyped, CoreTyped
  <2>4. FabricTyped'
    BY <2>2 DEF SystemTyped, FabricTyped
  <2> QED
    BY <2>1, <2>2, <2>3, <2>4 DEF SystemTyped
<1> QED
  BY <1>1, TickTyped, CpuClkTyped, XbarClkTyped, DevClkTyped DEF SystemsNext, Next

LEMMA ShortWhenHolding == ASSUME NEW T, NEW s, Holding(s, T) PROVE Len(s) <= 1
<1>1. CASE s = <<>>
  <2>1. Len(s) = 0
    BY <1>1, ShortQueues
  <2> QED
    BY <2>1
<1>2. CASE \E x \in T : s = <<x>>
  <2>1. Len(s) = 1
    BY <1>2, ShortQueues
  <2> QED
    BY <2>1
<1> QED
  BY <1>1, <1>2 DEF Holding

LEMMA LinkIsOne == ASSUME NEW Q, NEW R, NEW link, LinkTyped(link, Q, R) PROVE IsLink(link)
<1>1. \A T : \A c : CrossingTyped(c, T) =>
          /\ Len(c.items) <= BusDepth
          /\ c.seen2 <= c.seen1 /\ c.seen1 <= Len(c.items)
          /\ c.hidden1 <= c.hidden2 /\ Len(c.items) + c.hidden2 <= BusDepth
  <2> SUFFICES ASSUME NEW T, NEW c, CrossingTyped(c, T)
               PROVE  /\ Len(c.items) <= BusDepth
                      /\ c.seen2 <= c.seen1 /\ c.seen1 <= Len(c.items)
                      /\ c.hidden1 <= c.hidden2 /\ Len(c.items) + c.hidden2 <= BusDepth
    OBVIOUS
  <2>1. /\ Len(c.items) \in Nat /\ c.hidden2 \in Nat /\ BusDepth \in Nat
        /\ Len(c.items) + c.hidden2 <= BusDepth
    BY CrossingCounts, SocAssumption
  <2>2. Len(c.items) <= BusDepth
    BY <2>1
  <2> QED
    BY <2>1, <2>2, CrossingCounts
<1> QED
  BY <1>1 DEF LinkTyped, IsLink

LEMMA TypedIsTypeOK == SystemTyped => SystemsTypeOK
<1> SUFFICES ASSUME SystemTyped PROVE SystemsTypeOK
  OBVIOUS
<1>1. ASSUME NEW reach, CoreTyped(reach), reach \subseteq Addresses, CoreQueues \subseteq DOMAIN queues
      PROVE  CpuTypeOK
  <2>1. \A q \in DOMAIN queues : Len(queues[q]) <= 1
    BY <1>1, ShortWhenHolding DEF CoreTyped
  <2>2. Len(tagResp) <= 1
    BY <1>1, ShortWhenHolding DEF CoreTyped
  <2>3. stash \in [phase : 0 .. 5, rd : Registers, addr : Addresses, val : Capabilities, lo : Words]
    BY <1>1 DEF CoreTyped, Stashes
  <2> QED
    BY <1>1, <2>1, <2>2, <2>3 DEF CoreTyped, CpuTypeOK
<1>2. dmem \in [MemoryWords -> Words] /\ Len(dmemResp) <= 1
  BY ShortWhenHolding DEF SystemTyped
<1>3. CASE top = "CPU"
  <2>1. CpuTypeOK
    BY <1>1, <1>3 DEF SystemTyped, Addresses
  <2>2. Alone!CpuTypeOK
    BY <2>1 DEF CpuTypeOK, Alone!CpuTypeOK, CoreQueues, Alone!CoreQueues, Alone!Addresses, Addresses,
       Alone!MemoryWords, MemoryWords, Alone!Unmapped, Unmapped, Alone!Capabilities, Capabilities,
       Alone!Words, Words
  <2>3. Alone!CpuAloneTypeOK
    BY <1>2, <2>2 DEF Alone!CpuAloneTypeOK, Alone!MemoryWords, MemoryWords, Alone!Words, Words
  <2> QED
    BY <1>3, <2>3 DEF SystemsTypeOK
<1>4. CASE top = "Marie"
  <2>1. CpuTypeOK
    BY <1>1, <1>4 DEF SystemTyped
  <2>2. IsLink(host) /\ \A d \in Targets : IsLink(device[d])
    BY LinkIsOne DEF SystemTyped, FabricTyped
  <2>3. SocTypeOK
    BY <1>2, <2>1, <2>2 DEF SocTypeOK, SystemTyped, FabricTyped, BusTakesTurns
  <2> QED
    BY <1>4, <2>3 DEF SystemsTypeOK
<1> QED
  BY <1>3, <1>4 DEF SystemTyped

(* For every word size, set of registers and devices, depth of the queues  *)
(* and program, both systems keep their types, and the two sides of every  *)
(* crossing of the bus know of each other in order                         *)
(* (src/examples/cpu_core.tbn, marie.tbn).                                 *)
THEOREM SystemsTypes == Spec => []SystemsTypeOK
<1>1. Spec => []SystemTyped
  BY InitTyped, NextTyped, PTL DEF Spec
<1> QED
  BY <1>1, TypedIsTypeOK, PTL

-----------------------------------------------------------------------------
(* The sequential machine of Isa, as a relation between what a program     *)
(* sees before and after a step: the instruction under way, the registers, *)
(* memory and the trap register.                                           *)

Performs(d, r, m, c, r1, m1, c1) ==
    \/ d.op = "alu"   /\ r1 = Assign(r, d.rd, AluResult(d)) /\ m1 = m /\ c1 = c
    \/ d.op = "cap"   /\ r1 = Assign(r, d.rd, Root) /\ m1 = m /\ c1 = c
    \/ d.op = "csrrw" /\ r1 = Assign(r, d.rd, c) /\ m1 = m /\ c1 = d.val
    \/ d.op = "jump"  /\ r1 = r /\ m1 = m /\ c1 = c
    \/ d.op = "trap"  /\ r1 = r /\ m1 = m /\ c1 = IntCap(Cause)
    \/ /\ d.op = "lw"
       /\ \E w \in Words : (d.addr \in MemoryWords => w = m[d.addr]) /\ r1 = Assign(r, d.rd, IntCap(w))
       /\ m1 = m /\ c1 = c
    \/ /\ d.op = "sw"
       /\ m1 = [a \in DOMAIN m |-> IF a = "tag" THEN 0 ELSE IF a = d.addr THEN d.val.lo ELSE m[a]]
       /\ r1 = r /\ c1 = c
    \/ d.op = "lc"    /\ r1 = Assign(r, d.rd, m) /\ m1 = m /\ c1 = c
    \/ d.op = "sc"    /\ r1 = r /\ m1 = d.val /\ c1 = c

Moves(u, r, m, c, u1, r1, m1, c1) ==
    \/ u1 = u /\ r1 = r /\ m1 = m /\ c1 = c
    \/ /\ u = None /\ r1 = r /\ m1 = m /\ c1 = c
       /\ \E i \in Instructions \union AloneInstructions : u1 = Decoded(i, r)
    \/ u # None /\ u1 = None /\ Performs(u, r, m, c, r1, m1, c1)

ProgramMemory == IF top = "CPU" THEN Alone!Memory ELSE Memory

LEMMA MovesAreIsa ==
    ASSUME Moves(UnderWay, Registered, ProgramMemory, csr, UnderWay', Registered', ProgramMemory', csr')
    PROVE  [View!Next]_View!isaVars
<1> DEFINE u  == UnderWay
           r  == Registered
           m  == ProgramMemory
           u1 == UnderWay'
           r1 == Registered'
           m1 == ProgramMemory'
<1>1. /\ m = IF top = "CPU" THEN Alone!Memory ELSE Memory
      /\ m1 = IF top' = "CPU" THEN Alone!Memory' ELSE Memory'
  BY DEF ProgramMemory
<1> HIDE DEF u, r, m, u1, r1, m1
<1>2. CASE u1 = u /\ r1 = r /\ m1 = m /\ csr' = csr
  BY <1>1, <1>2 DEF View!isaVars, u, r, u1, r1
<1>3. CASE /\ u = None /\ r1 = r /\ m1 = m /\ csr' = csr
           /\ \E i \in Instructions \union AloneInstructions : u1 = Decoded(i, r)
  <2>1. PICK i \in Instructions \union AloneInstructions : u1 = Decoded(i, r)
    BY <1>3
  <2>2. View!Decoded(i, r) = Decoded(i, r) /\ View!None = None
    BY DEF View!Decoded, Decoded, View!Operand, Operand, View!IntCap, IntCap, View!Null, Null, View!None, None
  <2>3. View!Issue(i)
    BY <1>1, <1>3, <2>1, <2>2 DEF View!Issue, u, r, u1, r1
  <2> QED
    BY <2>3 DEF View!Next
<1>4. CASE u # None /\ u1 = None /\ Performs(u, r, m, csr, r1, m1, csr')
  <2>1. /\ \A d : View!AluResult(d) = AluResult(d)
        /\ \A w : View!IntCap(w) = IntCap(w)
        /\ View!Root = Root /\ View!Cause = Cause /\ View!None = None
        /\ View!Words = Words /\ View!MemoryWords = MemoryWords
        /\ \A rs, rd, cap : View!Assign(rs, rd, cap) = Assign(rs, rd, cap)
    BY DEF View!AluResult, AluResult, View!IntCap, IntCap, View!Root, Root, View!Cause, Cause, View!None, None,
       View!Words, Words, View!MemoryWords, MemoryWords, View!Assign, Assign
  <2>2. ASSUME NEW op, u.op = op PROVE View!Perform(op)
    BY <1>4, <2>1, <2>2 DEF View!Perform, u, u1
  <2>3. \A rd, cap : r1 = Assign(r, rd, cap) => View!Loads(rd, cap)
    BY <2>1 DEF View!Loads, r, r1
  <2>4. CASE u.op = "alu" /\ r1 = Assign(r, u.rd, AluResult(u)) /\ m1 = m /\ csr' = csr
    <3>1. View!Alu
      BY <1>1, <2>1, <2>2, <2>3, <2>4 DEF View!Alu, u
    <3> QED
      BY <3>1 DEF View!Next
  <2>5. CASE u.op = "cap" /\ r1 = Assign(r, u.rd, Root) /\ m1 = m /\ csr' = csr
    <3>1. View!Derive
      BY <1>1, <2>1, <2>2, <2>3, <2>5 DEF View!Derive, u
    <3> QED
      BY <3>1 DEF View!Next
  <2>6. CASE u.op = "csrrw" /\ r1 = Assign(r, u.rd, csr) /\ m1 = m /\ csr' = u.val
    <3>1. View!Csrrw
      BY <1>1, <2>1, <2>2, <2>3, <2>6 DEF View!Csrrw, u
    <3> QED
      BY <3>1 DEF View!Next
  <2>7. CASE u.op = "jump" /\ r1 = r /\ m1 = m /\ csr' = csr
    <3>1. View!Jump
      BY <1>1, <2>1, <2>2, <2>7 DEF View!Jump, u, r, r1
    <3> QED
      BY <3>1 DEF View!Next
  <2>8. CASE u.op = "trap" /\ r1 = r /\ m1 = m /\ csr' = IntCap(Cause)
    <3>1. View!Trap
      BY <1>1, <2>1, <2>2, <2>8 DEF View!Trap, u, r, r1
    <3> QED
      BY <3>1 DEF View!Next
  <2>9. CASE /\ u.op = "lw" /\ m1 = m /\ csr' = csr
             /\ \E w \in Words : (u.addr \in MemoryWords => w = m[u.addr]) /\ r1 = Assign(r, u.rd, IntCap(w))
    <3>1. PICK w \in Words : (u.addr \in MemoryWords => w = m[u.addr]) /\ View!Loads(u.rd, View!IntCap(w))
      BY <2>1, <2>3, <2>9
    <3>2. View!Perform("lw")
      BY <2>2, <2>9
    <3>3. CASE u.addr \in MemoryWords
      <4>1. View!LoadWord
        BY <1>1, <2>1, <2>9, <3>1, <3>2, <3>3 DEF View!LoadWord, u
      <4> QED
        BY <4>1 DEF View!Next
    <3>4. CASE u.addr \notin MemoryWords
      <4>1. View!LoadWord
        BY <1>1, <2>1, <2>9, <3>1, <3>2, <3>4 DEF View!LoadWord, u
      <4> QED
        BY <4>1 DEF View!Next
    <3> QED
      BY <3>3, <3>4
  <2>10. CASE /\ u.op = "sw" /\ r1 = r /\ csr' = csr
              /\ m1 = [a \in DOMAIN m |-> IF a = "tag" THEN 0 ELSE IF a = u.addr THEN u.val.lo ELSE m[a]]
    <3>1. View!StoreWord
      BY <1>1, <2>1, <2>2, <2>10 DEF View!StoreWord, u, r, r1
    <3> QED
      BY <3>1 DEF View!Next
  <2>11. CASE u.op = "lc" /\ r1 = Assign(r, u.rd, m) /\ m1 = m /\ csr' = csr
    <3>1. View!LoadCap
      BY <1>1, <2>1, <2>2, <2>3, <2>11 DEF View!LoadCap, u
    <3> QED
      BY <3>1 DEF View!Next
  <2>12. CASE u.op = "sc" /\ r1 = r /\ m1 = u.val /\ csr' = csr
    <3>1. View!StoreCap
      BY <1>1, <2>1, <2>2, <2>12 DEF View!StoreCap, u, r, r1
    <3> QED
      BY <3>1 DEF View!Next
  <2> QED
    BY <1>4, <2>4, <2>5, <2>6, <2>7, <2>8, <2>9, <2>10, <2>11, <2>12 DEF Performs
<1>5. Moves(u, r, m, csr, u1, r1, m1, csr')
  BY DEF u, r, m, u1, r1, m1
<1> QED
  BY <1>2, <1>3, <1>4, <1>5 DEF Moves

-----------------------------------------------------------------------------
(* What Execute makes of the instruction it has.  R is memory, tag and all. *)

Loading(s) ==
    IF s.phase \in 1 .. 4
    THEN [op |-> OpOfPhase[s.phase], rd |-> s.rd, imm |-> 0, addr |-> s.addr, val |-> s.val]
    ELSE None

AtExecute == IF stash.phase = 0 THEN First("decode_q") ELSE Loading(stash)

(* The word that Execute awaits, and its being what memory holds. *)
Wanted(s) == IF s.phase \in {1, 2} THEN s.addr ELSE IF s.phase = 3 THEN "lo" ELSE "hi"

Serves(word, s, R) == Wanted(s) \in MemoryWords => word = R[Wanted(s)]

(* What Execute remembers of memory. *)
Remembers(s, R) ==
    /\ s.phase = 4 => s.lo = R["lo"]
    /\ s.phase = 5 => s.val.lo = R["lo"]

(* Memory and registers after what Execute puts; memory to the program. *)
Stored(R, puts) ==
    [a \in {"tag", "hi", "lo"} |->
        IF a = "tag" THEN IF "tmem_wr_req" \in DOMAIN puts THEN puts["tmem_wr_req"] ELSE R[a]
        ELSE IF "dmem_wr_req" \in DOMAIN puts /\ puts["dmem_wr_req"].addr = a THEN puts["dmem_wr_req"].data
        ELSE R[a]]

RegsAfter(r, puts) ==
    IF "wb_q" \in DOMAIN puts /\ puts["wb_q"].wb THEN Assign(r, puts["wb_q"].rd, puts["wb_q"].val) ELSE r

Seen(R, s) == IF s.phase = 5 THEN s.val ELSE R

Sound(e, r, R) ==
    /\ Moves(AtExecute, r, Seen(R, stash), csr,
             Loading(e.stash), RegsAfter(r, e.puts), Seen(Stored(R, e.puts), e.stash), e.csr)
    /\ Remembers(e.stash, Stored(R, e.puts))
    /\ "dmem_rd_req" \in DOMAIN e.puts =>
          e.puts["dmem_rd_req"] = Wanted(e.stash) /\ DOMAIN e.puts \intersect {"dmem_wr_req", "tmem_wr_req"} = {}
    /\ "tmem_wr_req" \in DOMAIN e.puts => stash.phase \notin {3, 4}
    /\ e.stash.phase \in {1, 3, 4} => e.stash.rd # "x0"
    /\ "wb_q" \in DOMAIN e.puts /\ e.puts["wb_q"].wb => e.puts["wb_q"].rd # "x0"

LEMMA CapabilityIsItsParts ==
    ASSUME NEW R \in Capabilities
    PROVE  /\ \A c \in Capabilities : c["tag"] = R["tag"] /\ c["hi"] = R["hi"] /\ c["lo"] = R["lo"] => c = R
           /\ DOMAIN R = {"tag", "hi", "lo"}
           /\ \A puts : DOMAIN puts \intersect {"dmem_wr_req", "tmem_wr_req"} = {} => Stored(R, puts) = R
<1>1. \A c \in Capabilities : c["tag"] = R["tag"] /\ c["hi"] = R["hi"] /\ c["lo"] = R["lo"] => c = R
  BY DEF Capabilities
<1>2. DOMAIN R = {"tag", "hi", "lo"} /\ R = [a \in {"tag", "hi", "lo"} |-> R[a]]
  BY DEF Capabilities
<1>3. ASSUME NEW puts, DOMAIN puts \intersect {"dmem_wr_req", "tmem_wr_req"} = {}
      PROVE  Stored(R, puts) = R
  <2>1. Stored(R, puts) = [a \in {"tag", "hi", "lo"} |-> R[a]]
    BY <1>3 DEF Stored
  <2> QED
    BY <1>2, <2>1
<1> QED
  BY <1>1, <1>2, <1>3

(* An instruction that completes in Execute at once. *)
LEMMA RetireSound ==
    ASSUME stash.phase = 0, NEW d, d = First("decode_q"), d.op # "none", NEW e, NEW r, NEW R \in Capabilities,
           e.stash = IdleStash, NEW wb, e.puts = [next_pcc_q |-> Pcc, wb_q |-> wb],
           wb.wb => wb.rd # "x0",
           Performs(d, r, R, csr, IF wb.wb THEN Assign(r, wb.rd, wb.val) ELSE r, R, e.csr)
    PROVE  Sound(e, r, R)
<1>1. DOMAIN e.puts = {"next_pcc_q", "wb_q"} /\ e.puts["wb_q"] = wb /\ e.stash.phase = 0
  BY DEF IdleStash
<1>2. Stored(R, e.puts) = R
  BY <1>1, CapabilityIsItsParts
<1>3. Seen(R, stash) = R /\ Seen(Stored(R, e.puts), e.stash) = R /\ AtExecute = d /\ Loading(e.stash) = None
  BY <1>1, <1>2 DEF Seen, AtExecute, Loading
<1>4. RegsAfter(r, e.puts) = IF wb.wb THEN Assign(r, wb.rd, wb.val) ELSE r
  BY <1>1 DEF RegsAfter
<1>5. d # None
  BY DEF None
<1>6. Moves(AtExecute, r, Seen(R, stash), csr,
            Loading(e.stash), RegsAfter(r, e.puts), Seen(Stored(R, e.puts), e.stash), e.csr)
  BY <1>3, <1>4, <1>5 DEF Moves
<1> QED
  BY <1>1, <1>6 DEF Sound, Remembers

(* One that goes on in another phase, or waits. *)
LEMMA WaitingSound ==
    ASSUME NEW e, NEW r, NEW R \in Capabilities, Loading(e.stash) = AtExecute, e.csr = csr,
           stash.phase # 5, e.stash.phase # 5, Remembers(e.stash, R),
           DOMAIN e.puts \intersect {"dmem_wr_req", "tmem_wr_req", "wb_q"} = {},
           "dmem_rd_req" \in DOMAIN e.puts => e.puts["dmem_rd_req"] = Wanted(e.stash),
           e.stash.phase \in {1, 3, 4} => e.stash.rd # "x0"
    PROVE  Sound(e, r, R)
<1>1. Stored(R, e.puts) = R
  BY CapabilityIsItsParts
<1>2. Seen(R, stash) = R /\ Seen(Stored(R, e.puts), e.stash) = R /\ RegsAfter(r, e.puts) = r
  BY <1>1 DEF Seen, RegsAfter
<1> QED
  BY <1>1, <1>2 DEF Sound, Moves

(* Execute taking an instruction from Decode.                              *)
LEMMA DispatchSound ==
    ASSUME stash.phase = 0, NEW reach, NEW d \in Ready(reach), d = First("decode_q"),
           d.op # "alu" => d.imm = 0, d.op \in {"lw", "lc"} => d.rd # "x0",
           NEW r, NEW R \in Capabilities
    PROVE  Sound(Dispatch(d), r, R)
<1> DEFINE e == Dispatch(d)
<1>1. d.op \in Operations
  BY DEF Ready
<1>2. ASSUME NEW c
      PROVE  (IF Wb(d.rd # "x0", d.rd, c).wb
              THEN Assign(r, Wb(d.rd # "x0", d.rd, c).rd, Wb(d.rd # "x0", d.rd, c).val)
              ELSE r) = Assign(r, d.rd, c)
  BY DEF Wb, Assign
<1>3. ASSUME NEW c PROVE Wb(d.rd # "x0", d.rd, c).wb => Wb(d.rd # "x0", d.rd, c).rd # "x0"
  BY DEF Wb
<1>4. NoWb(d).wb = FALSE
  BY DEF NoWb, Wb
<1>5. d.op # "none"
  BY <1>1 DEF Operations
<1>6. CASE d.op \in {"alu", "cap", "csrrw"}
  <2>1. PICK c : /\ e.stash = IdleStash /\ e.puts = [next_pcc_q |-> Pcc, wb_q |-> Wb(d.rd # "x0", d.rd, c)]
                 /\ \/ d.op = "alu" /\ c = AluResult(d) /\ e.csr = csr
                    \/ d.op = "cap" /\ c = Root /\ e.csr = csr
                    \/ d.op = "csrrw" /\ c = csr /\ e.csr = d.val
    <3>1. CASE d.op = "alu"
      BY <3>1 DEF Dispatch, Retire, Step
    <3>2. CASE d.op = "cap"
      BY <3>2 DEF Dispatch, Retire, Step
    <3>3. CASE d.op = "csrrw"
      BY <3>3 DEF Dispatch, Retire, Step
    <3> QED
      BY <1>6, <3>1, <3>2, <3>3
  <2> DEFINE wb == Wb(d.rd # "x0", d.rd, c)
  <2>2. /\ e.puts = [next_pcc_q |-> Pcc, wb_q |-> wb] /\ (wb.wb => wb.rd # "x0")
        /\ (IF wb.wb THEN Assign(r, wb.rd, wb.val) ELSE r) = Assign(r, d.rd, c)
    BY <1>2, <1>3, <2>1
  <2> HIDE DEF wb, e
  <2>3. Performs(d, r, R, csr, IF wb.wb THEN Assign(r, wb.rd, wb.val) ELSE r, R, e.csr)
    BY <2>1, <2>2 DEF Performs
  <2>4. Sound(e, r, R)
    BY <1>5, <2>1, <2>2, <2>3, RetireSound
  <2> QED
    BY <2>4 DEF e
<1>7. CASE d.op \in {"jump", "trap"}
  <2>1. /\ e.stash = IdleStash /\ e.puts = [next_pcc_q |-> Pcc, wb_q |-> NoWb(d)]
        /\ \/ d.op = "jump" /\ e.csr = csr
           \/ d.op = "trap" /\ e.csr = IntCap(Cause)
    <3>1. CASE d.op = "jump"
      BY <3>1 DEF Dispatch, Retire, Step
    <3>2. CASE d.op = "trap"
      BY <3>2 DEF Dispatch, Retire, Step
    <3> QED
      BY <1>7, <3>1, <3>2
  <2> DEFINE wb == NoWb(d)
  <2>2. e.puts = [next_pcc_q |-> Pcc, wb_q |-> wb] /\ ~wb.wb
    BY <1>4, <2>1
  <2> HIDE DEF wb, e
  <2>3. Performs(d, r, R, csr, IF wb.wb THEN Assign(r, wb.rd, wb.val) ELSE r, R, e.csr)
    BY <2>1, <2>2 DEF Performs
  <2>4. Sound(e, r, R)
    BY <1>5, <2>1, <2>2, <2>3, RetireSound
  <2> QED
    BY <2>4 DEF e
<1>8. CASE d.op \in {"lw", "sw", "lc"}
  <2>1. PICK k \in 1 .. 3 : /\ e.stash = Waiting(k, d) /\ e.csr = csr
                            /\ DOMAIN e.puts = {"dmem_rd_req"}
                            /\ e.puts["dmem_rd_req"] = IF k = 3 THEN "lo" ELSE d.addr
                            /\ OpOfPhase[k] = d.op
    <3>1. CASE d.op = "lw"
      <4>1. e.stash = Waiting(1, d) /\ e.csr = csr /\ e.puts = [dmem_rd_req |-> d.addr]
        BY <3>1 DEF Dispatch, Step
      <4> QED
        BY <3>1, <4>1 DEF OpOfPhase
    <3>2. CASE d.op = "sw"
      <4>1. e.stash = Waiting(2, d) /\ e.csr = csr /\ e.puts = [dmem_rd_req |-> d.addr]
        BY <3>2 DEF Dispatch, Step
      <4> QED
        BY <3>2, <4>1 DEF OpOfPhase
    <3>3. CASE d.op = "lc"
      <4>1. e.stash = Waiting(3, d) /\ e.csr = csr /\ e.puts = [dmem_rd_req |-> "lo"]
        BY <3>3 DEF Dispatch, Step
      <4> QED
        BY <3>3, <4>1 DEF OpOfPhase
    <3> QED
      BY <1>8, <3>1, <3>2, <3>3
  <2>2. /\ e.stash.phase = k /\ e.stash.rd = d.rd /\ e.stash.addr = d.addr /\ e.stash.val = d.val
    BY <2>1 DEF Waiting
  <2>3. d = [op |-> d.op, rd |-> d.rd, imm |-> d.imm, addr |-> d.addr, val |-> d.val] /\ d.imm = 0
    BY <1>8 DEF Ready
  <2>4. Loading(e.stash) = AtExecute
    <3>1. Loading(e.stash) = [op |-> OpOfPhase[k], rd |-> d.rd, imm |-> 0, addr |-> d.addr, val |-> d.val]
      BY <2>2 DEF Loading
    <3> QED
      BY <2>1, <2>3, <3>1 DEF AtExecute
  <2>5. e.puts["dmem_rd_req"] = Wanted(e.stash) /\ Remembers(e.stash, R)
    BY <2>1, <2>2 DEF Wanted, Remembers
  <2>6. e.stash.phase \in {1, 3, 4} => e.stash.rd # "x0"
    BY <1>8, <2>1, <2>2 DEF OpOfPhase
  <2>7. stash.phase # 5 /\ e.stash.phase # 5
    BY <2>2
  <2>8. e.csr = csr /\ DOMAIN e.puts \intersect {"dmem_wr_req", "tmem_wr_req", "wb_q"} = {}
    BY <2>1
  <2> HIDE DEF e
  <2>9. Sound(e, r, R)
    BY <2>4, <2>5, <2>6, <2>7, <2>8, WaitingSound
  <2> QED
    BY <2>9 DEF e
<1>9. CASE d.op = "sc"
  <2>1. /\ e.stash = Waiting(5, d) /\ e.csr = csr
        /\ e.puts = [dmem_wr_req |-> [addr |-> "lo", data |-> d.val.lo]]
    BY <1>9 DEF Dispatch, Step
  <2>2. e.stash.phase = 5 /\ e.stash.val = d.val /\ DOMAIN e.puts = {"dmem_wr_req"}
        /\ e.puts["dmem_wr_req"].addr = "lo" /\ e.puts["dmem_wr_req"].data = d.val.lo
    BY <2>1 DEF Waiting
  <2> HIDE DEF e
  <2>3. Stored(R, e.puts)["lo"] = d.val.lo
    BY <2>2 DEF Stored
  <2>4. /\ Seen(R, stash) = R /\ Seen(Stored(R, e.puts), e.stash) = d.val /\ RegsAfter(r, e.puts) = r
        /\ AtExecute = d /\ Loading(e.stash) = None
    BY <2>2 DEF Seen, RegsAfter, AtExecute, Loading
  <2>5. d # None
    BY <1>5 DEF None
  <2>6. Performs(d, r, R, csr, r, d.val, e.csr)
    BY <1>9, <2>1 DEF Performs
  <2>7. Sound(e, r, R)
    BY <2>1, <2>2, <2>3, <2>4, <2>5, <2>6 DEF Sound, Moves, Remembers
  <2> QED
    BY <2>7 DEF e
<1> QED
  BY <1>1, <1>6, <1>7, <1>8, <1>9 DEF Operations

(* Execute in whatever phase it is, when the word and the tag that it gets *)
(* are what memory holds.                                                  *)
LEMMA ExecuteSound ==
    ASSUME TagArrives, NEW reach, MemoryWords \subseteq reach, CoreTyped(reach),
           NEW R \in Capabilities, Remembers(stash, R), tagResp # <<>> => Head(tagResp) = R["tag"],
           NEW resp, Holding(resp, Words), resp # <<>> => Serves(Head(resp), stash, R),
           stash.phase \in {1, 3, 4} => stash.rd # "x0",
           stash.phase = 0 /\ Holds("decode_q") =>
               /\ First("decode_q").op # "alu" => First("decode_q").imm = 0
               /\ First("decode_q").op \in {"lw", "lc"} => First("decode_q").rd # "x0",
           stash.phase # 0 => ~Holds("decode_q"),
           NEW r
    PROVE  (stash.phase # 0 \/ Holds("decode_q") => Sound(Execute(resp), r, R))
<1> DEFINE e == Execute(resp)
<1>1. /\ stash.phase \in 0 .. 5 /\ stash.rd \in Registers /\ stash.val \in Capabilities
      /\ stash.val.lo \in Words /\ stash.lo \in Words
  BY CapabilityTypes DEF CoreTyped, Stashes
<1>2. resp # <<>> => Head(resp) \in Words
  BY DEF Holding
<1>3. \A c : Wb(TRUE, stash.rd, c).wb /\ Wb(TRUE, stash.rd, c).rd = stash.rd /\ Wb(TRUE, stash.rd, c).val = c
  BY DEF Wb
<1>4. Wb(FALSE, stash.rd, Null).wb = FALSE
  BY DEF Wb
<1>5. stash.phase # 5 => Seen(R, stash) = R
  BY DEF Seen
(* An instruction that loads completes. *)
<1>6. ASSUME NEW c, NEW takes, e = Retire(Wb(TRUE, stash.rd, c), takes), stash.phase \in {1, 4},
             Performs(Loading(stash), r, R, csr, Assign(r, stash.rd, c), R, csr)
      PROVE  Sound(e, r, R)
  <2> DEFINE wb == Wb(TRUE, stash.rd, c)
  <2>1. /\ e.stash = IdleStash /\ e.csr = csr /\ e.puts = [next_pcc_q |-> Pcc, wb_q |-> wb]
    BY <1>6 DEF Retire, Step
  <2>2. wb.wb /\ wb.rd = stash.rd /\ wb.val = c /\ wb.rd # "x0"
    BY <1>3, <1>6
  <2> HIDE DEF wb
  <2>3. DOMAIN e.puts = {"next_pcc_q", "wb_q"} /\ e.puts["wb_q"] = wb /\ e.stash.phase = 0
    BY <2>1 DEF IdleStash
  <2> HIDE DEF e
  <2>4. Stored(R, e.puts) = R
    BY <2>3, CapabilityIsItsParts
  <2>5. /\ Seen(R, stash) = R /\ Seen(Stored(R, e.puts), e.stash) = R /\ Loading(e.stash) = None
        /\ RegsAfter(r, e.puts) = Assign(r, stash.rd, c) /\ AtExecute = Loading(stash)
    <3>1. Seen(R, stash) = R
      BY <1>6 DEF Seen
    <3>2. Seen(Stored(R, e.puts), e.stash) = R /\ Loading(e.stash) = None
      BY <2>3, <2>4 DEF Seen, Loading
    <3>3. RegsAfter(r, e.puts) = Assign(r, stash.rd, c)
      BY <2>2, <2>3 DEF RegsAfter
    <3>4. AtExecute = Loading(stash)
      BY <1>6 DEF AtExecute
    <3> QED
      BY <3>1, <3>2, <3>3, <3>4
  <2>6. Loading(stash) # None
    <3>1. Loading(stash).op = OpOfPhase[stash.phase]
      BY <1>6 DEF Loading
    <3>2. OpOfPhase[stash.phase] # "none"
      BY <1>6 DEF OpOfPhase
    <3> QED
      BY <3>1, <3>2 DEF None
  <2>7. Moves(AtExecute, r, Seen(R, stash), csr,
              Loading(e.stash), RegsAfter(r, e.puts), Seen(Stored(R, e.puts), e.stash), e.csr)
    BY <1>6, <2>1, <2>5, <2>6 DEF Moves
  <2> QED
    BY <2>2, <2>3, <2>7 DEF Sound, Remembers
(* A store ends. *)
<1>7. ASSUME NEW a, NEW data, NEW tag, NEW takes, stash.phase \in {2, 5},
             e = RetireStore([addr |-> a, data |-> data], tag, takes)
      PROVE  /\ e.stash.phase = 0 /\ e.csr = csr /\ RegsAfter(r, e.puts) = r
             /\ Stored(R, e.puts) = [n \in {"tag", "hi", "lo"} |->
                                        IF n = "tag" THEN tag ELSE IF n = a THEN data ELSE R[n]]
             /\ Seen(Stored(R, e.puts), e.stash) = Stored(R, e.puts) /\ Loading(e.stash) = None
             /\ (Moves(AtExecute, r, Seen(R, stash), csr, None, r, Stored(R, e.puts), csr) => Sound(e, r, R))
  <2> DEFINE result == Wb(FALSE, stash.rd, Null)
             write  == [addr |-> a, data |-> data]
  <2>1. /\ e.stash = IdleStash /\ e.csr = csr
        /\ e.puts = [next_pcc_q |-> Pcc, wb_q |-> result, dmem_wr_req |-> write, tmem_wr_req |-> tag]
    BY <1>7 DEF RetireStore, Step
  <2>2. result.wb = FALSE /\ write.addr = a /\ write.data = data
    BY <1>4
  <2> HIDE DEF result, write
  <2>3. /\ DOMAIN e.puts = {"next_pcc_q", "wb_q", "dmem_wr_req", "tmem_wr_req"}
        /\ e.puts["wb_q"] = result /\ e.puts["dmem_wr_req"] = write /\ e.puts["tmem_wr_req"] = tag
    BY <2>1
  <2>4. e.stash.phase = 0
    BY <2>1 DEF IdleStash
  <2> HIDE DEF e
  <2>5. RegsAfter(r, e.puts) = r /\ Loading(e.stash) = None
        /\ Seen(Stored(R, e.puts), e.stash) = Stored(R, e.puts)
    BY <2>2, <2>3, <2>4 DEF RegsAfter, Loading, Seen
  <2>6. Stored(R, e.puts) = [n \in {"tag", "hi", "lo"} |->
                                IF n = "tag" THEN tag ELSE IF n = a THEN data ELSE R[n]]
    BY <2>2, <2>3 DEF Stored
  <2>7. Moves(AtExecute, r, Seen(R, stash), csr, None, r, Stored(R, e.puts), csr) => Sound(e, r, R)
    BY <1>7, <2>1, <2>2, <2>3, <2>4, <2>5 DEF Sound, Remembers
  <2> QED
    BY <2>1, <2>4, <2>5, <2>6, <2>7
<1>8. CASE stash.phase = 0 /\ Holds("decode_q")
  <2>1. e = Dispatch(First("decode_q"))
    BY <1>8 DEF Execute
  <2>2. First("decode_q") \in Ready(reach)
    <3>1. Holding(queues["decode_q"], Ready(reach))
      BY ItemsOf DEF CoreTyped, TagArrives, CreditCirculates, CreditQueues
    <3> QED
      BY <1>8, <3>1 DEF Holding, Holds, First
  <2> QED
    BY <1>8, <2>1, <2>2, DispatchSound
<1>9. CASE stash.phase = 1 /\ resp # <<>>
  <2>1. e = Retire(Wb(TRUE, stash.rd, IntCap(Head(resp))), {"dmem_rd_resp"})
    BY <1>9 DEF Execute, LoadReturns
  <2>2. Wanted(stash) = stash.addr
    BY <1>9 DEF Wanted
  <2>3. /\ Loading(stash).op = "lw" /\ Loading(stash).rd = stash.rd /\ Loading(stash).addr = stash.addr
    BY <1>9 DEF Loading, OpOfPhase
  <2>4. \E w \in Words : /\ Loading(stash).addr \in MemoryWords => w = R[Loading(stash).addr]
                         /\ Assign(r, stash.rd, IntCap(Head(resp))) = Assign(r, Loading(stash).rd, IntCap(w))
    BY <1>2, <1>9, <2>2, <2>3 DEF Serves
  <2>5. Performs(Loading(stash), r, R, csr, Assign(r, stash.rd, IntCap(Head(resp))), R, csr)
    BY <2>3, <2>4 DEF Performs
  <2> QED
    BY <1>6, <1>9, <2>1, <2>5
<1>10. CASE stash.phase = 2 /\ resp # <<>>
  <2>1. e = RetireStore([addr |-> stash.addr, data |-> stash.val.lo], 0, {"dmem_rd_resp"})
    BY <1>10 DEF Execute, StoreMerged
  <2>2. /\ Loading(stash).op = "sw" /\ Loading(stash).addr = stash.addr /\ Loading(stash).val = stash.val
    BY <1>10 DEF Loading, OpOfPhase
  <2>3. /\ Stored(R, e.puts) = [n \in {"tag", "hi", "lo"} |->
                                   IF n = "tag" THEN 0 ELSE IF n = stash.addr THEN stash.val.lo ELSE R[n]]
        /\ Moves(AtExecute, r, Seen(R, stash), csr, None, r, Stored(R, e.puts), csr) => Sound(e, r, R)
    BY <1>7, <1>10, <2>1
  <2> HIDE DEF e
  <2>4. Performs(Loading(stash), r, R, csr, r, Stored(R, e.puts), csr)
    BY <2>2, <2>3, CapabilityIsItsParts DEF Performs
  <2>5. AtExecute = Loading(stash) /\ Loading(stash) # None
    BY <1>10, <2>2 DEF AtExecute, None
  <2>6. Moves(AtExecute, r, Seen(R, stash), csr, None, r, Stored(R, e.puts), csr)
    BY <1>5, <1>10, <2>4, <2>5 DEF Moves
  <2> QED
    BY <2>3, <2>6 DEF e
<1>11. CASE stash.phase = 3 /\ resp # <<>>
  <2>1. e = LowWord(Head(resp))
    BY <1>11 DEF Execute
  <2>2. /\ e.stash.phase = 4 /\ e.stash.rd = stash.rd /\ e.stash.addr = stash.addr
        /\ e.stash.val = stash.val /\ e.stash.lo = Head(resp) /\ e.csr = csr
        /\ DOMAIN e.puts = {"dmem_rd_req", "tmem_rd_req"} /\ e.puts["dmem_rd_req"] = "hi"
    BY <2>1 DEF LowWord, Step, Waiting
  <2>3. Wanted(stash) = "lo" /\ Wanted(e.stash) = "hi"
    BY <1>11, <2>2 DEF Wanted
  <2>4. Head(resp) = R["lo"]
    BY <1>11, <2>3 DEF Serves, MemoryWords
  <2>5. Loading(e.stash) = AtExecute
    BY <1>11, <2>2 DEF Loading, AtExecute, OpOfPhase
  <2>6. Remembers(e.stash, R)
    BY <2>2, <2>4 DEF Remembers
  <2> HIDE DEF e
  <2>7. Sound(e, r, R)
    BY <1>11, <2>2, <2>3, <2>5, <2>6, WaitingSound
  <2> QED
    BY <2>7 DEF e
<1>12. CASE stash.phase = 4 /\ resp # <<>>
  <2>1. e = Retire(Wb(TRUE, stash.rd, [tag |-> Head(tagResp), hi |-> Head(resp), lo |-> stash.lo]),
                   {"dmem_rd_resp", "tmem_rd_resp"})
    BY <1>12 DEF Execute, HighWord, TagArrives
  <2>2. [tag |-> Head(tagResp), hi |-> Head(resp), lo |-> stash.lo] = R
    <3>1. Head(tagResp) = R["tag"] /\ stash.lo = R["lo"]
      BY <1>12 DEF TagArrives, Remembers
    <3>2. Head(resp) = R["hi"]
      BY <1>12 DEF Serves, Wanted, MemoryWords
    <3>3. R = [tag |-> R["tag"], hi |-> R["hi"], lo |-> R["lo"]]
      BY DEF Capabilities
    <3> QED
      BY <3>1, <3>2, <3>3
  <2>3. Loading(stash).op = "lc" /\ Loading(stash).rd = stash.rd
    BY <1>12 DEF Loading, OpOfPhase
  <2>4. Performs(Loading(stash), r, R, csr, Assign(r, stash.rd, R), R, csr)
    BY <2>3 DEF Performs
  <2>5. e = Retire(Wb(TRUE, stash.rd, R), {"dmem_rd_resp", "tmem_rd_resp"})
    BY <2>1, <2>2
  <2> QED
    BY <1>6, <1>12, <2>4, <2>5
<1>13. CASE stash.phase = 5
  <2>1. e = RetireStore([addr |-> "hi", data |-> stash.val.hi], stash.val.tag, {})
    BY <1>13 DEF Execute, StoreHigh
  <2>2. /\ Stored(R, e.puts) = [n \in {"tag", "hi", "lo"} |->
                                   IF n = "tag" THEN stash.val.tag ELSE IF n = "hi" THEN stash.val.hi ELSE R[n]]
        /\ Moves(AtExecute, r, Seen(R, stash), csr, None, r, Stored(R, e.puts), csr) => Sound(e, r, R)
    BY <1>7, <1>13, <2>1
  <2> HIDE DEF e
  <2>3. Stored(R, e.puts) = stash.val
    <3>1. /\ stash.val.lo = R["lo"]
          /\ stash.val = [n \in {"tag", "hi", "lo"} |-> stash.val[n]]
      BY <1>1, <1>13 DEF Remembers, Capabilities
    <3> QED
      BY <2>2, <3>1
  <2>4. AtExecute = None /\ Seen(R, stash) = stash.val
    BY <1>13 DEF AtExecute, Loading, Seen
  <2>5. Moves(AtExecute, r, Seen(R, stash), csr, None, r, Stored(R, e.puts), csr)
    BY <2>3, <2>4 DEF Moves
  <2> QED
    BY <2>2, <2>5 DEF e
<1>14. CASE stash.phase \in 1 .. 4 /\ resp = <<>>
  <2>1. e = Stay
    BY <1>14 DEF Execute
  <2>2. e.stash = stash /\ e.csr = csr /\ DOMAIN e.puts = {}
    BY <2>1 DEF Stay, Step
  <2> HIDE DEF e
  <2>3. Loading(e.stash) = AtExecute
    BY <1>14, <2>2 DEF AtExecute
  <2>4. Sound(e, r, R)
    BY <1>14, <2>2, <2>3, WaitingSound
  <2> QED
    BY <2>4 DEF e
<1> QED
  BY <1>1, <1>8, <1>9, <1>10, <1>11, <1>12, <1>13, <1>14

-----------------------------------------------------------------------------
(* What a program sees of an edge of the CPU's clock.  No load is to x0:   *)
(* Execute forgets, while it waits, that x0 is not written.                *)

LoadsToRegisters(i) == i.op \in {"lw", "lc"} => i.rd # "x0"

ProgramKept ==
    /\ \A q \in {"fetch_q", "decode_q"} : Holds(q) => LoadsToRegisters(First(q))
    /\ Holds("decode_q") /\ First("decode_q").op # "alu" => First("decode_q").imm = 0
    /\ stash.phase \in {1, 3, 4} => stash.rd # "x0"
    /\ Holds("wb_q") /\ First("wb_q").wb => First("wb_q").rd # "x0"
    /\ tagResp # <<>> => Head(tagResp) = tags

(* The registers, with what Writeback has yet to commit.                   *)
LEMMA ResultsAfter ==
    ASSUME WritebackKeepsUp, ProgramKept, NEW instr, NEW resp, NEW e, MemoryStep(e, resp),
           NEW others, Apart(others), queues' = QueuesAfter(Effects(instr, e, others)),
           regfile' = RegfileAfter, Holds("wb_q") => "wb_q" \notin DOMAIN e.puts,
           "wb_q" \in DOMAIN e.puts /\ e.puts["wb_q"].wb => e.puts["wb_q"].rd # "x0"
    PROVE  /\ Registered' = RegsAfter(Registered, e.puts)
           /\ Holds("wb_q")' /\ First("wb_q")'.wb => First("wb_q")'.rd # "x0"
<1>1. queues'["wb_q"] = FifoAfter(queues["wb_q"], 1, queues["wb_q"] # <<>>, Offer(e.puts, "wb_q"))
  BY WritebackQueueStep
<1>2. CASE Holds("wb_q")
  <2>1. PICK w : queues["wb_q"] = <<w>>
    BY <1>2 DEF WritebackKeepsUp, Short, Holds
  <2>2. queues'["wb_q"] = <<>>
    BY <1>1, <1>2, <2>1, OnePlace DEF Offer, Holds
  <2>3. Registered' = regfile' /\ ~Holds("wb_q")'
    BY <2>2 DEF Registered, Holds
  <2>4. Registered = regfile'
    BY <1>2 DEF ProgramKept, Registered, RegfileAfter, Assign
  <2>5. RegsAfter(Registered, e.puts) = Registered
    BY <1>2 DEF RegsAfter
  <2> QED
    BY <2>3, <2>4, <2>5
<1>3. CASE ~Holds("wb_q")
  <2>1. Registered = regfile /\ regfile' = regfile
    BY <1>3 DEF Registered, RegfileAfter
  <2>2. CASE "wb_q" \in DOMAIN e.puts
    <3>1. queues'["wb_q"] = <<e.puts["wb_q"]>>
      BY <1>1, <1>3, <2>2, OnePlace DEF Offer, Holds
    <3>2. Holds("wb_q")' /\ First("wb_q")' = e.puts["wb_q"]
      BY <3>1 DEF Holds, First
    <3> QED
      BY <2>1, <2>2, <3>2 DEF Registered, RegsAfter
  <2>3. CASE "wb_q" \notin DOMAIN e.puts
    <3>1. queues'["wb_q"] = <<>>
      BY <1>1, <1>3, <2>3, OnePlace DEF Offer, Holds
    <3>2. ~Holds("wb_q")'
      BY <3>1 DEF Holds
    <3> QED
      BY <2>1, <2>3, <3>2 DEF Registered, RegsAfter
  <2> QED
    BY <2>2, <2>3
<1> QED
  BY <1>2, <1>3

(* The credit is somewhere.                                                *)
LEMMA CreditSomewhere ==
    ASSUME CreditCirculates
    PROVE  Holds("next_pcc_q") \/ Holds("fetch_q") \/ Holds("decode_q") \/ stash.phase # 0
<1> SUFFICES ASSUME ~Holds("next_pcc_q"), ~Holds("fetch_q"), ~Holds("decode_q"), stash.phase = 0
             PROVE  FALSE
  OBVIOUS
<1>1. /\ Len(queues["next_pcc_q"]) = 0 /\ Len(queues["fetch_q"]) = 0 /\ Len(queues["decode_q"]) = 0
  BY ShortQueues DEF Holds
<1>2. Len(queues["next_pcc_q"]) + Len(queues["fetch_q"]) + Len(queues["decode_q"]) + 0 = 1
  BY DEF CreditCirculates, OneInstructionInFlight
<1> QED
  BY <1>1, <1>2

(* The tag that waits to be taken is the one in the tag memory.            *)
LEMMA TagStays ==
    ASSUME TagArrives, ProgramKept, NEW resp, NEW e, MemoryStep(e, resp),
           "tmem_wr_req" \in DOMAIN e.puts => stash.phase \notin {3, 4},
           tags' = IF "tmem_wr_req" \in DOMAIN e.puts THEN e.puts["tmem_wr_req"] ELSE tags,
           tagResp' = ReadReply(tagResp, "tmem_rd_req" \in DOMAIN e.puts, tags, "tmem_rd_resp" \in e.takes)
    PROVE  tagResp' # <<>> => Head(tagResp') = tags'
<1>1. CASE "tmem_rd_req" \in DOMAIN e.puts
  <2>1. stash.phase = 3
    BY <1>1 DEF MemoryStep
  <2>2. tagResp' = <<tags>> /\ tags' = tags
    BY <1>1, <2>1 DEF ReadReply, TagArrives
  <2> QED
    BY <2>2
<1>2. CASE "tmem_rd_req" \notin DOMAIN e.puts
  <2>1. tagResp' \in {<<>>, tagResp}
    BY <1>2 DEF ReadReply
  <2>2. tagResp # <<>> => stash.phase = 4
    BY DEF TagArrives
  <2> QED
    BY <2>1, <2>2 DEF ProgramKept
<1> QED
  BY <1>1, <1>2

(* Every edge of the CPU's clock is a step of the sequential machine, in   *)
(* which R becomes what Execute makes of it.                               *)
LEMMA CoreMoves ==
    ASSUME TagArrives, WritebackKeepsUp, ProgramKept,
           NEW instr \in Instructions \union AloneInstructions, LoadsToRegisters(instr),
           NEW resp, NEW e, e = Execute(resp),
           NEW others, Apart(others), queues' = QueuesAfter(Effects(instr, e, others)),
           stash' = e.stash, csr' = e.csr, regfile' = RegfileAfter,
           tags' = IF "tmem_wr_req" \in DOMAIN e.puts THEN e.puts["tmem_wr_req"] ELSE tags,
           tagResp' = ReadReply(tagResp, "tmem_rd_req" \in DOMAIN e.puts, tags, "tmem_rd_resp" \in e.takes),
           NEW R \in Capabilities, Remembers(stash, R),
           stash.phase # 0 \/ Holds("decode_q") => Sound(e, Registered, R)
    PROVE  /\ Moves(UnderWay, Registered, Seen(R, stash), csr,
                    UnderWay', Registered', Seen(Stored(R, e.puts), stash'), csr')
           /\ ProgramKept' /\ Remembers(stash', Stored(R, e.puts))
<1>1. CreditCirculates /\ ExecuteStep(e) /\ MemoryStep(e, resp)
  BY Executes, ExecutesOnMemory DEF TagArrives
<1>2. /\ queues'["fetch_q"] =
             FifoAfter(queues["fetch_q"], 1, Holds("fetch_q"),
                       IF Holds("next_pcc_q") /\ ~Holds("fetch_q") THEN <<instr>> ELSE <<>>)
      /\ queues'["decode_q"] =
             FifoAfter(queues["decode_q"], 1, stash.phase = 0 /\ Holds("decode_q"),
                       IF Holds("fetch_q") THEN <<Decoded(First("fetch_q"), regfile)>> ELSE <<>>)
  BY <1>1, CreditQueueSteps
<1>3. \A q \in {"fetch_q", "decode_q"} : Short(queues[q])
  BY <1>1 DEF CreditCirculates, CreditQueues
(* Before Execute has the instruction, it stays as it is. *)
<1>4. ASSUME stash.phase = 0, ~Holds("decode_q")
      PROVE  /\ e.stash = stash /\ e.csr = csr /\ DOMAIN e.puts = {}
             /\ Registered' = Registered
             /\ Seen(Stored(R, e.puts), stash') = R /\ Seen(R, stash) = R
             /\ Remembers(stash', Stored(R, e.puts))
             /\ Holds("wb_q")' /\ First("wb_q")'.wb => First("wb_q")'.rd # "x0"
             /\ tagResp' # <<>> => Head(tagResp') = tags'
  <2>1. e = Stay
    BY <1>4 DEF Execute
  <2>2. e.stash = stash /\ e.csr = csr /\ DOMAIN e.puts = {}
    BY <2>1 DEF Stay, Step
  <2>3. Stored(R, e.puts) = R
    BY <2>2, CapabilityIsItsParts
  <2>4. /\ Registered' = RegsAfter(Registered, e.puts)
        /\ Holds("wb_q")' /\ First("wb_q")'.wb => First("wb_q")'.rd # "x0"
    BY <1>1, <2>2, ResultsAfter
  <2>5. RegsAfter(Registered, e.puts) = Registered
    BY <2>2 DEF RegsAfter
  <2>6. tagResp' # <<>> => Head(tagResp') = tags'
    BY <1>1, <2>2, TagStays
  <2> QED
    BY <1>4, <2>2, <2>3, <2>4, <2>5, <2>6 DEF Seen
<1>5. CASE Holds("next_pcc_q")
  <2>1. stash.phase = 0 /\ ~Holds("fetch_q") /\ ~Holds("decode_q")
    BY <1>1, <1>5, CreditInOnePlace
  <2>2. queues'["fetch_q"] = <<instr>> /\ queues'["decode_q"] = <<>>
    BY <1>2, <1>5, <2>1, OnePlace DEF Holds
  <2>3. Holds("fetch_q")' /\ First("fetch_q")' = instr /\ ~Holds("decode_q")'
    BY <2>2 DEF Holds, First
  <2>4. UnderWay = None
    BY <2>1 DEF UnderWay
  <2>5. UnderWay' = Decoded(instr, Registered)
    BY <1>4, <2>1, <2>3 DEF UnderWay
  <2>6. Moves(UnderWay, Registered, Seen(R, stash), csr,
              UnderWay', Registered', Seen(Stored(R, e.puts), stash'), csr')
    BY <1>4, <2>1, <2>4, <2>5 DEF Moves
  <2>7. ProgramKept'
    BY <1>4, <2>1, <2>3 DEF ProgramKept
  <2> QED
    BY <1>4, <2>1, <2>6, <2>7
<1>6. CASE Holds("fetch_q")
  <2>1. stash.phase = 0 /\ ~Holds("decode_q") /\ ~Holds("next_pcc_q")
    BY <1>1, <1>6, CreditInOnePlace
  <2>2. Registered = regfile
    BY <2>1 DEF WritebackKeepsUp, Registered
  <2> DEFINE i == First("fetch_q")
             d == Decoded(i, regfile)
  <2>3. PICK x : queues["fetch_q"] = <<x>>
    BY <1>3, <1>6 DEF Short, Holds
  <2>4. queues'["fetch_q"] = <<>> /\ queues'["decode_q"] = <<d>>
    BY <1>2, <1>6, <2>1, <2>3, OnePlace DEF Holds
  <2>5. ~Holds("fetch_q")' /\ Holds("decode_q")' /\ First("decode_q")' = d
    BY <2>4 DEF Holds, First
  <2>6. UnderWay = d /\ UnderWay' = d
    BY <1>6, <2>2, <2>5 DEF UnderWay
  <2>7. Moves(UnderWay, Registered, Seen(R, stash), csr,
              UnderWay', Registered', Seen(Stored(R, e.puts), stash'), csr')
    BY <1>4, <2>1, <2>6 DEF Moves
  <2>8. LoadsToRegisters(d) /\ (d.op # "alu" => d.imm = 0)
    BY <1>6 DEF ProgramKept, LoadsToRegisters, Decoded
  <2> HIDE DEF d
  <2>9. ProgramKept'
    BY <1>4, <2>1, <2>5, <2>8 DEF ProgramKept
  <2> QED
    BY <1>4, <2>1, <2>7, <2>9
<1>7. CASE ~Holds("next_pcc_q") /\ ~Holds("fetch_q")
  <2>1. stash.phase # 0 \/ Holds("decode_q")
    BY <1>1, <1>7, CreditSomewhere
  <2>2. Holds("decode_q") => stash.phase = 0
    BY <1>1, CreditInOnePlace
  <2>3. Sound(e, Registered, R)
    BY <2>1
  <2>4. UnderWay = AtExecute
    BY <1>7, <2>1, <2>2 DEF UnderWay, AtExecute, Loading
  <2>5. queues'["fetch_q"] = <<>>
    BY <1>2, <1>7, OnePlace DEF Holds
  <2>6. queues'["decode_q"] = <<>>
    <3>1. CASE Holds("decode_q")
      <4>1. PICK x : queues["decode_q"] = <<x>>
        BY <1>3, <3>1 DEF Short, Holds
      <4> QED
        BY <1>2, <1>7, <2>2, <3>1, <4>1, OnePlace
    <3>2. CASE ~Holds("decode_q")
      BY <1>2, <1>7, <3>2, OnePlace DEF Holds
    <3> QED
      BY <3>1, <3>2
  <2>7. ~Holds("fetch_q")' /\ ~Holds("decode_q")'
    BY <2>5, <2>6 DEF Holds
  <2>8. UnderWay' = Loading(e.stash)
    BY <2>7 DEF UnderWay, Loading
  <2>9. ~Holds("wb_q")
    BY <1>7 DEF WritebackKeepsUp
  <2>10. /\ Registered' = RegsAfter(Registered, e.puts)
         /\ Holds("wb_q")' /\ First("wb_q")'.wb => First("wb_q")'.rd # "x0"
    BY <1>1, <2>3, <2>9, ResultsAfter DEF Sound
  <2>11. tagResp' # <<>> => Head(tagResp') = tags'
    BY <1>1, <2>3, TagStays DEF Sound
  <2>12. ProgramKept'
    BY <2>3, <2>7, <2>10, <2>11 DEF ProgramKept, Sound
  <2> QED
    BY <2>3, <2>4, <2>8, <2>10, <2>12 DEF Sound
<1> QED
  BY <1>5, <1>6, <1>7

-----------------------------------------------------------------------------
(* CPU, whose memory is a cycle away.                                      *)

CpuMemory == [a \in {"tag", "hi", "lo"} |-> IF a = "tag" THEN tags ELSE dmem[a]]

CpuServes == dmemResp # <<>> => Serves(Head(dmemResp), stash, CpuMemory)

NoLoadsToZero == \A i \in Instructions \union AloneInstructions : LoadsToRegisters(i)

LEMMA TickMoves ==
    ASSUME NoLoadsToZero, SystemTyped, WritebackKeepsUp, MemoryAnswers, ProgramKept,
           Remembers(stash, CpuMemory), CpuServes, Tick
    PROVE  /\ Moves(UnderWay, Registered, Seen(CpuMemory, stash), csr,
                    UnderWay', Registered', Seen(CpuMemory, stash)', csr')
           /\ ProgramKept' /\ Remembers(stash, CpuMemory)' /\ CpuServes'
<1> DEFINE e == Execute(dmemResp)
           R == CpuMemory
           reads  == "dmem_rd_req" \in DOMAIN e.puts
           writes == "dmem_wr_req" \in DOMAIN e.puts
           gets   == "dmem_rd_resp" \in e.takes
<1>1. top = "CPU" /\ UNCHANGED <<top, fabric>> /\ Alone!Tick
  BY DEF Tick
<1>2. PICK instr \in AloneInstructions :
        /\ queues' = QueuesAfter(Effects(instr, e, {}))
        /\ stash' = e.stash /\ csr' = e.csr /\ regfile' = RegfileAfter
        /\ tags' = IF "tmem_wr_req" \in DOMAIN e.puts THEN e.puts["tmem_wr_req"] ELSE tags
        /\ tagResp' = ReadReply(tagResp, "tmem_rd_req" \in DOMAIN e.puts, tags, "tmem_rd_resp" \in e.takes)
  BY <1>1, SamePipeline DEF Alone!Tick, Alone!CpuEdge, Alone!Effect, Effect, Effects, Alone!RegfileAfter,
     RegfileAfter, Alone!Holds, Holds, Alone!First, First, Alone!ReadReply, ReadReply
<1>3. /\ dmemResp' = ReadReply(dmemResp, reads, IF reads THEN dmem[e.puts["dmem_rd_req"]] ELSE 0, gets)
      /\ writes => dmem' = [dmem EXCEPT ![e.puts["dmem_wr_req"].addr] = e.puts["dmem_wr_req"].data]
      /\ ~writes => dmem' = dmem
  BY <1>1, SamePipeline DEF Alone!Tick, Alone!ReadReply, ReadReply
<1>4. /\ CoreTyped(MemoryWords) /\ TagArrives /\ SystemTyped'
      /\ Holding(dmemResp, Words) /\ dmem \in [MemoryWords -> Words] /\ tags \in {0, 1}
  BY <1>1, TickTyped DEF SystemTyped, CoreTyped
<1>5. R \in Capabilities /\ R["tag"] = tags /\ \A a \in MemoryWords : R[a] = dmem[a]
  <2>1. R = [tag |-> tags, hi |-> dmem["hi"], lo |-> dmem["lo"]]
    BY DEF CpuMemory
  <2>2. dmem["hi"] \in Words /\ dmem["lo"] \in Words
    BY <1>4 DEF MemoryWords
  <2> QED
    BY <1>4, <2>1, <2>2 DEF Capabilities, MemoryWords
<1>6. LoadsToRegisters(instr) /\ instr \in Instructions \union AloneInstructions
  BY DEF NoLoadsToZero
<1>7. Apart({}) /\ CreditCirculates
  BY <1>4 DEF Apart, TagArrives
<1>8. MemoryStep(e, dmemResp)
  BY <1>7, ExecutesOnMemory, <1>4 DEF TagArrives
<1>9. stash.phase # 0 => ~Holds("decode_q")
  BY <1>7, CreditInOnePlace
<1> HIDE DEF R
<1>10. stash.phase # 0 \/ Holds("decode_q") => Sound(e, Registered, R)
  <2>1. /\ tagResp # <<>> => Head(tagResp) = R["tag"]
        /\ dmemResp # <<>> => Serves(Head(dmemResp), stash, R)
        /\ Remembers(stash, R)
        /\ stash.phase \in {1, 3, 4} => stash.rd # "x0"
        /\ stash.phase = 0 /\ Holds("decode_q") =>
               /\ First("decode_q").op # "alu" => First("decode_q").imm = 0
               /\ First("decode_q").op \in {"lw", "lc"} => First("decode_q").rd # "x0"
    BY <1>5 DEF ProgramKept, CpuServes, R, LoadsToRegisters
  <2> QED
    BY <1>4, <1>5, <1>9, <2>1, ExecuteSound
<1>11. Remembers(stash, R)
  BY DEF R
<1> HIDE DEF e
<1>12. /\ Moves(UnderWay, Registered, Seen(R, stash), csr,
                UnderWay', Registered', Seen(Stored(R, e.puts), stash'), csr')
       /\ ProgramKept' /\ Remembers(stash', Stored(R, e.puts))
  BY <1>2, <1>4, <1>5, <1>6, <1>7, <1>10, <1>11, CoreMoves DEF e
<1>13. CpuMemory' = Stored(R, e.puts)
  <2>1. tags' = IF "tmem_wr_req" \in DOMAIN e.puts THEN e.puts["tmem_wr_req"] ELSE R["tag"]
    BY <1>2, <1>5
  <2>2. \A a \in MemoryWords :
           dmem'[a] = IF writes /\ e.puts["dmem_wr_req"].addr = a THEN e.puts["dmem_wr_req"].data ELSE R[a]
    <3>1. CASE writes
      BY <1>3, <1>4, <1>5, <3>1
    <3>2. CASE ~writes
      BY <1>3, <1>5, <3>2
    <3> QED
      BY <3>1, <3>2
  <2> DEFINE stored(a) == IF writes /\ e.puts["dmem_wr_req"].addr = a THEN e.puts["dmem_wr_req"].data ELSE R[a]
             tag       == IF "tmem_wr_req" \in DOMAIN e.puts THEN e.puts["tmem_wr_req"] ELSE R["tag"]
  <2>3. CpuMemory' = [a \in {"tag", "hi", "lo"} |-> IF a = "tag" THEN tag ELSE stored(a)]
    <3>1. \A a \in {"hi", "lo"} : dmem'[a] = stored(a)
      BY <2>2 DEF MemoryWords
    <3>2. tags' = tag
      BY <2>1
    <3>3. CpuMemory' = [a \in {"tag", "hi", "lo"} |-> IF a = "tag" THEN tags' ELSE dmem'[a]]
      BY DEF CpuMemory
    <3> HIDE DEF stored, tag
    <3> QED
      BY <3>1, <3>2, <3>3
  <2>4. Stored(R, e.puts) = [a \in {"tag", "hi", "lo"} |-> IF a = "tag" THEN tag ELSE stored(a)]
    BY DEF Stored
  <2> QED
    BY <2>3, <2>4
<1>14. Seen(CpuMemory, stash)' = Seen(Stored(R, e.puts), stash')
  BY <1>13 DEF Seen
<1>15. Remembers(stash, CpuMemory)'
  BY <1>12, <1>13 DEF Remembers
<1>16. CpuServes'
  <2>1. dmemResp = <<>> <=> ~gets
    BY <1>8, AwaitedWordIsThere DEF MemoryStep
  <2>2. CASE reads
    <3>1. stash.phase # 0 \/ Holds("decode_q")
      BY <1>8, <2>2 DEF MemoryStep
    <3>2. e.puts["dmem_rd_req"] = Wanted(stash') /\ ~writes
      BY <1>2, <1>10, <2>2, <3>1 DEF Sound
    <3>3. dmemResp' = <<dmem[Wanted(stash')]>> /\ dmem' = dmem
      BY <1>3, <2>1, <2>2, <3>2 DEF ReadReply
    <3>4. Wanted(stash') \in MemoryWords => CpuMemory'[Wanted(stash')] = dmem[Wanted(stash')]
      BY <3>3 DEF CpuMemory, MemoryWords
    <3> QED
      BY <3>3, <3>4 DEF CpuServes, Serves, Wanted
  <2>3. CASE ~reads
    <3>1. dmemResp' = <<>>
      BY <1>3, <2>1, <2>3 DEF ReadReply
    <3> QED
      BY <3>1 DEF CpuServes
  <2> QED
    BY <2>2, <2>3
<1> QED
  BY <1>12, <1>14, <1>15, <1>16 DEF R

-----------------------------------------------------------------------------
(* What the links of the bus hold, item by item.                           *)

LEMMA ReaderItems ==
    ASSUME NEW c, Short(c.items), c.seen2 \in Nat, c.seen2 <= Len(c.items), NEW take \in BOOLEAN
    PROVE  /\ ReaderEdge(c, take).items = IF take /\ Readable(c) THEN <<>> ELSE c.items
           /\ Readable(c) => c.items # <<>>
<1>1. Readable(c) => c.items # <<>>
  <2>1. Readable(c) => Len(c.items) # 0
    BY ShortQueues DEF Readable, Short
  <2> QED
    BY <2>1, ShortQueues
<1>2. CASE take /\ Readable(c)
  <2>1. Len(c.items) = 1 /\ SubSeq(c.items, 2, 1) = <<>>
    BY <1>1, <1>2, ShortQueues DEF Short
  <2>2. ReaderEdge(c, take).items = SubSeq(c.items, 1 + 1, Len(c.items))
    BY <1>2 DEF ReaderEdge
  <2>3. ReaderEdge(c, take).items = <<>>
    BY <2>1, <2>2
  <2> QED
    BY <1>1, <1>2, <2>3
<1>3. CASE ~(take /\ Readable(c))
  <2>1. ReaderEdge(c, take).items = SubSeq(c.items, 0 + 1, Len(c.items))
    BY <1>3 DEF ReaderEdge
  <2>2. SubSeq(c.items, 1, Len(c.items)) = c.items
    BY ShortQueues DEF Short
  <2> QED
    BY <1>1, <1>3, <2>1, <2>2
<1> QED
  BY <1>2, <1>3

LEMMA LinkItems ==
    ASSUME NEW link, NEW near, NEW far, Turns(link, near, far)
    PROVE  /\ Short(link.req.items) /\ Short(link.resp.items)
           /\ \A take \in BOOLEAN :
                 /\ ReaderEdge(link.req, take).items = IF take /\ Readable(link.req) THEN <<>> ELSE link.req.items
                 /\ ReaderEdge(link.resp, take).items = IF take /\ Readable(link.resp) THEN <<>> ELSE link.resp.items
           /\ Readable(link.req) => link.req.items # <<>>
           /\ Readable(link.resp) => link.resp.items # <<>>
           /\ link.req.items # <<>> => link.resp.items = <<>> /\ near = 1 /\ far = 0
           /\ link.resp.items # <<>> => near = 1 /\ far = 0
           /\ far = 1 => near = 1
<1>1. PICK q, r : \E s1, s2, h1, h2, t1, t2, g1, g2 \in Nat :
          /\ Short(q) /\ Short(r)
          /\ link = [req |-> Crossing(q, s1, s2, h1, h2), resp |-> Crossing(r, t1, t2, g1, g2)]
          /\ InTurn(Len(q), s1, s2, h1, h2, Len(r), t1, t2, g1, g2, near, far)
  BY DEF Turns
<1>2. PICK s1 \in Nat, s2 \in Nat, h1 \in Nat, h2 \in Nat, t1 \in Nat, t2 \in Nat, g1 \in Nat, g2 \in Nat :
          /\ Short(q) /\ Short(r)
          /\ link = [req |-> Crossing(q, s1, s2, h1, h2), resp |-> Crossing(r, t1, t2, g1, g2)]
          /\ InTurn(Len(q), s1, s2, h1, h2, Len(r), t1, t2, g1, g2, near, far)
  BY <1>1
<1>3. /\ link.req.items = q /\ link.resp.items = r
      /\ link.req.seen2 = s2 /\ link.resp.seen2 = t2
  BY <1>2 DEF Crossing
<1>4. /\ Len(q) \in {0, 1} /\ (Len(q) = 0 <=> q = <<>>)
      /\ Len(r) \in {0, 1} /\ (Len(r) = 0 <=> r = <<>>)
  BY <1>2, ShortQueues DEF Short
<1> DEFINE m == Len(q)
           n == Len(r)
<1>5. /\ s2 <= m /\ t2 <= n
      /\ m # 0 => n = 0 /\ near = 1 /\ far = 0
      /\ n # 0 => near = 1 /\ far = 0
      /\ far = 1 => near = 1
  <2>1. InTurn(m, s1, s2, h1, h2, n, t1, t2, g1, g2, near, far) /\ m \in {0, 1} /\ n \in {0, 1}
    BY <1>2, <1>4
  <2> HIDE DEF m, n
  <2> QED
    BY <2>1 DEF InTurn
<1>6. /\ link.req.seen2 \in Nat /\ link.req.seen2 <= Len(link.req.items) /\ Short(link.req.items)
      /\ link.resp.seen2 \in Nat /\ link.resp.seen2 <= Len(link.resp.items) /\ Short(link.resp.items)
  BY <1>2, <1>3, <1>5
<1>7. \A take \in BOOLEAN :
         /\ ReaderEdge(link.req, take).items = IF take /\ Readable(link.req) THEN <<>> ELSE link.req.items
         /\ ReaderEdge(link.resp, take).items = IF take /\ Readable(link.resp) THEN <<>> ELSE link.resp.items
  BY <1>6, ReaderItems
<1>8. /\ Readable(link.req) => link.req.items # <<>>
      /\ Readable(link.resp) => link.resp.items # <<>>
  BY <1>6, ReaderItems
<1> QED
  BY <1>3, <1>4, <1>5, <1>6, <1>7, <1>8

LEMMA WriterItems ==
    ASSUME NEW c, Short(c.items), NEW offer, Short(offer), offer # <<>> => c.items = <<>> /\ Room(c, BusDepth)
    PROVE  WriterEdge(c, BusDepth, offer).items = IF offer = <<>> THEN c.items ELSE offer
<1>1. CASE offer = <<>>
  <2>1. c.items \o offer = c.items
    BY <1>1, ShortQueues DEF Short
  <2> QED
    BY <1>1, <2>1 DEF WriterEdge
<1>2. CASE offer # <<>>
  <2>1. c.items \o offer = offer
    BY <1>2, ShortQueues DEF Short
  <2> QED
    BY <1>2, <2>1 DEF WriterEdge
<1> QED
  BY <1>1, <1>2

(* The near side puts when it waits for nothing.                           *)
LEMMA NearItems ==
    ASSUME NEW link, NEW near, NEW far, Turns(link, near, far),
           NEW offer, Short(offer), offer # <<>> => near = 0
    PROVE  WriterEdge(link.req, BusDepth, offer).items = IF offer = <<>> THEN link.req.items ELSE offer
<1>1. offer # <<>> => Room(link.req, BusDepth)
  <2> DEFINE take == FALSE
  <2>1. take \in BOOLEAN /\ BusDepth \in Nat \ {0}
    BY SocAssumption
  <2> HIDE DEF take
  <2>2. /\ Turns([req  |-> WriterEdge(link.req, BusDepth, offer), resp |-> ReaderEdge(link.resp, take)],
                 near + Len(offer) - One(take /\ Readable(link.resp)), far)
        /\ offer # <<>> => Room(link.req, BusDepth)
        /\ take /\ Readable(link.resp) => near = 1 /\ far = 0
    BY <2>1, NearEdge
  <2> QED
    BY <2>2
<1>2. offer # <<>> => link.req.items = <<>>
  BY LinkItems
<1> QED
  BY <1>1, <1>2, LinkItems, WriterItems

(* The far side puts when it has been asked.                               *)
LEMMA FarItems ==
    ASSUME NEW link, NEW near, NEW far, Turns(link, near, far),
           NEW answer, Short(answer), NEW take \in BOOLEAN,
           answer # <<>> => far = 1 \/ (take /\ Readable(link.req))
    PROVE  WriterEdge(link.resp, BusDepth, answer).items = IF answer = <<>> THEN link.resp.items ELSE answer
<1>1. answer # <<>> => Room(link.resp, BusDepth)
  <2>1. BusDepth \in Nat \ {0}
    BY SocAssumption
  <2>2. /\ Turns([req  |-> ReaderEdge(link.req, take), resp |-> WriterEdge(link.resp, BusDepth, answer)],
                 near, far + One(take /\ Readable(link.req)) - Len(answer))
        /\ answer # <<>> => Room(link.resp, BusDepth)
        /\ take /\ Readable(link.req) => near = 1 /\ far = 0
    BY <2>1, FarEdge
  <2> QED
    BY <2>2
<1>2. answer # <<>> => link.resp.items = <<>>
  BY LinkItems
<1> QED
  BY <1>1, <1>2, LinkItems, WriterItems

(* The request or its answer is in one place of the bus.                   *)
LEMMA BusPlaces ==
    ASSUME BusTakesTurns
    PROVE  /\ phase = 0 => host.req.items = <<>> /\ host.resp.items = <<>> /\ xphase = "idle"
           /\ host.req.items # <<>> => host.resp.items = <<>> /\ xphase = "idle"
           /\ host.resp.items # <<>> => xphase = "idle"
           /\ \A d \in Targets :
                 /\ device[d].req.items # <<>> => xphase = d /\ device[d].resp.items = <<>>
                 /\ device[d].resp.items # <<>> => xphase = d
           /\ mphase = 1 => xphase = "mem" /\ device["mem"].req.items = <<>> /\ device["mem"].resp.items = <<>>
           /\ "idle" \notin Targets /\ "mem" \in Targets
<1>1. /\ host.req.items # <<>> => host.resp.items = <<>> /\ One(phase # 0) = 1 /\ One(xphase # "idle") = 0
      /\ host.resp.items # <<>> => One(phase # 0) = 1 /\ One(xphase # "idle") = 0
      /\ One(xphase # "idle") = 1 => One(phase # 0) = 1
  <2>1. Turns(host, One(phase # 0), One(xphase # "idle"))
    BY DEF BusTakesTurns
  <2> QED
    BY <2>1, LinkItems
<1>2. ASSUME NEW d \in Targets
      PROVE  /\ device[d].req.items # <<>> =>
                    device[d].resp.items = <<>> /\ One(xphase = d) = 1 /\ One(d = "mem" /\ mphase = 1) = 0
             /\ device[d].resp.items # <<>> => One(xphase = d) = 1 /\ One(d = "mem" /\ mphase = 1) = 0
             /\ One(d = "mem" /\ mphase = 1) = 1 => One(xphase = d) = 1
  <2>1. Turns(device[d], One(xphase = d), One(d = "mem" /\ mphase = 1))
    BY DEF BusTakesTurns
  <2> QED
    BY <2>1, LinkItems
<1>3. "idle" \notin Targets /\ "mem" \in Targets
  BY SocAssumption DEF Targets
<1> QED
  BY <1>1, <1>2, <1>3 DEF One

-----------------------------------------------------------------------------
(* Marie, whose memory is behind a bus and three clocks.                   *)

LEMMA WordAfterShort ==
    ASSUME NEW a
    PROVE  /\ WordAfter(<<>>, a) = dmem[a]
           /\ \A r : WordAfter(<<r>>, a) = IF r.we /\ r.addr = a THEN r.data ELSE dmem[a]
<1>1. WordAfter(<<>>, a) = dmem[a]
  <2>1. {i \in DOMAIN <<>> : <<>>[i].we /\ <<>>[i].addr = a} = {}
    OBVIOUS
  <2> QED
    BY <2>1 DEF WordAfter
<1>2. ASSUME NEW r
      PROVE  WordAfter(<<r>>, a) = IF r.we /\ r.addr = a THEN r.data ELSE dmem[a]
  <2> DEFINE s      == <<r>>
             writes == {i \in DOMAIN s : s[i].we /\ s[i].addr = a}
             last   == CHOOSE i \in writes : \A k \in writes : k <= i
  <2>1. DOMAIN s = {1} /\ s[1] = r
    OBVIOUS
  <2>2. WordAfter(s, a) = IF writes = {} THEN dmem[a] ELSE s[last].data
    BY DEF WordAfter
  <2>3. writes = {1} => last = 1
    OBVIOUS
  <2> HIDE DEF s, last
  <2>4. CASE r.we /\ r.addr = a
    <3>1. writes = {1}
      BY <2>1, <2>4
    <3> HIDE DEF writes
    <3>2. WordAfter(s, a) = r.data
      BY <2>1, <2>2, <2>3, <3>1
    <3> QED
      BY <2>4, <3>2 DEF s
  <2>5. CASE ~(r.we /\ r.addr = a)
    <3>1. writes = {}
      BY <2>1, <2>5
    <3> HIDE DEF writes
    <3>2. WordAfter(s, a) = dmem[a]
      BY <2>2, <3>1
    <3> QED
      BY <2>5, <3>2 DEF s
  <2> QED
    BY <2>4, <2>5
<1> QED
  BY <1>1, <1>2

(* The write that waits for the adapter.                                   *)
QueuedWrite == IF Holds("dmem_wr_req") THEN <<Write(First("dmem_wr_req"))>> ELSE <<>>

BusMemory == [a \in {"tag", "hi", "lo"} |-> IF a = "tag" THEN tags ELSE WordAfter(Pending, a)]

(* At most one request is pending, in one place.                           *)
LEMMA PendingIs ==
    ASSUME BusTakesTurns, AdapterKeepsUp
    PROVE  /\ Short(host.req.items) /\ Short(device["mem"].req.items) /\ Short(QueuedWrite)
           /\ device["mem"].req.items # <<>> =>
                  host.req.items = <<>> /\ QueuedWrite = <<>> /\ Pending = device["mem"].req.items
           /\ host.req.items # <<>> =>
                  device["mem"].req.items = <<>> /\ QueuedWrite = <<>> /\ Pending = host.req.items
           /\ device["mem"].req.items = <<>> /\ host.req.items = <<>> => Pending = QueuedWrite
<1>1. "mem" \in Targets /\ "idle" \notin Targets
  BY BusPlaces
<1>2. Short(host.req.items) /\ Short(device["mem"].req.items)
  <2>1. /\ Turns(host, One(phase # 0), One(xphase # "idle"))
        /\ Turns(device["mem"], One(xphase = "mem"), One("mem" = "mem" /\ mphase = 1))
    BY <1>1 DEF BusTakesTurns
  <2> QED
    BY <2>1, LinkItems
<1>3. Short(QueuedWrite)
  BY DEF Short, QueuedWrite
<1>4. Pending = device["mem"].req.items \o host.req.items \o QueuedWrite
  BY DEF Pending, QueuedWrite
<1>5. phase # 0 => QueuedWrite = <<>>
  BY DEF AdapterKeepsUp, QueuedWrite
<1>6. \A s : Short(s) => s \o <<>> = s /\ <<>> \o s = s
  BY ShortQueues DEF Short
<1>7. /\ device["mem"].req.items # <<>> => host.req.items = <<>> /\ phase # 0
      /\ host.req.items # <<>> => phase # 0
  BY <1>1, BusPlaces
<1>8. CASE device["mem"].req.items # <<>>
  BY ZenonT(30), <1>2, <1>3, <1>4, <1>5, <1>6, <1>7, <1>8
<1>9. CASE host.req.items # <<>>
  BY <1>2, <1>3, <1>4, <1>5, <1>6, <1>7, <1>9
<1>10. CASE device["mem"].req.items = <<>> /\ host.req.items = <<>>
  BY <1>2, <1>3, <1>4, <1>6, <1>10, ShortQueues
<1> QED
  BY <1>2, <1>3, <1>8, <1>9, <1>10

(* Memory in terms of where the request is.                                *)
After(s, a) == IF s # <<>> /\ Head(s).we /\ Head(s).addr = a THEN Head(s).data ELSE dmem[a]

LEMMA BusMemoryIs ==
    ASSUME BusTakesTurns, AdapterKeepsUp
    PROVE  /\ BusMemory["tag"] = tags /\ DOMAIN BusMemory = {"tag", "hi", "lo"}
           /\ \A a \in MemoryWords :
                 /\ device["mem"].req.items # <<>> => BusMemory[a] = After(device["mem"].req.items, a)
                 /\ host.req.items # <<>> => BusMemory[a] = After(host.req.items, a)
                 /\ device["mem"].req.items = <<>> /\ host.req.items = <<>> =>
                        BusMemory[a] = After(QueuedWrite, a)
<1>1. ASSUME NEW s, Short(s), NEW a PROVE WordAfter(s, a) = After(s, a)
  <2>1. CASE s = <<>>
    BY <2>1, WordAfterShort DEF After
  <2>2. CASE \E r : s = <<r>>
    <3>1. PICK r : s = <<r>>
      BY <2>2
    <3>2. s # <<>> /\ Head(s) = r
      BY <3>1
    <3>3. WordAfter(s, a) = IF r.we /\ r.addr = a THEN r.data ELSE dmem[a]
      BY <3>1, WordAfterShort
    <3>4. CASE r.we /\ r.addr = a
      BY <3>2, <3>3, <3>4 DEF After
    <3>5. CASE ~(r.we /\ r.addr = a)
      BY <3>2, <3>3, <3>5 DEF After
    <3> QED
      BY <3>4, <3>5
  <2> QED
    BY <1>1, <2>1, <2>2 DEF Short
<1>2. \A a \in MemoryWords : BusMemory[a] = WordAfter(Pending, a)
  BY DEF BusMemory, MemoryWords
<1>3. BusMemory["tag"] = tags /\ DOMAIN BusMemory = {"tag", "hi", "lo"}
  BY DEF BusMemory
<1> QED
  BY <1>1, <1>2, <1>3, PendingIs
(* What an edge of the crossbar's clock does to the items on the bus.      *)
LEMMA XbarItems ==
    ASSUME BusTakesTurns, XbarClk
    PROVE  /\ host'.req.items = IF xphase = "idle" /\ Readable(host.req) THEN <<>> ELSE host.req.items
           /\ host'.resp.items = IF Xbar.answer = <<>> THEN host.resp.items ELSE Xbar.answer
           /\ \A d \in Targets :
                 /\ device'[d].req.items = IF Offer(Xbar.requests, d) = <<>> THEN device[d].req.items
                                           ELSE Offer(Xbar.requests, d)
                 /\ device'[d].resp.items = IF d \in Xbar.answered /\ Readable(device[d].resp) THEN <<>>
                                            ELSE device[d].resp.items
           /\ Readable(host.req) => host.req.items # <<>>
           /\ \A d \in Targets : Readable(device[d].resp) => device[d].resp.items # <<>>
<1> DEFINE x        == Xbar
           take     == xphase = "idle"
           offer(d) == Offer(x.requests, d)
           took(d)  == d \in x.answered
<1>1. /\ host' = [req |-> ReaderEdge(host.req, take), resp |-> WriterEdge(host.resp, BusDepth, x.answer)]
      /\ device' = [d \in Targets |-> [req |-> WriterEdge(device[d].req, BusDepth, offer(d)),
                                       resp |-> ReaderEdge(device[d].resp, took(d))]]
  BY DEF XbarClk
<1>2. /\ Short(x.answer)
      /\ x.answer # <<>> => xphase # "idle" \/ (take /\ Readable(host.req))
      /\ \A d \in Targets : Short(offer(d)) /\ (offer(d) # <<>> => xphase # d)
  BY XbarTurn
<1>3. take \in BOOLEAN /\ \A d \in Targets : took(d) \in BOOLEAN
  OBVIOUS
<1> HIDE DEF x, take, offer, took
<1>4. /\ host'.req.items = IF take /\ Readable(host.req) THEN <<>> ELSE host.req.items
      /\ host'.resp.items = IF x.answer = <<>> THEN host.resp.items ELSE x.answer
      /\ Readable(host.req) => host.req.items # <<>>
  <2>1. Turns(host, One(phase # 0), One(xphase # "idle"))
    BY DEF BusTakesTurns
  <2>2. x.answer # <<>> => One(xphase # "idle") = 1 \/ (take /\ Readable(host.req))
    BY <1>2 DEF One
  <2>3. WriterEdge(host.resp, BusDepth, x.answer).items = IF x.answer = <<>> THEN host.resp.items ELSE x.answer
    BY <1>2, <1>3, <2>1, <2>2, FarItems
  <2>4. /\ ReaderEdge(host.req, take).items = IF take /\ Readable(host.req) THEN <<>> ELSE host.req.items
        /\ Readable(host.req) => host.req.items # <<>>
    BY <1>3, <2>1, LinkItems
  <2> QED
    BY <1>1, <2>3, <2>4
<1>5. ASSUME NEW d \in Targets
      PROVE  /\ device'[d].req.items = IF offer(d) = <<>> THEN device[d].req.items ELSE offer(d)
             /\ device'[d].resp.items = IF took(d) /\ Readable(device[d].resp) THEN <<>>
                                        ELSE device[d].resp.items
             /\ Readable(device[d].resp) => device[d].resp.items # <<>>
  <2>1. Turns(device[d], One(xphase = d), One(d = "mem" /\ mphase = 1))
    BY DEF BusTakesTurns
  <2>2. offer(d) # <<>> => One(xphase = d) = 0
    BY <1>2 DEF One
  <2>3. WriterEdge(device[d].req, BusDepth, offer(d)).items
          = IF offer(d) = <<>> THEN device[d].req.items ELSE offer(d)
    BY <1>2, <2>1, <2>2, NearItems
  <2>4. /\ ReaderEdge(device[d].resp, took(d)).items
             = IF took(d) /\ Readable(device[d].resp) THEN <<>> ELSE device[d].resp.items
        /\ Readable(device[d].resp) => device[d].resp.items # <<>>
    BY <1>3, <2>1, LinkItems
  <2> QED
    BY <1>1, <2>3, <2>4
<1> QED
  BY <1>4, <1>5 DEF x, take, offer, took
-----------------------------------------------------------------------------
(* What the program has in memory, in terms of the one request that is     *)
(* pending, if there is one.                                               *)
Latest ==
    IF device["mem"].req.items # <<>> THEN device["mem"].req.items
    ELSE IF host.req.items # <<>> THEN host.req.items
    ELSE QueuedWrite

LatestCounts ==
    /\ BusMemory["tag"] = tags
    /\ \A a \in MemoryWords : BusMemory[a] = After(Latest, a)

LEMMA MemoryIsLatest == BusTakesTurns /\ AdapterKeepsUp => LatestCounts
<1> SUFFICES ASSUME BusTakesTurns, AdapterKeepsUp PROVE LatestCounts
  OBVIOUS
<1>1. CASE device["mem"].req.items # <<>>
  <2>1. Latest = device["mem"].req.items
    BY <1>1 DEF Latest
  <2> QED
    BY <1>1, <2>1, BusMemoryIs DEF LatestCounts
<1>2. CASE device["mem"].req.items = <<>> /\ host.req.items # <<>>
  <2>1. Latest = host.req.items
    BY <1>2 DEF Latest
  <2> QED
    BY <1>2, <2>1, BusMemoryIs DEF LatestCounts
<1>3. CASE device["mem"].req.items = <<>> /\ host.req.items = <<>>
  <2>1. Latest = QueuedWrite
    BY <1>3 DEF Latest
  <2> QED
    BY <1>3, <2>1, BusMemoryIs DEF LatestCounts
<1> QED
  BY <1>1, <1>2, <1>3

LEMMA MemoryIsLatestAfter == BusTakesTurns' /\ AdapterKeepsUp' => LatestCounts'
BY MemoryIsLatest, PTL

(* A step that changes neither what the pending request makes of memory    *)
(* nor the tag leaves memory alone.                                        *)
LEMMA MemoryStays ==
    ASSUME LatestCounts, LatestCounts', tags' = tags,
           \A a \in MemoryWords : After(Latest, a)' = After(Latest, a)
    PROVE  BusMemory' = BusMemory
<1>1. \A a \in {"tag", "hi", "lo"} : BusMemory'[a] = BusMemory[a]
  BY DEF LatestCounts, MemoryWords
<1>2. /\ BusMemory = [a \in {"tag", "hi", "lo"} |-> BusMemory[a]]
      /\ BusMemory' = [a \in {"tag", "hi", "lo"} |-> BusMemory'[a]]
  BY DEF BusMemory
<1> HIDE DEF BusMemory
<1> QED
  BY <1>1, <1>2

(* The read that Execute waits for, or its answer, wherever it is.         *)
IsRead(r)     == ~r.we /\ r.addr = Wanted(stash)
Answers(word) == Serves(word, stash, BusMemory)

ReadOnBus ==
    /\ host.req.items # <<>> => IsRead(Head(host.req.items))
    /\ host.resp.items # <<>> => Answers(Head(host.resp.items))
    /\ xphase # "idle" => xphase = Route(Wanted(stash))
    /\ \A d \in Targets :
          /\ device[d].req.items # <<>> => IsRead(Head(device[d].req.items))
          /\ device[d].resp.items # <<>> => Answers(Head(device[d].resp.items))
    /\ mphase = 1 /\ dmemResp # <<>> => Answers(Head(dmemResp))

BusCarries ==
    /\ Holds("dmem_rd_req") => First("dmem_rd_req") = Wanted(stash)
    /\ Holds("dmem_rd_resp") => Answers(First("dmem_rd_resp"))
    /\ phase = 1 => ReadOnBus

LEMMA Routes ==
    /\ \A a : Route(a) # "mem" => a \notin MemoryWords
    /\ \A a : Route(a) \notin Targets => a \notin MemoryWords
BY DEF Route, Targets

(* The crossbar keeps memory as the program sees it,                       *)
LEMMA XbarKeepsMemory ==
    ASSUME BusTakesTurns, BusTakesTurns', AdapterKeepsUp, AdapterKeepsUp', XbarClk
    PROVE  BusMemory' = BusMemory
<1> DEFINE request == Head(host.req.items)
           target  == Route(request.addr)
<1>1. LatestCounts /\ LatestCounts'
  BY MemoryIsLatest, MemoryIsLatestAfter
<1>2. tags' = tags /\ dmem' = dmem /\ QueuedWrite' = QueuedWrite
  BY DEF XbarClk, cpuVars, devVars, QueuedWrite, Holds, First
<1>3. "mem" \in Targets /\ "idle" \notin Targets
  BY BusPlaces
<1>4. CASE xphase = "idle" /\ Readable(host.req)
  <2>1. host.req.items # <<>> /\ host'.req.items = <<>> /\ device["mem"].req.items = <<>> /\ QueuedWrite = <<>>
    BY <1>3, <1>4, XbarItems, BusPlaces, PendingIs
  <2>2. Latest = host.req.items
    BY <2>1 DEF Latest
  <2>3. CASE target = "mem"
    <3>1. Xbar = XbarStep(target, [d \in {target} |-> request], {}, <<>>)
      BY <1>3, <1>4, <2>3 DEF Xbar
    <3>2. Offer(Xbar.requests, "mem") = <<request>>
      BY <2>3, <3>1 DEF Offer, XbarStep
    <3>3. device'["mem"].req.items = <<request>>
      <4>1. <<request>> # <<>>
        OBVIOUS
      <4>2. device'["mem"].req.items = IF Offer(Xbar.requests, "mem") = <<>> THEN device["mem"].req.items
                                       ELSE Offer(Xbar.requests, "mem")
        BY <1>3, XbarItems
      <4> QED
        BY <3>2, <4>1, <4>2
    <3>4. Latest' = <<request>>
      BY <3>3 DEF Latest
    <3>5. host.req.items = <<request>>
      <4>1. Short(host.req.items)
        BY PendingIs
      <4> QED
        BY <2>1, <4>1 DEF Short
    <3>6. Latest' = Latest
      BY <2>2, <3>4, <3>5
    <3> QED
      BY <1>1, <1>2, <3>6, MemoryStays DEF After
  <2>4. CASE target # "mem"
    <3>1. Offer(Xbar.requests, "mem") = <<>>
      <4>1. CASE target \in Targets
        <5>1. Xbar = XbarStep(target, [d \in {target} |-> request], {}, <<>>)
          BY <1>4, <4>1 DEF Xbar
        <5> QED
          BY <2>4, <5>1 DEF Offer, XbarStep
      <4>2. CASE target \notin Targets
        <5>1. Xbar = XbarStep("idle", <<>>, {}, <<0>>)
          BY <1>4, <4>2 DEF Xbar
        <5> QED
          BY <5>1 DEF Offer, XbarStep
      <4> QED
        BY <4>1, <4>2
    <3>2. device'["mem"].req.items = <<>>
      BY <1>3, <2>1, <3>1, XbarItems
    <3>3. Latest' = <<>>
      BY <1>2, <2>1, <3>2 DEF Latest
    <3>4. request.addr \notin MemoryWords
      BY <2>4, Routes
    <3>5. \A a \in MemoryWords : After(Latest, a) = dmem[a] /\ After(Latest, a)' = dmem'[a]
      BY <2>2, <3>3, <3>4 DEF After
    <3> QED
      BY <1>1, <1>2, <3>5, MemoryStays
  <2> QED
    BY <2>3, <2>4
<1>5. CASE ~(xphase = "idle" /\ Readable(host.req))
  <2>1. Xbar.requests = <<>>
    BY <1>5 DEF Xbar, XbarStep
  <2>2. Offer(Xbar.requests, "mem") = <<>>
    BY <2>1 DEF Offer
  <2>3. device'["mem"].req.items = device["mem"].req.items /\ host'.req.items = host.req.items
    BY <1>3, <1>5, <2>2, XbarItems
  <2>4. Latest' = Latest
    BY <1>2, <2>3 DEF Latest
  <2> QED
    BY <1>1, <1>2, <2>4, MemoryStays DEF After
<1> QED
  BY <1>4, <1>5
(* and brings the read or its answer a place further.                      *)
LEMMA XbarCarries ==
    ASSUME BusTakesTurns, BusMemory' = BusMemory, BusCarries, XbarClk
    PROVE  BusCarries'
<1> DEFINE request == Head(host.req.items)
           target  == Route(request.addr)
<1>1. /\ stash' = stash /\ queues' = queues /\ phase' = phase /\ mphase' = mphase /\ dmemResp' = dmemResp
      /\ xphase' = Xbar.xphase
  BY DEF XbarClk, cpuVars, devVars
<1>2. "mem" \in Targets /\ "idle" \notin Targets
  BY BusPlaces
<1>3. /\ \A r : IsRead(r)' <=> IsRead(r)
      /\ \A w : Answers(w)' <=> Answers(w)
      /\ Wanted(stash)' = Wanted(stash)
  BY <1>1 DEF IsRead, Answers, Serves, Wanted
<1> SUFFICES ASSUME phase = 1 PROVE ReadOnBus'
  BY <1>1, <1>3 DEF BusCarries, Holds, First
<1>4. ReadOnBus
  BY DEF BusCarries
<1>5. CASE xphase = "idle" /\ Readable(host.req) /\ target \in Targets
  <2>1. Xbar = XbarStep(target, [d \in {target} |-> request], {}, <<>>)
    BY <1>5 DEF Xbar
  <2>2. /\ Xbar.xphase = target /\ Xbar.answer = <<>> /\ Xbar.answered = {}
        /\ \A d \in Targets : Offer(Xbar.requests, d) = IF d = target THEN <<request>> ELSE <<>>
    BY <2>1 DEF XbarStep, Offer
  <2>3. IsRead(request)
    BY <1>4, <1>5, XbarItems DEF ReadOnBus
  <2>4. target = Route(Wanted(stash))
    BY <2>3 DEF IsRead
  <2> HIDE DEF request, target
  <2>5. host'.req.items = <<>> /\ host'.resp.items = host.resp.items
    BY <1>5, <2>2, XbarItems
  <2>6. ASSUME NEW d \in Targets
        PROVE  /\ device'[d].req.items = IF d = target THEN <<request>> ELSE device[d].req.items
               /\ device'[d].resp.items = device[d].resp.items
    <3>1. /\ Offer(Xbar.requests, d) = IF d = target THEN <<request>> ELSE <<>>
          /\ d \notin Xbar.answered
      BY <2>2, <2>6
    <3>2. /\ device'[d].req.items = IF Offer(Xbar.requests, d) = <<>> THEN device[d].req.items
                                    ELSE Offer(Xbar.requests, d)
          /\ device'[d].resp.items = IF d \in Xbar.answered /\ Readable(device[d].resp) THEN <<>>
                                     ELSE device[d].resp.items
      BY <2>6, XbarItems
    <3>3. <<request>> # <<>>
      OBVIOUS
    <3>4. device'[d].resp.items = device[d].resp.items
      BY <3>1, <3>2
    <3>5. CASE d = target
      BY <3>1, <3>2, <3>3, <3>4, <3>5
    <3>6. CASE d # target
      BY <3>1, <3>2, <3>4, <3>6
    <3> QED
      BY <3>5, <3>6
  <2>7. Head(<<request>>) = request
    OBVIOUS
  <2>8. ASSUME NEW d \in Targets
        PROVE  /\ device'[d].req.items # <<>> => IsRead(Head(device'[d].req.items))
               /\ device'[d].resp.items # <<>> => Answers(Head(device'[d].resp.items))
    <3>1. CASE d = target
      BY <1>4, <2>3, <2>6, <2>7, <3>1 DEF ReadOnBus
    <3>2. CASE d # target
      BY <1>4, <2>6, <3>2 DEF ReadOnBus
    <3> QED
      BY <3>1, <3>2
  <2> QED
    BY <1>1, <1>3, <1>4, <2>2, <2>4, <2>5, <2>8 DEF ReadOnBus
<1>6. CASE xphase = "idle" /\ Readable(host.req) /\ target \notin Targets
  <2>1. Xbar = XbarStep("idle", <<>>, {}, <<0>>)
    BY <1>6 DEF Xbar
  <2>2. /\ Xbar.xphase = "idle" /\ Xbar.answer = <<0>> /\ Xbar.answered = {}
        /\ \A d \in Targets : Offer(Xbar.requests, d) = <<>>
    BY <2>1 DEF XbarStep, Offer
  <2>3. IsRead(request)
    BY <1>4, <1>6, XbarItems DEF ReadOnBus
  <2>4. Wanted(stash) \notin MemoryWords
    BY <1>6, <2>3, Routes DEF IsRead
  <2>5. \A w : Answers(w)
    BY <2>4 DEF Answers, Serves
  <2>6. host'.req.items = <<>>
    BY <1>6, XbarItems
  <2>7. \A d \in Targets : device'[d].req.items = device[d].req.items
                           /\ device'[d].resp.items = device[d].resp.items
    BY <2>2, XbarItems
  <2> QED
    BY <1>1, <1>3, <1>4, <2>2, <2>5, <2>6, <2>7 DEF ReadOnBus
<1>7. CASE xphase # "idle" /\ Readable(device[xphase].resp)
  <2> DEFINE word == Head(device[xphase].resp.items)
  <2>1. Xbar = XbarStep("idle", <<>>, {xphase}, <<word>>)
    BY <1>7 DEF Xbar
  <2>2. /\ Xbar.xphase = "idle" /\ Xbar.answer = <<word>> /\ Xbar.answered = {xphase}
        /\ \A d \in Targets : Offer(Xbar.requests, d) = <<>>
    BY <2>1 DEF XbarStep, Offer
  <2>3. xphase \in Targets
    BY <1>7 DEF BusTakesTurns
  <2>4. Answers(word)
    BY <1>4, <1>7, <2>3, XbarItems DEF ReadOnBus
  <2> HIDE DEF word
  <2>5. host'.req.items = host.req.items /\ host'.resp.items = <<word>> /\ Head(<<word>>) = word
    BY <1>7, <2>2, XbarItems
  <2>6. \A d \in Targets : /\ device'[d].req.items = device[d].req.items
                           /\ device'[d].resp.items \in {<<>>, device[d].resp.items}
    BY <2>2, XbarItems
  <2> QED
    BY <1>1, <1>3, <1>4, <2>2, <2>4, <2>5, <2>6 DEF ReadOnBus
<1>8. CASE /\ ~(xphase = "idle" /\ Readable(host.req))
           /\ ~(xphase # "idle" /\ Readable(device[xphase].resp))
  <2>1. Xbar = XbarStep(xphase, <<>>, {}, <<>>)
    BY <1>8 DEF Xbar
  <2>2. /\ Xbar.xphase = xphase /\ Xbar.answer = <<>> /\ Xbar.answered = {}
        /\ \A d \in Targets : Offer(Xbar.requests, d) = <<>>
    BY <2>1 DEF XbarStep, Offer
  <2>3. host'.req.items = host.req.items /\ host'.resp.items = host.resp.items
    BY <1>8, <2>2, XbarItems
  <2>4. \A d \in Targets : device'[d].req.items = device[d].req.items
                           /\ device'[d].resp.items = device[d].resp.items
    BY <2>2, XbarItems
  <2> QED
    BY <1>1, <1>3, <1>4, <2>2, <2>3, <2>4 DEF ReadOnBus
<1> QED
  BY <1>5, <1>6, <1>7, <1>8
(* What an edge of the devices' clock does to the items on the bus.        *)
LEMMA DeviceItems ==
    ASSUME BusTakesTurns, top = "Marie", DevClk
    PROVE  /\ device'["mem"].req.items = IF MemWrites \/ MemReads THEN <<>> ELSE device["mem"].req.items
           /\ MemWrites \/ MemReads => device["mem"].req.items # <<>>
           /\ device'["mem"].resp.items =
                  IF MemWrites THEN <<0>> ELSE IF MemAnswers THEN dmemResp ELSE device["mem"].resp.items
           /\ \A d \in Targets \ {"mem"} :
                 /\ device'[d].req.items \in {<<>>, device[d].req.items}
                 /\ \/ device'[d].resp.items = device[d].resp.items
                    \/ device[d].req.items # <<>> /\ \E w : device'[d].resp.items = <<w>>
<1>1. PICK word : device' = [d \in Targets |-> IF d = "mem" THEN MemDevice
                                               ELSE IF d = "uart" THEN UartDevice(word)
                                               ELSE AnswersAtOnce(d, word)]
  BY DEF DevClk
<1>2. Short(dmemResp)
  BY DEF BusTakesTurns
<1>3. ASSUME NEW d \in Targets, d # "mem"
      PROVE  /\ device'[d].req.items \in {<<>>, device[d].req.items}
             /\ \/ device'[d].resp.items = device[d].resp.items
                \/ device[d].req.items # <<>> /\ \E w : device'[d].resp.items = <<w>>
  <2>1. PICK w : device'[d] = AnswersAtOnce(d, w)
    BY <1>1, <1>3, Zenon DEF UartDevice
  <2> DEFINE take   == TRUE
             answer == IF Asked(d) THEN <<w>> ELSE <<>>
  <2>2. device'[d] = [req  |-> ReaderEdge(device[d].req, take),
                      resp |-> WriterEdge(device[d].resp, BusDepth, answer)]
    BY <2>1 DEF AnswersAtOnce, DeviceEdge
  <2>3. Turns(device[d], One(xphase = d), One(d = "mem" /\ mphase = 1))
    BY DEF BusTakesTurns
  <2>4. /\ Short(answer) /\ (answer # <<>> => take /\ Readable(device[d].req))
        /\ take \in BOOLEAN /\ (answer = <<>> \/ answer = <<w>>)
    BY DEF Short, Asked
  <2> HIDE DEF take, answer
  <2>5. WriterEdge(device[d].resp, BusDepth, answer).items
          = IF answer = <<>> THEN device[d].resp.items ELSE answer
    BY <2>3, <2>4, FarItems
  <2>6. /\ ReaderEdge(device[d].req, take).items
             = IF take /\ Readable(device[d].req) THEN <<>> ELSE device[d].req.items
        /\ Readable(device[d].req) => device[d].req.items # <<>>
    BY <2>3, <2>4, LinkItems
  <2> QED
    BY <2>2, <2>4, <2>5, <2>6
<1>4. /\ device'["mem"].req.items = IF MemWrites \/ MemReads THEN <<>> ELSE device["mem"].req.items
      /\ MemWrites \/ MemReads => device["mem"].req.items # <<>>
      /\ device'["mem"].resp.items =
             IF MemWrites THEN <<0>> ELSE IF MemAnswers THEN dmemResp ELSE device["mem"].resp.items
  <2> DEFINE take   == MemWrites \/ MemReads
             answer == IF MemWrites THEN <<0>> ELSE IF MemAnswers THEN dmemResp ELSE <<>>
  <2>1. "mem" \in Targets
    BY DEF Targets
  <2>2. device'["mem"] = [req  |-> ReaderEdge(device["mem"].req, take),
                          resp |-> WriterEdge(device["mem"].resp, BusDepth, answer)]
    BY <1>1, <2>1 DEF MemDevice, DeviceEdge
  <2>3. Turns(device["mem"], One(xphase = "mem"), One(mphase = 1))
    BY <2>1 DEF BusTakesTurns, One
  <2>4. take \in BOOLEAN /\ (take => Readable(device["mem"].req))
    BY DEF MemWrites, MemReads, Asked
  <2>5. /\ Short(answer) /\ (answer # <<>> => One(mphase = 1) = 1 \/ (take /\ Readable(device["mem"].req)))
        /\ MemWrites => answer = <<0>> /\ answer # <<>>
        /\ ~MemWrites /\ MemAnswers => answer = dmemResp /\ answer # <<>>
        /\ ~MemWrites /\ ~MemAnswers => answer = <<>>
    BY <1>2, <2>4 DEF Short, MemAnswers, One
  <2> HIDE DEF take, answer
  <2>6. WriterEdge(device["mem"].resp, BusDepth, answer).items
          = IF answer = <<>> THEN device["mem"].resp.items ELSE answer
    BY <2>3, <2>4, <2>5, FarItems
  <2>7. /\ ReaderEdge(device["mem"].req, take).items
             = IF take /\ Readable(device["mem"].req) THEN <<>> ELSE device["mem"].req.items
        /\ Readable(device["mem"].req) => device["mem"].req.items # <<>>
    BY <2>3, <2>4, LinkItems
  <2>8. device'["mem"].req.items = IF take THEN <<>> ELSE device["mem"].req.items
    BY <2>2, <2>4, <2>7
  <2>9. device'["mem"].resp.items =
             IF MemWrites THEN <<0>> ELSE IF MemAnswers THEN dmemResp ELSE device["mem"].resp.items
    BY <2>2, <2>5, <2>6
  <2> QED
    BY <2>4, <2>7, <2>8, <2>9 DEF take
<1> QED
  BY <1>3, <1>4

(* The devices keep memory as the program sees it: what memory writes was  *)
(* written already.                                                        *)
LEMMA DevicesKeepMemory ==
    ASSUME SystemTyped, top = "Marie", BusTakesTurns', AdapterKeepsUp, AdapterKeepsUp', DevClk
    PROVE  BusMemory' = BusMemory
<1> DEFINE r == Request("mem")
<1>1. LatestCounts /\ LatestCounts' /\ BusTakesTurns /\ dmem \in [MemoryWords -> Words]
  BY MemoryIsLatest, MemoryIsLatestAfter DEF SystemTyped
<1>2. tags' = tags /\ QueuedWrite' = QueuedWrite /\ host' = host
  BY DEF DevClk, cpuVars, busVars, QueuedWrite, Holds, First
<1>3. dmem' = IF MemWrites THEN [dmem EXCEPT ![r.addr] = r.data] ELSE dmem
  BY DEF DevClk
<1>4. CASE MemWrites \/ MemReads
  <2>1. device["mem"].req.items # <<>> /\ device'["mem"].req.items = <<>>
    BY <1>1, <1>4, DeviceItems
  <2>2. host.req.items = <<>> /\ QueuedWrite = <<>>
    BY <1>1, <2>1, PendingIs
  <2>3. Latest = device["mem"].req.items /\ Latest' = <<>>
    BY <1>2, <2>1, <2>2 DEF Latest
  <2>4. \A a \in MemoryWords : After(Latest, a) = IF r.we /\ r.addr = a THEN r.data ELSE dmem[a]
    BY <2>1, <2>3 DEF After, Request
  <2>5. \A a \in MemoryWords : After(Latest, a)' = dmem'[a]
    BY <2>3 DEF After
  <2>6. (MemWrites <=> r.we) /\ r.addr \in MemoryWords
    BY <1>4, MemoryAsked DEF MemWrites, MemReads
  <2>7. \A a \in MemoryWords : dmem'[a] = IF r.we /\ r.addr = a THEN r.data ELSE dmem[a]
    <3>1. CASE r.we
      <4>1. dmem' = [dmem EXCEPT ![r.addr] = r.data] /\ DOMAIN dmem = MemoryWords
        BY <1>1, <1>3, <2>6, <3>1
      <4> HIDE DEF r
      <4>2. \A a \in MemoryWords : dmem'[a] = IF a = r.addr THEN r.data ELSE dmem[a]
        BY <4>1
      <4> QED
        BY <3>1, <4>2
    <3>2. CASE ~r.we
      BY <1>3, <2>6, <3>2
    <3> QED
      BY <3>1, <3>2
  <2>8. \A a \in MemoryWords : After(Latest, a)' = After(Latest, a)
    BY <2>4, <2>5, <2>7
  <2> QED
    BY <1>1, <1>2, <2>8, MemoryStays
<1>5. CASE ~(MemWrites \/ MemReads)
  <2>1. device'["mem"].req.items = device["mem"].req.items
    BY <1>1, <1>5, DeviceItems
  <2>2. Latest' = Latest /\ dmem' = dmem
    BY <1>2, <1>3, <1>5, <2>1 DEF Latest
  <2> QED
    BY <1>1, <1>2, <2>2, MemoryStays DEF After
<1> QED
  BY <1>4, <1>5

(* They answer the read with the word that is there.                       *)
LEMMA DevicesCarry ==
    ASSUME BusTakesTurns, AdapterKeepsUp, top = "Marie", BusMemory' = BusMemory, BusCarries, DevClk
    PROVE  BusCarries'
<1> DEFINE r == Request("mem")
<1>1. /\ stash' = stash /\ queues' = queues /\ phase' = phase /\ host' = host /\ xphase' = xphase
      /\ mphase' = IF MemReads THEN 1 ELSE IF MemAnswers THEN 0 ELSE mphase
      /\ dmemResp' = IF MemReads THEN <<dmem[r.addr]>> ELSE IF MemAnswers THEN <<>> ELSE dmemResp
  BY DEF DevClk, cpuVars, busVars
<1>2. "mem" \in Targets /\ LatestCounts
  BY BusPlaces, MemoryIsLatest
<1>3. /\ \A q : IsRead(q)' <=> IsRead(q)
      /\ \A w : Answers(w)' <=> Answers(w)
      /\ Wanted(stash)' = Wanted(stash)
  BY <1>1 DEF IsRead, Answers, Serves, Wanted
<1> SUFFICES ASSUME phase = 1 PROVE ReadOnBus'
  BY <1>1, <1>3 DEF BusCarries, Holds, First
<1>4. ReadOnBus
  BY DEF BusCarries
<1>5. ~MemWrites
  <2> SUFFICES ASSUME MemWrites PROVE FALSE
    OBVIOUS
  <2>1. device["mem"].req.items # <<>>
    BY DeviceItems
  <2> QED
    BY <1>2, <1>4, <2>1 DEF ReadOnBus, IsRead, MemWrites, Request
<1>6. ASSUME NEW d \in Targets \ {"mem"}
      PROVE  /\ device'[d].req.items # <<>> => IsRead(Head(device'[d].req.items))
             /\ device'[d].resp.items # <<>> => Answers(Head(device'[d].resp.items))
  <2>1. /\ device'[d].req.items \in {<<>>, device[d].req.items}
        /\ \/ device'[d].resp.items = device[d].resp.items
           \/ device[d].req.items # <<>> /\ \E w : device'[d].resp.items = <<w>>
    BY <1>6, DeviceItems
  <2>2. device[d].req.items # <<>> => \A w : Answers(w)
    <3> SUFFICES ASSUME device[d].req.items # <<>> PROVE \A w : Answers(w)
      OBVIOUS
    <3>1. xphase = d /\ xphase # "idle"
      BY BusPlaces
    <3>2. d = Route(Wanted(stash)) /\ d # "mem"
      BY <1>4, <3>1 DEF ReadOnBus
    <3> QED
      BY <3>2, Routes DEF Answers, Serves
  <2>3. /\ device[d].req.items # <<>> => IsRead(Head(device[d].req.items))
        /\ device[d].resp.items # <<>> => Answers(Head(device[d].resp.items))
    BY <1>4 DEF ReadOnBus
  <2> QED
    BY <2>1, <2>2, <2>3
<1>7. /\ device'["mem"].req.items # <<>> => IsRead(Head(device'["mem"].req.items))
      /\ device'["mem"].resp.items # <<>> => Answers(Head(device'["mem"].resp.items))
  <2>1. /\ device'["mem"].req.items \in {<<>>, device["mem"].req.items}
        /\ device'["mem"].resp.items = IF MemAnswers THEN dmemResp ELSE device["mem"].resp.items
    BY <1>5, DeviceItems
  <2>2. MemAnswers => Answers(Head(dmemResp))
    BY <1>4 DEF MemAnswers, ReadOnBus
  <2>3. /\ device["mem"].req.items # <<>> => IsRead(Head(device["mem"].req.items))
        /\ device["mem"].resp.items # <<>> => Answers(Head(device["mem"].resp.items))
    BY <1>2, <1>4 DEF ReadOnBus
  <2> QED
    BY <2>1, <2>2, <2>3
<1>8. mphase' = 1 /\ dmemResp' # <<>> => Answers(Head(dmemResp'))
  <2>1. CASE MemReads
    <3>1. device["mem"].req.items # <<>> /\ ~r.we
      BY <2>1, DeviceItems DEF MemReads
    <3>2. r.addr = Wanted(stash)
      BY <1>2, <1>4, <3>1 DEF ReadOnBus, IsRead, Request
    <3>3. Latest = device["mem"].req.items
      BY <3>1 DEF Latest
    <3>4. Wanted(stash) \in MemoryWords => BusMemory[Wanted(stash)] = dmem[Wanted(stash)]
      BY <1>2, <3>1, <3>3 DEF LatestCounts, After, Request
    <3>5. Answers(dmem[r.addr])
      BY <3>2, <3>4 DEF Answers, Serves
    <3> HIDE DEF r
    <3> QED
      BY <1>1, <2>1, <3>5
  <2>2. CASE ~MemReads /\ MemAnswers
    BY <1>1, <2>2
  <2>3. CASE ~MemReads /\ ~MemAnswers
    BY <1>1, <1>4, <2>3 DEF ReadOnBus
  <2> QED
    BY <2>1, <2>2, <2>3
<1> QED
  BY <1>1, <1>3, <1>4, <1>6, <1>7, <1>8 DEF ReadOnBus
-----------------------------------------------------------------------------
(* The CPU's clock in Marie.                                               *)

LEMMA BusMemoryTyped ==
    ASSUME SystemTyped, top = "Marie", AdapterKeepsUp
    PROVE  BusMemory \in Capabilities
<1>1. /\ LatestCounts /\ tags \in {0, 1} /\ dmem \in [MemoryWords -> Words]
      /\ LinkTyped(host, Requests(Addresses), Words)
      /\ LinkTyped(device["mem"], Served("mem"), Words)
      /\ Holding(queues["dmem_wr_req"], Stores(Addresses))
  <2>1. BusTakesTurns /\ "mem" \in Targets
    BY BusPlaces DEF SystemTyped
  <2>2. "dmem_wr_req" \in DOMAIN queues /\ CoreTyped(Addresses)
    BY DEF SystemTyped, AdapterKeepsUp, AdapterQueues
  <2>3. Holding(queues["dmem_wr_req"], Stores(Addresses))
    BY <2>2, ItemsOf DEF CoreTyped
  <2> QED
    BY <2>1, <2>2, <2>3, MemoryIsLatest DEF SystemTyped, CoreTyped, FabricTyped
<1>2. Latest # <<>> => Head(Latest).data \in Words
  <2>0. ASSUME NEW T, NEW s \in Seq(T), s # <<>> PROVE Head(s) \in T
    BY <2>0
  <2>1. device["mem"].req.items # <<>> => Head(device["mem"].req.items) \in Served("mem")
    BY <1>1, <2>0 DEF LinkTyped, CrossingTyped
  <2>2. host.req.items # <<>> => Head(host.req.items) \in Requests(Addresses)
    <3>1. host.req.items \in Seq(Requests(Addresses))
      BY <1>1 DEF LinkTyped, CrossingTyped
    <3> QED
      BY <2>0, <3>1
  <2>3. QueuedWrite # <<>> => Head(QueuedWrite).data \in Words
    <3> SUFFICES ASSUME Holds("dmem_wr_req") PROVE Head(QueuedWrite).data \in Words
      BY DEF QueuedWrite
    <3>1. PICK x \in Stores(Addresses) : queues["dmem_wr_req"] = <<x>>
      BY <1>1 DEF Holds, Holding
    <3>2. QueuedWrite = <<Write(x)>> /\ x.data \in Words
      BY <3>1 DEF QueuedWrite, First, Stores
    <3> QED
      BY <3>2 DEF Write
  <2> QED
    BY <2>1, <2>2, <2>3 DEF Latest, Served, Requests
<1>3. \A a \in MemoryWords : BusMemory[a] \in Words
  BY <1>1, <1>2 DEF LatestCounts, After
<1>4. BusMemory = [tag |-> BusMemory["tag"], hi |-> BusMemory["hi"], lo |-> BusMemory["lo"]]
  <2>1. BusMemory = [a \in {"tag", "hi", "lo"} |-> BusMemory[a]]
    BY DEF BusMemory
  <2> HIDE DEF BusMemory
  <2> QED
    BY <2>1
<1> QED
  BY <1>1, <1>3, <1>4 DEF Capabilities, LatestCounts, MemoryWords

(* What the adapter takes and puts.                                        *)
LEMMA AdapterDoes ==
    ASSUME phase \in 0 .. 2
    PROVE  LET a     == CpuDmemAdapter
               reads  == phase = 0 /\ Holds("dmem_rd_req")
               writes == phase = 0 /\ ~Holds("dmem_rd_req") /\ Holds("dmem_wr_req")
           IN  /\ reads => a.phase = 1 /\ Offer(a.puts, "bus_req") = <<Read(First("dmem_rd_req"))>>
               /\ writes => a.phase = 2 /\ Offer(a.puts, "bus_req") = <<Write(First("dmem_wr_req"))>>
               /\ ~reads /\ ~writes => Offer(a.puts, "bus_req") = <<>>
               /\ "dmem_rd_req" \in a.takes <=> reads
               /\ "dmem_wr_req" \in a.takes <=> writes
               /\ "dmem_rd_resp" \in DOMAIN a.puts =>
                      phase = 1 /\ Readable(host.resp) /\ a.puts["dmem_rd_resp"] = Head(host.resp.items)
               /\ a.phase = 1 => reads \/ (phase = 1 /\ ~Readable(host.resp))
<1> DEFINE a == CpuDmemAdapter
           offer  == Offer(a.puts, "bus_req")
           reads  == phase = 0 /\ Holds("dmem_rd_req")
           writes == phase = 0 /\ ~Holds("dmem_rd_req") /\ Holds("dmem_wr_req")
           does ==
               /\ reads => a.phase = 1 /\ offer = <<Read(First("dmem_rd_req"))>>
               /\ writes => a.phase = 2 /\ offer = <<Write(First("dmem_wr_req"))>>
               /\ ~reads /\ ~writes => offer = <<>>
               /\ "dmem_rd_req" \in a.takes <=> reads
               /\ "dmem_wr_req" \in a.takes <=> writes
               /\ "dmem_rd_resp" \in DOMAIN a.puts =>
                      phase = 1 /\ Readable(host.resp) /\ a.puts["dmem_rd_resp"] = Head(host.resp.items)
               /\ a.phase = 1 => reads \/ (phase = 1 /\ ~Readable(host.resp))
<1> SUFFICES does
  OBVIOUS
<1>1. CASE phase = 0 /\ Holds("dmem_rd_req")
  <2>1. a = AdapterStep(1, {"dmem_rd_req"}, [bus_req |-> Read(First("dmem_rd_req"))])
    BY <1>1 DEF CpuDmemAdapter
  <2>2. /\ a.phase = 1 /\ a.takes = {"dmem_rd_req"} /\ offer = <<Read(First("dmem_rd_req"))>>
        /\ DOMAIN a.puts = {"bus_req"}
    BY <2>1 DEF AdapterStep, Offer
  <2> HIDE DEF a, offer
  <2> QED
    BY <1>1, <2>2
<1>2. CASE phase = 0 /\ ~Holds("dmem_rd_req") /\ Holds("dmem_wr_req")
  <2>1. a = AdapterStep(2, {"dmem_wr_req"}, [bus_req |-> Write(First("dmem_wr_req"))])
    BY <1>2 DEF CpuDmemAdapter
  <2>2. /\ a.phase = 2 /\ a.takes = {"dmem_wr_req"} /\ offer = <<Write(First("dmem_wr_req"))>>
        /\ DOMAIN a.puts = {"bus_req"}
    BY <2>1 DEF AdapterStep, Offer
  <2> HIDE DEF a, offer
  <2> QED
    BY <1>2, <2>2
<1>3. CASE phase = 1 /\ Readable(host.resp)
  <2>1. a = AdapterStep(0, {"bus_resp"}, [dmem_rd_resp |-> Head(host.resp.items)])
    BY <1>3 DEF CpuDmemAdapter
  <2>2. /\ a.phase = 0 /\ a.takes = {"bus_resp"} /\ offer = <<>>
        /\ DOMAIN a.puts = {"dmem_rd_resp"} /\ a.puts["dmem_rd_resp"] = Head(host.resp.items)
    BY <2>1 DEF AdapterStep, Offer
  <2> HIDE DEF a, offer
  <2> QED
    BY <1>3, <2>2
<1>4. CASE phase = 2 /\ Readable(host.resp)
  <2>1. a = AdapterStep(0, {"bus_resp"}, <<>>)
    BY <1>4 DEF CpuDmemAdapter
  <2>2. /\ a.phase = 0 /\ a.takes = {"bus_resp"} /\ offer = <<>>
        /\ DOMAIN a.puts = {}
    BY <2>1 DEF AdapterStep, Offer
  <2> HIDE DEF a, offer
  <2> QED
    BY <1>4, <2>2
<1>5. CASE /\ ~(phase = 0 /\ Holds("dmem_rd_req"))
           /\ ~(phase = 0 /\ ~Holds("dmem_rd_req") /\ Holds("dmem_wr_req"))
           /\ ~(phase = 1 /\ Readable(host.resp)) /\ ~(phase = 2 /\ Readable(host.resp))
  <2>1. a = AdapterStep(phase, {}, <<>>)
    BY <1>5 DEF CpuDmemAdapter
  <2>2. /\ a.phase = phase /\ a.takes = {} /\ offer = <<>>
        /\ DOMAIN a.puts = {}
    BY <2>1 DEF AdapterStep, Offer
  <2> HIDE DEF a, offer
  <2> QED
    BY <1>5, <2>2
<1> QED
  BY <1>1, <1>2, <1>3, <1>4, <1>5

(* What an edge of the CPU's clock does to the items on the bus.           *)
LEMMA CpuItems ==
    ASSUME BusTakesTurns, CpuClk
    PROVE  LET offer == Offer(CpuDmemAdapter.puts, "bus_req")
               take  == "bus_resp" \in CpuDmemAdapter.takes
           IN  /\ host'.req.items = IF offer = <<>> THEN host.req.items ELSE offer
               /\ host'.resp.items = IF take /\ Readable(host.resp) THEN <<>> ELSE host.resp.items
               /\ Readable(host.resp) => host.resp.items # <<>>
<1> DEFINE a     == CpuDmemAdapter
           offer == Offer(a.puts, "bus_req")
           take  == "bus_resp" \in a.takes
<1>1. host' = [req |-> WriterEdge(host.req, BusDepth, offer), resp |-> ReaderEdge(host.resp, take)]
  BY DEF CpuClk
<1>2. /\ Short(offer) /\ (offer # <<>> => phase = 0) /\ take \in BOOLEAN
  BY AdapterTurn DEF BusTakesTurns
<1>3. Turns(host, One(phase # 0), One(xphase # "idle"))
  BY DEF BusTakesTurns
<1> HIDE DEF a, offer, take
<1>4. offer # <<>> => One(phase # 0) = 0
  BY <1>2 DEF One
<1>5. WriterEdge(host.req, BusDepth, offer).items = IF offer = <<>> THEN host.req.items ELSE offer
  BY <1>2, <1>3, <1>4, NearItems
<1>6. /\ ReaderEdge(host.resp, take).items = IF take /\ Readable(host.resp) THEN <<>> ELSE host.resp.items
      /\ Readable(host.resp) => host.resp.items # <<>>
  BY <1>2, <1>3, LinkItems
<1> QED
  BY <1>1, <1>5, <1>6 DEF a, offer, take

(* A queue of one place that has room for what is put.                     *)
LEMMA QueueBecomes ==
    ASSUME NEW items, Short(items), NEW offer, Short(offer), NEW taken \in BOOLEAN,
           taken => items # <<>>, offer # <<>> => items = <<>>
    PROVE  FifoAfter(items, 1, taken, offer) =
               IF offer # <<>> THEN offer ELSE IF taken THEN <<>> ELSE items
<1>1. CASE items = <<>>
  <2>1. FifoAfter(items, 1, taken, offer) = offer
    <3>1. CASE offer = <<>>
      BY <1>1, <3>1, OnePlace
    <3>2. CASE offer # <<>>
      BY <1>1, <3>2, OnePlace DEF Short
    <3> QED
      BY <3>1, <3>2
  <2> QED
    BY <1>1, <2>1
<1>2. CASE items # <<>>
  <2>1. PICK x : items = <<x>>
    BY <1>2 DEF Short
  <2> QED
    BY <1>2, <2>1, OnePlace
<1> QED
  BY <1>1, <1>2
(* The queues between Execute and the adapter.                             *)
LEMMA AdapterQueuesAre ==
    ASSUME CreditCirculates, AdapterKeepsUp, NoCapabilityStores,
           NEW instr, NEW e, MemoryStep(e, queues["dmem_rd_resp"]), NEW a, AdapterTakes(a),
           queues' = QueuesAfter(Effects(instr, e, {Effect(a.takes, a.puts)}))
    PROVE  /\ queues'["dmem_rd_req"] =
                  IF "dmem_rd_req" \in DOMAIN e.puts THEN <<e.puts["dmem_rd_req"]>>
                  ELSE IF "dmem_rd_req" \in a.takes THEN <<>> ELSE queues["dmem_rd_req"]
           /\ queues'["dmem_wr_req"] =
                  IF "dmem_wr_req" \in DOMAIN e.puts THEN <<e.puts["dmem_wr_req"]>>
                  ELSE IF "dmem_wr_req" \in a.takes THEN <<>> ELSE queues["dmem_wr_req"]
           /\ queues'["dmem_rd_resp"] =
                  IF "dmem_rd_resp" \in DOMAIN a.puts THEN <<a.puts["dmem_rd_resp"]>> ELSE <<>>
<1> DEFINE rd   == queues["dmem_rd_req"]
           wr   == queues["dmem_wr_req"]
           resp == queues["dmem_rd_resp"]
<1>1. /\ queues'["dmem_rd_req"] = FifoAfter(rd, 1, "dmem_rd_req" \in a.takes, Offer(e.puts, "dmem_rd_req"))
      /\ queues'["dmem_wr_req"] = FifoAfter(wr, 1, "dmem_wr_req" \in a.takes, Offer(e.puts, "dmem_wr_req"))
      /\ queues'["dmem_rd_resp"] = FifoAfter(resp, 1, "dmem_rd_resp" \in e.takes, Offer(a.puts, "dmem_rd_resp"))
  BY AdapterQueueSteps
<1>2. Short(rd) /\ Short(wr) /\ Short(resp)
  BY DEF AdapterKeepsUp, AdapterQueues
<1>3. /\ "dmem_rd_req" \in DOMAIN e.puts => rd = <<>>
      /\ "dmem_wr_req" \in DOMAIN e.puts => wr = <<>>
  BY ExecuteHasRoom DEF Holds
<1>4. /\ "dmem_rd_req" \in a.takes => rd # <<>>
      /\ "dmem_wr_req" \in a.takes => wr # <<>>
      /\ "dmem_rd_resp" \in DOMAIN a.puts => phase = 1
  BY DEF AdapterTakes, Holds
<1>5. /\ phase = 1 => resp = <<>>
      /\ resp # <<>> => stash.phase \in 1 .. 4
  BY WordInOnePlace DEF Holds
<1>6. "dmem_rd_resp" \in e.takes <=> resp # <<>>
  BY <1>5 DEF MemoryStep
<1>7. \A puts, q : /\ Short(Offer(puts, q)) /\ (Offer(puts, q) # <<>> <=> q \in DOMAIN puts)
                   /\ q \in DOMAIN puts => Offer(puts, q) = <<puts[q]>>
  BY OffersShort DEF Offer
<1> DEFINE asks   == Offer(e.puts, "dmem_rd_req")
           writes == Offer(e.puts, "dmem_wr_req")
           words  == Offer(a.puts, "dmem_rd_resp")
           asked   == "dmem_rd_req" \in a.takes
           written == "dmem_wr_req" \in a.takes
           taken   == "dmem_rd_resp" \in e.takes
<1>8. /\ asked \in BOOLEAN /\ (asked => rd # <<>>) /\ Short(asks) /\ (asks # <<>> => rd = <<>>)
      /\ written \in BOOLEAN /\ (written => wr # <<>>) /\ Short(writes) /\ (writes # <<>> => wr = <<>>)
      /\ taken \in BOOLEAN /\ (taken <=> resp # <<>>) /\ Short(words) /\ (words # <<>> => resp = <<>>)
  BY <1>3, <1>4, <1>5, <1>6, <1>7
<1> HIDE DEF rd, wr, resp, asks, writes, words, asked, written, taken
<1>9. /\ queues'["dmem_rd_req"] = IF asks # <<>> THEN asks ELSE IF asked THEN <<>> ELSE rd
      /\ queues'["dmem_wr_req"] = IF writes # <<>> THEN writes ELSE IF written THEN <<>> ELSE wr
      /\ queues'["dmem_rd_resp"] = IF words # <<>> THEN words ELSE IF taken THEN <<>> ELSE resp
  <2>1. FifoAfter(rd, 1, asked, asks) = IF asks # <<>> THEN asks ELSE IF asked THEN <<>> ELSE rd
    BY <1>2, <1>8, QueueBecomes
  <2>2. FifoAfter(wr, 1, written, writes) = IF writes # <<>> THEN writes ELSE IF written THEN <<>> ELSE wr
    BY <1>2, <1>8, QueueBecomes
  <2>3. FifoAfter(resp, 1, taken, words) = IF words # <<>> THEN words ELSE IF taken THEN <<>> ELSE resp
    BY <1>2, <1>8, QueueBecomes
  <2>4. /\ queues'["dmem_rd_req"] = FifoAfter(rd, 1, asked, asks)
        /\ queues'["dmem_wr_req"] = FifoAfter(wr, 1, written, writes)
        /\ queues'["dmem_rd_resp"] = FifoAfter(resp, 1, taken, words)
    BY <1>1 DEF asked, written, taken, asks, writes, words
  <2> QED
    BY <2>1, <2>2, <2>3, <2>4
<1>10. /\ asks # <<>> <=> "dmem_rd_req" \in DOMAIN e.puts
       /\ asks # <<>> => asks = <<e.puts["dmem_rd_req"]>>
       /\ writes # <<>> <=> "dmem_wr_req" \in DOMAIN e.puts
       /\ writes # <<>> => writes = <<e.puts["dmem_wr_req"]>>
       /\ words # <<>> <=> "dmem_rd_resp" \in DOMAIN a.puts
       /\ words # <<>> => words = <<a.puts["dmem_rd_resp"]>>
  BY <1>7 DEF asks, writes, words
<1> QED
  BY <1>8, <1>9, <1>10 DEF asked, written, rd, wr

(* While the read is on its way, Execute waits.                            *)
LEMMA WaitsForRead ==
    ASSUME CreditCirculates, AdapterKeepsUp, Holds("dmem_rd_req") \/ phase = 1
    PROVE  Execute(queues["dmem_rd_resp"]) = Stay /\ stash.phase \in 1 .. 4
<1>1. stash.phase \in 1 .. 4 /\ queues["dmem_rd_resp"] = <<>>
  BY WordInOnePlace DEF Holds
<1> QED
  BY <1>1 DEF Execute

(* What Execute stores is what the program has in memory from then on,     *)
(* and the adapter only moves it on.                                       *)
LEMMA CpuStores ==
    ASSUME SystemTyped, BusTakesTurns', AdapterKeepsUp, AdapterKeepsUp', NoCapabilityStores, CpuClk,
           NEW instr, NEW e, MemoryStep(e, queues["dmem_rd_resp"]),
           queues' = QueuesAfter(Effects(instr, e, {Effect(CpuDmemAdapter.takes, CpuDmemAdapter.puts)})),
           tags' = IF "tmem_wr_req" \in DOMAIN e.puts THEN e.puts["tmem_wr_req"] ELSE tags
    PROVE  BusMemory' = Stored(BusMemory, e.puts)
<1> DEFINE a      == CpuDmemAdapter
           offer  == Offer(a.puts, "bus_req")
           reads  == phase = 0 /\ Holds("dmem_rd_req")
           writes == phase = 0 /\ ~Holds("dmem_rd_req") /\ Holds("dmem_wr_req")
           stores == "dmem_wr_req" \in DOMAIN e.puts
           word(x) == IF stores /\ e.puts["dmem_wr_req"].addr = x THEN e.puts["dmem_wr_req"].data
                      ELSE BusMemory[x]
<1>1. BusTakesTurns /\ CreditCirculates /\ LatestCounts /\ LatestCounts'
  BY MemoryIsLatest, MemoryIsLatestAfter DEF SystemTyped, TagArrives
<1>2. dmem' = dmem /\ device' = device
  BY DEF CpuClk, devVars
<1>3. /\ reads => offer = <<Read(First("dmem_rd_req"))>>
      /\ writes => offer = <<Write(First("dmem_wr_req"))>>
      /\ ~reads /\ ~writes => offer = <<>>
      /\ "dmem_wr_req" \in a.takes <=> writes
  BY AdapterDoes DEF AdapterKeepsUp
<1>4. AdapterTakes(a)
  BY AdapterInCpu DEF AdapterKeepsUp
<1> HIDE DEF a
<1>5. queues'["dmem_wr_req"] = IF stores THEN <<e.puts["dmem_wr_req"]>>
                               ELSE IF "dmem_wr_req" \in a.takes THEN <<>> ELSE queues["dmem_wr_req"]
  BY <1>1, <1>4, AdapterQueuesAre DEF a
<1>6. host'.req.items = IF offer = <<>> THEN host.req.items ELSE offer
  BY <1>1, CpuItems DEF a
<1>7. phase = 0 => host.req.items = <<>> /\ device["mem"].req.items = <<>> /\ Latest = QueuedWrite
  <2>1. phase = 0 => host.req.items = <<>> /\ device["mem"].req.items = <<>>
    BY <1>1, BusPlaces
  <2> QED
    BY <2>1 DEF Latest
<1> HIDE DEF offer
<1>8. \A x \in MemoryWords : After(Latest, x)' = word(x)
  <2>1. CASE stores
    <3>1. /\ ~Holds("dmem_wr_req") /\ ~Holds("dmem_rd_req") /\ phase = 0
      BY <1>1, <2>1, ExecuteHasRoom
    <3>2. Latest = <<>> /\ offer = <<>>
      BY <1>3, <1>7, <3>1 DEF QueuedWrite
    <3>3. Latest' = QueuedWrite'
      BY <1>2, <1>6, <1>7, <3>1, <3>2 DEF Latest
    <3>4. QueuedWrite' = <<Write(e.puts["dmem_wr_req"])>>
      <4> DEFINE x == e.puts["dmem_wr_req"]
      <4>1. queues'["dmem_wr_req"] = <<x>>
        BY <1>5, <2>1
      <4>2. <<x>> # <<>> /\ Head(<<x>>) = x
        OBVIOUS
      <4>3. QueuedWrite' = IF queues'["dmem_wr_req"] # <<>> THEN <<Write(Head(queues'["dmem_wr_req"]))>> ELSE <<>>
        BY DEF QueuedWrite, Holds, First, Write
      <4> HIDE DEF x
      <4>4. QueuedWrite' = <<Write(x)>>
        BY <4>1, <4>2, <4>3
      <4> QED
        BY <4>4 DEF x
    <3>5. \A x : After(Latest, x)' = IF e.puts["dmem_wr_req"].addr = x THEN e.puts["dmem_wr_req"].data ELSE dmem[x]
      BY <1>2, <3>3, <3>4 DEF After, Write
    <3>6. \A x \in MemoryWords : BusMemory[x] = dmem[x]
      BY <1>1, <3>2 DEF LatestCounts, After
    <3> QED
      BY <2>1, <3>5, <3>6
  <2>2. CASE ~stores /\ reads
    <3>1. Latest = <<>>
      <4>1. ~Holds("dmem_wr_req")
        BY <1>1, <2>2, WordInOnePlace
      <4> QED
        BY <1>7, <2>2, <4>1 DEF QueuedWrite
    <3>2. Latest' = <<Read(First("dmem_rd_req"))>>
      BY <1>2, <1>3, <1>6, <1>7, <2>2 DEF Latest
    <3>3. \A x : After(Latest, x) = dmem[x] /\ After(Latest, x)' = dmem[x]
      BY <1>2, <3>1, <3>2 DEF After, Read
    <3> QED
      BY <1>1, <2>2, <3>3 DEF LatestCounts
  <2>3. CASE ~stores /\ writes
    <3>1. Latest = <<Write(First("dmem_wr_req"))>>
      BY <1>7, <2>3 DEF QueuedWrite
    <3>2. Latest' = <<Write(First("dmem_wr_req"))>>
      <4>1. offer # <<>> /\ host'.req.items = <<Write(First("dmem_wr_req"))>>
        <5> DEFINE w == Write(First("dmem_wr_req"))
        <5>1. offer = <<w>>
          BY <1>3, <2>3
        <5> HIDE DEF w
        <5>2. offer # <<>> /\ host'.req.items = <<w>>
          BY <1>6, <5>1
        <5> QED
          BY <5>2 DEF w
      <4>2. device'["mem"].req.items = <<>>
        BY <1>2, <1>7, <2>3
      <4> QED
        BY <4>1, <4>2 DEF Latest
    <3>3. \A x : After(Latest, x)' = After(Latest, x)
      BY <1>2, <3>1, <3>2 DEF After
    <3> QED
      BY <1>1, <2>3, <3>3 DEF LatestCounts
  <2>4. CASE ~stores /\ ~reads /\ ~writes
    <3>1. QueuedWrite' = QueuedWrite
      BY <1>3, <1>5, <2>4 DEF QueuedWrite, Holds, First
    <3>2. Latest' = Latest
      BY <1>2, <1>3, <1>6, <2>4, <3>1 DEF Latest
    <3>3. \A x : After(Latest, x)' = After(Latest, x)
      BY <1>2, <3>2 DEF After
    <3> QED
      BY <1>1, <2>4, <3>3 DEF LatestCounts
  <2> QED
    BY <2>1, <2>2, <2>3, <2>4
<1> DEFINE tag == IF "tmem_wr_req" \in DOMAIN e.puts THEN e.puts["tmem_wr_req"] ELSE BusMemory["tag"]
<1>9. Stored(BusMemory, e.puts) = [x \in {"tag", "hi", "lo"} |-> IF x = "tag" THEN tag ELSE word(x)]
  BY DEF Stored
<1>10. BusMemory'["tag"] = tag /\ \A x \in {"hi", "lo"} : BusMemory'[x] = word(x)
  BY <1>1, <1>8 DEF LatestCounts, MemoryWords
<1>11. BusMemory' = [x \in {"tag", "hi", "lo"} |-> BusMemory'[x]]
  BY DEF BusMemory
<1> HIDE DEF tag, word, BusMemory
<1> QED
  BY <1>9, <1>10, <1>11
(* The adapter asks for the word that Execute wants, and hands it over.    *)
LEMMA CpuCarries ==
    ASSUME SystemTyped, AdapterKeepsUp, NoCapabilityStores, BusCarries, CpuClk,
           NEW instr, NEW e, e = Execute(queues["dmem_rd_resp"]), MemoryStep(e, queues["dmem_rd_resp"]),
           queues' = QueuesAfter(Effects(instr, e, {Effect(CpuDmemAdapter.takes, CpuDmemAdapter.puts)})),
           stash' = e.stash, BusMemory \in Capabilities, BusMemory' = Stored(BusMemory, e.puts),
           "dmem_rd_req" \in DOMAIN e.puts => e.puts["dmem_rd_req"] = Wanted(stash')
    PROVE  BusCarries'
<1> DEFINE a      == CpuDmemAdapter
           offer  == Offer(a.puts, "bus_req")
           reads  == phase = 0 /\ Holds("dmem_rd_req")
           writes == phase = 0 /\ ~Holds("dmem_rd_req") /\ Holds("dmem_wr_req")
           take   == "bus_resp" \in a.takes
<1>1. BusTakesTurns /\ CreditCirculates /\ phase \in 0 .. 2
  BY DEF SystemTyped, TagArrives, AdapterKeepsUp
<1>2. /\ device' = device /\ xphase' = xphase /\ mphase' = mphase /\ dmemResp' = dmemResp
      /\ phase' = a.phase
  BY DEF CpuClk, devVars
<1>3. /\ reads => a.phase = 1 /\ offer = <<Read(First("dmem_rd_req"))>>
      /\ ~reads /\ ~writes => offer = <<>>
      /\ "dmem_rd_req" \in a.takes <=> reads
      /\ "dmem_rd_resp" \in DOMAIN a.puts =>
             phase = 1 /\ Readable(host.resp) /\ a.puts["dmem_rd_resp"] = Head(host.resp.items)
      /\ a.phase = 1 => reads \/ (phase = 1 /\ ~Readable(host.resp))
  BY <1>1, AdapterDoes
<1>4. AdapterTakes(a)
  BY <1>1, AdapterInCpu
<1> HIDE DEF a
<1>5. /\ queues'["dmem_rd_req"] = IF "dmem_rd_req" \in DOMAIN e.puts THEN <<e.puts["dmem_rd_req"]>>
                                  ELSE IF "dmem_rd_req" \in a.takes THEN <<>> ELSE queues["dmem_rd_req"]
      /\ queues'["dmem_rd_resp"] =
             IF "dmem_rd_resp" \in DOMAIN a.puts THEN <<a.puts["dmem_rd_resp"]>> ELSE <<>>
  BY <1>1, <1>4, AdapterQueuesAre DEF a
<1>6. /\ host'.req.items = IF offer = <<>> THEN host.req.items ELSE offer
      /\ host'.resp.items = IF take /\ Readable(host.resp) THEN <<>> ELSE host.resp.items
      /\ Readable(host.resp) => host.resp.items # <<>>
  BY <1>1, CpuItems DEF a
<1>7. Holds("dmem_rd_req") \/ phase = 1 =>
          /\ stash' = stash /\ BusMemory' = BusMemory /\ e.puts = <<>>
          /\ \A w : Answers(w)' <=> Answers(w)
  <2> SUFFICES ASSUME Holds("dmem_rd_req") \/ phase = 1
               PROVE  /\ stash' = stash /\ BusMemory' = BusMemory /\ e.puts = <<>>
                      /\ \A w : Answers(w)' <=> Answers(w)
    OBVIOUS
  <2>1. e = Stay
    BY <1>1, WaitsForRead
  <2>2. stash' = stash /\ e.puts = <<>>
    BY <2>1 DEF Stay, Step
  <2>3. Stored(BusMemory, <<>>) = BusMemory
    BY CapabilityIsItsParts
  <2>4. BusMemory' = BusMemory
    BY <2>2, <2>3
  <2> QED
    BY <2>2, <2>4 DEF Answers, Serves, Wanted
<1> HIDE DEF offer, take
<1>8. Holds("dmem_rd_req")' => First("dmem_rd_req")' = Wanted(stash')
  <2>1. CASE "dmem_rd_req" \in DOMAIN e.puts
    <3> DEFINE w == e.puts["dmem_rd_req"]
    <3>1. queues'["dmem_rd_req"] = <<w>>
      BY <1>5, <2>1
    <3>2. w = Wanted(stash')
      BY <2>1
    <3> HIDE DEF w
    <3>3. Head(<<w>>) = w
      OBVIOUS
    <3> QED
      BY <3>1, <3>2, <3>3 DEF Holds, First
  <2>2. CASE "dmem_rd_req" \notin DOMAIN e.puts /\ "dmem_rd_req" \notin a.takes
    <3>1. queues'["dmem_rd_req"] = queues["dmem_rd_req"]
      BY <1>5, <2>2
    <3>2. Holds("dmem_rd_req") => stash' = stash /\ First("dmem_rd_req") = Wanted(stash)
      BY <1>7 DEF BusCarries
    <3> QED
      BY <3>1, <3>2 DEF Holds, First
  <2>3. CASE "dmem_rd_req" \notin DOMAIN e.puts /\ "dmem_rd_req" \in a.takes
    <3>1. queues'["dmem_rd_req"] = <<>>
      BY <1>5, <2>3
    <3> QED
      BY <3>1 DEF Holds
  <2> QED
    BY <2>1, <2>2, <2>3
<1>9. Holds("dmem_rd_resp")' => Answers(First("dmem_rd_resp"))'
  <2> SUFFICES ASSUME Holds("dmem_rd_resp")' PROVE Answers(First("dmem_rd_resp"))'
    OBVIOUS
  <2> DEFINE w == Head(host.resp.items)
  <2>1. "dmem_rd_resp" \in DOMAIN a.puts
    BY <1>5 DEF Holds
  <2>2. phase = 1 /\ host.resp.items # <<>> /\ a.puts["dmem_rd_resp"] = w
    BY <1>3, <1>6, <2>1
  <2>3. Answers(w)
    BY <2>2 DEF BusCarries, ReadOnBus
  <2>4. queues'["dmem_rd_resp"] = <<w>>
    BY <1>5, <2>1, <2>2
  <2>5. First("dmem_rd_resp")' = w
    <3> HIDE DEF w
    <3>1. Head(<<w>>) = w
      OBVIOUS
    <3> QED
      BY <2>4, <3>1 DEF First
  <2> HIDE DEF w
  <2>6. stash' = stash /\ BusMemory' = BusMemory
    BY <1>7, <2>2
  <2> QED
    BY <2>3, <2>5, <2>6 DEF Answers, Serves
<1>10. ASSUME phase' = 1 PROVE ReadOnBus'
  <2>1. reads \/ (phase = 1 /\ ~Readable(host.resp))
    BY <1>2, <1>3, <1>10
  <2>2. stash' = stash /\ BusMemory' = BusMemory
    BY <1>7, <2>1
  <2>3. /\ \A r : IsRead(r)' <=> IsRead(r)
        /\ \A w : Answers(w)' <=> Answers(w)
        /\ Wanted(stash)' = Wanted(stash)
    BY <1>7, <2>1, <2>2 DEF IsRead
  <2>4. CASE reads
    <3> DEFINE r == Read(First("dmem_rd_req"))
    <3>1. IsRead(r)
      BY <2>4 DEF BusCarries, IsRead, Read
    <3>2. /\ host.resp.items = <<>> /\ xphase = "idle" /\ mphase # 1
          /\ \A d \in Targets : device[d].req.items = <<>> /\ device[d].resp.items = <<>>
      BY <1>1, <2>4, BusPlaces
    <3>3. offer = <<r>>
      BY <1>3, <2>4
    <3> HIDE DEF r
    <3>4. offer # <<>> /\ Head(offer) = r
      BY <3>3
    <3>5. host'.req.items = offer /\ host'.resp.items = <<>>
      BY <1>6, <3>2, <3>4
    <3> QED
      BY <1>2, <2>3, <3>1, <3>2, <3>4, <3>5 DEF ReadOnBus
  <2>5. CASE phase = 1 /\ ~Readable(host.resp)
    <3>1. offer = <<>>
      BY <1>3, <2>5
    <3>2. host'.req.items = host.req.items /\ host'.resp.items = host.resp.items
      BY <1>6, <2>5, <3>1
    <3>3. ReadOnBus
      BY <2>5 DEF BusCarries
    <3> QED
      BY <1>2, <2>3, <3>2, <3>3 DEF ReadOnBus
  <2> QED
    BY <2>1, <2>4, <2>5
<1> QED
  BY <1>8, <1>9, <1>10 DEF BusCarries
LEMMA CpuClkMoves ==
    ASSUME NoLoadsToZero, SystemTyped, WritebackKeepsUp, NoCapabilityStores, AdapterKeepsUp, AdapterKeepsUp',
           ProgramKept, Remembers(stash, BusMemory), BusCarries, Marie, CpuClk
    PROVE  /\ Moves(UnderWay, Registered, Seen(BusMemory, stash), csr,
                    UnderWay', Registered', Seen(BusMemory, stash)', csr')
           /\ ProgramKept' /\ Remembers(stash, BusMemory)' /\ BusCarries'
<1> DEFINE resp == queues["dmem_rd_resp"]
           e    == Execute(resp)
           R    == BusMemory
           others == {Effect(CpuDmemAdapter.takes, CpuDmemAdapter.puts)}
<1>1. PICK instr \in Instructions :
        /\ queues' = QueuesAfter(Effects(instr, e, others))
        /\ stash' = e.stash /\ csr' = e.csr /\ regfile' = RegfileAfter
        /\ tags' = IF "tmem_wr_req" \in DOMAIN e.puts THEN e.puts["tmem_wr_req"] ELSE tags
        /\ tagResp' = ReadReply(tagResp, "tmem_rd_req" \in DOMAIN e.puts, tags, "tmem_rd_resp" \in e.takes)
  BY DEF CpuClk, CpuEdge, Effects
<1>2. /\ CoreTyped(Addresses) /\ TagArrives /\ CreditCirculates /\ BusTakesTurns /\ top = "Marie"
      /\ MemoryWords \subseteq Addresses
  BY DEF SystemTyped, TagArrives, Marie, Addresses
<1>3. BusTakesTurns'
  BY <1>2, NextKeepsTurns DEF SystemsNext, Next
<1>4. Holding(resp, Words)
  <2>1. "dmem_rd_resp" \in DOMAIN queues
    BY DEF AdapterKeepsUp, AdapterQueues
  <2> QED
    BY <1>2, <2>1, ItemsOf DEF CoreTyped
<1>5. R \in Capabilities /\ R["tag"] = tags
  BY <1>2, BusMemoryTyped, MemoryIsLatest DEF LatestCounts
<1>6. LoadsToRegisters(instr) /\ instr \in Instructions \union AloneInstructions
  BY DEF NoLoadsToZero
<1>7. Apart(others)
  BY AdapterIsApart
<1>8. MemoryStep(e, resp)
  BY <1>2, ExecutesOnMemory DEF TagArrives
<1>9. stash.phase # 0 => ~Holds("decode_q")
  BY <1>2, CreditInOnePlace
<1> HIDE DEF R
<1>10. stash.phase # 0 \/ Holds("decode_q") => Sound(e, Registered, R)
  <2>1. /\ tagResp # <<>> => Head(tagResp) = R["tag"]
        /\ resp # <<>> => Serves(Head(resp), stash, R)
        /\ Remembers(stash, R)
        /\ stash.phase \in {1, 3, 4} => stash.rd # "x0"
        /\ stash.phase = 0 /\ Holds("decode_q") =>
               /\ First("decode_q").op # "alu" => First("decode_q").imm = 0
               /\ First("decode_q").op \in {"lw", "lc"} => First("decode_q").rd # "x0"
    BY <1>5 DEF ProgramKept, BusCarries, Answers, R, LoadsToRegisters, Holds, First
  <2> HIDE DEF resp
  <2> QED
    BY <1>2, <1>4, <1>5, <1>9, <2>1, ExecuteSound
<1>11. Remembers(stash, R)
  BY DEF R
<1> HIDE DEF e, others, resp
<1>12. /\ Moves(UnderWay, Registered, Seen(R, stash), csr,
                UnderWay', Registered', Seen(Stored(R, e.puts), stash'), csr')
       /\ ProgramKept' /\ Remembers(stash', Stored(R, e.puts))
  BY <1>1, <1>2, <1>5, <1>6, <1>7, <1>10, <1>11, CoreMoves DEF e
<1>13. BusMemory' = Stored(R, e.puts)
  BY <1>1, <1>3, <1>8, CpuStores DEF R, others, resp
<1>14. "dmem_rd_req" \in DOMAIN e.puts => e.puts["dmem_rd_req"] = Wanted(stash')
  <2> SUFFICES ASSUME "dmem_rd_req" \in DOMAIN e.puts PROVE e.puts["dmem_rd_req"] = Wanted(stash')
    OBVIOUS
  <2>1. stash.phase # 0 \/ Holds("decode_q")
    BY <1>8 DEF MemoryStep
  <2>2. e.puts["dmem_rd_req"] = Wanted(e.stash)
    BY <1>10, <2>1 DEF Sound
  <2> QED
    BY <1>1, <2>2
<1>15. BusCarries'
  BY <1>1, <1>5, <1>8, <1>13, <1>14, CpuCarries DEF R, e, others, resp
<1>16. Seen(BusMemory, stash)' = Seen(Stored(R, e.puts), stash')
  BY <1>13 DEF Seen
<1>17. Remembers(stash, BusMemory)'
  BY <1>12, <1>13 DEF Remembers
<1> QED
  BY <1>12, <1>15, <1>16, <1>17 DEF R

(* The other clocks change nothing for the program.                        *)
LEMMA OtherClocksStutter ==
    ASSUME SystemTyped, AdapterKeepsUp, AdapterKeepsUp',
           ProgramKept, Remembers(stash, BusMemory), BusCarries, Marie, XbarClk \/ DevClk
    PROVE  /\ Moves(UnderWay, Registered, Seen(BusMemory, stash), csr,
                    UnderWay', Registered', Seen(BusMemory, stash)', csr')
           /\ ProgramKept' /\ Remembers(stash, BusMemory)' /\ BusCarries'
<1>1. BusTakesTurns /\ BusTakesTurns' /\ top = "Marie"
  BY NextKeepsTurns DEF SystemTyped, SystemsNext, Next, Marie
<1>2. BusMemory' = BusMemory
  BY <1>1, XbarKeepsMemory, DevicesKeepMemory
<1>3. BusCarries'
  BY <1>1, <1>2, XbarCarries, DevicesCarry
<1>4. UNCHANGED cpuVars
  BY DEF XbarClk, DevClk
<1>5. UnderWay' = UnderWay /\ Registered' = Registered /\ csr' = csr /\ Seen(BusMemory, stash)' = Seen(BusMemory, stash)
  BY <1>2, <1>4 DEF cpuVars, UnderWay, Registered, Seen, Holds, First
<1>6. ProgramKept'
  BY <1>4 DEF cpuVars, ProgramKept, Holds, First
<1>7. Remembers(stash, BusMemory)'
  BY <1>2, <1>4 DEF cpuVars, Remembers
<1> QED
  BY <1>3, <1>5, <1>6, <1>7 DEF Moves
-----------------------------------------------------------------------------
(* Refinement.                                                             *)

(* Inductive invariant: the read that Execute waits for is answered with   *)
(* what the program has in memory, and what the pipeline keeps of earlier  *)
(* words agrees with it.                                                   *)
ProgramFollows ==
    /\ SystemTyped /\ HasRoom /\ ProgramKept
    /\ top = "CPU" => Remembers(stash, CpuMemory) /\ CpuServes
    /\ top = "Marie" => Remembers(stash, BusMemory) /\ BusCarries

LEMMA ProgramMemoryIs ==
    /\ top = "CPU" => ProgramMemory = Seen(CpuMemory, stash)
    /\ top = "Marie" => ProgramMemory = Seen(BusMemory, stash)
BY DEF ProgramMemory, Alone!Memory, Memory, Seen, CpuMemory, BusMemory

LEMMA ProgramMemoryIsAfter ==
    /\ top' = "CPU" => ProgramMemory' = Seen(CpuMemory, stash)'
    /\ top' = "Marie" => ProgramMemory' = Seen(BusMemory, stash)'
BY DEF ProgramMemory, Alone!Memory, Memory, Seen, CpuMemory, BusMemory

LEMMA InitFollows == SystemsInit => ProgramFollows /\ View!Init
<1> SUFFICES ASSUME SystemsInit PROVE ProgramFollows /\ View!Init
  OBVIOUS
<1>1. SystemTyped /\ HasRoom
  BY InitTyped, InitRoom
<1>2. /\ top \in {"CPU", "Marie"} /\ FabricInit
      /\ stash = IdleStash /\ csr = Null /\ regfile = [r \in Registers |-> Null] /\ tags = 0
      /\ tagResp = <<>> /\ dmem = [a \in MemoryWords |-> 0] /\ dmemResp = <<>>
      /\ \A q \in DOMAIN queues \ {"next_pcc_q"} : queues[q] = <<>>
  <2>1. CASE top = "CPU" /\ Alone!Init /\ FabricInit
    <3>1. Alone!IdleStash = IdleStash /\ Alone!Null = Null
      BY DEF Alone!IdleStash, IdleStash, Alone!Null, Null, Alone!IntCap, IntCap
    <3>2. /\ queues = [q \in CoreQueues |-> IF q = "next_pcc_q" THEN <<Alone!Pcc>> ELSE <<>>]
          /\ stash = IdleStash /\ csr = Null /\ regfile = [r \in Registers |-> Null] /\ tags = 0
          /\ tagResp = <<>> /\ dmem = [a \in MemoryWords |-> 0] /\ dmemResp = <<>>
      BY <2>1, <3>1 DEF Alone!Init, Alone!CpuInit, Alone!CoreQueues, CoreQueues, Alone!MemoryWords, MemoryWords
    <3>3. \A q \in DOMAIN queues \ {"next_pcc_q"} : queues[q] = <<>>
      BY <3>2
    <3> QED
      BY <2>1, <3>2, <3>3
  <2>2. CASE top = "Marie" /\ Init
    <3>1. \A q \in DOMAIN queues \ {"next_pcc_q"} : queues[q] = <<>>
      BY <2>2 DEF Init, CpuInit
    <3> QED
      BY <2>2, <3>1 DEF Init, CpuInit
  <2> QED
    BY <2>1, <2>2 DEF SystemsInit
<1>3. CoreQueues \subseteq DOMAIN queues /\ (top = "Marie" => AdapterQueues \subseteq DOMAIN queues)
  BY <1>1, <1>2 DEF SystemTyped
<1>4. ~Holds("fetch_q") /\ ~Holds("decode_q") /\ ~Holds("wb_q") /\ stash.phase = 0
  BY <1>2, <1>3 DEF Holds, CoreQueues, IdleStash
<1>5. ProgramKept
  BY <1>2, <1>4 DEF ProgramKept
<1>6. Remembers(stash, CpuMemory) /\ Remembers(stash, BusMemory) /\ CpuServes
  BY <1>2, <1>4 DEF Remembers, CpuServes
<1>7. top = "Marie" => BusCarries /\ ~Holds("dmem_wr_req")
  BY <1>2, <1>3 DEF BusCarries, Holds, AdapterQueues, FabricInit
<1>8. ProgramFollows
  BY <1>1, <1>5, <1>6, <1>7 DEF ProgramFollows
<1>9. Registered = [r \in Registers |-> Null] /\ UnderWay = None /\ csr = Null
  BY <1>2, <1>4 DEF Registered, UnderWay
<1>10. ProgramMemory = Null
  <2>1. Null = [a \in {"tag", "hi", "lo"} |-> 0]
    BY DEF Null, IntCap
  <2>2. CASE top = "CPU"
    <3>1. CpuMemory = [a \in {"tag", "hi", "lo"} |-> 0]
      BY <1>2 DEF CpuMemory, MemoryWords
    <3> QED
      BY <1>4, <2>1, <2>2, <3>1, ProgramMemoryIs DEF Seen
  <2>3. CASE top = "Marie"
    <3>1. BusTakesTurns /\ AdapterKeepsUp
      BY <1>1, <2>3 DEF HasRoom
    <3>2. phase = 0
      BY <1>2 DEF FabricInit
    <3>3. Latest = <<>>
      BY <1>7, <2>3, <3>1, <3>2, BusPlaces DEF Latest, QueuedWrite
    <3>4. LatestCounts
      BY <3>1, MemoryIsLatest
    <3>5. \A a \in {"tag", "hi", "lo"} : BusMemory[a] = 0
      BY <1>2, <3>3, <3>4 DEF LatestCounts, After, MemoryWords
    <3>6. BusMemory = [a \in {"tag", "hi", "lo"} |-> BusMemory[a]]
      BY DEF BusMemory
    <3> HIDE DEF BusMemory
    <3>7. BusMemory = [a \in {"tag", "hi", "lo"} |-> 0]
      BY <3>5, <3>6
    <3> QED
      BY <1>4, <2>1, <2>3, <3>7, ProgramMemoryIs DEF Seen
  <2> QED
    BY <1>2, <2>2, <2>3
<1>11. View!Init
  BY <1>9, <1>10 DEF View!Init, ProgramMemory, View!Null, View!IntCap, Null, IntCap, View!None, None
<1> QED
  BY <1>8, <1>11

LEMMA NextFollows ==
    ASSUME NoLoadsToZero, \A i \in Instructions : i.op # "sc", ProgramFollows, [SystemsNext]_allVars
    PROVE  ProgramFollows' /\ [View!Next]_View!isaVars
<1>1. SystemTyped' /\ HasRoom'
  BY NextTyped, NextKeepsRoom DEF ProgramFollows
<1>2. /\ SystemTyped /\ HasRoom /\ ProgramKept /\ WritebackKeepsUp /\ top \in {"CPU", "Marie"}
      /\ top = "CPU" => Remembers(stash, CpuMemory) /\ CpuServes /\ MemoryAnswers
      /\ top = "Marie" => /\ Remembers(stash, BusMemory) /\ BusCarries
                          /\ AdapterKeepsUp /\ NoCapabilityStores /\ (top' = "Marie" => AdapterKeepsUp')
  BY <1>1 DEF ProgramFollows, HasRoom
<1>3. CASE Tick
  <2>1. top = "CPU" /\ top' = "CPU"
    BY <1>3 DEF Tick
  <2>2. /\ Moves(UnderWay, Registered, Seen(CpuMemory, stash), csr,
                 UnderWay', Registered', Seen(CpuMemory, stash)', csr')
        /\ ProgramKept' /\ Remembers(stash, CpuMemory)' /\ CpuServes'
    BY <1>2, <1>3, <2>1, TickMoves
  <2>3. ProgramFollows'
    BY <1>1, <2>1, <2>2 DEF ProgramFollows
  <2>4. ProgramMemory = Seen(CpuMemory, stash) /\ ProgramMemory' = Seen(CpuMemory, stash)'
    BY <2>1, ProgramMemoryIs, ProgramMemoryIsAfter
  <2> QED
    BY <2>2, <2>3, <2>4, MovesAreIsa
<1>4. CASE Marie /\ Next
  <2>1. top = "Marie" /\ top' = "Marie"
    BY <1>4 DEF Marie
  <2>2. /\ Moves(UnderWay, Registered, Seen(BusMemory, stash), csr,
                 UnderWay', Registered', Seen(BusMemory, stash)', csr')
        /\ ProgramKept' /\ Remembers(stash, BusMemory)' /\ BusCarries'
    <3>1. CASE CpuClk
      BY <1>2, <1>4, <2>1, <3>1, CpuClkMoves
    <3>2. CASE XbarClk \/ DevClk
      BY <1>2, <1>4, <2>1, <3>2, OtherClocksStutter
    <3> QED
      BY <1>4, <3>1, <3>2 DEF Next
  <2>3. ProgramFollows'
    BY <1>1, <2>1, <2>2 DEF ProgramFollows
  <2>4. ProgramMemory = Seen(BusMemory, stash) /\ ProgramMemory' = Seen(BusMemory, stash)'
    BY <2>1, ProgramMemoryIs, ProgramMemoryIsAfter
  <2> QED
    BY <2>2, <2>3, <2>4, MovesAreIsa
<1>5. CASE UNCHANGED allVars
  <2>1. UNCHANGED <<top, cpuVars, busVars, device, devVars>>
    BY <1>5 DEF allVars, vars
  <2>2. UNCHANGED <<top, queues, stash, csr, regfile, tags, tagResp, phase, host, xphase, device, mphase, dmem, dmemResp>>
    BY <2>1 DEF cpuVars, busVars, devVars
  <2>3. /\ UnderWay' = UnderWay /\ Registered' = Registered
        /\ BusMemory' = BusMemory /\ CpuMemory' = CpuMemory /\ ProgramKept'
    <3>1. UnderWay' = UnderWay /\ Registered' = Registered
      BY <2>2 DEF UnderWay, Registered, Holds, First
    <3>2. ProgramKept'
      BY <1>2, <2>2 DEF ProgramKept, Holds, First
    <3>3. CpuMemory' = CpuMemory
      BY <2>2 DEF CpuMemory
    <3>4. Pending' = Pending
      BY <2>2 DEF Pending, Holds, First
    <3>5. BusMemory' = BusMemory
      BY <2>2, <3>4 DEF BusMemory, WordAfter
    <3> QED
      BY <3>1, <3>2, <3>3, <3>5
  <2>4. ProgramMemory' = ProgramMemory
    BY <1>2, <2>2, <2>3, ProgramMemoryIs, ProgramMemoryIsAfter DEF Seen
  <2>5. Moves(UnderWay, Registered, ProgramMemory, csr, UnderWay', Registered', ProgramMemory', csr')
    BY <2>2, <2>3, <2>4 DEF Moves
  <2>6. top = "CPU" => Remembers(stash, CpuMemory)' /\ CpuServes'
    BY <1>2, <2>2, <2>3 DEF Remembers, CpuServes, Serves, Wanted
  <2>7. top = "Marie" => Remembers(stash, BusMemory)' /\ BusCarries'
    BY <1>2, <2>2, <2>3 DEF Remembers, BusCarries, ReadOnBus, Answers, IsRead, Serves, Wanted, Holds, First
  <2>8. ProgramFollows'
    BY <1>1, <2>2, <2>3, <2>6, <2>7 DEF ProgramFollows
  <2> QED
    BY <2>5, <2>8, MovesAreIsa
<1> QED
  BY <1>3, <1>4, <1>5 DEF SystemsNext

(* Either system is, to its programs, the sequential machine of Isa: the   *)
(* pipeline of src/examples/cpu_core.tbn with memory a cycle away, and     *)
(* with memory behind the adapter, the crossbar and three clocks of        *)
(* src/examples/marie.tbn.  For programs that load nothing into x0, and in *)
(* Marie store no capabilities.                                            *)
THEOREM SystemsImplementIsa ==
    ASSUME NoLoadsToZero, \A i \in Instructions : i.op # "sc"
    PROVE  Spec => ImplementsIsa
<1>1. SystemsInit => ProgramFollows /\ View!Init
  BY InitFollows
<1>2. ProgramFollows /\ [SystemsNext]_allVars => ProgramFollows' /\ [View!Next]_View!isaVars
  BY NextFollows
<1> QED
  BY <1>1, <1>2, PTL DEF Spec, ImplementsIsa, View!Spec
-----------------------------------------------------------------------------
(* Register x0.                                                            *)

(* Inductive invariant: nothing on its way to Writeback is meant for x0.   *)
ZeroKept ==
    /\ TagArrives /\ WritebackKeepsUp
    /\ \A q \in {"fetch_q", "decode_q"} : Holds(q) => LoadsToRegisters(First(q))
    /\ stash.phase \in {1, 3, 4} => stash.rd # "x0"
    /\ Holds("wb_q") /\ First("wb_q").wb => First("wb_q").rd # "x0"
    /\ ZeroRegister

SparesZero(e) ==
    /\ e.stash.phase \in {1, 3, 4} => e.stash.rd # "x0"
    /\ "wb_q" \in DOMAIN e.puts /\ e.puts["wb_q"].wb => e.puts["wb_q"].rd # "x0"

LEMMA ExecuteSparesZero == ASSUME ZeroKept, NEW resp PROVE SparesZero(Execute(resp))
<1>1. stash.phase \in 0 .. 5
  BY DEF ZeroKept, TagArrives, CreditCirculates
<1>2. ASSUME NEW wb, NEW takes, wb.wb => wb.rd # "x0"
      PROVE  SparesZero(Retire(wb, takes))
  BY <1>2 DEF SparesZero, Retire, Step, IdleStash
<1>3. ASSUME NEW write, NEW tag, NEW takes
      PROVE  SparesZero(RetireStore(write, tag, takes))
  <2> DEFINE puts == [next_pcc_q |-> Pcc, wb_q |-> Wb(FALSE, stash.rd, Null), dmem_wr_req |-> write, tmem_wr_req |-> tag]
  <2>1. ~puts["wb_q"].wb
    BY DEF Wb
  <2>2. RetireStore(write, tag, takes).puts = puts /\ RetireStore(write, tag, takes).stash = IdleStash
    BY DEF RetireStore, Step
  <2> HIDE DEF puts
  <2> QED
    BY <2>1, <2>2 DEF SparesZero, IdleStash
<1>4. CASE stash.phase = 0 /\ Holds("decode_q")
  <2> DEFINE d     == First("decode_q")
             takes == {"decode_q"}
  <2>1. Execute(resp) = Dispatch(d) /\ d.op \in Operations /\ (d.op \in {"lw", "lc"} => d.rd # "x0")
    BY <1>4 DEF Execute, ZeroKept, TagArrives, CreditCirculates, LoadsToRegisters
  <2> HIDE DEF d
  <2>2. CASE d.op \in {"alu", "cap", "jump"}
    <3>1. \E wb : Dispatch(d) = Retire(wb, takes) /\ (wb.wb => wb.rd # "x0")
      <4>1. CASE d.op = "alu"
        <5> DEFINE back == Wb(d.rd # "x0", d.rd, AluResult(d))
        <5>1. Dispatch(d) = Retire(back, takes)
          BY <4>1 DEF Dispatch
        <5>2. back.wb => back.rd # "x0"
          BY DEF Wb
        <5> HIDE DEF back
        <5> QED
          BY <5>1, <5>2
      <4>2. CASE d.op = "cap"
        <5> DEFINE back == Wb(d.rd # "x0", d.rd, Root)
        <5>1. Dispatch(d) = Retire(back, takes)
          BY <4>2 DEF Dispatch
        <5>2. back.wb => back.rd # "x0"
          BY DEF Wb
        <5> HIDE DEF back
        <5> QED
          BY <5>1, <5>2
      <4>3. CASE d.op = "jump"
        <5>1. Dispatch(d) = Retire(NoWb(d), takes) /\ ~NoWb(d).wb
          BY <4>3 DEF Dispatch, NoWb, Wb
        <5> QED
          BY <5>1
      <4> QED
        BY <2>2, <4>1, <4>2, <4>3
    <3> QED
      BY <1>2, <2>1, <3>1
  <2>3. CASE d.op \in {"trap", "csrrw"}
    <3>1. PICK wb : /\ Dispatch(d).stash = Retire(wb, takes).stash /\ Dispatch(d).puts = Retire(wb, takes).puts
                    /\ wb.wb => wb.rd # "x0"
      <4>1. CASE d.op = "trap"
        <5>1. Dispatch(d) = [Retire(NoWb(d), takes) EXCEPT !.csr = IntCap(Cause)]
          BY <4>1 DEF Dispatch
        <5>2. /\ Dispatch(d).stash = Retire(NoWb(d), takes).stash
              /\ Dispatch(d).puts = Retire(NoWb(d), takes).puts
          BY <5>1 DEF Retire, Step
        <5> QED
          BY <5>2 DEF NoWb, Wb
      <4>2. CASE d.op = "csrrw"
        <5> DEFINE back == Wb(d.rd # "x0", d.rd, csr)
        <5>1. Dispatch(d) = [Retire(back, takes) EXCEPT !.csr = d.val]
          BY <4>2 DEF Dispatch
        <5>2. Dispatch(d).stash = Retire(back, takes).stash /\ Dispatch(d).puts = Retire(back, takes).puts
          BY <5>1 DEF Retire, Step
        <5>3. back.wb => back.rd # "x0"
          BY DEF Wb
        <5> QED
          BY <5>2, <5>3
      <4> QED
        BY <2>3, <4>1, <4>2
    <3> QED
      BY <1>2, <2>1, <3>1 DEF SparesZero
  <2>4. CASE d.op \in {"lw", "sw", "lc", "sc"}
    <3>1. /\ "wb_q" \notin DOMAIN Dispatch(d).puts
          /\ Dispatch(d).stash.rd = d.rd
          /\ d.op \in {"sw", "sc"} => Dispatch(d).stash.phase \in {2, 5}
      <4>1. CASE d.op = "lw"
        BY <4>1 DEF Dispatch, Step, Waiting
      <4>2. CASE d.op = "sw"
        BY <4>2 DEF Dispatch, Step, Waiting
      <4>3. CASE d.op = "lc"
        BY <4>3 DEF Dispatch, Step, Waiting
      <4>4. CASE d.op = "sc"
        BY <4>4 DEF Dispatch, Step, Waiting
      <4> QED
        BY <2>4, <4>1, <4>2, <4>3, <4>4
    <3> QED
      BY <2>1, <2>4, <3>1 DEF SparesZero
  <2> QED
    BY <2>1, <2>2, <2>3, <2>4 DEF Operations
<1>5. CASE stash.phase = 1 /\ resp # <<>>
  <2>1. Execute(resp) = Retire(Wb(TRUE, stash.rd, IntCap(Head(resp))), {"dmem_rd_resp"})
    BY <1>5 DEF Execute, LoadReturns
  <2> QED
    BY <1>2, <1>5, <2>1 DEF ZeroKept, Wb
<1>6. CASE stash.phase = 2 /\ resp # <<>>
  BY <1>3, <1>6 DEF Execute, StoreMerged
<1>7. CASE stash.phase = 3 /\ resp # <<>>
  <2>1. Execute(resp) = LowWord(Head(resp))
    BY <1>7 DEF Execute
  <2> QED
    BY <1>7, <2>1 DEF ZeroKept, LowWord, Step, Waiting, SparesZero
<1>8. CASE stash.phase = 4 /\ resp # <<>>
  <2> DEFINE cap == [tag |-> Head(tagResp), hi |-> Head(resp), lo |-> stash.lo]
  <2>1. Execute(resp) = Retire(Wb(TRUE, stash.rd, cap), {"dmem_rd_resp", "tmem_rd_resp"})
    BY <1>8 DEF Execute, HighWord, ZeroKept, TagArrives
  <2> HIDE DEF cap
  <2> QED
    BY <1>2, <1>8, <2>1 DEF ZeroKept, Wb
<1>9. CASE stash.phase = 5
  BY <1>3, <1>9 DEF Execute, StoreHigh
<1>10. CASE /\ ~(stash.phase = 0 /\ Holds("decode_q")) /\ stash.phase # 5
            /\ ~(stash.phase \in 1 .. 4 /\ resp # <<>>)
  BY <1>10 DEF Execute, Stay, Step, ZeroKept, SparesZero
<1> QED
  BY <1>1, <1>4, <1>5, <1>6, <1>7, <1>8, <1>9, <1>10

LEMMA EdgeSparesZero ==
    ASSUME ZeroKept, TagArrives', NEW instr, LoadsToRegisters(instr), NEW resp, NEW e, e = Execute(resp),
           NEW others, Apart(others), queues' = QueuesAfter(Effects(instr, e, others)),
           stash' = e.stash, regfile' = RegfileAfter
    PROVE  ZeroKept'
<1>1. TagArrives /\ CreditCirculates /\ WritebackKeepsUp /\ ExecuteStep(e) /\ MemoryStep(e, resp)
  BY Executes, ExecutesOnMemory DEF ZeroKept, TagArrives
<1>2. /\ queues'["fetch_q"] =
             FifoAfter(queues["fetch_q"], 1, Holds("fetch_q"),
                       IF Holds("next_pcc_q") /\ ~Holds("fetch_q") THEN <<instr>> ELSE <<>>)
      /\ queues'["decode_q"] =
             FifoAfter(queues["decode_q"], 1, stash.phase = 0 /\ Holds("decode_q"),
                       IF Holds("fetch_q") THEN <<Decoded(First("fetch_q"), regfile)>> ELSE <<>>)
      /\ queues'["wb_q"] = FifoAfter(queues["wb_q"], 1, queues["wb_q"] # <<>>, Offer(e.puts, "wb_q"))
  BY <1>1, CreditQueueSteps, WritebackQueueStep
<1>3. SparesZero(e)
  BY ExecuteSparesZero
<1>4. WritebackKeepsUp'
  BY <1>1, WritebackStep
<1>5. ASSUME NEW items, Short(items), NEW taken, NEW offer, Short(offer), taken => items # <<>>,
             NEW after, after = FifoAfter(items, 1, taken, offer), after # <<>>
      PROVE  (items # <<>> /\ after = items) \/ (offer # <<>> /\ after = offer)
  <2>1. CASE items = <<>>
    <3>1. ~taken
      BY <1>5, <2>1
    <3>2. after = offer
      <4>1. CASE offer = <<>>
        BY <1>5, <2>1, <3>1, <4>1, ShortQueues DEF FifoAfter
      <4>2. CASE offer # <<>>
        BY <1>5, <2>1, <3>1, <4>2, ShortQueues DEF FifoAfter, Short
      <4> QED
        BY <4>1, <4>2
    <3> QED
      BY <1>5, <3>2
  <2>2. CASE items # <<>>
    <3>1. PICK x : items = <<x>>
      BY <1>5, <2>2 DEF Short
    <3>2. after \in {<<>>, items}
      BY <1>5, <3>1, ShortQueues DEF FifoAfter
    <3> QED
      BY <1>5, <2>2, <3>2
  <2> QED
    BY <2>1, <2>2
<1>6. \A q \in {"fetch_q", "decode_q", "wb_q"} : Short(queues[q])
  BY <1>1 DEF CreditCirculates, CreditQueues, WritebackKeepsUp
<1>7. Holds("fetch_q")' => LoadsToRegisters(First("fetch_q")')
  <2> DEFINE offer == IF Holds("next_pcc_q") /\ ~Holds("fetch_q") THEN <<instr>> ELSE <<>>
             taken == Holds("fetch_q")
  <2>1. Short(offer) /\ (offer # <<>> => Head(offer) = instr)
    BY DEF Short
  <2>2. queues'["fetch_q"] = FifoAfter(queues["fetch_q"], 1, taken, offer) /\ (taken => queues["fetch_q"] # <<>>)
    BY <1>2 DEF Holds
  <2> HIDE DEF offer, taken
  <2>3. queues'["fetch_q"] # <<>> =>
            \/ queues["fetch_q"] # <<>> /\ queues'["fetch_q"] = queues["fetch_q"]
            \/ offer # <<>> /\ queues'["fetch_q"] = offer
    BY <1>5, <1>6, <2>1, <2>2
  <2> QED
    BY <2>1, <2>3 DEF ZeroKept, Holds, First
<1>8. Holds("decode_q")' => LoadsToRegisters(First("decode_q")')
  <2> DEFINE d     == Decoded(First("fetch_q"), regfile)
             offer == IF Holds("fetch_q") THEN <<d>> ELSE <<>>
             taken == stash.phase = 0 /\ Holds("decode_q")
  <2>1. Holds("fetch_q") => LoadsToRegisters(d)
    BY DEF ZeroKept, LoadsToRegisters, Decoded
  <2> HIDE DEF d
  <2>2. Short(offer) /\ (offer # <<>> => LoadsToRegisters(Head(offer)))
    BY <2>1 DEF Short
  <2>3. queues'["decode_q"] = FifoAfter(queues["decode_q"], 1, taken, offer) /\ (taken => queues["decode_q"] # <<>>)
    BY <1>2 DEF Holds, d
  <2> HIDE DEF offer, taken
  <2>4. queues'["decode_q"] # <<>> =>
            \/ queues["decode_q"] # <<>> /\ queues'["decode_q"] = queues["decode_q"]
            \/ offer # <<>> /\ queues'["decode_q"] = offer
    BY <1>5, <1>6, <2>2, <2>3
  <2> QED
    BY <2>2, <2>4 DEF ZeroKept, Holds, First
<1>9. Holds("wb_q")' /\ First("wb_q")'.wb => First("wb_q")'.rd # "x0"
  <2> DEFINE offer == Offer(e.puts, "wb_q")
             taken == queues["wb_q"] # <<>>
  <2>1. Short(offer) /\ (offer # <<>> => "wb_q" \in DOMAIN e.puts /\ Head(offer) = e.puts["wb_q"])
    BY DEF Short, Offer
  <2>2. queues'["wb_q"] = FifoAfter(queues["wb_q"], 1, taken, offer) /\ (taken => queues["wb_q"] # <<>>)
    BY <1>2
  <2> HIDE DEF offer, taken
  <2>3. queues'["wb_q"] # <<>> =>
            \/ queues["wb_q"] # <<>> /\ queues'["wb_q"] = queues["wb_q"]
            \/ offer # <<>> /\ queues'["wb_q"] = offer
    BY <1>5, <1>6, <2>1, <2>2
  <2> QED
    BY <1>3, <2>1, <2>3 DEF ZeroKept, SparesZero, Holds, First
<1>10. ZeroRegister'
  BY DEF ZeroKept, ZeroRegister, RegfileAfter
<1>11. stash'.phase \in {1, 3, 4} => stash'.rd # "x0"
  BY <1>3 DEF SparesZero
<1> QED
  BY <1>4, <1>7, <1>8, <1>9, <1>10, <1>11 DEF ZeroKept

LEMMA InitZero == SystemsInit => ZeroKept
<1> SUFFICES ASSUME SystemsInit PROVE ZeroKept
  OBVIOUS
<1>1. HasRoom /\ TagArrives /\ ProgramFollows
  BY InitRoom, InitTag, InitFollows
<1>2. /\ stash = IdleStash /\ regfile = [r \in Registers |-> Null]
      /\ ~Holds("fetch_q") /\ ~Holds("decode_q") /\ ~Holds("wb_q")
  <2>1. CASE top = "CPU" /\ Alone!Init
    <3>1. queues = [q \in CoreQueues |-> IF q = "next_pcc_q" THEN <<Alone!Pcc>> ELSE <<>>]
      BY <2>1 DEF Alone!Init, Alone!CpuInit, Alone!CoreQueues, CoreQueues
    <3>2. stash = IdleStash /\ regfile = [r \in Registers |-> Null]
      BY <2>1 DEF Alone!Init, Alone!CpuInit, Alone!IdleStash, IdleStash, Alone!Null, Null, Alone!IntCap, IntCap
    <3> QED
      BY <3>1, <3>2 DEF Holds, CoreQueues
  <2>2. CASE top = "Marie" /\ Init
    <3>1. CoreQueues \subseteq DOMAIN queues
      BY <1>1, <2>2 DEF ProgramFollows, SystemTyped
    <3> QED
      BY <2>2, <3>1 DEF Init, CpuInit, Holds, CoreQueues
  <2> QED
    BY <2>1, <2>2 DEF SystemsInit
<1>3. stash.phase = 0
  BY <1>2 DEF IdleStash
<1>4. ZeroRegister
  BY <1>2, CpuAssumption DEF ZeroRegister
<1> QED
  BY <1>1, <1>2, <1>3, <1>4 DEF HasRoom, ZeroKept

LEMMA NextKeepsZero == ASSUME NoLoadsToZero, ZeroKept, [SystemsNext]_allVars PROVE ZeroKept'
<1>1. TagArrives'
  BY NextKeepsTag DEF ZeroKept
<1>2. CASE Tick
  <2> DEFINE e == Execute(dmemResp)
  <2>1. PICK instr \in AloneInstructions :
           /\ queues' = QueuesAfter(Effects(instr, e, {}))
           /\ stash' = e.stash /\ regfile' = RegfileAfter
    BY <1>2, SamePipeline DEF Tick, Alone!Tick, Alone!CpuEdge, Alone!Effect, Effect, Effects,
       Alone!RegfileAfter, RegfileAfter, Alone!Holds, Holds, Alone!First, First
  <2>2. LoadsToRegisters(instr) /\ Apart({})
    BY DEF NoLoadsToZero, Apart
  <2> QED
    BY <1>1, <2>1, <2>2, EdgeSparesZero
<1>3. CASE CpuClk
  <2> DEFINE e      == Execute(queues["dmem_rd_resp"])
             others == {Effect(CpuDmemAdapter.takes, CpuDmemAdapter.puts)}
  <2>1. PICK instr \in Instructions :
           /\ queues' = QueuesAfter(Effects(instr, e, others))
           /\ stash' = e.stash /\ regfile' = RegfileAfter
    BY <1>3 DEF CpuClk, CpuEdge, Effects
  <2>2. LoadsToRegisters(instr) /\ Apart(others)
    BY AdapterIsApart DEF NoLoadsToZero
  <2> QED
    BY <1>1, <2>1, <2>2, EdgeSparesZero
<1>4. CASE XbarClk \/ DevClk \/ UNCHANGED allVars
  <2>1. UNCHANGED <<queues, stash, regfile>>
    BY <1>4 DEF XbarClk, DevClk, allVars, vars, cpuVars
  <2>2. WritebackKeepsUp'
    BY <2>1 DEF ZeroKept, WritebackKeepsUp, Holds
  <2> QED
    BY <1>1, <2>1, <2>2 DEF ZeroKept, ZeroRegister, Holds, First
<1> QED
  BY <1>2, <1>3, <1>4 DEF SystemsNext, Next

(* In either system, for every program that loads nothing into x0, the     *)
(* register x0 is the null capability at every edge                        *)
(* (src/examples/cpu_core.tbn, Writeback).  A load to x0 breaks it:        *)
(* MCCpuSystemsZero.                                                       *)
THEOREM ZeroRegisterKept == ASSUME NoLoadsToZero PROVE Spec => []ZeroRegister
<1>1. SystemsInit => ZeroKept
  BY InitZero
<1>2. ZeroKept /\ [SystemsNext]_allVars => ZeroKept'
  BY NextKeepsZero
<1>3. ZeroKept => ZeroRegister
  BY DEF ZeroKept
<1> QED
  BY <1>1, <1>2, <1>3, PTL DEF Spec

=============================================================================
