----------------------------- MODULE CpuSystems -----------------------------
(***************************************************************************)
(* The two systems built around the CPU core: CPU of src/examples/         *)
(* rv32i.tbn, with memories of its own, and Marie of src/examples/         *)
(* marie.tbn.  Each runs programs of its own choice of instructions; every *)
(* address that CPU uses is one of its memory.                             *)
(***************************************************************************)
EXTENDS MarieSoc

CONSTANTS
    Tops,               \* which systems: a subset of {"CPU", "Marie"}
    AloneInstructions   \* what programs of CPU consist of, as Instructions for Marie

ASSUME SystemsAssumption ==
    /\ Tops \subseteq {"CPU", "Marie"}
    /\ AloneInstructions \subseteq {i \in InstructionSet : i.addr \in MemoryWords}

VARIABLE top   \* the system that is running

Alone == INSTANCE CpuAlone WITH Instructions <- AloneInstructions

allVars == <<top, vars>>
fabric  == <<busVars, device, mphase, uart>>

SystemsInit ==
    /\ top \in Tops
    /\ \/ top = "CPU" /\ Alone!Init /\ FabricInit
       \/ top = "Marie" /\ Init

Tick  == top = "CPU" /\ Alone!Tick /\ UNCHANGED <<top, fabric>>
Marie == top = "Marie" /\ UNCHANGED top

SystemsNext == Tick \/ (Marie /\ Next)

(* The clocks keep running. *)
Spec ==
    /\ SystemsInit /\ [][SystemsNext]_allVars
    /\ WF_allVars(Tick)
    /\ WF_allVars(Marie /\ CpuClk) /\ WF_allVars(Marie /\ XbarClk) /\ WF_allVars(Marie /\ DevClk)

-----------------------------------------------------------------------------

(* Type invariants of the two systems.                                     *)
SystemsTypeOK == IF top = "CPU" THEN Alone!CpuAloneTypeOK ELSE SocTypeOK

(* What Execute can take from dmem_read_resp. *)
Response == IF top = "CPU" THEN dmemResp ELSE queues["dmem_rd_resp"]

(* No put of the core, the adapter or the crossbar, and no answer of a     *)
(* device, ever meets a full queue or a busy memory, though none of the    *)
(* processes but Fetch waits for room.  What may be dropped are the bytes  *)
(* that UartDevice and UartRx put to the UART's own two queues.            *)
OnlyUartBytesAreDropped ==
    LET e == Execute(Response) IN
    /\ \A puts \in {Decode.puts, e.puts} : \A q \in DOMAIN puts \intersect DOMAIN queues : ~Holds(q)
    /\ "tmem_rd_req" \in DOMAIN e.puts => tagResp = <<>>
    /\ top = "CPU" /\ "dmem_rd_req" \in DOMAIN e.puts => dmemResp = <<>> \/ "dmem_rd_resp" \in e.takes
    /\ top = "Marie" => FabricHasRoom

(* The high word of a capability is only there to be taken when the tag    *)
(* is: Execute takes the word all the same, and could not put it back      *)
(* (src/examples/cpu_core.tbn, "assume same-cycle arrival").               *)
TagComesFirst == stash.phase = 4 /\ Response # <<>> => tagResp # <<>>

View == INSTANCE Isa WITH
    Instructions <- Instructions \union AloneInstructions,
    regs <- Registered,
    mem <- IF top = "CPU" THEN Alone!Memory ELSE Memory,
    current <- UnderWay

(* Either system is, to its programs, the sequential machine of Isa: with  *)
(* memory a cycle away, and with memory behind a bus and three clocks.     *)
ImplementsIsa == View!Spec

(* Instructions are fetched and completed for ever, whatever the pace of   *)
(* the clocks.                                                             *)
InstructionsKeepRetiring == []<>(UnderWay = None) /\ []<>(UnderWay # None)

(* src/examples/marie.tbn, UART device: "Write any offset -> enqueue       *)
(* data[7:0] into TX FIFO; Read any offset -> dequeue byte from RX FIFO".  *)
(* Only a load instruction makes the UART give up a received byte.         *)
StoresLeaveReceivedBytes ==
    top = "Marie" /\ UartReads => UnderWay # None /\ UnderWay.op = "lw"

(* The same comment, "Write any offset -> enqueue data[7:0] into TX FIFO": *)
(* when UartDevice takes a write, tx_q has room for its byte.              *)
WritesEnqueueTheirByte == top = "Marie" /\ UartWrites => uart.tx < TxDepth

=============================================================================
