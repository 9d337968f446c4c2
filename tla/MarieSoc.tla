------------------------------ MODULE MarieSoc ------------------------------
(***************************************************************************)
(* The Marie SoC (src/examples/marie.tbn): the CPU core, the adapter of    *)
(* its data memory port to the bus, the crossbar and the devices, in three *)
(* clock domains joined by crossing queues.  Of src/sim/soc_top.sv, the    *)
(* response register of the device memory.                                 *)
(*                                                                         *)
(* The three clocks are unrelated: an edge of one at a time, in any order. *)
(* The manifest, clocks and swatch devices all answer a request at once,   *)
(* with a word that is left open.  Of the UART only how full its two byte  *)
(* queues are: the serial lines take from one and put to the other in any  *)
(* cycle.                                                                  *)
(***************************************************************************)
EXTENDS CpuCore, FiniteSets

CONSTANTS
    BusDepth,   \* depth of the crossing queues
    TxDepth,    \* depth of tx_q
    RxDepth     \* depth of rx_q

ASSUME SocAssumption ==
    /\ BusDepth \in Nat \ {0} /\ TxDepth \in Nat \ {0} /\ RxDepth \in Nat \ {0}
    /\ "uart" \in Devices /\ "idle" \notin Devices

VARIABLES
    phase,      \* CpuDmemAdapter's Cell
    host,       \* cpu_bus_req and cpu_bus_resp
    xphase,     \* Xbar's Cell: "idle", or the device whose response it waits for
    device,     \* target -> its request and response queue
    mphase,     \* MemDevice's Cell
    dmem,       \* the device memory
    dmemResp,   \* its response register
    uart        \* how many bytes are in tx_q and in rx_q

busVars == <<phase, host, xphase>>
devVars == <<mphase, dmem, dmemResp, uart>>
vars    == <<cpuVars, busVars, device, devVars>>

Targets       == Devices \union {"mem"}
AdapterQueues == {"dmem_rd_req", "dmem_rd_resp", "dmem_wr_req"}
Link          == [req |-> EmptyCrossing, resp |-> EmptyCrossing]

FabricInit ==
    /\ phase = 0 /\ xphase = "idle" /\ mphase = 0
    /\ host = Link /\ device = [d \in Targets |-> Link]
    /\ uart = [tx |-> 0, rx |-> 0]

Init ==
    /\ CpuInit(CoreQueues \union AdapterQueues) /\ FabricInit
    /\ dmem = [a \in MemoryWords |-> 0] /\ dmemResp = <<>>

-----------------------------------------------------------------------------
(* The CPU's domain.                                                       *)

Read(addr)  == [we |-> FALSE, addr |-> addr, data |-> 0]
Write(w)    == [we |-> TRUE, addr |-> w.addr, data |-> w.data]

AdapterStep(next, takes, puts) == [phase |-> next, takes |-> takes, puts |-> puts]

(* Mutants of CpuDmemAdapter: writes are not waited for; the adapter stays *)
(* where it is when a write is acknowledged.                               *)
MutPostedWrites ==
    CASE phase = 0 /\ Holds("dmem_rd_req") ->
             AdapterStep(1, {"dmem_rd_req"}, [bus_req |-> Read(First("dmem_rd_req"))])
      [] phase = 0 /\ ~Holds("dmem_rd_req") /\ Holds("dmem_wr_req") ->
             AdapterStep(0, {"dmem_wr_req"}, [bus_req |-> Write(First("dmem_wr_req"))])
      [] phase = 1 /\ Readable(host.resp) ->
             AdapterStep(0, {"bus_resp"}, [dmem_rd_resp |-> Head(host.resp.items)])
      [] OTHER -> AdapterStep(phase, {}, <<>>)

MutStaysBusy ==
    CASE phase = 0 /\ Holds("dmem_rd_req") ->
             AdapterStep(1, {"dmem_rd_req"}, [bus_req |-> Read(First("dmem_rd_req"))])
      [] phase = 0 /\ ~Holds("dmem_rd_req") /\ Holds("dmem_wr_req") ->
             AdapterStep(2, {"dmem_wr_req"}, [bus_req |-> Write(First("dmem_wr_req"))])
      [] phase = 1 /\ Readable(host.resp) ->
             AdapterStep(0, {"bus_resp"}, [dmem_rd_resp |-> Head(host.resp.items)])
      [] phase = 2 /\ Readable(host.resp) -> AdapterStep(2, {"bus_resp"}, <<>>)
      [] OTHER -> AdapterStep(phase, {}, <<>>)

(* A read goes before a write; one request at a time is on the bus. *)
CpuDmemAdapter ==
    CASE phase = 0 /\ Holds("dmem_rd_req") ->
             AdapterStep(1, {"dmem_rd_req"}, [bus_req |-> Read(First("dmem_rd_req"))])
      [] phase = 0 /\ ~Holds("dmem_rd_req") /\ Holds("dmem_wr_req") ->
             AdapterStep(2, {"dmem_wr_req"}, [bus_req |-> Write(First("dmem_wr_req"))])
      [] phase = 1 /\ Readable(host.resp) ->
             AdapterStep(0, {"bus_resp"}, [dmem_rd_resp |-> Head(host.resp.items)])
      [] phase = 2 /\ Readable(host.resp) -> AdapterStep(0, {"bus_resp"}, <<>>)
      [] OTHER -> AdapterStep(phase, {}, <<>>)

CpuClk ==
    LET a == CpuDmemAdapter IN
    /\ CpuEdge(queues["dmem_rd_resp"], {Effect(a.takes, a.puts)})
    /\ phase' = a.phase
    /\ host' = [req  |-> WriterEdge(host.req, BusDepth, Offer(a.puts, "bus_req")),
                resp |-> ReaderEdge(host.resp, "bus_resp" \in a.takes)]
    /\ UNCHANGED <<xphase, device, devVars>>

-----------------------------------------------------------------------------
(* The crossbar's domain.                                                  *)

Route(addr) == IF addr \in MemoryWords THEN "mem" ELSE addr

XbarStep(next, requests, answered, answer) ==
    [xphase |-> next, requests |-> requests, answered |-> answered, answer |-> answer]

Xbar ==
    LET request == Head(host.req.items)
        target  == Route(request.addr)
    IN  CASE xphase = "idle" /\ Readable(host.req) /\ target \in Targets ->
                 XbarStep(target, [d \in {target} |-> request], {}, <<>>)
          [] xphase = "idle" /\ Readable(host.req) /\ target \notin Targets ->
                 XbarStep("idle", <<>>, {}, <<0>>)
          [] xphase # "idle" /\ Readable(device[xphase].resp) ->
                 XbarStep("idle", <<>>, {xphase}, <<Head(device[xphase].resp.items)>>)
          [] OTHER -> XbarStep(xphase, <<>>, {}, <<>>)

XbarClk ==
    LET x == Xbar IN
    /\ xphase' = x.xphase
    /\ host' = [req  |-> ReaderEdge(host.req, xphase = "idle"),
                resp |-> WriterEdge(host.resp, BusDepth, x.answer)]
    /\ device' = [d \in Targets |->
                     [req  |-> WriterEdge(device[d].req, BusDepth, Offer(x.requests, d)),
                      resp |-> ReaderEdge(device[d].resp, d \in x.answered)]]
    /\ UNCHANGED <<cpuVars, phase, devVars>>

-----------------------------------------------------------------------------
(* The devices' domain.                                                    *)

Asked(d)   == Readable(device[d].req)
Request(d) == Head(device[d].req.items)

(* An edge of the queues of a device that takes its request, or none, and  *)
(* offers an answer, or none.                                              *)
DeviceEdge(d, takes, answer) ==
    [req |-> ReaderEdge(device[d].req, takes), resp |-> WriterEdge(device[d].resp, BusDepth, answer)]

(* MemDevice answers a write at once, a read when memory has answered. *)
MemWrites  == mphase = 0 /\ Asked("mem") /\ Request("mem").we
MemReads   == mphase = 0 /\ Asked("mem") /\ ~Request("mem").we
MemAnswers == mphase = 1 /\ dmemResp # <<>>

(* Mutant of MemDevice: it acknowledges a read like a write.                *)
MutReadsAcknowledged ==
    DeviceEdge("mem", MemWrites \/ MemReads,
               IF MemWrites \/ MemReads THEN <<0>> ELSE IF MemAnswers THEN dmemResp ELSE <<>>)

MemDevice ==
    DeviceEdge("mem", MemWrites \/ MemReads,
               IF MemWrites THEN <<0>> ELSE IF MemAnswers THEN dmemResp ELSE <<>>)

(* A device that answers whatever it is asked at once. *)
AnswersAtOnce(d, word) == DeviceEdge(d, TRUE, IF Asked(d) THEN <<word>> ELSE <<>>)

UartWrites == Asked("uart") /\ Request("uart").we
UartReads  == Asked("uart") /\ ~Request("uart").we

(* A read of the UART takes a byte; a write, and a read when there is      *)
(* none, yield 0.                                                          *)
UartDevice(byte) == AnswersAtOnce("uart", IF UartReads /\ uart.rx > 0 THEN byte ELSE 0)

(* The UART's queues, when the lines took a byte (sent) or put one         *)
(* (arrived).  A byte that finds its queue full is lost.                   *)
UartQueuesAfter(sent, arrived) ==
    LET after(n, depth, took, puts) ==
            n - (IF took /\ n > 0 THEN 1 ELSE 0) + (IF puts /\ n < depth THEN 1 ELSE 0)
    IN  [tx |-> after(uart.tx, TxDepth, sent, UartWrites),
         rx |-> after(uart.rx, RxDepth, UartReads, arrived)]

DevClk ==
    /\ \E word \in IF \E d \in Devices : Asked(d) THEN Words ELSE {0} :
          device' = [d \in Targets |-> IF d = "mem" THEN MemDevice
                                       ELSE IF d = "uart" THEN UartDevice(word)
                                       ELSE AnswersAtOnce(d, word)]
    /\ \E sent \in {FALSE, uart.tx > 0}, arrived \in {FALSE, uart.rx < RxDepth} : uart' = UartQueuesAfter(sent, arrived)
    /\ mphase' = IF MemReads THEN 1 ELSE IF MemAnswers THEN 0 ELSE mphase
    /\ dmem' = IF MemWrites THEN [dmem EXCEPT ![Request("mem").addr] = Request("mem").data] ELSE dmem
    /\ dmemResp' = IF MemReads THEN <<dmem[Request("mem").addr]>>
                   ELSE IF MemAnswers THEN <<>> ELSE dmemResp
    /\ UNCHANGED <<cpuVars, busVars>>

-----------------------------------------------------------------------------

Next == CpuClk \/ XbarClk \/ DevClk

-----------------------------------------------------------------------------

IsLink(link) ==
    \A c \in {link.req, link.resp} :
        /\ Len(c.items) <= BusDepth
        /\ c.seen2 <= c.seen1 /\ c.seen1 <= Len(c.items)
        /\ c.hidden1 <= c.hidden2 /\ Len(c.items) + c.hidden2 <= BusDepth

(* Type invariant, with what the two sides of every crossing know of each  *)
(* other in order.                                                         *)
SocTypeOK ==
    /\ CpuTypeOK
    /\ phase \in 0 .. 2 /\ mphase \in {0, 1} /\ xphase \in Targets \union {"idle"}
    /\ IsLink(host) /\ \A d \in Targets : IsLink(device[d])
    /\ dmem \in [MemoryWords -> Words] /\ Len(dmemResp) <= 1
    /\ uart.tx \in 0 .. TxDepth /\ uart.rx \in 0 .. RxDepth

(* How many requests and responses a link holds. *)
Carried(link) == Len(link.req.items) + Len(link.resp.items)

One(condition) == IF condition THEN 1 ELSE 0

(* The adapter lets one request on the bus at a time, and it is in one     *)
(* place: between the adapter and the crossbar, or at the one device whose *)
(* response the crossbar waits for.                                        *)
OneRequestOnTheBus ==
    /\ Carried(host) + One(xphase # "idle") = One(phase # 0)
    /\ \A d \in Targets : Carried(device[d]) + One(d = "mem" /\ mphase = 1) = One(xphase = d)

(* No put of the adapter or the crossbar, and no answer of a device, meets *)
(* a full queue.  UartDevice's put to tx_q is not among them: it may.      *)
FabricHasRoom ==
    /\ "dmem_rd_resp" \in DOMAIN CpuDmemAdapter.puts => ~Holds("dmem_rd_resp")
    /\ "bus_req" \in DOMAIN CpuDmemAdapter.puts => Room(host.req, BusDepth)
    /\ \A d \in DOMAIN Xbar.requests : Room(device[d].req, BusDepth)
    /\ Xbar.answer # <<>> => Room(host.resp, BusDepth)
    /\ \A d \in Targets : Asked(d) \/ (d = "mem" /\ MemAnswers) => Room(device[d].resp, BusDepth)

(* The requests on their way to memory, oldest first.  A write among them  *)
(* is in memory to the program already.                                    *)
Pending ==
    device["mem"].req.items \o host.req.items
        \o (IF Holds("dmem_wr_req") THEN <<Write(First("dmem_wr_req"))>> ELSE <<>>)

(* The word at address a, once these requests are served. *)
WordAfter(requests, a) ==
    LET writes == {i \in DOMAIN requests : requests[i].we /\ requests[i].addr = a}
    IN  IF writes = {} THEN dmem[a]
        ELSE requests[CHOOSE i \in writes : \A k \in writes : k <= i].data

Memory ==
    IF stash.phase = 5 THEN stash.val
    ELSE [a \in {"tag", "hi", "lo"} |-> IF a = "tag" THEN tags ELSE WordAfter(Pending, a)]

=============================================================================
