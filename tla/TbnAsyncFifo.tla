---------------------------- MODULE TbnAsyncFifo ----------------------------
(***************************************************************************)
(* The clock-domain-crossing FIFO tbn_async_fifo that the SystemVerilog    *)
(* back end emits for every AsyncQueue edge (src/src/lower.rs,             *)
(* async_fifo_module_sv), bit by bit where it matters: the pointers cross  *)
(* in Gray code through two flip-flops, and a flip-flop clocked while its  *)
(* input changes settles, each bit on its own, to the old or the new value.*)
(*                                                                         *)
(* DEPTH is 2^AWIDTH; elaboration rejects other depths.  It accepts 1 and  *)
(* 2 (src/src/elaborate.rs:441), for which the circuit is not legal        *)
(* SystemVerilog: with AWIDTH = 0 there is no bit AWIDTH - 1, and with     *)
(* AWIDTH = 1 the part-select [AWIDTH-2:0] of full runs from -1 to 0.      *)
(* What it would do then is not defined, and AWIDTH is taken to be larger. *)
(***************************************************************************)
EXTENDS Integers, Sequences

CONSTANTS
    Data,    \* values of the WIDTH-bit payload
    None,    \* no value offered or delivered
    AWidth   \* AWIDTH = $clog2(DEPTH)

ASSUME AWidthAssumption == AWidth \in Nat /\ AWidth >= 2 /\ None \notin Data

VARIABLES
    storage,           \* reg storage [0:DEPTH-1]
    wr_ptr_bin,        \* write domain
    rd_ptr_gray_sync1, \* write domain
    rd_ptr_gray_sync2, \* write domain
    rd_ptr_bin,        \* read domain
    wr_ptr_gray_sync1, \* read domain
    wr_ptr_gray_sync2, \* read domain
    put,               \* the token the writer handed over in the last step
    taken              \* the token the reader received in the last step

wr_regs == <<wr_ptr_bin, rd_ptr_gray_sync1, rd_ptr_gray_sync2>>
rd_regs == <<rd_ptr_bin, wr_ptr_gray_sync1, wr_ptr_gray_sync2>>
vars == <<storage, wr_regs, rd_regs, put, taken>>

Depth == 2 ^ AWidth
Token == Data \union {None}
Slots == 0 .. Depth - 1
Ptrs  == 0 .. 2 * Depth - 1        \* [AWIDTH:0]
Bits  == 0 .. AWidth
Words == [Bits -> {0, 1}]

-----------------------------------------------------------------------------
(* bin ^ (bin >> 1), as a word of bits. *)
Bit(n, i) == (n \div 2^i) % 2
(* Mutant of Gray: the pointers cross in binary.                           *)
MutBinary == [n \in Ptrs |-> [i \in Bits |-> Bit(n, i)]]

Gray == [n \in Ptrs |-> [i \in Bits |-> (Bit(n, i) + Bit(n, i + 1)) % 2]]

Zero == [i \in Bits |-> 0]

(* Mutant of full: the test for binary pointers.                           *)
MutFullOfBinary ==
    LET wr == Gray[wr_ptr_bin]
        rd == rd_ptr_gray_sync2
    IN  wr[AWidth] # rd[AWidth] /\ \A i \in 0 .. AWidth - 1 : wr[i] = rd[i]

full ==
    LET wr == Gray[wr_ptr_bin]
        rd == rd_ptr_gray_sync2
    IN  /\ wr[AWidth] # rd[AWidth]
        /\ wr[AWidth - 1] # rd[AWidth - 1]
        /\ \A i \in 0 .. AWidth - 2 : wr[i] = rd[i]

empty == Gray[rd_ptr_bin] = wr_ptr_gray_sync2

do_enq(offer) == offer # None /\ ~full
do_deq(deq_ready) == deq_ready /\ ~empty

(* Mutant of wr_ptr_next: one bit too many.                                *)
MutWrPtrTooWide(offer) == IF do_enq(offer) THEN (wr_ptr_bin + 1) % (4 * Depth) ELSE wr_ptr_bin

wr_ptr_next(offer)     == IF do_enq(offer) THEN (wr_ptr_bin + 1) % (2 * Depth) ELSE wr_ptr_bin
rd_ptr_next(deq_ready) == IF do_deq(deq_ready) THEN (rd_ptr_bin + 1) % (2 * Depth) ELSE rd_ptr_bin

(* What a flip-flop bank may hold after sampling a word that is going from *)
(* old to new.                                                             *)
Sampled(old, new) == {w \in Words : \A i \in Bits : w[i] \in {old[i], new[i]}}

-----------------------------------------------------------------------------

Init ==
    /\ storage \in [Slots -> Data]
    /\ wr_ptr_bin = 0 /\ rd_ptr_gray_sync1 = Zero /\ rd_ptr_gray_sync2 = Zero
    /\ rd_ptr_bin = 0 /\ wr_ptr_gray_sync1 = Zero /\ wr_ptr_gray_sync2 = Zero
    /\ put = None
    /\ taken = None

(* Mutants of WrEdge and RdEdge: the synchroniser moves only with a        *)
(* transfer.                                                               *)
MutWrSyncGated(offer, word) ==
    /\ rd_ptr_gray_sync1' = IF do_enq(offer) THEN word ELSE rd_ptr_gray_sync1
    /\ rd_ptr_gray_sync2' = IF do_enq(offer) THEN rd_ptr_gray_sync1 ELSE rd_ptr_gray_sync2
    /\ wr_ptr_bin' = wr_ptr_next(offer)
    /\ storage' = IF do_enq(offer)
                  THEN [storage EXCEPT ![wr_ptr_bin % Depth] = offer]
                  ELSE storage
    /\ put' = IF do_enq(offer) THEN offer ELSE None

MutRdSyncGated(deq_ready, word) ==
    /\ wr_ptr_gray_sync1' = IF do_deq(deq_ready) THEN word ELSE wr_ptr_gray_sync1
    /\ wr_ptr_gray_sync2' = IF do_deq(deq_ready) THEN wr_ptr_gray_sync1 ELSE wr_ptr_gray_sync2
    /\ rd_ptr_bin' = rd_ptr_next(deq_ready)
    /\ taken' = IF do_deq(deq_ready) THEN storage[rd_ptr_bin % Depth] ELSE None

(* always_ff @(posedge wr_clk); word is what the first flip-flop samples. *)
WrEdge(offer, word) ==
    /\ rd_ptr_gray_sync1' = word
    /\ rd_ptr_gray_sync2' = rd_ptr_gray_sync1
    /\ wr_ptr_bin' = wr_ptr_next(offer)
    /\ storage' = IF do_enq(offer)
                  THEN [storage EXCEPT ![wr_ptr_bin % Depth] = offer]
                  ELSE storage
    /\ put' = IF do_enq(offer) THEN offer ELSE None

(* always_ff @(posedge rd_clk) *)
RdEdge(deq_ready, word) ==
    /\ wr_ptr_gray_sync1' = word
    /\ wr_ptr_gray_sync2' = wr_ptr_gray_sync1
    /\ rd_ptr_bin' = rd_ptr_next(deq_ready)
    /\ taken' = IF do_deq(deq_ready) THEN storage[rd_ptr_bin % Depth] ELSE None

WrClk(offer) ==
    /\ WrEdge(offer, Gray[rd_ptr_bin])
    /\ taken' = None
    /\ UNCHANGED rd_regs

RdClk(deq_ready) ==
    /\ RdEdge(deq_ready, Gray[wr_ptr_bin])
    /\ put' = None
    /\ UNCHANGED <<storage, wr_regs>>

(* Both clocks rise within one aperture. *)
BothClk(offer, deq_ready) ==
    /\ \E word \in Sampled(Gray[rd_ptr_bin], Gray[rd_ptr_next(deq_ready)]) :
          WrEdge(offer, word)
    /\ \E word \in Sampled(Gray[wr_ptr_bin], Gray[wr_ptr_next(offer)]) :
          RdEdge(deq_ready, word)

(* Mutant of RdResetValues: the synchroniser is not reset.                 *)
MutRdResetKeepsView == rd_ptr_bin' = 0 /\ UNCHANGED <<wr_ptr_gray_sync1, wr_ptr_gray_sync2>>

(* negedge wr_rst_n and negedge rd_rst_n: each clears its own domain only. *)
WrResetValues == wr_ptr_bin' = 0 /\ rd_ptr_gray_sync1' = Zero /\ rd_ptr_gray_sync2' = Zero
RdResetValues == rd_ptr_bin' = 0 /\ wr_ptr_gray_sync1' = Zero /\ wr_ptr_gray_sync2' = Zero

Reset ==
    /\ WrResetValues
    /\ RdResetValues
    /\ put' = None /\ taken' = None
    /\ UNCHANGED storage

WrReset ==
    /\ WrResetValues
    /\ put' = None /\ taken' = None
    /\ UNCHANGED <<storage, rd_regs>>

RdReset ==
    /\ RdResetValues
    /\ put' = None /\ taken' = None
    /\ UNCHANGED <<storage, wr_regs>>

WrTick == \E offer \in Token :
            WrClk(offer) \/ \E deq_ready \in BOOLEAN : BothClk(offer, deq_ready)
RdTick == \E deq_ready \in BOOLEAN :
            RdClk(deq_ready) \/ \E offer \in Token : BothClk(offer, deq_ready)

(* The domains are reset together. *)
Next ==
    \/ Reset
    \/ \E offer \in Token : WrClk(offer)
    \/ \E deq_ready \in BOOLEAN : RdClk(deq_ready)
    \/ \E offer \in Token, deq_ready \in BOOLEAN : BothClk(offer, deq_ready)

(* Both clocks keep running; nothing is assumed of the users of the FIFO. *)
Fairness == WF_vars(WrTick) /\ WF_vars(RdTick)

Spec == Init /\ [][Next]_vars /\ Fairness

(* The emitted top level has a reset input per domain, so that each side   *)
(* can be reset while the other runs.                                      *)
NextDomainResets == Next \/ WrReset \/ RdReset

SpecDomainResets == Init /\ [][NextDomainResets]_vars

-----------------------------------------------------------------------------
(* Type invariant: pointers of AWIDTH + 1 bits, synchronisers of as many.  *)
TypeOK ==
    /\ storage \in [Slots -> Data]
    /\ {wr_ptr_bin, rd_ptr_bin} \subseteq Ptrs
    /\ {rd_ptr_gray_sync1, rd_ptr_gray_sync2, wr_ptr_gray_sync1, wr_ptr_gray_sync2} \subseteq Words
    /\ {put, taken} \subseteq Token

Occupancy == (wr_ptr_bin - rd_ptr_bin) % (2 * Depth)

(* The pointers never drift further apart than the storage is deep, which  *)
(* is what resetting both sides together is for.                           *)
NoPointerDesync == Occupancy <= Depth

(* The number a Gray word stands for. *)
Binary == [word \in Words |-> CHOOSE n \in Ptrs : Gray[n] = word]

Crossing == INSTANCE AsyncFifo WITH
    wr_ptr <- wr_ptr_bin,
    rd_ptr <- rd_ptr_bin,
    rd_sync1 <- Binary[rd_ptr_gray_sync1],
    rd_sync2 <- Binary[rd_ptr_gray_sync2],
    wr_sync1 <- Binary[wr_ptr_gray_sync1],
    wr_sync2 <- Binary[wr_ptr_gray_sync2]

(* The Gray-coded circuit implements the pointer-level crossing: its full  *)
(* and empty tests agree with the arithmetic ones, and a synchroniser that *)
(* samples a moving pointer settles to its old or its new value, never to  *)
(* a third one.                                                            *)
ImplementsAsyncFifo == Crossing!Spec

(* The late views of the pointers stay in order round the ring and span at *)
(* most DEPTH: neither side can be fooled into overrunning the other.      *)
ViewsInOrder == Crossing!ViewsInOrder

(* End to end: the emitted circuit is a bounded FIFO.                      *)
ImplementsQueue == Crossing!ImplementsQueue

Clocked == INSTANCE ClockedQueues

AsCrossing ==
    [items   |-> Crossing!Contents,
     seen1   |-> Crossing!Dist(rd_ptr_bin, Binary[wr_ptr_gray_sync1]),
     seen2   |-> Crossing!Dist(rd_ptr_bin, Binary[wr_ptr_gray_sync2]),
     hidden1 |-> Crossing!Dist(Binary[rd_ptr_gray_sync1], rd_ptr_bin),
     hidden2 |-> Crossing!Dist(Binary[rd_ptr_gray_sync2], rd_ptr_bin)]

(* Edge for edge of one clock, the emitted circuit does to its tokens and  *)
(* to what each side knows of them what ClockedQueues says a crossing      *)
(* does: the queues that module MarieSoc is built from are this circuit.   *)
StepsAsCrossing ==
    [][/\ \A offer \in Token :
             WrClk(offer) => AsCrossing' = Clocked!WriterEdge(AsCrossing, Depth,
                                                              IF offer = None THEN <<>> ELSE <<offer>>)
       /\ \A deq_ready \in BOOLEAN :
             RdClk(deq_ready) => AsCrossing' = Clocked!ReaderEdge(AsCrossing, deq_ready)]_vars

(* A stored token is offered to the reader after finitely many edges, or   *)
(* is taken or reset away; and room that a take made is offered to the     *)
(* writer.  The two-flop views lag but do not stick.                       *)
TokensBecomeVisible == Occupancy > 0 ~> (~empty \/ Occupancy = 0)
RoomBecomesVisible  == Occupancy < Depth ~> ~full

=============================================================================
