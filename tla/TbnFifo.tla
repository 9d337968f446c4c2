------------------------------ MODULE TbnFifo -------------------------------
(***************************************************************************)
(* The synchronous FIFO module tbn_fifo that the SystemVerilog back end    *)
(* emits for every Queue edge (src/src/lower.rs, fifo_module_sv), register *)
(* by register: circular storage, read and write pointers of AWIDTH bits,  *)
(* an occupancy counter, and the reset that preloads INIT_COUNT tokens.    *)
(*                                                                         *)
(* The back end instantiates it with INIT_COUNT 0 or 1 only.               *)
(***************************************************************************)
EXTENDS Integers, Sequences

CONSTANTS
    Data,       \* values of the WIDTH-bit payload
    None,       \* no value offered or delivered
    Depth,      \* DEPTH
    PtrRange,   \* 2^AWIDTH, the number of values a pointer register has
    InitCount,  \* INIT_COUNT
    InitValue   \* INIT_VALUE

ASSUME FifoAssumption ==
    /\ None \notin Data
    /\ Depth \in Nat \ {0}
    /\ PtrRange \in Nat /\ PtrRange >= 2 /\ PtrRange >= Depth
    /\ InitCount \in {0, 1}
    /\ InitValue \in Data

VARIABLES
    storage,  \* reg [WIDTH-1:0] storage [0:DEPTH-1]
    rd_ptr,   \* reg [AWIDTH-1:0]
    wr_ptr,   \* reg [AWIDTH-1:0]
    count,    \* reg [AWIDTH:0]; never above Depth, so it cannot overflow
    put,      \* the token the producer handed over in the last cycle, or None
    taken     \* the token the consumer received in the last cycle, or None

vars == <<storage, rd_ptr, wr_ptr, count, put, taken>>

Token == Data \union {None}
Slots == 0 .. Depth - 1

-----------------------------------------------------------------------------
(* The combinational outputs. *)

(* Mutant of enq_ready: off by one.                                        *)
MutEnqReadyWhenFull == count <= Depth

enq_ready == count < Depth
deq_valid == count # 0
deq_data  == storage[rd_ptr]

do_enq(offer) == offer # None /\ enq_ready
do_deq(deq_ready) == deq_ready /\ deq_valid

(* Mutant of Advance: the pointer wraps with its register, not at DEPTH.   *)
MutAdvanceByWidth(ptr) == (ptr + 1) % PtrRange

(* A pointer wraps at DEPTH - 1; any other value, one outside the storage  *)
(* included, is incremented in AWIDTH bits.                                *)
Advance(ptr) ==
    IF ptr = Depth - 1 \/ ptr + 1 = PtrRange THEN 0 ELSE ptr + 1

(* storage[ptr] <= value: a write outside the array has no effect.         *)
Written(ptr, value) ==
    [i \in Slots |-> IF i = ptr THEN value ELSE storage[i]]

Preloaded(store) ==
    [i \in Slots |-> IF i < InitCount THEN InitValue ELSE store[i]]

-----------------------------------------------------------------------------
(* The storage powers up with arbitrary contents and is not cleared.       *)
Init ==
    /\ \E garbage \in [Slots -> Data] : storage = Preloaded(garbage)
    /\ rd_ptr = 0
    /\ wr_ptr = InitCount
    /\ count = InitCount
    /\ put = None
    /\ taken = None

(* A rising clock edge: the producer offers a token (enq_valid, enq_data)  *)
(* or None, the consumer raises deq_ready or not.                          *)
Clock(offer, deq_ready) ==
    /\ storage' = IF do_enq(offer) THEN Written(wr_ptr, offer) ELSE storage
    /\ wr_ptr' = IF do_enq(offer) THEN Advance(wr_ptr) ELSE wr_ptr
    /\ rd_ptr' = IF do_deq(deq_ready) THEN Advance(rd_ptr) ELSE rd_ptr
    /\ count' = count + (IF do_enq(offer) THEN 1 ELSE 0)
                      - (IF do_deq(deq_ready) THEN 1 ELSE 0)
    /\ put' = IF do_enq(offer) THEN offer ELSE None
    /\ taken' = IF do_deq(deq_ready) THEN deq_data ELSE None

(* Mutant of Reset: count is not reset.                                    *)
MutResetKeepsCount ==
    /\ storage' = Preloaded(storage)
    /\ rd_ptr' = 0
    /\ wr_ptr' = InitCount
    /\ put' = None
    /\ taken' = None
    /\ UNCHANGED count

Reset ==
    /\ storage' = Preloaded(storage)
    /\ rd_ptr' = 0
    /\ wr_ptr' = InitCount
    /\ count' = InitCount
    /\ put' = None
    /\ taken' = None

Next ==
    \/ Reset
    \/ \E offer \in Token, deq_ready \in BOOLEAN : Clock(offer, deq_ready)

Spec == Init /\ [][Next]_vars

-----------------------------------------------------------------------------
(* Type invariant: every register holds a value of its width, and the      *)
(* pointers stay inside the storage they index.                            *)
TypeOK ==
    /\ storage \in [Slots -> Data]
    /\ rd_ptr \in Slots
    /\ wr_ptr \in Slots
    /\ count \in 0 .. Depth
    /\ put \in Token
    /\ taken \in Token

(* n slots past ptr, going round the storage. *)
Around(ptr, n) == IF ptr + n < Depth THEN ptr + n ELSE ptr + n - Depth

(* The three registers that describe the occupancy agree: the write        *)
(* pointer is exactly count slots ahead of the read pointer.  Each is      *)
(* updated by a statement of its own in the always_ff block; if one missed *)
(* a case, the FIFO would overwrite or replay tokens many cycles later.    *)
PointersAgree == wr_ptr = Around(rd_ptr, count)

(* The n tokens of a storage from slot p on, oldest first. *)
Window(store, p, n) == [i \in 1 .. n |-> store[Around(p, i - 1)]]

(* The tokens the FIFO holds. *)
Contents == Window(storage, rd_ptr, count)

Queue == INSTANCE BoundedQueue WITH
            contents <- Contents,
            Initial <- [i \in 1 .. InitCount |-> InitValue]

(* The circuit implements the bounded FIFO: over any sequence of offers,   *)
(* requests and resets no token is lost, invented, duplicated or reordered.*)
ImplementsQueue == Queue!Spec

(* TOURBILLON.md: put "Enqueue val at tail".  A token the FIFO accepted is *)
(* the youngest one it holds after the clock edge.                         *)
PutReachesTheTail ==
    [][put' # None => count' > 0 /\ Contents'[count'] = put']_vars

=============================================================================
