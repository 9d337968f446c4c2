----------------------------- MODULE AsyncFifo ------------------------------
(***************************************************************************)
(* A clock-domain-crossing FIFO, one level above the circuit: a writer and *)
(* a reader on unrelated clocks, each of which sees the other's pointer    *)
(* through two synchroniser registers and so two of its own edges late.    *)
(* Pointers count modulo 2 * Depth, so that full and empty differ.         *)
(*                                                                         *)
(* TbnAsyncFifo, the emitted circuit with its Gray-coded synchronisers, is *)
(* shown to implement this module; this module is proved to implement      *)
(* BoundedQueue (AsyncFifoProofs).                                         *)
(***************************************************************************)
EXTENDS Integers, Sequences

CONSTANTS
    Data,    \* the tokens
    None,    \* no token
    Depth    \* DEPTH

(* What the theorems assume of the constants. *)
AsyncAssumption ==
    /\ None \notin Data
    /\ Depth \in Nat \ {0}

VARIABLES
    storage,  \* reg storage [0:DEPTH-1]
    wr_ptr,   \* the write pointer (write domain)
    rd_ptr,   \* the read pointer (read domain)
    rd_sync1, \* the read pointer as seen by the write domain,
    rd_sync2, \*   after one and after two flip-flops
    wr_sync1, \* the write pointer as seen by the read domain,
    wr_sync2, \*   after one and after two flip-flops
    put,      \* the token accepted in the last step, or None
    taken     \* the token delivered in the last step, or None

vars == <<storage, wr_ptr, rd_ptr, rd_sync1, rd_sync2, wr_sync1, wr_sync2, put, taken>>

Token == Data \union {None}
Slots == 0 .. Depth - 1
Ptrs  == 0 .. 2 * Depth - 1

-----------------------------------------------------------------------------
(* Pointer arithmetic, modulo 2 * Depth. *)

Plus(p, n)  == IF p + n < 2 * Depth THEN p + n ELSE p + n - 2 * Depth
Dist(p, q)  == IF p <= q THEN q - p ELSE q - p + 2 * Depth

(* The storage slot of a pointer: its AWIDTH low bits. *)
Slot(p) == IF p < Depth THEN p ELSE p - Depth

(* Each side judges by what it sees of the other. *)
Full  == Dist(rd_sync2, wr_ptr) = Depth
Empty == rd_ptr = wr_sync2

do_enq(offer) == offer # None /\ ~Full
do_deq(deq_ready) == deq_ready /\ ~Empty

(* The pointers after an edge. *)
WrNext(offer)     == IF do_enq(offer) THEN Plus(wr_ptr, 1) ELSE wr_ptr
RdNext(deq_ready) == IF do_deq(deq_ready) THEN Plus(rd_ptr, 1) ELSE rd_ptr

-----------------------------------------------------------------------------

Init ==
    /\ storage \in [Slots -> Data]
    /\ wr_ptr = 0 /\ rd_sync1 = 0 /\ rd_sync2 = 0
    /\ rd_ptr = 0 /\ wr_sync1 = 0 /\ wr_sync2 = 0
    /\ put = None
    /\ taken = None

(* What an edge of the write clock does to the write domain, when the      *)
(* first flip-flop catches the value seen.                                 *)
WrEdge(offer, seen) ==
    /\ rd_sync1' = seen
    /\ rd_sync2' = rd_sync1
    /\ wr_ptr' = WrNext(offer)
    /\ storage' = IF do_enq(offer)
                  THEN [storage EXCEPT ![Slot(wr_ptr)] = offer]
                  ELSE storage
    /\ put' = IF do_enq(offer) THEN offer ELSE None

(* What an edge of the read clock does to the read domain. *)
RdEdge(deq_ready, seen) ==
    /\ wr_sync1' = seen
    /\ wr_sync2' = wr_sync1
    /\ rd_ptr' = RdNext(deq_ready)
    /\ taken' = IF do_deq(deq_ready) THEN storage[Slot(rd_ptr)] ELSE None

WrClk(offer) ==
    /\ WrEdge(offer, rd_ptr)
    /\ taken' = None
    /\ UNCHANGED <<rd_ptr, wr_sync1, wr_sync2>>

RdClk(deq_ready) ==
    /\ RdEdge(deq_ready, wr_ptr)
    /\ put' = None
    /\ UNCHANGED <<storage, wr_ptr, rd_sync1, rd_sync2>>

(* Both clocks rise within the same aperture: each synchroniser settles to *)
(* the other pointer's value from before or from after the edge.           *)
BothClk(offer, deq_ready) ==
    /\ \E seen \in {rd_ptr, RdNext(deq_ready)} : WrEdge(offer, seen)
    /\ \E seen \in {wr_ptr, WrNext(offer)} : RdEdge(deq_ready, seen)

(* Both domains are reset together. *)
Reset ==
    /\ wr_ptr' = 0 /\ rd_sync1' = 0 /\ rd_sync2' = 0
    /\ rd_ptr' = 0 /\ wr_sync1' = 0 /\ wr_sync2' = 0
    /\ put' = None
    /\ taken' = None
    /\ UNCHANGED storage

Next ==
    \/ Reset
    \/ \E offer \in Token : WrClk(offer)
    \/ \E deq_ready \in BOOLEAN : RdClk(deq_ready)
    \/ \E offer \in Token, deq_ready \in BOOLEAN : BothClk(offer, deq_ready)

Spec == Init /\ [][Next]_vars

-----------------------------------------------------------------------------
(* Type invariant: every pointer and every view of one counts modulo        *)
(* 2 * Depth.                                                              *)
TypeOK ==
    /\ storage \in [Slots -> Data]
    /\ {wr_ptr, rd_ptr, rd_sync1, rd_sync2, wr_sync1, wr_sync2} \subseteq Ptrs
    /\ put \in Token
    /\ taken \in Token

(* Round the ring of pointer values, from the writer's oldest view of the  *)
(* reader to the writer itself, nobody is out of order, and the whole span *)
(* is at most Depth: a late view errs on the safe side only.               *)
ViewsInOrder ==
    Dist(rd_sync2, rd_sync1) + Dist(rd_sync1, rd_ptr) + Dist(rd_ptr, wr_sync2)
      + Dist(wr_sync2, wr_sync1) + Dist(wr_sync1, wr_ptr) <= Depth

(* The n tokens of a storage from pointer p on, oldest first. *)
Window(store, p, n) == [i \in 1 .. n |-> store[Slot(Plus(p, i - 1))]]

(* The tokens held. *)
Contents == Window(storage, rd_ptr, Dist(rd_ptr, wr_ptr))

Queue == INSTANCE BoundedQueue WITH contents <- Contents, Initial <- <<>>

(* The crossing implements the bounded FIFO.                               *)
ImplementsQueue == Queue!Spec

=============================================================================
