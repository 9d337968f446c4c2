--------------------------- MODULE TbnFifoProofs ----------------------------
(***************************************************************************)
(* Proofs about tbn_fifo for every depth, payload and pointer width.       *)
(*                                                                         *)
(* All of them assume InitCount < Depth.  At DEPTH = 1 with a preloaded    *)
(* token the write pointer resets to 1, outside the storage, and the       *)
(* theorems are false (run fifo_depth_one).                                *)
(***************************************************************************)
EXTENDS TbnFifo, SequenceTheorems, TLAPS

(* The inductive invariant. *)
IInv == TypeOK /\ PointersAgree

(* A pointer inside the storage is advanced to the next slot round it.     *)
LEMMA AdvanceStays ==
    ASSUME NEW p \in Slots
    PROVE  /\ Advance(p) \in Slots
           /\ Advance(p) = Around(p, 1)
BY FifoAssumption DEF Advance, Around, Slots

(* Going n slots round the storage, 0 <= n <= Depth, stays inside it.      *)
LEMMA AroundStays ==
    ASSUME NEW p \in Slots, NEW n \in 0 .. Depth
    PROVE  Around(p, n) \in Slots
BY FifoAssumption DEF Around, Slots

LEMMA InitIInv == 
    ASSUME InitCount < Depth, Init
    PROVE  IInv
BY FifoAssumption DEF Init, IInv, TypeOK, PointersAgree, Preloaded, Slots, Around, Token

LEMMA ResetIInv ==
    ASSUME InitCount < Depth, IInv, Reset
    PROVE  IInv'
BY FifoAssumption DEF Reset, IInv, TypeOK, PointersAgree, Preloaded, Slots, Around, Token

LEMMA ClockIInv ==
    ASSUME IInv, NEW offer \in Token, NEW deq_ready \in BOOLEAN, 
           Clock(offer, deq_ready)
    PROVE  IInv'
<1> USE FifoAssumption DEF IInv
<1>1. storage' \in [Slots -> Data]
  BY DEF Clock, TypeOK, do_enq, Written, Token
<1>2. rd_ptr' \in Slots /\ wr_ptr' \in Slots
  BY AdvanceStays DEF Clock, TypeOK
<1>3. count' \in 0 .. Depth
  BY DEF Clock, TypeOK, do_enq, do_deq, enq_ready, deq_valid
<1>4. put' \in Token /\ taken' \in Token
  BY DEF Clock, TypeOK, Token, deq_data
<1>5. PointersAgree'
  BY DEF Clock, TypeOK, PointersAgree, Advance, Around, Slots, do_enq, do_deq, enq_ready, deq_valid
<1>6. QED
  BY <1>1, <1>2, <1>3, <1>4, <1>5 DEF TypeOK

(* Registers keep their ranges and the pointers keep agreeing with the     *)
(* counter, at every depth: the FIFO never overflows or underruns.         *)
THEOREM FifoInvariant == 
    ASSUME InitCount < Depth
    PROVE  Spec => [](TypeOK /\ PointersAgree)
<1>1. Init => IInv
  BY InitIInv
<1>2. IInv /\ [Next]_vars => IInv'
  <2> SUFFICES ASSUME IInv, [Next]_vars
               PROVE  IInv'
    OBVIOUS
  <2>1. CASE Reset
    BY <2>1, ResetIInv
  <2>2. CASE \E offer \in Token, deq_ready \in BOOLEAN : Clock(offer, deq_ready)
    BY <2>2, ClockIInv
  <2>3. CASE UNCHANGED vars
    BY <2>3 DEF vars, IInv, TypeOK, PointersAgree, Around, Slots, Token
  <2>4. QED
    BY <2>1, <2>2, <2>3 DEF Next
<1>3. IInv => TypeOK /\ PointersAgree
  BY DEF IInv
<1>4. QED
  BY <1>1, <1>2, <1>3, PTL DEF Spec

(* Contents, pointers, counter and ports keep their ranges, at every depth *)
(* (tbn_fifo.sv: the registers never need a bit more).                     *)
THEOREM FifoTypes ==
    ASSUME InitCount < Depth
    PROVE  Spec => []TypeOK
BY FifoInvariant, PTL

-----------------------------------------------------------------------------
(* Refinement: the registers, read as the sequence Contents, behave as a   *)
(* bounded queue.                                                          *)

(* A window of the storage is a sequence of n tokens.                       *)
LEMMA WindowIsSeq ==
    ASSUME NEW store \in [Slots -> Data], NEW p \in Slots, NEW n \in 0 .. Depth
    PROVE  /\ Window(store, p, n) \in Seq(Data)
           /\ Len(Window(store, p, n)) = n
           /\ \A i \in 1 .. n : Window(store, p, n)[i] = store[Around(p, i - 1)]
<1>1. \A i \in 1 .. n : Around(p, i - 1) \in Slots
  BY FifoAssumption, AroundStays
<1>2. QED
  BY <1>1, FifoAssumption DEF Window

(* Taking: the window that starts one slot later is the tail.              *)
LEMMA WindowTail ==
    ASSUME NEW store \in [Slots -> Data], NEW p \in Slots, NEW n \in 1 .. Depth
    PROVE  /\ Head(Window(store, p, n)) = store[p]
           /\ Tail(Window(store, p, n)) = Window(store, Advance(p), n - 1)
<1> USE FifoAssumption
<1>1. Advance(p) \in Slots
  BY AdvanceStays
<1>2. \A i \in 1 .. n - 1 : Around(p, i) = Around(Advance(p), i - 1)
  BY DEF Around, Advance, Slots
<1>3. Around(p, 0) = p
  BY DEF Around, Slots
<1>4. /\ Window(store, p, n) \in Seq(Data) /\ Len(Window(store, p, n)) = n
      /\ \A i \in 1 .. n : Window(store, p, n)[i] = store[Around(p, i - 1)]
  BY SMTT(30), WindowIsSeq
<1>5. /\ Window(store, Advance(p), n - 1) \in Seq(Data)
      /\ Len(Window(store, Advance(p), n - 1)) = n - 1
      /\ \A i \in 1 .. n - 1 : Window(store, Advance(p), n - 1)[i]
                                  = store[Around(Advance(p), i - 1)]
  <2>1. n - 1 \in 0 .. Depth
    OBVIOUS
  <2>2. QED
    BY <2>1, <1>1, WindowIsSeq
<1>6. QED
  BY SMTT(30), <1>2, <1>3, <1>4, <1>5

(* Putting: writing the slot behind a window extends it at its tail.       *)
LEMMA WindowAppend ==
    ASSUME NEW store \in [Slots -> Data], NEW p \in Slots,
           NEW n \in 0 .. Depth - 1, NEW d \in Data,
           NEW store2 \in [Slots -> Data],
           \A i \in Slots : store2[i] = IF i = Around(p, n) THEN d ELSE store[i]
    PROVE  Window(store2, p, n + 1) = Window(store, p, n) \o <<d>>
<1> USE FifoAssumption
<1>1. \A i \in 1 .. n : Around(p, i - 1) \in Slots /\ Around(p, i - 1) # Around(p, n)
  BY DEF Around, Slots
<1>2. Around(p, n) \in Slots
  BY AroundStays
<1>3. /\ Window(store, p, n) \in Seq(Data) /\ Len(Window(store, p, n)) = n
      /\ \A i \in 1 .. n : Window(store, p, n)[i] = store[Around(p, i - 1)]
  <2>1. n \in 0 .. Depth
    OBVIOUS
  <2>2. QED
    BY <2>1, WindowIsSeq
<1>4. /\ Window(store2, p, n + 1) \in Seq(Data) /\ Len(Window(store2, p, n + 1)) = n + 1
      /\ \A i \in 1 .. n + 1 : Window(store2, p, n + 1)[i] = store2[Around(p, i - 1)]
  <2>1. n + 1 \in 0 .. Depth
    OBVIOUS
  <2>2. QED
    BY <2>1, WindowIsSeq
<1>5. \A i \in 1 .. n + 1 : Window(store2, p, n + 1)[i] = (Window(store, p, n) \o <<d>>)[i]
  <2> TAKE i \in 1 .. n + 1
  <2>1. CASE i = n + 1
    BY SMTT(30), <2>1, <1>2, <1>3, <1>4
  <2>2. CASE i \in 1 .. n
    <3>1. (Window(store, p, n) \o <<d>>)[i] = Window(store, p, n)[i]
      BY <2>2, <1>3
    <3>2. Window(store2, p, n + 1)[i] = store2[Around(p, i - 1)]
      BY <1>4
    <3>3. store2[Around(p, i - 1)] = store[Around(p, i - 1)]
      BY <2>2, <1>1
    <3>4. Window(store, p, n)[i] = store[Around(p, i - 1)]
      BY <2>2, <1>3
    <3>5. QED
      BY <3>1, <3>2, <3>3, <3>4
  <2>3. i = n + 1 \/ i \in 1 .. n
    OBVIOUS
  <2>4. QED
    BY <2>1, <2>2, <2>3
<1>6. /\ Window(store, p, n) \o <<d>> \in Seq(Data)
      /\ Len(Window(store, p, n) \o <<d>>) = n + 1
  BY <1>3
<1>7. QED
  BY <1>4, <1>5, <1>6, SeqEqual

LEMMA InitRefines ==
    ASSUME InitCount < Depth, Init
    PROVE  Queue!Init
BY FifoAssumption DEF Init, Queue!Init, Contents, Window, Preloaded, Around, Slots

LEMMA ResetRefines ==
    ASSUME InitCount < Depth, IInv, Reset
    PROVE  Queue!Reset
BY FifoAssumption DEF IInv, TypeOK, Reset, Queue!Reset, Contents, Window, Preloaded, Around, Slots

(* What a clock edge does to the contents: it drops the head if a token    *)
(* was taken and appends the offer if it was accepted.                     *)
LEMMA ClockRefines ==
    ASSUME IInv, NEW offer \in Token, NEW deq_ready \in BOOLEAN,
           Clock(offer, deq_ready)
    PROVE  Queue!Step(put', taken')
<1> USE FifoAssumption
<1> DEFINE slot == IF do_deq(deq_ready) THEN Advance(rd_ptr) ELSE rd_ptr
           left == IF do_deq(deq_ready) THEN count - 1 ELSE count
<1>1. /\ storage \in [Slots -> Data] /\ rd_ptr \in Slots /\ count \in 0 .. Depth
      /\ wr_ptr \in Slots /\ wr_ptr = Around(rd_ptr, count)
  BY DEF IInv, TypeOK, PointersAgree
<1>2. /\ slot \in Slots /\ left \in 0 .. Depth
      /\ wr_ptr = Around(slot, left)
  BY <1>1, AdvanceStays DEF do_deq, deq_valid, Around, Advance, Slots
<1>3. /\ Len(Contents) = count
      /\ Contents \in Seq(Data)
  BY <1>1, WindowIsSeq DEF Contents
<1>4. /\ taken' # None => Contents # <<>> /\ taken' = Head(Contents)
      /\ (IF taken' = None THEN Contents ELSE Tail(Contents)) = Window(storage, slot, left)
  <2>1. CASE do_deq(deq_ready)
    <3>1. count \in 1 .. Depth
      BY <2>1, <1>1 DEF do_deq, deq_valid
    <3>2. taken' = storage[rd_ptr] /\ taken' # None
      BY <2>1, <1>1 DEF Clock, deq_data
    <3>3. QED
      BY <2>1, <3>1, <3>2, <1>1, <1>3, WindowTail DEF Contents
  <2>2. CASE ~do_deq(deq_ready)
    BY <2>2 DEF Clock, Contents
  <2>3. QED
    BY <2>1, <2>2
<1>5. /\ put' # None => Len(Contents) < Depth
      /\ Window(storage', rd_ptr', count')
           = Window(storage, slot, left) \o Queue!Optional(put')
  <2>1. CASE do_enq(offer)
    <3>1. /\ offer \in Data /\ put' = offer /\ put' # None /\ count < Depth
          /\ left \in 0 .. Depth - 1
      BY <2>1, <1>1 DEF Clock, do_enq, enq_ready, Token, do_deq, deq_valid
    <3>2. rd_ptr' = slot /\ count' = left + 1
      BY <2>1, <1>1 DEF Clock
    <3>3. /\ storage' \in [Slots -> Data]
          /\ \A i \in Slots : storage'[i] = IF i = Around(slot, left) THEN offer ELSE storage[i]
      BY <2>1, <1>1, <1>2, <3>1 DEF Clock, Written
    <3>4. Window(storage', slot, left + 1) = Window(storage, slot, left) \o <<offer>>
      BY <3>1, <3>3, <1>1, <1>2, WindowAppend
    <3>5. QED
      BY <3>1, <3>2, <3>4, <1>3 DEF Queue!Optional
  <2>2. CASE ~do_enq(offer)
    <3>1. rd_ptr' = slot /\ count' = left /\ storage' = storage /\ put' = None
      BY <2>2, <1>1 DEF Clock
    <3>2. Window(storage, slot, left) \in Seq(Data)
      BY <1>1, <1>2, WindowIsSeq
    <3>3. QED
      BY <3>1, <3>2 DEF Queue!Optional
  <2>3. QED
    BY <2>1, <2>2
<1>6. QED
  BY <1>3, <1>4, <1>5 DEF Queue!Step, Contents

(* Every behaviour of the registers is a behaviour of the bounded queue:   *)
(* no token is lost, invented, duplicated or reordered, at any depth.      *)
THEOREM FifoImplementsQueue ==
    ASSUME InitCount < Depth
    PROVE  Spec => ImplementsQueue
<1>1. Init => Queue!Init
  BY InitRefines
<1>2. IInv /\ [Next]_vars => [Queue!Next]_(Queue!vars)
  <2> SUFFICES ASSUME IInv, [Next]_vars
               PROVE  [Queue!Next]_(Queue!vars)
    OBVIOUS
  <2>1. CASE Reset
    BY <2>1, ResetRefines DEF Queue!Next
  <2>2. CASE \E offer \in Token, deq_ready \in BOOLEAN : Clock(offer, deq_ready)
    <3>1. PICK offer \in Token, deq_ready \in BOOLEAN : Clock(offer, deq_ready)
      BY <2>2
    <3>2. Queue!Step(put', taken')
      BY <3>1, ClockRefines
    <3>3. put' \in Queue!Token /\ taken' \in Queue!Token
      BY <3>1, ClockIInv DEF IInv, TypeOK, Token, Queue!Token
    <3>4. QED
      BY <3>2, <3>3 DEF Queue!Next
  <2>3. CASE UNCHANGED vars
    BY <2>3 DEF vars, Queue!vars, Contents, Window
  <2>4. QED
    BY <2>1, <2>2, <2>3 DEF Next
<1>3. Spec => []IInv
  BY FifoInvariant DEF IInv
<1>4. QED
  BY <1>1, <1>2, <1>3, PTL DEF Spec, Queue!Spec, ImplementsQueue

=============================================================================
