-------------------------- MODULE AsyncFifoProofs ---------------------------
(***************************************************************************)
(* Proofs about the clock-domain crossing for every depth and payload.     *)
(***************************************************************************)
EXTENDS AsyncFifo, SequenceTheorems, TLAPS

(* The inductive invariant. *)
IInv == TypeOK /\ ViewsInOrder

(* The span of six pointer values met in this order going round the ring.  *)
Span(a, b, c, d, e, f) == Dist(a, b) + Dist(b, c) + Dist(c, d) + Dist(d, e) + Dist(e, f)

LEMMA PlusType ==
    ASSUME AsyncAssumption,
           NEW p \in Ptrs
    PROVE  Plus(p, 1) \in Ptrs
BY DEF Plus, Ptrs, AsyncAssumption

(* An edge of the write clock: the writer moves from f to f2 if its view a *)
(* of the reader shows room, and its view shifts.                          *)
LEMMA WrEdgeKeepsSpan ==
    ASSUME AsyncAssumption,
           NEW a \in Ptrs, NEW b \in Ptrs, NEW c \in Ptrs,
           NEW d \in Ptrs, NEW e \in Ptrs, NEW f \in Ptrs,
           Span(a, b, c, d, e, f) <= Depth,
           NEW f2 \in Ptrs, f2 = f \/ (f2 = Plus(f, 1) /\ Dist(a, f) # Depth)
    PROVE  Span(b, c, c, d, e, f2) <= Depth
BY DEF Span, Dist, Plus, Ptrs, AsyncAssumption

(* An edge of the read clock: the reader moves from c to c2 if its view d  *)
(* of the writer shows a token, and its view shifts.                       *)
LEMMA RdEdgeKeepsSpan ==
    ASSUME AsyncAssumption,
           NEW a \in Ptrs, NEW b \in Ptrs, NEW c \in Ptrs,
           NEW d \in Ptrs, NEW e \in Ptrs, NEW f \in Ptrs,
           Span(a, b, c, d, e, f) <= Depth,
           NEW c2 \in Ptrs, c2 = c \/ (c2 = Plus(c, 1) /\ c # d)
    PROVE  Span(a, b, c2, e, f, f) <= Depth
BY DEF Span, Dist, Plus, Ptrs, AsyncAssumption

(* Both at once: the first flip-flops sample values s and t from before or *)
(* from after the moves.                                                   *)
LEMMA BothEdgesKeepSpan ==
    ASSUME AsyncAssumption,
           NEW a, NEW b, NEW c, NEW d, NEW e, NEW f, NEW c2, NEW f2, NEW s, NEW t,
           a \in Ptrs, b \in Ptrs, c \in Ptrs, d \in Ptrs, e \in Ptrs, f \in Ptrs,
           c2 \in Ptrs, f2 \in Ptrs,
           Span(a, b, c, d, e, f) <= Depth,
           c2 = c \/ (c2 = Plus(c, 1) /\ c # d),
           f2 = f \/ (f2 = Plus(f, 1) /\ Dist(a, f) # Depth),
           s = c \/ s = c2, t = f \/ t = f2
    PROVE  Span(b, s, c2, e, t, f2) <= Depth
BY DEF Span, Dist, Plus, Ptrs, AsyncAssumption

LEMMA InitIInv ==
    ASSUME AsyncAssumption,
           Init
    PROVE  IInv
BY DEF Init, IInv, TypeOK, ViewsInOrder, Dist, Ptrs, Slots, Token, AsyncAssumption

LEMMA ResetIInv ==
    ASSUME AsyncAssumption,
           IInv, Reset
    PROVE  IInv'
BY DEF Reset, IInv, TypeOK, ViewsInOrder, Dist, Ptrs, Slots, Token, AsyncAssumption

(* The pointers after an edge move as those lemmas assume.                 *)
LEMMA WrPointerMoves ==
    ASSUME AsyncAssumption,
           TypeOK, NEW offer \in Token
    PROVE  /\ WrNext(offer) \in Ptrs
           /\ \/ WrNext(offer) = wr_ptr
              \/ WrNext(offer) = Plus(wr_ptr, 1) /\ Dist(rd_sync2, wr_ptr) # Depth
BY PlusType DEF TypeOK, WrNext, do_enq, Full

LEMMA RdPointerMoves ==
    ASSUME AsyncAssumption,
           TypeOK, NEW deq_ready \in BOOLEAN
    PROVE  /\ RdNext(deq_ready) \in Ptrs
           /\ \/ RdNext(deq_ready) = rd_ptr
              \/ RdNext(deq_ready) = Plus(rd_ptr, 1) /\ rd_ptr # wr_sync2
BY PlusType DEF TypeOK, RdNext, do_deq, Empty

LEMMA SlotType ==
    ASSUME AsyncAssumption,
           NEW p \in Ptrs
    PROVE  Slot(p) \in Slots
BY DEF Slot, Slots, Ptrs, AsyncAssumption

LEMMA WrEdgeType ==
    ASSUME AsyncAssumption,
           TypeOK, NEW offer \in Token, NEW seen \in Ptrs, WrEdge(offer, seen)
    PROVE  /\ storage' \in [Slots -> Data]
           /\ {wr_ptr', rd_sync1', rd_sync2'} \subseteq Ptrs
           /\ put' \in Token
BY WrPointerMoves, SlotType DEF TypeOK, WrEdge, do_enq, Token

LEMMA RdEdgeType ==
    ASSUME AsyncAssumption,
           TypeOK, NEW deq_ready \in BOOLEAN, NEW seen \in Ptrs, RdEdge(deq_ready, seen)
    PROVE  /\ {rd_ptr', wr_sync1', wr_sync2'} \subseteq Ptrs
           /\ taken' \in Token
<1>1. {rd_ptr', wr_sync1', wr_sync2'} \subseteq Ptrs
  BY RdPointerMoves DEF TypeOK, RdEdge, Token
<1>2. taken' \in Token
  BY SlotType DEF TypeOK, RdEdge, Token
<1>3. QED
  BY <1>1, <1>2

LEMMA WrClkIInv ==
    ASSUME AsyncAssumption,
           IInv, NEW offer \in Token, WrClk(offer)
    PROVE  IInv'
<1> USE DEF IInv
<1>1. TypeOK'
  BY WrEdgeType DEF WrClk, TypeOK, Token
<1>2. ViewsInOrder'
  <2>1. Span(rd_sync2, rd_sync1, rd_ptr, wr_sync2, wr_sync1, wr_ptr) <= Depth
    BY DEF ViewsInOrder, Span
  <2>2. Span(rd_sync1, rd_ptr, rd_ptr, wr_sync2, wr_sync1, WrNext(offer)) <= Depth
    BY <2>1, WrPointerMoves, WrEdgeKeepsSpan DEF TypeOK
  <2>3. QED
    BY <2>2 DEF WrClk, WrEdge, ViewsInOrder, Span
<1>3. QED
  BY <1>1, <1>2

LEMMA RdClkIInv ==
    ASSUME AsyncAssumption,
           IInv, NEW deq_ready \in BOOLEAN, RdClk(deq_ready)
    PROVE  IInv'
<1> USE DEF IInv
<1>1. TypeOK'
  BY RdEdgeType DEF RdClk, TypeOK, Token
<1>2. ViewsInOrder'
  <2>1. Span(rd_sync2, rd_sync1, rd_ptr, wr_sync2, wr_sync1, wr_ptr) <= Depth
    BY DEF ViewsInOrder, Span
  <2>2. Span(rd_sync2, rd_sync1, RdNext(deq_ready), wr_sync1, wr_ptr, wr_ptr) <= Depth
    BY <2>1, RdPointerMoves, RdEdgeKeepsSpan DEF TypeOK
  <2>3. QED
    BY <2>2 DEF RdClk, RdEdge, ViewsInOrder, Span
<1>3. QED
  BY <1>1, <1>2

LEMMA BothClkIInv ==
    ASSUME AsyncAssumption,
           IInv, NEW offer \in Token, NEW deq_ready \in BOOLEAN,
           BothClk(offer, deq_ready)
    PROVE  IInv'
<1> USE DEF IInv
<1>1. PICK s \in {rd_ptr, RdNext(deq_ready)} : WrEdge(offer, s)
  BY DEF BothClk
<1>2. PICK t \in {wr_ptr, WrNext(offer)} : RdEdge(deq_ready, t)
  BY DEF BothClk
<1>3. s \in Ptrs /\ t \in Ptrs
  BY WrPointerMoves, RdPointerMoves DEF TypeOK
<1>4. TypeOK'
  BY <1>1, <1>2, <1>3, WrEdgeType, RdEdgeType DEF TypeOK
<1>5. ViewsInOrder'
  <2>1. Span(rd_sync2, rd_sync1, rd_ptr, wr_sync2, wr_sync1, wr_ptr) <= Depth
    BY DEF ViewsInOrder, Span
  <2>2. Span(rd_sync1, s, RdNext(deq_ready), wr_sync1, t, WrNext(offer)) <= Depth
    <3>1. {rd_sync2, rd_sync1, rd_ptr, wr_sync2, wr_sync1, wr_ptr} \subseteq Ptrs
      BY DEF TypeOK
    <3>2. /\ RdNext(deq_ready) \in Ptrs
          /\ \/ RdNext(deq_ready) = rd_ptr
             \/ RdNext(deq_ready) = Plus(rd_ptr, 1) /\ rd_ptr # wr_sync2
      BY RdPointerMoves
    <3>3. /\ WrNext(offer) \in Ptrs
          /\ \/ WrNext(offer) = wr_ptr
             \/ WrNext(offer) = Plus(wr_ptr, 1) /\ Dist(rd_sync2, wr_ptr) # Depth
      BY WrPointerMoves
    <3>4. /\ s = rd_ptr \/ s = RdNext(deq_ready)
          /\ t = wr_ptr \/ t = WrNext(offer)
      OBVIOUS
    <3>5. QED
      BY <2>1, <3>1, <3>2, <3>3, <3>4, <1>3, BothEdgesKeepSpan
  <2>3. QED
    BY <2>2, <1>1, <1>2 DEF WrEdge, RdEdge, ViewsInOrder, Span
<1>6. QED
  BY <1>4, <1>5

(* Whatever the two clocks do, each side's late view of the other errs on  *)
(* the safe side and the pointers stay within Depth of each other.         *)
THEOREM AsyncFifoInvariant ==
    ASSUME AsyncAssumption
    PROVE  Spec => [](TypeOK /\ ViewsInOrder)
<1>1. Init => IInv
  BY InitIInv
<1>2. IInv /\ [Next]_vars => IInv'
  <2> SUFFICES ASSUME IInv, [Next]_vars
               PROVE  IInv'
    OBVIOUS
  <2>1. CASE Reset
    BY <2>1, ResetIInv
  <2>2. CASE \E offer \in Token : WrClk(offer)
    BY <2>2, WrClkIInv
  <2>3. CASE \E deq_ready \in BOOLEAN : RdClk(deq_ready)
    BY <2>3, RdClkIInv
  <2>4. CASE \E offer \in Token, deq_ready \in BOOLEAN : BothClk(offer, deq_ready)
    BY <2>4, BothClkIInv
  <2>5. CASE UNCHANGED vars
    BY <2>5 DEF vars, IInv, TypeOK, ViewsInOrder
  <2>6. QED
    BY <2>1, <2>2, <2>3, <2>4, <2>5 DEF Next
<1>3. IInv => TypeOK /\ ViewsInOrder
  BY DEF IInv
<1>4. QED
  BY <1>1, <1>2, <1>3, PTL DEF Spec

-----------------------------------------------------------------------------
(* Refinement of the bounded queue. *)

(* A side that does not see full (empty) is right about it.                *)
LEMMA ViewsAreSafe ==
    ASSUME AsyncAssumption,
           IInv
    PROVE  /\ Dist(rd_ptr, wr_ptr) \in 0 .. Depth
           /\ ~Empty => Dist(rd_ptr, wr_ptr) > 0
           /\ ~Full => Dist(rd_ptr, wr_ptr) < Depth
<1> USE DEF IInv, TypeOK, ViewsInOrder, Dist, Ptrs, AsyncAssumption
<1>1. Dist(rd_ptr, wr_ptr) \in 0 .. Depth
  OBVIOUS
<1>2. ~Empty => Dist(rd_ptr, wr_ptr) > 0
  BY DEF Empty
<1>3. ~Full => Dist(rd_ptr, wr_ptr) < Depth
  BY DEF Full
<1>4. QED
  BY <1>1, <1>2, <1>3

(* Stepping n <= Depth pointers on stays on the ring.                      *)
LEMMA PlusStays ==
    ASSUME AsyncAssumption,
           NEW p \in Ptrs, NEW n \in 0 .. Depth
    PROVE  Plus(p, n) \in Ptrs
BY DEF Plus, Ptrs, AsyncAssumption

LEMMA WindowIsSeq ==
    ASSUME AsyncAssumption,
           NEW store \in [Slots -> Data], NEW p \in Ptrs, NEW n \in 0 .. Depth
    PROVE  /\ Window(store, p, n) \in Seq(Data)
           /\ Len(Window(store, p, n)) = n
           /\ \A i \in 1 .. n : Window(store, p, n)[i] = store[Slot(Plus(p, i - 1))]
<1>1. \A i \in 1 .. n : i - 1 \in 0 .. Depth
  BY DEF AsyncAssumption
<1>2. \A i \in 1 .. n : Slot(Plus(p, i - 1)) \in Slots
  BY <1>1, PlusStays, SlotType
<1>3. QED
  BY <1>2 DEF Window, AsyncAssumption

(* Taking: the window that starts one pointer later is the tail.           *)
LEMMA WindowTail ==
    ASSUME AsyncAssumption,
           NEW store \in [Slots -> Data], NEW p \in Ptrs, NEW n \in 1 .. Depth
    PROVE  /\ Window(store, p, n) # <<>>
           /\ Head(Window(store, p, n)) = store[Slot(p)]
           /\ Tail(Window(store, p, n)) = Window(store, Plus(p, 1), n - 1)
<1> USE DEF AsyncAssumption
<1>1. /\ Plus(p, 1) \in Ptrs
      /\ Plus(p, 0) = p
      /\ n - 1 \in 0 .. Depth
      /\ \A i \in 1 .. n - 1 : Plus(p, i) = Plus(Plus(p, 1), i - 1)
  BY DEF Plus, Ptrs
<1>2. /\ Window(store, p, n) \in Seq(Data) /\ Len(Window(store, p, n)) = n
      /\ \A i \in 1 .. n : Window(store, p, n)[i] = store[Slot(Plus(p, i - 1))]
  BY SMTT(30), WindowIsSeq
<1>3. /\ Window(store, Plus(p, 1), n - 1) \in Seq(Data)
      /\ Len(Window(store, Plus(p, 1), n - 1)) = n - 1
      /\ \A i \in 1 .. n - 1 : Window(store, Plus(p, 1), n - 1)[i]
                                  = store[Slot(Plus(Plus(p, 1), i - 1))]
  BY <1>1, WindowIsSeq
<1>4. QED
  BY <1>1, <1>2, <1>3

(* Putting: writing the slot behind a window that leaves room extends the  *)
(* window at its tail and disturbs nothing in it.                          *)
LEMMA WindowAppend ==
    ASSUME AsyncAssumption,
           NEW store \in [Slots -> Data], NEW p \in Ptrs,
           NEW n \in 0 .. Depth - 1, NEW d \in Data
    PROVE  Window([store EXCEPT ![Slot(Plus(p, n))] = d], p, n + 1)
             = Window(store, p, n) \o <<d>>
<1> USE DEF AsyncAssumption
<1> DEFINE store2 == [store EXCEPT ![Slot(Plus(p, n))] = d]
           old == Window(store, p, n)
           new == Window(store2, p, n + 1)
<1>1. n \in 0 .. Depth /\ n + 1 \in 0 .. Depth
  OBVIOUS
<1>2. \A i \in 1 .. n : Slot(Plus(p, i - 1)) # Slot(Plus(p, n))
  BY DEF Slot, Plus, Ptrs
<1>3. /\ store2 \in [Slots -> Data]
      /\ store2[Slot(Plus(p, n))] = d
      /\ \A i \in Slots : i # Slot(Plus(p, n)) => store2[i] = store[i]
  BY <1>1, PlusStays, SlotType
<1>4. /\ old \in Seq(Data) /\ Len(old) = n
      /\ \A i \in 1 .. n : old[i] = store[Slot(Plus(p, i - 1))]
  BY <1>1, WindowIsSeq
<1>5. /\ new \in Seq(Data) /\ Len(new) = n + 1
      /\ \A i \in 1 .. n + 1 : new[i] = store2[Slot(Plus(p, i - 1))]
  BY ZenonT(30), <1>1, <1>3, WindowIsSeq
<1> HIDE DEF store2, old, new
<1>6. /\ old \o <<d>> \in Seq(Data)
      /\ Len(old \o <<d>>) = n + 1
      /\ \A i \in 1 .. n : (old \o <<d>>)[i] = old[i]
      /\ (old \o <<d>>)[n + 1] = d
  BY <1>4
<1>7. \A i \in 1 .. n : new[i] = old[i]
  <2> TAKE i \in 1 .. n
  <2>1. i \in 1 .. n + 1 /\ i - 1 \in 0 .. Depth
    OBVIOUS
  <2>2. Slot(Plus(p, i - 1)) \in Slots
    BY <2>1, PlusStays, SlotType
  <2>3. new[i] = store2[Slot(Plus(p, i - 1))]
    BY <2>1, <1>5
  <2>4. QED
    BY <2>2, <2>3, <1>2, <1>3, <1>4
<1>8. new[n + 1] = d
  BY <1>5, <1>3
<1>9. \A i \in 1 .. n + 1 : new[i] = (old \o <<d>>)[i]
  <2> TAKE i \in 1 .. n + 1
  <2>1. i \in 1 .. n \/ i = n + 1
    OBVIOUS
  <2>2. QED
    BY <2>1, <1>6, <1>7, <1>8
<1>10. new = old \o <<d>>
  BY <1>5, <1>6, <1>9, SeqEqual
<1>11. QED
  BY <1>10 DEF store2, old, new

(* What the edges do to the registers, told by the tokens handed over.     *)
Handover ==
    /\ put' = None => wr_ptr' = wr_ptr /\ storage' = storage
    /\ put' # None => /\ put' \in Data /\ ~Full
                      /\ wr_ptr' = Plus(wr_ptr, 1)
                      /\ storage' = [storage EXCEPT ![Slot(wr_ptr)] = put']
    /\ taken' = None => rd_ptr' = rd_ptr
    /\ taken' # None => /\ ~Empty
                        /\ taken' = storage[Slot(rd_ptr)]
                        /\ rd_ptr' = Plus(rd_ptr, 1)

LEMMA WrClkHandover ==
    ASSUME AsyncAssumption,
           TypeOK, NEW offer \in Token, WrClk(offer)
    PROVE  Handover
BY DEF WrClk, WrEdge, Handover, do_enq, WrNext, Token, TypeOK, AsyncAssumption

LEMMA RdClkHandover ==
    ASSUME AsyncAssumption,
           TypeOK, NEW deq_ready \in BOOLEAN, RdClk(deq_ready)
    PROVE  Handover
<1>1. storage[Slot(rd_ptr)] # None
  BY SlotType DEF TypeOK, AsyncAssumption
<1>2. QED
  BY <1>1 DEF RdClk, RdEdge, Handover, do_deq, RdNext

LEMMA BothClkHandover ==
    ASSUME AsyncAssumption,
           TypeOK, NEW offer \in Token, NEW deq_ready \in BOOLEAN,
           BothClk(offer, deq_ready)
    PROVE  Handover
<1>1. storage[Slot(rd_ptr)] # None
  BY SlotType DEF TypeOK, AsyncAssumption
<1>2. PICK s : WrEdge(offer, s)
  BY DEF BothClk
<1>3. PICK t : RdEdge(deq_ready, t)
  BY DEF BothClk
<1>4. QED
  BY <1>1, <1>2, <1>3 DEF WrEdge, RdEdge, Handover, do_enq, do_deq, WrNext, RdNext, Token, AsyncAssumption

(* The tokens handed over are exactly a step of the bounded queue.         *)
LEMMA HandoverRefines ==
    ASSUME AsyncAssumption,
           IInv, IInv', Handover
    PROVE  Queue!Step(put', taken')
<1> USE DEF AsyncAssumption
<1> DEFINE n == Dist(rd_ptr, wr_ptr)
           left == IF taken' = None THEN n ELSE n - 1
<1>1. /\ storage \in [Slots -> Data] /\ rd_ptr \in Ptrs /\ wr_ptr \in Ptrs
      /\ n \in 0 .. Depth
      /\ ~Empty => n > 0
      /\ ~Full => n < Depth
  BY ViewsAreSafe DEF IInv, TypeOK
<1>2. /\ Len(Contents) = n
      /\ Contents \in Seq(Data)
  BY <1>1, WindowIsSeq DEF Contents
<1>3. /\ rd_ptr' \in Ptrs /\ left \in 0 .. Depth
      /\ wr_ptr = Plus(rd_ptr', left)
      /\ put' # None => left \in 0 .. Depth - 1
  <2>1. rd_ptr' \in Ptrs
    BY DEF IInv, TypeOK
  <2>2. left \in 0 .. Depth /\ (put' # None => left \in 0 .. Depth - 1)
    BY <1>1 DEF Handover
  <2>3. wr_ptr = Plus(rd_ptr', left)
    BY <1>1 DEF Handover, Plus, Dist, Ptrs
  <2>4. QED
    BY <2>1, <2>2, <2>3
<1>4. Dist(rd_ptr', wr_ptr') = IF put' = None THEN left ELSE left + 1
  BY <1>1, <1>3 DEF Handover, Plus, Dist, Ptrs
<1>5. /\ taken' # None => Contents # <<>> /\ taken' = Head(Contents)
      /\ (IF taken' = None THEN Contents ELSE Tail(Contents))
            = Window(storage, rd_ptr', left)
  <2>1. CASE taken' = None
    BY <2>1 DEF Handover, Contents
  <2>2. CASE taken' # None
    <3>1. n \in 1 .. Depth
      BY <2>2, <1>1 DEF Handover
    <3>2. /\ Contents # <<>>
          /\ Head(Contents) = storage[Slot(rd_ptr)]
          /\ Tail(Contents) = Window(storage, Plus(rd_ptr, 1), n - 1)
      BY <3>1, <1>1, WindowTail DEF Contents
    <3>3. QED
      BY <2>2, <3>2 DEF Handover
  <2>3. QED
    BY <2>1, <2>2
<1>6. Contents' = Window(storage, rd_ptr', left) \o Queue!Optional(put')
  <2>1. CASE put' = None
    <3>1. Window(storage, rd_ptr', left) \in Seq(Data)
      BY <1>1, <1>3, WindowIsSeq
    <3>2. Contents' = Window(storage, rd_ptr', left)
      BY <2>1, <1>4 DEF Handover, Contents
    <3>3. QED
      BY <2>1, <3>1, <3>2 DEF Queue!Optional
  <2>2. CASE put' # None
    <3>1. Contents' = Window([storage EXCEPT ![Slot(Plus(rd_ptr', left))] = put'],
                             rd_ptr', left + 1)
      BY <2>2, <1>3, <1>4 DEF Handover, Contents
    <3>2. put' \in Data
      BY <2>2 DEF Handover
    <3>3. Contents' = Window(storage, rd_ptr', left) \o <<put'>>
      <4>1. left \in 0 .. Depth - 1 /\ rd_ptr' \in Ptrs /\ storage \in [Slots -> Data]
        BY <2>2, <1>1, <1>3
      <4> HIDE DEF left
      <4>2. Window([storage EXCEPT ![Slot(Plus(rd_ptr', left))] = put'], rd_ptr', left + 1)
              = Window(storage, rd_ptr', left) \o <<put'>>
        BY <4>1, <3>2, WindowAppend
      <4>3. QED
        BY <3>1, <4>2
    <3>4. QED
      BY <2>2, <3>3 DEF Queue!Optional
  <2>3. QED
    BY <2>1, <2>2
<1>7. put' # None => Len(Contents) < Depth
  BY <1>1, <1>2 DEF Handover
<1>8. QED
  BY <1>5, <1>6, <1>7 DEF Queue!Step

(* Every behaviour of the crossing is a behaviour of the bounded queue:    *)
(* between the two clocks no token is lost, invented, duplicated or        *)
(* reordered, at any depth.                                                *)
THEOREM AsyncFifoImplementsQueue ==
    ASSUME AsyncAssumption
    PROVE  Spec => ImplementsQueue
<1>1. Init => Queue!Init
  <2> SUFFICES ASSUME Init
               PROVE  Contents = <<>>
    BY DEF Init, Queue!Init
  <2>1. Dist(rd_ptr, wr_ptr) = 0
    BY DEF Init, Dist, AsyncAssumption
  <2>2. QED
    BY <2>1 DEF Contents, Window
<1>2. IInv /\ IInv' /\ [Next]_vars => [Queue!Next]_(Queue!vars)
  <2> SUFFICES ASSUME IInv, IInv', [Next]_vars
               PROVE  [Queue!Next]_(Queue!vars)
    OBVIOUS
  <2>1. ASSUME Handover
        PROVE  Queue!Next
    <3>1. Queue!Step(put', taken')
      BY <2>1, HandoverRefines
    <3>2. put' \in Queue!Token /\ taken' \in Queue!Token
      BY DEF IInv, TypeOK, Token, Queue!Token
    <3>3. QED
      BY <3>1, <3>2 DEF Queue!Next
  <2>2. CASE Reset
    <3>1. Dist(rd_ptr', wr_ptr') = 0
      BY <2>2 DEF Reset, Dist, AsyncAssumption
    <3>2. Contents' = <<>>
      BY <3>1 DEF Contents, Window
    <3>3. QED
      BY <2>2, <3>2 DEF Reset, Queue!Reset, Queue!Next
  <2>3. CASE \E offer \in Token : WrClk(offer)
    BY <2>3, <2>1, WrClkHandover DEF IInv
  <2>4. CASE \E deq_ready \in BOOLEAN : RdClk(deq_ready)
    BY <2>4, <2>1, RdClkHandover DEF IInv
  <2>5. CASE \E offer \in Token, deq_ready \in BOOLEAN : BothClk(offer, deq_ready)
    BY <2>5, <2>1, BothClkHandover DEF IInv
  <2>6. CASE UNCHANGED vars
    BY <2>6 DEF vars, Queue!vars, Contents
  <2>7. QED
    BY <2>2, <2>3, <2>4, <2>5, <2>6 DEF Next
<1>3. Spec => []IInv
  BY AsyncFifoInvariant DEF IInv
<1>4. QED
  BY <1>1, <1>2, <1>3, PTL DEF Spec, Queue!Spec, ImplementsQueue

=============================================================================
