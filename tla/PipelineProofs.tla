--------------------------- MODULE PipelineProofs ---------------------------
(***************************************************************************)
(* Proofs about the bus of the Marie SoC and the pipeline of the CPU core, *)
(* in both systems, for every word size, set of registers and devices,     *)
(* depth of the bus queues and program.                                    *)
(*                                                                         *)
(* A link of the bus is two crossing queues, one for requests and one for  *)
(* answers, between two sides that take turns: one item is under way, and  *)
(* whoever puts has room.  The bus is made of such links, and one request  *)
(* at a time is on it, in one place.                                       *)
(*                                                                         *)
(* In the pipeline one credit circulates; the second word of a capability  *)
(* finds its tag; and no put meets a full queue, unless a program of Marie *)
(* stores capabilities.                                                    *)
(***************************************************************************)
EXTENDS CpuSystems, SequenceTheorems, TLAPS

(* A queue that holds at most one item. *)
Short(s) == s = <<>> \/ \E x : s = <<x>>

(* Lengths, rests and extensions of short queues.                          *)
LEMMA ShortQueues ==
    /\ Len(<<>>) = 0 /\ SubSeq(<<>>, 1, 0) = <<>> /\ <<>> \o <<>> = <<>>
    /\ \A x : Len(<<x>>) = 1 /\ <<x>> # <<>> /\ Tail(<<x>>) = <<>> /\ Head(<<x>>) = x
    /\ \A x : SubSeq(<<x>>, 1, 1) = <<x>> /\ SubSeq(<<x>>, 2, 1) = <<>>
    /\ \A x : <<>> \o <<x>> = <<x>> /\ <<x>> \o <<>> = <<x>>
<1>1. Len(<<>>) = 0 /\ SubSeq(<<>>, 1, 0) = <<>> /\ <<>> \o <<>> = <<>>
  OBVIOUS
<1>2. \A x : Len(<<x>>) = 1 /\ <<x>> # <<>> /\ Head(<<x>>) = x
  OBVIOUS
<1>3. \A x : Tail(<<x>>) = <<>>
  OBVIOUS
<1>4. ASSUME NEW x PROVE SubSeq(<<x>>, 1, 1) = <<x>>
  <2>1. <<x>> \in Seq({x}) /\ Len(<<x>>) = 1
    OBVIOUS
  <2>2. SubSeq(<<x>>, 1, Len(<<x>>)) = <<x>>
    BY <2>1, SubSeqFull
  <2> QED
    BY <2>1, <2>2
<1>5. \A x : SubSeq(<<x>>, 2, 1) = <<>>
  OBVIOUS
<1>6. \A x : <<>> \o <<x>> = <<x>>
  OBVIOUS
<1>7. \A x : <<x>> \o <<>> = <<x>>
  OBVIOUS
<1> QED
  BY <1>1, <1>2, <1>3, <1>4, <1>5, <1>6, <1>7

-----------------------------------------------------------------------------
(* A crossing in terms of its parts, and its edges.                        *)
Crossing(items, s1, s2, h1, h2) ==
    [items |-> items, seen1 |-> s1, seen2 |-> s2, hidden1 |-> h1, hidden2 |-> h2]

WriterStep(items, s1, s2, h1, h2, depth, offer) ==
    /\ WriterEdge(Crossing(items, s1, s2, h1, h2), depth, offer)
         = Crossing(items \o offer, s1, s2, 0, h1)
    /\ Short(items \o offer)
    /\ Len(items \o offer) = Len(items) + Len(offer)

(* An edge of the writer's clock is such a step.                           *)
LEMMA WriterSteps ==
    ASSUME NEW items, Short(items), NEW s1 \in Nat, NEW s2 \in Nat, NEW h1 \in Nat, NEW h2 \in Nat,
           NEW depth \in Nat \ {0}, NEW offer, Short(offer),
           offer # <<>> => items = <<>> /\ h2 = 0
    PROVE  WriterStep(items, s1, s2, h1, h2, depth, offer)
<1>1. CASE offer = <<>>
  <2>1. items \o offer = items
    BY <1>1, ShortQueues DEF Short
  <2>2. Len(items) + Len(offer) = Len(items)
    BY <1>1, ShortQueues DEF Short
  <2>3. WriterEdge(Crossing(items, s1, s2, h1, h2), depth, offer) = Crossing(items, s1, s2, 0, h1)
    BY <2>1 DEF WriterEdge, Crossing
  <2> QED
    BY <2>1, <2>2, <2>3 DEF WriterStep
<1>2. CASE offer # <<>>
  <2>1. items \o offer = offer
    BY <1>2, ShortQueues DEF Short
  <2>2. Len(items) = 0 /\ Len(items) + Len(offer) = Len(offer)
    BY <1>2, ShortQueues DEF Short
  <2>3. Room(Crossing(items, s1, s2, h1, h2), depth)
    BY <1>2, <2>2 DEF Room, Crossing
  <2>4. WriterEdge(Crossing(items, s1, s2, h1, h2), depth, offer) = Crossing(offer, s1, s2, 0, h1)
    BY <2>1, <2>3 DEF WriterEdge, Crossing
  <2> QED
    BY <2>1, <2>2, <2>4 DEF WriterStep
<1> QED
  BY <1>1, <1>2

(* Whether an edge of the reader takes an item. *)
Takes(take, s2) == One(take /\ s2 > 0)

Rest(items, t) == IF t = 1 THEN <<>> ELSE items

ReaderStep(items, n, s1, s2, h1, h2, take, t) ==
    /\ ReaderEdge(Crossing(items, s1, s2, h1, h2), take)
         = Crossing(Rest(items, t), n - t, s1 - t, h1 + t, h2 + t)
    /\ Short(Rest(items, t)) /\ Len(Rest(items, t)) = n - t
    /\ t \in {0, 1} /\ (t = 1 => take /\ s1 = 1 /\ s2 = 1 /\ n = 1)

(* So is an edge of the reader's clock.                                    *)
LEMMA ReaderSteps ==
    ASSUME NEW items, Short(items), NEW n \in Nat, n = Len(items),
           NEW s1 \in Nat, NEW s2 \in Nat, NEW h1 \in Nat, NEW h2 \in Nat,
           s2 <= s1, s1 <= n, NEW take \in BOOLEAN,
           NEW t, t = Takes(take, s2)
    PROVE  ReaderStep(items, n, s1, s2, h1, h2, take, t)
<1>1. n = 0 \/ n = 1
  BY ShortQueues DEF Short
<1>2. CASE take /\ s2 > 0
  <2>1. s2 = 1 /\ s1 = 1 /\ n = 1 /\ t = 1
    BY <1>1, <1>2 DEF Takes, One
  <2>2. SubSeq(items, 2, 1) = <<>>
    BY <2>1, ShortQueues DEF Short
  <2>3. ReaderEdge(Crossing(items, s1, s2, h1, h2), take)
          = Crossing(SubSeq(items, 1 + 1, Len(items)), Len(items) - 1, s1 - 1, h1 + 1, h2 + 1)
    BY <1>2 DEF ReaderEdge, Readable, Crossing
  <2>4. Rest(items, t) = <<>> /\ 1 + 1 = 2
    BY <2>1 DEF Rest
  <2>5. Short(<<>>) /\ Len(<<>>) = n - t
    BY <2>1, ShortQueues DEF Short
  <2> QED
    BY <1>2, <2>1, <2>2, <2>3, <2>4, <2>5 DEF ReaderStep
<1>3. CASE ~(take /\ s2 > 0)
  <2>1. SubSeq(items, 1, n) = items
    BY ShortQueues DEF Short
  <2>2. t = 0
    BY <1>3 DEF Takes, One
  <2>3. ReaderEdge(Crossing(items, s1, s2, h1, h2), take) = Crossing(items, n, s1, h1, h2)
    BY <1>3, <2>1 DEF ReaderEdge, Readable, Crossing
  <2> QED
    BY <2>2, <2>3 DEF Rest, ReaderStep
<1> QED
  BY <1>2, <1>3

-----------------------------------------------------------------------------
(* A link between two sides that take turns.  near: the near side waits    *)
(* for an answer; far: the far side has a request to answer.  The request  *)
(* or the answer is in one place, and whoever is to put next knows all     *)
(* the room there is: the item that calls on it took at least as long      *)
(* through the synchronisers as the news of the room.                      *)
InTurn(q, s1, s2, h1, h2, r, t1, t2, g1, g2, near, far) ==
    /\ near \in {0, 1} /\ far \in {0, 1}
    /\ q + r + far = near
    /\ s2 <= s1 /\ s1 <= q
    /\ t2 <= t1 /\ t1 <= r
    /\ near = 0 \/ t1 > 0 => h1 = 0
    /\ near = 0 \/ t2 > 0 => h2 = 0
    /\ far = 1 \/ s1 > 0 => g1 = 0
    /\ far = 1 \/ s2 > 0 => g2 = 0

Turns(link, near, far) ==
    \E q, r : \E s1, s2, h1, h2, t1, t2, g1, g2 \in Nat :
        /\ Short(q) /\ Short(r)
        /\ link = [req |-> Crossing(q, s1, s2, h1, h2), resp |-> Crossing(r, t1, t2, g1, g2)]
        /\ InTurn(Len(q), s1, s2, h1, h2, Len(r), t1, t2, g1, g2, near, far)

(* An edge of the near side, which puts if it is its turn, that is waits   *)
(* for nothing, and takes an item that it sees.                            *)
LEMMA NearEdge ==
    ASSUME NEW link, NEW near, NEW far, Turns(link, near, far),
           NEW depth \in Nat \ {0}, NEW offer, Short(offer), offer # <<>> => near = 0,
           NEW take \in BOOLEAN
    PROVE  /\ Turns([req  |-> WriterEdge(link.req, depth, offer), resp |-> ReaderEdge(link.resp, take)],
                    near + Len(offer) - One(take /\ Readable(link.resp)), far)
           /\ offer # <<>> => Room(link.req, depth)
           /\ take /\ Readable(link.resp) => near = 1 /\ far = 0
<1>1. PICK q, r : \E s1, s2, h1, h2, t1, t2, g1, g2 \in Nat :
          /\ Short(q) /\ Short(r)
          /\ link = [req |-> Crossing(q, s1, s2, h1, h2), resp |-> Crossing(r, t1, t2, g1, g2)]
          /\ InTurn(Len(q), s1, s2, h1, h2, Len(r), t1, t2, g1, g2, near, far)
  BY DEF Turns
<1>2. PICK s1 \in Nat, s2 \in Nat, h1 \in Nat, h2 \in Nat, t1 \in Nat, t2 \in Nat, g1 \in Nat, g2 \in Nat :
          /\ Short(q) /\ Short(r)
          /\ link = [req |-> Crossing(q, s1, s2, h1, h2), resp |-> Crossing(r, t1, t2, g1, g2)]
          /\ InTurn(Len(q), s1, s2, h1, h2, Len(r), t1, t2, g1, g2, near, far)
  BY <1>1
<1> DEFINE t == Takes(take, t2)
           n == Len(r)
           k == Len(q)
           o == Len(offer)
<1>3. /\ n \in Nat /\ k \in Nat /\ o \in {0, 1}
      /\ k = 0 => q = <<>>
      /\ offer # <<>> <=> o = 1
  BY <1>2, ShortQueues DEF Short
<1>4. link.req = Crossing(q, s1, s2, h1, h2) /\ link.resp = Crossing(r, t1, t2, g1, g2)
  BY <1>2
<1>5. InTurn(k, s1, s2, h1, h2, n, t1, t2, g1, g2, near, far)
  BY <1>2
<1>6. offer # <<>> => k = 0 /\ h2 = 0
  <2> HIDE DEF k, n, o
  <2> QED
    BY <1>3, <1>5 DEF InTurn
<1>7. t2 <= t1 /\ t1 <= n
  <2> HIDE DEF k, n, o
  <2> QED
    BY <1>5 DEF InTurn
<1>8. /\ WriterEdge(link.req, depth, offer) = Crossing(q \o offer, s1, s2, 0, h1)
      /\ Short(q \o offer) /\ Len(q \o offer) = k + o
  <2>1. Short(q) /\ (offer # <<>> => q = <<>> /\ h2 = 0)
    BY <1>2, <1>3, <1>6
  <2>2. WriterStep(q, s1, s2, h1, h2, depth, offer)
    BY <2>1, WriterSteps
  <2> QED
    BY <1>4, <2>2 DEF WriterStep
<1>9. /\ ReaderEdge(link.resp, take) = Crossing(Rest(r, t), n - t, t1 - t, g1 + t, g2 + t)
      /\ Short(Rest(r, t)) /\ Len(Rest(r, t)) = n - t
      /\ t \in {0, 1} /\ (t = 1 => take /\ t1 = 1 /\ t2 = 1 /\ n = 1)
  <2>1. n = Len(r) /\ t = Takes(take, t2)
    OBVIOUS
  <2> HIDE DEF t, n
  <2>2. n \in Nat /\ Short(r) /\ t2 <= t1 /\ t1 <= n
    BY <1>2, <1>3, <1>7
  <2>3. ReaderStep(r, n, t1, t2, g1, g2, take, t)
    BY <2>1, <2>2, ReaderSteps
  <2> QED
    BY <1>4, <2>3 DEF ReaderStep
<1>10. One(take /\ Readable(link.resp)) = t /\ (take /\ Readable(link.resp) => t = 1)
  BY <1>4 DEF Readable, Crossing, Takes, One
<1> HIDE DEF t, n, k, o
<1>11. o = 1 => near = 0
  BY <1>3
<1>12. /\ InTurn(k + o, s1, s2, 0, h1, n - t, n - t, t1 - t, g1 + t, g2 + t, near + o - t, far)
       /\ n - t \in Nat /\ t1 - t \in Nat /\ g1 + t \in Nat /\ g2 + t \in Nat
  <2>1. InTurn(k + o, s1, s2, 0, h1, n - t, n - t, t1 - t, g1 + t, g2 + t, near + o - t, far)
    BY <1>3, <1>5, <1>9, <1>11 DEF InTurn
  <2> QED
    BY <1>3, <1>9, <2>1
<1>13. Turns([req  |-> WriterEdge(link.req, depth, offer), resp |-> ReaderEdge(link.resp, take)],
             near + o - t, far)
  <2>1. /\ Short(q \o offer) /\ Short(Rest(r, t)) /\ 0 \in Nat
        /\ [req  |-> WriterEdge(link.req, depth, offer), resp |-> ReaderEdge(link.resp, take)]
             = [req |-> Crossing(q \o offer, s1, s2, 0, h1),
                resp |-> Crossing(Rest(r, t), n - t, t1 - t, g1 + t, g2 + t)]
        /\ InTurn(Len(q \o offer), s1, s2, 0, h1, Len(Rest(r, t)), n - t, t1 - t, g1 + t, g2 + t,
                  near + o - t, far)
    BY <1>8, <1>9, <1>12
  <2> QED
    BY <1>2, <1>12, <2>1, Zenon DEF Turns
<1>14. offer # <<>> => Room(link.req, depth)
  <2> SUFFICES ASSUME offer # <<>> PROVE Room(link.req, depth)
    OBVIOUS
  <2>1. Len(link.req.items) = 0 /\ link.req.hidden2 = 0
    BY <1>3, <1>4, <1>6, ShortQueues DEF Crossing
  <2> QED
    BY <2>1 DEF Room
<1>15. t = 1 => near = 1 /\ far = 0
  BY <1>3, <1>5, <1>9 DEF InTurn
<1> QED
  BY <1>10, <1>13, <1>14, <1>15 DEF o

(* An edge of the far side, which puts only what it has been asked for.    *)
LEMMA FarEdge ==
    ASSUME NEW link, NEW near, NEW far, Turns(link, near, far),
           NEW depth \in Nat \ {0}, NEW answer, Short(answer), NEW take \in BOOLEAN,
           answer # <<>> => far = 1 \/ (take /\ Readable(link.req))
    PROVE  /\ Turns([req  |-> ReaderEdge(link.req, take), resp |-> WriterEdge(link.resp, depth, answer)],
                    near, far + One(take /\ Readable(link.req)) - Len(answer))
           /\ answer # <<>> => Room(link.resp, depth)
           /\ take /\ Readable(link.req) => near = 1 /\ far = 0
<1>1. PICK q, r : \E s1, s2, h1, h2, t1, t2, g1, g2 \in Nat :
          /\ Short(q) /\ Short(r)
          /\ link = [req |-> Crossing(q, s1, s2, h1, h2), resp |-> Crossing(r, t1, t2, g1, g2)]
          /\ InTurn(Len(q), s1, s2, h1, h2, Len(r), t1, t2, g1, g2, near, far)
  BY DEF Turns
<1>2. PICK s1 \in Nat, s2 \in Nat, h1 \in Nat, h2 \in Nat, t1 \in Nat, t2 \in Nat, g1 \in Nat, g2 \in Nat :
          /\ Short(q) /\ Short(r)
          /\ link = [req |-> Crossing(q, s1, s2, h1, h2), resp |-> Crossing(r, t1, t2, g1, g2)]
          /\ InTurn(Len(q), s1, s2, h1, h2, Len(r), t1, t2, g1, g2, near, far)
  BY <1>1
<1> DEFINE t == Takes(take, s2)
           n == Len(r)
           k == Len(q)
           o == Len(answer)
<1>3. /\ n \in Nat /\ k \in Nat /\ o \in {0, 1}
      /\ n = 0 => r = <<>>
      /\ answer # <<>> <=> o = 1
  BY <1>2, ShortQueues DEF Short
<1>4. link.req = Crossing(q, s1, s2, h1, h2) /\ link.resp = Crossing(r, t1, t2, g1, g2)
  BY <1>2
<1>5. InTurn(k, s1, s2, h1, h2, n, t1, t2, g1, g2, near, far)
  BY <1>2
<1>6. s2 <= s1 /\ s1 <= k
  <2> HIDE DEF k, n, o
  <2> QED
    BY <1>5 DEF InTurn
<1>7. /\ ReaderEdge(link.req, take) = Crossing(Rest(q, t), k - t, s1 - t, h1 + t, h2 + t)
      /\ Short(Rest(q, t)) /\ Len(Rest(q, t)) = k - t
      /\ t \in {0, 1} /\ (t = 1 => take /\ s1 = 1 /\ s2 = 1 /\ k = 1)
  <2>1. k = Len(q) /\ t = Takes(take, s2)
    OBVIOUS
  <2> HIDE DEF t, k
  <2>2. k \in Nat /\ Short(q) /\ s2 <= s1 /\ s1 <= k
    BY <1>2, <1>3, <1>6
  <2>3. ReaderStep(q, k, s1, s2, h1, h2, take, t)
    BY <2>1, <2>2, ReaderSteps
  <2> QED
    BY <1>4, <2>3 DEF ReaderStep
<1>8. One(take /\ Readable(link.req)) = t /\ (take /\ Readable(link.req) => t = 1)
  BY <1>4 DEF Readable, Crossing, Takes, One
<1> HIDE DEF t, n, k, o
<1>9. o = 1 => far = 1 \/ t = 1
  BY <1>3, <1>8
<1>10. answer # <<>> => n = 0 /\ g2 = 0
  <2>1. far = 1 => n = 0 /\ g2 = 0
    BY <1>3, <1>5 DEF InTurn
  <2>2. t = 1 => n = 0 /\ g2 = 0
    BY <1>3, <1>5, <1>7 DEF InTurn
  <2> QED
    BY <1>3, <1>9, <2>1, <2>2
<1>11. /\ WriterEdge(link.resp, depth, answer) = Crossing(r \o answer, t1, t2, 0, g1)
       /\ Short(r \o answer) /\ Len(r \o answer) = n + o
  <2>1. Short(r) /\ (answer # <<>> => r = <<>> /\ g2 = 0)
    BY <1>2, <1>3, <1>10
  <2>2. WriterStep(r, t1, t2, g1, g2, depth, answer)
    BY <2>1, WriterSteps
  <2> QED
    BY <1>4, <2>2 DEF n, o, WriterStep
<1>12. /\ InTurn(k - t, k - t, s1 - t, h1 + t, h2 + t, n + o, t1, t2, 0, g1, near, far + t - o)
       /\ k - t \in Nat /\ s1 - t \in Nat /\ h1 + t \in Nat /\ h2 + t \in Nat
  <2>1. InTurn(k - t, k - t, s1 - t, h1 + t, h2 + t, n + o, t1, t2, 0, g1, near, far + t - o)
    BY <1>3, <1>5, <1>7, <1>9 DEF InTurn
  <2> QED
    BY <1>3, <1>7, <2>1
<1>13. Turns([req  |-> ReaderEdge(link.req, take), resp |-> WriterEdge(link.resp, depth, answer)],
             near, far + t - o)
  <2>1. /\ Short(r \o answer) /\ Short(Rest(q, t)) /\ 0 \in Nat
        /\ [req  |-> ReaderEdge(link.req, take), resp |-> WriterEdge(link.resp, depth, answer)]
             = [req |-> Crossing(Rest(q, t), k - t, s1 - t, h1 + t, h2 + t),
                resp |-> Crossing(r \o answer, t1, t2, 0, g1)]
        /\ InTurn(Len(Rest(q, t)), k - t, s1 - t, h1 + t, h2 + t, Len(r \o answer), t1, t2, 0, g1,
                  near, far + t - o)
    BY <1>7, <1>11, <1>12
  <2> QED
    BY <1>2, <1>12, <2>1, Zenon DEF Turns
<1>14. answer # <<>> => Room(link.resp, depth)
  <2> SUFFICES ASSUME answer # <<>> PROVE Room(link.resp, depth)
    OBVIOUS
  <2>1. Len(link.resp.items) = 0 /\ link.resp.hidden2 = 0
    BY <1>3, <1>4, <1>10, ShortQueues DEF Crossing
  <2> QED
    BY <2>1 DEF Room
<1>15. t = 1 => near = 1 /\ far = 0
  BY <1>3, <1>5, <1>7 DEF InTurn
<1> QED
  BY <1>8, <1>13, <1>14, <1>15 DEF o

-----------------------------------------------------------------------------
(* The bus.                                                                *)

(* Inductive invariant of the bus: every link takes turns.                 *)
BusTakesTurns ==
    /\ phase \in 0 .. 2 /\ mphase \in {0, 1}
    /\ xphase \in Targets \union {"idle"}
    /\ top = "Marie" => Short(dmemResp)
    /\ Turns(host, One(phase # 0), One(xphase # "idle"))
    /\ DOMAIN device = Targets
    /\ \A d \in Targets : Turns(device[d], One(xphase = d), One(d = "mem" /\ mphase = 1))

(* Nothing is on the bus at first.                                         *)
LEMMA InitBus == SystemsInit => BusTakesTurns
<1> SUFFICES ASSUME SystemsInit PROVE BusTakesTurns
  OBVIOUS
<1>1. FabricInit /\ (top = "Marie" => dmemResp = <<>>)
  BY DEF SystemsInit, Init
<1>2. Turns(Link, 0, 0)
  <2>1. InTurn(0, 0, 0, 0, 0, 0, 0, 0, 0, 0, 0, 0)
    BY DEF InTurn
  <2>2. Short(<<>>) /\ Len(<<>>) = 0 /\ 0 \in Nat
    BY ShortQueues DEF Short
  <2>3. Link = [req |-> Crossing(<<>>, 0, 0, 0, 0), resp |-> Crossing(<<>>, 0, 0, 0, 0)]
    BY DEF Link, EmptyCrossing, Crossing
  <2> QED
    BY SMTT(30), <2>1, <2>2, <2>3, Zenon DEF Turns
<1>3. \A d \in Targets : One(xphase = d) = 0 /\ One(d = "mem" /\ mphase = 1) = 0
  BY <1>1, SocAssumption DEF FabricInit, Targets, One
<1>4. One(phase # 0) = 0 /\ One(xphase # "idle") = 0
  BY <1>1 DEF FabricInit, One
<1> QED
  BY <1>1, <1>2, <1>3, <1>4 DEF FabricInit, BusTakesTurns, Short

(* The adapter requests when it waits for nothing, and waits for nothing   *)
(* when it takes the answer.                                               *)
LEMMA AdapterTurn ==
    ASSUME phase \in 0 .. 2
    PROVE  LET a     == CpuDmemAdapter
               offer == Offer(a.puts, "bus_req")
               take  == "bus_resp" \in a.takes
           IN  /\ Short(offer) /\ (offer # <<>> => phase = 0) /\ a.phase \in 0 .. 2
               /\ One(a.phase # 0) = One(phase # 0) + Len(offer) - One(take /\ Readable(host.resp))
<1> DEFINE a     == CpuDmemAdapter
           offer == Offer(a.puts, "bus_req")
<1>1. CASE phase = 0 /\ Holds("dmem_rd_req")
  <2>1. a = AdapterStep(1, {"dmem_rd_req"}, [bus_req |-> Read(First("dmem_rd_req"))])
    BY <1>1 DEF CpuDmemAdapter
  <2>2. a.phase = 1 /\ a.takes = {"dmem_rd_req"} /\ offer = <<Read(First("dmem_rd_req"))>>
    BY <2>1 DEF AdapterStep, Offer
  <2> QED
    BY <1>1, <2>2, ShortQueues DEF Short, One
<1>2. CASE phase = 0 /\ ~Holds("dmem_rd_req") /\ Holds("dmem_wr_req")
  <2>1. a = AdapterStep(2, {"dmem_wr_req"}, [bus_req |-> Write(First("dmem_wr_req"))])
    BY <1>2 DEF CpuDmemAdapter
  <2>2. a.phase = 2 /\ a.takes = {"dmem_wr_req"} /\ offer = <<Write(First("dmem_wr_req"))>>
    BY <2>1 DEF AdapterStep, Offer
  <2> QED
    BY <1>2, <2>2, ShortQueues DEF Short, One
<1>3. CASE phase = 1 /\ Readable(host.resp)
  <2>1. a = AdapterStep(0, {"bus_resp"}, [dmem_rd_resp |-> Head(host.resp.items)])
    BY <1>3 DEF CpuDmemAdapter
  <2>2. a.phase = 0 /\ a.takes = {"bus_resp"} /\ offer = <<>>
    BY <2>1 DEF AdapterStep, Offer
  <2> QED
    BY <1>3, <2>2, ShortQueues DEF Short, One
<1>4. CASE phase = 2 /\ Readable(host.resp)
  <2>1. a = AdapterStep(0, {"bus_resp"}, <<>>)
    BY <1>4 DEF CpuDmemAdapter
  <2>2. a.phase = 0 /\ a.takes = {"bus_resp"} /\ offer = <<>>
    BY <2>1 DEF AdapterStep, Offer
  <2> QED
    BY <1>4, <2>2, ShortQueues DEF Short, One
<1>5. CASE /\ ~(phase = 0 /\ Holds("dmem_rd_req"))
           /\ ~(phase = 0 /\ ~Holds("dmem_rd_req") /\ Holds("dmem_wr_req"))
           /\ ~(phase = 1 /\ Readable(host.resp)) /\ ~(phase = 2 /\ Readable(host.resp))
  <2>1. a = AdapterStep(phase, {}, <<>>)
    BY <1>5 DEF CpuDmemAdapter
  <2>2. a.phase = phase /\ a.takes = {} /\ offer = <<>>
    BY <2>1 DEF AdapterStep, Offer
  <2> QED
    BY <2>2, ShortQueues DEF Short, One
<1> QED
  BY <1>1, <1>2, <1>3, <1>4, <1>5

(* An edge of the CPU's clock.                                             *)
LEMMA CpuClkKeepsTurns == BusTakesTurns /\ top' = top /\ CpuClk => BusTakesTurns'
<1> SUFFICES ASSUME BusTakesTurns, top' = top, CpuClk PROVE BusTakesTurns'
  OBVIOUS
<1> DEFINE a     == CpuDmemAdapter
           offer == Offer(a.puts, "bus_req")
           take  == "bus_resp" \in a.takes
<1>1. /\ phase' = a.phase
      /\ host' = [req |-> WriterEdge(host.req, BusDepth, offer), resp |-> ReaderEdge(host.resp, take)]
      /\ UNCHANGED <<xphase, device, mphase, dmemResp>>
  BY DEF CpuClk, devVars
<1>2. /\ Short(offer) /\ (offer # <<>> => phase = 0) /\ a.phase \in 0 .. 2
      /\ One(a.phase # 0) = One(phase # 0) + Len(offer) - One(take /\ Readable(host.resp))
  BY AdapterTurn DEF BusTakesTurns
<1>3. take \in BOOLEAN
  OBVIOUS
<1> HIDE DEF a, offer, take
<1>4. Turns(host', One(phase # 0) + Len(offer) - One(take /\ Readable(host.resp)), One(xphase # "idle"))
  <2>1. offer # <<>> => One(phase # 0) = 0
    BY <1>2 DEF One
  <2> QED
    BY <1>1, <1>2, <1>3, <2>1, NearEdge, SocAssumption DEF BusTakesTurns
<1> QED
  BY <1>1, <1>2, <1>4 DEF BusTakesTurns

(* An idle crossbar takes a request and hands it on, or answers it itself; *)
(* one that waits for a device takes its answer and hands it on.           *)
LEMMA XbarTurn ==
    ASSUME BusTakesTurns
    PROVE  LET x    == Xbar
               take == xphase = "idle"
               offer(d) == Offer(x.requests, d)
               took(d)  == d \in x.answered
           IN  /\ x.xphase \in Targets \union {"idle"}
               /\ Short(x.answer)
               /\ x.answer # <<>> => xphase # "idle" \/ (take /\ Readable(host.req))
               /\ One(x.xphase # "idle") = One(xphase # "idle") + One(take /\ Readable(host.req)) - Len(x.answer)
               /\ \A d \in Targets :
                     /\ Short(offer(d)) /\ (offer(d) # <<>> => xphase # d)
                     /\ One(x.xphase = d) = One(xphase = d) + Len(offer(d)) - One(took(d) /\ Readable(device[d].resp))
<1> DEFINE x       == Xbar
           request == Head(host.req.items)
           target  == Route(request.addr)
           take    == xphase = "idle"
           offer(d) == Offer(x.requests, d)
           took(d)  == d \in x.answered
<1>1. "idle" \notin Targets
  BY SocAssumption DEF Targets
<1>2. /\ x.xphase \in Targets \union {"idle"}
      /\ Short(x.answer)
      /\ x.answer # <<>> => xphase # "idle" \/ (take /\ Readable(host.req))
      /\ One(x.xphase # "idle") = One(xphase # "idle") + One(take /\ Readable(host.req)) - Len(x.answer)
      /\ \A d \in Targets :
            /\ Short(offer(d)) /\ (offer(d) # <<>> => xphase # d)
            /\ One(x.xphase = d) = One(xphase = d) + Len(offer(d)) - One(took(d) /\ Readable(device[d].resp))
  <2>1. CASE xphase = "idle" /\ Readable(host.req) /\ target \in Targets
    <3>1. x = XbarStep(target, [d \in {target} |-> request], {}, <<>>)
      BY <2>1 DEF Xbar
    <3>2. x.xphase = target /\ x.answer = <<>> /\ x.answered = {} /\ x.requests = [d \in {target} |-> request]
      BY <3>1 DEF XbarStep
    <3>3. \A d \in Targets : offer(d) = IF d = target THEN <<request>> ELSE <<>>
      BY <3>2 DEF Offer
    <3> HIDE DEF x, offer, target, request
    <3>4. \A d \in Targets : Short(offer(d)) /\ Len(offer(d)) = One(target = d)
      BY <3>3, ShortQueues DEF Short, One
    <3>5. \A d \in Targets : One(xphase = d) = 0 /\ One(took(d) /\ Readable(device[d].resp)) = 0
                             /\ One(x.xphase = d) = One(target = d) /\ One(target = d) \in {0, 1}
      BY <1>1, <2>1, <3>2 DEF One
    <3>6. Short(x.answer) /\ Len(x.answer) = 0
      BY <3>2, ShortQueues DEF Short
    <3>7. One(x.xphase # "idle") = 1 /\ One(xphase # "idle") = 0 /\ One(take /\ Readable(host.req)) = 1
      BY <1>1, <2>1, <3>2 DEF One
    <3>8. ASSUME NEW d \in Targets
          PROVE  One(x.xphase = d) = One(xphase = d) + Len(offer(d)) - One(took(d) /\ Readable(device[d].resp))
      BY <3>4, <3>5
    <3>9. \A d \in Targets : xphase # d
      BY <1>1, <2>1
    <3>10. x.xphase \in Targets /\ x.answer = <<>>
      BY <2>1, <3>2
    <3> QED
      BY <3>4, <3>6, <3>7, <3>8, <3>9, <3>10
  <2>2. CASE xphase = "idle" /\ Readable(host.req) /\ target \notin Targets
    <3>1. x = XbarStep("idle", <<>>, {}, <<0>>)
      BY <2>2 DEF Xbar
    <3>2. x.xphase = "idle" /\ x.answer = <<0>> /\ x.answered = {} /\ \A d \in Targets : offer(d) = <<>>
      BY <3>1 DEF XbarStep, Offer
    <3> HIDE DEF x, offer, target, request
    <3> QED
      BY <1>1, <2>2, <3>2, ShortQueues DEF Short, One
  <2>3. CASE xphase # "idle" /\ Readable(device[xphase].resp)
    <3>1. x = XbarStep("idle", <<>>, {xphase}, <<Head(device[xphase].resp.items)>>)
      BY <2>3 DEF Xbar
    <3>2. /\ x.xphase = "idle" /\ x.answer = <<Head(device[xphase].resp.items)>>
          /\ x.answered = {xphase} /\ \A d \in Targets : offer(d) = <<>>
      BY <3>1 DEF XbarStep, Offer
    <3> HIDE DEF x, offer, target, request
    <3>3. Short(x.answer) /\ Len(x.answer) = 1
      BY <3>2, ShortQueues DEF Short
    <3>4. \A d \in Targets : Short(offer(d)) /\ offer(d) = <<>> /\ Len(offer(d)) = 0
      BY <3>2, ShortQueues DEF Short
    <3>5. \A d \in Targets : One(x.xphase = d) = 0
      BY <1>1, <3>2 DEF One
    <3>6. \A d \in Targets : One(xphase = d) = One(took(d) /\ Readable(device[d].resp))
      BY <2>3, <3>2 DEF One
    <3>7. \A d \in Targets : One(xphase = d) \in {0, 1}
      BY DEF One
    <3>8. One(x.xphase # "idle") = 0 /\ One(xphase # "idle") = 1 /\ One(take /\ Readable(host.req)) = 0
      BY <2>3, <3>2 DEF One
    <3>9. ASSUME NEW d \in Targets
          PROVE  One(x.xphase = d) = One(xphase = d) + Len(offer(d)) - One(took(d) /\ Readable(device[d].resp))
      <4> DEFINE m == One(xphase = d)
      <4>1. m \in {0, 1} /\ One(took(d) /\ Readable(device[d].resp)) = m /\ Len(offer(d)) = 0
        BY <3>4, <3>6, <3>7
      <4> HIDE DEF m
      <4>2. m + 0 - m = 0
        BY <4>1
      <4> QED
        BY <3>5, <4>1, <4>2 DEF m
    <3>10. One(x.xphase # "idle") = One(xphase # "idle") + One(take /\ Readable(host.req)) - Len(x.answer)
      BY <3>3, <3>8
    <3>11. xphase # "idle" /\ x.xphase = "idle"
      BY <2>3, <3>2
    <3> QED
      BY <3>3, <3>4, <3>9, <3>10, <3>11
  <2>4. CASE /\ ~(xphase = "idle" /\ Readable(host.req))
             /\ ~(xphase # "idle" /\ Readable(device[xphase].resp))
    <3>1. x = XbarStep(xphase, <<>>, {}, <<>>)
      BY <2>4 DEF Xbar
    <3>2. x.xphase = xphase /\ x.answer = <<>> /\ x.answered = {} /\ \A d \in Targets : offer(d) = <<>>
      BY <3>1 DEF XbarStep, Offer
    <3> HIDE DEF x, offer, target, request
    <3> QED
      BY <1>1, <2>4, <3>2, ShortQueues DEF BusTakesTurns, Short, One
  <2> QED
    BY <2>1, <2>2, <2>3, <2>4
<1> QED
  BY <1>2

(* An edge of the crossbar's clock.                                        *)
LEMMA XbarClkKeepsTurns == BusTakesTurns /\ top' = top /\ XbarClk => BusTakesTurns'
<1> SUFFICES ASSUME BusTakesTurns, top' = top, XbarClk PROVE BusTakesTurns'
  OBVIOUS
<1> DEFINE x       == Xbar
           take    == xphase = "idle"
           offer(d) == Offer(x.requests, d)
           took(d)  == d \in x.answered
<1>1. /\ xphase' = x.xphase
      /\ host' = [req |-> ReaderEdge(host.req, take), resp |-> WriterEdge(host.resp, BusDepth, x.answer)]
      /\ device' = [d \in Targets |-> [req |-> WriterEdge(device[d].req, BusDepth, offer(d)),
                                       resp |-> ReaderEdge(device[d].resp, took(d))]]
      /\ UNCHANGED <<phase, mphase, dmemResp>>
  BY DEF XbarClk, devVars
<1>2. /\ x.xphase \in Targets \union {"idle"}
      /\ Short(x.answer)
      /\ x.answer # <<>> => xphase # "idle" \/ (take /\ Readable(host.req))
      /\ One(x.xphase # "idle") = One(xphase # "idle") + One(take /\ Readable(host.req)) - Len(x.answer)
      /\ \A d \in Targets :
            /\ Short(offer(d)) /\ (offer(d) # <<>> => xphase # d)
            /\ One(x.xphase = d) = One(xphase = d) + Len(offer(d)) - One(took(d) /\ Readable(device[d].resp))
  BY XbarTurn
<1>3. take \in BOOLEAN /\ \A d \in Targets : took(d) \in BOOLEAN
  OBVIOUS
<1> HIDE DEF x, take, offer, took
<1>4. Turns(host', One(phase # 0), One(xphase # "idle") + One(take /\ Readable(host.req)) - Len(x.answer))
  <2>1. x.answer # <<>> => One(xphase # "idle") = 1 \/ (take /\ Readable(host.req))
    BY <1>2 DEF One
  <2> QED
    BY <1>1, <1>2, <1>3, <2>1, FarEdge, SocAssumption DEF BusTakesTurns
<1>5. ASSUME NEW d \in Targets
      PROVE  Turns(device'[d], One(x.xphase = d), One(d = "mem" /\ mphase = 1))
  <2>1. offer(d) # <<>> => One(xphase = d) = 0
    BY <1>2 DEF One
  <2>2. Turns(device[d], One(xphase = d), One(d = "mem" /\ mphase = 1))
    BY DEF BusTakesTurns
  <2>3. device'[d] = [req |-> WriterEdge(device[d].req, BusDepth, offer(d)),
                      resp |-> ReaderEdge(device[d].resp, took(d))]
    BY <1>1
  <2>4. Turns(device'[d], One(xphase = d) + Len(offer(d)) - One(took(d) /\ Readable(device[d].resp)),
              One(d = "mem" /\ mphase = 1))
    BY <1>2, <1>3, <2>1, <2>2, <2>3, NearEdge, SocAssumption
  <2> QED
    BY <1>2, <2>4
<1>6. DOMAIN device' = Targets
  BY <1>1
<1> QED
  BY <1>1, <1>2, <1>4, <1>5, <1>6 DEF BusTakesTurns

(* Memory takes a request and answers it at once or when it has the word;  *)
(* the other devices answer at once.                                       *)
LEMMA DevClkKeepsTurns == BusTakesTurns /\ top = "Marie" /\ top' = top /\ DevClk => BusTakesTurns'
<1> SUFFICES ASSUME BusTakesTurns, top = "Marie", top' = top, DevClk PROVE BusTakesTurns'
  OBVIOUS
<1>1. PICK word : device' = [d \in Targets |-> IF d = "mem" THEN MemDevice
                                               ELSE IF d = "uart" THEN UartDevice(word)
                                               ELSE AnswersAtOnce(d, word)]
  BY DEF DevClk
<1>2. /\ mphase' = IF MemReads THEN 1 ELSE IF MemAnswers THEN 0 ELSE mphase
      /\ dmemResp' = IF MemReads THEN <<dmem[Request("mem").addr]>>
                     ELSE IF MemAnswers THEN <<>> ELSE dmemResp
      /\ UNCHANGED <<phase, host, xphase>>
  BY DEF DevClk, busVars
<1>3. Short(dmemResp) /\ Short(dmemResp') /\ mphase' \in {0, 1}
  BY <1>2 DEF BusTakesTurns, Short
<1>4. ASSUME NEW d \in Targets, d # "mem"
      PROVE  Turns(device'[d], One(xphase' = d), One(d = "mem" /\ mphase' = 1))
  <2>1. PICK w : device'[d] = AnswersAtOnce(d, w)
    BY <1>1, <1>4, Zenon DEF UartDevice
  <2> DEFINE take   == TRUE
             answer == IF Asked(d) THEN <<w>> ELSE <<>>
  <2>2. device'[d] = [req  |-> ReaderEdge(device[d].req, take),
                      resp |-> WriterEdge(device[d].resp, BusDepth, answer)]
    BY <2>1 DEF AnswersAtOnce, DeviceEdge
  <2>3. Turns(device[d], One(xphase = d), 0)
    BY <1>4 DEF BusTakesTurns, One
  <2>4. /\ Short(answer) /\ (answer # <<>> => take /\ Readable(device[d].req))
        /\ Len(answer) = One(take /\ Readable(device[d].req))
        /\ One(take /\ Readable(device[d].req)) \in {0, 1}
    BY ShortQueues DEF Short, Asked, One
  <2>5. take \in BOOLEAN
    OBVIOUS
  <2> HIDE DEF take, answer
  <2>6. Turns(device'[d], One(xphase = d), 0 + One(take /\ Readable(device[d].req)) - Len(answer))
    BY <2>2, <2>3, <2>4, <2>5, FarEdge, SocAssumption
  <2>7. One(d = "mem" /\ mphase' = 1) = 0 /\ 0 + One(take /\ Readable(device[d].req)) - Len(answer) = 0
    BY <1>4, <2>4 DEF One
  <2> QED
    BY <1>2, <2>6, <2>7
<1>5. Turns(device'["mem"], One(xphase' = "mem"), One("mem" = "mem" /\ mphase' = 1))
  <2> DEFINE take   == MemWrites \/ MemReads
             answer == IF MemWrites THEN <<0>> ELSE IF MemAnswers THEN dmemResp ELSE <<>>
  <2>1. "mem" \in Targets
    BY DEF Targets
  <2>2. device'["mem"] = [req  |-> ReaderEdge(device["mem"].req, take),
                          resp |-> WriterEdge(device["mem"].resp, BusDepth, answer)]
    BY <1>1, <2>1 DEF MemDevice, DeviceEdge
  <2>3. Turns(device["mem"], One(xphase = "mem"), One(mphase = 1))
    BY <2>1 DEF BusTakesTurns, One
  <2>4. take \in BOOLEAN /\ (take => mphase = 0 /\ Readable(device["mem"].req))
    BY DEF MemWrites, MemReads, Asked
  <2>5. Short(answer) /\ (answer # <<>> => One(mphase = 1) = 1 \/ (take /\ Readable(device["mem"].req)))
    BY <1>3, <2>4 DEF Short, MemAnswers, One
  <2>6. One(mphase' = 1) = One(mphase = 1) + One(take /\ Readable(device["mem"].req)) - Len(answer)
    <3>1. CASE MemWrites
      <4>1. ~MemReads /\ ~MemAnswers /\ mphase = 0 /\ mphase' = 0 /\ Len(answer) = 1
        BY <1>2, <3>1, ShortQueues DEF MemWrites, MemReads, MemAnswers
      <4> QED
        BY <3>1, <2>4, <4>1 DEF One
    <3>2. CASE ~MemWrites /\ MemReads
      <4>1. ~MemAnswers /\ mphase = 0 /\ mphase' = 1 /\ Len(answer) = 0
        BY <1>2, <3>2, ShortQueues DEF MemReads, MemAnswers
      <4> QED
        BY <3>2, <2>4, <4>1 DEF One
    <3>3. CASE ~MemWrites /\ ~MemReads /\ MemAnswers
      <4>1. mphase = 1 /\ mphase' = 0 /\ Len(answer) = 1
        BY <1>2, <1>3, <3>3, ShortQueues DEF MemAnswers, Short
      <4> QED
        BY <3>3, <4>1 DEF One
    <3>4. CASE ~MemWrites /\ ~MemReads /\ ~MemAnswers
      <4>1. mphase' = mphase /\ Len(answer) = 0 /\ mphase \in {0, 1}
        BY <1>2, <3>4, ShortQueues DEF BusTakesTurns
      <4> QED
        BY <3>4, <4>1 DEF One
    <3> QED
      BY <3>1, <3>2, <3>3, <3>4
  <2> HIDE DEF take, answer
  <2>7. Turns(device'["mem"], One(xphase = "mem"),
              One(mphase = 1) + One(take /\ Readable(device["mem"].req)) - Len(answer))
    BY <2>2, <2>3, <2>4, <2>5, FarEdge, SocAssumption
  <2> QED
    BY <1>2, <2>6, <2>7 DEF One
<1>6. DOMAIN device' = Targets
  BY <1>1
<1> QED
  BY <1>2, <1>3, <1>4, <1>5, <1>6 DEF BusTakesTurns

(* Every step of either system.                                            *)
LEMMA NextKeepsTurns == BusTakesTurns /\ [SystemsNext]_allVars => BusTakesTurns'
<1> SUFFICES ASSUME BusTakesTurns, [SystemsNext]_allVars PROVE BusTakesTurns'
  OBVIOUS
<1>1. CASE Tick
  BY <1>1 DEF Tick, fabric, busVars, BusTakesTurns
<1>2. CASE Marie /\ CpuClk
  BY <1>2, CpuClkKeepsTurns DEF Marie
<1>3. CASE Marie /\ XbarClk
  BY <1>3, XbarClkKeepsTurns DEF Marie
<1>4. CASE Marie /\ DevClk
  BY <1>4, DevClkKeepsTurns DEF Marie
<1>5. CASE UNCHANGED allVars
  BY <1>5 DEF allVars, vars, busVars, devVars, BusTakesTurns
<1> QED
  BY <1>1, <1>2, <1>3, <1>4, <1>5 DEF SystemsNext, Next

(* How many items a link that takes turns carries.                         *)
LEMMA TurnsCarryOne ==
    ASSUME NEW link, NEW near, NEW far, Turns(link, near, far)
    PROVE  Carried(link) + far = near
BY DEF Turns, InTurn, Carried, Crossing

(* For every depth of the bus queues and every set of devices: the adapter *)
(* lets one request on the bus at a time, and it is in one place (Marie's  *)
(* CpuDmemAdapter, Xbar and MemDevice, src/examples/marie.tbn).            *)
THEOREM OneBusRequest == Spec => []OneRequestOnTheBus
<1>1. BusTakesTurns => OneRequestOnTheBus
  BY TurnsCarryOne DEF BusTakesTurns, OneRequestOnTheBus
<1>2. Spec => []BusTakesTurns
  BY InitBus, NextKeepsTurns, PTL DEF Spec
<1> QED
  BY <1>1, <1>2, PTL

-----------------------------------------------------------------------------
(* The credit that circulates in the pipeline.                             *)
CreditQueues == {"next_pcc_q", "fetch_q", "decode_q"}

Operations == {"alu", "cap", "csrrw", "jump", "trap", "lw", "sw", "lc", "sc"}

(* Inductive invariant: the credit is in one place, and Execute knows the  *)
(* instruction that comes with it.                                         *)
CreditCirculates ==
    /\ CreditQueues \subseteq DOMAIN queues
    /\ \A q \in CreditQueues : Short(queues[q])
    /\ \A q \in {"fetch_q", "decode_q"} : Holds(q) => First(q).op \in Operations
    /\ stash.phase \in 0 .. 5
    /\ OneInstructionInFlight

(* Whether a set of effects takes from a queue.                            *)
TakenBy(effects, q) == q \in UNION {e.takes : e \in effects}

(* A queue is taken from if one of the effects takes from it.              *)
LEMMA TakenBySome ==
    ASSUME NEW effects, NEW q
    PROVE  TakenBy(effects, q) <=> \E e \in effects : q \in e.takes
BY DEF TakenBy

(* What an edge leaves in a queue to which nothing is put, and in one to   *)
(* which one process puts.                                                 *)
LEMMA WithoutPut ==
    ASSUME NEW effects, NEW q \in DOMAIN queues, \A e \in effects : q \notin DOMAIN e.puts
    PROVE  QueuesAfter(effects)[q] = FifoAfter(queues[q], 1, TakenBy(effects, q), <<>>)
<1> DEFINE takes   == UNION {e.takes : e \in effects}
           putters == {e \in effects : q \in DOMAIN e.puts}
<1>1. putters = {}
  OBVIOUS
<1>2. QueuesAfter(effects)[q] =
        FifoAfter(queues[q], 1, q \in takes,
                  IF putters = {} THEN <<>> ELSE <<(CHOOSE e \in putters : TRUE).puts[q]>>)
  BY DEF QueuesAfter
<1> QED
  BY <1>1, <1>2 DEF TakenBy

(* A queue that a process puts to.                                         *)
LEMMA WithPut ==
    ASSUME NEW effects, NEW q \in DOMAIN queues, NEW p \in effects, q \in DOMAIN p.puts,
           \A e \in effects : q \in DOMAIN e.puts => e.puts[q] = p.puts[q]
    PROVE  QueuesAfter(effects)[q] = FifoAfter(queues[q], 1, TakenBy(effects, q), <<p.puts[q]>>)
<1> DEFINE takes   == UNION {e.takes : e \in effects}
           putters == {e \in effects : q \in DOMAIN e.puts}
<1>1. putters # {} /\ (CHOOSE e \in putters : TRUE) \in putters
  OBVIOUS
<1>2. QueuesAfter(effects)[q] =
        FifoAfter(queues[q], 1, q \in takes,
                  IF putters = {} THEN <<>> ELSE <<(CHOOSE e \in putters : TRUE).puts[q]>>)
  BY DEF QueuesAfter
<1>3. (CHOOSE e \in putters : TRUE).puts[q] = p.puts[q]
  BY <1>1
<1> QED
  BY <1>1, <1>2, <1>3 DEF TakenBy

(* Execute takes the credit from decode_q, keeps it in its phase, and      *)
(* gives it back to next_pcc_q.                                            *)
ExecuteStep(e) ==
    /\ e.stash.phase \in 0 .. 5
    /\ e.takes \intersect {"next_pcc_q", "fetch_q"} = {}
    /\ DOMAIN e.puts \intersect {"fetch_q", "decode_q"} = {}
    /\ "decode_q" \in e.takes <=> stash.phase = 0 /\ Holds("decode_q")
    /\ stash.phase = 0 /\ ~Holds("decode_q") => e.stash.phase = 0
    /\ "next_pcc_q" \in DOMAIN e.puts <=> (stash.phase # 0 \/ Holds("decode_q")) /\ e.stash.phase = 0

(* What Execute does to the credit when it dispatches an instruction,      *)
LEMMA Dispatches ==
    ASSUME stash.phase = 0, Holds("decode_q"), NEW d, d.op \in Operations
    PROVE  ExecuteStep(Dispatch(d))
<1>1. CASE d.op = "alu"
  BY <1>1 DEF Dispatch, ExecuteStep, Retire, Step, IdleStash
<1>2. CASE d.op = "cap"
  BY <1>2 DEF Dispatch, ExecuteStep, Retire, Step, IdleStash
<1>3. CASE d.op = "jump"
  BY <1>3 DEF Dispatch, ExecuteStep, Retire, Step, IdleStash
<1>4. CASE d.op = "trap"
  BY <1>4 DEF Dispatch, ExecuteStep, Retire, Step, IdleStash
<1>5. CASE d.op = "csrrw"
  BY <1>5 DEF Dispatch, ExecuteStep, Retire, Step, IdleStash
<1>6. CASE d.op = "lw"
  BY <1>6 DEF Dispatch, ExecuteStep, Step, Waiting
<1>7. CASE d.op = "sw"
  BY <1>7 DEF Dispatch, ExecuteStep, Step, Waiting
<1>8. CASE d.op = "lc"
  BY <1>8 DEF Dispatch, ExecuteStep, Step, Waiting
<1>9. CASE d.op = "sc"
  BY <1>9 DEF Dispatch, ExecuteStep, Step, Waiting
<1> QED
  BY <1>1, <1>2, <1>3, <1>4, <1>5, <1>6, <1>7, <1>8, <1>9 DEF Operations

(* and whatever phase it is in.                                            *)
LEMMA Executes ==
    ASSUME CreditCirculates, NEW resp
    PROVE  ExecuteStep(Execute(resp))
<1>1. CASE stash.phase = 0 /\ Holds("decode_q")
  <2>1. Execute(resp) = Dispatch(First("decode_q"))
    BY <1>1 DEF Execute
  <2> QED
    BY <1>1, <2>1, Dispatches DEF CreditCirculates
<1>2. CASE stash.phase = 1 /\ resp # <<>>
  <2>1. Execute(resp) = LoadReturns(Head(resp))
    BY <1>2 DEF Execute
  <2> QED
    BY <1>2, <2>1 DEF LoadReturns, ExecuteStep, Retire, Step, IdleStash
<1>3. CASE stash.phase = 2 /\ resp # <<>>
  <2>1. Execute(resp) = StoreMerged
    BY <1>3 DEF Execute
  <2> QED
    BY <1>3, <2>1 DEF StoreMerged, ExecuteStep, RetireStore, Step, IdleStash
<1>4. CASE stash.phase = 3 /\ resp # <<>>
  <2>1. Execute(resp) = LowWord(Head(resp))
    BY <1>4 DEF Execute
  <2> QED
    BY <1>4, <2>1 DEF LowWord, ExecuteStep, Step, Waiting
<1>5. CASE stash.phase = 4 /\ resp # <<>>
  <2>1. Execute(resp) = HighWord(Head(resp))
    BY <1>5 DEF Execute
  <2>2. CASE tagResp # <<>>
    BY <1>5, <2>1, <2>2 DEF HighWord, ExecuteStep, Retire, Step, IdleStash
  <2>3. CASE tagResp = <<>>
    BY <1>5, <2>1, <2>3 DEF HighWord, ExecuteStep, Step
  <2> QED
    BY <2>2, <2>3
<1>6. CASE stash.phase = 5
  <2>1. Execute(resp) = StoreHigh
    BY <1>6 DEF Execute
  <2> QED
    BY <1>6, <2>1 DEF StoreHigh, ExecuteStep, RetireStore, Step, IdleStash
<1>7. CASE /\ ~(stash.phase = 0 /\ Holds("decode_q")) /\ stash.phase # 5
           /\ ~(stash.phase \in 1 .. 4 /\ resp # <<>>)
  <2>1. Execute(resp) = Stay
    BY <1>7 DEF Execute
  <2> QED
    BY <1>7, <2>1 DEF CreditCirculates, Stay, ExecuteStep, Step
<1> QED
  BY <1>1, <1>2, <1>3, <1>4, <1>5, <1>6, <1>7 DEF CreditCirculates

(* The effects at an edge, and their being apart from what other processes *)
(* of the domain do.                                                       *)
Effects(instr, e, others) ==
    {Fetch(instr), Decode, Writeback, Effect(e.takes, e.puts)} \union others

Apart(others) == \A e \in others : (e.takes \union DOMAIN e.puts) \intersect CoreQueues = {}

(* What becomes of each of the queues.                                     *)
LEMMA CreditQueueSteps ==
    ASSUME CreditCirculates, NEW instr, NEW e, ExecuteStep(e), NEW others, Apart(others),
           queues' = QueuesAfter(Effects(instr, e, others))
    PROVE  /\ queues'["next_pcc_q"] =
                FifoAfter(queues["next_pcc_q"], 1, Holds("next_pcc_q") /\ ~Holds("fetch_q"),
                          Offer(e.puts, "next_pcc_q"))
           /\ queues'["fetch_q"] =
                FifoAfter(queues["fetch_q"], 1, Holds("fetch_q"),
                          IF Holds("next_pcc_q") /\ ~Holds("fetch_q") THEN <<instr>> ELSE <<>>)
           /\ queues'["decode_q"] =
                FifoAfter(queues["decode_q"], 1, stash.phase = 0 /\ Holds("decode_q"),
                          IF Holds("fetch_q") THEN <<Decoded(First("fetch_q"), regfile)>> ELSE <<>>)
           /\ DOMAIN queues' = DOMAIN queues
<1> DEFINE x       == Effect(e.takes, e.puts)
           effects == Effects(instr, e, others)
<1>1. \A q \in CreditQueues : \A o \in others : q \notin o.takes /\ q \notin DOMAIN o.puts
  BY DEF Apart, CreditQueues, CoreQueues
<1>2. /\ Fetch(instr).takes = IF Holds("next_pcc_q") /\ ~Holds("fetch_q") THEN {"next_pcc_q"} ELSE {}
      /\ DOMAIN Fetch(instr).puts = IF Holds("next_pcc_q") /\ ~Holds("fetch_q") THEN {"fetch_q"} ELSE {}
      /\ Holds("next_pcc_q") /\ ~Holds("fetch_q") => Fetch(instr).puts["fetch_q"] = instr
  BY DEF Fetch, Nothing, Effect
<1>3. /\ Decode.takes = IF Holds("fetch_q") THEN {"fetch_q"} ELSE {}
      /\ DOMAIN Decode.puts = IF Holds("fetch_q") THEN {"decode_q"} ELSE {}
      /\ Holds("fetch_q") => Decode.puts["decode_q"] = Decoded(First("fetch_q"), regfile)
  BY DEF Decode, Nothing, Effect
<1>4. Writeback.takes \subseteq {"wb_q"} /\ DOMAIN Writeback.puts = {}
  BY DEF Writeback, Nothing, Effect
<1>5. x.takes = e.takes /\ x.puts = e.puts
  BY DEF Effect
<1>6. \A o : o \in effects <=> o = Fetch(instr) \/ o = Decode \/ o = Writeback \/ o = x \/ o \in others
  BY DEF Effects
<1>7. CreditQueues \subseteq DOMAIN queues /\ queues' = QueuesAfter(effects)
  BY DEF CreditCirculates
<1> HIDE DEF x, effects
<1>8. queues'["next_pcc_q"] =
        FifoAfter(queues["next_pcc_q"], 1, Holds("next_pcc_q") /\ ~Holds("fetch_q"),
                  Offer(e.puts, "next_pcc_q"))
  <2>1. TakenBy(effects, "next_pcc_q") <=> Holds("next_pcc_q") /\ ~Holds("fetch_q")
    BY <1>1, <1>2, <1>3, <1>4, <1>5, <1>6, TakenBySome DEF ExecuteStep, CreditQueues
  <2>2. CASE "next_pcc_q" \in DOMAIN e.puts
    <3>1. x \in effects /\ "next_pcc_q" \in DOMAIN x.puts
      BY <1>5, <1>6, <2>2
    <3>2. \A o \in effects : "next_pcc_q" \in DOMAIN o.puts => o.puts["next_pcc_q"] = x.puts["next_pcc_q"]
      BY <1>1, <1>2, <1>3, <1>4, <1>6 DEF CreditQueues
    <3>3. "next_pcc_q" \in DOMAIN queues
      BY <1>7 DEF CreditQueues
    <3>4. QueuesAfter(effects)["next_pcc_q"] =
            FifoAfter(queues["next_pcc_q"], 1, TakenBy(effects, "next_pcc_q"), <<x.puts["next_pcc_q"]>>)
      BY <3>1, <3>2, <3>3, WithPut
    <3> QED
      BY <1>5, <1>7, <2>1, <2>2, <3>4 DEF FifoAfter, Offer
  <2>3. CASE "next_pcc_q" \notin DOMAIN e.puts
    <3>1. \A o \in effects : "next_pcc_q" \notin DOMAIN o.puts
      BY <1>1, <1>2, <1>3, <1>4, <1>5, <1>6, <2>3 DEF CreditQueues
    <3>2. "next_pcc_q" \in DOMAIN queues
      BY <1>7 DEF CreditQueues
    <3>3. QueuesAfter(effects)["next_pcc_q"] =
            FifoAfter(queues["next_pcc_q"], 1, TakenBy(effects, "next_pcc_q"), <<>>)
      BY <3>1, <3>2, WithoutPut
    <3> QED
      BY <1>7, <2>1, <2>3, <3>3 DEF FifoAfter, Offer
  <2> QED
    BY <2>2, <2>3
<1>9. queues'["fetch_q"] =
        FifoAfter(queues["fetch_q"], 1, Holds("fetch_q"),
                  IF Holds("next_pcc_q") /\ ~Holds("fetch_q") THEN <<instr>> ELSE <<>>)
  <2>1. TakenBy(effects, "fetch_q") <=> Holds("fetch_q")
    BY <1>1, <1>2, <1>3, <1>4, <1>5, <1>6, TakenBySome DEF ExecuteStep, CreditQueues
  <2>2. "fetch_q" \in DOMAIN queues
    BY <1>7 DEF CreditQueues
  <2>3. CASE Holds("next_pcc_q") /\ ~Holds("fetch_q")
    <3>1. Fetch(instr) \in effects /\ "fetch_q" \in DOMAIN Fetch(instr).puts
      BY <1>2, <1>6, <2>3
    <3>2. \A o \in effects : "fetch_q" \in DOMAIN o.puts => o.puts["fetch_q"] = Fetch(instr).puts["fetch_q"]
      BY <1>1, <1>3, <1>4, <1>5, <1>6 DEF CreditQueues, ExecuteStep
    <3>3. QueuesAfter(effects)["fetch_q"] =
            FifoAfter(queues["fetch_q"], 1, TakenBy(effects, "fetch_q"), <<Fetch(instr).puts["fetch_q"]>>)
      BY <3>1, <3>2, <2>2, WithPut
    <3> QED
      BY <1>2, <1>7, <2>1, <2>3, <3>3 DEF FifoAfter
  <2>4. CASE ~(Holds("next_pcc_q") /\ ~Holds("fetch_q"))
    <3>1. \A o \in effects : "fetch_q" \notin DOMAIN o.puts
      BY <1>1, <1>2, <1>3, <1>4, <1>5, <1>6, <2>4 DEF CreditQueues, ExecuteStep
    <3>2. QueuesAfter(effects)["fetch_q"] =
            FifoAfter(queues["fetch_q"], 1, TakenBy(effects, "fetch_q"), <<>>)
      BY <3>1, <2>2, WithoutPut
    <3> QED
      BY <1>7, <2>1, <2>4, <3>2 DEF FifoAfter
  <2> QED
    BY <2>3, <2>4
<1>10. queues'["decode_q"] =
        FifoAfter(queues["decode_q"], 1, stash.phase = 0 /\ Holds("decode_q"),
                  IF Holds("fetch_q") THEN <<Decoded(First("fetch_q"), regfile)>> ELSE <<>>)
  <2>1. TakenBy(effects, "decode_q") <=> stash.phase = 0 /\ Holds("decode_q")
    BY <1>1, <1>2, <1>3, <1>4, <1>5, <1>6, TakenBySome DEF ExecuteStep, CreditQueues
  <2>2. "decode_q" \in DOMAIN queues
    BY <1>7 DEF CreditQueues
  <2>3. CASE Holds("fetch_q")
    <3>1. Decode \in effects /\ "decode_q" \in DOMAIN Decode.puts
      BY <1>3, <1>6, <2>3
    <3>2. \A o \in effects : "decode_q" \in DOMAIN o.puts => o.puts["decode_q"] = Decode.puts["decode_q"]
      BY <1>1, <1>2, <1>4, <1>5, <1>6 DEF CreditQueues, ExecuteStep
    <3>3. QueuesAfter(effects)["decode_q"] =
            FifoAfter(queues["decode_q"], 1, TakenBy(effects, "decode_q"), <<Decode.puts["decode_q"]>>)
      BY <3>1, <3>2, <2>2, WithPut
    <3> QED
      BY <1>3, <1>7, <2>1, <2>3, <3>3 DEF FifoAfter
  <2>4. CASE ~Holds("fetch_q")
    <3>1. \A o \in effects : "decode_q" \notin DOMAIN o.puts
      BY <1>1, <1>2, <1>3, <1>4, <1>5, <1>6, <2>4 DEF CreditQueues, ExecuteStep
    <3>2. QueuesAfter(effects)["decode_q"] =
            FifoAfter(queues["decode_q"], 1, TakenBy(effects, "decode_q"), <<>>)
      BY <3>1, <2>2, WithoutPut
    <3> QED
      BY <1>7, <2>1, <2>4, <3>2 DEF FifoAfter
  <2> QED
    BY <2>3, <2>4
<1>11. DOMAIN queues' = DOMAIN queues
  BY <1>7 DEF QueuesAfter
<1> QED
  BY <1>8, <1>9, <1>10, <1>11

(* One place in a queue: taken from or not, put to or not.                 *)
LEMMA OnePlace ==
    /\ \A taken, x : /\ FifoAfter(<<>>, 1, FALSE, <<>>) = <<>>
                     /\ FifoAfter(<<>>, 1, FALSE, <<x>>) = <<x>>
                     /\ FifoAfter(<<x>>, 1, TRUE, <<>>) = <<>>
                     /\ FifoAfter(<<x>>, 1, FALSE, <<>>) = <<x>>
BY ShortQueues DEF FifoAfter

(* Wherever the credit is, an edge moves it to the next place, or leaves   *)
(* it in Execute.                                                          *)
LEMMA CreditStep ==
    ASSUME CreditCirculates, NEW instr \in InstructionSet, NEW e, ExecuteStep(e),
           NEW others, Apart(others),
           queues' = QueuesAfter(Effects(instr, e, others)), stash' = e.stash
    PROVE  CreditCirculates'
<1> DEFINE n == queues["next_pcc_q"]
           f == queues["fetch_q"]
           d == queues["decode_q"]
<1>1. /\ queues'["next_pcc_q"] = FifoAfter(n, 1, n # <<>> /\ f = <<>>, Offer(e.puts, "next_pcc_q"))
      /\ queues'["fetch_q"] = FifoAfter(f, 1, f # <<>>, IF n # <<>> /\ f = <<>> THEN <<instr>> ELSE <<>>)
      /\ queues'["decode_q"] = FifoAfter(d, 1, stash.phase = 0 /\ d # <<>>,
                                         IF f # <<>> THEN <<Decoded(First("fetch_q"), regfile)>> ELSE <<>>)
      /\ DOMAIN queues' = DOMAIN queues
  BY CreditQueueSteps DEF Holds
<1>2. Short(n) /\ Short(f) /\ Short(d) /\ stash.phase \in 0 .. 5
      /\ Len(n) + Len(f) + Len(d) + (IF stash.phase = 0 THEN 0 ELSE 1) = 1
  BY DEF CreditCirculates, CreditQueues, OneInstructionInFlight
<1>3. /\ stash'.phase \in 0 .. 5
      /\ stash.phase = 0 /\ d = <<>> => stash'.phase = 0
      /\ "next_pcc_q" \in DOMAIN e.puts <=> (stash.phase # 0 \/ d # <<>>) /\ stash'.phase = 0
  BY DEF ExecuteStep, Holds
<1>4. instr.op \in Operations
  BY DEF InstructionSet, Operations
<1>5. f # <<>> => Decoded(First("fetch_q"), regfile).op \in Operations
  BY DEF CreditCirculates, Holds, Decoded
<1>6. SUFFICES /\ \A q \in CreditQueues : Short(queues'[q])
               /\ queues'["fetch_q"] # <<>> => Head(queues'["fetch_q"]).op \in Operations
               /\ queues'["decode_q"] # <<>> => Head(queues'["decode_q"]).op \in Operations
               /\ Len(queues'["next_pcc_q"]) + Len(queues'["fetch_q"]) + Len(queues'["decode_q"])
                     + (IF stash'.phase = 0 THEN 0 ELSE 1) = 1
  BY <1>1, <1>3 DEF CreditCirculates, OneInstructionInFlight, Holds, First
<1> DEFINE n1 == queues'["next_pcc_q"]
           f1 == queues'["fetch_q"]
           d1 == queues'["decode_q"]
           offer == Offer(e.puts, "next_pcc_q")
<1>7. /\ Len(n) \in {0, 1} /\ Len(f) \in {0, 1} /\ Len(d) \in {0, 1}
      /\ (Len(n) = 0 <=> n = <<>>) /\ (Len(f) = 0 <=> f = <<>>) /\ (Len(d) = 0 <=> d = <<>>)
  BY <1>2, ShortQueues DEF Short
<1>8. IF "next_pcc_q" \in DOMAIN e.puts THEN \E y : offer = <<y>> ELSE offer = <<>>
  BY DEF Offer
<1> HIDE DEF n, f, d, offer
<1>9. CASE n # <<>>
  <2>1. f = <<>> /\ d = <<>> /\ stash.phase = 0
    BY <1>2, <1>7, <1>9
  <2>2. offer = <<>> /\ stash'.phase = 0
    BY <1>3, <1>8, <2>1
  <2>3. PICK y : n = <<y>>
    BY <1>2, <1>9 DEF Short
  <2>4. n1 = <<>> /\ f1 = <<instr>> /\ d1 = <<>>
    BY <1>1, <1>9, <2>1, <2>2, <2>3, OnePlace DEF offer
  <2> QED
    BY <1>4, <2>2, <2>4, ShortQueues DEF CreditQueues, Short
<1>10. CASE f # <<>>
  <2>1. n = <<>> /\ d = <<>> /\ stash.phase = 0
    BY <1>2, <1>7, <1>10
  <2>2. offer = <<>> /\ stash'.phase = 0
    BY <1>3, <1>8, <2>1
  <2>3. PICK y : f = <<y>>
    BY <1>2, <1>10 DEF Short
  <2>4. n1 = <<>> /\ f1 = <<>> /\ d1 = <<Decoded(First("fetch_q"), regfile)>>
    BY <1>1, <1>10, <2>1, <2>2, <2>3, OnePlace DEF offer
  <2> QED
    BY <1>5, <1>10, <2>2, <2>4, ShortQueues DEF CreditQueues, Short
<1>11. CASE n = <<>> /\ f = <<>>
  <2>1. d # <<>> <=> stash.phase = 0
    <3>1. Len(n) = 0 /\ Len(f) = 0
      BY <1>7, <1>11
    <3>2. stash.phase = 0 => Len(d) = 1
      BY <1>2, <1>7, <3>1
    <3>3. stash.phase # 0 => Len(d) = 0
      BY <1>2, <1>7, <3>1
    <3> QED
      BY <1>7, <3>2, <3>3
  <2>2. f1 = <<>> /\ d1 = <<>>
    <3>1. CASE d # <<>>
      <4>1. PICK y : d = <<y>>
        BY <1>2, <3>1 DEF Short
      <4> QED
        BY <1>1, <1>11, <2>1, <3>1, <4>1, OnePlace
    <3>2. CASE d = <<>>
      BY <1>1, <1>11, <2>1, <3>2, OnePlace
    <3> QED
      BY <3>1, <3>2
  <2>3. n1 = offer
    <3>1. CASE offer = <<>>
      BY <1>1, <1>11, <3>1, OnePlace DEF offer
    <3>2. CASE offer # <<>>
      <4>1. PICK y : offer = <<y>>
        BY <1>8, <3>2
      <4> QED
        BY <1>1, <1>11, <4>1, OnePlace DEF offer
    <3> QED
      BY <3>1, <3>2
  <2>4. Short(offer) /\ Len(offer) = IF stash'.phase = 0 THEN 1 ELSE 0
    BY <1>3, <1>8, <2>1, ShortQueues DEF Short
  <2> QED
    BY <1>3, <2>2, <2>3, <2>4, ShortQueues DEF CreditQueues, Short
<1> QED
  BY <1>9, <1>10, <1>11

(* The credit is in next_pcc_q at first.                                   *)
LEMMA InitCredit == SystemsInit => CreditCirculates
<1> SUFFICES ASSUME SystemsInit PROVE CreditCirculates
  OBVIOUS
<1>1. /\ stash.phase = 0 /\ CreditQueues \subseteq DOMAIN queues
      /\ queues["next_pcc_q"] = <<Pcc>> /\ queues["fetch_q"] = <<>> /\ queues["decode_q"] = <<>>
  <2>1. CASE top = "CPU" /\ Alone!Init
    BY <2>1 DEF Alone!Init, Alone!CpuInit, Alone!CoreQueues, Alone!IdleStash, Alone!Pcc, Pcc, CreditQueues
  <2>2. CASE top = "Marie" /\ Init
    BY <2>2 DEF Init, CpuInit, CoreQueues, IdleStash, CreditQueues
  <2> QED
    BY <2>1, <2>2 DEF SystemsInit
<1> QED
  BY <1>1, ShortQueues DEF CreditCirculates, CreditQueues, OneInstructionInFlight, Holds, Short

(* An edge of the CPU's clock, in either system, is one of the pipeline.   *)
LEMMA EdgeKeepsCredit ==
    ASSUME CreditCirculates, NEW resp, NEW others, Apart(others), CpuEdge(resp, others)
    PROVE  CreditCirculates'
<1> DEFINE e == Execute(resp)
<1>1. PICK instr \in Instructions : queues' = QueuesAfter(Effects(instr, e, others))
  BY DEF CpuEdge, Effects
<1>2. instr \in InstructionSet /\ stash' = e.stash
  BY CpuAssumption DEF CpuEdge
<1>3. ExecuteStep(e)
  BY Executes
<1> QED
  BY <1>1, <1>2, <1>3, CreditStep

(* The pipeline of the one system is that of the other.                    *)
LEMMA SamePipeline ==
    /\ \A resp : Alone!Execute(resp) = Execute(resp)
    /\ \A instr : Alone!Fetch(instr) = Fetch(instr)
    /\ Alone!Decode = Decode /\ Alone!Writeback = Writeback
    /\ \A effects : Alone!QueuesAfter(effects) = QueuesAfter(effects)
<1>1. ASSUME NEW resp PROVE Alone!Execute(resp) = Execute(resp)
  BY DEF Alone!Wb, Wb, Alone!NoWb, NoWb, Alone!IntCap, IntCap, Alone!Null, Null,
         Alone!IdleStash, IdleStash, Alone!Step, Step, Alone!Retire, Retire,
         Alone!RetireStore, RetireStore, Alone!Waiting, Waiting, Alone!Holds, Holds,
         Alone!First, First, Alone!Pcc, Pcc, Alone!AluResult, AluResult, Alone!Root, Root,
         Alone!Cause, Cause, Alone!Dispatch, Dispatch, Alone!LoadReturns, LoadReturns,
         Alone!StoreMerged, StoreMerged, Alone!LowWord, LowWord, Alone!HighWord, HighWord,
         Alone!StoreHigh, StoreHigh, Alone!Stay, Stay, Alone!Execute, Execute
<1>2. ASSUME NEW instr PROVE Alone!Fetch(instr) = Fetch(instr)
  BY DEF Alone!Fetch, Fetch, Alone!Effect, Effect, Alone!Nothing, Nothing, Alone!Holds, Holds
<1>3. Alone!Decode = Decode
  BY DEF Alone!Decode, Decode, Alone!Effect, Effect, Alone!Nothing, Nothing, Alone!Holds,
         Holds, Alone!First, First, Alone!Decoded, Decoded, Alone!Operand, Operand,
         Alone!IntCap, IntCap, Alone!Null, Null
<1>4. Alone!Writeback = Writeback
  BY DEF Alone!Writeback, Writeback, Alone!Effect, Effect, Alone!Nothing, Nothing,
         Alone!Holds, Holds
<1>5. ASSUME NEW effects PROVE Alone!QueuesAfter(effects) = QueuesAfter(effects)
  BY DEF Alone!QueuesAfter, QueuesAfter, Alone!FifoAfter, FifoAfter
<1> QED
  BY <1>1, <1>2, <1>3, <1>4, <1>5

(* And so is an edge of the core with memories of its own.                 *)
LEMMA AloneEdgeKeepsCredit ==
    ASSUME CreditCirculates, NEW resp, Alone!CpuEdge(resp, {})
    PROVE  CreditCirculates'
<1> DEFINE e == Execute(resp)
<1>1. Alone!Execute(resp) = e
  BY SamePipeline
<1>2. PICK instr \in AloneInstructions : queues' = QueuesAfter(Effects(instr, e, {}))
  BY <1>1, SamePipeline DEF Alone!CpuEdge, Alone!Effect, Effect, Effects
<1>3. instr \in InstructionSet /\ stash' = e.stash
  BY <1>1, SystemsAssumption DEF Alone!CpuEdge
<1>4. ExecuteStep(e)
  BY Executes
<1>5. Apart({})
  BY DEF Apart
<1> QED
  BY <1>2, <1>3, <1>4, <1>5, CreditStep

(* The adapter leaves the queues of the core alone.                        *)
LEMMA AdapterIsApart == Apart({Effect(CpuDmemAdapter.takes, CpuDmemAdapter.puts)})
<1> DEFINE a == CpuDmemAdapter
<1>1. /\ a.takes \subseteq {"dmem_rd_req", "dmem_wr_req", "bus_resp"}
      /\ DOMAIN a.puts \subseteq {"bus_req", "dmem_rd_resp"}
  <2>1. CASE phase = 0 /\ Holds("dmem_rd_req")
    BY <2>1 DEF CpuDmemAdapter, AdapterStep
  <2>2. CASE phase = 0 /\ ~Holds("dmem_rd_req") /\ Holds("dmem_wr_req")
    BY <2>2 DEF CpuDmemAdapter, AdapterStep
  <2>3. CASE phase = 1 /\ Readable(host.resp)
    BY <2>3 DEF CpuDmemAdapter, AdapterStep
  <2>4. CASE phase = 2 /\ Readable(host.resp)
    BY <2>4 DEF CpuDmemAdapter, AdapterStep
  <2>5. CASE /\ ~(phase = 0 /\ Holds("dmem_rd_req"))
             /\ ~(phase = 0 /\ ~Holds("dmem_rd_req") /\ Holds("dmem_wr_req"))
             /\ ~(phase = 1 /\ Readable(host.resp)) /\ ~(phase = 2 /\ Readable(host.resp))
    BY <2>5 DEF CpuDmemAdapter, AdapterStep
  <2> QED
    BY <2>1, <2>2, <2>3, <2>4, <2>5
<1> QED
  BY <1>1 DEF Apart, CoreQueues, Effect

(* Every step of either system.                                            *)
LEMMA NextKeepsCredit == CreditCirculates /\ [SystemsNext]_allVars => CreditCirculates'
<1> SUFFICES ASSUME CreditCirculates, [SystemsNext]_allVars PROVE CreditCirculates'
  OBVIOUS
<1>1. CASE Tick
  <2>1. Alone!CpuEdge(dmemResp, {})
    BY <1>1 DEF Tick, Alone!Tick
  <2> QED
    BY <2>1, AloneEdgeKeepsCredit
<1>2. CASE CpuClk
  <2>1. CpuEdge(queues["dmem_rd_resp"], {Effect(CpuDmemAdapter.takes, CpuDmemAdapter.puts)})
    BY <1>2 DEF CpuClk
  <2> QED
    BY <2>1, AdapterIsApart, EdgeKeepsCredit
<1>3. CASE XbarClk \/ DevClk \/ UNCHANGED allVars
  <2>1. UNCHANGED <<queues, stash>>
    BY <1>3 DEF XbarClk, DevClk, allVars, vars, cpuVars
  <2> QED
    BY <2>1 DEF CreditCirculates, OneInstructionInFlight, Holds, First
<1> QED
  BY <1>1, <1>2, <1>3 DEF SystemsNext, Next

(* For every program, in both systems, whatever memory answers and when:   *)
(* one credit circulates between Fetch, Decode and Execute, so that one    *)
(* instruction at a time is in the pipeline, in one place                  *)
(* (src/examples/cpu_core.tbn, next_pcc_q).                                *)
THEOREM OneCredit == Spec => []OneInstructionInFlight
<1>1. CreditCirculates => OneInstructionInFlight
  BY DEF CreditCirculates
<1>2. Spec => []CreditCirculates
  BY InitCredit, NextKeepsCredit, PTL DEF Spec
<1> QED
  BY <1>1, <1>2, PTL

-----------------------------------------------------------------------------
(* Tags.                                                                   *)

(* What Execute does to memory.  A word is waited for in phases 1 to 4,    *)
(* and a tag in phase 4.                                                   *)
Awaits(s) == One(s.phase \in 1 .. 4)

MemoryStep(e, resp) ==
    /\ e.takes \subseteq {"decode_q", "dmem_rd_resp", "tmem_rd_resp"}
    /\ DOMAIN e.puts \subseteq {"next_pcc_q", "wb_q", "dmem_rd_req", "dmem_wr_req", "tmem_rd_req", "tmem_wr_req"}
    /\ "wb_q" \in DOMAIN e.puts <=> "next_pcc_q" \in DOMAIN e.puts
    /\ "dmem_rd_resp" \in e.takes <=> stash.phase \in 1 .. 4 /\ resp # <<>>
    /\ "dmem_rd_req" \in DOMAIN e.puts => (stash.phase = 0 /\ Holds("decode_q")) \/ "dmem_rd_resp" \in e.takes
    /\ "dmem_wr_req" \in DOMAIN e.puts =>
           \/ "next_pcc_q" \in DOMAIN e.puts /\ "dmem_rd_resp" \in e.takes
           \/ stash.phase = 5 \/ e.stash.phase = 5
    /\ "tmem_rd_req" \in DOMAIN e.puts <=> stash.phase = 3 /\ resp # <<>>
    /\ "tmem_rd_resp" \in e.takes <=> stash.phase = 4 /\ resp # <<>>
    /\ e.stash.phase = 4 <=> stash.phase \in {3, 4} /\ "tmem_rd_resp" \notin e.takes
                             /\ (stash.phase = 3 => resp # <<>>)
    /\ Awaits(e.stash) = Awaits(stash) - One("dmem_rd_resp" \in e.takes) + One("dmem_rd_req" \in DOMAIN e.puts)
    /\ e.stash.phase = 5 => stash.phase = 0 /\ Holds("decode_q") /\ First("decode_q").op = "sc"

(* What Execute does to memory when it dispatches an instruction.          *)
LEMMA DispatchesToMemory ==
    ASSUME stash.phase = 0, Holds("decode_q"), NEW resp, NEW d, d = First("decode_q"), d.op \in Operations
    PROVE  MemoryStep(Dispatch(d), resp)
<1>1. CASE d.op = "alu"
  <2>1. /\ Dispatch(d).takes = {"decode_q"} /\ Dispatch(d).stash.phase = 0
        /\ DOMAIN Dispatch(d).puts = {"next_pcc_q", "wb_q"}
    BY <1>1 DEF Dispatch, Retire, Step, IdleStash
  <2> QED
    BY <2>1 DEF MemoryStep, Awaits, One
<1>2. CASE d.op = "cap"
  <2>1. /\ Dispatch(d).takes = {"decode_q"} /\ Dispatch(d).stash.phase = 0
        /\ DOMAIN Dispatch(d).puts = {"next_pcc_q", "wb_q"}
    BY <1>2 DEF Dispatch, Retire, Step, IdleStash
  <2> QED
    BY <2>1 DEF MemoryStep, Awaits, One
<1>3. CASE d.op = "jump"
  <2>1. /\ Dispatch(d).takes = {"decode_q"} /\ Dispatch(d).stash.phase = 0
        /\ DOMAIN Dispatch(d).puts = {"next_pcc_q", "wb_q"}
    BY <1>3 DEF Dispatch, Retire, Step, IdleStash
  <2> QED
    BY <2>1 DEF MemoryStep, Awaits, One
<1>4. CASE d.op = "trap"
  <2>1. /\ Dispatch(d).takes = {"decode_q"} /\ Dispatch(d).stash.phase = 0
        /\ DOMAIN Dispatch(d).puts = {"next_pcc_q", "wb_q"}
    BY <1>4 DEF Dispatch, Retire, Step, IdleStash
  <2> QED
    BY <2>1 DEF MemoryStep, Awaits, One
<1>5. CASE d.op = "csrrw"
  <2>1. /\ Dispatch(d).takes = {"decode_q"} /\ Dispatch(d).stash.phase = 0
        /\ DOMAIN Dispatch(d).puts = {"next_pcc_q", "wb_q"}
    BY <1>5 DEF Dispatch, Retire, Step, IdleStash
  <2> QED
    BY <2>1 DEF MemoryStep, Awaits, One
<1>6. CASE d.op = "lw"
  BY <1>6 DEF Dispatch, MemoryStep, Step, Waiting, Awaits, One
<1>7. CASE d.op = "sw"
  BY <1>7 DEF Dispatch, MemoryStep, Step, Waiting, Awaits, One
<1>8. CASE d.op = "lc"
  BY <1>8 DEF Dispatch, MemoryStep, Step, Waiting, Awaits, One
<1>9. CASE d.op = "sc"
  BY <1>9 DEF Dispatch, MemoryStep, Step, Waiting, Awaits, One
<1> QED
  BY <1>1, <1>2, <1>3, <1>4, <1>5, <1>6, <1>7, <1>8, <1>9 DEF Operations

(* What Execute does to memory in any phase, if the tag comes first.       *)
LEMMA ExecutesOnMemory ==
    ASSUME CreditCirculates, NEW resp, stash.phase = 4 /\ resp # <<>> => tagResp # <<>>
    PROVE  MemoryStep(Execute(resp), resp)
<1>1. CASE stash.phase = 0 /\ Holds("decode_q")
  <2>1. Execute(resp) = Dispatch(First("decode_q"))
    BY <1>1 DEF Execute
  <2> QED
    BY <1>1, <2>1, DispatchesToMemory DEF CreditCirculates
<1>2. CASE stash.phase = 1 /\ resp # <<>>
  <2>1. Execute(resp) = LoadReturns(Head(resp))
    BY <1>2 DEF Execute
  <2> QED
    BY <1>2, <2>1 DEF LoadReturns, MemoryStep, Retire, Step, IdleStash, Awaits, One
<1>3. CASE stash.phase = 2 /\ resp # <<>>
  <2>1. Execute(resp) = StoreMerged
    BY <1>3 DEF Execute
  <2> QED
    BY <1>3, <2>1 DEF StoreMerged, MemoryStep, RetireStore, Step, IdleStash, Awaits, One
<1>4. CASE stash.phase = 3 /\ resp # <<>>
  <2>1. Execute(resp) = LowWord(Head(resp))
    BY <1>4 DEF Execute
  <2> QED
    BY <1>4, <2>1 DEF LowWord, MemoryStep, Step, Waiting, Awaits, One
<1>5. CASE stash.phase = 4 /\ resp # <<>>
  <2>1. Execute(resp) = HighWord(Head(resp))
    BY <1>5 DEF Execute
  <2> QED
    BY <1>5, <2>1 DEF HighWord, MemoryStep, Retire, Step, IdleStash, Awaits, One
<1>6. CASE stash.phase = 5
  <2>1. Execute(resp) = StoreHigh
    BY <1>6 DEF Execute
  <2> QED
    BY <1>6, <2>1 DEF StoreHigh, MemoryStep, RetireStore, Step, IdleStash, Awaits, One
<1>7. CASE /\ ~(stash.phase = 0 /\ Holds("decode_q")) /\ stash.phase # 5
           /\ ~(stash.phase \in 1 .. 4 /\ resp # <<>>)
  <2>1. Execute(resp) = Stay
    BY <1>7 DEF Execute
  <2> QED
    BY <1>7, <2>1 DEF CreditCirculates, Stay, MemoryStep, Step, Awaits, One
<1> QED
  BY <1>1, <1>2, <1>3, <1>4, <1>5, <1>6, <1>7 DEF CreditCirculates

-----------------------------------------------------------------------------
(* Inductive invariant of the tags: the tag is there as long as the second *)
(* word of a capability is awaited.                                        *)
TagArrives ==
    /\ CreditCirculates
    /\ Short(tagResp) /\ (tagResp # <<>> <=> stash.phase = 4)

(* The response register of the tag memory, in either system.              *)
LEMMA TagStep ==
    ASSUME TagArrives, NEW resp, NEW e, MemoryStep(e, resp), stash' = e.stash,
           tagResp' = ReadReply(tagResp, "tmem_rd_req" \in DOMAIN e.puts, tags, "tmem_rd_resp" \in e.takes)
    PROVE  Short(tagResp') /\ (tagResp' # <<>> <=> stash'.phase = 4)
<1>1. CASE "tmem_rd_req" \in DOMAIN e.puts
  <2>1. tagResp = <<>> /\ stash'.phase = 4
    BY <1>1 DEF TagArrives, MemoryStep
  <2>2. tagResp' = <<tags>>
    BY <1>1, <2>1 DEF ReadReply
  <2> QED
    BY <2>1, <2>2, ShortQueues DEF Short
<1>2. CASE "tmem_rd_req" \notin DOMAIN e.puts /\ "tmem_rd_resp" \in e.takes
  <2>1. tagResp' = <<>> /\ stash'.phase # 4
    BY <1>2 DEF MemoryStep, ReadReply
  <2> QED
    BY <2>1 DEF Short
<1>3. CASE "tmem_rd_req" \notin DOMAIN e.puts /\ "tmem_rd_resp" \notin e.takes
  <2>1. tagResp' = tagResp /\ (stash'.phase = 4 <=> stash.phase = 4)
    BY <1>3 DEF MemoryStep, ReadReply
  <2> QED
    BY <2>1 DEF TagArrives
<1> QED
  BY <1>1, <1>2, <1>3

(* No tag is asked for at first.                                           *)
LEMMA InitTag == SystemsInit => TagArrives
<1> SUFFICES ASSUME SystemsInit PROVE TagArrives
  OBVIOUS
<1>1. stash.phase = 0 /\ tagResp = <<>>
  <2>1. CASE top = "CPU" /\ Alone!Init
    BY <2>1 DEF Alone!Init, Alone!CpuInit, Alone!IdleStash
  <2>2. CASE top = "Marie" /\ Init
    BY <2>2 DEF Init, CpuInit, IdleStash
  <2> QED
    BY <2>1, <2>2 DEF SystemsInit
<1> QED
  BY <1>1, InitCredit DEF TagArrives, Short

(* Every step of either system.                                            *)
LEMMA NextKeepsTag == TagArrives /\ [SystemsNext]_allVars => TagArrives'
<1> SUFFICES ASSUME TagArrives, [SystemsNext]_allVars PROVE TagArrives'
  OBVIOUS
<1>1. CreditCirculates'
  BY NextKeepsCredit DEF TagArrives
<1>2. CASE Tick
  <2> DEFINE e == Execute(dmemResp)
  <2>1. /\ stash' = e.stash
        /\ tagResp' = ReadReply(tagResp, "tmem_rd_req" \in DOMAIN e.puts, tags, "tmem_rd_resp" \in e.takes)
    BY <1>2, SamePipeline DEF Tick, Alone!Tick, Alone!CpuEdge, Alone!ReadReply, ReadReply
  <2>2. MemoryStep(e, dmemResp)
    BY ExecutesOnMemory DEF TagArrives
  <2> QED
    BY <1>1, <2>1, <2>2, TagStep DEF TagArrives
<1>3. CASE CpuClk
  <2> DEFINE resp == queues["dmem_rd_resp"]
             e    == Execute(resp)
  <2>1. /\ stash' = e.stash
        /\ tagResp' = ReadReply(tagResp, "tmem_rd_req" \in DOMAIN e.puts, tags, "tmem_rd_resp" \in e.takes)
    BY <1>3 DEF CpuClk, CpuEdge
  <2>2. MemoryStep(e, resp)
    BY ExecutesOnMemory DEF TagArrives
  <2> QED
    BY <1>1, <2>1, <2>2, TagStep DEF TagArrives
<1>4. CASE XbarClk \/ DevClk \/ UNCHANGED allVars
  <2>1. UNCHANGED <<stash, tagResp>>
    BY <1>4 DEF XbarClk, DevClk, allVars, vars, cpuVars
  <2> QED
    BY <1>1, <2>1 DEF TagArrives
<1> QED
  BY <1>2, <1>3, <1>4 DEF SystemsNext, Next

(* For every program, in both systems: Execute never takes the second word *)
(* of a capability before its tag is there                                 *)
(* (src/examples/cpu_core.tbn, "assume same-cycle arrival").               *)
THEOREM TagBeforeWord == Spec => []TagComesFirst
<1>1. TagArrives => TagComesFirst
  BY DEF TagArrives, TagComesFirst
<1>2. Spec => []TagArrives
  BY InitTag, NextKeepsTag, PTL DEF Spec
<1> QED
  BY <1>1, <1>2, PTL

-----------------------------------------------------------------------------
(* Room for every put.                                                     *)

(* What an edge leaves in a queue to which at most one process puts.       *)
LEMMA OnePutter ==
    ASSUME NEW effects, NEW q \in DOMAIN queues, NEW p \in effects,
           \A o \in effects : q \in DOMAIN o.puts => o = p
    PROVE  QueuesAfter(effects)[q] = FifoAfter(queues[q], 1, TakenBy(effects, q), Offer(p.puts, q))
<1>1. CASE q \in DOMAIN p.puts
  <2>1. Offer(p.puts, q) = <<p.puts[q]>>
    BY <1>1 DEF Offer
  <2>2. \A o \in effects : q \in DOMAIN o.puts => o.puts[q] = p.puts[q]
    OBVIOUS
  <2>3. QueuesAfter(effects)[q] = FifoAfter(queues[q], 1, TakenBy(effects, q), <<p.puts[q]>>)
    BY <1>1, <2>2, WithPut
  <2> QED
    BY <2>1, <2>3
<1>2. CASE q \notin DOMAIN p.puts
  <2>1. Offer(p.puts, q) = <<>> /\ \A o \in effects : q \notin DOMAIN o.puts
    BY <1>2 DEF Offer
  <2>2. QueuesAfter(effects)[q] = FifoAfter(queues[q], 1, TakenBy(effects, q), <<>>)
    BY <2>1, WithoutPut
  <2> QED
    BY <2>1, <2>2
<1> QED
  BY <1>1, <1>2

(* Where the credit is, it is nowhere else.                                *)
LEMMA CreditInOnePlace ==
    ASSUME CreditCirculates
    PROVE  /\ Holds("next_pcc_q") => stash.phase = 0 /\ ~Holds("fetch_q") /\ ~Holds("decode_q")
           /\ Holds("fetch_q") => stash.phase = 0 /\ ~Holds("decode_q")
           /\ Holds("decode_q") => stash.phase = 0
<1> DEFINE a == Len(queues["next_pcc_q"])
           b == Len(queues["fetch_q"])
           c == Len(queues["decode_q"])
<1>1. /\ a \in {0, 1} /\ (a = 0 <=> ~Holds("next_pcc_q"))
      /\ b \in {0, 1} /\ (b = 0 <=> ~Holds("fetch_q"))
      /\ c \in {0, 1} /\ (c = 0 <=> ~Holds("decode_q"))
  <2>1. ASSUME NEW s, Short(s) PROVE Len(s) \in {0, 1} /\ (Len(s) = 0 <=> s = <<>>)
    BY <2>1, ShortQueues DEF Short
  <2>2. \A q \in CreditQueues : Short(queues[q])
    BY DEF CreditCirculates
  <2>3. a \in {0, 1} /\ (a = 0 <=> ~Holds("next_pcc_q"))
    BY <2>1, <2>2 DEF CreditQueues, Holds
  <2>4. b \in {0, 1} /\ (b = 0 <=> ~Holds("fetch_q"))
    BY <2>1, <2>2 DEF CreditQueues, Holds
  <2>5. c \in {0, 1} /\ (c = 0 <=> ~Holds("decode_q"))
    BY <2>1, <2>2 DEF CreditQueues, Holds
  <2> QED
    BY <2>3, <2>4, <2>5
<1>2. a + b + c + (IF stash.phase = 0 THEN 0 ELSE 1) = 1
  BY DEF CreditCirculates, OneInstructionInFlight
<1> HIDE DEF a, b, c
<1>3. /\ a = 1 => stash.phase = 0 /\ b = 0 /\ c = 0
      /\ b = 1 => stash.phase = 0 /\ c = 0
      /\ c = 1 => stash.phase = 0
  BY <1>1, <1>2
<1> QED
  BY <1>1, <1>3

(* How many items a queue of one place holds after an edge, if none is put *)
(* while it is full.                                                       *)
Follows(after, items, taken, offer) ==
    /\ Short(after)
    /\ Len(after) = Len(items) - One(taken) + Len(offer)
    /\ after # <<>> <=> (items # <<>> /\ ~taken) \/ offer # <<>>

LEMMA FifoLength ==
    ASSUME NEW items, Short(items), NEW offer, Short(offer), NEW taken \in BOOLEAN,
           taken => items # <<>>, offer # <<>> => items = <<>>
    PROVE  Follows(FifoAfter(items, 1, taken, offer), items, taken, offer)
<1>1. CASE items = <<>>
  <2> DEFINE n == Len(offer)
  <2>1. taken = FALSE /\ One(taken) = 0 /\ Len(items) = 0
    BY <1>1, ShortQueues DEF One
  <2>2. FifoAfter(items, 1, taken, offer) = offer
    BY <1>1, <2>1, OnePlace DEF Short
  <2>3. n \in {0, 1}
    BY ShortQueues DEF Short
  <2>4. Short(FifoAfter(items, 1, taken, offer)) /\ Len(FifoAfter(items, 1, taken, offer)) = n
    BY <2>2
  <2>5. n = Len(items) - One(taken) + n
    <3> HIDE DEF n
    <3>1. n = 0 - 0 + n
      BY <2>3
    <3> QED
      BY <2>1, <3>1, Zenon
  <2> QED
    BY <1>1, <2>2, <2>4, <2>5, Zenon DEF Follows
<1>2. CASE items # <<>>
  <2>1. PICK x : items = <<x>>
    BY <1>2 DEF Short
  <2>2. offer = <<>> /\ Len(offer) = 0 /\ Len(items) = 1
    BY <1>2, <2>1, ShortQueues
  <2>3. CASE taken
    <3>1. FifoAfter(items, 1, taken, offer) = <<>>
      BY <2>1, <2>2, <2>3, OnePlace
    <3>2. Short(<<>>) /\ Len(<<>>) = 0
      BY ShortQueues DEF Short
    <3>3. One(taken) = 1 /\ 0 = 1 - 1 + 0
      BY <2>3 DEF One
    <3>4. Len(items) - One(taken) + Len(offer) = 1 - 1 + 0
      BY <2>2, <3>3, Zenon
    <3> QED
      BY <2>2, <2>3, <3>1, <3>2, <3>3, <3>4, Zenon DEF Follows
  <2>4. CASE ~taken
    <3>1. FifoAfter(items, 1, taken, offer) = items
      BY <2>1, <2>2, <2>4, OnePlace
    <3>2. One(taken) = 0 /\ 1 = 1 - 0 + 0
      BY <2>4 DEF One
    <3>3. Len(items) - One(taken) + Len(offer) = 1 - 0 + 0
      BY <2>2, <3>2, Zenon
    <3> QED
      BY <1>2, <2>2, <2>4, <3>1, <3>2, <3>3, Zenon DEF Follows
  <2> QED
    BY <2>3, <2>4
<1> QED
  BY <1>1, <1>2

(* What is offered is one item or none.                                    *)
LEMMA OffersShort ==
    ASSUME NEW puts, NEW q
    PROVE  /\ Short(Offer(puts, q)) /\ Len(Offer(puts, q)) = One(q \in DOMAIN puts)
           /\ Offer(puts, q) # <<>> <=> q \in DOMAIN puts
BY ShortQueues DEF Offer, Short, One

(* Results wait for Writeback only in the cycle after they were put, when  *)
(* the credit is on its way to Fetch.                                      *)
WritebackKeepsUp ==
    /\ "wb_q" \in DOMAIN queues /\ Short(queues["wb_q"])
    /\ Holds("wb_q") => Holds("next_pcc_q")

(* What becomes of the queue of results.                                   *)
LEMMA WritebackQueueStep ==
    ASSUME WritebackKeepsUp, NEW instr, NEW resp, NEW e, MemoryStep(e, resp), NEW others, Apart(others),
           queues' = QueuesAfter(Effects(instr, e, others))
    PROVE  queues'["wb_q"] = FifoAfter(queues["wb_q"], 1, queues["wb_q"] # <<>>, Offer(e.puts, "wb_q"))
<1> DEFINE x       == Effect(e.takes, e.puts)
           effects == Effects(instr, e, others)
           wb      == queues["wb_q"]
<1>1. \A o \in others : "wb_q" \notin o.takes /\ "wb_q" \notin DOMAIN o.puts
  BY DEF Apart, CoreQueues
<1>2. /\ "wb_q" \notin Fetch(instr).takes /\ "wb_q" \notin DOMAIN Fetch(instr).puts
      /\ "wb_q" \notin Decode.takes /\ "wb_q" \notin DOMAIN Decode.puts
      /\ "wb_q" \notin DOMAIN Writeback.puts
      /\ "wb_q" \in Writeback.takes <=> Holds("wb_q")
  BY DEF Fetch, Decode, Writeback, Nothing, Effect
<1>3. x.takes = e.takes /\ x.puts = e.puts
  BY DEF Effect
<1>4. \A o : o \in effects <=> o = Fetch(instr) \/ o = Decode \/ o = Writeback \/ o = x \/ o \in others
  BY DEF Effects
<1> HIDE DEF x, effects
<1>5. TakenBy(effects, "wb_q") <=> wb # <<>>
  BY <1>1, <1>2, <1>3, <1>4, TakenBySome DEF MemoryStep, Holds
<1>6. x \in effects /\ \A o \in effects : "wb_q" \in DOMAIN o.puts => o = x
  BY <1>1, <1>2, <1>4
<1>7. QueuesAfter(effects)["wb_q"] = FifoAfter(wb, 1, TakenBy(effects, "wb_q"), Offer(x.puts, "wb_q"))
  BY <1>6, OnePutter DEF WritebackKeepsUp
<1> QED
  BY <1>3, <1>5, <1>7 DEF FifoAfter, effects

(* An edge keeps it so: results come only when the credit is in Execute.   *)
LEMMA WritebackStep ==
    ASSUME CreditCirculates, WritebackKeepsUp, NEW instr, NEW resp, NEW e,
           ExecuteStep(e), MemoryStep(e, resp), NEW others, Apart(others),
           queues' = QueuesAfter(Effects(instr, e, others))
    PROVE  WritebackKeepsUp'
<1> DEFINE wb == queues["wb_q"]
           n  == queues["next_pcc_q"]
<1>1. queues'["wb_q"] = FifoAfter(wb, 1, wb # <<>>, Offer(e.puts, "wb_q"))
  BY WritebackQueueStep
<1>2. /\ queues'["next_pcc_q"] = FifoAfter(n, 1, n # <<>> /\ ~Holds("fetch_q"), Offer(e.puts, "next_pcc_q"))
      /\ DOMAIN queues' = DOMAIN queues
  BY CreditQueueSteps DEF Holds
<1>3. CASE wb # <<>>
  <2>1. PICK y : wb = <<y>>
    BY <1>3 DEF WritebackKeepsUp, Short
  <2>2. "wb_q" \notin DOMAIN e.puts
    <3>1. n # <<>>
      BY <1>3 DEF WritebackKeepsUp, Holds
    <3>2. stash.phase = 0 /\ ~Holds("decode_q")
      BY <3>1, CreditInOnePlace DEF Holds
    <3> QED
      BY <3>2 DEF ExecuteStep, MemoryStep
  <2>3. queues'["wb_q"] = <<>>
    BY <1>1, <1>3, <2>1, <2>2, OnePlace DEF Offer
  <2> QED
    BY <1>2, <2>3 DEF WritebackKeepsUp, Holds, Short
<1>4. CASE wb = <<>>
  <2>1. Short(queues'["wb_q"]) /\ (queues'["wb_q"] # <<>> => "wb_q" \in DOMAIN e.puts)
    BY ZenonT(30), <1>1, <1>4, OnePlace, ShortQueues DEF Offer, Short
  <2>2. ASSUME "wb_q" \in DOMAIN e.puts PROVE queues'["next_pcc_q"] # <<>>
    <3>1. "next_pcc_q" \in DOMAIN e.puts
      BY <2>2 DEF MemoryStep
    <3>2. PICK y : Offer(e.puts, "next_pcc_q") = <<y>>
      BY <3>1 DEF Offer
    <3>3. stash.phase # 0 \/ Holds("decode_q")
      BY <3>1 DEF ExecuteStep
    <3>4. n = <<>>
      BY <3>3, CreditInOnePlace DEF Holds
    <3> QED
      BY <1>2, <3>2, <3>4, OnePlace, ShortQueues
  <2> QED
    BY <1>2, <2>1, <2>2 DEF WritebackKeepsUp, Holds
<1> QED
  BY <1>3, <1>4

-----------------------------------------------------------------------------
(* In Marie, if no program stores capabilities: the word that Execute      *)
(* awaits is asked for, under way or there, in one place, and a write      *)
(* never waits behind a read.                                              *)
NoCapabilityStores ==
    /\ stash.phase # 5
    /\ Holds("fetch_q") => First("fetch_q").op # "sc"
    /\ Holds("decode_q") => First("decode_q").op # "sc"

AdapterKeepsUp ==
    /\ DOMAIN queues = CoreQueues \union AdapterQueues
    /\ \A q \in AdapterQueues : Short(queues[q])
    /\ phase \in 0 .. 2
    /\ Len(queues["dmem_rd_req"]) + One(phase = 1) + Len(queues["dmem_rd_resp"]) = Awaits(stash)
    /\ Holds("dmem_rd_resp") => phase = 0
    /\ Holds("dmem_wr_req") => phase = 0 /\ Holds("next_pcc_q")

(* What the adapter does to the CPU's queues.                              *)
AdapterTakes(a) ==
    /\ a.phase \in 0 .. 2
    /\ a.takes \subseteq {"dmem_rd_req", "dmem_wr_req", "bus_resp"}
    /\ DOMAIN a.puts \subseteq {"bus_req", "dmem_rd_resp"}
    /\ "dmem_rd_req" \in a.takes <=> phase = 0 /\ Holds("dmem_rd_req")
    /\ "dmem_wr_req" \in a.takes <=> phase = 0 /\ ~Holds("dmem_rd_req") /\ Holds("dmem_wr_req")
    /\ "dmem_rd_resp" \in DOMAIN a.puts => phase = 1 /\ a.phase = 0
    /\ One(a.phase = 1) = One(phase = 1) + One("dmem_rd_req" \in a.takes)
                              - One("dmem_rd_resp" \in DOMAIN a.puts)
    /\ phase = 0 /\ ~Holds("dmem_rd_req") /\ ~Holds("dmem_wr_req") => a.phase = 0

(* What the adapter does, in any phase.                                    *)
LEMMA AdapterInCpu == phase \in 0 .. 2 => AdapterTakes(CpuDmemAdapter)
<1> SUFFICES ASSUME phase \in 0 .. 2 PROVE AdapterTakes(CpuDmemAdapter)
  OBVIOUS
<1>1. CASE phase = 0 /\ Holds("dmem_rd_req")
  BY <1>1 DEF CpuDmemAdapter, AdapterStep, AdapterTakes, One
<1>2. CASE phase = 0 /\ ~Holds("dmem_rd_req") /\ Holds("dmem_wr_req")
  BY <1>2 DEF CpuDmemAdapter, AdapterStep, AdapterTakes, One
<1>3. CASE phase = 1 /\ Readable(host.resp)
  BY <1>3 DEF CpuDmemAdapter, AdapterStep, AdapterTakes, One
<1>4. CASE phase = 2 /\ Readable(host.resp)
  BY <1>4 DEF CpuDmemAdapter, AdapterStep, AdapterTakes, One
<1>5. CASE /\ ~(phase = 0 /\ Holds("dmem_rd_req"))
           /\ ~(phase = 0 /\ ~Holds("dmem_rd_req") /\ Holds("dmem_wr_req"))
           /\ ~(phase = 1 /\ Readable(host.resp)) /\ ~(phase = 2 /\ Readable(host.resp))
  BY <1>5 DEF CpuDmemAdapter, AdapterStep, AdapterTakes, One
<1> QED
  BY <1>1, <1>2, <1>3, <1>4, <1>5

(* What becomes of the queues between Execute and the adapter.             *)
LEMMA AdapterQueueSteps ==
    ASSUME AdapterKeepsUp, NEW instr, NEW resp, NEW e, MemoryStep(e, resp), NEW a, AdapterTakes(a),
           queues' = QueuesAfter(Effects(instr, e, {Effect(a.takes, a.puts)}))
    PROVE  /\ queues'["dmem_rd_req"] =
                FifoAfter(queues["dmem_rd_req"], 1, "dmem_rd_req" \in a.takes, Offer(e.puts, "dmem_rd_req"))
           /\ queues'["dmem_wr_req"] =
                FifoAfter(queues["dmem_wr_req"], 1, "dmem_wr_req" \in a.takes, Offer(e.puts, "dmem_wr_req"))
           /\ queues'["dmem_rd_resp"] =
                FifoAfter(queues["dmem_rd_resp"], 1, "dmem_rd_resp" \in e.takes, Offer(a.puts, "dmem_rd_resp"))
<1> DEFINE x       == Effect(e.takes, e.puts)
           y       == Effect(a.takes, a.puts)
           effects == Effects(instr, e, {y})
<1>1. \A o \in {Fetch(instr), Decode, Writeback} :
         \A q \in AdapterQueues : q \notin o.takes /\ q \notin DOMAIN o.puts
  BY DEF Fetch, Decode, Writeback, Nothing, Effect, AdapterQueues
<1>2. x.takes = e.takes /\ x.puts = e.puts /\ y.takes = a.takes /\ y.puts = a.puts
  BY DEF Effect
<1>3. \A o : o \in effects <=> o \in {Fetch(instr), Decode, Writeback} \/ o = x \/ o = y
  BY DEF Effects
<1>4. queues' = QueuesAfter(effects)
  OBVIOUS
<1> HIDE DEF x, y, effects
<1>5. queues'["dmem_rd_req"] =
        FifoAfter(queues["dmem_rd_req"], 1, "dmem_rd_req" \in a.takes, Offer(e.puts, "dmem_rd_req"))
  <2>1. TakenBy(effects, "dmem_rd_req") <=> "dmem_rd_req" \in a.takes
    BY <1>1, <1>2, <1>3, TakenBySome DEF MemoryStep, AdapterQueues
  <2>2. x \in effects /\ \A o \in effects : "dmem_rd_req" \in DOMAIN o.puts => o = x
    BY <1>1, <1>2, <1>3 DEF AdapterTakes, AdapterQueues
  <2>3. "dmem_rd_req" \in DOMAIN queues
    BY DEF AdapterKeepsUp, AdapterQueues
  <2>4. QueuesAfter(effects)["dmem_rd_req"] =
          FifoAfter(queues["dmem_rd_req"], 1, TakenBy(effects, "dmem_rd_req"), Offer(x.puts, "dmem_rd_req"))
    BY <2>2, <2>3, OnePutter
  <2> QED
    BY <1>2, <1>4, <2>1, <2>4 DEF FifoAfter
<1>6. queues'["dmem_wr_req"] =
        FifoAfter(queues["dmem_wr_req"], 1, "dmem_wr_req" \in a.takes, Offer(e.puts, "dmem_wr_req"))
  <2>1. TakenBy(effects, "dmem_wr_req") <=> "dmem_wr_req" \in a.takes
    BY <1>1, <1>2, <1>3, TakenBySome DEF MemoryStep, AdapterQueues
  <2>2. x \in effects /\ \A o \in effects : "dmem_wr_req" \in DOMAIN o.puts => o = x
    BY <1>1, <1>2, <1>3 DEF AdapterTakes, AdapterQueues
  <2>3. "dmem_wr_req" \in DOMAIN queues
    BY DEF AdapterKeepsUp, AdapterQueues
  <2>4. QueuesAfter(effects)["dmem_wr_req"] =
          FifoAfter(queues["dmem_wr_req"], 1, TakenBy(effects, "dmem_wr_req"), Offer(x.puts, "dmem_wr_req"))
    BY <2>2, <2>3, OnePutter
  <2> QED
    BY <1>2, <1>4, <2>1, <2>4 DEF FifoAfter
<1>7. queues'["dmem_rd_resp"] =
        FifoAfter(queues["dmem_rd_resp"], 1, "dmem_rd_resp" \in e.takes, Offer(a.puts, "dmem_rd_resp"))
  <2>1. TakenBy(effects, "dmem_rd_resp") <=> "dmem_rd_resp" \in e.takes
    BY <1>1, <1>2, <1>3, TakenBySome DEF AdapterTakes, AdapterQueues
  <2>2. y \in effects /\ \A o \in effects : "dmem_rd_resp" \in DOMAIN o.puts => o = y
    BY <1>1, <1>2, <1>3 DEF MemoryStep, AdapterQueues
  <2>3. "dmem_rd_resp" \in DOMAIN queues
    BY DEF AdapterKeepsUp, AdapterQueues
  <2>4. QueuesAfter(effects)["dmem_rd_resp"] =
          FifoAfter(queues["dmem_rd_resp"], 1, TakenBy(effects, "dmem_rd_resp"), Offer(y.puts, "dmem_rd_resp"))
    BY <2>2, <2>3, OnePutter
  <2> QED
    BY <1>2, <1>4, <2>1, <2>4 DEF FifoAfter
<1> QED
  BY <1>5, <1>6, <1>7

(* No capability store comes into the pipeline if none is fetched.         *)
LEMMA NoStoreComes ==
    ASSUME CreditCirculates, NoCapabilityStores, NEW instr, instr.op # "sc",
           NEW resp, NEW e, ExecuteStep(e), MemoryStep(e, resp), NEW others, Apart(others),
           queues' = QueuesAfter(Effects(instr, e, others)), stash' = e.stash
    PROVE  NoCapabilityStores'
<1> DEFINE n == queues["next_pcc_q"]
           f == queues["fetch_q"]
           d == queues["decode_q"]
<1>1. /\ queues'["fetch_q"] = FifoAfter(f, 1, f # <<>>, IF n # <<>> /\ f = <<>> THEN <<instr>> ELSE <<>>)
      /\ queues'["decode_q"] = FifoAfter(d, 1, stash.phase = 0 /\ d # <<>>,
                                         IF f # <<>> THEN <<Decoded(First("fetch_q"), regfile)>> ELSE <<>>)
  BY CreditQueueSteps DEF Holds
<1>2. Short(f) /\ Short(d)
  BY DEF CreditCirculates, CreditQueues
<1>3. /\ f # <<>> => d = <<>>
      /\ d # <<>> => stash.phase = 0 /\ f = <<>>
  BY CreditInOnePlace DEF Holds
<1>4. f # <<>> => Decoded(First("fetch_q"), regfile).op # "sc"
  BY DEF NoCapabilityStores, Holds, Decoded
<1>5. stash'.phase # 5
  BY DEF MemoryStep, NoCapabilityStores
<1> DEFINE f1 == queues'["fetch_q"]
           d1 == queues'["decode_q"]
<1>6. f1 # <<>> => Head(f1).op # "sc"
  <2>1. CASE f = <<>>
    <3>1. f1 = <<>> \/ f1 = <<instr>>
      BY <1>1, <2>1, OnePlace
    <3> QED
      BY <3>1, ShortQueues
  <2>2. CASE f # <<>>
    <3>1. f1 = <<>>
      BY <1>1, <1>2, <2>2, OnePlace DEF Short
    <3> QED
      BY <3>1
  <2> QED
    BY <2>1, <2>2
<1>7. d1 # <<>> => Head(d1).op # "sc"
  <2>1. CASE d = <<>>
    <3>1. d1 = <<>> \/ (f # <<>> /\ d1 = <<Decoded(First("fetch_q"), regfile)>>)
      BY <1>1, <2>1, OnePlace
    <3> QED
      BY <1>4, <3>1, ShortQueues
  <2>2. CASE d # <<>>
    <3>1. d1 = <<>>
      BY <1>1, <1>2, <1>3, <2>2, OnePlace DEF Short
    <3> QED
      BY <3>1
  <2> QED
    BY <2>1, <2>2
<1> QED
  BY <1>5, <1>6, <1>7 DEF NoCapabilityStores, Holds, First

(* Where the awaited word is, it is nowhere else, and no write is.         *)
LEMMA WordInOnePlace ==
    ASSUME CreditCirculates, AdapterKeepsUp
    PROVE  /\ Holds("dmem_rd_req") => stash.phase \in 1 .. 4 /\ phase # 1 /\ ~Holds("dmem_rd_resp")
           /\ phase = 1 => stash.phase \in 1 .. 4 /\ ~Holds("dmem_rd_resp")
           /\ Holds("dmem_rd_resp") => stash.phase \in 1 .. 4
           /\ Holds("dmem_wr_req") => ~Holds("dmem_rd_req")
           /\ stash.phase \notin 1 .. 4 => ~Holds("dmem_rd_req") /\ phase # 1 /\ ~Holds("dmem_rd_resp")
<1> DEFINE i == Len(queues["dmem_rd_req"])
           k == Len(queues["dmem_rd_resp"])
           j == One(phase = 1)
           w == Awaits(stash)
<1>1. /\ i \in {0, 1} /\ (i = 0 <=> ~Holds("dmem_rd_req"))
      /\ k \in {0, 1} /\ (k = 0 <=> ~Holds("dmem_rd_resp"))
  <2>1. ASSUME NEW s, Short(s) PROVE Len(s) \in {0, 1} /\ (Len(s) = 0 <=> s = <<>>)
    BY <2>1, ShortQueues DEF Short
  <2>2. Short(queues["dmem_rd_req"]) /\ Short(queues["dmem_rd_resp"])
    BY DEF AdapterKeepsUp, AdapterQueues
  <2>3. i \in {0, 1} /\ (i = 0 <=> ~Holds("dmem_rd_req"))
    BY <2>1, <2>2 DEF Holds
  <2>4. k \in {0, 1} /\ (k = 0 <=> ~Holds("dmem_rd_resp"))
    BY <2>1, <2>2 DEF Holds
  <2> QED
    BY <2>3, <2>4
<1>2. i + j + k = w
  BY DEF AdapterKeepsUp
<1>3. /\ j \in {0, 1} /\ (j = 1 <=> phase = 1)
      /\ w \in {0, 1} /\ (w = 1 <=> stash.phase \in 1 .. 4)
  BY DEF One, Awaits
<1>4. Holds("dmem_wr_req") => stash.phase = 0
  BY CreditInOnePlace DEF AdapterKeepsUp
<1> HIDE DEF i, j, k, w
<1>5. /\ i = 1 => w = 1 /\ j = 0 /\ k = 0
      /\ j = 1 => w = 1 /\ k = 0
      /\ k = 1 => w = 1
      /\ w = 0 => i = 0 /\ j = 0 /\ k = 0
  BY <1>1, <1>2, <1>3
<1>6. ~(0 \in 1 .. 4)
  OBVIOUS
<1> QED
  BY <1>1, <1>3, <1>4, <1>5, <1>6

(* Execute asks for a word, or writes one, only when the adapter has taken *)
(* what it asked for before.                                               *)
LEMMA ExecuteHasRoom ==
    ASSUME CreditCirculates, AdapterKeepsUp, NoCapabilityStores,
           NEW e, MemoryStep(e, queues["dmem_rd_resp"])
    PROVE  /\ "dmem_rd_req" \in DOMAIN e.puts => ~Holds("dmem_rd_req")
           /\ "dmem_wr_req" \in DOMAIN e.puts =>
                  /\ ~Holds("dmem_wr_req") /\ ~Holds("dmem_rd_req") /\ ~Holds("next_pcc_q")
                  /\ phase = 0 /\ "next_pcc_q" \in DOMAIN e.puts
<1>1. "dmem_rd_resp" \in e.takes => Holds("dmem_rd_resp") /\ stash.phase \in 1 .. 4
  BY DEF MemoryStep, Holds
<1>2. ASSUME "dmem_rd_req" \in DOMAIN e.puts PROVE ~Holds("dmem_rd_req")
  <2>1. stash.phase = 0 \/ Holds("dmem_rd_resp")
    BY <1>1, <1>2 DEF MemoryStep
  <2> QED
    BY <2>1, WordInOnePlace
<1>3. ASSUME "dmem_wr_req" \in DOMAIN e.puts
      PROVE  /\ ~Holds("dmem_wr_req") /\ ~Holds("dmem_rd_req") /\ ~Holds("next_pcc_q")
             /\ phase = 0 /\ "next_pcc_q" \in DOMAIN e.puts
  <2>1. "next_pcc_q" \in DOMAIN e.puts /\ "dmem_rd_resp" \in e.takes
    BY <1>3 DEF MemoryStep, NoCapabilityStores
  <2>2. ~Holds("next_pcc_q") /\ ~Holds("dmem_rd_req") /\ phase = 0
    BY <1>1, <2>1, CreditInOnePlace, WordInOnePlace DEF AdapterKeepsUp
  <2> QED
    BY <2>1, <2>2 DEF AdapterKeepsUp
<1> QED
  BY <1>2, <1>3

(* So the adapter stays ahead of Execute.                                  *)
LEMMA AdapterStaysAhead ==
    ASSUME CreditCirculates, AdapterKeepsUp, NoCapabilityStores,
           NEW instr, NEW e, ExecuteStep(e), MemoryStep(e, queues["dmem_rd_resp"]),
           NEW a, AdapterTakes(a), Apart({Effect(a.takes, a.puts)}),
           queues' = QueuesAfter(Effects(instr, e, {Effect(a.takes, a.puts)})),
           stash' = e.stash, phase' = a.phase
    PROVE  AdapterKeepsUp'
<1> DEFINE rq   == queues["dmem_rd_req"]
           rr   == queues["dmem_rd_resp"]
           wq   == queues["dmem_wr_req"]
           asks == "dmem_rd_req" \in DOMAIN e.puts
           gets == "dmem_rd_resp" \in e.takes
           sends  == "dmem_rd_req" \in a.takes
           brings == "dmem_rd_resp" \in DOMAIN a.puts
           o1 == Offer(e.puts, "dmem_rd_req")
           o2 == Offer(a.puts, "dmem_rd_resp")
           o3 == Offer(e.puts, "dmem_wr_req")
           leaves == "dmem_wr_req" \in a.takes
<1>1. /\ queues'["dmem_rd_req"] = FifoAfter(rq, 1, sends, o1)
      /\ queues'["dmem_rd_resp"] = FifoAfter(rr, 1, gets, o2)
      /\ queues'["dmem_wr_req"] = FifoAfter(wq, 1, "dmem_wr_req" \in a.takes, o3)
  BY AdapterQueueSteps
<1>2. Short(rq) /\ Short(rr) /\ Short(wq)
  BY DEF AdapterKeepsUp, AdapterQueues
<1>3. /\ Short(o1) /\ Len(o1) = One(asks) /\ (o1 # <<>> <=> asks)
      /\ Short(o2) /\ Len(o2) = One(brings) /\ (o2 # <<>> <=> brings)
      /\ Short(o3) /\ (o3 # <<>> <=> "dmem_wr_req" \in DOMAIN e.puts)
  BY OffersShort
<1>4. (sends => rq # <<>>) /\ (o1 # <<>> => rq = <<>>)
  BY <1>3, ExecuteHasRoom DEF AdapterTakes, Holds
<1>5. (gets => rr # <<>>) /\ (o2 # <<>> => rr = <<>>)
  <2>1. brings => phase = 1
    BY DEF AdapterTakes
  <2> QED
    BY <1>3, <2>1, WordInOnePlace DEF MemoryStep, Holds
<1>6. ("dmem_wr_req" \in a.takes => wq # <<>>) /\ (o3 # <<>> => wq = <<>>)
  BY <1>3, ExecuteHasRoom DEF AdapterTakes, Holds
<1>7. /\ Follows(queues'["dmem_rd_req"], rq, sends, o1)
      /\ Follows(queues'["dmem_rd_resp"], rr, gets, o2)
      /\ Follows(queues'["dmem_wr_req"], wq, leaves, o3)
  <2>1. sends \in BOOLEAN /\ gets \in BOOLEAN /\ leaves \in BOOLEAN
    OBVIOUS
  <2> HIDE DEF rq, rr, wq, sends, gets, leaves, o1, o2, o3
  <2>2. Follows(FifoAfter(rq, 1, sends, o1), rq, sends, o1)
    BY <1>2, <1>3, <1>4, <2>1, FifoLength
  <2>3. Follows(FifoAfter(rr, 1, gets, o2), rr, gets, o2)
    BY <1>2, <1>3, <1>5, <2>1, FifoLength
  <2>4. Follows(FifoAfter(wq, 1, leaves, o3), wq, leaves, o3)
    BY <1>2, <1>3, <1>6, <2>1, FifoLength DEF leaves
  <2> QED
    BY <1>1, <2>2, <2>3, <2>4 DEF leaves
<1>8. /\ Short(queues'["dmem_rd_req"]) /\ Short(queues'["dmem_rd_resp"])
      /\ Len(queues'["dmem_rd_req"]) = Len(rq) - One(sends) + One(asks)
      /\ Len(queues'["dmem_rd_resp"]) = Len(rr) - One(gets) + One(brings)
      /\ queues'["dmem_rd_resp"] # <<>> <=> (rr # <<>> /\ ~gets) \/ brings
  <2> HIDE DEF rq, rr, wq, sends, gets, leaves, o1, o2, o3, asks, brings
  <2> QED
    BY <1>3, <1>7, Zenon DEF Follows
<1>9. /\ Short(queues'["dmem_wr_req"])
      /\ queues'["dmem_wr_req"] # <<>> <=>
            (wq # <<>> /\ ~leaves) \/ "dmem_wr_req" \in DOMAIN e.puts
  <2> HIDE DEF rq, rr, wq, sends, gets, leaves, o1, o2, o3, asks, brings
  <2> QED
    BY <1>3, <1>7 DEF Follows
<1>10. Len(queues'["dmem_rd_req"]) + One(a.phase = 1) + Len(queues'["dmem_rd_resp"]) = Awaits(e.stash)
  <2> DEFINE i == Len(rq)
             k == Len(rr)
             j == One(phase = 1)
             w == Awaits(stash)
  <2>1. i + j + k = w /\ i \in Nat /\ k \in Nat
    BY <1>2, ShortQueues DEF AdapterKeepsUp, Short
  <2>2. j \in Nat /\ w \in Nat /\ One(asks) \in Nat /\ One(gets) \in Nat /\ One(sends) \in Nat /\ One(brings) \in Nat
    BY DEF One, Awaits
  <2>3. Awaits(e.stash) = w - One(gets) + One(asks)
    BY DEF MemoryStep
  <2>4. One(a.phase = 1) = j + One(sends) - One(brings)
    BY DEF AdapterTakes
  <2> HIDE DEF i, j, k, w, asks, gets, sends, brings
  <2>5. (i - One(sends) + One(asks)) + (j + One(sends) - One(brings)) + (k - One(gets) + One(brings))
            = w - One(gets) + One(asks)
    BY <2>1, <2>2
  <2> QED
    BY <1>8, <2>3, <2>4, <2>5, Zenon DEF i, k
<1>11. queues'["dmem_rd_resp"] # <<>> => a.phase = 0
  <2>1. rr # <<>> => gets
    BY WordInOnePlace DEF MemoryStep, Holds
  <2>2. brings => a.phase = 0
    BY DEF AdapterTakes
  <2> QED
    BY <1>8, <2>1, <2>2
<1>12. queues'["dmem_wr_req"] # <<>> => a.phase = 0 /\ queues'["next_pcc_q"] # <<>>
  <2>1. wq # <<>> => "dmem_wr_req" \in a.takes
    BY WordInOnePlace DEF AdapterKeepsUp, AdapterTakes, Holds
  <2>2. ASSUME "dmem_wr_req" \in DOMAIN e.puts PROVE a.phase = 0 /\ queues'["next_pcc_q"] # <<>>
    <3>1. /\ ~Holds("dmem_wr_req") /\ ~Holds("dmem_rd_req") /\ ~Holds("next_pcc_q")
          /\ phase = 0 /\ "next_pcc_q" \in DOMAIN e.puts
      BY <2>2, ExecuteHasRoom
    <3>2. a.phase = 0
      BY <3>1 DEF AdapterTakes
    <3>3. queues'["next_pcc_q"] = FifoAfter(<<>>, 1, FALSE, Offer(e.puts, "next_pcc_q"))
      BY <3>1, CreditQueueSteps DEF Holds, FifoAfter
    <3>4. PICK y : Offer(e.puts, "next_pcc_q") = <<y>>
      BY <3>1 DEF Offer
    <3> QED
      BY <3>2, <3>3, <3>4, OnePlace, ShortQueues
  <2> QED
    BY <1>9, <2>1, <2>2
<1>13. DOMAIN queues' = DOMAIN queues
  BY CreditQueueSteps
<1> QED
  BY <1>8, <1>9, <1>10, <1>11, <1>12, <1>13 DEF AdapterKeepsUp, AdapterQueues, AdapterTakes, Holds

-----------------------------------------------------------------------------
(* On the bus, whoever puts has room: the near side when it awaits         *)
(* nothing, the far side when it has been asked.                           *)
LEMMA RoomToAsk ==
    ASSUME NEW link, NEW far, Turns(link, 0, far) PROVE Room(link.req, BusDepth)
<1> DEFINE offer == <<0>>
           take  == 0 = 1
           near  == 0
<1>1. Short(offer) /\ offer # <<>> /\ take \in BOOLEAN /\ BusDepth \in Nat \ {0}
  BY ShortQueues, SocAssumption DEF Short
<1>2. Turns(link, near, far) /\ near = 0
  OBVIOUS
<1> HIDE DEF offer, take, near
<1>3. /\ Turns([req |-> WriterEdge(link.req, BusDepth, offer), resp |-> ReaderEdge(link.resp, take)],
               near + Len(offer) - One(take /\ Readable(link.resp)), far)
      /\ offer # <<>> => Room(link.req, BusDepth)
  BY <1>1, <1>2, NearEdge
<1> QED
  BY <1>1, <1>3

(* The far side.                                                           *)
LEMMA RoomToAnswer ==
    ASSUME NEW link, NEW near, NEW far, Turns(link, near, far), far = 1 \/ Readable(link.req)
    PROVE  Room(link.resp, BusDepth)
<1> DEFINE answer == <<0>>
           take   == Readable(link.req)
<1>1. /\ Short(answer) /\ answer # <<>> /\ take \in BOOLEAN /\ BusDepth \in Nat \ {0}
      /\ far = 1 \/ (take /\ Readable(link.req))
  BY ShortQueues, SocAssumption DEF Short, Readable
<1> HIDE DEF answer, take
<1>2. /\ Turns([req |-> ReaderEdge(link.req, take), resp |-> WriterEdge(link.resp, BusDepth, answer)],
               near, far + One(take /\ Readable(link.req)) - Len(answer))
      /\ answer # <<>> => Room(link.resp, BusDepth)
  BY <1>1, FarEdge
<1> QED
  BY <1>1, <1>2

(* So every put of the adapter, the crossbar and the devices has room.     *)
LEMMA TurnsGiveRoom == BusTakesTurns /\ AdapterKeepsUp /\ CreditCirculates => FabricHasRoom
<1> SUFFICES ASSUME BusTakesTurns, AdapterKeepsUp, CreditCirculates PROVE FabricHasRoom
  OBVIOUS
<1>1. "dmem_rd_resp" \in DOMAIN CpuDmemAdapter.puts => ~Holds("dmem_rd_resp")
  BY AdapterInCpu, WordInOnePlace DEF AdapterKeepsUp, AdapterTakes
<1>2. "bus_req" \in DOMAIN CpuDmemAdapter.puts => Room(host.req, BusDepth)
  <2>1. "bus_req" \in DOMAIN CpuDmemAdapter.puts => phase = 0
    BY AdapterTurn DEF BusTakesTurns, Offer
  <2>2. phase = 0 => One(phase # 0) = 0
    BY DEF One
  <2> QED
    BY <2>1, <2>2, RoomToAsk DEF BusTakesTurns
<1>3. ASSUME NEW d \in DOMAIN Xbar.requests PROVE Room(device[d].req, BusDepth)
  <2>1. xphase = "idle" /\ d \in Targets
    BY <1>3 DEF Xbar, XbarStep
  <2>2. One(xphase = d) = 0
    BY <2>1, SocAssumption DEF One, Targets
  <2> QED
    BY <2>1, <2>2, RoomToAsk DEF BusTakesTurns
<1>4. ASSUME Xbar.answer # <<>> PROVE Room(host.resp, BusDepth)
  <2>1. xphase # "idle" \/ Readable(host.req)
    BY <1>4 DEF Xbar, XbarStep
  <2>2. xphase # "idle" => One(xphase # "idle") = 1
    BY DEF One
  <2> QED
    BY <2>1, <2>2, RoomToAnswer DEF BusTakesTurns
<1>5. ASSUME NEW d \in Targets, Asked(d) \/ (d = "mem" /\ MemAnswers) PROVE Room(device[d].resp, BusDepth)
  <2>1. One(d = "mem" /\ mphase = 1) = 1 \/ Readable(device[d].req)
    BY <1>5 DEF Asked, MemAnswers, One
  <2> QED
    BY <2>1, RoomToAnswer DEF BusTakesTurns
<1> QED
  BY <1>1, <1>2, <1>3, <1>4, <1>5 DEF FabricHasRoom

-----------------------------------------------------------------------------
(* With memory next to the core, a word is there in the cycle after it was *)
(* asked for, and taken in that cycle.                                     *)
MemoryAnswers ==
    DOMAIN queues = CoreQueues /\ Short(dmemResp) /\ Len(dmemResp) = Awaits(stash)

(* The word is there exactly when Execute awaits it.                       *)
LEMMA AwaitedWordIsThere == MemoryAnswers => (dmemResp # <<>> <=> stash.phase \in 1 .. 4)
<1> SUFFICES ASSUME MemoryAnswers PROVE dmemResp # <<>> <=> stash.phase \in 1 .. 4
  OBVIOUS
<1>1. Len(dmemResp) \in {0, 1} /\ (Len(dmemResp) = 0 <=> dmemResp = <<>>)
  BY ShortQueues DEF MemoryAnswers, Short
<1>2. Awaits(stash) = 1 <=> stash.phase \in 1 .. 4
  BY DEF Awaits, One
<1>3. Len(dmemResp) = Awaits(stash)
  BY DEF MemoryAnswers
<1> DEFINE n == Len(dmemResp)
<1> HIDE DEF n
<1> QED
  BY <1>1, <1>2, <1>3

(* An edge of the core with memories of its own keeps it so.               *)
LEMMA MemoryKeepsUp ==
    ASSUME MemoryAnswers, NEW e, MemoryStep(e, dmemResp), NEW word,
           DOMAIN queues' = DOMAIN queues, stash' = e.stash,
           dmemResp' = ReadReply(dmemResp, "dmem_rd_req" \in DOMAIN e.puts, word, "dmem_rd_resp" \in e.takes)
    PROVE  MemoryAnswers'
<1> DEFINE asks == "dmem_rd_req" \in DOMAIN e.puts
           gets == "dmem_rd_resp" \in e.takes
<1>1. gets <=> stash.phase \in 1 .. 4
  BY AwaitedWordIsThere DEF MemoryStep
<1>2. asks => gets \/ stash.phase = 0
  BY DEF MemoryStep
<1>3. dmemResp = <<>> <=> ~gets
  BY <1>1, AwaitedWordIsThere
<1>4. dmemResp' = IF asks THEN <<word>> ELSE <<>>
  BY <1>3 DEF ReadReply
<1>5. Awaits(stash) = One(gets)
  BY <1>1 DEF Awaits, One
<1>6. Awaits(e.stash) = Awaits(stash) - One(gets) + One(asks)
  BY DEF MemoryStep
<1>7. Awaits(e.stash) = One(asks)
  <2>1. One(gets) \in Nat /\ One(asks) \in Nat
    BY DEF One
  <2> HIDE DEF asks, gets
  <2> QED
    BY <1>5, <1>6, <2>1
<1>8. Short(dmemResp') /\ Len(dmemResp') = One(asks)
  BY <1>4, ShortQueues DEF Short, One
<1> QED
  BY <1>7, <1>8 DEF MemoryAnswers

-----------------------------------------------------------------------------
(* Inductive invariant: whatever is awaited is in one place, in the        *)
(* pipeline, between it and memory, and on the bus.                        *)
HasRoom ==
    /\ top \in {"CPU", "Marie"}
    /\ TagArrives /\ BusTakesTurns /\ WritebackKeepsUp
    /\ top = "CPU" => MemoryAnswers
    /\ top = "Marie" => NoCapabilityStores /\ AdapterKeepsUp

(* In such a state there is room for every put of the pipeline and the bus.*)
LEMMA RoomIsLeft == HasRoom => OnlyUartBytesAreDropped
<1> SUFFICES ASSUME HasRoom PROVE OnlyUartBytesAreDropped
  OBVIOUS
<1> DEFINE e == Execute(Response)
<1>1. CreditCirculates
  BY DEF HasRoom, TagArrives
<1>2. stash.phase = 4 /\ Response # <<>> => tagResp # <<>>
  BY DEF HasRoom, TagArrives
<1>3. MemoryStep(e, Response) /\ ExecuteStep(e)
  BY <1>1, <1>2, ExecutesOnMemory, Executes
<1>4. \A q \in DOMAIN Decode.puts : ~Holds(q)
  BY <1>1, CreditInOnePlace DEF Decode, Nothing, Effect
<1>5. "tmem_rd_req" \in DOMAIN e.puts => tagResp = <<>>
  BY <1>3 DEF HasRoom, TagArrives, MemoryStep
<1>6. "next_pcc_q" \in DOMAIN e.puts => ~Holds("next_pcc_q") /\ ~Holds("wb_q")
  <2>1. "next_pcc_q" \in DOMAIN e.puts => stash.phase # 0 \/ Holds("decode_q")
    BY <1>3 DEF ExecuteStep
  <2> QED
    BY <1>1, <2>1, CreditInOnePlace DEF HasRoom, WritebackKeepsUp
<1>7. "wb_q" \in DOMAIN e.puts => ~Holds("wb_q")
  BY <1>3, <1>6 DEF MemoryStep
<1> HIDE DEF e
<1>8. CASE top = "CPU"
  <2>1. MemoryAnswers /\ Response = dmemResp
    BY <1>8 DEF HasRoom, Response
  <2>2. \A q \in DOMAIN e.puts \intersect DOMAIN queues : ~Holds(q)
    BY <1>3, <1>6, <1>7, <2>1 DEF MemoryAnswers, MemoryStep, CoreQueues
  <2>3. "dmem_rd_req" \in DOMAIN e.puts => dmemResp = <<>> \/ "dmem_rd_resp" \in e.takes
    BY <1>3, <2>1, AwaitedWordIsThere DEF MemoryStep
  <2> QED
    BY <1>4, <1>5, <1>8, <2>2, <2>3 DEF OnlyUartBytesAreDropped, e
<1>9. CASE top = "Marie"
  <2>1. NoCapabilityStores /\ AdapterKeepsUp /\ Response = queues["dmem_rd_resp"]
    BY <1>9 DEF HasRoom, Response
  <2>2. /\ "dmem_rd_req" \in DOMAIN e.puts => ~Holds("dmem_rd_req")
        /\ "dmem_wr_req" \in DOMAIN e.puts => ~Holds("dmem_wr_req")
    BY <1>1, <1>3, <2>1, ExecuteHasRoom
  <2>3. \A q \in DOMAIN e.puts \intersect DOMAIN queues : ~Holds(q)
    BY <1>3, <1>6, <1>7, <2>1, <2>2 DEF AdapterKeepsUp, MemoryStep, CoreQueues, AdapterQueues
  <2>4. FabricHasRoom
    BY <1>1, <2>1, TurnsGiveRoom DEF HasRoom
  <2> QED
    BY <1>4, <1>5, <1>9, <2>3, <2>4 DEF OnlyUartBytesAreDropped, e
<1> QED
  BY <1>8, <1>9 DEF HasRoom

(* Nothing is awaited at first.                                            *)
LEMMA InitRoom == SystemsInit => HasRoom
<1> SUFFICES ASSUME SystemsInit PROVE HasRoom
  OBVIOUS
<1>1. TagArrives /\ BusTakesTurns
  BY InitTag, InitBus
<1>2. CASE top = "CPU" /\ Alone!Init
  <2>1. /\ DOMAIN queues = CoreQueues /\ queues["wb_q"] = <<>>
        /\ stash.phase = 0 /\ dmemResp = <<>>
    BY <1>2 DEF Alone!Init, Alone!CpuInit, Alone!CoreQueues, Alone!IdleStash, CoreQueues
  <2>2. MemoryAnswers
    BY <2>1, ShortQueues DEF MemoryAnswers, Awaits, One, Short
  <2>3. WritebackKeepsUp
    BY <2>1 DEF WritebackKeepsUp, CoreQueues, Short, Holds
  <2> QED
    BY <1>1, <1>2, <2>2, <2>3 DEF HasRoom
<1>3. CASE top = "Marie" /\ Init
  <2>1. /\ DOMAIN queues = CoreQueues \union AdapterQueues
        /\ \A q \in DOMAIN queues : q # "next_pcc_q" => queues[q] = <<>>
        /\ stash.phase = 0 /\ phase = 0
    BY <1>3 DEF Init, CpuInit, FabricInit, IdleStash
  <2>2. NoCapabilityStores
    BY <2>1 DEF NoCapabilityStores, CoreQueues, Holds
  <2>3. AdapterKeepsUp
    <3>1. \A q \in AdapterQueues : queues[q] = <<>>
      BY <2>1 DEF AdapterQueues
    <3>2. Len(queues["dmem_rd_req"]) = 0 /\ Len(queues["dmem_rd_resp"]) = 0
      BY <3>1, ShortQueues DEF AdapterQueues
    <3>3. One(phase = 1) = 0 /\ Awaits(stash) = 0
      BY <2>1 DEF One, Awaits
    <3> QED
      BY <2>1, <3>1, <3>2, <3>3 DEF AdapterKeepsUp, AdapterQueues, Short, Holds
  <2>4. WritebackKeepsUp
    BY <2>1 DEF WritebackKeepsUp, CoreQueues, Short, Holds
  <2> QED
    BY <1>1, <1>3, <2>2, <2>3, <2>4 DEF HasRoom
<1> QED
  BY <1>2, <1>3 DEF SystemsInit

(* Every step of either system.                                            *)
LEMMA NextKeepsRoom ==
    ASSUME \A i \in Instructions : i.op # "sc", HasRoom, [SystemsNext]_allVars
    PROVE  HasRoom'
<1>1. TagArrives' /\ BusTakesTurns'
  BY NextKeepsTag, NextKeepsTurns DEF HasRoom
<1>2. CreditCirculates
  BY DEF HasRoom, TagArrives
<1>3. CASE Tick
  <2> DEFINE e == Execute(dmemResp)
  <2>1. PICK instr \in AloneInstructions : queues' = QueuesAfter(Effects(instr, e, {}))
    BY <1>3, SamePipeline DEF Tick, Alone!Tick, Alone!CpuEdge, Alone!Effect, Effect, Effects
  <2>2. PICK word :
           /\ stash' = e.stash
           /\ dmemResp' = ReadReply(dmemResp, "dmem_rd_req" \in DOMAIN e.puts, word, "dmem_rd_resp" \in e.takes)
    BY <1>3, SamePipeline DEF Tick, Alone!Tick, Alone!CpuEdge, Alone!ReadReply, ReadReply
  <2>3. top = "CPU" /\ top' = "CPU"
    BY <1>3 DEF Tick
  <2>4. ExecuteStep(e) /\ MemoryStep(e, dmemResp)
    BY <1>2, Executes, ExecutesOnMemory DEF HasRoom, TagArrives
  <2>5. Apart({})
    BY DEF Apart
  <2> HIDE DEF e
  <2>6. WritebackKeepsUp'
    BY <1>2, <2>1, <2>4, <2>5, WritebackStep DEF HasRoom
  <2>7. DOMAIN queues' = DOMAIN queues
    BY <1>2, <2>1, <2>4, <2>5, CreditQueueSteps
  <2>8. MemoryAnswers'
    BY <2>2, <2>3, <2>4, <2>7, MemoryKeepsUp DEF HasRoom
  <2> QED
    BY <1>1, <2>3, <2>6, <2>8 DEF HasRoom
<1>4. CASE Marie /\ CpuClk
  <2> DEFINE resp == queues["dmem_rd_resp"]
             e    == Execute(resp)
             a    == CpuDmemAdapter
             y    == Effect(a.takes, a.puts)
  <2>1. PICK instr \in Instructions : queues' = QueuesAfter(Effects(instr, e, {y}))
    BY <1>4 DEF CpuClk, CpuEdge, Effects
  <2>2. stash' = e.stash /\ phase' = a.phase
    BY <1>4 DEF CpuClk, CpuEdge
  <2>3. top = "Marie" /\ top' = "Marie"
    BY <1>4 DEF Marie
  <2>4. ExecuteStep(e) /\ MemoryStep(e, resp)
    BY <1>2, Executes, ExecutesOnMemory DEF HasRoom, TagArrives
  <2>5. Apart({y})
    BY AdapterIsApart
  <2>6. AdapterKeepsUp /\ NoCapabilityStores
    BY <2>3 DEF HasRoom
  <2>7. AdapterTakes(a)
    BY <2>6, AdapterInCpu DEF AdapterKeepsUp
  <2>8. instr.op # "sc"
    OBVIOUS
  <2> HIDE DEF e, a
  <2>9. WritebackKeepsUp'
    BY <1>2, <2>1, <2>4, <2>5, WritebackStep DEF HasRoom
  <2>10. NoCapabilityStores'
    BY <1>2, <2>1, <2>2, <2>4, <2>5, <2>6, <2>8, NoStoreComes
  <2>11. AdapterKeepsUp'
    BY <1>2, <2>1, <2>2, <2>4, <2>5, <2>6, <2>7, AdapterStaysAhead
  <2> QED
    BY <1>1, <2>3, <2>9, <2>10, <2>11 DEF HasRoom
<1>5. CASE (Marie /\ (XbarClk \/ DevClk)) \/ UNCHANGED allVars
  <2>1. UNCHANGED <<top, queues, stash, phase>>
    BY <1>5 DEF Marie, XbarClk, DevClk, allVars, vars, cpuVars, busVars
  <2>2. top = "CPU" => UNCHANGED dmemResp
    BY <1>5 DEF Marie, allVars, vars, devVars
  <2>3. WritebackKeepsUp'
    BY <2>1 DEF HasRoom, WritebackKeepsUp, Holds
  <2>4. top = "CPU" => MemoryAnswers'
    BY <2>1, <2>2 DEF HasRoom, MemoryAnswers
  <2>5. top = "Marie" => NoCapabilityStores' /\ AdapterKeepsUp'
    BY <2>1 DEF HasRoom, NoCapabilityStores, AdapterKeepsUp, Holds, First
  <2> QED
    BY <1>1, <2>1, <2>3, <2>4, <2>5 DEF HasRoom
<1> QED
  BY <1>3, <1>4, <1>5 DEF SystemsNext, Next

(* No put of Decode, Execute, the adapter or the crossbar, and no answer   *)
(* of a device to a bus request, meets a full queue or a busy memory,      *)
(* though they are made without asking (src/examples/cpu_core.tbn,         *)
(* marie.tbn: puts in branches): for every program, save that those of     *)
(* Marie store no capabilities.  The bytes of the UART's own queues, which *)
(* the processor can fill at any time, are not among these puts.           *)
THEOREM PipelineAndBusHaveRoom ==
    ASSUME \A i \in Instructions : i.op # "sc"
    PROVE  Spec => []OnlyUartBytesAreDropped
<1>1. HasRoom /\ [SystemsNext]_allVars => HasRoom'
  BY NextKeepsRoom
<1>2. Spec => []HasRoom
  BY <1>1, InitRoom, PTL DEF Spec
<1> QED
  BY <1>2, RoomIsLeft, PTL

=============================================================================
