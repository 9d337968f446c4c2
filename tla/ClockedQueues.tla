--------------------------- MODULE ClockedQueues ----------------------------
(***************************************************************************)
(* What an edge of a clock does to the queues of a design: a synchronous   *)
(* queue of depth 1 or more (tbn_fifo), and a queue between two clock      *)
(* domains (tbn_async_fifo) told by what each side knows of the other.     *)
(*                                                                         *)
(* A crossing holds its items, how many of them the reader's two           *)
(* synchroniser registers count, and how many places the reader has freed  *)
(* that the writer's two registers do not yet count.  It is the state of   *)
(* module AsyncFifo up to where in the storage the pointers are; run       *)
(* async_fifo checks the circuit's edges against them (StepsAsCrossing).      *)
(*                                                                         *)
(* An offer is <<>> or <<item>>.                                           *)
(***************************************************************************)
EXTENDS Naturals, Sequences

(* The queue judges room by what it held before the edge, and ignores an   *)
(* offer it has no room for.                                               *)
FifoAfter(items, depth, taken, offer) ==
    (IF taken THEN Tail(items) ELSE items) \o (IF Len(items) < depth THEN offer ELSE <<>>)

-----------------------------------------------------------------------------

EmptyCrossing ==
    [items |-> <<>>, seen1 |-> 0, seen2 |-> 0, hidden1 |-> 0, hidden2 |-> 0]

Readable(c)    == c.seen2 > 0
Room(c, depth) == Len(c.items) + c.hidden2 < depth

WriterEdge(c, depth, offer) ==
    [items   |-> IF Room(c, depth) THEN c.items \o offer ELSE c.items,
     seen1   |-> c.seen1, seen2   |-> c.seen2,
     hidden1 |-> 0,       hidden2 |-> c.hidden1]

(* Mutants of ReaderEdge: a synchroniser of one flip-flop; a view of the   *)
(* writer that a take does not bring down.                                 *)
MutOneFlop(c, take) ==
    LET taken == IF take /\ Readable(c) THEN 1 ELSE 0
    IN  [items   |-> SubSeq(c.items, taken + 1, Len(c.items)),
         seen1   |-> Len(c.items) - taken, seen2   |-> Len(c.items) - taken,
         hidden1 |-> c.hidden1 + taken,    hidden2 |-> c.hidden2 + taken]

MutViewKeepsTaken(c, take) ==
    LET taken == IF take /\ Readable(c) THEN 1 ELSE 0
    IN  [items   |-> SubSeq(c.items, taken + 1, Len(c.items)),
         seen1   |-> Len(c.items) - taken, seen2   |-> c.seen1,
         hidden1 |-> c.hidden1 + taken,    hidden2 |-> c.hidden2 + taken]

ReaderEdge(c, take) ==
    LET taken == IF take /\ Readable(c) THEN 1 ELSE 0
    IN  [items   |-> SubSeq(c.items, taken + 1, Len(c.items)),
         seen1   |-> Len(c.items) - taken, seen2   |-> c.seen1 - taken,
         hidden1 |-> c.hidden1 + taken,    hidden2 |-> c.hidden2 + taken]

=============================================================================
