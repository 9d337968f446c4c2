-------------------------- MODULE ExampleNetworks ---------------------------
(***************************************************************************)
(* Process networks of the repository's examples and tests, in the form of *)
(* module DeadlockAnalysis, for the runs of RuleNetwork.                   *)
(***************************************************************************)
EXTENDS DeadlockAnalysis, TLC

Take(q) == [NoAccess EXCEPT !.takes = {q}]
Put(q)  == [NoAccess EXCEPT !.puts = {q}]
Straight(body) == [top |-> body, paths |-> {}]
Branching(body, paths) == [top |-> body, paths |-> paths]

TakesPuts(ins, outs) == [NoAccess EXCEPT !.takes = ins, !.puts = outs]

Fifo(src, dst, depth, init) ==
    [src |-> src, dst |-> dst, depth |-> depth, init |-> init, async |-> FALSE]
StateCell(owner) == [owner |-> owner, init |-> TRUE]
NoCells == [c \in {} |-> StateCell(c)]
Only(rule) == 0 :> rule

-----------------------------------------------------------------------------
(* Router, Source, SinkHigh and SinkLow of the branch example, as it is    *)
(* and with a Router whose outputs are external queues.                    *)
Router == Branching(Take("data"), {Put("hi"), Put("lo")})

Branch ==
    [rules  |-> "Source"   :> Only(Straight(Put("data")))
             @@ "Router"   :> Only(Router)
             @@ "SinkHigh" :> Only(Straight(Take("hi")))
             @@ "SinkLow"  :> Only(Straight(Take("lo"))),
     queues |-> "data" :> Fifo("Source", "Router", 2, 0)
             @@ "hi"   :> Fifo("Router", "SinkHigh", 2, 0)
             @@ "lo"   :> Fifo("Router", "SinkLow", 2, 0),
     cells  |-> NoCells]

RouterToOutside ==
    [rules  |-> "Source" :> Only(Straight(Put("data"))) @@ "Router" :> Only(Router),
     queues |-> "data" :> Fifo("Source", "Router", 2, 0)
             @@ "hi"   :> Fifo("Router", "_Ext_hi", 1, 0)
             @@ "lo"   :> Fifo("Router", "_Ext_lo", 1, 0),
     cells  |-> NoCells]

(* Two conflicting rules on one Cell. *)
Update(c) == TakesPuts({c}, {c})

Priority ==
    [rules  |-> "Counter" :> (0 :> Straight(Update("count")) @@ 1 :> Straight(Update("count"))),
     queues |-> [q \in {} |-> q],
     cells  |-> "count" :> StateCell("Counter")]

(* Reader peeks the Cell that Writer updates. *)
PeekPair ==
    [rules  |-> "Writer" :> Only(Straight(Update("reg")))
             @@ "Reader" :> Only(Straight([NoAccess EXCEPT !.peeks = {"reg"}])),
     queues |-> [q \in {} |-> q],
     cells  |-> "reg" :> StateCell("Writer")]

ProducerConsumer ==
    [rules  |-> "Producer" :> Only(Straight(Put("q"))) @@ "Consumer" :> Only(Straight(Take("q"))),
     queues |-> "q" :> Fifo("Producer", "Consumer", 4, 0),
     cells  |-> NoCells]

-----------------------------------------------------------------------------
(* The rings of the deadlock tests; depths and initial tokens vary.        *)
TwoRing(depth1, init1, depth2, init2) ==
    [rules  |-> "A" :> Only(Straight(TakesPuts({"q2"}, {"q1"})))
             @@ "B" :> Only(Straight(TakesPuts({"q1"}, {"q2"}))),
     queues |-> "q1" :> Fifo("A", "B", depth1, init1) @@ "q2" :> Fifo("B", "A", depth2, init2),
     cells  |-> NoCells]

ThreeRing(depth, init1, init2, init3) ==
    [rules  |-> "A" :> Only(Straight(TakesPuts({"q3"}, {"q1"})))
             @@ "B" :> Only(Straight(TakesPuts({"q1"}, {"q2"})))
             @@ "C" :> Only(Straight(TakesPuts({"q2"}, {"q3"}))),
     queues |-> "q1" :> Fifo("A", "B", depth, init1)
             @@ "q2" :> Fifo("B", "C", depth, init2)
             @@ "q3" :> Fifo("C", "A", depth, init3),
     cells  |-> NoCells]

(* Ping and Pong: Ping's Cell has an initial value, the queues do not.     *)
PingPong ==
    [rules  |-> "Ping" :> Only(Straight(TakesPuts({"token", "q2"}, {"q1", "token"})))
             @@ "Pong" :> Only(Straight(TakesPuts({"q1"}, {"q2"}))),
     queues |-> "q1" :> Fifo("Ping", "Pong", 1, 0) @@ "q2" :> Fifo("Pong", "Ping", 1, 0),
     cells  |-> "token" :> StateCell("Ping")]

=============================================================================
