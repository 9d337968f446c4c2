--------------------------- MODULE MCRuleNetwork ----------------------------
(***************************************************************************)
(* Instances of RuleNetwork for TLC: the networks of the examples and of   *)
(* the deadlock tests, and two families: two processes P and Q, with a     *)
(* queue in each direction and a Cell each, that the other one peeks, P of *)
(* one or two rules of a menu and Q of one; and P alone, of three rules,   *)
(* between external queues.                                                *)
(***************************************************************************)
EXTENDS ChiselNetwork, ExampleNetworks

SomeThen(q, puts) == [NoAccess EXCEPT !.some = {q}, !.puts = puts]
NoneThen(q, puts) == [NoAccess EXCEPT !.none = {q}, !.puts = puts]
PeekThen(c, body) == [body EXCEPT !.peeks = {c}]

(* in, out: the queues of the process; own, other: its Cell and the peeked *)
Menu(in, out, own, other) ==
    {Straight(Put(out)),
     Straight(TakesPuts({in}, {out})),
     Straight(TakesPuts({in, own}, {own})),
     Straight(PeekThen(other, Update(own))),
     Straight(PeekThen(other, Put(out))),
     Branching(Take(in), {Put(out), NoAccess}),
     Branching(NoAccess, {Take(in), NoAccess}),
     Branching(Take(own), {SomeThen(in, {own}), NoneThen(in, {own, out})}),
     Branching(NoAccess, {SomeThen(in, {out}), NoneThen(in, {})})}

(* An edge is taken from either with take or with try_take: the back end   *)
(* drives its deq_ready in one of the two ways only.                       *)
OneKindOfTake(rules) ==
    UNION {Takes(r) : r \in rules} \intersect UNION {TryTakes(r) : r \in rules} = {}

MenuP == Menu("y", "x", "c", "d")
MenuQ == Menu("x", "y", "d", "c")

TwoProcesses(rulesP, ruleQ, depth, init) ==
    [rules  |-> "P" :> rulesP @@ "Q" :> Only(ruleQ),
     queues |-> "x" :> Fifo("P", "Q", depth, 0) @@ "y" :> Fifo("Q", "P", 2, init),
     cells  |-> "c" :> StateCell("P") @@ "d" :> StateCell("Q")]

Family ==
    {TwoProcesses(Only(r), s, depth, init) :
        r \in MenuP, s \in MenuQ, depth \in {1, 2}, init \in {0, 1}}
    \union
    {TwoProcesses(0 :> rs[1] @@ 1 :> rs[2], s, 1, 1) :
        rs \in {<<r1, r2>> \in MenuP \X MenuP : OneKindOfTake({r1, r2})}, s \in MenuQ}

(* P alone with an environment; c and d are both its own. *)
Alone(rulesP) ==
    [rules  |-> "P" :> rulesP,
     queues |-> "x" :> Fifo("P", "_Ext_x", 1, 0) @@ "y" :> Fifo("_Ext_y", "P", 1, 0),
     cells  |-> "c" :> StateCell("P") @@ "d" :> StateCell("P")]

(* Every process of three rules, with two more rules that write d.         *)
AloneFamily ==
    LET menu == MenuP \union {Straight(Update("d")), Straight(PeekThen("c", Update("d")))}
    IN  {Alone(0 :> rs[1] @@ 1 :> rs[2] @@ 2 :> rs[3]) :
            rs \in {<<r1, r2, r3>> \in menu \X menu \X menu : OneKindOfTake({r1, r2, r3})}}

(* Depth and init of a queue; no initial token in a queue of depth 1. *)
Sizes == {<<1, 0>>, <<2, 0>>, <<2, 1>>, <<2, 2>>, <<3, 2>>}

Rings ==
    {TwoRing(s[1], s[2], t[1], t[2]) : s, t \in Sizes}
    \union {ThreeRing(1, 0, 0, 0)}
    \union {ThreeRing(2, i1, i2, i3) : i1, i2, i3 \in 0 .. 2}

Examples == {Branch, RouterToOutside, Priority, PeekPair, ProducerConsumer, PingPong}

(* A number that tells what was read. *)
Sum(rule, path, e, read) == 1 + MapThenSumSet(LAMBDA r : read[r], DOMAIN read)

AllNetworks == Family \union AloneFamily \union Rings \union Examples
DeadlockTests == {PingPong, TwoRing(1, 0, 1, 0), TwoRing(1, 0, 2, 1)}
BranchNetworks == {Branch, RouterToOutside}

=============================================================================
