-------------------------- MODULE DeadlockAnalysis --------------------------
(***************************************************************************)
(* The static deadlock check on a process network (src/src/deadlock.rs).   *)
(*                                                                         *)
(* A network is a record:                                                  *)
(*   rules    process |-> rule number (from 0) |-> rule, as in RuleSchedule *)
(*   queues   queue |-> [src, dst, depth, init, async]; the outer end of   *)
(*            an external queue, or of a memory port, is a stub: a node    *)
(*            that is none of the processes                                *)
(*   cells    cell |-> [owner, init]; init is TRUE when the declaration    *)
(*            has an initial value                                         *)
(***************************************************************************)
EXTENDS RuleSchedule, FiniteSets, FiniteSetsExt

Procs(net)  == DOMAIN net.rules
Queues(net) == DOMAIN net.queues
Cells(net)  == DOMAIN net.cells
Edges(net)  == Queues(net) \union Cells(net)

RulesOf(net, p) == {net.rules[p][i] : i \in DOMAIN net.rules[p]}
AllRules(net)   == UNION {RulesOf(net, p) : p \in Procs(net)}

(* Endpoints of an edge in the graph; a Cell is a self-loop of its owner.  *)
Ends(net, e) ==
    IF e \in Cells(net) THEN <<net.cells[e].owner, net.cells[e].owner>>
    ELSE <<net.queues[e].src, net.queues[e].dst>>

-----------------------------------------------------------------------------
(* classify_non_blocking_edges: no rule puts to the edge, and every rule   *)
(* that takes from it also try_takes from it.                              *)
NonBlocking(net) ==
    {e \in Edges(net) :
        \/ ~({Ends(net, e)[1], Ends(net, e)[2]} \subseteq Procs(net))
        \/ e \in Queues(net) /\ net.queues[e].async
        \/ \A rule \in AllRules(net) :
               e \notin Puts(rule) /\ (e \in Takes(rule) => e \in TryTakes(rule))}

(* Nodes that reach each other, through edges of either class.             *)
Reaches(net) ==
    LET nodes == Procs(net) \union {Ends(net, e)[k] : e \in Edges(net), k \in {1, 2}}
        direct == {<<n, n>> : n \in nodes} \union {Ends(net, e) : e \in Edges(net)}
        through(m, reaches) ==
            reaches \union {pair \in nodes \X nodes :
                                <<pair[1], m>> \in reaches /\ <<m, pair[2]>> \in reaches}
    IN  FoldSet(through, direct, nodes)

(* tarjan_scc *)
Components(net) ==
    LET reaches == Reaches(net) IN
    {{m \in Procs(net) : <<n, m>> \in reaches /\ <<m, n>> \in reaches} : n \in Procs(net)}

(* The blocking edges inside one strongly connected component.             *)
CycleEdges(net, component) ==
    {e \in Edges(net) \ NonBlocking(net) :
        Ends(net, e)[1] \in component /\ Ends(net, e)[2] \in component}

EdgeDepth(net, e) == IF e \in Cells(net) THEN 1 ELSE net.queues[e].depth

(* A Cell declared with an initial value counts as a token; of a queue the *)
(* number written after "init =" is counted.                               *)
CountedTokens(net, e) ==
    IF e \in Cells(net) THEN (IF net.cells[e].init THEN 1 ELSE 0)
    ELSE IF net.queues[e].async THEN 0 ELSE net.queues[e].init

TotalTokens(net, edges) == MapThenSumSet(LAMBDA e : CountedTokens(net, e), edges)
TotalDepth(net, edges)  == MapThenSumSet(LAMBDA e : EdgeDepth(net, e), edges)

(* Mutant of Accepted: tokens are not asked for.                           *)
MutAcceptedByDepth(net) ==
    \A component \in Components(net) :
        LET edges == CycleEdges(net, component) IN
        edges # {} => TotalDepth(net, edges) >= Cardinality(component)

(* analyze reports no error, and the compiler goes on to emit the design.  *)
Accepted(net) ==
    \A component \in Components(net) :
        LET edges == CycleEdges(net, component) IN
        edges # {} =>
            /\ TotalTokens(net, edges) > 0
            /\ TotalDepth(net, edges) >= Cardinality(component)

=============================================================================
