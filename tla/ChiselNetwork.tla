--------------------------- MODULE ChiselNetwork ----------------------------
(***************************************************************************)
(* The hardware the Chisel back end makes of a process network             *)
(* (src/src/lower_chisel.rs), clock cycle by clock cycle, next to the      *)
(* SystemVerilog of module RuleNetwork.  A Chisel module is a list of      *)
(* connections, of which the last one to a wire counts: the defaults, the  *)
(* rules in the order of their schedules, each inside when (will_fire),    *)
(* and the deq_ready of the queues.                                        *)
(*                                                                         *)
(* Initial tokens are not emitted: the two back ends are compared from the *)
(* same contents of queues and Cells.                                      *)
(***************************************************************************)
EXTENDS RuleNetwork, SequencesExt

(* Wires: <<"c", cell>>, <<"enq_valid", queue>>, <<"enq_bits", queue>> and *)
(* <<"deq_ready", queue>>.                                                 *)
Wires(kind, edges) == {<<kind, e>> : e \in edges}

Driving(wires, value) == [w \in wires |-> value]

(* Connections made later, and the earlier ones to other wires. *)
Over(later, earlier) ==
    [w \in DOMAIN later \union DOMAIN earlier |->
        IF w \in DOMAIN later THEN later[w] ELSE earlier[w]]

-----------------------------------------------------------------------------
(* emit_rule_enables *)

chisel_can_fire(s, id) ==
    LET rule == RuleAt(id)
        conditions == {deq_valid(s, q) : q \in Takes(rule) \intersect Queues(net)}
                        \union {enq_ready(s, q) : q \in rule.top.puts \intersect Queues(net)}
    IN  FALSE \notin conditions

(* Down the slots of the schedule, the first with a rule that can fire     *)
(* suppresses all that come after it.                                      *)
chisel_will_fire(s, p) ==
    FoldLeft(LAMBDA higher, slot :
                 IF higher # {} THEN higher ELSE {r \in slot : chisel_can_fire(s, <<p, r>>)},
             {}, groups[p])

ChiselFiring(s) == UNION {{p} \X chisel_will_fire(s, p) : p \in Procs(net)}

-----------------------------------------------------------------------------
(* Connections.                                                            *)

(* Queues taken from with try_take and never with take. *)
try_take_only_edges ==
    (UNION {TryTakes(r) : r \in AllRules(net)}) \ (UNION {Takes(r) : r \in AllRules(net)})

emit_defaults(s) ==
    LET idle == Wires("enq_valid", Queues(net)) \union Wires("deq_ready", try_take_only_edges)
    IN  Over([w \in Wires("c", Cells(net)) |-> s.cell[w[2]]],
             Over(Driving(idle, FALSE), Driving(Wires("enq_bits", Queues(net)), 0)))

PutConnections(s, f, id) ==
    LET puts == Writes(id, f[id])
        written == Wires("c", puts \intersect Cells(net)) \union Wires("enq_bits", puts \intersect Queues(net))
    IN  Over([w \in written |-> Output(s, id, f[id], w[2])],
             Driving(Wires("enq_valid", puts \intersect Queues(net)), TRUE))

(* The Some arm of a match on try_take reads the queue. *)
MatchConnections(f, id) == Driving(Wires("deq_ready", f[id].some), TRUE)

(* Rules in the order they are emitted. *)
RuleOrder ==
    LET slot(p, rules) == SetToSeq({p} \X rules)
        process(p) == FlattenSeq([k \in DOMAIN groups[p] |-> slot(p, groups[p][k])])
    IN  FlattenSeq([k \in 1 .. Cardinality(Procs(net)) |-> process(SetToSeq(Procs(net))[k])])

emit_rule_logic(s, f, wires) ==
    FoldLeft(LAMBDA w, id :
                 IF id \in DOMAIN f THEN Over(PutConnections(s, f, id), Over(MatchConnections(f, id), w))
                 ELSE w,
             wires, RuleOrder)

(* Mutant of emit_deq_ready_wiring: queues that are only tried are wired   *)
(* as well, after the Some arms.                                           *)
MutWireTried(f, wires) ==
    Over([w \in Wires("deq_ready", Queues(net)) |->
             \E id \in DOMAIN f : w[2] \in Takes(RuleAt(id))], wires)

(* What a rule takes from, in any branch, is ready when the rule fires. *)
emit_deq_ready_wiring(f, wires) ==
    Over([w \in Wires("deq_ready", Queues(net) \ try_take_only_edges) |->
             \E id \in DOMAIN f : w[2] \in Takes(RuleAt(id))], wires)

ChiselWires(s, f) == emit_deq_ready_wiring(f, emit_rule_logic(s, f, emit_defaults(s)))

-----------------------------------------------------------------------------
(* chisel3.util.Queue: both sides are a handshake. *)
ChiselQueueAfter(s, wires, q) ==
    LET left == IF wires[<<"deq_ready", q>>] /\ deq_valid(s, q) THEN Tail(s.queue[q])
                ELSE s.queue[q]
    IN  IF wires[<<"enq_valid", q>>] /\ enq_ready(s, q) THEN Append(left, wires[<<"enq_bits", q>>])
        ELSE left

ChiselAfter(s, f) ==
    LET wires == ChiselWires(s, f)
    IN  [queue |-> [q \in Queues(net) |-> ChiselQueueAfter(s, wires, q)],
         cell  |-> [c \in Cells(net) |-> wires[<<"c", c>>]]]

(* The two back ends make the same hardware: from the same contents they   *)
(* fire the same rules, and leave the same contents along the same paths.  *)
BackEndsAgree ==
    \A env \in Environments :
        /\ ChiselFiring(Now(env)) = Firing(Now(env))
        /\ \A f \in Followed(Now(env)) : ChiselAfter(Now(env), f) = After(Now(env), f)

=============================================================================
