-------------------------- MODULE DeclaredNetworks ---------------------------
(***************************************************************************)
(* What the declarations of a pipe say, level by level, and what the       *)
(* network that elaboration makes of it must then be.                      *)
(***************************************************************************)
EXTENDS Elaboration

InstsOf(p)  == ToSet(program.pipes[p].insts)
QueuesOf(p) == ToSet(program.pipes[p].queues)

BoundPorts(inst)   == {b.port : b \in ToSet(inst.bind)}
TargetOf(inst, port) == (CHOOSE b \in ToSet(inst.bind) : b.port = port).target

(* <<node, port, queue or Cell>>, read off the bindings level by level.    *)
RECURSIVE Wires(_)
Wires(p) ==
    UNION {LET within(port) == IF port.name \in BoundPorts(inst) THEN TargetOf(inst, port.name)
                               ELSE <<inst.of, ".", port.name>>
               outside(q) == IF q \in {<<x>> : x \in BoundPorts(inst)} THEN TargetOf(inst, q[1])
                             ELSE <<inst.of>> \o q
           IN  IF inst.of \in Pipes
               THEN {<<<<inst.of>> \o x[1], x[2], outside(x[3])>> : x \in Wires(inst.of)}
               ELSE {<<<<inst.of>>, port.name, within(port)>> :
                        port \in ToSet(program.procs[inst.of].ports)}
           : inst \in InstsOf(p)}

(* <<node, its clock domain>>: the outermost annotation counts. *)
RECURSIVE Domains(_)
Domains(p) ==
    UNION {IF inst.of \in Pipes
           THEN {<<<<inst.of>> \o x[1], IF inst.domain # "" THEN inst.domain ELSE x[2]>> :
                    x \in Domains(inst.of)}
           ELSE {<<<<inst.of>>, inst.domain>>}
           : inst \in InstsOf(p)}

(* Nothing is instantiated, declared or bound twice, and the bindings of a *)
(* child pipe are from its queues to declared ones.                        *)
Plain(p) ==
    \A d \in WithChildren({p}) :
        /\ Cardinality({inst.of : inst \in InstsOf(d)}) = Len(program.pipes[d].insts)
        /\ Cardinality({q.name : q \in QueuesOf(d)}) = Len(program.pipes[d].queues)
        /\ \A inst \in InstsOf(d) :
              /\ Cardinality(BoundPorts(inst)) = Len(inst.bind)
              /\ inst.of \in Pipes => \A b \in ToSet(inst.bind) :
                    /\ b.port \in {q.name : q \in QueuesOf(inst.of)}
                    /\ b.target \in {<<q.name>> : q \in QueuesOf(d)}

KindOf(p, inst, port) ==
    LET ports == program.procs[inst.of].ports IN ports[PortNamed(ports, port)].kind

(* Nodes with a port of the given kind bound to edge e. *)
Users(nw, e, kind) ==
    {n \in DOMAIN nw.nodes : \E port \in ToSet(nw.nodes[n].ports) :
        port.kind = kind /\ port.bound = e}

Accepts == Elaborated /\ ~diagnostics

AcceptedPipes == IF Accepts THEN TopPipes ELSE {}

(* Queue edges of a network with one producer and one consumer in it. *)
PairedEdges(nw) ==
    {e \in DOMAIN nw.edges :
        /\ nw.edges[e].kind # "cell" /\ ~nw.edges[e].ext
        /\ Cardinality(Users(nw, e, "produces")) = 1
        /\ Cardinality(Users(nw, e, "consumes")) = 1
        /\ Users(nw, e, "state") = {}}

(* A queue that joins two child pipes gets both its ends from the first of *)
(* them, and one that joins a process of a child pipe to a pipe below it   *)
(* both from the process.                                                  *)
JoinsPipes(p) ==
    \/ \E i, j \in InstsOf(p) :
          /\ i # j /\ {i.of, j.of} \subseteq Pipes
          /\ {b.target : b \in ToSet(i.bind)} \intersect {b.target : b \in ToSet(j.bind)} # {}
    \/ \E c \in Children(p) : Children(c) # {}

-----------------------------------------------------------------------------
(* A pipe without children.                                                *)

Uses(p, q, kind) ==
    {x \in InstsOf(p) \X {b.port : b \in UNION {ToSet(i.bind) : i \in InstsOf(p)}} :
        x[2] \in BoundPorts(x[1]) /\ TargetOf(x[1], x[2]) = q /\ KindOf(p, x[1], x[2]) = kind}

(* The binding of a port is one its kind and type allow. *)
ProperBinding(p, inst, b) ==
    LET ports == program.procs[inst.of].ports
        k == PortNamed(ports, b.port)
    IN  /\ k # 0
        /\ IF Dotted(b.target)
           THEN /\ ports[k].kind = "peeks"
                /\ \E owner \in InstsOf(p) :
                      /\ owner.of = b.target[1]
                      /\ Last(b.target) \notin BoundPorts(owner)
                      /\ \E port \in ToSet(program.procs[owner.of].ports) :
                            port.kind = "state" /\ port.name = Last(b.target)
                      /\ program.pipes[p].domains # <<>> => owner.domain = inst.domain
           ELSE \E q \in QueuesOf(p) : b.target = <<q.name>> /\ ports[k].elem = q.elem

ProperQueue(p, q) ==
    LET producers == Uses(p, <<q.name>>, "produces")
        consumers == Uses(p, <<q.name>>, "consumes")
        ends == {x[1].domain : x \in producers \union consumers}
    IN  /\ q.kind = "async" => PowerOfTwo(q.depth)
        /\ Cardinality(producers) <= 1 /\ Cardinality(consumers) <= 1
        /\ q.ext \/ (producers # {} /\ consumers # {})
        /\ program.pipes[p].domains # <<>> /\ producers # {} /\ consumers # {} =>
              (Cardinality(ends) = 1) = (q.kind = "queue")

ProperFlatPipe(p) ==
    LET declared == program.pipes[p].domains IN
    /\ Cardinality(ToSet(declared)) = Len(declared)
    /\ \A inst \in InstsOf(p) :
          /\ inst.of \in Processes
          /\ inst.domain \in {""} \union ToSet(declared)
          /\ \A b \in ToSet(inst.bind) : ProperBinding(p, inst, b)
          /\ \A port \in ToSet(program.procs[inst.of].ports) :
                port.kind # "state" => port.name \in BoundPorts(inst)
    /\ \A q \in QueuesOf(p) : ProperQueue(p, q)

(* A state port bound to a queue takes the ends that are free then: which  *)
(* bindings are refused depends on their order.                            *)
NoStateOnQueues(p) ==
    \A inst \in InstsOf(p) : \A port \in BoundPorts(inst) :
        inst.of \in Processes =>
            \A x \in ToSet(program.procs[inst.of].ports) : x.name = port => x.kind # "state"

-----------------------------------------------------------------------------
(* In an accepted network every port is bound to the queue, or to the Cell,*)
(* that the bindings lead to level by level, through merging, renaming,    *)
(* replacing and renumbering.                                              *)
BoundAsDeclared ==
    \A p \in AcceptedPipes : Plain(p) =>
        LET nw == networks[p] IN
        {<<nw.nodes[x[1]].name, nw.nodes[x[1]].ports[x[2]].name,
           EdgeName(nw, nw.nodes[x[1]].ports[x[2]].bound)>> :
            x \in UNION {{n} \X DOMAIN nw.nodes[n].ports : n \in DOMAIN nw.nodes}}
        = Wires(p)

(* The edge of a queue goes from its producer to its consumer, which the   *)
(* deadlock check, the clocks of the FIFO and the check of domain crossings*)
(* rely on.                                                                *)
EdgesFollowTokens ==
    \A p \in AcceptedPipes : Plain(p) /\ ~JoinsPipes(p) =>
        LET nw == networks[p] IN
        \A e \in PairedEdges(nw) :
            /\ {nw.edges[e].src} = Users(nw, e, "produces")
            /\ {nw.edges[e].dst} = Users(nw, e, "consumes")

(* TOURBILLON.md, clock domains: a queue between two domains is an         *)
(* AsyncQueue, and no process peeks a Cell of another domain.              *)
NoUnsynchronisedCrossing ==
    \A p \in AcceptedPipes : Plain(p) /\ ~JoinsPipes(p) /\ program.pipes[p].domains # <<>> =>
        LET nw == networks[p]
            domain(n) == {x[2] : x \in {y \in Domains(p) : y[1] = nw.nodes[n].name}}
        IN  /\ \A e \in PairedEdges(nw) : nw.edges[e].kind = "queue" =>
                  \A n \in Users(nw, e, "produces"), m \in Users(nw, e, "consumes") :
                      domain(n) = domain(m)
            /\ \A e \in DOMAIN nw.edges : nw.edges[e].kind = "cell" =>
                  \A n \in Users(nw, e, "peeks") : domain(n) = domain(nw.edges[e].src)

(* A pipe without children is accepted exactly when each of its queues has *)
(* one producer and one consumer of its type and clock domain, and every   *)
(* port is bound to what its kind allows.                                  *)
FlatPipesAcceptedExactly ==
    \A p \in Pipes :
        Elaborated /\ Pipes = {p} /\ Children(p) = {} /\ Plain(p) /\ NoStateOnQueues(p) =>
            (~diagnostics <=> ProperFlatPipe(p))

=============================================================================
