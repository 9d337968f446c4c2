---------------------------- MODULE Elaboration -----------------------------
(***************************************************************************)
(* Elaboration: the pipes of a program become process networks             *)
(* (src/src/elaborate.rs).  A pipe declares queues and instantiates        *)
(* processes and other pipes; the network of an instantiated pipe is       *)
(* merged into the one of the pipe that instantiates it, and the queues    *)
(* bound to it are then put in the place of its own.                       *)
(*                                                                         *)
(* A program is a record:                                                  *)
(*   procs   process |-> [ports, rules, memory]; a port is [name, kind,    *)
(*           elem, size, init], kind "consumes", "produces", "state" or    *)
(*           "peeks", size 0 for a port that is no array; memory marks the *)
(*           stubs the compiler makes of Memory declarations               *)
(*   pipes   pipe |-> [queues, memories, domains, insts]; a queue is       *)
(*           [name, elem, kind, depth, init, ext], kind "queue" or "async",*)
(*           depth 0 when it is not given, and the async queues come last; *)
(*           an instance is [of, domain, bind], domain "" when it has no   *)
(*           annotation, with bindings [port, target]                      *)
(* and no two pipes instantiate each other: elaborating them would not end.*)
(*                                                                         *)
(* A generated name is the sequence of its parts, Cpu_alu is               *)
(* <<"Cpu", "alu">> and Cpu.pc is <<"Cpu", ".", "pc">>: no declared name   *)
(* is taken to contain the name of another.  A node or edge is known by    *)
(* its position; a port that is not bound has 0 for its edge.              *)
(***************************************************************************)
EXTENDS Naturals, FiniteSets, SequencesExt

CONSTANT Programs  \* the programs considered

(* Names are made of declared names, and of what elaboration puts between. *)
Parts == STRING \union {".", "_", "_Ext"}
Names == Seq(Parts)

PortDecls  == [name : STRING, kind : STRING, elem : Names, size : Nat, init : Nat]
QueueDecls == [name : STRING, elem : Names, kind : STRING, depth : Nat, init : Nat, ext : BOOLEAN]
InstDecls  == [of : STRING, domain : STRING, bind : Seq([port : STRING, target : Names])]

(* What the parser makes of every program; no name is empty. *)
IsProgram(prog) ==
    /\ DOMAIN prog.pipes \subseteq STRING \ {""}
    /\ \A p \in DOMAIN prog.procs :
          prog.procs[p].ports \in Seq(PortDecls) /\ prog.procs[p].memory \in BOOLEAN
    /\ \A p \in DOMAIN prog.pipes :
          /\ prog.pipes[p].queues \in Seq(QueueDecls)
          /\ prog.pipes[p].domains \in Seq(STRING)
          /\ prog.pipes[p].insts \in Seq(InstDecls)

ASSUME ProgramsAssumption == \A prog \in Programs : IsProgram(prog)

VARIABLES
    program,      \* the program compiled; it never changes
    networks,     \* pipe |-> network or Failed, of the pipes elaborated
    diagnostics,  \* whether anything has been reported
    pipe,         \* the pipe being elaborated, "" between two
    phase,        \* what is being done for it
    turn,         \* turn of the loop of that phase
    work          \* its network so far, and the maps kept on the way

elaborationVars == <<program, networks, diagnostics, pipe, phase, turn, work>>

None   == <<>>
Failed == [failed |-> TRUE]

Dotted(name) == "." \in ToSet(name)

(* The network under construction.  A node is [name, process, ports, stub],*)
(* an edge [name, src, dst, elem, kind, depth, init, ext, peekers], with   *)
(* kind "cell" for a self-loop of a state port.                            *)
Blank ==
    [nodes |-> <<>>, edges |-> <<>>,
     instances |-> <<>>,      \* instance |-> node
     childDomains |-> <<>>,   \* instance of a child pipe |-> domain
     domainMap |-> <<>>,      \* instance |-> domain, "" for the default one
     subs |-> <<>>,           \* <<edge of a child, queue bound to it>>
     pending |-> <<>>,        \* queue |-> [edge, data, writer, reader]
     queueEdge |-> <<>>,      \* queue |-> edge
     dead |-> {},             \* edges to remove
     failed |-> FALSE, warned |-> FALSE]

-----------------------------------------------------------------------------
(* Which pipes are elaborated: those no pipe instantiates, and below them  *)
(* all they instantiate.  A pipe that instantiates itself is no top pipe.  *)

Pipes     == DOMAIN program.pipes
Processes == DOMAIN program.procs

Children(p) == {program.pipes[p].insts[i].of : i \in DOMAIN program.pipes[p].insts} \intersect Pipes
TopPipes    == Pipes \ UNION {Children(p) : p \in Pipes}

(* The pipes ps and all they instantiate, down to the last. *)
WithChildren(ps) ==
    LET closed(S) == ps \subseteq S /\ \A p \in S : Children(p) \subseteq S
    IN  {p \in Pipes : \A S \in SUBSET Pipes : closed(S) => p \in S}

insts       == program.pipes[pipe].insts
queueDecls  == program.pipes[pipe].queues
domainDecls == program.pipes[pipe].domains
allow_dangling == pipe \notin TopPipes

Elaborated == phase = "idle" /\ WithChildren(TopPipes) \subseteq DOMAIN networks

-----------------------------------------------------------------------------
(* Helpers on the network under construction.                              *)

(* f, and what g says where f says nothing. *)
Over(f, g) == [x \in DOMAIN f \union DOMAIN g |-> IF x \in DOMAIN f THEN f[x] ELSE g[x]]

With(f, x, value) == Over([y \in {x} |-> value], f)

Error(w) == [w EXCEPT !.failed = TRUE]

(* The second instance of a process is stored under a suffixed name, and   *)
(* found under the plain one.  The suffix is the number of the instance.   *)
Numbered(of, i) == <<of>> \o [k \in 1 .. i - 1 |-> "_"]

Suffixed(w, of, i) == IF <<of>> \in DOMAIN w.instances THEN Numbered(of, i) ELSE <<of>>

find_instance_name(w, of, i) ==
    IF <<of>> \in DOMAIN w.instances THEN <<of>>
    ELSE IF Numbered(of, i) \in DOMAIN w.instances THEN Numbered(of, i)
    ELSE None

NodeNamed(w, name) == IF name \in DOMAIN w.instances THEN w.instances[name] ELSE 0
EdgeNamed(w, name) == SelectInSeq(w.edges, LAMBDA e : e.name = name)
PortNamed(ports, name) == SelectInSeq(ports, LAMBDA p : p.name = name)

BindPort(w, node, port, edge) ==
    LET k == PortNamed(w.nodes[node].ports, port)
    IN  IF k = 0 THEN w ELSE [w EXCEPT !.nodes[node].ports[k].bound = edge]

(* Every port bound to one of the edges old is bound to edge new instead.  *)
Rebind(w, old, new) ==
    LET moved(port) == IF port.bound \in old THEN [port EXCEPT !.bound = new] ELSE port
        node(x) == [x EXCEPT !.ports = [k \in DOMAIN x.ports |-> moved(x.ports[k])]]
    IN  [w EXCEPT !.nodes = [n \in DOMAIN w.nodes |-> node(w.nodes[n])]]

(* The edge of queue q, from node src to node dst. *)
AddQueueEdge(w, q, src, dst) ==
    [w EXCEPT !.edges = Append(@, [w.pending[q].data EXCEPT !.src = src, !.dst = dst]),
              !.queueEdge = With(@, q, Len(w.edges) + 1)]

-----------------------------------------------------------------------------
(* Phases 1 and 2: nodes.                                                  *)

AddProcess(w, i) ==
    LET name  == Suffixed(w, insts[i].of, i)
        unbound(port) == [name |-> port.name, kind |-> port.kind, bound |-> 0]
        ports == program.procs[insts[i].of].ports
        node  == [name |-> name, process |-> insts[i].of, stub |-> program.procs[insts[i].of].memory,
                  ports |-> [k \in DOMAIN ports |-> unbound(ports[k])]]
    IN  [w EXCEPT !.nodes = Append(@, node),
                  !.instances = With(@, name, Len(w.nodes) + 1)]

(* The network of a child pipe: all of it, renamed and renumbered.         *)
MergeChild(w, i) ==
    LET child  == networks[insts[i].of]
        prefix == Suffixed(w, insts[i].of, i)
        n == Len(w.nodes)
        e == Len(w.edges)
        port(p) == [p EXCEPT !.bound = IF p.bound = 0 THEN 0 ELSE p.bound + e]
        node(x) == [x EXCEPT !.name = prefix \o x.name,
                             !.ports = [k \in DOMAIN x.ports |-> port(x.ports[k])]]
        edge(x) == [x EXCEPT !.name = prefix \o x.name, !.src = x.src + n, !.dst = x.dst + n,
                             !.peekers = [k \in DOMAIN x.peekers |-> prefix \o x.peekers[k]]]
        domain(name) == IF insts[i].domain # "" THEN insts[i].domain ELSE child.domainMap[name]
        renamed(f, Value(_)) ==
            [name \in {prefix \o x : x \in DOMAIN f} |->
                Value(CHOOSE x \in DOMAIN f : prefix \o x = name)]
    IN  [w EXCEPT
            !.nodes = @ \o [k \in DOMAIN child.nodes |-> node(child.nodes[k])],
            !.edges = @ \o [k \in DOMAIN child.edges |-> edge(child.edges[k])],
            !.instances = Over(renamed(child.instances, LAMBDA x : child.instances[x] + n), @),
            !.childDomains = Over(renamed(child.domainMap, domain), @),
            !.subs = @ \o [b \in DOMAIN insts[i].bind |->
                              <<Append(prefix, insts[i].bind[b].port), insts[i].bind[b].target>>]]

(* A pipe must not instantiate itself, nor a pipe that has failed.         *)
AddInstance(w, i) ==
    LET of == insts[i].of IN
    CASE of \in Pipes /\ (of = pipe \/ networks[of] = Failed) -> Error(w)
      [] of \in Pipes /\ of # pipe /\ networks[of] # Failed -> MergeChild(w, i)
      [] of \in Processes \ Pipes -> AddProcess(w, i)
      [] OTHER -> Error(w)

-----------------------------------------------------------------------------
(* Clock domains of the instances.  The annotation on an instance of a     *)
(* pipe is not looked up in the declarations.                              *)

CollectDomains(w) ==
    LET name(i) == find_instance_name(w, insts[i].of, i)
        found   == {i \in DOMAIN insts : name(i) # None}
        unknown == {i \in found : insts[i].domain \notin {""} \union ToSet(domainDecls)}
        last(x) == Max({i \in found \ unknown : name(i) = x})
        own     == [x \in {name(i) : i \in found \ unknown} |-> insts[last(x)].domain]
    IN  [w EXCEPT !.domainMap = Over(w.childDomains, own),
                  !.failed = \/ @ \/ unknown # {}
                             \/ Cardinality(ToSet(domainDecls)) < Len(domainDecls)]

-----------------------------------------------------------------------------
(* Phase 3: queues, self-loops and bindings.                               *)

PowerOfTwo(d) == \E k \in 0 .. d : 2^k = d

DeclareQueue(w, k) ==
    LET decl == queueDecls[k]
        data == [name |-> <<decl.name>>, src |-> 0, dst |-> 0, elem |-> decl.elem,
                 kind |-> decl.kind, depth |-> IF decl.depth = 0 THEN 1 ELSE decl.depth,
                 init |-> decl.init, ext |-> decl.ext, peekers |-> <<>>]
    IN  IF decl.kind = "async" /\ ~PowerOfTwo(decl.depth) THEN Error(w)
        ELSE [w EXCEPT !.pending = With(@, <<decl.name>>,
                 [edge |-> 0, data |-> data, writer |-> None, reader |-> None])]

(* A state port without a binding has a Cell of its own, a self-loop.      *)
SelfLoop(w, name, port) ==
    LET loop == name \o <<".", port.name>>
        node == w.instances[name]
        edge == Len(w.edges) + 1
        data == [name |-> loop, src |-> node, dst |-> node, elem |-> port.elem,
                 kind |-> "cell", depth |-> 1, init |-> port.init, ext |-> FALSE, peekers |-> <<>>]
        added == [w EXCEPT !.edges = Append(@, data),
                           !.pending = With(@, loop, [edge |-> edge, data |-> data,
                                                      writer |-> name, reader |-> name])]
    IN  BindPort(added, node, port.name, edge)

SelfLoops(w, i) ==
    LET name  == find_instance_name(w, insts[i].of, i)
        bound == {insts[i].bind[b].port : b \in DOMAIN insts[i].bind}
        loop(x, port) ==
            IF port.kind = "state" /\ port.name \notin bound THEN SelfLoop(x, name, port) ELSE x
    IN  IF name = None \/ insts[i].of \notin Processes THEN w
        ELSE FoldLeft(loop, w, program.procs[insts[i].of].ports)

(* A peeks port bound to the state port of another instance.               *)
BindPeek(w, name, port, target) ==
    LET owner == SubSeq(target, 1, Len(target) - 2)
        ref   == NodeNamed(w, owner)
        state(p) == p.name = Last(target) /\ p.kind = "state"
        edge  == IF target \in DOMAIN w.pending THEN w.pending[target].edge ELSE 0
    IN  IF \/ port.kind # "peeks"
           \/ ref = 0
           \/ w.nodes[ref].process \notin Processes
           \/ ~ \E p \in ToSet(program.procs[w.nodes[ref].process].ports) : state(p)
        THEN Error(w)
        ELSE IF edge = 0 THEN w
        ELSE BindPort([w EXCEPT !.edges[edge].peekers = Append(@, name)],
                      w.instances[name], port.name, edge)

Empty(w, q, end) == w.pending[q][end] = None

Claim(w, q, end, name) == [w EXCEPT !.pending[q][end] = name]

(* Mutant of JoinQueue: a second writer takes the place of the first.      *)
MutJoinAnyWriter(w, q, name, kind) ==
    CASE kind = "produces" -> Claim(w, q, "writer", name)
      [] kind = "consumes" -> IF Empty(w, q, "reader") THEN Claim(w, q, "reader", name) ELSE Error(w)
      [] OTHER -> w

(* A producer is the writer of its queue and a consumer the reader; a      *)
(* state port takes the ends that are free; a peeks port is nothing to it. *)
JoinQueue(w, q, name, kind) ==
    CASE kind = "produces" -> IF Empty(w, q, "writer") THEN Claim(w, q, "writer", name) ELSE Error(w)
      [] kind = "consumes" -> IF Empty(w, q, "reader") THEN Claim(w, q, "reader", name) ELSE Error(w)
      [] kind = "state" ->
            LET v == IF Empty(w, q, "writer") THEN Claim(w, q, "writer", name) ELSE w
            IN  IF Empty(v, q, "reader") THEN Claim(v, q, "reader", name) ELSE v
      [] OTHER -> w

WireBinding(w, i, b) ==
    LET name   == find_instance_name(w, insts[i].of, i)
        ports  == program.procs[insts[i].of].ports
        k      == PortNamed(ports, b.port)
    IN  IF k = 0 THEN Error(w)
        ELSE IF Dotted(b.target) THEN BindPeek(w, name, ports[k], b.target)
        ELSE IF \/ b.target \notin DOMAIN w.pending
                \/ ports[k].elem # w.pending[b.target].data.elem
        THEN Error(w)
        ELSE JoinQueue(w, b.target, name, ports[k].kind)

WireInstance(w, i) ==
    IF find_instance_name(w, insts[i].of, i) = None \/ insts[i].of \notin Processes THEN w
    ELSE FoldLeft(LAMBDA x, b : WireBinding(x, i, b), w, insts[i].bind)

-----------------------------------------------------------------------------
(* Phase 4: edges.                                                         *)

(* The outside of an external queue is a node without rules or ports. *)
AddStub(w, q) ==
    LET name == <<"_Ext">> \o q IN
    [w EXCEPT !.nodes = Append(@, [name |-> name, process |-> "_Ext", stub |-> TRUE, ports |-> <<>>]),
              !.instances = With(@, name, Len(w.nodes) + 1)]

(* A queue with one end: in a child pipe it is a self-loop for now.        *)
CreateEdge(w, k) ==
    LET q   == <<queueDecls[k].name>>
        src == NodeNamed(w, w.pending[q].writer)
        dst == NodeNamed(w, w.pending[q].reader)
        end == IF src # 0 THEN src ELSE dst
        stub == Len(w.nodes) + 1
    IN  CASE end = 0 -> w
          [] src # 0 /\ dst # 0 -> AddQueueEdge(w, q, src, dst)
          [] end # 0 /\ 0 \in {src, dst} /\ allow_dangling -> AddQueueEdge(w, q, end, end)
          [] end # 0 /\ 0 \in {src, dst} /\ ~allow_dangling /\ w.pending[q].data.ext ->
                IF dst = 0 THEN AddQueueEdge(AddStub(w, q), q, src, stub)
                           ELSE AddQueueEdge(AddStub(w, q), q, stub, dst)
          [] OTHER -> w

(* Mutant of Inherit: an end the queue already has is replaced.            *)
MutInheritAlways(w, q, edge) ==
    Claim(Claim(w, q, "writer", w.nodes[w.edges[edge].src].name),
          q, "reader", w.nodes[w.edges[edge].dst].name)

(* The ends a queue lacks are those of an edge of a child. *)
Inherit(w, q, edge) ==
    LET end(x, which, n) ==
            IF Empty(x, q, which) THEN Claim(x, q, which, w.nodes[n].name) ELSE x
    IN  end(end(w, "writer", w.edges[edge].src), "reader", w.edges[edge].dst)

(* Mutant of Substitute: the ports stay with the child's edge.             *)
MutSubstituteEndsOnly(w, k) ==
    LET edge == EdgeNamed(w, w.subs[k][1])
        q    == w.subs[k][2]
    IN  IF edge = 0 \/ q \in DOMAIN w.queueEdge \/ q \notin DOMAIN w.pending THEN w
        ELSE Inherit(w, q, edge)

(* The queue a child's queue is bound to: its edge takes over the ports of *)
(* the child's edge; while it has none, it inherits the ends of that edge. *)
Substitute(w, k) ==
    LET edge == EdgeNamed(w, w.subs[k][1])
        q    == w.subs[k][2]
    IN  IF edge = 0 THEN w
        ELSE IF q \in DOMAIN w.queueEdge THEN Rebind(w, {edge}, w.queueEdge[q])
        ELSE IF q \notin DOMAIN w.pending THEN w
        ELSE Inherit(w, q, edge)

(* The edges of the queues that have both ends now. *)
Recreate(w, k) ==
    LET q   == <<queueDecls[k].name>>
        src == NodeNamed(w, w.pending[q].writer)
        dst == NodeNamed(w, w.pending[q].reader)
        replaced == {EdgeNamed(w, w.subs[n][1]) : n \in {m \in DOMAIN w.subs : w.subs[m][2] = q}}
    IN  IF q \in DOMAIN w.queueEdge \/ src = 0 \/ dst = 0 THEN w
        ELSE Rebind(AddQueueEdge(w, q, src, dst), replaced \ {0}, Len(w.edges) + 1)

Referenced(w) ==
    UNION {{port.bound : port \in ToSet(w.nodes[n].ports)} : n \in DOMAIN w.nodes}

(* The edges that were replaced and are bound to no port. *)
FindDead(w) ==
    LET replaced == {w.subs[k][1] : k \in DOMAIN w.subs}
    IN  [w EXCEPT !.dead = {e \in DOMAIN w.edges : w.edges[e].name \in replaced} \ Referenced(w)]

(* Mutants of RemoveEdge: the ports, or the queues, do not follow the edge *)
(* that is moved.                                                          *)
MutRemoveEdgeOnly(w, e) ==
    [w EXCEPT !.edges = Front(ReplaceAt(@, e, @[Len(w.edges)])), !.dead = @ \ {e}]
MutRemoveEdgeOfPorts(w, e) == Rebind(MutRemoveEdgeOnly(w, e), {Len(w.edges)}, e)

(* Removing an edge moves the last one into its place, where the ports and *)
(* the queue that had it must follow it.                                   *)
RemoveEdge(w, e) ==
    LET last    == Len(w.edges)
        removed == [w EXCEPT !.edges = Front(ReplaceAt(@, e, @[last])), !.dead = @ \ {e}]
        moved   == {q \in DOMAIN w.queueEdge : w.queueEdge[q] = last}
        followed == Rebind(removed, {last}, e)
    IN  IF e = last THEN removed
        ELSE IF moved = {} THEN followed
        ELSE [followed EXCEPT !.queueEdge[CHOOSE q \in moved : TRUE] = e]

(* The ports of the instances, and not of their children's, are bound. *)
BindDeferred(w, i) ==
    LET name  == find_instance_name(w, insts[i].of, i)
        node  == w.instances[name]
        bind  == insts[i].bind
        ports == w.nodes[node].ports
        for(k) == {b \in DOMAIN bind : /\ PortNamed(ports, bind[b].port) = k
                                       /\ ~Dotted(bind[b].target)
                                       /\ bind[b].target \in DOMAIN w.queueEdge}
        bound(k) == IF ports[k].bound = 0 /\ for(k) # {} THEN w.queueEdge[bind[Min(for(k))].target]
                    ELSE ports[k].bound
    IN  IF name = None THEN w
        ELSE [w EXCEPT !.nodes[node].ports =
                 [k \in DOMAIN ports |-> [ports[k] EXCEPT !.bound = bound(k)]]]

-----------------------------------------------------------------------------
(* Checks on the finished network.                                         *)

Unbound(w, i) ==
    LET name == find_instance_name(w, insts[i].of, i) IN
    /\ name # None
    /\ \E p \in ToSet(w.nodes[w.instances[name]].ports) : p.kind # "state" /\ p.bound = 0

(* A queue of a child pipe may lack an end. *)
LacksEnd(w, q) ==
    /\ ~Dotted(q) /\ ~allow_dangling /\ ~w.pending[q].data.ext
    /\ Empty(w, q, "writer") \/ Empty(w, q, "reader")

CheckWiring(w) ==
    IF \/ \E i \in DOMAIN insts : Unbound(w, i)
       \/ \E q \in DOMAIN w.pending : LacksEnd(w, q)
    THEN Error(w) ELSE w

DomainIn(w, name) == IF name \in DOMAIN w.domainMap THEN w.domainMap[name] ELSE ""

NodeDomain(w, n) == DomainIn(w, w.nodes[n].name)

Crosses(w, e) == NodeDomain(w, w.edges[e].src) # NodeDomain(w, w.edges[e].dst)

(* Mutant of CheckDomains: what peeks a Cell is not looked at.             *)
MutCheckDomainsOfQueues(w) ==
    LET checked == {e \in DOMAIN w.edges :
                        ~w.nodes[w.edges[e].src].stub /\ ~w.nodes[w.edges[e].dst].stub}
        of(kind) == {e \in checked : w.edges[e].kind = kind}
    IN  IF domainDecls = <<>> THEN w
        ELSE [w EXCEPT !.failed = @ \/ (\E e \in of("queue") : Crosses(w, e)),
                       !.warned = \E e \in of("async") : ~Crosses(w, e)]

(* In a pipe that declares domains: a queue and what peeks a Cell stay in  *)
(* one domain; an AsyncQueue inside one is worth a warning.                *)
CheckDomains(w) ==
    LET checked == {e \in DOMAIN w.edges :
                        ~w.nodes[w.edges[e].src].stub /\ ~w.nodes[w.edges[e].dst].stub}
        of(kind) == {e \in checked : w.edges[e].kind = kind}
        peeked(e) == \E p \in ToSet(w.edges[e].peekers) :
                         DomainIn(w, p) # NodeDomain(w, w.edges[e].src)
    IN  IF domainDecls = <<>> THEN w
        ELSE [w EXCEPT !.failed = \/ @
                                  \/ \E e \in of("queue") : Crosses(w, e)
                                  \/ \E e \in of("cell") : peeked(e),
                       !.warned = \E e \in of("async") : ~Crosses(w, e)]

-----------------------------------------------------------------------------
(* The machine: one action for a turn of each loop.                        *)

Init ==
    /\ program \in Programs
    /\ networks = <<>>
    /\ diagnostics = FALSE
    /\ pipe = "" /\ phase = "idle" /\ turn = 0 /\ work = Blank

(* A pipe whose children are elaborated. *)
StartPipe ==
    LET ready == {p \in WithChildren(TopPipes) \ DOMAIN networks :
                      Children(p) \ {p} \subseteq DOMAIN networks} IN
    /\ phase = "idle" /\ ready # {}
    /\ pipe' = CHOOSE p \in ready : TRUE
    /\ phase' = "instances" /\ turn' = 1 /\ work' = Blank
    /\ UNCHANGED <<program, networks, diagnostics>>

Phases ==
    <<"instances", "domains", "queues", "selfloops", "wire", "create", "substitute",
      "recreate", "finddead", "remove", "bind", "checkwiring", "checkdomains", "finish">>

(* The phases at whose end nothing goes on after an error. *)
GivesUp == {"instances", "domains", "queues", "checkwiring", "checkdomains"}

Turns ==
    CASE phase \in {"instances", "selfloops", "wire", "bind"} -> Len(insts)
      [] phase \in {"queues", "create", "recreate"} -> Len(queueDecls)
      [] phase = "substitute" -> Len(work.subs)
      [] phase = "remove" -> IF work.dead = {} THEN 0 ELSE turn
      [] OTHER -> 1

Turn(current, result) ==
    /\ phase = current /\ turn <= Turns
    /\ work' = result /\ turn' = turn + 1
    /\ UNCHANGED <<program, networks, diagnostics, pipe, phase>>

AddInstances   == Turn("instances", AddInstance(work, turn))
CollectDomain  == Turn("domains", CollectDomains(work))
DeclareQueues  == Turn("queues", DeclareQueue(work, turn))
AddSelfLoops   == Turn("selfloops", SelfLoops(work, turn))
WireInstances  == Turn("wire", WireInstance(work, turn))
CreateEdges    == Turn("create", CreateEdge(work, turn))
SubstituteEdge == Turn("substitute", Substitute(work, turn))
RecreateEdges  == Turn("recreate", Recreate(work, turn))
FindDeadEdges  == Turn("finddead", FindDead(work))
RemoveEdges    == Turn("remove", RemoveEdge(work, Max(work.dead)))
BindInstances  == Turn("bind", BindDeferred(work, turn))
CheckPorts     == Turn("checkwiring", CheckWiring(work))
CheckCrossings == Turn("checkdomains", CheckDomains(work))

NextPhase ==
    /\ phase \in ToSet(Phases) \ {"finish"} /\ turn > Turns
    /\ ~(phase \in GivesUp /\ work.failed)
    /\ phase' = Phases[CHOOSE k \in DOMAIN Phases : k > 1 /\ Phases[k - 1] = phase]
    /\ turn' = 1
    /\ UNCHANGED <<program, networks, diagnostics, pipe, work>>

PipeDone(network) ==
    /\ networks' = With(networks, pipe, network)
    /\ pipe' = "" /\ phase' = "idle" /\ turn' = 0 /\ work' = Blank
    /\ UNCHANGED program

PipeFails ==
    /\ phase \in GivesUp /\ turn > Turns /\ work.failed
    /\ diagnostics' = TRUE
    /\ PipeDone(Failed)

FinishPipe ==
    /\ phase = "finish"
    /\ diagnostics' = (diagnostics \/ work.warned)
    /\ PipeDone([nodes |-> work.nodes, edges |-> work.edges, instances |-> work.instances,
                 domains |-> domainDecls, domainMap |-> work.domainMap])

Elaborate ==
    \/ StartPipe
    \/ AddInstances \/ CollectDomain \/ DeclareQueues \/ AddSelfLoops \/ WireInstances
    \/ CreateEdges \/ SubstituteEdge \/ RecreateEdges \/ FindDeadEdges \/ RemoveEdges
    \/ BindInstances \/ CheckPorts \/ CheckCrossings
    \/ NextPhase \/ PipeFails \/ FinishPipe

-----------------------------------------------------------------------------
ElaborationSpec == Init /\ [][Elaborate]_elaborationVars

(* Ports refer to edges, edges to nodes, and names to the nodes named so.  *)
Consistent(nw) ==
    /\ \A name \in DOMAIN nw.instances :
          /\ nw.instances[name] \in DOMAIN nw.nodes
          /\ nw.nodes[nw.instances[name]].name = name
    /\ Referenced(nw) \subseteq {0} \union DOMAIN nw.edges
    /\ \A e \in DOMAIN nw.edges : {nw.edges[e].src, nw.edges[e].dst} \subseteq DOMAIN nw.nodes

(* Type invariant: the network under construction, after every turn of     *)
(* every loop, and the networks finished are consistent, and a queue with  *)
(* an edge has one of this network.                                        *)
ElaborationTypeOK ==
    /\ IsProgram(program)
    /\ DOMAIN networks \subseteq Pipes
    /\ diagnostics \in BOOLEAN
    /\ phase \in {"idle"} \union ToSet(Phases)
    /\ (pipe = "") <=> (phase = "idle")
    /\ Consistent(work)
    /\ \A q \in DOMAIN work.queueEdge : work.queueEdge[q] \in DOMAIN work.edges
    /\ \A p \in DOMAIN networks : networks[p] = Failed \/ Consistent(networks[p])

EdgeName(w, e) == IF e \in DOMAIN w.edges THEN w.edges[e].name ELSE None

(* The removal of replaced edges renumbers others: what every port and     *)
(* every queue is bound to stays the same.                                 *)
RemovalKeepsBindings ==
    [][phase = "remove" /\ phase' = phase =>
        /\ \A n \in DOMAIN work.nodes : \A k \in DOMAIN work.nodes[n].ports :
              EdgeName(work', work'.nodes[n].ports[k].bound)
                  = EdgeName(work, work.nodes[n].ports[k].bound)
        /\ \A q \in DOMAIN work.queueEdge : EdgeName(work', work'.queueEdge[q]) = q]_elaborationVars

=============================================================================
