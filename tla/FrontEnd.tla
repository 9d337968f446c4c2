------------------------------ MODULE FrontEnd ------------------------------
(***************************************************************************)
(* The passes of the compiler, one after the other (src/src/lib.rs,        *)
(* run_pipeline): desugaring, the checks of the rules, elaboration, and    *)
(* the schedule and deadlock analysis of every network.  The first pass    *)
(* that reports anything is the last one.                                  *)
(*                                                                         *)
(* Programs are as in module Elaboration, rules as in module RuleChecker.  *)
(* Parsing is left out: a program is a syntax tree.                        *)
(***************************************************************************)
EXTENDS DeclaredNetworks, RuleChecker

Analysis == INSTANCE DeadlockAnalysis

VARIABLES
    stage,            \* the next pass, or how it ended
    source,           \* the program as written
    typeErrors,       \* <<process, rule>> whose types are wrong
    linearityErrors   \* <<process, rule>> that use a Cell otherwise than linearly

vars == <<elaborationVars, stage, source, typeErrors, linearityErrors>>

RulesIn(prog) ==
    UNION {{p} \X DOMAIN prog.procs[p].rules : p \in DOMAIN prog.procs}

RuleBody(prog, id) == prog.procs[id[1]].rules[id[2]]
PortsOf(prog, id)  == prog.procs[id[1]].ports
CellsOf(prog, id)  == {p.name : p \in {x \in ToSet(PortsOf(prog, id)) : x.kind = "state"}}

-----------------------------------------------------------------------------
(* Desugaring of processes and pipes.                                      *)

Arrays(proc) ==
    [name \in {p.name : p \in {x \in ToSet(proc.ports) : x.size > 0}} |->
        (CHOOSE p \in ToSet(proc.ports) : p.name = name).size]

ExpandPort(port) ==
    IF port.size = 0 THEN <<port>>
    ELSE [i \in 1 .. port.size |-> [port EXCEPT !.name = Element(@, i - 1), !.size = 0]]

DesugarProcess(proc) ==
    [proc EXCEPT
        !.ports = FlattenSeq([k \in DOMAIN @ |-> ExpandPort(@[k])]),
        !.rules = [r \in DOMAIN @ |-> desugar_stmts(@[r], Arrays(proc))]]

(* A binding of an array port binds every element to the element of the    *)
(* same number.                                                            *)
ExpandBinding(b, arrays) ==
    IF b.port \notin DOMAIN arrays THEN <<b>>
    ELSE [i \in 1 .. arrays[b.port] |->
             [port   |-> Element(b.port, i - 1),
              target |-> Append(Front(b.target), Element(Last(b.target), i - 1))]]

expand_pipe_array_bindings(inst, procs) ==
    IF inst.of \notin DOMAIN procs THEN inst
    ELSE [inst EXCEPT !.bind =
             FlattenSeq([k \in DOMAIN @ |-> ExpandBinding(@[k], Arrays(procs[inst.of]))])]

(* A memory is three queues to a process of its own, which stands for the  *)
(* memory macro.                                                           *)
MemoryProcess(mem) == "_Mem_" \o mem

MemoryPorts == <<"read_req", "read_resp", "write_req">>

MemoryElem(port) == IF port = "write_req" THEN <<"Tuple">> ELSE Bits

MemoryQueues(mem) ==
    [k \in DOMAIN MemoryPorts |->
        [name |-> mem \o "_" \o MemoryPorts[k], elem |-> MemoryElem(MemoryPorts[k]),
         kind |-> "queue", depth |-> 1, init |-> 0, ext |-> FALSE]]

TakeFrom(port) == [op |-> "take", name |-> port, index |-> <<>>, args |-> <<>>, call |-> FALSE]
Zero           == [op |-> "lit", name |-> "", index |-> <<>>, args |-> <<>>, call |-> FALSE]
LetTake(var, port) == [op |-> "let", name |-> var, value |-> TakeFrom(port), arms |-> <<>>]

MemoryBody ==
    [ports |-> [k \in DOMAIN MemoryPorts |->
                   [name |-> MemoryPorts[k], elem |-> MemoryElem(MemoryPorts[k]),
                    kind |-> IF MemoryPorts[k] = "read_resp" THEN "produces" ELSE "consumes",
                    size |-> 0, init |-> 0]],
     rules |-> <<<<LetTake("addr", "read_req"), PutStmt("read_resp", Zero)>>,
                 <<LetTake("", "write_req")>>>>,
     memory |-> TRUE]

MemoryInstance(mem) ==
    [of |-> MemoryProcess(mem), domain |-> "",
     bind |-> [k \in DOMAIN MemoryPorts |->
                  [port |-> MemoryPorts[k], target |-> <<mem \o "_" \o MemoryPorts[k]>>]]]

DesugarPipe(decl, procs) ==
    LET mems   == decl.memories
        of(kind) == SelectSeq(decl.queues, LAMBDA q : q.kind = kind)
        queues == FlattenSeq([k \in DOMAIN mems |-> MemoryQueues(mems[k])])
        added  == [k \in DOMAIN mems |-> MemoryInstance(mems[k])]
    IN  [decl EXCEPT
            !.queues = of("queue") \o queues \o of("async"),
            !.memories = <<>>,
            !.insts = [k \in DOMAIN @ |-> expand_pipe_array_bindings(@[k], procs)] \o added]

DesugarProgram(prog) ==
    LET mems == UNION {ToSet(prog.pipes[p].memories) : p \in DOMAIN prog.pipes}
    IN  [procs |-> [p \in DOMAIN prog.procs |-> DesugarProcess(prog.procs[p])]
                   @@ [p \in {MemoryProcess(m) : m \in mems} |-> MemoryBody],
         pipes |-> [p \in DOMAIN prog.pipes |-> DesugarPipe(prog.pipes[p], prog.procs)]]

DesugarReports(prog) ==
    \E id \in RulesIn(prog) : \E s \in ToSet(RuleBody(prog, id)) :
        ReportsStmt(s, Arrays(prog.procs[id[1]]))

-----------------------------------------------------------------------------
(* The network of a pipe as the deadlock analysis sees it: edges and nodes *)
(* by number, every rule with the edges it accesses.                       *)

EdgesOf(nw, n, ports) ==
    {nw.nodes[n].ports[k].bound : k \in {x \in DOMAIN nw.nodes[n].ports :
        nw.nodes[n].ports[x].name \in ports /\ nw.nodes[n].ports[x].bound # 0}}

ScheduledRule(nw, n, rule) ==
    LET used == Resources(rule)
        edges(ports) == EdgesOf(nw, n, ports)
    IN  [top |-> [takes |-> edges(used.takes), some |-> edges(used.try_takes), none |-> {},
                  puts |-> edges(used.puts), peeks |-> edges(used.peeks)],
         paths |-> {}]

Scheduled(nw) ==
    LET of(kinds) == {e \in DOMAIN nw.edges : nw.edges[e].kind \in kinds}
        rules(n)  == program.procs[nw.nodes[n].process].rules
    IN  [rules  |-> [n \in {x \in DOMAIN nw.nodes : ~nw.nodes[x].stub} |->
                        [r \in DOMAIN rules(n) |-> ScheduledRule(nw, n, rules(n)[r])]],
         queues |-> [e \in of({"queue", "async"}) |->
                        [src |-> nw.edges[e].src, dst |-> nw.edges[e].dst,
                         depth |-> nw.edges[e].depth, init |-> nw.edges[e].init,
                         async |-> nw.edges[e].kind = "async"]],
         cells  |-> [e \in of({"cell"}) |->
                        [owner |-> nw.edges[e].src, init |-> nw.edges[e].init > 0]]]

-----------------------------------------------------------------------------
(* The passes.                                                             *)

FrontEndInit ==
    /\ Init
    /\ stage = "desugar"
    /\ source = program
    /\ typeErrors = {} /\ linearityErrors = {}

Desugar ==
    /\ stage = "desugar"
    /\ program' = DesugarProgram(source)
    /\ stage' = IF DesugarReports(source) THEN "methodErrors" ELSE "check"
    /\ UNCHANGED <<networks, diagnostics, pipe, phase, turn, work,
                   source, typeErrors, linearityErrors>>

CheckRules ==
    /\ stage = "check"
    /\ typeErrors' = {id \in RulesIn(program) :
                         TypeErrorIn(PortsOf(program, id), RuleBody(program, id))}
    /\ linearityErrors' = {id \in RulesIn(program) :
                              LinearityErrorIn(CellsOf(program, id), RuleBody(program, id))}
    /\ stage' = IF typeErrors' \union linearityErrors' = {} THEN "elaborate" ELSE "ruleErrors"
    /\ UNCHANGED <<elaborationVars, source>>

ElaboratePipes ==
    /\ stage = "elaborate"
    /\ Elaborate
    /\ UNCHANGED <<stage, source, typeErrors, linearityErrors>>

EndElaboration ==
    /\ stage = "elaborate" /\ Elaborated
    /\ stage' = IF diagnostics THEN "pipeErrors" ELSE "analyze"
    /\ UNCHANGED <<elaborationVars, source, typeErrors, linearityErrors>>

Analyze ==
    /\ stage = "analyze"
    /\ stage' = IF \A p \in TopPipes : Analysis!Accepted(Scheduled(networks[p]))
                THEN "emitted" ELSE "deadlock"
    /\ UNCHANGED <<elaborationVars, source, typeErrors, linearityErrors>>

Next == Desugar \/ CheckRules \/ ElaboratePipes \/ EndElaboration \/ Analyze

Spec == FrontEndInit /\ [][Next]_vars

-----------------------------------------------------------------------------
(* The rules have just been checked. *)
RulesChecked == stage \in {"ruleErrors", "elaborate"} /\ pipe = "" /\ networks = <<>>

WellTypedRules == IF RulesChecked THEN RulesIn(program) \ typeErrors ELSE {}

(* Desugaring keeps what a rule does: an access to an array of ports is an *)
(* access to any one of its elements, index first, value next.  (An        *)
(* indexed access in the index or the new value of an array stays a call,  *)
(* which src/src/types/check.rs:219 does not see; such rules are left out.)*)
DesugarKeepsPaths ==
    \A id \in WellTypedRules :
        id \in RulesIn(source) /\ NoCallLeft(RuleBody(program, id)) =>
            CorePaths(RuleBody(program, id))
                = Paths(RuleBody(source, id), Arrays(source.procs[id[1]]))

(* TOURBILLON.md, Cells: every take is followed by exactly one put, on     *)
(* every path.  The checker refuses a rule exactly when some path does not *)
(* do so or the arms of a conditional use a Cell unequally, if it can see  *)
(* every take and every match has an arm for its value; and only programs  *)
(* with no rule refused are elaborated.                                    *)
LinearityIsExact ==
    /\ RulesChecked => \A id \in RulesIn(program) :
          NoHiddenTake(CellsOf(program, id), RuleBody(program, id)) =>
              (id \notin linearityErrors
                  <=> LinearOnEveryPath(CellsOf(program, id), RuleBody(program, id)))
    /\ networks # <<>> \/ stage \in {"elaborate", "analyze", "emitted"}
          => typeErrors \union linearityErrors = {}

(* In a rule that type-checks, along every path every variable is bound    *)
(* before its first use, and only ports of the process are accessed:       *)
(* except in the index and the new value of an array, which the checker    *)
(* does not look at (UndefinedVariablesReported).                          *)
VariablesBoundOnEveryPath ==
    \A id \in WellTypedRules : \A path \in CorePaths(VisitedStmts(RuleBody(program, id))) :
        /\ BoundBeforeUse(path)
        /\ \A k \in DOMAIN path : path[k][1] \in Accesses \union {"put"} =>
              path[k][2] \in {p.name : p \in ToSet(PortsOf(program, id))}

(* src/src/types/mod.rs, undefined_variable_error: "expected undefined     *)
(* variable error".  A rule that may use a variable before it is bound, or *)
(* one that is never bound, does not type-check.                           *)
UndefinedVariablesReported ==
    \A id \in WellTypedRules :
        \A path \in CorePaths(RuleBody(program, id)) : BoundBeforeUse(path)

(* The accesses the scheduler is told of are those of the paths: no rule   *)
(* touches an edge that its conflicts do not know.  (A call left by the    *)
(* desugaring is no access: the back ends emit a 0 for it.)                *)
SchedulerKnowsAccesses ==
    \A id \in {x \in WellTypedRules : NoCallLeft(RuleBody(program, x))} :
        LET rule == RuleBody(program, id) IN
        /\ Resources(rule).takes = Accessed(rule, {"take", "try_take"})
        /\ Resources(rule).try_takes = Accessed(rule, {"try_take"})
        /\ Resources(rule).puts = Accessed(rule, {"put"})
        /\ Resources(rule).peeks = Accessed(rule, {"peek"})

(* TOURBILLON.md: "The compiler checks that every queue has exactly one    *)
(* producer and one consumer (single-writer, single-reader)".              *)
OneProducerOneConsumer ==
    stage = "emitted" => \A p \in TopPipes : \A e \in DOMAIN networks[p].edges :
        networks[p].edges[e].kind # "cell" /\ ~networks[p].edges[e].ext
            => e \in PairedEdges(networks[p])

=============================================================================
