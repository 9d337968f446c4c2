---------------------------- MODULE RuleChecker -----------------------------
(***************************************************************************)
(* What the compiler does with the body of a rule before it elaborates the *)
(* pipes: the expansion of method calls and of accesses to arrays of ports *)
(* (src/src/desugar.rs), the types and scopes of variables                 *)
(* (src/src/types/check.rs, env.rs), the linear use of Cells               *)
(* (src/src/types/linearity.rs), and the accesses it reports to the        *)
(* scheduler (src/src/schedule.rs).                                        *)
(*                                                                         *)
(* An expression is [op, name, index, args].  As written, an access to a   *)
(* port is a method call, op "take", "try_take", "peek" or "put" with      *)
(* call TRUE, its index a sequence of at most one expression.  After       *)
(* desugaring call is FALSE.  The other operations are                     *)
(*   "lit", "bool", "var"     name is the variable                         *)
(*   "bin", "cmp"             arithmetic and comparison                    *)
(*   "some"                   the constructor of Option                    *)
(*   "slice"                  of bits, which stands for all the operations *)
(*                            the linearity checker does not descend into  *)
(*   "index", "update"        of an array, its index and the new value the *)
(*                            operands after it; neither checker descends  *)
(*                            into them                                    *)
(*                                                                         *)
(* A statement is [op, name, value, arms]: "let" and "put" with a name,    *)
(* "expr", "if" with two arms, "match" with any number; an arm is          *)
(* [pattern, name, body], pattern "some", "none", "bind", "any" or a       *)
(* literal.  A tuple, or "_", in the place of a variable is "".            *)
(***************************************************************************)
EXTENDS Naturals, FiniteSets, SequencesExt, TLC

Accesses == {"take", "try_take", "peek"}

Element(array, i) == array \o "_" \o ToString(i)

RECURSIVE SubExprs(_)
SubExprs(e) == {e} \union UNION {SubExprs(x) : x \in ToSet(e.args) \union ToSet(e.index)}

-----------------------------------------------------------------------------
(* Desugaring.  arrays: array port |-> number of its elements.             *)

RECURSIVE desugar_expr(_)
desugar_expr(e) ==
    [e EXCEPT !.args  = [k \in DOMAIN @ |-> desugar_expr(@[k])],
              !.index = [k \in DOMAIN @ |-> desugar_expr(@[k])],
              !.call  = @ /\ ~(e.op \in Accesses /\ e.index = <<>>)]

(* An access with arguments, or an unknown method. *)
ReportsExpr(e) ==
    \E x \in SubExprs(e) :
        x.call /\ (x.op \notin Accesses \union {"put"}
                     \/ (x.op \in Accesses /\ x.index = <<>> /\ x.args # <<>>))

(* Mutant of Elements: the last one is forgotten. *)
MutElements(array, size) == [i \in 1 .. size - 1 |-> Element(array, i - 1)]

Elements(array, size) == [i \in 1 .. size |-> Element(array, i - 1)]

(* expand_indexed_let, expand_indexed_put: one arm for every element.      *)
EachElement(index, stmts) ==
    [op |-> "match", name |-> "", value |-> index,
     arms |-> [k \in DOMAIN stmts |->
                  [pattern |-> ToString(k - 1), name |-> "", body |-> <<stmts[k]>>]]]

IndexedAccess(e, arrays, methods) ==
    e.call /\ e.op \in methods /\ e.index # <<>> /\ e.name \in DOMAIN arrays

PutStmt(port, value) == [op |-> "put", name |-> port, value |-> value, arms |-> <<>>]

RECURSIVE desugar_stmt(_, _)
desugar_stmt(s, arrays) ==
    LET value == desugar_expr(s.value)
        whole == [s EXCEPT !.value = value,
                           !.arms = [k \in DOMAIN @ |->
                               [@[k] EXCEPT !.body =
                                   [l \in DOMAIN @ |-> desugar_stmt(@[l], arrays)]]]]
        elements == Elements(s.value.name, arrays[s.value.name])
        access(port) == [value EXCEPT !.name = port, !.index = <<>>, !.call = FALSE]
    IN  IF s.op = "let" /\ IndexedAccess(s.value, arrays, Accesses)
        THEN EachElement(value.index[1], [k \in DOMAIN elements |->
                 [whole EXCEPT !.value = access(elements[k])]])
        ELSE IF /\ s.op = "expr" /\ IndexedAccess(s.value, arrays, {"put"})
                /\ Len(s.value.args) = 1
        THEN EachElement(value.index[1], [k \in DOMAIN elements |->
                 PutStmt(elements[k], value.args[1])])
        ELSE IF s.op = "expr" /\ s.value.call /\ s.value.op = "put"
                /\ s.value.index = <<>> /\ Len(s.value.args) = 1
        THEN PutStmt(s.value.name, value.args[1])
        ELSE whole

desugar_stmts(stmts, arrays) == [k \in DOMAIN stmts |-> desugar_stmt(stmts[k], arrays)]

(* A put statement needs one argument and, if indexed, an array. *)
RECURSIVE ReportsStmt(_, _)
ReportsStmt(s, arrays) ==
    \/ ReportsExpr(s.value)
    \/ /\ s.op = "expr" /\ s.value.call /\ s.value.op = "put"
       /\ Len(s.value.args) # 1 \/ (s.value.index # <<>> /\ s.value.name \notin DOMAIN arrays)
    \/ \E arm \in ToSet(s.arms) : \E t \in ToSet(arm.body) : ReportsStmt(t, arrays)

-----------------------------------------------------------------------------
(* Types: <<"Bits">> of any width, <<"Bool">>, <<"Error">>; Option, Array  *)
(* and the ports (queue or Cell) put their name in front of a type.  An    *)
(* environment maps the variables and ports in scope to types.             *)

Bits   == <<"Bits">>
Bool   == <<"Bool">>
ErrorType  == <<"Error">>
OptionOf(type) == <<"Option">> \o type
PortOf(type)   == <<"Port">> \o type

IsPort(type)     == Head(type) = "Port"
contains_error(type) == Last(type) = "Error"

Typed(type, errors) == [type |-> type, bad |-> errors]

(* The operands the type checker looks at: of an index or an update, the   *)
(* array only.                                                             *)
Visited(e) == IF e.op \in {"index", "update"} THEN {1} ELSE DOMAIN e.args

(* Error messages are only counted as one: bad. *)
RECURSIVE check_expr(_, _)
check_expr(e, env) ==
    LET sub(k) == check_expr(e.args[k], env)
        bad    == \E k \in Visited(e) : sub(k).bad
        port   == e.name \in DOMAIN env /\ IsPort(env[e.name])
        either == contains_error(sub(1).type) \/ contains_error(sub(2).type)
        differ == ~either /\ sub(1).type # sub(2).type
    IN  CASE e.call -> Typed(ErrorType, TRUE)
          [] ~e.call /\ e.op = "lit"  -> Typed(Bits, FALSE)
          [] ~e.call /\ e.op = "bool" -> Typed(Bool, FALSE)
          [] ~e.call /\ e.op = "var"  ->
                IF e.name = "None" THEN Typed(OptionOf(ErrorType), FALSE)
                ELSE IF e.name \in DOMAIN env THEN Typed(env[e.name], FALSE)
                ELSE Typed(ErrorType, TRUE)
          [] ~e.call /\ e.op \in Accesses ->
                IF ~port THEN Typed(ErrorType, TRUE)
                ELSE IF e.op = "take" THEN Typed(Tail(env[e.name]), FALSE)
                ELSE Typed(OptionOf(Tail(env[e.name])), FALSE)
          [] e.op = "bin"   -> Typed(IF sub(1).type # ErrorType THEN sub(1).type ELSE sub(2).type,
                                     bad \/ differ)
          [] e.op = "cmp"   -> Typed(Bool, bad \/ differ)
          [] e.op = "some"  -> Typed(OptionOf(sub(1).type), bad)
          [] e.op = "slice" -> Typed(IF sub(1).type = Bits THEN Bits ELSE ErrorType,
                                     bad \/ sub(1).type \notin {Bits, ErrorType})
          [] e.op = "index" ->
                IF Head(sub(1).type) = "Array" THEN Typed(Tail(sub(1).type), bad)
                ELSE Typed(ErrorType, bad \/ sub(1).type # ErrorType)
          [] e.op = "update" ->
                IF Head(sub(1).type) = "Array" THEN Typed(sub(1).type, bad)
                ELSE Typed(ErrorType, bad \/ sub(1).type # ErrorType)

Define(env, name, type) == IF name = "" THEN env ELSE (name :> type) @@ env

bind_match_pattern(env, arm, type) ==
    CASE arm.pattern = "bind" -> Define(env, arm.name, type)
      [] arm.pattern = "some" /\ Head(type) = "Option" -> Define(env, arm.name, Tail(type))
      [] OTHER -> env

(* Mutant of pop_scope: the variables of an arm stay in scope. *)
MutKeepScope(outer, inner) == inner

(* The variables an arm defines go out of scope at its end. *)
pop_scope(outer, inner) == [outer EXCEPT !.bad = inner.bad]

(* state: the environment, and whether anything has been reported. *)
RECURSIVE check_stmts(_, _)
check_stmts(stmts, state) ==
    LET check_stmt(before, s) ==
            LET value == check_expr(s.value, before.env)
                port  == s.name \in DOMAIN before.env /\ IsPort(before.env[s.name])
                elem  == Tail(before.env[s.name])
                checked == [before EXCEPT !.bad = @ \/ value.bad]
                arm(x, a) ==
                    pop_scope(x, check_stmts(a.body,
                        [x EXCEPT !.env = bind_match_pattern(@, a, value.type)]))
            IN  CASE s.op = "let" -> [checked EXCEPT !.env = Define(@, s.name, value.type)]
                  [] s.op = "put" -> [checked EXCEPT !.bad =
                        \/ @ \/ ~port
                        \/ ~contains_error(value.type) /\ ~contains_error(elem)
                              /\ value.type # elem]
                  [] s.op = "if" ->
                        FoldLeft(arm, [checked EXCEPT !.bad =
                                          @ \/ value.type \notin {ErrorType, Bool}], s.arms)
                  [] s.op = "match" -> FoldLeft(arm, checked, s.arms)
                  [] OTHER -> checked
    IN  FoldLeft(check_stmt, state, stmts)

PortEnv(ports) ==
    [name \in {p.name : p \in ToSet(ports)} |->
        PortOf((CHOOSE p \in ToSet(ports) : p.name = name).elem)]

(* check_process: whether the types of a rule are wrong. *)
TypeErrorIn(ports, rule) == check_stmts(rule, [env |-> PortEnv(ports), bad |-> FALSE]).bad

-----------------------------------------------------------------------------
(* Linearity: a Cell is "Untouched", "Taken" or "Put"; states maps every   *)
(* state port of the process to one of them.                               *)

Step(ls, cell, from, to) ==
    IF cell \notin DOMAIN ls.states THEN ls
    ELSE IF ls.states[cell] = from THEN [ls EXCEPT !.states[cell] = to]
    ELSE [ls EXCEPT !.bad = TRUE]

RECURSIVE check_expr_linearity(_, _)
check_expr_linearity(ls, e) ==
    CASE e.op \in {"take", "try_take"} /\ ~e.call -> Step(ls, e.name, "Untouched", "Taken")
      [] e.op \in {"bin", "cmp", "some"} -> FoldLeft(check_expr_linearity, ls, e.args)
      [] OTHER -> ls

(* Mutant of JoinArms: the arms need not agree. *)
MutJoinFirstArm(ls, arms) ==
    IF arms = <<>> THEN ls
    ELSE [states |-> arms[1].states, bad |-> \E k \in DOMAIN arms : arms[k].bad]

(* Every arm must leave the Cells as the first one does. *)
JoinArms(ls, arms) ==
    IF arms = <<>> THEN ls
    ELSE [states |-> arms[1].states,
          bad |-> \E k \in DOMAIN arms : arms[k].bad \/ arms[k].states # arms[1].states]

RECURSIVE check_stmts_linearity(_, _)
check_stmts_linearity(ls, stmts) ==
    LET check_stmt_linearity(x, s) ==
            LET y == check_expr_linearity(x, s.value) IN
            CASE s.op = "put" -> Step(y, s.name, "Taken", "Put")
              [] s.op \in {"if", "match"} ->
                    JoinArms(y, [k \in DOMAIN s.arms |-> check_stmts_linearity(y, s.arms[k].body)])
              [] OTHER -> y
    IN  FoldLeft(check_stmt_linearity, ls, stmts)

(* check_rule_linearity: whether a Cell is not used linearly. *)
LinearityErrorIn(cells, rule) ==
    LET end == check_stmts_linearity([states |-> [c \in cells |-> "Untouched"], bad |-> FALSE], rule)
    IN  end.bad \/ \E c \in cells : end.states[c] = "Taken"

-----------------------------------------------------------------------------
(* collect_rule_resources: the ports a rule accesses, in any branch.       *)

RECURSIVE SubStmts(_)
SubStmts(stmts) ==
    UNION {{s} \union UNION {SubStmts(arm.body) : arm \in ToSet(s.arms)} : s \in ToSet(stmts)}

ExprsOf(rule) == UNION {SubExprs(s.value) : s \in SubStmts(rule)}

PortsIn(rule, ops) == {e.name : e \in {x \in ExprsOf(rule) : x.op \in ops /\ ~x.call}}

(* Mutant of Resources: a conditional is not searched. *)
MutResources(rule) ==
    LET flat == {s \in ToSet(rule) : s.op \notin {"if", "match"}} IN
    [takes     |-> PortsIn(rule, {"take", "try_take"}),
     try_takes |-> PortsIn(rule, {"try_take"}),
     puts      |-> {s.name : s \in {x \in flat : x.op = "put"}},
     peeks     |-> PortsIn(rule, {"peek"})]

Resources(rule) ==
    [takes     |-> PortsIn(rule, {"take", "try_take"}),
     try_takes |-> PortsIn(rule, {"try_take"}),
     puts      |-> {s.name : s \in {x \in SubStmts(rule) : x.op = "put"}},
     peeks     |-> PortsIn(rule, {"peek"})]

-----------------------------------------------------------------------------
(* What a rule can do: the sequences of accesses to ports, and of bindings *)
(* and uses of variables, along its paths.  An indexed access is to any of *)
(* the elements, a conditional follows any of its arms.                    *)

Joined(before, after) == {x \o y : x \in before, y \in after}
InTurn(sets) == FoldLeft(Joined, {<<>>}, sets)

AccessTo(e, arrays) ==
    IF e.call /\ e.index # <<>> /\ e.name \in DOMAIN arrays
    THEN {<<<<e.op, Element(e.name, i - 1)>>>> : i \in 1 .. arrays[e.name]}
    ELSE {<<<<e.op, e.name>>>>}

AccessOrUse(e, arrays) ==
    IF e.op = "var" /\ e.name # "None" THEN {<<<<"use", e.name>>>>}
    ELSE IF e.op \in Accesses \union {"put"} THEN AccessTo(e, arrays)
    ELSE {<<>>}

RECURSIVE ExprPaths(_, _)
ExprPaths(e, arrays) ==
    LET parts == e.index \o e.args IN
    Joined(InTurn([k \in DOMAIN parts |-> ExprPaths(parts[k], arrays)]), AccessOrUse(e, arrays))

Binds(name) == IF name = "" THEN {<<>>} ELSE {<<<<"bind", name>>>>}

RECURSIVE Paths(_, _)
Paths(stmts, arrays) ==
    LET arm(a)  == Joined(Binds(a.name), Paths(a.body, arrays))
        value(s) == ExprPaths(s.value, arrays)
        after(s) ==
            CASE s.op = "let" -> Binds(s.name)
              [] s.op = "put" -> {<<<<"put", s.name>>>>}
              [] s.op \in {"if", "match"} -> UNION {arm(a) : a \in ToSet(s.arms)}
              [] OTHER -> {<<>>}
    IN  InTurn([k \in DOMAIN stmts |-> Joined(value(stmts[k]), after(stmts[k]))])

CorePaths(stmts) == Paths(stmts, <<>>)

(* The takes and puts of a Cell along a path. *)
UsesOfCell(path, c) ==
    SelectSeq(path, LAMBDA x : x[2] = c /\ x[1] \in {"take", "try_take", "put"})

LinearUse(word) ==
    \/ word = <<>>
    \/ Len(word) = 2 /\ word[1][1] \in {"take", "try_take"} /\ word[2][1] = "put"

(* The paths through a conditional use a Cell equally often. *)
ArmsAgree(s, c) ==
    Cardinality({Len(UsesOfCell(path, c)) : path \in CorePaths(<<s>>)}) <= 1

(* No access to a Cell is where the linearity checker does not look. *)
NoHiddenTake(cells, rule) ==
    \A e \in ExprsOf(rule) : e.op \in {"slice", "index", "update"} =>
        \A x \in SubExprs(e) : ~(x.op \in {"take", "try_take"} /\ x.name \in cells)

LinearOnEveryPath(cells, rule) ==
    \A c \in cells :
        /\ \A path \in CorePaths(rule) : LinearUse(UsesOfCell(path, c))
        /\ \A s \in SubStmts(rule) : s.op \in {"if", "match"} => ArmsAgree(s, c)

(* A rule without the operands that the type checker does not look at. *)
RECURSIVE VisitedExpr(_)
VisitedExpr(e) == [e EXCEPT !.args = [k \in Visited(e) |-> VisitedExpr(@[k])]]

RECURSIVE VisitedStmts(_)
VisitedStmts(stmts) ==
    [k \in DOMAIN stmts |->
        [stmts[k] EXCEPT !.value = VisitedExpr(@),
                         !.arms = [a \in DOMAIN @ |-> [@[a] EXCEPT !.body = VisitedStmts(@)]]]]

(* No method call is left, not even where the type checker does not look   *)
(* (elsewhere it reports one).                                             *)
NoCallLeft(rule) == \A e \in ExprsOf(rule) : ~e.call

(* Every variable used has a binding before it. *)
BoundBeforeUse(path) ==
    \A k \in DOMAIN path : path[k][1] = "use" =>
        \E l \in 1 .. k - 1 : path[l] = <<"bind", path[k][2]>>

(* The accesses of a rule to ports along its paths. *)
Accessed(rule, acts) ==
    {x[2] : x \in {y \in UNION {ToSet(path) : path \in CorePaths(rule)} : y[1] \in acts}}

=============================================================================
