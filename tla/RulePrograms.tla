---------------------------- MODULE RulePrograms ----------------------------
(***************************************************************************)
(* Programs for the runs of FrontEnd: a process with one rule, and the     *)
(* families of rules considered.                                           *)
(***************************************************************************)
EXTENDS Naturals, Sequences, TLC

Node(op, name, index, args, call) ==
    [op |-> op, name |-> name, index |-> index, args |-> args, call |-> call]
Lit    == Node("lit", "", <<>>, <<>>, FALSE)
True   == Node("bool", "", <<>>, <<>>, FALSE)
Var(x) == Node("var", x, <<>>, <<>>, FALSE)
Of(op, args) == Node(op, "", <<>>, args, FALSE)
ElementAt(array, i)      == Of("index", <<array, i>>)
UpdateAt(array, i, value) == Of("update", <<array, i, value>>)

Access(method, port)     == Node(method, port, <<>>, <<>>, TRUE)
AccessAt(method, port, i) == Node(method, port, <<i>>, <<>>, TRUE)

Statement(op, name, value, arms) == [op |-> op, name |-> name, value |-> value, arms |-> arms]
LetVar(x, e)  == Statement("let", x, e, <<>>)
Put(port, e)  == Statement("expr", "", Node("put", port, <<>>, <<e>>, TRUE), <<>>)
PutAt(port, i, e) == Statement("expr", "", Node("put", port, <<i>>, <<e>>, TRUE), <<>>)
Arm(pattern, x, body) == [pattern |-> pattern, name |-> x, body |-> body]
If(e, then, else) == Statement("if", "", e, <<Arm("any", "", then), Arm("any", "", else)>>)
MatchTry(port, some, none) ==
    Statement("match", "", Access("try_take", port),
              <<Arm("some", "v", some), Arm("none", "", none)>>)

-----------------------------------------------------------------------------
(* c is a Cell, q a queue to take from, o one to put to, regs two Cells, m *)
(* a Cell that holds an array.                                             *)
RulePort(name, kind, size) ==
    [name |-> name, kind |-> kind, elem |-> <<"Bits">>, size |-> size, init |-> 0]

ArrayCell(name) == [RulePort(name, "state", 0) EXCEPT !.elem = <<"Array", "Bits">>]

RulePorts == <<RulePort("c", "state", 0), RulePort("q", "consumes", 0),
               RulePort("o", "produces", 0), RulePort("regs", "state", 2), ArrayCell("m")>>

OneRule(body) ==
    [procs |-> "P" :> [ports |-> RulePorts, rules |-> <<body>>, memory |-> FALSE],
     pipes |-> <<>>]

TakeC == LetVar("x", Access("take", "c"))
PutC  == Put("c", Lit)
TakeM == LetVar("a", Access("take", "m"))

(* At most two statements about c. *)
Bodies == {<<>>, <<TakeC>>, <<PutC>>, <<TakeC, PutC>>, <<PutC, TakeC>>,
           <<TakeC, Put("c", Var("x"))>>, <<Put("o", Var("x"))>>}

Conditionals ==
    {If(e, a, b) : e \in {True, Lit, Of("cmp", <<Access("take", "c"), Lit>>)}, a, b \in Bodies}
    \union {MatchTry(port, a, b) : port \in {"q", "c"}, a, b \in Bodies}

Nested == {If(True, a \o <<MatchTry("q", b, d)>>, e) :
              a \in {<<>>, <<TakeC>>}, b, d \in {<<>>, <<PutC>>},
              e \in {<<>>, <<TakeC, PutC>>}}

(* Accesses inside expressions, to arrays, and misused. *)
Statements ==
    {TakeC, PutC, Put("c", Access("take", "c")), Put("o", Var("x")), Put("o", Var("v")),
     Put("o", Access("take", "q")), Put("o", Of("slice", <<Access("take", "c")>>)),
     Put("o", Of("bin", <<Access("take", "c"), Var("x")>>)), Put("o", Access("peek", "c")),
     LetVar("x", Of("some", <<Access("peek", "c")>>)),
     LetVar("x", AccessAt("take", "regs", Lit)), LetVar("x", AccessAt("peek", "regs", Var("x"))),
     PutAt("regs", Access("take", "q"), Var("x")), PutAt("regs", Lit, Lit),
     PutAt("q", Lit, Lit), Put("q", AccessAt("peek", "regs", Lit)),
     LetVar("q", True), LetVar("x", Access("drop", "q")),
     Statement("match", "", Access("peek", "c"), <<Arm("bind", "v", <<PutC>>)>>),
     TakeM, Put("o", ElementAt(Var("a"), Var("x"))), Put("o", ElementAt(Var("x"), Lit)),
     Put("m", UpdateAt(Var("a"), Access("take", "q"), Var("x")))}

(* An array is taken, read and put back.  Of what stands in its index or   *)
(* its new value, "x" may be unbound; "c" is taken unseen; an element of   *)
(* regs stays a call.                                                      *)
OnArray ==
    {<<TakeM, s, Put("m", UpdateAt(Var("a"), i, Var("x")))>> :
        s \in {TakeC, LetVar("x", ElementAt(Var("a"), Lit)), LetVar("x", ElementAt(Lit, Lit)),
               Put("o", ElementAt(Var("a"), AccessAt("peek", "regs", Lit)))},
        i \in {Lit, Var("x"), Access("take", "q"), Access("take", "c"), AccessAt("take", "regs", Var("x"))}}

RuleFamily ==
    {OneRule(before \o <<s>> \o after) :
        before \in {<<>>, <<TakeC>>}, s \in Conditionals \union Nested,
        after \in {<<>>, <<PutC>>, <<Put("o", Var("v"))>>}}
    \union {OneRule(<<s, t>>) : s, t \in Statements}
    \union {OneRule(<<s, t, PutC>>) : s, t \in Statements}
    \union {OneRule(s) : s \in OnArray}

=============================================================================
