---------------------------- MODULE PipePrograms ----------------------------
(***************************************************************************)
(* Programs for the runs of FrontEnd: processes with simple rules, and     *)
(* families of pipes made of them.                                         *)
(***************************************************************************)
EXTENDS RulePrograms

Port(name, kind) == RulePort(name, kind, 0)
Process(ports, body) == [ports |-> ports, rules |-> <<body>>, memory |-> FALSE]

TakeX(port) == LetVar("x", Access("take", port))

(* W writes, R reads, F forwards and has a Cell, K peeks, S has only the   *)
(* Cell, M uses a memory and A an array of ports.                          *)
AllProcesses ==
    "W" :> Process(<<Port("out", "produces")>>, <<Put("out", Lit)>>)
    @@ "R" :> Process(<<Port("in", "consumes")>>, <<TakeX("in")>>)
    @@ "F" :> Process(<<Port("in", "consumes"), Port("out", "produces"), Port("s", "state")>>,
                      <<TakeX("in"), Put("out", Var("x"))>>)
    @@ "K" :> Process(<<Port("p", "peeks")>>, <<LetVar("x", Access("peek", "p"))>>)
    @@ "S" :> Process(<<Port("s", "state")>>, <<>>)
    @@ "M" :> Process(<<Port("req", "produces"), Port("resp", "consumes"),
                        [Port("wr", "produces") EXCEPT !.elem = <<"Tuple">>]>>,
                      <<Put("req", Lit)>>)
    @@ "A" :> Process(<<RulePort("outs", "produces", 2), RulePort("regs", "state", 2)>>,
                      <<PutAt("outs", Lit, Lit)>>)
    @@ "B" :> Process(<<RulePort("peeked", "peeks", 2)>>, <<LetVar("x", AccessAt("peek", "peeked", Lit))>>)

-----------------------------------------------------------------------------
Queue(name)    == [name |-> name, elem |-> <<"Bits">>, kind |-> "queue", depth |-> 2, init |-> 0, ext |-> FALSE]
Async(name, d) == [Queue(name) EXCEPT !.kind = "async", !.depth = d]
Extern(name)   == [Queue(name) EXCEPT !.ext = TRUE, !.depth = 1]
Flag(name)      == [Queue(name) EXCEPT !.elem = <<"Bool">>]

Bind(port, q) == [port |-> port, target |-> <<q>>]
BindCell(port, owner, cell) == [port |-> port, target |-> <<owner, ".", cell>>]
Inst(of, domain, bind) == [of |-> of, domain |-> domain, bind |-> bind]
Pipe(queues, domains, insts) ==
    [queues |-> queues, memories |-> <<>>, domains |-> domains, insts |-> insts]

(* Only what is instantiated by Top, at most two levels down. *)
Instantiated(pipes, ps) ==
    {pipes[p].insts[i].of : <<p, i>> \in UNION {{p} \X DOMAIN pipes[p].insts : p \in ps}}
Program(pipes) ==
    LET with(ps) == ps \union (Instantiated(pipes, ps) \intersect DOMAIN pipes)
        kept == with(with({"Top"}))
    IN  [procs |-> [p \in DOMAIN AllProcesses \intersect Instantiated(pipes, kept)
                        |-> AllProcesses[p]],
         pipes |-> [p \in kept |-> pipes[p]]]
Flat(pipe) == Program("Top" :> pipe)

-----------------------------------------------------------------------------
(* Pipes without children: W, R and a third instance around one or two     *)
(* queues, with bindings missing, doubled, of the wrong type or to nothing.*)
QueueLists ==
    {<<Queue("a"), Queue("b")>>, <<Queue("a"), Async("b", 4)>>, <<Queue("a"), Async("b", 3)>>,
     <<Queue("a"), Extern("b")>>, <<Queue("a"), Flag("b")>>, <<Queue("a")>>}

Third(domain) ==
    {Inst("F", domain, <<Bind("in", q), Bind("out", r)>>) : q, r \in {"a", "b"}}
    \union {Inst("K", domain, <<Bind("p", "a")>>), Inst("X", domain, <<>>),
            Inst("R", domain, <<Bind("in", "b")>>), Inst("W", domain, <<Bind("in", "b")>>)}

TwoQueues ==
    {Flat(Pipe(queues, <<>>, <<Inst("W", "", w), Inst("R", "", r), x>>)) :
        queues \in QueueLists, w \in {<<Bind("out", "a")>>, <<>>},
        r \in {<<Bind("in", "a")>>, <<Bind("in", "b")>>, <<BindCell("in", "F", "s")>>},
        x \in Third("")}

TwoDomains ==
    {Flat(Pipe(queues, domains,
               <<Inst("W", d1, <<Bind("out", "a")>>), Inst("R", d2, <<Bind("in", "b")>>),
                 Inst("F", d3, <<Bind("in", "a"), Bind("out", "b")>>),
                 Inst("K", d1, <<BindCell("p", "F", "s")>>)>>)) :
        queues \in {<<Queue("a"), Queue("b")>>, <<Queue("a"), Async("b", 4)>>,
                    <<Async("a", 4), Async("b", 2)>>, <<Extern("a"), Async("b", 1)>>},
        domains \in {<<"x", "y">>, <<"x", "x">>, <<>>},
        d1, d2, d3 \in {"", "x", "y"}}

(* A state port bound to a queue, and an instance that comes twice. *)
Oddities ==
    {Flat(Pipe(<<Queue("a"), Queue("b")>>, <<>>,
               <<Inst("S", "", s), Inst("W", "", <<Bind("out", "a")>>), x, Inst("K", "", k)>>)) :
        s \in {<<>>, <<Bind("s", "a")>>, <<Bind("s", "b")>>, <<Bind("s", "b"), Bind("s", "a")>>},
        x \in {Inst("R", "", <<Bind("in", "a")>>), Inst("W", "", <<Bind("out", "b")>>),
               Inst("S", "", <<Bind("s", "b")>>)},
        k \in {<<BindCell("p", "S", "s")>>, <<BindCell("p", "R", "in")>>, <<Bind("p", "b")>>}}

-----------------------------------------------------------------------------
(* One child with up to three queues that may be bound, one of them inside *)
(* or external, in a parent with W and R.                                  *)
Child ==
    Pipe(<<Queue("i"), Queue("m"), Queue("o")>>, <<>>,
         <<Inst("F", "", <<Bind("in", "i"), Bind("out", "m")>>),
           Inst("K", "", <<BindCell("p", "F", "s")>>),
           Inst("R", "", <<Bind("in", "m")>>), Inst("W", "", <<Bind("out", "o")>>)>>)

Pin ==
    Pipe(<<Queue("i"), Extern("o")>>, <<>>,
         <<Inst("F", "", <<Bind("in", "i"), Bind("out", "o")>>)>>)

InDomains == Pipe(<<Async("i", 2), Queue("o")>>, <<"x", "y">>,
                  <<Inst("W", "x", <<Bind("out", "i")>>), Inst("R", "y", <<Bind("in", "i")>>),
                    Inst("F", "x", <<Bind("in", "o"), Bind("out", "o")>>)>>)

ParentQueues == {<<Queue("a"), Queue("b")>>, <<Queue("a"), Async("b", 4)>>, <<Queue("a"), Extern("b")>>}

(* Domains of the parent, of W and of R. *)
DomainChoices ==
    {<<<<>>, "", "">>, <<<<"x", "y">>, "x", "">>, <<<<"x", "y">>, "x", "x">>, <<<<"x", "y">>, "x", "y">>}

WithChild ==
    {LET w == Inst("W", d[2], <<Bind("out", q)>>)
         r == Inst("R", d[3], <<Bind("in", "b")>>)
     IN  Program("Top" :> Pipe(queues, d[1], IF first THEN <<c, w, r>> ELSE <<w, r, c>>)
                    @@ "C" :> child) :
        queues \in ParentQueues, d \in DomainChoices, first \in BOOLEAN, q \in {"a", "b"},
        child \in {Child, Pin, InDomains},
        c \in {Inst("C", domain, bind) : domain \in {"", "x"},
               bind \in {<<Bind("i", "a"), Bind("o", "b")>>, <<Bind("o", "b"), Bind("i", "a")>>,
                         <<Bind("i", "a")>>, <<Bind("o", "a")>>}}}

(* Two children joined by a queue, the same one twice, a pipe in itself,   *)
(* and a pipe in a pipe in a pipe.                                         *)
Writers == Pipe(<<Queue("o")>>, <<>>, <<Inst("W", "", <<Bind("out", "o")>>)>>)
Readers == Pipe(<<Queue("i")>>, <<>>, <<Inst("R", "", <<Bind("in", "i")>>)>>)
Middle(target) ==
    Pipe(<<Queue("m"), Queue("n")>>, <<>>,
         <<Inst("Readers", "", <<Bind("i", target)>>), Inst("W", "", <<Bind("out", "m")>>)>>)

Joined2 ==
    {Program("Top" :> Pipe(queues, <<>>, <<x, y>>)
        @@ "Writers" :> Writers @@ "Readers" :> Readers @@ "Middle" :> Middle(target)
        @@ "Self" :> Pipe(<<>>, <<>>, <<Inst("Self", "", <<>>)>>)) :
        queues \in {<<Queue("a")>>, <<Queue("a"), Queue("b")>>}, target \in {"m", "n"},
        x \in {Inst("Writers", "", <<Bind("o", q)>>) : q \in {"a", "b"}},
        y \in {Inst("Readers", "", <<Bind("i", "a")>>), Inst("Middle", "", <<>>),
               Inst("Middle", "", <<Bind("n", "a")>>), Inst("Middle", "", <<Bind("m", "a")>>),
               Inst("Writers", "", <<Bind("o", "a")>>), Inst("Self", "", <<>>)}}

(* Inner forwards, Outer has another stage on either side of it. *)
Inner == Pipe(<<Queue("i"), Queue("o")>>, <<"y">>,
              <<Inst("F", "y", <<Bind("in", "i"), Bind("out", "o")>>)>>)
Outer(before, after) ==
    Pipe(<<Queue("i"), Queue("h"), Queue("o")>>, <<>>,
         <<Inst("Inner", "", <<Bind("i", before), Bind("o", after)>>),
           Inst("F", "", <<Bind("in", "i"), Bind("out", "h")>>)>>)

Nested3 ==
    {Program("Top" :> Pipe(<<Queue("a"), Queue("b")>>, domains,
                           <<Inst("W", w, <<Bind("out", "a")>>), Inst("R", r, <<Bind("in", "b")>>),
                             Inst("Outer", d, <<Bind("i", "a"), Bind("o", "b")>>)>>)
        @@ "Inner" :> Inner @@ "Outer" :> outer) :
        domains \in {<<>>, <<"x", "y">>}, w \in {"", "x"}, r \in {"", "y"}, d \in {"", "x", "y"},
        outer \in {Outer("h", "o"), Outer("i", "o"),
                   Pipe(<<Queue("i"), Queue("o")>>, <<>>,
                        <<Inst("Inner", "", <<Bind("i", "i"), Bind("o", "o")>>)>>)}}

Towers == Joined2 \union Nested3

-----------------------------------------------------------------------------
(* A memory used from the pipe that declares it or from a child of it, and *)
(* arrays of ports.                                                        *)
MemoryUser(where, wr) ==
    Inst(where, "", <<Bind("req", "m_read_req"), Bind("resp", "m_read_resp")>>
                    \o (IF wr THEN <<Bind("wr", "m_write_req")>> ELSE <<>>))

UsesMemory ==
    Pipe(<<Queue("req"), Queue("resp"), [Queue("wr") EXCEPT !.elem = <<"Tuple">>]>>, <<>>,
         <<Inst("M", "", <<Bind("req", "req"), Bind("resp", "resp"), Bind("wr", "wr")>>)>>)

Memories ==
    {Program("Top" :> [Pipe(<<>>, domains, <<MemoryUser(of, wr)>>) EXCEPT !.memories = <<"m">>]
                @@ "UsesMemory" :> UsesMemory) :
        of \in {"M", "UsesMemory"}, wr \in BOOLEAN, domains \in {<<>>, <<"x">>}}

Regs(owner) == [port |-> "peeked", target |-> <<owner, ".", "regs">>]

PortArrays ==
    {Flat(Pipe(queues, <<>>,
               <<Inst("A", "", <<Bind("outs", q)>>), Inst("B", "", <<Regs(owner)>>),
                 Inst("R", "", <<Bind("in", "a_0")>>), Inst("F", "", <<Bind("in", "a_1"), Bind("out", "o")>>)>>)) :
        queues \in {<<Queue("a_0"), Queue("a_1"), Extern("o")>>, <<Queue("a_0"), Extern("o")>>},
        q \in {"a", "b"}, owner \in {"A", "F"}}

PipeFamily ==
    TwoQueues \union TwoDomains \union Oddities \union WithChild \union Towers
        \union Memories \union PortArrays

=============================================================================
