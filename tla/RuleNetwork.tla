---------------------------- MODULE RuleNetwork -----------------------------
(***************************************************************************)
(* A process network as the hardware the SystemVerilog back end makes of   *)
(* it (src/src/lower.rs), clock cycle by clock cycle: in every cycle each  *)
(* process fires the rules its schedule allows, all of them from the same  *)
(* register and queue contents.                                            *)
(*                                                                         *)
(* A queue is the bounded FIFO that TbnFifo implements when it does not    *)
(* start full, hence no initial token in a queue of depth 1.  An external  *)
(* queue has no FIFO, and what is at its port in a cycle is up to the      *)
(* environment.  The conditions of if and match statements on data are     *)
(* left open: any path whose try_take patterns match may be followed; and  *)
(* what a rule computes is any function of what it read.                   *)
(***************************************************************************)
EXTENDS DeadlockAnalysis

CONSTANTS
    Networks,            \* the process networks considered
    Values,              \* number of values a token has
    Computed(_, _, _, _) \* what a rule, on a path, writes to an edge, of what it read

Data == 0 .. Values - 1

(* A rule accesses its own ends of the edges only, and peeks Cells.        *)
AtItsEnds(n, p, body) ==
    LET in  == {q \in Queues(n) : n.queues[q].dst = p}
        out == {q \in Queues(n) : n.queues[q].src = p}
        own == {c \in Cells(n) : n.cells[c].owner = p}
    IN  /\ body.some \union body.none \subseteq in
        /\ body.takes \subseteq in \union own
        /\ body.puts \subseteq out \union own
        /\ body.peeks \subseteq Cells(n)

(* A match on try_take has arms, and they are among the paths.             *)
WellFormed(n) ==
    /\ Queues(n) \intersect Cells(n) = {}
    /\ IsFiniteSet(Procs(n)) /\ IsFiniteSet(Queues(n))
    /\ \A q \in Queues(n) :
           /\ n.queues[q].depth \in Nat \ {0}
           /\ n.queues[q].init \in Nat
           /\ n.queues[q].init > 0 => n.queues[q].depth > 1
    /\ \A p \in Procs(n) :
           /\ IsFiniteSet(DOMAIN n.rules[p])
           /\ DOMAIN n.rules[p] = 0 .. Cardinality(DOMAIN n.rules[p]) - 1
           /\ \A rule \in RulesOf(n, p) :
                  /\ rule.top.some = {} /\ rule.top.none = {}
                  /\ \A body \in Bodies(rule) : AtItsEnds(n, p, body)

(* What is read when a rule follows a path, and the values it may find.    *)
Reads(rule, path) == UNION {b.takes \union b.some \union b.peeks : b \in {rule.top, path}}

ASSUME NetworksAssumption ==
    /\ Values \in Nat \ {0}
    /\ \A n \in Networks :
           /\ WellFormed(n)
           /\ \A rule \in AllRules(n) : \A path \in rule.paths \union {NoAccess}, e \in Edges(n) :
                  \A read \in [Reads(rule, path) -> Data] : Computed(rule, path, e, read) \in Nat

VARIABLES
    net,     \* the network compiled; it never changes
    groups,  \* rule groups of every process; they never change
    queue,   \* contents of every queue that has a FIFO, the head first
    cell     \* c_<cell>_q, the register of every Cell

vars == <<net, groups, queue, cell>>

External == {q \in Queues(net) : ~({net.queues[q].src, net.queues[q].dst} \subseteq Procs(net))}
Internal == Queues(net) \ External

(* A FIFO is loaded with one token at reset, and that token is the number  *)
(* written after "init =".                                                 *)
Preloaded(init) == IF init = 0 THEN <<>> ELSE <<init % Values>>

(* Schedule of one process, as RuleSchedule computes it. *)
ScheduleOf(n, p) ==
    GroupRules(Cardinality(DOMAIN n.rules[p]),
               Conflicts([i \in DOMAIN n.rules[p] |-> MutableEdges(n.rules[p][i])]))

Init ==
    /\ net \in Networks
    /\ groups = [p \in Procs(net) |-> ScheduleOf(net, p)]
    /\ queue = [q \in Internal |-> Preloaded(net.queues[q].init)]
    /\ cell = [c \in Cells(net) |-> 0]

-----------------------------------------------------------------------------
(* What a cycle starts from.                                               *)

(* Port contents of the external queues: something or nothing to take, or  *)
(* room or none to put.                                                    *)
Environments == [External -> {<<>>} \union {<<d>> : d \in Data}]

Now(env) ==
    [queue |-> [q \in Queues(net) |-> IF q \in External THEN env[q] ELSE queue[q]],
     cell  |-> cell]

EdgeRoom(q) == IF q \in External THEN 1 ELSE net.queues[q].depth

deq_valid(s, q) == s.queue[q] # <<>>
enq_ready(s, q) == Len(s.queue[q]) < EdgeRoom(q)

RuleAt(id) == net.rules[id[1]][id[2]]

(* Mutant of can_fire: room is not asked for.                              *)
MutCanFireWhenFull(s, id) ==
    \A q \in Takes(RuleAt(id)) \intersect Queues(net) : deq_valid(s, q)

(* A blocking take in any branch, a put at top level only. *)
can_fire(s, id) ==
    /\ \A q \in Takes(RuleAt(id)) \intersect Queues(net) : deq_valid(s, q)
    /\ \A q \in RuleAt(id).top.puts \intersect Queues(net) : enq_ready(s, q)

Firing(s) ==
    UNION {{p} \X WillFire(groups[p], {i \in DOMAIN net.rules[p] : can_fire(s, <<p, i>>)})
           : p \in Procs(net)}

Matches(s, path) ==
    /\ \A q \in path.some : deq_valid(s, q)
    /\ \A q \in path.none : ~deq_valid(s, q)

(* The paths a firing rule may follow; none when no pattern matches.       *)
Followable(s, id) ==
    LET matching == {path \in RuleAt(id).paths : Matches(s, path)}
    IN  IF matching = {} THEN {NoAccess} ELSE matching

(* The choices left to data: a path for every rule that fires.             *)
Followed(s) ==
    {f \in [Firing(s) -> UNION {Followable(s, id) : id \in Firing(s)}] :
        \A id \in Firing(s) : f[id] \in Followable(s, id)}

-----------------------------------------------------------------------------
(* What a rule that follows a path reads and writes.                       *)

Writes(id, path) == RuleAt(id).top.puts \union path.puts

Read(s, id, path) ==
    [e \in Reads(RuleAt(id), path) |-> IF e \in Cells(net) THEN s.cell[e] ELSE Head(s.queue[e])]

(* Mutant of Output: no truncation to the width of the port.               *)
MutOutputTooWide(s, id, path, e) == Computed(RuleAt(id), path, e, Read(s, id, path))

(* What is put to the queue, or written to the Cell e.                     *)
Output(s, id, path, e) == Computed(RuleAt(id), path, e, Read(s, id, path)) % Values

(* deq_ready: will_fire of every rule with a blocking take of the queue in *)
(* any branch, and the Some arms followed.                                 *)
deq_ready(f, q) ==
    \E id \in DOMAIN f : q \in Takes(RuleAt(id)) \union f[id].some

(* enq_valid, c_en *)
Written(f, e) == \E id \in DOMAIN f : e \in Writes(id, f[id])

(* enq_data, c_d: of several writers the schedule leaves at most one.      *)
Driven(s, f, e) ==
    LET writer == CHOOSE id \in DOMAIN f : e \in Writes(id, f[id])
    IN  Output(s, writer, f[writer], e)

(* The FIFO: a put to a full queue has no effect.                          *)
QueueAfter(s, f, q) ==
    LET left == IF deq_ready(f, q) /\ deq_valid(s, q) THEN Tail(s.queue[q]) ELSE s.queue[q]
    IN  IF Written(f, q) /\ enq_ready(s, q) THEN Append(left, Driven(s, f, q)) ELSE left

CellAfter(s, f, c) == IF Written(f, c) THEN Driven(s, f, c) ELSE s.cell[c]

After(s, f) ==
    [queue |-> [q \in Queues(net) |-> QueueAfter(s, f, q)],
     cell  |-> [c \in Cells(net) |-> CellAfter(s, f, c)]]

Cycle ==
    \E env \in Environments : \E f \in Followed(Now(env)) :
        /\ queue' = [q \in Internal |-> QueueAfter(Now(env), f, q)]
        /\ cell' = [c \in Cells(net) |-> CellAfter(Now(env), f, c)]
        /\ UNCHANGED <<net, groups>>

Next == Cycle

(* The clock never stops. *)
Spec == Init /\ [][Next]_vars /\ WF_vars(Next)

-----------------------------------------------------------------------------
(* The rules of the language (TOURBILLON.md, Queue and Process): one rule  *)
(* fires at a time, when every queue it takes from is not empty and every  *)
(* queue it puts to is not full.                                           *)

AtomicallyEnabled(s, id, path) ==
    /\ \A q \in (RuleAt(id).top.takes \union path.takes) \intersect Queues(net) : deq_valid(s, q)
    /\ \A q \in Writes(id, path) \intersect Queues(net) : enq_ready(s, q)
    /\ Matches(s, path)

FiredAlone(s, id, path) ==
    LET taken == RuleAt(id).top.takes \union path.takes \union path.some
        left(q) == IF q \in taken THEN Tail(s.queue[q]) ELSE s.queue[q]
    IN  [queue |-> [q \in Queues(net) |->
                       IF q \in Writes(id, path) THEN Append(left(q), Output(s, id, path, q))
                       ELSE left(q)],
         cell  |-> [c \in Cells(net) |->
                       IF c \in Writes(id, path) THEN Output(s, id, path, c) ELSE s.cell[c]]]

(* All that can become of s when the rules fire one after the other, each  *)
(* along the path it followed in the cycle.                                *)
OneAtATime(s, f) ==
    LET outcomes[ids \in SUBSET DOMAIN f] ==
            IF ids = {} THEN {s}
            ELSE UNION {{FiredAlone(t, id, f[id]) :
                             t \in {u \in outcomes[ids \ {id}] : AtomicallyEnabled(u, id, f[id])}}
                        : id \in ids}
    IN  outcomes[DOMAIN f]

-----------------------------------------------------------------------------
(* Type invariant: what the queues and the Cells hold are tokens.          *)
TypeOK ==
    /\ net \in Networks
    /\ DOMAIN groups = Procs(net)
    /\ queue \in [Internal -> Seq(Data)]
    /\ cell \in [Cells(net) -> Data]

(* A put in a branch is lost: its queue is full. *)
DropsToken(s, f) ==
    \E id \in DOMAIN f : \E q \in f[id].puts \intersect Queues(net) : ~enq_ready(s, q)

(* A token is consumed for a take in a branch that is not followed. *)
ConsumesUnread(f) ==
    \E id \in DOMAIN f :
        (Takes(RuleAt(id)) \ (RuleAt(id).top.takes \union f[id].takes)) \intersect Queues(net) # {}

(* g saw what h changes in the same cycle: g can only have come first.     *)
SawBefore(f, g, h) ==
    /\ g # h
    /\ Writes(h, f[h]) \intersect (RuleAt(g).top.peeks \union f[g].peeks \union f[g].none) # {}

SawEachOther(f) ==
    \E ids \in SUBSET DOMAIN f :
        ids # {} /\ \A h \in ids : \E g \in ids : SawBefore(f, g, h)

(* Rules that fire together do what they would have done one at a time, in *)
(* some order, unless a cycle loses a token (PutsWaitForRoom) or its rules *)
(* observe each other in a circle, as two rules that each peek the Cell    *)
(* the other one writes.                                                   *)
CyclesAreAtomic ==
    \A env \in Environments : \A f \in Followed(Now(env)) :
        DropsToken(Now(env), f) \/ ConsumesUnread(f) \/ SawEachOther(f)
            \/ After(Now(env), f) \in OneAtATime(Now(env), f)

(* No queue is written twice or read twice in one cycle. *)
OneWriterOneReader ==
    \A env \in Environments : \A f \in Followed(Now(env)) : \A id1, id2 \in DOMAIN f :
        id1 # id2 =>
            /\ Writes(id1, f[id1]) \intersect Writes(id2, f[id2]) = {}
            /\ (Takes(RuleAt(id1)) \union f[id1].some)
                  \intersect (Takes(RuleAt(id2)) \union f[id2].some) = {}

(* TOURBILLON.md: put blocks when the queue is full, and a rule fires when *)
(* all output queues it writes to are not full.                            *)
PutsWaitForRoom ==
    \A env \in Environments : \A f \in Followed(Now(env)) :
        \A q \in Queues(net) : Written(f, q) => enq_ready(Now(env), q)

-----------------------------------------------------------------------------
(* Deadlock. *)

Closed == External = {}

(* TOURBILLON.md: the deadlock check is "conservative but sound: may       *)
(* reject some valid designs, never accept a deadlocking one".             *)
AcceptedNeverStuck == Closed /\ Accepted(net) => Firing(Now(<<>>)) # {}

(* A ring of processes that each pass tokens from the one queue that ends  *)
(* in them to the one that starts in them.                                 *)
Ring ==
    /\ Closed /\ Cells(net) = {}
    /\ Components(net) = {Procs(net)}
    /\ \A q \in Queues(net) : ~net.queues[q].async
    /\ \A p \in Procs(net) :
          /\ DOMAIN net.rules[p] = {0}
          /\ net.rules[p][0].paths = {}
          /\ \E in, out \in Queues(net) :
                /\ net.rules[p][0].top.takes = {in}
                /\ net.rules[p][0].top.puts = {out}
                /\ {q \in Queues(net) : net.queues[q].dst = p} = {in}
                /\ {q \in Queues(net) : net.queues[q].src = p} = {out}

(* An accepted ring never stops: in every cycle some process fires, for no *)
(* cycle loses the last token or fills the last free place.                *)
AcceptedRingsNeverStuck == Ring /\ Accepted(net) => Firing(Now(<<>>)) # {}

(* Every process of an accepted ring fires again and again.                *)
AcceptedRingsKeepRunning ==
    \A p \in UNION {Procs(n) : n \in Networks} :
        []<>(Ring /\ Accepted(net) /\ p \in Procs(net)
                => \E id \in Firing(Now(<<>>)) : id[1] = p)

=============================================================================
