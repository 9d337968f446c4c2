# Tourbillon: specifications, model checks and proofs

Tourbillon compiles a rule-based hardware description language (`.tbn`) to
SystemVerilog or Chisel. A design is a network of *processes* joined by bounded
*queues*; a process has *rules* that take tokens, compute and put tokens, and
*Cells*, registers that a rule borrows with `take` and gives back with `put`.
The compiler's promise is that the circuit it emits behaves as if rules fired
one at a time, atomically, on queues that neither lose nor invent tokens.

This directory models the parts of the compiler and of its output on which that
promise rests. Paths below are relative to the repository.

## 1. Inventory

### Components

| Component | State | Operations | Hard behaviour | What makes it correct |
|---|---|---|---|---|
| **tbn_fifo** (`src/lower.rs`, `fifo_module_sv`) | storage, `rd_ptr`, `wr_ptr`, `count` | clock edge with put and/or take, reset with preloaded tokens | simultaneous put and take; wrap at a depth that is no power of two; starting full | a bounded FIFO |
| **tbn_async_fifo** (`src/lower.rs`, `async_fifo_module_sv`; `chisel/.../TbnAsyncFifo.scala`) | storage, two binary pointers, four Gray-coded synchroniser registers | write-clock edge, read-clock edge, both at once, resets | unrelated clocks, sampling a moving pointer, stale full and empty, one-sided reset | a bounded FIFO; nothing stays hidden |
| **Scheduler** (`src/schedule.rs`) | groups of rules per process | collect resources, conflict pairs, first-fit grouping | order of groups decides who wins a cycle | rules that fire together do not conflict |
| **Rule hardware** (`src/lower.rs`, `emit_*`) | queue contents, Cell registers | one clock cycle: `can_fire`, `will_fire`, rule bodies, wiring | many rules of many processes act on the same old state | every cycle equals some sequence of atomic firings |
| **Deadlock analysis** (`src/deadlock.rs`) | none (a pass over the network) | classify edges, components, count tokens and depth | its verdict is about all future behaviour | an accepted network keeps running |
| **Desugaring** (`src/desugar.rs`) | none (a pass over a tree) | expand arrays of ports, indexed accesses, bindings, memories | an access by a computed index becomes a match over the elements | the rule does what it did |
| **Type checker** (`src/types/check.rs`, `env.rs`) | scopes of names | walk a rule, open and drop scopes | a name bound in one arm and used after it; operands that are not visited | every variable it looks at is bound on every path to its use |
| **Linearity checker** (`src/types/linearity.rs`) | abstract state of each Cell | walk a rule body, join at if and match | branches that disagree, nested expressions | every path takes and puts each Cell at most once, in that order |
| **Elaboration** (`src/elaborate.rs`, `src/ir.rs`) | graph, port bindings, name-to-edge map, deferred edges and peeks | thirteen phases: inline child pipes, declare queues, wire ports, replace and remove edges, check wiring and crossings | stored indices after removal; ends inherited in the order of visits; two instances of one process | every port is bound to the edge its declaration names |
| **Chisel back end** (`src/lower_chisel.rs`) | connections to wires, last one counts | enables, defaults, rules, `deq_ready` wiring | the order in which connections are emitted | the same hardware as the SystemVerilog back end |
| **Driver** (`src/lib.rs`, `src/main.rs`) | diagnostics so far | run the passes, stop at the first that reports | a pass must not see what an earlier one refused | only checked programs are elaborated, only accepted ones emitted |
| **CPU core** (`examples/cpu_core.tbn`) | one next-PC token, pipeline queues, `stash`, register file, trap registers, tags | Fetch, Decode, Execute phases 0-5, Writeback | memory operations of two beats, puts in branches that no enable guards, results not yet committed | to a program, one instruction after the other |
| **Marie SoC** (`examples/marie.tbn`) | adapter phase, crossbar phase, device state, crossing FIFOs, UART byte queues | bus requests and responses over three clock domains | unguarded puts in branches, reads before writes, views two edges old | one outstanding request, no dropped bus token, memory that is a memory |
| **SPI bridges** (`examples/spi2tlul*.tbn`) | frame state machines | SPI frame to TileLink and back | two domains, chip-select as reset | - |
| Lexer and parser, graph/wave/diagnostics, provenance and cache, test benches | - | pure functions over text and trees, printing, files | - | - |

### How they interact

The driver runs parse, desugar, type check with linearity, elaborate, schedule,
deadlock analysis, lower, each on the result of the one before; the first that
reports an error is the last. Elaboration fixes the network; the scheduler looks at the rules of one process at a time
and hands the back end an ordered list of groups; the deadlock analysis reads
the scheduler's resource sets and rejects networks. In the emitted circuit the
processes share only queues (FIFO instances) and Cells (registers, which other
processes may peek), all driven by one `always_comb` block and clocked
together within a domain; domains meet only in crossing FIFOs.

The CPU core and the SoC are designs in the language, and the largest programs
the compiler is used on. In the core, the four stages hand an instruction on
through queues of depth 1, and Execute hands the next program counter back to
Fetch. Execute asks a memory port for a word, or sends it one, and waits. In
`rv32i.tbn` the port leads to a memory in the same domain; in `marie.tbn` to an
adapter, which turns it into bus requests to a crossbar in a second domain,
which sends them to devices in a third, through two AsyncQueues per link.

## 2. Modules

| Module | Models |
|---|---|
| `BoundedQueue` | abstract: what a queue promises, `put`, `take`, reset |
| `TbnFifo`, `MCTbnFifo` | the synchronous FIFO, register by register; implements `BoundedQueue` |
| `TbnFifoProofs` | that it does, for every depth |
| `AsyncFifo` | intermediate: a crossing with numeric pointers and late views of them |
| `TbnAsyncFifo`, `MCTbnAsyncFifo` | the emitted crossing FIFO with Gray-coded pointers; implements `AsyncFifo` and `BoundedQueue` |
| `AsyncFifoProofs` | that `AsyncFifo` implements `BoundedQueue`, for every depth |
| `CircuitProofs` | that the Gray-coded circuit implements `AsyncFifo`, and steps as `ClockedQueues` says, for every power of two from 4 on |
| `RuleSchedule` | scheduler and enable logic as operators: `MutableEdges`, `Conflicts`, `GroupRules`, `WillFire` |
| `GroupRules`, `MCGroupRules` | the grouping loop, one turn per step, over arbitrary resource sets |
| `GroupRulesProofs` | its invariants, for every process |
| `DeadlockAnalysis` | network records and the analysis of `deadlock.rs` as operators |
| `RuleNetwork` | a compiled network, cycle by cycle, next to the language's atomic semantics |
| `NetworkProofs` | that a cycle is some sequence of atomic firings, that the back ends agree, and that accepted rings are never stuck, for every network |
| `ExampleNetworks`, `MCRuleNetwork` | networks of the examples and tests, and families of small networks |
| `ChiselNetwork` | the same network as the Chisel back end makes it, to compare with |
| `Elaboration` | elaboration, phase by phase: an action is a turn of one of its loops |
| `DeclaredNetworks` | what a pipe declares, walked through its children, to compare its network with |
| `ElaborationProofs` | that networks stay consistent, and removal keeps every binding, for every program |
| `RuleChecker` | a rule as a tree: desugaring, type check, linearity, resource extraction, and the set of its paths |
| `FrontEnd`, `MCFrontEnd` | the passes composed, over whole programs |
| `RulePrograms`, `PipePrograms` | the families of rules and of pipes that TLC runs through them |
| `Isa` | abstract: a machine that executes one instruction after the other |
| `CpuTypes` | words, capabilities, instructions |
| `ClockedQueues` | what a clock edge does to a queue and to a crossing, as functions |
| `CpuCore` | the four stages, edge by edge; `CpuAlone` adds memory in the same domain |
| `MarieSoc` | adapter, crossbar, memory device, UART and other devices in three domains |
| `CpuSystems`, `MCCpuSystems` | both systems; implement `Isa` |
| `PipelineProofs` | a link of two crossings takes turns; one request on the bus; one credit; the tag comes first; no put of the pipeline or the bus meets a full queue |
| `IsaProofs` | types; both systems implement `Isa`; `x0` stays zero |

Operators whose names begin with `Mut` are mutants: each replaces one
definition of the model by what a plausible slip in the code would make of it
(an off-by-one, a missing reset, a synchroniser with an enable). Every property
checked is violated under at least one of them; `PROJECT.json` pairs them.

### State and actions against the code

- **TbnFifo.** The variables are the registers of the module text, plus `put`
  and `taken`, the tokens handed over in the last cycle. `Clock` is the `else`
  part of the `always_ff` block, for any producer and consumer; `Reset` is its
  `if`. A write outside the array has no effect, and a pointer outside it
  counts on in its own width, as in the language standard: that is what
  happens at depth 1 with an initial token.
- **TbnAsyncFifo.** An action per clock edge. The clocks are unrelated, so any
  edge may follow any other, and both may rise within one aperture
  (`BothClk`): then each bit of a synchroniser's first register settles to its
  old or its new value on its own. `Reset` resets both domains; `WrReset` and
  `RdReset` are the one-sided resets that the domain-specific wiring allows,
  and occur in `SpecDomainResets` only.
- **RuleSchedule, GroupRules.** A rule is reduced to the edges it accesses at
  top level and along each path of its conditionals. `PlaceRule` is one turn of
  the loop of `group_rules`; `GroupRules` is the whole loop as a function.
  `WillFire` is the chain of suppressed `will_fire` wires.
- **RuleNetwork.** `Cycle` is a rising edge of the single clock. All decisions
  are taken from the state before it: `can_fire` from the blocking takes of any
  branch and the puts at top level; each firing rule then follows a path,
  chosen freely where the condition depends on data, by the token's presence
  where it is a match on `try_take`. `deq_ready` is raised by every blocking
  take of a rule that fires, also one in a branch not followed, and by the
  `Some` arms followed. Values are computed from what a rule reads by an
  operator `Computed`, any for the proofs and a sum for TLC, enough to tell a
  stale read from a fresh one. External queues have
  no FIFO: their contents are chosen anew in every cycle.
  `AtomicallyEnabled`, `FiredAlone` and `OneAtATime` are the language's own
  semantics, from the rules of TOURBILLON.md, to compare with.
- **ChiselNetwork.** `ChiselWires` is the list of connections in the order the
  back end emits them, the last to a wire counting: defaults, rules by process
  and schedule slot, then `deq_ready`. It reads the state of `RuleNetwork`, so
  both back ends are judged from the same contents, environment and paths.
- **RuleChecker.** A rule is a sequence of statements, an expression a record
  with its operator and arguments. `desugar_stmts`, `check_stmts` with its scope
  stack, `check_stmts_linearity` with `JoinArms`, and `Resources` are the four
  passes over it, as recursive operators; `Paths` is what the rule can do, the
  reference the passes are compared with. Types keep the structure that
  `Option`, `Array`, `Bool`, `Bits` and ports give; widths, records and enums are
  left out. `Visited` names the operands the type checker looks at: of an index or
  an update, the array only.
- **Elaboration.** The variables are the locals of `elaborate_pipe_inner`
  (`work`: nodes, edges, instances, the queue-to-edge map, deferred edges) and
  the networks finished so far. The phases are those the comments of the
  function number; `turn` counts the iterations of a loop. `RemoveEdge` is
  `swap_remove` with the repair of every stored index after it.
  A generated name is the sequence of its parts, so that names are told apart
  as the code tells strings apart, as long as no declared name contains another
  with what elaboration puts between; the suffix of a second instance is as long
  as its number.
- **FrontEnd.** `Desugar`, `CheckRules`, `ElaboratePipes`, `EndElaboration`,
  `Analyze` are the calls of `run_pipeline` (`src/lib.rs`) with its early
  returns. `Scheduled` hands the network to the module `DeadlockAnalysis`.
- **CpuCore.** Each of `Fetch`, `Decode`, `Execute`, `Writeback` is a process,
  and yields what it does at an edge judged from the state before it: what it
  takes, what it puts. `CpuEdge` applies all effects at once. A put at the top
  level of a rule waits for room (Fetch); the others, in branches, are made all
  the same, and `FifoAfter` drops them if the queue is full, as the FIFO does.
  `Execute` has a case per phase of `stash`. `tags` and `tagResp` are the tag
  memory and its response register.
- **MarieSoc.** An action per clock: `CpuClk` (core and adapter), `XbarClk`,
  `DevClk`. A link is two crossings; each edge is applied to the side of it that
  the clock drives. `host` is the link to the crossbar, `device[d]` that to a
  device. `ClockedQueues` tells a crossing by its items and by how far each
  side's knowledge of the other lags: that the emitted circuit is this is a
  property of run `async_fifo` (`StepsAsCrossing`), not an assumption.
- **Isa.** `current` is the instruction under way, with its operand. Each
  operation of the core has an action. The refinement mapping in `CpuSystems`
  takes the registers with the result that Writeback has yet to commit, memory
  with the writes on their way to it, oldest first, and a capability store as
  over with its first word.
- **DeadlockAnalysis.** `Accepted` is "no error reported". Components are
  computed by reachability instead of Tarjan's algorithm.

## 3. Runs

| Run | Question | Bounds | Result |
|---|---|---|---|
| `fifo` | Does tbn_fifo implement the bounded queue? | depth 3 (pointers wrap before their registers do), one preloaded token, 2 values | holds |
| `fifo_depth_one` | Does an accepted put become the youngest token? | depth 1, one preloaded token, as for `next_pcc_q` of the CPU core | **violated** |
| `async_fifo` | Does tbn_async_fifo implement the crossing, and the bounded queue? Does it step as the crossings of `MarieSoc` do? Do tokens and room become visible? | depth 4, as for every AsyncQueue of `marie.tbn`; 2 values | holds |
| `async_resets` | Can one side be reset alone? | the same | **violated** |
| `schedule` | Is every schedule conflict-free, complete, and never idle when a rule is enabled? | all processes of 4 rules over 3 edges: every conflict graph on three rules and a fourth rule to place among their groups | holds |
| `schedule_priority` | Is declaration order priority? | 3 rules, 2 edges | **violated** |
| `network` | Is every cycle a sequence of atomic firings? One writer, one reader per queue? Are accepted rings never stuck, and does every process of theirs keep running? Do the two back ends make the same hardware? | 1915 networks: two processes with queues both ways and peeked Cells, over nine kinds of rule; one process of three rules with an environment; rings of two and three; the examples. 2 values | holds |
| `network_put_full` | Does a put wait for room? | the Router of `examples/branch.tbn`, its outputs external | **violated** |
| `network_deadlock` | Does an accepted closed network always have a rule to fire? | the networks of the deadlock tests | **violated** |
| `front_end` | Do the checks of a rule say what is true of its paths? Does desugaring keep them? Are networks consistent after every turn of elaboration, and bindings kept when edges are renumbered? Is the network of an accepted pipe the one declared? Is a flat pipe accepted exactly when it should be? | 4568 programs: single rules of up to three statements with conditionals nested twice, over a queue, a Cell, an array of two Cells, a Cell that holds an array; pipes of up to four instances and three queues, with and without clock domains, children in a parent, three levels of pipes, memories, arrays | holds |
| `single_writer_reader` | Has every internal queue one producer and one consumer? | the pipes with one child | **violated** |
| `cpu_systems` | Are both CPU systems, to their programs, the sequential machine? Is any put of the pipeline or the bus dropped? Does the tag come before the word? Does `x0` stay zero? Do instructions keep retiring? | words of one bit, two registers, one place in memory, one device; crossings of depth 4, as in `marie.tbn`; UART queues of one byte. About 45000 states | holds, for the programs described below |

The bounds are enough for these reasons. In the FIFOs control depends on the
pointers only, and the runs go round the storage and its pointer space; two
values suffice to see a token replaced by another, since no control depends on
values. The schedule of a process depends on which rules share edges, and all
relations among three or four rules occur. In the networks, what can go wrong
in one cycle involves two rules that meet at a queue or a Cell, and a third
that shares a group with them. In the front end, the linearity check joins arms
pairwise and keeps one state per Cell, so what it can get wrong shows with one
Cell, two statements before and after, and two levels of conditionals; an edge
is renumbered when one before it is removed, which takes two replaced queues,
and the wiring of a queue depends on at most two instances and the order of
the phases. In the CPU systems, one instruction is in flight (proved), so what
can go wrong involves an instruction, the one before it and the state of the
bus between them; the program is chosen instruction by instruction, so every
sequence occurs. A bit tells a stale word from a fresh one, a second register
one that is written from one that is not. What does not depend on the size of
words, registers and bus is proved (section 5).

`cpu_systems` lets the core with its own memories run programs of all its
instructions except loads to `x0`, and Marie programs of loads, stores and
capability loads over the bus, without capability stores. What happens
otherwise is in the next section.

### What the violations mean

1. **Depth 1 with an initial token.** `wr_ptr` is reset to `INIT_COUNT`, here
   1, one past the only slot. The first put is counted but stored nowhere, and
   the initial token is delivered again in its place. In the CPU core this is
   the queue that carries the next program counter.
2. **Reset per domain.** A comment promises that both sides of a crossing
   share the system reset; the code gives each side its own. After a reset of
   the read side only, the pointers are further apart than the storage is deep.
3. **Priority.** With rules on edges `{a}`, `{a, b}`, `{b}` the third joins the
   first group and wins over the second whenever both are enabled, though it
   was declared later.
4. **Puts in branches.** They do not enter `can_fire`. When the queue is full
   the FIFO ignores them and the token is gone.
5. **Deadlock analysis.** The initial value of a Cell is counted as a token of
   any cycle through its owner. The network of the test
   `cycle_with_init_token_no_warning` is accepted and can never fire a rule.
6. **Two writers of one queue.** When a queue of a parent replaces one of a
   child, it takes over the writer or the reader of the child's queue only if it
   has none, and says nothing if it has one. A parent process and a child
   process then both write it.

Five more differences between the code and its comments and tests were met. Each
has a configuration beside the others (TLC finds each violation in under a
minute):

- `MCFrontEndArrays.cfg`, `UndefinedVariablesReported`: a test of the type checker
  promises an "undefined variable error" (`src/types/mod.rs:186`), but of `a[i]`
  and `a[i := v]` only `a` is looked at (`src/types/check.rs:219`, `:234`). A name
  in `i` or `v` that is bound nowhere passes, and is emitted as it stands. So does
  a method call that desugaring leaves there, as in `a[regs[i].take()]`, for which
  the back ends emit 0.
- `MCCpuSystemsBytes.cfg`, `WritesEnqueueTheirByte`: "Write any offset → enqueue
  data[7:0] into TX FIFO" (`src/examples/marie.tbn:259`). The put is in a branch
  (line 271). When `tx_q` is full the write is acknowledged all the same and its
  byte is lost. The configuration gives `tx_q` one place; the design gives it
  16, and a line that takes one byte in the time of many stores.
- `MCCpuSystemsUart.cfg`, `StoresLeaveReceivedBytes`: every integer store
  reads its word first (`src/examples/cpu_core.tbn:254`), and a read of the UART
  takes a received byte. Sending a byte loses one that has arrived, with no load,
  where the comment says that a read takes it (`src/examples/marie.tbn:260`).
- `MCCpuSystemsZero.cfg`, `ZeroRegister`: "writes to x0 are discarded"
  (`src/examples/cpu_core.tbn:490`) holds of the instructions that retire in
  one step. The flag that says so is not kept with a load: phases 1 and 4
  (lines 374, 441) write back with `true`, and Decode reads what was loaded as
  `x0`.
- `MCCpuSystemsCap.cfg`, `ImplementsIsa`: a capability store sends its two words
  in consecutive cycles (lines 244 and 467, the second without waiting). The
  adapter of Marie takes the first in the second cycle, so the write queue is
  full and the second word is dropped: memory keeps the old upper half with the
  new tag.

### Conditions on the results that hold

`CyclesAreAtomic` holds of every cycle except those of three kinds, each of
them named in the property, and each found necessary (the property fails
without it): a put in a branch meets a full queue (violation 4); a blocking
take in a branch that is not followed consumes its token; rules observe each
other in a circle, as two rules that each peek the Cell the other writes, or
each find empty the queue the other fills. The documented old-value semantics
of `peek` makes the last kind unavoidable.

`RuleNetwork` uses `BoundedQueue`'s behaviour for queues, which the FIFO has
only when it does not start full. It therefore assumes that a queue of depth 1
has no initial token, and says so in `NetworksAssumption` (`WellFormed`).

`OnlyUartBytesAreDropped` and `ImplementsIsa` hold of Marie for programs without
capability stores (see above). `OnlyUartBytesAreDropped` speaks of the puts of
the core, the adapter and the crossbar, and of the devices' answers; not of the
bytes that `UartDevice` puts to `tx_q` and `UartRx` to `rx_q`, which a full queue
drops (`MCCpuSystemsBytes.cfg` above).

`VariablesBoundOnEveryPath` speaks of a rule without the operands that the type
checker does not visit (`MCFrontEndArrays.cfg` above). `DesugarKeepsPaths` and
`SchedulerKnowsAccesses` speak of rules in which no method call is left in such
an operand. `LinearityIsExact` speaks of rules in which no take of a Cell is
where the checker does not look: records, fields, indices, updates and bit
slices are not visited (`src/types/linearity.rs:223`), though TOURBILLON.md:187
makes no such exception. `BoundAsDeclared` speaks of pipes in
which nothing is instantiated, declared or bound twice, `EdgesFollowTokens` and
`NoUnsynchronisedCrossing` also of pipes in which no queue joins two child
pipes; what the code does otherwise is listed in section 6.

## 4. Fairness and liveness

Hardware clocks do not stop. In `TbnAsyncFifo` each clock is weakly fair
(`WrTick`, `RdTick`), nothing is assumed of what the users put or take, and
`TokensBecomeVisible` and `RoomBecomesVisible` follow from the synchronisers
alone. In `RuleNetwork` the one clock is weakly fair, and no fairness is
assumed of rules: with static priorities there is none, and a rule of a late
group may never fire. `AcceptedRingsKeepRunning` needs none, since every
process of a ring has one rule. That some process of an accepted ring can fire
in every cycle (`AcceptedRingsNeverStuck`) is the safety half of it, and proved.

## 5. Proofs

All theorems are checked by TLAPS to the last leaf, for every value of the
constants that the assumptions admit. Every invariant and action property of
the passing runs is a theorem, except those about the trees of the front end
(see the end of this section).

### Queues

- **FifoInvariant, FifoTypes, FifoImplementsQueue** (`TbnFifoProofs`), from
  `FifoAssumption` and `InitCount < Depth`. The inductive invariant is
  `TypeOK /\ PointersAgree`: without the agreement of pointers and counter, the
  guards on `count` say nothing about the slots written and read. The refinement
  then reduces to how a window of consecutive slots changes when its first slot
  is dropped or a slot is written behind its last, and the lemmas about `Window`
  say just that. `InitCount < Depth` is where the proof, and the circuit, fail
  at depth 1.
- **AsyncFifoInvariant, AsyncFifoImplementsQueue** (`AsyncFifoProofs`), for
  every depth. The invariant is `ViewsInOrder`: going round the ring of pointer
  values from the writer's oldest view of the reader, through the reader and its
  views of the writer, to the writer, the distances add up to at most `Depth`.
  It is inductive together with the types, because each edge only moves one
  point towards the next, and the writer moves on only if it is not `Depth`
  ahead of its own, oldest view. It bounds both late views at once, which
  separate invariants for full and empty would not.
- **CircuitTypes, CircuitImplementsCrossing, CircuitViewsInOrder,
  CircuitImplementsQueue, CircuitNoPointerDesync** (`CircuitProofs`), for every
  depth that is a power of two from 4 on. The circuit is shown to implement `AsyncFifo`, and inherits what
  is proved there. Three facts about the codes carry the argument: codes of
  successive pointers differ in one bit, also where the pointer wraps
  (`OneBitDiffers`), so a synchroniser that catches a pointer in motion settles
  to the old or the new one, never to a third (`SampledIsOldOrNew`); no two
  pointers have one code (`GrayIsInjective`), so *empty* may compare codes; and
  the code of the pointer half the ring away differs in the upper two bits only
  (`CodeOfOpposite`), so *full* may invert them. The proofs of these are about
  the halves `n \div 2^k` of a pointer; that powers of two double is itself a
  lemma (`Doubling`, by counting subsets), since the provers know nothing of
  `2 ^ n`.
- **CircuitStepsAsCrossing**: the action property that links this circuit to
  the crossings of the SoC model, `ClockedQueues`. The SoC's proofs speak of
  `ClockedQueues`; this theorem is why they are about the emitted circuit.

### Rules

- **ScheduleInvariant, ScheduleTypes, EveryRuleScheduledOnce,
  DemotionHasACause, FiringIsConflictFree, SomeEnabledRuleFires**
  (`GroupRulesProofs`), for every number of rules and set of edges. The
  invariant: groups hold placed rules only, each rule once, no two that share an
  edge, and each rule only behind groups that hold an earlier rule it shares an
  edge with. That firing rules do not conflict follows since `WillFire` draws
  from one group; that one fires if one is enabled, since among the groups with
  an enabled rule there is a least one (`LeastNumber`), which nothing suppresses.
- **NetworkTypes, NetworkOneWriterOneReader, NetworkCyclesAreAtomic**
  (`NetworkProofs`), for every set of networks that are `WellFormed` (finitely
  many rules, each at the ends of its own process's edges, queues and Cells with
  different names; no queue of depth 1 with a token) and whatever the rules
  compute (`Computed`). The invariant says that `groups` is the schedule of the
  network and the contents are typed. From the schedule, two rules that fire
  together touch no end of an edge in common (`FiringApart`); this is
  `OneWriterOneReader`, and the reason why the parts of a cycle can be told
  apart. `Part(s, f, ids)` is the state that the rules `ids` of a cycle make of
  `s` by themselves. A rule whose reads none of `ids` has changed reads the same
  after them, may fire there alone, and adds itself to the part (`OneMore`).
  When the rules of the cycle do not see each other in a circle there is always
  such a rule next (`SomeOrder`), and going through all of them shows the whole
  cycle to be one of the outcomes of `OneAtATime`. The conditions of
  `CyclesAreAtomic` are used where one expects them: the loss of a token would
  make a rule fire that atomically could not, a token consumed unread would be
  missing from the part.
- **PlainNetworksAreAtomic**: those conditions are void, so that every cycle is
  atomic, in networks whose rules do not peek, do not ask whether a queue is
  empty, and take and put at top level only.
- **NetworkBackEndsAgree** (`NetworkProofs`): the hardware of the Chisel back
  end is that of the SystemVerilog, for every set of `WellFormed` networks in
  which no queue is both taken from and try_taken from (`OneKindOfTake`). Of
  such a queue the last wiring pass of the Chisel back end overrides the arm of
  the match, while in SystemVerilog its signal has two drivers. Both halves of
  the property go along a list, and the prover knows nothing of folds: that a
  fold has a value, and that it is reached step by step, are lemmas (`Folding`,
  `MaxOfPrefix`). Down the slots of a schedule, what fires so far is nothing,
  or the enabled rules of the first slot that has one (`SameFires`). Down the
  list of connections, a wire has the value of one of the rules that connect it
  so far, or else its default (`RuleLogic`); as every rule is in the list
  (`EveryRuleEmitted`) and `FiringApart` leaves one writer, that is the value
  the SystemVerilog selects (`WireValues`).
- **TopLevelPutsWait**: violation 4 is about branches only. In networks whose
  rules put at top level, `PutsWaitForRoom` holds.
- **AcceptedRingsNeverDeadlock** (`NetworkProofs`): in a ring of any length,
  depths and tokens whose processes have one plain rule each, and that the
  deadlock analysis accepts, some process can fire in every cycle. The
  invariant (`RingInv`) adds to the one above that no queue holds more than its
  places (`WithinDepth`) and that the ring holds a token and a free place
  (`Flowing`). A token and a place are there at the start, since the analysis
  counted a token and a queue that starts with one has a second place
  (`AcceptedRingHasToken`). They stay, because a process that fires leaves a
  token behind it and a place before it, whoever else fires in that cycle
  (`CycleKeepsFlowing`): counting tokens is not needed. And with both, somebody
  can fire (`FlowingRingFires`): if nobody could, every process with a token
  would have its output full, hence the next process a token, and so on round
  the ring to a full one. "Round the ring" is where the analysis comes in: the
  ring is one of its components, so that any process reaches any other;
  `ReachesIsReachability` and `ComponentsPartition` are what that computation
  means, for every network.

### Elaboration

`IsProgram` is all that is assumed of a program: what the parser makes of one,
of any size. The theorems speak of `ElaborationSpec`, the passes before it left
out: whatever program they hand on, elaboration treats it so.

- **ElaborationIsConsistent** (`ElaborationProofs`): after every turn of every
  loop, ports are bound to edges that exist, edges end in nodes that exist,
  names are those of their nodes, and queues have edges, in the network under
  construction and in all that are finished. Each operation on the network is
  shown to let it grow soundly (`Grows`): it stays typed and consistent
  (`Sound`), no declared queue is forgotten, and Cells keep their edges. The
  invariant (`IInv`) says besides what the order of the phases is for. The
  children of a pipe are elaborated before it, or `MergeChild` would read a
  network that is not there. The queues that `CreateEdge` and `Recreate` look up
  have been declared, unless there was an error, after which the pipe is given
  up (`QueuesSoFar`). `BindPeek` uses the edges of Cells only before edges are
  replaced. Edges are marked dead only from `FindDeadEdges` to the end of
  `RemoveEdges`, so nothing else ever meets a dead edge.
- **RemovalKeepsEveryBinding** (`ElaborationProofs`): removing an edge moves the
  last one into its place, and still every port and every queue is bound to
  the edge that it was bound to. Three facts make this so. A dead edge is bound
  to no port, and stays so. Dead edges are removed from the highest number
  down, so the edge moved is never one that has yet to be removed under its old
  number. And no queue is bound to a dead edge, for the names tell them apart:
  the name of a declared queue is one part long, that of an edge of a child at
  least two (`QueuesRight`, `SubsNamed`). That also makes the queue bound to
  the edge moved unique, which the code, taking the first that it finds, relies
  on.

### CPU core and SoC

- **OneBusRequest** (`PipelineProofs`), for every depth of the
  crossings, every set of devices and every program. What is wanted, that one
  request or answer is on the bus, is not inductive: a put needs room, and room
  is judged from news of the reader that lags. The invariant is that every link
  *takes turns* (`InTurn`): at most one item is on it, on its way out or back,
  and the places that the writer does not yet know to be free are fewer than the
  edges the answer still needs, so that the news of the room always arrives
  before the next item is due. `NearEdge` and `FarEdge` show that an edge of
  either side keeps it so and puts only where there is room; the crossbar is
  the far side of one link and the near side of the others.
- **OneCredit** (`PipelineProofs`), for every program in both systems,
  whatever memory answers and when. The credit is in `next_pcc_q`, `fetch_q`,
  `decode_q` or in the phase of Execute, in exactly one; `CreditStep` takes it
  through one edge. `SamePipeline` shows the pipelines of the two systems to be
  the same.
- **TagBeforeWord** (`PipelineProofs`), for every program of both systems. The
  invariant: the tag is in its response register exactly while the second word
  of a capability is awaited.
- **PipelineAndBusHaveRoom** (`PipelineProofs`), for every program of the core with its own
  memories, and for those of Marie without capability stores (the assumption of
  the theorem). The invariant adds to the ones before: the word that Execute
  awaits is asked for, on the bus or there, in one place; results wait for
  Writeback, and writes for the adapter, only in the cycle after they were put,
  while the credit is on its way to Fetch. This is the reason, several stages
  apart, for which none of the unguarded puts of the pipeline, the adapter and the
  crossbar, and no answer of a device, meets a full queue. It says nothing of the
  bytes of the UART, whose queues a program can fill.
- **SystemsTypes** (`IsaProofs`), for every program of both systems: what every
  queue, crossing and register holds. It needs that an address the core's own
  memory is asked for is one of its addresses, which `SystemsAssumption` says of
  the programs of that system.
- **SystemsImplementIsa** (`IsaProofs`): both systems implement `Isa`, for every
  size of words, set of registers and devices and depth of the crossings. The
  refinement mapping reads the registers with the result that Writeback has yet
  to commit, the instruction under way from the place where the credit is, and
  memory with the request that has yet to reach it. Three things are shown of
  an edge.
  1. Execute does what the instruction does, or asks for what it needs
     (`ExecuteSound`), *provided* the word it is given is the one the program has
     in memory at the address it asked for, and the first word of a capability,
     kept in `stash`, still is.
  2. That proviso is the invariant (`ProgramFollows`): the read that Execute
     waits for is carried along the bus, as the request of `dmem_rd_req`, of the
     adapter, of the crossbar, of a device, or as the answer on its way back, and
     wherever it is, it asks for the word wanted or holds the word that the
     program has there (`BusCarries`; a step for each of the three clocks:
     `CpuCarries`, `XbarCarries`, `DevicesCarry`).
  3. Only the core changes memory as the program sees it (`CpuStores`,
     `XbarKeepsMemory`, `DevicesKeepMemory`): since one request is pending at a
     time (`OneBusRequest`), memory is what is stored, but for the one write that
     may be on its way (`MemoryIsLatest`). So a read under way is never overtaken.

  Its two hypotheses are the two of the violations listed above: no loads to
  `x0`, and in Marie no capability stores. With either dropped, the
  configurations `MCCpuSystemsZero` and `MCCpuSystemsCap` refute it.
- **ZeroRegisterKept** (`IsaProofs`): without loads to `x0`, `x0` is null. The
  invariant: no load under way, and no result on its way, is for `x0`.

### Only model-checked

- Liveness (`TokensBecomeVisible`, `RoomBecomesVisible`,
  `AcceptedRingsKeepRunning`, `InstructionsKeepRetiring`) is outside the
  prover's reach.
- `RuleChecker`, `FrontEnd` and `DeclaredNetworks` walk trees, of statements and
  of pipes, with RECURSIVE operators, which the prover does not support, and what
  such a walk computes for every tree needs induction over it. Their invariants
  (`DesugarKeepsPaths`, `LinearityIsExact`, `VariablesBoundOnEveryPath`,
  `SchedulerKnowsAccesses`, `BoundAsDeclared`, `EdgesFollowTokens`,
  `NoUnsynchronisedCrossing`, `FlatPipesAcceptedExactly`) hold of the families of
  programs of `front_end`. `Elaboration` itself is free of such operators, and
  kept apart from them for its proofs.

## 6. Not modelled, and why

- Lexing and parsing, printing of expressions and types, graph and wave output,
  the text of diagnostics: pure functions without state or order of events. A
  program enters the models as a syntax tree.
- The driver's files: reading sources, provenance hashes, the cache directory.
  They are sequential calls to the file system, without recovery of their own
  (the source is read a second time for its provenance, `src/main.rs:144`).
- The SPI bridges: the crossing FIFOs they are built from, and the reset per
  domain they rely on, are modelled (`async_fifo`, `async_resets`); their frame
  machines have no counterpart yet.
- Of the CPU: the value of the program counter and instruction memory (the next
  instruction is any instruction), encodings, sub-word accesses, arithmetic on
  capabilities and their checks (external functions of `cheri_pkg.sv`; a refused
  access is the instruction `trap`), trap registers other than `mcause`.
- Of Marie: what the swatch, clocks and manifest devices answer (any word), the
  UART's serial lines (they take and put bytes in any cycle). RTS is always
  asserted, and bytes that find a queue full are lost, in the model as in the code.
- Types: widths, also those of options, records, enums, tuples, constants,
  external functions. Port kinds are not checked by the type checker, nor in the
  model, though `src/types/mod.rs:16` says so.
- Metastability beyond one cycle, and setup and hold times: a synchroniser
  register is taken to settle within its cycle.
- Several clock domains in one `RuleNetwork`; the memories behind memory ports;
  a queue that is both taken from and try_taken from (its `deq_ready` has two
  drivers); `try_take` bound by `let`; `peek` of a queue.
- In `ChiselNetwork`: initial tokens (the back end does not emit them, a TODO at
  `src/lower_chisel.rs:416`), a match whose `None` arm comes first (the text
  emitted is unbalanced, line 785), `try_take` of a Cell, the resets of a
  crossing (both are the system reset).
- Crossing FIFOs of depth 1 and 2. Elaboration accepts them
  (`src/elaborate.rs:441`), and `examples/spi2tlul.tbn:843` has one, but the *full*
  test of the emitted module takes the bits `[AWIDTH-2:0]` (`src/lower.rs:153`),
  for depth 2 `[-1:0]`, which is not legal SystemVerilog. `AWidthAssumption`
  leaves them out: what is checked and proved of the circuit holds from depth 4 on.
- The arbiters for several producers described in TOURBILLON.md: the code has
  none.

### What elaboration does where the properties are silent

The models follow the code in these cases, and the properties ask nothing of
them, since no document says what should happen.

- A second instance of a process is found under the name of the first
  (`src/elaborate.rs:1163-1178`).
- A queue of the parent that joins two child pipes takes both ends from the
  first child visited (831-876). One in the middle of three levels, written
  locally and read two levels below, stays a self-loop, and the deadlock
  analysis rejects the design.
- A queue of a child that the parent leaves unbound is accepted as a self-loop;
  an external output of a child's process without a Cell that starts full is
  rejected as a deadlock.
- A binding to a queue or port that is not declared is ignored; the types of
  bindings across pipes are not compared; the domain of a pipe instance need not
  be declared (347-369).
- Pipes that contain themselves are never top pipes and are skipped (22-32).
- An array of Cells of two or more elements cannot be used: the match that a
  computed index becomes takes an element in one arm only, which the linearity
  checker refuses, and `let x = regs[i].peek()` leaves `x` undefined after it,
  though `src/desugar.rs:669-672` and TOURBILLON.md:467 describe both uses.

## 7. Plan

Done: the queue circuits, the scheduler, the rule hardware of both back ends,
the deadlock analysis, the front end from desugaring to the accepted network,
the CPU core and the SoC, and the proofs of section 5. What would come next:

1. The frame machines of the SPI bridges over `ClockedQueues`, with the reset of
   the SPI side by chip-select in the middle of a frame.
2. Several domains in `RuleNetwork`, with its crossings as `ClockedQueues`; then
   `async_example` and the memory ports.
