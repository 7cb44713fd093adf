# machine-toolchains: a TLA+ development

The repository builds two toolchains over one shared core: compilers for a
Post machine (PM-1) and a Turing machine (TM-1), an assembler and a linker, a
virtual machine that executes what they make, and debugger and editor servers
around it. This directory models the parts whose correctness depends on *order*
or on *agreement between two descriptions of one thing*:

* the processor core that never performs I/O, the two drivers that serve its bus,
  and the sessions a debugger or an embedder steers;
* the debug adapter with its reader thread;
* what compilation, optimization and linking do to the meaning of a program:
  every optimizer pass of both compilers, code generation, the two build columns,
  the three ways of lowering bound calls, and width relaxation.

What only turns text into text (lexers, parsers, printers, formatters, language
servers, disassembly) is listed and left out. It is most of the repository's
lines, which is why the modules are mapped to a small share of them.

## Inventory

Every part of the repository is a row of `PROJECT.json` `components`; these are
the ones that are modelled.

| part | state it keeps | operations | talks to | what makes it correct | module |
|---|---|---|---|---|---|
| VM core, `core/src/vm/core.rs` | ip, MR, tuple register, FR with its decoded descriptor and the FR half of the call stack, phase, micro-operations left, the request in flight | `start`, `resume(response)` | answers a driver with one event at a time | the FR stack never drifts from the driver's return stack; the cached descriptor is the one FR names; a frame confines its instructions | Core |
| driver and machine, `driver.rs`, `machine.rs` | return stack, tapes, statistics | `step_instruction`, `run`, `run_tapes` | serves the bus from code, stack, tapes, table ROM | limits stop the run in time, refused transactions cost nothing, a limited run ends, each boundary is where the instruction set leads | Driver, Isa |
| tapes, `devices/` | cells, head | `left right read write` | called by a driver | ring wrap; refused writes change nothing | Tape |
| AsyncSession over asynchronous tapes, `session.rs`, `async_device.rs`, `latency_tape.rs` | the driver's state, what it waits for, pause request, breakpoints, terminal result; per device the command in flight | `pump pause add_breakpoint remove_breakpoint stop`; `issue poll` | embedder above, devices below | the pumped run is the synchronous one; commands are issued once; budgets are exact; pauses and breakpoints are not lost | AsyncSession |
| DebugSession, `debug.rs` | the driver's state, breakpoints, terminal result | `step_in step_over step_out continue_ run_steps set_mr set_mf` | adapters above, tapes below | motions stop where they promise; edits do not derail the program | DebugSession, Stepper |
| DAP server and adapters, `core/src/dap`, `*/src/dap` | queue from the reader thread, lifecycle flags, run state, breakpoint buckets, trace | requests, `tick` | client, DebugSession, line map | one set of planted addresses; one end; a request noticed within a slice; a line of trace per instruction | Dap, LineMap |
| PM compiler, `post-machine/src/{compiler,ir,codegen}.rs`, `optimizer/` | program, round | lowering, eleven passes, emission | linker | the listing does what the source says; on a volatile tape it makes the same accesses; rounds settle | PmIr, PmPasses, PmBuild |
| build columns, `compiler.rs`, `linker/resolve.rs` | per function: same in both columns or not | merge, resolve | - | a deduplicated link takes from each column what an undeduplicated one takes | Columns |
| TM optimizer and code generation, `turing-machine/src/optimizer`, `codegen.rs` | state graphs, round | eight passes, emission | linker | as for PM, under frames, with bands of tapes | Rows, TmIr, TmRuns, TmPasses, TmBuild |
| composition engine, `linker/{compose,engine,stamp}.rs` | composites, stamps | compose, stamp, frame, prune | VM | every mechanism executes a program as its routines and bindings say | Bindings, Bands, BoundCalls, Linker |
| relaxation, `asm/assembler.rs`, `linker/layout.rs` | width of each jump or call | one pass | - | the loop settles and every short operand fits | Relax |

The hard behaviours:

* a request that is answered much later, or refused, or answered just as the last
  tact is spent, while two halves of a call stack live on two sides of the bus;
* a suspension in the middle of an instruction, with an embedder that does
  anything it likes meanwhile;
* the order in which a break, a pause, a breakpoint, a budget and a limit are
  looked at;
* requests that arrive between two slices of a running program;
* passes that run over each other's output until nothing changes, each licensed
  by facts another may have invalidated;
* one program under three mechanisms that must not be told apart.

`PROJECT.json` `hazards` lists each at its line, with the property that would
catch it.

## Modules

    Core           the processor (EXTENDed by its drivers)
    Tape           a ring tape, plain or strict
    Isa            the instruction set, an abstract specification
    Driver         Core + Tape: the synchronous run; implements Isa
    AsyncSession   Core + Tape: the pumped run; implements Driver
    Stepper        Isa + motions and breakpoints, an abstract specification
    DebugSession   Driver + motions: implements Stepper
    LineMap        addresses and lines of a map sidecar
    Dap            Stepper + LineMap: server loop and adapter

    PmIr           the three forms of a Post-machine program and their runs
    PmPasses       the eleven passes
    PmBuild        one compilation, pass by pass
    Reach          what a graph of calls reaches
    Columns        the two build columns and what a link takes from them
    Relax          widths of jumps and calls

    Bindings       the algebra of bindings, maps and composites
    Bands          tapes as a frame shows them
    BoundCalls     what a program with bound calls means, an abstract specification
    Linker         Bindings + Bands + Reach: the three mechanisms and the image's run;
                   implements BoundCalls
    Rows           rows of a match table: order, covering, subsumption
    TmIr, TmRuns   state graphs, their assembly, the runs of both
    TmPasses       the eight passes
    TmBuild        one compilation, pass by pass

    DriverSafety                           theorems about Driver
    SessionSafety                          theorems about AsyncSession
    DebugSafety                            theorems about DebugSession
    DapSafety                              theorems about Dap
    ColumnsSafety                          theorems about Columns
    RelaxSafety                            theorems about Relax
    LinkerSafety                           theorems about Linker
    Algebra                                theorems about Bindings and Rows
    MC*                                    programs and bounds for TLC

**Core.** One action is what one `resume` call does with one response, or one
micro-operation it issues. `event` is the `CoreEvent` returned (`Busy` while the
core is between two of them), `resp` the `BusResponse` handed in. `Fetch*`,
`Settle*` and `Issue*` are the three parts of `core.rs`: finishing the fetch,
settling the request in flight (`step_execute`, part 1) and issuing the next
micro-operation (part 2). Traps set `phase` to `Done` exactly where the code
returns `CoreEvent::Trapped`, with the registers it has written by then.
A byte of code is a cell that says what the architecture decodes there; the
operand bytes are still fetched one at a time, so code that ends inside an
instruction traps as in the code. A multi-byte read of a table or a descriptor is
one transaction: its price is charged once, and it is refused as a whole.
Addresses in the table ROM are tagged tuples. `WellFormed` states what loading an
executable guarantees.

**Driver.** `Load` is the loading step of `Machine::drive`, `Begin` the call of
`start`/`resume(Ok)`, `Serve*` one arm each of the match in `step_instruction`,
`Account` the retired-instruction arm, `End` the terminal arms. `Deliver` is the
tact check between a response and its delivery. `mark` is a history variable:
the control state at the last boundary, the two stacks zipped into records.

**Isa.** One step per retired instruction over one stack of activation records.
No cached descriptor, no second stack, no bus, no tacts; it restricts where
straight-line code, a jump, a dispatch, a call, a framed call and the two returns
may lead.

**AsyncSession.** The arms of `pump`, with the devices behind `issue`/`poll`.
`report` is `"Pumping"` during a call and the `PumpEvent` between two; commands of
the embedder are enabled only then, because every method takes the session
exclusively. A device is not READY for 0..MaxPolls polls, chosen when the command
is issued. The bus request `waiting` carries is the core's unanswered `event`.
`retired`, `budget`, `seenBreaks` and `announced` are history variables.

**Stepper and DebugSession.** A motion is a blocking call: `Command` passes the
gate, `Advance` is a step of Driver, and `Retired` decides after each instruction
whether the motion goes on; `step_over` turning into `run_until_tapes` is a change
of `motion.kind`. Stepper says the same over Isa, with no bus at all; which
breakpoints are planted, what an edit writes and how long a slice may be are left
open there, so it is one specification for every instance of DebugSession.

**Dap.** `inbox` is the channel from the reader thread. The loop takes a request
or, while the adapter is Running, a slice (`tick`). A handler that drives the
session through several motions is several steps of one call (`handler`), because
a request that arrives meanwhile waits. The session below is Stepper, which
DebugSession implements; a bucket per source file and the instruction breakpoints
are kept beside the session's one set of addresses. `untold`, `late`, `exits` and
`armed` are history variables.

**PmIr, PmPasses, PmBuild.** A program is a function from names to statements,
then to blocks, then to a listing. Each form has its run: the sequence of device
accesses, breaks and the end, and on a tape what is left on it. A pass is a
function from blocks to blocks with its own dataflow; PmBuild applies them one per
step in the order of `PIPELINE`, in rounds, under the same gates (level,
disabled passes, volatile, strip).

**Rows, TmIr, TmRuns, TmPasses, TmBuild.** The same over state graphs whose rules
are rows of a first-match table over several tapes, with bound calls under frames,
and the two passes (inline, outline) that rewrite the whole program.

**Bindings, Linker, BoundCalls.** `Bindings` is `compose.rs`: the completion and
the checks of a binding, sparse symbol maps with holes, composition, canonical
form. `Linker` runs the engine over a program - discovery of composites, stamping,
the directory and the compose table, pruning - and then executes the image it made
on the abstract machine with stamped tables or with frames. `BoundCalls` executes
the *source* routines and never composes anything. Where the code numbers
composites, directory entries, raw descriptors and framed sites, Linker has what
the number stands for, because no control depends on the numbers; functions keep
theirs, because pruning renumbers them. `lower_frames` and `mono_stamps` work off
lists in order; here what is left may be taken in any order, the code's included.

**Columns.** The merge of two columns of one object, and the link that refuses two
users with one name or a missing entry, or walks from main through locals, own
exports and libraries. `PureReach` is the same walk over both columns kept apart. **Relax.** The assembler's growing
of jumps and the linker's shrinking of calls over the same slots.

## Runs

| run | what it asks | instance |
|---|---|---|
| `driver` | Do the two stacks, the cached descriptor, frame confinement, types and limits survive every mix of control instructions and every pair of others? Is each boundary where Isa leads? Does a limited run end? | 864 programs over frames (main, f and g with five free slots over a menu of six instructions; two composites, one with swapped symbols, one with holes; a compose matrix with a reserved and an out-of-range entry) and 38 x 38 pairs of instructions under both profiles; stack of 3; step limits 3, 8, 12 and tact limits 0, 7, 12 |
| `pumped` | Is the pumped run the synchronous one whatever devices, budgets, pauses and breakpoints do? Are budgets exact, commands issued once, pauses and breakpoints answered? Does it end? | a PM loop with a debug break, a TM program with framed calls, a program that faults; every latency 0..1 at each command; budgets none, 0, 1, 2; breakpoints at two addresses; step and tact limits; stack of 2 |
| `debug` | Does every motion stop where Stepper says, at the caller under recursion, and does it come back? | recursion, nested framed calls with a multi-exit return, a trap in a callee, a dispatch on the edited register; every sequence of commands; budgets 0, 1, 3; 14 steps |
| `dap` | Do planted addresses, buckets, trace and client agree under any sequence of requests? Is a request noticed, does a pause take effect, does a departure end the server? | three clients (life cycle, breakpoints, steps) against a program in two files that share a line number, one without a source, one without a map; one request in the queue, slices of 2, calls 3 deep |
| `build` | Does every pass of every round, and emission, keep what the source does on a tape and the accesses on a volatile one? Do the rounds settle? | straight lines of three operations, two arms that join, calls in and out of tail position with recursion and empty cycles; normal and volatile, both levels, passes disabled, stripped |
| `columns` | Does a deduplicated link take what an undeduplicated one takes, and report its fallbacks? | a user object of three functions and one or two libraries that offer the same names, local or exported, every combination of columns |
| `relax` | Do both loops settle, do chosen widths still fit later, is no jump far for nothing? | three jumps or calls around fillers that put the displacements on both sides of -128 and 127 |
| `bind` | Does every mechanism execute a program as its routines and bindings say, with the same traps? | chains of two bindings between alphabets of two and three symbols, routines shared by two frames, recursion through bindings, crossed tapes, tail calls, raw descriptors, illegal bindings; mono, frames and hybrid; every input on a ring of 2; stack of 3 |
| `tm_build` | As `build`, for state graphs | all three-row states over one tape and three symbols, two-tape rows, chains and circles of forwarders, bound and unbound calls, projections, repeated subgraphs of seven states; memory and volatile bands; about 81,000 states |
| `step_over_breakpoint` | (violation) a breakpoint on a callee's entry under `step_over` | as `debug` |
| `mono_collapse` | (violation) three nested bindings of which two cancel, under mono | one program, every input |
| `volatile_read_dropped` | (violation) a state of a volatile band whose rows all do the same | one tape, three answers |

**Why these bounds.** Nesting three deep is enough for a frame to be entered,
left to a *different* frame, and left again to the identity, which is what the
skipped reload and the paired pop must survive; a fourth push meets the capacity.
A ring of two cells has both wraps and lets a write be seen by a later read. Two
symbols suffice for a swap and a hole, three for a map that is neither total nor
injective. One pending poll is enough for a command to outlive a pump; budgets 1
and 2 put the end of a budget before, on and after every boundary. One queued
request meets a slice at each of its positions; a slice of 2 has a first, a last
and an edge. Two bindings are what one composition takes, three what
associativity takes (that one is proved). A round runs all passes, so a family
needs just the shapes its passes look for, and rounds do the rest; seven states
are the smallest region outline takes and six rules the largest routine inline
takes, so both sides of both thresholds occur. Limits (or a depth bound in
`dap`, fuel in the builds) bound every instance: without one the statistics grow
for ever. `Fuel` bounds the *runs compared*, both at the same length.

**Fairness.** A synchronous run is one thread that returns only at the end:
`WF(Next)`. A pump runs to its return (`WF(PumpStep)`), and the embedder keeps
pumping with a non-zero budget until the session ends or is stopped; no device is
assumed fast, only not for ever READY-low (MaxPolls). A debugger motion runs to
its answer (`WF(Advance)`). The main thread of the debug server runs while it has
something to do (`WF(Loop)`); the client owes nothing. Relaxation, lowering and
the linker are loops that nothing else schedules: weak fairness of their next
step. `CHECK_DEADLOCK FALSE`: runs, builds and sessions end.

## What the runs show

The nine passing runs hold. Three statements of the repository do not:

* `step_over` into a callee whose entry carries a breakpoint runs over it
  (`debug.rs:270`): after the call retires the session enters `run_until_tapes`,
  whose first instruction is never checked. `docs/dap.md:240` promises that a step
  is interrupted at once. Stepper describes what the code does.
* Under mono, three nested bindings of which the first two cancel lose the third
  (`stamp.rs:604`): a call that is back at the machine's own frame is sent to the
  original routine, whose bound sites were left unstamped because the entry does
  not reach it unbound. `docs/core.md:842` promises equivalent mechanisms.
* `dead_rows` may leave a state with one catch-all row, for which no read is
  emitted (`dead_rows.rs:321`): a volatile band that is read at -O0 is not read at
  -O1. `docs/tmt/language.md:237` says no access is ever dropped.

The families of `bind` and `tm_build` leave out the programs that meet the last
two, so that the rest is checked: `bind` has no stamps that collapse onto routines
that bind again, no program that binds its own entry, and no raw `call.m` into a
routine with bound sites; the volatile rows of `tm_build` always keep one row
unlike the others, and its projections start at the machine, with memory on the
tape they leave out.

Noticed while reading or modelling, with no run of their own:

* an untraced `run_steps` slice that ends on a breakpoint reports Manual, and the
  next slice runs over it (`debug.rs:319`); PlantedStopsSlices names that one
  exception;
* a backward call of displacement -126 to -128 is never shrunk, the test using the
  far width (`layout.rs:550` against `docs/core.md:724`);
* a program that binds its own entry so that the composition is the identity ends
  in BadOperand (`engine.rs:225`);
* a write vector with a hole on a later tape: frames has already written the
  earlier tapes when it traps, a stamp none (`docs/core.md:843`). BoundCalls leaves
  open how many are written;
* inlining a projection that drops a tape, under a binding with a hole on that
  tape, reads it in the caller (`inline.rs:50`): UnmappedRead at -O1 only; on a
  volatile tape it adds reads;
* a read that `dead_rows` drops under a holey binding loses its UnmappedRead trap;
* `outline` numbers its routines afresh each round (`outline.rs:27`), so two rounds
  may name two routines alike;
* a region of seven states may have fewer than seven rules when some states have
  none (`outline.rs:66`), and inline may splice it back;
* FR becomes non-zero before its descriptor is decoded, contrary to the comment at
  `active_frame`; CacheCoherent is what holds, and it is enough.

## Proofs

Checked by TLAPS for every value of the constants, under the assumptions that TLC
evaluates for each instance (`CoreAssumption`, `TapeAssumption`,
`DriverAssumption`, `SessionAssumption`, `DapAssumption`, `RelaxAssumption`,
`ColumnsAssumption`, `LinkerAssumption`).

**Driver** (`DriverSafety`). `TypeCorrect`:
`Spec => []TypeOK`. TypeOK is not inductive: that `ip` stays a number depends on
what may be in a response, which depends on the request it answers, which depends
on the work pending. `RunInv` records this chain: which operands each kind of
pending work carries (`PendingOK`), which request it has put on the bus in which
phase (`EventOK`, `AsksFor`), and which responses the driver may give to that
request (`RespOK`, `Answers`). It is proved action by action (`RunInvariant`).
On top of it: `StacksPaired` (which stack is ahead between the driver's push or
pop and the core's), `CacheCurrent` (the strengthening carries the offset being
read, so the load that completes is that of the frame entered), `FramesConfine`
(nothing moves FR or the cache while a translated request is unanswered) and
`LimitsHeld` (every action that spends re-checks the limit).

**The instruction set** (`DriverSafety`). `InstructionsRefined`: a synchronous run
implements Isa, `Spec => RefinesIsa`. Between two boundaries a step of Isa is spread
over a dozen transactions, during which the two stacks take turns being one entry
ahead and the frame register moves before its descriptor is there. `ControlInv` says
at every such moment how much of the step is done (`Progress`): nothing (`Waiting`),
data operations only (`Straight`), a call, a framed call, a return or a dispatch at a
named point (`InCheck`, `InPush`, `InCompose`, `InLoad`, `InReturn`, `InDispatch`), or
all of it (`Arrived`: ip, FR and the records of the two stacks are where a step of Isa
from the last boundary leads, `Reach`). It rests on `StackInv` and `CacheInv`: a
multi-exit return reads the exit through the cached descriptor, and a record pairs
what two stacks hold. The one assumption on images it adds to the types is `Alone`, an
operation that transfers control is all its instruction does, which is what the
`lower` functions of both architectures produce.

**Pumped session** (`SessionSafety`). `SessionInv` says what the bus may carry
(`BusInv`: the unanswered request, or the loading read at a boundary), that a pump
has retired and may still retire exactly its budget (`BudgetInv`), that a pause
request meets a pump that has retired nothing (`PauseInv`), and that a breakpoint
come to was announced (`BreakInv`). All five safety properties of the run follow.

**Refinement** (`SessionSafety`). `RunRefined`: the pumped session implements the
synchronous run. Both extend the same core, so a core step maps to itself
(`SameCore`); a poll that answers READY is the driver's transaction
(`SameDevice`), which needs that the command on the bus is the core's request
(`BusInv`) and that its price is the model price; the ready loading read is the
loading step; issues, polls, pauses and returns are stutters (`Unseen`). Its two
hypotheses: at least one device (with none, an image that preloads has nothing to
load from), and devices that charge the model price or report none
(`ModelPrices`). With `InstructionsRefined` for the run it implements, the pumped
session is under the instruction set too.

**Interactive session** (`DebugSafety`). `SteppingRefined`: DebugSession implements
Stepper. What a motion answers depends on what the retired instruction was decoded
to, and the core has consumed that by then; `OpsInv` keeps the link (what is still
to be done, or is reported, is in the instruction the last boundary names), `RestInv`
says that a command meets the session at a boundary or after its end, and
`ControlInv` of the Driver proofs gives the step of Isa under each retirement
(`RetiredRecords`: what a retirement does to the two depths). An edit of the match
register keeps all of it (`MatchIsFree`). `StepsComeBack` adds `CallerInv`: a step
over that has entered a call waits for the depth the client left it at, with
everything below that depth untouched, and the frames above come and go without
touching it (`StackMoves`, `RetiredCaller`). Every image, tape, limit, breakpoint,
budget and edit.

**Debug adapter** (`DapSafety`). `DapInv` is typed records (`Records`), the link
between a motion and the call that drives it (`Calling`), and one part per
property: `PlantedInv`, `EndInv`, `TraceInv`, `SliceInv` (what a slice has spent
while a request waits and what its motion may still spend are a slice together),
`OverInv` (the motion of a step over waits for the depth its handler remembers)
and `ArmedInv`. Slices of every length, programs and maps of every shape.

**Composition algebra** (`Algebra`). `ComposeMapLaw`: a composed map, which is
computed on the listed symbols only, is one map after the other on all of them,
holes included; `CanonicalUnique`: interning by serialization is sound;
`ComposeMapAssociative` and `CompositesAssociative`: it does not matter at which
level one starts; `PlacementStaysInjective`, `BlankStaysBlank`,
`WrittenReadsBack`: what the checks on one binding are worth for a nest of any
depth.

**Rows** (`Algebra`). `ShadowedRowNeverFires`, and `SubsumptionIsSound`: deleting
all subsumed rows at once, each licensed by one that may itself be deleted, leaves
the effect of every input. Both go through least elements: the first matching row
exists (`LeastOf`), and a chain of licences ends in a row that is kept
(`GreatestOf`).

**Width selection** (`RelaxSafety`). `WidthsHold` and `FarJumpsNeeded`, for programs
of any size. A displacement is a sum of sizes between the end of an instruction and
its target, forward from zero up or backward from zero down, and a pass moves all
sizes in one direction; so its magnitude follows the sizes and its sign stays
(`Closer`, `JumpCloser`, `CallCloser`; a call that goes forward crosses the rest of
its function and whole functions, one that goes back the start of its own,
`CallDistance`). Growing therefore keeps a grown jump out of reach and shrinking
keeps a short operand in reach. `RelaxInv` states the first at every pass, not only
at the end: a jump is out of reach among all that is far *so far*, which is what the
next pass builds on. Totals is a recursive function; that it adds up is proved by
its least counterexample (`First`), as no induction scheme can be cited.

**Build columns** (`ColumnsSafety`). `DedupingIsInvisible`, `SharedStaysShared`,
`FallbacksAreReported`, for any number of objects and functions. The walk is
followed step by step by the walk that shares nothing: a body that serves a place of
it calls the same names, and each leads to a body that serves where the call leads
there (`TargetServes`). A shared body stands for both columns because two bodies
that agree name the same callees and because the demotions end in a set closed
under calls inside the object (`Closed`, `SharedCalls`). `WalkInv` also says that
the calls of a visited body are reached, so that a finished walk is all of the
other one; that one ends after as many steps as it has edges (`ReachClosed`).

**What ships** (`LinkerSafety`). `ShipsCalled`: every finished link, under every
mechanism, ships what is called and nothing else, leaves no call bound and loses no
stamp. Pruning keeps a least set of functions, so each of them but the entry has a
caller that is another one: without it a smaller set would do. Renumbering is a
bijection that keeps the entry first (`RankBijects`). That no stamp is lost needs
more than that each was made: the stamps are a least set too, grown from the seeds
(`Generated` in `StampInv`), and the seeds are call sites of functions that run at
the machine's own frame, which retargeting does not cut off.

**Looking through bindings** (`LinkerSafety`). `ComposeShows`: the composite of a
bound call shows the callee, tape by tape and symbol by symbol, what the binding
shows of what the caller sees, holes and closed alphabets included.
`PassthroughShows`: a call the engine collapses changes nothing that is seen.
`MaterializeShows`: the dense maps of a directory entry say what the sparse ones of
the composite do.

**Links by frames** (`LinkerSafety`). `FramesRefines`: an image linked under FRAMES
implements BoundCalls; `UnstampedRefines`: so does every link that stamps nothing,
as HYBRID links without a bijection are. BoundCalls keeps the frame each activation
sees and composes nothing; the image has one number in its frame register and a
table computed before it ran. `FramesInv` connects the two. While the engine
explores, a visited pair <<routine, composite>> has each of its calls accounted for:
the pair it leads to is visited or pending, and its cell of the table is written
(`ExploreInv`, `Accounted`). When nothing is pending this is a closed set, and
the tables hold it (`TablesInv`). While the image runs, every activation on the stack
is a visited pair with the row of its composite in the register (`Runs`); so a call
finds its cell written, which is why the zero of an unwritten cell is never loaded, and
by `ComposeShows` the callee sees what it should. The stack of BoundCalls is the
stack of the image seen through the directory (`MirrorReads`). Then each instruction
of the image is that instruction of the program. `FramesInv` itself was first
checked by TLC over the instance of the run `bind`.

The refinement has a hypothesis on the program, `Framable`, in three parts. A call
without a binding keeps the signature of its caller: the engine takes this for
granted (`lower_frames` hands the caller's context on), it is what makes a context
fit the routine. No call binds the entry: a composite equal to the machine's own
frame would get row 0, the hazard at `engine.rs:225`, and the image traps. Nothing is
bound below a descriptor written by hand: the engine does not follow raw sites
(`engine.rs`, "no closure descent"), so a bound call reached only through one has no
cell. All programs of the run `bind` are Framable, and the hypothesis does not
mention the engine's state.

**Only model-checked.** The builds (`KeepsMeaning`, `KeepsAccesses`, `KeepsTheRun`,
`KeepsTheAccesses`, `Settles`, `RoundsSettle`): their passes and the runs they
compare are recursive operators, which the proof system does not take. The link
under bindings where it stamps (`RefinesBoundCalls` under MONO, and HYBRID with a
bijection): that a stamp's rewritten match table takes the row the original takes is
a statement about rows expanded, folded and sorted, whose proof is an induction over
the table that no installed prover can be given; TLC checks it over the run `bind`.
All liveness: fairness and ENABLED are beyond the proof system used here
(`WidthsSettle`, whose measure - the jumps still short, the calls still far - the
proofs above show to be monotone, and `LoweringEnds`).

## Not modelled, and why

* Lexers, parsers, name resolution, macro expansion, printers, formatters, lints,
  the disassembler, diagnostics: text to text, one pass, no order to get wrong
  that a unit test would not reach. The same for command lines and project files.
* File formats and operand encodings, and the byte-by-byte walks over tables and
  descriptors: byte layout. Core takes what a walk computes as one transaction.
* The language server: a single-threaded loop over documents; what it answers is
  computed from one document at a time.
* The wasm facades: conversions, around an optional AsyncSession.
* The TM debug adapter is the PM adapter's control over a band of tapes; Dap
  stands for both and is mapped to the PM one.
* The unbounded tapes share the ring's operations. `poke`, the debugger's write of
  a cell, moves the head there and back inside one call.
* Source lines and listings of the compilers; change counts beyond "changed".
* Integers are 32 and 64 bits wide in the code; the one place where width decides
  control, a jump target leaving the range of an address, is modelled (`AddrMax`).
  Step and tact counters are unbounded here.
* A pumped session with no device at all: `LatchIssue` has the branch, no run has
  an instance of it.

## What could come next

The stamped links, by a lemma per kind of row about what `RewriteMatchTable` keeps;
the shadowing order of names across any number of libraries; the byte walks, shown
to compute what Core takes in one transaction.
