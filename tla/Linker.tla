--------------------------------- MODULE Linker ---------------------------------
(*****************************************************************************)
(* The composition engine of the linker (crates/core/src/linker/engine.rs    *)
(* and stamp.rs): bound calls are lowered under one of three mechanisms and  *)
(* the image that results is executed.  MONO stamps a copy of the callee per *)
(* composite, FRAMES keeps one copy of every routine and a table that        *)
(* composes frames at run time, HYBRID stamps the bijections and frames the  *)
(* rest.  The promise is that the mechanism cannot be told from outside:     *)
(* every image executes its program as BoundCalls says.                      *)
(*                                                                           *)
(* Offsets in a blob are instruction numbers here, the first is 1; a match   *)
(* and the dispatch or branch that consumes it are one instruction, and so   *)
(* are wr, mov and wrmv.  Functions are numbered as in the link order, the   *)
(* entry first and stamps after the routines.  A link without any bound call *)
(* never enters the engine and is not in Programs.                           *)
(*                                                                           *)
(* Composites, the entries of the frames region and its sites are not        *)
(* numbered: where the code has an index the model has what it indexes.      *)
(* Functions keep their numbers, because pruning changes them.               *)
(*****************************************************************************)
EXTENDS Bindings, Bands, Reach, SequencesExt, TLC

CONSTANTS
  Programs, Inputs(_), Capacity,   \* as in BoundCalls
  Mechanisms                             \* of "mono", "frames", "hybrid"

------------------------------------------------------------------------------
(* The code the engine is given.                                             *)

Transfers == {"call", "tail", "bound", "raw"}
Leaves    == {"tail", "ret", "stop", "match"}   \* never run on to the next

\* The sites of these kinds in a blob, and the calls among functions.
SitesOf(code, ops) == {pc \in DOMAIN code : code[pc].op \in ops}
Calls(fs) ==
  UNION {{<<f, fs[f].code[pc].to>> : pc \in SitesOf(fs[f].code, Transfers)} : f \in DOMAIN fs}

IsInstr(i) ==
  \/ i.op \in {"call", "tail"}    /\ i = [op |-> i.op, to |-> i.to]
  \/ i.op = "bound"               /\ i = [op |-> i.op, to |-> i.to, binding |-> i.binding]
  \/ i.op = "raw"                 /\ i = [op |-> i.op, to |-> i.to, desc |-> i.desc]
  \/ i.op = "wrmv"                /\ i = [op |-> i.op, w |-> i.w, mv |-> i.mv]
  \/ i.op \in {"match", "branch"} /\ i = [op |-> i.op, rows |-> i.rows]
  \/ i.op \in {"ret", "stop"}     /\ i = [op |-> i.op]

\* Every routine is reached from the entry (resolve), every transfer leads to
\* one, and code does not run off its end.
IsList(s) == Len(s) \in Nat /\ DOMAIN s = 1..Len(s)
CodeOK(rs, code) ==
  /\ IsList(code) /\ 1 \in DOMAIN code
  /\ \A pc \in DOMAIN code :
       /\ IsInstr(code[pc])
       /\ code[pc].op \in Transfers => code[pc].to \in DOMAIN rs
       /\ code[pc].op \notin Leaves => pc + 1 \in DOMAIN code
       /\ code[pc].op = "wrmv" => IsList(code[pc].w)
       /\ code[pc].op \in {"match", "branch"} =>
            /\ IsList(code[pc].rows)
            /\ \A i \in DOMAIN code[pc].rows : code[pc].rows[i].to \in DOMAIN code
BindingOK(binding) ==
  /\ IsList(binding)
  /\ \A k \in DOMAIN binding : /\ binding[k].tape \in Nat
                               /\ binding[k].pairs \subseteq [src : Nat, dst : Nat, oneWay : BOOLEAN]
WellFormed(p) ==
  LET rs == p.routines IN
  /\ IsList(rs) /\ 1 \in DOMAIN rs
  /\ \A r \in DOMAIN rs :
       /\ rs[r].cards \in Seq(Nat \ {0}) /\ CodeOK(rs, rs[r].code)
       /\ \A pc \in SitesOf(rs[r].code, {"bound"}) : BindingOK(rs[r].code[pc].binding)
  /\ DOMAIN rs \subseteq ReachOf(Calls(rs), 1)

ASSUME LinkerAssumption ==
  /\ \A p \in Programs : WellFormed(p)
  /\ Mechanisms \subseteq {"mono", "frames", "hybrid"}

VARIABLES
  program,   \* the resolved order: routines with signature and code
  mechanism,
  phase,     \* "scan", "stamp", "frames", "ready", or why the link is refused
  funcs,     \* functions [routine, comp, code] in link order
  seeds,     \* bound sites <<function, pc>> to retarget to stamps
  nodes,     \* the stamps to make, one composite each
  closed,    \* those of them that have had their own calls followed
  pending,   \* pairs <<function, composite>> to explore
  visited,   \* pairs explored
  comps,     \* engine composites
  columns,   \* <<<<function, pc>>, row>> -> directory entry
  tables,    \* the frames region [directory, compose]
  tapes,     \* execution: the tapes,
  acts,      \*   the activations [fn, pc, fr], top last,
  outcome    \*   and how it ended

stampVars == <<seeds, nodes, closed>>
frameVars == <<pending, visited, comps, columns, tables>>
runVars   == <<tapes, acts, outcome>>
vars == <<program, mechanism, phase, funcs, stampVars, frameVars, runVars>>

Machine   == program.routines[1].cards
Arity     == Len(Machine)
CountOf   == Len(program.routines)
Generic   == [routine |-> 0, tapes |-> <<>>]   \* the composite of no stamp
Cards(fn) == IF funcs[fn].comp = Generic THEN program.routines[funcs[fn].routine].cards
                                         ELSE Machine

------------------------------------------------------------------------------
(* Scanning. *)

AllSites(ops) == UNION {{f} \X SitesOf(funcs[f].code, ops) : f \in DOMAIN funcs}
Site(s) == funcs[s[1]].code[s[2]]

\* The binding taken at the caller's own identity.
Absolutized(f, instr) ==
  BindingToComposite(instr.binding, Cards(f), 1, Cards(instr.to))
Collapses(s) ==
  Site(s).op = "bound"
    /\ IsFullPassthrough(Absolutized(s[1], Site(s)), Cards(s[1]), Cards(Site(s).to))

\* Functions that run at the machine's own frame.
Inherits(s) == Site(s).op \in {"call", "tail"} \/ Collapses(s)
IdentityWorld ==
  ReachOf({<<s[1], Site(s).to>> : s \in {t \in AllSites(Transfers) : Inherits(t)}}, 1)

IsBijection(s) ==
  \A k \in DOMAIN Site(s).binding :
    /\ Cards(s[1])[Site(s).binding[k].tape] = Cards(Site(s).to)[k]
    /\ \A p \in Site(s).binding[k].pairs : ~p.oneWay

\* Bound sites at the machine's own frame that stay calls with a binding.
Projecting == {s \in AllSites({"bound"}) : s[1] \in IdentityWorld /\ ~Collapses(s)}
Bijective  == {s \in Projecting : IsBijection(s)}
RawReached == \E s \in AllSites({"raw"}) : s[1] \in IdentityWorld

SeedNode(s) == Compose(IdentityComposite(Arity, 1), Site(s).binding, Cards(s[1]),
                       Site(s).to, Cards(Site(s).to))
ToStamp(from) ==
  /\ phase' = "stamp"
  /\ seeds' = from
  /\ nodes' = {SeedNode(s) : s \in from}
  /\ UNCHANGED pending
ToFrames ==
  /\ phase' = "frames"
  /\ pending' = {<<1, IdentityComposite(Arity, 1)>>}
  /\ UNCHANGED <<seeds, nodes>>
Refuse(why) == phase' = why /\ UNCHANGED <<seeds, nodes, pending>>

Mono == IF RawReached THEN Refuse("MonoRawFrame") ELSE ToStamp(Projecting)
Scan ==
  /\ phase = "scan"
  /\ IF \E s \in AllSites({"bound"}) :
          ~Legal(Site(s).binding, Cards(s[1]), Cards(Site(s).to))
     THEN Refuse("BadBinding")
     ELSE CASE mechanism = "frames" -> ToFrames
            [] mechanism = "mono"   -> Mono
            [] mechanism = "hybrid" -> IF Bijective = {} THEN ToFrames
                                       ELSE IF Bijective = Projecting THEN Mono
                                       ELSE ToStamp(Bijective)
  /\ UNCHANGED <<program, mechanism, funcs, closed, visited, comps, columns, tables, runVars>>

\* Both mechanisms in one image.
Mixed == mechanism = "hybrid" /\ seeds # Projecting

------------------------------------------------------------------------------
(* Stamping: the calls of a stamp lead to stamps. *)

Child(comp, instr) ==
  IF instr.op = "bound"
  THEN Compose(comp, instr.binding, Cards(comp.routine), instr.to, Cards(instr.to))
  ELSE [comp EXCEPT !.routine = instr.to]
\* Back at the machine's own frame the original routine will do.
Returns(comp, instr) ==
  instr.op = "bound"
    /\ IsFullPassthrough(Child(comp, instr), Machine, Cards(instr.to))

Children(comp) ==
  LET code == funcs[comp.routine].code
  IN  {Child(comp, code[pc]) : pc \in {x \in SitesOf(code, Transfers) : ~Returns(comp, code[x])}}

CloseStamp ==
  /\ phase = "stamp"
  /\ \E comp \in nodes \ closed :
       IF SitesOf(funcs[comp.routine].code, {"raw"}) # {}
       THEN phase' = "MonoRawFrame" /\ UNCHANGED <<nodes, closed>>
       ELSE /\ nodes' = nodes \cup Children(comp)
            /\ closed' = closed \cup {comp}
            /\ UNCHANGED phase
  /\ UNCHANGED <<program, mechanism, funcs, seeds, frameVars, runVars>>

\* Stamps follow the routines in the link order.
Stamps == SetToSeq(nodes)
StampOf(comp) == CountOf + CHOOSE i \in DOMAIN Stamps : Stamps[i] = comp

Symbols(tape) == 0..Machine[tape]-1

\* A vector in machine width: at phys(k) what the k-th tape has, or the rest.
Widen(comp, vector, rest) ==
  [t \in 1..Arity |-> IF \E k \in DOMAIN vector : comp.tapes[k].phys = t
                      THEN vector[CHOOSE k \in DOMAIN vector : comp.tapes[k].phys = t]
                      ELSE rest]

Image(comp, k, s) ==
  IF s = Keep THEN Keep ELSE ImageIn(comp.tapes[k].wmap, s, Machine[comp.tapes[k].phys])
StampWrite(comp, instr) ==
  LET w == [k \in DOMAIN instr.w |-> Image(comp, k, instr.w[k])]
  IN  IF \E k \in DOMAIN w : w[k] = Hole
      THEN [op |-> "trap", kind |-> "UnmappedWrite"]
      ELSE [op |-> "wrmv", w |-> Widen(comp, w, Keep), mv |-> Widen(comp, instr.mv, 0)]

ReadsOn(comp, k, p) == ImageIn(comp.tapes[k].rmap, p, Cards(comp.routine)[k])
HolesOn(comp, k) == {p \in Symbols(comp.tapes[k].phys) : ReadsOn(comp, k, p) = Hole}
Preimage(comp, k, cell) == {p \in Symbols(comp.tapes[k].phys) : ReadsOn(comp, k, p) = cell}

LexLess(a, b) == \E i \in DOMAIN a : a[i] < b[i] /\ \A j \in 1..i-1 : a[j] = b[j]
Ascending(S, tape) == SelectSeq([i \in 1..Machine[tape] |-> i-1], LAMBDA p : p \in S)

\* A row of its own for every symbol that must not be read.
TrapRows(comp, stub) ==
  LET Row(tape, p) == [cells |-> [t \in 1..Arity |-> IF t = tape THEN p ELSE Wildcard], to |-> stub]
      OnTape(k) == LET tape  == comp.tapes[k].phys
                       holes == Ascending(HolesOn(comp, k), tape)
                   IN  [i \in DOMAIN holes |-> Row(tape, holes[i])]
  IN  FlattenSeq([k \in DOMAIN comp.tapes |-> OnTape(k)])
\* A row for every choice of symbols that read as its cells; none if a cell
\* is never read.
Cartesian(options) ==
  FoldLeft(LAMBDA combos, vals :
             FlattenSeq([i \in DOMAIN combos |-> [j \in DOMAIN vals |-> Append(combos[i], vals[j])]]),
           <<<<>>>>, options)
Expanded(comp, row) ==
  LET Options(k) == IF row.cells[k] = Wildcard THEN <<Wildcard>>
                    ELSE Ascending(Preimage(comp, k, row.cells[k]), comp.tapes[k].phys)
      choices == Cartesian([k \in DOMAIN row.cells |-> Options(k)])
  IN  [i \in DOMAIN choices |-> [cells |-> Widen(comp, choices[i], Wildcard), to |-> row.to]]

\* Exact rows ascending, then those with a wildcard, the catch-all last.
Wild(row) == {t \in DOMAIN row.cells : row.cells[t] = Wildcard}
CanonicalRowOrder(rows) ==
  SortSeq(SelectSeq(rows, LAMBDA r : Wild(r) = {}), LAMBDA a, b : LexLess(a.cells, b.cells))
    \o SelectSeq(rows, LAMBDA r : Wild(r) \notin {{}, DOMAIN r.cells})
    \o SelectSeq(rows, LAMBDA r : Wild(r) = DOMAIN r.cells)
RewriteMatchTable(comp, rows, stub) ==
  CanonicalRowOrder(TrapRows(comp, stub)
                      \o FlattenSeq([i \in DOMAIN rows |-> Expanded(comp, rows[i])]))

\* The copy of a routine for a composite, a trap stub behind it.
BuildStamp(comp) ==
  LET code == funcs[comp.routine].code
      Target(instr) == IF Returns(comp, instr) THEN instr.to
                       ELSE StampOf(Child(comp, instr))
      Emit(instr) ==
        CASE instr.op \in {"call", "bound"} -> [op |-> "call", to |-> Target(instr)]
          [] instr.op = "tail" -> [op |-> "tail", to |-> Target(instr)]
          [] instr.op = "wrmv" -> StampWrite(comp, instr)
          [] instr.op \in {"match", "branch"} ->
               [instr EXCEPT !.rows = RewriteMatchTable(comp, @, Len(code) + 1)]
          [] OTHER -> instr
  IN  [routine |-> comp.routine, comp |-> comp,
       code |-> [pc \in 1..Len(code) + 1 |->
                   IF pc \in DOMAIN code THEN Emit(code[pc])
                   ELSE [op |-> "trap", kind |-> "UnmappedRead"]]]

\* A branch cannot tell a trap row from a match.
HoleyBranch(comp) ==
  /\ SitesOf(funcs[comp.routine].code, {"branch"}) # {}
  /\ \E k \in DOMAIN comp.tapes : HolesOn(comp, k) # {}

\* Seeds lead to their stamps; what else was bound goes to the original when
\* nothing is framed.
Retarget(f) ==
  LET New(pc, instr) ==
        IF instr.op # "bound" THEN instr
        ELSE IF <<f, pc>> \in seeds
        THEN [op |-> "call", to |-> StampOf(SeedNode(<<f, pc>>))]
        ELSE IF Mixed THEN instr ELSE [op |-> "call", to |-> instr.to]
  IN  [funcs[f] EXCEPT !.code = [pc \in DOMAIN @ |-> New(pc, @[pc])]]

\* Functions no call of a reached function names do not ship.
PruneUnreachableNothing(fs) == fs
Rank(kept, f) == Cardinality({g \in kept : g <= f})
PruneUnreachable(fs) ==
  LET kept   == ReachOf(Calls(fs), 1)
      Old(i) == CHOOSE f \in kept : Rank(kept, f) = i
      Moved(instr) == IF instr.op \in Transfers THEN [instr EXCEPT !.to = Rank(kept, @)]
                      ELSE instr
  IN  [i \in 1..Cardinality(kept) |->
         [fs[Old(i)] EXCEPT !.code = [pc \in DOMAIN @ |-> Moved(@[pc])]]]

Lowered == [f \in 1..CountOf + Cardinality(nodes) |->
              IF f <= CountOf THEN Retarget(f) ELSE BuildStamp(Stamps[f - CountOf])]
EmitStamps ==
  /\ phase = "stamp" /\ nodes \subseteq closed
  /\ IF \E comp \in nodes : HoleyBranch(comp)
     THEN phase' = "MonoHoleyMatchBranch" /\ UNCHANGED <<funcs, pending>>
     ELSE /\ funcs' = PruneUnreachable(Lowered)
          /\ IF Mixed THEN /\ phase' = "frames"
                           /\ pending' = {<<1, IdentityComposite(Arity, 1)>>}
                      ELSE phase' = "ready" /\ UNCHANGED pending
  /\ UNCHANGED <<program, mechanism, stampVars, visited, comps, columns, tables, runVars>>

------------------------------------------------------------------------------
(* Frames: the closure over the pairs of a function and the composite it     *)
(* runs under, then the table.                                               *)

\* The directory entry of a composite, and the entry and row 0: no frame.
Entry(comp) == <<comp>>
Zero        == <<>>
Row(context) == IF context \in comps THEN Entry(context) ELSE Zero

Framed(s) == Site(s).op \in {"bound", "raw"} /\ ~Collapses(s)
CalleeContext(context, s) ==
  IF Framed(s) THEN Compose(context, Site(s).binding, Cards(s[1]), Site(s).to, Cards(Site(s).to))
  ELSE context

ExploredNever(pair) == FALSE
Explored(pair) == pair \in visited
Explore ==
  /\ phase = "frames"
  /\ \E pair \in pending :
       LET context == pair[2]
           sites   == {pair[1]} \X SitesOf(funcs[pair[1]].code, {"call", "tail", "bound"})
           framed  == {s \in sites : Framed(s)}
           cells   == framed \X {Row(context)}
       IN  IF Explored(pair)
           THEN pending' = pending \ {pair} /\ UNCHANGED <<visited, comps, columns>>
           ELSE /\ visited' = visited \cup {pair}
                /\ comps' = comps \cup {CalleeContext(context, s) : s \in framed}
                /\ columns' = [x \in cells \cup DOMAIN columns |->
                                 IF x \in cells THEN Entry(CalleeContext(context, x[1])) ELSE columns[x]]
                /\ pending' = (pending \ {pair}) \cup {<<Site(s).to, CalleeContext(context, s)>> : s \in sites}
  /\ UNCHANGED <<program, mechanism, phase, funcs, stampVars, tables, runVars>>

\* A framed call names its column of the table.
RewriteBlob(f) ==
  LET New(pc, instr) ==
        IF instr.op \notin {"bound", "raw"} THEN instr
        ELSE IF Framed(<<f, pc>>) THEN [op |-> "framed", to |-> instr.to, site |-> <<f, pc>>]
        ELSE [op |-> "call", to |-> instr.to]
  IN  [funcs[f] EXCEPT !.code = [pc \in DOMAIN @ |-> New(pc, @[pc])]]

Materialize(comp) ==
  [k \in DOMAIN comp.tapes |->
     LET tape  == comp.tapes[k]
         here  == Machine[tape.phys]
         there == Cards(comp.routine)[k]
     IN  [phys |-> tape.phys, rmap |-> DenseMap(tape.rmap, here, there),
          wmap |-> DenseMap(tape.wmap, there, here)]]

\* A raw descriptor is absolute: one entry in every row.
RawEntry(s) == <<s[1], Site(s).desc>>
RawDescriptors == {RawEntry(s) : s \in AllSites({"raw"})}
Directory ==
  [e \in {Entry(comp) : comp \in comps} \cup RawDescriptors |->
     IF e \in RawDescriptors THEN e[2] ELSE Materialize(e[1])]
Composed(row, s) == IF Site(s).op = "raw" THEN RawEntry(s)
                    ELSE IF <<s, row>> \in DOMAIN columns THEN columns[<<s, row>>] ELSE Zero
ComposeTable ==
  [row \in {Zero} \cup DOMAIN Directory |->
     [s \in {t \in AllSites({"bound", "raw"}) : Framed(t)} |-> Composed(row, s)]]

Plan ==
  /\ phase = "frames" /\ pending = {}
  /\ phase' = "ready"
  /\ tables' = [directory |-> Directory, compose |-> ComposeTable]
  /\ funcs' = [f \in DOMAIN funcs |-> RewriteBlob(f)]
  /\ UNCHANGED <<program, mechanism, stampVars, pending, visited, comps, columns, runVars>>

Lower == Scan \/ CloseStamp \/ EmitStamps \/ Explore \/ Plan

------------------------------------------------------------------------------
(* Execution of the image: the base machine, and the frame register with the *)
(* tables when there is a frames region.                                     *)

\* What an activation sees of the machine: descriptors show what they show,
\* the identity frame everything.
Shown(a) == IF a.fr = Zero THEN NoTranslation(Arity, Machine)
            ELSE Absolute(tables.directory[a.fr], Machine, Cards(a.fn))

Top     == acts[Len(acts)]
Below   == SubSeq(acts, 1, Len(acts) - 1)
Instr   == funcs[Top.fn].code[Top.pc]
At(op)  == outcome = "running" /\ Instr.op = op
Goto(pc) == acts' = Append(Below, [Top EXCEPT !.pc = pc])
Finish(how) == acts' = <<>> /\ outcome' = how
Seen == [k \in DOMAIN Shown(Top) |-> Shown(Top)[k].read[Under(tapes[Shown(Top)[k].phys])]]

Boot ==
  /\ phase = "ready" /\ outcome = "waiting"
  /\ tapes' \in Inputs(program)
  /\ acts' = <<[fn |-> 1, pc |-> 1, fr |-> Zero]>>
  /\ outcome' = "running"

\* The tapes of a vector are written one after the other.
Unwritable == {k \in DOMAIN Instr.w : Instr.w[k] # Keep
                                    /\ Shown(Top)[k].write[Instr.w[k]] = Hole}
WriteMove ==
  /\ At("wrmv")
  /\ IF Unwritable = {}
     THEN /\ tapes' = MoveAll(WriteAll(tapes, Shown(Top), Instr.w), Shown(Top), Instr.mv)
          /\ Goto(Top.pc + 1) /\ UNCHANGED outcome
     ELSE /\ tapes' = WriteAll(tapes, Shown(Top), SubSeq(Instr.w, 1, Min(Unwritable) - 1))
          /\ Finish("UnmappedWrite")

Match ==
  /\ At("match") \/ At("branch")
  /\ IF \E k \in DOMAIN Seen : Seen[k] = Hole THEN Finish("UnmappedRead")
     ELSE IF Matches(Instr.rows, Seen) # {}
     THEN Goto(Instr.rows[FirstMatch(Instr.rows, Seen)].to) /\ UNCHANGED outcome
     ELSE IF Instr.op = "branch" THEN Goto(Top.pc + 1) /\ UNCHANGED outcome
     ELSE Finish("NoTransition")
  /\ UNCHANGED tapes

Trap == At("trap") /\ Finish(Instr.kind) /\ UNCHANGED tapes

\* Entering a function; a framed call looks its frame up once it has pushed.
Enter(fr) == acts' = Append(Append(Below, [Top EXCEPT !.pc = @ + 1]),
                            [fn |-> Instr.to, pc |-> 1, fr |-> fr])
Full == Len(acts) > Capacity
Call ==
  /\ At("call")
  /\ IF Full THEN Finish("StackOverflow") ELSE Enter(Top.fr) /\ UNCHANGED outcome
  /\ UNCHANGED tapes
FramedCall ==
  /\ At("framed")
  /\ LET fr == tables.compose[Top.fr][Instr.site]
     IN  IF Full THEN Finish("StackOverflow")
         ELSE IF fr = Zero THEN Finish("BadOperand")
         ELSE Enter(fr) /\ UNCHANGED outcome
  /\ UNCHANGED tapes

TailCall ==
  /\ At("tail")
  /\ acts' = Append(Below, [fn |-> Instr.to, pc |-> 1, fr |-> Top.fr])
  /\ UNCHANGED <<tapes, outcome>>

Return ==
  /\ At("ret")
  /\ IF Below = <<>> THEN Finish("StackUnderflow") ELSE acts' = Below /\ UNCHANGED outcome
  /\ UNCHANGED tapes

Stop == At("stop") /\ Finish("Stopped") /\ UNCHANGED tapes

Execute ==
  /\ Boot \/ WriteMove \/ Match \/ Trap \/ Call \/ FramedCall \/ TailCall \/ Return \/ Stop
  /\ UNCHANGED <<program, mechanism, phase, funcs, stampVars, frameVars>>

Init ==
  /\ program \in Programs /\ mechanism \in Mechanisms
  /\ phase = "scan"
  /\ funcs = [r \in 1..CountOf |->
                [routine |-> r, comp |-> Generic, code |-> program.routines[r].code]]
  /\ seeds = {} /\ nodes = {} /\ closed = {}
  /\ pending = {} /\ visited = {} /\ comps = {} /\ columns = <<>>
  /\ tables = [directory |-> <<>>, compose |-> <<>>]
  /\ tapes = <<>> /\ acts = <<>> /\ outcome = "waiting"

Next == Lower \/ Execute
Spec == Init /\ [][Next]_vars

\* The link runs to its end once started: this is WF_vars(Lower) spelled out,
\* Lower being enabled exactly while Lowering and the only step then.
Lowering == phase \in {"scan", "stamp", "frames"}
FairSpec == Spec /\ ([]<>~Lowering \/ []<><<Next>>_vars)

------------------------------------------------------------------------------
(* Properties. *)

\* What the routine an activation executes sees: a stamp was made for what
\* its composite shows of the frame it runs under.
FrameOf(a) ==
  LET shown == Shown(a)
      comp  == funcs[a.fn].comp
      cards == program.routines[funcs[a.fn].routine].cards
      Stamped(k) ==
        LET tape == comp.tapes[k]
            view == shown[tape.phys]
        IN  [phys  |-> view.phys,
             read  |-> [s \in DOMAIN view.read |->
                          IF view.read[s] = Hole THEN Hole ELSE ImageIn(tape.rmap, view.read[s], cards[k])],
             write |-> [s \in 0..cards[k]-1 |->
                          IF ImageIn(tape.wmap, s, Machine[tape.phys]) = Hole THEN Hole
                          ELSE view.write[ImageIn(tape.wmap, s, Machine[tape.phys])]]]
  IN  IF comp = Generic THEN shown ELSE [k \in DOMAIN comp.tapes |-> Stamped(k)]

\* A trap stub is where an unmapped read has already trapped.
AtStub == /\ outcome = "running" /\ funcs[Top.fn].comp # Generic
          /\ Top.pc = Len(funcs[Top.fn].code)
Mirror == IF AtStub THEN <<>>
          ELSE [i \in DOMAIN acts |-> [routine |-> funcs[acts[i].fn].routine,
                                       pc |-> acts[i].pc, frame |-> FrameOf(acts[i])]]
Reported == IF AtStub THEN "UnmappedRead" ELSE outcome
Bound == INSTANCE BoundCalls WITH stack <- Mirror, outcome <- Reported

\* Whatever the mechanism, the image executes the program its routines and
\* bindings describe: the same instructions of the same routines, under the
\* same frames, with the same traps on the same tapes.
RefinesBoundCalls == Bound!BoundSpec

\* A function nothing else calls never ships, nothing that is called is
\* missing, no call is left bound, and no stamp that was made is lost.
ShipsWhatIsCalled ==
  phase = "ready" =>
    LET Called(f) == {funcs[f].code[pc].to :
                        pc \in SitesOf(funcs[f].code, {"call", "tail", "framed", "raw"})}
    IN  /\ \A f \in DOMAIN funcs : /\ Called(f) \subseteq DOMAIN funcs
                                  /\ SitesOf(funcs[f].code, {"bound"}) = {}
        /\ \A f \in DOMAIN funcs \ {1} : \E g \in DOMAIN funcs \ {f} : f \in Called(g)
        /\ \A comp \in nodes : \E f \in DOMAIN funcs : funcs[f].comp = comp

\* The closure over routines and composites ends, also when routines call
\* themselves through bindings that change at every level.
LoweringEnds == <>~Lowering
=============================================================================
