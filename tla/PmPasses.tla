-------------------------------- MODULE PmPasses --------------------------------
(*****************************************************************************)
(* The optimizer's passes (crates/post-machine/src/optimizer), each a        *)
(* function from the blocks of one function to blocks; inline alone rewrites *)
(* the whole program.  A pass's change count is kept only as "changed".      *)
(*****************************************************************************)
EXTENDS PmIr, FiniteSetsExt

CONSTANT InlineMaxOps

MapBlocks(bs, F(_)) == [i \in DOMAIN bs |-> F(bs[i])]
IsCall(o) == o.op = "Call"
IsWr(o)   == o.op = "Wr"

(***************************** dataflow (dataflow.rs) ************************)
\* A fact is what is known at a point: nothing reaches it, the match flag is
\* whatever entry left, it tells the cell, or it tells the known cell 0 or 1.
Unreached == -3
Uncoupled == -2
Coupled   == -1
KnowsCell(fact) == fact \in {0, 1}

Merge(facts) ==
  LET S == facts \ {Unreached} IN
  IF S = {} THEN Unreached
  ELSE IF Uncoupled \in S THEN Uncoupled
  ELSE IF Cardinality(S) = 1 THEN CHOOSE x \in S : TRUE ELSE Coupled

Lose(fact) == IF fact = Uncoupled THEN Uncoupled ELSE Coupled
TransferOpKeepsOverCall(fact, o) ==                                \* mutant
  CASE o.op \in {"Lft", "Rgt", "WrLft", "WrRgt"} -> Coupled
    [] o.op = "Wr" -> o.index
    [] o.op = "Call" -> fact
    [] o.op = "Brk" -> Lose(fact)
TransferOp(fact, o) ==
  CASE o.op \in {"Lft", "Rgt", "WrLft", "WrRgt"} -> Coupled
    [] o.op = "Wr" -> o.index
    [] o.op \in {"Call", "Brk"} -> Lose(fact)

LeaveFact(b, fact) == FoldLeft(TransferOp, fact, b.ops)

\* The facts block b passes to block id over its edges.
EdgeFacts(b, fact, id) ==
  LET t == b.term  out == LeaveFact(b, fact)
      arm(target, cell) == IF target # id THEN {}
                           ELSE {IF out = Uncoupled THEN Uncoupled ELSE cell} IN
  IF fact = Unreached THEN {}
  ELSE IF IsJump(t) THEN IF t.to = id THEN {out} ELSE {}
  ELSE IF t.kind = "Check" THEN arm(t.marked, 1) \cup arm(t.blank, 0)
  ELSE {}

\* The least solution, which is what the worklist converges to.
BlockEntryFacts(bs) ==
  LET RECURSIVE Grow(_)
      Grow(e) ==
        LET next == [id \in Ids(bs) |->
              Merge(UNION {EdgeFacts(bs[i], e[bs[i].id], id) : i \in DOMAIN bs}
                    \cup IF id = bs[1].id THEN {Uncoupled} ELSE {Unreached})] IN
        IF next = e THEN e ELSE Grow(next) IN
  Grow([id \in Ids(bs) |-> IF id = bs[1].id THEN Uncoupled ELSE Unreached])

(******************************* local passes ********************************)
CheckFold(bs) ==
  MapBlocks(bs, LAMBDA b :
    IF b.term.kind = "Check" /\ b.term.marked = b.term.blank
    THEN [b EXCEPT !.term = Goto(b.term.marked)] ELSE b)

\* An empty block that only jumps onward; a cycle of them is left alone.
Forwards(bs) == {b \in Range(bs) : b.ops = <<>> /\ IsJump(b.term)}
RECURSIVE Resolve(_, _, _, _)
Resolve(bs, start, cur, seen) ==
  LET f == {b \in Forwards(bs) : b.id = cur} IN
  IF f = {} THEN cur
  ELSE IF cur \in seen THEN start
  ELSE Resolve(bs, start, (CHOOSE b \in f : TRUE).term.to, seen \cup {cur})
JumpThreading(bs) ==
  MapBlocks(bs, LAMBDA b :
    [b EXCEPT !.term = Retarget(@, LAMBDA t : Resolve(bs, t, t, {}))])

\* Rule 1: a write of what the cell is known to hold changes nothing.
DropIdempotent(ops, entry) ==
  FoldLeft(LAMBDA acc, o :
             IF IsWr(o) /\ acc.fact = o.index THEN acc
             ELSE [fact |-> TransferOp(acc.fact, o), kept |-> Append(acc.kept, o)],
           [fact |-> entry, kept |-> <<>>], ops).kept
\* Rule 2: a write is dead when the very next op of the block overwrites it;
\* every other op ends its window.
KeepOps(ops, Keep(_)) ==
  LET is == SelectSeq([i \in DOMAIN ops |-> i], Keep) IN [j \in DOMAIN is |-> ops[is[j]]]
DropDead(ops) ==
  KeepOps(ops, LAMBDA i : ~(IsWr(ops[i]) /\ i < Len(ops) /\ IsWr(ops[i + 1])))
CellState(bs) ==
  LET entry == BlockEntryFacts(bs) IN
  MapBlocks(bs, LAMBDA b :
    IF entry[b.id] = Unreached THEN b
    ELSE [b EXCEPT !.ops = DropDead(DropIdempotent(@, entry[b.id]))])

BranchFold(bs) ==
  LET entry == BlockEntryFacts(bs) IN
  MapBlocks(bs, LAMBDA b :
    LET fact == LeaveFact(b, entry[b.id]) IN
    IF entry[b.id] # Unreached /\ b.term.kind = "Check" /\ KnowsCell(fact)
    THEN [b EXCEPT !.term = Goto(IF fact = 1 THEN b.term.marked ELSE b.term.blank)]
    ELSE b)

\* Adjacent write and move become one instruction with one latch.
FuseTapeOps(bs) ==
  MapBlocks(bs, LAMBDA b :
    [b EXCEPT !.ops =
       FoldLeft(LAMBDA acc, o :
          IF o \in {Lft, Rgt} /\ acc # <<>> /\ IsWr(acc[Len(acc)])
          THEN Append(SubSeq(acc, 1, Len(acc) - 1),
                      IF o = Lft THEN WrLft(acc[Len(acc)].index) ELSE WrRgt(acc[Len(acc)].index))
          ELSE Append(acc, o), <<>>, @)])

RECURSIVE ReachGrow(_, _)
ReachGrow(bs, seen) ==
  LET more == seen \cup UNION {Targets(b.term) : b \in {c \in Range(bs) : c.id \in seen}} IN
  IF more = seen THEN seen ELSE ReachGrow(bs, more)
Dce(bs) ==
  LET seen == ReachGrow(bs, {bs[1].id}) IN SelectSeq(bs, LAMBDA b : b.id \in seen)

\* Never in main, whose return is a stop: the callee's return would underflow.
TailCalls(name, bs) ==
  IF name = "main" THEN bs
  ELSE MapBlocks(bs, LAMBDA b :
         IF b.term = Return /\ b.ops # <<>> /\ IsCall(b.ops[Len(b.ops)])
         THEN [b EXCEPT !.ops = SubSeq(@, 1, Len(@) - 1),
                        !.term = TailCall(b.ops[Len(b.ops)].name)]
         ELSE b)
(**************************** passes between blocks **************************)
\* Fused writes are never the same instruction as anything (same_op).
SameOp(a, b)    == a = b /\ a.op \notin {"WrLft", "WrRgt"}
SameBlock(a, b) == /\ Len(a.ops) = Len(b.ops)
                   /\ \A i \in DOMAIN a.ops : SameOp(a.ops[i], b.ops[i])
                   /\ a.term = b.term

CommonSuffixLen(a, b) ==
  LET shared(n) == \A k \in 0..n-1 : LET x == a[Len(a) - k] IN
                     SameOp(x, b[Len(b) - k]) /\ x # Brk IN
  CHOOSE n \in 0..Min({Len(a), Len(b)}) :
    shared(n) /\ (n < Min({Len(a), Len(b)}) => ~shared(n + 1))

\* One join per call: a block two other blocks jump to and nothing else
\* reaches takes over the ops both end with, two of them at least.
JumpPreds(bs, id)  == {i \in DOMAIN bs : IsJump(bs[i].term) /\ bs[i].term.to = id}
OtherEdges(bs, id) == id = bs[1].id \/ \E b \in Range(bs) :
                                         b.term.kind = "Check" /\ id \in Targets(b.term)
Joins(bs, j) ==
  /\ ~OtherEdges(bs, bs[j].id)
  /\ Cardinality(JumpPreds(bs, bs[j].id)) = 2 /\ j \notin JumpPreds(bs, bs[j].id)
TailSink(bs) ==
  LET arms(j) == LET a == Min(JumpPreds(bs, bs[j].id)) IN
                 <<a, CHOOSE b \in JumpPreds(bs, bs[j].id) : b # a>>
      n(j) == CommonSuffixLen(bs[arms(j)[1]].ops, bs[arms(j)[2]].ops)
      found == {j \in DOMAIN bs : Joins(bs, j) /\ n(j) >= 2} IN
  IF found = {} THEN bs
  ELSE LET j == Min(found)  ab == arms(j)  ops == bs[ab[1]].ops
           suffix == SubSeq(ops, Len(ops) - n(j) + 1, Len(ops))
           cut == [i \in DOMAIN bs |->
                     IF i \in {ab[1], ab[2]}
                     THEN [bs[i] EXCEPT !.ops = SubSeq(@, 1, Len(@) - n(j))] ELSE bs[i]] IN
       [cut EXCEPT ![j].ops = suffix \o @]

\* (a) a later block equal to an earlier one is deleted, its references moved;
\* (b) a return falls through to an empty return laid out next.
RECURSIVE Dedup(_)
Dedup(bs) ==
  LET dups == {<<i, j>> \in (DOMAIN bs) \X (DOMAIN bs) : i < j /\ SameBlock(bs[i], bs[j])} IN
  IF dups = {} THEN bs
  ELSE LET i == Min({p[1] : p \in dups})  j == Min({p[2] : p \in {q \in dups : q[1] = i}})
           dup == bs[j].id IN
       Dedup(SelectSeq(MapBlocks(bs, LAMBDA b :
               [b EXCEPT !.term = Retarget(@, LAMBDA t : IF t = dup THEN bs[i].id ELSE t)]),
             LAMBDA b : b.id # dup))
TailMerge(bs) ==
  LET d == Dedup(bs) IN
  [i \in DOMAIN d |->
     IF i < Len(d) /\ d[i].term = Return /\ d[i + 1].ops = <<>> /\ d[i + 1].term = Return
     THEN [d[i] EXCEPT !.term = FallThrough(d[i + 1].id)] ELSE d[i]]

\* MF is dead at op i of block b: on every path a tape op latches it anew
\* before anything can read it.
RECURSIVE MfDeadAfter(_, _, _, _)
MfDeadAfter(bs, b, i, seen) ==
  LET t == bs[b].term IN
  IF i <= Len(bs[b].ops) THEN bs[b].ops[i].op \notin {"Brk", "Call"}
  ELSE IF IsJump(t)
       THEN t.to \in seen \/ MfDeadAfter(bs, IndexOf(bs, t.to), 1, seen \cup {t.to})
       ELSE t.kind \in {"Return", "Halt"}

\* Delete the first sound inverse pair of moves, on facts computed afresh,
\* until none is left.
SoundPair(bs, facts, b, i) ==
  /\ i < Len(bs[b].ops)
  /\ {bs[b].ops[i], bs[b].ops[i + 1]} = {Lft, Rgt}
  /\ facts[bs[b].id] # Unreached
  /\ \/ FoldLeft(TransferOp, facts[bs[b].id], SubSeq(bs[b].ops, 1, i - 1)) # Uncoupled
     \/ MfDeadAfter(bs, b, i + 2, {})
RECURSIVE MoveElim(_)
MoveElim(bs) ==
  LET facts == BlockEntryFacts(bs)
      at(b) == {i \in DOMAIN bs[b].ops : SoundPair(bs, facts, b, i)}
      found == {b \in DOMAIN bs : at(b) # {}} IN
  IF found = {} THEN bs
  ELSE LET b == Min(found)  i == Min(at(b)) IN
       MoveElim([bs EXCEPT ![b].ops = SubSeq(@, 1, i - 1) \o SubSeq(@, i + 2, Len(@))])

(********************************* inlining **********************************)
OpsOf(bs) == FlattenSeq(MapBlocks(bs, LAMBDA b : b.ops))
IsLeafWithoutBrk(bs) ==
  /\ \A b \in Range(bs) : b.term.kind # "TailCall"
  /\ \A o \in Range(OpsOf(bs)) : ~IsCall(o) /\ o # Brk
CallCount(code, f) ==
  LET calls(bs) == Cardinality({i \in DOMAIN OpsOf(bs) : OpsOf(bs)[i] = Call(f)})
                   + Cardinality({i \in DOMAIN bs : bs[i].term = TailCall(f)}) IN
  MapThenSumSet(LAMBDA g : calls(code[g]), DOMAIN code)

\* main's return is a stop: splicing it would end the caller's caller.
Candidates(code) ==
  {f \in DOMAIN code \ {"main"} :
     /\ IsLeafWithoutBrk(code[f])
     /\ Len(OpsOf(code[f])) <= InlineMaxOps \/ CallCount(code, f) = 1}

\* The call at op o of block b gives way to the callee's blocks; what follows
\* it moves to a block of its own, where the callee's returns go.
Splice(bs, b, o, callee) ==
  LET cont == Max(Ids(bs)) + 1
      new(id) == cont + IndexOf(callee, id)
      cloned(c) == Block(new(c.id), c.ops,
                         IF c.term = Return THEN Goto(cont) ELSE Retarget(c.term, new))
      site == Block(bs[b].id, SubSeq(bs[b].ops, 1, o - 1), Goto(new(callee[1].id)))
      rest == Block(cont, SubSeq(bs[b].ops, o + 1, Len(bs[b].ops)), bs[b].term) IN
  SubSeq(bs, 1, b - 1) \o <<site>> \o MapBlocks(callee, cloned) \o <<rest>>
    \o SubSeq(bs, b + 1, Len(bs))

RECURSIVE InlineInto(_, _, _)
InlineInto(bs, f, callees) ==
  LET sites(b) == {o \in DOMAIN bs[b].ops : /\ IsCall(bs[b].ops[o])
                                           /\ bs[b].ops[o].name \in DOMAIN callees \ {f}}
      found == {b \in DOMAIN bs : sites(b) # {}} IN
  IF found = {} THEN bs
  ELSE LET b == Min(found)  o == Min(sites(b)) IN
       InlineInto(Splice(bs, b, o, callees[bs[b].ops[o].name]), f, callees)
Inline(code) ==
  LET callees == [f \in Candidates(code) |-> code[f]] IN
  [f \in DOMAIN code |-> InlineInto(code[f], f, callees)]
=============================================================================
