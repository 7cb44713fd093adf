---------------------------------- MODULE TmIr ----------------------------------
(*****************************************************************************)
(* The state graphs of a Turing-machine program (crates/turing-machine/src/  *)
(* ir.rs), the assembly made of them (codegen.rs), and what each of them     *)
(* does.  Source lines, spellings and the names of states are left out: a    *)
(* state is its position, a label a state and a rule of it.                  *)
(*                                                                           *)
(*   world  [name, kind, cards, volatile, entry, states]                     *)
(*   state  [rules, dispatch]                                                *)
(*   rule   [cells, write, moves, debugger, to, synthesized, direct]         *)
(*                                                                           *)
(* A program is a sequence of worlds; those of other units have the kind     *)
(* "external".  A rule that keeps and stays everywhere has no action.        *)
(*****************************************************************************)
EXTENDS Rows, SequencesExt

CONSTANT Fuel                     \* steps after which a run counts as endless

Goto(s)       == [kind |-> "goto", to |-> s]
CallThen(w, binding, then) ==
  [kind |-> "call", target |-> w, binding |-> binding, then |-> then]
TailCallTo(w) == [kind |-> "tailcall", target |-> w]
Return        == [kind |-> "return"]
Stop          == [kind |-> "stop"]
Halt          == [kind |-> "halt"]
TrapRead      == [kind |-> "trapread"]

NoAction(r)     == /\ \A k \in DOMAIN r.write : r.write[k] = Keep
                   /\ \A k \in DOMAIN r.moves : r.moves[k] = 0
WorldOf(program, name) == CHOOSE i \in DOMAIN program : program[i].name = name
MainOf(program) == CHOOSE i \in DOMAIN program : program[i].kind = "machine"

\* Its one rule matches everything: there is nothing to read.
IsStraightLine(st) == Len(st.rules) = 1 /\ IsWild(st.rules[1].cells)

(**************************** emission (codegen.rs) **************************)
StateLabel(s)   == <<s, 0>>
RuleLabel(s, k) == <<s, k>>
Label(l)        == [kind |-> "label", at |-> l]
Instr(kind)     == [kind |-> kind]
Block(l, forced, body, term) == [label |-> l, forced |-> forced, body |-> body, term |-> term]

\* The break, unless it is stripped, and one fused write and move.
RuleBody(r, strip) ==
  (IF r.debugger /\ ~strip THEN <<Instr("brk")>> ELSE <<>>)
    \o (IF NoAction(r) THEN <<>>
        ELSE <<[kind |-> "wrmv", write |-> r.write, moves |-> r.moves]>>)
RuleBlock(s, k, r, strip) == Block(RuleLabel(s, k), TRUE, RuleBody(r, strip), r.to)
MatchOn(rows) == <<Instr("rd"), [kind |-> "mtc", rows |-> rows]>>

\* A dispatch entry of a bare goto names the state it goes to.
EntryLabel(s, k, r) == IF r.direct THEN StateLabel(r.to.to) ELSE RuleLabel(s, k)
Conditional(s, st, strip) ==
  LET order == EmittedOrder(st.rules)
      rule(i) == st.rules[order[i]]
      stubs == SelectSeq([k \in DOMAIN st.rules |-> k], LAMBDA k : ~st.rules[k].direct) IN
  <<Block(StateLabel(s), FALSE, MatchOn([i \in DOMAIN order |-> [cells |-> rule(i).cells]]),
          [kind |-> "djmp", targets |-> [i \in DOMAIN order |-> EntryLabel(s, order[i], rule(i))]])>>
    \o [j \in DOMAIN stubs |-> RuleBlock(s, stubs[j], st.rules[stubs[j]], strip)]

\* One row and a conditional jump; the catch-all is what control falls into.
Branch(s, st, strip) ==
  LET hit == st.rules[1]  fall == st.rules[2] IN
  <<Block(StateLabel(s), FALSE, MatchOn(<<[cells |-> hit.cells]>>),
          [kind |-> "jm", at |-> EntryLabel(s, 1, hit)]),
    Block(RuleLabel(s, 2), FALSE, RuleBody(fall, strip), fall.to)>>
    \o (IF hit.direct THEN <<>> ELSE <<RuleBlock(s, 1, hit, strip)>>)

\* A state whose rules all vanished: a table no tuple of symbols matches.  (Over
\* the widest alphabet, for which no such row can be written, it traps instead.)
ZeroRow(s) ==
  <<Block(StateLabel(s), TRUE, MatchOn(<<>>), [kind |-> "djmp", targets |-> <<StateLabel(s)>>])>>

StateBlocks(s, st, strip) ==
  IF st.rules = <<>> THEN ZeroRow(s)
  ELSE IF IsStraightLine(st)
       THEN <<Block(StateLabel(s), FALSE, RuleBody(st.rules[1], strip), st.rules[1].to)>>
  ELSE IF st.dispatch = "branch" THEN Branch(s, st, strip) ELSE Conditional(s, st, strip)

\* A jump to the block laid out next is not written.
Leave(t, next) ==
  IF t.kind # "goto" THEN <<t>>
  ELSE IF next = StateLabel(t.to) THEN <<>> ELSE <<[kind |-> "jmp", at |-> StateLabel(t.to)]>>
EmitTerm(t, next) ==
  IF t.kind = "call" THEN <<t>> \o Leave(t.then, next) ELSE Leave(t, next)

EmitWorld(w, strip) ==
  LET order == <<w.entry>> \o SelectSeq([i \in DOMAIN w.states |-> i], LAMBDA i : i # w.entry)
      blocks == FlattenSeq([i \in DOMAIN order |->
                              StateBlocks(order[i], w.states[order[i]], strip)])
      next(i) == IF i < Len(blocks) THEN blocks[i + 1].label ELSE <<>>
      code(i) == blocks[i].body \o EmitTerm(blocks[i].term, next(i))
      named(x) == IF x.kind \in {"jmp", "jm"} THEN {x.at}
                  ELSE IF x.kind = "djmp" THEN Range(x.targets) ELSE {}
      printed == {b.label : b \in {c \in Range(blocks) : c.forced}}
                   \cup UNION {UNION {named(x) : x \in Range(code(i))} : i \in DOMAIN blocks} IN
  FlattenSeq([i \in DOMAIN blocks |->
    (IF blocks[i].label \in printed THEN <<Label(blocks[i].label)>> ELSE <<>>) \o code(i)])
=============================================================================
