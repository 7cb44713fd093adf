---------------------------------- MODULE PmIr ----------------------------------
(*****************************************************************************)
(* The three forms of a Post-machine program and what each of them does:     *)
(* statements (parser.rs), the control-flow IR (ir.rs) and the assembly      *)
(* listing (codegen.rs).  A program maps function names to bodies; source    *)
(* lines, spellings and diagnostics are left out.                            *)
(*                                                                           *)
(*   statement  [labels, items, end]   items are the ops before the end      *)
(*   block      [id, ops, term]        block 1 is the entry                  *)
(*   listing    instructions and the label lines some jump refers to         *)
(*****************************************************************************)
EXTENDS Integers, Sequences, FiniteSets, SequencesExt

CONSTANT Fuel                     \* steps after which a run counts as endless

Lft     == [op |-> "Lft"]
Rgt     == [op |-> "Rgt"]
Wr(i)   == [op |-> "Wr", index |-> i]
WrLft(i) == [op |-> "WrLft", index |-> i]
WrRgt(i) == [op |-> "WrRgt", index |-> i]
Brk     == [op |-> "Brk"]
Call(f) == [op |-> "Call", name |-> f]

FallThrough(t) == [kind |-> "FallThrough", to |-> t]
Goto(t)        == [kind |-> "Goto", to |-> t]
Check(m, b)    == [kind |-> "Check", marked |-> m, blank |-> b]
Return         == [kind |-> "Return"]
Halt           == [kind |-> "Halt"]
TailCall(f)    == [kind |-> "TailCall", name |-> f]

Block(id, ops, term) == [id |-> id, ops |-> ops, term |-> term]

IsJump(t)  == t.kind \in {"FallThrough", "Goto"}
Targets(t) == IF IsJump(t) THEN {t.to}
              ELSE IF t.kind = "Check" THEN {t.marked, t.blank} ELSE {}
Retarget(t, New(_)) ==
  IF IsJump(t) THEN [t EXCEPT !.to = New(@)]
  ELSE IF t.kind = "Check" THEN Check(New(t.marked), New(t.blank)) ELSE t

Ids(bs)       == {bs[i].id : i \in DOMAIN bs}
IndexOf(bs, id) == CHOOSE i \in DOMAIN bs : bs[i].id = id

(****************************** lowering (ir.rs) *****************************)
\* A check arm that returns.
Exit == 0

Terminates(s)     == s.end.kind # "FallThrough"
Starts(body, i)   == i = 1 \/ body[i].labels # {} \/ Terminates(body[i - 1])
BlockOfStmt(body, i) == Cardinality({j \in 1..i : Starts(body, j)}) - 1
StmtOfLabel(body, l) == CHOOSE i \in DOMAIN body : l \in body[i].labels

LowerTerm(body, i) ==
  LET end == body[i].end
      To(l) == BlockOfStmt(body, StmtOfLabel(body, l))
      Arm(l) == IF l = Exit THEN BlockOfStmt(body, Len(body)) + 1 ELSE To(l) IN
  CASE end.kind = "Goto"  -> Goto(To(end.to))
    [] end.kind = "Check" -> Check(Arm(end.marked), Arm(end.blank))
    [] end.kind \in {"Return", "Halt"} -> end
    [] OTHER -> IF i = Len(body) THEN Return ELSE FallThrough(BlockOfStmt(body, i + 1))

LowerFunction(body) ==
  IF body = <<>> THEN <<Block(0, <<>>, Return)>>
  ELSE LET n == BlockOfStmt(body, Len(body)) + 1
           Stmts(k) == SelectSeq([i \in DOMAIN body |-> i],
                                 LAMBDA i : BlockOfStmt(body, i) = k)
           Lowered(k) ==
             LET is == Stmts(k) IN
             Block(k, FlattenSeq([j \in DOMAIN is |-> body[is[j]].items]),
                   LowerTerm(body, is[Len(is)]))
           exitUsed == \E s \in {body[i].end : i \in DOMAIN body} :
                         s.kind = "Check" /\ Exit \in {s.marked, s.blank} IN
       [k \in 1..n |-> Lowered(k - 1)]
         \o (IF exitUsed THEN <<Block(n, <<>>, Return)>> ELSE <<>>)

(**************************** emission (codegen.rs) **************************)
Label(id)       == [op |-> "label", id |-> id]
Jump(mnem, id)  == [op |-> mnem, to |-> id]

\* What the terminator of block i turns into, given the block laid out next.
EmitTerm(name, bs, i) ==
  LET t == bs[i].term
      next(id) == i < Len(bs) /\ bs[i + 1].id = id IN
  CASE IsJump(t) -> IF next(t.to) THEN <<>> ELSE <<Jump("jmp", t.to)>>
    [] t.kind = "Check" ->
         IF next(t.blank) THEN <<Jump("jm", t.marked)>>
         ELSE IF next(t.marked) THEN <<Jump("jnm", t.blank)>>
         ELSE <<Jump("jm", t.marked), Jump("jmp", t.blank)>>
    [] t.kind = "Return"   -> <<[op |-> IF name = "main" THEN "stp" ELSE "ret"]>>
    [] t.kind = "Halt"     -> <<[op |-> "hlt"]>>
    [] t.kind = "TailCall" -> <<[op |-> "jmp@", name |-> t.name]>>

EmitFunction(name, bs, strip) ==
  LET terms == [i \in DOMAIN bs |-> EmitTerm(name, bs, i)]
      referenced == {x.to : x \in {y \in UNION {Range(terms[i]) : i \in DOMAIN bs} :
                                     y.op \in {"jmp", "jm", "jnm"}}}
      kept(ops) == IF strip THEN SelectSeq(ops, LAMBDA o : o # Brk) ELSE ops IN
  FlattenSeq([i \in DOMAIN bs |->
    (IF bs[i].id \in referenced THEN <<Label(bs[i].id)>> ELSE <<>>)
      \o kept(bs[i].ops) \o terms[i]])
(******************************* what runs do ********************************)
\* A device answers the latch that follows every access: a tape answers what
\* was written (answers = <<>>), a volatile one whatever it likes.
Device(marks, answers) == [marks |-> marks, answers |-> answers]

Loaded(d) ==
  [at |-> <<"main", 1, 1>>, stack |-> <<>>, end |-> "Running", marks |-> d.marks,
   head |-> 0, answers |-> d.answers, reads |-> 0, log |-> <<>>,
   mf |-> IF d.answers = <<>> THEN 0 \in d.marks ELSE Head(d.answers)]

Latched(m) ==
  IF m.answers = <<>> THEN [m EXCEPT !.mf = m.head \in m.marks]
  ELSE [m EXCEPT !.reads = @ + 1,
                 !.mf = m.answers[((m.reads + 1) % Len(m.answers)) + 1]]

\* A break shows the machine to the debugger; on a volatile device every
\* access is seen from outside.
Logged(m, op) ==
  IF op = Brk THEN [m EXCEPT !.log = Append(@, [op |-> "Brk", marks |-> m.marks,
                                                      head |-> m.head, mf |-> m.mf])]
  ELSE IF m.answers # <<>> THEN [m EXCEPT !.log = Append(@, op)] ELSE m

Accessed(m, op) ==
  LET writes == op.op \in {"Wr", "WrLft", "WrRgt"}
      marks  == IF ~writes THEN m.marks
                ELSE IF op.index = 1 THEN m.marks \cup {m.head} ELSE m.marks \ {m.head}
      head   == CASE op.op \in {"Lft", "WrLft"} -> m.head - 1
                  [] op.op \in {"Rgt", "WrRgt"} -> m.head + 1
                  [] OTHER -> m.head IN
  IF op = Brk THEN m ELSE Latched([m EXCEPT !.marks = marks, !.head = head])

\* One step: f.do is done and control goes to f.to.
Step(m, f) ==
  CASE f.do = "op"   -> [Accessed(Logged(m, f.op), f.op) EXCEPT !.at = f.to]
    [] f.do = "jump" -> [m EXCEPT !.at = f.to]
    [] f.do = "call" -> [m EXCEPT !.at = <<f.name, 1, 1>>, !.stack = <<f.to>> \o @]
    [] f.do = "ret"  -> IF m.stack = <<>> THEN [m EXCEPT !.end = "StackUnderflow"]
                        ELSE [m EXCEPT !.at = Head(m.stack), !.stack = Tail(@)]
    [] OTHER         -> [m EXCEPT !.end = f.do]

Does(o, to) == IF o.op = "Call" THEN [do |-> "call", name |-> o.name, to |-> to]
               ELSE [do |-> "op", op |-> o, to |-> to]
Goes(to)    == [do |-> "jump", to |-> to]
Ends(how)   == [do |-> how]
Returns(fn) == Ends(IF fn = "main" THEN "stp" ELSE "ret")

\* What the statement at m.at does.
SourceFetch(src, m) ==
  LET fn == m.at[1]  i == m.at[2]  k == m.at[3]
      body == src[fn]
      ToLabel(l) == IF l = Exit THEN Returns(fn) ELSE Goes(<<fn, StmtOfLabel(body, l), 1>>) IN
  IF i > Len(body) THEN Returns(fn)
  ELSE IF k <= Len(body[i].items) THEN Does(body[i].items[k], <<fn, i, k + 1>>)
  ELSE LET end == body[i].end IN
       CASE end.kind = "FallThrough" -> Goes(<<fn, i + 1, 1>>)
         [] end.kind = "Goto"   -> ToLabel(end.to)
         [] end.kind = "Check"  -> ToLabel(IF m.mf THEN end.marked ELSE end.blank)
         [] end.kind = "Return" -> Returns(fn)
         [] end.kind = "Halt"   -> Ends("hlt")

\* What the op or the terminator at m.at does.
IrFetch(code, m) ==
  LET fn == m.at[1]  bs == code[fn]  b == bs[m.at[2]]  k == m.at[3]
      ToBlock(id) == Goes(<<fn, IndexOf(bs, id), 1>>) IN
  IF k <= Len(b.ops) THEN Does(b.ops[k], <<fn, m.at[2], k + 1>>)
  ELSE CASE IsJump(b.term) -> ToBlock(b.term.to)
         [] b.term.kind = "Check"  -> ToBlock(IF m.mf THEN b.term.marked ELSE b.term.blank)
         [] b.term.kind = "Return" -> Returns(fn)
         [] b.term.kind = "Halt"   -> Ends("hlt")
         [] b.term.kind = "TailCall" -> Goes(<<b.term.name, 1, 1>>)

\* What the instruction at m.at does; running off a function's end or to a
\* label that was not emitted is an error of the listing.
ListingFetch(listing, m) ==
  LET fn == m.at[1]  is == listing[fn]  pc == m.at[2]
      after == <<fn, pc + 1, 1>>
      at(id) == {j \in DOMAIN is : is[j] = Label(id)}
      ToLabel(id) == IF at(id) = {} THEN Ends("UnknownLabel")
                     ELSE Goes(<<fn, CHOOSE j \in at(id) : TRUE, 1>>) IN
  IF pc > Len(is) THEN Ends("RanOff")
  ELSE LET x == is[pc] IN
       CASE x.op = "label" -> Goes(after)
         [] x.op = "jmp"   -> ToLabel(x.to)
         [] x.op = "jm"    -> IF m.mf THEN ToLabel(x.to) ELSE Goes(after)
         [] x.op = "jnm"   -> IF m.mf THEN Goes(after) ELSE ToLabel(x.to)
         [] x.op = "jmp@"  -> Goes(<<x.name, 1, 1>>)
         [] x.op \in {"stp", "ret", "hlt"} -> Ends(x.op)
         [] OTHER -> Does(x, after)

\* Each step is bound as a set's only element so that TLC evaluates it once.
Outcome(Fetch(_, _), prog, d) ==
  LET RECURSIVE Run(_, _)
      Run(m, n) ==
        IF n = 0 \/ m.end # "Running" THEN {[end |-> m.end, marks |-> m.marks, log |-> m.log]}
        ELSE UNION {Run(x, n - 1) : x \in {Step(m, f) : f \in {Fetch(prog, m)}}} IN
  CHOOSE o \in Run(Loaded(d), Fuel) : TRUE

\* Two outcomes are equivalent: the same end, the same final tape and the same
\* log; of endless runs only what both have reached can be compared.
Equivalent(a, b) ==
  IF a.end = "Running"
  THEN b.end = "Running" /\ (IsPrefix(a.log, b.log) \/ IsPrefix(b.log, a.log))
  ELSE a = b
=============================================================================
