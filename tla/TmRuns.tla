--------------------------------- MODULE TmRuns ---------------------------------
(*****************************************************************************)
(* What a run of a Turing-machine program shows, by its state graphs and by  *)
(* its assembly, under the frames of its bound calls (docs: tmt/isa.md;      *)
(* crates/core/src/vm/core.rs).  A device is a tape, or a volatile band that *)
(* answers reads as it likes and on which every access is seen.              *)
(*****************************************************************************)
EXTENDS TmIr

\* Tapes [cells, head]; answers[t] is empty on a tape that is memory.
Device(tapes, answers) == [tapes |-> tapes, answers |-> answers]

Loaded(program, d, start(_)) ==
  LET main == MainOf(program)  cards == program[main].cards IN
  [world |-> main, frame |-> NoTranslation(Len(cards), cards), stack |-> <<>>,
   next |-> start(program[main]), end |-> "running", tapes |-> d.tapes,
   answers |-> d.answers, reads |-> [t \in DOMAIN cards |-> 0],
   log |-> [t \in DOMAIN cards |-> <<>>], breaks |-> <<>>, seen |-> <<>>, mr |-> 0]

Ended(m, how) == [m EXCEPT !.end = how]
At(m, next)   == [m EXCEPT !.next = next]

(************************************ access *********************************)
IsVolatile(m, t) == m.answers[t] # <<>>
Answer(m, t) == IF IsVolatile(m, t) THEN m.answers[t][(m.reads[t] % Len(m.answers[t])) + 1]
                ELSE Under(m.tapes[t])
\* What the frame shows on its tape k, and the tapes read until a hole traps.
Shows(m, k) == m.frame[k].read[Answer(m, m.frame[k].phys)]
FirstOf(S)  == CHOOSE k \in S : \A j \in S : k <= j
Until(n, bad) == IF bad = {} THEN n ELSE FirstOf(bad)

Seen(m, events(_)) ==
  [t \in DOMAIN m.log |->
     LET here == {k \in DOMAIN m.frame : m.frame[k].phys = t} IN
     IF IsVolatile(m, t) /\ here # {} THEN m.log[t] \o events(FirstOf(here)) ELSE m.log[t]]

\* Every tape of the frame is read, in order, up to one that shows a hole.
ReadAll(m) ==
  LET holes == {k \in DOMAIN m.frame : Shows(m, k) = Trapped}
      last  == Until(Len(m.frame), holes)
      read(k) == IF k <= last THEN <<<<"read", 0>>>> ELSE <<>>
      counted == [t \in DOMAIN m.reads |->
                    IF \E k \in 1..last : m.frame[k].phys = t THEN m.reads[t] + 1 ELSE m.reads[t]] IN
  [m EXCEPT !.seen = [k \in DOMAIN m.frame |-> Shows(m, k)], !.reads = counted,
            !.log = Seen(m, read), !.end = IF holes = {} THEN @ ELSE "UnmappedRead"]

\* All writes, then all moves; a symbol the frame cannot write traps.
WriteMove(m, write, moves) ==
  LET bad  == {k \in DOMAIN write : write[k] # Keep /\ m.frame[k].write[write[k]] = Trapped}
      done == SubSeq(write, 1, Until(Len(write) + 1, bad) - 1)
      wrote(k) == IF k \in DOMAIN done /\ write[k] # Keep
                  THEN <<<<"write", m.frame[k].write[write[k]]>>>> ELSE <<>>
      moved(k) == IF bad = {} /\ k \in DOMAIN moves /\ moves[k] # 0
                  THEN <<<<"move", moves[k]>>>> ELSE <<>>
      both(k) == wrote(k) \o moved(k)
      tapes == WriteAll(m.tapes, m.frame, done) IN
  [m EXCEPT !.log = Seen(m, both),
            !.tapes = IF bad = {} THEN MoveAll(tapes, m.frame, moves) ELSE tapes,
            !.end = IF bad = {} THEN @ ELSE "UnmappedWrite"]

\* A break shows the debugger the tapes, and what was done to the devices.
Break(m) == [m EXCEPT !.breaks = Append(@, [tapes |-> m.tapes, log |-> m.log])]

(*********************************** transfers *******************************)
\* start(w) is where world w begins, resume what a return goes on with.
Transfer(program, m, t, resume, start(_)) ==
  LET into(w) == [m EXCEPT !.world = w, !.next = start(program[w])] IN
  CASE t.kind = "call" ->
         LET w == WorldOf(program, t.target) IN
         [into(w) EXCEPT
            !.stack = <<[world |-> m.world, frame |-> m.frame, resume |-> resume]>> \o @,
            !.frame = IF t.binding = <<>> THEN @
                      ELSE Through(@, t.binding, program[m.world].cards, program[w].cards)]
    [] t.kind = "tailcall" -> into(WorldOf(program, t.target))
    [] t.kind = "return" ->
         IF m.stack = <<>> THEN Ended(m, "StackUnderflow")
         ELSE LET top == Head(m.stack) IN
              [m EXCEPT !.world = top.world, !.frame = top.frame,
                        !.next = top.resume, !.stack = Tail(@)]
    [] t.kind = "stop"     -> Ended(m, "stp")
    [] t.kind = "halt"     -> Ended(m, "hlt")
    [] t.kind = "trapread" -> Ended(m, "UnmappedRead")

\* One state of the graph: what is read selects a rule, the rule acts.
IrStart(w) == Goto(w.entry)
Fire(m, r) ==
  LET shown == IF r.debugger THEN Break(m) ELSE m
      acted == IF NoAction(r) THEN shown ELSE WriteMove(shown, r.write, r.moves) IN
  At(acted, r.to)
InState(m, st) ==
  LET rows == [i \in DOMAIN st.rules |-> st.rules[EmittedOrder(st.rules)[i]]] IN
  IF IsStraightLine(st) THEN Fire(m, st.rules[1])
  ELSE LET r == ReadAll(m) IN
       IF r.end # "running" THEN r
       ELSE IF Matches(rows, r.seen) = {} THEN Ended(r, "NoTransition")
       ELSE Fire(r, rows[FirstMatch(rows, r.seen)])
IrStep(program, m) ==
  IF m.next.kind = "goto" THEN InState(m, program[m.world].states[m.next.to])
  ELSE Transfer(program, m, m.next, IF m.next.kind = "call" THEN m.next.then ELSE Stop, IrStart)

\* One instruction of the assembly.
AsmStart(w) == 1
AsmStep(program, m) ==
  LET code == program[m.world].code
      here == m.next
      at(l) == CHOOSE i \in DOMAIN code : code[i] = Label(l)
      x == code[here]
      next == At(m, here + 1) IN
  IF here > Len(code) THEN Ended(m, "RanOff")
  ELSE CASE x.kind = "label" -> next
         [] x.kind = "brk"   -> Break(next)
         [] x.kind = "rd"    -> ReadAll(next)
         [] x.kind = "wrmv"  -> WriteMove(next, x.write, x.moves)
         [] x.kind = "mtc"   -> [next EXCEPT !.mr = IF Matches(x.rows, m.seen) = {} THEN 0
                                                    ELSE FirstMatch(x.rows, m.seen)]
         [] x.kind = "djmp"  -> IF m.mr = 0 THEN Ended(m, "NoTransition")
                                ELSE At(m, at(x.targets[m.mr]))
         [] x.kind = "jm"    -> IF m.mr = 0 THEN next ELSE At(m, at(x.at))
         [] x.kind = "jmp"   -> At(m, at(x.at))
         [] OTHER -> Transfer(program, m, x, here + 1, AsmStart)

\* Each step is bound as a set's only element so that TLC evaluates it once.
Outcome(program, d, start(_), Step(_, _)) ==
  LET RECURSIVE Run(_, _)
      Run(m, n) ==
        IF n = 0 \/ m.end # "running"
        THEN {[end |-> m.end, tapes |-> m.tapes, log |-> m.log, breaks |-> m.breaks]}
        ELSE UNION {Run(x, n - 1) : x \in {Step(program, m)}} IN
  CHOOSE o \in Run(Loaded(program, d, start), Fuel) : TRUE

\* The same end, final tapes, accesses band by band, and breaks; of endless
\* runs what one has done so far is what the other did or will do.
Alike(a, b) == IsPrefix(a, b) \/ IsPrefix(b, a)
Equivalent(a, b) ==
  IF a.end = "running"
  THEN /\ b.end = "running" /\ Alike(a.breaks, b.breaks)
       /\ \A t \in DOMAIN a.log : Alike(a.log[t], b.log[t])
  ELSE a = b
=============================================================================
