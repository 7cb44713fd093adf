------------------------------- MODULE BoundCalls -------------------------------
(*****************************************************************************)
(* What a program with bound calls means, whatever mechanism lowers it       *)
(* (crates/core/src/linker/compose.rs, the module comment; crates/core/src/  *)
(* vm/core.rs, virt_symbol and phys_symbol).  Every routine is executed as   *)
(* it was written, on the tapes and with the symbols its frame shows it:     *)
(* there are no stamps, no composites and no table of them, a bound call     *)
(* just looks at the caller's frame through the binding.                     *)
(*****************************************************************************)
EXTENDS Bands

CONSTANTS
  Programs,   \* routines with their signatures and code, the entry first
  Inputs(_),  \* the tapes to start a program on
  Capacity    \* return addresses the call stack holds

VARIABLES
  program,
  tapes,      \* [cells, head] of every physical tape
  stack,      \* activations [routine, pc, frame], top last; empty at the end
  outcome     \* "waiting", "running", or how the program ended

boundVars == <<program, tapes, stack, outcome>>

Machine == program.routines[1].cards

------------------------------------------------------------------------------
(* One instruction at a time. *)

BoundInit ==
  /\ program \in Programs
  /\ tapes = <<>> /\ stack = <<>> /\ outcome = "waiting"

Begin ==
  /\ outcome = "waiting"
  /\ tapes' \in Inputs(program)
  /\ stack' = <<[routine |-> 1, pc |-> 1, frame |-> NoTranslation(Len(Machine), Machine)]>>
  /\ outcome' = "running"
  /\ UNCHANGED program

Top     == stack[Len(stack)]
Below   == SubSeq(stack, 1, Len(stack) - 1)
Routine == program.routines[Top.routine]
Instr   == Routine.code[Top.pc]
At(op)  == outcome = "running" /\ Instr.op = op
Goto(pc) == stack' = Append(Below, [Top EXCEPT !.pc = pc])
Finish(how) == stack' = <<>> /\ outcome' = how
Seen == [k \in DOMAIN Top.frame |-> Top.frame[k].read[Under(tapes[Top.frame[k].phys])]]

\* Writes, then moves.  A symbol without an image traps; how many of the
\* tapes before it have been written by then is left open.
Unwritable == {k \in DOMAIN Instr.w : Instr.w[k] # Keep
                                   /\ Top.frame[k].write[Instr.w[k]] = Trapped}
WriteMove ==
  /\ At("wrmv")
  /\ IF Unwritable = {}
     THEN /\ tapes' = MoveAll(WriteAll(tapes, Top.frame, Instr.w), Top.frame, Instr.mv)
          /\ Goto(Top.pc + 1)
          /\ UNCHANGED outcome
     ELSE /\ \E n \in 0..Len(Instr.w) :
               /\ \A k \in Unwritable : n < k
               /\ tapes' = WriteAll(tapes, Top.frame, SubSeq(Instr.w, 1, n))
          /\ Finish("UnmappedWrite")
  /\ UNCHANGED program

\* A match reads every tape of the frame; a dispatch needs a row.
Match ==
  /\ At("match") \/ At("branch")
  /\ IF \E k \in DOMAIN Seen : Seen[k] = Trapped THEN Finish("UnmappedRead")
     ELSE IF Matches(Instr.rows, Seen) # {}
     THEN Goto(Instr.rows[FirstMatch(Instr.rows, Seen)].to) /\ UNCHANGED outcome
     ELSE IF Instr.op = "branch" THEN Goto(Top.pc + 1) /\ UNCHANGED outcome
     ELSE Finish("NoTransition")
  /\ UNCHANGED <<program, tapes>>

FrameOfCall ==
  LET callee == program.routines[Instr.to].cards
  IN  IF Instr.op = "bound" THEN Through(Top.frame, Instr.binding, Routine.cards, callee)
      ELSE IF Instr.op = "raw" THEN Absolute(Instr.desc, Machine, callee)
      ELSE Top.frame
Call ==
  /\ At("call") \/ At("bound") \/ At("raw")
  /\ IF Len(stack) > Capacity THEN Finish("StackOverflow")
     ELSE /\ stack' = Append(Append(Below, [Top EXCEPT !.pc = @ + 1]),
                             [routine |-> Instr.to, pc |-> 1, frame |-> FrameOfCall])
          /\ UNCHANGED outcome
  /\ UNCHANGED <<program, tapes>>

TailCall ==
  /\ At("tail")
  /\ stack' = Append(Below, [routine |-> Instr.to, pc |-> 1, frame |-> Top.frame])
  /\ UNCHANGED <<program, tapes, outcome>>

Return ==
  /\ At("ret")
  /\ IF Below = <<>> THEN Finish("StackUnderflow")
     ELSE stack' = Below /\ UNCHANGED outcome
  /\ UNCHANGED <<program, tapes>>

Stop ==
  /\ At("stop")
  /\ Finish("Stopped") /\ UNCHANGED <<program, tapes>>

BoundNext == Begin \/ WriteMove \/ Match \/ Call \/ TailCall \/ Return \/ Stop
BoundSpec == BoundInit /\ [][BoundNext]_boundVars
=============================================================================
