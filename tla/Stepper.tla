--------------------------------- MODULE Stepper --------------------------------
(*****************************************************************************)
(* What the interactive session promises (crates/core/src/vm/debug.rs), one  *)
(* step per instruction of Isa: there is no bus, no core and no second       *)
(* stack.  A motion is a call of the session in progress; it moves the       *)
(* program one instruction at a time and comes back with an answer.          *)
(* DebugSession implements it; the debug adapter (Dap) is built on it.       *)
(*****************************************************************************)
EXTENDS Isa

VARIABLES
  breakpoints,  \* addresses to pause before
  motion,       \* the motion in progress, NoMotion between two
  answer,       \* the DebugEvent of the last motion
  ended         \* how the program ended, "no" while it has not

stepperVars == <<isaVars, breakpoints, motion, answer, ended>>

NoDepth  == -1
NoBudget == -1
Motion(kind, until, budget) == [kind |-> kind, until |-> until, budget |-> budget]
NoMotion == Motion("None", NoDepth, NoBudget)
Idle     == motion = NoMotion

InMotion      == Motion("In", NoDepth, NoBudget)
OverMotion    == Motion("Over", Len(calls), NoBudget)
OutMotion     == Motion("Until", IF calls = <<>> THEN NoDepth ELSE Len(calls) - 1, NoBudget)
RunMotion(budget) == Motion("Until", NoDepth, budget)

Answer(a) == answer' = a /\ motion' = NoMotion

StepperInit ==
  /\ IsaInit
  /\ breakpoints = {} /\ motion = NoMotion /\ answer = "New" /\ ended = "no"

\* A motion starts, or is answered at once: by the gate of a finished session,
\* or because its budget is zero.
Move(m) ==
  /\ Idle
  /\ IF ended # "no" THEN Answer("Finished")
     ELSE IF m.budget = 0 THEN Answer("Manual")
     ELSE motion' = m /\ UNCHANGED answer

Command(m) == Move(m) /\ UNCHANGED <<isaVars, breakpoints, ended>>

\* Any address may be planted or cleared between two motions.
Plant ==
  /\ Idle
  /\ breakpoints' \subseteq Nat
  /\ UNCHANGED <<isaVars, motion, answer, ended>>

\* A run of any number of steps: the number is on the motion, if one starts.
RunSteps ==
  LET budget == IF motion' = NoMotion THEN 0 ELSE motion'.budget
  IN  budget \in Nat /\ Command(RunMotion(budget))

\* After an instruction that the program survived: a debug break answers, a
\* call that is stepped over is run to its return, and a run looks at its
\* depth, its budget and the breakpoints, in this order.
RunOnUnbudgeted ==                                                 \* mutant
  IF motion.until # NoDepth /\ Len(calls') <= motion.until THEN Answer("Step")
  ELSE IF motion.budget = 1 THEN Answer("Manual")
  ELSE IF motion.budget = NoBudget /\ at' \in breakpoints THEN Answer("Breakpoint")
  ELSE /\ motion' = IF motion.budget = NoBudget THEN motion
                    ELSE [motion EXCEPT !.budget = @ - 1]
       /\ UNCHANGED answer
RunOn ==
  IF motion.until # NoDepth /\ Len(calls') <= motion.until THEN Answer("Step")
  ELSE IF motion.budget = 1 THEN Answer("Manual")
  ELSE IF at' \in breakpoints THEN Answer("Breakpoint")
  ELSE /\ motion' = IF motion.budget = NoBudget THEN motion
                    ELSE [motion EXCEPT !.budget = @ - 1]
       /\ UNCHANGED answer

Retired ==
  IF Does("Brk") THEN Answer("Brk")
  ELSE IF motion.kind = "Until" THEN RunOn
  ELSE IF motion.kind = "Over" /\ Len(calls') > motion.until
       THEN motion' = [motion EXCEPT !.kind = "Until"] /\ UNCHANGED answer
       ELSE Answer("Step")

Retire ==
  /\ ~Idle
  /\ IsaNext /\ Retired
  /\ UNCHANGED <<breakpoints, ended>>

\* The program ends in an instruction; what traps is left to the data, and a
\* limit ends the run after the instruction has retired.
Stops == ended' = "Stopped" /\ Does("Stop") /\ Answer("Finished") /\ UNCHANGED isaVars
Halts == ended' = "Halted" /\ Does("Halt") /\ Answer("Finished") /\ UNCHANGED isaVars
Traps == ended' = "Trapped" /\ Answer("Trap") /\ (IsaNext \/ UNCHANGED isaVars)

Finishes ==
  /\ ~Idle
  /\ \/ at \in DOMAIN image.code /\ (Stops \/ Halts)
     \/ Traps
  /\ UNCHANGED breakpoints

StepperNext ==
  \/ Plant
  \/ Command(InMotion) \/ Command(OverMotion) \/ Command(OutMotion)
  \/ Command(RunMotion(NoBudget)) \/ RunSteps
  \/ Retire \/ Finishes

StepperSpec == StepperInit /\ [][StepperNext]_stepperVars

=============================================================================
