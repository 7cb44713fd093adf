------------------------------- MODULE DebugSession -----------------------------
(*****************************************************************************)
(* The interactive session of crates/core/src/vm/debug.rs: stepping, running *)
(* and breakpoints around the synchronous driver.  The session owns the run: *)
(* a motion is a blocking call, so between two commands the machine rests at *)
(* an instruction boundary.  The bus transactions of a motion are those of   *)
(* Driver; this module decides, after each instruction, whether to go on.    *)
(*****************************************************************************)
EXTENDS Driver

CONSTANTS
  BreakAddrs,   \* addresses breakpoints are set at
  StepBudgets,  \* budgets handed to run_steps
  MatchEdits    \* values a debugger writes to the match register

NoDepth  == -1
NoBudget == -1

ASSUME SessionAssumption ==
  BreakAddrs \subseteq Nat /\ StepBudgets \subseteq Nat /\ MatchEdits \subseteq Nat

VARIABLES
  breakpoints,  \* addresses to pause before
  motion,       \* the public motion in progress, NoMotion between two commands
  answer,       \* the DebugEvent of the last motion
  since         \* history: the motion, the stack and the steps it started from

debugVars == <<breakpoints, motion, answer, since>>
sessionVars == <<vars, debugVars>>

Motion(kind, until, budget) == [kind |-> kind, until |-> until, budget |-> budget]
NoMotion == Motion("None", NoDepth, NoBudget)
Idle     == motion = NoMotion

Answer(a) == answer' = a /\ motion' = NoMotion

SessionInit ==
  /\ Init
  /\ breakpoints = {} /\ motion = NoMotion /\ answer = "New"
  /\ since = [motion |-> NoMotion, stack |-> <<>>, steps |-> 0]

-----------------------------------------------------------------------------
(* Commands between two motions. *)

AddBreakpoint(addr) ==
  /\ Idle
  /\ breakpoints' = breakpoints \cup {addr}
  /\ UNCHANGED <<vars, motion, answer, since>>

RemoveBreakpoint(addr) ==
  /\ Idle
  /\ breakpoints' = breakpoints \ {addr}
  /\ UNCHANGED <<vars, motion, answer, since>>

\* set_mr and set_mf write the one match register.
SetMatch(value) ==
  /\ Idle
  /\ mr' = value
  /\ UNCHANGED <<image, ip, instrStart, tr, trLen, frames, ctl, ports, driverVars,
                 debugVars>>

\* Every motion passes the gate first: a finished session only says so.
Command(m) ==
  /\ Idle
  /\ since' = [motion |-> m, stack |-> stack, steps |-> stats.steps]
  /\ IF ~Running THEN Answer("Finished")
     ELSE IF m.budget = 0 THEN Answer("Manual")
     ELSE motion' = m /\ UNCHANGED answer
  /\ UNCHANGED <<vars, breakpoints>>

StepIn   == Command(Motion("In", NoDepth, NoBudget))
StepOver == Command(Motion("Over", Len(stack), NoBudget))
\* At the outermost level stepping out is running to the end.
StepOut  == Command(Motion("Until", IF stack = <<>> THEN NoDepth ELSE Len(stack) - 1,
                           NoBudget))
Continue_ == Command(Motion("Until", NoDepth, NoBudget))
RunSteps(budget) == Command(Motion("Until", NoDepth, budget))

-----------------------------------------------------------------------------
(* A motion, one bus transaction or instruction boundary at a time. *)

\* run_until_tapes after a retired instruction: depth, budget, breakpoint.
GoOn == motion' = IF motion.budget = NoBudget THEN motion
                  ELSE [motion EXCEPT !.budget = @ - 1]
BudgetOut     == motion.budget = 1
ReachedBelow == motion.until # NoDepth /\ Len(stack) < motion.until \* mutant
Reached      == motion.until # NoDepth /\ Len(stack) <= motion.until
AtBreakpointAny == ip \in breakpoints /\ motion.budget = NoBudget  \* mutant
AtBreakpoint    == ip \in breakpoints

RunUntil ==
  IF Reached THEN Answer("Step")
  ELSE IF BudgetOut THEN Answer("Manual")
  ELSE IF AtBreakpoint THEN Answer("Breakpoint")
  ELSE GoOn /\ UNCHANGED answer

\* An instruction retired and the limits let the run go on.  Stepping over a
\* call turns into running until its depth is reached again.
Retired ==
  IF event.type = "Break" THEN Answer("Brk")
  ELSE CASE motion.kind = "In" -> Answer("Step")
         [] motion.kind = "Over" ->
              IF Len(stack) > motion.until
              THEN motion' = [motion EXCEPT !.kind = "Until"] /\ UNCHANGED answer
              ELSE Answer("Step")
         [] OTHER -> RunUntil

\* A trap is a pause on the fault, any other end finishes the session.
SettleEndSwallowed == UNCHANGED <<motion, answer>>                 \* mutant
SettleEnd ==
  Answer(IF result'.outcome \in {"Stopped", "Halted"} THEN "Finished" ELSE "Trap")

Advance ==
  /\ ~Idle
  /\ Next
  /\ IF result' # NoResult THEN SettleEnd
     ELSE IF event.type \in {"Step", "Break"} THEN Retired
     ELSE UNCHANGED <<motion, answer>>
  /\ UNCHANGED <<breakpoints, since>>

-----------------------------------------------------------------------------
SessionNext ==
  \/ \E addr \in BreakAddrs : AddBreakpoint(addr) \/ RemoveBreakpoint(addr)
  \/ \E value \in MatchEdits : SetMatch(value)
  \/ StepIn \/ StepOver \/ StepOut \/ Continue_
  \/ \E budget \in StepBudgets : RunSteps(budget)
  \/ Advance

\* A motion is a call that runs to its answer; commands are the client's.
SessionSpec == SessionInit /\ [][SessionNext]_sessionVars /\ WF_sessionVars(Advance)

-----------------------------------------------------------------------------
(* Properties. *)

StepsSpent == stats.steps - since.steps

\* step_over and step_out pause where the client's own frames are as they
\* were, without the callees of the step; step_out without the frame left.
StepsToTheCaller ==
  Idle /\ answer = "Step" /\ since.motion.kind \in {"Over", "Until"} =>
    /\ stack = SubSeq(since.stack, 1, Len(stack))
    /\ since.motion.kind = "Until" => Len(stack) = Len(since.stack) - 1
    /\ since.motion.kind = "Over" => Len(stack) >= Len(since.stack) - 1

Starting == event.type = "Boundary" /\ event'.type = "Request"

\* "Breakpoints are not checked before the first instruction of a resume (a
\* paused-at-breakpoint session must move past it)" (debug.rs, run_until_tapes),
\* and step_over is a motion that consults them (debug.rs, step_in_tapes).
OnlyResumesSkipBreakpoints ==
  [][ Starting /\ ip \in breakpoints /\ since.motion.kind # "In" =>
        StepsSpent = 0 ]_sessionVars

\* The session of the whole machine - core, bus, two stacks, tapes, limits and
\* all - answers as the session of the bare instruction set does: the same
\* motions, breaks, breakpoints and ends, and nothing moves between motions.
Ending ==
  IF Running THEN "no"
  ELSE IF result.outcome \in {"Stopped", "Halted"} THEN result.outcome ELSE "Trapped"
Steps == INSTANCE Stepper
         WITH at <- mark.ip, frame <- mark.fr, calls <- mark.calls, ended <- Ending
RefinesStepper == Steps!StepperSpec

\* A motion is a blocking call: on a run with limits it always comes back to
\* the client, with an answer or with the end of the session.
MotionsComeBack == Limited /\ ~Idle ~> Idle

=============================================================================
