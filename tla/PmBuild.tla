--------------------------------- MODULE PmBuild --------------------------------
(*****************************************************************************)
(* One compilation of one program: lower, optimize to a change-fixpoint,     *)
(* emit (compiler.rs, optimizer/mod.rs, codegen.rs).                         *)
(*****************************************************************************)
EXTENDS PmPasses

CONSTANTS
  Programs,        \* [source, level, disabled, volatile, strip]: what is built;
                   \* volatile: in the gated column
  Tapes,           \* initial tapes, as sets of marked cells
  Answers,         \* what volatile tapes answer, as nonempty sequences
  MaxRounds

VARIABLES program, stage, code, round, pass, changed, listing
vars == <<program, stage, code, round, pass, changed, listing>>

Pipeline == <<"inline", "check-fold", "jump-threading", "cell-state", "branch-fold",
              "tail-sink", "tail-call", "tail-merge", "dce", "move-elim", "fuse-tape-ops">>
GatedWithoutMoveElim(p) == p \in {"cell-state", "branch-fold", "fuse-tape-ops"}  \* mutant
Gated(p) == p \in {"cell-state", "branch-fold", "fuse-tape-ops", "move-elim"}

\* --fno-<pass>, and in a volatile program the gated passes on top.
Disabled(p) == p \in program.disabled \/ (program.volatile /\ Gated(p))

Apply(p) ==
  LET each(F(_)) == [f \in DOMAIN code |-> F(code[f])] IN
  CASE p = "inline"         -> Inline(code)
    [] p = "check-fold"     -> each(CheckFold)
    [] p = "jump-threading" -> each(JumpThreading)
    [] p = "cell-state"     -> each(CellState)
    [] p = "branch-fold"    -> each(BranchFold)
    [] p = "tail-sink"      -> each(TailSink)
    [] p = "tail-call"      -> [f \in DOMAIN code |-> TailCalls(f, code[f])]
    [] p = "tail-merge"     -> each(TailMerge)
    [] p = "dce"            -> each(Dce)
    [] p = "move-elim"      -> each(MoveElim)
    [] p = "fuse-tape-ops"  -> each(FuseTapeOps)

Init ==
  /\ program \in Programs
  /\ stage = "source" /\ code = <<>> /\ listing = <<>>
  /\ round = 0 /\ pass = 1 /\ changed = FALSE

Lower ==
  /\ stage = "source"
  /\ code' = [f \in DOMAIN program.source |-> LowerFunction(program.source[f])]
  /\ stage' = IF program.level = "O0" THEN "optimized" ELSE "optimizing"
  /\ UNCHANGED <<program, round, pass, changed, listing>>

RunPass ==
  /\ stage = "optimizing" /\ pass <= Len(Pipeline)
  /\ code' = IF Disabled(Pipeline[pass]) THEN code ELSE Apply(Pipeline[pass])
  /\ changed' = (changed \/ code' # code)
  /\ pass' = pass + 1
  /\ UNCHANGED <<program, stage, round, listing>>

CloseRoundNoReset ==                                               \* mutant
  /\ stage = "optimizing" /\ pass > Len(Pipeline)
  /\ round' = round + 1
  /\ IF changed /\ round' < MaxRounds
     THEN pass' = 1 /\ UNCHANGED <<changed, stage>>
     ELSE stage' = "optimized" /\ UNCHANGED <<pass, changed>>
  /\ UNCHANGED <<program, code, listing>>
\* The round is over: another one if something changed and the cap allows it.
CloseRound ==
  /\ stage = "optimizing" /\ pass > Len(Pipeline)
  /\ round' = round + 1
  /\ IF changed /\ round' < MaxRounds
     THEN pass' = 1 /\ changed' = FALSE /\ UNCHANGED stage
     ELSE stage' = "optimized" /\ UNCHANGED <<pass, changed>>
  /\ UNCHANGED <<program, code, listing>>

Emit ==
  /\ stage = "optimized"
  /\ listing' = [f \in DOMAIN code |-> EmitFunction(f, code[f], program.strip)]
  /\ stage' = "emitted"
  /\ UNCHANGED <<program, code, round, pass, changed>>

Next == Lower \/ RunPass \/ CloseRound \/ Emit
Spec == Init /\ [][Next]_vars

(******************************** properties *********************************)
\* What a run of the program shows on device d, by its source, by its IR and by
\* its listing; a stripped build shows no breaks.
Shown(o) == IF program.strip THEN [o EXCEPT !.log = SelectSeq(@, LAMBDA x : x.op # "Brk")]
            ELSE o
Built(d) == Equivalent(Outcome(SourceFetch, program.source, d), Outcome(IrFetch, code, d))
Listed(d) == Equivalent(Shown(Outcome(SourceFetch, program.source, d)),
                        Outcome(ListingFetch, listing, d))
KeptOn(d) == /\ code' # code => Built(d)'
             /\ listing' # listing => Listed(d)'

\* Lowering, every pass and emission keep the final tape, the kind of end,
\* every branch that depends on the match flag, and the machine a debugger
\* sees at each break (the equivalence contract of optimizer/mod.rs:7-21).
KeepsMeaning == [][ ~program.volatile =>
                      \A t \in Tapes : KeptOn(Device(t, <<>>)) ]_vars

\* On a device that answers what it likes, a volatile program built in the
\* gated column makes the very accesses its source asks for, in order, however
\* the device answers (optimizer/mod.rs:23-33).
KeepsAccesses == [][ program.volatile =>
                       \A a \in Answers : KeptOn(Device({}, a)) ]_vars

\* The rounds end because a round changed nothing, not because the cap cut
\* them off: no pass undoes another or finds work forever.
Settles == stage \in {"optimized", "emitted"} => ~changed
=============================================================================
