--------------------------------- MODULE TmBuild --------------------------------
(*****************************************************************************)
(* The optimizer and the code generator of the Turing-machine compiler on    *)
(* one program (compiler.rs, optimizer/mod.rs, codegen.rs): rounds of passes *)
(* until one changes nothing, then the assembly.                             *)
(*****************************************************************************)
EXTENDS TmPasses

CONSTANTS
  Programs,     \* [worlds, level, disabled, outline, strip, devices]: what is
                \* built, with which options, and what it may then run on
  MaxRounds

VARIABLES program, stage, worlds, round, pass, changed, assembly
vars == <<program, stage, worlds, round, pass, changed, assembly>>

Pipeline == <<"inline", "outline", "jump-threading", "tail-call", "tail-merge", "dce",
              "dead-rows", "dispatch-select">>
Enabled(p) == p \notin program.disabled /\ (p = "outline" => program.outline)

Apply(p) ==
  LET each(F(_)) == [i \in DOMAIN worlds |->
                       IF worlds[i].kind = "external" THEN worlds[i] ELSE F(worlds[i])] IN
  CASE p = "inline"          -> Inline(worlds)
    [] p = "outline"         -> Outline(worlds)
    [] p = "jump-threading"  -> each(JumpThreading)
    [] p = "tail-call"       -> each(TailCalls)
    [] p = "tail-merge"      -> each(TailMerge)
    [] p = "dce"             -> each(Dce)
    [] p = "dead-rows"       -> each(DeadRows)
    [] p = "dispatch-select" -> each(DispatchSelect)

Init ==
  /\ program \in Programs
  /\ worlds = program.worlds /\ assembly = <<>>
  /\ stage = IF program.level = "O0" THEN "optimized" ELSE "optimizing"
  /\ round = 0 /\ pass = 1 /\ changed = FALSE

RunPass ==
  /\ stage = "optimizing" /\ pass <= Len(Pipeline)
  /\ worlds' = IF Enabled(Pipeline[pass]) THEN Apply(Pipeline[pass]) ELSE worlds
  /\ changed' = (changed \/ worlds' # worlds)
  /\ pass' = pass + 1
  /\ UNCHANGED <<program, stage, round, assembly>>

\* Another round if something changed and the cap allows one.
CloseRound ==
  /\ stage = "optimizing" /\ pass > Len(Pipeline)
  /\ round' = round + 1
  /\ IF changed /\ round' < MaxRounds
     THEN pass' = 1 /\ changed' = FALSE /\ UNCHANGED stage
     ELSE stage' = "optimized" /\ UNCHANGED <<pass, changed>>
  /\ UNCHANGED <<program, worlds, assembly>>

\* What is not in this unit is another one's assembly, here built as it stands.
Emit ==
  /\ stage = "optimized"
  /\ assembly' = [i \in DOMAIN worlds |->
                    [name |-> worlds[i].name, kind |-> worlds[i].kind, cards |-> worlds[i].cards,
                     code |-> EmitWorld(worlds[i], program.strip)]]
  /\ stage' = "emitted"
  /\ UNCHANGED <<program, worlds, round, pass, changed>>

Next == RunPass \/ CloseRound \/ Emit
Spec == Init /\ [][Next]_vars

(******************************** properties *********************************)
\* What a run shows on device d, of the program as it was, as the passes have
\* left it, and of its assembly; a stripped build has no breaks to show.
Shown(o) == IF program.strip THEN [o EXCEPT !.breaks = <<>>] ELSE o
Source(d) == Outcome(program.worlds, d, IrStart, IrStep)
KeptOn(d) ==
  /\ worlds' # worlds => Equivalent(Source(d), Outcome(worlds', d, IrStart, IrStep))
  /\ assembly' # assembly =>
       Equivalent(Shown(Source(d)), Outcome(assembly', d, AsmStart, AsmStep))

HasVolatile == \E i \in DOMAIN program.worlds :
                 program.worlds[i].kind = "machine" /\ TRUE \in Range(program.worlds[i].volatile)

\* Every pass, and the assembly made of the result, keep the final contents of
\* every tape, the kind of end down to which trap it is, and the tapes a
\* debugger finds at every break that is left in (the contract of
\* optimizer/mod.rs:19-32).
KeepsTheRun == [][ ~HasVolatile => \A d \in program.devices : KeptOn(d) ]_vars

\* Against a band that answers each read as it likes and sees every access, an
\* optimized program makes the accesses its source makes, in their order, on
\* each band (optimizer/mod.rs:34-53).
KeepsTheAccesses == [][ HasVolatile => \A d \in program.devices : KeptOn(d) ]_vars

\* The rounds end because one changed nothing: inline does not splice what
\* outline hoists, and no pass finds work for another forever.
RoundsSettle == stage \in {"optimized", "emitted"} => ~changed
=============================================================================
