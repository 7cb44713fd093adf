---------------------------------- MODULE Relax ---------------------------------
(*****************************************************************************)
(* Width selection.  The assembler starts every jump short and grows the     *)
(* ones that do not fit until none is left (asm/assembler.rs); the linker    *)
(* starts every call far and shrinks the ones that fit, over jumps whose     *)
(* width no longer changes (linker/layout.rs).                               *)
(*                                                                           *)
(* A function is a sequence of slots: [kind, size], [kind, to, forced] for a *)
(* jump to a slot of the same function, [kind, callee] for a call.           *)
(*****************************************************************************)
EXTENDS Integers, Sequences

CONSTANT Programs            \* [fns : Seq(Seq(slot)), relax : BOOLEAN]

SlotForms == [kind : {"Fixed"}, size : Nat]
               \cup [kind : {"Jump"}, to : Nat, forced : BOOLEAN]
               \cup [kind : {"Call"}, callee : Nat]

\* A jump goes to a slot of its function or to its end, a call to a function.
WellFormed(p) ==
  /\ p.fns \in Seq(Seq(SlotForms)) /\ p.relax \in BOOLEAN
  /\ \A f \in DOMAIN p.fns : \A i \in DOMAIN p.fns[f] :
       LET slot == p.fns[f][i] IN
       /\ slot.kind = "Jump" => slot.to \in 1..Len(p.fns[f])+1
       /\ slot.kind = "Call" => slot.callee \in DOMAIN p.fns

ASSUME RelaxAssumption == \A p \in Programs : WellFormed(p)

VARIABLES program, stage, far, short
vars == <<program, stage, far, short>>

FitsI8(off) == off \in -128..127

Fns   == DOMAIN program.fns
Slot(s) == program.fns[s[1]][s[2]]
IsKind(s, k) == Slot(s).kind = k
SlotsOf(f) == {f} \X DOMAIN program.fns[f]
Slots == UNION {SlotsOf(f) : f \in Fns}

\* The size of a slot, given the far jumps and the short calls.
Size(s, F, S) ==
  CASE IsKind(s, "Fixed") -> Slot(s).size
    [] IsKind(s, "Jump")  -> IF s \in F THEN 5 ELSE 2
    [] IsKind(s, "Call")  -> IF s \in S THEN 2 ELSE 5

\* The running totals of a sequence of sizes.
Totals(sizes) ==
  LET upto[k \in 0..Len(sizes)] == IF k = 0 THEN 0 ELSE upto[k - 1] + sizes[k]
  IN  upto

\* The offset of slot i of a function, after its one-byte entry, and the base
\* of a function in the image.
Sizes(f, F, S)     == [i \in DOMAIN program.fns[f] |-> Size(<<f, i>>, F, S)]
Offset(f, i, F, S) == 1 + Totals(Sizes(f, F, S))[i - 1]
Lengths(F, S)      == [f \in Fns |-> Offset(f, Len(program.fns[f]) + 1, F, S)]
Base(f, F, S)      == Totals(Lengths(F, S))[f - 1]

\* The displacement a jump or a call encodes: from its own end.
EndOf(s, F, S)   == Offset(s[1], s[2], F, S) + Size(s, F, S)
JumpOff(s, F, S) == Offset(s[1], Slot(s).to, F, S) - EndOf(s, F, S)
CallOff(s, F, S) == Base(Slot(s).callee, F, S) - (Base(s[1], F, S) + EndOf(s, F, S))

(********************************* assembling ********************************)
TooFarFromStart(f) ==                                              \* mutant
  {s \in SlotsOf(f) \ far : IsKind(s, "Jump") /\ ~FitsI8(JumpOff(s, far, short) + 2)}
TooFar(f) == {s \in SlotsOf(f) \ far : IsKind(s, "Jump") /\ ~FitsI8(JumpOff(s, far, short))}

GrowAnew(f) ==                                                     \* mutant
  /\ stage = "assembling" /\ TooFar(f) # {}
  /\ far' = (far \ SlotsOf(f)) \cup TooFar(f)
  /\ UNCHANGED <<program, stage, short>>
GrowAll(f) ==                                                      \* mutant
  /\ stage = "assembling" /\ TooFar(f) # {}
  /\ \A s \in TooFar(f) : ~Slot(s).forced
  /\ far' = far \cup {s \in SlotsOf(f) : IsKind(s, "Jump") /\ ~Slot(s).forced}
  /\ UNCHANGED <<program, stage, short>>
Grow(f) ==
  /\ stage = "assembling" /\ TooFar(f) # {}
  /\ \A s \in TooFar(f) : ~Slot(s).forced
  /\ far' = far \cup TooFar(f)
  /\ UNCHANGED <<program, stage, short>>

ShortOffsetOutOfRange(f) ==
  /\ stage = "assembling" /\ \E s \in TooFar(f) : Slot(s).forced
  /\ stage' = "error"
  /\ UNCHANGED <<program, far, short>>

Assembled ==
  /\ stage = "assembling" /\ \A f \in Fns : TooFar(f) = {}
  /\ stage' = IF program.relax THEN "shrinking" ELSE "linked"
  /\ UNCHANGED <<program, far, short>>

(*********************************** linking *********************************)
\* A far call is measured as it stands, from the end of its far form.
Fitting == {s \in Slots \ short : IsKind(s, "Call") /\ FitsI8(CallOff(s, far, short))}

Shrink ==
  /\ stage = "shrinking" /\ Fitting # {}
  /\ short' = short \cup Fitting
  /\ UNCHANGED <<program, stage, far>>

LaidOut ==
  /\ stage = "shrinking" /\ Fitting = {}
  /\ stage' = "linked"
  /\ UNCHANGED <<program, far, short>>

Init == /\ program \in Programs
        /\ stage = "assembling" /\ far = {} /\ short = {}

Next == \/ \E f \in Fns : Grow(f) \/ ShortOffsetOutOfRange(f)
        \/ Assembled \/ Shrink \/ LaidOut
\* Nothing but the loop itself decides when the next pass runs.
Spec == Init /\ [][Next]_vars /\ WF_vars(Next)

(******************************** properties *********************************)
\* Once a width is chosen it holds: whatever the later passes move, every
\* short jump and every short call still reaches its target (the two expects
\* of layout.rs and the assembler's own final emission).
WidthsStillFit ==
  stage \in {"shrinking", "linked"} =>
    /\ \A s \in Slots \ far : IsKind(s, "Jump") => FitsI8(JumpOff(s, far, short))
    /\ \A s \in short : FitsI8(CallOff(s, far, short))

\* The assembler grows no jump for nothing: each far jump would be out of
\* reach as a short one among the widths finally chosen.
NoNeedlessFarJump ==
  stage # "assembling" =>
    \A s \in far : ~FitsI8(JumpOff(s, far \ {s}, {}))

\* Both loops come to an end, with an image or with the range error.
WidthsSettle == <>(stage \in {"linked", "error"})
=============================================================================
