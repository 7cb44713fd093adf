----------------------------------- MODULE Isa ----------------------------------
(*****************************************************************************)
(* What the control instructions promise, one step per retired instruction   *)
(* (crates/core/src/vm/arch.rs, MicroOp; docs/core.md, execution).  There is *)
(* ONE call stack of activation records - a return address with the frame to *)
(* restore - and a frame is its composite index: the descriptor it names is  *)
(* read from the image, there is no cached copy of it and no second stack.   *)
(*****************************************************************************)
EXTENDS Integers, Sequences

VARIABLES
  image,   \* the executable image that runs
  at,      \* address of the instruction to execute next
  frame,   \* composite index of the active frame, 0 for the identity
  calls    \* activation records, top last

isaVars == <<image, at, frame, calls>>

Cell   == image.code[at]
End    == at + 1 + Cell.operands
Does(name) == \E i \in DOMAIN Cell.ops : Cell.ops[i].op = name
Branch == {Cell.ops[i].a : i \in {j \in DOMAIN Cell.ops :
                                    Cell.ops[j].op \in {"JumpRel", "JumpRelIf"}}}
Operand == Cell.ops[1]

Descriptor(composite) ==
  image.rom[<<"descriptor", image.rom[<<"directory", composite>>]>>]

Top == calls[Len(calls)]
Pop == SubSeq(calls, 1, Len(calls) - 1)

IsaInit == at = image.entry /\ frame = 0 /\ calls = <<>>

\* Straight-line code, jumps and table dispatch leave calls and frame alone.
Plain ==
  /\ ~\E name \in {"Call", "CallFrame", "Ret", "RetX", "DispatchJump"} : Does(name)
  /\ at' \in {End} \cup {End + off : off \in Branch}
  /\ UNCHANGED <<image, frame, calls>>

Dispatch ==
  /\ Does("DispatchJump")
  /\ \E k \in DOMAIN image.rom[<<"dispatch", Operand.a>>].targets :
       at' = image.rom[<<"dispatch", Operand.a>>].targets[k]
  /\ UNCHANGED <<image, frame, calls>>

\* A call records where to return to and the caller's frame.
Call ==
  /\ Does("Call")
  /\ at' = End + Operand.a
  /\ calls' = Append(calls, [ret |-> End, frame |-> frame])
  /\ UNCHANGED <<image, frame>>

\* A framed call also composes the caller's frame with the call site.
CallFrame ==
  /\ Does("CallFrame")
  /\ Operand.b < image.sites
  /\ image.rom[<<"compose", frame, Operand.b>>] \in 1..image.composites
  /\ at' = End + Operand.a
  /\ calls' = Append(calls, [ret |-> End, frame |-> frame])
  /\ frame' = image.rom[<<"compose", frame, Operand.b>>]
  /\ UNCHANGED image

\* A return restores the caller's frame and goes where the call said.
Ret ==
  /\ Does("Ret") /\ calls # <<>>
  /\ at' = Top.ret /\ frame' = Top.frame /\ calls' = Pop
  /\ UNCHANGED image

\* A multi-exit return goes to the exit the frame being left declares.
RetX ==
  /\ Does("RetX") /\ calls # <<>> /\ frame # 0
  /\ Operand.a + 1 \in DOMAIN Descriptor(frame).exits
  /\ at' = Descriptor(frame).exits[Operand.a + 1]
  /\ frame' = Top.frame /\ calls' = Pop
  /\ UNCHANGED image

IsaNext ==
  /\ at \in DOMAIN image.code
  /\ Plain \/ Dispatch \/ Call \/ CallFrame \/ Ret \/ RetX

IsaSpec == IsaInit /\ [][IsaNext]_isaVars

=============================================================================
