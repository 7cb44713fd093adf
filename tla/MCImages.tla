-------------------------------- MODULE MCImages --------------------------------
(*****************************************************************************)
(* Executable images for TLC, shared by the instances of the synchronous and *)
(* the pumped run.  Most are built from templates whose slots range over a   *)
(* menu of instructions, so that every short combination is run.             *)
(*****************************************************************************)
EXTENDS Integers, Sequences, TLC

Unmapped     == 65535
Op(op, a, b) == [op |-> op, a |-> a, b |-> b]
Instr(list)  == [valid |-> TRUE, entry |-> FALSE, operands |-> 0,
                 lowers |-> TRUE, ops |-> list]
Wide(list)   == [Instr(list) EXCEPT !.operands = 1]
Entry        == [Instr(<<Op("Nop", 0, 0)>>) EXCEPT !.entry = TRUE]
NoInstr      == [Instr(<<>>) EXCEPT !.valid = FALSE]
BadInstr     == [Instr(<<>>) EXCEPT !.lowers = FALSE]
\* A sequence as a code image; @@ makes TLC tabulate a function once.
ZeroBased(s) == [a \in 0..Len(s)-1 |-> s[a + 1]] @@ <<>>

\* Two composites over two tapes: 1 sees tape 1 with its symbols swapped and
\* has one exit, 2 sees tape 0 with a hole in both maps and has none.  The
\* matrix has the reserved 0 and an index past the directory.
Desc1 == [entries |-> <<[phys |-> 1, rmap |-> <<1, 0>>, wmap |-> <<1, 0>>]>>,
          exits |-> <<3>>]
Desc2 == [entries |-> <<[phys |-> 0, rmap |-> <<0, Unmapped>>, wmap |-> <<Unmapped, 1>>],
                        [phys |-> 1, rmap |-> <<>>, wmap |-> <<>>]>>,
          exits |-> <<>>]
\* The composite table by caller frame (0, 1, 2) and site.
Composed == << <<1, 2>>, <<0, 2>>, <<1, 3>> >>
Rom ==
  [addr \in {<<"compose", f, s>> : f \in 0..2, s \in 0..1} |->
     Composed[addr[2] + 1][addr[3] + 1]]
  @@ (<<"directory", 1>> :> 10) @@ (<<"directory", 2>> :> 20)
  @@ (<<"descriptor", 10>> :> Desc1) @@ (<<"descriptor", 20>> :> Desc2)

FrameImage(code) ==
  [code |-> code, entry |-> 0, rom |-> Rom, frames |-> TRUE,
   composites |-> 2, sites |-> 2, devices |-> 2, preload |-> FALSE]

\* The template: main at 0, the routine f at 4, the routine g at 8.  The
\* displacement of a call at address a to t is t - (a + 1).
CallTo(a, t)     == Instr(<<Op("Call", t - a - 1, 0)>>)
FramedTo(a, t, s) == Instr(<<Op("CallFrame", t - a - 1, s)>>)
Menu(a) ==
  <<CallTo(a, 8), FramedTo(a, 4, 0), FramedTo(a, 8, 1),
    Instr(<<Op("Ret", 0, 0)>>), Instr(<<Op("RetX", 0, 0)>>),
    Instr(<<Op("Write", 0, 1), Op("DeviceMoveRight", 0, 0)>>)>>
Template(m1, m2, f1, f2, g1, g2) ==
  ZeroBased(<<Entry, m1, m2, Instr(<<Op("Stop", 0, 0)>>),
              Entry, f1, f2, Instr(<<Op("Ret", 0, 0)>>),
              Entry, g1, g2>>)
MCFrameImages ==
  {FrameImage(Template(Menu(1)[p[1]], Instr(<<Op("ReadAll", 0, 0)>>),
                       Menu(5)[p[2]], Menu(6)[p[3]],
                       Menu(9)[p[4]], Menu(10)[p[5]])) :
     p \in (2..3) \X (1..6) \X (1..6) \X (1..6) \X (4..5)}

-----------------------------------------------------------------------------
(* Every kind of instruction and trap, in pairs: main runs two instructions  *)
(* of the menu at 1 and 2 between an entry marker and a Stop.                *)

DataRom ==
  Rom @@ (<<"match", 0>> :> [width |-> 1, rows |-> << <<1>>, <<Unmapped>> >>])
      @@ (<<"match", 1>> :> [width |-> 2, rows |-> << <<1, Unmapped>>, <<0, 1>> >>])
      @@ (<<"match", 2>> :> [width |-> 3, rows |-> <<>>])
      @@ (<<"dispatch", 0>> :> [targets |-> <<3>>])
      @@ (<<"dispatch", 1>> :> [targets |-> <<2, 7>>])
One(op, a, b) == Instr(<<Op(op, a, b)>>)
DataMenu ==
  { One("DeviceMoveRight", 0, 0), One("DeviceMoveLeft", 1, 0),
    One("DeviceMoveLeft", 2, 0), One("Write", 0, 1), One("Write", 1, 2),
    One("LatchMatch", 1, 0), One("Read", 1, 2), One("Read", 2, 0),
    One("Read", 0, 3),
    One("ReadAll", 0, 0), One("MatchTable", 0, 0), One("MatchTable", 1, 0),
    One("MatchTable", 2, 0), One("MatchTable", 9, 0),
    One("DispatchJump", 0, 0), One("DispatchJump", 1, 0),
    One("JumpRel", -2, 0), One("JumpRel", -9, 0), One("JumpRel", 9, 0),
    One("JumpRelIf", -2, 1), One("JumpRelIf", 1, 0),
    One("Call", 2, 0), One("Call", -2, 0), One("Call", 3, 0), One("Call", 9, 0), One("Call", -9, 0),
    One("CallFrame", 2, 0), One("CallFrame", 3, 1), One("CallFrame", 2, 2),
    One("Ret", 0, 0), One("RetX", 0, 0), One("Raise", 0, 0), One("Raise", 1, 0),
    One("Brk", 0, 0), One("Halt", 0, 0), NoInstr, BadInstr,
    Wide(<<Op("Write", 0, 1), Op("Write", 1, 1), Op("DeviceMoveRight", 0, 0)>>) }
DataImage(x, y, frameProfile) ==
  [code |-> ZeroBased(<<Entry, x, y, One("Stop", 0, 0), Entry,
                        One("ReadAll", 0, 0), One("LatchMatch", 0, 0),
                        One("Ret", 0, 0), Wide(<<Op("Nop", 0, 0)>>)>>),
   entry |-> 0, rom |-> DataRom, frames |-> frameProfile,
   composites |-> 2, sites |-> 2, devices |-> 2, preload |-> ~frameProfile]
MCDataImages ==
  {DataImage(x, y, on) : x \in DataMenu, y \in DataMenu, on \in BOOLEAN}

=============================================================================
