--------------------------------- MODULE MCDebug --------------------------------
(*****************************************************************************)
(* Instance of DebugSession for TLC: a recursive program, one with nested    *)
(* framed calls and a multi-exit return, one that traps in a callee, each    *)
(* with a debug break, and one that dispatches on the match register the     *)
(* client edits, under every sequence of commands.                           *)
(*****************************************************************************)
EXTENDS DebugSession, MCImages

MCUnitCost == [k \in {"move", "read", "write", "table", "frame"} |-> 1]

\* main calls f, f marks a cell and calls itself until it meets a mark.
RecursiveImage ==
  [code |-> ZeroBased(<<Entry, CallTo(1, 4), One("Brk", 0, 0), One("Stop", 0, 0),
                        Entry, One("JumpRelIf", 3, 1),
                        Instr(<<Op("Write", 0, 1), Op("LatchMatch", 1, 0)>>),
                        CallTo(7, 4), Instr(<<Op("Ret", 0, 0)>>),
                        Instr(<<Op("Ret", 0, 0)>>)>>),
   entry |-> 0, rom |-> <<>>, frames |-> FALSE, composites |-> 0, sites |-> 0,
   devices |-> 1, preload |-> TRUE]
\* main calls f in a frame, f calls g in another, g leaves by an exit or by a
\* device that does not exist.
FramedImage(last) ==
  FrameImage(ZeroBased(<<Entry, FramedTo(1, 4, 1), One("Brk", 0, 0), One("Stop", 0, 0),
                         Entry, FramedTo(5, 7, 0), Instr(<<Op("Ret", 0, 0)>>),
                         Entry, last>>))
\* Reads, matches and dispatches on the row that fired: a blank is marked and
\* read again, a mark is matched for ever.
DispatchImage ==
  [FrameImage(ZeroBased(<<Entry, One("ReadAll", 0, 0), One("MatchTable", 0, 0),
                          One("DispatchJump", 1, 0), Entry, Entry, NoInstr,
                          One("Write", 0, 1), One("JumpRel", -8, 0)>>))
   EXCEPT !.rom = DataRom, !.frames = FALSE]

MCDebugImages ==
  {RecursiveImage, FramedImage(One("RetX", 0, 0)), FramedImage(One("Write", 5, 0)),
   DispatchImage}
MCDebugLimits == {[steps |-> 14, tacts |-> NoLimit]}
MCDebugTapes  == {[cells |-> [c \in Cells |-> 0], head |-> 0, strict |-> FALSE]}
=============================================================================
