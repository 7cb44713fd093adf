-------------------------------- MODULE MCAsync --------------------------------
(*****************************************************************************)
(* Instances of AsyncSession for TLC.  A handful of programs, every latency  *)
(* up to MaxPolls at each command, every budget, pause and breakpoint move   *)
(* between two pumps.                                                        *)
(*****************************************************************************)
EXTENDS AsyncSession, MCImages

MCUnitCost == [k \in {"move", "read", "write", "table", "frame"} |-> 1]

\* The PM-1 shape: one tape, the mark latched at loading, a loop that marks
\* cells to the right until it meets a mark, with a debug break in it.
PostImage ==
  [code |-> ZeroBased(<<Entry, One("JumpRelIf", 4, 1),
                        Instr(<<Op("Write", 0, 1), Op("DeviceMoveRight", 0, 0),
                                Op("LatchMatch", 1, 0)>>),
                        One("Brk", 0, 0), One("JumpRel", -4, 0), NoInstr,
                        One("Stop", 0, 0)>>),
   entry |-> 0, rom |-> <<>>, frames |-> FALSE, composites |-> 0, sites |-> 0,
   devices |-> 1, preload |-> TRUE]

\* The TM-1 shape: framed calls over two tapes.
TuringImage ==
  FrameImage(ZeroBased(<<Entry, One("CallFrame", 2, 0), One("DeviceMoveLeft", 2, 0),
                         One("Stop", 0, 0), Entry,
                         Instr(<<Op("Write", 0, 0), Op("DeviceMoveRight", 0, 0)>>),
                         One("RetX", 0, 0)>>))
\* A callee that matches the cells it reads, then a device that does not exist.
FaultImage ==
  [FrameImage(ZeroBased(<<Entry, One("Call", 2, 0), One("DeviceMoveLeft", 2, 0),
                          One("Stop", 0, 0), Entry,
                          Instr(<<Op("ReadAll", 0, 0), Op("MatchTable", 0, 0)>>),
                          One("Ret", 0, 0)>>))
   EXCEPT !.rom = DataRom]

MCImagesAll == {PostImage, TuringImage, FaultImage}
MCLimits    == {[steps |-> 9, tacts |-> NoLimit], [steps |-> NoLimit, tacts |-> 17]}
MCTapes     == {[cells |-> [c \in Cells |-> 0], head |-> 0, strict |-> FALSE]}
MCReported  == {NoCost}
MCBudgets   == {NoBudget, 0, 1, 2}
=============================================================================
