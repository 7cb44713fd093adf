-------------------------------- MODULE MCDriver --------------------------------
(*****************************************************************************)
(* Instance of Driver for TLC: every short combination of calls, framed      *)
(* calls and returns, and every pair of instructions under several limits.   *)
(*****************************************************************************)
EXTENDS Driver, MCImages

MCUnitCost == [k \in {"move", "read", "write", "table", "frame"} |-> 1]

MCFrameLimits == {[steps |-> 12, tacts |-> NoLimit]}
MCFrameTapes  == {[cells |-> [c \in Cells |-> 0], head |-> 0, strict |-> FALSE]}

MCDataLimits ==
  {[steps |-> 8, tacts |-> NoLimit], [steps |-> 3, tacts |-> 7],
   [steps |-> NoLimit, tacts |-> 0], [steps |-> NoLimit, tacts |-> 12]}
MCDataTapes ==
  {[cells |-> [c \in Cells |-> IF c = 0 THEN 1 ELSE 0], head |-> 0, strict |-> TRUE]}

MCImagesAll == MCFrameImages \cup MCDataImages
MCLimits    == MCFrameLimits \cup MCDataLimits
MCTapes     == MCFrameTapes \cup MCDataTapes
\* The two families of programs are told apart by their table ROM.
MCInit ==
  /\ Init
  /\ IF image.rom = Rom
     THEN limits \in MCFrameLimits /\ tapes \in [0..Devices-1 -> MCFrameTapes]
     ELSE limits \in MCDataLimits  /\ tapes \in [0..Devices-1 -> MCDataTapes]
MCSpec == MCInit /\ [][Next]_vars /\ WF_vars(Next)
=============================================================================
