---------------------------------- MODULE MCDap ---------------------------------
(*****************************************************************************)
(* Instance of Dap for TLC: programs with calls, a debug break, a loop and   *)
(* recursion, mapped to two files that share a line number, to one file      *)
(* without line records, or not at all; the client sends what it likes.      *)
(*****************************************************************************)
EXTENDS Dap, MCImages

Fn(name, from, to, lines, source) ==
  [name |-> name, start |-> from, end |-> to, lines |-> lines, source |-> source]
Debuggee(code, map) ==
  [code |-> ZeroBased(code), entry |-> 0, rom |-> <<>>, composites |-> 0, sites |-> 0,
   map |-> map]

\* main calls f twice on two lines and breaks; f loops or returns.  Line 3 is in both files.
TwoFiles ==
  Debuggee(<<CallTo(0, 4), CallTo(1, 4), One("Brk", 0, 0), One("Stop", 0, 0),
             One("JumpRelIf", -1, 0), Instr(<<Op("Ret", 0, 0)>>)>>,
           {Fn("main", 0, 4, {<<0, 2>>, <<1, 3>>, <<3, 4>>}, "a"),
            Fn("f", 4, 6, {<<4, 1>>, <<5, 3>>}, "b")})
\* f calls itself on one line; no source is recorded.
OneTable ==
  Debuggee(<<CallTo(0, 2), One("Halt", 0, 0),
             One("JumpRelIf", 1, 0), CallTo(3, 2), Instr(<<Op("Ret", 0, 0)>>)>>,
           {Fn("main", 0, 2, {<<0, 1>>}, NoFile), Fn("f", 2, 5, {<<2, 7>>}, NoFile)})
\* No sidecar; a callee that never returns.
Endless ==
  Debuggee(<<CallTo(0, 2), One("Stop", 0, 0), One("JumpRel", 0, 0), One("JumpRel", -2, 0)>>, {})

Cmd(cmd) == [cmd |-> cmd]
LaunchAs(loads, entry, trace) ==
  [cmd |-> "launch", loads |-> loads, entry |-> entry, trace |-> trace]
BreakAt(file, lines) == [cmd |-> "setBreakpoints", file |-> file, lines |-> lines]
StepBy(cmd, gran)    == [cmd |-> cmd, gran |-> gran]

LifeCommands == {Cmd("initialize"), Cmd("configurationDone"), Cmd("continue"), Cmd("pause")}
\* The run state: launches that load or not, ends, departures, junk.
LifecycleRequests ==
  LifeCommands \cup {Cmd("disconnect"), Cmd("garbage"), Cmd("unknown"), Cmd("setVariable"),
              LaunchAs(TRUE, TRUE, FALSE), LaunchAs(TRUE, FALSE, FALSE),
              LaunchAs(FALSE, FALSE, FALSE), StepBy("stepIn", "statement")}
Addresses == {[cmd |-> "setInstructionBreakpoints", addrs |-> a] : a \in {{}, {4, 5}}}
\* The two kinds of breakpoints, in files the map knows and in one it does not.
BreakpointRequests ==
  {Cmd("initialize"), Cmd("continue"), LaunchAs(TRUE, FALSE, FALSE),
   BreakAt("a", {3}), BreakAt("b", {3}), BreakAt("z", {3}), BreakAt(NoFile, {2}),
   StepBy("next", "statement")} \cup Addresses
\* Every step, by line and by instruction, traced and untraced.
StepRequests ==
  {Cmd("initialize"), Cmd("continue"), LaunchAs(TRUE, FALSE, FALSE), LaunchAs(TRUE, FALSE, TRUE),
   BreakAt("b", {3}), StepBy("next", "statement"), StepBy("next", "instruction"),
   StepBy("stepIn", "statement"), StepBy("stepOut", "none")} \cup Addresses
AllRequests == LifecycleRequests \cup BreakpointRequests \cup StepRequests

\* The image says which client is at work.
ClientOf(i) == CASE i.client = "lifecycle" -> LifecycleRequests
                 [] i.client = "breakpoints" -> BreakpointRequests
                 [] i.client = "steps" -> StepRequests

MaxDepth == 3
MCDapInit ==
  /\ image \in {[client |-> "lifecycle"] @@ i : i \in {TwoFiles, Endless}}
              \cup {[client |-> c] @@ i : c \in {"breakpoints", "steps"}, i \in {TwoFiles, OneTable}}
  /\ DapInit
InTurn == \A i \in DOMAIN inbox' : inbox'[i] \in ClientOf(image)
MCDapSpec == MCDapInit /\ [][DapNext /\ InTurn /\ Len(calls') <= MaxDepth]_dapVars /\ WF_dapVars(Loop)
=============================================================================
