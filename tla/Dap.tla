----------------------------------- MODULE Dap ----------------------------------
(*****************************************************************************)
(* The debug adapter server: the blocking loop of crates/core/src/dap/       *)
(* server.rs over the PM adapter of crates/post-machine/src/dap/mod.rs (the  *)
(* TM adapter mirrors it function for function).  A reader thread puts the   *)
(* client's requests in `inbox`; the main loop answers them, and while the   *)
(* adapter reports Running it advances the session by slices between them.   *)
(* A handler or a slice is one call; `handler` names the call in progress    *)
(* while it drives the session through its motions.                          *)
(*****************************************************************************)
EXTENDS Stepper, LineMap

CONSTANTS
  Requests,     \* what a client may send
  InboxBound,   \* bound: requests the reader thread is ahead of the loop
  Slice         \* instructions of a tick (BUDGET, 10_000 in the code)

ASSUME DapAssumption ==
  /\ InboxBound \in Nat /\ Slice \in Nat \ {0}
  /\ \A r \in Requests : r.cmd = "launch" => {r.entry, r.trace} \subseteq BOOLEAN

VARIABLES
  inbox,        \* the channel from the reader thread
  transport,    \* "open", or "closed" once the reader thread has returned
  server,       \* initialized, disconnected, and the exit code of the loop
  adapter,      \* session present, run state, launch options
  fileBps,      \* addresses planted for setBreakpoints, by source bucket
  insBps,       \* addresses planted for setInstructionBreakpoints
  handler,      \* the call in progress
  view,         \* history: the state of the program as told to the client
  exits,        \* history: exited events since the launch
  late,         \* history: instructions of slices while a request waits, up to Slice + 1
  armed,        \* history: the program came to a planted address and was
                \*   neither resumed by the client nor was the address removed
  untold        \* history: trace lines ahead of instructions

clientVars  == <<inbox, transport>>
bpVars      == <<fileBps, insBps>>
historyVars == <<view, exits, late, armed, untold>>
dapVars == <<stepperVars, clientVars, server, adapter, bpVars, handler, historyVars>>

NotExited == -1
NoHandler == [cmd |-> "none", gran |-> "none", start |-> <<>>, rule |-> "none",
              depth |-> 0, left |-> NoBudget]
InLoop    == handler = NoHandler /\ Idle /\ server.exit = NotExited
Global    == "global"
Buckets   == {Global} \cup {f.source : f \in image.map}

Response(r, ok)  == [type |-> "response", cmd |-> r.cmd, ok |-> ok]
Event(name, why) == [type |-> "event", name |-> name, why |-> why]
Stopped(reason)  == <<Event("stopped", reason)>>

\* What is written is folded into the client's picture of the program.
Seen(messages, before) ==
  LET tell == {i \in DOMAIN messages : messages[i].type = "event"
                                      /\ messages[i].name \in {"stopped", "exited"}}
  IN  IF tell # {}
      THEN LET last == messages[CHOOSE i \in tell : \A j \in tell : j <= i]
           IN  IF last.name = "stopped" THEN last.why ELSE "exited"
      ELSE IF \E i \in DOMAIN messages :
                 /\ messages[i].type = "response" /\ messages[i].ok
                 /\ messages[i].cmd \in {"continue", "configurationDone"}
           THEN "running" ELSE before
Exited(messages) ==
  Cardinality({i \in DOMAIN messages : messages[i].type = "event"
                                      /\ messages[i].name = "exited"})
Write(messages) ==
  /\ view' = Seen(messages, view)
  /\ exits' = exits + Exited(messages)

DapInit ==
  /\ StepperInit
  /\ inbox = <<>> /\ transport = "open"
  /\ server = [initialized |-> FALSE, disconnected |-> FALSE, exit |-> NotExited]
  /\ adapter = [launched |-> FALSE, run |-> "Stopped", entry |-> FALSE, trace |-> FALSE]
  /\ fileBps = [b \in Buckets |-> {}] /\ insBps = {}
  /\ handler = NoHandler
  /\ view = "none" /\ exits = 0 /\ late = 0 /\ armed = FALSE /\ untold = 0

-----------------------------------------------------------------------------
(* The reader thread: decoded frames go to the channel; a clean end or a     *)
(* malformed frame ends the thread.                                          *)

Send(r) ==
  /\ transport = "open" /\ Len(inbox) < InboxBound
  /\ inbox' = Append(inbox, r)
  /\ UNCHANGED <<stepperVars, transport, server, adapter, bpVars, handler, historyVars>>

Close ==
  /\ transport = "open"
  /\ transport' = "closed"
  /\ UNCHANGED <<stepperVars, inbox, server, adapter, bpVars, handler, historyVars>>

\* The channel is drained and its sender gone: the loop breaks.
HangUp ==
  /\ InLoop /\ inbox = <<>> /\ transport = "closed"
  /\ server' = [server EXCEPT !.exit = IF server.disconnected THEN 0 ELSE 1]
  /\ UNCHANGED <<stepperVars, clientVars, adapter, bpVars, handler, historyVars>>

-----------------------------------------------------------------------------
(* Requests answered in one go: what the session, the adapter and the        *)
(* breakpoint sets become, and whether the request is accepted.              *)

StepCommands == {"next", "stepIn", "stepOut"}
AcceptedAgain(r) ==                                                \* mutant
  CASE r.cmd \in {"initialize", "launch", "threads", "disconnect"} -> TRUE
    [] r.cmd \in {"setBreakpoints", "setInstructionBreakpoints", "stackTrace",
                  "configurationDone"} -> adapter.launched
    [] r.cmd = "continue" -> adapter.launched /\ adapter.run # "Done"
    [] r.cmd = "pause" -> adapter.launched /\ adapter.run = "Running"
    [] r.cmd \in StepCommands \cup {"setVariable"} ->
         adapter.launched /\ adapter.run = "Stopped"
    [] OTHER -> FALSE
Accepted(r) ==
  CASE r.cmd \in {"initialize", "launch", "threads", "disconnect"} -> TRUE
    [] r.cmd \in {"setBreakpoints", "setInstructionBreakpoints", "stackTrace"} ->
         adapter.launched
    [] r.cmd \in {"configurationDone", "continue"} ->
         adapter.launched /\ adapter.run # "Done"
    [] r.cmd = "pause" -> adapter.launched /\ adapter.run = "Running"
    [] r.cmd \in StepCommands \cup {"setVariable"} ->
         adapter.launched /\ adapter.run = "Stopped"
    [] OTHER -> FALSE

Refuse(r) ==
  /\ Write(<<Response(r, FALSE)>>)
  /\ UNCHANGED <<stepperVars, server, adapter, bpVars, handler, armed, untold>>

Accept(r, events) == Write(<<Response(r, TRUE)>> \o events)

Initialize(r) ==
  /\ r.cmd = "initialize"
  /\ Accept(r, <<>>)
  /\ server' = [server EXCEPT !.initialized = TRUE]
  /\ UNCHANGED <<stepperVars, adapter, bpVars, handler, armed, untold>>

\* A launch that fails anywhere (both or neither of program and target, a
\* file that cannot be read, a build with errors) leaves the adapter as it was.
LaunchFails(r) == r.cmd = "launch" /\ ~r.loads /\ Refuse(r)

Forget == fileBps' = [b \in Buckets |-> {}] /\ insBps' = {}

\* A new session at the entry, no breakpoints, whatever went before.
Launch(r) ==
  /\ r.cmd = "launch" /\ r.loads
  /\ view' = "none" /\ exits' = 0 /\ UNCHANGED server
  /\ at' = image.entry /\ frame' = 0 /\ calls' = <<>> /\ UNCHANGED image
  /\ breakpoints' = {} /\ ended' = "no" /\ answer' = "New" /\ UNCHANGED motion
  /\ adapter' = [launched |-> TRUE, run |-> "Stopped", entry |-> r.entry, trace |-> r.trace]
  /\ Forget
  /\ armed' = FALSE
  /\ UNCHANGED <<handler, untold>>

ConfigurationDone(r) ==
  /\ r.cmd = "configurationDone"
  /\ IF adapter.entry
     THEN Accept(r, Stopped("entry")) /\ UNCHANGED adapter
     ELSE Accept(r, <<>>) /\ adapter' = [adapter EXCEPT !.run = "Running"]
  /\ armed' = (armed /\ adapter.entry)
  /\ UNCHANGED <<stepperVars, server, bpVars, handler, untold>>

Continue(r) ==
  /\ r.cmd = "continue"
  /\ Accept(r, <<>>)
  /\ adapter' = [adapter EXCEPT !.run = "Running"]
  /\ armed' = FALSE
  /\ UNCHANGED <<stepperVars, server, bpVars, handler, untold>>

PauseKeepsRunning(r) ==                                            \* mutant
  /\ r.cmd = "pause"
  /\ Accept(r, Stopped("pause"))
  /\ UNCHANGED <<stepperVars, server, adapter, bpVars, handler, armed, untold>>
Pause(r) ==
  /\ r.cmd = "pause"
  /\ Accept(r, Stopped("pause"))
  /\ adapter' = [adapter EXCEPT !.run = "Stopped"]
  /\ UNCHANGED <<stepperVars, server, bpVars, handler, armed, untold>>

\* Where a request's lines are looked up: everywhere when the map names no
\* files or the request none, in its file, or nowhere when the map does not
\* know the file (breakpoint_source_filter).
Filter(file) ==
  IF ~HasSources(image.map) \/ file = NoFile THEN Global
  ELSE IF file \in {f.source : f \in image.map} THEN file ELSE "foreign"

\* A request replaces the bucket it owns; an address another bucket or an
\* instruction breakpoint still holds stays planted (handle_set_breakpoints).
KeptAlways(dropped, others) == breakpoints \ dropped                    \* mutant
Kept(dropped, others) == breakpoints \ (dropped \ others)
InBuckets(buckets) == UNION {buckets[b] : b \in DOMAIN buckets}
SetBreakpoints(r) ==
  /\ r.cmd = "setBreakpoints"
  /\ Accept(r, <<>>)
  /\ LET filter  == Filter(r.file)
         cleared == [fileBps EXCEPT ![filter] = {}]
         kept    == Kept(fileBps[filter], insBps \cup InBuckets(cleared))
         found   == {AddressForLine(image.map, line,
                        IF filter = Global THEN NoFile ELSE filter) : line \in r.lines}
                    \ {NoAddr}
     IN  IF filter = "foreign" THEN UNCHANGED <<breakpoints, fileBps>>
         ELSE /\ breakpoints' = kept \cup found
              /\ fileBps' = [cleared EXCEPT ![filter] = found]
  /\ armed' = (armed /\ at \in breakpoints')
  /\ UNCHANGED <<isaVars, motion, answer, ended, server, adapter, insBps, handler, untold>>

SetInstructionBreakpoints(r) ==
  /\ r.cmd = "setInstructionBreakpoints"
  /\ Accept(r, <<>>)
  /\ breakpoints' = Kept(insBps, InBuckets(fileBps)) \cup r.addrs
  /\ insBps' = r.addrs
  /\ armed' = (armed /\ at \in breakpoints')
  /\ UNCHANGED <<isaVars, motion, answer, ended, server, adapter, fileBps, handler, untold>>

\* Requests that only read, and setVariable: what is written is data, which
\* Isa leaves open; when it may be written is control.
Inspect(r) ==
  /\ r.cmd \in {"threads", "stackTrace", "setVariable"}
  /\ Accept(r, <<>>)
  /\ UNCHANGED <<stepperVars, server, adapter, bpVars, handler, armed, untold>>

Disconnect(r) ==
  /\ r.cmd = "disconnect"
  /\ Accept(r, <<>>)
  /\ adapter' = [adapter EXCEPT !.run = "Done"]
  /\ server' = [server EXCEPT !.disconnected = TRUE]
  /\ UNCHANGED <<stepperVars, bpVars, handler, armed, untold>>

AnswersAtOnce(r) ==
  \/ Initialize(r) \/ LaunchFails(r) \/ Launch(r) \/ ConfigurationDone(r) \/ Continue(r)
  \/ Pause(r) \/ SetBreakpoints(r) \/ SetInstructionBreakpoints(r) \/ Inspect(r)
  \/ Disconnect(r)

-----------------------------------------------------------------------------
(* Handlers that drive the session: next, stepIn, stepOut, and the slice.    *)

\* Traced calls repeat step_in under a rule of their own (step_traced,
\* run_traced): one instruction, until a depth, or for a budget; the first
\* instruction of a traced next is looked at by its depth alone.
Rule(cmd) ==
  IF ~adapter.trace THEN "session"
  ELSE CASE cmd = "stepIn"  -> "one"
         [] cmd = "next"    -> "first"
         [] cmd = "stepOut" -> IF calls = <<>> THEN "run" ELSE "depth"
         [] cmd = "tick"    -> "run"
SliceMotionUnbounded(cmd) ==                                       \* mutant
  IF adapter.trace THEN InMotion
  ELSE CASE cmd = "stepIn"  -> InMotion
         [] cmd = "next"    -> OverMotion
         [] cmd = "stepOut" -> OutMotion
         [] cmd = "tick"    -> RunMotion(NoBudget)
SliceMotion(cmd) ==
  IF adapter.trace THEN InMotion
  ELSE CASE cmd = "stepIn"  -> InMotion
         [] cmd = "next"    -> OverMotion
         [] cmd = "stepOut" -> OutMotion
         [] cmd = "tick"    -> RunMotion(Slice)
Call0(cmd, gran, start) ==
  [cmd |-> cmd, gran |-> gran, start |-> start, rule |-> Rule(cmd),
   depth |-> IF cmd = "stepOut" THEN Len(calls) - 1 ELSE Len(calls),
   left |-> IF cmd = "tick" /\ adapter.trace THEN Slice ELSE NoBudget]

\* step_once_traced writes one line per instruction, and none when the session
\* had already finished: the gate retires nothing.
TraceLineAlways == IF adapter.trace THEN 1 ELSE 0                  \* mutant
TraceLine == IF adapter.trace /\ ended = "no" THEN 1 ELSE 0

Drive(call) ==
  /\ handler' = call
  /\ Move(SliceMotion(call.cmd))
  /\ untold' = untold + TraceLine
  /\ UNCHANGED <<isaVars, breakpoints, ended>>

\* A traced call that starts again carries its rule on.
DriveOn(call) ==
  /\ handler' = call
  /\ Move(InMotion)
  /\ untold' = untold + TraceLine
  /\ UNCHANGED <<isaVars, breakpoints, ended>>

BeginStep(r) ==
  /\ r.cmd \in StepCommands
  /\ Drive(Call0(r.cmd, r.gran,
                 IF r.gran = "instruction" THEN <<"none", NoLine>>
                 ELSE Position(image.map, at)))
  /\ armed' = FALSE
  /\ UNCHANGED <<server, adapter, bpVars, view, exits>>

\* One iteration of the loop that takes a request: undecodable payloads are
\* dropped, nothing but initialize passes before initialize has succeeded and
\* nothing at all after disconnect has.
Guarded(r) == server.disconnected \/ (~server.initialized /\ r.cmd # "initialize")
TakeRequest ==
  /\ InLoop /\ inbox # <<>>
  /\ inbox' = Tail(inbox)
  /\ late' = 0
  /\ LET r == Head(inbox) IN
     IF r.cmd = "garbage"
     THEN UNCHANGED <<stepperVars, server, adapter, bpVars, handler, view, exits,
                      armed, untold>>
     ELSE IF Guarded(r) \/ ~Accepted(r) THEN Refuse(r)
     ELSE AnswersAtOnce(r) \/ BeginStep(r)
  /\ UNCHANGED transport

Tick ==
  /\ InLoop /\ inbox = <<>> /\ transport = "open" /\ adapter.run = "Running"
  /\ Drive(Call0("tick", "none", <<>>))
  /\ UNCHANGED <<clientVars, server, adapter, bpVars, view, exits, late, armed>>

\* The session advances inside the call.
Advance ==
  /\ ~Idle
  /\ Retire \/ Finishes
  /\ untold' = untold - TraceLine
  /\ armed' = (at' \in breakpoints)
  /\ late' = IF handler.cmd = "tick" /\ inbox # <<>> /\ late <= Slice THEN late + 1 ELSE late
  /\ UNCHANGED <<clientVars, server, adapter, bpVars, handler, view, exits>>

Returned == handler # NoHandler /\ Idle

\* What a traced call makes of one more retired instruction.
Tracked == insBps \cup InBuckets(fileBps)
TracedDeeperUnchecked ==                                           \* mutant
  IF handler.rule = "first" THEN "Step"
  ELSE IF at \in Tracked THEN "Breakpoint"
  ELSE IF handler.rule = "one" \/ (handler.rule = "depth" /\ Len(calls) <= handler.depth)
       THEN "Step"
  ELSE IF handler.rule = "run" /\ handler.left = 1 THEN "Manual" ELSE "again"
Traced ==
  IF handler.rule = "first" THEN IF Len(calls) > handler.depth THEN "again" ELSE "Step"
  ELSE IF at \in Tracked THEN "Breakpoint"
  ELSE IF handler.rule = "one" \/ (handler.rule = "depth" /\ Len(calls) <= handler.depth)
       THEN "Step"
  ELSE IF handler.rule = "run" /\ handler.left = 1 THEN "Manual" ELSE "again"
Report == IF adapter.trace /\ answer = "Step" THEN Traced ELSE answer

TraceOn ==
  /\ Returned /\ Report = "again"
  /\ DriveOn([handler EXCEPT !.rule = IF @ = "first" THEN "depth" ELSE @,
                             !.left = IF @ = NoBudget THEN @ ELSE @ - 1])
  /\ UNCHANGED <<clientVars, server, adapter, bpVars, view, exits, late, armed>>

\* A line step goes on while the position it reached is the one it started on
\* and no tracked breakpoint is there (the loop of handle_step).
SameLine ==
  /\ handler.cmd \in {"next", "stepIn"} /\ Report = "Step"
  /\ at \notin Tracked /\ handler.gran # "instruction"
  /\ Position(image.map, at) = handler.start
StepOn ==
  /\ Returned /\ SameLine
  /\ Drive(Call0(handler.cmd, handler.gran, handler.start))
  /\ UNCHANGED <<clientVars, server, adapter, bpVars, view, exits, late, armed>>

\* The events of a call that ends, and the run state it leaves.
Code(how) == CASE how = "Stopped" -> 0 [] how = "Halted" -> 2 [] how = "Trapped" -> 3
Reason ==
  CASE Report \in {"Breakpoint", "Brk"} -> "breakpoint"
    [] Report = "Trap" -> "exception"
    [] OTHER -> IF handler.cmd \in {"next", "stepIn"} /\ Report = "Step" /\ at \in Tracked
                THEN "breakpoint" ELSE "step"
Events ==
  IF Report = "Finished"
  THEN <<Event("output", "summary"), Event("terminated", "none"),
         Event("exited", Code(ended))>>
  ELSE IF handler.cmd = "tick" /\ Report = "Manual" THEN <<>>
  ELSE Stopped(Reason)
RunAfter ==
  IF Report = "Finished" THEN "Done"
  ELSE IF handler.cmd = "tick" /\ Report = "Manual" THEN "Running" ELSE "Stopped"

Return ==
  /\ Returned /\ Report # "again" /\ ~SameLine
  /\ Write((IF handler.cmd = "tick" THEN <<>> ELSE <<Response(handler, TRUE)>>) \o Events)
  /\ adapter' = [adapter EXCEPT !.run = RunAfter]
  /\ handler' = NoHandler
  /\ UNCHANGED <<stepperVars, clientVars, server, bpVars, late, armed, untold>>

-----------------------------------------------------------------------------
Loop    == HangUp \/ TakeRequest \/ Tick \/ Advance \/ TraceOn \/ StepOn \/ Return
DapNext == (\E r \in Requests : Send(r)) \/ Close \/ Loop

\* The main thread runs while it has something to do; the client owes nothing.
DapSpec == DapInit /\ [][DapNext]_dapVars /\ WF_dapVars(Loop)

-----------------------------------------------------------------------------
(* Properties. *)

\* The session's one set of addresses is what the buckets and the instruction
\* breakpoints hold together, after any sequence of replacements and launches.
PlantedIsTracked == adapter.launched => breakpoints = Tracked

\* A launch is told to have exited at most once, and the adapter is done then:
\* neither configurationDone, continue nor a step brings the end back.
EndsOnce == exits <= 1

\* A request waits for one slice at most while the program runs: "noticed
\* within one slice" (docs/dap.md, the framework).
NoticedWithinASlice == late <= Slice

\* One trace line per instruction, the faulting one included and never twice
\* (docs/dap.md, output events).
TraceParity == Idle => untold = 0

\* next never reports a completed step inside a call it steps over.
OverStaysOut ==
  [][ Return /\ handler.cmd = "next" /\ Reason = "step" /\ Report # "Finished" =>
        Len(calls) <= handler.depth ]_dapVars

\* A slice executes an instruction at an address that was planted when the
\* program came to it only if the client resumed there - or, without a trace,
\* as the first instruction of the slice.
PlantedStopsSlices ==
  [][ Advance /\ handler.cmd = "tick" /\ armed =>
        ~adapter.trace /\ motion.budget = Slice ]_dapVars

\* A pause that reaches a running program stops it, however long it would run.
PauseTakesEffect ==
  (adapter.run = "Running" /\ InLoop /\ inbox # <<>> /\ Head(inbox).cmd = "pause"
     /\ ~server.disconnected)
    ~> adapter.run # "Running"

\* A client that goes away ends the process, also in the middle of a run.
DepartureEnds ==
  (transport = "closed" /\ handler.cmd \in {"none", "tick"}
     /\ \A i \in DOMAIN inbox : inbox[i].cmd \notin StepCommands)
    ~> server.exit # NotExited

=============================================================================
