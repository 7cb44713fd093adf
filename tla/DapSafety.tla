-------------------------------- MODULE DapSafety -----------------------------
(*****************************************************************************)
(* Safety of the debug adapter, for every program, line map, client and      *)
(* slice length: the breakpoint sets agree, an end is told once, the trace   *)
(* has a line per instruction, a request waits for a slice at most, a step   *)
(* over stays out of calls, a slice stops at what is planted.                *)
(*****************************************************************************)
EXTENDS Dap, FiniteSetTheorems, TLAPS

-----------------------------------------------------------------------------
(* The inductive invariant. *)

Records ==
  /\ inbox \in Seq(Requests)
  /\ adapter \in [launched : BOOLEAN, run : {"Stopped", "Running", "Done"},
                  entry : BOOLEAN, trace : BOOLEAN]
  /\ handler = [cmd |-> handler.cmd, gran |-> handler.gran, start |-> handler.start,
                rule |-> handler.rule, depth |-> handler.depth, left |-> handler.left]
  /\ handler.left \in Int
  /\ handler = NoHandler \/ handler.cmd \in {"tick"} \cup StepCommands
  /\ calls \in Seq({calls[i] : i \in 1..Len(calls)})
  /\ late \in Nat /\ exits \in Nat
  /\ answer \in {"New", "Finished", "Manual", "Step", "Breakpoint", "Brk", "Trap"}

\* A motion runs only inside a call, and only while the program has not ended.
Calling == ~Idle => handler # NoHandler /\ ended = "no"

\* Before the first launch both sides are empty.
PlantedInv == DOMAIN fileBps = Buckets /\ breakpoints = Tracked

\* No call is in progress once the adapter is done, so no call can return then.
EndInv ==
  /\ exits \in {0, 1}
  /\ exits = 1 => adapter.run = "Done"
  /\ handler # NoHandler => adapter.run # "Done"

\* The line goes out as the instruction starts; a traced motion is one
\* instruction long.
TraceInv ==
  /\ untold = IF Idle THEN 0 ELSE TraceLine
  /\ ~Idle /\ adapter.trace => motion = InMotion
  /\ Idle /\ adapter.trace /\ handler # NoHandler => answer # "Manual"

\* Instructions spent while a request waits and what the slice has left are a
\* slice together, counted by the motion or by the traced call.
SliceInv ==
  /\ inbox = <<>> => late = 0
  /\ late <= Slice
  /\ handler.cmd = "tick" /\ ~adapter.trace /\ ~Idle =>
       \E b \in 1..Slice : motion = RunMotion(b) /\ late + b <= Slice
  /\ handler.cmd = "tick" /\ adapter.trace =>
       /\ handler.rule = "run" /\ handler.left \in 1..Slice
       /\ late + handler.left <= IF Idle THEN Slice + 1 ELSE Slice

\* The motion of a step over waits for the depth the handler remembers.
OverInv ==
  handler.cmd = "next" =>
    /\ handler.depth \in Nat
    /\ adapter.trace => handler.rule \in {"first", "depth"}
    /\ ~Idle /\ ~adapter.trace =>
         \E kind \in {"Over", "Until"} : motion = Motion(kind, handler.depth, NoBudget)
    /\ Idle => answer \notin {"New", "Manual"}
    /\ Idle /\ ~adapter.trace /\ answer = "Step" => Len(calls) <= handler.depth

\* A slice comes to a planted address only where it stops; one that is armed
\* was started there.
ArmedInv ==
  /\ armed => at \in breakpoints
  /\ handler = NoHandler /\ adapter.run = "Running" /\ adapter.trace => ~armed
  /\ ~Idle /\ handler.cmd = "tick" /\ armed => ~adapter.trace /\ motion.budget = Slice

DapInv ==
  /\ Records /\ Calling /\ PlantedInv /\ EndInv /\ TraceInv /\ SliceInv /\ OverInv /\ ArmedInv

-----------------------------------------------------------------------------
(* Lemmas. *)

LEMMA OwnItems ==
  ASSUME NEW S, NEW s \in Seq(S)
  PROVE  s \in Seq({s[i] : i \in 1..Len(s)})
<1>1. Len(s) \in Nat /\ s = [i \in 1..Len(s) |-> s[i]]
  OBVIOUS
<1>2. [i \in 1..Len(s) |-> s[i]] \in Seq({s[i] : i \in 1..Len(s)})
  BY <1>1
<1>3. QED
  BY <1>1, <1>2, Zenon

LEMMA CallsStep ==
  ASSUME calls \in Seq({calls[i] : i \in 1..Len(calls)}), IsaNext
  PROVE  calls' \in Seq({calls'[i] : i \in 1..Len(calls')})
<1> DEFINE S == {calls[i] : i \in 1..Len(calls)}
           R == [ret |-> End, frame |-> frame]
<1>1. calls \in Seq(S)
  OBVIOUS
<1> HIDE DEF S, R
<1>2. calls' = calls \/ calls' = Append(calls, R) \/ (calls # <<>> /\ calls' = SubSeq(calls, 1, Len(calls) - 1))
  BY DEF IsaNext, Plain, Dispatch, Call, CallFrame, Ret, RetX, Pop, R
<1>3. calls' \in Seq(S \cup {R})
  <2>1. CASE calls' = calls
    BY <1>1, <2>1
  <2>2. CASE calls' = Append(calls, R)
    BY <1>1, <2>2
  <2>3. CASE calls # <<>> /\ calls' = SubSeq(calls, 1, Len(calls) - 1)
    BY <1>1, <2>3
  <2>4. QED
    BY <1>2, <2>1, <2>2, <2>3
<1>4. QED
  BY <1>3, OwnItems

\* Exited events are counted by position.
LEMMA NoExit ==
  ASSUME NEW messages, \A i \in DOMAIN messages :
           ~(messages[i].type = "event" /\ messages[i].name = "exited")
  PROVE  Exited(messages) = 0
<1>1. {i \in DOMAIN messages : messages[i].type = "event" /\ messages[i].name = "exited"} = {}
  OBVIOUS
<1>2. QED
  BY <1>1, FS_EmptySet DEF Exited

\* One event at most, at the end of an event list, or behind a response.
LEMMA OneExit ==
  ASSUME NEW r, NEW code
  PROVE  LET end == <<Event("output", "summary"), Event("terminated", "none"),
                      Event("exited", code)>>
         IN  Exited(<<>> \o end) = 1 /\ Exited(<<Response(r, TRUE)>> \o end) = 1
<1> DEFINE end == <<Event("output", "summary"), Event("terminated", "none"),
                    Event("exited", code)>>
           all == <<Response(r, TRUE)>> \o end
<1>1. DOMAIN end = 1..3 /\ end[1].name = "output" /\ end[2].name = "terminated"
      /\ end[3].type = "event" /\ end[3].name = "exited"
  BY DEF Event
<1>2. DOMAIN all = 1..4 /\ all[1].type = "response" /\ all[2].name = "output"
      /\ all[3].name = "terminated" /\ all[4].type = "event" /\ all[4].name = "exited"
  BY DEF Event, Response
<1>3. <<>> \o end = end
  OBVIOUS
<1> HIDE DEF end, all
<1>4. {i \in DOMAIN end : end[i].type = "event" /\ end[i].name = "exited"} = {3}
  BY <1>1
<1>5. {i \in DOMAIN all : all[i].type = "event" /\ all[i].name = "exited"} = {4}
  BY <1>2
<1>6. Exited(end) = 1 /\ Exited(all) = 1
  BY <1>4, <1>5, FS_Singleton DEF Exited
<1>7. QED
  BY <1>3, <1>6 DEF end, all

-----------------------------------------------------------------------------
(* What an action does, in the terms of the invariant. *)

\* A call starts or goes on: its motion runs, or is answered by the gate.
Starts(call, m) ==
  /\ handler' = call /\ Idle
  /\ untold' = untold + TraceLine
  /\ UNCHANGED <<isaVars, breakpoints, ended>>
  /\ IF ended # "no" THEN answer' = "Finished" /\ motion' = NoMotion
     ELSE motion' = m /\ m # NoMotion /\ UNCHANGED answer

LEMMA DriveStarts ==
  ASSUME NEW call, Drive(call), DapAssumption, call.cmd \in {"tick"} \cup StepCommands
  PROVE  Starts(call, SliceMotion(call.cmd))
<1>1. SliceMotion(call.cmd).budget # 0 /\ SliceMotion(call.cmd) # NoMotion
  BY DEF SliceMotion, StepCommands, InMotion, OverMotion, OutMotion, RunMotion, Motion,
         NoMotion, NoBudget, DapAssumption
<1>2. QED
  BY <1>1 DEF Drive, Move, Starts, Answer

LEMMA Call0Starts ==
  ASSUME DapAssumption, NEW cmd \in {"tick"} \cup StepCommands, NEW gran, NEW start,
         Drive(Call0(cmd, gran, start))
  PROVE  Starts(Call0(cmd, gran, start), SliceMotion(cmd))
<1>1. Call0(cmd, gran, start).cmd = cmd
  BY DEF Call0
<1>2. QED
  BY <1>1, DriveStarts

\* The call a traced call goes on as.
Again ==
  [cmd |-> handler.cmd, gran |-> handler.gran, start |-> handler.start,
   rule |-> IF handler.rule = "first" THEN "depth" ELSE handler.rule,
   depth |-> handler.depth,
   left |-> IF handler.left = NoBudget THEN handler.left ELSE handler.left - 1]

LEMMA AdvanceMoves ==
  ASSUME Advance, calls \in Seq({calls[i] : i \in 1..Len(calls)})
  PROVE  /\ calls' \in Seq({calls'[i] : i \in 1..Len(calls')})
         /\ UNCHANGED <<image, breakpoints, handler, adapter, fileBps, insBps, inbox, exits>>
         /\ ~Idle
         /\ Idle' \/ (motion.kind \in {"Until", "Over"} /\ ended' = ended)
         /\ answer' \in {answer, "Finished", "Manual", "Step", "Breakpoint", "Brk", "Trap"}
<1>1. IsaNext \/ UNCHANGED isaVars
  BY DEF Advance, Retire, Finishes, Stops, Halts, Traps
<1>2. calls' \in Seq({calls'[i] : i \in 1..Len(calls')})
  BY <1>1, CallsStep DEF isaVars
<1>3. UNCHANGED <<image, breakpoints, handler, adapter, fileBps, insBps, inbox, exits>>
  BY <1>1 DEF Advance, Retire, Finishes, clientVars, bpVars, isaVars, IsaNext, Plain,
     Dispatch, Call, CallFrame, Ret, RetX
<1>4. ~Idle
  BY DEF Advance
<1>5. Idle' \/ (motion.kind \in {"Until", "Over"} /\ ended' = ended)
  BY DEF Advance, Retire, Finishes, Stops, Halts, Traps, Retired, Answer, Idle
<1>6. answer' \in {answer, "Finished", "Manual", "Step", "Breakpoint", "Brk", "Trap"}
  BY DEF Advance, Retire, Finishes, Stops, Halts, Traps, Retired, RunOn, Answer
<1>7. QED
  BY <1>2, <1>3, <1>4, <1>5, <1>6

\* Every other way of writing tells no end.
LEMMA TellsNoEnd ==
  ASSUME NEW r, NEW ok \in BOOLEAN, NEW why
  PROVE  /\ Exited(<<Response(r, ok)>>) = 0
         /\ Exited(<<Response(r, ok)>> \o <<>>) = 0
         /\ Exited(<<Response(r, ok)>> \o Stopped(why)) = 0
         /\ Exited(<<>> \o <<>>) = 0
         /\ Exited(<<>> \o Stopped(why)) = 0
<1> DEFINE one == <<Response(r, ok)>>
           two == <<Response(r, ok)>> \o Stopped(why)
<1>1. one \o <<>> = one /\ <<>> \o <<>> = <<>> /\ <<>> \o Stopped(why) = Stopped(why)
  BY DEF Stopped
<1>2. /\ DOMAIN one = {1} /\ one[1].type = "response"
      /\ DOMAIN two = {1, 2} /\ two[1].type = "response" /\ two[2].name = "stopped"
      /\ DOMAIN Stopped(why) = {1} /\ Stopped(why)[1].name = "stopped"
  BY DEF Stopped, Response, Event
<1> HIDE DEF one, two
<1>3. Exited(one) = 0 /\ Exited(two) = 0 /\ Exited(Stopped(why)) = 0 /\ Exited(<<>>) = 0
  BY <1>2, NoExit
<1>4. QED
  BY <1>1, <1>3 DEF one, two

\* The reader thread, the end of the loop, and steps of anything else.
Outside ==
  /\ inbox' \in Seq(Requests) /\ (inbox' = <<>> => inbox = <<>>)
  /\ UNCHANGED <<stepperVars, adapter, bpVars, handler, historyVars>>

\* A request that is dropped, guarded, refused, or that changes nothing but
\* the server's own flags.
Ignored ==
  UNCHANGED <<stepperVars, adapter, bpVars, handler, exits, armed, untold>>

\* A request that leaves the session's motions alone.
Answered(r) ==
  \/ ConfigurationDone(r) \/ Continue(r) \/ Pause(r) \/ SetBreakpoints(r)
  \/ SetInstructionBreakpoints(r) \/ Disconnect(r)

\* The actions by what they can disturb.
LEMMA Cases ==
  ASSUME [DapNext]_dapVars, Records
  PROVE  \/ Outside \/ Tick \/ Advance \/ TraceOn \/ StepOn \/ Return
         \/ /\ InLoop /\ inbox # <<>> /\ inbox' \in Seq(Requests) /\ late' = 0
            /\ \/ Ignored
               \/ \E r \in Requests :
                    /\ Accepted(r)
                    /\ exits' = exits \/ Launch(r)
                    /\ Launch(r) \/ Answered(r) \/ BeginStep(r)
<1>1. CASE UNCHANGED dapVars
  BY <1>1 DEF Outside, Records, dapVars, clientVars
<1>2. ASSUME NEW r \in Requests, Send(r) PROVE Outside
  <2>1. inbox' \in Seq(Requests) /\ inbox' # <<>>
    BY <1>2 DEF Records, Send
  <2>2. UNCHANGED <<stepperVars, adapter, bpVars, handler, historyVars>>
    BY <1>2 DEF Send
  <2>3. QED
    BY <2>1, <2>2 DEF Outside
<1>3. CASE Close \/ HangUp
  BY <1>3 DEF Outside, Records, Close, HangUp, clientVars
<1>4. CASE TakeRequest
  <2>1. Head(inbox) \in Requests /\ Tail(inbox) \in Seq(Requests) /\ inbox # <<>>
    BY <1>4 DEF TakeRequest, Records
  <2>2. PICK r \in Requests : r = Head(inbox)
    BY <2>1
  <2>3. InLoop /\ inbox' \in Seq(Requests) /\ late' = 0
    BY <1>4, <2>1 DEF TakeRequest
  <2> DEFINE told == <<Response(r, TRUE)>>
  <2>a. /\ Exited(<<Response(r, FALSE)>>) = 0 /\ Exited(told \o <<>>) = 0
        /\ Exited(told \o Stopped("entry")) = 0 /\ Exited(told \o Stopped("pause")) = 0
    BY TellsNoEnd
  <2>b. exits + 0 = exits
    BY DEF Records
  <2>4. CASE r.cmd = "garbage"
    BY <1>4, <2>2, <2>3, <2>4, <2>1 DEF TakeRequest, Ignored
  <2>5. CASE r.cmd # "garbage" /\ (Guarded(r) \/ ~Accepted(r))
    <3>1. Refuse(r)
      BY <1>4, <2>2, <2>5 DEF TakeRequest
    <3>2. Ignored
      BY <3>1, <2>a, <2>b, Zenon DEF Refuse, Write, Ignored
    <3>3. QED
      BY <2>1, <2>3, <3>2
  <2>6. CASE r.cmd # "garbage" /\ ~Guarded(r) /\ Accepted(r)
    <3>1. AnswersAtOnce(r) \/ BeginStep(r)
      BY <1>4, <2>2, <2>6 DEF TakeRequest
    <3>2. Initialize(r) \/ LaunchFails(r) \/ Inspect(r) => Ignored
      BY <2>a, <2>b, Zenon DEF Initialize, LaunchFails, Inspect, Refuse, Accept, Write, Ignored
    <3>3. Answered(r) => exits' = exits
      BY <2>a, <2>b, Zenon DEF ConfigurationDone, Continue, Pause, SetBreakpoints,
         SetInstructionBreakpoints, Disconnect, Accept, Write, Answered
    <3>4. BeginStep(r) => exits' = exits
      BY DEF BeginStep
    <3>5. QED
      BY <2>1, <2>3, <2>6, <3>1, <3>2, <3>3, <3>4 DEF AnswersAtOnce, Answered
  <2>7. QED
    BY <2>4, <2>5, <2>6
<1>5. QED
  BY <1>1, <1>2, <1>3, <1>4 DEF DapNext, Loop

\* A call that returns tells an end exactly when it leaves the adapter done.
LEMMA ReturnTells ==
  ASSUME Return, Records
  PROVE  /\ InLoop' = (server.exit = NotExited)
         /\ handler' = NoHandler /\ Idle /\ Idle'
         /\ UNCHANGED <<stepperVars, clientVars, bpVars, late, armed, untold>>
         /\ adapter' = [adapter EXCEPT !.run = RunAfter]
         /\ \/ RunAfter \in {"Stopped", "Running"} /\ exits' = exits
            \/ RunAfter = "Done" /\ exits' = exits + 1
<1>1. /\ handler' = NoHandler /\ Idle /\ Idle'
      /\ UNCHANGED <<stepperVars, clientVars, bpVars, late, armed, untold>>
      /\ adapter' = [adapter EXCEPT !.run = RunAfter]
  BY DEF Return, Returned, Idle, stepperVars
<1>2. InLoop' = (server.exit = NotExited)
  BY <1>1 DEF InLoop, Return
<1>3. exits + 0 = exits
  BY DEF Records
<1>4. CASE Report = "Finished"
  <2>1. RunAfter = "Done"
    BY <1>4 DEF RunAfter
  <2>2. exits' = exits + Exited((IF handler.cmd = "tick" THEN <<>> ELSE <<Response(handler, TRUE)>>)
                                \o Events)
    BY DEF Return, Write
  <2>3. Events = <<Event("output", "summary"), Event("terminated", "none"),
                   Event("exited", Code(ended))>>
    BY <1>4 DEF Events
  <2>4. QED
    BY <1>1, <1>2, <2>1, <2>2, <2>3, OneExit, Zenon
<1>5. CASE Report # "Finished"
  <2>1. RunAfter \in {"Stopped", "Running"}
    BY <1>5 DEF RunAfter
  <2>2. exits' = exits + Exited((IF handler.cmd = "tick" THEN <<>> ELSE <<Response(handler, TRUE)>>)
                                \o Events)
    BY DEF Return, Write
  <2>3. Events = Stopped(Reason) \/ (Events = <<>> /\ handler.cmd = "tick")
    BY <1>5 DEF Events
  <2>4. exits' = exits
    BY <1>3, <2>2, <2>3, TellsNoEnd, Zenon
  <2>5. QED
    BY <1>1, <1>2, <2>1, <2>4
<1>6. QED
  BY <1>4, <1>5

LEMMA TickStarts ==
  ASSUME DapAssumption, Tick
  PROVE  Starts(Call0("tick", "none", <<>>), SliceMotion("tick"))
BY Call0Starts DEF Tick

LEMMA BeginStepStarts ==
  ASSUME DapAssumption, NEW r, BeginStep(r)
  PROVE  /\ r.cmd \in StepCommands
         /\ \E start : Starts(Call0(r.cmd, r.gran, start), SliceMotion(r.cmd))
<1>1. PICK start : Drive(Call0(r.cmd, r.gran, start)) /\ r.cmd \in StepCommands
  BY DEF BeginStep
<1>2. QED
  BY <1>1, Call0Starts

LEMMA AnsweredKeeps ==
  ASSUME NEW r, Answered(r), Records
  PROVE  /\ UNCHANGED <<image, at, frame, calls, motion, answer, ended, handler, untold>>
         /\ adapter' \in [launched : BOOLEAN, run : {"Stopped", "Running", "Done"},
                          entry : BOOLEAN, trace : BOOLEAN]
         /\ adapter'.trace = adapter.trace
<1>1. UNCHANGED <<image, at, frame, calls, motion, answer, ended, handler, untold>>
  BY DEF Answered, ConfigurationDone, Continue, Pause, SetBreakpoints,
     SetInstructionBreakpoints, Disconnect, stepperVars, isaVars
<1>2. adapter' = adapter \/ \E run \in {"Stopped", "Running", "Done"} :
                              adapter' = [adapter EXCEPT !.run = run]
  BY DEF Answered, ConfigurationDone, Continue, Pause, SetBreakpoints,
     SetInstructionBreakpoints, Disconnect
<1>3. QED
  BY <1>1, <1>2 DEF Records

LEMMA StepOnStarts ==
  ASSUME DapAssumption, StepOn, Records
  PROVE  /\ handler.cmd \in {"next", "stepIn"}
         /\ Starts(Call0(handler.cmd, handler.gran, handler.start), SliceMotion(handler.cmd))
<1>1. handler.cmd \in {"next", "stepIn"}
  BY DEF StepOn, SameLine
<1>2. handler.cmd \in {"tick"} \cup StepCommands
  BY <1>1 DEF StepCommands
<1>3. QED
  BY <1>1, <1>2, Call0Starts DEF StepOn

LEMMA TraceOnStarts ==
  ASSUME TraceOn, Records
  PROVE  Starts(Again, InMotion) /\ handler.cmd \in {"tick"} \cup StepCommands
<1> DEFINE H == [cmd |-> handler.cmd, gran |-> handler.gran, start |-> handler.start,
                 rule |-> handler.rule, depth |-> handler.depth, left |-> handler.left]
           on == [handler EXCEPT !.rule = IF @ = "first" THEN "depth" ELSE @,
                                 !.left = IF @ = NoBudget THEN @ ELSE @ - 1]
<1>1. handler = H
  BY DEF Records
<1>2. \A x, y : [handler EXCEPT !.rule = x, !.left = y]
                 = [cmd |-> handler.cmd, gran |-> handler.gran, start |-> handler.start,
                    rule |-> x, depth |-> handler.depth, left |-> y]
  <2> TAKE x, y
  <2> DEFINE K == [handler EXCEPT !.rule = x]
  <2>1. K = [cmd |-> handler.cmd, gran |-> handler.gran, start |-> handler.start,
             rule |-> x, depth |-> handler.depth, left |-> handler.left]
    BY <1>1
  <2>2. [handler EXCEPT !.rule = x, !.left = y] = [K EXCEPT !.left = y]
    OBVIOUS
  <2> HIDE DEF K
  <2>3. [K EXCEPT !.left = y]
          = [cmd |-> handler.cmd, gran |-> handler.gran, start |-> handler.start,
             rule |-> x, depth |-> handler.depth, left |-> y]
    BY <2>1
  <2>4. QED
    BY <2>2, <2>3
<1>3. on = Again
  BY <1>2, Zenon DEF Again
<1>4. InMotion.budget # 0 /\ InMotion # NoMotion
  BY DEF InMotion, Motion, NoMotion, NoBudget
<1>5. DriveOn(Again)
  BY <1>3 DEF TraceOn
<1>6. Starts(Again, InMotion)
  BY <1>4, <1>5 DEF DriveOn, Move, Starts, Answer
<1>7. QED
  BY <1>6 DEF TraceOn, Returned, Records

-----------------------------------------------------------------------------
(* Every part is kept by every step. *)

LEMMA RecordsStep ==
  ASSUME DapAssumption, DapInv, [DapNext]_dapVars
  PROVE  Records'
<1> USE DEF DapInv
<1>1. CASE Outside
  BY <1>1 DEF Outside, Records, stepperVars, isaVars, historyVars
<1>2. CASE Advance
  <2>1. late' \in Nat
    BY <1>2 DEF Advance, Records
  <2>2. QED
    BY <1>2, <2>1, AdvanceMoves DEF Records
<1>3. ASSUME NEW call, NEW m, Starts(call, m),
             call = [cmd |-> call.cmd, gran |-> call.gran, start |-> call.start,
                     rule |-> call.rule, depth |-> call.depth, left |-> call.left],
             call.left \in Int, call.cmd \in {"tick"} \cup StepCommands,
             inbox' \in Seq(Requests), UNCHANGED <<adapter, exits>>, late' \in Nat
      PROVE  Records'
  BY <1>3 DEF Starts, Records, isaVars
<1>4. ASSUME NEW cmd \in {"tick"} \cup StepCommands, NEW gran, NEW start,
             Starts(Call0(cmd, gran, start), SliceMotion(cmd)),
             inbox' \in Seq(Requests), UNCHANGED <<adapter, exits>>, late' \in Nat
      PROVE  Records'
  <2> DEFINE call == Call0(cmd, gran, start)
  <2>1. /\ call = [cmd |-> call.cmd, gran |-> call.gran, start |-> call.start,
                   rule |-> call.rule, depth |-> call.depth, left |-> call.left]
        /\ call.left \in Int /\ call.cmd = cmd
    BY DEF Call0, NoBudget, DapAssumption
  <2> HIDE DEF call
  <2>2. Starts(call, SliceMotion(cmd))
    BY <1>4 DEF call
  <2>3. QED
    BY <1>3, <1>4, <2>1, <2>2
<1>5. CASE Tick
  BY <1>4, <1>5, TickStarts DEF Tick, clientVars, Records
<1>6. CASE StepOn
  BY <1>4, <1>6, StepOnStarts DEF StepOn, clientVars, Records, StepCommands
<1>7. CASE TraceOn
  <2>1. /\ Again = [cmd |-> Again.cmd, gran |-> Again.gran, start |-> Again.start,
                    rule |-> Again.rule, depth |-> Again.depth, left |-> Again.left]
        /\ Again.left \in Int /\ Again.cmd = handler.cmd
    BY DEF Records, NoBudget, Again
  <2>2. QED
    BY <1>7, <1>3, <2>1, TraceOnStarts DEF TraceOn, clientVars, Records
<1>8. CASE Return
  <2>a. handler' = NoHandler /\ UNCHANGED <<inbox, calls, late, answer>>
    BY <1>8, ReturnTells DEF stepperVars, isaVars, clientVars
  <2>1. adapter' \in [launched : BOOLEAN, run : {"Stopped", "Running", "Done"},
                      entry : BOOLEAN, trace : BOOLEAN]
    BY <1>8, ReturnTells DEF Records
  <2>2. exits' \in Nat
    BY <1>8, ReturnTells DEF Records
  <2>3. QED
    BY <2>1, <2>2, <2>a DEF Records, NoHandler, NoBudget
<1>9. ASSUME inbox' \in Seq(Requests), late' = 0, Ignored
      PROVE  Records'
  BY <1>9 DEF Ignored, Records, stepperVars, isaVars
<1>10. ASSUME inbox' \in Seq(Requests), late' = 0, NEW r \in Requests, Launch(r)
       PROVE  Records'
  <2>1. r.entry \in BOOLEAN /\ r.trace \in BOOLEAN
    BY <1>10 DEF Launch, DapAssumption
  <2>2. calls' \in Seq({calls'[i] : i \in 1..Len(calls')})
    BY <1>10 DEF Launch
  <2>3. QED
    BY <1>10, <2>1, <2>2 DEF Launch, Records
<1>11. ASSUME inbox' \in Seq(Requests), late' = 0, NEW r \in Requests, exits' = exits,
              Answered(r)
       PROVE  Records'
  <2>1. /\ UNCHANGED <<calls, handler, answer>>
        /\ adapter' \in [launched : BOOLEAN, run : {"Stopped", "Running", "Done"},
                         entry : BOOLEAN, trace : BOOLEAN]
    BY <1>11, AnsweredKeeps
  <2>2. QED
    BY <1>11, <2>1 DEF Records
<1>12. ASSUME inbox' \in Seq(Requests), late' = 0, NEW r \in Requests, exits' = exits, BeginStep(r)
       PROVE  Records'
  BY <1>12, BeginStepStarts, <1>4 DEF BeginStep, Records
<1>13. QED
  BY <1>1, <1>2, <1>5, <1>6, <1>7, <1>8, <1>9, <1>10, <1>11, <1>12, Cases

LEMMA CallingStep ==
  ASSUME DapAssumption, DapInv, [DapNext]_dapVars
  PROVE  Calling'
<1> USE DEF DapInv
<1>1. CASE Outside \/ Ignored
  BY <1>1 DEF Outside, Ignored, Calling, Idle, stepperVars
<1>2. CASE Advance
  BY <1>2, AdvanceMoves DEF Calling, Records
<1>3. ASSUME NEW call, NEW m, Starts(call, m), call # NoHandler
      PROVE  Calling'
  BY <1>3 DEF Starts, Calling, Idle
<1>4. ASSUME NEW cmd \in {"tick"} \cup StepCommands, NEW gran, NEW start,
             Starts(Call0(cmd, gran, start), SliceMotion(cmd))
      PROVE  Calling'
  <2>1. Call0(cmd, gran, start) # NoHandler
    BY DEF Call0, NoHandler, StepCommands
  <2>2. QED
    BY <1>3, <1>4, <2>1
<1>5. CASE Tick
  BY <1>4, <1>5, TickStarts
<1>6. CASE StepOn
  BY <1>4, <1>6, StepOnStarts DEF StepCommands
<1>7. CASE TraceOn
  <2>1. Again # NoHandler
    BY <1>7, TraceOnStarts DEF Again, NoHandler, StepCommands
  <2>2. QED
    BY <1>3, <1>7, <2>1, TraceOnStarts
<1>8. CASE Return
  BY <1>8, ReturnTells DEF Calling
<1>9. ASSUME NEW r, Launch(r), InLoop PROVE Calling'
  BY <1>9 DEF Launch, InLoop, Calling, Idle
<1>10. ASSUME NEW r, Answered(r) PROVE Calling'
  BY <1>10, AnsweredKeeps DEF Calling, Idle
<1>11. ASSUME NEW r, BeginStep(r) PROVE Calling'
  BY <1>11, BeginStepStarts, <1>4
<1>12. QED
  BY <1>1, <1>2, <1>5, <1>6, <1>7, <1>8, <1>9, <1>10, <1>11, Cases

\* The image never changes, so the buckets stay those of its map.
LEMMA SameTracked ==
  ASSUME UNCHANGED <<image, bpVars, breakpoints>>
  PROVE  PlantedInv => PlantedInv'
BY DEF PlantedInv, Tracked, Buckets, InBuckets, bpVars

LEMMA PlantedStep ==
  ASSUME DapAssumption, DapInv, [DapNext]_dapVars
  PROVE  PlantedInv'
<1> USE DEF DapInv
<1>1. CASE Outside \/ Ignored
  BY <1>1, SameTracked DEF Outside, Ignored, stepperVars, isaVars
<1>2. CASE Advance
  BY <1>2, AdvanceMoves, SameTracked DEF Records, bpVars
<1>3. CASE Tick \/ TraceOn \/ StepOn
  BY <1>3, SameTracked DEF Tick, TraceOn, StepOn, Drive, DriveOn, isaVars
<1>4. CASE Return
  BY <1>4, SameTracked, ReturnTells DEF stepperVars, isaVars
<1>5. ASSUME NEW r, Launch(r) PROVE PlantedInv'
  <2>1. image' = image /\ breakpoints' = {} /\ insBps' = {} /\ fileBps' = [b \in Buckets |-> {}]
    BY <1>5 DEF Launch, Forget
  <2>2. Buckets' = Buckets
    BY <2>1 DEF Buckets
  <2>3. QED
    BY <2>1, <2>2 DEF PlantedInv, Tracked, InBuckets
<1>6. ASSUME NEW r, ConfigurationDone(r) \/ Continue(r) \/ Pause(r) \/ Disconnect(r) \/ BeginStep(r)
      PROVE  PlantedInv'
  BY <1>6, SameTracked DEF ConfigurationDone, Continue, Pause, Disconnect, BeginStep, Drive,
     stepperVars, isaVars
<1>7. ASSUME NEW r, SetBreakpoints(r) PROVE PlantedInv'
  <2> DEFINE filter  == Filter(r.file)
             cleared == [fileBps EXCEPT ![filter] = {}]
             kept    == Kept(fileBps[filter], insBps \cup InBuckets(cleared))
             found   == {AddressForLine(image.map, line,
                            IF filter = Global THEN NoFile ELSE filter) : line \in r.lines}
                        \ {NoAddr}
  <2>1. /\ UNCHANGED <<image, insBps>>
        /\ IF filter = "foreign" THEN UNCHANGED <<breakpoints, fileBps>>
           ELSE /\ breakpoints' = kept \cup found
                /\ fileBps' = [cleared EXCEPT ![filter] = found]
    BY <1>7 DEF SetBreakpoints, isaVars
  <2>2. filter \in Buckets \/ filter = "foreign"
    BY DEF Filter, Buckets
  <2> HIDE DEF filter, found
  <2>3. CASE filter = "foreign"
    BY <2>1, <2>3, SameTracked DEF bpVars
  <2>4. CASE filter # "foreign"
    <3>1. /\ DOMAIN fileBps' = Buckets /\ fileBps'[filter] = found
          /\ \A b \in Buckets \ {filter} : fileBps'[b] = fileBps[b]
      BY <2>1, <2>2, <2>4 DEF PlantedInv
    <3>2. /\ DOMAIN cleared = Buckets /\ cleared[filter] = {}
          /\ \A b \in Buckets \ {filter} : cleared[b] = fileBps[b]
      BY <2>2, <2>4 DEF PlantedInv
    <3> HIDE DEF cleared
    <3>3. \A x : x \in InBuckets(cleared) <=> \E b \in Buckets \ {filter} : x \in fileBps[b]
      BY <3>2 DEF InBuckets
    <3>4. \A x : x \in InBuckets(fileBps') <=> x \in found \/ x \in InBuckets(cleared)
      BY <3>1, <3>3, <2>2, <2>4 DEF InBuckets
    <3>5. \A x : x \in InBuckets(fileBps) <=> x \in fileBps[filter] \/ x \in InBuckets(cleared)
      BY <3>3, <2>2, <2>4 DEF InBuckets, PlantedInv
    <3>6. breakpoints' = insBps' \cup InBuckets(fileBps')
      BY <2>1, <2>4, <3>4, <3>5 DEF PlantedInv, Tracked, Kept
    <3>7. Buckets' = Buckets
      BY <2>1 DEF Buckets
    <3>8. QED
      BY <3>1, <3>6, <3>7 DEF PlantedInv, Tracked, InBuckets
  <2>5. QED
    BY <2>3, <2>4
<1>8. ASSUME NEW r, SetInstructionBreakpoints(r) PROVE PlantedInv'
  <2>1. /\ UNCHANGED <<image, fileBps>> /\ insBps' = r.addrs
        /\ breakpoints' = (breakpoints \ (insBps \ InBuckets(fileBps))) \cup r.addrs
    BY <1>8 DEF SetInstructionBreakpoints, isaVars, Kept
  <2>2. breakpoints' = r.addrs \cup InBuckets(fileBps)
    BY <2>1 DEF PlantedInv, Tracked
  <2>3. QED
    BY <2>1, <2>2 DEF PlantedInv, Tracked, Buckets, InBuckets
<1>9. QED
  BY <1>1, <1>2, <1>3, <1>4, <1>5, <1>6, <1>7, <1>8, Cases DEF Answered

LEMMA EndStep ==
  ASSUME DapAssumption, DapInv, [DapNext]_dapVars
  PROVE  EndInv'
<1> USE DEF DapInv
<1>1. CASE Outside \/ Ignored
  BY <1>1 DEF Outside, Ignored, EndInv, historyVars
<1>2. CASE Advance
  BY <1>2, AdvanceMoves DEF EndInv, Records
<1>3. CASE Tick
  BY <1>3 DEF Tick, EndInv, InLoop
<1>4. CASE StepOn \/ TraceOn
  BY <1>4 DEF StepOn, TraceOn, EndInv, Returned
<1>5. CASE Return
  <2>1. exits = 0
    BY <1>5 DEF Return, Returned, EndInv
  <2>2. adapter'.run = RunAfter /\ handler' = NoHandler
    BY <1>5, ReturnTells DEF Records
  <2>3. QED
    BY <1>5, <2>1, <2>2, ReturnTells DEF EndInv
<1>6. ASSUME NEW r, Launch(r), InLoop PROVE EndInv'
  BY <1>6 DEF Launch, EndInv, InLoop
<1>7. ASSUME NEW r, Answered(r), Accepted(r), exits' = exits, InLoop PROVE EndInv'
  <2>1. handler' = NoHandler
    BY <1>7, AnsweredKeeps DEF InLoop
  <2>2. exits = 1 => adapter'.run = "Done"
    BY <1>7 DEF EndInv, Answered, Accepted, ConfigurationDone, Continue, Pause, SetBreakpoints,
       SetInstructionBreakpoints, Disconnect, Records
  <2>3. QED
    BY <1>7, <2>1, <2>2 DEF EndInv
<1>8. ASSUME NEW r, BeginStep(r), Accepted(r) PROVE EndInv'
  <2>1. adapter' = adapter /\ exits' = exits /\ adapter.run = "Stopped"
    BY <1>8 DEF BeginStep, Accepted, StepCommands
  <2>2. QED
    BY <2>1 DEF EndInv
<1>9. QED
  BY <1>1, <1>2, <1>3, <1>4, <1>5, <1>6, <1>7, <1>8, Cases DEF Launch

LEMMA TraceStep ==
  ASSUME DapAssumption, DapInv, [DapNext]_dapVars
  PROVE  TraceInv'
<1> USE DEF DapInv
<1>1. CASE Outside \/ Ignored
  BY <1>1 DEF Outside, Ignored, TraceInv, TraceLine, Idle, stepperVars, historyVars
<1>2. CASE Advance
  <2>1. adapter' = adapter /\ ~Idle /\ untold = TraceLine /\ untold' = untold - TraceLine
    BY <1>2, AdvanceMoves DEF Advance, TraceInv, Records
  <2>2. untold' = 0
    BY <2>1 DEF TraceLine
  <2>3. CASE adapter.trace
    <3>1. motion = InMotion
      BY <2>1, <2>3 DEF TraceInv
    <3>2. Idle' /\ answer' # "Manual"
      BY <1>2, <3>1 DEF Advance, Retire, Finishes, Stops, Halts, Traps, Retired, Answer, Idle,
         InMotion, Motion
    <3>3. QED
      BY <2>2, <3>2 DEF TraceInv
  <2>4. CASE ~adapter.trace
    BY <2>1, <2>2, <2>4 DEF TraceInv, TraceLine
  <2>5. QED
    BY <2>3, <2>4
<1>3. ASSUME NEW call, NEW m, Starts(call, m), adapter.trace => m = InMotion,
             UNCHANGED adapter
      PROVE  TraceInv'
  <2>1. untold = 0 /\ untold' = TraceLine
    BY <1>3 DEF Starts, TraceInv, TraceLine
  <2>2. CASE ended # "no"
    BY <1>3, <2>1, <2>2 DEF Starts, TraceInv, TraceLine, Idle
  <2>3. CASE ended = "no"
    <3>1. ~Idle' /\ TraceLine' = TraceLine /\ motion' = m
      BY <1>3, <2>3 DEF Starts, TraceLine, Idle
    <3>2. QED
      BY <1>3, <2>1, <3>1 DEF TraceInv
  <2>4. QED
    BY <2>2, <2>3
<1>4. ASSUME NEW cmd PROVE adapter.trace => SliceMotion(cmd) = InMotion
  BY DEF SliceMotion
<1>5. CASE Tick
  BY <1>3, <1>4, <1>5, TickStarts DEF Tick
<1>6. CASE StepOn
  BY <1>3, <1>4, <1>6, StepOnStarts DEF StepOn
<1>7. CASE TraceOn
  BY <1>3, <1>7, TraceOnStarts DEF TraceOn
<1>8. CASE Return
  BY <1>8, ReturnTells DEF TraceInv
<1>9. ASSUME NEW r, Launch(r), InLoop PROVE TraceInv'
  BY <1>9 DEF Launch, InLoop, TraceInv, Idle
<1>10. ASSUME NEW r, Answered(r), InLoop PROVE TraceInv'
  BY <1>10, AnsweredKeeps DEF InLoop, TraceInv, TraceLine, Idle
<1>11. ASSUME NEW r, BeginStep(r) PROVE TraceInv'
  BY <1>3, <1>4, <1>11, BeginStepStarts DEF BeginStep
<1>12. QED
  BY <1>1, <1>2, <1>5, <1>6, <1>7, <1>8, <1>9, <1>10, <1>11, Cases

\* A slice counts down while a request waits, by the motion when untraced.
LEMMA SliceStep ==
  ASSUME DapAssumption, DapInv, [DapNext]_dapVars
  PROVE  SliceInv'
<1> USE DEF DapInv
<1> USE DapAssumption DEF DapAssumption
<1>0. late \in Nat /\ handler.left \in Int
  BY DEF Records
<1>1. CASE Outside
  BY <1>1 DEF Outside, SliceInv, Idle, stepperVars, historyVars
<1>2. CASE Advance /\ handler.cmd # "tick"
  <2>1. handler' = handler /\ late' = late /\ inbox' = inbox
    BY <1>2 DEF Advance, clientVars
  <2>2. QED
    BY <1>2, <2>1 DEF SliceInv
<1>3. CASE Advance /\ handler.cmd = "tick" /\ adapter.trace
  <2>1. UNCHANGED <<handler, adapter, inbox>> /\ ~Idle /\ motion = InMotion
    BY <1>3, AdvanceMoves DEF Records, TraceInv
  <2>2. Idle'
    BY <1>3, <2>1, AdvanceMoves DEF Records, InMotion, Motion
  <2>3. late' = IF inbox # <<>> /\ late <= Slice THEN late + 1 ELSE late
    BY <1>3 DEF Advance
  <2>4. handler.rule = "run" /\ handler.left \in 1..Slice /\ late + handler.left <= Slice
    BY <1>3, <2>1 DEF SliceInv
  <2>5. late' <= Slice /\ late' + handler.left <= Slice + 1 /\ (inbox' = <<>> => late' = 0)
    BY <1>0, <2>1, <2>3, <2>4 DEF SliceInv
  <2>6. QED
    BY <1>3, <2>1, <2>2, <2>4, <2>5 DEF SliceInv
<1>4. CASE Advance /\ handler.cmd = "tick" /\ ~adapter.trace
  <2>1. UNCHANGED <<handler, adapter, inbox>> /\ ~Idle
    BY <1>4, AdvanceMoves DEF Records
  <2>2. PICK b \in 1..Slice : motion = RunMotion(b) /\ late + b <= Slice
    BY <1>4, <2>1 DEF SliceInv
  <2>3. late' = IF inbox # <<>> /\ late <= Slice THEN late + 1 ELSE late
    BY <1>4 DEF Advance
  <2>4. late' <= Slice /\ late' + (b - 1) <= Slice /\ (inbox' = <<>> => late' = 0)
    BY <1>0, <2>1, <2>2, <2>3 DEF SliceInv
  <2>5. Idle' \/ (b # 1 /\ motion' = RunMotion(b - 1))
    <3>1. Idle' \/ RunOn
      BY <1>4, <2>2 DEF Advance, Retire, Finishes, Stops, Halts, Traps, Retired, Answer, Idle,
         RunMotion, Motion
    <3>2. CASE RunOn
      BY <2>2, <3>2 DEF RunOn, RunMotion, Motion, NoDepth, NoBudget, Answer, Idle
    <3>3. QED
      BY <3>1, <3>2
  <2>6. CASE Idle'
    BY <1>4, <2>1, <2>4, <2>6 DEF SliceInv
  <2>7. CASE ~Idle'
    <3>1. b - 1 \in 1..Slice /\ motion' = RunMotion(b - 1)
      BY <2>5, <2>7
    <3>2. QED
      BY <1>4, <2>1, <2>4, <3>1 DEF SliceInv, RunMotion
  <2>8. QED
    BY <2>6, <2>7
<1>5. CASE Tick
  <2> DEFINE call == Call0("tick", "none", <<>>)
  <2>1. late = 0 /\ late' = 0 /\ UNCHANGED <<inbox, adapter>> /\ handler' = call
    BY <1>5, TickStarts DEF Tick, SliceInv, clientVars, Starts
  <2>2. ~adapter.trace => (Idle' \/ motion' = RunMotion(Slice))
    BY <1>5, TickStarts DEF Starts, SliceMotion, Idle
  <2>3. adapter.trace => call.rule = "run" /\ call.left = Slice
    BY DEF Call0, Rule
  <2> HIDE DEF call
  <2>4. QED
    BY <2>1, <2>2, <2>3 DEF SliceInv, RunMotion
<1>6. CASE StepOn
  <2>1. handler'.cmd # "tick" /\ late' = late /\ inbox' = inbox
    BY <1>6, StepOnStarts DEF Starts, Call0, StepOn, clientVars
  <2>2. QED
    BY <2>1 DEF SliceInv
<1>7. CASE TraceOn
  <2>1. handler' = Again /\ UNCHANGED <<late, inbox, adapter>> /\ Idle /\ adapter.trace
    BY <1>7, TraceOnStarts DEF Starts, TraceOn, clientVars, Report, Records
  <2>2. CASE handler.cmd = "tick"
    <3>1. handler.rule = "run" /\ handler.left \in 1..Slice /\ late + handler.left <= Slice + 1
      BY <2>1, <2>2 DEF SliceInv
    <3>2. handler.left # 1
      BY <1>7, <2>1, <3>1 DEF TraceOn, Report, Traced, Records
    <3>3. Again.rule = "run" /\ Again.left = handler.left - 1 /\ Again.cmd = "tick"
      BY <2>2, <3>1 DEF Again, NoBudget
    <3>4. Again.left \in 1..Slice /\ late + Again.left <= Slice
      BY <1>0, <3>1, <3>2, <3>3
    <3>5. QED
      BY <1>0, <2>1, <3>3, <3>4 DEF SliceInv
  <2>3. CASE handler.cmd # "tick"
    <3>1. handler'.cmd # "tick"
      BY <2>1, <2>3 DEF Again
    <3>2. QED
      BY <2>1, <3>1 DEF SliceInv
  <2>4. QED
    BY <2>2, <2>3
<1>8. CASE Return
  BY <1>8, ReturnTells DEF SliceInv, clientVars, NoHandler
<1>9. ASSUME late' = 0, InLoop,
             Ignored \/ \E r \in Requests : Launch(r) \/ Answered(r)
      PROVE  SliceInv'
  <2>1. handler' = NoHandler
    BY <1>9, AnsweredKeeps DEF InLoop, Ignored, Launch
  <2>2. QED
    BY <1>9, <2>1 DEF SliceInv, NoHandler
<1>10. ASSUME NEW r, BeginStep(r), late' = 0 PROVE SliceInv'
  <2>1. handler'.cmd # "tick"
    BY <1>10, BeginStepStarts DEF Starts, Call0, StepCommands
  <2>2. QED
    BY <1>10, <2>1 DEF SliceInv
<1>11. QED
  BY <1>1, <1>2, <1>3, <1>4, <1>5, <1>6, <1>7, <1>8, <1>9, <1>10, Cases

LEMMA OverStep ==
  ASSUME DapAssumption, DapInv, [DapNext]_dapVars
  PROVE  OverInv'
<1> USE DEF DapInv
<1>0. Len(calls) \in Nat
  BY DEF Records
<1>1. CASE Outside \/ (Ignored /\ InLoop)
  BY <1>1 DEF Outside, Ignored, OverInv, Idle, stepperVars, isaVars
<1>2. CASE Advance
  <2>1. UNCHANGED <<handler, adapter>> /\ ~Idle
    BY <1>2, AdvanceMoves DEF Records
  <2>2. CASE handler.cmd = "next" /\ adapter.trace
    <3>1. motion = InMotion
      BY <2>1, <2>2 DEF TraceInv
    <3>2. Idle' /\ answer' \notin {"New", "Manual"}
      BY <1>2, <3>1 DEF Advance, Retire, Finishes, Stops, Halts, Traps, Retired, Answer, Idle,
         InMotion, Motion
    <3>3. QED
      BY <2>1, <2>2, <3>2 DEF OverInv
  <2>3. CASE handler.cmd = "next" /\ ~adapter.trace
    <3>1. PICK kind \in {"Over", "Until"} : motion = Motion(kind, handler.depth, NoBudget)
      BY <2>1, <2>3 DEF OverInv
    <3>2. handler.depth \in Nat
      BY <2>3 DEF OverInv
    <3>3. motion.until = handler.depth /\ motion.budget = NoBudget /\ motion.kind = kind
      BY <3>1 DEF Motion
    <3>4. Len(calls') \in Nat
      BY <1>2, AdvanceMoves DEF Records
    <3>5. \/ Idle' /\ answer' \notin {"New", "Manual"} /\ (answer' = "Step" => Len(calls') <= handler.depth)
          \/ ~Idle' /\ motion' \in {motion, [motion EXCEPT !.kind = "Until"]}
      <4>1. CASE Finishes
        BY <4>1 DEF Finishes, Stops, Halts, Traps, Answer, Idle
      <4>2. CASE Retire /\ Does("Brk")
        BY <4>2 DEF Retire, Retired, Answer, Idle
      <4>3. CASE Retire /\ ~Does("Brk") /\ kind = "Until"
        <5>1. RunOn
          BY <4>3, <3>3 DEF Retire, Retired
        <5>2. QED
          BY <5>1, <2>1, <3>2, <3>3 DEF RunOn, Answer, Idle, NoDepth, NoBudget
      <4>4. CASE Retire /\ ~Does("Brk") /\ kind = "Over"
        <5>1. IF Len(calls') > handler.depth
              THEN motion' = [motion EXCEPT !.kind = "Until"] ELSE Answer("Step")
          BY <4>4, <3>3 DEF Retire, Retired
        <5>2. [motion EXCEPT !.kind = "Until"] = Motion("Until", handler.depth, NoBudget)
          BY <3>1 DEF Motion
        <5>3. Motion("Until", handler.depth, NoBudget) # NoMotion
          BY DEF Motion, NoMotion
        <5>4. QED
          BY <5>1, <5>2, <5>3, <3>2, <3>4 DEF Answer, Idle
      <4>5. QED
        BY <1>2, <4>1, <4>2, <4>3, <4>4 DEF Advance
    <3>6. [motion EXCEPT !.kind = "Until"] = Motion("Until", handler.depth, NoBudget)
      BY <3>1 DEF Motion
    <3>7. QED
      BY <2>1, <2>3, <3>1, <3>2, <3>5, <3>6 DEF OverInv
  <2>4. CASE handler.cmd # "next"
    BY <2>1, <2>4 DEF OverInv
  <2>5. QED
    BY <2>2, <2>3, <2>4
<1>3. ASSUME NEW cmd \in {"tick"} \cup StepCommands, NEW gran, NEW start,
             Starts(Call0(cmd, gran, start), SliceMotion(cmd)), UNCHANGED adapter
      PROVE  OverInv'
  <2> DEFINE call == Call0(cmd, gran, start)
  <2>1. handler' = call /\ UNCHANGED calls /\ call.cmd = cmd
    BY <1>3 DEF Starts, Call0, isaVars
  <2>2. CASE cmd = "next"
    <3>1. call.depth = Len(calls) /\ (adapter.trace => call.rule = "first")
      BY <2>2 DEF Call0, Rule
    <3>2. ~adapter.trace => SliceMotion(cmd) = Motion("Over", Len(calls), NoBudget)
      BY <2>2 DEF SliceMotion, OverMotion
    <3>3. \/ Idle' /\ answer' = "Finished"
          \/ ~Idle' /\ motion' = SliceMotion(cmd)
      BY <1>3 DEF Starts, Idle
    <3> HIDE DEF call
    <3>4. QED
      BY <1>0, <1>3, <2>1, <3>1, <3>2, <3>3 DEF OverInv
  <2>3. CASE cmd # "next"
    BY <2>1, <2>3 DEF OverInv
  <2>4. QED
    BY <2>2, <2>3
<1>4. CASE Tick
  BY <1>3, <1>4, TickStarts DEF Tick
<1>5. CASE StepOn
  BY <1>3, <1>5, StepOnStarts DEF StepOn, StepCommands
<1>6. CASE TraceOn
  <2>1. handler' = Again /\ adapter' = adapter /\ adapter.trace
    BY <1>6, TraceOnStarts DEF TraceOn, Starts, Report, Records
  <2>2. Idle' => answer' = "Finished"
    BY <1>6, TraceOnStarts DEF Starts, Idle
  <2>3. Again.cmd = handler.cmd /\ Again.depth = handler.depth
        /\ (handler.rule \in {"first", "depth"} => Again.rule = "depth")
    BY DEF Again
  <2>4. QED
    BY <2>1, <2>2, <2>3 DEF OverInv
<1>7. CASE Return
  BY <1>7, ReturnTells DEF OverInv, NoHandler
<1>8. ASSUME NEW r, Launch(r) \/ Answered(r), InLoop PROVE OverInv'
  <2>1. handler' = NoHandler
    BY <1>8, AnsweredKeeps DEF InLoop, Launch
  <2>2. QED
    BY <2>1 DEF OverInv, NoHandler
<1>9. ASSUME NEW r, BeginStep(r) PROVE OverInv'
  BY <1>3, <1>9, BeginStepStarts DEF BeginStep
<1>10. QED
  BY <1>1, <1>2, <1>4, <1>5, <1>6, <1>7, <1>8, <1>9, Cases

LEMMA ArmedStep ==
  ASSUME DapAssumption, DapInv, [DapNext]_dapVars
  PROVE  ArmedInv'
<1> USE DEF DapInv
<1>1. CASE Outside \/ (Ignored /\ InLoop)
  BY <1>1 DEF Outside, Ignored, ArmedInv, Idle, stepperVars, isaVars, historyVars
<1>2. CASE Advance
  <2>1. UNCHANGED <<handler, adapter, breakpoints>> /\ ~Idle /\ handler # NoHandler
    BY <1>2, AdvanceMoves DEF Records, Calling
  <2>2. armed' = (at' \in breakpoints)
    BY <1>2, <2>1 DEF Advance
  <2>3. handler.cmd = "tick" => Idle' \/ ~armed'
    <3>1. CASE handler.cmd = "tick" /\ ~adapter.trace
      <4>1. PICK b \in 1..Slice : motion = RunMotion(b)
        BY <2>1, <3>1 DEF SliceInv
      <4>2. Idle' \/ RunOn
        BY <1>2, <4>1 DEF Advance, Retire, Finishes, Stops, Halts, Traps, Retired, Answer, Idle,
           RunMotion, Motion
      <4>3. RunOn => Idle' \/ at' \notin breakpoints
        BY DEF RunOn, Answer, Idle
      <4>4. QED
        BY <2>2, <4>2, <4>3
    <3>2. CASE adapter.trace
      <4>1. motion = InMotion
        BY <2>1, <3>2 DEF TraceInv
      <4>2. Idle'
        BY <1>2, <4>1, AdvanceMoves DEF Records, InMotion, Motion
      <4>3. QED
        BY <4>2
    <3>3. QED
      BY <3>1, <3>2
  <2>4. QED
    BY <2>1, <2>2, <2>3 DEF ArmedInv
<1>3. ASSUME NEW call, NEW m, Starts(call, m), call.cmd \in StepCommands,
             armed' \in {armed, FALSE}
      PROVE  ArmedInv'
  <2>1. armed' => at' \in breakpoints'
    BY <1>3 DEF Starts, ArmedInv, isaVars
  <2>2. handler'.cmd # "tick" /\ handler' # NoHandler
    BY <1>3 DEF Starts, StepCommands, NoHandler
  <2>3. QED
    BY <2>1, <2>2 DEF ArmedInv
<1>4. ASSUME NEW cmd \in StepCommands, NEW gran, NEW start,
             Starts(Call0(cmd, gran, start), SliceMotion(cmd)), armed' \in {armed, FALSE}
      PROVE  ArmedInv'
  <2>1. Call0(cmd, gran, start).cmd = cmd
    BY DEF Call0
  <2>2. QED
    BY <1>3, <1>4, <2>1
\* A traced run is resumed by the client, or its last slice stopped short of
\* what is planted.
<1>5. CASE Tick
  <2>1. /\ armed' = armed /\ UNCHANGED <<at, breakpoints, adapter>>
        /\ handler'.cmd = "tick" /\ handler' # NoHandler
    BY <1>5, TickStarts DEF Tick, Starts, Call0, isaVars, NoHandler
  <2>2. adapter.trace => ~armed
    BY <1>5 DEF Tick, InLoop, ArmedInv
  <2>3. ~adapter.trace => Idle' \/ motion' = RunMotion(Slice)
    BY <1>5, TickStarts DEF Starts, SliceMotion, Idle
  <2>4. QED
    BY <2>1, <2>2, <2>3 DEF ArmedInv, RunMotion, Motion
<1>6. CASE StepOn
  BY <1>4, <1>6, StepOnStarts DEF StepOn, StepCommands
<1>7. CASE TraceOn
  <2>1. Starts(Again, InMotion) /\ Again.cmd = handler.cmd
    BY <1>7, TraceOnStarts DEF Again
  <2>2. UNCHANGED <<at, breakpoints, adapter, armed>> /\ handler' = Again
    BY <1>7, <2>1 DEF Starts, TraceOn, isaVars
  <2>3. CASE handler.cmd \in StepCommands
    BY <1>3, <2>1, <2>2, <2>3
  <2>4. CASE handler.cmd = "tick"
    <3>1. adapter.trace /\ handler.rule = "run"
      BY <1>7, <2>4 DEF TraceOn, Report, Records, SliceInv
    <3>2. at \notin breakpoints
      BY <1>7, <3>1 DEF TraceOn, Report, Traced, Records, PlantedInv
    <3>3. ~armed'
      BY <2>2, <3>2 DEF ArmedInv
    <3>4. QED
      BY <3>3 DEF ArmedInv
  <2>5. QED
    BY <1>7, <2>3, <2>4, TraceOnStarts
<1>8. CASE Return
  <2>1. /\ UNCHANGED <<at, breakpoints, armed>> /\ Idle' /\ handler' = NoHandler
        /\ adapter' = [adapter EXCEPT !.run = RunAfter]
    BY <1>8, ReturnTells DEF stepperVars, isaVars
  <2>2. adapter'.run = RunAfter /\ adapter'.trace = adapter.trace
    BY <2>1 DEF Records
  <2>3. RunAfter = "Running" => handler.cmd = "tick" /\ Report = "Manual"
    BY DEF RunAfter
  <2>4. RunAfter = "Running" /\ adapter.trace => at \notin breakpoints
    <3> SUFFICES ASSUME RunAfter = "Running", adapter.trace PROVE at \notin breakpoints
      OBVIOUS
    <3>1. handler.rule = "run"
      BY <2>3 DEF SliceInv
    <3>2. answer = "Step" => at \notin breakpoints
      BY <2>3, <3>1 DEF Report, Traced, PlantedInv
    <3>3. answer # "Manual"
      BY <1>8 DEF Return, Returned, TraceInv
    <3>4. QED
      BY <2>3, <3>2, <3>3 DEF Report
  <2>5. QED
    BY <2>1, <2>2, <2>4 DEF ArmedInv
<1>9. ASSUME NEW r, Launch(r) PROVE ArmedInv'
  BY <1>9 DEF Launch, ArmedInv, NoHandler
<1>10. ASSUME NEW r, Answered(r), InLoop PROVE ArmedInv'
  <2>1. /\ UNCHANGED at /\ handler' = NoHandler /\ Idle'
        /\ adapter'.trace = adapter.trace
    BY <1>10, AnsweredKeeps DEF InLoop, Idle
  <2>2. armed' => armed /\ at \in breakpoints'
    BY <1>10 DEF Answered, ConfigurationDone, Continue, Pause, SetBreakpoints,
       SetInstructionBreakpoints, Disconnect, ArmedInv, stepperVars
  <2>3. adapter'.run = "Running" => adapter.run = "Running" \/ ~armed'
    <3>1. CASE Continue(r)
      BY <3>1 DEF Continue
    <3>2. CASE ConfigurationDone(r)
      BY <3>2 DEF ConfigurationDone
    <3>3. CASE ~Continue(r) /\ ~ConfigurationDone(r)
      BY <1>10, <3>3 DEF Answered, Pause, SetBreakpoints, SetInstructionBreakpoints, Disconnect,
         Records
    <3>4. QED
      BY <3>1, <3>2, <3>3
  <2>4. QED
    BY <1>10, <2>1, <2>2, <2>3 DEF ArmedInv, InLoop, NoHandler
<1>11. ASSUME NEW r, BeginStep(r) PROVE ArmedInv'
  BY <1>4, <1>11, BeginStepStarts DEF BeginStep
<1>12. QED
  BY <1>1, <1>2, <1>5, <1>6, <1>7, <1>8, <1>9, <1>10, <1>11, Cases

-----------------------------------------------------------------------------
(* Theorems. *)

LEMMA DapInvInit == ASSUME DapInit PROVE DapInv
<1> USE DEF DapInit, StepperInit, IsaInit
<1>1. Records
  BY DEF Records, NoHandler, NoBudget
<1>2. Calling /\ TraceInv /\ OverInv
  BY DEF Calling, TraceInv, OverInv, Idle, NoHandler
<1>3. PlantedInv
  BY DEF PlantedInv, Tracked, InBuckets
<1>4. EndInv /\ ArmedInv
  BY DEF EndInv, ArmedInv
<1>5. SliceInv
  BY DapAssumption DEF SliceInv, NoHandler, DapAssumption
<1>6. QED
  BY <1>1, <1>2, <1>3, <1>4, <1>5 DEF DapInv

\* The inductive invariant of the server loop and its adapter.
THEOREM DapInvariant == DapSpec => []DapInv
<1>1. ASSUME DapInv, [DapNext]_dapVars PROVE DapInv'
  BY <1>1, DapAssumption, RecordsStep, CallingStep, PlantedStep, EndStep, TraceStep, SliceStep,
     OverStep, ArmedStep DEF DapInv
<1>2. QED
  BY <1>1, DapInvInit, PTL DEF DapSpec

\* After any sequence of replacements and launches the session's one set of
\* addresses is what the buckets and the instruction breakpoints hold
\* (handle_set_breakpoints, handle_set_instruction_breakpoints).
THEOREM AlwaysPlantedIsTracked == DapSpec => []PlantedIsTracked
<1>1. DapInv => PlantedIsTracked
  BY DEF DapInv, PlantedInv, PlantedIsTracked
<1>2. QED
  BY <1>1, DapInvariant, PTL

\* No client makes a launch report its exit twice (finish_run, is_done guards).
THEOREM AlwaysEndsOnce == DapSpec => []EndsOnce
<1>1. DapInv => EndsOnce
  BY DEF DapInv, EndInv, EndsOnce
<1>2. QED
  BY <1>1, DapInvariant, PTL

\* Between two motions no trace line is missing or one too many.
THEOREM AlwaysTraceParity == DapSpec => []TraceParity
<1>1. DapInv => TraceParity
  BY DEF DapInv, TraceInv, TraceParity
<1>2. QED
  BY <1>1, DapInvariant, PTL

\* A waiting request costs the program at most Slice instructions, traced or not.
THEOREM AlwaysNoticedWithinASlice == DapSpec => []NoticedWithinASlice
<1>1. DapInv => NoticedWithinASlice
  BY DEF DapInv, SliceInv, NoticedWithinASlice
<1>2. QED
  BY <1>1, DapInvariant, PTL

\* A completed step over is not inside the call it steps over.
THEOREM AlwaysOverStaysOut == DapSpec => OverStaysOut
<1> DEFINE Stays == Return /\ handler.cmd = "next" /\ Reason = "step" /\ Report # "Finished"
                      => Len(calls) <= handler.depth
<1>1. ASSUME DapInv, [DapNext]_dapVars PROVE [Stays]_dapVars
  <2> SUFFICES ASSUME Return, handler.cmd = "next", Reason = "step", Report # "Finished"
               PROVE  Len(calls) <= handler.depth
    OBVIOUS
  <2> USE <1>1 DEF DapInv
  <2>1. Idle /\ Report # "again"
    BY DEF Return, Returned
  <2>2. Report \notin {"Breakpoint", "Brk", "Trap", "Finished", "again"}
    BY <2>1 DEF Reason
  <2>3. answer \notin {"New", "Manual"}
    BY <2>1 DEF OverInv
  <2>4. answer = "Step"
    BY <2>2, <2>3 DEF Report, Records
  <2>5. CASE adapter.trace
    <3>1. handler.rule \in {"first", "depth"}
      BY <2>5 DEF OverInv
    <3>2. Traced # "again" /\ Traced # "Breakpoint"
      BY <2>2, <2>4, <2>5 DEF Report
    <3>3. CASE handler.rule = "first"
      <4>1. ~(Len(calls) > handler.depth)
        BY <3>2, <3>3 DEF Traced
      <4>2. QED
        BY <4>1 DEF Records, OverInv
    <3>4. CASE handler.rule = "depth"
      BY <3>2, <3>4 DEF Traced
    <3>5. QED
      BY <3>1, <3>3, <3>4
  <2>6. CASE ~adapter.trace
    BY <2>1, <2>4, <2>6 DEF OverInv
  <2>7. QED
    BY <2>5, <2>6
<1>2. QED
  BY <1>1, DapInvariant, PTL DEF DapSpec, OverStaysOut

\* A slice runs an instruction at a planted address only as its first one.
THEOREM AlwaysPlantedStopsSlices == DapSpec => PlantedStopsSlices
<1> DEFINE Stops1 == Advance /\ handler.cmd = "tick" /\ armed =>
                       ~adapter.trace /\ motion.budget = Slice
<1>1. ASSUME DapInv, [DapNext]_dapVars PROVE [Stops1]_dapVars
  BY <1>1 DEF DapInv, ArmedInv, Advance
<1>2. QED
  BY <1>1, DapInvariant, PTL DEF DapSpec, PlantedStopsSlices
=============================================================================
