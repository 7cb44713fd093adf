------------------------------ MODULE AsyncSession ------------------------------
(*****************************************************************************)
(* The pumped execution session of crates/core/src/vm/session.rs over        *)
(* asynchronous tape devices (vm/devices/async_device.rs, latency_tape.rs).  *)
(* The embedder owns the loop: it calls pump(budget), and between calls it   *)
(* may request a pause, move breakpoints or stop the session.  A device that *)
(* is not READY suspends the session until a later pump.                     *)
(*****************************************************************************)
EXTENDS Core, Tape

CONSTANTS
  Limits, Capacity, Devices, InitTapes, Cost,   \* as in Driver
  MaxPolls,      \* a device holds READY low for 0..MaxPolls polls
  Reported,      \* costs a device may report, NoCost for the model price
  Budgets,       \* budgets the embedder may pass, NoBudget for none
  BreakAddrs     \* addresses the embedder may put breakpoints on

NoLimit  == -1
NoCost   == -1
NoBudget == -1

ASSUME SessionAssumption ==
  /\ Capacity \in Nat /\ Devices \in Nat /\ MaxPolls \in Nat
  /\ InitTapes \subseteq Tapes
  /\ Cost \in [{"move", "read", "write", "table", "frame"} -> Nat]
  /\ Reported \subseteq Nat \cup {NoCost}
  /\ Budgets \subseteq Nat \cup {NoBudget}

VARIABLES
  limits, stack, stats,   \* as in the synchronous driver
  tapes,           \* what the devices did so far
  inFlight,        \* per device: the command on the bus and the polls left
  breakpoints,     \* breakpoint addresses
  latchMark,       \* latch_initial_mark: the loading read is still to do
  pauseRequested,  \* pause() was called and is not honoured yet
  waiting,         \* what the session waits for: None, Latch or Exec
  finished,        \* the terminal result
  remaining,       \* budget left in this pump
  report,          \* the PumpEvent of the last pump, Pumping during one
  retired,         \* history: instructions retired in this pump
  budget,          \* history: the budget this pump was given
  seenBreaks,      \* history: the breakpoints at the last boundary
  announced,       \* history: the pump that reached it returned with a pause
  mark             \* history: control state at the last boundary

busVars    == <<limits, stack, stats, tapes, inFlight>>
ctlVars    == <<breakpoints, latchMark, pauseRequested, waiting, finished>>
pumpVars   == <<remaining, report>>
histVars   == <<retired, budget, seenBreaks, announced, mark>>
vars == <<coreVars, busVars, ctlVars, pumpVars, histVars>>

Idle       == [cmd |-> "none", index |-> 0, left |-> 0]
Pumping    == report = "Pumping"
Stopped    == report = "Stopped"
Unfinished == [outcome |-> "Running"]
Live       == finished = Unfinished

Total(s)     == s.core + s.stall
OverTacts(s) == limits.tacts # NoLimit /\ Total(s) >= limits.tacts
OverSteps(s) == limits.steps # NoLimit /\ s.steps >= limits.steps

CoreTact     == [stats EXCEPT !.core = @ + 1]
StallTact(n) == [stats EXCEPT !.stall = @ + n]

Init ==
  /\ CoreInit
  /\ limits \in Limits
  /\ stack = <<>>
  /\ stats = [steps |-> 0, core |-> 0, stall |-> 0]
  /\ tapes \in [0..Devices-1 -> InitTapes]
  /\ inFlight = [d \in 0..Devices-1 |-> Idle]
  /\ breakpoints = {} /\ latchMark = image.preload
  /\ pauseRequested = FALSE /\ waiting = "None"
  /\ finished = Unfinished
  /\ remaining = NoBudget /\ report = "New"
  /\ retired = 0 /\ budget = NoBudget
  /\ seenBreaks = {} /\ announced = FALSE
  /\ mark = [ip |-> image.entry, fr |-> 0, calls |-> <<>>]

-----------------------------------------------------------------------------
(* What the embedder does between pumps (every method takes the session      *)
(* exclusively, so none of them runs during a pump).                         *)

Between == ~Pumping /\ ~Stopped

Pause ==
  /\ Between /\ ~pauseRequested
  /\ pauseRequested' = TRUE
  /\ UNCHANGED <<coreVars, busVars, pumpVars, histVars,
                 breakpoints, latchMark, waiting, finished>>

MoveBreakpoint ==
  /\ Between
  /\ \E a \in BreakAddrs :
       breakpoints' = IF a \in breakpoints THEN breakpoints \ {a}
                                           ELSE breakpoints \cup {a}
  /\ UNCHANGED <<coreVars, busVars, pumpVars, histVars,
                 latchMark, pauseRequested, waiting, finished>>

\* stop() consumes the session.
Stop ==
  /\ Between
  /\ report' = "Stopped"
  /\ UNCHANGED <<coreVars, busVars, ctlVars, remaining, histVars>>

\* The head of pump(): a finished session replays its result and a zero
\* budget is spent before anything else is looked at.
PumpUnguarded(b) ==                                                \* mutant
  /\ Between
  /\ budget' = b /\ retired' = 0 /\ remaining' = b
  /\ report' = IF Live THEN "Pumping" ELSE "Finished"
  /\ UNCHANGED <<coreVars, busVars, ctlVars, seenBreaks, announced, mark>>
Pump(b) ==
  /\ Between
  /\ budget' = b /\ retired' = 0 /\ remaining' = b
  /\ report' = IF ~Live THEN "Finished" ELSE IF b = 0 THEN "BudgetSpent" ELSE "Pumping"
  /\ UNCHANGED <<coreVars, busVars, ctlVars, seenBreaks, announced, mark>>

Return(what) == report' = what /\ UNCHANGED remaining

Finish(outcome, at) ==
  /\ finished' = [outcome |-> outcome, at |-> at, ip |-> instrStart,
                  stack |-> stack', stats |-> stats']
  /\ Return("Finished")

-----------------------------------------------------------------------------
(* Devices.  issue() puts a command on the bus, poll() samples READY.  The   *)
(* command is executed on the tape by the poll that answers READY.           *)

Command(dev, name, index, polls) ==
  inFlight' = [inFlight EXCEPT ![dev] = [cmd |-> name, index |-> index, left |-> polls]]

StillPendingStuck(dev) ==                                          \* mutant
  inFlight[dev].left > 0 /\ UNCHANGED <<inFlight, tapes>>

\* READY is low: one poll of the wait is used up.
StillPending(dev) ==
  /\ inFlight[dev].left > 0
  /\ inFlight' = [inFlight EXCEPT ![dev].left = @ - 1]
  /\ UNCHANGED tapes

TapeAfter(t, cmd, index) ==
  CASE cmd = "DeviceMoveLeft"  -> TapeLeft(t)
    [] cmd = "DeviceMoveRight" -> TapeRight(t)
    [] cmd = "DeviceRead"      -> t
    [] cmd = "DeviceWrite"     -> TapeWrite(t, index)

ReplyTo(t, cmd, index) ==
  CASE cmd \in {"DeviceMoveLeft", "DeviceMoveRight"} -> Response("Ok", 0)
    [] cmd = "DeviceRead"  -> Response("Symbol", TapeRead(t))
    [] cmd = "DeviceWrite" ->
         IF WriteFault(t, index) = "none" THEN Response("Ok", 0)
         ELSE Response("Fault", WriteFault(t, index))

ModelCost(cmd) ==
  Cost[CASE cmd \in {"DeviceMoveLeft", "DeviceMoveRight"} -> "move"
         [] cmd = "DeviceRead"  -> "read"
         [] cmd = "DeviceWrite" -> "write"]

\* A price the device reports replaces the model price.
PriceReported(cmd, cost) == IF cost = NoCost THEN 0 ELSE cost      \* mutant
Price(cmd, cost)         == IF cost = NoCost THEN ModelCost(cmd) ELSE cost

-----------------------------------------------------------------------------
(* The loading read of device 0 (pump_latch).                                *)

\* Without any device to latch from the mark counts as unmarked.
LatchIssue ==
  /\ Pumping /\ latchMark /\ waiting = "None" /\ event.type = "Boundary"
  /\ IF Devices = 0
     THEN latchMark' = FALSE /\ UNCHANGED <<inFlight, waiting>>
     ELSE /\ \E polls \in 0..MaxPolls : Command(0, "DeviceRead", 0, polls)
          /\ waiting' = "Latch" /\ UNCHANGED latchMark
  /\ UNCHANGED <<coreVars, limits, stack, stats, tapes, breakpoints,
                 pauseRequested, finished, pumpVars, histVars>>

LatchPending ==
  /\ Pumping /\ waiting = "Latch"
  /\ StillPending(0)
  /\ Return("DeviceWait")
  /\ UNCHANGED <<coreVars, limits, stack, stats, ctlVars, histVars>>

\* Loading is not priced.
LatchReady ==
  /\ Pumping /\ waiting = "Latch" /\ inFlight[0].left = 0
  /\ inFlight' = [inFlight EXCEPT ![0] = Idle]
  /\ mr' = IF TapeRead(tapes[0]) = 1 THEN 1 ELSE 0
  /\ latchMark' = FALSE /\ waiting' = "None"
  /\ UNCHANGED <<image, ip, instrStart, tr, trLen, ctl, frames, ports, limits,
                 stack, stats, tapes, breakpoints, pauseRequested, finished,
                 pumpVars, histVars>>

-----------------------------------------------------------------------------
(* The serving loop of pump().                                               *)

Begin ==
  /\ Pumping /\ ~latchMark /\ waiting = "None"
  /\ Start
  /\ UNCHANGED <<busVars, ctlVars, pumpVars, histVars>>

Asked(kinds) ==
  Pumping /\ event.type = "Request" /\ event.kind \in kinds /\ resp = NoResp

\* The response goes to the core unless the last tact is spent.
Deliver(r) ==
  /\ IF OverTacts(stats')
     THEN Finish("TactLimit", 0) /\ resp' = NoResp
     ELSE resp' = r /\ UNCHANGED <<finished, pumpVars>>
  /\ UNCHANGED <<image, regs, frames, ctl, event, limits,
                 breakpoints, latchMark, pauseRequested, histVars>>

\* Requests that no device is needed for.
Local(granted, cost, stackAfter, reply, refusal) ==
  /\ stack' = IF granted THEN stackAfter ELSE stack
  /\ stats' = IF granted THEN cost ELSE stats
  /\ Deliver(IF granted THEN reply ELSE refusal)
  /\ UNCHANGED <<tapes, inFlight, waiting>>

ServeCode ==
  /\ Asked({"CodeRead"})
  /\ Local(event.val \in DOMAIN image.code, CoreTact, stack,
           Response("Byte", image.code[event.val]), Response("OutOfCode", 0))

ServePush ==
  /\ Asked({"StackPush"})
  /\ Local(Len(stack) < Capacity, CoreTact, PushOn(stack, event.val),
           Response("Ok", 0), Response("StackFull", 0))

ServePop ==
  /\ Asked({"StackPop"})
  /\ Local(stack # <<>>, CoreTact, PopOff(stack),
           Response("Value", TopOf(stack)), Response("StackEmpty", 0))

ServeTable ==
  /\ Asked({"TableRead"})
  /\ Local(event.val \in DOMAIN image.rom, StallTact(Cost["table"]), stack,
           Response("Byte", image.rom[event.val]), Response("OutOfTable", 0))

ServeFrame ==
  /\ Asked({"FrameRead"})
  /\ Local(event.val \in DOMAIN image.rom, StallTact(Cost["frame"]), stack,
           Response("Byte", image.rom[event.val]), Response("OutOfTable", 0))

DeviceKinds == {"DeviceMoveLeft", "DeviceMoveRight", "DeviceRead", "DeviceWrite"}

ServeNoDevice ==
  /\ Asked(DeviceKinds) /\ event.dev >= Devices
  /\ UNCHANGED <<stack, stats, tapes, inFlight, waiting>>
  /\ Deliver(Response("Fault", "NoSuchDevice"))

OnBus == event.dev \in DOMAIN inFlight /\ inFlight[event.dev] # Idle

DeviceReissue ==                                                   \* mutant
  /\ Asked(DeviceKinds) /\ event.dev < Devices
  /\ \E polls \in 0..MaxPolls : Command(event.dev, event.kind, event.val, polls)
  /\ UNCHANGED <<coreVars, limits, stack, stats, tapes, ctlVars, pumpVars, histVars>>

\* poll_device with nothing issued yet: the command goes on the bus.
DeviceIssue ==
  /\ Asked(DeviceKinds) /\ event.dev < Devices /\ waiting = "None" /\ ~OnBus
  /\ \E polls \in 0..MaxPolls : Command(event.dev, event.kind, event.val, polls)
  /\ UNCHANGED <<coreVars, limits, stack, stats, tapes, ctlVars, pumpVars, histVars>>

\* READY is low: the pump returns and the request stays unanswered.
DevicePending ==
  /\ Asked(DeviceKinds) /\ OnBus
  /\ StillPending(event.dev)
  /\ waiting' = "Exec"
  /\ Return("DeviceWait")
  /\ UNCHANGED <<coreVars, limits, stack, stats, breakpoints, latchMark,
                 pauseRequested, finished, histVars>>

\* The device is free again and the session no longer waits.
ReleasedLate(dev) == inFlight' = [inFlight EXCEPT ![dev] = Idle]   \* mutant
                     /\ UNCHANGED waiting
Released(dev) == inFlight' = [inFlight EXCEPT ![dev] = Idle] /\ waiting' = "None"

\* READY is high: the transaction is priced, unless it faulted, and answered.
DeviceReady ==
  /\ Asked(DeviceKinds) /\ OnBus /\ inFlight[event.dev].left = 0
  /\ LET dev == event.dev
         cmd == inFlight[dev].cmd
         index == inFlight[dev].index
         reply == ReplyTo(tapes[dev], cmd, index)
     IN /\ tapes' = [tapes EXCEPT ![dev] = TapeAfter(@, cmd, index)]
        /\ Released(dev)
        /\ UNCHANGED stack
        /\ \E cost \in Reported :
             stats' = IF reply.kind = "Fault" THEN stats
                      ELSE StallTact(Price(cmd, cost))
        /\ Deliver(reply)

Serve ==
  \/ ServeCode \/ ServePush \/ ServePop \/ ServeTable \/ ServeFrame
  \/ ServeNoDevice \/ DeviceIssue \/ DevicePending \/ DeviceReady

Resume == /\ CoreStep
          /\ UNCHANGED <<busVars, ctlVars, pumpVars, histVars>>

Records ==
  [i \in 1..Len(stack) |->
     [ret |-> stack[i], frame |-> IF FramesOn THEN frStack[i] ELSE 0]]

Paused(cause) == Return(cause) /\ UNCHANGED pauseRequested
Spend ==
  /\ remaining' = IF remaining = NoBudget THEN NoBudget ELSE remaining - 1
  /\ report' = IF remaining' = 0 THEN "BudgetSpent" ELSE "Pumping"
  /\ UNCHANGED pauseRequested

AtBoundaryBudgetFirst ==                                           \* mutant
  IF event.type = "Break" THEN Paused("Brk")
  ELSE IF pauseRequested THEN Return("Manual") /\ pauseRequested' = FALSE
  ELSE IF remaining = 1 \/ ip \notin breakpoints THEN Spend
  ELSE Paused("Breakpoint")
AtBoundaryPauseAtBreak ==                                          \* mutant
  IF event.type = "Break" THEN Return("Brk") /\ pauseRequested' = FALSE
  ELSE IF ip \in breakpoints THEN Paused("Breakpoint") ELSE Spend

\* Why the pump returns at a boundary: a break before a pause request before a
\* breakpoint before the budget.
AtBoundary ==
  IF event.type = "Break" THEN Paused("Brk")
  ELSE IF pauseRequested THEN Return("Manual") /\ pauseRequested' = FALSE
  ELSE IF ip \in breakpoints THEN Paused("Breakpoint")
  ELSE Spend

Account ==
  /\ Pumping /\ Live /\ event.type \in {"Step", "Break"}
  /\ stats' = [CoreTact EXCEPT !.steps = @ + 1]
  /\ UNCHANGED stack
  /\ mark' = [ip |-> ip, fr |-> fr, calls |-> Records]
  /\ retired' = retired + 1
  /\ seenBreaks' = breakpoints
  /\ IF OverSteps(stats')
     THEN Finish("StepLimit", 0) /\ UNCHANGED <<event, pauseRequested>>
     ELSE IF OverTacts(stats')
     THEN Finish("TactLimit", 0) /\ UNCHANGED <<event, pauseRequested>>
     ELSE event' = Signal("Boundary") /\ AtBoundary /\ UNCHANGED finished
  /\ announced' = (report' \in {"Brk", "Manual", "Breakpoint"})
  /\ UNCHANGED <<image, regs, frames, ctl, resp, limits, tapes, inFlight,
                 breakpoints, latchMark, waiting, budget>>

End ==
  /\ Pumping /\ Live /\ event.type \in {"Stopped", "Halted", "Trapped"}
  /\ UNCHANGED <<stack, stats>>
  /\ IF event.type = "Trapped"
     THEN Finish(event.kind, event.val) ELSE Finish(event.type, 0)
  /\ UNCHANGED <<coreVars, limits, tapes, inFlight, breakpoints, latchMark,
                 pauseRequested, waiting, histVars>>

PumpStep == \/ LatchIssue \/ LatchPending \/ LatchReady
            \/ Begin \/ Serve \/ Resume \/ Account \/ End

Embedder == \/ Pause \/ MoveBreakpoint \/ Stop
            \/ \E b \in Budgets : Pump(b)

Next == PumpStep \/ Embedder

Spec == Init /\ [][Next]_vars

\* A pump runs to its return, and the embedder that did not stop the session
\* keeps pumping with a budget.
Fairness == WF_vars(PumpStep) /\ WF_vars(\E b \in Budgets \ {0} : Pump(b))
FairSpec == Spec /\ Fairness

-----------------------------------------------------------------------------
(* Properties. *)

\* One command in flight per device, and only for the request the session is
\* suspended on: a device is on the bus exactly while the loading read or the
\* unanswered request of the core is being served, with that command, and a
\* suspended session always has something on the bus to wait for.
BusQuiet ==
  /\ \A d \in 0..Devices-1 :
       inFlight[d] # Idle =>
         \/ waiting = "Latch" /\ d = 0 /\ event.type = "Boundary"
         \/ /\ event.type = "Request" /\ event.dev = d
            /\ inFlight[d].cmd = event.kind /\ inFlight[d].index = event.val
  /\ waiting = "Latch" => inFlight[0] # Idle
  /\ waiting = "Exec"  => event.kind \in DeviceKinds /\ inFlight[event.dev] # Idle

\* A command on the bus is neither replaced nor repeated before it is answered,
\* however many pumps that takes (AsyncTapeDevice: "`issue' while a command is
\* pending is a caller bug").
IssuedOnce ==
  [][\A d \in 0..Devices-1 :
       inFlight[d] # Idle /\ inFlight'[d] # Idle =>
         inFlight'[d] \in {inFlight[d], [inFlight[d] EXCEPT !.left = @ - 1]}]_vars

\* A pump never retires more instructions than its budget, and reports the
\* budget spent exactly when it retired that many (docs/core.md: Some(0)
\* "reports BudgetSpent without retiring anything", even when the call would
\* resume a transaction that has just turned READY).
BudgetExact ==
  /\ budget # NoBudget => retired <= budget
  /\ report = "BudgetSpent" => retired = budget

\* An instruction whose address was a breakpoint when the session reached it
\* starts only after a pump has returned with a pause there: neither a spent
\* budget nor a suspension in between makes the session run past it.
BreakpointsStop ==
  [][event.type = "Boundary" /\ event'.type = "Request" /\ ip \in seenBreaks
       => announced]_vars

\* The pumped run is the synchronous run, tact for tact: whatever the device
\* latencies, the budgets, the pauses and the breakpoints, every step is a
\* step of Driver or invisible to it (docs/core.md, AsyncSession).
Sync == INSTANCE Driver WITH loaded <- ~latchMark, result <- finished
RefinesRun == Sync!Spec

\* A pause request is answered at the first boundary and is not lost: no pump
\* retires a second instruction while one is outstanding, and it is cleared only
\* by the pump that reports it, not by a break, a breakpoint, a spent budget or a
\* suspension before that.
PauseAnswered ==
  [][pauseRequested => /\ Pumping => retired = 0
                       /\ ~pauseRequested' => report' = "Manual"]_vars

\* A limited program ends however slow the devices are and however little
\* budget a pump is given, once the embedder keeps pumping.
Limited == limits.steps # NoLimit \/ limits.tacts # NoLimit
PumpedRunEnds == Limited ~> ~Live \/ Stopped

=============================================================================
