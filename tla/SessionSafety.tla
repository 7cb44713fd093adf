------------------------------ MODULE SessionSafety ---------------------------
(*****************************************************************************)
(* Safety of the pumped session, for every image, device latency, budget,    *)
(* breakpoint and pause: a command is issued once and waited for, a budget   *)
(* is spent exactly, a pause and a breakpoint are answered at a boundary;    *)
(* and the session implements the synchronous run.                           *)
(*****************************************************************************)
EXTENDS AsyncSession, TLAPS

-----------------------------------------------------------------------------
(* What the core promises its session. *)

\* A response waits only for the request it answers.
RespInv == resp # NoResp => event.type = "Request"

\* The core is silent while its request is unanswered and at a boundary.
Silent == resp = NoResp /\ event # Busy

LEMMA CoreSpeaks ==
  ASSUME RespInv, CoreStep
  PROVE  /\ RespInv'
         /\ ~Silent
         /\ event.type \in {"Request", "Busy"} /\ event'.type # "Boundary"
<1>1. CASE FetchOpcode \/ FetchOperand
  BY <1>1 DEF RespInv, FetchOpcode, FetchOperand, FinishFetch, Ask, Trap, Silent, NoResp,
     Response, Request, Trapped, Busy, Signal
<1>2. CASE Settle
  <2>1. resp # NoResp
    BY <1>2 DEF Settle, SettleDone, SettleFault, SettleLatch, SettleRead,
       SettleEntCheck, SettlePush, SettleStackFull, SettlePushFrame, SettleCompose,
       SettleDirectory, SettleFrameLoad, SettleOutOfTable, SettlePop, SettlePopPair,
       SettleStackEmpty, SettleMatch, SettleDispatch, Delivered, NoResp, Response
  <2>2. /\ resp' = NoResp
        /\ event' = Busy \/ event'.type \in {"Request", "Trapped"}
    BY <1>2 DEF Settle, SettleDone, SettleFault, SettleLatch, SettleRead,
       SettleEntCheck, SettlePush, SettleStackFull, SettlePushFrame, SettleCompose,
       SettleDirectory, SettleFrameLoad, SettleOutOfTable, SettlePop, SettlePopPair,
       SettleStackEmpty, SettleMatch, SettleDispatch, Settled, Ask, Trap, Request, Trapped
  <2>3. QED
    BY <2>1, <2>2 DEF RespInv, Silent, Busy, Signal
<1>3. CASE IssueOp \/ Retire
  <2>1. event = Busy
    BY <1>3 DEF IssueOp, Retire, IssueNop, IssueBrk, IssueEnd, IssueRaise, IssueMove,
       IssueWrite, IssueLatch, IssueRead, IssueReadAll, IssueJump, IssueFallThrough,
       IssueCall, IssueRet, IssueRetX, IssueProfileViolation, IssueMatch,
       IssueDispatch, Due
  <2>2. /\ resp' \in {resp, NoResp}
        /\ event' = Busy
             \/ event'.type \in {"Request", "Trapped", "Stopped", "Halted", "Step", "Break"}
    BY <1>3, <2>1 DEF IssueOp, Retire, IssueNop, IssueBrk, IssueEnd, IssueRaise, IssueMove,
       IssueWrite, IssueLatch, IssueRead, IssueReadAll, IssueJump, IssueFallThrough,
       IssueCall, IssueRet, IssueRetX, IssueProfileViolation, IssueMatch,
       IssueDispatch, Issue, IssueTrap, Continue, Ask, Trap, Request, Trapped, Signal
  <2>3. QED
    BY <2>1, <2>2 DEF RespInv, Silent, Busy, Signal
<1>4. QED
  BY <1>1, <1>2, <1>3 DEF CoreStep

-----------------------------------------------------------------------------
(* The inductive invariant. *)

FlightRecords ==
  inFlight = [d \in 0..Devices-1 |->
                [cmd |-> inFlight[d].cmd, index |-> inFlight[d].index, left |-> inFlight[d].left]]

\* A command on the bus is the loading read, or the request nobody answered yet.
BusInv ==
  /\ \A d \in 0..Devices-1 :
       inFlight[d] # Idle =>
         /\ inFlight[d].cmd \in DeviceKinds
         /\ \/ waiting = "Latch" /\ d = 0
            \/ /\ event.type = "Request" /\ resp = NoResp /\ event.dev = d
               /\ inFlight[d].cmd = event.kind /\ inFlight[d].index = event.val
  /\ waiting \in {"None", "Latch", "Exec"}
  /\ waiting = "Latch" =>
       event.type = "Boundary" /\ 0 \in DOMAIN inFlight /\ inFlight[0] # Idle
  /\ waiting = "Exec" =>
       /\ event.type = "Request" /\ resp = NoResp /\ event.kind \in DeviceKinds
       /\ event.dev \in DOMAIN inFlight /\ inFlight[event.dev] # Idle

\* What a pump has retired and what it may still retire are its budget.
BudgetInv ==
  /\ budget \in Nat \cup {NoBudget} /\ retired \in Nat
  /\ report = "BudgetSpent" => retired = budget
  /\ budget # NoBudget => retired <= budget
  /\ Pumping => IF budget = NoBudget THEN remaining = NoBudget
                ELSE remaining \in Nat \ {0} /\ retired + remaining = budget

\* A request made between two pumps meets a pump that has retired nothing.
PauseInv == pauseRequested \in BOOLEAN /\ (pauseRequested /\ Pumping => retired = 0)

\* At a boundary the last pump told about a breakpoint it had come to.
BreakInv == event.type = "Boundary" /\ ip \in seenBreaks => announced

SessionInv == RespInv /\ FlightRecords /\ BusInv /\ BudgetInv /\ PauseInv /\ BreakInv

-----------------------------------------------------------------------------
(* Every part is kept by every step. *)

LEMMA RespStep ==
  ASSUME SessionInv, [Next]_vars
  PROVE  RespInv'
<1> USE DEF SessionInv
<1>1. CASE Resume
  BY <1>1, CoreSpeaks DEF Resume
<1>2. CASE Serve
  BY <1>2 DEF Serve, ServeCode, ServePush, ServePop, ServeTable, ServeFrame, ServeNoDevice,
     DeviceIssue, DevicePending, DeviceReady, Local, Deliver, Asked, RespInv, coreVars, ports,
     Finish, Return
<1>3. CASE Begin
  BY <1>3 DEF Begin, Start, RespInv, Request
<1>4. CASE Account
  BY <1>4 DEF Account, RespInv, Finish, Return
<1>5. CASE LatchIssue \/ LatchPending \/ LatchReady \/ End \/ Embedder \/ UNCHANGED vars
  BY <1>5 DEF LatchIssue, LatchPending, LatchReady, End, Embedder, Pause, MoveBreakpoint, Stop,
     Pump, vars, coreVars, ports, RespInv
<1>6. QED
  BY <1>1, <1>2, <1>3, <1>4, <1>5 DEF Next, PumpStep

\* Budgets: only Pump sets one, only Account spends it.
LEMMA BudgetStep ==
  ASSUME SessionAssumption, SessionInv, [Next]_vars
  PROVE  BudgetInv'
<1> USE DEF SessionInv
<1>1. CASE Resume \/ Begin
  BY <1>1 DEF Resume, Begin, BudgetInv, pumpVars, histVars, Pumping
<1>2. CASE Serve
  <2>1. UNCHANGED <<budget, retired, remaining>> /\ report' \in {report, "Finished", "DeviceWait"}
        /\ Pumping
    BY <1>2 DEF Serve, ServeCode, ServePush, ServePop, ServeTable, ServeFrame, ServeNoDevice,
       DeviceIssue, DevicePending, DeviceReady, Local, Deliver, Asked, pumpVars, histVars,
       Finish, Return
  <2>2. QED
    BY <2>1 DEF BudgetInv, Pumping
<1>3. CASE LatchIssue \/ LatchPending \/ LatchReady \/ End
  <2>1. UNCHANGED <<budget, retired, remaining>> /\ report' \in {report, "Finished", "DeviceWait"}
        /\ Pumping
    BY <1>3 DEF LatchIssue, LatchPending, LatchReady, End, pumpVars, histVars, Finish, Return
  <2>2. QED
    BY <2>1 DEF BudgetInv, Pumping
<1>4. CASE Account
  <2>1. Pumping /\ budget' = budget /\ retired' = retired + 1
    BY <1>4 DEF Account
  <2>2. \/ remaining' = remaining /\ report' \in {"Finished", "Brk", "Manual", "Breakpoint"}
        \/ Spend
    BY <1>4 DEF Account, Finish, Return, AtBoundary, Paused
  <2>3. QED
    BY <2>1, <2>2 DEF BudgetInv, Pumping, Spend, NoBudget
<1>5. CASE Pause \/ MoveBreakpoint \/ Stop \/ UNCHANGED vars
  BY <1>5 DEF Pause, MoveBreakpoint, Stop, vars, pumpVars, histVars, BudgetInv, Pumping
<1>6. ASSUME NEW b \in Budgets, Pump(b) PROVE BudgetInv'
  BY <1>6 DEF Pump, BudgetInv, Pumping, NoBudget, SessionAssumption
<1>7. QED
  BY <1>1, <1>2, <1>3, <1>4, <1>5, <1>6 DEF Next, PumpStep, Embedder

LEMMA PauseStep ==
  ASSUME SessionInv, [Next]_vars
  PROVE  PauseInv'
<1> USE DEF SessionInv
<1>1. CASE Resume \/ Begin \/ Serve \/ LatchIssue \/ LatchPending \/ LatchReady \/ End
  <2>1. UNCHANGED <<pauseRequested, retired>> /\ (Pumping' => Pumping)
    BY <1>1 DEF Resume, Begin, Serve, ServeCode, ServePush, ServePop, ServeTable, ServeFrame,
       ServeNoDevice, DeviceIssue, DevicePending, DeviceReady, Local, Deliver, Asked,
       LatchIssue, LatchPending, LatchReady, End, ctlVars, pumpVars, histVars, Pumping
  <2>2. QED
    BY <2>1 DEF PauseInv
<1>2. CASE Account
  <2>1. pauseRequested' => report' \in {"Finished", "Brk"} \/ ~pauseRequested
    BY <1>2 DEF Account, Finish, Return, AtBoundary, Paused, Spend
  <2>2. pauseRequested' = pauseRequested \/ pauseRequested' = FALSE
    BY <1>2 DEF Account, Finish, Return, AtBoundary, Paused, Spend
  <2>3. pauseRequested' \in BOOLEAN
    BY <2>2 DEF PauseInv
  <2>4. ~(pauseRequested' /\ Pumping')
    BY <2>1, <2>2 DEF Pumping
  <2>5. QED
    BY <2>3, <2>4, Zenon DEF PauseInv
<1>3. CASE Pause
  BY <1>3 DEF Pause, Between, PauseInv, Pumping, pumpVars
<1>4. CASE MoveBreakpoint \/ Stop \/ UNCHANGED vars
  BY <1>4 DEF MoveBreakpoint, Stop, Between, PauseInv, Pumping, vars, pumpVars, histVars, ctlVars
<1>5. ASSUME NEW b \in Budgets, Pump(b) PROVE PauseInv'
  BY <1>5 DEF Pump, PauseInv, Pumping, ctlVars
<1>6. QED
  BY <1>1, <1>2, <1>3, <1>4, <1>5 DEF Next, PumpStep, Embedder

LEMMA BreakStep ==
  ASSUME SessionInv, [Next]_vars
  PROVE  BreakInv'
<1> USE DEF SessionInv
<1>1. CASE Resume
  BY <1>1, CoreSpeaks DEF Resume, BreakInv
<1>2. CASE Begin
  BY <1>2 DEF Begin, Start, BreakInv, Request
<1>3. CASE Serve \/ LatchIssue \/ LatchPending \/ LatchReady \/ End
  BY <1>3 DEF Serve, ServeCode, ServePush, ServePop, ServeTable, ServeFrame,
     ServeNoDevice, DeviceIssue, DevicePending, DeviceReady, Local, Deliver, Asked,
     LatchIssue, LatchPending, LatchReady, End, ctlVars, histVars, coreVars, ports, regs, BreakInv
<1>4. CASE Account
  <2>1. UNCHANGED ip /\ seenBreaks' = breakpoints
    BY <1>4 DEF Account, regs
  <2>2. announced' = (report' \in {"Brk", "Manual", "Breakpoint"})
    BY <1>4 DEF Account
  <2>3. event'.type = "Boundary" => AtBoundary
    BY <1>4 DEF Account, Finish
  <2>4. AtBoundary /\ ip \in breakpoints => report' \in {"Brk", "Manual", "Breakpoint"}
    BY DEF AtBoundary, Paused, Return
  <2>5. QED
    BY <2>1, <2>2, <2>3, <2>4 DEF BreakInv
<1>5. CASE Embedder \/ UNCHANGED vars
  BY <1>5 DEF Embedder, Pause, MoveBreakpoint, Stop, Pump, BreakInv, vars, coreVars, ports, regs,
     histVars
<1>6. QED
  BY <1>1, <1>2, <1>3, <1>4, <1>5 DEF Next, PumpStep

\* What a device's wire carries after it was written.
LEMMA Carried ==
  ASSUME FlightRecords, NEW dev \in 0..Devices-1, NEW f,
         f = [cmd |-> f.cmd, index |-> f.index, left |-> f.left],
         inFlight' = [inFlight EXCEPT ![dev] = f]
  PROVE  FlightRecords' /\ inFlight'[dev] = f /\ DOMAIN inFlight' = 0..Devices-1
         /\ \A d \in (0..Devices-1) \ {dev} : inFlight'[d] = inFlight[d]
BY DEF FlightRecords

LEMMA PollUsed ==
  ASSUME FlightRecords, NEW dev \in 0..Devices-1,
         inFlight' = [inFlight EXCEPT ![dev].left = @ - 1]
  PROVE  /\ FlightRecords' /\ DOMAIN inFlight' = 0..Devices-1
         /\ inFlight'[dev] = [inFlight[dev] EXCEPT !.left = @ - 1]
         /\ inFlight'[dev].cmd = inFlight[dev].cmd /\ inFlight'[dev].index = inFlight[dev].index
         /\ \A d \in (0..Devices-1) \ {dev} : inFlight'[d] = inFlight[d]
<1> DEFINE f == inFlight[dev]
           g == [f EXCEPT !.left = f.left - 1]
<1>1. f = [cmd |-> f.cmd, index |-> f.index, left |-> f.left]
  BY DEF FlightRecords
<1>2. inFlight' = [inFlight EXCEPT ![dev] = g]
  OBVIOUS
<1> HIDE DEF f
<1>3. g = [cmd |-> f.cmd, index |-> f.index, left |-> f.left - 1]
  BY <1>1
<1> HIDE DEF g
<1>4. g = [cmd |-> g.cmd, index |-> g.index, left |-> g.left] /\ g.cmd = f.cmd /\ g.index = f.index
  BY <1>3
<1>5. FlightRecords' /\ inFlight'[dev] = g /\ DOMAIN inFlight' = 0..Devices-1
      /\ \A d \in (0..Devices-1) \ {dev} : inFlight'[d] = inFlight[d]
  BY <1>2, <1>4, Carried
<1>6. QED
  BY <1>4, <1>5 DEF f, g

LEMMA BusStep ==
  ASSUME SessionAssumption, SessionInv, [Next]_vars
  PROVE  FlightRecords' /\ BusInv'
<1> USE DEF SessionInv
<1>0. DOMAIN inFlight = 0..Devices-1
  BY DEF FlightRecords
<1> DEFINE Still == UNCHANGED <<inFlight, waiting, event, resp>>
           Clear == waiting = "None" /\ \A d \in 0..Devices-1 : inFlight[d] = Idle
<1>a. Still => FlightRecords' /\ BusInv'
  BY DEF FlightRecords, BusInv
<1>b. UNCHANGED <<inFlight, waiting>> /\ Clear => FlightRecords' /\ BusInv'
  BY DEF FlightRecords, BusInv
\* Nothing is on the bus unless a request is unanswered or the latch is read.
<1>c. event.type \notin {"Request", "Boundary"} \/ resp # NoResp => Clear
  BY DEF BusInv, RespInv
<1>d. event.type = "Boundary" /\ waiting = "None" => Clear
  BY DEF BusInv
<1>e. event.type = "Request" /\ (event.kind \notin DeviceKinds \/ event.dev \notin 0..Devices-1)
        => Clear
  BY <1>0 DEF BusInv
<1>f. event.type = "Request" =>
        waiting # "Latch" /\ \A d \in (0..Devices-1) \ {event.dev} : inFlight[d] = Idle
  BY DEF BusInv
<1>g. ASSUME NEW dev \in 0..Devices-1, \A d \in (0..Devices-1) \ {dev} : inFlight[d] = Idle,
             inFlight' = [inFlight EXCEPT ![dev] = Idle], waiting' = "None"
      PROVE  FlightRecords' /\ BusInv'
  <2>1. Idle = [cmd |-> Idle.cmd, index |-> Idle.index, left |-> Idle.left]
    BY DEF Idle
  <2>2. FlightRecords' /\ \A d \in 0..Devices-1 : inFlight'[d] = Idle
    BY <1>g, <2>1, Carried
  <2>3. QED
    BY <1>g, <2>2 DEF BusInv
<1>1. CASE Resume
  BY <1>1, <1>b, <1>c, CoreSpeaks DEF Resume, busVars, ctlVars, Silent, Busy, Signal
<1>2. CASE Begin
  BY <1>2, <1>b, <1>d DEF Begin, Start, busVars, ctlVars
<1>3. CASE ServeCode \/ ServePush \/ ServePop \/ ServeTable \/ ServeFrame
  <2>1. event.type = "Request" /\ event.kind \notin DeviceKinds /\ UNCHANGED <<inFlight, waiting>>
    BY <1>3 DEF ServeCode, ServePush, ServePop, ServeTable, ServeFrame, Local, Asked, DeviceKinds
  <2>2. QED
    BY <2>1, <1>b, <1>e
<1>4. CASE ServeNoDevice
  <2>1. /\ event.type = "Request" /\ event.dev \notin 0..Devices-1
        /\ UNCHANGED <<inFlight, waiting>>
    BY <1>4 DEF ServeNoDevice, Asked, SessionAssumption
  <2>2. QED
    BY <2>1, <1>b, <1>e
<1>5. CASE DeviceIssue
  <2>1. /\ event.type = "Request" /\ event.kind \in DeviceKinds /\ resp = NoResp
        /\ waiting = "None" /\ UNCHANGED <<waiting, event, resp>>
    BY <1>5 DEF DeviceIssue, Asked, ctlVars, coreVars, ports
  <2>2. PICK polls \in 0..MaxPolls : Command(event.dev, event.kind, event.val, polls)
    BY <1>5 DEF DeviceIssue
  <2>3. CASE event.dev \in 0..Devices-1
    <3> DEFINE f == [cmd |-> event.kind, index |-> event.val, left |-> polls]
    <3>1. /\ FlightRecords' /\ inFlight'[event.dev] = f /\ DOMAIN inFlight' = 0..Devices-1
          /\ \A d \in (0..Devices-1) \ {event.dev} : inFlight'[d] = Idle
      BY <2>1, <2>2, <2>3, <1>f, Carried DEF Command
    <3>2. QED
      BY <2>1, <2>3, <3>1 DEF BusInv
  <2>4. CASE event.dev \notin 0..Devices-1
    <3>1. inFlight' = inFlight
      BY <2>2, <2>4 DEF Command, FlightRecords
    <3>2. QED
      BY <2>1, <3>1, <1>a
  <2>5. QED
    BY <2>3, <2>4
<1>6. CASE DevicePending
  <2>1. /\ event.type = "Request" /\ event.kind \in DeviceKinds /\ resp = NoResp
        /\ event.dev \in 0..Devices-1 /\ inFlight[event.dev] # Idle
        /\ waiting' = "Exec" /\ UNCHANGED <<event, resp>>
        /\ inFlight' = [inFlight EXCEPT ![event.dev].left = @ - 1]
    BY <1>6, <1>0 DEF DevicePending, Asked, OnBus, StillPending, coreVars, ports
  <2>2. inFlight[event.dev].cmd = event.kind /\ inFlight[event.dev].index = event.val
    BY <2>1 DEF BusInv
  <2>3. /\ FlightRecords' /\ DOMAIN inFlight' = 0..Devices-1
        /\ inFlight'[event.dev].cmd = event.kind /\ inFlight'[event.dev].index = event.val
        /\ \A d \in (0..Devices-1) \ {event.dev} : inFlight'[d] = Idle
    BY <2>1, <2>2, <1>f, PollUsed
  <2>4. inFlight'[event.dev] # Idle
    BY <2>1, <2>3 DEF Idle, DeviceKinds
  <2>5. QED
    BY <2>1, <2>3, <2>4 DEF BusInv
<1>7. CASE DeviceReady
  BY <1>7, <1>0, <1>f, <1>g DEF DeviceReady, Asked, OnBus, Released
<1>8. CASE LatchIssue
  <2>1. event.type = "Boundary" /\ Clear /\ UNCHANGED <<event, resp>>
    BY <1>8, <1>d DEF LatchIssue, coreVars, ports
  <2>2. CASE Devices = 0
    BY <1>8, <2>1, <2>2, <1>b DEF LatchIssue
  <2>3. CASE Devices # 0
    <3>1. PICK polls \in 0..MaxPolls : Command(0, "DeviceRead", 0, polls)
      BY <1>8, <2>3 DEF LatchIssue
    <3>2. 0 \in 0..Devices-1 /\ waiting' = "Latch"
      BY <1>8, <2>3 DEF LatchIssue, SessionAssumption
    <3> DEFINE f == [cmd |-> "DeviceRead", index |-> 0, left |-> polls]
    <3>3. /\ FlightRecords' /\ inFlight'[0] = f /\ DOMAIN inFlight' = 0..Devices-1
          /\ \A d \in (0..Devices-1) \ {0} : inFlight'[d] = Idle
      BY <2>1, <3>1, <3>2, Carried DEF Command
    <3>4. f # Idle /\ f.cmd \in DeviceKinds
      BY DEF Idle, DeviceKinds
    <3> HIDE DEF f
    <3>5. QED
      BY <2>1, <3>2, <3>3, <3>4 DEF BusInv
  <2>4. QED
    BY <2>2, <2>3
<1>9. CASE LatchPending
  <2>1. /\ waiting = "Latch" /\ event.type = "Boundary" /\ 0 \in 0..Devices-1
        /\ UNCHANGED <<event, resp, waiting>> /\ inFlight[0] # Idle
        /\ inFlight' = [inFlight EXCEPT ![0].left = @ - 1]
    BY <1>9, <1>0 DEF LatchPending, StillPending, coreVars, ports, ctlVars, BusInv
  <2>2. /\ inFlight[0].cmd \in DeviceKinds
        /\ \A d \in (0..Devices-1) \ {0} : inFlight[d] = Idle
    BY <2>1 DEF BusInv
  <2>3. /\ FlightRecords' /\ DOMAIN inFlight' = 0..Devices-1
        /\ inFlight'[0].cmd \in DeviceKinds
        /\ \A d \in (0..Devices-1) \ {0} : inFlight'[d] = Idle
    BY <2>1, <2>2, PollUsed
  <2>4. inFlight'[0] # Idle
    BY <2>3 DEF Idle, DeviceKinds
  <2>5. QED
    BY <2>1, <2>3, <2>4 DEF BusInv
<1>10. CASE LatchReady
  <2>1. 0 \in 0..Devices-1 /\ \A d \in (0..Devices-1) \ {0} : inFlight[d] = Idle
    BY <1>10, <1>0 DEF LatchReady, BusInv
  <2>2. QED
    BY <1>10, <2>1, <1>g DEF LatchReady
<1>11. CASE Account
  BY <1>11, <1>b, <1>c DEF Account
<1>12. CASE End \/ Embedder \/ UNCHANGED vars
  BY <1>12, <1>a DEF End, Embedder, Pause, MoveBreakpoint, Stop, Pump, vars, coreVars, ports,
     busVars, ctlVars
<1>13. QED
  BY <1>1, <1>2, <1>3, <1>4, <1>5, <1>6, <1>7, <1>8, <1>9, <1>10, <1>11, <1>12
     DEF Next, PumpStep, Serve

-----------------------------------------------------------------------------
(* Theorems. *)

LEMMA SessionStart == ASSUME SessionAssumption, Init PROVE SessionInv
<1> USE DEF Init, CoreInit
<1>1. RespInv
  BY DEF RespInv
<1>2. FlightRecords
  BY DEF FlightRecords, Idle
<1>3. BusInv /\ BreakInv
  BY DEF BusInv, BreakInv
<1>4. BudgetInv /\ PauseInv
  BY DEF BudgetInv, PauseInv, Pumping, NoBudget
<1>5. QED
  BY <1>1, <1>2, <1>3, <1>4 DEF SessionInv

\* The inductive invariant of the pumped session.
THEOREM SessionInvariant == Spec => []SessionInv
<1>1. ASSUME SessionInv, [Next]_vars PROVE SessionInv'
  BY <1>1, SessionAssumption, RespStep, BudgetStep, PauseStep, BreakStep, BusStep DEF SessionInv
<1>2. QED
  BY <1>1, SessionStart, SessionAssumption, PTL DEF Spec

\* A device is on the bus only for the loading read or the unanswered request,
\* and a suspended session has something to wait for (pump_latch, poll_device).
THEOREM AlwaysBusQuiet == Spec => []BusQuiet
<1>1. SessionInv => BusQuiet
  BY DEF SessionInv, BusInv, BusQuiet
<1>2. QED
  BY <1>1, SessionInvariant, PTL

\* No pump retires more than its budget, and BudgetSpent is told exactly then.
THEOREM AlwaysBudgetExact == Spec => []BudgetExact
<1>1. SessionInv => BudgetExact
  BY DEF SessionInv, BudgetInv, BudgetExact
<1>2. QED
  BY <1>1, SessionInvariant, PTL

\* A command on the bus changes only by the poll that finds it not ready.
THEOREM AlwaysIssuedOnce == Spec => IssuedOnce
<1> DEFINE Once == \A d \in 0..Devices-1 :
                     inFlight[d] # Idle /\ inFlight'[d] # Idle =>
                       inFlight'[d] \in {inFlight[d], [inFlight[d] EXCEPT !.left = @ - 1]}
<1>1. ASSUME SessionInv, [Next]_vars PROVE [Once]_vars
  <2> SUFFICES ASSUME NEW d \in 0..Devices-1, inFlight[d] # Idle, inFlight'[d] # Idle
               PROVE  inFlight'[d] \in {inFlight[d], [inFlight[d] EXCEPT !.left = @ - 1]}
    OBVIOUS
  <2> USE <1>1 DEF SessionInv
  <2>1. DOMAIN inFlight = 0..Devices-1
    BY DEF FlightRecords
  <2>2. \/ inFlight' = inFlight
        \/ \E dev : inFlight' = [inFlight EXCEPT ![dev].left = @ - 1]
        \/ \E dev : inFlight' = [inFlight EXCEPT ![dev] = Idle]
        \/ \E dev, f : inFlight' = [inFlight EXCEPT ![dev] = f] /\ (dev = d => inFlight[d] = Idle)
    <3>1. CASE DeviceIssue
      BY <2>1, <3>1 DEF DeviceIssue, Command, OnBus
    <3>2. CASE DevicePending \/ LatchPending
      BY <3>2 DEF DevicePending, LatchPending, StillPending
    <3>3. CASE DeviceReady \/ LatchReady
      BY <3>3 DEF DeviceReady, LatchReady, Released
    <3>4. CASE LatchIssue
      BY <3>4 DEF LatchIssue, Command, BusInv
    <3>5. CASE Resume \/ Begin \/ Account \/ End \/ Embedder \/ UNCHANGED vars
      BY <3>5 DEF Resume, Begin, Account, End, Embedder, Pause, MoveBreakpoint, Stop, Pump, vars,
         busVars
    <3>6. CASE ServeCode \/ ServePush \/ ServePop \/ ServeTable \/ ServeFrame \/ ServeNoDevice
      BY <3>6 DEF ServeCode, ServePush, ServePop, ServeTable, ServeFrame, ServeNoDevice, Local
    <3>7. QED
      BY <3>1, <3>2, <3>3, <3>4, <3>5, <3>6 DEF Next, PumpStep, Serve
  <2>3. CASE inFlight' = inFlight
    BY <2>3
  <2>4. ASSUME NEW dev, inFlight' = [inFlight EXCEPT ![dev].left = @ - 1]
        PROVE  inFlight'[d] \in {inFlight[d], [inFlight[d] EXCEPT !.left = @ - 1]}
    BY <2>1, <2>4
  <2>5. ASSUME NEW dev, inFlight' = [inFlight EXCEPT ![dev] = Idle]
        PROVE  inFlight'[d] = inFlight[d]
    BY <2>1, <2>5
  <2>6. ASSUME NEW dev, NEW f, inFlight' = [inFlight EXCEPT ![dev] = f],
               dev = d => inFlight[d] = Idle
        PROVE  inFlight'[d] = inFlight[d]
    BY <2>1, <2>6
  <2>7. QED
    BY <2>2, <2>3, <2>4, <2>5, <2>6
<1>2. QED
  BY <1>1, SessionInvariant, PTL DEF Spec, IssuedOnce

\* An instruction at an address that was a breakpoint when the session reached
\* it starts only after a pump has returned with a pause there.
THEOREM AlwaysBreakpointsStop == Spec => BreakpointsStop
<1> DEFINE Told == event.type = "Boundary" /\ event'.type = "Request" /\ ip \in seenBreaks
                     => announced
<1>1. SessionInv => [Told]_vars
  BY DEF SessionInv, BreakInv
<1>2. QED
  BY <1>1, SessionInvariant, PTL DEF Spec, BreakpointsStop

\* No pump retires a second instruction while a pause is outstanding, and only
\* the pump that reports the pause clears it.
THEOREM AlwaysPauseAnswered == Spec => PauseAnswered
<1> DEFINE Answers == pauseRequested => /\ Pumping => retired = 0
                                        /\ ~pauseRequested' => report' = "Manual"
<1>1. ASSUME SessionInv, [Next]_vars PROVE [Answers]_vars
  <2>1. pauseRequested' = pauseRequested \/ pauseRequested' = TRUE \/ report' = "Manual"
    <3>1. CASE Serve
      BY <3>1 DEF Serve, ServeCode, ServePush, ServePop, ServeTable, ServeFrame, ServeNoDevice,
         DeviceIssue, DevicePending, DeviceReady, Local, Deliver, ctlVars
    <3>2. CASE Account
      BY <3>2 DEF Account, AtBoundary, Paused, Return, Spend, Finish
    <3>3. CASE Resume \/ Begin \/ LatchIssue \/ LatchPending \/ LatchReady \/ End
      BY <3>3 DEF Resume, Begin, LatchIssue, LatchPending, LatchReady, End, ctlVars
    <3>4. CASE Embedder \/ UNCHANGED vars
      BY <3>4 DEF Embedder, Pause, MoveBreakpoint, Stop, Pump, vars, ctlVars
    <3>5. QED
      BY <1>1, <3>1, <3>2, <3>3, <3>4 DEF Next, PumpStep
  <2>2. (pauseRequested /\ ~pauseRequested') => report' = "Manual"
    BY <2>1
  <2>3. (pauseRequested /\ Pumping) => retired = 0
    BY <1>1 DEF SessionInv, PauseInv
  <2>4. QED
    BY <2>2, <2>3
<1>2. QED
  BY <1>1, SessionInvariant, PTL DEF Spec, PauseAnswered

-----------------------------------------------------------------------------
(* The pumped session implements the synchronous run: its steps are steps of *)
(* Driver or leave everything Driver speaks of alone.                        *)

\* What a device charges is the model price, or it reports none.
ModelPrices ==
  \A cost \in Reported, cmd \in DeviceKinds : Price(cmd, cost) = ModelCost(cmd)

-----------------------------------------------------------------------------
(* Both sides are built on the same core. *)

\* Fetching is the same on both sides, action by action.
LEMMA SameFetch ==
  ASSUME FetchOpcode \/ FetchOperand
  PROVE  Sync!CoreStep
<1>1. FetchOpcode => Sync!FetchOpcode
  BY DEF FetchOpcode, Sync!FetchOpcode, FinishFetch, Sync!FinishFetch, NoPend,
     Sync!NoPend, Pend, Sync!Pend, Busy, Sync!Busy, Signal, Sync!Signal, NoResp,
     Sync!NoResp, Response, Sync!Response, Trap, Sync!Trap, Trapped, Sync!Trapped,
     Ask, Sync!Ask, Request, Sync!Request, frames, Sync!frames
<1>2. FetchOperand => Sync!FetchOperand
  BY DEF FetchOperand, Sync!FetchOperand, FinishFetch, Sync!FinishFetch, NoPend,
     Sync!NoPend, Pend, Sync!Pend, Busy, Sync!Busy, Signal, Sync!Signal, NoResp,
     Sync!NoResp, Response, Sync!Response, Trap, Sync!Trap, Trapped, Sync!Trapped,
     Ask, Sync!Ask, Request, Sync!Request, frames, Sync!frames
<1>3. QED
  BY <1>1, <1>2 DEF Sync!CoreStep

\* So is settling a request,
LEMMA SameSettle ==
  ASSUME Settle
  PROVE  Sync!CoreStep
<1>1. SettleDone => Sync!SettleDone
  BY DEF SettleDone, Sync!SettleDone, Delivered, Sync!Delivered, Settled,
     Sync!Settled, Busy, Sync!Busy, Signal, Sync!Signal, NoPend, Sync!NoPend, Pend,
     Sync!Pend, NoResp, Sync!NoResp, Response, Sync!Response, regs, Sync!regs, frames,
     Sync!frames
<1>2. SettleFault => Sync!SettleFault
  BY DEF SettleFault, Sync!SettleFault, Delivered, Sync!Delivered, Trap, Sync!Trap,
     Trapped, Sync!Trapped, NoResp, Sync!NoResp, Response, Sync!Response, regs,
     Sync!regs, frames, Sync!frames
<1>3. SettleLatch => Sync!SettleLatch
  BY DEF SettleLatch, Sync!SettleLatch, Delivered, Sync!Delivered, MapsTo,
     Sync!MapsTo, Through, Sync!Through, Hole, Sync!Hole, RMap, Sync!RMap, Settled,
     Sync!Settled, Busy, Sync!Busy, Signal, Sync!Signal, NoPend, Sync!NoPend, Pend,
     Sync!Pend, NoResp, Sync!NoResp, Response, Sync!Response, Trap, Sync!Trap,
     Trapped, Sync!Trapped, frames, Sync!frames
<1>4. SettleRead => Sync!SettleRead
  BY DEF SettleRead, Sync!SettleRead, Delivered, Sync!Delivered, MapsTo, Sync!MapsTo,
     Through, Sync!Through, Hole, Sync!Hole, RMap, Sync!RMap, Settled, Sync!Settled,
     Busy, Sync!Busy, Signal, Sync!Signal, NoPend, Sync!NoPend, Pend, Sync!Pend,
     NoResp, Sync!NoResp, Response, Sync!Response, Trap, Sync!Trap, Trapped,
     Sync!Trapped, frames, Sync!frames
<1>5. SettleEntCheck => Sync!SettleEntCheck
  BY DEF SettleEntCheck, Sync!SettleEntCheck, Ask, Sync!Ask, Request, Sync!Request,
     NoResp, Sync!NoResp, Response, Sync!Response, Pend, Sync!Pend, Trap, Sync!Trap,
     Trapped, Sync!Trapped, regs, Sync!regs, frames, Sync!frames
<1>6. SettlePush => Sync!SettlePush
  BY DEF SettlePush, Sync!SettlePush, Delivered, Sync!Delivered, FrHalf, Sync!FrHalf,
     FramesOn, Sync!FramesOn, frames, Sync!frames, PushOn, Sync!PushOn, Settled,
     Sync!Settled, Busy, Sync!Busy, Signal, Sync!Signal, NoPend, Sync!NoPend, Pend,
     Sync!Pend, NoResp, Sync!NoResp, Response, Sync!Response
<1>7. SettleStackFull => Sync!SettleStackFull
  BY DEF SettleStackFull, Sync!SettleStackFull, Delivered, Sync!Delivered, Trap,
     Sync!Trap, Trapped, Sync!Trapped, NoResp, Sync!NoResp, Response, Sync!Response,
     regs, Sync!regs, frames, Sync!frames
<1>8. SettlePushFrame => Sync!SettlePushFrame
  BY DEF SettlePushFrame, Sync!SettlePushFrame, Delivered, Sync!Delivered, PushOn,
     Sync!PushOn, Trap, Sync!Trap, Trapped, Sync!Trapped, NoResp, Sync!NoResp,
     Response, Sync!Response, Ask, Sync!Ask, Request, Sync!Request, ComposeAddr,
     Sync!ComposeAddr, Pend, Sync!Pend, regs, Sync!regs
<1>9. SettleCompose => Sync!SettleCompose
  BY DEF SettleCompose, Sync!SettleCompose, Delivered, Sync!Delivered, Trap,
     Sync!Trap, Trapped, Sync!Trapped, NoResp, Sync!NoResp, Response, Sync!Response,
     Ask, Sync!Ask, Request, Sync!Request, DirectoryAddr, Sync!DirectoryAddr, Pend,
     Sync!Pend, regs, Sync!regs
<1>10. SettleDirectory => Sync!SettleDirectory
  BY DEF SettleDirectory, Sync!SettleDirectory, Delivered, Sync!Delivered, Ask,
     Sync!Ask, Request, Sync!Request, NoResp, Sync!NoResp, Response, Sync!Response,
     DescriptorAddr, Sync!DescriptorAddr, Pend, Sync!Pend, regs, Sync!regs, frames,
     Sync!frames
<1>11. SettleFrameLoad => Sync!SettleFrameLoad
  BY DEF SettleFrameLoad, Sync!SettleFrameLoad, Delivered, Sync!Delivered, Settled,
     Sync!Settled, Busy, Sync!Busy, Signal, Sync!Signal, NoPend, Sync!NoPend, Pend,
     Sync!Pend, NoResp, Sync!NoResp, Response, Sync!Response, Trap, Sync!Trap,
     Trapped, Sync!Trapped
<1>12. SettleOutOfTable => Sync!SettleOutOfTable
  BY DEF SettleOutOfTable, Sync!SettleOutOfTable, Delivered, Sync!Delivered, Trap,
     Sync!Trap, Trapped, Sync!Trapped, NoResp, Sync!NoResp, Response, Sync!Response,
     regs, Sync!regs, frames, Sync!frames
<1>13. SettlePop => Sync!SettlePop
  BY DEF SettlePop, Sync!SettlePop, Delivered, Sync!Delivered, Settled, Sync!Settled,
     Busy, Sync!Busy, Signal, Sync!Signal, NoPend, Sync!NoPend, Pend, Sync!Pend,
     NoResp, Sync!NoResp, Response, Sync!Response, frames, Sync!frames
<1>14. SettlePopPair => Sync!SettlePopPair
  BY DEF SettlePopPair, Sync!SettlePopPair, Delivered, Sync!Delivered, TopOf,
     Sync!TopOf, NoExit, Sync!NoExit, PopOff, Sync!PopOff, NoDesc, Sync!NoDesc,
     Reload, Sync!Reload, Ask, Sync!Ask, Request, Sync!Request, NoResp, Sync!NoResp,
     Response, Sync!Response, DirectoryAddr, Sync!DirectoryAddr, Pend, Sync!Pend,
     Settled, Sync!Settled, Busy, Sync!Busy, Signal, Sync!Signal, NoPend, Sync!NoPend
<1>15. SettleStackEmpty => Sync!SettleStackEmpty
  BY DEF SettleStackEmpty, Sync!SettleStackEmpty, Delivered, Sync!Delivered, Trap,
     Sync!Trap, Trapped, Sync!Trapped, NoResp, Sync!NoResp, Response, Sync!Response,
     regs, Sync!regs, frames, Sync!frames
<1>16. SettleMatch => Sync!SettleMatch
  BY DEF SettleMatch, Sync!SettleMatch, Delivered, Sync!Delivered, MatchResult,
     Sync!MatchResult, RowFires, Sync!RowFires, Hole, Sync!Hole, Settled,
     Sync!Settled, Busy, Sync!Busy, Signal, Sync!Signal, NoPend, Sync!NoPend, Pend,
     Sync!Pend, NoResp, Sync!NoResp, Response, Sync!Response, Trap, Sync!Trap,
     Trapped, Sync!Trapped, frames, Sync!frames
<1>17. SettleDispatch => Sync!SettleDispatch
  BY DEF SettleDispatch, Sync!SettleDispatch, Delivered, Sync!Delivered, Settled,
     Sync!Settled, Busy, Sync!Busy, Signal, Sync!Signal, NoPend, Sync!NoPend, Pend,
     Sync!Pend, NoResp, Sync!NoResp, Response, Sync!Response, Trap, Sync!Trap,
     Trapped, Sync!Trapped, frames, Sync!frames
<1>18. QED
  BY <1>1, <1>2, <1>3, <1>4, <1>5, <1>6, <1>7, <1>8, <1>9, <1>10, <1>11, <1>12, <1>13,
     <1>14, <1>15, <1>16, <1>17 DEF Sync!CoreStep, Settle, Sync!Settle

\* issuing an operation and retiring the instruction.
LEMMA SameIssue ==
  ASSUME IssueOp \/ Retire
  PROVE  Sync!CoreStep
<1>1. IssueNop => Sync!IssueNop
  BY DEF IssueNop, Sync!IssueNop, Due, Sync!Due, Busy, Sync!Busy, Signal, Sync!Signal,
     Continue, Sync!Continue, regs, Sync!regs, frames, Sync!frames
<1>2. IssueBrk => Sync!IssueBrk
  BY DEF IssueBrk, Sync!IssueBrk, Due, Sync!Due, Busy, Sync!Busy, Signal, Sync!Signal,
     Continue, Sync!Continue, regs, Sync!regs, frames, Sync!frames
<1>3. IssueEnd => Sync!IssueEnd
  BY DEF IssueEnd, Sync!IssueEnd, Due, Sync!Due, Busy, Sync!Busy, Signal, Sync!Signal,
     regs, Sync!regs, frames, Sync!frames
<1>4. IssueRaise => Sync!IssueRaise
  BY DEF IssueRaise, Sync!IssueRaise, Due, Sync!Due, Busy, Sync!Busy, Signal,
     Sync!Signal, IssueTrap, Sync!IssueTrap, Trap, Sync!Trap, Trapped, Sync!Trapped,
     NoResp, Sync!NoResp, Response, Sync!Response, regs, Sync!regs, frames,
     Sync!frames
<1>5. IssueMove => Sync!IssueMove
  BY DEF IssueMove, Sync!IssueMove, Due, Sync!Due, Busy, Sync!Busy, Signal,
     Sync!Signal, HasDev, Sync!HasDev, Issue, Sync!Issue, Ask, Sync!Ask, Request,
     Sync!Request, NoResp, Sync!NoResp, Response, Sync!Response, PhysDev,
     Sync!PhysDev, Pend, Sync!Pend, IssueTrap, Sync!IssueTrap, Trap, Sync!Trap,
     Trapped, Sync!Trapped, regs, Sync!regs, frames, Sync!frames
<1>6. IssueWrite => Sync!IssueWrite
  <2>1. \A dev : HasDev(dev) = Sync!HasDev(dev) /\ WMap(dev) = Sync!WMap(dev)
                 /\ PhysDev(dev) = Sync!PhysDev(dev)
    BY DEF HasDev, Sync!HasDev, WMap, Sync!WMap, PhysDev, Sync!PhysDev
  <2>2. \A m, x : MapsTo(m, x) = Sync!MapsTo(m, x) /\ Through(m, x) = Sync!Through(m, x)
    BY DEF MapsTo, Sync!MapsTo, Through, Sync!Through, Hole, Sync!Hole
  <2>3. \A t, at : IssueTrap(t, at) = Sync!IssueTrap(t, at)
    BY DEF IssueTrap, Sync!IssueTrap, Trap, Sync!Trap, Trapped, Sync!Trapped, NoResp,
       Sync!NoResp, Response, Sync!Response
  <2>4. \A k, d, v, q : Issue(k, d, v, q) = Sync!Issue(k, d, v, q)
    BY DEF Issue, Sync!Issue, Ask, Sync!Ask, Request, Sync!Request, NoResp,
       Sync!NoResp, Response, Sync!Response
  <2>5. QED
    BY <2>1, <2>2, <2>3, <2>4 DEF IssueWrite, Sync!IssueWrite, Due, Sync!Due, Busy,
       Sync!Busy, Signal, Sync!Signal, Pend, Sync!Pend, regs, Sync!regs, frames,
       Sync!frames
<1>7. IssueLatch => Sync!IssueLatch
  BY DEF IssueLatch, Sync!IssueLatch, Due, Sync!Due, Busy, Sync!Busy, Signal,
     Sync!Signal, HasDev, Sync!HasDev, Issue, Sync!Issue, Ask, Sync!Ask, Request,
     Sync!Request, NoResp, Sync!NoResp, Response, Sync!Response, PhysDev,
     Sync!PhysDev, Pend, Sync!Pend, IssueTrap, Sync!IssueTrap, Trap, Sync!Trap,
     Trapped, Sync!Trapped, regs, Sync!regs, frames, Sync!frames
<1>8. IssueRead => Sync!IssueRead
  BY DEF IssueRead, Sync!IssueRead, Due, Sync!Due, Busy, Sync!Busy, Signal,
     Sync!Signal, HasDev, Sync!HasDev, IssueTrap, Sync!IssueTrap, Trap, Sync!Trap,
     Trapped, Sync!Trapped, NoResp, Sync!NoResp, Response, Sync!Response, Issue,
     Sync!Issue, Ask, Sync!Ask, Request, Sync!Request, PhysDev, Sync!PhysDev, Pend,
     Sync!Pend, regs, Sync!regs, frames, Sync!frames
<1>9. IssueReadAll => Sync!IssueReadAll
  BY DEF IssueReadAll, Sync!IssueReadAll, Due, Sync!Due, Busy, Sync!Busy, Signal,
     Sync!Signal, frames, Sync!frames
<1>10. IssueJump => Sync!IssueJump
  BY DEF IssueJump, Sync!IssueJump, Due, Sync!Due, Busy, Sync!Busy, Signal,
     Sync!Signal, JumpTarget, Sync!JumpTarget, Continue, Sync!Continue, IssueTrap,
     Sync!IssueTrap, Trap, Sync!Trap, Trapped, Sync!Trapped, NoResp, Sync!NoResp,
     Response, Sync!Response, frames, Sync!frames
<1>11. IssueFallThrough => Sync!IssueFallThrough
  BY DEF IssueFallThrough, Sync!IssueFallThrough, Due, Sync!Due, Busy, Sync!Busy,
     Signal, Sync!Signal, Continue, Sync!Continue, regs, Sync!regs, frames,
     Sync!frames
<1>12. IssueCall => Sync!IssueCall
  BY DEF IssueCall, Sync!IssueCall, Due, Sync!Due, Busy, Sync!Busy, Signal,
     Sync!Signal, FramesOn, Sync!FramesOn, frames, Sync!frames, JumpTarget,
     Sync!JumpTarget, Issue, Sync!Issue, Ask, Sync!Ask, Request, Sync!Request, NoResp,
     Sync!NoResp, Response, Sync!Response, Pend, Sync!Pend, IssueTrap, Sync!IssueTrap,
     Trap, Sync!Trap, Trapped, Sync!Trapped, regs, Sync!regs
<1>13. IssueRet => Sync!IssueRet
  BY DEF IssueRet, Sync!IssueRet, Due, Sync!Due, Busy, Sync!Busy, Signal, Sync!Signal,
     Issue, Sync!Issue, Ask, Sync!Ask, Request, Sync!Request, NoResp, Sync!NoResp,
     Response, Sync!Response, FramesOn, Sync!FramesOn, frames, Sync!frames, Pend,
     Sync!Pend, NoExit, Sync!NoExit, regs, Sync!regs
<1>14. IssueRetX => Sync!IssueRetX
  BY DEF IssueRetX, Sync!IssueRetX, Due, Sync!Due, Busy, Sync!Busy, Signal,
     Sync!Signal, FramesOn, Sync!FramesOn, frames, Sync!frames, Issue, Sync!Issue,
     Ask, Sync!Ask, Request, Sync!Request, NoResp, Sync!NoResp, Response,
     Sync!Response, Pend, Sync!Pend, IssueTrap, Sync!IssueTrap, Trap, Sync!Trap,
     Trapped, Sync!Trapped, regs, Sync!regs
<1>15. IssueProfileViolation => Sync!IssueProfileViolation
  BY DEF IssueProfileViolation, Sync!IssueProfileViolation, Due, Sync!Due, Busy,
     Sync!Busy, Signal, Sync!Signal, FramesOn, Sync!FramesOn, frames, Sync!frames,
     IssueTrap, Sync!IssueTrap, Trap, Sync!Trap, Trapped, Sync!Trapped, NoResp,
     Sync!NoResp, Response, Sync!Response, regs, Sync!regs
<1>16. IssueMatch => Sync!IssueMatch
  BY DEF IssueMatch, Sync!IssueMatch, Due, Sync!Due, Busy, Sync!Busy, Signal,
     Sync!Signal, Issue, Sync!Issue, Ask, Sync!Ask, Request, Sync!Request, NoResp,
     Sync!NoResp, Response, Sync!Response, MatchAddr, Sync!MatchAddr, Pend, Sync!Pend,
     regs, Sync!regs, frames, Sync!frames
<1>17. IssueDispatch => Sync!IssueDispatch
  BY DEF IssueDispatch, Sync!IssueDispatch, Due, Sync!Due, Busy, Sync!Busy, Signal,
     Sync!Signal, IssueTrap, Sync!IssueTrap, Trap, Sync!Trap, Trapped, Sync!Trapped,
     NoResp, Sync!NoResp, Response, Sync!Response, Issue, Sync!Issue, Ask, Sync!Ask,
     Request, Sync!Request, DispatchAddr, Sync!DispatchAddr, Pend, Sync!Pend, regs,
     Sync!regs, frames, Sync!frames
<1>18. Retire => Sync!Retire
  BY DEF Retire, Sync!Retire, Busy, Sync!Busy, Signal, Sync!Signal, regs, Sync!regs,
     frames, Sync!frames
<1>19. QED
  BY <1>1, <1>2, <1>3, <1>4, <1>5, <1>6, <1>7, <1>8, <1>9, <1>10, <1>11, <1>12, <1>13,
     <1>14, <1>15, <1>16, <1>17, <1>18 DEF Sync!CoreStep, IssueOp, Sync!IssueOp

\* A step of the core is a step of the same core.
LEMMA SameCore == CoreStep => Sync!CoreStep
BY SameFetch, SameSettle, SameIssue DEF CoreStep

-----------------------------------------------------------------------------
(* What the session adds is invisible, what it serves is served alike. *)

\* A pump runs only on an unfinished session, a pending loading read is still
\* marked, tapes stay one per device.
LiveInv ==
  /\ Pumping => Live
  /\ waiting = "Latch" => latchMark
  /\ tapes = [d \in DOMAIN tapes |-> tapes[d]]

MappedInv == SessionInv /\ LiveInv

LEMMA LiveStep ==
  ASSUME MappedInv, [Next]_vars
  PROVE  LiveInv'
<1> USE DEF MappedInv
<1>1. CASE Serve
  <2>1. finished' = finished \/ report' = "Finished"
    BY <1>1 DEF Serve, ServeCode, ServePush, ServePop, ServeTable, ServeFrame, ServeNoDevice,
       DeviceIssue, DevicePending, DeviceReady, Local, Deliver, ctlVars, Finish, Return
  <2>2. Pumping
    BY <1>1 DEF Serve, ServeCode, ServePush, ServePop, ServeTable, ServeFrame, ServeNoDevice,
       DeviceIssue, DevicePending, DeviceReady, Asked
  <2>3. tapes' = tapes \/ \E dev, t : tapes' = [tapes EXCEPT ![dev] = t]
    BY <1>1 DEF Serve, ServeCode, ServePush, ServePop, ServeTable, ServeFrame, ServeNoDevice,
       DeviceIssue, DevicePending, DeviceReady, Local, StillPending
  <2>4. tapes' = [d \in DOMAIN tapes' |-> tapes'[d]]
    BY <2>3 DEF LiveInv
  <2>5. latchMark' = latchMark /\ (waiting' = "Latch" => waiting = "Latch")
    BY <1>1 DEF Serve, ServeCode, ServePush, ServePop, ServeTable, ServeFrame, ServeNoDevice,
       DeviceIssue, DevicePending, DeviceReady, Local, Deliver, Released, ctlVars
  <2>6. waiting' = "Latch" => latchMark'
    BY <2>5 DEF LiveInv
  <2>7. QED
    BY <2>1, <2>2, <2>4, <2>6 DEF LiveInv, Pumping, Live
<1>2. CASE Account
  BY <1>2 DEF Account, Finish, Return, AtBoundary, Paused, Spend, LiveInv, Pumping, Live
<1>3. CASE End
  BY <1>3 DEF End, Finish, Return, LiveInv, Pumping
<1>4. CASE Resume \/ Begin \/ LatchIssue \/ LatchPending \/ LatchReady
  <2>0. /\ latchMark' = latchMark \/ waiting' # "Latch"
        /\ waiting' = "Latch" => waiting = "Latch" \/ latchMark
    BY <1>4 DEF Resume, Begin, LatchIssue, LatchPending, LatchReady, ctlVars
  <2>1. UNCHANGED <<finished, tapes>> /\ (Pumping' => Pumping)
    BY <1>4 DEF Resume, Begin, LatchIssue, LatchPending, LatchReady, StillPending, busVars,
       ctlVars, pumpVars, Pumping, Return
  <2>2. waiting' = "Latch" => latchMark'
    BY <2>0 DEF LiveInv
  <2>3. QED
    BY <2>1, <2>2 DEF LiveInv, Live
<1>5. CASE Pause \/ MoveBreakpoint \/ Stop \/ UNCHANGED vars
  BY <1>5 DEF Pause, MoveBreakpoint, Stop, vars, busVars, ctlVars, pumpVars, LiveInv, Live, Pumping
<1>6. ASSUME NEW b \in Budgets, Pump(b) PROVE LiveInv'
  BY <1>6 DEF Pump, busVars, ctlVars, LiveInv, Live, Pumping
<1>7. QED
  BY <1>1, <1>2, <1>3, <1>4, <1>5, <1>6 DEF Next, PumpStep, Embedder

LEMMA SameDeliver ==
  ASSUME NEW r, Deliver(r)
  PROVE  Sync!Deliver(r)
<1>1. IF Sync!OverTacts(stats')
      THEN Sync!Finish("TactLimit", 0) /\ resp' = Sync!NoResp
      ELSE resp' = r /\ UNCHANGED finished
  BY DEF Deliver, OverTacts, Sync!OverTacts, Total, Sync!Total, NoLimit, Sync!NoLimit,
     Finish, Sync!Finish, NoResp, Sync!NoResp, Response, Sync!Response
<1>2. UNCHANGED <<image, Sync!regs, Sync!frames, Sync!ctl, event, limits, mark>>
  BY DEF Deliver, regs, Sync!regs, frames, Sync!frames, ctl, Sync!ctl, histVars
<1>3. latchMark' = latchMark
  BY DEF Deliver
<1>4. UNCHANGED ~latchMark
  BY <1>3
<1>5. QED
  BY <1>1, <1>2, <1>4 DEF Sync!Deliver

LEMMA SameAsked ==
  ASSUME MappedInv, NEW kinds, Asked(kinds)
  PROVE  event.kind \in kinds /\ Sync!Asked(event.kind)
BY DEF MappedInv, LiveInv, Asked, Sync!Asked, Live, Unfinished, Sync!Running, Sync!NoResult,
   NoResp, Sync!NoResp, Response, Sync!Response

LEMMA SameLocal ==
  ASSUME MappedInv, ServeCode \/ ServePush \/ ServePop \/ ServeTable \/ ServeFrame
  PROVE  Sync!Serve
<1>1. CASE ServeCode
  <2>1. Sync!ServeCode
    BY <1>1, SameAsked, SameDeliver DEF ServeCode, Sync!ServeCode, Local, CoreTact,
       Sync!CoreTact, Response, Sync!Response
  <2>2. QED
    BY <2>1 DEF Sync!Serve
<1>2. CASE ServePush
  <2>1. Sync!ServePush
    BY <1>2, SameAsked, SameDeliver DEF ServePush, Sync!ServePush, Local, CoreTact,
       Sync!CoreTact, Response, Sync!Response, PushOn, Sync!PushOn, Sync!StackRoom
  <2>2. QED
    BY <2>1 DEF Sync!Serve
<1>3. CASE ServePop
  <2>1. Sync!ServePop
    BY <1>3, SameAsked, SameDeliver DEF ServePop, Sync!ServePop, Local, CoreTact,
       Sync!CoreTact, Response, Sync!Response, PopOff, Sync!PopOff, TopOf, Sync!TopOf
  <2>2. QED
    BY <2>1 DEF Sync!Serve
<1>4. CASE ServeTable \/ ServeFrame
  <2>1. Sync!ServeTable \/ Sync!ServeFrame
    BY <1>4, SameAsked, SameDeliver DEF ServeTable, ServeFrame, Sync!ServeTable, Sync!ServeFrame,
       Sync!ServeRom, Local, StallTact, Sync!StallTact, Response, Sync!Response
  <2>2. QED
    BY <2>1 DEF Sync!Serve
<1>5. QED
  BY <1>1, <1>2, <1>3, <1>4

\* The poll that answers READY is the transaction of the synchronous bus.
LEMMA SameDevice ==
  ASSUME SessionAssumption, MappedInv, ModelPrices, DeviceReady
  PROVE  Sync!Serve
<1> DEFINE dev == event.dev
           reply == ReplyTo(tapes[dev], event.kind, event.val)
<1>1. /\ Sync!Asked(event.kind) /\ event.kind \in DeviceKinds
      /\ dev \in 0..Devices-1 /\ inFlight[dev].cmd = event.kind /\ inFlight[dev].index = event.val
  BY SameAsked DEF DeviceReady, Asked, OnBus, MappedInv, SessionInv, FlightRecords, BusInv
<1>2. dev < Devices
  BY <1>1 DEF SessionAssumption
<1>3. /\ tapes' = [tapes EXCEPT ![dev] = TapeAfter(tapes[dev], event.kind, event.val)]
      /\ UNCHANGED stack
      /\ Sync!Deliver(reply)
  BY <1>1, SameDeliver DEF DeviceReady
<1>4. stats' = IF reply.kind = "Fault" THEN stats ELSE StallTact(ModelCost(event.kind))
  BY <1>1 DEF DeviceReady, ModelPrices
<1>5. TapeAfter(tapes[dev], event.kind, event.val) = tapes[dev] => tapes' = tapes
  BY <1>3 DEF MappedInv, LiveInv
<1>6. CASE event.kind \in {"DeviceMoveLeft", "DeviceMoveRight"}
  <2>1. reply = Response("Ok", 0) /\ ModelCost(event.kind) = Cost["move"]
    BY <1>6 DEF ReplyTo, ModelCost
  <2>2. TapeAfter(tapes[dev], event.kind, event.val)
          = IF event.kind = "DeviceMoveLeft" THEN TapeLeft(tapes[dev]) ELSE TapeRight(tapes[dev])
    BY <1>6 DEF TapeAfter
  <2>3. Sync!ServeMove
    BY <1>1, <1>2, <1>3, <1>4, <1>6, <2>1, <2>2 DEF Sync!ServeMove, StallTact, Sync!StallTact,
       Response, Sync!Response, TapeLeft, Sync!TapeLeft, TapeRight, Sync!TapeRight
  <2>4. QED
    BY <2>3 DEF Sync!Serve
<1>7. CASE event.kind = "DeviceRead"
  <2>1. reply = Response("Symbol", TapeRead(tapes[dev])) /\ ModelCost(event.kind) = Cost["read"]
    BY <1>7 DEF ReplyTo, ModelCost
  <2>2. tapes' = tapes
    BY <1>5, <1>7 DEF TapeAfter
  <2>3. Sync!ServeRead
    BY <1>1, <1>2, <1>3, <1>4, <1>7, <2>1, <2>2 DEF Sync!ServeRead, StallTact, Sync!StallTact,
       Response, Sync!Response, TapeRead, Sync!TapeRead
  <2>4. QED
    BY <2>3 DEF Sync!Serve
<1>8. CASE event.kind = "DeviceWrite"
  <2> DEFINE fault == WriteFault(tapes[dev], event.val)
  <2>1. /\ fault = Sync!WriteFault(tapes[dev], event.val)
        /\ TapeWrite(tapes[dev], event.val) = Sync!TapeWrite(tapes[dev], event.val)
    BY DEF WriteFault, Sync!WriteFault, TapeWrite, Sync!TapeWrite, TapeRead, Sync!TapeRead,
       Symbols, Sync!Symbols
  <2>2. /\ reply = IF fault = "none" THEN Response("Ok", 0) ELSE Response("Fault", fault)
        /\ ModelCost(event.kind) = Cost["write"]
    BY <1>8 DEF ReplyTo, ModelCost
  <2>3. TapeAfter(tapes[dev], event.kind, event.val) = TapeWrite(tapes[dev], event.val)
    BY <1>8 DEF TapeAfter
  <2>4. CASE fault = "none"
    <3>1. /\ reply = Response("Ok", 0) /\ stats' = StallTact(Cost["write"])
          /\ tapes' = [tapes EXCEPT ![dev] = TapeWrite(tapes[dev], event.val)]
      BY <1>3, <1>4, <2>2, <2>3, <2>4 DEF Response
    <3>2. Sync!ServeWrite
      BY <1>1, <1>2, <1>3, <1>8, <2>1, <2>4, <3>1 DEF Sync!ServeWrite, StallTact,
         Sync!StallTact, Response, Sync!Response
    <3>3. QED
      BY <3>2 DEF Sync!Serve
  <2>5. CASE fault # "none"
    <3>1. reply = Response("Fault", fault) /\ stats' = stats
      BY <1>4, <2>2, <2>5 DEF Response
    <3>2. tapes' = tapes
      BY <1>5, <2>3, <2>5 DEF TapeWrite
    <3>3. Sync!ServeWrite
      BY <1>1, <1>2, <1>3, <1>8, <2>1, <2>5, <3>1, <3>2 DEF Sync!ServeWrite, Response,
         Sync!Response
    <3>4. QED
      BY <3>3 DEF Sync!Serve
  <2>6. QED
    BY <2>4, <2>5
<1>9. QED
  BY <1>1, <1>6, <1>7, <1>8 DEF DeviceKinds

LEMMA SameNoDevice ==
  ASSUME MappedInv, ServeNoDevice
  PROVE  Sync!Serve
<1>1. Sync!Asked(event.kind) /\ event.kind \in DeviceKinds
  BY SameAsked DEF ServeNoDevice
<1>2. Sync!ServeNoDevice
  BY <1>1, SameDeliver DEF ServeNoDevice, Sync!ServeNoDevice, DeviceKinds, Response,
     Sync!Response
<1>3. QED
  BY <1>2 DEF Sync!Serve

LEMMA SameBoundary ==
  ASSUME MappedInv, Account
  PROVE  Sync!Account
<1>1. Sync!Running /\ event.type \in {"Step", "Break"}
  BY DEF Account, Live, Unfinished, Sync!Running, Sync!NoResult
<1>2. /\ stats' = [Sync!CoreTact(1) EXCEPT !.steps = @ + 1]
      /\ UNCHANGED stack
      /\ mark' = [ip |-> ip, fr |-> fr, calls |-> Sync!Records]
  BY DEF Account, CoreTact, Sync!CoreTact, Records, Sync!Records, FramesOn, Sync!FramesOn
<1>3. IF Sync!OverSteps(stats')
      THEN Sync!Finish("StepLimit", 0) /\ UNCHANGED event
      ELSE IF Sync!OverTacts(stats')
      THEN Sync!Finish("TactLimit", 0) /\ UNCHANGED event
      ELSE event' = Sync!Signal("Boundary") /\ UNCHANGED finished
  BY DEF Account, OverSteps, Sync!OverSteps, OverTacts, Sync!OverTacts, Total, Sync!Total,
     NoLimit, Sync!NoLimit, Finish, Sync!Finish, Signal, Sync!Signal
<1>4. UNCHANGED <<image, Sync!regs, Sync!frames, Sync!ctl, resp, limits, tapes>>
  BY DEF Account, regs, Sync!regs, frames, Sync!frames, ctl, Sync!ctl
<1>5. latchMark' = latchMark
  BY DEF Account
<1>6. UNCHANGED ~latchMark
  BY <1>5
<1>7. QED
  BY <1>1, <1>2, <1>3, <1>4, <1>6 DEF Sync!Account

LEMMA SameEnd ==
  ASSUME MappedInv, End
  PROVE  Sync!End
<1>1. Sync!Running /\ event.type \in {"Stopped", "Halted", "Trapped"}
  BY DEF End, Live, Unfinished, Sync!Running, Sync!NoResult
<1>2. /\ UNCHANGED <<stack, stats>>
      /\ IF event.type = "Trapped"
         THEN Sync!Finish(event.kind, event.val) ELSE Sync!Finish(event.type, 0)
  BY DEF End, Finish, Sync!Finish
<1>3. UNCHANGED <<Sync!coreVars, limits, tapes, mark>>
  BY DEF End, coreVars, Sync!coreVars, regs, Sync!regs, frames, Sync!frames, ctl, Sync!ctl,
     ports, Sync!ports, histVars
<1>4. latchMark' = latchMark
  BY DEF End
<1>5. UNCHANGED ~latchMark
  BY <1>4
<1>6. QED
  BY <1>1, <1>2, <1>3, <1>5 DEF Sync!End

-----------------------------------------------------------------------------
(* The session's own steps are invisible to the run. *)

LEMMA Unseen ==
  ASSUME UNCHANGED <<coreVars, limits, latchMark, stack, tapes, stats, finished, mark>>
  PROVE  UNCHANGED Sync!vars
<1>1. UNCHANGED ~latchMark
  OBVIOUS
<1>2. UNCHANGED Sync!coreVars
  BY DEF coreVars, Sync!coreVars, regs, Sync!regs, frames, Sync!frames, ctl, Sync!ctl, ports,
     Sync!ports
<1>3. UNCHANGED Sync!driverVars
  BY <1>1 DEF Sync!driverVars
<1>4. QED
  BY <1>2, <1>3 DEF Sync!vars

LEMMA SameResume ==
  ASSUME Resume
  PROVE  Sync!Resume
<1>1. UNCHANGED <<limits, latchMark, stack, tapes, stats, finished, mark>>
  BY DEF Resume, busVars, ctlVars, histVars
<1>2. UNCHANGED ~latchMark
  BY <1>1
<1>3. UNCHANGED Sync!driverVars
  BY <1>1, <1>2 DEF Sync!driverVars
<1>4. QED
  BY <1>3, SameCore DEF Resume, Sync!Resume

LEMMA SameBegin ==
  ASSUME MappedInv, Begin
  PROVE  Sync!Begin
<1>1. UNCHANGED <<limits, latchMark, stack, tapes, stats, finished, mark>>
  BY DEF Begin, busVars, ctlVars, histVars
<1>2. UNCHANGED ~latchMark
  BY <1>1
<1>3. UNCHANGED Sync!driverVars
  BY <1>1, <1>2 DEF Sync!driverVars
<1>4. Sync!Running /\ ~latchMark
  BY DEF Begin, MappedInv, LiveInv, Live, Unfinished, Sync!Running, Sync!NoResult
<1>5. Sync!Start
  BY DEF Begin, Start, Sync!Start, Request, Sync!Request, frames, Sync!frames
<1>6. QED
  BY <1>3, <1>4, <1>5 DEF Sync!Begin

\* The poll that answers the loading read is the loading step.
LEMMA SameLoad ==
  ASSUME MappedInv, LatchReady
  PROVE  Sync!Load
<1>1. Sync!Running /\ latchMark /\ ~latchMark'
  BY DEF LatchReady, MappedInv, LiveInv, Live, Unfinished, Sync!Running, Sync!NoResult
<1>2. mr' = IF Sync!TapeRead(tapes[0]) = 1 THEN 1 ELSE 0
  BY DEF LatchReady, TapeRead, Sync!TapeRead
<1>3. UNCHANGED <<image, ip, instrStart, tr, trLen, Sync!frames, Sync!ctl, Sync!ports,
                  limits, stack, tapes, stats, finished, mark>>
  BY DEF LatchReady, frames, Sync!frames, ctl, Sync!ctl, ports, Sync!ports, histVars
<1>4. (~latchMark)' = TRUE
  BY <1>1
<1>5. QED
  BY <1>1, <1>2, <1>3, <1>4 DEF Sync!Load

LEMMA SameInit == ASSUME Init PROVE Sync!Init
<1>1. Sync!CoreInit
  BY DEF Init, CoreInit, Sync!CoreInit, NoDesc, Sync!NoDesc, NoPend, Sync!NoPend, Pend,
     Sync!Pend, NoResp, Sync!NoResp, Response, Sync!Response, Signal, Sync!Signal
<1>2. latchMark = image.preload
  BY DEF Init
<1>3. (~latchMark) = ~image.preload
  BY <1>2
<1>4. Sync!DriverInit
  BY <1>3 DEF Init, Sync!DriverInit, Unfinished, Sync!NoResult
<1>5. QED
  BY <1>1, <1>4 DEF Sync!Init

LEMMA SameStep ==
  ASSUME SessionAssumption, Devices # 0, ModelPrices, MappedInv, [Next]_vars
  PROVE  [Sync!Next]_(Sync!vars)
<1>1. CASE ServeCode \/ ServePush \/ ServePop \/ ServeTable \/ ServeFrame
  BY <1>1, SameLocal DEF Sync!Next
<1>2. CASE ServeNoDevice \/ DeviceReady
  BY <1>2, SameNoDevice, SameDevice DEF Sync!Next
<1>3. CASE DeviceIssue \/ DevicePending
  BY <1>3, Unseen DEF DeviceIssue, DevicePending, StillPending, ctlVars, histVars
<1>4. CASE LatchIssue \/ LatchPending
  BY <1>4, Unseen DEF LatchIssue, LatchPending, StillPending, ctlVars, histVars
<1>5. CASE LatchReady \/ Begin \/ Resume
  BY <1>5, SameLoad, SameBegin, SameResume DEF Sync!Next
<1>6. CASE Account \/ End
  BY <1>6, SameBoundary, SameEnd DEF Sync!Next
<1>7. CASE Embedder \/ UNCHANGED vars
  BY <1>7, Unseen DEF Embedder, Pause, MoveBreakpoint, Stop, Pump, vars, busVars, ctlVars,
     histVars
<1>8. QED
  BY <1>1, <1>2, <1>3, <1>4, <1>5, <1>6, <1>7 DEF Next, PumpStep, Serve

\* Over devices that charge the model price or report none, the pumped session
\* is the synchronous run, tact for tact: whatever the latencies, the budgets,
\* the pauses and the breakpoints (docs/core.md, AsyncSession; session.rs).
THEOREM RunRefined == ASSUME Devices # 0, ModelPrices PROVE Spec => RefinesRun
<1>1. Init => MappedInv /\ Sync!Init
  <2> SUFFICES ASSUME Init PROVE MappedInv /\ Sync!Init
    OBVIOUS
  <2>1. LiveInv
    BY DEF Init, LiveInv, Pumping
  <2>2. QED
    BY <2>1, SessionAssumption, SessionStart, SameInit DEF MappedInv
<1>2. MappedInv /\ [Next]_vars => MappedInv'
  BY SessionAssumption, RespStep, BudgetStep, PauseStep, BreakStep, BusStep, LiveStep
     DEF MappedInv, SessionInv
<1>3. MappedInv /\ [Next]_vars => [Sync!Next]_(Sync!vars)
  BY SessionAssumption, SameStep
<1>4. QED
  BY <1>1, <1>2, <1>3, PTL DEF Spec, RefinesRun, Sync!Spec

=============================================================================
