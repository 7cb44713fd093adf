------------------------------- MODULE DebugSafety -----------------------------
(*****************************************************************************)
(* The interactive session keeps its promises, for every image, tape, limit, *)
(* breakpoint, budget and edit of the match register: it implements Stepper, *)
(* and a step that comes back from a call is in the caller's own frames.     *)
(*                                                                           *)
(* What a motion answers depends on what the instruction that retired was    *)
(* decoded to, which the core has consumed by then.  OpsInv keeps that link: *)
(* what is still to be done, or is reported, is in the instruction.          *)
(*****************************************************************************)
EXTENDS DebugSession, DriverSafety

-----------------------------------------------------------------------------
(* What the operations of the instruction in work come to. *)

Holds(list, name) == \E i \in DOMAIN list : list[i].op = name

Ends == {"Stop", "Halt"}

OpsInv ==
  /\ phase = "Execute" =>
       /\ \A name \in Ends : Holds(ops, name) => Holds(Here.ops, name)
       /\ Holds(Here.ops, "Brk") <=> brkPending \/ Holds(ops, "Brk")
  /\ phase \notin {"Execute", "Done"} => ~brkPending
  /\ event.type = "Step"  => ~Holds(Here.ops, "Brk")
  /\ event.type = "Break" => Holds(Here.ops, "Brk")
  /\ event.type = "Stopped" => mark.ip \in DOMAIN image.code /\ Holds(Here.ops, "Stop")
  /\ event.type = "Halted"  => mark.ip \in DOMAIN image.code /\ Holds(Here.ops, "Halt")
  /\ event.type = "Trapped" => event.kind \notin {"Stopped", "Halted"}
  /\ ~loaded => event.type = "Boundary"
  /\ mark.calls \in Seq(Activations)

RunningInv == ControlInv /\ (Running => OpsInv)

\* Taking the first operation off leaves the others.
LEMMA HoldsTail ==
  ASSUME NEW list \in Seq(MicroOps), list # <<>>, NEW name
  PROVE  /\ Holds(list, name) <=> Head(list).op = name \/ Holds(Tail(list), name)
         /\ Tail(list) \in Seq(MicroOps)
<1>1. /\ Len(list) \in Nat /\ Len(list) > 0 /\ DOMAIN list = 1..Len(list)
      /\ Len(Tail(list)) = Len(list) - 1 /\ DOMAIN Tail(list) = 1..Len(list) - 1
      /\ \A i \in 1..Len(list) - 1 : Tail(list)[i] = list[i + 1]
      /\ Head(list) = list[1] /\ Tail(list) \in Seq(MicroOps)
  OBVIOUS
<1>2. ASSUME Holds(list, name) PROVE Head(list).op = name \/ Holds(Tail(list), name)
  <2>1. PICK i \in 1..Len(list) : list[i].op = name
    BY <1>1, <1>2 DEF Holds
  <2>2. CASE i = 1
    BY <1>1, <2>1, <2>2
  <2>3. CASE i # 1
    <3>1. i - 1 \in 1..Len(list) - 1 /\ (i - 1) + 1 = i
      BY <1>1, <2>3
    <3>2. Tail(list)[i - 1].op = name
      BY <1>1, <2>1, <3>1
    <3>3. QED
      BY <1>1, <3>1, <3>2 DEF Holds
  <2>4. QED
    BY <2>2, <2>3
<1>3. ASSUME Head(list).op = name PROVE Holds(list, name)
  <2>1. 1 \in DOMAIN list
    BY <1>1
  <2>2. QED
    BY <1>1, <1>3, <2>1 DEF Holds
<1>4. ASSUME Holds(Tail(list), name) PROVE Holds(list, name)
  <2>1. PICK i \in 1..Len(list) - 1 : Tail(list)[i].op = name
    BY <1>1, <1>4 DEF Holds
  <2>2. i + 1 \in 1..Len(list)
    BY <1>1
  <2>3. QED
    BY <1>1, <2>1, <2>2 DEF Holds
<1>5. QED
  BY <1>1, <1>2, <1>3, <1>4

\* ReadAll expands into nothing but reads.
LEMMA HoldsRead ==
  ASSUME NEW rest \in Seq(MicroOps), NEW reads, NEW n \in Nat, NEW name, name # "Read",
         reads = [i \in 1..n |-> [op |-> "Read", a |-> i - 1, b |-> i - 1]]
  PROVE  Holds(reads \o rest, name) <=> Holds(rest, name)
<1> DEFINE both == reads \o rest
<1>1. /\ Len(reads) = n /\ Len(rest) \in Nat /\ DOMAIN rest = 1..Len(rest)
      /\ DOMAIN both = 1..n + Len(rest)
      /\ \A i \in 1..n : both[i] = reads[i]
      /\ \A i \in 1..Len(rest) : both[n + i] = rest[i]
  OBVIOUS
<1>2. \A i \in 1..n : reads[i].op = "Read"
  OBVIOUS
<1> HIDE DEF both
<1>3. ASSUME Holds(both, name) PROVE Holds(rest, name)
  <2>1. PICK i \in 1..n + Len(rest) : both[i].op = name
    BY <1>1, <1>3 DEF Holds
  <2>2. ~(i \in 1..n)
    BY <1>1, <1>2, <2>1
  <2>3. i - n \in 1..Len(rest) /\ n + (i - n) = i
    BY <1>1, <2>2
  <2>4. rest[i - n].op = name
    BY <1>1, <2>1, <2>3
  <2>5. QED
    BY <1>1, <2>3, <2>4 DEF Holds
<1>4. ASSUME Holds(rest, name) PROVE Holds(both, name)
  <2>1. PICK i \in 1..Len(rest) : rest[i].op = name
    BY <1>1, <1>4 DEF Holds
  <2>2. n + i \in 1..n + Len(rest)
    BY <1>1
  <2>3. QED
    BY <1>1, <2>1, <2>2 DEF Holds
<1>5. QED
  BY <1>3, <1>4 DEF both

\* A step that neither moves the mark nor consumes an operation, and reports
\* nothing but a trap.
LEMMA OpsKept ==
  ASSUME OpsInv, loaded, UNCHANGED <<image, mark, brkPending, loaded>>,
         (phase' = phase /\ ops' = ops) \/ phase' = "Done",
         \/ event' = event
         \/ event'.type \in {"Request", "Busy"}
         \/ event'.type = "Trapped" /\ event'.kind \notin {"Stopped", "Halted"}
  PROVE  OpsInv'
<1>1. Here' = Here
  BY DEF Here
<1>2. QED
  BY <1>1 DEF OpsInv, Holds

\* The core goes on only after the loading step, if there is one.
LEMMA CoreGoesOn ==
  ASSUME RunInv, CoreStep
  PROVE  /\ event.type \in {"Request", "Busy"}
         /\ FetchOpcode \/ FetchOperand \/ Settle => resp # NoResp
         /\ IssueOp \/ Retire => event = Busy
<1>1. FetchOpcode \/ FetchOperand \/ Settle => resp # NoResp
  BY DEF FetchOpcode, FetchOperand, Settle, SettleDone, SettleFault, SettleLatch,
     SettleRead, SettleEntCheck, SettlePush, SettleStackFull, SettlePushFrame,
     SettleCompose, SettleDirectory, SettleFrameLoad, SettleOutOfTable, SettlePop,
     SettlePopPair, SettleStackEmpty, SettleMatch, SettleDispatch, Delivered, NoResp,
     Response
<1>2. IssueOp \/ Retire => event = Busy
  BY DEF IssueOp, IssueNop, IssueBrk, IssueEnd, IssueRaise, IssueMove, IssueWrite,
     IssueLatch, IssueRead, IssueReadAll, IssueJump, IssueFallThrough, IssueCall,
     IssueRet, IssueRetX, IssueProfileViolation, IssueMatch, IssueDispatch, Retire, Due
<1>3. resp # NoResp => event.type = "Request"
  BY DEF RunInv, RespOK
<1>4. Busy.type = "Busy"
  BY DEF Busy, Signal
<1>5. QED
  BY <1>1, <1>2, <1>3, <1>4 DEF CoreStep

\* An instruction is fetched with all its operations and no break pending.
LEMMA FetchOps ==
  ASSUME RunningInv, Running, FetchOpcode \/ FetchOperand, UNCHANGED driverVars
  PROVE  OpsInv'
<1>1. ControlInv /\ OpsInv /\ Progress /\ RunInv
  BY ControlFacts DEF RunningInv, ControlInv
<1>2. CoreStep
  BY DEF CoreStep
<1>3. /\ phase \in {"FetchOpcode", "FetchOperand"} /\ resp # NoResp
      /\ event.type = "Request" /\ loaded
      /\ UNCHANGED <<image, mark, loaded, brkPending, instrStart>>
  BY <1>1, <1>2, CoreGoesOn DEF FetchOpcode, FetchOperand, driverVars, RunInv, RespOK, OpsInv
<1>4. ~brkPending /\ mark.ip = instrStart /\ Here' = Here
  BY <1>1, <1>3 DEF OpsInv, Progress, Here
<1>5. \/ phase' \in {"FetchOpcode", "FetchOperand"} /\ event'.type = "Request"
      \/ phase' = "Done" /\ event'.type = "Trapped"
         /\ event'.kind \notin {"Stopped", "Halted"}
      \/ phase' = "Execute" /\ event' = Busy /\ ops' = Here.ops
  <2>1. CASE FetchOpcode
    <3>1. resp.kind = "Byte" => resp.val = Here
      <4>1. event = Request("CodeRead", 0, ip) /\ instrStart = ip
        BY <1>1, <1>3, <2>1 DEF FetchOpcode, RunInv, EventOK
      <4>2. Answers
        BY <1>1, <1>3 DEF RunInv, RespOK
      <4>3. QED
        BY <1>4, <4>1, <4>2 DEF Answers, Request, Here
    <3>2. QED
      BY <2>1, <3>1 DEF FetchOpcode, FinishFetch, Ask, Trap, Trapped, Request
  <2>2. CASE FetchOperand
    BY <1>3, <1>4, <2>2 DEF FetchOperand, FinishFetch, Ask, Trap, Trapped, Request, Here
  <2>3. QED
    BY <2>1, <2>2
<1>6. mark'.calls \in Seq(Activations)
  BY <1>1, <1>3 DEF OpsInv
<1>7. QED
  BY <1>3, <1>4, <1>5, <1>6 DEF OpsInv, Busy, Signal

\* Settling a request consumes no operation.
LEMMA SettleOps ==
  ASSUME RunningInv, Running, Settle, UNCHANGED driverVars
  PROVE  OpsInv'
<1>1. ControlInv /\ OpsInv /\ RunInv /\ CoreStep
  BY ControlFacts DEF RunningInv, CoreStep
<1>2. UNCHANGED <<image, mark, loaded, brkPending>> /\ loaded
  <2>1. loaded
    BY <1>1, CoreGoesOn DEF OpsInv
  <2>2. UNCHANGED <<image, brkPending>>
    BY DEF Settle, SettleDone, SettleFault, SettleLatch, SettleRead, SettleEntCheck,
       SettlePush, SettleStackFull, SettlePushFrame, SettleCompose, SettleDirectory,
       SettleFrameLoad, SettleOutOfTable, SettlePop, SettlePopPair, SettleStackEmpty,
       SettleMatch, SettleDispatch
  <2>3. QED
    BY <2>1, <2>2 DEF driverVars
<1>3. (phase' = phase /\ ops' = ops) \/ phase' = "Done"
  BY DEF Settle, SettleDone, SettleFault, SettleLatch, SettleRead, SettleEntCheck,
     SettlePush, SettleStackFull, SettlePushFrame, SettleCompose, SettleDirectory,
     SettleFrameLoad, SettleOutOfTable, SettlePop, SettlePopPair, SettleStackEmpty,
     SettleMatch, SettleDispatch, Settled, Trap
<1>4. \/ event'.type \in {"Request", "Busy"}
      \/ event'.type = "Trapped" /\ event'.kind \notin {"Stopped", "Halted"}
  BY DEF Settle, SettleDone, SettleFault, SettleLatch, SettleRead, SettleEntCheck,
     SettlePush, SettleStackFull, SettlePushFrame, SettleCompose, SettleDirectory,
     SettleFrameLoad, SettleOutOfTable, SettlePop, SettlePopPair, SettleStackEmpty,
     SettleMatch, SettleDispatch, Settled, Trap, Ask, Trapped, Request, Busy, Signal
<1>5. QED
  BY <1>1, <1>2, <1>3, <1>4, OpsKept

\* Issuing takes the first operation off, or ends in what it says.
LEMMA IssueOps ==
  ASSUME RunningInv, Running, IssueOp, UNCHANGED driverVars
  PROVE  OpsInv'
<1>1. ControlInv /\ OpsInv /\ Progress /\ RunInv /\ CoreStep
  BY ControlFacts DEF RunningInv, CoreStep, ControlInv
<1>2. event = Busy /\ loaded /\ UNCHANGED <<image, mark, loaded>> /\ ops # <<>>
  <2>1. event = Busy /\ loaded
    BY <1>1, CoreGoesOn DEF OpsInv
  <2>2. UNCHANGED image /\ ops # <<>>
    BY DEF IssueOp, IssueNop, IssueBrk, IssueEnd, IssueRaise, IssueMove, IssueWrite,
       IssueLatch, IssueRead, IssueReadAll, IssueJump, IssueFallThrough, IssueCall,
       IssueRet, IssueRetX, IssueProfileViolation, IssueMatch, IssueDispatch, Due
  <2>3. QED
    BY <2>1, <2>2 DEF driverVars
<1>3. /\ phase = "Execute" /\ ops \in Seq(MicroOps) /\ Tail(ops) \in Seq(MicroOps)
      /\ mark.ip \in DOMAIN image.code /\ Here' = Here
  BY <1>1, <1>2, DueOp DEF Progress, Here, RunInv
<1>4. \A name : Holds(ops, name) <=> Head(ops).op = name \/ Holds(Tail(ops), name)
  BY <1>2, <1>3, HoldsTail
<1>5. mark'.calls \in Seq(Activations)
  BY <1>1, <1>2 DEF OpsInv
<1>6. CASE /\ phase' = "Execute" /\ event'.type \in {"Busy", "Request"}
           /\ \A name \in Ends \cup {"Brk"} : Holds(ops', name) <=> Holds(Tail(ops), name)
           /\ brkPending' <=> brkPending \/ Head(ops).op = "Brk"
  BY <1>1, <1>2, <1>3, <1>4, <1>5, <1>6 DEF OpsInv, Ends
<1>7. CASE IssueNop \/ IssueBrk \/ IssueJump \/ IssueFallThrough
  <2>1. CASE phase' = "Done"
    <3>1. /\ event'.type = "Trapped" /\ event'.kind = "CodeOutOfBounds"
          /\ UNCHANGED brkPending
      BY <1>3, <1>7, <2>1 DEF IssueNop, IssueBrk, IssueJump, IssueFallThrough, Continue,
         IssueTrap, Trap, Trapped
    <3>2. QED
      BY <1>1, <1>2, <2>1, <3>1, OpsKept
  <2>2. CASE phase' # "Done"
    <3>1. /\ phase' = phase /\ event' = event /\ ops' = Tail(ops)
          /\ brkPending' <=> brkPending \/ Head(ops).op = "Brk"
      BY <1>1, <1>7, <2>2 DEF IssueNop, IssueBrk, IssueJump, IssueFallThrough, Continue,
         IssueTrap, Trap, Due, RunInv, TypeOK
    <3>2. QED
      BY <1>2, <1>3, <1>6, <3>1 DEF Busy, Signal
  <2>3. QED
    BY <2>1, <2>2
<1>8. CASE IssueEnd
  <2>1. /\ phase' = "Done"
        /\ \/ Head(ops).op = "Stop" /\ event'.type = "Stopped"
           \/ Head(ops).op = "Halt" /\ event'.type = "Halted"
    BY <1>8 DEF IssueEnd, Due, Signal
  <2>2. Holds(ops, Head(ops).op)
    BY <1>4
  <2>3. \/ Holds(Here.ops, "Stop") /\ event'.type = "Stopped"
        \/ Holds(Here.ops, "Halt") /\ event'.type = "Halted"
    BY <1>1, <1>3, <2>1, <2>2 DEF OpsInv, Ends
  <2>4. QED
    BY <1>2, <1>3, <1>5, <2>1, <2>3 DEF OpsInv
<1>9. CASE IssueReadAll
  <2> DEFINE width == IF fr = 0 THEN image.devices ELSE Len(cache.entries)
             reads == [i \in 1..width |-> [op |-> "Read", a |-> i - 1, b |-> i - 1]]
  <2>1. /\ ops' = reads \o Tail(ops) /\ UNCHANGED <<phase, event, brkPending>>
        /\ Head(ops).op = "ReadAll"
    BY <1>9 DEF IssueReadAll, Due
  <2>2. width \in Nat
    BY <1>1 DEF RunInv, TypeOK, WellFormed, Descriptors
  <2> HIDE DEF width
  <2>3. \A name \in Ends \cup {"Brk"} : Holds(reads \o Tail(ops), name) <=> Holds(Tail(ops), name)
    <3>1. ASSUME NEW name \in Ends \cup {"Brk"}
          PROVE  Holds(reads \o Tail(ops), name) <=> Holds(Tail(ops), name)
      <4>1. name # "Read"
        BY DEF Ends
      <4>2. QED
        BY <1>3, <2>2, <4>1, HoldsRead
    <3>2. QED
      BY <3>1
  <2>4. QED
    BY <1>2, <1>3, <1>6, <2>1, <2>3 DEF Busy, Signal
<1>10. CASE IssueRaise \/ IssueProfileViolation
  <2>1. /\ phase' = "Done" /\ event'.type = "Trapped" /\ UNCHANGED brkPending
        /\ event'.kind \in {"UnmappedRead", "UnmappedWrite", "ProfileViolation"}
    BY <1>10 DEF IssueRaise, IssueProfileViolation, IssueTrap, Trap, Trapped
  <2>2. QED
    BY <1>1, <1>2, <2>1, OpsKept
<1>11. CASE IssueMove \/ IssueWrite \/ IssueLatch \/ IssueRead \/ IssueCall \/ IssueRet
            \/ IssueRetX \/ IssueMatch \/ IssueDispatch
  <2>1. UNCHANGED brkPending /\ Head(ops).op # "Brk"
    BY <1>11 DEF IssueMove, IssueWrite, IssueLatch, IssueRead, IssueCall, IssueRet,
       IssueRetX, IssueMatch, IssueDispatch, Due
  <2>2. \/ phase' = phase /\ event'.type = "Request" /\ ops' = Tail(ops)
        \/ phase' = "Done" /\ event'.type = "Trapped"
           /\ event'.kind \notin {"Stopped", "Halted"}
    <3>1. IssueMove \/ IssueWrite \/ IssueLatch \/ IssueRead =>
            \/ phase' = phase /\ event'.type = "Request" /\ ops' = Tail(ops)
            \/ phase' = "Done" /\ event'.type = "Trapped"
               /\ event'.kind \notin {"Stopped", "Halted"}
      BY DEF IssueMove, IssueWrite, IssueLatch, IssueRead, Issue, IssueTrap, Ask, Trap,
         Trapped, Request
    <3>2. IssueCall \/ IssueRet \/ IssueRetX \/ IssueMatch \/ IssueDispatch =>
            \/ phase' = phase /\ event'.type = "Request" /\ ops' = Tail(ops)
            \/ phase' = "Done" /\ event'.type = "Trapped"
               /\ event'.kind \notin {"Stopped", "Halted"}
      BY DEF IssueCall, IssueRet, IssueRetX, IssueMatch, IssueDispatch, Issue, IssueTrap,
         Ask, Trap, Trapped, Request
    <3>3. QED
      BY <1>11, <3>1, <3>2
  <2>3. CASE phase' = "Done" /\ event'.type = "Trapped"
             /\ event'.kind \notin {"Stopped", "Halted"}
    BY <1>1, <1>2, <2>1, <2>3, OpsKept
  <2>4. CASE phase' = phase /\ event'.type = "Request" /\ ops' = Tail(ops)
    BY <1>3, <1>6, <2>1, <2>4
  <2>5. QED
    BY <2>2, <2>3, <2>4
<1>12. QED
  BY <1>7, <1>8, <1>9, <1>10, <1>11 DEF IssueOp

\* A retired instruction is reported as a break if it asked for one.
LEMMA RetireOps ==
  ASSUME RunningInv, Running, Retire, UNCHANGED driverVars
  PROVE  OpsInv'
<1>1. ControlInv /\ OpsInv /\ RunInv /\ CoreStep
  BY ControlFacts DEF RunningInv, CoreStep
<1>2. /\ event = Busy /\ ops = <<>> /\ phase' = "StepAck" /\ ~brkPending'
      /\ event'.type = IF brkPending THEN "Break" ELSE "Step"
      /\ UNCHANGED <<image, mark, loaded>>
  BY DEF Retire, Signal, driverVars
<1>3. phase = "Execute" /\ loaded
  BY <1>1, <1>2, CoreGoesOn DEF RunInv, TypeOK, EventOK, Busy, Signal, Request, OpsInv
<1>4. ~Holds(ops, "Brk")
  BY <1>2 DEF Holds
<1>5. Holds(Here.ops, "Brk") <=> brkPending
  BY <1>1, <1>3, <1>4 DEF OpsInv
<1>6. Here' = Here /\ mark'.calls \in Seq(Activations)
  BY <1>1, <1>2 DEF Here, OpsInv
<1>7. QED
  BY <1>2, <1>3, <1>5, <1>6 DEF OpsInv

\* The driver reads what the core reports and answers its requests.
LEMMA DriverOps ==
  ASSUME RunningInv, Running, Load \/ Begin \/ Serve \/ UNCHANGED vars
  PROVE  OpsInv'
<1>1. ControlInv /\ OpsInv /\ RunInv
  BY ControlFacts DEF RunningInv
<1>2. CASE Load
  <2>1. loaded' = TRUE /\ UNCHANGED <<image, mark, phase, ops, brkPending, event>>
    BY <1>2 DEF Load, ctl, ports
  <2>2. QED
    BY <1>1, <2>1 DEF OpsInv, Here, Holds
<1>3. CASE Begin
  <2>1. /\ event.type = "Boundary" /\ loaded /\ phase' = "FetchOpcode"
        /\ event'.type = "Request" /\ UNCHANGED <<mark, loaded, brkPending>>
    BY <1>3 DEF Begin, Start, Request, driverVars
  <2>2. phase \notin {"Execute", "Done"}
    BY <1>1, <2>1 DEF RunInv, EventOK, Busy, Signal
  <2>3. QED
    BY <1>1, <2>1, <2>2 DEF OpsInv
<1>4. CASE Serve
  <2>1. event.type = "Request"
    BY <1>4 DEF Serve, ServeCode, ServePush, ServePop, ServeMove, ServeRead, ServeWrite,
       ServeNoDevice, ServeTable, ServeFrame, ServeRom, Asked
  <2>2. UNCHANGED <<image, mark, phase, ops, brkPending, event, loaded>>
    BY <1>4 DEF Serve, ServeCode, ServePush, ServePop, ServeMove, ServeRead, ServeWrite,
       ServeNoDevice, ServeTable, ServeFrame, ServeRom, Deliver, ctl
  <2>3. QED
    BY <1>1, <2>1, <2>2, OpsKept DEF OpsInv
<1>5. CASE UNCHANGED vars
  <2>1. UNCHANGED <<image, mark, phase, ops, brkPending, event, loaded>>
    BY <1>5 DEF vars, coreVars, ctl, ports, driverVars
  <2>2. QED
    BY <1>1, <2>1 DEF OpsInv, Here, Holds
<1>6. QED
  BY <1>2, <1>3, <1>4, <1>5

\* Records of a retired instruction: both stacks are in step again.
LEMMA RetiredRecords ==
  ASSUME RunningInv, Account
  PROVE  /\ ControlInv /\ Running /\ Reach(ip, fr, Records)
         /\ Records \in Seq(Activations) /\ Len(Records) = Len(stack)
         /\ \A i \in 1..Len(stack) : Records[i].ret = stack[i]
<1>1. ControlInv /\ Running /\ Progress /\ event.type \in {"Step", "Break"}
  BY DEF RunningInv, Account, ControlInv
<1>2. /\ RunInv /\ StacksInStep /\ stack \in Seq(Nat) /\ frStack \in Seq(Nat)
      /\ Len(stack) \in Nat
  BY <1>1, ControlFacts
<1>3. phase = "StepAck"
  BY <1>1, <1>2 DEF RunInv, TypeOK, EventOK, Request, Busy, Signal
<1>4. pending.kind = "None"
  BY <1>2, <1>3 DEF RunInv, EventOK, NoPend, Pend
<1>5. FramesOn => Len(stack) <= Len(frStack)
  BY <1>1, <1>2, <1>4 DEF StacksInStep, PushInFlight, PopInFlight
<1>6. /\ Records \in Seq(Activations) /\ Len(Records) = Len(stack)
      /\ \A i \in 1..Len(stack) : Records[i].ret = stack[i]
  <2> DEFINE on == FramesOn
  <2>1. on => Len(stack) <= Len(frStack)
    BY <1>5
  <2>2. Records = RecordsOf(stack, frStack, on)
    BY RecordsAre
  <2> HIDE DEF on
  <2>3. /\ RecordsOf(stack, frStack, on) \in Seq(Activations)
        /\ Len(RecordsOf(stack, frStack, on)) = Len(stack)
        /\ \A i \in 1..Len(stack) :
             RecordsOf(stack, frStack, on)[i]
               = [ret |-> stack[i], frame |-> IF on THEN frStack[i] ELSE 0]
    BY <1>2, <2>1, RecordsTyped
  <2>4. ASSUME NEW i \in 1..Len(stack) PROVE Records[i].ret = stack[i]
    <3>1. Records[i] = [ret |-> stack[i], frame |-> IF on THEN frStack[i] ELSE 0]
      BY <2>2, <2>3
    <3>2. QED
      BY <3>1
  <2>5. QED
    BY <2>2, <2>3, <2>4
<1>7. Reach(ip, fr, Records)
  BY <1>1 DEF Progress
<1>8. QED
  BY <1>1, <1>6, <1>7

\* At the boundary nothing of the instruction is left to do.
LEMMA AccountOps ==
  ASSUME RunningInv, Account, Running'
  PROVE  OpsInv'
<1>1. ControlInv /\ OpsInv /\ RunInv /\ Running
  BY ControlFacts DEF RunningInv, Account
<1>2. /\ event.type \in {"Step", "Break"} /\ event'.type = "Boundary"
      /\ mark'.calls = Records /\ UNCHANGED <<phase, brkPending, loaded>>
  BY DEF Account, Finish, Running, NoResult, ctl, Signal
<1>3. phase = "StepAck"
  BY <1>1, <1>2 DEF RunInv, TypeOK, EventOK, Request, Busy, Signal
<1>4. QED
  BY <1>1, <1>2, <1>3, RetiredRecords DEF OpsInv

\* The link between the operations and the instruction holds throughout a run.
LEMMA RunningStart == Init => RunningInv
<1>1. Init => /\ phase = "FetchOpcode" /\ event.type = "Boundary" /\ ~brkPending
              /\ mark.calls = <<>>
  BY DEF Init, CoreInit, DriverInit, Signal
<1>2. Init => OpsInv
  <2>1. <<>> \in Seq(Activations)
    OBVIOUS
  <2>2. QED
    BY <1>1, <2>1 DEF OpsInv
<1>3. QED
  BY <1>2, ControlStart DEF RunningInv

LEMMA RunningStep == RunningInv /\ [Next]_vars => RunningInv'
<1>1. SUFFICES ASSUME RunningInv, [Next]_vars PROVE RunningInv'
  OBVIOUS
<1>2. ControlInv'
  BY <1>1, ControlStep DEF RunningInv
<1>3. ASSUME Running' PROVE OpsInv'
  <2>1. Running /\ ~End
    BY <1>1, <1>3, RunningBefore
  <2>2. CASE Resume
    BY <1>1, <2>1, <2>2, FetchOps, SettleOps, IssueOps, RetireOps DEF Resume, CoreStep
  <2>3. CASE Account
    BY <1>1, <1>3, <2>3, AccountOps
  <2>4. QED
    BY <1>1, <2>1, <2>2, <2>3, DriverOps DEF Next
<1>4. QED
  BY <1>2, <1>3 DEF RunningInv

-----------------------------------------------------------------------------
(* The session between its motions.                                          *)

Kinds   == {"None", "In", "Over", "Until"}
Motions == [kind : Kinds, until : Int, budget : Int]

RestInv ==
  /\ breakpoints \subseteq Nat
  /\ motion \in Motions
  /\ ~Idle => motion.kind # "None" /\ Running
  /\ Idle /\ Running => event.type = "Boundary"

DebugInv == RunningInv /\ RestInv

\* The match register is the client's to write: nothing relies on what it holds.
LEMMA MatchIsFree ==
  ASSUME RunningInv, mr' \in Nat,
         UNCHANGED <<image, ip, instrStart, tr, trLen, frames, ctl, ports, driverVars>>
  PROVE  RunningInv'
<1>1. /\ UNCHANGED <<image, ip, instrStart, tr, trLen, fr, cache, frStack, phase, ops>>
      /\ UNCHANGED <<pending, brkPending, event, resp, limits, loaded, stack, tapes, stats>>
      /\ UNCHANGED <<result, mark>>
  BY DEF frames, ctl, ports, driverVars
<1>2. RunInv'
  <2>1. RunInv
    BY ControlFacts DEF RunningInv
  <2>2. TypeOK'
    BY <1>1, <2>1 DEF RunInv, TypeOK
  <2>3. PendingOK' /\ EventOK' /\ RespOK'
    BY <1>1, <2>1 DEF RunInv, PendingOK, EventOK, RespOK, AsksFor, Answers
  <2>4. QED
    BY <1>1, <2>1, <2>2, <2>3 DEF RunInv
<1>3. StackInv' /\ Profiled'
  <2>1. StacksInStep' /\ (FramesOn => pending.kind # "Pop")'
    BY <1>1 DEF RunningInv, ControlInv, StackInv, StacksInStep, PushInFlight, PopInFlight,
       Running, FramesOn
  <2>2. QED
    BY <1>1, <1>2, <2>1 DEF RunningInv, ControlInv, StackInv, Profiled, FramesOn
<1>4. CacheInv'
  BY <1>1, <1>2 DEF RunningInv, ControlInv, CacheInv, CacheCoherent, LoadingOK, Loading,
     DescriptorOf, DirectoryAddr, DescriptorAddr
<1>5. Records' = Records /\ Here' = Here
  BY <1>1, RecordsKept DEF Here
<1>6. Running' = Running /\ (OpsInv => OpsInv')
  BY <1>1, <1>5 DEF Running, OpsInv, Holds
<1>7. ASSUME Running PROVE Progress'
  BY <1>1, <1>7, ProgressKept DEF RunningInv
<1>8. QED
  BY <1>2, <1>3, <1>4, <1>6, <1>7 DEF RunningInv, ControlInv

\* Two boundaries with the same stacks: nothing was pushed since.
LEMMA AtBoundary ==
  ASSUME RunningInv, Running, event.type = "Boundary"
  PROVE  /\ mark.ip = ip /\ Len(mark.calls) = Len(stack) /\ Len(stack) \in Nat
         /\ mark.calls \in Seq(Activations) /\ stack \in Seq(Nat)
         /\ \A i \in 1..Len(stack) : mark.calls[i].ret = stack[i]
<1>1. /\ Progress /\ RunInv /\ OpsInv /\ stack \in Seq(Nat) /\ Len(stack) \in Nat
  BY ControlFacts DEF RunningInv, ControlInv
<1>2. mark.ip = ip /\ mark.calls = Records
  BY <1>1 DEF Progress, Unmoved, Stays
<1>3. Len(Records) = Len(stack) /\ \A i \in 1..Len(stack) : Records[i].ret = stack[i]
  <2> DEFINE on == FramesOn
  <2>1. Records = [i \in 1..Len(stack) |->
                     [ret |-> stack[i], frame |-> IF on THEN frStack[i] ELSE 0]]
    BY DEF Records
  <2> HIDE DEF on
  <2>2. \A i \in 1..Len(stack) : Records[i].ret = stack[i]
    BY <2>1
  <2>3. DOMAIN Records = 1..Len(stack) /\ DOMAIN Records = 1..Len(Records)
        /\ Len(Records) \in Nat
    BY <1>1, <1>2, <2>1 DEF OpsInv
  <2>4. QED
    BY <1>1, <2>2, <2>3
<1>4. QED
  BY <1>1, <1>2, <1>3 DEF OpsInv

-----------------------------------------------------------------------------
(* What a step of the run is to the session.                                 *)

\* The end of a run, as the session reports it.
Ended ==
  /\ result' # NoResult
  /\ \/ Account /\ result'.outcome \in {"StepLimit", "TactLimit"}
     \/ /\ UNCHANGED <<image, mark>>
        /\ \/ result'.outcome \notin {"Stopped", "Halted"}
           \/ mark.ip \in DOMAIN image.code /\ Holds(Here.ops, "Stop")
              /\ result'.outcome = "Stopped"
           \/ mark.ip \in DOMAIN image.code /\ Holds(Here.ops, "Halt")
              /\ result'.outcome = "Halted"

\* Between a boundary and the retirement of its instruction.
Within ==
  Running' /\ event.type \notin {"Step", "Break"} /\ UNCHANGED <<image, mark>>

LEMMA RunCases ==
  ASSUME RunningInv, Running, Next
  PROVE  (Account /\ Running') \/ Ended \/ Within
<1>1. OpsInv /\ RunInv
  BY ControlFacts DEF RunningInv
<1>2. CASE Account
  <2>1. ~Running' => result' # NoResult /\ result'.outcome \in {"StepLimit", "TactLimit"}
    BY <1>2 DEF Account, Finish, Running, NoResult
  <2>2. QED
    BY <1>2, <2>1 DEF Ended
<1>3. CASE Serve
  <2>1. event.type = "Request" /\ UNCHANGED <<image, mark>>
    BY <1>3 DEF Serve, ServeCode, ServePush, ServePop, ServeMove, ServeRead, ServeWrite,
       ServeNoDevice, ServeTable, ServeFrame, ServeRom, Asked, Deliver
  <2>2. ~Running' => result' # NoResult /\ result'.outcome = "TactLimit"
    BY <1>3 DEF Serve, ServeCode, ServePush, ServePop, ServeMove, ServeRead, ServeWrite,
       ServeNoDevice, ServeTable, ServeFrame, ServeRom, Deliver, Finish, Running, NoResult
  <2>3. QED
    BY <2>1, <2>2 DEF Ended, Within
<1>4. CASE End
  <2>1. /\ UNCHANGED <<image, mark>> /\ event.type \in {"Stopped", "Halted", "Trapped"}
        /\ result' # NoResult
        /\ result'.outcome = IF event.type = "Trapped" THEN event.kind ELSE event.type
    BY <1>4 DEF End, Finish, NoResult, coreVars
  <2>2. QED
    BY <1>1, <2>1 DEF OpsInv, Ended
<1>5. CASE Load
  <2>1. Running' /\ UNCHANGED <<image, mark>> /\ event.type = "Boundary"
    BY <1>1, <1>5 DEF Load, OpsInv, Running
  <2>2. QED
    BY <2>1 DEF Within
<1>6. CASE Begin
  <2>1. Running' /\ UNCHANGED <<image, mark>> /\ event.type = "Boundary"
    BY <1>6 DEF Begin, Start, driverVars, Running
  <2>2. QED
    BY <2>1 DEF Within
<1>7. CASE Resume
  <2>1. Running' /\ UNCHANGED mark /\ event.type \in {"Request", "Busy"}
    BY <1>1, <1>7, CoreGoesOn DEF Resume, driverVars, Running
  <2>2. UNCHANGED image
    BY <1>7 DEF Resume, CoreStep, FetchOpcode, FetchOperand, Settle, SettleDone,
       SettleFault, SettleLatch, SettleRead, SettleEntCheck, SettlePush,
       SettleStackFull, SettlePushFrame, SettleCompose, SettleDirectory,
       SettleFrameLoad, SettleOutOfTable, SettlePop, SettlePopPair, SettleStackEmpty,
       SettleMatch, SettleDispatch, IssueOp, IssueNop, IssueBrk, IssueEnd, IssueRaise,
       IssueMove, IssueWrite, IssueLatch, IssueRead, IssueReadAll, IssueJump,
       IssueFallThrough, IssueCall, IssueRet, IssueRetX, IssueProfileViolation,
       IssueMatch, IssueDispatch, Retire
  <2>3. QED
    BY <2>1, <2>2 DEF Within
<1>8. QED
  BY <1>2, <1>3, <1>4, <1>5, <1>6, <1>7 DEF Next

\* The three kinds of moment of a motion.
LEMMA AdvanceCases ==
  ASSUME DebugInv, Advance
  PROVE  /\ ~Idle /\ Running /\ RunningInv /\ [Next]_vars
         /\ motion \in Motions /\ motion.kind # "None"
         /\ UNCHANGED <<breakpoints, since>>
         /\ \/ Account /\ Running' /\ Retired
            \/ Ended /\ SettleEnd
            \/ Within /\ UNCHANGED <<motion, answer>>
<1>1. ~Idle /\ Running /\ RunningInv /\ Next /\ motion \in Motions /\ motion.kind # "None"
  BY DEF DebugInv, RestInv, Advance
<1>2. (Account /\ Running') \/ Ended \/ Within
  BY <1>1, RunCases
<1>3. CASE Account /\ Running'
  BY <1>1, <1>3 DEF Advance, Account, Running
<1>4. CASE Ended
  BY <1>1, <1>4 DEF Advance, Ended
<1>5. CASE Within
  BY <1>1, <1>5 DEF Advance, Within, Running
<1>6. QED
  BY <1>1, <1>2, <1>3, <1>4, <1>5 DEF Advance

\* What a motion goes on with when an instruction has retired.
LEMMA RetiredMotion ==
  ASSUME motion \in Motions, motion.kind # "None", Retired
  PROVE  motion' = NoMotion \/ (motion' \in Motions /\ motion'.kind = "Until")
<1>1. motion.kind \in {"In", "Over", "Until"} /\ motion.until \in Int /\ motion.budget \in Int
      /\ motion = [kind |-> motion.kind, until |-> motion.until, budget |-> motion.budget]
  BY DEF Motions, Kinds
<1>2. CASE event.type = "Break" \/ motion.kind = "In"
  BY <1>2 DEF Retired, Answer
<1>3. CASE event.type # "Break" /\ motion.kind = "Over"
  <2>1. motion' = NoMotion \/ motion' = [motion EXCEPT !.kind = "Until"]
    BY <1>3 DEF Retired, Answer
  <2>2. [motion EXCEPT !.kind = "Until"] \in Motions
        /\ [motion EXCEPT !.kind = "Until"].kind = "Until"
    BY <1>1 DEF Motions, Kinds
  <2>3. QED
    BY <2>1, <2>2
<1>4. CASE event.type # "Break" /\ motion.kind = "Until"
  <2>1. \/ motion' = NoMotion \/ motion' = motion
        \/ motion' = [motion EXCEPT !.budget = @ - 1]
    BY <1>4 DEF Retired, RunUntil, Answer, GoOn
  <2>2. [motion EXCEPT !.budget = @ - 1] \in Motions
        /\ [motion EXCEPT !.budget = @ - 1].kind = "Until"
    BY <1>1, <1>4 DEF Motions, Kinds
  <2>3. QED
    BY <1>4, <2>1, <2>2
<1>5. QED
  BY <1>1, <1>2, <1>3, <1>4

LEMMA NoMotionFacts ==
  /\ NoMotion \in Motions /\ NoMotion.kind = "None"
  /\ \A kind \in Kinds, until \in Int, budget \in Int :
       Motion(kind, until, budget) \in Motions /\ Motion(kind, until, budget).kind = kind
BY DEF NoMotion, Motion, Motions, Kinds, NoDepth, NoBudget

\* The motions a client can ask for.
Requested(m) ==
  \/ m = Motion("In", NoDepth, NoBudget) /\ StepIn
  \/ m = Motion("Over", Len(stack), NoBudget) /\ StepOver
  \/ /\ m = Motion("Until", IF stack = <<>> THEN NoDepth ELSE Len(stack) - 1, NoBudget)
     /\ StepOut
  \/ m = Motion("Until", NoDepth, NoBudget) /\ Continue_
  \/ \E budget \in StepBudgets : m = Motion("Until", NoDepth, budget) /\ RunSteps(budget)

LEMMA AskedMotion ==
  ASSUME DebugInv, NEW m, Requested(m)
  PROVE  m \in Motions /\ m.kind # "None" /\ Command(m)
<1>1. Len(stack) \in Nat
  BY ControlFacts DEF DebugInv, RunningInv
<1>2. NoDepth \in Int /\ NoBudget \in Int /\ StepBudgets \subseteq Int
      /\ Len(stack) - 1 \in Int
  BY <1>1, SessionAssumption DEF NoDepth, NoBudget
<1>3. m \in Motions /\ m.kind # "None"
  BY <1>1, <1>2, NoMotionFacts DEF Requested, Kinds
<1>4. Command(m)
  BY DEF Requested, StepIn, StepOver, StepOut, Continue_, RunSteps
<1>5. QED
  BY <1>3, <1>4

LEMMA CommandsAsk ==
  ASSUME StepIn \/ StepOver \/ StepOut \/ Continue_ \/ \E budget \in StepBudgets : RunSteps(budget)
  PROVE  \E m : Requested(m)
BY DEF Requested

\* The session rests at a boundary, or has ended.
LEMMA DebugStart == SessionInit => DebugInv
<1>1. SessionInit => RunningInv
  BY RunningStart DEF SessionInit
<1>2. SessionInit => event.type = "Boundary"
  BY DEF SessionInit, Init, CoreInit, Signal
<1>3. SessionInit => RestInv
  BY <1>2, NoMotionFacts DEF SessionInit, RestInv, Idle
<1>4. QED
  BY <1>1, <1>3 DEF DebugInv

LEMMA DebugStep == DebugInv /\ [SessionNext]_sessionVars => DebugInv'
<1>1. SUFFICES ASSUME DebugInv, [SessionNext]_sessionVars PROVE DebugInv'
  OBVIOUS
<1>2. ASSUME UNCHANGED vars PROVE RunningInv' /\ UNCHANGED <<result, event>>
  <2>1. UNCHANGED <<result, event>>
    BY <1>2 DEF vars, coreVars, driverVars, ports
  <2>2. QED
    BY <1>1, <1>2, <2>1, RunningStep DEF DebugInv
<1>3. CASE UNCHANGED sessionVars
  BY <1>1, <1>2, <1>3 DEF sessionVars, debugVars, DebugInv, RestInv, Idle, Running
<1>4. ASSUME NEW addr \in BreakAddrs, AddBreakpoint(addr) \/ RemoveBreakpoint(addr)
      PROVE  DebugInv'
  <2>1. UNCHANGED <<vars, motion>> /\ breakpoints' \subseteq breakpoints \cup {addr}
    BY <1>4 DEF AddBreakpoint, RemoveBreakpoint
  <2>2. addr \in Nat
    BY SessionAssumption
  <2>3. QED
    BY <1>1, <1>2, <2>1, <2>2 DEF DebugInv, RestInv, Idle, Running
<1>5. ASSUME NEW value \in MatchEdits, SetMatch(value) PROVE DebugInv'
  <2>1. mr' \in Nat
    BY <1>5, SessionAssumption DEF SetMatch
  <2>2. RunningInv'
    BY <1>1, <1>5, <2>1, MatchIsFree DEF SetMatch, DebugInv
  <2>3. UNCHANGED <<breakpoints, motion, result, event>>
    BY <1>5 DEF SetMatch, debugVars, driverVars, ports
  <2>4. QED
    BY <1>1, <2>2, <2>3 DEF DebugInv, RestInv, Idle, Running
<1>6. ASSUME NEW m, Requested(m) PROVE DebugInv'
  <2>1. m \in Motions /\ m.kind # "None" /\ Command(m)
    BY <1>1, <1>6, AskedMotion
  <2>2. /\ Idle /\ UNCHANGED <<vars, breakpoints>>
        /\ motion' = NoMotion \/ (motion' = m /\ Running)
    BY <2>1 DEF Command, Answer
  <2>3. RunningInv' /\ Running' = Running /\ event' = event
    BY <1>2, <2>2 DEF Running
  <2>4. QED
    BY <1>1, <2>1, <2>2, <2>3, NoMotionFacts DEF DebugInv, RestInv, Idle
<1>7. CASE Advance
  <2>1. /\ ~Idle /\ Running /\ RunningInv /\ [Next]_vars /\ motion \in Motions
        /\ motion.kind # "None" /\ UNCHANGED breakpoints
        /\ \/ Account /\ Running' /\ Retired
           \/ Ended /\ SettleEnd
           \/ Within /\ UNCHANGED <<motion, answer>>
    BY <1>1, <1>7, AdvanceCases
  <2>2. RunningInv'
    BY <2>1, RunningStep
  <2>3. CASE Account /\ Running' /\ Retired
    <3>1. event'.type = "Boundary"
      BY <2>3 DEF Account, Finish, Running, NoResult, Signal
    <3>2. motion' = NoMotion \/ (motion' \in Motions /\ motion'.kind = "Until")
      BY <2>1, <2>3, RetiredMotion
    <3>3. QED
      BY <1>1, <2>1, <2>2, <2>3, <3>1, <3>2, NoMotionFacts DEF DebugInv, RestInv, Idle
  <2>4. CASE Ended /\ SettleEnd
    <3>1. motion' = NoMotion /\ ~Running'
      BY <2>4 DEF SettleEnd, Answer, Ended, Running
    <3>2. QED
      BY <1>1, <2>1, <2>2, <3>1, NoMotionFacts DEF DebugInv, RestInv, Idle
  <2>5. CASE Within /\ UNCHANGED <<motion, answer>>
    BY <1>1, <2>1, <2>2, <2>5 DEF DebugInv, RestInv, Idle, Within
  <2>6. QED
    BY <2>1, <2>3, <2>4, <2>5
<1>8. QED
  BY <1>1, <1>3, <1>4, <1>5, <1>6, <1>7, CommandsAsk DEF SessionNext

THEOREM DebugInvariant == SessionSpec => []DebugInv
BY DebugStart, DebugStep, PTL DEF SessionSpec

-----------------------------------------------------------------------------
(* The session implements Stepper.                                           *)

\* Both speak of the same instruction set.
LEMMA SameIsa == Abstract!IsaNext => Steps!IsaNext
<1>1. Abstract!Plain => Steps!Plain
  BY DEF Abstract!Plain, Steps!Plain, Abstract!Does, Steps!Does, Abstract!Cell, Steps!Cell,
     Abstract!End, Steps!End, Abstract!Branch, Steps!Branch
<1>2. Abstract!Dispatch => Steps!Dispatch
  BY DEF Abstract!Dispatch, Steps!Dispatch, Abstract!Does, Steps!Does, Abstract!Cell,
     Steps!Cell, Abstract!Operand, Steps!Operand
<1>3. Abstract!Call => Steps!Call
  BY DEF Abstract!Call, Steps!Call, Abstract!Does, Steps!Does, Abstract!Cell, Steps!Cell,
     Abstract!End, Steps!End, Abstract!Operand, Steps!Operand
<1>4. Abstract!CallFrame => Steps!CallFrame
  BY DEF Abstract!CallFrame, Steps!CallFrame, Abstract!Does, Steps!Does, Abstract!Cell,
     Steps!Cell, Abstract!End, Steps!End, Abstract!Operand, Steps!Operand
<1>5. Abstract!Ret => Steps!Ret
  BY DEF Abstract!Ret, Steps!Ret, Abstract!Does, Steps!Does, Abstract!Cell, Steps!Cell,
     Abstract!Top, Steps!Top, Abstract!Pop, Steps!Pop
<1>6. Abstract!RetX => Steps!RetX
  BY DEF Abstract!RetX, Steps!RetX, Abstract!Does, Steps!Does, Abstract!Cell, Steps!Cell,
     Abstract!Top, Steps!Top, Abstract!Pop, Steps!Pop, Abstract!Operand, Steps!Operand,
     Abstract!Descriptor, Steps!Descriptor
<1>7. QED
  BY <1>1, <1>2, <1>3, <1>4, <1>5, <1>6 DEF Abstract!IsaNext, Steps!IsaNext

\* A motion is the same record on both sides.
LEMMA SameMotions ==
  /\ Steps!NoMotion = NoMotion /\ (Steps!Idle <=> Idle)
  /\ Steps!NoDepth = NoDepth /\ Steps!NoBudget = NoBudget
  /\ \A a : Steps!Answer(a) <=> Answer(a)
  /\ \A kind, until, budget :
       Steps!Motion(kind, until, budget) = Motion(kind, until, budget)
BY DEF Steps!NoMotion, NoMotion, Steps!Idle, Idle, Steps!NoDepth, NoDepth, Steps!NoBudget,
   NoBudget, Steps!Answer, Answer, Steps!Motion, Motion

\* An instruction that the limits let pass is one step of Stepper.
LEMMA RetireRefines ==
  ASSUME DebugInv, ~Idle, motion \in Motions, motion.kind # "None",
         UNCHANGED breakpoints, Account, Running', Retired
  PROVE  Steps!Retire
<1>1. /\ event.type \in {"Step", "Break"} /\ image' = image
      /\ mark'.ip = ip /\ mark'.fr = fr /\ mark'.calls = Records
      /\ UNCHANGED <<stack, ip>>
  BY DEF Account, regs
<1>2. RunningInv /\ ControlInv /\ Running /\ OpsInv /\ Reach(ip, fr, Records)
      /\ Len(Records) = Len(stack)
  BY RetiredRecords DEF DebugInv, RunningInv
<1>3. Steps!IsaNext
  BY <1>1, <1>2, ReachIsIsa, SameIsa
<1>4. Steps!Does("Brk") <=> event.type = "Break"
  BY <1>1, <1>2 DEF OpsInv, Holds, Here, Steps!Does, Steps!Cell
<1>5. Len(mark'.calls) = Len(stack) /\ mark'.ip = ip
  BY <1>1, <1>2
<1>6. ASSUME RunUntil PROVE Steps!RunOn
  BY <1>5, <1>6, SameMotions DEF RunUntil, Steps!RunOn, Reached, BudgetOut, AtBreakpoint, GoOn
<1>7. Steps!Retired
  <2>1. motion.kind \in {"In", "Over", "Until"}
    BY DEF Motions, Kinds
  <2>2. CASE event.type = "Break"
    BY <1>4, <2>2, SameMotions DEF Retired, Steps!Retired
  <2>3. CASE event.type # "Break" /\ motion.kind = "In"
    BY <1>4, <2>3, SameMotions DEF Retired, Steps!Retired
  <2>4. CASE event.type # "Break" /\ motion.kind = "Over"
    BY <1>4, <1>5, <2>4, SameMotions DEF Retired, Steps!Retired
  <2>5. CASE event.type # "Break" /\ motion.kind = "Until"
    BY <1>4, <1>6, <2>5 DEF Retired, Steps!Retired
  <2>6. QED
    BY <2>1, <2>2, <2>3, <2>4, <2>5
<1>8. Ending' = Ending
  BY <1>2 DEF Ending
<1>9. QED
  BY <1>3, <1>7, <1>8, SameMotions DEF Steps!Retire

\* The end of the run is an end of the program.
LEMMA EndRefines ==
  ASSUME DebugInv, ~Idle, UNCHANGED breakpoints, Ended, SettleEnd
  PROVE  Steps!Finishes
<1>1. ~Running'
  BY DEF Ended, Running
<1>2. CASE Account /\ result'.outcome \in {"StepLimit", "TactLimit"}
  <2>1. image' = image /\ mark'.ip = ip /\ mark'.fr = fr /\ mark'.calls = Records
    BY <1>2 DEF Account
  <2>2. Steps!IsaNext
    BY <1>2, <2>1, RetiredRecords, ReachIsIsa, SameIsa DEF DebugInv
  <2>3. Ending' = "Trapped" /\ Answer("Trap")
    BY <1>1, <1>2 DEF Ending, SettleEnd
  <2>4. QED
    BY <2>2, <2>3, SameMotions DEF Steps!Finishes, Steps!Traps
<1>3. CASE UNCHANGED <<image, mark>> /\ result'.outcome \notin {"Stopped", "Halted"}
  <2>1. Ending' = "Trapped" /\ Answer("Trap")
    BY <1>1, <1>3 DEF Ending, SettleEnd
  <2>2. QED
    BY <1>3, <2>1, SameMotions DEF Steps!Finishes, Steps!Traps, Steps!isaVars
<1>4. ASSUME NEW name \in {"Stop", "Halt"}, NEW outcome \in {"Stopped", "Halted"},
             UNCHANGED <<image, mark>>, mark.ip \in DOMAIN image.code,
             Holds(Here.ops, name), result'.outcome = outcome
      PROVE  /\ mark.ip \in DOMAIN image.code /\ Steps!Does(name)
             /\ Ending' = outcome /\ Answer("Finished") /\ UNCHANGED Steps!isaVars
  BY <1>1, <1>4 DEF Ending, SettleEnd, Steps!Does, Steps!Cell, Holds, Here, Steps!isaVars
<1>5. CASE /\ UNCHANGED <<image, mark>> /\ mark.ip \in DOMAIN image.code
           /\ Holds(Here.ops, "Stop") /\ result'.outcome = "Stopped"
  BY <1>4, <1>5, SameMotions DEF Steps!Finishes, Steps!Stops
<1>6. CASE /\ UNCHANGED <<image, mark>> /\ mark.ip \in DOMAIN image.code
           /\ Holds(Here.ops, "Halt") /\ result'.outcome = "Halted"
  BY <1>4, <1>6, SameMotions DEF Steps!Finishes, Steps!Halts
<1>7. QED
  BY <1>2, <1>3, <1>5, <1>6 DEF Ended

\* A command is a command: the stack a step starts from is the one of Isa.
LEMMA CommandRefines ==
  ASSUME DebugInv, NEW m, Requested(m)
  PROVE  Steps!StepperNext
<1>1. m \in Motions /\ Command(m)
  BY AskedMotion
<1>2. /\ Idle /\ UNCHANGED <<vars, breakpoints>>
      /\ IF ~Running THEN Answer("Finished")
         ELSE IF m.budget = 0 THEN Answer("Manual")
         ELSE motion' = m /\ UNCHANGED answer
  BY <1>1 DEF Command
<1>3. UNCHANGED <<image, mark, result>>
  BY <1>2 DEF vars, coreVars, driverVars
<1>4. UNCHANGED <<Steps!isaVars, breakpoints, Ending>> /\ (Ending = "no" <=> Running)
  BY <1>2, <1>3 DEF Steps!isaVars, Ending, Running
<1>5. ASSUME NEW n, Running => n = m
      PROVE  Steps!Command(n)
  BY <1>2, <1>4, <1>5, SameMotions DEF Steps!Command, Steps!Move
<1>6. Running => Len(mark.calls) = Len(stack) /\ Len(stack) \in Nat
  BY <1>2, AtBoundary DEF DebugInv, RestInv
<1>7. Running => (mark.calls = <<>> <=> stack = <<>>)
  <2>1. Running => mark.calls \in Seq(Activations) /\ stack \in Seq(Nat)
    BY <1>2, AtBoundary DEF DebugInv, RestInv
  <2>2. QED
    BY <1>6, <2>1
<1>8. CASE m = Motion("In", NoDepth, NoBudget)
  BY <1>5, <1>8, SameMotions DEF Steps!StepperNext, Steps!InMotion
<1>9. CASE m = Motion("Over", Len(stack), NoBudget)
  BY <1>5, <1>6, <1>9, SameMotions DEF Steps!StepperNext, Steps!OverMotion
<1>10. CASE m = Motion("Until", IF stack = <<>> THEN NoDepth ELSE Len(stack) - 1, NoBudget)
  BY <1>5, <1>6, <1>7, <1>10, SameMotions DEF Steps!StepperNext, Steps!OutMotion
<1>11. CASE m = Motion("Until", NoDepth, NoBudget)
  BY <1>5, <1>11, SameMotions DEF Steps!StepperNext, Steps!RunMotion
<1>12. ASSUME NEW budget \in StepBudgets, m = Motion("Until", NoDepth, budget)
       PROVE  Steps!RunSteps
  <2>1. budget \in Nat /\ m.budget = budget /\ m.kind = "Until"
    BY <1>12, SessionAssumption DEF Motion
  <2>2. CASE motion' = m
    <3>1. motion' # NoMotion
      BY <2>1, <2>2 DEF NoMotion, Motion
    <3>2. Steps!Command(Steps!RunMotion(budget))
      BY <1>5, <1>12, SameMotions DEF Steps!RunMotion
    <3>3. QED
      BY <2>1, <2>2, <3>1, <3>2, SameMotions DEF Steps!RunSteps
  <2>3. CASE motion' # m
    <3>1. motion' = NoMotion /\ (Running => budget = 0)
      BY <1>2, <2>1, <2>3 DEF Answer
    <3>2. Steps!Command(Steps!RunMotion(0))
      BY <1>5, <1>12, <3>1, SameMotions DEF Steps!RunMotion
    <3>3. QED
      BY <3>1, <3>2, SameMotions DEF Steps!RunSteps
  <2>4. QED
    BY <2>2, <2>3
<1>13. QED
  BY <1>8, <1>9, <1>10, <1>11, <1>12 DEF Requested, Steps!StepperNext

LEMMA StepperStep ==
  ASSUME DebugInv, [SessionNext]_sessionVars
  PROVE  [Steps!StepperNext]_(Steps!stepperVars)
<1> USE DEF Steps!stepperVars
<1>1. ASSUME UNCHANGED vars PROVE UNCHANGED <<Steps!isaVars, Ending>>
  BY <1>1 DEF vars, coreVars, driverVars, Steps!isaVars, Ending, Running
<1>2. CASE UNCHANGED sessionVars
  BY <1>1, <1>2 DEF sessionVars, debugVars
<1>3. ASSUME NEW addr \in BreakAddrs, AddBreakpoint(addr) \/ RemoveBreakpoint(addr)
      PROVE  Steps!Plant
  <2>1. Idle /\ UNCHANGED <<vars, motion, answer>> /\ breakpoints' \subseteq breakpoints \cup {addr}
    BY <1>3 DEF AddBreakpoint, RemoveBreakpoint
  <2>2. addr \in Nat /\ breakpoints \subseteq Nat
    BY SessionAssumption DEF DebugInv, RestInv
  <2>3. QED
    BY <1>1, <2>1, <2>2, SameMotions DEF Steps!Plant
<1>4. ASSUME NEW value \in MatchEdits, SetMatch(value) PROVE UNCHANGED Steps!stepperVars
  BY <1>4 DEF SetMatch, driverVars, debugVars, Steps!isaVars, Ending, Running
<1>5. CASE Advance
  <2>1. /\ ~Idle /\ Running /\ motion \in Motions /\ motion.kind # "None"
        /\ UNCHANGED breakpoints
        /\ \/ Account /\ Running' /\ Retired
           \/ Ended /\ SettleEnd
           \/ Within /\ UNCHANGED <<motion, answer>>
    BY <1>5, AdvanceCases
  <2>2. Account /\ Running' /\ Retired => Steps!StepperNext
    BY <2>1, RetireRefines DEF Steps!StepperNext
  <2>3. Ended /\ SettleEnd => Steps!StepperNext
    BY <2>1, EndRefines DEF Steps!StepperNext
  <2>4. Within /\ UNCHANGED <<motion, answer>> => UNCHANGED Steps!stepperVars
    BY <2>1 DEF Within, Ending, Steps!isaVars
  <2>5. QED
    BY <2>1, <2>2, <2>3, <2>4
<1>6. ASSUME NEW m, Requested(m) PROVE Steps!StepperNext
  BY <1>6, CommandRefines
<1>7. QED
  BY <1>2, <1>3, <1>4, <1>5, <1>6, CommandsAsk DEF SessionNext, Steps!StepperNext

\* The session answers as the session of the bare instruction set does, for
\* every image, limit, set of breakpoints, budget and edit of MR: motions,
\* debug breaks, breakpoints and ends come after the same instructions, and
\* nothing moves between two motions.
THEOREM SteppingRefined == SessionSpec => RefinesStepper
<1>1. SessionInit => Steps!StepperInit
  <2>1. SessionInit => Ending = "no"
    BY DEF SessionInit, Init, DriverInit, Ending, Running
  <2>2. SessionInit => Steps!IsaInit
    BY DEF SessionInit, Init, DriverInit, Steps!IsaInit
  <2>3. QED
    BY <2>1, <2>2, SameMotions DEF SessionInit, Steps!StepperInit
<1>2. DebugInv /\ [SessionNext]_sessionVars => [Steps!StepperNext]_(Steps!stepperVars)
  BY StepperStep
<1>3. QED
  BY <1>1, <1>2, DebugInvariant, PTL DEF SessionSpec, RefinesStepper, Steps!StepperSpec

-----------------------------------------------------------------------------
(* Where a step that answers "Step" leaves the call stack.                   *)

\* The innermost n frames from the outermost are still the client's.
Same(n) == \A i \in 1..n : mark.calls[i].ret = since.stack[i]

\* The depth a motion runs to is that of frames the client had, which the
\* program has not left since.
CallerInv ==
  /\ since.stack \in Seq(Nat)
  /\ ~Idle =>
       /\ motion.kind = "In" => since.motion.kind = "In"
       /\ motion.kind = "Over" =>
            /\ since.motion.kind = "Over" /\ motion.until = Len(since.stack)
            /\ Len(mark.calls) = Len(since.stack) /\ Same(Len(since.stack))
       /\ motion.kind = "Until" /\ motion.until # NoDepth =>
            /\ motion.until \in Nat /\ motion.until < Len(mark.calls)
            /\ motion.until <= Len(since.stack) /\ Same(motion.until)
            /\ since.motion.kind = "Over" => motion.until = Len(since.stack)
            /\ since.motion.kind = "Until" => motion.until = Len(since.stack) - 1
  /\ StepsToTheCaller

\* A sequence that agrees with a longer one is its beginning.
LEMMA Beginning ==
  ASSUME NEW s \in Seq(Nat), NEW t \in Seq(Nat), Len(s) <= Len(t),
         \A i \in 1..Len(s) : s[i] = t[i]
  PROVE  s = SubSeq(t, 1, Len(s))
<1>1. /\ Len(s) \in Nat /\ SubSeq(t, 1, Len(s)) \in Seq(Nat)
      /\ Len(SubSeq(t, 1, Len(s))) = Len(s)
      /\ \A i \in 1..Len(s) : SubSeq(t, 1, Len(s))[i] = t[i]
  OBVIOUS
<1>2. QED
  BY <1>1, SeqEqual

\* One instruction changes the call stack at its top only, by one record.
LEMMA StackMoves ==
  ASSUME NEW at, NEW f, NEW cs, Reach(at, f, cs), mark.calls \in Seq(Activations)
  PROVE  /\ Len(cs) \in Nat /\ Len(mark.calls) \in Nat
         /\ Len(cs) >= Len(mark.calls) - 1 /\ Len(cs) <= Len(mark.calls) + 1
         /\ \A i \in 1..Len(cs) : i <= Len(mark.calls) => cs[i] = mark.calls[i]
<1>1. cs = mark.calls \/ cs = Called \/ (mark.calls # <<>> /\ cs = Left)
  BY DEF Reach, ReachPlain, ReachDispatch, ReachCall, ReachReturn, Stays
<1>2. Len(mark.calls) \in Nat
  OBVIOUS
<1>3. CASE cs = mark.calls
  BY <1>2, <1>3
<1>4. CASE cs = Called
  <2> DEFINE new == [ret |-> After, frame |-> mark.fr]
             s   == mark.calls
  <2>1. cs = Append(s, new)
    BY <1>4 DEF Called
  <2> HIDE DEF new
  <2>2. Len(Append(s, new)) = Len(s) + 1 /\ \A i \in 1..Len(s) : Append(s, new)[i] = s[i]
    BY <1>2
  <2>3. QED
    BY <1>2, <2>1, <2>2
<1>5. CASE mark.calls # <<>> /\ cs = Left
  <2> DEFINE s == mark.calls
             n == Len(mark.calls) - 1
  <2>1. n \in Nat /\ n < Len(s)
    BY <1>2, <1>5
  <2>2. Len(SubSeq(s, 1, n)) = n /\ \A i \in 1..n : SubSeq(s, 1, n)[i] = s[i]
    BY <2>1
  <2>3. QED
    BY <1>2, <1>5, <2>1, <2>2 DEF Left
<1>6. QED
  BY <1>1, <1>3, <1>4, <1>5

\* A step answered "Step" has come back.
LEMMA RetiredCaller ==
  ASSUME DebugInv, CallerInv, ~Idle, motion \in Motions, motion.kind # "None",
         UNCHANGED since, Account, Running', Retired
  PROVE  CallerInv'
<1> DEFINE old == mark.calls
           new == mark'.calls
<1>1. /\ mark'.calls = Records /\ UNCHANGED stack /\ RunningInv /\ OpsInv
      /\ Reach(ip, fr, Records) /\ Len(Records) = Len(stack)
      /\ \A i \in 1..Len(stack) : Records[i].ret = stack[i]
      /\ stack \in Seq(Nat) /\ Len(stack) \in Nat
  BY RetiredRecords, ControlFacts DEF Account, DebugInv, RunningInv
<1>2. /\ new = Records /\ Len(new) = Len(stack) /\ old \in Seq(Activations)
      /\ Len(old) \in Nat /\ Len(new) >= Len(old) - 1 /\ Len(new) <= Len(old) + 1
      /\ \A i \in 1..Len(stack) : i <= Len(old) => new[i] = old[i]
      /\ \A i \in 1..Len(stack) : new[i].ret = stack[i]
  BY <1>1, StackMoves DEF OpsInv
<1>3. since.stack \in Seq(Nat) /\ Len(since.stack) \in Nat /\ stack' = stack
  BY <1>1 DEF CallerInv
<1>4. motion.until \in Int /\ motion.kind \in {"In", "Over", "Until"}
      /\ motion = [kind |-> motion.kind, until |-> motion.until, budget |-> motion.budget]
  BY DEF Motions, Kinds
<1> HIDE DEF old, new
<1>5. ASSUME NEW n \in Nat, n <= Len(old), n <= Len(since.stack), Same(n)
      PROVE  \A i \in 1..n : i <= Len(stack) =>
               new[i].ret = since.stack[i] /\ stack[i] = since.stack[i]
  <2>1. ASSUME NEW i \in 1..n, i <= Len(stack)
        PROVE  new[i].ret = since.stack[i] /\ stack[i] = since.stack[i]
    <3>1. old[i].ret = since.stack[i]
      BY <1>5 DEF Same, old
    <3>2. i \in 1..Len(stack) /\ i <= Len(old)
      BY <1>1, <1>5, <2>1
    <3>3. new[i] = old[i] /\ new[i].ret = stack[i]
      BY <1>2, <3>2
    <3>4. QED
      BY <3>1, <3>3
  <2>2. QED
    BY <2>1
<1>6. ASSUME NEW n \in Nat, n <= Len(old), n <= Len(since.stack), Same(n), Len(stack) <= n
      PROVE  stack = SubSeq(since.stack, 1, Len(stack))
  <2>1. Len(stack) <= Len(since.stack)
    BY <1>1, <1>3, <1>6
  <2>2. \A i \in 1..Len(stack) : stack[i] = since.stack[i]
    BY <1>1, <1>5, <1>6
  <2>3. QED
    BY <1>1, <1>3, <2>1, <2>2, Beginning
<1>7. CASE motion' = NoMotion /\ answer' # "Step"
  BY <1>3, <1>7 DEF CallerInv, StepsToTheCaller, Idle
<1>8. CASE motion.kind = "In"
  <2>1. motion' = NoMotion /\ since.motion.kind = "In"
    BY <1>8 DEF Retired, Answer, CallerInv
  <2>2. QED
    BY <1>3, <2>1 DEF CallerInv, StepsToTheCaller, Idle
<1>9. CASE motion.kind = "Over" /\ event.type # "Break"
  <2>1. /\ since.motion.kind = "Over" /\ motion.until = Len(since.stack)
        /\ Len(old) = Len(since.stack) /\ Same(Len(since.stack))
    BY <1>9 DEF CallerInv, old
  <2>2. CASE Len(stack) > motion.until
    <3>1. motion' = [motion EXCEPT !.kind = "Until"]
      BY <1>9, <2>2 DEF Retired
    <3>2. motion'.kind = "Until" /\ motion'.until = Len(since.stack)
      BY <1>4, <2>1, <3>1
    <3>3. \A i \in 1..Len(since.stack) : new[i].ret = since.stack[i]
      <4>1. \A i \in 1..Len(since.stack) : i <= Len(stack) => new[i].ret = since.stack[i]
        BY <1>3, <1>5, <2>1
      <4>2. \A i \in 1..Len(since.stack) : i <= Len(stack)
        BY <1>1, <1>3, <2>1, <2>2
      <4>3. QED
        BY <4>1, <4>2
    <3>4. Same(motion.until)'
      BY <1>3, <2>1, <3>2, <3>3 DEF Same, new
    <3>5. motion'.until < Len(mark'.calls)
      BY <1>2, <2>1, <2>2, <3>2 DEF new
    <3>6. ~Idle'
      BY <3>2 DEF Idle, NoMotion, Motion
    <3>7. QED
      BY <1>3, <2>1, <3>2, <3>4, <3>5, <3>6 DEF CallerInv, StepsToTheCaller
  <2>3. CASE ~(Len(stack) > motion.until)
    <3>1. motion' = NoMotion /\ Len(stack) <= Len(since.stack)
      BY <1>1, <1>3, <1>9, <2>1, <2>3 DEF Retired, Answer
    <3>2. stack = SubSeq(since.stack, 1, Len(stack)) /\ Len(stack) >= Len(since.stack) - 1
      BY <1>2, <1>3, <1>6, <2>1, <3>1
    <3>3. QED
      BY <1>3, <2>1, <3>1, <3>2 DEF CallerInv, StepsToTheCaller, Idle
  <2>4. QED
    BY <2>2, <2>3
<1>10. CASE motion.kind = "Until" /\ event.type # "Break"
  <2>1. CASE motion.until = NoDepth
    <3>1. \/ motion' = NoMotion /\ answer' # "Step"
          \/ motion' = motion \/ motion' = [motion EXCEPT !.budget = @ - 1]
      BY <1>10, <2>1 DEF Retired, RunUntil, Reached, Answer, GoOn
    <3>2. CASE motion' = motion \/ motion' = [motion EXCEPT !.budget = @ - 1]
      <4>1. motion'.kind = "Until" /\ motion'.until = NoDepth
        BY <1>4, <1>10, <2>1, <3>2
      <4>2. ~Idle'
        BY <4>1 DEF Idle, NoMotion, Motion
      <4>3. QED
        BY <1>3, <4>1, <4>2 DEF CallerInv, StepsToTheCaller
    <3>3. QED
      BY <1>7, <3>1, <3>2
  <2>2. CASE motion.until # NoDepth
    <3>1. /\ motion.until \in Nat /\ motion.until < Len(old)
          /\ motion.until <= Len(since.stack) /\ Same(motion.until)
          /\ since.motion.kind = "Over" => motion.until = Len(since.stack)
          /\ since.motion.kind = "Until" => motion.until = Len(since.stack) - 1
      BY <1>10, <2>2 DEF CallerInv, old
    <3>2. CASE Len(stack) <= motion.until
      <4>1. motion' = NoMotion /\ Len(stack) = motion.until
        BY <1>1, <1>2, <1>10, <2>2, <3>1, <3>2 DEF Retired, RunUntil, Reached, Answer
      <4>2. stack = SubSeq(since.stack, 1, Len(stack))
        BY <1>2, <1>6, <3>1, <4>1
      <4>3. QED
        BY <1>3, <3>1, <4>1, <4>2 DEF CallerInv, StepsToTheCaller, Idle
    <3>3. CASE ~(Len(stack) <= motion.until)
      <4>1. \/ motion' = NoMotion /\ answer' # "Step"
            \/ motion' = motion \/ motion' = [motion EXCEPT !.budget = @ - 1]
        BY <1>10, <3>3 DEF Retired, RunUntil, Reached, Answer, GoOn
      <4>2. CASE motion' = motion \/ motion' = [motion EXCEPT !.budget = @ - 1]
        <5>1. motion'.kind = "Until" /\ motion'.until = motion.until
          BY <1>4, <1>10, <4>2
        <5>2. \A i \in 1..motion.until : new[i].ret = since.stack[i]
          <6>1. motion.until <= Len(old)
            BY <1>2, <3>1
          <6>2. \A i \in 1..motion.until : i <= Len(stack) => new[i].ret = since.stack[i]
            BY <1>5, <3>1, <6>1
          <6>3. \A i \in 1..motion.until : i <= Len(stack)
            BY <1>1, <3>1, <3>3
          <6>4. QED
            BY <6>2, <6>3
        <5>3. Same(motion.until)'
          BY <1>3, <5>1, <5>2 DEF Same, new
        <5>4. motion'.until < Len(mark'.calls)
          BY <1>1, <1>2, <3>1, <3>3, <5>1 DEF new
        <5>5. ~Idle'
          BY <5>1 DEF Idle, NoMotion, Motion
        <5>6. QED
          BY <1>3, <3>1, <5>1, <5>3, <5>4, <5>5 DEF CallerInv, StepsToTheCaller
      <4>3. QED
        BY <1>7, <4>1, <4>2
    <3>4. QED
      BY <3>2, <3>3
  <2>3. QED
    BY <2>1, <2>2
<1>11. CASE event.type = "Break"
  <2>1. motion' = NoMotion /\ answer' # "Step"
    BY <1>11 DEF Retired, Answer
  <2>2. QED
    BY <1>7, <2>1
<1>12. QED
  BY <1>4, <1>8, <1>9, <1>10, <1>11

\* Commands start a motion from the stack as it is, and nothing else moves it
\* while the client has the session.
LEMMA CallerStep ==
  ASSUME DebugInv, CallerInv, [SessionNext]_sessionVars
  PROVE  CallerInv'
<1>1. CASE UNCHANGED <<stack, mark, since, motion, answer>>
  BY <1>1 DEF CallerInv, StepsToTheCaller, Same, Idle
<1>2. CASE UNCHANGED sessionVars
  BY <1>1, <1>2 DEF sessionVars, debugVars, vars, driverVars
<1>3. ASSUME NEW addr \in BreakAddrs, AddBreakpoint(addr) \/ RemoveBreakpoint(addr)
      PROVE  CallerInv'
  BY <1>1, <1>3 DEF AddBreakpoint, RemoveBreakpoint, vars, driverVars
<1>4. ASSUME NEW value \in MatchEdits, SetMatch(value) PROVE CallerInv'
  BY <1>1, <1>4 DEF SetMatch, driverVars, debugVars
<1>5. ASSUME NEW m, Requested(m) PROVE CallerInv'
  <2>1. m \in Motions /\ m.kind # "None" /\ Command(m)
    BY <1>5, AskedMotion
  <2>2. /\ Idle /\ UNCHANGED <<stack, mark, event, result>>
        /\ since' = [motion |-> m, stack |-> stack, steps |-> stats.steps]
        /\ \/ motion' = NoMotion /\ answer' # "Step"
           \/ motion' = m /\ Running
    BY <2>1 DEF Command, Answer, vars, driverVars, coreVars, ports
  <2>3. /\ since'.stack = stack /\ since'.motion = m
        /\ since'.stack \in Seq(Nat) /\ Len(stack) \in Nat /\ stack \in Seq(Nat)
    BY <2>2, ControlFacts DEF DebugInv, RunningInv
  <2>4. CASE motion' = NoMotion /\ answer' # "Step"
    BY <2>3, <2>4 DEF CallerInv, StepsToTheCaller, Idle
  <2>5. CASE motion' = m /\ Running
    <3>1. ~Idle'
      BY <2>1, <2>5, NoMotionFacts DEF Idle
    <3>2. Len(mark.calls) = Len(stack) /\ \A i \in 1..Len(stack) : mark.calls[i].ret = stack[i]
      BY <2>2, <2>5, AtBoundary DEF DebugInv, RestInv
    <3>3. \A n \in Nat : n <= Len(stack) => Same(n)'
      BY <2>2, <2>3, <3>2 DEF Same
    <3>4. mark' = mark
      BY <2>2
    <3>5. CASE m = Motion("In", NoDepth, NoBudget)
      <4>1. m.kind = "In"
        BY <3>5 DEF Motion
      <4>2. QED
        BY <2>3, <2>5, <3>1, <4>1 DEF CallerInv, StepsToTheCaller
    <3>6. CASE m = Motion("Over", Len(stack), NoBudget)
      <4>1. m.kind = "Over" /\ m.until = Len(stack)
        BY <3>6 DEF Motion
      <4>2. QED
        BY <2>3, <2>5, <3>1, <3>2, <3>3, <3>4, <4>1 DEF CallerInv, StepsToTheCaller
    <3>7. CASE m = Motion("Until", IF stack = <<>> THEN NoDepth ELSE Len(stack) - 1, NoBudget)
      <4>1. m.kind = "Until" /\ m.until = IF stack = <<>> THEN NoDepth ELSE Len(stack) - 1
        BY <3>7 DEF Motion
      <4>2. m.until # NoDepth => m.until = Len(stack) - 1 /\ m.until \in Nat
        BY <2>3, <4>1
      <4>3. QED
        BY <2>3, <2>5, <3>1, <3>2, <3>3, <3>4, <4>1, <4>2 DEF CallerInv, StepsToTheCaller
    <3>8. ASSUME NEW budget, m = Motion("Until", NoDepth, budget) PROVE CallerInv'
      <4>1. m.kind = "Until" /\ m.until = NoDepth
        BY <3>8 DEF Motion
      <4>2. QED
        BY <2>3, <2>5, <3>1, <4>1 DEF CallerInv, StepsToTheCaller
    <3>9. QED
      BY <1>5, <3>5, <3>6, <3>7, <3>8 DEF Requested
  <2>6. QED
    BY <2>2, <2>4, <2>5
<1>6. CASE Advance
  <2>1. /\ ~Idle /\ motion \in Motions /\ motion.kind # "None"
        /\ UNCHANGED <<breakpoints, since>>
        /\ \/ Account /\ Running' /\ Retired
           \/ Ended /\ SettleEnd
           \/ Within /\ UNCHANGED <<motion, answer>>
    BY <1>6, AdvanceCases
  <2>2. CASE Account /\ Running' /\ Retired
    BY <2>1, <2>2, RetiredCaller
  <2>3. CASE Ended /\ SettleEnd
    <3>1. motion' = NoMotion /\ answer' # "Step"
      BY <2>3 DEF SettleEnd, Answer
    <3>2. QED
      BY <2>1, <3>1 DEF CallerInv, StepsToTheCaller, Idle
  <2>4. CASE Within /\ UNCHANGED <<motion, answer>>
    <3>1. UNCHANGED <<mark, since, motion>>
      BY <2>1, <2>4 DEF Within
    <3>2. QED
      BY <2>1, <3>1 DEF CallerInv, StepsToTheCaller, Same, Idle
  <2>5. QED
    BY <2>1, <2>2, <2>3, <2>4
<1>7. QED
  BY <1>2, <1>3, <1>4, <1>5, <1>6, CommandsAsk DEF SessionNext

\* step_over and step_out come back to the frames the client was in, whatever
\* was called in between: no deeper, nothing of its own lost, and stepping out
\* exactly one frame up.
THEOREM StepsComeBack == SessionSpec => []StepsToTheCaller
<1>1. SessionInit => CallerInv
  <2>1. SessionInit => since.stack \in Seq(Nat)
    BY DEF SessionInit
  <2>2. QED
    BY <2>1 DEF SessionInit, CallerInv, StepsToTheCaller, Idle
<1>2. DebugInv /\ CallerInv /\ [SessionNext]_sessionVars => CallerInv'
  BY CallerStep
<1>3. CallerInv => StepsToTheCaller
  BY DEF CallerInv
<1>4. QED
  BY <1>1, <1>2, <1>3, DebugInvariant, PTL DEF SessionSpec

===============================================================================
