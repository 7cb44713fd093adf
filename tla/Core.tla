---------------------------------- MODULE Core ----------------------------------
(*****************************************************************************)
(* The sans-I/O processor core of crates/core/src/vm/core.rs: a state        *)
(* machine that is handed one bus response at a time and answers with an     *)
(* event - a bus request, a retired instruction or a terminal signal.  It    *)
(* performs no I/O.  The modules that EXTEND this one are its drivers: they  *)
(* read `event', compute a response and put it into `resp'.                  *)
(*                                                                           *)
(* Abstractions of data (the control is kept):                               *)
(*   - a code byte is a cell: what the architecture decodes an instruction   *)
(*     that starts there to, with the number of operand bytes to fetch;      *)
(*   - a multi-byte read of a table field, table walk or frame descriptor is *)
(*     one bus transaction, whose content is a value of image.rom;           *)
(*   - addresses in the table ROM are tagged tuples.                         *)
(*****************************************************************************)
EXTENDS Integers, Sequences

CONSTANTS
  Images,      \* the executable images a run may load
  MaxSlot,     \* size of the tuple register (16 in the code)
  AddrMax      \* largest code address (u32::MAX in the code)

VARIABLES
  image,       \* the loaded image, never written after the start
  ip,          \* address of the next byte to fetch
  instrStart,  \* address of the instruction in work
  mr,          \* match register; MF is mr # 0
  tr,          \* tuple register, slots 0..MaxSlot-1
  trLen,       \* how many slots of it are valid
  phase,       \* where the core is in the instruction
  ops,         \* micro-operations left to issue
  pending,     \* what the bus request in flight is for
  brkPending,  \* a Brk micro-operation was seen in this instruction
  fr,          \* frame register, 0 is the identity frame
  cache,       \* decoded descriptor of the active frame
  frStack,     \* the FR half of the call stack, top last
  event,       \* the last CoreEvent
  resp         \* the BusResponse being delivered

regs   == <<ip, instrStart, mr, tr, trLen>>
frames == <<fr, cache, frStack>>
ctl    == <<phase, ops, pending, brkPending>>
ports  == <<event, resp>>
coreVars == <<image, regs, frames, ctl, ports>>

-----------------------------------------------------------------------------
(* Values that cross the bus. *)

Request(kind, dev, val) ==
  [type |-> "Request", kind |-> kind, dev |-> dev, val |-> val]
Signal(type)      == [type |-> type, kind |-> "none", dev |-> 0, val |-> 0]
Trapped(trap, at) == [type |-> "Trapped", kind |-> trap, dev |-> 0, val |-> at]
Response(kind, val) == [kind |-> kind, val |-> val]

Busy   == Signal("Busy")           \* the core is between two events
NoResp == Response("none", 0)

Pend(kind, x, y) == [kind |-> kind, x |-> x, y |-> y]
NoPend == Pend("None", 0, 0)
NoExit == -1
Hole   == 65535                    \* map entry that crosses to nothing
NoDesc == [entries |-> <<>>, exits |-> <<>>]   \* no real frame has arity 0

FramesOn == image.frames           \* the frames execution profile is active

PushOn(s, x) == Append(s, x)
TopOf(s)     == s[Len(s)]
PopOff(s)    == SubSeq(s, 1, Len(s) - 1)

-----------------------------------------------------------------------------
(* Images.  A cell of code is what the architecture decodes at an address;   *)
(* `lowers' is false where it refuses the operand.                           *)

OpNames ==
  {"DeviceMoveLeft", "DeviceMoveRight", "Write", "Read", "ReadAll", "LatchMatch",
   "JumpRel", "JumpRelIf", "Call", "CallFrame", "Ret", "RetX", "MatchTable",
   "DispatchJump", "Raise", "Stop", "Halt", "Brk", "Nop"}
\* `a' is a displacement in a jump or a call, and otherwise, like `b', a
\* device, slot, symbol, table or site number.
Displaced == {"JumpRel", "JumpRelIf", "Call", "CallFrame"}
MicroOps  == {op \in [op : OpNames, a : Int, b : Nat] :
                op.op \notin Displaced => op.a >= 0}
Transfers == Displaced \cup {"Ret", "RetX", "DispatchJump"}
CodeCells == [valid : BOOLEAN, entry : BOOLEAN, lowers : BOOLEAN,
              operands : Nat, ops : Seq(MicroOps)]
Descriptors == [entries : Seq([phys : Nat, rmap : Seq(Nat), wmap : Seq(Nat)]),
                exits : Seq(Nat)]
MatchTables    == [width : Nat, rows : Seq(Seq(Nat))]
DispatchTables == [targets : Seq(Nat)]

\* The region of the ROM an address points into holds data of its kind.
RomWellFormed(rom) ==
  \A addr \in DOMAIN rom :
    /\ addr[1] \in {"compose", "directory"} => rom[addr] \in Nat
    /\ addr[1] = "descriptor" => rom[addr] \in Descriptors
    /\ addr[1] = "match"      => rom[addr] \in MatchTables
    /\ addr[1] = "dispatch"   => rom[addr] \in DispatchTables

\* An operation that transfers control is all its instruction does.
Alone(list) == (\E i \in DOMAIN list : list[i].op \in Transfers) => Len(list) = 1

WellFormed(im) ==
  /\ im.entry \in Nat
  /\ DOMAIN im.code \subseteq Nat
  /\ im.code \in [DOMAIN im.code -> CodeCells]
  /\ \A a \in DOMAIN im.code : Alone(im.code[a].ops)
  /\ RomWellFormed(im.rom)
  /\ im.frames \in BOOLEAN /\ im.preload \in BOOLEAN
  /\ im.composites \in Nat /\ im.sites \in Nat /\ im.devices \in Nat

ASSUME CoreAssumption ==
  /\ MaxSlot \in Nat \ {0}
  /\ AddrMax \in Nat
  /\ \A im \in Images : WellFormed(im)

-----------------------------------------------------------------------------
(* Frame translation.  An active frame renames devices and symbols.          *)

HasDev(dev)  == fr = 0 \/ dev < Len(cache.entries)
PhysDevUntranslated(dev) == dev                                    \* mutant
PhysDev(dev) == IF fr = 0 THEN dev ELSE cache.entries[dev + 1].phys

\* A symbol through a read or write map: the empty map is the identity, a
\* hole or an index past the end maps to nothing.
Through(map, s) == IF map = <<>> THEN s
                   ELSE IF s + 1 \in DOMAIN map THEN map[s + 1] ELSE Hole
MapsTo(map, s)  == map = <<>> \/ Through(map, s) # Hole

RMap(vdev) == IF fr = 0 THEN <<>> ELSE cache.entries[vdev + 1].rmap
WMap(vdev) == IF fr = 0 THEN <<>> ELSE cache.entries[vdev + 1].wmap

ComposeAddr(frame, site) == <<"compose", frame, site>>
DirectoryAddr(frame)     == <<"directory", frame>>
DescriptorAddr(offset)   == <<"descriptor", offset>>
MatchAddr(table)         == <<"match", table>>
DispatchAddr(table)      == <<"dispatch", table>>

\* Row `row' of a match table fires on the tuple register; Hole is the
\* transparent symbol.
RowFires(row) == \A p \in DOMAIN row : row[p] = Hole \/ row[p] = tr[p - 1]
MatchResult(rows) ==
  LET fires == {i \in DOMAIN rows : RowFires(rows[i])}
  IN  IF fires = {} THEN 0 ELSE CHOOSE i \in fires : \A j \in fires : i <= j

-----------------------------------------------------------------------------
(* Shapes every step of the core ends in.                                    *)

Trap(trap, at) ==
  /\ phase' = "Done"
  /\ event' = Trapped(trap, at)
  /\ resp' = NoResp

Ask(kind, dev, val, pend) ==
  /\ event' = Request(kind, dev, val)
  /\ pending' = pend
  /\ resp' = NoResp

\* The request is settled and the next micro-operation is due.
Settled ==
  /\ event' = Busy
  /\ pending' = NoPend
  /\ resp' = NoResp
  /\ UNCHANGED <<phase, ops>>

Delivered(kind, pend) ==
  /\ phase = "Execute"
  /\ pending.kind = pend
  /\ resp.kind = kind

CoreInit ==
  /\ image \in Images
  /\ ip = image.entry /\ instrStart = image.entry
  /\ mr = 0 /\ tr = [i \in 0..MaxSlot-1 |-> 0] /\ trLen = 0
  /\ phase = "FetchOpcode" /\ ops = <<>> /\ pending = NoPend
  /\ brkPending = FALSE
  /\ fr = 0 /\ cache = NoDesc /\ frStack = <<>>
  /\ event = Signal("Boundary") /\ resp = NoResp

-----------------------------------------------------------------------------
(* Fetch.                                                                    *)

\* start(), and resume() in the StepAck phase: the driver asks for one more
\* instruction.
Start ==
  /\ event.type = "Boundary"
  /\ instrStart' = ip
  /\ phase' = "FetchOpcode"
  /\ event' = Request("CodeRead", 0, ip)
  /\ UNCHANGED <<image, ip, mr, tr, trLen, ops, pending, brkPending, resp, frames>>

\* finish_fetch: the architecture lowers the decoded instruction.
FinishFetch(cell) ==
  IF cell.lowers
  THEN /\ phase' = "Execute"
       /\ ops' = cell.ops
       /\ pending' = NoPend
       /\ event' = Busy
       /\ resp' = NoResp
  ELSE Trap("BadOperand", instrStart) /\ UNCHANGED <<ops, pending>>

FetchOpcode ==
  /\ phase = "FetchOpcode"
  /\ \/ /\ resp.kind = "Byte" /\ resp.val.valid
        /\ ip' = ip + 1
        /\ IF resp.val.operands = 0
           THEN FinishFetch(resp.val)
           ELSE /\ phase' = "FetchOperand"
                /\ Ask("CodeRead", 0, ip + 1, pending)
                /\ UNCHANGED ops
     \/ /\ resp.kind = "Byte" /\ ~resp.val.valid
        /\ Trap("InvalidOpcode", ip)
        /\ UNCHANGED <<ip, ops, pending>>
     \/ /\ resp.kind = "OutOfCode"
        /\ Trap("CodeOutOfBounds", ip)
        /\ UNCHANGED <<ip, ops, pending>>
  /\ UNCHANGED <<image, instrStart, mr, tr, trLen, brkPending, frames>>

FetchOperand ==
  /\ phase = "FetchOperand"
  /\ \/ LET cell == image.code[instrStart] IN
        /\ resp.kind = "Byte"
        /\ ip' = ip + 1
        /\ IF ip - instrStart = cell.operands
           THEN FinishFetch(cell)
           ELSE Ask("CodeRead", 0, ip + 1, pending) /\ UNCHANGED <<phase, ops>>
     \/ /\ resp.kind = "OutOfCode"
        /\ Trap("CodeOutOfBounds", ip)
        /\ UNCHANGED <<ip, ops, pending>>
  /\ UNCHANGED <<image, instrStart, mr, tr, trLen, brkPending, frames>>

-----------------------------------------------------------------------------
(* Settling the request in flight (step_execute, part 1).                    *)

SettleDone ==
  /\ \E p \in {"Move", "Write"} : Delivered("Ok", p)
  /\ Settled
  /\ UNCHANGED <<image, regs, brkPending, frames>>

SettleFault ==
  /\ \E p \in {"Move", "Write", "Latch", "ReadSlot"} : Delivered("Fault", p)
  /\ Trap("Device", resp.val)
  /\ UNCHANGED <<image, regs, ops, pending, brkPending, frames>>

SettleLatch ==
  /\ Delivered("Symbol", "Latch")
  /\ IF MapsTo(RMap(0), resp.val)
     THEN /\ mr' = IF Through(RMap(0), resp.val) = pending.x THEN 1 ELSE 0
          /\ Settled
     ELSE /\ Trap("UnmappedRead", instrStart)
          /\ UNCHANGED <<mr, ops, pending>>
  /\ UNCHANGED <<image, ip, instrStart, tr, trLen, brkPending, frames>>

SettleRead ==
  /\ Delivered("Symbol", "ReadSlot")
  /\ LET slot == pending.x
         vdev == pending.y
     IN IF MapsTo(RMap(vdev), resp.val)
        THEN /\ tr' = [tr EXCEPT ![slot] = Through(RMap(vdev), resp.val)]
             /\ trLen' = IF trLen >= slot + 1 THEN trLen ELSE slot + 1
             /\ Settled
        ELSE /\ Trap("UnmappedRead", instrStart)
             /\ UNCHANGED <<tr, trLen, ops, pending>>
  /\ UNCHANGED <<image, ip, instrStart, mr, brkPending, frames>>

\* The entry-marker check of a plain or a framed call.
SettleEntCheck ==
  /\ phase = "Execute"
  /\ pending.kind \in {"EntCheck", "EntCheckFrame"}
  /\ \/ /\ resp.kind = "Byte" /\ resp.val.entry
        /\ Ask("StackPush", 0, ip,
               Pend(IF pending.kind = "EntCheck" THEN "Push" ELSE "PushFrame",
                    pending.x, pending.y))
        /\ UNCHANGED phase
     \/ /\ resp.kind = "OutOfCode" \/ (resp.kind = "Byte" /\ ~resp.val.entry)
        /\ Trap("CallTargetNotEntry", pending.x)
        /\ UNCHANGED pending
  /\ UNCHANGED <<image, regs, ops, brkPending, frames>>

\* A plain call pushes the unchanged FR beside the return address, so that
\* the two stacks pop together.
FrHalfDropped == frStack                                           \* mutant
FrHalf        == IF FramesOn THEN PushOn(frStack, fr) ELSE frStack

SettlePush ==
  /\ Delivered("Ok", "Push")
  /\ frStack' = FrHalf
  /\ ip' = pending.x
  /\ Settled
  /\ UNCHANGED <<image, instrStart, mr, tr, trLen, brkPending, fr, cache>>

SettleStackFull ==
  /\ \E p \in {"Push", "PushFrame"} : Delivered("StackFull", p)
  /\ Trap("StackOverflow", 0)
  /\ UNCHANGED <<image, regs, ops, pending, brkPending, frames>>

\* The caller's FR is pushed, then compose[FR][site] is looked up.
SettlePushFrame ==
  /\ Delivered("Ok", "PushFrame")
  /\ frStack' = PushOn(frStack, fr)
  /\ IF pending.y >= image.sites
     THEN Trap("BadOperand", instrStart) /\ UNCHANGED pending
     ELSE /\ Ask("FrameRead", 0, ComposeAddr(fr, pending.y),
                 Pend("ComposeRead", pending.x, 0))
          /\ UNCHANGED phase
  /\ UNCHANGED <<image, regs, ops, brkPending, fr, cache>>

SettleCompose ==
  /\ Delivered("Byte", "ComposeRead")
  /\ IF resp.val = 0 \/ resp.val > image.composites
     THEN Trap("BadOperand", instrStart) /\ UNCHANGED <<fr, pending>>
     ELSE /\ fr' = resp.val
          /\ Ask("FrameRead", 0, DirectoryAddr(resp.val),
                 Pend("DirectoryRead", pending.x, 0))
          /\ UNCHANGED phase
  /\ UNCHANGED <<image, regs, ops, brkPending, cache, frStack>>

SettleDirectory ==
  /\ Delivered("Byte", "DirectoryRead")
  /\ Ask("FrameRead", 0, DescriptorAddr(resp.val),
         Pend("FrameLoad", pending.x, 0))
  /\ UNCHANGED <<image, regs, phase, ops, brkPending, frames>>

\* FrameWalk: the arity must be 1..16.
SettleFrameLoad ==
  /\ Delivered("Byte", "FrameLoad")
  /\ IF Len(resp.val.entries) \in 1..16
     THEN /\ cache' = resp.val
          /\ ip' = pending.x
          /\ Settled
     ELSE /\ Trap("TableOutOfBounds", instrStart)
          /\ UNCHANGED <<cache, ip, ops, pending>>
  /\ UNCHANGED <<image, instrStart, mr, tr, trLen, brkPending, fr, frStack>>

SettleOutOfTable ==
  /\ \E p \in {"ComposeRead", "DirectoryRead", "FrameLoad", "Match", "Dispatch"} :
       Delivered("OutOfTable", p)
  /\ Trap("TableOutOfBounds", instrStart)
  /\ UNCHANGED <<image, regs, ops, pending, brkPending, frames>>

SettlePop ==
  /\ Delivered("Value", "Pop")
  /\ ip' = resp.val
  /\ Settled
  /\ UNCHANGED <<image, instrStart, mr, tr, trLen, brkPending, frames>>

\* The descriptor of the restored frame is reloaded unless a plain return
\* leaves the frame unchanged.
ReloadAfterExit(restored, exit) == restored # 0 /\ exit # NoExit   \* mutant
Reload(restored, exit) ==
  restored # 0 /\ (exit # NoExit \/ restored # fr)

\* The paired pop: the FR half comes off with the return address.
SettlePopPair ==
  /\ Delivered("Value", "PopPair")
  /\ LET restored == IF frStack = <<>> THEN 0 ELSE TopOf(frStack)
         thenIp   == IF pending.x = NoExit THEN resp.val ELSE pending.x
     IN /\ frStack' = IF frStack = <<>> THEN frStack ELSE PopOff(frStack)
        /\ fr' = restored
        /\ cache' = IF restored = 0 THEN NoDesc ELSE cache
        /\ IF Reload(restored, pending.x)
           THEN /\ Ask("FrameRead", 0, DirectoryAddr(restored),
                       Pend("DirectoryRead", thenIp, 0))
                /\ UNCHANGED <<ip, phase, ops>>
           ELSE ip' = thenIp /\ Settled
  /\ UNCHANGED <<image, instrStart, mr, tr, trLen, brkPending>>

SettleStackEmpty ==
  /\ \E p \in {"Pop", "PopPair"} : Delivered("StackEmpty", p)
  /\ Trap("StackUnderflow", 0)
  /\ UNCHANGED <<image, regs, ops, pending, brkPending, frames>>

SettleMatch ==
  /\ Delivered("Byte", "Match")
  /\ IF resp.val.width \in 1..trLen
     THEN mr' = MatchResult(resp.val.rows) /\ Settled
     ELSE Trap("BadOperand", instrStart) /\ UNCHANGED <<mr, ops, pending>>
  /\ UNCHANGED <<image, ip, instrStart, tr, trLen, brkPending, frames>>

SettleDispatch ==
  /\ Delivered("Byte", "Dispatch")
  /\ IF mr \in DOMAIN resp.val.targets
     THEN ip' = resp.val.targets[mr] /\ Settled
     ELSE Trap("DispatchOutOfRange", instrStart) /\ UNCHANGED <<ip, ops, pending>>
  /\ UNCHANGED <<image, instrStart, mr, tr, trLen, brkPending, frames>>

Settle ==
  \/ SettleDone \/ SettleFault \/ SettleLatch \/ SettleRead
  \/ SettleEntCheck \/ SettlePush \/ SettleStackFull
  \/ SettlePushFrame \/ SettleCompose \/ SettleDirectory
  \/ SettleFrameLoad \/ SettleOutOfTable
  \/ SettlePop \/ SettlePopPair \/ SettleStackEmpty
  \/ SettleMatch \/ SettleDispatch

-----------------------------------------------------------------------------
(* Issuing the next micro-operation (step_execute, part 2).                  *)

Due(name) == event = Busy /\ ops # <<>> /\ Head(ops).op = name

\* The operation takes no bus transaction: it is popped and the loop goes on.
ContinueUnpopped == UNCHANGED <<ops, phase, pending, event, resp>> \* mutant
Continue == ops' = Tail(ops) /\ UNCHANGED <<phase, pending, event, resp>>

\* The operation puts a request on the bus.
Issue(kind, dev, val, pend) ==
  /\ Ask(kind, dev, val, pend)
  /\ ops' = Tail(ops)
  /\ UNCHANGED phase

IssueTrap(trap, at) == Trap(trap, at) /\ UNCHANGED <<ops, pending>>

IssueNop ==
  /\ Due("Nop")
  /\ Continue
  /\ UNCHANGED <<image, regs, brkPending, frames>>

IssueBrk ==
  /\ Due("Brk")
  /\ brkPending' = TRUE
  /\ Continue
  /\ UNCHANGED <<image, regs, frames>>

IssueEnd ==
  /\ \/ Due("Stop") /\ event' = Signal("Stopped")
     \/ Due("Halt") /\ event' = Signal("Halted")
  /\ phase' = "Done"
  /\ UNCHANGED <<image, regs, ops, pending, brkPending, resp, frames>>

IssueRaise ==
  /\ Due("Raise")
  /\ IssueTrap(IF Head(ops).a = 0 THEN "UnmappedRead" ELSE "UnmappedWrite",
               instrStart)
  /\ UNCHANGED <<image, regs, brkPending, frames>>

IssueMove ==
  /\ \E dir \in {"DeviceMoveLeft", "DeviceMoveRight"} :
       /\ Due(dir)
       /\ IF HasDev(Head(ops).a)
          THEN Issue(dir, PhysDev(Head(ops).a), 0, Pend("Move", 0, 0))
          ELSE IssueTrap("BadOperand", instrStart)
  /\ UNCHANGED <<image, regs, brkPending, frames>>

\* Device index and symbol are both translated when the write is issued.
IssueWrite ==
  /\ Due("Write")
  /\ LET dev == Head(ops).a
         sym == Head(ops).b
     IN IF ~HasDev(dev) THEN IssueTrap("BadOperand", instrStart)
        ELSE IF ~MapsTo(WMap(dev), sym) THEN IssueTrap("UnmappedWrite", instrStart)
        ELSE Issue("DeviceWrite", PhysDev(dev), Through(WMap(dev), sym),
                   Pend("Write", 0, 0))
  /\ UNCHANGED <<image, regs, brkPending, frames>>

IssueLatch ==
  /\ Due("LatchMatch")
  /\ IF HasDev(0)
     THEN Issue("DeviceRead", PhysDev(0), 0, Pend("Latch", Head(ops).a, 0))
     ELSE IssueTrap("BadOperand", instrStart)
  /\ UNCHANGED <<image, regs, brkPending, frames>>

IssueRead ==
  /\ Due("Read")
  /\ LET dev == Head(ops).a
         slot == Head(ops).b
     IN IF slot >= MaxSlot \/ ~HasDev(dev)
        THEN IssueTrap("BadOperand", instrStart)
        ELSE Issue("DeviceRead", PhysDev(dev), 0, Pend("ReadSlot", slot, dev))
  /\ UNCHANGED <<image, regs, brkPending, frames>>

\* ReadAll expands into one Read per visible tape, slot k from tape k.
IssueReadAll ==
  /\ Due("ReadAll")
  /\ LET width == IF fr = 0 THEN image.devices ELSE Len(cache.entries)
     IN ops' = [i \in 1..width |-> [op |-> "Read", a |-> i - 1, b |-> i - 1]]
                 \o Tail(ops)
  /\ trLen' = 0
  /\ UNCHANGED <<image, ip, instrStart, mr, tr, phase, pending, event, resp,
                 brkPending, frames>>

\* Operands are relative to the end of the instruction, which is where ip is.
JumpTargetFromStart(off) == instrStart + off                       \* mutant
JumpTarget(off)          == ip + off

IssueJump ==
  /\ \/ Due("JumpRel")
     \/ Due("JumpRelIf") /\ (mr # 0) = (Head(ops).b = 1)
  /\ IF JumpTarget(Head(ops).a) \in 0..AddrMax
     THEN ip' = JumpTarget(Head(ops).a) /\ Continue
     ELSE IssueTrap("CodeOutOfBounds", instrStart) /\ UNCHANGED ip
  /\ UNCHANGED <<image, instrStart, mr, tr, trLen, brkPending, frames>>

IssueFallThrough ==
  /\ Due("JumpRelIf") /\ (mr # 0) # (Head(ops).b = 1)
  /\ Continue
  /\ UNCHANGED <<image, regs, brkPending, frames>>

IssueCall ==
  /\ \/ Due("Call")
     \/ Due("CallFrame") /\ FramesOn
  /\ LET target == JumpTarget(Head(ops).a)
         check  == IF Head(ops).op = "Call" THEN "EntCheck" ELSE "EntCheckFrame"
     IN IF target \in 0..AddrMax
        THEN Issue("CodeRead", 0, target, Pend(check, target, Head(ops).b))
        ELSE IssueTrap("CodeOutOfBounds", instrStart)
  /\ UNCHANGED <<image, regs, brkPending, frames>>

IssueRet ==
  /\ Due("Ret")
  /\ Issue("StackPop", 0, 0,
           IF FramesOn THEN Pend("PopPair", NoExit, 0) ELSE Pend("Pop", 0, 0))
  /\ UNCHANGED <<image, regs, brkPending, frames>>

\* The exit belongs to the frame being left: it is read before the pop.
IssueRetX ==
  /\ Due("RetX") /\ FramesOn
  /\ LET k == Head(ops).a + 1
     IN IF fr # 0 /\ k \in DOMAIN cache.exits
        THEN Issue("StackPop", 0, 0, Pend("PopPair", cache.exits[k], 0))
        ELSE IssueTrap("ExitOutOfRange", instrStart)
  /\ UNCHANGED <<image, regs, brkPending, frames>>

IssueProfileViolation ==
  /\ Due("CallFrame") \/ Due("RetX")
  /\ ~FramesOn
  /\ IssueTrap("ProfileViolation", instrStart)
  /\ UNCHANGED <<image, regs, brkPending, frames>>

IssueMatch ==
  /\ Due("MatchTable")
  /\ Issue("TableRead", 0, MatchAddr(Head(ops).a), Pend("Match", 0, 0))
  /\ UNCHANGED <<image, regs, brkPending, frames>>

IssueDispatch ==
  /\ Due("DispatchJump")
  /\ IF mr = 0 THEN IssueTrap("NoTransition", instrStart)
     ELSE Issue("TableRead", 0, DispatchAddr(Head(ops).a), Pend("Dispatch", 0, 0))
  /\ UNCHANGED <<image, regs, brkPending, frames>>

\* Nothing left to issue: the instruction retires (step_execute, part 3).
Retire ==
  /\ event = Busy /\ ops = <<>>
  /\ phase' = "StepAck"
  /\ event' = Signal(IF brkPending THEN "Break" ELSE "Step")
  /\ brkPending' = FALSE
  /\ UNCHANGED <<image, regs, ops, pending, resp, frames>>

IssueOp ==
  \/ IssueNop \/ IssueBrk \/ IssueEnd \/ IssueRaise
  \/ IssueMove \/ IssueWrite \/ IssueLatch \/ IssueRead \/ IssueReadAll
  \/ IssueJump \/ IssueFallThrough
  \/ IssueCall \/ IssueRet \/ IssueRetX \/ IssueProfileViolation
  \/ IssueMatch \/ IssueDispatch

\* Everything resume() does with the response it was handed.
CoreStep == FetchOpcode \/ FetchOperand \/ Settle \/ IssueOp \/ Retire

=============================================================================
