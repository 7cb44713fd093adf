------------------------------ MODULE DriverSafety ----------------------------
(*****************************************************************************)
(* Safety of a synchronous run, for every image, tape and limit: every       *)
(* variable keeps its type, the two halves of the call stack stay paired,    *)
(* the frame cache stays current, no limit is passed; and the run implements *)
(* the instruction set Isa, step by step.                                    *)
(*                                                                           *)
(* TypeOK is not inductive: what a response may do to the registers depends  *)
(* on which request it answers, and that on what the core was doing when it  *)
(* asked.  RunInv records this chain - phase, operation in flight, request,  *)
(* response - and every step keeps it.                                       *)
(*****************************************************************************)
EXTENDS Driver, WellFoundedInduction, SequenceTheorems, TLAPS

-----------------------------------------------------------------------------
(* Facts about the operators the run is built from: stacks, match tables,    *)
(* tapes and prices.                                                         *)

\* The type of the counters of a run.
Stats == [steps : Nat, core : Nat, stall : Nat]

\* Elements of a sequence over S are in S.
LEMMA ElementOf ==
  ASSUME NEW S, NEW s \in Seq(S), NEW i \in 1..Len(s)
  PROVE  s[i] \in S
OBVIOUS

\* A set of addresses or rows has a first element.
LEMMA Least ==
  ASSUME NEW T \in SUBSET Nat, T # {}
  PROVE  \E x \in T : \A y \in T : x <= y
<1> DEFINE R == {ab \in Nat \X Nat : ab[1] < ab[2]}
<1>1. IsWellFoundedOn(R, Nat)
  BY NatLessThanWellFounded DEF OpToRel
<1> HIDE DEF R
<1>2. PICK x \in T : \A y \in T : ~ (<<y, x>> \in R)
  BY <1>1, WFMin
<1>3. ASSUME NEW y \in T PROVE x <= y
  <2>1. x \in Nat /\ y \in Nat /\ <<y, x>> \notin R
    BY <1>2
  <2>2. QED
    BY <2>1 DEF R
<1>4. QED
  BY <1>2, <1>3

\* The match register is given a row of the table or 0: the first row that
\* fires exists whenever one fires.
LEMMA MatchResultTyped ==
  ASSUME NEW rows \in Seq(Seq(Nat))
  PROVE  MatchResult(rows) \in 0..Len(rows)
<1> DEFINE fires == {i \in DOMAIN rows : RowFires(rows[i])}
<1>1. fires \in SUBSET Nat /\ fires \subseteq 1..Len(rows)
  OBVIOUS
<1>2. CASE fires = {}
  BY <1>2 DEF MatchResult
<1>3. CASE fires # {}
  <2>1. \E x \in fires : \A y \in fires : x <= y
    BY <1>1, <1>3, Least
  <2>2. (CHOOSE i \in fires : \A j \in fires : i <= j) \in fires
    <3> HIDE DEF fires
    <3>1. QED BY <2>1
  <2>3. MatchResult(rows) \in fires
    BY <1>3, <2>2 DEF MatchResult
  <2>4. QED
    BY <1>1, <2>3
<1>4. QED
  BY <1>2, <1>3

\* Push and pop of the two stacks: types, and depths that move by one.
LEMMA StackOps ==
  ASSUME NEW s \in Seq(Nat)
  PROVE  /\ \A x \in Nat : /\ PushOn(s, x) \in Seq(Nat)
                           /\ Len(PushOn(s, x)) = Len(s) + 1
         /\ s # <<>> => /\ PopOff(s) \in Seq(Nat)
                        /\ Len(PopOff(s)) = Len(s) - 1
                        /\ TopOf(s) \in Nat
<1>1. ASSUME NEW x \in Nat
      PROVE  PushOn(s, x) \in Seq(Nat) /\ Len(PushOn(s, x)) = Len(s) + 1
  BY DEF PushOn
<1>2. ASSUME s # <<>>
      PROVE  /\ PopOff(s) \in Seq(Nat)
             /\ Len(PopOff(s)) = Len(s) - 1
             /\ TopOf(s) \in Nat
  <2>1. Len(s) \in Nat \ {0}
    BY <1>2
  <2>2. Len(s) - 1 \in Nat /\ Len(s) - 1 <= Len(s) /\ TopOf(s) \in Nat
    BY <2>1 DEF TopOf
  <2>3. PopOff(s) \in Seq(Nat) /\ Len(PopOff(s)) = Len(s) - 1
    <3>1. \A i \in 1..Len(s)-1 : s[i] \in Nat
      BY <2>1
    <3>2. 1 \in Int /\ Len(s) - 1 \in Int
      BY <2>1
    <3>3. SubSeq(s, 1, Len(s) - 1) \in Seq(Nat)
          /\ Len(SubSeq(s, 1, Len(s) - 1)) = IF 1 <= Len(s) - 1 THEN Len(s) - 1 - 1 + 1 ELSE 0
      BY <3>1, <3>2, SubSeqProperties
    <3>4. \A n \in Nat \ {0} : (IF 1 <= n - 1 THEN n - 1 - 1 + 1 ELSE 0) = n - 1
      OBVIOUS
    <3>5. Len(SubSeq(s, 1, Len(s) - 1)) = Len(s) - 1
      BY <2>1, <3>3, <3>4
    <3>6. QED
      BY <3>3, <3>5 DEF PopOff
  <2>4. QED
    BY <2>2, <2>3
<1>3. QED
  BY <1>1, <1>2

\* Every command leaves a tape of the ring, and a read yields one of its symbols.
LEMMA TapeTyped ==
  ASSUME NEW t \in Tapes
  PROVE  /\ TapeLeft(t) \in Tapes /\ TapeRight(t) \in Tapes
         /\ TapeRead(t) \in Symbols
         /\ \A s : WriteFault(t, s) = "none" => TapeWrite(t, s) \in Tapes
<1> USE TapeAssumption DEF Tapes, Cells
<1>1. TapeLeft(t) \in Tapes /\ TapeRight(t) \in Tapes
  BY DEF TapeLeft, TapeRight
<1>2. TapeRead(t) \in Symbols
  BY DEF TapeRead
<1>3. ASSUME NEW s, WriteFault(t, s) = "none" PROVE TapeWrite(t, s) \in Tapes
  <2>1. s \in Symbols /\ TapeWrite(t, s) = [t EXCEPT !.cells[t.head] = s]
    BY <1>3 DEF WriteFault, TapeWrite
  <2>2. QED
    BY <2>1
<1>4. QED
  BY <1>1, <1>2, <1>3

\* Pricing a transaction or an instruction keeps the counters natural.
LEMMA PriceTyped ==
  ASSUME stats \in Stats
  PROVE  /\ CoreTact(1) \in Stats
         /\ \A k \in {"move", "read", "write", "table", "frame"} : StallTact(Cost[k]) \in Stats
         /\ [CoreTact(1) EXCEPT !.steps = @ + 1] \in Stats
<1>0. CoreTact(1) = [steps |-> stats.steps, core |-> stats.core + 1, stall |-> stats.stall]
  BY DEF CoreTact, Stats
<1>a. CoreTact(1) \in Stats
  BY <1>0 DEF Stats
<1>1. CoreTact(1) \in Stats /\ [CoreTact(1) EXCEPT !.steps = @ + 1] \in Stats
  BY <1>a DEF Stats
<1>2. ASSUME NEW k \in {"move", "read", "write", "table", "frame"}
      PROVE  StallTact(Cost[k]) \in Stats
  <2>1. Cost[k] \in Nat
    BY DriverAssumption
  <2>2. QED
    BY <2>1 DEF StallTact, Stats
<1>3. QED
  BY <1>1, <1>2

-----------------------------------------------------------------------------
(* The chain from the phase of the core to the response on the bus. *)

DeviceMoves == {"DeviceMoveLeft", "DeviceMoveRight"}
Targeted == {"EntCheck", "EntCheckFrame", "Push", "PushFrame",
             "ComposeRead", "DirectoryRead", "FrameLoad"}
PendingKinds == Targeted \cup {"None", "Move", "Write", "Latch", "ReadSlot",
                               "Pop", "PopPair", "Match", "Dispatch"}

\* The operands of the operation in flight.
PendingOK ==
  /\ pending \in [kind : PendingKinds, x : Int, y : Int]
  /\ pending.kind = "ReadSlot" => pending.x \in 0..MaxSlot-1
  /\ pending.kind \in Targeted => pending.x \in Nat
  /\ pending.kind = "PopPair" => pending.x \in Nat \cup {NoExit}

\* The request each operation in flight has put on the bus.
AsksFor ==
  \/ pending.kind \in {"EntCheck", "EntCheckFrame"} /\ event.kind = "CodeRead"
  \/ pending.kind \in {"Push", "PushFrame"} /\ event.kind = "StackPush"
     /\ event.val \in Nat
  \/ pending.kind \in {"Pop", "PopPair"} /\ event.kind = "StackPop"
  \/ pending.kind = "Move" /\ event.kind \in DeviceMoves /\ event.dev \in Nat
  \/ pending.kind = "Write" /\ event.kind = "DeviceWrite" /\ event.dev \in Nat
  \/ pending.kind \in {"Latch", "ReadSlot"} /\ event.kind = "DeviceRead"
     /\ event.dev \in Nat
  \/ pending.kind = "ComposeRead" /\ event.kind = "FrameRead"
     /\ event.val[1] = "compose"
  \/ pending.kind = "DirectoryRead" /\ event.kind = "FrameRead"
     /\ event.val[1] = "directory"
  \/ pending.kind = "FrameLoad" /\ event.kind = "FrameRead"
     /\ event.val[1] = "descriptor"
  \/ pending.kind = "Match" /\ event.kind = "TableRead" /\ event.val[1] = "match"
  \/ pending.kind = "Dispatch" /\ event.kind = "TableRead"
     /\ event.val[1] = "dispatch"

\* What the core reports in each phase.
EventOK ==
  /\ phase = "FetchOpcode" =>
       \/ event.type = "Boundary"
       \/ event = Request("CodeRead", 0, ip) /\ instrStart = ip
  /\ phase = "FetchOperand" =>
       event = Request("CodeRead", 0, ip) /\ instrStart \in DOMAIN image.code
  /\ phase = "Execute" =>
       event = Busy \/ (event.type = "Request" /\ AsksFor)
  /\ phase = "StepAck" => event.type \in {"Step", "Break", "Boundary"}
  /\ phase = "Done" => event.type \in {"Stopped", "Halted", "Trapped"}
  /\ phase \in {"FetchOpcode", "FetchOperand", "StepAck"} \/ event = Busy
       => pending = NoPend

\* What the driver may answer to each request.
Answers ==
  \/ resp.kind = "Byte" /\ event.kind = "CodeRead"
     /\ event.val \in DOMAIN image.code /\ resp.val = image.code[event.val]
  \/ resp.kind = "Byte" /\ event.kind \in {"TableRead", "FrameRead"}
     /\ event.val \in DOMAIN image.rom /\ resp.val = image.rom[event.val]
  \/ resp.kind = "OutOfCode" /\ event.kind = "CodeRead"
  \/ resp.kind = "OutOfTable" /\ event.kind \in {"TableRead", "FrameRead"}
  \/ resp.kind \in {"Ok", "StackFull"} /\ event.kind = "StackPush"
  \/ resp.kind = "Value" /\ event.kind = "StackPop" /\ resp.val \in Nat
  \/ resp.kind = "StackEmpty" /\ event.kind = "StackPop"
  \/ resp.kind = "Ok" /\ event.kind \in DeviceMoves \cup {"DeviceWrite"}
  \/ resp.kind = "Symbol" /\ event.kind = "DeviceRead"
  \/ resp.kind = "Fault"
     /\ event.kind \in DeviceMoves \cup {"DeviceWrite", "DeviceRead"}

RespOK == resp = NoResp \/ (event.type = "Request" /\ Answers)

RunInv ==
  /\ TypeOK
  /\ PendingOK
  /\ ops \in Seq(MicroOps)
  /\ cache \in Descriptors
  /\ EventOK
  /\ RespOK

\* A response carries a value of the type that its request asked for.
LEMMA ResponseTyped ==
  ASSUME RunInv, phase = "Execute", resp # NoResp
  PROVE  /\ pending.kind \in {"Pop", "PopPair"} /\ resp.kind = "Value"
              => resp.val \in Nat
         /\ pending.kind \in {"ComposeRead", "DirectoryRead"} /\ resp.kind = "Byte"
              => resp.val \in Nat
         /\ pending.kind = "FrameLoad" /\ resp.kind = "Byte"
              => resp.val \in Descriptors
         /\ pending.kind = "Match" /\ resp.kind = "Byte" => resp.val \in MatchTables
         /\ pending.kind = "Dispatch" /\ resp.kind = "Byte"
              => resp.val \in DispatchTables
<1>1. event.type = "Request" /\ AsksFor /\ Answers
  BY DEF RunInv, EventOK, RespOK, Busy, Signal
<1>2. \A addr \in DOMAIN image.rom :
        /\ addr[1] \in {"compose", "directory"} => image.rom[addr] \in Nat
        /\ addr[1] = "descriptor" => image.rom[addr] \in Descriptors
        /\ addr[1] = "match"      => image.rom[addr] \in MatchTables
        /\ addr[1] = "dispatch"   => image.rom[addr] \in DispatchTables
  BY DEF RunInv, TypeOK, WellFormed, RomWellFormed
<1>3. QED
  BY <1>1, <1>2 DEF AsksFor, Answers, DeviceMoves

\* What an operation that is due may rely on: no request is in flight.
LEMMA DueOp ==
  ASSUME RunInv, event = Busy, ops # <<>>
  PROVE  /\ phase = "Execute" /\ pending = NoPend /\ resp = NoResp
         /\ Tail(ops) \in Seq(MicroOps)
         /\ Head(ops).a \in Int /\ Head(ops).b \in Nat
         /\ Head(ops).op \notin Displaced => Head(ops).a \in Nat
<1>1. phase = "Execute" /\ pending = NoPend /\ resp = NoResp
  BY DEF RunInv, TypeOK, EventOK, RespOK, Busy, Signal, Request
<1>2. Head(ops) \in MicroOps /\ Tail(ops) \in Seq(MicroOps)
  BY DEF RunInv
<1>3. QED
  BY <1>1, <1>2 DEF MicroOps, Displaced

\* Frame translation of a visible device yields a device number.
LEMMA PhysDevTyped ==
  ASSUME RunInv, NEW dev \in Nat, HasDev(dev)
  PROVE  PhysDev(dev) \in Nat
<1>1. CASE fr = 0
  BY <1>1 DEF PhysDev
<1>2. CASE fr # 0
  <2>1. dev + 1 \in 1..Len(cache.entries)
    BY <1>2 DEF HasDev, RunInv, Descriptors
  <2>2. cache.entries \in Seq([phys : Nat, rmap : Seq(Nat), wmap : Seq(Nat)])
    BY DEF RunInv, Descriptors
  <2>3. cache.entries[dev + 1] \in [phys : Nat, rmap : Seq(Nat), wmap : Seq(Nat)]
    BY <2>1, <2>2, ElementOf
  <2>4. QED
    BY <1>2, <2>3 DEF PhysDev
<1>3. QED
  BY <1>1, <1>2

\* A run starts with the core asking for nothing.
LEMMA InitOK == Init => RunInv
<1> SUFFICES ASSUME Init PROVE RunInv
  OBVIOUS
<1> USE DEF Init, CoreInit, DriverInit
<1>1. WellFormed(image)
  BY CoreAssumption
<1>2. TypeOK
  <2>1. loaded \in BOOLEAN /\ ip \in Nat /\ instrStart \in Nat /\ mr \in Nat
    BY <1>1 DEF WellFormed
  <2>2. DOMAIN tr = 0..MaxSlot-1 /\ trLen \in 0..MaxSlot
    BY CoreAssumption
  <2>3. tapes \in [0..Devices-1 -> Tapes]
    BY DriverAssumption
  <2>4. /\ fr \in Nat /\ frStack \in Seq(Nat)
        /\ stack \in Seq(Nat) /\ Len(stack) <= Capacity
        /\ stats \in [steps : Nat, core : Nat, stall : Nat]
    BY DriverAssumption
  <2>5. QED
    BY <1>1, <2>1, <2>2, <2>3, <2>4 DEF TypeOK
<1>3. PendingOK
  BY DEF PendingOK, PendingKinds, Targeted, NoPend, Pend
<1>4. ops \in Seq(MicroOps) /\ cache \in Descriptors
  BY DEF NoDesc, Descriptors
<1>5. EventOK /\ RespOK
  BY DEF EventOK, RespOK, Signal
<1>6. QED
  BY <1>2, <1>3, <1>4, <1>5 DEF RunInv

-----------------------------------------------------------------------------
(* Fetch keeps RunInv.                                                       *)

\* Begin keeps RunInv.
LEMMA BeginOK == RunInv /\ Begin /\ UNCHANGED driverVars => RunInv'
<1> SUFFICES ASSUME RunInv, Begin, UNCHANGED driverVars PROVE RunInv'
  OBVIOUS
<1> USE CoreAssumption DEF RunInv, Begin, frames, driverVars, regs, Start, ctl
<1>1. TypeOK'
  BY DEF TypeOK
<1>2. PendingOK' /\ (ops \in Seq(MicroOps))' /\ (cache \in Descriptors)'
  BY DEF PendingOK, PendingKinds, NoPend, Pend, Targeted, NoExit
<1>3. EventOK' /\ RespOK'
  BY DEF EventOK, RespOK, AsksFor, Request, Busy, Signal, TypeOK, Pend
<1>4. QED
  BY <1>1, <1>2, <1>3

\* FetchOpcode keeps RunInv.
LEMMA FetchOpcodeOK == RunInv /\ FetchOpcode /\ UNCHANGED driverVars => RunInv'
<1> SUFFICES ASSUME RunInv, FetchOpcode, UNCHANGED driverVars PROVE RunInv'
  OBVIOUS
<1> USE DEF RunInv, FetchOpcode, frames, driverVars, regs, FinishFetch, Trap,
   Trapped, Ask, ctl
<1>0. resp.kind = "Byte" =>
        resp.val.ops \in Seq(MicroOps) /\ instrStart \in DOMAIN image.code
  BY DEF EventOK, RespOK, Answers, TypeOK, WellFormed, CodeCells, Request, Signal,
     NoResp, Response
<1>b. phase' \in {"FetchOpcode", "FetchOperand", "Execute", "Done"} /\ ip' \in Nat
  BY DEF TypeOK
<1>a. /\ pending = NoPend /\ pending' = NoPend
      /\ ops' \in Seq(MicroOps)
      /\ cache' = cache
  BY <1>0 DEF EventOK
<1>1. TypeOK'
  BY <1>b DEF TypeOK
<1>2. PendingOK' /\ (ops \in Seq(MicroOps))' /\ (cache \in Descriptors)'
  BY <1>a DEF PendingOK, PendingKinds, NoPend, Pend, Targeted
<1>3. EventOK' /\ RespOK'
  BY <1>0, <1>a DEF EventOK, RespOK, Request, Busy, Signal
<1>4. QED
  BY <1>1, <1>2, <1>3

\* FetchOperand keeps RunInv.
LEMMA FetchOperandOK == RunInv /\ FetchOperand /\ UNCHANGED driverVars => RunInv'
<1> SUFFICES ASSUME RunInv, FetchOperand, UNCHANGED driverVars PROVE RunInv'
  OBVIOUS
<1> USE DEF RunInv, FetchOperand, frames, driverVars, regs, FinishFetch, Trap,
   Trapped, Ask, ctl
<1>0. resp.kind = "Byte" => /\ image.code[instrStart].ops \in Seq(MicroOps)
                            /\ instrStart \in DOMAIN image.code
  BY DEF EventOK, TypeOK, WellFormed, CodeCells
<1>b. phase' \in {"FetchOpcode", "FetchOperand", "Execute", "Done"} /\ ip' \in Nat
  BY DEF TypeOK
<1>a. /\ pending = NoPend /\ pending' = NoPend
      /\ ops' \in Seq(MicroOps)
      /\ cache' = cache
  BY <1>0 DEF EventOK
<1>1. TypeOK'
  BY <1>b DEF TypeOK
<1>2. PendingOK' /\ (ops \in Seq(MicroOps))' /\ (cache \in Descriptors)'
  BY <1>a DEF PendingOK, PendingKinds, NoPend, Pend, Targeted
<1>3. EventOK' /\ RespOK'
  BY <1>0, <1>a DEF EventOK, RespOK, Request, Busy, Signal
<1>4. QED
  BY <1>1, <1>2, <1>3

-----------------------------------------------------------------------------
(* Settling a request keeps RunInv.                                          *)

\* SettleDone keeps RunInv.
LEMMA SettleDoneOK == RunInv /\ SettleDone /\ UNCHANGED driverVars => RunInv'
<1> SUFFICES ASSUME RunInv, SettleDone, UNCHANGED driverVars PROVE RunInv'
  OBVIOUS
<1> USE CoreAssumption DEF RunInv, SettleDone, frames, driverVars, regs,
   Delivered, Settled, Trap, Trapped, Ask, ctl
<1>1. TypeOK'
  BY DEF TypeOK
<1>2. PendingOK' /\ (ops \in Seq(MicroOps))' /\ (cache \in Descriptors)'
  BY DEF PendingOK, PendingKinds, NoPend, Pend, Targeted, NoExit
<1>3. EventOK' /\ RespOK'
  BY DEF EventOK, RespOK, Answers, Request, Busy, Signal, TypeOK, Pend
<1>4. QED
  BY <1>1, <1>2, <1>3

\* SettleFault keeps RunInv.
LEMMA SettleFaultOK == RunInv /\ SettleFault /\ UNCHANGED driverVars => RunInv'
<1> SUFFICES ASSUME RunInv, SettleFault, UNCHANGED driverVars PROVE RunInv'
  OBVIOUS
<1> USE CoreAssumption DEF RunInv, SettleFault, frames, driverVars, regs,
   Delivered, Settled, Trap, Trapped, Ask, ctl
<1>1. TypeOK'
  BY DEF TypeOK
<1>2. PendingOK' /\ (ops \in Seq(MicroOps))' /\ (cache \in Descriptors)'
  BY DEF PendingOK, PendingKinds, NoPend, Pend, Targeted, NoExit
<1>3. EventOK' /\ RespOK'
  BY DEF EventOK, RespOK, Answers, Request, Busy, Signal, TypeOK, Pend
<1>4. QED
  BY <1>1, <1>2, <1>3

\* SettleLatch keeps RunInv.
LEMMA SettleLatchOK == RunInv /\ SettleLatch /\ UNCHANGED driverVars => RunInv'
<1> SUFFICES ASSUME RunInv, SettleLatch, UNCHANGED driverVars PROVE RunInv'
  OBVIOUS
<1> USE CoreAssumption DEF RunInv, SettleLatch, frames, driverVars, regs,
   Delivered, Settled, Trap, Trapped, Ask, ctl
<1>1. TypeOK'
  BY DEF TypeOK
<1>2. PendingOK' /\ (ops \in Seq(MicroOps))' /\ (cache \in Descriptors)'
  BY DEF PendingOK, PendingKinds, NoPend, Pend, Targeted, NoExit
<1>3. EventOK' /\ RespOK'
  BY DEF EventOK, RespOK, Answers, Request, Busy, Signal, TypeOK, Pend
<1>4. QED
  BY <1>1, <1>2, <1>3

\* SettleRead keeps RunInv.
LEMMA SettleReadOK == RunInv /\ SettleRead /\ UNCHANGED driverVars => RunInv'
<1> SUFFICES ASSUME RunInv, SettleRead, UNCHANGED driverVars PROVE RunInv'
  OBVIOUS
<1> USE CoreAssumption DEF RunInv, SettleRead, frames, driverVars, regs,
   Delivered, Settled, Trap, Trapped, Ask, ctl
<1>0. pending.x \in 0..MaxSlot-1
  BY DEF PendingOK
<1>a. DOMAIN tr' = 0..MaxSlot-1 /\ trLen' \in 0..MaxSlot
  BY <1>0 DEF TypeOK
<1>1. TypeOK'
  BY <1>a DEF TypeOK
<1>2. PendingOK' /\ (ops \in Seq(MicroOps))' /\ (cache \in Descriptors)'
  BY DEF PendingOK, PendingKinds, NoPend, Pend, Targeted, NoExit
<1>3. EventOK' /\ RespOK'
  BY DEF EventOK, RespOK, Answers, Request, Busy, Signal, TypeOK, Pend
<1>4. QED
  BY <1>1, <1>2, <1>3

\* SettleEntCheck keeps RunInv.
LEMMA SettleEntCheckOK == RunInv /\ SettleEntCheck /\ UNCHANGED driverVars => RunInv'
<1> SUFFICES ASSUME RunInv, SettleEntCheck, UNCHANGED driverVars PROVE RunInv'
  OBVIOUS
<1> USE DEF RunInv, SettleEntCheck, frames, driverVars, regs, Delivered, Settled,
   Trap, Trapped, Ask, ctl
<1>1. TypeOK'
  BY DEF TypeOK
<1>2. PendingOK' /\ (ops \in Seq(MicroOps))' /\ (cache \in Descriptors)'
  BY DEF PendingOK, PendingKinds, NoPend, Pend, Targeted, NoExit
<1>3. EventOK' /\ RespOK'
  BY DEF EventOK, RespOK, AsksFor, Request, Busy, Signal, TypeOK, Pend
<1>4. QED
  BY <1>1, <1>2, <1>3

\* SettlePush keeps RunInv.
LEMMA SettlePushOK == RunInv /\ SettlePush /\ UNCHANGED driverVars => RunInv'
<1> SUFFICES ASSUME RunInv, SettlePush, UNCHANGED driverVars PROVE RunInv'
  OBVIOUS
<1> USE DEF RunInv, SettlePush, frames, driverVars, regs, Delivered, Settled,
   Trap, Trapped, Ask, ctl
<1>0. pending.x \in Nat /\ fr \in Nat /\ frStack \in Seq(Nat)
  BY DEF PendingOK, Targeted, TypeOK
<1>a. frStack' \in Seq(Nat)
  BY <1>0 DEF FrHalf, PushOn
<1>1. TypeOK'
  BY <1>0, <1>a DEF TypeOK
<1>2. PendingOK' /\ (ops \in Seq(MicroOps))' /\ (cache \in Descriptors)'
  BY DEF PendingOK, PendingKinds, NoPend, Pend, Targeted, NoExit
<1>3. EventOK' /\ RespOK'
  BY DEF EventOK, RespOK, Answers, Request, Busy, Signal, TypeOK
<1>4. QED
  BY <1>1, <1>2, <1>3

\* SettleStackFull keeps RunInv.
LEMMA SettleStackFullOK == RunInv /\ SettleStackFull /\ UNCHANGED driverVars => RunInv'
<1> SUFFICES ASSUME RunInv, SettleStackFull, UNCHANGED driverVars PROVE RunInv'
  OBVIOUS
<1> USE CoreAssumption DEF RunInv, SettleStackFull, frames, driverVars, regs,
   Delivered, Settled, Trap, Trapped, Ask, ctl
<1>1. TypeOK'
  BY DEF TypeOK
<1>2. PendingOK' /\ (ops \in Seq(MicroOps))' /\ (cache \in Descriptors)'
  BY DEF PendingOK, PendingKinds, NoPend, Pend, Targeted, NoExit
<1>3. EventOK' /\ RespOK'
  BY DEF EventOK, RespOK, Answers, Request, Busy, Signal, TypeOK, Pend
<1>4. QED
  BY <1>1, <1>2, <1>3

\* SettlePushFrame keeps RunInv.
LEMMA SettlePushFrameOK == RunInv /\ SettlePushFrame /\ UNCHANGED driverVars => RunInv'
<1> SUFFICES ASSUME RunInv, SettlePushFrame, UNCHANGED driverVars PROVE RunInv'
  OBVIOUS
<1> USE DEF RunInv, SettlePushFrame, frames, driverVars, regs, Delivered, Settled,
   Trap, Trapped, Ask, ctl
<1>0. pending.x \in Nat /\ fr \in Nat /\ frStack \in Seq(Nat)
  BY DEF PendingOK, Targeted, TypeOK
<1>a. frStack' \in Seq(Nat)
  BY <1>0 DEF PushOn
<1>1. TypeOK'
  BY <1>0, <1>a DEF TypeOK
<1>2. PendingOK' /\ (ops \in Seq(MicroOps))' /\ (cache \in Descriptors)'
  BY <1>0 DEF PendingOK, PendingKinds, NoPend, Pend, Targeted, NoExit
<1>3. EventOK' /\ RespOK'
  BY DEF EventOK, RespOK, AsksFor, Request, Busy, Signal, TypeOK, Pend, ComposeAddr
<1>4. QED
  BY <1>1, <1>2, <1>3

\* SettleCompose keeps RunInv.
LEMMA SettleComposeOK == RunInv /\ SettleCompose /\ UNCHANGED driverVars => RunInv'
<1> SUFFICES ASSUME RunInv, SettleCompose, UNCHANGED driverVars PROVE RunInv'
  OBVIOUS
<1> USE DEF RunInv, SettleCompose, frames, driverVars, regs, Delivered, Settled,
   Trap, Trapped, Ask, ctl
<1>0. pending.x \in Nat /\ resp.val \in Nat
  BY ResponseTyped DEF PendingOK, Targeted, NoResp, Response
<1>1. TypeOK'
  BY <1>0 DEF TypeOK
<1>2. PendingOK' /\ (ops \in Seq(MicroOps))' /\ (cache \in Descriptors)'
  BY <1>0 DEF PendingOK, PendingKinds, NoPend, Pend, Targeted, NoExit
<1>3. EventOK' /\ RespOK'
  BY DEF EventOK, RespOK, AsksFor, Request, Busy, Signal, TypeOK, Pend,
     DirectoryAddr
<1>4. QED
  BY <1>1, <1>2, <1>3

\* SettleDirectory keeps RunInv.
LEMMA SettleDirectoryOK == RunInv /\ SettleDirectory /\ UNCHANGED driverVars => RunInv'
<1> SUFFICES ASSUME RunInv, SettleDirectory, UNCHANGED driverVars PROVE RunInv'
  OBVIOUS
<1> USE CoreAssumption DEF RunInv, SettleDirectory, frames, driverVars, regs,
   Delivered, Settled, Trap, Trapped, Ask, ctl
<1>0. pending.x \in Nat /\ resp.val \in Nat
  BY ResponseTyped DEF PendingOK, Targeted, NoResp, Response
<1>1. TypeOK'
  BY <1>0 DEF TypeOK
<1>2. PendingOK' /\ (ops \in Seq(MicroOps))' /\ (cache \in Descriptors)'
  BY <1>0 DEF PendingOK, PendingKinds, NoPend, Pend, Targeted, NoExit
<1>3. EventOK' /\ RespOK'
  BY <1>0 DEF EventOK, RespOK, AsksFor, DescriptorAddr, Request, Busy, Signal,
     TypeOK, Pend
<1>4. QED
  BY <1>1, <1>2, <1>3

\* SettleFrameLoad keeps RunInv.
LEMMA SettleFrameLoadOK == RunInv /\ SettleFrameLoad /\ UNCHANGED driverVars => RunInv'
<1> SUFFICES ASSUME RunInv, SettleFrameLoad, UNCHANGED driverVars PROVE RunInv'
  OBVIOUS
<1> USE CoreAssumption DEF RunInv, SettleFrameLoad, frames, driverVars, regs,
   Delivered, Settled, Trap, Trapped, Ask, ctl
<1>0. pending.x \in Nat /\ resp.val \in Descriptors
  BY ResponseTyped DEF PendingOK, Targeted, NoResp, Response
<1>1. TypeOK'
  BY <1>0 DEF TypeOK
<1>2. PendingOK' /\ (ops \in Seq(MicroOps))' /\ (cache \in Descriptors)'
  BY <1>0 DEF PendingOK, PendingKinds, NoPend, Pend, Targeted, NoExit
<1>3. EventOK' /\ RespOK'
  BY <1>0 DEF EventOK, RespOK, AsksFor, Request, Busy, Signal, TypeOK, Pend
<1>4. QED
  BY <1>1, <1>2, <1>3

\* SettleOutOfTable keeps RunInv.
LEMMA SettleOutOfTableOK == RunInv /\ SettleOutOfTable /\ UNCHANGED driverVars => RunInv'
<1> SUFFICES ASSUME RunInv, SettleOutOfTable, UNCHANGED driverVars PROVE RunInv'
  OBVIOUS
<1> USE CoreAssumption DEF RunInv, SettleOutOfTable, frames, driverVars, regs,
   Delivered, Settled, Trap, Trapped, Ask, ctl
<1>1. TypeOK'
  BY DEF TypeOK
<1>2. PendingOK' /\ (ops \in Seq(MicroOps))' /\ (cache \in Descriptors)'
  BY DEF PendingOK, PendingKinds, NoPend, Pend, Targeted, NoExit
<1>3. EventOK' /\ RespOK'
  BY DEF EventOK, RespOK, Answers, Request, Busy, Signal, TypeOK, Pend
<1>4. QED
  BY <1>1, <1>2, <1>3

\* SettlePop keeps RunInv.
LEMMA SettlePopOK == RunInv /\ SettlePop /\ UNCHANGED driverVars => RunInv'
<1> SUFFICES ASSUME RunInv, SettlePop, UNCHANGED driverVars PROVE RunInv'
  OBVIOUS
<1> USE CoreAssumption DEF RunInv, SettlePop, frames, driverVars, regs, Delivered,
   Settled, Trap, Trapped, Ask, ctl
<1>0. resp.val \in Nat
  BY ResponseTyped DEF NoResp, Response
<1>1. TypeOK'
  BY <1>0 DEF TypeOK
<1>2. PendingOK' /\ (ops \in Seq(MicroOps))' /\ (cache \in Descriptors)'
  BY <1>0 DEF PendingOK, PendingKinds, NoPend, Pend, Targeted, NoExit
<1>3. EventOK' /\ RespOK'
  BY <1>0 DEF EventOK, RespOK, AsksFor, Request, Busy, Signal, TypeOK, Pend
<1>4. QED
  BY <1>1, <1>2, <1>3

\* SettlePopPair keeps RunInv.
LEMMA SettlePopPairOK == RunInv /\ SettlePopPair /\ UNCHANGED driverVars => RunInv'
<1> SUFFICES ASSUME RunInv, SettlePopPair, UNCHANGED driverVars PROVE RunInv'
  OBVIOUS
<1> USE DEF RunInv, frames, driverVars, regs, Settled, Ask, ctl
<1> DEFINE restored == IF frStack = <<>> THEN 0 ELSE TopOf(frStack)
           thenIp   == IF pending.x = NoExit THEN resp.val ELSE pending.x
<1>0. thenIp \in Nat /\ restored \in Nat
  BY ResponseTyped DEF SettlePopPair, Delivered, PendingOK, NoResp, Response,
     TypeOK, TopOf
<1>a. frStack' \in Seq(Nat)
  <2>1. frStack' = IF frStack = <<>> THEN frStack ELSE PopOff(frStack)
    BY DEF SettlePopPair
  <2>2. frStack \in Seq(Nat)
    BY DEF TypeOK
  <2>3. QED
    BY <2>1, <2>2, StackOps
<1>b. \/ /\ event' = Request("FrameRead", 0, DirectoryAddr(restored))
         /\ pending' = Pend("DirectoryRead", thenIp, 0)
         /\ ip' = ip
      \/ ip' = thenIp /\ event' = Busy /\ pending' = NoPend
  BY DEF SettlePopPair
<1>c. /\ fr' = restored /\ resp' = NoResp
      /\ cache' \in {NoDesc, cache}
      /\ phase = "Execute"
      /\ UNCHANGED <<image, instrStart, mr, tr, trLen, brkPending, phase, ops>>
  BY DEF SettlePopPair, Delivered
<1> HIDE DEF restored, thenIp
<1>1. TypeOK'
  BY <1>0, <1>a, <1>b, <1>c DEF TypeOK
<1>2. PendingOK' /\ (ops \in Seq(MicroOps))' /\ (cache \in Descriptors)'
  <2>1. NoDesc \in Descriptors
    BY DEF NoDesc, Descriptors
  <2>2. QED
    BY <1>0, <1>b, <1>c, <2>1 DEF PendingOK, PendingKinds, NoPend, Pend, Targeted,
       NoExit
<1>3. EventOK' /\ RespOK'
  BY <1>b, <1>c DEF EventOK, RespOK, AsksFor, Request, Busy, Signal, Pend,
     DirectoryAddr
<1>4. QED
  BY <1>1, <1>2, <1>3

\* SettleStackEmpty keeps RunInv.
LEMMA SettleStackEmptyOK == RunInv /\ SettleStackEmpty /\ UNCHANGED driverVars => RunInv'
<1> SUFFICES ASSUME RunInv, SettleStackEmpty, UNCHANGED driverVars PROVE RunInv'
  OBVIOUS
<1> USE CoreAssumption DEF RunInv, SettleStackEmpty, frames, driverVars, regs,
   Delivered, Settled, Trap, Trapped, Ask, ctl
<1>1. TypeOK'
  BY DEF TypeOK
<1>2. PendingOK' /\ (ops \in Seq(MicroOps))' /\ (cache \in Descriptors)'
  BY DEF PendingOK, PendingKinds, NoPend, Pend, Targeted, NoExit
<1>3. EventOK' /\ RespOK'
  BY DEF EventOK, RespOK, Answers, Request, Busy, Signal, TypeOK, Pend
<1>4. QED
  BY <1>1, <1>2, <1>3

\* SettleMatch keeps RunInv.
LEMMA SettleMatchOK == RunInv /\ SettleMatch /\ UNCHANGED driverVars => RunInv'
<1> SUFFICES ASSUME RunInv, SettleMatch, UNCHANGED driverVars PROVE RunInv'
  OBVIOUS
<1> USE DEF RunInv, SettleMatch, frames, driverVars, regs, Delivered, Settled,
   Trap, Trapped, Ask, ctl
<1>0. MatchResult(resp.val.rows) \in Nat
  <2>1. resp.val.rows \in Seq(Seq(Nat))
    BY ResponseTyped DEF MatchTables, NoResp, Response
  <2>2. QED
    BY <2>1, MatchResultTyped
<1>1. TypeOK'
  BY <1>0 DEF TypeOK
<1>2. PendingOK' /\ (ops \in Seq(MicroOps))' /\ (cache \in Descriptors)'
  BY DEF PendingOK, PendingKinds, NoPend, Pend, Targeted, NoExit
<1>3. EventOK' /\ RespOK'
  BY DEF EventOK, RespOK, AsksFor, Request, Busy, Signal, TypeOK, Pend, ComposeAddr
<1>4. QED
  BY <1>1, <1>2, <1>3

\* SettleDispatch keeps RunInv.
LEMMA SettleDispatchOK == RunInv /\ SettleDispatch /\ UNCHANGED driverVars => RunInv'
<1> SUFFICES ASSUME RunInv, SettleDispatch, UNCHANGED driverVars PROVE RunInv'
  OBVIOUS
<1> USE CoreAssumption DEF RunInv, SettleDispatch, frames, driverVars, regs,
   Delivered, Settled, Trap, Trapped, Ask, ctl
<1>0. resp.val.targets \in Seq(Nat)
  BY ResponseTyped DEF NoResp, Response, DispatchTables
<1>a. /\ ip' \in Nat /\ phase' \in {phase, "Done"}
      /\ UNCHANGED <<image, instrStart, mr, tr, trLen, brkPending, fr, cache, frStack>>
  <2>1. ip \in Nat
    BY DEF TypeOK
  <2>2. mr \in DOMAIN resp.val.targets => resp.val.targets[mr] \in Nat
    BY <1>0
  <2>3. QED
    BY <2>1, <2>2
<1>1. TypeOK'
  <2> HIDE DEF SettleDispatch
  <2>1. QED
    BY <1>a DEF TypeOK
<1>2. PendingOK' /\ (ops \in Seq(MicroOps))' /\ (cache \in Descriptors)'
  BY <1>0 DEF PendingOK, PendingKinds, NoPend, Pend, Targeted, NoExit
<1>3. EventOK' /\ RespOK'
  BY <1>0 DEF EventOK, RespOK, AsksFor, Request, Busy, Signal, TypeOK, Pend
<1>4. QED
  BY <1>1, <1>2, <1>3

-----------------------------------------------------------------------------
(* Issuing an operation keeps RunInv.                                        *)

\* IssueNop keeps RunInv.
LEMMA IssueNopOK == RunInv /\ IssueNop /\ UNCHANGED driverVars => RunInv'
<1> SUFFICES ASSUME RunInv, IssueNop, UNCHANGED driverVars PROVE RunInv'
  OBVIOUS
<1> USE CoreAssumption DEF RunInv, IssueNop, frames, driverVars, regs, Due,
   Continue, Issue, IssueTrap, Trap, Trapped, Ask, ctl
<1>0. /\ phase = "Execute" /\ pending = NoPend /\ resp = NoResp
      /\ Tail(ops) \in Seq(MicroOps)
      /\ Head(ops).a \in Int /\ Head(ops).b \in Nat
      /\ Head(ops).op \notin Displaced => Head(ops).a \in Nat
  BY DueOp
<1>1. TypeOK'
  BY <1>0 DEF TypeOK, JumpTarget, PhysDev
<1>2. PendingOK' /\ (ops \in Seq(MicroOps))' /\ (cache \in Descriptors)'
  BY <1>0 DEF PendingOK, PendingKinds, NoPend, Pend, Targeted, NoExit, Displaced
<1>3. EventOK' /\ RespOK'
  BY <1>0 DEF EventOK, RespOK, AsksFor, DeviceMoves, MatchAddr, DispatchAddr,
     Request, Busy, Signal, TypeOK, Pend
<1>4. QED
  BY <1>1, <1>2, <1>3

\* IssueBrk keeps RunInv.
LEMMA IssueBrkOK == RunInv /\ IssueBrk /\ UNCHANGED driverVars => RunInv'
<1> SUFFICES ASSUME RunInv, IssueBrk, UNCHANGED driverVars PROVE RunInv'
  OBVIOUS
<1> USE CoreAssumption DEF RunInv, IssueBrk, frames, driverVars, regs, Due,
   Continue, Issue, IssueTrap, Trap, Trapped, Ask, ctl
<1>0. /\ phase = "Execute" /\ pending = NoPend /\ resp = NoResp
      /\ Tail(ops) \in Seq(MicroOps)
      /\ Head(ops).a \in Int /\ Head(ops).b \in Nat
      /\ Head(ops).op \notin Displaced => Head(ops).a \in Nat
  BY DueOp
<1>1. TypeOK'
  BY <1>0 DEF TypeOK, JumpTarget, PhysDev
<1>2. PendingOK' /\ (ops \in Seq(MicroOps))' /\ (cache \in Descriptors)'
  BY <1>0 DEF PendingOK, PendingKinds, NoPend, Pend, Targeted, NoExit, Displaced
<1>3. EventOK' /\ RespOK'
  BY <1>0 DEF EventOK, RespOK, AsksFor, DeviceMoves, MatchAddr, DispatchAddr,
     Request, Busy, Signal, TypeOK, Pend
<1>4. QED
  BY <1>1, <1>2, <1>3

\* IssueEnd keeps RunInv.
LEMMA IssueEndOK == RunInv /\ IssueEnd /\ UNCHANGED driverVars => RunInv'
<1> SUFFICES ASSUME RunInv, IssueEnd, UNCHANGED driverVars PROVE RunInv'
  OBVIOUS
<1> USE CoreAssumption DEF RunInv, IssueEnd, frames, driverVars, regs, Due,
   Continue, Issue, IssueTrap, Trap, Trapped, Ask, ctl
<1>0. /\ phase = "Execute" /\ pending = NoPend /\ resp = NoResp
      /\ Tail(ops) \in Seq(MicroOps)
      /\ Head(ops).a \in Int /\ Head(ops).b \in Nat
      /\ Head(ops).op \notin Displaced => Head(ops).a \in Nat
  BY DueOp
<1>1. TypeOK'
  BY <1>0 DEF TypeOK, JumpTarget, PhysDev
<1>2. PendingOK' /\ (ops \in Seq(MicroOps))' /\ (cache \in Descriptors)'
  BY <1>0 DEF PendingOK, PendingKinds, NoPend, Pend, Targeted, NoExit, Displaced
<1>3. EventOK' /\ RespOK'
  BY <1>0 DEF EventOK, RespOK, AsksFor, DeviceMoves, MatchAddr, DispatchAddr,
     Request, Busy, Signal, TypeOK, Pend
<1>4. QED
  BY <1>1, <1>2, <1>3

\* IssueRaise keeps RunInv.
LEMMA IssueRaiseOK == RunInv /\ IssueRaise /\ UNCHANGED driverVars => RunInv'
<1> SUFFICES ASSUME RunInv, IssueRaise, UNCHANGED driverVars PROVE RunInv'
  OBVIOUS
<1> USE CoreAssumption DEF RunInv, IssueRaise, frames, driverVars, regs, Due,
   Continue, Issue, IssueTrap, Trap, Trapped, Ask, ctl
<1>0. /\ phase = "Execute" /\ pending = NoPend /\ resp = NoResp
      /\ Tail(ops) \in Seq(MicroOps)
      /\ Head(ops).a \in Int /\ Head(ops).b \in Nat
      /\ Head(ops).op \notin Displaced => Head(ops).a \in Nat
  BY DueOp
<1>1. TypeOK'
  BY <1>0 DEF TypeOK, JumpTarget, PhysDev
<1>2. PendingOK' /\ (ops \in Seq(MicroOps))' /\ (cache \in Descriptors)'
  BY <1>0 DEF PendingOK, PendingKinds, NoPend, Pend, Targeted, NoExit, Displaced
<1>3. EventOK' /\ RespOK'
  BY <1>0 DEF EventOK, RespOK, AsksFor, DeviceMoves, MatchAddr, DispatchAddr,
     Request, Busy, Signal, TypeOK, Pend
<1>4. QED
  BY <1>1, <1>2, <1>3

\* IssueMove keeps RunInv.
LEMMA IssueMoveOK == RunInv /\ IssueMove /\ UNCHANGED driverVars => RunInv'
<1> SUFFICES ASSUME RunInv, IssueMove, UNCHANGED driverVars PROVE RunInv'
  OBVIOUS
<1> USE CoreAssumption DEF RunInv, IssueMove, frames, driverVars, regs, Due,
   Continue, Issue, IssueTrap, Trap, Trapped, Ask, ctl
<1>0. /\ phase = "Execute" /\ pending = NoPend /\ resp = NoResp
      /\ Tail(ops) \in Seq(MicroOps)
      /\ Head(ops).a \in Int /\ Head(ops).b \in Nat
      /\ Head(ops).op \notin Displaced => Head(ops).a \in Nat
  BY DueOp
<1>a. /\ pending' = pending \/ pending' = Pend("Move", 0, 0)
      /\ ops' = ops \/ ops' = Tail(ops)
      /\ cache' = cache
  OBVIOUS
<1>1. TypeOK'
  BY <1>0 DEF TypeOK, JumpTarget, PhysDev
<1>2. PendingOK' /\ (ops \in Seq(MicroOps))' /\ (cache \in Descriptors)'
  <2>1. PendingOK'
    <3> HIDE DEF IssueMove
    <3>1. QED
      BY <1>0, <1>a DEF PendingOK, PendingKinds, NoPend, Pend, Targeted, NoExit
  <2>2. QED
    BY <1>0, <1>a, <2>1
<1>d. HasDev(Head(ops).a) /\ Head(ops).a \in Nat => PhysDev(Head(ops).a) \in Nat
  BY PhysDevTyped
<1>3. EventOK' /\ RespOK'
  <2>1. \/ phase' = "Done" /\ event'.type = "Trapped"
        \/ /\ phase' = "Execute" /\ event'.type = "Request"
           /\ event'.kind \in DeviceMoves /\ event'.dev \in Nat
           /\ pending'.kind = "Move"
    BY <1>0, <1>d DEF Displaced, DeviceMoves, Request, Pend
  <2>2. phase' = "Execute" => event' # Busy
    BY <2>1 DEF Busy, Signal
  <2>3. EventOK'
    <3> HIDE DEF IssueMove
    <3>1. QED
      BY <2>1, <2>2 DEF EventOK, AsksFor, Busy, Signal
  <2>4. RespOK'
    BY <1>0 DEF RespOK, Request, Busy, Signal
  <2>5. QED
    BY <2>3, <2>4
<1>4. QED
  BY <1>1, <1>2, <1>3

\* IssueWrite keeps RunInv.
LEMMA IssueWriteOK == RunInv /\ IssueWrite /\ UNCHANGED driverVars => RunInv'
<1> SUFFICES ASSUME RunInv, IssueWrite, UNCHANGED driverVars PROVE RunInv'
  OBVIOUS
<1> USE CoreAssumption DEF RunInv, IssueWrite, frames, driverVars, regs, Due,
   Continue, Issue, IssueTrap, Trap, Trapped, Ask, ctl
<1>0. /\ phase = "Execute" /\ pending = NoPend /\ resp = NoResp
      /\ Tail(ops) \in Seq(MicroOps)
      /\ Head(ops).a \in Int /\ Head(ops).b \in Nat
      /\ Head(ops).op \notin Displaced => Head(ops).a \in Nat
  BY DueOp
<1>1. TypeOK'
  BY <1>0 DEF TypeOK, JumpTarget, PhysDev
<1>2. PendingOK' /\ (ops \in Seq(MicroOps))' /\ (cache \in Descriptors)'
  BY <1>0 DEF PendingOK, PendingKinds, NoPend, Pend, Targeted, NoExit, Displaced
<1>d. HasDev(Head(ops).a) /\ Head(ops).a \in Nat => PhysDev(Head(ops).a) \in Nat
  BY PhysDevTyped
<1>3. EventOK' /\ RespOK'
  <2>1. \/ phase' = "Done" /\ event'.type = "Trapped"
        \/ /\ phase' = "Execute" /\ event'.type = "Request"
           /\ event'.kind = "DeviceWrite" /\ event'.dev \in Nat
           /\ pending'.kind = "Write"
    BY <1>0, <1>d DEF Displaced, Pend, Request
  <2>2. resp' = NoResp
    BY <1>0
  <2>3. QED
    <3> HIDE DEF IssueWrite
    <3>1. QED
      BY <2>1, <2>2 DEF EventOK, RespOK, AsksFor, Busy, Signal
<1>4. QED
  BY <1>1, <1>2, <1>3

\* IssueLatch keeps RunInv.
LEMMA IssueLatchOK == RunInv /\ IssueLatch /\ UNCHANGED driverVars => RunInv'
<1> SUFFICES ASSUME RunInv, IssueLatch, UNCHANGED driverVars PROVE RunInv'
  OBVIOUS
<1> USE CoreAssumption DEF RunInv, IssueLatch, frames, driverVars, regs, Due,
   Continue, Issue, IssueTrap, Trap, Trapped, Ask, ctl
<1>0. /\ phase = "Execute" /\ pending = NoPend /\ resp = NoResp
      /\ Tail(ops) \in Seq(MicroOps)
      /\ Head(ops).a \in Int /\ Head(ops).b \in Nat
      /\ Head(ops).op \notin Displaced => Head(ops).a \in Nat
  BY DueOp
<1>a. /\ pending' = pending
         \/ (pending' = Pend("Latch", Head(ops).a, 0) /\ Head(ops).a \in Nat)
      /\ ops' = ops \/ ops' = Tail(ops)
      /\ cache' = cache
  BY <1>0 DEF Displaced
<1>1. TypeOK'
  BY <1>0 DEF TypeOK, JumpTarget, PhysDev
<1>2. PendingOK' /\ (ops \in Seq(MicroOps))' /\ (cache \in Descriptors)'
  <2>1. PendingOK'
    <3> HIDE DEF IssueLatch
    <3>1. QED
      BY <1>0, <1>a DEF PendingOK, PendingKinds, NoPend, Pend, Targeted, NoExit
  <2>2. QED
    BY <1>0, <1>a, <2>1
<1>d. HasDev(0) => PhysDev(0) \in Nat
  BY PhysDevTyped
<1>3. EventOK' /\ RespOK'
  BY <1>0, <1>d DEF EventOK, RespOK, Displaced, AsksFor, DeviceMoves, MatchAddr,
     DispatchAddr, Request, Busy, Signal, TypeOK, Pend
<1>4. QED
  BY <1>1, <1>2, <1>3

\* IssueRead keeps RunInv.
LEMMA IssueReadOK == RunInv /\ IssueRead /\ UNCHANGED driverVars => RunInv'
<1> SUFFICES ASSUME RunInv, IssueRead, UNCHANGED driverVars PROVE RunInv'
  OBVIOUS
<1> USE CoreAssumption DEF RunInv, IssueRead, frames, driverVars, regs, Due,
   Continue, Issue, IssueTrap, Trap, Trapped, Ask, ctl
<1>0. /\ phase = "Execute" /\ pending = NoPend /\ resp = NoResp
      /\ Tail(ops) \in Seq(MicroOps)
      /\ Head(ops).a \in Int /\ Head(ops).b \in Nat
      /\ Head(ops).op \notin Displaced => Head(ops).a \in Nat
  BY DueOp
<1>a. /\ pending' = pending
         \/ (pending' = Pend("ReadSlot", Head(ops).b, Head(ops).a)
             /\ Head(ops).b \in 0..MaxSlot-1)
      /\ ops' = ops \/ ops' = Tail(ops)
      /\ cache' = cache
  BY <1>0 DEF Displaced
<1>1. TypeOK'
  BY <1>0 DEF TypeOK, JumpTarget, PhysDev
<1>2. PendingOK' /\ (ops \in Seq(MicroOps))' /\ (cache \in Descriptors)'
  <2>1. PendingOK'
    <3> HIDE DEF IssueRead
    <3>1. QED
      BY <1>0, <1>a DEF PendingOK, PendingKinds, NoPend, Pend, Targeted, NoExit
  <2>2. QED
    BY <1>0, <1>a, <2>1
<1>d. HasDev(Head(ops).a) /\ Head(ops).a \in Nat => PhysDev(Head(ops).a) \in Nat
  BY PhysDevTyped
<1>3. EventOK' /\ RespOK'
  <2>1. \/ phase' = "Done" /\ event'.type = "Trapped"
        \/ /\ phase' = "Execute" /\ event'.type = "Request"
           /\ event'.kind = "DeviceRead" /\ event'.dev \in Nat
           /\ pending'.kind = "ReadSlot"
    BY <1>0, <1>d DEF Displaced, DeviceMoves, Request, Pend
  <2>2. phase' = "Execute" => event' # Busy
    BY <2>1 DEF Busy, Signal
  <2>3. EventOK'
    <3> HIDE DEF IssueRead
    <3>1. QED
      BY <2>1, <2>2 DEF EventOK, AsksFor, Busy, Signal
  <2>4. RespOK'
    BY <1>0 DEF RespOK, Request, Busy, Signal
  <2>5. QED
    BY <2>3, <2>4
<1>4. QED
  BY <1>1, <1>2, <1>3

\* IssueReadAll keeps RunInv.
LEMMA IssueReadAllOK == RunInv /\ IssueReadAll /\ UNCHANGED driverVars => RunInv'
<1> SUFFICES ASSUME RunInv, IssueReadAll, UNCHANGED driverVars PROVE RunInv'
  OBVIOUS
<1> USE CoreAssumption DEF RunInv, IssueReadAll, frames, driverVars, regs, Due,
   Continue, Issue, IssueTrap, Trap, Trapped, Ask, ctl
<1>0. /\ phase = "Execute" /\ pending = NoPend /\ resp = NoResp
      /\ Tail(ops) \in Seq(MicroOps)
      /\ Head(ops).a \in Int /\ Head(ops).b \in Nat
      /\ Head(ops).op \notin Displaced => Head(ops).a \in Nat
  BY DueOp
<1>a. ops' \in Seq(MicroOps) /\ UNCHANGED <<pending, cache>>
  <2> DEFINE width == IF fr = 0 THEN image.devices ELSE Len(cache.entries)
  <2>1. width \in Nat
    BY DEF TypeOK, WellFormed, Descriptors
  <2>2. \A i \in 1..width : [op |-> "Read", a |-> i - 1, b |-> i - 1] \in MicroOps
    <3>1. ASSUME NEW i \in 1..width
          PROVE  [op |-> "Read", a |-> i - 1, b |-> i - 1] \in MicroOps
      <4>1. i - 1 \in Nat /\ i - 1 \in Int
        BY <2>1
      <4>2. [op |-> "Read", a |-> i - 1, b |-> i - 1] \in [op : OpNames, a : Int, b : Nat]
        BY <4>1 DEF OpNames
      <4>3. QED
        BY <4>1, <4>2 DEF MicroOps, Displaced
    <3>2. QED
      BY <3>1
  <2>3. [i \in 1..width |-> [op |-> "Read", a |-> i - 1, b |-> i - 1]]
          \in Seq(MicroOps)
    <3> HIDE DEF width
    <3>1. QED
      BY <2>1, <2>2
  <2>4. QED
    BY <1>0, <2>3
<1>1. TypeOK'
  BY <1>0 DEF TypeOK, JumpTarget, PhysDev
<1>2. PendingOK' /\ (ops \in Seq(MicroOps))' /\ (cache \in Descriptors)'
  <2>1. PendingOK'
    <3> HIDE DEF IssueReadAll
    <3>1. QED
      BY <1>0, <1>a DEF PendingOK, PendingKinds, NoPend, Pend, Targeted, NoExit
  <2>2. QED
    BY <1>0, <1>a, <2>1
<1>3. EventOK' /\ RespOK'
  BY <1>0 DEF EventOK, RespOK, AsksFor, DeviceMoves, MatchAddr, DispatchAddr,
     Request, Busy, Signal, TypeOK, Pend
<1>4. QED
  BY <1>1, <1>2, <1>3

\* IssueJump keeps RunInv.
LEMMA IssueJumpOK == RunInv /\ IssueJump /\ UNCHANGED driverVars => RunInv'
<1> SUFFICES ASSUME RunInv, IssueJump, UNCHANGED driverVars PROVE RunInv'
  OBVIOUS
<1> USE CoreAssumption DEF RunInv, IssueJump, frames, driverVars, regs, Due,
   Continue, Issue, IssueTrap, Trap, Trapped, Ask, ctl
<1>0. /\ phase = "Execute" /\ pending = NoPend /\ resp = NoResp
      /\ Tail(ops) \in Seq(MicroOps)
      /\ Head(ops).a \in Int /\ Head(ops).b \in Nat
      /\ Head(ops).op \notin Displaced => Head(ops).a \in Nat
  BY DueOp
<1>1. TypeOK'
  BY <1>0 DEF TypeOK, JumpTarget, PhysDev
<1>2. PendingOK' /\ (ops \in Seq(MicroOps))' /\ (cache \in Descriptors)'
  BY <1>0 DEF PendingOK, PendingKinds, NoPend, Pend, Targeted, NoExit, Displaced
<1>3. EventOK' /\ RespOK'
  BY <1>0 DEF EventOK, RespOK, AsksFor, DeviceMoves, MatchAddr, DispatchAddr,
     Request, Busy, Signal, TypeOK, Pend
<1>4. QED
  BY <1>1, <1>2, <1>3

\* IssueFallThrough keeps RunInv.
LEMMA IssueFallThroughOK == RunInv /\ IssueFallThrough /\ UNCHANGED driverVars => RunInv'
<1> SUFFICES ASSUME RunInv, IssueFallThrough, UNCHANGED driverVars PROVE RunInv'
  OBVIOUS
<1> USE CoreAssumption DEF RunInv, IssueFallThrough, frames, driverVars, regs,
   Due, Continue, Issue, IssueTrap, Trap, Trapped, Ask, ctl
<1>0. /\ phase = "Execute" /\ pending = NoPend /\ resp = NoResp
      /\ Tail(ops) \in Seq(MicroOps)
      /\ Head(ops).a \in Int /\ Head(ops).b \in Nat
      /\ Head(ops).op \notin Displaced => Head(ops).a \in Nat
  BY DueOp
<1>1. TypeOK'
  BY <1>0 DEF TypeOK, JumpTarget, PhysDev
<1>2. PendingOK' /\ (ops \in Seq(MicroOps))' /\ (cache \in Descriptors)'
  BY <1>0 DEF PendingOK, PendingKinds, NoPend, Pend, Targeted, NoExit, Displaced
<1>3. EventOK' /\ RespOK'
  BY <1>0 DEF EventOK, RespOK, AsksFor, DeviceMoves, MatchAddr, DispatchAddr,
     Request, Busy, Signal, TypeOK, Pend
<1>4. QED
  BY <1>1, <1>2, <1>3

\* IssueCall keeps RunInv.
LEMMA IssueCallOK == RunInv /\ IssueCall /\ UNCHANGED driverVars => RunInv'
<1> SUFFICES ASSUME RunInv, IssueCall, UNCHANGED driverVars PROVE RunInv'
  OBVIOUS
<1> USE CoreAssumption DEF RunInv, IssueCall, frames, driverVars, regs, Due,
   Continue, Issue, IssueTrap, Trap, Trapped, Ask, ctl
<1>0. /\ phase = "Execute" /\ pending = NoPend /\ resp = NoResp
      /\ Tail(ops) \in Seq(MicroOps)
      /\ Head(ops).a \in Int /\ Head(ops).b \in Nat
      /\ Head(ops).op \notin Displaced => Head(ops).a \in Nat
  BY DueOp
<1>1. TypeOK'
  BY <1>0 DEF TypeOK, JumpTarget, PhysDev
<1>2. PendingOK' /\ (ops \in Seq(MicroOps))' /\ (cache \in Descriptors)'
  BY <1>0 DEF PendingOK, PendingKinds, NoPend, Pend, Targeted, NoExit, Displaced
<1>3. EventOK' /\ RespOK'
  BY <1>0 DEF EventOK, RespOK, AsksFor, DeviceMoves, MatchAddr, DispatchAddr,
     Request, Busy, Signal, TypeOK, Pend
<1>4. QED
  BY <1>1, <1>2, <1>3

\* IssueRet keeps RunInv.
LEMMA IssueRetOK == RunInv /\ IssueRet /\ UNCHANGED driverVars => RunInv'
<1> SUFFICES ASSUME RunInv, IssueRet, UNCHANGED driverVars PROVE RunInv'
  OBVIOUS
<1> USE CoreAssumption DEF RunInv, IssueRet, frames, driverVars, regs, Due,
   Continue, Issue, IssueTrap, Trap, Trapped, Ask, ctl
<1>0. /\ phase = "Execute" /\ pending = NoPend /\ resp = NoResp
      /\ Tail(ops) \in Seq(MicroOps)
      /\ Head(ops).a \in Int /\ Head(ops).b \in Nat
      /\ Head(ops).op \notin Displaced => Head(ops).a \in Nat
  BY DueOp
<1>1. TypeOK'
  BY <1>0 DEF TypeOK, JumpTarget, PhysDev
<1>2. PendingOK' /\ (ops \in Seq(MicroOps))' /\ (cache \in Descriptors)'
  BY <1>0 DEF PendingOK, PendingKinds, NoPend, Pend, Targeted, NoExit, Displaced
<1>3. EventOK' /\ RespOK'
  BY <1>0 DEF EventOK, RespOK, AsksFor, DeviceMoves, MatchAddr, DispatchAddr,
     Request, Busy, Signal, TypeOK, Pend
<1>4. QED
  BY <1>1, <1>2, <1>3

\* IssueRetX keeps RunInv.
LEMMA IssueRetXOK == RunInv /\ IssueRetX /\ UNCHANGED driverVars => RunInv'
<1> SUFFICES ASSUME RunInv, IssueRetX, UNCHANGED driverVars PROVE RunInv'
  OBVIOUS
<1> USE CoreAssumption DEF RunInv, IssueRetX, frames, driverVars, regs, Due,
   Continue, Issue, IssueTrap, Trap, Trapped, Ask, ctl
<1>0. /\ phase = "Execute" /\ pending = NoPend /\ resp = NoResp
      /\ Tail(ops) \in Seq(MicroOps)
      /\ Head(ops).a \in Int /\ Head(ops).b \in Nat
      /\ Head(ops).op \notin Displaced => Head(ops).a \in Nat
  BY DueOp
<1>a. /\ pending' = pending
         \/ (pending' = Pend("PopPair", cache.exits[Head(ops).a + 1], 0)
             /\ cache.exits[Head(ops).a + 1] \in Nat)
      /\ ops' = ops \/ ops' = Tail(ops)
      /\ cache' = cache
  BY <1>0 DEF Descriptors
<1>1. TypeOK'
  BY <1>0 DEF TypeOK, JumpTarget, PhysDev
<1>2. PendingOK' /\ (ops \in Seq(MicroOps))' /\ (cache \in Descriptors)'
  <2>1. PendingOK'
    <3> HIDE DEF IssueRetX
    <3>1. QED
      BY <1>0, <1>a DEF PendingOK, PendingKinds, NoPend, Pend, Targeted, NoExit
  <2>2. QED
    BY <1>0, <1>a, <2>1
<1>3. EventOK' /\ RespOK'
  BY <1>0 DEF EventOK, RespOK, AsksFor, DeviceMoves, MatchAddr, DispatchAddr,
     Request, Busy, Signal, TypeOK, Pend
<1>4. QED
  BY <1>1, <1>2, <1>3

\* IssueProfileViolation keeps RunInv.
LEMMA IssueProfileViolationOK ==
  RunInv /\ IssueProfileViolation /\ UNCHANGED driverVars => RunInv'
<1> SUFFICES ASSUME RunInv, IssueProfileViolation, UNCHANGED driverVars PROVE RunInv'
  OBVIOUS
<1> USE CoreAssumption DEF RunInv, IssueProfileViolation, frames, driverVars,
   regs, Due, Continue, Issue, IssueTrap, Trap, Trapped, Ask, ctl
<1>0. /\ phase = "Execute" /\ pending = NoPend /\ resp = NoResp
      /\ Tail(ops) \in Seq(MicroOps)
      /\ Head(ops).a \in Int /\ Head(ops).b \in Nat
      /\ Head(ops).op \notin Displaced => Head(ops).a \in Nat
  BY DueOp
<1>1. TypeOK'
  BY <1>0 DEF TypeOK, JumpTarget, PhysDev
<1>2. PendingOK' /\ (ops \in Seq(MicroOps))' /\ (cache \in Descriptors)'
  BY <1>0 DEF PendingOK, PendingKinds, NoPend, Pend, Targeted, NoExit, Displaced
<1>3. EventOK' /\ RespOK'
  BY <1>0 DEF EventOK, RespOK, AsksFor, DeviceMoves, MatchAddr, DispatchAddr,
     Request, Busy, Signal, TypeOK, Pend
<1>4. QED
  BY <1>1, <1>2, <1>3

\* IssueMatch keeps RunInv.
LEMMA IssueMatchOK == RunInv /\ IssueMatch /\ UNCHANGED driverVars => RunInv'
<1> SUFFICES ASSUME RunInv, IssueMatch, UNCHANGED driverVars PROVE RunInv'
  OBVIOUS
<1> USE CoreAssumption DEF RunInv, IssueMatch, frames, driverVars, regs, Due,
   Continue, Issue, IssueTrap, Trap, Trapped, Ask, ctl
<1>0. /\ phase = "Execute" /\ pending = NoPend /\ resp = NoResp
      /\ Tail(ops) \in Seq(MicroOps)
      /\ Head(ops).a \in Int /\ Head(ops).b \in Nat
      /\ Head(ops).op \notin Displaced => Head(ops).a \in Nat
  BY DueOp
<1>1. TypeOK'
  BY <1>0 DEF TypeOK, JumpTarget, PhysDev
<1>2. PendingOK' /\ (ops \in Seq(MicroOps))' /\ (cache \in Descriptors)'
  BY <1>0 DEF PendingOK, PendingKinds, NoPend, Pend, Targeted, NoExit, Displaced
<1>3. EventOK' /\ RespOK'
  BY <1>0 DEF EventOK, RespOK, AsksFor, DeviceMoves, MatchAddr, DispatchAddr,
     Request, Busy, Signal, TypeOK, Pend
<1>4. QED
  BY <1>1, <1>2, <1>3

\* IssueDispatch keeps RunInv.
LEMMA IssueDispatchOK == RunInv /\ IssueDispatch /\ UNCHANGED driverVars => RunInv'
<1> SUFFICES ASSUME RunInv, IssueDispatch, UNCHANGED driverVars PROVE RunInv'
  OBVIOUS
<1> USE CoreAssumption DEF RunInv, IssueDispatch, frames, driverVars, regs, Due,
   Continue, Issue, IssueTrap, Trap, Trapped, Ask, ctl
<1>0. /\ phase = "Execute" /\ pending = NoPend /\ resp = NoResp
      /\ Tail(ops) \in Seq(MicroOps)
      /\ Head(ops).a \in Int /\ Head(ops).b \in Nat
      /\ Head(ops).op \notin Displaced => Head(ops).a \in Nat
  BY DueOp
<1>1. TypeOK'
  BY <1>0 DEF TypeOK, JumpTarget, PhysDev
<1>2. PendingOK' /\ (ops \in Seq(MicroOps))' /\ (cache \in Descriptors)'
  BY <1>0 DEF PendingOK, PendingKinds, NoPend, Pend, Targeted, NoExit, Displaced
<1>3. EventOK' /\ RespOK'
  BY <1>0 DEF EventOK, RespOK, AsksFor, DeviceMoves, MatchAddr, DispatchAddr,
     Request, Busy, Signal, TypeOK, Pend
<1>4. QED
  BY <1>1, <1>2, <1>3

\* Retire keeps RunInv.
LEMMA RetireOK == RunInv /\ Retire /\ UNCHANGED driverVars => RunInv'
<1> SUFFICES ASSUME RunInv, Retire, UNCHANGED driverVars PROVE RunInv'
  OBVIOUS
<1> USE CoreAssumption DEF RunInv, Retire, frames, driverVars, regs, Due,
   Continue, Issue, IssueTrap, Trap, Trapped, Ask, ctl
<1>1. TypeOK'
  BY DEF TypeOK
<1>2. PendingOK' /\ (ops \in Seq(MicroOps))' /\ (cache \in Descriptors)'
  BY DEF PendingOK, PendingKinds, NoPend, Pend, Targeted, NoExit
<1>3. EventOK' /\ RespOK'
  BY DEF EventOK, RespOK, AsksFor, Request, Busy, Signal, TypeOK, Pend
<1>4. QED
  BY <1>1, <1>2, <1>3

-----------------------------------------------------------------------------
(* The driver keeps RunInv.                                                  *)

\* Load keeps RunInv.
LEMMA LoadOK == RunInv /\ Load => RunInv'
<1> SUFFICES ASSUME RunInv, Load PROVE RunInv'
  OBVIOUS
<1> USE CoreAssumption DEF RunInv, Load, regs, frames, ctl, ports
<1>1. TypeOK'
  BY DEF TypeOK
<1>2. PendingOK' /\ (ops \in Seq(MicroOps))' /\ (cache \in Descriptors)'
  BY DEF PendingOK, PendingKinds, NoPend, Pend, Targeted, NoExit
<1>3. EventOK' /\ RespOK'
  BY DEF EventOK, RespOK, Answers, AsksFor, Request, Busy, Signal, TypeOK, Pend
<1>4. QED
  BY <1>1, <1>2, <1>3

\* ServeCode keeps RunInv.
LEMMA ServeCodeOK == RunInv /\ ServeCode => RunInv'
<1> SUFFICES ASSUME RunInv, ServeCode PROVE RunInv'
  OBVIOUS
<1> USE DEF RunInv, ServeCode, regs, frames, ctl, Asked, Deliver
<1>0. stats \in Stats /\ stack \in Seq(Nat) /\ tapes \in [0..Devices-1 -> Tapes]
  BY DEF TypeOK, Stats
<1>a. /\ stats' \in Stats
      /\ stack' \in Seq(Nat) /\ Len(stack') <= Capacity
      /\ tapes' \in [0..Devices-1 -> Tapes]
  BY <1>0, PriceTyped DEF TypeOK
<1>1. TypeOK'
  BY <1>a DEF TypeOK, Stats
<1>2. PendingOK' /\ (ops \in Seq(MicroOps))' /\ (cache \in Descriptors)'
  BY DEF PendingOK
<1>3. EventOK'
  BY DEF EventOK, AsksFor
<1>4. RespOK'
  BY DEF RespOK, Answers, Response, DeviceMoves
<1>5. QED
  BY <1>1, <1>2, <1>3, <1>4

\* ServePush keeps RunInv.
LEMMA ServePushOK == RunInv /\ ServePush => RunInv'
<1> SUFFICES ASSUME RunInv, ServePush PROVE RunInv'
  OBVIOUS
<1> USE DEF RunInv, ServePush, regs, frames, ctl, Asked, Deliver
<1>0. stats \in Stats /\ stack \in Seq(Nat) /\ tapes \in [0..Devices-1 -> Tapes]
  BY DEF TypeOK, Stats
<1>b. event.val \in Nat
  BY DEF EventOK, AsksFor, Busy, Signal, Request, DeviceMoves, TypeOK

<1>a. /\ stats' \in Stats
      /\ stack' \in Seq(Nat) /\ Len(stack') <= Capacity
      /\ tapes' \in [0..Devices-1 -> Tapes]
  <2>1. CASE StackRoom
    <3>1. stack' = PushOn(stack, event.val) /\ stats' = CoreTact(1) /\ tapes' = tapes
      BY <2>1
    <3>2. Len(stack) \in Nat /\ Len(stack) < Capacity /\ Capacity \in Nat
      BY <1>0, <2>1, DriverAssumption DEF StackRoom
    <3>3. PushOn(stack, event.val) \in Seq(Nat)
          /\ Len(PushOn(stack, event.val)) = Len(stack) + 1
      BY <1>0, <1>b, StackOps
    <3>4. CoreTact(1) \in Stats
      BY <1>0, PriceTyped
    <3>5. QED
      BY <1>0, <3>1, <3>2, <3>3, <3>4
  <2>2. CASE ~StackRoom
    BY <1>0, <2>2 DEF TypeOK
  <2>3. QED
    BY <2>1, <2>2
<1>1. TypeOK'
  BY <1>a DEF TypeOK, Stats
<1>2. PendingOK' /\ (ops \in Seq(MicroOps))' /\ (cache \in Descriptors)'
  BY DEF PendingOK
<1>3. EventOK'
  BY DEF EventOK, AsksFor
<1>4. RespOK'
  BY DEF RespOK, Answers, Response, DeviceMoves
<1>5. QED
  BY <1>1, <1>2, <1>3, <1>4

\* ServePop keeps RunInv.
LEMMA ServePopOK == RunInv /\ ServePop => RunInv'
<1> SUFFICES ASSUME RunInv, ServePop PROVE RunInv'
  OBVIOUS
<1> USE DEF RunInv, ServePop, regs, frames, ctl, Asked, Deliver
<1>0. stats \in Stats /\ stack \in Seq(Nat) /\ tapes \in [0..Devices-1 -> Tapes]
  BY DEF TypeOK, Stats
<1>a. /\ stats' \in Stats
      /\ stack' \in Seq(Nat) /\ Len(stack') <= Capacity
      /\ tapes' \in [0..Devices-1 -> Tapes]
  <2>1. CASE stack # <<>>
    <3>1. stack' = PopOff(stack) /\ stats' = CoreTact(1) /\ tapes' = tapes
      BY <2>1
    <3>2. PopOff(stack) \in Seq(Nat) /\ Len(PopOff(stack)) = Len(stack) - 1
      BY <1>0, <2>1, StackOps
    <3>3. Len(stack) \in Nat /\ Len(stack) <= Capacity /\ Capacity \in Nat
      BY <1>0, DriverAssumption DEF TypeOK
    <3>4. CoreTact(1) \in Stats
      BY <1>0, PriceTyped
    <3>5. QED
      BY <1>0, <3>1, <3>2, <3>3, <3>4
  <2>2. CASE stack = <<>>
    BY <1>0, <2>2 DEF TypeOK
  <2>3. QED
    BY <2>1, <2>2
<1>b. stack # <<>> => TopOf(stack) \in Nat
  BY <1>0, StackOps
<1>1. TypeOK'
  BY <1>a DEF TypeOK, Stats
<1>2. PendingOK' /\ (ops \in Seq(MicroOps))' /\ (cache \in Descriptors)'
  BY DEF PendingOK
<1>3. EventOK'
  BY DEF EventOK, AsksFor
<1>4. RespOK'
  BY <1>b DEF RespOK, Answers, Response, DeviceMoves
<1>5. QED
  BY <1>1, <1>2, <1>3, <1>4

\* ServeMove keeps RunInv.
LEMMA ServeMoveOK == RunInv /\ ServeMove => RunInv'
<1> SUFFICES ASSUME RunInv, ServeMove PROVE RunInv'
  OBVIOUS
<1> USE DEF RunInv, ServeMove, regs, frames, ctl, Asked, Deliver
<1>0. stats \in Stats /\ stack \in Seq(Nat) /\ tapes \in [0..Devices-1 -> Tapes]
  BY DEF TypeOK, Stats
<1>b. event.dev \in 0..Devices-1
  <2>1. event.type = "Request" /\ event.kind \in DeviceMoves \cup {"DeviceWrite"}
        /\ event.dev < Devices
    BY DEF DeviceMoves
  <2>2. AsksFor
    BY <2>1 DEF EventOK, Busy, Signal, Request, DeviceMoves, TypeOK
  <2>3. QED
    BY <2>1, <2>2, DriverAssumption DEF AsksFor, DeviceMoves

<1>a. /\ stats' \in Stats
      /\ stack' \in Seq(Nat) /\ Len(stack') <= Capacity
      /\ tapes' \in [0..Devices-1 -> Tapes]
  BY <1>0, <1>b, PriceTyped, TapeTyped DEF TypeOK
<1>1. TypeOK'
  BY <1>a DEF TypeOK, Stats
<1>2. PendingOK' /\ (ops \in Seq(MicroOps))' /\ (cache \in Descriptors)'
  BY DEF PendingOK
<1>3. EventOK'
  BY DEF EventOK, AsksFor
<1>4. RespOK'
  BY DEF RespOK, Answers, Response, DeviceMoves
<1>5. QED
  BY <1>1, <1>2, <1>3, <1>4

\* ServeRead keeps RunInv.
LEMMA ServeReadOK == RunInv /\ ServeRead => RunInv'
<1> SUFFICES ASSUME RunInv, ServeRead PROVE RunInv'
  OBVIOUS
<1> USE DEF RunInv, ServeRead, regs, frames, ctl, Asked, Deliver
<1>0. stats \in Stats /\ stack \in Seq(Nat) /\ tapes \in [0..Devices-1 -> Tapes]
  BY DEF TypeOK, Stats
<1>a. /\ stats' \in Stats
      /\ stack' \in Seq(Nat) /\ Len(stack') <= Capacity
      /\ tapes' \in [0..Devices-1 -> Tapes]
  BY <1>0, PriceTyped DEF TypeOK
<1>1. TypeOK'
  BY <1>a DEF TypeOK, Stats
<1>2. PendingOK' /\ (ops \in Seq(MicroOps))' /\ (cache \in Descriptors)'
  BY DEF PendingOK
<1>3. EventOK'
  BY DEF EventOK, AsksFor
<1>4. RespOK'
  BY DEF RespOK, Answers, Response, DeviceMoves
<1>5. QED
  BY <1>1, <1>2, <1>3, <1>4

\* ServeWrite keeps RunInv.
LEMMA ServeWriteOK == RunInv /\ ServeWrite => RunInv'
<1> SUFFICES ASSUME RunInv, ServeWrite PROVE RunInv'
  OBVIOUS
<1> USE DEF RunInv, ServeWrite, regs, frames, ctl, Asked, Deliver
<1>0. stats \in Stats /\ stack \in Seq(Nat) /\ tapes \in [0..Devices-1 -> Tapes]
  BY DEF TypeOK, Stats
<1>b. event.dev \in 0..Devices-1
  <2>1. event.type = "Request" /\ event.kind \in DeviceMoves \cup {"DeviceWrite"}
        /\ event.dev < Devices
    BY DEF DeviceMoves
  <2>2. AsksFor
    BY <2>1 DEF EventOK, Busy, Signal, Request, DeviceMoves, TypeOK
  <2>3. QED
    BY <2>1, <2>2, DriverAssumption DEF AsksFor, DeviceMoves

<1>a. /\ stats' \in Stats
      /\ stack' \in Seq(Nat) /\ Len(stack') <= Capacity
      /\ tapes' \in [0..Devices-1 -> Tapes]
  <2>1. UNCHANGED stack /\ stats' \in {stats, StallTact(Cost["write"])}
    OBVIOUS
  <2>2. CASE WriteFault(tapes[event.dev], event.val) = "none"
    <3>1. tapes' = [tapes EXCEPT ![event.dev] = TapeWrite(tapes[event.dev], event.val)]
      BY <2>2
    <3>2. TapeWrite(tapes[event.dev], event.val) \in Tapes
      BY <1>0, <1>b, <2>2, TapeTyped
    <3>3. QED
      BY <1>0, <2>1, <3>1, <3>2, PriceTyped DEF TypeOK
  <2>3. CASE WriteFault(tapes[event.dev], event.val) # "none"
    BY <1>0, <2>1, <2>3 DEF TypeOK
  <2>4. QED
    BY <2>2, <2>3
<1>1. TypeOK'
  BY <1>a DEF TypeOK, Stats
<1>2. PendingOK' /\ (ops \in Seq(MicroOps))' /\ (cache \in Descriptors)'
  BY DEF PendingOK
<1>3. EventOK'
  BY DEF EventOK, AsksFor
<1>4. RespOK'
  BY DEF RespOK, Answers, Response, DeviceMoves
<1>5. QED
  BY <1>1, <1>2, <1>3, <1>4

\* ServeNoDevice keeps RunInv.
LEMMA ServeNoDeviceOK == RunInv /\ ServeNoDevice => RunInv'
<1> SUFFICES ASSUME RunInv, ServeNoDevice PROVE RunInv'
  OBVIOUS
<1> USE CoreAssumption DEF RunInv, ServeNoDevice, regs, frames, ctl, Asked,
   Deliver, Finish, CoreTact, StallTact
<1>1. TypeOK'
  BY DEF TypeOK, PushOn, PopOff, TopOf, StackRoom
<1>2. PendingOK' /\ (ops \in Seq(MicroOps))' /\ (cache \in Descriptors)'
  BY DEF PendingOK, PendingKinds, NoPend, Pend, Targeted, NoExit
<1>3. EventOK' /\ RespOK'
  BY DEF EventOK, RespOK, AsksFor, Answers, DeviceMoves, Response, NoResp,
     Request, Busy, Signal, TypeOK, Pend
<1>4. QED
  BY <1>1, <1>2, <1>3

\* ServeTable keeps RunInv.
LEMMA ServeTableOK == RunInv /\ ServeTable => RunInv'
<1> SUFFICES ASSUME RunInv, ServeTable PROVE RunInv'
  OBVIOUS
<1> USE DEF RunInv, ServeTable, regs, frames, ctl, Asked, Deliver, ServeRom
<1>0. stats \in Stats /\ stack \in Seq(Nat) /\ tapes \in [0..Devices-1 -> Tapes]
  BY DEF TypeOK, Stats
<1>a. /\ stats' \in Stats
      /\ stack' \in Seq(Nat) /\ Len(stack') <= Capacity
      /\ tapes' \in [0..Devices-1 -> Tapes]
  BY <1>0, PriceTyped DEF TypeOK
<1>1. TypeOK'
  BY <1>a DEF TypeOK, Stats
<1>2. PendingOK' /\ (ops \in Seq(MicroOps))' /\ (cache \in Descriptors)'
  BY DEF PendingOK
<1>3. EventOK'
  BY DEF EventOK, AsksFor
<1>4. RespOK'
  BY DEF RespOK, Answers, Response, DeviceMoves
<1>5. QED
  BY <1>1, <1>2, <1>3, <1>4

\* ServeFrame keeps RunInv.
LEMMA ServeFrameOK == RunInv /\ ServeFrame => RunInv'
<1> SUFFICES ASSUME RunInv, ServeFrame PROVE RunInv'
  OBVIOUS
<1> USE DEF RunInv, ServeFrame, regs, frames, ctl, Asked, Deliver, ServeRom
<1>0. stats \in Stats /\ stack \in Seq(Nat) /\ tapes \in [0..Devices-1 -> Tapes]
  BY DEF TypeOK, Stats
<1>a. /\ stats' \in Stats
      /\ stack' \in Seq(Nat) /\ Len(stack') <= Capacity
      /\ tapes' \in [0..Devices-1 -> Tapes]
  BY <1>0, PriceTyped DEF TypeOK
<1>1. TypeOK'
  BY <1>a DEF TypeOK, Stats
<1>2. PendingOK' /\ (ops \in Seq(MicroOps))' /\ (cache \in Descriptors)'
  BY DEF PendingOK
<1>3. EventOK'
  BY DEF EventOK, AsksFor
<1>4. RespOK'
  BY DEF RespOK, Answers, Response, DeviceMoves
<1>5. QED
  BY <1>1, <1>2, <1>3, <1>4

\* Account keeps RunInv.
LEMMA AccountOK == RunInv /\ Account => RunInv'
<1> SUFFICES ASSUME RunInv, Account PROVE RunInv'
  OBVIOUS
<1> USE CoreAssumption DEF RunInv, Account, regs, frames, ctl, Finish
<1>0. stats' \in Stats
  BY PriceTyped DEF TypeOK, Stats
<1>1. TypeOK'
  BY <1>0 DEF TypeOK, Stats
<1>2. PendingOK' /\ (ops \in Seq(MicroOps))' /\ (cache \in Descriptors)'
  BY DEF PendingOK, PendingKinds, NoPend, Pend, Targeted, NoExit
<1>3. EventOK' /\ RespOK'
  BY DEF EventOK, RespOK, AsksFor, Request, Busy, Signal, TypeOK, Pend
<1>4. QED
  BY <1>1, <1>2, <1>3

\* End keeps RunInv.
LEMMA EndOK == RunInv /\ End => RunInv'
<1> SUFFICES ASSUME RunInv, End PROVE RunInv'
  OBVIOUS
<1> USE CoreAssumption DEF RunInv, End, coreVars, regs, frames, ctl, ports, Finish
<1>1. TypeOK'
  BY DEF TypeOK
<1>2. PendingOK' /\ (ops \in Seq(MicroOps))' /\ (cache \in Descriptors)'
  BY DEF PendingOK, PendingKinds, NoPend, Pend, Targeted, NoExit
<1>3. EventOK' /\ RespOK'
  BY DEF EventOK, RespOK, AsksFor, Request, Busy, Signal, TypeOK, Pend
<1>4. QED
  BY <1>1, <1>2, <1>3

-----------------------------------------------------------------------------
(* The theorem. *)

\* Every step of a run, of the core or of the driver, keeps RunInv.
LEMMA StepOK == RunInv /\ [Next]_vars => RunInv'
<1> SUFFICES ASSUME RunInv, [Next]_vars PROVE RunInv'
  OBVIOUS
<1>1. CASE Load
  BY <1>1, LoadOK
<1>2. CASE Begin
  BY <1>2, BeginOK DEF Begin
<1>3. CASE Serve
  BY <1>3, ServeCodeOK, ServePushOK, ServePopOK, ServeMoveOK, ServeReadOK,
     ServeWriteOK, ServeNoDeviceOK, ServeTableOK, ServeFrameOK DEF Serve
<1>4. CASE Resume
  <2>1. UNCHANGED driverVars /\ CoreStep
    BY <1>4 DEF Resume
  <2>2. CASE FetchOpcode \/ FetchOperand
    BY <2>1, <2>2, FetchOpcodeOK, FetchOperandOK
  <2>3. CASE Settle
    BY <2>1, <2>3, SettleDoneOK, SettleFaultOK, SettleLatchOK, SettleReadOK,
       SettleEntCheckOK, SettlePushOK, SettleStackFullOK, SettlePushFrameOK,
       SettleComposeOK, SettleDirectoryOK, SettleFrameLoadOK, SettleOutOfTableOK,
       SettlePopOK, SettlePopPairOK, SettleStackEmptyOK, SettleMatchOK,
       SettleDispatchOK DEF Settle
  <2>4. CASE IssueOp
    BY <2>1, <2>4, IssueNopOK, IssueBrkOK, IssueEndOK, IssueRaiseOK, IssueMoveOK,
       IssueWriteOK, IssueLatchOK, IssueReadOK, IssueReadAllOK, IssueJumpOK,
       IssueFallThroughOK, IssueCallOK, IssueRetOK, IssueRetXOK,
       IssueProfileViolationOK, IssueMatchOK, IssueDispatchOK DEF IssueOp
  <2>5. CASE Retire
    BY <2>1, <2>5, RetireOK
  <2>6. QED
    BY <2>1, <2>2, <2>3, <2>4, <2>5 DEF CoreStep
<1>5. CASE Account
  BY <1>5, AccountOK
<1>6. CASE End
  BY <1>6, EndOK
<1>7. CASE UNCHANGED vars
  BY <1>7 DEF vars, coreVars, driverVars, regs, frames, ctl, ports, RunInv, TypeOK,
     PendingOK, EventOK, AsksFor, RespOK, Answers
<1>8. QED
  BY <1>1, <1>2, <1>3, <1>4, <1>5, <1>6, <1>7 DEF Next

\* RunInv holds in every state of every run.
THEOREM RunInvariant == Spec => []RunInv
<1>1. QED
  BY InitOK, StepOK, PTL DEF Spec

\* Every variable stays in its type, whatever the image, the tapes, the
\* limits and the capacity of the return stack.
THEOREM TypeCorrect == Spec => []TypeOK
<1>1. RunInv => TypeOK
  BY DEF RunInv
<1>2. QED
  BY <1>1, RunInvariant, PTL

-----------------------------------------------------------------------------
(* The FR stack of the core never drifts from the driver's return stack.     *)

\* StacksInStep is kept because under the frames profile nothing pops a
\* return address alone.
StackInv == RunInv /\ StacksInStep /\ (FramesOn => pending.kind # "Pop")

InFlight == PushInFlight \/ PopInFlight

\* A step that moves neither stack, with nothing on its way to the core
\* before or after it, keeps them in step.
LEMMA QuietStep ==
  ASSUME StacksInStep, Running' => Running, ~InFlight, ~InFlight',
         UNCHANGED <<image, stack, frStack>>
  PROVE  StacksInStep'
BY DEF StacksInStep, FramesOn, InFlight

\* Fetching and issuing happen with no response due; every other settlement
\* answers a request that is neither a push nor a pop of a pair.
LEMMA CoreQuiet ==
  ASSUME StackInv, CoreStep, UNCHANGED driverVars,
         ~(SettlePush \/ SettlePushFrame \/ SettlePopPair)
  PROVE  StackInv'
<1> USE DEF StackInv
<1>1. RunInv'
  BY StepOK DEF Next, Resume
<1>2. CASE FetchOpcode \/ FetchOperand
  <2>1. /\ pending = NoPend /\ pending' = NoPend
        /\ UNCHANGED <<image, stack, frStack, result>>
    BY <1>2 DEF RunInv, EventOK, FetchOpcode, FetchOperand, FinishFetch, Ask, Trap,
       frames, driverVars
  <2>2. QED
    BY <1>1, <2>1, QuietStep
       DEF InFlight, PushInFlight, PopInFlight, NoPend, Pend, Running
<1>3. CASE Settle
  <2>1. resp.kind = "Ok" => pending.kind \notin {"Push", "PushFrame"}
    BY <1>3 DEF Settle, SettleDone, SettleFault, SettleLatch, SettleRead,
       SettleEntCheck, SettleStackFull, SettleCompose, SettleDirectory,
       SettleFrameLoad, SettleOutOfTable, SettlePop, SettleStackEmpty,
       SettleMatch, SettleDispatch, Delivered
  <2>2. resp.kind = "Value" => pending.kind # "PopPair"
    BY <1>3 DEF Settle, SettleDone, SettleFault, SettleLatch, SettleRead,
       SettleEntCheck, SettleStackFull, SettleCompose, SettleDirectory,
       SettleFrameLoad, SettleOutOfTable, SettlePop, SettleStackEmpty,
       SettleMatch, SettleDispatch, Delivered
  <2>3. resp' = NoResp /\ UNCHANGED <<image, stack, frStack, result>>
    BY <1>3 DEF Settle, SettleDone, SettleFault, SettleLatch, SettleRead,
       SettleEntCheck, SettleStackFull, SettleCompose, SettleDirectory,
       SettleFrameLoad, SettleOutOfTable, SettlePop, SettleStackEmpty,
       SettleMatch, SettleDispatch, Settled, Ask, Trap, frames, driverVars
  <2>4. pending' = pending
        \/ pending'.kind \in {"None", "Push", "PushFrame", "DirectoryRead", "FrameLoad"}
    BY <1>3 DEF Settle, SettleDone, SettleFault, SettleLatch, SettleRead,
       SettleEntCheck, SettleStackFull, SettleCompose, SettleDirectory,
       SettleFrameLoad, SettleOutOfTable, SettlePop, SettleStackEmpty,
       SettleMatch, SettleDispatch, Settled, Ask, NoPend, Pend
  <2>5. QED
    BY <1>1, <2>1, <2>2, <2>3, <2>4, QuietStep
       DEF InFlight, PushInFlight, PopInFlight, NoResp, Response, Running, FramesOn
<1>4. CASE IssueOp \/ Retire
  <2>1. event = Busy
    BY <1>4 DEF IssueOp, Retire, IssueNop, IssueBrk, IssueEnd, IssueRaise,
       IssueMove,
       IssueWrite, IssueLatch, IssueRead, IssueReadAll, IssueJump, IssueFallThrough,
       IssueCall, IssueRet, IssueRetX, IssueProfileViolation, IssueMatch,
       IssueDispatch, Due
  <2>2. pending = NoPend /\ resp = NoResp
    BY <2>1 DEF RunInv, EventOK, RespOK, Busy, Signal
  <2>3. resp' = NoResp /\ UNCHANGED <<image, stack, frStack, result>>
    BY <1>4, <2>2 DEF IssueOp, Retire, IssueNop, IssueBrk, IssueEnd, IssueRaise,
       IssueMove, IssueWrite, IssueLatch, IssueRead, IssueReadAll, IssueJump,
       IssueFallThrough, IssueCall, IssueRet, IssueRetX, IssueProfileViolation,
       IssueMatch, IssueDispatch, Issue, IssueTrap, Continue, Ask, Trap, frames,
       driverVars
  <2>4. FramesOn => pending'.kind # "Pop"
    BY <1>4, <2>2 DEF IssueOp, Retire, IssueNop, IssueBrk, IssueEnd, IssueRaise,
       IssueMove, IssueWrite, IssueLatch, IssueRead, IssueReadAll, IssueJump,
       IssueFallThrough, IssueCall, IssueRet, IssueRetX, IssueProfileViolation,
       IssueMatch, IssueDispatch, Issue, IssueTrap, Continue, Ask, Trap, Pend, NoPend
  <2>5. QED
    BY <1>1, <2>2, <2>3, <2>4, QuietStep
       DEF InFlight, PushInFlight, PopInFlight, NoResp, Response, Running, FramesOn,
           NoPend, Pend
<1>5. QED
  BY <1>2, <1>3, <1>4 DEF CoreStep

\* The paired push and pop of the core catch up with the driver.
LEMMA CorePaired ==
  ASSUME StackInv, UNCHANGED driverVars, SettlePush \/ SettlePushFrame \/ SettlePopPair
  PROVE  StackInv'
<1> USE DEF StackInv
<1>1. RunInv'
  BY SettlePushOK, SettlePushFrameOK, SettlePopPairOK
<1>2. fr \in Nat /\ frStack \in Seq(Nat) /\ stack \in Seq(Nat)
  BY DEF RunInv, TypeOK
<1>3. /\ UNCHANGED <<image, stack, result>>
      /\ FramesOn => pending'.kind # "Pop"
      /\ ~PushInFlight' /\ ~PopInFlight'
  BY DEF SettlePush, SettlePushFrame, SettlePopPair, Settled, Ask, Trap, driverVars,
     NoPend, Pend, Delivered, NoResp, Response, PushInFlight, PopInFlight
<1>4. CASE SettlePush \/ SettlePushFrame
  <2>1. PushInFlight /\ (FramesOn => frStack' = PushOn(frStack, fr))
    BY <1>4 DEF SettlePush, SettlePushFrame, Delivered, PushInFlight, FrHalf
  <2>2. QED
    <3>1. FramesOn => Len(frStack') = Len(frStack) + 1
      BY <1>2, <2>1, StackOps
    <3>2. Running /\ FramesOn => Len(frStack) = Len(stack) - 1
      BY <2>1 DEF StacksInStep
    <3>3. StacksInStep'
      BY <1>2, <1>3, <3>1, <3>2 DEF StacksInStep, FramesOn, Running
    <3>4. QED
      BY <1>1, <1>3, <3>3 DEF FramesOn
<1>5. CASE SettlePopPair
  <2>1. PopInFlight /\ ~PushInFlight
        /\ frStack' = IF frStack = <<>> THEN frStack ELSE PopOff(frStack)
    BY <1>5 DEF SettlePopPair, Delivered, PushInFlight, PopInFlight
  <2>2. Running /\ FramesOn => frStack # <<>>
    BY <1>2, <2>1 DEF StacksInStep
  <2>3. QED
    <3>1. Running /\ FramesOn => Len(frStack') = Len(frStack) - 1
      BY <1>2, <2>1, <2>2, StackOps
    <3>2. Running /\ FramesOn => Len(frStack) = Len(stack) + 1
      BY <2>1 DEF StacksInStep
    <3>3. StacksInStep'
      BY <1>2, <1>3, <3>1, <3>2 DEF StacksInStep, FramesOn, Running
    <3>4. QED
      BY <1>1, <1>3, <3>3 DEF FramesOn
<1>6. QED
  BY <1>4, <1>5


\* The driver pushes and pops only what it acknowledges or yields.
LEMMA ServePaired ==
  ASSUME StackInv, ServePush \/ ServePop
  PROVE  StackInv'
<1> USE DEF StackInv
<1>1. RunInv'
  BY ServePushOK, ServePopOK
<1>2. frStack \in Seq(Nat) /\ stack \in Seq(Nat)
  BY DEF RunInv, TypeOK
<1>3. UNCHANGED <<image, frStack, pending>> /\ resp = NoResp /\ Running
  BY DEF ServePush, ServePop, Deliver, Asked, frames, ctl
<1>4. event.type = "Request" /\ AsksFor
  BY DEF ServePush, ServePop, Asked, RunInv, EventOK, TypeOK, Request, Busy, Signal
<1>5. FramesOn => Len(frStack) = Len(stack)
  BY <1>3 DEF StacksInStep, PushInFlight, PopInFlight, NoResp, Response
<1>6. CASE ServePush
  <2>1. pending.kind \in {"Push", "PushFrame"}
    BY <1>4, <1>6 DEF AsksFor, ServePush, Asked, DeviceMoves
  <2>2. CASE StackRoom
    <3>1. /\ stack' = PushOn(stack, event.val)
          /\ Running' => resp' = Response("Ok", 0)
      BY <1>6, <2>2 DEF ServePush, Deliver, Finish, Running, NoResult
    <3>2. Len(stack') = Len(stack) + 1
      BY <1>2, <1>4, <2>1, <3>1, StackOps DEF AsksFor
    <3>3. QED
      BY <1>1, <1>2, <1>3, <1>5, <2>1, <3>1, <3>2
         DEF StacksInStep, FramesOn, PushInFlight, PopInFlight, Response
  <2>3. CASE ~StackRoom
    <3>1. stack' = stack /\ (resp' = Response("StackFull", 0) \/ resp' = NoResp)
      BY <1>6, <2>3 DEF ServePush, Deliver
    <3>2. QED
      BY <1>1, <1>3, <1>5, <2>1, <3>1
         DEF StacksInStep, FramesOn, PushInFlight, PopInFlight, Response, NoResp
  <2>4. QED
    BY <2>2, <2>3
<1>7. CASE ServePop
  <2>1. FramesOn => pending.kind = "PopPair"
    BY <1>4, <1>7 DEF AsksFor, ServePop, Asked, DeviceMoves
  <2>2. CASE stack # <<>>
    <3>1. /\ stack' = PopOff(stack)
          /\ Running' => resp' = Response("Value", TopOf(stack))
      BY <1>7, <2>2 DEF ServePop, Deliver, Finish, Running, NoResult
    <3>2. Len(stack') = Len(stack) - 1
      BY <1>2, <2>2, <3>1, StackOps
    <3>3. QED
      BY <1>1, <1>2, <1>3, <1>5, <2>1, <3>1, <3>2
         DEF StacksInStep, FramesOn, PushInFlight, PopInFlight, Response
  <2>3. CASE stack = <<>>
    <3>1. stack' = stack /\ (resp' = Response("StackEmpty", 0) \/ resp' = NoResp)
      BY <1>7, <2>3 DEF ServePop, Deliver
    <3>2. QED
      BY <1>1, <1>3, <1>5, <2>1, <3>1
         DEF StacksInStep, FramesOn, PushInFlight, PopInFlight, Response, NoResp
  <2>4. QED
    BY <2>2, <2>3
<1>8. QED
  BY <1>6, <1>7

\* The other transactions never touch the stacks, and what they answer is
\* not the answer to a push or a pop.
LEMMA ServeQuiet ==
  ASSUME StackInv, Serve, ~(ServePush \/ ServePop)
  PROVE  StackInv'
<1> USE DEF StackInv
<1>1. RunInv'
  BY StepOK DEF Next
<1>2. /\ UNCHANGED <<image, stack, frStack, pending>> /\ resp = NoResp /\ Running
      /\ event.type = "Request" /\ event.kind \notin {"StackPush", "StackPop"}
  BY DEF Serve, ServeCode, ServeMove, ServeRead, ServeWrite, ServeNoDevice,
     ServeTable, ServeFrame, ServeRom, Deliver, Asked, frames, ctl
<1>3. pending.kind \notin {"Push", "PushFrame", "PopPair"}
  BY <1>2 DEF RunInv, EventOK, AsksFor, TypeOK, Request, Busy, Signal, NoPend, Pend
<1>4. QED
  BY <1>1, <1>2, <1>3, QuietStep
     DEF InFlight, PushInFlight, PopInFlight, NoResp, Response, Running, FramesOn

\* Loading, starting and accounting an instruction, and ending the run.
LEMMA BoundaryQuiet ==
  ASSUME StackInv, Load \/ Begin \/ Account \/ End \/ UNCHANGED vars
  PROVE  StackInv'
<1> USE DEF StackInv
<1>1. RunInv'
  BY StepOK DEF Next
<1>2. /\ UNCHANGED <<image, stack, frStack, pending, resp>>
      /\ Running' => Running
  BY DEF Load, Begin, Start, Account, End, regs, frames, ctl, ports, coreVars,
     driverVars, vars, Running
<1>3. QED
  BY <1>1, <1>2 DEF StacksInStep, FramesOn, PushInFlight, PopInFlight, Running

\* While a frames-profile run goes on, the core's FR stack and the driver's
\* return stack are equally deep, whatever the capacity, the limits and the
\* refused pushes.
THEOREM StacksPaired == Spec => []StacksInStep
<1>1. Init => StackInv
  <2>1. Init => RunInv
    BY InitOK
  <2>2. Init => StacksInStep /\ pending.kind # "Pop"
    BY DEF Init, CoreInit, DriverInit, StacksInStep, PushInFlight, PopInFlight,
       NoPend,
       Pend, NoResp, Response
  <2>3. QED
    BY <2>1, <2>2 DEF StackInv
<1>2. StackInv /\ [Next]_vars => StackInv'
  BY CoreQuiet, CorePaired, ServePaired, ServeQuiet, BoundaryQuiet DEF Next, Resume
<1>3. StackInv => StacksInStep
  BY DEF StackInv
<1>4. QED
  BY <1>1, <1>2, <1>3, PTL DEF Spec

-----------------------------------------------------------------------------
(* The cached descriptor is the one the frame register names.                *)

\* The register is written before the descriptor is read: in between, the
\* two reads in flight are the directory entry and the descriptor of fr.
LoadingOK ==
  phase = "Execute" =>
    /\ pending.kind = "DirectoryRead" => fr # 0 /\ event.val = DirectoryAddr(fr)
    /\ pending.kind = "FrameLoad" =>
         fr # 0 /\ event.val = DescriptorAddr(image.rom[DirectoryAddr(fr)])

CacheInv == RunInv /\ CacheCoherent /\ LoadingOK

\* A step that leaves frame register and cache alone, outside a load.
LEMMA CacheKept ==
  ASSUME CacheInv, RunInv', UNCHANGED <<image, fr, cache>>,
         phase' # "Done" => phase # "Done" /\ ~Loading /\ ~Loading'
  PROVE  CacheInv'
BY DEF CacheInv, CacheCoherent, LoadingOK, Loading, DescriptorOf, DirectoryAddr,
   DescriptorAddr

\* A framed call moves the register and starts the load of its descriptor.
LEMMA ComposeCoherent ==
  ASSUME CacheInv, SettleCompose, UNCHANGED driverVars
  PROVE  CacheInv'
<1>1. RunInv'
  BY SettleComposeOK DEF CacheInv
<1>2. \/ phase' = "Done"
      \/ /\ fr' # 0 /\ pending'.kind = "DirectoryRead"
         /\ event'.val = DirectoryAddr(fr')
  BY DEF SettleCompose, Trap, Ask, Pend, Request
<1>3. QED
  BY <1>1, <1>2 DEF CacheInv, CacheCoherent, LoadingOK, Loading, DirectoryAddr

\* The directory entry leads to the descriptor of the frame register.
LEMMA DirectoryCoherent ==
  ASSUME CacheInv, SettleDirectory, UNCHANGED driverVars
  PROVE  CacheInv'
<1>1. RunInv'
  BY SettleDirectoryOK DEF CacheInv
<1>2. /\ phase = "Execute" /\ pending.kind = "DirectoryRead"
      /\ resp.kind = "Byte" /\ resp # NoResp
  BY DEF SettleDirectory, Delivered, NoResp, Response
<1>3. event.type = "Request" /\ AsksFor /\ Answers
  BY <1>2 DEF CacheInv, RunInv, EventOK, RespOK, Busy, Signal
<1>4. resp.val = image.rom[DirectoryAddr(fr)] /\ fr # 0
  BY <1>2, <1>3 DEF CacheInv, LoadingOK, AsksFor, Answers, DeviceMoves
<1>5. /\ event'.val = DescriptorAddr(image.rom[DirectoryAddr(fr)])
      /\ pending'.kind = "FrameLoad" /\ UNCHANGED <<image, fr>>
  BY <1>4 DEF SettleDirectory, Ask, Request, Pend, frames
<1>6. QED
  BY <1>1, <1>4, <1>5
     DEF CacheInv, CacheCoherent, LoadingOK, Loading, DirectoryAddr, DescriptorAddr

\* The load that completes puts the descriptor of the register in the cache.
LEMMA LoadCoherent ==
  ASSUME CacheInv, SettleFrameLoad, UNCHANGED driverVars
  PROVE  CacheInv'
<1>1. RunInv'
  BY SettleFrameLoadOK DEF CacheInv
<1>2. /\ phase = "Execute" /\ pending.kind = "FrameLoad"
      /\ resp.kind = "Byte" /\ resp # NoResp
  BY DEF SettleFrameLoad, Delivered, NoResp, Response
<1>3. event.type = "Request" /\ AsksFor /\ Answers
  BY <1>2 DEF CacheInv, RunInv, EventOK, RespOK, Busy, Signal
<1>4. resp.val = DescriptorOf(fr)
  BY <1>2, <1>3 DEF CacheInv, LoadingOK, AsksFor, Answers, DeviceMoves, DescriptorOf
<1>5. /\ UNCHANGED <<image, fr>>
      /\ phase' = "Done" \/ (cache' = resp.val /\ pending' = NoPend)
  BY DEF SettleFrameLoad, Settled, Trap
<1>6. QED
  BY <1>1, <1>4, <1>5
     DEF CacheInv, CacheCoherent, LoadingOK, Loading, DescriptorOf, NoPend, Pend,
         DirectoryAddr, DescriptorAddr

\* A return drops the cache, keeps it when the frame does not change, or
\* starts the load of the restored frame.
LEMMA PopCoherent ==
  ASSUME CacheInv, SettlePopPair, UNCHANGED driverVars
  PROVE  CacheInv'
<1>1. RunInv'
  BY SettlePopPairOK DEF CacheInv
<1> DEFINE restored == IF frStack = <<>> THEN 0 ELSE TopOf(frStack)
<1>2. cache = DescriptorOf(fr)
  BY DEF CacheInv, CacheCoherent, Loading, SettlePopPair, Delivered
<1>3. /\ image' = image /\ fr' = restored
      /\ cache' = IF restored = 0 THEN NoDesc ELSE cache
      /\ \/ /\ restored # 0
            /\ pending'.kind = "DirectoryRead" /\ event'.val = DirectoryAddr(restored)
         \/ (restored = 0 \/ restored = fr) /\ pending' = NoPend
  BY DEF SettlePopPair, Reload, Settled, Ask, Request, Pend
<1> HIDE DEF restored
<1>4. QED
  BY <1>1, <1>2, <1>3
     DEF CacheInv, CacheCoherent, LoadingOK, Loading, DescriptorOf, NoPend, Pend,
         DirectoryAddr, DescriptorAddr

\* Every other step of the core leaves register and cache alone.
LEMMA CoreCoherent ==
  ASSUME CacheInv, CoreStep, UNCHANGED driverVars,
         ~(SettleCompose \/ SettleDirectory \/ SettleFrameLoad \/ SettlePopPair)
  PROVE  CacheInv'
<1>1. RunInv'
  BY StepOK DEF CacheInv, Next, Resume
<1>2. CASE FetchOpcode \/ FetchOperand
  <2>1. /\ phase \in {"FetchOpcode", "FetchOperand"}
        /\ pending = NoPend /\ pending' = NoPend
        /\ UNCHANGED <<image, fr, cache>>
    BY <1>2 DEF CacheInv, RunInv, EventOK, FetchOpcode, FetchOperand, FinishFetch,
       Ask, Trap, frames
  <2>2. QED
    BY <1>1, <2>1, CacheKept DEF Loading, NoPend, Pend
<1>3. CASE Settle
  <2>1. /\ phase = "Execute" /\ UNCHANGED <<image, fr, cache>>
        /\ Loading => phase' = "Done"
    BY <1>3 DEF Settle, SettleDone, SettleFault, SettleLatch, SettleRead,
       SettlePush,
       SettlePushFrame, SettleEntCheck, SettleStackFull, SettleOutOfTable, SettlePop,
       SettleStackEmpty, SettleMatch, SettleDispatch, Delivered, Loading, Trap, frames
  <2>2. phase' # "Done" => pending'.kind \in {"None", "Push", "PushFrame", "ComposeRead"}
    BY <1>3 DEF Settle, SettleDone, SettleFault, SettleLatch, SettleRead,
       SettlePush,
       SettlePushFrame, SettleEntCheck, SettleStackFull, SettleOutOfTable, SettlePop,
       SettleStackEmpty, SettleMatch, SettleDispatch, Trap, Settled, Ask, NoPend, Pend
  <2>3. QED
    BY <1>1, <2>1, <2>2, CacheKept DEF Loading
<1>4. CASE IssueOp \/ Retire
  <2>1. event = Busy /\ UNCHANGED <<image, fr, cache>>
    BY <1>4 DEF IssueOp, Retire, IssueNop, IssueBrk, IssueEnd, IssueRaise,
       IssueMove,
       IssueWrite, IssueLatch, IssueRead, IssueReadAll, IssueJump, IssueFallThrough,
       IssueCall, IssueRet, IssueRetX, IssueProfileViolation, IssueMatch,
       IssueDispatch, Due, frames
  <2>2. pending = NoPend /\ phase # "Done"
    BY <2>1 DEF CacheInv, RunInv, EventOK, Busy, Signal
  <2>3. ~Loading'
    BY <1>4, <2>2 DEF IssueOp, Retire, IssueNop, IssueBrk, IssueEnd, IssueRaise,
       IssueMove, IssueWrite, IssueLatch, IssueRead, IssueReadAll, IssueJump,
       IssueFallThrough, IssueCall, IssueRet, IssueRetX, IssueProfileViolation,
       IssueMatch, IssueDispatch, Issue, IssueTrap, Continue, Ask, Pend, NoPend,
       Loading
  <2>4. QED
    BY <1>1, <2>1, <2>2, <2>3, CacheKept DEF Loading, NoPend, Pend
<1>5. QED
  BY <1>2, <1>3, <1>4 DEF CoreStep

\* The driver neither writes the frame register nor the cache.
LEMMA DriverCoherent ==
  ASSUME CacheInv, Load \/ Begin \/ Serve \/ Account \/ End \/ UNCHANGED vars
  PROVE  CacheInv'
<1>1. RunInv'
  BY StepOK DEF CacheInv, Next
<1>2. CASE Begin
  <2>1. /\ phase # "Done" /\ pending = NoPend /\ pending' = NoPend
        /\ UNCHANGED <<image, fr, cache>>
    BY <1>2 DEF CacheInv, RunInv, EventOK, TypeOK, Begin, Start, frames, Busy,
       Signal,
       AsksFor, Request
  <2>2. QED
    BY <1>1, <2>1, CacheKept DEF Loading, NoPend, Pend
<1>3. CASE Account
  <2>1. /\ phase # "Done" /\ pending = NoPend /\ UNCHANGED <<phase, pending>>
        /\ UNCHANGED <<image, fr, cache>>
    BY <1>3 DEF CacheInv, RunInv, EventOK, TypeOK, Account, frames, ctl, Busy,
       Signal,
       Request
  <2>2. QED
    BY <1>1, <2>1, CacheKept DEF Loading, NoPend, Pend
<1>4. CASE Load \/ Serve \/ End \/ UNCHANGED vars
  <2>1. UNCHANGED <<image, fr, cache, phase, pending, event>>
    BY <1>4 DEF Load, Serve, ServeCode, ServePush, ServePop, ServeMove, ServeRead,
       ServeWrite, ServeNoDevice, ServeTable, ServeFrame, ServeRom, Deliver, End,
       vars, coreVars, frames, ctl, ports
  <2>2. QED
    BY <1>1, <2>1
       DEF CacheInv, CacheCoherent, LoadingOK, Loading, DescriptorOf, DirectoryAddr,
           DescriptorAddr
<1>5. QED
  BY <1>2, <1>3, <1>4

\* CacheInv is inductive.
LEMMA CacheStep == CacheInv /\ [Next]_vars => CacheInv'
BY ComposeCoherent, DirectoryCoherent, LoadCoherent, PopCoherent, CoreCoherent,
   DriverCoherent DEF Next, Resume

\* CacheInv holds when a run starts.
LEMMA CacheStart == Init => CacheInv
<1>1. Init => RunInv
  BY InitOK
<1>2. Init => CacheCoherent /\ LoadingOK
  BY DEF Init, CoreInit, CacheCoherent, LoadingOK, DescriptorOf
<1>3. QED
  BY <1>1, <1>2 DEF CacheInv

\* Whenever an instruction can use the cached descriptor it is the one the
\* image holds for the frame register: in particular after returns that skip
\* the reload.
THEOREM CacheCurrent == Spec => []CacheCoherent
<1>1. CacheInv => CacheCoherent
  BY DEF CacheInv
<1>2. QED
  BY <1>1, CacheStart, CacheStep, PTL DEF Spec

-----------------------------------------------------------------------------
(* Device requests issued inside a frame stay inside it.                     *)

\* The descriptor an instruction translates through is the frame's own.
LEMMA VisibleDevice ==
  ASSUME CacheInv, event = Busy, fr # 0, NEW dev \in Nat, HasDev(dev)
  PROVE  /\ dev + 1 \in DOMAIN DescriptorOf(fr).entries
         /\ PhysDev(dev) = DescriptorOf(fr).entries[dev + 1].phys
         /\ WMap(dev) = DescriptorOf(fr).entries[dev + 1].wmap
<1>1. phase # "Done" /\ pending = NoPend
  BY DEF CacheInv, RunInv, EventOK, Busy, Signal
<1>2. cache = DescriptorOf(fr)
  BY <1>1 DEF CacheInv, CacheCoherent, Loading, NoPend, Pend
<1>3. dev + 1 \in DOMAIN cache.entries
  <2>1. cache.entries \in Seq([phys : Nat, rmap : Seq(Nat), wmap : Seq(Nat)])
    BY DEF CacheInv, RunInv, Descriptors
  <2>2. QED
    BY <2>1 DEF HasDev
<1>4. QED
  BY <1>2, <1>3 DEF PhysDev, WMap

\* A move or a read goes to the tape its frame gives the device number.
LEMMA MoveConfined ==
  ASSUME CacheInv, IssueMove \/ IssueLatch \/ IssueRead
  PROVE  FrameConfines'
<1>1. event = Busy /\ UNCHANGED <<image, fr>>
  BY DEF IssueMove, IssueLatch, IssueRead, Due, frames
<1>2. Head(ops).op \in {"DeviceMoveLeft", "DeviceMoveRight", "LatchMatch", "Read"}
      /\ ops # <<>>
  BY DEF IssueMove, IssueLatch, IssueRead, Due
<1>3. Head(ops).a \in Nat
  BY <1>1, <1>2, DueOp DEF CacheInv, Displaced
<1>4. \/ event'.type = "Trapped"
      \/ /\ event'.kind \in {"DeviceMoveLeft", "DeviceMoveRight", "DeviceRead"}
         /\ \E dev \in Nat : HasDev(dev) /\ event'.dev = PhysDev(dev)
  BY <1>3 DEF IssueMove, IssueLatch, IssueRead, Issue, IssueTrap, Ask, Trap,
     Trapped,
     Request
<1>5. QED
  BY <1>1, <1>4, VisibleDevice
     DEF FrameConfines, DescriptorOf, DirectoryAddr, DescriptorAddr

\* A write goes to a tape of the frame, with a symbol its write map yields.
LEMMA WriteConfined ==
  ASSUME CacheInv, IssueWrite
  PROVE  FrameConfines'
<1> DEFINE dev == Head(ops).a
           sym == Head(ops).b
<1>1. event = Busy /\ ops # <<>> /\ Head(ops).op = "Write" /\ UNCHANGED <<image, fr>>
  BY DEF IssueWrite, Due, frames
<1>2. dev \in Nat /\ sym \in Nat
  BY <1>1, DueOp DEF CacheInv, Displaced
<1>3. \/ event'.type = "Trapped"
      \/ /\ HasDev(dev) /\ MapsTo(WMap(dev), sym)
         /\ event' = Request("DeviceWrite", PhysDev(dev), Through(WMap(dev), sym))
  BY DEF IssueWrite, Issue, IssueTrap, Ask, Trap, Trapped
<1>4. CASE event'.type = "Trapped"
  BY <1>4 DEF FrameConfines
<1>5. CASE /\ HasDev(dev) /\ MapsTo(WMap(dev), sym)
           /\ event' = Request("DeviceWrite", PhysDev(dev), Through(WMap(dev), sym))
  <2>1. SUFFICES ASSUME fr # 0
                 PROVE  \E e \in DOMAIN DescriptorOf(fr).entries :
                          LET entry == DescriptorOf(fr).entries[e] IN
                          /\ entry.phys = event'.dev
                          /\ entry.wmap # <<>> =>
                               \E i \in DOMAIN entry.wmap :
                                 entry.wmap[i] = event'.val /\ event'.val # Hole
    BY <1>1, <1>5
       DEF FrameConfines, DescriptorOf, DirectoryAddr, DescriptorAddr, Request
  <2>2. /\ dev + 1 \in DOMAIN DescriptorOf(fr).entries
        /\ PhysDev(dev) = DescriptorOf(fr).entries[dev + 1].phys
        /\ WMap(dev) = DescriptorOf(fr).entries[dev + 1].wmap
    BY <1>1, <1>2, <1>5, <2>1, VisibleDevice
  <2>3. WMap(dev) # <<>> => /\ sym + 1 \in DOMAIN WMap(dev)
                            /\ WMap(dev)[sym + 1] = Through(WMap(dev), sym)
                            /\ Through(WMap(dev), sym) # Hole
    BY <1>5 DEF MapsTo, Through
  <2>4. QED
    BY <1>5, <2>2, <2>3 DEF Request
<1>6. QED
  BY <1>3, <1>4, <1>5

\* No other step of the core asks for a device or changes the frame while a
\* device request is on the bus.
LEMMA OthersConfined ==
  ASSUME CacheInv, FrameConfines, [Next]_vars,
         ~(Resume /\ (IssueMove \/ IssueLatch \/ IssueRead \/ IssueWrite))
  PROVE  FrameConfines'
<1>1. CASE Load \/ Serve \/ UNCHANGED vars \/ End
  <2>1. UNCHANGED <<image, fr, event>>
    BY <1>1 DEF Load, Serve, ServeCode, ServePush, ServePop, ServeMove, ServeRead,
       ServeWrite, ServeNoDevice, ServeTable, ServeFrame, ServeRom, Deliver, End,
       vars, coreVars, frames, ctl, ports
  <2>2. QED
    BY <2>1 DEF FrameConfines, DescriptorOf, DirectoryAddr, DescriptorAddr
<1>2. CASE Begin \/ Account
  <2>1. event'.type # "Request" \/ event'.kind = "CodeRead"
    BY <1>2 DEF Begin, Start, Account, Request, Signal
  <2>2. QED
    BY <2>1 DEF FrameConfines
<1>3. CASE Resume
  <2>1. CASE FetchOpcode \/ FetchOperand \/ Retire
    <3>1. event'.type # "Request" \/ event'.kind = "CodeRead"
      BY <2>1 DEF FetchOpcode, FetchOperand, Retire, FinishFetch, Ask, Trap,
         Trapped,
         Request, Busy, Signal
    <3>2. QED
      BY <3>1 DEF FrameConfines
  <2>2. CASE Settle
    <3>1. event'.type # "Request"
          \/ event'.kind \in {"CodeRead", "StackPush", "FrameRead"}
      BY <2>2 DEF Settle, SettleDone, SettleFault, SettleLatch, SettleRead,
         SettlePush,
         SettlePushFrame, SettleEntCheck, SettleStackFull, SettleCompose,
         SettleDirectory, SettleFrameLoad, SettleOutOfTable, SettlePop, SettlePopPair,
         SettleStackEmpty, SettleMatch, SettleDispatch, Settled, Ask, Trap, Trapped,
         Request, Busy, Signal
    <3>2. QED
      BY <3>1 DEF FrameConfines
  <2>3. CASE IssueOp
    <3>1. \/ event' = event /\ event = Busy
          \/ event'.type # "Request"
          \/ event'.kind \in {"CodeRead", "StackPop", "TableRead"}
      BY <1>3, <2>3 DEF IssueOp, IssueNop, IssueBrk, IssueEnd, IssueRaise,
         IssueReadAll,
         IssueJump, IssueFallThrough, IssueCall, IssueRet, IssueRetX,
         IssueProfileViolation, IssueMatch, IssueDispatch, Due, Issue, IssueTrap,
         Continue, Ask, Trap, Trapped, Request, Busy, Signal
    <3>2. QED
      BY <3>1 DEF FrameConfines, Busy, Signal
  <2>4. QED
    BY <1>3, <2>1, <2>2, <2>3 DEF Resume, CoreStep
<1>4. QED
  BY <1>1, <1>2, <1>3 DEF Next

\* A device request issued inside a frame goes to a tape of that frame, with a
\* symbol its write map yields.
THEOREM FramesConfine == Spec => []FrameConfines
<1>1. Init => CacheInv /\ FrameConfines
  <2>1. Init => FrameConfines
    BY DEF Init, CoreInit, FrameConfines, Signal
  <2>2. QED
    BY <2>1, CacheStart
<1>2. CacheInv /\ FrameConfines /\ [Next]_vars => (CacheInv /\ FrameConfines)'
  BY CacheStep, MoveConfined, WriteConfined, OthersConfined
<1>3. QED
  BY <1>1, <1>2, PTL DEF Spec

-----------------------------------------------------------------------------
(* A run that goes on is within its limits.                                  *)

\* The limits are consulted with the very counters the step leaves.
LEMMA LimitsKept ==
  ASSUME RunInv, WithinLimits, [Next]_vars
  PROVE  WithinLimits'
<1>1. /\ stats \in [steps : Nat, core : Nat, stall : Nat]
      /\ stats' \in [steps : Nat, core : Nat, stall : Nat]
      /\ limits.steps \in Nat \cup {NoLimit} /\ limits.tacts \in Nat \cup {NoLimit}
  <2>1. RunInv'
    BY StepOK
  <2>2. QED
    BY <2>1, DriverAssumption DEF RunInv, TypeOK
<1>2. CASE Serve
  <2>1. /\ UNCHANGED limits /\ Running
        /\ stats'.steps = stats.steps
        /\ Running' => ~OverTacts(stats')
    <3>1. stats'.steps = stats.steps
      BY <1>1, <1>2 DEF Serve, ServeCode, ServePush, ServePop, ServeMove, ServeRead,
         ServeWrite, ServeNoDevice, ServeTable, ServeFrame, ServeRom, CoreTact, StallTact
    <3>2. QED
      BY <1>2, <3>1 DEF Serve, ServeCode, ServePush, ServePop, ServeMove, ServeRead,
         ServeWrite, ServeNoDevice, ServeTable, ServeFrame, ServeRom, Deliver, Asked,
         Finish, Running, NoResult
  <2>2. QED
    BY <1>1, <2>1 DEF WithinLimits, OverTacts, Total, NoLimit
<1>3. CASE Account
  <2>1. /\ UNCHANGED limits /\ Running
        /\ Running' => ~OverTacts(stats') /\ ~OverSteps(stats')
    BY <1>3 DEF Account, Finish, Running, NoResult
  <2>2. QED
    BY <1>1, <2>1 DEF WithinLimits, OverTacts, OverSteps, Total, NoLimit
<1>4. CASE Load \/ Begin \/ Resume \/ End \/ UNCHANGED vars
  <2>1. UNCHANGED <<limits, stats>> /\ (Running' => Running)
    BY <1>4 DEF Load, Begin, Resume, End, driverVars, vars, Running
  <2>2. QED
    BY <1>4, <2>1 DEF WithinLimits, Total
<1>5. QED
  BY <1>2, <1>3, <1>4 DEF Next

\* Once a limit is reached nothing more is fetched, executed or written.
THEOREM LimitsHeld == Spec => []WithinLimits
<1>1. Init => WithinLimits
  BY DEF Init, DriverInit, WithinLimits, Total
<1>2. RunInv /\ WithinLimits /\ [Next]_vars => WithinLimits'
  BY LimitsKept
<1>3. QED
  BY <1>1, <1>2, RunInvariant, PTL DEF Spec

-----------------------------------------------------------------------------
(*****************************************************************************)
(* The run implements the instruction set: from one instruction boundary to  *)
(* the next the core and the driver take the one step of Isa their           *)
(* transactions add up to.                                                   *)
(*                                                                           *)
(* ControlInv says, for every moment between two boundaries, what is still   *)
(* to be done of that step: nothing of it is done (Waiting), the instruction *)
(* has none but data to do (Straight), a call, a return or a dispatch is in  *)
(* flight with one stack ahead of the other, or it is done (Arrived).        *)
(*****************************************************************************)

-----------------------------------------------------------------------------
(* The step of Isa from the last boundary, as a predicate of where it leads. *)

\* The instruction in work, the address after it, and its one operation.
Here  == image.code[mark.ip]
After == mark.ip + 1 + Here.operands
Arg   == Here.ops[1]

Straights    == {op \in MicroOps : op.op \notin Transfers}
StraightLine == Here.ops \in Seq(Straights)
Only(name)   == Len(Here.ops) = 1 /\ Arg.op = name

TopCall == mark.calls[Len(mark.calls)]
Called  == Append(mark.calls, [ret |-> After, frame |-> mark.fr])
Left    == SubSeq(mark.calls, 1, Len(mark.calls) - 1)

Composite == image.rom[ComposeAddr(mark.fr, Arg.b)]
Exits     == DescriptorOf(mark.fr).exits

Stays(f, cs) == f = mark.fr /\ cs = mark.calls

ReachPlain(at, f, cs) ==
  /\ Stays(f, cs)
  /\ \/ StraightLine /\ at = After
     \/ (Only("JumpRel") \/ Only("JumpRelIf")) /\ at \in {After, After + Arg.a}

ReachDispatch(at, f, cs) ==
  /\ Only("DispatchJump") /\ Stays(f, cs)
  /\ \E k \in DOMAIN image.rom[DispatchAddr(Arg.a)].targets :
       at = image.rom[DispatchAddr(Arg.a)].targets[k]

ReachCall(at, f, cs) ==
  /\ at = After + Arg.a /\ cs = Called
  /\ \/ Only("Call") /\ f = mark.fr
     \/ /\ Only("CallFrame") /\ f = Composite
        /\ Arg.b < image.sites /\ Composite \in 1..image.composites

ReachReturn(at, f, cs) ==
  /\ mark.calls # <<>> /\ f = TopCall.frame /\ cs = Left
  /\ \/ Only("Ret") /\ at = TopCall.ret
     \/ /\ Only("RetX") /\ mark.fr # 0
        /\ Arg.a + 1 \in DOMAIN Exits /\ at = Exits[Arg.a + 1]

Reach(at, f, cs) ==
  /\ mark.ip \in DOMAIN image.code
  /\ \/ ReachPlain(at, f, cs) \/ ReachDispatch(at, f, cs)
     \/ ReachCall(at, f, cs) \/ ReachReturn(at, f, cs)

-----------------------------------------------------------------------------
(* How much of the step is done. *)

\* The activation records of two stacks.
RecordsOf(returns, registers, paired) ==
  [i \in 1..Len(returns) |->
     [ret |-> returns[i], frame |-> IF paired THEN registers[i] ELSE 0]]

Unmoved == Stays(fr, Records)

Waiting  == ops = Here.ops /\ Len(ops) = 1 /\ ops[1].op \in Transfers
            /\ ip = After /\ Unmoved
Straight == StraightLine /\ ops \in Seq(Straights) /\ ip = After /\ Unmoved
Arrived  == ops = <<>> /\ Reach(ip, fr, Records)

\* The call in flight, checked and pushed; the push is on the return stack
\* before it is on the FR stack.
Calling ==
  /\ ops = <<>> /\ ip = After
  /\ pending.x = After + Arg.a /\ pending.y = Arg.b
  /\ Only(IF pending.kind \in {"EntCheck", "Push"} THEN "Call" ELSE "CallFrame")
InCheck == pending.kind \in {"EntCheck", "EntCheckFrame"} /\ Calling /\ Unmoved

Pushed ==
  /\ stack # <<>> /\ TopOf(stack) = After
  /\ mark.calls = RecordsOf(PopOff(stack), frStack, FramesOn)
InPush ==
  /\ pending.kind \in {"Push", "PushFrame"} /\ Calling
  /\ event.val = After /\ mark.fr = fr
  /\ IF resp.kind = "Ok" THEN Pushed ELSE mark.calls = Records

InCompose ==
  /\ pending.kind = "ComposeRead" /\ ops = <<>>
  /\ Only("CallFrame") /\ pending.x = After + Arg.a /\ Arg.b < image.sites
  /\ event.val = ComposeAddr(mark.fr, Arg.b)
  /\ fr = mark.fr /\ Records = Called

\* The frame register is set, its descriptor on the way.
InLoad ==
  /\ pending.kind \in {"DirectoryRead", "FrameLoad"} /\ ops = <<>>
  /\ Reach(pending.x, fr, Records)

\* The return in flight; the pop is off the return stack first.
Exiting ==
  \/ Only("Ret") /\ (pending.kind = "PopPair" => pending.x = NoExit)
  \/ /\ Only("RetX") /\ pending.kind = "PopPair" /\ pending.x # NoExit
     /\ mark.fr # 0 /\ Arg.a + 1 \in DOMAIN Exits /\ pending.x = Exits[Arg.a + 1]
Popped == mark.calls = RecordsOf(Append(stack, resp.val), frStack, FramesOn)
InReturn ==
  /\ pending.kind \in {"Pop", "PopPair"} /\ ops = <<>> /\ Exiting
  /\ mark.fr = fr
  /\ IF resp.kind = "Value" THEN Popped ELSE mark.calls = Records

InDispatch ==
  /\ pending.kind = "Dispatch" /\ ops = <<>> /\ Only("DispatchJump")
  /\ event.val = DispatchAddr(Arg.a) /\ Unmoved

InData ==
  pending.kind \in {"Move", "Write", "Latch", "ReadSlot", "Match"} /\ Straight

InFlightOK ==
  InData \/ InCheck \/ InPush \/ InCompose \/ InLoad \/ InReturn \/ InDispatch

Progress ==
  /\ event.type = "Boundary" => mark.ip = ip /\ Unmoved
  /\ phase \in {"FetchOpcode", "FetchOperand"} /\ event.type = "Request" =>
       mark.ip = instrStart /\ Unmoved
  /\ phase = "Execute" =>
       /\ mark.ip \in DOMAIN image.code
       /\ event = Busy => Waiting \/ Straight \/ Arrived
       /\ event # Busy => InFlightOK
  /\ event.type \in {"Step", "Break"} => Reach(ip, fr, Records)

\* Only the frames profile has frames.
Framing == {"EntCheckFrame", "PushFrame", "ComposeRead", "DirectoryRead",
            "FrameLoad", "PopPair"}
Profiled == FramesOn \/ (fr = 0 /\ pending.kind \notin Framing)

ControlInv ==
  /\ StackInv /\ CacheInv /\ Profiled
  /\ Running => Progress

-----------------------------------------------------------------------------
(* Activation records follow the two stacks.                                 *)

Activations == [ret : Nat, frame : Nat]

\* What pushing and popping undo.
LEMMA StackEnds ==
  ASSUME NEW s \in Seq(Nat)
  PROVE  /\ \A x \in Nat : PopOff(Append(s, x)) = s /\ TopOf(Append(s, x)) = x
         /\ s # <<>> => Append(PopOff(s), TopOf(s)) = s
<1>1. ASSUME NEW x \in Nat PROVE PopOff(Append(s, x)) = s /\ TopOf(Append(s, x)) = x
  <2>1. /\ Append(s, x) \in Seq(Nat) /\ Len(Append(s, x)) = Len(s) + 1
        /\ \A i \in 1..Len(s) : Append(s, x)[i] = s[i]
        /\ Append(s, x)[Len(s) + 1] = x
    BY AppendProperties
  <2>2. Len(s) \in Nat
    OBVIOUS
  <2>3. PopOff(Append(s, x)) \in Seq(Nat) /\ Len(PopOff(Append(s, x))) = Len(s)
    <3> DEFINE t == Append(s, x)
    <3>1. t \in Seq(Nat) /\ t # <<>> /\ Len(t) - 1 = Len(s)
      BY <2>1, <2>2
    <3> HIDE DEF t
    <3>2. PopOff(t) \in Seq(Nat) /\ Len(PopOff(t)) = Len(s)
      BY <3>1, StackOps
    <3>3. QED
      BY <3>2 DEF t
  <2>4. \A i \in 1..Len(s) : PopOff(Append(s, x))[i] = s[i]
    BY <2>1, <2>2 DEF PopOff
  <2>5. PopOff(Append(s, x)) = s
    BY <2>3, <2>4, SeqEqual
  <2>6. QED
    BY <2>1, <2>5 DEF TopOf
<1>2. ASSUME s # <<>> PROVE Append(PopOff(s), TopOf(s)) = s
  <2>1. /\ PopOff(s) \in Seq(Nat) /\ Len(PopOff(s)) = Len(s) - 1 /\ TopOf(s) \in Nat
        /\ Len(s) \in Nat \ {0}
    BY <1>2, StackOps
  <2>2. /\ Append(PopOff(s), TopOf(s)) \in Seq(Nat)
        /\ Len(Append(PopOff(s), TopOf(s))) = Len(s)
        /\ \A i \in 1..Len(s)-1 : Append(PopOff(s), TopOf(s))[i] = PopOff(s)[i]
        /\ Append(PopOff(s), TopOf(s))[Len(s)] = TopOf(s)
    BY <2>1, AppendProperties
  <2>3. \A i \in 1..Len(s)-1 : PopOff(s)[i] = s[i]
    BY <2>1 DEF PopOff
  <2>4. \A i \in 1..Len(s) : Append(PopOff(s), TopOf(s))[i] = s[i]
    BY <2>1, <2>2, <2>3 DEF TopOf
  <2>5. QED
    BY <2>2, <2>4, SeqEqual
<1>3. QED
  BY <1>1, <1>2

\* A function on 1..n is a sequence of length n.
LEMMA FunctionAsSeq ==
  ASSUME NEW S, NEW n \in Nat, NEW f \in [1..n -> S]
  PROVE  f \in Seq(S) /\ Len(f) = n
OBVIOUS

\* There is a record for every return address.
LEMMA RecordsTyped ==
  ASSUME NEW st \in Seq(Nat), NEW fs \in Seq(Nat), NEW on,
         on => Len(st) <= Len(fs)
  PROVE  /\ RecordsOf(st, fs, on) \in Seq(Activations)
         /\ Len(RecordsOf(st, fs, on)) = Len(st)
         /\ \A i \in 1..Len(st) :
              RecordsOf(st, fs, on)[i] = [ret |-> st[i], frame |-> IF on THEN fs[i] ELSE 0]
<1>1. Len(st) \in Nat /\ Len(fs) \in Nat
  OBVIOUS
<1>2. ASSUME NEW i \in 1..Len(st)
      PROVE  [ret |-> st[i], frame |-> IF on THEN fs[i] ELSE 0] \in Activations
  BY <1>1, <1>2 DEF Activations
<1>3. RecordsOf(st, fs, on) \in [1..Len(st) -> Activations]
  BY <1>2 DEF RecordsOf
<1>4. /\ RecordsOf(st, fs, on) \in Seq(Activations)
      /\ Len(RecordsOf(st, fs, on)) = Len(st)
  BY <1>1, <1>3, FunctionAsSeq
<1>5. QED
  BY <1>1, <1>4 DEF RecordsOf

\* A call adds the record of the pushed address and register.
LEMMA RecordsPush ==
  ASSUME NEW st \in Seq(Nat), NEW fs \in Seq(Nat), NEW fs2 \in Seq(Nat),
         NEW on, NEW r \in Nat, NEW f \in Nat,
         on => Len(st) = Len(fs) /\ fs2 = Append(fs, f), ~on => f = 0
  PROVE  RecordsOf(Append(st, r), fs2, on)
           = Append(RecordsOf(st, fs, on), [ret |-> r, frame |-> f])
<1> DEFINE st2 == Append(st, r)
           top == [ret |-> r, frame |-> f]
           old == RecordsOf(st, fs, on)
           new == RecordsOf(st2, fs2, on)
<1>1. Len(st) \in Nat /\ Len(fs) \in Nat
  OBVIOUS
<1>2. /\ st2 \in Seq(Nat) /\ Len(st2) = Len(st) + 1
      /\ \A i \in 1..Len(st) : st2[i] = st[i]
      /\ st2[Len(st) + 1] = r
  BY AppendProperties
<1>a. /\ Len(Append(fs, f)) = Len(fs) + 1
      /\ \A i \in 1..Len(fs) : Append(fs, f)[i] = fs[i]
      /\ Append(fs, f)[Len(fs) + 1] = f
  BY AppendProperties
<1>3. on => /\ Len(fs2) = Len(st) + 1
            /\ \A i \in 1..Len(st) : fs2[i] = fs[i]
            /\ fs2[Len(st) + 1] = f
  BY <1>a
<1>4. top \in Activations
  BY DEF Activations
<1>5. /\ old \in Seq(Activations) /\ Len(old) = Len(st)
      /\ \A i \in 1..Len(st) : old[i] = [ret |-> st[i], frame |-> IF on THEN fs[i] ELSE 0]
  BY <1>1, RecordsTyped
<1>6. /\ new \in Seq(Activations) /\ Len(new) = Len(st) + 1
      /\ \A i \in 1..Len(st)+1 :
           new[i] = [ret |-> st2[i], frame |-> IF on THEN fs2[i] ELSE 0]
  <2>1. on => Len(st2) <= Len(fs2)
    BY <1>1, <1>2, <1>3
  <2> HIDE DEF st2
  <2>2. QED
    BY <1>2, <2>1, RecordsTyped
<1> HIDE DEF old, new, top, st2
<1>7. /\ Append(old, top) \in Seq(Activations) /\ Len(Append(old, top)) = Len(st) + 1
      /\ \A i \in 1..Len(st) : Append(old, top)[i] = old[i]
      /\ Append(old, top)[Len(st) + 1] = top
  BY <1>4, <1>5, AppendProperties
<1>8. ASSUME NEW i \in 1..Len(st)+1 PROVE new[i] = Append(old, top)[i]
  <2>1. CASE i = Len(st) + 1
    BY <1>2, <1>3, <1>6, <1>7, <2>1 DEF top
  <2>2. CASE i # Len(st) + 1
    <3>1. i \in 1..Len(st)
      BY <1>1, <2>2
    <3>2. QED
      BY <1>2, <1>3, <1>5, <1>6, <1>7, <3>1
  <2>3. QED
    BY <2>1, <2>2
<1>9. new = Append(old, top)
  BY <1>1, <1>6, <1>7, <1>8, SeqEqual
<1>10. QED
  BY <1>9 DEF old, new, top, st2

\* A return takes the record of the popped address and register away.
LEMMA RecordsPop ==
  ASSUME NEW st \in Seq(Nat), NEW fs \in Seq(Nat), NEW fs1 \in Seq(Nat),
         NEW on, NEW f \in Nat, st # <<>>,
         on => Len(st) = Len(fs) /\ fs1 = PopOff(fs) /\ f = TopOf(fs), ~on => f = 0
  PROVE  LET all == RecordsOf(st, fs, on) IN
         /\ all # <<>>
         /\ all[Len(all)] = [ret |-> TopOf(st), frame |-> f]
         /\ SubSeq(all, 1, Len(all) - 1) = RecordsOf(PopOff(st), fs1, on)
<1> DEFINE a    == PopOff(st)
           b    == TopOf(st)
           top  == [ret |-> b, frame |-> f]
           rest == RecordsOf(a, fs1, on)
           all  == RecordsOf(st, fs, on)
<1>1. Len(st) \in Nat \ {0} /\ (on => fs # <<>> /\ Len(fs) = Len(st))
  OBVIOUS
<1>2. a \in Seq(Nat) /\ Len(a) = Len(st) - 1 /\ b \in Nat /\ Append(a, b) = st
  BY StackOps, StackEnds
<1>3. on => Len(a) = Len(fs1) /\ fs = Append(fs1, f)
  BY <1>1, <1>2, StackOps, StackEnds
<1>4. top \in Activations
  BY <1>2 DEF Activations
<1> HIDE DEF a, b
<1>5. RecordsOf(Append(a, b), fs, on) = Append(rest, top)
  <2>1. a \in Seq(Nat) /\ b \in Nat
    BY <1>2
  <2>2. RecordsOf(Append(a, b), fs, on)
          = Append(RecordsOf(a, fs1, on), [ret |-> b, frame |-> f])
    <3> HIDE DEF top, rest, all
    <3>1. (on => Len(a) = Len(fs1) /\ fs = Append(fs1, f)) /\ (~on => f = 0)
      BY <1>3
    <3>2. QED
      BY <2>1, <3>1, RecordsPush
  <2>3. QED
    BY <2>2
<1>6. rest \in Seq(Activations) /\ Len(rest) \in Nat
  BY <1>1, <1>2, <1>3, RecordsTyped
<1>7. all = Append(rest, top)
  BY <1>2, <1>5
<1> HIDE DEF top, rest, all
<1>8. /\ all \in Seq(Activations) /\ Len(all) = Len(rest) + 1
      /\ \A i \in 1..Len(rest) : all[i] = rest[i]
      /\ all[Len(all)] = top
  BY <1>4, <1>6, <1>7, AppendProperties
<1>9. SubSeq(all, 1, Len(all) - 1) = rest
  <2>1. /\ SubSeq(all, 1, Len(rest)) \in Seq(Activations)
        /\ Len(SubSeq(all, 1, Len(rest))) = Len(rest)
        /\ \A i \in 1..Len(rest) : SubSeq(all, 1, Len(rest))[i] = all[i]
    BY <1>6, <1>8
  <2>2. SubSeq(all, 1, Len(rest)) = rest
    BY <1>6, <1>8, <2>1, SeqEqual
  <2>3. Len(all) - 1 = Len(rest)
    BY <1>6, <1>8
  <2>4. QED
    BY <2>2, <2>3
<1>10. all # <<>>
  BY <1>6, <1>8
<1>11. QED
  BY <1>8, <1>9, <1>10 DEF top, rest, all, a, b

-----------------------------------------------------------------------------
(* Facts shared by the steps. *)

\* The records change only with the stacks.
LEMMA RecordsKept ==
  ASSUME UNCHANGED <<image, stack, frStack>>
  PROVE  Records' = Records
BY DEF Records, FramesOn

\* Records is RecordsOf the two stacks.
LEMMA RecordsAre == Records = RecordsOf(stack, frStack, FramesOn)
BY DEF Records, RecordsOf

\* What is known of a run that goes on, in the words of the lemmas below.
LEMMA ControlFacts ==
  ASSUME ControlInv
  PROVE  /\ RunInv /\ StacksInStep /\ CacheCoherent /\ LoadingOK
         /\ fr \in Nat /\ ip \in Nat
         /\ stack \in Seq(Nat) /\ frStack \in Seq(Nat)
         /\ Len(stack) \in Nat /\ Len(frStack) \in Nat
         /\ pending.kind \in Framing => FramesOn
         /\ pending.kind = "Pop" => ~FramesOn
         /\ ~FramesOn => fr = 0
BY DEF ControlInv, StackInv, CacheInv, RunInv, TypeOK, Profiled

\* An operation that transfers no control is due: the instruction has only
\* such operations.
LEMMA DueStraight ==
  ASSUME Progress, phase = "Execute", event = Busy, ops # <<>>,
         Head(ops).op \notin Transfers
  PROVE  Straight /\ Tail(ops) \in Seq(Straights)
<1>1. Straight
  BY DEF Progress, Waiting, Arrived
<1>2. QED
  BY <1>1 DEF Straight

\* An operation that transfers control is due: it is all the instruction does.
LEMMA DueTransfer ==
  ASSUME Progress, phase = "Execute", event = Busy, ops # <<>>, ops \in Seq(MicroOps),
         Head(ops).op \in Transfers
  PROVE  /\ Only(Head(ops).op) /\ Head(ops) = Arg /\ Tail(ops) = <<>>
         /\ ip = After /\ Unmoved /\ mark.ip \in DOMAIN image.code
<1>1. Waiting \/ Straight
  BY DEF Progress, Arrived
<1>2. ~Straight
  BY DEF Straight, Straights
<1>3. ops = Here.ops /\ Len(ops) = 1 /\ ip = After /\ Unmoved
  BY <1>1, <1>2 DEF Waiting
<1>4. Head(ops) = ops[1] /\ Tail(ops) = <<>>
  <2>1. ops # <<>> /\ Len(ops) = 1
    BY <1>3
  <2>2. Tail(ops) \in Seq(MicroOps) /\ Len(Tail(ops)) = 0 /\ Head(ops) = ops[1]
    BY <2>1, HeadTailProperties
  <2>3. QED
    BY <2>2, EmptySeq
<1>5. QED
  BY <1>3, <1>4 DEF Only, Arg, Progress

\* A step that leaves all of this alone leaves the progress alone.
LEMMA ProgressKept ==
  ASSUME ControlInv, Running,
         UNCHANGED <<image, mark, ip, instrStart, fr, frStack, phase, ops, pending,
                     event, stack>>,
         \/ resp' = resp
         \/ pending.kind \notin {"Push", "PushFrame", "Pop", "PopPair"}
  PROVE  Progress'
<1>1. Progress
  BY DEF ControlInv
<1>2. Records' = Records
  BY RecordsKept
<1>3. /\ Here' = Here /\ After' = After /\ Arg' = Arg /\ Called' = Called
      /\ DescriptorOf(fr)' = DescriptorOf(fr) /\ Exits' = Exits
      /\ Composite' = Composite /\ TopCall' = TopCall /\ Left' = Left
  BY DEF Here, After, Arg, Called, DescriptorOf, Exits, Composite, TopCall, Left,
     DirectoryAddr, DescriptorAddr, ComposeAddr
<1>4. Reach(ip, fr, Records)' = Reach(ip, fr, Records)
  BY <1>2, <1>3 DEF Reach, ReachPlain, ReachDispatch, ReachCall, ReachReturn, Stays,
     StraightLine, Only
<1>5. Reach(pending.x, fr, Records)' = Reach(pending.x, fr, Records)
  BY <1>2, <1>3 DEF Reach, ReachPlain, ReachDispatch, ReachCall, ReachReturn, Stays,
     StraightLine, Only
<1>6. Unmoved' = Unmoved /\ Waiting' = Waiting /\ Straight' = Straight
      /\ Arrived' = Arrived
  BY <1>2, <1>3, <1>4 DEF Unmoved, Stays, Waiting, Straight, StraightLine, Arrived
<1>7. InFlightOK => InFlightOK'
  <2>1. /\ InData' = InData /\ InCheck' = InCheck /\ InCompose' = InCompose
        /\ InLoad' = InLoad /\ InDispatch' = InDispatch
    BY <1>2, <1>3, <1>5, <1>6 DEF InData, InCheck, Calling, InCompose, InLoad, InDispatch, Only
  <2>2. InPush => InPush'
    <3>1. Pushed' = Pushed
      BY <1>3 DEF Pushed, FramesOn, TopOf, PopOff
    <3>2. QED
      BY <1>2, <1>3, <3>1 DEF InPush, Calling, Only
  <2>3. InReturn => InReturn'
    <3>1. resp' = resp => Popped' = Popped
      BY DEF Popped, RecordsOf, FramesOn
    <3>2. QED
      BY <1>2, <1>3, <3>1 DEF InReturn, Exiting, Only
  <2>4. QED
    BY <2>1, <2>2, <2>3 DEF InFlightOK
<1>8. QED
  BY <1>1, <1>4, <1>6, <1>7 DEF Progress

\* Once the instruction trapped or the machine stopped there is nothing to show.
LEMMA DoneProgress ==
  ASSUME phase' = "Done", event'.type \in {"Trapped", "Stopped", "Halted"}
  PROVE  Progress'
BY DEF Progress

-----------------------------------------------------------------------------
(* From a boundary to the first operation. *)

\* The fetch starts at the boundary.
LEMMA BeginProgress ==
  ASSUME ControlInv, Begin, Running
  PROVE  Progress'
<1>1. Progress /\ event.type = "Boundary"
  BY DEF ControlInv, Begin, Start
<1>2. /\ UNCHANGED <<image, mark, ip, fr, stack, frStack>>
      /\ instrStart' = ip /\ phase' = "FetchOpcode" /\ event'.type = "Request"
  BY DEF Begin, Start, frames, driverVars, Request
<1>3. Unmoved'
  BY <1>1, <1>2, RecordsKept DEF Progress, Unmoved, Stays
<1>4. QED
  BY <1>1, <1>2, <1>3 DEF Progress

\* The instruction is fetched from its first byte to its last: it waits to be
\* carried out, with ip behind it.
LEMMA FetchedProgress ==
  ASSUME ControlInv, Running, UNCHANGED <<image, mark, instrStart, fr, stack, frStack>>,
         mark.ip = instrStart, Unmoved, instrStart \in DOMAIN image.code,
         ip' = instrStart + 1 + image.code[instrStart].operands,
         phase' = "Execute", event' = Busy, ops' = image.code[instrStart].ops
  PROVE  Progress'
<1>1. Here' = image.code[instrStart] /\ After' = ip' /\ Unmoved'
  BY RecordsKept DEF Here, After, Unmoved, Stays
<1>2. /\ ops' \in Seq(MicroOps)
      /\ Alone(ops')
  BY DEF ControlInv, StackInv, RunInv, TypeOK, WellFormed, CodeCells
<1>3. CASE \A i \in DOMAIN ops' : ops'[i].op \notin Transfers
  <2>1. \A i \in 1..Len(ops') : ops'[i] \in Straights
    BY <1>2, <1>3 DEF Straights
  <2>2. ops' \in Seq(Straights)
    BY <1>2, <2>1
  <2>3. Straight'
    BY <1>1, <2>2 DEF Straight, StraightLine
  <2>4. QED
    BY <1>1, <2>3 DEF Progress, Busy, Signal
<1>4. CASE \E i \in DOMAIN ops' : ops'[i].op \in Transfers
  <2>1. Len(ops') = 1 /\ ops'[1].op \in Transfers
    BY <1>2, <1>4 DEF Alone
  <2>2. Waiting'
    BY <1>1, <2>1 DEF Waiting
  <2>3. QED
    BY <1>1, <2>2 DEF Progress, Busy, Signal
<1>5. QED
  BY <1>3, <1>4

\* Each fetched byte, or the failure to fetch it.
LEMMA FetchProgress ==
  ASSUME ControlInv, Running, FetchOpcode \/ FetchOperand, UNCHANGED driverVars
  PROVE  Progress'
<1>1. Progress /\ RunInv /\ ip \in Nat /\ instrStart \in Nat
  BY DEF ControlInv, StackInv, RunInv, TypeOK
<1>2. /\ phase \in {"FetchOpcode", "FetchOperand"} /\ resp # NoResp
      /\ UNCHANGED <<image, mark, instrStart, fr, stack, frStack>>
  BY DEF FetchOpcode, FetchOperand, frames, driverVars, NoResp, Response
<1>3. event.type = "Request" /\ Answers /\ mark.ip = instrStart /\ Unmoved
  BY <1>1, <1>2 DEF RunInv, RespOK, Progress
<1>4. Unmoved'
  BY <1>2, <1>3, RecordsKept DEF Unmoved, Stays
<1>5. CASE phase' = "Done"
  <2>1. event'.type = "Trapped"
    BY <1>2, <1>5 DEF FetchOpcode, FetchOperand, FinishFetch, Trap, Trapped, Ask
  <2>2. QED
    BY <1>5, <2>1, DoneProgress
<1>6. CASE phase' \in {"FetchOpcode", "FetchOperand"}
  <2>1. event'.type = "Request"
    BY <1>2, <1>6 DEF FetchOpcode, FetchOperand, FinishFetch, Trap, Trapped, Ask,
       Request
  <2>2. QED
    BY <1>2, <1>3, <1>4, <1>6, <2>1 DEF Progress
<1>7. CASE phase' = "Execute"
  <2>1. instrStart \in DOMAIN image.code
    <3>1. CASE FetchOpcode
      <4>1. event = Request("CodeRead", 0, ip) /\ instrStart = ip /\ resp.kind = "Byte"
        BY <1>1, <1>3, <1>7, <3>1 DEF FetchOpcode, Trap, RunInv, EventOK
      <4>2. QED
        BY <1>3, <4>1 DEF Answers, Request
    <3>2. CASE FetchOperand
      BY <1>1, <3>2 DEF FetchOperand, RunInv, EventOK
    <3>3. QED
      BY <1>2, <3>1, <3>2 DEF FetchOpcode, FetchOperand
  <2>2. /\ ip' = instrStart + 1 + image.code[instrStart].operands
        /\ ops' = image.code[instrStart].ops /\ event' = Busy
    <3>1. CASE FetchOpcode
      <4>1. resp.val = image.code[instrStart] /\ ip = instrStart
        BY <1>1, <1>3, <1>7, <3>1 DEF FetchOpcode, Trap, RunInv, EventOK, Answers,
           Request, Busy, Signal
      <4>2. resp.val.operands = 0 /\ ip' = ip + 1 /\ ops' = resp.val.ops /\ event' = Busy
        BY <1>7, <3>1 DEF FetchOpcode, FinishFetch, Trap
      <4>3. QED
        BY <1>1, <4>1, <4>2
    <3>2. CASE FetchOperand
      <4>1. /\ ip - instrStart = image.code[instrStart].operands /\ ip' = ip + 1
            /\ ops' = image.code[instrStart].ops /\ event' = Busy
        BY <1>7, <3>2 DEF FetchOperand, FinishFetch, Trap
      <4>2. QED
        BY <1>1, <4>1
    <3>3. QED
      BY <3>1, <3>2
  <2>3. QED
    BY <1>2, <1>3, <1>7, <2>1, <2>2, FetchedProgress
<1>8. phase' \in {"Done", "FetchOpcode", "FetchOperand", "Execute"}
  BY <1>2 DEF FetchOpcode, FetchOperand, FinishFetch, Trap
<1>9. QED
  BY <1>5, <1>6, <1>7, <1>8

-----------------------------------------------------------------------------
(* Issuing an operation. *)

\* Operations on data leave a straight instruction straight, whether they go
\* on the bus, trap or take no transaction.
LEMMA IssueDataProgress ==
  ASSUME ControlInv, Running, UNCHANGED driverVars,
         \/ IssueNop \/ IssueBrk \/ IssueMove \/ IssueWrite \/ IssueLatch \/ IssueRead
         \/ IssueMatch
  PROVE  Progress'
<1>1. /\ Progress /\ event = Busy /\ ops # <<>> /\ Head(ops).op \notin Transfers
      /\ UNCHANGED <<image, mark, ip, fr, stack, frStack>>
  BY DEF ControlInv, IssueNop, IssueBrk, IssueMove, IssueWrite, IssueLatch, IssueRead,
     IssueMatch, Due, Transfers, Displaced, frames, regs, driverVars
<1>2. phase = "Execute"
  BY <1>1, ControlFacts, DueOp
<1>3. Straight /\ Tail(ops) \in Seq(Straights) /\ mark.ip \in DOMAIN image.code
  BY <1>1, <1>2, DueStraight DEF Progress
<1>4. \/ phase' = "Done" /\ event'.type = "Trapped"
      \/ /\ phase' = phase /\ ops' = Tail(ops)
         /\ \/ event' = Busy
            \/ /\ event'.type = "Request"
               /\ pending'.kind \in {"Move", "Write", "Latch", "ReadSlot", "Match"}
  BY <1>1 DEF IssueNop, IssueBrk, IssueMove, IssueWrite, IssueLatch, IssueRead,
     IssueMatch, Continue, Issue, IssueTrap, Ask, Trap, Trapped, Request, Pend
<1>5. CASE phase' = phase /\ ops' = Tail(ops)
  <2>1. Straight'
    BY <1>1, <1>3, <1>5, RecordsKept
       DEF Straight, StraightLine, Here, After, Unmoved, Stays
  <2>2. QED
    BY <1>1, <1>2, <1>3, <1>4, <1>5, <2>1
       DEF Progress, InFlightOK, InData, Busy, Signal
<1>6. QED
  BY <1>4, <1>5, DoneProgress

\* ReadAll becomes reads.
LEMMA IssueReadAllProgress ==
  ASSUME ControlInv, Running, UNCHANGED driverVars, IssueReadAll
  PROVE  Progress'
<1> DEFINE width == IF fr = 0 THEN image.devices ELSE Len(cache.entries)
           reads == [i \in 1..width |-> [op |-> "Read", a |-> i - 1, b |-> i - 1]]
<1>1. /\ Progress /\ event = Busy /\ ops # <<>> /\ Head(ops).op \notin Transfers
      /\ UNCHANGED <<image, mark, ip, fr, stack, frStack, phase, event>>
      /\ ops' = reads \o Tail(ops)
  BY DEF ControlInv, IssueReadAll, Due, Transfers, Displaced, frames, driverVars
<1>2. phase = "Execute"
  BY <1>1, ControlFacts, DueOp
<1>3. Straight /\ Tail(ops) \in Seq(Straights) /\ mark.ip \in DOMAIN image.code
  BY <1>1, <1>2, DueStraight DEF Progress
<1>4. width \in Nat
  BY ControlFacts DEF RunInv, TypeOK, WellFormed, Descriptors
<1>5. reads \in Seq(Straights)
  <2> HIDE DEF width
  <2>1. \A i \in 1..width : [op |-> "Read", a |-> i - 1, b |-> i - 1] \in Straights
    BY <1>4 DEF Straights, MicroOps, OpNames, Transfers, Displaced
  <2>2. reads \in [1..width -> Straights]
    BY <2>1
  <2>3. QED
    BY <1>4, <2>2, FunctionAsSeq
<1> HIDE DEF reads
<1>6. ops' \in Seq(Straights)
  BY <1>1, <1>3, <1>5, ConcatProperties
<1>7. Straight'
  BY <1>1, <1>3, <1>6, RecordsKept
     DEF Straight, StraightLine, Here, After, Unmoved, Stays
<1>8. QED
  BY <1>1, <1>2, <1>3, <1>7 DEF Progress, Busy, Signal

\* A stop, a halt or a raised trap ends the run.
LEMMA IssueEndProgress ==
  ASSUME IssueEnd \/ IssueRaise \/ IssueProfileViolation
  PROVE  Progress'
<1>1. phase' = "Done" /\ event'.type \in {"Trapped", "Stopped", "Halted"}
  BY DEF IssueEnd, IssueRaise, IssueProfileViolation, IssueTrap, Trap, Trapped, Signal
<1>2. QED
  BY <1>1, DoneProgress

\* A jump, taken or not, has arrived.
LEMMA IssueJumpProgress ==
  ASSUME ControlInv, Running, UNCHANGED driverVars, IssueJump \/ IssueFallThrough
  PROVE  Progress'
<1>1. /\ Progress /\ event = Busy /\ ops # <<>>
      /\ Head(ops).op \in {"JumpRel", "JumpRelIf"}
      /\ UNCHANGED <<image, mark, fr, stack, frStack>>
  BY DEF ControlInv, IssueJump, IssueFallThrough, Due, frames, regs, driverVars
<1>2. phase = "Execute" /\ ops \in Seq(MicroOps)
  BY <1>1, ControlFacts, DueOp DEF RunInv
<1>3. /\ Only(Head(ops).op) /\ Head(ops) = Arg /\ Tail(ops) = <<>>
      /\ ip = After /\ Unmoved /\ mark.ip \in DOMAIN image.code
  BY <1>1, <1>2, DueTransfer DEF Transfers, Displaced
<1>4. \/ phase' = "Done" /\ event'.type = "Trapped"
      \/ /\ ip' \in {ip, ip + Arg.a}
         /\ phase' = phase /\ ops' = Tail(ops) /\ event' = event
  BY <1>1, <1>3 DEF IssueJump, IssueFallThrough, JumpTarget, Continue, IssueTrap, Trap,
     Trapped, regs
<1>5. CASE ip' \in {ip, ip + Arg.a} /\ phase' = phase /\ ops' = Tail(ops) /\ event' = event
  <2>1. /\ Here' = Here /\ After' = After /\ Arg' = Arg /\ Records' = Records
        /\ mark' = mark /\ fr' = fr /\ mark.ip \in DOMAIN image'.code
    BY <1>1, <1>3, RecordsKept DEF Here, After, Arg
  <2>2. ReachPlain(ip, fr, Records)'
    BY <1>1, <1>3, <1>5, <2>1 DEF ReachPlain, Stays, Unmoved, Only
  <2>3. Arrived'
    BY <1>3, <1>5, <2>1, <2>2 DEF Arrived, Reach
  <2>4. QED
    BY <1>1, <1>2, <1>5, <2>1, <2>3 DEF Progress, Busy, Signal
<1>6. QED
  BY <1>4, <1>5, DoneProgress

\* A call is checked, a return pops, a dispatch reads its table.
LEMMA IssueTransferProgress ==
  ASSUME ControlInv, Running, UNCHANGED driverVars,
         IssueCall \/ IssueRet \/ IssueRetX \/ IssueDispatch
  PROVE  Progress'
<1>1. /\ Progress /\ event = Busy /\ ops # <<>>
      /\ Head(ops).op \in {"Call", "CallFrame", "Ret", "RetX", "DispatchJump"}
      /\ UNCHANGED <<image, mark, ip, fr, stack, frStack>>
  BY DEF ControlInv, IssueCall, IssueRet, IssueRetX, IssueDispatch, Due, frames, regs,
     driverVars
<1>2. phase = "Execute" /\ ops \in Seq(MicroOps) /\ resp = NoResp /\ pending = NoPend
      /\ Head(ops).a \in Int
  BY <1>1, ControlFacts, DueOp DEF RunInv
<1>3. /\ Only(Head(ops).op) /\ Head(ops) = Arg /\ Tail(ops) = <<>>
      /\ ip = After /\ Unmoved /\ mark.ip \in DOMAIN image.code
  BY <1>1, <1>2, DueTransfer DEF Transfers, Displaced
<1>4. /\ Here' = Here /\ After' = After /\ Arg' = Arg /\ Records' = Records
      /\ mark' = mark /\ fr' = fr /\ mark.ip \in DOMAIN image'.code /\ Exits' = Exits
      /\ Unmoved'
  BY <1>1, <1>3, RecordsKept DEF Here, After, Arg, Exits, DescriptorOf, DirectoryAddr,
     DescriptorAddr, Unmoved, Stays
<1>5. CASE phase' = "Done"
  <2>1. event'.type = "Trapped"
    BY <1>2, <1>5 DEF IssueCall, IssueRet, IssueRetX, IssueDispatch, Issue, IssueTrap,
       Trap, Trapped
  <2>2. QED
    BY <1>5, <2>1, DoneProgress
<1>6. CASE phase' # "Done"
  <2>1. /\ phase' = "Execute" /\ ops' = <<>> /\ event'.type = "Request"
        /\ resp' = NoResp /\ ip' = After'
    <3>1. /\ phase' = phase /\ ops' = Tail(ops) /\ event'.type = "Request"
          /\ resp' = NoResp
      BY <1>6 DEF IssueCall, IssueRet, IssueRetX, IssueDispatch, Issue, IssueTrap, Trap,
         Ask, Request
    <3>2. QED
      BY <1>1, <1>2, <1>3, <1>4, <3>1
  <2>2. CASE IssueCall
    <3>1. pending' = Pend(IF Arg.op = "Call" THEN "EntCheck" ELSE "EntCheckFrame",
                          After + Arg.a, Arg.b)
          /\ Arg.op \in {"Call", "CallFrame"}
      BY <1>3, <1>6, <2>2 DEF IssueCall, Due, Issue, IssueTrap, Trap, Ask, JumpTarget
    <3>2. InCheck'
      BY <1>3, <1>4, <2>1, <3>1 DEF InCheck, Calling, Pend, Only
    <3>3. QED
      BY <1>4, <2>1, <3>2 DEF Progress, InFlightOK, Busy, Signal
  <2>3. CASE IssueRet \/ IssueRetX
    <3>1. ASSUME IssueRet PROVE Exiting'
      <4>1. /\ Arg.op = "Ret"
            /\ \/ pending' = Pend("PopPair", NoExit, 0) \/ pending' = Pend("Pop", 0, 0)
        BY <1>3, <3>1 DEF IssueRet, Due, Issue, Ask
      <4>2. Only("Ret")'
        BY <1>3, <1>4, <4>1 DEF Only
      <4>3. pending'.kind = "PopPair" => pending'.x = NoExit
        BY <4>1 DEF Pend
      <4>4. QED
        BY <4>2, <4>3 DEF Exiting
    <3>2. ASSUME IssueRetX PROVE Exiting'
      <4>1. /\ Arg.op = "RetX" /\ fr # 0 /\ Arg.a + 1 \in DOMAIN cache.exits
            /\ pending' = Pend("PopPair", cache.exits[Arg.a + 1], 0)
        BY <1>3, <1>6, <3>2 DEF IssueRetX, Due, Issue, IssueTrap, Trap, Ask
      <4>2. cache = DescriptorOf(mark.fr) /\ mark.fr = fr
        BY <1>2, <1>3, ControlFacts DEF CacheCoherent, Loading, NoPend, Pend, Unmoved, Stays
      <4>3. cache.exits[Arg.a + 1] # NoExit
        <5>1. cache.exits \in Seq(Nat)
          BY ControlFacts DEF RunInv, Descriptors
        <5>2. QED
          BY <4>1, <5>1, ElementOfSeq DEF NoExit
      <4>4. Only("RetX")'
        BY <1>3, <1>4, <4>1 DEF Only
      <4>5. /\ pending'.kind = "PopPair" /\ pending'.x = Exits[Arg.a + 1]
            /\ pending'.x # NoExit /\ Arg.a + 1 \in DOMAIN Exits /\ mark.fr # 0
        BY <4>1, <4>2, <4>3 DEF Pend, Exits
      <4>6. QED
        BY <1>4, <4>4, <4>5 DEF Exiting
    <3>3. Exiting' /\ pending'.kind \in {"Pop", "PopPair"}
      <4>1. pending'.kind \in {"Pop", "PopPair"}
        BY <1>6, <2>3 DEF IssueRet, IssueRetX, Issue, IssueTrap, Trap, Ask, Pend
      <4>2. Exiting'
        BY <2>3, <3>1, <3>2
      <4>3. QED
        BY <4>1, <4>2
    <3>4. InReturn'
      BY <1>4, <2>1, <3>3 DEF InReturn, Unmoved, Stays, NoResp, Response
    <3>5. QED
      BY <1>4, <2>1, <3>4 DEF Progress, InFlightOK, Busy, Signal
  <2>4. CASE IssueDispatch
    <3>1. /\ pending' = Pend("Dispatch", 0, 0) /\ Arg.op = "DispatchJump"
          /\ event'.val = DispatchAddr(Arg.a)
      BY <1>3, <1>6, <2>4 DEF IssueDispatch, Due, Issue, IssueTrap, Trap, Ask, Request
    <3>2. InDispatch'
      BY <1>3, <1>4, <2>1, <3>1 DEF InDispatch, Pend, Only, DispatchAddr
    <3>3. QED
      BY <1>4, <2>1, <3>2 DEF Progress, InFlightOK, Busy, Signal
  <2>5. QED
    BY <2>2, <2>3, <2>4
<1>7. QED
  BY <1>5, <1>6

\* The instruction that retires has taken its whole step.
LEMMA RetireProgress ==
  ASSUME ControlInv, Running, UNCHANGED driverVars, Retire
  PROVE  Progress'
<1>1. /\ Progress /\ event = Busy /\ ops = <<>> /\ phase' = "StepAck"
      /\ event'.type \in {"Step", "Break"}
      /\ UNCHANGED <<image, mark, ip, fr, stack, frStack>>
  BY DEF ControlInv, Retire, frames, regs, driverVars, Signal
<1>2. phase = "Execute"
  BY <1>1, ControlFacts DEF RunInv, TypeOK, EventOK, Busy, Signal, Request
<1>3. Reach(ip, fr, Records)
  <2>1. Straight \/ Arrived
    BY <1>1, <1>2 DEF Progress, Waiting
  <2>2. Straight => Reach(ip, fr, Records)
    BY <1>1, <1>2 DEF Progress, Straight, Reach, ReachPlain, Unmoved
  <2>3. QED
    BY <2>1, <2>2 DEF Arrived
<1>4. Reach(ip, fr, Records)'
  <2>1. Records' = Records
    BY <1>1, RecordsKept
  <2>2. QED
    BY <1>1, <1>3, <2>1 DEF Reach, ReachPlain, ReachDispatch, ReachCall, ReachReturn,
       Stays, StraightLine, Only, Here, After, Arg, Called, DescriptorOf, Exits,
       Composite, TopCall, Left, DirectoryAddr, DescriptorAddr, ComposeAddr
<1>5. QED
  BY <1>1, <1>4 DEF Progress

-----------------------------------------------------------------------------
(* Settling the request in flight. *)

\* A settlement that traps.
LEMMA SettleTrapProgress ==
  ASSUME SettleFault \/ SettleStackFull \/ SettleOutOfTable \/ SettleStackEmpty
  PROVE  Progress'
<1>1. phase' = "Done" /\ event'.type = "Trapped"
  BY DEF SettleFault, SettleStackFull, SettleOutOfTable, SettleStackEmpty, Trap, Trapped
<1>2. QED
  BY <1>1, DoneProgress

\* A settled operation on data leaves the rest of a straight instruction.
LEMMA SettleDataProgress ==
  ASSUME ControlInv, Running, UNCHANGED driverVars,
         SettleDone \/ SettleLatch \/ SettleRead \/ SettleMatch
  PROVE  Progress'
<1>1. /\ Progress /\ phase = "Execute"
      /\ pending.kind \in {"Move", "Write", "Latch", "ReadSlot", "Match"}
      /\ UNCHANGED <<image, mark, ip, fr, stack, frStack>>
  BY DEF ControlInv, SettleDone, SettleLatch, SettleRead, SettleMatch, Delivered, frames,
     regs, driverVars
<1>2. event # Busy
  BY <1>1, ControlFacts DEF RunInv, EventOK, NoPend, Pend
<1>3. Straight /\ mark.ip \in DOMAIN image.code
  BY <1>1, <1>2 DEF Progress, InFlightOK, InData, InCheck, InPush, InCompose, InLoad,
     InReturn, InDispatch
<1>4. \/ phase' = "Done" /\ event'.type = "Trapped"
      \/ phase' = phase /\ ops' = ops /\ event' = Busy
  BY DEF SettleDone, SettleLatch, SettleRead, SettleMatch, Settled, Trap, Trapped
<1>5. CASE phase' = phase /\ ops' = ops /\ event' = Busy
  <2>1. Straight'
    BY <1>1, <1>3, <1>5, RecordsKept
       DEF Straight, StraightLine, Here, After, Unmoved, Stays
  <2>2. QED
    BY <1>1, <1>3, <1>5, <2>1 DEF Progress, Busy, Signal
<1>6. QED
  BY <1>4, <1>5, DoneProgress

\* What a settlement starts from, by the request it settles.
LEMMA InFlightFacts ==
  ASSUME ControlInv, Running, phase = "Execute", pending.kind # "None"
  PROVE  /\ mark.ip \in DOMAIN image.code
         /\ pending.kind \in {"EntCheck", "EntCheckFrame"} => InCheck
         /\ pending.kind \in {"Push", "PushFrame"} => InPush
         /\ pending.kind = "ComposeRead" => InCompose
         /\ pending.kind \in {"DirectoryRead", "FrameLoad"} => InLoad
         /\ pending.kind \in {"Pop", "PopPair"} => InReturn
         /\ pending.kind = "Dispatch" => InDispatch
<1>1. event # Busy
  BY ControlFacts DEF RunInv, EventOK, NoPend, Pend
<1>2. InFlightOK /\ mark.ip \in DOMAIN image.code
  BY <1>1 DEF ControlInv, Progress
<1>3. QED
  BY <1>2 DEF InFlightOK, InData, InCheck, InPush, InCompose, InLoad, InReturn, InDispatch

\* The answer to the request in flight is the one the driver may give to it.
LEMMA AnswerFacts ==
  ASSUME ControlInv, phase = "Execute", resp # NoResp
  PROVE  event.type = "Request" /\ AsksFor /\ Answers /\ event # Busy
BY ControlFacts DEF RunInv, EventOK, RespOK, Busy, Signal

\* What is named by the last boundary does not change.
LEMMA StepNames ==
  ASSUME UNCHANGED <<image, mark>>
  PROVE  /\ Here' = Here /\ After' = After /\ Arg' = Arg /\ Called' = Called
         /\ Exits' = Exits /\ Composite' = Composite
         /\ TopCall' = TopCall /\ Left' = Left
         /\ \A name : Only(name)' = Only(name)
BY DEF Here, After, Arg, Called, DescriptorOf, Exits, Composite, TopCall, Left,
   DirectoryAddr, DescriptorAddr, ComposeAddr, Only

\* The target of a call is an entry, and its return address goes on the bus.
LEMMA EntCheckProgress ==
  ASSUME ControlInv, Running, UNCHANGED driverVars, SettleEntCheck
  PROVE  Progress'
<1>1. /\ phase = "Execute" /\ pending.kind \in {"EntCheck", "EntCheckFrame"}
      /\ UNCHANGED <<image, mark, ip, fr, stack, frStack, ops>>
  BY DEF SettleEntCheck, frames, regs, driverVars
<1>2. InCheck /\ mark.ip \in DOMAIN image.code
  BY <1>1, InFlightFacts
<1>3. \/ phase' = "Done" /\ event'.type = "Trapped"
      \/ /\ phase' = phase /\ event' = Request("StackPush", 0, ip) /\ resp' = NoResp
         /\ pending' = Pend(IF pending.kind = "EntCheck" THEN "Push" ELSE "PushFrame",
                            pending.x, pending.y)
  BY DEF SettleEntCheck, Ask, Trap, Trapped
<1>4. CASE /\ phase' = phase /\ event' = Request("StackPush", 0, ip) /\ resp' = NoResp
           /\ pending' = Pend(IF pending.kind = "EntCheck" THEN "Push" ELSE "PushFrame",
                              pending.x, pending.y)
  <2>1. Calling'
    BY <1>1, <1>2, <1>4, StepNames DEF InCheck, Calling, Pend
  <2>2. InPush'
    BY <1>1, <1>2, <1>4, <2>1, RecordsKept, StepNames
       DEF InPush, InCheck, Calling, Unmoved, Stays, Pend, Request, NoResp, Response
  <2>3. QED
    BY <1>1, <1>2, <1>4, <2>2 DEF Progress, InFlightOK, Request, Busy, Signal
<1>5. QED
  BY <1>3, <1>4, DoneProgress

\* The FR half follows the return address: the record of the call is complete.
LEMMA PushedRecords ==
  ASSUME ControlInv, Running, UNCHANGED driverVars, SettlePush \/ SettlePushFrame
  PROVE  Records' = Called /\ fr' = mark.fr /\ Calling /\ mark.ip \in DOMAIN image.code
<1>1. /\ phase = "Execute" /\ pending.kind \in {"Push", "PushFrame"} /\ resp.kind = "Ok"
      /\ UNCHANGED <<image, fr, stack>>
      /\ frStack' = IF FramesOn THEN PushOn(frStack, fr) ELSE frStack
  BY ControlFacts DEF SettlePush, SettlePushFrame, Delivered, FrHalf, driverVars, Framing
<1>2. InPush /\ Calling /\ Pushed /\ mark.fr = fr /\ mark.ip \in DOMAIN image.code
  BY <1>1, InFlightFacts DEF InPush
<1>3. /\ stack \in Seq(Nat) /\ frStack \in Seq(Nat) /\ fr \in Nat
      /\ ~FramesOn => fr = 0
      /\ FramesOn => Len(frStack) = Len(stack) - 1
  BY <1>1, ControlFacts DEF StacksInStep, PushInFlight
<1>4. /\ PopOff(stack) \in Seq(Nat) /\ Len(PopOff(stack)) = Len(stack) - 1
      /\ After \in Nat /\ Append(PopOff(stack), After) = stack
  BY <1>2, <1>3, StackOps, StackEnds DEF Pushed
<1>5. frStack' \in Seq(Nat)
  BY <1>1, <1>3, StackOps
<1>6. RecordsOf(Append(PopOff(stack), After), frStack', FramesOn)
        = Append(RecordsOf(PopOff(stack), frStack, FramesOn), [ret |-> After, frame |-> fr])
  <2> DEFINE st == PopOff(stack)
             fs2 == frStack'
  <2>1. /\ FramesOn => Len(st) = Len(frStack) /\ fs2 = Append(frStack, fr)
        /\ ~FramesOn => fr = 0
        /\ st \in Seq(Nat) /\ fs2 \in Seq(Nat)
    BY <1>1, <1>3, <1>4, <1>5 DEF PushOn
  <2> HIDE DEF st, fs2
  <2>2. RecordsOf(Append(st, After), fs2, FramesOn)
          = Append(RecordsOf(st, frStack, FramesOn), [ret |-> After, frame |-> fr])
    BY <1>3, <1>4, <2>1, RecordsPush
  <2>3. QED
    BY <2>2 DEF st, fs2
<1>7. Records' = RecordsOf(stack, frStack', FramesOn)
  BY <1>1 DEF Records, RecordsOf, FramesOn
<1>8. QED
  BY <1>1, <1>2, <1>4, <1>6, <1>7 DEF Pushed, Called

\* A plain call has arrived.
LEMMA PushProgress ==
  ASSUME ControlInv, Running, UNCHANGED driverVars, SettlePush
  PROVE  Progress'
<1>1. /\ phase' = "Execute" /\ pending.kind = "Push" /\ ip' = pending.x
      /\ ops' = ops /\ event' = Busy /\ UNCHANGED <<image, mark>>
  BY DEF SettlePush, Delivered, Settled, driverVars
<1>2. Records' = Called /\ fr' = mark.fr /\ Calling /\ mark.ip \in DOMAIN image.code
  BY PushedRecords
<1>3. ReachCall(ip, fr, Records)'
  BY <1>1, <1>2, StepNames DEF ReachCall, Calling
<1>4. Arrived'
  BY <1>1, <1>2, <1>3 DEF Arrived, Reach, Calling
<1>5. QED
  BY <1>1, <1>2, <1>4 DEF Progress, Busy, Signal

\* A framed call looks its composite up.
LEMMA PushFrameProgress ==
  ASSUME ControlInv, Running, UNCHANGED driverVars, SettlePushFrame
  PROVE  Progress'
<1>1. /\ phase = "Execute" /\ pending.kind = "PushFrame"
      /\ UNCHANGED <<image, mark, ops, ip>>
      /\ \/ phase' = "Done" /\ event'.type = "Trapped"
         \/ /\ pending.y < image.sites /\ phase' = phase
            /\ event' = Request("FrameRead", 0, ComposeAddr(fr, pending.y))
            /\ pending' = Pend("ComposeRead", pending.x, 0)
  BY ControlFacts DEF SettlePushFrame, Delivered, Ask, Trap, Trapped, regs, driverVars,
     RunInv, PendingOK, TypeOK, WellFormed
<1>2. Records' = Called /\ fr' = mark.fr /\ Calling /\ mark.ip \in DOMAIN image.code
  BY PushedRecords
<1>3. CASE phase' = "Done"
  BY <1>1, <1>3, DoneProgress
<1>4. CASE phase' # "Done"
  <2>1. fr' = fr
    BY DEF SettlePushFrame
  <2>2. InCompose'
    BY <1>1, <1>2, <1>4, <2>1, StepNames
       DEF InCompose, Calling, Pend, Request, ComposeAddr
  <2>3. QED
    BY <1>1, <1>2, <1>4, <2>2 DEF Progress, InFlightOK, Request, Busy, Signal
<1>5. QED
  BY <1>3, <1>4

\* The composed frame is active: the call has only its descriptor to load.
LEMMA ComposeProgress ==
  ASSUME ControlInv, Running, UNCHANGED driverVars, SettleCompose
  PROVE  Progress'
<1>1. /\ phase = "Execute" /\ pending.kind = "ComposeRead" /\ resp.kind = "Byte"
      /\ UNCHANGED <<image, mark, ops, ip, stack, frStack>>
      /\ \/ phase' = "Done" /\ event'.type = "Trapped"
         \/ /\ resp.val # 0 /\ ~(resp.val > image.composites) /\ fr' = resp.val
            /\ phase' = phase
            /\ event' = Request("FrameRead", 0, DirectoryAddr(resp.val))
            /\ pending' = Pend("DirectoryRead", pending.x, 0)
  BY DEF SettleCompose, Delivered, Ask, Trap, Trapped, regs, driverVars
<1>2. InCompose /\ mark.ip \in DOMAIN image.code
  BY <1>1, InFlightFacts
<1>3. resp.val = Composite /\ resp.val \in Nat
  <2>1. resp # NoResp
    BY <1>1 DEF NoResp, Response
  <2>2. AsksFor /\ Answers
    BY <1>1, <2>1, AnswerFacts
  <2>3. resp.val = image.rom[event.val]
    BY <1>1, <2>2 DEF AsksFor, Answers, DeviceMoves
  <2>4. resp.val \in Nat
    BY <1>1, <2>1, ControlFacts, ResponseTyped
  <2>5. QED
    BY <1>2, <2>3, <2>4 DEF InCompose, Composite
<1>4. CASE phase' = "Done"
  BY <1>1, <1>4, DoneProgress
<1>5. CASE phase' # "Done"
  <2>1. Composite \in 1..image.composites
    <3>1. image.composites \in Nat
      BY ControlFacts DEF RunInv, TypeOK, WellFormed
    <3>2. QED
      BY <1>1, <1>3, <1>5, <3>1
  <2>2. Records' = Called
    BY <1>1, <1>2, RecordsKept DEF InCompose
  <2>3. ReachCall(pending.x, fr, Records)'
    BY <1>1, <1>2, <1>3, <1>5, <2>1, <2>2, StepNames DEF ReachCall, InCompose, Pend
  <2>4. InLoad'
    BY <1>1, <1>2, <1>5, <2>3 DEF InLoad, InCompose, Reach, Pend
  <2>5. QED
    BY <1>1, <1>2, <1>5, <2>4 DEF Progress, InFlightOK, Request, Busy, Signal
<1>6. QED
  BY <1>4, <1>5

\* The descriptor is found and loaded: the call or the return has arrived.
LEMMA LoadProgress ==
  ASSUME ControlInv, Running, UNCHANGED driverVars, SettleDirectory \/ SettleFrameLoad
  PROVE  Progress'
<1>1. /\ phase = "Execute" /\ pending.kind \in {"DirectoryRead", "FrameLoad"}
      /\ UNCHANGED <<image, mark, stack, frStack, fr>>
  BY DEF SettleDirectory, SettleFrameLoad, Delivered, frames, driverVars
<1>2. InLoad /\ mark.ip \in DOMAIN image.code
  BY <1>1, InFlightFacts
<1>3. \/ phase' = "Done" /\ event'.type = "Trapped"
      \/ /\ phase' = phase /\ ops' = ops /\ event' = Busy /\ ip' = pending.x
      \/ /\ phase' = phase /\ ops' = ops /\ event'.type = "Request"
         /\ pending'.kind = "FrameLoad" /\ pending'.x = pending.x
  BY DEF SettleDirectory, SettleFrameLoad, Settled, Ask, Trap, Trapped, Request, Pend
<1>4. /\ Reach(pending.x, fr, Records)
      /\ ip' = pending.x => Reach(ip, fr, Records)'
      /\ pending'.x = pending.x => Reach(pending.x, fr, Records)'
  <2>1. Reach(pending.x, fr, Records)
    BY <1>2 DEF InLoad
  <2>2. Records' = Records
    BY <1>1, RecordsKept
  <2>3. ip' = pending.x => Reach(ip, fr, Records)'
    BY <1>1, <2>1, <2>2, StepNames
       DEF Reach, ReachPlain, ReachDispatch, ReachCall, ReachReturn, Stays, StraightLine
  <2>4. pending'.x = pending.x => Reach(pending.x, fr, Records)'
    BY <1>1, <2>1, <2>2, StepNames
       DEF Reach, ReachPlain, ReachDispatch, ReachCall, ReachReturn, Stays, StraightLine
  <2>5. QED
    BY <2>1, <2>3, <2>4
<1>5. CASE phase' = phase /\ ops' = ops /\ event' = Busy /\ ip' = pending.x
  <2>1. Arrived'
    BY <1>2, <1>4, <1>5 DEF Arrived, InLoad
  <2>2. QED
    BY <1>1, <1>2, <1>5, <2>1 DEF Progress, Busy, Signal
<1>6. CASE /\ phase' = phase /\ ops' = ops /\ event'.type = "Request"
           /\ pending'.kind = "FrameLoad" /\ pending'.x = pending.x
  <2>1. InLoad'
    BY <1>2, <1>4, <1>6 DEF InLoad
  <2>2. QED
    BY <1>1, <1>2, <1>6, <2>1 DEF Progress, InFlightOK, Busy, Signal
<1>7. QED
  BY <1>3, <1>5, <1>6, DoneProgress

\* The popped address, with the popped register beside it, is the top record.
LEMMA PoppedRecords ==
  ASSUME ControlInv, Running, UNCHANGED driverVars, SettlePop \/ SettlePopPair
  PROVE  /\ mark.calls # <<>> /\ Records' = Left
         /\ TopCall = [ret |-> resp.val, frame |-> fr'] /\ resp.val \in Nat
         /\ Exiting /\ ops = <<>> /\ mark.fr = fr /\ mark.ip \in DOMAIN image.code
<1>1. /\ phase = "Execute" /\ pending.kind \in {"Pop", "PopPair"} /\ resp.kind = "Value"
      /\ UNCHANGED <<image, mark, stack>>
  BY DEF SettlePop, SettlePopPair, Delivered, driverVars
<1>2. InReturn /\ Popped /\ mark.ip \in DOMAIN image.code
  BY <1>1, InFlightFacts DEF InReturn
<1>3. /\ stack \in Seq(Nat) /\ frStack \in Seq(Nat) /\ fr \in Nat
      /\ ~FramesOn => fr = 0
      /\ Len(stack) \in Nat /\ Len(frStack) \in Nat
      /\ FramesOn <=> pending.kind = "PopPair"
      /\ pending.kind = "PopPair" => Len(frStack) = Len(stack) + 1
  BY <1>1, ControlFacts DEF StacksInStep, PushInFlight, PopInFlight, Framing
<1>4. resp.val \in Nat
  BY <1>1, ControlFacts, ResponseTyped DEF NoResp, Response
<1>5. /\ FramesOn => frStack # <<>> /\ fr' = TopOf(frStack) /\ frStack' = PopOff(frStack)
      /\ ~FramesOn => fr' = 0 /\ frStack' = frStack
  <2>1. CASE pending.kind = "PopPair"
    <3>1. SettlePopPair /\ frStack # <<>>
      BY <1>3, <2>1 DEF SettlePop, Delivered
    <3>2. QED
      BY <1>3, <2>1, <3>1 DEF SettlePopPair
  <2>2. CASE pending.kind # "PopPair"
    <3>1. SettlePop
      BY <2>2 DEF SettlePopPair, Delivered
    <3>2. QED
      BY <1>3, <2>2, <3>1 DEF SettlePop, frames
  <2>3. QED
    BY <2>1, <2>2
<1>6. fr' \in Nat /\ frStack' \in Seq(Nat)
  BY <1>3, <1>5, StackOps
<1> DEFINE st  == Append(stack, resp.val)
           fs1 == frStack'
           f   == fr'
<1>7. /\ st \in Seq(Nat) /\ st # <<>> /\ Len(st) = Len(stack) + 1
      /\ PopOff(st) = stack /\ TopOf(st) = resp.val
  <2>1. st \in Seq(Nat) /\ Len(st) = Len(stack) + 1
    BY <1>3, <1>4, AppendProperties
  <2>2. PopOff(st) = stack /\ TopOf(st) = resp.val
    BY <1>3, <1>4, StackEnds
  <2> HIDE DEF st
  <2>3. QED
    BY <1>3, <2>1, <2>2
<1>8. /\ FramesOn => Len(st) = Len(frStack) /\ fs1 = PopOff(frStack) /\ f = TopOf(frStack)
      /\ ~FramesOn => f = 0
      /\ fs1 \in Seq(Nat) /\ f \in Nat
  BY <1>3, <1>5, <1>6, <1>7
<1> DEFINE on == FramesOn
<1> HIDE DEF st, fs1, f
<1>9. LET all == RecordsOf(st, frStack, FramesOn) IN
      /\ all # <<>>
      /\ all[Len(all)] = [ret |-> TopOf(st), frame |-> f]
      /\ SubSeq(all, 1, Len(all) - 1) = RecordsOf(PopOff(st), fs1, FramesOn)
  <2>1. /\ st \in Seq(Nat) /\ frStack \in Seq(Nat) /\ fs1 \in Seq(Nat) /\ f \in Nat
        /\ st # <<>>
    BY <1>3, <1>7, <1>8
  <2>2. on => Len(st) = Len(frStack) /\ fs1 = PopOff(frStack) /\ f = TopOf(frStack)
    BY <1>8
  <2>3. ~on => f = 0
    BY <1>8
  <2> HIDE DEF on
  <2>4. LET all == RecordsOf(st, frStack, on) IN
        /\ all # <<>>
        /\ all[Len(all)] = [ret |-> TopOf(st), frame |-> f]
        /\ SubSeq(all, 1, Len(all) - 1) = RecordsOf(PopOff(st), fs1, on)
    BY <2>1, <2>2, <2>3, RecordsPop
  <2>5. QED
    BY <2>4 DEF on
<1>10. mark.calls = RecordsOf(st, frStack, FramesOn)
  BY <1>2 DEF Popped, st
<1>11. Records' = RecordsOf(stack, fs1, FramesOn)
  BY <1>1 DEF Records, RecordsOf, FramesOn, fs1
<1>12. /\ mark.calls # <<>> /\ TopCall = [ret |-> resp.val, frame |-> f]
       /\ Left = Records'
  BY <1>7, <1>9, <1>10, <1>11 DEF TopCall, Left
<1>13. QED
  BY <1>2, <1>4, <1>12 DEF InReturn, f

\* A return has arrived, or has the descriptor of the restored frame to load.
LEMMA PopProgress ==
  ASSUME ControlInv, Running, UNCHANGED driverVars, SettlePop \/ SettlePopPair
  PROVE  Progress'
<1> DEFINE thenIp == IF pending.kind = "Pop" \/ pending.x = NoExit
                     THEN resp.val ELSE pending.x
<1>1. /\ mark.calls # <<>> /\ Records' = Left
      /\ TopCall = [ret |-> resp.val, frame |-> fr']
      /\ Exiting /\ ops = <<>> /\ mark.fr = fr /\ mark.ip \in DOMAIN image.code
  BY PoppedRecords
<1>2. /\ phase = "Execute" /\ phase' = phase /\ ops' = ops /\ UNCHANGED <<image, mark>>
      /\ pending.kind \in {"Pop", "PopPair"}
  BY DEF SettlePop, SettlePopPair, Delivered, Settled, driverVars
<1>3. ReachReturn(thenIp, fr', Records')
  <2>1. CASE Only("Ret") /\ (pending.kind = "PopPair" => pending.x = NoExit)
    BY <1>1, <1>2, <2>1 DEF ReachReturn
  <2>2. CASE /\ Only("RetX") /\ pending.kind = "PopPair" /\ pending.x # NoExit
             /\ mark.fr # 0 /\ Arg.a + 1 \in DOMAIN Exits /\ pending.x = Exits[Arg.a + 1]
    BY <1>1, <1>2, <2>2 DEF ReachReturn
  <2>3. QED
    BY <1>1, <2>1, <2>2 DEF Exiting
<1>4. \/ ip' = thenIp /\ event' = Busy
      \/ /\ event'.type = "Request" /\ pending'.kind = "DirectoryRead"
         /\ pending'.x = thenIp
  <2>1. CASE SettlePop
    BY <2>1 DEF SettlePop, Delivered, Settled
  <2>2. CASE SettlePopPair
    BY <2>2 DEF SettlePopPair, Delivered, Settled, Ask, Request, Pend
  <2>3. QED
    BY <2>1, <2>2
<1>5. ASSUME NEW at, at = thenIp PROVE ReachReturn(at, fr', Records')
  BY <1>3, <1>5
<1> HIDE DEF thenIp
<1>6. CASE ip' = thenIp /\ event' = Busy
  <2>1. ReachReturn(ip, fr, Records)'
    BY <1>2, <1>3, <1>6, StepNames DEF ReachReturn
  <2>2. Arrived'
    BY <1>1, <1>2, <1>6, <2>1 DEF Arrived, Reach
  <2>3. QED
    BY <1>1, <1>2, <1>6, <2>2 DEF Progress, Busy, Signal
<1>7. CASE event'.type = "Request" /\ pending'.kind = "DirectoryRead" /\ pending'.x = thenIp
  <2>1. ReachReturn(pending.x, fr, Records)'
    BY <1>2, <1>3, <1>7, StepNames DEF ReachReturn
  <2>2. InLoad'
    BY <1>1, <1>2, <1>7, <2>1 DEF InLoad, Reach
  <2>3. QED
    BY <1>1, <1>2, <1>7, <2>2 DEF Progress, InFlightOK, Busy, Signal
<1>8. QED
  BY <1>4, <1>6, <1>7

\* A dispatch goes to an entry of its table.
LEMMA DispatchProgress ==
  ASSUME ControlInv, Running, UNCHANGED driverVars, SettleDispatch
  PROVE  Progress'
<1>1. /\ phase = "Execute" /\ pending.kind = "Dispatch" /\ resp.kind = "Byte"
      /\ UNCHANGED <<image, mark, ops, stack, frStack, fr>>
      /\ \/ phase' = "Done" /\ event'.type = "Trapped"
         \/ /\ mr \in DOMAIN resp.val.targets /\ ip' = resp.val.targets[mr]
            /\ phase' = phase /\ event' = Busy
  BY DEF SettleDispatch, Delivered, Settled, Trap, Trapped, frames, driverVars
<1>2. InDispatch /\ mark.ip \in DOMAIN image.code
  BY <1>1, InFlightFacts
<1>3. resp.val = image.rom[DispatchAddr(Arg.a)]
  <2>1. AsksFor /\ Answers
    BY <1>1, AnswerFacts DEF NoResp, Response
  <2>2. QED
    BY <1>1, <1>2, <2>1 DEF AsksFor, Answers, DeviceMoves, InDispatch
<1>4. CASE phase' = "Done"
  BY <1>1, <1>4, DoneProgress
<1>5. CASE phase' # "Done"
  <2>1. Stays(fr, Records)'
    BY <1>1, <1>2, RecordsKept DEF InDispatch, Unmoved, Stays
  <2>2. \E k \in DOMAIN image.rom[DispatchAddr(Arg.a)].targets :
          ip' = image.rom[DispatchAddr(Arg.a)].targets[k]
    BY <1>1, <1>3, <1>5
  <2>3. ReachDispatch(ip, fr, Records)'
    BY <1>1, <1>2, <2>1, <2>2, StepNames DEF ReachDispatch, InDispatch, DispatchAddr
  <2>4. Arrived'
    BY <1>1, <1>2, <2>3 DEF Arrived, Reach, InDispatch
  <2>5. QED
    BY <1>1, <1>2, <1>5, <2>4 DEF Progress, Busy, Signal
<1>6. QED
  BY <1>4, <1>5

-----------------------------------------------------------------------------
(* The driver's side. *)

\* A push that is acknowledged is on the return stack.
LEMMA ServePushProgress ==
  ASSUME ControlInv, Running, ServePush, Running'
  PROVE  Progress'
<1>1. /\ event.type = "Request" /\ event.kind = "StackPush"
      /\ UNCHANGED <<image, mark, ip, fr, frStack, phase, ops, pending, event>>
      /\ \/ /\ stack' = PushOn(stack, event.val) /\ resp'.kind = "Ok"
         \/ /\ stack' = stack /\ resp'.kind # "Ok"
  BY DEF ServePush, Asked, Deliver, Finish, Running, NoResult, regs, frames, ctl, Response
<1>2. phase = "Execute" /\ pending.kind \in {"Push", "PushFrame"} /\ event # Busy
  BY <1>1, ControlFacts DEF RunInv, TypeOK, EventOK, AsksFor, Request, Busy, Signal,
     DeviceMoves
<1>3. InPush /\ mark.ip \in DOMAIN image.code
  BY <1>2, InFlightFacts
<1>4. resp.kind # "Ok"
  BY DEF ServePush, Asked, NoResp, Response
<1>5. mark.calls = RecordsOf(stack, frStack, FramesOn) /\ event.val = After
  BY <1>3, <1>4, RecordsAre DEF InPush
<1>6. Calling'
  BY <1>1, <1>3, StepNames DEF InPush, Calling
<1>7. CASE stack' = PushOn(stack, event.val) /\ resp'.kind = "Ok"
  <2>1. stack \in Seq(Nat) /\ After \in Nat
    BY <1>2, <1>5, ControlFacts DEF RunInv, EventOK, AsksFor, DeviceMoves
  <2>2. PopOff(stack') = stack /\ TopOf(stack') = After /\ stack' # <<>>
    BY <1>5, <1>7, <2>1, StackEnds, AppendProperties DEF PushOn
  <2>3. Pushed'
    BY <1>1, <1>5, <2>2, StepNames DEF Pushed, FramesOn, TopOf, PopOff
  <2>4. InPush'
    BY <1>1, <1>3, <1>6, <1>7, <2>3, StepNames DEF InPush
  <2>5. QED
    BY <1>1, <1>2, <1>3, <2>4 DEF Progress, InFlightOK, Busy, Signal
<1>8. CASE stack' = stack /\ resp'.kind # "Ok"
  <2>1. InPush'
    BY <1>1, <1>3, <1>4, <1>6, <1>8, StepNames, RecordsKept DEF InPush
  <2>2. QED
    BY <1>1, <1>2, <1>3, <2>1 DEF Progress, InFlightOK, Busy, Signal
<1>9. QED
  BY <1>1, <1>7, <1>8

\* A popped address is off the return stack.
LEMMA ServePopProgress ==
  ASSUME ControlInv, Running, ServePop, Running'
  PROVE  Progress'
<1>1. /\ event.type = "Request" /\ event.kind = "StackPop"
      /\ UNCHANGED <<image, mark, ip, fr, frStack, phase, ops, pending, event>>
      /\ \/ /\ stack # <<>> /\ stack' = PopOff(stack)
            /\ resp' = Response("Value", TopOf(stack))
         \/ /\ stack' = stack /\ resp'.kind # "Value"
  BY DEF ServePop, Asked, Deliver, Finish, Running, NoResult, regs, frames, ctl, Response
<1>2. phase = "Execute" /\ pending.kind \in {"Pop", "PopPair"} /\ event # Busy
  BY <1>1, ControlFacts DEF RunInv, TypeOK, EventOK, AsksFor, Request, Busy, Signal,
     DeviceMoves
<1>3. InReturn /\ mark.ip \in DOMAIN image.code
  BY <1>2, InFlightFacts
<1>4. resp.kind # "Value"
  BY DEF ServePop, Asked, NoResp, Response
<1>5. mark.calls = RecordsOf(stack, frStack, FramesOn)
  BY <1>3, <1>4, RecordsAre DEF InReturn
<1>6. Exiting'
  BY <1>1, <1>3, StepNames DEF InReturn, Exiting
<1>7. CASE /\ stack # <<>> /\ stack' = PopOff(stack)
           /\ resp' = Response("Value", TopOf(stack))
  <2>1. Append(stack', resp'.val) = stack /\ resp'.kind = "Value"
    BY <1>7, ControlFacts, StackEnds DEF Response
  <2>2. Popped'
    BY <1>1, <1>5, <2>1 DEF Popped, FramesOn
  <2>3. InReturn'
    BY <1>1, <1>3, <1>6, <2>1, <2>2 DEF InReturn
  <2>4. QED
    BY <1>1, <1>2, <1>3, <2>3 DEF Progress, InFlightOK, Busy, Signal
<1>8. CASE stack' = stack /\ resp'.kind # "Value"
  <2>1. InReturn'
    BY <1>1, <1>3, <1>4, <1>6, <1>8, RecordsKept DEF InReturn
  <2>2. QED
    BY <1>1, <1>2, <1>3, <2>1 DEF Progress, InFlightOK, Busy, Signal
<1>9. QED
  BY <1>1, <1>7, <1>8

\* The other transactions, the loading step and a stutter change nothing that
\* the progress speaks of.
LEMMA QuietProgress ==
  ASSUME ControlInv, Running,
         (Serve /\ ~ServePush /\ ~ServePop) \/ Load \/ UNCHANGED vars
  PROVE  Progress'
<1>1. UNCHANGED <<image, mark, ip, instrStart, fr, frStack, phase, ops, pending, event,
                  stack>>
  BY DEF Serve, ServeCode, ServeMove, ServeRead, ServeWrite, ServeNoDevice, ServeTable,
     ServeFrame, ServeRom, Deliver, Load, vars, coreVars, driverVars, regs, frames, ctl,
     ports
<1>2. CASE Load \/ UNCHANGED vars
  <2>1. resp' = resp
    BY <1>2 DEF Load, vars, coreVars, ports
  <2>2. QED
    BY <1>1, <2>1, ProgressKept
<1>3. CASE Serve /\ ~ServePush /\ ~ServePop
  <2>1. event.type = "Request" /\ event.kind \notin {"StackPush", "StackPop"}
    BY <1>3 DEF Serve, ServeCode, ServeMove, ServeRead, ServeWrite, ServeNoDevice,
       ServeTable, ServeFrame, ServeRom, Asked
  <2>2. pending.kind \notin {"Push", "PushFrame", "Pop", "PopPair"}
    BY <2>1, ControlFacts DEF RunInv, TypeOK, EventOK, AsksFor, Request, Busy, Signal,
       NoPend, Pend
  <2>3. QED
    BY <1>1, <2>2, ProgressKept
<1>4. QED
  BY <1>2, <1>3

\* At the boundary the step is on record and the next one not begun.
LEMMA AccountProgress ==
  ASSUME ControlInv, Account, Running'
  PROVE  Progress'
<1>1. /\ event.type \in {"Step", "Break"} /\ event' = Signal("Boundary")
      /\ mark' = [ip |-> ip, fr |-> fr, calls |-> Records]
      /\ UNCHANGED <<image, ip, fr, phase, stack, frStack>>
  BY DEF Account, Finish, Running, NoResult, regs, frames, ctl
<1>2. phase = "StepAck"
  BY <1>1, ControlFacts DEF RunInv, TypeOK, EventOK, Request, Busy, Signal
<1>3. mark'.ip = ip' /\ mark'.fr = fr' /\ mark'.calls = Records'
  BY <1>1, RecordsKept
<1>4. QED
  BY <1>1, <1>2, <1>3 DEF Progress, Unmoved, Stays, Signal

\* The core's part of a step keeps the progress.
LEMMA ResumeProgress ==
  ASSUME ControlInv, Running, Resume
  PROVE  Progress'
<1>1. CoreStep /\ UNCHANGED driverVars
  BY DEF Resume
<1>2. CASE FetchOpcode \/ FetchOperand
  BY <1>1, <1>2, FetchProgress
<1>3. CASE Settle
  BY <1>1, <1>3, SettleTrapProgress, SettleDataProgress, EntCheckProgress, PushProgress,
     PushFrameProgress, ComposeProgress, LoadProgress, PopProgress, DispatchProgress
     DEF Settle
<1>4. CASE IssueOp
  BY <1>1, <1>4, IssueDataProgress, IssueReadAllProgress, IssueEndProgress,
     IssueJumpProgress, IssueTransferProgress
     DEF IssueOp
<1>5. CASE Retire
  BY <1>1, <1>5, RetireProgress
<1>6. QED
  BY <1>1, <1>2, <1>3, <1>4, <1>5 DEF CoreStep

\* Nothing restarts a run that ended, and End ends it.
LEMMA RunningBefore ==
  ASSUME [Next]_vars
  PROVE  (Running' => Running) /\ (End => ~Running')
BY DEF Next, Load, Begin, Serve, ServeCode, ServePush, ServePop, ServeMove, ServeRead,
   ServeWrite, ServeNoDevice, ServeTable, ServeFrame, ServeRom, Asked, Resume, Account,
   End, Finish, driverVars, vars, Running, NoResult

\* Every step keeps the progress, or ends the run.
LEMMA StepProgress ==
  ASSUME ControlInv, [Next]_vars, Running'
  PROVE  Progress'
<1>1. Running /\ ~End
  BY RunningBefore
<1>2. QED
  BY <1>1, QuietProgress, ServePushProgress, ServePopProgress, BeginProgress,
     ResumeProgress, AccountProgress DEF Next

-----------------------------------------------------------------------------
(* Outside the frames profile no frame is ever set or looked for.            *)

\* The pending kinds of the frames profile are issued under it only.
LEMMA ProfiledKept ==
  ASSUME ControlInv, [Next]_vars
  PROVE  Profiled'
<1>1. image' = image
  BY DEF Next, Load, Begin, Start, Serve, ServeCode, ServePush, ServePop, ServeMove,
     ServeRead, ServeWrite, ServeNoDevice, ServeTable, ServeFrame, ServeRom, Deliver,
     Account, End, Resume, CoreStep, FetchOpcode, FetchOperand, Settle, SettleDone,
     SettleFault, SettleLatch, SettleRead, SettleEntCheck, SettlePush,
     SettleStackFull, SettlePushFrame, SettleCompose, SettleDirectory,
     SettleFrameLoad, SettleOutOfTable, SettlePop, SettlePopPair, SettleStackEmpty,
     SettleMatch, SettleDispatch, IssueOp, IssueNop, IssueBrk, IssueEnd, IssueRaise,
     IssueMove, IssueWrite, IssueLatch, IssueRead, IssueReadAll, IssueJump,
     IssueFallThrough, IssueCall, IssueRet, IssueRetX, IssueProfileViolation,
     IssueMatch, IssueDispatch, Retire, coreVars, vars
<1>2. SUFFICES ASSUME ~FramesOn, fr = 0, pending.kind \notin Framing
               PROVE  fr' = 0 /\ pending'.kind \notin Framing
  BY <1>1 DEF ControlInv, Profiled, FramesOn
<1>3. CASE Load \/ Begin \/ Serve \/ Account \/ End \/ UNCHANGED vars
  <2>1. UNCHANGED <<fr, pending>>
    BY <1>3 DEF Load, Begin, Start, Serve, ServeCode, ServePush, ServePop, ServeMove,
       ServeRead, ServeWrite, ServeNoDevice, ServeTable, ServeFrame, ServeRom, Deliver,
       Account, End, frames, ctl, coreVars, vars
  <2>2. QED
    BY <1>2, <2>1
<1>4. CASE FetchOpcode \/ FetchOperand \/ Retire
  <2>1. fr' = fr /\ (pending' = pending \/ pending' = NoPend)
    BY <1>4 DEF FetchOpcode, FetchOperand, FinishFetch, Retire, Trap, Ask, frames
  <2>2. QED
    BY <1>2, <2>1 DEF NoPend, Pend, Framing
<1>5. CASE Settle
  <2>1. ~(SettlePushFrame \/ SettleCompose \/ SettleDirectory \/ SettleFrameLoad
          \/ SettlePopPair)
    BY <1>2 DEF SettlePushFrame, SettleCompose, SettleDirectory, SettleFrameLoad,
       SettlePopPair, Delivered, Framing
  <2>2. SettleEntCheck => pending'.kind \in {"Push", pending.kind}
    BY <1>2 DEF SettleEntCheck, Ask, Pend, Framing
  <2>3. fr' = fr /\ (pending'.kind \in {"Push", pending.kind} \/ pending' = NoPend)
    BY <1>5, <2>1, <2>2 DEF Settle, SettleDone, SettleFault, SettleLatch, SettleRead,
       SettleEntCheck, SettlePush, SettleStackFull, SettleOutOfTable, SettlePop,
       SettleStackEmpty, SettleMatch, SettleDispatch, Settled, Trap, frames
  <2>4. QED
    BY <1>2, <2>3 DEF NoPend, Pend, Framing
<1>6. CASE IssueOp
  <2>1. ~IssueRetX /\ (IssueCall => pending'.kind \in {"EntCheck", pending.kind})
    BY <1>2 DEF IssueRetX, IssueCall, Due, Issue, IssueTrap, Ask, Trap, Pend
  <2>2. fr' = fr
    BY <1>6 DEF IssueOp, IssueNop, IssueBrk, IssueEnd, IssueRaise, IssueMove, IssueWrite,
       IssueLatch, IssueRead, IssueReadAll, IssueJump, IssueFallThrough, IssueCall,
       IssueRet, IssueRetX, IssueProfileViolation, IssueMatch, IssueDispatch, frames
  <2>3. pending'.kind \in {"Move", "Write", "Latch", "ReadSlot", "Pop", "Match",
                           "Dispatch", "EntCheck", pending.kind}
    BY <1>2, <1>6, <2>1 DEF IssueOp, IssueNop, IssueBrk, IssueEnd, IssueRaise, IssueMove,
       IssueWrite, IssueLatch, IssueRead, IssueReadAll, IssueJump, IssueFallThrough,
       IssueRet, IssueProfileViolation, IssueMatch, IssueDispatch, Issue, IssueTrap,
       Continue, Ask, Trap, Pend
  <2>4. QED
    BY <1>2, <2>2, <2>3 DEF Framing
<1>7. QED
  BY <1>3, <1>4, <1>5, <1>6 DEF Next, Resume, CoreStep

-----------------------------------------------------------------------------
(* ControlInv is inductive. *)

\* It holds when a run starts.
LEMMA ControlStart == Init => ControlInv
<1>1. Init => StackInv /\ CacheInv
  <2>1. Init => RunInv /\ CacheInv
    BY InitOK, CacheStart
  <2>2. Init => StacksInStep /\ pending.kind # "Pop"
    BY DEF Init, CoreInit, DriverInit, StacksInStep, PushInFlight, PopInFlight, NoPend,
       Pend, NoResp, Response
  <2>3. QED
    BY <2>1, <2>2 DEF StackInv
<1>2. Init => Profiled
  BY DEF Init, CoreInit, Profiled, NoPend, Pend, Framing
<1>3. Init => Progress
  <2>1. Init => Len(stack) = 0 /\ stack = <<>>
    BY DEF Init, DriverInit
  <2>2. Init => Records = <<>>
    BY <2>1 DEF Records
  <2>3. Init => /\ mark = [ip |-> image.entry, fr |-> 0, calls |-> <<>>]
                /\ ip = image.entry /\ fr = 0
                /\ phase = "FetchOpcode" /\ event.type = "Boundary"
    BY DEF Init, CoreInit, DriverInit, Signal
  <2>4. QED
    BY <2>2, <2>3 DEF Progress, Unmoved, Stays
<1>4. QED
  BY <1>1, <1>2, <1>3 DEF ControlInv

\* And every step keeps it.
LEMMA ControlStep == ControlInv /\ [Next]_vars => ControlInv'
<1>1. SUFFICES ASSUME ControlInv, [Next]_vars
               PROVE  ControlInv'
  OBVIOUS
<1>2. StackInv'
  BY <1>1, CoreQuiet, CorePaired, ServePaired, ServeQuiet, BoundaryQuiet
     DEF ControlInv, Next, Resume
<1>3. CacheInv'
  BY <1>1, CacheStep DEF ControlInv
<1>4. Profiled' /\ (Running' => Progress')
  BY <1>1, ProfiledKept, StepProgress
<1>5. QED
  BY <1>2, <1>3, <1>4 DEF ControlInv

-----------------------------------------------------------------------------
(* From boundary to boundary a run takes the steps of Isa.                   *)

\* An instruction of one operation does that operation and no other.
LEMMA OnlyDoes ==
  ASSUME NEW name, Only(name), Here.ops \in Seq(MicroOps)
  PROVE  /\ Abstract!Does(name) /\ Abstract!Operand = Arg
         /\ \A other : Abstract!Does(other) => other = name
         /\ name \in {"JumpRel", "JumpRelIf"} => Arg.a \in Abstract!Branch
<1>1. Abstract!Cell = Here /\ DOMAIN Here.ops = {1} /\ Here.ops[1].op = name
  BY DEF Abstract!Cell, Here, Only, Arg
<1>2. QED
  BY <1>1 DEF Abstract!Does, Abstract!Operand, Abstract!Branch, Arg

\* Where Reach leads, Isa leads.
LEMMA ReachIsIsa ==
  ASSUME ControlInv, image' = image, Reach(mark'.ip, mark'.fr, mark'.calls)
  PROVE  Abstract!IsaNext
<1> DEFINE at == mark'.ip
           f  == mark'.fr
           cs == mark'.calls
<1>1. mark.ip \in DOMAIN image.code /\ Here.ops \in Seq(MicroOps)
  BY ControlFacts DEF Reach, Here, RunInv, TypeOK, WellFormed, CodeCells
<1>2. /\ Abstract!Cell = Here /\ Abstract!End = After /\ Abstract!Top = TopCall
      /\ Abstract!Pop = Left
  BY DEF Abstract!Cell, Abstract!End, Abstract!Top, Abstract!Pop, Here, After, TopCall,
     Left
<1>3. ASSUME ReachPlain(at, f, cs) PROVE Abstract!Plain
  <2>1. f = mark.fr /\ cs = mark.calls
    BY <1>3 DEF ReachPlain, Stays
  <2>2. CASE StraightLine /\ at = After
    <3>1. \A name \in Transfers : ~Abstract!Does(name)
      BY <1>2, <2>2 DEF StraightLine, Straights, Abstract!Does
    <3>2. {"Call", "CallFrame", "Ret", "RetX", "DispatchJump"} \subseteq Transfers
      BY DEF Transfers, Displaced
    <3>3. ~\E name \in {"Call", "CallFrame", "Ret", "RetX", "DispatchJump"} :
             Abstract!Does(name)
      BY <3>1, <3>2
    <3>4. QED
      BY <1>2, <2>1, <2>2, <3>3 DEF Abstract!Plain
  <2>3. CASE (Only("JumpRel") \/ Only("JumpRelIf")) /\ at \in {After, After + Arg.a}
    <3>1. \A name \in {"Call", "CallFrame", "Ret", "RetX", "DispatchJump"} :
            ~Abstract!Does(name)
      BY <1>1, <2>3, OnlyDoes
    <3>2. Arg.a \in Abstract!Branch
      BY <1>1, <2>3, OnlyDoes
    <3>3. QED
      BY <1>2, <2>1, <2>3, <3>1, <3>2 DEF Abstract!Plain
  <2>4. QED
    BY <1>3, <2>2, <2>3 DEF ReachPlain
<1>4. ASSUME ReachDispatch(at, f, cs) PROVE Abstract!Dispatch
  <2>1. Only("DispatchJump") /\ f = mark.fr /\ cs = mark.calls
    BY <1>4 DEF ReachDispatch, Stays
  <2>2. Abstract!Does("DispatchJump") /\ Abstract!Operand = Arg
    BY <1>1, <2>1, OnlyDoes
  <2>3. QED
    BY <1>4, <2>1, <2>2 DEF ReachDispatch, Abstract!Dispatch, DispatchAddr
<1>5. ASSUME ReachCall(at, f, cs) PROVE Abstract!Call \/ Abstract!CallFrame
  <2>1. at = After + Arg.a /\ cs = Append(mark.calls, [ret |-> After, frame |-> mark.fr])
    BY <1>5 DEF ReachCall, Called
  <2>2. CASE Only("Call") /\ f = mark.fr
    <3>1. Abstract!Does("Call") /\ Abstract!Operand = Arg
      BY <1>1, <2>2, OnlyDoes
    <3>2. QED
      BY <1>2, <2>1, <2>2, <3>1 DEF Abstract!Call
  <2>3. CASE /\ Only("CallFrame") /\ f = Composite
             /\ Arg.b < image.sites /\ Composite \in 1..image.composites
    <3>1. Abstract!Does("CallFrame") /\ Abstract!Operand = Arg
      BY <1>1, <2>3, OnlyDoes
    <3>2. QED
      BY <1>2, <2>1, <2>3, <3>1 DEF Abstract!CallFrame, Composite, ComposeAddr
  <2>4. QED
    BY <1>5, <2>2, <2>3 DEF ReachCall
<1>6. ASSUME ReachReturn(at, f, cs) PROVE Abstract!Ret \/ Abstract!RetX
  <2>1. mark.calls # <<>> /\ f = TopCall.frame /\ cs = Left
    BY <1>6 DEF ReachReturn
  <2>2. CASE Only("Ret") /\ at = TopCall.ret
    <3>1. Abstract!Does("Ret")
      BY <1>1, <2>2, OnlyDoes
    <3>2. QED
      BY <1>2, <2>1, <2>2, <3>1 DEF Abstract!Ret
  <2>3. CASE /\ Only("RetX") /\ mark.fr # 0
             /\ Arg.a + 1 \in DOMAIN Exits /\ at = Exits[Arg.a + 1]
    <3>1. Abstract!Does("RetX") /\ Abstract!Operand = Arg
      BY <1>1, <2>3, OnlyDoes
    <3>2. Exits = Abstract!Descriptor(mark.fr).exits
      BY <2>3 DEF Exits, DescriptorOf, DescriptorAddr, DirectoryAddr,
         Abstract!Descriptor
    <3>3. QED
      BY <1>2, <2>1, <2>3, <3>1, <3>2 DEF Abstract!RetX
  <2>4. QED
    BY <1>6, <2>2, <2>3 DEF ReachReturn
<1>7. QED
  BY <1>1, <1>3, <1>4, <1>5, <1>6 DEF Reach, Abstract!IsaNext

\* Accounting for an instruction is a step of Isa; every other step is none.
LEMMA IsaStep ==
  ASSUME ControlInv, [Next]_vars
  PROVE  [Abstract!IsaNext]_(Abstract!isaVars)
<1>1. CASE Account
  <2>1. /\ event.type \in {"Step", "Break"} /\ Running /\ image' = image
        /\ mark'.ip = ip /\ mark'.fr = fr /\ mark'.calls = Records
    BY <1>1 DEF Account
  <2>2. Reach(mark'.ip, mark'.fr, mark'.calls)
    BY <2>1 DEF ControlInv, Progress
  <2>3. QED
    BY <2>1, <2>2, ReachIsIsa
<1>2. CASE ~Account
  <2>1. UNCHANGED <<image, mark>>
    BY <1>2 DEF Next, Load, Begin, Start, Serve, ServeCode, ServePush, ServePop,
       ServeMove, ServeRead, ServeWrite, ServeNoDevice, ServeTable, ServeFrame, ServeRom,
       Deliver, End, Resume, CoreStep, FetchOpcode, FetchOperand, Settle, SettleDone,
       SettleFault, SettleLatch, SettleRead, SettleEntCheck, SettlePush,
       SettleStackFull, SettlePushFrame, SettleCompose, SettleDirectory,
       SettleFrameLoad, SettleOutOfTable, SettlePop, SettlePopPair, SettleStackEmpty,
       SettleMatch, SettleDispatch, IssueOp, IssueNop, IssueBrk, IssueEnd, IssueRaise,
       IssueMove, IssueWrite, IssueLatch, IssueRead, IssueReadAll, IssueJump,
       IssueFallThrough, IssueCall, IssueRet, IssueRetX, IssueProfileViolation,
       IssueMatch, IssueDispatch, Retire, coreVars, driverVars, vars
  <2>2. QED
    BY <2>1 DEF Abstract!isaVars
<1>3. QED
  BY <1>1, <1>2

\* A run takes the steps the instruction set promises: whatever the image, the
\* tapes, the capacity of the stack and the limits, its successive instruction
\* boundaries are a behaviour of Isa, with one call stack and no cached frame.
THEOREM InstructionsRefined == Spec => RefinesIsa
<1>1. Init => Abstract!IsaInit
  BY DEF Init, DriverInit, Abstract!IsaInit
<1>2. ControlInv /\ [Next]_vars => [Abstract!IsaNext]_(Abstract!isaVars)
  BY IsaStep
<1>3. QED
  BY <1>1, <1>2, ControlStart, ControlStep, PTL DEF Spec, RefinesIsa, Abstract!IsaSpec

=============================================================================
