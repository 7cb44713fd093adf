--------------------------------- MODULE Driver ---------------------------------
(*****************************************************************************)
(* A synchronous run: Machine::run and run_tapes (vm/machine.rs) over the    *)
(* serving loop of vm/driver.rs.  The driver answers every bus request of    *)
(* the core from the code image, the return stack, the tapes and the table   *)
(* ROM, prices successful transactions, and stops the run at its limits.     *)
(* One action is one bus transaction or one instruction boundary.            *)
(*****************************************************************************)
EXTENDS Core, Tape, FiniteSets

CONSTANTS
  Limits,       \* the RunLimits a run may be started with
  Capacity,     \* capacity of the return stack
  Devices,      \* number of tapes attached to the machine
  InitTapes,    \* the tapes a device may start with
  Cost          \* TactProfile: model cost per kind of transaction

NoLimit == -1

ASSUME DriverAssumption ==
  /\ Capacity \in Nat
  /\ Devices \in Nat
  /\ InitTapes \subseteq Tapes
  /\ Cost \in [{"move", "read", "write", "table", "frame"} -> Nat]
  /\ \A l \in Limits : /\ l.steps \in Nat \cup {NoLimit}
                       /\ l.tacts \in Nat \cup {NoLimit}

VARIABLES
  limits,       \* the limits of this run
  loaded,       \* there is no loading step to do, or it is done
  stack,        \* the return addresses, top last
  tapes,        \* the tape of each device
  stats,        \* steps, core tacts and stall tacts so far
  result,       \* how the run ended
  mark          \* history: control state at the last instruction boundary

driverVars == <<limits, loaded, stack, tapes, stats, result, mark>>
vars == <<coreVars, driverVars>>

NoResult == [outcome |-> "Running"]
Running  == result = NoResult

Total(s)     == s.core + s.stall
OverTactsLate(s) == limits.tacts # NoLimit /\ Total(s) > limits.tacts   \* mutant
OverTacts(s) == limits.tacts # NoLimit /\ Total(s) >= limits.tacts
OverSteps(s) == limits.steps # NoLimit /\ s.steps >= limits.steps

CoreTact(n)  == [stats EXCEPT !.core = @ + n]
StallTact(n) == [stats EXCEPT !.stall = @ + n]

StackRoomPastEnd == Len(stack) <= Capacity                         \* mutant
StackRoom        == Len(stack) < Capacity

\* Activation records: a return address with the FR half pushed beside it.
Records ==
  [i \in 1..Len(stack) |->
     [ret |-> stack[i], frame |-> IF FramesOn THEN frStack[i] ELSE 0]]

DriverInit ==
  /\ limits \in Limits
  /\ loaded = ~image.preload
  /\ stack = <<>>
  /\ tapes \in [0..Devices-1 -> InitTapes]
  /\ stats = [steps |-> 0, core |-> 0, stall |-> 0]
  /\ result = NoResult
  /\ mark = [ip |-> image.entry, fr |-> 0, calls |-> <<>>]

Init == CoreInit /\ DriverInit

\* The run ends; the core is not resumed again.
Finish(outcome, at) ==
  result' = [outcome |-> outcome, at |-> at, ip |-> instrStart,
             stack |-> stack', stats |-> stats']

-----------------------------------------------------------------------------

\* The loading step of run(): MF is latched from the mark of device 0 and no
\* tact is spent.  run_tapes() has none and starts with MR 0.
Load ==
  /\ Running /\ ~loaded
  /\ loaded' = TRUE
  /\ mr' = IF TapeRead(tapes[0]) = 1 THEN 1 ELSE 0
  /\ UNCHANGED <<image, ip, instrStart, tr, trLen, frames, ctl, ports,
                 limits, stack, tapes, stats, result, mark>>

Begin ==
  /\ Running /\ loaded
  /\ Start
  /\ UNCHANGED driverVars

\* The response is delivered unless the transaction spent the last tact.
Deliver(r) ==
  /\ IF OverTacts(stats')
     THEN Finish("TactLimit", 0) /\ resp' = NoResp
     ELSE resp' = r /\ UNCHANGED result
  /\ UNCHANGED <<image, regs, frames, ctl, event, limits, loaded, mark>>

Asked(kind) == Running /\ event.type = "Request" /\ event.kind = kind
               /\ resp = NoResp

ServeCode ==
  /\ Asked("CodeRead")
  /\ UNCHANGED <<stack, tapes>>
  /\ IF event.val \in DOMAIN image.code
     THEN /\ stats' = CoreTact(1)
          /\ Deliver(Response("Byte", image.code[event.val]))
     ELSE /\ stats' = stats
          /\ Deliver(Response("OutOfCode", 0))

ServePush ==
  /\ Asked("StackPush")
  /\ IF StackRoom
     THEN /\ stack' = PushOn(stack, event.val)
          /\ stats' = CoreTact(1)
          /\ Deliver(Response("Ok", 0))
     ELSE /\ UNCHANGED <<stack, stats>>
          /\ Deliver(Response("StackFull", 0))
  /\ UNCHANGED tapes

ServePop ==
  /\ Asked("StackPop")
  /\ IF stack # <<>>
     THEN /\ stack' = PopOff(stack)
          /\ stats' = CoreTact(1)
          /\ Deliver(Response("Value", TopOf(stack)))
     ELSE /\ UNCHANGED <<stack, stats>>
          /\ Deliver(Response("StackEmpty", 0))
  /\ UNCHANGED tapes

ServeMove ==
  /\ Asked("DeviceMoveLeft") \/ Asked("DeviceMoveRight")
  /\ event.dev < Devices
  /\ UNCHANGED stack
  /\ stats' = StallTact(Cost["move"])
  /\ tapes' = [tapes EXCEPT ![event.dev] =
                 IF event.kind = "DeviceMoveLeft" THEN TapeLeft(@) ELSE TapeRight(@)]
  /\ Deliver(Response("Ok", 0))

ServeRead ==
  /\ Asked("DeviceRead")
  /\ event.dev < Devices
  /\ UNCHANGED <<stack, tapes>>
  /\ stats' = StallTact(Cost["read"])
  /\ Deliver(Response("Symbol", TapeRead(tapes[event.dev])))

\* A write that faults is not priced.
ServeWrite ==
  /\ Asked("DeviceWrite")
  /\ event.dev < Devices
  /\ UNCHANGED stack
  /\ LET fault == WriteFault(tapes[event.dev], event.val) IN
     IF fault = "none"
     THEN /\ tapes' = [tapes EXCEPT ![event.dev] = TapeWrite(@, event.val)]
          /\ stats' = StallTact(Cost["write"])
          /\ Deliver(Response("Ok", 0))
     ELSE /\ UNCHANGED <<tapes, stats>>
          /\ Deliver(Response("Fault", fault))

ServeNoDevice ==
  /\ \E kind \in {"DeviceMoveLeft", "DeviceMoveRight", "DeviceRead", "DeviceWrite"} :
       Asked(kind)
  /\ event.dev >= Devices
  /\ UNCHANGED <<stack, tapes, stats>>
  /\ Deliver(Response("Fault", "NoSuchDevice"))

ServeRom(kind, cost) ==
  /\ Asked(kind)
  /\ UNCHANGED <<stack, tapes>>
  /\ IF event.val \in DOMAIN image.rom
     THEN /\ stats' = StallTact(cost)
          /\ Deliver(Response("Byte", image.rom[event.val]))
     ELSE /\ UNCHANGED stats
          /\ Deliver(Response("OutOfTable", 0))

ServeTable == ServeRom("TableRead", Cost["table"])
ServeFrame == ServeRom("FrameRead", Cost["frame"])

Serve ==
  \/ ServeCode \/ ServePush \/ ServePop \/ ServeMove \/ ServeRead \/ ServeWrite
  \/ ServeNoDevice \/ ServeTable \/ ServeFrame

\* An instruction retired: it is counted, then the limits are consulted, the
\* step limit first.  A Break is an ordinary step to a run.
Account ==
  /\ Running /\ event.type \in {"Step", "Break"}
  /\ stats' = [CoreTact(1) EXCEPT !.steps = @ + 1]
  /\ UNCHANGED stack
  /\ mark' = [ip |-> ip, fr |-> fr, calls |-> Records]
  /\ IF OverSteps(stats')
     THEN Finish("StepLimit", 0) /\ UNCHANGED event
     ELSE IF OverTacts(stats')
     THEN Finish("TactLimit", 0) /\ UNCHANGED event
     ELSE event' = Signal("Boundary") /\ UNCHANGED result
  /\ UNCHANGED <<image, regs, frames, ctl, resp, limits, loaded, tapes>>

End ==
  /\ Running /\ event.type \in {"Stopped", "Halted", "Trapped"}
  /\ UNCHANGED <<stack, stats>>
  /\ IF event.type = "Trapped"
     THEN Finish(event.kind, event.val) ELSE Finish(event.type, 0)
  /\ UNCHANGED <<coreVars, limits, loaded, tapes, mark>>

Resume == CoreStep /\ UNCHANGED driverVars

-----------------------------------------------------------------------------
Next == Load \/ Begin \/ Serve \/ Resume \/ Account \/ End

Spec     == Init /\ [][Next]_vars
FairSpec == Spec /\ WF_vars(Next)


-----------------------------------------------------------------------------
(* Properties. *)

\* Every variable stays in its type, in every state of every run.
TypeOK ==
  /\ WellFormed(image)
  /\ ip \in Nat /\ instrStart \in Nat /\ mr \in Nat
  /\ DOMAIN tr = 0..MaxSlot-1 /\ trLen \in 0..MaxSlot
  /\ phase \in {"FetchOpcode", "FetchOperand", "Execute", "StepAck", "Done"}
  /\ brkPending \in BOOLEAN
  /\ fr \in Nat /\ frStack \in Seq(Nat)
  /\ limits \in Limits /\ loaded \in BOOLEAN
  /\ stack \in Seq(Nat) /\ Len(stack) <= Capacity
  /\ tapes \in [0..Devices-1 -> Tapes]
  /\ stats \in [steps : Nat, core : Nat, stall : Nat]

\* The bus acknowledged a push, or yielded a popped value, and the core has
\* not taken the response yet.
PushInFlight == pending.kind \in {"Push", "PushFrame"} /\ resp.kind = "Ok"
PopInFlight  == pending.kind = "PopPair" /\ resp.kind = "Value"

\* The core's FR stack "never drifts from the driver's stack" (the comment at
\* Core::fr_stack): while a frames-profile run goes on, both are equally
\* deep, except while an acknowledged push or pop is being delivered.
StacksInStep ==
  Running /\ FramesOn =>
    Len(frStack) = IF PushInFlight THEN Len(stack) - 1
                   ELSE IF PopInFlight THEN Len(stack) + 1
                   ELSE Len(stack)

\* What the image says the descriptor of a composite is.
DescriptorOf(composite) ==
  IF composite = 0 THEN NoDesc
  ELSE image.rom[DescriptorAddr(image.rom[DirectoryAddr(composite)])]

Loading == pending.kind \in {"DirectoryRead", "FrameLoad"}

\* The cached descriptor is the one the frame register names, whenever an
\* instruction can use it: framed calls, plain calls inside a frame, returns
\* that skip the reload and multi-exit returns all leave it current.
CacheCoherent ==
  phase # "Done" /\ ~Loading => cache = DescriptorOf(fr)

\* A device request issued inside a frame goes to a tape of that frame, and a
\* write carries a symbol that frame's write map yields for that tape.
FrameConfines ==
  event.type = "Request" /\ fr # 0 =>
    /\ event.kind \in {"DeviceMoveLeft", "DeviceMoveRight", "DeviceRead"} =>
         \E e \in DOMAIN DescriptorOf(fr).entries :
            DescriptorOf(fr).entries[e].phys = event.dev
    /\ event.kind = "DeviceWrite" =>
         \E e \in DOMAIN DescriptorOf(fr).entries :
            LET entry == DescriptorOf(fr).entries[e] IN
            /\ entry.phys = event.dev
            /\ entry.wmap # <<>> => \E i \in DOMAIN entry.wmap :
                                      entry.wmap[i] = event.val /\ event.val # Hole

\* Once a limit is reached nothing more is fetched, executed or written: a
\* run that goes on has steps and tacts to spare (docs/core.md, run limits).
WithinLimits ==
  Running =>
    /\ limits.steps # NoLimit /\ stats.steps > 0 => stats.steps < limits.steps
    /\ limits.tacts # NoLimit /\ Total(stats) > 0 => Total(stats) < limits.tacts

\* At every instruction boundary the run is where one step of the instruction
\* set, with its single call stack and uncached frames, leads.
Abstract == INSTANCE Isa WITH at <- mark.ip, frame <- mark.fr, calls <- mark.calls
RefinesIsa == Abstract!IsaSpec

\* A run with a limit ends: no instruction keeps the bus busy forever, and
\* every instruction costs tacts.
Limited    == limits.steps # NoLimit \/ limits.tacts # NoLimit
Terminates == Limited ~> ~Running

=============================================================================
