------------------------------ MODULE RadioProofs ------------------------------
(***************************************************************************)
(* Proofs about Radio, for any configurations, commands, packets and       *)
(* number of failures.  RadioInv is the inductive invariant that the rest  *)
(* stands on.  Three more are added to it one at a time: ClaimsHeld (which *)
(* claim each SetTx on its way belongs to), PacketInv (which packet each   *)
(* interrupt, buffer and fetch belongs to) and ParamsInv (which settings   *)
(* the chip holds at each command of an operation).                        *)
(***************************************************************************)
EXTENDS Radio, TLAPS

(* The commands of read_packet; none of them changes what the chip does.   *)
ReadCommands == {"GetIrq", "ClearStatus", "RxStatus", "ReadBuffer", "PacketStatus"}

(* A transfer that was cut is always behind the first command of the next  *)
(* operation.                                                              *)
CutAtStart == cut # None /\ pc \in Ops => step = 1 /\ pc # "fetch"

(* While the receiver is set up the interrupt mask is the one for packets. *)
MaskSet ==
  pc \in {"arm", "init_receive"} /\ step > 3 => chip.mask = {"RxDone", "CrcErr"}

(* Where the flag can be set: outside of every operation that leaves RX,   *)
(* and with nothing in a cut transfer that could leave it.                 *)
FlagWhere ==
  driver.in_continuous_rx =>
    /\ cut \in ReadCommands \cup {None}
    /\ \/ pc \in {"loop", "select", "read", "fetch"}
       \/ pc \in {"transmit", "configure"} /\ step = 1

RadioInv == TypeOK /\ CutAtStart /\ MaskSet /\ FlagTruthful /\ FlagWhere

-----------------------------------------------------------------------------
(* What the proofs need to know of a program.                              *)
Usable(p) ==
  /\ Len(Program[p]) \in Nat \ {0} /\ DOMAIN Program[p] = 1 .. Len(Program[p])
  /\ \A k \in DOMAIN Program[p] : Program[p][k] # None
  /\ p # "fetch" => Program[p][1] \in {"Standby", "GetIrq"}
  /\ p \in {"transmit", "configure"} => Program[p][1] = "Standby"
  /\ p \in {"arm", "init_receive"} =>
       /\ Len(Program[p]) = 5
       /\ Program[p][1] = "Standby" /\ Program[p][2] = "PacketParams"
       /\ Program[p][3] = "IrqRx" /\ Program[p][4] = "ClearIrq" /\ Program[p][5] = "SetRx"
  /\ p \notin {"arm", "init_receive"} =>
       \A k \in DOMAIN Program[p] : Program[p][k] # "SetRx"
  /\ p \in {"read", "fetch"} =>
       \A k \in DOMAIN Program[p] : Program[p][k] \in ReadCommands

LEMMA Programs ==
  ASSUME NEW p \in Ops
  PROVE  Usable(p)
<1>1. CASE p = "init"
  <2>1. Program[p] = init
    BY <1>1 DEF Program
  <2> QED BY <1>1, <2>1 DEF Usable, init, None
<1>2. CASE p \in {"configure", "init_configure"}
  <2>1. Program[p] = configure
    BY <1>2 DEF Program
  <2> QED BY <1>2, <2>1 DEF Usable, configure, None
<1>3. CASE p \in {"arm", "init_receive"}
  <2>1. Program[p] = start_receive_mode
    BY <1>3 DEF Program
  <2> QED BY <1>3, <2>1 DEF Usable, start_receive_mode, None
<1>4. CASE p = "transmit"
  <2>1. Program[p] = transmit
    BY <1>4 DEF Program
  <2> QED BY <1>4, <2>1 DEF Usable, transmit, None
<1>5. CASE p \in {"txdone", "read"}
  <2>1. Program[p] = <<"GetIrq", "ClearStatus">>
    BY <1>5 DEF Program, wait_tx_done, read_packet
  <2> QED BY <1>5, <2>1 DEF Usable, ReadCommands, None
<1>6. CASE p = "fetch"
  <2>1. Program[p] = FetchPacket
    BY <1>6 DEF Program
  <2> QED BY <1>6, <2>1 DEF Usable, FetchPacket, ReadCommands, None
<1> QED
  BY <1>1, <1>2, <1>3, <1>4, <1>5, <1>6 DEF Ops

-----------------------------------------------------------------------------
(* Every command leaves the chip well formed.                              *)
LEMMA ExecutedType ==
  ASSUME chip \in ChipStates, NEW command, NEW value \in Configs \cup {None}
  PROVE  Executed(command, value) \in ChipStates
<1>1. Write(chip.settings, command, value) \in [Settings -> Configs \cup {None}]
  BY DEF Write, ChipStates
<1> QED
  BY <1>1 DEF Executed, ChipStates, Irqs

(* The driver's own fields.                                                *)
LEMMA DriverType ==
  ASSUME driver \in DriverStates, target \in Configs, NEW command
  PROVE  Before(command) \in DriverStates /\ After(command) \in DriverStates
  BY DEF Before, After, DriverStates

(* The step after a command that went through.                             *)
LEMMA AdvanceType ==
  ASSUME TypeOK, pc \in Ops, Advance
  PROVE  /\ pc' \in Ops \cup {"loop", "select", "txwait"}
         /\ step' \in Nat /\ (pc' \in Ops => step' \in DOMAIN Program[pc'])
         /\ dispatcher' \in Configs /\ partial' \in BOOLEAN /\ published' \in Seq(Nat)
<1>1. CASE step < Len(Program[pc]) /\ pc' = pc /\ step' = step + 1
             /\ UNCHANGED <<dispatcher, partial, published>>
  BY <1>1, Programs DEF TypeOK, Usable
<1>2. CASE Return
  <2>1. pc' \in Ops \cup {"loop", "select", "txwait"} /\ step' = 1
    BY <1>2 DEF Return, Goto, Ops
  <2>2. pc' \in Ops => step' \in DOMAIN Program[pc']
    BY <2>1, Programs DEF Usable
  <2>3. dispatcher' \in Configs
    BY <1>2 DEF Return, TypeOK
  <2>4. partial' \in BOOLEAN
    BY <1>2, Zenon DEF Return, TypeOK
  <2>5. published' \in Seq(Nat)
    <3>1. Append(published, fetched) \in Seq(Nat)
      BY DEF TypeOK
    <3> QED BY <1>2, <3>1, Zenon DEF Return, TypeOK
  <2> QED BY <2>1, <2>2, <2>3, <2>4, <2>5
<1> QED
  BY <1>1, <1>2 DEF Advance

(* The state after reset().                                                *)
LEMMA RadioTypeInit == Init => TypeOK
<1>1. ResetChip \in ChipStates
  BY DEF ResetChip, ChipStates, Irqs
<1>2. 1 \in DOMAIN Program["init"] /\ "init" \in Ops
  BY Programs DEF Usable, Ops
<1>3. [initialised |-> FALSE, in_continuous_rx |-> FALSE, config |-> None] \in DriverStates
  BY DEF DriverStates
<1>4. <<>> \in Seq(Nat)
  OBVIOUS
<1> SUFFICES ASSUME Init PROVE TypeOK
  OBVIOUS
<1>5. chip \in ChipStates /\ driver \in DriverStates /\ published \in Seq(Nat)
  BY <1>1, <1>3, <1>4, Zenon DEF Init
<1>6. pc \in Ops /\ step \in DOMAIN Program[pc]
  BY <1>2, Zenon DEF Init
<1>7. partial \in BOOLEAN /\ overtook \subseteq Nat /\ misread \subseteq Nat
  BY DEF Init
<1> QED
  BY <1>5, <1>6, <1>7, RadioAssumption DEF Init, TypeOK

(* A step that only moves lora_task on.                                    *)
LEMMA GotoType ==
  ASSUME NEW place \in Ops \cup {"loop", "select", "txwait"}, Goto(place)
  PROVE  /\ pc' \in Ops \cup {"loop", "select", "txwait"}
         /\ step' \in Nat /\ (pc' \in Ops => step' \in DOMAIN Program[pc'])
  BY Programs DEF Goto, Usable

(* Every step keeps the types.                                             *)
LEMMA RadioTypeStep == TypeOK /\ [Next]_vars => TypeOK'
<1> SUFFICES ASSUME TypeOK, [Next]_vars PROVE TypeOK'
  OBVIOUS
<1>1. CASE Exchange
  <2>1. chip' \in ChipStates
    BY <1>1, ExecutedType DEF Exchange, ValueOf, TypeOK, DriverStates
  <2>2. driver' \in DriverStates
    BY <1>1, DriverType DEF Exchange, TypeOK
  <2>3. status' \subseteq Irqs /\ fetched' \in Nat /\ claims' \in Int
    BY <1>1 DEF Exchange, Local, Spend, TypeOK, ChipStates
  <2> QED
    BY <1>1, <2>1, <2>2, <2>3, AdvanceType DEF Exchange, TypeOK, bounds
<1>2. CASE Swallowed
  <2>1. chip' \in ChipStates
    BY <1>2, ExecutedType DEF Swallowed, TypeOK
  <2>2. driver' \in DriverStates
    BY <1>2, DriverType DEF Swallowed, TypeOK
  <2>3. status' \subseteq Irqs /\ claims' \in Int
    BY <1>2 DEF Swallowed, Spend, TypeOK
  <2>4. misread' \subseteq Nat
    BY <1>2 DEF Swallowed, TypeOK, ChipStates
  <2> QED
    BY <1>2, <2>1, <2>2, <2>3, <2>4, AdvanceType DEF Swallowed, TypeOK, bounds
<1>3. CASE Fails
  <2>1. driver' \in DriverStates
    BY <1>3, DriverType DEF Fails, TypeOK
  <2>2. Goto("select") \/ Goto("loop")
    BY <1>3 DEF Fails
  <2>3. partial' \in BOOLEAN
    BY <1>3 DEF Fails, TypeOK
  <2> QED
    BY <1>3, <2>1, <2>2, <2>3, GotoType DEF Fails, TypeOK
<1>4. CASE Arm \/ RxEvent \/ PollTimeout \/ TxEvent
  <2>1. \E place \in Ops \cup {"loop", "select", "txwait"} : Goto(place)
    BY <1>4 DEF Arm, RxEvent, PollTimeout, TxEvent, Ops
  <2>2. UNCHANGED <<chip, cut, driver, dispatcher, target, status, fetched, history, bounds>>
    BY <1>4 DEF Arm, RxEvent, PollTimeout, TxEvent
  <2> QED
    BY <2>1, <2>2, GotoType DEF TypeOK, history, bounds
<1>5. ASSUME NEW ok \in BOOLEAN, Receive(ok) PROVE TypeOK'
  <2>1. chip' \in ChipStates
    <3>1. PICK raised \in SUBSET Irqs :
            chip' = [chip EXCEPT !.packet = packets + 1,
                                 !.irqs = @ \cup (chip.mask \cap raised)]
      BY <1>5, Zenon DEF Receive, Irqs
    <3>2. packets + 1 \in Nat /\ chip.irqs \cup (chip.mask \cap raised) \in SUBSET Irqs
      BY DEF TypeOK, ChipStates
    <3> QED BY <3>1, <3>2 DEF TypeOK, ChipStates
  <2>2. corrupt' \subseteq Nat /\ packets' \in Nat
    BY <1>5 DEF Receive, TypeOK
  <2>3. overtook' \subseteq Nat
    BY <1>5 DEF Receive, TypeOK
  <2> QED
    BY <1>5, <2>1, <2>2, <2>3 DEF Receive, TypeOK, task
<1>6. CASE TxDone
  BY <1>6 DEF TxDone, TypeOK, ChipStates, Irqs, task, history, bounds
<1>7. CASE TxTimeout
  BY <1>7, GotoType DEF TxTimeout, TypeOK, history
<1>8. ASSUME NEW fits \in BOOLEAN, LoraTx(fits) PROVE TypeOK'
  <2>1. Goto("transmit") \/ Goto("loop")
    BY <1>8 DEF LoraTx
  <2> QED
    BY <1>8, <2>1, GotoType DEF LoraTx, TakeCommand, TypeOK, Ops
<1>9. ASSUME NEW config \in Configs, SetSpreadingFactor(config) PROVE TypeOK'
  BY <1>9, GotoType DEF SetSpreadingFactor, TakeCommand, TypeOK, Ops, history
<1>10. CASE OtherCommand
  BY <1>10, GotoType DEF OtherCommand, TakeCommand, TypeOK, history
<1>11. CASE UNCHANGED vars
  BY <1>11 DEF vars, TypeOK, task, history, bounds
<1> QED
  BY <1>1, <1>2, <1>3, <1>4, <1>5, <1>6, <1>7, <1>8, <1>9, <1>10, <1>11 DEF Next, TaskStep

(* lora_task is always at a command of its operation and the driver and    *)
(* the chip are well formed, whatever fails.                               *)
THEOREM RadioTypeCorrect == Spec => []TypeOK
  BY RadioTypeInit, RadioTypeStep, PTL DEF Spec

-----------------------------------------------------------------------------
(* A command of read_packet leaves the mode and the interrupt mask alone.  *)
LEMMA ReadKeeps ==
  ASSUME chip \in ChipStates, NEW command \in ReadCommands, NEW value
  PROVE  /\ Executed(command, value).mode = chip.mode
         /\ Executed(command, value).mask = chip.mask
  BY DEF ReadCommands, Executed, ChipStates, Settings, InitSettings, ConfigSettings

(* The flag after a command: kept, or set by SetRx.                        *)
LEMMA FlagAfter ==
  ASSUME driver \in DriverStates, NEW command
  PROVE  /\ After(command).in_continuous_rx =>
              command = "SetRx" \/ (command # "Standby" /\ driver.in_continuous_rx)
         /\ Before(command).in_continuous_rx =>
              command # "Standby" /\ driver.in_continuous_rx
  BY DEF After, Before, DriverStates

(* Where lora_task can be after a command of a read, and after SetRx.      *)
LEMMA AdvancePlaces ==
  ASSUME TypeOK, pc \in Ops, Advance
  PROVE  /\ pc \in {"read", "fetch"} => pc' \in {"read", "fetch", "loop"}
         /\ step' > 1 => pc' = pc /\ step' = step + 1 /\ step < Len(Program[pc])
         /\ pc \in {"arm", "init_receive"} /\ step = 5 => pc' \in {"select", "loop"}
<1>1. Usable(pc)
  BY Programs
<1>2. CASE step < Len(Program[pc]) /\ pc' = pc /\ step' = step + 1
  <2>1. pc \in {"arm", "init_receive"} => Len(Program[pc]) = 5
    BY <1>1 DEF Usable
  <2>2. ~(pc \in {"arm", "init_receive"} /\ step = 5)
    <3>1. step \in Nat /\ Len(Program[pc]) \in Nat
      BY <1>1 DEF TypeOK, Usable
    <3>2. ASSUME pc \in {"arm", "init_receive"}, step = 5 PROVE FALSE
      <4>1. step < Len(Program[pc]) /\ Len(Program[pc]) = 5
        BY <1>2, <2>1, <3>2
      <4> QED BY <3>1, <3>2, <4>1
    <3> QED BY <3>2
  <2> QED BY <1>2, <2>2
<1>3. CASE Return
  <2>1. step' = 1
    BY <1>3 DEF Return, Goto
  <2>2. pc \in {"read", "fetch"} => pc' \in {"fetch", "loop"}
    BY <1>3 DEF Return, Goto
  <2>3. pc \in {"arm", "init_receive"} => pc' \in {"select", "loop"}
    BY <1>3 DEF Return, Goto
  <2> QED BY <2>1, <2>2, <2>3
<1> QED
  BY <1>2, <1>3 DEF Advance

(* The state after reset().                                                *)
LEMMA RadioInvInit == Init => RadioInv
  BY RadioTypeInit DEF Init, RadioInv, CutAtStart, MaskSet, FlagTruthful, FlagWhere

(* Exchange: the flag survives the commands of a read only, and SetRx sets *)
(* it with the mask in place.                                              *)
LEMMA ExchangeInv ==
  ASSUME RadioInv, Exchange
  PROVE  CutAtStart' /\ MaskSet' /\ FlagTruthful' /\ FlagWhere'
<1>1. Usable(pc) /\ pc \in Ops /\ step \in DOMAIN Program[pc] /\ TypeOK /\ Advance
  BY Programs DEF Exchange, RadioInv, TypeOK
<1>2. cut = None /\ cut' = None /\ chip' = Executed(Current, ValueOf(Current))
      /\ driver' = After(Current)
  BY DEF Exchange
<1>3. chip \in ChipStates /\ driver \in DriverStates /\ step \in Nat
  BY <1>1 DEF TypeOK
<1>4. CutAtStart'
  BY <1>2 DEF CutAtStart
<1>5. MaskSet'
  <2> SUFFICES ASSUME pc' \in {"arm", "init_receive"}, step' > 3
               PROVE  chip'.mask = {"RxDone", "CrcErr"}
    BY DEF MaskSet
  <2>1. pc' = pc /\ step' = step + 1 /\ step < 5
    <3>1. step' > 1
      BY <1>1, AdvanceType
    <3> QED BY <1>1, <3>1, AdvancePlaces DEF Usable
  <2>2. CASE step = 3
    <3>1. Current = "IrqRx"
      BY <1>1, <2>1, <2>2 DEF Usable, Current
    <3> QED
      BY <1>2, <1>3, <3>1 DEF Executed, ChipStates, Settings, InitSettings, ConfigSettings
  <2>3. CASE step = 4
    <3>1. Current = "ClearIrq"
      BY <1>1, <2>1, <2>3 DEF Usable, Current
    <3>2. chip.mask = {"RxDone", "CrcErr"}
      BY <2>1, <2>3 DEF RadioInv, MaskSet
    <3> QED
      BY <1>2, <1>3, <3>1, <3>2
         DEF Executed, ChipStates, Settings, InitSettings, ConfigSettings
  <2> QED BY <1>3, <2>1, <2>2, <2>3
<1>6. FlagTruthful' /\ FlagWhere'
  <2> SUFFICES ASSUME driver'.in_continuous_rx
               PROVE  /\ chip'.mode = "rx" /\ chip'.mask = {"RxDone", "CrcErr"}
                      /\ pc' \in {"loop", "select", "read", "fetch"}
    BY <1>2 DEF FlagTruthful, FlagWhere
  <2>1. CASE Current = "SetRx"
    <3>1. pc \in {"arm", "init_receive"} /\ step = 5
      <4>1. pc \in {"arm", "init_receive"}
        BY <1>1, <2>1 DEF Usable, Current
      <4>2. step \in 1 .. 5
        BY <1>1, <4>1 DEF Usable
      <4> QED BY <1>1, <2>1, <4>1, <4>2 DEF Usable, Current
    <3>2. chip.mask = {"RxDone", "CrcErr"}
      BY <3>1 DEF RadioInv, MaskSet
    <3>3. chip'.mode = "rx" /\ chip'.mask = chip.mask
      BY <1>2, <1>3, <2>1, SMTT(30)
         DEF Executed, ChipStates, Settings, InitSettings, ConfigSettings
    <3> QED BY <1>1, <3>1, <3>2, <3>3, AdvancePlaces
  <2>2. CASE Current # "SetRx"
    <3>1. Current # "Standby" /\ driver.in_continuous_rx
      BY <1>2, <1>3, <2>2, FlagAfter
    <3>2. pc \in {"read", "fetch"}
      BY <1>1, <3>1 DEF RadioInv, FlagWhere, Usable, Current, Ops
    <3>3. Current \in ReadCommands
      BY <1>1, <3>2 DEF Usable, Current
    <3>4. chip'.mode = chip.mode /\ chip'.mask = chip.mask
      BY <1>2, <1>3, <3>3, ReadKeeps
    <3> QED
      BY <1>1, <3>1, <3>2, <3>4, AdvancePlaces DEF RadioInv, FlagTruthful
  <2> QED BY <2>1, <2>2
<1> QED BY <1>4, <1>5, <1>6

(* What a cut transfer swallows: the first command of an operation.        *)
LEMMA SwallowedFirst ==
  ASSUME RadioInv, Swallowed
  PROVE  step = 1 /\ pc \in Ops /\ Usable(pc) /\ Current \in {"Standby", "GetIrq"}
<1>1. pc \in Ops /\ step = 1 /\ pc # "fetch"
  BY DEF Swallowed, RadioInv, CutAtStart
<1> QED BY <1>1, Programs DEF Usable, Current

(* Swallowed: the driver's flag is dropped before the exchange, and in a   *)
(* read the chip executes nothing that stops the receiver.                 *)
LEMMA SwallowedInv ==
  ASSUME RadioInv, Swallowed
  PROVE  CutAtStart' /\ MaskSet' /\ FlagTruthful' /\ FlagWhere'
<1>1. step = 1 /\ pc \in Ops /\ Usable(pc) /\ Current \in {"Standby", "GetIrq"}
  BY SwallowedFirst
<1>2. TypeOK /\ Advance /\ cut # None /\ cut' = None /\ driver' = After(Current)
      /\ chip' \in {chip, Executed(cut, None)}
  BY DEF Swallowed, RadioInv
<1>3. chip \in ChipStates /\ driver \in DriverStates
  BY <1>2 DEF TypeOK
<1>4. MaskSet'
  <2>1. step' \in Nat /\ (step' > 1 => step' = 2)
    BY <1>1, <1>2, AdvanceType, AdvancePlaces
  <2> QED BY <2>1 DEF MaskSet
<1>5. FlagTruthful' /\ FlagWhere'
  <2> SUFFICES ASSUME driver'.in_continuous_rx
               PROVE  /\ chip'.mode = "rx" /\ chip'.mask = {"RxDone", "CrcErr"}
                      /\ pc' \in {"loop", "select", "read", "fetch"}
    BY <1>2 DEF FlagTruthful, FlagWhere
  <2>1. Current # "Standby" /\ driver.in_continuous_rx
    BY <1>1, <1>2, <1>3, FlagAfter
  <2>2. pc \in {"read", "fetch"} /\ cut \in ReadCommands
    BY <1>1, <1>2, <2>1 DEF RadioInv, FlagWhere, Usable, Current, Ops
  <2>3. chip'.mode = chip.mode /\ chip'.mask = chip.mask
    BY <1>2, <1>3, <2>2, ReadKeeps
  <2> QED
    BY <1>1, <1>2, <2>1, <2>2, <2>3, AdvancePlaces DEF RadioInv, FlagTruthful
<1> QED BY <1>2, <1>4, <1>5 DEF CutAtStart

(* Fails: what is left in a cut transfer while the flag is set belongs to  *)
(* a read.                                                                 *)
LEMMA FailsInv ==
  ASSUME RadioInv, Fails
  PROVE  CutAtStart' /\ MaskSet' /\ FlagTruthful' /\ FlagWhere'
<1>1. Usable(pc) /\ pc \in Ops /\ step \in DOMAIN Program[pc] /\ TypeOK
  BY Programs DEF Fails, RadioInv, TypeOK
<1>2. pc' \in {"select", "loop"} /\ chip' = chip /\ driver' = Before(Current)
      /\ cut' \in {cut, None, Current}
  BY DEF Fails, Goto
<1>3. CutAtStart' /\ MaskSet'
  BY <1>2 DEF CutAtStart, MaskSet, Ops
<1>4. FlagTruthful' /\ FlagWhere'
  <2> SUFFICES ASSUME driver'.in_continuous_rx
               PROVE  FlagTruthful' /\ FlagWhere'
    BY DEF FlagTruthful, FlagWhere
  <2>1. Current # "Standby" /\ driver.in_continuous_rx
    BY <1>1, <1>2, FlagAfter DEF TypeOK
  <2>2. pc \in {"read", "fetch"} /\ cut \in ReadCommands \cup {None}
    BY <1>1, <2>1 DEF RadioInv, FlagWhere, Usable, Current, Ops
  <2>3. Current \in ReadCommands
    BY <1>1, <2>2 DEF Usable, Current
  <2> QED
    BY <1>2, <2>1, <2>2, <2>3 DEF RadioInv, FlagTruthful, FlagWhere
<1> QED BY <1>3, <1>4

(* A step of lora_task that moves to an operation without a command: the   *)
(* operations that it enters with the flag set begin with SetStandby or    *)
(* are reads.                                                              *)
LEMMA GotoInv ==
  ASSUME RadioInv, NEW place, Goto(place), UNCHANGED <<chip, cut, driver>>, place # "fetch",
         driver.in_continuous_rx => place \in {"loop", "select", "read", "transmit", "configure"}
  PROVE  CutAtStart' /\ MaskSet' /\ FlagTruthful' /\ FlagWhere'
  BY DEF RadioInv, Goto, CutAtStart, MaskSet, FlagTruthful, FlagWhere

(* The invariant is inductive.                                             *)
LEMMA RadioInvStep == RadioInv /\ [Next]_vars => RadioInv'
<1> SUFFICES ASSUME RadioInv, [Next]_vars
             PROVE  CutAtStart' /\ MaskSet' /\ FlagTruthful' /\ FlagWhere'
  BY RadioTypeStep DEF RadioInv
<1>1. CASE Exchange
  BY <1>1, ExchangeInv
<1>2. CASE Swallowed
  BY <1>2, SwallowedInv
<1>3. CASE Fails
  BY <1>3, FailsInv
<1>4. CASE Arm
  BY <1>4, GotoInv DEF Arm
<1>5. CASE RxEvent
  BY <1>5, GotoInv DEF RxEvent
<1>6. CASE PollTimeout \/ OtherCommand \/ TxTimeout
  BY <1>6, GotoInv DEF PollTimeout, OtherCommand, TxTimeout
<1>7. CASE TxEvent
  <2>1. ~driver.in_continuous_rx
    BY <1>7 DEF TxEvent, RadioInv, FlagWhere
  <2> QED BY <1>7, <2>1, GotoInv DEF TxEvent
<1>8. ASSUME NEW fits \in BOOLEAN, LoraTx(fits)
      PROVE  CutAtStart' /\ MaskSet' /\ FlagTruthful' /\ FlagWhere'
  BY <1>8, GotoInv DEF LoraTx
<1>9. ASSUME NEW config \in Configs, SetSpreadingFactor(config)
      PROVE  CutAtStart' /\ MaskSet' /\ FlagTruthful' /\ FlagWhere'
  BY <1>9, GotoInv DEF SetSpreadingFactor
<1>10. ASSUME NEW ok \in BOOLEAN, Receive(ok)
       PROVE  CutAtStart' /\ MaskSet' /\ FlagTruthful' /\ FlagWhere'
  <2>1. chip'.mode = chip.mode /\ chip'.mask = chip.mask
    BY <1>10 DEF Receive, RadioInv, TypeOK, ChipStates
  <2>2. UNCHANGED <<cut, driver, pc, step>>
    BY <1>10 DEF Receive, task
  <2> QED
    BY <2>1, <2>2 DEF RadioInv, CutAtStart, MaskSet, FlagTruthful, FlagWhere
<1>11. CASE TxDone
  <2>1. ~driver.in_continuous_rx
    BY <1>11 DEF TxDone, RadioInv, FlagTruthful
  <2>2. chip'.mask = chip.mask
    BY <1>11 DEF TxDone, RadioInv, TypeOK, ChipStates
  <2>3. UNCHANGED <<cut, driver, pc, step>>
    BY <1>11 DEF TxDone, task
  <2> QED
    BY <2>1, <2>2, <2>3 DEF RadioInv, CutAtStart, MaskSet, FlagTruthful, FlagWhere
<1>12. CASE UNCHANGED vars
  BY <1>12 DEF vars, task, RadioInv, CutAtStart, MaskSet, FlagTruthful, FlagWhere
<1> QED
  BY <1>1, <1>2, <1>3, <1>4, <1>5, <1>6, <1>7, <1>8, <1>9, <1>10, <1>11, <1>12
     DEF Next, TaskStep

(* in_continuous_rx is set only while the chip listens with DIO1 routed to *)
(* packets, after any failures of the exchanges that set it up or leave    *)
(* it: arm_receive may rely on the flag.                                   *)
THEOREM Flag_Truthful == Spec => []FlagTruthful
<1>1. RadioInv => FlagTruthful
  BY DEF RadioInv
<1> QED
  BY <1>1, RadioInvInit, RadioInvStep, PTL DEF Spec

(* The exchange that an NSS line left low swallows without an error is     *)
(* always a SetStandby or a GetIrqStatus, the ones the driver can afford   *)
(* to lose.                                                                *)
THEOREM No_Silent_Loss == Spec => NoSilentLoss
<1>1. RadioInv /\ [Next]_vars => [Swallowed => Current \in {"Standby", "GetIrq"}]_vars
  BY SwallowedFirst
<1> QED
  BY <1>1, RadioInvInit, RadioInvStep, PTL DEF Spec, NoSilentLoss

-----------------------------------------------------------------------------
(* Where the commands are that the chip's next state depends on.           *)
Placed(p) ==
  /\ p = "transmit" =>
       /\ Len(Program[p]) = 6
       /\ Program[p][1] = "Standby" /\ Program[p][2] = "PacketParams"
       /\ Program[p][3] = "WriteBuffer" /\ Program[p][4] = "IrqTx"
       /\ Program[p][5] = "ClearIrq" /\ Program[p][6] = "SetTx"
  /\ p # "transmit" => \A k \in DOMAIN Program[p] : Program[p][k] \notin {"SetTx", "IrqTx"}
  /\ p \in {"read", "txdone"} =>
       Len(Program[p]) = 2 /\ Program[p][1] = "GetIrq" /\ Program[p][2] = "ClearStatus"
  /\ p \notin {"read", "txdone"} =>
       \A k \in DOMAIN Program[p] : Program[p][k] \notin {"GetIrq", "ClearStatus"}
  /\ p = "fetch" =>
       /\ Len(Program[p]) = 3 /\ Program[p][1] = "RxStatus"
       /\ Program[p][2] = "ReadBuffer" /\ Program[p][3] = "PacketStatus"
  /\ p # "init" => \A k \in DOMAIN Program[p] : Program[p][k] \notin InitSettings
  /\ p \notin {"configure", "init_configure"} =>
       \A k \in DOMAIN Program[p] : Program[p][k] \notin ConfigSettings

LEMMA Places ==
  ASSUME NEW p \in Ops
  PROVE  Placed(p)
<1> USE DEF InitSettings, ConfigSettings
<1>1. CASE p = "init"
  <2>1. Program[p] = init
    BY <1>1 DEF Program
  <2> QED BY <1>1, <2>1 DEF Placed, init
<1>2. CASE p \in {"configure", "init_configure"}
  <2>1. Program[p] = configure
    BY <1>2 DEF Program
  <2> QED BY <1>2, <2>1 DEF Placed, configure
<1>3. CASE p \in {"arm", "init_receive"}
  <2>1. Program[p] = start_receive_mode
    BY <1>3 DEF Program
  <2> QED BY <1>3, <2>1 DEF Placed, start_receive_mode
<1>4. CASE p = "transmit"
  <2>1. Program[p] = transmit
    BY <1>4 DEF Program
  <2> QED BY <1>4, <2>1 DEF Placed, transmit
<1>5. CASE p \in {"txdone", "read"}
  <2>1. Program[p] = <<"GetIrq", "ClearStatus">>
    BY <1>5 DEF Program, wait_tx_done, read_packet
  <2> QED BY <1>5, <2>1 DEF Placed
<1>6. CASE p = "fetch"
  <2>1. Program[p] = FetchPacket
    BY <1>6 DEF Program
  <2> QED BY <1>6, <2>1 DEF Placed, FetchPacket
<1> QED
  BY <1>1, <1>2, <1>3, <1>4, <1>5, <1>6 DEF Ops

(* What a command does to each field of the chip.                          *)
LEMMA Effects ==
  ASSUME chip \in ChipStates, NEW command, NEW value
  PROVE  /\ Executed(command, value).mode = "tx" => chip.mode = "tx" \/ command = "SetTx"
         /\ Executed(command, value).packet = chip.packet
         /\ command \notin {"IrqRx", "IrqTx"} => Executed(command, value).mask = chip.mask
         /\ command = "IrqRx" => Executed(command, value).mask = {"RxDone", "CrcErr"}
         /\ command = "IrqTx" => Executed(command, value).mask = {"TxDone"}
         /\ command \notin {"ClearIrq", "ClearStatus"} =>
              Executed(command, value).irqs = chip.irqs
         /\ command = "ClearIrq" => Executed(command, value).irqs = {}
         /\ command = "ClearStatus" => Executed(command, value).irqs = chip.irqs \ status
         /\ command \in Settings =>
              Executed(command, value).settings = Write(chip.settings, command, value)
         /\ command \notin Settings => Executed(command, value).settings = chip.settings
<1> HIDE DEF Write
<1> QED
  BY DEF Executed, ChipStates, Settings, InitSettings, ConfigSettings

(* The operation after the last command of one.                            *)
LEMMA ReturnTo ==
  ASSUME pc \in Ops, Return
  PROVE  /\ step' = 1
         /\ pc' \in {"init_configure", "init_receive", "select", "txwait", "fetch", "loop"}
         /\ pc' = "init_configure" <=> pc = "init"
         /\ pc' = "init_receive" <=> pc = "init_configure"
         /\ pc' = "txwait" <=> pc = "transmit"
         /\ pc' = "fetch" <=> pc = "read" /\ HasPacket(status)
  BY DEF Return, Goto, Ops

-----------------------------------------------------------------------------
(* A claim is kept for the transmission under way and for one that waits   *)
(* in a cut transfer.                                                      *)
ClaimsHeld ==
  claims >= (IF pc = "transmit" THEN 1 ELSE 0) + (IF cut = "SetTx" THEN 1 ELSE 0)

LEMMA ClaimsStep == RadioInv /\ ClaimsHeld /\ [Next]_vars => ClaimsHeld'
<1> SUFFICES ASSUME RadioInv, ClaimsHeld, [Next]_vars PROVE ClaimsHeld'
  OBVIOUS
<1>1. TypeOK /\ chip \in ChipStates /\ claims \in Int
  BY DEF RadioInv, TypeOK
<1>2. CASE Exchange
  <2>1. /\ pc \in Ops /\ cut = None /\ cut' = None /\ Advance /\ Spend
        /\ chip' = Executed(Current, ValueOf(Current)) /\ step \in DOMAIN Program[pc]
    BY <1>1, <1>2 DEF Exchange, TypeOK
  <2>2. pc' = "transmit" => pc = "transmit"
    BY <2>1, ReturnTo DEF Advance
  <2>3. CASE Current = "SetTx"
    <3>1. pc = "transmit" /\ step = 6
      BY <2>1, <2>3, Places, Programs DEF Placed, Usable, Current
    <3>2. Return
      <4>1. Len(Program[pc]) = 6
        BY <2>1, <3>1, Places DEF Placed
      <4> QED
        BY <2>1, <3>1, <4>1 DEF Advance
    <3>3. pc' = "txwait"
      BY <2>1, <3>1, <3>2, ReturnTo
    <3>4. claims' \in {claims, claims - 1}
      BY <1>1, <2>1 DEF Spend
    <3> QED
      BY <1>1, <2>1, <3>1, <3>3, <3>4 DEF ClaimsHeld, None
  <2>4. CASE Current # "SetTx"
    <3>1. claims' = claims
      BY <1>1, <2>1, <2>4, Effects DEF Spend
    <3> QED
      BY <1>1, <2>1, <2>2, <3>1 DEF ClaimsHeld, None
  <2> QED BY <2>3, <2>4
<1>3. CASE Swallowed
  <2>1. /\ pc \in Ops /\ cut # None /\ cut' = None /\ Advance /\ Spend
        /\ chip' \in {chip, Executed(cut, None)}
    BY <1>3 DEF Swallowed
  <2>2. pc' = "transmit" => pc = "transmit"
    BY <2>1, ReturnTo DEF Advance
  <2>3. claims' = claims \/ (cut = "SetTx" /\ claims' = claims - 1)
    BY <1>1, <2>1, Effects DEF Spend
  <2> QED
    BY <1>1, <2>1, <2>2, <2>3 DEF ClaimsHeld, None
<1>4. CASE Fails
  <2>1. /\ pc \in Ops /\ pc' # "transmit" /\ claims' = claims /\ step \in DOMAIN Program[pc]
        /\ cut' = cut \/ cut' = None \/ (cut = None /\ cut' = Current)
    BY <1>1, <1>4 DEF Fails, Goto, TypeOK
  <2>2. Current = "SetTx" => pc = "transmit"
    BY <2>1, Places DEF Placed, Current
  <2> QED
    BY <1>1, <2>1, <2>2 DEF ClaimsHeld, None
<1>5. ASSUME NEW fits \in BOOLEAN, LoraTx(fits) PROVE ClaimsHeld'
  <2>1. claims' = claims + 1 /\ cut' = cut
    BY <1>5 DEF LoraTx
  <2> QED
    BY <1>1, <2>1 DEF ClaimsHeld
<1>6. CASE \/ Arm \/ RxEvent \/ PollTimeout \/ TxEvent \/ TxTimeout \/ OtherCommand
           \/ \E config \in Configs : SetSpreadingFactor(config)
  <2>1. pc' # "transmit" /\ claims' = claims /\ cut' = cut
    BY <1>6 DEF Arm, RxEvent, PollTimeout, TxEvent, TxTimeout, OtherCommand,
                SetSpreadingFactor, Goto, history
  <2> QED
    BY <1>1, <2>1 DEF ClaimsHeld
<1>7. CASE TxDone \/ UNCHANGED vars \/ \E ok \in BOOLEAN : Receive(ok)
  <2>1. pc' = pc /\ claims' = claims /\ cut' = cut
    BY <1>7 DEF TxDone, Receive, vars, task, history
  <2> QED
    BY <2>1 DEF ClaimsHeld
<1> QED
  BY <1>2, <1>3, <1>4, <1>5, <1>6, <1>7 DEF Next, TaskStep

(* Errors, missing interrupts and commands that the chip executes late     *)
(* never put a packet on the air that no claim was granted for.            *)
THEOREM Air_Claimed == Spec => []AirClaimed
<1>1. Init => ClaimsHeld
  BY DEF Init, ClaimsHeld, None
<1>2. RadioInv /\ ClaimsHeld => AirClaimed
  BY DEF RadioInv, TypeOK, ClaimsHeld, AirClaimed
<1> QED
  BY <1>1, <1>2, RadioInvInit, RadioInvStep, ClaimsStep, PTL DEF Spec

-----------------------------------------------------------------------------
(* The interrupts of a packet; they are enabled together.                  *)
RxIrqs == {"RxDone", "CrcErr"}
MaskKnown == chip.mask \in {{}, RxIrqs, {"TxDone"}}

(* From prepare_tx to the end of wait_tx_done the mask is the one for a    *)
(* transmission, which begins with NSS high.                               *)
TxMask ==
  /\ (pc = "transmit" /\ step > 4) \/ pc \in {"txwait", "txdone"} => chip.mask = {"TxDone"}
  /\ pc \in {"txwait", "txdone"} => cut = None

(* Packets are numbered as they arrive.                                    *)
Numbered ==
  /\ chip.packet = packets /\ corrupt \subseteq 1 .. packets
  /\ fetched <= packets /\ \A i \in DOMAIN published : published[i] <= packets

(* The packet in the chip came neither between the commands of read_packet *)
(* nor when they read garbage.                                             *)
Clear == chip.packet \notin overtook \cup misread

(* Then the interrupts that were read are those that are pending until     *)
(* they are cleared, even by a transfer that was cut.  In wait_tx_done     *)
(* they always are: no packet raises one there.                            *)
StatusFresh ==
  /\ pc = "txdone" /\ step = 2 => status \cap RxIrqs = chip.irqs \cap RxIrqs
  /\ Clear /\ ((pc = "read" /\ step = 2) \/ cut = "ClearStatus") =>
       status \cap RxIrqs = chip.irqs \cap RxIrqs

(* A packet that was not published, and one that only the last publication *)
(* can have been.                                                          *)
New(packet) == \A i \in DOMAIN published : published[i] < packet
Once(packet) ==
  \A i \in DOMAIN published : i < Len(published) => published[i] < packet

(* A pending interrupt is that of a new packet, and says whether it is     *)
(* corrupt, or of one that overtook another and may have been published.   *)
PendingNew ==
  "RxDone" \in chip.irqs /\ chip.packet \notin misread =>
    /\ Once(chip.packet)
    /\ chip.packet \notin overtook =>
         New(chip.packet) /\ (chip.packet \in corrupt => "CrcErr" \in chip.irqs)

(* An interrupt that was read and not yet cleared is of such a packet.     *)
ReadNew ==
  pc = "read" /\ step = 2 /\ "RxDone" \in status /\ chip.packet \notin misread =>
    Once(chip.packet)

(* The packet that is being fetched is new and not corrupt, or it overtook *)
(* another.  When its interrupt is pending, it will be published again.    *)
Fetching == IF step = 1 THEN chip.packet ELSE fetched
FetchNew ==
  pc = "fetch" =>
    /\ \A i \in DOMAIN published : published[i] <= Fetching
    /\ Fetching \notin misread =>
         /\ Once(Fetching)
         /\ Fetching \in overtook \/ (New(Fetching) /\ Fetching \notin corrupt)
         /\ "RxDone" \in chip.irqs /\ Fetching = chip.packet =>
              New(Fetching) /\ Fetching \in overtook

PacketInv ==
  /\ MaskKnown /\ TxMask /\ Numbered
  /\ StatusFresh /\ PendingNew /\ ReadNew /\ FetchNew
  /\ PublishedOnce

(* The publication of the packet that was fetched.                         *)
LEMMA PublishFetched ==
  ASSUME published \in Seq(Nat), PublishedOnce, NEW packet \in Nat,
         published' = Append(published, packet), UNCHANGED <<corrupt, overtook, misread>>,
         \A i \in DOMAIN published : published[i] <= packet,
         packet \notin misread =>
           Once(packet) /\ (packet \in overtook \/ (New(packet) /\ packet \notin corrupt))
  PROVE  PublishedOnce'
<1> DEFINE n == Len(published)
<1>1. /\ n \in Nat /\ DOMAIN published = 1 .. n /\ DOMAIN published' = 1 .. n + 1
      /\ published'[n + 1] = packet
      /\ \A i \in 1 .. n : published'[i] = published[i] /\ published[i] \in Nat
  OBVIOUS
<1>2. /\ \A i, j \in 1 .. n : i < j => published[i] <= published[j]
      /\ \A i, j \in 1 .. n : i < j /\ published[i] = published[j] =>
           published[i] \in misread \/ (published[i] \in overtook /\ j = i + 1)
      /\ \A i \in 1 .. n : published[i] \in corrupt => published[i] \in overtook \cup misread
      /\ \A i \in 1 .. n : published[i] <= packet
  BY <1>1 DEF PublishedOnce
<1>3. packet \notin misread =>
        /\ \A i \in 1 .. n : i < n => published[i] < packet
        /\ packet \in overtook \/ (\A i \in 1 .. n : published[i] < packet)
        /\ packet \in corrupt => packet \in overtook
  BY <1>1 DEF New, Once
<1> HIDE DEF n
<1>4. \A i, j \in 1 .. n + 1 : i < j => published'[i] <= published'[j]
  <2> SUFFICES ASSUME NEW i \in 1 .. n + 1, NEW j \in 1 .. n + 1, i < j
               PROVE  published'[i] <= published'[j]
    OBVIOUS
  <2>1. i \in 1 .. n /\ (j \in 1 .. n \/ j = n + 1)
    BY <1>1
  <2> QED BY <1>1, <1>2, <2>1
<1>5. \A i, j \in 1 .. n + 1 : i < j /\ published'[i] = published'[j] =>
        published'[i] \in misread \/ (published'[i] \in overtook /\ j = i + 1)
  <2> SUFFICES ASSUME NEW i \in 1 .. n + 1, NEW j \in 1 .. n + 1, i < j,
                      published'[i] = published'[j], published'[i] \notin misread
               PROVE  published'[i] \in overtook /\ j = i + 1
    OBVIOUS
  <2>1. i \in 1 .. n /\ published'[i] = published[i] /\ published[i] \in Nat
    <3>1. i \in 1 .. n
      BY <1>1
    <3> QED BY <1>1, <3>1
  <2>2. CASE j \in 1 .. n
    BY <1>1, <1>2, <2>1, <2>2
  <2>3. CASE j = n + 1
    <3>1. published[i] = packet /\ packet \notin misread
      BY <1>1, <2>1, <2>3
    <3>2. ~(published[i] < packet)
      BY <2>1, <3>1
    <3>3. packet \in overtook /\ ~(i < n)
      BY <1>3, <2>1, <3>1, <3>2
    <3> QED BY <1>1, <2>1, <2>3, <3>1, <3>3
  <2> QED BY <1>1, <2>2, <2>3
<1>6. \A i \in 1 .. n + 1 : published'[i] \in corrupt =>
        published'[i] \in overtook \cup misread
  <2> SUFFICES ASSUME NEW i \in 1 .. n + 1, published'[i] \in corrupt
               PROVE  published'[i] \in overtook \cup misread
    OBVIOUS
  <2>1. i \in 1 .. n \/ i = n + 1
    BY <1>1
  <2> QED BY <1>1, <1>2, <1>3, <2>1
<1> QED
  BY <1>1, <1>4, <1>5, <1>6 DEF PublishedOnce

(* Steps that leave the chip, the packets and the interrupts read alone    *)
(* and only move lora_task to the first command of an operation.           *)
LEMMA PacketGoto ==
  ASSUME PacketInv, NEW place, Goto(place), place \notin {"fetch", "txwait"},
         place = "txdone" => pc = "txwait",
         UNCHANGED <<chip, cut, status, fetched, published, corrupt, overtook, misread, packets>>
  PROVE  PacketInv'
<1>1. pc' = place /\ step' = 1
  BY DEF Goto
<1>2. MaskKnown' /\ TxMask' /\ Numbered'
  BY <1>1 DEF PacketInv, MaskKnown, TxMask, Numbered
<1>3. StatusFresh' /\ PendingNew' /\ ReadNew' /\ FetchNew'
  BY <1>1 DEF PacketInv, StatusFresh, Clear, PendingNew, ReadNew, FetchNew, New, Once
<1>4. PublishedOnce'
  BY DEF PacketInv, PublishedOnce
<1> QED BY <1>2, <1>3, <1>4 DEF PacketInv

(* An exchange that goes through.                                          *)
LEMMA PacketExchange ==
  ASSUME RadioInv, PacketInv, Exchange
  PROVE  PacketInv'
<1>1. /\ TypeOK /\ pc \in Ops /\ step \in DOMAIN Program[pc] /\ step \in Nat \ {0}
      /\ Usable(pc) /\ Placed(pc) /\ chip \in ChipStates /\ Advance
  BY Programs, Places DEF Exchange, RadioInv, TypeOK, Usable
<1>2. /\ cut' = None /\ chip' = Executed(Current, ValueOf(Current))
      /\ status' = IF Current = "GetIrq" THEN chip.irqs ELSE Local(status, {})
      /\ fetched' = IF Current = "RxStatus" THEN chip.packet ELSE Local(fetched, 0)
      /\ UNCHANGED <<corrupt, overtook, misread, packets>>
  BY DEF Exchange, bounds
<1>3. /\ chip'.packet = chip.packet
      /\ Current \notin {"IrqRx", "IrqTx"} => chip'.mask = chip.mask
      /\ Current = "IrqRx" => chip'.mask = {"RxDone", "CrcErr"}
      /\ Current = "IrqTx" => chip'.mask = {"TxDone"}
      /\ Current \notin {"ClearIrq", "ClearStatus"} => chip'.irqs = chip.irqs
      /\ Current = "ClearIrq" => chip'.irqs = {}
      /\ Current = "ClearStatus" => chip'.irqs = chip.irqs \ status
  BY <1>1, <1>2, Effects
<1>4. \/ pc' = pc /\ step' = step + 1 /\ step < Len(Program[pc]) /\ published' = published
      \/ /\ step = Len(Program[pc]) /\ Return /\ step' = 1
         /\ pc' \in {"init_configure", "init_receive", "select", "txwait", "fetch", "loop"}
         /\ pc' = "txwait" <=> pc = "transmit"
         /\ pc' = "fetch" <=> pc = "read" /\ HasPacket(status)
         /\ published' = IF pc = "fetch" THEN Append(published, fetched) ELSE published
  BY <1>1, ReturnTo DEF Advance, Return
<1>5. /\ Current = "ClearStatus" => pc \in {"read", "txdone"} /\ step = 2
      /\ Current = "GetIrq" => pc \in {"read", "txdone"}
      /\ pc \in {"read", "txdone"} =>
           Len(Program[pc]) = 2 /\ (step = 1 => Current = "GetIrq")
             /\ (step = 2 => Current = "ClearStatus")
      /\ pc = "fetch" =>
           /\ Len(Program[pc]) = 3 /\ Current \notin {"ClearStatus", "ClearIrq"}
           /\ step = 1 => Current = "RxStatus"
           /\ step > 1 => Current # "RxStatus"
      /\ pc = "transmit" =>
           /\ Len(Program[pc]) = 6
           /\ step = 4 => Current = "IrqTx"
           /\ step > 4 => Current \in {"ClearIrq", "SetTx"}
  <2> DEFINE n == Len(Program[pc])
  <2>1. /\ n \in Nat /\ step \in 1 .. n
        /\ pc \in {"read", "txdone"} => n = 2
        /\ pc = "fetch" => n = 3
        /\ pc = "transmit" => n = 6
    BY <1>1 DEF Usable, Placed
  <2> HIDE DEF n
  <2>2. pc \in {"read", "txdone"} => step \in {1, 2}
    BY <2>1
  <2>3. pc = "fetch" => step \in {1, 2, 3}
    BY <2>1
  <2>4. pc = "transmit" /\ step > 4 => step \in {5, 6}
    BY <2>1
  <2> QED BY <1>1, <2>2, <2>3, <2>4 DEF Placed, Current
<1>6. MaskKnown'
  BY <1>3 DEF PacketInv, MaskKnown, RxIrqs
<1>7. TxMask'
  <2>1. pc' \in {"txwait", "txdone"} => cut' = None
    BY <1>2
  <2>2. ASSUME pc' = "transmit", step' > 4 PROVE chip'.mask = {"TxDone"}
    <3>1. pc = "transmit" /\ step' = step + 1
      BY <1>4, <2>2
    <3>2. step = 4 \/ step > 4
      BY <1>1, <2>2, <3>1
    <3> QED BY <1>3, <1>5, <3>1, <3>2 DEF PacketInv, TxMask
  <2>3. ASSUME pc' = "txwait" PROVE chip'.mask = {"TxDone"}
    <3>1. pc = "transmit" /\ step = 6
      <4>1. pc = "transmit" /\ step = Len(Program[pc])
        BY <1>1, <1>4, <2>3 DEF Ops
      <4> QED BY <1>5, <4>1
    <3> QED BY <1>3, <1>5, <3>1 DEF PacketInv, TxMask
  <2>4. ASSUME pc' = "txdone" PROVE chip'.mask = {"TxDone"}
    <3>1. pc = "txdone"
      BY <1>4, <2>4
    <3>2. Current \in {"GetIrq", "ClearStatus"}
      <4>1. step \in {1, 2}
        BY <1>1, <1>5, <3>1 DEF Usable
      <4> QED BY <1>5, <3>1, <4>1
    <3> QED BY <1>3, <3>1, <3>2 DEF PacketInv, TxMask
  <2> QED BY <2>1, <2>2, <2>3, <2>4 DEF TxMask
<1>8. Numbered'
  <2>1. fetched' <= packets
    BY <1>1, <1>2 DEF Local, PacketInv, Numbered, TypeOK
  <2>2. \A i \in DOMAIN published' : published'[i] <= packets
    <3>1. published \in Seq(Nat) /\ fetched \in Nat /\ fetched <= packets
      BY <1>1 DEF TypeOK, PacketInv, Numbered
    <3>2. CASE published' = published
      BY <3>2 DEF PacketInv, Numbered
    <3>3. CASE published' = Append(published, fetched)
      <4>1. \A i \in DOMAIN published' :
              (i \in DOMAIN published /\ published'[i] = published[i]) \/ published'[i] = fetched
        BY <3>1, <3>3
      <4> QED BY <3>1, <4>1 DEF PacketInv, Numbered
    <3> QED BY <1>4, <3>2, <3>3
  <2> QED BY <1>2, <1>3, <2>1, <2>2 DEF PacketInv, Numbered
<1>9. /\ StatusFresh /\ PendingNew /\ ReadNew /\ FetchNew
      /\ Clear' = Clear
  BY <1>2, <1>3 DEF PacketInv, Clear
<1>10. StatusFresh'
  <2> SUFFICES ASSUME pc' \in {"read", "txdone"}, step' = 2
               PROVE  status' \cap RxIrqs = chip'.irqs \cap RxIrqs
    BY <1>2 DEF StatusFresh, None
  <2>1. pc' = pc /\ step = 1
    BY <1>1, <1>4
  <2>2. Current = "GetIrq"
    BY <1>5, <2>1
  <2> QED BY <1>2, <1>3, <2>2
<1>11. Current = "ClearStatus" /\ Clear => "RxDone" \notin chip'.irqs
  BY <1>3, <1>5, <1>9 DEF StatusFresh, RxIrqs
<1>12. pc = "fetch" /\ step < 3 => Fetching' = Fetching
  <2> SUFFICES ASSUME pc = "fetch", step < 3 PROVE Fetching' = Fetching
    OBVIOUS
  <2>1. Len(Program[pc]) = 3 /\ step \in {1, 2} /\ step # Len(Program[pc])
    BY <1>1, <1>5
  <2>2. step' \in {2, 3}
    BY <1>4, <2>1
  <2>3. step = 1 => fetched' = chip.packet
    BY <1>2, <1>5
  <2>4. step = 2 => fetched' = fetched
    BY <1>2, <1>5, <2>1 DEF Local
  <2> QED BY <2>1, <2>2, <2>3, <2>4 DEF Fetching
<1>13. pc = "fetch" /\ step = 3 => Fetching = fetched /\ fetched \in Nat
  BY <1>1 DEF Fetching, TypeOK
<1>14. published' = published \/ (pc = "fetch" /\ step = 3 /\ published' = Append(published, fetched))
  BY <1>4, <1>5
<1>15. PendingNew'
  <2> SUFFICES ASSUME "RxDone" \in chip'.irqs, chip.packet \notin misread
               PROVE  /\ Once(chip.packet)'
                      /\ chip.packet \notin overtook =>
                           /\ New(chip.packet)'
                           /\ chip.packet \in corrupt => "CrcErr" \in chip'.irqs
    BY <1>2, <1>3 DEF PendingNew
  <2>1. Current # "ClearIrq" /\ "RxDone" \in chip.irqs
    BY <1>3
  <2>2. /\ Once(chip.packet)
        /\ chip.packet \notin overtook =>
             New(chip.packet) /\ (chip.packet \in corrupt => "CrcErr" \in chip.irqs)
    BY <1>9, <2>1 DEF PendingNew
  <2>3. chip.packet \notin overtook => chip'.irqs = chip.irqs
    BY <1>3, <1>11, <2>1 DEF Clear
  <2>4. CASE published' = published
    BY <1>3, <2>2, <2>3, <2>4 DEF New, Once
  <2>5. CASE pc = "fetch" /\ step = 3 /\ published' = Append(published, fetched)
    <3>1. /\ \A i \in DOMAIN published : published[i] <= fetched
          /\ fetched = chip.packet => New(fetched) /\ fetched \in overtook
      BY <1>9, <1>13, <2>1, <2>5 DEF FetchNew
    <3>2. /\ published \in Seq(Nat) /\ fetched \in Nat /\ chip.packet \in Nat
          /\ fetched = chip.packet \/ fetched < chip.packet
      BY <1>1 DEF TypeOK, ChipStates, PacketInv, Numbered
    <3>3. fetched < chip.packet => New(chip.packet)' /\ Once(chip.packet)'
      <4>1. fetched < chip.packet =>
              (\A i \in DOMAIN published' : published'[i] < chip.packet)
        <5>1. \A i \in DOMAIN published' :
                (i \in DOMAIN published /\ published'[i] = published[i]) \/ published'[i] = fetched
          BY <2>5, <3>2
        <5>2. \A i \in DOMAIN published : published[i] \in Nat
          BY <3>2
        <5> QED BY <3>1, <3>2, <5>1, <5>2
      <4> QED BY <1>3, <4>1 DEF New, Once
    <3>4. fetched = chip.packet => Once(chip.packet)'
      <4> SUFFICES ASSUME fetched = chip.packet PROVE Once(chip.packet)'
        OBVIOUS
      <4>1. \A i \in DOMAIN published' : i < Len(published') => published'[i] < fetched
        <5>1. \A i \in DOMAIN published' : i < Len(published') =>
                i \in DOMAIN published /\ published'[i] = published[i]
          BY <2>5, <3>2
        <5> QED BY <3>1, <5>1 DEF New
      <4> QED BY <1>3, <4>1 DEF Once
    <3> QED BY <2>2, <2>3, <3>1, <3>2, <3>3, <3>4
  <2> QED BY <1>14, <2>4, <2>5
<1>16. ReadNew'
  <2> SUFFICES ASSUME pc' = "read", step' = 2, "RxDone" \in status', chip.packet \notin misread
               PROVE  Once(chip.packet)'
    BY <1>2, <1>3 DEF ReadNew
  <2>1. pc = "read" /\ step = 1 /\ published' = published
    BY <1>1, <1>4
  <2>2. "RxDone" \in chip.irqs
    BY <1>2, <1>5, <2>1
  <2> QED BY <1>3, <1>9, <2>1, <2>2 DEF PendingNew, Once
<1>17. FetchNew'
  <2> SUFFICES ASSUME pc' = "fetch" PROVE FetchNew'
    BY DEF FetchNew
  <2>1. CASE pc = "fetch"
    <3>1. published' = published /\ step < 3 /\ chip'.irqs = chip.irqs
      BY <1>1, <1>3, <1>4, <1>5, <2>1
    <3>2. Fetching' = Fetching
      BY <1>12, <2>1, <3>1
    <3> QED BY <1>2, <1>3, <1>9, <2>1, <3>1, <3>2 DEF FetchNew, New, Once
  <2>2. CASE pc # "fetch"
    <3>1. pc = "read" /\ HasPacket(status) /\ step = 2 /\ step' = 1 /\ published' = published
      BY <1>4, <1>5, <2>2
    <3>2. Fetching' = chip.packet /\ "RxDone" \in status /\ "CrcErr" \notin status
      BY <1>3, <3>1 DEF Fetching, HasPacket
    <3>3. "RxDone" \notin chip'.irqs
      BY <1>3, <1>5, <3>1, <3>2
    <3>4. \A i \in DOMAIN published : published[i] <= chip.packet
      BY DEF PacketInv, Numbered
    <3>5. chip.packet \notin misread => Once(chip.packet)
      BY <1>9, <3>1, <3>2 DEF ReadNew
    <3>6. Clear => New(chip.packet) /\ chip.packet \notin corrupt
      <4> SUFFICES ASSUME Clear PROVE New(chip.packet) /\ chip.packet \notin corrupt
        OBVIOUS
      <4>1. "RxDone" \in chip.irqs /\ "CrcErr" \notin chip.irqs
        BY <1>9, <3>1, <3>2 DEF StatusFresh, RxIrqs
      <4> QED BY <1>9, <4>1 DEF PendingNew, Clear
    <3> QED
      BY <1>2, <3>1, <3>2, <3>3, <3>4, <3>5, <3>6 DEF FetchNew, Clear, New, Once
  <2> QED BY <2>1, <2>2
<1>18. PublishedOnce'
  <2>1. CASE published' = published
    BY <1>2, <2>1 DEF PacketInv, PublishedOnce
  <2>2. CASE pc = "fetch" /\ step = 3 /\ published' = Append(published, fetched)
    <3>1. /\ \A i \in DOMAIN published : published[i] <= fetched
          /\ fetched \notin misread =>
               Once(fetched) /\ (fetched \in overtook \/ (New(fetched) /\ fetched \notin corrupt))
      BY <1>9, <1>13, <2>2 DEF FetchNew
    <3>2. published \in Seq(Nat) /\ fetched \in Nat /\ PublishedOnce
      BY <1>1 DEF TypeOK, PacketInv
    <3> QED BY <1>2, <2>2, <3>1, <3>2, PublishFetched
  <2> QED BY <1>14, <2>1, <2>2
<1> QED
  BY <1>6, <1>7, <1>8, <1>10, <1>15, <1>16, <1>17, <1>18 DEF PacketInv

(* An exchange that a cut transfer swallows: the interrupts are not read,  *)
(* or what was read is not to be trusted.                                  *)
LEMMA PacketSwallowed ==
  ASSUME RadioInv, PacketInv, Swallowed
  PROVE  PacketInv'
<1>1. /\ TypeOK /\ pc \in Ops /\ step = 1 /\ Current \in {"Standby", "GetIrq"}
      /\ Usable(pc) /\ Placed(pc) /\ chip \in ChipStates /\ Advance
  BY SwallowedFirst, Places DEF Swallowed, RadioInv, TypeOK
<1>2. /\ cut # None /\ cut' = None /\ chip' \in {chip, Executed(cut, None)}
      /\ status' \in IF Current = "GetIrq" THEN SUBSET Irqs ELSE {status}
      /\ misread' = IF Current = "GetIrq" THEN misread \cup {chip.packet} ELSE misread
      /\ UNCHANGED <<fetched, corrupt, overtook, packets>>
  BY DEF Swallowed, bounds
<1>3. /\ chip'.packet = chip.packet
      /\ chip'.mask \in {chip.mask, {"RxDone", "CrcErr"}, {"TxDone"}}
      /\ chip'.irqs \in {chip.irqs, {}} \/ (cut = "ClearStatus" /\ chip'.irqs = chip.irqs \ status)
  BY <1>1, <1>2, Effects
<1>4. pc \notin {"fetch", "txwait", "txdone"}
  BY <1>1, <1>2 DEF RadioInv, CutAtStart, PacketInv, TxMask, Ops
<1>5. \/ pc' = pc /\ step' = 2 /\ published' = published
      \/ /\ step' = 1 /\ published' = published
         /\ pc' \in {"init_configure", "init_receive", "select", "txwait", "fetch", "loop"}
         /\ pc' = "txwait" => pc = "transmit" /\ Len(Program[pc]) = 1
         /\ pc' = "fetch" => pc = "read"
  <2>1. CASE step < Len(Program[pc]) /\ pc' = pc /\ step' = step + 1 /\ published' = published
    BY <1>1, <2>1
  <2>2. CASE step = Len(Program[pc]) /\ Return
    <3>1. published' = published
      BY <1>4, <2>2 DEF Return
    <3> QED BY <1>1, <2>2, <3>1, ReturnTo
  <2> QED BY <1>1, <2>1, <2>2 DEF Advance
<1>6. pc = "transmit" => Len(Program[pc]) = 6
  BY <1>1 DEF Placed
<1>7. MaskKnown' /\ TxMask' /\ Numbered'
  <2>1. MaskKnown'
    BY <1>3 DEF PacketInv, MaskKnown, RxIrqs
  <2>2. pc' # "txwait" /\ pc' # "txdone" /\ (pc' = "transmit" => step' = 2)
    BY <1>4, <1>5, <1>6
  <2>3. TxMask'
    BY <2>2 DEF TxMask
  <2>4. Numbered'
    BY <1>2, <1>3, <1>5 DEF PacketInv, Numbered
  <2> QED BY <2>1, <2>3, <2>4
<1>8. pc' # "fetch" \/ pc = "read"
  BY <1>4, <1>5
<1>9. /\ StatusFresh /\ PendingNew
      /\ misread \subseteq misread'
  BY <1>2 DEF PacketInv
<1>10. CASE Current = "GetIrq"
  <2>1. pc = "read" /\ Len(Program[pc]) = 2 /\ step' = 2 /\ pc' = "read"
        /\ published' = published
    <3>1. pc = "read" /\ Len(Program[pc]) = 2
      <4>1. 1 \in DOMAIN Program[pc]
        BY <1>1 DEF TypeOK
      <4> QED BY <1>1, <1>4, <1>10, <4>1 DEF Placed, Current
    <3> QED BY <1>1, <3>1 DEF Advance
  <2>2. chip'.packet \in misread'
    BY <1>2, <1>3, <1>10
  <2>3. StatusFresh' /\ PendingNew' /\ ReadNew' /\ FetchNew'
    BY <2>1, <2>2, <1>2 DEF StatusFresh, Clear, PendingNew, ReadNew, FetchNew, None
  <2>4. PublishedOnce'
    BY <1>2, <1>9, <2>1 DEF PacketInv, PublishedOnce
  <2> QED BY <1>7, <2>3, <2>4 DEF PacketInv
<1>11. CASE Current = "Standby"
  <2>1. UNCHANGED <<status, misread>>
    BY <1>2, <1>11
  <2>2. pc \notin {"read", "txdone"}
    BY <1>1, <1>11 DEF Placed, Current
  <2>3. pc' \notin {"read", "txdone", "fetch"}
    BY <1>5, <2>2, <1>4
  <2>4. StatusFresh' /\ ReadNew' /\ FetchNew'
    BY <1>2, <2>3 DEF StatusFresh, ReadNew, FetchNew, None
  <2>5. "RxDone" \in chip'.irqs =>
          "RxDone" \in chip.irqs /\ (Clear => chip'.irqs = chip.irqs)
    BY <1>3, <1>9 DEF StatusFresh, RxIrqs
  <2>6. PendingNew'
    BY <1>2, <1>3, <1>5, <1>9, <2>1, <2>5 DEF PendingNew, Clear, New, Once
  <2>7. PublishedOnce'
    BY <1>2, <1>5, <2>1 DEF PacketInv, PublishedOnce
  <2> QED BY <1>7, <2>4, <2>6, <2>7 DEF PacketInv
<1> QED
  BY <1>1, <1>10, <1>11

(* An exchange that fails, perhaps with NSS low.                           *)
LEMMA PacketFails ==
  ASSUME RadioInv, PacketInv, Fails
  PROVE  PacketInv'
<1>1. /\ TypeOK /\ pc \in Ops /\ step \in DOMAIN Program[pc] /\ Usable(pc) /\ Placed(pc)
  BY Programs, Places DEF Fails, RadioInv, TypeOK
<1>2. /\ pc' \in {"select", "loop"} /\ step' = 1 /\ cut' \in {cut, None, Current}
      /\ fetched' = 0
      /\ UNCHANGED <<chip, status, published, corrupt, overtook, misread, packets>>
  BY DEF Fails, Goto
<1>3. MaskKnown' /\ TxMask' /\ Numbered'
  <2>1. Numbered'
    BY <1>1, <1>2 DEF PacketInv, Numbered, TypeOK
  <2> QED BY <1>2, <2>1 DEF PacketInv, MaskKnown, TxMask
<1>4. StatusFresh' /\ PendingNew' /\ ReadNew' /\ FetchNew'
  <2>1. StatusFresh /\ PendingNew
    BY DEF PacketInv
  <2>2. Current = "ClearStatus" => pc \in {"read", "txdone"} /\ step = 2
    <3>1. Current = "ClearStatus" => pc \in {"read", "txdone"} /\ step # 1
      BY <1>1 DEF Placed, Current
    <3>2. pc \in {"read", "txdone"} => step \in 1 .. 2
      <4> DEFINE n == Len(Program[pc])
      <4>1. step \in 1 .. n /\ (pc \in {"read", "txdone"} => n = 2)
        BY <1>1 DEF Usable, Placed
      <4> HIDE DEF n
      <4> QED BY <4>1
    <3> QED BY <3>1, <3>2
  <2>3. StatusFresh'
    <3> SUFFICES ASSUME cut' = "ClearStatus", Clear
                 PROVE  status \cap RxIrqs = chip.irqs \cap RxIrqs
      BY <1>2 DEF StatusFresh, Clear
    <3>1. cut = "ClearStatus" \/ Current = "ClearStatus"
      BY <1>2 DEF None
    <3> QED BY <2>1, <2>2, <3>1 DEF StatusFresh
  <2>4. PendingNew' /\ ReadNew' /\ FetchNew'
    BY <1>2, <2>1 DEF PendingNew, New, Once, ReadNew, FetchNew
  <2> QED BY <2>3, <2>4
<1>5. PublishedOnce'
  BY <1>2 DEF PacketInv, PublishedOnce
<1> QED
  BY <1>3, <1>4, <1>5 DEF PacketInv

(* A packet arrives.                                                       *)
LEMMA PacketReceive ==
  ASSUME RadioInv, PacketInv, NEW ok \in BOOLEAN, Receive(ok)
  PROVE  PacketInv'
<1> DEFINE raised == IF ok THEN {"RxDone"} ELSE {"RxDone", "CrcErr"}
<1>1. /\ TypeOK /\ chip \in ChipStates /\ packets \in Nat
      /\ packets' = packets + 1
      /\ corrupt' = IF ok THEN corrupt ELSE corrupt \cup {packets + 1}
      /\ overtook' = IF Mistakable THEN overtook \cup {packets + 1} ELSE overtook
      /\ UNCHANGED <<pc, step, status, fetched, cut, published, misread>>
  BY DEF Receive, RadioInv, TypeOK, task
<1>2. /\ chip'.packet = packets + 1 /\ chip'.mask = chip.mask
      /\ chip'.irqs = chip.irqs \cup (chip.mask \cap raised)
  BY <1>1 DEF Receive, ChipStates
<1>3. /\ published \in Seq(Nat) /\ fetched \in Nat
      /\ \A i \in DOMAIN published : published[i] <= packets /\ published[i] \in Nat
  BY <1>1 DEF PacketInv, Numbered, TypeOK
<1>4. MaskKnown' /\ TxMask'
  BY <1>1, <1>2 DEF PacketInv, MaskKnown, TxMask
<1>5. Numbered'
  <2>1. corrupt' \subseteq 1 .. packets + 1 /\ fetched' <= packets + 1
    BY <1>1, <1>3 DEF PacketInv, Numbered
  <2>2. \A i \in DOMAIN published : published[i] <= packets + 1
    BY <1>1, <1>3
  <2> QED BY <1>1, <1>2, <2>1, <2>2 DEF Numbered
<1>6. New(chip.packet)' /\ Once(chip.packet)'
  BY <1>1, <1>2, <1>3 DEF New, Once
<1>7. Clear' => ~Mistakable
  BY <1>1, <1>2 DEF Clear
<1>8. StatusFresh'
  <2>1. ASSUME pc = "txdone", step = 2 PROVE status \cap RxIrqs = chip'.irqs \cap RxIrqs
    <3>1. chip.mask = {"TxDone"}
      BY <2>1 DEF PacketInv, TxMask
    <3>2. chip'.irqs = chip.irqs
      BY <1>2, <3>1
    <3> QED BY <2>1, <3>2 DEF PacketInv, StatusFresh
  <2>2. Clear' => ~(pc = "read" /\ step = 2) /\ cut # "ClearStatus"
    BY <1>7 DEF Mistakable
  <2> QED BY <1>1, <2>1, <2>2 DEF StatusFresh
<1>9. PendingNew'
  <2>1. ASSUME Clear', "RxDone" \in chip'.irqs, packets + 1 \in corrupt'
        PROVE  "CrcErr" \in chip'.irqs
    <3>1. "RxDone" \in chip.mask
      BY <1>2, <1>7, <2>1 DEF Mistakable
    <3>2. "CrcErr" \in chip.mask
      BY <3>1 DEF PacketInv, MaskKnown, RxIrqs
    <3>3. ~ok
      BY <1>1, <2>1 DEF PacketInv, Numbered
    <3> QED BY <1>2, <3>2, <3>3
  <2> QED BY <1>2, <1>6, <2>1 DEF PendingNew, Clear, New, Once
<1>10. ReadNew'
  BY <1>2, <1>6 DEF ReadNew, Once
<1>11. FetchNew'
  <2> SUFFICES ASSUME pc = "fetch" PROVE FetchNew'
    BY <1>1 DEF FetchNew
  <2>1. CASE step = 1
    <3>1. Fetching' = packets + 1 /\ packets + 1 \in overtook'
      BY <1>1, <1>2, <2>1 DEF Fetching, Mistakable
    <3>2. \A i \in DOMAIN published' : published'[i] <= packets + 1
      BY <1>1, <1>3
    <3> QED BY <1>2, <1>6, <3>1, <3>2 DEF FetchNew, New, Once
  <2>2. CASE step # 1
    <3>1. Fetching' = fetched /\ Fetching = fetched /\ fetched <= packets
      BY <1>1, <2>2 DEF Fetching, PacketInv, Numbered
    <3>2. fetched # packets + 1
      BY <1>1, <1>3, <3>1
    <3>3. /\ fetched \in overtook' <=> fetched \in overtook
          /\ fetched \in corrupt' <=> fetched \in corrupt
      BY <1>1, <3>2
    <3>4. FetchNew
      BY DEF PacketInv
    <3> QED BY <1>1, <1>2, <3>1, <3>2, <3>3, <3>4 DEF FetchNew, New, Once
  <2> QED BY <2>1, <2>2
<1>12. PublishedOnce'
  <2>1. \A i \in DOMAIN published : published[i] # packets + 1
    BY <1>1, <1>3
  <2>2. \A i \in DOMAIN published :
          /\ published[i] \in corrupt' => published[i] \in corrupt
          /\ published[i] \in overtook => published[i] \in overtook'
    BY <1>1, <2>1
  <2> QED BY <1>1, <2>2 DEF PacketInv, PublishedOnce
<1> QED
  BY <1>4, <1>5, <1>8, <1>9, <1>10, <1>11, <1>12 DEF PacketInv

LEMMA PacketStep == RadioInv /\ PacketInv /\ [Next]_vars => PacketInv'
<1> SUFFICES ASSUME RadioInv, PacketInv, [Next]_vars PROVE PacketInv'
  OBVIOUS
<1>1. CASE Exchange \/ Swallowed \/ Fails \/ \E ok \in BOOLEAN : Receive(ok)
  BY <1>1, PacketExchange, PacketSwallowed, PacketFails, PacketReceive
<1>2. CASE \/ Arm \/ RxEvent \/ PollTimeout \/ TxEvent \/ TxTimeout \/ OtherCommand
           \/ \E fits \in BOOLEAN : LoraTx(fits)
           \/ \E config \in Configs : SetSpreadingFactor(config)
  <2>1. UNCHANGED <<chip, cut, status, fetched, published, corrupt, overtook, misread, packets>>
    BY <1>2 DEF Arm, RxEvent, PollTimeout, TxEvent, TxTimeout, OtherCommand, LoraTx,
                SetSpreadingFactor, history, bounds
  <2>2. \E place \in {"arm", "select", "read", "loop", "txdone", "transmit", "configure"} :
          Goto(place) /\ (place = "txdone" => pc = "txwait")
    BY <1>2 DEF Arm, RxEvent, PollTimeout, TxEvent, TxTimeout, OtherCommand, LoraTx,
                SetSpreadingFactor
  <2> QED BY <2>1, <2>2, PacketGoto
<1>3. CASE TxDone
  <2>1. UNCHANGED <<pc, step, cut, status, fetched, published, corrupt, overtook, misread, packets>>
    BY <1>3 DEF TxDone, task, history, bounds
  <2>2. /\ chip'.packet = chip.packet /\ chip'.mask = chip.mask
        /\ chip'.irqs = chip.irqs \cup (chip.mask \cap {"TxDone"})
    BY <1>3 DEF TxDone, RadioInv, TypeOK, ChipStates
  <2>3. MaskKnown' /\ TxMask' /\ Numbered'
    BY <2>1, <2>2 DEF PacketInv, MaskKnown, TxMask, Numbered
  <2>4. StatusFresh' /\ PendingNew' /\ ReadNew' /\ FetchNew'
    <3>1. /\ chip'.irqs \cap RxIrqs = chip.irqs \cap RxIrqs
          /\ "RxDone" \in chip'.irqs <=> "RxDone" \in chip.irqs
          /\ "CrcErr" \in chip'.irqs <=> "CrcErr" \in chip.irqs
          /\ Clear' = Clear /\ Fetching' = Fetching
      BY <2>1, <2>2 DEF RxIrqs, Clear, Fetching
    <3>2. StatusFresh /\ PendingNew /\ ReadNew /\ FetchNew
      BY DEF PacketInv
    <3>3. StatusFresh' /\ ReadNew'
      BY <2>1, <2>2, <3>1, <3>2 DEF StatusFresh, ReadNew, Once
    <3>4. PendingNew' /\ FetchNew'
      BY <2>1, <2>2, <3>1, <3>2 DEF PendingNew, FetchNew, New, Once
    <3> QED BY <3>3, <3>4
  <2>5. PublishedOnce'
    BY <2>1 DEF PacketInv, PublishedOnce
  <2> QED BY <2>3, <2>4, <2>5 DEF PacketInv
<1>4. CASE UNCHANGED vars
  BY <1>4 DEF vars, task, history, bounds, PacketInv, MaskKnown, TxMask, Numbered,
              StatusFresh, Clear, PendingNew, ReadNew, FetchNew, Fetching, New, Once,
              PublishedOnce
<1> QED
  BY <1>1, <1>2, <1>3, <1>4 DEF Next, TaskStep

(* After any failures, packets are published in the order of arrival, once *)
(* each and with a good CRC.  A packet that arrives between the commands   *)
(* of read_packet may be published twice or with a wrong CRC itself, and   *)
(* disturbs none before or after it.                                       *)
THEOREM Published_Once == Spec => []PublishedOnce
<1>1. Init => PacketInv
  BY DEF Init, ResetChip, None, PacketInv, MaskKnown, TxMask, Numbered, StatusFresh,
         Clear, PendingNew, ReadNew, FetchNew, New, Once, PublishedOnce
<1>2. PacketInv => PublishedOnce
  BY DEF PacketInv
<1> QED
  BY <1>1, <1>2, RadioInvInit, RadioInvStep, PacketStep, PTL DEF Spec

-----------------------------------------------------------------------------
(* During init NSS is high, and the driver is not initialised.             *)
InitOps == {"init", "init_configure", "init_receive"}
InInit ==
  pc \in InitOps => cut = None /\ ~driver.initialised /\ target = dispatcher /\ ~partial

(* Only an initialised driver transmits.                                   *)
Ready == pc = "transmit" \/ cut = "SetTx" => driver.initialised

(* What init has written so far; then all of it, and for good.             *)
InitWritten ==
  /\ pc = "init" => \A k \in 1 .. step - 1 :
       init[k] \in InitSettings => chip.settings[init[k]] # None
  /\ pc \in {"init_configure", "init_receive"} \/ driver.initialised =>
       \A s \in InitSettings : chip.settings[s] # None
  /\ driver.initialised => cut \notin InitSettings

(* What configure has written so far.                                      *)
ConfigWritten ==
  pc \in {"configure", "init_configure"} => \A k \in 1 .. step - 1 :
    configure[k] \in ConfigSettings => chip.settings[configure[k]] = target

(* Outside of configure, and unless one failed, the chip, the driver and   *)
(* the dispatcher have the same configuration.                             *)
ConfigCurrent ==
  (pc = "init_receive" \/ driver.initialised) /\ ~partial /\ ~(pc = "configure" /\ step > 1) =>
    /\ driver.config = dispatcher /\ cut \notin ConfigSettings
    /\ \A s \in ConfigSettings : chip.settings[s] = dispatcher

(* So have the packet parameters of the next transmission.                 *)
ParamsCurrent ==
  ((pc = "transmit" /\ step > 2) \/ cut = "SetTx") /\ ~partial =>
    chip.settings["PacketParams"] = dispatcher

ParamsInv ==
  InInit /\ Ready /\ InitWritten /\ ConfigWritten /\ ConfigCurrent /\ ParamsCurrent

(* A setting changes only when it is written, and when Undone says so.     *)
LEMMA WriteKeeps ==
  ASSUME NEW settings \in [Settings -> Configs \cup {None}], NEW command, NEW value
  PROVE  /\ \A s \in InitSettings :
              command \notin InitSettings => Write(settings, command, value)[s] = settings[s]
         /\ \A s \in ConfigSettings :
              command \notin ConfigSettings => Write(settings, command, value)[s] = settings[s]
         /\ \A s \in Settings : s = command => Write(settings, command, value)[s] = value
         /\ \A s \in Settings \ {command} :
              (command = "Pa" => s # "Ocp") /\ (command = "Tcxo" => s # "Calibration")
                => Write(settings, command, value)[s] = settings[s]
  BY DEF Write, Undone, Settings, InitSettings, ConfigSettings

(* The chip's settings after a command.                                    *)
LEMMA SettingsAfter ==
  ASSUME chip \in ChipStates, NEW command, NEW value
  PROVE  /\ \A s \in InitSettings : command \notin InitSettings =>
              Executed(command, value).settings[s] = chip.settings[s]
         /\ \A s \in ConfigSettings : command \notin ConfigSettings =>
              Executed(command, value).settings[s] = chip.settings[s]
         /\ \A s \in Settings : s = command => Executed(command, value).settings[s] = value
         /\ \A s \in Settings \ {command} :
              (command = "Pa" => s # "Ocp") /\ (command = "Tcxo" => s # "Calibration")
                => Executed(command, value).settings[s] = chip.settings[s]
<1>1. chip.settings \in [Settings -> Configs \cup {None}]
  BY DEF ChipStates
<1>2. CASE command \in Settings
  <2>1. Executed(command, value).settings = Write(chip.settings, command, value)
    BY <1>2, Effects
  <2> QED BY <1>1, <2>1, WriteKeeps
<1>3. CASE command \notin Settings
  <2>1. Executed(command, value).settings = chip.settings
    BY <1>3, Effects
  <2> QED BY <1>3, <2>1
<1> QED BY <1>2, <1>3

(* The driver after a command.                                             *)
LEMMA DriverAfter ==
  ASSUME driver \in DriverStates, NEW command
  PROVE  /\ After(command).initialised =
              (driver.initialised \/ (command = "SetRx" /\ pc = "init_receive"))
         /\ command # "TxPower" => After(command).config = driver.config
         /\ command = "TxPower" => After(command).config = target
         /\ Before(command).initialised = driver.initialised
         /\ Before(command).config = driver.config
  BY DEF After, Before, DriverStates

(* Steps that only move lora_task, outside of an operation.                *)
LEMMA ParamsGoto ==
  ASSUME ParamsInv, NEW place, Goto(place), pc \in {"loop", "select", "txwait"},
         place \notin InitOps, place = "transmit" => driver.initialised,
         UNCHANGED <<chip, cut, driver, dispatcher, partial>>
  PROVE  ParamsInv'
<1>1. pc' = place /\ step' = 1
  BY DEF Goto
<1>2. InInit' /\ Ready'
  BY <1>1 DEF ParamsInv, InInit, Ready
<1>3. InitWritten'
  BY <1>1 DEF ParamsInv, InitWritten, InitOps
<1>4. ConfigWritten'
  BY <1>1 DEF ConfigWritten
<1>5. ConfigCurrent'
  BY <1>1 DEF ParamsInv, ConfigCurrent, InitOps
<1>6. ParamsCurrent'
  BY <1>1 DEF ParamsInv, ParamsCurrent
<1> QED BY <1>2, <1>3, <1>4, <1>5, <1>6 DEF ParamsInv

(* An exchange that a cut transfer swallows: what the chip may execute     *)
(* late writes nothing that the next transmission relies on.               *)
LEMMA ParamsSwallowed ==
  ASSUME RadioInv, ParamsInv, Swallowed
  PROVE  ParamsInv'
<1>1. /\ TypeOK /\ pc \in Ops /\ step = 1 /\ Current \in {"Standby", "GetIrq"}
      /\ chip \in ChipStates /\ driver \in DriverStates /\ Advance
  BY SwallowedFirst DEF Swallowed, RadioInv, TypeOK
<1>2. /\ cut # None /\ cut' = None /\ chip' \in {chip, Executed(cut, None)}
      /\ driver' = After(Current) /\ target' = target
  BY DEF Swallowed
<1>3. driver'.initialised = driver.initialised /\ driver'.config = driver.config
  <2>1. /\ driver'.initialised = (driver.initialised \/ (Current = "SetRx" /\ pc = "init_receive"))
        /\ Current # "TxPower" => driver'.config = driver.config
    BY <1>1, <1>2, DriverAfter
  <2>2. Current # "SetRx" /\ Current # "TxPower" /\ driver.initialised \in BOOLEAN
    BY <1>1 DEF DriverStates
  <2> QED BY <2>1, <2>2
<1>4. pc \notin InitOps
  BY <1>2 DEF ParamsInv, InInit
<1>5. pc \in {"transmit", "configure"} => Len(Program[pc]) # 1
  <2>1. Len(transmit) = 6 /\ Len(configure) = 11
    BY DEF transmit, configure
  <2> QED BY <2>1 DEF Program
<1>6. \/ pc' = pc /\ step' = 2 /\ UNCHANGED <<dispatcher, partial>>
      \/ /\ step' = 1 /\ pc \notin {"transmit", "configure"}
         /\ pc' \in {"select", "fetch", "loop"} /\ UNCHANGED <<dispatcher, partial>>
  <2>1. CASE step < Len(Program[pc]) /\ pc' = pc /\ step' = step + 1
               /\ UNCHANGED <<dispatcher, partial, published>>
    BY <1>1, <2>1
  <2>2. CASE step = Len(Program[pc]) /\ Return
    <3>1. pc \notin {"transmit", "configure"}
      BY <1>1, <1>5, <2>2
    <3>2. UNCHANGED <<dispatcher, partial>>
      BY <2>2, <3>1, Zenon DEF Return
    <3> QED BY <1>1, <1>4, <2>2, <3>1, <3>2, ReturnTo DEF InitOps
  <2> QED BY <1>1, <2>1, <2>2 DEF Advance
<1>7. pc' \notin InitOps
  BY <1>4, <1>6 DEF InitOps
<1>8. InInit' /\ Ready'
  BY <1>1, <1>2, <1>3, <1>6, <1>7 DEF ParamsInv, InInit, Ready, None
<1>9. InitWritten'
  <2>1. driver'.initialised => \A s \in InitSettings : chip'.settings[s] = chip.settings[s]
    BY <1>1, <1>2, <1>3, SettingsAfter DEF ParamsInv, InitWritten
  <2>2. None \notin InitSettings
    BY DEF InitSettings, None
  <2> QED BY <1>2, <1>3, <1>7, <2>1, <2>2 DEF ParamsInv, InitWritten, InitOps
<1>10. ConfigWritten'
  <2>1. ASSUME pc' \in {"configure", "init_configure"} PROVE step' = 2
    BY <1>4, <1>6, <2>1
  <2>2. configure[1] \notin ConfigSettings
    BY DEF configure, ConfigSettings
  <2> SUFFICES ASSUME pc' \in {"configure", "init_configure"}, NEW k \in 1 .. step' - 1
               PROVE  configure[k] \notin ConfigSettings
    BY DEF ConfigWritten
  <2>3. k = 1
    BY <2>1
  <2> QED BY <2>2, <2>3
<1>11. ConfigCurrent'
  <2> SUFFICES ASSUME driver'.initialised, ~partial', ~(pc' = "configure" /\ step' > 1)
               PROVE  /\ driver'.config = dispatcher' /\ cut' \notin ConfigSettings
                      /\ \A s \in ConfigSettings : chip'.settings[s] = dispatcher'
    BY <1>7 DEF ConfigCurrent, InitOps
  <2>1. pc # "configure" /\ ~partial /\ driver.initialised
    BY <1>3, <1>6
  <2>2. /\ driver.config = dispatcher /\ cut \notin ConfigSettings
        /\ \A s \in ConfigSettings : chip.settings[s] = dispatcher
    BY <2>1 DEF ParamsInv, ConfigCurrent
  <2>3. \A s \in ConfigSettings : chip'.settings[s] = chip.settings[s]
    BY <1>1, <1>2, <2>2, SettingsAfter
  <2>4. None \notin ConfigSettings
    BY DEF ConfigSettings, None
  <2> QED BY <1>2, <1>3, <1>6, <2>2, <2>3, <2>4
<1>12. ParamsCurrent'
  BY <1>2, <1>6 DEF ParamsCurrent, None
<1> QED BY <1>8, <1>9, <1>10, <1>11, <1>12 DEF ParamsInv

(* An exchange that fails: a configure that is cut short is noted.         *)
LEMMA ParamsFails ==
  ASSUME RadioInv, ParamsInv, Fails
  PROVE  ParamsInv'
<1>1. /\ TypeOK /\ pc \in Ops /\ step \in DOMAIN Program[pc] /\ Usable(pc) /\ Placed(pc)
      /\ driver \in DriverStates
  BY Programs, Places DEF Fails, RadioInv, TypeOK
<1>2. /\ pc' \in {"select", "loop"} /\ step' = 1
      /\ cut' = cut \/ cut' = None \/ (cut = None /\ cut' = Current)
      /\ driver' = Before(Current) /\ target' = dispatcher
      /\ partial' = (partial \/ (pc = "configure" /\ step > 1))
      /\ UNCHANGED <<chip, dispatcher>>
  BY DEF Fails, Goto
<1>3. driver'.initialised = driver.initialised /\ driver'.config = driver.config
  BY <1>1, <1>2, DriverAfter
<1>4. InInit' /\ ConfigWritten'
  BY <1>2 DEF InInit, ConfigWritten, InitOps
<1>5. Current = "SetTx" => pc = "transmit" /\ step > 2
  <2>1. Current = "SetTx" => pc = "transmit" /\ step \notin {1, 2}
    BY <1>1 DEF Placed, Current
  <2> QED BY <1>1, <2>1 DEF Usable
<1>6. Ready'
  BY <1>2, <1>3, <1>5 DEF ParamsInv, Ready, None
<1>7. InitWritten'
  <2>1. driver.initialised => Current \notin InitSettings /\ None \notin InitSettings
    BY <1>1 DEF Placed, Current, ParamsInv, InInit, InitOps, None, InitSettings
  <2> QED BY <1>2, <1>3, <2>1 DEF ParamsInv, InitWritten
<1>8. ConfigCurrent'
  <2> SUFFICES ASSUME driver'.initialised, ~partial'
               PROVE  /\ driver'.config = dispatcher' /\ cut' \notin ConfigSettings
                      /\ \A s \in ConfigSettings : chip'.settings[s] = dispatcher'
    BY <1>2 DEF ConfigCurrent
  <2>1. /\ driver.config = dispatcher /\ cut \notin ConfigSettings
        /\ \A s \in ConfigSettings : chip.settings[s] = dispatcher
    BY <1>2, <1>3 DEF ParamsInv, ConfigCurrent
  <2>2. Current \notin ConfigSettings
    <3>1. pc # "init_configure"
      BY <1>3 DEF ParamsInv, InInit, InitOps
    <3>2. pc = "configure" => step = 1
      <4>1. ~(pc = "configure" /\ step > 1)
        BY <1>2, Zenon
      <4>2. step \in Nat \ {0}
        BY <1>1 DEF Usable
      <4> QED BY <4>1, <4>2
    <3>3. pc = "configure" => Current = "Standby"
      BY <1>1, <3>2 DEF Usable, Current
    <3> QED BY <1>1, <3>1, <3>3 DEF Placed, Current, ConfigSettings
  <2>3. None \notin ConfigSettings
    BY DEF ConfigSettings, None
  <2> QED BY <1>2, <1>3, <2>1, <2>2, <2>3
<1>9. ParamsCurrent'
  BY <1>2, <1>5 DEF ParamsInv, ParamsCurrent, None
<1> QED BY <1>4, <1>6, <1>7, <1>8, <1>9 DEF ParamsInv

(* init and configure write no setting twice, and undo none that they have *)
(* written; between them they write every setting but one.                 *)
LEMMA InitOrder ==
  /\ Len(init) = 10 /\ \A k \in 1 .. 10 : init[k] \notin {"PacketParams", "TxPower", "SetRx"}
  /\ \A j, k \in 1 .. 10 : j < k =>
       init[j] # init[k] /\ init[k] # "Pa" /\ (init[k] = "Tcxo" => init[j] # "Calibration")
  /\ InitSettings \subseteq {init[k] : k \in 1 .. 10}
<1>1. Len(init) = 10
  BY DEF init
<1>2. \A k \in 1 .. 10 : init[k] \notin {"PacketParams", "TxPower", "SetRx", "Pa"}
  BY DEF init
<1>3. /\ init[1] = "Standby" /\ init[2] = "Regulator" /\ init[3] = "Tcxo"
      /\ init[4] = "Calibration" /\ init[5] = "ClearErrors" /\ init[6] = "ReadTxClamp"
      /\ init[7] = "TxClamp" /\ init[8] = "RfSwitch" /\ init[9] = "PacketType"
      /\ init[10] = "BufferBase"
  BY DEF init
<1>4. \A j, k \in 1 .. 10 : j < k => init[j] # init[k]
  BY <1>3
<1>5. \A j, k \in 1 .. 10 : j < k /\ init[k] = "Tcxo" => init[j] # "Calibration"
  BY <1>3
<1>6. InitSettings \subseteq {init[k] : k \in 1 .. 10}
  BY <1>3 DEF InitSettings
<1> QED BY <1>1, <1>2, <1>4, <1>5, <1>6

LEMMA ConfigureOrder ==
  /\ Len(configure) = 11 /\ configure[11] = "TxPower"
  /\ \A k \in 1 .. 11 : configure[k] \notin {"PacketParams", "SetRx", "Tcxo"}
  /\ \A j, k \in 1 .. 11 : j < k =>
       configure[j] # configure[k] /\ (configure[k] = "Pa" => configure[j] # "Ocp")
  /\ ConfigSettings \subseteq {configure[k] : k \in 1 .. 11}
<1>1. Len(configure) = 11
  BY DEF configure
<1>2. \A k \in 1 .. 11 : configure[k] \notin {"PacketParams", "SetRx", "Tcxo"}
  BY DEF configure
<1>3. /\ configure[1] = "Standby" /\ configure[2] = "Frequency" /\ configure[3] = "Image"
      /\ configure[4] = "Modulation" /\ configure[5] = "SyncMsb" /\ configure[6] = "SyncLsb"
      /\ configure[7] = "ReadIqPolarity" /\ configure[8] = "IqPolarity"
      /\ configure[9] = "Pa" /\ configure[10] = "Ocp" /\ configure[11] = "TxPower"
  BY DEF configure
<1>4. \A j, k \in 1 .. 11 : j < k => configure[j] # configure[k]
  BY <1>3
<1>5. \A j, k \in 1 .. 11 : j < k /\ configure[k] = "Pa" => configure[j] # "Ocp"
  BY <1>3
<1>6. ConfigSettings \subseteq {configure[k] : k \in 1 .. 11}
  BY <1>3 DEF ConfigSettings
<1> QED BY <1>1, <1>2, <1>3, <1>4, <1>5, <1>6

(* An exchange of init.                                                    *)
LEMMA ParamsInit ==
  ASSUME RadioInv, ParamsInv, Exchange, pc = "init"
  PROVE  ParamsInv'
<1>1. /\ TypeOK /\ pc \in Ops /\ chip \in ChipStates /\ driver \in DriverStates
      /\ target \in Configs /\ Advance
  BY DEF Exchange, RadioInv, TypeOK
<1>2. Program[pc] = init
  BY DEF Program
<1>3. step \in 1 .. 10 /\ Current = init[step]
  BY <1>1, <1>2, InitOrder DEF TypeOK, Current, init
<1>4. Current \notin {"PacketParams", "TxPower", "SetRx"} /\ Current # "Pa"
  BY <1>3 DEF init
<1>5. /\ cut' = None /\ target' = target /\ driver' = After(Current)
      /\ chip' = Executed(Current, target)
  BY <1>4 DEF Exchange, ValueOf
<1>6. ~driver'.initialised /\ ~driver.initialised /\ target = dispatcher /\ ~partial
  BY <1>1, <1>4, <1>5, DriverAfter DEF ParamsInv, InInit, InitOps
<1>7. /\ UNCHANGED <<dispatcher, partial>>
      /\ \/ pc' = "init" /\ step' = step + 1
         \/ pc' = "init_configure" /\ step' = 1 /\ step = 10
  <2>1. CASE pc' = pc /\ step' = step + 1 /\ UNCHANGED <<dispatcher, partial>>
    BY <2>1
  <2>2. CASE step = Len(Program[pc]) /\ Return
    <3>1. UNCHANGED <<dispatcher, partial>> /\ pc' = "init_configure" /\ step' = 1
      BY <2>2 DEF Return, Goto
    <3> QED BY <1>2, <2>2, <3>1, InitOrder
  <2> QED BY <1>1, <2>1, <2>2 DEF Advance
<1>8. \A k \in 1 .. step : init[k] \in InitSettings => chip'.settings[init[k]] # None
  <2> SUFFICES ASSUME NEW k \in 1 .. step, init[k] \in InitSettings
               PROVE  chip'.settings[init[k]] # None
    OBVIOUS
  <2>1. init[k] \in Settings
    BY DEF Settings
  <2>2. CASE k = step
    BY <1>1, <1>3, <1>5, <2>1, <2>2, SettingsAfter, RadioAssumption
  <2>3. CASE k < step
    <3>1. chip.settings[init[k]] # None
      <4>1. k \in 1 .. step - 1
        BY <1>3, <2>3
      <4> QED BY <4>1 DEF ParamsInv, InitWritten
    <3>2. init[k] # Current /\ (Current = "Tcxo" => init[k] # "Calibration")
      <4>1. k \in 1 .. 10
        BY <1>3
      <4> QED BY <1>3, <2>3, <4>1, InitOrder
    <3> QED BY <1>1, <1>4, <1>5, <2>1, <3>1, <3>2, SettingsAfter
  <2>4. k = step \/ k < step
    BY <1>3
  <2> QED BY <2>2, <2>3, <2>4
<1>9. InInit' /\ Ready'
  BY <1>5, <1>6, <1>7 DEF InInit, Ready, None
<1>10. InitWritten'
  <2>1. CASE pc' = "init" /\ step' = step + 1
    <3>1. \A k \in 1 .. step' - 1 : k \in 1 .. step
      BY <1>3, <2>1
    <3> QED BY <1>6, <1>8, <2>1, <3>1 DEF InitWritten
  <2>2. CASE pc' = "init_configure" /\ step = 10
    <3>1. \A s \in InitSettings : chip'.settings[s] # None
      BY <1>8, <2>2, InitOrder
    <3> QED BY <1>6, <2>2, <3>1 DEF InitWritten
  <2> QED BY <1>7, <2>1, <2>2
<1>11. ConfigWritten'
  BY <1>7 DEF ConfigWritten
<1>12. ConfigCurrent' /\ ParamsCurrent'
  BY <1>5, <1>6, <1>7 DEF ConfigCurrent, ParamsCurrent, None
<1> QED BY <1>9, <1>10, <1>11, <1>12 DEF ParamsInv

(* An exchange of configure.                                               *)
LEMMA ParamsConfigure ==
  ASSUME RadioInv, ParamsInv, Exchange, pc \in {"configure", "init_configure"}
  PROVE  ParamsInv'
<1>1. /\ TypeOK /\ pc \in Ops /\ chip \in ChipStates /\ driver \in DriverStates
      /\ target \in Configs /\ Advance
  BY DEF Exchange, RadioInv, TypeOK
<1>2. Program[pc] = configure
  BY DEF Program
<1>3. step \in 1 .. 11 /\ Current = configure[step]
  BY <1>1, <1>2, ConfigureOrder DEF TypeOK, Current, configure
<1>4. Current \notin {"PacketParams", "SetRx", "Tcxo"} /\ (step = 11 => Current = "TxPower")
  BY <1>3, ConfigureOrder
<1>5. /\ cut' = None /\ target' = target /\ driver' = After(Current)
      /\ chip' = Executed(Current, target)
  BY <1>4 DEF Exchange, ValueOf
<1>6. (driver'.initialised <=> driver.initialised) /\ (step = 11 => driver'.config = target)
  BY <1>1, <1>4, <1>5, DriverAfter
<1>7. \/ pc' = pc /\ step' = step + 1 /\ step < 11 /\ UNCHANGED <<dispatcher, partial>>
      \/ /\ step = 11 /\ step' = 1
         /\ pc = "configure" => pc' = "loop" /\ dispatcher' = target /\ partial' = FALSE
         /\ pc = "init_configure" => pc' = "init_receive" /\ UNCHANGED <<dispatcher, partial>>
  <2>1. CASE step < Len(Program[pc]) /\ pc' = pc /\ step' = step + 1
               /\ UNCHANGED <<dispatcher, partial>>
    BY <1>2, <2>1, ConfigureOrder
  <2>2. CASE step = Len(Program[pc]) /\ Return
    <3>1. pc = "configure" => pc' = "loop" /\ dispatcher' = target /\ partial' = FALSE
      BY <2>2 DEF Return, Goto
    <3>2. pc = "init_configure" => pc' = "init_receive" /\ UNCHANGED <<dispatcher, partial>>
      BY <2>2 DEF Return, Goto
    <3>3. step = 11 /\ step' = 1
      BY <1>1, <1>2, <2>2, ConfigureOrder, ReturnTo
    <3> QED BY <3>1, <3>2, <3>3
  <2> QED BY <1>1, <2>1, <2>2 DEF Advance
<1>8. \A k \in 1 .. step :
        configure[k] \in ConfigSettings => chip'.settings[configure[k]] = target
  <2> SUFFICES ASSUME NEW k \in 1 .. step, configure[k] \in ConfigSettings
               PROVE  chip'.settings[configure[k]] = target
    OBVIOUS
  <2>1. configure[k] \in Settings
    BY DEF Settings
  <2>2. CASE k = step
    BY <1>1, <1>3, <1>5, <2>1, <2>2, SettingsAfter
  <2>3. CASE k < step
    <3>1. chip.settings[configure[k]] = target
      <4>1. k \in 1 .. step - 1
        BY <1>3, <2>3
      <4> QED BY <4>1 DEF ParamsInv, ConfigWritten
    <3>2. configure[k] # Current /\ (Current = "Pa" => configure[k] # "Ocp")
      <4>1. k \in 1 .. 11
        BY <1>3
      <4> QED BY <1>3, <2>3, <4>1, ConfigureOrder
    <3> QED BY <1>1, <1>4, <1>5, <2>1, <3>1, <3>2, SettingsAfter
  <2>4. k = step \/ k < step
    BY <1>3
  <2> QED BY <2>2, <2>3, <2>4
<1>9. step = 11 => \A s \in ConfigSettings : chip'.settings[s] = target
  BY <1>8, ConfigureOrder
<1>10. pc = "init_configure" =>
         ~driver.initialised /\ target = dispatcher /\ ~partial
  BY DEF ParamsInv, InInit, InitOps
<1>11. InInit' /\ Ready'
  BY <1>5, <1>6, <1>7, <1>10 DEF InInit, Ready, None, InitOps
<1>12. InitWritten'
  <2>1. Current \notin InitSettings
    BY <1>1, Places DEF Placed, Current, TypeOK
  <2>2. \A s \in InitSettings : chip'.settings[s] = chip.settings[s]
    BY <1>1, <1>5, <2>1, SettingsAfter
  <2>3. None \notin InitSettings
    BY DEF None, InitSettings
  <2>4. pc' # "init" /\ (pc' \in {"init_configure", "init_receive"} => pc = "init_configure")
    BY <1>7
  <2> QED BY <1>5, <1>6, <2>2, <2>3, <2>4 DEF ParamsInv, InitWritten
<1>13. ConfigWritten'
  <2> SUFFICES ASSUME pc' \in {"configure", "init_configure"}
               PROVE  ConfigWritten'
    BY DEF ConfigWritten
  <2>1. \A k \in 1 .. step' - 1 : k \in 1 .. step
    BY <1>3, <1>7
  <2> QED BY <1>5, <1>8, <2>1 DEF ConfigWritten
<1>14. ConfigCurrent'
  <2>1. CASE pc' = pc /\ step' = step + 1
    <3>1. ~(pc' = "init_receive" \/ driver'.initialised) \/ (pc' = "configure" /\ step' > 1)
      BY <1>3, <1>6, <1>10, <2>1
    <3> QED BY <3>1 DEF ConfigCurrent
  <2>2. CASE step = 11 /\ dispatcher' = target
    <3>1. None \notin ConfigSettings
      BY DEF ConfigSettings, None
    <3> QED BY <1>5, <1>6, <1>9, <2>2, <3>1 DEF ConfigCurrent
  <2> QED BY <1>7, <1>10, <2>1, <2>2
<1>15. ParamsCurrent'
  BY <1>5, <1>7 DEF ParamsCurrent, None
<1> QED BY <1>11, <1>12, <1>13, <1>14, <1>15 DEF ParamsInv

(* An exchange of any other operation.                                     *)
LEMMA ParamsOther ==
  ASSUME RadioInv, ParamsInv, Exchange, pc \notin {"init", "configure", "init_configure"}
  PROVE  ParamsInv'
<1>1. /\ TypeOK /\ pc \in Ops /\ chip \in ChipStates /\ driver \in DriverStates
      /\ Advance /\ step \in DOMAIN Program[pc] /\ Usable(pc) /\ Placed(pc)
  BY Programs, Places DEF Exchange, RadioInv, TypeOK
<1>2. /\ cut' = None /\ target' = target /\ driver' = After(Current)
      /\ chip' = Executed(Current, ValueOf(Current))
  BY DEF Exchange
<1>3. Current \notin InitSettings /\ Current \notin ConfigSettings
  BY <1>1 DEF Placed, Current
<1>4. /\ \A s \in InitSettings : chip'.settings[s] = chip.settings[s]
      /\ \A s \in ConfigSettings : chip'.settings[s] = chip.settings[s]
  BY <1>1, <1>2, <1>3, SettingsAfter
<1>5. /\ driver'.initialised => driver.initialised \/ pc = "init_receive"
      /\ driver.initialised => driver'.initialised
      /\ driver'.config = driver.config
  <2>1. Current # "TxPower"
    BY <1>3 DEF ConfigSettings
  <2> QED BY <1>1, <1>2, <2>1, DriverAfter
<1>6. /\ UNCHANGED <<dispatcher, partial>>
      /\ \/ pc' = pc /\ step' = step + 1 /\ step < Len(Program[pc])
         \/ pc' \in {"select", "txwait", "fetch", "loop"} /\ step' = 1
  <2>1. CASE step < Len(Program[pc]) /\ pc' = pc /\ step' = step + 1
               /\ UNCHANGED <<dispatcher, partial>>
    BY <2>1
  <2>2. CASE Return
    <3>1. UNCHANGED <<dispatcher, partial>>
      BY <2>2 DEF Return
    <3> QED BY <1>1, <2>2, <3>1, ReturnTo
  <2> QED BY <1>1, <2>1, <2>2 DEF Advance
<1>7. InInit'
  <2> SUFFICES ASSUME pc' = "init_receive"
               PROVE  ~driver'.initialised /\ target' = dispatcher' /\ ~partial'
    BY <1>2, <1>6 DEF InInit, InitOps
  <2>1. pc = "init_receive" /\ step < 5
    <3>1. pc = "init_receive" /\ step < Len(Program[pc])
      BY <1>6
    <3>2. Len(Program[pc]) = 5
      BY <1>1, <3>1 DEF Usable
    <3> QED BY <3>1, <3>2
  <2>2. Current # "SetRx"
    <3>1. step \in {1, 2, 3, 4}
      BY <1>1, <2>1 DEF Usable
    <3> QED BY <1>1, <2>1, <3>1 DEF Usable, Current
  <2>3. ~driver.initialised /\ target = dispatcher /\ ~partial
    BY <2>1 DEF ParamsInv, InInit, InitOps
  <2> QED BY <1>1, <1>2, <1>6, <2>2, <2>3, DriverAfter
<1>8. Ready'
  BY <1>2, <1>5, <1>6 DEF ParamsInv, Ready, None
<1>9. InitWritten' /\ ConfigWritten'
  <2>1. None \notin InitSettings
    BY DEF None, InitSettings
  <2>2. pc' \notin {"init", "configure", "init_configure"}
    BY <1>6
  <2>3. pc' = "init_receive" \/ driver'.initialised => pc = "init_receive" \/ driver.initialised
    BY <1>5, <1>6
  <2> QED BY <1>2, <1>4, <2>1, <2>2, <2>3 DEF ParamsInv, InitWritten, ConfigWritten
<1>10. ConfigCurrent'
  <2>1. None \notin ConfigSettings
    BY DEF None, ConfigSettings
  <2>2. pc' = "init_receive" \/ driver'.initialised => pc = "init_receive" \/ driver.initialised
    BY <1>5, <1>6
  <2> QED BY <1>2, <1>4, <1>5, <1>6, <2>1, <2>2 DEF ParamsInv, ConfigCurrent
<1>11. ParamsCurrent'
  <2> SUFFICES ASSUME pc' = "transmit", step' > 2, ~partial'
               PROVE  chip'.settings["PacketParams"] = dispatcher'
    BY <1>2 DEF ParamsCurrent, None
  <2>1. pc = "transmit" /\ step' = step + 1 /\ step \in Nat \ {0} /\ ~partial
    <3>1. pc = "transmit" /\ step' = step + 1 /\ ~partial
      BY <1>6
    <3>2. step \in Nat \ {0}
      BY <1>1 DEF Usable
    <3> QED BY <3>1, <3>2
  <2>2. "PacketParams" \in Settings
    BY DEF Settings
  <2>3. CASE step = 2
    <3>1. Current = "PacketParams"
      BY <1>1, <2>1, <2>3 DEF Placed, Current
    <3>2. driver.config = dispatcher
      BY <2>1 DEF ParamsInv, Ready, ConfigCurrent
    <3> QED BY <1>1, <1>2, <1>6, <2>2, <3>1, <3>2, SettingsAfter DEF ValueOf
  <2>4. CASE step > 2
    <3>1. Current \in {"WriteBuffer", "IrqTx", "ClearIrq", "SetTx"}
      <4>1. step \in {3, 4, 5, 6}
        <5> DEFINE n == Len(Program[pc])
        <5>1. step \in 1 .. n /\ n = 6
          BY <1>1, <2>1 DEF Usable, Placed
        <5> HIDE DEF n
        <5> QED BY <2>4, <5>1
      <4> QED BY <1>1, <2>1, <4>1 DEF Placed, Current
    <3>2. chip'.settings["PacketParams"] = chip.settings["PacketParams"]
      BY <1>1, <1>2, <2>2, <3>1, SettingsAfter
    <3> QED BY <1>6, <2>1, <2>4, <3>2 DEF ParamsInv, ParamsCurrent
  <2>5. step = 2 \/ step > 2
    BY <2>1
  <2> QED BY <2>3, <2>4, <2>5
<1> QED BY <1>7, <1>8, <1>9, <1>10, <1>11 DEF ParamsInv

LEMMA ParamsStep == RadioInv /\ ParamsInv /\ [Next]_vars => ParamsInv'
<1> SUFFICES ASSUME RadioInv, ParamsInv, [Next]_vars PROVE ParamsInv'
  OBVIOUS
<1>1. CASE Exchange \/ Swallowed \/ Fails
  BY <1>1, ParamsInit, ParamsConfigure, ParamsOther, ParamsSwallowed, ParamsFails
<1>2. CASE \/ Arm \/ RxEvent \/ PollTimeout \/ TxEvent \/ TxTimeout \/ OtherCommand
           \/ \E fits \in BOOLEAN : LoraTx(fits)
           \/ \E config \in Configs : SetSpreadingFactor(config)
  <2>1. UNCHANGED <<chip, cut, driver, dispatcher, partial>> /\ pc \in {"loop", "select", "txwait"}
    BY <1>2 DEF Arm, RxEvent, PollTimeout, TxEvent, TxTimeout, OtherCommand, LoraTx,
                SetSpreadingFactor, TakeCommand, history
  <2>2. \E place \in {"arm", "select", "read", "loop", "txdone", "transmit", "configure"} :
          Goto(place) /\ (place = "transmit" => driver.initialised)
    BY <1>2 DEF Arm, RxEvent, PollTimeout, TxEvent, TxTimeout, OtherCommand, LoraTx,
                SetSpreadingFactor
  <2> QED BY <2>1, <2>2, ParamsGoto DEF InitOps
<1>3. CASE TxDone \/ UNCHANGED vars \/ \E ok \in BOOLEAN : Receive(ok)
  <2>1. UNCHANGED <<pc, step, cut, driver, dispatcher, target, partial>>
    BY <1>3 DEF TxDone, Receive, vars, task, history
  <2>2. chip'.settings = chip.settings
    BY <1>3 DEF TxDone, Receive, vars, RadioInv, TypeOK, ChipStates
  <2> QED
    BY <2>1, <2>2
       DEF ParamsInv, InInit, Ready, InitWritten, ConfigWritten, ConfigCurrent, ParamsCurrent
<1> QED
  BY <1>1, <1>2, <1>3 DEF Next, TaskStep

(* The steps that put a packet on the air.                                 *)
LEMMA TxStart ==
  ASSUME RadioInv, [Next]_vars, chip.mode # "tx", chip'.mode = "tx"
  PROVE  (pc = "transmit" /\ step > 2) \/ (cut = "SetTx" /\ step = 1)
<1>1. TypeOK /\ chip \in ChipStates
  BY DEF RadioInv, TypeOK
<1>2. CASE Exchange
  <2>1. /\ chip' = Executed(Current, ValueOf(Current))
        /\ pc \in Ops /\ step \in DOMAIN Program[pc] /\ Usable(pc) /\ Placed(pc)
    BY <1>1, <1>2, Programs, Places DEF Exchange, TypeOK
  <2>2. Current = "SetTx"
    BY <1>1, <2>1, Effects
  <2>3. pc = "transmit" /\ step \notin {1, 2}
    BY <2>1, <2>2 DEF Placed, Current
  <2>4. step \in Nat \ {0}
    BY <2>1 DEF Usable
  <2> QED BY <2>3, <2>4
<1>3. CASE Swallowed
  <2>1. chip' \in {chip, Executed(cut, None)} /\ step = 1
    BY <1>3, SwallowedFirst DEF Swallowed
  <2> QED BY <1>1, <2>1, Effects
<1>4. CASE TxDone \/ \E ok \in BOOLEAN : Receive(ok)
  <2>1. chip'.mode \in {"standby", chip.mode}
    BY <1>1, <1>4 DEF TxDone, Receive, ChipStates
  <2> QED BY <2>1
<1>5. CASE UNCHANGED chip
  BY <1>5
<1> QED
  BY <1>2, <1>3, <1>4, <1>5
  DEF Next, TaskStep, vars, Fails, Arm, RxEvent, PollTimeout, TxEvent, TxTimeout, OtherCommand,
      LoraTx, SetSpreadingFactor

(* Every transmission, also one that the chip starts late, has all of its  *)
(* settings from the configuration that its airtime was computed from,     *)
(* unless the last SetSpreadingFactor failed half way.                     *)
THEOREM On_Air_As_Claimed == Spec => OnAirAsClaimed
<1> DEFINE AsClaimed ==
      chip.mode # "tx" /\ chip'.mode = "tx" /\ ~partial =>
        /\ \A s \in ConfigSettings \cup {"PacketParams"} : chip.settings[s] = dispatcher
        /\ \A s \in InitSettings : chip.settings[s] # None
<1>1. Init => ParamsInv
  <2> SUFFICES ASSUME Init PROVE ParamsInv
    OBVIOUS
  <2>1. \A k \in 1 .. step - 1 : FALSE
    BY DEF Init
  <2> QED
    BY <2>1 DEF Init, None, ParamsInv, InInit, Ready, InitWritten, ConfigWritten, ConfigCurrent,
                ParamsCurrent
<1>2. RadioInv /\ ParamsInv /\ [Next]_vars => AsClaimed
  <2> SUFFICES ASSUME RadioInv, ParamsInv, [Next]_vars,
                      chip.mode # "tx", chip'.mode = "tx", ~partial
               PROVE  /\ \A s \in ConfigSettings \cup {"PacketParams"} :
                           chip.settings[s] = dispatcher
                      /\ \A s \in InitSettings : chip.settings[s] # None
    OBVIOUS
  <2>1. (pc = "transmit" /\ step > 2) \/ (cut = "SetTx" /\ step = 1)
    BY TxStart
  <2>2. driver.initialised /\ ~(pc = "configure" /\ step > 1)
    BY <2>1 DEF ParamsInv, Ready
  <2> QED
    BY <2>1, <2>2 DEF ParamsInv, InitWritten, ConfigCurrent, ParamsCurrent
<1>3. RadioInv /\ ParamsInv /\ [Next]_vars => [AsClaimed]_vars
  BY <1>2
<1> QED
  BY <1>1, <1>3, RadioInvInit, RadioInvStep, ParamsStep, PTL DEF Spec, OnAirAsClaimed

===============================================================================
