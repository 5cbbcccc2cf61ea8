--------------------------------- MODULE Radio ---------------------------------
(***************************************************************************)
(* The SX1262 driver, and lora_task with the dispatcher that drive it in   *)
(* bridge mode.  An operation of the driver is a program of commands, each *)
(* one exchanged over SPI in a step of its own; the chip stays busy, or    *)
(* the transfer fails, at any of them, and the operation returns there.    *)
(*                                                                         *)
(* The chip is external.  What matters of a register is the configuration  *)
(* it was last written from, so a setting is a member of Configs, or None  *)
(* when it has its reset value or an unknown one.  The chip decodes an     *)
(* opcode when NSS falls and executes it when NSS rises: after a transfer  *)
(* that failed with NSS low, the next exchange belongs to the same         *)
(* transaction.                                                            *)
(***************************************************************************)
EXTENDS Integers, Sequences, FiniteSets

CONSTANTS
  Configs,       \* the LoraConfigs, one for each spreading factor
  Default,       \* LoraConfig::default()
  MaxCommands,   \* bound: host commands
  MaxPackets,    \* bound: packets on the air
  MaxFaults      \* bound: failed exchanges and missing interrupts

None == "none"

ASSUME RadioAssumption ==
  /\ Default \in Configs /\ None \notin Configs
  /\ MaxCommands \in Nat /\ MaxPackets \in Nat /\ MaxFaults \in Nat

VARIABLES
  chip,         \* the SX1262
  cut,          \* the command that failed with NSS low, or None: NSS is high
  driver,       \* Sx1262Driver: initialised, in_continuous_rx, config
  dispatcher,   \* CommandDispatcher.config: what the airtime is computed from
  pc, step,     \* the operation lora_task is in, and the command it is at
  target,       \* the configuration that configure writes
  status,       \* the interrupts read by get_irq_status
  fetched,      \* the packet that get_rx_buffer_status points to
  partial,      \* history: the last configure failed after its first command
  claims,       \* history: airtime claims granted and not yet used on the air
  published,    \* history: the packets published
  corrupt,      \* history: the packets received with a wrong CRC
  overtook,     \* history: the packets that arrived when the commands for the one
                \*          before could take them for it
  misread,      \* history: the packets there when the interrupts read were garbage
  commands, packets, faults   \* history: counts for the bounds

task == <<pc, step, target, status, fetched>>
history == <<partial, claims, published, corrupt, overtook, misread>>
bounds == <<commands, packets, faults>>
vars == <<chip, cut, driver, dispatcher, task, history, bounds>>

-----------------------------------------------------------------------------
(* The programs.  A command that sets something has the name of what it    *)
(* sets.                                                                   *)

(* Written once, by init.                                                  *)
InitSettings ==
  {"Regulator", "Tcxo", "Calibration", "TxClamp", "RfSwitch", "PacketType", "BufferBase"}

(* Written by every configure, and before every transmission or reception. *)
ConfigSettings ==
  {"Frequency", "Image", "Modulation", "SyncMsb", "SyncLsb", "IqPolarity", "Pa", "Ocp",
   "TxPower"}
Settings == InitSettings \cup ConfigSettings \cup {"PacketParams"}

(* The current limit is written before SetPaConfig.                        *)
ConfigureOcpFirst ==
  <<"Standby", "Frequency", "Image", "Modulation", "SyncMsb", "SyncLsb",
    "ReadIqPolarity", "IqPolarity", "Ocp", "Pa", "TxPower">>

configure ==
  <<"Standby", "Frequency", "Image", "Modulation", "SyncMsb", "SyncLsb",
    "ReadIqPolarity", "IqPolarity", "Pa", "Ocp", "TxPower">>

(* The receiver is started from whatever mode the chip is in.              *)
ReceiveWithoutStandby ==
  <<"PacketParams", "IrqRx", "ClearIrq", "SetRx">>

start_receive_mode ==
  <<"Standby", "PacketParams", "IrqRx", "ClearIrq", "SetRx">>

(* init, up to its calls of configure and start_receive_mode.              *)
init ==
  <<"Standby", "Regulator", "Tcxo", "Calibration", "ClearErrors", "ReadTxClamp",
    "TxClamp", "RfSwitch", "PacketType", "BufferBase">>

(* prepare_tx and fire_tx.                                                 *)
transmit ==
  <<"Standby", "PacketParams", "WriteBuffer", "IrqTx", "ClearIrq", "SetTx">>

(* The interrupt is read and not cleared.                                  *)
ReadWithoutClear == <<"GetIrq">>

read_packet == <<"GetIrq", "ClearStatus">>

wait_tx_done == <<"GetIrq", "ClearStatus">>

(* ... and, when there is a packet behind the interrupt:                   *)
FetchPacket == <<"RxStatus", "ReadBuffer", "PacketStatus">>

Program ==
  [init |-> init, init_configure |-> configure, init_receive |-> start_receive_mode,
   arm |-> start_receive_mode, configure |-> configure, transmit |-> transmit,
   txdone |-> wait_tx_done, read |-> read_packet, fetch |-> FetchPacket]
Ops == {"init", "init_configure", "init_receive", "arm", "configure", "transmit",
        "txdone", "read", "fetch"}

Current == Program[pc][step]

(* read_register raises NSS on every path; the other exchanges return      *)
(* without raising it when the transfer fails.                             *)
Registers == {"ReadIqPolarity", "ReadTxClamp"}

-----------------------------------------------------------------------------
(* The chip.                                                               *)

Irqs == {"RxDone", "CrcErr", "TxDone"}

ChipStates ==
  [mode : {"standby", "rx", "tx"}, settings : [Settings -> Configs \cup {None}],
   mask : SUBSET Irqs, irqs : SUBSET Irqs, packet : Nat]

ResetChip ==
  [mode |-> "standby", settings |-> [s \in Settings |-> None],
   mask |-> {}, irqs |-> {}, packet |-> 0]

(* SetPaConfig resets the current limit, and starting the TCXO makes the   *)
(* calibration invalid.                                                    *)
Undone(command) ==
  CASE command = "Pa" -> {"Ocp"} [] command = "Tcxo" -> {"Calibration"} [] OTHER -> {}

Write(settings, command, value) ==
  [s \in Settings |-> IF s = command THEN value
                      ELSE IF s \in Undone(command) THEN None ELSE settings[s]]

(* The chip after a command, whose parameters come from value.             *)
Executed(command, value) ==
  CASE command \in Settings   -> [chip EXCEPT !.settings = Write(@, command, value)]
    [] command = "Standby"    -> [chip EXCEPT !.mode = "standby"]
    [] command = "SetRx"      -> [chip EXCEPT !.mode = "rx"]
    [] command = "SetTx"      -> [chip EXCEPT !.mode = "tx"]
    [] command = "IrqRx"      -> [chip EXCEPT !.mask = {"RxDone", "CrcErr"}]
    [] command = "IrqTx"      -> [chip EXCEPT !.mask = {"TxDone"}]
    [] command = "ClearIrq"   -> [chip EXCEPT !.irqs = {}]
    [] command = "ClearStatus" -> [chip EXCEPT !.irqs = @ \ status]
    [] OTHER                  -> chip

Dio1 == chip.irqs \cap chip.mask # {}

(* A packet that arrives can be taken for the one before it: after the     *)
(* interrupts have been read and until the clearing, which may still be in *)
(* a cut transfer, and the request for the buffer's status are through;    *)
(* and when its own interrupts are masked while the other's are pending.   *)
Mistakable ==
  \/ <<pc, step>> \in {<<"read", 2>>, <<"fetch", 1>>}
  \/ cut = "ClearStatus"
  \/ "RxDone" \in chip.irqs \ chip.mask

(* A packet arrives while the chip listens.                                *)
Receive(ok) ==
  /\ chip.mode = "rx" /\ packets < MaxPackets
  /\ packets' = packets + 1
  /\ chip' = [chip EXCEPT !.packet = packets + 1,
                          !.irqs = @ \cup (chip.mask \cap
                                     (IF ok THEN {"RxDone"} ELSE {"RxDone", "CrcErr"}))]
  /\ corrupt' = IF ok THEN corrupt ELSE corrupt \cup {packets + 1}
  /\ overtook' = IF Mistakable THEN overtook \cup {packets + 1} ELSE overtook
  /\ UNCHANGED <<cut, driver, dispatcher, task, partial, claims, published, misread,
                 commands, faults>>

(* A transmission ends.                                                    *)
TxDone ==
  /\ chip.mode = "tx"
  /\ chip' = [chip EXCEPT !.mode = "standby", !.irqs = @ \cup (chip.mask \cap {"TxDone"})]
  /\ UNCHANGED <<cut, driver, dispatcher, task, history, bounds>>

-----------------------------------------------------------------------------
(* The driver.                                                             *)

DriverStates ==
  [initialised : BOOLEAN, in_continuous_rx : BOOLEAN, config : Configs \cup {None}]

(* set_standby_internal leaves in_continuous_rx alone.                     *)
FlagKept(command) == driver

(* set_standby_internal clears in_continuous_rx before the exchange.       *)
Before(command) ==
  IF command = "Standby" THEN [driver EXCEPT !.in_continuous_rx = FALSE] ELSE driver

(* What the driver notes after the last command of configure, of           *)
(* start_receive_mode and of init.                                         *)
After(command) ==
  CASE command = "TxPower" -> [driver EXCEPT !.config = target]
    [] command = "SetRx"   -> [driver EXCEPT !.in_continuous_rx = TRUE,
                                             !.initialised = @ \/ pc = "init_receive"]
    [] OTHER               -> Before(command)

(* set_packet_params takes what it needs from the driver's own copy.       *)
ValueOf(command) == IF command = "PacketParams" THEN driver.config ELSE target

Goto(place) == pc' = place /\ step' = 1

(* The CRC error is not looked at.                                         *)
AnyPacket(irqs) == "RxDone" \in irqs

HasPacket(irqs) == "CrcErr" \notin irqs /\ "RxDone" \in irqs

(* The last command of an operation went through: what its caller does.    *)
Return ==
  /\ CASE pc = "init" -> Goto("init_configure")
       [] pc = "init_configure" -> Goto("init_receive")
       [] pc = "arm" -> Goto("select")
       [] pc = "transmit" -> Goto("txwait")
       [] pc = "read" /\ HasPacket(status) -> Goto("fetch")
       [] OTHER -> Goto("loop")
  /\ dispatcher' = IF pc = "configure" THEN target ELSE dispatcher
  /\ partial' = IF pc = "configure" THEN FALSE ELSE partial
  /\ published' = IF pc = "fetch" THEN Append(published, fetched) ELSE published

Advance ==
  \/ /\ step < Len(Program[pc])
     /\ pc' = pc /\ step' = step + 1
     /\ UNCHANGED <<dispatcher, partial, published>>
  \/ step = Len(Program[pc]) /\ Return

(* A transmission that starts uses up a claim.                             *)
Spend == claims' = IF chip'.mode = "tx" /\ chip.mode # "tx" THEN claims - 1 ELSE claims

(* A local variable of the operation is gone when it has returned.         *)
Local(value, gone) == IF step = Len(Program[pc]) THEN gone ELSE value

(* write_command, read_command, write_buffer and read_buffer.              *)
Exchange ==
  /\ pc \in Ops /\ cut = None
  /\ chip' = Executed(Current, ValueOf(Current))
  /\ status' = IF Current = "GetIrq" THEN chip.irqs ELSE Local(status, {})
  /\ fetched' = IF Current = "RxStatus" THEN chip.packet ELSE Local(fetched, 0)
  /\ driver' = After(Current)
  /\ Spend
  /\ Advance
  /\ UNCHANGED <<cut, target, corrupt, overtook, misread, bounds>>

(* The same with NSS still low: the chip does not see the command; when    *)
(* NSS rises it executes what it made of the one before, or nothing.       *)
Swallowed ==
  /\ pc \in Ops /\ cut # None
  /\ chip' \in {chip, Executed(cut, None)}
  /\ status' \in IF Current = "GetIrq" THEN SUBSET Irqs ELSE {status}
  /\ misread' = IF Current = "GetIrq" THEN misread \cup {chip.packet} ELSE misread
  /\ cut' = None
  /\ driver' = After(Current)
  /\ Spend
  /\ Advance
  /\ UNCHANGED <<target, fetched, corrupt, overtook, bounds>>

(* The operation returns an error: the chip stayed busy, or the transfer   *)
(* failed.                                                                 *)
Fails ==
  /\ pc \in Ops /\ faults < MaxFaults
  /\ faults' = faults + 1
  /\ \/ UNCHANGED cut
     \/ cut' = IF Current \in Registers THEN None
               ELSE IF cut = None THEN Current ELSE cut
  /\ driver' = Before(Current)
  /\ Goto(IF pc = "arm" THEN "select" ELSE "loop")
  /\ target' = dispatcher /\ fetched' = 0
  /\ partial' = (partial \/ (pc = "configure" /\ step > 1))
  /\ UNCHANGED <<chip, dispatcher, status, claims, published, corrupt, overtook, misread,
                 commands, packets>>

-----------------------------------------------------------------------------
(* lora_task.                                                              *)

(* arm_receive: nothing to do before a successful init, or when listening. *)
Arm ==
  /\ pc = "loop"
  /\ Goto(IF driver.initialised /\ ~driver.in_continuous_rx THEN "arm" ELSE "select")
  /\ UNCHANGED <<chip, cut, driver, dispatcher, target, status, fetched, history, bounds>>

(* wait_rx_event.                                                          *)
RxEvent ==
  /\ pc = "select" /\ Dio1
  /\ Goto("read")
  /\ UNCHANGED <<chip, cut, driver, dispatcher, target, status, fetched, history, bounds>>

PollTimeout ==
  /\ pc = "select" /\ ~Dio1
  /\ Goto("loop")
  /\ UNCHANGED <<chip, cut, driver, dispatcher, target, status, fetched, history, bounds>>

TakeCommand == pc = "select" /\ commands < MaxCommands /\ commands' = commands + 1

(* A granted claim; transmit returns at once when init has failed or the   *)
(* modem cannot carry the payload.                                         *)
LoraTx(fits) ==
  /\ TakeCommand
  /\ claims' = claims + 1
  /\ Goto(IF driver.initialised /\ fits THEN "transmit" ELSE "loop")
  /\ UNCHANGED <<chip, cut, driver, dispatcher, target, status, fetched, partial,
                 published, corrupt, overtook, misread, packets, faults>>

SetSpreadingFactor(config) ==
  /\ TakeCommand
  /\ target' = config
  /\ Goto("configure")
  /\ UNCHANGED <<chip, cut, driver, dispatcher, status, fetched, history, packets, faults>>

(* A command that does not reach the radio.                                *)
OtherCommand ==
  /\ TakeCommand
  /\ Goto("loop")
  /\ UNCHANGED <<chip, cut, driver, dispatcher, target, status, fetched, history, packets,
                 faults>>

(* wait_tx_done: the interrupt, or ten seconds without one.                *)
TxEvent ==
  /\ pc = "txwait" /\ Dio1
  /\ Goto("txdone")
  /\ UNCHANGED <<chip, cut, driver, dispatcher, target, status, fetched, history, bounds>>

(* The driver fires again when no interrupt came.                          *)
TxTimeoutRefires ==
  /\ pc = "txwait" /\ ~Dio1 /\ faults < MaxFaults
  /\ faults' = faults + 1
  /\ pc' = "transmit" /\ step' = Len(transmit)
  /\ UNCHANGED <<chip, cut, driver, dispatcher, target, status, fetched, history, commands,
                 packets>>

TxTimeout ==
  /\ pc = "txwait" /\ ~Dio1 /\ faults < MaxFaults
  /\ faults' = faults + 1
  /\ Goto("loop")
  /\ UNCHANGED <<chip, cut, driver, dispatcher, target, status, fetched, history, commands,
                 packets>>

-----------------------------------------------------------------------------
(* After reset(), at the first command of init.                            *)
Init ==
  /\ chip = ResetChip /\ cut = None
  /\ driver = [initialised |-> FALSE, in_continuous_rx |-> FALSE, config |-> None]
  /\ dispatcher = Default
  /\ pc = "init" /\ step = 1 /\ target = Default /\ status = {} /\ fetched = 0
  /\ partial = FALSE /\ claims = 0
  /\ published = <<>> /\ corrupt = {} /\ overtook = {} /\ misread = {}
  /\ commands = 0 /\ packets = 0 /\ faults = 0

TaskStep == Exchange \/ Swallowed \/ Arm \/ RxEvent \/ PollTimeout \/ TxEvent

Next ==
  \/ TaskStep \/ Fails \/ TxTimeout
  \/ \E ok \in BOOLEAN : Receive(ok)
  \/ TxDone
  \/ \E fits \in BOOLEAN : LoraTx(fits)
  \/ \E config \in Configs : SetSpreadingFactor(config)
  \/ OtherCommand

(* The executor polls lora_task, and a transmission ends.                  *)
Fairness == WF_vars(TaskStep) /\ WF_vars(TxDone)

Spec == Init /\ [][Next]_vars
FairSpec == Spec /\ Fairness

-----------------------------------------------------------------------------
(* The types of the driver, of the task and of the chip; lora_task is at a *)
(* command of its operation.                                               *)
TypeOK ==
  /\ chip \in ChipStates /\ driver \in DriverStates
  /\ dispatcher \in Configs /\ target \in Configs
  /\ pc \in Ops \cup {"loop", "select", "txwait"}
  /\ step \in Nat /\ (pc \in Ops => step \in DOMAIN Program[pc])
  /\ status \subseteq Irqs /\ fetched \in Nat
  /\ published \in Seq(Nat) /\ corrupt \subseteq Nat
  /\ overtook \subseteq Nat /\ misread \subseteq Nat
  /\ partial \in BOOLEAN
  /\ claims \in Int
  /\ commands \in Nat /\ packets \in Nat /\ faults \in Nat

(* in_continuous_rx is truthful ("every path that drops the radio out of   *)
(* RX leaves the flag truthful"): whatever failed before, when it is set   *)
(* the chip listens and raises DIO1 for packets, so that arm_receive may   *)
(* do nothing.                                                             *)
FlagTruthful ==
  driver.in_continuous_rx =>
    chip.mode = "rx" /\ chip.mask = {"RxDone", "CrcErr"}

(* A failed transfer leaves NSS low and the next exchange is lost without  *)
(* an error.  It is never one that matters: every operation begins with    *)
(* SetStandby or GetIrqStatus, so no setting, SetRx or SetTx is lost.      *)
NoSilentLoss ==
  [][Swallowed => Current \in {"Standby", "GetIrq"}]_vars

(* A transmission has all of its settings from the configuration that its  *)
(* airtime was computed from, and the calibration and the current limit    *)
(* that init and configure are ordered to preserve, unless the last        *)
(* SetSpreadingFactor failed half way.                                     *)
OnAirAsClaimed ==
  [][chip.mode # "tx" /\ chip'.mode = "tx" /\ ~partial =>
       /\ \A s \in ConfigSettings \cup {"PacketParams"} : chip.settings[s] = dispatcher
       /\ \A s \in InitSettings : chip.settings[s] # None]_vars

(* Every transmission was claimed: errors, missing interrupts and commands *)
(* executed late by the chip never put a packet on the air twice.          *)
AirClaimed == claims >= 0

(* Packets are published in the order of arrival, each once, and none with *)
(* a wrong CRC.  A packet that arrives between the commands of read_packet *)
(* spoils nothing but its own delivery: it may be published twice, or      *)
(* under the interrupt of the packet it overtook, hence with a wrong CRC;  *)
(* every packet before and after it is right.  A packet is published more  *)
(* often only if the interrupts read in a cut transfer were garbage.       *)
PublishedOnce ==
  /\ \A i, j \in DOMAIN published : i < j => published[i] <= published[j]
  /\ \A i, j \in DOMAIN published : i < j /\ published[i] = published[j] =>
       published[i] \in misread \/ (published[i] \in overtook /\ j = i + 1)
  /\ \A i \in DOMAIN published : published[i] \in corrupt =>
       published[i] \in overtook \cup misread

(* Once initialised, the radio always comes back to listening, after every *)
(* command and every failure.                                              *)
ListensAgain == driver.initialised ~> chip.mode = "rx"

(* The interrupt of a packet is always served, so that DIO1 can announce   *)
(* the next one.                                                           *)
PacketServed == []<>("RxDone" \notin chip.irqs)

(* The receiver never goes deaf: neither in another mode nor behind an     *)
(* interrupt that nobody serves.                                           *)
StaysAlive == ListensAgain /\ PacketServed
===============================================================================
