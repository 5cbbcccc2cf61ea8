--------------------------------- MODULE Serial ---------------------------------
(***************************************************************************)
(* The host link: DeviceClient on the host, the USB serial port with its   *)
(* packets, serial_reader_task and serial_writer_task on the hub, and the  *)
(* two tasks that answer (lora_task for the stock commands, hub_ctrl_task  *)
(* for the hub's own).                                                     *)
(*                                                                         *)
(* The protocol has no sequence number on the wire: the host takes the     *)
(* next frame that is not an RxPacket for the answer to its last command.  *)
(* Every message of the model carries the number of the command it belongs *)
(* to; only the properties look at it.                                     *)
(*                                                                         *)
(* A step is what a task does between two awaits, and on the host what     *)
(* DeviceClient does between two blocking reads.                           *)
(***************************************************************************)
EXTENDS HubCodec, FiniteSets

CONSTANTS
  Commands,      \* what the host may send: hub and stock commands, and raw frames
  NetworkConfig, \* what hub_ctrl_task answers to GetNetworkConfig
  HubStatus,     \* what it answers to GetHubStatus
  Statuses,      \* the AckStatus values it may answer a setting with
  MaxPacket,     \* max_packet_size of the USB endpoint (64)
  CommandCap,    \* capacity of COMMAND_CHANNEL (8)
  HubCap,        \* capacity of HUB_CHANNEL (4)
  ResponseCap,   \* capacity of RESPONSE_CHANNEL (8)
  MaxCommands,   \* bound: commands the host sends
  MaxEarly,      \* bound: time-outs while the answer is still on its way
  MaxNoise,      \* bound: received packets and commands from MQTT
  MaxBreaks      \* bound: bus resets, closed ports

ASSUME SerialAssumption ==
  /\ Statuses \subseteq AckStatus
  /\ MaxPacket \in Nat \ {0, 1}
  /\ CommandCap \in Nat \ {0} /\ HubCap \in Nat \ {0} /\ ResponseCap \in Nat \ {0}
  /\ MaxCommands \in Nat /\ MaxEarly \in Nat /\ MaxNoise \in Nat /\ MaxBreaks \in Nat
  /\ {NetworkConfig.wifi_ssid, NetworkConfig.mqtt.host, NetworkConfig.mqtt.client_id,
      NetworkConfig.gateway.host, HubStatus.ip} \subseteq Seq(0..255)

(* Stock commands (the wt-protocol crate): only their ids matter.  A LoraTx *)
(* stands for every stock command that lora_task answers.                  *)
StockId == [GetVersion |-> 1, Reboot |-> 3, LoraTx |-> 16]
GetVersion == Command("GetVersion", <<>>)
Reboot == Command("Reboot", <<>>)

(* send_raw_command: an id and a payload that need not make a command.     *)
Raw(byte, payload) == [id |-> "Raw", byte |-> byte, value |-> payload]

(* Whom a message is for when it is not for a command of this host.        *)
Unsolicited == 0
ForWifi == -1

VARIABLES
  host,       \* DeviceClient: what it does and how many commands it has sent
  open,       \* DTR: the host has the port open
  toHub,      \* frames on their way to the hub
  cut,        \* the accumulator holds the head of a frame that was cut off
  reader,     \* the command that awaits room in COMMAND_CHANNEL, if any
  commandQ,   \* COMMAND_CHANNEL
  hubQ,       \* HUB_CHANNEL
  responseQ,  \* RESPONSE_CHANNEL as serial_writer_task sees it
  lagged,     \* messages it lost since it last looked
  tx,         \* the frame that write_all is writing, if any, and its progress
  held,       \* packets of a transfer that is not complete
  inbox,      \* packets the host can read
  admin,      \* ADMIN_CHANNEL holds a Reboot
  issued,     \* history: the commands the host has sent
  answers,    \* history: what the host took for the answer to each command
  abandoned,  \* history: the commands whose answer the host gave up
  dropped,    \* history: the commands that found HUB_CHANNEL full
  early, noise, breaks   \* history: counts for the bounds

link == <<open, toHub, held, inbox>>
hub == <<cut, reader, commandQ, hubQ, responseQ, lagged, tx, admin>>
history == <<issued, answers, abandoned, dropped>>
bounds == <<early, noise, breaks>>
vars == <<host, link, hub, history, bounds>>

-----------------------------------------------------------------------------
(* The stock codec, as process_frame uses it (external).                   *)

wt_frame(command) == build_raw(StockId[command.id], command.value)
wt_parse_command(frame) ==
  LET id == CHOOSE c \in DOMAIN StockId : StockId[c] = frame.id
  IN  IF parse_raw(frame) # "None" THEN Refused(parse_raw(frame))
      ELSE IF frame.id \notin {StockId[c] : c \in DOMAIN StockId}
      THEN Refused("InvalidCommand")
      ELSE Parsed(Command(id, frame.payload))

(* Stock answers: a Version has three bytes, an RxPacket at least three.   *)
Version == build_raw(1, << 0, 1, 0 >>)
TxComplete == build_raw(16, <<>>)
RxPacket == build_raw(17, << 7, 0, 0, 0 >>)
Error(status, id) == build_raw(255, << status, id >>)

(* What the host writes for a command.                                     *)
Wire(command) ==
  CASE command.id = "Raw" -> build_raw(command.byte, command.value)
    [] command.id \in DOMAIN StockId -> wt_frame(command)
    [] OTHER -> encode_command(command)

-----------------------------------------------------------------------------
(* RESPONSE_CHANNEL: publish_immediate never waits; a subscriber that is a *)
(* whole queue behind loses its oldest message.                            *)

Message(n, frame) == [n |-> n, frame |-> frame]
publish_immediate(message) ==
  IF Len(responseQ) < ResponseCap
  THEN responseQ' = Append(responseQ, message) /\ UNCHANGED lagged
  ELSE responseQ' = Append(Tail(responseQ), message) /\ lagged' = lagged + 1

-----------------------------------------------------------------------------
(* serial_reader_task.                                                     *)

(* Stock commands first; an unknown id is tried as a hub command, so any   *)
(* other complaint of the stock parser is final.                           *)
process_frame(frame) ==
  LET stock == wt_parse_command(frame)
      own == parse_command(frame)
  IN  IF stock.status = "Success" THEN [stage |-> "stock", command |-> stock.command]
      ELSE IF stock.status # "InvalidCommand"
      THEN [stage |-> "error", answer |-> Error(stock.status, frame.id)]
      ELSE IF own.status = "Success" THEN [stage |-> "hub", command |-> own.command]
      ELSE [stage |-> "error", answer |-> Error(own.status, frame.id)]

(* process_frame, tabulated once for the frames of this run.               *)
Frames == {[Wire(command) EXCEPT !.crc = good] : command \in Commands, good \in BOOLEAN}
Result == [frame \in Frames |-> process_frame(frame)]

(* What becomes of a frame: a stock command waits for room in              *)
(* COMMAND_CHANNEL, a hub command that finds HUB_CHANNEL full is dropped,  *)
(* and a frame that cannot be parsed is answered at once.                  *)
Route(n, result) ==
  \/ /\ result.stage = "stock"
     /\ reader' = << [n |-> n, command |-> result.command] >>
     /\ UNCHANGED <<hubQ, responseQ, lagged, dropped>>
  \/ /\ result.stage = "hub" /\ Len(hubQ) < HubCap
     /\ hubQ' = Append(hubQ, [n |-> n, command |-> result.command])
     /\ UNCHANGED <<reader, responseQ, lagged, dropped>>
  \/ /\ result.stage = "hub" /\ Len(hubQ) = HubCap
     /\ dropped' = dropped \cup {n}
     /\ UNCHANGED <<reader, hubQ, responseQ, lagged>>
  \/ /\ result.stage = "error"
     /\ publish_immediate(Message(n, result.answer))
     /\ UNCHANGED <<reader, hubQ, dropped>>

(* A frame is complete.  One that was glued to the head of a frame that    *)
(* was cut off either does not decode, and is ignored, or fails its        *)
(* checksum.                                                               *)
ReadFrame ==
  /\ open /\ reader = <<>> /\ toHub # <<>>
  /\ toHub' = Tail(toHub)
  /\ cut' = FALSE
  /\ LET frame == Head(toHub).frame
         n == Head(toHub).n
     IN  \/ Route(n, Result[[frame EXCEPT !.crc = ~cut]])
         \/ cut /\ UNCHANGED <<reader, hubQ, responseQ, lagged, dropped>>
  /\ UNCHANGED <<host, open, held, inbox, commandQ, tx, admin, issued, answers, abandoned, bounds>>

(* command_sender.send completes when there is room.                       *)
SendCommand ==
  /\ reader # <<>> /\ Len(commandQ) < CommandCap
  /\ commandQ' = Append(commandQ, Head(reader))
  /\ reader' = <<>>
  /\ UNCHANGED <<host, link, cut, hubQ, responseQ, lagged, tx, admin, history, bounds>>

-----------------------------------------------------------------------------
(* The tasks that answer.                                                  *)

(* handle_command of lora_task: a Reboot goes to the admin task and has no *)
(* answer.  What the radio does is Radio's and Bridge's subject.           *)
HandleCommand ==
  /\ commandQ # <<>>
  /\ commandQ' = Tail(commandQ)
  /\ LET n == Head(commandQ).n
         command == Head(commandQ).command
     IN  \/ /\ command.id = "Reboot"
            /\ admin' = TRUE
            /\ UNCHANGED <<responseQ, lagged>>
         \/ /\ command.id # "Reboot"
            /\ publish_immediate(
                 Message(n, IF command.id = "GetVersion" THEN Version ELSE TxComplete))
            /\ UNCHANGED admin
  /\ UNCHANGED <<host, link, cut, reader, hubQ, tx, issued, answers, abandoned,
                 dropped, bounds>>

(* handle of hub_ctrl_task; whether a setting is accepted is               *)
(* Provisioning's subject.                                                 *)
Answers(command) ==
  CASE command.id = "GetNetworkConfig" -> {Command("NetworkConfig", NetworkConfig)}
    [] command.id = "GetHubStatus" -> {Command("HubStatus", HubStatus)}
    [] OTHER -> {Command("ConfigAck", status) : status \in Statuses}

HubCtrl ==
  /\ hubQ # <<>>
  /\ hubQ' = Tail(hubQ)
  /\ LET n == Head(hubQ).n
         command == Head(hubQ).command
     IN  \E response \in Answers(command) :
           publish_immediate(Message(n, encode_response(response)))
  /\ UNCHANGED <<host, link, cut, reader, commandQ, tx, admin, issued, answers, abandoned,
                 dropped, bounds>>

(* lora_task receives a packet, or takes a command of the MQTT side.       *)
Receive ==
  /\ noise < MaxNoise /\ noise' = noise + 1
  /\ publish_immediate(Message(Unsolicited, RxPacket))
  /\ UNCHANGED <<host, link, cut, reader, commandQ, hubQ, tx, admin, history, early, breaks>>

WifiCommand ==
  /\ noise < MaxNoise /\ noise' = noise + 1
  /\ Len(commandQ) < CommandCap
  /\ commandQ' = Append(commandQ, [n |-> ForWifi, command |-> Command("LoraTx", <<>>)])
  /\ UNCHANGED <<host, link, cut, reader, hubQ, responseQ, lagged, tx, admin, history,
                 early, breaks>>

-----------------------------------------------------------------------------
(* serial_writer_task and CdcWriter.                                       *)

(* A message as write_all starts on it.                                    *)
Sending(message) == [n |-> message.n, frame |-> message.frame, at |-> 0]

(* After a Lagged result the task does not come back for more.             *)
NextMessageEndsOnLag ==
  /\ tx = <<>> /\ responseQ # <<>> /\ lagged = 0
  /\ responseQ' = Tail(responseQ)
  /\ tx' = IF Head(responseQ).n = ForWifi THEN <<>> ELSE << Sending(Head(responseQ)) >>
  /\ UNCHANGED <<host, link, cut, reader, commandQ, hubQ, lagged, admin, history, bounds>>

(* Every subscriber's messages are written.                                *)
NextMessageUnfiltered ==
  /\ tx = <<>>
  /\ \/ lagged > 0 /\ lagged' = 0 /\ UNCHANGED <<responseQ, tx>>
     \/ /\ lagged = 0 /\ responseQ # <<>>
        /\ responseQ' = Tail(responseQ)
        /\ tx' = << Sending(Head(responseQ)) >>
        /\ UNCHANGED lagged
  /\ UNCHANGED <<host, link, cut, reader, commandQ, hubQ, admin, history, bounds>>

(* next_message: Lagged is logged and skipped; the answers of another      *)
(* source are not for this port.                                           *)
NextMessage ==
  /\ tx = <<>>
  /\ \/ lagged > 0 /\ lagged' = 0 /\ UNCHANGED <<responseQ, tx>>
     \/ /\ lagged = 0 /\ responseQ # <<>>
        /\ responseQ' = Tail(responseQ)
        /\ tx' = IF Head(responseQ).n = ForWifi THEN <<>>
                 ELSE << Sending(Head(responseQ)) >>
        /\ UNCHANGED lagged
  /\ UNCHANGED <<host, link, cut, reader, commandQ, hubQ, admin, history, bounds>>

(* How many bytes one write takes.                                         *)
WriteLenFull(left) == IF left < MaxPacket THEN left ELSE MaxPacket
write_len(left) == IF left < MaxPacket - 1 THEN left ELSE MaxPacket - 1

(* write_packet, once DTR is set.  The host's driver hands a transfer over *)
(* when a packet shorter than the endpoint's ends it.                      *)
WritePacket ==
  /\ open /\ tx # <<>>
  /\ LET left == cobs_len(tx[1].frame) - tx[1].at
         n == write_len(left)
         packet == [n |-> tx[1].n, frame |-> tx[1].frame, from |-> tx[1].at, last |-> n = left]
     IN  /\ tx' = IF n = left THEN <<>> ELSE << [tx[1] EXCEPT !.at = @ + n] >>
         /\ IF n < MaxPacket
            THEN inbox' = Append(inbox \o held, packet) /\ held' = <<>>
            ELSE held' = Append(held, packet) /\ UNCHANGED inbox
  /\ UNCHANGED <<host, open, toHub, cut, reader, commandQ, hubQ, responseQ, lagged, admin,
                 history, bounds>>

-----------------------------------------------------------------------------
(* DeviceClient.                                                           *)

(* The host awaits the answer to its last command; in the loop of          *)
(* get_version it may send another.                                        *)
Host(pc, loop) == [pc |-> pc, loop |-> loop]
Idle == Host("idle", FALSE)
Current == Len(issued)

(* Write a frame and await the answer to it.                               *)
Write(command, loop) ==
  /\ Current < MaxCommands
  /\ issued' = Append(issued, command)
  /\ toHub' = Append(toHub, [n |-> Current + 1, frame |-> Wire(command)])
  /\ host' = Host("wait", loop)

(* send_command, send_hub_command and send_raw_command.                    *)
Send(command) ==
  /\ host = Idle /\ open /\ command # Reboot
  /\ Write(command, FALSE)
  /\ UNCHANGED <<open, held, inbox, hub, answers, abandoned, dropped, bounds>>

(* reboot: fire and forget, so what the hub may answer is not awaited.     *)
SendReboot ==
  /\ host = Idle /\ open /\ Reboot \in Commands /\ Current < MaxCommands
  /\ issued' = Append(issued, Reboot)
  /\ toHub' = Append(toHub, [n |-> Current + 1, frame |-> Wire(Reboot)])
  /\ abandoned' = abandoned \cup {Current + 1}
  /\ UNCHANGED <<host, open, held, inbox, hub, answers, dropped, bounds>>

(* get_version: drain, then ask until a Version comes.                     *)
StartVersion ==
  /\ host = Idle /\ open /\ GetVersion \in Commands
  /\ Write(GetVersion, TRUE)
  /\ inbox' = <<>>
  /\ UNCHANGED <<open, held, hub, answers, abandoned, dropped, bounds>>

(* read_frame: the packets up to the next delimiter.                       *)
FrameEnds == {i \in DOMAIN inbox : inbox[i].last}
FrameEnd == CHOOSE i \in FrameEnds : \A j \in FrameEnds : i <= j
Whole ==
  /\ inbox[1].from = 0
  /\ \A i \in 1..FrameEnd : inbox[i].n = inbox[1].n /\ inbox[i].frame = inbox[1].frame

(* The call returns an error, after draining the buffer; get_version tries *)
(* again, unless its time is up.                                           *)
Fail ==
  /\ inbox' = <<>>
  /\ abandoned' = abandoned \cup {Current}
  /\ \/ host' = Idle /\ UNCHANGED <<issued, toHub>>
     \/ host.loop /\ Write(GetVersion, TRUE)

(* read_command_response: an RxPacket is skipped, a frame that is not      *)
(* whole is an error, and the next frame is the answer.  get_version goes  *)
(* on unless it is a Version.                                              *)
ReadAnswer ==
  /\ host.pc = "wait" /\ FrameEnds # {}
  /\ LET rest == SubSeq(inbox, FrameEnd + 1, Len(inbox))
         frame == inbox[1].frame
     IN  \/ ~Whole /\ Fail /\ UNCHANGED answers
         \/ /\ Whole /\ frame = RxPacket
            /\ inbox' = rest
            /\ UNCHANGED <<host, issued, toHub, answers, abandoned>>
         \/ /\ Whole /\ frame # RxPacket
            /\ inbox' = rest
            /\ answers' = [answers EXCEPT ![Current] = << inbox[1].n, frame >>]
            /\ \/ ~(host.loop /\ frame # Version) /\ host' = Idle /\ UNCHANGED <<issued, toHub>>
               \/ host.loop /\ frame # Version /\ Write(GetVersion, TRUE)
               \/ host.loop /\ frame # Version /\ host' = Idle /\ UNCHANGED <<issued, toHub>>
            /\ UNCHANGED abandoned
  /\ UNCHANGED <<open, held, hub, dropped, bounds>>

(* Nothing of the current command is left that could still be answered.    *)
InFlight(n) ==
  \/ \E i \in DOMAIN toHub : toHub[i].n = n
  \/ \E q \in {reader, commandQ, hubQ, responseQ, tx, held, inbox} : \E i \in DOMAIN q : q[i].n = n

(* read_frame times out: the answer is lost, or it is only late.           *)
TimeoutLost ==
  /\ host.pc = "wait" /\ FrameEnds = {} /\ ~InFlight(Current)
  /\ Fail
  /\ UNCHANGED <<open, held, hub, answers, dropped, bounds>>

TimeoutEarly ==
  /\ host.pc = "wait" /\ FrameEnds = {} /\ InFlight(Current) /\ early < MaxEarly
  /\ early' = early + 1
  /\ Fail
  /\ UNCHANGED <<open, held, hub, answers, dropped, noise, breaks>>

(* wait_for_rx_packet and its kin take whatever frame comes.               *)
Poll ==
  /\ host = Idle /\ FrameEnds # {}
  /\ inbox' = SubSeq(inbox, FrameEnd + 1, Len(inbox))
  /\ UNCHANGED <<host, open, toHub, held, hub, history, bounds>>

-----------------------------------------------------------------------------
(* The port and the bus.                                                   *)

(* The host closes the port; what it had not read is gone, what the hub    *)
(* still writes waits for DTR.                                             *)
Close ==
  /\ host = Idle /\ open /\ breaks < MaxBreaks
  /\ breaks' = breaks + 1
  /\ open' = FALSE /\ inbox' = <<>> /\ held' = <<>>
  /\ UNCHANGED <<host, toHub, hub, history, early, noise>>

Open ==
  /\ ~open
  /\ open' = TRUE
  /\ UNCHANGED <<host, toHub, held, inbox, hub, history, bounds>>

(* Everything on the cable is lost, and a call of the host fails.  On the  *)
(* hub, the write in progress fails and its frame is given up; a frame     *)
(* that was being read may leave its head in the accumulator.              *)
Disconnect ==
  /\ open' = FALSE /\ toHub' = <<>> /\ held' = <<>> /\ inbox' = <<>>
  /\ host' = Idle
  /\ abandoned' = IF host.pc = "wait" THEN abandoned \cup {Current} ELSE abandoned

BusReset ==
  /\ open /\ breaks < MaxBreaks
  /\ breaks' = breaks + 1
  /\ Disconnect
  /\ tx' = <<>>
  /\ \/ cut' = cut
     \/ cut' = TRUE /\ toHub # <<>>
  /\ UNCHANGED <<reader, commandQ, hubQ, responseQ, lagged, admin, issued, answers, dropped, early, noise>>

(* admin_task resets the hub.                                              *)
HubReboots ==
  /\ admin
  /\ Disconnect
  /\ admin' = FALSE /\ cut' = FALSE /\ lagged' = 0
  /\ reader' = <<>> /\ commandQ' = <<>> /\ hubQ' = <<>> /\ responseQ' = <<>> /\ tx' = <<>>
  /\ UNCHANGED <<issued, answers, dropped, bounds>>

-----------------------------------------------------------------------------
Numbers == 1..MaxCommands

Init ==
  /\ host = Idle /\ open = FALSE
  /\ toHub = <<>> /\ held = <<>> /\ inbox = <<>>
  /\ cut = FALSE /\ reader = <<>> /\ commandQ = <<>> /\ hubQ = <<>>
  /\ responseQ = <<>> /\ lagged = 0 /\ tx = <<>> /\ admin = FALSE
  /\ issued = <<>>
  /\ answers = [n \in Numbers |-> <<>>]
  /\ abandoned = {} /\ dropped = {}
  /\ early = 0 /\ noise = 0 /\ breaks = 0

HubStep == ReadFrame \/ SendCommand \/ HandleCommand \/ HubCtrl \/ NextMessage \/ WritePacket

Next ==
  \/ HubStep \/ Receive \/ WifiCommand
  \/ \E command \in Commands : Send(command)
  \/ SendReboot \/ StartVersion \/ ReadAnswer \/ TimeoutLost \/ TimeoutEarly
  \/ Poll \/ Close \/ Open \/ BusReset \/ HubReboots

(* The executor polls every task that is ready, and the host's reads       *)
(* return.  Nothing makes the host send.                                   *)
Fairness ==
  /\ WF_vars(ReadFrame) /\ WF_vars(SendCommand) /\ WF_vars(HandleCommand) /\ WF_vars(HubCtrl)
  /\ WF_vars(NextMessage) /\ WF_vars(WritePacket) /\ WF_vars(ReadAnswer)
  /\ WF_vars(TimeoutLost)

Spec == Init /\ [][Next]_vars /\ Fairness

-----------------------------------------------------------------------------
(* Properties.                                                             *)

TypeOK ==
  /\ host \in [pc : {"idle", "wait"}, loop : BOOLEAN]
  /\ {open, cut, admin} \subseteq BOOLEAN
  /\ Len(reader) <= 1 /\ Len(tx) <= 1
  /\ Len(commandQ) <= CommandCap /\ Len(hubQ) <= HubCap /\ Len(responseQ) <= ResponseCap
  /\ lagged \in Nat
  /\ issued \in Seq(Commands) /\ Len(issued) <= MaxCommands
  /\ abandoned \cup dropped \subseteq Numbers
  /\ early \in 0..MaxEarly /\ noise \in 0..MaxNoise /\ breaks \in 0..MaxBreaks

(* The host takes an answer for a command's only if it is an answer to a   *)
(* command of its own, never twice, and it answers that very command       *)
(* unless an earlier exchange was given up: the wire has no sequence       *)
(* numbers, so only the source filter of serial_writer_task and the        *)
(* one-at-a-time discipline of DeviceClient keep the two sides in step.    *)
InStep ==
  \A n \in Numbers : answers[n] # <<>> =>
    LET m == answers[n][1]
    IN  /\ m \in 1..n
        /\ m # n => \E k \in abandoned : k < n
        /\ \A k \in Numbers \ {n} : answers[k] # <<>> => answers[k][1] # m

(* The hypothesis about the codec, for the commands in question: what the  *)
(* two parsers of process_frame make of a command is the command, or an    *)
(* error; and parse_response reads every answer of hub_ctrl_task as it was *)
(* meant.                                                                  *)
CodecAgrees ==
  /\ \A command \in Commands :
       LET read == process_frame(Wire(command))
       IN  read.stage = "error" \/ read.command = command
  /\ \A command \in Commands : command.id \in DOMAIN HubCommandId =>
       \A response \in Answers(command) :
         parse_response(encode_response(response)) = Parsed(response)

(* What reaches the tasks of the hub is what the host meant, and a         *)
(* malformed frame never does: both parsers of process_frame and the       *)
(* layouts of encode_command and parse_command agree.                      *)
HubReads ==
  \A q \in {reader, commandQ, hubQ} : \A i \in DOMAIN q :
    q[i].n # ForWifi => q[i].command = issued[q[i].n]

(* What the host takes for an answer of hub_ctrl_task, parse_response reads *)
(* as an answer hub_ctrl_task can give to the command it belongs to, also  *)
(* when the frame came in several packets.                                 *)
HostReads ==
  \A n \in Numbers : answers[n] # <<>> /\ answers[n][1] \in Numbers =>
    LET command == issued[answers[n][1]]
        frame == answers[n][2]
    IN  command.id \in DOMAIN HubCommandId /\ frame.id # 255 =>
          parse_response(frame) \in {Parsed(response) : response \in Answers(command)}

(* Each side reads what the other wrote.                                   *)
Understood == HubReads /\ HostReads

(* When write_all has returned, the host's driver holds nothing back: the  *)
(* last packet of a frame is always a short one (CdcWriter::write).        *)
Flushed == open /\ tx = <<>> => held = <<>>

(* The silent drop at a full HUB_CHANNEL never meets a host that awaits    *)
(* its answers: it takes as many abandoned exchanges as the queue is long. *)
(* A reboot counts as one: its answer is not awaited, and when its frame   *)
(* is damaged there is one, an Error that a later command may be given.    *)
DropNeedsTimeouts == dropped # {} => Cardinality(abandoned) >= HubCap

(* The link holds nothing back and drops nothing unseen while the host     *)
(* keeps to one exchange at a time.                                        *)
SerialInv ==
  /\ TypeOK
  /\ Flushed
  /\ DropNeedsTimeouts

(* A command whose answer is not lost is answered without the help of the  *)
(* time-out: no full queue, lagging subscriber, cut packet or waiting task *)
(* leaves the host hanging.                                                *)
Served == []<>(host.pc = "idle")

=============================================================================
