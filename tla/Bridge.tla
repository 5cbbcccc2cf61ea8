--------------------------------- MODULE Bridge ---------------------------------
(***************************************************************************)
(* The bridge personality of the hub: the tasks of the single-threaded     *)
(* embassy executor that carry LoRa packets to MQTT and MQTT downlinks to  *)
(* the radio, and the bounded channels between them.                       *)
(*                                                                         *)
(*   mqtt_task   --MQTT_IN-->  bridge_task  --COMMAND-->  lora_task        *)
(*   mqtt_task  <--MQTT_OUT--  bridge_task <--RESPONSE--  lora_task        *)
(*   serial_reader_task --COMMAND--> lora_task                             *)
(*                                                                         *)
(* A step is what a task does between two awaits, so no task is ever       *)
(* interrupted inside a step.  RESPONSE is an embassy PubSubChannel: every *)
(* subscriber sees every message, and publish_immediate on a full channel  *)
(* discards the oldest one, which a subscriber that had not read it learns *)
(* as Lagged(n).  What one subscriber has read or lost does not depend on  *)
(* the other, so the channel is modelled as the bridge's subscription; the *)
(* serial writer's reads are not part of it.  A downlink is a number given *)
(* in order of arrival; it stands for its payload and for the correlation  *)
(* id in its JSON.                                                         *)
(***************************************************************************)
EXTENDS Integers, Sequences, FiniteSets

CONSTANTS
  MaxInFlight,   \* MAX_IN_FLIGHT (4)
  CommandCap,    \* capacity of COMMAND_CHANNEL (8)
  ResponseCap,   \* capacity of RESPONSE_CHANNEL (8)
  MqttInCap,     \* capacity of MQTT_IN_CHANNEL (4)
  MqttOutCap,    \* capacity of MQTT_OUT_CHANNEL (8)
  SeqMod,        \* sequence ids wrap at this value (2^16)
  Bursts,        \* how many broken frames one serial read may hold (up to 21)
  MaxDownlinks,  \* bound: downlinks the broker sends
  MaxSerial,     \* bound: reads of the serial port
  MaxRx          \* bound: LoRa packets received

ASSUME BridgeAssumption ==
  /\ MaxInFlight \in Nat \ {0} /\ CommandCap \in Nat \ {0}
  /\ ResponseCap \in Nat \ {0}
  /\ MqttInCap \in Nat \ {0} /\ MqttOutCap \in Nat \ {0}
  /\ SeqMod \in Nat \ {0} /\ Bursts \subseteq Nat
  /\ MaxDownlinks \in Nat /\ MaxSerial \in Nat /\ MaxRx \in Nat

VARIABLES
  online,         \* mqtt_task is inside a session
  mqttIn,         \* MQTT_IN_CHANNEL
  mqttOut,        \* MQTT_OUT_CHANNEL
  commandQ,       \* COMMAND_CHANNEL
  serving,        \* the command lora_task is dispatching, if any
  rebooting,      \* ADMIN_CHANNEL holds a Reboot
  responseQ,      \* RESPONSE_CHANNEL: what the bridge still has to read
  lagged,         \* messages the bridge lost since it last looked
  inFlight,       \* BridgeState.in_flight: sequence id -> correlation id
  nextSequence,   \* BridgeState.next_sequence
  rxSeq,          \* BridgeState.rx_seq: the number of the next uplink
  stats,          \* HUB_STATS: uplink, downlink, dropped
  arrived,        \* history: downlinks the broker has sent
  serialReads,    \* history: reads of the serial port
  received,       \* history: LoRa packets published since the last reset
  result,         \* history: the tx/result reasons given for each downlink
  aired,          \* history: downlinks the radio has transmitted
  fate,           \* history: what became of each downlink or of its tx/result
  overrun         \* history: a sequence id was reused while still awaited

queues  == <<mqttIn, mqttOut, commandQ, responseQ, lagged>>
history == <<arrived, serialReads, received, result, aired, fate, overrun>>
vars == <<online, queues, serving, rebooting, inFlight, nextSequence, rxSeq, stats,
          history>>

Downlinks   == 1 .. MaxDownlinks
SeqIds      == 0 .. SeqMod - 1
Idle        == [kind |-> "idle"]

(* CommandEnvelope.  The bridge only sends LoraTx; of the serial commands  *)
(* only Reboot is treated apart from the others.                           *)
WifiCommand(seq, d) == [kind |-> "wifi", seq |-> seq, downlink |-> d]
SerialCommand == [kind |-> "serial"]
RebootCommand == [kind |-> "reboot"]
Commands ==
  [kind : {"wifi"}, seq : SeqIds, downlink : Downlinks]
    \cup {SerialCommand, RebootCommand}

(* ResponseMessage: Unsolicited packets, responses to the bridge's         *)
(* commands, and everything the bridge ignores (responses to serial        *)
(* commands and the hub control task's frames).                            *)
TxResponses == {"TxComplete", "TxRefused", "Error"}
RxPacket == [kind |-> "rx"]
SerialResponse == [kind |-> "serial"]
WifiResponse(command, response) ==
  [kind |-> "wifi", seq |-> command.seq, downlink |-> command.downlink,
   response |-> response]
Messages ==
  [kind : {"wifi"}, seq : SeqIds, downlink : Downlinks, response : TxResponses]
    \cup {RxPacket, SerialResponse}

(* The JSON of a downlink: well formed, not parsed by parse_downlink, or   *)
(* with a payload that Command::lora_tx refuses.                           *)
DownlinkKinds == {"ok", "malformed", "unsendable"}
Requests == [kind : DownlinkKinds, downlink : Downlinks]

(* MqttOutbound: an uplink, or the tx/result of a downlink.                *)
Uplink == [topic |-> "rx"]
TxResult(d) == [topic |-> "tx_result", downlink |-> d]
Publications == {Uplink} \cup [topic : {"tx_result"}, downlink : Downlinks]

(* A downlink is open until a session has published its tx/result, or until *)
(* it is lost: dropped at a full channel or for its size, its response     *)
(* pushed out of RESPONSE, its tx/result gone with the session that had    *)
(* taken it, or all of it wiped by a reset.                                *)
Fates == {"open", "published", "dropped", "pushed out", "failed", "wiped"}

(* The reason in a tx/result.  "refused" is every reason that says that    *)
(* nothing was transmitted: bad_json, bad_payload, busy, queue_full and    *)
(* the duty cycle's.                                                       *)
Reasons == {"sent", "refused", "error"}

-----------------------------------------------------------------------------
(* Channel operations.                                                     *)

Repeat(message, n) == [k \in 1 .. n |-> message]

(* publish_immediate, n times the same message: the oldest messages make   *)
(* room, and the subscriber is told how many of them it never read.        *)
IsWifi(item) == item.kind = "wifi"
Publish(message, n) ==
  LET all    == responseQ \o Repeat(message, n)
      excess == IF Len(all) > ResponseCap THEN Len(all) - ResponseCap ELSE 0
  IN  /\ responseQ' = SubSeq(all, excess + 1, Len(all))
      /\ lagged' = lagged + excess
      /\ fate' = [d \in Downlinks |->
                    IF \E k \in 1 .. excess : IsWifi(all[k]) /\ all[k].downlink = d
                    THEN "pushed out" ELSE fate[d]]

(* enqueue() of tasks/bridge.rs: a publication for the MQTT task, dropped  *)
(* and counted when the channel is full.                                   *)
Fits == Len(mqttOut) < MqttOutCap

enqueue(outbound) == mqttOut' = IF Fits THEN Append(mqttOut, outbound) ELSE mqttOut

(* count_uplink, count_downlink and count_dropped in one step.             *)
Count(uplink, downlink, dropped) ==
  stats' = [uplink   |-> stats.uplink + uplink,
            downlink |-> stats.downlink + downlink,
            dropped  |-> stats.dropped + dropped]

Without(map, seq) == [s \in DOMAIN map \ {seq} |-> map[s]]
With(map, seq, d) == [s \in DOMAIN map \cup {seq} |-> IF s = seq THEN d ELSE map[s]]

(* A tx/result for the broker, which enqueue may drop.                     *)
Give(d, reason) ==
  /\ result' = [result EXCEPT ![d] = Append(@, reason)]
  /\ enqueue(TxResult(d))
  /\ fate' = IF Fits THEN fate ELSE [fate EXCEPT ![d] = "dropped"]

(* Sequence ids of the downlinks on their way to the radio and back.       *)
Awaited ==
  {item \in {commandQ[k] : k \in DOMAIN commandQ} \cup {serving}
            \cup {responseQ[k] : k \in DOMAIN responseQ} :
     IsWifi(item)}
AwaitedSeqs == {item.seq : item \in Awaited}

-----------------------------------------------------------------------------
(* mqtt_task.                                                              *)

SessionUp ==
  /\ ~online
  /\ online' = TRUE
  /\ UNCHANGED <<queues, serving, rebooting, inFlight, nextSequence, rxSeq, stats, history>>

SessionEnd ==
  /\ online
  /\ online' = FALSE
  /\ UNCHANGED <<queues, serving, rebooting, inFlight, nextSequence, rxSeq, stats, history>>

(* A publish on the tx topic reaches the bridge, or is dropped and counted *)
(* because MQTT_IN is full or the payload exceeds MAX_JSON.                *)
MqttReceive(kind, oversize) ==
  LET taken == ~oversize /\ Len(mqttIn) < MqttInCap
  IN  /\ online /\ arrived < MaxDownlinks
      /\ arrived' = arrived + 1
      /\ mqttIn' = IF taken THEN Append(mqttIn, [kind |-> kind, downlink |-> arrived + 1])
                   ELSE mqttIn
      /\ Count(0, 0, IF taken THEN 0 ELSE 1)
      /\ fate' = IF taken THEN fate ELSE [fate EXCEPT ![arrived + 1] = "dropped"]
      /\ UNCHANGED <<online, mqttOut, commandQ, responseQ, lagged, serving, rebooting,
                     inFlight, nextSequence, rxSeq, serialReads, received, result, aired,
                     overrun>>

(* MQTT_OUT.receive then deliver: when the publish fails the session ends  *)
(* and the message taken from the channel is gone.                         *)
MqttDeliver ==
  /\ online /\ mqttOut # <<>>
  /\ mqttOut' = Tail(mqttOut)
  /\ online' \in BOOLEAN
  /\ fate' = IF Head(mqttOut) = Uplink THEN fate
             ELSE [fate EXCEPT ![Head(mqttOut).downlink] =
                                 IF online' THEN "published" ELSE "failed"]
  /\ UNCHANGED <<mqttIn, commandQ, responseQ, lagged, serving, rebooting, inFlight,
                 nextSequence, rxSeq, stats, arrived, serialReads, received, result, aired,
                 overrun>>

-----------------------------------------------------------------------------
(* serial_reader_task.                                                     *)

(* A command frame: send().await, so the step happens when there is room.  *)
SerialRead(command) ==
  /\ serialReads < MaxSerial /\ Len(commandQ) < CommandCap
  /\ serialReads' = serialReads + 1
  /\ commandQ' = Append(commandQ, command)
  /\ UNCHANGED <<online, mqttIn, mqttOut, responseQ, lagged, serving, rebooting, inFlight,
                 nextSequence, rxSeq, stats, arrived, received, result, aired, fate, overrun>>

(* Frames that do not parse: one read answers all of them without an await.  *)
(* A reply of hub_ctrl_task to the serial port is a publication like one.  *)
SerialParseErrors(n) ==
  /\ serialReads < MaxSerial
  /\ serialReads' = serialReads + 1
  /\ Publish(SerialResponse, n)
  /\ UNCHANGED <<online, mqttIn, mqttOut, commandQ, serving, rebooting, inFlight,
                 nextSequence, rxSeq, stats, arrived, received, result, aired, overrun>>

-----------------------------------------------------------------------------
(* lora_task.                                                              *)

LoraReceive ==
  /\ serving = Idle /\ received < MaxRx
  /\ received' = received + 1
  /\ Publish(RxPacket, 1)
  /\ UNCHANGED <<online, mqttIn, mqttOut, commandQ, serving, rebooting, inFlight,
                 nextSequence, rxSeq, stats, arrived, serialReads, result, aired, overrun>>

(* handle_command up to its first await; Reboot goes to the admin task and *)
(* gets no response.                                                       *)
LoraTake ==
  /\ serving = Idle /\ commandQ # <<>>
  /\ commandQ' = Tail(commandQ)
  /\ IF Head(commandQ) = RebootCommand
     THEN rebooting' = TRUE /\ UNCHANGED serving
     ELSE serving' = Head(commandQ) /\ UNCHANGED rebooting
  /\ UNCHANGED <<online, mqttIn, mqttOut, responseQ, lagged, inFlight, nextSequence, rxSeq, stats,
                 history>>

(* The response of a serial command.                                       *)
LoraAnswerSerial ==
  /\ serving = SerialCommand
  /\ serving' = Idle
  /\ Publish(SerialResponse, 1)
  /\ UNCHANGED <<online, mqttIn, mqttOut, commandQ, rebooting, inFlight, nextSequence, rxSeq, stats,
                 arrived, serialReads, received, result, aired, overrun>>

(* The end of handle_lora_tx for a downlink: refused by the duty cycle,    *)
(* transmitted, or failed.  A failure may come after the packet went out   *)
(* (the wait for TxDone timed out).                                        *)
LoraAnswerDownlink(response, emitted) ==
  /\ IsWifi(serving)
  /\ response = "TxComplete" => emitted
  /\ response = "TxRefused" => ~emitted
  /\ aired' = IF emitted THEN aired \cup {serving.downlink} ELSE aired
  /\ Publish(WifiResponse(serving, response), 1)
  /\ serving' = Idle
  /\ UNCHANGED <<online, mqttIn, mqttOut, commandQ, rebooting, inFlight, nextSequence, rxSeq, stats,
                 arrived, serialReads, received, result, overrun>>

(* admin_task: software_reset half a second after the Reboot command.      *)
Reset ==
  /\ rebooting
  /\ online' = FALSE
  /\ mqttIn' = <<>> /\ mqttOut' = <<>> /\ commandQ' = <<>>
  /\ serving' = Idle /\ rebooting' = FALSE
  /\ responseQ' = <<>> /\ lagged' = 0
  /\ inFlight' = <<>> /\ nextSequence' = 0 /\ rxSeq' = 0
  /\ stats' = [uplink |-> 0, downlink |-> 0, dropped |-> 0]
  /\ received' = 0
  /\ fate' = [d \in Downlinks |->
                IF d <= arrived /\ fate[d] = "open" THEN "wiped" ELSE fate[d]]
  /\ UNCHANGED <<arrived, serialReads, result, aired, overrun>>

-----------------------------------------------------------------------------
(* bridge_task: select polls the response subscriber before MQTT_IN.       *)

(* WaitResult::Lagged: the messages are gone; only their number is known.  *)
BridgeLagged ==
  /\ lagged > 0
  /\ lagged' = 0
  /\ Count(0, 0, lagged)
  /\ UNCHANGED <<online, mqttIn, mqttOut, commandQ, responseQ, serving, rebooting, inFlight,
                 nextSequence, rxSeq, history>>

on_rx_packet ==
  /\ rxSeq' = rxSeq + 1
  /\ enqueue(Uplink)
  /\ Count(IF Fits THEN 1 ELSE 0, 0, IF Fits THEN 0 ELSE 1)
  /\ UNCHANGED <<inFlight, result, fate>>

ReasonOf(response) ==
  CASE response = "TxComplete" -> "sent"
    [] response = "TxRefused"  -> "refused"
    [] OTHER                   -> "error"

(* The oldest entry is consumed whatever the sequence id of the response.  *)
RespondToOldest(message) ==
  \/ /\ DOMAIN inFlight = {}
     /\ UNCHANGED <<inFlight, result, fate, mqttOut, stats>>
  \/ \E seq \in DOMAIN inFlight :
       /\ \A other \in DOMAIN inFlight : seq <= other
       /\ inFlight' = Without(inFlight, seq)
       /\ Give(inFlight[seq], ReasonOf(message.response))
       /\ Count(0, IF message.response = "TxComplete" THEN 1 ELSE 0, IF Fits THEN 0 ELSE 1)

on_command_response(message) ==
  IF message.seq \in DOMAIN inFlight
  THEN /\ inFlight' = Without(inFlight, message.seq)
       /\ Give(inFlight[message.seq], ReasonOf(message.response))
       /\ Count(0, IF message.response = "TxComplete" THEN 1 ELSE 0, IF Fits THEN 0 ELSE 1)
  ELSE UNCHANGED <<inFlight, result, fate, mqttOut, stats>>

BridgeResponse ==
  /\ lagged = 0 /\ responseQ # <<>>
  /\ responseQ' = Tail(responseQ)
  /\ LET message == Head(responseQ)
     IN  CASE message = RxPacket  -> on_rx_packet
           [] IsWifi(message)     -> on_command_response(message) /\ UNCHANGED rxSeq
           [] OTHER               -> UNCHANGED <<inFlight, result, fate, mqttOut, stats, rxSeq>>
  /\ UNCHANGED <<online, mqttIn, commandQ, lagged, serving, rebooting, nextSequence,
                 arrived, serialReads, received, aired, overrun>>

(* A refusal that nobody is told of.                                       *)
RejectSilently(d) == UNCHANGED <<result, fate, mqttOut, stats, commandQ>>

(* A downlink refused before it reaches the radio.                         *)
Reject(d) ==
  /\ Give(d, "refused")
  /\ Count(0, 0, IF Fits THEN 0 ELSE 1)
  /\ UNCHANGED commandQ

TakeSequence ==
  /\ nextSequence' = (nextSequence + 1) % SeqMod
  /\ overrun' = (overrun \/ nextSequence \in AwaitedSeqs)

(* The entry of a downlink that found COMMAND full stays in the table.     *)
DownlinkWithoutAbandon(d) ==
  /\ TakeSequence
  /\ inFlight' = With(inFlight, nextSequence, d)
  /\ IF Len(commandQ) < CommandCap
     THEN /\ commandQ' = Append(commandQ, WifiCommand(nextSequence, d))
          /\ UNCHANGED <<result, fate, mqttOut, stats>>
     ELSE Reject(d)

(* on_downlink's Send outcome: try_send, or abandon because COMMAND is full. *)
SendDownlink(d) ==
  /\ TakeSequence
  /\ IF Len(commandQ) < CommandCap
     THEN /\ inFlight' = With(inFlight, nextSequence, d)
          /\ commandQ' = Append(commandQ, WifiCommand(nextSequence, d))
          /\ UNCHANGED <<result, fate, mqttOut, stats>>
     ELSE /\ inFlight' = Without(inFlight, nextSequence)
          /\ Reject(d)

on_downlink(kind, d) ==
  \/ /\ kind = "malformed"
     /\ Reject(d)
     /\ UNCHANGED <<inFlight, nextSequence, overrun>>
  \/ /\ kind # "malformed"
     /\ Cardinality(DOMAIN inFlight) = MaxInFlight
     /\ Reject(d)
     /\ UNCHANGED <<inFlight, nextSequence, overrun>>
  \/ /\ kind = "unsendable"
     /\ Cardinality(DOMAIN inFlight) # MaxInFlight
     /\ TakeSequence
     /\ inFlight' = Without(inFlight, nextSequence)
     /\ Reject(d)
  \/ /\ kind = "ok"
     /\ Cardinality(DOMAIN inFlight) # MaxInFlight
     /\ SendDownlink(d)

BridgeDownlink ==
  /\ lagged = 0 /\ responseQ = <<>> /\ mqttIn # <<>>
  /\ mqttIn' = Tail(mqttIn)
  /\ on_downlink(Head(mqttIn).kind, Head(mqttIn).downlink)
  /\ UNCHANGED <<online, responseQ, lagged, serving, rebooting, rxSeq, arrived,
                 serialReads, received, aired>>

-----------------------------------------------------------------------------
Init ==
  /\ online = FALSE
  /\ mqttIn = <<>> /\ mqttOut = <<>> /\ commandQ = <<>>
  /\ serving = Idle /\ rebooting = FALSE
  /\ responseQ = <<>> /\ lagged = 0
  /\ inFlight = <<>> /\ nextSequence = 0 /\ rxSeq = 0
  /\ stats = [uplink |-> 0, downlink |-> 0, dropped |-> 0]
  /\ arrived = 0 /\ serialReads = 0 /\ received = 0
  /\ result = [d \in Downlinks |-> <<>>]
  /\ aired = {} /\ fate = [d \in Downlinks |-> "open"] /\ overrun = FALSE

Next ==
  \/ SessionUp
  \/ SessionEnd
  \/ \E kind \in DownlinkKinds, oversize \in BOOLEAN : MqttReceive(kind, oversize)
  \/ MqttDeliver
  \/ \E command \in {SerialCommand, RebootCommand} : SerialRead(command)
  \/ \E n \in Bursts : SerialParseErrors(n)
  \/ LoraReceive
  \/ LoraTake
  \/ LoraAnswerSerial
  \/ \E response \in TxResponses, emitted \in BOOLEAN : LoraAnswerDownlink(response, emitted)
  \/ Reset
  \/ BridgeLagged
  \/ BridgeResponse
  \/ BridgeDownlink

(* The executor polls every task that was woken, a transmission ends within *)
(* the 10 s timeout of the driver.  mqtt_task takes from MQTT_OUT when no  *)
(* packet of the broker is waiting, and it has a bounded number of them to *)
(* read (MaxDownlinks).  Nothing is assumed of the broker, the serial host *)
(* or the air: no session need come, and any may end.                      *)
Fairness ==
  /\ WF_vars(MqttDeliver)
  /\ WF_vars(LoraTake)
  /\ WF_vars(LoraAnswerSerial)
  /\ WF_vars(\E response \in TxResponses, emitted \in BOOLEAN :
               LoraAnswerDownlink(response, emitted))
  /\ WF_vars(BridgeLagged)
  /\ WF_vars(BridgeResponse)
  /\ WF_vars(BridgeDownlink)

Spec == Init /\ [][Next]_vars
FairSpec == Spec /\ Fairness

-----------------------------------------------------------------------------
(* Every channel within its capacity, every item of the type of its        *)
(* channel, at most MAX_IN_FLIGHT entries awaiting a response.             *)
ChannelsOK ==
  /\ mqttIn \in Seq(Requests) /\ Len(mqttIn) <= MqttInCap
  /\ commandQ \in Seq(Commands) /\ Len(commandQ) <= CommandCap
  /\ serving \in (Commands \ {RebootCommand}) \cup {Idle}
  /\ responseQ \in Seq(Messages) /\ Len(responseQ) <= ResponseCap
  /\ lagged \in Nat
OutputOK ==
  /\ mqttOut \in Seq(Publications) /\ Len(mqttOut) <= MqttOutCap
  /\ stats \in [uplink : Nat, downlink : Nat, dropped : Nat]
TableOK ==
  /\ DOMAIN inFlight \subseteq SeqIds
  /\ \A seq \in DOMAIN inFlight : inFlight[seq] \in Downlinks
  /\ Cardinality(DOMAIN inFlight) <= MaxInFlight
  /\ nextSequence \in SeqIds /\ rxSeq \in Nat
HistoryOK ==
  /\ arrived \in 0 .. MaxDownlinks /\ serialReads \in 0 .. MaxSerial
  /\ received \in 0 .. MaxRx
  /\ result \in [Downlinks -> Seq(Reasons)]
  /\ aired \subseteq Downlinks /\ fate \in [Downlinks -> Fates]
TypeOK ==
  /\ online \in BOOLEAN /\ rebooting \in BOOLEAN /\ overrun \in BOOLEAN
  /\ ChannelsOK /\ OutputOK /\ TableOK /\ HistoryOK

(* A command on its way to the radio, and its response on the way back,    *)
(* still has its entry in in_flight, and the entry names the downlink whose *)
(* payload the command carries: bridge_task can never report one downlink's *)
(* outcome under another's id.                                             *)
Correlated ==
  ~overrun => \A item \in Awaited :
    item.seq \in DOMAIN inFlight /\ inFlight[item.seq] = item.downlink

(* A tx/result is given at most once, and it is true: "sent" only for a    *)
(* packet the radio transmitted, and no refusal for one that it did.       *)
ReportedTruthfully ==
  ~overrun => \A d \in Downlinks :
    /\ Len(result[d]) <= 1
    /\ result[d] = <<"sent">> => d \in aired
    /\ result[d] # <<>> /\ d \in aired => result[d][1] \in {"sent", "error"}

(* Entries that no response will ever consume exist only because the       *)
(* bridge's subscriber lagged, and dropped_count (with the lag it has not  *)
(* seen yet) covers every one of them, whether or not ids were reused.     *)
LeakIsCounted ==
  Cardinality(DOMAIN inFlight \ AwaitedSeqs) <= stats.dropped + lagged

(* Every LoRa packet published by lora_task is queued for the broker and   *)
(* counted in uplink_count, still to be read, or covered by dropped_count; *)
(* and rx_seq numbers the packets the bridge has read, so that a consumer  *)
(* who sees a gap in it lost a packet to the queue.                        *)
UplinksAccounted ==
  LET unread == Cardinality({k \in DOMAIN responseQ :
                               responseQ[k] = RxPacket})
  IN  /\ stats.uplink <= rxSeq /\ rxSeq + unread <= received
      /\ received <= stats.uplink + unread + stats.dropped + lagged

(* What bridge mode loses on its two ways, the responses to downlinks and  *)
(* the received packets, shows up in the statistics.                       *)
LossesCounted == LeakIsCounted /\ UplinksAccounted

(* Every downlink that the broker sends is settled: a session publishes    *)
(* its tx/result, or it waits in MQTT_OUT for a session, or it is lost in  *)
(* one of the ways that fate names.  After a sequence id was reused while  *)
(* awaited, which takes 2^16 downlinks, nothing is claimed.                *)
Waits(d) == ~online /\ \E k \in DOMAIN mqttOut : mqttOut[k] = TxResult(d)
Settled(d) == fate[d] # "open" \/ Waits(d)
Resolved == []<>(overrun \/ \A d \in 1 .. arrived : Settled(d))

(* What BridgeState::abandon is documented to ensure of the table: every   *)
(* entry has a command or a response outstanding.                          *)
NoLeak == \A seq \in DOMAIN inFlight : seq \in AwaitedSeqs
=============================================================================
