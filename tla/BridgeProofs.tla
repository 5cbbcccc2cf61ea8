------------------------------ MODULE BridgeProofs ------------------------------
(***************************************************************************)
(* Proofs about Bridge, for every capacity, every bound and every set of   *)
(* burst sizes: the types, then the correlation of responses with their    *)
(* downlinks, then the account of what an overrun RESPONSE channel loses.  *)
(***************************************************************************)
EXTENDS Bridge, FiniteSetTheorems, TLAPS

(* What publish_immediate leaves of a channel: without the e oldest        *)
(* messages, and with n copies of the new one behind the others.           *)
Shifted(q, q2, message, n, e) ==
  /\ q \in Seq(Messages) /\ q2 \in Seq(Messages)
  /\ Len(q2) = Len(q) + n - e /\ e <= Len(q) + n
  /\ \A k \in 1 .. Len(q2) : /\ k + e <= Len(q) => q2[k] = q[k + e]
                             /\ k + e > Len(q) => q2[k] = message

LEMMA PublishExact ==
  ASSUME responseQ \in Seq(Messages), lagged \in Nat,
         NEW message \in Messages, NEW n \in Nat, Publish(message, n)
  PROVE  \E e \in Nat : /\ lagged' = lagged + e
                        /\ Shifted(responseQ, responseQ', message, n, e)
                        /\ Len(responseQ') <= ResponseCap
                        /\ n > 0 => Len(responseQ') > 0
<1> DEFINE all == responseQ \o Repeat(message, n)
           excess == IF Len(all) > ResponseCap THEN Len(all) - ResponseCap ELSE 0
<1>1. Repeat(message, n) \in Seq(Messages) /\ Len(Repeat(message, n)) = n
  BY DEF Repeat
<1>2. /\ all \in Seq(Messages) /\ Len(all) = Len(responseQ) + n /\ Len(responseQ) \in Nat
      /\ \A k \in 1 .. Len(responseQ) : all[k] = responseQ[k]
      /\ \A k \in Len(responseQ) + 1 .. Len(responseQ) + n : all[k] = message
  BY <1>1 DEF Repeat
<1>3. /\ excess \in Nat /\ Len(all) - excess <= ResponseCap /\ excess <= Len(all)
      /\ n > 0 => Len(all) - excess > 0
  <2> DEFINE l == Len(all)
  <2>1. l \in Nat /\ (n > 0 => l > 0) /\ ResponseCap \in Nat \ {0}
    BY <1>2, BridgeAssumption
  <2> HIDE DEF l, all
  <2> QED BY <2>1 DEF l
<1>4. responseQ' = SubSeq(all, excess + 1, Len(all)) /\ lagged' = lagged + excess
  BY DEF Publish
<1> HIDE DEF all, excess
<1>5. /\ responseQ' \in Seq(Messages) /\ Len(responseQ') = Len(all) - excess
      /\ \A k \in 1 .. Len(all) - excess : responseQ'[k] = all[k + excess]
  BY <1>2, <1>3, <1>4
<1>6. \A k \in 1 .. Len(responseQ') : k + excess \in 1 .. Len(responseQ) + n /\ k + excess \in Nat
  BY <1>2, <1>3, <1>5
<1>7. \A k \in 1 .. Len(responseQ') :
              /\ k + excess <= Len(responseQ) => responseQ'[k] = responseQ[k + excess]
              /\ k + excess > Len(responseQ) => responseQ'[k] = message
  BY <1>2, <1>5, <1>6
<1>8. Shifted(responseQ, responseQ', message, n, excess)
  BY <1>2, <1>3, <1>5, <1>7 DEF Shifted
<1>9. Len(responseQ') <= ResponseCap /\ (n > 0 => Len(responseQ') > 0)
  BY <1>2, <1>3, <1>5
<1> QED BY <1>3, <1>4, <1>8, <1>9

LEMMA PublishLemma ==
  ASSUME responseQ \in Seq(Messages), lagged \in Nat,
         NEW message \in Messages, NEW n \in Nat, Publish(message, n)
  PROVE  /\ responseQ' \in Seq(Messages)
         /\ Len(responseQ') <= ResponseCap
         /\ lagged' \in Nat
         /\ \E e \in Nat : \A k \in DOMAIN responseQ' :
              /\ k + e \in 1 .. Len(responseQ) + n
              /\ k + e <= Len(responseQ) => responseQ'[k] = responseQ[k + e]
              /\ k + e > Len(responseQ) => responseQ'[k] = message
<1>1. PICK e \in Nat : /\ lagged' = lagged + e
                       /\ Shifted(responseQ, responseQ', message, n, e)
                       /\ Len(responseQ') <= ResponseCap
  BY PublishExact
<1>2. responseQ' \in Seq(Messages) /\ lagged' \in Nat
  BY <1>1 DEF Shifted
<1>3. \A k \in DOMAIN responseQ' :
              /\ k + e \in 1 .. Len(responseQ) + n
              /\ k + e <= Len(responseQ) => responseQ'[k] = responseQ[k + e]
              /\ k + e > Len(responseQ) => responseQ'[k] = message
  BY <1>1 DEF Shifted
<1> QED BY <1>1, <1>2, <1>3, Zenon

(* The downlinks whose responses are pushed out are marked.                *)
LEMMA PublishFate ==
  ASSUME fate \in [Downlinks -> Fates], NEW message, NEW n, Publish(message, n)
  PROVE  fate' \in [Downlinks -> Fates]
BY DEF Publish, Fates

(* Adding and removing entries of the in_flight table.                     *)
LEMMA FiniteMap ==
  ASSUME NEW map, DOMAIN map \subseteq SeqIds
  PROVE  /\ IsFiniteSet(DOMAIN map)
         /\ Cardinality(DOMAIN map) \in Nat
         /\ \A seq : /\ DOMAIN Without(map, seq) = DOMAIN map \ {seq}
                     /\ Cardinality(DOMAIN map \ {seq}) <= Cardinality(DOMAIN map)
                     /\ \A s \in DOMAIN map \ {seq} : Without(map, seq)[s] = map[s]
         /\ \A seq, d : /\ DOMAIN With(map, seq, d) = DOMAIN map \cup {seq}
                        /\ Cardinality(DOMAIN map \cup {seq}) <= Cardinality(DOMAIN map) + 1
                        /\ With(map, seq, d)[seq] = d
                        /\ \A s \in DOMAIN map \ {seq} : With(map, seq, d)[s] = map[s]
<1>1. IsFiniteSet(SeqIds)
  BY FS_Interval, BridgeAssumption DEF SeqIds
<1>2. IsFiniteSet(DOMAIN map)
  BY <1>1, FS_Subset
<1>3. Cardinality(DOMAIN map) \in Nat
  BY <1>2, FS_CardinalityType
<1>4. \A seq : Cardinality(DOMAIN map \ {seq}) <= Cardinality(DOMAIN map)
  BY <1>2, <1>3, FS_RemoveElement
<1>5. \A seq : Cardinality(DOMAIN map \cup {seq}) <= Cardinality(DOMAIN map) + 1
  BY <1>2, <1>3, FS_AddElement
<1> QED BY <1>2, <1>3, <1>4, <1>5 DEF Without, With

(* Taking the first item of a queue.                                       *)
LEMMA TailLemma ==
  ASSUME NEW S, NEW q \in Seq(S), q # <<>>
  PROVE  /\ Head(q) \in S /\ Head(q) = q[1] /\ 1 \in DOMAIN q
         /\ Tail(q) \in Seq(S) /\ Len(Tail(q)) = Len(q) - 1 /\ Len(q) \in Nat
         /\ \A k \in DOMAIN Tail(q) : k + 1 \in DOMAIN q /\ k + 1 # 1 /\ Tail(q)[k] = q[k + 1]
  OBVIOUS

(* Appending an item to a queue.                                           *)
LEMMA AppendLemma ==
  ASSUME NEW S, NEW q \in Seq(S), NEW x \in S
  PROVE  /\ Append(q, x) \in Seq(S) /\ Len(Append(q, x)) = Len(q) + 1 /\ Len(q) \in Nat
         /\ \A k \in DOMAIN Append(q, x) :
              \/ k \in DOMAIN q /\ Append(q, x)[k] = q[k]
              \/ k = Len(q) + 1 /\ Append(q, x)[k] = x
  OBVIOUS

-----------------------------------------------------------------------------
(* Type correctness.                                                       *)

LEMMA TypeInit == Init => TypeOK
<1> SUFFICES ASSUME Init PROVE TypeOK
  OBVIOUS
<1>1. inFlight = <<>> /\ DOMAIN inFlight = {} /\ Cardinality(DOMAIN inFlight) = 0
  BY FS_EmptySet DEF Init
<1>2. ChannelsOK /\ OutputOK
  BY BridgeAssumption DEF Init, ChannelsOK, OutputOK
<1>3. TableOK
  BY <1>1, BridgeAssumption DEF Init, TableOK, SeqIds
<1>4. HistoryOK
  <2>1. fate \in [Downlinks -> Fates]
    BY DEF Init, Fates
  <2> QED BY <2>1, BridgeAssumption DEF Init, HistoryOK
<1> QED BY <1>2, <1>3, <1>4 DEF Init, TypeOK

(* The serial and radio inputs, and the steps of lora_task.                *)
LEMMA TypeRadio ==
  ASSUME TypeOK,
         \/ \E command \in {SerialCommand, RebootCommand} : SerialRead(command)
         \/ \E n \in Bursts : SerialParseErrors(n)
         \/ LoraReceive
         \/ LoraTake
         \/ LoraAnswerSerial
         \/ \E response \in TxResponses, emitted \in BOOLEAN :
              LoraAnswerDownlink(response, emitted)
  PROVE  TypeOK'
<1> USE DEF TypeOK
<1>f. ASSUME NEW message, NEW n, Publish(message, n)
      PROVE  fate' \in [Downlinks -> Fates]
  BY <1>f, PublishFate DEF HistoryOK
<1>1. CASE \E command \in {SerialCommand, RebootCommand} : SerialRead(command)
  <2> PICK command \in {SerialCommand, RebootCommand} : SerialRead(command)
    BY <1>1
  <2>1. command \in Commands
    BY DEF Commands
  <2>2. ChannelsOK'
    BY <2>1, AppendLemma, BridgeAssumption DEF ChannelsOK, SerialRead
  <2>3. HistoryOK'
    BY BridgeAssumption DEF HistoryOK, SerialRead
  <2> QED BY <2>2, <2>3 DEF SerialRead, OutputOK, TableOK
<1>p. ASSUME NEW message \in Messages, NEW n \in Nat, Publish(message, n)
      PROVE  /\ responseQ' \in Seq(Messages) /\ Len(responseQ') <= ResponseCap
             /\ lagged' \in Nat
  BY <1>p, PublishLemma DEF ChannelsOK
<1>2. CASE \E n \in Bursts : SerialParseErrors(n)
  <2> PICK n \in Bursts : SerialParseErrors(n)
    BY <1>2
  <2>1. SerialResponse \in Messages /\ n \in Nat /\ Publish(SerialResponse, n)
    BY BridgeAssumption DEF Messages, SerialParseErrors
  <2>2. ChannelsOK'
    BY <2>1, <1>p DEF ChannelsOK, SerialParseErrors
  <2>3. HistoryOK'
    BY <2>1, <1>f, BridgeAssumption DEF HistoryOK, SerialParseErrors
  <2> QED BY <2>2, <2>3 DEF SerialParseErrors, OutputOK, TableOK
<1>3. CASE LoraReceive
  <2>1. RxPacket \in Messages /\ Publish(RxPacket, 1)
    BY <1>3 DEF Messages, LoraReceive
  <2>2. ChannelsOK'
    BY <1>3, <2>1, <1>p DEF ChannelsOK, LoraReceive
  <2>3. HistoryOK'
    BY <1>3, <2>1, <1>f, BridgeAssumption DEF HistoryOK, LoraReceive
  <2> QED BY <1>3, <2>2, <2>3 DEF LoraReceive, OutputOK, TableOK
<1>4. CASE LoraTake
  <2>1. ChannelsOK'
    BY <1>4, TailLemma, BridgeAssumption DEF ChannelsOK, LoraTake
  <2> QED BY <1>4, <2>1 DEF LoraTake, OutputOK, TableOK, HistoryOK, history
<1>5. CASE LoraAnswerSerial
  <2>1. SerialResponse \in Messages /\ Publish(SerialResponse, 1)
    BY <1>5 DEF Messages, LoraAnswerSerial
  <2>2. ChannelsOK'
    BY <1>5, <2>1, <1>p DEF ChannelsOK, LoraAnswerSerial
  <2>3. HistoryOK'
    BY <1>5, <2>1, <1>f DEF HistoryOK, LoraAnswerSerial
  <2> QED BY <1>5, <2>2, <2>3 DEF LoraAnswerSerial, OutputOK, TableOK
<1>6. CASE \E response \in TxResponses, emitted \in BOOLEAN :
             LoraAnswerDownlink(response, emitted)
  <2> PICK response \in TxResponses, emitted \in BOOLEAN :
             LoraAnswerDownlink(response, emitted)
    BY <1>6
  <2>1. serving.seq \in SeqIds /\ serving.downlink \in Downlinks
    BY DEF ChannelsOK, LoraAnswerDownlink, Commands, IsWifi, Idle, SerialCommand, RebootCommand
  <2>2. WifiResponse(serving, response) \in Messages
    BY <2>1 DEF Messages, WifiResponse
  <2>3. Publish(WifiResponse(serving, response), 1)
    BY DEF LoraAnswerDownlink
  <2>4. ChannelsOK'
    BY <2>2, <2>3, <1>p DEF ChannelsOK, LoraAnswerDownlink
  <2>5. HistoryOK'
    BY <2>1, <2>3, <1>f DEF HistoryOK, LoraAnswerDownlink
  <2> QED BY <2>4, <2>5 DEF LoraAnswerDownlink, OutputOK, TableOK
<1> QED BY <1>1, <1>2, <1>3, <1>4, <1>5, <1>6

(* The steps of mqtt_task and the reset.                                   *)
LEMMA TypeMqtt ==
  ASSUME TypeOK,
         \/ SessionUp
         \/ SessionEnd
         \/ \E kind \in DownlinkKinds, oversize \in BOOLEAN : MqttReceive(kind, oversize)
         \/ MqttDeliver
         \/ Reset
  PROVE  TypeOK'
<1> USE DEF TypeOK
<1>1. CASE SessionUp \/ SessionEnd
  BY <1>1 DEF SessionUp, SessionEnd, ChannelsOK, OutputOK, TableOK, HistoryOK, queues, history
<1>2. CASE \E kind \in DownlinkKinds, oversize \in BOOLEAN : MqttReceive(kind, oversize)
  <2> PICK kind \in DownlinkKinds, oversize \in BOOLEAN : MqttReceive(kind, oversize)
    BY <1>2
  <2>1. [kind |-> kind, downlink |-> arrived + 1] \in Requests
    BY BridgeAssumption DEF HistoryOK, MqttReceive, Downlinks, Requests
  <2>2. ChannelsOK'
    BY <2>1, AppendLemma, BridgeAssumption DEF ChannelsOK, MqttReceive
  <2>3. OutputOK'
    BY DEF OutputOK, MqttReceive, Count
  <2>4. HistoryOK'
    <3>1. fate' \in [Downlinks -> Fates]
      BY DEF HistoryOK, MqttReceive, Fates
    <3> QED BY <3>1, BridgeAssumption DEF HistoryOK, MqttReceive
  <2> QED BY <2>2, <2>3, <2>4 DEF MqttReceive, TableOK
<1>3. CASE MqttDeliver
  <2>1. OutputOK'
    BY <1>3, TailLemma, BridgeAssumption DEF OutputOK, MqttDeliver
  <2>2. ChannelsOK' /\ TableOK'
    BY <1>3 DEF MqttDeliver, ChannelsOK, TableOK
  <2>3. fate' \in [Downlinks -> Fates]
    BY <1>3 DEF MqttDeliver, HistoryOK, Fates
  <2>4. HistoryOK'
    BY <1>3, <2>3 DEF MqttDeliver, HistoryOK
  <2> QED BY <1>3, <2>1, <2>2, <2>4 DEF MqttDeliver
<1>4. CASE Reset
  <2>1. TableOK'
    <3>1. inFlight' = <<>> /\ DOMAIN inFlight' = {}
      BY <1>4 DEF Reset
    <3>2. Cardinality(DOMAIN inFlight') = 0
      BY <3>1, FS_EmptySet
    <3> QED BY <1>4, <3>1, <3>2, BridgeAssumption DEF Reset, TableOK, SeqIds
  <2>2. HistoryOK'
    <3>1. fate' \in [Downlinks -> Fates]
      BY <1>4 DEF HistoryOK, Reset, Fates
    <3> QED BY <1>4, <3>1, BridgeAssumption DEF HistoryOK, Reset
  <2>3. ChannelsOK' /\ OutputOK'
    BY <1>4, BridgeAssumption DEF Reset, ChannelsOK, OutputOK
  <2> QED BY <1>4, <2>1, <2>2, <2>3 DEF Reset
<1> QED BY <1>1, <1>2, <1>3, <1>4

(* The steps of bridge_task.                                               *)
LEMMA TypeBridge ==
  ASSUME TypeOK, BridgeLagged \/ BridgeResponse \/ BridgeDownlink
  PROVE  TypeOK'
<1> USE DEF TypeOK
<1> DEFINE Table == /\ DOMAIN inFlight' \subseteq SeqIds
                    /\ \A seq \in DOMAIN inFlight' : inFlight'[seq] \in Downlinks
                    /\ Cardinality(DOMAIN inFlight') <= MaxInFlight
<1>e. ASSUME NEW outbound \in Publications, NEW u \in Nat, NEW v \in Nat, NEW w \in Nat,
             enqueue(outbound), Count(u, v, w)
      PROVE  OutputOK'
  <2>1. stats' \in [uplink : Nat, downlink : Nat, dropped : Nat]
    BY <1>e DEF OutputOK, Count
  <2>2. /\ Append(mqttOut, outbound) \in Seq(Publications)
        /\ Len(Append(mqttOut, outbound)) = Len(mqttOut) + 1 /\ Len(mqttOut) \in Nat
    BY <1>e, AppendLemma DEF OutputOK
  <2> QED BY <1>e, <2>1, <2>2, BridgeAssumption DEF OutputOK, enqueue, Fits
<1>g. ASSUME NEW d \in Downlinks, NEW reason \in Reasons, Give(d, reason)
      PROVE  result' \in [Downlinks -> Seq(Reasons)] /\ fate' \in [Downlinks -> Fates]
             /\ enqueue(TxResult(d)) /\ TxResult(d) \in Publications
  <2>1. Append(result[d], reason) \in Seq(Reasons)
    BY AppendLemma DEF HistoryOK
  <2>2. result' \in [Downlinks -> Seq(Reasons)]
    BY <1>g, <2>1 DEF HistoryOK, Give
  <2>3. fate' \in [Downlinks -> Fates]
    BY <1>g DEF HistoryOK, Give, Fates
  <2> QED BY <1>g, <2>2, <2>3 DEF Give, TxResult, Publications
<1>w. ASSUME NEW seq, inFlight' = Without(inFlight, seq)
      PROVE  Table
  <2>1. DOMAIN inFlight' = DOMAIN inFlight \ {seq}
    BY <1>w, FiniteMap DEF TableOK
  <2>2. \A s \in DOMAIN inFlight' : inFlight'[s] = inFlight[s]
    BY <1>w, <2>1, FiniteMap DEF TableOK
  <2>3. Cardinality(DOMAIN inFlight \ {seq}) <= Cardinality(DOMAIN inFlight)
    BY FiniteMap DEF TableOK
  <2>4. Cardinality(DOMAIN inFlight \ {seq}) \in Nat /\ Cardinality(DOMAIN inFlight) \in Nat
    BY FiniteMap, FS_RemoveElement, FS_CardinalityType DEF TableOK
  <2> QED BY <2>1, <2>2, <2>3, <2>4, BridgeAssumption DEF TableOK
<1>1. CASE BridgeLagged
  <2>1. ChannelsOK' /\ OutputOK'
    BY <1>1 DEF BridgeLagged, ChannelsOK, OutputOK, Count
  <2> QED BY <1>1, <2>1 DEF BridgeLagged, TableOK, HistoryOK, history
<1>2. CASE BridgeResponse
  <2> DEFINE message == Head(responseQ)
  <2>1. message \in Messages /\ responseQ' \in Seq(Messages) /\ Len(responseQ') <= ResponseCap
    BY <1>2, TailLemma, BridgeAssumption DEF ChannelsOK, BridgeResponse
  <2>r. rxSeq' \in Nat
    BY <1>2 DEF BridgeResponse, on_rx_packet, TableOK, Messages, RxPacket, SerialResponse, IsWifi
  <2>2. /\ OutputOK' /\ Table
        /\ result' \in [Downlinks -> Seq(Reasons)] /\ fate' \in [Downlinks -> Fates]
    <3>1. CASE on_rx_packet
      <4>1. OutputOK'
        <5> DEFINE u == IF Fits THEN 1 ELSE 0
                   w == IF Fits THEN 0 ELSE 1
        <5>1. /\ u \in Nat /\ w \in Nat /\ Count(u, 0, w) /\ enqueue(Uplink)
              /\ Uplink \in Publications
          BY <3>1 DEF on_rx_packet, Publications
        <5> HIDE DEF u, w
        <5> QED BY <5>1, <1>e
      <4> QED BY <3>1, <4>1 DEF on_rx_packet, TableOK, HistoryOK
    <3>2. CASE on_command_response(message) /\ message.seq \in DOMAIN inFlight
      <4> DEFINE d == inFlight[message.seq]
      <4>2. Table
        BY <3>2, <1>w DEF on_command_response
      <4>3. ReasonOf(message.response) \in Reasons
        BY DEF ReasonOf, Reasons
      <4>4. /\ result' \in [Downlinks -> Seq(Reasons)] /\ fate' \in [Downlinks -> Fates]
            /\ enqueue(TxResult(d)) /\ TxResult(d) \in Publications
        BY <3>2, <4>3, <1>g DEF TableOK, on_command_response
      <4>1. OutputOK'
        <5> DEFINE v == IF message.response = "TxComplete" THEN 1 ELSE 0
                   w == IF Fits THEN 0 ELSE 1
        <5>1. v \in Nat /\ w \in Nat /\ Count(0, v, w)
          BY <3>2 DEF on_command_response
        <5> HIDE DEF v, w, d
        <5> QED BY <5>1, <4>4, <1>e
      <4> QED BY <4>1, <4>2, <4>4
    <3>3. CASE UNCHANGED <<inFlight, result, fate, mqttOut, stats>>
      BY <3>3 DEF OutputOK, TableOK, HistoryOK
    <3>4. \/ on_rx_packet \/ on_command_response(message)
          \/ UNCHANGED <<inFlight, result, fate, mqttOut, stats>>
      BY <1>2 DEF BridgeResponse
    <3> QED BY <3>1, <3>2, <3>3, <3>4 DEF on_command_response
  <2>3. TableOK' /\ HistoryOK' /\ ChannelsOK'
    BY <1>2, <2>1, <2>2, <2>r DEF BridgeResponse, TableOK, HistoryOK, ChannelsOK
  <2> QED BY <1>2, <2>2, <2>3 DEF BridgeResponse
<1>3. CASE BridgeDownlink
  <2> DEFINE kind == Head(mqttIn).kind
             d == Head(mqttIn).downlink
  <2>1. Head(mqttIn) \in Requests /\ mqttIn' \in Seq(Requests) /\ Len(mqttIn') <= MqttInCap
    BY <1>3, TailLemma, BridgeAssumption DEF ChannelsOK, BridgeDownlink
  <2>2. kind \in DownlinkKinds /\ d \in Downlinks /\ on_downlink(kind, d)
    BY <1>3, <2>1 DEF BridgeDownlink, Requests
  <2> HIDE DEF kind, d
  <2>3. ASSUME Reject(d)
        PROVE  /\ OutputOK' /\ commandQ' = commandQ
               /\ result' \in [Downlinks -> Seq(Reasons)] /\ fate' \in [Downlinks -> Fates]
    <3> DEFINE w == IF Fits THEN 0 ELSE 1
    <3>1. w \in Nat /\ Count(0, 0, w) /\ Give(d, "refused")
      BY <2>3 DEF Reject
    <3> HIDE DEF w
    <3>2. "refused" \in Reasons
      BY DEF Reasons
    <3> QED BY <2>2, <2>3, <3>1, <3>2, <1>e, <1>g DEF Reject
  <2>4. ASSUME TakeSequence
        PROVE  nextSequence \in SeqIds /\ nextSequence' \in SeqIds /\ overrun' \in BOOLEAN
    BY <2>4, BridgeAssumption DEF TableOK, TakeSequence, SeqIds
  <2>5. /\ OutputOK' /\ Table
        /\ result' \in [Downlinks -> Seq(Reasons)] /\ fate' \in [Downlinks -> Fates]
        /\ commandQ' \in Seq(Commands) /\ Len(commandQ') <= CommandCap
        /\ nextSequence' \in SeqIds /\ overrun' \in BOOLEAN
    <3>1. CASE Reject(d) /\ UNCHANGED <<inFlight, nextSequence, overrun>>
      BY <3>1, <2>3 DEF TableOK, ChannelsOK
    <3>2. CASE Reject(d) /\ TakeSequence /\ inFlight' = Without(inFlight, nextSequence)
      BY <3>2, <2>3, <2>4, <1>w DEF ChannelsOK
    <3>3. CASE /\ Cardinality(DOMAIN inFlight) # MaxInFlight
               /\ TakeSequence
               /\ Len(commandQ) < CommandCap
               /\ inFlight' = With(inFlight, nextSequence, d)
               /\ commandQ' = Append(commandQ, WifiCommand(nextSequence, d))
               /\ UNCHANGED <<result, fate, mqttOut, stats>>
      <4>1. Table
        <5>1. DOMAIN inFlight \subseteq SeqIds
          BY DEF TableOK
        <5>2. /\ DOMAIN inFlight' = DOMAIN inFlight \cup {nextSequence}
              /\ inFlight'[nextSequence] = d
              /\ \A s \in DOMAIN inFlight \ {nextSequence} : inFlight'[s] = inFlight[s]
          BY <3>3 DEF With
        <5>3. /\ Cardinality(DOMAIN inFlight) \in Nat
              /\ Cardinality(DOMAIN inFlight \cup {nextSequence})
                   <= Cardinality(DOMAIN inFlight) + 1
              /\ Cardinality(DOMAIN inFlight \cup {nextSequence}) \in Nat
          BY <5>1, FiniteMap, FS_AddElement, FS_CardinalityType
        <5>4. Cardinality(DOMAIN inFlight') <= MaxInFlight
          BY <3>3, <5>2, <5>3, BridgeAssumption DEF TableOK
        <5> QED BY <3>3, <2>2, <2>4, <5>1, <5>2, <5>4 DEF TableOK
      <4>2. WifiCommand(nextSequence, d) \in Commands
        BY <2>2, <2>4, <3>3 DEF WifiCommand, Commands
      <4>3. commandQ' \in Seq(Commands) /\ Len(commandQ') <= CommandCap
        BY <3>3, <4>2, AppendLemma, BridgeAssumption DEF ChannelsOK
      <4> QED BY <3>3, <4>1, <4>3, <2>4 DEF OutputOK, HistoryOK
    <3> QED BY <2>2, <3>1, <3>2, <3>3 DEF on_downlink, SendDownlink
  <2>6. TableOK' /\ HistoryOK' /\ ChannelsOK'
    BY <1>3, <2>1, <2>5 DEF BridgeDownlink, TableOK, HistoryOK, ChannelsOK
  <2> QED BY <1>3, <2>5, <2>6 DEF BridgeDownlink
<1> QED BY <1>1, <1>2, <1>3

(* Every step of the hub keeps every channel within its capacity and every *)
(* item of the type of its channel.                                        *)
LEMMA TypeStep == TypeOK /\ [Next]_vars => TypeOK'
<1> SUFFICES ASSUME TypeOK, [Next]_vars PROVE TypeOK'
  OBVIOUS
<1>1. CASE UNCHANGED vars
  BY <1>1 DEF TypeOK, ChannelsOK, OutputOK, TableOK, HistoryOK, vars, queues, history
<1>2. CASE Next
  BY <1>2, TypeRadio, TypeMqtt, TypeBridge DEF Next
<1> QED BY <1>1, <1>2

(* Type correctness of the bridge: in_flight never exceeds MAX_IN_FLIGHT   *)
(* (the insert of on_downlink "cannot fail") and no channel its capacity.  *)
THEOREM TypeCorrect == Spec => []TypeOK
  BY TypeInit, TypeStep, PTL DEF Spec

-----------------------------------------------------------------------------
(* Correlation.  Correlated and ReportedTruthfully are not inductive: they *)
(* need that no two items in the hub carry the same downlink.  What makes  *)
(* that so is the order of the pipeline: downlinks enter MQTT_IN in order  *)
(* of arrival and no task lets one overtake another, so along responseQ,   *)
(* serving, commandQ and mqttIn their numbers increase.                    *)

Carries(item) == item.kind \in {"wifi"} \cup DownlinkKinds

Increasing(q) ==
  \A j, k \in DOMAIN q :
    j < k /\ Carries(q[j]) /\ Carries(q[k]) => q[j].downlink < q[k].downlink

Before(p, q) ==
  \A j \in DOMAIN p, k \in DOMAIN q :
    Carries(p[j]) /\ Carries(q[k]) => p[j].downlink < q[k].downlink

BeforeItem(q, item) ==
  \A k \in DOMAIN q : Carries(q[k]) /\ Carries(item) => q[k].downlink < item.downlink

ItemBefore(item, q) ==
  \A k \in DOMAIN q : Carries(item) /\ Carries(q[k]) => item.downlink < q[k].downlink

ArrivedBy(q, n) == \A k \in DOMAIN q : Carries(q[k]) => q[k].downlink <= n

Ordered ==
  /\ Increasing(responseQ) /\ Increasing(commandQ) /\ Increasing(mqttIn)
  /\ BeforeItem(responseQ, serving) /\ ItemBefore(serving, commandQ)
  /\ ItemBefore(serving, mqttIn)
  /\ Before(responseQ, commandQ) /\ Before(responseQ, mqttIn) /\ Before(commandQ, mqttIn)
  /\ ArrivedBy(responseQ, arrived) /\ ArrivedBy(commandQ, arrived)
  /\ ArrivedBy(mqttIn, arrived) /\ ArrivedBy(<<serving>>, arrived)

(* The table holds the entry of everything awaited.                        *)
Matches(item) ==
  IsWifi(item) => item.seq \in DOMAIN inFlight /\ inFlight[item.seq] = item.downlink

Matched ==
  /\ \A k \in DOMAIN commandQ : Matches(commandQ[k])
  /\ \A k \in DOMAIN responseQ : Matches(responseQ[k])
  /\ Matches(serving)

(* What is known of a downlink that has no result yet.                     *)
Fresh(item) ==
  Carries(item) => result[item.downlink] = <<>> /\ item.downlink \notin aired

Answered(item) ==
  Carries(item) => /\ result[item.downlink] = <<>>
                   /\ item.response = "TxComplete" => item.downlink \in aired
                   /\ item.response = "TxRefused" => item.downlink \notin aired

Pending ==
  /\ \A k \in DOMAIN mqttIn : Fresh(mqttIn[k])
  /\ \A k \in DOMAIN commandQ : Fresh(commandQ[k])
  /\ Fresh(serving)
  /\ \A k \in DOMAIN responseQ : Answered(responseQ[k])
  /\ \A d \in Downlinks : d > arrived => result[d] = <<>> /\ d \notin aired

CorrelationInv ==
  /\ TypeOK /\ Ordered
  /\ ~overrun => Matched /\ Pending /\ ReportedTruthfully

(* The part of CorrelationInv that is not type correctness.                *)
Correlation ==
  /\ Ordered
  /\ ~overrun => Matched /\ Pending /\ ReportedTruthfully

(* Which items carry a downlink.                                           *)
LEMMA Kinds ==
  /\ \A item \in {Idle, SerialCommand, RebootCommand, RxPacket, SerialResponse} :
       ~Carries(item) /\ ~IsWifi(item)
  /\ \A item \in Commands \cup Messages \cup {Idle} : Carries(item) <=> IsWifi(item)
  /\ \A item \in Commands \cup Messages \cup {Idle} :
       IsWifi(item) => item.seq \in SeqIds /\ item.downlink \in Downlinks
  /\ \A item \in Requests : Carries(item) /\ item.downlink \in Downlinks
<1> USE DEF Carries, IsWifi, DownlinkKinds
<1>1. \A item \in {Idle, SerialCommand, RebootCommand, RxPacket, SerialResponse} :
       ~Carries(item) /\ ~IsWifi(item)
  BY DEF Idle, SerialCommand, RebootCommand, RxPacket, SerialResponse
<1>2. \A item \in Commands \cup Messages \cup {Idle} :
        /\ Carries(item) <=> IsWifi(item)
        /\ IsWifi(item) => item.seq \in SeqIds /\ item.downlink \in Downlinks
  BY DEF Commands, Messages, Idle, SerialCommand, RebootCommand, RxPacket, SerialResponse
<1>3. \A item \in Requests : Carries(item) /\ item.downlink \in Downlinks
  BY DEF Requests
<1> QED BY <1>1, <1>2, <1>3

(* A message without a downlink is published.                              *)
LEMMA PublishOther ==
  ASSUME CorrelationInv,
         NEW message \in Messages, NEW n \in Nat, ~Carries(message), Publish(message, n),
         serving' \in {serving, Idle},
         UNCHANGED <<mqttIn, commandQ, inFlight, arrived, result, aired, overrun>>
  PROVE  Correlation'
<1>t. /\ responseQ \in Seq(Messages) /\ lagged \in Nat /\ Len(responseQ) \in Nat
      /\ arrived \in Nat /\ ~Carries(Idle) /\ ~IsWifi(Idle) /\ ~IsWifi(message)
  BY Kinds DEF CorrelationInv, TypeOK, ChannelsOK, HistoryOK
<1>1. PICK e \in Nat : \A k \in DOMAIN responseQ' :
              /\ k + e \in 1 .. Len(responseQ) + n
              /\ k + e <= Len(responseQ) => responseQ'[k] = responseQ[k + e]
              /\ k + e > Len(responseQ) => responseQ'[k] = message
  BY <1>t, PublishLemma
<1>2. responseQ' \in Seq(Messages)
  BY <1>t, PublishLemma
<1>3. \A k \in DOMAIN responseQ' :
        Carries(responseQ'[k]) => /\ k + e \in DOMAIN responseQ
                                  /\ responseQ'[k] = responseQ[k + e]
                                  /\ k \in Nat
  <2> SUFFICES ASSUME NEW k \in DOMAIN responseQ', Carries(responseQ'[k])
               PROVE  /\ k + e \in DOMAIN responseQ /\ responseQ'[k] = responseQ[k + e]
                      /\ k \in Nat
    OBVIOUS
  <2>1. k \in Nat /\ DOMAIN responseQ = 1 .. Len(responseQ)
    BY <1>t, <1>2
  <2>2. responseQ'[k] # message
    OBVIOUS
  <2>3. k + e \in 1 .. Len(responseQ) + n /\ k + e <= Len(responseQ)
    BY <1>1, <1>t, <2>1, <2>2
  <2> QED BY <1>1, <1>t, <2>1, <2>3
<1>4. \A k \in DOMAIN responseQ' :
        IsWifi(responseQ'[k]) => Carries(responseQ'[k])
  BY <1>2, Kinds
<1>5. Ordered'
  <2>1. Increasing(responseQ)'
    BY <1>3 DEF CorrelationInv, Ordered, Increasing
  <2>2. BeforeItem(responseQ, serving)'
    BY <1>3, <1>t DEF CorrelationInv, Ordered, BeforeItem
  <2>3. Before(responseQ, commandQ)' /\ Before(responseQ, mqttIn)'
    BY <1>3 DEF CorrelationInv, Ordered, Before
  <2>4. ArrivedBy(responseQ, arrived)'
    BY <1>3 DEF CorrelationInv, Ordered, ArrivedBy
  <2>5. ItemBefore(serving, commandQ)' /\ ItemBefore(serving, mqttIn)'
    BY <1>t DEF CorrelationInv, Ordered, ItemBefore
  <2>6. ArrivedBy(<<serving>>, arrived)'
    BY <1>t DEF CorrelationInv, Ordered, ArrivedBy
  <2> QED BY <2>1, <2>2, <2>3, <2>4, <2>5, <2>6
          DEF CorrelationInv, Ordered, Increasing, Before, ArrivedBy
<1>6. ASSUME ~overrun' PROVE Matched' /\ Pending' /\ ReportedTruthfully'
  <2>1. Matched /\ Pending /\ ReportedTruthfully
    BY <1>6 DEF CorrelationInv
  <2>2. Matched'
    BY <2>1, <1>t, <1>3, <1>4 DEF Matched, Matches
  <2>3. Pending'
    BY <2>1, <1>t, <1>3 DEF Pending, Fresh, Answered
  <2> QED BY <2>1, <2>2, <2>3 DEF ReportedTruthfully
<1> QED BY <1>5, <1>6 DEF Correlation

(* The radio's answer to a downlink takes the place of the command.        *)
LEMMA PublishAnswer ==
  ASSUME CorrelationInv,
         NEW response \in TxResponses, NEW emitted \in BOOLEAN,
         LoraAnswerDownlink(response, emitted)
  PROVE  Correlation'
<1> DEFINE answer == WifiResponse(serving, response)
           d == serving.downlink
<1>t. /\ responseQ \in Seq(Messages) /\ commandQ \in Seq(Commands)
      /\ mqttIn \in Seq(Requests)
      /\ lagged \in Nat /\ Len(responseQ) \in Nat
      /\ arrived \in Nat /\ ~Carries(Idle) /\ ~IsWifi(Idle)
      /\ IsWifi(serving) /\ Carries(serving) /\ d \in Downlinks /\ serving.seq \in SeqIds
      /\ serving' = Idle
      /\ UNCHANGED <<mqttIn, commandQ, inFlight, arrived, result, overrun>>
  BY Kinds DEF CorrelationInv, TypeOK, ChannelsOK, HistoryOK, LoraAnswerDownlink
<1>a. /\ answer \in Messages /\ Carries(answer) /\ IsWifi(answer)
      /\ answer.seq = serving.seq /\ answer.downlink = d /\ answer.response = response
  BY <1>t DEF WifiResponse, Messages, Carries, IsWifi
<1>p. Publish(answer, 1)
  BY DEF LoraAnswerDownlink
<1>r. /\ aired' = IF emitted THEN aired \cup {d} ELSE aired
      /\ response = "TxComplete" => emitted
      /\ response = "TxRefused" => ~emitted
  BY DEF LoraAnswerDownlink
<1>n. Downlinks \subseteq Nat
  BY BridgeAssumption DEF Downlinks
<1> HIDE DEF answer
<1>1. PICK e \in Nat : \A k \in DOMAIN responseQ' :
              /\ k + e \in 1 .. Len(responseQ) + 1
              /\ k + e <= Len(responseQ) => responseQ'[k] = responseQ[k + e]
              /\ k + e > Len(responseQ) => responseQ'[k] = answer
  BY <1>t, <1>a, <1>p, PublishLemma
<1>2. responseQ' \in Seq(Messages)
  BY <1>t, <1>a, <1>p, PublishLemma
<1>3. \A k \in DOMAIN responseQ' :
        /\ k \in Nat
        /\ \/ /\ k + e \in DOMAIN responseQ /\ responseQ'[k] = responseQ[k + e]
              /\ k + e <= Len(responseQ)
           \/ k + e = Len(responseQ) + 1 /\ responseQ'[k] = answer
  <2> SUFFICES ASSUME NEW k \in DOMAIN responseQ'
               PROVE  /\ k \in Nat
                      /\ \/ /\ k + e \in DOMAIN responseQ /\ responseQ'[k] = responseQ[k + e]
                            /\ k + e <= Len(responseQ)
                         \/ k + e = Len(responseQ) + 1 /\ responseQ'[k] = answer
    OBVIOUS
  <2>1. k \in Nat /\ k + e \in 1 .. Len(responseQ) + 1 /\ DOMAIN responseQ = 1 .. Len(responseQ)
    BY <1>1, <1>2, <1>t
  <2>2. k + e \in DOMAIN responseQ \/ k + e = Len(responseQ) + 1
    BY <2>1, <1>t
  <2>3. Len(responseQ) + 1 > Len(responseQ)
    BY <1>t
  <2> QED BY <2>1, <2>2, <2>3, <1>1, <1>t
<1>4. \A k \in DOMAIN responseQ : Carries(responseQ[k]) =>
         responseQ[k].downlink \in Nat /\ responseQ[k].downlink < d
  BY <1>t, <1>n, Kinds DEF CorrelationInv, Ordered, BeforeItem
<1>5. Ordered'
  <2>1. Increasing(responseQ)'
    <3> SUFFICES ASSUME NEW j \in DOMAIN responseQ', NEW k \in DOMAIN responseQ', j < k,
                        Carries(responseQ'[j]), Carries(responseQ'[k])
                 PROVE  responseQ'[j].downlink < responseQ'[k].downlink
      BY DEF Increasing
    <3>1. j + e < k + e /\ j \in Nat /\ k \in Nat
      BY <1>3
    <3>2. k + e <= Len(responseQ) + 1
      BY <1>1, <1>t
    <3>3. j + e \in DOMAIN responseQ /\ responseQ'[j] = responseQ[j + e]
      BY <3>1, <3>2, <1>3, <1>t
    <3>4. CASE responseQ'[k] = answer
      BY <3>3, <3>4, <1>4, <1>a
    <3>5. CASE k + e \in DOMAIN responseQ /\ responseQ'[k] = responseQ[k + e]
      BY <3>1, <3>3, <3>5 DEF CorrelationInv, Ordered, Increasing
    <3> QED BY <3>4, <3>5, <1>3
  <2>2. BeforeItem(responseQ, serving)' /\ ItemBefore(serving, commandQ)'
        /\ ItemBefore(serving, mqttIn)' /\ ArrivedBy(<<serving>>, arrived)'
    BY <1>t DEF BeforeItem, ItemBefore, ArrivedBy
  <2>3. Before(responseQ, commandQ)'
    BY <1>3, <1>a, <1>t DEF CorrelationInv, Ordered, Before, ItemBefore
  <2>4. Before(responseQ, mqttIn)'
    BY <1>3, <1>a, <1>t DEF CorrelationInv, Ordered, Before, ItemBefore
  <2>5. ArrivedBy(responseQ, arrived)'
    BY <1>3, <1>a, <1>t DEF CorrelationInv, Ordered, ArrivedBy
  <2> QED BY <2>1, <2>2, <2>3, <2>4, <2>5, <1>t
          DEF CorrelationInv, Ordered, Increasing, Before, ArrivedBy
<1>6. ASSUME ~overrun' PROVE Matched' /\ Pending' /\ ReportedTruthfully'
  <2>1. Matched /\ Pending /\ ReportedTruthfully
    BY <1>6, <1>t DEF CorrelationInv
  <2>2. Matched'
    BY <2>1, <1>t, <1>3, <1>a DEF Matched, Matches
  <2>3. result[d] = <<>> /\ d \notin aired /\ d <= arrived
    BY <2>1, <1>t DEF Pending, Fresh, CorrelationInv, Ordered, ArrivedBy
  <2>4. Pending'
    <3>1. \A k \in DOMAIN mqttIn : Fresh(mqttIn[k])'
      BY <2>1, <1>t, <1>r, <1>n, Kinds DEF Pending, Fresh, CorrelationInv, Ordered, ItemBefore
    <3>2. \A k \in DOMAIN commandQ : Fresh(commandQ[k])'
      BY <2>1, <1>t, <1>r, <1>n, Kinds DEF Pending, Fresh, CorrelationInv, Ordered, ItemBefore
    <3>3. Fresh(serving)'
      BY <1>t DEF Fresh
    <3>4. \A k \in DOMAIN responseQ' : Answered(responseQ[k])'
      <4> SUFFICES ASSUME NEW k \in DOMAIN responseQ', Carries(responseQ'[k])
                   PROVE  Answered(responseQ[k])'
        BY DEF Answered
      <4>1. CASE responseQ'[k] = answer
        BY <4>1, <1>a, <1>r, <1>t, <2>3 DEF Answered
      <4>2. CASE k + e \in DOMAIN responseQ /\ responseQ'[k] = responseQ[k + e]
        <5>1. responseQ'[k].downlink < d /\ responseQ'[k].downlink \in Nat /\ d \in Nat
          BY <4>2, <1>4, <1>n, <1>t
        <5>2. Answered(responseQ[k + e])
          BY <4>2, <2>1 DEF Pending
        <5> QED BY <4>2, <5>1, <5>2, <1>r, <1>t DEF Answered
      <4> QED BY <4>1, <4>2, <1>3
    <3>5. \A x \in Downlinks : x > arrived => x # d
      <4>1. d <= arrived /\ arrived \in Nat /\ d \in Nat
        BY <2>3, <1>n, <1>t
      <4> HIDE DEF d
      <4> QED BY <4>1, <1>n
    <3> QED BY <2>1, <3>1, <3>2, <3>3, <3>4, <3>5, <1>t, <1>r DEF Pending
  <2>5. ReportedTruthfully'
    BY <2>1, <2>3, <1>t, <1>r, <1>6 DEF ReportedTruthfully
  <2> QED BY <2>2, <2>4, <2>5
<1> QED BY <1>5, <1>6 DEF Correlation

(* lora_task takes the oldest command.                                     *)
LEMMA TakeCommand ==
  ASSUME CorrelationInv, LoraTake
  PROVE  Correlation'
<1>t. /\ commandQ \in Seq(Commands) /\ commandQ # <<>> /\ commandQ' = Tail(commandQ)
      /\ UNCHANGED <<responseQ, mqttIn, inFlight, arrived, result, aired, overrun>>
      /\ ~Carries(Idle) /\ ~IsWifi(Idle) /\ ~Carries(RebootCommand)
      /\ serving = Idle
      /\ serving' = Head(commandQ) \/ serving' = Idle
  BY Kinds DEF CorrelationInv, TypeOK, ChannelsOK, LoraTake, history
<1>1. /\ 1 \in DOMAIN commandQ /\ Head(commandQ) = commandQ[1]
      /\ \A k \in DOMAIN commandQ' : /\ k + 1 \in DOMAIN commandQ /\ 1 < k + 1 /\ k \in Nat
                                     /\ commandQ'[k] = commandQ[k + 1]
  BY <1>t, TailLemma
<1>2. Ordered'
  <2>1. Increasing(commandQ)' /\ ItemBefore(serving, commandQ)'
    BY <1>1, <1>t DEF CorrelationInv, Ordered, Increasing, ItemBefore
  <2>2. Before(responseQ, commandQ)' /\ BeforeItem(responseQ, serving)'
    BY <1>1, <1>t DEF CorrelationInv, Ordered, Before, BeforeItem
  <2>3. Before(commandQ, mqttIn)' /\ ItemBefore(serving, mqttIn)'
    BY <1>1, <1>t DEF CorrelationInv, Ordered, Before, ItemBefore
  <2>4. ArrivedBy(commandQ, arrived)' /\ ArrivedBy(<<serving>>, arrived)'
    BY <1>1, <1>t DEF CorrelationInv, Ordered, ArrivedBy
  <2> QED BY <2>1, <2>2, <2>3, <2>4, <1>t
          DEF CorrelationInv, Ordered, Increasing, Before, ArrivedBy
<1>3. ASSUME ~overrun' PROVE Matched' /\ Pending' /\ ReportedTruthfully'
  <2>1. Matched /\ Pending /\ ReportedTruthfully
    BY <1>3, <1>t DEF CorrelationInv
  <2>2. Matched'
    BY <2>1, <1>1, <1>t DEF Matched, Matches
  <2>3. Pending'
    BY <2>1, <1>1, <1>t DEF Pending, Fresh, Answered
  <2> QED BY <2>1, <2>2, <2>3, <1>t DEF ReportedTruthfully
<1> QED BY <1>2, <1>3 DEF Correlation

(* A serial command joins the command queue.                               *)
LEMMA QueueSerial ==
  ASSUME CorrelationInv, NEW command \in {SerialCommand, RebootCommand}, SerialRead(command)
  PROVE  Correlation'
<1>t. /\ commandQ \in Seq(Commands) /\ commandQ' = Append(commandQ, command)
      /\ UNCHANGED <<responseQ, mqttIn, serving, inFlight, arrived, result, aired, overrun>>
      /\ command \in Commands /\ ~Carries(command) /\ ~IsWifi(command)
  BY Kinds DEF CorrelationInv, TypeOK, ChannelsOK, SerialRead, Commands
<1>1. \A k \in DOMAIN commandQ' : \/ k \in DOMAIN commandQ /\ commandQ'[k] = commandQ[k]
                                 \/ commandQ'[k] = command
  BY <1>t, AppendLemma
<1>2. Ordered'
  <2>1. Increasing(commandQ)' /\ ItemBefore(serving, commandQ)'
    BY <1>1, <1>t DEF CorrelationInv, Ordered, Increasing, ItemBefore
  <2>2. Before(responseQ, commandQ)' /\ Before(commandQ, mqttIn)'
    BY <1>1, <1>t DEF CorrelationInv, Ordered, Before
  <2>3. ArrivedBy(commandQ, arrived)'
    BY <1>1, <1>t DEF CorrelationInv, Ordered, ArrivedBy
  <2> QED BY <2>1, <2>2, <2>3, <1>t
          DEF CorrelationInv, Ordered, Increasing, Before, BeforeItem, ItemBefore, ArrivedBy
<1>3. ASSUME ~overrun' PROVE Matched' /\ Pending' /\ ReportedTruthfully'
  <2>1. Matched /\ Pending /\ ReportedTruthfully
    BY <1>3, <1>t DEF CorrelationInv
  <2>2. Matched'
    BY <2>1, <1>1, <1>t DEF Matched, Matches
  <2>3. Pending'
    BY <2>1, <1>1, <1>t DEF Pending, Fresh, Answered
  <2> QED BY <2>1, <2>2, <2>3, <1>t DEF ReportedTruthfully
<1> QED BY <1>2, <1>3 DEF Correlation

(* A downlink arrives from the broker.                                     *)
LEMMA Arrive ==
  ASSUME CorrelationInv, NEW kind \in DownlinkKinds, NEW oversize \in BOOLEAN,
         MqttReceive(kind, oversize)
  PROVE  Correlation'
<1> DEFINE request == [kind |-> kind, downlink |-> arrived + 1]
<1>t. /\ mqttIn \in Seq(Requests) /\ commandQ \in Seq(Commands) /\ responseQ \in Seq(Messages)
      /\ arrived \in Nat /\ arrived' = arrived + 1 /\ arrived + 1 \in Downlinks
      /\ mqttIn' = mqttIn \/ mqttIn' = Append(mqttIn, request)
      /\ UNCHANGED <<responseQ, commandQ, serving, inFlight, result, aired, overrun>>
      /\ serving \in Commands \cup {Idle}
  BY BridgeAssumption DEF CorrelationInv, TypeOK, ChannelsOK, HistoryOK, MqttReceive, Downlinks
<1>r. request \in Requests /\ Carries(request) /\ request.downlink = arrived + 1
  BY <1>t, Kinds DEF Requests
<1>n. Downlinks \subseteq Nat
  BY BridgeAssumption DEF Downlinks
<1> HIDE DEF request
<1>1. \A k \in DOMAIN mqttIn' :
        \/ k \in DOMAIN mqttIn /\ mqttIn'[k] = mqttIn[k]
        \/ k = Len(mqttIn) + 1 /\ mqttIn'[k] = request
  BY <1>t, <1>r, AppendLemma
<1>2. DOMAIN mqttIn = 1 .. Len(mqttIn) /\ Len(mqttIn) \in Nat
  BY <1>t
<1>3. /\ \A k \in DOMAIN mqttIn :
           mqttIn[k].downlink \in Nat /\ mqttIn[k].downlink < arrived + 1
      /\ \A k \in DOMAIN commandQ : Carries(commandQ[k]) =>
           commandQ[k].downlink \in Nat /\ commandQ[k].downlink < arrived + 1
      /\ \A k \in DOMAIN responseQ : Carries(responseQ[k]) =>
           responseQ[k].downlink \in Nat /\ responseQ[k].downlink < arrived + 1
      /\ Carries(serving) => serving.downlink \in Nat /\ serving.downlink < arrived + 1
  <2>1. ASSUME NEW x \in Downlinks, x <= arrived PROVE x \in Nat /\ x < arrived + 1
    BY <2>1, <1>n, <1>t
  <2>2. \A k \in DOMAIN mqttIn : mqttIn[k].downlink \in Downlinks /\ Carries(mqttIn[k])
    BY <1>t, Kinds
  <2>3. \A k \in DOMAIN commandQ : Carries(commandQ[k]) => commandQ[k].downlink \in Downlinks
    BY <1>t, Kinds
  <2>4. \A k \in DOMAIN responseQ : Carries(responseQ[k]) => responseQ[k].downlink \in Downlinks
    BY <1>t, Kinds
  <2>5. Carries(serving) => serving.downlink \in Downlinks /\ serving.downlink <= arrived
    BY <1>t, Kinds DEF CorrelationInv, Ordered, ArrivedBy
  <2> QED BY <2>1, <2>2, <2>3, <2>4, <2>5 DEF CorrelationInv, Ordered, ArrivedBy
<1>4. Ordered'
  <2>1. Increasing(mqttIn)'
    BY <1>1, <1>2, <1>3, <1>r DEF CorrelationInv, Ordered, Increasing
  <2>2. Before(responseQ, mqttIn)' /\ Before(commandQ, mqttIn)'
    BY <1>1, <1>3, <1>r, <1>t DEF CorrelationInv, Ordered, Before
  <2>3. ItemBefore(serving, mqttIn)'
    BY <1>1, <1>3, <1>r, <1>t DEF CorrelationInv, Ordered, ItemBefore
  <2>4. /\ ArrivedBy(responseQ, arrived)' /\ ArrivedBy(commandQ, arrived)'
        /\ ArrivedBy(<<serving>>, arrived)'
    BY <1>3, <1>t DEF ArrivedBy
  <2>5. ArrivedBy(mqttIn, arrived)'
    BY <1>1, <1>3, <1>r, <1>t DEF ArrivedBy
  <2> QED BY <2>1, <2>2, <2>3, <2>4, <2>5, <1>t
          DEF CorrelationInv, Ordered, Increasing, Before, BeforeItem, ItemBefore
<1>5. ASSUME ~overrun' PROVE Matched' /\ Pending' /\ ReportedTruthfully'
  <2>1. Matched /\ Pending /\ ReportedTruthfully
    BY <1>5, <1>t DEF CorrelationInv
  <2>2. Matched'
    BY <2>1, <1>t DEF Matched, Matches
  <2>3. Fresh(request)
    BY <2>1, <1>t, <1>r DEF Pending, Fresh
  <2>4. \A x \in Downlinks : x > arrived + 1 => x > arrived
    BY <1>n, <1>t
  <2>5. Pending'
    BY <2>1, <2>3, <2>4, <1>1, <1>t DEF Pending, Fresh, Answered
  <2> QED BY <2>1, <2>2, <2>5, <1>t DEF ReportedTruthfully
<1> QED BY <1>4, <1>5 DEF Correlation

(* Steps that touch neither the pipeline nor the table, and the reset,     *)
(* which empties both.                                                     *)
LEMMA QuietSteps ==
  ASSUME CorrelationInv,
         \/ SessionUp \/ SessionEnd \/ MqttDeliver \/ BridgeLagged \/ Reset
         \/ UNCHANGED vars
  PROVE  Correlation'
<1>1. CASE UNCHANGED <<responseQ, serving, commandQ, mqttIn, inFlight, arrived, result,
                       aired, overrun>>
  BY <1>1 DEF CorrelationInv, Correlation, Ordered, Increasing, Before, BeforeItem, ItemBefore,
              ArrivedBy, Matched, Matches, Pending, Fresh, Answered, ReportedTruthfully
<1>2. CASE Reset
  <2>1. /\ responseQ' = <<>> /\ commandQ' = <<>> /\ mqttIn' = <<>> /\ serving' = Idle
        /\ ~Carries(Idle) /\ ~IsWifi(Idle)
        /\ UNCHANGED <<arrived, result, aired, overrun>>
    BY <1>2, Kinds DEF Reset
  <2>2. Ordered'
    BY <2>1 DEF Ordered, Increasing, Before, BeforeItem, ItemBefore, ArrivedBy
  <2>3. ~overrun => Matched' /\ Pending' /\ ReportedTruthfully'
    BY <2>1 DEF CorrelationInv, Matched, Matches, Pending, Fresh, Answered, ReportedTruthfully
  <2> QED BY <2>1, <2>2, <2>3 DEF Correlation
<1> QED BY <1>1, <1>2 DEF SessionUp, SessionEnd, MqttDeliver, BridgeLagged, vars, queues, history

(* Giving a result changes the result of that downlink only.               *)
LEMMA GiveLemma ==
  ASSUME TypeOK, NEW d \in Downlinks, NEW reason \in Reasons, Give(d, reason)
  PROVE  /\ \A x \in Downlinks : x # d => result'[x] = result[x]
         /\ result[d] = <<>> => result'[d] = <<reason>>
<1>1. result' = [result EXCEPT ![d] = Append(result[d], reason)]
  BY DEF Give
<1>2. DOMAIN result = Downlinks
  BY DEF TypeOK, HistoryOK
<1>3. result[d] = <<>> => Append(result[d], reason) = <<reason>>
  OBVIOUS
<1> QED BY <1>1, <1>2, <1>3

(* What is left of ReportedTruthfully when the downlink d, which had no    *)
(* result, is given one.                                                   *)
LEMMA ReportOne ==
  ASSUME TypeOK, NEW d \in Downlinks, NEW reason \in Reasons, Give(d, reason),
         ReportedTruthfully, ~overrun, result[d] = <<>>, aired' = aired,
         reason = "sent" => d \in aired,
         d \in aired => reason \in {"sent", "error"}
  PROVE  ReportedTruthfully'
<1>1. /\ \A x \in Downlinks : x # d => result'[x] = result[x]
      /\ result'[d] = <<reason>>
  BY GiveLemma
<1>2. Len(<<reason>>) = 1 /\ <<reason>>[1] = reason /\ (<<reason>> = <<"sent">> => reason = "sent")
  OBVIOUS
<1>3. ASSUME NEW x \in Downlinks
      PROVE  /\ Len(result'[x]) <= 1
             /\ result'[x] = <<"sent">> => x \in aired'
             /\ result'[x] # <<>> /\ x \in aired' => result'[x][1] \in {"sent", "error"}
  <2>1. CASE x = d
    BY <2>1, <1>1, <1>2
  <2>2. CASE x # d
    BY <2>2, <1>1 DEF ReportedTruthfully
  <2> QED BY <2>1, <2>2
<1> QED BY <1>3 DEF ReportedTruthfully

(* bridge_task reads a response.                                           *)
LEMMA ReadResponse ==
  ASSUME CorrelationInv, BridgeResponse
  PROVE  Correlation'
<1> DEFINE message == Head(responseQ)
           d == message.downlink
<1>t. /\ mqttIn \in Seq(Requests) /\ commandQ \in Seq(Commands) /\ responseQ \in Seq(Messages)
      /\ serving \in Commands \cup {Idle}
      /\ responseQ # <<>> /\ responseQ' = Tail(responseQ)
      /\ UNCHANGED <<mqttIn, commandQ, serving, arrived, aired, overrun>>
  BY DEF CorrelationInv, TypeOK, ChannelsOK, BridgeResponse
<1>n. Downlinks \subseteq Nat
  BY BridgeAssumption DEF Downlinks
<1>1. /\ 1 \in DOMAIN responseQ /\ message = responseQ[1] /\ message \in Messages
      /\ \A k \in DOMAIN responseQ' : /\ k + 1 \in DOMAIN responseQ /\ 1 < k + 1 /\ k \in Nat
                                      /\ responseQ'[k] = responseQ[k + 1]
  BY <1>t, TailLemma
<1>2. Ordered'
  <2>1. Increasing(responseQ)'
    BY <1>1 DEF CorrelationInv, Ordered, Increasing
  <2>2. BeforeItem(responseQ, serving)' /\ ArrivedBy(responseQ, arrived)'
    BY <1>1, <1>t DEF CorrelationInv, Ordered, BeforeItem, ArrivedBy
  <2>3. Before(responseQ, commandQ)' /\ Before(responseQ, mqttIn)'
    BY <1>1, <1>t DEF CorrelationInv, Ordered, Before
  <2> QED BY <2>1, <2>2, <2>3, <1>t
          DEF CorrelationInv, Ordered, Increasing, Before, ItemBefore, ArrivedBy
<1>3. ASSUME ~overrun' PROVE Matched' /\ Pending' /\ ReportedTruthfully'
  <2>1. Matched /\ Pending /\ ReportedTruthfully /\ ~overrun
    BY <1>3, <1>t DEF CorrelationInv
  <2>2. CASE ~IsWifi(message)
    <3>1. UNCHANGED <<inFlight, result>>
      BY <2>2 DEF BridgeResponse, on_rx_packet
    <3>2. Matched'
      BY <2>1, <3>1, <1>1, <1>t DEF Matched, Matches
    <3>3. Pending'
      BY <2>1, <3>1, <1>1, <1>t DEF Pending, Fresh, Answered
    <3> QED BY <2>1, <3>1, <3>2, <3>3, <1>t DEF ReportedTruthfully
  <2>3. CASE IsWifi(message)
    <3> DEFINE reason == ReasonOf(message.response)
    <3>1. /\ Carries(message) /\ d \in Downlinks /\ d \in Nat
          /\ message.response \in TxResponses
      BY <2>3, <1>1, <1>n, Kinds
         DEF Messages, IsWifi, RxPacket, SerialResponse
    <3>2. message.seq \in DOMAIN inFlight /\ inFlight[message.seq] = d
      BY <2>1, <2>3, <1>1 DEF Matched, Matches
    <3>3. message # RxPacket
      BY <2>3 DEF IsWifi, RxPacket
    <3>4. inFlight' = Without(inFlight, message.seq) /\ Give(d, reason)
      BY <2>3, <3>2, <3>3 DEF BridgeResponse, on_command_response
    <3>5. Answered(message)
      BY <2>1, <1>1 DEF Pending
    <3>6. reason \in Reasons
      BY DEF ReasonOf, Reasons
    <3>7. /\ DOMAIN inFlight' = DOMAIN inFlight \ {message.seq}
          /\ \A s \in DOMAIN inFlight' : inFlight'[s] = inFlight[s]
      BY <3>4 DEF Without
    <3>8. \A x \in Downlinks : x # d => result'[x] = result[x]
      BY <3>1, <3>4, <3>6, GiveLemma DEF CorrelationInv
    <3> HIDE DEF reason
    <3>9. /\ \A k \in DOMAIN mqttIn : mqttIn[k].downlink # d /\ mqttIn[k].downlink \in Downlinks
          /\ \A k \in DOMAIN commandQ : Carries(commandQ[k]) =>
               commandQ[k].downlink # d /\ commandQ[k].downlink \in Downlinks
          /\ \A k \in DOMAIN responseQ' : Carries(responseQ'[k]) =>
               responseQ'[k].downlink # d /\ responseQ'[k].downlink \in Downlinks
          /\ Carries(serving) => serving.downlink # d /\ serving.downlink \in Downlinks
      <4>0. \A x \in Downlinks : d < x => x # d
        BY <1>n, <3>1
      <4>1. \A k \in DOMAIN mqttIn : mqttIn[k].downlink # d /\ mqttIn[k].downlink \in Downlinks
        BY <4>0, <3>1, <1>1, <1>t, Kinds DEF CorrelationInv, Ordered, Before
      <4>2. \A k \in DOMAIN commandQ : Carries(commandQ[k]) =>
               commandQ[k].downlink # d /\ commandQ[k].downlink \in Downlinks
        BY <4>0, <3>1, <1>1, <1>t, Kinds DEF CorrelationInv, Ordered, Before
      <4>3. \A k \in DOMAIN responseQ' : Carries(responseQ'[k]) =>
               responseQ'[k].downlink # d /\ responseQ'[k].downlink \in Downlinks
        BY <4>0, <3>1, <1>1, <1>t, Kinds DEF CorrelationInv, Ordered, Increasing
      <4>4. Carries(serving) => serving.downlink # d /\ serving.downlink \in Downlinks
        BY <4>0, <3>1, <1>1, <1>t, Kinds DEF CorrelationInv, Ordered, BeforeItem
      <4> QED BY <4>1, <4>2, <4>3, <4>4
    <3>10. Matched'
      <4>1. \A item : Matches(item) /\ item.downlink # d => Matches(item)'
        BY <3>2, <3>7 DEF Matches
      <4>2. \A k \in DOMAIN commandQ : Matches(commandQ[k])'
        BY <2>1, <3>9, <4>1, <1>t, Kinds DEF Matched, Matches
      <4>3. \A k \in DOMAIN responseQ' : Matches(responseQ[k])'
        <5> SUFFICES ASSUME NEW k \in DOMAIN responseQ', IsWifi(responseQ'[k])
                     PROVE  Matches(responseQ[k])'
          BY DEF Matches
        <5>1. Matches(responseQ[k + 1]) /\ responseQ'[k] = responseQ[k + 1]
          BY <2>1, <1>1 DEF Matched
        <5>2. Carries(responseQ'[k])
          BY <1>1, <1>t, Kinds
        <5> QED BY <5>1, <5>2, <3>2, <3>7, <3>9 DEF Matches
      <4>4. Matches(serving)'
        BY <2>1, <3>9, <4>1, <1>t, Kinds DEF Matched, Matches
      <4> QED BY <4>2, <4>3, <4>4, <1>t DEF Matched
    <3>11. Pending'
      <4>1. \A k \in DOMAIN mqttIn : Fresh(mqttIn[k])'
        BY <2>1, <3>8, <3>9, <1>t DEF Pending, Fresh
      <4>2. \A k \in DOMAIN commandQ : Fresh(commandQ[k])'
        BY <2>1, <3>8, <3>9, <1>t DEF Pending, Fresh
      <4>3. Fresh(serving)'
        BY <2>1, <3>8, <3>9, <1>t DEF Pending, Fresh
      <4>4. \A k \in DOMAIN responseQ' : Answered(responseQ[k])'
        <5> SUFFICES ASSUME NEW k \in DOMAIN responseQ', Carries(responseQ'[k])
                     PROVE  Answered(responseQ[k])'
          BY DEF Answered
        <5>1. Answered(responseQ[k + 1]) /\ responseQ'[k] = responseQ[k + 1]
          BY <2>1, <1>1 DEF Pending
        <5> QED BY <5>1, <3>8, <3>9, <1>1, <1>t DEF Answered
      <4>5. d <= arrived /\ arrived \in Nat
        BY <3>1, <1>1 DEF CorrelationInv, Ordered, ArrivedBy, TypeOK, HistoryOK
      <4>6. \A x \in Downlinks : x > arrived => x # d
        <5> SUFFICES ASSUME NEW x \in Downlinks, x > arrived, x = d PROVE FALSE
          OBVIOUS
        <5> HIDE DEF d
        <5>1. x \in Nat /\ x <= arrived
          BY <4>5, <1>n
        <5> QED BY <4>5, <5>1
      <4> QED BY <2>1, <4>1, <4>2, <4>3, <4>4, <4>6, <3>8, <1>t DEF Pending
    <3>12. ReportedTruthfully'
      <4>1. /\ reason = "sent" => d \in aired
            /\ d \in aired => reason \in {"sent", "error"}
        BY <3>1, <3>5 DEF Answered, ReasonOf, TxResponses, reason
      <4> QED BY <2>1, <3>1, <3>4, <3>5, <3>6, <4>1, <1>t, ReportOne DEF CorrelationInv, Answered
    <3> QED BY <3>10, <3>11, <3>12
  <2> QED BY <2>2, <2>3
<1> QED BY <1>2, <1>3 DEF Correlation

(* bridge_task takes a downlink: rejected, or sent on to the radio.        *)
LEMMA HandleDownlink ==
  ASSUME CorrelationInv, BridgeDownlink
  PROVE  Correlation'
<1> DEFINE request == Head(mqttIn)
           d == request.downlink
           command == WifiCommand(nextSequence, d)
<1>t. /\ mqttIn \in Seq(Requests) /\ commandQ \in Seq(Commands)
      /\ serving \in Commands \cup {Idle}
      /\ responseQ = <<>> /\ mqttIn # <<>> /\ mqttIn' = Tail(mqttIn)
      /\ UNCHANGED <<responseQ, serving, arrived, aired>>
      /\ arrived \in Nat
  BY DEF CorrelationInv, TypeOK, ChannelsOK, HistoryOK, BridgeDownlink
<1>n. Downlinks \subseteq Nat
  BY BridgeAssumption DEF Downlinks
<1>1. /\ 1 \in DOMAIN mqttIn /\ request = mqttIn[1] /\ request \in Requests
      /\ \A k \in DOMAIN mqttIn' : /\ k + 1 \in DOMAIN mqttIn /\ 1 < k + 1 /\ k \in Nat
                                   /\ mqttIn'[k] = mqttIn[k + 1]
  BY <1>t, TailLemma
<1>2. Carries(request) /\ d \in Downlinks /\ d \in Nat /\ d <= arrived
  BY <1>1, <1>n, Kinds DEF CorrelationInv, Ordered, ArrivedBy
<1>c. /\ Carries(command) /\ IsWifi(command) /\ command.downlink = d
      /\ command.seq = nextSequence
      /\ nextSequence \in SeqIds => command \in Commands
  BY <1>2 DEF WifiCommand, Carries, IsWifi, Commands
<1>s. nextSequence \in SeqIds
  BY DEF CorrelationInv, TypeOK, TableOK
<1>o. \/ /\ Reject(d) /\ commandQ' = commandQ /\ UNCHANGED <<inFlight, overrun>>
      \/ /\ Reject(d) /\ commandQ' = commandQ /\ TakeSequence
         /\ inFlight' = Without(inFlight, nextSequence)
      \/ /\ TakeSequence /\ inFlight' = With(inFlight, nextSequence, d)
         /\ commandQ' = Append(commandQ, command) /\ UNCHANGED result
  BY DEF BridgeDownlink, on_downlink, SendDownlink, Reject
<1> HIDE DEF request, d, command
<1>3. \A k \in DOMAIN commandQ' :
        \/ k \in DOMAIN commandQ /\ commandQ'[k] = commandQ[k]
        \/ /\ k = Len(commandQ) + 1 /\ commandQ'[k] = command
           /\ commandQ' = Append(commandQ, command)
  BY <1>o, <1>c, <1>s, <1>t, AppendLemma
<1>4. DOMAIN commandQ = 1 .. Len(commandQ) /\ Len(commandQ) \in Nat
  BY <1>t
<1>5. /\ \A k \in DOMAIN mqttIn' :
           /\ Carries(mqttIn'[k]) /\ mqttIn'[k].downlink \in Downlinks
           /\ d < mqttIn'[k].downlink /\ d # mqttIn'[k].downlink
      /\ \A k \in DOMAIN commandQ : Carries(commandQ[k]) =>
           /\ commandQ[k].downlink \in Downlinks
           /\ commandQ[k].downlink < d /\ commandQ[k].downlink # d
      /\ Carries(serving) => /\ serving.downlink \in Downlinks
                             /\ serving.downlink < d /\ serving.downlink # d
  <2>0. \A x \in Downlinks : (d < x => x # d) /\ (x < d => x # d)
    BY <1>n, <1>2
  <2>1. \A k \in DOMAIN mqttIn' :
           /\ Carries(mqttIn'[k]) /\ mqttIn'[k].downlink \in Downlinks
           /\ d < mqttIn'[k].downlink
    BY <1>1, <1>2, <1>t, Kinds DEF CorrelationInv, Ordered, Increasing, d
  <2>2. \A k \in DOMAIN commandQ : Carries(commandQ[k]) =>
           commandQ[k].downlink \in Downlinks /\ commandQ[k].downlink < d
    BY <1>1, <1>2, <1>t, Kinds DEF CorrelationInv, Ordered, Before, d
  <2>3. Carries(serving) => serving.downlink \in Downlinks /\ serving.downlink < d
    BY <1>1, <1>2, <1>t, Kinds DEF CorrelationInv, Ordered, ItemBefore, d
  <2> QED BY <2>0, <2>1, <2>2, <2>3
<1>6. Ordered'
  <2>1. Increasing(mqttIn)' /\ ArrivedBy(mqttIn, arrived)'
    BY <1>1, <1>t DEF CorrelationInv, Ordered, Increasing, ArrivedBy
  <2>2. Increasing(commandQ)'
    BY <1>3, <1>4, <1>5, <1>c DEF CorrelationInv, Ordered, Increasing
  <2>3. ItemBefore(serving, mqttIn)' /\ ItemBefore(serving, commandQ)'
    BY <1>1, <1>3, <1>5, <1>c, <1>t DEF CorrelationInv, Ordered, ItemBefore
  <2>4. Before(commandQ, mqttIn)'
    BY <1>1, <1>3, <1>5, <1>c DEF CorrelationInv, Ordered, Before
  <2>5. ArrivedBy(commandQ, arrived)' /\ ArrivedBy(<<serving>>, arrived)'
    BY <1>3, <1>2, <1>c, <1>t DEF CorrelationInv, Ordered, ArrivedBy
  <2>6. /\ Increasing(responseQ)' /\ BeforeItem(responseQ, serving)'
        /\ Before(responseQ, commandQ)' /\ Before(responseQ, mqttIn)'
        /\ ArrivedBy(responseQ, arrived)'
    BY <1>t DEF Increasing, BeforeItem, Before, ArrivedBy
  <2> QED BY <2>1, <2>2, <2>3, <2>4, <2>5, <2>6 DEF Ordered
<1>7. ASSUME ~overrun' PROVE Matched' /\ Pending' /\ ReportedTruthfully'
  <2>1. ~overrun
    BY <1>7, <1>o DEF TakeSequence, CorrelationInv, TypeOK
  <2>2. Matched /\ Pending /\ ReportedTruthfully
    BY <2>1 DEF CorrelationInv
  <2>3. Fresh(request)
    BY <2>2, <1>1 DEF Pending
  <2>4. result[d] = <<>> /\ d \notin aired
    BY <2>3, <1>2 DEF Fresh, d
  <2>5. \/ inFlight' = inFlight
        \/ /\ nextSequence \notin AwaitedSeqs
           /\ \A s \in DOMAIN inFlight \ {nextSequence} :
                 s \in DOMAIN inFlight' /\ inFlight'[s] = inFlight[s]
    <3>1. CASE TakeSequence
      BY <3>1, <1>7, <1>o DEF TakeSequence, Without, With
    <3> QED BY <3>1, <1>o
  <2>6. /\ \A k \in DOMAIN commandQ : Matches(commandQ[k])'
                                        \/ commandQ'[k] # commandQ[k]
        /\ Matches(serving)'
    <3>1. /\ \A k \in DOMAIN commandQ : IsWifi(commandQ[k]) => commandQ[k].seq \in AwaitedSeqs
          /\ IsWifi(serving) => serving.seq \in AwaitedSeqs
      BY DEF AwaitedSeqs, Awaited
    <3> QED BY <2>2, <2>5, <3>1, <1>t DEF Matched, Matches
  <2>7. Matched'
    <3>1. commandQ' = Append(commandQ, command) =>
            nextSequence \in DOMAIN inFlight' /\ inFlight'[nextSequence] = d
      <4>1. commandQ' = commandQ => commandQ' # Append(commandQ, command)
        BY <1>t, <1>c, <1>s, AppendLemma
      <4> QED BY <4>1, <1>o DEF With
    <3>2. \A k \in DOMAIN commandQ' : Matches(commandQ[k])'
      BY <2>6, <3>1, <1>3, <1>c DEF Matches
    <3> QED BY <2>6, <3>2, <1>t DEF Matched
  <2>8. \A x \in Downlinks : x # d => result'[x] = result[x]
    BY <1>o, <1>2, GiveLemma DEF Reject, CorrelationInv, Reasons
  <2>9. Pending'
    <3>1. \A k \in DOMAIN mqttIn' : Fresh(mqttIn[k])'
      BY <2>2, <2>8, <1>1, <1>5, <1>t DEF Pending, Fresh
    <3>2. \A k \in DOMAIN commandQ' : Fresh(commandQ[k])'
      <4> SUFFICES ASSUME NEW k \in DOMAIN commandQ' PROVE Fresh(commandQ[k])'
        OBVIOUS
      <4>1. CASE k \in DOMAIN commandQ /\ commandQ'[k] = commandQ[k]
        BY <4>1, <2>2, <2>8, <1>5, <1>t DEF Pending, Fresh
      <4>2. CASE commandQ'[k] = command /\ commandQ' = Append(commandQ, command)
        <5>1. commandQ' # commandQ
          BY <4>2, <1>t, <1>c, <1>s, AppendLemma
        <5>2. result' = result
          BY <5>1, <1>o
        <5> QED BY <4>2, <5>2, <2>4, <1>c, <1>t DEF Fresh
      <4> QED BY <4>1, <4>2, <1>3
    <3>3. Fresh(serving)'
      BY <2>2, <2>8, <1>5, <1>t DEF Pending, Fresh
    <3>4. \A x \in Downlinks : x > arrived => x # d
      BY <1>n, <1>2, <1>t
    <3> QED BY <2>2, <2>8, <3>1, <3>2, <3>3, <3>4, <1>t DEF Pending
  <2>10. ReportedTruthfully'
    <3>1. CASE Reject(d)
      <4>1. Give(d, "refused") /\ "refused" \in Reasons
        BY <3>1 DEF Reject, Reasons
      <4> QED BY <2>1, <2>2, <2>4, <4>1, <1>2, <1>t, ReportOne DEF CorrelationInv
    <3>2. CASE UNCHANGED result
      BY <2>1, <2>2, <3>2, <1>t DEF ReportedTruthfully
    <3> QED BY <3>1, <3>2, <1>o
  <2> QED BY <2>7, <2>9, <2>10
<1> QED BY <1>6, <1>7 DEF Correlation

-----------------------------------------------------------------------------
LEMMA CorrelationInit == Init => CorrelationInv
<1> SUFFICES ASSUME Init PROVE CorrelationInv
  OBVIOUS
<1>1. TypeOK
  BY TypeInit
<1>2. ~Carries(Idle) /\ ~IsWifi(Idle)
  BY Kinds
<1>3. Ordered
  BY <1>2 DEF Init, Ordered, Increasing, Before, BeforeItem, ItemBefore, ArrivedBy
<1>4. Matched /\ Pending /\ ReportedTruthfully
  BY <1>2 DEF Init, Matched, Matches, Pending, Fresh, Answered, ReportedTruthfully
<1> QED BY <1>1, <1>3, <1>4 DEF CorrelationInv

LEMMA CorrelationStep == CorrelationInv /\ [Next]_vars => CorrelationInv'
<1> SUFFICES ASSUME CorrelationInv, [Next]_vars PROVE CorrelationInv'
  OBVIOUS
<1>1. TypeOK'
  BY TypeStep DEF CorrelationInv
<1>2. CASE \/ SessionUp \/ SessionEnd \/ MqttDeliver \/ BridgeLagged \/ Reset
           \/ UNCHANGED vars
  BY <1>1, <1>2, QuietSteps DEF Correlation, CorrelationInv
<1>3. CASE \E kind \in DownlinkKinds, oversize \in BOOLEAN : MqttReceive(kind, oversize)
  BY <1>1, <1>3, Arrive DEF Correlation, CorrelationInv
<1>4. CASE \E command \in {SerialCommand, RebootCommand} : SerialRead(command)
  BY <1>1, <1>4, QueueSerial DEF Correlation, CorrelationInv
<1>5. CASE (\E n \in Bursts : SerialParseErrors(n)) \/ LoraAnswerSerial \/ LoraReceive
  <2>1. PICK message \in {SerialResponse, RxPacket}, n \in Nat :
          /\ Publish(message, n)
          /\ serving' \in {serving, Idle}
          /\ UNCHANGED <<mqttIn, commandQ, inFlight, arrived, result, aired, overrun>>
    BY <1>5, BridgeAssumption DEF SerialParseErrors, LoraAnswerSerial, LoraReceive, history
  <2>2. message \in Messages /\ ~Carries(message)
    BY Kinds DEF Messages
  <2>3. Correlation'
    BY <2>1, <2>2, PublishOther
  <2> QED BY <1>1, <2>3 DEF Correlation, CorrelationInv
<1>6. CASE LoraTake
  BY <1>1, <1>6, TakeCommand DEF Correlation, CorrelationInv
<1>7. CASE \E response \in TxResponses, emitted \in BOOLEAN :
             LoraAnswerDownlink(response, emitted)
  BY <1>1, <1>7, PublishAnswer DEF Correlation, CorrelationInv
<1>8. CASE BridgeResponse
  BY <1>1, <1>8, ReadResponse DEF Correlation, CorrelationInv
<1>9. CASE BridgeDownlink
  BY <1>1, <1>9, HandleDownlink DEF Correlation, CorrelationInv
<1> QED BY <1>2, <1>3, <1>4, <1>5, <1>6, <1>7, <1>8, <1>9 DEF Next

LEMMA CorrelationImplies == CorrelationInv => Correlated /\ ReportedTruthfully
  BY DEF CorrelationInv, Matched, Matches, Correlated, Awaited, ReportedTruthfully

(* As long as no sequence id is reused while awaited, a response the       *)
(* bridge reads is matched with the downlink whose payload the radio was   *)
(* given: on_command_response never answers under another downlink's id.   *)
THEOREM Correlation_Correct == Spec => []Correlated
  BY CorrelationInit, CorrelationStep, CorrelationImplies, PTL DEF Spec

(* The tx/result of a downlink is given at most once and is true of what   *)
(* the radio did with it.                                                  *)
THEOREM Report_Correct == Spec => []ReportedTruthfully
  BY CorrelationInit, CorrelationStep, CorrelationImplies, PTL DEF Spec
-----------------------------------------------------------------------------
(* The losses.                                                             *)

(* The sequence ids in a queue and in the hands of lora_task.              *)
Named(q) == {q[k].seq : k \in {l \in DOMAIN q : IsWifi(q[l])}}
NamedBy(item) == IF IsWifi(item) THEN {item.seq} ELSE {}

LEMMA AwaitedParts ==
  /\ AwaitedSeqs = Named(commandQ) \cup NamedBy(serving) \cup Named(responseQ)
  /\ AwaitedSeqs' = Named(commandQ') \cup NamedBy(serving') \cup Named(responseQ')
  BY DEF AwaitedSeqs, Awaited, Named, NamedBy

(* The packets that the bridge has still to read.                          *)
RxAt(q) == {k \in DOMAIN q : q[k] = RxPacket}

(* A publication pushes out one id for each message it pushes out.         *)
LEMMA ShiftedNames ==
  ASSUME NEW q, NEW q2, NEW message, NEW n \in Nat, NEW e \in Nat,
         Shifted(q, q2, message, n, e)
  PROVE  /\ \E X : IsFiniteSet(X) /\ Cardinality(X) <= e /\ Named(q) \subseteq Named(q2) \cup X
         /\ n > 0 /\ Len(q2) > 0 => NamedBy(message) \subseteq Named(q2)
<1> DEFINE Lost == {k \in 1 .. e : k \in DOMAIN q /\ IsWifi(q[k])}
           X == {q[k].seq : k \in Lost}
           f == [k \in Lost |-> q[k].seq]
<1>0. /\ q \in Seq(Messages) /\ q2 \in Seq(Messages) /\ Len(q) \in Nat /\ Len(q2) \in Nat
      /\ Len(q2) = Len(q) + n - e
      /\ \A k \in 1 .. Len(q2) : /\ k + e <= Len(q) => q2[k] = q[k + e]
                                 /\ k + e > Len(q) => q2[k] = message
      /\ DOMAIN q = 1 .. Len(q) /\ DOMAIN q2 = 1 .. Len(q2)
  BY DEF Shifted
<1>1. IsFiniteSet(1 .. e) /\ Cardinality(1 .. e) = e
  <2>1. 1 \in Int /\ e \in Int
    OBVIOUS
  <2>2. IsFiniteSet(1 .. e) /\ Cardinality(1 .. e) = IF 1 > e THEN 0 ELSE e - 1 + 1
    BY <2>1, FS_Interval, Zenon
  <2> QED BY <2>2
<1>2. IsFiniteSet(Lost) /\ Cardinality(Lost) <= e /\ Cardinality(Lost) \in Nat
  BY <1>1, FS_Subset, FS_CardinalityType
<1>3. f \in Surjection(Lost, X)
  BY DEF Surjection
<1> HIDE DEF f
<1>4. IsFiniteSet(X) /\ Cardinality(X) <= e
  <2>1. IsFiniteSet(X) /\ Cardinality(X) <= Cardinality(Lost)
    BY <1>2, <1>3, FS_Surjection
  <2>2. Cardinality(X) \in Nat
    BY <2>1, FS_CardinalityType
  <2> QED BY <1>2, <2>1, <2>2
<1>5. ASSUME NEW s \in Named(q) PROVE s \in Named(q2) \cup X
  <2>1. PICK k \in DOMAIN q : IsWifi(q[k]) /\ s = q[k].seq
    BY <1>5 DEF Named
  <2>2. CASE k <= e
    BY <1>0, <2>1, <2>2
  <2>3. CASE k > e
    <3>1. k - e \in 1 .. Len(q2) /\ (k - e) + e = k
      BY <1>0, <2>1, <2>3
    <3>2. k - e \in DOMAIN q2 /\ q2[k - e] = q[k]
      BY <1>0, <2>1, <3>1
    <3> QED BY <2>1, <3>2 DEF Named
  <2> QED BY <1>0, <2>1, <2>2, <2>3
<1>6. ASSUME n > 0, Len(q2) > 0 PROVE NamedBy(message) \subseteq Named(q2)
  <2>1. Len(q2) \in 1 .. Len(q2) /\ Len(q2) + e > Len(q)
    BY <1>0, <1>6
  <2>2. Len(q2) \in DOMAIN q2 /\ q2[Len(q2)] = message
    BY <1>0, <2>1
  <2> QED BY <2>2 DEF Named, NamedBy
<1> HIDE DEF X, Lost
<1>7. Named(q) \subseteq Named(q2) \cup X
  BY <1>5
<1> QED BY <1>4, <1>6, <1>7

(* ... and one packet at most.                                             *)
LEMMA ShiftedPackets ==
  ASSUME NEW q, NEW q2, NEW message, NEW n \in Nat, NEW e \in Nat,
         Shifted(q, q2, message, n, e)
  PROVE  LET new == IF message = RxPacket THEN n ELSE 0
         IN  /\ Cardinality(RxAt(q)) \in Nat /\ Cardinality(RxAt(q2)) \in Nat
             /\ Cardinality(RxAt(q2)) <= Cardinality(RxAt(q)) + new
             /\ Cardinality(RxAt(q)) + new <= Cardinality(RxAt(q2)) + e
<1> DEFINE new == IF message = RxPacket THEN n ELSE 0
           N == IF message = RxPacket THEN Len(q) + 1 .. Len(q) + n ELSE {}
           A == RxAt(q) \cup N
           f == [k \in RxAt(q2) |-> k + e]
           T == A \ (1 .. e)
<1>0. /\ q \in Seq(Messages) /\ q2 \in Seq(Messages) /\ Len(q) \in Nat /\ Len(q2) \in Nat
      /\ Len(q2) = Len(q) + n - e
      /\ \A k \in 1 .. Len(q2) : /\ k + e <= Len(q) => q2[k] = q[k + e]
                                 /\ k + e > Len(q) => q2[k] = message
      /\ DOMAIN q = 1 .. Len(q) /\ DOMAIN q2 = 1 .. Len(q2)
  BY DEF Shifted
<1>1. ASSUME NEW a \in Nat, NEW b \in Nat
      PROVE  IsFiniteSet(a + 1 .. b) /\ Cardinality(a + 1 .. b) = IF a + 1 > b THEN 0 ELSE b - a
  <2>1. a + 1 \in Int /\ b \in Int
    OBVIOUS
  <2>2. IsFiniteSet(a + 1 .. b)
        /\ Cardinality(a + 1 .. b) = IF a + 1 > b THEN 0 ELSE b - (a + 1) + 1
    BY <2>1, FS_Interval, Zenon
  <2> QED BY <2>2
<1>2. IsFiniteSet(1 .. e) /\ Cardinality(1 .. e) = e
  <2>1. 1 \in Int /\ e \in Int
    OBVIOUS
  <2>2. IsFiniteSet(1 .. e) /\ Cardinality(1 .. e) = IF 1 > e THEN 0 ELSE e - 1 + 1
    BY <2>1, FS_Interval, Zenon
  <2> QED BY <2>2
<1>3. /\ IsFiniteSet(RxAt(q)) /\ Cardinality(RxAt(q)) \in Nat
      /\ IsFiniteSet(RxAt(q2)) /\ Cardinality(RxAt(q2)) \in Nat
  <2>1. IsFiniteSet(1 .. Len(q)) /\ IsFiniteSet(1 .. Len(q2))
    <3>1. 1 \in Int /\ Len(q) \in Int /\ Len(q2) \in Int
      BY <1>0
    <3> QED BY <3>1, FS_Interval, Zenon
  <2>2. RxAt(q) \in SUBSET (1 .. Len(q)) /\ RxAt(q2) \in SUBSET (1 .. Len(q2))
    BY <1>0 DEF RxAt
  <2>3. IsFiniteSet(RxAt(q)) /\ IsFiniteSet(RxAt(q2))
    BY <2>1, <2>2, FS_Subset
  <2> QED BY <2>3, FS_CardinalityType
<1>4. IsFiniteSet(N) /\ Cardinality(N) = new
  <2>1. CASE message = RxPacket
    <3>1. Len(q) + n \in Nat /\ N = Len(q) + 1 .. Len(q) + n /\ new = n
      BY <1>0, <2>1
    <3>2. IsFiniteSet(N) /\ Cardinality(N) = IF Len(q) + 1 > Len(q) + n THEN 0 ELSE (Len(q) + n) - Len(q)
      BY <1>0, <1>1, <3>1
    <3> QED BY <1>0, <3>1, <3>2
  <2>2. CASE message # RxPacket
    BY <2>2, FS_EmptySet
  <2> QED BY <2>1, <2>2
<1>5. RxAt(q) \cap N = {}
  BY <1>0 DEF RxAt
<1>n. new \in Nat
  OBVIOUS
<1>6. f \in Bijection(RxAt(q2), T)
  <2>1. ASSUME NEW k \in RxAt(q2) PROVE k + e \in T
    <3>1. k \in 1 .. Len(q2) /\ q2[k] = RxPacket
      BY <1>0 DEF RxAt
    <3>2. CASE k + e <= Len(q)
      BY <1>0, <3>1, <3>2 DEF RxAt
    <3>3. CASE k + e > Len(q)
      BY <1>0, <3>1, <3>3
    <3> QED BY <1>0, <3>1, <3>2, <3>3
  <2>2. ASSUME NEW a \in T PROVE \E k \in RxAt(q2) : k + e = a
    <3>1. a \in 1 .. Len(q) + n /\ a > e /\ (a <= Len(q) => q[a] = RxPacket)
          /\ (a > Len(q) => message = RxPacket)
      BY <1>0 DEF RxAt
    <3>2. a - e \in 1 .. Len(q2) /\ (a - e) + e = a
      BY <1>0, <3>1
    <3>3. q2[a - e] = RxPacket
      BY <1>0, <3>1, <3>2
    <3> QED BY <1>0, <3>2, <3>3 DEF RxAt
  <2>3. \A k, l \in RxAt(q2) : k + e = l + e => k = l
    <3>1. RxAt(q2) \subseteq Nat
      BY <1>0 DEF RxAt
    <3> QED BY <3>1
  <2> HIDE DEF T
  <2>4. f \in [RxAt(q2) -> T]
    BY <2>1
  <2>5. \A k, l \in RxAt(q2) : f[k] = f[l] => k = l
    BY <2>3
  <2>6. \A a \in T : \E k \in RxAt(q2) : f[k] = a
    BY <2>2
  <2> HIDE DEF f
  <2> QED BY <2>4, <2>5, <2>6 DEF Bijection, Injection, Surjection, IsInjective
<1> HIDE DEF f, N, new
<1>7. IsFiniteSet(A) /\ Cardinality(A) = Cardinality(RxAt(q)) + new
  <2>1. IsFiniteSet(A) /\ Cardinality(A) = Cardinality(RxAt(q)) + Cardinality(N) - Cardinality(RxAt(q) \cap N)
    BY <1>3, <1>4, FS_Union
  <2>2. Cardinality(RxAt(q) \cap N) = 0
    BY <1>5, FS_EmptySet
  <2> QED BY <1>3, <1>4, <1>n, <2>1, <2>2
<1> HIDE DEF A
<1>8. IsFiniteSet(T) /\ Cardinality(T) = Cardinality(A) - Cardinality(A \cap (1 .. e))
  BY <1>7, FS_Difference
<1>9. Cardinality(A \cap (1 .. e)) \in Nat /\ Cardinality(A \cap (1 .. e)) <= e
  <2>1. A \cap (1 .. e) \in SUBSET (1 .. e)
    OBVIOUS
  <2>2. IsFiniteSet(A \cap (1 .. e)) /\ Cardinality(A \cap (1 .. e)) <= Cardinality(1 .. e)
    BY <1>2, <2>1, FS_Subset
  <2> QED BY <1>2, <2>2, FS_CardinalityType
<1> HIDE DEF T
<1>10. Cardinality(T) = Cardinality(RxAt(q2))
  BY <1>3, <1>6, FS_Bijection DEF ExistsBijection
<1>11. /\ Cardinality(RxAt(q2)) <= Cardinality(RxAt(q)) + new
       /\ Cardinality(RxAt(q)) + new <= Cardinality(RxAt(q2)) + e
  BY <1>3, <1>7, <1>8, <1>9, <1>10, <1>n
<1> QED BY <1>3, <1>11 DEF new
(* Taking the first message of a queue takes its id and, maybe, a packet.  *)
LEMMA TailNames ==
  ASSUME NEW S, NEW q \in Seq(S), q # <<>>
  PROVE  Named(q) \subseteq Named(Tail(q)) \cup NamedBy(Head(q))
<1>1. /\ Head(q) = q[1] /\ Len(q) \in Nat \ {0} /\ DOMAIN q = 1 .. Len(q)
      /\ DOMAIN Tail(q) = 1 .. Len(q) - 1
      /\ \A k \in 1 .. Len(q) - 1 : Tail(q)[k] = q[k + 1]
  OBVIOUS
<1>2. ASSUME NEW s \in Named(q) PROVE s \in Named(Tail(q)) \cup NamedBy(Head(q))
  <2>1. PICK k \in DOMAIN q : IsWifi(q[k]) /\ s = q[k].seq
    BY <1>2 DEF Named
  <2>2. CASE k = 1
    BY <1>1, <2>1, <2>2 DEF NamedBy
  <2>3. CASE k # 1
    <3>1. k - 1 \in 1 .. Len(q) - 1 /\ (k - 1) + 1 = k
      BY <1>1, <2>1, <2>3
    <3>2. k - 1 \in DOMAIN Tail(q) /\ Tail(q)[k - 1] = q[k]
      BY <1>1, <3>1
    <3> QED BY <2>1, <3>2 DEF Named
  <2> QED BY <2>2, <2>3
<1> QED BY <1>2

LEMMA TailPackets ==
  ASSUME NEW q \in Seq(Messages), q # <<>>
  PROVE  /\ Cardinality(RxAt(q)) \in Nat /\ Cardinality(RxAt(Tail(q))) \in Nat
         /\ Cardinality(RxAt(q)) = Cardinality(RxAt(Tail(q))) + (IF Head(q) = RxPacket THEN 1 ELSE 0)
<1> DEFINE t == Tail(q)
           f == [k \in RxAt(t) |-> k + 1]
           T == RxAt(q) \ {1}
<1>1. /\ Head(q) = q[1] /\ Len(q) \in Nat \ {0} /\ DOMAIN q = 1 .. Len(q)
      /\ DOMAIN t = 1 .. Len(q) - 1
      /\ \A k \in 1 .. Len(q) - 1 : t[k] = q[k + 1]
  OBVIOUS
<1>2. IsFiniteSet(RxAt(q)) /\ IsFiniteSet(RxAt(t))
  <2>1. IsFiniteSet(1 .. Len(q)) /\ IsFiniteSet(1 .. Len(q) - 1)
    <3>1. 1 \in Int /\ Len(q) \in Int /\ Len(q) - 1 \in Int
      BY <1>1
    <3> QED BY <3>1, FS_Interval, Zenon
  <2>2. RxAt(q) \in SUBSET (1 .. Len(q)) /\ RxAt(t) \in SUBSET (1 .. Len(q) - 1)
    BY <1>1 DEF RxAt
  <2> QED BY <2>1, <2>2, FS_Subset
<1>3. Cardinality(RxAt(q)) \in Nat /\ Cardinality(RxAt(t)) \in Nat
  BY <1>2, FS_CardinalityType
<1> HIDE DEF t
<1>4. f \in Bijection(RxAt(t), T)
  <2>1. ASSUME NEW k \in RxAt(t) PROVE k + 1 \in T
    BY <1>1 DEF RxAt
  <2>2. ASSUME NEW a \in T PROVE \E k \in RxAt(t) : k + 1 = a
    <3>1. a \in 2 .. Len(q) /\ q[a] = RxPacket
      BY <1>1 DEF RxAt
    <3>2. a - 1 \in 1 .. Len(q) - 1 /\ (a - 1) + 1 = a
      BY <1>1, <3>1
    <3> QED BY <1>1, <3>1, <3>2 DEF RxAt
  <2>3. \A k, l \in RxAt(t) : k + 1 = l + 1 => k = l
    <3>1. RxAt(t) \subseteq Nat
      BY <1>1 DEF RxAt
    <3> QED BY <3>1
  <2> HIDE DEF T
  <2>4. f \in [RxAt(t) -> T]
    BY <2>1
  <2>5. \A k, l \in RxAt(t) : f[k] = f[l] => k = l
    BY <2>3
  <2>6. \A a \in T : \E k \in RxAt(t) : f[k] = a
    BY <2>2
  <2> HIDE DEF f
  <2> QED BY <2>4, <2>5, <2>6 DEF Bijection, Injection, Surjection, IsInjective
<1> HIDE DEF f
<1>5. Cardinality(T) = Cardinality(RxAt(t))
  BY <1>2, <1>4, FS_Bijection DEF ExistsBijection
<1>6. Cardinality(T) = IF 1 \in RxAt(q) THEN Cardinality(RxAt(q)) - 1 ELSE Cardinality(RxAt(q))
  BY <1>2, FS_RemoveElement
<1>7. 1 \in RxAt(q) <=> Head(q) = RxPacket
  BY <1>1 DEF RxAt
<1> QED BY <1>3, <1>5, <1>6, <1>7 DEF t

(* Entries that no command or response names.                              *)
Orphans == DOMAIN inFlight \ AwaitedSeqs
Lost == stats.dropped + lagged
Unread == Cardinality(RxAt(responseQ))

(* A step that makes no orphan but the X, and counts e more losses.        *)
LEMMA FewOrphans ==
  ASSUME TypeOK, TypeOK', LeakIsCounted,
         NEW X, NEW e \in Nat, IsFiniteSet(X), Cardinality(X) <= e,
         Orphans' \subseteq Orphans \cup X, Lost' >= Lost + e
  PROVE  LeakIsCounted'
<1> DEFINE O == Orphans
           P == Orphans'
           l == Lost
           m == Lost'
<1>1. IsFiniteSet(O) /\ Cardinality(O) \in Nat /\ Cardinality(X) \in Nat
  <2>1. IsFiniteSet(DOMAIN inFlight)
    BY FiniteMap DEF TypeOK, TableOK
  <2> QED BY <2>1, FS_Subset, FS_CardinalityType DEF Orphans
<1>2. l \in Nat /\ m \in Nat
  <2>1. stats.dropped \in Nat /\ lagged \in Nat /\ stats'.dropped \in Nat /\ lagged' \in Nat
    BY DEF TypeOK, ChannelsOK, OutputOK
  <2>2. stats.dropped + lagged \in Nat /\ stats'.dropped + lagged' \in Nat
    BY <2>1
  <2> QED BY <2>2 DEF Lost
<1>3. Cardinality(O) <= l
  BY DEF LeakIsCounted, Orphans, Lost
<1>4. P \subseteq O \cup X /\ m >= l + e
  OBVIOUS
<1>5. LeakIsCounted' <=> Cardinality(P) <= m
  BY DEF LeakIsCounted, Orphans, Lost
<1> HIDE DEF O, P, l, m
<1>6. IsFiniteSet(O \cup X) /\ Cardinality(O \cup X) = Cardinality(O) + Cardinality(X) - Cardinality(O \cap X)
  BY <1>1, FS_Union
<1>7. Cardinality(O \cap X) \in Nat
  BY <1>1, FS_Subset, FS_CardinalityType
<1>8. IsFiniteSet(P) /\ Cardinality(P) <= Cardinality(O \cup X)
  BY <1>4, <1>6, FS_Subset
<1>9. Cardinality(P) \in Nat
  BY <1>8, FS_CardinalityType
<1>10. Cardinality(P) <= m
  BY <1>1, <1>2, <1>3, <1>4, <1>6, <1>7, <1>8, <1>9
<1> QED BY <1>5, <1>10

(* ... and that makes none.                                                *)
LEMMA NoOrphans ==
  ASSUME TypeOK, TypeOK', LeakIsCounted, Orphans' \subseteq Orphans, Lost' >= Lost
  PROVE  LeakIsCounted'
<1>1. IsFiniteSet({}) /\ Cardinality({}) <= 0 /\ 0 \in Nat
  BY FS_EmptySet
<1>2. Lost \in Nat /\ Lost + 0 = Lost
  <2>1. stats.dropped \in Nat
    BY DEF TypeOK, OutputOK
  <2>2. lagged \in Nat
    BY DEF TypeOK, ChannelsOK
  <2> QED BY <2>1, <2>2 DEF Lost
<1> QED BY <1>1, <1>2, FewOrphans
(* A message is published; it takes the place of what lora_task held.      *)
LEMMA PublishLosses ==
  ASSUME TypeOK, TypeOK', LossesCounted,
         NEW message \in Messages, NEW n \in Nat, Publish(message, n),
         UNCHANGED <<stats, rxSeq, inFlight, commandQ>>,
         NamedBy(serving) \subseteq NamedBy(serving') \cup NamedBy(message),
         n > 0 \/ NamedBy(message) = {},
         received' = received + (IF message = RxPacket THEN n ELSE 0)
  PROVE  LossesCounted'
<1>0. /\ responseQ \in Seq(Messages) /\ lagged \in Nat /\ stats.dropped \in Nat
      /\ stats.uplink \in Nat /\ rxSeq \in Nat /\ received \in Nat
  BY DEF TypeOK, ChannelsOK, OutputOK, TableOK, HistoryOK
<1>1. PICK e \in Nat : /\ lagged' = lagged + e
                       /\ Shifted(responseQ, responseQ', message, n, e)
                       /\ n > 0 => Len(responseQ') > 0
  BY <1>0, PublishExact
<1>s. /\ \E X : /\ IsFiniteSet(X) /\ Cardinality(X) <= e
                /\ Named(responseQ) \subseteq Named(responseQ') \cup X
      /\ NamedBy(message) \subseteq Named(responseQ')
  <2> DEFINE q == responseQ
             q2 == responseQ'
  <2>1. Shifted(q, q2, message, n, e) /\ (n > 0 => Len(q2) > 0)
    BY <1>1
  <2> HIDE DEF q, q2
  <2>2. /\ \E X : IsFiniteSet(X) /\ Cardinality(X) <= e /\ Named(q) \subseteq Named(q2) \cup X
        /\ n > 0 /\ Len(q2) > 0 => NamedBy(message) \subseteq Named(q2)
    BY <2>1, ShiftedNames, Zenon
  <2>3. NamedBy(message) \subseteq Named(q2)
    BY <2>1, <2>2
  <2> QED BY <2>2, <2>3, Zenon DEF q, q2
<1>2. LeakIsCounted'
  <2>1. PICK X : /\ IsFiniteSet(X) /\ Cardinality(X) <= e
                 /\ Named(responseQ) \subseteq Named(responseQ') \cup X
    BY <1>s, Zenon
  <2>2. NamedBy(message) \subseteq Named(responseQ')
    BY <1>s, Zenon
  <2>3. Orphans' \subseteq Orphans \cup X
    BY <2>1, <2>2, AwaitedParts DEF Orphans
  <2>4. Lost' >= Lost + e
    <3>1. Lost' = stats.dropped + (lagged + e)
      BY <1>1 DEF Lost
    <3>2. stats.dropped + (lagged + e) = Lost + e /\ Lost + e \in Nat
      BY <1>0 DEF Lost
    <3> QED BY <3>1, <3>2
  <2>5. LeakIsCounted
    BY DEF LossesCounted
  <2> QED BY <2>1, <2>3, <2>4, <2>5, FewOrphans
<1>3. UplinksAccounted'
  <2> DEFINE new == IF message = RxPacket THEN n ELSE 0
             u == Cardinality(RxAt(responseQ))
             v == Cardinality(RxAt(responseQ'))
             up == stats.uplink
             dr == stats.dropped
  <2>1. u \in Nat /\ v \in Nat /\ v <= u + new /\ u + new <= v + e /\ new \in Nat
    BY <1>1, ShiftedPackets
  <2>2. up <= rxSeq /\ rxSeq + u <= received /\ received <= up + u + dr + lagged
    BY DEF LossesCounted, UplinksAccounted, RxAt
  <2>3. UplinksAccounted' <=> /\ up <= rxSeq /\ rxSeq + v <= received + new
                              /\ received + new <= up + v + dr + (lagged + e)
    BY <1>1 DEF UplinksAccounted, RxAt
  <2>4. up \in Nat /\ dr \in Nat
    BY <1>0
  <2> HIDE DEF new, u, v, up, dr
  <2>5. rxSeq + v <= received + new /\ received + new <= up + v + dr + (lagged + e)
    BY <1>0, <2>1, <2>2, <2>4
  <2> QED BY <2>2, <2>3, <2>5
<1> QED BY <1>2, <1>3 DEF LossesCounted

(* What a step that reads and publishes nothing keeps of the uplinks.      *)
LEMMA SameUplinks ==
  ASSUME TypeOK, TypeOK', LossesCounted,
         UNCHANGED <<responseQ, rxSeq, received>>, stats'.uplink = stats.uplink, Lost' >= Lost
  PROVE  UplinksAccounted'
<1> DEFINE u == Cardinality(RxAt(responseQ))
           up == stats.uplink
           l == Lost
           m == Lost'
<1>1. IsFiniteSet(RxAt(responseQ))
  <2>1. RxAt(responseQ) \in SUBSET (1 .. Len(responseQ)) /\ Len(responseQ) \in Int
    BY DEF RxAt, TypeOK, ChannelsOK
  <2>2. IsFiniteSet(1 .. Len(responseQ))
    BY <2>1, FS_Interval
  <2> QED BY <2>1, <2>2, FS_Subset
<1>2. u \in Nat /\ up \in Nat /\ rxSeq \in Nat /\ received \in Nat /\ l \in Nat /\ m \in Nat
  <2>1. stats.dropped \in Nat /\ lagged \in Nat /\ stats'.dropped \in Nat /\ lagged' \in Nat
        /\ stats.uplink \in Nat /\ rxSeq \in Nat /\ received \in Nat
    BY DEF TypeOK, ChannelsOK, OutputOK, TableOK, HistoryOK
  <2>2. stats.dropped + lagged \in Nat /\ stats'.dropped + lagged' \in Nat
    BY <2>1
  <2> QED BY <1>1, <2>1, <2>2, FS_CardinalityType DEF Lost
<1>3. up <= rxSeq /\ rxSeq + u <= received /\ received <= up + u + l
  <2>1. up <= rxSeq /\ rxSeq + u <= received /\ received <= up + u + stats.dropped + lagged
    BY DEF LossesCounted, UplinksAccounted, RxAt
  <2>2. stats.dropped \in Nat /\ lagged \in Nat
    BY DEF TypeOK, ChannelsOK, OutputOK
  <2>3. up + u + stats.dropped + lagged = up + u + (stats.dropped + lagged)
    BY <1>2, <2>2
  <2> QED BY <2>1, <2>3 DEF Lost
<1>4. m >= l
  OBVIOUS
<1>5. UplinksAccounted' <=> up <= rxSeq /\ rxSeq + u <= received /\ received <= up + u + m
  <2>1. stats'.dropped \in Nat /\ lagged' \in Nat
    BY DEF TypeOK, ChannelsOK, OutputOK
  <2>2. up + u + stats'.dropped + lagged' = up + u + m
    BY <1>2, <2>1 DEF Lost
  <2>3. UplinksAccounted' <=> /\ up <= rxSeq /\ rxSeq + u <= received
                              /\ received <= up + u + stats'.dropped + lagged'
    BY DEF UplinksAccounted, RxAt
  <2> QED BY <2>2, <2>3
<1> HIDE DEF u, up, l, m
<1> QED BY <1>2, <1>3, <1>4, <1>5
(* lora_task and serial_reader_task publish, and the bridge is told how    *)
(* much it lost.                                                           *)
LEMMA PublisherLosses ==
  ASSUME TypeOK, TypeOK', LossesCounted,
         \/ \E n \in Bursts : SerialParseErrors(n)
         \/ LoraReceive
         \/ LoraAnswerSerial
         \/ \E response \in TxResponses, emitted \in BOOLEAN :
              LoraAnswerDownlink(response, emitted)
  PROVE  LossesCounted'
<1>0. /\ RxPacket \in Messages /\ SerialResponse \in Messages /\ SerialResponse # RxPacket
      /\ NamedBy(RxPacket) = {} /\ NamedBy(SerialResponse) = {} /\ NamedBy(Idle) = {}
      /\ NamedBy(SerialCommand) = {} /\ received \in Nat /\ received + 0 = received
  BY Kinds DEF Messages, NamedBy, RxPacket, SerialResponse, TypeOK, HistoryOK
<1>1. CASE \E n \in Bursts : SerialParseErrors(n)
  <2>1. PICK n \in Nat : SerialParseErrors(n)
    BY <1>1, BridgeAssumption
  <2>2. received' = received + (IF SerialResponse = RxPacket THEN n ELSE 0)
    BY <2>1, <1>0 DEF SerialParseErrors
  <2>3. Publish(SerialResponse, n) /\ UNCHANGED <<stats, rxSeq, inFlight, commandQ, serving>>
    BY <2>1 DEF SerialParseErrors
  <2> QED BY <2>2, <2>3, <1>0, PublishLosses
<1>2. CASE LoraReceive
  <2>1. received' = received + (IF RxPacket = RxPacket THEN 1 ELSE 0)
    BY <1>2 DEF LoraReceive
  <2>2. Publish(RxPacket, 1) /\ UNCHANGED <<stats, rxSeq, inFlight, commandQ, serving>>
    BY <1>2 DEF LoraReceive
  <2>3. 1 \in Nat /\ 1 > 0
    OBVIOUS
  <2> QED BY <2>1, <2>2, <2>3, <1>0, PublishLosses
<1>3. CASE LoraAnswerSerial
  <2>1. received' = received + (IF SerialResponse = RxPacket THEN 1 ELSE 0)
    BY <1>3, <1>0 DEF LoraAnswerSerial, history
  <2>2. Publish(SerialResponse, 1) /\ UNCHANGED <<stats, rxSeq, inFlight, commandQ>>
        /\ serving = SerialCommand
    BY <1>3 DEF LoraAnswerSerial
  <2>3. 1 \in Nat /\ 1 > 0
    OBVIOUS
  <2> QED BY <2>1, <2>2, <2>3, <1>0, PublishLosses
<1>4. ASSUME NEW response \in TxResponses, NEW emitted \in BOOLEAN,
             LoraAnswerDownlink(response, emitted)
      PROVE  LossesCounted'
  <2> DEFINE answer == WifiResponse(serving, response)
  <2>1. IsWifi(serving) /\ Publish(answer, 1) /\ UNCHANGED <<stats, rxSeq, inFlight, commandQ, received>>
    BY <1>4 DEF LoraAnswerDownlink
  <2>2. serving.seq \in SeqIds /\ serving.downlink \in Downlinks
    BY <2>1, Kinds DEF TypeOK, ChannelsOK
  <2>3. answer \in Messages /\ IsWifi(answer) /\ answer.seq = serving.seq /\ answer # RxPacket
    BY <2>2 DEF WifiResponse, Messages, IsWifi, RxPacket
  <2>4. NamedBy(serving) = NamedBy(answer)
    BY <2>1, <2>3 DEF NamedBy
  <2> HIDE DEF answer
  <2>5. received' = received + (IF answer = RxPacket THEN 1 ELSE 0)
    BY <2>1, <2>3, <1>0
  <2>6. 1 \in Nat /\ 1 > 0
    OBVIOUS
  <2> QED BY <2>1, <2>3, <2>4, <2>5, <2>6, PublishLosses
<1> QED BY <1>1, <1>2, <1>3, <1>4

(* What is reported: a count that never goes down.                         *)
LEMMA CountUp ==
  ASSUME TypeOK, NEW u \in Nat, NEW d \in Nat, NEW r \in Nat, Count(u, d, r), lagged' = lagged
  PROVE  Lost' = Lost + r /\ Lost' >= Lost /\ stats'.uplink = stats.uplink + u
<1>1. stats.dropped \in Nat /\ stats.uplink \in Nat /\ lagged \in Nat
  BY DEF TypeOK, OutputOK, ChannelsOK
<1>2. stats'.dropped = stats.dropped + r /\ stats'.uplink = stats.uplink + u
  BY DEF Count
<1>3. (stats.dropped + r) + lagged = (stats.dropped + lagged) + r
      /\ (stats.dropped + lagged) + r >= stats.dropped + lagged
  BY <1>1
<1>4. Lost' = (stats.dropped + r) + lagged
  BY <1>2 DEF Lost
<1> QED BY <1>2, <1>3, <1>4 DEF Lost

(* The bridge reads a message.                                             *)
LEMMA ReadLosses == TypeOK /\ TypeOK' /\ LossesCounted /\ BridgeResponse => LossesCounted'
<1> SUFFICES ASSUME TypeOK, TypeOK', LossesCounted, BridgeResponse PROVE LossesCounted'
  OBVIOUS
<1> DEFINE message == Head(responseQ)
<1>0. /\ responseQ \in Seq(Messages) /\ responseQ # <<>> /\ responseQ' = Tail(responseQ)
      /\ message \in Messages /\ UNCHANGED <<lagged, serving, commandQ, received>>
      /\ stats.uplink \in Nat /\ stats.dropped \in Nat /\ lagged \in Nat
  <2>1. responseQ \in Seq(Messages) /\ responseQ # <<>> /\ responseQ' = Tail(responseQ)
        /\ UNCHANGED <<lagged, serving, received>>
    BY DEF TypeOK, ChannelsOK, BridgeResponse
  <2>2. commandQ' = commandQ
    BY DEF BridgeResponse
  <2> QED BY <2>1, <2>2, TailLemma DEF TypeOK, ChannelsOK, OutputOK
<1>q. Named(responseQ) \subseteq Named(responseQ') \cup NamedBy(message)
  BY <1>0, TailNames
<1>u. /\ Cardinality(RxAt(responseQ)) \in Nat /\ Cardinality(RxAt(responseQ')) \in Nat
      /\ Cardinality(RxAt(responseQ)) = Cardinality(RxAt(responseQ'))
                                          + (IF message = RxPacket THEN 1 ELSE 0)
  BY <1>0, TailPackets
<1>l. LeakIsCounted
  BY DEF LossesCounted
<1>s. lagged' = lagged /\ stats' = stats => Lost' >= Lost /\ stats'.uplink = stats.uplink
  <2>1. Lost \in Nat
    BY <1>0 DEF Lost
  <2>2. lagged' = lagged /\ stats' = stats => Lost' = Lost
    BY DEF Lost
  <2> QED BY <2>1, <2>2
<1>1. ASSUME NamedBy(message) = {}, inFlight' = inFlight, Lost' >= Lost
      PROVE  LeakIsCounted'
  <2>1. Orphans' \subseteq Orphans
    BY <1>0, <1>1, <1>q, AwaitedParts DEF Orphans
  <2> QED BY <1>1, <1>l, <2>1, NoOrphans
<1>2. CASE message = RxPacket
  <2>0. ~IsWifi(message)
    BY <1>2, Kinds
  <2>1. on_rx_packet
    BY <1>2, <2>0 DEF BridgeResponse
  <2> DEFINE up == IF Fits THEN 1 ELSE 0
             dr == IF Fits THEN 0 ELSE 1
  <2>2. Count(up, 0, dr) /\ rxSeq' = rxSeq + 1 /\ inFlight' = inFlight /\ up \in Nat /\ dr \in Nat
        /\ up + dr = 1
    BY <2>1 DEF on_rx_packet
  <2> HIDE DEF up, dr
  <2>3. Lost' >= Lost
    BY <1>0, <2>2, CountUp
  <2>4. NamedBy(message) = {}
    BY <1>2, Kinds DEF NamedBy
  <2>5. LeakIsCounted'
    BY <1>1, <2>2, <2>3, <2>4
  <2>6. UplinksAccounted'
    <3> DEFINE v == Cardinality(RxAt(responseQ'))
               su == stats.uplink
               sd == stats.dropped
    <3>1. v \in Nat /\ Cardinality(RxAt(responseQ)) = v + 1 /\ su \in Nat /\ sd \in Nat
          /\ rxSeq \in Nat /\ received \in Nat
      BY <1>u, <1>0, <1>2 DEF TypeOK, TableOK, HistoryOK
    <3>2. su <= rxSeq /\ rxSeq + (v + 1) <= received /\ received <= su + (v + 1) + sd + lagged
      BY <3>1 DEF LossesCounted, UplinksAccounted, RxAt
    <3>3. stats'.uplink = su + up /\ stats'.dropped = sd + dr
      BY <2>2 DEF Count
    <3>4. UplinksAccounted' <=> /\ su + up <= rxSeq + 1 /\ (rxSeq + 1) + v <= received
                                /\ received <= (su + up) + v + (sd + dr) + lagged
      BY <1>0, <2>2, <3>3 DEF UplinksAccounted, RxAt
    <3> HIDE DEF v, su, sd
    <3>5. /\ su + up <= rxSeq + 1 /\ (rxSeq + 1) + v <= received
          /\ received <= (su + up) + v + (sd + dr) + lagged
      BY <1>0, <2>2, <3>1, <3>2
    <3> QED BY <3>4, <3>5
  <2> QED BY <2>5, <2>6 DEF LossesCounted
<1>3. ASSUME message # RxPacket, rxSeq' = rxSeq, stats'.uplink = stats.uplink, Lost' >= Lost
      PROVE  UplinksAccounted'
  <2> DEFINE u == Cardinality(RxAt(responseQ))
             v == Cardinality(RxAt(responseQ'))
             su == stats.uplink
             l == Lost
             m == Lost'
  <2>1. u = v /\ u \in Nat
    BY <1>u, <1>3
  <2>2. su <= rxSeq /\ rxSeq + u <= received /\ received <= su + u + stats.dropped + lagged
    BY DEF LossesCounted, UplinksAccounted, RxAt
  <2>3. su + u + stats.dropped + lagged = su + u + l /\ l \in Nat
    BY <1>0, <2>1 DEF Lost
  <2>4. stats'.dropped \in Nat /\ lagged' \in Nat
    BY DEF TypeOK, ChannelsOK, OutputOK
  <2>5. su + v + stats'.dropped + lagged' = su + v + m /\ m \in Nat
    BY <1>0, <2>1, <2>4 DEF Lost
  <2>6. UplinksAccounted' <=> /\ su <= rxSeq /\ rxSeq + v <= received
                              /\ received <= su + v + stats'.dropped + lagged'
    BY <1>0, <1>3 DEF UplinksAccounted, RxAt
  <2>7. m >= l /\ received \in Nat /\ su \in Nat
    BY <1>3, <1>0 DEF TypeOK, HistoryOK
  <2>8. received <= su + u + l
    BY <2>2, <2>3
  <2>9. UplinksAccounted' <=> su <= rxSeq /\ rxSeq + v <= received /\ received <= su + v + m
    BY <2>5, <2>6
  <2> HIDE DEF u, v, su, l, m
  <2> QED BY <2>1, <2>2, <2>3, <2>5, <2>7, <2>8, <2>9
<1>4. CASE message # RxPacket /\ IsWifi(message)
  <2>1. on_command_response(message) /\ rxSeq' = rxSeq
    BY <1>4 DEF BridgeResponse
  <2>2. NamedBy(message) = {message.seq}
    BY <1>4 DEF NamedBy
  <2>3. CASE message.seq \in DOMAIN inFlight
    <3>1. DOMAIN inFlight' = DOMAIN inFlight \ {message.seq}
      BY <2>1, <2>3 DEF on_command_response, Without
    <3>2. PICK d \in {0, 1}, r \in {0, 1} : Count(0, d, r)
      BY <2>1, <2>3 DEF on_command_response
    <3>3. Lost' >= Lost /\ stats'.uplink = stats.uplink + 0
      BY <1>0, <3>2, CountUp
    <3>4. Orphans' \subseteq Orphans
      BY <1>0, <1>q, <2>2, <3>1, AwaitedParts DEF Orphans
    <3>5. LeakIsCounted' /\ UplinksAccounted'
      BY <1>0, <1>l, <1>3, <1>4, <2>1, <3>3, <3>4, NoOrphans
    <3> QED BY <3>5 DEF LossesCounted
  <2>4. CASE message.seq \notin DOMAIN inFlight
    <3>1. inFlight' = inFlight /\ stats' = stats
      BY <2>1, <2>4 DEF on_command_response
    <3>2. Orphans' \subseteq Orphans
      BY <1>0, <1>q, <2>2, <2>4, <3>1, AwaitedParts DEF Orphans
    <3>3. LeakIsCounted' /\ UplinksAccounted'
      BY <1>0, <1>s, <1>l, <1>3, <1>4, <2>1, <3>1, <3>2, NoOrphans
    <3> QED BY <3>3 DEF LossesCounted
  <2> QED BY <2>3, <2>4
<1>5. CASE message # RxPacket /\ ~IsWifi(message)
  <2>1. UNCHANGED <<inFlight, stats, rxSeq>>
    BY <1>5 DEF BridgeResponse
  <2>2. NamedBy(message) = {}
    BY <1>5 DEF NamedBy
  <2>3. LeakIsCounted' /\ UplinksAccounted'
    BY <1>0, <1>1, <1>3, <1>5, <1>s, <2>1, <2>2
  <2> QED BY <2>3 DEF LossesCounted
<1> QED BY <1>2, <1>4, <1>5
(* Appending to a queue, and what is added to a queue's ids.               *)
LEMMA AppendNames ==
  ASSUME NEW S, NEW q \in Seq(S), NEW x
  PROVE  /\ Named(q) \subseteq Named(Append(q, x))
         /\ NamedBy(x) \subseteq Named(Append(q, x))
<1>1. /\ Len(q) \in Nat /\ DOMAIN q = 1 .. Len(q) /\ DOMAIN Append(q, x) = 1 .. Len(q) + 1
      /\ \A k \in 1 .. Len(q) : Append(q, x)[k] = q[k] /\ k \in 1 .. Len(q) + 1
      /\ Append(q, x)[Len(q) + 1] = x /\ Len(q) + 1 \in 1 .. Len(q) + 1
  OBVIOUS
<1> QED BY <1>1 DEF Named, NamedBy

(* The bridge takes a downlink: a new entry comes with its command.        *)
LEMMA DownlinkLosses == TypeOK /\ TypeOK' /\ LossesCounted /\ BridgeDownlink => LossesCounted'
<1> SUFFICES ASSUME TypeOK, TypeOK', LossesCounted, BridgeDownlink PROVE LossesCounted'
  OBVIOUS
<1> DEFINE kind == Head(mqttIn).kind
           d == Head(mqttIn).downlink
<1>0. /\ commandQ \in Seq(Commands) /\ UNCHANGED <<responseQ, lagged, serving, rxSeq, received>>
      /\ on_downlink(kind, d) /\ LeakIsCounted
  BY DEF TypeOK, ChannelsOK, BridgeDownlink, LossesCounted
<1> HIDE DEF kind, d
<1>1. \/ /\ commandQ' = commandQ /\ DOMAIN inFlight' \subseteq DOMAIN inFlight
         /\ \E r \in {0, 1} : Count(0, 0, r)
      \/ /\ commandQ' = Append(commandQ, WifiCommand(nextSequence, d))
         /\ DOMAIN inFlight' = DOMAIN inFlight \cup {nextSequence}
         /\ stats' = stats
  <2>1. ASSUME Reject(d) PROVE commandQ' = commandQ /\ \E r \in {0, 1} : Count(0, 0, r)
    BY <2>1 DEF Reject
  <2>2. DOMAIN Without(inFlight, nextSequence) \subseteq DOMAIN inFlight
    BY DEF Without
  <2>3. DOMAIN With(inFlight, nextSequence, d) = DOMAIN inFlight \cup {nextSequence}
    BY DEF With
  <2>4. CASE SendDownlink(d)
    BY <2>1, <2>2, <2>3, <2>4 DEF SendDownlink
  <2>5. CASE Reject(d) /\ (inFlight' = inFlight \/ inFlight' = Without(inFlight, nextSequence))
    BY <2>1, <2>2, <2>5
  <2> QED BY <1>0, <2>4, <2>5 DEF on_downlink
<1>2. CASE /\ commandQ' = commandQ /\ DOMAIN inFlight' \subseteq DOMAIN inFlight
           /\ \E r \in {0, 1} : Count(0, 0, r)
  <2>1. PICK r \in {0, 1} : Count(0, 0, r)
    BY <1>2
  <2>2. Lost' >= Lost /\ stats'.uplink = stats.uplink + 0
    BY <1>0, <2>1, CountUp
  <2>3. stats'.uplink = stats.uplink
    BY <2>2 DEF TypeOK, OutputOK
  <2>4. Orphans' \subseteq Orphans
    BY <1>0, <1>2, AwaitedParts DEF Orphans
  <2>5. LeakIsCounted'
    BY <1>0, <2>2, <2>4, NoOrphans
  <2>6. UplinksAccounted'
    BY <1>0, <2>2, <2>3, SameUplinks
  <2> QED BY <2>5, <2>6 DEF LossesCounted
<1>3. CASE /\ commandQ' = Append(commandQ, WifiCommand(nextSequence, d))
           /\ DOMAIN inFlight' = DOMAIN inFlight \cup {nextSequence}
           /\ stats' = stats
  <2>1. NamedBy(WifiCommand(nextSequence, d)) = {nextSequence}
    BY DEF NamedBy, WifiCommand, IsWifi
  <2>2. Named(commandQ) \subseteq Named(commandQ') /\ nextSequence \in Named(commandQ')
    BY <1>0, <1>3, <2>1, AppendNames
  <2>3. Orphans' \subseteq Orphans
    BY <1>0, <1>3, <2>2, AwaitedParts DEF Orphans
  <2>4. Lost' >= Lost
    <3>1. Lost' = Lost /\ Lost \in Nat
      BY <1>0, <1>3 DEF Lost, TypeOK, ChannelsOK, OutputOK
    <3> QED BY <3>1
  <2>5. LeakIsCounted'
    BY <1>0, <2>3, <2>4, NoOrphans
  <2>6. UplinksAccounted'
    BY <1>0, <1>3, <2>4, SameUplinks
  <2> QED BY <2>5, <2>6 DEF LossesCounted
<1> QED BY <1>1, <1>2, <1>3

(* The steps that leave what is awaited alone.                             *)
LEMMA QuietLosses ==
  ASSUME TypeOK, TypeOK', LossesCounted,
         \/ SessionUp \/ SessionEnd \/ MqttDeliver \/ BridgeLagged \/ LoraTake
         \/ \E kind \in DownlinkKinds, oversize \in BOOLEAN : MqttReceive(kind, oversize)
         \/ \E command \in {SerialCommand, RebootCommand} : SerialRead(command)
         \/ UNCHANGED vars
  PROVE  LossesCounted'
<1>0. /\ commandQ \in Seq(Commands) /\ LeakIsCounted
      /\ stats.dropped \in Nat /\ lagged \in Nat /\ stats.uplink \in Nat
  BY DEF TypeOK, ChannelsOK, OutputOK, LossesCounted
<1>1. UNCHANGED <<responseQ, rxSeq, received, inFlight>>
  BY DEF SessionUp, SessionEnd, MqttDeliver, BridgeLagged, LoraTake, MqttReceive, SerialRead, queues,
     history, vars
<1>2. Lost' >= Lost /\ stats'.uplink = stats.uplink
  <2>1. ASSUME stats' = stats, lagged' = lagged PROVE Lost' >= Lost /\ stats'.uplink = stats.uplink
    <3>1. Lost' = Lost /\ Lost \in Nat
      BY <1>0, <2>1 DEF Lost
    <3> QED BY <2>1, <3>1
  <2>2. ASSUME NEW kind \in DownlinkKinds, NEW oversize \in BOOLEAN, MqttReceive(kind, oversize)
        PROVE  Lost' >= Lost /\ stats'.uplink = stats.uplink
    <3>1. PICK r \in {0, 1} : Count(0, 0, r) /\ lagged' = lagged
      BY <2>2 DEF MqttReceive
    <3>2. Lost' >= Lost /\ stats'.uplink = stats.uplink + 0
      BY <3>1, CountUp
    <3> QED BY <3>2, <1>0
  <2>3. CASE BridgeLagged
    <3>1. lagged' = 0 /\ stats'.dropped = stats.dropped + lagged /\ stats'.uplink = stats.uplink + 0
      BY <2>3 DEF BridgeLagged, Count
    <3>2. (stats.dropped + lagged) + 0 = stats.dropped + lagged /\ stats.dropped + lagged \in Nat
          /\ stats.uplink + 0 = stats.uplink
      BY <1>0
    <3>3. Lost' = Lost /\ Lost \in Nat
      BY <3>1, <3>2 DEF Lost
    <3> QED BY <3>1, <3>2, <3>3
  <2> QED BY <2>1, <2>2, <2>3 DEF SessionUp, SessionEnd, MqttDeliver, LoraTake, SerialRead, queues,
             history, vars
<1>3. Named(commandQ) \cup NamedBy(serving) \subseteq Named(commandQ') \cup NamedBy(serving')
  <2>1. CASE LoraTake
    <3>1. /\ commandQ # <<>> /\ commandQ' = Tail(commandQ) /\ serving = Idle
          /\ Head(commandQ) = RebootCommand \/ serving' = Head(commandQ)
      BY <2>1 DEF LoraTake
    <3>2. NamedBy(RebootCommand) = {} /\ NamedBy(Idle) = {}
      BY Kinds DEF NamedBy
    <3>3. Named(commandQ) \subseteq Named(Tail(commandQ)) \cup NamedBy(Head(commandQ))
      BY <1>0, <3>1, TailNames
    <3> QED BY <3>1, <3>2, <3>3
  <2>2. ASSUME NEW command \in {SerialCommand, RebootCommand}, SerialRead(command)
        PROVE  Named(commandQ) \cup NamedBy(serving) \subseteq Named(commandQ') \cup NamedBy(serving')
    <3>1. commandQ' = Append(commandQ, command) /\ serving' = serving
      BY <2>2 DEF SerialRead
    <3>2. Named(commandQ) \subseteq Named(commandQ')
      BY <1>0, <3>1, AppendNames
    <3> QED BY <3>1, <3>2
  <2>3. CASE UNCHANGED <<commandQ, serving>>
    BY <2>3
  <2> QED BY <2>1, <2>2, <2>3 DEF SessionUp, SessionEnd, MqttDeliver, BridgeLagged, MqttReceive,
             queues, vars
<1>4. Orphans' \subseteq Orphans
  BY <1>1, <1>3, AwaitedParts DEF Orphans
<1>5. LeakIsCounted'
  BY <1>0, <1>2, <1>4, NoOrphans
<1>6. UplinksAccounted'
  BY <1>1, <1>2, SameUplinks
<1> QED BY <1>5, <1>6 DEF LossesCounted

(* An empty hub has lost nothing.                                          *)
LEMMA NothingLost ==
  ASSUME inFlight = <<>>, responseQ = <<>>, rxSeq = 0, received = 0, lagged = 0,
         stats.uplink = 0, stats.dropped = 0
  PROVE  LossesCounted
<1>1. DOMAIN inFlight \ AwaitedSeqs = {} /\ RxAt(responseQ) = {}
  BY DEF RxAt
<1>2. Cardinality(DOMAIN inFlight \ AwaitedSeqs) = 0 /\ Cardinality(RxAt(responseQ)) = 0
  BY <1>1, FS_EmptySet
<1> QED BY <1>2 DEF LossesCounted, LeakIsCounted, UplinksAccounted, RxAt

LEMMA ResetLosses == Reset => LossesCounted'
<1> SUFFICES ASSUME Reset PROVE LossesCounted'
  OBVIOUS
<1>1. /\ inFlight' = <<>> /\ responseQ' = <<>> /\ rxSeq' = 0 /\ received' = 0 /\ lagged' = 0
      /\ stats'.uplink = 0 /\ stats'.dropped = 0
  BY DEF Reset
<1>2. DOMAIN inFlight' \ AwaitedSeqs' = {} /\ RxAt(responseQ') = {}
  BY <1>1 DEF RxAt
<1>3. Cardinality(DOMAIN inFlight' \ AwaitedSeqs') = 0 /\ Cardinality(RxAt(responseQ')) = 0
  BY <1>2, FS_EmptySet
<1> QED BY <1>1, <1>3 DEF LossesCounted, LeakIsCounted, UplinksAccounted, RxAt

(* Whatever bridge mode loses shows up in the statistics: the entries that *)
(* no response will consume, and the packets that were received and not    *)
(* queued for the broker, are covered by dropped_count and the lag that is *)
(* still to be counted, also when sequence ids are reused.                 *)
THEOREM Losses_Counted == Spec => []LossesCounted
<1>1. Init => TypeOK /\ LossesCounted
  <2> SUFFICES ASSUME Init PROVE LossesCounted
    BY TypeInit
  <2> QED BY NothingLost DEF Init
<1>2. TypeOK /\ LossesCounted /\ [Next]_vars => (TypeOK /\ LossesCounted)'
  <2> SUFFICES ASSUME TypeOK, LossesCounted, [Next]_vars PROVE LossesCounted' /\ TypeOK'
    OBVIOUS
  <2>1. TypeOK'
    BY TypeStep
  <2>2. CASE \/ SessionUp \/ SessionEnd \/ MqttDeliver \/ BridgeLagged \/ LoraTake
             \/ \E kind \in DownlinkKinds, oversize \in BOOLEAN : MqttReceive(kind, oversize)
             \/ \E command \in {SerialCommand, RebootCommand} : SerialRead(command)
             \/ UNCHANGED vars
    BY <2>1, <2>2, QuietLosses
  <2>3. CASE \/ \E n \in Bursts : SerialParseErrors(n)
             \/ LoraReceive
             \/ LoraAnswerSerial
             \/ \E response \in TxResponses, emitted \in BOOLEAN :
                  LoraAnswerDownlink(response, emitted)
    BY <2>1, <2>3, PublisherLosses
  <2>4. CASE Reset
    BY <2>1, <2>4, ResetLosses
  <2>5. CASE BridgeResponse
    BY <2>1, <2>5, ReadLosses
  <2>6. CASE BridgeDownlink
    BY <2>1, <2>6, DownlinkLosses
  <2> QED BY <2>1, <2>2, <2>3, <2>4, <2>5, <2>6 DEF Next
<1> QED BY <1>1, <1>2, PTL DEF Spec
===============================================================================
