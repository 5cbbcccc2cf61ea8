-------------------------------- MODULE HubCodec --------------------------------
(***************************************************************************)
(* The hub-protocol crate: how the host's commands and the hub's answers   *)
(* are laid out in a frame, and how each side reads what the other wrote.  *)
(*                                                                         *)
(* The payload is modelled byte by byte, because the length prefixes, the  *)
(* widths and the order of the fields are what the two sides must agree    *)
(* on.  The checksum is perfect: a frame either carries the right one or   *)
(* it does not.  COBS framing (the corncobs crate) is not spelled out: it  *)
(* adds one byte and the delimiter to a frame shorter than 255 bytes.      *)
(* Strings are sequences of bytes; a byte above 127 stands for text that   *)
(* is not UTF-8.                                                           *)
(***************************************************************************)
EXTENDS Integers, Sequences
Seqs == INSTANCE SequencesExt

CONSTANTS
  MAX_SSID_LEN, MAX_PASSWORD_LEN,    \* 32 and 64
  MAX_HOST_LEN, MAX_CLIENT_ID_LEN    \* 64 and 32

ASSUME CodecAssumption ==
  {MAX_SSID_LEN, MAX_PASSWORD_LEN, MAX_HOST_LEN, MAX_CLIENT_ID_LEN} \subseteq 0..255

PROTOCOL_VERSION == 1

(* HubCommandId and HubResponseId, with their bytes.                       *)
HubCommandId ==
  [SetWifiConfig |-> 32, SetMqttConfig |-> 33, GetNetworkConfig |-> 34, GetHubStatus |-> 35,
   SetMode |-> 36, ClearNetworkConfig |-> 37, SetGatewayConfig |-> 38]
HubResponseId == [NetworkConfig |-> 32, HubStatus |-> 33, ConfigAck |-> 34]

(* The enumerations that travel as one byte: a value is its byte.          *)
HubMode == 0..1
LinkState == 0..3
AckStatus == 0..2

-----------------------------------------------------------------------------
(* Frames.                                                                 *)

build_raw(id, payload) ==
  [version |-> PROTOCOL_VERSION, id |-> id, length |-> Len(payload), payload |-> payload,
   crc |-> TRUE]

(* How many bytes a frame takes on the wire.                               *)
cobs_len(frame) == Len(frame.payload) + 6 + 2

(* What parse_raw objects to, in its order; "None" when the frame is good. *)
parse_raw(frame) ==
  IF frame.version # PROTOCOL_VERSION THEN "InvalidVersion"
  ELSE IF Len(frame.payload) < frame.length THEN "TooShort"
  ELSE IF ~frame.crc THEN "CrcError" ELSE "None"

Le(n, width) == [i \in 1..width |-> (n \div 256 ^ (i - 1)) % 256]
FromLe(bytes) ==
  Seqs!FoldLeft(LAMBDA n, i : n + bytes[i] * 256 ^ (i - 1), 0, [i \in DOMAIN bytes |-> i])
push_string(s) == << Len(s) % 256 >> \o s

-----------------------------------------------------------------------------
(* PayloadReader: the bytes, how many of them are read, the fields they    *)
(* made up, and the first error.                                           *)

NewReader(data) == [data |-> data, pos |-> 0, fields |-> <<>>, err |-> "None"]
Fails(r, err) == [r EXCEPT !.err = err]
take(r, n) ==
  IF r.pos + n > Len(r.data) THEN Fails(r, "TooShort")
  ELSE [r EXCEPT !.pos = @ + n, !.fields = Append(@, SubSeq(r.data, r.pos + 1, r.pos + n))]

(* The field that was read last is turned into a value.                    *)
Value(r, Convert(_)) ==
  IF r.err # "None" THEN r ELSE [r EXCEPT !.fields[Len(r.fields)] = Convert(@)]
uint(r, width) == Value(take(r, width), FromLe)

(* from_byte: only the bytes of the enumeration.                           *)
OneOf(r, values) ==
  LET read == uint(r, 1)
  IN  IF read.err = "None" /\ Seqs!Last(read.fields) \notin values
      THEN Fails(read, "BadPayload") ELSE read

(* A string is as long as its prefix says, at most cap, and UTF-8.         *)
string(r, cap) ==
  LET prefix == uint(r, 1)
      len == Seqs!Last(prefix.fields)
      text == take([prefix EXCEPT !.fields = Seqs!Front(@)], len)
  IN  IF prefix.err # "None" THEN prefix
      ELSE IF len > cap THEN Fails(prefix, "BadPayload")
      ELSE IF text.err # "None" THEN text
      ELSE IF \E i \in DOMAIN Seqs!Last(text.fields) : Seqs!Last(text.fields)[i] > 127
      THEN Fails(text, "BadPayload")
      ELSE text

(* One field of a layout.                                                  *)
U(width) == [kind |-> "uint", arg |-> width]
Str(cap) == [kind |-> "string", arg |-> cap]
Enum(values) == [kind |-> "enum", arg |-> values]
Bytes(n) == [kind |-> "bytes", arg |-> n]
ReadField(r, field) ==
  IF r.err # "None" THEN r
  ELSE CASE field.kind = "uint" -> uint(r, field.arg)
         [] field.kind = "string" -> string(r, field.arg)
         [] field.kind = "enum" -> OneOf(r, field.arg)
         [] field.kind = "bytes" -> take(r, field.arg)

(* Every field of the layout, and nothing after the last one.              *)
Read(data, layout) ==
  LET r == Seqs!FoldLeft(ReadField, NewReader(data), layout)
  IN  IF r.err = "None" /\ r.pos # Len(data) THEN Fails(r, "BadPayload") ELSE r

-----------------------------------------------------------------------------
(* Commands, and what each side makes of them.                             *)

GatewayLayout == << U(4), U(1), U(4), U(1), U(2), Str(MAX_HOST_LEN) >>
GatewayValue(f) ==
  [frequency_hz |-> f[1], spreading_factor |-> f[2], bandwidth_khz |-> f[3],
   coding_rate |-> f[4], port |-> f[5], host |-> f[6]]
encode_gateway_fields(gw) ==
  Le(gw.frequency_hz, 4) \o << gw.spreading_factor >> \o Le(gw.bandwidth_khz, 4)
    \o << gw.coding_rate >> \o Le(gw.port, 2) \o push_string(gw.host)

Command(id, value) == [id |-> id, value |-> value]

CommandPayload(command) ==
  LET v == command.value
  IN  CASE command.id = "SetWifiConfig" -> push_string(v.ssid) \o push_string(v.password)
        [] command.id = "SetMqttConfig" ->
             Le(v.port, 2) \o push_string(v.host) \o push_string(v.client_id)
        [] command.id = "SetMode" -> << v >>
        [] command.id = "SetGatewayConfig" -> encode_gateway_fields(v)
        [] OTHER -> <<>>
encode_command(command) == build_raw(HubCommandId[command.id], CommandPayload(command))

CommandLayout(id) ==
  CASE id = "SetWifiConfig" -> << Str(MAX_SSID_LEN), Str(MAX_PASSWORD_LEN) >>
    [] id = "SetMqttConfig" -> << U(2), Str(MAX_HOST_LEN), Str(MAX_CLIENT_ID_LEN) >>
    [] id = "SetMode" -> << Enum(HubMode) >>
    [] id = "SetGatewayConfig" -> GatewayLayout
    [] OTHER -> <<>>
CommandValue(id, f) ==
  CASE id = "SetWifiConfig" -> [ssid |-> f[1], password |-> f[2]]
    [] id = "SetMqttConfig" -> [port |-> f[1], host |-> f[2], client_id |-> f[3]]
    [] id = "SetMode" -> f[1]
    [] id = "SetGatewayConfig" -> GatewayValue(f)
    [] OTHER -> <<>>

(* parse_command: the ResponseStatus of the first thing that is wrong, or  *)
(* the command.                                                            *)
Refused(status) == [status |-> status]
Parsed(command) == [status |-> "Success", command |-> command]
parse_command(frame) ==
  LET raw == parse_raw(frame)
      id == CHOOSE c \in DOMAIN HubCommandId : HubCommandId[c] = frame.id
      r == Read(SubSeq(frame.payload, 1, frame.length), CommandLayout(id))
  IN  IF raw \in {"InvalidVersion", "CrcError"} THEN Refused(raw)
      ELSE IF raw = "TooShort" THEN Refused("InvalidLength")
      ELSE IF frame.id \notin {HubCommandId[c] : c \in DOMAIN HubCommandId}
      THEN Refused("InvalidCommand")
      ELSE IF id = "SetMode" /\ r.err = "BadPayload" /\ frame.payload[1] \notin HubMode
      THEN Refused("InvalidParameter")
      ELSE IF r.err # "None" THEN Refused("InvalidLength")
      ELSE Parsed(Command(id, CommandValue(id, r.fields)))

-----------------------------------------------------------------------------
(* Answers, and what each side makes of them.                              *)

ResponsePayload(response) ==
  LET v == response.value
  IN  CASE response.id = "NetworkConfig" ->
             << v.mode >> \o Le(v.mqtt.port, 2) \o Le(v.gateway.frequency_hz, 4)
               \o << v.gateway.spreading_factor >> \o Le(v.gateway.bandwidth_khz, 4)
               \o << v.gateway.coding_rate >> \o Le(v.gateway.port, 2)
               \o push_string(v.wifi_ssid) \o push_string(v.mqtt.host)
               \o push_string(v.mqtt.client_id) \o push_string(v.gateway.host)
        [] response.id = "HubStatus" ->
             << v.wifi_state >> \o v.ip \o << v.mqtt_state >> \o Le(v.uplink_count, 4)
               \o Le(v.downlink_count, 4) \o Le(v.dropped_count, 4) \o Le(v.uptime_secs, 4)
        [] response.id = "ConfigAck" -> << v >>
encode_response(response) == build_raw(HubResponseId[response.id], ResponsePayload(response))

(* The coding rate is read before the bandwidth.                           *)
GatewayPrefixSwapped == << U(4), U(1), U(1), U(4), U(2) >>

(* The fixed-width gateway fields of NetworkConfig come before its strings *)
(* (parse_gateway_prefix).                                                 *)
parse_gateway_prefix == << U(4), U(1), U(4), U(1), U(2) >>
ResponseLayout(id) ==
  CASE id = "NetworkConfig" ->
         << Enum(HubMode), U(2) >> \o parse_gateway_prefix
           \o << Str(MAX_SSID_LEN), Str(MAX_HOST_LEN), Str(MAX_CLIENT_ID_LEN), Str(MAX_HOST_LEN) >>
    [] id = "HubStatus" ->
         << Enum(LinkState), Bytes(4), Enum(LinkState), U(4), U(4), U(4), U(4) >>
    [] id = "ConfigAck" -> << Enum(AckStatus) >>
ResponseValue(id, f) ==
  CASE id = "NetworkConfig" ->
         [mode |-> f[1], wifi_ssid |-> f[8],
          mqtt |-> [port |-> f[2], host |-> f[9], client_id |-> f[10]],
          gateway |-> GatewayValue(SubSeq(f, 3, 7) \o << f[11] >>)]
    [] id = "HubStatus" ->
         [wifi_state |-> f[1], ip |-> f[2], mqtt_state |-> f[3], uplink_count |-> f[4],
          downlink_count |-> f[5], dropped_count |-> f[6], uptime_secs |-> f[7]]
    [] id = "ConfigAck" -> f[1]

parse_response(frame) ==
  LET raw == parse_raw(frame)
      id == CHOOSE c \in DOMAIN HubResponseId : HubResponseId[c] = frame.id
      r == Read(SubSeq(frame.payload, 1, frame.length), ResponseLayout(id))
  IN  IF raw # "None" THEN Refused(raw)
      ELSE IF frame.id \notin {HubResponseId[c] : c \in DOMAIN HubResponseId}
      THEN Refused("UnknownId")
      ELSE IF r.err # "None" THEN Refused(r.err)
      ELSE Parsed(Command(id, ResponseValue(id, r.fields)))

=============================================================================
