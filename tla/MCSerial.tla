-------------------------------- MODULE MCSerial --------------------------------
(* Small strings and a small packet: a Version fills a packet exactly.      *)
EXTENDS Serial

Gateway(port) ==
  [frequency_hz |-> 868100000, spreading_factor |-> 7, bandwidth_khz |-> 125,
   coding_rate |-> 5, port |-> port, host |-> << 104, 111 >>]
Wifi == [ssid |-> << 65 >>, password |-> << 66, 67 >>]
Mqtt(name) == [port |-> 1883, host |-> name, client_id |-> <<>>]

MCCommands ==
  { GetVersion, Reboot, Command("GetNetworkConfig", <<>>), Raw(36, << 0, 170 >>) }
MCNetworkConfig ==
  [mode |-> 1, wifi_ssid |-> << 65 >>, mqtt |-> Mqtt(<< 104 >>), gateway |-> Gateway(1700)]
MCHubStatus ==
  [wifi_state |-> 2, ip |-> << 192, 168, 1, 42 >>, mqtt_state |-> 1, uplink_count |-> 17,
   downlink_count |-> 3, dropped_count |-> 1, uptime_secs |-> 3600]

(* The round trips and refusals of codec.rs, over every short string.       *)
Strings == UNION {[1..n -> {65, 200}] : n \in 0..3}
Texts(cap) == {s \in Strings : Len(s) <= cap /\ \A i \in DOMAIN s : s[i] < 128}
ASSUME CommandsRoundTrip ==
  /\ \A ssid \in Texts(MAX_SSID_LEN), password \in Texts(MAX_PASSWORD_LEN) :
       LET c == Command("SetWifiConfig", [ssid |-> ssid, password |-> password])
       IN  parse_command(encode_command(c)) = Parsed(c)
  /\ \A name \in Texts(MAX_HOST_LEN), id \in Texts(MAX_CLIENT_ID_LEN), port \in {0, 255, 256, 65535} :
       LET c == Command("SetMqttConfig", [port |-> port, host |-> name, client_id |-> id])
       IN  parse_command(encode_command(c)) = Parsed(c)
  /\ LET c == Command("SetGatewayConfig", Gateway(1700))
     IN  parse_command(encode_command(c)) = Parsed(c)
  /\ \A mode \in HubMode :
       parse_command(encode_command(Command("SetMode", mode))) = Parsed(Command("SetMode", mode))
ASSUME ResponsesRoundTrip ==
  \A r \in {Command("HubStatus", MCHubStatus)} \cup {Command("ConfigAck", s) : s \in AckStatus} :
    parse_response(encode_response(r)) = Parsed(r)
ASSUME Refusals ==
  /\ \A s \in Strings : (\E i \in DOMAIN s : s[i] > 127) \/ Len(s) > MAX_SSID_LEN =>
       parse_command(build_raw(32, push_string(s) \o push_string(<<>>))).status = "InvalidLength"
  /\ parse_command(build_raw(36, << 9 >>)).status = "InvalidParameter"
  /\ parse_command(wt_frame(GetVersion)).status = "InvalidCommand"
  /\ parse_command([encode_command(Command("GetHubStatus", <<>>)) EXCEPT !.crc = FALSE]).status
       = "CrcError"

=============================================================================
