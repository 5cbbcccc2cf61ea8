-------------------------------- MODULE Upstream --------------------------------
(***************************************************************************)
(* The gateway's link to its network server: gateway_udp_task around       *)
(* GatewayForwarder, speaking the Semtech UDP protocol over a network that *)
(* loses, duplicates and reorders datagrams.                               *)
(*                                                                         *)
(* A datagram is a record of what its bytes say; a txpk is its JSON before *)
(* parse_txpk.  Whether a downlink is in time (classify) and inside the    *)
(* duty cycle (try_claim) is a free choice here: GatewayScheduler and      *)
(* GatewayDuty model the two decisions.  The network server is external:   *)
(* it acknowledges what it receives and sends one PULL_RESP per downlink,  *)
(* with the number of the downlink as token.  A datagram in flight may     *)
(* stay there for ever: that is a lost one.                                *)
(***************************************************************************)
EXTENDS Airtime, Sequences, FiniteSets, Functions

CONSTANTS
  PullInterval,   \* PULL_DATA_INTERVAL_SECS (10)
  StatInterval,   \* STAT_INTERVAL_SECS (30)
  MaxPower,       \* MAX_TX_POWER_DBM (22)
  DownlinkCap,    \* capacity of GW_DOWNLINK_CHANNEL (2)
  TokenMod,       \* tokens wrap at this value (2^16)
  Seed,           \* the token of a fresh forwarder, from the MAC
  Txpks,          \* downlink requests the server sends
  MaxDownlinks,   \* bound: PULL_RESPs of the server
  MaxUplinks,     \* bound: packets from the radio task
  MaxTicks,       \* bound: ticks of the one-second timer
  MaxFaults       \* bound: failures, duplicated datagrams and resets

ASSUME UpstreamAssumption ==
  /\ PullInterval \in Nat \ {0} /\ StatInterval \in Nat \ {0}
  /\ MaxPower \in Int /\ DownlinkCap \in Nat \ {0}
  /\ TokenMod \in Nat \ {0} /\ Seed \in 0 .. TokenMod - 1
  /\ MaxDownlinks \in Nat /\ MaxUplinks \in Nat /\ MaxTicks \in Nat /\ MaxFaults \in Nat

VARIABLES
  task,       \* what gateway_udp_task is doing
  forwarder,  \* GatewayForwarder: token and StatCounters
  elapsed,    \* pull_elapsed and stat_elapsed
  downlinkQ,  \* GW_DOWNLINK_CHANNEL
  dropped,    \* HUB_STATS.dropped
  toServer,   \* datagrams on their way to the server
  toGateway,  \* datagrams on their way to the gateway
  boot,       \* history: resets so far
  faults,     \* history: faults so far
  ticks,      \* history: ticks so far
  quiet,      \* history: ticks since the task began to serve or sent PULL_DATA
  uplinks,    \* history: packets from the radio task
  sent,       \* history: downlinks the server has sent
  surplus,    \* history: PUSH_ACKs beyond one for each PUSH_DATA of this boot
  accepted,   \* history: jobs queued for each downlink since the last reset
  answered,   \* history: TX_ACKs sent for each downlink, confirming and refusing
  unusable    \* history: PULL_RESPs of this boot that parse_txpk refused

history == <<boot, faults, ticks, quiet, uplinks, sent, surplus, accepted, answered,
             unusable>>
vars == <<task, forwarder, elapsed, downlinkQ, dropped, toServer, toGateway, history>>

Downlinks == 1 .. MaxDownlinks
Fault == faults < MaxFaults /\ faults' = faults + 1

Absent == -1
TxAckError == {"NONE", "TOO_LATE", "TOO_EARLY", "COLLISION_PACKET", "TX_FREQ",
               "DUTY_CYCLE_OVERFLOW"}

-----------------------------------------------------------------------------
(* parse_txpk: the fields of a downlink request, checked and completed.    *)
(* The length of a data field that base64 cannot decode into 256 bytes is  *)
(* Absent.                                                                 *)

parse_datr(datr) == datr.sf \in 5 .. 12

Usable(txpk) == txpk.modu = "LORA" /\ parse_datr(txpk.datr) /\ txpk.len > 0

(* Requests with a length, a preamble and a bandwidth whose symbols last a *)
(* whole number of microseconds, as those of LoRaWAN do.                   *)
ExactRequests ==
  \A txpk \in {x \in Txpks : Usable(x)} :
    txpk.len \in Nat /\ txpk.prea \in Nat \cup {Absent} /\ WholeMicroseconds(txpk.datr.bw)

OrElse(value, default) == IF value = Absent THEN default ELSE value

parse_txpk(txpk) ==
  [freq_hz          |-> txpk.freq,
   power_dbm        |-> OrElse(txpk.powe, 14),
   spreading_factor |-> txpk.datr.sf,
   bandwidth_khz    |-> txpk.datr.bw,
   coding_rate      |-> IF txpk.codr \in 5 .. 8 THEN txpk.codr ELSE 5,
   iq_inverted      |-> txpk.ipol,
   preamble         |-> OrElse(txpk.prea, 8),
   len              |-> txpk.len]

-----------------------------------------------------------------------------
(* The acceptance policy.                                                  *)

InBand(freq) == freq >= 863000000 /\ freq <= 870000000

(* The errors accept() may answer with.                                    *)
Refusals(p) ==
  IF ~InBand(p.freq_hz) THEN {"TX_FREQ"} ELSE {"TOO_LATE", "TOO_EARLY", "DUTY_CYCLE_OVERFLOW"}

(* A claim for the firmware's default packet: 8 preamble symbols.          *)
ClaimDefault(p) == time_on_air_ms(p.spreading_factor, p.bandwidth_khz, p.coding_rate, p.len)

Claim(p) ==
  time_on_air_ms_ext(p.spreading_factor, p.bandwidth_khz, p.coding_rate, p.len, p.preamble,
                     FALSE)

(* The job of an accepted downlink; claim is what the limiter was charged. *)
DownlinkJob(token, p) ==
  [token  |-> token,
   claim  |-> Claim(p),
   len    |-> p.len,
   config |-> [frequency_hz     |-> p.freq_hz,
               spreading_factor |-> p.spreading_factor,
               bandwidth_khz    |-> p.bandwidth_khz,
               coding_rate      |-> p.coding_rate,
               tx_power_dbm     |-> IF p.power_dbm > MaxPower THEN MaxPower ELSE p.power_dbm,
               iq_inverted      |-> p.iq_inverted,
               crc_on           |-> FALSE,
               preamble_len     |-> p.preamble]]

-----------------------------------------------------------------------------
(* GatewayForwarder's datagrams.  boot tells the datagrams of two boots    *)
(* apart for the properties; the bytes do not.                             *)

next_token == (forwarder.token + 1) % TokenMod

Datagram(id, token) == [id |-> id, token |-> token, boot |-> boot]

(* on_uplink: one PUSH_DATA per received packet.                           *)
on_uplink ==
  /\ forwarder' = [forwarder EXCEPT !.token = next_token, !.rxfw = @ + 1, !.push_sent = @ + 1]
  /\ toServer' = toServer \cup {Datagram("PUSH_DATA", next_token)}

(* The tick's datagrams: on_keepalive, then on_stat, each with a token.    *)
on_tick(pull, stat) ==
  LET pulled == IF pull THEN 1 ELSE 0
      tokens == [k \in 1 .. 2 |-> (forwarder.token + k) % TokenMod]
  IN  /\ forwarder' = [forwarder EXCEPT
                         !.token = (@ + pulled + (IF stat THEN 1 ELSE 0)) % TokenMod,
                         !.push_sent = IF stat THEN @ + 1 ELSE @]
      /\ toServer' = toServer
           \cup (IF pull THEN {Datagram("PULL_DATA", tokens[1])} ELSE {})
           \cup (IF stat THEN {Datagram("PUSH_DATA", tokens[1 + pulled])} ELSE {})

-----------------------------------------------------------------------------
(* gateway_udp_task.                                                       *)

StartVars == <<forwarder, elapsed, downlinkQ, dropped, toServer, toGateway, boot, ticks,
               quiet, uplinks, sent, surplus, accepted, answered, unusable>>

(* wait_config_up, then resolve_host until it succeeds, then bind; a task  *)
(* that cannot bind its port returns.                                      *)
Resolve ==
  /\ \/ task = "waitConfig" /\ task' = "resolve" /\ UNCHANGED faults
     \/ task = "resolve" /\ task' = "bind" /\ UNCHANGED faults
     \/ task = "resolve" /\ task' = "backoff" /\ Fault
     \/ task = "backoff" /\ task' = "resolve" /\ UNCHANGED faults
     \/ task = "bind" /\ task' = "serving" /\ UNCHANGED faults
     \/ task = "bind" /\ task' = "ended" /\ Fault
  /\ UNCHANGED StartVars

CountAck(d) == d.id = "PUSH_ACK"

(* on_datagram for the acknowledgements and for bytes that parse_datagram  *)
(* does not take: no answer, and PUSH_ACK is counted.                      *)
OnAck(d) ==
  /\ d.id # "PULL_RESP"
  /\ forwarder' = IF CountAck(d) THEN [forwarder EXCEPT !.push_acked = @ + 1] ELSE forwarder
  /\ UNCHANGED <<downlinkQ, dropped, accepted, answered, unusable>>

(* build_tx_ack: the answer carries the token of the PULL_RESP.            *)
Reply(d, error) ==
  LET verdict == IF error = "NONE" THEN "confirmed" ELSE "refused"
  IN  answered' = [answered EXCEPT ![d.token][verdict] = @ + 1]

(* A TX_ACK that confirms before it knows whether there is room.           *)
QueueBlindly(d, job) ==
  /\ downlinkQ' = IF Len(downlinkQ) < DownlinkCap THEN Append(downlinkQ, job) ELSE downlinkQ
  /\ accepted' = IF Len(downlinkQ) < DownlinkCap THEN [accepted EXCEPT ![d.token] = @ + 1]
                 ELSE accepted
  /\ dropped' = dropped
  /\ forwarder' = [forwarder EXCEPT !.dwnb = @ + 1, !.txnb = @ + 1]
  /\ Reply(d, "NONE")

(* try_send of the job, then tx_ack: NONE when it is queued and            *)
(* COLLISION_PACKET when the channel is full.                              *)
Queue(d, job) ==
  IF Len(downlinkQ) < DownlinkCap
  THEN /\ downlinkQ' = Append(downlinkQ, job)
       /\ accepted' = [accepted EXCEPT ![d.token] = @ + 1]
       /\ forwarder' = [forwarder EXCEPT !.dwnb = @ + 1, !.txnb = @ + 1]
       /\ Reply(d, "NONE")
       /\ UNCHANGED dropped
  ELSE /\ dropped' = dropped + 1
       /\ forwarder' = [forwarder EXCEPT !.dwnb = @ + 1]
       /\ Reply(d, "COLLISION_PACKET")
       /\ UNCHANGED <<downlinkQ, accepted>>

(* on_datagram for a PULL_RESP.                                            *)
OnPullResp(d) ==
  /\ d.id = "PULL_RESP"
  /\ \/ /\ ~Usable(d.txpk)
        /\ forwarder' = [forwarder EXCEPT !.dwnb = @ + 1]
        /\ unusable' = unusable + 1
        /\ UNCHANGED <<downlinkQ, dropped, accepted, answered>>
     \/ /\ Usable(d.txpk)
        /\ \E error \in Refusals(parse_txpk(d.txpk)) : Reply(d, error)
        /\ forwarder' = [forwarder EXCEPT !.dwnb = @ + 1]
        /\ UNCHANGED <<downlinkQ, dropped, accepted, unusable>>
     \/ /\ Usable(d.txpk) /\ InBand(d.txpk.freq)
        /\ Queue(d, DownlinkJob(d.token, parse_txpk(d.txpk)))
        /\ UNCHANGED unusable

(* A datagram arrives at the bound socket; a duplicated one arrives again. *)
Recv(d) ==
  /\ task = "serving"
  /\ OnAck(d) \/ OnPullResp(d)
  /\ UNCHANGED toServer
  /\ \/ toGateway' = toGateway \ {d} /\ UNCHANGED faults
     \/ Fault /\ UNCHANGED toGateway
  /\ surplus' = IF d.id = "PUSH_ACK" /\ (d.boot # boot \/ toGateway' = toGateway)
                THEN surplus + 1 ELSE surplus
  /\ UNCHANGED <<task, elapsed, boot, ticks, quiet, uplinks, sent>>

Uplink ==
  /\ task = "serving" /\ uplinks < MaxUplinks
  /\ on_uplink
  /\ uplinks' = uplinks + 1
  /\ UNCHANGED <<task, elapsed, downlinkQ, dropped, toGateway, boot, faults, ticks, quiet,
                 sent, surplus, accepted, answered, unusable>>

Due(seconds, interval) == seconds >= interval

(* The one-second tick.                                                    *)
Tick ==
  LET pull == Due(elapsed.pull + 1, PullInterval)
      stat == Due(elapsed.stat + 1, StatInterval)
  IN  /\ task = "serving" /\ ticks < MaxTicks
      /\ elapsed' = [pull |-> IF pull THEN 0 ELSE elapsed.pull + 1,
                     stat |-> IF stat THEN 0 ELSE elapsed.stat + 1]
      /\ on_tick(pull, stat)
      /\ ticks' = ticks + 1
      /\ quiet' = IF pull THEN 0 ELSE quiet + 1
      /\ UNCHANGED <<task, downlinkQ, dropped, toGateway, boot, faults, uplinks, sent,
                     surplus, accepted, answered, unusable>>

(* The radio task takes the next job.                                      *)
RadioTakes ==
  /\ downlinkQ # <<>>
  /\ downlinkQ' = Tail(downlinkQ)
  /\ UNCHANGED <<task, forwarder, elapsed, dropped, toServer, toGateway, history>>

(* The hub resets: everything in RAM is lost, the datagrams in flight are  *)
(* not.                                                                    *)
NoJobs == [t \in Downlinks |-> 0]
NoAnswers == [t \in Downlinks |-> [confirmed |-> 0, refused |-> 0]]

InitHub ==
  [task |-> "waitConfig",
   forwarder |-> [token |-> Seed, rxfw |-> 0, push_acked |-> 0, push_sent |-> 0, dwnb |-> 0,
                  txnb |-> 0],
   elapsed |-> [pull |-> PullInterval, stat |-> 0]]

Reset ==
  /\ task = "serving" /\ Fault
  /\ boot' = boot + 1
  /\ task' = InitHub.task /\ forwarder' = InitHub.forwarder /\ elapsed' = InitHub.elapsed
  /\ downlinkQ' = <<>> /\ dropped' = 0
  /\ quiet' = 0 /\ surplus' = 0 /\ unusable' = 0
  /\ accepted' = NoJobs /\ answered' = NoAnswers
  /\ UNCHANGED <<toServer, toGateway, ticks, uplinks, sent>>

-----------------------------------------------------------------------------
(* The network and the server.                                             *)

NetVars == <<task, forwarder, elapsed, downlinkQ, dropped, boot, ticks, quiet, uplinks,
             surplus, accepted, answered, unusable>>

(* A datagram reaches the server, which acknowledges PUSH_DATA and         *)
(* PULL_DATA with the datagram's token.                                    *)
ServerRecv(d) ==
  /\ toServer' = toServer \ {d}
  /\ toGateway' = toGateway \cup
       {[d EXCEPT !.id = IF @ = "PUSH_DATA" THEN "PUSH_ACK" ELSE "PULL_ACK"]}
  /\ UNCHANGED <<NetVars, faults, sent>>

ServerSend(txpk) ==
  /\ sent < MaxDownlinks
  /\ sent' = sent + 1
  /\ toGateway' = toGateway \cup
       {[id |-> "PULL_RESP", token |-> sent + 1, boot |-> boot, txpk |-> txpk]}
  /\ UNCHANGED <<NetVars, faults, toServer>>

Init ==
  /\ task \in {InitHub.task, "pending"}
  /\ forwarder = InitHub.forwarder /\ elapsed = InitHub.elapsed
  /\ downlinkQ = <<>> /\ dropped = 0
  /\ toServer = {} /\ toGateway = {}
  /\ boot = 0 /\ faults = 0 /\ ticks = 0 /\ quiet = 0 /\ uplinks = 0 /\ sent = 0
  /\ surplus = 0 /\ accepted = NoJobs /\ answered = NoAnswers /\ unusable = 0

Next ==
  \/ Resolve \/ Uplink \/ Tick \/ RadioTakes \/ Reset
  \/ \E d \in toGateway : Recv(d)
  \/ \E d \in toServer : ServerRecv(d)
  \/ \E txpk \in Txpks : ServerSend(txpk)

Spec == Init /\ [][Next]_vars

-----------------------------------------------------------------------------
TypeOK ==
  /\ task \in {"pending", "waitConfig", "resolve", "backoff", "bind", "serving", "ended"}
  /\ forwarder.token \in 0 .. TokenMod - 1
  /\ \A c \in {"rxfw", "push_acked", "push_sent", "dwnb", "txnb"} : forwarder[c] \in Nat
  /\ elapsed \in [pull : Nat, stat : Nat]
  /\ Len(downlinkQ) <= DownlinkCap
  /\ dropped \in Nat

Total(f) == SumFunctionOnSet(f, Downlinks)

(* What the TX_ACKs say is what happened: for every PULL_RESP token, as    *)
(* many NONEs were sent as jobs were queued, and every PULL_RESP counted   *)
(* was answered once or was unusable, however datagrams are duplicated,    *)
(* reordered and refused.                                                  *)
AcksMatchJobs ==
  /\ \A t \in Downlinks : answered[t].confirmed = accepted[t]
  /\ forwarder.txnb = Total(accepted)
  /\ forwarder.dwnb = Total([t \in Downlinks |-> answered[t].confirmed + answered[t].refused])
                        + unusable

(* The acknowledgement ratio of the stat report exceeds 100 % only by      *)
(* acknowledgements that were duplicated, or that answer a datagram of an  *)
(* earlier boot: nothing else is counted as one.                           *)
AcksEarned == forwarder.push_acked <= forwarder.push_sent + surplus

(* Every job the radio is given was charged at least the time the SX1262   *)
(* is on the air with the job's configuration.                             *)
ClaimCovers ==
  \A k \in DOMAIN downlinkQ :
    1000 * downlinkQ[k].claim >= OnAirUs(downlinkQ[k].config, downlinkQ[k].len)

(* While it serves, the gateway never lets more than PULL_DATA_INTERVAL    *)
(* seconds pass without a PULL_DATA, through resets and whatever else it   *)
(* sends.                                                                  *)
HoldsPinhole == quiet < PullInterval

(* What the forwarder keeps and reports agrees with what it received and   *)
(* did, through duplicated, lost and late datagrams and resets.            *)
UpstreamInv ==
  /\ TypeOK
  /\ AcksMatchJobs
  /\ AcksEarned
  /\ HoldsPinhole

=============================================================================
