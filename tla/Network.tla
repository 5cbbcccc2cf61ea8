--------------------------------- MODULE Network --------------------------------
(***************************************************************************)
(* The hub's way to its broker: the WiFi task with its station supervisor  *)
(* and the provisioning access point it falls back to, the task that       *)
(* mirrors the DHCP address, and the MQTT task that opens a session, keeps *)
(* the retained status truthful through its will, and takes publications   *)
(* from MQTT_OUT.                                                          *)
(*                                                                         *)
(* The radio network, TCP and the broker are external: a connection is a   *)
(* number, the packets of a connection arrive in order or not at all, and  *)
(* the broker keeps one session per client id with its will.  Everything   *)
(* that goes wrong without a cause in the model (a refused start, a        *)
(* dropped association, a reset connection) spends one of MaxFaults.       *)
(***************************************************************************)
EXTENDS Integers, Sequences

CONSTANTS
  MaxStaFailures,  \* MAX_STA_FAILURES (10)
  MaxSecs,         \* MAX_SECS of the back-off (60)
  OutCap,          \* capacity of MQTT_OUT_CHANNEL (8)
  Addresses,       \* addresses DHCP hands out
  MaxFaults,       \* bound: faults of the environment
  MaxOut           \* bound: publications queued by the bridge

ASSUME NetworkAssumption ==
  /\ MaxStaFailures \in Nat \ {0} /\ MaxSecs \in Nat \ {0} /\ OutCap \in Nat \ {0}
  /\ Addresses \subseteq Nat \ {0}
  /\ MaxFaults \in Nat /\ MaxOut \in Nat

VARIABLES
  settings,    \* HubConfig: is an ssid stored, is a broker host stored
  wifi,        \* what wifi_task is doing
  supervisor,  \* StationSupervisor: failures, started and its Backoff
  delay,       \* seconds of the timer wifi_task awaits
  address,     \* stack.config_v4(): the DHCP address, 0 when down
  watching,    \* net_watch_task waits for the configuration to be up or down
  stats,       \* HUB_STATS: wifi_state, mqtt_state, ip
  mqtt,        \* what mqtt_task is doing
  backoff,     \* Backoff::next_secs of mqtt_task
  outQ,        \* MQTT_OUT_CHANNEL: numbered publications
  conn,        \* the last TCP connection mqtt_task opened
  tcp,         \* its state: closed, open or broken
  wire,        \* per connection: packets on their way to the broker
  acked,       \* its CONNACK is on its way
  session,     \* broker: the connection of the hub's session, 0 for none
  retained,    \* broker: the retained message on the status topic
  subscribed,  \* broker: the session is subscribed to the tx topic
  inRange,     \* the configured network can be joined
  faults,      \* history: faults of the environment so far
  waited,      \* history: the delays wifi_task has sat out since it was associated
  tries,       \* history: failed attempts since the last CONNACK
  queued,      \* history: publications the bridge has queued
  takenOn,     \* history: the connection each publication was taken for
  delivered    \* history: publications the broker has accepted, in order

hubVars    == <<settings, wifi, supervisor, delay, stats, mqtt, backoff, outQ, watching>>
linkVars   == <<address, conn, tcp, wire, acked, inRange>>
brokerVars == <<session, retained, subscribed>>
history    == <<faults, waited, tries, queued, takenOn, delivered>>
vars == <<hubVars, linkVars, brokerVars, history>>

wifiVars == <<wifi, supervisor, delay, inRange, waited>>
mqttVars == <<mqtt, backoff, outQ, conn, tcp, wire, acked, tries, queued, takenOn>>

(* Every connection after the first follows a fault, or the broker letting *)
(* a late CONNECT of an aborted connection take over.                      *)
MaxConns == 2 * MaxFaults + 1
Conns    == 1 .. MaxConns
Outs     == 1 .. MaxOut
Packets  == [kind : {"CONNECT", "online", "SUBSCRIBE"}, item : {0}] \cup [kind : {"PUBLISH"}, item : Outs]
Control(kind) == [kind |-> kind, item |-> 0]
Publication(p) == [kind |-> "PUBLISH", item |-> p]

LinkStates == {"Unprovisioned", "Disconnected", "Connecting", "Connected"}
WifiSteps == {"decide", "connecting", "waiting", "associated", "accessPoint", "ended"}
MqttSteps  == {"pending", "waitConfig", "resolve", "tcp", "connect", "announce",
               "subscribe", "serving", "waiting"}

(* A fault of the environment, and something that may go wrong for free    *)
(* when its cause is there.                                                *)
Fault == faults < MaxFaults /\ faults' = faults + 1
Excused(cause) == IF cause THEN UNCHANGED faults ELSE Fault

-----------------------------------------------------------------------------
(* Backoff and StationSupervisor.                                          *)

next_secs(secs) == IF 2 * secs > MaxSecs THEN MaxSecs ELSE 2 * secs

next_action ==
  IF supervisor.failures >= MaxStaFailures THEN "FallbackToAccessPoint"
  ELSE IF ~supervisor.started THEN "Start" ELSE "Connect"

(* failed(): one more failure, and a timer for the current delay.          *)
failed ==
  /\ supervisor' = [supervisor EXCEPT !.failures = @ + 1, !.secs = next_secs(@)]
  /\ delay' = supervisor.secs
  /\ wifi' = "waiting"

(* connected() that only resets the back-off.                              *)
ConnectedKeepsFailures == supervisor' = [supervisor EXCEPT !.secs = 1]

connected == supervisor' = [supervisor EXCEPT !.failures = 0, !.secs = 1]

-----------------------------------------------------------------------------
(* wifi_task.                                                              *)

(* start_station: set_config applies the station configuration.            *)
Start ==
  /\ wifi = "decide" /\ settings.ssid /\ next_action = "Start"
  /\ \/ /\ supervisor' = [supervisor EXCEPT !.started = TRUE]
        /\ UNCHANGED <<wifi, delay, faults>>
     \/ Fault /\ failed
  /\ UNCHANGED <<settings, stats, watching, mqttVars, inRange, address, brokerVars,
                 waited, delivered>>

Connect ==
  /\ wifi = "decide" /\ settings.ssid /\ next_action = "Connect"
  /\ wifi' = "connecting"
  /\ stats' = [stats EXCEPT !.wifi = "Connecting"]
  /\ UNCHANGED <<settings, supervisor, delay, watching, mqttVars, inRange, address,
                 brokerVars, faults, waited, delivered>>

(* connect_async succeeds.                                                 *)
Associated ==
  /\ wifi = "connecting" /\ inRange
  /\ wifi' = "associated"
  /\ connected
  /\ stats' = [stats EXCEPT !.wifi = "Connected"]
  /\ waited' = <<>>
  /\ UNCHANGED <<settings, delay, watching, mqttVars, inRange, address, brokerVars,
                 faults, delivered>>

(* connect_async fails: wrong password, network gone, or for no reason the *)
(* hub can do anything about.                                              *)
ConnectFails ==
  /\ wifi = "connecting" /\ Excused(~inRange)
  /\ stats' = [stats EXCEPT !.wifi = "Disconnected"]
  /\ failed
  /\ UNCHANGED <<settings, watching, mqttVars, inRange, address, brokerVars, waited,
                 delivered>>

(* The back-off timer fires.                                               *)
WaitOver ==
  /\ wifi = "waiting"
  /\ wifi' = "decide"
  /\ waited' = Append(waited, delay) /\ delay' = 0
  /\ UNCHANGED <<settings, supervisor, stats, watching, mqttVars, inRange,
                 address, brokerVars, faults, delivered>>

(* wait_for_disconnect_async returns; the next attempt follows at once.    *)
Disassociated ==
  /\ wifi = "associated" /\ Excused(~inRange)
  /\ wifi' = "decide"
  /\ stats' = [stats EXCEPT !.wifi = "Disconnected"]
  /\ UNCHANGED <<settings, supervisor, delay, watching, mqttVars, inRange, address,
                 brokerVars, waited, delivered>>

(* An access point for unprovisioned hubs only.                            *)
RunAccessPointUnprovisioned ==
  /\ wifi = "decide" /\ ~settings.ssid
  /\ stats' = [stats EXCEPT !.wifi = "Unprovisioned"]
  /\ wifi' = "accessPoint"
  /\ UNCHANGED <<settings, supervisor, delay, watching, mqttVars, inRange, address,
                 brokerVars, faults, waited, delivered>>

(* run_access_point, at once without an ssid or when the supervisor gives  *)
(* up.  When set_config fails the task returns and the hub has no WiFi.    *)
RunAccessPoint ==
  /\ wifi = "decide"
  /\ settings.ssid => next_action = "FallbackToAccessPoint"
  /\ stats' = [stats EXCEPT !.wifi = "Unprovisioned"]
  /\ \/ wifi' = "accessPoint" /\ UNCHANGED faults
     \/ wifi' = "ended" /\ Fault
  /\ UNCHANGED <<settings, supervisor, delay, watching, mqttVars, inRange, address,
                 brokerVars, waited, delivered>>

WifiTask ==
  \/ Start \/ Connect \/ Associated \/ ConnectFails \/ WaitOver \/ Disassociated
  \/ RunAccessPoint

-----------------------------------------------------------------------------
(* The network stack and net_watch_task.                                   *)

(* The runner sees the link go down and drops the DHCP configuration.      *)
LinkDown ==
  /\ wifi # "associated" /\ address # 0
  /\ address' = 0
  /\ UNCHANGED <<hubVars, conn, tcp, wire, acked, inRange, brokerVars, history>>

(* A DHCP lease.  The exchange takes several packets each way, in which    *)
(* time the executor has run the watcher, woken when the lease was lost.   *)
Lease ==
  /\ wifi = "associated" /\ inRange /\ address = 0 /\ watching = "up"
  /\ \E a \in Addresses : address' = a
  /\ UNCHANGED <<hubVars, conn, tcp, wire, acked, inRange, brokerVars, history>>

WatchUp ==
  /\ watching = "up" /\ address # 0
  /\ stats' = [stats EXCEPT !.ip = address]
  /\ watching' = "down"
  /\ UNCHANGED <<settings, wifi, supervisor, delay, mqtt, backoff, outQ, linkVars,
                 brokerVars, history>>

WatchDown ==
  /\ watching = "down" /\ address = 0
  /\ stats' = [stats EXCEPT !.ip = 0]
  /\ watching' = "up"
  /\ UNCHANGED <<settings, wifi, supervisor, delay, mqtt, backoff, outQ, linkVars,
                 brokerVars, history>>

(* The configured network goes away, or comes back.                        *)
RangeChanges ==
  /\ Excused(~inRange)
  /\ inRange' = ~inRange
  /\ UNCHANGED <<hubVars, address, conn, tcp, wire, acked, brokerVars, waited, tries,
                 queued, takenOn, delivered>>

-----------------------------------------------------------------------------
(* mqtt_task.                                                              *)

(* wait_config_up, at the head of every attempt.                           *)
ConfigUp ==
  /\ mqtt = "waitConfig" /\ address # 0
  /\ mqtt' = "resolve"
  /\ stats' = [stats EXCEPT !.mqtt = "Connecting"]
  /\ UNCHANGED <<settings, wifi, supervisor, delay, watching, backoff, outQ, linkVars,
                 brokerVars, history>>

(* The attempt has failed: publish the state and wait for the back-off.    *)
Retry ==
  /\ mqtt' = "waiting"
  /\ stats' = [stats EXCEPT !.mqtt = "Disconnected"]
  /\ backoff' = next_secs(backoff)
  /\ tries' = tries + 1

(* resolve_host: a literal address needs no network, a name needs DNS.     *)
Resolve ==
  /\ mqtt = "resolve"
  /\ \/ mqtt' = "tcp" /\ UNCHANGED <<stats, backoff, tries, faults>>
     \/ Excused(address = 0) /\ Retry
  /\ UNCHANGED <<settings, wifi, supervisor, delay, watching, outQ, linkVars, brokerVars,
                 waited, queued, takenOn, delivered>>

(* TcpSocket::connect, followed by the CONNECT packet of client.connect.   *)
TcpConnect ==
  /\ mqtt = "tcp" /\ address # 0 /\ conn < MaxConns
  /\ conn' = conn + 1
  /\ tcp' = "open"
  /\ wire' = [wire EXCEPT ![conn + 1] = <<Control("CONNECT")>>]
  /\ acked' = FALSE
  /\ mqtt' = "connect"
  /\ UNCHANGED <<settings, wifi, supervisor, delay, stats, watching, backoff, outQ,
                 address, inRange, brokerVars, history>>

TcpFails ==
  /\ mqtt = "tcp" /\ Excused(address = 0)
  /\ Retry
  /\ UNCHANGED <<settings, wifi, supervisor, delay, watching, outQ, linkVars, brokerVars,
                 waited, queued, takenOn, delivered>>

(* The CONNACK arrives.                                                    *)
ConnAck ==
  /\ mqtt = "connect" /\ acked /\ tcp = "open" /\ address # 0
  /\ mqtt' = "announce"
  /\ stats' = [stats EXCEPT !.mqtt = "Connected"]
  /\ backoff' = 1
  /\ tries' = 0
  /\ UNCHANGED <<settings, wifi, supervisor, delay, watching, outQ, linkVars, brokerVars,
                 faults, waited, queued, takenOn, delivered>>

Send(packet) ==
  /\ tcp = "open"
  /\ wire' = [wire EXCEPT ![conn] = Append(@, packet)]

(* A session that forgets its subscription.                                *)
AnnounceOnly ==
  /\ mqtt = "announce" /\ mqtt' = "serving" /\ Send(Control("online"))
  /\ UNCHANGED <<settings, wifi, supervisor, delay, stats, watching, backoff, outQ,
                 address, conn, tcp, acked, inRange, brokerVars, history>>

(* The retained online status, then the downlink subscription.             *)
Announce ==
  /\ \/ mqtt = "announce" /\ mqtt' = "subscribe" /\ Send(Control("online"))
     \/ mqtt = "subscribe" /\ mqtt' = "serving" /\ Send(Control("SUBSCRIBE"))
  /\ UNCHANGED <<settings, wifi, supervisor, delay, stats, watching, backoff, outQ,
                 address, conn, tcp, acked, inRange, brokerVars, history>>

(* deliver() of a publication taken from MQTT_OUT; the session ends when   *)
(* the client cannot send it, and the publication with it.                 *)
Taken ==
  /\ mqtt = "serving" /\ outQ # <<>>
  /\ outQ' = Tail(outQ)
  /\ takenOn' = [takenOn EXCEPT ![Head(outQ)] = conn]

(* The session goes on after a publication that could not be sent.         *)
DeliverRegardless ==
  /\ Taken
  /\ \/ Send(Publication(Head(outQ))) /\ UNCHANGED <<mqtt, stats, backoff, tries, tcp, faults>>
     \/ Excused(tcp = "broken") /\ UNCHANGED <<mqtt, stats, backoff, tries, tcp, wire>>
  /\ UNCHANGED <<settings, wifi, supervisor, delay, watching, address, conn, acked,
                 inRange, brokerVars, waited, queued, delivered>>

Deliver ==
  /\ Taken
  /\ \/ Send(Publication(Head(outQ))) /\ UNCHANGED <<mqtt, stats, backoff, tries, tcp, faults>>
     \/ Excused(tcp = "broken") /\ Retry /\ tcp' = "closed" /\ UNCHANGED wire
  /\ UNCHANGED <<settings, wifi, supervisor, delay, watching, address, conn, acked,
                 inRange, brokerVars, waited, queued, delivered>>

(* Any other call of run_session fails: a rejected CONNECT, a status or    *)
(* subscription that cannot be sent, a read or a ping on a dead socket.    *)
(* client.abort closes the connection.                                     *)
SessionFails ==
  /\ mqtt \in {"connect", "announce", "subscribe", "serving"}
  /\ Excused(tcp = "broken")
  /\ Retry
  /\ tcp' = "closed"
  /\ UNCHANGED <<settings, wifi, supervisor, delay, watching, outQ, address, conn, wire,
                 acked, inRange, brokerVars, waited, queued, takenOn, delivered>>

(* The timer between two attempts fires.                                   *)
TryAgain ==
  /\ mqtt = "waiting"
  /\ mqtt' = "waitConfig"
  /\ UNCHANGED <<settings, wifi, supervisor, delay, stats, watching, backoff, outQ,
                 linkVars, brokerVars, history>>

MqttTask ==
  \/ ConfigUp \/ Resolve \/ TcpConnect \/ TcpFails \/ ConnAck \/ Announce \/ Deliver
  \/ SessionFails \/ TryAgain

(* The bridge queues a publication; what a full channel refuses is counted *)
(* by the bridge.                                                          *)
Enqueue ==
  /\ queued < MaxOut /\ Len(outQ) < OutCap
  /\ queued' = queued + 1
  /\ outQ' = Append(outQ, queued + 1)
  /\ UNCHANGED <<settings, wifi, supervisor, delay, stats, watching, mqtt, backoff,
                 linkVars, brokerVars, faults, waited, tries, takenOn, delivered>>

-----------------------------------------------------------------------------
(* TCP and the broker.                                                     *)

(* The socket gives up: no answer for SOCKET_TIMEOUT, or a reset.          *)
TcpBreaks ==
  /\ tcp = "open" /\ Excused(address = 0)
  /\ tcp' = "broken"
  /\ UNCHANGED <<hubVars, address, conn, wire, acked, inRange, brokerVars, waited, tries,
                 queued, takenOn, delivered>>

Live(c) == c = conn /\ tcp = "open"

(* What is still in flight on a dead connection is lost.                   *)
Lose(c) ==
  /\ ~Live(c) /\ wire[c] # <<>>
  /\ wire' = [wire EXCEPT ![c] = <<>>]
  /\ UNCHANGED <<hubVars, address, conn, tcp, acked, inRange, brokerVars, history>>

(* A session ends: the broker publishes its will, retained, and closes the *)
(* connection.                                                             *)
WithoutWill == retained

Will == IF session = 0 THEN retained ELSE "offline"

CloseSession == tcp' = IF session # 0 /\ Live(session) THEN "broken" ELSE tcp

(* The broker reads the next packet of connection c.  CONNECT takes over   *)
(* the session of the same client id and starts a clean one; what comes on *)
(* a connection without a session is discarded.                            *)
Receive(c) ==
  /\ wire[c] # <<>>
  /\ wire' = [wire EXCEPT ![c] = Tail(@)]
  /\ LET packet == Head(wire[c]) IN
       \/ /\ packet.kind = "CONNECT"
          /\ session' = c /\ retained' = Will /\ subscribed' = FALSE
          /\ CloseSession /\ acked' = (acked \/ c = conn)
          /\ UNCHANGED delivered
       \/ /\ packet.kind # "CONNECT"
          /\ retained' = IF packet.kind = "online" /\ session = c THEN "online" ELSE retained
          /\ subscribed' = (subscribed \/ (packet.kind = "SUBSCRIBE" /\ session = c))
          /\ delivered' = IF packet.kind = "PUBLISH" /\ session = c
                          THEN Append(delivered, packet.item) ELSE delivered
          /\ UNCHANGED <<session, tcp, acked>>
  /\ UNCHANGED <<hubVars, address, conn, inRange, faults, waited, tries, queued, takenOn>>

(* The broker closes the session: the connection was reset, the keep-alive *)
(* has expired, or an administrator said so.                               *)
SessionLost ==
  /\ session # 0 /\ Excused(~Live(session))
  /\ session' = 0 /\ retained' = Will /\ subscribed' = FALSE
  /\ CloseSession
  /\ UNCHANGED <<hubVars, address, conn, wire, acked, inRange, waited, tries, queued,
                 takenOn, delivered>>

Stack  == LinkDown \/ Lease \/ WatchUp \/ WatchDown \/ TcpBreaks
Broker == SessionLost \/ \E c \in Conns : Receive(c)

-----------------------------------------------------------------------------
Init ==
  /\ settings \in [ssid : BOOLEAN, host : BOOLEAN]
  /\ wifi = "decide"
  /\ supervisor = [failures |-> 0, started |-> FALSE, secs |-> 1]
  /\ delay = 0
  /\ address = 0
  /\ watching = "up"
  /\ stats = [wifi |-> "Unprovisioned", mqtt |-> "Unprovisioned", ip |-> 0]
  /\ mqtt = IF settings.host THEN "waitConfig" ELSE "pending"
  /\ backoff = 1
  /\ outQ = <<>>
  /\ conn = 0
  /\ tcp = "closed"
  /\ wire = [c \in Conns |-> <<>>]
  /\ acked = FALSE
  /\ session = 0
  /\ retained = "none"
  /\ subscribed = FALSE
  /\ inRange \in BOOLEAN
  /\ faults = 0
  /\ waited = <<>>
  /\ tries = 0
  /\ queued = 0
  /\ takenOn = [p \in Outs |-> 0]
  /\ delivered = <<>>

Next ==
  \/ WifiTask \/ MqttTask \/ Stack \/ Broker \/ RangeChanges \/ Enqueue
  \/ \E c \in Conns : Lose(c)

(* The executor runs every task that is ready, timers fire, TCP gives up   *)
(* on a dead peer and the broker reads what it is sent.  Fairness is asked *)
(* of steps that are not faults only.                                      *)
NoFault == faults' = faults

Fairness ==
  /\ WF_vars(WifiTask /\ NoFault)
  /\ WF_vars(MqttTask /\ NoFault)
  /\ WF_vars(Stack /\ NoFault)
  /\ WF_vars(Broker /\ NoFault)

Spec == Init /\ [][Next]_vars /\ Fairness

-----------------------------------------------------------------------------
TypeOK ==
  /\ settings \in [ssid : BOOLEAN, host : BOOLEAN]
  /\ wifi \in WifiSteps
  /\ supervisor \in [failures : 0 .. MaxStaFailures, started : BOOLEAN, secs : 1 .. MaxSecs]
  /\ delay \in 0 .. MaxSecs
  /\ address \in Addresses \cup {0}
  /\ watching \in {"up", "down"}
  /\ stats \in [wifi : LinkStates, mqtt : LinkStates, ip : Addresses \cup {0}]
  /\ mqtt \in MqttSteps
  /\ backoff \in 1 .. MaxSecs
  /\ outQ \in Seq(Outs) /\ Len(outQ) <= OutCap
  /\ conn \in Conns \cup {0}
  /\ tcp \in {"closed", "open", "broken"}
  /\ wire \in [Conns -> Seq(Packets)]
  /\ acked \in BOOLEAN
  /\ session \in Conns \cup {0}
  /\ retained \in {"none", "online", "offline"}
  /\ subscribed \in BOOLEAN /\ inRange \in BOOLEAN
  /\ faults \in 0 .. MaxFaults

(* The delay after k failures in a row.                                    *)
Capped(k) == IF 2 ^ k > MaxSecs THEN MaxSecs ELSE 2 ^ k

(* Both back-offs double with every failed attempt in a row, saturate at   *)
(* MAX_SECS and start small again after a success, however failures,       *)
(* associations and sessions alternate.                                    *)
BackoffExact ==
  /\ supervisor.secs = Capped(supervisor.failures)
  /\ backoff = Capped(tries)

(* A provisioned hub gives up its network only after it has sat out the    *)
(* whole sequence of back-offs, 1, 2, 4 ... MAX_SECS seconds, since it was *)
(* last associated: associations in between give the failure budget back.  *)
GivesUpLate ==
  settings.ssid /\ wifi \in {"accessPoint", "ended"} =>
    waited = [k \in 1 .. MaxStaFailures |-> Capped(k - 1)]

(* The retained status says online only while the broker holds a session   *)
(* of the hub, through take-overs and late packets of dead connections.    *)
StatusTruthful == retained = "online" => session # 0

(* A publication taken from MQTT_OUT reaches the broker, in order and      *)
(* once, unless the connection it was taken for has ended.                 *)
LostWithSession ==
  /\ \A i, j \in DOMAIN delivered : i < j => delivered[i] < delivered[j]
  /\ \A p \in Outs :
       takenOn[p] # 0 /\ Live(takenOn[p]) =>
         \/ \E k \in DOMAIN delivered : delivered[k] = p
         \/ \E k \in DOMAIN wire[conn] : wire[conn][k].item = p

(* GetHubStatus never shows another address than the one the hub has: the  *)
(* watcher clears a lost lease before the next one, however the link       *)
(* flaps.                                                                  *)
AddressCurrent == stats.ip # 0 /\ address # 0 => stats.ip = address

(* What the supervisor, its timers and the address watcher keep agrees     *)
(* with what has happened to the link.                                     *)
NetworkInv ==
  /\ TypeOK
  /\ BackoffExact
  /\ GivesUpLate
  /\ AddressCurrent

(* A provisioned hub whose network stays away ends as an access point      *)
(* (unless the access point itself cannot be started).                     *)
FallsBack ==
  <>[](settings.ssid /\ ~inRange) => <>[](wifi \in {"accessPoint", "ended"})

(* With the network in range and the station not given up, a configured    *)
(* hub ends with a session, subscribed and announced as online.            *)
Announced ==
  <>[](settings.ssid /\ settings.host /\ inRange /\ wifi \notin {"accessPoint", "ended"}) =>
    <>[](retained = "online" /\ subscribed)

=============================================================================
