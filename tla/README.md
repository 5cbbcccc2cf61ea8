# Verification of the LoRa hub firmware

TLA+ models of the firmware in `src/` (an ESP32 hub with an SX1262 radio that
bridges LoRa packets to MQTT, or acts as a single-channel LoRaWAN gateway),
TLC runs on small instances, and TLAPS proofs for every size.

## 1. The system

One single-threaded embassy executor runs all tasks. A task is never
interrupted between two `.await` points, so the only concurrency is the order in
which tasks run between their awaits, and the only shared state is the bounded
channels between them, the statistics and the flash. At boot the hub reads its
configuration from flash and becomes one of two *personalities*.

```
 bridge mode                                   gateway mode

 broker <-> mqtt_task                          server <-> gateway_udp_task
    MQTT_IN(4) |   ^ MQTT_OUT(8)                 GW_DOWNLINK(2) |  ^ GW_UPLINK(4)
               v   |                                            v  |
             bridge_task                                   gateway_task
     COMMAND(8) |  ^ RESPONSE(8, pub/sub)                       |
                v  |                                          SX1262
             lora_task -- CommandDispatcher -- SX1262
                ^  |
  serial_reader_task  serial_writer_task        both modes: hub_ctrl_task, portal,
                                                wifi_task, admin_task, led_task
```

### Components

| Component | State | Operations | Interacts with |
|---|---|---|---|
| Duty cycle limiter (`lora/duty_cycle.rs`) | ring of 60 one-minute buckets, head, allowance | `for_frequency`, `advance`, `try_claim` | dispatcher (one limiter), forwarder (one per sub-band) |
| Bridge (`bridge/mod.rs`, `tasks/bridge.rs`) | `in_flight` (4 entries), `next_sequence`, `rx_seq` | `on_rx_packet`, `on_downlink`, `abandon`, `on_command_response` | COMMAND, RESPONSE, MQTT_IN, MQTT_OUT |
| LoRa task and dispatcher (`tasks/lora.rs`, `dispatcher/handler.rs`) | radio config, limiter | receive loop, `dispatch`, `handle_lora_tx`, `SetSpreadingFactor` | COMMAND, RESPONSE, ADMIN |
| MQTT task (`tasks/mqtt.rs`) | session, back-off | connect with a will, announce, subscribe, receive, deliver, ping | MQTT_IN, MQTT_OUT, statistics, broker |
| Serial tasks (`tasks/serial.rs`, `usb/cdc_io.rs`) | frame buffer | parse frames, route commands, write responses | COMMAND, HUB, RESPONSE, host |
| Hub protocol (`hub-protocol/`) | none (pure) | encode and parse commands and responses | serial tasks, host library |
| Host library (`integration_tests/src/`) | time-out, port | `send_command`, `get_version`, drain | serial tasks, over USB |
| Admin task (`tasks/admin.rs`) | none | delayed software reset | ADMIN |
| Gateway radio task (`tasks/gateway.rs`) | pending job, radio configuration | arm, listen, `execute_downlink` | GW_DOWNLINK, GW_UPLINK, driver |
| Gateway UDP task, forwarder (`tasks/gateway_udp.rs`, `gateway/forwarder.rs`) | token, counters, limiters per sub-band | PULL_RESP policy, TX_ACK, PUSH_DATA, keepalive, stat | server, GW_DOWNLINK, GW_UPLINK |
| Airtime (`lora/airtime.rs`) | none (pure) | `time_on_air_ms_ext` | dispatcher, forwarder |
| Scheduler (`gateway/scheduler.rs`) | none (pure) | `tmst_delta_us`, `classify` | forwarder, radio task |
| SX1262 driver (`lora/driver.rs`) | chip mode, SPI select line | configure, receive, split transmit | SPI, DIO1, BUSY |
| Provisioning (`tasks/hub_ctrl.rs`, `hub_config/`) | active and pending configuration, flash | `apply_command`, persist | HUB, PORTAL_REQUEST, PORTAL_REPLY |
| Captive portal (`tasks/portal.rs`, `portal/`) | `APPLY_LOCK`, request buffers | GET/POST handling, DHCP, DNS | PORTAL channels, ADMIN, clients |
| Configurator app (`app/rust_backend/`) | none | `validate_update`, fetch, apply | captive portal, over HTTP |
| WiFi station (`tasks/wifi.rs`, `net/`) | link state, failures, back-off | connect, supervise, fall back to access point, mirror the address | statistics |

What makes each of them correct, and what is hard about it, is in the hazard
list of `PROJECT.json`; the properties below are written against it.

## 2. Modules

In every module a step is what one task does between two `.await` points. Names
of definitions follow the source (`on_downlink`, `try_claim`, `handle`,
`fire_tx`, ...); `PROJECT.json` maps each one to its lines. Variables marked
*history* in the modules record what happened for the properties' sake and never
influence a step.

| Module | Models | Extends |
|---|---|---|
| `DutyCycleLimiter` | the limiter and the sub-band tables as operators | |
| `DutyCycle` | one limiter driven by claims and by time | `DutyCycleLimiter` |
| `GatewayDuty` | the forwarder's limiters, one per sub-band | `DutyCycleLimiter` |
| `Bridge` | bridge mode: MQTT session, bridge, LoRa, serial reader and admin tasks | |
| `GatewayScheduler` | `tmst_delta_us`, `classify` as operators | |
| `Gateway` | gateway mode: radio task and UDP task | `GatewayScheduler` |
| `Airtime` | the time on air, and what the chip sends | |
| `Upstream` | gateway mode: UDP task and forwarder against the network server | `Airtime` |
| `Network` | WiFi task, address watcher and MQTT task against the network and the broker | |
| `HubCodec` | the layouts of the hub protocol, encoded and parsed | |
| `Serial` | host library, USB link, serial reader and writer | `HubCodec` |
| `Provisioning` | control task, portal, serial commands, flash, boot | |
| `SettingsService` | what provisioning promises, in one step per command | |
| `ProvisioningRefinement` | that `Provisioning` implements `SettingsService` | `Provisioning` |
| `Portal` | the app and the web page against the pool of HTTP tasks | |
| `Radio` | the SX1262 driver, command by command, under `lora_task` and the dispatcher | |
| `ForwarderProofs` | theorems about the limiter, the forwarder's limiters, its accounts and the airtime it charges | `DutyCycle`, `GatewayDuty`, `Upstream` |
| `BridgeProofs`, `GatewayProofs`, `NetworkProofs`, `PortalProofs`, `RadioProofs`, `SerialProofs` | theorems | the module of the same name |
| `ProvisioningProofs` | theorems, the refinement among them | `ProvisioningRefinement` |
| `MC...` | values of the constants for TLC | the module of the same name |

### DutyCycleLimiter, DutyCycle, GatewayDuty

A limiter is a record with the fields of the struct (`buckets`, `head`,
`head_start_ms`, `allowance_ms`). `advance` rotates the ring by the whole buckets
that have passed and wipes all of it after `BUCKET_COUNT` of them; `try_claim`
advances, sums, and either charges the head bucket or looks for the oldest
buckets whose expiry makes room (`ExpiredNeeded`). The permille of the sub-band
times `PermilleMs` is the allowance, so that the ring can be small while the
tables keep the real frequencies. `ClaimAirtime` is the claim of `handle_lora_tx`:
airtime is charged before the transmission and stays charged if it fails.
`Accept` is the claim of `GatewayForwarder::accept`: the limiter of a sub-band is
inserted on first use into a map of `MaxBands` entries, the insert fails silently
when the map is full, and a sub-band without an entry claims nothing. `Accepted` are the
frequencies that its range check lets through; the limit of 433 MHz is never asked for here.

### Bridge

State: the channels as bounded sequences, the command `lora_task` is serving, the
`in_flight` table, `next_sequence` (modulo `SeqMod`), `rx_seq`, the statistics.

| Action | Code |
|---|---|
| `SessionUp`, `SessionEnd`, `MqttReceive`, `MqttDeliver` | `mqtt_task`, `run_session`: what a session does to the channels; any of them may end it |
| `SerialRead`, `SerialParseErrors` | `serial_reader_task`: one command, or a burst of broken frames answered one by one without a yield |
| `LoraReceive`, `LoraTake`, `LoraAnswerSerial`, `LoraAnswerDownlink` | `lora_task` and `CommandDispatcher`: transmitted, refused by the duty cycle, or failed (and a packet whose `wait_tx_done` timed out may have been on the air) |
| `BridgeLagged`, `BridgeResponse`, `BridgeDownlink` | `bridge_task` with the whole of `BridgeState` |
| `Reset` | `admin_task`: every queue and table starts empty again |

`RESPONSE_CHANNEL` is a pub/sub channel; it is modelled as the bridge's own
subscription, because what one subscriber has read does not change what another
will. `publish_immediate` discards the oldest message and the subscriber later
learns how many it lost. `mqttOut` holds uplinks and the tx/result of each downlink
(`TxResult`). `fate` records what became of a downlink: its result published by a session,
or the way in which it was lost, *dropped* (at a full MQTT_IN or MQTT_OUT, or longer than
MAX_JSON), *pushed out* of RESPONSE, *failed* with the session that had taken it, or *wiped*
by a reset.

### GatewayScheduler, Gateway

`now` counts ticks since boot and the 32-bit counter is `now % Wrap`. `deadline`
says how long the radio task may stay at its await: an exact instant for a
`Timer::at`, at most `MaxStep` for a radio operation, `MaxSetup` for staging a
transmission. `ArmFails`, `Listen`, `Hear`, `PollAgain`, `TakeJob` are the loop of
`gateway_task`; `MissWindow`, `SleepUntilSetup`, `BeginSetup`, `SetupFails`, `Aim`,
`fire_tx`, `wait_tx_done`, `Restore` are `execute_downlink` and the reconfigure
after it. `PullResp` and `PullRespRefused` are the downlink path of
`gateway_udp_task`, `ForwardUplink` its uplink path. The assumption
`MaxSetup + TxStartComp <= SetupLead` is what the constant `SETUP_LEAD_US` is for:
staging fits into the time reserved for it. `PollAgain` is a round of the loop that ends
in a time-out, or in noise that is read and thrown away; the `select` prefers the radio to
a job that waits, so each round that ends in a packet, good or bad, can put a job off
(`heard` counts them).

`HorizonAssumption` is what the models and the proofs showed the code to rely on without
saying so. A job is classified by the difference between two values of a 32-bit counter, so
it must be looked at within half a turn (35.8 minutes) of its window. The job in hand
survives a failing `arm_receive`, which is tried again every half second without an end. If
that goes on for longer than half a turn, or as much noise is heard, the late job is taken
for one that is still to come and is fired a whole turn of the counter late. The assumption
bounds the delays (`Turn` is the longest that one job can cost another); the real values
leave room for hundreds of packets and thousands of failures while a job waits.

### Provisioning

`handle` is one step, because the flash driver never yields: `apply_command`
changes the pending configuration, `persist` writes it or fails. A connection of
the portal goes through `Post`, `Enter` (takes `APPLY_LOCK`, sends the first
command), `Reply` (sends the next one or decides on the response), `Finish` (the
response is written or the socket fails; the lock is free either way) and
`RequestReboot`. `HubCtrlSerial` comes before `HubCtrlPortal`, as in the `select`.
`Reset` boots from flash, which may fail to open or to load. An update is a
function from the field names it has to their values, so an omitted field is a
field outside its domain. One port stands for all values that
`gateway_settings_valid` checks, and the host of the MQTT group for the client id.

### SettingsService, ProvisioningRefinement

`SettingsService` has no tasks, channels or locks: a durable, a working and an active
configuration, and for each client the stage of its update. One client at a time has
the turn, each of its commands is applied and answered in one step, the first that is
not stored ends the update, and an operator's commands may come in between. The
refinement maps the flash as `select_config` reads it to `durable`, the pending
configuration to `working`, and each connection to a session (`SessionOf`): a command
has happened as soon as `hub_ctrl_task` has handled it, so a reply that is still in its
channel already counts, and reading it is a stuttering step.

### Radio

`Bridge` and `Gateway` take a radio operation as one step that succeeds or fails;
`Radio` looks inside. An operation of the driver is a *program*, a sequence of
commands (`configure`, `start_receive_mode`, `init`, `transmit`, `read_packet`,
`wait_tx_done`), and `step` is the command it is at. `Exchange` is a command that
goes through and `Fails` one at which the operation returns an error, because the
chip stayed busy or the transfer failed. `Arm`, `RxEvent`, `PollTimeout`, `LoraTx`,
`SetSpreadingFactor`, `OtherCommand`, `TxEvent` and `TxTimeout` are the loop of
`lora_task` with the dispatcher.

The chip is external and modelled from how the driver uses it: a mode, an interrupt
mask, the pending interrupts, the packet in its buffer, and for each setting the
configuration it was last written from (or `None`). `SetPaConfig` resets the current
limit and a change of the TCXO spoils the calibration, which is what the driver's
comments give as the reason for its order. All exchanges but
`read_register` return without raising NSS when the transfer fails; `cut` is the
command left in such a transaction. The next exchange is then part of it: the chip
does not see that command, and at the rising edge executes what it made of the one
before, or nothing (`Swallowed`). The driver reads a packet in five exchanges. A packet that
arrives after the interrupts were read and before they are cleared and the buffer's status
is read, or while a late command has its own interrupts masked and older ones are pending,
can be taken for the one before it (`Mistakable`); `overtook` remembers these packets, and
`misread` the packet that was there when the interrupts read in a cut transfer were garbage.
Signal strength and SNR of a packet are not modelled.

### Network

The tasks between two awaits, and what they talk to. `wifi_task` goes through
`next_action` of the supervisor; `net_watch_task` waits for the configuration to come up
or to go down (`WatchUp`, `WatchDown`) and may see a lease only after it has gone again.
`mqtt_task` opens connection after connection: CONNECT, the retained online status and
SUBSCRIBE are packets on the wire of that connection, publications follow, and each of
its steps can find the connection broken. External: the radio network, DHCP, TCP (the
packets of a connection arrive in order, or a tail of them never) and the broker, which
keeps one session per client id, publishes the will when a session ends otherwise than by
DISCONNECT, and lets a late CONNECT of an aborted connection take over. `waited` is the
sequence of the delays sat out since the last association, which `GivesUpLate` compares with
the whole back-off.

### Airtime, Upstream

`Airtime` is the integer arithmetic of the code, with its clamp of the spreading factor,
its coding rate default and its truncations, next to `OnAirUs`, the time that the chip
needs when it is configured as the driver configures it. `Upstream` is
`gateway_udp_task`: wait for the address, resolve, bind, then serve datagrams, uplinks
and ticks. `parse_txpk` completes and checks a request, `accept` decides on it, `Queue`
is the `try_send` with its TX_ACK, `CountAck`, `Due` and `next_token` are the rest of the
forwarder. Whether a downlink is in time and within the duty cycle is a free choice here;
`GatewayScheduler` and `GatewayDuty` model the two decisions. Datagrams in flight are a
set from which any may be delivered, again, or never; they survive a reset of the hub.

### HubCodec, Serial

`HubCodec` lays payloads out byte by byte, because widths, order and length prefixes are
what the two sides must agree on. `Serial` is the path of a command: `Send`, the
accumulator of the reader, the two parsers of `process_frame`, the routing into
COMMAND_CHANNEL (awaits room) or HUB_CHANNEL (drops), the two tasks that answer, the
writer's subscription with its lag and its source filter, `write_all` in packets of at
most `write_len`, the packets held back until a short one ends the transfer, and
`read_command_response`. Messages carry the number of their command; only the
properties look at it. `TimeoutLost` is the time-out of an answer that cannot come any
more, `TimeoutEarly` one of an answer that still may.

### Portal

A request is measured in bytes, since the buffer, the end of the head and
Content-Length decide what `try_parse` makes of what has arrived (`ReadSome`). A setting
is either one that the firmware takes or one that it does not; `validate_update` and
`commands_from_update` say which. A task goes from `accept` through reading, the lock and
the commands to the answer, the close and, after a saved update, the restart. The app
gives up after six seconds (`GiveUp`), a connection breaks, a socket write fails, the
flash fails.

## 3. Runs

| Run | States | Shows |
|---|---|---|
| `duty_cycle` | 61,560 | `WindowBudget`: what is granted within any `BucketCount - 1` buckets of time is inside the allowance. `LimiterInv`: the ring is exact (`BucketsMatchHistory`) and nothing is refused without cause (`RefusalJustified`). `RetryHintExact`: the same claim succeeds after the hinted wait and not before. `LimiterFitsBand`: the two tables agree |
| `gateway_duty` | 117,842 | `BandBudget`: frequencies of a sub-band share one budget whenever its limiter was created. `OverflowIsOwn`: no sub-band pays for another |
| `bridge` | 1,954,420 | `Correlated`, `ReportedTruthfully`: responses meet their own downlink, once, and say the truth. `LossesCounted`: leaked entries (`LeakIsCounted`) and lost uplinks (`UplinksAccounted`) show in the statistics. `Resolved`: every downlink the broker sends is settled, that is, a session publishes its result, or the result waits in MQTT_OUT for a session (`Waits`), or it was lost in one of the four ways of `fate` |
| `gateway` | 1,768,011 | `OnTarget`: a scheduled downlink is fired at its instant or not at all. `GatewayInv`: no job lost or duplicated (`JobsAccounted`), and without a radio failure the task listens on the uplink channel again before the next packet (`ListensOnUplink`). `MissedForAReason`: an acknowledged window is missed only when the radio was not free. `JobsEnd`: every acknowledged downlink comes to an end |
| `provisioning` | 199,571 | `StoredAsAcknowledged`: the flash holds what the answers add up to. `AnswersOwnUpdate`: a connection is answered about its own commands. `PostEnds`: none waits for ever. `ImplementsService`: the whole is `SettingsService`. `OmittedAsBooted`: an update leaves alone the groups it does not name, and what it omits of the others goes back to the last boot |
| `radio` | 1,148,471 | `FlagTruthful`: `in_continuous_rx` never claims a reception that is not on. `NoSilentLoss`: a swallowed exchange is one that can be lost. `OnAirAsClaimed`: the chip sends with the settings that the airtime was computed from. `AirClaimed`: nothing is sent twice for one claim. `PublishedOnce`: packets are published once, in order, with a good CRC, and one that arrives between the commands of `read_packet` spoils its own delivery only. `StaysAlive`: the receiver always comes back (`ListensAgain`) and no interrupt stays pending (`PacketServed`) |
| `network` | 686,508 | `NetworkInv`: both back-offs double, saturate and are reset by a success only (`BackoffExact`), the access point comes only after the whole sequence of waits (`GivesUpLate`), and the address shown is the current one (`AddressCurrent`). `FallsBack`: the access point does come. `StatusTruthful`: retained "online" means a session. `LostWithSession`: publications arrive in order and once, and are lost only with their connection. `Announced`: a hub in range ends up online and subscribed |
| `upstream` | 737,111 | `UpstreamInv`: TX_ACKs and counters say what became of every PULL_RESP (`AcksMatchJobs`), the acknowledgement ratio exceeds 100 % only by duplicates and by answers to an earlier boot (`AcksEarned`), and the keepalive is in time (`HoldsPinhole`). `ClaimCovers`: the charged airtime covers the transmission |
| `serial` | 759,706 | `InStep`: an answer is taken for the command it belongs to unless an earlier exchange was given up. `Understood`: each side reads what the other wrote (`HubReads`, `HostReads`). `SerialInv`: no frame is held back in the host's driver (`Flushed`), and the silent drop at HUB_CHANNEL takes a host that leaves exchanges unfinished, time-outs or reboots (`DropNeedsTimeouts`). `Served`: every answer that is not lost arrives |
| `portal` | 275,238 | `PortalInv`: a request is acted on when it is complete (`BodyWhole`), and what the app lets through the hub rejects for three named reasons only (`ValidationAgrees`). `ToldTheTruth`: "saved" means all groups stored, "rejected" means not all. `SavedThenRestarts`, `BackToListening`: the restart comes, and no connection keeps its task |

An invariant named after its module is the conjunction of the module's `TypeOK` and of
the named parts in the table. `TypeOK` also bounds the channels by their capacities and, in
`Gateway`, ties the job in hand to the place of the radio task. Beside its own run, the codec's round
trips over all short strings are assumptions of `MCSerial`, which TLC evaluates.

### Disagreements between the code and its comments

Two runs expect a violation; each states what a comment or document says.

| Run, property | What happens |
|---|---|
| `gateway_duty_five`, `BandBudget` | 863-870 MHz has five sub-bands and the map four entries; the fifth sub-band to be used has no limit |
| `bridge_leak`, `NoLeak` | a response overwritten before the bridge reads it leaves its `in_flight` entry for ever; after four of them every downlink is answered "busy" until a reboot. `LeakIsCounted` says that this is the only way, and is proved |

More differences were met while modelling and have no run of their own. The models
follow the code in all of them, and where a property needs a premise because of one, the
premise is named.

- `lora/duty_cycle.rs:3-7` promises a limit "over any one hour period" that "errs on the
  conservative side". 60 buckets of which the newest is unfinished cover 59 to 60
  minutes, so an hour can carry more than the allowance. `WindowBudget` is what holds.
- `hub-protocol/src/types.rs:203` says of StorageError that "the setting is not stored".
  It stays pending and is stored by the next command that succeeds
  (`tasks/hub_ctrl.rs:57`); `NotStored` of `SettingsService` says so.
- A publication taken from `MQTT_OUT` when the link fails is not counted in
  `dropped_count`, documented as "dropped because a queue was full or a link was down"
  (`hub-protocol/src/types.rs:165`).
- `txnb`, documented as "Downlinks actually emitted by the radio"
  (`gateway/udp_protocol.rs:59`), counts a job when it is queued; `AcksMatchJobs` states it
  that way.
- The page says "leave blank to keep" of the password (`portal/http.rs:296`), and a blank
  field is stored as an empty password. The app's models say that "only the present
  fields change" (`app/rust_backend/src/models.rs:33`), and a partial POST fills omitted
  fields of a group from the last boot, which undoes a serial command acknowledged since
  then. `OmittedAsBooted` states what happens.
- A failed reconfigure after a gateway downlink is only logged, and the task listens with
  the downlink's parameters until the next one (`faults > 0` in `ListensOnUplink`).
- A `SetSpreadingFactor` that fails half way leaves the chip with some of the new settings
  while the dispatcher computes airtime from the old ones (`~partial` in `OnAirAsClaimed`).
- `get_version` says that "Each attempt clears stale input first"
  (`integration_tests/src/device.rs:179`); it drains once, and after errors
  (`abandoned` in `InStep`).
- `validate_update` is to check "the same limits the firmware enforces"
  (`app/rust_backend/src/engine.rs:10`) and checks neither the coding rate nor an empty
  update (the exceptions of `ValidationAgrees`).
- For bandwidths whose symbol time is not a whole number of microseconds the airtime
  formula truncates, and may come out a millisecond below the time on air; `ClaimCovers` is
  checked where it is exact.
- When the access point cannot be started, `wifi_task` ends and the hub stays without
  WiFi until a restart (`"ended"` in `FallsBack`).

### Bounds

Every bound is a named constant and appears in a guard.

- *Ring*: 3 buckets of 2 ms and a clock of 13 ms (8 ms in `gateway_duty`). Claims
  at both ends of a bucket, rotation by one, by two and by a whole ring, and a
  second time around all occur; the claims can use up the allowance exactly, and
  one airtime is longer than all of it. The tables are checked at every edge and its
  neighbours.
- *Bridge*: channels of one or two messages, so that each of them fills, three
  downlinks and sequence ids modulo 2, so that ids are reused, bursts of three
  broken frames against a response channel of two, so that the bridge lags.
- *Gateway*: the counter wraps at 24 and the run starts at 23, so that arrivals and
  targets lie on both sides of the wrap; a queued job behind one in hand, and a third
  that collides; one radio failure at any point; two packets, good or bad, against a queue
  of one.
- *Provisioning*: two connections that compete for the lock, updates of none, one,
  two and three commands of which one is rejected in the middle, serial commands
  between them, one flash failure, one reset, a flash written by another schema.
- *Network*: two failures before the fall back, waits of 1, 2 and 3 seconds so that the
  back-off saturates, two addresses, two faults (each may break a connection with packets
  on the wire), two publications against a queue of one. Two faults are enough for a
  take-over during which an old session's packets are still on their way.
- *Upstream*: tokens modulo 4 that start at the last one, a pull interval of 2 and a stat
  interval of 3 ticks that fall together and apart, two downlinks out of five
  requests (full power and length at SF12, SF5 with no valid coding rate, a long preamble
  with an unknown bandwidth, a frequency out of the band, a payload that does not decode)
  against a queue of one, and one fault: a duplicate, a failure to resolve or bind, or a
  reset.
- *Serial*: three commands out of hub commands, stock commands and malformed frames,
  fields of two or three bytes, an endpoint packet of 11 bytes so that answers end on the
  boundary, one early time-out, one packet or command of others, one bus reset.
- *Portal*: a pool of two tasks, one app and one page, three calls, a buffer of six bytes
  with requests below, at and beyond its end, one fault.
- *Radio*: two spreading factors, two host commands, two packets and two failures, so
  that a failure can follow a cut transfer, a transmission can follow a failed
  configure, and a packet can arrive at every command of reading another.

Deadlock is checked for `Bridge`, where sessions come and go for ever, and for
`Radio`, where `lora_task` loops for ever. In the
other modules the clock, or the number of requests, is bounded and the end of it
is not a deadlock of the hub; `JobsEnd`, `PostEnds`, `Served`, `BackToListening` and
`Announced` say that nothing is left waiting.

### Fairness

Weak fairness of a task's step stands for the executor: a task that was woken is
polled, and no task runs without awaiting. It is assumed of `bridge_task`,
`lora_task`, `gateway_task`, `hub_ctrl_task` and the portal's connections, and in `Bridge` of
the delivery by `mqtt_task` during a session: its `select3` polls the broker's packets first,
and there are at most `MaxDownlinks` of them, so the claim of `Resolved` is for a broker that
pauses. Radio
operations end because each wait in the driver has a timeout (in `Radio`, where they
are not one step, `lora_task` is polled and a transmission of the chip ends), and socket writes
because the sockets have one of ten seconds. In `Gateway` time passes. In `Network`,
fairness is asked of `wifi_task`, `mqtt_task`, the stack and the broker, and of steps that
are not faults only; in `Serial` of the hub's tasks
and of the reads of a host that waits, not of its sending; in `Portal` of the HTTP tasks and
the restart. Apart from the broker reading what it is sent, nothing is
assumed of the broker, the network server, the serial host, the air or the flash.
The control task's `select` prefers the serial queue, so a host that never stops
could starve the portal; `PostEnds` holds because a run has at most `MaxSerial`
commands, and the claim is no stronger than that.

## 4. Proofs

The theorems hold for all constants that satisfy the named assumptions of the module
(`LimiterAssumption`, `DutyCycleAssumption`, `GatewayDutyAssumption`, `BridgeAssumption`,
`SchedulerAssumption`, `GatewayAssumption`, `HorizonAssumption`, `ProvisioningAssumption`,
`RadioAssumption`, `NetworkAssumption`, `UpstreamAssumption`, `PortalAssumption`,
`CodecAssumption`, `SerialAssumption`): any capacities above zero, any number of tasks,
clients and connections, any sets of commands, requests, frequencies and addresses. Most of an assumption says
what kind of number a constant is, or how two constants of the source compare. Two parts
are about the environment: staging a transmission fits into `SetupLead`, and
`HorizonAssumption`, which section 2 explains.

Two theorems have a hypothesis of their own, because part of what they rest on is out of
the provers' reach or does not hold for every setting.

- `Each_Side_Understands` assumes `CodecAgrees`: `process_frame` makes of the frame of a
  command the command itself or an error, and `parse_response` reads every answer of
  `hub_ctrl_task` as it was meant. The codec is a fold over bytes, so this would take an
  induction over data. The run `serial` sends GetVersion, Reboot, GetNetworkConfig and a
  malformed frame, and takes their answers, so `Understood` fails there if one of these does
  not agree; the other layouts are covered only by the round trips of all short strings, which
  `MCSerial` has as assumptions for TLC to evaluate. The theorem is what the tasks, queues and
  the link make of it.
- `Claim_Covers` assumes `ExactRequests`: a symbol lasts a whole number of microseconds
  (31.25, 62.5, 125, 250 and 500 kHz, the bandwidths of LoRaWAN among them). `MCUpstream`
  asserts it of its requests. For 7.8, 10.4, 15.6, 20.8 and 41.7 kHz the code rounds each
  symbol down and the claim may fall short by less than a microsecond per symbol.

| Theorems | Module | States |
|---|---|---|
| `DutyTypeCorrect`, `Limiter_Fits_Band`, `Window_Budget`, `Limiter_Correct`, `Retry_Hint_Exact` | `ForwarderProofs` | every property of `duty_cycle` |
| `Band_Budget`, `Overflow_Is_Own`, `Five_Entries_Suffice` | `ForwarderProofs` | both properties of `gateway_duty`; `BandBudget` for a map that has room for every sub-band, which five entries are |
| `Upstream_Correct`, `Claim_Covers` | `ForwarderProofs` | both properties of `upstream` |
| `TypeCorrect`, `Correlation_Correct`, `Report_Correct`, `Losses_Counted` | `BridgeProofs` | the safety properties of `bridge` |
| `On_Target`, `Missed_For_A_Reason`, `Gateway_Correct` | `GatewayProofs` | the safety properties of `gateway` |
| `ProvisioningTypeCorrect`, `Stored_Correct`, `Answers_Correct`, `Implements_Service`, `Omitted_As_Booted` | `ProvisioningProofs` | the safety properties and the refinement of `provisioning` |
| `RadioTypeCorrect`, `Flag_Truthful`, `No_Silent_Loss`, `Air_Claimed`, `Published_Once`, `On_Air_As_Claimed` | `RadioProofs` | the safety properties of `radio` |
| `Network_Correct`, `Status_Truthful`, `Lost_With_Session` | `NetworkProofs` | the safety properties of `network` |
| `Serial_Correct`, `In_Step`, `Each_Side_Understands` | `SerialProofs` | the safety properties of `serial` |
| `Portal_Correct`, `Told_The_Truth`, `Applied_Under_Lock` | `PortalProofs` | the safety properties of `portal`, and that updates are applied by one task at a time |

### The arguments

- `ForwarderProofs`, one limiter. The sums are the library's, a recursion over finite
  sets, and the library's induction rules cannot be instantiated. `LeastNatural` (a
  non-empty set of naturals has a least member) replaces them, and `SumRemove`,
  `SumDisjoint` and the rest of the algebra follow. The ring is then compared with the
  history: each cell holds what was granted in its slot (`Tracks`), which rotation
  (`AdvanceTracks`) and a charge (`ChargeTracks`) preserve, so the sum that `try_claim`
  compares with the allowance is the airtime of the slots the ring covers, and no window
  of `BucketCount - 1` buckets can hold more than the allowance (`ChargeWindow`). The
  inductive invariant is `Sound`: the limiter is well formed, tracks the history and
  every window keeps to the budget. `RetryExact` shows that the hint is the least wait:
  the buckets whose expiry it names free enough, and any shorter wait expires fewer.
- `ForwarderProofs`, a limiter per sub-band. `GateInv` says that each limiter of the map is
  `Sound` for what its own sub-band was charged, and that a sub-band without a limiter has been charged nothing
  as long as the map is not full. `Band_Budget` needs that the sub-bands in use fit into the
  map; `gateway_duty_five` shows that the hypothesis cannot be dropped. `Overflow_Is_Own`
  holds whatever the size.
- `ForwarderProofs`, the accounts. `AcksMatchJobs` compares two counters with sums over the
  downlinks, so a step that answers one datagram must move one term of the sum: the same
  algebra of sums gives it (`OneMoreReply`, `OneMoreJob`, `AnswersMatch`). It is inductive
  beside the types. `AcksEarned` is not: an acknowledgement on its way will still be
  counted. `AcksInFlightEarned` puts the acknowledgements and the PUSH_DATAs in flight into
  the balance, each of which may add one or has to be answered by one. `HoldsPinhole`
  follows from `KeepaliveRuns`: no more ticks have passed since the task began to serve, or
  last sent PULL_DATA, than its own `elapsed` says.
- `ForwarderProofs`, the airtime. The chip sends the least whole number of symbol blocks
  that holds the payload (`Least`), and the code computes a rounded-up quotient
  (`CeilDiv`); `CeilDivBounds` and `LeastBlocks` show that they are the same number, also
  where the numerator is negative and both are clamped to zero. With exact symbols
  (`WholeSymbols`) the products agree, rounding the microseconds up to milliseconds only adds
  (`MillisecondsCover`), and SF5 and SF6, which the code charges as SF7, are the easy side.
- `BridgeProofs`. `TypeCorrect` first; `PublishLemma`, `TailLemma` and `AppendLemma`
  say what the channel operations leave in the queues, `FiniteMap` what an insert
  and a removal do to the table. `Correlated` is not inductive: a response must
  also be the only one for its id, or the first would remove the entry that the
  second needs. `CorrelationInv` therefore adds `Ordered` (the downlinks on their
  way stand in the order of their arrival, from MQTT_IN through COMMAND and the
  radio to RESPONSE, and are pairwise different), `Matched` (each command and
  response has its entry, hence no two of them share an id) and `Pending` (a
  downlink on its way has no result yet, and its response agrees with what the
  radio did). The premise `~overrun` says that no id was reused while
  awaited; with ids modulo 2^16 and four entries that takes 65,536 downlinks
  during one wait, or a leaked entry that is as old.
  `LossesCounted` is inductive beside the types. A publication pushes out the e oldest
  messages of the channel and adds e to the loss counter (`PublishExact`); the ids that
  lose their last message, and the packets that lose theirs, are at most e because
  positions in the queue map onto them (`ShiftedNames`, `ShiftedPackets`). The proof
  needs no premise about ids, so `LeakIsCounted` has none.
- `GatewayProofs`. `TimeInv` carries, for every job in the queue, what can still delay it:
  the rest of the turn in progress (`Left`), a `Turn` for each job in front and the packets
  and failures still to come. The sum stays within half a turn of the counter
  (`WaitsInTime`), so that the difference `classify` looks at is the true one
  (`DeltaNames`), and with `Deadlines` a job in hand is fired at its instant: `On_Target`.
  `ClearInTime` says that a job accepted while the radio was free has time for the packets
  that can still be heard, so it can only be missed after a failure:
  `Missed_For_A_Reason`. `LedgerInv` gives every PULL_RESP one fate, one number in the
  queue or in hand, and at most one transmission (`Numbered`, `FiredOnce`), balances the
  counters against the fates (`Accounts`) and knows where the radio may be off the uplink
  channel (`OnUplink`): `Gateway_Correct`.
- `ProvisioningProofs`. `ProvisioningInv` says what `APPLY_LOCK` protects: the holder
  is the only connection in an exchange (`LockHeld`), the channels are empty outside
  of one (`Quiet`), the exchange has exactly one request or one reply in them and
  the number of the holder's stored commands is known (`Exchange`), and without a
  flash failure the pending configuration is the promised one (`InStep`; the stored
  one alone is not inductive, since the next save writes the pending one). The types
  show that the channels of depth two never back up.
  For `Implements_Service` each action is mapped by a lemma of its own to a step of
  `SettingsService` or to a stutter (`PostMaps`, `EnterMaps`, ..., `ResetMaps`). `Unseen` and
  `ViewAlone` are the heart: a step of one connection does not change how the others are
  seen, because only the holder of the lock is seen through the channels.
  `Omitted_As_Booted` needs in addition that the commands of an exchange, sent and
  unsent, come from the holder's own update (`FromOwn`).
- `RadioProofs`. `Programs` states what the proofs need of the command sequences:
  they begin with SetStandby or GetIrqStatus, and `SetRx` ends `start_receive_mode`.
  `FlagTruthful` is not inductive: `RadioInv` adds that a cut transfer is met by the
  first command of an operation only (`CutAtStart`), that the mask is in place
  before `SetRx` (`MaskSet`), and where the flag can be set at all and what may then be
  left in a cut transfer (`FlagWhere`: commands of a read, which do not stop the
  receiver when the chip executes them late). `Air_Claimed` adds that a claim is kept
  for the transmission under way and one for a SetTx in a cut transfer (`ClaimsHeld`).
  `Published_Once` adds `PacketInv`, which speaks of the packet in the chip. If it is neither
  in `overtook` nor in `misread`, its pending interrupt says that it is new and whether it is
  corrupt (`PendingNew`), and the interrupts read are the pending ones until they are cleared
  (`StatusFresh`). If it overtook another, it can have been published by the last publication
  only (`Once`), while it was fetched under the other's interrupt and its own stayed pending
  (`FetchNew`); so at most twice. The packets before it are not touched and the next one is
  new again, which is why the damage does not spread.
  `On_Air_As_Claimed` adds `ParamsInv`: how far `init` and `configure` have come at each of
  their commands, and that chip, driver and dispatcher agree outside of them.
- `NetworkProofs`. Three inductive invariants. The supervisor's (`StationInv`) counts the
  waits since the last association and names each of them; the doubling is exact because a
  power of two is the number of subsets of an interval (`PowerOfTwo`), which gives it
  without induction. `WatchInv` says what the address watcher can have missed while it
  waits. `SessionInv` orders the publications from the queue through the wires to the
  broker and keeps the one that was taken for the open connection on one of them.
- `SerialProofs`. The messages carry the number of their command, and `SerialIndInv` says
  where a number can be: a command, then its answer, is in one place at a time
  (`OnePlace`), nothing of a frame comes after its last packet (`LastIsLast`), only a
  received packet comes unasked (`Unasked`), and what was taken for an answer is under way no
  more (`Taken`). `Discipline` is the host's side, one exchange at a time, and `Outstanding`
  the result: what is under way was given up, but for one. Together they give `InStep`: an
  answer taken for another command was under way when that command was sent, so an earlier
  exchange had been given up. They also give `DropNeedsTimeouts`: a full HUB_CHANNEL and the
  command that finds it full are under way, and at most one of them is awaited. `Carried`
  adds the contents for `Understood`: each place holds what the host meant by the command
  with that number, or what the hub can answer to it.
- `PortalProofs`. `SameRequest` ties the two records of a connection to each other: the
  request a task has read is the client's last. `TaskOK` says of each place of a task what
  holds there: nothing goes past reading but on a whole request, while an update is applied
  its first n groups are stored and the others left (`Applied`), and the answer that waits to
  be written says what became of them (`Verdict`). `ClientOK` says what a client may have
  been told. With `SameRequest`, the verdict about a task's request is one about the
  client's own update, which is `ToldTheTruth`. `AppliedUnderLock` is inductive with the
  types.

### What the proofs changed

An attempt that failed was looked into with TLC on larger or different instances, and
corrected the models in these places: the premise of `LeakIsCounted` was dropped as not
needed; `PublishedOnce` failed with three failures (a packet whose interrupt was masked
while another was pending, in `Mistakable`), and its exceptions are now those of single
packets; `Resolved` holds although the id of a leaked entry can be used again, which removes
the entry without a result, because the loss is recorded where it happened; `OnTarget` needs
`HorizonAssumption`; noise can hold a job back (`PollAgain`, `heard`); `GivesUpLate` says
exactly which waits came before, where it gave a lower bound for their sum; `BandBudget`
speaks of the frequencies that `accept` lets through; `DropNeedsTimeouts` did not count
reboots, and failed with more than three commands: the answer to a reboot is not awaited, but
when its frame is damaged there is one, an Error that a later command is given.

### Only model-checked

- Liveness (`Resolved`, `JobsEnd`, `PostEnds`, `StaysAlive`, `FallsBack`, `Announced`,
  `Served`, `SavedThenRestarts`, `BackToListening`), which the provers do not handle.
- The layouts of `HubCodec`, that is, `CodecAgrees`: what a recursive definition computes
  for every input needs an induction rule that the provers cannot instantiate.
- The airtime at bandwidths whose symbols do not last whole microseconds.

## 5. Not modelled

- The text of JSON, base64, hex and HTTP: the tasks are modelled on the fields that a
  message carries, or on its being malformed. `bridge/codec.rs` is nothing but such text.
- DHCP and DNS of the portal: each answers a datagram from its own bytes and keeps no
  state between two of them.
- COBS and the checksum of the serial frames, in the `wt-protocol` and `corncobs` crates.
- LED and debug tasks, which keep no state that another part reads.
- Hardware set-up in `main.rs` apart from the choice of the configuration.
- The app's generated bindings, its fake hub and its user interface.
- The values of the chip's registers; `Radio` keeps the configuration they come from.

## 6. Plan

Every component that changes state is modelled, and every safety property and action
property of a passing run is proved for all constants, two of them under the hypotheses
named in section 4. What could be added:

1. An abstract service for the serial path, with `Serial` shown to implement it as
   `Provisioning` implements `SettingsService`; `InStep` and `Understood` are its parts.
2. DHCP and DNS of the portal, should they come to keep state between datagrams.
3. When `MAX_BANDS` or the duty cycle tables change: `Five_Entries_Suffice` and
   `Limiter_Fits_Band` are the theorems that depend on their values.
