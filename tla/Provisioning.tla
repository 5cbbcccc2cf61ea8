------------------------------ MODULE Provisioning ------------------------------
(***************************************************************************)
(* How the hub is configured: hub_ctrl_task owns a pending copy of the     *)
(* configuration and the flash, and takes commands from the serial port    *)
(* (HUB_CHANNEL) and from the captive portal (PORTAL_REQUEST, answered in  *)
(* PORTAL_REPLY).  The portal serves a pool of connections; APPLY_LOCK     *)
(* lets one of them at a time send its commands.  What is stored becomes   *)
(* active at the next boot.                                                *)
(*                                                                         *)
(* A step is what a task does between two awaits.  The flash driver blocks *)
(* and never yields, so handling a command is one step.  In the gateway    *)
(* group the port stands for every value that gateway_settings_valid       *)
(* checks, and in the MQTT group the host stands for the client id too.    *)
(***************************************************************************)
EXTENDS Integers, Sequences, FiniteSets

CONSTANTS
  Conns,           \* the pool of HTTP tasks (3)
  HubCap,          \* capacity of HUB_CHANNEL (4)
  PortalCap,       \* capacity of PORTAL_REQUEST and PORTAL_REPLY (2)
  Text,            \* the strings that names and passwords are taken from
  Empty,           \* the empty string
  Default,         \* HubConfig::default(), baked at build time
  SerialCommands,  \* what the serial host may ask for
  Updates,         \* what a POST may ask for: functions from field names to values
  Schema,          \* CONFIG_SCHEMA_VERSION
  MaxSerial,       \* bound: serial commands
  MaxPosts,        \* bound: POST requests
  MaxFaults,       \* bound: failures of the flash
  MaxBoots         \* bound: resets

(* The Rust types of the settings.                                         *)
WifiSettings == [ssid : Text, password : Text]
Endpoint == [host : Text, port : Nat]      \* MqttSettings and GatewaySettings
HubMode == {"bridge", "gateway"}
HubConfig ==
  [version : Nat, wifi : WifiSettings, mqtt : Endpoint, gateway : Endpoint, mode : HubMode]

(* Nothing is stored.                                                      *)
NoConfig == [version |-> -1]

(* A HubCommand that changes the configuration: the group it sets and its  *)
(* new value, or ClearNetworkConfig.                                       *)
Clear == [kind |-> "clear"]
HubCommand ==
  {Clear} \cup [kind : {"wifi"}, value : WifiSettings]
          \cup [kind : {"mqtt", "gateway"}, value : Endpoint]
          \cup [kind : {"mode"}, value : HubMode]

(* A ConfigUpdate: every field is optional.                                *)
Names == {"wifi_ssid", "wifi_password", "mqtt_host", "gw_host"}
Ports == {"mqtt_port", "gw_port"}
IsUpdate(update) ==
  /\ DOMAIN update \subseteq Names \cup Ports \cup {"mode"}
  /\ \A field \in DOMAIN update :
       /\ field \in Names => update[field] \in Text
       /\ field \in Ports => update[field] \in Nat
       /\ field = "mode" => update[field] \in HubMode

(* Nobody holds APPLY_LOCK.                                                *)
Free == "free"

ASSUME ProvisioningAssumption ==
  /\ Free \notin Conns
  /\ HubCap \in Nat \ {0} /\ PortalCap \in Nat \ {0}
  /\ Empty \in Text /\ Schema \in Nat
  /\ Default \in HubConfig /\ Default.version = Schema
  /\ SerialCommands \subseteq HubCommand
  /\ \A update \in Updates : IsUpdate(update)
  /\ MaxSerial \in Nat /\ MaxPosts \in Nat /\ MaxFaults \in Nat /\ MaxBoots \in Nat

VARIABLES
  flash,       \* the stored HubConfig, or NoConfig
  store,       \* whether ConfigStore::new succeeded at boot
  active,      \* the configuration the hub booted with
  pending,     \* hub_ctrl_task's working copy
  hubQ,        \* HUB_CHANNEL
  requests,    \* PORTAL_REQUEST; the connection is there for the properties
  replies,     \* PORTAL_REPLY: the status of each acknowledgement
  conn,        \* the state of each HTTP task
  lock,        \* the connection that holds APPLY_LOCK, if any
  rebooting,   \* ADMIN_CHANNEL holds a Reboot
  acked,       \* history: how many of a connection's commands were stored
  promised,    \* history: the configuration that the Ok answers add up to
  taint,       \* history: a flash failure since boot: "none", "save", "load"
  serials, posts, faults, boots   \* history: counts for the bounds

device == <<flash, store, active, pending>>
portal == <<requests, replies, conn, lock, acked>>
bounds == <<serials, posts, faults, boots>>
vars == <<device, hubQ, portal, rebooting, promised, taint, bounds>>

(* An HTTP task: where it awaits, the update it applies, the commands it   *)
(* still has to send and the status it answers with.                       *)
ConnState ==
  [pc : {"idle", "lock", "wait", "respond", "reboot", "halted"},
   update : Updates \cup {<<>>}, commands : Seq(HubCommand), status : {"none", "200", "400", "422"}]
ConnAt(place, update) ==
  [pc |-> place, update |-> update, commands |-> <<>>, status |-> "none"]
IdleConn == ConnAt("idle", <<>>)

-----------------------------------------------------------------------------
(* hub_config.                                                             *)

select_config(stored) ==
  IF stored # NoConfig /\ stored.version = Schema THEN stored ELSE Default

(* mqtt.port # 0, and gateway_settings_valid.                              *)
Valid(command) == command.kind \in {"mqtt", "gateway"} => command.value.port # 0

(* What apply_command makes of a configuration.                            *)
Applied(config, command) ==
  IF command = Clear THEN Default ELSE [config EXCEPT ![command.kind] = command.value]

(* A value is applied to the pending configuration before it is validated. *)
HandleUnvalidated(command, status) ==
  /\ pending' = Applied(pending, command)
  /\ \/ /\ ~Valid(command) /\ status = "InvalidValue"
        /\ UNCHANGED <<flash, promised, taint, faults>>
     \/ /\ Valid(command) /\ store /\ status = "Ok"
        /\ flash' = IF command = Clear THEN NoConfig ELSE Applied(pending, command)
        /\ promised' = Applied(promised, command)
        /\ UNCHANGED <<taint, faults>>

(* handle: apply_command, then persist.  When the write fails, or there is *)
(* no store, the pending configuration keeps the change.                   *)
handle(command, status) ==
  \/ /\ ~Valid(command) /\ status = "InvalidValue"
     /\ UNCHANGED <<pending, flash, promised, taint, faults>>
  \/ /\ Valid(command) /\ store /\ status = "Ok"
     /\ pending' = Applied(pending, command)
     /\ flash' = IF command = Clear THEN NoConfig ELSE Applied(pending, command)
     /\ promised' = Applied(promised, command)
     /\ UNCHANGED <<taint, faults>>
  \/ /\ Valid(command) /\ status = "StorageError"
     /\ \/ ~store /\ UNCHANGED faults
        \/ store /\ faults < MaxFaults /\ faults' = faults + 1
     /\ pending' = Applied(pending, command)
     /\ taint' = IF taint = "load" THEN "load" ELSE "save"
     /\ UNCHANGED <<flash, promised>>

Statuses == {"Ok", "InvalidValue", "StorageError"}

-----------------------------------------------------------------------------
(* serial_reader_task.                                                     *)

(* try_send: a command that finds HUB_CHANNEL full is dropped.             *)
SerialCommand(command) ==
  /\ serials < MaxSerial
  /\ serials' = serials + 1
  /\ hubQ' = IF Len(hubQ) < HubCap THEN Append(hubQ, command) ELSE hubQ
  /\ UNCHANGED <<device, portal, rebooting, promised, taint, posts, faults, boots>>

(* The stock Reboot command, on its way through lora_task.                 *)
SerialReboot ==
  /\ serials < MaxSerial
  /\ serials' = serials + 1
  /\ rebooting' = TRUE
  /\ UNCHANGED <<device, hubQ, portal, promised, taint, posts, faults, boots>>

-----------------------------------------------------------------------------
(* hub_ctrl_task: select polls HUB_CHANNEL before PORTAL_REQUEST.          *)

HubCtrlSerial ==
  /\ hubQ # <<>>
  /\ hubQ' = Tail(hubQ)
  /\ \E status \in Statuses : handle(Head(hubQ), status)
  /\ UNCHANGED <<store, active, portal, rebooting, serials, posts, boots>>

HubCtrlPortal ==
  /\ hubQ = <<>> /\ requests # <<>>
  /\ requests' = Tail(requests)
  /\ \E status \in Statuses :
       /\ handle(Head(requests).command, status)
       /\ replies' = Append(replies, status)
       /\ acked' = IF status = "Ok" THEN [acked EXCEPT ![Head(requests).conn] = @ + 1]
                   ELSE acked
  /\ UNCHANGED <<store, active, hubQ, conn, lock, rebooting, serials, posts, boots>>

-----------------------------------------------------------------------------
(* The portal's HTTP tasks.                                                *)

(* The broker's address goes to the wrong group.                           *)
CommandsSpill(update, current) ==
  LET Get(field, old) == IF field \in DOMAIN update THEN update[field] ELSE old
      Part(fields, kind, value) ==
        IF fields \cap DOMAIN update = {} THEN <<>>
        ELSE << [kind |-> kind, value |-> value] >>
  IN     Part({"wifi_ssid"}, "wifi",
              [ssid     |-> Get("wifi_ssid", current.wifi.ssid),
               password |-> Get("wifi_password", Empty)])
      \o Part({"mqtt_host", "mqtt_port"}, "gateway",
              [host |-> Get("mqtt_host", current.mqtt.host),
               port |-> Get("mqtt_port", current.mqtt.port)])

(* The commands of a POST, in order; what the update omits of a group that *)
(* it touches is filled in from the active configuration, and an omitted   *)
(* password is empty.                                                      *)
commands_from_update(update, current) ==
  LET Get(field, old) == IF field \in DOMAIN update THEN update[field] ELSE old
      Part(fields, kind, value) ==
        IF fields \cap DOMAIN update = {} THEN <<>>
        ELSE << [kind |-> kind, value |-> value] >>
  IN     Part({"wifi_ssid"}, "wifi",
              [ssid     |-> Get("wifi_ssid", current.wifi.ssid),
               password |-> Get("wifi_password", Empty)])
      \o Part({"mqtt_host", "mqtt_port"}, "mqtt",
              [host |-> Get("mqtt_host", current.mqtt.host),
               port |-> Get("mqtt_port", current.mqtt.port)])
      \o Part({"gw_host", "gw_port"}, "gateway",
              [host |-> Get("gw_host", current.gateway.host),
               port |-> Get("gw_port", current.gateway.port)])
      \o Part({"mode"}, "mode", Get("mode", current.mode))

(* A complete POST request has been read; the task awaits APPLY_LOCK.      *)
Post(c, update) ==
  /\ conn[c].pc = "idle" /\ posts < MaxPosts
  /\ posts' = posts + 1
  /\ conn' = [conn EXCEPT ![c] = ConnAt("lock", update)]
  /\ UNCHANGED <<device, hubQ, requests, replies, lock, acked, rebooting, promised, taint,
                 serials, faults, boots>>

(* Send the first of a non-empty sequence of commands and await the reply. *)
SendNext(c, commands) ==
  /\ requests' = Append(requests, [conn |-> c, command |-> Head(commands)])
  /\ conn' = [conn EXCEPT ![c].pc = "wait", ![c].commands = Tail(commands)]

Respond(c, status) ==
  /\ conn' = [conn EXCEPT ![c].pc = "respond", ![c].status = status]
  /\ UNCHANGED requests

(* Two connections apply their updates at the same time.                   *)
EnterUnlocked(c) ==
  LET commands == commands_from_update(conn[c].update, active)
  IN  /\ conn[c].pc = "lock"
      /\ lock' = c
      /\ acked' = [acked EXCEPT ![c] = 0]
      /\ IF commands = <<>> THEN Respond(c, "400") ELSE SendNext(c, commands)
      /\ UNCHANGED <<device, hubQ, replies, rebooting, promised, taint, bounds>>

(* APPLY_LOCK is taken: an update without anything to apply is answered    *)
(* with 400, any other sends its first command.                            *)
Enter(c) ==
  LET commands == commands_from_update(conn[c].update, active)
  IN  /\ conn[c].pc = "lock" /\ lock = Free
      /\ lock' = c
      /\ acked' = [acked EXCEPT ![c] = 0]
      /\ IF commands = <<>> THEN Respond(c, "400") ELSE SendNext(c, commands)
      /\ UNCHANGED <<device, hubQ, replies, rebooting, promised, taint, bounds>>

(* A command that is not acknowledged is skipped.                          *)
ReplySkips(c) ==
  /\ conn[c].pc = "wait" /\ replies # <<>>
  /\ replies' = Tail(replies)
  /\ \/ conn[c].commands = <<>> /\ Respond(c, "200")
     \/ conn[c].commands # <<>> /\ SendNext(c, conn[c].commands)
  /\ UNCHANGED <<device, hubQ, lock, acked, rebooting, promised, taint, bounds>>

(* apply_via_hub_ctrl returns: the first command that is not acknowledged  *)
(* with Ok ends the update.                                                *)
Reply(c) ==
  /\ conn[c].pc = "wait" /\ replies # <<>>
  /\ replies' = Tail(replies)
  /\ \/ Head(replies) # "Ok" /\ Respond(c, "422")
     \/ Head(replies) = "Ok" /\ conn[c].commands = <<>> /\ Respond(c, "200")
     \/ Head(replies) = "Ok" /\ conn[c].commands # <<>> /\ SendNext(c, conn[c].commands)
  /\ UNCHANGED <<device, hubQ, lock, acked, rebooting, promised, taint, bounds>>

(* A failed write returns without giving the lock back.                    *)
FinishKeepsLock(c, delivered) ==
  /\ conn[c].pc = "respond"
  /\ lock' = IF delivered THEN Free ELSE lock
  /\ conn' = [conn EXCEPT ![c] =
                IF delivered /\ conn[c].status = "200"
                THEN ConnAt("reboot", <<>>) ELSE IdleConn]
  /\ UNCHANGED <<device, hubQ, requests, replies, acked, rebooting, promised, taint, bounds>>

(* The response is written, or the socket fails; either way the guard is   *)
(* dropped, and only a delivered 200 leads to a reboot.                    *)
Finish(c, delivered) ==
  /\ conn[c].pc = "respond"
  /\ lock' = Free
  /\ conn' = [conn EXCEPT ![c] =
                IF delivered /\ conn[c].status = "200"
                THEN ConnAt("reboot", <<>>) ELSE IdleConn]
  /\ UNCHANGED <<device, hubQ, requests, replies, acked, rebooting, promised, taint, bounds>>

(* Half a second later: Reboot to the admin task; this task stops.         *)
RequestReboot(c) ==
  /\ conn[c].pc = "reboot"
  /\ rebooting' = TRUE
  /\ conn' = [conn EXCEPT ![c].pc = "halted"]
  /\ UNCHANGED <<device, hubQ, requests, replies, lock, acked, promised, taint, bounds>>

-----------------------------------------------------------------------------
(* The software reset and the boot after it: the store may not open, and   *)
(* load may find nothing readable.                                         *)
Boot(opened, readable) ==
  /\ store' = opened
  /\ active' = IF opened /\ readable THEN select_config(flash) ELSE Default
  /\ pending' = active'
  /\ taint' = IF active' = select_config(flash) THEN "none" ELSE "load"

Reset ==
  /\ rebooting /\ boots < MaxBoots
  /\ boots' = boots + 1
  /\ \E opened, readable \in BOOLEAN :
       /\ Boot(opened, readable)
       /\ IF opened /\ readable THEN UNCHANGED faults
          ELSE faults < MaxFaults /\ faults' = faults + 1
  /\ promised' = IF taint = "none" THEN promised ELSE select_config(flash)
  /\ hubQ' = <<>> /\ requests' = <<>> /\ replies' = <<>>
  /\ conn' = [c \in Conns |-> IdleConn] /\ lock' = Free
  /\ acked' = [c \in Conns |-> 0]
  /\ rebooting' = FALSE
  /\ UNCHANGED <<flash, serials, posts>>

(* The first boot, on a flash that is empty or was written by firmware     *)
(* with the same or another schema.                                        *)
Init ==
  /\ flash \in {NoConfig, Default, [Default EXCEPT !.version = Schema + 1]}
  /\ store = TRUE
  /\ active = select_config(flash) /\ pending = active /\ promised = active
  /\ taint = "none"
  /\ hubQ = <<>> /\ requests = <<>> /\ replies = <<>>
  /\ conn = [c \in Conns |-> IdleConn] /\ lock = Free
  /\ acked = [c \in Conns |-> 0]
  /\ rebooting = FALSE
  /\ serials = 0 /\ posts = 0 /\ faults = 0 /\ boots = 0

Next ==
  \/ \E command \in SerialCommands : SerialCommand(command)
  \/ SerialReboot
  \/ HubCtrlSerial
  \/ HubCtrlPortal
  \/ \E c \in Conns :
       \/ \E update \in Updates : Post(c, update)
       \/ Enter(c)
       \/ Reply(c)
       \/ \E delivered \in BOOLEAN : Finish(c, delivered)
       \/ RequestReboot(c)
  \/ Reset

(* The executor polls every woken task, and a write to a socket ends       *)
(* within its timeout of ten seconds.                                      *)
Fairness ==
  /\ WF_vars(HubCtrlSerial) /\ WF_vars(HubCtrlPortal)
  /\ \A c \in Conns :
       /\ WF_vars(Enter(c)) /\ WF_vars(Reply(c))
       /\ WF_vars(\E delivered \in BOOLEAN : Finish(c, delivered))

Spec == Init /\ [][Next]_vars
FairSpec == Spec /\ Fairness

-----------------------------------------------------------------------------
(* The channels stay within their capacities although the portal's sends   *)
(* are never made to wait ("a depth of 2 never backs up").                 *)
TypeOK ==
  /\ flash \in HubConfig \cup {NoConfig}
  /\ active \in HubConfig /\ pending \in HubConfig /\ promised \in HubConfig
  /\ active.version = Schema /\ pending.version = Schema
  /\ store \in BOOLEAN /\ rebooting \in BOOLEAN /\ taint \in {"none", "save", "load"}
  /\ hubQ \in Seq(HubCommand) /\ Len(hubQ) <= HubCap
  /\ requests \in Seq([conn : Conns, command : HubCommand]) /\ Len(requests) <= PortalCap
  /\ replies \in Seq(Statuses) /\ Len(replies) <= PortalCap
  /\ conn \in [Conns -> ConnState]
  /\ lock \in Conns \cup {Free}
  /\ acked \in [Conns -> Nat]

(* What the next boot will find is what the answers said: the stored       *)
(* configuration is the result of exactly the commands, of the serial host *)
(* and of every portal connection, that were acknowledged with Ok, as long *)
(* as the flash has not failed since boot.                                 *)
StoredAsAcknowledged ==
  taint = "none" => select_config(flash) = promised

(* How many commands of its update a connection has sent.                  *)
Sent(c) ==
  Len(commands_from_update(conn[c].update, active)) - Len(conn[c].commands)

(* A portal connection's answer is about its own update: 200 only when all *)
(* of its commands were stored, 422 only when one of them was not, however *)
(* the connections and the serial host take turns at the control task.     *)
AnswersOwnUpdate ==
  \A c \in Conns : conn[c].pc = "respond" =>
    /\ conn[c].status = "200" => acked[c] = Sent(c) /\ conn[c].commands = <<>>
    /\ conn[c].status = "422" => acked[c] = Sent(c) - 1
    /\ conn[c].status = "400" => acked[c] = 0 /\ Sent(c) = 0

(* A POST is answered, or its socket fails, or the hub restarts: lock and  *)
(* channels never leave a connection waiting for ever.                     *)
PostEnds ==
  \A c \in Conns :
    conn[c].pc \in {"lock", "wait", "respond"} ~> conn[c].pc \in {"idle", "reboot"}
=============================================================================
