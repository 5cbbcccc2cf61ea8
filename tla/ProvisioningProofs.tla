--------------------------- MODULE ProvisioningProofs ---------------------------
(***************************************************************************)
(* Proofs about Provisioning, for any pool of connections, any capacities, *)
(* commands and updates.  The inductive invariant says what APPLY_LOCK     *)
(* protects: at most one exchange with the control task is under way, it   *)
(* belongs to the holder of the lock, and the number of the holder's       *)
(* commands stored so far is known; and that, without a flash failure, the *)
(* pending configuration is the stored one.  On it rest the refinement of  *)
(* SettingsService and what an update does to the settings it omits.       *)
(***************************************************************************)
EXTENDS ProvisioningRefinement, TLAPS

(* The lock is held from the first command to the end of the response.     *)
LockHeld == \A c \in Conns : conn[c].pc \in {"wait", "respond"} <=> lock = c

(* A connection has no commands before the lock and after the response.    *)
Fresh ==
  \A c \in Conns : conn[c].pc \in {"lock", "reboot"} => conn[c].commands = <<>>

(* The channels are empty unless the holder of the lock awaits a reply.    *)
Quiet ==
  (\A c \in Conns : conn[c].pc # "wait") => requests = <<>> /\ replies = <<>>

(* The holder's command is in one of the two channels.                     *)
Exchange ==
  \A c \in Conns : conn[c].pc = "wait" =>
    \/ /\ Len(requests) = 1 /\ replies = <<>>
       /\ requests[1].conn = c
       /\ acked[c] = Sent(c) - 1
    \/ /\ requests = <<>> /\ Len(replies) = 1
       /\ acked[c] = IF replies[1] = "Ok" THEN Sent(c) ELSE Sent(c) - 1

(* Without a flash failure the pending configuration is what the answers   *)
(* add up to, and so is the stored one.                                    *)
InStep == taint = "none" => pending = promised /\ select_config(flash) = promised

ProvisioningInv ==
  /\ TypeOK /\ LockHeld /\ Fresh /\ Quiet /\ Exchange /\ AnswersOwnUpdate /\ InStep

-----------------------------------------------------------------------------
(* The head of a channel has the type of its items.                        *)
LEMMA SeqHead ==
  ASSUME NEW S, NEW q \in Seq(S), q # <<>>
  PROVE  Head(q) = q[1] /\ q[1] \in S /\ Tail(q) \in Seq(S) /\ Len(Tail(q)) = Len(q) - 1
  OBVIOUS

(* A channel with one item is that item.                                   *)
LEMMA SeqOne ==
  ASSUME NEW S, NEW q \in Seq(S), Len(q) = 1
  PROVE  q = <<q[1]>> /\ Tail(q) = <<>>
<1>1. Tail(q) = <<>>
  <2> DEFINE rest == Tail(q)
  <2>1. rest \in Seq(S) /\ Len(rest) = 0
    <3>1. q # <<>> /\ Len(q) = 1
      OBVIOUS
    <3>2. Tail(q) \in Seq(S) /\ Len(Tail(q)) = Len(q) - 1
      BY <3>1, SeqHead
    <3> QED BY <3>1, <3>2
  <2> HIDE DEF rest
  <2>2. rest = <<>>
    BY <2>1
  <2> QED
    BY <2>2 DEF rest
<1>2. q \in [1..1 -> S] /\ <<q[1]>> \in [1..1 -> S] /\ <<q[1]>>[1] = q[1]
  OBVIOUS
<1>3. q = <<q[1]>>
  BY <1>2
<1> QED
  BY <1>1, <1>3

(* apply_command keeps a configuration well formed and its schema current. *)
LEMMA AppliedType ==
  ASSUME NEW config \in HubConfig, NEW command \in HubCommand
  PROVE  /\ Applied(config, command) \in HubConfig
         /\ config.version = Schema => Applied(config, command).version = Schema
  BY ProvisioningAssumption
     DEF Applied, HubCommand, HubConfig, Clear

(* select_config yields a configuration of the current schema.             *)
LEMMA SelectType ==
  ASSUME NEW stored \in HubConfig \cup {NoConfig}
  PROVE  select_config(stored) \in HubConfig /\ select_config(stored).version = Schema
  BY ProvisioningAssumption DEF select_config

(* A configuration of the current schema survives the reboot.              *)
LEMMA SelectStored ==
  ASSUME NEW config \in HubConfig, config.version = Schema
  PROVE  select_config(config) = config
<1>1. config # NoConfig
  BY ProvisioningAssumption DEF NoConfig
<1> QED
  BY <1>1 DEF select_config

(* A POST becomes a sequence of well-typed commands.                       *)
LEMMA CommandsType ==
  ASSUME NEW update \in Updates \cup {<<>>}, NEW current \in HubConfig
  PROVE  commands_from_update(update, current) \in Seq(HubCommand)
<1> DEFINE Get(field, old) == IF field \in DOMAIN update THEN update[field] ELSE old
           Part(fields, kind, value) ==
             IF fields \cap DOMAIN update = {} THEN <<>>
             ELSE << [kind |-> kind, value |-> value] >>
           wifi == [ssid     |-> Get("wifi_ssid", current.wifi.ssid),
                    password |-> Get("wifi_password", Empty)]
           mqtt == [host |-> Get("mqtt_host", current.mqtt.host),
                    port |-> Get("mqtt_port", current.mqtt.port)]
           gateway == [host |-> Get("gw_host", current.gateway.host),
                       port |-> Get("gw_port", current.gateway.port)]
           mode == Get("mode", current.mode)
<1>1. IsUpdate(update)
  BY ProvisioningAssumption DEF IsUpdate
<1>2. wifi \in WifiSettings
  BY <1>1, ProvisioningAssumption DEF IsUpdate, HubConfig, WifiSettings, Names, Ports
<1>3. mqtt \in Endpoint /\ gateway \in Endpoint
  BY <1>1 DEF IsUpdate, HubConfig, Endpoint, Names, Ports
<1>4. mode \in HubMode
  BY <1>1 DEF IsUpdate, HubConfig, Names, Ports
<1>5. /\ [kind |-> "wifi", value |-> wifi] \in HubCommand
      /\ [kind |-> "mqtt", value |-> mqtt] \in HubCommand
      /\ [kind |-> "gateway", value |-> gateway] \in HubCommand
      /\ [kind |-> "mode", value |-> mode] \in HubCommand
  BY <1>2, <1>3, <1>4 DEF HubCommand
<1> HIDE DEF wifi, mqtt, gateway, mode
<1>6. /\ Part({"wifi_ssid"}, "wifi", wifi) \in Seq(HubCommand)
      /\ Part({"mqtt_host", "mqtt_port"}, "mqtt", mqtt) \in Seq(HubCommand)
      /\ Part({"gw_host", "gw_port"}, "gateway", gateway) \in Seq(HubCommand)
      /\ Part({"mode"}, "mode", mode) \in Seq(HubCommand)
  BY <1>5
<1>7. commands_from_update(update, current)
        = Part({"wifi_ssid"}, "wifi", wifi)
            \o Part({"mqtt_host", "mqtt_port"}, "mqtt", mqtt)
            \o Part({"gw_host", "gw_port"}, "gateway", gateway)
            \o Part({"mode"}, "mode", mode)
  BY DEF commands_from_update, wifi, mqtt, gateway, mode
<1> HIDE DEF Part
<1> QED
  BY <1>6, <1>7

(* The connection states that the portal's steps produce are well typed.   *)
LEMMA ConnWait ==
  ASSUME NEW s \in ConnState, NEW q \in Seq(HubCommand)
  PROVE  [s EXCEPT !.pc = "wait", !.commands = q] \in ConnState
  BY DEF ConnState

LEMMA ConnRespond ==
  ASSUME NEW s \in ConnState, NEW status \in {"none", "200", "400", "422"}
  PROVE  [s EXCEPT !.pc = "respond", !.status = status] \in ConnState
  BY DEF ConnState

-----------------------------------------------------------------------------
(* Handling a command keeps the pending, the stored and the promised       *)
(* configuration in step, whatever the answer.                             *)
LEMMA HandleStep ==
  ASSUME TypeOK, InStep, NEW command \in HubCommand, NEW status \in Statuses,
         handle(command, status)
  PROVE  /\ pending' \in HubConfig /\ pending'.version = Schema
         /\ promised' \in HubConfig
         /\ flash' \in HubConfig \cup {NoConfig}
         /\ taint' \in {"none", "save", "load"}
         /\ InStep'
<1>1. Applied(pending, command) \in HubConfig /\ Applied(pending, command).version = Schema
  BY AppliedType DEF TypeOK
<1>2. Applied(promised, command) \in HubConfig
  BY AppliedType DEF TypeOK
<1>3. CASE ~Valid(command) /\ status = "InvalidValue"
            /\ UNCHANGED <<pending, flash, promised, taint, faults>>
  BY <1>3 DEF TypeOK, InStep
<1>4. CASE /\ store /\ status = "Ok"
           /\ pending' = Applied(pending, command)
           /\ flash' = IF command = Clear THEN NoConfig ELSE Applied(pending, command)
           /\ promised' = Applied(promised, command)
           /\ UNCHANGED <<taint, faults>>
  <2>1. select_config(flash') = Applied(pending, command)
    <3>1. CASE command = Clear
      BY <1>4, <3>1 DEF select_config, Applied
    <3>2. CASE command # Clear
      BY <1>1, <1>4, <3>2, SelectStored
    <3> QED BY <3>1, <3>2
  <2>2. flash' \in HubConfig \cup {NoConfig}
    BY <1>1, <1>4
  <2> QED
    BY <1>1, <1>2, <1>4, <2>1, <2>2 DEF TypeOK, InStep
<1>5. CASE /\ status = "StorageError"
           /\ pending' = Applied(pending, command)
           /\ taint' = IF taint = "load" THEN "load" ELSE "save"
           /\ UNCHANGED <<flash, promised>>
  BY <1>1, <1>5 DEF TypeOK, InStep
<1> QED
  BY <1>3, <1>4, <1>5 DEF handle

(* What the portal's part of the invariant speaks of.                      *)
PortalInv == LockHeld /\ Fresh /\ Quiet /\ Exchange /\ AnswersOwnUpdate

(* A step that leaves the portal alone keeps its part of the invariant.    *)
LEMMA PortalFrame ==
  ASSUME PortalInv, UNCHANGED <<active, portal>>
  PROVE  PortalInv'
<1>1. UNCHANGED <<active, requests, replies, conn, lock, acked>>
  BY DEF portal
<1>2. LockHeld' /\ Fresh' /\ Quiet'
  BY <1>1 DEF PortalInv, LockHeld, Fresh, Quiet
<1>3. Exchange'
  BY <1>1 DEF PortalInv, Exchange, Sent
<1>4. AnswersOwnUpdate'
  <2>1. \A c \in Conns : Sent(c)' = Sent(c)
    BY <1>1 DEF Sent
  <2> QED
    BY <1>1, <2>1 DEF PortalInv, AnswersOwnUpdate
<1> QED
  BY <1>2, <1>3, <1>4 DEF PortalInv

(* The first boot satisfies the invariant.                                 *)
LEMMA ProvisioningInit == Init => ProvisioningInv
<1> SUFFICES ASSUME Init PROVE ProvisioningInv
  OBVIOUS
<1>1. flash \in HubConfig \cup {NoConfig}
  BY ProvisioningAssumption DEF Init, HubConfig
<1>2. active \in HubConfig /\ active.version = Schema
  BY <1>1, SelectType DEF Init
<1>3. IdleConn \in ConnState
  BY DEF IdleConn, ConnAt, ConnState
<1>4. TypeOK
  <2>1. pending \in HubConfig /\ pending.version = Schema /\ promised \in HubConfig
    BY <1>2 DEF Init
  <2>2. requests \in Seq([conn : Conns, command : HubCommand]) /\ Len(requests) <= PortalCap
    BY ProvisioningAssumption DEF Init
  <2>3. replies \in Seq(Statuses) /\ Len(replies) <= PortalCap
    BY ProvisioningAssumption DEF Init
  <2>4. hubQ \in Seq(HubCommand) /\ Len(hubQ) <= HubCap
    BY ProvisioningAssumption DEF Init
  <2>5. conn \in [Conns -> ConnState] /\ acked \in [Conns -> Nat]
    BY <1>3 DEF Init
  <2> QED
    BY <1>1, <1>2, <2>1, <2>2, <2>3, <2>4, <2>5 DEF Init, TypeOK
<1>5. LockHeld /\ Fresh /\ Quiet /\ Exchange /\ AnswersOwnUpdate
  BY ProvisioningAssumption
     DEF Init, IdleConn, ConnAt, LockHeld, Fresh, Quiet, Exchange, AnswersOwnUpdate
<1>6. InStep
  BY DEF Init, InStep
<1> QED
  BY <1>4, <1>5, <1>6 DEF ProvisioningInv

(* The control task's answer to the portal: the holder's command moves from *)
(* one channel to the other, and counts as stored exactly when it is Ok.   *)
LEMMA HubCtrlPortalStep ==
  ASSUME ProvisioningInv, HubCtrlPortal
  PROVE  ProvisioningInv'
<1> USE DEF ProvisioningInv
<1>1. requests \in Seq([conn : Conns, command : HubCommand]) /\ requests # <<>>
  BY DEF TypeOK, HubCtrlPortal
<1>2. /\ Head(requests) = requests[1]
      /\ requests[1].conn \in Conns /\ requests[1].command \in HubCommand
  <2>1. Head(requests) = requests[1] /\ requests[1] \in [conn : Conns, command : HubCommand]
    BY <1>1, SeqHead
  <2> QED
    BY <2>1
<1>3. PICK holder \in Conns : conn[holder].pc = "wait"
  BY <1>1 DEF Quiet
<1>4. /\ Len(requests) = 1 /\ replies = <<>> /\ requests[1].conn = holder
      /\ acked[holder] = Sent(holder) - 1
  BY <1>1, <1>3 DEF Exchange
<1>5. \A c \in Conns : conn[c].pc = "wait" => c = holder
  BY <1>3 DEF LockHeld
<1>6. PICK status \in Statuses :
        /\ handle(requests[1].command, status)
        /\ replies' = Append(replies, status)
        /\ acked' = IF status = "Ok" THEN [acked EXCEPT ![holder] = @ + 1] ELSE acked
  BY <1>2, <1>4 DEF HubCtrlPortal
<1>7. /\ requests' = <<>> /\ replies' = <<status>>
      /\ UNCHANGED <<store, active, hubQ, conn, lock, rebooting>>
  BY <1>1, <1>4, <1>6 DEF HubCtrlPortal
<1>8. /\ pending' \in HubConfig /\ pending'.version = Schema
      /\ promised' \in HubConfig /\ flash' \in HubConfig \cup {NoConfig}
      /\ taint' \in {"none", "save", "load"} /\ InStep'
  BY <1>2, <1>6, HandleStep
<1>9. acked' \in [Conns -> Nat]
  BY <1>6 DEF TypeOK
<1>10. TypeOK'
  BY <1>6, <1>7, <1>8, <1>9, ProvisioningAssumption DEF TypeOK
<1>11. LockHeld' /\ Fresh' /\ Quiet'
  BY <1>3, <1>7 DEF LockHeld, Fresh, Quiet
<1>12. Exchange'
  <2>1. Sent(holder)' = Sent(holder) /\ Sent(holder) \in Int
    BY <1>7, <1>4, <1>9, CommandsType DEF Sent, TypeOK, ConnState
  <2>2. acked'[holder] = IF status = "Ok" THEN Sent(holder) ELSE Sent(holder) - 1
    BY <1>4, <1>6, <2>1 DEF TypeOK
  <2> QED
    BY <1>5, <1>7, <2>1, <2>2 DEF Exchange
<1>13. AnswersOwnUpdate'
  <2>1. \A c \in Conns : conn[c].pc = "respond" => acked'[c] = acked[c]
    BY <1>3, <1>6 DEF TypeOK
  <2>2. \A c \in Conns : Sent(c)' = Sent(c)
    BY <1>7 DEF Sent
  <2> QED
    BY <1>7, <2>1, <2>2 DEF AnswersOwnUpdate
<1> QED
  BY <1>8, <1>10, <1>11, <1>12, <1>13

(* The control task's work for the serial host does not touch the portal.  *)
LEMMA HubCtrlSerialStep ==
  ASSUME ProvisioningInv, HubCtrlSerial
  PROVE  ProvisioningInv'
<1> USE DEF ProvisioningInv
<1>1. hubQ \in Seq(HubCommand) /\ hubQ # <<>> /\ hubQ' = Tail(hubQ)
  BY DEF TypeOK, HubCtrlSerial
<1>2. Head(hubQ) \in HubCommand /\ hubQ' \in Seq(HubCommand) /\ Len(hubQ') <= HubCap
  BY <1>1, SeqHead, ProvisioningAssumption DEF TypeOK
<1>3. PICK status \in Statuses : handle(Head(hubQ), status)
  BY DEF HubCtrlSerial
<1>4. UNCHANGED <<store, active, portal, rebooting>>
  BY DEF HubCtrlSerial
<1>5. /\ pending' \in HubConfig /\ pending'.version = Schema
      /\ promised' \in HubConfig /\ flash' \in HubConfig \cup {NoConfig}
      /\ taint' \in {"none", "save", "load"} /\ InStep'
  BY <1>2, <1>3, HandleStep
<1>6. TypeOK'
  BY <1>2, <1>4, <1>5 DEF TypeOK, portal
<1>7. PortalInv'
  BY <1>4, PortalFrame DEF PortalInv
<1> QED
  BY <1>5, <1>6, <1>7 DEF PortalInv

(* A connection that gets the lock finds both channels empty.              *)
LEMMA EnterStep ==
  ASSUME ProvisioningInv, NEW c \in Conns, Enter(c)
  PROVE  ProvisioningInv'
<1> USE DEF ProvisioningInv
<1> DEFINE commands == commands_from_update(conn[c].update, active)
<1>1. /\ conn[c].pc = "lock" /\ lock = Free /\ lock' = c
      /\ acked' = [acked EXCEPT ![c] = 0]
      /\ UNCHANGED <<device, hubQ, replies, rebooting, promised, taint, bounds>>
  BY DEF Enter
<1>2. requests = <<>> /\ replies = <<>> /\ \A d \in Conns : conn[d].pc \notin {"wait", "respond"}
  BY <1>1, ProvisioningAssumption DEF LockHeld, Quiet
<1>3. conn[c] \in ConnState
  BY DEF TypeOK
<1>4. commands \in Seq(HubCommand) /\ conn[c].commands \in Seq(HubCommand)
  <2>1. conn[c].update \in Updates \cup {<<>>} /\ conn[c].commands \in Seq(HubCommand)
    BY <1>3 DEF ConnState
  <2> QED
    BY <2>1, CommandsType DEF TypeOK
<1>5. InStep'
  BY <1>1 DEF InStep, device
<1>6. CASE commands = <<>>
  <2>1. /\ requests' = requests
        /\ conn' = [conn EXCEPT ![c].pc = "respond", ![c].status = "400"]
    BY <1>6 DEF Enter, Respond
  <2>2. [conn[c] EXCEPT !.pc = "respond", !.status = "400"] \in ConnState
    <3>1. "400" \in {"none", "200", "400", "422"}
      OBVIOUS
    <3> QED
      BY <1>3, <3>1, ConnRespond
  <2>3. conn' \in [Conns -> ConnState] /\ acked' \in [Conns -> Nat]
    BY <1>1, <2>1, <2>2 DEF TypeOK
  <2>4. TypeOK'
    BY <1>1, <2>1, <2>3 DEF TypeOK, device
  <2>5. /\ \A d \in Conns \ {c} : conn'[d] = conn[d]
        /\ conn'[c].pc = "respond" /\ conn'[c].status = "400"
        /\ conn'[c].commands = conn[c].commands /\ conn'[c].update = conn[c].update
    BY <2>1, <1>3 DEF TypeOK, ConnState
  <2>6. LockHeld' /\ Fresh' /\ Quiet' /\ Exchange'
    <3>1. \A d \in Conns : conn'[d].pc # "wait"
      BY <1>2, <2>5
    <3>2. Exchange'
      BY <3>1 DEF Exchange
    <3>3. LockHeld'
      BY <1>1, <1>2, <2>5 DEF LockHeld
    <3>4. Fresh'
      BY <2>5 DEF Fresh
    <3>5. Quiet'
      BY <1>1, <1>2, <2>1 DEF Quiet
    <3> QED
      BY <3>2, <3>3, <3>4, <3>5
  <2>7. AnswersOwnUpdate'
    <3>1. conn[c].commands = <<>>
      BY <1>1 DEF Fresh
    <3>2. Sent(c)' = 0
      BY <1>1, <1>6, <2>5, <3>1 DEF Sent, device
    <3>3. acked'[c] = 0
      BY <1>1 DEF TypeOK
    <3> QED
      BY <1>2, <2>5, <3>2, <3>3 DEF AnswersOwnUpdate
  <2> QED
    BY <1>5, <2>4, <2>6, <2>7
<1>7. CASE commands # <<>>
  <2>1. /\ requests' = Append(requests, [conn |-> c, command |-> Head(commands)])
        /\ conn' = [conn EXCEPT ![c].pc = "wait", ![c].commands = Tail(commands)]
    BY <1>7 DEF Enter, SendNext
  <2>2. /\ Head(commands) \in HubCommand /\ Tail(commands) \in Seq(HubCommand)
        /\ Len(Tail(commands)) = Len(commands) - 1
    BY <1>4, <1>7, SeqHead
  <2>3. requests' = << [conn |-> c, command |-> Head(commands)] >>
    BY <1>2, <2>1
  <2>4. /\ requests' \in Seq([conn : Conns, command : HubCommand]) /\ Len(requests') = 1
        /\ requests'[1].conn = c
    BY <2>2, <2>3
  <2>5. conn' \in [Conns -> ConnState]
    <3>1. [conn[c] EXCEPT !.pc = "wait", !.commands = Tail(commands)] \in ConnState
      BY <1>3, <2>2, ConnWait
    <3> QED
      BY <2>1, <3>1 DEF TypeOK
  <2>6. TypeOK'
    <3>1. acked' \in [Conns -> Nat]
      BY <1>1 DEF TypeOK
    <3>2. Len(requests') <= PortalCap
      BY <2>4, ProvisioningAssumption
    <3> QED
      BY <1>1, <2>4, <2>5, <3>1, <3>2 DEF TypeOK, device
  <2>7. /\ \A d \in Conns \ {c} : conn'[d] = conn[d]
        /\ conn'[c].pc = "wait" /\ conn'[c].commands = Tail(commands)
        /\ conn'[c].update = conn[c].update
    BY <2>1, <1>3 DEF TypeOK, ConnState
  <2> HIDE DEF commands
  <2>8. LockHeld' /\ Fresh' /\ Quiet'
    BY <1>1, <1>2, <2>7, ProvisioningAssumption DEF LockHeld, Fresh, Quiet
  <2>9. Exchange' /\ AnswersOwnUpdate'
    <3>1. Sent(c)' = 1
      BY <1>1, <1>4, <2>2, <2>7 DEF Sent, commands, device
    <3>2. acked'[c] = 0
      BY <1>1 DEF TypeOK
    <3> QED
      BY <1>1, <1>2, <2>4, <2>7, <3>1, <3>2 DEF Exchange, AnswersOwnUpdate
  <2> QED
    BY <1>5, <2>6, <2>8, <2>9
<1> QED
  BY <1>6, <1>7

(* A reply is taken by the connection whose command it answers.            *)
LEMMA ReplyStep ==
  ASSUME ProvisioningInv, NEW c \in Conns, Reply(c)
  PROVE  ProvisioningInv'
<1> USE DEF ProvisioningInv
<1>1. /\ conn[c].pc = "wait" /\ replies # <<>> /\ replies' = Tail(replies)
      /\ UNCHANGED <<device, hubQ, lock, acked, rebooting, promised, taint, bounds>>
  BY DEF Reply
<1>2. conn[c] \in ConnState /\ conn[c].commands \in Seq(HubCommand)
  BY DEF TypeOK, ConnState
<1>3. /\ requests = <<>> /\ Len(replies) = 1 /\ replies \in Seq(Statuses)
      /\ acked[c] = IF replies[1] = "Ok" THEN Sent(c) ELSE Sent(c) - 1
  BY <1>1 DEF Exchange, TypeOK
<1>4. Head(replies) = replies[1] /\ replies' = <<>>
  BY <1>1, <1>3, SeqHead
<1>5. lock = c /\ \A d \in Conns \ {c} : conn[d].pc \notin {"wait", "respond"}
  BY <1>1 DEF LockHeld
<1>6. InStep'
  BY <1>1 DEF InStep, device
<1>7. ASSUME NEW status \in {"200", "422"}, Respond(c, status),
             status = "200" => acked[c] = Sent(c) /\ conn[c].commands = <<>>,
             status = "422" => acked[c] = Sent(c) - 1
      PROVE  ProvisioningInv'
  <2>1. /\ requests' = requests
        /\ conn' = [conn EXCEPT ![c].pc = "respond", ![c].status = status]
    BY <1>7 DEF Respond
  <2>2. [conn[c] EXCEPT !.pc = "respond", !.status = status] \in ConnState
    <3>1. status \in {"none", "200", "400", "422"}
      BY <1>7
    <3> QED
      BY <1>2, <3>1, ConnRespond
  <2>3. conn' \in [Conns -> ConnState]
    BY <2>1, <2>2 DEF TypeOK
  <2>4. replies' \in Seq(Statuses) /\ Len(replies') <= PortalCap
    BY <1>4, ProvisioningAssumption
  <2>5. TypeOK'
    BY <1>1, <2>1, <2>3, <2>4 DEF TypeOK, device
  <2>6. /\ \A d \in Conns \ {c} : conn'[d] = conn[d]
        /\ conn'[c].pc = "respond" /\ conn'[c].status = status
        /\ conn'[c].commands = conn[c].commands /\ conn'[c].update = conn[c].update
    BY <2>1, <1>2 DEF TypeOK, ConnState
  <2>7. LockHeld' /\ Fresh' /\ Quiet' /\ Exchange'
    <3>1. \A d \in Conns : conn'[d].pc # "wait"
      BY <1>5, <2>6
    <3>2. Exchange'
      BY <3>1 DEF Exchange
    <3>3. LockHeld'
      BY <1>1, <1>5, <2>6 DEF LockHeld
    <3>4. Fresh'
      BY <2>6 DEF Fresh
    <3>5. Quiet'
      BY <1>3, <1>4, <2>1 DEF Quiet
    <3> QED
      BY <3>2, <3>3, <3>4, <3>5
  <2>8. AnswersOwnUpdate'
    <3>1. Sent(c)' = Sent(c)
      BY <1>1, <2>6 DEF Sent, device
    <3> QED
      BY <1>1, <1>5, <1>7, <2>6, <3>1 DEF AnswersOwnUpdate
  <2> QED
    BY <1>6, <2>5, <2>7, <2>8
<1>8. CASE Head(replies) # "Ok"
  <2>1. Respond(c, "422")
    BY <1>8 DEF Reply
  <2> QED
    BY <1>3, <1>4, <1>7, <1>8, <2>1
<1>9. CASE Head(replies) = "Ok" /\ conn[c].commands = <<>>
  <2>1. Respond(c, "200")
    BY <1>9 DEF Reply
  <2> QED
    BY <1>3, <1>4, <1>7, <1>9, <2>1
<1>10. CASE Head(replies) = "Ok" /\ conn[c].commands # <<>>
  <2> DEFINE commands == conn[c].commands
  <2>1. /\ requests' = Append(requests, [conn |-> c, command |-> Head(commands)])
        /\ conn' = [conn EXCEPT ![c].pc = "wait", ![c].commands = Tail(commands)]
    BY <1>10 DEF Reply, SendNext
  <2>2. /\ Head(commands) \in HubCommand /\ Tail(commands) \in Seq(HubCommand)
        /\ Len(Tail(commands)) = Len(commands) - 1
    BY <1>2, <1>10, SeqHead
  <2>3. requests' = << [conn |-> c, command |-> Head(commands)] >>
    BY <1>3, <2>1
  <2>4. /\ requests' \in Seq([conn : Conns, command : HubCommand]) /\ Len(requests') = 1
        /\ requests'[1].conn = c
    BY <2>2, <2>3
  <2>5. conn' \in [Conns -> ConnState]
    <3>1. [conn[c] EXCEPT !.pc = "wait", !.commands = Tail(commands)] \in ConnState
      BY <1>2, <2>2, ConnWait
    <3> QED
      BY <2>1, <3>1 DEF TypeOK
  <2>6. TypeOK'
    <3>1. Len(requests') <= PortalCap /\ replies' \in Seq(Statuses) /\ Len(replies') <= PortalCap
      BY <1>4, <2>4, ProvisioningAssumption
    <3> QED
      BY <1>1, <2>4, <2>5, <3>1 DEF TypeOK, device
  <2>7. /\ \A d \in Conns \ {c} : conn'[d] = conn[d]
        /\ conn'[c].pc = "wait" /\ conn'[c].commands = Tail(commands)
        /\ conn'[c].update = conn[c].update
    BY <2>1, <1>2 DEF TypeOK, ConnState
  <2>8. LockHeld' /\ Fresh' /\ Quiet'
    BY <1>1, <1>5, <2>7 DEF LockHeld, Fresh, Quiet
  <2>9. Exchange' /\ AnswersOwnUpdate'
    <3>1. Sent(c)' = Sent(c) + 1
      <4>1. conn[c].update \in Updates \cup {<<>>}
        BY <1>2 DEF ConnState
      <4>2. commands_from_update(conn[c].update, active) \in Seq(HubCommand)
        BY <4>1, CommandsType DEF TypeOK
      <4>3. Sent(c)' = Len(commands_from_update(conn[c].update, active)) - Len(Tail(commands))
        BY <1>1, <2>7 DEF Sent, device
      <4>4. Len(commands) \in Nat /\ Len(commands_from_update(conn[c].update, active)) \in Nat
        BY <1>2, <4>2
      <4>5. Sent(c) = Len(commands_from_update(conn[c].update, active)) - Len(commands)
        BY DEF Sent
      <4> HIDE DEF commands
      <4> QED
        BY <2>2, <4>3, <4>4, <4>5
    <3>2. acked'[c] = Sent(c) /\ acked[c] \in Nat
      BY <1>1, <1>3, <1>4, <1>10 DEF TypeOK
    <3> QED
      BY <1>1, <1>4, <1>5, <2>4, <2>7, <3>1, <3>2 DEF Exchange, AnswersOwnUpdate
  <2> QED
    BY <1>6, <2>6, <2>8, <2>9
<1> QED
  BY <1>8, <1>9, <1>10

(* A request, or the end of a response, moves one connection between       *)
(* places where it has no command outstanding.                             *)
LEMMA ConnMove ==
  ASSUME ProvisioningInv, NEW c \in Conns, NEW s \in ConnState,
         s.pc \in {"idle", "lock", "reboot", "halted"}, s.commands = <<>>,
         conn[c].pc # "wait",
         conn' = [conn EXCEPT ![c] = s],
         lock' = IF lock = c THEN Free ELSE lock,
         rebooting' \in BOOLEAN,
         UNCHANGED <<device, hubQ, requests, replies, acked, promised, taint>>
  PROVE  ProvisioningInv'
<1> USE DEF ProvisioningInv
<1>1. conn' \in [Conns -> ConnState] /\ lock' \in Conns \cup {Free}
  BY DEF TypeOK
<1>2. TypeOK'
  BY <1>1 DEF TypeOK, device
<1>3. conn'[c] = s /\ \A d \in Conns \ {c} : conn'[d] = conn[d]
  BY DEF TypeOK
<1>4. LockHeld'
  BY <1>3, ProvisioningAssumption DEF LockHeld
<1>5. Fresh'
  BY <1>3 DEF Fresh
<1>6. Quiet'
  BY <1>3 DEF Quiet
<1>7. Exchange' /\ AnswersOwnUpdate'
  <2>1. \A d \in Conns \ {c} : Sent(d)' = Sent(d)
    BY <1>3 DEF Sent, device
  <2>2. Exchange'
    BY <1>3, <2>1 DEF Exchange
  <2>3. AnswersOwnUpdate'
    BY <1>3, <2>1 DEF AnswersOwnUpdate
  <2> QED
    BY <2>2, <2>3
<1>8. InStep'
  BY DEF InStep, device
<1> QED
  BY <1>2, <1>4, <1>5, <1>6, <1>7, <1>8

(* The portal's other steps are moves of that kind.                        *)
LEMMA PortalStep ==
  ASSUME ProvisioningInv, NEW c \in Conns,
         \/ \E update \in Updates : Post(c, update)
         \/ \E delivered \in BOOLEAN : Finish(c, delivered)
         \/ RequestReboot(c)
  PROVE  ProvisioningInv'
<1> USE DEF ProvisioningInv
<1>1. conn[c] \in ConnState
  BY DEF TypeOK
<1>2. ASSUME NEW update \in Updates, Post(c, update) PROVE ProvisioningInv'
  <2> DEFINE s == ConnAt("lock", update)
  <2>1. s \in ConnState /\ s.pc = "lock" /\ s.commands = <<>>
    <3>1. <<>> \in Seq(HubCommand) /\ update \in Updates \cup {<<>>}
      OBVIOUS
    <3> QED
      BY <3>1 DEF ConnState, ConnAt
  <2>2. /\ conn[c].pc = "idle" /\ conn' = [conn EXCEPT ![c] = s]
        /\ UNCHANGED <<device, hubQ, requests, replies, acked, lock, rebooting, promised, taint>>
    BY <1>2 DEF Post
  <2>3. lock # c /\ rebooting' \in BOOLEAN
    BY <2>2 DEF LockHeld, TypeOK
  <2> HIDE DEF s
  <2> QED
    BY <2>1, <2>2, <2>3, ConnMove
<1>3. ASSUME NEW delivered \in BOOLEAN, Finish(c, delivered) PROVE ProvisioningInv'
  <2> DEFINE s == IF delivered /\ conn[c].status = "200"
                  THEN ConnAt("reboot", <<>>) ELSE IdleConn
  <2>1. s \in ConnState /\ s.pc \in {"idle", "reboot"} /\ s.commands = <<>>
    <3>1. IdleConn \in ConnState
      BY DEF IdleConn, ConnAt, ConnState
    <3>2. ConnAt("reboot", <<>>) \in ConnState
      BY DEF ConnAt, ConnState
    <3> QED
      BY <3>1, <3>2 DEF IdleConn, ConnAt
  <2>2. /\ conn[c].pc = "respond" /\ conn' = [conn EXCEPT ![c] = s] /\ lock' = Free
        /\ UNCHANGED <<device, hubQ, requests, replies, acked, rebooting, promised, taint>>
    BY <1>3 DEF Finish
  <2>3. lock = c /\ rebooting' \in BOOLEAN
    BY <2>2 DEF LockHeld, TypeOK
  <2> HIDE DEF s
  <2> QED
    BY <2>1, <2>2, <2>3, ConnMove
<1>4. ASSUME RequestReboot(c) PROVE ProvisioningInv'
  <2> DEFINE s == [conn[c] EXCEPT !.pc = "halted"]
  <2>1. s \in ConnState /\ s.pc = "halted" /\ s.commands = conn[c].commands
    BY <1>1 DEF ConnState
  <2>2. /\ conn[c].pc = "reboot" /\ conn' = [conn EXCEPT ![c] = s] /\ rebooting' = TRUE
        /\ UNCHANGED <<device, hubQ, requests, replies, acked, lock, promised, taint>>
    BY <1>4 DEF RequestReboot
  <2>3. lock # c /\ conn[c].commands = <<>>
    BY <2>2 DEF LockHeld, Fresh
  <2> HIDE DEF s
  <2> QED
    BY <2>1, <2>2, <2>3, ConnMove
<1> QED
  BY <1>2, <1>3, <1>4

(* A reset clears the portal and reloads what is stored.                   *)
LEMMA ResetStep ==
  ASSUME ProvisioningInv, Reset
  PROVE  ProvisioningInv'
<1> USE DEF ProvisioningInv
<1>1. PICK opened \in BOOLEAN, readable \in BOOLEAN : Boot(opened, readable)
  BY DEF Reset
<1>2. select_config(flash) \in HubConfig /\ select_config(flash).version = Schema
  BY SelectType DEF TypeOK
<1>3. active' \in HubConfig /\ active'.version = Schema /\ pending' = active'
  BY <1>1, <1>2, ProvisioningAssumption DEF Boot
<1>4. /\ flash' = flash /\ hubQ' = <<>> /\ requests' = <<>> /\ replies' = <<>>
      /\ conn' = [c \in Conns |-> IdleConn] /\ lock' = Free
      /\ acked' = [c \in Conns |-> 0] /\ rebooting' = FALSE
      /\ promised' = IF taint = "none" THEN promised ELSE select_config(flash)
  BY DEF Reset
<1>5. promised' = select_config(flash)
  BY <1>4 DEF InStep
<1>6. TypeOK'
  <2>1. IdleConn \in ConnState
    BY DEF IdleConn, ConnAt, ConnState
  <2>2. conn' \in [Conns -> ConnState] /\ acked' \in [Conns -> Nat]
    BY <1>4, <2>1
  <2>3. /\ hubQ' \in Seq(HubCommand) /\ Len(hubQ') <= HubCap
        /\ requests' \in Seq([conn : Conns, command : HubCommand]) /\ Len(requests') <= PortalCap
        /\ replies' \in Seq(Statuses) /\ Len(replies') <= PortalCap
    BY <1>4, ProvisioningAssumption
  <2>4. store' \in BOOLEAN /\ taint' \in {"none", "save", "load"}
    BY <1>1 DEF Boot
  <2> QED
    BY <1>2, <1>3, <1>4, <1>5, <2>2, <2>3, <2>4 DEF TypeOK
<1>7. LockHeld' /\ Fresh' /\ Quiet' /\ Exchange' /\ AnswersOwnUpdate'
  BY <1>4, ProvisioningAssumption
     DEF LockHeld, Fresh, Quiet, Exchange, AnswersOwnUpdate, IdleConn, ConnAt
<1>8. InStep'
  BY <1>1, <1>3, <1>4, <1>5 DEF Boot, InStep
<1> QED
  BY <1>6, <1>7, <1>8

-----------------------------------------------------------------------------
(* The invariant is inductive: every step of the serial host, of the       *)
(* control task, of a connection and of the reset keeps it.                *)
LEMMA ProvisioningStep == ProvisioningInv /\ [Next]_vars => ProvisioningInv'
<1> SUFFICES ASSUME ProvisioningInv, [Next]_vars PROVE ProvisioningInv'
  OBVIOUS
<1>1. ASSUME NEW command \in SerialCommands, SerialCommand(command) PROVE ProvisioningInv'
  <2>1. hubQ' \in Seq(HubCommand) /\ Len(hubQ') <= HubCap
    <3>1. command \in HubCommand
      BY ProvisioningAssumption
    <3> QED
      BY <1>1, <3>1, ProvisioningAssumption DEF SerialCommand, ProvisioningInv, TypeOK
  <2>2. UNCHANGED <<device, portal, rebooting, promised, taint>>
    BY <1>1 DEF SerialCommand
  <2>3. TypeOK'
    BY <2>1, <2>2 DEF ProvisioningInv, TypeOK, device, portal
  <2>4. PortalInv'
    BY <2>2, PortalFrame DEF ProvisioningInv, PortalInv, device
  <2>5. InStep'
    BY <2>2 DEF ProvisioningInv, InStep, device
  <2> QED
    BY <2>3, <2>4, <2>5 DEF ProvisioningInv, PortalInv
<1>2. ASSUME SerialReboot \/ UNCHANGED vars PROVE ProvisioningInv'
  <2>1. UNCHANGED <<device, hubQ, portal, promised, taint>> /\ rebooting' \in BOOLEAN
    BY <1>2 DEF SerialReboot, vars, ProvisioningInv, TypeOK
  <2>2. TypeOK'
    BY <2>1 DEF ProvisioningInv, TypeOK, device, portal
  <2>3. PortalInv'
    BY <2>1, PortalFrame DEF ProvisioningInv, PortalInv, device
  <2>4. InStep'
    BY <2>1 DEF ProvisioningInv, InStep, device
  <2> QED
    BY <2>2, <2>3, <2>4 DEF ProvisioningInv, PortalInv
<1> QED
  BY <1>1, <1>2, HubCtrlSerialStep, HubCtrlPortalStep, EnterStep, ReplyStep, PortalStep,
     ResetStep
  DEF Next

LEMMA ProvisioningInvariant == Spec => []ProvisioningInv
  BY ProvisioningInit, ProvisioningStep, PTL DEF Spec

(* The channels between the portal and the control task never exceed their *)
(* capacity, so no send of the portal ever waits.                          *)
THEOREM ProvisioningTypeCorrect == Spec => []TypeOK
<1>1. ProvisioningInv => TypeOK
  BY DEF ProvisioningInv
<1> QED
  BY <1>1, ProvisioningInvariant, PTL

(* The stored configuration is the result of the acknowledged commands.    *)
THEOREM Stored_Correct == Spec => []StoredAsAcknowledged
<1>1. ProvisioningInv => StoredAsAcknowledged
  BY DEF ProvisioningInv, InStep, StoredAsAcknowledged
<1> QED
  BY <1>1, ProvisioningInvariant, PTL

(* A portal connection is answered about its own update.                   *)
THEOREM Answers_Correct == Spec => []AnswersOwnUpdate
<1>1. ProvisioningInv => AnswersOwnUpdate
  BY DEF ProvisioningInv
<1> QED
  BY <1>1, ProvisioningInvariant, PTL

-----------------------------------------------------------------------------
(* SessionOf as a function of a connection and of the two channels.        *)
View(s, req, rep) ==
  LET S(stage, left, status) ==
        [stage |-> stage, update |-> s.update, left |-> left, status |-> status]
  IN  CASE s.pc = "idle"    -> S("idle", <<>>, "none")
        [] s.pc = "lock"    -> S("waiting", <<>>, "none")
        [] s.pc = "respond" -> S("answered", s.commands, s.status)
        [] s.pc \in {"reboot", "halted"} -> S("restarting", <<>>, "none")
        [] s.pc = "wait" /\ rep = <<>> ->
             S("applying", [k \in DOMAIN req |-> req[k].command] \o s.commands, "none")
        [] s.pc = "wait" /\ rep # <<>> ->
             IF Head(rep) # "Ok" THEN S("answered", s.commands, "422")
             ELSE IF s.commands = <<>> THEN S("answered", <<>>, "200")
             ELSE S("applying", s.commands, "none")

(* The sessions that the abstract service sees, before and after a step.   *)
Sessions == [c \in Conns |-> SessionOf(c)]

LEMMA SessionsView ==
  /\ Sessions = [c \in Conns |-> View(conn[c], requests, replies)]
  /\ Sessions' = [c \in Conns |-> View(conn'[c], requests', replies')]
  BY DEF Sessions, SessionOf, View

(* A connection that awaits no reply is seen without the channels.         *)
LEMMA ViewAlone ==
  ASSUME NEW s, NEW req1, NEW rep1, NEW req2, NEW rep2,
         s.pc \in {"idle", "lock", "respond", "reboot", "halted"}
  PROVE  View(s, req1, rep1) = View(s, req2, rep2)
  BY DEF View

(* A connection whose command is in the request channel has it and the     *)
(* commands behind it left.                                                *)
LEMMA ViewSent ==
  ASSUME NEW s, s.pc = "wait", NEW r, NEW q \in Seq(HubCommand), q # <<>>,
         r.command = Head(q), s.commands = Tail(q)
  PROVE  View(s, <<r>>, <<>>) = Service!Session("applying", s.update, q, "none")
<1>1. [k \in DOMAIN <<r>> |-> <<r>>[k].command] = <<Head(q)>>
  OBVIOUS
<1>2. <<Head(q)>> \o Tail(q) = q
  OBVIOUS
<1> QED
  BY <1>1, <1>2 DEF View, Service!Session

(* A connection whose reply is in the channel is seen as answered.         *)
LEMMA ViewReplied ==
  ASSUME NEW s, s.pc = "wait", NEW req, NEW status
  PROVE  View(s, req, <<status>>) =
           IF status # "Ok" THEN Service!Session("answered", s.update, s.commands, "422")
           ELSE IF s.commands = <<>> THEN Service!Session("answered", s.update, <<>>, "200")
           ELSE Service!Session("applying", s.update, s.commands, "none")
<1>1. <<status>> # <<>> /\ Head(<<status>>) = status
  OBVIOUS
<1> QED
  BY <1>1 DEF View, Service!Session

(* The serial host's queue holds what it may ask for, and a connection     *)
(* that is idle has no update.                                             *)
RefinementInv ==
  /\ ProvisioningInv
  /\ hubQ \in Seq(SerialCommands)
  /\ \A c \in Conns : conn[c].pc = "idle" => conn[c].update = <<>>

LEMMA RefinementInit == Init => RefinementInv
<1> SUFFICES ASSUME Init PROVE RefinementInv
  OBVIOUS
<1>1. hubQ \in Seq(SerialCommands)
  BY DEF Init
<1>2. \A c \in Conns : conn[c].update = <<>>
  BY DEF Init, IdleConn, ConnAt
<1> QED
  BY <1>1, <1>2, ProvisioningInit DEF RefinementInv

LEMMA RefinementStep == RefinementInv /\ [Next]_vars => RefinementInv'
<1> SUFFICES ASSUME RefinementInv, [Next]_vars PROVE RefinementInv'
  OBVIOUS
<1>1. ProvisioningInv'
  BY ProvisioningStep DEF RefinementInv
<1> DEFINE NoUpdate(s) == s.pc = "idle" => s.update = <<>>
<1>2. hubQ \in Seq(SerialCommands) /\ \A c \in Conns : NoUpdate(conn[c])
  BY DEF RefinementInv
<1>3. conn \in [Conns -> ConnState]
  BY DEF RefinementInv, ProvisioningInv, TypeOK
<1>4. hubQ' \in Seq(SerialCommands)
  <2>1. CASE HubCtrlSerial
    BY <1>2, <2>1, SeqHead DEF HubCtrlSerial
  <2>2. CASE \E command \in SerialCommands : SerialCommand(command)
    BY <1>2, <2>2 DEF SerialCommand
  <2>3. CASE hubQ' = hubQ \/ hubQ' = <<>>
    <3>1. <<>> \in Seq(SerialCommands)
      OBVIOUS
    <3> QED
      BY <1>2, <2>3, <3>1
  <2> QED
    BY <2>1, <2>2, <2>3
    DEF Next, vars, SerialReboot, HubCtrlPortal, Post, Enter, Reply, Finish, RequestReboot, Reset
<1>5. \A c \in Conns : NoUpdate(conn'[c])
  <2>1. CASE UNCHANGED conn
    BY <1>2, <2>1
  <2>2. ASSUME NEW c \in Conns, NEW s, conn' = [conn EXCEPT ![c] = s], NoUpdate(s)
        PROVE  \A d \in Conns : NoUpdate(conn'[d])
    BY <1>2, <1>3, <2>2
  <2>3. ASSUME NEW c \in Conns, NEW update \in Updates, Post(c, update)
        PROVE  \A d \in Conns : NoUpdate(conn'[d])
    <3>1. NoUpdate(ConnAt("lock", update))
      BY DEF ConnAt
    <3> QED
      BY <2>2, <2>3, <3>1 DEF Post
  <2>4. ASSUME NEW c \in Conns, Enter(c) \/ Reply(c)
        PROVE  \A d \in Conns : NoUpdate(conn'[d])
    <3>1. ASSUME NEW status, Respond(c, status) PROVE \A d \in Conns : NoUpdate(conn'[d])
      <4> DEFINE s == [conn[c] EXCEPT !.pc = "respond", !.status = status]
      <4>1. NoUpdate(s) /\ conn' = [conn EXCEPT ![c] = s]
        BY <1>3, <3>1 DEF Respond, ConnState
      <4> QED
        BY <2>2, <4>1
    <3>2. ASSUME NEW q, SendNext(c, q) PROVE \A d \in Conns : NoUpdate(conn'[d])
      <4> DEFINE s == [conn[c] EXCEPT !.pc = "wait", !.commands = Tail(q)]
      <4>1. NoUpdate(s) /\ conn' = [conn EXCEPT ![c] = s]
        BY <1>3, <3>2 DEF SendNext, ConnState
      <4> QED
        BY <2>2, <4>1
    <3> QED
      BY <2>4, <3>1, <3>2 DEF Enter, Reply
  <2>5. ASSUME NEW c \in Conns, NEW delivered \in BOOLEAN, Finish(c, delivered)
        PROVE  \A d \in Conns : NoUpdate(conn'[d])
    <3> DEFINE s == IF delivered /\ conn[c].status = "200"
                    THEN ConnAt("reboot", <<>>) ELSE IdleConn
    <3>1. NoUpdate(s) /\ conn' = [conn EXCEPT ![c] = s]
      BY <2>5 DEF Finish, IdleConn, ConnAt
    <3> QED
      BY <2>2, <3>1
  <2>6. ASSUME NEW c \in Conns, RequestReboot(c)
        PROVE  \A d \in Conns : NoUpdate(conn'[d])
    <3> DEFINE s == [conn[c] EXCEPT !.pc = "halted"]
    <3>1. NoUpdate(s) /\ conn' = [conn EXCEPT ![c] = s]
      BY <1>3, <2>6 DEF RequestReboot, ConnState
    <3> QED
      BY <2>2, <3>1
  <2>7. CASE Reset
    BY <2>7 DEF Reset, IdleConn, ConnAt
  <2> HIDE DEF NoUpdate
  <2> QED
    BY <2>1, <2>3, <2>4, <2>5, <2>6, <2>7
    DEF Next, vars, portal, SerialCommand, SerialReboot, HubCtrlSerial, HubCtrlPortal
<1> QED
  BY <1>1, <1>4, <1>5 DEF RefinementInv

-----------------------------------------------------------------------------
(* Handling a command is one of the three things that the service may do   *)
(* with it, and what survives a reset is the selection from the flash.     *)
LEMMA HandleMaps ==
  ASSUME TypeOK, NEW command \in HubCommand, NEW status \in Statuses, handle(command, status)
  PROVE  /\ status = "Ok" => Service!Stored(command)
         /\ status # "Ok" => Service!Refused(command) \/ Service!NotStored(command)
<1>1. Applied(pending, command) \in HubConfig /\ Applied(pending, command).version = Schema
  BY AppliedType DEF TypeOK
<1>2. CASE ~Valid(command) /\ status = "InvalidValue" /\ UNCHANGED <<pending, flash>>
  BY <1>2 DEF Service!Refused
<1>3. CASE /\ Valid(command) /\ status = "Ok"
           /\ pending' = Applied(pending, command)
           /\ flash' = IF command = Clear THEN NoConfig ELSE Applied(pending, command)
  <2>1. select_config(flash') = Applied(pending, command)
    <3>1. CASE command = Clear
      BY <1>3, <3>1 DEF select_config, Applied
    <3>2. CASE command # Clear
      BY <1>1, <1>3, <3>2, SelectStored
    <3> QED BY <3>1, <3>2
  <2> QED
    BY <1>3, <2>1 DEF Service!Stored
<1>4. CASE /\ Valid(command) /\ status = "StorageError"
           /\ pending' = Applied(pending, command) /\ UNCHANGED flash
  BY <1>4 DEF Service!NotStored
<1> QED
  BY <1>2, <1>3, <1>4 DEF handle

(* A step that changes nothing the client or the flash can tell.           *)
LEMMA Unseen ==
  ASSUME UNCHANGED device, Sessions' = Sessions
  PROVE  UNCHANGED Service!vars
  BY DEF device, Service!vars, Sessions

(* A step that changes one connection, and none that awaits a reply,       *)
(* changes one session.                                                    *)
LEMMA OneSession ==
  ASSUME TypeOK, NEW c \in Conns, NEW s, conn' = [conn EXCEPT ![c] = s],
         \A d \in Conns \ {c} : conn[d].pc # "wait"
  PROVE  Sessions' = [Sessions EXCEPT ![c] = View(s, requests', replies')]
<1>1. conn'[c] = s /\ \A d \in Conns \ {c} : conn'[d] = conn[d]
  BY DEF TypeOK
<1>2. ASSUME NEW d \in Conns \ {c}
      PROVE  View(conn'[d], requests', replies') = View(conn[d], requests, replies)
  <2>1. conn[d].pc \in {"idle", "lock", "respond", "reboot", "halted"}
    BY DEF TypeOK, ConnState
  <2>2. View(conn[d], requests', replies') = View(conn[d], requests, replies)
    BY <2>1, ViewAlone
  <2> QED
    BY <1>1, <2>2
<1> QED
  BY <1>1, <1>2, SessionsView

(* A POST is a Submit.                                                     *)
LEMMA PostMaps ==
  ASSUME RefinementInv, NEW c \in Conns, NEW update \in Updates, Post(c, update)
  PROVE  Service!Submit(c, update)
<1> DEFINE s == ConnAt("lock", update)
<1>1. /\ conn[c].pc = "idle" /\ conn[c].update = <<>>
      /\ conn' = [conn EXCEPT ![c] = s]
      /\ UNCHANGED <<device, requests, replies>>
  BY DEF Post, RefinementInv
<1>2. Sessions[c] = Service!Idle
  BY <1>1 DEF Sessions, SessionOf, Service!Idle, Service!Session
<1>3. View(s, requests, replies) = Service!Session("waiting", update, <<>>, "none")
  BY DEF View, ConnAt, Service!Session
<1>4. Sessions' = [Sessions EXCEPT ![c] = View(s, requests, replies)]
  <2> DEFINE Same(d) == View(conn'[d], requests', replies') = View(conn[d], requests, replies)
  <2>1. conn'[c] = s /\ \A d \in Conns \ {c} : Same(d)
    BY <1>1 DEF RefinementInv, ProvisioningInv, TypeOK
  <2> HIDE DEF s
  <2> QED
    BY <1>1, <2>1, SessionsView
<1> HIDE DEF s
<1> QED
  BY <1>1, <1>2, <1>3, <1>4 DEF Service!Submit, Sessions, device

(* Taking the lock is a Begin: nobody else has the turn.                   *)
LEMMA EnterMaps ==
  ASSUME RefinementInv, NEW c \in Conns, Enter(c)
  PROVE  Service!Begin(c)
<1> DEFINE commands == commands_from_update(conn[c].update, active)
<1>1. /\ conn[c].pc = "lock" /\ lock = Free /\ UNCHANGED <<device, replies>>
      /\ TypeOK /\ LockHeld /\ Fresh /\ Quiet
  BY DEF Enter, RefinementInv, ProvisioningInv
<1>2. /\ requests = <<>> /\ replies = <<>>
      /\ \A d \in Conns : conn[d].pc \notin {"wait", "respond"}
  BY <1>1, ProvisioningAssumption DEF LockHeld, Quiet
<1>3. /\ conn[c] \in ConnState /\ conn[c].commands = <<>>
      /\ commands \in Seq(HubCommand)
  <2>1. conn[c] \in ConnState /\ conn[c].update \in Updates \cup {<<>>}
    BY <1>1 DEF TypeOK, ConnState
  <2> QED
    BY <1>1, <2>1, CommandsType DEF TypeOK, Fresh
<1>4. Sessions[c].stage = "waiting" /\ Sessions[c].update = conn[c].update
  BY <1>1 DEF Sessions, SessionOf
<1>5. \A d \in Conns : Sessions[d].stage \notin {"applying", "answered"}
  <2> SUFFICES ASSUME NEW d \in Conns PROVE Sessions[d].stage \notin {"applying", "answered"}
    OBVIOUS
  <2>1. conn[d].pc \in {"idle", "lock", "reboot", "halted"}
    BY <1>1, <1>2 DEF TypeOK, ConnState
  <2> QED
    BY <2>1 DEF Sessions, SessionOf
<1>6. Sessions' = [Sessions EXCEPT ![c] =
         IF commands = <<>> THEN Service!Session("answered", conn[c].update, <<>>, "400")
         ELSE Service!Session("applying", conn[c].update, commands, "none")]
  <2>1. CASE commands = <<>>
    <3> DEFINE s == [conn[c] EXCEPT !.pc = "respond", !.status = "400"]
    <3>1. conn' = [conn EXCEPT ![c] = s]
      BY <1>1, <2>1 DEF Enter, Respond, TypeOK
    <3>2. View(s, requests', replies')
            = Service!Session("answered", conn[c].update, <<>>, "400")
      BY <1>3 DEF ConnState, View, Service!Session
    <3> HIDE DEF s
    <3> QED
      BY <1>1, <1>2, <2>1, <3>1, <3>2, OneSession
  <2>2. CASE commands # <<>>
    <3> DEFINE s == [conn[c] EXCEPT !.pc = "wait", !.commands = Tail(commands)]
               r == [conn |-> c, command |-> Head(commands)]
    <3>1. conn' = [conn EXCEPT ![c] = s] /\ requests' = Append(requests, r)
      BY <1>1, <2>2 DEF Enter, SendNext, TypeOK
    <3>2. requests' = <<r>> /\ replies' = <<>>
      BY <1>1, <1>2, <3>1
    <3>3. s.pc = "wait" /\ s.commands = Tail(commands) /\ s.update = conn[c].update
      BY <1>3 DEF ConnState
    <3>4. r.command = Head(commands)
      OBVIOUS
    <3> HIDE DEF s, r, commands
    <3>5. View(s, <<r>>, <<>>) = Service!Session("applying", s.update, commands, "none")
      BY <1>3, <2>2, <3>3, <3>4, ViewSent
    <3>6. Sessions' = [Sessions EXCEPT ![c] = View(s, <<r>>, <<>>)]
      BY <1>1, <1>2, <3>1, <3>2, OneSession
    <3> QED
      BY <2>2, <3>3, <3>5, <3>6
  <2> QED
    BY <2>1, <2>2
<1> QED
  BY <1>1, <1>4, <1>5, <1>6 DEF Service!Begin, Service!HasTurn, Sessions, device

(* The control task's answer to the portal is an ApplyNext of the holder   *)
(* of the lock.                                                            *)
LEMMA PortalMaps ==
  ASSUME RefinementInv, HubCtrlPortal
  PROVE  \E c \in Conns : Service!ApplyNext(c)
<1>1. /\ TypeOK /\ LockHeld /\ Quiet /\ Exchange
      /\ requests # <<>> /\ requests \in Seq([conn : Conns, command : HubCommand])
  BY DEF RefinementInv, ProvisioningInv, HubCtrlPortal, TypeOK
<1>2. PICK c \in Conns : conn[c].pc = "wait"
  BY <1>1 DEF Quiet
<1>3. Len(requests) = 1 /\ replies = <<>>
  BY <1>1, <1>2 DEF Exchange
<1> DEFINE r == requests[1]
           q == <<r.command>> \o conn[c].commands
<1>4. /\ r \in [conn : Conns, command : HubCommand] /\ Head(requests) = r
      /\ requests = <<r>> /\ Tail(requests) = <<>>
  <2>1. r \in [conn : Conns, command : HubCommand] /\ Head(requests) = r
    BY <1>1, SeqHead
  <2>2. requests = <<r>> /\ Tail(requests) = <<>>
    BY <1>1, <1>3, SeqOne
  <2> QED
    BY <2>1, <2>2
<1>5. conn[c].commands \in Seq(HubCommand) /\ r.command \in HubCommand
  BY <1>1, <1>4 DEF TypeOK, ConnState
<1>6. /\ q \in Seq(HubCommand) /\ q # <<>> /\ Head(q) = r.command
      /\ Tail(q) = conn[c].commands
  BY <1>5
<1>7. PICK status \in Statuses : handle(r.command, status) /\ replies' = <<status>>
  BY <1>3, <1>4 DEF HubCtrlPortal
<1>8. UNCHANGED <<active, conn>> /\ conn' = [conn EXCEPT ![c] = conn[c]]
  BY <1>1 DEF HubCtrlPortal, TypeOK
<1> HIDE DEF r, q
<1>9. Sessions[c] = Service!Session("applying", conn[c].update, q, "none")
  <2>1. Sessions[c] = View(conn[c], <<r>>, <<>>)
    BY <1>3, <1>4, SessionsView
  <2> QED
    BY <1>2, <1>6, <2>1, ViewSent
<1>10. \A d \in Conns \ {c} : conn[d].pc # "wait"
  BY <1>1, <1>2 DEF LockHeld
<1>11. Sessions' = [Sessions EXCEPT ![c] =
          IF status # "Ok"
          THEN Service!Session("answered", conn[c].update, conn[c].commands, "422")
          ELSE IF conn[c].commands = <<>>
          THEN Service!Session("answered", conn[c].update, <<>>, "200")
          ELSE Service!Session("applying", conn[c].update, conn[c].commands, "none")]
  <2>1. Sessions' = [Sessions EXCEPT ![c] = View(conn[c], requests', <<status>>)]
    BY <1>1, <1>7, <1>8, <1>10, OneSession
  <2> QED
    BY <1>2, <2>1, ViewReplied
<1>12. /\ status = "Ok" => Service!Stored(r.command)
       /\ status # "Ok" => Service!Refused(r.command) \/ Service!NotStored(r.command)
  BY <1>1, <1>5, <1>7, HandleMaps
<1>13. /\ Sessions[c].stage = "applying" /\ Sessions[c].update = conn[c].update
       /\ Sessions[c].left = q
  BY <1>9 DEF Service!Session
<1>14. Service!ApplyNext(c)
  BY <1>6, <1>8, <1>11, <1>12, <1>13 DEF Service!ApplyNext, Sessions
<1> QED
  BY <1>14

(* The control task's work for the serial host is an OperatorCommand.      *)
LEMMA SerialMaps ==
  ASSUME RefinementInv, HubCtrlSerial
  PROVE  \E command \in SerialCommands : Service!OperatorCommand(command)
<1>1. /\ hubQ \in Seq(SerialCommands) /\ hubQ # <<>> /\ TypeOK
      /\ UNCHANGED <<active, requests, replies, conn>>
  BY DEF RefinementInv, ProvisioningInv, HubCtrlSerial, portal
<1>2. Head(hubQ) \in SerialCommands /\ Head(hubQ) \in HubCommand
  BY <1>1, SeqHead, ProvisioningAssumption
<1>3. PICK status \in Statuses : handle(Head(hubQ), status)
  BY DEF HubCtrlSerial
<1>4. \/ Service!Stored(Head(hubQ)) \/ Service!Refused(Head(hubQ))
      \/ Service!NotStored(Head(hubQ))
  BY <1>1, <1>2, <1>3, HandleMaps
<1>5. Sessions' = Sessions
  BY <1>1, SessionsView
<1>6. Service!OperatorCommand(Head(hubQ))
  BY <1>1, <1>4, <1>5 DEF Service!OperatorCommand, Sessions
<1> QED
  BY <1>2, <1>6

(* Reading a reply changes nothing: it counted when it was sent.           *)
LEMMA ReplyMaps ==
  ASSUME RefinementInv, NEW c \in Conns, Reply(c)
  PROVE  UNCHANGED Service!vars
<1>1. /\ TypeOK /\ LockHeld /\ Exchange
      /\ conn[c].pc = "wait" /\ replies # <<>> /\ replies' = Tail(replies)
      /\ UNCHANGED device
  BY DEF RefinementInv, ProvisioningInv, Reply
<1>2. requests = <<>> /\ Len(replies) = 1 /\ replies \in Seq(Statuses)
  BY <1>1 DEF Exchange, TypeOK
<1>3. replies = <<Head(replies)>> /\ replies' = <<>>
  BY <1>1, <1>2
<1>4. conn[c] \in ConnState /\ conn[c].commands \in Seq(HubCommand)
  BY <1>1 DEF TypeOK, ConnState
<1>5. \A d \in Conns \ {c} : conn[d].pc # "wait"
  BY <1>1 DEF LockHeld
<1>6. View(conn[c], requests, replies) =
        IF Head(replies) # "Ok"
        THEN Service!Session("answered", conn[c].update, conn[c].commands, "422")
        ELSE IF conn[c].commands = <<>>
        THEN Service!Session("answered", conn[c].update, <<>>, "200")
        ELSE Service!Session("applying", conn[c].update, conn[c].commands, "none")
  BY <1>1, <1>3, ViewReplied
<1>7. ASSUME NEW s, conn' = [conn EXCEPT ![c] = s],
             View(s, requests', replies') = View(conn[c], requests, replies)
      PROVE  UNCHANGED Service!vars
  <2>1. Sessions' = [Sessions EXCEPT ![c] = View(s, requests', replies')]
    BY <1>1, <1>5, <1>7, OneSession
  <2>2. Sessions' = Sessions
    BY <1>7, <2>1, SessionsView
  <2> QED
    BY <1>1, <2>2, Unseen
<1>8. ASSUME NEW status, Respond(c, status),
             View(conn[c], requests, replies)
               = Service!Session("answered", conn[c].update, conn[c].commands, status)
      PROVE  UNCHANGED Service!vars
  <2> DEFINE s == [conn[c] EXCEPT !.pc = "respond", !.status = status]
  <2>1. conn' = [conn EXCEPT ![c] = s]
    BY <1>1, <1>8 DEF Respond, TypeOK
  <2>2. View(s, requests', replies')
          = Service!Session("answered", conn[c].update, conn[c].commands, status)
    BY <1>4 DEF ConnState, View, Service!Session
  <2> HIDE DEF s
  <2> QED
    BY <1>7, <1>8, <2>1, <2>2
<1>9. CASE Head(replies) # "Ok"
  BY <1>6, <1>8, <1>9 DEF Reply
<1>10. CASE Head(replies) = "Ok" /\ conn[c].commands = <<>>
  <2>1. Respond(c, "200")
    BY <1>10 DEF Reply
  <2> QED
    BY <1>6, <1>8, <1>10, <2>1
<1>11. CASE Head(replies) = "Ok" /\ conn[c].commands # <<>>
  <2> DEFINE q == conn[c].commands
             s == [conn[c] EXCEPT !.pc = "wait", !.commands = Tail(q)]
             r == [conn |-> c, command |-> Head(q)]
  <2>1. conn' = [conn EXCEPT ![c] = s] /\ requests' = Append(requests, r)
    BY <1>1, <1>11 DEF Reply, SendNext, TypeOK
  <2>2. requests' = <<r>>
    BY <1>2, <2>1
  <2>3. s.pc = "wait" /\ s.commands = Tail(q) /\ s.update = conn[c].update
    BY <1>4 DEF ConnState
  <2>4. r.command = Head(q) /\ q # <<>> /\ q \in Seq(HubCommand)
    BY <1>4, <1>11
  <2> HIDE DEF s, r
  <2>5. View(s, <<r>>, <<>>) = Service!Session("applying", s.update, q, "none")
    BY <2>3, <2>4, ViewSent
  <2>6. View(s, requests', replies') = View(conn[c], requests, replies)
    BY <1>3, <1>6, <1>11, <2>2, <2>3, <2>5
  <2> QED
    BY <1>7, <2>1, <2>6
<1> QED
  BY <1>9, <1>10, <1>11

(* The end of a response is an Answer.                                     *)
LEMMA FinishMaps ==
  ASSUME RefinementInv, NEW c \in Conns, NEW delivered \in BOOLEAN, Finish(c, delivered)
  PROVE  Service!Answer(c)
<1> DEFINE s == IF delivered /\ conn[c].status = "200"
                THEN ConnAt("reboot", <<>>) ELSE IdleConn
<1>1. /\ TypeOK /\ LockHeld /\ conn[c].pc = "respond"
      /\ conn' = [conn EXCEPT ![c] = s]
      /\ UNCHANGED <<device, requests, replies>>
  BY DEF RefinementInv, ProvisioningInv, Finish
<1>2. \A d \in Conns \ {c} : conn[d].pc # "wait"
  BY <1>1 DEF LockHeld
<1>3. Sessions[c].stage = "answered" /\ Sessions[c].status = conn[c].status
  BY <1>1 DEF Sessions, SessionOf
<1>4. View(s, requests', replies') =
        IF delivered /\ conn[c].status = "200"
        THEN Service!Session("restarting", <<>>, <<>>, "none") ELSE Service!Idle
  BY DEF View, IdleConn, ConnAt, Service!Session, Service!Idle
<1> HIDE DEF s
<1>5. Sessions' = [Sessions EXCEPT ![c] = View(s, requests', replies')]
  BY <1>1, <1>2, OneSession
<1> QED
  BY <1>1, <1>3, <1>4, <1>5 DEF Service!Answer, Sessions, device

(* The reboot request is not seen.                                         *)
LEMMA RequestRebootMaps ==
  ASSUME RefinementInv, NEW c \in Conns, RequestReboot(c)
  PROVE  UNCHANGED Service!vars
<1> DEFINE s == [conn[c] EXCEPT !.pc = "halted"]
<1>1. /\ TypeOK /\ conn[c].pc = "reboot" /\ conn' = [conn EXCEPT ![c] = s]
      /\ UNCHANGED <<device, requests, replies>>
  BY DEF RefinementInv, ProvisioningInv, RequestReboot, TypeOK
<1>2. View(s, requests, replies) = View(conn[c], requests, replies)
  <2>1. conn[c] \in ConnState
    BY <1>1 DEF TypeOK
  <2> QED
    BY <1>1, <2>1 DEF View, ConnState
<1> HIDE DEF s
<1>3. conn'[c] = s /\ \A d \in Conns \ {c} : conn'[d] = conn[d]
  BY <1>1 DEF TypeOK
<1>4. Sessions' = Sessions
  BY <1>1, <1>2, <1>3, SessionsView
<1> QED
  BY <1>1, <1>4, Unseen

(* A reset is a Restart.                                                   *)
LEMMA ResetMaps ==
  ASSUME Reset
  PROVE  Service!Restart
<1>1. PICK opened \in BOOLEAN, readable \in BOOLEAN : Boot(opened, readable)
  BY DEF Reset
<1>2. pending' \in {select_config(flash), Default} /\ active' = pending'
  BY <1>1 DEF Boot
<1>3. flash' = flash /\ conn' = [c \in Conns |-> IdleConn]
  BY DEF Reset
<1>4. View(IdleConn, requests', replies') = Service!Idle
  BY DEF View, IdleConn, ConnAt, Service!Idle, Service!Session
<1>5. Sessions' = [c \in Conns |-> Service!Idle]
  BY <1>3, <1>4, SessionsView
<1> QED
  BY <1>2, <1>3, <1>5 DEF Service!Restart, Sessions

-----------------------------------------------------------------------------
(* Every step of the hub is a step of the service, or is not seen.         *)
LEMMA NextMaps == RefinementInv /\ [Next]_vars => [Service!Next]_(Service!vars)
<1> SUFFICES ASSUME RefinementInv, [Next]_vars
             PROVE  Service!Next \/ UNCHANGED Service!vars
  OBVIOUS
<1>1. CASE SerialReboot \/ UNCHANGED vars \/ \E command \in SerialCommands : SerialCommand(command)
  <2>1. UNCHANGED <<device, requests, replies, conn>>
    BY <1>1 DEF SerialReboot, SerialCommand, vars, portal
  <2>2. Sessions' = Sessions
    BY <2>1, SessionsView
  <2> QED
    BY <2>1, <2>2, Unseen
<1>2. CASE HubCtrlSerial
  BY <1>2, SerialMaps DEF Service!Next
<1>3. CASE HubCtrlPortal
  BY <1>3, PortalMaps DEF Service!Next
<1>4. ASSUME NEW c \in Conns, NEW update \in Updates, Post(c, update) PROVE Service!Next
  BY <1>4, PostMaps DEF Service!Next
<1>5. ASSUME NEW c \in Conns, Enter(c) PROVE Service!Next
  BY <1>5, EnterMaps DEF Service!Next
<1>6. ASSUME NEW c \in Conns, Reply(c) \/ RequestReboot(c) PROVE UNCHANGED Service!vars
  BY <1>6, ReplyMaps, RequestRebootMaps
<1>7. ASSUME NEW c \in Conns, NEW delivered \in BOOLEAN, Finish(c, delivered)
      PROVE  Service!Next
  BY <1>7, FinishMaps DEF Service!Next
<1>8. CASE Reset
  BY <1>8, ResetMaps DEF Service!Next
<1> QED
  BY <1>1, <1>2, <1>3, <1>4, <1>5, <1>6, <1>7, <1>8 DEF Next

(* The first boot is a start of the service.                               *)
LEMMA InitMaps == Init => Service!Init
<1> SUFFICES ASSUME Init PROVE Service!Init
  OBVIOUS
<1>1. View(IdleConn, requests, replies) = Service!Idle
  BY DEF View, IdleConn, ConnAt, Service!Idle, Service!Session
<1>2. Sessions = [c \in Conns |-> Service!Idle]
  BY <1>1, SessionsView DEF Init
<1> QED
  BY <1>2 DEF Init, Service!Init, Sessions

(* The hub, with its control task, its two queues, its replies and its     *)
(* lock, implements the service in which each command of an update is      *)
(* applied and answered in one step, by one client at a time.              *)
THEOREM Implements_Service == Spec => ImplementsService
<1>1. Spec => []RefinementInv
  BY RefinementInit, RefinementStep, PTL DEF Spec
<1> QED
  BY <1>1, InitMaps, NextMaps, PTL DEF Spec, ImplementsService, Service!Spec

-----------------------------------------------------------------------------
(* What commands_from_update may make of an update: commands for groups    *)
(* that it names, with what it omits taken from the active configuration.  *)
FromUpdate(update, current) ==
  {command \in HubCommand :
     /\ command.kind \in DOMAIN FieldsOf
     /\ FieldsOf[command.kind] \cap DOMAIN update # {}
     /\ \A group \in {"mqtt", "gateway"} : command.kind = group =>
          /\ HostOf[group] \notin DOMAIN update => command.value.host = current[group].host
          /\ PortOf[group] \notin DOMAIN update => command.value.port = current[group].port
     /\ command.kind = "wifi" /\ "wifi_password" \notin DOMAIN update =>
          command.value.password = Empty}

(* commands_from_update makes nothing else of it.                          *)
LEMMA CommandsFrom ==
  ASSUME NEW update \in Updates \cup {<<>>}, NEW current \in HubConfig
  PROVE  commands_from_update(update, current) \in Seq(FromUpdate(update, current))
<1> DEFINE Get(field, old) == IF field \in DOMAIN update THEN update[field] ELSE old
           Part(fields, kind, value) ==
             IF fields \cap DOMAIN update = {} THEN <<>>
             ELSE << [kind |-> kind, value |-> value] >>
           wifi == [ssid     |-> Get("wifi_ssid", current.wifi.ssid),
                    password |-> Get("wifi_password", Empty)]
           mqtt == [host |-> Get("mqtt_host", current.mqtt.host),
                    port |-> Get("mqtt_port", current.mqtt.port)]
           gateway == [host |-> Get("gw_host", current.gateway.host),
                       port |-> Get("gw_port", current.gateway.port)]
           mode == Get("mode", current.mode)
           From == FromUpdate(update, current)
<1>1. IsUpdate(update)
  BY ProvisioningAssumption DEF IsUpdate
<1>2. wifi \in WifiSettings
  BY <1>1, ProvisioningAssumption DEF IsUpdate, HubConfig, WifiSettings, Names, Ports
<1>3. mqtt \in Endpoint /\ gateway \in Endpoint
  BY <1>1 DEF IsUpdate, HubConfig, Endpoint, Names, Ports
<1>4. mode \in HubMode
  BY <1>1 DEF IsUpdate, HubConfig, Names, Ports
<1>5. /\ [kind |-> "wifi", value |-> wifi] \in HubCommand
      /\ [kind |-> "mqtt", value |-> mqtt] \in HubCommand
      /\ [kind |-> "gateway", value |-> gateway] \in HubCommand
      /\ [kind |-> "mode", value |-> mode] \in HubCommand
  BY <1>2, <1>3, <1>4 DEF HubCommand
<1>6. /\ "wifi_password" \notin DOMAIN update => wifi.password = Empty
      /\ "mqtt_host" \notin DOMAIN update => mqtt.host = current.mqtt.host
      /\ "mqtt_port" \notin DOMAIN update => mqtt.port = current.mqtt.port
      /\ "gw_host" \notin DOMAIN update => gateway.host = current.gateway.host
      /\ "gw_port" \notin DOMAIN update => gateway.port = current.gateway.port
  OBVIOUS
<1> HIDE DEF wifi, mqtt, gateway, mode
<1>7. Part({"wifi_ssid"}, "wifi", wifi) \in Seq(From)
  <2>1. {"wifi_ssid"} \cap DOMAIN update # {} => [kind |-> "wifi", value |-> wifi] \in From
    BY <1>5, <1>6 DEF FromUpdate, FieldsOf
  <2> HIDE DEF From
  <2> QED
    BY <2>1
<1>8. Part({"mqtt_host", "mqtt_port"}, "mqtt", mqtt) \in Seq(From)
  <2>1. {"mqtt_host", "mqtt_port"} \cap DOMAIN update # {}
          => [kind |-> "mqtt", value |-> mqtt] \in From
    BY <1>5, <1>6 DEF FromUpdate, FieldsOf, HostOf, PortOf
  <2> HIDE DEF From
  <2> QED
    BY <2>1
<1>9. Part({"gw_host", "gw_port"}, "gateway", gateway) \in Seq(From)
  <2>1. {"gw_host", "gw_port"} \cap DOMAIN update # {}
          => [kind |-> "gateway", value |-> gateway] \in From
    BY <1>5, <1>6 DEF FromUpdate, FieldsOf, HostOf, PortOf
  <2> HIDE DEF From
  <2> QED
    BY <2>1
<1>10. Part({"mode"}, "mode", mode) \in Seq(From)
  <2>1. {"mode"} \cap DOMAIN update # {} => [kind |-> "mode", value |-> mode] \in From
    BY <1>5, <1>6 DEF FromUpdate, FieldsOf
  <2> HIDE DEF From
  <2> QED
    BY <2>1
<1>11. commands_from_update(update, current)
        = Part({"wifi_ssid"}, "wifi", wifi)
            \o Part({"mqtt_host", "mqtt_port"}, "mqtt", mqtt)
            \o Part({"gw_host", "gw_port"}, "gateway", gateway)
            \o Part({"mode"}, "mode", mode)
  BY DEF commands_from_update, wifi, mqtt, gateway, mode
<1> HIDE DEF Part, From
<1>12. commands_from_update(update, current) \in Seq(From)
  BY <1>7, <1>8, <1>9, <1>10, <1>11
<1> QED
  BY <1>12 DEF From

(* The commands of the connection that awaits a reply, sent and unsent,    *)
(* are its own update's.                                                   *)
FromOwn ==
  \A c \in Conns : conn[c].pc = "wait" =>
    /\ conn[c].commands \in Seq(FromUpdate(conn[c].update, active))
    /\ requests # <<>> => requests[1].command \in FromUpdate(conn[c].update, active)

LEMMA FromOwnStep == ProvisioningInv /\ FromOwn /\ [Next]_vars => FromOwn'
<1> SUFFICES ASSUME ProvisioningInv, FromOwn, [Next]_vars PROVE FromOwn'
  OBVIOUS
<1>1. conn \in [Conns -> ConnState] /\ active \in HubConfig /\ LockHeld /\ Quiet /\ Exchange
  BY DEF ProvisioningInv, TypeOK
<1>2. ASSUME UNCHANGED active, requests' \in {requests, <<>>},
             \A d \in Conns : conn'[d] = conn[d] \/ conn'[d].pc # "wait"
      PROVE  FromOwn'
  BY <1>2 DEF FromOwn
<1>3. ASSUME NEW c \in Conns, NEW s, s.pc # "wait", conn' = [conn EXCEPT ![c] = s],
             UNCHANGED <<active, requests>>
      PROVE  FromOwn'
  BY <1>1, <1>2, <1>3
<1>4. ASSUME NEW c \in Conns, NEW status, Respond(c, status), UNCHANGED active
      PROVE  FromOwn'
  <2> DEFINE s == [conn[c] EXCEPT !.pc = "respond", !.status = status]
  <2>1. conn' = [conn EXCEPT ![c] = s] /\ s.pc # "wait" /\ UNCHANGED requests
    BY <1>1, <1>4 DEF Respond, ConnState
  <2> HIDE DEF s
  <2> QED
    BY <1>3, <1>4, <2>1
<1>5. ASSUME NEW c \in Conns, NEW q, q # <<>>, SendNext(c, q), UNCHANGED active,
             q \in Seq(FromUpdate(conn[c].update, active)),
             requests = <<>>, \A d \in Conns \ {c} : conn[d].pc # "wait"
      PROVE  FromOwn'
  <2> DEFINE s == [conn[c] EXCEPT !.pc = "wait", !.commands = Tail(q)]
             r == [conn |-> c, command |-> Head(q)]
             From == FromUpdate(conn[c].update, active)
  <2>1. conn' = [conn EXCEPT ![c] = s] /\ requests' = Append(requests, r)
    BY <1>1, <1>5 DEF SendNext
  <2>2. s.commands = Tail(q) /\ s.update = conn[c].update
    BY <1>1 DEF ConnState
  <2>3. r.command = Head(q) /\ requests' = <<r>> /\ requests'[1] = r
    BY <1>5, <2>1
  <2> HIDE DEF s, r
  <2>4. conn'[c] = s /\ \A d \in Conns \ {c} : conn'[d] = conn[d]
    BY <1>1, <2>1
  <2>5. q \in Seq(From)
    BY <1>5
  <2> HIDE DEF From
  <2>6. Head(q) \in From /\ Tail(q) \in Seq(From)
    BY <1>5, <2>5, SeqHead
  <2> QED
    BY <1>5, <2>2, <2>3, <2>4, <2>6 DEF FromOwn, From
<1>6. CASE \/ SerialReboot \/ UNCHANGED vars \/ HubCtrlSerial
           \/ \E command \in SerialCommands : SerialCommand(command)
  <2>1. UNCHANGED <<active, requests, conn>>
    BY <1>6 DEF SerialReboot, SerialCommand, HubCtrlSerial, vars, device, portal
  <2> QED
    BY <1>2, <2>1
<1>7. CASE HubCtrlPortal
  <2>1. UNCHANGED <<active, conn>> /\ requests' = Tail(requests) /\ requests # <<>>
    BY <1>7 DEF HubCtrlPortal
  <2>2. requests \in Seq([conn : Conns, command : HubCommand]) /\ Len(requests) = 1
    BY <1>1, <2>1 DEF Quiet, Exchange, ProvisioningInv, TypeOK
  <2>3. requests' = <<>>
    BY <2>1, <2>2, SeqOne
  <2> QED
    BY <1>2, <2>1, <2>3
<1>8. ASSUME NEW c \in Conns, NEW update \in Updates, Post(c, update) PROVE FromOwn'
  <2>1. ConnAt("lock", update).pc # "wait"
    BY DEF ConnAt
  <2> QED
    BY <1>3, <1>8, <2>1 DEF Post, device
<1>9. ASSUME NEW c \in Conns, Enter(c) PROVE FromOwn'
  <2> DEFINE q == commands_from_update(conn[c].update, active)
  <2>1. UNCHANGED active /\ lock = Free
    BY <1>9 DEF Enter, device
  <2>2. requests = <<>> /\ \A d \in Conns \ {c} : conn[d].pc # "wait"
    BY <1>1, <2>1, ProvisioningAssumption DEF LockHeld, Quiet
  <2>3. q \in Seq(FromUpdate(conn[c].update, active))
    <3>1. conn[c].update \in Updates \cup {<<>>}
      BY <1>1 DEF ConnState
    <3> QED
      BY <1>1, <3>1, CommandsFrom
  <2>4. Respond(c, "400") \/ (q # <<>> /\ SendNext(c, q))
    BY <1>9 DEF Enter
  <2> HIDE DEF q
  <2> QED
    BY <1>4, <1>5, <2>1, <2>2, <2>3, <2>4
<1>10. ASSUME NEW c \in Conns, Reply(c) PROVE FromOwn'
  <2> DEFINE q == conn[c].commands
  <2>1. UNCHANGED active /\ conn[c].pc = "wait" /\ replies # <<>>
    BY <1>10 DEF Reply, device
  <2>2. requests = <<>> /\ \A d \in Conns \ {c} : conn[d].pc # "wait"
    BY <1>1, <2>1 DEF LockHeld, Exchange
  <2>3. q \in Seq(FromUpdate(conn[c].update, active))
    BY <2>1 DEF FromOwn
  <2>4. Respond(c, "422") \/ Respond(c, "200") \/ (q # <<>> /\ SendNext(c, q))
    BY <1>10 DEF Reply
  <2> QED
    BY <1>4, <1>5, <2>1, <2>2, <2>3, <2>4
<1>11. ASSUME NEW c \in Conns, NEW delivered \in BOOLEAN, Finish(c, delivered) PROVE FromOwn'
  <2> DEFINE s == IF delivered /\ conn[c].status = "200"
                  THEN ConnAt("reboot", <<>>) ELSE IdleConn
  <2>1. s.pc # "wait" /\ conn' = [conn EXCEPT ![c] = s] /\ UNCHANGED <<active, requests>>
    BY <1>11 DEF Finish, IdleConn, ConnAt, device
  <2> HIDE DEF s
  <2> QED
    BY <1>3, <2>1
<1>12. ASSUME NEW c \in Conns, RequestReboot(c) PROVE FromOwn'
  <2> DEFINE s == [conn[c] EXCEPT !.pc = "halted"]
  <2>1. s.pc # "wait" /\ conn' = [conn EXCEPT ![c] = s] /\ UNCHANGED <<active, requests>>
    BY <1>1, <1>12 DEF RequestReboot, ConnState, device
  <2> HIDE DEF s
  <2> QED
    BY <1>3, <2>1
<1>13. CASE Reset
  <2>1. \A d \in Conns : conn'[d].pc # "wait"
    BY <1>13 DEF Reset, IdleConn, ConnAt
  <2> QED
    BY <2>1 DEF FromOwn
<1> QED
  BY <1>6, <1>7, <1>8, <1>9, <1>10, <1>11, <1>12, <1>13 DEF Next

(* A command of an update changes the group it sets and no other.          *)
LEMMA AppliedGroup ==
  ASSUME NEW config \in HubConfig, NEW command \in HubCommand,
         command.kind \in DOMAIN FieldsOf, NEW group \in DOMAIN FieldsOf
  PROVE  Applied(config, command)[group] =
           IF group = command.kind THEN command.value ELSE config[group]
<1>1. command # Clear /\ DOMAIN FieldsOf = {"wifi", "mqtt", "gateway", "mode"}
  BY DEF Clear, FieldsOf
<1>2. DOMAIN config = {"version", "wifi", "mqtt", "gateway", "mode"}
  BY DEF HubConfig
<1> QED
  BY <1>1, <1>2 DEF Applied

(* A portal update changes no group that it does not name, and what it     *)
(* omits of a group that it names goes back to the configuration of the    *)
(* last boot, the password to none.                                        *)
THEOREM Omitted_As_Booted == Spec => OmittedAsBooted
<1> DEFINE Given == DOMAIN conn[lock].update
           Changed(group) == pending'[group] # pending[group]
           Kept == /\ \A group \in DOMAIN FieldsOf :
                        Changed(group) => FieldsOf[group] \cap Given # {}
                   /\ \A group \in {"mqtt", "gateway"} : Changed(group) =>
                        /\ HostOf[group] \notin Given => pending'[group].host = active[group].host
                        /\ PortOf[group] \notin Given => pending'[group].port = active[group].port
                   /\ Changed("wifi") /\ "wifi_password" \notin Given =>
                        pending'.wifi.password = Empty
<1>1. ProvisioningInv /\ FromOwn /\ HubCtrlPortal => Kept
  <2> SUFFICES ASSUME ProvisioningInv, FromOwn, HubCtrlPortal PROVE Kept
    OBVIOUS
  <2>1. requests \in Seq([conn : Conns, command : HubCommand]) /\ requests # <<>>
    BY DEF ProvisioningInv, TypeOK, HubCtrlPortal
  <2> DEFINE command == requests[1].command
  <2>2. Head(requests).command = command /\ command \in HubCommand
    <3>1. Head(requests) = requests[1] /\ requests[1] \in [conn : Conns, command : HubCommand]
      BY <2>1, SeqHead
    <3> QED
      BY <3>1
  <2>3. PICK c \in Conns : conn[c].pc = "wait"
    BY <2>1 DEF ProvisioningInv, Quiet
  <2>4. lock = c /\ command \in FromUpdate(conn[c].update, active)
    BY <2>1, <2>3 DEF ProvisioningInv, LockHeld, FromOwn
  <2>5. pending' = pending \/ pending' = Applied(pending, command)
    BY <2>2 DEF HubCtrlPortal, handle
  <2>6. pending \in HubConfig
    BY DEF ProvisioningInv, TypeOK
  <2>7. /\ command.kind \in DOMAIN FieldsOf /\ FieldsOf[command.kind] \cap Given # {}
        /\ \A group \in {"mqtt", "gateway"} : command.kind = group =>
             /\ HostOf[group] \notin Given => command.value.host = active[group].host
             /\ PortOf[group] \notin Given => command.value.port = active[group].port
        /\ command.kind = "wifi" /\ "wifi_password" \notin Given =>
             command.value.password = Empty
    BY <2>4 DEF FromUpdate
  <2> HIDE DEF command, Given
  <2>8. \A group \in DOMAIN FieldsOf :
          Changed(group) => group = command.kind /\ pending'[group] = command.value
    BY <2>2, <2>5, <2>6, <2>7, AppliedGroup
  <2>9. {"wifi", "mqtt", "gateway"} \subseteq DOMAIN FieldsOf
    BY DEF FieldsOf
  <2> QED
    BY <2>7, <2>8, <2>9
<1>2. Spec => [](ProvisioningInv /\ FromOwn)
  <2>1. Init => FromOwn
    BY DEF Init, FromOwn, IdleConn, ConnAt
  <2> QED
    BY <2>1, ProvisioningInit, ProvisioningStep, FromOwnStep, PTL DEF Spec
<1>3. (ProvisioningInv /\ FromOwn) /\ [Next]_vars => [HubCtrlPortal => Kept]_vars
  BY <1>1
<1> QED
  BY <1>2, <1>3, PTL DEF Spec, OmittedAsBooted

=============================================================================
