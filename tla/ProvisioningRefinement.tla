------------------------- MODULE ProvisioningRefinement -------------------------
(***************************************************************************)
(* Provisioning, with its control task, its two queues, its reply channel  *)
(* and its lock, implements SettingsService, in which a command is applied *)
(* and answered in one step.                                               *)
(***************************************************************************)
EXTENDS Provisioning

(* What a connection's update has come to.  A command has happened for the *)
(* client as soon as hub_ctrl_task has handled it, so the reply in the     *)
(* channel already counts and reading it changes nothing.  The channels    *)
(* belong to the one connection that waits.                                *)
SessionOf(c) ==
  LET S(stage, left, status) ==
        [stage |-> stage, update |-> conn[c].update, left |-> left, status |-> status]
      rest == conn[c].commands
  IN  CASE conn[c].pc = "idle"    -> S("idle", <<>>, "none")
        [] conn[c].pc = "lock"    -> S("waiting", <<>>, "none")
        [] conn[c].pc = "respond" -> S("answered", rest, conn[c].status)
        [] conn[c].pc \in {"reboot", "halted"} -> S("restarting", <<>>, "none")
        [] conn[c].pc = "wait" /\ replies = <<>> ->
             S("applying", [k \in DOMAIN requests |-> requests[k].command] \o rest, "none")
        [] conn[c].pc = "wait" /\ replies # <<>> ->
             IF Head(replies) # "Ok" THEN S("answered", rest, "422")
             ELSE IF rest = <<>> THEN S("answered", <<>>, "200")
             ELSE S("applying", rest, "none")

Service ==
  INSTANCE SettingsService WITH
    Clients <- Conns, Operator <- SerialCommands, Expand <- commands_from_update,
    durable <- select_config(flash), working <- pending,
    session <- [c \in Conns |-> SessionOf(c)]

(* Whatever the interleaving of the serial host, the HTTP tasks and the    *)
(* control task, with failing writes and resets in between: the hub        *)
(* behaves as if each command of an update were applied and answered in    *)
(* one step, by one client at a time, and what a reset finds is what the   *)
(* last stored command left.                                               *)
ImplementsService == Service!Spec

(* The groups of the configuration, and the fields of an update that name  *)
(* each of them.                                                           *)
FieldsOf ==
  [wifi |-> {"wifi_ssid"}, mqtt |-> {"mqtt_host", "mqtt_port"},
   gateway |-> {"gw_host", "gw_port"}, mode |-> {"mode"}]
HostOf == [mqtt |-> "mqtt_host", gateway |-> "gw_host"]
PortOf == [mqtt |-> "mqtt_port", gateway |-> "gw_port"]

(* A portal update changes no group that it does not name, although serial *)
(* commands have changed the pending configuration since the page was      *)
(* read; and what it omits of a group that it names goes back to the       *)
(* configuration of the last boot, the password to none.                   *)
OmittedAsBooted ==
  [][HubCtrlPortal =>
       LET given == DOMAIN conn[lock].update
           Changed(group) == pending'[group] # pending[group]
       IN  /\ \A group \in DOMAIN FieldsOf :
                Changed(group) => FieldsOf[group] \cap given # {}
           /\ \A group \in {"mqtt", "gateway"} : Changed(group) =>
                /\ HostOf[group] \notin given => pending'[group].host = active[group].host
                /\ PortOf[group] \notin given => pending'[group].port = active[group].port
           /\ Changed("wifi") /\ "wifi_password" \notin given =>
                pending'.wifi.password = Empty]_vars
===============================================================================
