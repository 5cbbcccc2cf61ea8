---------------------------- MODULE SettingsService ----------------------------
(***************************************************************************)
(* What the hub promises to those who configure it, without its tasks,     *)
(* channels and locks.  There is one configuration that survives a restart *)
(* and one that commands are applied to.  Clients send updates of several  *)
(* commands.  One update at a time is applied, one command after the       *)
(* other, each in a single step that stores it or refuses it; the first    *)
(* that is not stored ends the update, and the client is told which of the *)
(* two it was.  An operator's commands may come in between.                *)
(*                                                                         *)
(* Provisioning implements it (ProvisioningRefinement).                    *)
(***************************************************************************)
EXTENDS Sequences

CONSTANTS
  Clients,          \* who sends updates
  Updates,          \* what they may ask for
  Operator,         \* the commands that do not come from an update
  Default,          \* the configuration of a hub that has none
  Expand(_, _),     \* the commands of an update, given the active configuration
  Applied(_, _),    \* a configuration after a command
  Valid(_)          \* whether a command's values are in range

VARIABLES
  durable,   \* the configuration that a restart finds
  working,   \* the configuration that the next command is applied to
  active,    \* the configuration of the last restart
  session    \* each client's update: its stage, its commands left, its answer

vars == <<durable, working, active, session>>

Session(stage, update, left, status) ==
  [stage |-> stage, update |-> update, left |-> left, status |-> status]
Idle == Session("idle", <<>>, <<>>, "none")

(* A client has the turn from its first command to its answer.             *)
HasTurn(c) == session[c].stage \in {"applying", "answered"}

-----------------------------------------------------------------------------
Stored(command) ==
  /\ Valid(command)
  /\ working' = Applied(working, command)
  /\ durable' = working'

Refused(command) == ~Valid(command) /\ UNCHANGED <<working, durable>>

(* A write that fails leaves the command in the working configuration.     *)
NotStored(command) ==
  /\ Valid(command)
  /\ working' = Applied(working, command)
  /\ UNCHANGED durable

OperatorCommand(command) ==
  /\ Stored(command) \/ Refused(command) \/ NotStored(command)
  /\ UNCHANGED <<active, session>>

Submit(c, update) ==
  /\ session[c] = Idle
  /\ session' = [session EXCEPT ![c] = Session("waiting", update, <<>>, "none")]
  /\ UNCHANGED <<durable, working, active>>

Begin(c) ==
  LET update   == session[c].update
      commands == Expand(update, active)
  IN  /\ session[c].stage = "waiting" /\ \A other \in Clients : ~HasTurn(other)
      /\ session' = [session EXCEPT ![c] =
           IF commands = <<>> THEN Session("answered", update, <<>>, "400")
           ELSE Session("applying", update, commands, "none")]
      /\ UNCHANGED <<durable, working, active>>

ApplyNext(c) ==
  LET update  == session[c].update
      command == Head(session[c].left)
      rest    == Tail(session[c].left)
  IN  /\ session[c].stage = "applying"
      /\ \/ /\ Stored(command)
            /\ session' = [session EXCEPT ![c] =
                 IF rest = <<>> THEN Session("answered", update, <<>>, "200")
                 ELSE Session("applying", update, rest, "none")]
         \/ /\ Refused(command) \/ NotStored(command)
            /\ session' = [session EXCEPT ![c] = Session("answered", update, rest, "422")]
      /\ UNCHANGED active

(* The answer arrives or is lost; one that says 200 and arrives is the     *)
(* client's last before the hub restarts.                                  *)
Answer(c) ==
  /\ session[c].stage = "answered"
  /\ \/ session' = [session EXCEPT ![c] = Idle]
     \/ /\ session[c].status = "200"
        /\ session' = [session EXCEPT ![c] = Session("restarting", <<>>, <<>>, "none")]
  /\ UNCHANGED <<durable, working, active>>

(* A restart finds what is durable, or nothing that it can read.           *)
Restart ==
  /\ working' \in {durable, Default} /\ active' = working'
  /\ session' = [c \in Clients |-> Idle]
  /\ UNCHANGED durable

-----------------------------------------------------------------------------
Init ==
  /\ active = durable /\ working = durable
  /\ session = [c \in Clients |-> Idle]

Next ==
  \/ \E command \in Operator : OperatorCommand(command)
  \/ \E c \in Clients :
       (\E update \in Updates : Submit(c, update)) \/ Begin(c) \/ ApplyNext(c) \/ Answer(c)
  \/ Restart

Spec == Init /\ [][Next]_vars
=============================================================================
