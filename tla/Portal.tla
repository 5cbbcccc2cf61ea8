--------------------------------- MODULE Portal ---------------------------------
(***************************************************************************)
(* The provisioning portal as its users see it: the phone app and the web  *)
(* page on one side, the pool of HTTP tasks on the hub's access point on   *)
(* the other, over TCP connections that deliver a request in any number of *)
(* pieces and may break.                                                   *)
(*                                                                         *)
(* A request is measured in bytes, because the buffer, the header's end    *)
(* and Content-Length decide whether it is answered; its text is not       *)
(* modelled.  What a setting's value is does not matter here, only whether *)
(* it is one the firmware takes.  How hub_ctrl_task stores settings, with  *)
(* its queues and the serial host, is the subject of Provisioning: here it *)
(* stores or refuses one command at a time.                                *)
(***************************************************************************)
EXTENDS Integers, Sequences

CONSTANTS
  Tasks,        \* the pool of portal_http_task
  Apps,         \* clients that validate first (the phone app)
  Pages,        \* clients that do not (the web page in a browser)
  MAX_REQUEST,  \* the size of the request buffer (2048)
  Terminator,   \* the bytes of the blank line that ends the headers (4)
  Requests,     \* what a client may send
  MaxCalls,     \* bound: calls of the clients
  MaxFaults     \* bound: broken connections, late answers, failed writes to flash

Clients == Apps \cup Pages
Nobody == "nobody"

(* ConfigUpdate: a field that is present is "ok", a string longer than its *)
(* field, or a number or name outside its range.                           *)
WifiStrings == {"wifi_ssid", "wifi_password"}
MqttStrings == {"mqtt_host", "client_id"}
GatewayNumbers == {"gw_freq_hz", "gw_sf", "gw_bw_khz", "gw_cr", "gw_port"}
Strings == WifiStrings \cup MqttStrings \cup {"gw_host"}
Fields == Strings \cup GatewayNumbers \cup {"mqtt_port", "mode"}
IsUpdate(update) ==
  /\ DOMAIN update \subseteq Fields
  /\ \A f \in DOMAIN update : update[f] \in (IF f \in Strings THEN {"ok", "long"} ELSE {"ok", "out"})

(* A request: what it asks for, whether its head is HTTP at all, the bytes *)
(* before the blank line, Content-Length, the bytes sent after it.         *)
IsRequest(r) ==
  /\ r.target \in {"page", "config", "status", "update", "elsewhere"}
  /\ r.http \in BOOLEAN
  /\ r.head \in Nat /\ r.length \in Nat /\ r.sent \in Nat
  /\ IsUpdate(r.update)

ASSUME PortalAssumption ==
  /\ Nobody \notin Tasks \cup Clients /\ Apps \cap Pages = {}
  /\ MAX_REQUEST \in Nat /\ Terminator \in Nat \ {0} /\ MaxCalls \in Nat /\ MaxFaults \in Nat
  /\ \A r \in Requests : IsRequest(r)

VARIABLES
  client,   \* each client: its call, if any, and how the last one ended
  task,     \* each HTTP task: where it awaits, whom it serves and its progress
  lock,     \* the task that holds APPLY_LOCK, or Nobody
  admin,    \* ADMIN_CHANNEL holds a Reboot
  boots,    \* how often the hub has started
  calls, faults   \* history: counts for the bounds

bounds == <<calls, faults>>
vars == <<client, task, lock, admin, boots, bounds>>

-----------------------------------------------------------------------------
(* The app's validate_update, and what the firmware makes of an update.    *)

(* Every field but the coding rate is checked.                             *)
validate_update(update) == \A f \in DOMAIN update \ {"gw_cr"} : update[f] = "ok"

(* The groups an update touches, in the order of the commands; a password  *)
(* without a network name touches nothing.                                 *)
Touched(update) ==
  LET If(fields, group) == IF fields \cap DOMAIN update # {} THEN << group >> ELSE <<>>
  IN  If({"wifi_ssid"}, "wifi") \o If(MqttStrings \cup {"mqtt_port"}, "mqtt")
        \o If(GatewayNumbers \cup {"gw_host"}, "gateway") \o If({"mode"}, "mode")

(* commands_from_update: "bad" when a string does not fit or the mode is   *)
(* not known, "empty" when there is nothing to change.                     *)
commands_from_update(update) ==
  LET read == DOMAIN update \ (IF "wifi_ssid" \in DOMAIN update THEN {} ELSE {"wifi_password"})
  IN  IF \E f \in read : update[f] = "long" \/ (f = "mode" /\ update[f] = "out") THEN "bad"
      ELSE IF Touched(update) = <<>> THEN "empty" ELSE "commands"

(* apply_command: the range checks of a group.                             *)
Refuses(update, group) ==
  \E f \in DOMAIN update :
    /\ update[f] = "out"
    /\ \/ group = "mqtt" /\ f = "mqtt_port"
       \/ group = "gateway" /\ f \in GatewayNumbers

-----------------------------------------------------------------------------
(* http.rs.                                                                *)

(* The blank line is counted as part of the body.                          *)
TryParseShort(r, have) ==
  CASE have < r.head + Terminator /\ have >= MAX_REQUEST -> "Bad"
    [] have < r.head + Terminator -> "Incomplete"
    [] ~r.http \/ r.length > MAX_REQUEST - r.head -> "Bad"
    [] have < r.head + r.length -> "Incomplete"
    [] OTHER -> "Complete"

(* What the first have bytes of a request are.                             *)
try_parse(r, have) ==
  CASE have < r.head + Terminator /\ have >= MAX_REQUEST -> "Bad"
    [] have < r.head + Terminator -> "Incomplete"
    [] ~r.http \/ r.length > MAX_REQUEST - r.head -> "Bad"
    [] have < r.head + Terminator + r.length -> "Incomplete"
    [] OTHER -> "Complete"

(* route and the first status of respond.                                  *)
route(target) == IF target = "elsewhere" THEN "302" ELSE "200"

-----------------------------------------------------------------------------
(* The clients.                                                            *)

(* A client that calls and one that is idle.  What an answered call was    *)
(* about, which groups of its update were stored and whether the flash     *)
(* failed is kept for the properties.                                      *)
NoCall == <<>>
NoRequest == [target |-> "none"]
Calling(t, r) ==
  [call |-> << t >>, last |-> r, result |-> "none", stored |-> {}, failed |-> FALSE,
   boot |-> boots]
Idle(result) ==
  [call |-> NoCall, last |-> NoRequest, result |-> result, stored |-> {}, failed |-> FALSE,
   boot |-> 0]

(* An HTTP task and the request it serves.                                 *)
At(pc) == [pc |-> pc, client |-> Nobody, request |-> <<>>, have |-> 0, left |-> <<>>,
           status |-> "none", stored |-> {}, failed |-> FALSE]

Unanswered(c) == client' = [client EXCEPT ![c] = Idle("unreachable")]

(* with_api holds its lock for the whole call, so a client has one at a    *)
(* time.  An app's update that does not validate is never sent.            *)
Validates(c, r) == c \in Apps /\ r.target = "update" => validate_update(r.update)

RefuseLocally(c, r) ==
  /\ client[c].call = NoCall /\ calls < MaxCalls /\ ~Validates(c, r)
  /\ calls' = calls + 1
  /\ client' = [client EXCEPT ![c] = Idle("invalid")]
  /\ UNCHANGED <<task, lock, admin, boots, faults>>

Begin(c, r) ==
  /\ client[c].call = NoCall /\ calls < MaxCalls /\ Validates(c, r)
  /\ calls' = calls + 1

(* A listening socket accepts the connection.                              *)
Call(c, t, r) ==
  /\ Begin(c, r) /\ task[t].pc = "accept"
  /\ client' = [client EXCEPT ![c] = Calling(t, r)]
  /\ task' = [task EXCEPT ![t] = [At("read") EXCEPT !.client = c, !.request = r]]
  /\ UNCHANGED <<lock, admin, boots, faults>>

(* Every task of the pool is busy: the connection is refused.              *)
Refused(c, r) ==
  /\ Begin(c, r) /\ \A t \in Tasks : task[t].pc # "accept"
  /\ client' = [client EXCEPT ![c] = Idle("unreachable")]
  /\ UNCHANGED <<task, lock, admin, boots, faults>>

(* The client's six seconds are over, or its connection breaks.            *)
GiveUp(c) ==
  /\ client[c].call # NoCall /\ faults < MaxFaults
  /\ faults' = faults + 1
  /\ Unanswered(c)
  /\ UNCHANGED <<task, lock, admin, boots, calls>>

(* The connection of task t still has its client.                          *)
Peer(t) == task[t].client
Connected(t) == Peer(t) # Nobody /\ client[Peer(t)].call = << t >>
Asked(t) == task[t].request

-----------------------------------------------------------------------------
(* portal_http_task and serve_connection.                                  *)

(* The connection ends without an answer.                                  *)
HangUp(t) ==
  /\ task' = [task EXCEPT ![t] = At("close")]
  /\ IF Connected(t) THEN Unanswered(Peer(t)) ELSE UNCHANGED client

(* A read returns some of the bytes that are left.                         *)
ReadSome(t) ==
  /\ task[t].pc = "read" /\ Connected(t)
  /\ \E have \in task[t].have + 1..MAX_REQUEST :
       /\ have <= Asked(t).head + Terminator + Asked(t).sent
       /\ LET outcome == try_parse(Asked(t), have)
          IN  \/ /\ outcome = "Incomplete" /\ have < MAX_REQUEST
                 /\ task' = [task EXCEPT ![t].have = have]
                 /\ UNCHANGED client
              \/ /\ outcome = "Bad" \/ (outcome = "Incomplete" /\ have >= MAX_REQUEST)
                 /\ HangUp(t)
              \/ /\ outcome = "Complete"
                 /\ task' = [task EXCEPT ![t].have = have,
                               ![t].pc = IF Asked(t).target = "update" THEN "lock" ELSE "write",
                               ![t].status = IF Asked(t).target = "update" THEN "none"
                                             ELSE route(Asked(t).target)]
                 /\ UNCHANGED client
  /\ UNCHANGED <<lock, admin, boots, bounds>>

(* The read fails: the client is gone, or it has been silent for the ten   *)
(* seconds of the socket's timeout.                                        *)
ReadFails(t) ==
  /\ task[t].pc = "read"
  /\ ~Connected(t) \/ task[t].have = Asked(t).head + Terminator + Asked(t).sent
  /\ HangUp(t)
  /\ UNCHANGED <<lock, admin, boots, bounds>>

(* respond, for an update, once APPLY_LOCK is taken.                       *)
TakeLock(t) ==
  /\ task[t].pc = "lock" /\ lock = Nobody
  /\ lock' = t
  /\ task' = [task EXCEPT ![t] =
       IF commands_from_update(Asked(t).update) = "commands"
       THEN [@ EXCEPT !.pc = "apply", !.left = Touched(Asked(t).update)]
       ELSE [@ EXCEPT !.pc = "write", !.status = "400"]]
  /\ UNCHANGED <<client, admin, boots, bounds>>

(* Settings that the control task refuses are skipped.                     *)
ApplySkips(t) ==
  LET group == Head(task[t].left)
  IN  /\ task[t].pc = "apply"
      /\ task' = [task EXCEPT ![t].left = Tail(@),
                    ![t].stored = IF Refuses(Asked(t).update, group) THEN @ ELSE @ \cup {group},
                    ![t].pc = IF Tail(task[t].left) = <<>> THEN "write" ELSE "apply",
                    ![t].status = "200"]
      /\ UNCHANGED <<client, lock, admin, boots, bounds>>

(* apply_via_hub_ctrl, for one command: the first that is refused or not   *)
(* stored ends the update; what was stored before it stays.                *)
Apply(t) ==
  LET group == Head(task[t].left)
      rest == Tail(task[t].left)
  IN  /\ task[t].pc = "apply"
      /\ \/ /\ ~Refuses(Asked(t).update, group)
            /\ task' = [task EXCEPT ![t].left = rest, ![t].stored = @ \cup {group},
                          ![t].pc = IF rest = <<>> THEN "write" ELSE "apply",
                          ![t].status = IF rest = <<>> THEN "200" ELSE "none"]
            /\ UNCHANGED faults
         \/ /\ Refuses(Asked(t).update, group)
            /\ task' = [task EXCEPT ![t].pc = "write", ![t].status = "422"]
            /\ UNCHANGED faults
         \/ /\ ~Refuses(Asked(t).update, group) /\ faults < MaxFaults
            /\ faults' = faults + 1
            /\ task' = [task EXCEPT ![t].pc = "write", ![t].status = "422", ![t].failed = TRUE]
      /\ UNCHANGED <<client, lock, admin, boots, calls>>

(* What the client makes of an answer: a 4xx is a rejection, and only what *)
(* is not HTTP-success differs between its calls.                          *)
Outcome(status) == IF status \in {"400", "422"} THEN "rejected" ELSE "ok"

(* The guard of APPLY_LOCK is forgotten instead of dropped.                *)
UnlockNever(t) == UNCHANGED lock

(* The guard is dropped when respond returns.                              *)
Unlock(t) == lock' = IF lock = t THEN Nobody ELSE lock

(* A task that saved an update goes back to the pool.                      *)
WrittenNoReboot(t) ==
  /\ task' = [task EXCEPT ![t] = At("close")]

(* Whether the hub restarts is decided by a written "200" to an update.    *)
Written(t) ==
  /\ task' = [task EXCEPT ![t] =
       At(IF task[t].status = "200" /\ Asked(t).target = "update" THEN "reboot" ELSE "close")]

(* write_response succeeds: the client has the answer, or it is gone and   *)
(* the bytes stay in the socket's buffer.                                  *)
WriteAnswer(t) ==
  /\ task[t].pc = "write"
  /\ client' = IF ~Connected(t) THEN client
               ELSE [client EXCEPT ![Peer(t)].call = NoCall,
                       ![Peer(t)].result = Outcome(task[t].status),
                       ![Peer(t)].stored = task[t].stored, ![Peer(t)].failed = task[t].failed]
  /\ Written(t)
  /\ Unlock(t)
  /\ UNCHANGED <<admin, boots, bounds>>

(* The socket fails while the answer is written: no restart.               *)
WriteFails(t) ==
  /\ task[t].pc = "write"
  /\ \/ ~Connected(t) /\ UNCHANGED faults
     \/ Connected(t) /\ faults < MaxFaults /\ faults' = faults + 1
  /\ HangUp(t)
  /\ Unlock(t)
  /\ UNCHANGED <<admin, boots, calls>>

(* flush, close and 50 ms later the socket listens again.                  *)
Listen(t) ==
  /\ task[t].pc = "close"
  /\ task' = [task EXCEPT ![t] = At("accept")]
  /\ UNCHANGED <<client, lock, admin, boots, bounds>>

(* Half a second after the answer: Reboot, and the task stops.             *)
RequestReboot(t) ==
  /\ task[t].pc = "reboot"
  /\ admin' = TRUE
  /\ task' = [task EXCEPT ![t] = At("halted")]
  /\ UNCHANGED <<client, lock, boots, bounds>>

(* The hub starts again; the calls of all clients break.                   *)
Restart ==
  /\ admin
  /\ admin' = FALSE /\ lock' = Nobody
  /\ boots' = boots + 1
  /\ task' = [t \in Tasks |-> At("accept")]
  /\ client' = [c \in Clients |->
       IF client[c].call = NoCall THEN client[c] ELSE Idle("unreachable")]
  /\ UNCHANGED bounds

-----------------------------------------------------------------------------
Init ==
  /\ boots = 0 /\ calls = 0 /\ faults = 0
  /\ client = [c \in Clients |-> Idle("none")]
  /\ task = [t \in Tasks |-> At("accept")]
  /\ lock = Nobody /\ admin = FALSE

TaskStep(t) ==
  ReadSome(t) \/ ReadFails(t) \/ TakeLock(t) \/ Apply(t) \/ WriteAnswer(t) \/ WriteFails(t)
    \/ Listen(t) \/ RequestReboot(t)

Next ==
  \/ \E c \in Clients :
       \/ GiveUp(c)
       \/ \E r \in Requests :
            RefuseLocally(c, r) \/ Refused(c, r) \/ \E t \in Tasks : Call(c, t, r)
  \/ \E t \in Tasks : TaskStep(t)
  \/ Restart

(* The executor polls the tasks that are ready, sockets time out, and TCP  *)
(* delivers.  Nothing makes a client call.                                 *)
Fairness == (\A t \in Tasks : WF_vars(TaskStep(t))) /\ WF_vars(Restart)

Spec == Init /\ [][Next]_vars /\ Fairness

-----------------------------------------------------------------------------
(* Properties.                                                             *)

TypeOK ==
  /\ \A c \in Clients :
       /\ client[c].call \in {NoCall} \cup {<< t >> : t \in Tasks}
       /\ client[c].last \in Requests \cup {NoRequest}
       /\ client[c].result \in {"none", "invalid", "unreachable", "rejected", "ok"}
       /\ client[c].boot \in 0..boots
  /\ \A t \in Tasks :
       /\ task[t].pc \in {"accept", "read", "lock", "apply", "write", "close", "reboot", "halted"}
       /\ task[t].have \in 0..MAX_REQUEST
       /\ task[t].pc \in {"read", "lock", "apply", "write"} => Peer(t) \in Clients
  /\ lock \in Tasks \cup {Nobody} /\ admin \in BOOLEAN
  /\ calls \in 0..MaxCalls /\ faults \in 0..MaxFaults

(* The whole request fits in the buffer and was sent.                      *)
Answerable(r) ==
  /\ r.http /\ r.length <= r.sent
  /\ r.head + Terminator + r.length <= MAX_REQUEST

(* However TCP cuts a request up, it is acted on only when all of its body *)
(* is there, never on a part of it.                                        *)
BodyWhole ==
  \A t \in Tasks : task[t].pc \in {"lock", "apply", "write"} =>
    /\ Answerable(Asked(t))
    /\ task[t].have >= Asked(t).head + Terminator + Asked(t).length

(* A client that is told its update was saved can rely on it: every group  *)
(* it touched was stored; and one that is told of a rejection had a value  *)
(* refused, or met a failing flash, before the last group was stored.      *)
ToldTheTruth ==
  \A c \in Clients : client[c].last.target = "update" =>
    LET update == client[c].last.update
        touched == Touched(update)
    IN  /\ client[c].result = "ok" => client[c].stored = {touched[i] : i \in DOMAIN touched}
        /\ client[c].result = "rejected" =>
             \/ client[c].stored # {touched[i] : i \in DOMAIN touched}
             \/ touched = <<>>

(* What the app's own validation lets through, the hub rejects only for    *)
(* the coding rate the app does not check, an update that changes nothing, *)
(* or a flash that fails.                                                  *)
ValidationAgrees ==
  \A c \in Apps : client[c].result = "rejected" =>
    LET update == client[c].last.update
    IN  \/ client[c].failed \/ Touched(update) = <<>>
        \/ "gw_cr" \in DOMAIN update /\ update["gw_cr"] = "out"

(* A request is taken as a whole, and both sides agree on what it may say. *)
PortalInv ==
  /\ TypeOK
  /\ BodyWhole
  /\ ValidationAgrees

(* The hub restarts after it has told a client that it would.              *)
SavedThenRestarts ==
  \A c \in Clients :
    (client[c].result = "ok" /\ client[c].last.target = "update") ~> boots > client[c].boot

(* A connection never keeps its task: a silent client, a lock held by      *)
(* another task, a refused update or a broken socket all end, and the      *)
(* socket listens again.                                                   *)
BackToListening == \A t \in Tasks : []<>(task[t].pc = "accept")

=============================================================================
