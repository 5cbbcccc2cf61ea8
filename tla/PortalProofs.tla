------------------------------ MODULE PortalProofs ------------------------------
(***************************************************************************)
(* Proofs about Portal, for any pool of tasks, any clients, any size of    *)
(* the request buffer and any requests.  What a client is told depends on  *)
(* three records that change apart from each other: the client's own idea  *)
(* of its call, the task's copy of the request, and the lists of what is   *)
(* left and what was stored.  The inductive invariant ties them together.  *)
(***************************************************************************)
EXTENDS Portal, TLAPS

GroupNames == {"wifi", "mqtt", "gateway", "mode"}
AllOf(update) == {Touched(update)[i] : i \in DOMAIN Touched(update)}

(* The records of the clients and of the tasks.                            *)
ClientType ==
  [call : {NoCall} \cup {<< t >> : t \in Tasks}, last : Requests \cup {NoRequest},
   result : {"none", "invalid", "unreachable", "rejected", "ok"},
   stored : SUBSET GroupNames, failed : BOOLEAN, boot : Nat]

TaskType ==
  [pc : {"accept", "read", "lock", "apply", "write", "close", "reboot", "halted"},
   client : Clients \cup {Nobody}, request : Requests \cup {<<>>}, have : 0..MAX_REQUEST,
   left : Seq(GroupNames), status : {"none", "200", "302", "400", "422"},
   stored : SUBSET GroupNames, failed : BOOLEAN]

Serving == {"read", "lock", "apply", "write"}

(* What holds of a client's record: an app has validated the update it     *)
(* sent, and what it knows of an answered call is so.                      *)
ClientOK(c, r) ==
  /\ c \in Apps /\ r.last.target = "update" => validate_update(r.last.update)
  /\ r.last.target = "update" =>
       /\ r.result = "ok" => r.stored = AllOf(r.last.update)
       /\ r.result = "rejected" => r.stored # AllOf(r.last.update) \/ Touched(r.last.update) = <<>>
  /\ c \in Apps /\ r.result = "rejected" =>
       \/ r.failed \/ Touched(r.last.update) = <<>>
       \/ "gw_cr" \in DOMAIN r.last.update /\ r.last.update["gw_cr"] = "out"

(* While a task applies an update, the groups that are left are the last   *)
(* ones of those the update touches, and the n before them are stored.     *)
Applied(k, n) ==
  LET touched == Touched(k.request.update)
  IN  /\ n + Len(k.left) = Len(touched) /\ k.left # <<>>
      /\ \A i \in 1..Len(k.left) : k.left[i] = touched[n + i]
      /\ k.stored = {touched[i] : i \in 1..n}

(* What an answer that is about to be written says is so.                  *)
Verdict(k) ==
  /\ k.request.target # "update" => k.status \in {"200", "302"}
  /\ k.request.target = "update" =>
       \/ k.status = "200" /\ k.stored = AllOf(k.request.update)
       \/ /\ k.status = "400" /\ k.stored = {}
          /\ commands_from_update(k.request.update) # "commands"
       \/ /\ k.status = "422" /\ k.stored # AllOf(k.request.update)
          /\ k.failed \/ \E group \in GroupNames : Refuses(k.request.update, group)

(* What holds of a task's record: it serves a client's request from "read" *)
(* to "write", stores nothing before it has the lock, and acts on whole    *)
(* requests only.                                                          *)
TaskOK(k) ==
  /\ IF k.pc \in Serving THEN k.client \in Clients /\ k.request \in Requests ELSE k.client = Nobody
  /\ k.pc \in {"read", "lock"} => k.stored = {}
  /\ k.pc \in {"lock", "apply"} => k.request.target = "update"
  /\ k.pc = "apply" => \E n \in 0..Len(Touched(k.request.update)) : Applied(k, n)
  /\ k.pc = "write" => Verdict(k)
  /\ k.pc \in {"lock", "apply", "write"} =>
       Answerable(k.request) /\ k.have >= k.request.head + Terminator + k.request.length

Types ==
  /\ client \in [Clients -> ClientType]
  /\ task \in [Tasks -> TaskType]
  /\ lock \in Tasks \cup {Nobody} /\ admin \in BOOLEAN
  /\ boots \in Nat /\ calls \in 0..MaxCalls /\ faults \in 0..MaxFaults

(* As long as a connection lasts, both ends mean the same request.         *)
SameRequest == \A t \in Tasks : Connected(t) => client[Peer(t)].last = Asked(t)

(* One update is applied at a time, by the task that holds APPLY_LOCK.     *)
AppliedUnderLock == \A t \in Tasks : task[t].pc = "apply" => lock = t

PortalIndInv ==
  /\ Types /\ SameRequest /\ AppliedUnderLock
  /\ \A c \in Clients : ClientOK(c, client[c]) /\ client[c].boot <= boots
  /\ \A t \in Tasks : TaskOK(task[t])

-----------------------------------------------------------------------------
(* One more group at the end of a list of different groups, or none.       *)
Different(s) == \A i, j \in 1..Len(s) : s[i] = s[j] => i = j

LEMMA OneMore ==
  ASSUME NEW S, NEW s \in Seq(S), Different(s),
         NEW g, g \notin S, NEW u \in {<<>>, << g >>}
  PROVE  /\ s \o u \in Seq(S \cup {g})
         /\ Different(s \o u)
<1>1. CASE u = <<>>
  <2>1. s \o u = s
    BY <1>1
  <2>2. s \in Seq(S \cup {g})
    OBVIOUS
  <2> QED BY <2>1, <2>2
<1>2. CASE u = << g >>
  <2>1. s \o u = Append(s, g)
    BY <1>2
  <2>2. /\ Append(s, g) \in Seq(S \cup {g}) /\ Len(Append(s, g)) = Len(s) + 1
        /\ Append(s, g)[Len(s) + 1] = g /\ \A i \in 1..Len(s) : Append(s, g)[i] = s[i]
    OBVIOUS
  <2>3. \A i \in 1..Len(s) : s[i] # g
    OBVIOUS
  <2> QED BY <2>1, <2>2, <2>3 DEF Different
<1> QED BY <1>1, <1>2

(* The groups an update touches are pairwise different.                    *)
LEMMA TouchedGroups ==
  ASSUME NEW update
  PROVE  /\ Touched(update) \in Seq(GroupNames)
         /\ Different(Touched(update))
<1> DEFINE If(fields, group) == IF fields \cap DOMAIN update # {} THEN << group >> ELSE <<>>
           a == If({"wifi_ssid"}, "wifi")
           b == If(MqttStrings \cup {"mqtt_port"}, "mqtt")
           c == If(GatewayNumbers \cup {"gw_host"}, "gateway")
           d == If({"mode"}, "mode")
<1>1. /\ a \in {<<>>, << "wifi" >>} /\ b \in {<<>>, << "mqtt" >>}
      /\ c \in {<<>>, << "gateway" >>} /\ d \in {<<>>, << "mode" >>}
  OBVIOUS
<1>2. Touched(update) = a \o b \o c \o d
  BY DEF Touched
<1> HIDE DEF a, b, c, d
<1>3. a \in Seq({"wifi"}) /\ Different(a)
  <2>1. CASE a = <<>>
    BY <2>1 DEF Different
  <2>2. CASE a = << "wifi" >>
    BY <2>2 DEF Different
  <2> QED BY <1>1, <2>1, <2>2
<1>4. a \o b \in Seq({"wifi", "mqtt"}) /\ Different(a \o b)
  <2>1. a \o b \in Seq({"wifi"} \cup {"mqtt"}) /\ Different(a \o b)
    <3>1. "mqtt" \notin {"wifi"}
      OBVIOUS
    <3> QED BY <1>1, <1>3, <3>1, OneMore, Zenon
  <2>2. {"wifi"} \cup {"mqtt"} = {"wifi", "mqtt"}
    OBVIOUS
  <2> QED BY <2>1, <2>2
<1>5. a \o b \o c \in Seq({"wifi", "mqtt", "gateway"}) /\ Different(a \o b \o c)
  <2>1. a \o b \o c \in Seq({"wifi", "mqtt"} \cup {"gateway"}) /\ Different(a \o b \o c)
    <3>1. "gateway" \notin {"wifi", "mqtt"}
      OBVIOUS
    <3> QED BY <1>1, <1>4, <3>1, OneMore, Zenon
  <2>2. {"wifi", "mqtt"} \cup {"gateway"} = {"wifi", "mqtt", "gateway"}
    OBVIOUS
  <2> QED BY <2>1, <2>2
<1>6. a \o b \o c \o d \in Seq({"wifi", "mqtt", "gateway"} \cup {"mode"})
      /\ Different(a \o b \o c \o d)
  <2>1. "mode" \notin {"wifi", "mqtt", "gateway"}
    OBVIOUS
  <2> QED BY <1>1, <1>5, <2>1, OneMore, Zenon
<1>7. {"wifi", "mqtt", "gateway"} \cup {"mode"} = GroupNames
  BY DEF GroupNames
<1> QED BY <1>2, <1>6, <1>7

-----------------------------------------------------------------------------
(* The records of idle clients and of tasks that serve nobody are fine.    *)
LEMMA IdleOK ==
  ASSUME NEW c \in Clients, NEW result \in {"none", "invalid", "unreachable"}
  PROVE  /\ Idle(result) \in ClientType /\ ClientOK(c, Idle(result))
         /\ Idle(result).call = NoCall /\ Idle(result).boot = 0
<1>1. Idle(result) \in ClientType
  BY DEF Idle, ClientType
<1>2. Idle(result).last.target = "none" /\ Idle(result).result = result
  BY DEF Idle, NoRequest
<1> QED BY <1>1, <1>2 DEF Idle, ClientOK

LEMMA AtOK ==
  ASSUME NEW pc \in {"accept", "close", "reboot", "halted"}
  PROVE  At(pc) \in TaskType /\ TaskOK(At(pc)) /\ At(pc).client = Nobody /\ At(pc).pc = pc
<1>1. <<>> \in Seq(GroupNames) /\ 0 \in 0..MAX_REQUEST
  BY PortalAssumption
<1>2. At(pc) \in TaskType
  BY <1>1 DEF At, TaskType
<1>3. At(pc).client = Nobody /\ At(pc).pc = pc
  BY DEF At
<1> QED BY <1>2, <1>3 DEF TaskOK, Serving

(* A step that gives no client a new call: it is enough to look at the     *)
(* records that change.                                                    *)
LEMMA Moves ==
  ASSUME PortalIndInv,
         client' \in [Clients -> ClientType], task' \in [Tasks -> TaskType],
         \A c \in Clients :
           client'[c] = client[c] \/ (/\ client'[c].call = NoCall /\ client'[c].boot <= boots
                                      /\ ClientOK(c, client'[c])),
         \A t \in Tasks :
           \/ task'[t] = task[t]
           \/ /\ TaskOK(task'[t])
              /\ \/ task'[t].client = Nobody
                 \/ task'[t].client = task[t].client /\ task'[t].request = task[t].request,
         \A t \in Tasks : task'[t].pc = "apply" => lock' = t,
         lock' \in Tasks \cup {Nobody}, admin' \in BOOLEAN, boots' = boots,
         calls' \in 0..MaxCalls, faults' \in 0..MaxFaults
  PROVE  PortalIndInv'
<1>1. Types'
  BY DEF Types, PortalIndInv
<1>2. SameRequest'
  <2> SUFFICES ASSUME NEW t \in Tasks, task'[t].client # Nobody,
                      client'[task'[t].client].call = << t >>
               PROVE  client'[task'[t].client].last = task'[t].request
    BY DEF SameRequest, Connected, Peer, Asked
  <2>1. task'[t].client = task[t].client /\ task'[t].request = task[t].request
    OBVIOUS
  <2>2. task[t].client \in Clients
    BY <2>1 DEF PortalIndInv, Types, TaskType
  <2>3. client'[task[t].client] = client[task[t].client]
    BY <2>1, <2>2 DEF NoCall
  <2> QED BY <2>1, <2>3 DEF PortalIndInv, SameRequest, Connected, Peer, Asked
<1>3. AppliedUnderLock'
  BY DEF AppliedUnderLock
<1>4. \A c \in Clients : ClientOK(c, client'[c]) /\ client'[c].boot <= boots'
  BY DEF PortalIndInv
<1>5. \A t \in Tasks : TaskOK(task'[t])
  BY DEF PortalIndInv
<1> QED BY <1>1, <1>2, <1>3, <1>4, <1>5 DEF PortalIndInv
(* A connection that ends without an answer.                               *)
LEMMA HangUpMoves ==
  ASSUME PortalIndInv, NEW t \in Tasks, HangUp(t)
  PROVE  /\ client' \in [Clients -> ClientType] /\ task' \in [Tasks -> TaskType]
         /\ \A c \in Clients :
              client'[c] = client[c] \/ (/\ client'[c].call = NoCall /\ client'[c].boot <= boots
                                         /\ ClientOK(c, client'[c]))
         /\ task'[t] = At("close") /\ \A u \in Tasks \ {t} : task'[u] = task[u]
<1>1. At("close") \in TaskType
  BY AtOK
<1>2. /\ task' \in [Tasks -> TaskType]
      /\ task'[t] = At("close") /\ \A u \in Tasks \ {t} : task'[u] = task[u]
  BY <1>1 DEF HangUp, PortalIndInv, Types
<1>3. CASE Connected(t)
  <2>1. Peer(t) \in Clients /\ client' = [client EXCEPT ![Peer(t)] = Idle("unreachable")]
    BY <1>3 DEF HangUp, Unanswered, Connected, Peer, PortalIndInv, Types, TaskType
  <2>2. /\ Idle("unreachable") \in ClientType /\ ClientOK(Peer(t), Idle("unreachable"))
        /\ Idle("unreachable").call = NoCall /\ Idle("unreachable").boot = 0
    BY <2>1, IdleOK
  <2> QED BY <1>2, <2>1, <2>2 DEF PortalIndInv, Types
<1>4. CASE ~Connected(t)
  BY <1>2, <1>4 DEF HangUp, PortalIndInv, Types
<1> QED BY <1>3, <1>4

(* What a step of task t leaves to show when it only changes its record.   *)
LEMMA TaskMoves ==
  ASSUME PortalIndInv, NEW t \in Tasks, NEW k \in TaskType,
         task' = [task EXCEPT ![t] = k], TaskOK(k),
         \/ k.client = Nobody
         \/ k.client = task[t].client /\ k.request = task[t].request,
         k.pc = "apply" => lock' = t, lock' \in {lock, Nobody, t},
         lock' = lock \/ lock \in {Nobody, t},
         UNCHANGED client, admin' \in BOOLEAN, boots' = boots,
         calls' = calls, faults' \in 0..MaxFaults
  PROVE  PortalIndInv'
<1>1. /\ task' \in [Tasks -> TaskType]
      /\ task'[t] = k /\ \A u \in Tasks \ {t} : task'[u] = task[u]
  BY DEF PortalIndInv, Types
<1>2. \A u \in Tasks : task'[u].pc = "apply" => lock' = u
  BY <1>1, PortalAssumption DEF PortalIndInv, AppliedUnderLock
<1>3. \A u \in Tasks :
        \/ task'[u] = task[u]
        \/ /\ TaskOK(task'[u])
           /\ \/ task'[u].client = Nobody
              \/ task'[u].client = task[u].client /\ task'[u].request = task[u].request
  BY <1>1
<1>4. lock' \in Tasks \cup {Nobody} /\ client' \in [Clients -> ClientType] /\ calls' \in 0..MaxCalls
  BY DEF PortalIndInv, Types
<1> QED BY <1>1, <1>2, <1>3, <1>4, Moves
-----------------------------------------------------------------------------
(* The steps of the clients.                                               *)

LEMMA BecomesIdle ==
  ASSUME PortalIndInv, NEW c \in Clients, NEW result \in {"invalid", "unreachable"},
         client' = [client EXCEPT ![c] = Idle(result)],
         UNCHANGED <<task, lock, admin, boots>>,
         calls' \in 0..MaxCalls, faults' \in 0..MaxFaults
  PROVE  PortalIndInv'
<1>1. /\ Idle(result) \in ClientType /\ ClientOK(c, Idle(result))
      /\ Idle(result).call = NoCall /\ Idle(result).boot = 0
  BY IdleOK
<1>2. /\ client' \in [Clients -> ClientType]
      /\ client'[c] = Idle(result) /\ \A d \in Clients \ {c} : client'[d] = client[d]
      /\ 0 <= boots
  BY <1>1 DEF PortalIndInv, Types
<1>3. \A t \in Tasks : task'[t] = task[t] /\ (task'[t].pc = "apply" => lock' = t)
  BY DEF PortalIndInv, AppliedUnderLock
<1>4. lock' \in Tasks \cup {Nobody} /\ task' \in [Tasks -> TaskType] /\ admin' \in BOOLEAN
  BY DEF PortalIndInv, Types
<1> QED BY <1>1, <1>2, <1>3, <1>4, Moves

LEMMA GiveUpStep ==
  ASSUME PortalIndInv, NEW c \in Clients, GiveUp(c) PROVE PortalIndInv'
<1>1. faults' \in 0..MaxFaults /\ calls' \in 0..MaxCalls
  BY PortalAssumption DEF GiveUp, PortalIndInv, Types
<1> QED BY <1>1, BecomesIdle DEF GiveUp, Unanswered

LEMMA RefusedStep ==
  ASSUME PortalIndInv, NEW c \in Clients, NEW r \in Requests, RefuseLocally(c, r) \/ Refused(c, r)
  PROVE  PortalIndInv'
<1>1. faults' \in 0..MaxFaults /\ calls' \in 0..MaxCalls
  BY PortalAssumption DEF RefuseLocally, Refused, Begin, PortalIndInv, Types
<1> QED BY <1>1, BecomesIdle DEF RefuseLocally, Refused

(* A call: the connection is new, so no other task has a claim to the      *)
(* client, and both ends start from the same request.                      *)
LEMMA CallStep ==
  ASSUME PortalIndInv, NEW c \in Clients, NEW t \in Tasks, NEW r \in Requests, Call(c, t, r)
  PROVE  PortalIndInv'
<1> DEFINE k == [At("read") EXCEPT !.client = c, !.request = r]
<1>1. IsRequest(r) /\ MAX_REQUEST \in Nat /\ Nobody \notin Clients
  BY PortalAssumption
<1>2. /\ k.pc = "read" /\ k.client = c /\ k.request = r /\ k.stored = {}
      /\ k = [At("read") EXCEPT !.client = c, !.request = r]
  BY DEF At
<1>3. k \in TaskType /\ TaskOK(k)
  <2>1. <<>> \in Seq(GroupNames) /\ 0 \in 0..MAX_REQUEST
    BY <1>1
  <2>2. At("read") \in TaskType
    BY <2>1 DEF At, TaskType
  <2>3. k \in TaskType
    BY <2>2 DEF TaskType
  <2> HIDE DEF k
  <2> QED BY <1>2, <2>3 DEF TaskOK, Serving
<1>4. /\ Calling(t, r) \in ClientType /\ Calling(t, r).call = << t >> /\ Calling(t, r).last = r
      /\ Calling(t, r).boot = boots
  BY DEF Calling, ClientType, PortalIndInv, Types
<1>5. ClientOK(c, Calling(t, r))
  BY DEF ClientOK, Calling, Call, Begin, Validates
<1>6. /\ task' \in [Tasks -> TaskType]
      /\ task'[t] = k /\ \A u \in Tasks \ {t} : task'[u] = task[u]
  BY <1>3 DEF Call, PortalIndInv, Types
<1>7. /\ client' \in [Clients -> ClientType]
      /\ client'[c] = Calling(t, r) /\ \A d \in Clients \ {c} : client'[d] = client[d]
  BY <1>4 DEF Call, PortalIndInv, Types
<1>8. lock' = lock /\ admin' = admin /\ boots' = boots /\ faults' = faults /\ calls' \in 0..MaxCalls
  BY PortalAssumption DEF Call, Begin, PortalIndInv, Types
<1> HIDE DEF k
<1>9. Types'
  BY <1>6, <1>7, <1>8 DEF Types, PortalIndInv
<1>10. SameRequest'
  <2> SUFFICES ASSUME NEW u \in Tasks, task'[u].client # Nobody,
                      client'[task'[u].client].call = << u >>
               PROVE  client'[task'[u].client].last = task'[u].request
    BY DEF SameRequest, Connected, Peer, Asked
  <2>1. CASE u = t
    BY <1>2, <1>4, <1>6, <1>7, <2>1
  <2>2. CASE u # t
    <3>1. task'[u] = task[u] /\ task[u].client \in Clients
      BY <1>6, <2>2 DEF PortalIndInv, Types, TaskType
    <3>2. task[u].client # c
      BY <1>4, <1>7, <2>2, <3>1
    <3> QED BY <1>7, <3>1, <3>2 DEF PortalIndInv, SameRequest, Connected, Peer, Asked
  <2> QED BY <2>1, <2>2
<1>11. AppliedUnderLock'
  BY <1>2, <1>6, <1>8 DEF AppliedUnderLock, PortalIndInv
<1>12. \A d \in Clients : ClientOK(d, client'[d]) /\ client'[d].boot <= boots'
  BY <1>4, <1>5, <1>7, <1>8 DEF PortalIndInv, Types
<1>13. \A u \in Tasks : TaskOK(task'[u])
  BY <1>3, <1>6 DEF PortalIndInv
<1> QED BY <1>9, <1>10, <1>11, <1>12, <1>13 DEF PortalIndInv

(* A restart: every task listens and no client has a call.                 *)
LEMMA RestartStep ==
  ASSUME PortalIndInv, Restart PROVE PortalIndInv'
<1>1. /\ At("accept") \in TaskType /\ TaskOK(At("accept"))
      /\ At("accept").client = Nobody /\ At("accept").pc = "accept"
  BY AtOK
<1>2. \A t \in Tasks : task'[t] = At("accept")
  BY DEF Restart
<1>3. \A c \in Clients : /\ Idle("unreachable") \in ClientType /\ ClientOK(c, Idle("unreachable"))
                         /\ Idle("unreachable").boot = 0
  BY IdleOK
<1>4. \A c \in Clients : client'[c] \in {client[c], Idle("unreachable")}
  BY DEF Restart
<1>5. \A c \in Clients : client'[c] \in ClientType
  BY <1>3, <1>4 DEF PortalIndInv, Types
<1>6. Types'
  <2>1. task' \in [Tasks -> TaskType]
    BY <1>1 DEF Restart
  <2>2. client' \in [Clients -> ClientType]
    BY <1>5 DEF Restart
  <2>3. lock' = Nobody /\ admin' = FALSE /\ boots' = boots + 1 /\ calls' = calls /\ faults' = faults
    BY DEF Restart, bounds
  <2>4. boots + 1 \in Nat /\ calls \in 0..MaxCalls /\ faults \in 0..MaxFaults
    BY DEF PortalIndInv, Types
  <2>5. lock' \in Tasks \cup {Nobody} /\ admin' \in BOOLEAN
    BY <2>3
  <2>6. boots' \in Nat /\ calls' \in 0..MaxCalls /\ faults' \in 0..MaxFaults
    BY <2>3, <2>4
  <2> QED BY <2>1, <2>2, <2>5, <2>6 DEF Types
<1>7. SameRequest' /\ AppliedUnderLock'
  BY <1>1, <1>2 DEF SameRequest, AppliedUnderLock, Connected, Peer
<1>8. \A c \in Clients : ClientOK(c, client'[c]) /\ client'[c].boot <= boots'
  <2> SUFFICES ASSUME NEW c \in Clients PROVE ClientOK(c, client'[c]) /\ client'[c].boot <= boots'
    OBVIOUS
  <2>1. boots \in Nat /\ boots' = boots + 1 /\ client[c].boot \in Nat
    BY DEF Restart, PortalIndInv, Types, ClientType
  <2>2. ClientOK(c, client[c]) /\ client[c].boot <= boots
    BY DEF PortalIndInv
  <2> QED BY <1>3, <1>4, <2>1, <2>2
<1>9. \A t \in Tasks : TaskOK(task'[t])
  BY <1>1, <1>2
<1> QED BY <1>6, <1>7, <1>8, <1>9 DEF PortalIndInv
-----------------------------------------------------------------------------
(* The steps of the tasks.                                                 *)

(* What try_parse calls complete is a whole request.                       *)
LEMMA ParsedWhole ==
  ASSUME NEW r \in Requests, NEW have \in 0..MAX_REQUEST,
         have <= r.head + Terminator + r.sent, try_parse(r, have) = "Complete"
  PROVE  Answerable(r) /\ have >= r.head + Terminator + r.length
<1>1. /\ r.http \in BOOLEAN /\ r.head \in Nat /\ r.length \in Nat /\ r.sent \in Nat
      /\ Terminator \in Nat /\ MAX_REQUEST \in Nat
  BY PortalAssumption DEF IsRequest
<1>2. ~(have < r.head + Terminator)
  BY <1>1 DEF try_parse
<1>3. r.http /\ ~(r.length > MAX_REQUEST - r.head)
  BY <1>2 DEF try_parse
<1>4. ~(have < r.head + Terminator + r.length)
  BY <1>2, <1>3 DEF try_parse
<1> QED BY <1>1, <1>3, <1>4 DEF Answerable

LEMMA ReadStep ==
  ASSUME PortalIndInv, NEW t \in Tasks, ReadSome(t) PROVE PortalIndInv'
<1>1. /\ task[t] \in TaskType /\ TaskOK(task[t]) /\ task[t].pc = "read"
      /\ task[t].client \in Clients /\ task[t].request \in Requests /\ task[t].stored = {}
      /\ UNCHANGED <<lock, admin, boots, bounds>>
  BY DEF ReadSome, PortalIndInv, Types, TaskOK, Serving
<1>2. PICK have \in task[t].have + 1..MAX_REQUEST :
        /\ have <= task[t].request.head + Terminator + task[t].request.sent
        /\ LET outcome == try_parse(task[t].request, have)
           IN  \/ /\ task' = [task EXCEPT ![t].have = have]
                  /\ UNCHANGED client
               \/ HangUp(t)
               \/ /\ outcome = "Complete"
                  /\ task' = [task EXCEPT ![t].have = have,
                                ![t].pc = IF task[t].request.target = "update" THEN "lock" ELSE "write",
                                ![t].status = IF task[t].request.target = "update" THEN "none"
                                              ELSE route(task[t].request.target)]
                  /\ UNCHANGED client
  BY DEF ReadSome, Asked
<1>3. have \in 0..MAX_REQUEST
  BY <1>1, PortalAssumption DEF TaskType
<1>4. /\ lock' = lock /\ admin' \in BOOLEAN /\ boots' = boots /\ calls' = calls
      /\ calls' \in 0..MaxCalls /\ faults' \in 0..MaxFaults
      /\ lock' \in Tasks \cup {Nobody}
  BY <1>1 DEF bounds, PortalIndInv, Types
<1>5. CASE task' = [task EXCEPT ![t].have = have] /\ UNCHANGED client
  <2> DEFINE k == [task[t] EXCEPT !.have = have]
  <2>1. k \in TaskType /\ k.pc = "read" /\ k.client = task[t].client /\ k.request = task[t].request
        /\ k.stored = {}
    BY <1>1, <1>3 DEF TaskType
  <2>2. TaskOK(k)
    BY <1>1, <2>1 DEF TaskOK, Serving
  <2>3. task' = [task EXCEPT ![t] = k]
    BY <1>5
  <2> HIDE DEF k
  <2> QED BY <1>4, <1>5, <2>1, <2>2, <2>3, TaskMoves
<1>6. CASE HangUp(t)
  <2>1. /\ TaskOK(At("close")) /\ At("close").client = Nobody /\ At("close").pc = "close"
    BY AtOK
  <2>2. \A u \in Tasks :
          /\ task'[u] = task[u] \/ (TaskOK(task'[u]) /\ task'[u].client = Nobody)
          /\ task'[u].pc = "apply" => lock' = u
    BY <1>4, <1>6, <2>1, HangUpMoves DEF PortalIndInv, AppliedUnderLock
  <2> QED BY <1>4, <1>6, <2>2, HangUpMoves, Moves
<1>7. CASE /\ try_parse(task[t].request, have) = "Complete"
           /\ task' = [task EXCEPT ![t].have = have,
                         ![t].pc = IF task[t].request.target = "update" THEN "lock" ELSE "write",
                         ![t].status = IF task[t].request.target = "update" THEN "none"
                                       ELSE route(task[t].request.target)]
           /\ UNCHANGED client
  <2> DEFINE pc == IF task[t].request.target = "update" THEN "lock" ELSE "write"
             status == IF task[t].request.target = "update" THEN "none"
                       ELSE route(task[t].request.target)
             k == [task[t] EXCEPT !.have = have, !.pc = pc, !.status = status]
  <2>1. /\ pc \in {"lock", "write"} /\ status \in {"none", "200", "302"}
        /\ pc = "lock" => task[t].request.target = "update"
        /\ pc = "write" => task[t].request.target # "update" /\ status \in {"200", "302"}
    BY DEF route
  <2>2. task' = [task EXCEPT ![t] = k]
    BY <1>7
  <2> HIDE DEF pc, status
  <2>3. /\ k \in TaskType /\ k.pc = pc /\ k.status = status /\ k.have = have /\ k.stored = {}
        /\ k.client = task[t].client /\ k.request = task[t].request
    BY <1>1, <1>3, <2>1 DEF TaskType
  <2>4. Answerable(task[t].request)
        /\ have >= task[t].request.head + Terminator + task[t].request.length
    BY <1>1, <1>2, <1>3, <1>7, ParsedWhole
  <2> HIDE DEF k
  <2>5. TaskOK(k)
    BY <1>1, <2>1, <2>3, <2>4 DEF TaskOK, Serving, Verdict
  <2> QED BY <1>4, <1>7, <2>1, <2>2, <2>3, <2>5, TaskMoves
<1> QED BY <1>2, <1>5, <1>6, <1>7

LEMMA ReadFailsStep ==
  ASSUME PortalIndInv, NEW t \in Tasks, ReadFails(t) PROVE PortalIndInv'
<1>1. /\ lock' = lock /\ admin' \in BOOLEAN /\ boots' = boots
      /\ calls' \in 0..MaxCalls /\ faults' \in 0..MaxFaults /\ lock' \in Tasks \cup {Nobody}
  BY DEF ReadFails, bounds, PortalIndInv, Types
<1>2. /\ TaskOK(At("close")) /\ At("close").client = Nobody /\ At("close").pc = "close"
  BY AtOK
<1>3. HangUp(t)
  BY DEF ReadFails
<1>4. \A u \in Tasks :
        /\ task'[u] = task[u] \/ (TaskOK(task'[u]) /\ task'[u].client = Nobody)
        /\ task'[u].pc = "apply" => lock' = u
  BY <1>1, <1>2, <1>3, HangUpMoves DEF PortalIndInv, AppliedUnderLock
<1> QED BY <1>1, <1>3, <1>4, HangUpMoves, Moves
LEMMA TakeLockStep ==
  ASSUME PortalIndInv, NEW t \in Tasks, TakeLock(t) PROVE PortalIndInv'
<1> DEFINE update == task[t].request.update
           apply == [task[t] EXCEPT !.pc = "apply", !.left = Touched(update)]
           reject == [task[t] EXCEPT !.pc = "write", !.status = "400"]
<1>1. /\ task[t] \in TaskType /\ TaskOK(task[t]) /\ task[t].pc = "lock" /\ lock = Nobody
      /\ lock' = t /\ admin' \in BOOLEAN /\ boots' = boots /\ calls' = calls
      /\ faults' \in 0..MaxFaults /\ UNCHANGED client
  BY DEF TakeLock, bounds, PortalIndInv, Types
<1>2. /\ task[t].client \in Clients /\ task[t].request \in Requests /\ task[t].stored = {}
      /\ task[t].request.target = "update" /\ Answerable(task[t].request)
      /\ task[t].have >= task[t].request.head + Terminator + task[t].request.length
  BY <1>1 DEF TaskOK, Serving
<1>3. CASE commands_from_update(update) = "commands"
  <2>1. task' = [task EXCEPT ![t] = apply]
    BY <1>3 DEF TakeLock, Asked
  <2>2. Touched(update) \in Seq(GroupNames) /\ Touched(update) # <<>>
    BY <1>3, TouchedGroups DEF commands_from_update
  <2>3. /\ apply \in TaskType /\ apply.pc = "apply" /\ apply.left = Touched(update)
        /\ apply.client = task[t].client /\ apply.request = task[t].request
        /\ apply.stored = {} /\ apply.have = task[t].have
    BY <1>1, <1>2, <2>2 DEF TaskType
  <2> HIDE DEF apply
  <2>4. Applied(apply, 0) /\ 0 \in 0..Len(Touched(update))
    BY <2>2, <2>3 DEF Applied
  <2>5. TaskOK(apply)
    BY <1>2, <2>3, <2>4 DEF TaskOK, Serving
  <2> QED BY <1>1, <2>1, <2>3, <2>5, TaskMoves
<1>4. CASE commands_from_update(update) # "commands"
  <2>1. task' = [task EXCEPT ![t] = reject]
    BY <1>4 DEF TakeLock, Asked
  <2>2. /\ reject \in TaskType /\ reject.pc = "write" /\ reject.status = "400"
        /\ reject.client = task[t].client /\ reject.request = task[t].request
        /\ reject.stored = {} /\ reject.have = task[t].have
    BY <1>1, <1>2 DEF TaskType
  <2> HIDE DEF reject
  <2>3. TaskOK(reject)
    BY <1>2, <1>4, <2>2 DEF TaskOK, Serving, Verdict
  <2> QED BY <1>1, <2>1, <2>2, <2>3, TaskMoves
<1> QED BY <1>3, <1>4

(* The next group of an update that is being applied: once it is stored,   *)
(* one more of the groups touched is, and until then not all of them are.  *)
LEMMA NextGroup ==
  ASSUME NEW k \in TaskType, NEW n \in 0..Len(Touched(k.request.update)), Applied(k, n)
  PROVE  LET touched == Touched(k.request.update)
             group == Head(k.left)
             rest == Tail(k.left)
         IN  /\ group \in GroupNames /\ rest \in Seq(GroupNames)
             /\ k.stored # AllOf(k.request.update)
             /\ rest = <<>> => k.stored \cup {group} = AllOf(k.request.update)
             /\ n + 1 \in 0..Len(touched) /\ n + 1 + Len(rest) = Len(touched)
             /\ \A i \in 1..Len(rest) : rest[i] = touched[n + 1 + i]
             /\ k.stored \cup {group} = {touched[i] : i \in 1..n + 1}
<1> DEFINE touched == Touched(k.request.update)
           group == Head(k.left)
           rest == Tail(k.left)
<1>1. touched \in Seq(GroupNames) /\ Different(touched)
  BY TouchedGroups
<1>2. /\ n + Len(k.left) = Len(touched) /\ k.left # <<>> /\ k.left \in Seq(GroupNames)
      /\ \A i \in 1..Len(k.left) : k.left[i] = touched[n + i]
      /\ k.stored = {touched[i] : i \in 1..n}
  BY DEF Applied, TaskType
<1>3. AllOf(k.request.update) = {touched[i] : i \in 1..Len(touched)}
  <2>1. DOMAIN touched = 1..Len(touched)
    BY <1>1
  <2> QED BY <2>1 DEF AllOf
<1> HIDE DEF touched
<1>4. /\ Len(k.left) \in Nat \ {0} /\ rest \in Seq(GroupNames) /\ Len(rest) = Len(k.left) - 1
      /\ group = k.left[1] /\ group \in GroupNames /\ \A i \in 1..Len(rest) : rest[i] = k.left[i + 1]
  BY <1>2
<1> HIDE DEF group, rest
<1>5. n \in Nat /\ Len(touched) \in Nat /\ n < Len(touched) /\ group = touched[n + 1]
  BY <1>1, <1>2, <1>4 DEF touched
<1>6. \A i \in 1..n : touched[i] # touched[n + 1]
  BY <1>1, <1>5 DEF Different
<1>7. k.stored \cup {group} = {touched[i] : i \in 1..n + 1}
  <2>1. 1..n + 1 = (1..n) \cup {n + 1}
    BY <1>5
  <2> QED BY <1>2, <1>5, <2>1
<1>8. k.stored # AllOf(k.request.update)
  <2>1. group \notin k.stored
    BY <1>2, <1>5, <1>6
  <2>2. group \in AllOf(k.request.update)
    BY <1>3, <1>5
  <2> QED BY <2>1, <2>2
<1>9. rest = <<>> => n + 1 = Len(touched)
  BY <1>2, <1>4, <1>5
<1>10. \A i \in 1..Len(rest) : rest[i] = touched[n + 1 + i]
  BY <1>2, <1>4, <1>5
<1>11. n + 1 \in 0..Len(touched) /\ n + 1 + Len(rest) = Len(touched)
  <2>1. n + Len(k.left) = Len(touched) /\ Len(rest) = Len(k.left) - 1 /\ Len(k.left) \in Nat
    BY <1>2, <1>4
  <2>2. \A l \in Nat : n + 1 + (l - 1) = n + l
    BY <1>5
  <2>3. n + 1 + Len(rest) = Len(touched)
    BY <2>1, <2>2
  <2>4. n + 1 \in 0..Len(touched)
    BY <1>5
  <2> QED BY <2>3, <2>4
<1> QED BY <1>3, <1>4, <1>7, <1>8, <1>9, <1>10, <1>11 DEF touched, group, rest
LEMMA ApplyStep ==
  ASSUME PortalIndInv, NEW t \in Tasks, Apply(t) PROVE PortalIndInv'
<1> DEFINE update == task[t].request.update
           group == Head(task[t].left)
           rest == Tail(task[t].left)
<1>1. /\ task[t] \in TaskType /\ TaskOK(task[t]) /\ task[t].pc = "apply" /\ lock = t
      /\ lock' = lock /\ admin' \in BOOLEAN /\ boots' = boots /\ calls' = calls
      /\ UNCHANGED client
  BY DEF Apply, PortalIndInv, Types, AppliedUnderLock
<1>2. faults' \in 0..MaxFaults
  <2>1. faults' = faults \/ (faults' = faults + 1 /\ faults < MaxFaults)
    BY DEF Apply
  <2>2. faults \in 0..MaxFaults
    BY DEF PortalIndInv, Types
  <2> QED BY <2>1, <2>2, PortalAssumption
<1>3. /\ task[t].client \in Clients /\ task[t].request \in Requests
      /\ task[t].request.target = "update" /\ Answerable(task[t].request)
      /\ task[t].have >= task[t].request.head + Terminator + task[t].request.length
      /\ \E n \in 0..Len(Touched(update)) : Applied(task[t], n)
  BY <1>1 DEF TaskOK, Serving
<1>4. PICK n \in 0..Len(Touched(update)) : Applied(task[t], n)
  BY <1>3
<1>5. /\ group \in GroupNames /\ rest \in Seq(GroupNames)
      /\ task[t].stored # AllOf(update)
      /\ rest = <<>> => task[t].stored \cup {group} = AllOf(update)
      /\ n + 1 \in 0..Len(Touched(update)) /\ n + 1 + Len(rest) = Len(Touched(update))
      /\ \A i \in 1..Len(rest) : rest[i] = Touched(update)[n + 1 + i]
      /\ task[t].stored \cup {group} = {Touched(update)[i] : i \in 1..n + 1}
  BY <1>1, <1>4, NextGroup
<1>6. \/ task' = [task EXCEPT ![t].left = rest, ![t].stored = @ \cup {group},
                    ![t].pc = IF rest = <<>> THEN "write" ELSE "apply",
                    ![t].status = IF rest = <<>> THEN "200" ELSE "none"]
      \/ Refuses(update, group) /\ task' = [task EXCEPT ![t].pc = "write", ![t].status = "422"]
      \/ task' = [task EXCEPT ![t].pc = "write", ![t].status = "422", ![t].failed = TRUE]
  BY DEF Apply, Asked
<1> HIDE DEF group, rest
<1>7. CASE task' = [task EXCEPT ![t].left = rest, ![t].stored = @ \cup {group},
                      ![t].pc = IF rest = <<>> THEN "write" ELSE "apply",
                      ![t].status = IF rest = <<>> THEN "200" ELSE "none"]
  <2> DEFINE pc == IF rest = <<>> THEN "write" ELSE "apply"
             status == IF rest = <<>> THEN "200" ELSE "none"
             stored == task[t].stored \cup {group}
             k == [task[t] EXCEPT !.left = rest, !.stored = stored, !.pc = pc, !.status = status]
  <2>1. task' = [task EXCEPT ![t] = k]
    BY <1>7
  <2>2. /\ pc \in {"write", "apply"} /\ status \in {"200", "none"}
        /\ pc = "write" => rest = <<>> /\ status = "200"
        /\ pc = "apply" => rest # <<>>
    OBVIOUS
  <2>3. stored \in SUBSET GroupNames
    BY <1>1, <1>5 DEF TaskType
  <2> HIDE DEF pc, status, stored
  <2>4. /\ k \in TaskType /\ k.pc = pc /\ k.status = status /\ k.left = rest /\ k.stored = stored
        /\ k.client = task[t].client /\ k.request = task[t].request /\ k.have = task[t].have
    BY <1>1, <1>5, <2>2, <2>3 DEF TaskType
  <2> HIDE DEF k
  <2>5. pc = "apply" => Applied(k, n + 1)
    <3>1. Touched(k.request.update) = Touched(update)
      BY <2>4
    <3> HIDE DEF update
    <3> QED BY <1>5, <2>2, <2>4, <3>1 DEF Applied, stored
  <2>6. pc = "write" => Verdict(k)
    BY <1>3, <1>5, <2>2, <2>4 DEF Verdict, stored
  <2>7. TaskOK(k)
    BY <1>3, <1>5, <2>2, <2>4, <2>5, <2>6 DEF TaskOK, Serving
  <2> QED BY <1>1, <1>2, <2>1, <2>4, <2>7, TaskMoves
<1>8. CASE /\ Refuses(update, group)
           /\ task' = [task EXCEPT ![t].pc = "write", ![t].status = "422"]
  <2> DEFINE k == [task[t] EXCEPT !.pc = "write", !.status = "422"]
  <2>1. task' = [task EXCEPT ![t] = k]
    BY <1>8
  <2>2. /\ k \in TaskType /\ k.pc = "write" /\ k.status = "422" /\ k.stored = task[t].stored
        /\ k.client = task[t].client /\ k.request = task[t].request /\ k.have = task[t].have
    BY <1>1 DEF TaskType
  <2> HIDE DEF k
  <2>3. TaskOK(k)
    BY <1>3, <1>5, <1>8, <2>2 DEF TaskOK, Serving, Verdict
  <2> QED BY <1>1, <1>2, <2>1, <2>2, <2>3, TaskMoves
<1>9. CASE task' = [task EXCEPT ![t].pc = "write", ![t].status = "422", ![t].failed = TRUE]
  <2> DEFINE k == [task[t] EXCEPT !.pc = "write", !.status = "422", !.failed = TRUE]
  <2>1. task' = [task EXCEPT ![t] = k]
    BY <1>9
  <2>2. /\ k \in TaskType /\ k.pc = "write" /\ k.status = "422" /\ k.stored = task[t].stored
        /\ k.failed
        /\ k.client = task[t].client /\ k.request = task[t].request /\ k.have = task[t].have
    BY <1>1 DEF TaskType
  <2> HIDE DEF k
  <2>3. TaskOK(k)
    BY <1>3, <1>5, <2>2 DEF TaskOK, Serving, Verdict
  <2> QED BY <1>1, <1>2, <2>1, <2>2, <2>3, TaskMoves
<1> QED BY <1>6, <1>7, <1>8, <1>9

(* Listen and RequestReboot.                                               *)
LEMMA LeavesStep ==
  ASSUME PortalIndInv, NEW t \in Tasks, Listen(t) \/ RequestReboot(t) PROVE PortalIndInv'
<1>1. PICK pc \in {"accept", "halted"} : task' = [task EXCEPT ![t] = At(pc)]
  BY DEF Listen, RequestReboot
<1>2. /\ lock' = lock /\ admin' \in BOOLEAN /\ boots' = boots /\ calls' = calls
      /\ faults' \in 0..MaxFaults /\ UNCHANGED client
  BY DEF Listen, RequestReboot, bounds, PortalIndInv, Types
<1>3. At(pc) \in TaskType /\ TaskOK(At(pc)) /\ At(pc).client = Nobody /\ At(pc).pc # "apply"
  BY AtOK
<1> QED BY <1>1, <1>2, <1>3, TaskMoves
(* The answer reaches its client, who believes it.                         *)
LEMMA AnswerStep ==
  ASSUME PortalIndInv, NEW t \in Tasks, WriteAnswer(t) PROVE PortalIndInv'
<1>1. /\ task[t] \in TaskType /\ TaskOK(task[t]) /\ task[t].pc = "write" /\ Verdict(task[t])
      /\ admin' \in BOOLEAN /\ boots' = boots /\ calls' \in 0..MaxCalls /\ faults' \in 0..MaxFaults
      /\ task[t].request \in Requests
  BY DEF WriteAnswer, bounds, PortalIndInv, Types, TaskOK, Serving
<1>2. PICK pc \in {"reboot", "close"} : task' = [task EXCEPT ![t] = At(pc)]
  BY DEF WriteAnswer, Written
<1>3. At(pc) \in TaskType /\ TaskOK(At(pc)) /\ At(pc).client = Nobody /\ At(pc).pc # "apply"
  BY AtOK
<1>4. /\ task' \in [Tasks -> TaskType]
      /\ task'[t] = At(pc) /\ \A u \in Tasks \ {t} : task'[u] = task[u]
  BY <1>2, <1>3 DEF PortalIndInv, Types
<1>5. lock' = IF lock = t THEN Nobody ELSE lock
  BY DEF WriteAnswer, Unlock
<1>6. lock' \in Tasks \cup {Nobody} /\ \A u \in Tasks : task'[u].pc = "apply" => lock' = u
  BY <1>3, <1>4, <1>5 DEF PortalIndInv, Types, AppliedUnderLock
<1>7. \A u \in Tasks : task'[u] = task[u] \/ (TaskOK(task'[u]) /\ task'[u].client = Nobody)
  BY <1>3, <1>4
<1>8. CASE ~Connected(t)
  <2>1. client' = client
    BY <1>8 DEF WriteAnswer
  <2> QED BY <1>1, <1>4, <1>6, <1>7, <2>1, Moves DEF PortalIndInv, Types
<1>9. CASE Connected(t)
  <2> DEFINE c == task[t].client
             outcome == Outcome(task[t].status)
             stored == task[t].stored
             failed == task[t].failed
             r == [client[c] EXCEPT !.call = NoCall, !.result = outcome, !.stored = stored,
                                    !.failed = failed]
  <2>1. /\ c \in Clients /\ client[c].last = task[t].request /\ client[c].call = << t >>
        /\ client[c] \in ClientType /\ ClientOK(c, client[c]) /\ client[c].boot <= boots
    <3>1. c \in Clients
      BY <1>1, <1>9 DEF Connected, Peer, TaskType
    <3> QED BY <1>9, <3>1 DEF Connected, Peer, Asked, PortalIndInv, SameRequest, Types
  <2>2. client' = [client EXCEPT ![c] = r]
    BY <1>9 DEF WriteAnswer, Peer
  <2>3. outcome \in {"rejected", "ok"} /\ stored \in SUBSET GroupNames /\ failed \in BOOLEAN
    BY <1>1 DEF Outcome, TaskType
  <2>4. /\ outcome = "rejected" => task[t].status \in {"400", "422"}
        /\ outcome = "ok" => task[t].status \notin {"400", "422"}
    BY DEF Outcome
  <2> HIDE DEF outcome, stored, failed, c
  <2>5. /\ r \in ClientType /\ r.call = NoCall /\ r.last = client[c].last /\ r.boot = client[c].boot
        /\ r.result = outcome /\ r.stored = stored /\ r.failed = failed
    BY <2>1, <2>3 DEF ClientType
  <2> HIDE DEF r
  <2>6. ClientOK(c, r)
    <3> DEFINE update == task[t].request.update
    <3>1. ASSUME outcome = "ok", task[t].request.target = "update"
          PROVE  stored = AllOf(update)
      BY <1>1, <2>4, <3>1 DEF Verdict, stored
    <3>2. ASSUME outcome = "rejected"
          PROVE  /\ task[t].request.target = "update"
                 /\ \/ stored = {} /\ commands_from_update(update) # "commands"
                    \/ /\ stored # AllOf(update)
                       /\ failed \/ \E group \in GroupNames : Refuses(update, group)
      BY <1>1, <2>4, <3>2 DEF Verdict, stored, failed
    <3>3. ASSUME stored = {}, Touched(update) # <<>> PROVE stored # AllOf(update)
      <4>1. 1 \in DOMAIN Touched(update)
        <5> HIDE DEF update
        <5>1. Touched(update) \in Seq(GroupNames)
          BY TouchedGroups
        <5> QED BY <3>3, <5>1
      <4> QED BY <3>3, <4>1 DEF AllOf
    <3>4. ASSUME c \in Apps, outcome = "rejected", ~failed, Touched(update) # <<>>
          PROVE  "gw_cr" \in DOMAIN update /\ update["gw_cr"] = "out"
      <4>1. validate_update(update) /\ IsUpdate(update)
        <5>1. validate_update(update)
          BY <2>1, <3>2, <3>4 DEF ClientOK
        <5>2. IsRequest(task[t].request)
          BY <1>1, PortalAssumption
        <5> QED BY <5>1, <5>2 DEF IsRequest
      <4> HIDE DEF update
      <4>2. \A f \in DOMAIN update : f = "gw_cr" \/ update[f] = "ok"
        BY <4>1 DEF validate_update
      <4>3. "gw_cr" \in DOMAIN update => update["gw_cr"] # "long"
        BY <4>1 DEF IsUpdate, Strings, WifiStrings, MqttStrings
      <4>4. commands_from_update(update) = "commands"
        <5>1. \A f \in DOMAIN update : ~(update[f] = "long" \/ (f = "mode" /\ update[f] = "out"))
          BY <4>2, <4>3
        <5> QED BY <3>4, <5>1 DEF commands_from_update
      <4>5. PICK group \in GroupNames : Refuses(update, group)
        BY <3>2, <3>4, <4>4
      <4> QED BY <4>2, <4>5 DEF Refuses
    <3> QED BY <2>1, <2>3, <2>5, <3>1, <3>2, <3>3, <3>4 DEF ClientOK
  <2>7. /\ client' \in [Clients -> ClientType]
        /\ client'[c] = r /\ \A d \in Clients \ {c} : client'[d] = client[d]
    BY <2>1, <2>2, <2>5 DEF PortalIndInv, Types
  <2>8. \A d \in Clients :
          client'[d] = client[d] \/ (/\ client'[d].call = NoCall /\ client'[d].boot <= boots
                                     /\ ClientOK(d, client'[d]))
    BY <2>1, <2>5, <2>6, <2>7
  <2> QED BY <1>1, <1>4, <1>6, <1>7, <2>7, <2>8, Moves
<1> QED BY <1>8, <1>9

LEMMA WriteFailsStep ==
  ASSUME PortalIndInv, NEW t \in Tasks, WriteFails(t) PROVE PortalIndInv'
<1>1. /\ admin' \in BOOLEAN /\ boots' = boots /\ calls' \in 0..MaxCalls
      /\ lock' = IF lock = t THEN Nobody ELSE lock
      /\ HangUp(t)
  BY DEF WriteFails, Unlock, PortalIndInv, Types
<1>2. faults' \in 0..MaxFaults
  <2>1. faults' = faults \/ (faults' = faults + 1 /\ faults < MaxFaults)
    BY DEF WriteFails
  <2>2. faults \in 0..MaxFaults
    BY DEF PortalIndInv, Types
  <2> QED BY <2>1, <2>2, PortalAssumption
<1>3. TaskOK(At("close")) /\ At("close").client = Nobody /\ At("close").pc = "close"
  BY AtOK
<1>4. \A u \in Tasks :
        /\ task'[u] = task[u] \/ (TaskOK(task'[u]) /\ task'[u].client = Nobody)
        /\ task'[u].pc = "apply" => lock' = u
  BY <1>1, <1>3, HangUpMoves DEF PortalIndInv, AppliedUnderLock
<1>5. lock' \in Tasks \cup {Nobody}
  BY <1>1 DEF PortalIndInv, Types
<1> QED BY <1>1, <1>2, <1>4, <1>5, HangUpMoves, Moves

-----------------------------------------------------------------------------
(* The invariant holds in every state.                                     *)
LEMMA PortalInvariant == Spec => []PortalIndInv
<1>1. Init => PortalIndInv
  <2> SUFFICES ASSUME Init PROVE PortalIndInv
    OBVIOUS
  <2>1. /\ client = [c \in Clients |-> Idle("none")] /\ task = [t \in Tasks |-> At("accept")]
        /\ lock = Nobody /\ admin = FALSE /\ boots = 0 /\ calls = 0 /\ faults = 0
    BY DEF Init
  <2>2. \A c \in Clients : /\ Idle("none") \in ClientType /\ ClientOK(c, Idle("none"))
                           /\ Idle("none").boot = 0
    BY IdleOK
  <2>3. /\ At("accept") \in TaskType /\ TaskOK(At("accept"))
        /\ At("accept").client = Nobody /\ At("accept").pc = "accept"
    BY AtOK
  <2>4. client \in [Clients -> ClientType] /\ task \in [Tasks -> TaskType]
    BY <2>1, <2>2, <2>3
  <2>5. Types
    <3>1. lock \in Tasks \cup {Nobody} /\ admin \in BOOLEAN
      BY <2>1
    <3>2. boots \in Nat /\ calls \in 0..MaxCalls /\ faults \in 0..MaxFaults
      BY <2>1, PortalAssumption
    <3> QED BY <2>4, <3>1, <3>2 DEF Types
  <2>6. SameRequest /\ AppliedUnderLock
    BY <2>1, <2>3 DEF SameRequest, AppliedUnderLock, Connected, Peer
  <2> QED BY <2>1, <2>2, <2>3, <2>5, <2>6 DEF PortalIndInv
<1>2. PortalIndInv /\ [Next]_vars => PortalIndInv'
  <2> SUFFICES ASSUME PortalIndInv, [Next]_vars PROVE PortalIndInv'
    OBVIOUS
  <2>1. ASSUME NEW c \in Clients, GiveUp(c) PROVE PortalIndInv'
    BY <2>1, GiveUpStep
  <2>2. ASSUME NEW c \in Clients, NEW r \in Requests, RefuseLocally(c, r) \/ Refused(c, r)
        PROVE  PortalIndInv'
    BY <2>2, RefusedStep
  <2>3. ASSUME NEW c \in Clients, NEW t \in Tasks, NEW r \in Requests, Call(c, t, r)
        PROVE  PortalIndInv'
    BY <2>3, CallStep
  <2>4. ASSUME NEW t \in Tasks, TaskStep(t) PROVE PortalIndInv'
    BY <2>4, ReadStep, ReadFailsStep, TakeLockStep, ApplyStep, AnswerStep, WriteFailsStep,
       LeavesStep DEF TaskStep
  <2>5. CASE Restart
    BY <2>5, RestartStep
  <2>6. CASE UNCHANGED vars
    BY <2>6 DEF vars, bounds, PortalIndInv, Types, SameRequest, AppliedUnderLock, Connected, Peer, Asked
  <2> QED BY <2>1, <2>2, <2>3, <2>4, <2>5, <2>6 DEF Next
<1> QED BY <1>1, <1>2, PTL DEF Spec

(* However TCP cuts a request up and whenever a connection breaks, a task  *)
(* acts on whole requests only; its records and those of the clients keep  *)
(* their types; and what the app's validation lets through, the hub        *)
(* rejects for the coding rate, an empty update or the flash alone.        *)
THEOREM Portal_Correct == Spec => []PortalInv
<1>1. PortalIndInv => PortalInv
  <2> SUFFICES ASSUME PortalIndInv PROVE PortalInv
    OBVIOUS
  <2>1. TypeOK
    <3>1. ASSUME NEW c \in Clients
          PROVE  /\ client[c].call \in {NoCall} \cup {<< t >> : t \in Tasks}
                 /\ client[c].last \in Requests \cup {NoRequest}
                 /\ client[c].result \in {"none", "invalid", "unreachable", "rejected", "ok"}
                 /\ client[c].boot \in 0..boots
      BY DEF PortalIndInv, Types, ClientType
    <3>2. ASSUME NEW t \in Tasks
          PROVE  /\ task[t].pc \in {"accept", "read", "lock", "apply", "write", "close", "reboot", "halted"}
                 /\ task[t].have \in 0..MAX_REQUEST
                 /\ task[t].pc \in {"read", "lock", "apply", "write"} => Peer(t) \in Clients
      BY DEF PortalIndInv, Types, TaskType, TaskOK, Serving, Peer
    <3> QED BY <3>1, <3>2 DEF TypeOK, PortalIndInv, Types
  <2>2. BodyWhole
    BY DEF BodyWhole, PortalIndInv, TaskOK, Asked
  <2>3. ValidationAgrees
    BY DEF ValidationAgrees, PortalIndInv, ClientOK, Clients
  <2> QED BY <2>1, <2>2, <2>3 DEF PortalInv
<1> QED BY <1>1, PortalInvariant, PTL

(* Whatever breaks and in whatever order the tasks of the pool run, "ok"   *)
(* means that every group of the client's own update was stored, and       *)
(* "rejected" that not all of them were.                                   *)
THEOREM Told_The_Truth == Spec => []ToldTheTruth
<1>1. PortalIndInv => ToldTheTruth
  BY DEF PortalIndInv, ToldTheTruth, ClientOK, AllOf
<1> QED BY <1>1, PortalInvariant, PTL

(* APPLY_LOCK does its work: two tasks of the pool never apply their       *)
(* updates at the same time.                                               *)
THEOREM Applied_Under_Lock == Spec => []AppliedUnderLock
<1>1. PortalIndInv => AppliedUnderLock
  BY DEF PortalIndInv
<1> QED BY <1>1, PortalInvariant, PTL
================================================================================
