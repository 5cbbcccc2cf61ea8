------------------------------ MODULE SerialProofs ------------------------------
(***************************************************************************)
(* Proofs about the host link, for every set of commands, packet size,     *)
(* capacity of the queues and number of breaks.                            *)
(*                                                                         *)
(* The argument follows the numbers of the commands.  A number is in one   *)
(* place at a time on its way from the host through the queues of the hub  *)
(* and back, and leaves when the host takes its frame for an answer.  So   *)
(* the numbers that are under way are never more than the exchanges the    *)
(* host gave up and the one it awaits; an answer that is not to the last   *)
(* command is to one that was given up, or whose place an earlier stray    *)
(* answer took.  What the two sides read follows from what each place      *)
(* holds for a number, given that the codec reads what it wrote.           *)
(***************************************************************************)
EXTENDS Serial, FiniteSetTheorems, WellFoundedInduction, TLAPS

(* The numbers of this host's commands in a queue, and that no two of its  *)
(* messages carry the same one.                                            *)
Nums(q) == {q[i].n : i \in DOMAIN q} \cap Numbers
Once(q) == \A i, j \in DOMAIN q : q[i].n \in Numbers /\ q[i].n = q[j].n => i = j

(* What the queues hold.                                                   *)
Wires == {Wire(command) : command \in Commands}
Failed == {frame \in Frames : Result[frame].stage = "error"}
ReadCommands ==
  {Result[frame].command : frame \in Frames \ Failed} \cup {Command("LoraTx", <<>>)}
AnswerFrames ==
  {Result[frame].answer : frame \in Failed} \cup {Version, TxComplete, RxPacket}
    \cup {encode_response(response) : response \in UNION {Answers(c) : c \in ReadCommands}}

Requests == [n : Numbers, frame : Wires]
Readings(numbers) == [n : numbers, command : ReadCommands]
Replies == [n : Numbers \cup {Unsolicited, ForWifi}, frame : AnswerFrames]
Transfers == [n : Numbers \cup {Unsolicited}, frame : AnswerFrames, at : Int]
Packets == [n : Numbers \cup {Unsolicited}, frame : AnswerFrames, from : Int, last : BOOLEAN]

QueueTypes ==
  /\ toHub \in Seq(Requests)
  /\ reader \in Seq(Readings(Numbers)) /\ Len(reader) <= 1
  /\ commandQ \in Seq(Readings(Numbers \cup {ForWifi})) /\ Len(commandQ) <= CommandCap
  /\ hubQ \in Seq(Readings(Numbers)) /\ Len(hubQ) <= HubCap
  /\ responseQ \in Seq(Replies) /\ Len(responseQ) <= ResponseCap /\ lagged \in Nat
  /\ tx \in Seq(Transfers) /\ Len(tx) <= 1
  /\ held = <<>> /\ inbox \in Seq(Packets)

HostTypes ==
  /\ host \in [pc : {"idle", "wait"}, loop : BOOLEAN]
  /\ open \in BOOLEAN /\ cut \in BOOLEAN /\ admin \in BOOLEAN
  /\ issued \in Seq(Commands) /\ Len(issued) <= MaxCommands
  /\ answers \in [Numbers -> {<<>>} \cup Numbers \X AnswerFrames]
  /\ abandoned \subseteq Numbers /\ dropped \subseteq Numbers
  /\ early \in 0..MaxEarly /\ noise \in 0..MaxNoise /\ breaks \in 0..MaxBreaks

(* One exchange at a time: the host awaits an answer only to its last      *)
(* command, and every earlier one was answered or given up.                *)
Waiting == host.pc = "wait"
Discipline ==
  /\ host.loop => GetVersion \in Commands
  /\ Waiting => Current >= 1 /\ Current \notin abandoned /\ answers[Current] = <<>>
  /\ \A n \in Numbers : n > Current => answers[n] = <<>> /\ n \notin abandoned
  /\ \A n \in 1..Current :
       n \in abandoned \/ answers[n] # <<>> \/ (n = Current /\ Waiting)

(* The frames on their way to the host, and the numbers of the commands    *)
(* that are under way.                                                     *)
Out == Nums(inbox) \cup Nums(tx)
UnderWay ==
  Nums(toHub) \cup Nums(reader) \cup Nums(commandQ) \cup Nums(hubQ) \cup Nums(responseQ)
    \cup Out

(* A command, then its answer, is in one place at a time.                  *)
Disjoint(A, B) == A \cap B = {}
OnePlace ==
  /\ Once(toHub) /\ Once(reader) /\ Once(commandQ) /\ Once(hubQ) /\ Once(responseQ)
  /\ Disjoint(Nums(toHub), Nums(reader) \cup Nums(commandQ) \cup Nums(hubQ) \cup Nums(responseQ))
  /\ Disjoint(Nums(reader), Nums(commandQ) \cup Nums(hubQ) \cup Nums(responseQ))
  /\ Disjoint(Nums(commandQ), Nums(hubQ) \cup Nums(responseQ))
  /\ Disjoint(Nums(hubQ), Nums(responseQ))
  /\ Disjoint(Out, Nums(toHub) \cup Nums(reader) \cup Nums(commandQ) \cup Nums(hubQ)
                     \cup Nums(responseQ))

(* Nothing of a frame comes after its last packet.                         *)
LastIsLast ==
  \A i \in DOMAIN inbox : inbox[i].last /\ inbox[i].n \in Numbers =>
    /\ \A j \in DOMAIN inbox : j > i => inbox[j].n # inbox[i].n
    /\ \A k \in DOMAIN tx : tx[k].n # inbox[i].n

(* Only a received packet comes unasked.                                   *)
UnaskedIn(q) == \A i \in DOMAIN q : q[i].n = Unsolicited => q[i].frame = RxPacket
Unasked == UnaskedIn(responseQ) /\ UnaskedIn(tx) /\ UnaskedIn(inbox)

(* An answer that was taken is of a command that had been sent, and is     *)
(* under way no more; what is under way was sent.                          *)
Taken ==
  /\ UnderWay \subseteq 1..Current
  /\ \A n \in Numbers : answers[n] # <<>> => answers[n][1] \notin UnderWay

(* The numbers under way are of exchanges given up, but for one.           *)
Outstanding ==
  Cardinality(UnderWay) <= Cardinality(abandoned) + (IF Waiting THEN 1 ELSE 0)

SerialIndInv ==
  /\ QueueTypes /\ HostTypes /\ Discipline /\ OnePlace /\ LastIsLast /\ Unasked /\ Taken
  /\ Outstanding /\ InStep /\ DropNeedsTimeouts
-----------------------------------------------------------------------------
(* Queues.                                                                 *)

LEMMA NumsEmpty == Nums(<<>>) = {} /\ Once(<<>>)
BY DEF Nums, Once

LEMMA NumsAppend ==
  ASSUME NEW S, NEW q \in Seq(S), NEW m \in S
  PROVE  /\ Append(q, m) \in Seq(S) /\ Len(Append(q, m)) = Len(q) + 1
         /\ Nums(Append(q, m)) = Nums(q) \cup ({m.n} \cap Numbers)
         /\ Once(q) /\ m.n \notin Nums(q) => Once(Append(q, m))
<1> DEFINE more == Append(q, m)
<1>1. /\ more \in Seq(S) /\ Len(more) = Len(q) + 1 /\ Len(q) \in Nat
      /\ DOMAIN q = 1..Len(q) /\ DOMAIN more = 1..Len(q) + 1
      /\ more[Len(q) + 1] = m /\ \A i \in 1..Len(q) : more[i] = q[i]
  OBVIOUS
<1> HIDE DEF more
<1>2. Nums(more) = Nums(q) \cup ({m.n} \cap Numbers)
  <2>1. ASSUME NEW x \in Nums(more) PROVE x \in Nums(q) \cup ({m.n} \cap Numbers)
    <3>1. PICK i \in 1..Len(q) + 1 : more[i].n = x
      BY <1>1 DEF Nums
    <3>2. i \in 1..Len(q) \/ i = Len(q) + 1
      BY <1>1
    <3> QED BY <1>1, <2>1, <3>1, <3>2 DEF Nums
  <2>2. ASSUME NEW x \in Nums(q) PROVE x \in Nums(more)
    <3>1. PICK i \in 1..Len(q) : q[i].n = x
      BY <1>1 DEF Nums
    <3>2. i \in 1..Len(q) + 1 /\ more[i].n = x
      BY <1>1, <3>1
    <3> QED BY <1>1, <2>2, <3>2 DEF Nums
  <2>3. m.n \in Numbers => m.n \in Nums(more)
    <3>1. Len(q) + 1 \in DOMAIN more
      BY <1>1
    <3> QED BY <1>1, <3>1 DEF Nums
  <2> QED BY <2>1, <2>2, <2>3
<1>3. ASSUME Once(q), m.n \notin Nums(q) PROVE Once(more)
  <2> SUFFICES ASSUME NEW i \in 1..Len(q) + 1, NEW j \in 1..Len(q) + 1,
                      more[i].n \in Numbers, more[i].n = more[j].n
               PROVE  i = j
    BY <1>1 DEF Once
  <2>1. (i \in 1..Len(q) \/ i = Len(q) + 1) /\ (j \in 1..Len(q) \/ j = Len(q) + 1)
    BY <1>1
  <2>2. \A k \in 1..Len(q) : q[k].n \in Numbers => q[k].n # m.n
    BY <1>1, <1>3 DEF Nums
  <2> QED BY <1>1, <1>3, <2>1, <2>2 DEF Once
<1> QED BY <1>1, <1>2, <1>3 DEF more

LEMMA NumsTail ==
  ASSUME NEW S, NEW q \in Seq(S), q # <<>>
  PROVE  /\ Head(q) \in S /\ Head(q) = q[1] /\ Tail(q) \in Seq(S) /\ Len(Tail(q)) = Len(q) - 1
         /\ Len(q) \in Nat \ {0} /\ 1 \in DOMAIN q
         /\ Nums(q) = Nums(Tail(q)) \cup ({Head(q).n} \cap Numbers)
         /\ Once(q) => Once(Tail(q)) /\ Head(q).n \notin Nums(Tail(q))
<1> DEFINE rest == Tail(q)
<1>1. /\ rest \in Seq(S) /\ Len(rest) = Len(q) - 1 /\ Len(q) \in Nat \ {0}
      /\ DOMAIN q = 1..Len(q) /\ DOMAIN rest = 1..Len(q) - 1
      /\ Head(q) = q[1] /\ Head(q) \in S /\ 1 \in DOMAIN q
      /\ \A i \in 1..Len(q) - 1 : rest[i] = q[i + 1] /\ i + 1 \in 1..Len(q)
  OBVIOUS
<1> HIDE DEF rest
<1>2. \A i \in 1..Len(q) : i # 1 => i - 1 \in 1..Len(q) - 1 /\ rest[i - 1] = q[i]
  <2> TAKE i \in 1..Len(q)
  <2> HAVE i # 1
  <2>1. i - 1 \in 1..Len(q) - 1 /\ (i - 1) + 1 = i
    BY <1>1
  <2> QED BY <1>1, <2>1
<1>3. ASSUME NEW x \in Nums(q) PROVE x \in Nums(rest) \cup ({Head(q).n} \cap Numbers)
  <2>1. PICK i \in 1..Len(q) : q[i].n = x
    BY <1>1 DEF Nums
  <2> QED BY <1>1, <1>2, <1>3, <2>1 DEF Nums
<1>4. ASSUME NEW x \in Nums(rest) PROVE x \in Nums(q)
  <2>1. PICK i \in 1..Len(q) - 1 : rest[i].n = x
    BY <1>1 DEF Nums
  <2> QED BY <1>1, <1>4, <2>1 DEF Nums
<1>5. Head(q).n \in Numbers => Head(q).n \in Nums(q)
  BY <1>1 DEF Nums
<1>6. ASSUME Once(q) PROVE Once(rest) /\ Head(q).n \notin Nums(rest)
  <2>1. Once(rest)
    <3> SUFFICES ASSUME NEW i \in 1..Len(q) - 1, NEW j \in 1..Len(q) - 1,
                        rest[i].n \in Numbers, rest[i].n = rest[j].n
                 PROVE  i = j
      BY <1>1 DEF Once
    <3>1. i + 1 = j + 1
      BY <1>1, <1>6 DEF Once
    <3> QED BY <3>1
  <2>2. ASSUME Head(q).n \in Nums(rest) PROVE FALSE
    <3>1. PICK i \in 1..Len(q) - 1 : rest[i].n = q[1].n
      BY <1>1, <2>2 DEF Nums
    <3>2. i + 1 = 1
      BY <1>1, <1>6, <2>2, <3>1 DEF Once, Nums
    <3> QED BY <3>2
  <2> QED BY <2>1, <2>2
<1>7. Nums(q) = Nums(rest) \cup ({Head(q).n} \cap Numbers)
  BY <1>3, <1>4, <1>5
<1> QED BY <1>1, <1>6, <1>7 DEF rest

(* A queue of one.                                                         *)
LEMMA NumsOne ==
  ASSUME NEW m
  PROVE  Nums(<< m >>) = {m.n} \cap Numbers /\ Once(<< m >>)
BY DEF Nums, Once

(* The part of a queue behind its first members.                           *)
LEMMA NumsRest ==
  ASSUME NEW S, NEW q \in Seq(S), NEW e \in DOMAIN q
  PROVE  LET rest == SubSeq(q, e + 1, Len(q))
         IN  /\ rest \in Seq(S)
             /\ DOMAIN rest = 1..Len(q) - e
             /\ \A i \in DOMAIN rest : i + e \in DOMAIN q /\ rest[i] = q[i + e]
             /\ Nums(rest) \subseteq Nums(q)
<1> DEFINE rest == SubSeq(q, e + 1, Len(q))
<1>1. DOMAIN q = 1..Len(q) /\ Len(q) \in Nat /\ e \in 1..Len(q)
  OBVIOUS
<1>2. /\ rest \in Seq(S) /\ Len(rest) = Len(q) - e
      /\ \A i \in 1..Len(q) - e : rest[i] = q[i + e]
  <2>1. e + 1 \in Nat /\ e + 1 >= 1 /\ Len(q) - (e + 1) + 1 = Len(q) - e
    BY <1>1
  <2>2. rest \in Seq(S)
    BY <1>1, <2>1
  <2>3. Len(rest) = Len(q) - e
    BY <1>1, <2>1
  <2>4. ASSUME NEW i \in 1..Len(q) - e PROVE rest[i] = q[i + e]
    <3>1. i \in 1..Len(q) - (e + 1) + 1 /\ e + 1 + i - 1 = i + e
      BY <1>1, <2>1
    <3>2. rest[i] = q[e + 1 + i - 1]
      BY <1>1, <2>1, <3>1
    <3> QED BY <3>1, <3>2
  <2> QED BY <2>2, <2>3, <2>4
<1>3. DOMAIN rest = 1..Len(q) - e
  BY <1>1, <1>2
<1>4. \A i \in 1..Len(q) - e : i + e \in DOMAIN q
  BY <1>1
<1> HIDE DEF rest
<1>5. Nums(rest) \subseteq Nums(q)
  BY <1>2, <1>3, <1>4 DEF Nums
<1> QED BY <1>2, <1>3, <1>4, <1>5 DEF rest

(* A queue whose messages all have numbers of their own has as many of     *)
(* them as messages.                                                       *)
LEMMA NumsCount ==
  ASSUME NEW S, NEW q \in Seq(S), Once(q), \A i \in DOMAIN q : q[i].n \in Numbers
  PROVE  IsFiniteSet(Nums(q)) /\ Cardinality(Nums(q)) = Len(q)
<1> DEFINE f == [i \in 1..Len(q) |-> q[i].n]
<1>1. Len(q) \in Nat /\ DOMAIN q = 1..Len(q)
  OBVIOUS
<1>2. f \in Bijection(1..Len(q), Nums(q))
  BY <1>1 DEF Nums, Once, Bijection, Injection, Surjection, IsInjective
<1>3. ExistsBijection(1..Len(q), Nums(q))
  BY <1>2 DEF ExistsBijection
<1>4. Cardinality(Nums(q)) = Len(q)
  BY <1>1, <1>3, FS_CountingElements
<1>5. IsFiniteSet(Nums(q))
  BY <1>1, <1>3, FS_NatBijection
<1> QED BY <1>4, <1>5
-----------------------------------------------------------------------------
(* Frames.                                                                 *)

(* A sequence, of whatever it holds.                                       *)
Sequence(s) == \E S : s \in Seq(S)

LEMMA Joined ==
  ASSUME NEW s, NEW t, Sequence(s), Sequence(t)
  PROVE  Sequence(s \o t)
<1>1. PICK S : s \in Seq(S)
  BY DEF Sequence
<1>2. PICK T : t \in Seq(T)
  BY DEF Sequence
<1>3. s \in Seq(S \cup T) /\ t \in Seq(S \cup T)
  BY <1>1, <1>2
<1>4. s \o t \in Seq(S \cup T)
  BY <1>3
<1> QED BY <1>4 DEF Sequence

LEMMA LeSequence ==
  ASSUME NEW n, NEW width \in Nat
  PROVE  Sequence(Le(n, width))
<1> DEFINE S == {(n \div 256 ^ (i - 1)) % 256 : i \in 1..width}
<1>1. Le(n, width) \in [1..width -> S]
  BY DEF Le
<1> HIDE DEF S
<1>2. Le(n, width) \in Seq(S)
  BY <1>1
<1> QED BY <1>2 DEF Sequence

LEMMA OneSequence == \A v : Sequence(<< v >>)
<1> TAKE v
<1>1. << v >> \in Seq({v})
  OBVIOUS
<1> QED BY <1>1 DEF Sequence

LEMMA StringSequence ==
  ASSUME NEW s \in Seq(0..255)
  PROVE  Sequence(push_string(s))
BY OneSequence, Joined DEF push_string, Sequence

(* The answer to a frame that cannot be parsed.                            *)
LEMMA FailedAnswer ==
  ASSUME NEW frame \in Failed
  PROVE  \E status, id : Result[frame].answer = Error(status, id)
<1> DEFINE stock == wt_parse_command(frame)
           own == parse_command(frame)
<1>1. Result[frame] = process_frame(frame) /\ Result[frame].stage = "error"
  BY DEF Failed, Result
<1>2. process_frame(frame) =
        IF stock.status = "Success" THEN [stage |-> "stock", command |-> stock.command]
        ELSE IF stock.status # "InvalidCommand"
        THEN [stage |-> "error", answer |-> Error(stock.status, frame.id)]
        ELSE IF own.status = "Success" THEN [stage |-> "hub", command |-> own.command]
        ELSE [stage |-> "error", answer |-> Error(own.status, frame.id)]
  BY DEF process_frame
<1> HIDE DEF stock, own
<1>3. \/ process_frame(frame) = [stage |-> "error", answer |-> Error(own.status, frame.id)]
      \/ process_frame(frame) = [stage |-> "error", answer |-> Error(stock.status, frame.id)]
  BY <1>1, <1>2
<1> QED BY <1>1, <1>3

(* Every answer has a length.                                              *)
LEMMA ResponseSequence ==
  ASSUME NEW c \in ReadCommands, NEW response \in Answers(c)
  PROVE  Sequence(ResponsePayload(response))
<1> DEFINE v == response.value
<1>1. \/ response = Command("NetworkConfig", NetworkConfig)
      \/ response = Command("HubStatus", HubStatus)
      \/ \E status : response = Command("ConfigAck", status)
  BY DEF Answers
<1>2. CASE response = Command("NetworkConfig", NetworkConfig)
  <2>1. /\ Sequence(push_string(v.wifi_ssid)) /\ Sequence(push_string(v.mqtt.host))
        /\ Sequence(push_string(v.mqtt.client_id)) /\ Sequence(push_string(v.gateway.host))
    BY <1>2, StringSequence, SerialAssumption DEF Command
  <2>2. \A n : Sequence(Le(n, 2)) /\ Sequence(Le(n, 4))
    BY LeSequence
  <2>3. ResponsePayload(response) =
           << v.mode >> \o Le(v.mqtt.port, 2) \o Le(v.gateway.frequency_hz, 4)
             \o << v.gateway.spreading_factor >> \o Le(v.gateway.bandwidth_khz, 4)
             \o << v.gateway.coding_rate >> \o Le(v.gateway.port, 2)
             \o push_string(v.wifi_ssid) \o push_string(v.mqtt.host)
             \o push_string(v.mqtt.client_id) \o push_string(v.gateway.host)
    BY <1>2 DEF ResponsePayload, Command
  <2> HIDE DEF v
  <2>4. Sequence(<< v.mode >> \o Le(v.mqtt.port, 2) \o Le(v.gateway.frequency_hz, 4))
    BY <2>2, OneSequence, Joined
  <2>5. Sequence(<< v.mode >> \o Le(v.mqtt.port, 2) \o Le(v.gateway.frequency_hz, 4)
             \o << v.gateway.spreading_factor >> \o Le(v.gateway.bandwidth_khz, 4))
    BY <2>2, <2>4, OneSequence, Joined
  <2>6. Sequence(<< v.mode >> \o Le(v.mqtt.port, 2) \o Le(v.gateway.frequency_hz, 4)
             \o << v.gateway.spreading_factor >> \o Le(v.gateway.bandwidth_khz, 4)
             \o << v.gateway.coding_rate >> \o Le(v.gateway.port, 2))
    BY <2>2, <2>5, OneSequence, Joined
  <2>7. Sequence(<< v.mode >> \o Le(v.mqtt.port, 2) \o Le(v.gateway.frequency_hz, 4)
             \o << v.gateway.spreading_factor >> \o Le(v.gateway.bandwidth_khz, 4)
             \o << v.gateway.coding_rate >> \o Le(v.gateway.port, 2)
             \o push_string(v.wifi_ssid) \o push_string(v.mqtt.host))
    BY <2>1, <2>6, Joined
  <2> QED BY <2>1, <2>3, <2>7, Joined
<1>3. CASE response = Command("HubStatus", HubStatus)
  <2>1. Sequence(v.ip)
    BY <1>3, SerialAssumption DEF Command, Sequence
  <2>2. \A n : Sequence(Le(n, 4))
    BY LeSequence
  <2>3. ResponsePayload(response) =
          << v.wifi_state >> \o v.ip \o << v.mqtt_state >> \o Le(v.uplink_count, 4)
               \o Le(v.downlink_count, 4) \o Le(v.dropped_count, 4) \o Le(v.uptime_secs, 4)
    BY <1>3 DEF ResponsePayload, Command
  <2> HIDE DEF v
  <2>4. Sequence(<< v.wifi_state >> \o v.ip \o << v.mqtt_state >> \o Le(v.uplink_count, 4))
    BY <2>1, <2>2, OneSequence, Joined
  <2> QED BY <2>2, <2>3, <2>4, Joined
<1>4. ASSUME NEW status, response = Command("ConfigAck", status)
      PROVE  Sequence(ResponsePayload(response))
  BY <1>4, OneSequence DEF ResponsePayload, Command
<1> QED BY <1>1, <1>2, <1>3, <1>4

LEMMA AnswerLength ==
  ASSUME NEW frame \in AnswerFrames
  PROVE  cobs_len(frame) \in Int
<1>1. \E id, payload : Sequence(payload) /\ frame = build_raw(id, payload)
  <2>1. ASSUME NEW bad \in Failed, frame = Result[bad].answer
        PROVE  \E id, payload : Sequence(payload) /\ frame = build_raw(id, payload)
    <3>1. PICK status, id : frame = Error(status, id)
      BY <2>1, FailedAnswer
    <3>2. << status, id >> \in Seq({status, id})
      OBVIOUS
    <3> QED BY <3>1, <3>2 DEF Error, Sequence
  <2>2. CASE frame \in {Version, TxComplete, RxPacket}
    <3>1. << 0, 1, 0 >> \in Seq(Int) /\ <<>> \in Seq(Int) /\ << 7, 0, 0, 0 >> \in Seq(Int)
      OBVIOUS
    <3> QED BY <2>2, <3>1 DEF Version, TxComplete, RxPacket, Sequence
  <2>3. ASSUME NEW c \in ReadCommands, NEW response \in Answers(c),
               frame = encode_response(response)
        PROVE  \E id, payload : Sequence(payload) /\ frame = build_raw(id, payload)
    BY <2>3, ResponseSequence DEF encode_response
  <2> QED BY <2>1, <2>2, <2>3 DEF AnswerFrames
<1>2. PICK id, payload : Sequence(payload) /\ frame = build_raw(id, payload)
  BY <1>1
<1>3. Len(payload) \in Nat
  BY <1>2 DEF Sequence
<1> QED BY <1>2, <1>3 DEF cobs_len, build_raw
-----------------------------------------------------------------------------
(* Moves.                                                                  *)

(* What the host knows depends on the queues by what is under way alone.   *)
Books == Discipline /\ Taken /\ Outstanding /\ InStep /\ DropNeedsTimeouts
Kept == UNCHANGED <<host, issued, answers, abandoned>>

LEMMA SetsFinite ==
  \A A \in SUBSET Numbers : IsFiniteSet(A) /\ Cardinality(A) \in Nat
<1>1. IsFiniteSet(Numbers)
  BY FS_Interval, SerialAssumption DEF Numbers
<1> QED BY <1>1, FS_Subset, FS_CardinalityType

LEMMA UnderWayNumbers == UnderWay \in SUBSET Numbers
BY DEF UnderWay, Out, Nums

(* Fewer under way, and nothing else of the host's changed.                *)
LEMMA BooksMove ==
  ASSUME Books, Kept, UnderWay' \subseteq UnderWay, HostTypes,
         DropNeedsTimeouts'
  PROVE  Books'
<1>1. Discipline' /\ InStep'
  BY DEF Books, Kept, Discipline, InStep, Waiting, Current
<1>2. Taken'
  BY DEF Books, Kept, Taken, Current
<1>3. Outstanding'
  <2>1. /\ Cardinality(UnderWay') <= Cardinality(UnderWay)
        /\ Cardinality(UnderWay') \in Nat /\ Cardinality(UnderWay) \in Nat
        /\ Cardinality(abandoned) \in Nat
    BY UnderWayNumbers, SetsFinite, FS_Subset DEF HostTypes
  <2>2. Cardinality(UnderWay)' = Cardinality(UnderWay')
    OBVIOUS
  <2> QED BY <2>1, <2>2 DEF Books, Kept, Outstanding, Waiting
<1> QED BY <1>1, <1>2, <1>3 DEF Books

LEMMA NoDrop ==
  DropNeedsTimeouts /\ dropped' = dropped /\ Kept => DropNeedsTimeouts'
BY DEF DropNeedsTimeouts, Kept

(* publish_immediate: the answer is in the queue, or in place of an older  *)
(* one.                                                                    *)
LEMMA Published ==
  ASSUME QueueTypes, NEW m \in Replies, publish_immediate(m)
  PROVE  /\ responseQ' \in Seq(Replies) /\ Len(responseQ') <= ResponseCap /\ lagged' \in Nat
         /\ Nums(responseQ') \subseteq Nums(responseQ) \cup ({m.n} \cap Numbers)
         /\ Once(responseQ) /\ m.n \notin Nums(responseQ) => Once(responseQ')
         /\ UnaskedIn(responseQ) /\ (m.n = Unsolicited => m.frame = RxPacket)
              => UnaskedIn(responseQ')
<1>1. responseQ \in Seq(Replies) /\ Len(responseQ) \in Nat /\ Len(responseQ) <= ResponseCap
      /\ lagged \in Nat /\ ResponseCap \in Nat \ {0}
  BY SerialAssumption DEF QueueTypes
<1>2. ASSUME NEW q \in Seq(Replies), UnaskedIn(q), m.n = Unsolicited => m.frame = RxPacket
      PROVE  UnaskedIn(Append(q, m))
  BY <1>2 DEF UnaskedIn
<1>3. CASE Len(responseQ) < ResponseCap
  <2>1. responseQ' = Append(responseQ, m) /\ lagged' = lagged
    BY <1>3 DEF publish_immediate
  <2> QED BY <1>1, <1>2, <1>3, <2>1, NumsAppend
<1>4. CASE ~(Len(responseQ) < ResponseCap)
  <2> DEFINE rest == Tail(responseQ)
  <2>1. responseQ' = Append(rest, m) /\ lagged' = lagged + 1
    BY <1>4 DEF publish_immediate
  <2>2. responseQ # <<>>
    BY <1>1, <1>4
  <2>3. /\ rest \in Seq(Replies) /\ Len(rest) = Len(responseQ) - 1
        /\ Nums(rest) \subseteq Nums(responseQ)
        /\ Once(responseQ) => Once(rest)
    BY <1>1, <2>2, NumsTail
  <2>4. UnaskedIn(responseQ) => UnaskedIn(rest)
    BY <1>1, <2>2 DEF UnaskedIn
  <2> HIDE DEF rest
  <2>5. /\ Append(rest, m) \in Seq(Replies) /\ Len(Append(rest, m)) = Len(rest) + 1
        /\ Nums(Append(rest, m)) = Nums(rest) \cup ({m.n} \cap Numbers)
        /\ Once(rest) /\ m.n \notin Nums(rest) => Once(Append(rest, m))
    BY <2>3, NumsAppend
  <2> QED BY <1>1, <1>2, <2>1, <2>3, <2>4, <2>5
<1> QED BY <1>3, <1>4

(* What a frame is read as.                                                *)
LEMMA RoutedRead ==
  ASSUME NEW frame \in Frames
  PROVE  IF Result[frame].stage = "error" THEN Result[frame].answer \in AnswerFrames
         ELSE Result[frame].command \in ReadCommands
BY DEF Failed, ReadCommands, AnswerFrames

LEMMA OwnNumbers ==
  /\ Unsolicited \notin Numbers /\ ForWifi \notin Numbers /\ Unsolicited # ForWifi
BY DEF Unsolicited, ForWifi, Numbers

(* The steps of the hub leave the host alone and put a number in one place *)
(* at most.                                                                *)
HubSide ==
  /\ QueueTypes' /\ OnePlace' /\ LastIsLast' /\ Unasked' /\ UnderWay' \subseteq UnderWay

LEMMA SerialReadFrame == SerialIndInv /\ ReadFrame => SerialIndInv'
<1> SUFFICES ASSUME SerialIndInv, ReadFrame PROVE SerialIndInv'
  OBVIOUS
<1> USE DEF SerialIndInv
<1> DEFINE n == Head(toHub).n
           frame == [Head(toHub).frame EXCEPT !.crc = ~cut]
<1>1. /\ toHub # <<>> /\ reader = <<>> /\ toHub' = Tail(toHub) /\ cut' = FALSE
      /\ UNCHANGED <<host, open, held, inbox, commandQ, tx, admin, issued, answers, abandoned,
                     bounds>>
      /\ \/ Route(n, Result[frame])
         \/ cut /\ UNCHANGED <<reader, hubQ, responseQ, lagged, dropped>>
  BY DEF ReadFrame
<1>2. /\ Head(toHub) \in Requests /\ toHub' \in Seq(Requests)
      /\ Nums(toHub) = Nums(toHub') \cup ({n} \cap Numbers)
      /\ Once(toHub') /\ n \notin Nums(toHub')
  BY <1>1, NumsTail DEF QueueTypes, OnePlace
<1>3. n \in Numbers /\ n # Unsolicited
  BY <1>2, OwnNumbers DEF Requests
<1>4. frame \in Frames
  <2>1. Head(toHub).frame \in Wires /\ cut \in BOOLEAN
    BY <1>2 DEF Requests, HostTypes
  <2>2. PICK c \in Commands : Head(toHub).frame = Wire(c)
    BY <2>1 DEF Wires
  <2>3. \A good \in BOOLEAN : [Wire(c) EXCEPT !.crc = good] \in Frames
    BY DEF Frames
  <2>4. (~cut) \in BOOLEAN
    OBVIOUS
  <2> QED BY <2>2, <2>3, <2>4
<1> DEFINE result == Result[frame]
<1>5. IF result.stage = "error" THEN result.answer \in AnswerFrames
      ELSE result.command \in ReadCommands
  BY <1>4, RoutedRead
<1> HIDE DEF result, frame, n
<1>6. HubSide /\ dropped' \subseteq Numbers
      /\ (dropped' # dropped => Len(hubQ) = HubCap /\ n \notin Nums(hubQ))
  <2>1. CASE result.stage = "stock" /\ Route(n, result)
    <3>1. /\ reader' = << [n |-> n, command |-> result.command] >>
          /\ UNCHANGED <<hubQ, responseQ, lagged, dropped>>
      BY <2>1 DEF Route
    <3>2. [n |-> n, command |-> result.command] \in Readings(Numbers)
      BY <1>3, <1>5, <2>1 DEF Readings
    <3>3. reader' \in Seq(Readings(Numbers)) /\ Len(reader') = 1
      BY <3>1, <3>2
    <3>4. Nums(reader') = {n} /\ Once(reader')
      BY <1>3, <3>1, NumsOne
    <3>5. QueueTypes'
      BY <1>1, <1>2, <3>1, <3>3 DEF QueueTypes
    <3>6. Nums(hubQ)' = Nums(hubQ) /\ Nums(responseQ)' = Nums(responseQ)
          /\ Nums(commandQ)' = Nums(commandQ) /\ Out' = Out
          /\ Nums(toHub)' = Nums(toHub') /\ Nums(reader)' = Nums(reader')
          /\ Once(toHub)' = Once(toHub') /\ Once(reader)' = Once(reader')
          /\ Once(hubQ)' = Once(hubQ) /\ Once(responseQ)' = Once(responseQ)
          /\ Once(commandQ)' = Once(commandQ)
      BY <1>1, <3>1 DEF Out
    <3>7. OnePlace' /\ UnderWay' \subseteq UnderWay
      BY <1>2, <1>3, <3>4, <3>6 DEF OnePlace, Disjoint, UnderWay
    <3>8. LastIsLast' /\ Unasked'
      BY <1>1, <3>1 DEF LastIsLast, Unasked
    <3> QED BY <3>1, <3>5, <3>7, <3>8 DEF HubSide, HostTypes
  <2>2. CASE result.stage = "hub" /\ Len(hubQ) < HubCap /\ Route(n, result)
    <3>1. /\ hubQ' = Append(hubQ, [n |-> n, command |-> result.command])
          /\ UNCHANGED <<reader, responseQ, lagged, dropped>>
      BY <2>2, SerialAssumption DEF Route, QueueTypes
    <3>2. [n |-> n, command |-> result.command] \in Readings(Numbers)
      BY <1>3, <1>5, <2>2 DEF Readings
    <3>3. n \notin Nums(hubQ)
      BY <1>2, <1>3 DEF OnePlace, Disjoint
    <3>4. /\ hubQ' \in Seq(Readings(Numbers)) /\ Len(hubQ') <= HubCap
          /\ Nums(hubQ') = Nums(hubQ) \cup {n} /\ Once(hubQ')
      <4>1. hubQ \in Seq(Readings(Numbers)) /\ Once(hubQ) /\ Len(hubQ) \in Nat
        BY DEF QueueTypes, OnePlace
      <4> QED BY <1>3, <2>2, <3>1, <3>2, <3>3, <4>1, NumsAppend, SerialAssumption
    <3>5. QueueTypes'
      BY <1>1, <1>2, <3>1, <3>4 DEF QueueTypes
    <3>6. Nums(hubQ)' = Nums(hubQ') /\ Nums(responseQ)' = Nums(responseQ)
          /\ Nums(commandQ)' = Nums(commandQ) /\ Out' = Out
          /\ Nums(toHub)' = Nums(toHub') /\ Nums(reader)' = Nums(reader)
          /\ Once(toHub)' = Once(toHub') /\ Once(reader)' = Once(reader)
          /\ Once(hubQ)' = Once(hubQ') /\ Once(responseQ)' = Once(responseQ)
          /\ Once(commandQ)' = Once(commandQ)
      BY <1>1, <3>1 DEF Out
    <3>7. OnePlace' /\ UnderWay' \subseteq UnderWay
      BY <1>2, <1>3, <3>4, <3>6 DEF OnePlace, Disjoint, UnderWay
    <3>8. LastIsLast' /\ Unasked'
      BY <1>1, <3>1 DEF LastIsLast, Unasked
    <3> QED BY <3>1, <3>5, <3>7, <3>8 DEF HubSide, HostTypes
  <2>3. CASE result.stage = "error" /\ Route(n, result)
    <3> DEFINE m == Message(n, result.answer)
    <3>1. publish_immediate(m) /\ UNCHANGED <<reader, hubQ, dropped>>
      BY <2>3 DEF Route
    <3>2. m \in Replies /\ m.n = n
      BY <1>3, <1>5, <2>3 DEF Replies, Message
    <3>3. n \notin Nums(responseQ)
      BY <1>2, <1>3 DEF OnePlace, Disjoint
    <3> HIDE DEF m
    <3>4. /\ responseQ' \in Seq(Replies) /\ Len(responseQ') <= ResponseCap /\ lagged' \in Nat
          /\ Nums(responseQ') \subseteq Nums(responseQ) \cup {n} /\ Once(responseQ')
          /\ UnaskedIn(responseQ')
      BY <1>3, <3>1, <3>2, <3>3, Published DEF OnePlace, Unasked
    <3>5. QueueTypes'
      BY <1>1, <1>2, <3>1, <3>4 DEF QueueTypes
    <3>6. Nums(hubQ)' = Nums(hubQ) /\ Nums(responseQ)' = Nums(responseQ')
          /\ Nums(commandQ)' = Nums(commandQ) /\ Out' = Out
          /\ Nums(toHub)' = Nums(toHub') /\ Nums(reader)' = Nums(reader)
          /\ Once(toHub)' = Once(toHub') /\ Once(reader)' = Once(reader)
          /\ Once(hubQ)' = Once(hubQ) /\ Once(responseQ)' = Once(responseQ')
          /\ Once(commandQ)' = Once(commandQ)
      BY <1>1, <3>1 DEF Out
    <3>7. OnePlace' /\ UnderWay' \subseteq UnderWay
      BY <1>2, <1>3, <3>4, <3>6 DEF OnePlace, Disjoint, UnderWay
    <3>8. LastIsLast' /\ Unasked'
      BY <1>1, <3>4 DEF LastIsLast, Unasked
    <3> QED BY <3>1, <3>5, <3>7, <3>8 DEF HubSide, HostTypes
  <2>4. CASE /\ UNCHANGED <<reader, hubQ, responseQ, lagged>>
             /\ \/ UNCHANGED dropped
                \/ Len(hubQ) = HubCap /\ dropped' = dropped \cup {n}
    <3>1. QueueTypes'
      BY <1>1, <1>2, <2>4 DEF QueueTypes
    <3>2. Nums(hubQ)' = Nums(hubQ) /\ Nums(responseQ)' = Nums(responseQ)
          /\ Nums(commandQ)' = Nums(commandQ) /\ Out' = Out
          /\ Nums(toHub)' = Nums(toHub') /\ Nums(reader)' = Nums(reader)
          /\ Once(toHub)' = Once(toHub') /\ Once(reader)' = Once(reader)
          /\ Once(hubQ)' = Once(hubQ) /\ Once(responseQ)' = Once(responseQ)
          /\ Once(commandQ)' = Once(commandQ)
      BY <1>1, <2>4 DEF Out
    <3>3. OnePlace' /\ UnderWay' \subseteq UnderWay /\ n \notin Nums(hubQ)
      BY <1>2, <1>3, <3>2 DEF OnePlace, Disjoint, UnderWay
    <3>4. LastIsLast' /\ Unasked'
      BY <1>1, <2>4 DEF LastIsLast, Unasked
    <3> QED BY <1>3, <2>4, <3>1, <3>3, <3>4 DEF HubSide, HostTypes
  <2> QED BY <1>1, <2>1, <2>2, <2>3, <2>4 DEF Route, result
<1>7. HostTypes' /\ Kept
  BY <1>1, <1>6 DEF HostTypes, Kept, bounds
<1>8. DropNeedsTimeouts'
  <2>1. CASE dropped' = dropped
    BY <1>7, <2>1, NoDrop
  <2>2. CASE dropped' # dropped
    <3>1. hubQ \in Seq(Readings(Numbers)) /\ Once(hubQ) /\ Len(hubQ) = HubCap
          /\ \A i \in DOMAIN hubQ : hubQ[i].n \in Numbers
      <4>1. hubQ \in Seq(Readings(Numbers)) /\ Once(hubQ)
        BY DEF QueueTypes, OnePlace
      <4>2. \A i \in DOMAIN hubQ : hubQ[i] \in Readings(Numbers)
        BY <4>1
      <4>3. \A i \in DOMAIN hubQ : hubQ[i].n \in Numbers
        BY <4>2 DEF Readings
      <4> QED BY <1>6, <2>2, <4>1, <4>3
    <3>2. IsFiniteSet(Nums(hubQ)) /\ Cardinality(Nums(hubQ)) = HubCap
      BY <3>1, NumsCount
    <3>3. Cardinality(Nums(hubQ) \cup {n}) = HubCap + 1
      BY <1>6, <2>2, <3>2, FS_AddElement
    <3>4. Nums(hubQ) \cup {n} \subseteq UnderWay
      BY <1>2, <1>3 DEF UnderWay
    <3>5. HubCap + 1 <= Cardinality(UnderWay)
      BY <3>3, <3>4, UnderWayNumbers, SetsFinite, FS_Subset
    <3>6. Cardinality(UnderWay) \in Nat /\ Cardinality(abandoned) \in Nat
      BY UnderWayNumbers, SetsFinite DEF HostTypes
    <3>7. Cardinality(abandoned) >= HubCap
      BY <3>5, <3>6, SerialAssumption DEF Outstanding
    <3> QED BY <1>7, <3>7 DEF DropNeedsTimeouts, Kept
  <2> QED BY <2>1, <2>2
<1>9. Books'
  BY <1>6, <1>7, <1>8, BooksMove DEF Books, HubSide
<1> QED BY <1>6, <1>7, <1>9 DEF Books, HubSide

LEMMA HubSideKeeps ==
  ASSUME SerialIndInv, HubSide, Kept, HostTypes', dropped' = dropped
  PROVE  SerialIndInv'
<1>1. Books'
  BY NoDrop, BooksMove DEF SerialIndInv, HubSide, Books
<1> QED BY <1>1 DEF SerialIndInv, HubSide, Books

(* The command that waited moves on to COMMAND_CHANNEL.                    *)
LEMMA SerialSendCommand == SerialIndInv /\ SendCommand => SerialIndInv'
<1> SUFFICES ASSUME SerialIndInv, SendCommand PROVE SerialIndInv'
  OBVIOUS
<1> USE DEF SerialIndInv
<1>1. /\ reader # <<>> /\ Len(commandQ) < CommandCap
      /\ commandQ' = Append(commandQ, Head(reader)) /\ reader' = <<>>
      /\ UNCHANGED <<host, link, cut, hubQ, responseQ, lagged, tx, admin, history, bounds>>
  BY DEF SendCommand
<1>2. /\ Head(reader) \in Readings(Numbers)
      /\ {Head(reader).n} \cap Numbers \subseteq Nums(reader)
      /\ commandQ \in Seq(Readings(Numbers \cup {ForWifi})) /\ Len(commandQ) \in Nat
  BY <1>1, NumsTail DEF QueueTypes
<1>3. Head(reader) \in Readings(Numbers \cup {ForWifi}) /\ Head(reader).n \in Nums(reader)
  BY <1>2 DEF Readings
<1>4. /\ commandQ' \in Seq(Readings(Numbers \cup {ForWifi})) /\ Len(commandQ') <= CommandCap
      /\ Nums(commandQ') \subseteq Nums(commandQ) \cup Nums(reader) /\ Once(commandQ')
  <2>1. Head(reader).n \notin Nums(commandQ) /\ Once(commandQ)
    BY <1>3 DEF OnePlace, Disjoint
  <2>2. /\ commandQ' \in Seq(Readings(Numbers \cup {ForWifi}))
        /\ Len(commandQ') = Len(commandQ) + 1
        /\ Nums(commandQ') = Nums(commandQ) \cup ({Head(reader).n} \cap Numbers)
        /\ Once(commandQ')
    BY <1>1, <1>2, <1>3, <2>1, NumsAppend
  <2> QED BY <1>1, <1>2, <2>2, SerialAssumption
<1>5. Nums(reader') = {} /\ Once(reader') /\ reader' \in Seq(Readings(Numbers)) /\ Len(reader') = 0
  BY <1>1, NumsEmpty
<1>6. QueueTypes'
  BY <1>1, <1>4, <1>5 DEF QueueTypes, link
<1>7. /\ Nums(hubQ)' = Nums(hubQ) /\ Nums(responseQ)' = Nums(responseQ)
      /\ Nums(commandQ)' = Nums(commandQ') /\ Out' = Out
      /\ Nums(toHub)' = Nums(toHub) /\ Nums(reader)' = Nums(reader')
      /\ Once(toHub)' = Once(toHub) /\ Once(reader)' = Once(reader')
      /\ Once(hubQ)' = Once(hubQ) /\ Once(responseQ)' = Once(responseQ)
      /\ Once(commandQ)' = Once(commandQ')
  BY <1>1 DEF Out, link
<1>8. OnePlace' /\ UnderWay' \subseteq UnderWay
  BY <1>4, <1>5, <1>7 DEF OnePlace, Disjoint, UnderWay
<1>9. LastIsLast' /\ Unasked'
  BY <1>1 DEF LastIsLast, Unasked, link
<1>10. HostTypes' /\ Kept /\ dropped' = dropped
  BY <1>1 DEF HostTypes, Kept, link, history, bounds
<1> QED BY <1>6, <1>8, <1>9, <1>10, HubSideKeeps DEF HubSide

(* A task takes a command and answers it: the answer has its number.       *)
LEMMA AnswerReplaces ==
  ASSUME SerialIndInv, NEW m \in Replies, publish_immediate(m), m.n # Unsolicited,
         UNCHANGED <<toHub, reader, held, inbox, tx>>,
         \/ /\ commandQ # <<>> /\ m.n = Head(commandQ).n
            /\ commandQ' = Tail(commandQ) /\ UNCHANGED hubQ
         \/ /\ hubQ # <<>> /\ m.n = Head(hubQ).n
            /\ hubQ' = Tail(hubQ) /\ UNCHANGED commandQ
  PROVE  HubSide
<1> USE DEF SerialIndInv
<1>1. /\ commandQ' \in Seq(Readings(Numbers \cup {ForWifi})) /\ Len(commandQ') <= CommandCap
      /\ hubQ' \in Seq(Readings(Numbers)) /\ Len(hubQ') <= HubCap
      /\ Once(commandQ') /\ Once(hubQ')
      /\ Nums(commandQ') \cup Nums(hubQ') \cup ({m.n} \cap Numbers)
           \subseteq Nums(commandQ) \cup Nums(hubQ)
      /\ Nums(commandQ') \subseteq Nums(commandQ) /\ Nums(hubQ') \subseteq Nums(hubQ)
      /\ m.n \notin Nums(commandQ') \cup Nums(hubQ')
  <2>1. /\ commandQ \in Seq(Readings(Numbers \cup {ForWifi})) /\ Len(commandQ) <= CommandCap
        /\ hubQ \in Seq(Readings(Numbers)) /\ Len(hubQ) <= HubCap
        /\ Once(commandQ) /\ Once(hubQ) /\ Nums(commandQ) \cap Nums(hubQ) = {}
        /\ CommandCap \in Nat /\ HubCap \in Nat
    BY SerialAssumption DEF QueueTypes, OnePlace, Disjoint
  <2>2. CASE /\ commandQ # <<>> /\ m.n = Head(commandQ).n
             /\ commandQ' = Tail(commandQ) /\ UNCHANGED hubQ
    <3>1. /\ commandQ' \in Seq(Readings(Numbers \cup {ForWifi}))
          /\ Len(commandQ') = Len(commandQ) - 1 /\ Len(commandQ) \in Nat
          /\ Nums(commandQ) = Nums(commandQ') \cup ({m.n} \cap Numbers)
          /\ Once(commandQ') /\ m.n \notin Nums(commandQ')
      BY <2>1, <2>2, NumsTail
    <3>2. m.n \notin Nums(hubQ)
      BY <2>1, <3>1 DEF Nums
    <3>3. Len(commandQ') <= CommandCap
      BY <2>1, <3>1
    <3>4. hubQ' = hubQ /\ Nums(hubQ') = Nums(hubQ)
      BY <2>2
    <3>5. Once(hubQ') /\ hubQ' \in Seq(Readings(Numbers)) /\ Len(hubQ') <= HubCap
      BY <2>1, <3>4
    <3> QED BY <3>1, <3>2, <3>3, <3>4, <3>5, Zenon
  <2>3. CASE /\ hubQ # <<>> /\ m.n = Head(hubQ).n
             /\ hubQ' = Tail(hubQ) /\ UNCHANGED commandQ
    <3>1. /\ hubQ' \in Seq(Readings(Numbers))
          /\ Len(hubQ') = Len(hubQ) - 1 /\ Len(hubQ) \in Nat
          /\ Nums(hubQ) = Nums(hubQ') \cup ({m.n} \cap Numbers)
          /\ Once(hubQ') /\ m.n \notin Nums(hubQ')
      BY <2>1, <2>3, NumsTail
    <3>2. m.n \notin Nums(commandQ)
      BY <2>1, <3>1 DEF Nums
    <3>3. Len(hubQ') <= HubCap
      BY <2>1, <3>1
    <3>4. commandQ' = commandQ /\ Nums(commandQ') = Nums(commandQ)
      BY <2>3
    <3>5. /\ Once(commandQ') /\ Len(commandQ') <= CommandCap
          /\ commandQ' \in Seq(Readings(Numbers \cup {ForWifi}))
      BY <2>1, <3>4
    <3> QED BY <3>1, <3>2, <3>3, <3>4, <3>5, Zenon
  <2> QED BY <2>2, <2>3
<1>2. m.n \notin Nums(responseQ)
  BY <1>1 DEF OnePlace, Disjoint, Nums
<1>3. /\ responseQ' \in Seq(Replies) /\ Len(responseQ') <= ResponseCap /\ lagged' \in Nat
      /\ Nums(responseQ') \subseteq Nums(responseQ) \cup ({m.n} \cap Numbers)
      /\ Once(responseQ') /\ UnaskedIn(responseQ')
  BY <1>2, Published DEF OnePlace, Unasked
<1>4. QueueTypes'
  BY <1>1, <1>3 DEF QueueTypes
<1>5. /\ Nums(hubQ)' = Nums(hubQ') /\ Nums(responseQ)' = Nums(responseQ')
      /\ Nums(commandQ)' = Nums(commandQ') /\ Out' = Out
      /\ Nums(toHub)' = Nums(toHub) /\ Nums(reader)' = Nums(reader)
      /\ Once(toHub)' = Once(toHub) /\ Once(reader)' = Once(reader)
      /\ Once(hubQ)' = Once(hubQ') /\ Once(responseQ)' = Once(responseQ')
      /\ Once(commandQ)' = Once(commandQ')
  BY DEF Out
<1>6. OnePlace'
  BY <1>1, <1>3, <1>5 DEF OnePlace, Disjoint
<1>7. UnderWay' \subseteq UnderWay
  BY <1>1, <1>3, <1>5 DEF UnderWay
<1>8. LastIsLast' /\ Unasked'
  BY <1>3 DEF LastIsLast, Unasked
<1> QED BY <1>4, <1>6, <1>7, <1>8 DEF HubSide

LEMMA SerialHandleCommand == SerialIndInv /\ HandleCommand => SerialIndInv'
<1> SUFFICES ASSUME SerialIndInv, HandleCommand PROVE SerialIndInv'
  OBVIOUS
<1> USE DEF SerialIndInv
<1> DEFINE n == Head(commandQ).n
           m == Message(n, IF Head(commandQ).command.id = "GetVersion" THEN Version
                           ELSE TxComplete)
<1>1. /\ commandQ # <<>> /\ commandQ' = Tail(commandQ)
      /\ UNCHANGED <<host, link, cut, reader, hubQ, tx, issued, answers, abandoned,
                     dropped, bounds>>
      /\ \/ admin' = TRUE /\ UNCHANGED <<responseQ, lagged>>
         \/ publish_immediate(m) /\ UNCHANGED admin
  BY DEF HandleCommand
<1>2. HostTypes' /\ Kept /\ dropped' = dropped
  BY <1>1 DEF HostTypes, Kept, link, bounds
<1>3. /\ Head(commandQ) \in Readings(Numbers \cup {ForWifi})
      /\ commandQ' \in Seq(Readings(Numbers \cup {ForWifi})) /\ Len(commandQ') <= CommandCap
      /\ Nums(commandQ') \subseteq Nums(commandQ) /\ Once(commandQ')
  <2>1. /\ commandQ \in Seq(Readings(Numbers \cup {ForWifi})) /\ Len(commandQ) <= CommandCap
        /\ CommandCap \in Nat /\ Once(commandQ)
    BY SerialAssumption DEF QueueTypes, OnePlace
  <2>2. /\ Head(commandQ) \in Readings(Numbers \cup {ForWifi})
        /\ commandQ' \in Seq(Readings(Numbers \cup {ForWifi}))
        /\ Len(commandQ') = Len(commandQ) - 1 /\ Len(commandQ) \in Nat
        /\ Nums(commandQ') \subseteq Nums(commandQ) /\ Once(commandQ')
    BY <1>1, <2>1, NumsTail
  <2> QED BY <2>1, <2>2
<1>4. CASE publish_immediate(m)
  <2>1. m \in Replies /\ m.n = n /\ n # Unsolicited
    BY <1>3, OwnNumbers DEF Replies, Readings, Message, AnswerFrames
  <2> HIDE DEF m
  <2>2. HubSide
    BY <1>1, <1>4, <2>1, AnswerReplaces DEF link
  <2> QED BY <1>2, <2>2, HubSideKeeps
<1>5. CASE UNCHANGED <<responseQ, lagged>>
  <2>1. QueueTypes'
    BY <1>1, <1>3, <1>5 DEF QueueTypes, link
  <2>2. /\ Nums(hubQ)' = Nums(hubQ) /\ Nums(responseQ)' = Nums(responseQ)
        /\ Nums(commandQ)' = Nums(commandQ') /\ Out' = Out
        /\ Nums(toHub)' = Nums(toHub) /\ Nums(reader)' = Nums(reader)
        /\ Once(toHub)' = Once(toHub) /\ Once(reader)' = Once(reader)
        /\ Once(hubQ)' = Once(hubQ) /\ Once(responseQ)' = Once(responseQ)
        /\ Once(commandQ)' = Once(commandQ')
    BY <1>1, <1>5 DEF Out, link
  <2>3. OnePlace' /\ UnderWay' \subseteq UnderWay
    BY <1>3, <2>2 DEF OnePlace, Disjoint, UnderWay
  <2>4. LastIsLast' /\ Unasked'
    BY <1>1, <1>5 DEF LastIsLast, Unasked, link
  <2> QED BY <1>2, <2>1, <2>3, <2>4, HubSideKeeps DEF HubSide
<1> QED BY <1>1, <1>4, <1>5

LEMMA SerialHubCtrl == SerialIndInv /\ HubCtrl => SerialIndInv'
<1> SUFFICES ASSUME SerialIndInv, HubCtrl PROVE SerialIndInv'
  OBVIOUS
<1> USE DEF SerialIndInv
<1>1. PICK response \in Answers(Head(hubQ).command) :
        publish_immediate(Message(Head(hubQ).n, encode_response(response)))
  BY DEF HubCtrl
<1>2. /\ hubQ # <<>> /\ hubQ' = Tail(hubQ)
      /\ UNCHANGED <<host, link, cut, reader, commandQ, tx, admin, issued, answers, abandoned,
                     dropped, bounds>>
  BY DEF HubCtrl
<1>3. Head(hubQ) \in Readings(Numbers)
  BY <1>2, NumsTail DEF QueueTypes
<1> DEFINE m == Message(Head(hubQ).n, encode_response(response))
<1>4. m \in Replies /\ m.n = Head(hubQ).n /\ m.n # Unsolicited
  <2>1. Head(hubQ).command \in ReadCommands /\ Head(hubQ).n \in Numbers
    BY <1>3 DEF Readings
  <2>2. encode_response(response) \in AnswerFrames
    BY <2>1 DEF AnswerFrames
  <2> QED BY <2>1, <2>2, OwnNumbers DEF Replies, Message
<1> HIDE DEF m
<1>5. HubSide
  BY <1>1, <1>2, <1>4, AnswerReplaces DEF link, m
<1>6. HostTypes' /\ Kept /\ dropped' = dropped
  BY <1>2 DEF HostTypes, Kept, link, bounds
<1> QED BY <1>5, <1>6, HubSideKeeps

(* What others add to the queues of the hub has no number of this host's.  *)
LEMMA SerialReceive == SerialIndInv /\ Receive => SerialIndInv'
<1> SUFFICES ASSUME SerialIndInv, Receive PROVE SerialIndInv'
  OBVIOUS
<1> USE DEF SerialIndInv
<1> DEFINE m == Message(Unsolicited, RxPacket)
<1>1. /\ publish_immediate(m) /\ noise < MaxNoise /\ noise' = noise + 1
      /\ UNCHANGED <<host, link, cut, reader, commandQ, hubQ, tx, admin, history, early, breaks>>
  BY DEF Receive
<1>2. m \in Replies /\ m.n \notin Numbers /\ m.frame = RxPacket
  BY OwnNumbers DEF Message, Replies, AnswerFrames
<1> HIDE DEF m
<1>3. m.n \notin Nums(responseQ)
  BY <1>2 DEF Nums
<1>4. /\ responseQ' \in Seq(Replies) /\ Len(responseQ') <= ResponseCap /\ lagged' \in Nat
      /\ Nums(responseQ') \subseteq Nums(responseQ)
      /\ Once(responseQ') /\ UnaskedIn(responseQ')
  BY <1>1, <1>2, <1>3, Published DEF OnePlace, Unasked
<1>5. QueueTypes'
  BY <1>1, <1>4 DEF QueueTypes, link
<1>6. /\ Nums(hubQ)' = Nums(hubQ) /\ Nums(responseQ)' = Nums(responseQ')
      /\ Nums(commandQ)' = Nums(commandQ) /\ Out' = Out
      /\ Nums(toHub)' = Nums(toHub) /\ Nums(reader)' = Nums(reader)
      /\ Once(toHub)' = Once(toHub) /\ Once(reader)' = Once(reader)
      /\ Once(hubQ)' = Once(hubQ) /\ Once(responseQ)' = Once(responseQ')
      /\ Once(commandQ)' = Once(commandQ)
  BY <1>1 DEF Out, link
<1>7. OnePlace' /\ UnderWay' \subseteq UnderWay
  BY <1>4, <1>6 DEF OnePlace, Disjoint, UnderWay
<1>8. LastIsLast' /\ Unasked'
  BY <1>1, <1>4 DEF LastIsLast, Unasked, link
<1>9. HostTypes' /\ Kept /\ dropped' = dropped
  BY <1>1, SerialAssumption DEF HostTypes, Kept, link, history
<1> QED BY <1>5, <1>7, <1>8, <1>9, HubSideKeeps DEF HubSide

LEMMA SerialWifiCommand == SerialIndInv /\ WifiCommand => SerialIndInv'
<1> SUFFICES ASSUME SerialIndInv, WifiCommand PROVE SerialIndInv'
  OBVIOUS
<1> USE DEF SerialIndInv
<1> DEFINE m == [n |-> ForWifi, command |-> Command("LoraTx", <<>>)]
<1>1. /\ noise < MaxNoise /\ noise' = noise + 1 /\ Len(commandQ) < CommandCap
      /\ commandQ' = Append(commandQ, m)
      /\ UNCHANGED <<host, link, cut, reader, hubQ, responseQ, lagged, tx, admin, history,
                     early, breaks>>
  BY DEF WifiCommand
<1>2. m \in Readings(Numbers \cup {ForWifi}) /\ m.n \notin Numbers
  BY OwnNumbers DEF Readings, ReadCommands
<1> HIDE DEF m
<1>3. /\ commandQ' \in Seq(Readings(Numbers \cup {ForWifi})) /\ Len(commandQ') <= CommandCap
      /\ Nums(commandQ') = Nums(commandQ) /\ Once(commandQ')
  <2>1. /\ commandQ \in Seq(Readings(Numbers \cup {ForWifi})) /\ Len(commandQ) \in Nat
        /\ CommandCap \in Nat /\ Once(commandQ) /\ m.n \notin Nums(commandQ)
    <3>1. commandQ \in Seq(Readings(Numbers \cup {ForWifi})) /\ Once(commandQ)
      BY DEF QueueTypes, OnePlace
    <3>2. Len(commandQ) \in Nat
      BY <3>1
    <3>3. CommandCap \in Nat
      BY SerialAssumption
    <3>4. m.n \notin Nums(commandQ)
      BY <1>2 DEF Nums
    <3> QED BY <3>1, <3>2, <3>3, <3>4
  <2>2. /\ commandQ' \in Seq(Readings(Numbers \cup {ForWifi}))
        /\ Len(commandQ') = Len(commandQ) + 1
        /\ Nums(commandQ') = Nums(commandQ) \cup ({m.n} \cap Numbers) /\ Once(commandQ')
    BY <1>1, <1>2, <2>1, NumsAppend
  <2>3. Len(commandQ') <= CommandCap
    BY <1>1, <2>1, <2>2
  <2> QED BY <1>2, <2>2, <2>3
<1>4. QueueTypes'
  BY <1>1, <1>3 DEF QueueTypes, link
<1>5. /\ Nums(hubQ)' = Nums(hubQ) /\ Nums(responseQ)' = Nums(responseQ)
      /\ Nums(commandQ)' = Nums(commandQ') /\ Out' = Out
      /\ Nums(toHub)' = Nums(toHub) /\ Nums(reader)' = Nums(reader)
      /\ Once(toHub)' = Once(toHub) /\ Once(reader)' = Once(reader)
      /\ Once(hubQ)' = Once(hubQ) /\ Once(responseQ)' = Once(responseQ)
      /\ Once(commandQ)' = Once(commandQ')
  BY <1>1 DEF Out, link
<1>6. OnePlace' /\ UnderWay' \subseteq UnderWay
  BY <1>3, <1>5 DEF OnePlace, Disjoint, UnderWay
<1>7. LastIsLast' /\ Unasked'
  BY <1>1 DEF LastIsLast, Unasked, link
<1>8. HostTypes' /\ Kept /\ dropped' = dropped
  BY <1>1, SerialAssumption DEF HostTypes, Kept, link, history
<1> QED BY <1>4, <1>6, <1>7, <1>8, HubSideKeeps DEF HubSide
(* serial_writer_task takes the next answer, or learns that it lagged.     *)
LEMMA SerialNextMessage == SerialIndInv /\ NextMessage => SerialIndInv'
<1> SUFFICES ASSUME SerialIndInv, NextMessage PROVE SerialIndInv'
  OBVIOUS
<1> USE DEF SerialIndInv
<1>1. /\ tx = <<>>
      /\ UNCHANGED <<host, link, cut, reader, commandQ, hubQ, admin, history, bounds>>
  BY DEF NextMessage
<1>2. HostTypes' /\ Kept /\ dropped' = dropped
  BY <1>1 DEF HostTypes, Kept, link, history, bounds
<1>3. /\ Nums(hubQ)' = Nums(hubQ) /\ Nums(commandQ)' = Nums(commandQ)
      /\ Nums(toHub)' = Nums(toHub) /\ Nums(reader)' = Nums(reader)
      /\ Nums(inbox)' = Nums(inbox)
      /\ Once(toHub)' = Once(toHub) /\ Once(reader)' = Once(reader)
      /\ Once(hubQ)' = Once(hubQ) /\ Once(commandQ)' = Once(commandQ)
  BY <1>1 DEF link
<1>4. CASE lagged' = 0 /\ UNCHANGED <<responseQ, tx>>
  <2>1. QueueTypes' /\ LastIsLast' /\ Unasked'
    BY <1>1, <1>4 DEF QueueTypes, LastIsLast, Unasked, link
  <2>2. /\ Nums(responseQ)' = Nums(responseQ) /\ Out' = Out
        /\ Once(responseQ)' = Once(responseQ)
    BY <1>1, <1>4 DEF Out, link
  <2>3. OnePlace' /\ UnderWay' \subseteq UnderWay
    BY <1>3, <2>2 DEF OnePlace, Disjoint, UnderWay
  <2> QED BY <1>2, <2>1, <2>3, HubSideKeeps DEF HubSide
<1>5. CASE /\ responseQ # <<>> /\ responseQ' = Tail(responseQ) /\ UNCHANGED lagged
           /\ tx' = IF Head(responseQ).n = ForWifi THEN <<>>
                    ELSE << Sending(Head(responseQ)) >>
  <2> DEFINE m == Head(responseQ)
  <2>1. responseQ \in Seq(Replies) /\ Len(responseQ) <= ResponseCap /\ Once(responseQ)
        /\ ResponseCap \in Nat
    BY SerialAssumption DEF QueueTypes, OnePlace
  <2>2. /\ m \in Replies /\ responseQ' \in Seq(Replies) /\ Len(responseQ') <= ResponseCap
        /\ Nums(responseQ) = Nums(responseQ') \cup ({m.n} \cap Numbers)
        /\ Once(responseQ') /\ m.n \notin Nums(responseQ') /\ m = responseQ[1]
        /\ 1 \in DOMAIN responseQ
    <3>1. /\ m \in Replies /\ responseQ' \in Seq(Replies)
          /\ Len(responseQ') = Len(responseQ) - 1 /\ Len(responseQ) \in Nat
          /\ Nums(responseQ) = Nums(responseQ') \cup ({m.n} \cap Numbers)
          /\ Once(responseQ') /\ m.n \notin Nums(responseQ') /\ m = responseQ[1]
          /\ 1 \in DOMAIN responseQ
      BY <1>5, <2>1, NumsTail
    <3> HIDE DEF m
    <3>2. Len(responseQ') <= ResponseCap
      BY <2>1, <3>1
    <3> QED BY <3>1, <3>2
  <2>3. m.n = Unsolicited => m.frame = RxPacket
    BY <2>2 DEF Unasked, UnaskedIn
  <2>4. UnaskedIn(responseQ')
    <3>1. \A i \in DOMAIN responseQ' : i + 1 \in DOMAIN responseQ /\ responseQ'[i] = responseQ[i + 1]
      BY <1>5, <2>1
    <3> QED BY <3>1 DEF Unasked, UnaskedIn
  <2> HIDE DEF m
  <2>5. /\ tx' \in Seq(Transfers) /\ Len(tx') <= 1
        /\ Nums(tx') \subseteq {m.n} \cap Numbers /\ UnaskedIn(tx')
        /\ \A k \in DOMAIN tx' : tx'[k].n = m.n
    <3>1. CASE m.n = ForWifi
      <4>1. tx' = <<>>
        BY <1>5, <3>1 DEF m
      <4> QED BY <4>1, NumsEmpty DEF UnaskedIn
    <3>2. CASE m.n # ForWifi
      <4>1. tx' = << [n |-> m.n, frame |-> m.frame, at |-> 0] >>
        BY <1>5, <3>2 DEF m, Sending
      <4>2. [n |-> m.n, frame |-> m.frame, at |-> 0] \in Transfers
        BY <2>2, <3>2 DEF Replies, Transfers
      <4>3. Nums(tx') = {m.n} \cap Numbers
        BY <4>1, NumsOne
      <4>4. tx' \in Seq(Transfers) /\ Len(tx') = 1 /\ DOMAIN tx' = {1}
        BY <4>1, <4>2
      <4>5. tx'[1].n = m.n /\ tx'[1].frame = m.frame
        BY <4>1
      <4> QED BY <2>3, <4>3, <4>4, <4>5 DEF UnaskedIn
    <3> QED BY <3>1, <3>2
  <2>6. QueueTypes'
    BY <1>1, <1>5, <2>2, <2>5 DEF QueueTypes, link
  <2>7. /\ Nums(responseQ)' = Nums(responseQ') /\ Once(responseQ)' = Once(responseQ')
        /\ Out' = Nums(inbox) \cup Nums(tx') /\ Out = Nums(inbox)
    BY <1>1, <1>3, NumsEmpty DEF Out
  <2>8. OnePlace' /\ UnderWay' \subseteq UnderWay
    BY <1>3, <2>2, <2>5, <2>7 DEF OnePlace, Disjoint, UnderWay
  <2>9. LastIsLast'
    <3>1. \A i \in DOMAIN inbox : inbox[i].n \in Numbers => inbox[i].n # m.n
      BY <2>2, <2>7 DEF OnePlace, Disjoint, Nums
    <3> QED BY <1>1, <2>5, <3>1 DEF LastIsLast, link
  <2>10. Unasked'
    BY <1>1, <2>4, <2>5 DEF Unasked, link
  <2> QED BY <1>2, <2>6, <2>8, <2>9, <2>10, HubSideKeeps DEF HubSide
<1> QED BY <1>4, <1>5 DEF NextMessage

LEMMA OneTransfer == QueueTypes /\ tx # <<>> => tx \in Seq(Transfers) /\ Len(tx) = 1
<1> SUFFICES ASSUME QueueTypes, tx # <<>> PROVE tx \in Seq(Transfers) /\ Len(tx) = 1
  OBVIOUS
<1>1. tx \in Seq(Transfers) /\ Len(tx) <= 1
  BY DEF QueueTypes
<1>2. Len(tx) \in Nat /\ Len(tx) # 0
  BY <1>1
<1>3. \A k \in Nat : k <= 1 /\ k # 0 => k = 1
  OBVIOUS
<1> QED BY <1>1, <1>2, <1>3

(* write_packet: the next packet of the frame, and after the last one the  *)
(* frame is not written any more.                                          *)
LEMMA SerialWritePacket == SerialIndInv /\ WritePacket => SerialIndInv'
<1> SUFFICES ASSUME SerialIndInv, WritePacket PROVE SerialIndInv'
  OBVIOUS
<1> USE DEF SerialIndInv
<1> DEFINE t == tx[1]
           left == cobs_len(t.frame) - t.at
           n == write_len(left)
           packet == [n |-> t.n, frame |-> t.frame, from |-> t.at, last |-> n = left]
<1>1. /\ tx # <<>>
      /\ tx' = IF n = left THEN <<>> ELSE << [t EXCEPT !.at = @ + n] >>
      /\ IF n < MaxPacket THEN inbox' = Append(inbox \o held, packet) /\ held' = <<>>
         ELSE held' = Append(held, packet) /\ UNCHANGED inbox
      /\ UNCHANGED <<host, open, toHub, cut, reader, commandQ, hubQ, responseQ, lagged, admin,
                     history, bounds>>
  BY DEF WritePacket
<1>2. t \in Transfers /\ DOMAIN tx = {1} /\ Nums(tx) = {t.n} \cap Numbers
      /\ (t.n = Unsolicited => t.frame = RxPacket)
  <2>1. tx \in Seq(Transfers) /\ Len(tx) = 1
    BY <1>1, OneTransfer
  <2> QED BY <2>1 DEF Nums, Unasked, UnaskedIn
<1>3. t.n \in Numbers \cup {Unsolicited} /\ t.frame \in AnswerFrames /\ t.at \in Int
  BY <1>2 DEF Transfers
<1>4. left \in Int
  BY <1>3, AnswerLength
<1>5. n \in Int /\ n < MaxPacket
  <2> HIDE DEF left
  <2> QED BY <1>4, SerialAssumption DEF write_len
<1>6. inbox' = Append(inbox, packet) /\ held' = <<>>
  <2>1. inbox \o held = inbox
    BY DEF QueueTypes
  <2> QED BY <1>1, <1>5, <2>1
<1>7. packet \in Packets /\ packet.n = t.n /\ packet.frame = t.frame /\ (packet.last => n = left)
  <2> HIDE DEF left, n
  <2> QED BY <1>3 DEF Packets
<1>8. /\ tx' \in Seq(Transfers) /\ Len(tx') <= 1 /\ UnaskedIn(tx')
      /\ Nums(tx') \subseteq Nums(tx) /\ (n = left => tx' = <<>>)
      /\ \A k \in DOMAIN tx' : tx'[k].n = t.n
  <2> HIDE DEF left, n
  <2>1. CASE n = left
    BY <1>1, <2>1, NumsEmpty DEF UnaskedIn
  <2>2. CASE n # left
    <3> DEFINE on == [t EXCEPT !.at = @ + n]
    <3>1. on \in Transfers /\ on.n = t.n /\ on.frame = t.frame
      BY <1>2, <1>5 DEF Transfers
    <3> HIDE DEF on
    <3>2. tx' = << on >>
      BY <1>1, <2>2 DEF on
    <3>3. tx' \in Seq(Transfers) /\ Len(tx') = 1 /\ DOMAIN tx' = {1} /\ tx'[1] = on
      BY <3>1, <3>2
    <3>4. Nums(tx') = {t.n} \cap Numbers
      BY <3>1, <3>2, NumsOne
    <3> QED BY <1>2, <2>2, <3>1, <3>3, <3>4 DEF UnaskedIn
  <2> QED BY <2>1, <2>2
<1> HIDE DEF left, n, packet, t
<1>9. /\ inbox' \in Seq(Packets) /\ Nums(inbox') = Nums(inbox) \cup Nums(tx)
      /\ Len(inbox) \in Nat /\ DOMAIN inbox = 1..Len(inbox)
      /\ DOMAIN inbox' = 1..Len(inbox) + 1 /\ inbox'[Len(inbox) + 1] = packet
      /\ \A i \in 1..Len(inbox) : inbox'[i] = inbox[i]
  <2>1. inbox \in Seq(Packets)
    BY DEF QueueTypes
  <2>2. inbox' \in Seq(Packets) /\ Nums(inbox') = Nums(inbox) \cup Nums(tx)
    BY <1>2, <1>6, <1>7, <2>1, NumsAppend
  <2> QED BY <1>6, <1>7, <2>1, <2>2
<1>10. QueueTypes'
  BY <1>1, <1>6, <1>8, <1>9 DEF QueueTypes
<1>11. /\ Nums(hubQ)' = Nums(hubQ) /\ Nums(responseQ)' = Nums(responseQ)
       /\ Nums(commandQ)' = Nums(commandQ) /\ Out' = Out
       /\ Nums(toHub)' = Nums(toHub) /\ Nums(reader)' = Nums(reader)
       /\ Once(toHub)' = Once(toHub) /\ Once(reader)' = Once(reader)
       /\ Once(hubQ)' = Once(hubQ) /\ Once(responseQ)' = Once(responseQ)
       /\ Once(commandQ)' = Once(commandQ)
  <2>1. Out' = Nums(inbox') \cup Nums(tx')
    BY DEF Out
  <2>2. Out' = Out
    BY <1>8, <1>9, <2>1 DEF Out
  <2> QED BY <1>1, <2>2
<1>12. OnePlace' /\ UnderWay' \subseteq UnderWay
  BY <1>11 DEF OnePlace, Disjoint, UnderWay
<1>13. LastIsLast'
  <2> SUFFICES ASSUME NEW i \in 1..Len(inbox) + 1, inbox'[i].last, inbox'[i].n \in Numbers
               PROVE  /\ \A j \in 1..Len(inbox) + 1 : j > i => inbox'[j].n # inbox'[i].n
                      /\ \A k \in DOMAIN tx' : tx'[k].n # inbox'[i].n
    BY <1>9 DEF LastIsLast
  <2>1. CASE i \in 1..Len(inbox)
    <3>1. inbox'[i] = inbox[i] /\ t.n # inbox[i].n
      BY <1>2, <1>9, <2>1 DEF LastIsLast, t
    <3>2. ASSUME NEW j \in 1..Len(inbox) + 1, j > i PROVE inbox'[j].n # inbox'[i].n
      <4>1. CASE j \in 1..Len(inbox)
        BY <1>9, <2>1, <3>1, <3>2, <4>1 DEF LastIsLast
      <4>2. CASE j = Len(inbox) + 1
        BY <1>7, <1>9, <3>1, <4>2
      <4> QED BY <1>9, <4>1, <4>2
    <3> QED BY <1>8, <3>1, <3>2
  <2>2. CASE i = Len(inbox) + 1
    <3>1. tx' = <<>> /\ \A j \in 1..Len(inbox) + 1 : ~(j > i)
      BY <1>7, <1>8, <1>9, <2>2
    <3> QED BY <3>1
  <2> QED BY <1>9, <2>1, <2>2
<1>14. Unasked'
  <2>1. UnaskedIn(inbox')
    <3> SUFFICES ASSUME NEW i \in 1..Len(inbox) + 1, inbox'[i].n = Unsolicited
                 PROVE  inbox'[i].frame = RxPacket
      BY <1>9 DEF UnaskedIn
    <3>1. i \in 1..Len(inbox) \/ i = Len(inbox) + 1
      BY <1>9
    <3> QED BY <1>2, <1>7, <1>9, <3>1 DEF Unasked, UnaskedIn
  <2> QED BY <1>1, <1>8, <2>1 DEF Unasked
<1>15. HostTypes' /\ Kept /\ dropped' = dropped
  BY <1>1 DEF HostTypes, Kept, history, bounds
<1> QED BY <1>10, <1>12, <1>13, <1>14, <1>15, HubSideKeeps DEF HubSide
-----------------------------------------------------------------------------
(* The host's side.                                                        *)

LEMMA LeastNatural ==
  ASSUME NEW T \in SUBSET Nat, T # {}
  PROVE  \E n \in T : \A m \in T : n <= m
<1> DEFINE R == OpToRel(<, Nat)
<1>1. \E x \in T : \A y \in T : ~ (<<y, x>> \in R)
  BY NatLessThanWellFounded, WFMin
<1>2. \A x, y \in Nat : x < y => <<x, y>> \in R
  BY DEF OpToRel
<1> HIDE DEF R
<1>3. PICK n \in T : \A y \in T : ~ (<<y, n>> \in R)
  BY <1>1
<1>4. \A m \in T : n <= m
  <2> TAKE m \in T
  <2>1. ~(m < n)
    BY <1>2, <1>3
  <2> QED BY <2>1
<1> QED BY <1>4

(* The first frame in the buffer ends with a last packet.                  *)
LEMMA FrameEndIsLast ==
  ASSUME QueueTypes, FrameEnds # {}
  PROVE  FrameEnd \in DOMAIN inbox /\ inbox[FrameEnd].last /\ 1 \in DOMAIN inbox
<1>1. inbox \in Seq(Packets)
  BY DEF QueueTypes
<1>2. DOMAIN inbox = 1..Len(inbox) /\ Len(inbox) \in Nat
  BY <1>1
<1>3. FrameEnds \in SUBSET Nat
  BY <1>2 DEF FrameEnds
<1>4. \E i \in FrameEnds : \A j \in FrameEnds : i <= j
  BY <1>3, LeastNatural
<1>5. FrameEnd \in FrameEnds
  BY <1>4 DEF FrameEnd
<1> QED BY <1>2, <1>5 DEF FrameEnds

(* The host has read the first e packets of its buffer.                    *)
Consumed(e) ==
  /\ e \in 0..Len(inbox)
  /\ inbox' \in Seq(Packets) /\ DOMAIN inbox' = 1..Len(inbox) - e
  /\ \A i \in 1..Len(inbox) - e : i + e \in DOMAIN inbox /\ inbox'[i] = inbox[i + e]

LEMMA ConsumedAll == QueueTypes /\ inbox' = <<>> => Consumed(Len(inbox))
<1> SUFFICES ASSUME QueueTypes, inbox' = <<>> PROVE Consumed(Len(inbox))
  OBVIOUS
<1>1. Len(inbox) \in Nat
  BY DEF QueueTypes
<1>2. inbox' \in Seq(Packets) /\ DOMAIN inbox' = 1..0
  OBVIOUS
<1> QED BY <1>1, <1>2 DEF Consumed

LEMMA ConsumedNone == QueueTypes /\ inbox' = inbox => Consumed(0)
<1> SUFFICES ASSUME QueueTypes, inbox' = inbox PROVE Consumed(0)
  OBVIOUS
<1>1. inbox \in Seq(Packets) /\ Len(inbox) \in Nat /\ DOMAIN inbox = 1..Len(inbox)
  BY DEF QueueTypes
<1> QED BY <1>1 DEF Consumed

LEMMA ConsumedFrame ==
  QueueTypes /\ FrameEnds # {} /\ inbox' = SubSeq(inbox, FrameEnd + 1, Len(inbox))
    => Consumed(FrameEnd)
<1> SUFFICES ASSUME QueueTypes, FrameEnds # {},
                    inbox' = SubSeq(inbox, FrameEnd + 1, Len(inbox))
             PROVE  Consumed(FrameEnd)
  OBVIOUS
<1>1. FrameEnd \in DOMAIN inbox
  BY FrameEndIsLast
<1>2. inbox \in Seq(Packets)
  BY DEF QueueTypes
<1>3. Len(inbox) \in Nat /\ DOMAIN inbox = 1..Len(inbox)
  BY <1>2
<1>4. /\ inbox' \in Seq(Packets) /\ DOMAIN inbox' = 1..Len(inbox) - FrameEnd
      /\ \A i \in DOMAIN inbox' : i + FrameEnd \in DOMAIN inbox /\ inbox'[i] = inbox[i + FrameEnd]
  <2>1. PICK e \in DOMAIN inbox : e = FrameEnd
    BY <1>1
  <2> DEFINE rest == SubSeq(inbox, e + 1, Len(inbox))
  <2>2. inbox' = rest
    BY <2>1
  <2>3. /\ rest \in Seq(Packets) /\ DOMAIN rest = 1..Len(inbox) - e
        /\ \A i \in DOMAIN rest : i + e \in DOMAIN inbox /\ rest[i] = inbox[i + e]
    BY <1>2, NumsRest, Zenon
  <2> HIDE DEF rest
  <2>4. /\ inbox' \in Seq(Packets) /\ DOMAIN inbox' = 1..Len(inbox) - e
        /\ \A i \in DOMAIN inbox' : i + e \in DOMAIN inbox /\ inbox'[i] = inbox[i + e]
    BY <2>2, <2>3, Zenon
  <2> QED BY <2>1, <2>4, Zenon
<1> QED BY <1>1, <1>3, <1>4 DEF Consumed

(* What the hub still has of the host's commands, and what is left of them *)
(* when the host has read.                                                 *)
AtHub ==
  Nums(toHub) \cup Nums(reader) \cup Nums(commandQ) \cup Nums(hubQ) \cup Nums(responseQ)
Left == AtHub \cup Nums(inbox') \cup Nums(tx)

(* A step of the host: it reads some of its buffer, and may write a frame  *)
(* with the next number.                                                   *)
Wrote(command) ==
  /\ command \in Commands /\ Current < MaxCommands
  /\ toHub' = Append(toHub, [n |-> Current + 1, frame |-> Wire(command)])
  /\ issued' = Append(issued, command)
WroteNothing == UNCHANGED <<toHub, issued>>

LEMMA HostQueues ==
  ASSUME SerialIndInv, NEW e, Consumed(e),
         WroteNothing \/ \E command \in Commands : Wrote(command),
         UNCHANGED <<held, reader, commandQ, hubQ, responseQ, lagged, tx>>
  PROVE  /\ QueueTypes' /\ OnePlace' /\ LastIsLast' /\ Unasked'
         /\ Left \subseteq UnderWay
         /\ UnderWay' \subseteq IF WroteNothing THEN Left ELSE Left \cup {Current + 1}
<1> USE DEF SerialIndInv
<1>1. /\ inbox \in Seq(Packets) /\ Len(inbox) \in Nat /\ DOMAIN inbox = 1..Len(inbox)
      /\ toHub \in Seq(Requests) /\ Once(toHub) /\ issued \in Seq(Commands)
  BY DEF QueueTypes, OnePlace, HostTypes
<1>2. /\ inbox' \in Seq(Packets) /\ DOMAIN inbox' = 1..Len(inbox) - e /\ e \in 0..Len(inbox)
      /\ \A i \in DOMAIN inbox' : i + e \in DOMAIN inbox /\ inbox'[i] = inbox[i + e]
  BY DEF Consumed
<1>3. Nums(inbox') \subseteq Nums(inbox)
  BY <1>2 DEF Nums
<1>4. UnaskedIn(inbox')
  BY <1>2 DEF Unasked, UnaskedIn
<1>5. LastIsLast'
  <2> SUFFICES ASSUME NEW i \in DOMAIN inbox', inbox'[i].last, inbox'[i].n \in Numbers
               PROVE  /\ \A j \in DOMAIN inbox' : j > i => inbox'[j].n # inbox'[i].n
                      /\ \A k \in DOMAIN tx : tx[k].n # inbox'[i].n
    BY DEF LastIsLast
  <2>1. i + e \in DOMAIN inbox /\ inbox'[i] = inbox[i + e]
    BY <1>2
  <2>2. \A j \in DOMAIN inbox' : j > i => j + e > i + e
    BY <1>1, <1>2
  <2> QED BY <1>2, <2>1, <2>2 DEF LastIsLast
<1>6. CASE WroteNothing
  <2>1. QueueTypes'
    BY <1>2, <1>6 DEF QueueTypes, WroteNothing
  <2>2. /\ Nums(hubQ)' = Nums(hubQ) /\ Nums(responseQ)' = Nums(responseQ)
        /\ Nums(commandQ)' = Nums(commandQ) /\ Out' = Nums(inbox') \cup Nums(tx)
        /\ Nums(toHub)' = Nums(toHub) /\ Nums(reader)' = Nums(reader)
        /\ Once(toHub)' = Once(toHub) /\ Once(reader)' = Once(reader)
        /\ Once(hubQ)' = Once(hubQ) /\ Once(responseQ)' = Once(responseQ)
        /\ Once(commandQ)' = Once(commandQ)
    BY <1>6 DEF Out, WroteNothing
  <2>3. OnePlace'
    BY <1>3, <2>2 DEF OnePlace, Disjoint, Out
  <2>4. UnderWay' = Left /\ Left \subseteq UnderWay
    BY <1>3, <2>2 DEF UnderWay, Left, AtHub, Out
  <2>5. Unasked'
    BY <1>4 DEF Unasked
  <2> QED BY <1>5, <1>6, <2>1, <2>3, <2>4, <2>5
<1>7. ASSUME NEW command \in Commands, Wrote(command)
      PROVE  /\ QueueTypes' /\ OnePlace' /\ LastIsLast' /\ Unasked'
             /\ Left \subseteq UnderWay
             /\ UnderWay' \subseteq Left \cup {Current + 1} /\ ~WroteNothing
  <2> DEFINE m == [n |-> Current + 1, frame |-> Wire(command)]
  <2>1. Current \in Nat /\ Current + 1 \in Numbers /\ issued' # issued
    <3>1. Current \in Nat /\ Current < MaxCommands /\ issued' = Append(issued, command)
      BY <1>1, <1>7 DEF Wrote, Current
    <3>2. Len(issued') = Current + 1
      BY <1>1, <3>1 DEF Current
    <3> QED BY <3>1, <3>2, SerialAssumption DEF Numbers, Current
  <2>2. m \in Requests /\ m.n = Current + 1
    BY <2>1 DEF Requests, Wires
  <2>3. Current + 1 \notin UnderWay
    BY <2>1 DEF Taken
  <2> HIDE DEF m
  <2>4. toHub' = Append(toHub, m)
    BY <1>7 DEF Wrote, m
  <2>5. /\ toHub' \in Seq(Requests) /\ Nums(toHub') = Nums(toHub) \cup {Current + 1}
        /\ Once(toHub')
    <3>1. m.n \notin Nums(toHub)
      BY <2>2, <2>3 DEF UnderWay
    <3> QED BY <1>1, <2>1, <2>2, <2>4, <3>1, NumsAppend
  <2>6. QueueTypes'
    BY <1>2, <2>5 DEF QueueTypes
  <2>7. /\ Nums(hubQ)' = Nums(hubQ) /\ Nums(responseQ)' = Nums(responseQ)
        /\ Nums(commandQ)' = Nums(commandQ) /\ Out' = Nums(inbox') \cup Nums(tx)
        /\ Nums(toHub)' = Nums(toHub') /\ Nums(reader)' = Nums(reader)
        /\ Once(toHub)' = Once(toHub') /\ Once(reader)' = Once(reader)
        /\ Once(hubQ)' = Once(hubQ) /\ Once(responseQ)' = Once(responseQ)
        /\ Once(commandQ)' = Once(commandQ)
    BY DEF Out
  <2>8. OnePlace'
    BY <1>3, <2>3, <2>5, <2>7 DEF OnePlace, Disjoint, Out, UnderWay
  <2>9. UnderWay' \subseteq Left \cup {Current + 1} /\ Left \subseteq UnderWay
    BY <1>3, <2>5, <2>7 DEF UnderWay, Left, AtHub, Out
  <2>10. Unasked' /\ ~WroteNothing
    BY <1>4, <2>1 DEF Unasked, WroteNothing
  <2> QED BY <1>5, <2>6, <2>8, <2>9, <2>10
<1> QED BY <1>6, <1>7
-----------------------------------------------------------------------------
(* The steps of the host.                                                  *)

(* The host's books when no exchange is open any more and S is under way.  *)
Closed(S) ==
  /\ \A n \in Numbers : n > Current => answers'[n] = <<>> /\ n \notin abandoned'
  /\ \A n \in 1..Current : n \in abandoned' \/ answers'[n] # <<>>
  /\ S \subseteq 1..Current
  /\ \A n \in Numbers : answers'[n] # <<>> => answers'[n][1] \notin S
  /\ Cardinality(S) <= Cardinality(abandoned')
  /\ InStep' /\ DropNeedsTimeouts'

(* What is under way is a finite set, and fewer than it are no more.       *)
LEMMA FewerUnderWay ==
  ASSUME HostTypes, NEW S, S \subseteq UnderWay
  PROVE  /\ IsFiniteSet(S) /\ Cardinality(S) \in Nat /\ Cardinality(UnderWay) \in Nat
         /\ Cardinality(S) <= Cardinality(UnderWay) /\ Cardinality(abandoned) \in Nat
         /\ IsFiniteSet(UnderWay) /\ IsFiniteSet(abandoned)
BY UnderWayNumbers, SetsFinite, FS_Subset DEF HostTypes

(* There was no exchange open.                                             *)
LEMMA ClosedIdle ==
  ASSUME SerialIndInv, ~Waiting, NEW S, S \subseteq UnderWay,
         UNCHANGED <<answers, abandoned, dropped>>
  PROVE  Closed(S)
<1> USE DEF SerialIndInv
<1>1. Cardinality(S) <= Cardinality(abandoned)
  BY FewerUnderWay DEF Outstanding
<1>2. InStep' /\ DropNeedsTimeouts'
  BY DEF InStep, DropNeedsTimeouts
<1> QED BY <1>1, <1>2 DEF Closed, Discipline, Taken

(* The exchange is given up.                                               *)
LEMMA ClosedByFailure ==
  ASSUME SerialIndInv, Waiting, NEW S, S \subseteq UnderWay,
         abandoned' = abandoned \cup {Current}, UNCHANGED <<answers, dropped>>
  PROVE  Closed(S) /\ abandoned' \subseteq Numbers
<1> USE DEF SerialIndInv
<1>1. Current \in Numbers
  BY SerialAssumption DEF Discipline, HostTypes, Current, Numbers
<1>2. /\ Cardinality(abandoned') = Cardinality(abandoned) + 1
      /\ Cardinality(S) <= Cardinality(abandoned')
      /\ Cardinality(abandoned') >= Cardinality(abandoned)
  <2>1. Current \notin abandoned /\ Cardinality(UnderWay) <= Cardinality(abandoned) + 1
    BY DEF Discipline, Outstanding
  <2>2. /\ Cardinality(S) \in Nat /\ Cardinality(UnderWay) \in Nat
        /\ Cardinality(S) <= Cardinality(UnderWay) /\ Cardinality(abandoned) \in Nat
        /\ IsFiniteSet(abandoned)
    BY FewerUnderWay
  <2>3. Cardinality(abandoned') = Cardinality(abandoned) + 1
    BY <2>1, <2>2, FS_AddElement
  <2> QED BY <2>1, <2>2, <2>3
<1>3. InStep'
  BY DEF InStep
<1>4. DropNeedsTimeouts'
  <2>1. Cardinality(abandoned) \in Nat
    BY FewerUnderWay
  <2>2. dropped # {} => Cardinality(abandoned) >= HubCap
    BY DEF DropNeedsTimeouts
  <2> QED BY <1>2, <2>1, <2>2, SerialAssumption DEF DropNeedsTimeouts
<1>5. \A n \in Numbers : n > Current => answers'[n] = <<>> /\ n \notin abandoned'
  BY <1>1 DEF Discipline, Numbers
<1>6. \A n \in 1..Current : n \in abandoned' \/ answers'[n] # <<>>
  BY DEF Discipline
<1>7. S \subseteq 1..Current /\ \A n \in Numbers : answers'[n] # <<>> => answers'[n][1] \notin S
  BY DEF Taken
<1> QED BY <1>1, <1>2, <1>3, <1>4, <1>5, <1>6, <1>7 DEF Closed, HostTypes

(* The exchange has its answer: the number of the answer is no more under  *)
(* way.  When it is the number of an earlier command, that one was given   *)
(* up, or had taken the answer of one that was.                            *)
LEMMA ClosedByAnswer ==
  ASSUME SerialIndInv, Waiting, NEW m \in UnderWay, NEW frame \in AnswerFrames,
         NEW S, S \subseteq UnderWay \ {m},
         answers' = [answers EXCEPT ![Current] = << m, frame >>],
         UNCHANGED <<abandoned, dropped>>
  PROVE  Closed(S) /\ answers' \in [Numbers -> {<<>>} \cup Numbers \X AnswerFrames]
<1> USE DEF SerialIndInv
<1>1. /\ Current \in Numbers /\ Current \in Nat /\ Current >= 1
      /\ m \in 1..Current /\ m \in Numbers /\ MaxCommands \in Nat
  BY SerialAssumption, UnderWayNumbers DEF Discipline, HostTypes, Current, Numbers, Taken
<1>2. /\ answers' \in [Numbers -> {<<>>} \cup Numbers \X AnswerFrames]
      /\ answers'[Current] = << m, frame >> /\ answers'[Current][1] = m
      /\ answers'[Current] # <<>>
      /\ \A n \in Numbers : n # Current => answers'[n] = answers[n]
  <2>1. << m, frame >> \in Numbers \X AnswerFrames /\ << m, frame >> # <<>>
    BY <1>1
  <2>2. answers \in [Numbers -> {<<>>} \cup Numbers \X AnswerFrames]
    BY DEF HostTypes
  <2> DEFINE pair == << m, frame >>
  <2>3. pair[1] = m
    OBVIOUS
  <2> HIDE DEF pair
  <2> QED BY <1>1, <2>1, <2>2, <2>3 DEF pair
<1>3. Cardinality(S) <= Cardinality(abandoned)
  <2>1. IsFiniteSet(UnderWay) /\ Cardinality(UnderWay) \in Nat /\ Cardinality(abandoned) \in Nat
    BY FewerUnderWay
  <2>2. IsFiniteSet(UnderWay \ {m}) /\ Cardinality(UnderWay \ {m}) = Cardinality(UnderWay) - 1
    BY <2>1, FS_RemoveElement
  <2>3. Cardinality(S) <= Cardinality(UnderWay \ {m}) /\ Cardinality(S) \in Nat
    BY <2>2, FS_Subset, FS_CardinalityType
  <2> QED BY <2>1, <2>2, <2>3 DEF Outstanding
<1>4. InStep'
  <2> SUFFICES ASSUME NEW n \in Numbers, answers'[n] # <<>>
               PROVE  /\ answers'[n][1] \in 1..n
                      /\ answers'[n][1] # n => \E k \in abandoned : k < n
                      /\ \A k \in Numbers \ {n} :
                           answers'[k] # <<>> => answers'[k][1] # answers'[n][1]
    BY DEF InStep
  <2>1. \A k \in Numbers \ {Current} : answers'[k] # <<>> => answers'[k][1] # m
    BY <1>2 DEF Taken
  <2>2. CASE n = Current
    <3>1. ASSUME m # Current PROVE \E k \in abandoned : k < Current
      <4>1. m \in 1..Current /\ m < Current /\ (m \in abandoned \/ answers[m] # <<>>)
        BY <1>1, <3>1 DEF Discipline
      <4>2. CASE answers[m] # <<>>
        <5>1. answers[m][1] # m
          BY <1>1, <4>2 DEF Taken
        <5>2. PICK k \in abandoned : k < m
          BY <1>1, <4>2, <5>1 DEF InStep
        <5>3. k \in Nat
          BY DEF HostTypes, Numbers
        <5> QED BY <1>1, <4>1, <5>2, <5>3
      <4> QED BY <4>1, <4>2
    <3> QED BY <1>1, <1>2, <2>1, <2>2, <3>1
  <2>3. CASE n # Current
    <3>1. answers'[n] = answers[n]
      BY <1>2, <2>3
    <3>2. /\ answers[n][1] \in 1..n
          /\ answers[n][1] # n => \E k \in abandoned : k < n
          /\ \A k \in Numbers \ {n} : answers[k] # <<>> => answers[k][1] # answers[n][1]
      BY <3>1 DEF InStep
    <3>3. answers[n][1] # m
      BY <2>1, <2>3, <3>1
    <3>4. \A k \in Numbers \ {n} : answers'[k] # <<>> => answers'[k][1] # answers[n][1]
      BY <1>2, <3>2, <3>3
    <3> QED BY <3>1, <3>2, <3>4
  <2> QED BY <2>2, <2>3
<1>5. DropNeedsTimeouts'
  BY DEF DropNeedsTimeouts
<1>6. \A n \in Numbers : n > Current => answers'[n] = <<>> /\ n \notin abandoned'
  BY <1>1, <1>2 DEF Discipline, Numbers
<1>7. \A n \in 1..Current : n \in abandoned' \/ answers'[n] # <<>>
  <2> TAKE n \in 1..Current
  <2>1. n \in Numbers
    BY <1>1 DEF Numbers
  <2>2. CASE n = Current
    BY <1>2, <2>2
  <2>3. CASE n # Current
    BY <1>2, <2>1, <2>3 DEF Discipline
  <2> QED BY <2>2, <2>3
<1>8. S \subseteq 1..Current
  BY DEF Taken
<1>9. \A n \in Numbers : answers'[n] # <<>> => answers'[n][1] \notin S
  <2> TAKE n \in Numbers
  <2> HAVE answers'[n] # <<>>
  <2>1. CASE n = Current
    BY <1>2, <2>1
  <2>2. CASE n # Current
    <3>1. answers'[n] = answers[n]
      BY <1>2, <2>2
    <3> QED BY <3>1 DEF Taken
  <2> QED BY <2>1, <2>2
<1> QED BY <1>2, <1>3, <1>4, <1>5, <1>6, <1>7, <1>8, <1>9 DEF Closed

LEMMA AddOne ==
  ASSUME NEW S, IsFiniteSet(S), NEW x
  PROVE  /\ IsFiniteSet(S \cup {x}) /\ Cardinality(S \cup {x}) \in Nat
         /\ Cardinality(S \cup {x}) <= Cardinality(S) + 1
         /\ x \notin S => Cardinality(S \cup {x}) = Cardinality(S) + 1
<1>1. Cardinality(S) \in Nat
  BY FS_CardinalityType
<1>2. IsFiniteSet(S \cup {x})
  BY FS_AddElement
<1>3. Cardinality(S \cup {x}) \in Nat
  BY <1>2, FS_CardinalityType
<1>4. Cardinality(S \cup {x}) = Cardinality(S) \/ Cardinality(S \cup {x}) = Cardinality(S) + 1
  BY FS_AddElement
<1>5. x \notin S => Cardinality(S \cup {x}) = Cardinality(S) + 1
  BY FS_AddElement
<1> QED BY <1>1, <1>2, <1>3, <1>4, <1>5

(* The host rests after the exchange, or opens the next one.               *)
LEMMA ClosedBooks ==
  ASSUME SerialIndInv, NEW S, S \subseteq Numbers, Closed(S), abandoned' \subseteq Numbers,
         \/ host' = Idle /\ issued' = issued /\ UnderWay' \subseteq S
         \/ /\ \E command \in Commands : Wrote(command)
            /\ \E loop \in BOOLEAN : host' = Host("wait", loop) /\ (loop => GetVersion \in Commands)
            /\ UnderWay' \subseteq S \cup {Current + 1}
  PROVE  Books' /\ host' \in [pc : {"idle", "wait"}, loop : BOOLEAN]
         /\ issued' \in Seq(Commands) /\ Len(issued') <= MaxCommands
<1> USE DEF SerialIndInv
<1>1. /\ issued \in Seq(Commands) /\ Current \in Nat /\ Current <= MaxCommands /\ MaxCommands \in Nat
  BY SerialAssumption DEF HostTypes, Current
<1>2. IsFiniteSet(S) /\ Cardinality(S) \in Nat /\ Cardinality(abandoned') \in Nat
  BY SetsFinite
<1>3. CASE host' = Idle /\ issued' = issued /\ UnderWay' \subseteq S
  <2>1. Current' = Current /\ ~Waiting' /\ host'.loop = FALSE
    BY <1>3 DEF Current, Waiting, Idle, Host
  <2>2. Cardinality(UnderWay') <= Cardinality(S) /\ Cardinality(UnderWay') \in Nat
    BY <1>2, <1>3, FS_Subset, FS_CardinalityType
  <2>3. Outstanding'
    <3>1. Cardinality(UnderWay') <= Cardinality(abandoned')
      BY <1>2, <2>2 DEF Closed
    <3> QED BY <2>1, <3>1, <1>2, <2>2 DEF Outstanding
  <2>4. Discipline'
    BY <2>1 DEF Closed, Discipline
  <2>5. Taken'
    BY <1>3, <2>1 DEF Closed, Taken
  <2>6. /\ issued' \in Seq(Commands) /\ Len(issued') <= MaxCommands
        /\ host' \in [pc : {"idle", "wait"}, loop : BOOLEAN]
    BY <1>1, <1>3 DEF Current, Idle, Host
  <2> QED BY <2>3, <2>4, <2>5, <2>6 DEF Books, Closed
<1>4. ASSUME NEW command \in Commands, Wrote(command), NEW loop \in BOOLEAN,
             host' = Host("wait", loop), loop => GetVersion \in Commands,
             UnderWay' \subseteq S \cup {Current + 1}
      PROVE  Books' /\ host' \in [pc : {"idle", "wait"}, loop : BOOLEAN]
             /\ issued' \in Seq(Commands) /\ Len(issued') <= MaxCommands
  <2>1. /\ Current' = Current + 1 /\ issued' \in Seq(Commands) /\ Len(issued') = Current + 1
        /\ Current + 1 <= MaxCommands /\ Current + 1 \in Numbers
    <3>1. issued' = Append(issued, command) /\ Current < MaxCommands
      BY <1>4 DEF Wrote
    <3>2. issued' \in Seq(Commands) /\ Len(issued') = Current + 1
      BY <1>1, <3>1 DEF Current
    <3> QED BY <1>1, <3>1, <3>2 DEF Current, Numbers
  <2>2. Waiting' /\ host'.loop = loop /\ host' \in [pc : {"idle", "wait"}, loop : BOOLEAN]
    BY <1>4 DEF Waiting, Host
  <2>3. Current + 1 \notin abandoned' /\ answers'[Current + 1] = <<>>
    BY <1>1, <2>1 DEF Closed
  <2>4. Outstanding'
    <3>1. IsFiniteSet(S \cup {Current + 1}) /\ Cardinality(S \cup {Current + 1}) \in Nat
          /\ Cardinality(S \cup {Current + 1}) <= Cardinality(S) + 1
      BY <1>2, AddOne
    <3>2. Cardinality(UnderWay') <= Cardinality(S \cup {Current + 1})
          /\ Cardinality(UnderWay') \in Nat
      BY <1>4, <3>1, FS_Subset, FS_CardinalityType
    <3>3. Cardinality(UnderWay') <= Cardinality(abandoned') + 1
      BY <1>2, <3>1, <3>2 DEF Closed
    <3> QED BY <2>2, <3>3 DEF Outstanding
  <2>5. Discipline'
    <3>1. \A n \in Numbers : n > Current + 1 => n > Current
      BY <1>1 DEF Numbers
    <3>2. \A n \in 1..Current + 1 : n \in 1..Current \/ n = Current + 1
      BY <1>1
    <3>3. Current' >= 1
      BY <1>1, <2>1
    <3> QED BY <1>4, <2>1, <2>2, <2>3, <3>1, <3>2, <3>3 DEF Closed, Discipline
  <2>6. Taken'
    <3>1. 1..Current \cup {Current + 1} \subseteq 1..Current + 1
      BY <1>1
    <3>2. ASSUME NEW n \in Numbers, answers'[n] # <<>>
          PROVE  answers'[n][1] \notin UnderWay'
      <4>1. n \in Nat /\ n <= Current
        BY <1>1, <3>2 DEF Closed, Numbers
      <4>2. answers'[n][1] \in 1..n
        BY <3>2 DEF Closed, InStep
      <4>3. answers'[n][1] # Current + 1
        BY <1>1, <4>1, <4>2
      <4>4. answers'[n][1] \notin S
        BY <3>2 DEF Closed
      <4> QED BY <1>4, <4>3, <4>4
    <3>3. UnderWay' \subseteq 1..Current + 1
      BY <1>4, <3>1 DEF Closed
    <3> QED BY <2>1, <3>2, <3>3 DEF Taken
  <2>7. Len(issued') <= MaxCommands
    BY <1>1, <2>1
  <2> QED BY <2>1, <2>2, <2>4, <2>5, <2>6, <2>7 DEF Books, Closed
<1> QED BY <1>3, <1>4
(* The host reads, and may write, and the hub does nothing.                *)
HubRests == UNCHANGED <<held, cut, reader, commandQ, hubQ, responseQ, lagged, tx, admin, dropped>>

(* The end of an exchange: the host rests, or opens the next one.          *)
Ends ==
  \/ host' = Idle /\ WroteNothing
  \/ \E command \in Commands : Wrote(command) /\
       \E loop \in BOOLEAN : host' = Host("wait", loop) /\ (loop => GetVersion \in Commands)

LEMMA HostCloses ==
  ASSUME SerialIndInv, NEW e, Consumed(e), HubRests, Ends, Closed(Left),
         answers' \in [Numbers -> {<<>>} \cup Numbers \X AnswerFrames], abandoned' \subseteq Numbers,
         open' \in BOOLEAN,
         early' \in 0..MaxEarly, noise' \in 0..MaxNoise, breaks' \in 0..MaxBreaks
  PROVE  SerialIndInv'
<1>1. /\ QueueTypes' /\ OnePlace' /\ LastIsLast' /\ Unasked'
      /\ Left \subseteq UnderWay
      /\ UnderWay' \subseteq IF WroteNothing THEN Left ELSE Left \cup {Current + 1}
  BY HostQueues DEF HubRests, Ends
<1>2. PICK S : S = Left
  OBVIOUS
<1>3. S \subseteq Numbers /\ Closed(S) /\ (WroteNothing => UnderWay' \subseteq S)
      /\ UnderWay' \subseteq S \cup {Current + 1}
  BY <1>1, <1>2, UnderWayNumbers
<1>4. \/ host' = Idle /\ issued' = issued /\ UnderWay' \subseteq S
      \/ /\ \E command \in Commands : Wrote(command)
         /\ \E loop \in BOOLEAN : host' = Host("wait", loop) /\ (loop => GetVersion \in Commands)
         /\ UnderWay' \subseteq S \cup {Current + 1}
  BY <1>3 DEF Ends, WroteNothing
<1>5. /\ Books' /\ host' \in [pc : {"idle", "wait"}, loop : BOOLEAN]
      /\ issued' \in Seq(Commands) /\ Len(issued') <= MaxCommands
  BY <1>3, <1>4, ClosedBooks
<1>6. HostTypes'
  BY <1>5 DEF HostTypes, HubRests, SerialIndInv
<1> QED BY <1>1, <1>5, <1>6 DEF SerialIndInv, Books

(* The host reads, and nothing of its exchange changes.                    *)
LEMMA HostOnlyReads ==
  ASSUME SerialIndInv, NEW e, Consumed(e), HubRests, WroteNothing,
         UNCHANGED <<host, answers, abandoned>>, open' \in BOOLEAN,
         early' \in 0..MaxEarly, noise' \in 0..MaxNoise, breaks' \in 0..MaxBreaks
  PROVE  SerialIndInv'
<1>1. HubSide
  BY HostQueues DEF HubRests, HubSide, WroteNothing
<1>2. Kept /\ HostTypes' /\ dropped' = dropped
  BY DEF Kept, HostTypes, HubRests, WroteNothing, SerialIndInv
<1> QED BY <1>1, <1>2, HubSideKeeps

(* What Left needs for the books.                                          *)
LEMMA LeftUnderWay ==
  ASSUME SerialIndInv, NEW e, Consumed(e)
  PROVE  Left \subseteq UnderWay
<1>1. inbox \in Seq(Packets) /\ DOMAIN inbox' = 1..Len(inbox) - e
      /\ \A i \in 1..Len(inbox) - e : i + e \in DOMAIN inbox /\ inbox'[i] = inbox[i + e]
  BY DEF SerialIndInv, QueueTypes, Consumed
<1>2. Nums(inbox') \subseteq Nums(inbox)
  BY <1>1 DEF Nums
<1> QED BY <1>2 DEF Left, AtHub, UnderWay, Out

LEMMA SerialSend ==
  SerialIndInv /\ (\E command \in Commands : Send(command)) => SerialIndInv'
<1> SUFFICES ASSUME SerialIndInv, NEW command \in Commands, Send(command)
             PROVE  SerialIndInv'
  OBVIOUS
<1>1. /\ host = Idle /\ Write(command, FALSE)
      /\ UNCHANGED <<open, held, inbox, hub, answers, abandoned, dropped, bounds>>
  BY DEF Send
<1>2. Ends
  BY <1>1 DEF Ends, Write, Wrote
<1>3. Consumed(0)
  BY <1>1, ConsumedNone DEF SerialIndInv
<1>4. Closed(Left)
  BY <1>1, <1>3, ClosedIdle, LeftUnderWay DEF Waiting, Idle, Host
<1> QED BY <1>1, <1>2, <1>3, <1>4, HostCloses DEF SerialIndInv, HostTypes, HubRests, hub, bounds

LEMMA SerialStartVersion == SerialIndInv /\ StartVersion => SerialIndInv'
<1> SUFFICES ASSUME SerialIndInv, StartVersion PROVE SerialIndInv'
  OBVIOUS
<1>1. /\ host = Idle /\ GetVersion \in Commands /\ Write(GetVersion, TRUE) /\ inbox' = <<>>
      /\ UNCHANGED <<open, held, hub, answers, abandoned, dropped, bounds>>
  BY DEF StartVersion
<1>2. Ends
  BY <1>1 DEF Ends, Write, Wrote
<1>3. Consumed(Len(inbox))
  BY <1>1, ConsumedAll DEF SerialIndInv
<1>4. Closed(Left)
  BY <1>1, <1>3, ClosedIdle, LeftUnderWay DEF Waiting, Idle, Host
<1> QED BY <1>1, <1>2, <1>3, <1>4, HostCloses DEF SerialIndInv, HostTypes, HubRests, hub, bounds

(* A call of the host fails.                                               *)
LEMMA HostFails ==
  ASSUME SerialIndInv, Waiting, Fail, HubRests, UNCHANGED <<open, answers>>,
         early' \in 0..MaxEarly, noise' \in 0..MaxNoise, breaks' \in 0..MaxBreaks
  PROVE  SerialIndInv'
<1>1. /\ inbox' = <<>> /\ abandoned' = abandoned \cup {Current}
      /\ \/ host' = Idle /\ UNCHANGED <<issued, toHub>>
         \/ host.loop /\ Write(GetVersion, TRUE)
  BY DEF Fail
<1>2. Ends
  BY <1>1 DEF Ends, Write, Wrote, WroteNothing, SerialIndInv, Discipline
<1>3. Consumed(Len(inbox))
  BY <1>1, ConsumedAll DEF SerialIndInv
<1>4. Closed(Left) /\ abandoned' \subseteq Numbers
  BY <1>1, <1>3, ClosedByFailure, LeftUnderWay DEF HubRests
<1> QED BY <1>2, <1>3, <1>4, HostCloses DEF SerialIndInv, HostTypes

LEMMA SerialTimeouts == SerialIndInv /\ (TimeoutLost \/ TimeoutEarly) => SerialIndInv'
<1>1. SerialIndInv /\ TimeoutLost => SerialIndInv'
  BY HostFails DEF TimeoutLost, Waiting, HubRests, hub, bounds, SerialIndInv, HostTypes
<1>2. SerialIndInv /\ TimeoutEarly => SerialIndInv'
  <2> SUFFICES ASSUME SerialIndInv, TimeoutEarly PROVE SerialIndInv'
    OBVIOUS
  <2>1. early' \in 0..MaxEarly /\ noise' \in 0..MaxNoise /\ breaks' \in 0..MaxBreaks
    BY SerialAssumption DEF TimeoutEarly, SerialIndInv, HostTypes
  <2> QED BY <2>1, HostFails DEF TimeoutEarly, Waiting, HubRests, hub
<1> QED BY <1>1, <1>2

LEMMA SerialPoll == SerialIndInv /\ Poll => SerialIndInv'
<1> SUFFICES ASSUME SerialIndInv, Poll PROVE SerialIndInv'
  OBVIOUS
<1>1. /\ FrameEnds # {} /\ inbox' = SubSeq(inbox, FrameEnd + 1, Len(inbox))
      /\ UNCHANGED <<host, open, toHub, held, hub, history, bounds>>
  BY DEF Poll
<1>2. Consumed(FrameEnd)
  BY <1>1, ConsumedFrame DEF SerialIndInv
<1> QED BY <1>1, <1>2, HostOnlyReads
        DEF HubRests, WroteNothing, hub, history, bounds, SerialIndInv, HostTypes

LEMMA SerialClose == SerialIndInv /\ Close => SerialIndInv'
<1> SUFFICES ASSUME SerialIndInv, Close PROVE SerialIndInv'
  OBVIOUS
<1>1. /\ inbox' = <<>> /\ held' = <<>> /\ open' = FALSE
      /\ UNCHANGED <<host, toHub, hub, history, early, noise>>
  BY DEF Close
<1>2. Consumed(Len(inbox)) /\ held' = held
  BY <1>1, ConsumedAll DEF SerialIndInv, QueueTypes
<1>3. early' \in 0..MaxEarly /\ noise' \in 0..MaxNoise /\ breaks' \in 0..MaxBreaks
  BY SerialAssumption DEF Close, SerialIndInv, HostTypes
<1> QED BY <1>1, <1>2, <1>3, HostOnlyReads DEF HubRests, WroteNothing, hub, history

LEMMA SerialOpen == SerialIndInv /\ Open => SerialIndInv'
<1> SUFFICES ASSUME SerialIndInv, Open PROVE SerialIndInv'
  OBVIOUS
<1>1. open' = TRUE /\ UNCHANGED <<host, toHub, held, inbox, hub, history, bounds>>
  BY DEF Open
<1>2. Consumed(0)
  BY <1>1, ConsumedNone DEF SerialIndInv
<1> QED BY <1>1, <1>2, HostOnlyReads
        DEF HubRests, WroteNothing, hub, history, bounds, SerialIndInv, HostTypes
(* A reboot is sent and given up at once.                                  *)
LEMMA SerialSendReboot == SerialIndInv /\ SendReboot => SerialIndInv'
<1> SUFFICES ASSUME SerialIndInv, SendReboot PROVE SerialIndInv'
  OBVIOUS
<1> USE DEF SerialIndInv
<1>1. /\ host = Idle /\ Reboot \in Commands /\ Current < MaxCommands /\ Wrote(Reboot)
      /\ abandoned' = abandoned \cup {Current + 1}
      /\ UNCHANGED <<host, open, held, inbox, hub, answers, dropped, bounds>>
  BY DEF SendReboot, Wrote
<1>2. /\ Current \in Nat /\ MaxCommands \in Nat /\ Current + 1 \in Numbers /\ issued \in Seq(Commands)
      /\ issued' = Append(issued, Reboot) /\ ~Waiting
  BY <1>1, SerialAssumption DEF HostTypes, Current, Numbers, Wrote, Waiting, Idle, Host
<1>3. /\ Current' = Current + 1 /\ issued' \in Seq(Commands) /\ Len(issued') = Current + 1
      /\ ~Waiting' /\ host'.loop = FALSE
  BY <1>1, <1>2 DEF Current, Waiting, Idle, Host
<1>4. Consumed(0)
  BY <1>1, ConsumedNone
<1>5. /\ QueueTypes' /\ OnePlace' /\ LastIsLast' /\ Unasked'
      /\ UnderWay' \subseteq UnderWay \cup {Current + 1}
  BY <1>1, <1>4, HostQueues DEF hub
<1>6. /\ Current + 1 \notin abandoned /\ abandoned' \subseteq Numbers
      /\ Cardinality(abandoned') = Cardinality(abandoned) + 1
      /\ Cardinality(abandoned) \in Nat /\ Cardinality(UnderWay) <= Cardinality(abandoned)
      /\ Cardinality(UnderWay) \in Nat /\ IsFiniteSet(UnderWay)
  <2>1. Current + 1 > Current
    BY <1>2
  <2>2. Current + 1 \notin abandoned /\ abandoned' \subseteq Numbers
    BY <1>1, <1>2, <2>1 DEF Discipline, HostTypes
  <2>3. IsFiniteSet(abandoned) /\ Cardinality(abandoned) \in Nat
    BY SetsFinite DEF HostTypes
  <2>4. Cardinality(abandoned \cup {Current + 1}) = Cardinality(abandoned) + 1
    BY <2>2, <2>3, AddOne
  <2>5. Cardinality(UnderWay) <= Cardinality(abandoned) + 0
    BY <1>2 DEF Outstanding
  <2> QED BY <1>1, <2>2, <2>3, <2>4, <2>5, UnderWayNumbers, SetsFinite
<1>7. Outstanding'
  <2>1. IsFiniteSet(UnderWay \cup {Current + 1}) /\ Cardinality(UnderWay \cup {Current + 1}) \in Nat
        /\ Cardinality(UnderWay \cup {Current + 1}) <= Cardinality(UnderWay) + 1
    BY <1>6, AddOne
  <2>2. /\ Cardinality(UnderWay') <= Cardinality(UnderWay \cup {Current + 1})
        /\ Cardinality(UnderWay') \in Nat
    BY <1>5, <2>1, FS_Subset, FS_CardinalityType
  <2>3. Cardinality(UnderWay') <= Cardinality(abandoned') + 0
    BY <1>6, <2>1, <2>2
  <2> QED BY <1>3, <2>3 DEF Outstanding
<1>8. Discipline'
  <2>1. \A n \in Numbers : n > Current + 1 => n > Current /\ n # Current + 1
    BY <1>2 DEF Numbers
  <2>2. \A n \in 1..Current + 1 : n \in 1..Current \/ n = Current + 1
    BY <1>2
  <2> QED BY <1>1, <1>2, <1>3, <2>1, <2>2 DEF Discipline
<1>9. Taken'
  <2>1. 1..Current \cup {Current + 1} \subseteq 1..Current + 1
    BY <1>2
  <2>2. ASSUME NEW n \in Numbers, answers[n] # <<>>
        PROVE  answers[n][1] \notin UnderWay'
    <3>1. n \in Nat /\ ~(n > Current)
      BY <2>2 DEF Discipline, Numbers
    <3>2. answers[n][1] \in 1..n /\ answers[n][1] \notin UnderWay
      BY <2>2 DEF InStep, Taken
    <3>3. answers[n][1] # Current + 1
      BY <1>2, <3>1, <3>2
    <3> QED BY <1>5, <3>2, <3>3
  <2> QED BY <1>1, <1>3, <1>5, <2>1, <2>2 DEF Taken
<1>10. InStep'
  BY <1>1 DEF InStep
<1>11. DropNeedsTimeouts'
  BY <1>1, <1>6, SerialAssumption DEF DropNeedsTimeouts
<1>12. HostTypes'
  <2>1. Len(issued') <= MaxCommands
    BY <1>1, <1>2, <1>3
  <2> QED BY <1>1, <1>3, <1>6, <2>1 DEF HostTypes, hub, bounds
<1> QED BY <1>5, <1>7, <1>8, <1>9, <1>10, <1>11, <1>12

(* The frame the host reads carries the number of a command, unless it is  *)
(* an RxPacket; nothing of it is left when it has been read.               *)
LEMMA AnswerTaken ==
  ASSUME SerialIndInv, FrameEnds # {}, Whole, inbox[1].frame # RxPacket,
         inbox' = SubSeq(inbox, FrameEnd + 1, Len(inbox))
  PROVE  /\ inbox[1].n \in UnderWay /\ inbox[1].frame \in AnswerFrames
         /\ Left \subseteq UnderWay \ {inbox[1].n}
<1> USE DEF SerialIndInv
<1> DEFINE m == inbox[1].n
<1>1. FrameEnd \in DOMAIN inbox /\ inbox[FrameEnd].last
  BY FrameEndIsLast DEF FrameEnds
<1>2. inbox \in Seq(Packets) /\ Len(inbox) \in Nat /\ DOMAIN inbox = 1..Len(inbox)
  BY DEF QueueTypes
<1>3. 1 \in DOMAIN inbox /\ FrameEnd \in 1..FrameEnd /\ FrameEnd \in Nat
  BY <1>1, <1>2
<1>4. inbox[1] \in Packets /\ inbox[FrameEnd].n = m
  BY <1>2, <1>3 DEF Whole
<1>5. m \in Numbers /\ inbox[1].frame \in AnswerFrames
  BY <1>3, <1>4 DEF Packets, Unasked, UnaskedIn
<1>6. m \in Nums(inbox)
  BY <1>3, <1>5 DEF Nums
<1>7. m \notin Nums(inbox')
  <2>1. Consumed(FrameEnd)
    BY ConsumedFrame
  <2>2. \A i \in DOMAIN inbox' : i + FrameEnd \in DOMAIN inbox /\ inbox'[i] = inbox[i + FrameEnd]
                                 /\ i + FrameEnd > FrameEnd
    BY <1>2, <1>3, <2>1 DEF Consumed
  <2>3. \A j \in DOMAIN inbox : j > FrameEnd => inbox[j].n # m
    BY <1>1, <1>4, <1>5 DEF LastIsLast
  <2> QED BY <2>2, <2>3 DEF Nums
<1>8. m \notin Nums(tx)
  BY <1>1, <1>4, <1>5 DEF LastIsLast, Nums
<1>9. m \notin AtHub
  BY <1>6 DEF OnePlace, Disjoint, Out, AtHub
<1>10. Left \subseteq UnderWay
  BY ConsumedFrame, LeftUnderWay
<1> QED BY <1>5, <1>6, <1>7, <1>8, <1>9, <1>10 DEF Left, UnderWay, Out

LEMMA SerialReadAnswer == SerialIndInv /\ ReadAnswer => SerialIndInv'
<1> SUFFICES ASSUME SerialIndInv, ReadAnswer PROVE SerialIndInv'
  OBVIOUS
<1> DEFINE rest == SubSeq(inbox, FrameEnd + 1, Len(inbox))
           frame == inbox[1].frame
<1>1. /\ Waiting /\ FrameEnds # {} /\ HubRests /\ UNCHANGED <<open, bounds>>
      /\ \/ ~Whole /\ Fail /\ UNCHANGED answers
         \/ /\ Whole /\ frame = RxPacket
            /\ inbox' = rest
            /\ UNCHANGED <<host, issued, toHub, answers, abandoned>>
         \/ /\ Whole /\ frame # RxPacket
            /\ inbox' = rest
            /\ answers' = [answers EXCEPT ![Current] = << inbox[1].n, frame >>]
            /\ \/ ~(host.loop /\ frame # Version) /\ host' = Idle /\ UNCHANGED <<issued, toHub>>
               \/ host.loop /\ frame # Version /\ Write(GetVersion, TRUE)
               \/ host.loop /\ frame # Version /\ host' = Idle /\ UNCHANGED <<issued, toHub>>
            /\ UNCHANGED abandoned
  BY DEF ReadAnswer, Waiting, HubRests, hub
<1>2. /\ open' \in BOOLEAN
      /\ early' \in 0..MaxEarly /\ noise' \in 0..MaxNoise /\ breaks' \in 0..MaxBreaks
  BY <1>1 DEF SerialIndInv, HostTypes, bounds
<1>3. CASE ~Whole /\ Fail /\ UNCHANGED answers
  BY <1>1, <1>2, <1>3, HostFails
<1>4. CASE Whole /\ inbox' = rest
  <2>1. Consumed(FrameEnd)
    BY <1>1, <1>4, ConsumedFrame DEF SerialIndInv
  <2>2. CASE UNCHANGED <<host, issued, toHub, answers, abandoned>>
    BY <1>1, <1>2, <2>1, <2>2, HostOnlyReads DEF WroteNothing
  <2>3. CASE /\ frame # RxPacket
             /\ answers' = [answers EXCEPT ![Current] = << inbox[1].n, frame >>]
             /\ \/ host' = Idle /\ UNCHANGED <<issued, toHub>>
                \/ host.loop /\ Write(GetVersion, TRUE)
             /\ UNCHANGED abandoned
    <3>1. /\ inbox[1].n \in UnderWay /\ frame \in AnswerFrames
          /\ Left \subseteq UnderWay \ {inbox[1].n}
      BY <1>1, <1>4, <2>3, AnswerTaken
    <3>2. Closed(Left) /\ answers' \in [Numbers -> {<<>>} \cup Numbers \X AnswerFrames]
      BY <1>1, <2>3, <3>1, ClosedByAnswer DEF HubRests
    <3>3. Ends
      BY <2>3 DEF Ends, Write, Wrote, WroteNothing, SerialIndInv, Discipline
    <3>4. abandoned' \subseteq Numbers
      BY <2>3 DEF SerialIndInv, HostTypes
    <3> QED BY <1>1, <1>2, <2>1, <3>2, <3>3, <3>4, HostCloses
  <2> QED BY <1>1, <1>4, <2>2, <2>3
<1> QED BY <1>1, <1>3, <1>4

-----------------------------------------------------------------------------
(* The cable, and the whole.                                               *)

(* The connection is lost, and with it whatever was under way on the cable *)
(* or, when the hub starts again, in its queues.                           *)
LEMMA HostDisconnects ==
  ASSUME SerialIndInv, Disconnect, tx' = <<>>, cut' \in BOOLEAN, admin' \in BOOLEAN,
         UNCHANGED <<issued, answers, dropped, early, noise>>, breaks' \in 0..MaxBreaks,
         \/ UNCHANGED <<reader, commandQ, hubQ, responseQ, lagged>>
         \/ /\ reader' = <<>> /\ commandQ' = <<>> /\ hubQ' = <<>> /\ responseQ' = <<>>
            /\ lagged' = 0
  PROVE  SerialIndInv'
<1> USE DEF SerialIndInv
<1>1. /\ open' = FALSE /\ toHub' = <<>> /\ held' = <<>> /\ inbox' = <<>> /\ host' = Idle
      /\ abandoned' = IF Waiting THEN abandoned \cup {Current} ELSE abandoned
  BY DEF Disconnect, Waiting
<1>2. Nums(<<>>) = {} /\ Once(<<>>) /\ DOMAIN <<>> = {} /\ Len(<<>>) = 0 /\ \A S : <<>> \in Seq(S)
  BY NumsEmpty
<1>3. /\ QueueTypes' /\ OnePlace' /\ LastIsLast' /\ Unasked' /\ UnderWay' \subseteq UnderWay
  <2>1. CASE UNCHANGED <<reader, commandQ, hubQ, responseQ, lagged>>
    <3>1. QueueTypes'
      BY <1>1, <1>2, <2>1 DEF QueueTypes
    <3>2. /\ Nums(hubQ)' = Nums(hubQ) /\ Nums(responseQ)' = Nums(responseQ)
          /\ Nums(commandQ)' = Nums(commandQ) /\ Out' = {}
          /\ Nums(toHub)' = {} /\ Nums(reader)' = Nums(reader)
          /\ Once(toHub)' /\ Once(reader)' = Once(reader)
          /\ Once(hubQ)' = Once(hubQ) /\ Once(responseQ)' = Once(responseQ)
          /\ Once(commandQ)' = Once(commandQ)
      BY <1>1, <1>2, <2>1 DEF Out
    <3>3. OnePlace' /\ UnderWay' \subseteq UnderWay
      BY <3>2 DEF OnePlace, Disjoint, UnderWay
    <3>4. LastIsLast' /\ Unasked'
      BY <1>1, <1>2, <2>1 DEF LastIsLast, Unasked, UnaskedIn
    <3> QED BY <3>1, <3>3, <3>4
  <2>2. CASE /\ reader' = <<>> /\ commandQ' = <<>> /\ hubQ' = <<>> /\ responseQ' = <<>>
             /\ lagged' = 0
    <3>1. QueueTypes'
      BY <1>1, <1>2, <2>2, SerialAssumption DEF QueueTypes
    <3>2. /\ Nums(hubQ)' = {} /\ Nums(responseQ)' = {} /\ Nums(commandQ)' = {} /\ Out' = {}
          /\ Nums(toHub)' = {} /\ Nums(reader)' = {}
          /\ Once(toHub)' /\ Once(reader)' /\ Once(hubQ)' /\ Once(responseQ)' /\ Once(commandQ)'
      BY <1>1, <1>2, <2>2 DEF Out
    <3>3. OnePlace' /\ UnderWay' \subseteq UnderWay
      BY <3>2 DEF OnePlace, Disjoint, UnderWay
    <3>4. LastIsLast' /\ Unasked'
      BY <1>1, <1>2, <2>2 DEF LastIsLast, Unasked, UnaskedIn
    <3> QED BY <3>1, <3>3, <3>4
  <2> QED BY <2>1, <2>2
<1>4. PICK S : S = UnderWay
  OBVIOUS
<1>5. Closed(S) /\ abandoned' \subseteq Numbers
  <2>1. CASE Waiting
    BY <1>1, <1>4, <2>1, ClosedByFailure
  <2>2. CASE ~Waiting
    BY <1>1, <1>4, <2>2, ClosedIdle DEF HostTypes
  <2> QED BY <2>1, <2>2
<1>6. /\ Books' /\ host' \in [pc : {"idle", "wait"}, loop : BOOLEAN]
      /\ issued' \in Seq(Commands) /\ Len(issued') <= MaxCommands
  <2>1. S \subseteq Numbers
    BY <1>4, UnderWayNumbers
  <2> QED BY <1>1, <1>3, <1>4, <1>5, <2>1, ClosedBooks
<1>7. HostTypes'
  BY <1>1, <1>5, <1>6 DEF HostTypes
<1> QED BY <1>3, <1>6, <1>7 DEF Books

LEMMA SerialBusReset == SerialIndInv /\ BusReset => SerialIndInv'
<1> SUFFICES ASSUME SerialIndInv, BusReset PROVE SerialIndInv'
  OBVIOUS
<1>1. cut' \in BOOLEAN /\ admin' \in BOOLEAN /\ breaks' \in 0..MaxBreaks
  <2>1. cut' \in BOOLEAN /\ admin' \in BOOLEAN
    BY DEF BusReset, SerialIndInv, HostTypes
  <2>2. breaks \in 0..MaxBreaks /\ breaks < MaxBreaks /\ breaks' = breaks + 1 /\ MaxBreaks \in Nat
    BY SerialAssumption DEF BusReset, SerialIndInv, HostTypes
  <2> QED BY <2>1, <2>2
<1> QED BY <1>1, HostDisconnects DEF BusReset

LEMMA SerialHubReboots == SerialIndInv /\ HubReboots => SerialIndInv'
<1> SUFFICES ASSUME SerialIndInv, HubReboots PROVE SerialIndInv'
  OBVIOUS
<1>1. cut' \in BOOLEAN /\ admin' \in BOOLEAN /\ breaks' \in 0..MaxBreaks
  BY DEF HubReboots, SerialIndInv, HostTypes, bounds
<1> QED BY <1>1, HostDisconnects DEF HubReboots, bounds

LEMMA SerialStutter == SerialIndInv /\ UNCHANGED vars => SerialIndInv'
<1> SUFFICES ASSUME SerialIndInv, UNCHANGED vars PROVE SerialIndInv'
  OBVIOUS
<1>1. Consumed(0)
  BY ConsumedNone DEF SerialIndInv, vars, link
<1> QED BY <1>1, HostOnlyReads
        DEF HubRests, WroteNothing, vars, link, hub, history, bounds, SerialIndInv, HostTypes

LEMMA SerialInit == Init => SerialIndInv
<1> SUFFICES ASSUME Init PROVE SerialIndInv
  OBVIOUS
<1>1. Nums(<<>>) = {} /\ Once(<<>>) /\ DOMAIN <<>> = {} /\ Len(<<>>) = 0 /\ \A S : <<>> \in Seq(S)
  BY NumsEmpty
<1>2. QueueTypes
  BY <1>1, SerialAssumption DEF Init, QueueTypes
<1>3. Current = 0 /\ ~Waiting /\ UnderWay = {} /\ Out = {}
  BY <1>1 DEF Init, Current, Waiting, UnderWay, Out, Idle, Host
<1>4. HostTypes
  <2>1. answers \in [Numbers -> {<<>>} \cup Numbers \X AnswerFrames]
    BY DEF Init
  <2>2. issued \in Seq(Commands) /\ Len(issued) = 0
    BY <1>1 DEF Init
  <2>3. 0 <= MaxCommands /\ 0 \in 0..MaxEarly /\ 0 \in 0..MaxNoise /\ 0 \in 0..MaxBreaks
    BY SerialAssumption
  <2> QED BY <2>1, <2>2, <2>3 DEF Init, HostTypes, Idle, Host
<1>5. Discipline
  BY <1>3 DEF Init, Discipline, Idle, Host
<1>6. OnePlace /\ LastIsLast /\ Unasked
  BY <1>1, <1>3 DEF Init, OnePlace, Disjoint, LastIsLast, Unasked, UnaskedIn
<1>7. Taken /\ InStep /\ DropNeedsTimeouts
  BY <1>3 DEF Init, Taken, InStep, DropNeedsTimeouts
<1>8. Outstanding
  BY <1>3, FS_EmptySet DEF Init, Outstanding
<1> QED BY <1>2, <1>4, <1>5, <1>6, <1>7, <1>8 DEF SerialIndInv

LEMMA SerialInvariant == Spec => []SerialIndInv
<1>1. SerialIndInv /\ [Next]_vars => SerialIndInv'
  BY SerialReadFrame, SerialSendCommand, SerialHandleCommand, SerialHubCtrl, SerialReceive,
     SerialWifiCommand, SerialNextMessage, SerialWritePacket, SerialSend, SerialSendReboot,
     SerialStartVersion, SerialReadAnswer, SerialTimeouts, SerialPoll, SerialClose, SerialOpen,
     SerialBusReset, SerialHubReboots, SerialStutter
  DEF Next, HubStep
<1> QED BY <1>1, SerialInit, PTL DEF Spec

(* The queues of the hub keep to their capacities, the host's driver holds *)
(* nothing back of a frame that write_all has written, and the hub drops   *)
(* a command unseen only when as many exchanges were given up as           *)
(* HUB_CHANNEL is long.                                                    *)
THEOREM Serial_Correct == Spec => []SerialInv
<1>1. SerialIndInv => SerialInv
  BY DEF SerialIndInv, SerialInv, TypeOK, Flushed, QueueTypes, HostTypes
<1> QED BY <1>1, SerialInvariant, PTL

(* What DeviceClient takes for an answer is an answer to a command of this *)
(* host, taken once, and to the very command unless an earlier exchange    *)
(* was given up.                                                           *)
THEOREM In_Step == Spec => []InStep
<1>1. SerialIndInv => InStep
  BY DEF SerialIndInv
<1> QED BY <1>1, SerialInvariant, PTL
-----------------------------------------------------------------------------
(* What the two sides read, if the codec reads what it wrote.              *)

Elems(q) == {q[i] : i \in DOMAIN q}

(* What each place holds is what the host meant by the command with that   *)
(* number, or what the hub can answer to it.                               *)
Written(x) == x.n \in 1..Current /\ x.frame = Wire(issued[x.n])
Meant(x) == x.n # ForWifi => x.n \in 1..Current /\ x.command = issued[x.n]
Answered(n, frame) ==
  /\ n \in 1..Current
  /\ issued[n].id \in DOMAIN HubCommandId /\ frame.id # 255 =>
       parse_response(frame) \in {Parsed(response) : response \in Answers(issued[n])}
Fits(x) == x.n \in Numbers => Answered(x.n, x.frame)

ForLora == Elems(reader) \cup Elems(commandQ)
ForHost == Elems(responseQ) \cup Elems(tx) \cup Elems(inbox)
Carried ==
  /\ \A x \in Elems(toHub) : Written(x)
  /\ \A x \in ForLora : Meant(x) /\ x.command.id \in DOMAIN StockId
  /\ \A x \in Elems(hubQ) : Meant(x)
  /\ \A x \in ForHost : Fits(x)
  /\ \A n \in Numbers : answers[n] # <<>> =>
       \E m \in Numbers, frame \in AnswerFrames :
         answers[n] = << m, frame >> /\ Answered(m, frame)

LEMMA ElemsEmpty == Elems(<<>>) = {}
BY DEF Elems

LEMMA ElemsOne == \A m : Elems(<< m >>) = {m}
BY DEF Elems

LEMMA ElemsAppend ==
  ASSUME NEW S, NEW q \in Seq(S), NEW m \in S
  PROVE  Elems(Append(q, m)) = Elems(q) \cup {m}
<1> DEFINE more == Append(q, m)
<1>1. /\ Len(q) \in Nat /\ DOMAIN q = 1..Len(q) /\ DOMAIN more = 1..Len(q) + 1
      /\ more[Len(q) + 1] = m /\ \A i \in 1..Len(q) : more[i] = q[i]
  OBVIOUS
<1>2. 1..Len(q) + 1 = 1..Len(q) \cup {Len(q) + 1}
  BY <1>1
<1> HIDE DEF more
<1>3. Elems(more) = Elems(q) \cup {m}
  BY <1>1, <1>2 DEF Elems
<1> QED BY <1>3 DEF more

LEMMA ElemsTail ==
  ASSUME NEW S, NEW q \in Seq(S), q # <<>>
  PROVE  Elems(Tail(q)) \subseteq Elems(q) /\ Head(q) \in Elems(q)
<1>1. /\ DOMAIN q = 1..Len(q) /\ DOMAIN Tail(q) = 1..Len(q) - 1 /\ Len(q) \in Nat \ {0}
      /\ Head(q) = q[1] /\ 1 \in DOMAIN q
      /\ \A i \in 1..Len(q) - 1 : Tail(q)[i] = q[i + 1] /\ i + 1 \in 1..Len(q)
  OBVIOUS
<1> QED BY <1>1 DEF Elems

(* What was sent stays what it was.                                        *)
Sends == issued' = issued \/ \E command \in Commands : issued' = Append(issued, command)

LEMMA SentStays ==
  ASSUME HostTypes, Sends, NEW n \in 1..Current
  PROVE  n \in 1..Current' /\ issued'[n] = issued[n]
<1>1. issued \in Seq(Commands) /\ Current \in Nat /\ Current = Len(issued)
  BY DEF HostTypes, Current
<1>2. CASE issued' = issued
  BY <1>1, <1>2 DEF Current
<1>3. ASSUME NEW command \in Commands, issued' = Append(issued, command)
      PROVE  n \in 1..Current' /\ issued'[n] = issued[n]
  <2>1. Len(issued') = Current + 1 /\ issued'[n] = issued[n]
    BY <1>1, <1>3
  <2>2. Current' = Current + 1
    BY <2>1 DEF Current
  <2> QED BY <1>1, <2>1, <2>2
<1> QED BY <1>2, <1>3 DEF Sends

(* A step that puts something new only where it belongs.                   *)
LEMMA CarriedMove ==
  ASSUME HostTypes, Carried, Sends,
         \A x \in Elems(toHub') : x \in Elems(toHub) \/ Written(x)',
         \A x \in Elems(reader') \cup Elems(commandQ') :
           x \in ForLora \/ (Meant(x) /\ x.command.id \in DOMAIN StockId),
         \A x \in Elems(hubQ') : x \in Elems(hubQ) \/ Meant(x),
         \A x \in Elems(responseQ') \cup Elems(tx') \cup Elems(inbox') :
           Fits(x) \/ \E y \in ForHost : x.n = y.n /\ x.frame = y.frame,
         \A n \in Numbers : answers'[n] # <<>> =>
           \/ answers'[n] = answers[n]
           \/ \E y \in ForHost : /\ y.n \in Numbers /\ y.frame \in AnswerFrames
                                 /\ answers'[n] = << y.n, y.frame >>
  PROVE  Carried'
<1>1. ASSUME NEW x, Written(x) PROVE Written(x)'
  <2>1. x.n \in 1..Current' /\ issued'[x.n] = issued[x.n]
    BY <1>1, SentStays DEF Written
  <2> QED BY <1>1, <2>1 DEF Written
<1>2. ASSUME NEW x, Meant(x) PROVE Meant(x)'
  <2>1. CASE x.n = ForWifi
    BY <2>1 DEF Meant
  <2>2. CASE x.n # ForWifi
    <3>1. x.n \in 1..Current' /\ issued'[x.n] = issued[x.n]
      BY <1>2, <2>2, SentStays DEF Meant
    <3> QED BY <1>2, <3>1 DEF Meant
  <2> QED BY <2>1, <2>2
<1>3. ASSUME NEW n, NEW frame, Answered(n, frame) PROVE Answered(n, frame)'
  <2>1. n \in 1..Current' /\ issued'[n] = issued[n]
    BY <1>3, SentStays DEF Answered
  <2> QED BY <1>3, <2>1 DEF Answered
<1>4. ASSUME NEW x, Fits(x) PROVE Fits(x)'
  BY <1>3, <1>4 DEF Fits
<1>5. \A x \in Elems(toHub') : Written(x)'
  BY <1>1 DEF Carried
<1>6. \A x \in ForLora' : Meant(x)' /\ x.command.id \in DOMAIN StockId
  <2>1. ForLora' = Elems(reader') \cup Elems(commandQ')
    BY DEF ForLora, Elems
  <2> QED BY <1>2, <2>1 DEF Carried
<1>7. \A x \in Elems(hubQ') : Meant(x)'
  BY <1>2 DEF Carried
<1>8. \A x \in ForHost' : Fits(x)'
  <2> TAKE x \in ForHost'
  <2>3. ForHost' = Elems(responseQ') \cup Elems(tx') \cup Elems(inbox')
    BY DEF ForHost, Elems
  <2>1. CASE Fits(x)
    BY <1>4, <2>1
  <2>2. ASSUME NEW y \in ForHost, x.n = y.n, x.frame = y.frame PROVE Fits(x)'
    <3>1. Fits(x)
      BY <2>2 DEF Carried, Fits
    <3> QED BY <1>4, <3>1
  <2> QED BY <2>1, <2>2, <2>3
<1>9. ASSUME NEW n \in Numbers, answers'[n] # <<>>
      PROVE  \E m \in Numbers, frame \in AnswerFrames :
               answers'[n] = << m, frame >> /\ Answered(m, frame)'
  <2>1. CASE answers'[n] = answers[n]
    <3>1. PICK m \in Numbers, frame \in AnswerFrames :
            answers[n] = << m, frame >> /\ Answered(m, frame)
      BY <1>9, <2>1 DEF Carried
    <3> QED BY <1>3, <2>1, <3>1
  <2>2. ASSUME NEW y \in ForHost, y.n \in Numbers, y.frame \in AnswerFrames,
               answers'[n] = << y.n, y.frame >>
        PROVE  \E m \in Numbers, frame \in AnswerFrames :
                 answers'[n] = << m, frame >> /\ Answered(m, frame)'
    <3>1. Answered(y.n, y.frame)
      BY <2>2 DEF Carried, Fits
    <3>2. Answered(y.n, y.frame)'
      BY <1>3, <3>1
    <3> QED BY <2>2, <3>2
  <2> QED BY <1>9, <2>1, <2>2
<1>10. /\ Elems(toHub)' = Elems(toHub') /\ Elems(hubQ)' = Elems(hubQ')
  BY DEF Elems
<1> QED BY <1>5, <1>6, <1>7, <1>8, <1>9, <1>10 DEF Carried
(* A frame as the host writes it carries the right checksum.               *)
LEMMA WireRaw == \A c : \E id, payload : Wire(c) = build_raw(id, payload)
<1> TAKE c
<1>1. CASE c.id = "Raw"
  BY <1>1 DEF Wire, StockId
<1>2. CASE c.id \in DOMAIN StockId /\ c.id # "Raw"
  BY <1>2 DEF Wire, wt_frame
<1>3. CASE c.id \notin DOMAIN StockId /\ c.id # "Raw"
  BY <1>3 DEF Wire, encode_command
<1> QED BY <1>1, <1>2, <1>3

(* A frame with a wrong checksum reaches no task.                          *)
LEMMA DamagedFails ==
  ASSUME NEW c, NEW frame, frame = [Wire(c) EXCEPT !.crc = FALSE]
  PROVE  process_frame(frame).stage = "error"
<1>1. PICK id, payload : Wire(c) = build_raw(id, payload)
  BY WireRaw
<1>2. ~frame.crc /\ frame.version = PROTOCOL_VERSION
  BY <1>1 DEF build_raw
<1>3. parse_raw(frame) \in {"TooShort", "CrcError"}
  BY <1>2 DEF parse_raw
<1>4. wt_parse_command(frame) = [status |-> parse_raw(frame)]
  BY <1>3 DEF wt_parse_command, Refused
<1>5. wt_parse_command(frame).status \in {"TooShort", "CrcError"}
  <2>1. \A status : [status |-> status].status = status
    OBVIOUS
  <2> QED BY <1>3, <1>4, <2>1, Zenon
<1> QED BY <1>5 DEF process_frame

(* A frame as it was written is read as the parsers read it.               *)
LEMMA UndamagedIsWire ==
  ASSUME NEW c
  PROVE  [Wire(c) EXCEPT !.crc = TRUE] = Wire(c)
<1>1. PICK id, payload : Wire(c) = build_raw(id, payload)
  BY WireRaw
<1>2. PICK w : w = [version |-> PROTOCOL_VERSION, id |-> id, length |-> Len(payload),
                    payload |-> payload, crc |-> TRUE]
  OBVIOUS
<1>3. w.crc = TRUE /\ w = [x \in DOMAIN w |-> w[x]]
  BY <1>2
<1>4. [w EXCEPT !.crc = TRUE] = w
  BY <1>3
<1> QED BY <1>1, <1>2, <1>4 DEF build_raw

(* What the reader hands to lora_task is a stock command.                  *)
LEMMA StockIsStock ==
  ASSUME NEW frame, process_frame(frame).stage = "stock"
  PROVE  process_frame(frame).command.id \in DOMAIN StockId
<1> DEFINE stock == wt_parse_command(frame)
           id == CHOOSE c \in DOMAIN StockId : StockId[c] = frame.id
<1>1. stock.status = "Success" /\ process_frame(frame).command = stock.command
  <2> HIDE DEF stock
  <2>1. process_frame(frame) =
          IF stock.status = "Success" THEN [stage |-> "stock", command |-> stock.command]
          ELSE IF stock.status # "InvalidCommand"
          THEN [stage |-> "error", answer |-> Error(stock.status, frame.id)]
          ELSE IF parse_command(frame).status = "Success"
          THEN [stage |-> "hub", command |-> parse_command(frame).command]
          ELSE [stage |-> "error", answer |-> Error(parse_command(frame).status, frame.id)]
    BY DEF process_frame, stock
  <2> QED BY <2>1
<1>2. stock = IF parse_raw(frame) # "None" THEN Refused(parse_raw(frame))
              ELSE IF frame.id \notin {StockId[c] : c \in DOMAIN StockId}
              THEN Refused("InvalidCommand")
              ELSE Parsed(Command(id, frame.payload))
  BY DEF wt_parse_command
<1>3. parse_raw(frame) # "Success"
  BY DEF parse_raw
<1>4. \E c \in DOMAIN StockId : StockId[c] = frame.id
  <2> HIDE DEF stock, id
  <2> QED BY <1>1, <1>2, <1>3 DEF Refused
<1>5. id \in DOMAIN StockId
  BY <1>4
<1>6. stock.command.id = id
  <2> HIDE DEF stock, id
  <2>1. stock = Parsed(Command(id, frame.payload))
    BY <1>1, <1>2, <1>3 DEF Refused
  <2> QED BY <2>1 DEF Parsed, Command
<1> QED BY <1>1, <1>5, <1>6

(* The two protocols have no command in common.                            *)
LEMMA TwoProtocols == DOMAIN StockId \cap DOMAIN HubCommandId = {}
BY DEF StockId, HubCommandId
LEMMA PublishedElems ==
  ASSUME QueueTypes, NEW m \in Replies, publish_immediate(m)
  PROVE  Elems(responseQ') \subseteq Elems(responseQ) \cup {m}
<1>1. responseQ \in Seq(Replies) /\ Len(responseQ) \in Nat /\ ResponseCap \in Nat \ {0}
  BY SerialAssumption DEF QueueTypes
<1>2. CASE Len(responseQ) < ResponseCap
  BY <1>1, <1>2, ElemsAppend DEF publish_immediate
<1>3. CASE ~(Len(responseQ) < ResponseCap)
  <2> DEFINE rest == Tail(responseQ)
  <2>1. responseQ' = Append(rest, m) /\ responseQ # <<>>
    BY <1>1, <1>3 DEF publish_immediate
  <2>2. Elems(rest) \subseteq Elems(responseQ) /\ rest \in Seq(Replies)
    BY <1>1, <2>1, ElemsTail
  <2> HIDE DEF rest
  <2> QED BY <2>1, <2>2, ElemsAppend
<1> QED BY <1>2, <1>3

(* serial_reader_task hands on what the host meant, or answers with an     *)
(* error.                                                                  *)
LEMMA CarriedReadFrame == CodecAgrees /\ SerialIndInv /\ Carried /\ ReadFrame => Carried'
<1> SUFFICES ASSUME CodecAgrees, SerialIndInv, Carried, ReadFrame PROVE Carried'
  OBVIOUS
<1> USE DEF SerialIndInv
<1> DEFINE n == Head(toHub).n
           frame == [Head(toHub).frame EXCEPT !.crc = ~cut]
           result == Result[frame]
<1>1. /\ toHub # <<>> /\ toHub' = Tail(toHub)
      /\ UNCHANGED <<inbox, commandQ, tx, issued, answers>>
      /\ \/ Route(n, result)
         \/ UNCHANGED <<reader, hubQ, responseQ>>
  BY DEF ReadFrame
<1>2. Elems(toHub') \subseteq Elems(toHub) /\ Head(toHub) \in Elems(toHub) /\ Head(toHub) \in Requests
  BY <1>1, ElemsTail, NumsTail DEF QueueTypes
<1>3. n \in 1..Current /\ Head(toHub).frame = Wire(issued[n]) /\ n \in Numbers
  BY <1>2 DEF Carried, Written, Requests
<1>4. issued[n] \in Commands
  BY <1>3 DEF HostTypes, Current
<1>5. frame \in Frames /\ result = process_frame(frame)
  <2>1. (~cut) \in BOOLEAN
    OBVIOUS
  <2>2. frame \in Frames
    <3>1. \A good \in BOOLEAN : [Wire(issued[n]) EXCEPT !.crc = good] \in Frames
      BY <1>4 DEF Frames
    <3> QED BY <1>3, <2>1, <3>1
  <2> HIDE DEF frame
  <2> QED BY <2>2 DEF Result
<1>6. result.stage # "error" => result.command = issued[n]
  <2>1. CASE cut = TRUE
    <3>1. frame = [Wire(issued[n]) EXCEPT !.crc = FALSE]
      BY <1>3, <2>1
    <3> HIDE DEF frame
    <3> QED BY <1>5, <3>1, DamagedFails
  <2>2. CASE cut = FALSE
    <3>1. frame = Wire(issued[n])
      BY <1>3, <2>2, UndamagedIsWire
    <3> HIDE DEF frame
    <3> QED BY <1>4, <1>5, <3>1 DEF CodecAgrees
  <2> QED BY <2>1, <2>2 DEF HostTypes
<1>7. result.stage = "stock" => result.command.id \in DOMAIN StockId
  BY <1>5, StockIsStock
<1>8. result.stage = "error" => result.answer \in AnswerFrames /\ result.answer.id = 255
  <2> HAVE result.stage = "error"
  <2>1. frame \in Failed
    BY <1>5 DEF Failed
  <2> HIDE DEF frame
  <2>2. PICK status, id : result.answer = Error(status, id)
    BY <2>1, FailedAnswer
  <2> QED BY <2>1, <2>2 DEF AnswerFrames, Error, build_raw
<1> HIDE DEF n, frame, result
<1>9. /\ \A x \in Elems(reader') \cup Elems(commandQ') :
           x \in ForLora \/ (Meant(x) /\ x.command.id \in DOMAIN StockId)
      /\ \A x \in Elems(hubQ') : x \in Elems(hubQ) \/ Meant(x)
      /\ \A x \in Elems(responseQ') : x \in Elems(responseQ) \/ Fits(x)
  <2>1. CASE /\ result.stage = "stock"
             /\ reader' = << [n |-> n, command |-> result.command] >>
             /\ UNCHANGED <<hubQ, responseQ>>
    <3>1. Elems(reader') = {[n |-> n, command |-> result.command]}
      BY <2>1, ElemsOne
    <3> QED BY <1>1, <1>3, <1>6, <1>7, <2>1, <3>1 DEF ForLora, Meant
  <2>2. CASE /\ result.stage = "hub"
             /\ hubQ' = Append(hubQ, [n |-> n, command |-> result.command])
             /\ UNCHANGED <<reader, responseQ>>
    <3> DEFINE m == [n |-> n, command |-> result.command]
    <3>1. result.command \in ReadCommands
      BY <1>5, <2>2, RoutedRead DEF result
    <3>2. m \in Readings(Numbers) /\ hubQ \in Seq(Readings(Numbers))
      BY <1>3, <3>1 DEF Readings, QueueTypes
    <3>3. Meant(m)
      BY <1>3, <1>6, <2>2 DEF Meant
    <3> HIDE DEF m
    <3>4. Elems(hubQ') = Elems(hubQ) \cup {m}
      BY <2>2, <3>2, ElemsAppend DEF m
    <3> QED BY <1>1, <2>2, <3>3, <3>4 DEF ForLora
  <2>3. CASE /\ result.stage = "error"
             /\ publish_immediate(Message(n, result.answer)) /\ UNCHANGED <<reader, hubQ>>
    <3> DEFINE m == Message(n, result.answer)
    <3>1. m \in Replies /\ Fits(m)
      BY <1>3, <1>8, <2>3 DEF Message, Replies, Fits, Answered
    <3> HIDE DEF m
    <3>2. Elems(responseQ') \subseteq Elems(responseQ) \cup {m}
      BY <2>3, <3>1, PublishedElems DEF m
    <3> QED BY <1>1, <2>3, <3>1, <3>2 DEF ForLora
  <2>4. CASE UNCHANGED <<reader, hubQ, responseQ>>
    BY <1>1, <2>4 DEF ForLora
  <2> QED BY <1>1, <2>1, <2>2, <2>3, <2>4 DEF Route
<1>10. \A x \in Elems(responseQ') \cup Elems(tx') \cup Elems(inbox') :
         Fits(x) \/ \E y \in ForHost : x.n = y.n /\ x.frame = y.frame
  BY <1>1, <1>9 DEF ForHost
<1> QED BY <1>1, <1>2, <1>9, <1>10, CarriedMove DEF Sends

(* The tasks answer what they were asked.                                  *)
LEMMA CarriedPublished ==
  ASSUME SerialIndInv, Carried, NEW m \in Replies, publish_immediate(m), Fits(m),
         UNCHANGED <<toHub, reader, inbox, tx, issued, answers>>,
         Elems(commandQ') \subseteq Elems(commandQ), Elems(hubQ') \subseteq Elems(hubQ)
  PROVE  Carried'
<1>1. Elems(responseQ') \subseteq Elems(responseQ) \cup {m}
  BY PublishedElems DEF SerialIndInv
<1> QED BY <1>1, CarriedMove DEF SerialIndInv, Sends, ForLora, ForHost
LEMMA CarriedHandleCommand == SerialIndInv /\ Carried /\ HandleCommand => Carried'
<1> SUFFICES ASSUME SerialIndInv, Carried, HandleCommand PROVE Carried'
  OBVIOUS
<1> USE DEF SerialIndInv
<1> DEFINE h == Head(commandQ)
           m == Message(h.n, IF h.command.id = "GetVersion" THEN Version ELSE TxComplete)
<1>1. /\ commandQ # <<>> /\ commandQ' = Tail(commandQ)
      /\ UNCHANGED <<toHub, inbox, reader, hubQ, tx, issued, answers>>
      /\ UNCHANGED responseQ \/ publish_immediate(m)
  BY DEF HandleCommand, link
<1>2. /\ h \in Elems(commandQ) /\ Elems(commandQ') \subseteq Elems(commandQ)
      /\ h \in Readings(Numbers \cup {ForWifi})
  BY <1>1, ElemsTail, NumsTail DEF QueueTypes
<1>3. CASE UNCHANGED responseQ
  BY <1>1, <1>2, <1>3, CarriedMove DEF Sends, ForLora, ForHost
<1>4. CASE publish_immediate(m)
  <2>1. h.n \in Numbers \cup {ForWifi} /\ Meant(h) /\ h.command.id \in DOMAIN StockId
    BY <1>2 DEF Carried, ForLora, Readings
  <2>2. m \in Replies /\ m.n = h.n
    BY <2>1 DEF Message, Replies, AnswerFrames
  <2> HIDE DEF m, h
  <2>3. Fits(m)
    BY <2>1, <2>2, TwoProtocols, OwnNumbers DEF Fits, Meant, Answered
  <2> QED BY <1>1, <1>2, <1>4, <2>2, <2>3, CarriedPublished
<1> QED BY <1>1, <1>3, <1>4

LEMMA CarriedHubCtrl == CodecAgrees /\ SerialIndInv /\ Carried /\ HubCtrl => Carried'
<1> SUFFICES ASSUME CodecAgrees, SerialIndInv, Carried, HubCtrl PROVE Carried'
  OBVIOUS
<1> USE DEF SerialIndInv
<1> DEFINE h == Head(hubQ)
<1>1. /\ hubQ # <<>> /\ hubQ' = Tail(hubQ)
      /\ UNCHANGED <<toHub, inbox, reader, commandQ, tx, issued, answers>>
  BY DEF HubCtrl, link
<1>2. PICK response \in Answers(h.command) :
        publish_immediate(Message(h.n, encode_response(response)))
  BY DEF HubCtrl
<1>3. /\ h \in Elems(hubQ) /\ Elems(hubQ') \subseteq Elems(hubQ) /\ h \in Readings(Numbers)
  BY <1>1, ElemsTail, NumsTail DEF QueueTypes
<1> HIDE DEF h
<1>4. h.n \in Numbers /\ h.command \in ReadCommands /\ Meant(h)
  BY <1>3 DEF Carried, Readings
<1> DEFINE m == Message(h.n, encode_response(response))
<1>5. m \in Replies /\ m.n = h.n /\ m.frame = encode_response(response)
  BY <1>4 DEF Message, Replies, AnswerFrames
<1>6. h.n \in 1..Current /\ h.command = issued[h.n] /\ issued[h.n] \in Commands
  BY <1>4, OwnNumbers DEF Meant, HostTypes, Current
<1> HIDE DEF m
<1>7. Fits(m)
  BY <1>5, <1>6 DEF Fits, Answered, CodecAgrees
<1>8. publish_immediate(m)
  BY <1>2 DEF m
<1> QED BY <1>1, <1>3, <1>5, <1>7, <1>8, CarriedPublished

LEMMA CarriedNoise == SerialIndInv /\ Carried /\ (Receive \/ WifiCommand) => Carried'
<1> SUFFICES ASSUME SerialIndInv, Carried, Receive \/ WifiCommand PROVE Carried'
  OBVIOUS
<1> USE DEF SerialIndInv
<1>1. CASE Receive
  <2> DEFINE m == Message(Unsolicited, RxPacket)
  <2>1. m \in Replies /\ Fits(m)
    BY OwnNumbers DEF Message, Replies, AnswerFrames, Fits
  <2> HIDE DEF m
  <2>2. publish_immediate(m)
    BY <1>1 DEF Receive, m
  <2> QED BY <1>1, <2>1, <2>2, CarriedPublished DEF Receive, link, history
<1>2. CASE WifiCommand
  <2> DEFINE m == [n |-> ForWifi, command |-> Command("LoraTx", <<>>)]
  <2>1. m \in Readings(Numbers \cup {ForWifi})
    BY DEF Readings, ReadCommands
  <2>2. Meant(m) /\ m.command.id \in DOMAIN StockId
    BY DEF Meant, Command, StockId
  <2> HIDE DEF m
  <2>3. Elems(commandQ') = Elems(commandQ) \cup {m}
    BY <1>2, <2>1, ElemsAppend DEF WifiCommand, QueueTypes, m
  <2>4. UNCHANGED <<toHub, inbox, reader, hubQ, responseQ, tx, issued, answers>>
    BY <1>2 DEF WifiCommand, link, history
  <2> QED BY <2>2, <2>3, <2>4, CarriedMove DEF Sends, ForLora, ForHost
<1> QED BY <1>1, <1>2

LEMMA CarriedSendCommand == SerialIndInv /\ Carried /\ SendCommand => Carried'
<1> SUFFICES ASSUME SerialIndInv, Carried, SendCommand PROVE Carried'
  OBVIOUS
<1> USE DEF SerialIndInv
<1>1. /\ reader # <<>> /\ commandQ' = Append(commandQ, Head(reader)) /\ reader' = <<>>
      /\ UNCHANGED <<toHub, inbox, hubQ, responseQ, tx, issued, answers>>
  BY DEF SendCommand, link, history
<1>2. Head(reader) \in Elems(reader) /\ Head(reader) \in Readings(Numbers)
  BY <1>1, ElemsTail, NumsTail DEF QueueTypes
<1>3. Head(reader) \in Readings(Numbers \cup {ForWifi})
  BY <1>2 DEF Readings
<1>4. Elems(commandQ') = Elems(commandQ) \cup {Head(reader)} /\ Elems(reader') = {}
  BY <1>1, <1>3, ElemsAppend, ElemsEmpty DEF QueueTypes
<1> QED BY <1>1, <1>2, <1>4, CarriedMove DEF Sends, ForLora, ForHost

(* The writer passes frames on as they are.                                *)
LEMMA CarriedNextMessage == SerialIndInv /\ Carried /\ NextMessage => Carried'
<1> SUFFICES ASSUME SerialIndInv, Carried, NextMessage PROVE Carried'
  OBVIOUS
<1> USE DEF SerialIndInv
<1>1. UNCHANGED <<toHub, inbox, reader, commandQ, hubQ, issued, answers>>
  BY DEF NextMessage, link, history
<1>2. /\ Elems(responseQ') \subseteq Elems(responseQ)
      /\ \A x \in Elems(tx') : x \in Elems(tx) \/
           \E y \in Elems(responseQ) : x.n = y.n /\ x.frame = y.frame
  <2>1. CASE UNCHANGED <<responseQ, tx>>
    BY <2>1
  <2>2. CASE /\ responseQ # <<>> /\ responseQ' = Tail(responseQ)
             /\ tx' = <<>> \/ tx' = << Sending(Head(responseQ)) >>
    <3>1. Elems(responseQ') \subseteq Elems(responseQ) /\ Head(responseQ) \in Elems(responseQ)
      BY <2>2, ElemsTail DEF QueueTypes
    <3>2. Elems(tx') \subseteq {Sending(Head(responseQ))}
      BY <2>2, ElemsEmpty, ElemsOne
    <3> QED BY <3>1, <3>2 DEF Sending
  <2> QED BY <2>1, <2>2 DEF NextMessage
<1> QED BY <1>1, <1>2, CarriedMove DEF Sends, ForLora, ForHost

LEMMA CarriedWritePacket == SerialIndInv /\ Carried /\ WritePacket => Carried'
<1> SUFFICES ASSUME SerialIndInv, Carried, WritePacket PROVE Carried'
  OBVIOUS
<1> DEFINE t == tx[1]
           left == cobs_len(t.frame) - t.at
           n == write_len(left)
           packet == [n |-> t.n, frame |-> t.frame, from |-> t.at, last |-> n = left]
<1>1. /\ tx # <<>>
      /\ tx' = IF n = left THEN <<>> ELSE << [t EXCEPT !.at = @ + n] >>
      /\ IF n < MaxPacket THEN inbox' = Append(inbox \o held, packet) /\ held' = <<>>
         ELSE held' = Append(held, packet) /\ UNCHANGED inbox
      /\ UNCHANGED <<toHub, reader, commandQ, hubQ, responseQ, issued, answers>>
  BY DEF WritePacket, history
<1>2. t \in Transfers /\ t \in Elems(tx)
  <2>1. tx \in Seq(Transfers) /\ Len(tx) = 1
    BY <1>1, OneTransfer DEF SerialIndInv
  <2> QED BY <2>1 DEF Elems
<1>3. left \in Int
  BY <1>2, AnswerLength DEF Transfers
<1>4. n < MaxPacket
  <2> HIDE DEF left
  <2> QED BY <1>3, SerialAssumption DEF write_len
<1>5. packet \in Packets /\ packet.n = t.n /\ packet.frame = t.frame
  <2> HIDE DEF left, n
  <2> QED BY <1>2 DEF Packets, Transfers
<1>6. \A x \in Elems(tx') : x.n = t.n /\ x.frame = t.frame
  <2> DEFINE on == [t EXCEPT !.at = @ + n]
  <2>1. on.n = t.n /\ on.frame = t.frame
    BY <1>2 DEF Transfers
  <2> HIDE DEF on
  <2>2. Elems(tx') \subseteq {on}
    BY <1>1, ElemsEmpty, ElemsOne DEF on
  <2> QED BY <2>1, <2>2
<1>7. inbox' = Append(inbox, packet)
  <2>1. inbox \o held = inbox
    BY DEF SerialIndInv, QueueTypes
  <2> QED BY <1>1, <1>4, <2>1
<1> HIDE DEF packet, t
<1>8. Elems(inbox') = Elems(inbox) \cup {packet}
  BY <1>5, <1>7, ElemsAppend DEF SerialIndInv, QueueTypes
<1>9. \A x \in Elems(responseQ') \cup Elems(tx') \cup Elems(inbox') :
        Fits(x) \/ \E y \in ForHost : x.n = y.n /\ x.frame = y.frame
  BY <1>1, <1>2, <1>5, <1>6, <1>8 DEF ForHost
<1> QED BY <1>1, <1>9, CarriedMove DEF SerialIndInv, Sends, ForLora
(* The host writes what it means.                                          *)
LEMMA HostCarries ==
  ASSUME SerialIndInv, Carried, NEW e, Consumed(e),
         WroteNothing \/ \E command \in Commands : Wrote(command),
         UNCHANGED <<reader, commandQ, hubQ, responseQ, tx>>,
         \A n \in Numbers : answers'[n] # <<>> =>
           \/ answers'[n] = answers[n]
           \/ \E y \in ForHost : /\ y.n \in Numbers /\ y.frame \in AnswerFrames
                                 /\ answers'[n] = << y.n, y.frame >>
  PROVE  Carried'
<1> USE DEF SerialIndInv
<1>1. Elems(inbox') \subseteq Elems(inbox)
  BY DEF QueueTypes, Consumed, Elems
<1>2. Sends /\ \A x \in Elems(toHub') : x \in Elems(toHub) \/ Written(x)'
  <2>1. CASE WroteNothing
    BY <2>1 DEF WroteNothing, Sends
  <2>2. ASSUME NEW command \in Commands, Wrote(command)
        PROVE  Sends /\ \A x \in Elems(toHub') : x \in Elems(toHub) \/ Written(x)'
    <3> DEFINE m == [n |-> Current + 1, frame |-> Wire(command)]
    <3>1. /\ issued' = Append(issued, command) /\ issued \in Seq(Commands) /\ Current = Len(issued)
          /\ Current < MaxCommands /\ Current \in Nat
      BY <2>2 DEF Wrote, HostTypes, Current
    <3>2. issued'[Current + 1] = command /\ Len(issued') = Current + 1
      BY <3>1
    <3>3. Current + 1 \in 1..Current' /\ Current + 1 \in Numbers
      BY <3>1, <3>2, SerialAssumption DEF Current, Numbers
    <3>4. m \in Requests
      BY <3>3 DEF Requests, Wires
    <3>5. Elems(toHub') = Elems(toHub) \cup {m}
      <4>1. toHub' = Append(toHub, m) /\ toHub \in Seq(Requests)
        BY <2>2 DEF Wrote, QueueTypes
      <4> HIDE DEF m
      <4> QED BY <3>4, <4>1, ElemsAppend
    <3>6. PICK k : k = Current + 1
      OBVIOUS
    <3>7. m.n = k /\ m.frame = Wire(command) /\ k \in 1..Current' /\ issued'[k] = command
      BY <3>2, <3>3, <3>6
    <3>8. PICK x : x = m
      OBVIOUS
    <3>9. x.n = k /\ x.frame = Wire(command)
      BY <3>7, <3>8
    <3>10. Written(x)'
      BY <3>7, <3>9 DEF Written
    <3> QED BY <3>1, <3>5, <3>8, <3>10 DEF Sends
  <2> QED BY <2>1, <2>2
<1> QED BY <1>1, <1>2, CarriedMove DEF ForLora, ForHost

LEMMA CarriedSends ==
  /\ SerialIndInv /\ Carried
  /\ (\E command \in Commands : Send(command)) \/ SendReboot \/ StartVersion
  => Carried'
<1> SUFFICES ASSUME SerialIndInv, Carried,
                    (\E command \in Commands : Send(command)) \/ SendReboot \/ StartVersion
             PROVE  Carried'
  OBVIOUS
<1>1. \E command \in Commands : Wrote(command)
  BY DEF Send, SendReboot, StartVersion, Write, Wrote
<1>2. UNCHANGED <<reader, commandQ, hubQ, responseQ, tx, answers>>
  BY DEF Send, SendReboot, StartVersion, hub
<1>3. \E e : Consumed(e)
  <2>1. inbox' = inbox \/ inbox' = <<>>
    BY DEF Send, SendReboot, StartVersion
  <2> QED BY <2>1, ConsumedAll, ConsumedNone DEF SerialIndInv
<1> QED BY <1>1, <1>2, <1>3, HostCarries

LEMMA CarriedFails ==
  ASSUME SerialIndInv, Carried, Fail, UNCHANGED <<reader, commandQ, hubQ, responseQ, tx, answers>>
  PROVE  Carried'
<1>1. WroteNothing \/ \E command \in Commands : Wrote(command)
  BY DEF Fail, WroteNothing, Write, Wrote, SerialIndInv, Discipline
<1>2. Consumed(Len(inbox))
  BY ConsumedAll DEF Fail, SerialIndInv
<1> QED BY <1>1, <1>2, HostCarries

LEMMA CarriedReadAnswer == SerialIndInv /\ Carried /\ ReadAnswer => Carried'
<1> SUFFICES ASSUME SerialIndInv, Carried, ReadAnswer PROVE Carried'
  OBVIOUS
<1> DEFINE rest == SubSeq(inbox, FrameEnd + 1, Len(inbox))
           frame == inbox[1].frame
<1>1. /\ FrameEnds # {} /\ UNCHANGED <<reader, commandQ, hubQ, responseQ, tx>>
      /\ \/ Fail /\ UNCHANGED answers
         \/ /\ Whole /\ inbox' = rest
            /\ \/ UNCHANGED <<issued, toHub>>
               \/ host.loop /\ Write(GetVersion, TRUE)
            /\ \/ UNCHANGED answers
               \/ /\ frame # RxPacket
                  /\ answers' = [answers EXCEPT ![Current] = << inbox[1].n, frame >>]
  BY DEF ReadAnswer, hub
<1>2. CASE Fail /\ UNCHANGED answers
  BY <1>1, <1>2, CarriedFails
<1>3. CASE /\ Whole /\ inbox' = rest
           /\ \/ UNCHANGED <<issued, toHub>>
              \/ host.loop /\ Write(GetVersion, TRUE)
           /\ \/ UNCHANGED answers
              \/ /\ frame # RxPacket
                 /\ answers' = [answers EXCEPT ![Current] = << inbox[1].n, frame >>]
  <2>1. Consumed(FrameEnd)
    BY <1>1, <1>3, ConsumedFrame DEF SerialIndInv
  <2>2. WroteNothing \/ \E command \in Commands : Wrote(command)
    BY <1>3 DEF WroteNothing, Write, Wrote, SerialIndInv, Discipline
  <2>3. CASE UNCHANGED answers
    BY <1>1, <2>1, <2>2, <2>3, HostCarries
  <2>4. CASE /\ frame # RxPacket
             /\ answers' = [answers EXCEPT ![Current] = << inbox[1].n, frame >>]
    <3>1. inbox[1].n \in Numbers /\ frame \in AnswerFrames
      BY <1>1, <1>3, <2>4, AnswerTaken, UnderWayNumbers
    <3>2. inbox[1] \in ForHost
      <4>1. inbox \in Seq(Packets) /\ FrameEnd \in DOMAIN inbox
        BY <1>1, FrameEndIsLast DEF SerialIndInv, QueueTypes
      <4>2. 1 \in DOMAIN inbox
        BY <4>1
      <4> QED BY <4>2 DEF ForHost, Elems
    <3>3. \A n \in Numbers : answers'[n] = answers[n] \/ answers'[n] = << inbox[1].n, frame >>
      BY <2>4 DEF SerialIndInv, HostTypes
    <3> QED BY <1>1, <2>1, <2>2, <3>1, <3>2, <3>3, HostCarries
  <2> QED BY <1>3, <2>3, <2>4
<1> QED BY <1>1, <1>2, <1>3

LEMMA CarriedHost ==
  SerialIndInv /\ Carried /\ (TimeoutLost \/ TimeoutEarly \/ Poll \/ Close \/ Open \/ UNCHANGED vars)
    => Carried'
<1> SUFFICES ASSUME SerialIndInv, Carried,
                    TimeoutLost \/ TimeoutEarly \/ Poll \/ Close \/ Open \/ UNCHANGED vars
             PROVE  Carried'
  OBVIOUS
<1>1. CASE TimeoutLost \/ TimeoutEarly
  BY <1>1, CarriedFails DEF TimeoutLost, TimeoutEarly, hub
<1>2. CASE Poll \/ Close \/ Open \/ UNCHANGED vars
  <2>1. UNCHANGED <<reader, commandQ, hubQ, responseQ, tx, issued, toHub, answers>>
    BY <1>2 DEF Poll, Close, Open, vars, link, hub, history
  <2>2. \E e : Consumed(e)
    <3>1. \/ inbox' = inbox \/ inbox' = <<>>
          \/ FrameEnds # {} /\ inbox' = SubSeq(inbox, FrameEnd + 1, Len(inbox))
      BY <1>2 DEF Poll, Close, Open, vars, link
    <3> QED BY <3>1, ConsumedAll, ConsumedNone, ConsumedFrame DEF SerialIndInv
  <2> QED BY <2>1, <2>2, HostCarries DEF WroteNothing
<1> QED BY <1>1, <1>2

LEMMA CarriedBreaks == SerialIndInv /\ Carried /\ (BusReset \/ HubReboots) => Carried'
<1> SUFFICES ASSUME SerialIndInv, Carried, BusReset \/ HubReboots PROVE Carried'
  OBVIOUS
<1>1. /\ Elems(toHub') = {} /\ Elems(inbox') = {} /\ Elems(tx') = {}
      /\ UNCHANGED <<issued, answers>>
  BY ElemsEmpty DEF BusReset, HubReboots, Disconnect
<1>2. /\ Elems(reader') \subseteq Elems(reader) /\ Elems(commandQ') \subseteq Elems(commandQ)
      /\ Elems(hubQ') \subseteq Elems(hubQ) /\ Elems(responseQ') \subseteq Elems(responseQ)
  BY ElemsEmpty DEF BusReset, HubReboots
<1> QED BY <1>1, <1>2, CarriedMove DEF SerialIndInv, Sends, ForLora, ForHost

LEMMA CarriedInit == Init => Carried
<1> SUFFICES ASSUME Init PROVE Carried
  OBVIOUS
<1>1. \A q \in {toHub, reader, commandQ, hubQ, responseQ, tx, inbox} : Elems(q) = {}
  BY ElemsEmpty DEF Init
<1> QED BY <1>1 DEF Init, Carried, ForLora, ForHost

LEMMA CarriedUnderstood == SerialIndInv /\ Carried => Understood
<1> SUFFICES ASSUME SerialIndInv, Carried PROVE Understood
  OBVIOUS
<1>1. HubReads
  BY DEF HubReads, Carried, ForLora, Elems, Meant
<1>2. HostReads
  <2> SUFFICES ASSUME NEW n \in Numbers, answers[n] # <<>>,
                      issued[answers[n][1]].id \in DOMAIN HubCommandId, answers[n][2].id # 255
               PROVE  parse_response(answers[n][2])
                        \in {Parsed(response) : response \in Answers(issued[answers[n][1]])}
    BY DEF HostReads
  <2>1. PICK m \in Numbers, frame \in AnswerFrames :
          answers[n] = << m, frame >> /\ Answered(m, frame)
    BY DEF Carried
  <2>2. answers[n][1] = m /\ answers[n][2] = frame
    BY <2>1
  <2> QED BY <2>1, <2>2 DEF Answered
<1> QED BY <1>1, <1>2 DEF Understood

(* If the codec reads what it wrote, so do the two sides: a task of the    *)
(* hub gets the command the host meant, and never a frame that was cut or  *)
(* damaged, and what the host takes for an answer of hub_ctrl_task is one  *)
(* it can give to that command.                                            *)
THEOREM Each_Side_Understands == ASSUME CodecAgrees PROVE Spec => []Understood
<1>1. SerialIndInv /\ Carried /\ [Next]_vars => Carried'
  BY CarriedReadFrame, CarriedSendCommand, CarriedHandleCommand, CarriedHubCtrl, CarriedNoise,
     CarriedNextMessage, CarriedWritePacket, CarriedSends, CarriedReadAnswer, CarriedHost,
     CarriedBreaks
  DEF Next, HubStep
<1> QED BY <1>1, CarriedInit, CarriedUnderstood, SerialInvariant, PTL DEF Spec
=================================================================================
