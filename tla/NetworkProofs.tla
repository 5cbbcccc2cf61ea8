------------------------------ MODULE NetworkProofs -----------------------------
(***************************************************************************)
(* Proofs about Network, for every failure budget, back-off limit, queue   *)
(* capacity and number of faults.  Three inductive invariants, one per     *)
(* group of variables: the station supervisor with its timer, the address  *)
(* watcher, and the MQTT session with the packets on their way to the      *)
(* broker.                                                                 *)
(***************************************************************************)
EXTENDS Network, FiniteSetTheorems, TLAPS

(* Each power of two is the number of subsets of an interval, and twice    *)
(* the one before.                                                         *)
LEMMA PowerOfTwo ==
  ASSUME NEW k \in Nat
  PROVE  2 ^ k \in Nat \ {0} /\ 2 ^ (k + 1) = 2 * 2 ^ k
<1> DEFINE A == SUBSET (1 .. k)
           B == {s \cup {k + 1} : s \in A}
           join == [s \in A |-> s \cup {k + 1}]
<1>1. ASSUME NEW n \in Nat
      PROVE  IsFiniteSet(SUBSET (1 .. n)) /\ Cardinality(SUBSET (1 .. n)) = 2 ^ n
             /\ 2 ^ n \in Nat \ {0}
  <2>1. IsFiniteSet(1 .. n) /\ Cardinality(1 .. n) = n
    <3>1. 1 \in Int /\ n \in Int
      OBVIOUS
    <3>2. IsFiniteSet(1 .. n) /\ Cardinality(1 .. n) = IF 1 > n THEN 0 ELSE n - 1 + 1
      BY <3>1, FS_Interval, Zenon
    <3> QED BY <3>2
  <2>2. IsFiniteSet(SUBSET (1 .. n)) /\ Cardinality(SUBSET (1 .. n)) = 2 ^ n
    BY <2>1, FS_SUBSET
  <2>3. SUBSET (1 .. n) # {}
    OBVIOUS
  <2> HIDE DEF A, B, join
  <2>4. Cardinality(SUBSET (1 .. n)) \in Nat /\ Cardinality(SUBSET (1 .. n)) # 0
    BY <2>2, <2>3, FS_CardinalityType, FS_EmptySet
  <2> QED BY <2>2, <2>4
<1>2. \A s \in A : k + 1 \notin s /\ s \in SUBSET (1 .. k)
  OBVIOUS
<1>3. join \in Bijection(A, B)
  <2>1. join \in [A -> B]
    OBVIOUS
  <2>2. ASSUME NEW s \in A, NEW t \in A, join[s] = join[t] PROVE s = t
    BY <1>2, <2>2
  <2>3. \A b \in B : \E s \in A : join[s] = b
    OBVIOUS
  <2> HIDE DEF join, A, B
  <2> QED BY <2>1, <2>2, <2>3 DEF Bijection, Injection, Surjection, IsInjective
<1>4. IsFiniteSet(A) /\ Cardinality(A) = 2 ^ k
  BY <1>1
<1>5. IsFiniteSet(B) /\ Cardinality(B) = Cardinality(A)
  BY <1>3, <1>4, FS_Bijection DEF ExistsBijection
<1>6. A \cup B = SUBSET (1 .. k + 1)
  <2>1. \A s \in A \cup B : s \in SUBSET (1 .. k + 1)
    OBVIOUS
  <2>2. ASSUME NEW s \in SUBSET (1 .. k + 1) PROVE s \in A \cup B
    <3>1. CASE k + 1 \notin s
      <4>1. s \in A
        BY <3>1
      <4> QED BY <4>1
    <3>2. CASE k + 1 \in s
      <4>1. s \ {k + 1} \in A /\ s = (s \ {k + 1}) \cup {k + 1}
        BY <3>2
      <4>2. s \in B
        BY <4>1
      <4> QED BY <4>2
    <3> QED BY <3>1, <3>2
  <2> HIDE DEF A, B
  <2> QED BY <2>1, <2>2
<1>7. A \cap B = {}
  BY <1>2
<1>8. Cardinality(A \cup B) = Cardinality(A) + Cardinality(B) - 0
  <2> HIDE DEF A, B
  <2>1. Cardinality(A \cup B) = Cardinality(A) + Cardinality(B) - Cardinality(A \cap B)
    BY <1>4, <1>5, FS_Union
  <2> QED BY <1>7, <2>1, FS_EmptySet
<1>9. k + 1 \in Nat
  OBVIOUS
<1>10. Cardinality(SUBSET (1 .. k + 1)) = 2 ^ (k + 1) /\ 2 ^ k \in Nat \ {0}
  BY <1>1, <1>9
<1> HIDE DEF A, B
<1>11. 2 ^ (k + 1) = 2 ^ k + 2 ^ k - 0
  BY <1>4, <1>5, <1>6, <1>8, <1>10, Zenon
<1>12. ASSUME NEW p \in Nat, NEW q, q = p + p - 0 PROVE q = 2 * p
  BY <1>12
<1> QED BY <1>10, <1>11, <1>12

(* The delays of the back-off: next_secs goes from one to the next.        *)
LEMMA CappedSteps ==
  ASSUME NEW k \in Nat
  PROVE  /\ Capped(k) \in 1 .. MaxSecs
         /\ Capped(0) = 1
         /\ next_secs(Capped(k)) = Capped(k + 1)
<1>1. 2 ^ k \in Nat \ {0} /\ 2 ^ (k + 1) = 2 * 2 ^ k
  BY PowerOfTwo
<1>2. 2 ^ 0 = 1
  OBVIOUS
<1>3. ASSUME NEW p \in Nat \ {0}, NEW q, q = 2 * p
      PROVE  LET cap(x) == IF x > MaxSecs THEN MaxSecs ELSE x
             IN  cap(p) \in 1 .. MaxSecs /\ next_secs(cap(p)) = cap(q) /\ cap(1) = 1
  BY <1>3, NetworkAssumption DEF next_secs
<1> QED BY <1>1, <1>2, <1>3 DEF Capped

-----------------------------------------------------------------------------
(* The station supervisor and its timer: the failure budget is never       *)
(* overdrawn, and the delays sat out since the last association are those  *)
(* of the failures so far, without the one that the timer still runs for.  *)
StationInv ==
  /\ delay = IF wifi = "waiting" THEN Capped(supervisor.failures - 1) ELSE 0
  /\ wifi = "connecting" => supervisor.failures < MaxStaFailures
  /\ wifi = "waiting" => supervisor.failures > 0
  /\ settings.ssid /\ wifi \in {"accessPoint", "ended"} => supervisor.failures = MaxStaFailures
  /\ waited \in Seq(1 .. MaxSecs)
  /\ Len(waited) = IF wifi = "waiting" THEN supervisor.failures - 1 ELSE supervisor.failures
  /\ \A k \in 1 .. Len(waited) : waited[k] = Capped(k - 1)

(* The counters of the history are numbers.                                *)
CountersOK == tries \in Nat /\ queued \in 0 .. MaxOut

(* net_watch_task shows no address while it waits for one, and the one it  *)
(* has seen while it waits for its loss.                                   *)
WatchInv ==
  IF watching = "up" THEN stats.ip = 0 ELSE stats.ip # 0 /\ address \in {0, stats.ip}

LinkInv ==
  TypeOK /\ StationInv /\ BackoffExact /\ CountersOK /\ WatchInv /\ StatusTruthful

(* The states and addresses that the tasks publish in HUB_STATS.           *)
StatsOK(s) == s \in [wifi : LinkStates, mqtt : LinkStates, ip : Addresses \cup {0}]

(* An update of one field of HUB_STATS keeps its type.                     *)
LEMMA StatsStep ==
  ASSUME TypeOK, NEW state \in LinkStates, NEW a \in Addresses \cup {0}
  PROVE  /\ StatsOK([stats EXCEPT !.wifi = state]) /\ StatsOK([stats EXCEPT !.mqtt = state])
         /\ StatsOK([stats EXCEPT !.ip = a])
         /\ [stats EXCEPT !.wifi = state].ip = stats.ip
         /\ [stats EXCEPT !.mqtt = state].ip = stats.ip
         /\ [stats EXCEPT !.ip = a].ip = a
  BY DEF TypeOK, StatsOK

(* The faults stay within their bound.                                     *)
LEMMA FaultStep ==
  ASSUME TypeOK
  PROVE  /\ Fault => faults' \in 0 .. MaxFaults
         /\ \A cause : Excused(cause) => faults' \in 0 .. MaxFaults
  BY NetworkAssumption DEF TypeOK, Fault, Excused

(* A failure: one more, a longer back-off, and the timer for the old one.  *)
LEMMA FailedStep ==
  ASSUME TypeOK, StationInv, BackoffExact, failed, UNCHANGED <<settings, waited>>,
         supervisor.failures < MaxStaFailures, wifi # "waiting"
  PROVE  /\ supervisor' \in [failures : 0 .. MaxStaFailures, started : BOOLEAN, secs : 1 .. MaxSecs]
         /\ delay' \in 0 .. MaxSecs /\ wifi' \in WifiSteps
         /\ StationInv'
         /\ supervisor'.secs = Capped(supervisor'.failures)
<1> DEFINE n == supervisor.failures
<1>1. /\ n \in Nat /\ n + 1 \in 0 .. MaxStaFailures /\ n + 1 - 1 = n
      /\ supervisor.secs = Capped(n) /\ Capped(n) \in 1 .. MaxSecs
      /\ next_secs(Capped(n)) = Capped(n + 1) /\ Capped(n + 1) \in 1 .. MaxSecs
  <2>1. n \in Nat /\ n + 1 \in Nat /\ n + 1 \in 0 .. MaxStaFailures /\ n + 1 - 1 = n
    BY NetworkAssumption DEF TypeOK
  <2> HIDE DEF n
  <2>2. \A k \in Nat : Capped(k) \in 1 .. MaxSecs /\ next_secs(Capped(k)) = Capped(k + 1)
    BY CappedSteps
  <2>3. supervisor.secs = Capped(n)
    BY DEF BackoffExact, n
  <2> QED BY <2>1, <2>2, <2>3
<1>2. /\ supervisor'.failures = n + 1 /\ supervisor'.secs = Capped(n + 1)
      /\ supervisor'.started = supervisor.started
      /\ supervisor' \in [failures : 0 .. MaxStaFailures, started : BOOLEAN, secs : 1 .. MaxSecs]
  BY <1>1 DEF failed, TypeOK
<1>3. delay' = Capped(n) /\ wifi' = "waiting" /\ waited' = waited
  BY <1>1 DEF failed
<1>4. supervisor'.failures - 1 = n
  BY <1>1, <1>2
<1>5. StationInv'
  BY <1>1, <1>2, <1>3, <1>4 DEF StationInv
<1> QED BY <1>1, <1>2, <1>3, <1>5 DEF WifiSteps

(* The steps of the tasks that leave the station alone.                    *)
LEMMA StationFrame ==
  ASSUME StationInv, UNCHANGED <<settings, wifi, supervisor, delay, waited>>
  PROVE  StationInv'
  BY DEF StationInv

(* wifi_task keeps the types, the station's invariant and its back-off.    *)
LEMMA WifiSteps_Kept ==
  ASSUME TypeOK, StationInv, BackoffExact, WifiTask
  PROVE  TypeOK' /\ StationInv' /\ supervisor'.secs = Capped(supervisor'.failures)
<1>1. /\ supervisor \in [failures : 0 .. MaxStaFailures, started : BOOLEAN, secs : 1 .. MaxSecs]
      /\ supervisor.failures \in Nat /\ MaxStaFailures \in Nat
      /\ supervisor.secs = Capped(supervisor.failures)
  BY NetworkAssumption DEF TypeOK, BackoffExact
<1>2. CASE Start
  <2>1. CASE /\ supervisor' = [supervisor EXCEPT !.started = TRUE]
             /\ UNCHANGED <<wifi, delay, faults, waited, settings>>
    <3>1. /\ supervisor'.failures = supervisor.failures /\ supervisor'.secs = supervisor.secs
          /\ supervisor' \in [failures : 0 .. MaxStaFailures, started : BOOLEAN, secs : 1 .. MaxSecs]
      BY <1>1, <2>1
    <3>2. StationInv'
      BY <2>1, <3>1 DEF StationInv
    <3>3. TypeOK'
      BY <1>2, <2>1, <3>1 DEF Start, TypeOK, mqttVars, brokerVars
    <3> QED BY <1>1, <3>1, <3>2, <3>3
  <2>2. CASE Fault /\ failed
    <3>1. supervisor.failures < MaxStaFailures /\ wifi # "waiting" /\ UNCHANGED <<settings, waited>>
      BY <1>1, <1>2 DEF Start, next_action
    <3>2. /\ supervisor' \in [failures : 0 .. MaxStaFailures, started : BOOLEAN, secs : 1 .. MaxSecs]
          /\ delay' \in 0 .. MaxSecs /\ wifi' \in WifiSteps /\ StationInv'
          /\ supervisor'.secs = Capped(supervisor'.failures)
      BY <2>2, <3>1, FailedStep
    <3>3. TypeOK'
      BY <1>2, <2>2, <3>2, FaultStep DEF Start, TypeOK, mqttVars, brokerVars
    <3> QED BY <3>2, <3>3
  <2> QED BY <1>2, <2>1, <2>2 DEF Start
<1>3. CASE Connect
  <2>1. supervisor.failures < MaxStaFailures
    BY <1>1, <1>3 DEF Connect, next_action
  <2>2. StationInv'
    BY <1>3, <2>1 DEF Connect, StationInv
  <2>3. TypeOK'
    <3>1. StatsOK(stats')
      BY <1>3, StatsStep DEF Connect, LinkStates
    <3> QED BY <1>3, <3>1 DEF Connect, TypeOK, StatsOK, WifiSteps, mqttVars, brokerVars
  <2> QED BY <1>1, <1>3, <2>2, <2>3 DEF Connect
<1>4. CASE Associated
  <2>1. /\ supervisor'.failures = 0 /\ supervisor'.secs = 1 /\ Capped(0) = 1
        /\ supervisor' \in [failures : 0 .. MaxStaFailures, started : BOOLEAN, secs : 1 .. MaxSecs]
    <3>1. Capped(0) = 1 /\ 1 \in 1 .. MaxSecs /\ 0 \in 0 .. MaxStaFailures
      BY CappedSteps, NetworkAssumption
    <3>2. supervisor' = [supervisor EXCEPT !.failures = 0, !.secs = 1]
      BY <1>4 DEF Associated, connected
    <3> QED BY <1>1, <3>1, <3>2
  <2>2. StationInv'
    BY <1>1, <1>4, <2>1 DEF Associated, StationInv
  <2>3. TypeOK'
    <3>1. StatsOK(stats')
      BY <1>4, StatsStep DEF Associated, LinkStates
    <3> QED BY <1>4, <3>1, <2>1 DEF Associated, TypeOK, StatsOK, WifiSteps, mqttVars, brokerVars
  <2> QED BY <2>1, <2>2, <2>3
<1>5. CASE ConnectFails
  <2>1. supervisor.failures < MaxStaFailures /\ wifi # "waiting" /\ UNCHANGED <<settings, waited>>
    BY <1>5 DEF ConnectFails, StationInv
  <2>2. /\ supervisor' \in [failures : 0 .. MaxStaFailures, started : BOOLEAN, secs : 1 .. MaxSecs]
        /\ delay' \in 0 .. MaxSecs /\ wifi' \in WifiSteps /\ StationInv'
        /\ supervisor'.secs = Capped(supervisor'.failures)
    BY <1>5, <2>1, FailedStep DEF ConnectFails
  <2>3. TypeOK'
    <3>1. StatsOK(stats') /\ faults' \in 0 .. MaxFaults
      BY <1>5, StatsStep, FaultStep DEF ConnectFails, LinkStates
    <3> QED BY <1>5, <3>1, <2>2 DEF ConnectFails, TypeOK, StatsOK, WifiSteps, mqttVars, brokerVars
  <2> QED BY <2>2, <2>3
<1>6. CASE WaitOver
  <2> DEFINE n == supervisor.failures
  <2>1. /\ n > 0 /\ delay = Capped(n - 1) /\ Len(waited) = n - 1
        /\ waited' = Append(waited, delay) /\ delay' = 0 /\ wifi' = "decide"
        /\ UNCHANGED <<supervisor, settings>> /\ n - 1 \in Nat
    BY <1>1, <1>6 DEF WaitOver, StationInv
  <2>2. delay \in 1 .. MaxSecs /\ waited \in Seq(1 .. MaxSecs)
    BY <2>1, CappedSteps DEF StationInv
  <2>3. /\ waited' \in Seq(1 .. MaxSecs) /\ Len(waited') = n
        /\ \A k \in 1 .. n : waited'[k] = IF k = n THEN delay ELSE waited[k]
    BY <1>1, <2>1, <2>2
  <2>4. \A k \in 1 .. Len(waited') : waited'[k] = Capped(k - 1)
    BY <1>1, <2>1, <2>3 DEF StationInv
  <2>5. StationInv'
    BY <2>1, <2>3, <2>4 DEF StationInv
  <2>6. TypeOK'
    BY <1>6, NetworkAssumption DEF WaitOver, TypeOK, WifiSteps, mqttVars, brokerVars
  <2> QED BY <1>1, <2>1, <2>5, <2>6
<1>7. CASE Disassociated
  <2>1. StationInv'
    BY <1>7 DEF Disassociated, StationInv
  <2>2. TypeOK'
    <3>1. StatsOK(stats') /\ faults' \in 0 .. MaxFaults
      BY <1>7, StatsStep, FaultStep DEF Disassociated, LinkStates
    <3> QED BY <1>7, <3>1 DEF Disassociated, TypeOK, StatsOK, WifiSteps, mqttVars, brokerVars
  <2> QED BY <1>1, <1>7, <2>1, <2>2 DEF Disassociated
<1>8. CASE RunAccessPoint
  <2>1. settings.ssid => supervisor.failures = MaxStaFailures
    BY <1>1, <1>8 DEF RunAccessPoint, next_action, TypeOK
  <2>2. StationInv'
    BY <1>8, <2>1 DEF RunAccessPoint, StationInv
  <2>3. TypeOK'
    <3>1. StatsOK(stats') /\ faults' \in 0 .. MaxFaults
      BY <1>8, StatsStep, FaultStep DEF RunAccessPoint, TypeOK, LinkStates
    <3> QED BY <1>8, <3>1 DEF RunAccessPoint, TypeOK, StatsOK, WifiSteps, mqttVars, brokerVars
  <2> QED BY <1>1, <1>8, <2>2, <2>3 DEF RunAccessPoint
<1> QED BY <1>2, <1>3, <1>4, <1>5, <1>6, <1>7, <1>8 DEF WifiTask

(* A failed attempt: the next back-off of mqtt_task.                       *)
LEMMA RetryStep ==
  ASSUME TypeOK, BackoffExact, CountersOK, Retry
  PROVE  /\ mqtt' \in MqttSteps /\ backoff' \in 1 .. MaxSecs
         /\ backoff' = Capped(tries') /\ tries' \in Nat
         /\ StatsOK(stats') /\ stats'.ip = stats.ip
<1>1. /\ tries \in Nat /\ tries' = tries + 1 /\ backoff = Capped(tries)
      /\ backoff' = next_secs(backoff) /\ mqtt' = "waiting"
      /\ stats' = [stats EXCEPT !.mqtt = "Disconnected"]
  BY DEF Retry, CountersOK, BackoffExact
<1>2. \A k \in Nat : Capped(k) \in 1 .. MaxSecs /\ next_secs(Capped(k)) = Capped(k + 1)
  BY CappedSteps
<1>3. backoff' = Capped(tries') /\ backoff' \in 1 .. MaxSecs /\ tries' \in Nat
  BY <1>1, <1>2
<1>4. 0 \in Addresses \cup {0} /\ "Disconnected" \in LinkStates
  BY DEF LinkStates
<1>5. StatsOK(stats') /\ stats'.ip = stats.ip
  BY <1>1, <1>4, StatsStep
<1> QED BY <1>1, <1>3, <1>5 DEF MqttSteps

(* A packet put on the wire.                                               *)
LEMMA SendStep ==
  ASSUME TypeOK, NEW packet \in Packets, Send(packet)
  PROVE  wire' \in [Conns -> Seq(Packets)]
<1>1. wire \in [Conns -> Seq(Packets)]
  BY DEF TypeOK
<1>2. \A c \in Conns : Append(wire[c], packet) \in Seq(Packets)
  BY <1>1
<1> QED BY <1>1, <1>2 DEF Send

(* What mqtt_task leaves alone, and what it keeps.                         *)
LEMMA MqttSteps_Kept ==
  ASSUME LinkInv, MqttTask
  PROVE  /\ TypeOK' /\ CountersOK' /\ backoff' = Capped(tries') /\ stats'.ip = stats.ip
         /\ UNCHANGED <<settings, wifi, supervisor, delay, waited, watching, address,
                        session, retained>>
<1> USE DEF LinkInv
<1>1. /\ tries \in Nat /\ queued \in 0 .. MaxOut /\ backoff = Capped(tries)
      /\ StatsOK(stats) /\ faults \in 0 .. MaxFaults /\ backoff \in 1 .. MaxSecs
  BY DEF CountersOK, BackoffExact, TypeOK, StatsOK
<1>2. CASE ConfigUp
  <2>1. StatsOK(stats') /\ stats'.ip = stats.ip
    BY <1>2, StatsStep DEF ConfigUp, LinkStates
  <2> QED BY <1>1, <1>2, <2>1
      DEF ConfigUp, TypeOK, StatsOK, MqttSteps, CountersOK, linkVars, brokerVars, history
<1>3. CASE Resolve
  <2>1. /\ mqtt' \in MqttSteps /\ backoff' \in 1 .. MaxSecs
        /\ backoff' = Capped(tries') /\ tries' \in Nat
        /\ StatsOK(stats') /\ stats'.ip = stats.ip /\ faults' \in 0 .. MaxFaults
    BY <1>1, <1>3, RetryStep, FaultStep DEF Resolve, MqttSteps
  <2> QED BY <1>1, <1>3, <2>1 DEF Resolve, TypeOK, StatsOK, CountersOK, linkVars, brokerVars
<1>4. CASE TcpConnect
  <2>1. conn' \in Conns /\ conn' = conn + 1
    BY <1>4, NetworkAssumption DEF TcpConnect, TypeOK, Conns, MaxConns
  <2>2. <<Control("CONNECT")>> \in Seq(Packets)
    BY DEF Control, Packets
  <2>3. wire' \in [Conns -> Seq(Packets)]
    BY <1>4, <2>2 DEF TcpConnect, TypeOK
  <2>4. /\ mqtt' \in MqttSteps /\ UNCHANGED <<tries, queued, backoff, stats, faults>>
        /\ UNCHANGED <<settings, wifi, supervisor, delay, waited, watching, address,
                        session, retained>>
    BY <1>4 DEF TcpConnect, MqttSteps, linkVars, brokerVars, history
  <2>5. TypeOK'
    BY <1>4, <2>1, <2>3, <2>4
       DEF TcpConnect, TypeOK, linkVars, brokerVars, history
  <2> QED BY <1>1, <2>4, <2>5 DEF CountersOK
<1>5. CASE TcpFails
  <2>1. /\ mqtt' \in MqttSteps /\ backoff' \in 1 .. MaxSecs
        /\ backoff' = Capped(tries') /\ tries' \in Nat
        /\ StatsOK(stats') /\ stats'.ip = stats.ip /\ faults' \in 0 .. MaxFaults
    BY <1>5, RetryStep, FaultStep DEF TcpFails
  <2> QED BY <1>1, <1>5, <2>1 DEF TcpFails, TypeOK, StatsOK, CountersOK, linkVars, brokerVars
<1>6. CASE ConnAck
  <2>1. StatsOK(stats') /\ stats'.ip = stats.ip
    BY <1>6, StatsStep DEF ConnAck, LinkStates
  <2>2. Capped(0) = 1 /\ 1 \in 1 .. MaxSecs
    BY CappedSteps, NetworkAssumption
  <2> QED BY <1>1, <1>6, <2>1, <2>2
      DEF ConnAck, TypeOK, StatsOK, MqttSteps, CountersOK, linkVars, brokerVars
<1>7. CASE Announce
  <2>1. Control("online") \in Packets /\ Control("SUBSCRIBE") \in Packets
    BY DEF Control, Packets
  <2>2. wire' \in [Conns -> Seq(Packets)] /\ mqtt' \in MqttSteps
    BY <1>7, <2>1, SendStep DEF Announce, MqttSteps
  <2> QED BY <1>1, <1>7, <2>2 DEF Announce, TypeOK, CountersOK, brokerVars, history
<1>8. CASE Deliver
  <2>1. /\ outQ \in Seq(Outs) /\ outQ # <<>> /\ outQ' = Tail(outQ) /\ Len(outQ) <= OutCap
        /\ OutCap \in Nat
    BY <1>8, NetworkAssumption DEF Deliver, Taken, TypeOK
  <2>2. outQ' \in Seq(Outs) /\ Len(outQ') <= OutCap /\ Head(outQ) \in Outs
    BY <2>1
  <2>3. Publication(Head(outQ)) \in Packets
    BY <2>2 DEF Publication, Packets
  <2>4. /\ mqtt' \in MqttSteps /\ backoff' \in 1 .. MaxSecs
        /\ backoff' = Capped(tries') /\ tries' \in Nat
        /\ StatsOK(stats') /\ stats'.ip = stats.ip /\ faults' \in 0 .. MaxFaults
        /\ wire' \in [Conns -> Seq(Packets)] /\ tcp' \in {"closed", "open", "broken"}
    <3>1. CASE Send(Publication(Head(outQ))) /\ UNCHANGED <<mqtt, stats, backoff, tries, tcp, faults>>
      BY <1>1, <2>3, <3>1, SendStep DEF TypeOK
    <3>2. CASE Excused(tcp = "broken") /\ Retry /\ tcp' = "closed" /\ UNCHANGED wire
      BY <3>2, RetryStep, FaultStep DEF TypeOK
    <3> QED BY <1>8, <3>1, <3>2 DEF Deliver
  <2> QED BY <1>1, <1>8, <2>2, <2>4 DEF Deliver, TypeOK, StatsOK, CountersOK, brokerVars
<1>9. CASE SessionFails
  <2>1. /\ mqtt' \in MqttSteps /\ backoff' \in 1 .. MaxSecs
        /\ backoff' = Capped(tries') /\ tries' \in Nat
        /\ StatsOK(stats') /\ stats'.ip = stats.ip /\ faults' \in 0 .. MaxFaults
    BY <1>9, RetryStep, FaultStep DEF SessionFails
  <2> QED BY <1>1, <1>9, <2>1 DEF SessionFails, TypeOK, StatsOK, CountersOK, brokerVars
<1>10. CASE TryAgain
  BY <1>1, <1>10 DEF TryAgain, TypeOK, MqttSteps, CountersOK, linkVars, brokerVars, history
<1> QED BY <1>2, <1>3, <1>4, <1>5, <1>6, <1>7, <1>8, <1>9, <1>10 DEF MqttTask

(* What the stack, the broker and the bridge leave alone, and what they    *)
(* keep.                                                                   *)
LEMMA Others_Kept ==
  ASSUME LinkInv, Stack \/ Broker \/ RangeChanges \/ Enqueue \/ \E c \in Conns : Lose(c)
  PROVE  /\ TypeOK' /\ CountersOK' /\ WatchInv' /\ StatusTruthful'
         /\ UNCHANGED <<settings, wifi, supervisor, delay, waited, backoff, tries>>
<1> USE DEF LinkInv
<1>1. CASE LinkDown
  BY <1>1 DEF LinkDown, TypeOK, CountersOK, WatchInv, StatusTruthful, hubVars, brokerVars, history
<1>2. CASE Lease
  BY <1>2 DEF Lease, TypeOK, CountersOK, WatchInv, StatusTruthful, hubVars, brokerVars, history
<1>3. CASE WatchUp
  <2>1. StatsOK(stats') /\ stats'.ip = address
    BY <1>3, StatsStep DEF WatchUp, TypeOK, LinkStates
  <2> QED BY <1>3, <2>1
      DEF WatchUp, TypeOK, StatsOK, CountersOK, WatchInv, StatusTruthful, linkVars, brokerVars, history
<1>4. CASE WatchDown
  <2>1. StatsOK(stats') /\ stats'.ip = 0
    BY <1>4, StatsStep DEF WatchDown, TypeOK, LinkStates
  <2> QED BY <1>4, <2>1
      DEF WatchDown, TypeOK, StatsOK, CountersOK, WatchInv, StatusTruthful, linkVars, brokerVars, history
<1>5. CASE TcpBreaks
  <2>1. faults' \in 0 .. MaxFaults
    BY <1>5, FaultStep DEF TcpBreaks
  <2> QED BY <1>5, <2>1
      DEF TcpBreaks, TypeOK, CountersOK, WatchInv, StatusTruthful, hubVars, brokerVars
<1>6. CASE SessionLost
  <2>1. faults' \in 0 .. MaxFaults
    BY <1>6, FaultStep DEF SessionLost
  <2>2. retained' = "offline" /\ session' = 0 /\ subscribed' = FALSE
        /\ tcp' \in {"closed", "open", "broken"}
    BY <1>6 DEF SessionLost, Will, CloseSession, TypeOK
  <2> QED BY <1>6, <2>1, <2>2
      DEF SessionLost, TypeOK, CountersOK, WatchInv, StatusTruthful, hubVars
<1>7. ASSUME NEW c \in Conns, Receive(c)
      PROVE  /\ TypeOK' /\ CountersOK' /\ WatchInv' /\ StatusTruthful'
             /\ UNCHANGED <<settings, wifi, supervisor, delay, waited, backoff, tries>>
  <2>1. c # 0 /\ c \in Conns \cup {0}
    BY DEF Conns
  <2>2. wire \in [Conns -> Seq(Packets)] /\ wire[c] # <<>> /\ wire' = [wire EXCEPT ![c] = Tail(@)]
    BY <1>7 DEF Receive, TypeOK
  <2>3. wire' \in [Conns -> Seq(Packets)]
    <3>1. Tail(wire[c]) \in Seq(Packets)
      BY <2>2
    <3> QED BY <2>2, <3>1
  <2>4. CASE Head(wire[c]).kind = "CONNECT"
    <3>1. /\ session' = c /\ retained' = Will /\ subscribed' = FALSE
          /\ CloseSession /\ acked' = (acked \/ c = conn)
      BY <1>7, <2>4 DEF Receive
    <3>2. /\ retained' \in {"none", "online", "offline"} /\ acked' \in BOOLEAN
          /\ tcp' \in {"closed", "open", "broken"}
      BY <3>1 DEF Will, CloseSession, TypeOK
    <3> QED BY <1>7, <2>1, <2>3, <3>1, <3>2
        DEF Receive, TypeOK, CountersOK, WatchInv, StatusTruthful, hubVars
  <2>5. CASE Head(wire[c]).kind # "CONNECT"
    <3>1. /\ \/ retained' = "online" /\ session = c
             \/ retained' = retained
          /\ subscribed' \in BOOLEAN
          /\ UNCHANGED <<session, tcp, acked>>
      BY <1>7, <2>5 DEF Receive, TypeOK
    <3> QED BY <1>7, <2>1, <2>3, <3>1
        DEF Receive, TypeOK, CountersOK, WatchInv, StatusTruthful, hubVars
  <2> QED BY <2>4, <2>5
<1>8. CASE RangeChanges
  <2>1. faults' \in 0 .. MaxFaults
    BY <1>8, FaultStep DEF RangeChanges
  <2> QED BY <1>8, <2>1
      DEF RangeChanges, TypeOK, CountersOK, WatchInv, StatusTruthful, hubVars, brokerVars
<1>9. CASE Enqueue
  <2>1. queued + 1 \in Outs /\ queued' \in 0 .. MaxOut
    BY <1>9, NetworkAssumption DEF Enqueue, CountersOK, Outs
  <2>2. outQ \in Seq(Outs) /\ Len(outQ) < OutCap /\ OutCap \in Nat /\ outQ' = Append(outQ, queued + 1)
    BY <1>9, NetworkAssumption DEF Enqueue, TypeOK
  <2>3. outQ' \in Seq(Outs) /\ Len(outQ') <= OutCap
    BY <2>1, <2>2
  <2> QED BY <1>9, <2>1, <2>3
      DEF Enqueue, TypeOK, CountersOK, WatchInv, StatusTruthful, linkVars, brokerVars
<1>10. ASSUME NEW c \in Conns, Lose(c)
       PROVE  /\ TypeOK' /\ CountersOK' /\ WatchInv' /\ StatusTruthful'
              /\ UNCHANGED <<settings, wifi, supervisor, delay, waited, backoff, tries>>
  <2>1. wire' \in [Conns -> Seq(Packets)]
    BY <1>10 DEF Lose, TypeOK
  <2> QED BY <1>10, <2>1
      DEF Lose, TypeOK, CountersOK, WatchInv, StatusTruthful, hubVars, brokerVars, history
<1> QED BY <1>1, <1>2, <1>3, <1>4, <1>5, <1>6, <1>7, <1>8, <1>9, <1>10 DEF Stack, Broker

(* The initial state.                                                      *)
LEMMA LinkInit == Init => LinkInv
<1> SUFFICES ASSUME Init PROVE LinkInv
  OBVIOUS
<1>1. Capped(0) = 1 /\ 1 \in 1 .. MaxSecs /\ 0 \in 0 .. MaxSecs
  BY CappedSteps, NetworkAssumption
<1>2. stats \in [wifi : LinkStates, mqtt : LinkStates, ip : Addresses \cup {0}] /\ stats.ip = 0
  BY DEF Init, LinkStates
<1>3. supervisor \in [failures : 0 .. MaxStaFailures, started : BOOLEAN, secs : 1 .. MaxSecs]
      /\ supervisor.failures = 0 /\ supervisor.secs = 1
  BY <1>1, NetworkAssumption DEF Init
<1>4. wire \in [Conns -> Seq(Packets)] /\ mqtt \in MqttSteps
  BY DEF Init, MqttSteps
<1>5. outQ \in Seq(Outs) /\ Len(outQ) <= OutCap
  BY NetworkAssumption DEF Init
<1>6. TypeOK
  <2>1. /\ settings \in [ssid : BOOLEAN, host : BOOLEAN] /\ wifi \in WifiSteps
        /\ address \in Addresses \cup {0} /\ watching \in {"up", "down"}
        /\ conn \in Conns \cup {0} /\ session \in Conns \cup {0}
        /\ tcp \in {"closed", "open", "broken"} /\ retained \in {"none", "online", "offline"}
        /\ acked \in BOOLEAN /\ subscribed \in BOOLEAN /\ inRange \in BOOLEAN
    BY DEF Init, WifiSteps
  <2>2. delay \in 0 .. MaxSecs /\ backoff \in 1 .. MaxSecs /\ faults \in 0 .. MaxFaults
    BY <1>1, NetworkAssumption DEF Init
  <2> QED BY <1>2, <1>3, <1>4, <1>5, <2>1, <2>2 DEF TypeOK
<1>7. StationInv
  BY <1>3 DEF Init, StationInv
<1> QED BY <1>1, <1>2, <1>3, <1>6, <1>7, NetworkAssumption
    DEF Init, LinkInv, CountersOK, BackoffExact, WatchInv, StatusTruthful

(* The invariant of the link holds in every state.                         *)
LEMMA LinkInvariant == Spec => []LinkInv
<1>1. LinkInv /\ [Next]_vars => LinkInv'
  <2> SUFFICES ASSUME LinkInv, [Next]_vars PROVE LinkInv'
    OBVIOUS
  <2>1. CASE WifiTask
    <3>1. TypeOK' /\ StationInv' /\ supervisor'.secs = Capped(supervisor'.failures)
      BY <2>1, WifiSteps_Kept DEF LinkInv
    <3>2. /\ stats'.ip = stats.ip
          /\ UNCHANGED <<address, watching, backoff, tries, queued, session, retained>>
      <4>1. UNCHANGED stats \/ \E state : stats' = [stats EXCEPT !.wifi = state]
        BY <2>1 DEF WifiTask, Start, Connect, Associated, ConnectFails, WaitOver,
                    Disassociated, RunAccessPoint
      <4>2. stats'.ip = stats.ip
        BY <4>1 DEF LinkInv, TypeOK
      <4> QED BY <2>1, <4>2 DEF WifiTask, Start, Connect, Associated, ConnectFails, WaitOver,
                                Disassociated, RunAccessPoint, mqttVars, brokerVars
    <3> QED BY <3>1, <3>2 DEF LinkInv, BackoffExact, CountersOK, WatchInv, StatusTruthful
  <2>2. CASE MqttTask
    <3>1. /\ TypeOK' /\ CountersOK' /\ backoff' = Capped(tries') /\ stats'.ip = stats.ip
          /\ UNCHANGED <<settings, wifi, supervisor, delay, waited, watching, address,
                         session, retained>>
      BY <2>2, MqttSteps_Kept
    <3> QED BY <3>1, StationFrame DEF LinkInv, BackoffExact, WatchInv, StatusTruthful
  <2>3. CASE Stack \/ Broker \/ RangeChanges \/ Enqueue \/ \E c \in Conns : Lose(c)
    <3>1. /\ TypeOK' /\ CountersOK' /\ WatchInv' /\ StatusTruthful'
          /\ UNCHANGED <<settings, wifi, supervisor, delay, waited, backoff, tries>>
      BY <2>3, Others_Kept
    <3> QED BY <3>1, StationFrame DEF LinkInv, BackoffExact
  <2>4. CASE UNCHANGED vars
    <3>1. UNCHANGED <<settings, wifi, supervisor, delay, waited>>
      BY <2>4 DEF vars, hubVars, history
    <3> QED BY <2>4, <3>1, StationFrame
        DEF vars, hubVars, linkVars, brokerVars, history, LinkInv, TypeOK, CountersOK,
            BackoffExact, WatchInv, StatusTruthful
  <2> QED BY <2>1, <2>2, <2>3, <2>4 DEF Next
<1> QED BY <1>1, LinkInit, PTL DEF Spec

(* Types, back-offs, the fall-back to the access point and the shown       *)
(* address, for every failure budget, back-off limit and number of faults: *)
(* wifi_task gives a network up only after exactly the back-offs of        *)
(* MAX_STA_FAILURES failures in a row, both back-offs are the doubling     *)
(* sequence, and net_watch_task never shows an address of an earlier lease. *)
THEOREM Network_Correct == Spec => []NetworkInv
<1>1. LinkInv => NetworkInv
  <2> SUFFICES ASSUME LinkInv PROVE NetworkInv
    OBVIOUS
  <2>1. GivesUpLate
    <3> SUFFICES ASSUME settings.ssid, wifi \in {"accessPoint", "ended"}
                 PROVE  waited = [k \in 1 .. MaxStaFailures |-> Capped(k - 1)]
      BY DEF GivesUpLate
    <3>1. /\ Len(waited) = MaxStaFailures /\ waited \in Seq(1 .. MaxSecs)
          /\ \A k \in 1 .. MaxStaFailures : waited[k] = Capped(k - 1)
      BY DEF LinkInv, StationInv
    <3> QED BY <3>1
  <2>2. AddressCurrent
    BY DEF LinkInv, WatchInv, AddressCurrent
  <2> QED BY <2>1, <2>2 DEF LinkInv, NetworkInv
<1> QED BY <1>1, LinkInvariant, PTL

(* The retained status says online only while the broker holds a session   *)
(* of the hub, through every order of take-overs, losses and late packets. *)
THEOREM Status_Truthful == Spec => []StatusTruthful
<1>1. LinkInv => StatusTruthful
  BY DEF LinkInv
<1> QED BY <1>1, LinkInvariant, PTL

-----------------------------------------------------------------------------
(* The session and the publications on their way to the broker.            *)

(* The types of the history.                                               *)
HistoryOK ==
  /\ queued \in 0 .. MaxOut /\ delivered \in Seq(Outs)
  /\ takenOn \in [Outs -> Nat] /\ \A p \in Outs : takenOn[p] <= conn

(* mqtt_task sends only on an acknowledged connection, and while it is     *)
(* open such a connection owns the session.                                *)
SessionOwned ==
  /\ mqtt \in {"announce", "subscribe", "serving"} => acked
  /\ acked \/ tcp = "open" => conn # 0
  /\ acked /\ tcp = "open" => session = conn

(* CONNECT is alone on its connection, and the current connection carries  *)
(* other packets if and only if it has been acknowledged.                  *)
ConnectFirst ==
  \A c \in Conns : \A k \in DOMAIN wire[c] :
    /\ wire[c][k].kind = "CONNECT" => Len(wire[c]) = 1
    /\ c = conn => (acked <=> wire[c][k].kind # "CONNECT")

(* The publications in MQTT_OUT are in the order they were queued in.      *)
QueueInOrder ==
  \A i \in DOMAIN outQ :
    outQ[i] <= queued /\ \A j \in DOMAIN outQ : i < j => outQ[i] < outQ[j]

(* What the broker has is older than what is queued, and in order.         *)
DeliveredInOrder ==
  \A i \in DOMAIN delivered :
    /\ delivered[i] <= queued
    /\ \A j \in DOMAIN outQ : delivered[i] < outQ[j]
    /\ \A j \in DOMAIN delivered : i < j => delivered[i] < delivered[j]

(* What is on a wire is older than what is queued and in order, and what   *)
(* is on the session's wire is newer than what the broker has.             *)
WireInOrder ==
  \A c \in Conns : \A i \in DOMAIN wire[c] :
    /\ wire[c][i].item <= queued
    /\ \A j \in DOMAIN outQ : wire[c][i].item < outQ[j]
    /\ \A j \in DOMAIN wire[c] : i < j /\ wire[c][j].item # 0 => wire[c][i].item < wire[c][j].item
    /\ c = session /\ wire[c][i].item # 0 => \A j \in DOMAIN delivered : delivered[j] < wire[c][i].item

(* A publication taken for the open connection is with the broker or on    *)
(* its way.                                                                *)
TakenIsKept ==
  \A p \in Outs : takenOn[p] = conn /\ tcp = "open" =>
    \/ \E k \in DOMAIN delivered : delivered[k] = p
    \/ \E k \in DOMAIN wire[conn] : wire[conn][k].item = p

SessionInv ==
  /\ HistoryOK /\ SessionOwned /\ ConnectFirst
  /\ QueueInOrder /\ DeliveredInOrder /\ WireInOrder /\ TakenIsKept

(* The elements of a tail.                                                 *)
LEMMA TailElements ==
  ASSUME NEW S, NEW q \in Seq(S), q # <<>>
  PROVE  /\ Head(q) \in S /\ Head(q) = q[1] /\ 1 \in DOMAIN q
         /\ Tail(q) \in Seq(S) /\ Len(Tail(q)) = Len(q) - 1 /\ Len(q) \in Nat
         /\ \A k \in DOMAIN Tail(q) : k \in Nat \ {0} /\ k + 1 \in DOMAIN q /\ Tail(q)[k] = q[k + 1]
         /\ \A k \in DOMAIN q : k = 1 \/ (k - 1 \in DOMAIN Tail(q) /\ Tail(q)[k - 1] = q[k])
  OBVIOUS

(* The elements of a sequence with one more.                               *)
LEMMA AppendElements ==
  ASSUME NEW S, NEW q \in Seq(S), NEW x \in S
  PROVE  /\ Append(q, x) \in Seq(S) /\ Len(Append(q, x)) = Len(q) + 1 /\ Len(q) \in Nat
         /\ \A k \in DOMAIN Append(q, x) :
              \/ k \in DOMAIN q /\ k <= Len(q) /\ k \in Nat /\ Append(q, x)[k] = q[k]
              \/ k = Len(q) + 1 /\ Append(q, x)[k] = x
         /\ \A k \in DOMAIN q : k \in DOMAIN Append(q, x) /\ Append(q, x)[k] = q[k]
         /\ Len(q) + 1 \in DOMAIN Append(q, x) /\ Append(q, x)[Len(q) + 1] = x
  OBVIOUS

(* Publications are numbers.                                               *)
LEMMA OutNumbers ==
  ASSUME NEW q \in Seq(Outs)
  PROVE  Len(q) \in Nat /\ \A k \in DOMAIN q : q[k] \in Nat
<1>1. Len(q) \in Nat /\ \A k \in DOMAIN q : q[k] \in Outs
  OBVIOUS
<1> QED BY <1>1 DEF Outs

(* Packets carry a publication or nothing.                                 *)
LEMMA PacketItems ==
  ASSUME TypeOK, NEW c \in Conns
  PROVE  /\ wire[c] \in Seq(Packets)
         /\ \A k \in DOMAIN wire[c] : /\ wire[c][k] \in Packets /\ wire[c][k].item \in Nat
                                      /\ wire[c][k].kind = "PUBLISH" => wire[c][k].item \in Outs
                                      /\ wire[c][k].kind # "PUBLISH" => wire[c][k].item = 0
<1>1. wire[c] \in Seq(Packets)
  BY DEF TypeOK
<1>2. \A x \in Packets : /\ x.item \in Nat /\ (x.kind = "PUBLISH" => x.item \in Outs)
                         /\ (x.kind # "PUBLISH" => x.item = 0)
  BY NetworkAssumption DEF Packets, Outs
<1>3. \A k \in DOMAIN wire[c] : wire[c][k] \in Packets
  BY <1>1
<1> QED BY <1>1, <1>2, <1>3

(* Steps that touch neither a queue nor a wire, and open no connection.    *)
LEMMA QuietStep ==
  ASSUME SessionInv,
         UNCHANGED <<outQ, conn, wire, acked, session, queued, takenOn, delivered>>,
         tcp' = "open" => tcp = "open",
         mqtt' \in {"announce", "subscribe", "serving"} => acked
  PROVE  SessionInv'
  BY DEF SessionInv, HistoryOK, SessionOwned, ConnectFirst, QueueInOrder, DeliveredInOrder,
         WireInOrder, TakenIsKept

(* A new connection.                                                       *)
LEMMA OpenStep ==
  ASSUME TypeOK, SessionInv, TcpConnect
  PROVE  SessionInv'
<1>1. /\ conn' = conn + 1 /\ conn + 1 \in Conns /\ conn \in Nat /\ acked' = FALSE
      /\ wire' = [wire EXCEPT ![conn + 1] = <<Control("CONNECT")>>] /\ mqtt' = "connect"
      /\ UNCHANGED <<outQ, session, queued, takenOn, delivered>>
  BY NetworkAssumption DEF TcpConnect, TypeOK, Conns, MaxConns, brokerVars, history
<1>2. /\ \A c \in Conns \ {conn + 1} : wire'[c] = wire[c]
      /\ wire'[conn + 1] = <<Control("CONNECT")>>
  BY <1>1 DEF TypeOK
<1>3. /\ Len(wire'[conn + 1]) = 1 /\ DOMAIN wire'[conn + 1] = {1}
      /\ wire'[conn + 1][1].kind = "CONNECT" /\ wire'[conn + 1][1].item = 0
  BY <1>2 DEF Control
<1>4. HistoryOK'
  BY <1>1 DEF SessionInv, HistoryOK
<1>5. SessionOwned'
  BY <1>1 DEF SessionOwned
<1>6. ConnectFirst'
  BY <1>1, <1>2, <1>3 DEF SessionInv, ConnectFirst
<1>7. QueueInOrder' /\ DeliveredInOrder'
  BY <1>1 DEF SessionInv, QueueInOrder, DeliveredInOrder
<1>8. WireInOrder'
  <2> SUFFICES ASSUME NEW c \in Conns, NEW i \in DOMAIN wire'[c]
               PROVE  /\ wire'[c][i].item <= queued'
                      /\ \A j \in DOMAIN outQ' : wire'[c][i].item < outQ'[j]
                      /\ \A j \in DOMAIN wire'[c] : i < j /\ wire'[c][j].item # 0 =>
                           wire'[c][i].item < wire'[c][j].item
                      /\ c = session' /\ wire'[c][i].item # 0 =>
                           \A j \in DOMAIN delivered' : delivered'[j] < wire'[c][i].item
    BY DEF WireInOrder
  <2>1. CASE c = conn + 1
    <3>1. i = 1 /\ wire'[c][i].item = 0 /\ \A j \in DOMAIN wire'[c] : j = 1
      BY <1>3, <2>1
    <3>2. \A j \in DOMAIN outQ : 0 < outQ[j]
      <4>1. \A j \in DOMAIN outQ : outQ[j] \in Outs
        BY DEF TypeOK
      <4> QED BY <4>1 DEF Outs
    <3>3. 0 <= queued
      BY DEF SessionInv, HistoryOK
    <3> QED BY <1>1, <3>1, <3>2, <3>3
  <2>2. CASE c # conn + 1
    <3>1. wire'[c] = wire[c]
      BY <1>2, <2>2
    <3> QED BY <1>1, <3>1 DEF SessionInv, WireInOrder
  <2> QED BY <2>1, <2>2
<1>9. TakenIsKept'
  <2>1. \A p \in Outs : takenOn'[p] # conn'
    BY <1>1 DEF SessionInv, HistoryOK
  <2> QED BY <2>1 DEF TakenIsKept
<1> QED BY <1>4, <1>5, <1>6, <1>7, <1>8, <1>9 DEF SessionInv

(* A publication is taken: it is older than what stays queued, and newer   *)
(* than all that was taken before.                                         *)
LEMMA TakeStep ==
  ASSUME TypeOK, SessionInv, Taken, UNCHANGED <<queued, delivered, conn>>
  PROVE  LET p == Head(outQ)
         IN  /\ p \in Outs /\ p <= queued
             /\ HistoryOK' /\ QueueInOrder' /\ DeliveredInOrder'
             /\ \A j \in DOMAIN outQ' : p < outQ'[j] /\ \E k \in DOMAIN outQ : outQ'[j] = outQ[k]
             /\ \A c \in Conns : \A i \in DOMAIN wire[c] : wire[c][i].item < p
             /\ \A i \in DOMAIN delivered : delivered[i] < p
             /\ \A q \in Outs \ {p} : takenOn'[q] = takenOn[q]
<1> DEFINE p == Head(outQ)
<1>1. /\ outQ \in Seq(Outs) /\ outQ # <<>> /\ outQ' = Tail(outQ) /\ conn \in Nat
      /\ takenOn' = [takenOn EXCEPT ![p] = conn]
  BY NetworkAssumption DEF Taken, TypeOK, Conns, MaxConns
<1>2. /\ p \in Outs /\ p = outQ[1] /\ 1 \in DOMAIN outQ /\ outQ' \in Seq(Outs)
      /\ \A k \in DOMAIN outQ' : k \in Nat \ {0} /\ k + 1 \in DOMAIN outQ /\ outQ'[k] = outQ[k + 1]
  BY <1>1, TailElements
<1> HIDE DEF p
<1>3. p <= queued /\ \A j \in DOMAIN outQ' : p < outQ'[j] /\ \E k \in DOMAIN outQ : outQ'[j] = outQ[k]
  BY <1>2 DEF SessionInv, QueueInOrder
<1>4. HistoryOK' /\ \A q \in Outs \ {p} : takenOn'[q] = takenOn[q]
  BY <1>1, <1>2 DEF SessionInv, HistoryOK
<1>5. QueueInOrder'
  BY <1>2 DEF SessionInv, QueueInOrder
<1>6. DeliveredInOrder'
  BY <1>3 DEF SessionInv, DeliveredInOrder
<1>7. /\ \A c \in Conns : \A i \in DOMAIN wire[c] : wire[c][i].item < p
      /\ \A i \in DOMAIN delivered : delivered[i] < p
  BY <1>2 DEF SessionInv, DeliveredInOrder, WireInOrder
<1> QED BY <1>2, <1>3, <1>4, <1>5, <1>6, <1>7 DEF p

(* A packet goes onto the wire of the acknowledged, open connection.  A    *)
(* publication is newer than all that was sent before it.                  *)
LEMMA SentStep ==
  ASSUME TypeOK, SessionInv, acked, NEW packet \in Packets, packet.kind # "CONNECT", Send(packet),
         UNCHANGED <<conn, tcp, acked, session, queued, delivered>>,
         HistoryOK', QueueInOrder', DeliveredInOrder',
         packet.item <= queued,
         \A j \in DOMAIN outQ' : packet.item < outQ'[j] /\ \E k \in DOMAIN outQ : outQ'[j] = outQ[k],
         packet.item # 0 =>
           /\ \A c \in Conns : \A i \in DOMAIN wire[c] : wire[c][i].item < packet.item
           /\ \A i \in DOMAIN delivered : delivered[i] < packet.item,
         \A p \in Outs : p # packet.item => takenOn'[p] = takenOn[p]
  PROVE  SessionInv'
<1>1. conn \in Conns /\ tcp = "open" /\ session = conn
  BY DEF Send, SessionInv, SessionOwned, TypeOK
<1>2. wire' = [wire EXCEPT ![conn] = Append(@, packet)] /\ wire \in [Conns -> Seq(Packets)]
  BY DEF Send, TypeOK
<1>3. /\ \A c \in Conns \ {conn} : wire'[c] = wire[c]
      /\ wire'[conn] = Append(wire[conn], packet)
  BY <1>1, <1>2
<1>4. wire[conn] \in Seq(Packets)
  BY <1>1, <1>2
<1> DEFINE last == Len(wire[conn]) + 1
<1>5. /\ last \in Nat
      /\ \A k \in DOMAIN wire'[conn] :
           \/ k \in DOMAIN wire[conn] /\ k < last /\ k \in Nat /\ wire'[conn][k] = wire[conn][k]
           \/ k = last /\ wire'[conn][k] = packet
      /\ \A k \in DOMAIN wire[conn] : k \in DOMAIN wire'[conn] /\ wire'[conn][k] = wire[conn][k]
      /\ last \in DOMAIN wire'[conn] /\ wire'[conn][last] = packet
  BY <1>3, <1>4, AppendElements
<1> HIDE DEF last
<1>6. SessionOwned'
  <2>1. conn # 0
    BY <1>1 DEF Conns
  <2> QED BY <1>1, <2>1 DEF SessionOwned
<1>7. ConnectFirst'
  <2> SUFFICES ASSUME NEW c \in Conns, NEW k \in DOMAIN wire'[c]
               PROVE  /\ wire'[c][k].kind = "CONNECT" => Len(wire'[c]) = 1
                      /\ c = conn' => (acked' <=> wire'[c][k].kind # "CONNECT")
    BY DEF ConnectFirst
  <2>1. CASE c = conn
    <3>1. wire'[c][k].kind # "CONNECT"
      BY <1>1, <1>5, <2>1 DEF SessionInv, ConnectFirst
    <3> QED BY <3>1
  <2>2. CASE c # conn
    BY <1>3, <2>2 DEF SessionInv, ConnectFirst
  <2> QED BY <2>1, <2>2
<1>8. WireInOrder'
  <2> SUFFICES ASSUME NEW c \in Conns, NEW i \in DOMAIN wire'[c]
               PROVE  /\ wire'[c][i].item <= queued'
                      /\ \A j \in DOMAIN outQ' : wire'[c][i].item < outQ'[j]
                      /\ \A j \in DOMAIN wire'[c] : i < j /\ wire'[c][j].item # 0 =>
                           wire'[c][i].item < wire'[c][j].item
                      /\ c = session' /\ wire'[c][i].item # 0 =>
                           \A j \in DOMAIN delivered' : delivered'[j] < wire'[c][i].item
    BY DEF WireInOrder
  <2>1. CASE c # conn
    <3>1. wire'[c] = wire[c]
      BY <1>3, <2>1
    <3> QED BY <2>1, <3>1, <1>1 DEF SessionInv, WireInOrder
  <2>2. CASE c = conn
    <3>1. \/ i \in DOMAIN wire[conn] /\ i < last /\ i \in Nat /\ wire'[conn][i] = wire[conn][i]
          \/ i = last /\ wire'[conn][i] = packet
      BY <1>5, <2>2
    <3>2. wire'[c][i].item <= queued'
      BY <1>1, <2>2, <3>1 DEF SessionInv, WireInOrder
    <3>3. \A j \in DOMAIN outQ' : wire'[c][i].item < outQ'[j]
      BY <1>1, <2>2, <3>1 DEF SessionInv, WireInOrder
    <3>4. ASSUME NEW j \in DOMAIN wire'[c], i < j, wire'[c][j].item # 0
          PROVE  wire'[c][i].item < wire'[c][j].item
      <4>1. \/ j \in DOMAIN wire[conn] /\ j < last /\ j \in Nat /\ wire'[conn][j] = wire[conn][j]
            \/ j = last /\ wire'[conn][j] = packet
        BY <1>5, <2>2
      <4>2. i \in DOMAIN wire[conn] /\ wire'[conn][i] = wire[conn][i]
        BY <1>5, <3>1, <3>4, <4>1
      <4> QED BY <1>1, <2>2, <3>4, <4>1, <4>2 DEF SessionInv, WireInOrder
    <3>5. ASSUME wire'[c][i].item # 0, NEW j \in DOMAIN delivered
          PROVE  delivered[j] < wire'[c][i].item
      BY <1>1, <2>2, <3>1, <3>5 DEF SessionInv, WireInOrder
    <3> QED BY <3>2, <3>3, <3>4, <3>5
  <2> QED BY <2>1, <2>2
<1>9. TakenIsKept'
  <2> SUFFICES ASSUME NEW p \in Outs, takenOn'[p] = conn
               PROVE  \/ \E k \in DOMAIN delivered : delivered[k] = p
                      \/ \E k \in DOMAIN wire'[conn] : wire'[conn][k].item = p
    BY DEF TakenIsKept
  <2>1. CASE p = packet.item
    BY <1>5, <2>1
  <2>2. CASE p # packet.item
    <3>1. takenOn[p] = conn
      BY <2>2
    <3> QED BY <1>1, <1>5, <3>1 DEF SessionInv, TakenIsKept
  <2> QED BY <2>1, <2>2
<1> QED BY <1>6, <1>7, <1>8, <1>9 DEF SessionInv

(* The bridge queues a publication, the newest of all.                     *)
LEMMA QueuedStep ==
  ASSUME TypeOK, SessionInv, Enqueue
  PROVE  SessionInv'
<1>1. /\ outQ \in Seq(Outs) /\ queued \in Nat /\ queued + 1 \in Outs /\ queued' = queued + 1
      /\ queued' \in 0 .. MaxOut /\ outQ' = Append(outQ, queued + 1)
      /\ UNCHANGED <<mqtt, conn, tcp, acked, wire, session, takenOn, delivered>>
  BY NetworkAssumption DEF Enqueue, TypeOK, SessionInv, HistoryOK, Outs, linkVars, brokerVars
<1>2. /\ Len(outQ) \in Nat
      /\ \A k \in DOMAIN outQ' :
           \/ k \in DOMAIN outQ /\ k <= Len(outQ) /\ k \in Nat /\ outQ'[k] = outQ[k]
           \/ k = Len(outQ) + 1 /\ outQ'[k] = queued + 1
  BY <1>1, AppendElements
<1>3. \A k \in DOMAIN outQ : outQ[k] \in Nat
  BY <1>1, OutNumbers
<1>4. HistoryOK' /\ SessionOwned' /\ ConnectFirst' /\ TakenIsKept'
  BY <1>1 DEF SessionInv, HistoryOK, SessionOwned, ConnectFirst, TakenIsKept
<1>5. QueueInOrder'
  BY <1>1, <1>2, <1>3 DEF SessionInv, QueueInOrder
<1>6. DeliveredInOrder'
  <2>1. \A i \in DOMAIN delivered : delivered[i] \in Nat
    BY OutNumbers DEF SessionInv, HistoryOK
  <2> QED BY <1>1, <1>2, <2>1 DEF SessionInv, DeliveredInOrder
<1>7. WireInOrder'
  <2>1. \A c \in Conns : \A i \in DOMAIN wire[c] : wire[c][i].item \in Nat
    BY PacketItems
  <2> QED BY <1>1, <1>2, <2>1 DEF SessionInv, WireInOrder
<1> QED BY <1>4, <1>5, <1>6, <1>7 DEF SessionInv

(* What a dead connection carried is lost.                                 *)
LEMMA LostStep ==
  ASSUME TypeOK, SessionInv, NEW c \in Conns, Lose(c)
  PROVE  SessionInv'
<1>1. /\ \A d \in Conns \ {c} : wire'[d] = wire[d]
      /\ wire'[c] = <<>> /\ DOMAIN wire'[c] = {}
      /\ ~(c = conn /\ tcp = "open")
      /\ UNCHANGED <<outQ, mqtt, conn, tcp, acked, session, queued, takenOn, delivered>>
  BY DEF Lose, Live, TypeOK, hubVars, brokerVars, history
<1>2. HistoryOK' /\ SessionOwned' /\ QueueInOrder' /\ DeliveredInOrder'
  BY <1>1 DEF SessionInv, HistoryOK, SessionOwned, QueueInOrder, DeliveredInOrder
<1>3. ConnectFirst'
  BY <1>1 DEF SessionInv, ConnectFirst
<1>4. WireInOrder'
  BY <1>1 DEF SessionInv, WireInOrder
<1>5. TakenIsKept'
  <2> SUFFICES ASSUME NEW p \in Outs, takenOn[p] = conn, tcp = "open"
               PROVE  \/ \E k \in DOMAIN delivered : delivered[k] = p
                      \/ \E k \in DOMAIN wire'[conn] : wire'[conn][k].item = p
    BY <1>1 DEF TakenIsKept
  <2>1. conn \in Conns /\ conn # c
    BY <1>1 DEF SessionInv, SessionOwned, TypeOK
  <2> QED BY <1>1, <2>1 DEF SessionInv, TakenIsKept
<1> QED BY <1>2, <1>3, <1>4, <1>5 DEF SessionInv

(* The broker ends the session.                                            *)
LEMMA EndedStep ==
  ASSUME TypeOK, SessionInv, SessionLost
  PROVE  SessionInv'
<1>1. /\ session # 0 /\ session' = 0 /\ 0 \notin Conns
      /\ tcp' = IF session = conn /\ tcp = "open" THEN "broken" ELSE tcp
      /\ UNCHANGED <<outQ, mqtt, wire, conn, acked, queued, takenOn, delivered>>
  BY DEF SessionLost, CloseSession, Live, hubVars, Conns
<1>2. tcp' = "open" => tcp = "open" /\ ~acked
  BY <1>1 DEF SessionInv, SessionOwned
<1>3. HistoryOK' /\ ConnectFirst' /\ QueueInOrder' /\ DeliveredInOrder'
  BY <1>1 DEF SessionInv, HistoryOK, ConnectFirst, QueueInOrder, DeliveredInOrder
<1>4. SessionOwned' /\ TakenIsKept'
  BY <1>1, <1>2 DEF SessionInv, SessionOwned, TakenIsKept
<1>5. WireInOrder'
  BY <1>1 DEF SessionInv, WireInOrder
<1> QED BY <1>3, <1>4, <1>5 DEF SessionInv

(* The broker reads a packet.                                              *)
LEMMA ReceivedStep ==
  ASSUME TypeOK, SessionInv, NEW c \in Conns, Receive(c)
  PROVE  SessionInv'
<1> DEFINE packet == Head(wire[c])
<1>1. /\ wire[c] \in Seq(Packets) /\ wire[c] # <<>> /\ wire' = [wire EXCEPT ![c] = Tail(@)]
      /\ UNCHANGED <<outQ, mqtt, conn, queued, takenOn>> /\ c # 0
  BY PacketItems DEF Receive, hubVars, Conns
<1>2. /\ \A d \in Conns \ {c} : wire'[d] = wire[d]
      /\ wire'[c] = Tail(wire[c])
  BY <1>1 DEF TypeOK
<1>3. /\ packet = wire[c][1] /\ 1 \in DOMAIN wire[c]
      /\ Len(wire'[c]) = Len(wire[c]) - 1 /\ wire'[c] \in Seq(Packets) /\ Len(wire[c]) \in Nat
      /\ \A k \in DOMAIN wire'[c] : k \in Nat \ {0} /\ k + 1 \in DOMAIN wire[c] /\ wire'[c][k] = wire[c][k + 1]
      /\ \A k \in DOMAIN wire[c] : k = 1 \/ (k - 1 \in DOMAIN wire'[c] /\ wire'[c][k - 1] = wire[c][k])
  <2> DEFINE q == wire[c]
             r == wire'[c]
  <2>1. q \in Seq(Packets) /\ q # <<>> /\ r = Tail(q) /\ packet = Head(q)
    BY <1>1, <1>2
  <2> HIDE DEF q, r, packet
  <2>2. /\ packet = q[1] /\ 1 \in DOMAIN q /\ Len(r) = Len(q) - 1 /\ r \in Seq(Packets)
        /\ Len(q) \in Nat
        /\ \A k \in DOMAIN r : k \in Nat \ {0} /\ k + 1 \in DOMAIN q /\ r[k] = q[k + 1]
        /\ \A k \in DOMAIN q : k = 1 \/ (k - 1 \in DOMAIN r /\ r[k - 1] = q[k])
    BY <2>1, TailElements
  <2> QED BY <2>2 DEF q, r
<1>4. /\ packet.item \in Nat /\ (packet.kind = "PUBLISH" => packet.item \in Outs)
      /\ (packet.kind # "PUBLISH" => packet.item = 0)
  BY <1>3, PacketItems
<1>5. CASE packet.kind = "CONNECT"
  <2>1. /\ session' = c /\ acked' = (acked \/ c = conn) /\ delivered' = delivered
        /\ tcp' = IF session # 0 /\ session = conn /\ tcp = "open" THEN "broken" ELSE tcp
    BY <1>5 DEF Receive, CloseSession, Live
  <2> HIDE DEF packet
  <2>2. Len(wire[c]) = 1 /\ DOMAIN wire'[c] = {}
    BY <1>3, <1>5 DEF SessionInv, ConnectFirst
  <2>3. HistoryOK' /\ QueueInOrder' /\ DeliveredInOrder'
    BY <1>1, <2>1 DEF SessionInv, HistoryOK, QueueInOrder, DeliveredInOrder
  <2>4. tcp' = "open" => tcp = "open" /\ (acked => c = conn)
    BY <1>1, <2>1 DEF SessionInv, SessionOwned
  <2>5. SessionOwned'
    BY <1>1, <2>1, <2>4 DEF SessionInv, SessionOwned
  <2>6. ConnectFirst'
    BY <1>1, <1>2, <2>1, <2>2 DEF SessionInv, ConnectFirst
  <2>7. WireInOrder'
    BY <1>1, <1>2, <2>1, <2>2 DEF SessionInv, WireInOrder
  <2>8. TakenIsKept'
    <3> SUFFICES ASSUME NEW p \in Outs, takenOn[p] = conn, tcp' = "open"
                 PROVE  \/ \E k \in DOMAIN delivered : delivered[k] = p
                        \/ \E k \in DOMAIN wire'[conn] : wire'[conn][k].item = p
      BY <1>1, <2>1 DEF TakenIsKept
    <3>1. \/ \E k \in DOMAIN delivered : delivered[k] = p
          \/ \E k \in DOMAIN wire[conn] : wire[conn][k].item = p
      BY <2>4 DEF SessionInv, TakenIsKept
    <3>2. conn \in Conns
      BY <2>4 DEF SessionInv, SessionOwned, TypeOK
    <3>3. CASE conn # c
      BY <1>2, <3>1, <3>2, <3>3
    <3>4. CASE conn = c
      <4>1. \A k \in DOMAIN wire[conn] : k = 1
        BY <1>3, <2>2, <3>4
      <4>2. packet.item = 0 /\ p # 0
        BY <1>4, <1>5 DEF Outs
      <4> QED BY <1>3, <3>1, <3>4, <4>1, <4>2
    <3> QED BY <3>3, <3>4
  <2> QED BY <2>3, <2>5, <2>6, <2>7, <2>8 DEF SessionInv
<1>6. CASE packet.kind # "CONNECT"
  <2>1. /\ delivered' = IF packet.kind = "PUBLISH" /\ session = c
                        THEN Append(delivered, packet.item) ELSE delivered
        /\ UNCHANGED <<session, tcp, acked>>
    BY <1>6 DEF Receive
  <2> HIDE DEF packet
  <2>2. QueueInOrder' /\ SessionOwned'
    BY <1>1, <2>1 DEF SessionInv, QueueInOrder, SessionOwned
  <2>3. ConnectFirst'
    <3>1. ASSUME NEW d \in Conns, NEW k \in DOMAIN wire'[d]
          PROVE  \E m \in DOMAIN wire[d] : wire'[d][k] = wire[d][m]
      <4>1. CASE d = c
        <5>1. k + 1 \in DOMAIN wire[d] /\ wire'[d][k] = wire[d][k + 1]
          BY <1>3, <4>1
        <5> QED BY <5>1
      <4>2. CASE d # c
        BY <1>2, <4>2
      <4> QED BY <4>1, <4>2
    <3>2. \A k \in DOMAIN wire'[c] : wire'[c][k].kind # "CONNECT"
      <4> SUFFICES ASSUME NEW k \in DOMAIN wire'[c], wire'[c][k].kind = "CONNECT" PROVE FALSE
        OBVIOUS
      <4>1. Len(wire[c]) = 1
        BY <3>1 DEF SessionInv, ConnectFirst
      <4> QED BY <1>3, <4>1
    <3> QED BY <1>1, <1>2, <2>1, <3>1, <3>2 DEF SessionInv, ConnectFirst
  <2>4. \A i \in DOMAIN delivered' :
          \/ i \in DOMAIN delivered /\ i <= Len(delivered) /\ i \in Nat /\ delivered'[i] = delivered[i]
          \/ /\ packet.kind = "PUBLISH" /\ session = c
             /\ i = Len(delivered) + 1 /\ delivered'[i] = packet.item
    <3>1. delivered \in Seq(Outs)
      BY DEF SessionInv, HistoryOK
    <3>2. \A i \in DOMAIN delivered : i <= Len(delivered) /\ i \in Nat
      BY <3>1
    <3>3. CASE packet.kind = "PUBLISH" /\ session = c
      BY <1>4, <2>1, <3>1, <3>3, AppendElements
    <3>4. CASE ~(packet.kind = "PUBLISH" /\ session = c)
      BY <2>1, <3>2, <3>4
    <3> QED BY <3>3, <3>4
  <2>5. Len(delivered) \in Nat /\ \A i \in DOMAIN delivered : delivered[i] \in Nat
    BY OutNumbers DEF SessionInv, HistoryOK
  <2>6. HistoryOK'
    BY <1>1, <1>4, <2>1 DEF SessionInv, HistoryOK
  <2>7. DeliveredInOrder'
    <3>1. /\ packet.item <= queued /\ \A j \in DOMAIN outQ : packet.item < outQ[j]
          /\ packet.kind = "PUBLISH" /\ session = c =>
               \A j \in DOMAIN delivered : delivered[j] < packet.item
      <4>1. packet.kind = "PUBLISH" => packet.item # 0
        BY <1>4 DEF Outs
      <4> QED BY <1>3, <4>1 DEF SessionInv, WireInOrder
    <3> QED BY <1>1, <2>4, <2>5, <3>1 DEF SessionInv, DeliveredInOrder
  <2>8. WireInOrder'
    <3> SUFFICES ASSUME NEW d \in Conns, NEW i \in DOMAIN wire'[d]
                 PROVE  /\ wire'[d][i].item <= queued
                        /\ \A j \in DOMAIN outQ : wire'[d][i].item < outQ[j]
                        /\ \A j \in DOMAIN wire'[d] : i < j /\ wire'[d][j].item # 0 =>
                             wire'[d][i].item < wire'[d][j].item
                        /\ d = session /\ wire'[d][i].item # 0 =>
                             \A j \in DOMAIN delivered' : delivered'[j] < wire'[d][i].item
      BY <1>1, <2>1 DEF WireInOrder
    <3>1. CASE d # c
      <4>1. wire'[d] = wire[d]
        BY <1>2, <3>1
      <4>2. d = session => delivered' = delivered
        BY <2>1, <3>1
      <4> QED BY <4>1, <4>2 DEF SessionInv, WireInOrder
    <3>2. CASE d = c
      <4>1. i \in Nat \ {0} /\ i + 1 \in DOMAIN wire[c] /\ wire'[d][i] = wire[c][i + 1]
        BY <1>3, <3>2
      <4>2. /\ wire'[d][i].item <= queued
            /\ \A j \in DOMAIN outQ : wire'[d][i].item < outQ[j]
        BY <4>1 DEF SessionInv, WireInOrder
      <4>3. ASSUME NEW j \in DOMAIN wire'[d], i < j, wire'[d][j].item # 0
            PROVE  wire'[d][i].item < wire'[d][j].item
        <5>1. j \in Nat /\ j + 1 \in DOMAIN wire[c] /\ wire'[d][j] = wire[c][j + 1] /\ i + 1 < j + 1
          BY <1>3, <3>2, <4>1, <4>3
        <5> QED BY <4>1, <4>3, <5>1 DEF SessionInv, WireInOrder
      <4>4. ASSUME d = session, wire'[d][i].item # 0, NEW j \in DOMAIN delivered'
            PROVE  delivered'[j] < wire'[d][i].item
        <5>1. packet.item < wire[c][i + 1].item
          BY <1>3, <4>1, <4>4 DEF SessionInv, WireInOrder
        <5>2. j \in DOMAIN delivered => delivered[j] < wire[c][i + 1].item
          BY <3>2, <4>1, <4>4 DEF SessionInv, WireInOrder
        <5> QED BY <2>4, <4>1, <5>1, <5>2
      <4> QED BY <4>2, <4>3, <4>4
    <3> QED BY <3>1, <3>2
  <2>9. TakenIsKept'
    <3> SUFFICES ASSUME NEW p \in Outs, takenOn[p] = conn, tcp = "open"
                 PROVE  \/ \E k \in DOMAIN delivered' : delivered'[k] = p
                        \/ \E k \in DOMAIN wire'[conn] : wire'[conn][k].item = p
      BY <1>1, <2>1 DEF TakenIsKept
    <3>1. conn \in Conns
      BY DEF SessionInv, SessionOwned, TypeOK
    <3>2. CASE \E k \in DOMAIN delivered : delivered[k] = p
      <4>1. delivered \in Seq(Outs)
        BY DEF SessionInv, HistoryOK
      <4>2. \A k \in DOMAIN delivered : k \in DOMAIN delivered' /\ delivered'[k] = delivered[k]
        BY <1>4, <2>1, <4>1, AppendElements
      <4> QED BY <3>2, <4>2
    <3>3. ASSUME NEW k \in DOMAIN wire[conn], wire[conn][k].item = p
          PROVE  \/ \E m \in DOMAIN delivered' : delivered'[m] = p
                 \/ \E m \in DOMAIN wire'[conn] : wire'[conn][m].item = p
      <4>1. CASE conn # c
        BY <1>2, <3>1, <3>3, <4>1
      <4>2. CASE conn = c /\ k # 1
        <5>1. k - 1 \in DOMAIN wire'[c] /\ wire'[c][k - 1] = wire[c][k]
          BY <1>3, <3>3, <4>2
        <5> QED BY <3>3, <4>2, <5>1
      <4>3. CASE conn = c /\ k = 1
        <5>1. packet.item = p /\ packet.kind = "PUBLISH"
          BY <1>3, <1>4, <3>3, <4>3 DEF Outs
        <5>2. acked /\ session = c
          BY <1>3, <1>6, <4>3 DEF SessionInv, ConnectFirst, SessionOwned
        <5>3. delivered' = Append(delivered, p) /\ delivered \in Seq(Outs)
          BY <2>1, <5>1, <5>2 DEF SessionInv, HistoryOK
        <5> QED BY <5>3, AppendElements
      <4> QED BY <4>1, <4>2, <4>3
    <3> QED BY <3>2, <3>3 DEF SessionInv, TakenIsKept
  <2> QED BY <2>2, <2>3, <2>6, <2>7, <2>8, <2>9 DEF SessionInv
<1> QED BY <1>5, <1>6

(* The invariant of the session holds in every state.                      *)
LEMMA SessionInvariant == Spec => []SessionInv
<1>1. Init => SessionInv
  <2> SUFFICES ASSUME Init PROVE SessionInv
    OBVIOUS
  <2>1. /\ DOMAIN outQ = {} /\ DOMAIN delivered = {} /\ \A c \in Conns : DOMAIN wire[c] = {}
        /\ tcp = "closed" /\ acked = FALSE
        /\ mqtt \notin {"announce", "subscribe", "serving"}
    BY DEF Init
  <2>2. HistoryOK
    BY NetworkAssumption DEF Init, HistoryOK
  <2> QED BY <2>1, <2>2 DEF SessionInv, SessionOwned, ConnectFirst, QueueInOrder,
                            DeliveredInOrder, WireInOrder, TakenIsKept
<1>2. TypeOK /\ SessionInv /\ [Next]_vars => SessionInv'
  <2> SUFFICES ASSUME TypeOK, SessionInv, [Next]_vars PROVE SessionInv'
    OBVIOUS
  <2> DEFINE Quiet == /\ UNCHANGED <<outQ, conn, wire, acked, session, queued, takenOn, delivered>>
                      /\ tcp' = "open" => tcp = "open"
                      /\ mqtt' \in {"announce", "subscribe", "serving"} => acked
  <2>0. mqtt \in {"announce", "subscribe", "serving"} => acked
    BY DEF SessionInv, SessionOwned
  <2>1. CASE WifiTask
    <3>1. Quiet
      BY <2>0, <2>1 DEF WifiTask, Start, Connect, Associated, ConnectFails, WaitOver, Disassociated,
                        RunAccessPoint, mqttVars, brokerVars
    <3> QED BY <3>1, QuietStep
  <2>2. CASE ConfigUp \/ Resolve \/ TcpFails \/ ConnAck \/ SessionFails \/ TryAgain
    <3>1. Quiet
      BY <2>0, <2>2 DEF ConfigUp, Resolve, TcpFails, ConnAck, SessionFails, TryAgain, Retry,
                        linkVars, brokerVars, history
    <3> QED BY <3>1, QuietStep
  <2>3. CASE TcpConnect
    BY <2>3, OpenStep
  <2>4. CASE Announce
    <3>1. PICK packet \in {Control("online"), Control("SUBSCRIBE")} : Send(packet)
      BY <2>4 DEF Announce
    <3>2. packet \in Packets /\ packet.kind # "CONNECT" /\ packet.item = 0
      BY <3>1 DEF Control, Packets
    <3>3. /\ acked /\ UNCHANGED <<outQ, conn, tcp, acked, session, queued, takenOn, delivered>>
      BY <2>0, <2>4 DEF Announce, brokerVars, history
    <3>4. HistoryOK' /\ QueueInOrder' /\ DeliveredInOrder' /\ 0 <= queued
      BY <3>3 DEF SessionInv, HistoryOK, QueueInOrder, DeliveredInOrder
    <3>5. \A j \in DOMAIN outQ' : 0 < outQ'[j] /\ \E k \in DOMAIN outQ : outQ'[j] = outQ[k]
      <4>1. \A j \in DOMAIN outQ : outQ[j] \in Outs
        BY DEF TypeOK
      <4> QED BY <3>3, <4>1 DEF Outs
    <3> QED BY <3>1, <3>2, <3>3, <3>4, <3>5, SentStep
  <2>5. CASE Deliver
    <3> DEFINE p == Head(outQ)
    <3>1. Taken /\ UNCHANGED <<conn, acked, session, queued, delivered>> /\ acked
      BY <2>0, <2>5 DEF Deliver, Taken, brokerVars
    <3>2. /\ p \in Outs /\ p <= queued
          /\ HistoryOK' /\ QueueInOrder' /\ DeliveredInOrder'
          /\ \A j \in DOMAIN outQ' : p < outQ'[j] /\ \E k \in DOMAIN outQ : outQ'[j] = outQ[k]
          /\ \A c \in Conns : \A i \in DOMAIN wire[c] : wire[c][i].item < p
          /\ \A i \in DOMAIN delivered : delivered[i] < p
          /\ \A q \in Outs \ {p} : takenOn'[q] = takenOn[q]
      BY <3>1, TakeStep
    <3> HIDE DEF p
    <3>3. CASE Send(Publication(p)) /\ UNCHANGED tcp
      <4>1. Publication(p) \in Packets /\ Publication(p).kind # "CONNECT" /\ Publication(p).item = p
        BY <3>2 DEF Publication, Packets
      <4> HIDE DEF HistoryOK, QueueInOrder, DeliveredInOrder, SessionInv
      <4> QED BY <3>1, <3>2, <3>3, <4>1, SentStep
    <3>4. CASE tcp' = "closed" /\ UNCHANGED wire
      <4>1. SessionOwned' /\ TakenIsKept'
        BY <3>1, <3>4 DEF SessionInv, SessionOwned, TakenIsKept
      <4>2. ConnectFirst'
        BY <3>1, <3>4 DEF SessionInv, ConnectFirst
      <4>3. WireInOrder'
        BY <3>1, <3>2, <3>4 DEF SessionInv, WireInOrder
      <4> QED BY <3>2, <4>1, <4>2, <4>3 DEF SessionInv
    <3> QED BY <2>5, <3>3, <3>4 DEF Deliver, p
  <2>6. CASE LinkDown \/ Lease \/ WatchUp \/ WatchDown \/ TcpBreaks \/ RangeChanges
    <3>1. Quiet
      BY <2>0, <2>6 DEF LinkDown, Lease, WatchUp, WatchDown, TcpBreaks, RangeChanges,
                        hubVars, linkVars, brokerVars, history
    <3> QED BY <3>1, QuietStep
  <2>7. CASE Broker
    BY <2>7, EndedStep, ReceivedStep DEF Broker
  <2>8. CASE Enqueue
    BY <2>8, QueuedStep
  <2>9. CASE \E c \in Conns : Lose(c)
    BY <2>9, LostStep
  <2>10. CASE UNCHANGED vars
    <3>1. Quiet
      BY <2>0, <2>10 DEF vars, hubVars, linkVars, brokerVars, history
    <3> QED BY <3>1, QuietStep
  <2> QED BY <2>1, <2>2, <2>3, <2>4, <2>5, <2>6, <2>7, <2>8, <2>9, <2>10
      DEF Next, MqttTask, Stack
<1>3. LinkInv => TypeOK
  BY DEF LinkInv
<1> QED BY <1>1, <1>2, <1>3, LinkInvariant, PTL DEF Spec

(* A publication taken from MQTT_OUT reaches the broker, in order and once, *)
(* unless its connection has ended: for every number of publications,      *)
(* every capacity and every interleaving of aborted sessions, take-overs   *)
(* and late packets.                                                       *)
THEOREM Lost_With_Session == Spec => []LostWithSession
<1>1. SessionInv => LostWithSession
  <2> SUFFICES ASSUME SessionInv PROVE LostWithSession
    OBVIOUS
  <2>1. \A i, j \in DOMAIN delivered : i < j => delivered[i] < delivered[j]
    BY DEF SessionInv, DeliveredInOrder
  <2> QED BY <2>1 DEF SessionInv, TakenIsKept, LostWithSession, Live
<1> QED BY <1>1, SessionInvariant, PTL
=============================================================================
