----------------------------- MODULE GatewayProofs -----------------------------
(***************************************************************************)
(* Proofs about Gateway, for every counter, capacity and duration, and     *)
(* every number of packets and failures, that the assumptions allow, and   *)
(* any number of downlinks.                                                *)
(*                                                                         *)
(* A job names its instant by the value of the counter only.  That the     *)
(* radio task means the same instant by it as the UDP task did rests on    *)
(* how long a job may wait: the inductive invariant carries, for every job *)
(* in the queue, what can still delay it (WaitsInTime), and keeps the sum  *)
(* within half a turn of the counter.                                      *)
(***************************************************************************)
EXTENDS Gateway, FiniteSetTheorems, TLAPS

(* A downlink with an instant to be sent at.                               *)
Timed(j) == j.target # NoTime

Half == Wrap \div 2

(* What the radio task needs beyond its current deadline until it is back  *)
(* at its select, if nothing fails: Left is all of it.                     *)
Rest(place, j) ==
  IF place = "arm" THEN (IF j = NoJob THEN 0 ELSE Turn - MaxStep)
  ELSE IF place = "asleep" THEN SetupLead + 3 * MaxStep
  ELSE IF place = "setup" THEN SetupLead - MaxSetup + 3 * MaxStep
  ELSE IF place \in {"aim", "fire"} THEN 3 * MaxStep
  ELSE IF place = "sending" THEN 2 * MaxStep
  ELSE IF place \in {"start", "restore"} THEN MaxStep
  ELSE 0

LeftOf(place, until, t, j) == (IF until = NoTime THEN 0 ELSE until - t) + Rest(place, j)
Left == LeftOf(pc, deadline, now, job)

(* The delays that can still come on top.                                  *)
Spare == (MaxUplinks - heard) + (MaxFaults - faults)

(* Where each await ends, and what the job's instant has to do with it.    *)
Deadlines ==
  /\ deadline = NoTime <=> pc \in {"listen", "fire", "dead"}
  /\ deadline # NoTime => now <= deadline
  /\ pc \in {"start", "arm", "sending", "restore"} => deadline <= now + MaxStep
  /\ pc = "setup" => deadline <= now + MaxSetup
  /\ pc = "asleep" => Timed(job) /\ deadline = job.due - SetupLead
  /\ pc = "setup" /\ Timed(job) => deadline = job.due - SetupLead + MaxSetup
  /\ pc = "aim" => Timed(job) /\ deadline = job.due - TxStartComp
  /\ pc = "fire" /\ Timed(job) => now = job.due - TxStartComp

(* The instant of a job, and its place on the counter.                     *)
JobSound(j, t) ==
  /\ Timed(j) <=> j.due # NoTime
  /\ Timed(j) => j.target = j.due % Wrap /\ j.due <= t + MaxAhead

JobsSound ==
  JobSound(job, now) /\ \A k \in DOMAIN downlinkQ : JobSound(downlinkQ[k], now)

(* Each job is classified within half a turn of the counter.               *)
WaitsInTime ==
  pc # "dead" =>
    /\ \A k \in DOMAIN downlinkQ : Timed(downlinkQ[k]) =>
         now + Left + (k - 1) * Turn + MaxStep + Spare * MaxStep <= downlinkQ[k].due + Half
    /\ pc = "arm" /\ Timed(job) => deadline + Spare * MaxStep <= job.due + Half

(* A job that the radio was free for is first in the queue, and has time   *)
(* for the packets that can still be heard.                                *)
ListensAt == IF pc = "arm" THEN deadline ELSE now

ClearInTime ==
  faults = 0 =>
    /\ \A k \in DOMAIN downlinkQ : downlinkQ[k].clear =>
         /\ k = 1 /\ job = NoJob /\ pc \in {"arm", "listen"}
         /\ Timed(downlinkQ[k]) =>
              ListensAt + (1 + MaxUplinks - heard) * MaxStep + SetupLead <= downlinkQ[k].due
    /\ pc = "arm" /\ Timed(job) /\ job.clear => deadline + SetupLead <= job.due

(* Every job has its own number, and is acknowledged and not finished.     *)
Numbered ==
  /\ counters.dwnb <= MaxDownlinks
  /\ \A id \in Ids : fate[id] = "none" <=> id > counters.dwnb
  /\ \A k \in DOMAIN downlinkQ : fate[downlinkQ[k].id] = "queued"
  /\ job # NoJob => fate[job.id] = "queued"
  /\ \A k \in DOMAIN downlinkQ : downlinkQ[k].id # job.id
  /\ \A k, l \in DOMAIN downlinkQ : downlinkQ[k].id = downlinkQ[l].id => k = l

(* The transmissions: one per number, of the job in hand or a finished one. *)
FiredOnce ==
  /\ fired \in SUBSET [id : Ids, due : NoTime .. MaxTime + MaxAhead, at : Nat]
  /\ \A f, g \in fired : f.id = g.id => f = g
  /\ \A f \in fired : fate[f.id] \in {"sent", "failed"} \/ (pc = "sending" /\ job.id = f.id)

OnUplink == pc \in {"arm", "listen"} /\ config # "uplink" => faults > 0

-----------------------------------------------------------------------------
(* The constants, and the arithmetic of the counter.                       *)

LEMMA Constants ==
  /\ Wrap \in Nat \ {0} /\ Half \in Nat /\ Wrap = 2 * Half
  /\ MaxAhead \in Nat /\ SetupLead \in Nat /\ TxStartComp \in Nat /\ MaxStep \in Nat
  /\ MaxSetup \in Nat /\ Turn \in Nat /\ Turn = MaxAhead + 4 * MaxStep
  /\ SetupLead <= MaxAhead /\ MaxAhead < Half /\ MaxSetup + TxStartComp <= SetupLead
  /\ DownlinkCap \in Nat /\ MaxUplinks \in Nat /\ MaxFaults \in Nat
  /\ MaxTime \in Nat /\ StartTime \in Nat
<1>1. Wrap \in Nat /\ Wrap % 2 = 0 /\ Wrap = 2 * (Wrap \div 2) + (Wrap % 2)
      /\ Wrap \div 2 \in Nat
  BY SchedulerAssumption
<1>2. Wrap = 2 * Half /\ Half \in Nat
  BY <1>1 DEF Half
<1>3. MaxAhead < Half
  BY SchedulerAssumption DEF Half
<1> QED BY <1>1, <1>2, <1>3, SchedulerAssumption, GatewayAssumption DEF Turn

LEMMA Division ==
  ASSUME NEW a \in Int, NEW n \in Nat \ {0}
  PROVE  /\ a = n * (a \div n) + (a % n)
         /\ a \div n \in Int /\ a % n \in 0 .. n - 1 /\ a % n \in Int
<1>1. a = n * (a \div n) + (a % n) /\ a % n \in 0 .. n - 1 /\ a \div n \in Int
  OBVIOUS
<1> QED BY <1>1

(* A number has one remainder.                                             *)
LEMMA ModUnique ==
  ASSUME NEW n \in Nat \ {0}, NEW p \in Int, NEW b \in 0 .. n - 1
  PROVE  (n * p + b) % n = b
<1> DEFINE a == n * p + b
           q == a \div n
           r == a % n
<1>1. a \in Int
  OBVIOUS
<1> HIDE DEF a
<1>2. a = n * (a \div n) + (a % n) /\ a % n \in 0 .. n - 1 /\ a \div n \in Int
  BY <1>1
<1> HIDE DEF q, r
<1>3. a = n * q + r /\ r \in 0 .. n - 1 /\ q \in Int
  BY <1>2 DEF q, r
<1>4. a = n * p + b
  BY DEF a
<1>5. n * (p - q) = r - b
  BY <1>3, <1>4
<1>6. p - q \in Int /\ r - b < n /\ b - r < n
  BY <1>3
<1>7. p - q < 1
  BY <1>5, <1>6, <1>3
<1>8. p - q > -1
  BY <1>5, <1>6, <1>3
<1>9. r = b
  BY <1>3, <1>4, <1>7, <1>8
<1> QED BY <1>9 DEF r, a

(* The difference of two counter values is the difference of the instants, *)
(* as long as these are within half a turn of each other.                  *)
LEMMA DeltaExact ==
  ASSUME NEW t \in Int, NEW d \in Int, -Half <= d - t, d - t < Half
  PROVE  tmst_delta_us(t % Wrap, d % Wrap) = d - t
<1> DEFINE qt == t \div Wrap
           qd == d \div Wrap
           rt == t % Wrap
           rd == d % Wrap
<1>1. /\ t = Wrap * qt + rt /\ qt \in Int /\ rt \in Int
      /\ d = Wrap * qd + rd /\ qd \in Int /\ rd \in Int
  BY Constants, Division
<1> HIDE DEF qt, qd, rt, rd
<1>2. rd - rt = Wrap * (qt - qd) + (d - t)
  BY <1>1, Constants
<1>3. CASE d - t >= 0
  <2>1. d - t \in 0 .. Wrap - 1 /\ qt - qd \in Int
    BY <1>1, <1>3, Constants
  <2>2. (rd - rt) % Wrap = d - t
    BY <1>2, <2>1, ModUnique, Constants
  <2>3. ~(d - t >= Half) /\ Wrap \div 2 = Half
    BY Constants DEF Half
  <2> QED BY <2>2, <2>3 DEF tmst_delta_us, rd, rt
<1>4. CASE d - t < 0
  <2>1. d - t + Wrap \in 0 .. Wrap - 1 /\ qt - qd - 1 \in Int
    BY <1>1, <1>4, Constants
  <2>2. rd - rt = Wrap * (qt - qd - 1) + (d - t + Wrap)
    BY <1>1, <1>2, Constants
  <2>3. (rd - rt) % Wrap = d - t + Wrap
    BY <2>1, <2>2, ModUnique, Constants
  <2>4. d - t + Wrap >= Half /\ Wrap \div 2 = Half
    BY Constants DEF Half
  <2> QED BY <2>3, <2>4, Constants DEF tmst_delta_us, rd, rt
<1> QED BY <1>3, <1>4

(* The instant that a target names when it is accepted.                    *)
LEMMA DeltaNames ==
  ASSUME NEW t \in Nat, NEW target \in 0 .. Wrap - 1
  PROVE  /\ tmst_delta_us(t % Wrap, target) \in Int
         /\ (t + tmst_delta_us(t % Wrap, target)) % Wrap = target
<1> DEFINE qt == t \div Wrap
           rt == t % Wrap
           g == target - rt
           k == g \div Wrap
           x == g % Wrap
           delta == tmst_delta_us(rt, target)
<1>1. t = Wrap * qt + rt /\ qt \in Int /\ rt \in Int
  <2>1. t \in Int /\ Wrap \in Nat \ {0}
    BY Constants
  <2> QED BY <2>1, Division
<1> HIDE DEF qt, rt
<1>2. g \in Int
  BY <1>1, Constants
<1> HIDE DEF g
<1>3. g = Wrap * k + x /\ k \in Int /\ x \in Int
  BY <1>2, Constants, Division
<1>4. delta = x \/ delta = x - Wrap
  BY DEF tmst_delta_us, g
<1> HIDE DEF k, x, delta
<1>5. target = g + rt
  BY <1>1, Constants DEF g
<1>6. t + x = Wrap * (qt - k) + target /\ t + (x - Wrap) = Wrap * (qt - k - 1) + target
  BY <1>1, <1>3, <1>5, Constants
<1>7. qt - k \in Int /\ qt - k - 1 \in Int /\ Wrap \in Nat \ {0}
  BY <1>1, <1>3, Constants
<1>8. (t + x) % Wrap = target /\ (t + (x - Wrap)) % Wrap = target
  BY <1>6, <1>7, ModUnique
<1>9. delta \in Int /\ (t + delta) % Wrap = target
  BY <1>3, <1>4, <1>8, Constants
<1> QED BY <1>9 DEF delta, rt

(* Products of a count and a duration.                                     *)
LEMMA Products ==
  ASSUME NEW a \in Int, NEW m \in Int
  PROVE  /\ a * m \in Int
         /\ (a + 1) * m = a * m + m /\ (a - 1) * m = a * m - m
         /\ 0 * m = 0 /\ (1 - 1) * m = 0
  OBVIOUS

LEMMA ScaleMono ==
  ASSUME NEW a \in Int, NEW b \in Int, a <= b, NEW m \in Nat
  PROVE  a * m <= b * m
<1>1. PICK d \in Nat : b = a + d
  BY b - a \in Nat
<1>2. d * m \in Nat
  OBVIOUS
<1>3. b * m = a * m + d * m
  BY <1>1
<1> QED BY <1>2, <1>3
-----------------------------------------------------------------------------
(* The types.                                                              *)

LEMMA JobFields ==
  ASSUME NEW j \in Jobs \cup {NoJob}
  PROVE  /\ j.id \in Nat /\ j.target \in Int /\ j.due \in Int /\ j.clear \in BOOLEAN
         /\ j # NoJob => j \in Jobs /\ j.id \in Ids
         /\ Timed(j) => j # NoJob /\ j.target \in 0 .. Wrap - 1
         /\ NoTime = -1
<1>1. CASE j = NoJob
  BY <1>1 DEF NoJob, NoTime, Timed
<1>2. CASE j \in Jobs
  BY <1>2, Constants, GatewayAssumption DEF Jobs, NoTime, Ids, Timed, NoJob
<1> QED BY <1>1, <1>2

LEMMA QueueFields ==
  ASSUME downlinkQ \in Seq(Jobs), NEW k \in DOMAIN downlinkQ
  PROVE  downlinkQ[k] \in Jobs /\ k \in Nat \ {0} /\ k <= Len(downlinkQ)
  OBVIOUS

LEMMA AppendQ ==
  ASSUME NEW q \in Seq(Jobs), NEW j \in Jobs
  PROVE  /\ Append(q, j) \in Seq(Jobs) /\ Len(Append(q, j)) = Len(q) + 1
         /\ DOMAIN Append(q, j) = DOMAIN q \cup {Len(q) + 1} /\ Len(q) + 1 \notin DOMAIN q
         /\ \A k \in DOMAIN q : Append(q, j)[k] = q[k]
         /\ Append(q, j)[Len(q) + 1] = j
  OBVIOUS

LEMMA TailQ ==
  ASSUME NEW q \in Seq(Jobs), q # <<>>
  PROVE  /\ Tail(q) \in Seq(Jobs) /\ Len(Tail(q)) = Len(q) - 1
         /\ \A k \in DOMAIN Tail(q) : k + 1 \in DOMAIN q /\ Tail(q)[k] = q[k + 1] /\ k \in Nat \ {0}
         /\ Head(q) = q[1] /\ Head(q) \in Jobs /\ 1 \in DOMAIN q
<1>1. Len(q) \in Nat \ {0} /\ DOMAIN q = 1 .. Len(q)
  OBVIOUS
<1>2. Tail(q) \in Seq(Jobs) /\ Len(Tail(q)) = Len(q) - 1
  OBVIOUS
<1>3. \A k \in 1 .. Len(q) - 1 : Tail(q)[k] = q[k + 1]
  OBVIOUS
<1> QED BY <1>1, <1>2, <1>3

LEMMA InitType == Init => TypeOK
  BY Constants, GatewayAssumption
  DEF Init, TypeOK, Places, Fates, NoJob, Ids, NoTime

(* The downlink that PullResp makes of a target.                           *)
New(target) ==
  LET delta == tmst_delta_us(tmst, target)
      timed == target # NoTime
  IN  [id |-> counters.dwnb + 1, target |-> target,
       due |-> IF timed THEN now + delta ELSE NoTime,
       clear |-> /\ pc = "listen" /\ downlinkQ = <<>>
                 /\ timed => delta >= SetupLead + (1 + MaxUplinks) * MaxStep]

LEMMA Numbers ==
  ASSUME TypeOK
  PROVE  /\ now \in Nat /\ now <= MaxTime /\ NoTime = -1 /\ deadline \in Int
         /\ counters.dwnb \in Nat /\ counters.txnb \in Nat /\ counters.rxfw \in Nat
         /\ counters.uplink \in Nat /\ counters.downlink \in Nat /\ counters.dropped \in Nat
         /\ heard \in Nat /\ faults \in Nat /\ heard <= MaxUplinks /\ faults <= MaxFaults
         /\ uplinkQ \in Nat /\ MaxDownlinks \in Nat
<1>1. now \in Nat /\ now <= MaxTime /\ NoTime = -1 /\ deadline \in Int
  BY Constants DEF TypeOK, NoTime
<1>2. /\ heard \in Nat /\ faults \in Nat /\ heard <= MaxUplinks /\ faults <= MaxFaults
      /\ uplinkQ \in Nat /\ MaxDownlinks \in Nat
  BY Constants, GatewayAssumption DEF TypeOK
<1>3. /\ counters.dwnb \in Nat /\ counters.txnb \in Nat /\ counters.rxfw \in Nat
      /\ counters.uplink \in Nat /\ counters.downlink \in Nat /\ counters.dropped \in Nat
  BY DEF TypeOK
<1> QED BY <1>1, <1>2, <1>3

LEMMA NewJob ==
  ASSUME TypeOK, NEW target \in NoTime .. Wrap - 1, PullResp(target)
  PROVE  /\ New(target) \in Jobs /\ JobSound(New(target), now)
         /\ Timed(New(target)) => New(target).due >= now + SetupLead
<1>1. now \in Nat /\ now <= MaxTime /\ counters.dwnb \in Nat /\ counters.dwnb < MaxDownlinks
      /\ MaxDownlinks \in Nat /\ NoTime = -1
  BY Numbers DEF PullResp
<1>2. New(target).id \in Ids
  BY <1>1 DEF New, Ids
<1>3. New(target).clear \in BOOLEAN
  BY DEF New
<1>4. CASE target = NoTime
  <2>1. New(target).due = NoTime
    BY <1>4 DEF New
  <2>2. New(target) \in Jobs
    BY <1>1, <1>2, <1>3, <1>4, <2>1, Constants DEF New, Jobs
  <2> QED BY <1>4, <2>1, <2>2 DEF New, JobSound, Timed
<1>5. CASE target # NoTime
  <2> DEFINE delta == tmst_delta_us(tmst, target)
  <2>1. target \in 0 .. Wrap - 1
    BY <1>1, <1>5, Constants
  <2>2. delta \in Int /\ (now + delta) % Wrap = target
    BY <1>1, <2>1, DeltaNames DEF tmst
  <2>3. classify(tmst, FALSE, target) \in {"Immediate", "At"}
    BY <1>5 DEF PullResp
  <2> HIDE DEF delta
  <2>4. delta >= SetupLead /\ delta <= MaxAhead
    BY <1>5, <2>2, <2>3, Constants DEF classify, delta
  <2>5. New(target).due = now + delta /\ New(target).target = target
    BY <1>5 DEF New, delta
  <2>6. New(target) \in Jobs
    BY <1>1, <1>2, <1>3, <2>1, <2>2, <2>4, <2>5, Constants DEF New, Jobs
  <2> QED BY <1>1, <1>5, <2>2, <2>4, <2>5, <2>6, Constants DEF JobSound, Timed
<1> QED BY <1>4, <1>5

(* What PullResp does.                                                     *)
LEMMA PullRespStep ==
  ASSUME NEW target \in NoTime .. Wrap - 1, PullResp(target)
  PROVE  /\ counters.dwnb < MaxDownlinks
         /\ \/ /\ Len(downlinkQ) < DownlinkCap /\ downlinkQ' = Append(downlinkQ, New(target))
               /\ fate' = [fate EXCEPT ![New(target).id] = "queued"]
               /\ counters' = [counters EXCEPT !.dwnb = @ + 1, !.txnb = @ + 1]
            \/ /\ downlinkQ' = downlinkQ
               /\ fate' = [fate EXCEPT ![New(target).id] = "collision"]
               /\ counters' = [counters EXCEPT !.dwnb = @ + 1, !.dropped = @ + 1]
         /\ New(target).id = counters.dwnb + 1
         /\ UNCHANGED <<now, uplinkQ, pc, job, deadline, config, fired, heard, faults>>
  BY DEF PullResp, New, Fate, radio
(* Counts, deadlines and failures within their types.                      *)
Fields == {"dwnb", "txnb", "rxfw", "uplink", "downlink", "dropped"}

LEMMA Counted ==
  ASSUME NEW c \in [Fields -> Nat], NEW f \in Fields
  PROVE  /\ [c EXCEPT ![f] = @ + 1] \in [Fields -> Nat]
         /\ [c EXCEPT ![f] = @ + 1][f] = c[f] + 1
         /\ \A g \in Fields \ {f} : [c EXCEPT ![f] = @ + 1][g] = c[g]
<1>1. c[f] + 1 \in Nat
  OBVIOUS
<1> QED BY <1>1

LEMMA CountedTwo ==
  ASSUME NEW c \in [Fields -> Nat], NEW f \in Fields, NEW g \in Fields, f # g
  PROVE  [c EXCEPT ![f] = @ + 1, ![g] = @ + 1] \in [Fields -> Nat]
<1>1. c[f] + 1 \in Nat /\ c[g] + 1 \in Nat
  OBVIOUS
<1> QED BY <1>1

LEMMA Soon ==
  ASSUME TypeOK
  PROVE  /\ now + MaxStep \in Nat /\ now + MaxSetup \in Nat
         /\ Fault => faults' \in 0 .. MaxFaults
         /\ counters \in [Fields -> Nat]
<1>1. now + MaxStep \in Nat /\ now + MaxSetup \in Nat
  BY Numbers, Constants
<1>2. Fault => faults' \in 0 .. MaxFaults
  BY Numbers, Constants DEF Fault
<1> QED BY <1>1, <1>2 DEF TypeOK, Fields

(* Every step keeps the types.                                             *)
LEMMA TypeStep == TypeOK /\ [Next]_vars => TypeOK'
<1> SUFFICES ASSUME TypeOK, [Next]_vars PROVE TypeOK'
  OBVIOUS
<1>1. CASE Tick
  <2>1. now' \in StartTime .. MaxTime
    BY <1>1, Numbers, Constants DEF Tick, TypeOK
  <2> QED BY <1>1, <2>1 DEF Tick, TypeOK, radio
<1>2. CASE PullRespRefused
  <2>1. counters.dwnb + 1 \in Ids
    BY <1>2, Numbers DEF PullRespRefused, Ids
  <2>2. fate' \in [Ids -> Fates]
    BY <1>2, <2>1 DEF PullRespRefused, Fate, TypeOK, Fates
  <2>3. counters' \in [Fields -> Nat]
    BY <1>2, Soon, Counted DEF PullRespRefused, Add, Fields
  <2> QED BY <1>2, <2>2, <2>3 DEF PullRespRefused, TypeOK, radio, Fields
<1>3. ASSUME NEW target \in NoTime .. Wrap - 1, PullResp(target)
      PROVE  TypeOK'
  <2>1. New(target) \in Jobs
    BY <1>3, NewJob
  <2>2. New(target).id \in Ids
    BY <2>1 DEF Jobs
  <2>3. fate' \in [Ids -> Fates]
    BY <1>3, <2>2, PullRespStep DEF TypeOK, Fates
  <2>4. counters' \in [Fields -> Nat]
    <3>1. /\ [counters EXCEPT !.dwnb = @ + 1, !.txnb = @ + 1] \in [Fields -> Nat]
          /\ [counters EXCEPT !.dwnb = @ + 1, !.dropped = @ + 1] \in [Fields -> Nat]
      <4>1. "dwnb" \in Fields /\ "txnb" \in Fields /\ "dropped" \in Fields
        BY DEF Fields
      <4> QED BY <4>1, Soon, CountedTwo
    <3> QED BY <1>3, <3>1, PullRespStep
  <2>5. downlinkQ' \in Seq(Jobs) /\ Len(downlinkQ') <= DownlinkCap
    <3>1. downlinkQ \in Seq(Jobs) /\ Len(downlinkQ) <= DownlinkCap /\ Len(downlinkQ) \in Nat
      BY DEF TypeOK
    <3>2. \/ Len(downlinkQ) < DownlinkCap /\ downlinkQ' = Append(downlinkQ, New(target))
          \/ downlinkQ' = downlinkQ
      BY <1>3, PullRespStep
    <3> QED BY <2>1, <3>1, <3>2, AppendQ, Constants
  <2> QED BY <1>3, <2>3, <2>4, <2>5, PullRespStep DEF TypeOK, Fields
<1>4. CASE ForwardUplink
  <2>1. counters' \in [Fields -> Nat]
    BY <1>4, Soon, Counted DEF ForwardUplink, Add, Fields
  <2>2. uplinkQ' \in 0 .. UplinkCap
    BY <1>4, GatewayAssumption DEF ForwardUplink, TypeOK
  <2> QED BY <1>4, <2>1, <2>2 DEF ForwardUplink, TypeOK, radio, Fields
<1>5. CASE Start
  BY <1>5, Soon DEF Start, At, TypeOK, Places
<1>6. CASE ArmFails
  BY <1>6, Soon DEF ArmFails, At, TypeOK, Places
<1>7. CASE Listen
  BY <1>7, Soon DEF Listen, At, TypeOK, Places
<1>8. CASE MissWindow
  <2>1. job \in Jobs /\ job.id \in Ids
    BY <1>8, JobFields DEF MissWindow, TypeOK
  <2>2. fate' \in [Ids -> Fates]
    BY <1>8, <2>1 DEF MissWindow, Fate, TypeOK, Fates
  <2> QED BY <1>8, <2>2, Soon DEF MissWindow, At, TypeOK, Places
<1>9. CASE SleepUntilSetup
  <2> DEFINE delta == tmst_delta_us(tmst, job.target)
  <2>1. job.target \in 0 .. Wrap - 1
    BY <1>9, JobFields DEF SleepUntilSetup, TypeOK, Timed
  <2>2. delta \in Int
    BY <2>1, Numbers, DeltaNames DEF tmst
  <2>3. pc' = "asleep" /\ deadline' = now + delta - SetupLead /\ delta >= SetupLead
    BY <1>9 DEF SleepUntilSetup, At
  <2> HIDE DEF delta
  <2>4. deadline' \in Nat
    BY <2>2, <2>3, Numbers, Constants
  <2> QED BY <1>9, <2>3, <2>4 DEF SleepUntilSetup, TypeOK, Places
<1>10. CASE BeginSetup
  <2>1. job # NoJob
    BY <1>10 DEF BeginSetup, TypeOK
  <2> QED BY <1>10, <2>1, Soon DEF BeginSetup, At, TypeOK, Places
<1>11. CASE SetupFails
  <2>1. job \in Jobs /\ job.id \in Ids
    BY <1>11, JobFields DEF SetupFails, TypeOK
  <2>2. fate' \in [Ids -> Fates]
    BY <1>11, <2>1 DEF SetupFails, Fate, TypeOK, Fates
  <2> QED BY <1>11, <2>2, Soon DEF SetupFails, At, TypeOK, Places
<1>12. CASE Aim
  <2> DEFINE delta == tmst_delta_us(tmst, job.target)
  <2>1. job.target # NoTime => delta \in Int
    BY JobFields, Numbers, DeltaNames DEF TypeOK, tmst, Timed
  <2>2. \/ /\ job.target # NoTime /\ delta > TxStartComp
           /\ pc' = "aim" /\ deadline' = now + delta - TxStartComp
        \/ pc' = "fire" /\ deadline' = NoTime
    BY <1>12 DEF Aim, At
  <2> HIDE DEF delta
  <2>3. deadline' \in {NoTime} \cup Nat
    BY <2>1, <2>2, Numbers, Constants
  <2> QED BY <1>12, <2>2, <2>3 DEF Aim, TypeOK, Places
<1>13. CASE fire_tx
  BY <1>13, Soon DEF fire_tx, At, TypeOK, Places
<1>14. CASE wait_tx_done
  <2>1. job \in Jobs /\ job.id \in Ids
    BY <1>14, JobFields DEF wait_tx_done, TypeOK
  <2>2. fate' \in [Ids -> Fates]
    BY <1>14, <2>1 DEF wait_tx_done, Fate, TypeOK, Fates
  <2>3. counters' \in [Fields -> Nat]
    BY <1>14, Soon, Counted DEF wait_tx_done, Add, Fields
  <2>4. faults' \in 0 .. MaxFaults
    BY <1>14, Soon DEF wait_tx_done, TypeOK
  <2> QED BY <1>14, <2>2, <2>3, <2>4, Soon DEF wait_tx_done, At, TypeOK, Places, Fields
<1>15. CASE Restore
  BY <1>15, Soon DEF Restore, At, TypeOK, Places
<1>16. CASE TakeJob
  <2>1. downlinkQ' \in Seq(Jobs) /\ Len(downlinkQ') <= DownlinkCap /\ job' \in Jobs
    BY <1>16, TailQ, Constants DEF TakeJob, TypeOK
  <2> QED BY <1>16, <2>1, Soon DEF TakeJob, At, TypeOK, Places
<1>17. CASE Hear
  <2>1. counters' \in [Fields -> Nat]
    <3>1. /\ [counters EXCEPT !.uplink = @ + 1] \in [Fields -> Nat]
          /\ [counters EXCEPT !.uplink = @ + 1, !.dropped = @ + 1] \in [Fields -> Nat]
      <4>1. "uplink" \in Fields /\ "dropped" \in Fields
        BY DEF Fields
      <4> QED BY <4>1, Soon, Counted, CountedTwo
    <3> QED BY <1>17, <3>1 DEF Hear, Add
  <2>2. heard' \in 0 .. MaxUplinks
    BY <1>17, Numbers, Constants DEF Hear
  <2>3. uplinkQ' \in 0 .. UplinkCap
    <3>1. uplinkQ \in 0 .. UplinkCap /\ UplinkCap \in Nat
      BY GatewayAssumption DEF TypeOK
    <3>2. uplinkQ' = uplinkQ \/ (uplinkQ < UplinkCap /\ uplinkQ' = uplinkQ + 1)
      BY <1>17 DEF Hear
    <3> QED BY <3>1, <3>2
  <2> QED BY <1>17, <2>1, <2>2, <2>3, Soon DEF Hear, At, TypeOK, Places, Fields
<1>18. CASE PollAgain
  <2>1. heard' \in 0 .. MaxUplinks
    <3>1. heard' = heard \/ (heard < MaxUplinks /\ heard' = heard + 1)
      BY <1>18 DEF PollAgain
    <3> QED BY <3>1, Numbers, Constants
  <2> QED BY <1>18, <2>1, Soon DEF PollAgain, At, TypeOK, Places
<1>19. CASE UNCHANGED vars
  BY <1>19 DEF vars, radio, TypeOK
<1> QED
  BY <1>1, <1>2, <1>3, <1>4, <1>5, <1>6, <1>7, <1>8, <1>9, <1>10, <1>11, <1>12, <1>13,
     <1>14, <1>15, <1>16, <1>17, <1>18, <1>19 DEF Next, RadioStep
-----------------------------------------------------------------------------
(* Time.                                                                   *)

LEMMA SpareNat ==
  ASSUME TypeOK
  PROVE  Spare \in Nat /\ Spare * MaxStep \in Nat /\ (Spare - 1) * MaxStep = Spare * MaxStep - MaxStep
         /\ Spare <= MaxUplinks + MaxFaults
<1>1. Spare \in Nat /\ Spare <= MaxUplinks + MaxFaults
  BY Numbers, Constants DEF Spare
<1> HIDE DEF Spare
<1>2. Spare * MaxStep \in Nat
  BY <1>1, Constants
<1> QED BY <1>1, <1>2, Products, Constants

(* When a job is classified by the radio task, and when it is aimed, the   *)
(* counter tells the true distance of its instant.                         *)
LEMMA ArmDelta ==
  ASSUME TypeOK, Deadlines, JobsSound, WaitsInTime, pc = "arm", Timed(job)
  PROVE  tmst_delta_us(tmst, job.target) = job.due - now /\ job.due - now <= MaxAhead
<1>1. now <= deadline /\ deadline + Spare * MaxStep <= job.due + Half
  BY DEF Deadlines, WaitsInTime
<1>2. job.due \in Int /\ job.target = job.due % Wrap /\ job.due <= now + MaxAhead
  BY JobFields DEF JobsSound, JobSound, TypeOK
<1>3. -Half <= job.due - now /\ job.due - now < Half
  BY <1>1, <1>2, SpareNat, Numbers, Constants
<1>4. now \in Int
  BY Numbers
<1>5. tmst_delta_us(now % Wrap, job.due % Wrap) = job.due - now
  BY <1>2, <1>3, <1>4, DeltaExact
<1>6. job.due - now <= MaxAhead
  BY <1>2, <1>4, Constants
<1> QED BY <1>2, <1>5, <1>6 DEF tmst

LEMMA SetupDelta ==
  ASSUME TypeOK, Deadlines, JobsSound, pc = "setup", Timed(job)
  PROVE  /\ tmst_delta_us(tmst, job.target) = job.due - now
         /\ job.due - now >= TxStartComp /\ job.due - now <= SetupLead
<1>1. now <= deadline /\ deadline <= now + MaxSetup /\ deadline = job.due - SetupLead + MaxSetup
  BY DEF Deadlines
<1>2. job.due \in Int /\ job.target = job.due % Wrap
  BY JobFields DEF JobsSound, JobSound, TypeOK
<1>3. job.due - now >= TxStartComp /\ job.due - now <= SetupLead
  BY <1>1, <1>2, Numbers, Constants
<1>4. -Half <= job.due - now /\ job.due - now < Half
  BY <1>2, <1>3, Numbers, Constants
<1>5. now \in Int
  BY Numbers
<1>6. tmst_delta_us(now % Wrap, job.due % Wrap) = job.due - now
  BY <1>2, <1>4, <1>5, DeltaExact
<1> QED BY <1>2, <1>3, <1>6 DEF tmst

LEMMA NoJobFields == ~Timed(NoJob) /\ NoJob.clear = FALSE /\ NoJob.due = NoTime /\ NoJob.id = 0
  BY DEF Timed, NoJob

TimeInv == TypeOK /\ Deadlines /\ JobsSound /\ WaitsInTime

LEMMA DeadlinesStep == TimeInv /\ [Next]_vars => Deadlines'
<1> SUFFICES ASSUME TypeOK, Deadlines, JobsSound, WaitsInTime, [Next]_vars PROVE Deadlines'
  BY DEF TimeInv
<1>0. /\ now \in Nat /\ MaxStep \in Nat /\ MaxSetup \in Nat /\ NoTime = -1 /\ deadline \in Int
      /\ SetupLead \in Nat /\ TxStartComp \in Nat
  BY Numbers, Constants
<1>1. CASE Tick
  BY <1>1, <1>0 DEF Tick, Deadlines, radio, Timed
<1>2. CASE PullRespRefused \/ ForwardUplink \/ \E target \in NoTime .. Wrap - 1 : PullResp(target)
  <2>1. UNCHANGED <<now, pc, job, deadline>>
    BY <1>2, PullRespStep DEF PullRespRefused, ForwardUplink, radio
  <2> QED BY <2>1 DEF Deadlines, Timed
<1>3. CASE Start
  BY <1>3, <1>0 DEF Start, At, Deadlines
<1>4. CASE ArmFails
  BY <1>4, <1>0 DEF ArmFails, At, Deadlines
<1>5. CASE Listen
  BY <1>5, <1>0 DEF Listen, At, Deadlines
<1>6. CASE MissWindow
  BY <1>6, <1>0 DEF MissWindow, At, Deadlines
<1>7. CASE SleepUntilSetup
  <2>1. Timed(job) /\ pc = "arm"
    BY <1>7 DEF SleepUntilSetup, Timed
  <2>2. job.due \in Int /\ tmst_delta_us(tmst, job.target) = job.due - now
    BY <2>1, ArmDelta, JobFields DEF TypeOK
  <2>3. /\ pc' = "asleep" /\ deadline' = now + (job.due - now) - SetupLead
        /\ job.due - now >= SetupLead /\ now' = now /\ job' = job
    BY <1>7, <2>2 DEF SleepUntilSetup, At
  <2>4. deadline' = job.due - SetupLead /\ deadline' >= now
    BY <2>2, <2>3, <1>0
  <2> QED BY <1>0, <2>1, <2>3, <2>4 DEF Deadlines, Timed
<1>8. CASE BeginSetup
  <2>1. \/ Timed(job) /\ now = job.due - SetupLead
        \/ ~Timed(job)
    BY <1>8 DEF BeginSetup, Deadlines, Timed
  <2>2. job.due \in Int
    BY JobFields DEF TypeOK
  <2>3. pc' = "setup" /\ deadline' = now + MaxSetup /\ now' = now /\ job' = job
    BY <1>8 DEF BeginSetup, At
  <2> QED BY <1>0, <2>1, <2>2, <2>3 DEF Deadlines, Timed
<1>9. CASE SetupFails
  BY <1>9, <1>0 DEF SetupFails, At, Deadlines
<1>10. CASE Aim
  <2>1. pc = "setup" /\ now' = now /\ job' = job
    BY <1>10 DEF Aim
  <2>2. job.due \in Int
    BY JobFields DEF TypeOK
  <2>3. CASE ~Timed(job)
    <3>1. pc' = "fire" /\ deadline' = NoTime
      BY <1>10, <2>3 DEF Aim, At, Timed
    <3> QED BY <2>1, <2>3, <3>1, <1>0 DEF Deadlines, Timed
  <2>4. CASE Timed(job)
    <3>1. /\ tmst_delta_us(tmst, job.target) = job.due - now
          /\ job.due - now >= TxStartComp
      BY <2>1, <2>4, SetupDelta
    <3>2. IF job.due - now > TxStartComp
          THEN pc' = "aim" /\ deadline' = now + (job.due - now) - TxStartComp
          ELSE pc' = "fire" /\ deadline' = NoTime
      BY <1>10, <2>4, <3>1 DEF Aim, At, Timed
    <3>3. CASE job.due - now > TxStartComp
      <4>1. pc' = "aim" /\ deadline' = job.due - TxStartComp /\ deadline' >= now
        BY <3>2, <3>3, <2>2, <1>0
      <4> QED BY <4>1, <2>1, <2>4, <1>0 DEF Deadlines, Timed
    <3>4. CASE ~(job.due - now > TxStartComp)
      <4>1. pc' = "fire" /\ deadline' = NoTime /\ now = job.due - TxStartComp
        BY <3>1, <3>2, <3>4, <2>2, <1>0
      <4> QED BY <4>1, <2>1, <2>4, <1>0 DEF Deadlines, Timed
    <3> QED BY <3>3, <3>4
  <2> QED BY <2>3, <2>4
<1>11. CASE fire_tx
  BY <1>11, <1>0 DEF fire_tx, At, Deadlines
<1>12. CASE wait_tx_done
  BY <1>12, <1>0 DEF wait_tx_done, At, Deadlines
<1>13. CASE Restore
  BY <1>13, <1>0 DEF Restore, At, Deadlines
<1>14. CASE TakeJob \/ Hear \/ PollAgain
  BY <1>14, <1>0 DEF TakeJob, Hear, PollAgain, At, Deadlines
<1>15. CASE UNCHANGED vars
  BY <1>15 DEF vars, radio, Deadlines, Timed
<1> QED
  BY <1>1, <1>2, <1>3, <1>4, <1>5, <1>6, <1>7, <1>8, <1>9, <1>10, <1>11, <1>12, <1>13,
     <1>14, <1>15 DEF Next, RadioStep

(* The jobs that a step leaves in hand and in the queue.                   *)
LEMMA JobsAfter ==
  ASSUME TypeOK, [Next]_vars
  PROVE  /\ \/ job' = job \/ job' = NoJob
            \/ TakeJob /\ job = NoJob /\ job' = downlinkQ[1] /\ 1 \in DOMAIN downlinkQ
         /\ \/ downlinkQ' = downlinkQ
            \/ TakeJob /\ downlinkQ # <<>> /\ downlinkQ' = Tail(downlinkQ)
            \/ \E target \in NoTime .. Wrap - 1 :
                 /\ PullResp(target) /\ Len(downlinkQ) < DownlinkCap
                 /\ downlinkQ' = Append(downlinkQ, New(target))
         /\ now' \in Nat /\ now <= now'
<1>1. now \in Nat /\ now' \in Nat /\ now <= now'
  <2>1. now' = now \/ now' = now + 1
    BY PullRespStep DEF Next, RadioStep, Tick, PullRespRefused, ForwardUplink, Start, ArmFails,
       Listen, MissWindow, SleepUntilSetup, BeginSetup, SetupFails, Aim, fire_tx, wait_tx_done,
       Restore, TakeJob, Hear, PollAgain, vars
  <2> QED BY <2>1, Numbers
<1>2. CASE TakeJob
  <2>1. downlinkQ # <<>> /\ downlinkQ' = Tail(downlinkQ) /\ job' = Head(downlinkQ) /\ pc = "listen"
    BY <1>2 DEF TakeJob
  <2>2. job = NoJob
    BY <2>1 DEF TypeOK
  <2> QED BY <1>1, <1>2, <2>1, <2>2, TailQ DEF TypeOK
<1>3. ASSUME NEW target \in NoTime .. Wrap - 1, PullResp(target)
      PROVE  /\ job' = job
             /\ \/ downlinkQ' = downlinkQ
                \/ Len(downlinkQ) < DownlinkCap /\ downlinkQ' = Append(downlinkQ, New(target))
  BY <1>3, PullRespStep
<1>4. CASE ~TakeJob /\ ~(\E target \in NoTime .. Wrap - 1 : PullResp(target))
  <2>1. downlinkQ' = downlinkQ /\ (job' = job \/ job' = NoJob)
    BY <1>4 DEF Next, RadioStep, Tick, PullRespRefused, ForwardUplink, Start, ArmFails,
       Listen, MissWindow, SleepUntilSetup, BeginSetup, SetupFails, Aim, fire_tx, wait_tx_done,
       Restore, Hear, PollAgain, vars, radio
  <2> QED BY <1>1, <2>1
<1> QED BY <1>1, <1>2, <1>3, <1>4

LEMMA JobsStep == TimeInv /\ [Next]_vars => JobsSound'
<1> SUFFICES ASSUME TypeOK, JobsSound, [Next]_vars PROVE JobsSound'
  BY DEF TimeInv
<1>1. now' \in Nat /\ now <= now' /\ now \in Nat
  BY JobsAfter, Numbers
<1>2. ASSUME NEW j \in Jobs \cup {NoJob}, JobSound(j, now) PROVE JobSound(j, now')
  <2>1. j.due \in Int
    BY JobFields
  <2> QED BY <1>1, <1>2, <2>1, Constants DEF JobSound
<1>3. JobSound(NoJob, now)
  BY NoJobFields DEF JobSound
<1>4. JobSound(job', now')
  <2>1. CASE job' = job
    BY <1>2, <2>1 DEF JobsSound, TypeOK
  <2>2. CASE job' = NoJob
    BY <1>2, <1>3, <2>2
  <2>3. CASE job' = downlinkQ[1] /\ 1 \in DOMAIN downlinkQ
    BY <1>2, <2>3, QueueFields DEF JobsSound, TypeOK
  <2> QED BY <2>1, <2>2, <2>3, JobsAfter
<1>5. ASSUME NEW k \in DOMAIN downlinkQ' PROVE JobSound(downlinkQ'[k], now')
  <2>1. \A i \in DOMAIN downlinkQ : JobSound(downlinkQ[i], now')
    BY <1>2, QueueFields DEF JobsSound, TypeOK
  <2>2. CASE downlinkQ' = downlinkQ
    BY <1>5, <2>1, <2>2
  <2>3. CASE downlinkQ # <<>> /\ downlinkQ' = Tail(downlinkQ)
    <3>1. k + 1 \in DOMAIN downlinkQ /\ downlinkQ'[k] = downlinkQ[k + 1]
      BY <1>5, <2>3, TailQ DEF TypeOK
    <3> QED BY <2>1, <3>1
  <2>4. ASSUME NEW target \in NoTime .. Wrap - 1, PullResp(target),
               downlinkQ' = Append(downlinkQ, New(target))
        PROVE  JobSound(downlinkQ'[k], now')
    <3>1. New(target) \in Jobs /\ JobSound(New(target), now)
      BY <2>4, NewJob
    <3>2. downlinkQ \in Seq(Jobs)
      BY DEF TypeOK
    <3>3. \/ k \in DOMAIN downlinkQ /\ downlinkQ'[k] = downlinkQ[k]
          \/ downlinkQ'[k] = New(target)
      BY <1>5, <2>4, <3>1, <3>2, AppendQ
    <3> QED BY <1>2, <2>1, <3>1, <3>3
  <2> QED BY <2>2, <2>3, <2>4, JobsAfter
<1> QED BY <1>4, <1>5 DEF JobsSound
(* Left and Spare are what the radio task may still need: no step adds to  *)
(* the delay of a job in the queue.                                        *)
Delay == now + Left + Spare * MaxStep

LEMMA RestNat ==
  ASSUME NEW p, NEW j
  PROVE  Rest(p, j) \in Nat
<1>1. /\ Turn - MaxStep \in Nat /\ SetupLead + 3 * MaxStep \in Nat
      /\ SetupLead - MaxSetup + 3 * MaxStep \in Nat /\ 3 * MaxStep \in Nat
      /\ 2 * MaxStep \in Nat /\ MaxStep \in Nat /\ 0 \in Nat
  BY Constants
<1> QED BY <1>1 DEF Rest

LEMMA LeftValues ==
  ASSUME NEW until \in Int, NEW t \in Nat, NEW j
  PROVE  LET w == IF until = NoTime THEN 0 ELSE until - t
         IN  /\ LeftOf("start", until, t, j) = w + MaxStep
             /\ LeftOf("restore", until, t, j) = w + MaxStep
             /\ j = NoJob => LeftOf("arm", until, t, j) = w
             /\ j # NoJob => LeftOf("arm", until, t, j) = w + MaxAhead + 3 * MaxStep
             /\ LeftOf("listen", until, t, j) = w
             /\ LeftOf("asleep", until, t, j) = w + SetupLead + 3 * MaxStep
             /\ LeftOf("setup", until, t, j) = w + SetupLead - MaxSetup + 3 * MaxStep
             /\ LeftOf("aim", until, t, j) = w + 3 * MaxStep
             /\ LeftOf("fire", until, t, j) = w + 3 * MaxStep
             /\ LeftOf("sending", until, t, j) = w + 2 * MaxStep
<1> DEFINE w == IF until = NoTime THEN 0 ELSE until - t
<1>1. w \in Int
  OBVIOUS
<1>2. \A p : LeftOf(p, until, t, j) = w + Rest(p, j)
  BY DEF LeftOf
<1> HIDE DEF w
<1>3. /\ Rest("start", j) = MaxStep /\ Rest("restore", j) = MaxStep
      /\ j = NoJob => Rest("arm", j) = 0
      /\ j # NoJob => Rest("arm", j) = Turn - MaxStep
      /\ Rest("listen", j) = 0 /\ Rest("asleep", j) = SetupLead + 3 * MaxStep
      /\ Rest("setup", j) = SetupLead - MaxSetup + 3 * MaxStep
      /\ Rest("aim", j) = 3 * MaxStep /\ Rest("fire", j) = 3 * MaxStep
      /\ Rest("sending", j) = 2 * MaxStep
  BY DEF Rest
<1>4. /\ LeftOf("start", until, t, j) = w + MaxStep
      /\ LeftOf("restore", until, t, j) = w + MaxStep
      /\ j = NoJob => LeftOf("arm", until, t, j) = w
      /\ j # NoJob => LeftOf("arm", until, t, j) = w + MaxAhead + 3 * MaxStep
      /\ LeftOf("listen", until, t, j) = w
      /\ LeftOf("asleep", until, t, j) = w + SetupLead + 3 * MaxStep
      /\ LeftOf("setup", until, t, j) = w + SetupLead - MaxSetup + 3 * MaxStep
      /\ LeftOf("aim", until, t, j) = w + 3 * MaxStep
      /\ LeftOf("fire", until, t, j) = w + 3 * MaxStep
      /\ LeftOf("sending", until, t, j) = w + 2 * MaxStep
  BY <1>1, <1>2, <1>3, Constants
<1> QED BY <1>4 DEF w

LEMMA LeftBusy ==
  ASSUME NEW until \in Nat, NEW t \in Nat, NEW j
  PROVE  /\ LeftOf("start", until, t, j) = (until - t) + MaxStep
         /\ LeftOf("restore", until, t, j) = (until - t) + MaxStep
         /\ j = NoJob => LeftOf("arm", until, t, j) = until - t
         /\ j # NoJob => LeftOf("arm", until, t, j) = (until - t) + MaxAhead + 3 * MaxStep
         /\ LeftOf("asleep", until, t, j) = (until - t) + SetupLead + 3 * MaxStep
         /\ LeftOf("setup", until, t, j) = (until - t) + SetupLead - MaxSetup + 3 * MaxStep
         /\ LeftOf("aim", until, t, j) = (until - t) + 3 * MaxStep
         /\ LeftOf("sending", until, t, j) = (until - t) + 2 * MaxStep
<1>1. until \in Int /\ until # NoTime
  BY DEF NoTime
<1> QED BY <1>1, LeftValues

LEMMA LeftIdle ==
  ASSUME NEW t \in Nat, NEW j
  PROVE  LeftOf("listen", NoTime, t, j) = 0 /\ LeftOf("fire", NoTime, t, j) = 3 * MaxStep
<1>1. NoTime \in Int
  BY DEF NoTime
<1> QED BY <1>1, LeftValues, Constants

LEMMA LeftNat ==
  ASSUME NEW t \in Nat, NEW until, until = NoTime \/ (until \in Nat /\ t <= until), NEW p, NEW j
  PROVE  LeftOf(p, until, t, j) \in Nat
<1>1. Rest(p, j) \in Nat
  BY RestNat
<1>2. (IF until = NoTime THEN 0 ELSE until - t) \in Nat
  OBVIOUS
<1> QED BY <1>1, <1>2 DEF LeftOf

LEMMA LeftType ==
  ASSUME TypeOK, Deadlines
  PROVE  Left \in Nat
<1>1. Rest(pc, job) \in Nat
  BY RestNat
<1>2. deadline # NoTime => deadline - now \in Nat
  BY Numbers DEF Deadlines
<1> QED BY <1>1, <1>2 DEF Left, LeftOf

LEMMA SpareStep ==
  ASSUME TypeOK, [Next]_vars
  PROVE  /\ UNCHANGED <<heard, faults>> => Spare' * MaxStep = Spare * MaxStep
         /\ heard' = heard /\ faults' = faults + 1 => Spare' * MaxStep = Spare * MaxStep - MaxStep
         /\ heard' = heard + 1 /\ faults' = faults => Spare' * MaxStep = Spare * MaxStep - MaxStep
         /\ Spare' * MaxStep \in Nat /\ Spare * MaxStep \in Nat
<1>1. UNCHANGED <<heard, faults>> => Spare' = Spare
  BY DEF Spare
<1>2. heard' = heard /\ faults' = faults + 1 => Spare' = Spare - 1
  BY Numbers, Constants DEF Spare
<1>3. heard' = heard + 1 /\ faults' = faults => Spare' = Spare - 1
  BY Numbers, Constants DEF Spare
<1>4. Spare' \in Nat
  <2>1. TypeOK'
    BY TypeStep
  <2>2. heard' \in 0 .. MaxUplinks /\ faults' \in 0 .. MaxFaults
    BY <2>1 DEF TypeOK
  <2>3. Spare' = (MaxUplinks - heard') + (MaxFaults - faults')
    BY DEF Spare
  <2>4. MaxUplinks - heard' \in Nat /\ MaxFaults - faults' \in Nat
    <3>1. \A h \in 0 .. MaxUplinks : MaxUplinks - h \in Nat
      BY Constants
    <3>2. \A f \in 0 .. MaxFaults : MaxFaults - f \in Nat
      BY Constants
    <3> QED BY <2>2, <3>1, <3>2, Zenon
  <2> HIDE DEF Spare
  <2> QED BY <2>3, <2>4
<1>5. Spare' * MaxStep \in Nat
  <2> DEFINE n == Spare'
  <2>1. n \in Nat
    BY <1>4
  <2> HIDE DEF n
  <2>2. n * MaxStep \in Nat
    BY <2>1, Constants
  <2> QED BY <2>2 DEF n
<1> QED BY <1>1, <1>2, <1>3, <1>5, SpareNat

(* The distances at which a job is put to sleep and aimed.                 *)
LEMMA SleepTime ==
  ASSUME NEW t \in Nat, NEW due \in Int, NEW until \in Int, NEW next \in Int,
         due - t <= MaxAhead, t <= until, next = due - SetupLead
  PROVE  (next - t) + SetupLead + 3 * MaxStep <= (until - t) + MaxAhead + 3 * MaxStep
  BY Constants

LEMMA AimTime ==
  ASSUME NEW t \in Nat, NEW due \in Int, NEW until \in Int, NEW next \in Int,
         until = due - SetupLead + MaxSetup, next = due - TxStartComp
  PROVE  (next - t) + 3 * MaxStep <= (until - t) + SetupLead - MaxSetup + 3 * MaxStep
  BY Constants

LEMMA DelayStep ==
  ASSUME TypeOK, Deadlines, JobsSound, WaitsInTime, [Next]_vars,
         downlinkQ' = downlinkQ, downlinkQ # <<>>, pc' # "dead", pc # "dead"
  PROVE  Delay' <= Delay
<1>0. /\ now \in Nat /\ MaxStep \in Nat /\ MaxSetup \in Nat /\ NoTime = -1 /\ deadline \in Int
      /\ SetupLead \in Nat /\ TxStartComp \in Nat /\ MaxAhead \in Nat
      /\ MaxSetup + TxStartComp <= SetupLead /\ SetupLead <= MaxAhead
  BY Numbers, Constants
<1>s. Spare' * MaxStep \in Nat /\ Spare * MaxStep \in Nat
  BY SpareStep
<1> DEFINE s == Spare * MaxStep
           t == Spare' * MaxStep
<1>d. Delay = now + Left + s /\ Delay' = now' + Left' + t
  BY DEF Delay
<1>t. s \in Nat /\ t \in Nat
  BY <1>s
<1>u. /\ UNCHANGED <<heard, faults>> => t = s
      /\ heard' = heard /\ faults' = faults + 1 => t = s - MaxStep
      /\ heard' = heard + 1 /\ faults' = faults => t = s - MaxStep
  BY SpareStep
<1> HIDE DEF s, t
<1>k. (deadline # NoTime => deadline \in Nat) /\ (deadline' # NoTime => deadline' \in Nat)
  <2>1. TypeOK'
    BY TypeStep
  <2> QED BY <2>1 DEF TypeOK
<1>l. /\ Left = LeftOf(pc, deadline, now, job) /\ Left' = LeftOf(pc', deadline', now', job')
  BY DEF Left
<1>h. pc = "start" \/ pc = "listen" \/ pc = "restore" => job = NoJob
  BY DEF TypeOK
<1>j. pc \in {"asleep", "setup", "aim", "fire", "sending"} => job # NoJob
  BY DEF TypeOK
<1>1. CASE Tick
  <2>1. /\ now' = now + 1 /\ UNCHANGED <<pc, job, deadline, heard, faults>>
        /\ deadline = NoTime \/ now < deadline
        /\ pc # "fire" /\ pc # "listen"
    BY <1>1 DEF Tick, radio
  <2>2. deadline # NoTime
    BY <2>1 DEF Deadlines, TypeOK, Places
  <2>3. Left = deadline - now + Rest(pc, job) /\ Left' = deadline - (now + 1) + Rest(pc, job)
    BY <2>1, <2>2, <1>l DEF LeftOf
  <2>4. Rest(pc, job) \in Nat
    BY RestNat
  <2>5. t = s
    BY <2>1, <1>u
  <2> DEFINE rest == Rest(pc, job)
  <2>6. rest \in Nat
    BY <2>4
  <2> HIDE DEF rest
  <2>7. (now + 1) + (deadline - (now + 1) + rest) + s = now + (deadline - now + rest) + s
    BY <1>0, <1>t, <2>6
  <2>8. Delay' = (now + 1) + (deadline - (now + 1) + rest) + s
    BY <1>d, <2>1, <2>3, <2>5 DEF rest
  <2>9. Delay = now + (deadline - now + rest) + s
    BY <1>d, <2>3 DEF rest
  <2>10. now + (deadline - now + rest) + s \in Int
    BY <1>0, <1>t, <2>6
  <2> QED BY <2>7, <2>8, <2>9, <2>10
<1>2. CASE PullRespRefused \/ ForwardUplink \/ \E target \in NoTime .. Wrap - 1 : PullResp(target)
  <2>1. UNCHANGED <<now, pc, job, deadline, heard, faults>>
    BY <1>2, PullRespStep DEF PullRespRefused, ForwardUplink, radio
  <2>2. Left' = Left /\ t = s
    BY <2>1, <1>u DEF Left
  <2> QED BY <2>1, <2>2, <1>d, <1>0, <1>t, LeftType
<1>3. CASE Start
  <2>1. /\ pc = "start" /\ now' = now /\ job' = job /\ heard' = heard /\ faults' = faults
        /\ pc' = "arm" /\ deadline' = now + MaxStep
    BY <1>3 DEF Start, At
  <2>2. Left' = MaxStep /\ Left = deadline - now + MaxStep /\ now <= deadline
    <3>1. now <= deadline /\ deadline # NoTime
      BY <2>1 DEF Deadlines
    <3>2. Left = deadline - now + MaxStep
      BY <2>1, <3>1, <1>h, <1>0, <1>l, LeftBusy, LeftIdle, SMTT(30)
    <3>3. Left' = MaxStep
      BY <2>1, <1>h, <1>0, <1>l, LeftBusy, LeftIdle, SMTT(30)
    <3> QED BY <3>1, <3>2, <3>3
  <2> QED BY <2>1, <2>2, <1>d, <1>u, <1>0, <1>t
<1>4. CASE ArmFails
  <2>1. /\ pc = "arm" /\ now' = now /\ job' = job /\ heard' = heard /\ faults' = faults + 1
        /\ pc' = "arm" /\ deadline' = now + MaxStep
    BY <1>4 DEF ArmFails, At, Fault
  <2> DEFINE r == Rest("arm", job)
  <2>2. r \in Nat
    BY RestNat
  <2>3. Left' = MaxStep + r /\ Left = deadline - now + r /\ now <= deadline
    BY <2>1, <2>2, <1>0, <1>l DEF LeftOf, Deadlines
  <2> HIDE DEF r
  <2> QED BY <2>1, <2>2, <2>3, <1>d, <1>u, <1>0, <1>t
<1>5. CASE Listen
  <2>1. /\ pc = "arm" /\ now' = now /\ job = NoJob /\ job' = job /\ heard' = heard
        /\ faults' = faults /\ pc' = "listen" /\ deadline' = NoTime
    BY <1>5 DEF Listen, At
  <2>2. Left' = 0 /\ Left = deadline - now /\ now <= deadline
    BY <2>1, <1>0, <1>l, LeftBusy, LeftIdle DEF Deadlines
  <2> QED BY <2>1, <2>2, <1>d, <1>u, <1>0, <1>t
<1>6. CASE MissWindow
  <2>1. /\ pc = "arm" /\ now' = now /\ job # NoJob /\ job' = NoJob /\ heard' = heard
        /\ faults' = faults /\ pc' = "restore" /\ deadline' = now + MaxStep
    BY <1>6 DEF MissWindow, At
  <2>2. Left' = 2 * MaxStep /\ Left = deadline - now + MaxAhead + 3 * MaxStep /\ now <= deadline
    BY <2>1, <1>0, <1>l, LeftBusy, LeftIdle DEF Deadlines
  <2> QED BY <2>1, <2>2, <1>d, <1>u, <1>0, <1>t
<1>7. CASE SleepUntilSetup
  <2>1. Timed(job) /\ pc = "arm" /\ job # NoJob
    BY <1>7 DEF SleepUntilSetup, Timed
  <2>2. /\ job.due \in Int /\ tmst_delta_us(tmst, job.target) = job.due - now
        /\ job.due - now <= MaxAhead
    BY <2>1, ArmDelta, JobFields DEF TypeOK
  <2>3. /\ pc' = "asleep" /\ deadline' = now + (job.due - now) - SetupLead
        /\ job.due - now >= SetupLead /\ now' = now /\ job' = job /\ heard' = heard
        /\ faults' = faults
    BY <1>7, <2>2 DEF SleepUntilSetup, At
  <2>4. /\ deadline' # NoTime /\ deadline' = job.due - SetupLead
        /\ deadline # NoTime /\ now <= deadline
    BY <2>1, <2>2, <2>3, <1>0 DEF Deadlines
  <2>5. Left = (deadline - now) + MaxAhead + 3 * MaxStep
    BY <2>1, <2>4, <1>0, <1>k, <1>l, LeftBusy
  <2> DEFINE next == deadline'
  <2>6. /\ Left' = (next - now) + SetupLead + 3 * MaxStep
        /\ next = job.due - SetupLead /\ next \in Int
    BY <2>3, <2>4, <1>0, <1>k, <1>l, LeftBusy
  <2> HIDE DEF next
  <2>7. (next - now) + SetupLead + 3 * MaxStep <= (deadline - now) + MaxAhead + 3 * MaxStep
    BY <2>2, <2>4, <2>6, <1>0, SleepTime
  <2>8. t = s
    BY <2>3, <1>u
  <2>9. now + ((next - now) + SetupLead + 3 * MaxStep) + s
          <= now + ((deadline - now) + MaxAhead + 3 * MaxStep) + s
    BY <2>6, <2>7, <1>0, <1>t
  <2> QED BY <2>3, <2>5, <2>6, <2>8, <2>9, <1>d
<1>8. CASE BeginSetup
  <2>1. /\ pc' = "setup" /\ deadline' = now + MaxSetup /\ now' = now /\ job' = job
        /\ heard' = heard /\ faults' = faults /\ job # NoJob
        /\ (pc = "asleep" /\ now = deadline) \/ pc = "arm"
    BY <1>8, <1>j DEF BeginSetup, At
  <2>2. Left' = MaxSetup + SetupLead - MaxSetup + 3 * MaxStep
    BY <2>1, <1>0, <1>l, LeftBusy, LeftIdle
  <2>3. Left >= SetupLead + 3 * MaxStep
    <3>1. CASE pc = "asleep" /\ now = deadline
      BY <2>1, <3>1, <1>0, <1>l, LeftBusy, LeftIdle
    <3>2. CASE pc = "arm"
      <4>1. Left = deadline - now + MaxAhead + 3 * MaxStep /\ now <= deadline
        BY <2>1, <3>2, <1>0, <1>l, LeftBusy, LeftIdle DEF Deadlines
      <4> QED BY <4>1, <1>0
    <3> QED BY <2>1, <3>1, <3>2
  <2> QED BY <2>1, <2>2, <2>3, <1>d, <1>u, <1>0, <1>t, LeftType
<1>9. CASE SetupFails
  <2>1. /\ pc' = "restore" /\ deadline' = now + MaxStep /\ now' = now /\ job' = NoJob
        /\ heard' = heard /\ faults' = faults + 1 /\ job # NoJob /\ pc \in {"setup", "fire"}
    BY <1>9, <1>j DEF SetupFails, At, Fault
  <2>2. Left' = 2 * MaxStep
    BY <2>1, <1>0, <1>l, LeftBusy, LeftIdle
  <2>3. Left >= 3 * MaxStep
    <3>1. CASE pc = "fire"
      BY <2>1, <3>1, <1>0, <1>l, LeftBusy, LeftIdle DEF Deadlines
    <3>2. CASE pc = "setup"
      <4>1. Left = deadline - now + SetupLead - MaxSetup + 3 * MaxStep /\ now <= deadline
        BY <2>1, <3>2, <1>0, <1>l, LeftBusy, LeftIdle DEF Deadlines
      <4> QED BY <4>1, <1>0
    <3> QED BY <2>1, <3>1, <3>2
  <2> QED BY <2>1, <2>2, <2>3, <1>d, <1>u, <1>0, <1>t, LeftType
<1>10. CASE Aim
  <2>1. /\ pc = "setup" /\ now' = now /\ job' = job /\ heard' = heard /\ faults' = faults
        /\ job # NoJob /\ now <= deadline /\ deadline # NoTime
    BY <1>10, <1>j DEF Aim, Deadlines
  <2>2. Left = deadline - now + SetupLead - MaxSetup + 3 * MaxStep
    BY <2>1, <1>0, <1>l, LeftBusy, LeftIdle
  <2>3. job.due \in Int
    BY JobFields DEF TypeOK
  <2>4. CASE pc' = "fire" /\ deadline' = NoTime
    <3>1. Left' = 3 * MaxStep
      BY <2>1, <2>4, <1>0, <1>l, LeftBusy, LeftIdle
    <3> QED BY <2>1, <2>2, <3>1, <1>d, <1>u, <1>0, <1>t
  <2>5. CASE ~(pc' = "fire" /\ deadline' = NoTime)
    <3>1. Timed(job)
      BY <1>10, <2>5 DEF Aim, At, Timed
    <3>2. tmst_delta_us(tmst, job.target) = job.due - now
      BY <2>1, <3>1, SetupDelta
    <3>3. job.due - now > TxStartComp /\ pc' = "aim" /\ deadline' = now + (job.due - now) - TxStartComp
      BY <1>10, <2>5, <3>1, <3>2 DEF Aim, At, Timed
    <3>4. deadline = job.due - SetupLead + MaxSetup
      BY <2>1, <3>1 DEF Deadlines
    <3> DEFINE next == deadline'
    <3>5. next = job.due - TxStartComp /\ next \in Nat /\ next \in Int
      BY <2>3, <3>3, <1>0
    <3>6. Left' = (next - now) + 3 * MaxStep
      BY <2>1, <3>3, <3>5, <1>0, <1>l, LeftBusy, SMTT(30)
    <3> HIDE DEF next
    <3>7. (next - now) + 3 * MaxStep <= (deadline - now) + SetupLead - MaxSetup + 3 * MaxStep
      <4>1. now \in Nat /\ job.due \in Int /\ deadline \in Int /\ next \in Int
            /\ deadline = job.due - SetupLead + MaxSetup /\ next = job.due - TxStartComp
        BY <2>3, <3>4, <3>5, <1>0
      <4> QED BY <4>1, AimTime
    <3>8. t = s
      BY <2>1, <1>u
    <3>9. now + ((next - now) + 3 * MaxStep) + s
            <= now + ((deadline - now) + SetupLead - MaxSetup + 3 * MaxStep) + s
      BY <3>5, <3>7, <1>0, <1>t, SMTT(30)
    <3> QED BY <2>1, <2>2, <3>6, <3>8, <3>9, <1>d
  <2> QED BY <2>4, <2>5
<1>11. CASE fire_tx
  <2>1. /\ pc' = "sending" /\ deadline' = now + MaxStep /\ now' = now /\ job' = job
        /\ heard' = heard /\ faults' = faults /\ job # NoJob /\ pc \in {"fire", "aim"}
        /\ now <= deadline \/ deadline = NoTime
    BY <1>11, <1>j DEF fire_tx, At, Deadlines
  <2>2. Left' = 3 * MaxStep
    BY <2>1, <1>0, <1>l, LeftBusy, LeftIdle
  <2>3. Left >= 3 * MaxStep
    <3>1. CASE pc = "fire"
      BY <2>1, <3>1, <1>0, <1>l, LeftIdle DEF Deadlines
    <3>2. CASE pc = "aim"
      <4>1. Left = (deadline - now) + 3 * MaxStep /\ now <= deadline
        BY <2>1, <3>2, <1>0, <1>k, <1>l, LeftBusy DEF Deadlines
      <4> QED BY <4>1, <1>0
    <3> QED BY <2>1, <3>1, <3>2
  <2> QED BY <2>1, <2>2, <2>3, <1>d, <1>u, <1>0, <1>t, LeftType
<1>12. CASE wait_tx_done
  <2>1. /\ pc = "sending" /\ pc' = "restore" /\ deadline' = now + MaxStep /\ now' = now
        /\ job' = NoJob /\ job # NoJob /\ heard' = heard
        /\ faults' = faults \/ faults' = faults + 1
    BY <1>12, <1>j DEF wait_tx_done, At, Fault
  <2>2. Left' = 2 * MaxStep /\ Left = deadline - now + 2 * MaxStep /\ now <= deadline
    BY <2>1, <1>0, <1>l, LeftBusy, LeftIdle DEF Deadlines
  <2>3. t <= s
    BY <2>1, <1>u, <1>t, <1>0
  <2> QED BY <2>1, <2>2, <2>3, <1>d, <1>0, <1>t
<1>13. CASE Restore
  <2>1. /\ pc = "restore" /\ pc' = "arm" /\ deadline' = now + MaxStep /\ now' = now
        /\ job' = job /\ heard' = heard
        /\ faults' = faults \/ faults' = faults + 1
    BY <1>13 DEF Restore, At, Fault
  <2>2. Left' = MaxStep /\ Left = deadline - now + MaxStep /\ now <= deadline
    <3>1. now <= deadline /\ deadline # NoTime
      BY <2>1 DEF Deadlines
    <3>2. Left = deadline - now + MaxStep
      BY <2>1, <3>1, <1>h, <1>0, <1>l, LeftBusy, LeftIdle, SMTT(30)
    <3>3. Left' = MaxStep
      BY <2>1, <1>h, <1>0, <1>l, LeftBusy, LeftIdle, SMTT(30)
    <3> QED BY <3>1, <3>2, <3>3
  <2>3. t <= s
    BY <2>1, <1>u, <1>t, <1>0
  <2> QED BY <2>1, <2>2, <2>3, <1>d, <1>0, <1>t
<1>14. CASE Hear \/ PollAgain
  <2>1. /\ pc = "listen" /\ pc' = "arm" /\ deadline' = now + MaxStep /\ now' = now
        /\ job' = job /\ heard' = heard + 1 /\ faults' = faults
    BY <1>14 DEF Hear, PollAgain, At
  <2>2. Left' = MaxStep /\ Left = 0
    BY <2>1, <1>h, <1>0, <1>l, LeftBusy, LeftIdle DEF Deadlines
  <2> QED BY <2>1, <2>2, <1>d, <1>u, <1>0, <1>t
<1>15. CASE TakeJob
  <2>1. downlinkQ' = Tail(downlinkQ)
    BY <1>15 DEF TakeJob
  <2>2. Len(Tail(downlinkQ)) = Len(downlinkQ) - 1 /\ Len(downlinkQ) \in Nat
    BY TailQ DEF TypeOK
  <2> QED BY <2>1, <2>2
<1>16. CASE UNCHANGED vars
  <2>1. Left' = Left /\ t = s /\ now' = now
    BY <1>16, <1>u DEF Left, vars, radio
  <2> QED BY <2>1, <1>d, <1>0, <1>t, LeftType
<1> QED
  BY <1>1, <1>2, <1>3, <1>4, <1>5, <1>6, <1>7, <1>8, <1>9, <1>10, <1>11, <1>12, <1>13,
     <1>14, <1>15, <1>16 DEF Next, RadioStep
(* The longest delay is that of a job accepted behind a full queue.        *)
LEMMA LeftBound ==
  ASSUME TypeOK, Deadlines, JobsSound, pc # "dead"
  PROVE  Left <= Turn
<1>0. /\ now \in Nat /\ MaxStep \in Nat /\ MaxSetup \in Nat /\ NoTime = -1 /\ deadline \in Int
      /\ SetupLead \in Nat /\ TxStartComp \in Nat /\ MaxAhead \in Nat
      /\ MaxSetup + TxStartComp <= SetupLead /\ SetupLead <= MaxAhead
      /\ Turn = MaxAhead + 4 * MaxStep
  BY Numbers, Constants
<1>1. Left = LeftOf(pc, deadline, now, job)
  BY DEF Left
<1>2. deadline # NoTime => deadline \in Nat /\ now <= deadline
  BY DEF TypeOK, Deadlines
<1>3. CASE pc \in {"listen", "fire"}
  <2>1. deadline = NoTime
    BY <1>3 DEF Deadlines
  <2>2. Left = 0 \/ Left = 3 * MaxStep
    BY <1>0, <1>1, <1>3, <2>1, LeftIdle
  <2> QED BY <1>0, <2>2
<1>4. CASE pc \in {"start", "arm", "sending", "restore"}
  <2>1. deadline \in Nat /\ now <= deadline /\ deadline <= now + MaxStep
    BY <1>2, <1>4 DEF Deadlines
  <2>2. \/ Left = (deadline - now) + MaxStep
        \/ Left = deadline - now
        \/ Left = (deadline - now) + MaxAhead + 3 * MaxStep
        \/ Left = (deadline - now) + 2 * MaxStep
    BY <1>0, <1>1, <1>4, <2>1, LeftBusy
  <2> QED BY <1>0, <2>1, <2>2
<1>5. CASE pc = "setup"
  <2>1. deadline \in Nat /\ now <= deadline /\ deadline <= now + MaxSetup
    BY <1>2, <1>5 DEF Deadlines
  <2>2. Left = (deadline - now) + SetupLead - MaxSetup + 3 * MaxStep
    BY <1>0, <1>1, <1>5, <2>1, LeftBusy
  <2> QED BY <1>0, <2>1, <2>2
<1>6. CASE pc \in {"asleep", "aim"}
  <2>1. /\ deadline \in Nat /\ now <= deadline /\ Timed(job)
        /\ \/ pc = "asleep" /\ deadline = job.due - SetupLead
           \/ pc = "aim" /\ deadline = job.due - TxStartComp
    BY <1>2, <1>6 DEF Deadlines
  <2>2. job.due \in Int /\ job.due <= now + MaxAhead
    BY <2>1, JobFields DEF JobsSound, JobSound, TypeOK
  <2>3. \/ pc = "asleep" /\ Left = (deadline - now) + SetupLead + 3 * MaxStep
        \/ pc = "aim" /\ Left = (deadline - now) + 3 * MaxStep
    BY <1>0, <1>1, <1>6, <2>1, LeftBusy
  <2> QED BY <1>0, <2>1, <2>2, <2>3
<1> QED BY <1>3, <1>4, <1>5, <1>6 DEF TypeOK, Places

(* The job in hand is armed for at most as long as its deadline says.      *)
LEMMA HandStep ==
  ASSUME TypeOK, Deadlines, JobsSound, WaitsInTime, [Next]_vars, pc' = "arm", Timed(job')
  PROVE  deadline' + Spare' * MaxStep <= job'.due + Half
<1>0. /\ now \in Nat /\ MaxStep \in Nat /\ deadline \in Int /\ Half \in Nat
  BY Numbers, Constants
<1> DEFINE s == Spare * MaxStep
           t == Spare' * MaxStep
<1>t. s \in Nat /\ t \in Nat
  BY SpareStep
<1>u. /\ UNCHANGED <<heard, faults>> => t = s
      /\ heard' = heard /\ faults' = faults + 1 => t = s - MaxStep
  BY SpareStep
<1>w. pc = "arm" /\ Timed(job) => deadline + s <= job.due + Half
  BY DEF WaitsInTime
<1>j. job.due \in Int /\ \A k \in DOMAIN downlinkQ : downlinkQ[k].due \in Int
  BY JobFields, QueueFields DEF TypeOK
<1> HIDE DEF s, t
<1>1. CASE ArmFails
  <2>1. /\ pc = "arm" /\ now' = now /\ job' = job /\ heard' = heard /\ faults' = faults + 1
        /\ deadline' = now + MaxStep /\ now <= deadline
    BY <1>1 DEF ArmFails, At, Fault, Deadlines
  <2>2. Timed(job)
    BY <2>1 DEF Timed
  <2>3. t = s - MaxStep
    BY <2>1, <1>u
  <2>4. (now + MaxStep) + (s - MaxStep) <= job.due + Half
    BY <2>1, <2>2, <1>w, <1>0, <1>t, <1>j
  <2> QED BY <2>1, <2>3, <2>4 DEF t
<1>2. CASE TakeJob
  <2>1. /\ pc = "listen" /\ now' = now /\ job' = downlinkQ[1] /\ heard' = heard
        /\ faults' = faults /\ deadline' = now + MaxStep /\ deadline = NoTime
        /\ 1 \in DOMAIN downlinkQ
    BY <1>2, TailQ DEF TakeJob, At, Deadlines, TypeOK
  <2>2. Timed(downlinkQ[1])
    BY <2>1 DEF Timed
  <2>3. now + Left + (1 - 1) * Turn + MaxStep + s <= downlinkQ[1].due + Half
    BY <2>1, <2>2 DEF WaitsInTime, s
  <2>4. Left = 0
    BY <2>1, <1>0, LeftIdle DEF Left
  <2>5. (1 - 1) * Turn = 0
    BY Constants
  <2>6. now + MaxStep + s <= downlinkQ[1].due + Half
    BY <2>1, <2>3, <2>4, <2>5, <1>0, <1>t, <1>j
  <2>7. t = s
    BY <2>1, <1>u
  <2> QED BY <2>1, <2>6, <2>7 DEF t
<1>3. CASE UNCHANGED <<pc, job, deadline, heard, faults>>
  <2>1. Timed(job)
    BY <1>3 DEF Timed
  <2>2. t = s
    BY <1>3, <1>u
  <2> QED BY <1>3, <2>1, <2>2, <1>w DEF t
<1>4. CASE Start \/ Listen \/ MissWindow \/ SleepUntilSetup \/ BeginSetup \/ SetupFails \/ Aim
           \/ fire_tx \/ wait_tx_done \/ Restore \/ Hear \/ PollAgain
  <2>1. pc' = "arm" => job' = NoJob
    BY <1>4 DEF Start, Listen, MissWindow, SleepUntilSetup, BeginSetup, SetupFails, Aim,
       fire_tx, wait_tx_done, Restore, Hear, PollAgain, At, TypeOK
  <2>2. job' = NoJob => ~Timed(job')
    BY NoJobFields DEF Timed
  <2> QED BY <2>1, <2>2
<1>5. CASE Tick \/ PullRespRefused \/ ForwardUplink \/ UNCHANGED vars
  <2>1. UNCHANGED <<pc, job, deadline, heard, faults>>
    BY <1>5 DEF Tick, PullRespRefused, ForwardUplink, vars, radio
  <2> QED BY <1>3, <2>1
<1>6. CASE \E target \in NoTime .. Wrap - 1 : PullResp(target)
  <2>1. UNCHANGED <<pc, job, deadline, heard, faults>>
    BY <1>6, PullRespStep
  <2> QED BY <1>3, <2>1
<1> QED BY <1>1, <1>2, <1>4, <1>5, <1>6 DEF Next, RadioStep
LEMMA DeadStays ==
  ASSUME [Next]_vars, pc = "dead"
  PROVE  pc' = "dead"
  BY PullRespStep DEF Next, RadioStep, Tick, PullRespRefused, ForwardUplink, Start, ArmFails, Listen,
     MissWindow, SleepUntilSetup, BeginSetup, SetupFails, Aim, fire_tx, wait_tx_done, Restore,
     TakeJob, Hear, PollAgain, vars, radio

(* A job that is accepted, with all the delays that can come.              *)
LEMMA AcceptedInTime ==
  ASSUME TypeOK, Deadlines, JobsSound, pc # "dead", Len(downlinkQ) < DownlinkCap,
         NEW target \in NoTime .. Wrap - 1, PullResp(target), Timed(New(target))
  PROVE  now + Left + Len(downlinkQ) * Turn + MaxStep + Spare * MaxStep <= New(target).due + Half
<1>0. /\ now \in Nat /\ MaxStep \in Nat /\ Half \in Nat /\ SetupLead \in Nat /\ Turn \in Nat
      /\ Len(downlinkQ) \in Nat /\ DownlinkCap \in Nat /\ MaxUplinks \in Nat /\ MaxFaults \in Nat
  BY Numbers, Constants DEF TypeOK
<1>1. New(target).due \in Int /\ New(target).due >= now + SetupLead
  BY NewJob, JobFields
<1>2. Left \in Nat /\ Left <= Turn
  BY LeftType, LeftBound
<1> DEFINE n == Len(downlinkQ)
           s == Spare * MaxStep
<1>3. n * Turn \in Nat /\ (n + 1) * Turn = n * Turn + Turn /\ (n + 1) * Turn <= DownlinkCap * Turn
  <2>1. n + 1 <= DownlinkCap /\ n \in Nat /\ n + 1 \in Int /\ DownlinkCap \in Int
    BY <1>0
  <2> HIDE DEF n
  <2> QED BY <2>1, <1>0, ScaleMono, Products
<1>4. s <= (MaxUplinks + MaxFaults) * MaxStep /\ s \in Nat
  <2>1. Spare \in Nat /\ Spare <= MaxUplinks + MaxFaults /\ s \in Nat
    BY SpareNat
  <2>2. Spare \in Int /\ MaxUplinks + MaxFaults \in Int
    BY <2>1, <1>0
  <2> HIDE DEF Spare
  <2> QED BY <2>1, <2>2, <1>0, ScaleMono
<1>5. DownlinkCap * Turn + (1 + MaxUplinks + MaxFaults) * MaxStep <= Half + SetupLead
  BY HorizonAssumption DEF Half
<1>6. (1 + MaxUplinks + MaxFaults) * MaxStep = (MaxUplinks + MaxFaults) * MaxStep + MaxStep
      /\ (MaxUplinks + MaxFaults) * MaxStep \in Nat
  BY <1>0
<1>7. DownlinkCap * Turn \in Nat
  BY <1>0
<1> DEFINE c == DownlinkCap * Turn
           m == (MaxUplinks + MaxFaults) * MaxStep
           q == n * Turn
<1> HIDE DEF s, n, Left
<1>8. /\ q \in Nat /\ q + Turn <= c /\ s <= m /\ s \in Nat /\ c \in Nat /\ m \in Nat
      /\ c + m + MaxStep <= Half + SetupLead
  BY <1>0, <1>3, <1>4, <1>5, <1>6, <1>7
<1> HIDE DEF q, c, m
<1>9. now + Left + q + MaxStep + s <= New(target).due + Half
  BY <1>0, <1>1, <1>2, <1>8
<1> QED BY <1>9 DEF q, s, n

LEMMA WaitsStep == TimeInv /\ [Next]_vars => WaitsInTime'
<1> SUFFICES ASSUME TypeOK, Deadlines, JobsSound, WaitsInTime, [Next]_vars, pc' # "dead"
             PROVE  WaitsInTime'
  BY DEF TimeInv, WaitsInTime
<1>0. /\ now \in Nat /\ MaxStep \in Nat /\ Half \in Nat /\ Turn \in Nat /\ MaxAhead \in Nat
      /\ Turn = MaxAhead + 4 * MaxStep
  BY Numbers, Constants
<1>1. pc # "dead"
  BY DeadStays
<1>2. pc' = "arm" /\ Timed(job') => deadline' + Spare' * MaxStep <= job'.due + Half
  BY HandStep
<1>s. Spare * MaxStep \in Nat /\ Left \in Nat
  BY SpareNat, LeftType
<1>q. \A k \in DOMAIN downlinkQ : k \in Nat /\ downlinkQ[k].due \in Int
  BY JobFields, QueueFields DEF TypeOK
<1>w. \A k \in DOMAIN downlinkQ : Timed(downlinkQ[k]) =>
        now + Left + (k - 1) * Turn + MaxStep + Spare * MaxStep <= downlinkQ[k].due + Half
  BY <1>1 DEF WaitsInTime
<1>3. ASSUME NEW k \in DOMAIN downlinkQ', Timed(downlinkQ'[k])
      PROVE  now' + Left' + (k - 1) * Turn + MaxStep + Spare' * MaxStep <= downlinkQ'[k].due + Half
  <2>1. CASE downlinkQ' = downlinkQ
    <3>1. k \in DOMAIN downlinkQ /\ downlinkQ # <<>> /\ Timed(downlinkQ[k])
      BY <1>3, <2>1 DEF Timed
    <3>2. Delay' <= Delay
      BY <1>1, <2>1, <3>1, DelayStep
    <3>3. TypeOK' /\ Deadlines'
      BY TypeStep, DeadlinesStep DEF TimeInv
    <3>4. now' \in Nat /\ Spare' * MaxStep \in Nat
      BY JobsAfter, SpareStep
    <3>5. Left' \in Nat
      <4>1. deadline' = NoTime \/ (deadline' \in Nat /\ now' <= deadline')
        BY <3>3 DEF TypeOK, Deadlines
      <4>2. LeftOf(pc', deadline', now', job') \in Nat
        BY <3>4, <4>1, LeftNat
      <4> QED BY <4>2 DEF Left
    <3> DEFINE d == Delay
               e == Delay'
               z == (k - 1) * Turn
    <3>6. d \in Nat /\ e \in Nat /\ z \in Int
      <4>1. d \in Nat
        BY <1>s, <1>0 DEF Delay
      <4>2. e = now' + Left' + Spare' * MaxStep
        BY DEF Delay
      <4>3. e \in Nat
        BY <4>2, <3>4, <3>5
      <4>4. z \in Int
        BY <1>0, <1>q, <3>1
      <4> QED BY <4>1, <4>3, <4>4
    <3>7. now' + Left' + z + MaxStep + Spare' * MaxStep = e + z + MaxStep
      BY <3>4, <3>5, <3>6, <1>0 DEF Delay
    <3>8. now + Left + z + MaxStep + Spare * MaxStep = d + z + MaxStep
      BY <1>s, <3>6, <1>0 DEF Delay
    <3>9. d + z + MaxStep <= downlinkQ[k].due + Half
      BY <3>1, <3>8, <1>w
    <3> HIDE DEF d, e, z
    <3>10. e <= d
      BY <3>2 DEF d, e
    <3>11. e + z + MaxStep <= downlinkQ[k].due + Half
      BY <3>6, <3>9, <3>10, <3>1, <1>q, <1>0
    <3> QED BY <2>1, <3>7, <3>11 DEF z
  <2>2. CASE TakeJob /\ downlinkQ # <<>> /\ downlinkQ' = Tail(downlinkQ)
    <3>1. /\ k + 1 \in DOMAIN downlinkQ /\ downlinkQ'[k] = downlinkQ[k + 1] /\ k \in Nat
      BY <1>3, <2>2, TailQ DEF TypeOK
    <3>2. /\ pc = "listen" /\ deadline = NoTime /\ now' = now /\ pc' = "arm"
          /\ deadline' = now + MaxStep /\ heard' = heard /\ faults' = faults
          /\ job' \in Jobs
      BY <2>2, TailQ DEF TakeJob, At, Deadlines, TypeOK
    <3>3. Left = 0
      BY <3>2, <1>0, LeftIdle DEF Left
    <3>4. job' # NoJob
      BY <3>2, JobFields DEF NoJob, Jobs, Ids
    <3>5. Left' = LeftOf("arm", now + MaxStep, now, job') /\ now + MaxStep \in Nat
      BY <3>2, <1>0 DEF Left
    <3>6. Left' = Turn
      <4>1. Left' = ((now + MaxStep) - now) + MaxAhead + 3 * MaxStep
        BY <3>4, <3>5, <1>0, LeftBusy
      <4> QED BY <4>1, <1>0
    <3>7. Spare' * MaxStep = Spare * MaxStep
      BY <3>2, SpareStep
    <3>8. now + Left + ((k + 1) - 1) * Turn + MaxStep + Spare * MaxStep <= downlinkQ[k + 1].due + Half
      BY <1>3, <3>1, <1>w DEF Timed
    <3>9. (k + 1) - 1 = k /\ k * Turn \in Nat /\ (k - 1) * Turn = k * Turn - Turn
      BY <3>1, <1>0, Products
    <3> DEFINE s == Spare * MaxStep
               z == k * Turn
    <3>10. s \in Nat /\ z \in Nat /\ downlinkQ[k + 1].due \in Int
      BY <1>s, <1>q, <3>1, <3>9
    <3>11. now + z + MaxStep + s <= downlinkQ[k + 1].due + Half
      <4>1. now + 0 + z + MaxStep + s <= downlinkQ[k + 1].due + Half
        BY <3>3, <3>8, <3>9
      <4> HIDE DEF s, z
      <4> QED BY <4>1, <3>10, <1>0
    <3> HIDE DEF s, z
    <3>12. now + Turn + (z - Turn) + MaxStep + s <= downlinkQ[k + 1].due + Half
      BY <3>10, <3>11, <1>0
    <3> QED BY <3>1, <3>2, <3>6, <3>7, <3>9, <3>12 DEF s, z
  <2>3. ASSUME NEW target \in NoTime .. Wrap - 1, PullResp(target), Len(downlinkQ) < DownlinkCap,
               downlinkQ' = Append(downlinkQ, New(target))
        PROVE  now' + Left' + (k - 1) * Turn + MaxStep + Spare' * MaxStep <= downlinkQ'[k].due + Half
    <3>1. now' = now /\ Left' = Left /\ Spare' * MaxStep = Spare * MaxStep
      BY <2>3, PullRespStep, SpareStep DEF Left
    <3>2. New(target) \in Jobs
      BY <2>3, NewJob
    <3>3. CASE k \in DOMAIN downlinkQ
      <4>0. downlinkQ \in Seq(Jobs)
        BY DEF TypeOK
      <4>1. downlinkQ'[k] = downlinkQ[k]
        BY <2>3, <3>2, <3>3, <4>0, AppendQ
      <4> QED BY <1>3, <3>1, <3>3, <4>1, <1>w DEF Timed
    <3>4. CASE k \notin DOMAIN downlinkQ
      <4>1. k = Len(downlinkQ) + 1 /\ downlinkQ'[k] = New(target) /\ Len(downlinkQ) \in Nat
        BY <1>3, <2>3, <3>2, <3>4, AppendQ DEF TypeOK
      <4>2. k - 1 = Len(downlinkQ)
        BY <4>1
      <4>3. Timed(New(target))
        BY <1>3, <4>1 DEF Timed
      <4>4. now + Left + Len(downlinkQ) * Turn + MaxStep + Spare * MaxStep <= New(target).due + Half
        BY <1>1, <2>3, <4>3, AcceptedInTime
      <4> QED BY <3>1, <4>1, <4>2, <4>4
    <3> QED BY <3>3, <3>4
  <2> QED BY <2>1, <2>2, <2>3, JobsAfter
<1> QED BY <1>2, <1>3 DEF WaitsInTime, Timed
LEMMA InitTime == Init => TimeInv
<1> SUFFICES ASSUME Init PROVE TimeInv
  OBVIOUS
<1>1. TypeOK
  BY InitType
<1>2. /\ now = StartTime /\ pc = "start" /\ deadline = now + MaxStep /\ job = NoJob
      /\ now \in Nat /\ MaxStep \in Nat /\ downlinkQ = <<>> /\ DOMAIN downlinkQ = {}
      /\ NoTime = -1
  BY Constants DEF Init, NoTime
<1>3. ~Timed(job) /\ JobSound(job, now)
  BY <1>2, NoJobFields DEF JobSound, Timed
<1>4. Deadlines
  BY <1>2, <1>3 DEF Deadlines
<1> QED BY <1>1, <1>2, <1>3, <1>4 DEF TimeInv, JobsSound, WaitsInTime

LEMMA TimeInvariant == Spec => []TimeInv
<1>1. TimeInv /\ [Next]_vars => TimeInv'
  BY TypeStep, DeadlinesStep, JobsStep, WaitsStep DEF TimeInv
<1> QED BY InitTime, <1>1, PTL DEF Spec

(* SetTx is issued TxStartComp before the instant that the network server  *)
(* asked for, whatever the queue, the duration of the setup, the failures  *)
(* and the wrap of the counter.                                            *)
THEOREM On_Target == Spec => []OnTarget
<1>1. Init => OnTarget
  BY DEF Init, OnTarget
<1>2. OnTarget /\ TimeInv /\ [Next]_vars => OnTarget'
  <2> SUFFICES ASSUME OnTarget, TypeOK, Deadlines, JobsSound, [Next]_vars PROVE OnTarget'
    BY DEF TimeInv
  <2>1. CASE fired' = fired
    BY <2>1 DEF OnTarget
  <2>2. CASE fire_tx
    <3>1. fired' = fired \cup {[id |-> job.id, due |-> job.due, at |-> now]}
      BY <2>2 DEF fire_tx
    <3>2. job.due # NoTime => now = job.due - TxStartComp
      BY <2>2 DEF fire_tx, Deadlines, JobsSound, JobSound
    <3> QED BY <3>1, <3>2 DEF OnTarget
  <2> QED BY <2>1, <2>2, PullRespStep DEF Next, RadioStep, Tick, PullRespRefused, ForwardUplink, Start,
        ArmFails, Listen, MissWindow, SleepUntilSetup, BeginSetup, SetupFails, Aim, wait_tx_done,
        Restore, TakeJob, Hear, PollAgain, vars, radio
<1> QED BY <1>1, <1>2, TimeInvariant, PTL DEF Spec

-----------------------------------------------------------------------------
(* The downlinks that the radio was free for.                              *)

LEMMA FaultsGrow ==
  ASSUME TypeOK, [Next]_vars
  PROVE  /\ faults' = faults \/ faults' = faults + 1
         /\ faults' = 0 => faults = 0 /\ ~Fault
         /\ heard' = heard \/ heard' = heard + 1
<1>1. faults' = faults \/ Fault
  BY PullRespStep DEF Next, RadioStep, Tick, PullRespRefused, ForwardUplink, Start, ArmFails, Listen,
     MissWindow, SleepUntilSetup, BeginSetup, SetupFails, Aim, fire_tx, wait_tx_done, Restore,
     TakeJob, Hear, PollAgain, vars, radio
<1>2. faults \in Nat
  BY Numbers
<1>3. Fault => faults' = faults + 1
  BY DEF Fault
<1>4. heard' = heard \/ heard' = heard + 1
  BY PullRespStep DEF Next, RadioStep, Tick, PullRespRefused, ForwardUplink, Start, ArmFails, Listen,
     MissWindow, SleepUntilSetup, BeginSetup, SetupFails, Aim, fire_tx, wait_tx_done, Restore,
     TakeJob, Hear, PollAgain, vars, radio
<1> QED BY <1>1, <1>2, <1>3, <1>4

(* The time until the select, and the packets that may come before.        *)
LEMMA RoundsLeft ==
  ASSUME TypeOK
  PROVE  /\ (1 + MaxUplinks - heard) * MaxStep \in Nat
         /\ MaxStep <= (1 + MaxUplinks - heard) * MaxStep
         /\ (1 + MaxUplinks - (heard + 1)) * MaxStep = (1 + MaxUplinks - heard) * MaxStep - MaxStep
         /\ (1 + MaxUplinks - heard) * MaxStep <= (1 + MaxUplinks) * MaxStep
<1> DEFINE n == 1 + MaxUplinks - heard
           m == 1 + MaxUplinks
<1>1. n \in Nat /\ 1 <= n /\ n <= m /\ m \in Nat /\ 1 + MaxUplinks - (heard + 1) = n - 1
      /\ MaxStep \in Nat
  BY Numbers, Constants
<1> HIDE DEF n, m
<1>2. n * MaxStep \in Nat /\ (n - 1) * MaxStep = n * MaxStep - MaxStep /\ 1 * MaxStep = MaxStep
  BY <1>1
<1>3. 1 * MaxStep <= n * MaxStep /\ n * MaxStep <= m * MaxStep
  BY <1>1, ScaleMono
<1> QED BY <1>1, <1>2, <1>3 DEF n, m

ClearInv == TimeInv /\ ClearInTime

LEMMA ClearStep == ClearInv /\ [Next]_vars => ClearInTime'
<1> SUFFICES ASSUME TypeOK, Deadlines, JobsSound, WaitsInTime, ClearInTime, [Next]_vars, faults' = 0
             PROVE  ClearInTime'
  BY DEF ClearInTime, ClearInv, TimeInv
<1>0. /\ now \in Nat /\ MaxStep \in Nat /\ SetupLead \in Nat /\ deadline \in Int /\ NoTime = -1
      /\ faults = 0 /\ ~Fault
  BY Numbers, Constants, FaultsGrow
<1> DEFINE r == (1 + MaxUplinks - heard) * MaxStep
           u == (1 + MaxUplinks - heard') * MaxStep
<1>r. /\ r \in Nat /\ MaxStep <= r
      /\ heard' = heard => u = r
      /\ heard' = heard + 1 => u = r - MaxStep
  BY RoundsLeft
<1>q. \A k \in DOMAIN downlinkQ : downlinkQ[k].due \in Int
  BY JobFields, QueueFields DEF TypeOK
<1>c. /\ \A k \in DOMAIN downlinkQ : downlinkQ[k].clear =>
           /\ k = 1 /\ job = NoJob /\ pc \in {"arm", "listen"}
           /\ Timed(downlinkQ[k]) => ListensAt + r + SetupLead <= downlinkQ[k].due
      /\ pc = "arm" /\ Timed(job) /\ job.clear => deadline + SetupLead <= job.due
  BY <1>0 DEF ClearInTime
<1>g. ASSUME /\ \A k \in DOMAIN downlinkQ' : downlinkQ'[k].clear =>
                  /\ k = 1 /\ job' = NoJob /\ pc' \in {"arm", "listen"}
                  /\ Timed(downlinkQ'[k]) => ListensAt' + u + SetupLead <= downlinkQ'[k].due
             /\ pc' = "arm" /\ Timed(job') /\ job'.clear => deadline' + SetupLead <= job'.due
      PROVE  ClearInTime'
  BY <1>g DEF ClearInTime, Timed
<1> HIDE DEF r, u
<1>1. CASE Tick
  <2>1. /\ UNCHANGED <<pc, job, deadline, heard, downlinkQ>> /\ now' = now + 1
        /\ ~(pc = "listen" /\ downlinkQ # <<>>)
    BY <1>1 DEF Tick, radio
  <2>2. \A k \in DOMAIN downlinkQ : downlinkQ # <<>>
    OBVIOUS
  <2>3. \A k \in DOMAIN downlinkQ : downlinkQ[k].clear => ListensAt' = ListensAt
    BY <2>1, <2>2, <1>c DEF ListensAt
  <2>4. u = r
    BY <2>1, <1>r
  <2> QED BY <2>1, <2>3, <2>4, <1>c, <1>g DEF Timed
<1>2. CASE UNCHANGED <<now, pc, job, deadline, heard, downlinkQ>>
  <2>1. ListensAt' = ListensAt /\ u = r
    BY <1>2, <1>r DEF ListensAt
  <2> QED BY <1>2, <2>1, <1>c, <1>g DEF Timed
<1>3. ASSUME NEW target \in NoTime .. Wrap - 1, PullResp(target)
      PROVE  ClearInTime'
  <2>1. UNCHANGED <<now, pc, job, deadline, heard>>
    BY <1>3, PullRespStep
  <2>2. CASE downlinkQ' = downlinkQ
    BY <1>2, <2>1, <2>2
  <2>3. CASE downlinkQ' = Append(downlinkQ, New(target))
    <3>1. ListensAt' = ListensAt /\ u = r
      BY <2>1, <1>r DEF ListensAt
    <3>2. New(target) \in Jobs
      BY <1>3, NewJob
    <3>3. /\ DOMAIN downlinkQ' = DOMAIN downlinkQ \cup {Len(downlinkQ) + 1}
          /\ \A k \in DOMAIN downlinkQ : downlinkQ'[k] = downlinkQ[k]
          /\ downlinkQ'[Len(downlinkQ) + 1] = New(target)
      BY <2>3, <3>2, AppendQ DEF TypeOK
    <3>4. ASSUME New(target).clear
          PROVE  /\ Len(downlinkQ) + 1 = 1 /\ job = NoJob /\ pc = "listen"
                 /\ Timed(New(target)) => ListensAt + r + SetupLead <= New(target).due
      <4>1. pc = "listen" /\ downlinkQ = <<>>
        BY <3>4 DEF New
      <4>2. job = NoJob /\ ListensAt = now
        BY <4>1 DEF TypeOK, ListensAt
      <4>3. ASSUME Timed(New(target)) PROVE now + r + SetupLead <= New(target).due
        <5> DEFINE delta == tmst_delta_us(tmst, target)
        <5>1. target # NoTime
          BY <4>3 DEF New, Timed
        <5>2. delta >= SetupLead + (1 + MaxUplinks) * MaxStep /\ New(target).due = now + delta
          BY <3>4, <5>1 DEF New
        <5>3. target \in 0 .. Wrap - 1
          BY <5>1, <1>0, Constants
        <5>4. delta \in Int
          BY <5>3, <1>0, DeltaNames DEF tmst
        <5> HIDE DEF delta
        <5>5. r <= (1 + MaxUplinks) * MaxStep /\ (1 + MaxUplinks) * MaxStep \in Nat
          BY RoundsLeft, Constants DEF r
        <5> QED BY <5>2, <5>4, <5>5, <1>0, <1>r
      <4> QED BY <4>1, <4>2, <4>3
    <3>5. \A k \in DOMAIN downlinkQ' : downlinkQ'[k].clear =>
                  /\ k = 1 /\ job' = NoJob /\ pc' \in {"arm", "listen"}
                  /\ Timed(downlinkQ'[k]) => ListensAt' + u + SetupLead <= downlinkQ'[k].due
      BY <2>1, <3>1, <3>3, <3>4, <1>c DEF Timed
    <3> QED BY <2>1, <3>5, <1>c, <1>g DEF Timed
  <2> QED BY <1>3, <2>2, <2>3, PullRespStep
<1>4. CASE TakeJob
  <2>1. /\ pc = "listen" /\ pc' = "arm" /\ deadline' = now + MaxStep /\ job' = downlinkQ[1]
        /\ downlinkQ # <<>> /\ downlinkQ' = Tail(downlinkQ) /\ 1 \in DOMAIN downlinkQ
    BY <1>4, TailQ DEF TakeJob, At, TypeOK
  <2>2. ASSUME NEW k \in DOMAIN downlinkQ' PROVE ~downlinkQ'[k].clear
    <3>1. k + 1 \in DOMAIN downlinkQ /\ downlinkQ'[k] = downlinkQ[k + 1] /\ k \in Nat \ {0}
      BY <2>1, TailQ DEF TypeOK
    <3>2. k + 1 # 1
      BY <3>1
    <3> QED BY <3>1, <3>2, <1>c
  <2>3. ASSUME Timed(downlinkQ[1]), downlinkQ[1].clear
        PROVE  (now + MaxStep) + SetupLead <= downlinkQ[1].due
    <3>1. now + r + SetupLead <= downlinkQ[1].due
      BY <2>1, <2>3, <1>c DEF ListensAt
    <3> QED BY <3>1, <2>1, <1>0, <1>r, <1>q
  <2>4. job'.clear = downlinkQ[1].clear /\ Timed(job') = Timed(downlinkQ[1])
    BY <2>1 DEF Timed
  <2> QED BY <2>1, <2>2, <2>3, <2>4, <1>g
<1>5. CASE Listen
  <2>1. /\ pc = "arm" /\ pc' = "listen" /\ now' = now /\ job = NoJob
        /\ job' = job /\ heard' = heard /\ downlinkQ' = downlinkQ /\ now <= deadline
    BY <1>5, <1>0 DEF Listen, At, Deadlines
  <2>2. ListensAt = deadline /\ ListensAt' = now /\ u = r
    BY <2>1, <1>r DEF ListensAt
  <2>3. ASSUME NEW k \in DOMAIN downlinkQ, deadline + r + SetupLead <= downlinkQ[k].due
        PROVE  now + r + SetupLead <= downlinkQ[k].due
    BY <2>1, <2>3, <1>0, <1>r, <1>q
  <2> QED BY <2>1, <2>2, <2>3, <1>c, <1>g DEF Timed
<1>6. CASE Hear \/ PollAgain
  <2>1. /\ pc = "listen" /\ pc' = "arm" /\ now' = now /\ job = NoJob /\ deadline' = now + MaxStep
        /\ job' = job /\ downlinkQ' = downlinkQ
        /\ downlinkQ # <<>> => heard' = heard + 1
    BY <1>6 DEF Hear, PollAgain, At, TypeOK
  <2>2. ListensAt = now /\ ListensAt' = now + MaxStep /\ (downlinkQ # <<>> => u = r - MaxStep)
    BY <2>1, <1>r DEF ListensAt
  <2>3. ASSUME NEW k \in DOMAIN downlinkQ, now + r + SetupLead <= downlinkQ[k].due
        PROVE  (now + MaxStep) + (r - MaxStep) + SetupLead <= downlinkQ[k].due
    BY <2>3, <1>0, <1>r, <1>q
  <2>4. \A k \in DOMAIN downlinkQ : downlinkQ # <<>>
    OBVIOUS
  <2>5. ~Timed(job')
    BY <2>1, NoJobFields DEF Timed
  <2> QED BY <2>1, <2>2, <2>3, <2>4, <2>5, <1>c, <1>g DEF Timed
<1>7. CASE MissWindow \/ SleepUntilSetup \/ BeginSetup \/ Aim \/ fire_tx \/ wait_tx_done
           \/ Start \/ Restore
  <2>1. /\ pc \notin {"listen"} /\ (pc = "arm" => job # NoJob) /\ downlinkQ' = downlinkQ
        /\ pc' = "arm" => job' = NoJob
    BY <1>7 DEF MissWindow, SleepUntilSetup, BeginSetup, Aim, fire_tx, wait_tx_done, Start, Restore,
       At, TypeOK
  <2>2. \A k \in DOMAIN downlinkQ : ~downlinkQ[k].clear
    BY <2>1, <1>c
  <2>3. job' = NoJob => ~Timed(job')
    BY NoJobFields DEF Timed
  <2> QED BY <2>1, <2>2, <2>3, <1>g
<1>8. CASE PullRespRefused \/ ForwardUplink \/ UNCHANGED vars
  <2>1. UNCHANGED <<now, pc, job, deadline, heard, downlinkQ>>
    BY <1>8 DEF PullRespRefused, ForwardUplink, vars, radio
  <2> QED BY <1>2, <2>1
<1>9. ~ArmFails /\ ~SetupFails
  BY <1>0 DEF ArmFails, SetupFails
<1> QED BY <1>1, <1>3, <1>4, <1>5, <1>6, <1>7, <1>8, <1>9 DEF Next, RadioStep

LEMMA ClearInvariant == Spec => []ClearInv
<1>1. Init => ClearInTime
  <2> SUFFICES ASSUME Init PROVE ClearInTime
    OBVIOUS
  <2>1. DOMAIN downlinkQ = {} /\ pc = "start"
    BY DEF Init
  <2> QED BY <2>1 DEF ClearInTime
<1> QED BY <1>1, ClearStep, TimeInvariant, PTL DEF Spec, ClearInv

(* A downlink acknowledged with NONE misses its window only because the    *)
(* radio was not free for it, or failed.                                   *)
THEOREM Missed_For_A_Reason == Spec => MissedForAReason
<1>1. ClearInv /\ [Next]_vars => [MissWindow => ~job.clear \/ faults > 0]_vars
  <2> SUFFICES ASSUME TypeOK, Deadlines, JobsSound, WaitsInTime, ClearInTime,
                      MissWindow, job.clear, faults = 0
               PROVE  FALSE
    BY Numbers DEF ClearInv, TimeInv
  <2>1. pc = "arm" /\ Timed(job) /\ tmst_delta_us(tmst, job.target) < SetupLead
    BY DEF MissWindow, Timed
  <2>2. tmst_delta_us(tmst, job.target) = job.due - now
    BY <2>1, ArmDelta
  <2>3. deadline + SetupLead <= job.due /\ now <= deadline
    BY <2>1 DEF ClearInTime, Deadlines
  <2>4. job.due \in Int
    BY JobFields DEF TypeOK
  <2> QED BY <2>1, <2>2, <2>3, <2>4, Numbers, Constants
<1> QED BY <1>1, ClearInvariant, PTL DEF Spec, MissedForAReason
-----------------------------------------------------------------------------
(* The accounts.                                                           *)

One(f, fs) == IF f \in fs THEN 1 ELSE 0

LEMMA EndedNat == ASSUME NEW fs PROVE Ended(fs) \in Nat
<1>1. IsFiniteSet(Ids)
  BY FS_Interval, GatewayAssumption DEF Ids
<1> QED BY <1>1, FS_Subset, FS_CardinalityType DEF Ended

(* One downlink gets another fate.                                         *)
LEMMA EndedStep ==
  ASSUME TypeOK, NEW id \in Ids, NEW f, NEW fs, fate' = [fate EXCEPT ![id] = f]
  PROVE  Ended(fs)' = Ended(fs) + One(f, fs) - One(fate[id], fs)
<1> DEFINE S == {i \in Ids : fate[i] \in fs}
           T == {i \in Ids : fate'[i] \in fs}
<1>1. IsFiniteSet(Ids) /\ fate \in [Ids -> Fates]
  <2>1. IsFiniteSet(Ids)
    BY FS_Interval, GatewayAssumption DEF Ids
  <2> QED BY <2>1 DEF TypeOK
<1>2. IsFiniteSet(S) /\ Cardinality(S) \in Nat /\ IsFiniteSet(S \ {id})
  BY <1>1, FS_Subset, FS_CardinalityType
<1>3. T = IF f \in fs THEN (S \ {id}) \cup {id} ELSE S \ {id}
  BY <1>1
<1>4. id \in S <=> fate[id] \in fs
  OBVIOUS
<1> HIDE DEF S, T
<1>5. Cardinality(S \ {id}) = IF id \in S THEN Cardinality(S) - 1 ELSE Cardinality(S)
  BY <1>2, FS_RemoveElement
<1>6. Cardinality((S \ {id}) \cup {id}) = Cardinality(S \ {id}) + 1
  BY <1>2, FS_AddElement
<1>7. Cardinality(T) = Cardinality(S) + One(f, fs) - One(fate[id], fs)
  BY <1>2, <1>3, <1>4, <1>5, <1>6 DEF One
<1> QED BY <1>2, <1>7 DEF S, T, Ended

(* What a step does to a fate: an arrival, an end, or nothing.             *)
Arrives(f) ==
  /\ counters.dwnb + 1 \in Ids
  /\ fate' = [fate EXCEPT ![counters.dwnb + 1] = f]
  /\ counters'.dwnb = counters.dwnb + 1
  /\ UNCHANGED <<pc, job, fired>>

Finishes(f) ==
  /\ job \in Jobs /\ job' = NoJob
  /\ fate' = [fate EXCEPT ![job.id] = f]
  /\ UNCHANGED <<downlinkQ, fired>> /\ counters'.dwnb = counters.dwnb
  /\ pc' = "restore" /\ (pc = "sending" => f \in {"sent", "failed"})

Stays ==
  /\ UNCHANGED <<fate, job, downlinkQ>> /\ counters'.dwnb = counters.dwnb
  /\ UNCHANGED fired /\ (pc = "sending" => pc' = "sending")

LEMMA StepKinds ==
  ASSUME TypeOK, [Next]_vars
  PROVE  \/ /\ Arrives("refused") /\ UNCHANGED downlinkQ
         \/ /\ Arrives("collision") /\ UNCHANGED downlinkQ
         \/ /\ Arrives("queued")
            /\ \E j \in Jobs : j.id = counters.dwnb + 1 /\ downlinkQ' = Append(downlinkQ, j)
         \/ \E f \in {"missed", "failed", "sent"} : Finishes(f)
         \/ TakeJob /\ counters' = counters /\ job = NoJob
         \/ fire_tx /\ counters' = counters
         \/ Stays
<1>0. counters \in [Fields -> Nat] /\ "dwnb" \in Fields /\ counters.dwnb \in Nat /\ MaxDownlinks \in Nat
  BY Soon, Numbers DEF Fields
<1>1. CASE PullRespRefused
  <2>1. counters' = [counters EXCEPT !.dwnb = @ + 1]
    BY <1>1 DEF PullRespRefused, Add
  <2>2. counters'.dwnb = counters.dwnb + 1
    BY <2>1, <1>0
  <2>3. counters.dwnb + 1 \in Ids
    BY <1>0, <1>1 DEF PullRespRefused, Ids
  <2> QED BY <1>1, <2>2, <2>3 DEF PullRespRefused, Fate, Arrives, radio
<1>2. ASSUME NEW target \in NoTime .. Wrap - 1, PullResp(target)
      PROVE  \/ /\ Arrives("collision") /\ UNCHANGED downlinkQ
             \/ /\ Arrives("queued")
                /\ \E j \in Jobs : j.id = counters.dwnb + 1 /\ downlinkQ' = Append(downlinkQ, j)
  <2>1. New(target) \in Jobs /\ New(target).id = counters.dwnb + 1 /\ counters.dwnb + 1 \in Ids
    BY <1>0, <1>2, NewJob, PullRespStep DEF Ids
  <2>2. UNCHANGED <<pc, job, fired>>
    BY <1>2, PullRespStep
  <2>3. counters' \in {[counters EXCEPT !.dwnb = @ + 1, !.txnb = @ + 1],
                       [counters EXCEPT !.dwnb = @ + 1, !.dropped = @ + 1]}
    BY <1>2, PullRespStep
  <2>4. counters'.dwnb = counters.dwnb + 1
    BY <2>3, <1>0
  <2> QED BY <1>2, <2>1, <2>2, <2>4, PullRespStep DEF Arrives
<1>3. CASE ForwardUplink
  <2>1. counters' = [counters EXCEPT !.rxfw = @ + 1]
    BY <1>3 DEF ForwardUplink, Add
  <2>2. counters'.dwnb = counters.dwnb
    BY <2>1, <1>0
  <2> QED BY <1>3, <2>2 DEF ForwardUplink, Stays, radio
<1>4. CASE Hear
  <2>1. counters' \in {[counters EXCEPT !.uplink = @ + 1],
                       [counters EXCEPT !.uplink = @ + 1, !.dropped = @ + 1]}
    BY <1>4 DEF Hear, Add
  <2>2. counters'.dwnb = counters.dwnb
    BY <2>1, <1>0
  <2> QED BY <1>4, <2>2 DEF Hear, At, Stays
<1>5. CASE MissWindow
  BY <1>5, JobFields DEF MissWindow, Fate, Finishes, At, TypeOK
<1>6. CASE SetupFails
  <2>1. job \in Jobs /\ pc # "sending"
    BY <1>6, JobFields DEF SetupFails, TypeOK
  <2> QED BY <1>6, <2>1 DEF SetupFails, Fate, Finishes, At
<1>7. CASE wait_tx_done
  <2>1. job \in Jobs
    BY <1>7, JobFields DEF wait_tx_done, TypeOK
  <2>2. counters' = counters \/ counters' = [counters EXCEPT !.downlink = @ + 1]
    BY <1>7 DEF wait_tx_done, Add
  <2>3. counters'.dwnb = counters.dwnb
    BY <2>2, <1>0
  <2> QED BY <1>7, <2>1, <2>3 DEF wait_tx_done, Fate, Finishes, At
<1>8. CASE TakeJob \/ fire_tx
  BY <1>8 DEF TakeJob, fire_tx, TypeOK
<1>9. CASE Start \/ ArmFails \/ Listen \/ SleepUntilSetup \/ BeginSetup \/ Aim \/ Restore \/ PollAgain
  BY <1>9 DEF Start, ArmFails, Listen, SleepUntilSetup, BeginSetup, Aim, Restore, PollAgain, At, Stays
<1>10. CASE Tick \/ UNCHANGED vars
  BY <1>10 DEF Tick, vars, radio, Stays
<1> QED BY <1>1, <1>2, <1>3, <1>4, <1>5, <1>6, <1>7, <1>8, <1>9, <1>10, SMTT(30)
        DEF Next, RadioStep

LEMMA NumberedStep == TypeOK /\ Numbered /\ [Next]_vars => Numbered'
<1> SUFFICES ASSUME TypeOK, Numbered, [Next]_vars PROVE Numbered'
  OBVIOUS
<1>0. /\ counters.dwnb \in Nat /\ MaxDownlinks \in Nat /\ fate \in [Ids -> Fates]
      /\ downlinkQ \in Seq(Jobs) /\ \A id \in Ids : id \in Nat
  <2>1. fate \in [Ids -> Fates] /\ downlinkQ \in Seq(Jobs)
    BY DEF TypeOK
  <2>2. counters.dwnb \in Nat /\ MaxDownlinks \in Nat
    BY Numbers
  <2> QED BY <2>1, <2>2 DEF Ids
<1>q. \A k \in DOMAIN downlinkQ : downlinkQ[k].id \in Ids
  BY QueueFields, JobFields DEF TypeOK, Jobs
<1>n. /\ counters.dwnb <= MaxDownlinks
      /\ \A id \in Ids : fate[id] = "none" <=> id > counters.dwnb
      /\ \A k \in DOMAIN downlinkQ : fate[downlinkQ[k].id] = "queued" /\ downlinkQ[k].id # job.id
      /\ job # NoJob => fate[job.id] = "queued" /\ job.id \in Ids
      /\ \A k, l \in DOMAIN downlinkQ : downlinkQ[k].id = downlinkQ[l].id => k = l
  BY JobFields DEF Numbered, TypeOK
<1>1. ASSUME NEW f \in {"refused", "collision", "queued"}, Arrives(f)
      PROVE  /\ counters'.dwnb <= MaxDownlinks
             /\ \A id \in Ids : fate'[id] = "none" <=> id > counters'.dwnb
             /\ \A k \in DOMAIN downlinkQ : fate'[downlinkQ[k].id] = "queued"
             /\ job' # NoJob => fate'[job'.id] = "queued" /\ job'.id # counters.dwnb + 1
             /\ \A k \in DOMAIN downlinkQ : downlinkQ[k].id # counters.dwnb + 1
             /\ fate'[counters.dwnb + 1] = f /\ job' = job
  <2>1. fate[counters.dwnb + 1] = "none" /\ counters.dwnb + 1 \in Ids
    BY <1>0, <1>1, <1>n DEF Arrives
  <2>2. \A id \in Ids : fate'[id] = IF id = counters.dwnb + 1 THEN f ELSE fate[id]
    BY <1>0, <1>1 DEF Arrives
  <2>3. \A id \in Ids : fate'[id] = "none" <=> id > counters'.dwnb
    BY <1>0, <1>1, <1>n, <2>2 DEF Arrives
  <2>4. counters'.dwnb <= MaxDownlinks
    BY <1>0, <1>1, <2>1 DEF Arrives, Ids
  <2> QED BY <1>1, <1>n, <1>q, <2>1, <2>2, <2>3, <2>4 DEF Arrives
<1>2. CASE (Arrives("refused") \/ Arrives("collision")) /\ UNCHANGED downlinkQ
  <2>1. PICK f \in {"refused", "collision", "queued"} : Arrives(f)
    BY <1>2
  <2> QED BY <1>1, <1>2, <1>n, <2>1 DEF Numbered
<1>3. ASSUME Arrives("queued"), NEW j \in Jobs, j.id = counters.dwnb + 1,
             downlinkQ' = Append(downlinkQ, j)
      PROVE  Numbered'
  <2>1. /\ DOMAIN downlinkQ' = DOMAIN downlinkQ \cup {Len(downlinkQ) + 1}
        /\ \A k \in DOMAIN downlinkQ : downlinkQ'[k] = downlinkQ[k]
        /\ downlinkQ'[Len(downlinkQ) + 1] = j
    BY <1>0, <1>3, AppendQ
  <2>2. /\ counters'.dwnb <= MaxDownlinks
        /\ \A id \in Ids : fate'[id] = "none" <=> id > counters'.dwnb
        /\ \A k \in DOMAIN downlinkQ : fate'[downlinkQ[k].id] = "queued"
        /\ job' # NoJob => fate'[job'.id] = "queued" /\ job'.id # counters.dwnb + 1
        /\ \A k \in DOMAIN downlinkQ : downlinkQ[k].id # counters.dwnb + 1
        /\ fate'[counters.dwnb + 1] = "queued" /\ job' = job
    BY <1>1, <1>3
  <2>3. job'.id # j.id
    BY <2>2, <1>3, <1>0, NoJobFields
  <2>4. \A k \in DOMAIN downlinkQ' : fate'[downlinkQ'[k].id] = "queued" /\ downlinkQ'[k].id # job'.id
    BY <1>3, <1>n, <2>1, <2>2, <2>3
  <2>5. \A k, l \in DOMAIN downlinkQ' : downlinkQ'[k].id = downlinkQ'[l].id => k = l
    BY <1>3, <1>n, <2>1, <2>2
  <2> QED BY <2>2, <2>4, <2>5 DEF Numbered
<1>4. ASSUME NEW f \in {"missed", "failed", "sent"}, Finishes(f)
      PROVE  Numbered'
  <2>1. job.id \in Ids /\ fate[job.id] = "queued" /\ job' = NoJob /\ job # NoJob
    BY <1>4, <1>n, JobFields DEF Finishes, Jobs, NoJob, Ids
  <2>2. \A id \in Ids : fate'[id] = IF id = job.id THEN f ELSE fate[id]
    BY <1>0, <1>4, <2>1 DEF Finishes
  <2>3. \A k \in DOMAIN downlinkQ : downlinkQ[k].id # 0 /\ NoJob.id = 0
    BY <1>q, NoJobFields DEF Ids
  <2> QED BY <1>4, <1>n, <1>q, <2>1, <2>2, <2>3 DEF Finishes, Numbered
<1>5. CASE TakeJob /\ counters' = counters /\ job = NoJob
  <2>1. /\ downlinkQ # <<>> /\ downlinkQ' = Tail(downlinkQ) /\ job' = downlinkQ[1] /\ fate' = fate
        /\ 1 \in DOMAIN downlinkQ
    BY <1>0, <1>5, TailQ DEF TakeJob
  <2>2. \A k \in DOMAIN downlinkQ' : /\ k + 1 \in DOMAIN downlinkQ /\ k \in Nat \ {0}
                                     /\ downlinkQ'[k] = downlinkQ[k + 1]
    BY <1>0, <2>1, TailQ
  <2>3. \A k \in DOMAIN downlinkQ' : k + 1 # 1
    BY <2>2
  <2>4. \A k, l \in DOMAIN downlinkQ' : k + 1 = l + 1 => k = l
    BY <2>2
  <2>5. \A k, l \in DOMAIN downlinkQ' : downlinkQ'[k].id = downlinkQ'[l].id => k = l
    BY <1>n, <2>2, <2>4
  <2>6. \A k \in DOMAIN downlinkQ' : fate'[downlinkQ'[k].id] = "queued" /\ downlinkQ'[k].id # job'.id
    BY <1>n, <2>1, <2>2, <2>3
  <2> QED BY <1>5, <1>n, <2>1, <2>5, <2>6 DEF Numbered
<1>6. CASE (fire_tx /\ counters' = counters) \/ Stays
  <2>1. UNCHANGED <<fate, job, downlinkQ>> /\ counters'.dwnb = counters.dwnb
    BY <1>6 DEF fire_tx, Stays
  <2> QED BY <2>1 DEF Numbered
<1> QED BY <1>2, <1>3, <1>4, <1>5, <1>6, StepKinds
(* No job is transmitted twice.                                            *)
LEMMA FiredOnceStep == TypeOK /\ Numbered /\ FiredOnce /\ [Next]_vars => FiredOnce'
<1> SUFFICES ASSUME TypeOK, Numbered, FiredOnce, [Next]_vars PROVE FiredOnce'
  OBVIOUS
<1>0. /\ fate \in [Ids -> Fates] /\ now \in Nat
      /\ job # NoJob => job \in Jobs /\ fate[job.id] = "queued"
      /\ counters.dwnb \in Nat
      /\ \A id \in Ids : fate[id] = "none" <=> id > counters.dwnb
  BY Numbers DEF TypeOK, Numbered
<1>f. /\ fired \in SUBSET [id : Ids, due : NoTime .. MaxTime + MaxAhead, at : Nat]
      /\ \A f, g \in fired : f.id = g.id => f = g
      /\ \A f \in fired : fate[f.id] \in {"sent", "failed"} \/ (pc = "sending" /\ job.id = f.id)
      /\ \A f \in fired : f.id \in Ids
  BY DEF FiredOnce
<1>1. ASSUME NEW r, Arrives(r) PROVE FiredOnce'
  <2>1. fate[counters.dwnb + 1] = "none" /\ counters.dwnb + 1 \in Ids
    BY <1>0, <1>1 DEF Arrives, Ids
  <2>2. \A id \in Ids : id # counters.dwnb + 1 => fate'[id] = fate[id]
    BY <1>0, <1>1 DEF Arrives
  <2>3. pc = "sending" => job # NoJob
    BY DEF TypeOK
  <2>4. \A f \in fired : f.id # counters.dwnb + 1
    BY <1>0, <1>f, <2>1, <2>3
  <2>5. \A f \in fired : fate'[f.id] \in {"sent", "failed"} \/ (pc' = "sending" /\ job'.id = f.id)
    BY <1>1, <1>f, <2>2, <2>4 DEF Arrives
  <2> QED BY <1>1, <1>f, <2>5 DEF Arrives, FiredOnce
<1>2. ASSUME NEW r, Finishes(r) PROVE FiredOnce'
  <2>1. job \in Jobs /\ fired' = fired /\ job # NoJob /\ job.id \in Ids
    BY <1>2, JobFields DEF Finishes, Jobs, NoJob, Ids
  <2>2. \A id \in Ids : fate'[id] = IF id = job.id THEN r ELSE fate[id]
    BY <1>0, <1>2, <2>1 DEF Finishes
  <2>3. \A f \in fired : fate'[f.id] \in {"sent", "failed"}
    BY <1>0, <1>2, <1>f, <2>1, <2>2 DEF Finishes
  <2> QED BY <1>f, <2>1, <2>3 DEF FiredOnce
<1>3. CASE TakeJob
  <2>1. pc = "listen" /\ UNCHANGED <<fired, fate>>
    BY <1>3 DEF TakeJob
  <2>2. \A f \in fired : fate'[f.id] \in {"sent", "failed"}
    BY <1>f, <2>1
  <2> QED BY <1>f, <2>1, <2>2 DEF FiredOnce
<1>4. CASE fire_tx
  <2> DEFINE new == [id |-> job.id, due |-> job.due, at |-> now]
  <2>1. /\ pc \in {"fire", "aim"} /\ pc' = "sending" /\ UNCHANGED <<fate, job>>
        /\ fired' = fired \cup {new}
    BY <1>4 DEF fire_tx, At
  <2>2. job \in Jobs /\ fate[job.id] = "queued" /\ job.id \in Ids
    BY <2>1, <1>0, JobFields DEF TypeOK
  <2>3. new \in [id : Ids, due : NoTime .. MaxTime + MaxAhead, at : Nat] /\ new.id = job.id
    BY <1>0, <2>2 DEF Jobs
  <2>4. \A f \in fired : f.id # job.id /\ fate[f.id] \in {"sent", "failed"}
    BY <1>f, <2>1, <2>2
  <2> HIDE DEF new
  <2>5. fired' \in SUBSET [id : Ids, due : NoTime .. MaxTime + MaxAhead, at : Nat]
    BY <1>f, <2>1, <2>3
  <2>6. \A f, g \in fired' : f.id = g.id => f = g
    BY <1>f, <2>1, <2>3, <2>4
  <2>7. \A f \in fired' : fate'[f.id] \in {"sent", "failed"} \/ (pc' = "sending" /\ job'.id = f.id)
    BY <2>1, <2>3, <2>4
  <2> QED BY <2>5, <2>6, <2>7 DEF FiredOnce
<1>5. CASE Stays
  BY <1>5, <1>f DEF Stays, FiredOnce
<1> QED BY <1>1, <1>2, <1>3, <1>4, <1>5, StepKinds

(* There are as many transmissions as jobs transmitted.                    *)
LEMMA FiredCount == FiredOnce => Cardinality({f.id : f \in fired}) = Cardinality(fired)
<1> SUFFICES ASSUME FiredOnce PROVE Cardinality({f.id : f \in fired}) = Cardinality(fired)
  OBVIOUS
<1> DEFINE T == {f.id : f \in fired}
           of == [i \in T |-> CHOOSE f \in fired : f.id = i]
<1>1. IsFiniteSet(Ids)
  BY FS_Interval, GatewayAssumption DEF Ids
<1>2. T \in SUBSET Ids
  BY DEF FiredOnce
<1>3. IsFiniteSet(T)
  BY <1>1, <1>2, FS_Subset
<1>4. \A i \in T : of[i] \in fired /\ of[i].id = i
  OBVIOUS
<1>5. \A f \in fired : f.id \in T
  OBVIOUS
<1>6. of \in [T -> fired]
  BY <1>4
<1>u. \A f, g \in fired : f.id = g.id => f = g
  BY DEF FiredOnce
<1> HIDE DEF T, of
<1>7. \A i, j \in T : of[i] = of[j] => i = j
  BY <1>4
<1>8. \A f \in fired : of[f.id] = f
  BY <1>4, <1>5, <1>u
<1>9. of \in Bijection(T, fired)
  BY <1>5, <1>6, <1>7, <1>8 DEF Bijection, Injection, Surjection, IsInjective
<1>10. Cardinality(fired) = Cardinality(T)
  BY <1>3, <1>9, FS_Bijection DEF ExistsBijection
<1> QED BY <1>10 DEF T
(* The accounts of the jobs and of the uplinks.                            *)
Held == Len(downlinkQ) + (IF job = NoJob THEN 0 ELSE 1)

Accounts ==
  /\ Ended({"queued"}) = Held
  /\ counters.txnb = Held + Ended({"missed", "failed", "sent"})
  /\ counters.downlink = Ended({"sent"})
  /\ counters.dropped = Ended({"collision"}) + (counters.uplink - counters.rxfw - uplinkQ)

LEMMA FateCounts ==
  ASSUME TypeOK, NEW id \in Ids, NEW f \in Fates, NEW g \in Fates, fate[id] = g,
         fate' = [fate EXCEPT ![id] = f],
         \/ g = "none"
         \/ g = "queued" /\ f \in {"missed", "failed", "sent"}
  PROVE  /\ Ended({"queued"})' = Ended({"queued"}) + (IF f = "queued" THEN 1 ELSE 0)
                                                  - (IF g = "queued" THEN 1 ELSE 0)
         /\ Ended({"missed", "failed", "sent"})' = Ended({"missed", "failed", "sent"})
              + (IF f \in {"missed", "failed", "sent"} THEN 1 ELSE 0)
         /\ Ended({"sent"})' = Ended({"sent"}) + (IF f = "sent" THEN 1 ELSE 0)
         /\ Ended({"collision"})' = Ended({"collision"}) + (IF f = "collision" THEN 1 ELSE 0)
<1>1. /\ Ended({"queued"}) \in Nat /\ Ended({"missed", "failed", "sent"}) \in Nat
      /\ Ended({"sent"}) \in Nat /\ Ended({"collision"}) \in Nat
  BY EndedNat
<1>2. Ended({"queued"})' = Ended({"queued"}) + One(f, {"queued"}) - One(g, {"queued"})
  BY EndedStep
<1>3. Ended({"missed", "failed", "sent"})' = Ended({"missed", "failed", "sent"})
        + One(f, {"missed", "failed", "sent"}) - One(g, {"missed", "failed", "sent"})
  BY EndedStep
<1>4. Ended({"sent"})' = Ended({"sent"}) + One(f, {"sent"}) - One(g, {"sent"})
  BY EndedStep
<1>5. Ended({"collision"})' = Ended({"collision"}) + One(f, {"collision"}) - One(g, {"collision"})
  BY EndedStep
<1>6. /\ One(g, {"missed", "failed", "sent"}) = 0 /\ One(g, {"sent"}) = 0
      /\ One(g, {"collision"}) = 0 /\ One(g, {"queued"}) = IF g = "queued" THEN 1 ELSE 0
      /\ One(f, {"queued"}) = IF f = "queued" THEN 1 ELSE 0
      /\ One(f, {"missed", "failed", "sent"})
           = IF f \in {"missed", "failed", "sent"} THEN 1 ELSE 0
      /\ One(f, {"sent"}) = IF f = "sent" THEN 1 ELSE 0
      /\ One(f, {"collision"}) = IF f = "collision" THEN 1 ELSE 0
  BY DEF One
<1>8. /\ Ended({"missed", "failed", "sent"})' = Ended({"missed", "failed", "sent"})
           + (IF f \in {"missed", "failed", "sent"} THEN 1 ELSE 0)
  BY <1>1, <1>3, <1>6
<1>9. Ended({"sent"})' = Ended({"sent"}) + (IF f = "sent" THEN 1 ELSE 0)
  BY <1>1, <1>4, <1>6
<1>10. Ended({"collision"})' = Ended({"collision"}) + (IF f = "collision" THEN 1 ELSE 0)
  BY <1>1, <1>5, <1>6
<1>11. Ended({"queued"})' = Ended({"queued"}) + (IF f = "queued" THEN 1 ELSE 0)
                                            - (IF g = "queued" THEN 1 ELSE 0)
  BY <1>2, <1>6
<1> QED BY <1>8, <1>9, <1>10, <1>11

LEMMA Balance ==
  ASSUME NEW c \in Nat, NEW u \in Nat, NEW x \in Nat, NEW q \in Nat, NEW d \in Nat,
         d = c + (u - x - q)
  PROVE  /\ d = c + ((u + 1) - x - (q + 1))
         /\ d + 1 = c + ((u + 1) - x - q)
  OBVIOUS

LEMMA AccountsStep == TypeOK /\ Numbered /\ Accounts /\ [Next]_vars => Accounts'
<1> SUFFICES ASSUME TypeOK, Numbered, Accounts, [Next]_vars PROVE Accounts'
  OBVIOUS
<1> DEFINE Q == Ended({"queued"})
           E == Ended({"missed", "failed", "sent"})
           S == Ended({"sent"})
           C == Ended({"collision"})
<1>0. /\ counters \in [Fields -> Nat] /\ uplinkQ \in Nat /\ Len(downlinkQ) \in Nat
      /\ counters.dwnb \in Nat /\ counters.txnb \in Nat /\ counters.rxfw \in Nat
      /\ counters.uplink \in Nat /\ counters.downlink \in Nat /\ counters.dropped \in Nat
      /\ downlinkQ \in Seq(Jobs)
  <2>1. downlinkQ \in Seq(Jobs) /\ Len(downlinkQ) \in Nat
    BY DEF TypeOK
  <2> QED BY <2>1, Soon, Numbers
<1>t. Q \in Nat /\ E \in Nat /\ S \in Nat /\ C \in Nat /\ Held \in Nat
  BY EndedNat, <1>0 DEF Held
<1>a. /\ Q = Held /\ counters.txnb = Held + E /\ counters.downlink = S
      /\ counters.dropped = C + (counters.uplink - counters.rxfw - uplinkQ)
  BY DEF Accounts
<1>s. fate' = fate => Q' = Q /\ E' = E /\ S' = S /\ C' = C
  BY DEF Ended
<1>n. counters.dwnb < MaxDownlinks => counters.dwnb + 1 \in Ids /\ fate[counters.dwnb + 1] = "none"
  <2>1. MaxDownlinks \in Nat
    BY Numbers
  <2>2. counters.dwnb < MaxDownlinks => counters.dwnb + 1 \in Ids
    BY <1>0, <2>1 DEF Ids
  <2>3. \A id \in Ids : fate[id] = "none" <=> id > counters.dwnb
    BY DEF Numbered
  <2>4. counters.dwnb + 1 > counters.dwnb
    BY <1>0
  <2> QED BY <2>2, <2>3, <2>4
<1>j. job # NoJob => job.id \in Ids /\ fate[job.id] = "queued"
  BY JobFields DEF Numbered, TypeOK
<1>b. Accounts' = (/\ Q' = Held' /\ counters'.txnb = Held' + E' /\ counters'.downlink = S'
                   /\ counters'.dropped = C' + (counters'.uplink - counters'.rxfw - uplinkQ'))
  BY DEF Accounts
<1>1. CASE PullRespRefused
  <2>1. /\ fate' = [fate EXCEPT ![counters.dwnb + 1] = "refused"]
        /\ counters' = [counters EXCEPT !.dwnb = @ + 1] /\ counters.dwnb < MaxDownlinks
        /\ UNCHANGED <<downlinkQ, uplinkQ, job>>
    BY <1>1 DEF PullRespRefused, Fate, Add, radio
  <2>2. /\ counters'.txnb = counters.txnb /\ counters'.downlink = counters.downlink
        /\ counters'.dropped = counters.dropped /\ counters'.uplink = counters.uplink
        /\ counters'.rxfw = counters.rxfw
    BY <2>1, <1>0
  <2>3. Q' = Q /\ E' = E /\ S' = S /\ C' = C
    <3>1. Q' = Q + 0 - 0 /\ E' = E + 0 /\ S' = S + 0 /\ C' = C + 0
      BY <2>1, <1>n, FateCounts DEF Fates
    <3> HIDE DEF Q, E, S, C
    <3> QED BY <3>1, <1>t
  <2>4. Held' = Held
    BY <2>1 DEF Held
  <2> HIDE DEF Q, E, S, C
  <2> QED BY <1>a, <1>b, <2>1, <2>2, <2>3, <2>4
<1>2. ASSUME NEW target \in NoTime .. Wrap - 1, PullResp(target)
      PROVE  Accounts'
  <2> DEFINE id == counters.dwnb + 1
  <2>1. /\ New(target).id = id /\ New(target) \in Jobs
        /\ id \in Ids /\ fate[id] = "none" /\ job' = job /\ uplinkQ' = uplinkQ
    BY <1>2, <1>n, NewJob, PullRespStep
  <2>2. CASE /\ downlinkQ' = Append(downlinkQ, New(target))
             /\ fate' = [fate EXCEPT ![New(target).id] = "queued"]
             /\ counters' = [counters EXCEPT !.dwnb = @ + 1, !.txnb = @ + 1]
    <3>1. Q' = Q + 1 /\ E' = E /\ S' = S /\ C' = C
      <4>1. Q' = Q + 1 - 0 /\ E' = E + 0 /\ S' = S + 0 /\ C' = C + 0
        BY <2>1, <2>2, FateCounts DEF Fates
      <4> HIDE DEF Q, E, S, C
      <4> QED BY <4>1, <1>t
    <3>2. Held' = Held + 1
      <4>1. Len(downlinkQ') = Len(downlinkQ) + 1
        BY <2>1, <2>2, <1>0, AppendQ
      <4> QED BY <4>1, <2>1, <1>0 DEF Held
    <3>3. /\ counters'.txnb = counters.txnb + 1 /\ counters'.downlink = counters.downlink
          /\ counters'.dropped = counters.dropped /\ counters'.uplink = counters.uplink
          /\ counters'.rxfw = counters.rxfw
      BY <2>2, <1>0
    <3> DEFINE h == Held'
    <3> HIDE DEF Q, E, S, C, h
    <3>4. h = Held + 1
      BY <3>2 DEF h
    <3>5. counters.txnb + 1 = h + E /\ Q + 1 = h
      BY <3>4, <1>a, <1>t, <1>0
    <3> QED BY <1>a, <1>b, <2>1, <3>1, <3>3, <3>5 DEF h
  <2>3. CASE /\ downlinkQ' = downlinkQ
             /\ fate' = [fate EXCEPT ![New(target).id] = "collision"]
             /\ counters' = [counters EXCEPT !.dwnb = @ + 1, !.dropped = @ + 1]
    <3>1. Q' = Q /\ E' = E /\ S' = S /\ C' = C + 1
      <4>1. Q' = Q + 0 - 0 /\ E' = E + 0 /\ S' = S + 0 /\ C' = C + 1
        BY <2>1, <2>3, FateCounts DEF Fates
      <4> HIDE DEF Q, E, S, C
      <4> QED BY <4>1, <1>t
    <3>2. Held' = Held
      BY <2>1, <2>3 DEF Held
    <3>3. /\ counters'.txnb = counters.txnb /\ counters'.downlink = counters.downlink
          /\ counters'.dropped = counters.dropped + 1 /\ counters'.uplink = counters.uplink
          /\ counters'.rxfw = counters.rxfw
      BY <2>3, <1>0
    <3> HIDE DEF Q, E, S, C
    <3>4. counters.dropped + 1 = (C + 1) + (counters.uplink - counters.rxfw - uplinkQ)
      <4> DEFINE d == counters.dropped
                 z == counters.uplink - counters.rxfw - uplinkQ
      <4>1. d = C + z /\ C \in Nat /\ d \in Nat /\ z \in Int
        BY <1>a, <1>t, <1>0
      <4> HIDE DEF d, z
      <4>2. d + 1 = (C + 1) + z
        BY <4>1
      <4> QED BY <4>2 DEF d, z
    <3> QED BY <1>a, <1>b, <2>1, <3>1, <3>2, <3>3, <3>4
  <2> QED BY <1>2, <2>2, <2>3, PullRespStep
<1>3. CASE ForwardUplink
  <2>1. /\ uplinkQ' = uplinkQ - 1 /\ counters' = [counters EXCEPT !.rxfw = @ + 1]
        /\ UNCHANGED <<fate, downlinkQ, job>>
    BY <1>3 DEF ForwardUplink, Add, radio
  <2>2. /\ counters'.txnb = counters.txnb /\ counters'.downlink = counters.downlink
        /\ counters'.dropped = counters.dropped /\ counters'.uplink = counters.uplink
        /\ counters'.rxfw = counters.rxfw + 1
    BY <2>1, <1>0
  <2>3. Held' = Held
    BY <2>1 DEF Held
  <2> HIDE DEF Q, E, S, C
  <2>4. counters.uplink - counters.rxfw - uplinkQ = counters.uplink - (counters.rxfw + 1) - (uplinkQ - 1)
    <3>1. \A u, x, q \in Nat : u - x - q = u - (x + 1) - (q - 1)
      OBVIOUS
    <3>2. counters.uplink \in Nat /\ counters.rxfw \in Nat /\ uplinkQ \in Nat
      BY <1>0
    <3> QED BY <3>1, <3>2, Zenon
  <2> QED BY <1>a, <1>b, <1>s, <2>1, <2>2, <2>3, <2>4
<1>4. CASE Hear
  <2>1. UNCHANGED <<fate, downlinkQ, job>>
    BY <1>4 DEF Hear
  <2>2. \/ uplinkQ' = uplinkQ + 1 /\ counters' = [counters EXCEPT !.uplink = @ + 1]
        \/ uplinkQ' = uplinkQ /\ counters' = [counters EXCEPT !.uplink = @ + 1, !.dropped = @ + 1]
    BY <1>4 DEF Hear, Add
  <2>3. /\ counters'.txnb = counters.txnb /\ counters'.downlink = counters.downlink
        /\ counters'.uplink = counters.uplink + 1 /\ counters'.rxfw = counters.rxfw
        /\ \/ uplinkQ' = uplinkQ + 1 /\ counters'.dropped = counters.dropped
           \/ uplinkQ' = uplinkQ /\ counters'.dropped = counters.dropped + 1
    <3>1. CASE uplinkQ' = uplinkQ + 1 /\ counters' = [counters EXCEPT !.uplink = @ + 1]
      BY <3>1, <1>0
    <3>2. CASE uplinkQ' = uplinkQ /\ counters' = [counters EXCEPT !.uplink = @ + 1, !.dropped = @ + 1]
      BY <3>2, <1>0
    <3> QED BY <2>2, <3>1, <3>2
  <2>4. Held' = Held
    BY <2>1 DEF Held
  <2> HIDE DEF Q, E, S, C
  <2>5. /\ counters.dropped = C + ((counters.uplink + 1) - counters.rxfw - (uplinkQ + 1))
        /\ counters.dropped + 1 = C + ((counters.uplink + 1) - counters.rxfw - uplinkQ)
    <3> DEFINE u == counters.uplink
               x == counters.rxfw
               d == counters.dropped
    <3>1. /\ C \in Nat /\ u \in Nat /\ x \in Nat /\ uplinkQ \in Nat /\ d \in Nat
          /\ d = C + (u - x - uplinkQ)
      BY <1>a, <1>0, <1>t
    <3> HIDE DEF u, x, d
    <3>2. d = C + ((u + 1) - x - (uplinkQ + 1)) /\ d + 1 = C + ((u + 1) - x - uplinkQ)
      BY <3>1, Balance
    <3> QED BY <3>2 DEF u, x, d
  <2> QED BY <1>a, <1>b, <1>s, <2>1, <2>3, <2>4, <2>5
<1>5. ASSUME NEW f \in {"missed", "failed", "sent"}, job # NoJob, job' = NoJob,
             fate' = [fate EXCEPT ![job.id] = f], UNCHANGED <<downlinkQ, uplinkQ>>,
             counters' = IF f = "sent" THEN [counters EXCEPT !.downlink = @ + 1] ELSE counters
      PROVE  Accounts'
  <2>1. job.id \in Ids /\ fate[job.id] = "queued"
    BY <1>j, <1>5
  <2>2. Q' = Q - 1 /\ E' = E + 1 /\ C' = C /\ S' = S + (IF f = "sent" THEN 1 ELSE 0)
    <3>1. /\ Q' = Q + 0 - 1 /\ E' = E + 1 /\ S' = S + (IF f = "sent" THEN 1 ELSE 0)
          /\ C' = C + 0
      BY <2>1, <1>5, FateCounts DEF Fates
    <3> HIDE DEF Q, E, S, C
    <3> QED BY <3>1, <1>t
  <2>3. Held' = Held - 1
    BY <1>5, <1>0 DEF Held
  <2>4. /\ counters'.txnb = counters.txnb
        /\ counters'.downlink = counters.downlink + (IF f = "sent" THEN 1 ELSE 0)
        /\ counters'.dropped = counters.dropped /\ counters'.uplink = counters.uplink
        /\ counters'.rxfw = counters.rxfw
    BY <1>5, <1>0
  <2> DEFINE h == Held'
  <2> HIDE DEF Q, E, S, C, h
  <2>5. h = Held - 1
    BY <2>3 DEF h
  <2>6. counters.txnb = h + (E + 1) /\ Q - 1 = h
    BY <2>5, <1>a, <1>t, <1>0
  <2> QED BY <1>a, <1>b, <1>5, <2>2, <2>4, <2>6 DEF h
<1>6. CASE MissWindow
  BY <1>6, <1>5 DEF MissWindow, Fate
<1>7. CASE SetupFails
  <2>1. job # NoJob
    BY <1>7 DEF SetupFails, TypeOK
  <2> QED BY <1>7, <1>5, <2>1 DEF SetupFails, Fate
<1>8. CASE wait_tx_done
  <2>1. job # NoJob
    BY <1>8 DEF wait_tx_done, TypeOK
  <2>2. job' = NoJob /\ UNCHANGED <<downlinkQ, uplinkQ>>
    BY <1>8 DEF wait_tx_done
  <2>3. \/ fate' = [fate EXCEPT ![job.id] = "sent"] /\ counters' = [counters EXCEPT !.downlink = @ + 1]
        \/ fate' = [fate EXCEPT ![job.id] = "failed"] /\ counters' = counters
    BY <1>8 DEF wait_tx_done, Fate, Add
  <2> QED BY <1>5, <2>1, <2>2, <2>3
<1>9. CASE TakeJob
  <2>1. /\ downlinkQ # <<>> /\ downlinkQ' = Tail(downlinkQ) /\ job' = downlinkQ[1] /\ job = NoJob
        /\ UNCHANGED <<fate, counters, uplinkQ>>
    BY <1>9, <1>0, TailQ DEF TakeJob, TypeOK
  <2>2. Len(downlinkQ') = Len(downlinkQ) - 1 /\ downlinkQ[1] \in Jobs
    BY <2>1, <1>0, TailQ
  <2>3. job' # NoJob
    BY <2>1, <2>2 DEF Jobs, NoJob, Ids
  <2>4. Held' = Held
    BY <2>1, <2>2, <2>3, <1>0 DEF Held
  <2> HIDE DEF Q, E, S, C
  <2> QED BY <1>a, <1>b, <1>s, <2>1, <2>4
<1>10. CASE \/ Tick \/ Start \/ ArmFails \/ Listen \/ SleepUntilSetup \/ BeginSetup \/ Aim \/ fire_tx
            \/ Restore \/ PollAgain \/ UNCHANGED vars
  <2>1. UNCHANGED <<fate, counters, uplinkQ, downlinkQ, job>>
    BY <1>10 DEF Tick, Start, ArmFails, Listen, SleepUntilSetup, BeginSetup, Aim, fire_tx, Restore,
       PollAgain, vars, radio
  <2>2. Held' = Held
    BY <2>1 DEF Held
  <2> HIDE DEF Q, E, S, C
  <2> QED BY <1>a, <1>b, <1>s, <2>1, <2>2
<1> QED BY <1>1, <1>2, <1>3, <1>4, <1>6, <1>7, <1>8, <1>9, <1>10 DEF Next, RadioStep
(* Every way back to arm_receive passes through the uplink configuration,  *)
(* or through a failure of the radio.                                      *)
LEMMA OnUplinkStep == TypeOK /\ OnUplink /\ [Next]_vars => OnUplink'
<1> SUFFICES ASSUME TypeOK, OnUplink, [Next]_vars PROVE OnUplink'
  OBVIOUS
<1>0. faults \in Nat /\ \A n \in Nat : n + 1 > 0
  BY Numbers
<1>1. CASE Start \/ ArmFails \/ Restore
  <2>1. config' = "uplink" \/ pc' = "dead" \/ faults' = faults + 1
    BY <1>1 DEF Start, ArmFails, Restore, Fault, At
  <2> QED BY <2>1, <1>0 DEF OnUplink
<1>2. CASE Listen \/ TakeJob \/ Hear \/ PollAgain
  <2>1. pc \in {"arm", "listen"} /\ UNCHANGED <<config, faults>>
    BY <1>2 DEF Listen, TakeJob, Hear, PollAgain
  <2> QED BY <2>1 DEF OnUplink
<1>3. CASE MissWindow \/ SleepUntilSetup \/ BeginSetup \/ SetupFails \/ Aim \/ fire_tx \/ wait_tx_done
  <2>1. pc' \notin {"arm", "listen"}
    BY <1>3 DEF MissWindow, SleepUntilSetup, BeginSetup, SetupFails, Aim, fire_tx, wait_tx_done, At
  <2> QED BY <2>1 DEF OnUplink
<1>4. CASE Tick \/ PullRespRefused \/ ForwardUplink \/ UNCHANGED vars
  <2>1. UNCHANGED <<pc, config, faults>>
    BY <1>4 DEF Tick, PullRespRefused, ForwardUplink, vars, radio
  <2> QED BY <2>1 DEF OnUplink
<1>5. ASSUME NEW target \in NoTime .. Wrap - 1, PullResp(target)
      PROVE  OnUplink'
  <2>1. UNCHANGED <<pc, config, faults>>
    BY <1>5, PullRespStep
  <2> QED BY <2>1 DEF OnUplink
<1> QED BY <1>1, <1>2, <1>3, <1>4, <1>5 DEF Next, RadioStep

(* The inductive invariant of the accounts.                                *)
LedgerInv == TypeOK /\ Numbered /\ FiredOnce /\ Accounts /\ OnUplink

LEMMA InitLedger == Init => LedgerInv
<1> SUFFICES ASSUME Init PROVE LedgerInv
  OBVIOUS
<1>0. TypeOK /\ downlinkQ = <<>> /\ job = NoJob /\ fired = {} /\ pc = "start"
  BY InitType DEF Init
<1>1. \A id \in Ids : fate[id] = "none"
  BY DEF Init
<1>2. ASSUME NEW fs, "none" \notin fs PROVE Ended(fs) = 0
  <2>1. {id \in Ids : fate[id] \in fs} = {}
    BY <1>1, <1>2
  <2> QED BY <2>1, FS_EmptySet DEF Ended
<1>3. /\ Ended({"queued"}) = 0 /\ Ended({"missed", "failed", "sent"}) = 0
      /\ Ended({"sent"}) = 0 /\ Ended({"collision"}) = 0
  BY <1>2
<1>4. counters.dwnb = 0 /\ counters.txnb = 0 /\ counters.rxfw = 0 /\ counters.uplink = 0
      /\ counters.downlink = 0 /\ counters.dropped = 0 /\ uplinkQ = 0
  BY DEF Init
<1>5. Held = 0
  BY <1>0 DEF Held
<1>6. Accounts
  BY <1>3, <1>4, <1>5 DEF Accounts
<1>7. Numbered
  <2>1. \A id \in Ids : id > counters.dwnb
    BY <1>4 DEF Ids
  <2>2. counters.dwnb <= MaxDownlinks
    BY <1>4, GatewayAssumption
  <2>3. DOMAIN downlinkQ = {}
    BY <1>0
  <2> QED BY <1>0, <1>1, <2>1, <2>2, <2>3 DEF Numbered
<1>8. FiredOnce /\ OnUplink
  BY <1>0 DEF FiredOnce, OnUplink
<1> QED BY <1>0, <1>6, <1>7, <1>8 DEF LedgerInv

(* The jobs acknowledged with NONE and not finished are those in the queue *)
(* and in the hands of the radio task, every transmission belongs to a     *)
(* different one, the counters say so, and after a downlink the radio task *)
(* listens with the uplink configuration unless the radio failed.          *)
THEOREM Gateway_Correct == Spec => []GatewayInv
<1>1. LedgerInv /\ [Next]_vars => LedgerInv'
  BY TypeStep, NumberedStep, FiredOnceStep, AccountsStep, OnUplinkStep DEF LedgerInv
<1>2. LedgerInv => GatewayInv
  <2> SUFFICES ASSUME TypeOK, FiredOnce, Accounts, OnUplink PROVE GatewayInv
    BY DEF LedgerInv
  <2>1. JobsAccounted
    BY FiredCount DEF Accounts, Held, JobsAccounted
  <2>2. ListensOnUplink
    BY DEF OnUplink, ListensOnUplink
  <2> QED BY <2>1, <2>2 DEF GatewayInv
<1> QED BY InitLedger, <1>1, <1>2, PTL DEF Spec
===============================================================================
