-------------------------------- MODULE Gateway --------------------------------
(***************************************************************************)
(* The gateway personality of the hub: gateway_udp_task accepts downlinks  *)
(* from the network server and forwards uplinks to it; gateway_task owns   *)
(* the half-duplex radio, listens, and transmits each downlink at its      *)
(* target value of the microsecond counter.                                *)
(*                                                                         *)
(*   server --PULL_RESP--> gateway_udp_task --GW_DOWNLINK--> gateway_task  *)
(*   server <--PUSH_DATA-- gateway_udp_task <--GW_UPLINK---- gateway_task  *)
(*                                                                         *)
(* A step is what a task does between two awaits.  Time is a number of     *)
(* ticks of the counter; it passes while a task awaits, and a deadline     *)
(* bounds how long the radio task stays where it is: MaxStep for an SPI    *)
(* exchange or a transmission, MaxSetup for staging a transmission, and an *)
(* exact instant for a Timer::at.  The duty cycle and frequency checks of  *)
(* accept() are a verdict here; GatewayDuty models them.                   *)
(***************************************************************************)
EXTENDS GatewayScheduler, Sequences, FiniteSets

CONSTANTS
  DownlinkCap,    \* capacity of GW_DOWNLINK_CHANNEL (2)
  UplinkCap,      \* capacity of GW_UPLINK_CHANNEL (4)
  MaxStep,        \* bound: duration of a radio operation
  MaxSetup,       \* bound: duration of configure and prepare_tx
  StartTime,      \* when the UDP socket is bound
  LastArrival,    \* bound: no downlink arrives after this time
  MaxTime,        \* bound: the clock stops here
  MaxDownlinks,   \* bound: PULL_RESP datagrams
  MaxUplinks,     \* bound: rounds of the loop that end in a packet, good or bad
  MaxFaults       \* bound: failures of the radio

ASSUME GatewayAssumption ==
  /\ DownlinkCap \in Nat \ {0} /\ UplinkCap \in Nat \ {0}
  /\ MaxStep \in Nat \ {0} /\ MaxSetup \in Nat
  /\ MaxSetup + TxStartComp <= SetupLead
  /\ StartTime \in Nat /\ LastArrival \in Nat /\ MaxTime \in Nat /\ StartTime <= MaxTime
  /\ MaxDownlinks \in Nat /\ MaxUplinks \in Nat /\ MaxFaults \in Nat

(* One turn of the radio task for a downlink, from taking it to being back *)
(* with the next: arm, wait for the window, send, restore, arm.            *)
Turn == MaxAhead + 4 * MaxStep

(* A downlink that waits is classified within half a turn of the counter:  *)
(* the queue in front of it, the packets heard and the failed arm_receive  *)
(* calls (which each cost half a second, as long as they last) take less   *)
(* than the 35.8 minutes of "comparison horizon" beyond its window.        *)
ASSUME HorizonAssumption ==
  DownlinkCap * Turn + (1 + MaxUplinks + MaxFaults) * MaxStep <= Wrap \div 2 + SetupLead

VARIABLES
  now,         \* ticks since boot; the counter is now % Wrap
  downlinkQ,   \* GW_DOWNLINK_CHANNEL
  uplinkQ,     \* GW_UPLINK_CHANNEL: the number of packets in it
  pc,          \* where gateway_task awaits
  job,         \* the job it holds: pending, or in execute_downlink
  deadline,    \* when the current await ends at the latest
  config,      \* the radio's configuration: "uplink", or anything else
  counters,    \* StatCounters of the forwarder and HUB_STATS
  fate,        \* history: what became of each PULL_RESP
  fired,       \* history: the transmissions started
  heard,       \* history: rounds of the loop ended by a packet so far
  faults       \* history: failures of the radio so far

radio == <<pc, job, deadline, config>>
vars == <<now, downlinkQ, uplinkQ, radio, counters, fate, fired, heard, faults>>

Ids == 1 .. MaxDownlinks
Places == {"start", "arm", "listen", "asleep", "setup", "aim", "fire", "sending",
           "restore", "dead"}
Fates == {"none", "refused", "collision", "queued", "missed", "failed", "sent"}

(* A DownlinkJob: its target_tmst and, for the properties, the instant it  *)
(* stood for when it was accepted and whether the radio was free for it.   *)
NoJob == [id |-> 0, target |-> NoTime, due |-> NoTime, clear |-> FALSE]
Jobs == [id : Ids, target : NoTime .. Wrap - 1, due : NoTime .. MaxTime + MaxAhead,
         clear : BOOLEAN]

tmst == now % Wrap

Add(field, n) == [counters EXCEPT ![field] = @ + n]

At(place, limit) == pc' = place /\ deadline' = limit

(* Time passes while every task awaits: not beyond the deadline of the     *)
(* radio task, not while it has a job to take, and not during SetTx.       *)
Tick ==
  /\ now < MaxTime
  /\ deadline = NoTime \/ now < deadline
  /\ pc # "fire" /\ ~(pc = "listen" /\ downlinkQ # <<>>)
  /\ now' = now + 1
  /\ UNCHANGED <<downlinkQ, uplinkQ, radio, counters, fate, fired, heard, faults>>

-----------------------------------------------------------------------------
(* gateway_udp_task.                                                       *)

Fate(id, f) == fate' = [fate EXCEPT ![id] = f]

(* A PULL_RESP that accept() refuses, or whose txpk does not parse.        *)
PullRespRefused ==
  /\ counters.dwnb < MaxDownlinks /\ now <= LastArrival
  /\ counters' = Add("dwnb", 1)
  /\ Fate(counters.dwnb + 1, "refused")
  /\ UNCHANGED <<now, downlinkQ, uplinkQ, radio, fired, heard, faults>>

(* A downlink that passes the policy is queued and acknowledged with NONE, *)
(* or refused with COLLISION_PACKET because the queue is full.             *)
PullResp(target) ==
  LET id    == counters.dwnb + 1
      delta == tmst_delta_us(tmst, target)
      timed == target # NoTime
      new   == [id |-> id, target |-> target,
                due |-> IF timed THEN now + delta ELSE NoTime,
                clear |-> /\ pc = "listen" /\ downlinkQ = <<>>
                          /\ timed => delta >= SetupLead + (1 + MaxUplinks) * MaxStep]
  IN  /\ counters.dwnb < MaxDownlinks /\ now <= LastArrival
      /\ classify(tmst, ~timed, target) \in {"Immediate", "At"}
      /\ IF Len(downlinkQ) < DownlinkCap
         THEN /\ downlinkQ' = Append(downlinkQ, new)
              /\ Fate(id, "queued")
              /\ counters' = [counters EXCEPT !.dwnb = @ + 1, !.txnb = @ + 1]
         ELSE /\ Fate(id, "collision")
              /\ counters' = [counters EXCEPT !.dwnb = @ + 1, !.dropped = @ + 1]
              /\ UNCHANGED downlinkQ
      /\ UNCHANGED <<now, uplinkQ, radio, fired, heard, faults>>

(* on_uplink: a packet from the radio task becomes a PUSH_DATA.            *)
ForwardUplink ==
  /\ uplinkQ > 0
  /\ uplinkQ' = uplinkQ - 1
  /\ counters' = Add("rxfw", 1)
  /\ UNCHANGED <<now, downlinkQ, radio, fate, fired, heard, faults>>

-----------------------------------------------------------------------------
(* gateway_task.                                                           *)

(* A radio operation fails.                                                *)
Fault == faults < MaxFaults /\ faults' = faults + 1

(* init and the first configure: an error ends the task.                   *)
Start ==
  /\ pc = "start"
  /\ \/ config' = "uplink" /\ At("arm", now + MaxStep) /\ UNCHANGED faults
     \/ Fault /\ At("dead", NoTime) /\ UNCHANGED config
  /\ UNCHANGED <<now, downlinkQ, uplinkQ, job, counters, fate, fired, heard>>

(* The pending job is taken before arm_receive is known to have succeeded. *)
ArmFailLosesJob ==
  /\ pc = "arm" /\ Fault
  /\ At("arm", now + MaxStep)
  /\ job' = NoJob
  /\ UNCHANGED <<now, downlinkQ, uplinkQ, config, counters, fate, fired, heard>>

(* arm_receive fails: half a second later the loop starts again.           *)
ArmFails ==
  /\ pc = "arm" /\ Fault
  /\ At("arm", now + MaxStep)
  /\ UNCHANGED <<now, downlinkQ, uplinkQ, job, config, counters, fate, fired, heard>>

(* Nothing is pending: wait for a packet or for a job.                     *)
Listen ==
  /\ pc = "arm" /\ job = NoJob
  /\ At("listen", NoTime)
  /\ UNCHANGED <<now, downlinkQ, uplinkQ, job, config, counters, fate, fired, heard, faults>>

(* The setup time is asked for twice.                                      *)
MissWithDoubleLead ==
  /\ pc = "arm" /\ job # NoJob /\ job.target # NoTime
  /\ tmst_delta_us(tmst, job.target) < 2 * SetupLead
  /\ Fate(job.id, "missed")
  /\ job' = NoJob
  /\ At("restore", now + MaxStep)
  /\ UNCHANGED <<now, downlinkQ, uplinkQ, config, counters, fired, heard, faults>>

(* execute_downlink up to its first await, when the window has passed.     *)
MissWindow ==
  /\ pc = "arm" /\ job # NoJob /\ job.target # NoTime
  /\ tmst_delta_us(tmst, job.target) < SetupLead
  /\ Fate(job.id, "missed")
  /\ job' = NoJob
  /\ At("restore", now + MaxStep)
  /\ UNCHANGED <<now, downlinkQ, uplinkQ, config, counters, fired, heard, faults>>

(* ... when it has not: sleep until the setup has to begin.                *)
SleepUntilSetup ==
  LET delta == tmst_delta_us(tmst, job.target)
  IN  /\ pc = "arm" /\ job # NoJob /\ job.target # NoTime
      /\ delta >= SetupLead
      /\ At("asleep", now + delta - SetupLead)
      /\ UNCHANGED <<now, downlinkQ, uplinkQ, job, config, counters, fate, fired, heard, faults>>

(* configure begins, at the setup time or at once for an immediate job.    *)
BeginSetup ==
  /\ \/ pc = "asleep" /\ now = deadline
     \/ pc = "arm" /\ job # NoJob /\ job.target = NoTime
  /\ At("setup", now + MaxSetup)
  /\ config' = "other"
  /\ UNCHANGED <<now, downlinkQ, uplinkQ, job, counters, fate, fired, heard, faults>>

(* configure, prepare_tx or fire_tx fails.                                 *)
SetupFails ==
  /\ pc \in {"setup", "fire"} /\ Fault
  /\ Fate(job.id, "failed")
  /\ job' = NoJob
  /\ At("restore", now + MaxStep)
  /\ UNCHANGED <<now, downlinkQ, uplinkQ, config, counters, fired, heard>>

(* The wait is computed from the clock read before the SPI setup.          *)
AimWithOldClock ==
  /\ pc = "setup"
  /\ IF job.target # NoTime THEN At("aim", now + SetupLead - TxStartComp)
                            ELSE At("fire", NoTime)
  /\ UNCHANGED <<now, downlinkQ, uplinkQ, job, config, counters, fate, fired, heard, faults>>

(* The transmission is staged: read the clock again and wait for the       *)
(* instant to fire.                                                        *)
Aim ==
  LET remaining == tmst_delta_us(tmst, job.target)
  IN  /\ pc = "setup"
      /\ IF job.target # NoTime /\ remaining > TxStartComp
         THEN At("aim", now + remaining - TxStartComp)
         ELSE At("fire", NoTime)
      /\ UNCHANGED <<now, downlinkQ, uplinkQ, job, config, counters, fate, fired, heard, faults>>

fire_tx ==
  /\ pc = "fire" \/ (pc = "aim" /\ now = deadline)
  /\ fired' = fired \cup {[id |-> job.id, due |-> job.due, at |-> now]}
  /\ At("sending", now + MaxStep)
  /\ UNCHANGED <<now, downlinkQ, uplinkQ, job, config, counters, fate, heard, faults>>

(* wait_tx_done: the packet went out, or the interrupt never came.         *)
wait_tx_done ==
  /\ pc = "sending"
  /\ \/ Fate(job.id, "sent") /\ counters' = Add("downlink", 1) /\ UNCHANGED faults
     \/ Fate(job.id, "failed") /\ Fault /\ UNCHANGED counters
  /\ job' = NoJob
  /\ At("restore", now + MaxStep)
  /\ UNCHANGED <<now, downlinkQ, uplinkQ, config, fired, heard>>

(* The uplink configuration is not restored when another job is waiting.   *)
RestoreIfIdle ==
  /\ pc = "restore"
  /\ config' = IF downlinkQ = <<>> THEN "uplink" ELSE config
  /\ At("arm", now + MaxStep)
  /\ UNCHANGED <<now, downlinkQ, uplinkQ, job, counters, fate, fired, heard, faults>>

(* Back to the uplink configuration; an error is only logged.              *)
Restore ==
  /\ pc = "restore"
  /\ \/ config' = "uplink" /\ UNCHANGED faults
     \/ Fault /\ UNCHANGED config
  /\ At("arm", now + MaxStep)
  /\ UNCHANGED <<now, downlinkQ, uplinkQ, job, counters, fate, fired, heard>>

(* A packet is heard and read, and the loop starts again.                  *)
Hear ==
  /\ pc = "listen" /\ config = "uplink"
  /\ heard < MaxUplinks /\ heard' = heard + 1
  /\ IF uplinkQ < UplinkCap
     THEN uplinkQ' = uplinkQ + 1 /\ counters' = Add("uplink", 1)
     ELSE /\ counters' = [counters EXCEPT !.uplink = @ + 1, !.dropped = @ + 1]
          /\ UNCHANGED uplinkQ
  /\ At("arm", now + MaxStep)
  /\ UNCHANGED <<now, downlinkQ, job, config, fate, fired, faults>>

(* The poll times out; or the event is noise or a packet with a bad CRC,   *)
(* which the select prefers to a job that is waiting.                      *)
PollAgain ==
  /\ pc = "listen"
  /\ \/ downlinkQ = <<>> /\ UNCHANGED heard
     \/ downlinkQ # <<>> /\ heard < MaxUplinks /\ heard' = heard + 1
  /\ At("arm", now + MaxStep)
  /\ UNCHANGED <<now, downlinkQ, uplinkQ, job, config, counters, fate, fired, faults>>

TakeJob ==
  /\ pc = "listen" /\ downlinkQ # <<>>
  /\ job' = Head(downlinkQ)
  /\ downlinkQ' = Tail(downlinkQ)
  /\ At("arm", now + MaxStep)
  /\ UNCHANGED <<now, uplinkQ, config, counters, fate, fired, heard, faults>>

-----------------------------------------------------------------------------
Init ==
  /\ now = StartTime
  /\ downlinkQ = <<>> /\ uplinkQ = 0
  /\ pc = "start" /\ job = NoJob /\ deadline = StartTime + MaxStep /\ config = "other"
  /\ counters = [dwnb |-> 0, txnb |-> 0, rxfw |-> 0,
                 uplink |-> 0, downlink |-> 0, dropped |-> 0]
  /\ fate = [id \in Ids |-> "none"]
  /\ fired = {} /\ heard = 0 /\ faults = 0

RadioStep ==
  \/ Start \/ ArmFails \/ Listen \/ MissWindow \/ SleepUntilSetup \/ BeginSetup
  \/ SetupFails \/ Aim \/ fire_tx \/ wait_tx_done \/ Restore \/ TakeJob

Next ==
  \/ Tick
  \/ PullRespRefused
  \/ \E target \in NoTime .. Wrap - 1 : PullResp(target)
  \/ ForwardUplink
  \/ RadioStep
  \/ Hear
  \/ PollAgain

(* Time passes, the executor polls the tasks that were woken, and a radio  *)
(* operation ends (every wait of the driver has a timeout).                *)
Fairness == WF_vars(Tick) /\ WF_vars(RadioStep)

Spec == Init /\ [][Next]_vars
FairSpec == Spec /\ Fairness

-----------------------------------------------------------------------------
(* Every channel within its capacity; a job is held exactly while it is    *)
(* pending or being executed.                                              *)
TypeOK ==
  /\ now \in StartTime .. MaxTime
  /\ downlinkQ \in Seq(Jobs) /\ Len(downlinkQ) <= DownlinkCap
  /\ uplinkQ \in 0 .. UplinkCap
  /\ pc \in Places /\ job \in Jobs \cup {NoJob} /\ config \in {"uplink", "other"}
  /\ pc \in {"asleep", "setup", "aim", "fire", "sending"} => job # NoJob
  /\ pc \in {"start", "listen", "restore", "dead"} => job = NoJob
  /\ deadline \in {NoTime} \cup Nat
  /\ counters \in [{"dwnb", "txnb", "rxfw", "uplink", "downlink", "dropped"} -> Nat]
  /\ fate \in [Ids -> Fates]
  /\ heard \in 0 .. MaxUplinks /\ faults \in 0 .. MaxFaults

(* A scheduled downlink goes on the air exactly at its target, or not at   *)
(* all: whatever the queueing in front of it, the duration of the SPI      *)
(* setup and the wrap of the counter, SetTx is issued TxStartComp before   *)
(* the instant that the network server asked for.                          *)
OnTarget ==
  \A f \in fired : f.due # NoTime => f.at = f.due - TxStartComp

(* A downlink acknowledged with NONE misses its window only because the    *)
(* radio was not free for it: it was accepted behind another, or with too  *)
(* little time to hear the uplinks in the air first, or the radio failed.  *)
MissedForAReason ==
  [][MissWindow => ~job.clear \/ faults > 0]_vars

(* No job is lost or duplicated between the tasks: the jobs acknowledged   *)
(* with NONE and not finished are those in the queue and in the radio      *)
(* task's hands, txnb counts every one that was, and each transmission of  *)
(* the radio belongs to a different job.  The two uplink counts differ by  *)
(* what dropped_count reports.                                             *)
Ended(fs) == Cardinality({id \in Ids : fate[id] \in fs})

JobsAccounted ==
  LET held == Len(downlinkQ) + (IF job = NoJob THEN 0 ELSE 1)
  IN  /\ Ended({"queued"}) = held
      /\ counters.txnb = held + Ended({"missed", "failed", "sent"})
      /\ counters.downlink = Ended({"sent"})
      /\ Cardinality({f.id : f \in fired}) = Cardinality(fired)
      /\ counters.dropped = Ended({"collision"})
                              + (counters.uplink - counters.rxfw - uplinkQ)

(* Every downlink acknowledged with NONE is transmitted, missed or failed  *)
(* within bounded time, unless the radio never started.                    *)
JobsEnd ==
  \A id \in Ids : []<>(fate[id] # "queued" \/ pc = "dead")

(* The radio task listens with the uplink configuration ("Listens on the   *)
(* configured channel") after every downlink, sent, missed or failed, and  *)
(* whatever is queued behind it; only a radio failure, which the task      *)
(* logs and forgets, leaves it on the downlink's parameters.               *)
ListensOnUplink == pc = "listen" /\ config # "uplink" => faults > 0

(* Between two downlinks nothing is left over: no job outside of the       *)
(* queue and the radio task's hands, and no setting of the last one.       *)
GatewayInv ==
  /\ TypeOK
  /\ JobsAccounted
  /\ ListensOnUplink
===============================================================================
