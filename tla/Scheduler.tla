----------------------------- MODULE Scheduler -----------------------------
(***************************************************************************)
(* The Scheduler class of Simulator.py: the three queues one scheduler     *)
(* instance owns (txQueue, delayQueue, rxQueue), the network delay model   *)
(* (addPktToDelayQueue), the depletion step (depleteDelayQueue) and the    *)
(* two policies, simpleScheduler (SRPT, one priority class) and            *)
(* idealScheduler (one packet per pending message, priority = remaining    *)
(* size).  Each policy is one action: a whole call of the method for one  *)
(* slot.  The driver (Simulator.tla) chooses the slot and hands over the   *)
(* transmit queue after it has inserted that slot's arrival.               *)
(*                                                                         *)
(* Data: a message of txQueue is [msgId, msgSize] (msgSize is the          *)
(* remaining size, decremented in place); a packet is [msgId, msgSize,     *)
(* prio] with msgSize the remaining size when it was scheduled; a delayed  *)
(* packet is the packet with its remaining delay.  Two ghost fields of a   *)
(* packet, not in the code, record history for the properties: sent, the  *)
(* slot it was scheduled in, and rel, the slot its delay runs out.         *)
(***************************************************************************)
EXTENDS Integers, Sequences, FiniteSets, SequencesExt

CONSTANTS
  FixedDelay,   \* the module global fixedDelay
  MaxPoisson,   \* bound on np.random.poisson(avgDelay): its tail is cut here
  MsgIds        \* message ids the driver can hand out

VARIABLES
  txQueue,      \* Seq of [msgId, msgSize], ascending by msgSize
  delayQueue,   \* Seq of [pkt, delay], ascending by delay
  rxQueue,      \* Seq of packets, ascending by prio
  pktOutTimes   \* msgId -> Seq of departure records; <<>> = key absent

(* delay = np.random.poisson(avgDelay) + fixedDelay *)
Delays == FixedDelay .. FixedDelay + MaxPoisson

(***************************************************************************)
(* list.sort(cmp=...) of Python 2 is stable: element i of s goes to the    *)
(* position after every element with a smaller key and every earlier       *)
(* element with the same key.  The sort key is the record field key.       *)
(***************************************************************************)
(* Mutant: an unstable sort that puts later elements first among ties. *)
SortTiesReversed(s, key) ==
  LET Before(j, i) == \/ s[j][key] < s[i][key]
                      \/ s[j][key] = s[i][key] /\ j > i
      Rank(i) == Cardinality({j \in DOMAIN s : Before(j, i)})
  IN  [k \in DOMAIN s |-> s[CHOOSE i \in DOMAIN s : Rank(i) = k - 1]]

StableSortBy(s, key) ==
  LET Before(j, i) == \/ s[j][key] < s[i][key]
                      \/ s[j][key] = s[i][key] /\ j < i
      Rank(i) == Cardinality({j \in DOMAIN s : Before(j, i)})
  IN  [k \in DOMAIN s |-> s[CHOOSE i \in DOMAIN s : Rank(i) = k - 1]]

(* Mutant: the sort after an arrival is appended is left out. *)
SortBySizeUnsorted(q) == q

(* txQueue.sort(cmp=lambda x, y: cmp(x[1], y[1])) *)
SortBySize(q) == StableSortBy(q, "msgSize")

(* Mutant: each delayed packet is inserted at the front, not appended. *)
AddPktsNewFirst(dq, pkts, ds) ==
  StableSortBy(Reverse([i \in DOMAIN pkts |->
                 [pkt |-> [pkts[i] EXCEPT !.rel = @ + ds[i]], delay |-> ds[i]]]) \o dq,
               "delay")

(***************************************************************************)
(* addPktToDelayQueue, for the packets pkts scheduled in one call in that  *)
(* order, pkts[i] drawing delay ds[i].  Appending them one by one and      *)
(* stable-sorting after each append is the stable sort of the whole        *)
(* concatenation, which is what is computed here.                          *)
(***************************************************************************)
AddPktsToDelayQueue(dq, pkts, ds) ==
  StableSortBy(dq \o [i \in DOMAIN pkts |->
                        [pkt |-> [pkts[i] EXCEPT !.rel = @ + ds[i]], delay |-> ds[i]]],
               "delay")

(* Mutant: delays are decremented before the zero-delay packets leave. *)
DepleteDecrementFirst(dq, rx) ==
  LET dec      == [i \in DOMAIN dq |-> [dq[i] EXCEPT !.delay = @ - 1]]
      released == SelectSeq(dec, LAMBDA dp : dp.delay = 0)
  IN  << SelectSeq(dec, LAMBDA dp : dp.delay # 0),
         StableSortBy(rx \o [i \in DOMAIN released |-> released[i].pkt],
                      "prio") >>

(* Mutant: released packets are put in front of the waiting ones. *)
DepleteReleasedFirst(dq, rx) ==
  LET released == SelectSeq(dq, LAMBDA dp : dp.delay = 0)
      kept     == SelectSeq(dq, LAMBDA dp : dp.delay # 0)
  IN  << [i \in DOMAIN kept |-> [kept[i] EXCEPT !.delay = @ - 1]],
         StableSortBy([i \in DOMAIN released |-> released[i].pkt] \o rx,
                      "prio") >>

(***************************************************************************)
(* depleteDelayQueue: every delayed packet whose delay is 0 is stripped of *)
(* its delay and appended to rxQueue in delayQueue order, rxQueue is       *)
(* stable-sorted by priority, and only then is every delay still in        *)
(* delayQueue decremented.  Result: <<delayQueue, rxQueue>>.               *)
(***************************************************************************)
DepleteDelayQueue(dq, rx) ==
  LET released == SelectSeq(dq, LAMBDA dp : dp.delay = 0)
      kept     == SelectSeq(dq, LAMBDA dp : dp.delay # 0)
  IN  << [i \in DOMAIN kept |-> [kept[i] EXCEPT !.delay = @ - 1]],
         StableSortBy(rx \o [i \in DOMAIN released |-> released[i].pkt],
                      "prio") >>

(* Mutant: the head of rxQueue leaves only when another packet waits. *)
RetireIfMany(slot, tx, dq) ==
  LET dep == DepleteDelayQueue(dq, rxQueue)
      rx  == dep[2]
  IN  IF Len(rx) <= 1
        THEN [tx |-> tx, dq |-> dep[1], rx |-> rx, out |-> pktOutTimes]
        ELSE [tx |-> tx, dq |-> dep[1], rx |-> Tail(rx),
              out |-> [pktOutTimes EXCEPT ![Head(rx).msgId] =
                         Append(@, [slot |-> slot, prio |-> Head(rx).prio,
                                    msgSize |-> Head(rx).msgSize])]]

(***************************************************************************)
(* The part both policies share once their packets are in dq: deplete the  *)
(* delay queue, then pop the head of rxQueue, if any, and append           *)
(* [slot, prio, msgSize] to pktOutTimes[msgId].  The result is the state   *)
(* the scheduler leaves behind: [tx, dq, rx, out].                         *)
(***************************************************************************)
DepleteAndRetire(slot, tx, dq) ==
  LET dep == DepleteDelayQueue(dq, rxQueue)
      rx  == dep[2]
  IN  IF rx = <<>>
        THEN [tx |-> tx, dq |-> dep[1], rx |-> rx, out |-> pktOutTimes]
        ELSE [tx |-> tx, dq |-> dep[1], rx |-> Tail(rx),
              out |-> [pktOutTimes EXCEPT ![Head(rx).msgId] =
                         Append(@, [slot |-> slot, prio |-> Head(rx).prio,
                                    msgSize |-> Head(rx).msgSize])]]

(* The scheduler's state becomes the outcome o of one call. *)
Apply(o) ==
  /\ txQueue' = o.tx
  /\ delayQueue' = o.dq
  /\ rxQueue' = o.rx
  /\ pktOutTimes' = o.out

(***************************************************************************)
(* simpleScheduler(slot): if tx is not empty, one packet of its head (the  *)
(* message with the smallest remaining size) with priority 0 enters the    *)
(* delay queue, the head's size is decremented in place and the head is    *)
(* popped when it reaches 0.  tx is txQueue as the driver left it.  One    *)
(* outcome per delay the packet can draw.                                  *)
(***************************************************************************)
(* Mutant: the head is never popped when its size reaches 0. *)
SimpleTxNoPop(tx) == [tx EXCEPT ![1].msgSize = @ - 1]

SimpleTxAfter(tx) ==
  IF Head(tx).msgSize - 1 = 0 THEN Tail(tx)
  ELSE [tx EXCEPT ![1].msgSize = @ - 1]

SimpleOutcomes(slot, tx) ==
  IF tx = <<>>
    THEN {DepleteAndRetire(slot, tx, delayQueue)}
    ELSE LET pkt == [msgId |-> Head(tx).msgId, msgSize |-> Head(tx).msgSize,
                     prio |-> 0, sent |-> slot, rel |-> slot]
         IN  {DepleteAndRetire(slot, SimpleTxAfter(tx), dq) :
                dq \in {AddPktsToDelayQueue(delayQueue, <<pkt>>, <<d>>) : d \in Delays}}

(* The queue tx is bound once (\E over {tx}) so that TLC evaluates the     *)
(* sorts it is built from once per step, also inside ENABLED.              *)
SimpleScheduler(slot, tx) ==
  \E t \in {tx} : \E o \in SimpleOutcomes(slot, t) : Apply(o)

(***************************************************************************)
(* idealScheduler(slot): for every message of a snapshot of tx, one packet *)
(* with priority equal to its remaining size enters the delay queue, each  *)
(* drawing its own delay; a message of size 1 is removed, every other one  *)
(* decremented.  One outcome per assignment of delays to the packets.      *)
(***************************************************************************)
(* Mutant: a message leaves only once its size is already 0. *)
IdealTxRemoveAtZero(tx) ==
  LET left == SelectSeq(tx, LAMBDA m : m.msgSize # 0)
  IN  [i \in DOMAIN left |-> [left[i] EXCEPT !.msgSize = @ - 1]]

IdealTxAfter(tx) ==
  LET left == SelectSeq(tx, LAMBDA m : m.msgSize # 1)
  IN  [i \in DOMAIN left |-> [left[i] EXCEPT !.msgSize = @ - 1]]

(***************************************************************************)
(* Mutant: iterating over txQueue itself instead of the copy txQueue[:]:   *)
(* after a message is removed the next one moves into its index and the    *)
(* iterator skips it for this slot.                                        *)
(***************************************************************************)
IdealLiveIteration(slot, tx) ==
  LET visited[i \in 1 .. Len(tx)] ==
        IF i = 1 THEN TRUE ELSE ~(visited[i - 1] /\ tx[i - 1].msgSize = 1)
      vis  == SelectSeq([i \in 1 .. Len(tx) |-> i], LAMBDA i : visited[i])
      pkts == [k \in DOMAIN vis |->
                 [msgId |-> tx[vis[k]].msgId, msgSize |-> tx[vis[k]].msgSize,
                  prio |-> tx[vis[k]].msgSize, sent |-> slot, rel |-> slot]]
      after == [i \in 1 .. Len(tx) |->
                  IF visited[i] THEN [tx[i] EXCEPT !.msgSize = @ - 1] ELSE tx[i]]
      left == SelectSeq([i \in 1 .. Len(tx) |-> i],
                        LAMBDA i : ~(visited[i] /\ tx[i].msgSize = 1))
  IN  {DepleteAndRetire(slot, [k \in DOMAIN left |-> after[left[k]]],
                        AddPktsToDelayQueue(delayQueue, pkts, ds)) :
         ds \in [1 .. Len(pkts) -> Delays]}

IdealPkts(slot, tx) ==
  [i \in 1 .. Len(tx) |-> [msgId |-> tx[i].msgId, msgSize |-> tx[i].msgSize,
                           prio |-> tx[i].msgSize, sent |-> slot, rel |-> slot]]

IdealOutcomes(slot, tx) ==
  {DepleteAndRetire(slot, IdealTxAfter(tx), dq) :
     dq \in {AddPktsToDelayQueue(delayQueue, pkts, ds) :
               pkts \in {IdealPkts(slot, tx)}, ds \in [1 .. Len(tx) -> Delays]}}

IdealScheduler(slot, tx) ==
  \E t \in {tx} : \E o \in IdealOutcomes(slot, t) : Apply(o)

(* Scheduler(txQueue, rxQueue, delayQueue) built by run() with fresh lists *)
SchedInit ==
  /\ txQueue = <<>>
  /\ delayQueue = <<>>
  /\ rxQueue = <<>>

(* Mutant: the drain loop condition forgets the delay queue. *)
QueuesEmptyButDelay == txQueue = <<>> /\ rxQueue = <<>>

QueuesEmpty == txQueue = <<>> /\ rxQueue = <<>> /\ delayQueue = <<>>

=============================================================================
