----------------------------- MODULE Simulator -----------------------------
(***************************************************************************)
(* run(steps, rho, distMatrix, msgDict, pktOutTimes) of Simulator.py and   *)
(* the penalty analysis of its __main__ block, for one value of rho.       *)
(*                                                                         *)
(* run() first drives a Scheduler with simpleScheduler: for each slot in   *)
(* range(steps) a message may arrive (random.random() < probPerSlot, a     *)
(* nondeterministic choice here), is inserted into txQueue and recorded in *)
(* msgDict, and the scheduler runs; then it drains until the three queues  *)
(* are empty.  It then builds a fresh Scheduler and replays msgDict        *)
(* through idealScheduler the same way.  The analysis compares, for every  *)
(* message both stores know, the completion times of the two runs.        *)
(*                                                                         *)
(* Both runs use the queue variables of one Scheduler instance (run()      *)
(* rebinds txQueue, rxQueue and delayQueue to fresh lists between the      *)
(* runs); each run writes its own result store, pktOutTimes['simple'] and  *)
(* pktOutTimes['ideal'].                                                   *)
(***************************************************************************)
EXTENDS Integers, Sequences, SequencesExt, TLC

CONSTANTS
  Steps,        \* the steps argument (--slots)
  DistMatrix,   \* the size distribution table, see DistributionSampler
  Grid,         \* resolution of its probabilities
  None,         \* Python None
  FixedDelay,   \* fixedDelay
  MaxPoisson,   \* bound on the Poisson part of a delay
  MaxSlot       \* bound on the slot counter of the drain loops

VARIABLES
  phase,        \* which part of run()/__main__ executes
  slot,         \* the next slot the driver hands to the scheduler
  msgId,        \* next id (simple run) / replay cursor (ideal run)
  msgDict,      \* msgId -> [msgSize, slot] of every generated message
  txQueue, delayQueue, rxQueue,
  simpleOut,    \* pktOutTimes['simple']
  idealOut      \* pktOutTimes['ideal']

vars == <<phase, slot, msgId, msgDict, txQueue, delayQueue, rxQueue,
          simpleOut, idealOut>>

MsgIds == 0 .. Steps - 1    \* at most one message per slot

INSTANCE DistributionSampler

Simple == INSTANCE Scheduler WITH pktOutTimes <- simpleOut
Ideal  == INSTANCE Scheduler WITH pktOutTimes <- idealOut

SortBySize(q) == Simple!SortBySize(q)

Terminated == phase \in {"done", "ZeroDivisionError"}

-----------------------------------------------------------------------------
Init ==
  /\ phase = "simple"
  /\ slot = 0
  /\ msgId = 0
  /\ msgDict = [m \in {} |-> [msgSize |-> 0, slot |-> 0]]
  /\ Simple!SchedInit
  /\ simpleOut = [m \in MsgIds |-> <<>>]
  /\ idealOut = [m \in MsgIds |-> <<>>]

(***************************************************************************)
(* One iteration of the arrival loop of the simple run: maybe a new        *)
(* message [msgId, generateMsgSize(distMatrix)] is appended to txQueue,    *)
(* txQueue is sorted by size and msgDict[msgId] = [size, slot]; then       *)
(* simpleScheduler(slot) runs.                                             *)
(***************************************************************************)
GenerateSlot ==
  /\ phase = "simple"
  /\ slot < Steps
  /\ \/ /\ Simple!SimpleScheduler(slot, txQueue)
        /\ UNCHANGED <<msgId, msgDict>>
     \/ \E r \in Draws :
          LET newMsg == [msgId |-> msgId,
                         msgSize |-> GenerateMsgSize(DistMatrix, r)]
          IN  /\ msgDict' = msgDict @@ (msgId :> [msgSize |-> newMsg.msgSize,
                                                   slot |-> slot])
              /\ msgId' = msgId + 1
              /\ Simple!SimpleScheduler(slot, SortBySize(Append(txQueue, newMsg)))
  /\ slot' = slot + 1
  /\ UNCHANGED <<phase, idealOut>>

(* One iteration of the drain loop of the simple run: slot += 1 and call. *)
SimpleDrain ==
  /\ phase = "simple"
  /\ slot >= Steps
  /\ slot < MaxSlot
  /\ ~Simple!QueuesEmpty
  /\ Simple!SimpleScheduler(slot, txQueue)
  /\ slot' = slot + 1
  /\ UNCHANGED <<phase, msgId, msgDict, idealOut>>

(* The simple drain loop exits; fresh queues and msgId = 0 for the replay. *)
StartIdeal ==
  /\ phase = "simple"
  /\ slot >= Steps
  /\ Simple!QueuesEmpty
  /\ phase' = "ideal"
  /\ slot' = 0
  /\ msgId' = 0
  /\ txQueue' = <<>>
  /\ delayQueue' = <<>>
  /\ rxQueue' = <<>>
  /\ UNCHANGED <<msgDict, simpleOut, idealOut>>

(* Mutant: the replay takes the size from msgDict[msgId][1], the slot. *)
ReplaySizeFromSlot ==
  /\ phase = "ideal"
  /\ slot < Steps
  /\ \/ /\ msgId \in DOMAIN msgDict
        /\ msgDict[msgId].slot = slot
        /\ msgId' = msgId + 1
        /\ Ideal!IdealScheduler(slot, SortBySize(Append(txQueue,
                 [msgId |-> msgId, msgSize |-> msgDict[msgId].slot])))
     \/ /\ ~(msgId \in DOMAIN msgDict /\ msgDict[msgId].slot = slot)
        /\ UNCHANGED msgId
        /\ Ideal!IdealScheduler(slot, txQueue)
  /\ slot' = slot + 1
  /\ UNCHANGED <<phase, msgDict, simpleOut>>

(***************************************************************************)
(* One iteration of the replay loop: when msgDict records msgId as arrived *)
(* in this slot, it is appended to txQueue with its recorded size and      *)
(* txQueue is sorted; then idealScheduler(slot) runs.                      *)
(***************************************************************************)
ReplaySlot ==
  /\ phase = "ideal"
  /\ slot < Steps
  /\ \/ /\ msgId \in DOMAIN msgDict
        /\ msgDict[msgId].slot = slot
        /\ msgId' = msgId + 1
        /\ Ideal!IdealScheduler(slot, SortBySize(Append(txQueue,
                 [msgId |-> msgId, msgSize |-> msgDict[msgId].msgSize])))
     \/ /\ ~(msgId \in DOMAIN msgDict /\ msgDict[msgId].slot = slot)
        /\ UNCHANGED msgId
        /\ Ideal!IdealScheduler(slot, txQueue)
  /\ slot' = slot + 1
  /\ UNCHANGED <<phase, msgDict, simpleOut>>

(* One iteration of the drain loop of the ideal run. *)
IdealDrain ==
  /\ phase = "ideal"
  /\ slot >= Steps
  /\ slot < MaxSlot
  /\ ~Ideal!QueuesEmpty
  /\ Ideal!IdealScheduler(slot, txQueue)
  /\ slot' = slot + 1
  /\ UNCHANGED <<phase, msgId, msgDict, simpleOut>>

(***************************************************************************)
(* The penalty analysis after run() returns: for every key of the simple   *)
(* store that the ideal store has, completion = max departure slot minus   *)
(* arrival slot, and penalty += (simple - ideal) / ideal; finally          *)
(* penalty / numMsg.  Either division raises ZeroDivisionError when its    *)
(* divisor is 0.  Float values are not modelled, only the divisors.        *)
(***************************************************************************)
Compared ==
  {m \in MsgIds : simpleOut[m] # <<>> /\ idealOut[m] # <<>>}

Completion(out, m) ==
  Max({out[m][i].slot : i \in DOMAIN out[m]}) - msgDict[m].slot

DividesByZero ==
  \/ \E m \in Compared : Completion(idealOut, m) = 0
  \/ Compared = {}

(***************************************************************************)
(* The penalties, as exact rationals [num, den] (the code sums floats, in  *)
(* the iteration order of a dict): one per compared message, their sum,   *)
(* and the sum and count per message size (penaltyPerSize).  They are     *)
(* functions of the two stores and msgDict once the ideal run is over.     *)
(***************************************************************************)
RatZero == [num |-> 0, den |-> 1]
RECURSIVE Gcd(_, _)
Gcd(a, b) == IF b = 0 THEN a ELSE Gcd(b, a % b)

(* A fraction in lowest terms, so that sums stay within TLC's integers *)
Reduced(n, d) ==
  LET g == Gcd(IF n < 0 THEN -n ELSE n, d)
  IN  [num |-> n \div g, den |-> d \div g]

RatAdd(a, b) == Reduced(a.num * b.den + b.num * a.den, a.den * b.den)

RECURSIVE RatSum(_)
RatSum(f) ==
  IF DOMAIN f = {} THEN RatZero
  ELSE LET x == CHOOSE x \in DOMAIN f : TRUE
       IN  RatAdd(f[x], RatSum([y \in DOMAIN f \ {x} |-> f[y]]))

(* (msgCompletionTimeSimple - msgCompletionTimeIdeal) / msgCompletionTimeIdeal *)
MsgPenalty(m) ==
  [num |-> Completion(simpleOut, m) - Completion(idealOut, m),
   den |-> Completion(idealOut, m)]

Penalty == RatSum([m \in Compared |-> MsgPenalty(m)])

NumMsg == Cardinality(Compared)

SizesCompared == {msgDict[m].msgSize : m \in Compared}

OfSize(s) == {m \in Compared : msgDict[m].msgSize = s}

PenaltyPerSize(s) ==
  [total |-> RatSum([m \in OfSize(s) |-> MsgPenalty(m)]),
   count |-> Cardinality(OfSize(s))]

(* The means written to the two tables: penalty/numMsg, and per size     *)
(* total/count, or 0.0 for an empty bucket.                              *)
MeanPenalty == [num |-> Penalty.num, den |-> Penalty.den * NumMsg]

MeanOfSize(s) ==
  IF PenaltyPerSize(s).count # 0
    THEN [num |-> PenaltyPerSize(s).total.num,
          den |-> PenaltyPerSize(s).total.den * PenaltyPerSize(s).count]
    ELSE RatZero

Analyze ==
  /\ phase = "ideal"
  /\ slot >= Steps
  /\ Ideal!QueuesEmpty
  /\ phase' = IF DividesByZero THEN "ZeroDivisionError" ELSE "done"
  /\ UNCHANGED <<slot, msgId, msgDict, txQueue, delayQueue, rxQueue,
                 simpleOut, idealOut>>

Next ==
  \/ GenerateSlot
  \/ SimpleDrain
  \/ StartIdeal
  \/ ReplaySlot
  \/ IdealDrain
  \/ Analyze

(***************************************************************************)
(* run() is one sequential loop that takes its next step whenever it has   *)
(* one: weak fairness of Next.                                             *)
(***************************************************************************)
Spec == Init /\ [][Next]_vars /\ WF_vars(Next)

-----------------------------------------------------------------------------
(* Properties *)

Packet == [msgId : MsgIds, msgSize : Nat, prio : Nat, sent : Nat, rel : Nat]
Record == [slot : Nat, prio : Nat, msgSize : Nat]

TypeOK ==
  /\ phase \in {"simple", "ideal", "done", "ZeroDivisionError"}
  /\ slot \in 0 .. MaxSlot
  /\ msgId \in 0 .. Steps
  /\ DOMAIN msgDict \subseteq MsgIds
  /\ \A m \in DOMAIN msgDict : msgDict[m].slot \in 0 .. Steps - 1
  /\ txQueue \in Seq([msgId : MsgIds, msgSize : Nat])
  /\ delayQueue \in Seq([pkt : Packet, delay : Nat])
  /\ rxQueue \in Seq(Packet)
  /\ simpleOut \in [MsgIds -> Seq(Record)]
  /\ idealOut \in [MsgIds -> Seq(Record)]

(* The messages the run under way has put into its transmit queue so far *)
Arrived == IF phase = "simple" THEN DOMAIN msgDict ELSE 0 .. msgId - 1

(* The result store of the run under way *)
CurrentOut == IF phase = "simple" THEN simpleOut ELSE idealOut

(* Packets of m still to send (in txQueue) and in the network *)
Unsent(m) ==
  SumFunctionOnSet([i \in DOMAIN txQueue |-> txQueue[i].msgSize],
                   {i \in DOMAIN txQueue : txQueue[i].msgId = m})

InNet(m) ==
  Len(SelectSeq(delayQueue, LAMBDA dp : dp.pkt.msgId = m))
  + Len(SelectSeq(rxQueue, LAMBDA p : p.msgId = m))

(* Packets of m still to send, in flight, received, and departed *)
Accounted(m) == Unsent(m) + InNet(m) + Len(CurrentOut[m])

(***************************************************************************)
(* Mass conservation: every unit of a message's size is, at every slot     *)
(* boundary, exactly one of: remaining in txQueue, a packet in delayQueue, *)
(* a packet in rxQueue, or a departure record of the current run; a        *)
(* message not yet inserted has nothing anywhere.  It is about the         *)
(* in-place decrements of simpleScheduler and idealScheduler (the ideal    *)
(* one iterating over a snapshot while removing from the live list) and    *)
(* the removal of released packets in depleteDelayQueue.                   *)
(***************************************************************************)
MassConservation ==
  \A m \in MsgIds :
    Accounted(m) = IF m \in Arrived THEN msgDict[m].msgSize ELSE 0

(***************************************************************************)
(* SRPT order with FIFO ties: txQueue is ascending by remaining size at    *)
(* every slot boundary and, among equal sizes, by msgId, i.e. by arrival.  *)
(* simpleScheduler serves the head, so the message it serves has the      *)
(* smallest remaining size and is the oldest such message.  Only arrivals  *)
(* sort the list (a stable sort that puts the new message after its equal *)
(* peers); the in-place decrements of both schedulers must preserve the    *)
(* order by themselves.                                                    *)
(***************************************************************************)
TxQueueSrptFifo ==
  IsSorted(txQueue, LAMBDA a, b : \/ a.msgSize < b.msgSize
                                  \/ a.msgSize = b.msgSize /\ a.msgId < b.msgId)

(***************************************************************************)
(* Receive-queue order (spec 4.3, step 3): rxQueue is ascending by         *)
(* priority and, within one priority, FIFO by arrival into the receive     *)
(* queue: by release slot, and within one release slot by the slot the     *)
(* packet was scheduled in.  In the simple run every priority is 0, so     *)
(* this is the order packets depart in.  It rests on depleteDelayQueue     *)
(* appending released packets after the waiting ones and on both sorts     *)
(* (delayQueue by delay, rxQueue by priority) being stable.                *)
(***************************************************************************)
RxFifo ==
  IsSorted(rxQueue, LAMBDA a, b :
             \/ a.prio < b.prio
             \/ a.prio = b.prio /\ a.rel < b.rel
             \/ a.prio = b.prio /\ a.rel = b.rel /\ a.sent <= b.sent)

(***************************************************************************)
(* Timing lower bound: the packet that left a message of size s with r     *)
(* units still unsent was scheduled at least s - r slots after the message *)
(* arrived and spent at least fixedDelay slots in the network, so its      *)
(* departure slot is at least arrival + (s - r) + fixedDelay, in both      *)
(* result stores.  It is about the order of release and decrement in      *)
(* depleteDelayQueue relative to the injection that precedes it in the    *)
(* same scheduler call, and about the replay inserting a message at its    *)
(* recorded slot.  It implies the completion-time bound of spec section 8. *)
(***************************************************************************)
DepartureLowerBound ==
  \A m \in DOMAIN msgDict :
    \A out \in {simpleOut, idealOut} :
      \A i \in DOMAIN out[m] :
        out[m][i].slot >=
          msgDict[m].slot + (msgDict[m].msgSize - out[m][i].msgSize) + FixedDelay

(***************************************************************************)
(* Nothing is silently excluded: when the analysis runs, every generated   *)
(* message has all its packets recorded in both stores.  The analysis      *)
(* skips a key missing from the ideal store without complaint, so a        *)
(* message the replay loses (one cursor, one insertion per slot) would     *)
(* bias the penalty without any error.                                     *)
(***************************************************************************)
AllDelivered ==
  Terminated =>
    \A m \in DOMAIN msgDict :
      /\ Len(simpleOut[m]) = msgDict[m].msgSize
      /\ Len(idealOut[m]) = msgDict[m].msgSize

(* A scheduler call: the driver hands one slot to the scheduler *)
SchedulerStep ==
  phase \in {"simple", "ideal"} /\ phase' = phase /\ slot' = slot + 1

(* Packets in the network or the receive queue, and departed packets *)
InFlight == Len(delayQueue) + Len(rxQueue)
Departed == SumFunction([m \in MsgIds |-> Len(CurrentOut[m])])

(* Length of txQueue when the scheduler is called, the arrival included *)
TxAtCall == Len(txQueue) + (msgId' - msgId)

(***************************************************************************)
(* Work per slot (spec 8): in every scheduler call, simpleScheduler puts   *)
(* one packet into the network when txQueue is not empty, idealScheduler   *)
(* exactly one per message in txQueue; at most one packet departs, and one *)
(* does whenever a packet is left waiting in rxQueue.  idealScheduler      *)
(* removes finished messages from the list it is iterating over, which is  *)
(* only correct because it iterates over the copy txQueue[:].              *)
(***************************************************************************)
WorkPerSlot ==
  [][SchedulerStep =>
       LET injected == (InFlight' + Departed') - (InFlight + Departed)
       IN  /\ injected = IF phase = "simple" THEN IF TxAtCall > 0 THEN 1 ELSE 0
                         ELSE TxAtCall
           /\ Departed' - Departed \in {0, 1}
           /\ rxQueue' # <<>> => Departed' = Departed + 1
    ]_vars

(***************************************************************************)
(* Termination: both drain loops end (all queues empty) within the slot    *)
(* bound, and the analysis is reached.                                     *)
(***************************************************************************)
Termination == <>Terminated

(***************************************************************************)
(* The analysis never divides by zero (spec section 8: with steps = 0 the  *)
(* analyzer reports zero messages compared, not a division fault).  The    *)
(* code divides by numMsg and by each ideal completion time unguarded.     *)
(***************************************************************************)
NoZeroDivision == phase # "ZeroDivisionError"

(***************************************************************************)
(* One-slot minimum (spec 4.3 and 8): a packet is never released in the    *)
(* slot it was injected, so it departs at least one slot after the        *)
(* earliest slot it can have been scheduled.  The code injects and then    *)
(* depletes in the same call, so this rests on fixedDelay >= 1.            *)
(***************************************************************************)
MinOneSlotLatency ==
  \A m \in DOMAIN msgDict :
    \A out \in {simpleOut, idealOut} :
      \A i \in DOMAIN out[m] :
        out[m][i].slot >=
          msgDict[m].slot + (msgDict[m].msgSize - out[m][i].msgSize) + 1

(***************************************************************************)
(* Ideal is never worse (spec section 8, "penalty non-negativity"): summed *)
(* over the compared messages, the simple run's completion times are at   *)
(* least the ideal run's.  With the Poisson part of the delay fixed, the   *)
(* two runs see the same network, so only the priorities differ: the      *)
(* ideal packet of a message carries its remaining size when it was sent  *)
(* (idealScheduler), so its later packets outrank its own earlier ones.   *)
(***************************************************************************)
IdealNeverWorse ==
  phase = "done" =>
    SumFunction([m \in Compared |-> Completion(simpleOut, m) - Completion(idealOut, m)]) >= 0

-----------------------------------------------------------------------------
(***************************************************************************)
(* Refinement: run() implements Transport.  Remaining sizes in txQueue are *)
(* the unsent packets, packets in delayQueue or rxQueue are in the         *)
(* network, and the departure records of the current run are the          *)
(* delivered packets.                                                      *)
(***************************************************************************)
TableSizes == {DistMatrix[i][2] : i \in DOMAIN DistMatrix}

Abstract == INSTANCE Transport WITH
  Sizes  <- TableSizes,
  phase  <- IF Terminated THEN "end" ELSE phase,
  clock  <- slot,
  trace  <- msgDict,
  unsent <- [m \in MsgIds |-> Unsent(m)],
  inNet  <- [m \in MsgIds |-> InNet(m)],
  recv   <- [m \in MsgIds |-> Len(CurrentOut[m])]

(***************************************************************************)
(* run() implements Transport: every step of the driver and its scheduler *)
(* calls is a slot of the abstract run.  This checks the SRPT choice with *)
(* FIFO ties of simpleScheduler, the one-packet-per-pending-message of     *)
(* idealScheduler, delivery only of packets sent in an earlier slot, at    *)
(* most one delivery per slot, and that the replay re-creates exactly the *)
(* recorded arrivals (same ids, sizes and slots).                          *)
(***************************************************************************)
TransportRefinement == Abstract!Spec

=============================================================================
