----------------------------- MODULE Transport -----------------------------
(***************************************************************************)
(* What the simulation promises, per slot and per message, without queues  *)
(* or delays (spec sections 4 and 5).  A run admits arrivals, sends        *)
(* packets by its policy and delivers at most one packet per slot; a       *)
(* packet is delivered only in a slot after the one it was sent in.  The   *)
(* simple run sends one packet of the pending message with the smallest   *)
(* remaining size, the oldest among equals (SRPT); the ideal run sends one *)
(* packet of every pending message and replays the arrivals of the simple  *)
(* run, each in the slot it was recorded in.                               *)
(***************************************************************************)
EXTENDS Integers, FiniteSets, TLC

CONSTANTS
  Steps,    \* slots with arrivals
  Sizes     \* message sizes the distribution table declares

VARIABLES
  phase,    \* "simple", "ideal" or "end"
  clock,    \* the current slot
  trace,    \* msgId -> [msgSize, slot]: the arrivals of the simple run
  unsent,   \* msgId -> packets of the message not yet sent in this run
  inNet,    \* msgId -> packets sent and not yet delivered in this run
  recv      \* msgId -> packets delivered in this run

vars == <<phase, clock, trace, unsent, inNet, recv>>

MsgIds == 0 .. Steps - 1

Zero == [m \in MsgIds |-> 0]

Idle == unsent = Zero /\ inNet = Zero

Init ==
  /\ phase = "simple"
  /\ clock = 0
  /\ trace = [m \in {} |-> [msgSize |-> 0, slot |-> 0]]
  /\ unsent = Zero
  /\ inNet = Zero
  /\ recv = Zero

(* The messages with packets left to send *)
Pending(u) == {m \in MsgIds : u[m] > 0}

(* SRPT: the pending message with the least remaining size, oldest first *)
SrptChoice(u) ==
  CHOOSE m \in Pending(u) :
    \A n \in Pending(u) : u[m] < u[n] \/ (u[m] = u[n] /\ m <= n)

(* One packet of each message of S enters the network *)
Send(u, S) == [m \in MsgIds |-> IF m \in S THEN u[m] - 1 ELSE u[m]]
Sent(S)    == [m \in MsgIds |-> IF m \in S THEN inNet[m] + 1 ELSE inNet[m]]

(* Packets of the messages S are sent after the arrivals u; then at most   *)
(* one packet that was in the network before this slot is delivered.       *)
SendAndDeliver(u, S) ==
  /\ \/ /\ unsent' = Send(u, S)
        /\ inNet' = Sent(S)
        /\ UNCHANGED recv
     \/ \E m \in MsgIds :
          /\ inNet[m] > 0
          /\ unsent' = Send(u, S)
          /\ inNet' = [Sent(S) EXCEPT ![m] = @ - 1]
          /\ recv' = [recv EXCEPT ![m] = @ + 1]
  /\ clock' = clock + 1

(* The sends of one slot of each policy *)
PolicySends(u) ==
  IF phase = "simple"
    THEN IF Pending(u) = {} THEN {} ELSE {SrptChoice(u)}
    ELSE Pending(u)

(* A slot of the simple run: maybe a new message with the next id *)
SimpleSlot ==
  /\ phase = "simple"
  /\ \/ /\ UNCHANGED trace
        /\ SendAndDeliver(unsent, PolicySends(unsent))
     \/ \E s \in Sizes :
          LET m == Cardinality(DOMAIN trace)
              u == [unsent EXCEPT ![m] = s]
          IN  /\ clock < Steps
              /\ trace' = trace @@ (m :> [msgSize |-> s, slot |-> clock])
              /\ SendAndDeliver(u, PolicySends(u))
  /\ UNCHANGED phase

(* A slot of the ideal run: exactly the messages recorded for this slot   *)
(* arrive again, with their recorded sizes.                               *)
IdealSlot ==
  /\ phase = "ideal"
  /\ LET due == {m \in DOMAIN trace : trace[m].slot = clock}
         u   == [m \in MsgIds |-> IF m \in due THEN trace[m].msgSize
                                               ELSE unsent[m]]
     IN  SendAndDeliver(u, PolicySends(u))
  /\ UNCHANGED <<phase, trace>>

(* The simple run is over: the ideal run starts on the same trace *)
Switch ==
  /\ phase = "simple"
  /\ clock >= Steps
  /\ Idle
  /\ phase' = "ideal"
  /\ clock' = 0
  /\ recv' = Zero
  /\ UNCHANGED <<trace, unsent, inNet>>

(* The ideal run is over *)
Finish ==
  /\ phase = "ideal"
  /\ clock >= Steps
  /\ Idle
  /\ phase' = "end"
  /\ UNCHANGED <<clock, trace, unsent, inNet, recv>>

Next == SimpleSlot \/ IdealSlot \/ Switch \/ Finish

Spec == Init /\ [][Next]_vars

=============================================================================
