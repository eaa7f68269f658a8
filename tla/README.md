# TLA+ models of the Homa transport simulation

This directory models `src/RpcTransportDesign/PythonSimulations/Simulator.py`. It is a
slot-based simulator that compares two packet schedulers on the same
randomly generated message trace:

- `simpleScheduler`: SRPT, one priority class;
- `idealScheduler`: one packet per pending message, with priority equal to its remaining size.

For each run it reports the completion-time penalty of the simple scheduler.

## The system

| Part | Code (lines) | State | Operations |
|---|---|---|---|
| Distribution sampler | `generateMsgSize` 37–52 | none; the table `distMatrix` is read-only | one draw → one size, or `None` when the table ends below the draw |
| Delay model | `addPktToDelayQueue` 104–131 | `delayQueue`, sorted by delay | append `[pkt, poisson(avgDelay)+fixedDelay]`, then a stable sort |
| Depletion | `depleteDelayQueue` 133–148 | `delayQueue`, `rxQueue` | release delay-0 packets into `rxQueue`, stable-sort `rxQueue` by priority, decrement the remaining delays |
| Simple scheduler | `simpleScheduler` 150–206 | `txQueue`, `pktOutTimes['simple']` | one packet of the head (prio 0); decrement the head in place, pop it at 0; deplete; retire the head of `rxQueue` |
| Ideal scheduler | `idealScheduler` 208–267 | `txQueue`, `pktOutTimes['ideal']` | over the snapshot `txQueue[:]`: one packet per message (prio = size); remove a size-1 message, else decrement; deplete; retire one |
| Driver | `run` 269–368 | `slot`, `msgId`, `msgDict`, the queues | arrival loop, simple drain, fresh queues, replay of `msgDict` (one cursor), ideal drain |
| Penalty analysis | `__main__` 422–470 | the two result stores, `penalty`, `numMsg`, `penaltyPerSize` | per message, completion = last departure − arrival; penalty = (simple − ideal)/ideal, summed overall and per size bucket; the means `penalty/numMsg` and `total/count` |
| Distribution file | `__main__` 395–401 | `distMatrix` | keep each line not starting with `#` or a newline, as the row of its tokens |
| CLI, output files, rho sweep | 370–394, 402–427, writes in 464–473 | none | parse options, loop over rho, write the tables |

How the parts interact:

- The driver owns the loop and inserts each arrival into `txQueue`, sorted by size.
- It then calls one policy per slot.
- The policy injects packets through the delay model.
- It then depletes the delay queue and retires at most one packet into its result store.
- Both runs share one code path. The replay re-creates the arrivals from `msgDict`.
- The analysis joins the two stores on message id.

Everything is sequential. The hard behaviours are:

- the order of steps within one call: injection, then release, then decrement;
- in-place decrements of a list whose order matters;
- removal from a list during iteration, which the copy `txQueue[:]` protects;
- stable tie-breaking;
- the termination of two `while` loops;
- exact equality tests on sizes;
- unguarded divisions.

## Modules

- **`DistributionSampler.tla`**: `GenerateMsgSize(distMatrix, r)`; `SizeAvg`, the mean size that `run()` computes from the table (lines 318–323); and `ReadDistFile`, the reading of the table file in `__main__`.
  - A file line is a record of its first character and its tokens; `float()` of a token is the number it stands for.
  - Probabilities are integers in units of `1/Grid`.
  - The draw is a grid cell `r`. For tables on that grid, `row[0] > draw` holds exactly when `row[0] > r`.
- **`Scheduler.tla`**: the `Scheduler` class.
  - Variables: `txQueue`, `delayQueue`, `rxQueue`, and `pktOutTimes` (one result store).
  - `StableSortBy` is Python's stable `list.sort`, written in closed form: an element's position is the number of elements with a smaller key, or an equal key and an earlier position.
  - `AddPktsToDelayQueue`, `DepleteDelayQueue` and `DepleteAndRetire` are the helper methods. `AddPktsToDelayQueue` adds all packets of one call with one stable sort; the code appends and sorts once per packet, which gives the same queue because stable sorts by one key compose.
  - `SimpleScheduler` and `IdealScheduler` are each one action for a whole call. Each is written as a set of outcomes (one per choice of delays) and `Apply`, which primes the variables.
  - The Poisson delay is any value in `FixedDelay .. FixedDelay + MaxPoisson`.
- **`Simulator.tla`**: `run()` and the analysis.
  - It instantiates `Scheduler` twice, `Simple` and `Ideal`, on the same queue variables, with `pktOutTimes` set to `simpleOut` or `idealOut`.
  - Actions:
    - `GenerateSlot`: an arrival-loop iteration, with or without an arrival;
    - `SimpleDrain`;
    - `StartIdeal`: lines 353–357;
    - `ReplaySlot`: due / not due;
    - `IdealDrain`;
    - `Analyze`: sets `phase` to `"done"` or `"ZeroDivisionError"`.
  - The analysis values are operators over the final state (`Compared` and `Completion` are what `NoZeroDivision` and `IdealNeverWorse` read; no property reads the penalty sums): `MsgPenalty`, `Penalty`, `NumMsg`, `PenaltyPerSize(s)` (the bucket `[total, count]`), `MeanPenalty` and `MeanOfSize(s)`. Penalties are exact rationals `[num, den]`, kept in lowest terms; the code's floats and its dict iteration order are abstracted away.
  - Whether a message arrives (`random.random() < probPerSlot`) is a free choice, so the float mean size and rate (318–326) need no model.
  - Packets carry two ghost fields that the code does not have: `sent`, the slot the packet was scheduled in, and `rel`, the slot its delay runs out. Only `RxFifo` reads them.
  - A refinement mapping (`Abstract`) maps `run()` to `Transport`:
    - `unsent` is the remaining sizes in `txQueue`;
    - `inNet` is the packets in `delayQueue` and `rxQueue`;
    - `recv` is the departure records of the current run;
    - `trace` is `msgDict`.
- **`Transport.tla`**: the abstract run. It states what spec §4–5 promise, without queues or delays:
  - the simple run sends one packet per slot, of the pending message with the smallest remaining size, the oldest among equals;
  - the ideal run sends one packet per pending message and replays the recorded arrivals in their recorded slots;
  - at most one packet is delivered per slot, and only one sent in an earlier slot.
- **`MC_Simulator.tla`** and **`MC_DistributionSampler.tla`**: the constants for TLC. The latter is also a small state machine over every admissible table and draw.
- **`MC_DistFile.tla`**: every file of up to 3 lines drawn from a comment, an empty line, a line of blanks and two data rows.

## Runs

| Run | cfg | Expect | Shows |
|---|---|---|---|
| `simulator` | `MC_Simulator.cfg` | pass | see the list below |
| `simulator_liveness` | `MC_Simulator_liveness.cfg` | pass | `Termination` over every trace of 3 slots |
| `refinement` | `MC_Simulator_refinement.cfg` | pass | `TransportRefinement`: `run()` implements `Transport` (4 slots) |
| `simulator_long` | `MC_Simulator_long.cfg` | pass | the ordering, conservation and timing properties over 7 slots, sizes 1, 2 and 3, fixed delays (about 336,000 states, 40 s) |
| `ideal_never_worse` | `MC_Simulator_idealworse.cfg` | violation | with fixed delays, messages of sizes 3, 1, 1 arriving in slots 0, 1, 2 complete in 7 slots in total under the simple scheduler and 8 under the ideal one (spec §8 says ideal is never worse) |
| `dist_file_blank_line` | `MC_DistFile.cfg` | violation | a line of blanks in the size file is read as the empty row `[]`, on which `run()` fails at `row[1]` (spec §6 says blank lines are ignored) |
| `zero_size_row` | `MC_Simulator_zerosize.cfg` | violation | with a table row of size 0, the message is decremented below 0, never leaves `txQueue`, and the simple drain never ends (spec §5 and §7 say otherwise) |
| `zero_division` | `MC_Simulator_zerodiv.cfg` | violation | a trace with no arrivals reaches `penalty/numMsg` with `numMsg = 0` (line 464) |
| `min_one_slot_latency` | `MC_Simulator_latency.cfg` | violation | with `fixedDelay = 0`, a packet injected and released in the same call departs in the slot it was sent (spec §4.3 says one slot later) |
| `sampler` | `MC_DistributionSampler.cfg` | pass | `generateMsgSize` is the inverse-CDF sample for every table ending at 1.0 (≤ 4 rows, grid 1/5) and every draw; `MeanIsSizeAvg`: `sizeAvg` is the mean of the sampled sizes, so `probPerSlot = rho/sizeAvg` offers load `rho` |
| `sampler_near_one` | `MC_DistributionSampler_near1.cfg` | violation | a table ending at 0.8 returns `None` for a draw above it |

The `simulator` run checks these properties:

- `MassConservation`: each size unit is in exactly one place.
- `TxQueueSrptFifo`: `txQueue` is ordered by remaining size and then by msgId, i.e. SRPT with FIFO ties, and this survives the in-place decrements.
- `RxFifo`: `rxQueue` is ordered by priority, then by release slot, then by send slot (spec §4.3: FIFO by arrival into the receive queue).
- `DepartureLowerBound`: departure ≥ arrival + packets sent before + `fixedDelay`.
- `AllDelivered`: every message is fully in both stores at the analysis.
- `WorkPerSlot`, an action property: one packet, or one per message, is injected per call; at most one departs; one departs whenever `rxQueue` is left nonempty.

`Termination` has its own run (`simulator_liveness`), on 3 slots, which takes about a minute: checking it over the 4-slot graph takes longer than the main run.

Every property of a passing run has a mutant in `PROJECT.json` that breaks it. For example:

- dropping the pop at 0;
- removing at 0 instead of 1;
- an unstable sort that reverses ties;
- released packets put in front of the waiting ones;
- the replay reading the slot as the size;
- decrementing before release;
- a drain condition that forgets `delayQueue`;
- retiring only when two packets wait;
- iterating over the live list instead of `txQueue[:]`;
- `prevProb` never updated in the `sizeAvg` loop.

## Bounds

The `simulator` run uses:

- `Steps = 4` slots;
- message sizes 1 and 3 (cumulative probabilities 2/4 and 4/4);
- delays 1..2 (`fixedDelay = 1`, the code's value, and a Poisson part ≤ 1).

Why these bounds are enough:

- Size 3 is needed for two messages to be decremented past each other's sizes. With sizes {1, 2}, a missing sort is invisible.
- Two delays let packets overtake each other in `delayQueue`.
- Four slots allow up to four overlapping messages.

The `simulator_long` run trades the Poisson choice for length: with fixed delays it checks 7 slots and three sizes, where up to seven messages overlap and every pair of sizes can be decremented past each other. `Termination` on that graph takes over four minutes, so it is checked on the 3-slot run only.
- `MaxSlot = 3·Steps·3 + 2` is never reached by the drain; it only bounds the state space.

The run finds about 398,000 distinct states in about 75 seconds. The ghost fields account for the growth over the earlier 144,000.

## Fairness

`run()` is one sequential loop that always takes its next step. `Spec` therefore assumes weak fairness of `Next`.

It is written `WF_vars(Next)`. TLC evaluates `ENABLED` by expanding the actions, and it does not cache the arguments of an operator there. Each scheduler action therefore binds the queue it builds once (`\E t \in {tx}`, and the injected packets and new delay queue through set comprehensions), so that each sort is computed once per step. With this the 3-slot liveness run takes about a minute.

## Not modelled

- Float rounding in the penalty sums, and the order a dict is iterated in. The model sums exact rationals.
- The Poisson tail above `MaxPoisson`.
- File reading and writing.
- The rho sweep, which only changes the arrival probability that the model leaves free.
- The aliasing between the driver's lists and the scheduler's (lines 331 and 356). Each `Scheduler` is built from exactly the lists the driver then uses, and `__init__`'s shared default lists are never used, so the model's one variable per queue is exact.
- Option parsing, which fails before any simulation (so does the whole script until it is fixed): `parser.adding` at lines 373 and 375 is not an `OptionParser` method.
- Size tables with non-integer sizes. Nothing in the code rejects them, and such a message never leaves `txQueue`, as the `zero_size_row` run shows for size 0.

## Plan for later sittings

Done in the fourth sitting:

- `simulator_long`, a larger instance;
- `MeanIsSizeAvg` and the reading of the size file;
- the `ideal_never_worse` and `dist_file_blank_line` findings.

Review of the fourth sitting: `PerSizeAddsUp` (a sum over a partition, true whatever the code does), the sampler's `TypeOK` and the two reference checks of the sort operators (`MC_StableSort`) were removed as they say nothing about `Simulator.py`; map entries for helpers that translate no code were dropped.

Still open:

1. A `steps = 0` configuration. At `Steps = 0`, `MsgIds` is empty and the analysis reaches `ZeroDivisionError` at once. This is a boundary run of the existing finding.
2. Liveness at the abstract level: `Transport` with fairness, checked through the refinement, if TLC can afford it.
3. Determinism (spec §8) is not a model-checking question: the model replaces the random number generator by nondeterministic choice.
