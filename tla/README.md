# Verification of NR-Scope and the NR stack of srsRAN

The repository is srsRAN_4G with NR-Scope, a passive 5G receiver, on top. NR-Scope
tunes USRPs to a cell, synchronises to its SSB, decodes MIB and SIB 1, follows the
random access of a UE and decodes its DCIs. Below and beside it lie the components of
the srsRAN NR user plane: timers, PDCP, RLC AM and the MAC of the UE. This directory
models the control of these programs in TLA+, model-checks it with TLC and proves its
safety properties and refinements with TLAPS.

## The system

| Part | Source | State | Operations | Talks to |
|---|---|---|---|---|
| UE synchronisation | `lib/src/phy/ue/ue_sync_nr.c` | `state`, `next_rf_sample_offset`, `ssb_idx`, `sf_idx`, `sfn`, `feedback` | init, set_cfg, zerocopy, feedback | SSB object, radio callback |
| SSB object | `lib/src/phy/sync/ssb.c` | `sf_buffer` with the tail of the last search | find, track, candidate positions | UE synchronisation |
| Radio pipeline | `nrscope/src/libs/radio_nr.cc` | raster position, `cs_ret`, frequency, `sib1`, `rar_pdu`, `tc_rnti`, `c_rnti` | RadioInitandStart, DecodeMIB, SyncandDownlinkInit, SIB1/MSG2/MSG4/DCI loops | UE synchronisation, radio |
| CORESET 0 timing | `phy_common_nr.c`, `radio_nr.cc` | `n_0`, `sfn_c` | table lookup, slot test | MIB, SIB1Loop |
| Main thread | `nrscope/src/main.cc` | threads | load config, spawn, join | radio pipeline |
| ASN.1 decoder | `nrscope/src/libs/asn_decoder.c` | list `first`/`last`, mutex, file | push, processor thread, terminate | producers |
| Timers | `srsran/common/timers.h` | wheel of lists, `cur_time`, state of each timer | alloc, set, run, stop, release, stop_all, step_all | PDCP, RLC, MAC |
| PDCP NR | `lib/src/pdcp/pdcp_entity_nr.cc` | TX_NEXT, RX_NEXT, RX_DELIV, RX_REORD, reorder queue, discard timers | write_sdu, write_pdu, notify_delivery, timer callbacks | RLC, upper layers |
| RLC AM NR | `lib/src/rlc/rlc_am_nr.cc`, `rlc_am_nr_packing.cc` | windows, retransmission queue, poll state, segments, three timers | write_sdu, read_pdu, write_pdu, timer callbacks | PDCP, MAC |
| MAC NR of the UE | `srsue/src/stack/mac_nr/` | random access state, timers, RNTIs, pending request | start, prach_sent, RAR, MSG 4, grants, SR, reset | RRC, PHY workers |

What is hard in this code, and hardly tested: an alignment step measured in one call and
carried out in the next; counters overwritten while they count; stage results passed on
through mixed conventions; lists shared by threads or changed by a callback while they
are traversed; window arithmetic modulo the SN space against edges that move; losses of
exactly the PDU that carries a poll; and state tested outside the mutex that protects
it. PROJECT.json lists each hazard at its line.

## Modules

| Module | Models |
|---|---|
| `UeSyncNr` | the synchronisation object and the SSB search, against a cell whose time is known |
| `RadioNr` | `main()` and the thread of each radio |
| `Coreset0` | where SIB1Loop looks for SIB 1, from the MIB |
| `AsnDecoder` | list, mutex, producers, processor, terminator; implements `AsnLog`, a first-in first-out log |
| `Timers` | `timer_handler`; implements `CountdownTimers`, timers that count down |
| `PdcpNr` | both ends of a PDCP bearer; implements `InOrderDelivery` |
| `RlcAmNrTx`, `RlcAmNrRx` | the two halves of an RLC AM entity, as operators on a record |
| `RlcAmNr` | a sending and a receiving entity over a link; implements `ReliableDelivery` |
| `ProcRaNr`, `ProcSrNr` | random access and scheduling request, as operators on a record |
| `MacNr` | the two composed, between the stack thread, timer callbacks and PHY workers |
| `..._proofs` | theorems about the module before the underscore; `RlcAmNrRx_proofs` has the lemmas about both halves of an RLC AM entity |
| `SlotTiming_proofs` | theorems about `UeSyncNr` and `Coreset0` |
| `MC...` | instances for TLC |

**UeSyncNr.** Time is counted in OFDM symbols. `air` is the cell time of the next
sample; a call of zerocopy consumes one subframe starting at `Shift(air, offset)`.
`RunFind` and `RunTrack` are zerocopy with the state machine in that state, including
the wrap and increment at its end (`FinishZerocopy`); `RunIdle` is a call before any
configuration. `VisibleSsb` is what `srsran_ssb_find` can decode: an SSB in the window,
across the junction with the kept tail when the two are contiguous, or in the tail
itself. `RxErrorSeen` is a receive failure the callback reports (srsUE);
`RxErrorUnseen` and `RxDiscardUnseen` are the same behind NR-Scope's callback, which
returns a `bool` and so reports success; `FsmError` is an error of the search after the
window was received; `RxLoss` is the radio dropping samples. `clean` and `disturb` are
history variables. `tail` is one cell time, the end of the samples kept.

**RadioNr.** The record `rd[r]` is a `Radio` with the program counter of its thread.
Each stage is an action named after its function, and each stage loop is a zerocopy
step followed by one step per slot; what the libraries answer is a choice. `tries` is
history. UeSyncNr is represented by the three answers of zerocopy (error, out of sync,
subframe), and Coreset0 by the Boolean `occasion`.

**Coreset0.** The arithmetic, run over two frames of slots for every MIB, with table
13-11 in halves (`TwiceM`) as the reference. The MIB gives the numerology of the
SSB and the common one, which the code uses in different places.

**AsnDecoder.** Steps are the accesses between lock and unlock. The processor writes
header and body in two steps, outside the mutex as in the code, so the terminator may
close the file between them. A write to the closed stream is undefined: it is lost or
ends the program (`WriteClosed`, `Alive`).

**Timers.** The lists of the wheel are sequences; `step_all` is one step per visited
timer, with the mutex released during a callback, so that users and the callback act in
between. `it` is the iterator, already moved on when a callback starts. `defer_callback`
is `alloc_timer`, `set` and `run` in sequence. `exposed` is history: the timers that the
tic in progress may get wrong, because a call made during a callback took the timer at
the iterator out of its list or started one for the very tic that is being visited.
`CountdownTimers` has the same gap in its promise, stated without wheel or iterator.

**PdcpNr.** An SDU is named by the COUNT it was sent with, so that "deciphered with the
right COUNT" is "the queue maps c to c". The RLC below is a queue with a limit and a
link (`air`) that loses, keeps copies of and reorders PDUs within half the SN space; in
AM mode an SDU is lost only by discard. A PDU deciphered with the right COUNT verifies,
so the integrity failure branch is not reached and not a step.

**RlcAmNrTx, RlcAmNrRx, RlcAmNr.** One operator per function of the class. An SDU has
`SduBytes` bytes, a PDU carries a range of them, and header sizes are those of 12-bit
SNs, so segmentation, resegmentation and trimming of reports happen where the code does
them. A `link` record says which grants, how many PDUs in transit and how many losses
occur, whether timers may expire while PDUs are in transit, and whether a report may
overtake another. No PDU is under way for so long that the sender is more than half the
SN space past it (`Timely`): the SN of one that is cannot be told from a new one, and
nothing in RLC prevents it. The count of retransmissions is not modelled: reaching its
maximum only informs RRC. `rx.asserts` records whether the assertions held; a receiver
in which one failed takes no further step. After it has popped the front of the
retransmission queue, the loop of `build_retx_pdu` assigns through a reference into the
freed node; the outcome modelled is that the memory is not handed out again before the
function returns. The few
operators on sequences these modules need are defined in `RlcAmNrTx`; the proofs are
several times faster without the context of `SequencesExt`.

**MacNr.** An action is one thing the stack thread runs, or one step of a PHY worker. A
timer expires in one step and its callback gets the mutex in another, as `tb_decoded`
tests the state in one step and resolves contention in others: taking the mutex, testing
the state, promoting the temporary C-RNTI, and becoming idle. A reset, a start and the
tasks that take no mutex may come between any two of them; a step of the stack is not
split in its turn. `update_cell_group_cfg` is what RRC's cell groups do to the scheduling
request: `set_config`, which may refuse, and the PUCCH resource. `queue` is the task
queue between PHY and stack. A regular BSR is `TriggerSr`; any grant cancels the
pending request as `proc_bsr_nr::new_grant_ul` does. `passed`, `outcome` and `sent` are
history.

## Runs

| Run | Shows |
|---|---|
| `sync_track` | ranges; subframe announced = subframe received while tracking; announced subframes consecutive; without a disturbance TRACK left only in a frame without a burst; aligned tracking always returns, unless the SSB tracked is one of subframe 0 |
| `radio_pipeline` | every valid raster point searched for exactly `nof_trials` slots; later stages on the cell found; main joins all threads and the search ends |
| `coreset0_30k` | the SIB 1 occasion is searched, and for whole M is that of table 13-11, for all 16 x 8 x 4 MIBs and both common numerologies |
| `asn_log` | list soundness; refinement of `AsnLog`: messages written once and in order until the file is closed, be it in the middle of one, and the program ended by nothing but a write after that; every accepted message written unless the file is closed |
| `timers_wheel` | the wheel holds exactly the running timers, and each that is not exposed runs out after exactly its duration (refinement of `CountdownTimers`), with any calls by callbacks and users in the middle of `step_all` |
| `pdcp_order` | in-order, duplicate-free delivery under the right COUNT up to and over the last COUNT (refinement of `InOrderDelivery`); no gap is waited for without t-Reordering; held SDUs are delivered |
| `rlc_am_reliable` | windows agree; no assertion of the receiver fails except, in a report, the one on a stored segment that encloses another; an SDU goes up unchanged and at most once, and is confirmed only then (refinement of `ReliableDelivery`); everything is confirmed in the end when grants hold an SDU |
| `mac_access` | the random access always has exactly its timer; it always ends; a scheduling request is served or given up unless a refused configuration strands it |

Runs that end in a counterexample, each about a sentence of the repository:

| Run | The code and the sentence |
|---|---|
| `radio_msg2` | `return false` means success; MSG2Loop runs without SIB 1 ("set ra search space directly from the SIB 1") |
| `rlc_am_poll` | t-PollRetransmit repeats only the first segment, so a lost last segment is never sent again and both sides wait for ever ("consider any RLC SDU which has not been positively acknowledged for retransmission") |
| `rlc_am_overtaken` | an older report whose first NACK lies before TX_Next_Ack confirms the whole window ("makes sure we discard out of order status reports") |
| `mac_contention` | a MSG 4 for another UE completes the random access, and its SDUs have already gone to RLC ("whether the PDU shall pass to upper layers or not ... depends on the Contention Resolution result") |

### Seen in the code, beside the counterexamples

What the properties of the passing runs leave open, each time as narrowly as the code
does; the runs reach all of these:

* An SSB in subframe 0 is never re-tracked, because `sf_idx` is 1..10 when the state
  machine runs (`ue_sync_nr.c:338`), so a loss of samples goes unnoticed: `Recovers`
  exempts it (`NeverRetracked`).
* `sfn % periodicity_ms / 10` is not the periodicity (`ue_sync_nr.c:208`): for 20 ms it
  expects a burst in ten frames in a row, and an aligned object leaves TRACK in the first
  one that has none. `KeepsTrack` allows just that.
* The ASN.1 file is closed during a write (`asn_decoder.c:94`, `:202`), which the mutex was
  meant to prevent ("to ensure the file is not closed durin a write", `:199`), and
  `push_asn_payload` goes on accepting messages for it (`:175`).
* A call made during a callback leads `step_all` astray when it stops or restarts the next
  timer of the slot, or starts one for a single tic (`timers.h:257`): such timers are
  passed over until the clock comes round, or called though they were stopped.
* The receiver compares only the two ends of a segment with those it holds
  (`rlc_am_nr.cc:1475`), so one that encloses another is stored beside it, and the NACK
  computed between the two ends before it starts (`:1776`), which is an assertion. The link
  `Link({3, 5, 6}, 1, 2, 1, TRUE, FALSE)` reaches it: the first segment is delayed, and its
  SDU, sent again, is cut elsewhere. `ReceiverAsserts` names this state as the only one.
* A refused configuration disables the scheduling request and keeps the rest of the one
  before (`proc_sr_nr.cc:60`): a request under way is no longer counted, and waits until a
  grant, a reset or a later configuration (`Stranded`).
* A RAR that cannot be unpacked leaves a random access without a timer
  (`proc_ra_nr.cc:204`); `Supervised` and `Ends` count it as an end.

By reading: an SSB in a stale search tail starts tracking misaligned (`ssb.c:1566`); a
negative delay is converted to `uint32_t` (`ue_sync_nr.c:120`); feedback between two SSBs
is dropped (`:143`); the return after SIB 1 is commented out (`radio_nr.cc:557`); the
TC-RNTI is read from a subPDU that may be a backoff indicator (`:804`), and with a new UE
identity `c_rnti` keeps its old value (`:1009`); `1/2` is 0 in table 13-11
(`phy_common_nr.c:643`); the PDCP timer for t-Reordering ms0 is never set, and with
infinity a discarded SDU leaves a gap for ever (`pdcp_entity_nr.cc:316`); NACK ranges are not reduced modulo the
SN space (`rlc_am_nr.cc:865`), their length is a `uint8_t` and wraps
(`rlc_am_nr_packing.cc:97`), the retransmission queue has no limit (`rlc_am_nr.cc:1277`),
and a freed entry of it is written to (`:462`); a random access started by RRC is stuck
after its last attempt, and requests given up to it are lost (`proc_ra_nr.cc:305`,
`proc_sr_nr.cc:110`); a padding BSR clears a regular trigger set meanwhile
(`proc_bsr_nr.cc:166`); RLC UM starts an SDU in a grant too small for its header and goes
on with a later segment (`rlc_um_nr.cc:159`).

### Bounds

* `SfnMod` is 24 in place of 1024: more than the 20 of the periodicity test, and a
  wrap that does not fall on a multiple of it. Reception starts at every symbol of the
  first frame. The SSB pattern is case A (15 kHz, 14 symbols) with beams 1 and 2, one
  in subframe 0, which is never tracked again, and one in subframe 1, which is. One
  disturbance; a loss is of nothing, one symbol or a whole subframe,
  so labels go wrong with and without the symbol alignment. Bursts come every
  20 ms, for which the periodicity test does look in frames without one.
* Two radios, four raster points with skipped ones, no cell or two cells; `NofTrials`
  is 2 in place of 100, the first trial and the last.
* Two producers with up to two messages each over three nodes, so that the limit of
  memory and the reuse of a freed node both occur.
* Coreset0 enumerates all values of the MIB fields for an SSB at 30 kHz, the numerology
  the slot test is written for, and both common numerologies; the proofs cover the others.
* Three timers, a wheel of two slots and a clock of four values. A timer runs for one
  tic, set to 0, which the code makes 1, or, never set, for a whole turn of the clock,
  which is two rounds of the wheel: several timers in one slot, in different rounds, and
  wraps of both. The theorems cover the durations between. The timers are symmetric.
* PDCP: 3-bit SNs and two values of the HFN, so that a receiver sees an HFN change and
  the last COUNT; two PDUs in transit; UM, AM with discard, and the two values of
  t-Reordering that never expire.
* RLC AM: six SNs (a window of three), started at SN 5 so that it wraps, and SDUs of four
  bytes, enough for one segment to enclose another. Four
  links: three whole SDUs and three losses; three SDUs, whole or cut, with reports
  trimmed to one NACK; two SDUs cut into segments, two losses and timers that
  expire while PDUs are in transit; and one SDU cut in every way, with two PDUs in transit that overtake each
  other. `RetxCap` and `ReportCap` bound the queue and the reports. NACK ranges of the
  runs are far below the 256 at which their length wraps.
* MAC: two preambles, three starts or configurations, three tasks in the queue, and cell
  groups with two values of sr-TransMax, one that is refused and one that only takes the
  PUCCH resource away.

Deadlock checking is off where the system may stop: RadioNr ends, Coreset0 runs out of
slots, producers, senders and starts stop at their bounds.

### Fairness

* `UeSyncNr`: weak fairness of zerocopy, which the callers invoke in an endless loop,
  and of the first configuration. Noise is bounded as a disturbance instead.
* `RadioNr`: weak fairness of main and of each thread, by the operating system.
* `AsnDecoder`: weak fairness of each thread's steps and strong fairness of taking the
  mutex, as long as the program runs; the critical sections are a few instructions.
  Producers need not push.
* `PdcpNr`: weak fairness of the reordering callback only (`step_all` runs every tic).
  The link need not deliver anything.
* `RlcAmNr`: weak fairness of reading with the largest grant, of arrival of what is in
  transit, of sending a due report, and of the timers. Losses are bounded.
* `MacNr`: weak fairness of TTIs, tasks, timers and their callbacks, of a PHY worker that
  holds the mutex, and of PUCCH occasions. That the PHY sends a preamble or anything is received is not assumed.

## Proofs

The theorems hold for all values of the constants that satisfy the assumptions named in
the modules: sizes are positive, `TicMod` is a multiple of the wheel, `CountMod` of an
even `SnMod`, the sets of timers and nodes are finite, and the identities of threads
and the null values are told apart. Every further hypothesis is written in the theorem.

| Module | Theorem | States |
|---|---|---|
| `SlotTiming_proofs` | `TypeCorrect`, `Alignment` | `[]TypeOK`, `[]AlignedInTrack` |
| | `ReportsConsecutive` | `CastKeepsSign /\ InsideSubframe => (Spec => OutcomeConsecutive)` |
| | `TrackAlwaysKept` | `CastKeepsSign /\ HalvesAgree => (Spec => KeepsTrack)` |
| | `CoresetTypeCorrect`, `WholeEntriesAlwaysRight` | `CoresetSpec => []CoresetTypeOK`, `[]WholeEntriesRight` |
| | `OccasionAlwaysSearched` | `SsbScs = {1} => (CoresetSpec => []OccasionSearched)` |
| `RadioNr_proofs` | `RadioTypeCorrect`, `RasterAlwaysExhausted`, `StagesAlwaysOnCell`, `MainAlwaysJoins` | `[]TypeOK`, `[]RasterExhaustive`, `[]StagesOnCell`, `[]JoinsAll` |
| `AsnDecoder_proofs` | `DecoderTypeCorrect`, `ListAlwaysSound`, `DecoderKeepsPromise` | `[]TypeOK`, `[]ListSound`, `KeepsPromise` (refinement of `AsnLog`) |
| `Timers_proofs` | `TimersTypeCorrect`, `WheelAlwaysHoldsRunning` | `[]TypeOK`, `[]WheelHoldsRunning` |
| | `WheelImplementsCountdown` | `ImplementsCountdown` (refinement of `CountdownTimers`) |
| `PdcpNr_proofs` | `PdcpTypeCorrect`, `CountAlwaysRecovered`, `WaitingAlwaysTimed` | `[]TypeOK`, `[]CountRecovered`, `[]WaitingIsTimed` |
| | `BearerImplementsOrder` | `ImplementsOrder` (refinement of `InOrderDelivery`) |
| `RlcAmNr_proofs` | `LinkTyped`, `LinkWindowsAgree`, `LinkAsserts`, `LinkConfirms` | `Spec /\ WholeSdus => []TypeOK`, `[]WindowsAgree`, `[](rx.asserts /\ ReceiverAsserts)`, `[]ConfirmedIsDelivered` |
| | `LinkImplementsReliable` | `Spec /\ WholeSdus => ImplementsReliable` (refinement of `ReliableDelivery`) |
| `MacNr_proofs` | `MacTypeCorrect`, `SupervisedAlways` | `[]TypeOK`, `[]Supervised` |

**SlotTiming_proofs: UeSyncNr.** `AlignedInTrack` has two premises: `clean`, the last SSB
was decoded from samples contiguous with its window and no sample was lost or left
uncounted since; and `CastKeepsSign`, the target converts a negative delay to `uint32_t`
and back without changing it, as x86-64 does. The inductive invariant is
`TypeOK /\ AlignedInTrack`; the types are needed because alignment moves through
`Shift`, whose arithmetic is invertible only within ranges. A decoded SSB at cell time
t, measured d symbols late, satisfies `Shift(window, d) = start of t's subframe`
(`ShiftAligns`, `SsbNamesSubframe`), so counters set from it name the window; wrap and
increment move the label by one subframe as `NextSf` moves time (`FinishFacts`,
`UpdateAligns`). A window without update moves both by one (`NoUpdateFacts`).

The two action properties need more of the past than alignment. `SInv` adds `Reported`:
the counters are one ahead of the last report, a clean report in sync means that the
object is aligned also outside TRACK, and a pending sample offset comes from the SSB
that `sf_idx` was set from. `InsideSubframe` says that no SSB ends exactly where its
subframe does, as in every pattern of `ssb_first_symbol`: one that did could be found
again in the kept tail after a reconfiguration, and its subframe reported twice.
`HalvesAgree` says that an object configured for 5 ms belongs to a cell that sends a
burst in both half frames. The periods may differ otherwise: that the periodicity test
looks in frames without a burst is what `KeepsTrack` excuses.

**SlotTiming_proofs: Coreset0.** The invariant `CInv` says that `searched` is exactly the set of the
slots passed that the test lets through (`Scan`), and that `n_0` and `sfn_c` are those of
the lookup (`Looked`). The proofs cover all four numerologies, where the run has an SSB at
30 kHz; only `OccasionSearched` needs that, because the test divides `n_0` by two whatever
the number of slots in a subframe. The slot count of every row is below two frames
(`SlotCountBound`), so the parity computed from it is the frame of the table.

**RadioNr_proofs.** The inductive invariant `IInv` has the types, where each radio is in
its search (`Searching`: a radio in a trial or in a stage is tuned to the last point it
took, whose slots are counted by `trial`; success is only returned at the end of the
raster), and that main has spawned and joined threads in order (`MainInv`). Threads touch
only their own record, so one lemma per group of actions suffices.

**AsnDecoder_proofs.** The inductive invariant `AInv` speaks of a sequence of nodes that
`first` leads to (`Chain`), where `last` is relative to it in the middle of
`queue_push` and `queue_pop` (`Ends`), and that none of them is in the hands of a thread
(`Apart`); with it, who holds the mutex and who owns which node (`Threads`). `ListSound`
is stated with the links followed from `first`; `ListIs` shows that this yields the
sequence of the invariant. The refinement maps that sequence to the queue of the log:
linking a node is the push, unlinking it moves the message to the hands of the
processor, writing header and body are two writes, closing the file is the close, the end
of the program is the crash, and all else is a stutter (`LogSimulation`).

**Timers_proofs.** `WheelInv` is inductive whatever users and callbacks do: each list holds
exactly the running timers whose timeout has its position, each
once, and the counter is their number. `TInv` adds the types. The refinement needs in
addition that no running timer has been passed over: in `CInv`, every timer that is due
in the current tic is at the iterator of `step_all` or behind it (`Ahead`), unless it is
exposed. A call that leaves the node at the iterator in its list keeps `Ahead`, exposing
no more than a timer it pushes in front of it (`PushAhead`, `PopAhead`); one that does
not exposes every timer. When the traversal ends, nobody due is left but the exposed, and
the tic that follows takes one from every other count (`LeftStep`).

**PdcpNr_proofs.** `CountExact` is the arithmetic: a
COUNT within half an SN space of RX_DELIV on either side is recovered from its SN. The
inductive invariant `PInv` adds the types, that what is in transit lies below
RX_DELIV + Window_Size until the last COUNT, and that a running timer waits for more
than RX_DELIV: without the latter an expiry could move RX_DELIV back (`EdgeAdvances`).
`WInv`, inductive on top of `PInv`, adds
that until the last COUNT is received everything held is below RX_NEXT and RX_DELIV does
not pass RX_NEXT. It needs that the last COUNT is never forgotten: a delivery keeps it or
sets the overflow (`DeliverBelow`), so a state before it has only predecessors before it.
For the refinement, `OInv` says that what is on its way or held was submitted, and that
what is held lies beyond what was delivered last. A delivery hands up an ascending
sequence of COUNTs (`AscendingExists`, `DeliverInOrder`), under the names they were sent
with by `PInv`. `QInv` has the types that remain.

**RlcAmNrRx_proofs, RlcAmNr_proofs.** `WholeSdus` says that every grant of the link holds
an SDU with its header and that status PDUs stay in order. Both are needed:
`rlc_am_overtaken` is a link without the second, and the enclosing segments above need
one without the first. Loss, reordering of data PDUs, early timers, the poll configuration,
t-StatusProhibit, the lengths of SNs and of SDUs and the number of SDUs, over any number of
rounds of the SN space, are arbitrary.

The window properties are not inductive: they say nothing of what is under way, which is
what moves the windows. The invariant `Inv` therefore describes the sender exactly (`TxOK`:
its window maps the SNs from TX_Next_Ack to TX_Next, at most half the SN space, to the SDUs
in the order they were written, and only whole SDUs are sent again), the receiver (`RxOK`:
what it holds lies between RX_Next and RX_Next_Highest and is complete, RX_Highest_Status
names one between them that is missing, and while t-Reassembly runs the trigger lies beyond
RX_Next and the SN before it was received) and the link between them (`Linked`). A PDU under way
carries the SDU its SN stands for, at most half the SN space behind TX_Next (`PduOK`), which
is where `Timely` and the size of the window enter. Reports acknowledge in the order they
were built, none before TX_Next_Ack and none beyond RX_Next (`ReportsOK`). The SDUs that went
up are those before RX_Next and those held beyond it, each once (`Ups`), and the ones
confirmed are those before TX_Next_Ack.

All SNs are compared as distances back from TX_Next (`ModBase(n, x)`), in which the edges
of both windows are plainly ordered; `Between`, `Further` and `Unreduced` carry the
comparisons of the code, each taken from an edge of its own, to that one. `SenderKeeps`,
`ReceiverKeeps` and the lemmas `...Keeps` of the link say what each operator preserves, and
there is one lemma per action. The folds of the code, over the SNs a report acknowledges
and over its NACKs, are reasoned about through the recursive function inside
`MapThenFoldSet`, by the least number at which a claim would fail (`LeastOf`).

**MacNr_proofs.** The inductive invariant `IInv` has the
types and `Supervised` itself, as `Watched`, for every stage of a completion that the
stack may have disturbed; there is one lemma per operator of ProcRaNr
and one per group of actions (stack, timers, PHY). The bounds of the counters are not
inductive alone: a procedure that gave up keeps its state, and a late task restarts it
from there. `Counted` bounds the counter per state; it passes `preambleTransMax + 1` once
in each wait, and once for a callback that finds the procedure completed.

Only model-checked:

* Liveness (`Recovers`, `SearchEnds`, `AllWritten`, `HeldIsDelivered`, `AllConfirmed`,
  `Ends`, `SrServed`), which needs ENABLED and is out of the prover's reach.
* RLC AM with segmentation. The theorems are about links that carry whole SDUs; that
  segments are cut, resegmented, put together and reported as they should be is checked
  on the links of `rlc_am_reliable` with small grants. The assertions do not all hold there,
  as the enclosing segments above show.
* The properties of the runs that end in a counterexample.

## Not modelled

* Signal processing, ciphering, YAML and file I/O, generated ASN.1 code: no control to
  check, or outside TLC's reach.
* RLC UM and the LTE entities, BSR, multiplexing and HARQ of the MAC, the task queues,
  thread pools, `slot_sync` and `cell_search` of srsUE, the RAR codec: each could be
  modelled; what the modelled parts need of them is stated in their modules.
* `rach_uplink.cc` (its start is commented out, its decoders are stubs) and
  `cell_searcher_backup.cc` (superseded).
* The eNB, EPC and gNB, which NR-Scope does not link.
