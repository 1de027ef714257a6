# planterm in TLA+

planterm puts an ESP32 on the pLAN bus (an RS-485 token-ring-like link) of a heat-pump
controller. It listens to everything, can enrol as a terminal of its own at address 31
next to the physical display terminal (the "pGD", address 32), press keys, read the
controller's pages and edit its settings. The firmware is C++ under `src/src/`
(header-only, host-tested machines) and `src/esphome/components/plan_bridge/` (the
component that binds them to an interrupt, a FreeRTOS task and the ESPHome main loop).

This directory holds TLA+ modules of that code, TLC configurations that check them on
small instances, and proofs for TLAPS. Paths below are relative to the repository.

## 1. Inventory

Three threads of control share one core. The **receive interrupt** (`plan_bridge_isr.cpp`)
runs `PlanTerminal::on_byte` on every byte and busy-waits while it sends an answer. The
**bus task** (`task_main`, `plan_bridge.cpp:411-640`) has a higher priority than the
**main loop**, which runs services, navigation and publishing. They share volatile words
without locks; only the key queue is a FreeRTOS queue.

| Component | State | Operations | Talks to |
|---|---|---|---|
| Key pump (`plan_bridge.cpp` `press_key`, `key_tick_`, `drop_queue_`, `publish_fate_`) | queue, `key_st_`, deadline, `tx_pending_`, `tx_fired_`, `key_ack_`, `key_fate_word_` | press, arm, withdraw, judge, repeat, drop | interrupt (slot and verdict byte), main loop and capture clients (fates) |
| Enrollment control (`set_enroll`, `set_armed`, `task_main`) | `enroll_`, `drain_`, `claim_mask_`, `drain_deadline_ms_`, `join_logged_`, `state_dirty_` ... | join, leave, stop, arm, finish a drain, report state and joins | interrupt (flags), capture clients (events) |
| Enrolled terminal (`plan_terminal.h`) | window of bytes, run of a roll-call, join, back-off, pGD absence, poll forwarding, session gate | one matcher per frame kind, `tx_sent`, `tx_not_sent`, `on_tick` | the bus, the two components above |
| Navigation engine and scrape (`plan_nav.h`) | step sub-state, cycle phase, route position, seen views, park, schedule | `step_`, `esc_anchor_`, `menu_select_in_`, `seek_selected_`, `pin_tick_`, `tick`, `park`, `resync_anchor` | screen (reads), key pump (presses, fates), arbiter |
| Edit machine (`plan_edit.h` 1-888) | page visit, focus walk, edit, confirm | `get`, `set`, `set_ops`, `read_sweep`, `tick` | as the scrape |
| Edit arbiter (`plan_edit.h` 890-1065) | ring of requests, running request | `enqueue*`, `tick` | both machines |
| Screen (`plan_screen.h`) | rows, inverse bands, ages | feed, settle | terminal frames, navigation |
| Snapshot (`plan_snapshot.h`) | the frame under way, the last frame of each row and cell | `feed`, `visit` | bus bytes, capture server |
| Capture server (`plan_cap.h`, `plan_bridge.cpp` 640-1026) | client slots (socket, session, backlog, kick), record number | accept, evict, read, fan out, replay, flush | TCP clients, snapshot, the first two components (commands) |
| Bus health (`plan_terminal.h` 115-200) | window counters, classification | `take_window` | main loop |
| Frames, hex, fields (`plan_frame.h`, `hex_format.h`, `plan_fields.h`) | none | encoders, checksums, extractors | everyone |

What is hard here:

* **Interleaving.** A burst takes time, and the task may withdraw the key meanwhile.
  Stores of a main-loop request are interleaved with the task and the interrupt.
* **Ordering of observations.** What a frame says about the ring is read when the *next*
  frame's address byte arrives, before that frame's own matchers act.
* **Unreliable delivery.** Acknowledgements are lost or garbled, and those of others look
  like ours. Bus, controller and pGD owe nothing.
* **Timeouts against late answers.** The verdict wait, the drain's grace period, the
  settle cap, the join back-off and the pGD's absence time all race something.
* **Stale state.** A decision is carried out after a 200 ms sleep, the screen model is
  kept through a yield, and the fate of an earlier press of the same key may come late.
* **Partial failure.** One client of many stalls, or the heap has no room for its record,
  in the middle of a fan-out that its own command caused.
* **Liveness.** A dead bus must not hold a press, a drain, a scrape cycle or an edit.

`PROJECT.json` lists each hazard at its line, with the properties that cover it.

What makes each component correct:

* *Key pump*: every press ends, with at most one verdict, and the verdict is true.
* *Enrollment control*: what clients are told is the state, the last request wins, a
  drain renounces and completes, and no key rides a fresh membership.
* *Terminal*: it never forwards before its own join, never ends a walk above a live pGD,
  does not storm the ring with joins, and puts keys only into a session that shows rows.
* *Navigation*: a walk publishes no view twice, no move follows a park, every cycle ends.
* *Arbiter*: one machine at a time, sets before gets, first come first served in each.
* *Edit machine*: "done" implies that the device keeps the target, nothing else is ever
  committed, and every request ends.
* *Snapshot and capture server*: a client shows what the bus painted, a slow client loses
  bus bytes visibly and events never, and nobody's backlog grows for ever.
* *Screen* (not modelled): no torn row is trusted.

## 2. Modules

| Module | Models | Builds on |
|---|---|---|
| `KeyLifecycle` | abstract: presses served one at a time, in order, each ending once | |
| `KeyPump` | the key path with requesters, bus task and interrupt; implements `KeyLifecycle` | |
| `KeyPumpProofs` | proofs: safety; the refinement | `KeyPump`, TLAPS |
| `EnrollControl` | the control plane, store by store | |
| `EnrollControlProofs` | proofs | `EnrollControl`, TLAPS |
| `Terminal` | the terminal at address 31, frame by frame | |
| `TerminalProofs` | proofs | `Terminal`, TLAPS |
| `NavEngine` | the navigation primitives, as operators on their shared sub-state | |
| `NavEngineProofs` | lemmas: what each primitive returns, which keys a step presses | `NavEngine`, TLAPS |
| `PlanNav` | the scrape machine | `NavEngine` |
| `PlanNavProofs` | proofs | `PlanNav`, `NavEngineProofs` |
| `PlanEdit` | the edit machine, with the controller it edits | `NavEngine` |
| `PlanEditProofs` | proofs | `PlanEdit`, `NavEngineProofs` |
| `RequestQueue` | abstract: a queue in which sets overtake gets, one holder of the session | |
| `EditArbiter` | the arbiter's ring and tick; implements `RequestQueue` | |
| `EditArbiterProofs` | proofs | `EditArbiter`, TLAPS |
| `Snapshot` | the screen cache, as operators on its state | |
| `CaptureServer` | the server's part of the bus task's pass, with its clients | `Snapshot` |
| `CaptureServerProofs` | proofs | `CaptureServer`, TLAPS |
| `MC*` | instances for TLC: frame sets, routes, symmetry | |

### Key pump

`press_key` is the request of a capture command, a service or the navigation (`kind`);
a navigation press is told its fate through `key_fate_word_`. One call of `key_tick_` is one
action, `key_tick`, with one disjunct per way through its `switch`: `IgnoreUnarmed`,
`ExpireQueued` and `ArmKey` at IDLE, `Withdraw` and the take-over of a fired key at ARMED,
`ExpireArmed` at DISARM, `Reject`, `HoldOn` and `Accept` at VERDICT, `ArmRepeat` at REPEAT.
The interrupt's slot (`PollSlot`) and the end of its burst (`tx_sent`, `tx_not_sent`) are
separate steps: the task may look at `tx_pending_` and `tx_fired_` in between.
`HearByte` is the first byte after the burst. Clocks are ages that saturate where the
code's comparisons no longer tell values apart. `wire`, `sent`, `took`, `fate` and `fates`
are what happened in the world; the code does not read them.

Assumptions, named in the module: a burst is over before `KEY_DISARM_MS`
(`MaxBurst < DisarmWait`); the controller answers a burst at once; another member's frame
starts no sooner than `MemberGap` after it.

### Enrollment control

A request is the list of volatile stores of `set_enroll` or `set_armed`, in program order
(`JoinStores`, `LeaveStores`, `StopStores`). A caller in the main loop (`"main"`) makes
them one by one with everybody else in between; a command on the bus task (`"task"`) only
runs where the task polls its sockets, and only the interrupt comes in between.
All requests of one behaviour come from the same side: `callers` is chosen at the start. `task_pc`
walks one pass of `task_main`: drain check, the 200 ms sleep at a drain's end (`delay`),
state event, join event, reports, commands, block. `Poll`, `RollcallElsewhere`,
`RollcallReply` and `SessionGate` are what the interrupt does to the same flags.

### Terminal

`Hear(f)` is the handling of one frame: first the reading of the frame before it
(`rc_run_end`), then the matchers of `f`, which leave an answer in `act`. The answer is sent
(`tx_sent`) or its slot is found taken (`tx_not_sent`) before anything else happens, because
the interrupt busy-waits its burst. A frame names only the addresses the code tells
apart, its type, its sender, the two membership bits of us and the pGD, and whether its
checksum holds. `ok = FALSE` is a garbled frame. The pGD's answer to a forwarded poll comes
as itself or mirrors the poll with our address as its sender (`PgdAnswers`). The streak of failed
joins is not bounded, as in the code; the back-off is (`MaxBackoff`). `owed`, `missed`, `unacked`,
`answered`, `row`, `t_pgd_heard` and `t_fail` record what was on the wire and are not read by the code.

### Navigation

`NavEngine` is pure: a primitive maps the shared sub-state `n` and a *look* (does the
predicate asked about hold, did the screen settle, where is the cursor) to `RUN`, `OK` or
`FAIL`, the next sub-state and a key to press. Looks are arbitrary in every pass, so the
results hold for any controller behaviour. `PlanNav!Tick` is one call of `tick`: a due
cycle starts, a pending park takes over at a step boundary, then the mode's primitive
advances; a route step's move and the start of its emit happen in the same pass, as in
the code. `park`, `resync_anchor`, `enable`, `set_route` and `key_fate` are the owner's
calls between passes, at any time. A `resync_anchor` during an anchor phase is used up by that
phase, which has pressed its Esc already (`plan_nav.h:696-698`); any other is owed an Esc by
the next anchor phase (`owed`), also when the route is empty. `pass` flips with every pass of the loop, so that fairness of `Tick`
never forces the screen to be helpful: a pass that changes nothing else is still a step.

### Edit machine

`Tick` is one call of `tick`. `Pass` has one operator per state of the `switch` (`Anchor`,
`Route`, `Read`, `Focus`, `Edit`, `Commit`, `Sweep`, `AbortEsc`, `Teardown`), each built
from the primitives of `NavEngine` and the helpers of the code (`wait_change`, `arrive`,
`retry`, `abort`, `finish`). `begin` is a request of any of the four entry points; what it
asks for, on which page and by which route, is one of `Visits`.

What the machine presses and reads is not the controller, and the module keeps the two
apart. A press goes into `keys`; the controller takes it in order (`Takes`) or the pump
drops it within its time to live (`Drops`), in which case its fate reaches the machine or
is overwritten in `key_fate_word_` first. `dev` is the controller: the committed values,
the focus and the values shown in it. What it shows is painted later, as a page (`Repaint`)
or cell by cell (`Tear`), into `scr`, which is all the machine reads. A page has a selector
and a number; on a linked page the number depends on the selector, as on the scheduler's.
A neighbouring page may match the extractor (`NearRows`). A gated route seeks a cursor
menu, moves its band to the last entry, and may meet the password gate, which shows how
many Ups it counted. Without a configured PIN the route fails there. `resync_anchor` is called between
requests; nothing in `src/src/` calls it while one runs. What `set_ops` leaves to its callers, the order of
the operations, is assumed of `Visits` (`Walkable`).

One unit of time is half a second, the quiet window: a redraw that is owed is over before
the clock moves, and the loop passes at least once before and after a repaint. A press may
outlive the settle of the step that made it, as in the code (600 ms against 1500 ms), so
several can be on their way at once. `lost` says that an Enter of this request was dropped;
two properties are conditional on it.

### Edit arbiter

The ring buffer, its head and count, the pick of the first set and the closing of the gap
are modelled slot by slot. The two machines are their `idle()` and the fact that a busy
one may end in a tick. A request is refused at `enqueue` (a set of a read-only macro, a
full ring) or at its start, where it is dropped and the session stays free (`NotStarted`): its
extractor is missing (`NoField`), an operation of its list has none (`BadList`), or a sweep
expects a count outside `1 .. SWEEP_MAX` (`BadCount`). `RequestQueue` says the same with one queue, from which the
first set is taken before any get, one holder, and an external client's hold under which
nothing starts.

### Snapshot and capture server

A display frame repaints a row or one cell of it; its bytes are a head (with the address
mark), a tail and, for every other frame, a mark. `Snapshot` is `feed`, `close_` and
`visit` on the frame under way, the cached row and the cached cell.

`CaptureServer` follows the pass of `task_main`: events and diagnostics (`Report`), the
close of kicked clients and the accept (`Accept`), each client's input in slot order
(`RecvNothing`, `RecvEnd`, `Recv`), the stream buffer into the fan-out and the cache
(`Drain`), the backlogs to the sockets (`Flush`). A fan-out is one function from slots to
slots, for typed records (a full backlog kicks) and for bus bytes (a full backlog skips,
and the number counts). Any set of backlogs may fail to grow (`starved`), in the middle of
the fan-out that a client's own command causes. `view` is what a client made of the
records it received, `screen` what the bus painted, and `due` counts the events and
acknowledgements owed to each session; the code reads none of the three.

## 3. Runs

Every passing run is exhaustive on its instance. Deadlock is checked in all of them.

| Run | Instance and bounds | Shows |
|---|---|---|
| `keys` | 2 presses, queue of 2, one report, acknowledgements not lost; symmetry in presses | types, single and true verdicts, nothing sent late, implements `KeyLifecycle` |
| `keys_live` | 2 presses, queue of 1, 2 reports per press, acknowledgements may be lost; fair | a held key is accepted only if each report was, nothing is sent after its verdict, every press leaves the pump |
| `keys_unreported` (violation) | 1 press | an acknowledged press without a verdict |
| `enroll` | 4 requests, all from the main loop or all from commands, grace of 2 ticks; fair | the state and the join are reported truly under any preemption, a drain renounces, a leave completes; commands keep their order and their grace |
| `enroll_lost` (violation) | 3 requests by the main loop | a join lost in the task's 200 ms sleep |
| `term` | three scenes, any answer may find its slot taken. Joins: 8 frames, 4 joins, back-off after 2. Forwards: 10 frames, 1 join, keys. Link: 12 frames, sessions garbled and foreign, keys, drains | walk end below the pGD only, damped joins, a bounded back-off; no forward before our own join, forwards alternate but for a missed reply; keys wait for rows, a drain renounces |
| `nav` | 4 routes (menu and gate, walk, seeks, empty), 2 views, budgets of 1 or 2; fair | no move after a park, walks without repeats, an Esc after a resync at any time, every cycle ends |
| `nav_park` (violation) | a one-step route; fair | a park that is never honoured |
| `arbiter` | ring of 3, 4 kinds of requests on 2 macros, each kind startable and refused; fair | implements `RequestQueue` (also under holds), sets are taken out |
| `edit` | 7 visits: sets of both fields, an operation list and a sweep on the linked page, two sweeps in a row of a list that ends, a number off the grid, a get, a set behind seek, menu and gate; values 0..2, 2 attempts, 4 presses; fair | what is reported is kept and was asked for, nothing else is committed, a commit starts from the target on the screen, the sweep publishes what is shown, every request ends |
| `edit_sweep` (violation) | the same visits | a neighbouring page's value published by a sweep |
| `capture` | 2 slots, one of them followed, backlog cap 0, one token per drain, 3 records of bus bytes, one event and one acknowledgement under way; a row and a cell | a client's screen is the bus's, no typed record is lost, backlogs are bounded |

Why the bounds are enough. Two presses meet in all ways that matter: one in hand and one
queued, both queued, one expiring behind the other; a ring of three has a gap in the middle
that wraps. Each duration is the smallest that keeps the code's order of durations
(burst < disarm < verdict < time to live; fold < gap-walk; quiet < a press's life < verify < settle cap), since the
code only compares them. Three requests to join or leave are needed for the longest story
(join, leave, join in the sleep), four allow one more in between. Two failures before the
back-off and four joins reach the first damped join, the doubled one and the cap. Menus have
three entries because a wrapping menu needs a shorter and a longer way round. A walk as
long as the list of views it remembers sits on that list's bound. The frame sets of the
three scenes of `term` together reach every matcher; the proofs do without them. Values
0..2 have a neighbour of the target on each side, a step of two misses it, and a list of
three tells a wrap from an end; four presses exceed the way round; two attempts make one
retry; the sweep expects two of three values, so that it ends by its count on the linked
page and turns around where the list ends. A backlog cap of 0 makes every client with one
record of bus bytes a stalled one, and the second slot is there to be kicked, evicted and
starved beside the one followed. Three records suffice for a head, a tail and the mark
that completes a frame, with the replay before, between or after them.

Every property has a mutant in `PROJECT.json`: a plausible mistake in the code, written as
an operator marked `Fault` before the definition it replaces, under which the property fails.

### Fairness

* `KeyPump`: the task runs (weak fairness of `key_tick`), time passes, a started burst
  ends, a due answer is heard or lost. Nothing is assumed of polls, gate, or requesters;
  `EveryPressLeaves` therefore covers the dead bus. The task is never starved: it has the
  highest priority and blocks with a timeout.
* `EnrollControl`: the task runs and time passes. The main loop's next store is strongly
  fair because the task blocks once in every pass. The controller owes nothing.
* `PlanNav`: the loop ticks and the clock moves. Nothing is assumed of the screen.
* `PlanEdit`: the loop ticks, the clock moves, the pump decides every press before its
  time to live is over (`EveryPressLeaves` of `KeyPump`), and the controller draws what it
  owes. Nothing is assumed of which presses it gets. Each condition is stated on the few
  variables by which its steps are told from all others.
* `EditArbiter`: the loop ticks; a machine that is ticked again and again ends what it
  runs: `CycleEnds` of `PlanNav` and `EditEnds` of `PlanEdit`. `SetsServed` further assumes that the link stays joined
  and that neither an external client nor a park holds the session for good. It says that sets
  leave the ring; one that is refused at its start leaves it as well.

## 4. Proofs

Checked by TLAPS for all values of the constants that satisfy the named assumptions. TLC
checked every inductive invariant on a run before it was proved.

`KeyPumpProofs` proves one inductive invariant, `IInv`, of `Spec`: the types (`TypeOK`), then

* `SafeInv`: queued presses are distinct and untouched (`QueueInv`), nobody is judged
  twice (`FateInv`), the hand-over flags belong to the press in hand (`HandInv`), so does a
  burst, which a withdrawn key outlives only by `MaxBurst` (`BurstInv`), and the reports
  on the wire are those judged and the one being judged (`CountInv`). Without `BurstInv`
  "the burst that ends is that of the press in hand" is not inductive;
* `TakenInv`: `key_ack` says that the controller took *this* burst, given
  `MemberGap >= AckWindow`, and what was taken equals what was sent between bursts;
* `RejectInv`, `ExpireInv`: the counterparts for the two other verdicts.

From it: `TypeCorrect`, `VerdictsAreSingle`, `AcceptanceIsTrue` (if no member frame can
be taken for an acknowledgement), `RejectionIsTrue` (if acknowledgements are not lost),
`ExpiryIsTrue` (for one report per press), and, as an action property, `NothingSentAgain`.
The conditions are hypotheses of the theorems, not of the model. Each marks a place where
the code really depends on it (section 5).

`TerminalProofs` proves `TypeOK` and six properties from one `IInv`. Its own conjuncts are
`ActInv` (which answers can be pending in which state), `AckInv` (the code's wait for
the acknowledgement of a link reply brackets the one on the wire), `ClockInv` (the
code's idea of the pGD's silence is never longer than the real one), `GateInv` and
`MaskInv`. A step is split into the reading of the previous frame (`InvHear` with
`AnswerFacts`), the sending or skipping of the answer (`InvSent`, `InvQuiet`) and the rest.
The frames are an arbitrary subset of `AllFrames`, so the theorems cover buses no run has.
Two action properties follow from invariants of their own. `StormsDamped`
(`JoinStormDamped`) rests on `DampInv`: after a streak of failures the rest of the back-off
and the age of the last failure add up to a gap-walk, and a reply that opens a join was not
held back by either. `ForwardsOwedOnce` (`ForwardsAlternate`) rests on `AlternateInv`: while
the controller is owed a direct answer `fwd_just` is up, or the direct answer that clears it
is on its way, or it found its slot taken (`missed`). Nothing is assumed of the slots; a sent
forward ends what a miss allows.

`KeyPumpProofs` also proves `LifecycleKept`: with one report per press, every step of
`KeyPump` is a step of `KeyLifecycle` or a stutter. The line of presses is the queue behind
the press in hand; the proof asks of each way through `key_tick_` which press leaves the
front of that line, and with which end. With more reports a press may be judged twice by
design, and the refinement is not stated. `PressesAreFresh` (`SentWhileFresh`) needs
`FreshInv`: how old a press can be, in each state of the pump, by the deadlines before it.

`EnrollControlProofs` proves six theorems from one `IInv`. A request is in the middle of its
stores most of the time, so the invariant is about what is *left* of it: `TodoInv` says which
suffixes of the store lists exist, `ReportInv` and `JoinInv` that the state is either as
reported or its dirty flag is up or one of the remaining stores raises it, `MaskInv` and
`CommandInv` which claim bits and deadlines can be seen before the last store. Two
theorems are conditional on the requests of a behaviour coming from one side
(`OneSided`), as `Init` chooses; section 5 says why.

`EditArbiterProofs` proves `OrderKept`: the ring implements `RequestQueue`. The lemmas are
about slots modulo the size of the ring: the requests in the order of their slots are a
sequence, filling the next slot appends to it, closing the gap behind the pick removes
one element and keeps the others in order, and the pick is its first set or its first
element. With these each step of the arbiter is one step of the abstract queue.

`PlanNavProofs` proves `TypeCorrect`, `ParkIsQuiet`, `WalksEmitOnce` and `AnchorIsFresh` for
every route and for *any* look: no lemma assumes anything of the screen. In `NavEngineProofs`
each primitive of `NavEngine` gets a contract (`StepResult`, `Verified`, `AnchorOut`): what it
may change of the sub-state, and when it can press a key. `WalkInv` says that within a walk the list of seen
views holds exactly what was shown, `BeginInv` that a cycle starts at the first step with
no sub-state left over, and `OwedInv` that as long as an Esc is owed no anchor phase is under
way and the flag that makes the next one press it is up. The schedule's `Backoff` is a
recursive function; that it exists and grows is shown by a least counterexample.

`PlanEditProofs` proves `TypeCorrect` on the same contracts, for every page, route and request
and whatever is lost, late or torn. `TypeOK` bounds what the code keeps in `uint8_t` counters
and indices: attempts, route step, operation, focus, presses (`PressesBounded`). The
strengthening, `MachineInv`, has one conjunct per state of the `switch`: the focus is before
its field while it walks and at it while it edits and commits, an attempt is left in every
working state, a seek that is about to press has a press left. Each state of `tick` is one
lemma (`AnchorPass` ... `TeardownPass`), on what its helpers keep (`ArriveInv`, `NextOpInv`,
`WaitOut`, `RetryInv`); the controller and the pump come after them (`PressSound`). Assumed of
a request (`Walkable`): its operations are in the order of their fields, which `set_ops`
leaves to its callers ("an ordered list of sub-edits", `plan_edit.h:50-51`), and a sweep has
one field and expects a value.
Two conjuncts of the same invariant carry the machine's own part of a truthful report.
`TargetIsReported` (`TargetReported`): a plain set that is about to be reported done holds its
target, by whichever of the ways into the teardown it came. `CommitsAreShown`
(`CommitsWhatShows`, an action property): a commit starts when the row on the screen reads the
target or cannot be read. Its lemmas say where each way into `COMMIT` gets the value it compares:
`arrive_` from the row of this pass, `wait_change_` from a candidate that equals the row when
the quiet window is over (`WatchedCandid`). Both hold whatever the waits are. The step of
`CommitsWhatShows` is one conjunct of `OnlyTargetCommitted`.
`TruthIsReported` (`TruthReported`) adds the controller: what is snapshot and what is reported
done is what the controller *keeps*, although an open field shows a candidate. `TruthInv` says,
state by state, which presses can still be under way and which pages they can meet. A visit
has the Escs of the way home, then arrows, then Enters in flight (`OnVisit`), so the value page is
reached with Enters only, which change nothing while the rows show what is kept (`EnterClean`). Work on a
field leaves no Esc behind and the anchor alone (`AtWork`); on the way home either an anchor on the screen means that
nothing but Escs is under way, or no press under way leads to the value page (`OnWayHome`); what a teardown is about
to report stays what is kept (`Kept`). The wait for the value page needs a clock: when it is over every press was
decided and drawn (`Waited`), so a route that is given up is not overtaken by its own Enter.
Assumed: a press is decided before a verify window is over (`Ttl < Verify`: 1500 ms
against 2000 ms), and of the behaviour's route that it leaves the anchor by arrow seeks and cursor menus and ends in
Enters that lead to the value page with no PIN asked for (`Lands`). Six of the seven visits
of the run `edit` are of this kind; behind the password gate the claim is TLC's.
`SweptValueIsShown` (`SweepShowsValue`) is about `read_sweep`: the value it publishes is on the screen
together with the number that belongs to it, as long as no Enter of the request was dropped.
`SweepInv` follows the one Enter that opens the selector and the one arrow that moves it. No
second Enter is under way when the sweep starts (`OneEnter`), so none commits the selector or leaves it for the next field;
the row that `sweep_capture` publishes is whole on the screen, with no arrow behind it (`Opening`,
`Capturing`). After an arrow `wait_change_` watches a row that may be torn: by the time it trusts a candidate
the main loop has passed over the drawn row and replaced every half-painted one (`MovedOn`), and it does not give up a row it still watches,
because the quiet window is over first (`WatchTime`); a wait that fails found every press decided
and drawn (`Timed`), so the selector stayed where it was. Assumed beyond `Ttl < Verify` and `Lands`: a quiet window of at least one unit that fits the
watch (`Deadline` is `NAV_VERIFY_MS + 10 * NAV_QUIET_MS`), one Enter at the end of the route
(`SingleEnter`; the code's `times` 0 and 1), and a sweep of the field the other rows depend on
(`OfSelector`, what `read_sweep` is for, `plan_edit.h:228-231`). Both sweeps of the run `edit` satisfy all of it.
`OnlyTargetIsCommitted` (`OnlyTargetCommitted`) is about the controller, for requests of the selector
alone (`OfOne`): with the step of `CommitsWhatShows` it says that the selector is never set to a value that
was not asked for, and no number is changed, also when Enters are lost. An Enter commits whatever
the open field shows when it is *taken*, so the invariant is about the order of the presses under way. `Safe`:
where a field is open no Enter comes behind an arrow, and an Enter meets either what is kept or an open
selector that shows the target; with no field open an Enter may come first, then arrows, but no Enter behind
those (`Apart`). It is kept by every press taken, aged or dropped (`SafeTaken`, `OrderTaken`,
`OrderAged`), whatever the machine does. `Enterable` is what must hold when the machine presses an Enter, and `CommitFits`
says, state by state, why it does: a visit meets its page with no field open (`OneEnter`), the
edit found every arrow decided and drawn before it sets out to commit (`Paging` as in the sweep), or its focus Enter was
lost, no field is open, and its presses only page away (`Astray`). A sweep needs no more than that its own presses
are arrows (`Arrowed`). The hypotheses are those of `SweptValueIsShown` with `OfOne` for `OfSelector`; four of the
seven visits of `edit` satisfy them. TLC checked `CommitInv` with these visits, with two requests in a row and
with routes of a menu and a seek before it was proved.

`CaptureServerProofs` proves the run's three invariants for any number of slots, any cap,
any drain and any set of display frames. `ReplicaInv` is the strengthening: at every moment
the records under way to a client, *read now*, would leave it with the frame under way on
the bus and, if it is sure of its row, with the screen. `Drain` adds to both sides of that
equation and `Flush` moves a prefix from one part of it to the other (`MadeAppend`,
`MadeSplit`); a replayed cache starts it (`SnapshotShown`, `NewSession`). A client's own
command is in the middle of its acknowledgement while others hear of it, so what is known of
the slots then is relative to what they were (`Kin`, with the acknowledgement still owed).
The model's folds are unfolded place by place by `FoldRuns`; it needs no induction theorem
but the existence of a least counterexample. Assumed: the frames have a kind and a text
that is not blank, and a tail on the bus completes the head before it (`Grammatical`).

Only model-checked: liveness under fairness, which the prover does not reach; of `PlanEdit`
`TruthReported`, `SweepShowsValue` and `OnlyTargetCommitted` outside the theorems' hypotheses: routes behind
the password gate, and for `OnlyTargetCommitted` edits of the number or of several fields. None of the three is
true of every route `Visits` could hold (one that types on after it reached the value page edits
blindly), nor of every choice of the waits, so each theorem names what it assumes. With the other
bounds of `edit` as they are, TLC refutes `OnlyTargetCommitted` and `SweepShowsValue` for a quiet
window of 0, and all three for a verify window shorter than a press lives (`Verify = 1`,
`Deadline = 1`, `Ttl = 3`): a press of the step before is then executed behind a check that
gave it up. The code has 600 ms, and 2000 ms against 1500 ms.
`JoinAccounting` is proved and has no run.

## 5. What the checks found

Shown by runs that end in a violation:

* **`keys_unreported`.** A command's press is acknowledged when it is queued, but
  `key_tick_` drops it without a verdict if the bridge is disarmed before its turn
  (`plan_bridge.cpp:330`). `capture-protocol.md:299-301` promises each press's verdict.
* **`enroll_lost`.** At a drain's end the task decides, sleeps 200 ms, then stores
  (`plan_bridge.cpp:426`): a join requested meanwhile is undone.
  `capture-protocol.md:279-280` promises that the last writer wins.
* **`nav_park`.** A park requested while the last Esc of a cycle is under way survives the
  end of the cycle: `finish_` leaves `park_req_` set and an idle `tick` returns before it
  looks (`plan_nav.h:678-680`). `parking()` then holds until a new cycle may start, which
  under the arbiter's hold or off the link is never; `plan_nav.h:643-651` promises a bound.
  The cycle is also counted, although a park should not count one.
* **`edit_sweep`.** The sweep never asks whether it is still on the value page
  (`plan_edit.h:509-530`; `FOCUS` and `EDIT` do). If its focus Enter was dropped, and the
  drop is decided when the next press is already under way or its fate is overwritten, its
  Up pages away and a neighbouring page's row is published as a selector value, against
  `plan_edit.h:35-38`.

Met while modelling, and kept as a condition of a property or a theorem instead:

* A held key whose TTL runs out after its first report is called EXPIRED although a report
  was executed (`plan_bridge.cpp:401`; `plan_frame.h:93-94`). Hence `ExpiryIsTrue` for one report.
* Any frame to the controller in the window counts as the acknowledgement
  (`plan_terminal.h:329`, against the comment at 322-325). Hence `MemberGap`.
* A leave from the main loop raises `drain_` before it stores the new deadline, so a stale
  deadline may end the drain at once (`plan_bridge.cpp:268-269`; `plan_bridge.h:360-361`).
  `CommandsGraceful` says so for commands only.
* A join from the main loop raises the claim bit while a drain that a command started in
  between may be on (`plan_bridge.cpp:255`; `plan_terminal.h:218-219`). With both sides
  in one behaviour `StateReported` and `RenounceWhileDraining` fail: `set_armed` decides
  "nothing changed, not dirty" and the other side re-arms before it returns. No behaviour
  of the run mixes the two sides, and the two theorems say so.
* A quiet leave ends after three unanswered polls, or at a roll-call elsewhere, before the
  15 s the component's README names (lines 255-257; `plan_terminal.h:760-776`, 1228-1231).
* A direct answer whose slot is taken counts as given for the forwarding turn
  (`plan_terminal.h:851`; `tx_not_sent`, 1009-1017, gives nothing back), so the re-poll is
  forwarded too, against "never forward twice in a row" (789). `ForwardsAlternate` allows one
  such forward for each missed reply and no other.
* `resync_anchor` promises the next cycle an Esc (`plan_nav.h:667-672`); a call during
  a running one is cleared at its end (697-698) without another Esc.
* A press lives 1500 ms, a settle may be over after 600 ms. A step whose check then holds at
  once ends before its press is decided; the next step, pressing the same key, is told of
  the earlier press and repeats its own (`plan_nav.h:232-236`, against 230-231). The model
  does so, and `TruthReported` and `OnlyTargetCommitted` hold all the same: the read-back,
  the confirming visit or the Esc that closes the focus catches the repeated press.
* A park from idle looks at the screen model at once, without the "one settle" that
  `plan_nav.h:649-650` names.
* On a page where an earlier field repaints the edited row, a lost hop Enter leaves the
  focus on that field: the presses then move and commit it (`plan_edit.h:344-366`), and
  `set_ops` may report ok, as it does not visit the page again (`plan_edit.h:447-459`).
  `OnlyTargetCommitted` is conditional there; `TruthReported` is about plain requests.
* A client whose hello and first command arrive in one read gets the diagnostic and the
  acknowledgement before the snapshot (`plan_bridge.cpp:829-845`; `capture-protocol.md`, 6.1).
* An acknowledgement is queued past the backlog cap, which the fan-out of events checks
  and `capture_command_` does not (`plan_bridge.cpp:1000-1003`; `capture-protocol.md`, 6.3).
* A frame that is under way when a session is established is neither in the replay nor
  whole in the live stream: its row stays as it was until it is next repainted
  (`plan_snapshot.h:45-49`). `FaithfulReplica` is about sessions established between frames.
* `press_i_` is not reset when a set's confirming visit starts (`plan_edit.h:440-449`; the
  anchor resets `step_i_` and `rphase_` only, 263-267). Its first route step takes the presses
  of the edit for its own, presses nothing, fails its check, and costs one of the
  `EDIT_NAV_ATTEMPTS` kept for a bouncing session (the host test's log shows "route attempt 1
  failed" after every successful set). `PressesBounded` says how far the stale count reaches.
* A get or sweep whose extractor is missing is accepted by `enqueue` and dropped at its
  start with a log line and no callback (`plan_edit.h:1028-1031`).

## 6. Not modelled

* `PlanScreen`, bus health and the link resend (`on_tick`): planned. `NavEngine` and
  `PlanEdit` take the trust window for what it promises: quiet means that nothing was
  painted lately.
* Of the capture server: setting up the listener, the inside of the Noise handshake, the
  in-band count of bytes the interrupt dropped. The model has one row with one cell: the cache
  keeps the last cell of a row only, so two cells that drift between repaints replay as a mixed
  row (`plan_snapshot.h:113-116` says so), which is out of the model's reach. Backlogs are counted in records of bus
  bytes. That a client which reads is served is not checked as liveness.
* The controller of `PlanEdit` is assumed: Enter opens, commits and goes on, arrows move a
  value or leave the page, a redraw takes less than the quiet window. A press whose fate is
  "dropped" was not executed (`RejectedNotTaken` of `KeyPump`).
* The byte window of the terminal: frames are whole or garbled, so a poll pattern inside
  another frame's payload is not seen. The transmit log and the legacy knobs at their
  non-default values are left out.
* `millis()` wrap-around: time is in bounded ages.
* Frame encoding, checksums, hex formatting and the field tables are data without control.
  Configuration code (`__init__.py`) only fixes the constants.

## 7. Plan

1. Theorems: `PlanEdit`'s `OnlyTargetCommitted` for the number and for several fields, where the
   Enters that hop on meet an open field, and `TruthReported` behind the password gate.
2. A composition of `PlanEdit` with `KeyLifecycle` in place of `keys`: Enter is pressed on
   the verified menu entry only, also when verdicts come late. With presses that outlive
   their step, and a gate that may close on any Enter, a blind Enter of the PIN can meet
   another menu; what the controller's gate does has to be known for that.
3. `LinkResend` (timer interrupt against receive interrupt), `BusHealth` and `PlanScreen`.
4. A composition of `Terminal` with a controller and a pGD, for the liveness of polling
   and the bootstrap probe.
