# autonomy-sim: models, checks and proofs

This directory holds TLA+ models of the simulator in this repository, TLC
configurations that check them on small instances, and proofs checked by TLAPS.
Paths are relative to the repository root; `sim` below is `crates/autonomy-sim`.

    tlasany M.tla                          parse
    tlc -workers 2 -config X.cfg M         model-check
    tlapm MProofs.tla                      prove

## 1. The system

One process runs one scenario at a time. A producer task ticks the simulation
and publishes a frame per tick; clients read the frames over HTTP and WebSocket
and may switch the scenario for everybody.

| component | source | state | operations |
|---|---|---|---|
| State API server | `sim/src/server.rs` | `simulation`, `latest`, `active` (a lock each), broadcast channel of 64 | producer loop, `select_scenario`, `stream_socket`, `snapshot` |
| Simulation scheduler | `sim/src/sim.rs` | sequence, time, entities, previous links, trees, runtimes | `tick`, `frame`, `initial_frame`; errors end a tick half way |
| Wildfire missions | `sim/src/wildfire.rs` | mission state per tanker, fire cells, occupied slots, queue, launch time | `tick`, called once per tick |
| Behavior trees | `sim/src/behavior.rs` | authorization, waypoint, orbit phase | `tick` per entity, on the links of the previous tick |
| Swarm steering | `sim/src/swarm.rs` | velocities | floating-point flocking |
| Network backends | `sim/src/network.rs`, `sim/src/sigforge.rs` | previous links; registered nodes | `update`: the links of a tick; SigForge fails with an error |
| Behavioral Ditto | `sim/src/ditto.rs` | documents: revision, one watermark per entity | `upsert_document`, `tick` (exchange over the best links, with budgets), `snapshot` |
| Real Ditto transport | `sim/src/ditto_transport.rs`, `crates/autonomy-sim-ditto-real` | native peers, `active_pairs`, `written_revisions`, `previous_replicas` | `frame` = `apply_links`, `write_document`*, `observe`; every native call may fail |
| CoT gateway | `sim/src/cot.rs`, `sim.rs` 316-337 | none; open sinks | emit the tracks the gateway holds the latest revision of |
| Scenario registry | `sim/src/scenario.rs` | none | load, validate |
| Frontend | `frontend/src/main.ts` | connection generation, last sequence, selected scenario | reconnect, stream, apply frames |

How they interact: `server.rs` calls `Simulation::tick` under the simulation's
lock. A tick runs the behavior trees and the wildfire missions, moves the
entities, asks the network backend for the links, ticks the behavioral Ditto
model with the links and the mission documents, and, in real mode, hands the
documents and the links to `RealState::frame`. `frame` collects what all of
them show. Only the server is concurrent (tokio tasks and locks); the Ditto SDK
synchronizes on threads of its own, between the native calls of a frame; within
a tick everything else is sequential.

What is hard, and what correctness means:

- **Server**: locks are held for one statement, so requests, the producer and
  the streams interleave everywhere between. Correct: nothing out of order but
  what can be said, a stream loses nothing between its first frame and the ones
  it forwards, everything comes to show the simulation that runs, and the
  active id names it.
- **Wildfire**: claims, slots and queue are each kept in two places (tanker and
  cell, tanker and base). Correct: the two never drift apart, whatever order
  missions come back in; the queue is first in first out; nobody waits for ever.
- **Behavioral Ditto**: revisions hop over links with budgets. Correct: no
  revision is lost, overwritten or invented, peers converge, and what a frame says of
  convergence is so.
- **Real transport**: calls fail half way through a frame, Ditto writes while a
  frame reads, the process is killed and its stores stay. Correct: failures lose
  no write and leave no wrong configuration, and what a frame calls converged was.
- **Scheduler**: a tick that fails has already moved the agents, counted the
  sequence and told SigForge some positions. Correct: the next frame makes up for
  it (its link events, its links), nothing is exported that did not reach the
  gateway, and the trees keep to authorization and route on links one tick old.
- **Frontend**: sockets close, reconnect and are replaced while envelopes are on
  their way, and other clients switch the server. Correct: what is drawn is of
  one scenario, a choice is not taken back by a late envelope, and the page ends
  up with the scenario that runs.

Each hazard is listed at its line, with the properties that cover it, under
`hazards` in `PROJECT.json`.

## 2. Modules

| module | what |
|---|---|
| `Wildfire` | `WildfireRuntime::tick`, one step per tanker |
| `ReloadBase` | abstract: a base with slots and one FIFO line. `Wildfire` implements it |
| `StateService` | the tasks of `server.rs`, one step per locked statement or send |
| `DittoModel` | `upsert_document`, `tick` and `snapshot` of `ditto.rs` |
| `ReplicaStore` | abstract: authors write, replicas learn from holders. `DittoModel` and `RealTransport` implement it |
| `RealTransport` | `RealState::frame` and `RealDittoTransport`, one step per native call, and restarts |
| `BehaviorTree` | one tick of a playbook's tree (`behavior.rs`): no state, operators on a context |
| `Network` | both backends (`network.rs`, `sigforge.rs`) and the link events: operators on positions |
| `SimTick` | `Simulation::tick` and `evaluate_frame`, on top of `BehaviorTree` and `Network` |
| `StreamClient` | the frontend's stream client (`main.ts`) and the server it talks to |
| `WildfireProofs`, `DittoProofs`, `RealTransportProofs`, `SimTickProofs`, `StateServiceProofs`, `StreamClientProofs` | theorems |
| `MCWildfire`, `MCStateService`, `MCDittoModel`, `MCRealTransport`, `MCSimTick`, `MCStreamClient` | the modules TLC runs, with the functions a `.cfg` cannot give |

Definitions named `X_Fault` are `X` with a plausible bug; putting one in the place of
`X` makes a property of a run fail. They belong to no specification.

### Wildfire

`tick` is a loop over the tankers in id order: `BeginTick` (the fires grow), one step of
each tanker, `EndTick` (`refresh_base_state`, and the scheduler moves time on). Each
branch of the `match` on the mission state is one action or two (the timer has run or
not, the goal is reached or not); the constants are the configuration's times in ticks.
Nobody sees the state between the steps of a tick, so invariants that hold at each of
them say more than is needed, but for two that are about frames:
`PublishedBaseIsCurrent` (of `turn = 0`) and `FrontIsServed`, in which `base` is what
the last frame showed.

Data: a position is whether the tanker is within the arrival radius of its goal
(`near`), which flying may turn on or off at will; an intensity is one of a few levels,
and how far a tick or a drop moves it is any amount in the right direction; retardant
counts the shares of one drop tick. Ages saturate at `AgeCap`, the longest time anything
is compared with. Times are exact multiples of a tick: rounding of `elapsed + dt` is not
modelled. `WildfireConfig::validate` is the source of the assumptions.

### StateService

`Tick` (or `TickFailure`), `StoreFrame`, `SendFrame` are the producer; `BeginSelect`,
`InstallSimulation`, `InstallActive`, `StoreInitial`, `SendInitial` are
`select_scenario`; `Subscribe`, `ReadLatest`, `SendLatest`, `Forward` are
`stream_socket`. A simulation is its scenario, the number of replacements before it (its
run) and its sequence. A frame is the simulation as it was. The channel is one queue per
subscribed client that drops its oldest entry when full. `EndEarly` covers a rejected
scenario and a handler whose client left and whose future is dropped at an `await`.

Two history variables name the orders in which the code keeps less than one would wish,
so that the invariants can say what holds otherwise. `overlapped`: switches met between
their two locks, or one was dropped there (finding 1); it ends with the next switch that
meets none. `crossed`: the latest frame was stored while another publisher was between
its store and its send, so the two may be sent in the other order; it ends with the next
frame that meets no other.

### DittoModel

`BeginTick` holds the upserts of a tick: any set of due documents changes. Then one
`Exchange` for each pair of entities in the order of `best_peer_links`; its budget is
any number up to the largest (0 when no link of the pair is up), so that the properties
hold for whatever a network backend returns. Documents are numbered in key order, which
is the order budgets are spent in. Revisions stop at `MaxRevision`; with `Renumber`, a
last revision that everybody holds is counted as one less before the next, so that
documents may change for ever in a finite model (revisions are only ever compared with
each other). `Peer` may be any of the entities: a fire or a waypoint is none, but
`validate` lets it have radios, and then it has links and watermarks like the others.

### RealTransport

`BeginFrame` takes any new links and any changed documents; `Configure(p)` is one native
reconfiguration of `apply_links`, in peer order; `WriteDocument(d)` one write, in key
order; `ReadCollection` one read of `observe`, after the last of which the frame is
`shown`. `Fails` and `WriteFails` end the frame at any of these calls, keeping what it
did so far. `Sync` is external: Ditto moves a newer value between two connected peers at
any time. `halfway` is history: `apply_links` was begun, and has not gone through since
(finding 4). `up` is a local of the frame and is forgotten with a frame that is given
up.

`Restart` kills the process anywhere, amid a write too, and starts it again: the stores
stay, and everything in memory starts anew. The behavioral model then counts revisions
from one again, so a store's value counts all runs (`before` plus `revision`); nothing
of a run is visible to the code but through the stores.

Assumed of Ditto: a call that fails has had no effect, one that a crash interrupts may
have had it; stores are durable; each document has one author, so that last-writer-wins
is the later write, also across runs, and values of two runs differ; connected means
connected by either side's configuration. All carriers of a pair of entities are one
link. Documents of the behavioral frame are revisions, and each document is the only one
of its collection.

### BehaviorTree, Network and SimTick

A behavior node is an operator from a context to a context with the status of its tick;
`Then`, `OrElse` and `Both` combine what two children made of it as Sequence, Fallback
and Parallel do, and `Ticked` chooses the playbook's tree. `AnalyticLinks` and
`SigForgeLinks` are the links that are up; SigForge computes them from the positions it
was told (`told`), and reports any usable directions among those that are audible.

`SimTick` has an action per way a tick can end: `TickReturns`, or the frame is lost when
the network fails (`TickUnmeasured`, with the first positions told), when real Ditto
fails (`TickUnreplicated`) or when reading the real gateway's store fails during the
export (`TickUnexported`). `Behave` is what they share: the trees tick and the sequence
advances before anything can fail. `Snapshot` is the frame before the first tick. Of
Ditto, the gateway's revision of each entity's PLI and track documents is kept
(`replica`), with any transfer the behavioral model may make over the gateway's links;
`DittoModel` and `RealTransport` have the rest. A firefighting agent is moved anywhere
(`Wildfire` says how). `followed` and `missed` are history: what a reader of
`link_events` believes.

Data: positions are points of a line, speeds points per tick; a radio has a reach; an
orbit is a set of points, one of which belongs to each tick. The sequence is counted
modulo the period of the two intervals.

### StreamClient

A page has a socket, a reconnect timer, and an envelope that a socket it closed may
still dispatch (`stale`); the generation check of `main.ts` 850 is `HandleStale`.
`Connect` is `connect()`, `Choose` the selection's listener, `Lose` `onclose`, `Handle`
`handleMessage`. The server is coarser than `StateService`: a request replaces
simulation and active id in one step (their race is `state_service_active`'s), and
opening a stream is one step with the end of the request. Frames of the old scenario
after a switch, a first frame after the second, skipped frames and requests that outlive
their page all happen. `sim_time_s` grows with `sequence` within a scenario, so it is
not kept.

## 3. Runs

| run | configuration | shows |
|---|---|---|
| `wildfire_safety` | 3 tankers, 1 slot, 2 cells, drops of 3 ticks | all safety invariants, that the front of the queue gets a free slot in the next frame, and the inductive invariant of the proofs |
| `wildfire_queue` | 3 tankers, 1 slot, 1 cell | implements `ReloadBase` (with its fairness), every tanker in the queue reloads, and a mission that begins ends with the tanker back, full and free |
| `state_service` | 2 clients, 2 scenarios, 2 switches, capacity 2, failing ticks, dropped handlers | ordering, a stream that has caught up shows what a snapshot returns, the active id is right but for overlaps, and snapshots and streams settle on the running simulation if ticks do not fail for ever |
| `state_service_active` | 2 clients, 3 scenarios | **violated**: the active id may name another scenario than the one that runs |
| `state_service_order` | 1 switch | **violated**: sequence 1 may be sent before 0 |
| `ditto_model` | 2 peers with a waypoint that has a radio between them, 3 documents, one of each kind | implements `ReplicaStore`, a document is called converged but for what the waypoint holds of it, everybody catches up |
| `ditto_model_tasking` | 2 peers, budget 1 | **violated**: a tasking document may wait for ever behind those before it |
| `real_transport` | 3 peers in a line, 2 documents, failing calls, restarts | implements `ReplicaStore`, converged means latest, an arrival is one event in a run, connections are the links once `apply_links` went through, no write is lost |
| `real_transport_links` | same | **violated**: a shown frame may have connections that are not its links |
| `real_transport_peers` | same, no failures | **violated**: a peer called converged may be stale |
| `sim_tick` | 3 scenarios of 3 agents on 4 points, each network and transport that can fail | link events make up for lost frames, links fit positions, routes, authorization, relays and exports as the code promises; a search covers its route |
| `stream_client` | 1 page, other clients, 2 scenarios, 2 envelopes under way | the drawn scenario fits the heading, a choice survives late envelopes, a page that has handled all it was sent shows the latest frame, and the page settles on the scenario that runs |

Bounds. With three tankers and one slot, the queue has two waiters, the least that can
be out of order, and a third tanker may arrive while one leaves; with two cells there is
a choice of target and a conflict over one. Two clients are the least that can switch
against each other, and two replacements the least for an overlap; a queue of two
overflows. Three entities in a line are the least with a relay, and in `ditto_model` the
one in the middle, over which documents may have to go, is no peer; two documents
per collection order decide who is starved. Two revisions are the least with an older
and a newer value to confuse. `Scenario`, `Client` are sets of model values, not
declared symmetric because most runs check liveness. `state_service` fixes the scenario
of the start (`StartedSpec`): the model treats scenarios alike, and its properties name
none, so that of two behaviors that differ by exchanging the scenarios one need be
looked at. `MaxRevision` bounds the revisions of a document in all runs of the process
together; two of them put a restart between a write and the next.

The agents of `sim_tick` are a searcher, a relay and a base; an orbit with and without
authorization and a tanker; each with the gateway found by its kind or as the first
entity. Four points hold both a pair in and a pair out of each reach. SigForge lists one
NEM that is nobody's. Both intervals are two ticks, so that ticks with and without an
update or export alternate, and `Period` makes the sequence finite without changing
which ticks these are. `stream_client` has one page, since another page is to it a
client that asks for scenarios (`OtherAsks`; at most `MaxOthers` such requests at once).
Two envelopes under way are the least that a switch can put in an order, and numbers
above `MaxSeq` alternate with it, so that a later frame never equals the one before.

Larger instances are what the proofs are for.

Deadlock is checked in every run: each of these systems can always go on.

## 4. Fairness

- `Wildfire!Spec`: weak fairness of the whole step. The producer's loop has no exit, so
  ticks keep coming; nothing is assumed of any one tanker.
- `Wildfire!Arriving` is strong fairness of arriving, for the tankers that fly: it is an
  assumption on `swarm.rs`, whose steering turns the tanker to its goal, not something
  the code's control guarantees. Only `MissionsComplete` assumes it.
- `StateService!Spec`: weak fairness of publishing a frame that was taken and of each
  client's handler: the runtime runs every task that is ready. Nothing makes a client
  ask, leave, or a handler be dropped, and nothing makes a tick succeed: the loop
  continues after an error (`server.rs` 97), which guarantees attempts only.
- `StateService!TicksSucceed`, that again and again a tick succeeds, is an assumption on
  SigForge. `SnapshotsSettle` and `StreamsSettle` name it, and fail without it: if every
  tick fails after a switch whose handler was dropped, or whose first frame an older one
  overtook, `latest` stays a frame of the simulation before.
- `DittoModel!PathSpec`: ticks keep coming, and each link between neighbours is up, with
  some budget, again and again: the "path returns" of `ARCHITECTURE.md`.
- `RealTransport!Spec`: frames keep coming, and a native call tried again and again
  succeeds in the end (strong fairness of `Configure` for each peer, and of writing some
  document: the next one is fixed by key order). Ditto's own synchronization is under no
  fairness, and `RevisionsAreWritten` is about runs in which restarts end.
- `SimTick!Spec`: the sequence goes on, whichever ticks fail: the producer's loop
  continues after an error, and `tick` advances before it can return one.
- `StreamClient!Spec`: the producer goes on, which here assumes that ticks succeed in
  the end (`StateService` has those that fail), the handlers go on, a browser dispatches
  what it received and fires its timers. Nobody has to choose, lose a socket or stop
  doing so: `PagesSettle` is about runs in which that ends.

## 5. Proofs

TLAPS proves the following for every value of the constants that satisfies the modules'
assumptions.

- **`WildfireProofs`**. `Invariance`: `Inv` holds for any fleet. The safety invariants
  are inductive together but for three of them. A tanker that left a drop has at most
  one share left only because each tick of the drop took one: `DropProgress` relates the
  shares to the age of the drop, with a case for whether the tanker has had its turn.
  Launches are apart only because the remaining wait and the age of any tanker en route
  add up to the interval: `LaunchProgress`. And the front of the queue is served
  (`FrontIsServed`) only because, until its turn, it stays in front and no slot that was
  free is taken: `FrontProgress`. `TimersExpire` (a tanker leaves a state with a
  duration in the tick the duration ends) is inductive of itself: `TimersHold`. From
  `Inv`: `SlotsHold`, `QueueHolds`, `ClaimsHold`, `LoadHolds`, `StatusHolds`,
  `LaunchesHold`, `FrontHolds`, `PublishedHolds`. `Refinement`: the mission implements
  the safety part of `ReloadBase` (`RB!Safe`): a tanker that gets a slot with a queue is
  its front, which needs `QueueHoldsOnlyWaiters`.
- **`DittoProofs`**. `TypeCorrect` and `AuthorsLead` (together inductive: an exchange
  gives both ends the newer of two revisions, neither of which is ahead of the
  author's). `ConvergedCounts`, for any peers among the entities: a peer that is not
  counted as holding a document has it pending, so that the count of holders and the
  number of peers differ as the outsiders that hold it and the peers that miss it do
  (`SameSize`). `Refinement`: without `Renumber`, every step is a step of `ReplicaStore`
  or none.
- **`RealTransportProofs`**. `Invariance`: `Inv` relates the four copies of a revision:
  read <= store <= written <= revision, with store = written at the author and written =
  revision while the stores are read, each counted on top of `before`. So what was read
  at the author is the latest revision or nothing, and a document that every peer was
  read to hold equally is the latest everywhere, then and now, and so are all documents
  if no peer has one pending: `ConvergedHolds`. A restart keeps it, because a write that
  was interrupted is either in the author's store or never was (`RestartResult`). What
  the loop of `apply_links` has configured so far (`ConfiguredSoFar`,
  `RecordedMatrixIsApplied`) gives `ConnectionsHold`; what `observe` has read so far,
  compared with what the last frame saw (`ReadSoFar`), gives `ReplicasStayHolds`: stores
  lose nothing, so whoever held a document is read to hold it. Also `TypeCorrect`,
  `AuthorsLead`. `Refinement`: every step is one of `ReplicaStore` or none. A write
  takes the author's store from one revision to any later one (`MaySkip`: revisions
  whose writes failed are never stored), `Sync` is `Gossip`, and a restart in the middle
  of a write may be one too.
- **`SimTickProofs`**. What one tick of each tree does (`Promise`: types, the route, no
  move without authorization) is proved node by node from lemmas on the composites'
  children; the invariant then needs of a frame that `links` are those last shown unless
  `missed`. `RouteHolds`, `EventsHold`, `LinksHold`, `UnauthorizedHold` and
  `TypeCorrect` follow; `RelayHolds` and `ExportsHold` are step properties from the same
  invariant. All hold for any scenario that `validate` passes, any entities, radios and
  intervals.
- **`StateServiceProofs`**. The invariant says which frames are in flight (`Held`: the
  handler's first frame, the producer's), that everything sent is past (`SentIsPast`: of
  an earlier run, or behind what the producer has), that while nothing crossed at most
  one publisher is between its store and its send, and holds the latest frame
  (`LoneSender`), and that what a stream then has yet to forward ends with the latest
  frame (`StreamsFollow`). `TypeCorrect`, `OrderHolds` and `StreamsHold` follow for any
  number of clients, switches and any channel capacity. `ActiveHolds` has an invariant
  of its own, `LoneSwitches`: while nothing overlaps, the one handler between the locks
  has the simulation it installed.
- **`StreamClientProofs`**. Types, the timer, the drawn scenario and the standing choice
  are inductive together, and so is that an open stream ends with the latest frame,
  under way or shown (`FollowsTheLatest`); a frame that a page drops is one it shows
  already, because it has drawn what it applied (`DrawsWhatItApplies`). `TypesHold`,
  `TrailsHold`, `ChoicesHold` and `HandledHold` follow for any number of pages.
  `HandledHold` is the safety half of `PagesSettle`: what is left to liveness is that
  envelopes are handled and that the latest frame comes to be of the scenario that runs.

Every invariant and step property the passing runs check is also proved, and all
three refinements. Some are proved that no run lists, since another property of the run
implies them (`PublishedBaseIsCurrent`, `TimersExpire`: `Inv`; `AuthorHoldsTheNewest`,
`AuthorIsNeverBehind`: `OnlyLearnsFromHolders`). Only model-checked is liveness, which
is out of the prover's reach: `QueuedTankersReload`, `MissionsComplete`, the fairness of
`ServesInOrder`, `SnapshotsSettle`, `StreamsSettle`, `EverybodyCatchesUp`,
`RevisionsAreWritten`, `SearchesCover`, `PagesSettle`.

## 6. Disagreements between code and documents

1. `server.rs` 200-201: two requests that switch to different scenarios can install
   simulations A, B and active ids B, A. The active id stays wrong, and asking for the
   scenario it names does nothing (170). `ActiveNamesTheSimulation`.
2. `server.rs` 202: the producer may publish sequence 1 of a new run before its sequence
   0. `SequenceIncreasesByOne`.
3. `ditto.rs` 169: a budget spent in key order from the start of every tick can keep a
   document from crossing a link that is up, for ever. `TaskingArrives`.
4. `enabled.rs` 318: after a call of `apply_links` failed half way, links that return to
   the recorded matrix leave the peers before it as they were. `ConnectionsFollowLinks`.
5. `enabled.rs` 461: a peer is compared with the first replica, which may be stale: the
   stale peer is converged and the author pending. `PeerConvergedMeansLatest`.

Seen while modelling, and without a run of their own:

- `ditto.rs` 231 compares the number of watermarks that are at the latest revision with
  the number of peers, and `tick` (190) keeps a watermark for whoever is at the end of a
  link: for a fire or waypoint with a radio too, which line 91 makes no peer and
  `validate` accepts. A document that a peer misses is then called converged if such an
  entity holds it, and one that all of them and every peer hold is not.
  `ARCHITECTURE.md:252`: "`converged` means all scenario peers hold the latest
  revision." `ConvergedCountsOutsiders` says what the code's `converged` means instead.
- Two requests for the same scenario, of which the second reads the active id before the
  first has set it (`server.rs` 170), both replace the simulation: the second resets one
  that has already run.
- With real peers a transfer is no replication event if no up link of the peer leads to
  a holder by the frame that reads it (`ditto_transport.rs` 239: no path, and the
  replica is recorded as seen), nor if the peer held an older revision;
  `ARCHITECTURE.md:267` has the events contain the transfers of the tick.
- `sim.rs` 332 renders CoT from the live entity, and in real mode (`ditto_transport.rs`
  154) any revision at the gateway passes the gate; `ARCHITECTURE.md:60` has replicated
  documents exported, and only those whose latest revision reached the gateway.
- The wildfire runtime, which moves firefighting agents in the place of a tree, does not
  read `human_authorized`; `README.md:7` has it enforced as a hard behavior-tree
  condition. `UnauthorizedStay` leaves these agents out.
- `sim.rs` 248 sets a fire cell's `mission_state` to its status, and the cell's own
  "hold" tree overwrites it in the same tick (`behavior.rs` 130).
- Two radios of one carrier at an entity are not rejected by `validate`; the backends
  then make links of the same id. `Network` takes one radio of each.
- A page that reconnects asks for the scenario it has selected and so switches the
  server back after somebody else switched it (`main.ts` 837). With real peers the
  server refuses every other scenario (`server.rs` 173), and such a page reconnects in
  vain until it selects the one that runs.
- After a restart over real stores, frames report the documents of the run before as
  arriving again, and with revision 1 those that the new run has not written yet
  (`ditto_transport.rs` 244).
- If reading the gateway's store fails (`sim.rs` 319), the frame's link events are lost
  although its links were recorded (`missed`).

## 7. Not modelled

- `swarm.rs` and the propagation curve: floating-point geometry, of which the models use
  only that anything may happen or that a radio has a reach.
- Quality, latency, loss, capacity and `ditto_traffic`: values for display. A link's
  budget, which depends on its quality, is any number.
- HTTP, JSON, TOML, CoT's XML, the sinks, symbology, the command line, globe rendering:
  conversions and pure I/O without behavior over time. Of `scenario.rs` what `validate`
  guarantees is assumed by the models.
- The demo of real peers, build scripts and tests.
- Real time: the pace of ticks after a switch (`server.rs` 91), the reconnect delay, and
  rounding of accumulated times.

A composition of the whole program is not built: the parts meet where one hands its
result to the next (links to replication, missions to the scheduler, frames to the
server, envelopes to the page), and each module takes any such result that the other can
give.
