------------------------------ MODULE Wildfire ------------------------------
(***************************************************************************)
(* The wildfire mission of crates/autonomy-sim/src/wildfire.rs: a fleet of *)
(* air tankers that claim fire cells, drop retardant on them, and queue    *)
(* for a limited number of reload slots at the base.                       *)
(*                                                                         *)
(* WildfireRuntime::tick is one pass over the tankers in id order.  Here   *)
(* it is a sequence of steps: BeginTick (the fires grow), one step of the  *)
(* tanker whose turn it is, for each of them, and EndTick (the published   *)
(* base is refreshed and time moves on by one tick).  Nobody observes the  *)
(* runtime between BeginTick and EndTick (it is &mut self behind the       *)
(* simulation's mutex), so the invariants below, which hold at every step, *)
(* are stronger than what a frame shows.                                   *)
(*                                                                         *)
(* Data abstracted: positions become "within the arrival radius of the     *)
(* current goal, or not" (near), intensities a few levels, retardant the   *)
(* number of one-tick shares left in the tank, and times counts of ticks.  *)
(***************************************************************************)
EXTENDS Integers, Sequences, FiniteSets

CONSTANTS
  NumTankers,     \* tankers are 1 .. NumTankers, their order the BTreeMap's
  NumCells,       \* fire cells are 1 .. NumCells, in id order
  ReloadSlots,    \* config.reload_slots
  MaxLevel,       \* highest intensity level; level 0 no longer grows
  Threshold,      \* levels above it may be assigned (intensity > 5.0)
  LaunchTicks,    \* config.launch_interval_s, in ticks
  OnStationTicks, \* config.on_station_s, in ticks
  DropTicks,      \* config.drop_duration_s, in ticks
  EgressTicks,    \* config.egress_time_s, in ticks
  ReloadTicks     \* config.reload_time_s, in ticks

(* WildfireConfig::validate: slots and the reload and drop times are       *)
(* positive, there is a fire cell and there are tankers; nothing is asked  *)
(* of the other times, which may be zero.                                  *)
ASSUME FleetAssumption ==
  /\ NumTankers \in Nat \ {0}
  /\ NumCells \in Nat \ {0}
  /\ ReloadSlots \in Nat \ {0}

ASSUME LevelAssumption ==
  /\ MaxLevel \in Nat
  /\ Threshold \in 0 .. MaxLevel

ASSUME TimeAssumption ==
  /\ LaunchTicks \in Nat
  /\ OnStationTicks \in Nat
  /\ DropTicks \in Nat \ {0}
  /\ EgressTicks \in Nat
  /\ ReloadTicks \in Nat \ {0}

Tanker == 1 .. NumTankers
Cell   == 1 .. NumCells
Level  == 0 .. MaxLevel
None   == 0               \* Option::None of a cell or of a tanker

State == {"holding", "enroute_to_fire", "on_station", "dropping",
          "egress", "enroute_to_base", "reloading"}

(* The states in which the tanker holds a claim on its target cell. *)
Claiming == {"enroute_to_fire", "on_station", "dropping"}

Status == {"available", "assigned", "dropping", "contained"}

VARIABLES
  state,       \* TankerMission.state
  age,         \* ticks since state_since_s, saturating at AgeCap
  retardant,   \* TankerMission.retardant_pct, in shares of one drop tick
  target,      \* TankerMission.target_cell
  near,        \* the tanker is within the arrival radius of its goal
  intensity,   \* FireCellState.intensity, as a level
  assigned,    \* FireCellState.assigned_tanker
  status,      \* FireCellState.status
  occupied,    \* occupied_slots
  waiting,     \* the queue for a slot
  launchWait,  \* ticks until sim_time_s reaches next_launch_s
  base,        \* BaseState as published: the slots and the queue
  turn         \* 0 between two ticks, else the tanker to step next

missionVars == <<state, age, retardant, target, near>>
cellVars    == <<intensity, assigned, status>>
slotVars    == <<occupied, waiting>>
vars == <<missionVars, cellVars, slotVars, launchWait, base, turn>>

-----------------------------------------------------------------------------
(* No timer compares an age with more than the longest duration. *)
Longer(a, b) == IF a >= b THEN a ELSE b

AgeCap ==
  Longer(LaunchTicks, Longer(Longer(OnStationTicks, DropTicks),
                             Longer(EgressTicks, ReloadTicks)))

(* Definitions named X_Fault are X with a seeded fault: a run in which one *)
(* takes the place of X shows that the properties can fail.                *)

(* A tick makes a fire that still burns grow by spread_per_s, and a share  *)
(* of a drop takes part of drop_effect off it.  How far either moves it is *)
(* data: any level on the right side.  A fire at or under 0.5 stays out.   *)
Grown(l) == IF l = 0 THEN {0} ELSE l .. MaxLevel

Doused(l) == 0 .. l

(* assign_fire_cell: the hottest of the unclaimed cells above the          *)
(* threshold.  Cells of one level differ in intensities the model does not *)
(* show, so any of the hottest level may be the one.                       *)
Assignable_Fault == {c \in Cell : intensity[c] > Threshold}   \* claims ignored

Assignable == {c \in Cell : assigned[c] = None /\ intensity[c] > Threshold}

Hottest == {c \in Assignable : \A d \in Assignable : intensity[d] <= intensity[c]}

(* acquire_reload_slot: the slot the tanker already has, or a free one as  *)
(* long as nobody else is at the front of the queue.                       *)
MayAcquire_Fault1(t) ==   \* <= for <: one tanker too many
  t \notin occupied => /\ Cardinality(occupied) <= ReloadSlots
                       /\ waiting # <<>> => Head(waiting) = t

MayAcquire_Fault2(t) ==   \* the front of the queue not looked at
  t \notin occupied => Cardinality(occupied) < ReloadSlots

MayAcquire_Fault3(t) ==   \* one slot never given out
  t \notin occupied => /\ Cardinality(occupied) + 1 < ReloadSlots
                       /\ waiting # <<>> => Head(waiting) = t

MayAcquire(t) ==
  t \notin occupied => /\ Cardinality(occupied) < ReloadSlots
                       /\ waiting # <<>> => Head(waiting) = t

(* waiting.retain: t is at the front or not in the queue at all.           *)
WithoutFront(q) == IF q = <<>> THEN q ELSE Tail(q)

(* enqueue: a tanker that is in the queue keeps its place.                 *)
Enqueued_Fault(q, t) == Append(q, t)   \* a waiter queues again every tick

Enqueued(q, t) ==
  IF \E i \in DOMAIN q : q[i] = t THEN q ELSE Append(q, t)

Init ==
  /\ state = [t \in Tanker |-> "holding"]
  /\ age = [t \in Tanker |-> 0]
  /\ retardant = [t \in Tanker |-> DropTicks]
  /\ target = [t \in Tanker |-> None]
  /\ near = [t \in Tanker |-> FALSE]
  /\ intensity \in [Cell -> Level]
  /\ assigned = [c \in Cell |-> None]
  /\ status = [c \in Cell |-> "available"]
  /\ occupied = {}
  /\ waiting = <<>>
  /\ launchWait = 0
  /\ base = [occupied |-> {}, queue |-> <<>>]
  /\ turn = 0

-----------------------------------------------------------------------------
(* transition(): a new state, entered now. *)
Transition(t, s) ==
  /\ state' = [state EXCEPT ![t] = s]
  /\ age' = [age EXCEPT ![t] = 0]

(* The step of the tanker whose turn it is, found in state s. *)
StepFrom(t, s) ==
  /\ turn = t
  /\ state[t] = s
  /\ turn' = t + 1

(* tick, first loop: every fire still burning grows. *)
BeginTick ==
  /\ turn = 0
  /\ turn' = 1
  /\ \E new \in [Cell -> Level] :
       /\ \A c \in Cell : new[c] \in Grown(intensity[c])
       /\ intensity' = new
  /\ UNCHANGED <<missionVars, assigned, status, slotVars, launchWait, base>>

LaunchDue_Fault == TRUE   \* next_launch_s ignored

LaunchDue == launchWait = 0

(* Holding: launch when the interval has passed and a cell can be claimed. *)
Launch(t, c) ==
  /\ StepFrom(t, "holding")
  /\ LaunchDue
  /\ c \in Hottest
  /\ assigned' = [assigned EXCEPT ![c] = t]
  /\ status' = [status EXCEPT ![c] = "assigned"]
  /\ target' = [target EXCEPT ![t] = c]
  /\ Transition(t, "enroute_to_fire")
  /\ \E there \in BOOLEAN : near' = [near EXCEPT ![t] = there]
  /\ launchWait' = LaunchTicks
  /\ UNCHANGED <<retardant, intensity, slotVars, base>>

Hold(t) ==
  /\ StepFrom(t, "holding")
  /\ LaunchDue => Hottest = {}
  /\ UNCHANGED <<missionVars, cellVars, slotVars, launchWait, base>>

(* EnrouteToFire.  The branch for a tanker without a target (line 231) is  *)
(* left out: AssignmentIsOneToOne says a tanker here has one.              *)
FlyToFire(t, there) ==
  /\ StepFrom(t, "enroute_to_fire")
  /\ ~near[t]
  /\ near' = [near EXCEPT ![t] = there]
  /\ UNCHANGED <<state, age, retardant, target, cellVars, slotVars, launchWait, base>>

ArriveOnStation(t) ==
  /\ StepFrom(t, "enroute_to_fire")
  /\ near[t]
  /\ near' = [near EXCEPT ![t] = FALSE]
  /\ Transition(t, "on_station")
  /\ UNCHANGED <<retardant, target, cellVars, slotVars, launchWait, base>>

(* OnStation: circle the cell until on_station_s has passed. *)
Circle(t) ==
  /\ StepFrom(t, "on_station")
  /\ age[t] < OnStationTicks
  /\ UNCHANGED <<missionVars, cellVars, slotVars, launchWait, base>>

BeginDrop(t) ==
  /\ StepFrom(t, "on_station")
  /\ age[t] >= OnStationTicks
  /\ Transition(t, "dropping")
  /\ UNCHANGED <<retardant, target, near, cellVars, slotVars, launchWait, base>>

(* Dropping: one tick's share leaves the tank, the cell cools, and the     *)
(* last share (elapsed + dt reaches drop_duration_s) gives the cell back.  *)
LastShare_Fault(t) == age[t] >= DropTicks   \* elapsed, not elapsed + dt

LastShare(t) == age[t] + 1 >= DropTicks

SpendShare(t) ==
  retardant' = [retardant EXCEPT ![t] = IF @ > 0 THEN @ - 1 ELSE 0]

ReleaseClaim_Fault(t) == UNCHANGED assigned   \* the cell stays claimed

ReleaseClaim(t) == assigned' = [assigned EXCEPT ![target[t]] = None]

Drop(t) ==
  /\ StepFrom(t, "dropping")
  /\ ~LastShare(t)
  /\ SpendShare(t)
  /\ \E l \in Doused(intensity[target[t]]) :
       intensity' = [intensity EXCEPT ![target[t]] = l]
  /\ status' = [status EXCEPT ![target[t]] = "dropping"]
  /\ UNCHANGED <<state, age, target, near, assigned, slotVars, launchWait, base>>

FinishDrop(t) ==
  /\ StepFrom(t, "dropping")
  /\ LastShare(t)
  /\ SpendShare(t)
  /\ \E l \in Doused(intensity[target[t]]) :
       /\ intensity' = [intensity EXCEPT ![target[t]] = l]
       /\ status' = [status EXCEPT ![target[t]] =
                       IF l <= Threshold THEN "contained" ELSE "available"]
  /\ ReleaseClaim(t)
  /\ Transition(t, "egress")
  /\ UNCHANGED <<target, near, slotVars, launchWait, base>>

(* Egress: straight on until egress_time_s has passed. *)
FlyOut(t) ==
  /\ StepFrom(t, "egress")
  /\ age[t] < EgressTicks
  /\ UNCHANGED <<missionVars, cellVars, slotVars, launchWait, base>>

HeadForBase(t) ==
  /\ StepFrom(t, "egress")
  /\ age[t] >= EgressTicks
  /\ Transition(t, "enroute_to_base")
  /\ \E there \in BOOLEAN : near' = [near EXCEPT ![t] = there]
  /\ UNCHANGED <<retardant, target, cellVars, slotVars, launchWait, base>>

(* EnrouteToBase: fly until inside the base's radius, then take a slot or  *)
(* stop (speed zero: the position, and so near, no longer changes) and be  *)
(* in the queue.                                                           *)
FlyToBase(t, there) ==
  /\ StepFrom(t, "enroute_to_base")
  /\ ~near[t]
  /\ near' = [near EXCEPT ![t] = there]
  /\ UNCHANGED <<state, age, retardant, target, cellVars, slotVars, launchWait, base>>

EnterSlot(t) ==
  /\ StepFrom(t, "enroute_to_base")
  /\ near[t]
  /\ MayAcquire(t)
  /\ occupied' = occupied \union {t}
  /\ waiting' = WithoutFront(waiting)
  /\ near' = [near EXCEPT ![t] = FALSE]
  /\ Transition(t, "reloading")
  /\ UNCHANGED <<retardant, target, cellVars, launchWait, base>>

WaitForSlot(t) ==
  /\ StepFrom(t, "enroute_to_base")
  /\ near[t]
  /\ ~MayAcquire(t)
  /\ waiting' = Enqueued(waiting, t)
  /\ UNCHANGED <<missionVars, cellVars, occupied, launchWait, base>>

(* Reloading: give the slot back, full, when reload_time_s has passed. *)
Reload(t) ==
  /\ StepFrom(t, "reloading")
  /\ age[t] < ReloadTicks
  /\ UNCHANGED <<missionVars, cellVars, slotVars, launchWait, base>>

Refill_Fault(t) == UNCHANGED retardant   \* back to holding with an empty tank

Refill(t) == retardant' = [retardant EXCEPT ![t] = DropTicks]

ReleaseSlot_Fault(t) == UNCHANGED occupied   \* the slot is never given back

ReleaseSlot(t) == occupied' = occupied \ {t}

FinishReload(t) ==
  /\ StepFrom(t, "reloading")
  /\ age[t] >= ReloadTicks
  /\ ReleaseSlot(t)
  /\ Refill(t)
  /\ target' = [target EXCEPT ![t] = None]
  /\ Transition(t, "holding")
  /\ UNCHANGED <<near, cellVars, waiting, launchWait, base>>

(* tick, after the loop: the base as frames show it is refreshed, and the  *)
(* scheduler moves sim_time_s on by one tick (Simulation::tick).           *)
PublishBase == base' = [occupied |-> occupied, queue |-> waiting]

EndTick ==
  /\ turn = NumTankers + 1
  /\ turn' = 0
  /\ PublishBase
  /\ age' = [t \in Tanker |-> IF age[t] < AgeCap THEN age[t] + 1 ELSE AgeCap]
  /\ launchWait' = IF launchWait > 0 THEN launchWait - 1 ELSE 0
  /\ UNCHANGED <<state, retardant, target, near, cellVars, slotVars>>

TankerStep(t) ==
  \/ \E c \in Cell : Launch(t, c)
  \/ Hold(t)
  \/ \E there \in BOOLEAN : FlyToFire(t, there) \/ FlyToBase(t, there)
  \/ ArriveOnStation(t)
  \/ Circle(t)
  \/ BeginDrop(t)
  \/ Drop(t)
  \/ FinishDrop(t)
  \/ FlyOut(t)
  \/ HeadForBase(t)
  \/ EnterSlot(t)
  \/ WaitForSlot(t)
  \/ Reload(t)
  \/ FinishReload(t)

Next ==
  \/ BeginTick
  \/ \E t \in Tanker : TankerStep(t)
  \/ EndTick

Safe == Init /\ [][Next]_vars

(* The producer's loop never stops ticking, so some step is always taken.  *)
Spec == Safe /\ WF_vars(Next)

-----------------------------------------------------------------------------
(* Every variable has its type. *)
TypeOK ==
  /\ state \in [Tanker -> State]
  /\ age \in [Tanker -> 0 .. AgeCap]
  /\ retardant \in [Tanker -> 0 .. DropTicks]
  /\ target \in [Tanker -> Cell \union {None}]
  /\ near \in [Tanker -> BOOLEAN]
  /\ intensity \in [Cell -> Level]
  /\ assigned \in [Cell -> Tanker \union {None}]
  /\ status \in [Cell -> Status]
  /\ occupied \in SUBSET Tanker
  /\ waiting \in Seq(Tanker)
  /\ launchWait \in 0 .. LaunchTicks
  /\ base \in [occupied : SUBSET Tanker, queue : Seq(Tanker)]
  /\ turn \in 0 .. NumTankers + 1

(* Slots: the reloading tankers are exactly the occupants of the slots,    *)
(* and there are never more of them than slots (acquire_reload_slot,       *)
(* release_reload_slot).                                                   *)
SlotsNeverOverbooked ==
  /\ occupied = {t \in Tanker : state[t] = "reloading"}
  /\ Cardinality(occupied) <= ReloadSlots

(* Queue: a tanker is in the queue at most once, and only while it stands  *)
(* at the base without a slot; the queue never holds a tanker that flew on *)
(* or that already reloads, which would block everyone behind it.          *)
QueueHoldsOnlyWaiters ==
  /\ \A i, j \in DOMAIN waiting : waiting[i] = waiting[j] => i = j
  /\ \A i \in DOMAIN waiting :
       state[waiting[i]] = "enroute_to_base" /\ near[waiting[i]]

(* Claims: a cell's assigned_tanker and that tanker's target_cell agree in *)
(* both directions for as long as the tanker is on its way to the cell, on *)
(* station or dropping; so one tanker works a cell at a time, and no claim *)
(* outlives its mission or is lost (assign_fire_cell, the end of a drop).  *)
AssignmentIsOneToOne ==
  /\ \A t \in Tanker : state[t] \in Claiming =>
       target[t] # None /\ assigned[target[t]] = t
  /\ \A c \in Cell : assigned[c] # None =>
       state[assigned[c]] \in Claiming /\ target[assigned[c]] = c

(* The status frames report for a cell agrees with who works it: assigned  *)
(* or dropping exactly while claimed, and dropping only while its tanker   *)
(* really is in its drop.                                                  *)
StatusMatchesClaim ==
  \A c \in Cell :
    /\ status[c] \in {"assigned", "dropping"} <=> assigned[c] # None
    /\ status[c] = "dropping" => state[assigned[c]] = "dropping"

(* Load: a tanker on its way to a fire or over it is full, however it came *)
(* back from its last drop; one that left a drop has spent all of it, but  *)
(* for at most the share of one tick (the drop ends when elapsed + dt      *)
(* reaches its duration).                                                  *)
LoadMatchesMission ==
  \A t \in Tanker :
    /\ state[t] \in {"holding", "enroute_to_fire", "on_station"} =>
         retardant[t] = DropTicks
    /\ state[t] \in {"egress", "enroute_to_base", "reloading"} =>
         retardant[t] <= 1 /\ retardant[t] < DropTicks

(* Launch spacing: two tankers on their way to fires left the base at      *)
(* least launch_interval_s apart (next_launch_s).                          *)
LaunchesAreSpaced ==
  \A t, u \in Tanker :
    /\ t # u
    /\ state[t] = "enroute_to_fire" /\ state[u] = "enroute_to_fire"
    /\ age[t] < AgeCap
    /\ age[u] <= age[t]
    => age[t] - age[u] >= LaunchTicks

(* Between two ticks, when a frame can be taken, the published base shows  *)
(* the tankers that are reloading and the queue as they are.               *)
PublishedBaseIsCurrent ==
  turn = 0 => /\ base.occupied = {t \in Tanker : state[t] = "reloading"}
              /\ base.queue = waiting

(* Timers: no tanker stays in a state of fixed length past the turn in     *)
(* which its time is up, however the others move; a state takes at least   *)
(* one tick, also with a time of zero, and a drop ends with the share that *)
(* reaches its duration, so one tick before its time has passed.           *)
TimeIn(s) ==
  CASE s = "on_station" -> OnStationTicks
    [] s = "dropping"   -> DropTicks - 1
    [] s = "egress"     -> EgressTicks
    [] s = "reloading"  -> ReloadTicks

Timed == {"on_station", "dropping", "egress", "reloading"}

TimersExpire ==
  \A t \in Tanker : state[t] \in Timed =>
    LET most == Longer(1, TimeIn(state[t]))
    IN  IF turn > t THEN age[t] < most ELSE age[t] <= most

(* Frames: the tanker a frame shows at the front of the queue while a slot *)
(* is free has that slot in the next frame, whatever tankers come before   *)
(* it in id order (acquire_reload_slot lets none of them past it).         *)
FreeInFrame ==
  base.queue # <<>> /\ Cardinality(base.occupied) < ReloadSlots

FrontIsServed ==
  FreeInFrame /\ turn > Head(base.queue) => Head(base.queue) \in occupied

(* What makes the properties above inductive.  A tanker in its drop has    *)
(* spent one share for each tick since it began, the present one included  *)
(* once its turn is over; and a launch is never due before the youngest    *)
(* tanker en route is launch_interval_s old.                               *)
SharesSpent(t) == IF turn > t THEN age[t] ELSE age[t] - 1

DropProgress ==
  \A t \in Tanker : state[t] = "dropping" =>
    /\ retardant[t] = DropTicks - SharesSpent(t)
    /\ turn > t => age[t] = 0 \/ age[t] + 1 < DropTicks
    /\ turn <= t => age[t] >= 1 /\ (age[t] = 1 \/ age[t] < DropTicks)

LaunchProgress ==
  \A t \in Tanker : state[t] = "enroute_to_fire" =>
    launchWait + age[t] >= LaunchTicks

(* Until that tanker's turn comes, it stays at the front and no slot that  *)
(* was free is taken.                                                      *)
FrontProgress ==
  FreeInFrame /\ turn <= Head(base.queue) =>
    /\ occupied \subseteq base.occupied
    /\ waiting # <<>>
    /\ Head(waiting) = Head(base.queue)

(* The inductive invariant of WildfireProofs: all of the above at once.    *)
Inv ==
  /\ TypeOK
  /\ SlotsNeverOverbooked
  /\ QueueHoldsOnlyWaiters
  /\ AssignmentIsOneToOne
  /\ StatusMatchesClaim
  /\ LoadMatchesMission /\ DropProgress
  /\ LaunchesAreSpaced /\ LaunchProgress
  /\ PublishedBaseIsCurrent
  /\ TimersExpire
  /\ FrontIsServed /\ FrontProgress

(* The base implements the queueing discipline of ReloadBase: FIFO, no     *)
(* overtaking, no waiting while a slot is free for the taking, and every   *)
(* queued tanker served in the end.                                        *)
RB == INSTANCE ReloadBase
        WITH Slots <- ReloadSlots, serving <- occupied, line <- waiting

ServesInOrder == RB!Spec

(* A tanker that queues at the base gets a slot in the end, with no other  *)
(* fairness than that ticks keep coming.                                   *)
QueuedTankersReload ==
  \A t \in Tanker :
    (\E i \in DOMAIN waiting : waiting[i] = t) ~> state[t] = "reloading"

(* A tanker that keeps flying at its goal gets there: what the steering of *)
(* swarm.rs is for, and geometry this model does not show.                 *)
Arriving == \A t \in Tanker : SF_vars(FlyToFire(t, TRUE)) /\ SF_vars(FlyToBase(t, TRUE))

(* If tankers arrive, one sent to a fire comes back to the base, full and  *)
(* free for the next mission.                                              *)
MissionsComplete ==
  Arriving => \A t \in Tanker :
    state[t] = "enroute_to_fire" ~> state[t] = "holding" /\ retardant[t] = DropTicks
=============================================================================
