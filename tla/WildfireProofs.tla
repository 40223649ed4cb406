--------------------------- MODULE WildfireProofs ---------------------------
(***************************************************************************)
(* Proofs about Wildfire, for every fleet, every number of cells and slots *)
(* and all durations the assumptions allow.                                *)
(***************************************************************************)
EXTENDS Wildfire, FiniteSetTheorems, SequenceTheorems, TLAPS

USE FleetAssumption, LevelAssumption, TimeAssumption

(* The cap on ages is a natural number no duration exceeds. *)
LEMMA AgeCapBounds ==
  /\ AgeCap \in Nat
  /\ LaunchTicks <= AgeCap /\ OnStationTicks <= AgeCap /\ DropTicks <= AgeCap
  /\ EgressTicks <= AgeCap /\ ReloadTicks <= AgeCap
BY DEF AgeCap, Longer

(* The variables start with values of their types. *)
LEMMA TypeInit == Init => TypeOK
BY AgeCapBounds DEF Init, TypeOK, State, Status, Tanker, Cell, None

(* Taking a turn moves it on to the next tanker, or past the last one.     *)
LEMMA TurnMoves ==
  ASSUME NEW t \in Tanker, NEW s, StepFrom(t, s)
  PROVE  /\ turn' \in 0 .. NumTankers + 1
         /\ turn = t
         /\ state[t] = s
BY DEF StepFrom, Tanker

(* A transition keeps the types of the state and its age.                  *)
LEMMA TransitionType ==
  ASSUME TypeOK, NEW t \in Tanker, NEW s \in State, Transition(t, s)
  PROVE  /\ state' \in [Tanker -> State]
         /\ age' \in [Tanker -> 0 .. AgeCap]
BY AgeCapBounds DEF TypeOK, Transition

(* Dousing a cell leaves every cell with a level (and writes nothing when  *)
(* there is no cell to douse).                                             *)
LEMMA DousedType ==
  ASSUME TypeOK, NEW c, NEW l \in Doused(intensity[c]),
         intensity' = [intensity EXCEPT ![c] = l]
  PROVE  intensity' \in [Cell -> Level]
<1>1. CASE c \in Cell
  <2>1. l \in Level
    BY <1>1 DEF TypeOK, Doused, Level
  <2> QED
    BY <2>1 DEF TypeOK
<1>2. CASE c \notin Cell
  BY <1>2 DEF TypeOK
<1> QED
  BY <1>1, <1>2

(* What a tanker's step does to the types of the variables, action by      *)
(* action.                                                                 *)
LEMMA TypeTanker ==
  ASSUME TypeOK, NEW t \in Tanker, TankerStep(t)
  PROVE  TypeOK'
<1> USE DEF TypeOK, missionVars, cellVars, slotVars
<1>1. ASSUME NEW c \in Cell, Launch(t, c) PROVE TypeOK'
  <2>1. turn' \in 0 .. NumTankers + 1
    BY <1>1, TurnMoves DEF Launch
  <2>2. state' \in [Tanker -> State] /\ age' \in [Tanker -> 0 .. AgeCap]
    BY <1>1, TransitionType DEF Launch, State
  <2>3. /\ assigned' \in [Cell -> Tanker \union {None}]
        /\ status' \in [Cell -> Status]
        /\ target' \in [Tanker -> Cell \union {None}]
    BY <1>1 DEF Launch, Status
  <2>4. near' \in [Tanker -> BOOLEAN] /\ launchWait' \in 0 .. LaunchTicks
    BY <1>1 DEF Launch
  <2> QED
    BY <1>1, <2>1, <2>2, <2>3, <2>4 DEF Launch
<1>2. CASE Hold(t)
  BY <1>2, TurnMoves DEF Hold
<1>3. ASSUME NEW there \in BOOLEAN, FlyToFire(t, there) PROVE TypeOK'
  BY <1>3, TurnMoves DEF FlyToFire
<1>4. ASSUME NEW there \in BOOLEAN, FlyToBase(t, there) PROVE TypeOK'
  BY <1>4, TurnMoves DEF FlyToBase
<1>5. CASE ArriveOnStation(t)
  BY <1>5, TurnMoves, TransitionType DEF ArriveOnStation, State
<1>6. CASE Circle(t)
  BY <1>6, TurnMoves DEF Circle
<1>7. CASE BeginDrop(t)
  BY <1>7, TurnMoves, TransitionType DEF BeginDrop, State
<1>8. ASSUME SpendShare(t) PROVE retardant' \in [Tanker -> 0 .. DropTicks]
  BY <1>8 DEF SpendShare
<1>9. CASE Drop(t)
  <2>1. PICK l \in Doused(intensity[target[t]]) :
              intensity' = [intensity EXCEPT ![target[t]] = l]
    BY <1>9 DEF Drop
  <2>2. intensity' \in [Cell -> Level]
    BY <2>1, DousedType
  <2>3. status' \in [Cell -> Status]
    BY <1>9 DEF Drop, Status
  <2> QED
    BY <1>8, <1>9, <2>2, <2>3, TurnMoves DEF Drop
<1>10. CASE FinishDrop(t)
  <2>1. PICK l \in Doused(intensity[target[t]]) :
              /\ intensity' = [intensity EXCEPT ![target[t]] = l]
              /\ status' = [status EXCEPT ![target[t]] =
                              IF l <= Threshold THEN "contained" ELSE "available"]
    BY <1>10 DEF FinishDrop
  <2>4. intensity' \in [Cell -> Level]
    BY <2>1, DousedType
  <2>5. status' \in [Cell -> Status]
    BY <2>1 DEF Status
  <2>2. assigned' \in [Cell -> Tanker \union {None}]
    BY <1>10 DEF FinishDrop, ReleaseClaim
  <2>3. state' \in [Tanker -> State] /\ age' \in [Tanker -> 0 .. AgeCap]
    BY <1>10, TransitionType DEF FinishDrop, State
  <2> QED
    BY <1>8, <1>10, <2>4, <2>5, <2>2, <2>3, TurnMoves DEF FinishDrop
<1>11. CASE FlyOut(t)
  BY <1>11, TurnMoves DEF FlyOut
<1>12. CASE HeadForBase(t)
  BY <1>12, TurnMoves, TransitionType DEF HeadForBase, State
<1>13. CASE EnterSlot(t)
  <2>1. state' \in [Tanker -> State] /\ age' \in [Tanker -> 0 .. AgeCap]
    BY <1>13, TransitionType DEF EnterSlot, State
  <2>2. waiting' \in Seq(Tanker) /\ occupied' \in SUBSET Tanker
    BY <1>13 DEF EnterSlot, WithoutFront
  <2> QED
    BY <1>13, <2>1, <2>2, TurnMoves DEF EnterSlot
<1>14. CASE WaitForSlot(t)
  <2>1. waiting' \in Seq(Tanker)
    BY <1>14 DEF WaitForSlot, Enqueued
  <2> QED
    BY <1>14, <2>1, TurnMoves DEF WaitForSlot
<1>15. CASE Reload(t)
  BY <1>15, TurnMoves DEF Reload
<1>16. CASE FinishReload(t)
  <2>1. state' \in [Tanker -> State] /\ age' \in [Tanker -> 0 .. AgeCap]
    BY <1>16, TransitionType DEF FinishReload, State
  <2>2. /\ retardant' \in [Tanker -> 0 .. DropTicks]
        /\ target' \in [Tanker -> Cell \union {None}]
        /\ occupied' \in SUBSET Tanker
    BY <1>16 DEF FinishReload, Refill, ReleaseSlot
  <2> QED
    BY <1>16, <2>1, <2>2, TurnMoves DEF FinishReload
<1> QED
  BY <1>1, <1>2, <1>3, <1>4, <1>5, <1>6, <1>7, <1>9, <1>10, <1>11, <1>12, <1>13,
     <1>14, <1>15, <1>16 DEF TankerStep

LEMMA TypeNext == TypeOK /\ [Next]_vars => TypeOK'
<1> SUFFICES ASSUME TypeOK, [Next]_vars PROVE TypeOK'
  OBVIOUS
<1>1. CASE BeginTick
  BY <1>1 DEF BeginTick, TypeOK, missionVars, slotVars
<1>2. ASSUME NEW t \in Tanker, TankerStep(t) PROVE TypeOK'
  BY <1>2, TypeTanker
<1>3. CASE EndTick
  BY <1>3, AgeCapBounds DEF EndTick, PublishBase, TypeOK, cellVars, slotVars
<1>4. CASE UNCHANGED vars
  BY <1>4 DEF vars, missionVars, cellVars, slotVars, TypeOK
<1> QED
  BY <1>1, <1>2, <1>3, <1>4 DEF Next

(* Every variable always has its type. *)
THEOREM TypeCorrect == Safe => []TypeOK
<1> QED
  BY TypeInit, TypeNext, PTL DEF Safe

-----------------------------------------------------------------------------
(* Only three actions touch the slots and the queue, and three the cells.  *)
LEMMA SlotFrame ==
  ASSUME NEW t \in Tanker, TankerStep(t),
         ~EnterSlot(t), ~WaitForSlot(t), ~FinishReload(t)
  PROVE  UNCHANGED slotVars
BY DEF TankerStep, Launch, Hold, FlyToFire, FlyToBase, ArriveOnStation, Circle, BeginDrop,
       Drop, FinishDrop, FlyOut, HeadForBase, Reload

LEMMA CellFrame ==
  ASSUME NEW t \in Tanker, TankerStep(t),
         ~Drop(t), ~FinishDrop(t), \A c \in Cell : ~Launch(t, c)
  PROVE  UNCHANGED cellVars
BY DEF TankerStep, Hold, FlyToFire, FlyToBase, ArriveOnStation, Circle, BeginDrop,
       FlyOut, HeadForBase, Reload, EnterSlot, WaitForSlot, FinishReload

(* A tanker's step leaves the missions of the others alone.                *)
Kept(u) ==
  /\ state'[u] = state[u] /\ age'[u] = age[u] /\ target'[u] = target[u]
  /\ retardant'[u] = retardant[u] /\ near'[u] = near[u]

LEMMA OthersKept ==
  ASSUME TypeOK, NEW t \in Tanker, TankerStep(t), NEW u \in Tanker, u # t
  PROVE  Kept(u)
<1>1. ASSUME UNCHANGED missionVars PROVE Kept(u)
  BY <1>1 DEF missionVars, Kept
<1> QED
  BY <1>1 DEF TankerStep, Launch, Hold, FlyToFire, FlyToBase, ArriveOnStation, Circle,
     BeginDrop, Drop, FinishDrop, FlyOut, HeadForBase, Reload, EnterSlot, WaitForSlot,
     FinishReload, Transition, SpendShare, Refill, TypeOK, Kept

(* Its own mission goes round the cycle one edge at a time, and its age    *)
(* starts over with every edge.                                            *)
Edge == {<<"holding", "enroute_to_fire">>, <<"enroute_to_fire", "on_station">>,
         <<"on_station", "dropping">>, <<"dropping", "egress">>,
         <<"egress", "enroute_to_base">>, <<"enroute_to_base", "reloading">>,
         <<"reloading", "holding">>}

LEMMA MissionStep ==
  ASSUME TypeOK, NEW t \in Tanker, TankerStep(t)
  PROVE  \/ state'[t] = state[t] /\ age'[t] = age[t]
         \/ <<state[t], state'[t]>> \in Edge /\ age'[t] = 0
<1>1. ASSUME UNCHANGED missionVars PROVE state'[t] = state[t] /\ age'[t] = age[t]
  BY <1>1 DEF missionVars
<1> QED
  BY <1>1 DEF TankerStep, Launch, Hold, FlyToFire, FlyToBase, ArriveOnStation, Circle,
     BeginDrop, Drop, FinishDrop, FlyOut, HeadForBase, Reload, EnterSlot, WaitForSlot,
     FinishReload, Transition, TypeOK, StepFrom, Edge

(* Each edge of the cycle is taken by one action.                          *)
LEMMA EdgeAction ==
  ASSUME TypeOK, NEW t \in Tanker, TankerStep(t)
  PROVE  /\ state[t] = "holding" /\ state'[t] # "holding" => \E c \in Cell : Launch(t, c)
         /\ state[t] = "on_station" /\ state'[t] # "on_station" => BeginDrop(t)
         /\ state[t] = "dropping" => Drop(t) \/ FinishDrop(t)
         /\ state[t] = "enroute_to_base" /\ state'[t] # "enroute_to_base" => EnterSlot(t)
         /\ state[t] = "reloading" /\ state'[t] # "reloading" => FinishReload(t)
<1>1. ASSUME UNCHANGED missionVars PROVE state'[t] = state[t]
  BY <1>1 DEF missionVars
<1> QED
  BY <1>1 DEF TankerStep, Launch, Hold, FlyToFire, FlyToBase, ArriveOnStation, Circle,
     BeginDrop, Drop, FinishDrop, FlyOut, HeadForBase, Reload, EnterSlot, WaitForSlot,
     FinishReload, StepFrom

(* A tanker that stands at the base takes a slot or waits for one.         *)
LEMMA AtBase ==
  ASSUME NEW t \in Tanker, TankerStep(t), state[t] = "enroute_to_base", near[t]
  PROVE  EnterSlot(t) \/ WaitForSlot(t)
<1>1. ASSUME NEW s, StepFrom(t, s) PROVE s = "enroute_to_base"
  BY <1>1 DEF StepFrom
<1>2. ~Hold(t) /\ \A c \in Cell : ~Launch(t, c)
  BY <1>1 DEF Hold, Launch
<1>3. /\ ~ArriveOnStation(t) /\ ~Circle(t) /\ ~BeginDrop(t) /\ ~Drop(t) /\ ~FinishDrop(t)
      /\ \A there \in BOOLEAN : ~FlyToFire(t, there)
  BY <1>1 DEF FlyToFire, ArriveOnStation, Circle, BeginDrop, Drop, FinishDrop
<1>4. /\ ~FlyOut(t) /\ ~HeadForBase(t) /\ ~Reload(t) /\ ~FinishReload(t)
      /\ \A there \in BOOLEAN : ~FlyToBase(t, there)
  BY <1>1 DEF FlyOut, HeadForBase, FlyToBase, Reload, FinishReload
<1> QED
  BY <1>2, <1>3, <1>4 DEF TankerStep

-----------------------------------------------------------------------------
(* The slots: a tanker enters one only while another is free, and the one  *)
(* that enters or leaves is the one whose state says so.                   *)
LEMMA OccupiedFinite == TypeOK => IsFiniteSet(occupied)
<1> SUFFICES ASSUME TypeOK PROVE IsFiniteSet(occupied)
  OBVIOUS
<1>1. IsFiniteSet(Tanker)
  BY FS_Interval DEF Tanker
<1> QED
  BY <1>1, FS_Subset DEF TypeOK

LEMMA SlotsTanker ==
  ASSUME TypeOK, SlotsNeverOverbooked, NEW t \in Tanker, TankerStep(t)
  PROVE  SlotsNeverOverbooked'
<1>1. Cardinality(occupied) \in Nat
  BY OccupiedFinite, FS_CardinalityType
<1>2. CASE EnterSlot(t)
  <2>1. t \notin occupied /\ Cardinality(occupied) < ReloadSlots
    BY <1>2 DEF SlotsNeverOverbooked, EnterSlot, MayAcquire, StepFrom
  <2>2. Cardinality(occupied \union {t}) = Cardinality(occupied) + 1
    BY <2>1, OccupiedFinite, FS_AddElement
  <2>3. occupied' = {u \in Tanker : state'[u] = "reloading"}
    BY <1>2 DEF TypeOK, SlotsNeverOverbooked, EnterSlot, Transition
  <2>4. occupied' = occupied \union {t}
    BY <1>2 DEF EnterSlot
  <2>5. Cardinality(occupied') <= ReloadSlots
    BY <1>1, <2>1, <2>2, <2>4
  <2> QED
    BY <2>3, <2>5 DEF SlotsNeverOverbooked
<1>3. CASE FinishReload(t)
  <2>1. t \in occupied
    BY <1>3 DEF SlotsNeverOverbooked, FinishReload, StepFrom
  <2>2. Cardinality(occupied \ {t}) = Cardinality(occupied) - 1
    BY <2>1, OccupiedFinite, FS_RemoveElement
  <2>3. occupied' = {u \in Tanker : state'[u] = "reloading"}
    BY <1>3 DEF TypeOK, SlotsNeverOverbooked, FinishReload, ReleaseSlot, Transition
  <2>4. occupied' = occupied \ {t}
    BY <1>3 DEF FinishReload, ReleaseSlot
  <2>5. Cardinality(occupied') <= ReloadSlots
    BY <1>1, <2>2, <2>4 DEF SlotsNeverOverbooked
  <2> QED
    BY <2>3, <2>5 DEF SlotsNeverOverbooked
<1>4. CASE ~EnterSlot(t) /\ ~FinishReload(t)
  <2>1. occupied' = occupied
    BY <1>4, SlotFrame DEF slotVars, WaitForSlot
  <2>2. state'[t] = "reloading" <=> state[t] = "reloading"
    BY <1>4, MissionStep, EdgeAction DEF Edge
  <2>3. \A u \in Tanker : state'[u] = "reloading" <=> state[u] = "reloading"
    BY <2>2, OthersKept DEF Kept
  <2> QED
    BY <2>1, <2>3 DEF SlotsNeverOverbooked
<1> QED
  BY <1>2, <1>3, <1>4

-----------------------------------------------------------------------------
(* The queue: the tanker at the front leaves it with its slot, one without *)
(* a slot joins it once, and nobody in it moves before that.               *)
LEMMA QueueTanker ==
  ASSUME TypeOK, SlotsNeverOverbooked, QueueHoldsOnlyWaiters, NEW t \in Tanker, TankerStep(t)
  PROVE  QueueHoldsOnlyWaiters'
<1> USE DEF TypeOK, QueueHoldsOnlyWaiters
<1>1. CASE EnterSlot(t)
  <2>1. waiting # <<>> => Head(waiting) = t
    BY <1>1 DEF SlotsNeverOverbooked, EnterSlot, MayAcquire, StepFrom
  <2>2. CASE waiting = <<>>
    BY <1>1, <2>2 DEF EnterSlot, WithoutFront
  <2>3. CASE waiting # <<>>
    <3>1. waiting' = Tail(waiting)
      BY <1>1, <2>3 DEF EnterSlot, WithoutFront
    <3>2. 1 \in DOMAIN waiting /\ waiting[1] = t
      BY <2>1, <2>3
    <3>3. \A i \in DOMAIN waiting' : \E k \in DOMAIN waiting :
            k = i + 1 /\ k # 1 /\ i \in Nat /\ waiting'[i] = waiting[k]
      <4>1. waiting \in Seq(Tanker) /\ DOMAIN waiting = 1 .. Len(waiting) /\ Len(waiting) \in Nat
        OBVIOUS
      <4>2. /\ Tail(waiting) \in Seq(Tanker)
            /\ Len(Tail(waiting)) = Len(waiting) - 1
            /\ \A i \in 1 .. Len(Tail(waiting)) : Tail(waiting)[i] = waiting[i + 1]
        BY <2>3, <4>1, HeadTailProperties
      <4>3. DOMAIN Tail(waiting) = 1 .. Len(waiting) - 1
        BY <4>2
      <4>4. ASSUME NEW i \in 1 .. Len(waiting) - 1
            PROVE  i + 1 \in DOMAIN waiting /\ i + 1 # 1 /\ i \in Nat
        BY <4>1
      <4> QED
        BY <3>1, <4>2, <4>3, <4>4
    <3>4. ASSUME NEW i \in DOMAIN waiting'
          PROVE  state'[waiting'[i]] = "enroute_to_base" /\ near'[waiting'[i]]
      <4>1. PICK k \in DOMAIN waiting : k # 1 /\ waiting'[i] = waiting[k]
        BY <3>3
      <4>2. waiting[k] # waiting[1] /\ waiting[k] \in Tanker
        BY <3>2, <4>1
      <4>3. state[waiting[k]] = "enroute_to_base" /\ near[waiting[k]]
        BY <4>1
      <4>4. Kept(waiting[k])
        BY <3>2, <4>2, OthersKept
      <4> QED
        BY <4>1, <4>3, <4>4 DEF Kept
    <3>5. ASSUME NEW i \in DOMAIN waiting', NEW j \in DOMAIN waiting', waiting'[i] = waiting'[j]
          PROVE  i = j
      <4>1. PICK k \in DOMAIN waiting : k = i + 1 /\ i \in Nat /\ waiting'[i] = waiting[k]
        BY <3>3
      <4>2. PICK m \in DOMAIN waiting : m = j + 1 /\ j \in Nat /\ waiting'[j] = waiting[m]
        BY <3>3
      <4>3. k = m
        BY <3>5, <4>1, <4>2
      <4> QED
        BY <4>1, <4>2, <4>3
    <3> QED
      BY <3>4, <3>5
  <2> QED
    BY <2>2, <2>3
<1>2. CASE WaitForSlot(t)
  <2>1. UNCHANGED <<state, near>> /\ state[t] = "enroute_to_base" /\ near[t]
    BY <1>2 DEF WaitForSlot, StepFrom, missionVars
  <2>2. CASE \E i \in DOMAIN waiting : waiting[i] = t
    BY <1>2, <2>1, <2>2 DEF WaitForSlot, Enqueued
  <2>3. CASE ~ \E i \in DOMAIN waiting : waiting[i] = t
    <3>1. waiting' = Append(waiting, t)
      BY <1>2, <2>3 DEF WaitForSlot, Enqueued
    <3>2. \A i \in DOMAIN waiting' :
            \/ i \in DOMAIN waiting /\ waiting'[i] = waiting[i]
            \/ i = Len(waiting) + 1 /\ waiting'[i] = t
      BY <3>1
    <3>3. \A i \in DOMAIN waiting' : state'[waiting'[i]] = "enroute_to_base" /\ near'[waiting'[i]]
      BY <2>1, <3>2
    <3>4. \A i, j \in DOMAIN waiting' : waiting'[i] = waiting'[j] => i = j
      BY <2>3, <3>2
    <3> QED
      BY <3>3, <3>4
  <2> QED
    BY <2>2, <2>3
<1>3. CASE ~EnterSlot(t) /\ ~WaitForSlot(t)
  <2>1. waiting' = waiting
    BY <1>3, SlotFrame DEF slotVars, FinishReload
  <2>2. state[t] = "enroute_to_base" => state'[t] = state[t]
    BY <1>3, EdgeAction
  <2>3. state[t] = "enroute_to_base" /\ near[t] => FALSE
    BY <1>3, AtBase
  <2>4. \A i \in DOMAIN waiting : waiting[i] \in Tanker /\ waiting[i] # t
    BY <2>3
  <2>5. \A i \in DOMAIN waiting :
          state'[waiting[i]] = state[waiting[i]] /\ near'[waiting[i]] = near[waiting[i]]
    <3>1. \A u \in Tanker : u # t => state'[u] = state[u] /\ near'[u] = near[u]
      BY OthersKept DEF Kept
    <3> HIDE DEF TypeOK
    <3> QED
      BY <2>4, <3>1
  <2> HIDE DEF TypeOK
  <2> QED
    BY <2>1, <2>5
<1> QED
  BY <1>1, <1>2, <1>3

-----------------------------------------------------------------------------
(* The claims and what the cells report about them.                        *)
LEMMA ClaimTanker ==
  ASSUME TypeOK, AssignmentIsOneToOne, NEW t \in Tanker, TankerStep(t)
  PROVE  AssignmentIsOneToOne'
<1>0. \A u \in Tanker : state[u] \in Claiming =>
        target[u] \in Cell /\ assigned[target[u]] = u /\ u # None
  BY DEF TypeOK, AssignmentIsOneToOne, Tanker, None
<1>1. ASSUME NEW c \in Cell, Launch(t, c)
      PROVE  AssignmentIsOneToOne'
  <2>1. assigned[c] = None /\ t # None /\ c # None
    BY <1>1 DEF Launch, Hottest, Assignable, Tanker, Cell, None
  <2>2. state[t] = "holding" /\ state'[t] = "enroute_to_fire" /\ target'[t] = c
    BY <1>1 DEF TypeOK, Launch, StepFrom, Transition
  <2>3. /\ assigned'[c] = t
        /\ \A d \in Cell : d # c => assigned'[d] = assigned[d]
    BY <1>1 DEF TypeOK, Launch
  <2>4. ASSUME NEW u \in Tanker, state'[u] \in Claiming
        PROVE  target'[u] # None /\ assigned'[target'[u]] = u
    <3>1. CASE u = t
      BY <2>1, <2>2, <2>3, <3>1
    <3>2. CASE u # t
      <4>1. state[u] \in Claiming /\ target'[u] = target[u]
        BY <2>4, <3>2, OthersKept DEF Kept
      <4> QED
        BY <1>0, <2>1, <2>3, <4>1 DEF Cell, None
    <3> QED
      BY <3>1, <3>2
  <2>5. ASSUME NEW d \in Cell, assigned'[d] # None
        PROVE  state'[assigned'[d]] \in Claiming /\ target'[assigned'[d]] = d
    <3>1. CASE d = c
      BY <2>2, <2>3, <3>1 DEF Claiming
    <3>2. CASE d # c
      <4>1. assigned'[d] = assigned[d] /\ assigned[d] \in Tanker
        BY <2>3, <2>5, <3>2 DEF TypeOK
      <4>2. state[assigned[d]] \in Claiming /\ target[assigned[d]] = d
        BY <2>5, <4>1 DEF AssignmentIsOneToOne
      <4> QED
        BY <2>2, <4>1, <4>2, OthersKept DEF Kept, Claiming
    <3> QED
      BY <3>1, <3>2
  <2> QED
    BY <2>4, <2>5 DEF AssignmentIsOneToOne
<1>2. CASE Drop(t)
  <2>1. UNCHANGED <<state, target, assigned>>
    BY <1>2 DEF Drop
  <2> QED
    BY <2>1 DEF AssignmentIsOneToOne
<1>3. CASE FinishDrop(t)
  <2>1. state[t] = "dropping" /\ state'[t] = "egress" /\ target' = target
    BY <1>3 DEF TypeOK, FinishDrop, StepFrom, Transition
  <2>2. target[t] \in Cell /\ assigned[target[t]] = t
    BY <1>0, <2>1 DEF Claiming
  <2>3. /\ assigned'[target[t]] = None
        /\ \A d \in Cell : d # target[t] => assigned'[d] = assigned[d]
    BY <1>3, <2>2 DEF TypeOK, FinishDrop, ReleaseClaim
  <2>4. ASSUME NEW u \in Tanker, state'[u] \in Claiming
        PROVE  target'[u] # None /\ assigned'[target'[u]] = u
    <3>1. u # t
      BY <2>1, <2>4 DEF Claiming
    <3>2. state[u] \in Claiming /\ target'[u] = target[u]
      BY <2>4, <3>1, OthersKept DEF Kept
    <3> QED
      BY <1>0, <2>2, <2>3, <3>1, <3>2 DEF Cell, None
  <2>5. ASSUME NEW d \in Cell, assigned'[d] # None
        PROVE  state'[assigned'[d]] \in Claiming /\ target'[assigned'[d]] = d
    <3>1. d # target[t] /\ assigned'[d] = assigned[d] /\ assigned[d] \in Tanker
      BY <2>3, <2>5 DEF TypeOK
    <3>2. state[assigned[d]] \in Claiming /\ target[assigned[d]] = d
      BY <2>5, <3>1 DEF AssignmentIsOneToOne
    <3> QED
      BY <3>1, <3>2, OthersKept DEF Kept
  <2> QED
    BY <2>4, <2>5 DEF AssignmentIsOneToOne
<1>4. CASE ~Drop(t) /\ ~FinishDrop(t) /\ \A c \in Cell : ~Launch(t, c)
  <2>1. assigned' = assigned
    BY <1>4, CellFrame DEF cellVars
  <2>2. state'[t] \in Claiming <=> state[t] \in Claiming
    BY <1>4, MissionStep, EdgeAction DEF Edge, Claiming
  <2>3. state[t] \in Claiming => target'[t] = target[t]
    BY <1>4 DEF TankerStep, Hold, FlyToFire, FlyToBase, ArriveOnStation, Circle,
       BeginDrop, FlyOut, HeadForBase, EnterSlot, WaitForSlot, Reload, FinishReload,
       StepFrom, missionVars, Claiming
  <2>4. \A u \in Tanker : /\ state'[u] \in Claiming <=> state[u] \in Claiming
                          /\ state[u] \in Claiming => target'[u] = target[u]
    BY <2>2, <2>3, OthersKept DEF Kept
  <2>5. \A c \in Cell : assigned[c] # None => assigned[c] \in Tanker
    BY DEF TypeOK
  <2> QED
    BY <2>1, <2>4, <2>5 DEF AssignmentIsOneToOne
<1> QED
  BY <1>1, <1>2, <1>3, <1>4

LEMMA StatusTanker ==
  ASSUME TypeOK, AssignmentIsOneToOne, StatusMatchesClaim, NEW t \in Tanker, TankerStep(t)
  PROVE  StatusMatchesClaim'
<1>0. \A u \in Tanker : state[u] \in Claiming =>
        target[u] \in Cell /\ assigned[target[u]] = u /\ u # None
  BY DEF TypeOK, AssignmentIsOneToOne, Tanker, None
<1>1. ASSUME NEW c \in Cell, Launch(t, c)
      PROVE  StatusMatchesClaim'
  <2>1. \A d \in Cell : d # c => assigned'[d] = assigned[d] /\ status'[d] = status[d]
    BY <1>1 DEF TypeOK, Launch
  <2>2. assigned'[c] = t /\ status'[c] = "assigned" /\ t # None
    BY <1>1 DEF TypeOK, Launch, Tanker, None
  <2>3. state[t] = "holding"
    BY <1>1 DEF Launch, StepFrom
  <2>4. ASSUME NEW d \in Cell, d # c, status[d] = "dropping"
        PROVE  state'[assigned[d]] = "dropping"
    <3>1. assigned[d] \in Tanker /\ state[assigned[d]] = "dropping"
      BY <2>4 DEF TypeOK, StatusMatchesClaim
    <3> QED
      BY <2>3, <3>1, OthersKept DEF Kept
  <2> QED
    BY <2>1, <2>2, <2>4 DEF StatusMatchesClaim
<1>2. CASE Drop(t)
  <2>1. state[t] = "dropping" /\ UNCHANGED <<state, assigned>>
    BY <1>2 DEF Drop, StepFrom
  <2>2. target[t] \in Cell /\ assigned[target[t]] = t /\ t # None
    BY <1>0, <2>1 DEF Claiming
  <2>3. /\ status'[target[t]] = "dropping"
        /\ \A d \in Cell : d # target[t] => status'[d] = status[d]
    BY <1>2, <2>2 DEF TypeOK, Drop
  <2> QED
    BY <2>1, <2>2, <2>3 DEF StatusMatchesClaim
<1>3. CASE FinishDrop(t)
  <2>1. state[t] = "dropping"
    BY <1>3 DEF FinishDrop, StepFrom
  <2>2. target[t] \in Cell /\ assigned[target[t]] = t
    BY <1>0, <2>1 DEF Claiming
  <2>3. /\ assigned'[target[t]] = None
        /\ \A d \in Cell : d # target[t] => assigned'[d] = assigned[d]
    BY <1>3, <2>2 DEF TypeOK, FinishDrop, ReleaseClaim
  <2>4. /\ status'[target[t]] \in {"contained", "available"}
        /\ \A d \in Cell : d # target[t] => status'[d] = status[d]
    BY <1>3, <2>2 DEF TypeOK, FinishDrop
  <2>5. ASSUME NEW d \in Cell, d # target[t], status[d] = "dropping"
        PROVE  state'[assigned[d]] = "dropping"
    <3>1. assigned[d] \in Tanker /\ target[assigned[d]] = d /\ state[assigned[d]] = "dropping"
      BY <2>5 DEF TypeOK, StatusMatchesClaim, AssignmentIsOneToOne
    <3> QED
      BY <2>5, <3>1, OthersKept DEF Kept
  <2> QED
    BY <2>3, <2>4, <2>5 DEF StatusMatchesClaim
<1>4. CASE ~Drop(t) /\ ~FinishDrop(t) /\ \A c \in Cell : ~Launch(t, c)
  <2>1. UNCHANGED <<assigned, status>>
    BY <1>4, CellFrame DEF cellVars
  <2>2. state[t] # "dropping"
    BY <1>4, EdgeAction
  <2>3. ASSUME NEW d \in Cell, status[d] = "dropping"
        PROVE  state'[assigned[d]] = "dropping"
    BY <2>2, <2>3, OthersKept DEF Kept, TypeOK, StatusMatchesClaim
  <2> QED
    BY <2>1, <2>3 DEF StatusMatchesClaim
<1> QED
  BY <1>1, <1>2, <1>3, <1>4

-----------------------------------------------------------------------------
(* The load.  LoadMatchesMission and DropProgress of one tanker, so that   *)
(* each step speaks of the tanker it is about.                             *)
LoadOK(u) ==
  /\ state[u] \in {"holding", "enroute_to_fire", "on_station"} =>
       retardant[u] = DropTicks
  /\ state[u] \in {"egress", "enroute_to_base", "reloading"} =>
       retardant[u] <= 1 /\ retardant[u] < DropTicks

DropOK(u) ==
  state[u] = "dropping" =>
    /\ retardant[u] = DropTicks - SharesSpent(u)
    /\ turn > u => age[u] = 0 \/ age[u] + 1 < DropTicks
    /\ turn <= u => age[u] >= 1 /\ (age[u] = 1 \/ age[u] < DropTicks)

LEMMA LoadPointwise ==
  LoadMatchesMission /\ DropProgress <=> \A u \in Tanker : LoadOK(u) /\ DropOK(u)
BY DEF LoadMatchesMission, DropProgress, LoadOK, DropOK

LEMMA LoadTanker ==
  ASSUME TypeOK, \A u \in Tanker : LoadOK(u) /\ DropOK(u), NEW t \in Tanker, TankerStep(t),
         NEW u \in Tanker
  PROVE  LoadOK(u)' /\ DropOK(u)'
<1>0. /\ turn = t /\ turn' = t + 1 /\ t \in Nat /\ u \in Nat
      /\ age[u] \in Nat /\ retardant[u] \in Nat /\ state[u] \in State
      /\ age[t] \in Nat /\ retardant[t] \in Nat
  BY AgeCapBounds, SMTT(30) DEF TypeOK, Tanker, TankerStep, Launch, Hold, FlyToFire,
     FlyToBase, ArriveOnStation, Circle, BeginDrop, Drop, FinishDrop, FlyOut, HeadForBase,
     Reload, EnterSlot, WaitForSlot, FinishReload, StepFrom
<1>1. CASE u # t
  <2>1. Kept(u)
    BY <1>1, OthersKept
  <2>2. turn > u <=> turn' > u
    BY <1>0, <1>1
  <2>3. turn <= u <=> turn' <= u
    BY <1>0, <1>1
  <2> QED
    BY <2>1, <2>2, <2>3 DEF Kept, LoadOK, DropOK, SharesSpent
<1>2. CASE u = t /\ BeginDrop(t)
  <2>1. state'[t] = "dropping" /\ age'[t] = 0 /\ retardant' = retardant /\ state[t] = "on_station"
    BY <1>2 DEF BeginDrop, Transition, StepFrom, TypeOK
  <2> QED
    BY <1>0, <1>2, <2>1 DEF LoadOK, DropOK, SharesSpent
<1>3. CASE u = t /\ Drop(t)
  <2>1. /\ state[t] = "dropping" /\ state'[t] = "dropping" /\ age' = age
        /\ age[t] + 1 < DropTicks
    BY <1>0, <1>3 DEF Drop, StepFrom, LastShare
  <2>2. retardant'[t] = IF retardant[t] > 0 THEN retardant[t] - 1 ELSE 0
    BY <1>3 DEF Drop, SpendShare, TypeOK
  <2>3. retardant[t] = DropTicks - (age[t] - 1) /\ age[t] >= 1
    BY <1>0, <2>1 DEF DropOK, SharesSpent
  <2>4. retardant'[t] = DropTicks - age[t]
    BY <1>0, <2>1, <2>2, <2>3
  <2> QED
    BY <1>0, <1>3, <2>1, <2>4 DEF LoadOK, DropOK, SharesSpent
<1>4. CASE u = t /\ FinishDrop(t)
  <2>1. state[t] = "dropping" /\ state'[t] = "egress" /\ age[t] + 1 >= DropTicks
    BY <1>4 DEF FinishDrop, StepFrom, LastShare, Transition, TypeOK
  <2>2. retardant'[t] = IF retardant[t] > 0 THEN retardant[t] - 1 ELSE 0
    BY <1>4 DEF FinishDrop, SpendShare, TypeOK
  <2>3. retardant[t] = DropTicks - (age[t] - 1) /\ age[t] >= 1
    BY <1>0, <2>1 DEF DropOK, SharesSpent
  <2>4. retardant'[t] <= 1 /\ retardant'[t] < DropTicks
    BY <1>0, <2>1, <2>2, <2>3
  <2> QED
    BY <1>4, <2>1, <2>4 DEF LoadOK, DropOK
<1>5. CASE u = t /\ FinishReload(t)
  <2>1. state'[t] = "holding" /\ retardant'[t] = DropTicks
    BY <1>5 DEF FinishReload, Refill, Transition, TypeOK
  <2> QED
    BY <1>5, <2>1 DEF LoadOK, DropOK
<1>6. CASE u = t /\ ~BeginDrop(t) /\ ~Drop(t) /\ ~FinishDrop(t) /\ ~FinishReload(t)
  <2>1. retardant' = retardant
    BY <1>6 DEF TankerStep, Launch, Hold, FlyToFire, FlyToBase, ArriveOnStation, Circle,
       FlyOut, HeadForBase, Reload, EnterSlot, WaitForSlot, missionVars
  <2>2. state[t] # "dropping"
    BY <1>6, EdgeAction
  <2>3. \/ state'[t] = state[t]
        \/ <<state[t], state'[t]>> \in
             {<<"holding", "enroute_to_fire">>, <<"enroute_to_fire", "on_station">>,
              <<"egress", "enroute_to_base">>, <<"enroute_to_base", "reloading">>}
    BY <1>6, <2>2, MissionStep, EdgeAction DEF Edge
  <2> QED
    BY <1>6, <2>1, <2>2, <2>3 DEF LoadOK, DropOK
<1> QED
  BY <1>1, <1>2, <1>3, <1>4, <1>5, <1>6

LEMMA LoadEndTick ==
  ASSUME TypeOK, NEW u \in Tanker, LoadOK(u), DropOK(u), EndTick
  PROVE  LoadOK(u)' /\ DropOK(u)'
<1>0. /\ turn = NumTankers + 1 /\ turn' = 0 /\ u \in Nat /\ turn > u /\ ~(turn' > u)
      /\ age[u] \in Nat /\ retardant[u] \in Nat
      /\ state' = state /\ retardant' = retardant
      /\ age'[u] = IF age[u] < AgeCap THEN age[u] + 1 ELSE AgeCap
  BY AgeCapBounds DEF TypeOK, EndTick, Tanker
<1>1. LoadOK(u)'
  BY <1>0 DEF LoadOK
<1>2. CASE state[u] = "dropping"
  <2>1. retardant[u] = DropTicks - age[u] /\ (age[u] = 0 \/ age[u] + 1 < DropTicks)
    BY <1>0, <1>2 DEF DropOK, SharesSpent
  <2>2. age'[u] = age[u] + 1
    BY <1>0, <2>1, AgeCapBounds
  <2> QED
    BY <1>0, <1>1, <2>1, <2>2 DEF DropOK, SharesSpent
<1>3. CASE state[u] # "dropping"
  BY <1>0, <1>1, <1>3 DEF DropOK
<1> QED
  BY <1>2, <1>3

-----------------------------------------------------------------------------
(* The launches, two tankers at a time.                                    *)
ProgressOK(u) ==
  state[u] = "enroute_to_fire" => launchWait + age[u] >= LaunchTicks

SpacedOK(u, v) ==
  /\ u # v
  /\ state[u] = "enroute_to_fire" /\ state[v] = "enroute_to_fire"
  /\ age[u] < AgeCap
  /\ age[v] <= age[u]
  => age[u] - age[v] >= LaunchTicks

LEMMA LaunchPointwise ==
  LaunchesAreSpaced /\ LaunchProgress
    <=> \A u, v \in Tanker : ProgressOK(u) /\ SpacedOK(u, v)
BY DEF LaunchesAreSpaced, LaunchProgress, ProgressOK, SpacedOK

LEMMA LaunchTanker ==
  ASSUME TypeOK, \A u, v \in Tanker : ProgressOK(u) /\ SpacedOK(u, v),
         NEW t \in Tanker, TankerStep(t), NEW u \in Tanker, NEW v \in Tanker
  PROVE  ProgressOK(u)' /\ SpacedOK(u, v)'
<1>0. age \in [Tanker -> Nat] /\ launchWait \in Nat
  BY AgeCapBounds DEF TypeOK
<1>1. ASSUME NEW c \in Cell, Launch(t, c) PROVE ProgressOK(u)' /\ SpacedOK(u, v)'
  <2>1. launchWait = 0 /\ launchWait' = LaunchTicks /\ age'[t] = 0
    BY <1>1 DEF Launch, LaunchDue, Transition, TypeOK
  <2>2. \A w \in Tanker : w # t => state'[w] = state[w] /\ age'[w] = age[w]
    BY OthersKept DEF Kept
  <2>3. \A w \in Tanker : w # t /\ state[w] = "enroute_to_fire" => age[w] >= LaunchTicks
    BY <1>0, <2>1 DEF ProgressOK
  <2>4. age'[u] \in Nat /\ age'[v] \in Nat
    BY <1>0, <2>1, <2>2
  <2>5. ProgressOK(u)'
    BY <2>1, <2>4 DEF ProgressOK
  <2>6. CASE u = t
    BY <1>0, <2>1, <2>2, <2>3, <2>5, <2>6 DEF SpacedOK
  <2>7. CASE v = t /\ u # t
    BY <1>0, <2>1, <2>2, <2>3, <2>5, <2>7 DEF SpacedOK
  <2>8. CASE u # t /\ v # t
    BY <2>2, <2>5, <2>8 DEF SpacedOK
  <2> QED
    BY <2>6, <2>7, <2>8
<1>2. CASE \A c \in Cell : ~Launch(t, c)
  <2>1. launchWait' = launchWait
    BY <1>2 DEF TankerStep, Hold, FlyToFire, FlyToBase, ArriveOnStation, Circle, BeginDrop,
       Drop, FinishDrop, FlyOut, HeadForBase, Reload, EnterSlot, WaitForSlot, FinishReload
  <2>2. state'[t] = "enroute_to_fire" => state[t] = "enroute_to_fire" /\ age'[t] = age[t]
    BY <1>2, MissionStep, EdgeAction DEF Edge
  <2>3. \A w \in Tanker : state'[w] = "enroute_to_fire" =>
          state[w] = "enroute_to_fire" /\ age'[w] = age[w]
    BY <2>2, OthersKept DEF Kept
  <2> QED
    BY <2>1, <2>3 DEF ProgressOK, SpacedOK
<1> QED
  BY <1>1, <1>2

LEMMA LaunchEndTick ==
  ASSUME TypeOK, NEW u \in Tanker, NEW v \in Tanker, ProgressOK(u), SpacedOK(u, v), EndTick
  PROVE  ProgressOK(u)' /\ SpacedOK(u, v)'
<1>0. /\ age[u] \in 0 .. AgeCap /\ age[v] \in 0 .. AgeCap /\ launchWait \in 0 .. LaunchTicks
      /\ state' = state
      /\ age'[u] = IF age[u] < AgeCap THEN age[u] + 1 ELSE AgeCap
      /\ age'[v] = IF age[v] < AgeCap THEN age[v] + 1 ELSE AgeCap
      /\ launchWait' = IF launchWait > 0 THEN launchWait - 1 ELSE 0
  BY DEF TypeOK, EndTick
<1>1. ProgressOK(u)'
  BY <1>0, AgeCapBounds DEF ProgressOK
<1>2. SpacedOK(u, v)'
  BY <1>0, AgeCapBounds DEF SpacedOK
<1> QED
  BY <1>1, <1>2

-----------------------------------------------------------------------------
(* The timers, one tanker at a time.                                       *)
TimerOK(u) ==
  state[u] \in Timed =>
    IF turn > u THEN age[u] < Longer(1, TimeIn(state[u]))
                ELSE age[u] <= Longer(1, TimeIn(state[u]))

LEMMA TimerPointwise == TimersExpire <=> \A u \in Tanker : TimerOK(u)
BY DEF TimersExpire, TimerOK

(* The times are integers, and a timed state is never left at age 0.       *)
LEMMA TimeBounds ==
  \A s \in Timed : TimeIn(s) \in Int /\ Longer(1, TimeIn(s)) \in Int /\ Longer(1, TimeIn(s)) >= 1
BY DEF Timed, TimeIn, Longer

(* A tanker that takes its turn and stays in a timed state still has time. *)
LEMMA StaysInTime ==
  ASSUME TypeOK, NEW t \in Tanker, TankerStep(t), state[t] \in Timed, state'[t] = state[t]
  PROVE  age[t] < TimeIn(state[t])
<1>1. CASE state[t] = "on_station"
  <2>1. Circle(t)
    BY <1>1, MissionStep DEF TankerStep, Launch, Hold, FlyToFire, FlyToBase, ArriveOnStation,
       BeginDrop, Drop, FinishDrop, FlyOut, HeadForBase, Reload, EnterSlot, WaitForSlot,
       FinishReload, StepFrom, Transition, TypeOK
  <2> QED
    BY <1>1, <2>1 DEF Circle, TimeIn
<1>2. CASE state[t] = "dropping"
  <2>1. Drop(t)
    <3>1. FinishDrop(t) => state'[t] = "egress"
      BY DEF FinishDrop, Transition, TypeOK
    <3> QED
      BY <1>2, <3>1, EdgeAction
  <2>2. age[t] \in Nat
    BY AgeCapBounds DEF TypeOK
  <2> QED
    BY <1>2, <2>1, <2>2 DEF Drop, LastShare, TimeIn
<1>3. CASE state[t] = "egress"
  <2>1. FlyOut(t)
    BY <1>3, MissionStep DEF TankerStep, Launch, Hold, FlyToFire, FlyToBase, ArriveOnStation,
       Circle, BeginDrop, Drop, FinishDrop, HeadForBase, Reload, EnterSlot, WaitForSlot,
       FinishReload, StepFrom, Transition, TypeOK
  <2> QED
    BY <1>3, <2>1 DEF FlyOut, TimeIn
<1>4. CASE state[t] = "reloading"
  <2>1. Reload(t)
    BY <1>4, MissionStep DEF TankerStep, Launch, Hold, FlyToFire, FlyToBase, ArriveOnStation,
       Circle, BeginDrop, Drop, FinishDrop, FlyOut, HeadForBase, EnterSlot, WaitForSlot,
       FinishReload, StepFrom, Transition, TypeOK
  <2> QED
    BY <1>4, <2>1 DEF Reload, TimeIn
<1> QED
  BY <1>1, <1>2, <1>3, <1>4 DEF Timed

LEMMA Turn ==
  ASSUME TypeOK, NEW t \in Tanker, TankerStep(t)
  PROVE  turn = t /\ turn' = t + 1 /\ base' = base
BY SMTT(30) DEF TankerStep, Launch, Hold, FlyToFire, FlyToBase, ArriveOnStation, Circle,
   BeginDrop, Drop, FinishDrop, FlyOut, HeadForBase, Reload, EnterSlot, WaitForSlot,
   FinishReload, StepFrom

LEMMA TimersTanker ==
  ASSUME TypeOK, NEW t \in Tanker, TankerStep(t), NEW u \in Tanker, TimerOK(u)
  PROVE  TimerOK(u)'
<1>0. turn = t /\ turn' = t + 1 /\ t \in Nat /\ u \in Nat
  BY Turn DEF Tanker
<1>1. CASE u # t
  <2>1. Kept(u)
    BY <1>1, OthersKept
  <2>2. turn > u <=> turn' > u
    BY <1>0, <1>1
  <2> QED
    BY <2>1, <2>2 DEF Kept, TimerOK
<1>2. CASE u = t /\ state'[t] = state[t]
  <2>1. SUFFICES ASSUME state[t] \in Timed
                 PROVE  age'[t] < Longer(1, TimeIn(state[t]))
    BY <1>0, <1>2, <2>1 DEF TimerOK
  <2>2. age'[t] = age[t]
    BY <1>2, MissionStep DEF Edge
  <2>3. age[t] < TimeIn(state[t])
    BY <1>2, <2>1, StaysInTime
  <2>4. age[t] \in Nat
    BY AgeCapBounds DEF TypeOK
  <2> QED
    BY <2>1, <2>2, <2>3, <2>4, TimeBounds DEF Longer
<1>3. CASE u = t /\ state'[t] # state[t]
  <2>1. age'[t] = 0
    BY <1>3, MissionStep
  <2>2. turn' > t
    BY <1>0
  <2> QED
    BY <1>3, <2>1, <2>2, TimeBounds DEF TimerOK
<1> QED
  BY <1>1, <1>2, <1>3

LEMMA TimersEndTick ==
  ASSUME TypeOK, NEW u \in Tanker, TimerOK(u), EndTick
  PROVE  TimerOK(u)'
<1>0. /\ turn > u /\ ~(turn' > u) /\ state' = state /\ age[u] \in Nat
      /\ age'[u] = IF age[u] < AgeCap THEN age[u] + 1 ELSE AgeCap
  BY AgeCapBounds DEF TypeOK, EndTick, Tanker
<1>1. age'[u] <= age[u] + 1 /\ age'[u] \in Nat
  BY <1>0, AgeCapBounds DEF TypeOK
<1>2. SUFFICES ASSUME state[u] \in Timed
               PROVE  age'[u] <= Longer(1, TimeIn(state[u]))
  BY <1>0 DEF TimerOK
<1>3. age[u] < Longer(1, TimeIn(state[u]))
  BY <1>0, <1>2 DEF TimerOK
<1> QED
  BY <1>0, <1>1, <1>2, <1>3, TimeBounds

-----------------------------------------------------------------------------
(* The front of the queue as the last frame showed it.                     *)
LEMMA FrontTanker ==
  ASSUME TypeOK, SlotsNeverOverbooked, QueueHoldsOnlyWaiters, FrontIsServed, FrontProgress,
         NEW t \in Tanker, TankerStep(t), FreeInFrame
  PROVE  /\ turn' > Head(base.queue) => Head(base.queue) \in occupied'
         /\ turn' <= Head(base.queue) =>
              /\ occupied' \subseteq base.occupied
              /\ waiting' # <<>>
              /\ Head(waiting') = Head(base.queue)
<1> DEFINE front == Head(base.queue)
<1>0. /\ turn = t /\ turn' = t + 1 /\ t \in Nat
      /\ front \in Tanker /\ front \in Nat
  <2>1. turn = t /\ turn' = t + 1
    BY Turn
  <2>2. base.queue \in Seq(Tanker) /\ base.queue # <<>>
    BY DEF TypeOK, FreeInFrame
  <2>3. front \in Tanker
    BY <2>2
  <2> QED
    BY <2>1, <2>3 DEF Tanker
<1>1. CASE t > front
  <2>1. front \in occupied /\ t # front /\ turn' > front
    BY <1>0, <1>1 DEF FrontIsServed
  <2>2. front \in occupied'
    BY <2>1, SlotFrame DEF slotVars, EnterSlot, WaitForSlot, FinishReload, ReleaseSlot
  <2> QED
    BY <1>0, <2>1, <2>2
<1>2. ASSUME t <= front
      PROVE  /\ occupied \subseteq base.occupied /\ waiting # <<>> /\ Head(waiting) = front
             /\ Cardinality(occupied) < ReloadSlots
             /\ front \notin occupied /\ state[front] = "enroute_to_base" /\ near[front]
  <2>1. occupied \subseteq base.occupied /\ waiting # <<>> /\ Head(waiting) = front
    BY <1>0, <1>2 DEF FrontProgress
  <2>2. IsFiniteSet(base.occupied)
    <3>1. IsFiniteSet(Tanker)
      BY FS_Interval DEF Tanker
    <3>2. base.occupied \subseteq Tanker
      BY DEF TypeOK
    <3> QED
      BY <3>1, <3>2, FS_Subset
  <2>3. /\ Cardinality(occupied) <= Cardinality(base.occupied)
        /\ Cardinality(occupied) \in Nat /\ Cardinality(base.occupied) \in Nat
    BY <2>1, <2>2, FS_Subset, FS_CardinalityType
  <2>4. Cardinality(occupied) < ReloadSlots
    BY <2>3 DEF FreeInFrame
  <2>5. 1 \in DOMAIN waiting /\ waiting[1] = front
    BY <2>1 DEF TypeOK
  <2>6. state[front] = "enroute_to_base" /\ near[front]
    BY <2>5 DEF QueueHoldsOnlyWaiters
  <2> QED
    BY <2>1, <2>4, <2>6 DEF SlotsNeverOverbooked
<1>3. CASE t = front
  <2>1. MayAcquire(t)
    BY <1>0, <1>2, <1>3 DEF MayAcquire
  <2>2. EnterSlot(t)
    <3>1. state[t] = "enroute_to_base" /\ near[t]
      BY <1>0, <1>2, <1>3
    <3> QED
      BY <2>1, <3>1, AtBase DEF WaitForSlot
  <2>3. front \in occupied'
    BY <1>3, <2>2 DEF EnterSlot
  <2> QED
    BY <1>0, <1>3, <2>3
<1>4. CASE t < front
  <2>1. /\ occupied \subseteq base.occupied /\ waiting # <<>> /\ Head(waiting) = front
        /\ t # front /\ turn' <= front
    BY <1>0, <1>2, <1>4
  <2>2. ~EnterSlot(t)
    BY <2>1 DEF EnterSlot, MayAcquire, StepFrom, SlotsNeverOverbooked
  <2>3. occupied' \subseteq occupied
    BY <2>2, SlotFrame DEF slotVars, WaitForSlot, FinishReload, ReleaseSlot
  <2>4. waiting' # <<>> /\ Head(waiting') = Head(waiting)
    <3>1. CASE waiting' = waiting
      BY <2>1, <3>1
    <3>2. CASE waiting' = Append(waiting, t)
      <4>1. waiting \in Seq(Tanker) /\ Len(waiting) >= 1
        BY <2>1 DEF TypeOK
      <4>2. Append(waiting, t) # <<>> /\ Append(waiting, t)[1] = waiting[1]
        BY <4>1
      <4> QED
        BY <3>2, <4>2
    <3>3. waiting' = waiting \/ waiting' = Append(waiting, t)
      BY <2>2, SlotFrame DEF slotVars, WaitForSlot, Enqueued, FinishReload
    <3> QED
      BY <3>1, <3>2, <3>3
  <2> QED
    BY <1>0, <2>1, <2>3, <2>4
<1> QED
  BY <1>0, <1>1, <1>3, <1>4

-----------------------------------------------------------------------------
(* All of it together.                                                     *)
LEMMA InvInit == Init => Inv
<1> SUFFICES ASSUME Init PROVE Inv
  OBVIOUS
<1>1. TypeOK
  BY TypeInit
<1>2. \A t \in Tanker : state[t] = "holding" /\ retardant[t] = DropTicks
  BY DEF Init
<1>3. SlotsNeverOverbooked
  <2>1. Cardinality(occupied) = 0
    BY FS_EmptySet DEF Init
  <2> QED
    BY <1>2, <2>1 DEF Init, SlotsNeverOverbooked
<1>4. QueueHoldsOnlyWaiters /\ PublishedBaseIsCurrent
  BY <1>2 DEF Init, QueueHoldsOnlyWaiters, PublishedBaseIsCurrent
<1>5. AssignmentIsOneToOne /\ StatusMatchesClaim
  BY <1>2 DEF Init, AssignmentIsOneToOne, StatusMatchesClaim, Claiming
<1>6. LoadMatchesMission /\ DropProgress
  BY <1>2 DEF LoadMatchesMission, DropProgress
<1>7. LaunchesAreSpaced /\ LaunchProgress
  BY <1>2 DEF LaunchesAreSpaced, LaunchProgress
<1>8. TimersExpire
  BY <1>2 DEF TimersExpire, Timed
<1>9. FrontIsServed /\ FrontProgress
  BY DEF Init, FrontIsServed, FrontProgress, FreeInFrame
<1> QED
  BY <1>1, <1>3, <1>4, <1>5, <1>6, <1>7, <1>8, <1>9 DEF Inv

LEMMA InvTanker ==
  ASSUME Inv, NEW t \in Tanker, TankerStep(t)
  PROVE  Inv'
<1>1. TypeOK'
  BY TypeTanker DEF Inv
<1>2. SlotsNeverOverbooked' /\ QueueHoldsOnlyWaiters'
  BY SlotsTanker, QueueTanker DEF Inv
<1>3. AssignmentIsOneToOne' /\ StatusMatchesClaim'
  BY ClaimTanker, StatusTanker DEF Inv
<1>4. LoadMatchesMission' /\ DropProgress'
  <2>1. \A u \in Tanker : LoadOK(u) /\ DropOK(u)
    BY LoadPointwise DEF Inv
  <2>2. \A u \in Tanker : LoadOK(u)' /\ DropOK(u)'
    BY <2>1, LoadTanker DEF Inv
  <2> QED
    BY <2>2 DEF LoadMatchesMission, DropProgress, LoadOK, DropOK
<1>5. LaunchesAreSpaced' /\ LaunchProgress'
  <2>1. \A u, v \in Tanker : ProgressOK(u) /\ SpacedOK(u, v)
    BY LaunchPointwise DEF Inv
  <2>2. \A u, v \in Tanker : ProgressOK(u)' /\ SpacedOK(u, v)'
    BY <2>1, LaunchTanker DEF Inv
  <2> QED
    BY <2>2 DEF LaunchesAreSpaced, LaunchProgress, ProgressOK, SpacedOK
<1>6. turn' # 0
  BY DEF Tanker, TankerStep, Launch, Hold, FlyToFire, FlyToBase,
     ArriveOnStation, Circle, BeginDrop, Drop, FinishDrop, FlyOut, HeadForBase, Reload,
     EnterSlot, WaitForSlot, FinishReload, StepFrom
<1>7. TimersExpire'
  <2>1. \A u \in Tanker : TimerOK(u)
    BY TimerPointwise DEF Inv
  <2>2. \A u \in Tanker : TimerOK(u)'
    BY <2>1, TimersTanker DEF Inv
  <2> QED
    BY <2>2 DEF TimersExpire, TimerOK
<1>8. FrontIsServed' /\ FrontProgress'
  <2>1. base' = base
    BY Turn DEF Inv
  <2> QED
    BY <2>1, FrontTanker DEF Inv, FrontIsServed, FrontProgress, FreeInFrame
<1> QED
  BY <1>1, <1>2, <1>3, <1>4, <1>5, <1>6, <1>7, <1>8 DEF Inv, PublishedBaseIsCurrent

LEMMA InvBeginTick == Inv /\ BeginTick => Inv'
<1> SUFFICES ASSUME Inv, BeginTick PROVE Inv'
  OBVIOUS
<1>0. /\ turn = 0 /\ turn' = 1
      /\ UNCHANGED <<state, age, retardant, target, near, assigned, status, occupied, waiting,
                     launchWait, base>>
  BY DEF BeginTick, missionVars, slotVars
<1>1. TypeOK'
  BY TypeNext DEF Inv, Next
<1>2. SlotsNeverOverbooked' /\ QueueHoldsOnlyWaiters' /\ PublishedBaseIsCurrent'
  BY <1>0 DEF Inv, SlotsNeverOverbooked, QueueHoldsOnlyWaiters, PublishedBaseIsCurrent
<1>3. AssignmentIsOneToOne' /\ StatusMatchesClaim'
  BY <1>0 DEF Inv, AssignmentIsOneToOne, StatusMatchesClaim
<1>4. LoadMatchesMission' /\ DropProgress'
  <2>1. ASSUME NEW u \in Tanker PROVE ~(turn > u) /\ ~(turn' > u) /\ turn <= u /\ turn' <= u
    BY <1>0 DEF Tanker
  <2> QED
    BY <1>0, <2>1 DEF Inv, LoadMatchesMission, DropProgress, SharesSpent
<1>5. LaunchesAreSpaced' /\ LaunchProgress'
  BY <1>0 DEF Inv, LaunchesAreSpaced, LaunchProgress
<1>6. TimersExpire'
  <2>1. ASSUME NEW u \in Tanker PROVE ~(turn > u) /\ ~(turn' > u)
    BY <1>0 DEF Tanker
  <2> QED
    BY <1>0, <2>1 DEF Inv, TimersExpire
<1>7. FrontIsServed' /\ FrontProgress'
  <2>1. ASSUME FreeInFrame
        PROVE  /\ Head(base.queue) \in Tanker /\ ~(turn' > Head(base.queue))
               /\ occupied \subseteq base.occupied
               /\ waiting # <<>> /\ Head(waiting) = Head(base.queue)
    <3>1. Head(base.queue) \in Tanker
      BY <2>1 DEF Inv, TypeOK, FreeInFrame
    <3>2. turn <= Head(base.queue) /\ ~(turn' > Head(base.queue))
      BY <1>0, <3>1 DEF Tanker
    <3> QED
      BY <2>1, <3>1, <3>2 DEF Inv, FrontProgress
  <2> QED
    BY <1>0, <2>1 DEF FrontIsServed, FrontProgress, FreeInFrame
<1> QED
  BY <1>1, <1>2, <1>3, <1>4, <1>5, <1>6, <1>7 DEF Inv

LEMMA InvEndTick == Inv /\ EndTick => Inv'
<1> SUFFICES ASSUME Inv, EndTick PROVE Inv'
  OBVIOUS
<1>0. UNCHANGED <<state, retardant, target, near, intensity, assigned, status, occupied, waiting>>
  BY DEF EndTick, cellVars, slotVars
<1>1. TypeOK'
  BY TypeNext DEF Inv, Next
<1>2. SlotsNeverOverbooked' /\ QueueHoldsOnlyWaiters'
  BY <1>0 DEF Inv, SlotsNeverOverbooked, QueueHoldsOnlyWaiters
<1>3. AssignmentIsOneToOne' /\ StatusMatchesClaim'
  BY <1>0 DEF Inv, AssignmentIsOneToOne, StatusMatchesClaim
<1>4. LoadMatchesMission' /\ DropProgress'
  <2>1. \A u \in Tanker : LoadOK(u) /\ DropOK(u)
    BY LoadPointwise DEF Inv
  <2>2. \A u \in Tanker : LoadOK(u)' /\ DropOK(u)'
    BY <2>1, LoadEndTick DEF Inv
  <2> QED
    BY <2>2 DEF LoadMatchesMission, DropProgress, LoadOK, DropOK
<1>5. LaunchesAreSpaced' /\ LaunchProgress'
  <2>1. \A u, v \in Tanker : ProgressOK(u) /\ SpacedOK(u, v)
    BY LaunchPointwise DEF Inv
  <2>2. \A u, v \in Tanker : ProgressOK(u)' /\ SpacedOK(u, v)'
    BY <2>1, LaunchEndTick DEF Inv
  <2> QED
    BY <2>2 DEF LaunchesAreSpaced, LaunchProgress, ProgressOK, SpacedOK
<1>6. PublishedBaseIsCurrent'
  BY <1>0 DEF Inv, SlotsNeverOverbooked, PublishedBaseIsCurrent, EndTick, PublishBase
<1>7. TimersExpire'
  <2>1. \A u \in Tanker : TimerOK(u)
    BY TimerPointwise DEF Inv
  <2>2. \A u \in Tanker : TimerOK(u)'
    BY <2>1, TimersEndTick DEF Inv
  <2> QED
    BY <2>2 DEF TimersExpire, TimerOK
<1>8. FrontIsServed' /\ FrontProgress'
  <2>1. turn' = 0 /\ base'.occupied = occupied /\ base'.queue = waiting
    BY DEF EndTick, PublishBase
  <2>2. waiting \in Seq(Tanker)
    BY DEF Inv, TypeOK
  <2>3. FrontIsServed'
    <3>1. ASSUME waiting # <<>> PROVE ~(turn' > Head(waiting))
      BY <2>1, <2>2, <3>1 DEF Tanker
    <3> QED
      BY <2>1, <3>1 DEF FrontIsServed, FreeInFrame
  <2>4. FrontProgress'
    BY <1>0, <2>1 DEF FrontProgress, FreeInFrame
  <2> QED
    BY <2>3, <2>4
<1> QED
  BY <1>1, <1>2, <1>3, <1>4, <1>5, <1>6, <1>7, <1>8 DEF Inv

LEMMA InvNext == Inv /\ [Next]_vars => Inv'
<1>1. ASSUME Inv, UNCHANGED vars PROVE Inv'
  <2> USE <1>1 DEF vars, missionVars, cellVars, slotVars, Inv
  <2>1. TypeOK' /\ SlotsNeverOverbooked' /\ QueueHoldsOnlyWaiters'
    BY DEF TypeOK, SlotsNeverOverbooked, QueueHoldsOnlyWaiters
  <2>2. AssignmentIsOneToOne' /\ StatusMatchesClaim'
    BY DEF AssignmentIsOneToOne, StatusMatchesClaim
  <2>3. LoadMatchesMission' /\ DropProgress' /\ TimersExpire'
    BY DEF LoadMatchesMission, DropProgress, SharesSpent, TimersExpire
  <2>4. LaunchesAreSpaced' /\ LaunchProgress'
    BY DEF LaunchesAreSpaced, LaunchProgress
  <2>5. PublishedBaseIsCurrent' /\ FrontIsServed' /\ FrontProgress'
    BY DEF PublishedBaseIsCurrent, FrontIsServed, FrontProgress, FreeInFrame
  <2> QED
    BY <2>1, <2>2, <2>3, <2>4, <2>5
<1> QED
  BY <1>1, InvTanker, InvBeginTick, InvEndTick DEF Next

(* The inductive invariant: whatever the fleet and the durations, slots,   *)
(* queue, claims, reports, loads and launches agree at every step.         *)
THEOREM Invariance == Safe => []Inv
<1> QED
  BY InvInit, InvNext, PTL DEF Safe

(* No more tankers reload than there are slots, and the slots are held by  *)
(* exactly the tankers that reload.                                        *)
THEOREM SlotsHold == Safe => []SlotsNeverOverbooked
<1>1. Inv => SlotsNeverOverbooked
  BY DEF Inv
<1> QED
  BY <1>1, Invariance, PTL

(* A tanker is in the queue at most once and only while it waits there.    *)
THEOREM QueueHolds == Safe => []QueueHoldsOnlyWaiters
<1>1. Inv => QueueHoldsOnlyWaiters
  BY DEF Inv
<1> QED
  BY <1>1, Invariance, PTL

(* A claimed cell and its tanker always name each other, and what is       *)
(* reported of the cell agrees with the claim.                             *)
THEOREM ClaimsHold == Safe => []AssignmentIsOneToOne
<1>1. Inv => AssignmentIsOneToOne
  BY DEF Inv
<1> QED
  BY <1>1, Invariance, PTL

(* StatusHolds: a cell says it is assigned or doused exactly while some    *)
(* tanker holds its claim, and doused only by a tanker that drops.         *)
THEOREM StatusHolds == Safe => []StatusMatchesClaim
<1>1. Inv => StatusMatchesClaim
  BY DEF Inv
<1> QED
  BY <1>1, Invariance, PTL

(* Every mission starts with a full tank and leaves its drop with at most  *)
(* the share of one tick.                                                  *)
THEOREM LoadHolds == Safe => []LoadMatchesMission
<1>1. Inv => LoadMatchesMission
  BY DEF Inv
<1> QED
  BY <1>1, Invariance, PTL

(* Tankers on their way to fires left at least the launch interval apart.  *)
THEOREM LaunchesHold == Safe => []LaunchesAreSpaced
<1>1. Inv => LaunchesAreSpaced
  BY DEF Inv
<1> QED
  BY <1>1, Invariance, PTL

(* Every frame's base shows who reloads and who waits.                     *)
THEOREM PublishedHolds == Safe => []PublishedBaseIsCurrent
<1>1. Inv => PublishedBaseIsCurrent
  BY DEF Inv
<1> QED
  BY <1>1, Invariance, PTL

(* A drop, a reload, a time on station or in egress ends in the turn in    *)
(* which its time is up.                                                   *)
THEOREM TimersHold == Safe => []TimersExpire
<1>1. Inv => TimersExpire
  BY DEF Inv
<1> QED
  BY <1>1, Invariance, PTL

(* The tanker a frame shows at the front of the queue while a slot is free *)
(* has its slot by the end of the next tick, before any other tanker.      *)
THEOREM FrontHolds == Safe => []FrontIsServed
<1>1. Inv => FrontIsServed
  BY DEF Inv
<1> QED
  BY <1>1, Invariance, PTL

-----------------------------------------------------------------------------
(* The base serves its tankers in the order of ReloadBase.                 *)
LEMMA RefinesInit == Init => RB!Init
BY DEF Init, RB!Init

LEMMA SameCount == RB!Room <=> Cardinality(occupied) < ReloadSlots
BY DEF RB!Room, RB!Cardinality, Cardinality

LEMMA RefinesNext ==
  Inv /\ [Next]_vars => [RB!Next]_(RB!vars)
<1> SUFFICES ASSUME Inv, [Next]_vars PROVE RB!Next \/ UNCHANGED RB!vars
  OBVIOUS
<1>1. ASSUME NEW t \in Tanker, EnterSlot(t) PROVE RB!Next
  <2>1. /\ t \notin occupied /\ Cardinality(occupied) < ReloadSlots
        /\ waiting # <<>> => Head(waiting) = t
    BY <1>1 DEF Inv, SlotsNeverOverbooked, EnterSlot, MayAcquire, StepFrom
  <2>2. CASE waiting = <<>>
    <3>1. RB!Admit(t)
      BY <1>1, <2>1, <2>2, SameCount DEF RB!Admit, EnterSlot, WithoutFront
    <3> QED
      BY <3>1 DEF RB!Next
  <2>3. CASE waiting # <<>>
    <3>1. RB!Serve
      BY <1>1, <2>1, <2>3, SameCount DEF RB!Serve, EnterSlot, WithoutFront
    <3> QED
      BY <3>1 DEF RB!Next
  <2> QED
    BY <2>2, <2>3
<1>2. ASSUME NEW t \in Tanker, WaitForSlot(t) PROVE RB!Next \/ UNCHANGED RB!vars
  <2>1. t \notin occupied /\ occupied' = occupied
    BY <1>2 DEF Inv, SlotsNeverOverbooked, WaitForSlot, MayAcquire
  <2>2. CASE \E i \in DOMAIN waiting : waiting[i] = t
    BY <1>2, <2>1, <2>2 DEF WaitForSlot, Enqueued, RB!vars
  <2>3. CASE ~ \E i \in DOMAIN waiting : waiting[i] = t
    <3>1. RB!Join(t)
      BY <1>2, <2>1, <2>3, SameCount DEF RB!Join, RB!InLine, WaitForSlot, MayAcquire, Enqueued
    <3> QED
      BY <3>1 DEF RB!Next
  <2> QED
    BY <2>2, <2>3
<1>3. ASSUME NEW t \in Tanker, FinishReload(t) PROVE RB!Next
  <2>1. t \in occupied
    BY <1>3 DEF Inv, SlotsNeverOverbooked, FinishReload, StepFrom
  <2>2. RB!Leave(t)
    BY <1>3, <2>1 DEF RB!Leave, FinishReload, ReleaseSlot
  <2> QED
    BY <2>2 DEF RB!Next
<1>4. ASSUME UNCHANGED slotVars PROVE UNCHANGED RB!vars
  BY <1>4 DEF slotVars, RB!vars
<1>5. ASSUME NEW t \in Tanker, TankerStep(t) PROVE RB!Next \/ UNCHANGED RB!vars
  BY <1>1, <1>2, <1>3, <1>4, <1>5, SlotFrame
<1>6. BeginTick \/ EndTick \/ UNCHANGED vars => UNCHANGED slotVars
  BY DEF BeginTick, EndTick, vars, slotVars
<1> QED
  BY <1>4, <1>5, <1>6 DEF Next

(* Nobody overtakes at the base: every run of the mission is a run of the  *)
(* first-come, first-served base of ReloadBase (its safety part).          *)
THEOREM Refinement == Safe => RB!Safe
<1> QED
  BY RefinesInit, RefinesNext, Invariance, PTL DEF Safe, RB!Safe
=============================================================================
