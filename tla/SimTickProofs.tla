---------------------------- MODULE SimTickProofs ----------------------------
(***************************************************************************)
(* Theorems of SimTick, for every scenario, every set of options and any   *)
(* intervals: what a tick of a tree does to an agent, and what the frames, *)
(* the exports and the agents' moves have to do with each other.           *)
(***************************************************************************)
EXTENDS SimTick, TLAPS

-----------------------------------------------------------------------------
(* One tick of a tree. *)

CtxType == [mission : Mission, at : Position, waypoint : Nat \ {0}, status : Status,
            node : ActiveNode, peers : [Entity -> Position], links : SUBSET Link,
            orbit : Position]

(* An agent's move ends on the way to its goal, or there.                  *)
LEMMA MoveStays ==
  ASSUME NEW p \in Position, NEW goal \in Position, NEW reach \in Nat
  PROVE  MovedToward(p, goal, reach) \in Position
BY SimTickAssumption DEF MovedToward, Distance, Position

(* What flying changes of a context. *)
LEMMA FlyingResult ==
  ASSUME NEW c \in CtxType, NEW goal \in Position, NEW n \in ActiveNode
  PROVE  /\ Flying(c, goal, n) \in CtxType
         /\ Flying(c, goal, n).mission = c.mission
         /\ Flying(c, goal, n).waypoint = c.waypoint
<1>1. c.mission.speed \in Nat
  BY DEF CtxType, Mission
<1>2. MovedToward(c.at, goal, c.mission.speed) \in Position
  BY <1>1, MoveStays DEF CtxType
<1>3. "running" \in Status
  BY DEF Status
<1> QED
  BY <1>2, <1>3 DEF Flying, CtxType

(* What a condition leaves of a context. *)
LEMMA AnsweredResult ==
  ASSUME NEW c \in CtxType, NEW yes \in BOOLEAN
  PROVE  /\ Answered(c, yes) \in CtxType
         /\ Answered(c, yes).mission = c.mission
         /\ Answered(c, yes).at = c.at
         /\ Answered(c, yes).waypoint = c.waypoint
         /\ Answered(c, yes).links = c.links
         /\ Answered(c, yes).orbit = c.orbit
         /\ Answered(c, yes).peers = c.peers
         /\ Answered(c, yes).status = IF yes THEN "success" ELSE "failure"
BY DEF Answered, CtxType, Status

LEMMA HoldResult ==
  ASSUME NEW c \in CtxType
  PROVE  /\ HoldPosition(c) \in CtxType
         /\ HoldPosition(c).mission = c.mission
         /\ HoldPosition(c).at = c.at
         /\ HoldPosition(c).waypoint = c.waypoint
BY DEF HoldPosition, CtxType, Status, ActiveNode

(* The promise of a playbook's tree.                                       *)
Promise(c, d) ==
  /\ d \in CtxType
  /\ c.mission.playbook = "area_search" => d.waypoint \in DOMAIN c.mission.waypoints
  /\ ~c.mission.authorized => d.at = c.at

(* A search keeps to its route. *)
LEMMA SearchResult ==
  ASSUME NEW c \in CtxType, c.waypoint \in DOMAIN c.mission.waypoints
  PROVE  Promise(c, AreaSearch(c))
<1> DEFINE a == MissionAuthorized(c)
           w == HasWaypoints(a)
<1>1. c.mission.authorized \in BOOLEAN /\ c.mission.waypoints \in Seq(Position)
  BY DEF CtxType, Mission
<1>2. /\ a \in CtxType /\ a.mission = c.mission /\ a.at = c.at /\ a.waypoint = c.waypoint
      /\ a.status = IF c.mission.authorized THEN "success" ELSE "failure"
  BY <1>1, AnsweredResult DEF MissionAuthorized
<1>3. (a.mission.waypoints # << >>) \in BOOLEAN
  OBVIOUS
<1>4. /\ w \in CtxType /\ w.mission = c.mission /\ w.at = c.at /\ w.waypoint = c.waypoint
      /\ w.status = "success"
  <2>1. c.mission.waypoints # << >>
    BY <1>1
  <2> QED
    BY <1>2, <1>3, <2>1, AnsweredResult DEF HasWaypoints
<1>5. CASE ~c.mission.authorized
  <2>1. AreaSearch(c) = a
    BY <1>5, <1>2 DEF AreaSearch, Then
  <2> QED
    BY <2>1, <1>2 DEF Promise
<1>6. CASE c.mission.authorized
  <2> DEFINE goal == w.mission.waypoints[w.waypoint]
             flown == Flying(w, goal, "coverage_waypoint")
  <2>1. AreaSearch(c) = FollowWaypoints(w)
    BY <1>6, <1>2, <1>4 DEF AreaSearch, Then
  <2>2. goal \in Position
    BY <1>1, <1>4
  <2>3. flown \in CtxType /\ flown.waypoint = c.waypoint
    BY <1>4, <2>2, FlyingResult DEF ActiveNode
  <2>4. NextWaypoint(w) \in DOMAIN c.mission.waypoints
    BY <1>1, <1>4 DEF NextWaypoint
  <2>5. NextWaypoint(w) \in Nat \ {0}
    BY <1>1, <2>4
  <2> HIDE DEF w, goal, flown
  <2>6. FollowWaypoints(w) = flown \/ FollowWaypoints(w) = [flown EXCEPT !.waypoint = NextWaypoint(w)]
    BY DEF FollowWaypoints, goal, flown
  <2>7. /\ [flown EXCEPT !.waypoint = NextWaypoint(w)] \in CtxType
        /\ [flown EXCEPT !.waypoint = NextWaypoint(w)].waypoint = NextWaypoint(w)
    BY <2>3, <2>5 DEF CtxType
  <2> QED
    BY <1>6, <2>1, <2>3, <2>4, <2>6, <2>7 DEF Promise
<1> QED
  BY <1>5, <1>6

(* Surveillance flies its orbit, if it has one. *)
LEMMA LoiterResult ==
  ASSUME NEW c \in CtxType
  PROVE  /\ Loiter(c) \in CtxType
         /\ Loiter(c).mission = c.mission
         /\ Loiter(c).waypoint = c.waypoint
<1>1. CASE c.mission.orbit = {}
  BY <1>1, AnsweredResult DEF Loiter
<1>2. CASE c.mission.orbit # {}
  <2>1. c.orbit \in Position
    BY DEF CtxType
  <2> QED
    BY <1>2, <2>1, FlyingResult DEF Loiter, ActiveNode
<1> QED
  BY <1>1, <1>2

LEMMA SurveillanceResult ==
  ASSUME NEW c \in CtxType, c.mission.playbook # "area_search"
  PROVE  Promise(c, PersistentSurveillance(c))
<1> DEFINE a == MissionAuthorized(c)
           left == AuthorizedLoiter(c)
           right == CollectIsr(left)
<1>1. c.mission.authorized \in BOOLEAN
  BY DEF CtxType, Mission
<1>2. /\ a \in CtxType /\ a.mission = c.mission /\ a.at = c.at
      /\ a.status = IF c.mission.authorized THEN "success" ELSE "failure"
  BY <1>1, AnsweredResult DEF MissionAuthorized
<1>3. left \in CtxType /\ (~c.mission.authorized => left.at = c.at)
  <2>1. CASE c.mission.authorized
    <3>1. left = Loiter(a)
      BY <2>1, <1>2 DEF AuthorizedLoiter, Then
    <3> QED
      BY <3>1, <2>1, <1>2, LoiterResult
  <2>2. CASE ~c.mission.authorized
    <3>1. left = a
      BY <2>2, <1>2 DEF AuthorizedLoiter, Then
    <3> QED
      BY <3>1, <1>2
  <2> QED
    BY <1>1, <2>1, <2>2
<1> HIDE DEF left
<1>4. right \in CtxType /\ right.at = left.at
  BY <1>3, AnsweredResult DEF CollectIsr
<1> HIDE DEF right
<1>5. \E s \in Status : PersistentSurveillance(c) = [right EXCEPT !.status = s]
  BY DEF PersistentSurveillance, Both, Status, left, right
<1>6. \A s \in Status : /\ [right EXCEPT !.status = s] \in CtxType
                        /\ [right EXCEPT !.status = s].at = right.at
  BY <1>4 DEF CtxType
<1> QED
  BY <1>3, <1>4, <1>5, <1>6 DEF Promise

(* The links a relay asks for. *)
Meshed(c) ==
  \/ <<"mesh", c.mission.targets[1], c.mission.targets[2]>> \in c.links
  \/ <<"mesh", c.mission.targets[2], c.mission.targets[1]>> \in c.links

LEMMA ExtensionResult ==
  ASSUME NEW c \in CtxType
  PROVE  /\ ExtendMesh(c) \in CtxType
         /\ ExtendMesh(c).waypoint = c.waypoint
<1>1. CASE Len(c.mission.targets) < 2
  BY <1>1, AnsweredResult DEF ExtendMesh
<1>2. CASE ~(Len(c.mission.targets) < 2)
  <2> DEFINE goal == (c.peers[c.mission.targets[1]] + c.peers[c.mission.targets[2]]) \div 2
  <2>1. c.mission.targets \in Seq(Entity) /\ c.peers \in [Entity -> Position]
    BY DEF CtxType, Mission
  <2>2. c.mission.targets[1] \in Entity /\ c.mission.targets[2] \in Entity
    BY <1>2, <2>1
  <2>3. c.peers[c.mission.targets[1]] \in Position /\ c.peers[c.mission.targets[2]] \in Position
    BY <2>1, <2>2
  <2>4. goal \in Position
    BY <2>3, SimTickAssumption DEF Position
  <2> HIDE DEF goal
  <2>5. Flying(c, goal, "mesh_extension") \in CtxType
        /\ Flying(c, goal, "mesh_extension").waypoint = c.waypoint
    BY <2>4, FlyingResult DEF ActiveNode
  <2> QED
    BY <1>2, <2>5 DEF ExtendMesh, goal
<1> QED
  BY <1>1, <1>2

(* A relay holds while its targets are meshed, or without authorization.   *)
LEMMA RelayResult ==
  ASSUME NEW c \in CtxType, c.mission.playbook = "comms_relay", Valid(c.mission)
  PROVE  /\ Promise(c, CommsRelay(c))
         /\ Meshed(c) => CommsRelay(c).at = c.at
<1> DEFINE r == RelayTargetsConnected(c)
           h == HoldPosition(r)
           a == MissionAuthorized(r)
<1>1. c.mission.authorized \in BOOLEAN /\ Len(c.mission.targets) >= 2
  BY DEF CtxType, Mission, Valid
<1>2. r = Answered(c, Meshed(c))
  BY <1>1 DEF RelayTargetsConnected, Meshed
<1>3. Meshed(c) \in BOOLEAN
  BY DEF Meshed
<1>4. /\ r \in CtxType /\ r.mission = c.mission /\ r.at = c.at
      /\ r.status = IF Meshed(c) THEN "success" ELSE "failure"
  BY <1>2, <1>3, AnsweredResult
<1>5. CASE Meshed(c)
  <2>1. h \in CtxType /\ h.at = c.at /\ h.status = "running"
    BY <1>4, HoldResult DEF HoldPosition, CtxType
  <2>2. CommsRelay(c) = h
    BY <1>4, <1>5, <2>1 DEF CommsRelay, ConnectedHold, OrElse, Then
  <2> QED
    BY <1>1, <2>1, <2>2 DEF Promise
<1>6. CASE ~Meshed(c)
  <2>1. CommsRelay(c) = AuthorizedExtension(r)
    BY <1>4, <1>6 DEF CommsRelay, ConnectedHold, OrElse, Then
  <2>2. /\ a \in CtxType /\ a.mission = c.mission /\ a.at = c.at
        /\ a.status = IF c.mission.authorized THEN "success" ELSE "failure"
    BY <1>1, <1>4, AnsweredResult DEF MissionAuthorized
  <2>3. CASE c.mission.authorized
    <3>1. AuthorizedExtension(r) = ExtendMesh(a)
      BY <2>2, <2>3 DEF AuthorizedExtension, Then
    <3> QED
      BY <1>6, <2>1, <2>2, <2>3, <3>1, ExtensionResult DEF Promise
  <2>4. CASE ~c.mission.authorized
    <3>1. AuthorizedExtension(r) = a
      BY <2>2, <2>4 DEF AuthorizedExtension, Then
    <3> QED
      BY <1>6, <2>1, <2>2, <3>1 DEF Promise
  <2> QED
    BY <1>1, <2>3, <2>4
<1> QED
  BY <1>3, <1>5, <1>6

LEMMA AuthorizedHoldResult ==
  ASSUME NEW c \in CtxType, c.mission.playbook # "area_search"
  PROVE  Promise(c, AuthorizedHold(c))
<1> DEFINE a == MissionAuthorized(c)
<1>1. c.mission.authorized \in BOOLEAN
  BY DEF CtxType, Mission
<1>2. a \in CtxType /\ a.at = c.at
  BY <1>1, AnsweredResult DEF MissionAuthorized
<1>3. HoldPosition(a) \in CtxType /\ HoldPosition(a).at = c.at
  BY <1>2, HoldResult
<1>4. AuthorizedHold(c) = a \/ AuthorizedHold(c) = HoldPosition(a)
  BY DEF AuthorizedHold, Then
<1> QED
  BY <1>2, <1>3, <1>4 DEF Promise

(* What one tick of any playbook's tree does.                              *)
LEMMA TickedResult ==
  ASSUME NEW c \in CtxType, Valid(c.mission),
         c.mission.playbook = "area_search" => c.waypoint \in DOMAIN c.mission.waypoints
  PROVE  /\ Promise(c, Ticked(c))
         /\ c.mission.playbook = "comms_relay" /\ Meshed(c) => Ticked(c).at = c.at
BY SearchResult, SurveillanceResult, RelayResult, AuthorizedHoldResult DEF Ticked

-----------------------------------------------------------------------------
(* The steps of the scheduler. *)

(* The agents' half of a tick: every agent ticked, the sequence advanced.  *)
BehaveResult ==
  /\ at' \in [Entity -> Position]
  /\ waypoint' \in [Entity -> Nat \ {0}]
  /\ report' \in [Entity -> [status : Status, node : ActiveNode]]
  /\ sequence' \in 0 .. 2 * Period
  /\ WaypointsExist'
  /\ \A e \in Entity : mission[e].playbook # "firefighting" =>
       /\ ~mission[e].authorized => at'[e] = at[e]
       /\ /\ mission[e].playbook = "comms_relay"
          /\ \/ <<"mesh", mission[e].targets[1], mission[e].targets[2]>> \in links
             \/ <<"mesh", mission[e].targets[2], mission[e].targets[1]>> \in links
          => at'[e] = at[e]

LEMMA MissionsAreValid ==
  ASSUME TypeOK, NEW e \in Entity
  PROVE  mission[e] \in Mission /\ Valid(mission[e])
BY SimTickAssumption DEF TypeOK

LEMMA BehaveStep ==
  ASSUME TypeOK, WaypointsExist, NEW course \in Courses, Behave(course)
  PROVE  BehaveResult
<1> DEFINE c(e) == Context(e, course)
           d(e) == Behaved(e, course)
<1>1. ASSUME NEW e \in Entity
      PROVE  c(e) \in CtxType /\ course[e] \in Position
  <2>1. course \in [Entity -> Position]
    BY DEF Courses
  <2>2. /\ at \in [Entity -> Position] /\ waypoint \in [Entity -> Nat \ {0}]
        /\ links \in SUBSET Link
        /\ report \in [Entity -> [status : Status, node : ActiveNode]]
    BY DEF TypeOK
  <2>3. report[e].status \in Status /\ report[e].node \in ActiveNode
    BY <2>2
  <2>4. mission[e] \in Mission
    BY MissionsAreValid
  <2>5. course[e] \in Position /\ at[e] \in Position /\ waypoint[e] \in Nat \ {0}
    BY <2>1, <2>2
  <2> QED
    BY <2>2, <2>3, <2>4, <2>5 DEF Context, CtxType
<1>2. ASSUME NEW e \in Entity
      PROVE  /\ c(e).mission = mission[e] /\ c(e).at = at[e]
             /\ c(e).waypoint = waypoint[e] /\ c(e).links = links
  BY DEF Context
<1> HIDE DEF c
<1>3. ASSUME NEW e \in Entity
      PROVE  /\ d(e) \in CtxType
             /\ mission[e].playbook = "area_search" =>
                  d(e).waypoint \in DOMAIN mission[e].waypoints
             /\ mission[e].playbook # "firefighting" =>
                  /\ ~mission[e].authorized => d(e).at = at[e]
                  /\ mission[e].playbook = "comms_relay" /\ Meshed(c(e)) => d(e).at = at[e]
  <2>1. CASE mission[e].playbook = "firefighting"
    <3>1. d(e) = [c(e) EXCEPT !.at = course[e]]
      BY <2>1 DEF Behaved, c
    <3>2. [c(e) EXCEPT !.at = course[e]] \in CtxType
      BY <1>1 DEF CtxType
    <3> QED
      BY <2>1, <3>1, <3>2
  <2>2. CASE mission[e].playbook # "firefighting"
    <3>1. d(e) = Ticked(c(e))
      BY <2>2 DEF Behaved, c
    <3>2. mission[e].playbook = "area_search" => waypoint[e] \in DOMAIN mission[e].waypoints
      BY DEF WaypointsExist
    <3>3. Valid(c(e).mission)
      BY <1>2, MissionsAreValid
    <3>4. /\ Promise(c(e), Ticked(c(e)))
          /\ c(e).mission.playbook = "comms_relay" /\ Meshed(c(e)) => Ticked(c(e)).at = c(e).at
      BY <1>1, <1>2, <3>2, <3>3, TickedResult
    <3> QED
      BY <1>2, <3>1, <3>4 DEF Promise
  <2> QED
    BY <2>1, <2>2
<1>4. /\ at' = [e \in Entity |-> d(e).at]
      /\ waypoint' = [e \in Entity |-> d(e).waypoint]
      /\ report' = [e \in Entity |-> [status |-> d(e).status, node |-> d(e).node]]
      /\ sequence' = Successor(sequence) /\ mission' = mission
  BY DEF Behave, setup
<1> HIDE DEF d
<1>5. \A e \in Entity : /\ d(e).at \in Position /\ d(e).waypoint \in Nat \ {0}
                        /\ d(e).status \in Status /\ d(e).node \in ActiveNode
  BY <1>3 DEF CtxType
<1>6. at' \in [Entity -> Position] /\ waypoint' \in [Entity -> Nat \ {0}]
  BY <1>4, <1>5
<1>7. report' \in [Entity -> [status : Status, node : ActiveNode]]
  BY <1>4, <1>5
<1>8. sequence' \in 0 .. 2 * Period
  BY <1>4, SimTickAssumption DEF TypeOK, Successor
<1>9. WaypointsExist'
  BY <1>3, <1>4 DEF WaypointsExist
<1>10. ASSUME NEW e \in Entity, mission[e].playbook # "firefighting"
       PROVE  /\ ~mission[e].authorized => at'[e] = at[e]
              /\ /\ mission[e].playbook = "comms_relay"
                 /\ \/ <<"mesh", mission[e].targets[1], mission[e].targets[2]>> \in links
                    \/ <<"mesh", mission[e].targets[2], mission[e].targets[1]>> \in links
                 => at'[e] = at[e]
  <2>1. at'[e] = d(e).at
    BY <1>4
  <2>2. Meshed(c(e)) <=> \/ <<"mesh", mission[e].targets[1], mission[e].targets[2]>> \in links
                         \/ <<"mesh", mission[e].targets[2], mission[e].targets[1]>> \in links
    BY <1>2 DEF Meshed
  <2> QED
    BY <1>3, <1>10, <2>1, <2>2
<1> QED
  BY <1>6, <1>7, <1>8, <1>9, <1>10 DEF BehaveResult

(* Whatever SigForge was told, it was told positions.                      *)
LEMMA ToldArePositions ==
  ASSUME NEW p \in [Entity -> Position], told \in [Nodes -> Position], NEW k,
         TellPositions(p, k)
  PROVE  told' \in [Nodes -> Position]
<1>1. ASSUME NEW n \in Nodes, \E e \in Entity : nem[e] = n /\ e <= k
      PROVE  p[CHOOSE e \in Entity : nem[e] = n] \in Position
  BY <1>1
<1>2. UpdatedPositions(told, nem, p, k) \in [Nodes -> Position]
  BY <1>1 DEF UpdatedPositions
<1> QED
  BY <1>2 DEF TellPositions

(* Each backend only returns links there can be.                           *)
LEMMA LinkStatesAreLinks ==
  ASSUME NEW p, NEW heardAt, NEW up \in LinkStates(p, heardAt)
  PROVE  up \subseteq Link
BY DEF LinkStates, AnalyticLinks, SigForgeLinks

(* After all updates, SigForge knows where every entity is.                *)
NemsDiffer ==
  options.network = "sigforge" =>
    nem \in [Entity -> Nodes] /\ \A e, f \in Entity : nem[e] = nem[f] => e = f

Fits(up, p) ==
  \A l \in up : IF options.network = "analytic" THEN InRange(l, p)
               ELSE Distance(p[l[2]], p[l[3]]) <= PhyReach

LEMMA MeasuredLinksFit ==
  ASSUME TypeOK, NemsDiffer, NEW p \in [Entity -> Position],
         TellPositions(p, NumEntities), NEW up \in LinkStates(p, told')
  PROVE  Fits(up, p)
<1>1. CASE options.network = "analytic"
  BY <1>1 DEF LinkStates, AnalyticLinks, Fits
<1>2. CASE options.network = "sigforge"
  <2>1. told' = UpdatedPositions(told, nem, p, NumEntities)
    BY <1>2 DEF TellPositions
  <2>2. ASSUME NEW e \in Entity
        PROVE  told'[nem[e]] = p[e]
    <3>1. nem[e] \in Nodes /\ e <= NumEntities
      BY <1>2, NetworkAssumption DEF NemsDiffer, Entity
    <3>2. (CHOOSE f \in Entity : nem[f] = nem[e]) = e
      BY <1>2 DEF NemsDiffer
    <3> QED
      BY <2>1, <3>1, <3>2 DEF UpdatedPositions
  <2>3. PICK heard \in SUBSET Audible(told', nem) : up = SigForgeLinks(heard, nem)
    BY <1>2 DEF LinkStates
  <2>4. ASSUME NEW l \in up
        PROVE  Distance(p[l[2]], p[l[3]]) <= PhyReach
    <3>1. l \in Link /\ <<nem[l[2]], nem[l[3]]>> \in Audible(told', nem)
      BY <2>3 DEF SigForgeLinks, Usable
    <3>2. l[2] \in Entity /\ l[3] \in Entity
      BY <3>1 DEF Link
    <3>3. Distance(told'[nem[l[2]]], told'[nem[l[3]]]) <= PhyReach
      BY <3>1 DEF Audible
    <3> QED
      BY <2>2, <3>2, <3>3
  <2> QED
    BY <1>2, <2>4 DEF Fits
<1> QED
  BY <1>1, <1>2, SimTickAssumption DEF TypeOK

(* The events of a frame lead from the links before it to its own.         *)
LEMMA EventsLeadOn ==
  ASSUME NEW previous, NEW current
  PROVE  Followed(previous, LinkEvents(previous, current)) = current
BY DEF Followed, LinkEvents

-----------------------------------------------------------------------------
(* The inductive invariant: unless events were lost, the recorded links    *)
(* are those of the last frame.                                            *)
IInv ==
  /\ TypeOK
  /\ WaypointsExist
  /\ EventsExplainLinks
  /\ LinksFitPositions
  /\ UnauthorizedStay
  /\ NemsDiffer
  /\ ~missed => links = shown

LEMMA InitIInv == Init => IInv
<1> SUFFICES ASSUME Init PROVE IInv
  OBVIOUS
<1>1. \A e \in Entity : mission[e] \in Mission /\ Valid(mission[e])
  BY SimTickAssumption DEF Init
<1>2. TypeOK
  <2>1. told \in [Nodes -> Position]
    BY SimTickAssumption DEF Init, Position
  <2>2. at \in [Entity -> Position]
    BY <1>1 DEF Init, Mission
  <2>3. report \in [Entity -> [status : Status, node : ActiveNode]]
    BY DEF Init, Status, ActiveNode
  <2>4. sequence \in 0 .. 2 * Period
    BY SimTickAssumption DEF Init
  <2>5. replica \in [Entity -> Revision]
    BY DEF Init, Revision
  <2>6. waypoint \in [Entity -> Nat \ {0}]
    BY DEF Init
  <2> QED
    BY <2>1, <2>2, <2>3, <2>4, <2>5, <2>6 DEF Init, TypeOK
<1>3. WaypointsExist
  <2>1. ASSUME NEW e \in Entity, mission[e].playbook = "area_search"
        PROVE  1 \in DOMAIN mission[e].waypoints
    BY <1>1, <2>1 DEF Mission, Valid
  <2> QED
    BY <2>1 DEF Init, WaypointsExist
<1>4. NemsDiffer
  <2> SUFFICES ASSUME options.network = "sigforge"
               PROVE  /\ nem \in [Entity -> Nodes]
                      /\ \A e, f \in Entity : nem[e] = nem[f] => e = f
    BY DEF NemsDiffer
  <2>1. nem \in [Entity -> Nodes] /\ Registered(nem)
    BY DEF Init
  <2>2. \A e \in Entity : nem[e] \in Nat
    BY <2>1, NetworkAssumption
  <2>3. \A e, f \in Entity : e = f \/ e < f \/ f < e
    BY NetworkAssumption DEF Entity
  <2>4. \A e, f \in Entity : e < f => nem[e] < nem[f]
    BY <2>1 DEF Registered
  <2> QED
    BY <2>1, <2>2, <2>3, <2>4
<1> QED
  BY <1>2, <1>3, <1>4 DEF Init, IInv, EventsExplainLinks, LinksFitPositions, UnauthorizedStay

(* What a tick does to the agents keeps the unauthorized where they are.   *)
LEMMA UnauthorizedStep ==
  ASSUME UnauthorizedStay, UNCHANGED setup, BehaveResult
  PROVE  UnauthorizedStay'
BY DEF UnauthorizedStay, BehaveResult, setup

(* What a frame keeps, given that its links were measured at its positions.*)
LEMMA ReturnStep ==
  ASSUME IInv, NEW up, up \subseteq Link, UNCHANGED setup, Return(up), Fits(up, at')
  PROVE  /\ EventsExplainLinks' /\ LinksFitPositions' /\ (~missed => links = shown)'
         /\ links' \subseteq Link /\ followed' \subseteq Link /\ shown' \subseteq Link
         /\ returned' \in BOOLEAN /\ missed' \in BOOLEAN
<1>1. followed' = up /\ shown' = up /\ links' = up /\ returned' = TRUE /\ missed' = FALSE
  BY EventsLeadOn DEF Return, IInv, EventsExplainLinks
<1>2. LinksFitPositions'
  BY <1>1 DEF LinksFitPositions, Fits, setup
<1> QED
  BY <1>1, <1>2 DEF EventsExplainLinks

LEMMA ReplicasAreRevisions ==
  ASSUME TypeOK, NEW n, NEW up, NEW r \in ReplicasAfter(n, up)
  PROVE  r \in [Entity -> Revision]
BY DEF ReplicasAfter

LEMMA ExportsAreEntities ==
  ASSUME NEW r
  PROVE  Exportable(r) \subseteq Entity
BY DEF Exportable

(* A tick that loses its frame records the links and says they were lost,  *)
(* or it records none.                                                     *)
LEMMA LostStep ==
  ASSUME IInv, LoseFrame, UNCHANGED setup,
         \/ UNCHANGED <<links, missed>>
         \/ \E up : up \subseteq Link /\ links' = up /\ missed' = (missed \/ up # links)
  PROVE  /\ EventsExplainLinks' /\ LinksFitPositions' /\ (~missed => links = shown)'
         /\ links' \subseteq Link /\ followed' \subseteq Link /\ shown' \subseteq Link
         /\ returned' \in BOOLEAN /\ missed' \in BOOLEAN
<1>1. returned' = FALSE /\ shown' = shown /\ followed' = followed
  BY DEF LoseFrame
<1>2. links' \subseteq Link /\ missed' \in BOOLEAN /\ (~missed' => links' = shown')
  BY <1>1 DEF IInv, TypeOK
<1> QED
  BY <1>1, <1>2 DEF IInv, TypeOK, EventsExplainLinks, LinksFitPositions

(* Every step keeps the invariant.                                         *)
LEMMA StepIInv == IInv /\ [Next]_vars => IInv'
<1> SUFFICES ASSUME IInv, [Next]_vars PROVE IInv'
  OBVIOUS
<1>0. TypeOK /\ WaypointsExist /\ UnauthorizedStay /\ NemsDiffer
  BY DEF IInv
(* What an action adds to the agents' half of its tick. *)
<1> DEFINE Frame ==
      /\ EventsExplainLinks' /\ LinksFitPositions' /\ (~missed => links = shown)'
      /\ links' \subseteq Link /\ followed' \subseteq Link /\ shown' \subseteq Link
      /\ returned' \in BOOLEAN /\ missed' \in BOOLEAN
<1>1. ASSUME NEW course \in Courses, Behave(course), Frame,
             told' \in [Nodes -> Position], replica' \in [Entity -> Revision],
             exported' \subseteq Entity
      PROVE  IInv'
  <2>1. BehaveResult
    BY <1>0, <1>1, BehaveStep
  <2>2. UNCHANGED setup
    BY <1>1 DEF Behave
  <2>3. UnauthorizedStay'
    BY <1>0, <2>1, <2>2, UnauthorizedStep
  <2>4. NemsDiffer'
    BY <1>0, <2>2 DEF NemsDiffer, setup
  <2>5. mission' \in Scenario /\ gateway' \in Entity /\ options' \in Options
    BY <1>0, <2>2 DEF TypeOK, setup
  <2>6. TypeOK'
    BY <1>1, <2>1, <2>5 DEF TypeOK, BehaveResult
  <2> QED
    BY <1>1, <2>1, <2>3, <2>4, <2>6 DEF IInv, BehaveResult
<1>2. ASSUME NEW course \in Courses, Behave(course)
      PROVE  UNCHANGED setup /\ at' \in [Entity -> Position]
  BY <1>0, <1>2, BehaveStep DEF Behave, BehaveResult
<1>3. ASSUME NEW course \in Courses, TickReturns(course)
      PROVE  IInv'
  <2>1. PICK up \in LinkStates(at', told') :
          /\ replica' \in ReplicasAfter(sequence', up)
          /\ exported' = IF ExportDue(sequence') THEN Exportable(replica') ELSE {}
          /\ Return(up)
    BY <1>3 DEF TickReturns
  <2>2. Behave(course) /\ TellPositions(at', NumEntities)
    BY <1>3 DEF TickReturns
  <2>3. up \subseteq Link /\ Fits(up, at')
    BY <1>0, <1>2, <2>2, LinkStatesAreLinks, MeasuredLinksFit
  <2>4. Frame
    BY <1>2, <2>1, <2>2, <2>3, ReturnStep
  <2>5. told' \in [Nodes -> Position]
    BY <1>0, <1>2, <2>2, ToldArePositions DEF TypeOK
  <2>6. replica' \in [Entity -> Revision] /\ exported' \subseteq Entity
    BY <1>0, <2>1, ReplicasAreRevisions, ExportsAreEntities
  <2> QED
    BY <1>1, <2>2, <2>4, <2>5, <2>6
<1>4. ASSUME NEW course \in Courses, TickUnmeasured(course)
      PROVE  IInv'
  <2>1. Behave(course) /\ LoseFrame /\ exported' = {} /\ UNCHANGED <<links, replica, missed>>
    BY <1>4 DEF TickUnmeasured
  <2>2. told' \in [Nodes -> Position]
    BY <1>0, <1>2, <1>4, <2>1, ToldArePositions DEF TypeOK, TickUnmeasured, MeasureFails
  <2>3. Frame
    BY <1>2, <2>1, LostStep
  <2>4. replica' \in [Entity -> Revision]
    BY <1>0, <2>1 DEF TypeOK
  <2> QED
    BY <1>1, <2>1, <2>2, <2>3, <2>4
<1>5. ASSUME NEW course \in Courses, TickUnreplicated(course)
      PROVE  IInv'
  <2>1. /\ Behave(course) /\ LoseFrame /\ exported' = {} /\ UNCHANGED <<links, missed>>
        /\ TellPositions(at', NumEntities)
        /\ \E up : replica' \in ReplicasAfter(sequence', up)
    BY <1>5 DEF TickUnreplicated
  <2>2. told' \in [Nodes -> Position]
    BY <1>0, <1>2, <2>1, ToldArePositions DEF TypeOK
  <2>3. Frame
    BY <1>2, <2>1, LostStep
  <2>4. replica' \in [Entity -> Revision]
    BY <1>0, <2>1, ReplicasAreRevisions
  <2> QED
    BY <1>1, <2>1, <2>2, <2>3, <2>4
<1>6. ASSUME NEW course \in Courses, TickUnexported(course)
      PROVE  IInv'
  <2>1. /\ Behave(course) /\ LoseFrame /\ TellPositions(at', NumEntities)
    BY <1>6 DEF TickUnexported
  <2>2. PICK up \in LinkStates(at', told'), k \in Entity :
          /\ replica' \in ReplicasAfter(sequence', up)
          /\ exported' = {e \in Exportable(replica') : e < k}
          /\ links' = up /\ missed' = (missed \/ up # links)
    BY <1>6 DEF TickUnexported
  <2>3. told' \in [Nodes -> Position]
    BY <1>0, <1>2, <2>1, ToldArePositions DEF TypeOK
  <2>4. Frame
    BY <1>2, <2>1, <2>2, LinkStatesAreLinks, LostStep
  <2>5. replica' \in [Entity -> Revision] /\ exported' \subseteq Entity
    BY <1>0, <2>2, ReplicasAreRevisions, ExportsAreEntities
  <2> QED
    BY <1>1, <2>1, <2>3, <2>4, <2>5
<1>7. CASE Snapshot
  <2>1. /\ TellPositions(at, NumEntities) /\ exported' = {}
        /\ UNCHANGED <<setup, agents, sequence, replica>>
    BY <1>7 DEF Snapshot
  <2>2. PICK up \in LinkStates(at, told') : Return(up)
    BY <1>7 DEF Snapshot
  <2>3. at \in [Entity -> Position] /\ at' = at /\ UNCHANGED setup
    BY <1>0, <2>1 DEF TypeOK, agents
  <2>4. up \subseteq Link /\ Fits(up, at')
    BY <1>0, <2>1, <2>2, <2>3, LinkStatesAreLinks, MeasuredLinksFit
  <2>5. Frame
    BY <2>2, <2>3, <2>4, ReturnStep
  <2>6. told' \in [Nodes -> Position]
    BY <1>0, <2>1, <2>3, ToldArePositions DEF TypeOK
  <2>7. UnauthorizedStay' /\ WaypointsExist' /\ NemsDiffer'
    BY <1>0, <2>1 DEF UnauthorizedStay, WaypointsExist, NemsDiffer, setup, agents
  <2>8. TypeOK'
    BY <1>0, <2>1, <2>5, <2>6 DEF TypeOK, setup, agents
  <2> QED
    BY <2>5, <2>7, <2>8 DEF IInv
<1>8. CASE UNCHANGED vars
  BY <1>8 DEF vars, setup, agents, IInv, TypeOK, WaypointsExist, EventsExplainLinks,
              LinksFitPositions, UnauthorizedStay, NemsDiffer
<1> QED
  BY <1>3, <1>4, <1>5, <1>6, <1>7, <1>8 DEF Next, Tick

(* The inductive invariant: positions, links, events and the agents that   *)
(* may move stay consistent across ticks, failed ones included.            *)
THEOREM Invariance == Safe => []IInv
BY InitIInv, StepIInv, PTL DEF Safe

-----------------------------------------------------------------------------
(* TypeCorrect: no tick of any tree takes an agent off the map, nor the    *)
(* scheduler out of its types.                                             *)
THEOREM TypeCorrect == Safe => []TypeOK
BY Invariance, PTL DEF IInv

(* RouteHolds: BehaviorRuntime indexes its route safely on every tick.     *)
THEOREM RouteHolds == Safe => []WaypointsExist
BY Invariance, PTL DEF IInv

(* EventsHold: the events of the frames returned lead to the links of the  *)
(* last of them, whichever frames were lost in between.                    *)
THEOREM EventsHold == Safe => []EventsExplainLinks
BY Invariance, PTL DEF IInv

(* LinksHold: a frame shows links measured where it shows the entities,    *)
(* also after SigForge failed in the middle of an update.                  *)
THEOREM LinksHold == Safe => []LinksFitPositions
BY Invariance, PTL DEF IInv

(* UnauthorizedHold: no playbook moves an agent that lacks authorization.  *)
THEOREM UnauthorizedHold == Safe => []UnauthorizedStay
BY Invariance, PTL DEF IInv

(* RelayHolds: a relay extends the mesh only away from links that a frame  *)
(* has shown.                                                              *)
THEOREM RelayHolds == Safe => RelayFollowsFrames
<1> DEFINE Kept ==
      \A e \in Entity :
        mission[e].playbook = "comms_relay" /\ at'[e] # at[e] /\ ~missed =>
          \A l \in shown :
            ~(l[1] = "mesh" /\ {l[2], l[3]} = {mission[e].targets[1], mission[e].targets[2]})
<1>1. IInv /\ [Next]_vars => [Kept]_vars
  <2> SUFFICES ASSUME IInv, Next, NEW e \in Entity, NEW l \in shown,
                      mission[e].playbook = "comms_relay", at'[e] # at[e], ~missed,
                      l[1] = "mesh",
                      {l[2], l[3]} = {mission[e].targets[1], mission[e].targets[2]}
               PROVE  FALSE
    OBVIOUS
  <2>1. TypeOK /\ WaypointsExist /\ links = shown
    BY DEF IInv
  <2>2. ~Snapshot
    BY DEF Snapshot, agents
  <2>3. PICK course \in Courses : Behave(course)
    BY <2>2 DEF Next, Tick, TickReturns, TickUnmeasured, TickUnreplicated, TickUnexported
  <2>4. BehaveResult
    BY <2>1, <2>3, BehaveStep
  <2>5. l = <<"mesh", l[2], l[3]>>
    BY <2>1 DEF TypeOK, Link
  <2>6. \/ l = <<"mesh", mission[e].targets[1], mission[e].targets[2]>>
        \/ l = <<"mesh", mission[e].targets[2], mission[e].targets[1]>>
    BY <2>5
  <2> QED
    BY <2>1, <2>4, <2>6 DEF BehaveResult
<1> QED
  BY Invariance, <1>1, PTL DEF Safe, RelayFollowsFrames

(* ExportsHold: nothing is exported that had not reached the gateway.      *)
THEOREM ExportsHold == Safe => ExportsCrossLinks
<1> DEFINE Crossed ==
      \A e \in exported' \ {gateway} :
        IF options.ditto = "behavioral"
        THEN replica[e] = "latest" \/ LinkedGateway(links')
        ELSE replica'[e] # "none"
<1>1. IInv /\ [Next]_vars => [Crossed]_vars
  <2> SUFFICES ASSUME IInv, Next, NEW e \in exported' \ {gateway}
               PROVE  IF options.ditto = "behavioral"
                      THEN replica[e] = "latest" \/ LinkedGateway(links')
                      ELSE replica'[e] # "none"
    OBVIOUS
  <2>1. /\ exported' \subseteq Exportable(replica')
        /\ replica' \in ReplicasAfter(sequence', links')
    BY DEF Next, Snapshot, Tick, TickReturns, TickUnmeasured, TickUnreplicated,
           TickUnexported, Return
  <2>2. e \in Entity /\ HasLatest(replica'[e])
    BY <2>1 DEF Exportable
  <2>3. CASE options.ditto = "real"
    BY <2>2, <2>3 DEF HasLatest
  <2>4. CASE options.ditto # "real"
    <3>1. replica'[e] = "latest"
      BY <2>2, <2>4 DEF HasLatest
    <3>2. replica'[e] \in {replica[e]} \union {Outdated(replica[e])}
                             \union (IF LinkedGateway(links') THEN {"latest"} ELSE {})
      BY <2>1, <2>2, <2>4 DEF ReplicasAfter, LatestReaches
    <3> QED
      BY <3>1, <3>2 DEF Outdated
  <2> QED
    BY <2>3, <2>4
<1> QED
  BY Invariance, <1>1, PTL DEF Safe, ExportsCrossLinks
=============================================================================
