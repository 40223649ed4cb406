---------------------------- MODULE BehaviorTree ----------------------------
(***************************************************************************)
(* The behavior trees of behavior.rs: one tick of a playbook's tree.       *)
(*                                                                         *)
(* A node takes a context and returns it with the status of its tick.  The *)
(* fields of a context are those of TickContext that decide anything:      *)
(*   mission    the agent's MissionConfig                                  *)
(*   at, waypoint       its position and waypoint_index (from 1)           *)
(*   status, node       the status of the last tick and the active node    *)
(*   peers      where every entity was when the scheduler's tick began     *)
(*   links      the links that were up when a network was last evaluated,  *)
(*              each <<carrier, source, target>>                           *)
(*   orbit      the point of the orbit that belongs to the present time    *)
(*                                                                         *)
(* Positions are points of a line, and speeds the points passed in a tick; *)
(* headings, reported speeds and altitudes are left out.                   *)
(***************************************************************************)
EXTENDS Integers, FiniteSets, Sequences

Status == {"running", "success", "failure"}

ActiveNode ==
  {"initialize", "hold_position", "coverage_waypoint", "isr_loiter", "mesh_extension"}

Distance(p, q) == IF p >= q THEN p - q ELSE q - p

MovedToward_Fault(p, goal, reach) == IF goal > p THEN p + reach ELSE p - reach

(* Position::moved_toward: all the way once the goal is within a tick.     *)
MovedToward(p, goal, reach) ==
  IF Distance(p, goal) <= reach THEN goal
  ELSE IF goal > p THEN p + reach ELSE p - reach

-----------------------------------------------------------------------------
(* The composites, of what each child made of the context of the one       *)
(* before.  A Sequence goes on while its children succeed, a Fallback      *)
(* while they fail, and a Parallel ticks them all and counts.              *)
Then(c, next) == IF c.status = "success" THEN next ELSE c

OrElse(c, next) == IF c.status = "failure" THEN next ELSE c

Both(left, right) ==
  LET results == {left.status, right.status}
  IN  [right EXCEPT !.status =
         CASE results = {"success"}  -> "success"
           [] "failure" \in results  -> "failure"
           [] OTHER                  -> "running"]

(* The conditions. *)
Answered(c, passed) == [c EXCEPT !.status = IF passed THEN "success" ELSE "failure"]

MissionAuthorized(c) == Answered(c, c.mission.authorized)

HasWaypoints(c) == Answered(c, c.mission.waypoints # << >>)

RelayTargetsConnected_Fault(c) ==
  Answered(c, /\ Len(c.mission.targets) >= 2
              /\ <<"mesh", c.mission.targets[1], c.mission.targets[2]>> \in c.links)

RelayTargetsConnected(c) ==
  Answered(c, /\ Len(c.mission.targets) >= 2
              /\ \/ <<"mesh", c.mission.targets[1], c.mission.targets[2]>> \in c.links
                 \/ <<"mesh", c.mission.targets[2], c.mission.targets[1]>> \in c.links)

(* The actions. *)
Flying(c, goal, node) ==
  [c EXCEPT !.at     = MovedToward(c.at, goal, c.mission.speed),
            !.node   = node,
            !.status = "running"]

HoldPosition(c) == [c EXCEPT !.node = "hold_position", !.status = "running"]

(* The next waypoint is taken once this one is reached, and the last is    *)
(* followed by the first.                                                  *)
NextWaypoint_Fault1(c) == c.waypoint + 1

NextWaypoint_Fault2(c) ==
  IF c.waypoint < Len(c.mission.waypoints) THEN c.waypoint + 1 ELSE c.waypoint

NextWaypoint(c) == (c.waypoint % Len(c.mission.waypoints)) + 1

FollowWaypoints(c) ==
  LET goal  == c.mission.waypoints[c.waypoint]
      flown == Flying(c, goal, "coverage_waypoint")
  IN  IF flown.at = goal THEN [flown EXCEPT !.waypoint = NextWaypoint(c)] ELSE flown

(* Without a center there is no orbit, and the loiter fails.               *)
Loiter(c) ==
  IF c.mission.orbit = {} THEN Answered(c, FALSE) ELSE Flying(c, c.orbit, "isr_loiter")

ExtendMesh(c) ==
  IF Len(c.mission.targets) < 2
  THEN Answered(c, FALSE)
  ELSE Flying(c, (c.peers[c.mission.targets[1]] + c.peers[c.mission.targets[2]]) \div 2,
              "mesh_extension")

CollectIsr(c) == Answered(c, TRUE)

-----------------------------------------------------------------------------
(* The playbooks. *)
AreaSearch(c) ==
  LET authorized == MissionAuthorized(c)
      routed     == Then(authorized, HasWaypoints(authorized))
  IN  Then(routed, FollowWaypoints(routed))

AuthorizedLoiter(c) == Then(MissionAuthorized(c), Loiter(MissionAuthorized(c)))

PersistentSurveillance(c) == Both(AuthorizedLoiter(c), CollectIsr(AuthorizedLoiter(c)))

ConnectedHold(c) == Then(RelayTargetsConnected(c), HoldPosition(RelayTargetsConnected(c)))

AuthorizedExtension(c) == Then(MissionAuthorized(c), ExtendMesh(MissionAuthorized(c)))

CommsRelay_Fault(c) == OrElse(ConnectedHold(c), ExtendMesh(ConnectedHold(c)))

CommsRelay(c) == OrElse(ConnectedHold(c), AuthorizedExtension(ConnectedHold(c)))

AuthorizedHold(c) == Then(MissionAuthorized(c), HoldPosition(MissionAuthorized(c)))

(* BehaviorRuntime::tick: the tree of the mission's playbook, once.        *)
Ticked(c) ==
  CASE c.mission.playbook = "area_search"             -> AreaSearch(c)
    [] c.mission.playbook = "persistent_surveillance" -> PersistentSurveillance(c)
    [] c.mission.playbook = "comms_relay"             -> CommsRelay(c)
    [] OTHER                                          -> AuthorizedHold(c)
=============================================================================
