------------------------------ MODULE SimTick -------------------------------
(***************************************************************************)
(* The scheduler of sim.rs: Simulation::tick and evaluate_frame, with the  *)
(* behavior trees, the network backends and the gateway's CoT exports.     *)
(*                                                                         *)
(* A tick ticks every agent's tree, advances the sequence number, measures *)
(* the network, brings the Ditto replicas up to date, records the links,   *)
(* exports to TAK and returns a frame.  SigForge may fail at every call,   *)
(* and with real peers Ditto may fail as well; the frame is then lost, but *)
(* not what was done before.  Of Ditto this module keeps what the gateway  *)
(* holds of each entity's PLI and track document: DittoModel and           *)
(* RealTransport have the rest.                                            *)
(***************************************************************************)
EXTENDS Network

CONSTANTS
  Scenario,        \* what may be simulated: for each entity its node's record
  Options,         \* the SimulationOptions: network backend and Ditto transport
  Length,          \* the positions are 0 .. Length
  UpdateInterval,  \* ticks between two updates of the platform documents
  CotInterval,     \* ticks between two exports
  Period           \* sequence numbers above 2 * Period are counted modulo it

Position == 0 .. Length

Mission == [kind : {"base", "uas"}, start : Position,
            playbook : {"hold", "area_search", "persistent_surveillance",
                        "comms_relay", "firefighting"},
            authorized : BOOLEAN, speed : Nat, waypoints : Seq(Position),
            orbit : SUBSET Position, targets : Seq(Entity)]

(* What ScenarioConfig::validate lets pass of a node.                      *)
Valid(m) ==
  /\ m.playbook = "area_search" => m.waypoints # << >>
  /\ m.playbook = "persistent_surveillance" => m.orbit # {}
  /\ m.playbook = "comms_relay" => Len(m.targets) >= 2

ASSUME SimTickAssumption ==
  /\ NumEntities >= 1 /\ Length \in Nat
  /\ \A s \in Scenario : s \in [Entity -> Mission] /\ \A e \in Entity : Valid(s[e])
  /\ Options \subseteq [network : {"analytic", "sigforge"},
                         ditto   : {"behavioral", "real"}]
  /\ UpdateInterval \in Nat \ {0} /\ CotInterval \in Nat \ {0}
  /\ Period \in Nat \ {0}
  /\ Period % UpdateInterval = 0 /\ Period % CotInterval = 0

VARIABLES
  mission,     \* the nodes of the scenario that runs
  gateway,     \* gateway_entity_id
  options,     \* the backend and the Ditto transport
  nem,         \* entity_to_nem
  told,        \* the positions SigForge has, for each NEM
  at,          \* entity.position
  waypoint,    \* BehaviorRuntime.waypoint_index
  report,      \* entity.mission: its status and active node
  sequence,
  links,       \* previous_links: those that are up
  replica,     \* what the gateway holds of each entity's PLI and track documents
  exported,    \* the entities of which the last tick gave the sink an event
  shown,       \* the links that are up in the last frame returned
  returned,    \* whether the last tick returned its frame
  followed,    \* history: the links somebody knows who follows link_events
  missed       \* history: link events were lost since the last frame

setup == <<mission, gateway, options, nem>>
agents == <<at, waypoint, report>>
vars == <<setup, told, agents, sequence, links, replica, exported, shown,
          returned, followed, missed>>

(* The gateway is the first base, or else the first entity.                *)
Bases == {e \in Entity : mission[e].kind = "base"}

IsGateway(e) ==
  IF Bases = {} THEN e = 1 ELSE e \in Bases /\ \A f \in Bases : e <= f

(* No frame yet, not even that of the snapshot before the first tick.      *)
Fresh == sequence = 0 /\ ~returned

Init ==
  /\ mission \in Scenario /\ options \in Options
  /\ gateway \in Entity /\ IsGateway(gateway)
  /\ IF options.network = "sigforge"
     THEN nem \in [Entity -> Nodes] /\ Registered(nem)
     ELSE nem = [e \in Entity |-> 0]
  /\ told = [n \in Nodes |-> 0]
  /\ at = [e \in Entity |-> mission[e].start]
  /\ waypoint = [e \in Entity |-> 1]
  /\ report = [e \in Entity |-> [status |-> "running", node |-> "initialize"]]
  /\ sequence = 0
  /\ links = {}
  /\ replica \in [Entity -> {"none", "old"}]
  /\ options.ditto = "behavioral" => \A e \in Entity : replica[e] = "none"
  /\ exported = {}
  /\ shown = {} /\ returned = FALSE
  /\ followed = {} /\ missed = FALSE

-----------------------------------------------------------------------------
(* One tick of an agent's behavior.  Firefighting units are moved by the   *)
(* wildfire runtime instead, anywhere (Wildfire); course also gives the    *)
(* point of its orbit to an agent that loiters.                            *)
Courses ==
  {course \in [Entity -> Position] : \A e \in Entity :
     \/ mission[e].playbook = "firefighting"
     \/ course[e] \in mission[e].orbit
     \/ mission[e].orbit = {} /\ course[e] = 0}

Context(e, course) ==
  [mission |-> mission[e], at |-> at[e], waypoint |-> waypoint[e],
   status |-> report[e].status, node |-> report[e].node,
   peers |-> at, links |-> links, orbit |-> course[e]]

Behaved(e, course) ==
  IF mission[e].playbook = "firefighting"
  THEN [Context(e, course) EXCEPT !.at = course[e]]
  ELSE Ticked(Context(e, course))

Successor(n) == IF n = 2 * Period THEN Period + 1 ELSE n + 1

Behave(course) ==
  /\ ~Fresh
  /\ LET done == [e \in Entity |-> Behaved(e, course)]
     IN  /\ at' = [e \in Entity |-> done[e].at]
         /\ waypoint' = [e \in Entity |-> done[e].waypoint]
         /\ report' = [e \in Entity |-> [status |-> done[e].status,
                                         node   |-> done[e].node]]
  /\ sequence' = Successor(sequence)
  /\ UNCHANGED setup

-----------------------------------------------------------------------------
(* NetworkBackend::link_states, at the positions p.  SigForge is told all  *)
(* of them before it is asked for the links; it may report any directions  *)
(* that are audible.  When a call fails, the first k updates were made.    *)
TellPositions(p, k) ==
  told' = IF options.network = "sigforge" THEN UpdatedPositions(told, nem, p, k) ELSE told

LinkStates(p, heardAt) ==
  IF options.network = "analytic" THEN {AnalyticLinks(p)}
  ELSE {SigForgeLinks(heard, nem) : heard \in SUBSET Audible(heardAt, nem)}

MeasureFails(p) ==
  options.network = "sigforge" /\ \E k \in 0 .. NumEntities : TellPositions(p, k)

-----------------------------------------------------------------------------
(* DittoRuntime::frame, as the gateway sees it.  When an update is due,    *)
(* every entity writes its documents; if they changed, what the gateway    *)
(* holds is outdated, but for its own.  In the behavioral model the new    *)
(* revision, or an earlier one, may reach it over a link of the gateway.   *)
(* Real peers synchronize between frames as well, over connections of      *)
(* earlier ones (RealTransport): they may get anything, and a frame that   *)
(* fails may have written nothing.                                         *)
UpdateDue(n) == n = 1 \/ n % UpdateInterval = 0

LinkedGateway(up) == \E l \in up : l[2] = gateway \/ l[3] = gateway

Revision == {"none", "old", "latest"}

Outdated(r) == IF r = "latest" THEN "old" ELSE r

LatestReaches(n, up) ==
  \/ options.ditto = "real"
  \/ (UpdateDue(n) \/ replica[gateway] = "latest") /\ LinkedGateway(up)

ReplicasAfter(n, up) ==
  LET mayHold == [e \in Entity |->
        IF e = gateway /\ options.ditto = "behavioral"
        THEN {IF UpdateDue(n) THEN "latest" ELSE replica[e]}
        ELSE {replica[e]} \union (IF UpdateDue(n) THEN {Outdated(replica[e])} ELSE {})
                          \union (IF LatestReaches(n, up) THEN {"latest"} ELSE {})]
  IN  {r \in [Entity -> Revision] : \A e \in Entity : r[e] \in mayHold[e]}

(* What a frame that does not fail has written.                            *)
Written(n, replicas) == UpdateDue(n) => replicas[gateway] = "latest"

-----------------------------------------------------------------------------
(* The CoT gate: peer_has_latest is what it says of the behavioral model,  *)
(* and true of any revision that a real gateway's store holds.             *)
HasLatest_Fault(r) == r # "none"

HasLatest(r) == IF options.ditto = "real" THEN r # "none" ELSE r = "latest"

Exportable(replicas) == {e \in Entity : HasLatest(replicas[e])}

ExportDue(n) == n % CotInterval = 0

-----------------------------------------------------------------------------
(* A tick that measures, replicates, exports and returns its frame, with   *)
(* the events between the recorded links and those measured.               *)
Return(up) ==
  /\ shown' = up /\ returned' = TRUE
  /\ links' = up
  /\ followed' = IF missed THEN up ELSE Followed(followed, LinkEvents(links, up))
  /\ missed' = FALSE

TickReturns(course) ==
  /\ Behave(course)
  /\ TellPositions(at', NumEntities)
  /\ \E up \in LinkStates(at', told') :
       /\ replica' \in ReplicasAfter(sequence', up) /\ Written(sequence', replica')
       /\ exported' = IF ExportDue(sequence') THEN Exportable(replica') ELSE {}
       /\ Return(up)

LoseFrame == returned' = FALSE /\ UNCHANGED <<shown, followed>>

(* The network fails: nothing that comes after it happens.                 *)
TickUnmeasured(course) ==
  /\ Behave(course)
  /\ MeasureFails(at')
  /\ exported' = {}
  /\ LoseFrame
  /\ UNCHANGED <<links, replica, missed>>

TickUnreplicated_Fault(course) ==
  /\ options.ditto = "real"
  /\ Behave(course)
  /\ TellPositions(at', NumEntities)
  /\ \E up \in LinkStates(at', told') : links' = up /\ replica' \in ReplicasAfter(sequence', up)
  /\ exported' = {}
  /\ LoseFrame
  /\ UNCHANGED missed

(* Real Ditto fails in its frame: the links are not recorded.              *)
TickUnreplicated(course) ==
  /\ options.ditto = "real"
  /\ Behave(course)
  /\ TellPositions(at', NumEntities)
  /\ \E up \in LinkStates(at', told') : replica' \in ReplicasAfter(sequence', up)
  /\ exported' = {}
  /\ LoseFrame
  /\ UNCHANGED <<links, missed>>

(* A read of the real gateway's store fails, when the links were recorded  *)
(* and the entities before the k-th exported: the frame takes the events   *)
(* of its links with it.                                                   *)
TickUnexported(course) ==
  /\ options.ditto = "real"
  /\ Behave(course)
  /\ ExportDue(sequence')
  /\ TellPositions(at', NumEntities)
  /\ \E up \in LinkStates(at', told'), k \in Entity :
       /\ replica' \in ReplicasAfter(sequence', up) /\ Written(sequence', replica')
       /\ exported' = {e \in Exportable(replica') : e < k}
       /\ links' = up
       /\ missed' = (missed \/ up # links)
  /\ LoseFrame

(* The first frame of a run, before any tick: evaluate_frame(false).  If   *)
(* it fails the simulation is dropped by whoever made it.                  *)
Snapshot ==
  /\ Fresh
  /\ TellPositions(at, NumEntities)
  /\ \E up \in LinkStates(at, told') : Return(up)
  /\ exported' = {}
  /\ UNCHANGED <<setup, agents, sequence, replica>>

Tick == \E course \in Courses :
  \/ TickReturns(course)
  \/ TickUnmeasured(course)
  \/ TickUnreplicated(course)
  \/ TickUnexported(course)

Next == Snapshot \/ Tick

Safe == Init /\ [][Next]_vars

(* The producer's loop keeps ticking, whether or not the ticks return: the *)
(* clock of the simulation never stops.                                    *)
Advance == sequence' = Successor(sequence)

Spec == Safe /\ WF_sequence(Advance)

-----------------------------------------------------------------------------
(* Every variable has its type. *)
TypeOK ==
  /\ mission \in Scenario /\ gateway \in Entity /\ options \in Options
  /\ told \in [Nodes -> Position]
  /\ at \in [Entity -> Position]
  /\ waypoint \in [Entity -> Nat \ {0}]
  /\ report \in [Entity -> [status : Status, node : ActiveNode]]
  /\ sequence \in 0 .. 2 * Period
  /\ links \subseteq Link /\ followed \subseteq Link
  /\ replica \in [Entity -> Revision]
  /\ exported \subseteq Entity
  /\ shown \subseteq Link
  /\ returned \in BOOLEAN /\ missed \in BOOLEAN

(* An agent always has a waypoint to fly to: tick indexes the route without*)
(* a check, which is a panic of the producer beyond its end.               *)
WaypointsExist ==
  \A e \in Entity : mission[e].playbook = "area_search" =>
    waypoint[e] \in DOMAIN mission[e].waypoints

(* Whoever follows link_events knows the links of the last frame,          *)
(* whichever ticks before it lost theirs: a frame's events make up for     *)
(* them.  Only a frame lost after its links were recorded, by a failed     *)
(* read of a real gateway, takes events with it (then missed is set, and   *)
(* the next frame's links have to be taken as they are).                   *)
EventsExplainLinks == followed = shown

(* The links of a frame were measured at the positions of that frame, also *)
(* when earlier ticks had told SigForge only some of theirs.               *)
LinksFitPositions ==
  returned => \A l \in shown :
    IF options.network = "analytic" THEN InRange(l, at)
    ELSE Distance(at[l[2]], at[l[3]]) <= PhyReach

(* README.md:7: human authorization is a hard condition of every tree; an  *)
(* agent without it stays where it started, whatever its playbook and the  *)
(* links.  (The wildfire runtime does not read the flag.)                  *)
UnauthorizedStay ==
  \A e \in Entity :
    ~mission[e].authorized /\ mission[e].playbook # "firefighting" =>
      at[e] = mission[e].start

(* An entity of which the gateway did not have the latest documents when a *)
(* tick began is exported in that tick only if it came over a link of the  *)
(* gateway.  (With real peers any revision will do: peer_has_latest is     *)
(* true of it, but not of none.)                                           *)
ExportsCrossLinks ==
  [][\A e \in exported' \ {gateway} :
       IF options.ditto = "behavioral"
       THEN replica[e] = "latest" \/ LinkedGateway(links')
       ELSE replica'[e] # "none"]_vars

(* A relay flies to the middle of its targets only if the last frame shows *)
(* them without a mesh link: it decides on the links of an earlier tick,   *)
(* but never on links that no frame has shown.                             *)
RelayFollowsFrames ==
  [][\A e \in Entity :
       mission[e].playbook = "comms_relay" /\ at'[e] # at[e] /\ ~missed =>
         \A l \in shown :
           ~(l[1] = "mesh" /\ {l[2], l[3]} = {mission[e].targets[1], mission[e].targets[2]})]_vars

(* An authorized search reaches every waypoint of its route again and      *)
(* again, though frames be lost.                                           *)
SearchesCover ==
  \A e \in Entity, p \in Position :
    /\ mission[e].playbook = "area_search" /\ mission[e].authorized
    /\ mission[e].speed > 0 /\ \E i \in DOMAIN mission[e].waypoints : mission[e].waypoints[i] = p
    ~> at[e] = p
=============================================================================
