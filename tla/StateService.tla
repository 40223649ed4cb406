---------------------------- MODULE StateService ----------------------------
(***************************************************************************)
(* The state API of crates/autonomy-sim/src/server.rs: one producer task   *)
(* that ticks the simulation and publishes a frame, request handlers that  *)
(* may replace the simulation by another scenario's, and the WebSocket     *)
(* streams that forward what is published.                                 *)
(*                                                                         *)
(* The tasks share simulation, latest and active, each behind a lock of    *)
(* its own that is taken for one statement, and the broadcast channel.  A  *)
(* step here is what a task does between two points where another task may *)
(* run: one locked statement, or one send.                                 *)
(*                                                                         *)
(* Data abstracted: a simulation is the scenario it runs, the number of    *)
(* simulations installed before it (its run) and its sequence; a frame is  *)
(* the simulation it was taken from, as it was then.                       *)
(***************************************************************************)
EXTENDS Naturals, Sequences

CONSTANTS
  Scenario,   \* the registered scenario ids
  Client,     \* the clients; each has at most one request or stream open
  NoFrame,    \* what a task has that holds no frame
  Capacity,   \* of the broadcast channel (64)
  TicksFail,  \* whether Simulation::tick may return an error (SigForge)
  MayDrop,    \* whether a handler may be dropped while it waits for a lock
  MaxRun,     \* bound: replacements of the simulation
  MaxSeq      \* bound: sequences from here on are not told apart

ASSUME BoundsAssumption ==
  /\ Scenario # {}
  /\ Capacity \in Nat \ {0}
  /\ TicksFail \in BOOLEAN /\ MayDrop \in BOOLEAN
  /\ MaxRun \in Nat
  /\ MaxSeq \in Nat

Frame == [scenario : Scenario, run : 0 .. MaxRun, seq : 0 .. MaxSeq]

ASSUME NoFrameAssumption == NoFrame \notin Frame

VARIABLES
  simulation, \* the running simulation
  active,     \* ActiveScenario.id
  latest,     \* the latest state envelope
  producer,   \* the producer task: [at, frame], the frame it is publishing
  pc,         \* where each client's handler or stream is
  initial,    \* the first frame of the replacement a handler has built
  seen,       \* the last state envelope a stream has taken to send
  pending,    \* the client's broadcast receiver: sent, not yet forwarded
  overlapped, \* (history) handlers met between their locks of simulation
              \* and active, or one was dropped there, and no switch has
              \* met none since
  crossed     \* (history) the latest frame was stored while another one was
              \* stored but not yet sent

shared == <<simulation, active, latest>>
streams == <<seen, pending>>
vars == <<shared, producer, pc, initial, streams, overlapped, crossed>>

(* Where a select_scenario has the simulation replaced but is not done.    *)
Switching == {"activate", "store", "send"}

(* Definitions named X_Fault are X with a seeded fault: a run in which one *)
(* takes the place of X shows that the properties can fail.                *)

(* A stream holds its receiver from the subscribe on, before it reads the  *)
(* active id for its hello and the latest frame (stream_socket).           *)
Listening_Fault == {"stream"}   \* subscribed after the latest frame was sent

Listening == {"latest", "first", "stream"}

Location ==
  {"idle", "install"} \union Switching \union {"latest", "first", "stream"}

Init ==
  \E s \in Scenario :
    LET first == [scenario |-> s, run |-> 0, seq |-> 0] IN
    /\ simulation = first
    /\ active = s
    /\ latest = first
    /\ producer = [at |-> "tick", frame |-> NoFrame]
    /\ pc = [c \in Client |-> "idle"]
    /\ initial = [c \in Client |-> NoFrame]
    /\ seen = [c \in Client |-> NoFrame]
    /\ pending = [c \in Client |-> <<>>]
    /\ overlapped = FALSE
    /\ crossed = FALSE

-----------------------------------------------------------------------------
(* updates.send: every receiver gets the frame; one that is Capacity       *)
(* behind loses its oldest (it reads Lagged and goes on).                  *)
Delivered_Fault(q, f) == Append(q, f)   \* a slow receiver grows without bound

Delivered(q, f) ==
  IF Len(q) < Capacity THEN Append(q, f) ELSE Append(Tail(q), f)

Send_Fault(f) == UNCHANGED pending   \* kept for snapshots but not sent

Send(f) ==
  pending' = [c \in Client |->
                IF pc[c] \in Listening THEN Delivered(pending[c], f) ELSE pending[c]]

Goto(c, from, to) ==
  /\ pc[c] = from
  /\ pc' = [pc EXCEPT ![c] = to]

-----------------------------------------------------------------------------
(* The producer: tick under the simulation's lock, then publish_frame.     *)
Advanced == [simulation EXCEPT !.seq = IF @ < MaxSeq THEN @ + 1 ELSE MaxSeq]

Tick ==
  /\ producer.at = "tick"
  /\ simulation' = Advanced
  /\ producer' = [at |-> "store", frame |-> Advanced]
  /\ UNCHANGED <<active, latest, pc, initial, streams, overlapped, crossed>>

(* tick has advanced the sequence by the time its frame can fail.          *)
TickFailure ==
  /\ TicksFail
  /\ producer.at = "tick"
  /\ simulation' = Advanced
  /\ UNCHANGED <<active, latest, producer, pc, initial, streams, overlapped, crossed>>

StoreLatest_Fault(f) == UNCHANGED latest   \* sent but not kept for snapshots

StoreLatest(f) == latest' = f

StoreFrame ==
  /\ producer.at = "store"
  /\ StoreLatest(producer.frame)
  /\ producer' = [producer EXCEPT !.at = "send"]
  /\ crossed' = (\E c \in Client : pc[c] = "send")
  /\ UNCHANGED <<simulation, active, pc, initial, streams, overlapped>>

SendFrame ==
  /\ producer.at = "send"
  /\ Send(producer.frame)
  /\ producer' = [at |-> "tick", frame |-> NoFrame]
  /\ UNCHANGED <<shared, pc, initial, seen, overlapped, crossed>>

-----------------------------------------------------------------------------
(* select_scenario.  A request for the active scenario has nothing to do   *)
(* and is no step here; any other has a replacement built, and its first   *)
(* frame taken; which run that will be is not known yet.                   *)
BeginSelect(c, s) ==
  /\ active # s
  /\ Goto(c, "idle", "install")
  /\ initial' = [initial EXCEPT ![c] = [scenario |-> s, run |-> 0, seq |-> 0]]
  /\ UNCHANGED <<shared, producer, streams, overlapped, crossed>>

InstallSimulation(c) ==
  LET replacement == [initial[c] EXCEPT !.run = simulation.run + 1] IN
  /\ simulation.run < MaxRun
  /\ Goto(c, "install", "activate")
  /\ simulation' = replacement
  /\ initial' = [initial EXCEPT ![c] = replacement]
  /\ overlapped' = (\E d \in Client \ {c} : pc[d] = "activate")
  /\ UNCHANGED <<active, latest, producer, streams, crossed>>

InstallActive_Fault(c) ==   \* left to another handler that is switching
  /\ Goto(c, "activate", "store")
  /\ active' = IF \E d \in Client \ {c} : pc[d] \in Switching THEN active
                                                            ELSE initial[c].scenario
  /\ UNCHANGED <<simulation, latest, producer, initial, streams, overlapped, crossed>>

InstallActive(c) ==
  /\ Goto(c, "activate", "store")
  /\ active' = initial[c].scenario
  /\ UNCHANGED <<simulation, latest, producer, initial, streams, overlapped, crossed>>

InitialFrame_Fault(c) == simulation   \* taken when it is published

InitialFrame(c) == initial[c]

StoreInitial(c) ==
  /\ Goto(c, "store", "send")
  /\ StoreLatest(InitialFrame(c))
  /\ crossed' = (producer.at = "send" \/ \E d \in Client \ {c} : pc[d] = "send")
  /\ UNCHANGED <<simulation, active, producer, initial, streams, overlapped>>

(* The request is over then, or goes on to open its stream (Subscribe).    *)
SendInitial(c) ==
  /\ Goto(c, "send", "idle")
  /\ Send(InitialFrame(c))
  /\ initial' = [initial EXCEPT ![c] = NoFrame]
  /\ UNCHANGED <<shared, producer, seen, overlapped, crossed>>

(* The handler ends early: the scenario does not load, or the client is    *)
(* gone and the handler's future is dropped where it waits for a lock.     *)
EndEarly(c, from) ==
  /\ Goto(c, from, "idle")
  /\ initial' = [initial EXCEPT ![c] = NoFrame]
  /\ overlapped' = (overlapped \/ from = "activate")
  /\ UNCHANGED <<shared, producer, streams, crossed>>

Reject(c) == EndEarly(c, "install")

Drop(c) ==
  /\ MayDrop
  /\ EndEarly(c, "activate") \/ EndEarly(c, "store")

-----------------------------------------------------------------------------
(* stream_socket: subscribe (and read active, which only the hello shows), *)
(* read the latest frame, send both, then forward what the receiver gets.  *)
Subscribe(c) ==
  /\ Goto(c, "idle", "latest")
  /\ UNCHANGED <<shared, producer, initial, streams, overlapped, crossed>>

ReadLatest(c) ==
  /\ Goto(c, "latest", "first")
  /\ seen' = [seen EXCEPT ![c] = latest]
  /\ UNCHANGED <<shared, producer, initial, pending, overlapped, crossed>>

SendLatest(c) ==
  /\ Goto(c, "first", "stream")
  /\ UNCHANGED <<shared, producer, initial, streams, overlapped, crossed>>

Forward(c) ==
  /\ pc[c] = "stream"
  /\ pending[c] # <<>>
  /\ seen' = [seen EXCEPT ![c] = Head(pending[c])]
  /\ pending' = [pending EXCEPT ![c] = Tail(@)]
  /\ UNCHANGED <<shared, producer, pc, initial, overlapped, crossed>>

Disconnect(c) ==
  /\ \E from \in Listening : Goto(c, from, "idle")
  /\ seen' = [seen EXCEPT ![c] = NoFrame]
  /\ pending' = [pending EXCEPT ![c] = <<>>]
  /\ UNCHANGED <<shared, producer, initial, overlapped, crossed>>

-----------------------------------------------------------------------------
Publish == StoreFrame \/ SendFrame

(* What a client's task does next by itself.                               *)
Serve(c) ==
  \/ InstallSimulation(c)
  \/ InstallActive(c)
  \/ StoreInitial(c)
  \/ SendInitial(c)
  \/ ReadLatest(c)
  \/ SendLatest(c)
  \/ Forward(c)

Next ==
  \/ Tick
  \/ TickFailure
  \/ Publish
  \/ \E c \in Client :
       \/ Subscribe(c)
       \/ \E s \in Scenario : BeginSelect(c, s)
       \/ Serve(c)
       \/ Reject(c)
       \/ Drop(c)
       \/ Disconnect(c)

Safe == Init /\ [][Next]_vars

(* The runtime keeps running every task that can go on: a frame taken is   *)
(* published, and a handler that has the next lock proceeds.  That clients *)
(* ask for anything, or leave, is up to them; and whether a tick succeeds  *)
(* is up to SigForge: the loop only guarantees that it is tried.           *)
Spec == Safe /\ WF_vars(Publish) /\ \A c \in Client : WF_vars(Serve(c))

(* Ticks do not fail for ever: an assumption of the properties that name   *)
(* it, and nothing the code guarantees.                                    *)
TicksSucceed == []<><<Tick>>_vars

-----------------------------------------------------------------------------
(* Every variable has its type. *)
TypeOK ==
  /\ simulation \in Frame
  /\ active \in Scenario
  /\ latest \in Frame
  /\ producer \in [at : {"tick", "store", "send"}, frame : Frame \union {NoFrame}]
  /\ pc \in [Client -> Location]
  /\ initial \in [Client -> Frame \union {NoFrame}]
  /\ seen \in [Client -> Frame \union {NoFrame}]
  /\ pending \in [Client -> Seq(Frame)]
  /\ \A c \in Client : Len(pending[c]) <= Capacity
  /\ overlapped \in BOOLEAN /\ crossed \in BOOLEAN

(* Whatever the tasks interleave, the only frame a stream can get behind a *)
(* later frame of the same run is the run's first one, which the handler   *)
(* of the switch publishes and the producer may overtake.                  *)
OnlyInitialIsLate ==
  \A c \in Client : \A i, j \in DOMAIN pending[c] :
    /\ i < j
    /\ pending[c][i].run = pending[c][j].run
    /\ pending[c][j].seq <= pending[c][i].seq
    => pending[c][j].seq \in {0, MaxSeq}

(* A stream that has forwarded everything shows the frame a snapshot       *)
(* request returns, whenever it was opened and however often the scenario  *)
(* was switched: subscribing before reading the latest frame loses nothing *)
(* and what a lagging receiver loses is never the last.  But for the time  *)
(* after two publishers stored and sent in different orders, which ends    *)
(* with the next frame that meets no other.                                *)
Sending == producer.at = "send" \/ \E c \in Client : pc[c] = "send"

StreamsShowTheSnapshot ==
  ~crossed /\ ~Sending =>
    \A c \in Client : pc[c] = "stream" /\ pending[c] = <<>> => seen[c] = latest

(* The active id is that of the simulation that runs, unless switches      *)
(* overlapped between their two locks or one was abandoned there; and the  *)
(* next switch that overlaps none makes it right again.                    *)
ActiveFollowsLoneSwitches ==
  ~overlapped /\ (\A c \in Client : pc[c] # "activate") => active = simulation.scenario

(* If ticks succeed again and again, what a snapshot returns comes to be   *)
(* of the simulation that runs, even when switches overlap or are          *)
(* abandoned half way.  (If they fail for ever after such a switch, it     *)
(* stays a frame of the simulation before.)                                *)
SnapshotsSettle == TicksSucceed => <>[](latest.run = simulation.run)

(* So does, if ticks succeed, what a stream shows a client that stays.     *)
StreamsSettle ==
  TicksSucceed =>
    \A c \in Client : <>[](pc[c] = "stream" => seen[c].run = simulation.run)

(* README: "GET /api/v1/scenarios reports the current active ID": with no  *)
(* switch under way it names the scenario of the simulation that runs.     *)
ActiveNamesTheSimulation ==
  (\A c \in Client : pc[c] \notin Switching) => active = simulation.scenario

(* ARCHITECTURE: "within one active scenario run, sequence increases by    *)
(* one per state frame": so in the frames a stream has still to forward.   *)
SequenceIncreasesByOne ==
  \A c \in Client : \A i \in DOMAIN pending[c] :
    /\ i > 1
    /\ pending[c][i].run = pending[c][i - 1].run
    => \/ pending[c][i].seq = pending[c][i - 1].seq + 1
       \/ pending[c][i].seq = MaxSeq /\ pending[c][i - 1].seq = MaxSeq
=============================================================================
