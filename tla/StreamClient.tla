---------------------------- MODULE StreamClient -----------------------------
(***************************************************************************)
(* The browser's end of the stream (frontend/src/main.ts): what a page     *)
(* does with its socket, its reconnect timer and the envelopes it gets,    *)
(* with several pages and other clients at one server.                     *)
(*                                                                         *)
(* A page asks for the scenario it has selected whenever it connects, and  *)
(* the server switches to it; every page selects the scenario of whatever  *)
(* it receives.  Of the server this module keeps what StateService has a   *)
(* stream show: first a hello and the latest frame, then the frames as     *)
(* they are published, among them late ones of the scenario before and     *)
(* the late first frame of a switch.  A stream that lags skips frames.     *)
(*                                                                         *)
(* A frame is its scenario and sequence number: sim_time_s grows with it.  *)
(***************************************************************************)
EXTENDS Integers, FiniteSets, Sequences, SequencesExt

CONSTANTS
  Page,      \* the open pages
  Scenario,  \* the ids the catalog lists
  None,      \* no scenario, no frame, no page
  Capacity,  \* bound: envelopes on their way to a page
  MaxOthers, \* bound: requests under way that are no page's
  MaxSeq     \* bound: the numbers above alternate with MaxSeq

ASSUME StreamClientAssumption ==
  /\ Scenario # {} /\ None \notin Scenario /\ None \notin Page
  /\ Capacity \in Nat /\ Capacity >= 2
  /\ MaxOthers \in Nat /\ MaxSeq \in Nat \ {0}

Frame == [kind : {"state"}, scenario : Scenario, seq : 0 .. MaxSeq]
Hello == [kind : {"hello"}, scenario : Scenario, seq : {0}]
Envelope == Frame \union Hello
NoFrame == [kind |-> "none"]

(* A request that the server handles, and for which page; of None when it  *)
(* is not a page's, or no longer.                                          *)
Asking == [page : Page \union {None}, at : {"asked"}, scenario : Scenario \union {None}]
Switching == [page : Page \union {None}, at : {"publish"}, scenario : Scenario]
Handler == Asking \union Switching

VARIABLES
  catalog,   \* whether loadScenarios succeeded
  selected,  \* selectedScenario
  observed,  \* observedScenarioId
  last,      \* lastSequence
  trails,    \* the scenarios of the frames drawn since the view was cleared
  lost,      \* whether the socket is closed
  timer,     \* whether reconnectTimer runs
  awaiting,  \* whether the socket is open but has not had its hello
  asked,     \* the scenario in its URL, as long as that is so
  stale,     \* an envelope an earlier socket of the page has yet to dispatch
  inbox,     \* the envelopes on their way to the socket
  handlers,  \* the server's requests
  running,   \* the simulation, as its next frame will show it
  produced,  \* the frame that the producer has yet to publish
  latest     \* the latest frame published

page == <<selected, observed, last, trails>>
socket == <<lost, timer, awaiting, asked>>
wire == <<stale, inbox, handlers>>
server == <<running, produced, latest>>
vars == <<catalog, page, socket, wire, server>>

FirstFrame(s) == [kind |-> "state", scenario |-> s, seq |-> 0]

Init ==
  /\ catalog \in [Page -> BOOLEAN]
  /\ selected \in {s \in [Page -> Scenario \union {None}] :
                     \A p \in Page : catalog[p] <=> s[p] # None}
  /\ observed = [p \in Page |-> None]
  /\ last = [p \in Page |-> -1]
  /\ trails = [p \in Page |-> {}]
  /\ lost = [p \in Page |-> FALSE]
  /\ timer = [p \in Page |-> FALSE]
  /\ awaiting = [p \in Page |-> TRUE]
  /\ asked = selected
  /\ stale = [p \in Page |-> NoFrame]
  /\ inbox = [p \in Page |-> << >>]
  /\ handlers = {[page |-> p, at |-> "asked", scenario |-> selected[p]] : p \in Page}
  /\ \E s \in Scenario : running = FirstFrame(s) /\ latest = FirstFrame(s)
  /\ produced = NoFrame

-----------------------------------------------------------------------------
(* The server.  Once a page's stream is open its frames are those that are *)
(* published; with Capacity of them under way the last makes room.         *)
Streaming(p) == ~lost[p] /\ \A h \in handlers : h.page # p

Sent(q, f) == IF Len(q) < Capacity THEN Append(q, f) ELSE Append(Front(q), f)

Publish(f) ==
  /\ latest' = f
  /\ inbox' = [p \in Page |-> IF Streaming(p) THEN Sent(inbox[p], f) ELSE inbox[p]]

Advance ==
  /\ produced = NoFrame
  /\ running' = [running EXCEPT !.seq = IF @ < MaxSeq THEN @ + 1 ELSE MaxSeq - 1]
  /\ produced' = running'
  /\ UNCHANGED <<catalog, page, socket, wire, latest>>

PublishFrame ==
  /\ produced # NoFrame
  /\ Publish(produced)
  /\ produced' = NoFrame
  /\ UNCHANGED <<catalog, page, socket, stale, handlers, running>>

(* A client that is no page asks for a scenario (POST /api/v1/scenario).   *)
Others == {h \in handlers : h.page = None}

OtherAsks(s) ==
  /\ Cardinality(Others) < MaxOthers
  /\ handlers' = handlers \union {[page |-> None, at |-> "asked", scenario |-> s]}
  /\ UNCHANGED <<catalog, page, socket, stale, inbox, server>>

(* select_scenario replaces the simulation; what the producer has under    *)
(* way is published all the same.                                          *)
NeedsSwitch(h) == h.at = "asked" /\ h.scenario \notin {None, running.scenario}

SwitchScenario(h) ==
  /\ NeedsSwitch(h)
  /\ running' = FirstFrame(h.scenario)
  /\ handlers' = (handlers \ {h}) \union {[h EXCEPT !.at = "publish"]}
  /\ UNCHANGED <<catalog, page, socket, stale, inbox, produced, latest>>

(* It publishes the first frame; a page's request then opens its stream.   *)
Greeted(h, boxes) ==
  IF h.page = None THEN boxes
  ELSE [boxes EXCEPT ![h.page] =
          << [kind |-> "hello", scenario |-> running.scenario, seq |-> 0], latest' >>]

FinishSwitch(h) ==
  /\ h.at = "publish"
  /\ latest' = FirstFrame(h.scenario)
  /\ inbox' = Greeted(h, [p \in Page |-> IF Streaming(p) THEN Sent(inbox[p], latest')
                                                         ELSE inbox[p]])
  /\ handlers' = handlers \ {h}
  /\ UNCHANGED <<catalog, page, socket, stale, running, produced>>

FindActive(h) ==
  /\ h.at = "asked" /\ ~NeedsSwitch(h)
  /\ UNCHANGED latest
  /\ inbox' = Greeted(h, inbox)
  /\ handlers' = handlers \ {h}
  /\ UNCHANGED <<catalog, page, socket, stale, running, produced>>

Serve(h) == SwitchScenario(h) \/ FinishSwitch(h) \/ FindActive(h)

-----------------------------------------------------------------------------
(* The page's socket.  A request that a page gives up is dropped or goes   *)
(* on without it.                                                          *)
Abandoned(p) ==
  LET rest   == {h \in handlers : h.page # p}
      orphan == {[h EXCEPT !.page = None] : h \in handlers \ rest}
  IN  {rest} \union (IF Cardinality(Others \union orphan) <= MaxOthers
                     THEN {rest \union orphan} ELSE {})

(* clearTimeout and setTimeout. *)
StopTimer_Fault(p) == UNCHANGED timer

StopTimer(p) == timer' = [timer EXCEPT ![p] = FALSE]

StartTimer_Fault(p) == timer' = [timer EXCEPT ![p] = ~awaiting[p]]

StartTimer(p) == timer' = [timer EXCEPT ![p] = TRUE]

(* connect: the old socket may still have an envelope to dispatch.         *)
Connect(p, sel) ==
  /\ lost' = [lost EXCEPT ![p] = FALSE]
  /\ StopTimer(p)
  /\ awaiting' = [awaiting EXCEPT ![p] = TRUE]
  /\ asked' = [asked EXCEPT ![p] = sel]
  /\ \E e \in {NoFrame} \union ToSet(inbox[p]) : stale' = [stale EXCEPT ![p] = e]
  /\ inbox' = [inbox EXCEPT ![p] = << >>]
  /\ \E rest \in Abandoned(p) :
       handlers' = rest \union {[page |-> p, at |-> "asked", scenario |-> sel]}

(* Another scenario is chosen: clearDynamicVisuals, and a new socket.      *)
Choose(p, s) ==
  /\ catalog[p] /\ s # selected[p]
  /\ selected' = [selected EXCEPT ![p] = s]
  /\ observed' = [observed EXCEPT ![p] = None]
  /\ last' = [last EXCEPT ![p] = -1]
  /\ trails' = [trails EXCEPT ![p] = {}]
  /\ Connect(p, s)
  /\ UNCHANGED <<catalog, server>>

(* The socket closes, before or after its stream is open: onclose.         *)
Lose(p) ==
  /\ ~lost[p]
  /\ lost' = [lost EXCEPT ![p] = TRUE]
  /\ StartTimer(p)
  /\ awaiting' = [awaiting EXCEPT ![p] = FALSE]
  /\ asked' = [asked EXCEPT ![p] = None]
  /\ inbox' = [inbox EXCEPT ![p] = << >>]
  /\ handlers' \in Abandoned(p)
  /\ UNCHANGED <<catalog, page, stale, server>>

Reconnect(p) ==
  /\ timer[p]
  /\ last' = [last EXCEPT ![p] = -1]
  /\ Connect(p, selected[p])
  /\ UNCHANGED <<catalog, selected, observed, trails, server>>

-----------------------------------------------------------------------------
(* handleMessage.  The view is cleared for another scenario, and for a     *)
(* frame that is older than the last: the simulation was started anew.     *)
Cleared_Fault(p, e) == FALSE

Cleared(p, e) == observed[p] \notin {None, e.scenario}

LastKnown_Fault(p, e) == last[p]   \* clearing the view leaves lastSequence

LastKnown(p, e) == IF Cleared(p, e) THEN -1 ELSE last[p]

Dropped(p, e) == e.seq = LastKnown(p, e)

Restarted(p, e) == e.seq < LastKnown(p, e)

Handle(p, e) ==
  LET drawn == IF Cleared(p, e) THEN {} ELSE trails[p] IN
  /\ observed' = [observed EXCEPT ![p] = e.scenario]
  /\ selected' = [selected EXCEPT ![p] = IF catalog[p] THEN e.scenario ELSE @]
  /\ IF e.kind = "hello" \/ Dropped(p, e)
     THEN /\ last' = [last EXCEPT ![p] = LastKnown(p, e)]
          /\ trails' = [trails EXCEPT ![p] = drawn]
     ELSE /\ last' = [last EXCEPT ![p] = e.seq]
          /\ trails' = [trails EXCEPT ![p] =
                          (IF Restarted(p, e) THEN {} ELSE drawn) \union {e.scenario}]

Receive(p) ==
  /\ inbox[p] # << >>
  /\ Handle(p, Head(inbox[p]))
  /\ awaiting' = [awaiting EXCEPT ![p] = FALSE]
  /\ asked' = [asked EXCEPT ![p] = None]
  /\ inbox' = [inbox EXCEPT ![p] = Tail(@)]
  /\ UNCHANGED <<catalog, lost, timer, stale, handlers, server>>

(* An envelope of an earlier socket is of an earlier generation.           *)
HandleStale_Fault(p, e) == Handle(p, e)

HandleStale(p, e) == UNCHANGED page

ReceiveStale(p) ==
  /\ stale[p] # NoFrame
  /\ HandleStale(p, stale[p])
  /\ stale' = [stale EXCEPT ![p] = NoFrame]
  /\ UNCHANGED <<catalog, socket, inbox, handlers, server>>

-----------------------------------------------------------------------------
Disturbance ==
  \/ \E s \in Scenario : OtherAsks(s)
  \/ \E p \in Page, s \in Scenario : Choose(p, s)
  \/ \E p \in Page : Lose(p)

Next ==
  \/ Advance
  \/ PublishFrame
  \/ \E h \in handlers : Serve(h)
  \/ \E p \in Page : Receive(p) \/ ReceiveStale(p) \/ Reconnect(p)
  \/ Disturbance

Safe == Init /\ [][Next]_vars

(* The producer goes on, which assumes that its ticks succeed in the end   *)
(* (one that fails publishes nothing), the handlers go on, a browser       *)
(* dispatches what it gets and fires its timers; that anybody chooses or   *)
(* fails is up to them.                                                    *)
Spec ==
  /\ Safe
  /\ WF_vars(Advance) /\ WF_vars(PublishFrame)
  /\ WF_vars(\E h \in handlers : Serve(h))
  /\ \A p \in Page : WF_vars(Receive(p)) /\ WF_vars(Reconnect(p))

-----------------------------------------------------------------------------
(* Every variable has its type, and a page that waits to reconnect has     *)
(* lost its socket: the timer never takes a socket away that is open.      *)
Inv ==
  /\ catalog \in [Page -> BOOLEAN]
  /\ selected \in [Page -> Scenario \union {None}]
  /\ observed \in [Page -> Scenario \union {None}]
  /\ last \in [Page -> -1 .. MaxSeq]
  /\ trails \in [Page -> SUBSET Scenario]
  /\ lost \in [Page -> BOOLEAN] /\ timer \in [Page -> BOOLEAN]
  /\ awaiting \in [Page -> BOOLEAN]
  /\ asked \in [Page -> Scenario \union {None}]
  /\ stale \in [Page -> Envelope \union {NoFrame}]
  /\ inbox \in [Page -> Seq(Envelope)]
  /\ handlers \subseteq Handler
  /\ running \in Frame /\ latest \in Frame /\ produced \in Frame \union {NoFrame}
  /\ \A p \in Page : timer[p] => lost[p]

(* What is drawn, and what a reconnect will ask for, is of one scenario:   *)
(* trails of two never mix, whichever frames were late, skipped or lost.   *)
TrailsFitHeading ==
  \A p \in Page : \A s \in trails[p] : observed[p] = s /\ (catalog[p] => selected[p] = s)

(* A choice stands until the socket that asks for it is answered: no late  *)
(* envelope of an earlier socket takes it back.                            *)
ChoiceSurvives == \A p \in Page : awaiting[p] => selected[p] = asked[p]

(* A page whose stream is open, and that has handled all it was sent,      *)
(* draws the latest frame's scenario and has applied its sequence, however *)
(* often the server was switched, whatever the stream skipped and whichever *)
(* frames came late or twice: a dropped frame is one it shows already.     *)
HandledPagesShowTheLatest ==
  \A p \in Page : Streaming(p) /\ inbox[p] = << >> =>
    trails[p] = {latest.scenario} /\ last[p] = latest.seq

(* Once nobody chooses and no socket fails, every page comes to show the   *)
(* scenario that runs, whichever frames of the one before came late: what  *)
(* a page and others asked for is reconciled, a lost socket opened anew.   *)
PagesSettle ==
  <>[][~Disturbance]_vars => \A p \in Page : <>[](trails[p] = {running.scenario})
=============================================================================
