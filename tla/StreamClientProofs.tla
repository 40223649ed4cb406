------------------------- MODULE StreamClientProofs --------------------------
(***************************************************************************)
(* Proofs about StreamClient, for every number of pages, scenarios and     *)
(* requests, and for every bound.                                          *)
(***************************************************************************)
EXTENDS StreamClient, SequenceTheorems, TLAPS

(* The inductive invariant: what Inv says of each part of the state, and   *)
(* the two properties of a page.                                           *)
PageOK ==
  /\ catalog \in [Page -> BOOLEAN]
  /\ selected \in [Page -> Scenario \union {None}]
  /\ observed \in [Page -> Scenario \union {None}]
  /\ last \in [Page -> -1 .. MaxSeq]
  /\ trails \in [Page -> SUBSET Scenario]

SocketOK ==
  /\ lost \in [Page -> BOOLEAN] /\ timer \in [Page -> BOOLEAN]
  /\ awaiting \in [Page -> BOOLEAN]
  /\ asked \in [Page -> Scenario \union {None}]
  /\ \A p \in Page : timer[p] => lost[p]

WireOK ==
  /\ stale \in [Page -> Envelope \union {NoFrame}]
  /\ inbox \in [Page -> Seq(Envelope)]
  /\ handlers \subseteq Handler

ServerOK == running \in Frame /\ latest \in Frame /\ produced \in Frame \union {NoFrame}

(* A page that has applied a frame has drawn one since.                    *)
DrawsWhatItApplies == \A p \in Page : last[p] # -1 => trails[p] # {}

(* An open stream ends with the latest frame: it is the last one under     *)
(* way, or the page shows it.                                              *)
Shows(p, f) == trails[p] = {f.scenario} /\ last[p] = f.seq

FollowsTheLatest(p) ==
  Streaming(p) =>
    IF inbox[p] = << >> THEN Shows(p, latest) ELSE inbox[p][Len(inbox[p])] = latest

IInv ==
  /\ PageOK /\ SocketOK /\ WireOK /\ ServerOK
  /\ TrailsFitHeading /\ ChoiceSurvives
  /\ DrawsWhatItApplies
  /\ \A p \in Page : FollowsTheLatest(p)

LEMMA InvParts == Inv <=> PageOK /\ SocketOK /\ WireOK /\ ServerOK
BY DEF Inv, PageOK, SocketOK, WireOK, ServerOK

-----------------------------------------------------------------------------
(* What a page gets from an envelope.                                      *)
LEMMA EnvelopeFields ==
  ASSUME NEW e \in Envelope
  PROVE  /\ e.scenario \in Scenario /\ e.seq \in 0 .. MaxSeq /\ e.seq \in -1 .. MaxSeq
         /\ e # NoFrame
<1>1. MaxSeq \in Nat
  BY StreamClientAssumption
<1>2. CASE e \in Frame
  BY <1>1, <1>2 DEF Frame, NoFrame
<1>3. CASE e \in Hello
  BY <1>1, <1>3 DEF Hello, NoFrame
<1> QED
  BY <1>2, <1>3 DEF Envelope

LEMMA FirstFrameType == ASSUME NEW s \in Scenario PROVE FirstFrame(s) \in Frame
BY StreamClientAssumption DEF FirstFrame, Frame

(* A queue that has no room loses its last envelope, and holds envelopes   *)
(* only.                                                                   *)
LEMMA SentType ==
  ASSUME NEW q \in Seq(Envelope), NEW f \in Frame
  PROVE  Sent(q, f) \in Seq(Envelope)
<1>1. f \in Envelope
  BY DEF Envelope
<1>2. Len(q) < Capacity => Append(q, f) \in Seq(Envelope)
  BY <1>1
<1>3. ASSUME ~(Len(q) < Capacity)
      PROVE  Append(Front(q), f) \in Seq(Envelope)
  <2>1. Len(q) \in Nat /\ Len(q) >= 1
    BY <1>3, StreamClientAssumption
  <2>2. Len(q) - 1 \in Nat /\ \A i \in 1 .. Len(q) - 1 : q[i] \in Envelope
    BY <2>1
  <2>3. SubSeq(q, 1, Len(q) - 1) \in Seq(Envelope)
    BY <2>1, <2>2
  <2> QED
    BY <1>1, <2>3 DEF Front
<1> QED
  BY <1>2, <1>3 DEF Sent

LEMMA SentLast ==
  ASSUME NEW q \in Seq(Envelope), NEW f \in Frame
  PROVE  Sent(q, f) # << >> /\ Sent(q, f)[Len(Sent(q, f))] = f
<1>1. f \in Envelope
  BY DEF Envelope
<1>2. ASSUME NEW r \in Seq(Envelope)
      PROVE  Append(r, f) # << >> /\ Append(r, f)[Len(Append(r, f))] = f
  BY <1>1
<1>3. ASSUME ~(Len(q) < Capacity) PROVE Front(q) \in Seq(Envelope)
  <2>1. Len(q) \in Nat /\ Len(q) >= 1
    BY <1>3, StreamClientAssumption
  <2>2. Len(q) - 1 \in Nat /\ \A i \in 1 .. Len(q) - 1 : q[i] \in Envelope
    BY <2>1
  <2> QED
    BY <2>1, <2>2 DEF Front
<1> QED
  BY <1>2, <1>3 DEF Sent

(* The last one stays when the first is taken, unless it is the first.     *)
LEMMA TailLast ==
  ASSUME NEW q \in Seq(Envelope), q # << >>
  PROVE  IF Tail(q) = << >> THEN Head(q) = q[Len(q)]
                            ELSE Tail(q)[Len(Tail(q))] = q[Len(q)]
<1>1. Len(q) \in Nat /\ Head(q) = q[1]
  OBVIOUS
<1>2. /\ Tail(q) \in Seq(Envelope) /\ Len(Tail(q)) = Len(q) - 1
      /\ \A i \in 1 .. Len(Tail(q)) : Tail(q)[i] = q[i + 1]
  BY HeadTailProperties
<1>3. CASE Tail(q) = << >>
  <2>1. Len(q) = 1
    BY <1>1, <1>2, <1>3
  <2> QED
    BY <1>1, <1>3, <2>1
<1>4. CASE Tail(q) # << >>
  <2>1. Len(Tail(q)) \in 1 .. Len(Tail(q))
    BY <1>2, <1>4
  <2>2. Tail(q)[Len(Tail(q))] = q[Len(q) - 1 + 1]
    BY <1>2, <2>1
  <2> QED
    BY <1>1, <1>4, <2>2
<1> QED
  BY <1>3, <1>4

LEMMA PublishType ==
  ASSUME WireOK, NEW f \in Frame
  PROVE  [p \in Page |-> IF Streaming(p) THEN Sent(inbox[p], f) ELSE inbox[p]]
           \in [Page -> Seq(Envelope)]
BY SentType DEF WireOK

LEMMA GreetedType ==
  ASSUME NEW h \in Handler, NEW boxes \in [Page -> Seq(Envelope)],
         ServerOK, latest' \in Frame
  PROVE  Greeted(h, boxes) \in [Page -> Seq(Envelope)]
<1> DEFINE hello == [kind |-> "hello", scenario |-> running.scenario, seq |-> 0]
<1>1. running.scenario \in Scenario
  BY DEF ServerOK, Frame
<1>2. hello \in Hello
  BY <1>1 DEF Hello
<1>3. hello \in Envelope /\ latest' \in Envelope
  BY <1>2 DEF Envelope
<1> HIDE DEF hello
<1>4. << hello, latest' >> \in Seq(Envelope)
  BY <1>3
<1> QED
  BY <1>4 DEF Greeted, hello

LEMMA AbandonedType ==
  ASSUME WireOK, NEW p \in Page, NEW rest \in Abandoned(p)
  PROVE  rest \subseteq Handler
<1> DEFINE others == {h \in handlers : h.page # p}
           orphan == {[h EXCEPT !.page = None] : h \in handlers \ others}
<1>1. rest = others \/ rest = others \union orphan
  BY DEF Abandoned
<1>2. others \subseteq Handler /\ handlers \subseteq Handler
  BY DEF WireOK
<1>3. ASSUME NEW h \in handlers PROVE [h EXCEPT !.page = None] \in Handler
  BY <1>2 DEF Handler, Asking, Switching
<1>4. orphan \subseteq Handler
  BY <1>3
<1> QED
  BY <1>1, <1>2, <1>4

-----------------------------------------------------------------------------
LEMMA InitIInv == Init => IInv
<1> SUFFICES ASSUME Init PROVE IInv
  OBVIOUS
<1>1. PageOK
  BY StreamClientAssumption DEF Init, PageOK
<1>2. SocketOK
  BY <1>1 DEF Init, SocketOK, PageOK
<1>3. WireOK
  BY <1>1 DEF Init, WireOK, PageOK, Handler, Asking
<1>4. ServerOK
  BY FirstFrameType DEF Init, ServerOK
<1>5. TrailsFitHeading /\ ChoiceSurvives /\ DrawsWhatItApplies
  BY DEF Init, TrailsFitHeading, ChoiceSurvives, DrawsWhatItApplies
<1>6. ASSUME NEW p \in Page PROVE FollowsTheLatest(p)
  <2>1. [page |-> p, at |-> "asked", scenario |-> selected[p]] \in handlers
    BY DEF Init
  <2>2. ~Streaming(p)
    BY <2>1 DEF Streaming
  <2> QED
    BY <2>2 DEF FollowsTheLatest
<1> QED
  BY <1>1, <1>2, <1>3, <1>4, <1>5, <1>6 DEF IInv

(* A stream that is not opened, and gets nothing, by a step that leaves    *)
(* its page alone goes on as it was.                                       *)
LEMMA OtherStream ==
  ASSUME IInv, NEW p \in Page,
         Streaming(p)' => Streaming(p), inbox'[p] = inbox[p], UNCHANGED latest,
         trails'[p] = trails[p], last'[p] = last[p]
  PROVE  FollowsTheLatest(p)'
<1>1. FollowsTheLatest(p)
  BY DEF IInv
<1>2. Shows(p, latest) => Shows(p, latest)'
  BY DEF Shows
<1> HIDE DEF Shows
<1> QED
  BY <1>1, <1>2 DEF FollowsTheLatest

(* A step that leaves the pages and their sockets alone.                   *)
LEMMA ServerStep ==
  ASSUME IInv, UNCHANGED <<catalog, page, socket>>, WireOK', ServerOK',
         \A p \in Page : FollowsTheLatest(p)'
  PROVE  IInv'
<1>1. UNCHANGED <<catalog, selected, observed, last, trails, lost, timer, awaiting, asked>>
  BY DEF page, socket
<1>2. PageOK' /\ SocketOK'
  BY <1>1 DEF IInv, PageOK, SocketOK
<1>3. TrailsFitHeading' /\ ChoiceSurvives' /\ DrawsWhatItApplies'
  BY <1>1 DEF IInv, TrailsFitHeading, ChoiceSurvives, DrawsWhatItApplies
<1> QED
  BY <1>2, <1>3 DEF IInv

(* Frames that go to every open stream are the last of each.               *)
LEMMA PublishedStream ==
  ASSUME IInv, NEW p \in Page, NEW f \in Frame, latest' = f,
         Streaming(p)' => Streaming(p) /\ inbox'[p] = Sent(inbox[p], f)
  PROVE  FollowsTheLatest(p)'
<1>1. inbox[p] \in Seq(Envelope)
  BY DEF IInv, WireOK
<1> QED
  BY <1>1, SentLast DEF FollowsTheLatest

LEMMA ProducerStep ==
  ASSUME IInv, Advance \/ PublishFrame
  PROVE  IInv'
<1>1. CASE Advance
  <2>1. running' \in Frame
    <3>1. running \in Frame /\ MaxSeq \in Nat /\ MaxSeq >= 1
      BY StreamClientAssumption DEF IInv, ServerOK
    <3> DEFINE n == IF running.seq < MaxSeq THEN running.seq + 1 ELSE MaxSeq - 1
    <3>2. n \in 0 .. MaxSeq
      BY <3>1 DEF Frame
    <3>3. running' = [running EXCEPT !.seq = n]
      BY <1>1 DEF Advance
    <3> HIDE DEF n
    <3> QED
      BY <3>1, <3>2, <3>3 DEF Frame
  <2>2. ServerOK'
    BY <1>1, <2>1 DEF Advance, IInv, ServerOK
  <2>3. WireOK'
    BY <1>1 DEF Advance, IInv, WireOK, wire
  <2>4. ASSUME NEW p \in Page PROVE FollowsTheLatest(p)'
    BY <1>1, OtherStream DEF Advance, Streaming, page, socket, wire
  <2> QED
    BY <1>1, <2>2, <2>3, <2>4, ServerStep DEF Advance
<1>2. CASE PublishFrame
  <2>1. produced \in Frame
    BY <1>2 DEF PublishFrame, IInv, ServerOK
  <2>2. /\ latest' = produced /\ produced' = NoFrame /\ UNCHANGED running
        /\ inbox' = [p \in Page |-> IF Streaming(p) THEN Sent(inbox[p], produced) ELSE inbox[p]]
        /\ UNCHANGED <<stale, handlers>>
    BY <1>2 DEF PublishFrame, Publish
  <2>3. ServerOK'
    BY <2>1, <2>2 DEF IInv, ServerOK
  <2>4. WireOK'
    BY <2>1, <2>2, PublishType DEF IInv, WireOK
  <2>5. UNCHANGED lost
    BY <1>2 DEF PublishFrame, socket
  <2>6. ASSUME NEW p \in Page PROVE FollowsTheLatest(p)'
    BY <2>1, <2>2, <2>5, PublishedStream DEF Streaming
  <2> QED
    BY <1>2, <2>3, <2>4, <2>6, ServerStep DEF PublishFrame
<1> QED
  BY <1>1, <1>2

LEMMA OtherStep ==
  ASSUME IInv, NEW s \in Scenario, OtherAsks(s)
  PROVE  IInv'
<1>1. [page |-> None, at |-> "asked", scenario |-> s] \in Handler
  BY DEF Handler, Asking
<1>2. WireOK'
  BY <1>1 DEF OtherAsks, IInv, WireOK
<1>3. ServerOK'
  BY DEF OtherAsks, IInv, ServerOK, server
<1>4. ASSUME NEW p \in Page PROVE FollowsTheLatest(p)'
  BY OtherStream DEF OtherAsks, Streaming, page, socket, server
<1> QED
  BY <1>2, <1>3, <1>4, ServerStep DEF OtherAsks

(* A request that is answered opens the stream of its page, which begins   *)
(* with a hello and the latest frame, and of no other page.                *)
LEMMA GreetedStream ==
  ASSUME IInv, NEW h \in handlers, handlers' = handlers \ {h}, UNCHANGED <<page, lost>>,
         NEW boxes \in [Page -> Seq(Envelope)], inbox' = Greeted(h, boxes),
         NEW p \in Page,
         \/ latest' = latest /\ boxes[p] = inbox[p]
         \/ /\ latest' \in Frame
            /\ Streaming(p) => boxes[p] = Sent(inbox[p], latest')
  PROVE  FollowsTheLatest(p)'
<1>1. CASE h.page = p
  <2> DEFINE hello == [kind |-> "hello", scenario |-> running.scenario, seq |-> 0]
  <2>1. inbox'[p] = << hello, latest' >>
    BY <1>1, StreamClientAssumption DEF Greeted
  <2> HIDE DEF hello
  <2>2. inbox'[p] # << >> /\ inbox'[p][Len(inbox'[p])] = latest'
    BY <2>1
  <2> QED
    BY <2>2 DEF FollowsTheLatest
<1>2. CASE h.page # p
  <2>1. inbox'[p] = boxes[p]
    BY <1>2 DEF Greeted
  <2>2. Streaming(p)' => Streaming(p)
    BY <1>2 DEF Streaming
  <2> QED
    BY <2>1, <2>2, OtherStream, PublishedStream DEF page
<1> QED
  BY <1>1, <1>2

LEMMA ServeStep ==
  ASSUME IInv, NEW h \in handlers, Serve(h)
  PROVE  IInv'
<1>1. h \in Handler /\ WireOK /\ ServerOK
  BY DEF IInv, WireOK
<1>2. CASE SwitchScenario(h)
  <2>1. h.scenario \in Scenario
    BY <1>1, <1>2 DEF SwitchScenario, NeedsSwitch, Handler, Asking, Switching
  <2>2. [h EXCEPT !.at = "publish"] \in Handler
    BY <1>1, <2>1 DEF Handler, Asking, Switching
  <2>3. WireOK' /\ ServerOK'
    BY <1>1, <1>2, <2>1, <2>2, FirstFrameType DEF SwitchScenario, WireOK, ServerOK
  <2>4. h.page = [h EXCEPT !.at = "publish"].page
    BY <1>1 DEF Handler, Asking, Switching
  <2>5. ASSUME NEW p \in Page PROVE FollowsTheLatest(p)'
    BY <1>2, <2>4, OtherStream DEF SwitchScenario, Streaming, page, socket
  <2> QED
    BY <1>2, <2>3, <2>5, ServerStep DEF SwitchScenario
<1>3. CASE FindActive(h)
  <2>1. latest' \in Frame
    BY <1>1, <1>3 DEF FindActive, ServerOK
  <2>2. Greeted(h, inbox) \in [Page -> Seq(Envelope)]
    BY <1>1, <2>1, GreetedType DEF WireOK
  <2>3. WireOK' /\ ServerOK'
    BY <1>1, <1>3, <2>2 DEF FindActive, WireOK, ServerOK
  <2>4. ASSUME NEW p \in Page PROVE FollowsTheLatest(p)'
    BY <1>1, <1>3, GreetedStream DEF FindActive, WireOK, socket
  <2> QED
    BY <1>3, <2>3, <2>4, ServerStep DEF FindActive
<1>4. CASE FinishSwitch(h) /\ h.scenario \in Scenario
  <2> DEFINE boxes == [p \in Page |-> IF Streaming(p) THEN Sent(inbox[p], latest') ELSE inbox[p]]
  <2>1. latest' \in Frame
    BY <1>4, FirstFrameType DEF FinishSwitch
  <2>2. boxes \in [Page -> Seq(Envelope)]
    BY <1>1, <2>1, PublishType
  <2>3. inbox' = Greeted(h, boxes) /\ handlers' = handlers \ {h} /\ UNCHANGED stale
    BY <1>4 DEF FinishSwitch
  <2> HIDE DEF boxes
  <2>4. Greeted(h, boxes) \in [Page -> Seq(Envelope)]
    BY <1>1, <2>1, <2>2, GreetedType
  <2>5. WireOK' /\ ServerOK'
    BY <1>1, <1>4, <2>1, <2>3, <2>4 DEF FinishSwitch, WireOK, ServerOK
  <2>6. ASSUME NEW p \in Page PROVE FollowsTheLatest(p)'
    <3>1. Streaming(p) => boxes[p] = Sent(inbox[p], latest')
      BY DEF boxes
    <3>2. UNCHANGED <<page, lost>>
      BY <1>4 DEF FinishSwitch, socket
    <3> QED
      BY <2>1, <2>2, <2>3, <3>1, <3>2, GreetedStream
  <2> QED
    BY <1>4, <2>5, <2>6, ServerStep DEF FinishSwitch
<1>5. FinishSwitch(h) => h.scenario \in Scenario
  BY <1>1 DEF FinishSwitch, Handler, Asking, Switching
<1> QED
  BY <1>2, <1>3, <1>4, <1>5 DEF Serve

-----------------------------------------------------------------------------
(* The requests of other pages go on.                                      *)
LEMMA AbandonedKeeps ==
  ASSUME NEW p \in Page, NEW rest \in Abandoned(p), NEW h \in handlers, h.page # p
  PROVE  h \in rest
BY DEF Abandoned

(* A new socket, of a page that asks for what it has selected.             *)
LEMMA ConnectResult ==
  ASSUME IInv, NEW p \in Page, NEW sel \in Scenario \union {None}, Connect(p, sel),
         UNCHANGED server
  PROVE  /\ SocketOK' /\ WireOK' /\ ServerOK'
         /\ ~Streaming(p)'
         /\ \A q \in Page \ {p} : inbox'[q] = inbox[q] /\ (Streaming(q)' => Streaming(q))
<1>1. SocketOK /\ WireOK /\ ServerOK
  BY DEF IInv
<1>2. SocketOK'
  BY <1>1 DEF Connect, StopTimer, SocketOK
<1>3. stale' \in [Page -> Envelope \union {NoFrame}]
  <2>1. PICK e \in {NoFrame} \union ToSet(inbox[p]) : stale' = [stale EXCEPT ![p] = e]
    BY DEF Connect
  <2>2. inbox[p] \in Seq(Envelope)
    BY <1>1 DEF WireOK
  <2>3. ToSet(inbox[p]) \subseteq Envelope
    BY <2>2 DEF ToSet
  <2> QED
    BY <1>1, <2>1, <2>3 DEF WireOK
<1>4. handlers' \subseteq Handler
  <2>1. PICK rest \in Abandoned(p) :
          handlers' = rest \union {[page |-> p, at |-> "asked", scenario |-> sel]}
    BY DEF Connect
  <2>2. [page |-> p, at |-> "asked", scenario |-> sel] \in Handler
    BY DEF Handler, Asking
  <2> QED
    BY <1>1, <2>1, <2>2, AbandonedType
<1>5. inbox' \in [Page -> Seq(Envelope)]
  BY <1>1 DEF Connect, WireOK
<1>6. ServerOK'
  BY <1>1 DEF ServerOK, server
<1>7. ~Streaming(p)' /\ \A q \in Page \ {p} : Streaming(q)' => Streaming(q)
  <2>1. PICK rest \in Abandoned(p) :
          handlers' = rest \union {[page |-> p, at |-> "asked", scenario |-> sel]}
    BY DEF Connect
  <2>2. \A q \in Page \ {p} : lost'[q] = lost[q]
    BY <1>1 DEF Connect, SocketOK
  <2>3. ~Streaming(p)'
    <3>1. [page |-> p, at |-> "asked", scenario |-> sel] \in handlers'
      BY <2>1
    <3> QED
      BY <3>1 DEF Streaming
  <2>4. ASSUME NEW q \in Page \ {p}, Streaming(q)' PROVE Streaming(q)
    <3>1. ASSUME NEW h \in handlers, h.page = q PROVE FALSE
      BY <2>1, <2>4, <3>1, AbandonedKeeps DEF Streaming
    <3> QED
      BY <2>2, <2>4, <3>1 DEF Streaming
  <2> QED
    BY <2>3, <2>4
<1>8. \A q \in Page \ {p} : inbox'[q] = inbox[q]
  BY <1>1 DEF Connect, WireOK
<1> QED
  BY <1>2, <1>3, <1>4, <1>5, <1>6, <1>7, <1>8 DEF WireOK

(* So the streams are as they were but for that of the page.               *)
LEMMA ConnectStreams ==
  ASSUME IInv, NEW p \in Page, NEW sel \in Scenario \union {None}, Connect(p, sel),
         UNCHANGED server, NEW q \in Page,
         q # p => trails'[q] = trails[q] /\ last'[q] = last[q]
  PROVE  FollowsTheLatest(q)'
<1>1. CASE q = p
  BY <1>1, ConnectResult DEF FollowsTheLatest
<1>2. CASE q # p
  BY <1>2, ConnectResult, OtherStream DEF server
<1> QED
  BY <1>1, <1>2

LEMMA ChooseStep ==
  ASSUME IInv, NEW p \in Page, NEW s \in Scenario, Choose(p, s)
  PROVE  IInv'
<1>1. /\ Connect(p, s) /\ UNCHANGED server /\ UNCHANGED catalog
      /\ selected' = [selected EXCEPT ![p] = s] /\ observed' = [observed EXCEPT ![p] = None]
      /\ last' = [last EXCEPT ![p] = -1] /\ trails' = [trails EXCEPT ![p] = {}]
  BY DEF Choose
<1>2. PageOK /\ SocketOK
  BY DEF IInv
<1>3. PageOK'
  BY <1>1, <1>2, StreamClientAssumption DEF PageOK
<1>4. SocketOK' /\ WireOK' /\ ServerOK'
  BY <1>1, ConnectResult
<1>5. TrailsFitHeading'
  BY <1>1, <1>2 DEF IInv, TrailsFitHeading, PageOK
<1>6. ChoiceSurvives'
  <2>1. awaiting' = [awaiting EXCEPT ![p] = TRUE] /\ asked' = [asked EXCEPT ![p] = s]
    BY <1>1 DEF Connect
  <2> QED
    BY <1>1, <1>2, <2>1 DEF IInv, ChoiceSurvives, PageOK, SocketOK
<1>7. DrawsWhatItApplies'
  BY <1>1, <1>2 DEF IInv, DrawsWhatItApplies, PageOK
<1>8. ASSUME NEW q \in Page PROVE FollowsTheLatest(q)'
  <2>1. q # p => trails'[q] = trails[q] /\ last'[q] = last[q]
    BY <1>1, <1>2 DEF PageOK
  <2> QED
    BY <1>1, <2>1, ConnectStreams
<1> QED
  BY <1>3, <1>4, <1>5, <1>6, <1>7, <1>8 DEF IInv

LEMMA ReconnectStep ==
  ASSUME IInv, NEW p \in Page, Reconnect(p)
  PROVE  IInv'
<1>1. /\ Connect(p, selected[p]) /\ UNCHANGED server /\ UNCHANGED <<catalog, selected, observed, trails>>
      /\ last' = [last EXCEPT ![p] = -1]
  BY DEF Reconnect
<1>2. PageOK /\ SocketOK
  BY DEF IInv
<1>3. PageOK'
  BY <1>1, <1>2, StreamClientAssumption DEF PageOK
<1>4. SocketOK' /\ WireOK' /\ ServerOK'
  <2>1. selected[p] \in Scenario \union {None}
    BY <1>2 DEF PageOK
  <2> QED
    BY <1>1, <2>1, ConnectResult
<1>5. TrailsFitHeading'
  BY <1>1 DEF IInv, TrailsFitHeading
<1>6. ChoiceSurvives'
  <2>1. awaiting' = [awaiting EXCEPT ![p] = TRUE] /\ asked' = [asked EXCEPT ![p] = selected[p]]
    BY <1>1 DEF Connect
  <2> QED
    BY <1>1, <1>2, <2>1 DEF IInv, ChoiceSurvives, PageOK, SocketOK
<1>7. DrawsWhatItApplies'
  BY <1>1, <1>2 DEF IInv, DrawsWhatItApplies, PageOK
<1>8. ASSUME NEW q \in Page PROVE FollowsTheLatest(q)'
  <2>1. q # p => trails'[q] = trails[q] /\ last'[q] = last[q]
    BY <1>1, <1>2 DEF PageOK
  <2>2. selected[p] \in Scenario \union {None}
    BY <1>2 DEF PageOK
  <2> QED
    BY <1>1, <2>1, <2>2, ConnectStreams
<1> QED
  BY <1>3, <1>4, <1>5, <1>6, <1>7, <1>8 DEF IInv

LEMMA LoseStep ==
  ASSUME IInv, NEW p \in Page, Lose(p)
  PROVE  IInv'
<1>1. PageOK /\ SocketOK /\ WireOK /\ ServerOK
  BY DEF IInv
<1>2. /\ lost' = [lost EXCEPT ![p] = TRUE] /\ timer' = [timer EXCEPT ![p] = TRUE]
      /\ awaiting' = [awaiting EXCEPT ![p] = FALSE] /\ asked' = [asked EXCEPT ![p] = None]
      /\ inbox' = [inbox EXCEPT ![p] = << >>] /\ handlers' \in Abandoned(p)
      /\ UNCHANGED <<catalog, selected, observed, last, trails, stale>>
      /\ UNCHANGED <<running, produced, latest>>
  BY DEF Lose, StartTimer, page, server
<1>3. PageOK' /\ ServerOK'
  BY <1>1, <1>2 DEF PageOK, ServerOK
<1>4. SocketOK'
  BY <1>1, <1>2 DEF SocketOK
<1>5. WireOK'
  <2>1. handlers' \subseteq Handler
    BY <1>1, <1>2, AbandonedType
  <2> QED
    BY <1>1, <1>2, <2>1 DEF WireOK
<1>6. TrailsFitHeading' /\ ChoiceSurvives' /\ DrawsWhatItApplies'
  BY <1>1, <1>2 DEF IInv, TrailsFitHeading, ChoiceSurvives, SocketOK, DrawsWhatItApplies
<1>7. ASSUME NEW q \in Page PROVE FollowsTheLatest(q)'
  <2>1. CASE q = p
    BY <1>1, <1>2, <2>1 DEF FollowsTheLatest, Streaming, SocketOK
  <2>2. CASE q # p
    <3>1. lost'[q] = lost[q] /\ inbox'[q] = inbox[q]
      BY <1>1, <1>2, <2>2 DEF SocketOK, WireOK
    <3>2. Streaming(q)' => Streaming(q)
      BY <1>2, <2>2, <3>1, AbandonedKeeps DEF Streaming
    <3> QED
      BY <1>2, <3>1, <3>2, OtherStream
  <2> QED
    BY <2>1, <2>2
<1> QED
  BY <1>3, <1>4, <1>5, <1>6, <1>7 DEF IInv

-----------------------------------------------------------------------------
(* handleMessage keeps what is drawn to one scenario: the view is cleared  *)
(* before another is drawn, and nothing is drawn before one was observed.  *)
LEMMA HandleResult ==
  ASSUME PageOK, TrailsFitHeading, DrawsWhatItApplies,
         NEW p \in Page, NEW e \in Envelope, Handle(p, e), UNCHANGED catalog
  PROVE  /\ PageOK' /\ TrailsFitHeading' /\ DrawsWhatItApplies'
         /\ \A q \in Page : q # p => /\ selected'[q] = selected[q]
                                     /\ trails'[q] = trails[q] /\ last'[q] = last[q]
         /\ e \in Frame => trails'[p] = {e.scenario} /\ last'[p] = e.seq
<1> DEFINE drawn == IF Cleared(p, e) THEN {} ELSE trails[p]
<1>1. /\ e.scenario \in Scenario /\ e.seq \in -1 .. MaxSeq
      /\ None \notin Scenario /\ MaxSeq \in Nat
  BY EnvelopeFields, StreamClientAssumption
<1>2. ASSUME NEW s \in drawn PROVE s = e.scenario
  <2>1. observed[p] = s /\ s \in Scenario
    BY <1>2 DEF PageOK, TrailsFitHeading
  <2>2. observed[p] \in {None, e.scenario}
    BY <1>2 DEF Cleared
  <2> QED
    BY <1>1, <2>1, <2>2
<1>3. LastKnown(p, e) \in -1 .. MaxSeq
  BY <1>1 DEF LastKnown, PageOK
<1>4. drawn \subseteq {e.scenario}
  BY <1>2
<1>5. /\ observed' = [observed EXCEPT ![p] = e.scenario]
      /\ selected' = [selected EXCEPT ![p] = IF catalog[p] THEN e.scenario ELSE selected[p]]
  BY DEF Handle
<1>6. \E n \in -1 .. MaxSeq : last' = [last EXCEPT ![p] = n]
  BY <1>1, <1>3 DEF Handle
<1>7. \E d \in SUBSET {e.scenario} : trails' = [trails EXCEPT ![p] = d]
  <2>1. trails' = [trails EXCEPT ![p] = drawn]
        \/ trails' = [trails EXCEPT ![p] =
                        (IF Restarted(p, e) THEN {} ELSE drawn) \union {e.scenario}]
    BY DEF Handle
  <2> HIDE DEF drawn
  <2>2. (IF Restarted(p, e) THEN {} ELSE drawn) \union {e.scenario} \in SUBSET {e.scenario}
    BY <1>4
  <2> QED
    BY <1>4, <2>1, <2>2
<1> HIDE DEF drawn
<1>8. PageOK'
  BY <1>1, <1>5, <1>6, <1>7 DEF PageOK
<1>9. TrailsFitHeading'
  BY <1>1, <1>5, <1>7 DEF PageOK, TrailsFitHeading
<1>10. ASSUME LastKnown(p, e) # -1 PROVE drawn = {e.scenario}
  <2>1. drawn = trails[p] /\ last[p] # -1
    BY <1>10 DEF drawn, LastKnown
  <2> QED
    BY <1>4, <2>1 DEF DrawsWhatItApplies
<1>11. CASE e.kind = "hello" \/ Dropped(p, e)
  <2>1. last' = [last EXCEPT ![p] = LastKnown(p, e)] /\ trails' = [trails EXCEPT ![p] = drawn]
    BY <1>11 DEF Handle, drawn
  <2>2. DrawsWhatItApplies'
    BY <1>10, <2>1 DEF DrawsWhatItApplies, PageOK
  <2>3. ASSUME e \in Frame PROVE trails'[p] = {e.scenario} /\ last'[p] = e.seq
    <3>1. e.kind = "state" /\ e.seq \in Nat
      BY <1>1, <2>3 DEF Frame
    <3>2. LastKnown(p, e) = e.seq /\ LastKnown(p, e) # -1
      BY <1>11, <3>1 DEF Dropped
    <3> QED
      BY <1>10, <2>1, <3>2 DEF PageOK
  <2> QED
    BY <2>1, <2>2, <2>3, <1>5, <1>8, <1>9 DEF PageOK
<1>12. CASE ~(e.kind = "hello" \/ Dropped(p, e))
  <2> DEFINE shown == (IF Restarted(p, e) THEN {} ELSE drawn) \union {e.scenario}
  <2>1. last' = [last EXCEPT ![p] = e.seq] /\ trails' = [trails EXCEPT ![p] = shown]
    BY <1>12 DEF Handle, drawn
  <2>2. shown = {e.scenario}
    BY <1>4
  <2> HIDE DEF shown
  <2>3. DrawsWhatItApplies' /\ trails'[p] = {e.scenario} /\ last'[p] = e.seq
    BY <2>1, <2>2 DEF DrawsWhatItApplies, PageOK
  <2> QED
    BY <2>1, <2>3, <1>5, <1>8, <1>9 DEF PageOK
<1> QED
  BY <1>11, <1>12

LEMMA ReceiveStep ==
  ASSUME IInv, NEW p \in Page, Receive(p)
  PROVE  IInv'
<1> DEFINE e == Head(inbox[p])
<1>1. /\ PageOK /\ SocketOK /\ WireOK /\ ServerOK /\ TrailsFitHeading /\ ChoiceSurvives
      /\ DrawsWhatItApplies
  BY DEF IInv
<1>2. inbox[p] \in Seq(Envelope) /\ inbox[p] # << >>
  BY <1>1 DEF WireOK, Receive
<1>3. e \in Envelope /\ Tail(inbox[p]) \in Seq(Envelope)
  BY <1>2
<1>4. /\ Handle(p, e)
      /\ awaiting' = [awaiting EXCEPT ![p] = FALSE] /\ asked' = [asked EXCEPT ![p] = None]
      /\ inbox' = [inbox EXCEPT ![p] = Tail(inbox[p])]
      /\ UNCHANGED <<catalog, lost, timer, stale, handlers>>
      /\ UNCHANGED <<running, produced, latest>>
  BY DEF Receive, server
<1> HIDE DEF e
<1>5. /\ PageOK' /\ TrailsFitHeading' /\ DrawsWhatItApplies'
      /\ \A q \in Page : q # p => /\ selected'[q] = selected[q]
                                  /\ trails'[q] = trails[q] /\ last'[q] = last[q]
      /\ e \in Frame => trails'[p] = {e.scenario} /\ last'[p] = e.seq
  BY <1>1, <1>3, <1>4, HandleResult
<1>6. SocketOK' /\ ServerOK'
  BY <1>1, <1>4 DEF SocketOK, ServerOK
<1>7. WireOK'
  BY <1>1, <1>3, <1>4 DEF WireOK
<1>8. ChoiceSurvives'
  BY <1>1, <1>4, <1>5 DEF ChoiceSurvives, SocketOK
<1>9. ASSUME NEW q \in Page PROVE FollowsTheLatest(q)'
  <2>1. Streaming(q)' <=> Streaming(q)
    BY <1>4 DEF Streaming
  <2>2. CASE q # p
    <3>1. inbox'[q] = inbox[q]
      BY <1>1, <1>4, <2>2 DEF WireOK
    <3> QED
      BY <1>4, <1>5, <2>1, <2>2, <3>1, OtherStream
  <2>3. CASE q = p /\ Streaming(p)
    <3>1. inbox[p][Len(inbox[p])] = latest
      BY <1>2, <2>3 DEF IInv, FollowsTheLatest
    <3>2. inbox'[p] = Tail(inbox[p])
      BY <1>1, <1>4 DEF WireOK
    <3>3. CASE Tail(inbox[p]) = << >>
      <4>1. e = latest
        BY <1>2, <3>1, <3>3, TailLast DEF e
      <4>2. Shows(p, latest)'
        BY <1>1, <1>4, <1>5, <4>1 DEF ServerOK, Shows
      <4> QED
        BY <2>3, <3>2, <3>3, <4>2 DEF FollowsTheLatest
    <3>4. CASE Tail(inbox[p]) # << >>
      <4>1. Tail(inbox[p])[Len(Tail(inbox[p]))] = latest
        BY <1>2, <3>1, <3>4, TailLast
      <4> QED
        BY <1>4, <2>3, <3>2, <3>4, <4>1 DEF FollowsTheLatest
    <3> QED
      BY <3>3, <3>4
  <2>4. CASE q = p /\ ~Streaming(p)
    BY <2>1, <2>4 DEF FollowsTheLatest
  <2> QED
    BY <2>2, <2>3, <2>4
<1> QED
  BY <1>5, <1>6, <1>7, <1>8, <1>9 DEF IInv

LEMMA ReceiveStaleStep ==
  ASSUME IInv, NEW p \in Page, ReceiveStale(p)
  PROVE  IInv'
<1>1. /\ UNCHANGED <<catalog, page, socket>> /\ UNCHANGED <<inbox, handlers>>
      /\ UNCHANGED <<running, produced, latest>> /\ stale' = [stale EXCEPT ![p] = NoFrame]
  BY DEF ReceiveStale, HandleStale, server
<1>2. WireOK' /\ ServerOK'
  BY <1>1 DEF IInv, WireOK, ServerOK
<1>3. ASSUME NEW q \in Page PROVE FollowsTheLatest(q)'
  BY <1>1, OtherStream DEF Streaming, page, socket
<1> QED
  BY <1>1, <1>2, <1>3, ServerStep

LEMMA StepIInv == IInv /\ [Next]_vars => IInv'
<1> SUFFICES ASSUME IInv, [Next]_vars PROVE IInv'
  OBVIOUS
<1>1. CASE UNCHANGED vars
  <2>1. UNCHANGED <<catalog, page, socket>> /\ UNCHANGED <<stale, inbox, handlers>>
        /\ UNCHANGED <<running, produced, latest>>
    BY <1>1 DEF vars, wire, server
  <2>2. WireOK' /\ ServerOK'
    BY <2>1 DEF IInv, WireOK, ServerOK
  <2>3. ASSUME NEW q \in Page PROVE FollowsTheLatest(q)'
    BY <2>1, OtherStream DEF Streaming, page, socket
  <2> QED
    BY <2>1, <2>2, <2>3, ServerStep
<1>2. CASE Disturbance
  BY <1>2, OtherStep, ChooseStep, LoseStep DEF Disturbance
<1> QED
  BY <1>1, <1>2, ProducerStep, ServeStep, ReceiveStep, ReceiveStaleStep, ReconnectStep DEF Next

(* The inductive invariant: whatever pages, requests and producer          *)
(* interleave, what a page shows and asks for is of one scenario, and its  *)
(* open stream ends with the latest frame.                                 *)
THEOREM Invariance == Safe => []IInv
BY InitIInv, StepIInv, PTL DEF Safe

-----------------------------------------------------------------------------
(* TypesHold: no interleaving of messages, choices and failures takes the  *)
(* page out of its types, and the reconnect timer runs only while the      *)
(* socket is lost.                                                         *)
THEOREM TypesHold == Safe => []Inv
<1>1. IInv => Inv
  BY InvParts DEF IInv
<1> QED
  BY <1>1, Invariance, PTL

(* TrailsHold: the trails of two scenarios never mix on a page.            *)
THEOREM TrailsHold == Safe => []TrailsFitHeading
<1>1. IInv => TrailsFitHeading
  BY DEF IInv
<1> QED
  BY <1>1, Invariance, PTL

(* ChoicesHold: what was chosen is what the socket asks for, until the     *)
(* server answers.                                                         *)
THEOREM ChoicesHold == Safe => []ChoiceSurvives
<1>1. IInv => ChoiceSurvives
  BY DEF IInv
<1> QED
  BY <1>1, Invariance, PTL

(* HandledHold: a page that has handled all it was sent shows the latest   *)
(* frame.                                                                  *)
THEOREM HandledHold == Safe => []HandledPagesShowTheLatest
<1>1. IInv => HandledPagesShowTheLatest
  BY DEF IInv, FollowsTheLatest, Shows, HandledPagesShowTheLatest
<1> QED
  BY <1>1, Invariance, PTL
=============================================================================
