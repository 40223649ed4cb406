------------------------- MODULE StateServiceProofs --------------------------
(***************************************************************************)
(* Theorems of StateService, for any clients and scenarios and any channel *)
(* capacity: the types, the order of the frames a stream has to forward,   *)
(* and that a stream misses nothing between its first frame and the rest.  *)
(***************************************************************************)
EXTENDS StateService, TLAPS

(* The frames d that a stream has to forward, after f came to those of q:  *)
(* f is the last, and those before it are the ones there were, but for the *)
(* oldest if the channel was full.                                         *)
Grown(d, q, f) ==
  /\ d \in Seq(Frame) /\ Len(d) \in 1 .. Capacity /\ d[Len(d)] = f
  /\ \A i \in DOMAIN d : i # Len(d) =>
       \E k \in {0, 1} : /\ Len(d) = Len(q) + 1 - k
                         /\ i + k \in DOMAIN q /\ d[i] = q[i + k]

LEMMA DeliveredResult ==
  ASSUME NEW q \in Seq(Frame), Len(q) <= Capacity, NEW f \in Frame
  PROVE  Grown(Delivered(q, f), q, f)
<1> DEFINE d == Delivered(q, f)
<1>1. CASE Len(q) < Capacity
  <2>1. d = Append(q, f)
    BY <1>1 DEF Delivered
  <2>2. d \in Seq(Frame) /\ Len(d) = Len(q) + 1 /\ d[Len(d)] = f
    BY <2>1
  <2>3. \A i \in 1 .. Len(q) : d[i] = q[i]
    BY <2>1
  <2> HIDE DEF d
  <2>4. \A i \in DOMAIN d : i # Len(d) => i + 0 \in DOMAIN q /\ d[i] = q[i + 0]
    BY <2>2, <2>3
  <2>5. Len(d) \in 1 .. Capacity /\ Len(d) = Len(q) + 1 - 0
    BY <1>1, <2>2, BoundsAssumption
  <2> QED
    BY <2>2, <2>4, <2>5 DEF d, Grown
<1>2. CASE ~(Len(q) < Capacity)
  <2>1. d = Append(Tail(q), f)
    BY <1>2 DEF Delivered
  <2>2. Len(q) = Capacity /\ Len(q) >= 1
    BY <1>2, BoundsAssumption
  <2>3. Tail(q) \in Seq(Frame) /\ Len(Tail(q)) = Len(q) - 1
    BY <2>2
  <2>4. \A i \in 1 .. Len(q) - 1 : Tail(q)[i] = q[i + 1]
    BY <2>2
  <2>5. d \in Seq(Frame) /\ Len(d) = Len(q) /\ d[Len(d)] = f
    BY <2>1, <2>2, <2>3
  <2>6. \A i \in 1 .. Len(q) - 1 : d[i] = Tail(q)[i]
    BY <2>1, <2>3
  <2> HIDE DEF d
  <2>7. \A i \in DOMAIN d : i # Len(d) => i + 1 \in DOMAIN q /\ d[i] = q[i + 1]
    BY <2>2, <2>4, <2>5, <2>6
  <2>8. Len(d) \in 1 .. Capacity /\ Len(d) = Len(q) + 1 - 1
    BY <2>2, <2>5, BoundsAssumption
  <2> QED
    BY <2>5, <2>7, <2>8 DEF d, Grown
<1> QED
  BY <1>1, <1>2

-----------------------------------------------------------------------------
(* Who has a frame: a handler from when it is built until it is sent, the  *)
(* producer from tick to send.                                             *)
Held ==
  /\ \A c \in Client : pc[c] = "install" => initial[c] \in Frame /\ initial[c].seq = 0
  /\ \A c \in Client : pc[c] \in Switching =>
       /\ initial[c] \in Frame /\ initial[c].seq = 0
       /\ initial[c].run >= 1 /\ initial[c].run <= simulation.run
  /\ producer.at # "tick" =>
       /\ producer.frame \in Frame
       /\ producer.frame.seq >= 1 \/ producer.frame.seq = MaxSeq
       /\ producer.frame.run <= simulation.run
       /\ producer.frame.run = simulation.run => producer.frame.seq <= simulation.seq

(* A frame that was sent is of a simulation there was, and is not ahead of *)
(* the frame the producer is publishing.                                   *)
Past(f) ==
  /\ f.run <= simulation.run
  /\ f.run = simulation.run => f.seq <= simulation.seq
  /\ producer.at # "tick" /\ f.run = producer.frame.run =>
       f.seq < producer.frame.seq \/ producer.frame.seq = MaxSeq

SentIsPast == \A c \in Client : \A i \in DOMAIN pending[c] : Past(pending[c][i])

(* What a stream shows or has yet to forward ends with the latest frame,   *)
(* unless that is about to be sent, by the only one who sends then.        *)
UpToDate(c) ==
  /\ pending[c] # <<>> => pending[c][Len(pending[c])] = latest
  /\ pending[c] = <<>> /\ pc[c] \in {"first", "stream"} => seen[c] = latest

LoneSender ==
  /\ producer.at = "send" => latest = producer.frame /\ \A c \in Client : pc[c] # "send"
  /\ \A c \in Client : pc[c] = "send" => latest = initial[c]
  /\ \A c, d \in Client : pc[c] = "send" /\ pc[d] = "send" => c = d

StreamsFollow ==
  /\ \A c \in Client : pending[c] # <<>> => pc[c] \in Listening
  /\ ~crossed => LoneSender /\ (~Sending => \A c \in Client : UpToDate(c))

IInv == TypeOK /\ Held /\ SentIsPast /\ OnlyInitialIsLate /\ StreamsFollow

LEMMA InitIInv == Init => IInv
<1> SUFFICES ASSUME Init PROVE IInv
  OBVIOUS
<1> PICK s \in Scenario :
      LET first == [scenario |-> s, run |-> 0, seq |-> 0] IN
      /\ simulation = first
      /\ active = s
      /\ latest = first
      /\ producer = [at |-> "tick", frame |-> NoFrame]
      /\ pc = [c \in Client |-> "idle"]
      /\ initial = [c \in Client |-> NoFrame]
      /\ seen = [c \in Client |-> NoFrame]
      /\ pending = [c \in Client |-> <<>>]
      /\ overlapped = FALSE
      /\ crossed = FALSE
  BY DEF Init
<1>1. simulation \in Frame
  BY BoundsAssumption DEF Frame
<1>2. \A c \in Client : pending[c] = <<>> /\ Len(pending[c]) <= Capacity
  BY BoundsAssumption
<1>3. TypeOK
  <2>1. overlapped \in BOOLEAN /\ crossed \in BOOLEAN
    OBVIOUS
  <2> QED
    BY <1>1, <1>2, <2>1 DEF TypeOK, Location
<1>4. SentIsPast /\ OnlyInitialIsLate
  BY <1>2 DEF SentIsPast, OnlyInitialIsLate
<1>5. Held
  BY DEF Held, Switching
<1>6. StreamsFollow
  BY <1>2 DEF StreamsFollow, LoneSender, UpToDate
<1> QED
  BY <1>3, <1>4, <1>5, <1>6 DEF IInv

-----------------------------------------------------------------------------
(* The order of a stream's frames survives a send of a frame that nothing  *)
(* of its run is ahead of, or of a first one.                              *)
LEMMA SendStep ==
  ASSUME TypeOK, OnlyInitialIsLate, NEW f \in Frame, Send(f),
         f.seq \in {0, MaxSeq} \/ \A c \in Client : \A i \in DOMAIN pending[c] :
                                    pending[c][i].run = f.run => pending[c][i].seq < f.seq
  PROVE  /\ pending' \in [Client -> Seq(Frame)]
         /\ \A c \in Client : Len(pending'[c]) <= Capacity
         /\ OnlyInitialIsLate'
         /\ \A c \in Client : pc[c] \in Listening =>
              pending'[c] # <<>> /\ pending'[c][Len(pending'[c])] = f
         /\ \A c \in Client : pc[c] \notin Listening => pending'[c] = pending[c]
         /\ \A c \in Client : \A i \in DOMAIN pending'[c] :
              pending'[c][i] = f \/ \E j \in DOMAIN pending[c] : pending'[c][i] = pending[c][j]
<1>1. ASSUME NEW c \in Client
      PROVE  pending[c] \in Seq(Frame) /\ Len(pending[c]) <= Capacity
  BY DEF TypeOK
<1>2. pending' = [c \in Client |-> IF pc[c] \in Listening THEN Delivered(pending[c], f)
                                                          ELSE pending[c]]
  BY DEF Send
<1>3. ASSUME NEW c \in Client
      PROVE  /\ pending'[c] \in Seq(Frame) /\ Len(pending'[c]) <= Capacity
             /\ pc[c] \in Listening =>
                  pending'[c] # <<>> /\ pending'[c][Len(pending'[c])] = f
             /\ pc[c] \notin Listening => pending'[c] = pending[c]
             /\ \A i \in DOMAIN pending'[c] :
                  pending'[c][i] = f \/ \E j \in DOMAIN pending[c] : pending'[c][i] = pending[c][j]
             /\ \A i, j \in DOMAIN pending'[c] :
                  /\ i < j
                  /\ pending'[c][i].run = pending'[c][j].run
                  /\ pending'[c][j].seq <= pending'[c][i].seq
                  => pending'[c][j].seq \in {0, MaxSeq}
  <2>1. CASE pc[c] \notin Listening
    <3>1. pending'[c] = pending[c]
      BY <1>2, <2>1
    <3> QED
      BY <1>1, <2>1, <3>1 DEF OnlyInitialIsLate
  <2>2. CASE pc[c] \in Listening
    <3> DEFINE q == pending[c]
               d == pending'[c]
    <3>1. d = Delivered(q, f)
      BY <1>2, <2>2
    <3>2. q \in Seq(Frame) /\ Len(q) <= Capacity
      BY <1>1
    <3>3. Grown(d, q, f)
      BY <3>1, <3>2, DeliveredResult
    <3>4. \A i, j \in DOMAIN q :
            i < j /\ q[i].run = q[j].run /\ q[j].seq <= q[i].seq => q[j].seq \in {0, MaxSeq}
      BY DEF OnlyInitialIsLate
    <3>5. f.seq \in {0, MaxSeq} \/ \A i \in DOMAIN q : q[i].run = f.run => q[i].seq < f.seq
      OBVIOUS
    <3>6. d # <<>>
      BY <3>3 DEF Grown
    <3> HIDE DEF q, d
    <3>7. ASSUME NEW i \in DOMAIN d, NEW j \in DOMAIN d, i < j,
                 d[i].run = d[j].run, d[j].seq <= d[i].seq
          PROVE  d[j].seq \in {0, MaxSeq}
      <4>0. i \in 1 .. Len(d) /\ j \in 1 .. Len(d) /\ Len(d) \in Nat /\ Len(q) \in Nat
        BY <3>2, <3>3 DEF Grown
      <4>1. PICK k \in {0, 1} : Len(d) = Len(q) + 1 - k /\ i + k \in DOMAIN q /\ d[i] = q[i + k]
        BY <3>3, <3>7, <4>0 DEF Grown
      <4>2. CASE j = Len(d)
        <5>1. d[j] = f
          BY <3>3, <4>2 DEF Grown
        <5>2. q[i + k] \in Frame
          BY <3>2, <4>1
        <5>3. q[i + k].seq \in Nat /\ f.seq \in Nat
          BY <5>2, BoundsAssumption DEF Frame
        <5> QED
          BY <3>5, <3>7, <4>1, <5>1, <5>3
      <4>3. CASE j # Len(d)
        <5>1. PICK m \in {0, 1} : Len(d) = Len(q) + 1 - m /\ j + m \in DOMAIN q /\ d[j] = q[j + m]
          BY <3>3, <4>3 DEF Grown
        <5>2. m = k
          BY <4>0, <4>1, <5>1
        <5>3. i + k < j + k
          BY <3>7, <4>0
        <5> QED
          BY <3>4, <3>7, <4>1, <5>1, <5>2, <5>3
      <4> QED
        BY <4>2, <4>3
    <3>8. ASSUME NEW i \in DOMAIN d
          PROVE  d[i] = f \/ \E j \in DOMAIN q : d[i] = q[j]
      BY <3>3 DEF Grown
    <3> QED
      BY <2>2, <3>3, <3>6, <3>7, <3>8 DEF q, d, Grown
  <2> QED
    BY <2>1, <2>2
<1>4. pending' \in [Client -> Seq(Frame)]
  BY <1>2, <1>3
<1>5. OnlyInitialIsLate'
  BY <1>3 DEF OnlyInitialIsLate
<1> QED
  BY <1>3, <1>4, <1>5

-----------------------------------------------------------------------------
(* The producer's steps. *)
LEMMA AdvancedResult ==
  ASSUME TypeOK
  PROVE  /\ Advanced \in Frame
         /\ Advanced.run = simulation.run
         /\ Advanced.seq >= 1 \/ Advanced.seq = MaxSeq
         /\ simulation.seq <= Advanced.seq
         /\ simulation.seq < Advanced.seq \/ Advanced.seq = MaxSeq
<1>1. simulation \in Frame /\ simulation.seq \in 0 .. MaxSeq /\ MaxSeq \in Nat
  BY BoundsAssumption DEF TypeOK, Frame
<1> DEFINE n == IF simulation.seq < MaxSeq THEN simulation.seq + 1 ELSE MaxSeq
<1>2. /\ n \in 0 .. MaxSeq /\ (n >= 1 \/ n = MaxSeq)
      /\ simulation.seq <= n /\ (simulation.seq < n \/ n = MaxSeq)
  BY <1>1
<1>3. Advanced = [simulation EXCEPT !.seq = n]
  BY DEF Advanced
<1> HIDE DEF n
<1>4. Advanced \in Frame /\ Advanced.run = simulation.run /\ Advanced.seq = n
  BY <1>1, <1>2, <1>3 DEF Frame
<1> QED
  BY <1>2, <1>4

(* A tick moves the simulation on, within its run.                         *)
LEMMA AdvanceStep ==
  ASSUME IInv, simulation' = Advanced, UNCHANGED <<pc, initial, pending>>
  PROVE  /\ simulation' \in Frame /\ simulation'.run = simulation.run
         /\ \A c \in Client : pc'[c] = "install" => initial'[c] \in Frame /\ initial'[c].seq = 0
         /\ \A c \in Client : pc'[c] \in Switching =>
              /\ initial'[c] \in Frame /\ initial'[c].seq = 0
              /\ initial'[c].run >= 1 /\ initial'[c].run <= simulation'.run
         /\ \A c \in Client : \A i \in DOMAIN pending[c] :
              /\ pending[c][i] \in Frame
              /\ pending[c][i].run <= simulation'.run
              /\ pending[c][i].run = simulation'.run =>
                   /\ pending[c][i].seq <= simulation.seq
                   /\ pending[c][i].seq <= simulation'.seq
<1>1. /\ Advanced \in Frame /\ Advanced.run = simulation.run
      /\ simulation.seq <= Advanced.seq
  BY AdvancedResult DEF IInv
<1>2. simulation.seq \in Nat /\ Advanced.seq \in Nat
  BY <1>1, BoundsAssumption DEF IInv, TypeOK, Frame
<1>3. ASSUME NEW c \in Client, NEW i \in DOMAIN pending[c]
      PROVE  pending[c][i] \in Frame /\ pending[c][i].seq \in Nat /\ Past(pending[c][i])
  <2>1. pending[c][i] \in Frame /\ Past(pending[c][i])
    BY DEF IInv, TypeOK, SentIsPast
  <2> QED
    BY <2>1, BoundsAssumption DEF Frame
<1>4. ASSUME NEW c \in Client, NEW i \in DOMAIN pending[c]
      PROVE  /\ pending[c][i].run <= simulation'.run
             /\ pending[c][i].run = simulation'.run =>
                  /\ pending[c][i].seq <= simulation.seq
                  /\ pending[c][i].seq <= simulation'.seq
  <2>1. simulation'.run = simulation.run /\ simulation'.seq = Advanced.seq
    BY <1>1
  <2>2. Past(pending[c][i]) /\ pending[c][i].seq \in Nat
    BY <1>3
  <2> QED
    BY <1>1, <1>2, <2>1, <2>2 DEF Past
<1> QED
  BY <1>1, <1>3, <1>4 DEF IInv, Held

LEMMA TickStep ==
  ASSUME IInv, Tick
  PROVE  IInv'
<1>1. /\ simulation' = Advanced /\ producer.at = "tick"
      /\ producer' = [at |-> "store", frame |-> Advanced]
      /\ UNCHANGED <<active, latest, pc, initial, seen, pending, overlapped, crossed>>
  BY DEF Tick, streams
<1>2. /\ Advanced \in Frame /\ Advanced.run = simulation.run
      /\ Advanced.seq >= 1 \/ Advanced.seq = MaxSeq
      /\ simulation.seq < Advanced.seq \/ Advanced.seq = MaxSeq
  BY AdvancedResult DEF IInv
<1>3. TypeOK'
  BY <1>1, <1>2 DEF IInv, TypeOK
<1>4. Held'
  <2>1. producer'.at # "tick" /\ producer'.frame = Advanced /\ Advanced.run \in Nat /\ Advanced.seq \in Nat
    BY <1>1, <1>2, BoundsAssumption DEF Frame
  <2> QED
    BY <1>1, <1>2, <2>1, AdvanceStep DEF Held
<1>5. SentIsPast'
  <2>1. ASSUME NEW c \in Client, NEW i \in DOMAIN pending[c],
               pending[c][i].run = Advanced.run
        PROVE  pending[c][i].seq < Advanced.seq \/ Advanced.seq = MaxSeq
    <3>1. pending[c][i].seq <= simulation.seq /\ pending[c][i] \in Frame
      BY <1>1, <2>1, AdvanceStep
    <3>2. pending[c][i].seq \in Nat /\ simulation.seq \in Nat /\ Advanced.seq \in Nat
      BY <1>2, <3>1, BoundsAssumption DEF IInv, TypeOK, Frame
    <3> QED
      BY <1>2, <3>1, <3>2
  <2>2. producer'.frame = Advanced /\ pending' = pending
    BY <1>1
  <2> QED
    BY <1>1, <2>1, <2>2, AdvanceStep DEF SentIsPast, Past
<1>6. OnlyInitialIsLate'
  BY <1>1 DEF IInv, OnlyInitialIsLate
<1>7. StreamsFollow'
  <2>1. producer'.at = "store" /\ producer.at # "send"
    BY <1>1
  <2>2. Sending' <=> Sending
    BY <1>1, <2>1 DEF Sending
  <2>3. LoneSender => LoneSender'
    BY <1>1, <2>1 DEF LoneSender
  <2> QED
    BY <1>1, <2>2, <2>3 DEF IInv, StreamsFollow, UpToDate
<1> QED
  BY <1>3, <1>4, <1>5, <1>6, <1>7 DEF IInv

LEMMA TickFailureStep ==
  ASSUME IInv, TickFailure
  PROVE  IInv'
<1>1. /\ simulation' = Advanced /\ producer.at = "tick"
      /\ UNCHANGED <<active, latest, producer, pc, initial, seen, pending, overlapped, crossed>>
  BY DEF TickFailure, streams
<1>2. Advanced \in Frame /\ Advanced.run = simulation.run
  BY AdvancedResult DEF IInv
<1>3. TypeOK'
  BY <1>1, <1>2 DEF IInv, TypeOK
<1>4. Held'
  BY <1>1, AdvanceStep DEF Held
<1>5. SentIsPast'
  BY <1>1, AdvanceStep DEF SentIsPast, Past
<1>6. OnlyInitialIsLate'
  BY <1>1 DEF IInv, OnlyInitialIsLate
<1>7. StreamsFollow'
  BY <1>1 DEF IInv, StreamsFollow, LoneSender, Sending, UpToDate
<1> QED
  BY <1>3, <1>4, <1>5, <1>6, <1>7 DEF IInv

LEMMA StoreFrameStep ==
  ASSUME IInv, StoreFrame
  PROVE  IInv'
<1>1. /\ latest' = producer.frame /\ producer.at = "store"
      /\ producer' = [producer EXCEPT !.at = "send"]
      /\ crossed' = (\E c \in Client : pc[c] = "send")
      /\ UNCHANGED <<simulation, active, pc, initial, seen, pending, overlapped>>
  BY DEF StoreFrame, StoreLatest, streams
<1>2. producer' = [at |-> "send", frame |-> producer.frame] /\ producer.frame \in Frame
  BY <1>1 DEF IInv, TypeOK, Held
<1>3. TypeOK'
  BY <1>1, <1>2 DEF IInv, TypeOK
<1>4. Held'
  BY <1>1, <1>2 DEF IInv, Held
<1>5. SentIsPast'
  BY <1>1, <1>2 DEF IInv, SentIsPast, Past
<1>6. OnlyInitialIsLate'
  BY <1>1 DEF IInv, OnlyInitialIsLate
<1>7. StreamsFollow'
  <2>1. ~crossed' => LoneSender'
    BY <1>1, <1>2 DEF LoneSender
  <2>2. Sending'
    BY <1>2 DEF Sending
  <2>3. \A c \in Client : pending'[c] # <<>> => pc'[c] \in Listening
    BY <1>1 DEF IInv, StreamsFollow
  <2> QED
    BY <2>1, <2>2, <2>3 DEF StreamsFollow
<1> QED
  BY <1>3, <1>4, <1>5, <1>6, <1>7 DEF IInv

LEMMA SendFrameStep ==
  ASSUME IInv, SendFrame
  PROVE  IInv'
<1> DEFINE f == producer.frame
<1>1. /\ Send(f) /\ producer.at = "send"
      /\ producer' = [at |-> "tick", frame |-> NoFrame]
      /\ UNCHANGED <<simulation, active, latest, pc, initial, seen, overlapped, crossed>>
  BY DEF SendFrame, shared
<1>2. f \in Frame /\ f.run <= simulation.run /\ (f.run = simulation.run => f.seq <= simulation.seq)
  BY <1>1 DEF IInv, Held
<1>3. f.seq \in {0, MaxSeq} \/ \A c \in Client : \A i \in DOMAIN pending[c] :
                                    pending[c][i].run = f.run => pending[c][i].seq < f.seq
  BY <1>1 DEF IInv, SentIsPast, Past
<1>4. /\ pending' \in [Client -> Seq(Frame)]
      /\ \A c \in Client : Len(pending'[c]) <= Capacity
      /\ OnlyInitialIsLate'
      /\ \A c \in Client : pc[c] \in Listening =>
           pending'[c] # <<>> /\ pending'[c][Len(pending'[c])] = f
      /\ \A c \in Client : pc[c] \notin Listening => pending'[c] = pending[c]
      /\ \A c \in Client : \A i \in DOMAIN pending'[c] :
           pending'[c][i] = f \/ \E j \in DOMAIN pending[c] : pending'[c][i] = pending[c][j]
  BY <1>1, <1>2, <1>3, SendStep DEF IInv
<1>5. TypeOK'
  BY <1>1, <1>4 DEF IInv, TypeOK
<1>6. Held'
  BY <1>1 DEF IInv, Held
<1>7. SentIsPast'
  <2>2. f.run <= simulation'.run /\ (f.run = simulation'.run => f.seq <= simulation'.seq)
        /\ producer'.at = "tick"
    BY <1>1, <1>2
  <2> HIDE DEF f
  <2>3. ASSUME NEW c \in Client, NEW i \in DOMAIN pending'[c]
        PROVE  Past(pending[c][i])'
    <3>1. CASE pending'[c][i] = f
      BY <3>1, <2>2 DEF Past
    <3>2. CASE \E j \in DOMAIN pending[c] : pending'[c][i] = pending[c][j]
      <4>1. PICK j \in DOMAIN pending[c] : pending'[c][i] = pending[c][j]
        BY <3>2
      <4>2. Past(pending[c][j])
        BY DEF IInv, SentIsPast
      <4> QED
        BY <1>1, <4>1, <4>2 DEF Past
    <3> QED
      BY <1>4, <3>1, <3>2
  <2> QED
    BY <2>3 DEF SentIsPast
<1>8. StreamsFollow'
  <2>1. ASSUME ~crossed
        PROVE  latest' = f /\ \A c \in Client : pc'[c] # "send"
    BY <1>1, <2>1 DEF IInv, StreamsFollow, LoneSender
  <2>2. \A c \in Client : pending'[c] # <<>> => pc'[c] \in Listening
    BY <1>1, <1>4 DEF IInv, StreamsFollow
  <2>3. \A c \in Client : pc[c] \notin Listening => pending[c] = <<>>
    BY DEF IInv, StreamsFollow
  <2>4. ASSUME NEW c \in Client, ~crossed
        PROVE  UpToDate(c)'
    <3>1. CASE pc[c] \in Listening
      BY <1>4, <2>1, <2>4, <3>1 DEF UpToDate
    <3>2. CASE pc[c] \notin Listening
      <4>1. pending'[c] = <<>> /\ pc'[c] \notin {"first", "stream"}
        BY <1>1, <1>4, <2>3, <3>2 DEF Listening
      <4> QED
        BY <4>1 DEF UpToDate
    <3> QED
      BY <3>1, <3>2
  <2>5. crossed' = crossed /\ producer'.at # "send"
    BY <1>1
  <2> QED
    BY <2>1, <2>2, <2>4, <2>5 DEF StreamsFollow, LoneSender
<1> QED
  BY <1>4, <1>5, <1>6, <1>7, <1>8 DEF IInv

-----------------------------------------------------------------------------
(* The handlers' steps.  Most leave what was sent, and who publishes what, *)
(* as they are.                                                            *)
LEMMA QuietStep ==
  ASSUME IInv, UNCHANGED <<simulation, producer, pending>>
  PROVE  SentIsPast' /\ OnlyInitialIsLate'
<1>1. OnlyInitialIsLate'
  BY DEF IInv, OnlyInitialIsLate
<1>2. SentIsPast'
  BY DEF IInv, SentIsPast, Past
<1> QED
  BY <1>1, <1>2

(* A step of one client that neither stores nor sends leaves the streams   *)
(* as they follow, if it does so for that client.                          *)
LEMMA OtherStep ==
  ASSUME IInv, NEW c \in Client, NEW to, pc' = [pc EXCEPT ![c] = to],
         UNCHANGED <<latest, producer, crossed>>, pc[c] # "send", to # "send",
         \A d \in Client \ {c} : initial'[d] = initial[d],
         \A d \in Client \ {c} : seen'[d] = seen[d] /\ pending'[d] = pending[d],
         pending'[c] # <<>> => to \in Listening,
         UpToDate(c) => UpToDate(c)'
  PROVE  StreamsFollow'
<1>1. /\ pc'[c] = to
      /\ \A d \in Client : d # c => pc'[d] = pc[d]
  BY DEF IInv, TypeOK
<1>2. \A d \in Client : pending'[d] # <<>> => pc'[d] \in Listening
  BY <1>1 DEF IInv, StreamsFollow
<1>3. LoneSender => LoneSender'
  BY <1>1 DEF LoneSender
<1>4. Sending' <=> Sending
  BY <1>1 DEF Sending
<1>5. ASSUME NEW d \in Client, UpToDate(d) PROVE UpToDate(d)'
  <2>1. CASE d = c
    BY <1>5, <2>1
  <2>2. CASE d # c
    BY <1>1, <1>5, <2>2 DEF UpToDate
  <2> QED
    BY <2>1, <2>2
<1> QED
  BY <1>2, <1>3, <1>4, <1>5 DEF IInv, StreamsFollow

(* So does one that moves a handler on or begins a stream.                 *)
LEMMA HandlerStep ==
  ASSUME IInv, NEW c \in Client, NEW to, pc' = [pc EXCEPT ![c] = to],
         UNCHANGED <<latest, producer, crossed, seen, pending>>,
         pc[c] \notin Listening \union {"send"}, to \notin {"first", "stream", "send"},
         \A d \in Client \ {c} : initial'[d] = initial[d]
  PROVE  StreamsFollow'
<1>1. pending[c] = <<>>
  BY DEF IInv, StreamsFollow
<1>2. pc'[c] = to
  BY DEF IInv, TypeOK
<1>3. UpToDate(c)'
  BY <1>1, <1>2 DEF UpToDate
<1> QED
  BY <1>1, <1>3, OtherStep

LEMMA BeginSelectStep ==
  ASSUME IInv, NEW c \in Client, NEW s \in Scenario, BeginSelect(c, s)
  PROVE  IInv'
<1> DEFINE first == [scenario |-> s, run |-> 0, seq |-> 0]
<1>1. /\ pc[c] = "idle" /\ pc' = [pc EXCEPT ![c] = "install"]
      /\ initial' = [initial EXCEPT ![c] = first]
      /\ UNCHANGED <<simulation, active, latest, producer, seen, pending, overlapped, crossed>>
  BY DEF BeginSelect, Goto, shared, streams
<1>2. first \in Frame /\ first.seq = 0
  BY BoundsAssumption DEF Frame
<1> HIDE DEF first
<1>3. TypeOK'
  BY <1>1, <1>2 DEF IInv, TypeOK, Location
<1>4. Held'
  BY <1>1, <1>2 DEF IInv, TypeOK, Held, Switching
<1>5. StreamsFollow'
  BY <1>1, HandlerStep DEF IInv, TypeOK, Listening
<1> QED
  BY <1>1, <1>3, <1>4, <1>5, QuietStep DEF IInv

LEMMA InstallSimulationStep ==
  ASSUME IInv, NEW c \in Client, InstallSimulation(c)
  PROVE  IInv'
<1> DEFINE new == [initial[c] EXCEPT !.run = simulation.run + 1]
<1>1. /\ simulation.run < MaxRun
      /\ pc[c] = "install" /\ pc' = [pc EXCEPT ![c] = "activate"]
      /\ simulation' = new /\ initial' = [initial EXCEPT ![c] = new]
      /\ overlapped' \in BOOLEAN
      /\ UNCHANGED <<active, latest, producer, seen, pending, crossed>>
  BY DEF InstallSimulation, Goto, streams
<1>2. simulation.run \in Nat /\ simulation.seq \in Nat
  BY BoundsAssumption DEF IInv, TypeOK, Frame
<1>3. initial[c] \in Frame /\ initial[c].seq = 0
  BY <1>1 DEF IInv, Held
<1>4. new \in Frame /\ new.seq = 0 /\ new.run = simulation.run + 1
  BY <1>1, <1>2, <1>3, BoundsAssumption DEF Frame
<1> HIDE DEF new
<1>5. TypeOK'
  BY <1>1, <1>4 DEF IInv, TypeOK, Location, Switching
<1>6. Held'
  <2>1. ASSUME NEW d \in Client, d # c
        PROVE  pc'[d] = pc[d] /\ initial'[d] = initial[d]
    BY <1>1, <2>1 DEF IInv, TypeOK
  <2>2. pc'[c] = "activate" /\ initial'[c] = new
    BY <1>1 DEF IInv, TypeOK
  <2>3. ASSUME NEW d \in Client
        PROVE  /\ pc'[d] = "install" => initial'[d] \in Frame /\ initial'[d].seq = 0
               /\ pc'[d] \in Switching =>
                    /\ initial'[d] \in Frame /\ initial'[d].seq = 0
                    /\ initial'[d].run >= 1 /\ initial'[d].run <= simulation'.run
    <3>1. CASE d = c
      BY <1>1, <1>2, <1>4, <2>2, <3>1
    <3>2. CASE d # c
      <4>1. pc[d] \in Switching => initial[d].run \in Nat
        BY BoundsAssumption DEF IInv, Held, Frame
      <4> QED
        BY <1>1, <1>2, <1>4, <2>1, <3>2, <4>1 DEF IInv, Held
    <3> QED
      BY <3>1, <3>2
  <2>4. producer.at # "tick" => producer.frame.run \in Nat /\ producer.frame.seq \in Nat
    BY BoundsAssumption DEF IInv, Held, Frame
  <2> QED
    BY <1>1, <1>2, <1>4, <2>3, <2>4 DEF IInv, Held
<1>7. SentIsPast'
  <2>1. ASSUME NEW d \in Client, NEW i \in DOMAIN pending[d]
        PROVE  Past(pending[d][i])'
    <3>1. pending[d][i] \in Frame /\ Past(pending[d][i])
      BY DEF IInv, TypeOK, SentIsPast
    <3>2. pending[d][i].run \in Nat /\ pending[d][i].run <= simulation.run
      BY <3>1, BoundsAssumption DEF Frame, Past
    <3>3. pending' = pending /\ producer' = producer /\ simulation'.run = simulation.run + 1
      BY <1>1, <1>4
    <3> QED
      BY <1>2, <3>1, <3>2, <3>3 DEF Past
  <2> QED
    BY <1>1, <2>1 DEF SentIsPast
<1>8. OnlyInitialIsLate'
  BY <1>1 DEF IInv, OnlyInitialIsLate
<1>9. StreamsFollow'
  BY <1>1, HandlerStep DEF IInv, TypeOK, Listening
<1> QED
  BY <1>5, <1>6, <1>7, <1>8, <1>9 DEF IInv

(* While a handler publishes its switch, a switch there was.               *)
LEMMA SwitchingIsLater ==
  ASSUME IInv, NEW c \in Client, pc[c] \in Switching
  PROVE  simulation.run # 0 /\ initial[c] \in Frame
<1>1. initial[c] \in Frame /\ initial[c].run >= 1 /\ initial[c].run <= simulation.run
  BY DEF IInv, Held
<1>2. initial[c].run \in Nat /\ simulation.run \in Nat
  BY <1>1, BoundsAssumption DEF IInv, TypeOK, Frame
<1> QED
  BY <1>1, <1>2

LEMMA InstallActiveStep ==
  ASSUME IInv, NEW c \in Client, InstallActive(c)
  PROVE  IInv'
<1>1. /\ pc[c] = "activate" /\ pc' = [pc EXCEPT ![c] = "store"]
      /\ active' = initial[c].scenario
      /\ UNCHANGED <<simulation, latest, producer, initial, seen, pending, overlapped, crossed>>
  BY DEF InstallActive, Goto, streams
<1>2. simulation.run # 0 /\ initial[c] \in Frame
  BY <1>1, SwitchingIsLater DEF Switching
<1>3. TypeOK'
  BY <1>1, <1>2 DEF IInv, TypeOK, Location, Switching, Frame
<1>4. Held'
  BY <1>1 DEF IInv, TypeOK, Held, Switching
<1>5. StreamsFollow'
  BY <1>1, HandlerStep DEF IInv, TypeOK, Listening
<1> QED
  BY <1>1, <1>3, <1>4, <1>5, QuietStep DEF IInv

LEMMA StoreInitialStep ==
  ASSUME IInv, NEW c \in Client, StoreInitial(c)
  PROVE  IInv'
<1>1. /\ pc[c] = "store" /\ pc' = [pc EXCEPT ![c] = "send"]
      /\ latest' = initial[c]
      /\ crossed' = (producer.at = "send" \/ \E d \in Client \ {c} : pc[d] = "send")
      /\ UNCHANGED <<simulation, active, producer, initial, seen, pending, overlapped>>
  BY DEF StoreInitial, StoreLatest, InitialFrame, Goto, streams
<1>2. simulation.run # 0 /\ initial[c] \in Frame
  BY <1>1, SwitchingIsLater DEF Switching
<1>3. TypeOK'
  BY <1>1, <1>2 DEF IInv, TypeOK, Location, Switching
<1>4. Held'
  BY <1>1 DEF IInv, TypeOK, Held, Switching
<1>5. StreamsFollow'
  <2>1. pc'[c] = "send" /\ \A d \in Client : d # c => pc'[d] = pc[d]
    BY <1>1 DEF IInv, TypeOK
  <2>2. \A d \in Client : pending'[d] # <<>> => pc'[d] \in Listening
    BY <1>1, <2>1 DEF IInv, StreamsFollow, Listening
  <2>3. ~crossed' => LoneSender'
    BY <1>1, <2>1 DEF LoneSender
  <2>4. Sending'
    BY <2>1 DEF Sending
  <2> QED
    BY <2>2, <2>3, <2>4 DEF StreamsFollow
<1> QED
  BY <1>1, <1>3, <1>4, <1>5, QuietStep DEF IInv

LEMMA SendInitialStep ==
  ASSUME IInv, NEW c \in Client, SendInitial(c)
  PROVE  IInv'
<1> DEFINE f == initial[c]
<1>1. /\ pc[c] = "send" /\ pc' = [pc EXCEPT ![c] = "idle"]
      /\ Send(f) /\ initial' = [initial EXCEPT ![c] = NoFrame]
      /\ UNCHANGED <<simulation, active, latest, producer, seen, overlapped, crossed>>
  BY DEF SendInitial, InitialFrame, Goto, shared
<1>2. simulation.run # 0 /\ f \in Frame /\ f.seq = 0 /\ f.run <= simulation.run
  BY <1>1, SwitchingIsLater DEF IInv, Held, Switching
<1>3. /\ pending' \in [Client -> Seq(Frame)]
      /\ \A d \in Client : Len(pending'[d]) <= Capacity
      /\ OnlyInitialIsLate'
      /\ \A d \in Client : pc[d] \in Listening =>
           pending'[d] # <<>> /\ pending'[d][Len(pending'[d])] = f
      /\ \A d \in Client : pc[d] \notin Listening => pending'[d] = pending[d]
      /\ \A d \in Client : \A i \in DOMAIN pending'[d] :
           pending'[d][i] = f \/ \E j \in DOMAIN pending[d] : pending'[d][i] = pending[d][j]
  BY <1>1, <1>2, SendStep DEF IInv
<1>4. TypeOK'
  BY <1>1, <1>3 DEF IInv, TypeOK, Location
<1>5. Held'
  BY <1>1 DEF IInv, TypeOK, Held, Switching
<1>6. SentIsPast'
  <2>1. Past(f)
    <3>1. simulation.seq \in Nat
      BY BoundsAssumption DEF IInv, TypeOK, Frame
    <3>2. ASSUME producer.at # "tick"
          PROVE  \/ producer.frame.seq = MaxSeq
                 \/ producer.frame.seq \in Nat /\ producer.frame.seq >= 1
      <4>1. producer.frame \in Frame
        BY <3>2 DEF IInv, Held
      <4>2. producer.frame.seq >= 1 \/ producer.frame.seq = MaxSeq
        BY <3>2 DEF IInv, Held
      <4> QED
        BY <4>1, <4>2, BoundsAssumption DEF Frame
    <3>3. f.run <= simulation.run /\ f.seq = 0
      BY <1>2
    <3> HIDE DEF f
    <3>4. f.run = simulation.run => f.seq <= simulation.seq
      BY <3>1, <3>3
    <3>5. producer.at # "tick" => f.seq < producer.frame.seq \/ producer.frame.seq = MaxSeq
      BY <3>2, <3>3
    <3> QED
      BY <3>3, <3>4, <3>5 DEF Past
  <2> HIDE DEF f
  <2>2. ASSUME NEW d \in Client, NEW i \in DOMAIN pending'[d]
        PROVE  Past(pending[d][i])'
    <3>1. \/ pending'[d][i] = f
          \/ \E j \in DOMAIN pending[d] : pending'[d][i] = pending[d][j]
      BY <1>3
    <3>2. simulation' = simulation /\ producer' = producer
      BY <1>1
    <3>3. CASE pending'[d][i] = f
      BY <2>1, <3>2, <3>3 DEF Past
    <3>4. CASE \E j \in DOMAIN pending[d] : pending'[d][i] = pending[d][j]
      <4>1. PICK j \in DOMAIN pending[d] : pending'[d][i] = pending[d][j]
        BY <3>4
      <4>2. Past(pending[d][j])
        BY DEF IInv, SentIsPast
      <4> QED
        BY <3>2, <4>1, <4>2 DEF Past
    <3> QED
      BY <3>1, <3>3, <3>4
  <2> QED
    BY <2>2 DEF SentIsPast
<1>7. StreamsFollow'
  <2>1. ASSUME NEW d \in Client
        PROVE  /\ pending'[d] # <<>> => pc'[d] \in Listening
               /\ pc[d] \notin Listening => pending'[d] = <<>>
    <3>1. pc[d] \notin Listening => pending'[d] = <<>>
      BY <1>3 DEF IInv, StreamsFollow
    <3>2. pc[c] \notin Listening
      BY <1>1 DEF Listening
    <3>3. d # c => pc'[d] = pc[d]
      BY <1>1 DEF IInv, TypeOK
    <3> QED
      BY <3>1, <3>2, <3>3
  <2>2. ASSUME ~crossed
        PROVE  /\ latest' = f /\ producer'.at # "send" /\ \A d \in Client : pc'[d] # "send"
               /\ \A d \in Client : UpToDate(d)'
    <3>1. latest' = f /\ producer.at # "send" /\ \A d \in Client : d # c => pc[d] # "send"
      BY <1>1, <2>2 DEF IInv, StreamsFollow, LoneSender
    <3>2. pc'[c] = "idle" /\ \A d \in Client : d # c => pc'[d] = pc[d]
      BY <1>1 DEF IInv, TypeOK
    <3>3. ASSUME NEW d \in Client PROVE UpToDate(d)'
      <4>1. CASE pc[d] \in Listening
        BY <1>3, <3>1, <4>1 DEF UpToDate
      <4>2. CASE pc[d] \notin Listening
        <5>1. pending'[d] = <<>> /\ pc'[d] \notin {"first", "stream"}
          BY <2>1, <3>2, <4>2 DEF Listening
        <5> QED
          BY <5>1 DEF UpToDate
      <4> QED
        BY <4>1, <4>2
    <3> QED
      BY <1>1, <3>1, <3>2, <3>3
  <2>3. crossed' = crossed
    BY <1>1
  <2> QED
    BY <2>1, <2>2, <2>3 DEF StreamsFollow, LoneSender
<1> QED
  BY <1>3, <1>4, <1>5, <1>6, <1>7 DEF IInv

LEMMA EndEarlyStep ==
  ASSUME IInv, NEW c \in Client, NEW from \in {"install", "activate", "store"}, EndEarly(c, from)
  PROVE  IInv'
<1>1. /\ pc[c] = from /\ pc' = [pc EXCEPT ![c] = "idle"]
      /\ initial' = [initial EXCEPT ![c] = NoFrame]
      /\ overlapped' \in BOOLEAN
      /\ UNCHANGED <<simulation, active, latest, producer, seen, pending, crossed>>
  BY DEF EndEarly, Goto, shared, streams
<1>2. TypeOK'
  BY <1>1 DEF IInv, TypeOK, Location
<1>3. Held'
  BY <1>1 DEF IInv, TypeOK, Held, Switching
<1>4. StreamsFollow'
  BY <1>1, HandlerStep DEF IInv, TypeOK, Listening
<1> QED
  BY <1>1, <1>2, <1>3, <1>4, QuietStep DEF IInv

-----------------------------------------------------------------------------
(* The streams' steps. *)
LEMMA SubscribeStep ==
  ASSUME IInv, NEW c \in Client, Subscribe(c)
  PROVE  IInv'
<1>1. /\ pc[c] = "idle" /\ pc' = [pc EXCEPT ![c] = "latest"]
      /\ UNCHANGED <<simulation, active, latest, producer, initial, seen, pending, overlapped, crossed>>
  BY DEF Subscribe, Goto, shared, streams
<1>2. TypeOK'
  BY <1>1 DEF IInv, TypeOK, Location
<1>3. Held'
  BY <1>1 DEF IInv, TypeOK, Held, Switching
<1>4. StreamsFollow'
  BY <1>1, HandlerStep DEF IInv, TypeOK, Listening
<1> QED
  BY <1>1, <1>2, <1>3, <1>4, QuietStep DEF IInv

LEMMA ReadLatestStep ==
  ASSUME IInv, NEW c \in Client, ReadLatest(c)
  PROVE  IInv'
<1>1. /\ pc[c] = "latest" /\ pc' = [pc EXCEPT ![c] = "first"]
      /\ seen' = [seen EXCEPT ![c] = latest]
      /\ UNCHANGED <<simulation, active, latest, producer, initial, pending, overlapped, crossed>>
  BY DEF ReadLatest, Goto, shared
<1>2. TypeOK'
  BY <1>1 DEF IInv, TypeOK, Location
<1>3. Held'
  BY <1>1 DEF IInv, TypeOK, Held, Switching
<1>4. StreamsFollow'
  <2>1. UpToDate(c) => UpToDate(c)'
    BY <1>1 DEF IInv, TypeOK, UpToDate
  <2> QED
    BY <1>1, <2>1, OtherStep DEF IInv, TypeOK, StreamsFollow, Listening
<1> QED
  BY <1>1, <1>2, <1>3, <1>4, QuietStep DEF IInv

LEMMA SendLatestStep ==
  ASSUME IInv, NEW c \in Client, SendLatest(c)
  PROVE  IInv'
<1>1. /\ pc[c] = "first" /\ pc' = [pc EXCEPT ![c] = "stream"]
      /\ UNCHANGED <<simulation, active, latest, producer, initial, seen, pending, overlapped, crossed>>
  BY DEF SendLatest, Goto, shared, streams
<1>2. TypeOK'
  BY <1>1 DEF IInv, TypeOK, Location
<1>3. Held'
  BY <1>1 DEF IInv, TypeOK, Held, Switching
<1>4. StreamsFollow'
  <2>1. UpToDate(c) => UpToDate(c)'
    BY <1>1 DEF IInv, TypeOK, UpToDate
  <2> QED
    BY <1>1, <2>1, OtherStep DEF IInv, TypeOK, StreamsFollow, Listening
<1> QED
  BY <1>1, <1>2, <1>3, <1>4, QuietStep DEF IInv

(* What is left of a queue, when its first frame is taken off.             *)
LEMMA TailResult ==
  ASSUME NEW q \in Seq(Frame), q # <<>>
  PROVE  /\ Head(q) \in Frame /\ Head(q) = q[1]
         /\ Tail(q) \in Seq(Frame) /\ Len(q) \in Nat \ {0} /\ Len(Tail(q)) = Len(q) - 1
         /\ \A i \in DOMAIN Tail(q) : i + 1 \in DOMAIN q /\ Tail(q)[i] = q[i + 1]
         /\ Tail(q) # <<>> => Tail(q)[Len(Tail(q))] = q[Len(q)]
         /\ Tail(q) = <<>> => Head(q) = q[Len(q)]
<1>1. Len(q) \in Nat \ {0} /\ Tail(q) \in Seq(Frame) /\ Len(Tail(q)) = Len(q) - 1
  OBVIOUS
<1>2. \A i \in 1 .. Len(q) - 1 : Tail(q)[i] = q[i + 1]
  BY <1>1
<1>3. Head(q) = q[1] /\ Head(q) \in Frame
  BY <1>1
<1>4. Tail(q) # <<>> => Tail(q)[Len(Tail(q))] = q[Len(q)]
  BY <1>1, <1>2
<1>5. ASSUME Tail(q) = <<>>
      PROVE  Len(q) = 1
  <2>1. Len(Tail(q)) = Len(<<>>)
    BY <1>5, Zenon
  <2>2. Len(<<>>) = 0
    OBVIOUS
  <2>3. Len(q) - 1 = 0
    BY <1>1, <2>1, <2>2, Zenon
  <2> DEFINE n == Len(q)
  <2>4. n \in Nat /\ n - 1 = 0
    BY <1>1, <2>3, Zenon
  <2> HIDE DEF n
  <2>5. n = 1
    BY <2>4
  <2> QED
    BY <2>5 DEF n
<1>6. ASSUME NEW i \in DOMAIN Tail(q)
      PROVE  i + 1 \in DOMAIN q /\ Tail(q)[i] = q[i + 1]
  <2>1. DOMAIN Tail(q) = 1 .. Len(q) - 1 /\ DOMAIN q = 1 .. Len(q)
    BY <1>1
  <2> QED
    BY <1>1, <1>2, <2>1
<1>7. Tail(q) = <<>> => Head(q) = q[Len(q)]
  BY <1>3, <1>5
<1> QED
  BY <1>1, <1>3, <1>4, <1>6, <1>7

LEMMA ForwardStep ==
  ASSUME IInv, NEW c \in Client, Forward(c)
  PROVE  IInv'
<1> DEFINE q == pending[c]
<1>1. /\ pc[c] = "stream" /\ q # <<>>
      /\ seen' = [seen EXCEPT ![c] = Head(q)] /\ pending' = [pending EXCEPT ![c] = Tail(q)]
      /\ UNCHANGED <<simulation, active, latest, producer, pc, initial, overlapped, crossed>>
  BY DEF Forward, shared
<1>2. q \in Seq(Frame) /\ Len(q) <= Capacity
  BY DEF IInv, TypeOK
<1>3. /\ Head(q) \in Frame /\ Tail(q) \in Seq(Frame)
      /\ Len(q) \in Nat \ {0} /\ Len(Tail(q)) = Len(q) - 1
      /\ \A i \in DOMAIN Tail(q) : i + 1 \in DOMAIN q /\ Tail(q)[i] = q[i + 1]
      /\ Tail(q) # <<>> => Tail(q)[Len(Tail(q))] = q[Len(q)]
      /\ Tail(q) = <<>> => Head(q) = q[Len(q)]
  BY <1>1, <1>2, TailResult
<1>4. /\ pending'[c] = Tail(q) /\ seen'[c] = Head(q)
      /\ \A d \in Client : d # c => pending'[d] = pending[d] /\ seen'[d] = seen[d]
  BY <1>1 DEF IInv, TypeOK
<1>5. TypeOK'
  <2>1. Len(Tail(q)) <= Capacity
    BY <1>2, <1>3, BoundsAssumption
  <2>2. \A d \in Client : Len(pending'[d]) <= Capacity
    BY <1>4, <2>1 DEF IInv, TypeOK
  <2>3. pending' \in [Client -> Seq(Frame)] /\ seen' \in [Client -> Frame \union {NoFrame}]
    BY <1>1, <1>3 DEF IInv, TypeOK
  <2> QED
    BY <1>1, <2>2, <2>3 DEF IInv, TypeOK
<1>6. Held'
  BY <1>1 DEF IInv, Held
<1>7. SentIsPast'
  <2>1. ASSUME NEW d \in Client, NEW i \in DOMAIN pending'[d]
        PROVE  \E j \in DOMAIN pending[d] : pending'[d][i] = pending[d][j]
    <3>1. CASE d = c
      <4>1. pending'[d] = Tail(q)
        BY <1>4, <3>1
      <4>2. i + 1 \in DOMAIN q /\ Tail(q)[i] = q[i + 1]
        BY <1>3, <4>1
      <4> QED
        BY <3>1, <4>1, <4>2
    <3>2. CASE d # c
      BY <1>4, <3>2
    <3> QED
      BY <3>1, <3>2
  <2> QED
    BY <1>1, <2>1 DEF IInv, SentIsPast, Past
<1>8. OnlyInitialIsLate'
  <2>1. ASSUME NEW i \in DOMAIN Tail(q), NEW j \in DOMAIN Tail(q), i < j
        PROVE  i + 1 < j + 1
    <3>1. i \in Nat /\ j \in Nat
      BY <1>3
    <3> QED
      BY <2>1, <3>1
  <2>2. \A i, j \in DOMAIN Tail(q) :
          /\ i < j
          /\ Tail(q)[i].run = Tail(q)[j].run
          /\ Tail(q)[j].seq <= Tail(q)[i].seq
          => Tail(q)[j].seq \in {0, MaxSeq}
    <3>1. \A k, l \in DOMAIN q :
            /\ k < l
            /\ q[k].run = q[l].run
            /\ q[l].seq <= q[k].seq
            => q[l].seq \in {0, MaxSeq}
      BY DEF IInv, OnlyInitialIsLate
    <3>2. \A i \in DOMAIN Tail(q) : i + 1 \in DOMAIN q /\ Tail(q)[i] = q[i + 1]
      BY <1>3
    <3> HIDE DEF q
    <3> QED
      BY <2>1, <3>1, <3>2
  <2> HIDE DEF q
  <2>3. \A d \in Client \ {c} : \A i, j \in DOMAIN pending'[d] :
          /\ i < j
          /\ pending'[d][i].run = pending'[d][j].run
          /\ pending'[d][j].seq <= pending'[d][i].seq
          => pending'[d][j].seq \in {0, MaxSeq}
    BY <1>4 DEF IInv, OnlyInitialIsLate
  <2> QED
    BY <1>4, <2>2, <2>3 DEF OnlyInitialIsLate
<1>9. StreamsFollow'
  <2>1. UpToDate(c) => UpToDate(c)'
    BY <1>1, <1>3, <1>4 DEF UpToDate
  <2>2. pc' = [pc EXCEPT ![c] = "stream"]
    BY <1>1 DEF IInv, TypeOK
  <2> QED
    BY <1>1, <1>4, <2>1, <2>2, OtherStep DEF Listening
<1> QED
  BY <1>5, <1>6, <1>7, <1>8, <1>9 DEF IInv

LEMMA DisconnectStep ==
  ASSUME IInv, NEW c \in Client, Disconnect(c)
  PROVE  IInv'
<1>1. /\ pc[c] \in Listening /\ pc' = [pc EXCEPT ![c] = "idle"]
      /\ seen' = [seen EXCEPT ![c] = NoFrame] /\ pending' = [pending EXCEPT ![c] = <<>>]
      /\ UNCHANGED <<simulation, active, latest, producer, initial, overlapped, crossed>>
  BY DEF Disconnect, Goto, shared
<1>2. /\ pending'[c] = <<>> /\ pc'[c] = "idle"
      /\ \A d \in Client : d # c =>
           pending'[d] = pending[d] /\ pc'[d] = pc[d] /\ seen'[d] = seen[d]
  BY <1>1 DEF IInv, TypeOK
<1>3. TypeOK'
  <2>1. <<>> \in Seq(Frame) /\ Len(<<>>) <= Capacity
    BY BoundsAssumption
  <2>2. pending' \in [Client -> Seq(Frame)]
    BY <1>1, <2>1 DEF IInv, TypeOK
  <2>3. \A d \in Client : Len(pending'[d]) <= Capacity
    BY <1>2, <2>1 DEF IInv, TypeOK
  <2> QED
    BY <1>1, <2>2, <2>3 DEF IInv, TypeOK, Location
<1>4. Held'
  BY <1>1, <1>2 DEF IInv, Held, Switching, Listening
<1>5. SentIsPast'
  <2>1. \A d \in Client : \A i \in DOMAIN pending'[d] : d # c
    BY <1>2
  <2> QED
    BY <1>1, <1>2, <2>1 DEF IInv, SentIsPast, Past
<1>6. OnlyInitialIsLate'
  <2>1. \A d \in Client : \A i \in DOMAIN pending'[d] : d # c
    BY <1>2
  <2> QED
    BY <1>2, <2>1 DEF IInv, OnlyInitialIsLate
<1>7. StreamsFollow'
  <2>1. UpToDate(c)'
    BY <1>2 DEF UpToDate
  <2> QED
    BY <1>1, <1>2, <2>1, OtherStep DEF Listening
<1> QED
  BY <1>3, <1>4, <1>5, <1>6, <1>7 DEF IInv

-----------------------------------------------------------------------------
LEMMA StepIInv == IInv /\ [Next]_vars => IInv'
<1> SUFFICES ASSUME IInv, [Next]_vars PROVE IInv'
  OBVIOUS
<1>1. CASE Tick \/ Publish
  BY <1>1, TickStep, StoreFrameStep, SendFrameStep DEF Publish
<1>2. CASE TickFailure
  BY <1>2, TickFailureStep
<1>3. ASSUME NEW c \in Client, Serve(c)
      PROVE  IInv'
  BY <1>3, InstallSimulationStep, InstallActiveStep, StoreInitialStep, SendInitialStep,
     ReadLatestStep, SendLatestStep, ForwardStep DEF Serve
<1>4. ASSUME NEW c \in Client, Reject(c) \/ Drop(c)
      PROVE  IInv'
  BY <1>4, EndEarlyStep DEF Reject, Drop
<1>5. CASE UNCHANGED vars
  <2>1. UNCHANGED <<simulation, active, latest, producer, pc, initial, seen, pending, overlapped, crossed>>
    BY <1>5 DEF vars, shared, streams
  <2>2. TypeOK' /\ Held' /\ StreamsFollow'
    BY <2>1 DEF IInv, TypeOK, Held, StreamsFollow, LoneSender, Sending, UpToDate
  <2> QED
    BY <2>1, <2>2, QuietStep DEF IInv
<1> QED
  BY <1>1, <1>2, <1>3, <1>4, <1>5, SubscribeStep, BeginSelectStep, DisconnectStep DEF Next

(* The inductive invariant: whatever handlers and producer interleave, the *)
(* frames under way are of simulations there were and the streams follow   *)
(* the latest frame.                                                       *)
THEOREM Invariance == Safe => []IInv
BY InitIInv, StepIInv, PTL DEF Safe

(* TypeCorrect: no client's queue outgrows the broadcast channel, and every*)
(* task has the frame it is about to publish.                              *)
THEOREM TypeCorrect == Safe => []TypeOK
BY Invariance, PTL DEF IInv

(* OrderHolds: the only frame that a stream can get behind a later one of  *)
(* its run is the first frame of a switch.                                 *)
THEOREM OrderHolds == Safe => []OnlyInitialIsLate
BY Invariance, PTL DEF IInv

(* StreamsHold: a stream that has forwarded everything shows what a        *)
(* snapshot request returns, but after publishers that crossed.            *)
THEOREM StreamsHold == Safe => []StreamsShowTheSnapshot
<1>1. IInv => StreamsShowTheSnapshot
  BY DEF IInv, StreamsFollow, UpToDate, StreamsShowTheSnapshot
<1> QED
  BY <1>1, Invariance, PTL

-----------------------------------------------------------------------------
(* As long as handlers do not meet between their locks, the one that is    *)
(* there has the active id of the simulation that runs, and when there is  *)
(* none the id is set.                                                     *)
LoneSwitches ==
  ~overlapped =>
    /\ \A c, d \in Client : pc[c] = "activate" /\ pc[d] = "activate" => c = d
    /\ \A c \in Client : pc[c] = "activate" => initial[c].scenario = simulation.scenario
    /\ (\A c \in Client : pc[c] # "activate") => active = simulation.scenario

LEMMA LoneInit == Init => LoneSwitches
BY DEF Init, LoneSwitches

LEMMA LoneNext == IInv /\ LoneSwitches /\ [Next]_vars => LoneSwitches'
<1> SUFFICES ASSUME IInv, LoneSwitches, [Next]_vars PROVE LoneSwitches'
  OBVIOUS
<1>0. TypeOK
  BY DEF IInv
<1>1. ASSUME UNCHANGED <<active, overlapped>>, simulation'.scenario = simulation.scenario,
             \A c \in Client : /\ pc'[c] = "activate" <=> pc[c] = "activate"
                               /\ pc[c] = "activate" => initial'[c] = initial[c]
      PROVE  LoneSwitches'
  BY <1>1 DEF LoneSwitches
<1>2. CASE Tick \/ TickFailure \/ Publish
  <2>1. Advanced.scenario = simulation.scenario
    BY <1>0 DEF Advanced, TypeOK, Frame
  <2> QED
    BY <1>1, <1>2, <2>1
       DEF Publish, Tick, StoreFrame, SendFrame, TickFailure, shared
<1>3. ASSUME NEW c \in Client, NEW from \in Location, NEW to \in Location, Goto(c, from, to),
             from # "activate", to # "activate", UNCHANGED <<simulation, active, overlapped>>,
             \A d \in Client : d # c => initial'[d] = initial[d]
      PROVE  LoneSwitches'
  <2>1. pc[c] = from /\ pc' = [pc EXCEPT ![c] = to]
    BY <1>3 DEF Goto
  <2> QED
    BY <1>0, <1>1, <1>3, <2>1 DEF TypeOK
<1>4. ASSUME NEW c \in Client, NEW s \in Scenario, BeginSelect(c, s) PROVE LoneSwitches'
  BY <1>0, <1>3, <1>4 DEF BeginSelect, Location, shared, TypeOK
<1>5. ASSUME NEW c \in Client, InstallSimulation(c) PROVE LoneSwitches'
  <2>1. /\ pc[c] = "install" /\ pc' = [pc EXCEPT ![c] = "activate"]
        /\ simulation' = [initial[c] EXCEPT !.run = simulation.run + 1]
        /\ initial' = [initial EXCEPT ![c] = simulation']
        /\ overlapped' = (\E d \in Client \ {c} : pc[d] = "activate")
    BY <1>5 DEF InstallSimulation, Goto
  <2>2. /\ pc'[c] = "activate" /\ initial'[c] = simulation'
        /\ \A d \in Client : d # c => pc'[d] = pc[d]
    BY <1>0, <2>1 DEF TypeOK
  <2>3. ~overlapped' => \A d \in Client : d # c => pc'[d] # "activate"
    BY <2>1, <2>2
  <2> QED
    BY <2>2, <2>3 DEF LoneSwitches
<1>6. ASSUME NEW c \in Client, InstallActive(c) PROVE LoneSwitches'
  <2>1. /\ pc[c] = "activate" /\ pc' = [pc EXCEPT ![c] = "store"]
        /\ active' = initial[c].scenario
        /\ UNCHANGED <<simulation, initial, overlapped>>
    BY <1>6 DEF InstallActive, Goto
  <2>2. /\ pc'[c] = "store"
        /\ \A d \in Client : d # c => pc'[d] = pc[d]
    BY <1>0, <2>1 DEF TypeOK
  <2> QED
    BY <2>1, <2>2 DEF LoneSwitches
<1>7. ASSUME NEW c \in Client, StoreInitial(c) \/ SendInitial(c) \/ ReadLatest(c) \/ SendLatest(c)
      PROVE  LoneSwitches'
  BY <1>0, <1>3, <1>7
     DEF StoreInitial, SendInitial, ReadLatest, SendLatest, Location, Switching, shared, TypeOK
<1>8. ASSUME NEW c \in Client, Forward(c) PROVE LoneSwitches'
  BY <1>1, <1>8 DEF Forward, shared
<1>9. ASSUME NEW c \in Client, Subscribe(c) \/ Disconnect(c) PROVE LoneSwitches'
  BY <1>0, <1>3, <1>9 DEF Subscribe, Disconnect, Listening, Location, shared, TypeOK
<1>10. ASSUME NEW c \in Client, NEW from \in {"install", "activate", "store"}, EndEarly(c, from)
       PROVE  LoneSwitches'
  <2>1. CASE from = "activate"
    BY <1>10, <2>1 DEF EndEarly, LoneSwitches
  <2>2. CASE from # "activate"
    BY <1>0, <1>3, <1>10, <2>2 DEF EndEarly, Location, Switching, shared, TypeOK
  <2> QED
    BY <2>1, <2>2
<1>11. CASE UNCHANGED vars
  BY <1>1, <1>11 DEF vars, shared
<1> QED
  BY <1>2, <1>4, <1>5, <1>6, <1>7, <1>8, <1>9, <1>10, <1>11 DEF Next, Serve, Reject, Drop

(* ActiveHolds: the active id is that of the simulation that runs, but for *)
(* handlers that met between the two locks or were dropped there, and the  *)
(* next switch that meets none sets it right.                              *)
THEOREM ActiveHolds == Safe => []ActiveFollowsLoneSwitches
<1>1. LoneSwitches => ActiveFollowsLoneSwitches
  BY DEF LoneSwitches, ActiveFollowsLoneSwitches
<1> QED
  BY <1>1, Invariance, LoneInit, LoneNext, PTL DEF Safe
=============================================================================
