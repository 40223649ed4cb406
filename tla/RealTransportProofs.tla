------------------------- MODULE RealTransportProofs -------------------------
(***************************************************************************)
(* Proofs about RealTransport, for every number of peers and documents,    *)
(* all links, authors, failures and restarts.                              *)
(***************************************************************************)
EXTENDS RealTransport, TLAPS

USE TransportAssumption

(* The peer that writes a document: as Writer, which the properties spell  *)
(* out so that they say it of whatever the actions do.                     *)
LEMMA WriterIsPeer ==
  ASSUME NEW d \in Doc
  PROVE  /\ Writer(d) \in Peer
         /\ Writer(d) = IF Author[d] \in Peer THEN Author[d] ELSE Fallback
BY DEF Writer, Doc, Peer

(* Calls go through the peers from the first on, and every loop over them  *)
(* leaves the counters where the next one starts.                          *)
LoopsStartAtFirst ==
  /\ at \notin {"apply", "observe"} => peer = 1
  /\ at # "observe" => doc = 1

(* The peers that apply_links has been through are configured.             *)
ConfiguredSoFar ==
  at = "apply" => \A q \in Peer : q < peer => dials[q] = Addresses(q)

(* The matrix recorded last is the one the peers are configured for,       *)
(* unless apply_links was begun since, and it is that of the frame once    *)
(* the frame has passed apply_links.                                       *)
RecordedMatrixIsApplied ==
  /\ at = "apply" => halfway
  /\ ~halfway => Connections = active
  /\ at \in {"write", "observe", "shown"} => up = active

(* Nothing is written that is not a revision; all of them are before the   *)
(* stores are read.                                                        *)
WritesFollowRevisions ==
  \A d \in Doc :
    /\ written[d] <= revision[d]
    /\ at \in {"observe", "shown"} => written[d] = revision[d]

(* Stores only get newer after they are read, and the author's not at all. *)
ReadsAreBehind ==
  \A d \in Doc :
    /\ \A p \in Peer : read[p][d] <= store[p][d]
    /\ IF at \in {"observe", "shown"} THEN read[Writer(d)][d] \in {0, Latest(d)}
                                      ELSE \A p \in Peer : read[p][d] = 0

(* observe has found, at the peers it has been through, the writers'       *)
(* revisions and what the frame before saw there.                          *)
ReadAlready(p, d) ==
  \/ at = "shown"
  \/ at = "observe" /\ (p < peer \/ (p = peer /\ d < doc))

ReadSoFar ==
  \A p \in Peer, d \in Doc :
    /\ p \in previous[d] => store[p][d] > 0
    /\ ReadAlready(p, d) => /\ p = Writer(d) => read[p][d] = Latest(d)
                            /\ p \in previous[d] => read[p][d] > 0

Inv ==
  /\ TypeOK
  /\ LoopsStartAtFirst
  /\ ConfiguredSoFar
  /\ RecordedMatrixIsApplied
  /\ AuthorHoldsTheNewest
  /\ WritesFollowRevisions
  /\ ReadsAreBehind
  /\ ReadSoFar

LEMMA AddressesType ==
  ASSUME TypeOK, NEW p \in Peer
  PROVE  Addresses(p) \subseteq Peer /\ Addresses(p) \subseteq 1 .. p - 1
<1>1. ASSUME NEW q \in Addresses(p) PROVE q \in Peer /\ q \in 1 .. p - 1
  <2>1. q \in Peer /\ <<q, p>> \in Pair
    BY <1>1 DEF TypeOK, Addresses
  <2>2. q < p
    BY <2>1 DEF Pair
  <2> QED
    BY <2>1, <2>2 DEF Peer
<1> QED
  BY <1>1

LEMMA InvInit == Init => Inv
<1> SUFFICES ASSUME Init PROVE Inv
  OBVIOUS
<1> USE DEF Init, Nothing
<1>1. TypeOK
  <2>1. halfway \in BOOLEAN
    OBVIOUS
  <2>2. 1 \in Peer /\ 1 \in Doc
    BY DEF Peer, Doc
  <2>3. store \in [Peer -> [Doc -> Nat]] /\ read \in [Peer -> [Doc -> Nat]]
    OBVIOUS
  <2> QED
    BY <2>1, <2>2, <2>3 DEF TypeOK, Location
<1>2. LoopsStartAtFirst /\ ConfiguredSoFar
  BY DEF LoopsStartAtFirst, ConfiguredSoFar
<1>3. AuthorHoldsTheNewest
  BY WriterIsPeer DEF AuthorHoldsTheNewest
<1>4. WritesFollowRevisions /\ ReadsAreBehind /\ ReadSoFar
  BY WriterIsPeer DEF WritesFollowRevisions, ReadsAreBehind, ReadSoFar, ReadAlready
<1>5. RecordedMatrixIsApplied
  <2>1. \A c \in Pair : c[2] \in Peer
    BY DEF Pair
  <2> QED
    BY <2>1 DEF RecordedMatrixIsApplied, Connections
<1> QED
  BY <1>1, <1>2, <1>3, <1>4, <1>5 DEF Inv

-----------------------------------------------------------------------------
(* A restart finds the newest values at the authors' stores, one of them   *)
(* perhaps written by the call that was interrupted.                       *)
LEMMA RestartResult ==
  ASSUME TypeOK, AuthorHoldsTheNewest, WritesFollowRevisions, Restart
  PROVE  /\ store' \in [Peer -> [Doc -> Nat]] /\ before' \in [Doc -> Nat]
         /\ \A d \in Doc : before'[d] = store'[Writer(d)][d] /\ before'[d] <= MaxRevision[d]
         /\ \A p \in Peer, d \in Doc : /\ store'[p][d] <= before'[d]
                                       /\ store'[p][d] >= store[p][d]
<1>1. ASSUME NEW p \in Peer, NEW d \in Doc
      PROVE  /\ Writer(d) \in Peer /\ store[Writer(d)][d] = before[d] + written[d]
             /\ store[p][d] <= before[d] + written[d] /\ written[d] <= revision[d]
             /\ before[d] + revision[d] <= MaxRevision[d]
             /\ before[d] \in Nat /\ written[d] \in Nat /\ revision[d] \in Nat
             /\ store[p][d] \in Nat /\ MaxRevision[d] \in Nat
  <2>1. Writer(d) \in Peer /\ Writer(d) = IF Author[d] \in Peer THEN Author[d] ELSE Fallback
    BY WriterIsPeer
  <2>2. /\ store[Writer(d)][d] = before[d] + written[d]
        /\ store[p][d] <= before[d] + written[d]
    BY <2>1 DEF AuthorHoldsTheNewest
  <2>3. written[d] <= revision[d]
    BY DEF WritesFollowRevisions
  <2>4. /\ before[d] + revision[d] <= MaxRevision[d]
        /\ before[d] \in Nat /\ written[d] \in Nat /\ revision[d] \in Nat
        /\ store[p][d] \in Nat /\ MaxRevision[d] \in Nat
    BY DEF TypeOK
  <2> QED
    BY <2>1, <2>2, <2>3, <2>4
<1>2. /\ store' \in {store} \union {StoredAt(Writer(d), d) : d \in {e \in Doc : NextToWrite(e)}}
      /\ before' = [d \in Doc |-> store'[Writer(d)][d]]
  BY DEF Restart
<1>3. ASSUME /\ store' \in [Peer -> [Doc -> Nat]]
             /\ \A d \in Doc : store'[Writer(d)][d] <= MaxRevision[d]
             /\ \A p \in Peer, d \in Doc : /\ store'[p][d] <= store'[Writer(d)][d]
                                           /\ store'[p][d] >= store[p][d]
      PROVE  /\ before' \in [Doc -> Nat]
             /\ \A d \in Doc : before'[d] = store'[Writer(d)][d] /\ before'[d] <= MaxRevision[d]
             /\ \A p \in Peer, d \in Doc : store'[p][d] <= before'[d]
  BY <1>2, <1>3, WriterIsPeer
<1>4. CASE store' = store
  <2>1. \A d \in Doc : store[Writer(d)][d] <= MaxRevision[d]
    BY <1>1
  <2>2. \A p \in Peer, d \in Doc : store[p][d] <= store[Writer(d)][d] /\ store[p][d] >= store[p][d]
    BY <1>1
  <2> QED
    BY <1>3, <1>4, <2>1, <2>2 DEF TypeOK
<1>5. ASSUME NEW d \in Doc, store' = StoredAt(Writer(d), d)
      PROVE  /\ store' \in [Peer -> [Doc -> Nat]]
             /\ \A c \in Doc : store'[Writer(c)][c] <= MaxRevision[c]
             /\ \A p \in Peer, c \in Doc : /\ store'[p][c] <= store'[Writer(c)][c]
                                           /\ store'[p][c] >= store[p][c]
  <2>1. store' = [store EXCEPT ![Writer(d)][d] = before[d] + revision[d]]
    BY <1>5 DEF StoredAt, Latest
  <2>2. store' \in [Peer -> [Doc -> Nat]]
    BY <1>1, <2>1 DEF TypeOK
  <2>3. ASSUME NEW p \in Peer, NEW c \in Doc
        PROVE  store'[p][c] = IF p = Writer(d) /\ c = d THEN before[d] + revision[d] ELSE store[p][c]
    BY <2>1 DEF TypeOK
  <2>4. ASSUME NEW p \in Peer, NEW c \in Doc
        PROVE  /\ store'[Writer(c)][c] <= MaxRevision[c]
               /\ store'[p][c] <= store'[Writer(c)][c] /\ store'[p][c] >= store[p][c]
    <3>1. Writer(c) \in Peer
      BY WriterIsPeer
    <3>2. CASE c # d
      BY <1>1, <2>3, <3>1, <3>2
    <3>3. CASE c = d
      <4>1. store'[Writer(c)][c] = before[c] + revision[c]
        BY <2>3, <3>1, <3>3
      <4>2. store'[p][c] \in {before[c] + revision[c], store[p][c]}
        BY <2>3, <3>3
      <4> QED
        BY <1>1, <4>1, <4>2
    <3> QED
      BY <3>2, <3>3
  <2> QED
    BY <2>2, <2>4, WriterIsPeer
<1> QED
  BY <1>2, <1>3, <1>4, <1>5

LEMMA TypeNext ==
  TypeOK /\ LoopsStartAtFirst /\ AuthorHoldsTheNewest /\ WritesFollowRevisions /\ [Next]_vars
    => TypeOK'
<1> SUFFICES ASSUME TypeOK, LoopsStartAtFirst, AuthorHoldsTheNewest, WritesFollowRevisions,
                    [Next]_vars
             PROVE  TypeOK'
  OBVIOUS
<1> USE DEF TypeOK, Location, linkVars, docVars, seenVars
<1>1. CASE BeginFrame
  <2>1. up' \in SUBSET Pair
    BY <1>1 DEF BeginFrame
  <2>2. revision' \in [Doc -> Nat] /\ \A d \in Doc : before[d] + revision'[d] <= MaxRevision[d]
    BY <1>1 DEF BeginFrame, Latest
  <2>3. read' \in [Peer -> [Doc -> Nat]]
    BY <1>1 DEF BeginFrame, Nothing
  <2> QED
    BY <1>1, <2>1, <2>2, <2>3 DEF BeginFrame
<1>2. ASSUME NEW p \in Peer, Configure(p) PROVE TypeOK'
  <2>1. dials' \in [Peer -> SUBSET Peer] /\ \A q \in Peer : dials'[q] \subseteq 1 .. q - 1
    BY <1>2, AddressesType, SMTT(30) DEF Configure, Configured
  <2>2. peer' \in Peer /\ at' \in Location
    <3>1. CASE p < NumPeers
      BY <1>2, <3>1 DEF Configure, Peer
    <3>2. CASE ~(p < NumPeers)
      BY <1>2, <3>2, TransportAssumption DEF Configure, Peer
    <3> QED
      BY <3>1, <3>2
  <2>3. active' \in SUBSET Pair
    BY <1>2 DEF Configure
  <2> QED
    BY <1>2, <2>1, <2>2, <2>3 DEF Configure
<1>3. ASSUME NEW d \in Doc, WriteDocument(d) PROVE TypeOK'
  BY <1>3, WriterIsPeer DEF WriteDocument, NextToWrite, StoredAt, Latest
<1>4. CASE AllWritten
  BY <1>4 DEF AllWritten
<1>5. CASE ReadCollection
  <2> DEFINE seen == [read EXCEPT ![peer][doc] = store[peer][doc]]
  <2>1. /\ read' = seen
        /\ doc' = IF doc < NumDocs THEN doc + 1 ELSE 1
        /\ LastRead => /\ at' = "shown"
                       /\ peer' = 1
                       /\ arrivals' = Arrived(seen)
                       /\ previous' = [d \in Doc |-> Replicas(seen, d)]
        /\ ~LastRead => /\ peer' = IF doc < NumDocs THEN peer ELSE peer + 1
                        /\ UNCHANGED <<at, arrivals, previous>>
        /\ UNCHANGED <<up, active, dials, halfway, before, revision, written, store>>
    BY <1>5 DEF ReadCollection
  <2>2. read' \in [Peer -> [Doc -> Nat]]
    BY <2>1
  <2>3. doc' \in Doc /\ at' \in Location /\ peer' \in Peer
    <3>1. doc \in Doc /\ peer \in Peer /\ at \in Location
      OBVIOUS
    <3> HIDE DEF TypeOK, Location, seen
    <3>2. doc' \in Doc
      BY <2>1, <3>1 DEF Doc
    <3>3. peer' \in Peer
      BY <2>1, <3>1 DEF LastRead, Peer, Doc
    <3>4. at' \in Location
      BY <2>1, <3>1 DEF Location
    <3> QED
      BY <3>2, <3>3, <3>4
  <2>5. Arrived(seen) \in SUBSET (Doc \X Peer)
    BY DEF Arrived
  <2>6. \A d \in Doc : Replicas(seen, d) \in SUBSET Peer
    BY DEF Replicas
  <2>7. arrivals' \in SUBSET (Doc \X Peer) /\ previous' \in [Doc -> SUBSET Peer]
    <3> HIDE DEF seen
    <3> QED
      BY <2>1, <2>5, <2>6
  <2> HIDE DEF seen
  <2> QED
    BY <2>1, <2>2, <2>3, <2>7
<1>6. ASSUME NEW where \in {"apply", "observe"}, Fails(where) PROVE TypeOK'
  <2>1. 1 \in Peer /\ 1 \in Doc
    BY DEF Peer, Doc
  <2>2. Nothing \in [Peer -> [Doc -> Nat]]
    BY DEF Nothing
  <2> QED
    BY <1>6, <2>1, <2>2 DEF Fails
<1>7. CASE WriteFails
  BY <1>7 DEF WriteFails
<1>8. ASSUME NEW p \in Peer, NEW q \in Peer, NEW d \in Doc, Sync(p, q, d) PROVE TypeOK'
  BY <1>8 DEF Sync
<1>9. CASE UNCHANGED vars
  BY <1>9 DEF vars
<1>10. CASE Restart
  <2>1. /\ store' \in [Peer -> [Doc -> Nat]] /\ before' \in [Doc -> Nat]
        /\ \A d \in Doc : before'[d] <= MaxRevision[d]
    BY <1>10, RestartResult
  <2>2. 1 \in Peer /\ 1 \in Doc /\ Nothing \in [Peer -> [Doc -> Nat]]
    BY DEF Peer, Doc, Nothing
  <2>3. /\ at' = "ready" /\ peer' = 1 /\ doc' = 1
        /\ up' = {} /\ active' = {} /\ dials' = [p \in Peer |-> {}]
        /\ revision' = [d \in Doc |-> 0] /\ written' = [d \in Doc |-> 0]
        /\ read' = Nothing /\ arrivals' = {} /\ previous' = [d \in Doc |-> {}]
    BY <1>10 DEF Restart, Forgotten
  <2>4. halfway' \in BOOLEAN
    BY <1>10 DEF Restart
  <2> QED
    BY <2>1, <2>2, <2>3, <2>4
<1> QED
  BY <1>1, <1>2, <1>3, <1>4, <1>5, <1>6, <1>7, <1>8, <1>9, <1>10 DEF Next, Frame

-----------------------------------------------------------------------------
LEMMA LoopsNext ==
  TypeOK /\ LoopsStartAtFirst /\ ConfiguredSoFar /\ [Next]_vars
    => LoopsStartAtFirst' /\ ConfiguredSoFar'
<1> SUFFICES ASSUME TypeOK, LoopsStartAtFirst, ConfiguredSoFar, [Next]_vars
             PROVE  LoopsStartAtFirst' /\ ConfiguredSoFar'
  OBVIOUS
<1> USE DEF LoopsStartAtFirst, ConfiguredSoFar, linkVars, docVars, seenVars, Addresses
<1>1. CASE BeginFrame
  <2>1. peer' = 1 /\ doc' = 1 /\ at' \in {"write", "apply"}
    BY <1>1 DEF BeginFrame
  <2> QED
    BY <2>1 DEF Peer
<1>2. ASSUME NEW p \in Peer, Configure(p)
      PROVE  LoopsStartAtFirst' /\ ConfiguredSoFar'
  <2>1. /\ at = "apply" /\ peer = p /\ up' = up /\ doc' = doc
        /\ dials' = [dials EXCEPT ![p] = Addresses(p)]
        /\ p < NumPeers => peer' = p + 1 /\ at' = at
        /\ ~(p < NumPeers) => peer' = 1 /\ at' = "write"
    BY <1>2 DEF Configure, Configured
  <2>2. \A q \in Peer : q < p + 1 => dials'[q] = Addresses(q)
    <3>1. ASSUME NEW q \in Peer, q < p + 1, q # p PROVE q < p
      BY <3>1 DEF Peer
    <3> QED
      BY <2>1, <3>1 DEF TypeOK
  <2> QED
    BY <2>1, <2>2
<1>3. ASSUME NEW d \in Doc, WriteDocument(d)
      PROVE  LoopsStartAtFirst' /\ ConfiguredSoFar'
  BY <1>3 DEF WriteDocument
<1>4. CASE AllWritten
  BY <1>4 DEF AllWritten
<1>5. CASE ReadCollection
  <2>1. /\ at = "observe"
        /\ LastRead => at' = "shown" /\ peer' = 1
        /\ ~LastRead => at' = "observe"
        /\ doc' = IF doc < NumDocs THEN doc + 1 ELSE 1
    BY <1>5 DEF ReadCollection
  <2>2. LastRead => doc' = 1
    BY <2>1 DEF LastRead, Doc, TypeOK
  <2> QED
    BY <2>1, <2>2
<1>6. ASSUME NEW where \in {"apply", "observe"}, Fails(where)
      PROVE  LoopsStartAtFirst' /\ ConfiguredSoFar'
  BY <1>6 DEF Fails
<1>7. CASE WriteFails
  BY <1>7 DEF WriteFails
<1>8. ASSUME NEW p \in Peer, NEW q \in Peer, NEW d \in Doc, Sync(p, q, d)
      PROVE  LoopsStartAtFirst' /\ ConfiguredSoFar'
  BY <1>8 DEF Sync
<1>9. CASE UNCHANGED vars
  BY <1>9 DEF vars
<1>10. CASE Restart
  BY <1>10 DEF Restart
<1> QED
  BY <1>1, <1>2, <1>3, <1>4, <1>5, <1>6, <1>7, <1>8, <1>9, <1>10 DEF Next, Frame

-----------------------------------------------------------------------------
(* The author's store is the newest: a write makes it newer, and Ditto     *)
(* changes it for nothing that is not newer still.                         *)
LEMMA AuthorsNext ==
  TypeOK /\ AuthorHoldsTheNewest /\ WritesFollowRevisions /\ [Next]_vars
    => AuthorHoldsTheNewest' /\ WritesFollowRevisions'
<1> SUFFICES ASSUME TypeOK, AuthorHoldsTheNewest, WritesFollowRevisions, [Next]_vars
             PROVE  AuthorHoldsTheNewest' /\ WritesFollowRevisions'
  OBVIOUS
<1> USE DEF AuthorHoldsTheNewest, WritesFollowRevisions, linkVars, docVars, seenVars
<1>1. CASE BeginFrame
  <2>1. /\ UNCHANGED <<before, written, store>>
        /\ at' \in {"write", "apply"}
        /\ \A d \in Doc : revision'[d] \in {revision[d], revision[d] + 1}
    BY <1>1 DEF BeginFrame
  <2>2. AuthorHoldsTheNewest'
    BY <2>1
  <2>3. ASSUME NEW d \in Doc PROVE written[d] <= revision'[d]
    <3>1. written[d] \in Nat /\ revision[d] \in Nat /\ written[d] <= revision[d]
      BY DEF TypeOK
    <3>2. revision'[d] = revision[d] \/ revision'[d] = revision[d] + 1
      BY <2>1
    <3> QED
      BY <3>1, <3>2
  <2>4. WritesFollowRevisions'
    BY <2>1, <2>3
  <2> QED
    BY <2>2, <2>4
<1>2. ASSUME NEW p \in Peer, Configure(p)
      PROVE  AuthorHoldsTheNewest' /\ WritesFollowRevisions'
  <2>1. UNCHANGED docVars /\ at' \notin {"observe", "shown"}
    BY <1>2 DEF Configure
  <2> QED
    BY <2>1
<1>3. ASSUME NEW d \in Doc, WriteDocument(d)
      PROVE  AuthorHoldsTheNewest' /\ WritesFollowRevisions'
  <2>1. /\ at' = at /\ at = "write" /\ revision' = revision /\ before' = before
        /\ store' = [store EXCEPT ![Writer(d)][d] = before[d] + revision[d]]
        /\ written' = [written EXCEPT ![d] = revision[d]]
    BY <1>3 DEF WriteDocument, NextToWrite, StoredAt, Latest
  <2>2. WritesFollowRevisions'
    BY <2>1 DEF TypeOK
  <2>3. ASSUME NEW c \in Doc, NEW p \in Peer
        PROVE  /\ store'[Writer(c)][c] = before'[c] + written'[c]
               /\ store'[p][c] <= before'[c] + written'[c]
    <3>1. /\ store[Writer(c)][c] = before[c] + written[c] /\ store[p][c] <= before[c] + written[c]
          /\ Writer(c) \in Peer /\ written[c] <= revision[c]
      BY WriterIsPeer
    <3>2. /\ store[p][c] \in Nat /\ written[c] \in Nat /\ revision[c] \in Nat /\ before[c] \in Nat
      BY DEF TypeOK
    <3>3. CASE c = d
      BY <2>1, <3>1, <3>2, <3>3, WriterIsPeer DEF TypeOK
    <3>4. CASE c # d
      <4>1. store'[p][c] = store[p][c] /\ store'[Writer(c)][c] = store[Writer(c)][c]
        BY <2>1, <3>1, <3>4, WriterIsPeer DEF TypeOK
      <4>2. written'[c] = written[c]
        BY <2>1, <3>4 DEF TypeOK
      <4> QED
        BY <2>1, <3>1, <4>1, <4>2
    <3> QED
      BY <3>3, <3>4
  <2>4. AuthorHoldsTheNewest'
    BY <2>3, WriterIsPeer
  <2> QED
    BY <2>2, <2>4
<1>4. CASE AllWritten
  <2>1. UNCHANGED docVars /\ \A d \in Doc : written[d] = revision[d]
    BY <1>4 DEF AllWritten, Unwritten
  <2> QED
    BY <2>1 DEF TypeOK
<1>5. CASE ReadCollection
  <2>1. UNCHANGED docVars /\ at = "observe"
    BY <1>5 DEF ReadCollection
  <2> QED
    BY <2>1
<1>6. ASSUME NEW where \in {"apply", "observe"}, Fails(where)
      PROVE  AuthorHoldsTheNewest' /\ WritesFollowRevisions'
  <2>1. UNCHANGED docVars /\ at' = "ready"
    BY <1>6 DEF Fails
  <2> QED
    BY <2>1
<1>7. CASE WriteFails
  <2>1. UNCHANGED docVars /\ at' = "ready"
    BY <1>7 DEF WriteFails
  <2> QED
    BY <2>1
<1>8. ASSUME NEW p \in Peer, NEW q \in Peer, NEW d \in Doc, Sync(p, q, d)
      PROVE  AuthorHoldsTheNewest' /\ WritesFollowRevisions'
  <2>1. /\ UNCHANGED <<at, before, revision, written>>
        /\ store[p][d] > store[q][d]
        /\ store' = [store EXCEPT ![q][d] = store[p][d]]
    BY <1>8 DEF Sync
  <2>2. ASSUME NEW c \in Doc, NEW r \in Peer
        PROVE  /\ store'[Writer(c)][c] = before[c] + written[c]
               /\ store'[r][c] <= before[c] + written[c]
    <3>1. /\ store[Writer(c)][c] = before[c] + written[c] /\ store[r][c] <= before[c] + written[c]
          /\ store[p][c] <= before[c] + written[c] /\ Writer(c) \in Peer
      BY WriterIsPeer
    <3>2. /\ store[p][c] \in Nat /\ store[q][c] \in Nat /\ written[c] \in Nat /\ before[c] \in Nat
      BY DEF TypeOK
    <3>3. q = Writer(c) => c # d
      BY <2>1, <3>1, <3>2
    <3>4. store'[Writer(c)][c] = store[Writer(c)][c]
      BY <2>1, <3>1, <3>3 DEF TypeOK
    <3>5. store'[r][c] \in {store[r][c], store[p][c]}
      BY <2>1 DEF TypeOK
    <3> QED
      BY <3>1, <3>4, <3>5
  <2> QED
    BY <2>1, <2>2, WriterIsPeer
<1>9. CASE UNCHANGED vars
  BY <1>9 DEF vars
<1>10. CASE Restart
  <2>1. \A d \in Doc : before'[d] = store'[Writer(d)][d] /\ before'[d] \in Nat
    BY <1>10, RestartResult
  <2>2. \A p \in Peer, d \in Doc : store'[p][d] <= before'[d]
    BY <1>10, RestartResult
  <2>3. /\ at' = "ready"
        /\ \A d \in Doc : written'[d] = 0 /\ revision'[d] = 0
    BY <1>10 DEF Restart, Forgotten
  <2> QED
    BY <2>1, <2>2, <2>3, WriterIsPeer
<1> QED
  BY <1>1, <1>2, <1>3, <1>4, <1>5, <1>6, <1>7, <1>8, <1>9, <1>10 DEF Next, Frame

(* A store never goes back.                                                *)
LEMMA StoresGrow ==
  ASSUME TypeOK, AuthorHoldsTheNewest, WritesFollowRevisions, [Next]_vars,
         NEW p \in Peer, NEW d \in Doc
  PROVE  store'[p][d] >= store[p][d]
<1>1. ASSUME NEW c \in Doc, WriteDocument(c) PROVE store'[p][d] >= store[p][d]
  <2>1. store' = [store EXCEPT ![Writer(c)][c] = before[c] + revision[c]]
    BY <1>1 DEF WriteDocument, StoredAt, Latest
  <2>2. /\ store[p][c] <= before[c] + written[c] /\ written[c] <= revision[c]
        /\ store[p][c] \in Nat /\ store[p][d] \in Nat
        /\ before[c] \in Nat /\ written[c] \in Nat /\ revision[c] \in Nat
    BY DEF AuthorHoldsTheNewest, WritesFollowRevisions, TypeOK
  <2>3. store'[p][d] = store[p][d] \/ (d = c /\ store'[p][d] = before[c] + revision[c])
    BY <2>1 DEF TypeOK
  <2> QED
    BY <2>2, <2>3
<1>2. ASSUME NEW q \in Peer, NEW r \in Peer, NEW c \in Doc, Sync(q, r, c)
      PROVE  store'[p][d] >= store[p][d]
  <2>1. store[q][c] > store[r][c] /\ store' = [store EXCEPT ![r][c] = store[q][c]]
    BY <1>2 DEF Sync
  <2>2. store[p][d] \in Nat /\ store[q][c] \in Nat /\ store[r][c] \in Nat
    BY DEF TypeOK
  <2>3. store'[p][d] = store[p][d] \/ (p = r /\ d = c /\ store'[p][d] = store[q][c])
    BY <2>1 DEF TypeOK
  <2> QED
    BY <2>1, <2>2, <2>3
<1>3. ASSUME UNCHANGED store PROVE store'[p][d] >= store[p][d]
  BY <1>3 DEF TypeOK
<1> USE DEF linkVars, docVars, seenVars
<1>4. ASSUME NEW q \in Peer, Configure(q) PROVE UNCHANGED store
  BY <1>4 DEF Configure
<1>5. BeginFrame \/ AllWritten \/ ReadCollection \/ WriteFails \/ UNCHANGED vars
        => UNCHANGED store
  BY DEF BeginFrame, AllWritten, ReadCollection, WriteFails, vars
<1>6. ASSUME NEW where \in {"apply", "observe"}, Fails(where) PROVE UNCHANGED store
  BY <1>6 DEF Fails
<1>7. Restart => store'[p][d] >= store[p][d]
  BY RestartResult
<1> QED
  BY <1>1, <1>2, <1>3, <1>4, <1>5, <1>6, <1>7 DEF Next, Frame

(* What is read is behind the stores from then on.  The author's revision  *)
(* does not change while the stores are read.                              *)
LEMMA ReadsNext ==
  Inv /\ [Next]_vars => ReadsAreBehind'
<1> SUFFICES ASSUME Inv, [Next]_vars PROVE ReadsAreBehind'
  OBVIOUS
<1>0. /\ TypeOK /\ AuthorHoldsTheNewest /\ WritesFollowRevisions /\ ReadsAreBehind
      /\ TypeOK' /\ WritesFollowRevisions'
  BY TypeNext, AuthorsNext DEF Inv
<1>1. ASSUME NEW p \in Peer, NEW d \in Doc
      PROVE  /\ store'[p][d] >= store[p][d]
             /\ read[p][d] <= store[p][d]
             /\ store[p][d] \in Nat /\ store'[p][d] \in Nat /\ read[p][d] \in Nat
  BY <1>0, StoresGrow DEF TypeOK, ReadsAreBehind
<1>2. ASSUME read' = Nothing PROVE ReadsAreBehind'
  <2>1. ASSUME NEW p \in Peer, NEW d \in Doc PROVE read'[p][d] = 0
    BY <1>2 DEF Nothing
  <2> QED
    BY <1>1, <2>1, WriterIsPeer DEF ReadsAreBehind
<1>3. ASSUME read' = read, at \notin {"observe", "shown"} PROVE ReadsAreBehind'
  BY <1>0, <1>1, <1>3, WriterIsPeer DEF ReadsAreBehind
<1>4. ASSUME UNCHANGED <<at, read, before, revision>> PROVE ReadsAreBehind'
  BY <1>0, <1>1, <1>4, WriterIsPeer DEF ReadsAreBehind, Latest
<1>5. CASE BeginFrame \/ Restart \/ \E where \in {"apply", "observe"} : Fails(where)
  BY <1>2, <1>5 DEF BeginFrame, Restart, Fails
<1>6. CASE AllWritten \/ WriteFails \/ \E p \in Peer : Configure(p)
  BY <1>3, <1>6 DEF AllWritten, WriteFails, Configure, seenVars
<1>7. CASE ReadCollection
  <2> DEFINE seen == [read EXCEPT ![peer][doc] = store[peer][doc]]
  <2>1. read' = seen /\ at = "observe" /\ at' \in {"observe", "shown"}
        /\ UNCHANGED <<store, before, revision, written>>
    BY <1>7 DEF ReadCollection, docVars
  <2>2. ASSUME NEW p \in Peer, NEW d \in Doc
        PROVE  read'[p][d] = read[p][d] \/ read'[p][d] = store[p][d]
    <3>1. read \in [Peer -> [Doc -> Nat]] /\ peer \in Peer /\ doc \in Doc
      BY <1>0 DEF TypeOK
    <3> QED
      BY <2>1, <3>1
  <2>3. ASSUME NEW d \in Doc
        PROVE  /\ store[Writer(d)][d] = Latest(d)
               /\ read[Writer(d)][d] \in {0, Latest(d)}
               /\ Latest(d)' = Latest(d)
    BY <1>0, <2>1, WriterIsPeer
       DEF AuthorHoldsTheNewest, WritesFollowRevisions, ReadsAreBehind, Latest
  <2> HIDE DEF seen
  <2> QED
    BY <1>1, <2>1, <2>2, <2>3, WriterIsPeer DEF ReadsAreBehind
<1>8. ASSUME NEW d \in Doc, WriteDocument(d) PROVE ReadsAreBehind'
  BY <1>4, <1>8 DEF WriteDocument, seenVars
<1>9. ASSUME NEW p \in Peer, NEW q \in Peer, NEW d \in Doc, Sync(p, q, d)
      PROVE  ReadsAreBehind'
  BY <1>4, <1>9 DEF Sync, seenVars
<1>10. CASE UNCHANGED vars
  BY <1>4, <1>10 DEF vars, docVars, seenVars
<1> QED
  BY <1>5, <1>6, <1>7, <1>8, <1>9, <1>10 DEF Next, Frame

(* The last call of apply_links leaves every peer configured for the       *)
(* frame's matrix, those an earlier failure left half way included.        *)
LEMMA LastConfigured ==
  ASSUME TypeOK, ConfiguredSoFar, Configure(NumPeers)
  PROVE  Connections' = up
<1>1. /\ at = "apply" /\ peer = NumPeers
      /\ dials' = [dials EXCEPT ![NumPeers] = Addresses(NumPeers)]
  BY DEF Configure, Configured
<1>2. ASSUME NEW q \in Peer PROVE dials'[q] = Addresses(q)
  <2>1. CASE q = NumPeers
    BY <1>1, <2>1 DEF TypeOK
  <2>2. CASE q # NumPeers
    <3>1. q < peer
      BY <1>1, <2>2 DEF Peer
    <3> QED
      BY <1>1, <2>2, <3>1 DEF TypeOK, ConfiguredSoFar
  <2> QED
    BY <2>1, <2>2
<1>3. ASSUME NEW c \in Pair PROVE c[1] \in dials'[c[2]] <=> c \in up
  <2>1. c[1] \in Peer /\ c[2] \in Peer /\ c = <<c[1], c[2]>>
    BY DEF Pair
  <2> QED
    BY <1>2, <2>1 DEF Addresses
<1>4. Connections' = {c \in Pair : c[1] \in dials'[c[2]]}
  BY DEF Connections
<1>5. up \subseteq Pair
  BY DEF TypeOK
<1> QED
  BY <1>3, <1>4, <1>5

LEMMA MatrixNext ==
  Inv /\ [Next]_vars => RecordedMatrixIsApplied'
<1> SUFFICES ASSUME Inv, [Next]_vars PROVE RecordedMatrixIsApplied'
  OBVIOUS
<1>0. TypeOK /\ LoopsStartAtFirst /\ ConfiguredSoFar /\ RecordedMatrixIsApplied
  BY DEF Inv
<1> USE DEF linkVars, docVars, seenVars
<1>1. ASSUME UNCHANGED <<active, dials, halfway>>,
             at' # "apply",
             at' \in {"write", "observe", "shown"} => up' = active
      PROVE  RecordedMatrixIsApplied'
  BY <1>0, <1>1 DEF RecordedMatrixIsApplied, Connections
<1>2. CASE BeginFrame
  <2>1. CASE up' = active
    <3>1. UNCHANGED <<active, dials>> /\ at' = "write" /\ halfway' = halfway
      BY <1>0, <1>2, <2>1 DEF BeginFrame, TypeOK
    <3> QED
      BY <1>1, <2>1, <3>1
  <2>2. CASE up' # active
    <3>1. at' = "apply" /\ halfway' = TRUE
      BY <1>2, <2>2 DEF BeginFrame
    <3> QED
      BY <3>1 DEF RecordedMatrixIsApplied
  <2> QED
    BY <2>1, <2>2
<1>3. ASSUME NEW p \in Peer, Configure(p) PROVE RecordedMatrixIsApplied'
  <2>1. CASE p < NumPeers
    <3>1. at = "apply" /\ UNCHANGED <<at, active, halfway>>
      BY <1>3, <2>1 DEF Configure
    <3> QED
      BY <1>0, <3>1 DEF RecordedMatrixIsApplied
  <2>2. CASE ~(p < NumPeers)
    <3>1. p = NumPeers
      BY <2>2 DEF Peer
    <3>2. at' = "write" /\ active' = up /\ up' = up
      BY <1>3, <2>2 DEF Configure
    <3>3. Connections' = up
      BY <1>0, <1>3, <3>1, LastConfigured
    <3> QED
      BY <3>2, <3>3 DEF RecordedMatrixIsApplied
  <2> QED
    BY <2>1, <2>2
<1>4. ASSUME UNCHANGED linkVars, at # "apply", at' = at PROVE RecordedMatrixIsApplied'
  BY <1>0, <1>1, <1>4 DEF RecordedMatrixIsApplied
<1>5. CASE AllWritten
  BY <1>0, <1>1, <1>5 DEF AllWritten, RecordedMatrixIsApplied
<1>6. CASE ReadCollection
  <2>1. UNCHANGED linkVars /\ at = "observe" /\ at' \in {"observe", "shown"}
    BY <1>6 DEF ReadCollection
  <2> QED
    BY <1>0, <1>1, <2>1 DEF RecordedMatrixIsApplied
<1>7. CASE WriteFails \/ \E where \in {"apply", "observe"} : Fails(where)
  BY <1>1, <1>7 DEF WriteFails, Fails
<1>8. ASSUME NEW d \in Doc, WriteDocument(d) PROVE RecordedMatrixIsApplied'
  BY <1>4, <1>8 DEF WriteDocument, NextToWrite
<1>9. ASSUME UNCHANGED <<at, linkVars>> PROVE RecordedMatrixIsApplied'
  BY <1>0, <1>9 DEF RecordedMatrixIsApplied, Connections
<1>10. CASE (\E p, q \in Peer, d \in Doc : Sync(p, q, d)) \/ UNCHANGED vars
  BY <1>9, <1>10 DEF Sync, vars
<1>11. CASE Restart
  <2>1. at' = "ready" /\ active' = {} /\ \A p \in Peer : dials'[p] = {}
    BY <1>11 DEF Restart
  <2>2. \A c \in Pair : c[2] \in Peer
    BY DEF Pair
  <2>3. Connections' = {c \in Pair : c[1] \in dials'[c[2]]}
    BY DEF Connections
  <2>4. Connections' = {}
    BY <2>1, <2>2, <2>3
  <2> QED
    BY <2>1, <2>4 DEF RecordedMatrixIsApplied
<1> QED
  BY <1>2, <1>3, <1>5, <1>6, <1>7, <1>8, <1>10, <1>11 DEF Next, Frame

(* What observe has been through it has read, and it goes through the      *)
(* collections one after the other.                                        *)
LEMMA ReadingOn ==
  ASSUME TypeOK, ReadCollection, NEW p \in Peer, NEW d \in Doc, ReadAlready(p, d)'
  PROVE  \/ p = peer /\ d = doc /\ read'[p][d] = store[p][d]
         \/ ReadAlready(p, d) /\ read'[p][d] = read[p][d]
<1>1. /\ at = "observe"
      /\ read' = [read EXCEPT ![peer][doc] = store[peer][doc]]
      /\ doc' = IF doc < NumDocs THEN doc + 1 ELSE 1
      /\ LastRead => at' = "shown" /\ peer' = 1
      /\ ~LastRead => at' = "observe" /\ peer' = IF doc < NumDocs THEN peer ELSE peer + 1
  BY DEF ReadCollection
<1>2. /\ peer \in 1 .. NumPeers /\ doc \in 1 .. NumDocs
      /\ p \in 1 .. NumPeers /\ d \in 1 .. NumDocs
  BY DEF TypeOK, Peer, Doc
<1>3. read'[p][d] = IF p = peer /\ d = doc THEN store[p][d] ELSE read[p][d]
  BY <1>1 DEF TypeOK
<1>4. (p = peer /\ d = doc) \/ p < peer \/ (p = peer /\ d < doc)
  <2>1. CASE LastRead
    BY <1>2, <2>1 DEF LastRead
  <2>2. CASE ~LastRead
    <3>1. p < peer' \/ (p = peer' /\ d < doc')
      BY <1>1, <2>2 DEF ReadAlready
    <3> QED
      BY <1>1, <1>2, <2>2, <3>1
  <2> QED
    BY <2>1, <2>2
<1> QED
  BY <1>1, <1>2, <1>3, <1>4 DEF ReadAlready

LEMMA ReadSoFarNext ==
  Inv /\ [Next]_vars => ReadSoFar'
<1> SUFFICES ASSUME Inv, [Next]_vars, NEW p \in Peer, NEW d \in Doc
             PROVE  /\ p \in previous'[d] => store'[p][d] > 0
                    /\ ReadAlready(p, d)' => /\ p = Writer(d) => read'[p][d] = Latest(d)'
                                             /\ p \in previous'[d] => read'[p][d] > 0
  BY DEF ReadSoFar, Writer
<1>0. /\ TypeOK /\ LoopsStartAtFirst /\ AuthorHoldsTheNewest /\ WritesFollowRevisions
      /\ ReadsAreBehind' /\ TypeOK'
      /\ p \in previous[d] => store[p][d] > 0
      /\ ReadAlready(p, d) => /\ p = Writer(d) => read[p][d] = Latest(d)
                              /\ p \in previous[d] => read[p][d] > 0
  BY TypeNext, ReadsNext DEF Inv, ReadSoFar
<1>1. /\ store'[p][d] >= store[p][d] /\ store'[p][d] >= read'[p][d]
      /\ store[p][d] \in Nat /\ store'[p][d] \in Nat /\ read'[p][d] \in Nat
  BY <1>0, StoresGrow DEF TypeOK, ReadsAreBehind
<1> USE DEF linkVars, docVars, seenVars
<1>2. ASSUME UNCHANGED previous, at' \notin {"observe", "shown"}
      PROVE  /\ p \in previous'[d] => store'[p][d] > 0
             /\ ~ReadAlready(p, d)'
  BY <1>0, <1>1, <1>2 DEF ReadAlready
<1>3. ASSUME UNCHANGED <<at, peer, doc, before, revision, seenVars>>
      PROVE  /\ p \in previous'[d] => store'[p][d] > 0
             /\ ReadAlready(p, d)' => /\ p = Writer(d) => read'[p][d] = Latest(d)'
                                      /\ p \in previous'[d] => read'[p][d] > 0
  BY <1>0, <1>1, <1>3 DEF ReadAlready, Latest
<1>4. CASE BeginFrame \/ WriteFails \/ \E where \in {"apply", "observe"} : Fails(where)
  BY <1>2, <1>4 DEF BeginFrame, WriteFails, Fails
<1>5. CASE \E q \in Peer : Configure(q)
  BY <1>2, <1>5 DEF Configure
<1>6. CASE \E c \in Doc : WriteDocument(c)
  BY <1>2, <1>6 DEF WriteDocument, NextToWrite
<1>7. CASE AllWritten
  <2>1. at' = "observe" /\ peer' = 1 /\ doc' = 1 /\ UNCHANGED previous
    BY <1>0, <1>7 DEF AllWritten, LoopsStartAtFirst
  <2>2. ~ReadAlready(p, d)'
    BY <2>1 DEF ReadAlready, Peer, Doc
  <2> QED
    BY <1>0, <1>1, <2>1, <2>2
<1>8. CASE ReadCollection
  <2>1. /\ UNCHANGED <<before, revision, written>> /\ at = "observe"
        /\ LastRead => previous' = [c \in Doc |-> Replicas(read', c)]
        /\ ~LastRead => previous' = previous
    BY <1>8 DEF ReadCollection
  <2>2. ASSUME p \in previous'[d], LastRead PROVE read'[p][d] > 0
    BY <2>1, <2>2 DEF Replicas
  <2>3. ASSUME ReadAlready(p, d)'
        PROVE  \/ read'[p][d] = store[p][d]
               \/ ReadAlready(p, d) /\ read'[p][d] = read[p][d]
    <3>1. TypeOK
      BY <1>0
    <3> QED
      BY <1>8, <2>3, <3>1, ReadingOn
  <2>4. p \in previous'[d] => store'[p][d] > 0
    BY <1>0, <1>1, <2>1, <2>2
  <2>5. ASSUME ReadAlready(p, d)', p = Writer(d) PROVE read'[p][d] = Latest(d)'
    <3>1. store[p][d] = Latest(d)
      BY <1>0, <2>1, <2>5, WriterIsPeer DEF AuthorHoldsTheNewest, WritesFollowRevisions, Latest
    <3>2. Latest(d)' = Latest(d)
      BY <2>1 DEF Latest
    <3> QED
      BY <1>0, <2>5, <2>3, <3>1, <3>2
  <2>6. ASSUME ReadAlready(p, d)', p \in previous'[d] PROVE read'[p][d] > 0
    BY <1>0, <2>1, <2>2, <2>6, <2>3
  <2> QED
    BY <2>4, <2>5, <2>6
<1>9. CASE (\E q, r \in Peer, c \in Doc : Sync(q, r, c)) \/ UNCHANGED vars
  BY <1>3, <1>9 DEF Sync, vars
<1>10. CASE Restart
  BY <1>10 DEF Restart, ReadAlready
<1> QED
  BY <1>4, <1>5, <1>6, <1>7, <1>8, <1>9, <1>10 DEF Next, Frame

LEMMA InvNext == Inv /\ [Next]_vars => Inv'
BY TypeNext, LoopsNext, MatrixNext, AuthorsNext, ReadsNext, ReadSoFarNext DEF Inv

(* Types, counters, and what the stores and the reads have to do with the  *)
(* revisions, hold together in every reachable state.                      *)
THEOREM Invariance == Safe => []Inv
<1> QED
  BY InvInit, InvNext, PTL DEF Safe

-----------------------------------------------------------------------------
(* Every variable always has its type, and only the upper peer dials.      *)
THEOREM TypeCorrect == Safe => []TypeOK
<1>1. Inv => TypeOK
  BY DEF Inv
<1> QED
  BY <1>1, Invariance, PTL

(* The author's store holds what was last written, and nothing is newer,   *)
(* wherever calls fail and whenever Ditto synchronizes.                    *)
THEOREM AuthorsLead == Safe => []AuthorHoldsTheNewest
<1>1. Inv => AuthorHoldsTheNewest
  BY DEF Inv
<1> QED
  BY <1>1, Invariance, PTL

(* What a frame shows as converged, one document or every peer, has the    *)
(* latest revision everywhere: the author's store is one of those read,    *)
(* and what was read there is that revision.                               *)
THEOREM ConvergedHolds == Safe => []ConvergedIsLatest
<1>1. Inv => ConvergedIsLatest
  <2> SUFFICES ASSUME Inv, at = "shown", NEW d \in Doc,
                      Converged(d) \/ (\A p \in Peer : PeerConverged(p)),
                      NEW p \in Peer
               PROVE  store[p][d] = before[d] + revision[d]
    BY DEF ConvergedIsLatest
  <2>1. Writer(d) \in Peer /\ read[Writer(d)][d] = Latest(d)
    <3>1. Writer(d) \in Peer /\ ReadAlready(Writer(d), d) /\ ReadSoFar
      BY WriterIsPeer DEF Inv, ReadAlready
    <3> QED
      BY <3>1 DEF ReadSoFar
  <2>2. /\ read[p][d] <= store[p][d] /\ store[p][d] <= before[d] + written[d]
        /\ written[d] <= revision[d] /\ store[p][d] \in Nat /\ read[p][d] \in Nat
        /\ before[d] \in Nat /\ written[d] \in Nat /\ revision[d] \in Nat
    BY DEF Inv, TypeOK, ReadsAreBehind, AuthorHoldsTheNewest, WritesFollowRevisions
  <2>3. CASE Writer(d) \in Replicas(read, d)
    <3>1. read[p][d] = Value(read, d) /\ read[Writer(d)][d] = Value(read, d)
      BY <2>1, <2>3 DEF Converged, PeerConverged, PendingAt
    <3> QED
      BY <2>1, <2>2, <3>1 DEF Latest
  <2>4. CASE Writer(d) \notin Replicas(read, d)
    <3>1. Latest(d) = 0
      BY <2>1, <2>2, <2>4 DEF Replicas, Latest
    <3> QED
      BY <2>2, <3>1 DEF Latest
  <2> QED
    BY <2>3, <2>4
<1> QED
  BY <1>1, Invariance, PTL

(* Past apply_links the peers are connected as the frame's links are,      *)
(* unless it failed and has not gone through since.                        *)
THEOREM ConnectionsHold == Safe => []ConnectionsFollowAppliedLinks
<1>1. Inv => ConnectionsFollowAppliedLinks
  BY DEF Inv, RecordedMatrixIsApplied, ConnectionsFollowAppliedLinks
<1> QED
  BY <1>1, Invariance, PTL

(* A peer shown to hold a document is shown to hold it in every later      *)
(* frame of the run.                                                       *)
THEOREM ReplicasStayHolds == Safe => ReplicasStay
<1>1. ASSUME Inv, [Next]_vars PROVE Restart \/ \A d \in Doc : previous[d] \subseteq previous'[d]
  <2> SUFFICES ASSUME previous' # previous, ~Restart, NEW d \in Doc, NEW p \in previous[d]
               PROVE  p \in previous'[d]
    OBVIOUS
  <2>1. ReadCollection /\ LastRead
    <3>1. ~BeginFrame /\ ~AllWritten /\ ~WriteFails /\ ~(UNCHANGED vars)
      BY DEF BeginFrame, AllWritten, WriteFails, vars, seenVars
    <3>2. \A where \in {"apply", "observe"} : ~Fails(where)
      BY DEF Fails
    <3>3. \A q \in Peer, r \in Peer, c \in Doc : ~Sync(q, r, c)
      BY DEF Sync, seenVars
    <3>4. (\A q \in Peer : ~Configure(q)) /\ (\A c \in Doc : ~WriteDocument(c))
      BY DEF Configure, WriteDocument, seenVars
    <3>5. ReadCollection
      BY <1>1, <3>1, <3>2, <3>3, <3>4 DEF Next, Frame
    <3> QED
      BY <3>5 DEF ReadCollection
  <2>2. p \in Peer
    BY <1>1 DEF Inv, TypeOK
  <2>3. read'[p][d] > 0
    <3>1. at' = "shown" /\ at = "observe"
      BY <2>1 DEF ReadCollection
    <3>2. ReadAlready(p, d)'
      BY <3>1 DEF ReadAlready
    <3>3. (p = peer /\ d = doc /\ read'[p][d] = store[p][d])
            \/ (ReadAlready(p, d) /\ read'[p][d] = read[p][d])
      BY <1>1, <2>1, <2>2, <3>2, ReadingOn DEF Inv
    <3>4. store[p][d] > 0 /\ (ReadAlready(p, d) => read[p][d] > 0)
      BY <1>1, <2>2 DEF Inv, ReadSoFar
    <3> QED
      BY <3>3, <3>4
  <2>4. previous' = [c \in Doc |-> Replicas(read', c)]
    BY <2>1 DEF ReadCollection
  <2> QED
    BY <2>2, <2>3, <2>4 DEF Replicas
<1>2. Inv /\ [Next]_vars => [Restart \/ \A d \in Doc : previous[d] \subseteq previous'[d]]_vars
  BY <1>1
<1> QED
  BY <1>2, Invariance, PTL DEF Safe, ReplicasStay

-----------------------------------------------------------------------------
(* The transport implements ReplicaStore: what is written of a document    *)
(* are its revisions, its author's are the writes, and Ditto gossips.      *)
LEMMA RefinesInit == Init => RS!Init
<1> SUFFICES ASSUME Init PROVE RS!Init
  OBVIOUS
<1>1. /\ [d \in Doc |-> before[d] + written[d]] = [d \in Doc |-> 0]
      /\ [d \in Doc |-> [p \in Peer |-> store[p][d]]] = [d \in Doc |-> [p \in Peer |-> 0]]
  BY DEF Init, Nothing
<1>2. [d \in Doc |-> 0] \in [Doc -> {0, 1}]
  OBVIOUS
<1> QED
  BY <1>1, <1>2 DEF RS!Init

(* A store that comes to hold the newest revision of one document at its   *)
(* author's is a write of it.                                              *)
LEMMA StoredIsWrite ==
  ASSUME TypeOK, NEW d \in Doc, NEW n \in Nat, n > before[d] + written[d],
         store' = [store EXCEPT ![Writer(d)][d] = n],
         \A c \in Doc : before'[c] + written'[c] = IF c = d THEN n ELSE before[c] + written[c]
  PROVE  RS!Write({d})
<1> DEFINE number == [c \in Doc |-> before[c] + written[c]]
           replica == [c \in Doc |-> [p \in Peer |-> store[p][c]]]
           author == [c \in Doc |-> IF Author[c] \in Peer THEN Author[c] ELSE Fallback]
<1>1. number' = [c \in Doc |-> before'[c] + written'[c]]
  OBVIOUS
<1>2. number' \in [Doc -> Nat]
  BY <1>1 DEF TypeOK
<1>3. number'[d] > number[d] /\ \A c \in Doc \ {d} : number'[c] = number[c]
  BY <1>1
<1>4. author[d] = Writer(d) /\ Writer(d) \in Peer
  BY WriterIsPeer
<1>5. replica' = [c \in Doc |-> [p \in Peer |-> store'[p][c]]]
  OBVIOUS
<1>6. ASSUME NEW c \in Doc, c # d PROVE replica'[c] = replica[c]
  BY <1>5, <1>6 DEF TypeOK
<1>7. replica'[d] = [replica[d] EXCEPT ![author[d]] = number'[d]]
  <2>1. replica'[d] = [p \in Peer |-> store'[p][d]]
    BY <1>5
  <2>2. ASSUME NEW p \in Peer
        PROVE  store'[p][d] = IF p = Writer(d) THEN n ELSE store[p][d]
    BY <1>4 DEF TypeOK
  <2>3. number'[d] = n
    BY <1>1
  <2> HIDE DEF number
  <2> QED
    BY <1>4, <2>1, <2>2, <2>3
<1>8. replica' = [c \in Doc |-> IF c \in {d} THEN [replica[c] EXCEPT ![author[c]] = number'[c]]
                                             ELSE replica[c]]
  BY <1>5, <1>6, <1>7
<1> QED
  BY <1>2, <1>3, <1>8 DEF RS!Write, RS!NewRevision

(* One document at one peer that takes the value of another is gossip.     *)
LEMMA SyncIsGossip ==
  ASSUME TypeOK, NEW p \in Peer, NEW q \in Peer, NEW d \in Doc, Sync(p, q, d)
  PROVE  RS!Gossip
<1> DEFINE number == [c \in Doc |-> before[c] + written[c]]
           replica == [c \in Doc |-> [r \in Peer |-> store[r][c]]]
<1>1. /\ store[p][d] > store[q][d]
      /\ store' = [store EXCEPT ![q][d] = store[p][d]]
      /\ UNCHANGED <<before, written>>
  BY DEF Sync
<1>2. number' = number
  BY <1>1
<1>3. replica' = [c \in Doc |-> [r \in Peer |-> store'[r][c]]]
  OBVIOUS
<1>4. store' \in [Peer -> [Doc -> Nat]]
  BY <1>1 DEF TypeOK
<1>5. replica' \in [Doc -> [Peer -> Nat]]
  BY <1>3, <1>4
<1>6. ASSUME NEW c \in Doc, NEW r \in Peer
      PROVE  \/ replica'[c][r] = replica[c][r]
             \/ /\ replica'[c][r] > replica[c][r]
                /\ \E s \in Peer : replica[c][s] = replica'[c][r]
  <2>1. store'[r][c] = IF r = q /\ c = d THEN store[p][d] ELSE store[r][c]
    BY <1>1 DEF TypeOK
  <2> QED
    BY <1>1, <1>3, <2>1
<1> QED
  BY <1>2, <1>5, <1>6 DEF RS!Gossip, RS!Learns

LEMMA RefinesNext == Inv /\ [Next]_vars => [RS!Next]_(RS!vars)
<1> SUFFICES ASSUME Inv, [Next]_vars PROVE RS!Next \/ UNCHANGED RS!vars
  OBVIOUS
<1>0. TypeOK /\ AuthorHoldsTheNewest /\ WritesFollowRevisions
  BY DEF Inv
<1> USE DEF linkVars, docVars, seenVars
<1>1. ASSUME UNCHANGED <<before, written, store>> PROVE UNCHANGED RS!vars
  BY <1>1 DEF RS!vars
<1>2. CASE BeginFrame \/ AllWritten \/ ReadCollection \/ WriteFails \/ UNCHANGED vars
  BY <1>1, <1>2 DEF BeginFrame, AllWritten, ReadCollection, WriteFails, vars
<1>3. CASE (\E p \in Peer : Configure(p)) \/ \E where \in {"apply", "observe"} : Fails(where)
  BY <1>1, <1>3 DEF Configure, Fails
<1>4. ASSUME NEW d \in Doc, NextToWrite(d)
      PROVE  /\ Latest(d) \in Nat /\ Latest(d) > before[d] + written[d]
             /\ \A c \in Doc : before[c] \in Nat /\ written[c] \in Nat /\ revision[c] \in Nat
  <2>1. \A c \in Doc : before[c] \in Nat /\ written[c] \in Nat /\ revision[c] \in Nat
    BY <1>0 DEF TypeOK
  <2>2. written[d] # revision[d] /\ written[d] <= revision[d]
    BY <1>0, <1>4 DEF NextToWrite, Unwritten, WritesFollowRevisions
  <2> QED
    BY <2>1, <2>2 DEF Latest
<1>5. ASSUME NEW d \in Doc, WriteDocument(d) PROVE RS!Next
  <2>1. /\ NextToWrite(d) /\ UNCHANGED before
        /\ store' = [store EXCEPT ![Writer(d)][d] = Latest(d)]
        /\ written' = [written EXCEPT ![d] = revision[d]]
    BY <1>5 DEF WriteDocument, StoredAt
  <2>2. \A c \in Doc : before'[c] + written'[c] = IF c = d THEN Latest(d) ELSE before[c] + written[c]
    BY <1>0, <2>1 DEF TypeOK, Latest
  <2>3. RS!Write({d})
    BY <1>0, <1>4, <2>1, <2>2, StoredIsWrite
  <2> QED
    BY <2>3 DEF RS!Next
<1>6. ASSUME NEW p \in Peer, NEW q \in Peer, NEW d \in Doc, Sync(p, q, d) PROVE RS!Next
  BY <1>0, <1>6, SyncIsGossip DEF RS!Next
<1>7. CASE Restart
  <2>1. /\ store' \in {store} \union {StoredAt(Writer(d), d) : d \in {e \in Doc : NextToWrite(e)}}
        /\ \A d \in Doc : before'[d] = store'[Writer(d)][d] /\ written'[d] = 0
    BY <1>7 DEF Restart, Forgotten
  <2>2. \A c \in Doc : /\ store[Writer(c)][c] = before[c] + written[c]
                       /\ before[c] + written[c] \in Nat
    BY <1>0, WriterIsPeer DEF AuthorHoldsTheNewest, TypeOK
  <2>3. CASE store' = store
    <3>1. \A c \in Doc : before'[c] + written'[c] = before[c] + written[c]
      BY <2>1, <2>2, <2>3
    <3> QED
      BY <2>3, <3>1 DEF RS!vars
  <2>4. ASSUME NEW d \in Doc, NextToWrite(d), store' = StoredAt(Writer(d), d)
        PROVE  RS!Next
    <3>1. store' = [store EXCEPT ![Writer(d)][d] = Latest(d)]
      BY <2>4 DEF StoredAt
    <3>2. ASSUME NEW c \in Doc
          PROVE  before'[c] + written'[c] = IF c = d THEN Latest(d) ELSE before[c] + written[c]
      <4>1. store'[Writer(c)][c] = IF c = d THEN Latest(d) ELSE store[Writer(c)][c]
        BY <1>0, <3>1, WriterIsPeer DEF TypeOK
      <4>2. Latest(d) \in Nat
        BY <1>4, <2>4
      <4> QED
        BY <2>1, <2>2, <4>1, <4>2
    <3>3. RS!Write({d})
      BY <1>0, <1>4, <2>4, <3>1, <3>2, StoredIsWrite
    <3> QED
      BY <3>3 DEF RS!Next
  <2> QED
    BY <2>1, <2>3, <2>4
<1> QED
  BY <1>2, <1>3, <1>5, <1>6, <1>7 DEF Next, Frame

(* Whatever calls fail and whenever the process is killed, only a          *)
(* document's writer brings new values of it into the stores, and a peer   *)
(* comes to hold only what another one holds.                              *)
THEOREM Refinement == Safe => OnlyLearnsFromHolders
<1> QED
  BY RefinesInit, RefinesNext, Invariance, PTL DEF Safe, OnlyLearnsFromHolders, RS!Spec
=============================================================================
