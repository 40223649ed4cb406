--------------------------- MODULE RealTransport ---------------------------
(***************************************************************************)
(* Replication over real Ditto peers: RealState::frame of                  *)
(* crates/autonomy-sim/src/ditto_transport.rs and RealDittoTransport of    *)
(* crates/autonomy-sim-ditto-real/src/enabled.rs.  Every frame             *)
(*   - configures the peers for the pairs of entities with an up carrier   *)
(*     (apply_links), one native call after the other,                     *)
(*   - writes the revisions not yet written at their authors' peers, and   *)
(*   - reads every collection back from every peer (observe).              *)
(* Any native call may fail and ends the frame there (the ? operator);     *)
(* Simulation::tick returns the error and the next tick starts over.       *)
(*                                                                         *)
(* The process may be killed and started again at any time.  The peers'    *)
(* stores persist; the revisions, what was written of them and how the     *)
(* peers are connected do not (Restart).                                   *)
(*                                                                         *)
(* The Ditto SDK is external: connected peers synchronize on threads of    *)
(* their own (Sync), between any two calls.  A call that fails is taken to *)
(* have no effect; one that a crash interrupts may have had its effect.    *)
(*                                                                         *)
(* Data abstracted: a document's value is its revision, counted through    *)
(* all runs (values differ in updated_at_s when their revisions do), links *)
(* are pairs of entities, and each document is the only one of its         *)
(* collection.                                                             *)
(***************************************************************************)
EXTENDS Integers, FiniteSets

CONSTANTS
  NumPeers,    \* peers are 1 .. NumPeers, in the order of their entity ids
  NumDocs,     \* documents are 1 .. NumDocs, in key order
  Link,        \* the pairs with a carrier in common, up or down
  Author,      \* the author of each document, who may not be a peer
  Fallback,    \* fallback_entity_id, the gateway
  CallsFail,   \* whether native calls may fail
  MayRestart,  \* whether the process may be restarted
  MaxRevision  \* bound: revisions of each document, in all runs together

Peer == 1 .. NumPeers
Doc  == 1 .. NumDocs

(* sorted_pair: the lower id first.                                        *)
Pair == {p \in Peer \X Peer : p[1] < p[2]}

ASSUME TransportAssumption ==
  /\ NumPeers \in Nat \ {0}
  /\ NumDocs \in Nat \ {0}
  /\ Link \subseteq Pair
  /\ Author \in [Doc -> Nat]
  /\ Fallback \in Peer
  /\ CallsFail \in BOOLEAN /\ MayRestart \in BOOLEAN
  /\ MaxRevision \in [Doc -> Nat \ {0}]

VARIABLES
  at,        \* where the frame is
  peer,      \* the peer the next call is for
  doc,       \* the document, and so the collection, the next read is for
  up,        \* the pairs with an up carrier in this frame; none without one
  active,    \* active_pairs
  dials,     \* the peers each peer's transport configuration connects to
  halfway,   \* (history) apply_links began and has not gone through since
  before,    \* how many revisions of each document earlier runs wrote
  revision,  \* the revisions of the behavioral frame; 0: no such document
  written,   \* written_revisions; 0: none
  store,     \* the value each peer's Ditto store holds; 0: none
  read,      \* what observe has read of it so far
  previous,  \* previous_replicas
  arrivals   \* the replication events of the frame: <<document, to peer>>

linkVars == <<up, active, dials, halfway>>
docVars  == <<before, revision, written, store>>
seenVars == <<read, previous, arrivals>>
vars == <<at, peer, doc, linkVars, docVars, seenVars>>

Location == {"ready", "apply", "write", "observe", "shown"}

Nothing == [p \in Peer |-> [d \in Doc |-> 0]]

Init ==
  /\ at = "ready"
  /\ peer = 1
  /\ doc = 1
  /\ up = {}
  /\ active = {}
  /\ dials = [p \in Peer |-> {}]
  /\ halfway = FALSE
  /\ before = [d \in Doc |-> 0]
  /\ revision = [d \in Doc |-> 0]
  /\ written = [d \in Doc |-> 0]
  /\ store = Nothing
  /\ read = Nothing
  /\ previous = [d \in Doc |-> {}]
  /\ arrivals = {}

-----------------------------------------------------------------------------
(* Definitions named X_Fault are X with a seeded fault: a run in which one *)
(* takes the place of X shows that the properties can fail.                *)

(* The value that the frame's revision of a document stands for.           *)
Latest(d) == before[d] + revision[d]

(* The frame starts: the behavioral model has ticked, the links are new,   *)
(* and nothing needs configuring when they are what was applied last.      *)
BeginFrame ==
  /\ at \in {"ready", "shown"}
  /\ up' \in SUBSET Link
  /\ \E changed \in SUBSET {d \in Doc : Latest(d) < MaxRevision[d]} :
       revision' = [d \in Doc |-> IF d \in changed THEN revision[d] + 1 ELSE revision[d]]
  /\ at' = IF up' = active THEN "write" ELSE "apply"
  /\ halfway' = (halfway \/ up' # active)
  /\ read' = Nothing
  /\ arrivals' = {}
  /\ UNCHANGED <<peer, doc, active, dials, before, written, store, previous>>

(* A call fails: the frame is given up, what it did so far stays.          *)
Fails(where) ==
  /\ CallsFail
  /\ at = where
  /\ at' = "ready"
  /\ peer' = 1
  /\ doc' = 1
  /\ up' = {}
  /\ read' = Nothing
  /\ UNCHANGED <<active, dials, halfway, docVars, previous, arrivals>>

(* apply_links: of each pair the upper peer connects to the lower one.     *)
Addresses_Fault(p) == {q \in Peer : <<q, p>> \in up \/ <<p, q>> \in up}   \* both do

Addresses(p) == {q \in Peer : <<q, p>> \in up}

Configured_Fault(p) ==   \* peers not touched by the change are skipped
  IF \A q \in Peer : <<q, p>> \in up <=> <<q, p>> \in active THEN dials[p] ELSE Addresses(p)

Configured(p) == Addresses(p)

Configure(p) ==
  /\ at = "apply"
  /\ peer = p
  /\ dials' = [dials EXCEPT ![p] = Configured(p)]
  /\ IF p < NumPeers
       THEN /\ peer' = p + 1
            /\ UNCHANGED <<at, active, halfway>>
       ELSE /\ peer' = 1
            /\ at' = "write"
            /\ active' = up
            /\ halfway' = FALSE
  /\ UNCHANGED <<doc, up, docVars, seenVars>>

-----------------------------------------------------------------------------
(* write_document, for the documents in key order whose revision was not   *)
(* yet written; at the gateway's peer if the author has none.              *)
Unwritten == {d \in Doc : written[d] # revision[d]}

Writer_Fault(d) == Fallback   \* the gateway writes them all

Writer(d) == IF Author[d] \in Peer THEN Author[d] ELSE Fallback

NextToWrite(d) ==
  /\ at = "write"
  /\ d \in Unwritten
  /\ \A c \in Unwritten : d <= c

StoredAt(p, d) == [store EXCEPT ![p][d] = Latest(d)]

WriteDocument(d) ==
  /\ NextToWrite(d)
  /\ store' = StoredAt(Writer(d), d)
  /\ written' = [written EXCEPT ![d] = revision[d]]
  /\ UNCHANGED <<at, peer, doc, linkVars, before, revision, seenVars>>

(* The revision is remembered only after the call: a failed write is tried *)
(* again in the next frame.                                                *)
WriteFails ==
  /\ CallsFail
  /\ at = "write"
  /\ Unwritten # {}
  /\ at' = "ready"
  /\ up' = {}
  /\ UNCHANGED <<peer, doc, active, dials, halfway, docVars, seenVars>>

AllWritten ==
  /\ at = "write"
  /\ Unwritten = {}
  /\ at' = "observe"
  /\ UNCHANGED <<peer, doc, linkVars, docVars, seenVars>>

-----------------------------------------------------------------------------
(* observe: what the frame says of the documents and of the peers, from    *)
(* the values read.                                                        *)
Replicas_Fault(seen, d) ==   \* only those with the newest revision
  {p \in Peer : seen[p][d] > 0 /\ seen[p][d] = Latest(d)}

Replicas(seen, d) == {p \in Peer : seen[p][d] > 0}

(* The value of the first peer that has one stands for the document.       *)
Value(seen, d) ==
  LET first == CHOOSE p \in Replicas(seen, d) : \A q \in Replicas(seen, d) : p <= q
  IN  seen[first][d]

Converged_Fault(d) ==   \* replicas.len() == peer_count left out
  \A p \in Replicas(read, d) : read[p][d] = Value(read, d)

Converged(d) ==
  /\ Replicas(read, d) = Peer
  /\ \A p \in Peer : read[p][d] = Value(read, d)

PendingAt(p) == {d \in Doc : Replicas(read, d) # {} /\ read[p][d] # Value(read, d)}

PeerConverged(p) == PendingAt(p) = {}

(* The events: a peer that holds a document it did not hold in the last    *)
(* frame got it over an up link from one that held it then or holds it     *)
(* now.  The author recorded in the document is the peer that wrote it.    *)
RecordedAuthor(d) == Writer(d)

Linked(p, q) == <<p, q>> \in up \/ <<q, p>> \in up

Arrived(seen) ==
  {a \in Doc \X Peer :
     LET d == a[1]
         p == a[2]
     IN  /\ p \in Replicas(seen, d) \ previous[d]
         /\ p # RecordedAuthor(d)
         /\ \E q \in previous[d] \union Replicas(seen, d) : q # p /\ Linked(p, q)}

(* One collection of one peer is read; after the last one the frame is     *)
(* complete.                                                               *)
LastRead == peer = NumPeers /\ doc = NumDocs

ReadCollection ==
  /\ at = "observe"
  /\ LET seen == [read EXCEPT ![peer][doc] = store[peer][doc]] IN
       /\ read' = seen
       /\ doc' = IF doc < NumDocs THEN doc + 1 ELSE 1
       /\ IF LastRead
            THEN /\ at' = "shown"
                 /\ peer' = 1
                 /\ arrivals' = Arrived(seen)
                 /\ previous' = [d \in Doc |-> Replicas(seen, d)]
            ELSE /\ peer' = IF doc < NumDocs THEN peer ELSE peer + 1
                 /\ UNCHANGED <<at, arrivals, previous>>
  /\ UNCHANGED <<linkVars, docVars>>

-----------------------------------------------------------------------------
(* Ditto, external: a peer learns a newer value from one it is connected   *)
(* to, whichever of the two dialed.                                        *)
Connections == {c \in Pair : c[1] \in dials[c[2]]}

Sync(p, q, d) ==
  /\ <<p, q>> \in Connections \/ <<q, p>> \in Connections
  /\ store[p][d] > store[q][d]
  /\ store' = [store EXCEPT ![q][d] = store[p][d]]
  /\ UNCHANGED <<at, peer, doc, linkVars, before, revision, written, seenVars>>

-----------------------------------------------------------------------------
(* The process is restarted, maybe amid a write.  RealDittoTransport::new  *)
(* opens the peers on the stores there are, connected to nobody, and the   *)
(* behavioral model counts its revisions from one again.                   *)
Forgotten_Fault == UNCHANGED written   \* written_revisions persists as well

Forgotten == written' = [d \in Doc |-> 0]

Restart ==
  /\ MayRestart
  /\ store' \in {store} \union {StoredAt(Writer(d), d) : d \in {e \in Doc : NextToWrite(e)}}
  /\ before' = [d \in Doc |-> store'[Writer(d)][d]]
  /\ revision' = [d \in Doc |-> 0]
  /\ Forgotten
  /\ at' = "ready" /\ peer' = 1 /\ doc' = 1
  /\ up' = {} /\ active' = {} /\ dials' = [p \in Peer |-> {}] /\ halfway' = FALSE
  /\ read' = Nothing /\ arrivals' = {}
  /\ previous' = [d \in Doc |-> {}]

Frame ==
  \/ BeginFrame
  \/ \E p \in Peer : Configure(p)
  \/ \E d \in Doc : WriteDocument(d)
  \/ AllWritten
  \/ ReadCollection

Next ==
  \/ Frame
  \/ Fails("apply")
  \/ WriteFails
  \/ Fails("observe")
  \/ Restart
  \/ \E p, q \in Peer, d \in Doc : Sync(p, q, d)

Safe == Init /\ [][Next]_vars

(* The producer's loop never stops, and a call tried again and again is    *)
(* not refused for ever.                                                   *)
Spec ==
  /\ Safe
  /\ WF_vars(Frame)
  /\ \A p \in Peer : SF_vars(Configure(p))
  /\ SF_vars(\E d \in Doc : WriteDocument(d))

-----------------------------------------------------------------------------
(* Every variable has its type; of two peers only the upper one dials.     *)
TypeOK ==
  /\ at \in Location
  /\ peer \in Peer
  /\ doc \in Doc
  /\ up \in SUBSET Pair
  /\ active \in SUBSET Pair
  /\ dials \in [Peer -> SUBSET Peer]
  /\ \A p \in Peer : dials[p] \subseteq 1 .. p - 1
  /\ halfway \in BOOLEAN
  /\ before \in [Doc -> Nat]
  /\ revision \in [Doc -> Nat]
  /\ written \in [Doc -> Nat]
  /\ store \in [Peer -> [Doc -> Nat]]
  /\ read \in [Peer -> [Doc -> Nat]]
  /\ \A d \in Doc : before[d] + revision[d] <= MaxRevision[d]
  /\ previous \in [Doc -> SUBSET Peer]
  /\ arrivals \in SUBSET (Doc \X Peer)

(* An author's store holds what it last wrote and no store holds anything  *)
(* newer, whatever calls fail, whatever Ditto synchronizes meanwhile and   *)
(* whenever the process is killed: revisions are single-author             *)
(* (RealState::frame, write_document).                                     *)
AuthorHoldsTheNewest ==
  \A d \in Doc, p \in Peer :
    LET writer == IF Author[d] \in Peer THEN Author[d] ELSE Fallback
    IN  /\ store[writer][d] = before[d] + written[d]
        /\ store[p][d] <= before[d] + written[d]

(* A document a frame calls converged is the latest revision at every      *)
(* peer, and so are all documents if it calls every peer converged,        *)
(* although the peers are read one by one while Ditto moves documents      *)
(* between them (observe, after all writes of the frame), and although the *)
(* stores may hold what an earlier run wrote.                              *)
ConvergedIsLatest ==
  at = "shown" =>
    \A d \in Doc :
      Converged(d) \/ (\A p \in Peer : PeerConverged(p)) =>
        \A p \in Peer : store[p][d] = before[d] + revision[d]

(* Past apply_links, the peers are connected as the frame's links are:     *)
(* after failures too, once it went through, and in a new run.  Only after *)
(* it failed, and until it goes through, may they be connected otherwise   *)
(* (ConnectionsFollowLinks, without the history, does not hold).           *)
ConnectionsFollowAppliedLinks ==
  at \in {"write", "observe", "shown"} /\ ~halfway => Connections = up

(* A peer that a frame has shown to hold a document is shown to hold it    *)
(* for the rest of the run, so that its arrival is an event only once:     *)
(* whichever revision it holds, and whatever frames are given up meanwhile *)
(* (RealState::frame, previous_replicas).                                  *)
ReplicasStay == [][Restart \/ \A d \in Doc : previous[d] \subseteq previous'[d]]_vars

(* Replication is that of ReplicaStore for what is written of the          *)
(* documents, across failed calls and restarts: a peer comes to hold only  *)
(* what another one holds, and nobody but the author, or the gateway in    *)
(* its place, writes.                                                      *)
RS == INSTANCE ReplicaStore WITH
        Entity <- Peer,
        Author <- [d \in Doc |-> IF Author[d] \in Peer THEN Author[d] ELSE Fallback],
        MaySkip <- TRUE,
        revision <- [d \in Doc |-> before[d] + written[d]],
        held <- [d \in Doc |-> [p \in Peer |-> store[p][d]]]

OnlyLearnsFromHolders == RS!Spec

(* No revision is lost to failed calls, and none of a new run is taken for *)
(* one of an earlier run that has its number: once the documents stop      *)
(* changing (the bound) and restarts end, the last revision of each is in  *)
(* its author's store.                                                     *)
RevisionsAreWritten ==
  <>[][~Restart]_vars =>
    <>[](\A d \in Doc : /\ written[d] = revision[d]
                        /\ store[Writer(d)][d] = before[d] + revision[d])

(* docs/real-ditto-sigforge.md: "Every entity pair with at least one Up    *)
(* carrier receives exactly one explicit Ditto connection.  Removing its   *)
(* final up carrier removes that connection": so in a frame that is shown. *)
ConnectionsFollowLinks == at = "shown" => Connections = up

(* ARCHITECTURE, of ditto_peers: "converged is true when the peer holds    *)
(* the latest revision of every document currently known".                 *)
PeerConvergedMeansLatest ==
  at = "shown" =>
    \A p \in Peer : PeerConverged(p) =>
      \A d \in Doc : revision[d] > 0 => read[p][d] = before[d] + revision[d]
=============================================================================
