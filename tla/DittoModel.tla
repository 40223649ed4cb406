----------------------------- MODULE DittoModel -----------------------------
(***************************************************************************)
(* The behavioral model of Ditto replication in                            *)
(* crates/autonomy-sim/src/ditto.rs: documents with scalar revisions, one  *)
(* watermark per replica, and per-link budgets.                            *)
(*                                                                         *)
(* DittoModel::tick is one pass over the links.  Here it is a sequence of  *)
(* steps: BeginTick (the local documents are updated, those the wildfire   *)
(* runtime upserts just before the tick included) and one Exchange for     *)
(* each pair of entities in the order of the map of best links.  When no   *)
(* pair is left the tick is over and snapshot() shows the store.           *)
(*                                                                         *)
(* Data abstracted: values become revisions (a changed value is a new      *)
(* revision), quality the number of documents a pair's best link may carry *)
(* in this tick, 0 if no link of the pair is up.                           *)
(***************************************************************************)
EXTENDS Integers, FiniteSets

CONSTANTS
  NumDocs,     \* documents are 1 .. NumDocs, in the order of their keys
  NumEntities, \* entities are 1 .. NumEntities, in the order of their ids
  Peer,        \* the entities that are Ditto peers: no fire or waypoint,
               \* which may have radios, and so links, all the same
  Author,      \* the author of each document
  Kind,        \* who updates it: "platform", "mission" or "tasking"
  Interval,    \* update_interval_ticks
  MaxBudget,   \* the largest budget of a link (6, at quality 1)
  MaxRevision, \* bound: revisions of a document
  Renumber     \* bound: whether an agreed last revision may be counted as less

Doc    == 1 .. NumDocs
Entity == 1 .. NumEntities

(* The endpoints of links are sorted, and so are the keys of the map.      *)
Pair == {p \in Entity \X Entity : p[1] < p[2]}

Before(p, q) == p[1] < q[1] \/ (p[1] = q[1] /\ p[2] < q[2])

ASSUME StoreAssumption ==
  /\ NumDocs \in Nat
  /\ NumEntities \in Nat
  /\ Peer \subseteq Entity
  /\ Author \in [Doc -> Entity]
  /\ Kind \in [Doc -> {"platform", "mission", "tasking"}]
  /\ \A d \in Doc : Kind[d] = "platform" => Author[d] \in Peer

ASSUME BoundsAssumption ==
  /\ Interval \in Nat \ {0}
  /\ MaxBudget \in Nat \ {0}
  /\ MaxRevision \in Nat \ {0, 1}
  /\ Renumber \in BOOLEAN

VARIABLES
  revision,  \* DocumentReplica.revision, 0 before the first upsert
  watermark, \* peer_revisions; 0 for an entity without an entry
  left,      \* the pairs this tick has still to come to
  sequence   \* Simulation.sequence, counted modulo Interval from Interval on

vars == <<revision, watermark, left, sequence>>

(* new: the tasking document is there from the start, at its author's.     *)
Init ==
  /\ revision = [d \in Doc |-> IF Kind[d] = "tasking" THEN 1 ELSE 0]
  /\ watermark = [d \in Doc |-> [e \in Entity |->
                    IF e = Author[d] THEN revision[d] ELSE 0]]
  /\ left = {}
  /\ sequence = 0

-----------------------------------------------------------------------------
(* Definitions named X_Fault are X with a seeded fault: a run in which one *)
(* takes the place of X shows that the properties can fail.                *)

(* Platform documents are updated in the first tick and in those that are  *)
(* a multiple of the interval; mission documents in all of them.           *)
Ticked(n) == IF n = 2 * Interval - 1 THEN Interval ELSE n + 1

Due(d) ==
  \/ Kind[d] = "mission"
  \/ Kind[d] = "platform" /\ Ticked(sequence) \in {1, Interval}

Agreed(d) == \A e \in Entity : watermark[d][e] = revision[d]

MayChange(d) ==
  /\ Due(d)
  /\ revision[d] < MaxRevision \/ (Renumber /\ Agreed(d))

(* upsert_document: the next revision, which its author has at once.  At   *)
(* the bound an agreed revision is counted as one less: revisions are only *)
(* compared with each other.                                               *)
NextRevision(d) == IF revision[d] < MaxRevision THEN revision[d] + 1 ELSE MaxRevision

Upserted(d) ==
  [e \in Entity |-> IF e = Author[d] THEN NextRevision(d)
                    ELSE watermark[d][e] - (revision[d] + 1 - NextRevision(d))]

(* An upsert of an unchanged value does nothing; the first one of a        *)
(* document always makes a revision.                                       *)
BeginTick ==
  /\ left = {}
  /\ left' = Pair
  /\ sequence' = Ticked(sequence)
  /\ \E changed \in SUBSET {d \in Doc : MayChange(d)} :
       /\ \A d \in Doc : Due(d) /\ revision[d] = 0 => d \in changed
       /\ revision' = [d \in Doc |-> IF d \in changed THEN NextRevision(d) ELSE revision[d]]
       /\ watermark' = [d \in Doc |-> IF d \in changed THEN Upserted(d) ELSE watermark[d]]

-----------------------------------------------------------------------------
(* tick, the loop over the best links: in key order, the documents the two *)
(* ends hold different revisions of, until the budget is used up.          *)
Differing(p) == {d \in Doc : watermark[d][p[1]] # watermark[d][p[2]]}

Carried_Fault(p, budget) ==   \* the budget is spent one document early
  {d \in Differing(p) : Cardinality({c \in Differing(p) : c <= d}) < budget}

Carried(p, budget) ==
  {d \in Differing(p) : Cardinality({c \in Differing(p) : c <= d}) <= budget}

Newer_Fault(r, s) == s   \* the target's revision overwrites the source's

Newer(r, s) == IF r > s THEN r ELSE s

Synced(p, d) ==
  [e \in Entity |-> IF e \in {p[1], p[2]} THEN Newer(watermark[d][p[1]], watermark[d][p[2]])
                    ELSE watermark[d][e]]

Exchange(p, budget) ==
  /\ p \in left
  /\ \A q \in left \ {p} : Before(p, q)
  /\ left' = left \ {p}
  /\ watermark' = [d \in Doc |-> IF d \in Carried(p, budget) THEN Synced(p, d) ELSE watermark[d]]
  /\ UNCHANGED <<revision, sequence>>

Next ==
  \/ BeginTick
  \/ \E p \in Pair, budget \in 0 .. MaxBudget : Exchange(p, budget)

Safe == Init /\ [][Next]_vars

(* Ticks keep coming, and the links between neighbours in the order of ids *)
(* are up again and again: a path that returns, between any two entities.  *)
PathSpec ==
  /\ Safe
  /\ WF_vars(Next)
  /\ \A p \in Pair : p[2] = p[1] + 1 =>
       SF_vars(\E budget \in 1 .. MaxBudget : Exchange(p, budget))

-----------------------------------------------------------------------------
(* snapshot(): who holds the latest revision of a document, what is said   *)
(* to have converged, and what a peer has yet to get.                      *)
ReplicatedTo(d) == {e \in Entity : watermark[d][e] = revision[d]}

DocumentConverged(d) == Cardinality(ReplicatedTo(d)) = Cardinality(Peer)

Pending_Fault(e) == {d \in Doc : watermark[d][e] = 0}   \* only what it never had

Pending(e) == {d \in Doc : watermark[d][e] < revision[d]}

-----------------------------------------------------------------------------
(* Every variable has its type. *)
TypeOK ==
  /\ revision \in [Doc -> 0 .. MaxRevision]
  /\ watermark \in [Doc -> [Entity -> 0 .. MaxRevision]]
  /\ left \in SUBSET Pair
  /\ sequence \in 0 .. 2 * Interval - 1

(* No replica is ahead of the document, and the author's is never behind:  *)
(* what an author wrote cannot be lost to an older revision on a link.     *)
AuthorIsNeverBehind ==
  \A d \in Doc :
    /\ watermark[d][Author[d]] = revision[d]
    /\ \A e \in Entity : watermark[d][e] <= revision[d]

(* What a frame says of a document errs by the entities that hold it and   *)
(* are no peers, and by nothing else: it is called converged exactly when  *)
(* as many of them have its latest revision as peers have it pending.      *)
(* Where only peers have links that is ARCHITECTURE's "all scenario peers  *)
(* hold the latest revision"; a fire or waypoint with a radio, whose       *)
(* watermark tick() keeps and snapshot() counts, makes it false in both    *)
(* directions.                                                             *)
ConvergedCountsOutsiders ==
  \A d \in Doc :
    DocumentConverged(d) <=>
      Cardinality({e \in Peer : d \in Pending(e)}) = Cardinality(ReplicatedTo(d) \ Peer)

(* Replication is that of ReplicaStore, whatever the links, the budgets    *)
(* and the order of the documents.                                         *)
RS == INSTANCE ReplicaStore WITH held <- watermark, MaySkip <- FALSE

OnlyLearnsFromHolders == RS!Spec

(* Once nobody writes any more (the bound on revisions), every replica     *)
(* gets everything, over as many hops as it takes.                         *)
EverybodyCatchesUp == <>[](\A d \in Doc, e \in Entity : watermark[d][e] = revision[d])

(* ARCHITECTURE: replicas "eventually converge when a path returns": the   *)
(* tasking document, which never changes, comes to every peer.             *)
TaskingArrives ==
  \A d \in Doc, e \in Peer :
    Kind[d] = "tasking" => <>(watermark[d][e] = revision[d])
=============================================================================
