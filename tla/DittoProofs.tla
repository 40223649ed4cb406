----------------------------- MODULE DittoProofs -----------------------------
(***************************************************************************)
(* Proofs about DittoModel, for all documents, entities, authors, links    *)
(* and budgets.                                                            *)
(***************************************************************************)
EXTENDS DittoModel, FiniteSetTheorems, TLAPS

USE StoreAssumption, BoundsAssumption

(* The invariant: types, and no replica ahead of the author's.             *)
Inv == TypeOK /\ AuthorIsNeverBehind

LEMMA InvInit == Init => Inv
BY DEF Init, Inv, TypeOK, AuthorIsNeverBehind

(* An upsert, document by document: the next revision is the author's, and *)
(* what the others hold is not newer.                                      *)
LEMMA UpsertedRow ==
  ASSUME Inv, NEW d \in Doc, MayChange(d)
  PROVE  /\ NextRevision(d) \in 0 .. MaxRevision
         /\ Upserted(d) \in [Entity -> 0 .. MaxRevision]
         /\ Upserted(d)[Author[d]] = NextRevision(d)
         /\ \A e \in Entity : Upserted(d)[e] <= NextRevision(d)
<1>1. /\ revision[d] \in 0 .. MaxRevision
      /\ watermark[d] \in [Entity -> 0 .. MaxRevision]
      /\ \A e \in Entity : watermark[d][e] <= revision[d]
      /\ Author[d] \in Entity
  BY DEF Inv, TypeOK, AuthorIsNeverBehind
<1>2. CASE revision[d] < MaxRevision
  BY <1>1, <1>2 DEF NextRevision, Upserted
<1>3. CASE ~(revision[d] < MaxRevision)
  <2>1. revision[d] = MaxRevision /\ \A e \in Entity : watermark[d][e] = MaxRevision
    BY <1>1, <1>3 DEF MayChange, Agreed
  <2> QED
    BY <1>1, <2>1 DEF NextRevision, Upserted
<1> QED
  BY <1>2, <1>3

(* A document carried between two replicas: both then hold the newer of    *)
(* their revisions, and nobody else anything new.                          *)
LEMMA SyncedRow ==
  ASSUME Inv, NEW d \in Doc, NEW p \in Pair
  PROVE  /\ Synced(p, d) \in [Entity -> 0 .. MaxRevision]
         /\ Synced(p, d)[Author[d]] = revision[d]
         /\ \A e \in Entity : Synced(p, d)[e] <= revision[d]
         /\ \A e \in Entity :
              \/ Synced(p, d)[e] = watermark[d][e]
              \/ /\ Synced(p, d)[e] > watermark[d][e]
                 /\ \E f \in Entity : watermark[d][f] = Synced(p, d)[e]
<1>1. /\ revision[d] \in 0 .. MaxRevision
      /\ watermark[d] \in [Entity -> 0 .. MaxRevision]
      /\ watermark[d][Author[d]] = revision[d]
      /\ \A e \in Entity : watermark[d][e] <= revision[d]
      /\ Author[d] \in Entity
  BY DEF Inv, TypeOK, AuthorIsNeverBehind
<1>2. p[1] \in Entity /\ p[2] \in Entity
  BY DEF Pair
<1>3. PICK w : w = Newer(watermark[d][p[1]], watermark[d][p[2]])
  OBVIOUS
<1>4. /\ w \in 0 .. MaxRevision /\ w <= revision[d]
      /\ w >= watermark[d][p[1]] /\ w >= watermark[d][p[2]]
      /\ \E f \in Entity : watermark[d][f] = w
  BY <1>1, <1>2, <1>3 DEF Newer
<1>5. Synced(p, d) = [e \in Entity |-> IF e \in {p[1], p[2]} THEN w ELSE watermark[d][e]]
  BY <1>3 DEF Synced
<1>6. Author[d] \in {p[1], p[2]} => w = revision[d]
  BY <1>1, <1>4
<1> HIDE <1>3
<1> QED
  BY <1>1, <1>2, <1>4, <1>5, <1>6

LEMMA InvNext == Inv /\ [Next]_vars => Inv'
<1> SUFFICES ASSUME Inv, [Next]_vars PROVE Inv'
  OBVIOUS
<1>0. TypeOK /\ AuthorIsNeverBehind
  BY DEF Inv
<1>1. CASE BeginTick
  <2>1. PICK changed \in SUBSET {d \in Doc : MayChange(d)} :
          /\ revision' = [d \in Doc |-> IF d \in changed THEN NextRevision(d) ELSE revision[d]]
          /\ watermark' = [d \in Doc |-> IF d \in changed THEN Upserted(d) ELSE watermark[d]]
    BY <1>1 DEF BeginTick
  <2>2. left' \in SUBSET Pair /\ sequence' \in 0 .. 2 * Interval - 1
    BY <1>0, <1>1 DEF TypeOK, BeginTick, Ticked
  <2>3. ASSUME NEW d \in Doc
        PROVE  /\ revision'[d] \in 0 .. MaxRevision
               /\ watermark'[d] \in [Entity -> 0 .. MaxRevision]
               /\ watermark'[d][Author[d]] = revision'[d]
               /\ \A e \in Entity : watermark'[d][e] <= revision'[d]
    <3>1. CASE d \in changed
      BY <2>1, <3>1, UpsertedRow
    <3>2. CASE d \notin changed
      BY <1>0, <2>1, <3>2 DEF TypeOK, AuthorIsNeverBehind
    <3> QED
      BY <3>1, <3>2
  <2>4. TypeOK'
    BY <2>1, <2>2, <2>3 DEF TypeOK
  <2> QED
    BY <2>3, <2>4 DEF Inv, AuthorIsNeverBehind
<1>2. ASSUME NEW p \in Pair, NEW budget \in 0 .. MaxBudget, Exchange(p, budget)
      PROVE  Inv'
  <2>1. /\ watermark' = [d \in Doc |-> IF d \in Carried(p, budget) THEN Synced(p, d)
                                       ELSE watermark[d]]
        /\ UNCHANGED <<revision, sequence>> /\ left' \in SUBSET Pair
    BY <1>0, <1>2 DEF Exchange, TypeOK
  <2>2. ASSUME NEW d \in Doc
        PROVE  /\ watermark'[d] \in [Entity -> 0 .. MaxRevision]
               /\ watermark'[d][Author[d]] = revision'[d]
               /\ \A e \in Entity : watermark'[d][e] <= revision'[d]
    <3>1. CASE d \in Carried(p, budget)
      BY <2>1, <3>1, SyncedRow
    <3>2. CASE d \notin Carried(p, budget)
      BY <1>0, <2>1, <3>2 DEF TypeOK, AuthorIsNeverBehind
    <3> QED
      BY <3>1, <3>2
  <2>3. TypeOK'
    BY <1>0, <2>1, <2>2 DEF TypeOK
  <2> QED
    BY <2>2, <2>3 DEF Inv, AuthorIsNeverBehind
<1>3. CASE UNCHANGED vars
  BY <1>0, <1>3 DEF vars, Inv, TypeOK, AuthorIsNeverBehind
<1> QED
  BY <1>1, <1>2, <1>3 DEF Next

LEMMA Invariance == Safe => []Inv
<1> QED
  BY InvInit, InvNext, PTL DEF Safe

(* Every variable always has its type. *)
THEOREM TypeCorrect == Safe => []TypeOK
<1>1. Inv => TypeOK
  BY DEF Inv
<1> QED
  BY <1>1, Invariance, PTL

(* However documents travel, no replica gets ahead of a document's author, *)
(* and the author never falls behind what it wrote.                        *)
THEOREM AuthorsLead == Safe => []AuthorIsNeverBehind
<1>1. Inv => AuthorIsNeverBehind
  BY DEF Inv
<1> QED
  BY <1>1, Invariance, PTL

-----------------------------------------------------------------------------
(* Of two finite sets as many are in the one only as are in the other only *)
(* exactly when they are of one size.                                      *)
LEMMA SameSize ==
  ASSUME NEW S, NEW T, IsFiniteSet(S), IsFiniteSet(T)
  PROVE  Cardinality(S) = Cardinality(T) <=> Cardinality(T \ S) = Cardinality(S \ T)
<1>1. /\ Cardinality(S \ T) = Cardinality(S) - Cardinality(S \intersect T)
      /\ Cardinality(T \ S) = Cardinality(T) - Cardinality(T \intersect S)
  BY FS_Difference
<1>2. Cardinality(T \intersect S) = Cardinality(S \intersect T)
  <2>1. T \intersect S = S \intersect T
    OBVIOUS
  <2> QED
    BY <2>1
<1>3. PICK s \in Nat, t \in Nat, both \in Nat :
        /\ Cardinality(S) = s /\ Cardinality(T) = t /\ Cardinality(S \intersect T) = both
  BY FS_CardinalityType, FS_Intersection
<1>4. Cardinality(S \ T) = s - both /\ Cardinality(T \ S) = t - both
  BY <1>1, <1>2, <1>3
<1>5. s = t <=> t - both = s - both
  OBVIOUS
<1> QED
  BY <1>3, <1>4, <1>5

(* Whichever entities are peers and whichever have links, what is said of  *)
(* a document is wrong only by the holders that are no peers: since no     *)
(* replica is ahead of the document, a peer that is not counted as holding *)
(* it has it pending.                                                      *)
THEOREM ConvergedCounts == Safe => []ConvergedCountsOutsiders
<1>1. ASSUME Inv, NEW d \in Doc
      PROVE  DocumentConverged(d) <=>
               Cardinality({e \in Peer : d \in Pending(e)}) = Cardinality(ReplicatedTo(d) \ Peer)
  <2>1. /\ revision[d] \in 0 .. MaxRevision
        /\ watermark[d] \in [Entity -> 0 .. MaxRevision]
        /\ \A e \in Entity : watermark[d][e] <= revision[d]
    BY <1>1 DEF Inv, TypeOK, AuthorIsNeverBehind
  <2>2. \A e \in Peer : d \in Pending(e) <=> e \notin ReplicatedTo(d)
    BY <2>1 DEF Pending, ReplicatedTo
  <2>3. {e \in Peer : d \in Pending(e)} = Peer \ ReplicatedTo(d)
    BY <2>2
  <2>4. IsFiniteSet(Entity)
    BY FS_Interval DEF Entity
  <2>5. IsFiniteSet(ReplicatedTo(d)) /\ IsFiniteSet(Peer)
    BY <2>4, FS_Subset DEF ReplicatedTo
  <2> QED
    BY <2>3, <2>5, SameSize DEF DocumentConverged
<1>2. Inv => ConvergedCountsOutsiders
  BY <1>1 DEF ConvergedCountsOutsiders
<1> QED
  BY <1>2, Invariance, PTL

-----------------------------------------------------------------------------
(* DittoModel implements ReplicaStore as long as revisions are counted as  *)
(* they are (not renumbered at the bound).                                 *)
LEMMA RefinesInit == Init => RS!Init
BY DEF Init, RS!Init

LEMMA RefinesNext == ~Renumber /\ Inv /\ [Next]_vars => [RS!Next]_(RS!vars)
<1> SUFFICES ASSUME ~Renumber, Inv, [Next]_vars PROVE RS!Next \/ UNCHANGED RS!vars
  OBVIOUS
<1>0. TypeOK /\ AuthorIsNeverBehind
  BY DEF Inv
<1>1. CASE BeginTick
  <2>1. PICK changed \in SUBSET {d \in Doc : MayChange(d)} :
          /\ revision' = [d \in Doc |-> IF d \in changed THEN NextRevision(d) ELSE revision[d]]
          /\ watermark' = [d \in Doc |-> IF d \in changed THEN Upserted(d) ELSE watermark[d]]
    BY <1>1 DEF BeginTick
  <2>2. ASSUME NEW d \in changed
        PROVE  /\ NextRevision(d) = revision[d] + 1
               /\ Upserted(d) = [watermark[d] EXCEPT ![Author[d]] = revision[d] + 1]
    <3>1. d \in Doc /\ revision[d] < MaxRevision /\ revision[d] \in Nat
          /\ watermark[d] \in [Entity -> 0 .. MaxRevision]
      BY <1>0 DEF MayChange, TypeOK
    <3> QED
      BY <3>1 DEF NextRevision, Upserted
  <2>3. /\ revision' \in [Doc -> Nat]
        /\ \A d \in changed : revision'[d] > revision[d] /\ revision'[d] = revision[d] + 1
        /\ \A d \in Doc \ changed : revision'[d] = revision[d]
    <3>1. \A d \in Doc : revision[d] \in Nat
      BY <1>0 DEF TypeOK
    <3> QED
      BY <2>1, <2>2, <3>1
  <2>4. watermark' = [d \in Doc |->
          IF d \in changed THEN [watermark[d] EXCEPT ![Author[d]] = revision'[d]]
                           ELSE watermark[d]]
    BY <2>1, <2>2, <2>3
  <2>5. RS!Write(changed)
    BY <2>3, <2>4 DEF RS!Write, RS!NewRevision
  <2> QED
    BY <2>5 DEF RS!Next
<1>2. ASSUME NEW p \in Pair, NEW budget \in 0 .. MaxBudget, Exchange(p, budget)
      PROVE  RS!Next
  <2>1. /\ watermark' = [d \in Doc |-> IF d \in Carried(p, budget) THEN Synced(p, d)
                                       ELSE watermark[d]]
        /\ UNCHANGED revision
    BY <1>2 DEF Exchange
  <2>2. ASSUME NEW d \in Doc
        PROVE  /\ watermark'[d] \in [Entity -> Nat]
               /\ \A e \in Entity :
                    \/ watermark'[d][e] = watermark[d][e]
                    \/ /\ watermark'[d][e] > watermark[d][e]
                       /\ \E f \in Entity : watermark[d][f] = watermark'[d][e]
    <3>1. CASE d \in Carried(p, budget)
      <4>1. watermark'[d] = Synced(p, d)
        BY <2>1, <3>1
      <4>2. Synced(p, d) \in [Entity -> Nat]
        BY SyncedRow
      <4> QED
        BY <4>1, <4>2, SyncedRow
    <3>2. CASE d \notin Carried(p, budget)
      <4>1. watermark'[d] = watermark[d] /\ watermark[d] \in [Entity -> 0 .. MaxRevision]
        BY <1>0, <2>1, <3>2 DEF TypeOK
      <4> QED
        BY <4>1
    <3> QED
      BY <3>1, <3>2
  <2>3. RS!Gossip
    BY <2>1, <2>2 DEF RS!Gossip, RS!Learns
  <2> QED
    BY <2>3 DEF RS!Next
<1>3. CASE UNCHANGED vars
  BY <1>3 DEF vars, RS!vars
<1> QED
  BY <1>1, <1>2, <1>3 DEF Next

(* Revisions are made by authors only, and learned only from a replica     *)
(* that holds them.                                                        *)
THEOREM Refinement ==
  ASSUME ~Renumber
  PROVE  Safe => OnlyLearnsFromHolders
<1>1. Inv /\ [Next]_vars => [RS!Next]_(RS!vars)
  BY RefinesNext
<1> QED
  BY <1>1, RefinesInit, Invariance, PTL DEF Safe, OnlyLearnsFromHolders, RS!Spec
=============================================================================
