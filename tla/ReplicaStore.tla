---------------------------- MODULE ReplicaStore ----------------------------
(***************************************************************************)
(* What a store of replicated documents promises (ARCHITECTURE.md, "Ditto  *)
(* peer and document layer"): only a document's author makes revisions of  *)
(* it, each newer than those before, and a replica comes to hold a         *)
(* revision only by learning it from a replica that holds it, never going  *)
(* back.  Both transports are shown to implement it: DittoModel.tla, whose *)
(* upserts are stored at once, and RealTransport.tla, whose writes can     *)
(* fail, so that the author's store goes from one revision to a later one. *)
(***************************************************************************)
EXTENDS Naturals

CONSTANTS Doc, Entity,
          Author,  \* the author of each document
          MaySkip  \* whether a write may leave out revisions

VARIABLES revision,  \* the latest revision of each document, 0 before the first
          held       \* the revision each entity's replica holds, 0 for none

vars == <<revision, held>>

Init ==
  /\ revision \in [Doc -> {0, 1}]
  /\ held = [d \in Doc |-> [e \in Entity |-> IF e = Author[d] THEN revision[d] ELSE 0]]

(* Authors write; a write is the next revision, or a later one if those    *)
(* between were left out, and is held by the author.                       *)
NewRevision(d) ==
  /\ revision'[d] > revision[d]
  /\ ~MaySkip => revision'[d] = revision[d] + 1

Write(W) ==
  /\ revision' \in [Doc -> Nat]
  /\ \A d \in W : NewRevision(d)
  /\ \A d \in Doc \ W : revision'[d] = revision[d]
  /\ held' = [d \in Doc |->
       IF d \in W THEN [held[d] EXCEPT ![Author[d]] = revision'[d]] ELSE held[d]]

(* A replica learns a newer revision from another one.                     *)
Learns(d, e) ==
  /\ held'[d][e] > held[d][e]
  /\ \E f \in Entity : held[d][f] = held'[d][e]

Gossip ==
  /\ UNCHANGED revision
  /\ held' \in [Doc -> [Entity -> Nat]]
  /\ \A d \in Doc, e \in Entity : held'[d][e] = held[d][e] \/ Learns(d, e)

Next == Gossip \/ \E W \in SUBSET Doc : Write(W)

Spec == Init /\ [][Next]_vars
=============================================================================
