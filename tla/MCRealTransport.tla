-------------------------- MODULE MCRealTransport --------------------------
(***************************************************************************)
(* RealTransport on few peers and documents.  The .cfg files give the      *)
(* numbers; the function from documents is given here.                     *)
(***************************************************************************)
EXTENDS RealTransport

(* Three peers in a line.                                                 *)
Line == {<<1, 2>>, <<2, 3>>}

(* The first document is the last peer's, the second one of an author that *)
(* is not a peer.                                                          *)
LastThenNobody == [d \in 1 .. NumDocs |-> IF d = 1 THEN NumPeers ELSE NumPeers + 1]

(* The first document changes once more, the second one never does, like   *)
(* the tasking document.                                                   *)
TwoThenOne == [d \in 1 .. NumDocs |-> IF d = 1 THEN 2 ELSE 1]
=============================================================================
