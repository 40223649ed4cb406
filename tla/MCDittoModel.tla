---------------------------- MODULE MCDittoModel ----------------------------
(***************************************************************************)
(* DittoModel on few documents and entities.  The .cfg files give the      *)
(* numbers; the functions from documents are given here.                   *)
(***************************************************************************)
EXTENDS DittoModel

(* Documents in key order: c2.pli, c2.tasking, mission.base_queue.         *)
Kinds == [d \in 1 .. 3 |-> CASE d = 1 -> "platform" [] d = 2 -> "tasking" [] d = 3 -> "mission"]

Authors == [d \in 1 .. 3 |-> IF d = 1 THEN 3 ELSE 1]

TwoKinds == [d \in 1 .. 2 |-> Kinds[d]]

TwoAuthors == [d \in 1 .. 2 |-> IF d = 1 THEN 2 ELSE 1]
=============================================================================
