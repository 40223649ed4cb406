------------------------------ MODULE Network -------------------------------
(***************************************************************************)
(* The two network backends (network.rs, sigforge.rs), and the link events *)
(* the scheduler derives from what they return.                            *)
(*                                                                         *)
(* A link is <<carrier, source, target>> for two entities that have a      *)
(* radio of that carrier; the links that are up are a set.  Quality,       *)
(* latency, loss and capacity of a link that is up are left out, and the   *)
(* propagation curve is reduced to the distance up to which its quality    *)
(* reaches the 0.05 a link needs.                                          *)
(***************************************************************************)
EXTENDS Integers, FiniteSets, BehaviorTree

CONSTANTS
  NumEntities,  \* the agents, in the order of the scenario file
  Radio,        \* for each entity, the reach of its radio of each carrier
  Nodes,        \* the NEM ids SigForge lists
  PhyReach      \* how far the emulated PHY carries

Entity == 1 .. NumEntities
Carrier == {"mesh", "cellular", "satcom", "ble"}

ASSUME NetworkAssumption ==
  /\ NumEntities \in Nat
  /\ \A e \in Entity : DOMAIN Radio[e] \subseteq Carrier
  /\ \A e \in Entity : \A c \in DOMAIN Radio[e] : Radio[e][c] \in Nat
  /\ Nodes \subseteq Nat /\ PhyReach \in Nat

(* One link for each pair of entities and each carrier both have.          *)
Link == {l \in Carrier \X Entity \X Entity :
           l[2] < l[3] /\ l[1] \in DOMAIN Radio[l[2]] \cap DOMAIN Radio[l[3]]}

-----------------------------------------------------------------------------
(* AnalyticNetworkBackend: a link is up within the shorter of both reaches.*)
InRange(l, at) ==
  /\ Distance(at[l[2]], at[l[3]]) <= Radio[l[2]][l[1]]
  /\ Distance(at[l[2]], at[l[3]]) <= Radio[l[3]][l[1]]

AnalyticLinks(at) == {l \in Link : InRange(l, at)}

-----------------------------------------------------------------------------
(* SigForgeNetworkBackend.  The NEM ids, sorted and without duplicates,    *)
(* are given to the entities in order; with too few there is no mapping,   *)
(* and no simulation.                                                      *)
Registered(nem) ==
  /\ \A e, f \in Entity : e < f => nem[e] < nem[f]
  /\ \A n \in Nodes \ {nem[e] : e \in Entity} : \A e \in Entity : nem[e] < n

UpdatedPositions_Fault(told, nem, at, k) ==
  [n \in Nodes |-> IF \E e \in Entity : nem[e] = n /\ e < k
                   THEN at[CHOOSE e \in Entity : nem[e] = n] ELSE told[n]]

(* The positions SigForge was told, after the first k updates of a tick.   *)
UpdatedPositions(told, nem, at, k) ==
  [n \in Nodes |-> IF \E e \in Entity : nem[e] = n /\ e <= k
                   THEN at[CHOOSE e \in Entity : nem[e] = n] ELSE told[n]]

(* The directions, between NEMs that are entities, of which SigForge may   *)
(* report a usable SINR: it computes it from the positions it was told.    *)
Audible(told, nem) ==
  LET mapped == {nem[e] : e \in Entity}
  IN  {d \in mapped \X mapped : /\ d[1] # d[2]
                                /\ Distance(told[d[1]], told[d[2]]) <= PhyReach}

(* A link is usable if both directions are; the carrier does not matter.   *)
Usable(heard, m, n) == <<m, n>> \in heard /\ <<n, m>> \in heard

SigForgeLinks(heard, nem) == {l \in Link : Usable(heard, nem[l[2]], nem[l[3]])}

-----------------------------------------------------------------------------
(* derive_link_events: the transitions from the previous links, of which   *)
(* none is known to be up at first.                                        *)
LinkEvents(previous, current) ==
  [up |-> current \ previous, down |-> previous \ current]

(* What somebody who follows the events of all frames takes to be up.      *)
Followed(links, events) == (links \ events.down) \union events.up
=============================================================================
