----------------------------- MODULE MCSimTick ------------------------------
(***************************************************************************)
(* SimTick on a line of four points with a base, a scout and a relay.      *)
(***************************************************************************)
EXTENDS SimTick, TLC

Hold(k, p) ==
  [kind |-> k, start |-> p, playbook |-> "hold", authorized |-> TRUE, speed |-> 0,
   waypoints |-> << >>, orbit |-> {}, targets |-> << >>]

Scout(yes) ==
  [Hold("uas", 1) EXCEPT !.playbook = "area_search", !.authorized = yes, !.speed = 1,
                         !.waypoints = <<3, 0>>]

Relay(yes) ==
  [Hold("uas", 0) EXCEPT !.playbook = "comms_relay", !.authorized = yes, !.speed = 1,
                         !.targets = <<3, 1>>]

Watch(yes) ==
  [Hold("uas", 0) EXCEPT !.playbook = "persistent_surveillance", !.authorized = yes,
                         !.speed = 1, !.orbit = {2}]

Tanker == [Hold("uas", 1) EXCEPT !.playbook = "firefighting"]

(* The relay is in front of the base, which is found by its kind.          *)
Scenarios ==
  { <<Scout(TRUE), Relay(TRUE), Hold("base", 0)>>,
    <<Scout(FALSE), Relay(FALSE), Hold("base", 2)>>,
    <<Watch(TRUE), Tanker, Watch(FALSE)>> }

Radios == << ("mesh" :> 1 @@ "satcom" :> 1), ("mesh" :> 1), ("mesh" :> 2 @@ "satcom" :> 3) >>

(* Each way to fail by itself: SigForge, and real peers.                   *)
OneFault ==
  { [network |-> "analytic", ditto |-> "behavioral"],
    [network |-> "sigforge", ditto |-> "behavioral"],
    [network |-> "analytic", ditto |-> "real"] }
=============================================================================
