--------------------------- MODULE MCStateService ---------------------------
(***************************************************************************)
(* StateService with few clients, scenarios and ticks: the constants are   *)
(* in the .cfg files, which also say which of the properties a run checks. *)
(***************************************************************************)
EXTENDS StateService

(* Scenarios differ in nothing but their names, so it makes no difference  *)
(* which one the server was started with.                                  *)
StartedInit == Init /\ active = CHOOSE s \in Scenario : TRUE

StartedSpec ==
  StartedInit /\ [][Next]_vars /\ WF_vars(Publish) /\ \A c \in Client : WF_vars(Serve(c))
=============================================================================
