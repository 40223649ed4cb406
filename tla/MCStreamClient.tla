--------------------------- MODULE MCStreamClient ---------------------------
(***************************************************************************)
(* StreamClient with two scenarios, for one page: to a page another one is *)
(* a client that asks for scenarios, as those of OtherAsks are.            *)
(***************************************************************************)
EXTENDS StreamClient
=============================================================================
