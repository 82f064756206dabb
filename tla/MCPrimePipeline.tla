--------------------------- MODULE MCPrimePipeline ---------------------------
(***************************************************************************)
(* A request for TLC.                                                      *)
(***************************************************************************)
EXTENDS PrimePipeline

CONSTANTS r1

MCRequests == {r1}
MCPhases == {"Explore", "Execute"}

=============================================================================
