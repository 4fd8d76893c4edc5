-------------------------- MODULE MCSwapRefinement --------------------------
(* The instances of MCSwapProtocol, for the refinement. *)
EXTENDS SwapRefinement, MCSwapProtocol
=============================================================================
