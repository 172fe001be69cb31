------------------------------- MODULE MCTee -------------------------------
(***************************************************************************)
(* Two pieces of two lines each.                                           *)
(***************************************************************************)
EXTENDS Tee

MCPieces == << <<1, 2>>, <<3, 4>> >>

=============================================================================
