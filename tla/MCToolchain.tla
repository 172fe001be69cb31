---------------------------- MODULE MCToolchain ----------------------------
(***************************************************************************)
(* All the options, for a source of each kind.                             *)
(***************************************************************************)
EXTENDS Toolchain

MCOptionSets == SUBSET Letters

=============================================================================
