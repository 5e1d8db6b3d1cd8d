------------------------------- MODULE MCSeed -------------------------------
(***************************************************************************)
(* Instances of Seed for TLC: the constants are numbers and sets of        *)
(* strings, given in the .cfg files.                                       *)
(***************************************************************************)
EXTENDS Seed
=============================================================================
