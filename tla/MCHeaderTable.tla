--------------------------- MODULE MCHeaderTable ---------------------------
(***************************************************************************)
(* Instances of HeaderTable for TLC.                                       *)
(***************************************************************************)
EXTENDS HeaderTable
=============================================================================
