------------------------------ MODULE MCRouter ------------------------------
(***************************************************************************)
(* Instances of Router for TLC: Router.cfg and Router_freed.cfg have the   *)
(* constants, which are model values and numbers.                          *)
(***************************************************************************)
EXTENDS Router
=============================================================================
