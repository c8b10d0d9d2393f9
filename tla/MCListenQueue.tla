--------------------------- MODULE MCListenQueue ---------------------------
(***************************************************************************)
(* Instances of ListenQueue for TLC.                                       *)
(***************************************************************************)
EXTENDS ListenQueue, TLC

\* The clients are interchangeable where all or none may go away.
Symmetry == Permutations(Client)
=============================================================================
