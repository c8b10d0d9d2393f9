---------------------------- MODULE MCTransport1 ----------------------------
(* Instances of Transport1 for TLC. *)
EXTENDS Transport1

ThreeAndTwo == [e \in End |-> IF e = "active" THEN 3 ELSE 2]
=============================================================================
