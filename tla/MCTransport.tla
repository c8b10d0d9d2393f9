----------------------------- MODULE MCTransport -----------------------------
(* Instances of Transport for TLC. *)
EXTENDS Transport

\* One byte may be sent at a time, nothing or, as a negative int becomes a huge
\* size_t, any number.
OpenGarbage == {1, -1}
NoneOrAll == {0, -1}

Up(a, p) == [e \in End |-> IF e = "active" THEN a ELSE p]
ThreeAndOne == Up(3, 1)
TwoAndOne == Up(2, 1)
=============================================================================
