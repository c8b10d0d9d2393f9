--------------------------- MODULE MCRouteLookup ---------------------------
(* RouteLookup on addresses of two bytes of two bits. *)
EXTENDS RouteLookup

CONSTANT Bad    \* a text that is no address

Zero == [b \in 1 .. W |-> 0]

\* Every route, and lines that lack the mask or both fields or have a bad one.
MCFileLines ==
    Route \cup {[dest |-> Zero, len |-> Absent], [dest |-> Absent, len |-> Absent],
                [dest |-> Bad, len |-> W]}

MCGarbage == {[dest |-> Bad, len |-> Bad], [dest |-> Zero, len |-> 1]}
=============================================================================
