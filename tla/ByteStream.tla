----------------------------- MODULE ByteStream -----------------------------
(***************************************************************************)
(* What a pair of connected mysockets promises the two applications: in    *)
(* each direction a reliable stream of bytes with an end.  Bytes are       *)
(* identified by their place in the stream, so a stream that has been read *)
(* up to byte n has delivered exactly the first n bytes written.           *)
(***************************************************************************)
EXTENDS Naturals

CONSTANT Lengths    \* the lengths of writes

VARIABLES
    open,       \* the ends whose application may still write
    written,    \* written[e]: number of bytes e has written
    read,       \* read[e]: number of its peer's bytes e has read
    eof         \* eof[e]: e has been told that the stream has ended

vars == <<open, written, read, eof>>

End == {"active", "passive"}
Peer(e) == IF e = "active" THEN "passive" ELSE "active"

Init ==
    /\ open = End
    /\ written = [e \in End |-> 0]
    /\ read = [e \in End |-> 0]
    /\ eof = [e \in End |-> FALSE]

Write(e) ==
    /\ e \in open
    /\ \E n \in Lengths : written' = [written EXCEPT ![e] = @ + n]
    /\ UNCHANGED <<open, read, eof>>

Read(e) ==
    /\ e \in open /\ ~eof[e]
    /\ \E n \in 1 .. (written[Peer(e)] - read[e]) : read' = [read EXCEPT ![e] = @ + n]
    /\ UNCHANGED <<open, written, eof>>

ReadEof(e) ==
    /\ e \in open
    /\ Peer(e) \notin open
    /\ read[e] = written[Peer(e)]
    /\ eof' = [eof EXCEPT ![e] = TRUE]
    /\ UNCHANGED <<open, written, read>>

Close(e) ==
    /\ e \in open
    /\ open' = open \ {e}
    /\ UNCHANGED <<written, read, eof>>

Next == \E e \in End : Write(e) \/ Read(e) \/ ReadEof(e) \/ Close(e)

Spec == Init /\ [][Next]_vars
=============================================================================
