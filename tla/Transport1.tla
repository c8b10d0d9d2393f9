----------------------------- MODULE Transport1 -----------------------------
(***************************************************************************)
(* transport1.c, the other version of the STCP transport layer that the    *)
(* repository keeps (the Makefile does not build it).  It computes the     *)
(* sender window, serves the network before the application, and takes     *)
(* packets in every state of the connection.  Its two functions have a 1   *)
(* at the end of their names here, to tell them from those of transport.c. *)
(***************************************************************************)
EXTENDS Mysock

\* Until the first ACK of data the window is counted from ack_num = 0; the code
\* can rely on initial sequence numbers below 256 and a window of 3072.
\* A full window and a FIN are less than the numbers there are.
ASSUME WindowAssumption ==
    /\ \A s \in InitialSeqs : s + 2 < SENDER_WINDOW
    /\ SENDER_WINDOW + 1 < SeqMod

transport_init1(e) ==
    Handshake(e)

Unacked(e) == (current_sequence_num[e] - ack_num[e]) % SeqMod

\* Mutant of SenderWindow: what is in flight is not counted.
SenderWindowAlwaysOpen(e) == SENDER_WINDOW

SenderWindow(e) == SENDER_WINDOW - Unacked(e)

\* control_loop: wait for events, compute the window, then the branches in the
\* order of the code.  Data is left in its queue while the window is closed.
control_loop1(e) ==
    \/ /\ stcp_wait_for_event(e)
       /\ current_sender_window' = [current_sender_window EXCEPT
                                      ![e] = SenderWindow(e)]
    \/ /\ InLoop(e) /\ "NETWORK_DATA" \in event[e]
       /\ NetworkData(e)
    \/ /\ InLoop(e) /\ "NETWORK_DATA" \notin event[e] /\ "APP_DATA" \in event[e]
       /\ IF current_sender_window[e] > 0
          THEN AppRecv(e) ELSE Skip(e, "APP_DATA")
    \/ SendSegment(e)
    \/ SendFails(e)
    \/ /\ InLoop(e) /\ event[e] = {"APP_CLOSE_REQUESTED"}
       /\ CloseRequested(e)
    \/ TransportReturn(e)

TransportThread1(e) == transport_init1(e) \/ control_loop1(e)

\* calloc leaves the first state of the enumeration in connection_state.
Init1 ==
    /\ MysockInit
    /\ connection_state = [e \in End |-> "SYN_SENT"]
    /\ current_sender_window = [e \in End |-> 0]

Next1 == \E e \in End : Environment(e) \/ TransportThread1(e)

Spec1 == Init1 /\ [][Next1]_vars

\* The threads run, and the programs keep reading and close when they see EOF.
Fairness1 == \A e \in End : WF_vars(TransportThread1(e)) /\ EnvironmentFairness(e)

FairSpec1 == Spec1 /\ Fairness1

-----------------------------------------------------------------------------
\* The sender never has more than a window of unacknowledged bytes in flight,
\* counting the payload it is segmenting; a FIN may come on top of a full
\* window.
WindowRespected ==
    \A e \in End :
        thread[e] \in {"loop", "exited"} =>
            Unacked(e) + (payload[e].hi - payload[e].lo) <=
                SENDER_WINDOW + (IF connection_state[e] \in {"FIN_WAIT_1", "FIN_WAIT_2", "CLOSED"}
                                 THEN 1 ELSE 0)

\* What makes WindowRespected inductive.

\* How far the number n is behind c.
Lag(c, n) == (c - n) % SeqMod

AckKinds == {"ACK", "SYNACK"}
NumberedKinds == {"SYN", "SYNACK", "DATA", "FIN"}

\* The sequence numbers that a packet takes.
Numbers(pkt) == IF pkt.kind = "DATA" THEN pkt.hi - pkt.lo ELSE 1

\* The packets on their way to e.
Way(e) == network_recv_queue[e] \o wire[e]
Kinds(q) == {q[i].kind : i \in 1 .. Len(q)}

\* For a sender whose next number is c and whose last acknowledgement was a, with
\* the packets q on their way to it and r on their way to its peer: the
\* acknowledgements in q rise from a on, the numbers in r rise without overlap up
\* to c, and nothing in r has been acknowledged.
AcksRise(c, a, q) ==
    \A i \in 1 .. Len(q) : q[i].kind \in AckKinds =>
        /\ Lag(c, q[i].ack) <= Lag(c, a)
        /\ \A j \in 1 .. Len(q) : i < j /\ q[j].kind \in AckKinds =>
                Lag(c, q[j].ack) <= Lag(c, q[i].ack)
NumbersRise(c, a, r) ==
    \A i \in 1 .. Len(r) : r[i].kind \in NumberedKinds =>
        /\ 1 <= Numbers(r[i]) /\ Numbers(r[i]) <= Lag(c, r[i].seq)
        /\ Lag(c, r[i].seq) <= Lag(c, a)
        /\ \A j \in 1 .. Len(r) : i < j /\ r[j].kind \in NumberedKinds =>
                Lag(c, r[j].seq) + Numbers(r[i]) <= Lag(c, r[i].seq)
NotAcked(c, q, r) ==
    \A i \in 1 .. Len(r), j \in 1 .. Len(q) :
        r[i].kind \in NumberedKinds /\ q[j].kind \in AckKinds =>
            Lag(c, r[i].seq) <= Lag(c, q[j].ack)
Flight(c, a, q, r) == AcksRise(c, a, q) /\ NumbersRise(c, a, r) /\ NotAcked(c, q, r)

\* What is in flight and what is being segmented fit into the window, with a FIN
\* on top; and so do the numbers that the handshake has yet to take, and what may
\* still be taken from the application with the window as it was computed.
InWindow(e) ==
    /\ Unacked(e) + (payload[e].hi - payload[e].lo) <=
            SENDER_WINDOW + (IF FinSent(e) THEN 1 ELSE 0)
    /\ thread[e] \in {"start", "await"} =>
            /\ payload[e].lo = payload[e].hi
            /\ Unacked(e) + (IF thread[e] = "start" THEN 2 ELSE 1) < SENDER_WINDOW
    /\ ~Gone(e) /\ "APP_DATA" \in event[e] =>
            /\ payload[e].lo = payload[e].hi
            /\ Unacked(e) + current_sender_window[e] <= SENDER_WINDOW

\* One FIN is sent.
ClosesOnce(e) ==
    ~Gone(e) => /\ close_requested[e] => "APP_CLOSE_REQUESTED" \notin event[e]
                /\ close_requested[e] \/ "APP_CLOSE_REQUESTED" \in event[e] => ~FinSent(e)

\* The handshake answers the packet it is for: no ACK comes before its end, the
\* passive end has nothing to read but the SYN before it is answered, and the empty
\* buffer of the receive thread comes from a process that has gone.
HandshakeFirst(e) ==
    /\ "ACK" \in Kinds(Way(e)) => thread[Peer(e)] \notin {"start", "await"}
    /\ "ERR" \in Kinds(Way(e)) => Gone(Peer(e))
    /\ e = "active" /\ ~Gone(e) /\ thread[e] = "await" =>
        /\ thread[Peer(e)] \in {"start", "await"}
        /\ Len(Way(Peer(e))) <= 1
        /\ thread[Peer(e)] = "await" => Way(Peer(e)) = <<>>

FlightAt(e) ==
    ~Gone(e) => Flight(current_sequence_num[e], ack_num[e], Way(e), Way(Peer(e)))

WindowAt(e) == InWindow(e) /\ ClosesOnce(e) /\ HandshakeFirst(e) /\ FlightAt(e)

\* The inductive invariant of transport1.c: with the byte streams in order, the
\* window that control_loop computes from current_sequence_num and ack_num is that
\* of the segments on their way and of the acknowledgements on their way back,
\* although all of these wrap.
WindowInv == StreamInv /\ \A e \in End : WindowAt(e)

-----------------------------------------------------------------------------
(* The close.                                                              *)

\* A process was killed, or has exited after a failed myconnect.
Killed == \E e \in End : app[e] = "killed"

\* If no process is killed, one fails an assertion only after it has closed and
\* sent its FIN, when all that it wrote has been delivered and its peer's call of
\* myclose has returned: what is lost then is what it was sent after it closed.
AbortsAtEnd ==
    \A e \in End : app[e] = "aborted" /\ ~Killed =>
        /\ FinSent(e) /\ delivered[Peer(e)] = written[e]
        /\ app[Peer(e)] = "closed"

\* What makes AbortsAtEnd inductive.

\* Where the thread is, by the state of the connection; an application that has
\* closed has waited for it.
ThreadPlace(e) ==
    /\ app[e] = "closed" => thread[e] = "exited"
    /\ thread[e] \in {"start", "await"} <=> connection_state[e] \in {"SYN_SENT", "SYN_RECEIVED"}

\* The answer to the SYN is the one myconnect waits for.
SynAnswered(e) ==
    e = "active" /\ ~Gone(e) /\ thread[e] = "await" =>
        /\ \A i \in 1 .. Len(Way(e)) :
              Way(e)[i].kind = "SYNACK" /\ Way(e)[i].ack = current_sequence_num[e]
        /\ \A i \in 1 .. Len(Way(Peer(e))) :
              Plus(Way(Peer(e))[i].seq, 1) = current_sequence_num[e]

\* An end comes to these states with the FIN of its peer, which is behind all of
\* the peer's data.
FinTaken(e) ==
    connection_state[e] \in {"CLOSE_WAIT", "CLOSED"} =>
        FinSent(Peer(e)) /\ delivered[e] = written[Peer(e)]

\* The connection is reset by a process that has gone.
ResetLast(e) == reset[e] => Gone(Peer(e))

CloseAt(e) == ThreadPlace(e) /\ SynAnswered(e) /\ FinTaken(e) /\ ResetLast(e)

\* The inductive invariant of the close.  No step follows an abort, as both
\* processes have gone then; and where no process may be killed none is.
CloseInv ==
    /\ WindowInv
    /\ MayCrash = {} => ~Killed
    /\ AbortsAtEnd
    /\ Killed \/ ~NoAbort \/ \A e \in End : CloseAt(e)

\* Every call of myclose returns or ends in a failed assertion, unless both ends
\* have sent a FIN before either has seen the other's: then neither reaches CLOSED.
FinsCross == \A e \in End : connection_state[e] \in {"FIN_WAIT_1", "FIN_WAIT_2"}
UncrossedCloseEnds ==
    [](~FinsCross) =>
        \A e \in End : app[e] = "closing" ~> app[e] \in {"closed", "aborted"}
=============================================================================
