------------------------------- MODULE Mysock -------------------------------
(***************************************************************************)
(* One STCP connection: the two processes at its ends, each with the three *)
(* threads the mysocket layer runs for it.                                 *)
(*   - the application thread: myconnect/myaccept, mywrite, myread, myclose *)
(*   - the transport thread: transport_init and then control_loop          *)
(*   - the receive thread: moves packets from the TCP socket that emulates *)
(*     the datagram network to network_recv_queue.                         *)
(* This module has what transport.c and transport1.c share: the mysocket   *)
(* API, the queues, the handshake, and the bodies of the control loop's    *)
(* branches.  Modules Transport and Transport1 put the branches together.  *)
(*                                                                         *)
(* Data is abstracted to its identity: the bytes an application writes are *)
(* numbered 0, 1, 2 ... in the order of its mywrite calls, and a buffer is *)
(* a run [lo, hi) of them.  A run with lo = hi is an empty buffer.         *)
(***************************************************************************)
EXTENDS Integers, Sequences

CONSTANTS
    STCP_MSS,       \* largest payload of one packet
    SENDER_WINDOW,  \* size of the sender window and of the payload buffer
    SeqMod,         \* sequence numbers are taken modulo this (2^32)
    InitialSeqs,    \* values of generate_initial_seq_num (0..255)
    WriteSizes,     \* lengths the applications pass to mywrite
    ReadSizes,      \* buffer lengths the applications pass to myread
    MaxWritten,     \* bound on the bytes each application writes
    Closers,        \* ends whose application may close before it reads EOF
    MayCrash        \* ends whose process may be killed

End == {"active", "passive"}

ASSUME MysockAssumption ==
    /\ STCP_MSS \in Nat \ {0}
    /\ SENDER_WINDOW \in Nat \ {0}
    /\ SeqMod \in Nat \ {0}
    /\ InitialSeqs \subseteq 0 .. (SeqMod - 1)
    /\ WriteSizes \subseteq Nat \ {0}
    /\ ReadSizes \subseteq Nat \ {0}
    /\ MaxWritten \in [End -> Nat]
    /\ Closers \subseteq End
    /\ MayCrash \subseteq End

VARIABLES
    app,                    \* the application thread, see AppState
    written,                \* bytes passed to mywrite so far
    read,                   \* bytes returned by myread so far
    eof,                    \* ctx->eof
    close_requested,        \* ctx->close_requested
    app_recv_queue,         \* runs from mywrite to the transport thread
    app_send_queue,         \* runs from the transport thread to myread
    network_recv_queue,     \* packets from the receive thread
    wire,                   \* packets in the TCP connection, by receiver
    recv_thread,            \* is the receive thread running?
    reset,                  \* is there a RST of the TCP connection for the end?
    thread,                 \* where the transport thread is, see ThreadState
    event,                  \* branches of this control_loop iteration to do
    payload,                \* the run the APP_DATA branch has yet to send
    current_sender_window,  \* control_loop's local of that name
    connection_state,
    current_sequence_num,
    initial_sequence_num,
    ack_num,
    fin_ack_sequence_num,
    arrived,                \* history: bytes moved into network_recv_queue
    delivered               \* history: bytes handed to stcp_app_send

appVars == <<app, written, read, eof>>
queueVars == <<app_recv_queue, app_send_queue, network_recv_queue>>
netVars == <<wire, recv_thread, reset>>
loopVars == <<thread, event, payload, current_sender_window>>
ctxVars == <<connection_state, current_sequence_num, initial_sequence_num,
             ack_num, fin_ack_sequence_num>>
histVars == <<arrived, delivered>>
vars == <<appVars, close_requested, queueVars, netVars, loopVars, ctxVars, histVars>>

-----------------------------------------------------------------------------
Peer(e) == IF e = "active" THEN "passive" ELSE "active"

\* "blocked" in myconnect or myaccept, "open" between calls, "closing" in
\* myclose; the process has "closed" the mysocket, was "killed" or was "aborted"
\* by a failed assertion, of its own or of the allocator.
AppState == {"blocked", "open", "closing", "closed", "killed", "aborted"}

\* The transport thread is about to "start", has sent its first packet and
\* "await"s the answer, is in the "loop", or has "exited".  It "spins" in the
\* inner loop of the APP_DATA branch once a send there has failed.
ThreadState == {"start", "await", "loop", "spins", "exited"}

\* CSTATE_CLOSED is assigned together with done = TRUE, and nowhere else: it
\* stands for both.
CState == {"ESTABLISHED", "CLOSED", "SYN_SENT", "SYN_RECEIVED",
           "FIN_WAIT_1", "FIN_WAIT_2", "CLOSE_WAIT"}

Events == {"APP_DATA", "NETWORK_DATA", "APP_CLOSE_REQUESTED"}
Seqs == 0 .. (SeqMod - 1)
Runs == [lo : Nat, hi : Nat]

\* "ERR" is the empty buffer the receive thread queues to signal an error.
Packets == [kind : {"SYN", "SYNACK", "ACK", "DATA", "FIN", "ERR"},
            seq : Seqs, ack : Seqs, lo : Nat, hi : Nat]

Plus(s, n) == (s + n) % SeqMod
Run(from, to) == [lo |-> from, hi |-> to]
Packet(kind, seq, ack, run) ==
    [kind |-> kind, seq |-> seq, ack |-> ack, lo |-> run.lo, hi |-> run.hi]

\* The place in e's stream where its next packet starts.
Here(e) == Run(payload[e].lo, payload[e].lo)

\* The process at e has gone and its TCP socket is closed.
Gone(e) == app[e] \in {"closed", "killed", "aborted"}

\* _network_send_packet.  What is sent to a process that has gone is lost, and
\* the kernel there answers it with a RST.
Send(e, pkt) ==
    /\ wire' = IF Gone(Peer(e)) THEN wire
               ELSE [wire EXCEPT ![Peer(e)] = Append(@, pkt)]
    /\ reset' = [reset EXCEPT ![e] = @ \/ Gone(Peer(e))]

\* The kernel closes the TCP socket of e.  If it has not been read to its end the
\* peer gets a RST.
CloseSocket(e) == reset' = [reset EXCEPT ![Peer(e)] = @ \/ wire[e] # <<>>]

\* An assertion fails in the process at e.
Abort(e) ==
    /\ app' = [app EXCEPT ![e] = "aborted"]
    /\ CloseSocket(e)
    /\ UNCHANGED <<written, read, eof, close_requested, queueVars, wire, recv_thread,
                   loopVars, ctxVars, histVars>>

\* _mysock_dequeue_buffer with remove_partial: how many bytes it takes off the
\* queue for a buffer of max bytes, and what it leaves.  A negative max is a
\* huge size_t.
DequeueLen(q, max) ==
    IF 0 <= max /\ max < q[1].hi - q[1].lo THEN max ELSE q[1].hi - q[1].lo

\* Mutant of DequeueRest: the rest of a buffer is not advanced.
DequeueRestAgain(q, max) ==
    IF 0 <= max /\ max < q[1].hi - q[1].lo THEN q ELSE Tail(q)

DequeueRest(q, max) ==
    IF 0 <= max /\ max < q[1].hi - q[1].lo
    THEN [q EXCEPT ![1] = Run(q[1].lo + max, q[1].hi)]
    ELSE Tail(q)

-----------------------------------------------------------------------------
(* The application thread.                                                 *)

mywrite(e, n) ==
    /\ app[e] = "open"
    /\ written[e] + n <= MaxWritten[e]
    /\ app_recv_queue' = [app_recv_queue EXCEPT
                            ![e] = Append(@, Run(written[e], written[e] + n))]
    /\ written' = [written EXCEPT ![e] = @ + n]
    /\ UNCHANGED <<app, read, eof, close_requested, app_send_queue,
                   network_recv_queue, netVars, loopVars, ctxVars, histVars>>

myread(e, n) ==
    /\ app[e] = "open"
    /\ ~eof[e]
    /\ app_send_queue[e] # <<>>
    /\ LET len == DequeueLen(app_send_queue[e], n)
       IN  /\ read' = [read EXCEPT ![e] = @ + len]
           /\ eof' = [eof EXCEPT ![e] = (len = 0)]
    /\ app_send_queue' = [app_send_queue EXCEPT ![e] = DequeueRest(@, n)]
    /\ UNCHANGED <<app, written, close_requested, app_recv_queue,
                   network_recv_queue, netVars, loopVars, ctxVars, histVars>>

\* myclose up to pthread_join.  The programs close when they have read EOF;
\* the ends in Closers also when they please.
myclose(e) ==
    /\ app[e] = "open"
    /\ e \in Closers \/ eof[e]
    /\ close_requested' = [close_requested EXCEPT ![e] = TRUE]
    /\ app' = [app EXCEPT ![e] = "closing"]
    /\ UNCHANGED <<written, read, eof, queueVars, netVars, loopVars, ctxVars,
                   histVars>>

\* Mutant of myclose_return: the transport thread is not joined.
myclose_returnNoJoin(e) ==
    /\ app[e] = "closing"
    /\ app' = [app EXCEPT ![e] = "closed"]
    /\ recv_thread' = [recv_thread EXCEPT ![e] = FALSE]
    /\ app_recv_queue' = [app_recv_queue EXCEPT ![e] = <<>>]
    /\ app_send_queue' = [app_send_queue EXCEPT ![e] = <<>>]
    /\ network_recv_queue' = [network_recv_queue EXCEPT ![e] = <<>>]
    /\ wire' = [wire EXCEPT ![e] = <<>>]
    /\ CloseSocket(e)
    /\ UNCHANGED <<written, read, eof, close_requested, loopVars, ctxVars,
                   histVars>>

\* myclose from the return of pthread_join: stop the receive thread, free the
\* context with its queues, close the TCP socket.
myclose_return(e) ==
    /\ app[e] = "closing"
    /\ thread[e] = "exited"
    /\ app' = [app EXCEPT ![e] = "closed"]
    /\ recv_thread' = [recv_thread EXCEPT ![e] = FALSE]
    /\ app_recv_queue' = [app_recv_queue EXCEPT ![e] = <<>>]
    /\ app_send_queue' = [app_send_queue EXCEPT ![e] = <<>>]
    /\ network_recv_queue' = [network_recv_queue EXCEPT ![e] = <<>>]
    /\ wire' = [wire EXCEPT ![e] = <<>>]
    /\ CloseSocket(e)
    /\ UNCHANGED <<written, read, eof, close_requested, loopVars, ctxVars,
                   histVars>>

\* The process is killed; the kernel closes its socket.  The passive context
\* only exists once the SYN has been sent.
Crash(e) ==
    /\ e \in MayCrash
    /\ ~Gone(e)
    /\ e = "active" => thread[e] # "start"
    /\ app' = [app EXCEPT ![e] = "killed"]
    /\ CloseSocket(e)
    /\ UNCHANGED <<written, read, eof, close_requested, queueVars, wire, recv_thread,
                   loopVars, ctxVars, histVars>>

-----------------------------------------------------------------------------
(* The receive thread: network_recv_thread_func on a connected socket.     *)

\* poll reports data and no error: no RST has come, or it was reported to a send.
RecvPacket(e) ==
    /\ ~Gone(e) /\ recv_thread[e]
    /\ wire[e] # <<>>
    /\ network_recv_queue' = [network_recv_queue EXCEPT ![e] = Append(@, Head(wire[e]))]
    /\ arrived' = [arrived EXCEPT ![e] = Head(wire[e]).hi]
    /\ wire' = [wire EXCEPT ![e] = Tail(@)]
    /\ UNCHANGED <<appVars, close_requested, app_recv_queue, app_send_queue,
                   recv_thread, reset, loopVars, ctxVars, delivered>>

\* The peer's socket is closed, or a RST has cut off the rest of what it sent, and
\* poll did not report that: queue an empty buffer and exit.
RecvEof(e) ==
    /\ ~Gone(e) /\ recv_thread[e]
    /\ Gone(Peer(e)) /\ (wire[e] = <<>> \/ reset[e])
    /\ network_recv_queue' = [network_recv_queue EXCEPT
            ![e] = Append(@, Packet("ERR", 0, 0, Run(arrived[e], arrived[e])))]
    /\ recv_thread' = [recv_thread EXCEPT ![e] = FALSE]
    /\ UNCHANGED <<appVars, close_requested, app_recv_queue, app_send_queue,
                   wire, reset, loopVars, ctxVars, histVars>>

\* poll reports the RST as POLLERR, which is asserted not to happen.
RecvReset(e) == ~Gone(e) /\ recv_thread[e] /\ reset[e] /\ Abort(e)

RecvThread(e) == RecvPacket(e) \/ RecvEof(e) \/ RecvReset(e)

-----------------------------------------------------------------------------
(* The transport thread: the handshake of transport_init.  Sending and     *)
(* receiving the peer's sequence number are one step with the next answer: *)
(* the code keeps opp_sequence_num only to compute that answer.            *)

SendSyn(e) ==
    /\ e = "active" /\ ~Gone(e) /\ thread[e] = "start"
    /\ Send(e, Packet("SYN", current_sequence_num[e], 0, Here(e)))
    /\ current_sequence_num' = [current_sequence_num EXCEPT ![e] = Plus(@, 1)]
    /\ thread' = [thread EXCEPT ![e] = "await"]
    /\ UNCHANGED <<appVars, close_requested, queueVars, recv_thread, event,
                   payload, current_sender_window, connection_state,
                   initial_sequence_num, ack_num, fin_ack_sequence_num, histVars>>

\* The active end takes the answer to its SYN.  Whatever it is, the code goes
\* on to the ACK, which takes a sequence number of its own, and unblocks the
\* application; after a wrong answer, which is the empty buffer of the receive
\* thread, myconnect fails and the program exits.
RecvSynAck(e) ==
    /\ e = "active" /\ ~Gone(e) /\ thread[e] = "await"
    /\ network_recv_queue[e] # <<>>
    /\ LET pkt == Head(network_recv_queue[e])
           ok == pkt.kind = "SYNACK" /\ pkt.ack = current_sequence_num[e]
       IN  /\ Send(e, Packet("ACK", current_sequence_num[e], Plus(pkt.seq, 1), Here(e)))
           /\ app' = [app EXCEPT ![e] = IF ok THEN "open" ELSE "killed"]
    /\ network_recv_queue' = [network_recv_queue EXCEPT ![e] = Tail(@)]
    /\ current_sequence_num' = [current_sequence_num EXCEPT ![e] = Plus(@, 1)]
    /\ connection_state' = [connection_state EXCEPT ![e] = "ESTABLISHED"]
    /\ thread' = [thread EXCEPT ![e] = "loop"]
    /\ UNCHANGED <<written, read, eof, close_requested, app_recv_queue,
                   app_send_queue, recv_thread, event, payload,
                   current_sender_window, initial_sequence_num, ack_num,
                   fin_ack_sequence_num, histVars>>

\* The passive context is created with the SYN as its first packet.
RecvSyn(e) ==
    /\ e = "passive" /\ ~Gone(e) /\ thread[e] = "start"
    /\ network_recv_queue[e] # <<>>
    /\ LET pkt == Head(network_recv_queue[e])
       IN  Send(e, Packet("SYNACK", current_sequence_num[e], Plus(pkt.seq, 1), Here(e)))
    /\ network_recv_queue' = [network_recv_queue EXCEPT ![e] = Tail(@)]
    /\ current_sequence_num' = [current_sequence_num EXCEPT ![e] = Plus(@, 1)]
    /\ connection_state' = [connection_state EXCEPT ![e] = "SYN_RECEIVED"]
    /\ thread' = [thread EXCEPT ![e] = "await"]
    /\ UNCHANGED <<appVars, close_requested, app_recv_queue, app_send_queue,
                   recv_thread, event, payload, current_sender_window,
                   initial_sequence_num, ack_num, fin_ack_sequence_num, histVars>>

\* The passive end takes the third packet of the handshake.  What it holds is
\* only used to set fields that are not read again, and there is no error path:
\* any packet establishes the connection, the receive thread's empty buffer too.
RecvHandshakeAck(e) ==
    /\ e = "passive" /\ ~Gone(e) /\ thread[e] = "await"
    /\ network_recv_queue[e] # <<>>
    /\ network_recv_queue' = [network_recv_queue EXCEPT ![e] = Tail(@)]
    /\ app' = [app EXCEPT ![e] = "open"]
    /\ connection_state' = [connection_state EXCEPT ![e] = "ESTABLISHED"]
    /\ thread' = [thread EXCEPT ![e] = "loop"]
    /\ UNCHANGED <<written, read, eof, close_requested, app_recv_queue,
                   app_send_queue, netVars, event, payload,
                   current_sender_window, current_sequence_num,
                   initial_sequence_num, ack_num, fin_ack_sequence_num, histVars>>

Handshake(e) == SendSyn(e) \/ RecvSynAck(e) \/ RecvSyn(e) \/ RecvHandshakeAck(e)

-----------------------------------------------------------------------------
(* The transport thread: the parts of control_loop.                        *)

\* The thread is in control_loop and not in the middle of a payload.
InLoop(e) == ~Gone(e) /\ thread[e] = "loop" /\ payload[e].lo = payload[e].hi

\* Mutant of DueEvents: the close is not held back.
DueEventsCloseEarly(e) ==
    (IF app_recv_queue[e] # <<>> THEN {"APP_DATA"} ELSE {})
    \cup (IF network_recv_queue[e] # <<>> THEN {"NETWORK_DATA"} ELSE {})
    \cup (IF close_requested[e] THEN {"APP_CLOSE_REQUESTED"} ELSE {})

\* stcp_wait_for_event: the events that are due.  The close event is held back
\* until the application's data has been passed on.
DueEvents(e) ==
    (IF app_recv_queue[e] # <<>> THEN {"APP_DATA"} ELSE {})
    \cup (IF network_recv_queue[e] # <<>> THEN {"NETWORK_DATA"} ELSE {})
    \cup (IF close_requested[e] /\ app_recv_queue[e] = <<>>
          THEN {"APP_CLOSE_REQUESTED"} ELSE {})

\* Mutant of stcp_wait_for_event: a close that is held back is forgotten.
stcp_wait_for_eventOnce(e) ==
    /\ InLoop(e) /\ event[e] = {} /\ connection_state[e] # "CLOSED"
    /\ DueEvents(e) # {}
    /\ event' = [event EXCEPT ![e] = DueEvents(e)]
    /\ close_requested' = [close_requested EXCEPT ![e] = FALSE]
    /\ UNCHANGED <<appVars, queueVars, netVars, thread, payload, ctxVars, histVars>>

stcp_wait_for_event(e) ==
    /\ InLoop(e) /\ event[e] = {} /\ connection_state[e] # "CLOSED"
    /\ DueEvents(e) # {}
    /\ event' = [event EXCEPT ![e] = DueEvents(e)]
    /\ close_requested' = [close_requested EXCEPT
                             ![e] = @ /\ "APP_CLOSE_REQUESTED" \notin DueEvents(e)]
    /\ UNCHANGED <<appVars, queueVars, netVars, thread, payload, ctxVars, histVars>>

Handled(e, ev) == event' = [event EXCEPT ![e] = @ \ {ev}]

\* A branch whose condition does not hold is passed over.
Skip(e, ev) ==
    /\ Handled(e, ev)
    /\ UNCHANGED <<appVars, close_requested, queueVars, netVars, thread, payload,
                   current_sender_window, ctxVars, histVars>>

\* APP_DATA: stcp_app_recv takes at most a window of the first buffer ...
AppRecv(e) ==
    /\ LET len == DequeueLen(app_recv_queue[e], current_sender_window[e])
           from == app_recv_queue[e][1].lo
       IN  payload' = [payload EXCEPT ![e] = Run(from, from + len)]
    /\ app_recv_queue' = [app_recv_queue EXCEPT
                            ![e] = DequeueRest(@, current_sender_window[e])]
    /\ Handled(e, "APP_DATA")
    /\ UNCHANGED <<appVars, close_requested, app_send_queue, network_recv_queue,
                   netVars, thread, current_sender_window, ctxVars, histVars>>

\* ... into a buffer of SENDER_WINDOW bytes.  If it writes behind the buffer the
\* process goes on, as AppRecv, or the allocator aborts it ...
Overrun(e) ==
    /\ DequeueLen(app_recv_queue[e], current_sender_window[e]) > SENDER_WINDOW
    /\ Abort(e)

\* ... and the inner loop sends it in segments.
SendSegment(e) ==
    /\ ~Gone(e) /\ thread[e] = "loop" /\ payload[e].lo < payload[e].hi
    /\ LET rest == payload[e].hi - payload[e].lo
           size == IF rest > STCP_MSS THEN STCP_MSS ELSE rest
           next == payload[e].lo + size
       IN  /\ Send(e, Packet("DATA", current_sequence_num[e], 0, Run(payload[e].lo, next)))
           /\ current_sequence_num' = [current_sequence_num EXCEPT ![e] = Plus(@, size)]
           /\ payload' = [payload EXCEPT ![e] = Run(next, @.hi)]
    /\ UNCHANGED <<appVars, close_requested, queueVars, recv_thread, thread, event,
                   current_sender_window, connection_state, initial_sequence_num,
                   ack_num, fin_ack_sequence_num, histVars>>

\* A packet is two writes, and the second fails if the RST that the first brings
\* about is fast.  If that is the last send its result, -1 less the header's size,
\* is taken as the number of bytes sent: what is left to send grows and the loop
\* never ends.
SendFails(e) ==
    /\ ~Gone(e) /\ thread[e] = "loop" /\ payload[e].lo < payload[e].hi
    /\ Gone(Peer(e))
    /\ payload[e].hi - payload[e].lo <= STCP_MSS
    /\ thread' = [thread EXCEPT ![e] = "spins"]
    /\ reset' = [reset EXCEPT ![e] = TRUE]
    /\ UNCHANGED <<appVars, close_requested, queueVars, wire, recv_thread, event, payload,
                   current_sender_window, ctxVars, histVars>>

\* Mutant of RecvACK: ack_num is not kept.
RecvACKForgotten(e) ==
    LET pkt == Head(network_recv_queue[e])
    IN  /\ pkt.kind \in {"ACK", "SYNACK"}
        /\ network_recv_queue' = [network_recv_queue EXCEPT ![e] = Tail(@)]
        /\ connection_state' = [connection_state EXCEPT
              ![e] = IF @ = "FIN_WAIT_1" /\ pkt.ack = fin_ack_sequence_num[e]
                     THEN "FIN_WAIT_2" ELSE @]
        /\ Handled(e, "NETWORK_DATA")
        /\ UNCHANGED <<appVars, close_requested, app_recv_queue, app_send_queue,
                       netVars, thread, payload, current_sender_window,
                       current_sequence_num, initial_sequence_num, ack_num,
                       fin_ack_sequence_num, histVars>>

\* NETWORK_DATA: one packet is taken; which of the three it is.
RecvACK(e) ==
    LET pkt == Head(network_recv_queue[e])
    IN  /\ pkt.kind \in {"ACK", "SYNACK"}
        /\ network_recv_queue' = [network_recv_queue EXCEPT ![e] = Tail(@)]
        /\ ack_num' = [ack_num EXCEPT ![e] = pkt.ack]
        /\ connection_state' = [connection_state EXCEPT
              ![e] = IF @ = "FIN_WAIT_1" /\ pkt.ack = fin_ack_sequence_num[e]
                     THEN "FIN_WAIT_2" ELSE @]
        /\ Handled(e, "NETWORK_DATA")
        /\ UNCHANGED <<appVars, close_requested, app_recv_queue, app_send_queue,
                       netVars, thread, payload, current_sender_window,
                       current_sequence_num, initial_sequence_num,
                       fin_ack_sequence_num, histVars>>

\* Mutant of RecvFIN: the end of the stream overtakes the data in the queue.
RecvFINFirst(e) ==
    LET pkt == Head(network_recv_queue[e])
    IN  /\ pkt.kind = "FIN"
        /\ network_recv_queue' = [network_recv_queue EXCEPT ![e] = Tail(@)]
        /\ app_send_queue' = [app_send_queue EXCEPT ![e] = <<Run(pkt.lo, pkt.hi)>> \o @]
        /\ Send(e, Packet("ACK", 0, Plus(pkt.seq, 1), Here(e)))
        /\ connection_state' = [connection_state EXCEPT
              ![e] = CASE @ = "ESTABLISHED" -> "CLOSE_WAIT"
                       [] @ = "FIN_WAIT_2" -> "CLOSED"
                       [] OTHER -> @]
        /\ Handled(e, "NETWORK_DATA")
        /\ UNCHANGED <<appVars, close_requested, app_recv_queue, recv_thread,
                       thread, payload, current_sender_window,
                       current_sequence_num, initial_sequence_num, ack_num,
                       fin_ack_sequence_num, histVars>>

\* stcp_fin_received queues an empty buffer, which myread reports as EOF.  The
\* FINs of this code carry no data.
RecvFIN(e) ==
    LET pkt == Head(network_recv_queue[e])
    IN  /\ pkt.kind = "FIN"
        /\ network_recv_queue' = [network_recv_queue EXCEPT ![e] = Tail(@)]
        /\ app_send_queue' = [app_send_queue EXCEPT ![e] = Append(@, Run(pkt.lo, pkt.hi))]
        /\ Send(e, Packet("ACK", 0, Plus(pkt.seq, 1), Here(e)))
        /\ connection_state' = [connection_state EXCEPT
              ![e] = CASE @ = "ESTABLISHED" -> "CLOSE_WAIT"
                       [] @ = "FIN_WAIT_2" -> "CLOSED"
                       [] OTHER -> @]
        /\ Handled(e, "NETWORK_DATA")
        /\ UNCHANGED <<appVars, close_requested, app_recv_queue, recv_thread,
                       thread, payload, current_sender_window,
                       current_sequence_num, initial_sequence_num, ack_num,
                       fin_ack_sequence_num, histVars>>

RecvDATA(e) ==
    LET pkt == Head(network_recv_queue[e])
    IN  /\ pkt.kind \in {"DATA", "SYN"}
        /\ network_recv_queue' = [network_recv_queue EXCEPT ![e] = Tail(@)]
        /\ app_send_queue' = [app_send_queue EXCEPT
              ![e] = IF pkt.lo < pkt.hi THEN Append(@, Run(pkt.lo, pkt.hi)) ELSE @]
        /\ delivered' = [delivered EXCEPT ![e] = @ + (pkt.hi - pkt.lo)]
        /\ Send(e, Packet("ACK", 0, Plus(pkt.seq, pkt.hi - pkt.lo), Here(e)))
        /\ Handled(e, "NETWORK_DATA")
        /\ UNCHANGED <<appVars, close_requested, app_recv_queue, recv_thread,
                       thread, payload, current_sender_window, ctxVars, arrived>>

\* Mutant of RecvError: a broken connection is taken for the end of the stream.
RecvErrorAsEof(e) ==
    /\ Head(network_recv_queue[e]).kind = "ERR"
    /\ network_recv_queue' = [network_recv_queue EXCEPT ![e] = Tail(@)]
    /\ app_send_queue' = [app_send_queue EXCEPT
                            ![e] = Append(@, Run(delivered[e], delivered[e]))]
    /\ Handled(e, "NETWORK_DATA")
    /\ UNCHANGED <<appVars, close_requested, app_recv_queue, netVars, thread,
                   payload, current_sender_window, ctxVars, histVars>>

\* The empty buffer is shorter than a header: its payload size of -20 makes
\* stcp_app_send ask for a buffer that cannot be allocated, which is asserted.
RecvError(e) ==
    /\ Head(network_recv_queue[e]).kind = "ERR"
    /\ Abort(e)

NetworkData(e) == RecvACK(e) \/ RecvFIN(e) \/ RecvDATA(e) \/ RecvError(e)

\* Mutant of CloseRequested: the FIN of the peer is not waited for.
CloseRequestedAtOnce(e) ==
    /\ Send(e, Packet("FIN", current_sequence_num[e], 0, Here(e)))
    /\ current_sequence_num' = [current_sequence_num EXCEPT ![e] = Plus(@, 1)]
    /\ connection_state' = [connection_state EXCEPT ![e] = "CLOSED"]
    /\ fin_ack_sequence_num' = [fin_ack_sequence_num EXCEPT
          ![e] = Plus(current_sequence_num[e], 1)]
    /\ Handled(e, "APP_CLOSE_REQUESTED")
    /\ UNCHANGED <<appVars, close_requested, queueVars, recv_thread, thread,
                   payload, current_sender_window, initial_sequence_num, ack_num,
                   histVars>>

\* APP_CLOSE_REQUESTED
CloseRequested(e) ==
    /\ Send(e, Packet("FIN", current_sequence_num[e], 0, Here(e)))
    /\ current_sequence_num' = [current_sequence_num EXCEPT ![e] = Plus(@, 1)]
    /\ connection_state' = [connection_state EXCEPT
          ![e] = IF @ = "ESTABLISHED" THEN "FIN_WAIT_1" ELSE "CLOSED"]
    /\ fin_ack_sequence_num' = [fin_ack_sequence_num EXCEPT
          ![e] = Plus(current_sequence_num[e], 1)]
    /\ Handled(e, "APP_CLOSE_REQUESTED")
    /\ UNCHANGED <<appVars, close_requested, queueVars, recv_thread, thread,
                   payload, current_sender_window, initial_sequence_num, ack_num,
                   histVars>>

\* control_loop and transport_init return; transport_thread_func queues an EOF
\* for the application and the thread ends.
TransportReturn(e) ==
    /\ InLoop(e) /\ event[e] = {} /\ connection_state[e] = "CLOSED"
    /\ thread' = [thread EXCEPT ![e] = "exited"]
    /\ app_send_queue' = [app_send_queue EXCEPT
                            ![e] = Append(@, Run(delivered[e], delivered[e]))]
    /\ UNCHANGED <<appVars, close_requested, app_recv_queue, network_recv_queue,
                   netVars, event, payload, current_sender_window, ctxVars,
                   histVars>>

-----------------------------------------------------------------------------
MysockInit ==
    /\ app = [e \in End |-> "blocked"]
    /\ written = [e \in End |-> 0]
    /\ read = [e \in End |-> 0]
    /\ eof = [e \in End |-> FALSE]
    /\ close_requested = [e \in End |-> FALSE]
    /\ app_recv_queue = [e \in End |-> <<>>]
    /\ app_send_queue = [e \in End |-> <<>>]
    /\ network_recv_queue = [e \in End |-> <<>>]
    /\ wire = [e \in End |-> <<>>]
    /\ recv_thread = [e \in End |-> TRUE]
    /\ reset = [e \in End |-> FALSE]
    /\ thread = [e \in End |-> "start"]
    /\ event = [e \in End |-> {}]
    /\ payload = [e \in End |-> Run(0, 0)]
    /\ initial_sequence_num \in [End -> InitialSeqs]
    /\ current_sequence_num = initial_sequence_num
    /\ ack_num = [e \in End |-> 0]
    /\ fin_ack_sequence_num = [e \in End |-> 0]
    /\ arrived = [e \in End |-> 0]
    /\ delivered = [e \in End |-> 0]

\* What the applications, the receive threads and the rest of myclose do.
Environment(e) ==
    \/ \E n \in WriteSizes : mywrite(e, n)
    \/ \E n \in ReadSizes : myread(e, n)
    \/ myclose(e)
    \/ myclose_return(e)
    \/ Crash(e)
    \/ RecvThread(e)

\* The threads of the mysocket layer run; the programs keep reading until EOF
\* and then close, as server.c and client.c do.
EnvironmentFairness(e) ==
    /\ WF_vars(RecvThread(e))
    /\ WF_vars(myclose_return(e))
    /\ WF_vars(\E n \in ReadSizes : myread(e, n))
    /\ WF_vars(eof[e] /\ myclose(e))

-----------------------------------------------------------------------------
(* Properties.                                                             *)

\* Type invariant of the mysocket and transport contexts.
TypeOK ==
    /\ app \in [End -> AppState]
    /\ written \in [End -> Nat]
    /\ read \in [End -> Nat]
    /\ eof \in [End -> BOOLEAN]
    /\ close_requested \in [End -> BOOLEAN]
    /\ app_recv_queue \in [End -> Seq(Runs)]
    /\ app_send_queue \in [End -> Seq(Runs)]
    /\ network_recv_queue \in [End -> Seq(Packets)]
    /\ wire \in [End -> Seq(Packets)]
    /\ recv_thread \in [End -> BOOLEAN]
    /\ reset \in [End -> BOOLEAN]
    /\ thread \in [End -> ThreadState]
    /\ event \in [End -> SUBSET Events]
    /\ payload \in [End -> Runs]
    /\ current_sender_window \in [End -> Int]
    /\ connection_state \in [End -> CState]
    /\ current_sequence_num \in [End -> Seqs]
    /\ initial_sequence_num \in [End -> Seqs]
    /\ ack_num \in [End -> Seqs]
    /\ fin_ack_sequence_num \in [End -> Seqs]
    /\ arrived \in [End -> Nat]
    /\ delivered \in [End -> Nat]

\* The runs in q, one after the other, are exactly the bytes from .. to-1.
Chain(q, from, to) ==
    /\ q = <<>> => from = to
    /\ q # <<>> => q[1].lo = from /\ q[Len(q)].hi = to
    /\ \A i \in 1 .. Len(q) : q[i].lo <= q[i].hi
    /\ \A i \in 1 .. Len(q) - 1 : q[i].hi = q[i + 1].lo
    /\ \A i, j \in 1 .. Len(q) : i < j => q[i].hi <= q[j].lo

\* What has been written and not yet read is, without gap, repetition or
\* reordering: in the reader's app_send_queue and network_recv_queue, on the
\* wire, in the payload being segmented and in the writer's app_recv_queue.
\* So myread returns exactly the bytes that mywrite was given, in order.
InOrderAt(e) ==
    LET p == Peer(e)
    IN  /\ payload[p].lo <= payload[p].hi
        /\ app[p] # "closed" => Chain(app_recv_queue[p], payload[p].hi, written[p])
        /\ payload[p].hi <= written[p]
        /\ ~Gone(e) =>
              /\ Chain(app_send_queue[e], read[e], delivered[e])
              /\ Chain(network_recv_queue[e], delivered[e], arrived[e])
              /\ Chain(wire[e], arrived[e], payload[p].lo)
InOrder == \A e \in End : InOrderAt(e)

\* myread reports the end of the stream only after the peer's application has
\* called myclose, and after it has returned all the bytes the peer wrote.
EofComplete ==
    \A e \in End :
        eof[e] => /\ app[Peer(e)] \notin {"blocked", "open"}
                  /\ read[e] = written[Peer(e)]

\* The FIN of e is on its way or has arrived.
FinSent(e) == connection_state[e] \in {"FIN_WAIT_1", "FIN_WAIT_2", "CLOSED"}

\* The application at e has closed and all its bytes have left e.
Flushed(e) ==
    /\ app[e] \notin {"blocked", "open"}
    /\ app_recv_queue[e] = <<>>
    /\ payload[e].lo = written[e]
    /\ payload[e].hi = written[e]

\* Where in e's stream an end may be announced: nowhere until the FIN is sent.
EndPlace(e) == IF FinSent(e) THEN {written[e]} ELSE {}

\* Only data packets carry bytes.  The FINs of a queue of packets, and the
\* empty buffers of a queue of runs, are in these places.
FinsAt(q, places) ==
    \A i \in 1 .. Len(q) : /\ q[i].kind # "DATA" => q[i].hi = q[i].lo
                           /\ q[i].kind = "FIN" => q[i].lo \in places
EmptiesAt(q, places) ==
    \A i \in 1 .. Len(q) : q[i].lo = q[i].hi => q[i].lo \in places

\* There is no data in q.
NoData(q) == \A i \in 1 .. Len(q) : q[i].kind # "DATA"

\* There is a next packet for e, and it is not data.
ControlNext(e) ==
    IF network_recv_queue[e] = <<>>
    THEN wire[e] # <<>> /\ wire[e][1].kind # "DATA"
    ELSE network_recv_queue[e][1].kind # "DATA"

\* What makes InOrder and EofComplete inductive: the handshake, which takes what
\* comes first, does not take data; an event is in hand only while its cause is;
\* the close event and the FIN come after the data; and an empty buffer reaches
\* the application's queue only behind all of the peer's data.
HandshakeAt(e) ==
    LET p == Peer(e)
    IN  /\ thread[p] \in {"start", "await"} =>
              NoData(network_recv_queue[e]) /\ NoData(wire[e])
        /\ /\ thread[e] = "await"
           /\ thread[p] # "start"
           /\ e = "active" \/ thread[p] # "await"
           => ControlNext(e)
        /\ thread[e] = "start" =>
              /\ thread[p] = "start" \/ (e = "passive" /\ thread[p] = "await")
              /\ network_recv_queue[p] = <<>> /\ wire[p] = <<>>
EventsBacked(e) ==
    /\ thread[e] \in {"start", "await"} =>
          app[e] = "blocked" /\ event[e] = {} /\ ~close_requested[e]
    /\ "APP_DATA" \in event[e] => app_recv_queue[e] # <<>>
    /\ "NETWORK_DATA" \in event[e] => network_recv_queue[e] # <<>>
    /\ close_requested[e] => app[e] \notin {"blocked", "open"}
ClosesLast(e) ==
    /\ "APP_CLOSE_REQUESTED" \in event[e] => Flushed(e)
    /\ FinSent(e) => Flushed(e) /\ thread[e] \notin {"start", "await"}
    /\ thread[e] = "exited" => connection_state[e] = "CLOSED"
EndsLast(e) ==
    /\ FinsAt(wire[e], EndPlace(Peer(e)))
    /\ FinsAt(network_recv_queue[e], EndPlace(Peer(e)))
    /\ thread[e] # "exited" => EmptiesAt(app_send_queue[e], EndPlace(Peer(e)))
    /\ eof[e] => read[e] \in EndPlace(Peer(e))

StreamAt(e) ==
    /\ InOrderAt(e)
    /\ ~Gone(e) => HandshakeAt(e) /\ EventsBacked(e)
    /\ ClosesLast(e)
    /\ EndsLast(e)
StreamInv == TypeOK /\ \A e \in End : StreamAt(e)

\* The bytes of the stream are numbered one after the other from the number
\* behind the SYN's: a data packet carries the number of its first byte.
DataNumbered ==
    \A e \in End : \A i \in 1 .. Len(wire[e]) :
        wire[e][i].kind = "DATA" =>
            wire[e][i].seq = Plus(initial_sequence_num[Peer(e)], 1 + wire[e][i].lo)

\* A sender has no more than a window of bytes that are not yet delivered,
\* counting the payload it is segmenting.
SendsInWindow ==
    \A e \in End : payload[e].hi - delivered[Peer(e)] <= SENDER_WINDOW

\* No process fails an assertion: poll reports no error, and the empty buffer of
\* a broken connection is never taken for a packet.
NoAbort == \A e \in End : app[e] # "aborted"

\* The two applications see two byte streams, whatever the threads do.
Stream == INSTANCE ByteStream
            WITH open <- {e \in End : app[e] \in {"blocked", "open"}},
                 Lengths <- WriteSizes
ImplementsByteStream == Stream!Spec

\* What mywrite was given reaches the peer's app_send_queue, unless the peer has
\* failed an assertion.
DataDelivered ==
    \A e \in End : \A n \in 1 .. MaxWritten[e] :
        written[e] >= n ~> (delivered[Peer(e)] >= n \/ app[Peer(e)] = "aborted")

\* Every call of myclose returns.
CloseTerminates == \A e \in End : app[e] = "closing" ~> app[e] = "closed"

=============================================================================
