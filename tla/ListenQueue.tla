---------------------------- MODULE ListenQueue ----------------------------
(***************************************************************************)
(* A listening mysocket: connection_demux.c with the receive thread of the *)
(* listening socket (network_io_socket.c, network_io_tcp.c), the transport *)
(* threads of the connections it queues and the application that accepts   *)
(* them and closes the listening mysocket (mysock_api.c, server.c).        *)
(*                                                                         *)
(* listen_lock is taken shared by the receive thread, by the transport     *)
(* threads and by myaccept, and exclusive by the close of the listening    *)
(* mysocket; connection_lock is taken by myaccept and by the transport     *)
(* threads, not by the receive thread, so the two updates of cur_len are   *)
(* interleaved here as a load and a store each.  What a connection does    *)
(* once it is established is the subject of module Mysock: here its        *)
(* transport thread runs until its mysocket is closed.                     *)
(***************************************************************************)
EXTENDS Integers, Sequences, FiniteSets

CONSTANTS
    Client,                 \* the peers that may connect, one connection each
    MaxLen,                 \* max_len: the backlog given to mylisten, plus one
    MAX_NUM_CONNECTIONS,    \* mysockets of the process, the listening one included
    UIntMod,                \* cur_len is an unsigned int: the values it has
    MayAbort,               \* clients that may go away before they send a SYN
    None                    \* no client: an empty slot, new_socket = -1

ASSUME ListenAssumption ==
    /\ MaxLen \in Nat \ {0}
    /\ MAX_NUM_CONNECTIONS \in Nat
    /\ UIntMod \in Nat /\ MaxLen < UIntMod
    /\ MayAbort \subseteq Client
    /\ None \notin Client

VARIABLES
    client,         \* client[c]: what the peer has done
    kernel,         \* connections the kernel holds for accept()
    listener,       \* where the receive thread of the listening socket is
    new_socket,     \* the accepted socket not yet handed to a connection
    entry,          \* the slot the receive thread has found
    listener_len,   \* cur_len as the receive thread has loaded it
    slots,          \* connection_queue: the request in each slot
    completed,      \* completed_queue: the slots of established connections
    cur_len,        \* the number of pending requests, as it is counted
    conn,           \* conn[c]: where the transport thread of c's connection is
    acceptor,       \* where the application is
    acceptor_len,   \* cur_len as myaccept has loaded it
    failed,         \* the assertion that has ended the process
    established,    \* the connections in the order they were established
    accepted        \* the connections in the order myaccept returned them

listenerVars == <<listener, new_socket, entry, listener_len>>
queueVars == <<slots, completed, cur_len>>
acceptorVars == <<acceptor, acceptor_len>>
histVars == <<established, accepted>>
vars == <<client, kernel, listenerVars, queueVars, conn, acceptorVars, failed,
          histVars>>

Slot == 1 .. MaxLen
UInt == 0 .. (UIntMod - 1)

ClientState == {"idle", "connected", "sent", "aborted"}
ListenerState == {"poll", "read", "demux", "count", "open", "undo", "exited"}
ConnState == {"none", "handshake", "unblock", "signal", "running", "exited", "closed"}
AcceptorState == {"idle", "asleep", "woken", "taken", "count", "join", "closing",
                  "closed"}
Assertion == {"none", "new_socket", "queue_entry", "cur_len"}

Alive == failed = "none"

\* The application holds listen_lock exclusive, and connection_lock.
WriteLocked == acceptor = "closing"
ConnectionLocked == acceptor \in {"taken", "count"}

\* _mysock_set_backlog and _network_start_recv_thread, called by mylisten.
mylisten ==
    /\ kernel = <<>>
    /\ listener = "poll" /\ new_socket = None /\ entry = 1 /\ listener_len = 0
    /\ slots = [k \in Slot |-> None] /\ completed = <<>> /\ cur_len = 0
    /\ acceptor = "idle" /\ acceptor_len = 0

Init ==
    /\ mylisten
    /\ client = [c \in Client |-> "idle"]
    /\ conn = [c \in Client |-> "none"]
    /\ failed = "none"
    /\ established = <<>> /\ accepted = <<>>

-----------------------------------------------------------------------------
(* The clients.                                                            *)

\* _tcp_connect of a client: the kernel completes the connection.
Connect(c) ==
    /\ Alive /\ client[c] = "idle" /\ acceptor # "closed"
    /\ client' = [client EXCEPT ![c] = "connected"]
    /\ kernel' = Append(kernel, c)
    /\ UNCHANGED <<listenerVars, queueVars, conn, acceptorVars, failed, histVars>>

\* The client sends its SYN, or goes away without.
SendSyn(c) ==
    /\ Alive /\ client[c] = "connected"
    /\ client' = [client EXCEPT ![c] = "sent"]
    /\ UNCHANGED <<kernel, listenerVars, queueVars, conn, acceptorVars, failed, histVars>>

Abort(c) ==
    /\ Alive /\ c \in MayAbort /\ client[c] = "connected"
    /\ client' = [client EXCEPT ![c] = "aborted"]
    /\ UNCHANGED <<kernel, listenerVars, queueVars, conn, acceptorVars, failed, histVars>>

-----------------------------------------------------------------------------
(* The receive thread of the listening socket: network_recv_thread_func.   *)

\* The exit pipe is looked at before the socket.
PollExit ==
    /\ Alive /\ listener = "poll" /\ acceptor = "join"
    /\ listener' = "exited"
    /\ UNCHANGED <<client, kernel, new_socket, entry, listener_len, queueVars, conn,
                   acceptorVars, failed, histVars>>

\* _network_recv_packet on the listening socket: accept() the connection, which
\* needs new_socket to be free.
AcceptSocket ==
    /\ Alive /\ listener = "poll" /\ acceptor # "join" /\ kernel # <<>>
    /\ kernel' = Tail(kernel)
    /\ IF new_socket = None
       THEN /\ new_socket' = Head(kernel)
            /\ listener' = "read"
            /\ UNCHANGED failed
       ELSE /\ failed' = "new_socket"
            /\ UNCHANGED <<new_socket, listener>>
    /\ UNCHANGED <<client, entry, listener_len, queueVars, conn, acceptorVars, histVars>>

\* It then blocks until the client has sent a packet, or is gone: the thread
\* reports the error to a queue that nobody reads, and ends.
ReadPacket ==
    /\ Alive /\ listener = "read"
    /\ \/ /\ client[new_socket] = "sent"
          /\ listener' = "demux"
       \/ /\ client[new_socket] = "aborted"
          /\ listener' = "exited"
    /\ UNCHANGED <<client, kernel, new_socket, entry, listener_len, queueVars, conn,
                   acceptorVars, failed, histVars>>

\* _mysock_enqueue_connection: a request that is already queued or for which
\* there is no room is dropped; new_socket is left as it is.
DropSyn ==
    /\ Alive /\ listener = "demux" /\ ~WriteLocked
    /\ (\E k \in Slot : slots[k] = new_socket) \/ cur_len >= MaxLen
    /\ listener' = "poll"
    /\ UNCHANGED <<client, kernel, new_socket, entry, listener_len, queueVars, conn,
                   acceptorVars, failed, histVars>>

\* Otherwise the first empty slot is taken, and ++q->cur_len begins.
FindSlot ==
    /\ Alive /\ listener = "demux" /\ ~WriteLocked
    /\ \A k \in Slot : slots[k] # new_socket
    /\ cur_len < MaxLen
    /\ LET free == {k \in Slot : slots[k] = None}
       IN  \/ \E k \in free :
                /\ \A j \in free : k <= j
                /\ entry' = k
                /\ listener_len' = cur_len
                /\ listener' = "count"
                /\ UNCHANGED failed
           \/ /\ free = {}
              /\ failed' = "queue_entry"
              /\ UNCHANGED <<entry, listener_len, listener>>
    /\ UNCHANGED <<client, kernel, new_socket, queueVars, conn, acceptorVars, histVars>>

\* ... and ends.
CountRequest ==
    /\ Alive /\ listener = "count"
    /\ cur_len' = (listener_len + 1) % UIntMod
    /\ listener' = "open"
    /\ UNCHANGED <<client, kernel, new_socket, entry, listener_len, slots, completed,
                   conn, acceptorVars, failed, histVars>>

\* The mysockets in use: the listening one and the connections.
Open == {c \in Client : conn[c] \notin {"none", "closed"}}

\* Mutant of OpenConnection: the accepted socket stays with the listening one.
OpenConnectionKeepsSocket ==
    /\ Alive /\ listener = "open"
    /\ 1 + Cardinality(Open) < MAX_NUM_CONNECTIONS
    /\ slots' = [slots EXCEPT ![entry] = new_socket]
    /\ conn' = [conn EXCEPT ![new_socket] = "handshake"]
    /\ listener' = "poll"
    /\ UNCHANGED <<client, kernel, new_socket, entry, listener_len, completed, cur_len,
                   acceptorVars, failed, histVars>>

\* A mysocket is made for the connection, which takes the accepted socket over
\* (_network_update_passive_state) and is started with the SYN.
OpenConnection ==
    /\ Alive /\ listener = "open"
    /\ 1 + Cardinality(Open) < MAX_NUM_CONNECTIONS
    /\ slots' = [slots EXCEPT ![entry] = new_socket]
    /\ conn' = [conn EXCEPT ![new_socket] = "handshake"]
    /\ new_socket' = None
    /\ listener' = "poll"
    /\ UNCHANGED <<client, kernel, entry, listener_len, completed, cur_len,
                   acceptorVars, failed, histVars>>

\* There is no descriptor left: the request is dropped after all.
NoDescriptor ==
    /\ Alive /\ listener = "open"
    /\ 1 + Cardinality(Open) >= MAX_NUM_CONNECTIONS
    /\ listener_len' = cur_len
    /\ listener' = "undo"
    /\ UNCHANGED <<client, kernel, new_socket, entry, queueVars, conn, acceptorVars,
                   failed, histVars>>

UncountRequest ==
    /\ Alive /\ listener = "undo"
    /\ cur_len' = (listener_len - 1) % UIntMod
    /\ listener' = "poll"
    /\ UNCHANGED <<client, kernel, new_socket, entry, listener_len, slots, completed,
                   conn, acceptorVars, failed, histVars>>

Listener ==
    \/ PollExit \/ AcceptSocket \/ ReadPacket \/ DropSyn \/ FindSlot \/ CountRequest
    \/ OpenConnection \/ NoDescriptor \/ UncountRequest

-----------------------------------------------------------------------------
(* The transport thread of a connection.                                   *)

\* transport_init: the handshake ends, with the client's ACK or because the
\* client is gone, and the thread calls stcp_unblock_application.
Handshake(c) ==
    /\ Alive /\ conn[c] = "handshake"
    /\ conn' = [conn EXCEPT ![c] = "unblock"]
    /\ UNCHANGED <<client, kernel, listenerVars, queueVars, acceptorVars, failed,
                   histVars>>

\* Mutants of _mysock_passive_connection_complete: the connection goes to the
\* head of the completed queue; nobody is told of it.
CompleteAtHead(c) ==
    /\ Alive /\ conn[c] = "unblock" /\ ~WriteLocked /\ ~ConnectionLocked
    /\ \E k \in Slot : slots[k] = c /\ completed' = <<k>> \o completed
    /\ established' = Append(established, c)
    /\ conn' = [conn EXCEPT ![c] = "signal"]
    /\ UNCHANGED <<client, kernel, listenerVars, slots, cur_len, acceptorVars, failed,
                   accepted>>
CompleteQuietly(c) ==
    /\ Alive /\ conn[c] = "unblock" /\ ~WriteLocked /\ ~ConnectionLocked
    /\ \E k \in Slot : slots[k] = c /\ completed' = Append(completed, k)
    /\ established' = Append(established, c)
    /\ conn' = [conn EXCEPT ![c] = "running"]
    /\ UNCHANGED <<client, kernel, listenerVars, slots, cur_len, acceptorVars, failed,
                   accepted>>

\* _mysock_passive_connection_complete: the slot of the connection goes to the
\* tail of the completed queue ...
Complete(c) ==
    /\ Alive /\ conn[c] = "unblock" /\ ~WriteLocked /\ ~ConnectionLocked
    /\ \E k \in Slot : slots[k] = c /\ completed' = Append(completed, k)
    /\ established' = Append(established, c)
    /\ conn' = [conn EXCEPT ![c] = "signal"]
    /\ UNCHANGED <<client, kernel, listenerVars, slots, cur_len, acceptorVars, failed,
                   accepted>>

\* ... and, after connection_lock is released, myaccept is woken if it waits.
Signal(c) ==
    /\ Alive /\ conn[c] = "signal"
    /\ conn' = [conn EXCEPT ![c] = "running"]
    /\ acceptor' = IF acceptor = "asleep" THEN "woken" ELSE acceptor
    /\ UNCHANGED <<client, kernel, listenerVars, queueVars, acceptor_len, failed,
                   histVars>>

\* The connection the close of the listening mysocket is waiting for.
Closing == {c \in Client : \E k \in Slot :
                slots[k] = c /\ \A j \in 1 .. (k - 1) : slots[j] = None}

\* The transport thread ends when its mysocket is closed.
Finish(c) ==
    /\ Alive /\ conn[c] = "running" /\ acceptor = "closing" /\ c \in Closing
    /\ conn' = [conn EXCEPT ![c] = "exited"]
    /\ UNCHANGED <<client, kernel, listenerVars, queueVars, acceptorVars, failed,
                   histVars>>

Connection(c) == Handshake(c) \/ Complete(c) \/ Signal(c) \/ Finish(c)

-----------------------------------------------------------------------------
(* The application: myaccept and myclose.                                  *)

\* Mutant of DequeueConnection: the slot is not invalidated.
DequeueConnectionKeepsSlot ==
    /\ Alive /\ acceptor \in {"idle", "woken"} /\ completed # <<>>
    /\ completed' = Tail(completed)
    /\ accepted' = Append(accepted, slots[Head(completed)])
    /\ acceptor' = "taken"
    /\ UNCHANGED <<client, kernel, listenerVars, slots, cur_len, conn, acceptor_len,
                   failed, established>>

\* _mysock_dequeue_connection: wait for a completed connection ...
WaitForConnection ==
    /\ Alive /\ acceptor \in {"idle", "woken"} /\ completed = <<>>
    /\ acceptor' = "asleep"
    /\ UNCHANGED <<client, kernel, listenerVars, queueVars, conn, acceptor_len, failed,
                   histVars>>

\* ... take the first one and free its slot ...
DequeueConnection ==
    /\ Alive /\ acceptor \in {"idle", "woken"} /\ completed # <<>>
    /\ completed' = Tail(completed)
    /\ accepted' = Append(accepted, slots[Head(completed)])
    /\ slots' = [slots EXCEPT ![Head(completed)] = None]
    /\ acceptor' = "taken"
    /\ UNCHANGED <<client, kernel, listenerVars, cur_len, conn, acceptor_len, failed,
                   established>>

\* ... and count it out: assert(q->cur_len > 0) and --q->cur_len.
LoadLen ==
    /\ Alive /\ acceptor = "taken"
    /\ IF cur_len > 0
       THEN /\ acceptor_len' = cur_len
            /\ acceptor' = "count"
            /\ UNCHANGED failed
       ELSE /\ failed' = "cur_len"
            /\ UNCHANGED acceptorVars
    /\ UNCHANGED <<client, kernel, listenerVars, queueVars, conn, histVars>>

StoreLen ==
    /\ Alive /\ acceptor = "count"
    /\ cur_len' = (acceptor_len - 1) % UIntMod
    /\ acceptor' = "idle"
    /\ UNCHANGED <<client, kernel, listenerVars, slots, completed, conn, acceptor_len,
                   failed, histVars>>

\* do_connection of the server: an accepted connection is served and closed.
Serve(c) ==
    /\ Alive /\ acceptor = "idle" /\ conn[c] = "running"
    /\ \E i \in DOMAIN accepted : accepted[i] = c
    /\ conn' = [conn EXCEPT ![c] = "closed"]
    /\ UNCHANGED <<client, kernel, listenerVars, queueVars, acceptorVars, failed,
                   histVars>>

\* myclose of the listening mysocket: stop the receive thread ...
StopListening ==
    /\ Alive /\ acceptor = "idle"
    /\ acceptor' = "join"
    /\ UNCHANGED <<client, kernel, listenerVars, queueVars, conn, acceptor_len, failed,
                   histVars>>

\* ... and join it; then _mysock_close_passive_socket takes listen_lock
\* exclusive ...
LockQueue ==
    /\ Alive /\ acceptor = "join" /\ listener = "exited"
    /\ \A c \in Client : conn[c] # "signal"
    /\ acceptor' = "closing"
    /\ UNCHANGED <<client, kernel, listenerVars, queueVars, conn, acceptor_len, failed,
                   histVars>>

\* ... closes the queued connections one after the other, each when its
\* transport thread has ended ...
CloseQueued(c) ==
    /\ Alive /\ acceptor = "closing" /\ c \in Closing /\ conn[c] = "exited"
    /\ conn' = [conn EXCEPT ![c] = "closed"]
    /\ slots' = [k \in Slot |-> IF slots[k] = c THEN None ELSE slots[k]]
    /\ UNCHANGED <<client, kernel, listenerVars, completed, cur_len, acceptorVars,
                   failed, histVars>>

\* Mutant of FreeQueue: only the completed connections are closed.
FreeQueueEarly ==
    /\ Alive /\ acceptor = "closing"
    /\ \A i \in DOMAIN completed : slots[completed[i]] = None
    /\ completed' = <<>>
    /\ acceptor' = "closed"
    /\ UNCHANGED <<client, kernel, listenerVars, slots, cur_len, conn, acceptor_len,
                   failed, histVars>>

\* ... and frees the queue.
FreeQueue ==
    /\ Alive /\ acceptor = "closing"
    /\ \A k \in Slot : slots[k] = None
    /\ completed' = <<>>
    /\ acceptor' = "closed"
    /\ UNCHANGED <<client, kernel, listenerVars, slots, cur_len, conn, acceptor_len,
                   failed, histVars>>

myaccept == WaitForConnection \/ DequeueConnection \/ LoadLen \/ StoreLen
myclose == LockQueue \/ FreeQueue \/ \E c \in Client : CloseQueued(c)

-----------------------------------------------------------------------------
Next ==
    \/ Listener \/ myaccept \/ StopListening \/ myclose
    \/ \E c \in Client : Connect(c) \/ SendSyn(c) \/ Abort(c) \/ Connection(c) \/ Serve(c)

Spec == Init /\ [][Next]_vars

\* The threads run; a client that has connected sends its SYN or goes away.
\* Nothing obliges the application to close or a client to connect.
Fairness ==
    /\ WF_vars(Listener) /\ WF_vars(myaccept) /\ WF_vars(myclose)
    /\ \A c \in Client :
        WF_vars(SendSyn(c) \/ Abort(c)) /\ WF_vars(Connection(c)) /\ WF_vars(Serve(c))

FairSpec == Spec /\ Fairness

-----------------------------------------------------------------------------
(* Properties.                                                             *)

\* The type invariant.
TypeOK ==
    /\ client \in [Client -> ClientState]
    /\ kernel \in Seq(Client)
    /\ listener \in ListenerState /\ new_socket \in Client \cup {None}
    /\ entry \in Slot /\ listener_len \in UInt
    /\ slots \in [Slot -> Client \cup {None}]
    /\ completed \in Seq(Slot) /\ cur_len \in UInt
    /\ conn \in [Client -> ConnState]
    /\ acceptor \in AcceptorState /\ acceptor_len \in UInt
    /\ failed \in Assertion
    /\ established \in Seq(Client) /\ accepted \in Seq(Client)

\* The entries of the completed queue point to different slots, each of which
\* holds an established connection that myaccept has not returned: what
\* _mysock_dequeue_connection relies on when it follows r->request.
QueueSound ==
    acceptor \notin {"closing", "closed"} =>
        /\ \A i, j \in DOMAIN completed : completed[i] = completed[j] => i = j
        /\ \A k \in Slot : slots[k] # None =>
            /\ \A j \in Slot : slots[j] = slots[k] => j = k
            /\ conn[slots[k]] \notin {"none", "closed"}
            /\ conn[slots[k]] \in {"signal", "running"} <=>
                    \E i \in DOMAIN completed : completed[i] = k
        /\ \A i \in DOMAIN completed : slots[completed[i]] # None

\* myaccept returns every connection at most once, in the order in which they
\* were established, and none is lost in between.
AcceptedInOrder ==
    acceptor \notin {"closing", "closed"} =>
        established = accepted \o [i \in DOMAIN completed |-> slots[completed[i]]]

\* myaccept sleeps beside a completed connection only while the transport
\* thread that is to wake it has yet to signal: no wakeup is lost.
NoLostWakeup ==
    acceptor = "asleep" /\ completed # <<>> => \E c \in Client : conn[c] = "signal"

\* When the listening mysocket is gone no transport thread of a connection that
\* was not accepted is left to look for it (listen_sd).
ClosedCleanly ==
    acceptor = "closed" =>
        \A c \in Client : conn[c] \in {"none", "closed"}
                          \/ \E i \in DOMAIN accepted : accepted[i] = c

\* What makes the above inductive.  A client is in one place: its socket waits in
\* the kernel, is held as new_socket, or has become a connection.
Accepted(c) == \E i \in DOMAIN accepted : accepted[i] = c
Queued(c) == \E k \in Slot : slots[k] = c
SocketsInv ==
    /\ new_socket # None => conn[new_socket] = "none"
    /\ \A c \in Client : client[c] = "idle" => conn[c] = "none" /\ new_socket # c
    /\ \A i \in DOMAIN kernel : /\ conn[kernel[i]] = "none"
                                /\ kernel[i] # new_socket
                                /\ client[kernel[i]] # "idle"
    /\ \A i, j \in DOMAIN kernel : kernel[i] = kernel[j] => i = j

\* The receive thread has a socket while it serves one and a free slot from the
\* moment it has found it, and it is gone when the queue is taken down.
ListenerInv ==
    /\ listener \notin {"poll", "exited"} => new_socket # None
    /\ listener \in {"count", "open"} => slots[entry] = None
    /\ acceptor \in {"closing", "closed"} => listener = "exited"

\* A connection is in one slot until it is accepted.
SlotsInv ==
    /\ \A k \in Slot : slots[k] # None =>
            /\ conn[slots[k]] \notin {"none", "closed"}
            /\ ~Accepted(slots[k])
            /\ \A j \in Slot : slots[j] = slots[k] => j = k
    /\ \A c \in Client : conn[c] \notin {"none", "closed"} => Queued(c) \/ Accepted(c)
    /\ \A c \in Client : Accepted(c) => conn[c] # "none"
    /\ acceptor = "closed" => \A k \in Slot : slots[k] = None

\* The inductive invariant of the listening mysocket.
QueueInv ==
    /\ TypeOK /\ SocketsInv /\ ListenerInv /\ SlotsInv
    /\ QueueSound /\ AcceptedInOrder /\ NoLostWakeup

\* An established connection is eventually returned by myaccept, as long as the
\* application goes on calling it.
EstablishedIsAccepted ==
    \A c \in Client :
        conn[c] = "unblock" ~>
            \/ \E i \in DOMAIN accepted : accepted[i] = c
            \/ acceptor \in {"join", "closing", "closed"} \/ ~Alive

\* accept() is not called while the last accepted socket has no connection.
NewSocketFree == failed # "new_socket"

\* There is something to count out when a connection is dequeued.
CurLenPositive == failed # "cur_len"

\* The receive thread serves the listening socket until it is told to stop.
KeepsListening ==
    listener = "exited" => acceptor \in {"join", "closing", "closed"}

\* The close of the listening mysocket returns.
CloseReturns == (acceptor = "join") ~> (acceptor = "closed" \/ ~Alive)
=============================================================================
