------------------------- MODULE ListenQueueProofs -------------------------
(***************************************************************************)
(* Proofs about ListenQueue, for every number of clients, slots and        *)
(* descriptors: the queue of completed connections is sound, myaccept      *)
(* returns connections once and in order, no wakeup is lost, and a closed  *)
(* listening mysocket leaves no connection behind that was not accepted.   *)
(***************************************************************************)
EXTENDS ListenQueue, SequenceTheorems, TLAPS

\* The counter of requests stays an unsigned int, whatever it is stored over.
LEMMA CounterWraps ==
    ASSUME NEW n \in UInt
    PROVE  (n + 1) % UIntMod \in UInt /\ (n - 1) % UIntMod \in UInt
  BY ListenAssumption DEF UInt

\* mylisten leaves an empty queue.
LEMMA InitInv == Init => QueueInv
<1> SUFFICES ASSUME Init PROVE QueueInv
  OBVIOUS
<1>1. TypeOK
  BY ListenAssumption DEF Init, mylisten, TypeOK, Slot, UInt, ClientState, ListenerState,
     ConnState, AcceptorState, Assertion
<1>2. SocketsInv /\ ListenerInv
  BY ListenAssumption DEF Init, mylisten, SocketsInv, ListenerInv
<1>3. SlotsInv
  BY ListenAssumption DEF Init, mylisten, SlotsInv, Accepted, Queued
<1>4. QueueSound /\ NoLostWakeup
  BY DEF Init, mylisten, QueueSound, NoLostWakeup
<1>5. AcceptedInOrder
  BY DEF Init, mylisten, AcceptedInOrder
<1> QED
  BY <1>1, <1>2, <1>3, <1>4, <1>5 DEF QueueInv

-----------------------------------------------------------------------------
(* One lemma for each part of the invariant.                               *)

\* The types.  That myaccept returns a connection and not an empty slot takes the
\* queue of completed connections to be sound.
LEMMA TypeStep == QueueInv /\ [Next]_vars => TypeOK'
<1> SUFFICES ASSUME TypeOK, QueueSound, [Next]_vars PROVE TypeOK'
  BY DEF QueueInv
<1> USE DEF TypeOK, ClientState, ListenerState, ConnState, AcceptorState, Assertion
<1>1. ASSUME NEW c \in Client, Connect(c)
      PROVE  TypeOK'
  BY <1>1 DEF Connect, listenerVars, queueVars, acceptorVars, histVars
<1>2. ASSUME NEW c \in Client, SendSyn(c) \/ Abort(c)
      PROVE  TypeOK'
  BY <1>2 DEF SendSyn, Abort, listenerVars, queueVars, acceptorVars, histVars
<1>3. CASE AcceptSocket
  <2>1. Head(kernel) \in Client /\ Tail(kernel) \in Seq(Client)
    BY <1>3 DEF AcceptSocket
  <2> QED
    BY <1>3, <2>1 DEF AcceptSocket, queueVars, acceptorVars, histVars
<1>4. CASE PollExit \/ ReadPacket \/ DropSyn
  BY <1>4 DEF PollExit, ReadPacket, DropSyn, queueVars, acceptorVars, histVars
<1>5. CASE FindSlot \/ NoDescriptor
  BY <1>5 DEF FindSlot, NoDescriptor, queueVars, acceptorVars, histVars
<1>6. CASE CountRequest \/ UncountRequest
  BY <1>6, CounterWraps DEF CountRequest, UncountRequest, queueVars, acceptorVars, histVars
<1>7. CASE OpenConnection
  BY Zenon, <1>7 DEF OpenConnection, acceptorVars, histVars
<1>8. ASSUME NEW c \in Client, Handshake(c) \/ Signal(c) \/ Finish(c) \/ Serve(c)
      PROVE  TypeOK'
  BY ZenonT(30), <1>8 DEF Handshake, Signal, Finish, Serve, listenerVars, queueVars, acceptorVars, histVars
<1>9. ASSUME NEW c \in Client, Complete(c)
      PROVE  TypeOK'
  <2>1. completed' \in Seq(Slot) /\ established' \in Seq(Client)
    BY <1>9 DEF Complete
  <2> QED
    BY <1>9, <2>1 DEF Complete, listenerVars, acceptorVars
<1>10. CASE WaitForConnection \/ LoadLen
  BY <1>10 DEF WaitForConnection, LoadLen, listenerVars, queueVars, acceptorVars, histVars
<1>11. CASE DequeueConnection
  <2>1. Head(completed) \in Slot /\ Tail(completed) \in Seq(Slot)
    BY <1>11 DEF DequeueConnection
  <2>2. 1 \in DOMAIN completed /\ Head(completed) = completed[1]
    BY <1>11 DEF DequeueConnection
  <2>3. slots[Head(completed)] \in Client
    BY <1>11, <2>1, <2>2 DEF DequeueConnection, QueueSound
  <2> QED
    BY <1>11, <2>1, <2>3 DEF DequeueConnection, listenerVars
<1>12. CASE StoreLen
  BY <1>12, CounterWraps DEF StoreLen, listenerVars, histVars
<1>13. CASE StopListening \/ LockQueue
  BY <1>13 DEF StopListening, LockQueue, listenerVars, queueVars, histVars
<1>14. CASE FreeQueue
  BY <1>14 DEF FreeQueue, listenerVars, histVars
<1>15. ASSUME NEW c \in Client, CloseQueued(c)
      PROVE  TypeOK'
  BY <1>15 DEF CloseQueued, listenerVars, acceptorVars, histVars
<1>16. CASE UNCHANGED vars
  BY <1>16 DEF vars, listenerVars, queueVars, acceptorVars, histVars
<1> QED
  BY <1>1, <1>2, <1>3, <1>4, <1>5, <1>6, <1>7, <1>8, <1>9, <1>10, <1>11, <1>12, <1>13,
     <1>14, <1>15, <1>16
     DEF Next, Listener, Connection, myaccept, myclose

\* A connection that exists changes its state and stays one.
Moves(c) ==
    /\ conn[c] # "none"
    /\ \E x \in ConnState \ {"none"} : conn' = [conn EXCEPT ![c] = x]
    /\ UNCHANGED <<client, kernel, new_socket>>

\* The steps that move a connection.
LEMMA MovingSteps ==
    ASSUME NEW c \in Client, Connection(c) \/ Serve(c) \/ CloseQueued(c)
    PROVE  Moves(c)
  BY DEF Connection, Handshake, Complete, Signal, Finish, Serve, CloseQueued, Moves, ConnState,
     listenerVars

\* A client is in one place.
LEMMA SocketsStep == QueueInv /\ [Next]_vars => SocketsInv'
<1> SUFFICES ASSUME TypeOK, SocketsInv, ListenerInv, [Next]_vars PROVE SocketsInv'
  BY DEF QueueInv
<1> USE DEF SocketsInv
<1>1. CASE UNCHANGED <<client, kernel, conn, new_socket>>
  BY <1>1
<1>2. ASSUME NEW c \in Client, Connect(c)
      PROVE  SocketsInv'
  <2>1. /\ DOMAIN kernel' = 1 .. (Len(kernel) + 1) /\ kernel'[Len(kernel) + 1] = c
        /\ DOMAIN kernel = 1 .. Len(kernel) /\ Len(kernel) \in Nat
        /\ \A i \in 1 .. Len(kernel) : kernel'[i] = kernel[i] /\ kernel[i] \in Client
    BY <1>2 DEF Connect, TypeOK
  <2>2. \A i \in DOMAIN kernel' : i \in DOMAIN kernel \/ i = Len(kernel) + 1
    BY <2>1
  <2>3. /\ client[c] = "idle" /\ client' = [client EXCEPT ![c] = "connected"]
        /\ UNCHANGED <<conn, new_socket>>
    BY <1>2 DEF Connect, listenerVars
  <2>4. \A d \in Client : client'[d] = IF d = c THEN "connected" ELSE client[d]
    BY <2>3 DEF TypeOK
  <2>5. \A i \in DOMAIN kernel' : /\ conn[kernel'[i]] = "none"
                                  /\ kernel'[i] # new_socket
                                  /\ client'[kernel'[i]] # "idle"
    BY <2>1, <2>2, <2>3, <2>4
  <2>6. \A i \in DOMAIN kernel : kernel'[i] # c
    BY <2>1, <2>3
  <2>7. \A i, j \in DOMAIN kernel' : kernel'[i] = kernel'[j] => i = j
    BY <2>1, <2>2, <2>6
  <2> QED
    BY <2>3, <2>4, <2>5, <2>7
<1>3. ASSUME NEW c \in Client, SendSyn(c) \/ Abort(c)
      PROVE  SocketsInv'
  <2>1. \A d \in Client : client'[d] = "idle" <=> client[d] = "idle"
    BY <1>3 DEF SendSyn, Abort, TypeOK
  <2>2. UNCHANGED <<kernel, conn, new_socket>>
    BY <1>3 DEF SendSyn, Abort, listenerVars
  <2>3. \A i \in DOMAIN kernel : kernel[i] \in Client
    BY DEF TypeOK
  <2> QED
    BY <2>1, <2>2, <2>3
<1>4. CASE AcceptSocket
  <2>1. /\ DOMAIN kernel = 1 .. Len(kernel) /\ Len(kernel) \in Nat \ {0}
        /\ DOMAIN kernel' = 1 .. (Len(kernel) - 1)
        /\ \A i \in 1 .. (Len(kernel) - 1) : kernel'[i] = kernel[i + 1]
        /\ Head(kernel) = kernel[1]
        /\ \A i \in DOMAIN kernel : kernel[i] \in Client
    BY <1>4 DEF AcceptSocket, TypeOK
  <2>2. /\ new_socket' = new_socket \/ new_socket' = kernel[1]
        /\ UNCHANGED <<client, conn>>
    BY <1>4, <2>1 DEF AcceptSocket
  <2>3. \A i \in DOMAIN kernel' : i + 1 \in DOMAIN kernel /\ i + 1 # 1 /\ kernel'[i] = kernel[i + 1]
    BY <2>1
  <2>4. 1 \in DOMAIN kernel
    BY <2>1
  <2>5. \A i, j \in DOMAIN kernel' : i + 1 = j + 1 => i = j
    BY <2>1
  <2> QED
    BY <2>2, <2>3, <2>4, <2>5
<1>5. CASE OpenConnection
  <2>1. /\ new_socket \in Client /\ new_socket' = None /\ UNCHANGED <<client, kernel>>
        /\ \A d \in Client : conn'[d] = IF d = new_socket THEN "handshake" ELSE conn[d]
    BY <1>5 DEF OpenConnection, ListenerInv, TypeOK
  <2>2. \A i \in DOMAIN kernel : kernel[i] \in Client
    BY DEF TypeOK
  <2> QED
    BY <2>1, <2>2, ListenAssumption
<1>6. ASSUME NEW c \in Client, Moves(c)
      PROVE  SocketsInv'
  <2>1. \A d \in Client : conn[d] = "none" => conn'[d] = "none"
    BY <1>6 DEF Moves, TypeOK
  <2>2. \A i \in DOMAIN kernel : kernel[i] \in Client
    BY DEF TypeOK
  <2>3. new_socket \in Client \cup {None}
    BY DEF TypeOK
  <2> QED
    BY <1>6, <2>1, <2>2, <2>3 DEF Moves
<1>7. CASE PollExit \/ ReadPacket \/ DropSyn \/ FindSlot \/ CountRequest \/ NoDescriptor
           \/ UncountRequest \/ myaccept \/ StopListening \/ LockQueue \/ FreeQueue
  BY <1>1, <1>7 DEF PollExit, ReadPacket, DropSyn, FindSlot, CountRequest, NoDescriptor,
     UncountRequest, myaccept, WaitForConnection, DequeueConnection, LoadLen, StoreLen,
     StopListening, LockQueue, FreeQueue, listenerVars
<1>8. CASE UNCHANGED vars
  BY <1>1, <1>8 DEF vars, listenerVars
<1> QED
  BY <1>2, <1>3, <1>4, <1>5, <1>6, <1>7, <1>8, MovingSteps DEF Next, Listener, myclose

\* The steps of the receive thread that neither take nor give a socket or a slot.
LEMMA ListenerStep == QueueInv /\ [Next]_vars => ListenerInv'
<1> SUFFICES ASSUME TypeOK, ListenerInv, [Next]_vars PROVE ListenerInv'
  BY DEF QueueInv
<1> USE DEF ListenerInv
<1>1. CASE /\ UNCHANGED <<listener, new_socket, entry>>
           /\ \A k \in Slot : slots[k] = None => slots'[k] = None
           /\ acceptor' \in {"closing", "closed"} => listener = "exited"
  BY <1>1 DEF TypeOK
<1>2. CASE PollExit \/ ReadPacket \/ DropSyn
  BY <1>2 DEF PollExit, ReadPacket, DropSyn, queueVars, acceptorVars
<1>3. CASE AcceptSocket
  <2>1. Head(kernel) \in Client
    BY <1>3 DEF AcceptSocket, TypeOK
  <2> QED
    BY <1>3, <2>1, ListenAssumption DEF AcceptSocket, queueVars, acceptorVars
<1>4. CASE FindSlot
  BY <1>4 DEF FindSlot, queueVars, acceptorVars
<1>5. CASE CountRequest \/ NoDescriptor \/ UncountRequest
  BY <1>5 DEF CountRequest, NoDescriptor, UncountRequest, queueVars, acceptorVars
<1>6. CASE OpenConnection
  BY <1>6 DEF OpenConnection, acceptorVars
<1>7. ASSUME NEW c \in Client, Connect(c) \/ SendSyn(c) \/ Abort(c) \/ Handshake(c)
                               \/ Complete(c) \/ Signal(c) \/ Finish(c) \/ Serve(c)
      PROVE  ListenerInv'
  BY <1>1, <1>7 DEF Connect, SendSyn, Abort, Handshake, Complete, Signal, Finish, Serve,
     listenerVars, queueVars, acceptorVars
<1>8. CASE WaitForConnection \/ LoadLen \/ StoreLen \/ StopListening \/ LockQueue \/ FreeQueue
  BY <1>1, <1>8 DEF WaitForConnection, LoadLen, StoreLen, StopListening, LockQueue, FreeQueue,
     listenerVars, queueVars, acceptorVars
<1>9. CASE DequeueConnection
  <2>1. \A k \in Slot : slots[k] = None => slots'[k] = None
    BY <1>9 DEF DequeueConnection, TypeOK
  <2> QED
    BY <1>1, <1>9, <2>1 DEF DequeueConnection, listenerVars
<1>10. ASSUME NEW c \in Client, CloseQueued(c)
      PROVE  ListenerInv'
  BY <1>1, <1>10 DEF CloseQueued, listenerVars, acceptorVars
<1>11. CASE UNCHANGED vars
  BY <1>1, <1>11 DEF vars, listenerVars, queueVars, acceptorVars
<1> QED
  BY <1>2, <1>3, <1>4, <1>5, <1>6, <1>7, <1>8, <1>9, <1>10, <1>11
     DEF Next, Listener, Connection, myaccept, myclose

\* A connection is in one slot until it is accepted.
LEMMA SlotsStep == QueueInv /\ [Next]_vars => SlotsInv'
<1> SUFFICES ASSUME QueueInv, [Next]_vars PROVE SlotsInv'
  OBVIOUS
<1> USE DEF SlotsInv, Accepted, Queued
<1>0. /\ slots \in [Slot -> Client \cup {None}] /\ conn \in [Client -> ConnState]
      /\ SlotsInv /\ accepted \in Seq(Client)
  BY DEF QueueInv, TypeOK
<1>1. CASE UNCHANGED <<slots, accepted, conn>> /\ acceptor' # "closed"
  BY <1>0, <1>1
<1>2. CASE UNCHANGED <<slots, accepted, conn, acceptor>>
  BY <1>0, <1>2
<1>3. CASE OpenConnection
  <2>1. /\ new_socket \in Client /\ conn[new_socket] = "none" /\ acceptor # "closed"
        /\ slots[entry] = None /\ entry \in Slot
    BY <1>3 DEF OpenConnection, QueueInv, TypeOK, ListenerInv, SocketsInv
  <2>2. /\ \A k \in Slot : slots'[k] = IF k = entry THEN new_socket ELSE slots[k]
        /\ \A c \in Client : conn'[c] = IF c = new_socket THEN "handshake" ELSE conn[c]
        /\ UNCHANGED <<accepted, acceptor>>
    BY <1>0, <1>3, <2>1 DEF OpenConnection, acceptorVars, histVars
  <2>3. ~Accepted(new_socket) /\ \A k \in Slot : slots[k] # new_socket
    BY <1>0, <2>1, ListenAssumption
  <2>4. \A k \in Slot : slots'[k] # None =>
            /\ conn'[slots'[k]] \notin {"none", "closed"}
            /\ ~Accepted(slots[k])'
            /\ \A j \in Slot : slots'[j] = slots'[k] => j = k
    BY <1>0, <2>1, <2>2, <2>3
  <2>5. \A c \in Client : conn'[c] \notin {"none", "closed"} => Queued(c)' \/ Accepted(c)'
    BY <1>0, <2>1, <2>2, ListenAssumption
  <2> QED
    BY <1>0, <2>1, <2>2, <2>4, <2>5
<1>4. ASSUME NEW c \in Client, Handshake(c) \/ Complete(c) \/ Signal(c) \/ Finish(c)
      PROVE  SlotsInv'
  <2>1. /\ conn[c] \notin {"none", "closed"} /\ UNCHANGED <<slots, accepted>>
        /\ \E x \in ConnState \ {"none", "closed"} : conn' = [conn EXCEPT ![c] = x]
        /\ acceptor' = "closed" <=> acceptor = "closed"
    BY <1>4 DEF Handshake, Complete, Signal, Finish, queueVars, acceptorVars, histVars, ConnState
  <2>2. \A d \in Client : /\ conn'[d] \in {"none", "closed"} <=> conn[d] \in {"none", "closed"}
                          /\ conn'[d] = "none" <=> conn[d] = "none"
    BY <1>0, <2>1
  <2> QED
    BY <1>0, <2>1, <2>2
<1>5. ASSUME NEW c \in Client, Serve(c)
      PROVE  SlotsInv'
  <2>1. /\ Accepted(c) /\ UNCHANGED <<slots, accepted, acceptor>>
        /\ \A d \in Client : conn'[d] = IF d = c THEN "closed" ELSE conn[d]
    BY <1>0, <1>5 DEF Serve, queueVars, acceptorVars, histVars
  <2>2. \A k \in Slot : slots[k] # c
    BY <1>0, <2>1, ListenAssumption
  <2> QED
    BY <1>0, <2>1, <2>2
<1>6. CASE DequeueConnection
  <2> DEFINE h == Head(completed)
  <2>1. completed \in Seq(Slot) /\ completed # <<>> /\ QueueSound
        /\ acceptor \in {"idle", "woken"} /\ acceptor' = "taken"
    BY <1>6 DEF DequeueConnection, QueueInv, TypeOK
  <2>2. h \in Slot /\ 1 \in DOMAIN completed /\ h = completed[1]
    BY <2>1
  <2>3. slots[h] # None
    BY <2>1, <2>2 DEF QueueSound
  <2>4. /\ \A k \in Slot : slots'[k] = IF k = h THEN None ELSE slots[k]
        /\ accepted' = Append(accepted, slots[h]) /\ UNCHANGED conn
    BY <1>0, <1>6, <2>2 DEF DequeueConnection
  <2>5. \A c \in Client : Accepted(c)' <=> Accepted(c) \/ c = slots[h]
    <3>1. /\ Len(accepted) \in Nat /\ DOMAIN accepted = 1 .. Len(accepted)
          /\ DOMAIN accepted' = 1 .. (Len(accepted) + 1)
          /\ \A i \in 1 .. Len(accepted) : accepted'[i] = accepted[i]
          /\ accepted'[Len(accepted) + 1] = slots[h]
      BY <1>0, <2>2, <2>3, <2>4
    <3>2. \A i \in DOMAIN accepted' : i \in DOMAIN accepted \/ i = Len(accepted) + 1
      BY <3>1
    <3>3. /\ \A i \in DOMAIN accepted : i \in DOMAIN accepted'
          /\ Len(accepted) + 1 \in DOMAIN accepted'
      BY <3>1
    <3> QED
      BY <3>1, <3>2, <3>3
  <2>6. slots[h] \in Client /\ conn[slots[h]] # "none"
    BY <1>0, <2>2, <2>3
  <2>7. \A k \in Slot : slots'[k] # None =>
            /\ conn[slots'[k]] \notin {"none", "closed"}
            /\ ~Accepted(slots[k])'
            /\ \A j \in Slot : slots'[j] = slots'[k] => j = k
    BY <1>0, <2>2, <2>3, <2>4, <2>5
  <2>8. \A c \in Client : conn[c] \notin {"none", "closed"} => Queued(c)' \/ Accepted(c)'
    BY <1>0, <2>2, <2>4, <2>5
  <2>9. \A c \in Client : Accepted(c)' => conn[c] # "none"
    BY <1>0, <2>5, <2>6
  <2> QED
    BY <2>1, <2>4, <2>7, <2>8, <2>9
<1>7. ASSUME NEW c \in Client, CloseQueued(c)
      PROVE  SlotsInv'
  <2>1. /\ \A k \in Slot : slots'[k] = IF slots[k] = c THEN None ELSE slots[k]
        /\ \A d \in Client : conn'[d] = IF d = c THEN "closed" ELSE conn[d]
        /\ UNCHANGED <<accepted, acceptor>> /\ acceptor = "closing"
    BY <1>0, <1>7 DEF CloseQueued, acceptorVars, histVars
  <2> QED
    BY <1>0, <2>1
<1>8. CASE FreeQueue
  BY <1>0, <1>8 DEF FreeQueue, histVars
<1>9. ASSUME NEW c \in Client, Connect(c) \/ SendSyn(c) \/ Abort(c)
      PROVE  SlotsInv'
  BY <1>2, <1>9 DEF Connect, SendSyn, Abort, queueVars, acceptorVars, histVars
<1>10. CASE PollExit \/ AcceptSocket \/ ReadPacket \/ DropSyn \/ FindSlot \/ CountRequest
           \/ NoDescriptor \/ UncountRequest
  BY <1>2, <1>10 DEF PollExit, AcceptSocket, ReadPacket, DropSyn, FindSlot, CountRequest,
     NoDescriptor, UncountRequest, queueVars, acceptorVars, histVars
<1>11. CASE WaitForConnection \/ LoadLen \/ StoreLen \/ StopListening \/ LockQueue
  <2>1. UNCHANGED <<slots, accepted, conn>> /\ acceptor' # "closed"
    BY <1>11 DEF WaitForConnection, LoadLen, StoreLen, StopListening, LockQueue, queueVars,
       acceptorVars, histVars
  <2> QED
    BY <1>1, <2>1
<1>12. CASE UNCHANGED vars
  BY <1>2, <1>12 DEF vars, queueVars, acceptorVars, histVars
<1> QED
  BY <1>3, <1>4, <1>5, <1>6, <1>7, <1>8, <1>9, <1>10, <1>11, <1>12
     DEF Next, Listener, Connection, myaccept, myclose

\* The queue is used until the listening mysocket is closed, and not again.
Used == acceptor \notin {"closing", "closed"}

LEMMA UsedBefore == [Next]_vars /\ Used' => Used
<1> SUFFICES ASSUME [Next]_vars, Used' PROVE Used
  OBVIOUS
<1> USE DEF Used, acceptorVars
<1>1. CASE Listener
  BY <1>1 DEF Listener, PollExit, AcceptSocket, ReadPacket, DropSyn, FindSlot, CountRequest,
     OpenConnection, NoDescriptor, UncountRequest
<1>2. CASE myaccept \/ StopListening
  BY <1>2 DEF myaccept, WaitForConnection, DequeueConnection, LoadLen, StoreLen, StopListening
<1>3. CASE LockQueue \/ FreeQueue
  BY <1>3 DEF LockQueue, FreeQueue
<1>4. ASSUME NEW c \in Client, Connect(c) \/ SendSyn(c) \/ Abort(c) \/ Serve(c) \/ CloseQueued(c)
      PROVE  Used
  BY <1>4 DEF Connect, SendSyn, Abort, Serve, CloseQueued
<1>5. ASSUME NEW c \in Client, Connection(c)
      PROVE  Used
  BY <1>5 DEF Connection, Handshake, Complete, Signal, Finish
<1>6. CASE UNCHANGED vars
  BY <1>6 DEF vars
<1> QED
  BY <1>1, <1>2, <1>3, <1>4, <1>5, <1>6 DEF Next, myclose

\* The completed queue, place by place, when a connection is appended ...
LEMMA CompletedGrows ==
    ASSUME TypeOK, NEW k \in Slot, completed' = Append(completed, k)
    PROVE  /\ Len(completed) \in Nat
           /\ DOMAIN completed = 1 .. Len(completed)
           /\ DOMAIN completed' = 1 .. (Len(completed) + 1)
           /\ \A i \in DOMAIN completed : completed'[i] = completed[i]
           /\ completed'[Len(completed) + 1] = k
           /\ \A i \in DOMAIN completed : completed[i] \in Slot
  BY DEF TypeOK

\* ... and when the first one is taken.
LEMMA CompletedShrinks ==
    ASSUME TypeOK, completed # <<>>, completed' = Tail(completed)
    PROVE  /\ Len(completed) \in Nat \ {0}
           /\ DOMAIN completed = 1 .. Len(completed)
           /\ DOMAIN completed' = 1 .. (Len(completed) - 1)
           /\ \A i \in DOMAIN completed' : completed'[i] = completed[i + 1]
           /\ \A i \in DOMAIN completed : completed[i] \in Slot
           /\ Head(completed) = completed[1]
  BY DEF TypeOK

\* Every slot of the completed queue holds one established connection.
LEMMA SoundStep == QueueInv /\ [Next]_vars => QueueSound'
<1> SUFFICES ASSUME QueueInv, [Next]_vars, Used, Used' PROVE QueueSound'
  BY UsedBefore DEF QueueSound, Used
<1>0. /\ TypeOK /\ SlotsInv /\ None \notin Client
      /\ slots \in [Slot -> Client \cup {None}] /\ conn \in [Client -> ConnState]
      /\ \A i \in DOMAIN completed : completed[i] \in Slot
  BY ListenAssumption DEF QueueInv, TypeOK
<1>s. /\ \A i, j \in DOMAIN completed : completed[i] = completed[j] => i = j
      /\ \A k \in Slot : slots[k] # None =>
            /\ \A j \in Slot : slots[j] = slots[k] => j = k
            /\ conn[slots[k]] \notin {"none", "closed"}
            /\ conn[slots[k]] \in {"signal", "running"} <=>
                    \E i \in DOMAIN completed : completed[i] = k
      /\ \A i \in DOMAIN completed : slots[completed[i]] # None
  BY DEF QueueInv, QueueSound, Used
<1>1. CASE UNCHANGED <<slots, completed, conn>>
  BY <1>1, <1>s DEF QueueSound
<1>2. CASE OpenConnection
  <2>1. /\ new_socket \in Client /\ conn[new_socket] = "none"
        /\ slots[entry] = None /\ entry \in Slot
    BY <1>2 DEF OpenConnection, QueueInv, TypeOK, ListenerInv, SocketsInv
  <2>2. /\ \A k \in Slot : slots'[k] = IF k = entry THEN new_socket ELSE slots[k]
        /\ \A c \in Client : conn'[c] = IF c = new_socket THEN "handshake" ELSE conn[c]
        /\ UNCHANGED completed
    BY <1>0, <1>2, <2>1 DEF OpenConnection
  <2>3. /\ \A k \in Slot : slots[k] # new_socket
        /\ \A i \in DOMAIN completed : completed[i] # entry
    BY <1>0, <1>s, <2>1
  <2>4. \A k \in Slot : slots'[k] # None =>
            /\ \A j \in Slot : slots'[j] = slots'[k] => j = k
            /\ conn'[slots'[k]] \notin {"none", "closed"}
            /\ conn'[slots'[k]] \in {"signal", "running"} <=>
                    \E i \in DOMAIN completed : completed[i] = k
    <3> SUFFICES ASSUME NEW k \in Slot, slots'[k] # None
                 PROVE  /\ \A j \in Slot : slots'[j] = slots'[k] => j = k
                        /\ conn'[slots'[k]] \notin {"none", "closed"}
                        /\ conn'[slots'[k]] \in {"signal", "running"} <=>
                                \E i \in DOMAIN completed : completed[i] = k
      OBVIOUS
    <3>1. CASE k = entry
      BY <3>1, <2>1, <2>2, <2>3
    <3>2. CASE k # entry
      BY <3>2, <1>0, <1>s, <2>1, <2>2, <2>3
    <3> QED
      BY <3>1, <3>2
  <2> QED
    BY <1>0, <1>s, <2>1, <2>2, <2>3, <2>4 DEF QueueSound
<1>3. ASSUME NEW c \in Client, Handshake(c) \/ Signal(c)
      PROVE  QueueSound'
  <2>1. /\ UNCHANGED <<slots, completed>> /\ conn[c] \notin {"none", "closed"}
        /\ conn'[c] \notin {"none", "closed"}
        /\ conn'[c] \in {"signal", "running"} <=> conn[c] \in {"signal", "running"}
        /\ \A d \in Client : d # c => conn'[d] = conn[d]
    BY <1>0, <1>3 DEF Handshake, Signal, queueVars
  <2> QED
    BY <1>0, <1>s, <2>1 DEF QueueSound
<1>4. ASSUME NEW c \in Client, Complete(c)
      PROVE  QueueSound'
  <2>1. PICK k \in Slot : slots[k] = c /\ completed' = Append(completed, k)
    BY <1>4 DEF Complete
  <2>2. /\ conn[c] = "unblock" /\ UNCHANGED slots /\ conn'[c] = "signal"
        /\ \A d \in Client : d # c => conn'[d] = conn[d]
    BY <1>0, <1>4 DEF Complete
  <2> DEFINE n == Len(completed)
  <2>3. /\ n \in Nat /\ DOMAIN completed = 1 .. n /\ DOMAIN completed' = 1 .. (n + 1)
        /\ \A i \in DOMAIN completed : completed'[i] = completed[i]
        /\ completed'[n + 1] = k
    BY <1>0, <2>1, CompletedGrows
  <2>4. \A i \in DOMAIN completed : completed[i] # k
    BY <1>0, <1>s, <2>1, <2>2
  <2>5. /\ n + 1 \in DOMAIN completed'
        /\ \A i \in DOMAIN completed : i \in DOMAIN completed'
        /\ \A i \in DOMAIN completed' : i \in DOMAIN completed \/ i = n + 1
    BY <2>3
  <2> HIDE DEF n
  <2>6. \A i, j \in DOMAIN completed' : completed'[i] = completed'[j] => i = j
    BY <1>s, <2>3, <2>4, <2>5
  <2>7. \A i \in DOMAIN completed' : slots'[completed'[i]] # None
    BY <1>0, <1>s, <2>1, <2>2, <2>3, <2>5
  <2>8. \A m \in Slot : (\E i \in DOMAIN completed' : completed'[i] = m)
                          <=> m = k \/ \E i \in DOMAIN completed : completed[i] = m
    BY <2>3, <2>5
  <2>9. \A m \in Slot : slots[m] # None => slots[m] \in Client /\ (slots[m] = c <=> m = k)
    BY <1>0, <1>s, <2>1
  <2> QED
    BY <1>0, <1>s, <2>1, <2>2, <2>6, <2>7, <2>8, <2>9 DEF QueueSound
<1>5. ASSUME NEW c \in Client, Serve(c)
      PROVE  QueueSound'
  <2>1. /\ Accepted(c) /\ UNCHANGED <<slots, completed>>
        /\ \A d \in Client : d # c => conn'[d] = conn[d]
    BY <1>0, <1>5 DEF Serve, queueVars, Accepted
  <2>2. \A k \in Slot : slots[k] # None => slots[k] \in Client /\ slots[k] # c
    BY <1>0, <2>1 DEF SlotsInv
  <2> QED
    BY <1>0, <1>s, <2>1, <2>2 DEF QueueSound
<1>6. CASE DequeueConnection
  <2> DEFINE n == Len(completed)
             h == completed[1]
  <2>1. /\ n \in Nat \ {0} /\ DOMAIN completed = 1 .. n /\ DOMAIN completed' = 1 .. (n - 1)
        /\ \A i \in DOMAIN completed' : completed'[i] = completed[i + 1]
        /\ Head(completed) = h
    BY <1>0, <1>6, CompletedShrinks DEF DequeueConnection
  <2>2. h \in Slot /\ 1 \in DOMAIN completed
    BY <1>0, <2>1
  <2>3. /\ \A k \in Slot : slots'[k] = IF k = h THEN None ELSE slots[k]
        /\ UNCHANGED conn
    BY <1>0, <1>6, <2>1, <2>2 DEF DequeueConnection
  <2>4. \A i \in DOMAIN completed' : i + 1 \in DOMAIN completed /\ i + 1 # 1
    BY <2>1
  <2>5. \A i \in DOMAIN completed : i = 1 \/ (i - 1 \in DOMAIN completed' /\ (i - 1) + 1 = i)
    BY <2>1
  <2>6. \A i, j \in DOMAIN completed' : completed'[i] = completed'[j] => i = j
    <3> SUFFICES ASSUME NEW i \in DOMAIN completed', NEW j \in DOMAIN completed',
                        completed'[i] = completed'[j]
                 PROVE  i = j
      OBVIOUS
    <3>1. i + 1 = j + 1
      BY <1>s, <2>1, <2>4
    <3> QED
      BY <2>1, <3>1
  <2>7. \A i \in DOMAIN completed' : completed'[i] \in Slot /\ completed'[i] # h
    BY <1>0, <1>s, <2>1, <2>2, <2>4
  <2>8. \A i \in DOMAIN completed' : slots'[completed'[i]] # None
    BY <1>s, <2>1, <2>3, <2>4, <2>7
  <2>9. \A k \in Slot : k # h => ((\E i \in DOMAIN completed' : completed'[i] = k)
                                  <=> \E i \in DOMAIN completed : completed[i] = k)
    BY <2>1, <2>4, <2>5
  <2> HIDE DEF n, h
  <2> QED
    BY <1>0, <1>s, <2>2, <2>3, <2>6, <2>8, <2>9 DEF QueueSound
<1>7. ASSUME NEW c \in Client, Connect(c) \/ SendSyn(c) \/ Abort(c)
      PROVE  QueueSound'
  BY <1>1, <1>7 DEF Connect, SendSyn, Abort, queueVars
<1>8. CASE PollExit \/ AcceptSocket \/ ReadPacket \/ DropSyn \/ FindSlot \/ CountRequest
           \/ NoDescriptor \/ UncountRequest \/ WaitForConnection \/ LoadLen \/ StoreLen
           \/ StopListening
  BY <1>1, <1>8 DEF PollExit, AcceptSocket, ReadPacket, DropSyn, FindSlot, CountRequest,
     NoDescriptor, UncountRequest, WaitForConnection, LoadLen, StoreLen, StopListening,
     queueVars
<1>9. ASSUME NEW c \in Client, Finish(c) \/ CloseQueued(c) PROVE QueueSound'
  BY <1>9 DEF Finish, CloseQueued, Used
<1>10. CASE LockQueue \/ FreeQueue
  BY <1>10 DEF LockQueue, FreeQueue, Used
<1>11. CASE UNCHANGED vars
  BY <1>1, <1>11 DEF vars, queueVars
<1> QED
  BY <1>2, <1>3, <1>4, <1>5, <1>6, <1>7, <1>8, <1>9, <1>10, <1>11
     DEF Next, Listener, Connection, myaccept, myclose

\* The completed connections, and what myaccept has returned, place by place.
InOrder ==
    /\ Len(established) = Len(accepted) + Len(completed)
    /\ \A i \in 1 .. Len(accepted) : established[i] = accepted[i]
    /\ \A i \in 1 .. Len(completed) : established[Len(accepted) + i] = slots[completed[i]]

LEMMA OrderByPlace ==
    ASSUME NEW e \in Seq(Client), NEW a \in Seq(Client), NEW q \in Seq(Client)
    PROVE  e = a \o q <=> /\ Len(e) = Len(a) + Len(q)
                          /\ \A i \in 1 .. Len(a) : e[i] = a[i]
                          /\ \A i \in 1 .. Len(q) : e[Len(a) + i] = q[i]
<1>1. Len(a) \in Nat /\ Len(q) \in Nat
  OBVIOUS
<1>2. /\ a \o q \in Seq(Client) /\ Len(a \o q) = Len(a) + Len(q)
      /\ \A i \in 1 .. Len(a) : (a \o q)[i] = a[i]
      /\ \A i \in 1 .. Len(q) : (a \o q)[Len(a) + i] = q[i]
  <2>1. a \o q \in Seq(Client) /\ Len(a \o q) = Len(a) + Len(q)
    OBVIOUS
  <2>2. \A i \in 1 .. Len(a) : (a \o q)[i] = a[i]
    OBVIOUS
  <2>3. \A i \in 1 .. Len(q) : (a \o q)[Len(a) + i] = q[i]
    OBVIOUS
  <2> QED BY Zenon, <2>1, <2>2, <2>3
<1>3. ASSUME Len(e) = Len(a) + Len(q),
             \A i \in 1 .. Len(a) : e[i] = a[i],
             \A i \in 1 .. Len(q) : e[Len(a) + i] = q[i]
      PROVE  e = a \o q
  <2>1. ASSUME NEW i \in 1 .. Len(e) PROVE e[i] = (a \o q)[i]
    <3>1. i \in 1 .. Len(a) \/ (i - Len(a) \in 1 .. Len(q) /\ Len(a) + (i - Len(a)) = i)
      BY <1>1, <1>3
    <3>2. CASE i \in 1 .. Len(a)
      BY <1>2, <1>3, <3>2
    <3>3. CASE i - Len(a) \in 1 .. Len(q) /\ Len(a) + (i - Len(a)) = i
      <4> DEFINE j == i - Len(a)
      <4>1. e[Len(a) + j] = q[j] /\ (a \o q)[Len(a) + j] = q[j]
        BY <1>2, <1>3, <3>3
      <4> QED
        BY <3>3, <4>1
    <3> QED
      BY <3>1, <3>2, <3>3
  <2> QED
    BY <1>2, <1>3, <2>1, SeqEqual
<1> QED
  BY Zenon, <1>2, <1>3

LEMMA CompletedSockets ==
    ASSUME NEW c \in Seq(Slot), NEW s, \A i \in DOMAIN c : s[c[i]] \in Client
    PROVE  LET q == [i \in DOMAIN c |-> s[c[i]]]
           IN  /\ q \in Seq(Client) /\ Len(q) = Len(c)
               /\ \A i \in 1 .. Len(c) : q[i] = s[c[i]]
<1>1. Len(c) \in Nat /\ DOMAIN c = 1 .. Len(c)
  OBVIOUS
<1> QED
  BY <1>1

\* myaccept returns the connections in the order they were established.
LEMMA OrderStep == QueueInv /\ [Next]_vars => AcceptedInOrder'
<1> SUFFICES ASSUME QueueInv, [Next]_vars, Used, Used' PROVE AcceptedInOrder'
  BY UsedBefore DEF AcceptedInOrder, Used
<1>0. /\ TypeOK /\ TypeOK' /\ QueueSound /\ QueueSound'
      /\ slots \in [Slot -> Client \cup {None}]
      /\ \A i \in DOMAIN completed : completed[i] \in Slot
  BY TypeStep, SoundStep DEF QueueInv, TypeOK
<1>1. /\ \A i \in DOMAIN completed : slots[completed[i]] \in Client
      /\ \A i \in DOMAIN completed' : slots'[completed'[i]] \in Client
  <2>1. \A i \in DOMAIN completed : slots[completed[i]] \in Client
    BY <1>0 DEF QueueSound, Used
  <2>2. /\ slots' \in [Slot -> Client \cup {None}]
        /\ \A i \in DOMAIN completed' : completed'[i] \in Slot
    BY <1>0 DEF TypeOK
  <2>3. \A i \in DOMAIN completed' : slots'[completed'[i]] \in Client
    BY <1>0, <2>2 DEF QueueSound, Used
  <2> QED BY Zenon, <2>1, <2>3
<1>t. /\ completed \in Seq(Slot) /\ accepted \in Seq(Client) /\ established \in Seq(Client)
      /\ completed' \in Seq(Slot) /\ accepted' \in Seq(Client) /\ established' \in Seq(Client)
  BY <1>0 DEF TypeOK
<1>2. InOrder
  <2>1. PICK q \in Seq(Client) :
            /\ q = [i \in DOMAIN completed |-> slots[completed[i]]]
            /\ Len(q) = Len(completed)
            /\ \A i \in 1 .. Len(completed) : q[i] = slots[completed[i]]
    BY Zenon, <1>1, <1>t, CompletedSockets
  <2>2. established = accepted \o q
    BY <2>1 DEF QueueInv, AcceptedInOrder, Used
  <2>3. /\ Len(established) = Len(accepted) + Len(q)
        /\ \A i \in 1 .. Len(accepted) : established[i] = accepted[i]
        /\ \A i \in 1 .. Len(q) : established[Len(accepted) + i] = q[i]
    BY ONLY <1>t, <2>2, q \in Seq(Client), OrderByPlace
  <2> QED
    BY Zenon, <2>1, <2>3 DEF InOrder
<1>3. SUFFICES InOrder'
  <2>1. PICK q \in Seq(Client) :
            /\ q = [i \in DOMAIN completed' |-> slots'[completed'[i]]]
            /\ Len(q) = Len(completed')
            /\ \A i \in 1 .. Len(completed') : q[i] = slots'[completed'[i]]
    BY Zenon, <1>1, <1>t, CompletedSockets
  <2>2. established' = accepted' \o q
    <3>1. /\ Len(established') = Len(accepted') + Len(q)
          /\ \A i \in 1 .. Len(accepted') : established'[i] = accepted'[i]
          /\ \A i \in 1 .. Len(q) : established'[Len(accepted') + i] = q[i]
      BY Zenon, <1>3, <2>1 DEF InOrder
    <3> QED
      BY ONLY ZenonT(30), <1>t, <3>1, q \in Seq(Client), OrderByPlace
  <2> QED
    BY <2>1, <2>2 DEF AcceptedInOrder
<1>n. /\ Len(completed) \in Nat /\ DOMAIN completed = 1 .. Len(completed)
      /\ Len(accepted) \in Nat /\ accepted \in Seq(Client)
      /\ Len(established) \in Nat /\ established \in Seq(Client)
  BY <1>0 DEF TypeOK
<1>4. CASE UNCHANGED <<established, accepted, completed, slots>>
  BY <1>2, <1>4 DEF InOrder
<1>5. CASE OpenConnection
  <2>1. /\ new_socket \in Client /\ slots[entry] = None /\ entry \in Slot
    BY <1>5 DEF OpenConnection, QueueInv, TypeOK, ListenerInv
  <2>2. /\ \A k \in Slot : k # entry => slots'[k] = slots[k]
        /\ UNCHANGED <<completed, accepted, established>>
    BY <1>0, <1>5, <2>1 DEF OpenConnection, histVars
  <2>3. \A i \in DOMAIN completed : slots'[completed[i]] = slots[completed[i]]
    BY <1>0, <1>1, <2>1, <2>2, ListenAssumption
  <2> QED
    BY <1>2, <1>n, <2>2, <2>3 DEF InOrder
<1>6. ASSUME NEW c \in Client, Complete(c) PROVE InOrder'
  <2>1. PICK k \in Slot : slots[k] = c /\ completed' = Append(completed, k)
    BY <1>6 DEF Complete
  <2>2. /\ established' = Append(established, c) /\ UNCHANGED <<slots, accepted>>
    BY <1>6 DEF Complete
  <2> DEFINE m == Len(accepted)
             n == Len(completed)
  <2>3. /\ Len(completed') = n + 1
        /\ \A i \in 1 .. n : completed'[i] = completed[i]
        /\ completed'[n + 1] = k
    BY <1>0, <2>1 DEF TypeOK
  <2>4. /\ Len(established') = Len(established) + 1
        /\ \A i \in 1 .. Len(established) : established'[i] = established[i]
        /\ established'[Len(established) + 1] = c
    BY <1>n, <2>2
  <2>5. Len(established) = m + n
    BY <1>2 DEF InOrder
  <2>6. \A i \in 1 .. m : established'[i] = accepted[i]
    BY <1>2, <1>n, <2>4, <2>5 DEF InOrder
  <2>7. ASSUME NEW i \in 1 .. (n + 1) PROVE established'[m + i] = slots[completed'[i]]
    <3>1. CASE i \in 1 .. n
      <4>1. m + i \in 1 .. Len(established)
        BY <1>n, <2>5, <3>1
      <4> QED
        BY <1>2, <2>3, <2>4, <3>1, <4>1 DEF InOrder
    <3>2. CASE i = n + 1
      <4>1. m + i = Len(established) + 1
        BY <1>n, <2>5, <3>2
      <4> QED
        BY <2>1, <2>3, <2>4, <3>2, <4>1
    <3> QED
      BY <1>n, <3>1, <3>2
  <2>8. Len(established') = m + (n + 1)
    BY <1>n, <2>4, <2>5
  <2> QED
    BY <2>2, <2>3, <2>6, <2>7, <2>8 DEF InOrder
<1>7. CASE DequeueConnection
  <2> DEFINE m == Len(accepted)
             n == Len(completed)
             h == completed[1]
  <2>1. /\ n \in Nat \ {0} /\ DOMAIN completed = 1 .. n /\ DOMAIN completed' = 1 .. (n - 1)
        /\ \A i \in DOMAIN completed' : completed'[i] = completed[i + 1]
        /\ Head(completed) = h
    BY <1>0, <1>7, CompletedShrinks DEF DequeueConnection
  <2>2. Len(completed') = n - 1
    BY <1>0, <2>1, <1>7 DEF TypeOK, DequeueConnection
  <2>3. 1 \in DOMAIN completed /\ h \in Slot /\ slots[h] \in Client
    BY <1>0, <1>1, <2>1
  <2>4. /\ \A k \in Slot : k # h => slots'[k] = slots[k]
        /\ accepted' = Append(accepted, slots[h]) /\ UNCHANGED established
    BY <1>0, <1>7, <2>1, <2>3 DEF DequeueConnection
  <2>5. /\ Len(accepted') = m + 1
        /\ \A i \in 1 .. m : accepted'[i] = accepted[i]
        /\ accepted'[m + 1] = slots[h]
    BY <1>n, <2>3, <2>4
  <2>6. \A i \in DOMAIN completed' : /\ i + 1 \in DOMAIN completed /\ i + 1 # 1
                                     /\ (m + 1) + i = m + (i + 1)
    BY <1>n, <2>1
  <2>7. \A i \in DOMAIN completed' : completed'[i] \in Slot /\ completed'[i] # h
    BY <1>0, <2>1, <2>3, <2>6 DEF QueueSound, Used
  <2>8. \A i \in DOMAIN completed' : established[(m + 1) + i] = slots'[completed'[i]]
    <3> SUFFICES ASSUME NEW i \in DOMAIN completed'
                 PROVE  established[(m + 1) + i] = slots'[completed'[i]]
      OBVIOUS
    <3>1. established[m + (i + 1)] = slots[completed[i + 1]]
      BY <1>2, <2>1, <2>6 DEF InOrder
    <3> QED
      BY <2>1, <2>4, <2>6, <2>7, <3>1
  <2>9. \A i \in 1 .. (m + 1) : established[i] = accepted'[i]
    <3>1. established[m + 1] = slots[h]
      BY <1>2, <2>1, <2>3 DEF InOrder
    <3>2. \A i \in 1 .. (m + 1) : i \in 1 .. m \/ i = m + 1
      BY <1>n
    <3> QED
      BY <1>2, <2>5, <3>1, <3>2 DEF InOrder
  <2>10. Len(established) = (m + 1) + (n - 1)
    BY <1>2, <1>n DEF InOrder
  <2> QED
    BY Zenon, <2>1, <2>2, <2>4, <2>5, <2>8, <2>9, <2>10 DEF InOrder
<1>8. ASSUME NEW c \in Client, Connect(c) \/ SendSyn(c) \/ Abort(c) \/ Handshake(c) \/ Signal(c)
                               \/ Serve(c)
      PROVE  InOrder'
  BY <1>4, <1>8 DEF Connect, SendSyn, Abort, Handshake, Signal, Serve, queueVars, histVars
<1>9. CASE PollExit \/ AcceptSocket \/ ReadPacket \/ DropSyn \/ FindSlot \/ CountRequest
           \/ NoDescriptor \/ UncountRequest \/ WaitForConnection \/ LoadLen \/ StoreLen
           \/ StopListening
  BY <1>4, <1>9 DEF PollExit, AcceptSocket, ReadPacket, DropSyn, FindSlot, CountRequest,
     NoDescriptor, UncountRequest, WaitForConnection, LoadLen, StoreLen, StopListening,
     queueVars, histVars
<1>10. ASSUME NEW c \in Client, Finish(c) \/ CloseQueued(c) PROVE InOrder'
  BY <1>10 DEF Finish, CloseQueued, Used
<1>11. CASE LockQueue \/ FreeQueue
  BY <1>11 DEF LockQueue, FreeQueue, Used
<1>12. CASE UNCHANGED vars
  BY <1>4, <1>12 DEF vars, queueVars, histVars
<1> QED
  BY <1>5, <1>6, <1>7, <1>8, <1>9, <1>10, <1>11, <1>12
     DEF Next, Listener, Connection, myaccept, myclose

\* A sleeping myaccept is woken by the signal that follows every completion.
LEMMA WakeupStep == QueueInv /\ [Next]_vars => NoLostWakeup'
<1> SUFFICES ASSUME QueueInv, [Next]_vars PROVE NoLostWakeup'
  OBVIOUS
<1>0. NoLostWakeup /\ conn \in [Client -> ConnState]
  BY DEF QueueInv, TypeOK
<1>1. CASE acceptor' # "asleep" \/ completed' = <<>>
  BY <1>1 DEF NoLostWakeup
<1>2. CASE /\ UNCHANGED <<acceptor, completed>>
           /\ \A c \in Client : conn[c] = "signal" => conn'[c] = "signal"
  BY <1>0, <1>2 DEF NoLostWakeup
<1>3. ASSUME NEW c \in Client, Handshake(c) \/ Serve(c) \/ Finish(c) \/ CloseQueued(c)
      PROVE  NoLostWakeup'
  <2>1. /\ UNCHANGED <<acceptor, completed>> /\ conn[c] # "signal"
        /\ \A d \in Client : d # c => conn'[d] = conn[d]
    BY <1>0, <1>3 DEF Handshake, Serve, Finish, CloseQueued, queueVars, acceptorVars
  <2> QED
    BY <1>2, <2>1
<1>4. ASSUME NEW c \in Client, Complete(c)
      PROVE  NoLostWakeup'
  <2>1. conn'[c] = "signal"
    BY <1>0, <1>4 DEF Complete
  <2> QED
    BY <2>1 DEF NoLostWakeup
<1>5. ASSUME NEW c \in Client, Signal(c)
      PROVE  NoLostWakeup'
  BY <1>1, <1>5 DEF Signal
<1>6. CASE OpenConnection
  <2>1. new_socket \in Client /\ conn[new_socket] = "none"
    BY <1>6 DEF OpenConnection, QueueInv, TypeOK, ListenerInv, SocketsInv
  <2> QED
    BY <1>0, <1>2, <1>6, <2>1 DEF OpenConnection, acceptorVars
<1>7. CASE WaitForConnection
  BY <1>1, <1>7 DEF WaitForConnection, queueVars
<1>8. CASE DequeueConnection \/ StoreLen \/ StopListening \/ LockQueue \/ FreeQueue
  BY <1>1, <1>8 DEF DequeueConnection, StoreLen, StopListening, LockQueue, FreeQueue
<1>9. CASE LoadLen
  BY <1>1, <1>9 DEF LoadLen, acceptorVars
<1>10. ASSUME NEW c \in Client, Connect(c) \/ SendSyn(c) \/ Abort(c)
      PROVE  NoLostWakeup'
  BY <1>2, <1>10 DEF Connect, SendSyn, Abort, queueVars, acceptorVars
<1>11. CASE PollExit \/ AcceptSocket \/ ReadPacket \/ DropSyn \/ FindSlot \/ CountRequest
           \/ NoDescriptor \/ UncountRequest
  BY <1>2, <1>11 DEF PollExit, AcceptSocket, ReadPacket, DropSyn, FindSlot, CountRequest,
     NoDescriptor, UncountRequest, queueVars, acceptorVars
<1>12. CASE UNCHANGED vars
  BY <1>2, <1>12 DEF vars, queueVars, acceptorVars
<1> QED
  BY <1>3, <1>4, <1>5, <1>6, <1>7, <1>8, <1>9, <1>10, <1>11, <1>12
     DEF Next, Listener, Connection, myaccept, myclose

-----------------------------------------------------------------------------
\* QueueInv holds in every state of the listening mysocket, whatever the number of
\* clients, the backlog, the descriptors and the width of cur_len.
THEOREM QueueInvariance == Spec => []QueueInv
<1>1. Init => QueueInv
  BY InitInv
<1>2. QueueInv /\ [Next]_vars => QueueInv'
  BY TypeStep, SocketsStep, ListenerStep, SlotsStep, SoundStep, OrderStep, WakeupStep
     DEF QueueInv
<1> QED
  BY <1>1, <1>2, PTL DEF Spec

\* The slots of the completed queue are distinct and hold exactly the established
\* connections that wait for myaccept, although the receive thread fills slots
\* without connection_lock.
THEOREM QueueIsSound == Spec => []QueueSound
<1>1. QueueInv => QueueSound
  BY DEF QueueInv
<1> QED
  BY <1>1, QueueInvariance, PTL

\* myaccept returns every established connection at most once and in the order of
\* their establishment (_mysock_dequeue_connection).
THEOREM AcceptsInOrder == Spec => []AcceptedInOrder
<1>1. QueueInv => AcceptedInOrder
  BY DEF QueueInv
<1> QED
  BY <1>1, QueueInvariance, PTL

\* myaccept never sleeps on a completed connection that nobody is going to signal,
\* although the signal is sent after connection_lock is released.
THEOREM WakeupNotLost == Spec => []NoLostWakeup
<1>1. QueueInv => NoLostWakeup
  BY DEF QueueInv
<1> QED
  BY <1>1, QueueInvariance, PTL

\* When myclose of the listening mysocket has freed the queue, every connection was
\* accepted or is closed (_mysock_close_passive_socket).
THEOREM ClosesCleanly == Spec => []ClosedCleanly
<1>1. QueueInv => ClosedCleanly
  BY ListenAssumption DEF QueueInv, SlotsInv, ClosedCleanly, Accepted, Queued
<1> QED
  BY <1>1, QueueInvariance, PTL
=============================================================================
