-------------------------- MODULE TransportProofs --------------------------
(***************************************************************************)
(* Theorems about the two versions of the transport layer, for every value *)
(* of their constants: the stream of bytes is kept in order and ends where *)
(* the writer closed, and the connection implements ByteStream; and        *)
(* transport1.c keeps to its window, and, unless a process is killed, only *)
(* fails an assertion when there is nothing left to deliver.               *)
(***************************************************************************)
EXTENDS Transport, Transport1, MysockProofs, Transport1Proofs

-----------------------------------------------------------------------------
(* With the inductive invariant StreamInv, a step of Mysock is a Write, a  *)
(* Read, a ReadEof or a Close of ByteStream, or changes nothing there.     *)

\* The ends whose application may still write.
Opened == {e \in End : app[e] \in {"blocked", "open"}}

\* A step that no application sees.
LEMMA Unseen ==
    ASSUME UNCHANGED <<app, written, read, eof>>
    PROVE  [Stream!Next]_(Stream!vars)
BY DEF Stream!vars

\* A step that ends the process at e, or takes it past its last call.
LEMMA CloseStep ==
    ASSUME TypeOK, NEW e \in End, NEW a, a \notin {"blocked", "open"},
           app' = [app EXCEPT ![e] = a], UNCHANGED <<written, read, eof>>
    PROVE  [Stream!Next]_(Stream!vars)
<1>1. CASE app[e] \in {"blocked", "open"}
  <2>1. e \in Opened /\ Opened' = Opened \ {e}
    <3>1. app'[e] = a /\ \A f \in End : f # e => app'[f] = app[f]
      BY DEF TypeOK
    <3> QED BY Zenon, <1>1, <3>1 DEF Opened
  <2>2. Stream!Close(e)
    BY <2>1 DEF Stream!Close, Opened
  <2> QED BY <2>2 DEF Stream!Next, Stream!End, End
<1>2. CASE app[e] \notin {"blocked", "open"}
  <2>1. Opened' = Opened
    BY <1>2 DEF Opened, TypeOK
  <2> QED BY <2>1 DEF Stream!vars, Opened
<1> QED BY <1>1, <1>2

\* An assertion fails in the process at e.
LEMMA AbortIsClose ==
    ASSUME TypeOK, NEW e \in End, Abort(e)
    PROVE  [Stream!Next]_(Stream!vars)
BY Zenon, CloseStep DEF Abort

\* myconnect or myaccept returns: the application could have written before.
LEMMA OpenStep ==
    ASSUME TypeOK, NEW e \in End, app[e] = "blocked",
           app' = [app EXCEPT ![e] = "open"], UNCHANGED <<written, read, eof>>
    PROVE  [Stream!Next]_(Stream!vars)
<1>1. Opened' = Opened
  BY DEF Opened, TypeOK
<1> QED BY Zenon, <1>1 DEF Stream!vars, Opened

\* mywrite adds to the stream.
LEMMA WriteStep ==
    ASSUME StreamInv, NEW e \in End, NEW n \in WriteSizes, mywrite(e, n)
    PROVE  [Stream!Next]_(Stream!vars)
<1>1. e \in Opened /\ Opened' = Opened
  BY DEF mywrite, Opened
<1>2. Stream!Write(e)
  BY Zenon, <1>1 DEF Stream!Write, Opened, mywrite
<1> QED BY <1>2 DEF Stream!Next, Stream!End, End

\* myread takes the next bytes of the stream, and never more than were written;
\* or it tells the application that the stream has ended.
LEMMA ReadStep ==
    ASSUME StreamInv, StreamInv', NEW e \in End, NEW n \in ReadSizes, myread(e, n)
    PROVE  [Stream!Next]_(Stream!vars)
<1>p. PICK p \in End : p = Peer(e) /\ p # e /\ Stream!Peer(e) = p
  BY Peers DEF Peer, Stream!Peer
<1>g. /\ app[e] = "open" /\ ~eof[e] /\ app_send_queue[e] # <<>> /\ ~Gone(e)
      /\ UNCHANGED <<app, written>>
  BY DEF myread, Gone
<1>l. PICK l \in Nat : /\ l = DequeueLen(app_send_queue[e], n)
                       /\ read' = [read EXCEPT ![e] = read[e] + l]
                       /\ eof' = [eof EXCEPT ![e] = (l = 0)]
  <2>1. /\ app_send_queue[e] \in Seq(Runs) /\ n \in Int
        /\ Chain(app_send_queue[e], read[e], delivered[e])
        /\ read[e] \in Nat /\ delivered[e] \in Nat
    BY <1>g, Types, MysockAssumption DEF StreamInv, StreamAt, InOrderAt
  <2>2. DequeueLen(app_send_queue[e], n) \in Nat
    BY Zenon, <1>g, <2>1, DequeueFacts
  <2> QED BY Zenon, <2>2 DEF myread
<1>t. /\ read[e] \in Nat /\ written[p] \in Nat
      /\ read'[e] = read[e] + l /\ (eof'[e] <=> l = 0)
  BY ZenonT(30), <1>l, Types DEF StreamInv, TypeOK
<1>o. e \in Opened /\ Opened' = Opened
  BY Zenon, <1>g DEF Opened
<1>1. CASE l = 0
  <2>1. EofComplete'
    BY StreamInvEof, PTL
  <2>2. app[p] \notin {"blocked", "open"} /\ read[e] = written[p]
    BY <1>1, <1>g, <1>p, <1>t, <2>1 DEF EofComplete
  <2>3. read' = read /\ eof' = [eof EXCEPT ![e] = TRUE]
    <3>1. read[e] + l = read[e] /\ (l = 0) = TRUE
      BY <1>1, <1>t
    <3>2. read \in [End -> Nat]
      BY DEF StreamInv, TypeOK
    <3>3. read' = [read EXCEPT ![e] = read[e]]
      BY Zenon, <1>l, <3>1
    <3>4. eof' = [eof EXCEPT ![e] = TRUE]
      BY ZenonT(30), <1>l, <3>1
    <3> QED BY Zenon, <3>2, <3>3, <3>4
  <2>4. Stream!ReadEof(e)
    BY Zenon, <1>g, <1>o, <1>p, <2>2, <2>3 DEF Stream!ReadEof, Opened
  <2> QED BY Zenon, <2>4 DEF Stream!Next, Stream!End, End
<1>2. CASE l > 0
  <2>1. read'[e] <= written[p]
    <3>1. InOrderAt(e)' /\ ~Gone(e)' /\ TypeOK'
      BY Zenon, <1>g DEF StreamInv, StreamAt, Gone
    <3>2. /\ Chain(app_send_queue'[e], read'[e], delivered'[e])
          /\ Chain(network_recv_queue'[e], delivered'[e], arrived'[e])
          /\ Chain(wire'[e], arrived'[e], payload'[p].lo)
          /\ payload'[p].lo <= payload'[p].hi /\ payload'[p].hi <= written[p]
      BY Zenon, <1>g, <1>p, <3>1 DEF InOrderAt
    <3>3. /\ app_send_queue'[e] \in Seq(Runs) /\ network_recv_queue'[e] \in Seq(Packets)
          /\ wire'[e] \in Seq(Packets)
          /\ read'[e] \in Nat /\ delivered'[e] \in Nat /\ arrived'[e] \in Nat
          /\ payload'[p].lo \in Nat /\ payload'[p].hi \in Nat
      BY <3>1 DEF TypeOK, Runs
    <3>4. read'[e] <= delivered'[e]
      BY Zenon, <3>2, <3>3, ChainBounds, RunTypes
    <3>5. delivered'[e] <= arrived'[e]
      BY <3>2, <3>3, ChainBounds, PacketTypes
    <3>6. arrived'[e] <= payload'[p].lo
      BY <3>2, <3>3, ChainBounds, PacketTypes
    <3>7. arrived'[e] <= payload'[p].hi
      BY <3>2, <3>3, <3>6
    <3>8. read'[e] <= payload'[p].hi
      BY <3>3, <3>4, <3>5, <3>7
    <3>9. written[p] \in Nat
      BY <1>t
    <3> QED BY <3>2, <3>3, <3>8, <3>9
  <2>2. l \in 1 .. (written[p] - read[e])
    BY <1>2, <1>t, <2>1
  <2>3. eof' = eof
    <3>1. (l = 0) = FALSE
      BY <1>2
    <3>2. eof' = [eof EXCEPT ![e] = FALSE]
      BY Zenon, <1>l, <3>1
    <3>3. eof \in [End -> BOOLEAN] /\ eof[e] = FALSE
      BY Zenon, <1>g DEF StreamInv, TypeOK
    <3> QED BY Zenon, <3>2, <3>3
  <2>4. Stream!Read(e)
    BY Zenon, <1>g, <1>l, <1>o, <1>p, <2>2, <2>3 DEF Stream!Read, Opened
  <2> QED BY Zenon, <2>4 DEF Stream!Next, Stream!End, End
<1> QED BY <1>1, <1>2, <1>l

\* A step of the applications or of the receive threads.
LEMMA EnvironmentStep ==
    ASSUME StreamInv, StreamInv', NEW e \in End, Environment(e)
    PROVE  [Stream!Next]_(Stream!vars)
<1>t. TypeOK
  BY DEF StreamInv
<1>1. CASE \E n \in WriteSizes : mywrite(e, n)
  BY Zenon, <1>1, WriteStep
<1>2. CASE \E n \in ReadSizes : myread(e, n)
  BY Zenon, <1>2, ReadStep
<1>3. CASE myclose(e)
  BY Zenon, <1>3, <1>t, CloseStep DEF myclose
<1>4. CASE myclose_return(e)
  BY Zenon, <1>4, <1>t, CloseStep DEF myclose_return
<1>5. CASE Crash(e)
  BY Zenon, <1>5, <1>t, CloseStep DEF Crash
<1>6. CASE RecvPacket(e) \/ RecvEof(e)
  BY Zenon, <1>6, Unseen DEF RecvPacket, RecvEof, appVars
<1>7. CASE RecvReset(e)
  BY Zenon, <1>7, <1>t, AbortIsClose DEF RecvReset
<1> QED BY Zenon, <1>1, <1>2, <1>3, <1>4, <1>5, <1>6, <1>7 DEF Environment, RecvThread

\* A step of the handshake.
LEMMA HandshakeStep ==
    ASSUME StreamInv, NEW e \in End, Handshake(e)
    PROVE  [Stream!Next]_(Stream!vars)
<1>t. TypeOK
  BY DEF StreamInv
<1>1. CASE SendSyn(e)
  BY Zenon, <1>1, Unseen DEF SendSyn, appVars
<1>2. CASE RecvSyn(e)
  BY Zenon, <1>2, Unseen DEF RecvSyn, appVars
<1>3. CASE RecvSynAck(e)
  <2>1. app[e] = "blocked"
    BY Zenon, <1>3 DEF RecvSynAck, StreamInv, StreamAt, EventsBacked
  <2>2. /\ app' = [app EXCEPT ![e] = "open"] \/ app' = [app EXCEPT ![e] = "killed"]
        /\ UNCHANGED <<written, read, eof>>
    BY Zenon, <1>3 DEF RecvSynAck
  <2> QED BY Zenon, <1>t, <2>1, <2>2, OpenStep, CloseStep
<1>4. CASE RecvHandshakeAck(e)
  <2>1. app[e] = "blocked"
    BY Zenon, <1>4 DEF RecvHandshakeAck, StreamInv, StreamAt, EventsBacked
  <2> QED BY Zenon, <1>4, <1>t, <2>1, OpenStep DEF RecvHandshakeAck
<1> QED BY Zenon, <1>1, <1>2, <1>3, <1>4 DEF Handshake

\* A step of control_loop on a packet; a failed assertion ends the process.
LEMMA NetworkDataStep ==
    ASSUME StreamInv, NEW e \in End, NetworkData(e)
    PROVE  [Stream!Next]_(Stream!vars)
<1>t. TypeOK
  BY DEF StreamInv
<1>1. CASE RecvACK(e) \/ RecvFIN(e) \/ RecvDATA(e)
  BY Zenon, <1>1, Unseen DEF RecvACK, RecvFIN, RecvDATA, appVars
<1>2. CASE RecvError(e)
  BY Zenon, <1>2, <1>t, AbortIsClose DEF RecvError
<1> QED BY Zenon, <1>1, <1>2 DEF NetworkData

\* The other steps of control_loop.
LEMMA LoopStep ==
    ASSUME NEW e \in End,
           \/ stcp_wait_for_event(e) \/ (\E ev \in Events : Skip(e, ev)) \/ AppRecv(e)
           \/ SendSegment(e) \/ SendFails(e) \/ CloseRequested(e) \/ TransportReturn(e)
    PROVE  [Stream!Next]_(Stream!vars)
<1>1. UNCHANGED <<app, written, read, eof>>
  BY DEF stcp_wait_for_event, Skip, AppRecv, SendSegment, SendFails, CloseRequested,
         TransportReturn, appVars
<1> QED BY Zenon, <1>1, Unseen

\* The connection as created.
LEMMA InitStep ==
    ASSUME MysockInit
    PROVE  Stream!Init
BY DEF MysockInit, Stream!Init, Stream!End, End

-----------------------------------------------------------------------------
(* The steps of both versions.                                             *)

\* The branches of the two control loops preserve StreamInv.
LEMMA LoopInv ==
    ASSUME StreamInv, NEW e \in End,
           \/ stcp_wait_for_event(e) /\ current_sender_window' \in [End -> Int]
           \/ InLoop(e) /\ "APP_DATA" \in event[e] /\ AppRecv(e)
           \/ InLoop(e) /\ Overrun(e)
           \/ \E ev \in Events : Skip(e, ev)
           \/ SendSegment(e)
           \/ SendFails(e)
           \/ InLoop(e) /\ "NETWORK_DATA" \in event[e] /\ NetworkData(e)
           \/ InLoop(e) /\ event[e] = {"APP_CLOSE_REQUESTED"} /\ CloseRequested(e)
           \/ TransportReturn(e)
    PROVE  StreamInv'
  BY Zenon, stcp_wait_for_eventInv, AppRecvInv, SkipInv, SendSegmentInv, SendFailsInv,
     NetworkDataInv, CloseRequestedInv, TransportReturnInv, AbortsInv

-----------------------------------------------------------------------------
(* transport.c.                                                            *)

\* Every step of the connection, whoever takes it, preserves StreamInv.
LEMMA NextInv ==
    ASSUME StreamInv, [Next]_vars
    PROVE  StreamInv'
<1>1. CASE UNCHANGED vars
  BY Zenon, <1>1, StutterInv
<1>2. CASE Next
  <2>1. PICK e \in End : Environment(e) \/ TransportThread(e)
    BY <1>2 DEF Next
  <2>2. CASE Environment(e)
    BY Zenon, <2>2, EnvironmentInv
  <2>3. CASE transport_init(e)
    BY Zenon, <2>3, HandshakeInv DEF transport_init
  <2>4. CASE control_loop(e)
    <3>1. CASE stcp_wait_for_event(e) /\ UNCHANGED current_sender_window
      <4>1. current_sender_window' \in [End -> Int]
        BY Zenon, <3>1 DEF StreamInv, TypeOK
      <4> QED BY ZenonT(30), <3>1, <4>1, LoopInv
    <3> QED BY ZenonT(30), <2>4, <3>1, LoopInv DEF control_loop, Events
  <2> QED BY Zenon, <2>1, <2>2, <2>3, <2>4 DEF TransportThread
<1> QED BY Zenon, <1>1, <1>2

\* Every step is, for the applications, a step of their byte streams or none.
LEMMA NextStep ==
    ASSUME StreamInv, StreamInv', [Next]_vars
    PROVE  [Stream!Next]_(Stream!vars)
<1>1. CASE UNCHANGED vars
  BY Zenon, <1>1, Unseen DEF vars, appVars
<1>2. CASE Next
  <2>1. PICK e \in End : Environment(e) \/ TransportThread(e)
    BY Zenon, <1>2 DEF Next
  <2>2. CASE Environment(e)
    BY Zenon, <2>2, EnvironmentStep
  <2>3. CASE transport_init(e)
    BY Zenon, <2>3, HandshakeStep DEF transport_init
  <2>4. CASE control_loop(e)
    <3>1. CASE NetworkData(e)
      BY Zenon, <3>1, NetworkDataStep
    <3>2. CASE \/ stcp_wait_for_event(e) \/ (\E ev \in Events : Skip(e, ev)) \/ AppRecv(e)
               \/ SendSegment(e) \/ SendFails(e) \/ CloseRequested(e) \/ TransportReturn(e)
      BY Zenon, <3>2, LoopStep
    <3>3. CASE Overrun(e)
      BY Zenon, <3>3, AbortIsClose DEF Overrun, StreamInv
    <3> QED BY Zenon, <2>4, <3>1, <3>2, <3>3 DEF control_loop, Events
  <2> QED BY Zenon, <2>1, <2>2, <2>3, <2>4 DEF TransportThread
<1> QED BY Zenon, <1>1, <1>2

\* The inductive invariant of transport.c: the queues hold the stream, the handshake
\* takes no data, events in hand have a cause, and ends come behind the data.
THEOREM StreamInvariance == Spec => []StreamInv
<1>1. Init => StreamInv
  <2> SUFFICES ASSUME Init PROVE StreamInv
    OBVIOUS
  <2>1. /\ MysockInit /\ connection_state \in [End -> {"ESTABLISHED", "SYN_SENT"}]
        /\ current_sender_window \in [End -> Int]
    BY Zenon, GarbageAssumption DEF Init
  <2> QED BY Zenon, <2>1, InitInv
<1>2. StreamInv /\ [Next]_vars => StreamInv'
  BY NextInv
<1> QED BY <1>1, <1>2, PTL DEF Spec

\* The contexts and queues keep their types.
THEOREM TypeCorrect == Spec => []TypeOK
<1>1. StreamInv => TypeOK
  BY Zenon DEF StreamInv
<1> QED BY <1>1, StreamInvariance, PTL

\* Between mywrite at one end and myread at the other, transport.c loses, repeats and
\* reorders nothing, whatever the threads, the close and a crash do.
THEOREM StreamInOrder == Spec => []InOrder
<1>1. StreamInv => InOrder
  BY Zenon DEF StreamInv, StreamAt, InOrder
<1> QED BY <1>1, StreamInvariance, PTL

\* myread reports EOF only behind the last byte the peer wrote before myclose.
THEOREM EofIsComplete == Spec => []EofComplete
<1>1. StreamInv => EofComplete
  BY StreamInvEof
<1> QED BY <1>1, StreamInvariance, PTL

\* A connection run by transport.c implements the two byte streams of ByteStream.
THEOREM Refinement == Spec => ImplementsByteStream
<1>1. Init => Stream!Init
  BY InitStep DEF Init
<1>2. StreamInv /\ StreamInv' /\ [Next]_vars => [Stream!Next]_(Stream!vars)
  BY Zenon, NextStep
<1> QED BY <1>1, <1>2, StreamInvariance, PTL DEF Spec, Stream!Spec, ImplementsByteStream

-----------------------------------------------------------------------------
(* transport1.c.                                                           *)

\* Every step of the connection, whoever takes it, preserves StreamInv.
LEMMA NextInv1 ==
    ASSUME StreamInv, [Next1]_vars
    PROVE  StreamInv'
<1>1. CASE UNCHANGED vars
  BY <1>1, StutterInv
<1>2. CASE Next1
  <2>1. PICK e \in End : Environment(e) \/ TransportThread1(e)
    BY <1>2 DEF Next1
  <2>2. CASE Environment(e)
    BY <2>2, EnvironmentInv
  <2>3. CASE transport_init1(e)
    BY <2>3, HandshakeInv DEF transport_init1
  <2>4. CASE control_loop1(e)
    <3>1. CASE /\ stcp_wait_for_event(e)
               /\ current_sender_window' = [current_sender_window EXCEPT
                                              ![e] = SenderWindow(e)]
      <4>1. current_sender_window' \in [End -> Int]
        <5>1. current_sequence_num[e] - ack_num[e] \in Int
          BY MysockAssumption DEF StreamInv, TypeOK, Seqs
        <5>2. SenderWindow(e) \in Int
          BY <5>1, MysockAssumption DEF SenderWindow, Unacked
        <5> QED BY Zenon, <3>1, <5>2 DEF StreamInv, TypeOK
      <4> QED BY ZenonT(30), <3>1, <4>1, LoopInv
    <3> QED BY ZenonT(30), <2>4, <3>1, LoopInv DEF control_loop1, Events
  <2> QED BY <2>1, <2>2, <2>3, <2>4 DEF TransportThread1
<1> QED BY <1>1, <1>2

\* Every step is, for the applications, a step of their byte streams or none.
LEMMA NextStep1 ==
    ASSUME StreamInv, StreamInv', [Next1]_vars
    PROVE  [Stream!Next]_(Stream!vars)
<1>1. CASE UNCHANGED vars
  BY <1>1, Unseen DEF vars, appVars
<1>2. CASE Next1
  <2>1. PICK e \in End : Environment(e) \/ TransportThread1(e)
    BY <1>2 DEF Next1
  <2>2. CASE Environment(e)
    BY <2>2, EnvironmentStep
  <2>3. CASE transport_init1(e)
    BY <2>3, HandshakeStep DEF transport_init1
  <2>4. CASE control_loop1(e)
    <3>1. CASE NetworkData(e)
      BY <3>1, NetworkDataStep
    <3>2. CASE \/ stcp_wait_for_event(e) \/ (\E ev \in Events : Skip(e, ev)) \/ AppRecv(e)
               \/ SendSegment(e) \/ SendFails(e) \/ CloseRequested(e) \/ TransportReturn(e)
      BY <3>2, LoopStep
    <3> QED BY Zenon, <2>4, <3>1, <3>2 DEF control_loop1, Events
  <2> QED BY <2>1, <2>2, <2>3, <2>4 DEF TransportThread1
<1> QED BY <1>1, <1>2

\* The inductive invariant of transport1.c: the queues hold the stream, the handshake
\* takes no data, events in hand have a cause, and ends come behind the data.
THEOREM StreamInvariance1 == Spec1 => []StreamInv
<1>1. Init1 => StreamInv
  <2> SUFFICES ASSUME Init1 PROVE StreamInv
    OBVIOUS
  <2>1. /\ MysockInit /\ connection_state \in [End -> {"ESTABLISHED", "SYN_SENT"}]
        /\ current_sender_window \in [End -> Int]
    BY DEF Init1
  <2> QED BY <2>1, InitInv
<1>2. StreamInv /\ [Next1]_vars => StreamInv'
  BY NextInv1
<1> QED BY <1>1, <1>2, PTL DEF Spec1

\* The contexts and queues keep their types.
THEOREM TypeCorrect1 == Spec1 => []TypeOK
<1>1. StreamInv => TypeOK
  BY DEF StreamInv
<1> QED BY <1>1, StreamInvariance1, PTL

\* Between mywrite at one end and myread at the other, transport1.c loses, repeats and
\* reorders nothing, whatever the threads, the close and a crash do.
THEOREM StreamInOrder1 == Spec1 => []InOrder
<1>1. StreamInv => InOrder
  BY DEF StreamInv, StreamAt, InOrder
<1> QED BY <1>1, StreamInvariance1, PTL

\* myread reports EOF only behind the last byte the peer wrote before myclose.
THEOREM EofIsComplete1 == Spec1 => []EofComplete
<1>1. StreamInv => EofComplete
  BY StreamInvEof
<1> QED BY <1>1, StreamInvariance1, PTL

\* A connection run by transport1.c implements the two byte streams of ByteStream.
THEOREM Refinement1 == Spec1 => ImplementsByteStream
<1>1. Init1 => Stream!Init
  BY Zenon, InitStep DEF Init1
<1>2. StreamInv /\ StreamInv' /\ [Next1]_vars => [Stream!Next]_(Stream!vars)
  BY NextStep1
<1> QED BY <1>1, <1>2, StreamInvariance1, PTL DEF Spec1, Stream!Spec, ImplementsByteStream

\* The inductive invariant of the sender window of transport1.c: acknowledgements come
\* in order and never for what is still on its way, so what the sender reckons as in
\* flight only shrinks when it takes one.
THEOREM WindowInvariance == Spec1 => []WindowInv
<1>1. Init1 /\ StreamInv => WindowInv
  BY Zenon, WindowInit DEF WindowInv
<1>2. WindowInv /\ StreamInv' /\ [Next1]_vars => WindowInv'
  <2> SUFFICES ASSUME WindowInv, StreamInv', [Next1]_vars
               PROVE  WindowInv'
    OBVIOUS
  <2>1. CASE UNCHANGED vars
    BY ZenonT(30), <2>1, WindowStutter DEF WindowInv
  <2>2. CASE Next1
    <3>1. PICK e \in End : Environment(e) \/ TransportThread1(e)
      BY ZenonT(30), <2>2 DEF Next1
    <3> QED BY ZenonT(30), <3>1, WindowNext DEF WindowInv
  <2> QED BY ZenonT(30), <2>1, <2>2
<1> QED BY <1>1, <1>2, StreamInvariance1, PTL DEF Spec1

\* transport1.c never has more in flight than its window, with the payload it is
\* segmenting, and a FIN on top; however the sequence numbers wrap around and whatever
\* the threads, the close and a crash do.
THEOREM WindowIsRespected == Spec1 => []WindowRespected
<1>1. WindowInv => WindowRespected
  BY WindowHolds
<1> QED BY <1>1, WindowInvariance, PTL

\* The inductive invariant of the close of transport1.c: an end closes for good only with
\* the FIN of its peer, which is behind all of the peer's data, and a connection is only
\* reset by a process that has gone.
THEOREM CloseInvariance == Spec1 => []CloseInv
<1>1. Init1 /\ WindowInv => CloseInv
  BY Zenon, CloseInit
<1>2. CloseInv /\ WindowInv' /\ [Next1]_vars => CloseInv'
  <2> SUFFICES ASSUME CloseInv, WindowInv', [Next1]_vars
               PROVE  CloseInv'
    OBVIOUS
  <2>1. CASE UNCHANGED vars
    BY ZenonT(30), <2>1, CloseStutter
  <2>2. CASE Next1
    <3>1. PICK e \in End : Environment(e) \/ TransportThread1(e)
      BY ZenonT(30), <2>2 DEF Next1
    <3> QED BY ZenonT(30), <3>1, CloseNext
  <2> QED BY ZenonT(30), <2>1, <2>2
<1> QED BY <1>1, <1>2, WindowInvariance, PTL DEF Spec1

\* As long as no process is killed or exits after a failed myconnect, one fails an
\* assertion (of poll's result, or of stcp_app_send's) only after all that it wrote has been
\* delivered and its peer's call of myclose has returned.
THEOREM AbortsOnlyAtEnd == Spec1 => []AbortsAtEnd
<1>1. CloseInv => AbortsAtEnd
  BY Zenon DEF CloseInv
<1> QED BY <1>1, CloseInvariance, PTL

\* Where no process may be killed from outside, myconnect does not fail: the answer to the
\* SYN is always the one it waits for.  So AbortsOnlyAtEnd holds there without its proviso.
THEOREM NoneKilled ==
    ASSUME MayCrash = {}
    PROVE  Spec1 => [](~Killed)
<1>1. CloseInv => ~Killed
  BY Zenon DEF CloseInv
<1> QED BY <1>1, CloseInvariance, PTL
=============================================================================
