---------------------------- MODULE MysockProofs ----------------------------
(***************************************************************************)
(* The steps of the transport threads of module Mysock preserve StreamInv, *)
(* and so do the parts of the two control loops put together from them.    *)
(***************************************************************************)
EXTENDS MysockLemmas

-----------------------------------------------------------------------------
(* The handshake.                                                          *)

\* The SYN is the first packet of all.
LEMMA SendSynInv ==
    ASSUME StreamInv, NEW e \in End, SendSyn(e)
    PROVE  StreamInv'
<1> USE DEF StreamInv, StreamAt
<1>p. PICK p \in End : p = Peer(e) /\ p # e /\ Peer(p) = e /\ \A f \in End : f = e \/ f = p
  BY Zenon, Peers
<1>g. e = "active" /\ p = "passive" /\ ~Gone(e) /\ thread[e] = "start"
  BY Zenon, <1>p DEF SendSyn, Peer
<1>t. Here(e) \in Runs /\ Here(e).lo = payload[e].lo /\ Here(e).hi = payload[e].lo
      /\ payload[e].lo \in Nat
  BY Zenon, Types, RunFacts DEF Here
<1>r. PICK r \in Packets : /\ r = Packet("SYN", current_sequence_num[e], 0, Here(e))
                           /\ r.kind = "SYN" /\ r.lo = payload[e].lo /\ r.hi = payload[e].lo
  BY <1>t, Types, PacketFacts
<1>w. /\ wire' \in [End -> Seq(Packets)] /\ wire'[e] = wire[e] /\ reset' \in [End -> BOOLEAN]
      /\ FinsAt(wire'[p], EndPlace(e))
      /\ ~Gone(p) => Chain(wire'[p], arrived[p], payload[e].lo)
      /\ NoData(wire[p]) => NoData(wire'[p])
  <2>1. r.lo <= r.hi /\ Send(e, r)
    BY <1>t, <1>r DEF SendSyn
  <2> QED BY ZenonT(30), <1>p, <1>r, <2>1, SendFacts
<1>s. Plus(current_sequence_num[e], 1) \in Seqs
  BY Types, PlusType
<1>m. /\ current_sequence_num' = [current_sequence_num EXCEPT ![e] = Plus(current_sequence_num[e], 1)]
      /\ thread' = [thread EXCEPT ![e] = "await"]
      /\ UNCHANGED <<appVars, close_requested, queueVars, recv_thread, event,
                     payload, current_sender_window, connection_state,
                     initial_sequence_num, ack_num, fin_ack_sequence_num, histVars>>
  BY Zenon DEF SendSyn
<1> USE DEF appVars, queueVars, histVars
<1>1. TypeOK'
  BY Zenon, <1>m, <1>w, <1>s DEF TypeOK, ThreadState
<1>2. InOrderAt(e)' /\ InOrderAt(p)'
  BY Zenon, <1>p, <1>m, <1>w DEF TypeOK, InOrderAt, Gone
<1>3. \A f \in End : (~Gone(f) => HandshakeAt(f))'
  <2>0. /\ thread'[e] = "await" /\ thread'[p] = thread[p] /\ app' = app
        /\ network_recv_queue' = network_recv_queue /\ wire'[e] = wire[e]
    BY Zenon, <1>p, <1>m, <1>w DEF TypeOK
  <2>1. HandshakeAt(e)'
    BY <1>p, <1>g, <1>w, <2>0 DEF HandshakeAt, ControlNext
  <2>2. (~Gone(p) => HandshakeAt(p))'
    BY <1>p, <1>g, <1>w, <2>0 DEF HandshakeAt, ControlNext, Gone
  <2> QED BY Zenon, <1>p, <2>1, <2>2
<1>4. \A f \in End : (~Gone(f) => EventsBacked(f))'
  <2>1. thread'[p] = thread[p]
    BY Zenon, <1>p, <1>m DEF TypeOK
  <2>2. (~Gone(e) => EventsBacked(e))' /\ (~Gone(p) => EventsBacked(p))'
    BY Zenon, <1>m, <1>g, <2>1 DEF EventsBacked, Gone
  <2> QED BY Zenon, <1>p, <2>2
<1>5. ClosesLast(e)' /\ ClosesLast(p)'
  BY Zenon, <1>p, <1>m, <1>g DEF TypeOK, ClosesLast, Flushed, FinSent
<1>6. EndPlace(e)' = EndPlace(e) /\ EndPlace(p)' = EndPlace(p)
  BY Zenon, <1>p, <1>m DEF TypeOK, EndPlace, FinSent
<1>7. EndsLast(e)' /\ EndsLast(p)'
  <2>0. thread'[e] # "exited" /\ thread[e] # "exited" /\ thread'[p] = thread[p]
    BY Zenon, <1>p, <1>g, <1>m DEF TypeOK
  <2>1. EndsLast(e)'
    BY Zenon, <1>p, <1>m, <1>6, <1>w, <2>0 DEF EndsLast
  <2>2. EndsLast(p)'
    BY Zenon, <1>p, <1>m, <1>6, <1>w, <2>0 DEF EndsLast
  <2> QED BY Zenon, <2>1, <2>2
<1> QED BY Zenon, <1>p, <1>1, <1>2, <1>3, <1>4, <1>5, <1>7

\* The packet the active end takes in its handshake is not data.
LEMMA RecvSynAckInv ==
    ASSUME StreamInv, NEW e \in End, RecvSynAck(e)
    PROVE  StreamInv'
<1> USE DEF StreamInv, StreamAt
<1>p. PICK p \in End : p = Peer(e) /\ p # e /\ Peer(p) = e /\ \A f \in End : f = e \/ f = p
  BY Zenon, Peers
<1>g. /\ e = "active" /\ p = "passive" /\ ~Gone(e) /\ thread[e] = "await"
      /\ network_recv_queue[e] # <<>>
      /\ event[e] = {} /\ ~close_requested[e] /\ ~FinSent(e)
      /\ ~Gone(p) => thread[p] # "start"
  BY Zenon, <1>p DEF RecvSynAck, Peer, EventsBacked, ClosesLast, HandshakeAt
<1>k. PICK pkt \in Packets : pkt = Head(network_recv_queue[e])
                             /\ pkt.kind # "DATA" /\ pkt.lo = delivered[e] /\ pkt.hi = delivered[e]
                             /\ pkt.seq \in Int
  <2>1. network_recv_queue[e][1].kind # "DATA"
    BY <1>p, <1>g, PopFacts DEF HandshakeAt, ControlNext
  <2>2. PICK h : h = Head(network_recv_queue[e])
    BY Zenon
  <2>3. /\ h \in Packets /\ h = network_recv_queue[e][1] /\ h.seq \in Int
        /\ h.lo = delivered[e] /\ (h.kind # "DATA" => h.hi = h.lo)
    BY ZenonT(30), <1>p, <1>g, <2>2, PopFacts
  <2> QED BY ZenonT(30), <2>1, <2>2, <2>3
<1>q. PICK q \in Seq(Packets) : /\ q = Tail(network_recv_queue[e])
                                /\ Chain(q, delivered[e], arrived[e])
                                /\ FinsAt(q, EndPlace(p))
                                /\ NoData(network_recv_queue[e]) => NoData(q)
  BY ZenonT(40), <1>p, <1>g, <1>k, PopFacts
<1>t. Here(e) \in Runs /\ Here(e).lo = payload[e].lo /\ Here(e).hi = payload[e].lo
      /\ payload[e].lo \in Nat
  BY Zenon, Types, RunFacts DEF Here
<1>s. Plus(current_sequence_num[e], 1) \in Seqs /\ Plus(pkt.seq, 1) \in Seqs
  BY <1>k, Types, PlusType
<1>r. PICK r \in Packets : /\ r = Packet("ACK", current_sequence_num[e], Plus(pkt.seq, 1), Here(e))
                           /\ r.kind = "ACK" /\ r.lo = payload[e].lo /\ r.hi = payload[e].lo
  BY <1>s, <1>t, Types, PacketFacts
<1>w. /\ wire' \in [End -> Seq(Packets)] /\ wire'[e] = wire[e] /\ reset' \in [End -> BOOLEAN]
      /\ FinsAt(wire'[p], EndPlace(e))
      /\ ~Gone(p) => /\ Chain(wire'[p], arrived[p], payload[e].lo)
                     /\ wire'[p] # <<>>
                     /\ wire[p] # <<>> => wire'[p][1] = wire[p][1]
                     /\ wire[p] = <<>> => wire'[p][1].kind # "DATA"
      /\ NoData(wire[p]) => NoData(wire'[p])
  <2>1. r.lo <= r.hi /\ Send(e, r)
    BY <1>t, <1>r, <1>k DEF RecvSynAck
  <2> QED BY ZenonT(40), <1>p, <1>r, <2>1, SendFacts
<1>a. PICK a \in AppState : app' = [app EXCEPT ![e] = a] /\ a \in {"open", "killed"}
  BY Zenon DEF RecvSynAck, AppState
<1>m. /\ network_recv_queue' = [network_recv_queue EXCEPT ![e] = q]
      /\ current_sequence_num' = [current_sequence_num EXCEPT ![e] = Plus(current_sequence_num[e], 1)]
      /\ connection_state' = [connection_state EXCEPT ![e] = "ESTABLISHED"]
      /\ thread' = [thread EXCEPT ![e] = "loop"]
      /\ UNCHANGED <<written, read, eof, close_requested, app_recv_queue,
                     app_send_queue, recv_thread, event, payload,
                     current_sender_window, initial_sequence_num, ack_num,
                     fin_ack_sequence_num, histVars>>
  BY Zenon, <1>q DEF RecvSynAck
<1> USE DEF histVars
<1>1. TypeOK'
  BY Zenon, <1>a, <1>m, <1>w, <1>s DEF TypeOK, ThreadState, CState
<1>0. /\ network_recv_queue'[e] = q /\ network_recv_queue'[p] = network_recv_queue[p]
      /\ thread'[e] = "loop" /\ thread'[p] = thread[p]
      /\ connection_state'[e] = "ESTABLISHED" /\ connection_state'[p] = connection_state[p]
      /\ app'[e] = a /\ app'[p] = app[p]
  BY Zenon, <1>p, <1>a, <1>m DEF TypeOK
<1>2. InOrderAt(e)' /\ InOrderAt(p)'
  BY <1>p, <1>0, <1>a, <1>g, <1>m, <1>q, <1>w DEF InOrderAt, Gone
<1>3. (~Gone(e) => HandshakeAt(e))' /\ (~Gone(p) => HandshakeAt(p))'
  <2>1. HandshakeAt(e)'
    BY <1>p, <1>0, <1>g, <1>q, <1>w DEF HandshakeAt, ControlNext
  <2>2. ASSUME ~Gone(p)' PROVE HandshakeAt(p)'
    <3>1. ~Gone(p) /\ HandshakeAt(p) /\ thread[p] # "start"
      BY Zenon, <1>0, <1>g, <2>2 DEF Gone
    <3>2. /\ NoData(network_recv_queue[p]) /\ NoData(wire[p])
      BY Zenon, <1>p, <1>g, <3>1 DEF HandshakeAt
    <3>3. /\ network_recv_queue[p] # <<>> => network_recv_queue[p][1].kind # "DATA"
          /\ wire[p] # <<>> => wire[p][1].kind # "DATA"
      BY Zenon, <3>2, Types, NoDataTail
    <3> QED BY <1>p, <1>0, <1>g, <1>w, <3>1, <3>3 DEF HandshakeAt, ControlNext
  <2> QED BY Zenon, <2>1, <2>2
<1>4. (~Gone(e) => EventsBacked(e))' /\ (~Gone(p) => EventsBacked(p))'
  BY Zenon, <1>p, <1>0, <1>g, <1>m DEF EventsBacked, Gone
<1>5. ClosesLast(e)' /\ ClosesLast(p)'
  BY ZenonT(40), <1>p, <1>0, <1>g, <1>m DEF ClosesLast, Flushed, FinSent
<1>6. EndPlace(e)' = EndPlace(e) /\ EndPlace(p)' = EndPlace(p)
  BY Zenon, <1>p, <1>0, <1>g, <1>m DEF EndPlace, FinSent
<1>7. EndsLast(e)' /\ EndsLast(p)'
  BY <1>p, <1>0, <1>6, <1>g, <1>m, <1>q, <1>w DEF EndsLast
<1> QED BY Zenon, <1>p, <1>1, <1>2, <1>3, <1>4, <1>5, <1>7

\* The packet the passive end starts with is not data.
LEMMA RecvSynInv ==
    ASSUME StreamInv, NEW e \in End, RecvSyn(e)
    PROVE  StreamInv'
<1> USE DEF StreamInv, StreamAt
<1>p. PICK p \in End : p = Peer(e) /\ p # e /\ Peer(p) = e /\ \A f \in End : f = e \/ f = p
  BY Zenon, Peers
<1>g. /\ e = "passive" /\ p = "active" /\ ~Gone(e) /\ thread[e] = "start"
      /\ network_recv_queue[e] # <<>>
      /\ event[e] = {} /\ ~close_requested[e] /\ ~FinSent(e)
      /\ thread[p] \in {"start", "await"} /\ NoData(network_recv_queue[e]) /\ NoData(wire[e])
      /\ network_recv_queue[p] = <<>> /\ wire[p] = <<>>
      /\ ~Gone(p) => thread[p] = "await"
  BY Zenon, <1>p DEF RecvSyn, Peer, EventsBacked, ClosesLast, HandshakeAt
<1>k. PICK pkt \in Packets : pkt = Head(network_recv_queue[e])
                             /\ pkt.kind # "DATA" /\ pkt.lo = delivered[e] /\ pkt.hi = delivered[e]
                             /\ pkt.seq \in Int
  BY ZenonT(40), <1>p, <1>g, PopFacts
<1>q. PICK q \in Seq(Packets) : /\ q = Tail(network_recv_queue[e])
                                /\ Chain(q, delivered[e], arrived[e])
                                /\ FinsAt(q, EndPlace(p))
                                /\ NoData(network_recv_queue[e]) => NoData(q)
  BY Zenon, <1>p, <1>g, <1>k, PopFacts
<1>t. Here(e) \in Runs /\ Here(e).lo = payload[e].lo /\ Here(e).hi = payload[e].lo
      /\ payload[e].lo \in Nat
  BY Zenon, Types, RunFacts DEF Here
<1>s. Plus(current_sequence_num[e], 1) \in Seqs /\ Plus(pkt.seq, 1) \in Seqs
  BY <1>k, Types, PlusType
<1>r. PICK r \in Packets : /\ r = Packet("SYNACK", current_sequence_num[e], Plus(pkt.seq, 1), Here(e))
                           /\ r.kind = "SYNACK" /\ r.lo = payload[e].lo /\ r.hi = payload[e].lo
  BY <1>s, <1>t, Types, PacketFacts
<1>w. /\ wire' \in [End -> Seq(Packets)] /\ wire'[e] = wire[e] /\ reset' \in [End -> BOOLEAN]
      /\ FinsAt(wire'[p], EndPlace(e))
      /\ ~Gone(p) => /\ Chain(wire'[p], arrived[p], payload[e].lo)
                     /\ wire'[p] # <<>>
                     /\ wire[p] # <<>> => wire'[p][1] = wire[p][1]
                     /\ wire[p] = <<>> => wire'[p][1].kind # "DATA"
      /\ NoData(wire[p]) => NoData(wire'[p])
  <2>1. r.lo <= r.hi /\ Send(e, r)
    BY <1>t, <1>r, <1>k DEF RecvSyn
  <2> QED BY ZenonT(40), <1>p, <1>r, <2>1, SendFacts
<1>m. /\ network_recv_queue' = [network_recv_queue EXCEPT ![e] = q]
      /\ current_sequence_num' = [current_sequence_num EXCEPT ![e] = Plus(current_sequence_num[e], 1)]
      /\ connection_state' = [connection_state EXCEPT ![e] = "SYN_RECEIVED"]
      /\ thread' = [thread EXCEPT ![e] = "await"]
      /\ UNCHANGED <<appVars, close_requested, app_recv_queue, app_send_queue,
                     recv_thread, event, payload, current_sender_window,
                     initial_sequence_num, ack_num, fin_ack_sequence_num, histVars>>
  BY Zenon, <1>q DEF RecvSyn
<1> USE DEF appVars, histVars
<1>1. TypeOK'
  BY Zenon, <1>m, <1>w, <1>s DEF TypeOK, ThreadState, CState
<1>0. /\ network_recv_queue'[e] = q /\ network_recv_queue'[p] = network_recv_queue[p]
      /\ thread'[e] = "await" /\ thread'[p] = thread[p]
      /\ connection_state'[e] = "SYN_RECEIVED" /\ connection_state'[p] = connection_state[p]
  BY Zenon, <1>p, <1>m DEF TypeOK
<1>2. InOrderAt(e)' /\ InOrderAt(p)'
  BY Zenon, <1>p, <1>0, <1>g, <1>m, <1>q, <1>w DEF InOrderAt, Gone
<1>3. (~Gone(e) => HandshakeAt(e))' /\ (~Gone(p) => HandshakeAt(p))'
  <2>0. NoData(wire'[p]) /\ NoData(network_recv_queue'[p])
    <3>1. NoData(<<>>)
      BY DEF NoData
    <3> QED BY Zenon, <1>0, <1>g, <1>w, <3>1
  <2>1. HandshakeAt(e)'
    BY ZenonT(40), <1>p, <1>0, <1>g, <1>q, <1>w DEF HandshakeAt, ControlNext
  <2>2. (~Gone(p) => HandshakeAt(p))'
    BY <1>p, <1>0, <1>g, <1>m, <1>w, <2>0 DEF HandshakeAt, ControlNext, Gone
  <2> QED BY ZenonT(30), <2>1, <2>2
<1>4. (~Gone(e) => EventsBacked(e))' /\ (~Gone(p) => EventsBacked(p))'
  BY Zenon, <1>p, <1>0, <1>g, <1>m DEF EventsBacked, Gone
<1>5. ClosesLast(e)' /\ ClosesLast(p)'
  BY Zenon, <1>p, <1>0, <1>g, <1>m DEF ClosesLast, Flushed, FinSent
<1>6. EndPlace(e)' = EndPlace(e) /\ EndPlace(p)' = EndPlace(p)
  BY Zenon, <1>p, <1>0, <1>g, <1>m DEF EndPlace, FinSent
<1>7. EndsLast(e)' /\ EndsLast(p)'
  <2>1. EndsLast(e)'
    BY <1>p, <1>0, <1>6, <1>g, <1>m, <1>q, <1>w DEF EndsLast
  <2>2. EndsLast(p)'
    BY ZenonT(40), <1>p, <1>0, <1>6, <1>m, <1>w DEF EndsLast
  <2> QED BY Zenon, <2>1, <2>2
<1> QED BY Zenon, <1>p, <1>1, <1>2, <1>3, <1>4, <1>5, <1>7

\* The packet the passive end takes as the third of the handshake is not data.
LEMMA RecvHandshakeAckInv ==
    ASSUME StreamInv, NEW e \in End, RecvHandshakeAck(e)
    PROVE  StreamInv'
<1> USE DEF StreamInv, StreamAt
<1>p. PICK p \in End : p = Peer(e) /\ p # e /\ Peer(p) = e /\ \A f \in End : f = e \/ f = p
  BY Zenon, Peers
<1>g. /\ e = "passive" /\ p = "active" /\ ~Gone(e) /\ thread[e] = "await"
      /\ network_recv_queue[e] # <<>>
      /\ event[e] = {} /\ ~close_requested[e] /\ ~FinSent(e)
      /\ ~Gone(p) => thread[p] # "start"
  BY Zenon, <1>p DEF RecvHandshakeAck, Peer, EventsBacked, ClosesLast, HandshakeAt
<1>k. PICK pkt \in Packets : pkt = Head(network_recv_queue[e])
                             /\ pkt.kind # "DATA" /\ pkt.lo = delivered[e] /\ pkt.hi = delivered[e]
                             /\ pkt.seq \in Int
  <2>1. network_recv_queue[e][1].kind # "DATA"
    BY <1>p, <1>g, PopFacts DEF HandshakeAt, ControlNext
  <2> DEFINE h == Head(network_recv_queue[e])
  <2>2. /\ h \in Packets /\ h = network_recv_queue[e][1] /\ h.seq \in Int
        /\ h.lo = delivered[e] /\ (h.kind # "DATA" => h.hi = h.lo)
    BY ZenonT(30), <1>p, <1>g, PopFacts
  <2> QED BY Zenon, <2>1, <2>2
<1>q. PICK q \in Seq(Packets) : /\ q = Tail(network_recv_queue[e])
                                /\ Chain(q, delivered[e], arrived[e])
                                /\ FinsAt(q, EndPlace(p))
                                /\ NoData(network_recv_queue[e]) => NoData(q)
  BY ZenonT(40), <1>p, <1>g, <1>k, PopFacts
<1>m. /\ network_recv_queue' = [network_recv_queue EXCEPT ![e] = q]
      /\ app' = [app EXCEPT ![e] = "open"]
      /\ connection_state' = [connection_state EXCEPT ![e] = "ESTABLISHED"]
      /\ thread' = [thread EXCEPT ![e] = "loop"]
      /\ UNCHANGED <<written, read, eof, close_requested, app_recv_queue,
                     app_send_queue, netVars, event, payload,
                     current_sender_window, current_sequence_num,
                     initial_sequence_num, ack_num, fin_ack_sequence_num, histVars>>
  BY Zenon, <1>q DEF RecvHandshakeAck
<1> USE DEF netVars, histVars
<1>1. TypeOK'
  BY Zenon, <1>m DEF TypeOK, ThreadState, CState, AppState
<1>0. /\ network_recv_queue'[e] = q /\ network_recv_queue'[p] = network_recv_queue[p]
      /\ thread'[e] = "loop" /\ thread'[p] = thread[p]
      /\ connection_state'[e] = "ESTABLISHED" /\ connection_state'[p] = connection_state[p]
      /\ app'[e] = "open" /\ app'[p] = app[p]
  BY Zenon, <1>p, <1>m DEF TypeOK
<1>2. InOrderAt(e)' /\ InOrderAt(p)'
  BY ZenonT(40), <1>p, <1>0, <1>g, <1>m, <1>q DEF InOrderAt, Gone
<1>3. (~Gone(e) => HandshakeAt(e))' /\ (~Gone(p) => HandshakeAt(p))'
  <2>1. HandshakeAt(e)'
    BY ZenonT(40), <1>p, <1>0, <1>g, <1>m, <1>q DEF HandshakeAt
  <2>2. (~Gone(p) => HandshakeAt(p))'
    BY <1>p, <1>0, <1>g, <1>m DEF HandshakeAt, ControlNext, Gone
  <2> QED BY Zenon, <2>1, <2>2
<1>4. (~Gone(e) => EventsBacked(e))' /\ (~Gone(p) => EventsBacked(p))'
  BY ZenonT(40), <1>p, <1>0, <1>g, <1>m DEF EventsBacked, Gone
<1>5. ClosesLast(e)' /\ ClosesLast(p)'
  BY ZenonT(40), <1>p, <1>0, <1>g, <1>m DEF ClosesLast, Flushed, FinSent
<1>6. EndPlace(e)' = EndPlace(e) /\ EndPlace(p)' = EndPlace(p)
  BY Zenon, <1>p, <1>0, <1>g, <1>m DEF EndPlace, FinSent
<1>7. EndsLast(e)' /\ EndsLast(p)'
  BY <1>p, <1>0, <1>6, <1>g, <1>m, <1>q DEF EndsLast
<1> QED BY Zenon, <1>p, <1>1, <1>2, <1>3, <1>4, <1>5, <1>7

\* stcp_wait_for_event holds the close back until the data has been passed on.
LEMMA stcp_wait_for_eventInv ==
    ASSUME StreamInv, NEW e \in End, stcp_wait_for_event(e),
           current_sender_window' \in [End -> Int]
    PROVE  StreamInv'
<1> USE DEF StreamInv, StreamAt
<1>p. PICK p \in End : p = Peer(e) /\ p # e /\ Peer(p) = e /\ \A f \in End : f = e \/ f = p
  BY Zenon, Peers
<1>g. ~Gone(e) /\ thread[e] = "loop" /\ payload[e].lo = payload[e].hi
  BY Zenon DEF stcp_wait_for_event, InLoop
<1>d. PICK d \in SUBSET Events :
        /\ d = DueEvents(e)
        /\ "APP_DATA" \in d => app_recv_queue[e] # <<>>
        /\ "NETWORK_DATA" \in d => network_recv_queue[e] # <<>>
        /\ "APP_CLOSE_REQUESTED" \in d => close_requested[e] /\ app_recv_queue[e] = <<>>
  <2>1. DueEvents(e) \in SUBSET Events
    BY Zenon DEF DueEvents, Events
  <2>2. "APP_DATA" \in DueEvents(e) => app_recv_queue[e] # <<>>
    BY Zenon DEF DueEvents
  <2>3. "NETWORK_DATA" \in DueEvents(e) => network_recv_queue[e] # <<>>
    BY Zenon DEF DueEvents
  <2>4. "APP_CLOSE_REQUESTED" \in DueEvents(e) => close_requested[e] /\ app_recv_queue[e] = <<>>
    BY Zenon DEF DueEvents
  <2> QED BY Zenon, <2>1, <2>2, <2>3, <2>4
<1>c. PICK c \in BOOLEAN : /\ c = (close_requested[e] /\ "APP_CLOSE_REQUESTED" \notin d)
                           /\ c => close_requested[e]
  BY Zenon
<1>m. /\ event' = [event EXCEPT ![e] = d]
      /\ close_requested' = [close_requested EXCEPT ![e] = c]
      /\ UNCHANGED <<appVars, queueVars, netVars, thread, payload, ctxVars, histVars>>
  BY Zenon, <1>d, <1>c DEF stcp_wait_for_event
<1> USE DEF appVars, queueVars, netVars, ctxVars, histVars
<1>0. /\ event'[e] = d /\ event'[p] = event[p]
      /\ close_requested'[e] = c /\ close_requested'[p] = close_requested[p]
  BY Zenon, <1>p, <1>m DEF TypeOK
<1>1. TypeOK'
  BY Zenon, <1>m DEF TypeOK
<1>2. InOrderAt(e)' /\ InOrderAt(p)'
  BY Zenon, <1>p, <1>m DEF InOrderAt, Gone
<1>3. \A f \in End : (~Gone(f) => HandshakeAt(f))'
  BY Zenon, <1>m DEF HandshakeAt, ControlNext, Gone
<1>4. (~Gone(e) => EventsBacked(e))' /\ (~Gone(p) => EventsBacked(p))'
  BY Zenon, <1>0, <1>c, <1>d, <1>g, <1>m DEF EventsBacked, Gone
<1>5. ClosesLast(e)' /\ ClosesLast(p)'
  <2>1. "APP_CLOSE_REQUESTED" \in d => Flushed(e)
    <3> SUFFICES ASSUME "APP_CLOSE_REQUESTED" \in d PROVE Flushed(e)
      BY Zenon
    <3>1. app_recv_queue[e] = <<>> /\ app[e] \notin {"blocked", "open", "closed"}
      BY Zenon, <1>d, <1>g DEF EventsBacked, Gone
    <3>2. Chain(app_recv_queue[e], payload[e].hi, written[e])
      BY Zenon, <1>p, <3>1 DEF InOrderAt
    <3> QED BY Zenon, <1>g, <3>1, <3>2 DEF Chain, Flushed
  <2> QED BY Zenon, <1>0, <1>m, <2>1 DEF ClosesLast, Flushed, FinSent
<1>6. EndsLast(e)' /\ EndsLast(p)'
  BY Zenon, <1>m DEF EndsLast, EndPlace, FinSent
<1> QED BY Zenon, <1>p, <1>1, <1>2, <1>3, <1>4, <1>5, <1>6

\* Passing over a branch of control_loop drops its event.
LEMMA SkipInv ==
    ASSUME StreamInv, NEW e \in End, NEW ev, Skip(e, ev)
    PROVE  StreamInv'
<1> USE DEF StreamInv, StreamAt
<1>p. PICK p \in End : p = Peer(e) /\ p # e /\ Peer(p) = e /\ \A f \in End : f = e \/ f = p
  BY Zenon, Peers
<1>m. /\ event' = [event EXCEPT ![e] = event[e] \ {ev}]
      /\ UNCHANGED <<appVars, close_requested, queueVars, netVars, thread, payload,
                     current_sender_window, ctxVars, histVars>>
  BY Zenon DEF Skip, Handled
<1> USE DEF appVars, queueVars, netVars, ctxVars, histVars
<1>0. event'[e] \subseteq event[e] /\ event'[p] = event[p]
  BY Zenon, <1>p, <1>m DEF TypeOK
<1>1. TypeOK'
  BY Zenon, <1>m DEF TypeOK
<1>2. InOrderAt(e)' /\ InOrderAt(p)'
  BY Zenon, <1>p, <1>m DEF InOrderAt, Gone
<1>3. \A f \in End : (~Gone(f) => HandshakeAt(f))'
  BY Zenon, <1>m DEF HandshakeAt, ControlNext, Gone
<1>4. (~Gone(e) => EventsBacked(e))' /\ (~Gone(p) => EventsBacked(p))'
  BY Zenon, <1>0, <1>m DEF EventsBacked, Gone
<1>5. ClosesLast(e)' /\ ClosesLast(p)'
  BY Zenon, <1>0, <1>m DEF ClosesLast, Flushed, FinSent
<1>6. EndsLast(e)' /\ EndsLast(p)'
  BY Zenon, <1>m DEF EndsLast, EndPlace, FinSent
<1> QED BY Zenon, <1>p, <1>1, <1>2, <1>3, <1>4, <1>5, <1>6

\* stcp_app_recv moves the front of the writer's queue into the payload.
LEMMA AppRecvInv ==
    ASSUME StreamInv, NEW e \in End, InLoop(e), "APP_DATA" \in event[e], AppRecv(e)
    PROVE  StreamInv'
<1> USE DEF StreamInv, StreamAt
<1>p. PICK p \in End : p = Peer(e) /\ p # e /\ Peer(p) = e /\ \A f \in End : f = e \/ f = p
  BY Zenon, Peers
<1>g. /\ ~Gone(e) /\ thread[e] = "loop" /\ payload[e].lo = payload[e].hi
      /\ app_recv_queue[e] # <<>>
      /\ "APP_CLOSE_REQUESTED" \notin event[e] /\ ~FinSent(e)
      /\ Chain(app_recv_queue[e], payload[e].hi, written[e])
  BY Zenon, <1>p DEF InLoop, EventsBacked, ClosesLast, Flushed, InOrderAt, Gone
<1>t. /\ payload[e].hi \in Nat /\ written[e] \in Nat /\ app_recv_queue[e] \in Seq(Runs)
      /\ current_sender_window[e] \in Int
  BY Zenon, Types DEF TypeOK
<1>d. /\ DequeueLen(app_recv_queue[e], current_sender_window[e]) \in Nat
      /\ app_recv_queue[e][1].lo = payload[e].hi
      /\ payload[e].hi + DequeueLen(app_recv_queue[e], current_sender_window[e]) <= written[e]
      /\ DequeueRest(app_recv_queue[e], current_sender_window[e]) \in Seq(Runs)
      /\ Chain(DequeueRest(app_recv_queue[e], current_sender_window[e]),
               payload[e].hi + DequeueLen(app_recv_queue[e], current_sender_window[e]),
               written[e])
  BY Zenon, <1>g, <1>t, DequeueFacts
<1>l. PICK to \in Nat :
        /\ to = payload[e].hi + DequeueLen(app_recv_queue[e], current_sender_window[e])
        /\ payload[e].hi <= to /\ to <= written[e]
  BY <1>d, <1>t
<1>q. PICK q \in Seq(Runs) :
        /\ q = DequeueRest(app_recv_queue[e], current_sender_window[e])
        /\ Chain(q, to, written[e])
  BY Zenon, <1>d, <1>l
<1>r. PICK r \in Runs : r = Run(payload[e].hi, to) /\ r.lo = payload[e].lo /\ r.hi = to
  BY <1>t, <1>g, RunFacts
<1>m. /\ payload' = [payload EXCEPT ![e] = r]
      /\ app_recv_queue' = [app_recv_queue EXCEPT ![e] = q]
      /\ event' = [event EXCEPT ![e] = event[e] \ {"APP_DATA"}]
      /\ UNCHANGED <<appVars, close_requested, app_send_queue, network_recv_queue,
                     netVars, thread, current_sender_window, ctxVars, histVars>>
  BY Zenon, <1>d, <1>l, <1>q, <1>r DEF AppRecv, Handled
<1> USE DEF appVars, netVars, ctxVars, histVars
<1>0. /\ event'[e] = event[e] \ {"APP_DATA"} /\ event'[p] = event[p]
      /\ payload'[e] = r /\ payload'[p] = payload[p]
      /\ app_recv_queue'[e] = q /\ app_recv_queue'[p] = app_recv_queue[p]
  BY Zenon, <1>p, <1>m DEF TypeOK
<1>1. TypeOK'
  BY Zenon, <1>m DEF TypeOK
<1>2. InOrderAt(e)' /\ InOrderAt(p)'
  <2>1. InOrderAt(e)'
    BY ZenonT(30), <1>p, <1>0, <1>m DEF InOrderAt, Gone
  <2>2. InOrderAt(p)'
    <3>1. r.lo <= r.hi /\ r.hi <= written[e]
      BY <1>g, <1>l, <1>r, <1>t
    <3>2. /\ Peer(p) = e /\ (Gone(p)' <=> Gone(p))
          /\ UNCHANGED <<written, app_send_queue, read, delivered, network_recv_queue, arrived, wire>>
      BY Zenon, <1>p, <1>m DEF Gone
    <3>3. ~Gone(p) => /\ Chain(app_send_queue[p], read[p], delivered[p])
                      /\ Chain(network_recv_queue[p], delivered[p], arrived[p])
                      /\ Chain(wire[p], arrived[p], r.lo)
      BY Zenon, <1>p, <1>r DEF InOrderAt
    <3> QED BY ZenonT(30), <1>0, <1>q, <1>r, <3>1, <3>2, <3>3 DEF InOrderAt
  <2> QED BY Zenon, <2>1, <2>2
<1>3. \A f \in End : (~Gone(f) => HandshakeAt(f))'
  BY Zenon, <1>m DEF HandshakeAt, ControlNext, Gone
<1>4. (~Gone(e) => EventsBacked(e))' /\ (~Gone(p) => EventsBacked(p))'
  BY Zenon, <1>0, <1>g, <1>m DEF EventsBacked, Gone
<1>5. ClosesLast(e)' /\ ClosesLast(p)'
  BY Zenon, <1>0, <1>g, <1>m DEF ClosesLast, Flushed, FinSent
<1>6. EndsLast(e)' /\ EndsLast(p)'
  BY Zenon, <1>m DEF EndsLast, EndPlace, FinSent
<1> QED BY Zenon, <1>p, <1>1, <1>2, <1>3, <1>4, <1>5, <1>6

\* A segment leaves the payload for the wire.
LEMMA SendSegmentInv ==
    ASSUME StreamInv, NEW e \in End, SendSegment(e)
    PROVE  StreamInv'
<1> USE DEF StreamInv, StreamAt
<1>p. PICK p \in End : p = Peer(e) /\ p # e /\ Peer(p) = e /\ \A f \in End : f = e \/ f = p
  BY Zenon, Peers
<1>g. /\ ~Gone(e) /\ thread[e] = "loop" /\ payload[e].lo < payload[e].hi
      /\ payload[e].lo \in Nat /\ payload[e].hi \in Nat
      /\ "APP_CLOSE_REQUESTED" \notin event[e] /\ ~FinSent(e)
  <2>1. ~Gone(e) /\ thread[e] = "loop" /\ payload[e].lo < payload[e].hi
    BY Zenon DEF SendSegment
  <2>2. payload[e].lo \in Nat /\ payload[e].hi \in Nat
    BY Zenon, Types
  <2>3. ~Flushed(e)
    BY <2>1, <2>2 DEF Flushed
  <2> QED BY Zenon, <2>1, <2>2, <2>3 DEF ClosesLast
<1>z. PICK size \in Nat :
        /\ size = IF payload[e].hi - payload[e].lo > STCP_MSS
                  THEN STCP_MSS ELSE payload[e].hi - payload[e].lo
        /\ payload[e].lo + size <= payload[e].hi
  BY <1>g, MysockAssumption
<1>n. PICK next \in Nat : /\ next = payload[e].lo + size
                          /\ payload[e].lo <= next /\ next <= payload[e].hi
  BY <1>g, <1>z
<1>x. Run(payload[e].lo, next) \in Runs /\ Run(payload[e].lo, next).lo = payload[e].lo
      /\ Run(payload[e].lo, next).hi = next
  BY Zenon, <1>g, RunFacts
<1>r. PICK r \in Packets :
        /\ r = Packet("DATA", current_sequence_num[e], 0, Run(payload[e].lo, next))
        /\ r.kind = "DATA" /\ r.lo = payload[e].lo /\ r.hi = next
  BY <1>x, Types, PacketFacts
<1>w. /\ wire' \in [End -> Seq(Packets)] /\ wire'[e] = wire[e] /\ reset' \in [End -> BOOLEAN]
      /\ FinsAt(wire'[p], EndPlace(e))
      /\ ~Gone(p) => /\ Chain(wire'[p], arrived[p], next)
                     /\ wire'[p] # <<>>
                     /\ wire[p] # <<>> => wire'[p][1] = wire[p][1]
  <2>1. r.lo <= r.hi /\ Send(e, r)
    BY Zenon, <1>n, <1>r, <1>z DEF SendSegment
  <2> QED BY ZenonT(40), <1>p, <1>r, <2>1, SendFacts
<1>s. Plus(current_sequence_num[e], size) \in Seqs
  BY Types, PlusType
<1>y. PICK y \in Runs : y = Run(next, payload[e].hi) /\ y.lo = next /\ y.hi = payload[e].hi
  BY <1>g, RunFacts
<1>m. /\ current_sequence_num' = [current_sequence_num EXCEPT ![e] = Plus(current_sequence_num[e], size)]
      /\ payload' = [payload EXCEPT ![e] = y]
      /\ UNCHANGED <<appVars, close_requested, queueVars, recv_thread, thread, event,
                     current_sender_window, connection_state, initial_sequence_num,
                     ack_num, fin_ack_sequence_num, histVars>>
  BY Zenon, <1>n, <1>y, <1>z DEF SendSegment
<1> USE DEF appVars, queueVars, histVars
<1>0. payload'[e] = y /\ payload'[p] = payload[p]
  BY Zenon, <1>p, <1>m DEF TypeOK
<1>1. TypeOK'
  BY Zenon, <1>m, <1>s, <1>w DEF TypeOK
<1>2. InOrderAt(e)' /\ InOrderAt(p)'
  <2>1. InOrderAt(e)'
    BY Zenon, <1>p, <1>0, <1>m, <1>w DEF InOrderAt, Gone
  <2>2. InOrderAt(p)'
    <3>1. /\ payload'[e].lo = next /\ payload'[e].hi = payload[e].hi
          /\ next <= payload[e].hi
      BY Zenon, <1>0, <1>n, <1>y
    <3>2. Gone(p)' = Gone(p)
      BY Zenon, <1>m DEF Gone
    <3> QED BY Zenon, <1>p, <1>m, <1>w, <3>1, <3>2 DEF InOrderAt
  <2> QED BY Zenon, <2>1, <2>2
<1>3. (~Gone(e) => HandshakeAt(e))' /\ (~Gone(p) => HandshakeAt(p))'
  <2>1. HandshakeAt(e)'
    BY ZenonT(30), <1>p, <1>g, <1>m, <1>w DEF HandshakeAt
  <2>2. (~Gone(p) => HandshakeAt(p))'
    BY <1>p, <1>g, <1>m, <1>w DEF HandshakeAt, ControlNext, Gone
  <2> QED BY Zenon, <2>1, <2>2
<1>4. (~Gone(e) => EventsBacked(e))' /\ (~Gone(p) => EventsBacked(p))'
  BY Zenon, <1>m DEF EventsBacked, Gone
<1>5. ClosesLast(e)' /\ ClosesLast(p)'
  BY Zenon, <1>0, <1>g, <1>m DEF ClosesLast, Flushed, FinSent
<1>6. EndPlace(e)' = EndPlace(e) /\ EndPlace(p)' = EndPlace(p)
  BY Zenon, <1>m DEF EndPlace, FinSent
<1>7. EndsLast(e)' /\ EndsLast(p)'
  <2>1. EndsLast(e)'
    BY Zenon, <1>p, <1>6, <1>m, <1>w DEF EndsLast
  <2>2. EndsLast(p)'
    BY Zenon, <1>p, <1>6, <1>m, <1>w DEF EndsLast
  <2> QED BY Zenon, <2>1, <2>2
<1> QED BY ZenonT(30), <1>p, <1>1, <1>2, <1>3, <1>4, <1>5, <1>7

\* A failed send stops the writer and loses nothing that was in order.
LEMMA SendFailsInv ==
    ASSUME StreamInv, NEW e \in End, SendFails(e)
    PROVE  StreamInv'
<1> USE DEF StreamInv, StreamAt
<1>p. PICK p \in End : p = Peer(e) /\ p # e /\ Peer(p) = e /\ \A f \in End : f = e \/ f = p
  BY Zenon, Peers
<1>m. /\ ~Gone(e) /\ thread[e] = "loop"
      /\ thread' = [thread EXCEPT ![e] = "spins"]
      /\ UNCHANGED <<appVars, close_requested, queueVars, wire, recv_thread, event,
                     payload, current_sender_window, ctxVars, histVars>>
  BY Zenon DEF SendFails
<1>r. reset' \in [End -> BOOLEAN]
  BY Zenon, ResetType DEF SendFails, TypeOK
<1> USE DEF appVars, queueVars, ctxVars, histVars
<1>0. thread'[e] = "spins" /\ thread'[p] = thread[p]
  BY Zenon, <1>p, <1>m DEF TypeOK
<1>1. TypeOK'
  BY Zenon, <1>m, <1>r DEF TypeOK, ThreadState
<1>2. InOrderAt(e)' /\ InOrderAt(p)'
  BY Zenon, <1>p, <1>m DEF InOrderAt, Gone
<1>3. (~Gone(e) => HandshakeAt(e))' /\ (~Gone(p) => HandshakeAt(p))'
  BY <1>p, <1>0, <1>m DEF HandshakeAt, ControlNext, Gone
<1>4. (~Gone(e) => EventsBacked(e))' /\ (~Gone(p) => EventsBacked(p))'
  BY Zenon, <1>0, <1>m DEF EventsBacked, Gone
<1>5. ClosesLast(e)' /\ ClosesLast(p)'
  BY Zenon, <1>0, <1>m DEF ClosesLast, Flushed, FinSent
<1>6. EndsLast(e)' /\ EndsLast(p)'
  BY Zenon, <1>p, <1>0, <1>m DEF EndsLast, EndPlace, FinSent
<1> QED BY Zenon, <1>p, <1>1, <1>2, <1>3, <1>4, <1>5, <1>6

\* An ACK carries no data.
LEMMA RecvACKInv ==
    ASSUME StreamInv, NEW e \in End, InLoop(e), "NETWORK_DATA" \in event[e], RecvACK(e)
    PROVE  StreamInv'
<1> USE DEF StreamInv, StreamAt
<1>p. PICK p \in End : p = Peer(e) /\ p # e /\ Peer(p) = e /\ \A f \in End : f = e \/ f = p
  BY Zenon, Peers
<1>g. ~Gone(e) /\ thread[e] = "loop" /\ network_recv_queue[e] # <<>>
  BY Zenon DEF InLoop, EventsBacked
<1>k. PICK pkt \in Packets :
        /\ pkt = Head(network_recv_queue[e])
        /\ pkt.seq \in Int /\ pkt.ack \in Seqs /\ pkt.lo \in Nat /\ pkt.hi \in Nat
        /\ pkt.lo = delivered[e] /\ pkt.lo <= pkt.hi
        /\ pkt.kind # "DATA" => pkt.hi = pkt.lo
        /\ pkt.kind = "FIN" => pkt.lo \in EndPlace(p)
  BY ZenonT(40), <1>p, <1>g, PopFacts
<1>q. PICK q \in Seq(Packets) : /\ q = Tail(network_recv_queue[e])
                                /\ Chain(q, pkt.hi, arrived[e])
                                /\ FinsAt(q, EndPlace(p))
                                /\ NoData(network_recv_queue[e]) => NoData(q)
  BY Zenon, <1>p, <1>g, <1>k, PopFacts
<1>c. PICK c \in CState :
        /\ connection_state' = [connection_state EXCEPT ![e] = c]
        /\ c = connection_state[e] \/ (connection_state[e] = "FIN_WAIT_1" /\ c = "FIN_WAIT_2")
  BY Zenon DEF RecvACK, TypeOK, CState
<1>m. /\ pkt.kind # "DATA"
      /\ network_recv_queue' = [network_recv_queue EXCEPT ![e] = q]
      /\ ack_num' = [ack_num EXCEPT ![e] = pkt.ack]
      /\ event' = [event EXCEPT ![e] = event[e] \ {"NETWORK_DATA"}]
      /\ UNCHANGED <<appVars, close_requested, app_recv_queue, app_send_queue,
                     netVars, thread, payload, current_sender_window,
                     current_sequence_num, initial_sequence_num,
                     fin_ack_sequence_num, histVars>>
  BY Zenon, <1>k, <1>q DEF RecvACK, Handled
<1> USE DEF appVars, netVars, histVars
<1>0. /\ network_recv_queue'[e] = q /\ network_recv_queue'[p] = network_recv_queue[p]
      /\ event'[e] = event[e] \ {"NETWORK_DATA"} /\ event'[p] = event[p]
      /\ connection_state'[e] = c /\ connection_state'[p] = connection_state[p]
  BY Zenon, <1>p, <1>c, <1>m DEF TypeOK
<1>1. TypeOK'
  BY Zenon, <1>c, <1>k, <1>m DEF TypeOK
<1>2. InOrderAt(e)' /\ InOrderAt(p)'
  BY Zenon, <1>p, <1>0, <1>k, <1>m, <1>q DEF InOrderAt, Gone
<1>3. (~Gone(e) => HandshakeAt(e))' /\ (~Gone(p) => HandshakeAt(p))'
  <2>1. HandshakeAt(e)'
    BY ZenonT(40), <1>p, <1>0, <1>g, <1>m, <1>q DEF HandshakeAt
  <2>2. (~Gone(p) => HandshakeAt(p))'
    <3>1. (Gone(p)' <=> Gone(p)) /\ (ControlNext(p)' <=> ControlNext(p)) /\ thread' = thread
      BY Zenon, <1>0, <1>m DEF ControlNext, Gone
    <3> QED BY <1>p, <1>0, <1>g, <3>1 DEF HandshakeAt
  <2> QED BY Zenon, <2>1, <2>2
<1>4. (~Gone(e) => EventsBacked(e))' /\ (~Gone(p) => EventsBacked(p))'
  BY Zenon, <1>0, <1>g, <1>m DEF EventsBacked, Gone
<1>5. ClosesLast(e)' /\ ClosesLast(p)'
  BY Zenon, <1>0, <1>c, <1>g, <1>m DEF ClosesLast, Flushed, FinSent
<1>6. EndPlace(e)' = EndPlace(e) /\ EndPlace(p)' = EndPlace(p)
  BY Zenon, <1>0, <1>c, <1>m DEF EndPlace, FinSent
<1>7. EndsLast(e)' /\ EndsLast(p)'
  BY Zenon, <1>p, <1>0, <1>6, <1>m, <1>q DEF EndsLast
<1> QED BY Zenon, <1>p, <1>1, <1>2, <1>3, <1>4, <1>5, <1>7

\* The FIN puts the end of the stream behind all of it.
LEMMA RecvFINInv ==
    ASSUME StreamInv, NEW e \in End, InLoop(e), "NETWORK_DATA" \in event[e], RecvFIN(e)
    PROVE  StreamInv'
<1>p. PICK p \in End : p = Peer(e) /\ p # e /\ Peer(p) = e /\ \A f \in End : f = e \/ f = p
  BY Zenon, Peers
<1>i. /\ TypeOK /\ InOrderAt(e) /\ InOrderAt(p) /\ ClosesLast(e) /\ ClosesLast(p)
      /\ EndsLast(e) /\ EndsLast(p) /\ ~Gone(e) /\ HandshakeAt(e) /\ EventsBacked(e)
      /\ ~Gone(p) => HandshakeAt(p) /\ EventsBacked(p)
  BY Zenon, <1>p DEF StreamInv, StreamAt, InLoop
<1>g. ~Gone(e) /\ thread[e] = "loop" /\ network_recv_queue[e] # <<>>
  BY Zenon, <1>i DEF InLoop, EventsBacked
<1>k. PICK pkt \in Packets :
        /\ pkt = Head(network_recv_queue[e])
        /\ pkt.seq \in Int /\ pkt.ack \in Seqs /\ pkt.lo \in Nat /\ pkt.hi \in Nat
        /\ pkt.lo = delivered[e] /\ pkt.lo <= pkt.hi
        /\ pkt.kind # "DATA" => pkt.hi = pkt.lo
        /\ pkt.kind = "FIN" => pkt.lo \in EndPlace(p)
  BY ZenonT(40), <1>p, <1>g, PopFacts
<1>q. PICK q \in Seq(Packets) : /\ q = Tail(network_recv_queue[e])
                                /\ Chain(q, pkt.hi, arrived[e])
                                /\ FinsAt(q, EndPlace(p))
                                /\ NoData(network_recv_queue[e]) => NoData(q)
  BY Zenon, <1>p, <1>g, <1>k, PopFacts
<1>s. Plus(pkt.seq, 1) \in Seqs /\ 0 \in Seqs
  BY Zenon, <1>k, <1>i, Types, PlusType, OneInt
<1>w. /\ wire' \in [End -> Seq(Packets)] /\ wire'[e] = wire[e] /\ reset' \in [End -> BOOLEAN]
      /\ FinsAt(wire'[p], EndPlace(e))
      /\ ~Gone(p) => /\ Chain(wire'[p], arrived[p], payload[e].lo)
                     /\ wire'[p] # <<>>
                     /\ wire[p] # <<>> => wire'[p][1] = wire[p][1]
  BY Zenon, <1>p, <1>s, <1>k, SendControl DEF RecvFIN
<1>f. pkt.kind = "FIN" /\ pkt.hi = pkt.lo /\ pkt.lo \in EndPlace(p)
  BY Zenon, <1>k DEF RecvFIN
<1>c. PICK c \in CState :
        /\ connection_state' = [connection_state EXCEPT ![e] = c]
        /\ c \in {"FIN_WAIT_1", "FIN_WAIT_2", "CLOSED"} <=> FinSent(e)
        /\ connection_state[e] = "CLOSED" => c = "CLOSED"
  BY Zenon, <1>i DEF RecvFIN, TypeOK, CState, FinSent
<1>b. PICK b \in Seq(Runs) :
        /\ b = Append(app_send_queue[e], Run(pkt.lo, pkt.hi))
        /\ Chain(b, read[e], delivered[e])
        /\ EmptiesAt(b, EndPlace(p))
  <2>1. PICK x \in Runs : x = Run(pkt.lo, pkt.hi) /\ x.lo = delivered[e] /\ x.hi = delivered[e]
    BY <1>f, <1>k, RunFacts
  <2>2. /\ app_send_queue[e] \in Seq(Runs) /\ Chain(app_send_queue[e], read[e], delivered[e])
        /\ EmptiesAt(app_send_queue[e], EndPlace(p))
        /\ read[e] \in Nat /\ delivered[e] \in Nat
    BY ZenonT(30), <1>p, <1>i, <1>g, Types DEF InOrderAt, EndsLast
  <2>3. x.lo <= x.hi
    BY <2>1, <2>2
  <2>4. Append(app_send_queue[e], x) \in Seq(Runs)
        /\ Chain(Append(app_send_queue[e], x), read[e], delivered[e])
    BY Zenon, <2>1, <2>2, <2>3, ChainAppend, RunTypes
  <2>5. EmptiesAt(Append(app_send_queue[e], x), EndPlace(p))
    BY Zenon, <1>f, <1>k, <2>1, <2>2, EmptiesAtAppend
  <2> QED BY ZenonT(30), <2>1, <2>4, <2>5
<1>m. /\ network_recv_queue' = [network_recv_queue EXCEPT ![e] = q]
      /\ app_send_queue' = [app_send_queue EXCEPT ![e] = b]
      /\ event' = [event EXCEPT ![e] = event[e] \ {"NETWORK_DATA"}]
      /\ UNCHANGED <<appVars, close_requested, app_recv_queue, recv_thread,
                     thread, payload, current_sender_window,
                     current_sequence_num, initial_sequence_num, ack_num,
                     fin_ack_sequence_num, histVars>>
  BY Zenon, <1>b, <1>k, <1>q DEF RecvFIN, Handled
<1> USE DEF appVars, histVars
<1>0. /\ network_recv_queue'[e] = q /\ network_recv_queue'[p] = network_recv_queue[p]
      /\ app_send_queue'[e] = b /\ app_send_queue'[p] = app_send_queue[p]
      /\ event'[e] = event[e] \ {"NETWORK_DATA"} /\ event'[p] = event[p]
      /\ connection_state'[e] = c /\ connection_state'[p] = connection_state[p]
  BY Zenon, <1>i, <1>p, <1>c, <1>m DEF TypeOK
<1>1. TypeOK'
  BY Zenon, <1>i, <1>c, <1>m, <1>w DEF TypeOK
<1>2. InOrderAt(e)' /\ InOrderAt(p)'
  <2>1. InOrderAt(e)'
    BY ZenonT(40), <1>i, <1>p, <1>0, <1>b, <1>f, <1>k, <1>m, <1>q, <1>w DEF InOrderAt, Gone
  <2>2. InOrderAt(p)'
    BY Zenon, <1>i, <1>p, <1>0, <1>m, <1>w DEF InOrderAt, Gone
  <2> QED BY Zenon, <2>1, <2>2
<1>3. (~Gone(e) => HandshakeAt(e))' /\ (~Gone(p) => HandshakeAt(p))'
  <2>1. HandshakeAt(e)'
    BY Zenon, <1>i, <1>p, <1>0, <1>g, <1>m, <1>q, <1>w DEF HandshakeAt
  <2>2. (~Gone(p) => HandshakeAt(p))'
    BY Zenon, <1>i, <1>p, <1>0, <1>g, <1>m, <1>w DEF HandshakeAt, ControlNext, Gone
  <2> QED BY Zenon, <2>1, <2>2
<1>4. (~Gone(e) => EventsBacked(e))' /\ (~Gone(p) => EventsBacked(p))'
  BY Zenon, <1>i, <1>0, <1>g, <1>m DEF EventsBacked, Gone
<1>5. ClosesLast(e)' /\ ClosesLast(p)'
  BY Zenon, <1>i, <1>0, <1>c, <1>g, <1>m DEF ClosesLast, Flushed, FinSent
<1>6. EndPlace(e)' = EndPlace(e) /\ EndPlace(p)' = EndPlace(p)
  BY Zenon, <1>i, <1>0, <1>c, <1>m DEF EndPlace, FinSent
<1>7. EndsLast(e)' /\ EndsLast(p)'
  <2>1. EndsLast(e)'
    BY Zenon, <1>i, <1>p, <1>0, <1>6, <1>b, <1>m, <1>q, <1>w DEF EndsLast
  <2>2. EndsLast(p)'
    BY Zenon, <1>i, <1>p, <1>0, <1>6, <1>m, <1>w DEF EndsLast
  <2> QED BY Zenon, <2>1, <2>2
<1> QED BY Zenon, <1>p, <1>1, <1>2, <1>3, <1>4, <1>5, <1>7 DEF StreamInv, StreamAt

\* stcp_app_send puts the data of a packet behind what was delivered.
LEMMA RecvDATAInv ==
    ASSUME StreamInv, NEW e \in End, InLoop(e), "NETWORK_DATA" \in event[e], RecvDATA(e)
    PROVE  StreamInv'
<1>p. PICK p \in End : p = Peer(e) /\ p # e /\ Peer(p) = e /\ \A f \in End : f = e \/ f = p
  BY Zenon, Peers
<1>i. /\ TypeOK /\ InOrderAt(e) /\ InOrderAt(p) /\ ClosesLast(e) /\ ClosesLast(p)
      /\ EndsLast(e) /\ EndsLast(p) /\ ~Gone(e) /\ HandshakeAt(e) /\ EventsBacked(e)
      /\ ~Gone(p) => HandshakeAt(p) /\ EventsBacked(p)
  BY Zenon, <1>p DEF StreamInv, StreamAt, InLoop
<1>g. ~Gone(e) /\ thread[e] = "loop" /\ network_recv_queue[e] # <<>>
  BY Zenon, <1>i DEF InLoop, EventsBacked
<1>k. PICK pkt \in Packets :
        /\ pkt = Head(network_recv_queue[e])
        /\ pkt.seq \in Int /\ pkt.ack \in Seqs /\ pkt.lo \in Nat /\ pkt.hi \in Nat
        /\ pkt.lo = delivered[e] /\ pkt.lo <= pkt.hi
        /\ pkt.kind # "DATA" => pkt.hi = pkt.lo
        /\ pkt.kind = "FIN" => pkt.lo \in EndPlace(p)
  BY ZenonT(40), <1>p, <1>g, PopFacts
<1>q. PICK q \in Seq(Packets) : /\ q = Tail(network_recv_queue[e])
                                /\ Chain(q, pkt.hi, arrived[e])
                                /\ FinsAt(q, EndPlace(p))
                                /\ NoData(network_recv_queue[e]) => NoData(q)
  BY Zenon, <1>p, <1>g, <1>k, PopFacts
<1>n. PICK n \in Nat : n = pkt.hi - pkt.lo /\ delivered[e] + n = pkt.hi /\ n \in Int
  BY SMTT(40), <1>k
<1>s. Plus(pkt.seq, pkt.hi - pkt.lo) \in Seqs /\ 0 \in Seqs
  BY Zenon, <1>k, <1>n, <1>i, Types, PlusType
<1>w. /\ wire' \in [End -> Seq(Packets)] /\ wire'[e] = wire[e] /\ reset' \in [End -> BOOLEAN]
      /\ FinsAt(wire'[p], EndPlace(e))
      /\ ~Gone(p) => /\ Chain(wire'[p], arrived[p], payload[e].lo)
                     /\ wire'[p] # <<>>
                     /\ wire[p] # <<>> => wire'[p][1] = wire[p][1]
  BY Zenon, <1>p, <1>s, <1>k, SendControl DEF RecvDATA
<1>b. PICK b \in Seq(Runs) :
        /\ b = IF pkt.lo < pkt.hi
               THEN Append(app_send_queue[e], Run(pkt.lo, pkt.hi)) ELSE app_send_queue[e]
        /\ Chain(b, read[e], pkt.hi)
        /\ EmptiesAt(b, EndPlace(p))
  <2>1. PICK x \in Runs : x = Run(pkt.lo, pkt.hi) /\ x.lo = delivered[e] /\ x.hi = pkt.hi
    BY <1>k, RunFacts
  <2>2. /\ app_send_queue[e] \in Seq(Runs) /\ Chain(app_send_queue[e], read[e], delivered[e])
        /\ EmptiesAt(app_send_queue[e], EndPlace(p))
        /\ read[e] \in Nat /\ delivered[e] \in Nat
    BY Zenon, <1>p, <1>i, <1>g, Types DEF InOrderAt, EndsLast
  <2>3. CASE pkt.lo < pkt.hi
    <3>1. x.lo <= x.hi /\ x.lo # x.hi
      BY <1>k, <2>1, <2>3
    <3>2. Append(app_send_queue[e], x) \in Seq(Runs)
          /\ Chain(Append(app_send_queue[e], x), read[e], pkt.hi)
      BY Zenon, <2>1, <2>2, <3>1, ChainAppend, RunTypes
    <3>3. EmptiesAt(Append(app_send_queue[e], x), EndPlace(p))
      BY Zenon, <2>2, <3>1, EmptiesAtAppend
    <3> QED BY Zenon, <2>1, <2>3, <3>2, <3>3
  <2>4. CASE ~(pkt.lo < pkt.hi)
    <3>1. pkt.hi = delivered[e]
      BY <1>k, <2>4
    <3> QED BY Zenon, <2>2, <2>4, <3>1
  <2> QED BY Zenon, <2>3, <2>4
<1>m. /\ network_recv_queue' = [network_recv_queue EXCEPT ![e] = q]
      /\ app_send_queue' = [app_send_queue EXCEPT ![e] = b]
      /\ delivered' = [delivered EXCEPT ![e] = pkt.hi]
      /\ event' = [event EXCEPT ![e] = event[e] \ {"NETWORK_DATA"}]
      /\ UNCHANGED <<appVars, close_requested, app_recv_queue, recv_thread,
                     thread, payload, current_sender_window, ctxVars, arrived>>
  BY Zenon, <1>b, <1>k, <1>n, <1>q DEF RecvDATA, Handled
<1> USE DEF appVars, ctxVars
<1>0. /\ network_recv_queue'[e] = q /\ network_recv_queue'[p] = network_recv_queue[p]
      /\ app_send_queue'[e] = b /\ app_send_queue'[p] = app_send_queue[p]
      /\ delivered'[e] = pkt.hi /\ delivered'[p] = delivered[p]
      /\ event'[e] = event[e] \ {"NETWORK_DATA"} /\ event'[p] = event[p]
  BY Zenon, <1>i, <1>p, <1>m DEF TypeOK
<1>1. TypeOK'
  BY Zenon, <1>i, <1>k, <1>m, <1>w DEF TypeOK
<1>2. InOrderAt(e)' /\ InOrderAt(p)'
  <2>1. InOrderAt(e)'
    BY Zenon, <1>i, <1>p, <1>0, <1>b, <1>m, <1>q, <1>w DEF InOrderAt, Gone
  <2>2. InOrderAt(p)'
    BY Zenon, <1>i, <1>p, <1>0, <1>m, <1>w DEF InOrderAt, Gone
  <2> QED BY Zenon, <2>1, <2>2
<1>3. (~Gone(e) => HandshakeAt(e))' /\ (~Gone(p) => HandshakeAt(p))'
  <2>1. HandshakeAt(e)'
    BY Zenon, <1>i, <1>p, <1>0, <1>g, <1>m, <1>q, <1>w DEF HandshakeAt
  <2>2. (~Gone(p) => HandshakeAt(p))'
    BY ZenonT(30), <1>i, <1>p, <1>0, <1>g, <1>m, <1>w DEF HandshakeAt, ControlNext, Gone
  <2> QED BY Zenon, <2>1, <2>2
<1>4. (~Gone(e) => EventsBacked(e))' /\ (~Gone(p) => EventsBacked(p))'
  BY Zenon, <1>i, <1>0, <1>g, <1>m DEF EventsBacked, Gone
<1>5. ClosesLast(e)' /\ ClosesLast(p)'
  BY Zenon, <1>i, <1>0, <1>g, <1>m DEF ClosesLast, Flushed, FinSent
<1>6. EndPlace(e)' = EndPlace(e) /\ EndPlace(p)' = EndPlace(p)
  BY Zenon, <1>m DEF EndPlace, FinSent
<1>7. EndsLast(e)' /\ EndsLast(p)'
  <2>1. EndsLast(e)'
    BY Zenon, <1>i, <1>p, <1>0, <1>6, <1>b, <1>m, <1>q, <1>w DEF EndsLast
  <2>2. EndsLast(p)'
    BY Zenon, <1>i, <1>p, <1>0, <1>6, <1>m, <1>w DEF EndsLast
  <2> QED BY Zenon, <2>1, <2>2
<1> QED BY ZenonT(30), <1>p, <1>1, <1>2, <1>3, <1>4, <1>5, <1>7 DEF StreamInv, StreamAt

\* The process aborts: at the ERR packet, over its buffer, or at a RST.
LEMMA AbortsInv ==
    ASSUME StreamInv, NEW e \in End, (InLoop(e) /\ (RecvError(e) \/ Overrun(e))) \/ RecvReset(e)
    PROVE  StreamInv'
BY Zenon, AbortInv DEF InLoop, RecvError, Overrun, RecvReset

\* The FIN is sent behind all the data: the close event is in hand.
LEMMA CloseRequestedInv ==
    ASSUME StreamInv, NEW e \in End, InLoop(e), "APP_CLOSE_REQUESTED" \in event[e],
           CloseRequested(e)
    PROVE  StreamInv'
<1>p. PICK p \in End : p = Peer(e) /\ p # e /\ Peer(p) = e /\ \A f \in End : f = e \/ f = p
  BY Zenon, Peers
<1>i. /\ TypeOK /\ InOrderAt(e) /\ InOrderAt(p) /\ ClosesLast(e) /\ ClosesLast(p)
      /\ EndsLast(e) /\ EndsLast(p) /\ ~Gone(e) /\ HandshakeAt(e) /\ EventsBacked(e)
      /\ ~Gone(p) => HandshakeAt(p) /\ EventsBacked(p)
  BY Zenon, <1>p DEF StreamInv, StreamAt, InLoop
<1>g. thread[e] = "loop" /\ Flushed(e)
  BY Zenon, <1>i DEF InLoop, ClosesLast
<1>t. Here(e) \in Runs /\ Here(e).lo = payload[e].lo /\ Here(e).hi = payload[e].lo
      /\ payload[e].lo \in Nat
  BY Zenon, <1>i, Types, RunFacts DEF Here
<1>s. current_sequence_num[e] \in Seqs /\ Plus(current_sequence_num[e], 1) \in Seqs /\ 0 \in Seqs
  BY <1>i, Types, PlusType
<1>r. PICK r \in Packets : /\ r = Packet("FIN", current_sequence_num[e], 0, Here(e))
                           /\ r.kind = "FIN" /\ r.lo = payload[e].lo /\ r.hi = payload[e].lo
  BY <1>s, <1>t, PacketFacts
<1>w. /\ wire' \in [End -> Seq(Packets)] /\ wire'[e] = wire[e] /\ reset' \in [End -> BOOLEAN]
      /\ FinsAt(wire'[p], {written[e]})
      /\ ~Gone(p) => /\ Chain(wire'[p], arrived[p], payload[e].lo)
                     /\ wire'[p] # <<>>
                     /\ wire[p] # <<>> => wire'[p][1] = wire[p][1]
                     /\ wire[p] = <<>> => wire'[p][1] = r
  <2>1. r.lo <= r.hi /\ Send(e, r) /\ r.kind # "DATA"
    BY <1>t, <1>r DEF CloseRequested
  <2>2. EndPlace(e) \subseteq {written[e]} /\ r.lo \in {written[e]}
    BY Zenon, <1>g, <1>r DEF EndPlace, Flushed
  <2> QED BY ZenonT(40), <1>p, <1>r, <2>1, <2>2, SendFacts
<1>c. PICK c \in CState : /\ connection_state' = [connection_state EXCEPT ![e] = c]
                          /\ c \in {"FIN_WAIT_1", "CLOSED"}
                          /\ connection_state[e] = "CLOSED" => c = "CLOSED"
  BY Zenon, <1>i DEF CloseRequested, TypeOK, CState
<1>m. /\ current_sequence_num' = [current_sequence_num EXCEPT ![e] = Plus(current_sequence_num[e], 1)]
      /\ fin_ack_sequence_num' = [fin_ack_sequence_num EXCEPT ![e] = Plus(current_sequence_num[e], 1)]
      /\ event' = [event EXCEPT ![e] = event[e] \ {"APP_CLOSE_REQUESTED"}]
      /\ UNCHANGED <<appVars, close_requested, queueVars, recv_thread, thread,
                     payload, current_sender_window, initial_sequence_num, ack_num,
                     histVars>>
  BY Zenon DEF CloseRequested, Handled
<1> USE DEF appVars, queueVars, histVars
<1>0. /\ event'[e] = event[e] \ {"APP_CLOSE_REQUESTED"} /\ event'[p] = event[p]
      /\ connection_state'[e] = c /\ connection_state'[p] = connection_state[p]
  BY Zenon, <1>i, <1>p, <1>c, <1>m DEF TypeOK
<1>1. TypeOK'
  BY Zenon, <1>i, <1>c, <1>m, <1>s, <1>w DEF TypeOK
<1>2. InOrderAt(e)' /\ InOrderAt(p)'
  BY Zenon, <1>i, <1>p, <1>m, <1>w DEF InOrderAt, Gone
<1>3. (~Gone(e) => HandshakeAt(e))' /\ (~Gone(p) => HandshakeAt(p))'
  <2>1. HandshakeAt(e)'
    BY Zenon, <1>i, <1>p, <1>g, <1>m, <1>w DEF HandshakeAt
  <2>2. (~Gone(p) => HandshakeAt(p))'
    BY Zenon, <1>i, <1>p, <1>g, <1>m, <1>r, <1>w DEF HandshakeAt, ControlNext, Gone
  <2> QED BY Zenon, <2>1, <2>2
<1>4. (~Gone(e) => EventsBacked(e))' /\ (~Gone(p) => EventsBacked(p))'
  BY Zenon, <1>i, <1>0, <1>g, <1>m DEF EventsBacked, Gone
<1>5. ClosesLast(e)' /\ ClosesLast(p)'
  BY Zenon, <1>i, <1>0, <1>c, <1>g, <1>m DEF ClosesLast, Flushed, FinSent
<1>6. /\ EndPlace(e)' = {written[e]} /\ EndPlace(e) \subseteq {written[e]}
      /\ EndPlace(p)' = EndPlace(p)
  BY Zenon, <1>0, <1>c, <1>m DEF EndPlace, FinSent
<1>7. EndsLast(e)' /\ EndsLast(p)'
  <2>1. EndsLast(e)'
    BY Zenon, <1>i, <1>p, <1>6, <1>m, <1>w DEF EndsLast
  <2>2. FinsAt(network_recv_queue[p], {written[e]})
    BY Zenon, <1>i, <1>p, <1>6, FinsAtMore DEF EndsLast
  <2>3. thread[p] # "exited" => EmptiesAt(app_send_queue[p], {written[e]})
    BY Zenon, <1>i, <1>p, <1>6, EmptiesAtMore DEF EndsLast
  <2>4. EndsLast(p)'
    BY Zenon, <1>i, <1>p, <1>6, <1>m, <1>w, <2>2, <2>3 DEF EndsLast
  <2> QED BY Zenon, <2>1, <2>4
<1> QED BY Zenon, <1>p, <1>1, <1>2, <1>3, <1>4, <1>5, <1>7 DEF StreamInv, StreamAt

\* The thread ends after the application closed, so nobody reads its EOF.
LEMMA TransportReturnInv ==
    ASSUME StreamInv, NEW e \in End, TransportReturn(e)
    PROVE  StreamInv'
<1>p. PICK p \in End : p = Peer(e) /\ p # e /\ Peer(p) = e /\ \A f \in End : f = e \/ f = p
  BY Zenon, Peers
<1>i. /\ TypeOK /\ InOrderAt(e) /\ InOrderAt(p) /\ ClosesLast(e) /\ ClosesLast(p)
      /\ EndsLast(e) /\ EndsLast(p) /\ ~Gone(e) /\ HandshakeAt(e) /\ EventsBacked(e)
      /\ ~Gone(p) => HandshakeAt(p) /\ EventsBacked(p)
  BY Zenon, <1>p DEF StreamInv, StreamAt, InLoop, TransportReturn
<1>g. thread[e] = "loop" /\ connection_state[e] = "CLOSED"
  BY Zenon DEF TransportReturn, InLoop
<1>b. PICK b \in Seq(Runs) : /\ b = Append(app_send_queue[e], Run(delivered[e], delivered[e]))
                             /\ Chain(b, read[e], delivered[e])
  <2>1. /\ app_send_queue[e] \in Seq(Runs) /\ Chain(app_send_queue[e], read[e], delivered[e])
        /\ read[e] \in Nat /\ delivered[e] \in Nat
    BY Zenon, <1>i, Types DEF InOrderAt
  <2>2. PICK x \in Runs : /\ x = Run(delivered[e], delivered[e])
                          /\ x.lo = delivered[e] /\ x.hi = delivered[e]
    BY Zenon, <2>1, RunFacts
  <2>3. x.lo <= x.hi
    BY <2>1, <2>2
  <2>4. Append(app_send_queue[e], x) \in Seq(Runs)
        /\ Chain(Append(app_send_queue[e], x), read[e], delivered[e])
    BY Zenon, <2>1, <2>2, <2>3, ChainAppend, RunTypes
  <2> QED BY Zenon, <2>2, <2>4
<1>m. /\ thread' = [thread EXCEPT ![e] = "exited"]
      /\ app_send_queue' = [app_send_queue EXCEPT ![e] = b]
      /\ UNCHANGED <<appVars, close_requested, app_recv_queue, network_recv_queue,
                     netVars, event, payload, current_sender_window, ctxVars,
                     histVars>>
  BY Zenon, <1>b DEF TransportReturn
<1> USE DEF appVars, netVars, ctxVars, histVars
<1>0. /\ thread'[e] = "exited" /\ thread'[p] = thread[p]
      /\ app_send_queue'[e] = b /\ app_send_queue'[p] = app_send_queue[p]
  BY Zenon, <1>i, <1>p, <1>m DEF TypeOK
<1>1. TypeOK'
  BY Zenon, <1>i, <1>m DEF TypeOK, ThreadState
<1>2. InOrderAt(e)' /\ InOrderAt(p)'
  BY Zenon, <1>i, <1>p, <1>0, <1>b, <1>m DEF InOrderAt, Gone
<1>3. (~Gone(e) => HandshakeAt(e))' /\ (~Gone(p) => HandshakeAt(p))'
  BY Zenon, <1>i, <1>p, <1>0, <1>g, <1>m DEF HandshakeAt, ControlNext, Gone
<1>4. (~Gone(e) => EventsBacked(e))' /\ (~Gone(p) => EventsBacked(p))'
  BY Zenon, <1>i, <1>0, <1>m DEF EventsBacked, Gone
<1>5. ClosesLast(e)' /\ ClosesLast(p)'
  BY Zenon, <1>i, <1>0, <1>g, <1>m DEF ClosesLast, Flushed, FinSent
<1>6. EndsLast(e)' /\ EndsLast(p)'
  BY Zenon, <1>i, <1>p, <1>0, <1>m DEF EndsLast, EndPlace, FinSent
<1> QED BY Zenon, <1>p, <1>1, <1>2, <1>3, <1>4, <1>5, <1>6 DEF StreamInv, StreamAt

-----------------------------------------------------------------------------
(* The parts of Transport and Transport1 that are the same.                *)

\* A step of the applications or of the receive threads.
LEMMA EnvironmentInv ==
    ASSUME StreamInv, NEW e \in End, Environment(e)
    PROVE  StreamInv'
BY Zenon, mywriteInv, myreadInv, mycloseInv, myclose_returnInv, CrashInv, RecvPacketInv,
   RecvEofInv, AbortsInv
   DEF Environment, RecvThread

\* A step of the handshake in transport_init.
LEMMA HandshakeInv ==
    ASSUME StreamInv, NEW e \in End, Handshake(e)
    PROVE  StreamInv'
BY Zenon, SendSynInv, RecvSynAckInv, RecvSynInv, RecvHandshakeAckInv DEF Handshake

\* The NETWORK_DATA branch of control_loop.
LEMMA NetworkDataInv ==
    ASSUME StreamInv, NEW e \in End, InLoop(e), "NETWORK_DATA" \in event[e], NetworkData(e)
    PROVE  StreamInv'
BY Zenon, RecvACKInv, RecvFINInv, RecvDATAInv, AbortsInv DEF NetworkData

\* The contexts as they are created; any connection_state before the FIN will do.
LEMMA InitInv ==
    ASSUME MysockInit, connection_state \in [End -> {"ESTABLISHED", "SYN_SENT"}],
           current_sender_window \in [End -> Int]
    PROVE  StreamInv
<1>1. /\ \A S : <<>> \in Seq(S)
      /\ 0 \in Seqs /\ Run(0, 0) \in Runs /\ Run(0, 0).lo = 0 /\ Run(0, 0).hi = 0
  BY MysockAssumption, RunFacts DEF Seqs
<1>2. TypeOK
  <2>1. initial_sequence_num \in [End -> Seqs]
    BY Zenon, MysockAssumption DEF MysockInit, Seqs
  <2> QED BY Zenon, <1>1, <2>1 DEF MysockInit, TypeOK, AppState, ThreadState, CState, Events
<1>3. ASSUME NEW e \in End PROVE StreamAt(e)
  <2>1. PICK p \in End : p = Peer(e) /\ p # e /\ Peer(p) = e
    BY Zenon, Peers
  <2>2. Chain(<<>>, 0, 0) /\ \A S : FinsAt(<<>>, S) /\ EmptiesAt(<<>>, S)
    BY Zenon, ChainEmpty, NothingAt
  <2>3. NoData(<<>>)
    BY DEF NoData
  <2>4. ~FinSent(e) /\ ~FinSent(p) /\ thread[e] = "start" /\ thread[p] = "start"
    BY Zenon, <2>1 DEF MysockInit, FinSent
  <2>5. InOrderAt(e)
    BY <1>1, <2>1, <2>2 DEF MysockInit, InOrderAt
  <2>6. HandshakeAt(e) /\ EventsBacked(e)
    BY Zenon, <2>1, <2>3, <2>4 DEF MysockInit, HandshakeAt, EventsBacked
  <2>7. ClosesLast(e) /\ EndsLast(e)
    BY Zenon, <2>1, <2>2, <2>4 DEF MysockInit, ClosesLast, EndsLast
  <2> QED BY Zenon, <2>5, <2>6, <2>7 DEF StreamAt
<1> QED BY Zenon, <1>2, <1>3 DEF StreamInv

\* A stuttering step.
LEMMA StutterInv ==
    ASSUME StreamInv, UNCHANGED vars
    PROVE  StreamInv'
<1> USE DEF vars, appVars, queueVars, netVars, loopVars, ctxVars, histVars
<1>1. TypeOK'
  BY Zenon DEF StreamInv, TypeOK
<1>2. \A e \in End : InOrderAt(e)' /\ ClosesLast(e)'
  BY Zenon DEF StreamInv, StreamAt, InOrderAt, Gone, ClosesLast, Flushed, FinSent
<1>3. \A e \in End : (~Gone(e) => HandshakeAt(e) /\ EventsBacked(e))'
  BY ZenonT(30) DEF StreamInv, StreamAt, Gone, HandshakeAt, ControlNext, EventsBacked
<1>4. \A e \in End : EndsLast(e)'
  BY Zenon DEF StreamInv, StreamAt, EndsLast, EndPlace, FinSent
<1> QED BY Zenon, <1>1, <1>2, <1>3, <1>4 DEF StreamInv, StreamAt

\* What the inductive invariant gives: myread reports the end of the stream only
\* behind everything the peer's application has written before its myclose.
LEMMA StreamInvEof ==
    ASSUME StreamInv
    PROVE  EofComplete
<1> SUFFICES ASSUME NEW e \in End, eof[e]
             PROVE  app[Peer(e)] \notin {"blocked", "open"} /\ read[e] = written[Peer(e)]
  BY Zenon DEF EofComplete
<1>1. PICK p \in End : p = Peer(e)
  BY Zenon, Peers
<1>2. read[e] \in EndPlace(p)
  BY Zenon, <1>1 DEF StreamInv, StreamAt, EndsLast
<1>3. FinSent(p) /\ read[e] = written[p]
  BY Zenon, <1>2 DEF EndPlace
<1>4. Flushed(p)
  BY Zenon, <1>3 DEF StreamInv, StreamAt, ClosesLast
<1> QED BY Zenon, <1>1, <1>3, <1>4 DEF Flushed
=============================================================================
