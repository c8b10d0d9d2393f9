---------------------------- MODULE ProxyProofs ----------------------------
(***************************************************************************)
(* Proofs about the proxy and the table of headers of a request: for every *)
(* set of names, values and clients and any length of the table.           *)
(***************************************************************************)
EXTENDS HeaderTable, Proxy, TLAPS

\* The place behind the last one.
LEMMA LastPlace ==
    ASSUME NEW m \in Nat
    PROVE  m + 1 \in 1 .. m + 1 /\ m + 1 \notin 1 .. m
OBVIOUS

-----------------------------------------------------------------------------
(* The processes.                                                          *)

Serving == {"recv", "parse", "connect", "send", "relay"}

\* What a step of handle_client does to the place of the child and its socket.
ChildStep(c) ==
    /\ child[c] \in Serving
    /\ UNCHANGED <<parentVars, clientVars>>
    /\ UNCHANGED <<child, holders>> \/ (\E at \in Serving : Goto(c, at)) \/ Exit(c)

LEMMA ChildSteps ==
    ASSUME NEW c \in Client, handle_client(c)
    PROVE  ChildStep(c)
<1> USE DEF ChildStep, Serving
<1>1. CASE Recv(c) \/ RecvFails(c)
  BY Zenon, <1>1 DEF Recv, RecvFails
<1>2. CASE ParseAndCheck(c)
  BY Zenon, <1>2 DEF ParseAndCheck, Refuse
<1>3. CASE ConnectOrigin(c) \/ SendRequest(c) \/ OriginFails(c)
  BY Zenon, <1>3 DEF ConnectOrigin, SendRequest, OriginFails
<1>4. CASE Relay(c) \/ RelayEnd(c) \/ RelayFails(c)
  BY Zenon, <1>4 DEF Relay, RelayEnd, RelayFails
<1> QED BY Zenon, <1>1, <1>2, <1>3, <1>4 DEF handle_client, Serve

\* What a client and an origin server do leaves the processes alone.
LEMMA EnvironmentSteps ==
    ASSUME NEW c \in Client, Environment(c)
    PROVE  /\ UNCHANGED <<parent, holders, child, got, request, stale, forwarded, reply>>
           /\ Connect(c) \/ UNCHANGED backlog
           /\ Connect(c) \/ UNCHANGED open \/ open' = [open EXCEPT ![c] = "read"]
                \/ open' = [open EXCEPT ![c] = "none"]
  BY Zenon DEF Environment, Connect, SendUnit, Shutdown, Leave, OriginSends, OriginEnds,
     parentVars, clientVars

\* The elements of the queue in the kernel.
LEMMA BacklogFacts ==
    ASSUME ParentType
    PROVE  /\ Len(backlog) \in Nat
           /\ \A c : c \in Range(backlog) <=> \E i \in 1 .. Len(backlog) : backlog[i] = c
           /\ Range(backlog) \subseteq Client
<1>1. DOMAIN backlog = 1 .. Len(backlog) /\ Len(backlog) \in Nat
      /\ \A i \in 1 .. Len(backlog) : backlog[i] \in Client
  BY DEF ParentType
<1> QED BY <1>1 DEF Range

-----------------------------------------------------------------------------
(* Types.                                                                  *)

LEMMA InitInv == Init => ProxyInv
<1> SUFFICES ASSUME Init PROVE ProxyInv
  OBVIOUS
<1> USE ProxyAssumption DEF Init
<1>1. ParentType /\ ClientType
  BY DEF ParentType, ClientType, Places
<1>2. OriginType
  BY DEF OriginType, Items
<1>3. PlaceInv
  <2>1. Range(backlog) = {} /\ Len(backlog) = 0
    BY DEF Range
  <2> QED BY <2>1 DEF PlaceInv
<1>4. SocketsReleased
  BY DEF SocketsReleased
<1>5. ReplyInv
  BY DEF ReplyInv, ReplyOf
<1> QED BY <1>1, <1>2, <1>3, <1>4, <1>5 DEF ProxyInv, TypeOK

LEMMA ParentTypeStep == ProxyInv /\ [Next]_vars => ParentType'
<1> SUFFICES ASSUME ParentType, PlaceInv, [Next]_vars PROVE ParentType'
  BY DEF ProxyInv, TypeOK
<1> USE DEF ParentType
<1>1. CASE UNCHANGED vars
  BY <1>1 DEF vars, parentVars
<1>2. CASE accept
  <2>1. Head(backlog) \in Client /\ Tail(backlog) \in Seq(Client)
    BY <1>2 DEF accept
  <2> QED BY <1>2, <2>1 DEF accept
<1>3. CASE fork
  <2>1. parent.client \in Client /\ parent.client \in Client \cup {None}
    BY <1>3 DEF fork, PlaceInv
  <2>2. parent' \in [at : {"accept", "fork", "close"}, client : Client \cup {None}]
    BY <1>3, <2>1 DEF fork
  <2>3. child' \in [Client -> Places]
    BY <1>3, <2>1 DEF fork, Places
  <2>4. holders' \in [Client -> SUBSET {"parent", "child"}]
    BY <1>3, <2>1 DEF fork
  <2> QED BY <1>3, <2>2, <2>3, <2>4 DEF fork
<1>4. CASE CloseInParent
  BY Zenon, <1>4 DEF CloseInParent
<1>5. ASSUME NEW c \in Client, Environment(c)
      PROVE  ParentType'
  <2>0. backlog' = backlog \/ backlog' = Append(backlog, c)
    BY Zenon, <1>5, EnvironmentSteps DEF Connect
  <2>1. backlog' \in Seq(Client)
    BY <2>0
  <2> QED BY <1>5, <2>1, EnvironmentSteps
<1>6. ASSUME NEW c \in Client, handle_client(c)
      PROVE  ParentType'
  <2>1. ChildStep(c)
    BY <1>6, ChildSteps
  <2>2. child' \in [Client -> Places]
    BY <2>1 DEF ChildStep, Goto, Exit, Serving, Places
  <2>3. holders' \in [Client -> SUBSET {"parent", "child"}]
    BY <2>1 DEF ChildStep, Goto, Exit
  <2> QED BY <2>1, <2>2, <2>3 DEF ChildStep, parentVars
<1> QED BY <1>1, <1>2, <1>3, <1>4, <1>5, <1>6 DEF Next, Parent

LEMMA ClientTypeStep == ProxyInv /\ [Next]_vars => ClientType'
<1> SUFFICES ASSUME ClientType, [Next]_vars PROVE ClientType'
  BY DEF ProxyInv, TypeOK
<1> USE ProxyAssumption DEF ClientType
<1>1. CASE UNCHANGED <<got, clientVars>>
  BY <1>1 DEF clientVars
<1>2. ASSUME NEW c \in Client, Recv(c)
      PROVE  ClientType'
  <2>1. PICK n \in 0 .. (sent[c] - got[c]) :
            got[c] + n <= BufSize /\ got' = [got EXCEPT ![c] = @ + n]
    BY Zenon, <1>2 DEF Recv
  <2>2. got[c] + n \in 0 .. BufSize
    BY <2>1
  <2> QED BY <1>2, <2>1, <2>2 DEF Recv, clientVars
<1>3. ASSUME NEW c \in Client, SendUnit(c)
      PROVE  ClientType'
  <2>1. request[c].size \in Nat
    OBVIOUS
  <2> QED BY <1>3, <2>1 DEF SendUnit
<1>4. ASSUME NEW c \in Client, Connect(c) \/ Shutdown(c) \/ Leave(c)
      PROVE  ClientType'
  BY Zenon, <1>4 DEF Connect, Shutdown, Leave
<1>5. ASSUME NEW c \in Client, handle_client(c)
      PROVE  Recv(c) \/ UNCHANGED <<got, clientVars>>
  BY Zenon, <1>5 DEF handle_client, Serve, RecvFails, ParseAndCheck, Refuse,
     ConnectOrigin, SendRequest, OriginFails, Relay, RelayEnd, RelayFails
<1> QED
  BY Zenon, <1>1, <1>2, <1>3, <1>4, <1>5
     DEF Next, vars, Parent, accept, fork, CloseInParent, Environment, OriginSends,
     OriginEnds

\* What is delivered to the client.
LEMMA DeliverFacts ==
    ASSUME OriginType, NEW c \in Client, NEW item \in Items, Deliver(c, item)
    PROVE  /\ reply' \in [Client -> Seq(Items)]
           /\ \A d \in Client : d # c => reply'[d] = reply[d]
           /\ open[c] = "none" => reply'[c] = reply[c]
           /\ open[c] # "none" =>
                /\ Len(reply'[c]) = Len(reply[c]) + 1
                /\ reply'[c][Len(reply[c]) + 1] = item
                /\ \A i \in 1 .. Len(reply[c]) : reply'[c][i] = reply[c][i]
                /\ reply[c] = <<>> => reply'[c] = <<item>>
<1>1. reply[c] \in Seq(Items) /\ Append(reply[c], item) \in Seq(Items)
  BY DEF OriginType
<1>2. CASE open[c] = "none"
  BY <1>2 DEF Deliver, OriginType
<1>3. CASE open[c] # "none"
  <2>1. /\ reply' = [reply EXCEPT ![c] = Append(reply[c], item)]
        /\ reply' \in [Client -> Seq(Items)]
        /\ reply'[c] = Append(reply[c], item)
        /\ \A d \in Client : d # c => reply'[d] = reply[d]
    BY <1>1, <1>3 DEF Deliver, OriginType
  <2>2. reply[c] = <<>> => Append(reply[c], item) = <<item>>
    BY <1>1
  <2> QED BY <1>1, <1>3, <2>1, <2>2
<1> QED BY <1>2, <1>3

\* The chunk that Relay delivers.
LEMMA RelayFacts ==
    ASSUME OriginType, NEW c \in Client, Relay(c)
    PROVE  /\ Len(reply[c]) \in Nat /\ origin[c].chunks \in 0 .. MaxChunks
           /\ Len(reply[c]) < origin[c].chunks
           /\ Chunk(Len(reply[c]) + 1) \in Items
           /\ Deliver(c, Chunk(Len(reply[c]) + 1))
<1>1. /\ Len(reply[c]) \in Nat /\ origin[c].chunks \in 0 .. MaxChunks
      /\ Len(reply[c]) < origin[c].chunks
  BY ProxyAssumption DEF OriginType, Relay
<1>2. Len(reply[c]) + 1 \in 1 .. MaxChunks
  BY <1>1, ProxyAssumption
<1> QED BY ZenonT(30), <1>1, <1>2 DEF Items, Relay

LEMMA OriginTypeStep == ProxyInv /\ [Next]_vars => OriginType'
<1> SUFFICES ASSUME OriginType, ClientType, [Next]_vars PROVE OriginType'
  BY DEF ProxyInv, TypeOK
<1>0. /\ forwarded \in [Client -> Forwarded \cup {None}]
      /\ origin \in [Client -> [state : {"none", "open", "closed", "reset"}, chunks : 0 .. MaxChunks]]
      /\ reply \in [Client -> Seq(Items)]
  BY DEF OriginType
<1>1. CASE UNCHANGED <<forwarded, origin, reply>>
  BY <1>0, <1>1 DEF OriginType
<1>2. ASSUME NEW c \in Client, OriginSends(c) \/ OriginEnds(c) \/ ConnectOrigin(c)
      PROVE  OriginType'
  <2>1. origin' \in [Client -> [state : {"none", "open", "closed", "reset"}, chunks : 0 .. MaxChunks]]
    <3>1. CASE OriginSends(c)
      <4>1. origin[c].chunks + 1 \in 0 .. MaxChunks
        BY <1>0, <3>1, ProxyAssumption DEF OriginSends
      <4> QED BY <1>0, <3>1, <4>1 DEF OriginSends
    <3>2. CASE OriginEnds(c)
      BY ZenonT(30), <1>0, <3>2 DEF OriginEnds
    <3>3. CASE ConnectOrigin(c)
      BY Zenon, <1>0, <3>3 DEF ConnectOrigin
    <3> QED BY <1>2, <3>1, <3>2, <3>3
  <2> QED BY <1>0, <1>2, <2>1 DEF OriginSends, OriginEnds, ConnectOrigin, OriginType
<1>3. ASSUME NEW c \in Client, SendRequest(c)
      PROVE  OriginType'
  <2>1. Unparsed[request[c]] \in Range(Unparsed)
    BY Zenon DEF ClientType, Unparsed, Range
  <2>2. PICK f \in Forwarded : forwarded' = [forwarded EXCEPT ![c] = f]
    BY Zenon, <1>3, <2>1 DEF SendRequest, Forwarded
  <2> QED BY <1>0, <1>3, <2>2 DEF SendRequest, OriginType
<1>4. ASSUME NEW c \in Client, NEW item \in Items, Deliver(c, item), UNCHANGED <<forwarded, origin>>
      PROVE  OriginType'
  BY <1>0, <1>4, DeliverFacts DEF OriginType
<1>5. ASSUME NEW c \in Client, handle_client(c)
      PROVE  OriginType'
  <2>1. CASE Relay(c)
    BY <1>4, <2>1, RelayFacts DEF Relay
  <2>2. CASE ParseAndCheck(c)
    <3>1. Status(400) \in Items /\ Status(501) \in Items
      BY DEF Items
    <3> QED BY Zenon, <1>1, <1>4, <2>2, <3>1 DEF ParseAndCheck, Refuse
  <2> QED
    BY Zenon, <1>1, <1>2, <1>3, <1>5, <2>1, <2>2
       DEF handle_client, Serve, Recv, RecvFails, OriginFails, RelayEnd, RelayFails
<1> QED
  BY Zenon, <1>1, <1>2, <1>5
     DEF Next, vars, Parent, accept, fork, CloseInParent, Environment, Connect, SendUnit,
         Shutdown, Leave

-----------------------------------------------------------------------------
(* The places of a connection and the sockets.                             *)

\* What accept takes from the kernel's queue.
LEMMA AcceptFacts ==
    ASSUME ParentType, PlaceInv, accept
    PROVE  /\ Head(backlog) \in Client /\ Head(backlog) \in Range(backlog)
           /\ \A c : c \in Range(backlog') <=> c \in Range(backlog) /\ c # Head(backlog)
           /\ \A i, j \in 1 .. Len(backlog') : backlog'[i] = backlog'[j] => i = j
<1>1. /\ Len(backlog) \in Nat /\ Len(backlog) >= 1 /\ backlog[1] = Head(backlog)
      /\ Head(backlog) \in Client
      /\ DOMAIN backlog = 1 .. Len(backlog)
      /\ DOMAIN backlog' = 1 .. Len(backlog')
      /\ Len(backlog') = Len(backlog) - 1
      /\ \A i \in 1 .. Len(backlog') : backlog'[i] = backlog[i + 1]
  BY DEF accept, ParentType
<1>2. \A i, j \in 1 .. Len(backlog) : backlog[i] = backlog[j] => i = j
  BY DEF PlaceInv
<1>3. \A i, j \in 1 .. Len(backlog') : backlog'[i] = backlog'[j] => i = j
  BY <1>1, <1>2
<1>4. ASSUME NEW c
      PROVE  c \in Range(backlog') <=> c \in Range(backlog) /\ c # Head(backlog)
  <2>1. /\ c \in Range(backlog) <=> \E i \in 1 .. Len(backlog) : backlog[i] = c
        /\ c \in Range(backlog') <=> \E i \in 1 .. Len(backlog') : backlog'[i] = c
    BY <1>1 DEF Range
  <2>2. ASSUME NEW i \in 1 .. Len(backlog'), backlog'[i] = c
        PROVE  c \in Range(backlog) /\ c # Head(backlog)
    BY <1>1, <1>2, <2>1, <2>2
  <2>3. ASSUME NEW i \in 1 .. Len(backlog), backlog[i] = c, c # Head(backlog)
        PROVE  c \in Range(backlog')
    <3>1. i - 1 \in 1 .. Len(backlog') /\ backlog'[i - 1] = c
      BY <1>1, <2>3
    <3> QED BY <2>1, <3>1
  <2> QED BY <2>1, <2>2, <2>3
<1>5. Head(backlog) \in Range(backlog)
  BY <1>1 DEF Range
<1> QED BY <1>1, <1>3, <1>4, <1>5

\* What connect adds to it.
LEMMA ConnectFacts ==
    ASSUME ParentType, PlaceInv, NEW c \in Client, Connect(c)
    PROVE  /\ \A d : d \in Range(backlog') <=> d \in Range(backlog) \/ d = c
           /\ \A i, j \in 1 .. Len(backlog') : backlog'[i] = backlog'[j] => i = j
<1>1. /\ Len(backlog) \in Nat
      /\ DOMAIN backlog = 1 .. Len(backlog)
      /\ DOMAIN backlog' = 1 .. Len(backlog')
      /\ Len(backlog') = Len(backlog) + 1
      /\ backlog'[Len(backlog) + 1] = c
      /\ \A i \in 1 .. Len(backlog) : backlog'[i] = backlog[i]
  BY DEF Connect, ParentType
<1>2. /\ \A i, j \in 1 .. Len(backlog) : backlog[i] = backlog[j] => i = j
      /\ c \notin Range(backlog)
  BY DEF PlaceInv, Connect
<1>3. \A i \in 1 .. Len(backlog) : backlog[i] # c
  BY <1>1, <1>2 DEF Range
<1>4. \A i \in 1 .. Len(backlog') : i \in 1 .. Len(backlog) \/ i = Len(backlog) + 1
  BY <1>1
<1>5. \A d : d \in Range(backlog') <=> d \in Range(backlog) \/ d = c
  BY <1>1, <1>4 DEF Range
<1>6. \A i, j \in 1 .. Len(backlog') : backlog'[i] = backlog'[j] => i = j
  BY <1>1, <1>2, <1>3, <1>4
<1> QED BY <1>5, <1>6

LEMMA PlaceStep == ProxyInv /\ [Next]_vars => PlaceInv'
<1> SUFFICES ASSUME ParentType, ClientType, PlaceInv, [Next]_vars PROVE PlaceInv'
  BY DEF ProxyInv, TypeOK
<1>0. None \notin Client /\ open \in [Client -> {"new", "both", "read", "none"}]
  BY ProxyAssumption DEF ClientType
<1>1. CASE UNCHANGED vars
  BY <1>1 DEF vars, parentVars, clientVars, PlaceInv
<1>2. CASE accept
  <2>1. parent' = [at |-> "fork", client |-> Head(backlog)]
        /\ holders' = [holders EXCEPT ![Head(backlog)] = {"parent"}]
        /\ UNCHANGED <<child, open>>
    BY <1>2 DEF accept, clientVars
  <2>2. parent'.at = "fork" /\ parent'.client = Head(backlog)
    BY <2>1
  <2>3. \A c \in Client : c # Head(backlog) => holders'[c] = holders[c]
    BY <2>1 DEF ParentType
  <2>4. child[Head(backlog)] = "none" /\ open[Head(backlog)] # "new"
    BY <1>2, AcceptFacts DEF PlaceInv
  <2> QED BY <1>0, <1>2, <2>1, <2>2, <2>3, <2>4, AcceptFacts DEF PlaceInv
<1>3. CASE fork \/ CloseInParent
  <2>0. parent.client \in Client /\ UNCHANGED <<backlog, open>>
    BY <1>3 DEF fork, CloseInParent, ParentType, PlaceInv, clientVars
  <2>1. \/ parent'.at = "close" /\ parent'.client = parent.client
        \/ parent'.at = "accept" /\ parent'.client = None
    BY <1>3 DEF fork, CloseInParent, ParentType
  <2>2. \A c \in Client : c # parent.client => child'[c] = child[c] /\ holders'[c] = holders[c]
    BY <1>3 DEF fork, CloseInParent, ParentType
  <2> QED BY <1>0, <2>0, <2>1, <2>2 DEF PlaceInv
<1>4. ASSUME NEW c \in Client, Environment(c)
      PROVE  PlaceInv'
  <2>1. CASE Connect(c)
    <3>1. /\ UNCHANGED <<parent, child, holders>> /\ open[c] = "new" /\ open'[c] = "both"
          /\ \A d \in Client : d # c => open'[d] = open[d]
      BY <1>0, <2>1 DEF Connect
    <3> QED BY <2>1, <3>1, ConnectFacts DEF PlaceInv
  <2>2. CASE ~Connect(c)
    <3>1. /\ UNCHANGED <<parent, holders, child, backlog>>
          /\ \A d \in Client : open'[d] = "new" <=> open[d] = "new"
      <4>1. Shutdown(c) \/ Leave(c) \/ UNCHANGED open
        BY Zenon, <1>4, <2>2 DEF Environment, SendUnit, OriginSends, OriginEnds, clientVars
      <4>2. \A d \in Client : open'[d] = "new" <=> open[d] = "new"
        BY <1>0, <4>1 DEF Shutdown, Leave
      <4> QED BY Zenon, <1>4, <2>2, <4>2, EnvironmentSteps
    <3> QED BY <3>1 DEF PlaceInv
  <2> QED BY <2>1, <2>2
<1>5. ASSUME NEW c \in Client, handle_client(c)
      PROVE  PlaceInv'
  <2>1. ChildStep(c)
    BY <1>5, ChildSteps
  <2>2. /\ child[c] # "none" /\ UNCHANGED <<parent, backlog, open>>
        /\ \A d \in Client : d # c => child'[d] = child[d] /\ holders'[d] = holders[d]
    BY <2>1 DEF ChildStep, Serving, Goto, Exit, parentVars, clientVars, ParentType
  <2>3. ~(c \in Range(backlog) \/ open[c] = "new")
    BY <2>2 DEF PlaceInv
  <2>4. parent.at = "fork" => parent.client # c /\ parent.client \in Client
    BY <2>2 DEF PlaceInv, ParentType
  <2> QED BY <2>2, <2>3, <2>4 DEF PlaceInv
<1> QED BY Zenon, <1>1, <1>2, <1>3, <1>4, <1>5 DEF Next, Parent

LEMMA SocketsStep == ProxyInv /\ [Next]_vars => SocketsReleased'
<1> SUFFICES ASSUME ParentType, PlaceInv, SocketsReleased, [Next]_vars
             PROVE SocketsReleased'
  BY DEF ProxyInv, TypeOK
<1>0. None \notin Client
  BY ProxyAssumption
<1>1. CASE UNCHANGED <<parent, child, holders>>
  BY <1>1 DEF SocketsReleased
<1>2. CASE accept
  <2>1. /\ parent.client = None
        /\ parent'.client = Head(backlog) /\ UNCHANGED child
        /\ holders'[Head(backlog)] = {"parent"}
        /\ \A c \in Client : c # Head(backlog) => holders'[c] = holders[c]
    BY <1>2, AcceptFacts DEF accept, ParentType, PlaceInv
  <2>2. child[Head(backlog)] = "none"
    BY <1>2, AcceptFacts DEF PlaceInv
  <2> QED BY <1>0, <2>1, <2>2 DEF SocketsReleased
<1>3. CASE fork
  <2>1. parent.client \in Client /\ child[parent.client] = "none"
        /\ parent'.client = parent.client
    BY <1>3 DEF fork, ParentType, PlaceInv
  <2>2. /\ \A c \in Client : c # parent.client => child'[c] = child[c] /\ holders'[c] = holders[c]
        /\ \/ /\ child'[parent.client] = "recv"
              /\ holders'[parent.client] = holders[parent.client] \cup {"child"}
           \/ UNCHANGED <<child, holders>>
    BY <1>3, <2>1 DEF fork, ParentType
  <2> QED BY <2>1, <2>2 DEF SocketsReleased
<1>4. CASE CloseInParent
  <2>1. /\ parent.client \in Client /\ UNCHANGED child
        /\ holders'[parent.client] = holders[parent.client] \ {"parent"}
        /\ \A c \in Client : c # parent.client => holders'[c] = holders[c]
    BY <1>4 DEF CloseInParent, ParentType, PlaceInv
  <2> QED BY <2>1 DEF SocketsReleased
<1>5. ASSUME NEW c \in Client, handle_client(c)
      PROVE  SocketsReleased'
  <2>1. ChildStep(c)
    BY <1>5, ChildSteps
  <2>2. /\ UNCHANGED parent
        /\ \A d \in Client : d # c => child'[d] = child[d] /\ holders'[d] = holders[d]
        /\ \/ UNCHANGED <<child, holders>>
           \/ child[c] \in Serving /\ child'[c] \in Serving /\ UNCHANGED holders
           \/ child'[c] = "zombie" /\ holders'[c] = holders[c] \ {"child"}
    BY <2>1 DEF ChildStep, Goto, Exit, parentVars, ParentType
  <2> QED BY <2>2 DEF SocketsReleased, Serving
<1> QED
  BY Zenon, <1>1, <1>2, <1>3, <1>4, <1>5, EnvironmentSteps DEF Next, Parent, vars,
       parentVars

-----------------------------------------------------------------------------
(* The reply.                                                              *)

Same(c) ==
    /\ child'[c] = child[c] /\ origin'[c] = origin[c]
    /\ forwarded'[c] = forwarded[c] /\ reply'[c] = reply[c]
    /\ open[c] = "none" => open'[c] = "none"

LEMMA SameReply ==
    ASSUME NEW c \in Client, ReplyOf(c), Same(c)
    PROVE  ReplyOf(c)'
  BY DEF ReplyOf, Same

\* A step for one client is none for the others.
LEMMA OtherClients ==
    ASSUME TypeOK, NEW c \in Client, Environment(c) \/ handle_client(c),
           NEW d \in Client, d # c
    PROVE  Same(d)
<1>0. /\ child \in [Client -> Places]
      /\ open \in [Client -> {"new", "both", "read", "none"}]
      /\ forwarded \in [Client -> Forwarded \cup {None}]
      /\ origin \in [Client -> [state : {"none", "open", "closed", "reset"}, chunks : 0 .. MaxChunks]]
  BY DEF TypeOK, ParentType, ClientType, OriginType
<1>1. CASE Environment(c)
  <2>1. UNCHANGED <<child, forwarded, reply>>
    BY Zenon, <1>1, EnvironmentSteps
  <2>2. open'[d] = open[d]
    BY <1>0, <1>1, EnvironmentSteps DEF Connect
  <2>4. UNCHANGED origin \/ OriginSends(c) \/ OriginEnds(c)
    BY Zenon, <1>1 DEF Environment, Connect, SendUnit, Shutdown, Leave
  <2>3. origin'[d] = origin[d]
    BY <1>0, <2>4 DEF OriginSends, OriginEnds
  <2> QED BY <2>1, <2>2, <2>3 DEF Same
<1>2. CASE handle_client(c)
  <2>1. ChildStep(c)
    BY <1>2, ChildSteps
  <2>2. child'[d] = child[d] /\ UNCHANGED open
    BY <1>0, <2>1 DEF ChildStep, Goto, Exit, clientVars
  <2>3. UNCHANGED origin \/ ConnectOrigin(c)
    BY Zenon, <1>2 DEF handle_client, Serve, Recv, RecvFails, ParseAndCheck, Refuse,
       SendRequest, OriginFails, Relay, RelayEnd, RelayFails
  <2>4. origin'[d] = origin[d]
    BY <1>0, <2>3 DEF ConnectOrigin
  <2>5. UNCHANGED forwarded \/ SendRequest(c)
    BY Zenon, <1>2 DEF handle_client, Serve, Recv, RecvFails, ParseAndCheck, Refuse,
       ConnectOrigin, OriginFails, Relay, RelayEnd, RelayFails
  <2>6. forwarded'[d] = forwarded[d]
    BY <1>0, <2>5 DEF SendRequest
  <2>7. UNCHANGED reply \/ \E item : Deliver(c, item)
    BY Zenon, <1>2 DEF handle_client, Serve, Recv, RecvFails, ParseAndCheck, Refuse,
       ConnectOrigin, SendRequest, OriginFails, Relay, RelayEnd, RelayFails
  <2>8. reply'[d] = reply[d]
    BY <2>7 DEF Deliver, TypeOK, OriginType
  <2> QED BY <2>2, <2>4, <2>6, <2>8 DEF Same
<1> QED BY <1>1, <1>2

\* The places in which nothing has been sent to the client.
LEMMA ReplyEnvironment ==
    ASSUME TypeOK, NEW c \in Client, ReplyOf(c), Environment(c)
    PROVE  ReplyOf(c)'
<1>0. /\ open[c] \in {"new", "both", "read", "none"}
      /\ open \in [Client -> {"new", "both", "read", "none"}]
      /\ origin \in [Client -> [state : {"none", "open", "closed", "reset"}, chunks : 0 .. MaxChunks]]
      /\ child[c] \in Places /\ Len(reply[c]) \in Nat
  BY DEF TypeOK, ParentType, ClientType, OriginType
<1>1. CASE UNCHANGED origin
  <2>0. Connect(c) \/ Shutdown(c) \/ UNCHANGED open \/ open' = [open EXCEPT ![c] = "none"]
    BY Zenon DEF Environment, SendUnit, Leave, OriginSends, OriginEnds, clientVars
  <2>1. open[c] = "none" => open'[c] = "none"
    BY <1>0, <2>0 DEF Connect, Shutdown
  <2> QED BY <1>1, <2>1, SameReply, EnvironmentSteps DEF Same
<1>2. CASE OriginSends(c)
  <2>1. /\ forwarded[c] # None /\ origin[c].state = "open"
        /\ origin'[c].state = "open" /\ origin'[c].chunks = origin[c].chunks + 1
        /\ origin[c].chunks \in Nat
        /\ UNCHANGED <<child, open, forwarded, reply>>
    BY <1>0, <1>2, ProxyAssumption DEF OriginSends, clientVars
  <2> QED BY <1>0, <2>1 DEF ReplyOf
<1>3. CASE OriginEnds(c)
  <2>1. /\ origin[c].state = "open"
        /\ \/ forwarded[c] # None /\ origin'[c].state = "closed"
           \/ origin'[c].state = "reset"
        /\ origin'[c].chunks = origin[c].chunks
        /\ UNCHANGED <<child, open, forwarded, reply>>
    BY <1>0, <1>3 DEF OriginEnds, clientVars
  <2> QED BY <1>0, <2>1 DEF ReplyOf, Places
<1> QED
  BY Zenon, <1>1, <1>2, <1>3 DEF Environment, Connect, SendUnit, Shutdown, Leave

LEMMA ReplyChild ==
    ASSUME TypeOK, NEW c \in Client, ReplyOf(c), handle_client(c)
    PROVE  ReplyOf(c)'
<1>0. /\ child \in [Client -> Places]
      /\ origin \in [Client -> [state : {"none", "open", "closed", "reset"}, chunks : 0 .. MaxChunks]]
      /\ forwarded \in [Client -> Forwarded \cup {None}]
      /\ Len(reply[c]) \in Nat /\ origin[c].chunks \in Nat
      /\ OriginType
  BY ProxyAssumption DEF TypeOK, ParentType, OriginType
<1>1. CASE UNCHANGED <<child, holders, open, forwarded, origin, reply>>
  BY <1>1, SameReply DEF Same
<1>2. ASSUME UNCHANGED <<open, forwarded, origin, reply>>, child[c] \in {"recv", "parse", "connect"},
             child'[c] \in {"recv", "parse", "connect", "zombie"}
      PROVE  ReplyOf(c)'
  BY <1>2 DEF ReplyOf
<1>3. CASE Recv(c) \/ RecvFails(c)
  <2>1. UNCHANGED <<open, forwarded, origin, reply>> /\ child[c] = "recv"
    BY Zenon, <1>3 DEF Recv, RecvFails, clientVars
  <2>2. UNCHANGED child \/ Goto(c, "parse") \/ Exit(c)
    BY Zenon, <1>3 DEF Recv, RecvFails
  <2>3. child'[c] \in {"recv", "parse", "zombie"}
    BY <1>0, <2>1, <2>2 DEF Goto, Exit
  <2> QED BY <1>2, <2>1, <2>3
<1>4. CASE ParseAndCheck(c)
  <2>1. ASSUME NEW code \in {400, 501}, Refuse(c, code)
        PROVE  ReplyOf(c)'
    <3>1. /\ child[c] = "parse" /\ child'[c] = "zombie"
          /\ UNCHANGED <<open, forwarded, origin>> /\ Deliver(c, Status(code))
      BY <1>0, <1>4, <2>1 DEF ParseAndCheck, Refuse, Exit, clientVars
    <3>2. /\ reply[c] = <<>> /\ forwarded[c] = None /\ origin[c].state = "none"
          /\ origin[c].chunks = 0
      BY <3>1 DEF ReplyOf
    <3>3. Status(code) \in Items
      BY ZenonT(30) DEF Items
    <3>4. reply'[c] = <<>> \/ reply'[c] = <<Status(code)>>
      BY <1>0, <3>1, <3>2, <3>3, DeliverFacts
    <3> QED BY <3>1, <3>2, <3>4 DEF ReplyOf
  <2>2. CASE Goto(c, "connect") /\ UNCHANGED <<open, forwarded, origin, reply>>
    BY <1>0, <1>2, <1>4, <2>2 DEF ParseAndCheck, Goto
  <2> QED BY ZenonT(30), <1>4, <2>1, <2>2 DEF ParseAndCheck, clientVars
<1>5. CASE ConnectOrigin(c)
  <2>1. /\ child[c] = "connect" /\ child'[c] = "send"
        /\ origin'[c].state = "open" /\ origin'[c].chunks = origin[c].chunks
        /\ UNCHANGED <<open, forwarded, reply>>
    BY <1>0, <1>5 DEF ConnectOrigin, Goto, clientVars
  <2> QED BY <2>1 DEF ReplyOf
<1>6. CASE SendRequest(c)
  <2>1. /\ child[c] = "send" /\ child'[c] = "relay" /\ UNCHANGED <<open, origin, reply>>
    BY <1>0, <1>6 DEF SendRequest, Goto, clientVars
  <2> QED BY <2>1 DEF ReplyOf
<1>7. CASE OriginFails(c)
  <2>1. /\ child[c] = "connect" \/ (child[c] = "send" /\ origin[c].state = "reset")
        /\ child'[c] = "zombie" /\ UNCHANGED <<open, forwarded, origin, reply>>
    BY <1>0, <1>7 DEF OriginFails, Exit, clientVars
  <2> QED BY <2>1 DEF ReplyOf
<1>8. CASE Relay(c)
  <2>1. /\ child[c] = "relay" /\ UNCHANGED <<open, forwarded, origin>>
        /\ \/ open[c] # "none" /\ UNCHANGED child
           \/ open[c] = "none" /\ child'[c] = "zombie"
    BY <1>0, <1>8 DEF Relay, Exit, clientVars
  <2>2. /\ \A i \in 1 .. Len(reply[c]) : reply[c][i] = Chunk(i)
        /\ Len(reply[c]) < origin[c].chunks
    BY <1>0, <1>8, <2>1, RelayFacts DEF ReplyOf
  <2>3. CASE open[c] = "none"
    <3>1. reply'[c] = reply[c]
      BY <1>0, <1>8, <2>3, RelayFacts, DeliverFacts
    <3>2. Len(reply[c]) <= origin[c].chunks
      BY <1>0, <2>2
    <3>3. child'[c] = "zombie" /\ open'[c] = "none" /\ UNCHANGED <<forwarded, origin>>
      BY <2>1, <2>3
    <3> QED BY <2>2, <3>1, <3>2, <3>3 DEF ReplyOf
  <2>4. CASE open[c] # "none"
    <3>1. /\ Len(reply'[c]) = Len(reply[c]) + 1
          /\ reply'[c][Len(reply[c]) + 1] = Chunk(Len(reply[c]) + 1)
          /\ \A i \in 1 .. Len(reply[c]) : reply'[c][i] = reply[c][i]
      BY <1>0, <1>8, <2>4, RelayFacts, DeliverFacts
    <3>2. \A i \in 1 .. Len(reply'[c]) : i \in 1 .. Len(reply[c]) \/ i = Len(reply[c]) + 1
      BY <1>0, <3>1
    <3>3. \A i \in 1 .. Len(reply'[c]) : reply'[c][i] = Chunk(i)
      BY Zenon, <2>2, <3>1, <3>2
    <3>4. Len(reply'[c]) <= origin'[c].chunks
      BY <1>0, <2>1, <2>2, <3>1
    <3> QED BY <2>1, <2>4, <3>3, <3>4 DEF ReplyOf
  <2> QED BY <2>3, <2>4
<1>9. CASE RelayEnd(c) \/ RelayFails(c)
  <2>1. /\ child[c] = "relay" /\ child'[c] = "zombie"
        /\ UNCHANGED <<open, forwarded, origin, reply>>
        /\ \/ origin[c].state = "reset"
           \/ /\ origin[c].state = "closed"
              /\ Len(reply[c]) = origin[c].chunks \/ open[c] = "none"
    BY <1>0, <1>9 DEF RelayEnd, RelayFails, Exit, clientVars
  <2> QED BY <2>1 DEF ReplyOf
<1> QED
  BY Zenon, <1>3, <1>4, <1>5, <1>6, <1>7, <1>8, <1>9 DEF handle_client, Serve

LEMMA ReplyStep == ProxyInv /\ [Next]_vars => ReplyInv'
<1> SUFFICES ASSUME TypeOK, PlaceInv, ReplyInv, [Next]_vars, NEW c \in Client
             PROVE  ReplyOf(c)'
  BY DEF ProxyInv, ReplyInv
<1>0. ReplyOf(c)
  BY DEF ReplyInv
<1>1. CASE UNCHANGED vars \/ accept \/ CloseInParent
  BY <1>0, <1>1, SameReply DEF Same, vars, parentVars, clientVars, accept, CloseInParent
<1>2. CASE fork
  <2>1. /\ parent.client \in Client /\ child[parent.client] = "none"
        /\ UNCHANGED <<open, forwarded, origin, reply>>
    BY <1>2 DEF fork, clientVars, TypeOK, ParentType, PlaceInv
  <2>2. \/ child'[c] = child[c]
        \/ child[c] = "none" /\ child'[c] = "recv"
    BY <1>2, <2>1 DEF fork, TypeOK, ParentType
  <2>3. CASE child'[c] = child[c]
    BY <1>0, <2>1, <2>3, SameReply DEF Same
  <2>4. CASE child[c] = "none" /\ child'[c] = "recv"
    BY <1>0, <2>1, <2>4 DEF ReplyOf
  <2> QED BY <2>2, <2>3, <2>4
<1>3. ASSUME NEW d \in Client, Environment(d) \/ handle_client(d)
      PROVE  ReplyOf(c)'
  BY Zenon, <1>0, <1>3, OtherClients, SameReply, ReplyEnvironment, ReplyChild
<1> QED BY Zenon, <1>1, <1>2, <1>3 DEF Next, Parent

-----------------------------------------------------------------------------
(* The theorems.                                                           *)

\* The types, the place of each connection, its descriptors and what its client
\* has been sent, together: no step of proxy(), of a process that runs
\* handle_client, of a client or of an origin server breaks them.
THEOREM ProxyInvariance == Spec => []ProxyInv
<1>1. ProxyInv /\ [Next]_vars => ProxyInv'
  BY Zenon, ParentTypeStep, ClientTypeStep, OriginTypeStep, PlaceStep, SocketsStep,
       ReplyStep
     DEF ProxyInv, TypeOK
<1> QED BY InitInv, <1>1, PTL DEF Spec

\* For any number of clients: outside of its work on one connection the parent
\* has no client's socket, and a process that has ended has none.
THEOREM SocketsAreReleased == Spec => []SocketsReleased
<1>1. ProxyInv => SocketsReleased
  BY ZenonT(30) DEF ProxyInv
<1> QED BY ProxyInvariance, <1>1, PTL

\* For any number of clients and any length of the responses: what handle_client
\* sends a client is one status, or a prefix of the response that is all of it
\* if the client reads the end of the stream after the server closed normally.
THEOREM RepliesAreResponses == Spec => []ReplyIsResponse
<1>1. ProxyInv => ReplyIsResponse
  <2> SUFFICES ASSUME ProxyInv, NEW c \in Client
               PROVE  \/ forwarded[c] = None /\ \E code \in {400, 501} : reply[c] = <<Status(code)>>
                      \/ /\ reply[c] = [i \in 1 .. Len(reply[c]) |-> Chunk(i)]
                         /\ Len(reply[c]) <= origin[c].chunks
                         /\ Released(c) /\ origin[c].state = "closed" /\ open[c] # "none"
                              => Len(reply[c]) = origin[c].chunks
    BY Zenon DEF ReplyIsResponse
  <2>1. ReplyOf(c) /\ SocketsReleased
    BY Zenon DEF ProxyInv, ReplyInv
  <2>2. CASE forwarded[c] = None /\ \E code \in {400, 501} : reply[c] = <<Status(code)>>
    BY <2>2
  <2>3. CASE ~(forwarded[c] = None /\ \E code \in {400, 501} : reply[c] = <<Status(code)>>)
    <3>1. /\ \A i \in 1 .. Len(reply[c]) : reply[c][i] = Chunk(i)
          /\ Len(reply[c]) <= origin[c].chunks
      BY ZenonT(30), <2>1, <2>3 DEF ReplyOf
    <3>2. reply[c] \in Seq(Items)
      BY DEF ProxyInv, TypeOK, OriginType
    <3>3. reply[c] = [i \in 1 .. Len(reply[c]) |-> Chunk(i)]
      <4>1. reply[c] = [i \in 1 .. Len(reply[c]) |-> reply[c][i]]
        BY <3>2
      <4> QED BY Zenon, <3>1, <4>1
    <3>4. ASSUME Released(c), origin[c].state = "closed", open[c] # "none"
          PROVE  Len(reply[c]) = origin[c].chunks
      <4>1. child[c] \in {"none", "zombie"}
        BY <2>1, <3>4 DEF Released, SocketsReleased
      <4>2. child[c] # "none"
        BY <2>1, <3>4 DEF ReplyOf
      <4> QED BY <2>1, <3>4, <4>1, <4>2 DEF ReplyOf
    <3> QED BY Zenon, <3>1, <3>3, <3>4
  <2> QED BY <2>2, <2>3
<1> QED BY ProxyInvariance, <1>1, PTL

-----------------------------------------------------------------------------
(* The table of headers.                                                   *)

\* No two slots of table p hold the same header.
Unique(p) ==
    \A i, j \in 1 .. Len(p.headers) :
        p.headers[i].key = p.headers[j].key /\ p.headers[i].key # NULL => i = j

\* What ParsedHeader_get finds in table p.
ValueIn(p, k) ==
    LET i == ParsedHeader_get(p, k) IN IF i = 0 THEN NoValue ELSE p.headers[i].value

\* Once the table is not live the map has ended.
Ended == status # "live" => call = <<"end">>

TableInv == TableOK /\ OneSlotPerKey /\ SlotLeft /\ Ended

-----------------------------------------------------------------------------
(* The operators.                                                          *)

\* The slots of a table are what they should be.
LEMMA TableFacts ==
    ASSUME NEW p \in Table
    PROVE  /\ p.headers \in Seq(Slot) /\ p.headerslen \in Nat /\ Len(p.headers) \in Nat
           /\ DOMAIN p.headers = 1 .. Len(p.headers)
           /\ \A i \in 1 .. Len(p.headers) : p.headers[i] \in Slot
  BY DEF Table

\* ParsedHeader_get returns the slot of a name, or 0 if it has none.
LEMMA GetFacts ==
    ASSUME NEW p \in Table, Unique(p), NEW k \in Keys
    PROVE  /\ ParsedHeader_get(p, k) = 0 <=> SlotsOf(p, k) = {}
           /\ \A i \in SlotsOf(p, k) : ParsedHeader_get(p, k) = i
<1>1. SlotsOf(p, k) \subseteq 1 .. Len(p.headers) /\ Len(p.headers) \in Nat
  BY TableFacts DEF SlotsOf
<1>2. \A i, j \in SlotsOf(p, k) : i = j
  BY HeaderAssumption DEF SlotsOf, Unique
<1>3. ASSUME NEW i \in SlotsOf(p, k)
      PROVE  ParsedHeader_get(p, k) = i
  <2>1. \A j \in SlotsOf(p, k) : i <= j
    BY <1>1, <1>2
  <2>2. ParsedHeader_get(p, k) = CHOOSE n \in SlotsOf(p, k) : \A j \in SlotsOf(p, k) : n <= j
    BY DEF ParsedHeader_get
  <2>3. ParsedHeader_get(p, k) \in SlotsOf(p, k)
    BY <2>1, <2>2
  <2> QED
    BY <2>3, <1>2
<1>4. ASSUME SlotsOf(p, k) = {}
      PROVE  ParsedHeader_get(p, k) = 0
  BY <1>4 DEF ParsedHeader_get
<1>5. ASSUME ParsedHeader_get(p, k) = 0
      PROVE  SlotsOf(p, k) = {}
  BY <1>1, <1>3, <1>5
<1> QED
  BY <1>3, <1>4, <1>5

\* The value found is that of the slot with the name.
LEMMA ValueFacts ==
    ASSUME NEW p \in Table, Unique(p), NEW k \in Keys
    PROVE  /\ SlotsOf(p, k) = {} => ValueIn(p, k) = NoValue
           /\ \A i \in SlotsOf(p, k) : ValueIn(p, k) = p.headers[i].value
<1>1. SlotsOf(p, k) \subseteq 1 .. Len(p.headers) /\ Len(p.headers) \in Nat
  BY TableFacts DEF SlotsOf
<1> QED
  BY <1>1, GetFacts DEF ValueIn

\* Removing a name clears its slot and no other.
LEMMA RemoveFacts ==
    ASSUME NEW p \in Table, Unique(p), NEW k \in Keys, NEW q, q = ParsedHeader_remove(p, k)
    PROVE  /\ q \in Table /\ Unique(q)
           /\ Len(q.headers) = Len(p.headers) /\ q.headerslen = p.headerslen
           /\ SlotsOf(q, k) = {}
           /\ \A j \in Keys : j # k =>
                /\ SlotsOf(q, j) = SlotsOf(p, j)
                /\ \A i \in SlotsOf(p, j) : q.headers[i] = p.headers[i]
<1>1. CASE ParsedHeader_get(p, k) = 0
  BY <1>1, GetFacts DEF ParsedHeader_remove
<1>2. CASE ParsedHeader_get(p, k) # 0
  <2> DEFINE n == ParsedHeader_get(p, k)
             cleared == [p.headers[n] EXCEPT !.key = NULL]
  <2>1. n \in SlotsOf(p, k) /\ SlotsOf(p, k) = {n}
    BY <1>2, GetFacts
  <2>2. n \in 1 .. Len(p.headers) /\ p.headers[n].key = k /\ Len(p.headers) \in Nat
    BY <2>1, TableFacts DEF SlotsOf
  <2>3. q = [p EXCEPT !.headers = [p.headers EXCEPT ![n] = cleared]]
    BY <1>2 DEF ParsedHeader_remove
  <2>4. q.headers = [p.headers EXCEPT ![n] = cleared] /\ q.headerslen = p.headerslen
    BY <2>3 DEF Table
  <2>5. cleared \in Slot /\ cleared.key = NULL
    BY <2>2, TableFacts DEF Slot
  <2>6. q.headers \in Seq(Slot) /\ Len(q.headers) = Len(p.headers)
    BY <2>2, <2>4, <2>5, TableFacts
  <2>7. /\ q.headers[n].key = NULL
        /\ \A i \in 1 .. Len(p.headers) : i # n => q.headers[i] = p.headers[i]
    BY <2>2, <2>4, <2>5, TableFacts
  <2>8. q \in Table
    BY Zenon, <2>3, <2>4, <2>6, TableFacts DEF Table
  <2>9. Unique(q)
    BY <2>6, <2>7 DEF Unique
  <2>10. SlotsOf(q, k) = {}
    BY <2>1, <2>6, <2>7, HeaderAssumption DEF SlotsOf
  <2>11. ASSUME NEW j \in Keys, j # k
         PROVE  /\ SlotsOf(q, j) = SlotsOf(p, j)
                /\ \A i \in SlotsOf(p, j) : q.headers[i] = p.headers[i]
    BY <2>2, <2>6, <2>7, <2>11, HeaderAssumption DEF SlotsOf
  <2> QED
    BY <2>4, <2>6, <2>8, <2>9, <2>10, <2>11
<1> QED
  BY <1>1, <1>2

\* Growing the array leaves the slots alone and leaves room for one more.
LEMMA GrowFacts ==
    ASSUME NEW p \in Table, Len(p.headers) < p.headerslen, NEW q, q = Grow(p)
    PROVE  /\ q \in Table /\ q.headers = p.headers
           /\ Len(q.headers) + 1 < q.headerslen
<1>1. p.headerslen \in Nat /\ Len(p.headers) \in Nat
  BY TableFacts
<1>2. CASE Full(p)
  <2>1. q = [p EXCEPT !.headerslen = 2 * p.headerslen]
    BY <1>2 DEF Grow
  <2>2. q.headers = p.headers /\ q.headerslen = 2 * p.headerslen /\ q \in Table
    BY <2>1, <1>1 DEF Table
  <2>3. p.headerslen <= Len(p.headers) + 1
    BY <1>2 DEF Full
  <2> QED
    BY <1>1, <2>2, <2>3
<1>3. CASE ~Full(p)
  BY <1>1, <1>3 DEF Grow, Full
<1> QED
  BY <1>2, <1>3

\* Setting a header gives its name one slot, the last, and moves no other.
LEMMA SetFacts ==
    ASSUME NEW p \in Table, Unique(p), Len(p.headers) < p.headerslen,
           NEW k \in Keys, NEW v \in Values, NEW q, q = ParsedHeader_set(p, k, v)
    PROVE  /\ q \in Table /\ Unique(q) /\ Len(q.headers) < q.headerslen
           /\ ValueIn(q, k) = v
           /\ \A j \in Keys : j # k => ValueIn(q, j) = ValueIn(p, j)
<1> DEFINE r == ParsedHeader_remove(p, k)
           g == Grow(r)
           slot == [key |-> k, value |-> v]
           n == Len(g.headers) + 1
<1>1. /\ r \in Table /\ Unique(r)
      /\ Len(r.headers) = Len(p.headers) /\ r.headerslen = p.headerslen
      /\ SlotsOf(r, k) = {}
      /\ \A j \in Keys : j # k =>
            /\ SlotsOf(r, j) = SlotsOf(p, j)
            /\ \A i \in SlotsOf(p, j) : r.headers[i] = p.headers[i]
  BY RemoveFacts
<1>2. g \in Table /\ g.headers = r.headers /\ n < g.headerslen
  BY <1>1, GrowFacts
<1>3. q = [g EXCEPT !.headers = Append(g.headers, slot)]
  BY DEF ParsedHeader_set, Add
<1>4. q.headers = Append(g.headers, slot) /\ q.headerslen = g.headerslen
  BY <1>2, <1>3 DEF Table
<1>5. slot \in Slot /\ g.headers \in Seq(Slot) /\ Len(g.headers) \in Nat /\ g.headerslen \in Nat
  BY Zenon, <1>2, TableFacts DEF Slot
<1>6. /\ q.headers \in Seq(Slot) /\ Len(q.headers) = n /\ q.headers[n] = slot
      /\ \A i \in 1 .. Len(g.headers) : q.headers[i] = r.headers[i]
  BY <1>2, <1>4, <1>5
<1>7. q \in Table
  BY Zenon, <1>3, <1>5, <1>6, <1>2 DEF Table
<1>8. \A i \in 1 .. n : i = n \/ i \in 1 .. Len(r.headers)
  BY <1>2, <1>5
<1>9. \A i \in 1 .. Len(r.headers) : r.headers[i].key # k /\ i \in 1 .. n
  BY <1>1, <1>2, <1>5 DEF SlotsOf
<1>10. Unique(q)
  <2> SUFFICES ASSUME NEW i \in 1 .. n, NEW j \in 1 .. n,
                      q.headers[i].key = q.headers[j].key, q.headers[i].key # NULL
               PROVE  i = j
    BY <1>6 DEF Unique
  <2>1. q.headers[n].key = k
    BY <1>6
  <2>2. \A m \in 1 .. Len(r.headers) : q.headers[m] = r.headers[m] /\ r.headers[m].key # k
    BY <1>2, <1>6, <1>9
  <2>3. CASE i = n \/ j = n
    BY <2>1, <2>2, <2>3, <1>8
  <2>4. CASE i \in 1 .. Len(r.headers) /\ j \in 1 .. Len(r.headers)
    BY <2>2, <2>4, <1>1 DEF Unique
  <2> QED
    BY <2>3, <2>4, <1>8
<1>11. n \in 1 .. n /\ n \notin 1 .. Len(r.headers)
  BY Zenon, <1>2, <1>5, LastPlace
<1>12. n \in SlotsOf(q, k)
  BY <1>6, <1>11 DEF SlotsOf
<1>13. ValueIn(q, k) = v
  BY <1>6, <1>7, <1>10, <1>12, ValueFacts
<1>14. ASSUME NEW j \in Keys, j # k
       PROVE  ValueIn(q, j) = ValueIn(p, j)
  <2>1. SlotsOf(q, j) = SlotsOf(r, j)
    BY <1>2, <1>6, <1>8, <1>9, <1>14 DEF SlotsOf
  <2>2. \A i \in SlotsOf(p, j) : q.headers[i] = p.headers[i] /\ i \in SlotsOf(q, j)
    BY <1>1, <1>2, <1>6, <1>14, <2>1 DEF SlotsOf
  <2>3. CASE SlotsOf(p, j) = {}
    BY <2>1, <2>3, <1>1, <1>7, <1>10, <1>14, ValueFacts
  <2>4. CASE SlotsOf(p, j) # {}
    <3>1. PICK i \in SlotsOf(p, j) : TRUE
      BY <2>4
    <3>2. ValueIn(p, j) = p.headers[i].value
      BY <3>1, ValueFacts
    <3>3. ValueIn(q, j) = q.headers[i].value
      BY <3>1, <2>2, <1>7, <1>10, ValueFacts
    <3> QED
      BY <3>1, <3>2, <3>3, <2>2
  <2> QED
    BY <2>3, <2>4
<1> QED
  BY <1>2, <1>4, <1>6, <1>7, <1>10, <1>13, <1>14

\* Removing a header takes away its value and no other.
LEMMA RemoveValue ==
    ASSUME NEW p \in Table, Unique(p), NEW k \in Keys, NEW q, q = ParsedHeader_remove(p, k)
    PROVE  /\ ValueIn(q, k) = NoValue
           /\ \A j \in Keys : j # k => ValueIn(q, j) = ValueIn(p, j)
<1>1. /\ q \in Table /\ Unique(q) /\ SlotsOf(q, k) = {}
      /\ \A j \in Keys : j # k =>
            /\ SlotsOf(q, j) = SlotsOf(p, j)
            /\ \A i \in SlotsOf(p, j) : q.headers[i] = p.headers[i]
  BY RemoveFacts
<1>2. ValueIn(q, k) = NoValue
  BY <1>1, ValueFacts
<1>3. ASSUME NEW j \in Keys, j # k
      PROVE  ValueIn(q, j) = ValueIn(p, j)
  <2>1. CASE SlotsOf(p, j) = {}
    BY <2>1, <1>1, <1>3, ValueFacts
  <2>2. CASE SlotsOf(p, j) # {}
    <3>1. PICK i \in SlotsOf(p, j) : TRUE
      BY <2>2
    <3> QED
      BY <3>1, <1>1, <1>3, ValueFacts
  <2> QED
    BY <2>1, <2>2
<1> QED
  BY <1>2, <1>3

-----------------------------------------------------------------------------
(* The invariant.                                                          *)

\* A new table has a slot to spare and no name twice.
LEMMA TableInitInv == TableInit => TableInv
<1> SUFFICES ASSUME TableInit PROVE TableInv
  OBVIOUS
<1>1. /\ pr = [headers |-> <<>>, headerslen |-> DEFAULT_NHDRS] /\ status = "live"
      /\ DEFAULT_NHDRS \in Nat /\ DEFAULT_NHDRS > 0
  BY HeaderAssumption DEF TableInit, ParsedHeader_create
<1>2. pr \in Table /\ Len(pr.headers) = 0
  BY <1>1 DEF Table
<1> QED
  BY <1>1, <1>2 DEF TableInv, TableOK, OneSlotPerKey, SlotLeft, Ended

\* Every operation keeps the slot to spare and the names apart.
LEMMA TableNextInv == TableInv /\ [TableNext]_tableVars => TableInv'
<1> SUFFICES ASSUME TableInv, [TableNext]_tableVars PROVE TableInv'
  OBVIOUS
<1>1. pr \in Table /\ Unique(pr) /\ (status = "live" => Len(pr.headers) < pr.headerslen)
  BY DEF TableInv, TableOK, OneSlotPerKey, SlotLeft, Unique
<1>2. ASSUME pr' \in Table, Unique(pr'), status' \in {"live", "lost", "crashed", "destroyed"},
             status' = "live" => Len(pr'.headers) < pr'.headerslen
      PROVE  TableInv'
  <2>1. Ended'
    BY DEF TableInv, Ended, TableNext, tableVars, Set, SetFails, Remove, UseLost,
         ParsedRequest_destroy
  <2> QED
    BY <1>2, <2>1 DEF TableInv, TableOK, OneSlotPerKey, SlotLeft, Unique
<1>3. CASE \E key \in Keys, value \in Values : Set(key, value)
  BY <1>1, <1>2, <1>3, SetFacts DEF Set
<1>4. CASE \E key \in Keys : SetFails(key)
  <2>1. PICK key \in Keys : SetFails(key)
    BY <1>4
  <2> DEFINE r == ParsedHeader_remove(pr, key)
  <2>2. /\ r \in Table /\ Unique(r)
        /\ Len(r.headers) = Len(pr.headers) /\ r.headerslen = pr.headerslen
    BY <1>1, RemoveFacts
  <2>3. Grow(r) \in Table /\ Grow(r).headers = r.headers
    BY <1>1, <2>1, <2>2, GrowFacts DEF SetFails
  <2>4. Unique(Grow(r))
    BY <2>2, <2>3 DEF Unique
  <2> QED
    BY <1>2, <2>1, <2>3, <2>4 DEF SetFails
<1>5. CASE \E key \in Keys : Remove(key)
  BY <1>1, <1>2, <1>5, RemoveFacts DEF Remove
<1>6. CASE UseLost
  BY <1>1, <1>2, <1>6 DEF UseLost
<1>7. CASE ParsedRequest_destroy
  <2>1. pr' = [headers |-> <<>>, headerslen |-> 0] /\ status' = "destroyed"
    BY <1>7 DEF ParsedRequest_destroy
  <2>2. pr' \in Table /\ Len(pr'.headers) = 0
    BY <2>1 DEF Table
  <2>3. Unique(pr')
    BY <2>2 DEF Unique
  <2> QED
    BY <1>2, <2>1, <2>2, <2>3
<1>8. CASE UNCHANGED tableVars
  BY <1>1, <1>2, <1>8 DEF tableVars, TableInv, TableOK
<1> QED
  BY <1>3, <1>4, <1>5, <1>6, <1>7, <1>8 DEF TableNext

\* The invariant holds throughout the life of a request.
THEOREM TableInvariance == TableSpec => []TableInv
<1>1. TableInit => TableInv
  BY TableInitInv
<1>2. TableInv /\ [TableNext]_tableVars => TableInv'
  BY TableNextInv
<1> QED
  BY <1>1, <1>2, PTL DEF TableSpec

\* A name never has two slots, whatever was set and removed before.
THEOREM NamesAreUnique == TableSpec => []OneSlotPerKey
<1>1. TableInv => OneSlotPerKey
  BY DEF TableInv
<1> QED
  BY <1>1, TableInvariance, PTL

\* ParsedHeader_set never writes behind the array it has allocated.
THEOREM SetStaysInside == TableSpec => []SlotLeft
<1>1. TableInv => SlotLeft
  BY DEF TableInv
<1> QED
  BY <1>1, TableInvariance, PTL

-----------------------------------------------------------------------------
(* The refinement.                                                         *)

\* A new table has no headers.
LEMMA InitMap == TableInit => Map!Init
<1> SUFFICES ASSUME TableInit PROVE Map!Init
  OBVIOUS
<1>1. status = "live" /\ call = <<"create">> /\ pr.headers = <<>>
  BY DEF TableInit, ParsedHeader_create
<1>2. \A key \in Keys : ValueOf(key) = NoValue
  BY <1>1 DEF ValueOf, ParsedHeader_get, SlotsOf
<1> QED
  BY <1>1, <1>2 DEF Map!Init

\* A step of the table is the step of the map that the call names, or none.
LEMMA NextMap == TableInv /\ [TableNext]_tableVars => [Map!Next]_(Map!vars)
<1> SUFFICES ASSUME TableInv, [TableNext]_tableVars PROVE [Map!Next]_(Map!vars)
  OBVIOUS
<1> DEFINE value == [key \in Keys |-> IF status = "live" THEN ValueOf(key) ELSE NoValue]
<1>1. pr \in Table /\ Unique(pr) /\ (status = "live" => Len(pr.headers) < pr.headerslen)
  BY DEF TableInv, TableOK, OneSlotPerKey, SlotLeft, Unique
<1>2. \A key \in Keys : ValueOf(key) = ValueIn(pr, key) /\ ValueOf(key)' = ValueIn(pr', key)
  BY DEF ValueOf, ValueIn
<1>3. ASSUME NEW key \in Keys, NEW v \in Values, Set(key, v)
      PROVE  Map!Set(key, v)
  <2>1. /\ status = "live" /\ status' = "live" /\ call' = <<"set", key, v>>
        /\ pr' = ParsedHeader_set(pr, key, v)
    BY <1>3 DEF Set
  <2>2. ValueIn(pr', key) = v /\ \A j \in Keys : j # key => ValueIn(pr', j) = ValueIn(pr, j)
    BY <1>1, <2>1, SetFacts
  <2>3. value' = [value EXCEPT ![key] = v]
    BY Zenon, <1>2, <2>1, <2>2
  <2> QED
    BY <2>1, <2>3 DEF Map!Set
<1>4. ASSUME NEW key \in Keys, Remove(key)
      PROVE  Map!Remove(key)
  <2>1. /\ status = "live" /\ status' = "live" /\ call' = <<"remove", key>>
        /\ pr' = ParsedHeader_remove(pr, key)
    BY <1>4 DEF Remove
  <2>2. ValueIn(pr', key) = NoValue /\ \A j \in Keys : j # key => ValueIn(pr', j) = ValueIn(pr, j)
    BY <1>1, <2>1, RemoveValue
  <2>3. value' = [value EXCEPT ![key] = NoValue]
    BY Zenon, <1>2, <2>1, <2>2
  <2> QED
    BY <2>1, <2>3 DEF Map!Remove
<1>5. ASSUME status = "live", status' # "live", call' = <<"end">>
      PROVE  Map!End
  BY <1>5 DEF Map!End
<1>6. CASE \E key \in Keys : SetFails(key)
  BY <1>5, <1>6 DEF SetFails, Map!Next
<1>7. CASE ParsedRequest_destroy
  <2>1. CASE status = "live"
    BY <1>5, <1>7, <2>1 DEF ParsedRequest_destroy, Map!Next
  <2>2. CASE status = "lost"
    BY <1>7, <2>2 DEF ParsedRequest_destroy, TableInv, Ended, Map!vars
  <2> QED
    BY <1>7, <2>1, <2>2 DEF ParsedRequest_destroy
<1>8. CASE UseLost
  BY <1>8 DEF UseLost, Map!vars
<1>9. CASE UNCHANGED tableVars
  BY <1>9 DEF tableVars, Map!vars, ValueOf
<1> QED
  BY <1>3, <1>4, <1>6, <1>7, <1>8, <1>9 DEF TableNext, Map!Next

\* The array of slots implements a map from names to values.
THEOREM TableIsMap == TableSpec => ImplementsHeaderMap
<1>1. TableInit => Map!Init
  BY InitMap
<1>2. TableInv /\ [TableNext]_tableVars => [Map!Next]_(Map!vars)
  BY NextMap
<1> QED
  BY <1>1, <1>2, TableInvariance, PTL DEF TableSpec, Map!Spec, ImplementsHeaderMap
=============================================================================
