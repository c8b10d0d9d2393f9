------------------------------- MODULE Proxy -------------------------------
(***************************************************************************)
(* The HTTP proxy: proxy() accepts and forks, handle_client serves one     *)
(* client in a process of its own.  A request is the fields the code tells *)
(* apart and a size in units of what one recv may return; its last unit    *)
(* brings the blank line.  A response is the chunks 1, 2, ... that recv    *)
(* returns.                                                                *)
(***************************************************************************)
EXTENDS ParsedRequest, FiniteSets, Functions

CONSTANTS
    Client,
    Requests,   \* requests a client may send
    BufSize,    \* RECV_BUFFER_SIZE in units
    MaxChunks,  \* bound on the length of a response
    StaleEnds,  \* see the variable stale
    MayFail,    \* clients whose fork, lookup, connection or origin may fail
    MayLeave,   \* clients that may close early
    MaxProcesses, \* the limit on processes that the README asks for
    None

ASSUME ProxyAssumption ==
    /\ BufSize \in Nat /\ MaxChunks \in Nat /\ None \notin Client
    /\ \A r \in Requests : r.size \in Nat

VARIABLES
    backlog,    \* connections in the kernel's queue
    parent,     \* the loop of proxy(): where it is, and with which client
    holders,    \* holders[c]: the processes with a descriptor of c's socket
    child,      \* child[c]: where the process of c is
    got,        \* got[c]: totalBytesRead
    sent,       \* sent[c]: units c has sent
    open,       \* open[c]: "both", "read" after a shutdown or "none"
    request,    \* request[c]: what c sends
    stale,      \* stale[c]: the values of totalBytesRead at which what lies
                \* behind the received bytes shows strstr a blank line
    forwarded,  \* forwarded[c]: what the origin server has been sent
    origin,     \* origin[c]: its end of the connection and the chunks it sent
    reply       \* reply[c]: what c has been sent

parentVars == <<backlog, parent>>
clientVars == <<sent, open, request, stale>>
vars == <<parentVars, holders, child, got, clientVars, forwarded, origin, reply>>

Status(code) == <<"status", code>>
Chunk(n) == <<"chunk", n>>

Init ==
    /\ backlog = <<>> /\ parent = [at |-> "accept", client |-> None]
    /\ holders = [c \in Client |-> {}]
    /\ child = [c \in Client |-> "none"]
    /\ got = [c \in Client |-> 0]
    /\ sent = [c \in Client |-> 0]
    /\ open = [c \in Client |-> "new"]
    /\ request \in [Client -> Requests] /\ stale \in [Client -> StaleEnds]
    /\ forwarded = [c \in Client |-> None]
    /\ origin = [c \in Client |-> [state |-> "none", chunks |-> 0]]
    /\ reply = [c \in Client |-> <<>>]

-----------------------------------------------------------------------------
(* The clients and the origin servers.                                     *)

Connect(c) ==
    /\ open[c] = "new"
    /\ open' = [open EXCEPT ![c] = "both"]
    /\ backlog' = Append(backlog, c)
    /\ UNCHANGED <<parent, holders, child, got, sent, request, stale, forwarded, origin, reply>>

SendUnit(c) ==
    /\ open[c] = "both" /\ sent[c] < request[c].size
    /\ sent' = [sent EXCEPT ![c] = @ + 1]
    /\ UNCHANGED <<parentVars, holders, child, got, open, request, stale, forwarded, origin, reply>>

\* The client ends its side, perhaps before the end of its request.
Shutdown(c) ==
    /\ c \in MayLeave /\ open[c] = "both"
    /\ open' = [open EXCEPT ![c] = "read"]
    /\ UNCHANGED <<parentVars, holders, child, got, sent, request, stale, forwarded, origin, reply>>

Leave(c) ==
    /\ c \in MayLeave /\ open[c] \in {"both", "read"}
    /\ open' = [open EXCEPT ![c] = "none"]
    /\ UNCHANGED <<parentVars, holders, child, got, sent, request, stale, forwarded, origin, reply>>

OriginSends(c) ==
    /\ origin[c].state = "open" /\ forwarded[c] # None /\ origin[c].chunks < MaxChunks
    /\ origin' = [origin EXCEPT ![c].chunks = @ + 1]
    /\ UNCHANGED <<parentVars, holders, child, got, clientVars, forwarded, reply>>

\* A server closes after its response, and may reset the connection any time.
OriginEnds(c) ==
    /\ origin[c].state = "open"
    /\ \/ forwarded[c] # None /\ origin' = [origin EXCEPT ![c].state = "closed"]
       \/ c \in MayFail /\ origin' = [origin EXCEPT ![c].state = "reset"]
    /\ UNCHANGED <<parentVars, holders, child, got, clientVars, forwarded, reply>>

Environment(c) ==
    \/ Connect(c) \/ SendUnit(c) \/ Shutdown(c) \/ Leave(c)
    \/ OriginSends(c) \/ OriginEnds(c)

-----------------------------------------------------------------------------
(* proxy(): accept, fork, close.                                           *)

accept ==
    /\ parent.at = "accept" /\ backlog # <<>>
    /\ parent' = [at |-> "fork", client |-> Head(backlog)]
    /\ backlog' = Tail(backlog)
    /\ holders' = [holders EXCEPT ![Head(backlog)] = {"parent"}]
    /\ UNCHANGED <<child, got, clientVars, forwarded, origin, reply>>

\* The child has the descriptors of the parent.  A fork that fails returns -1,
\* which the code takes for the parent's side.
fork ==
    LET c == parent.client
    IN  /\ parent.at = "fork"
        /\ parent' = [parent EXCEPT !.at = "close"]
        /\ \/ /\ child' = [child EXCEPT ![c] = "recv"]
              /\ holders' = [holders EXCEPT ![c] = @ \cup {"child"}]
           \/ c \in MayFail /\ UNCHANGED <<child, holders>>
        /\ UNCHANGED <<backlog, got, clientVars, forwarded, origin, reply>>

\* Mutant of CloseInParent: the parent keeps the socket.
CloseInParentNot ==
    /\ parent.at = "close"
    /\ parent' = [at |-> "accept", client |-> None]
    /\ UNCHANGED <<backlog, holders, child, got, clientVars, forwarded, origin, reply>>

CloseInParent ==
    /\ parent.at = "close"
    /\ parent' = [at |-> "accept", client |-> None]
    /\ holders' = [holders EXCEPT ![parent.client] = @ \ {"parent"}]
    /\ UNCHANGED <<backlog, child, got, clientVars, forwarded, origin, reply>>

Parent == accept \/ fork \/ CloseInParent

-----------------------------------------------------------------------------
(* handle_client.                                                          *)

\* return, then close again and exit: nobody waits for the child.
Exit(c) ==
    /\ child' = [child EXCEPT ![c] = "zombie"]
    /\ holders' = [holders EXCEPT ![c] = @ \ {"child"}]

Goto(c, at) == child' = [child EXCEPT ![c] = at] /\ UNCHANGED holders

\* send to the client: nothing arrives once the client has gone.
Deliver(c, item) ==
    reply' = IF open[c] = "none" THEN reply ELSE [reply EXCEPT ![c] = Append(@, item)]

\* strstr searches the whole buffer, which was never cleared, and on behind it.
HeaderEnd(c, total) == total = request[c].size \/ total \in stale[c]

\* recv returns 0 when the client has ended its side, and for want of room.
RecvIsZero(c) == (got[c] = sent[c] /\ open[c] # "both") \/ got[c] = BufSize

\* Mutant of Recv: recv is not told how much room is left.
RecvUnbounded(c) ==
    /\ child[c] = "recv"
    /\ \E n \in 0 .. (sent[c] - got[c]) :
        /\ n = 0 => RecvIsZero(c)
        /\ got' = [got EXCEPT ![c] = @ + n]
        /\ IF ~HeaderEnd(c, got[c] + n) THEN UNCHANGED <<child, holders>>
           ELSE \/ Goto(c, "parse")
                \/ got[c] + n = BufSize /\ Exit(c)
    /\ UNCHANGED <<parentVars, clientVars, forwarded, origin, reply>>

\* One round of the loop; a recv of 0 and no blank line, and it goes round with
\* nothing changed.  If a blank line is found once the buffer is full, the NUL
\* goes behind the buffer: the process goes on or is aborted.
Recv(c) ==
    /\ child[c] = "recv"
    /\ \E n \in 0 .. (sent[c] - got[c]) :
        /\ n = 0 => RecvIsZero(c)
        /\ got[c] + n <= BufSize
        /\ got' = [got EXCEPT ![c] = @ + n]
        /\ IF ~HeaderEnd(c, got[c] + n) THEN UNCHANGED <<child, holders>>
           ELSE \/ Goto(c, "parse")
                \/ got[c] + n = BufSize /\ Exit(c)
    /\ UNCHANGED <<parentVars, clientVars, forwarded, origin, reply>>

\* recv returns -1 when a client that left has reset the connection.
RecvFails(c) ==
    /\ child[c] = "recv" /\ open[c] = "none"
    /\ Exit(c)
    /\ UNCHANGED <<parentVars, got, clientVars, forwarded, origin, reply>>

\* A line has a text, a separator, "none" if it has no colon, and a value.  The
\* value is taken from two bytes behind the colon up to the next CR LF: it is
\* whole behind ": ", lacks its first byte behind ":", and is the LF and the
\* next line if nothing follows the colon.
Value(lines, n) ==
    CASE lines[n].separator = ": " -> <<lines[n].value>>
      [] lines[n].separator = ":" /\ lines[n].value # "" -> <<"tail", lines[n].value>>
      [] OTHER -> <<"LF">> \o (IF n = Len(lines) THEN <<>> ELSE <<lines[n + 1]>>)

\* Line n.  index searches the rest of the request for a colon: a name is the
\* texts of the lines up to it, and the line fails only if there is none.
ParsedHeader_parse(parse, lines, n) ==
    LET colons == {m \in n .. Len(lines) : lines[m].separator # "none"}
        at == CHOOSE m \in colons : \A k \in colons : m <= k
        name == [i \in 1 .. at - n + 1 |-> lines[n + i - 1].text]
    IN  IF ~parse.ok \/ colons = {} THEN [parse EXCEPT !.ok = FALSE]
        ELSE [parse EXCEPT !.pr = ParsedHeader_set(@, name, Value(lines, at))]

\* The request line and then the header lines in turn.
ParsedRequest_parse(r) ==
    LET upTo[n \in 0 .. Len(r.headers)] ==
            IF n = 0 THEN [ok |-> r.line = "ok", pr |-> ParsedHeader_create]
            ELSE ParsedHeader_parse(upTo[n - 1], r.headers, n)
    IN  upTo[Len(r.headers)]

Parse == [r \in Requests |-> ParsedRequest_parse(r)]

\* A request cut short has no blank line within buflen.
ParseOk(c) == got[c] = request[c].size /\ Parse[request[c]].ok

Refuse(c, code) ==
    /\ Deliver(c, Status(code))
    /\ Exit(c)
    /\ UNCHANGED <<parentVars, got, clientVars, forwarded, origin>>

\* Mutant of Rewrite: the Connection header of the client goes through.
RewriteHostOnly(pr) == ParsedHeader_set(pr, <<"Host">>, <<"origin">>)

Rewrite(pr) ==
    ParsedHeader_set(ParsedHeader_set(pr, <<"Connection">>, <<"close">>),
                     <<"Host">>, <<"origin">>)

\* new_request, without its end.  The request line is printed with the
\* absolute URI.
Unparsed ==
    [r \in Requests |->
        [version |-> IF r.version = "HTTP/1.1" THEN "HTTP/1.0" ELSE r.version,
         uri     |-> "absolute",
         headers |-> ParsedHeader_printHeaders(Rewrite(Parse[r].pr))]]

\* The answers 400 and 501, or on to the origin server.
ParseAndCheck(c) ==
    /\ child[c] = "parse"
    /\ \/ ~ParseOk(c) /\ Refuse(c, 400)
       \/ ParseOk(c) /\ request[c].method # "GET" /\ Refuse(c, 501)
       \/ /\ ParseOk(c) /\ request[c].method = "GET"
          /\ Goto(c, "connect")
          /\ UNCHANGED <<parentVars, got, clientVars, forwarded, origin, reply>>

ConnectOrigin(c) ==
    /\ child[c] = "connect"
    /\ Goto(c, "send")
    /\ origin' = [origin EXCEPT ![c].state = "open"]
    /\ UNCHANGED <<parentVars, got, clientVars, forwarded, reply>>

\* new_request has no NUL: strlen may count what lies behind it.
SendRequest(c) ==
    /\ child[c] = "send" /\ origin[c].state = "open"
    /\ \E behind \in {"nothing", "stale"} :
        forwarded' = [forwarded EXCEPT ![c] = [new_request |-> Unparsed[request[c]], behind |-> behind]]
    /\ Goto(c, "relay")
    /\ UNCHANGED <<parentVars, got, clientVars, origin, reply>>

\* getaddrinfo, socket, connect or send fails: close and return.
OriginFails(c) ==
    /\ c \in MayFail
    /\ child[c] = "connect" \/ (child[c] = "send" /\ origin[c].state = "reset")
    /\ Exit(c)
    /\ UNCHANGED <<parentVars, got, clientVars, forwarded, origin, reply>>

\* One round of the relay loop.  A send to a client that left fails or raises
\* SIGPIPE, or the chunk is lost and nothing changes.
Relay(c) ==
    /\ child[c] = "relay" /\ Len(reply[c]) < origin[c].chunks
    /\ Deliver(c, Chunk(Len(reply[c]) + 1))
    /\ \/ open[c] # "none" /\ UNCHANGED <<child, holders>>
       \/ open[c] = "none" /\ Exit(c)
    /\ UNCHANGED <<parentVars, got, clientVars, forwarded, origin>>

\* Mutant of RelayEnd: the end of the response is taken before its last bytes.
RelayEndEarly(c) ==
    /\ child[c] = "relay" /\ origin[c].state = "closed"
    /\ Exit(c)
    /\ UNCHANGED <<parentVars, got, clientVars, forwarded, origin, reply>>

\* recv returns 0 behind the last chunk.
RelayEnd(c) ==
    /\ child[c] = "relay" /\ origin[c].state = "closed"
    /\ Len(reply[c]) = origin[c].chunks \/ open[c] = "none"
    /\ Exit(c)
    /\ UNCHANGED <<parentVars, got, clientVars, forwarded, origin, reply>>

RelayFails(c) ==
    /\ child[c] = "relay" /\ origin[c].state = "reset"
    /\ Exit(c)
    /\ UNCHANGED <<parentVars, got, clientVars, forwarded, origin, reply>>

Serve(c) ==
    \/ Recv(c) \/ ParseAndCheck(c)
    \/ ConnectOrigin(c) \/ SendRequest(c) \/ OriginFails(c)
    \/ Relay(c) \/ RelayEnd(c) \/ RelayFails(c)

handle_client(c) == Serve(c) \/ RecvFails(c)

Next == Parent \/ \E c \in Client : Environment(c) \/ handle_client(c)

Spec == Init /\ [][Next]_vars

\* The kernel schedules every process; a client sends what it has begun to
\* send and an origin server ends its response.  No client has to reset.
FairSpec ==
    /\ Spec /\ WF_vars(Parent)
    /\ \A c \in Client :
        /\ WF_vars(Serve(c)) /\ WF_vars(SendUnit(c)) /\ WF_vars(OriginEnds(c))

-----------------------------------------------------------------------------
(* Properties.                                                             *)

Places == {"none", "recv", "parse", "connect", "send", "relay", "zombie"}

Forwarded == [new_request : Range(Unparsed), behind : {"nothing", "stale"}]
Items == {Status(400), Status(501)} \cup {Chunk(n) : n \in 1 .. MaxChunks}

\* The type invariant, by the parts of the state.
ParentType ==
    /\ backlog \in Seq(Client)
    /\ parent \in [at : {"accept", "fork", "close"}, client : Client \cup {None}]
    /\ holders \in [Client -> SUBSET {"parent", "child"}]
    /\ child \in [Client -> Places]
ClientType ==
    /\ got \in [Client -> 0 .. BufSize]
    /\ sent \in [Client -> Nat] /\ \A c \in Client : sent[c] <= request[c].size
    /\ open \in [Client -> {"new", "both", "read", "none"}]
    /\ request \in [Client -> Requests] /\ stale \in [Client -> StaleEnds]
OriginType ==
    /\ forwarded \in [Client -> Forwarded \cup {None}]
    /\ origin \in [Client -> [state : {"none", "open", "closed", "reset"}, chunks : 0 .. MaxChunks]]
    /\ reply \in [Client -> Seq(Items)]
TypeOK == ParentType /\ ClientType /\ OriginType

\* The client's connection was accepted and every descriptor of it is closed:
\* it reads the end of the stream.
Released(c) ==
    open[c] # "new" /\ holders[c] = {} /\ c \notin Range(backlog)

\* A client is sent one status and nothing else, and then its request never
\* reached an origin server, or the response as the server sent it, in order;
\* and if it reads the end of the stream after the server closed normally, it
\* has all of the response.
ReplyIsResponse ==
    \A c \in Client :
        \/ forwarded[c] = None /\ \E code \in {400, 501} : reply[c] = <<Status(code)>>
        \/ /\ reply[c] = [i \in 1 .. Len(reply[c]) |-> Chunk(i)]
           /\ Len(reply[c]) <= origin[c].chunks
           /\ Released(c) /\ origin[c].state = "closed" /\ open[c] # "none"
                => Len(reply[c]) = origin[c].chunks

\* Outside of its work on one connection the parent has no client's socket, so
\* that the socket closes when the child closes it and no later child inherits
\* it; and a child that has ended has none.
SocketsReleased ==
    \A c \in Client :
        /\ "parent" \in holders[c] => parent.client = c
        /\ "child" \in holders[c] <=> child[c] \notin {"none", "zombie"}

\* A connection is in the kernel's queue, then in the hands of the parent, then
\* served, and in one of these places at a time.
PlaceInv ==
    /\ parent.at = "accept" <=> parent.client = None
    /\ parent.at = "fork" => child[parent.client] = "none"
    /\ \A i, j \in 1 .. Len(backlog) : backlog[i] = backlog[j] => i = j
    /\ \A c \in Client :
        /\ c \in Range(backlog) \/ open[c] = "new" =>
                child[c] = "none" /\ holders[c] = {} /\ parent.client # c
        /\ c \in Range(backlog) => open[c] # "new"

\* The response so far, and how far it is when the child has ended.
ReplyOf(c) ==
    /\ child[c] \in {"none", "recv", "parse", "connect"} => origin[c].state = "none"
    /\ child[c] \in {"none", "recv", "parse", "connect", "send"} =>
            reply[c] = <<>> /\ forwarded[c] = None /\ origin[c].chunks = 0
    /\ child[c] = "send" => origin[c].state \in {"open", "reset"}
    /\ \/ /\ forwarded[c] = None /\ child[c] = "zombie" /\ origin[c].state = "none"
          /\ \E code \in {400, 501} : reply[c] = <<Status(code)>>
       \/ /\ \A i \in 1 .. Len(reply[c]) : reply[c][i] = Chunk(i)
          /\ Len(reply[c]) <= origin[c].chunks
    /\ child[c] = "zombie" /\ open[c] # "none" =>
            /\ origin[c].state # "open"
            /\ origin[c].state = "closed" => Len(reply[c]) = origin[c].chunks
ReplyInv == \A c \in Client : ReplyOf(c)

\* The inductive invariant.
ProxyInv == TypeOK /\ PlaceInv /\ SocketsReleased /\ ReplyInv

LastLine(c, key) ==
    LET lines == request[c].headers
        at == {i \in DOMAIN lines : lines[i].text = key /\ lines[i].separator # "none"}
    IN  lines[CHOOSE i \in at : \A j \in at : j <= i]

\* An origin server gets each header of the client once, with the value of its
\* last occurrence if that is written "key: value", except for Connection and
\* Host, which are the proxy's own; and it gets no other header, unless the
\* client sent a line without a colon, whose text then begins the name.
HeadersPassedOn ==
    \A c \in Client : forwarded[c] # None =>
        LET out == forwarded[c].new_request.headers
            lines == Range(request[c].headers)
            names == {l.text : l \in {m \in lines : m.separator # "none"}}
            own == {i \in DOMAIN out : Len(out[i].key) = 1}
        IN  /\ {out[i].key[1] : i \in own} = names \cup {"Connection", "Host"}
            /\ \A i \in DOMAIN out : i \notin own =>
                \E l \in lines : l.separator = "none" /\ l.text = out[i].key[1]
            /\ \A i, j \in own : out[i].key = out[j].key => i = j
            /\ \A i \in own :
                CASE out[i].key[1] = "Connection" -> out[i].value = <<"close">>
                  [] out[i].key[1] = "Host" -> out[i].value = <<"origin">>
                  [] OTHER -> LET l == LastLine(c, out[i].key[1])
                              IN  l.separator = ": " => out[i].value = <<l.value>>

\* proxy_parse.h: a header is written "key:value", so that value is its value.
KeyValueKept ==
    \A c \in Client : forwarded[c] # None =>
        \A h \in Range(forwarded[c].new_request.headers) :
            Len(h.key) = 1 /\ h.key[1] \notin {"Connection", "Host"} =>
                h.value = <<LastLine(c, h.key[1]).value>>

\* Every client that has sent a complete request which the buffer can hold reads
\* the end of the stream: its child and the parent both close its socket.
CompleteIsServed ==
    \A c \in Client :
        (open[c] # "new" /\ sent[c] = request[c].size /\ sent[c] <= BufSize) ~> Released(c)

\* A client that ends its side of the connection without a complete request is
\* answered.
InvalidIsAnswered ==
    \A c \in Client :
        (open[c] = "read" /\ sent[c] < request[c].size)
            ~> (reply[c] # <<>> \/ open[c] = "none")

\* The processes that proxy() forks and never waits for are limited in number.
ProcessLimit == Cardinality({c \in Client : child[c] # "none"}) <= MaxProcesses

\* The server is sent the request and nothing behind it.
NothingBehindRequest == \A c \in Client : forwarded[c] # None => forwarded[c].behind = "nothing"

\* The server is sent no Connection header but close.
ConnectionReplaced ==
    \A c \in Client : forwarded[c] # None =>
        \A h \in Range(forwarded[c].new_request.headers) :
            h.key[Len(h.key)] \in {"Connection", "connection"} => h.value = <<"close">>
=============================================================================
