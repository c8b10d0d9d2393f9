# A formal model of the Computer-Network repository

The repository holds five independent pieces of network software. This
directory models them in TLA+, checks the models with TLC on small instances and
proves the most important results with TLAPS for every value of the constants.
The code under `src/` is the reference: every definition that stands for code is
listed in `PROJECT.json` (`map`) with the lines it was translated from.

## 1. Inventory

| Part | Code | State | Operations | Modules |
|---|---|---|---|---|
| STCP transport | `TCP/src/transport.c` | connection state, sequence numbers, window | handshake, `control_loop` | `Mysock`, `Transport` |
| STCP transport, second version (not built) | `TCP/src/transport1.c` | the same | the same | `Mysock`, `Transport1` |
| Mysocket layer | `mysock.c`, `mysock_api.c`, `stcp_api.c` | three packet queues, `close_requested`, threads | `mywrite`, `myread`, `myclose`, `stcp_wait_for_event` | `Mysock` |
| Network layer | `network_io_socket.c`, `network_io_tcp.c` | sockets, receive thread | send, receive, accept | `Mysock`, `ListenQueue` |
| Listening mysockets | `connection_demux.c` | request slots, completed queue, `cur_len`, locks | enqueue, complete, `myaccept`, close | `ListenQueue` |
| Checksums | `tcp_sum.c`, `sr_utils.c` | words and a sum | set, verify | `Checksum` |
| Router | `Router/src/router/sr_router.c` | (ARP cache) | ARP, forward, ICMP, queue | `Router` |
| ARP cache | `sr_arpcache.c` | bindings, requests, lock, two threads | lookup, insert, queue, sweep, `handle_arpreq` | `ArpCache` |
| Routing table | `sr_rt.c`, `sr_main.c`, `sr_router.c` | list of routes | load, search | `RouteLookup` |
| VNS session and controller | `sr_vns_comm.c`, `sr_main.c`, `sr_if.c`, `pox_module/cs414/*.py` | stream of commands, list of interfaces, clients of the controller | connect, read a command, handle it; answer, broadcast | `VnsSession` |
| HTTP proxy | `HTTP/starter_code/proxy.c` | processes, sockets, buffer | accept, fork, `handle_client` | `Proxy` |
| Request parser | `proxy_parse.c` | array of headers | set, get, remove, print, parse | `ParsedRequest`, `HeaderTable`, `HeaderMap` |

What is hard about them: the application, transport and receive threads of a mysocket;
two ends that close in any order; a process that dies; the locks of the listening
mysocket; the two threads of the router on one request; the two threads of its
controller, and the stream of commands between them; and a client or an origin server
of the proxy that stops in the middle. The `hazards` of `PROJECT.json` name the lines
at which each of these bites.

What makes each part correct: a connection is a pair of byte streams and ends (STCP);
every established connection is accepted once, in order (listening mysockets); a
packet goes to the longest matching route, bindings do not outlive their time,
requests end (router); commands are taken whole and in order and no packet is handled
before the interfaces are known (session); the table of headers is a map, the client
gets its own response and nothing leaks (proxy).

## 2. Modules and how they correspond to the code

### STCP: `Mysock`, `Transport`, `Transport1`, `ByteStream`

`Mysock` has the two ends of one connection, `active` and `passive`. A variable
is a function of the end and keeps the name of the field: `app_recv_queue`,
`app_send_queue`, `network_recv_queue`, `connection_state`,
`current_sequence_num`, `ack_num`, `fin_ack_sequence_num`. Data is not kept as
bytes but as runs `[lo, hi)` of positions in the stream the application writes,
which is what order and completeness are about. `wire` is the TCP connection
below, reliable and FIFO as long as both processes live.

`thread` says where a transport thread is, `event` holds the events that
`stcp_wait_for_event` has returned and that are not handled yet, `payload` the
bytes of the segment loop not yet sent. One pass of `control_loop` is therefore
several steps, and the other threads run in between. `arrived` and `delivered`
are history variables.

`Transport` and `Transport1` put the branches of their `control_loop` in order
and give the window they send with. The functions of the second end in 1
(`control_loop1`, `Spec1`), so that one module can prove things about both:

* `transport.c` never assigns `current_sender_window`. Its value is one of
  `GarbageWindows`, chosen at the start; a negative int becomes a huge `size_t`.
* `transport1.c` computes it from the unacknowledged bytes, modulo `SeqMod`.

Abstractions. Sequence numbers are modulo `SeqMod` (2^32 in the code).
`CSTATE_CLOSED` is assigned together with `done` and stands for both. A send
fails only for the last segment of a round, where it matters: `pkt_size` is then
negative and the loop spins. A SYN is delivered ahead of the error buffer.

Lost and reset connections. Data sent to a process that is gone is lost, and the
kernel there answers it with a RST; so it does when a socket is closed with packets
unread (`CloseSocket`). `reset` is a RST on its way. What was sent ahead of it may
still be read or not; the receive thread sees it as `POLLERR`, which
`network_io_socket.c:247` asserts not to happen (`RecvReset`), or, if a send was
told first, as the end of the connection (`RecvEof`).

Overrun. An application may write more than `SENDER_WINDOW` bytes at once, the size of
the payload buffer in `control_loop`. With the garbage window of `transport.c` these
are then all taken; the process goes on with them or the allocator aborts it
(`Overrun`). What else the bytes behind the buffer destroy is not followed. The window
of `transport1.c` is never above `SENDER_WINDOW`.

`ByteStream` is the promise: two streams, each end writes, reads in order, and
sees EOF after the peer has closed and everything was read.

### Listening mysockets: `ListenQueue`

The receive thread (`listener`), one transport thread for each connection
(`conn`) and the application (`acceptor`). `listen_lock` and `connection_lock`
are not variables: whoever holds one is told from the program counters
(`WriteLocked`, `ConnectionLocked`). `++q->cur_len` and `--q->cur_len` are a load
and a store each, because they run under different locks. A failed assertion ends
the process (`failed`).

Abstractions. A transport thread after the handshake is the subject of `Mysock`:
here it runs until its mysocket is closed. A client that dies after its SYN still
completes the handshake. Each client connects once. The acceptor may accept again
although the loop in `server.c` is commented out.

### Router: `ArpCache`, `Router`, `RouteLookup`, `Checksum`

`handle_arpreq` is a sequence of steps (`decide`, `send`, `stamp`, `count` or
`destroy`) that the main thread takes without the lock and the timeout thread
with it. Times are kept as ages, up to the age from which on the code does not
tell them apart. `SweepLag` bounds how late the scheduler may make a sweep.
A use of a request that was freed, or of a NULL interface, ends the behaviour
with `fault`. A gateway is a neighbour, as in `src/Router/src/rtable`. Packets
have passed the length checks, which drop a packet without a change of state.
Lookup and queueing are one step, as the main thread is the only one to do
either. Packets are not kept (`PacketsKept` in section 4), so that a reply has none to
send.

`RouteLookup` has the loader line by line and the search entry by entry. Masks
are prefixes. `mask_value` is the number that the code compares: the mask read in
the byte order of a little endian machine, as bytes of `ByteBits` bits. A line of a
file has a text for the destination and for the mask or lacks them; `sscanf` leaves
the buffer of a field that is not there as it is, so that a blank line repeats the
route before it, and one at the beginning of a file stands for what was on the stack
(`Garbage`). A text that is no address, and a file that cannot be read, end the router.

`Checksum` has the sums of the router and of STCP over `N` words in base `B`
(2^16 in the code), and what a link may damage in between. Words are in one byte
order: the one's complement sum does not depend on it.

### The session with the controller: `VnsSession`

The router connects, authenticates, opens its topology, learns its interfaces
and then handles packets, one command at a time (`sr_read_from_server_expect`).
`down` is the stream of bytes to the router; a byte is a position in a message,
so that a command which is read from the middle of another is seen. `Recv` takes
any number of bytes up to what the code asks for (`Wanted`). A size that is read
from a wrong place is the garbage `len` stands for. One action for each command
has the whole branch, its early returns included: a command other than the
expected one, a packet for an interface that is not there, a command longer than
the buffer.

The controller has two threads. The reactor accepts the router, greets it and
answers its messages (`_handle_new_client`, `SendAuthRequest`,
`_handle_recv_msg`); the OpenFlow thread handles `RouterInfo` and broadcasts
packets to whoever is in `srclients` (`_handle_RouterInfo`,
`_handle_SRPacketIn`). `sr_handle_hwinfo` goes through the entries of the command as
its loop does; `Entries` puts the three of one interface (name, address, IP)
together. A client is in the list before it is greeted, which is why
the two are separate steps. The connection may end or be reset at any time
(`Lose`).

Abstractions. Messages to the controller are whole: `LTProtocol`, which takes them
apart, is not in the repository. `recv` that returns 0 or is interrupted changes
nothing and is repeated. Commands that only another VNS server sends (`RTABLE`,
`CLOSE`, `BANNER`) come unasked, as the code handles them. One router is
connected, the switch is reported once, and packets that the timeout thread of
the ARP cache sends are left to `Router`. The controller authenticates everyone,
as `_handle_auth_reply` does.

### HTTP proxy: `ParsedRequest`, `HeaderTable`, `HeaderMap`, `Proxy`

`ParsedRequest` has the operations on the array of headers as operators;
`HeaderTable` is the life of one table under any sequence of calls, and
`HeaderMap` is the map it implements. `Proxy` uses the same operators for the
requests it parses and rewrites.

A request is its method, version, header lines, whether its first line is well
formed, and its size in units of what one `recv` returns; it ends with its blank
line. `recv` returns 0 when the client has ended its side or no room is left; the code
goes on with the loop, and nothing changes. The buffer is not initialised: `stale`
has the amounts of received bytes at which `strstr` finds a blank line that was never
received. What is then parsed is cut short and refused. The NUL may go one byte behind
the buffer, and the process may abort.

A header line has a text, a separator (`": "`, `":"` or none) and a value.
`ParsedHeader_parse` looks for the colon with `index` in all of the request that
follows, so that a line without one gives its text to the name of a header further
down, and fails only when no colon follows at all; and it takes the value from two
bytes behind the colon, which cuts off its first byte when no space is there. A name
is therefore the sequence of the texts it was put together from, and a value that is
not whole is told apart. The answer 500 cannot happen, since the length that is
allocated is the length that is printed. A failing `accept` changes nothing. The
request line is forwarded with the absolute URI, although `HTTP/README.md:141` asks
for the relative one.

## 3. Runs

Each `MC*.tla` instantiates a module. Deadlock is not checked: clients,
applications and connections may stop for good in all of these systems, and a
process that has aborted takes no step.

| Run | Shows |
|---|---|
| `Transport_safety` | `transport.c`, one process killed at any time, writes beyond the buffer: in order, complete at EOF, the invariant of the proofs, implements `ByteStream` |
| `Transport_close` | violated: the end that closes first waits for ever |
| `Transport1` | `transport1.c`: the invariants of the proofs, the window is respected across a wrap, an assertion fails only in an end that has closed and whose peer has gone, implements `ByteStream`; data is delivered, and `myclose` returns or ends in that assertion unless the FINs cross |
| `Listen` | the invariant of the proofs: queue, order, wakeups, close; an established connection is accepted |
| `Listen_count` | violated: an update of `cur_len` is lost and an assertion fails |
| `Router` | the invariant of the proofs, freshness, giving up, the pointer of the sweep; a request ends |
| `Router_freed` | violated: the main thread uses a request that was freed |
| `Route` | longest prefix; the table is the file read last, route by route |
| `Vns` | the invariant of the proofs, framing, list of interfaces, no packet handled too early; a session gets ready unless one of the listed causes hinders it |
| `Header` | one slot for a name, no overrun, implements `HeaderMap` |
| `Proxy` | the invariant of the proofs, response, sockets, headers; a complete request that the buffer can hold is served |
| `Checksum` | what is sent is valid; STCP accepts just that |

The three violated runs check one sentence each that a README, a comment or an
assertion says of the program; `findings` in `PROJECT.json` quotes it. Section 4
has the others.

Properties that need fairness and those that do not are checked in the same run. The
type invariants are checked as parts of the inductive invariants (`StreamInv`, which
with `WindowInv` is a part of `CloseInv`, `QueueInv`, `CacheInv`, `VnsInv`,
`ProxyInv`).

Bounds. Two ends and one to three bytes a direction, with segments of one or two
bytes, make several segments, partial reads, writes larger than what the window or the
buffer has room for and FINs that cross; a small `SeqMod` makes sequence numbers wrap.
Three clients for two slots and three descriptors fill both; cur_len has the eight
values of `UIntMod`, enough to go below zero. Two next hops for two entries, and a
lifetime of one second, make the cache fill and expire. Two routes over four bits in
bytes of two have every relation of two prefixes, byte borders included; with a line
that lacks its mask, one that lacks both fields and a bad one, a file of two lines has
a missing field first and behind a route. A size word of two bytes and commands of
three to five are cut at every place; two packets or unasked commands come between any
two commands of the handshake; the five ways to start the router are the usual one and
one for each early return. Two clients of the proxy, one of which may fail, show that
one does not disturb the other; a buffer of two units has requests that leave room,
fill it and do not fit, and a blank line from before at any place in it. The symmetry
set of `Listen_count` permutes clients, which no definition names; it is not used with
temporal properties.

Fairness. Every thread and process is weakly fair, since the kernel schedules it;
in `Mysock` the applications go on reading and close after EOF, as `client.c` and
`server.c` do. Nothing obliges an application to write or close first, a client
to connect or to reset its connection, a switch to be there, a packet to arrive or a
process to be killed. In `Proxy` the fairness of a child is that of `Serve`, which
leaves the reset out; a client sends the rest of a request it has begun, unless it ends
its side, and an origin server ends its response. Time passes in the router.

## 4. Statements about the program that its code does not meet

Each is a definition of its module that TLC refutes. `Run` is the configuration to
start from: its properties are replaced by this one, under `Spec` (`Spec1` for
`Transport1`, `RouteSpec` for `Route`), or the one with fairness where the property is
temporal, and its constants by those of the last column.

| Property | Run | What is said, and what happens | Constants |
|---|---|---|---|
| `NoAbort` | `Transport_safety` | `network_io_socket.c:268` signals "an error to the transport layer"; `control_loop` takes it for a data segment of -20 bytes and an assertion fails | |
| `DataNumbered` | `Transport_safety` | `TCP/README.md:63`: numbers count "the SYN flag"; the first byte has the number of the SYN | |
| `SendsInWindow` | `Transport_safety` | `TCP/README.md:90`: "Do not send data outside the sending window"; `current_sender_window` is never assigned | |
| `DataDelivered` | `Transport_close` | `TCP/README.md:72`: data is sent "as soon as data is available"; not with a garbage window of 0 | `GarbageWindows <- NoneOrAll` |
| `NoAbort` | `Transport1` | `network_io_socket.c:247`: `assert(!(fds[1].revents & POLLERR))`; the acknowledgement of the last FIN comes to a process whose `myclose` has returned, and is answered with a RST | |
| `CloseTerminates` | `Transport1` | `TCP/README.md:109`: a connection is closed once both FINs are acknowledged; not when they cross | |
| `NewSocketFree` | `Listen` | `network_io_tcp.c:199`: "we will not reenter this function until this SYN packet has been dispatched"; a dropped SYN leaves `new_socket` set | `MaxLen = 1` |
| `KeepsListening` | `Listen` | `network_io_tcp.c:198`: "keep listening socket open"; the receive thread ends with a client that leaves before its SYN | |
| `CloseReturns` | `Listen_count` | `connection_demux.c:369`: "close any queued connections"; the close joins threads that wait for the lock it holds | without symmetry |
| `OneRequestPerSecond` | `Router` | `sr_router.c:429`: a request is sent "if one hasn't been sent within the last second"; both threads send | |
| `PacketsKept` | `Router` | `sr_router.c:430`: "add the packet to the queue"; the name of the interface is NULL and the packet is dropped | |
| `NoNullDereference` | `Router` | `sr_router.c:482`: port unreachable is sent; the interface is looked up by the gateway's address | |
| `TtlDecreases` | `Router` | `sr_router.c:424`: "Decrement the TTL by 1"; 0 becomes 255 | `Ttl = {0, 2}` |
| `LearnedIsCached` | `Router` | `sr_arpcache.c:235`: "kick out a random entry if all entries full"; nothing is stored | `SR_ARPCACHE_SZ = 1` |
| `RouteFound` | `Route` | `Router/README.md:149`: the longest prefix match; a default route is never taken | |
| `HwinfoArrives` | `Vns` | `Router/README.md:231`: the server sends the description of the interfaces; not when the switch connects after the router | |
| `InterfaceFound` | `Vns` | `assert(iface)` of `sr_arp_req_not_for_us`; a packet is broadcast before the interfaces are known | |
| `EndsWithServer` | `Vns` | the end of the connection is an end of `sr_read_from_server_expect`; a `recv` of 0 is repeated for ever | |
| `InvalidIsAnswered` | `Proxy` | `HTTP/README.md:125`: an invalid request is answered; not one that is cut short: the loop of `proxy.c:21` ends for a negative `recv`, not for one of 0 | |
| `ProcessLimit` | `Proxy` | `HTTP/README.md:117`: a limit on processes; there is none | `Client = {c1, c2, c3}` |
| `NothingBehindRequest` | `Proxy` | `proxy_parse.h:71`: "buf will not be NUL terminated"; `strlen` is taken of it | |
| `ConnectionReplaced` | `Proxy` | `HTTP/README.md:157`: any Connection header is replaced; not one in lower case, nor one behind a line without a colon | `Requests <- LowerCase` |
| `KeyValueKept` | `Proxy` | `proxy_parse.h:46`: a header has "the format "key:value\r\n""; the value is taken from two bytes behind the colon and loses its first | `Requests <- Tights` |
| `ValidIsAccepted` | `Checksum` | `Router/README.md:146`: a packet with "the correct checksum" passes; the sum includes its own field | |

## 5. Proofs

| Theorem | Module |
|---|---|
| `StreamInvariance`, `TypeCorrect`, `StreamInOrder`, `EofIsComplete`, `Refinement`, and the same with a 1 for `transport1.c` | `TransportProofs` |
| `WindowInvariance`, `WindowIsRespected`, `CloseInvariance`, `AbortsOnlyAtEnd`, `NoneKilled` of `transport1.c` | `TransportProofs`, from `Transport1Proofs` |
| `CacheInvariance`, `FreshBindings`, `GiveUpAfterTries`, `SweepKeepsPlace`, `TimeoutUsesNoFreed`, `SweepOwnsQueue`; `MaskOrder`, `SearchInvariance`, `TableFromOneFile`, `SearchFindsLongest` | `RouterProofs` |
| `VnsInvariance`, `FramesAreIntact`, `InterfacesAgree`, `PacketsWhenReady` | `VnsSessionProofs` |
| `ProxyInvariance`, `SocketsAreReleased`, `RepliesAreResponses`; `TableInvariance`, `NamesAreUnique`, `SetStaysInside`, `TableIsMap` | `ProxyProofs` |
| `QueueInvariance`, `QueueIsSound`, `AcceptsInOrder`, `WakeupNotLost`, `ClosesCleanly` | `ListenQueueProofs` |

*Byte streams.* In-order delivery is not inductive: it says nothing of packets on
the way. `StreamInv` adds that the runs in the queues and on the wire form a chain
from what was read to what was written (`InOrderAt`), that control packets of the
handshake come first (`HandshakeAt`), that an event is backed by a non-empty queue
(`EventsBacked`), that a close comes behind all data (`ClosesLast`) and that every
end of stream stands at the position where the writer stopped (`EndsLast`).
`MysockLemmas` and `MysockProofs` have one lemma for each action; the two versions
of the transport only put the actions together. For the refinement each step is
mapped to a step of `ByteStream`: several bytes are read or written at once there,
and everything else stutters. The theorems assume `MysockAssumption` (and
`GarbageAssumption`: the garbage is an integer), and hold with processes that are
killed.

*Window.* `transport1.c` sends what its window leaves room for, and the window is
`SENDER_WINDOW` less the difference of `current_sequence_num` and `ack_num`, modulo
`SeqMod`. That the difference never passes the window is not inductive: an
acknowledgement on its way could be older than `ack_num`, or newer than what was sent,
and the difference would jump around the end of the numbers. `WindowInv` measures
numbers by how far they lie behind the next one to be sent (`Lag`). With the packets
on the way both ways, `Flight` says that the acknowledgements rise from `ack_num` on,
that the segments take numbers one behind the other up to `current_sequence_num`, and
that none of these is acknowledged yet. `InWindow` bounds what is in flight together
with what is about to be sent: the segments of the current round, the numbers the
handshake has yet to take, and what the window computed before the last packets were
taken allows. `ClosesOnce` says that there is one FIN on top of the window, and
`HandshakeFirst` that SYN, SYN-ACK and the first ACK are answered in their order.
`Transport1Proofs` first has the arithmetic (`Plus` and `Lag` around the end of the
numbers), then what sending and taking a packet do to a `Flight`, then one lemma for
each action. Besides `MysockAssumption` the theorems assume `WindowAssumption`: an
initial sequence number and two lie below the window (below 256 and 3072 in the code,
which counts from `ack_num = 0` at first), and a full window with its FIN is less than
the sequence space.

*Close.* Two things abort a process: the receive thread's assertion on a reset
connection, and the empty buffer it queues when the peer has gone, which
`control_loop` takes for a packet until the assertion of `stcp_app_send` fails
(section 4). The end that closes second goes as soon as it has sent its FIN, so that
the first may meet either (`NoAbort` in section 4). What `transport1.c` does keep, as
long as no process is killed, is `AbortsAtEnd`: by then nothing is lost, since all
that the process wrote has been delivered and its peer has closed. This is not
inductive. `CloseInv` adds to `WindowInv` where the thread is in each state
(`ThreadPlace`), that the handshake is answered with the numbers it waits for, so that
`myconnect` does not fail (`SynAnswered`), that an end is in CLOSE_WAIT or CLOSED only
with its peer's FIN, which is behind all of the peer's data (`FinTaken`), and that a
RST comes from a process that has gone (`ResetLast`). A process that has gone has
closed, so it has taken the FIN of the other end and with it all of its data; when the
FINs cross neither end reaches CLOSED, and so neither goes. The proof goes on in
`Transport1Proofs`, with one lemma for each action. `AbortsOnlyAtEnd` needs no
assumption beyond those of the window, but counts as killed also a process that exits
after a failed `myconnect`; `NoneKilled` shows that there is none where `MayCrash =
{}`, as in the runs.

*Routing table.* That the table is the file is a statement about every line read so
far; the buffers carry the fields from one line to the next, and the invariant says that
they hold what the last line with such a field says (`Latest`), once the first line was
complete. Files may be of any length.

*Route search.* The invariant says that the best entry so far is the greatest
mask among the matching entries already examined. That a longer prefix has a
greater `mask_value` is `MaskOrder`, for every width of an address and of a byte.
`mask_value` and `Power2` are recursive functions: the proof shows that functions with
these equations exist (`RangeRecursion`) and then goes up by induction on a set of
naturals (`SetInduction`, from the well-foundedness of `<`), as the library's
induction rules cannot be used.

*ARP cache.* `sr_arpcache_lookup` does not look at ages, so freshness rests on the
sweeps: `FreshInv` says that a binding is no older than its lifetime and the time
since the last one. `times_sent` is read, incremented and stored by two threads, the
main one without the lock. `GivesUpLate` needs to know that it never runs ahead of the
requests that were sent: `CountInv` counts for each request those that the threads
have sent and not stored yet, `BoundInv` those that they are about to send, and
`LagInv` compares the values they have loaded; `FieldsInv` says where a new request
starts. `SweepInv` has the place of the sweep in the queue: it gives
`SweepKeepsPlace`, and that a request used after it was freed (run `Router_freed`) is
always used by the main thread (`TimeoutUsesNoFreed`). The theorems assume
`CacheAssumption` and bound the time between two sweeps by `SweepLag`.

*Session.* That the router takes commands whole is a statement about bytes:
`StreamInv` says that what it has read of the current command and what is on the
way are the commands not taken yet, one behind the other, each byte at its place
(`Starts` has the place where each command begins). A lost connection may cut this off
at the end, never in the middle. `HandshakeInv` has the handshake in one place at
a time, which is why `HWINFO` comes once, and `ListInv` the list of interfaces as that
of one `HWINFO` and the check against the routing table behind it. The theorems
assume `VnsAssumption`: every command is longer than the word of its size, and
every one that is not a packet fits the buffer.

*Proxy.* `PlaceInv` has a client in one place (backlog, parent, child), and `ReplyOf`
ties the response so far to the place of the child and to what its origin server has
sent. With these, the parent holds no client's socket outside of its work on it, and a
client gets one status or a prefix of its own response, all of it if it reads the end
of the stream after the origin server has closed normally.

*Header table.* The invariant says that a name has one slot and that one slot is
always left; the refinement maps a table to the function from its names to its
values.

*Listening mysockets.* `QueueSound` does not say why a slot that the receive thread
fills, without `connection_lock`, is in nobody's hands. `QueueInv` adds that a
client is in one place (`SocketsInv`: in the kernel, held as `new_socket`, or a
connection), that the slot found stays empty until it is filled and that the
receive thread is gone before the queue is taken down (`ListenerInv`), and that a
connection is in one slot until it is accepted (`SlotsInv`). Nothing is said of
`cur_len` beyond its type: the theorems hold although the counter may be wrong. The
order of `myaccept` is proved place by place (`InOrder`) and put together with
`OrderByPlace`. The theorems assume `ListenAssumption`.

Only model-checked:

* what eventually happens (`DataDelivered`, `UncrossedCloseEnds`,
  `EstablishedIsAccepted` and the other temporal properties with fairness), which the
  prover does not do;
* `HeadersPassedOn`, a statement about what a fold over the lines of a request and
  `SelectSeq` compute;
* `Checksum`, whose sums are recursive.

## 6. Not modelled

* The packet log (`sr_dumper.c`), which is output, and SHA-1 (`sha1.c`), a
  computation on 32-bit words whose result the controller does not look at.
* `Server&Client`, two loops on `send` and `recv` without state that outlives a
  call, and the file protocol of STCP's `client.c` and `server.c`, which is
  sequential on top of a byte stream.
* The table of mysocket descriptors. Its search and its use are not locked, but no
  program of the repository calls `mysocket()` beside the receive thread of a
  listening mysocket, so that only one thread takes descriptors at a time.
* The characters of an HTTP request line; the length checks, printing and logging of
  the router; the start of POX and Mininet; the measurement notebook.
