----------------------------- MODULE VnsSession -----------------------------
(***************************************************************************)
(* The session of the router with the controller: sr_connect_to_server and *)
(* the loop of main on one side (sr_vns_comm.c, sr_main.c, sr_if.c), the   *)
(* POX component on the other (srhandler.py, ofhandler.py).                *)
(*                                                                         *)
(* The controller has two threads.  The reactor accepts the router, greets *)
(* it and answers its messages; the OpenFlow thread learns the interfaces  *)
(* of the switch and broadcasts its packets to every client in srclients,  *)
(* in whatever state the session of that client is.                        *)
(*                                                                         *)
(* To the router the commands are a stream of bytes: a size word of Word   *)
(* bytes, counted in the size, and a body.  recv returns any number of     *)
(* bytes up to what was asked for.  One that returns 0, at the end of the  *)
(* stream, or is interrupted, adds nothing and is repeated.  Messages to   *)
(* the controller are whole: LTProtocol, which is not in the repository,   *)
(* takes them apart.                                                       *)
(***************************************************************************)
EXTENDS Naturals, Sequences, FiniteSets, Functions

CONSTANTS
    IfaceName,      \* names of interfaces
    Iface,          \* the interfaces of the switch
    Setups,         \* how the router may be started: [template, key, table]
    Word,           \* bytes of a size word (4)
    MAX_COMMAND,    \* the longest command the router reads (10000)
    Size,           \* Size[k]: bytes of a command of kind k
    Packets,        \* kinds of packets the switch reports
    Unsolicited,    \* kinds of commands another VNS server may add
    MaxPackets,     \* bound on reported packets and added commands
    None

PacketKind == {"frame", "arp_not_for_us", "short", "jumbo"}
CommandKind == {"AUTH_REQUEST", "AUTH_STATUS", "HWINFO", "RTABLE", "CLOSE", "BANNER"}

ASSUME VnsAssumption ==
    /\ Word \in Nat \ {0} /\ MAX_COMMAND \in Nat /\ MaxPackets \in Nat
    /\ Size \in [PacketKind \cup CommandKind -> Nat]
    /\ \A k \in PacketKind \cup CommandKind : Size[k] > Word
    /\ \A k \in CommandKind : Size[k] <= MAX_COMMAND
    /\ Packets \subseteq PacketKind /\ Unsolicited \subseteq {"RTABLE", "CLOSE", "BANNER"}
    /\ Iface \subseteq IfaceName /\ IsFiniteSet(Iface) /\ None \notin IfaceName
    /\ Setups \subseteq [template : BOOLEAN, key : BOOLEAN, table : SUBSET IfaceName]

VARIABLES
    interfaces,     \* what RouterInfo has told the controller, None before
    srclient,       \* how far the reactor is with the router
    conn,           \* the TCP connection
    down,           \* bytes on their way to the router
    up,             \* messages on their way to the controller
    setup,          \* how the router was started
    router,         \* the main thread of the router
    expected_cmd,   \* the command sr_read_from_server_expect is called with
    buf,            \* the bytes it has read of the next command
    if_list,        \* the interfaces the router knows
    ready,          \* "Ready to process packets" was printed
    sent,           \* history: the commands sent to the router
    handled,        \* history: the commands the router has taken
    given,          \* history: the packets passed to sr_handlepacket
    added           \* packets and commands counted against MaxPackets

controllerVars == <<interfaces, srclient>>
routerVars == <<setup, router, expected_cmd, buf, if_list, ready>>
vars == <<controllerVars, conn, down, up, routerVars, sent, handled, given, added>>

\* The interfaces of the switch in some order.
Names == {s \in [1 .. Cardinality(Iface) -> Iface] : IsInjective(s)}

Command(k, x) == [kind |-> k, of |-> x]

\* The mCommand word: all packets are VNSPACKET.
Type(m) == IF m.kind \in PacketKind THEN "PACKET" ELSE m.kind

\* The bytes of a command, as LTProtocol writes them to the stream.
Bytes(m) == [i \in 1 .. Size[m.kind] |-> [msg |-> m, at |-> i]]

Init ==
    /\ interfaces = None /\ srclient = "none"
    /\ conn = "none" /\ down = <<>> /\ up = <<>>
    /\ setup \in Setups
    /\ router = "start" /\ expected_cmd = "AUTH_REQUEST" /\ buf = <<>>
    /\ if_list = <<>> /\ ready = FALSE
    /\ sent = <<>> /\ handled = <<>> /\ given = <<>> /\ added = 0

-----------------------------------------------------------------------------
(* The controller.                                                         *)

\* conn.send.  Nothing is written once the connection is gone, although the
\* client stays in srclients.
Send(m) ==
    /\ conn = "open"
    /\ down' = down \o Bytes(m)
    /\ sent' = Append(sent, m)

\* A switch connects: its interfaces, in the order of a Python dictionary.
_handle_RouterInfo ==
    /\ interfaces = None
    /\ interfaces' \in Names
    /\ UNCHANGED <<srclient, conn, down, up, routerVars, sent, handled, given, added>>

\* The reactor puts a new client into srclients ...
_handle_new_client ==
    /\ conn = "open" /\ srclient = "none"
    /\ srclient' = "listed"
    /\ UNCHANGED <<interfaces, conn, down, up, routerVars, sent, handled, given, added>>

\* ... and then sends the request that drives the client's state machine.
SendAuthRequest ==
    /\ srclient = "listed"
    /\ srclient' = "greeted"
    /\ Send(Command("AUTH_REQUEST", None))
    /\ UNCHANGED <<interfaces, conn, up, routerVars, handled, given, added>>

\* The switch reports a packet: it goes to everyone in srclients.  Before
\* RouterInfo the port has no name and the packet is dropped.
_handle_SRPacketIn ==
    /\ interfaces # None /\ srclient # "none" /\ added < MaxPackets
    /\ added' = added + 1
    /\ \E k \in Packets, i \in Iface : Send(Command(k, i))
    /\ UNCHANGED <<controllerVars, conn, up, routerVars, handled, given>>

\* The reply is not looked at: everyone is authenticated.
_handle_auth_reply ==
    /\ up # <<>> /\ Head(up) = "AUTH_REPLY"
    /\ up' = Tail(up)
    /\ Send(Command("AUTH_STATUS", None))
    /\ UNCHANGED <<controllerVars, conn, routerVars, handled, given, added>>

\* The answer to OPEN is the list of interfaces, if it is known by now.
_handle_open_msg ==
    /\ conn = "open" /\ up # <<>> /\ Head(up) = "OPEN"
    /\ up' = Tail(up)
    /\ srclient' = "opened"
    /\ IF interfaces # None
       THEN Send(Command("HWINFO", interfaces))
       ELSE UNCHANGED <<down, sent>>
    /\ UNCHANGED <<interfaces, conn, routerVars, handled, given, added>>

\* There is no handler for OPEN_TEMPLATE: the exception ends the connection.
_handle_open_template_msg ==
    /\ up # <<>> /\ Head(up) = "OPEN_TEMPLATE"
    /\ up' = Tail(up)
    /\ conn = "open" /\ conn' = "fin"
    /\ UNCHANGED <<controllerVars, down, routerVars, sent, handled, given, added>>

\* A packet of the router goes out through the switch.
_handle_packet_msg ==
    /\ conn = "open" /\ up # <<>> /\ Head(up) = "PACKET"
    /\ up' = Tail(up)
    /\ UNCHANGED <<controllerVars, conn, down, routerVars, sent, handled, given, added>>

_handle_recv_msg ==
    \/ _handle_auth_reply \/ _handle_open_msg \/ _handle_open_template_msg
    \/ _handle_packet_msg

\* What VNSProtocol.py defines and this controller does not send.
Announce(k) ==
    /\ srclient # "none" /\ added < MaxPackets
    /\ added' = added + 1
    /\ Send(Command(k, None))
    /\ UNCHANGED <<controllerVars, conn, up, routerVars, handled, given>>

\* The controller is killed: the stream ends behind what was sent, or is cut.
Lose ==
    /\ conn = "open"
    /\ \/ conn' = "fin" /\ UNCHANGED down
       \/ conn' = "reset" /\ down' = <<>>
    /\ UNCHANGED <<controllerVars, up, routerVars, sent, handled, given, added>>

-----------------------------------------------------------------------------
(* The router: the list of interfaces.                                     *)

sr_get_interface(name) == {i \in DOMAIN if_list : if_list[i].name = name}

\* The fields of a new interface are not initialised.
NewInterface(name) == [name |-> name, addr |-> None, ip |-> None]

\* Mutant of sr_add_interface: no return after the case of the empty list.
sr_add_interfaceTwice(list, name) ==
    IF list = <<>> THEN <<NewInterface(name), NewInterface(name)>>
    ELSE Append(list, NewInterface(name))

sr_add_interface(list, name) == Append(list, NewInterface(name))

\* Mutant of sr_set_ether_addr: the first interface is set, not the last.
sr_set_ether_addrFirst(list, addr) == [list EXCEPT ![1].addr = addr]

sr_set_ether_addr(list, addr) == [list EXCEPT ![Len(list)].addr = addr]

sr_set_ether_ip(list, ip) == [list EXCEPT ![Len(list)].ip = ip]

\* The entries VNSInterface packs for an interface, of those the router looks at:
\* HWINTERFACE, HWETHER and HWETHIP, in this order.
Entries(list, name) ==
    sr_set_ether_ip(sr_set_ether_addr(sr_add_interface(list, name), <<"addr", name>>),
                    <<"ip", name>>)

\* A HWINFO command has the entries of one interface after the other.
sr_handle_hwinfo(names) ==
    LET upTo[n \in 0 .. Len(names)] ==
            IF n = 0 THEN if_list ELSE Entries(upTo[n - 1], names[n])
    IN  upTo[Len(names)]

\* Every interface that the routing table uses is in the list, and neither is
\* empty.
sr_verify_routing_table(list) ==
    /\ list # <<>> /\ setup.table # {}
    /\ setup.table \subseteq {list[i].name : i \in DOMAIN list}

-----------------------------------------------------------------------------
(* The router: sr_read_from_server_expect.                                 *)

\* The number in the size word: of the command it belongs to, if the word is the
\* first one of a command.
len == IF \A i \in 1 .. Word : buf[i] = [msg |-> buf[1].msg, at |-> i]
       THEN Size[buf[1].msg.kind] ELSE MAX_COMMAND

\* Mutant of Wanted: the size is taken not to count the size word.
WantedBehindWord == IF Len(buf) < Word THEN Word - Len(buf) ELSE len + Word - Len(buf)

\* What the loops on recv and on read still ask for.
Wanted == IF Len(buf) < Word THEN Word - Len(buf) ELSE len - Len(buf)

Reading == router = "reading"
TooLarge == Len(buf) >= Word /\ len > MAX_COMMAND
Complete == Len(buf) > Word /\ ~TooLarge /\ Wanted = 0

\* The command, from the word behind the size.
command == buf[Word + 1].msg

\* main returns, or the process aborts: the connection is closed.
Leave(how) ==
    /\ router' = how
    /\ conn' = "closed" /\ down' = <<>> /\ up' = <<>> /\ buf' = <<>>
    /\ UNCHANGED expected_cmd

\* connect.
Connect ==
    /\ router = "start"
    /\ \/ /\ router' = "reading" /\ conn' = "open"
          /\ UNCHANGED <<down, up, buf, expected_cmd>>
       \/ Leave("exited")
    /\ UNCHANGED <<controllerVars, setup, if_list, ready, sent, handled, given, added>>

Recv ==
    /\ Reading /\ ~TooLarge /\ ~Complete
    /\ \E n \in 1 .. Len(down) :
        /\ n <= Wanted
        /\ buf' = buf \o SubSeq(down, 1, n)
        /\ down' = SubSeq(down, n + 1, Len(down))
    /\ UNCHANGED <<controllerVars, conn, up, setup, router, expected_cmd, if_list, ready,
                   sent, handled, given, added>>

\* recv fails, or the size is out of range.
ReadFails ==
    /\ Reading
    /\ (conn = "reset" /\ ~Complete) \/ TooLarge
    /\ Leave("exited")
    /\ UNCHANGED <<controllerVars, setup, if_list, ready, sent, handled, given, added>>

\* A command is taken, and is of the type that is expected.
Take(type) ==
    /\ Reading /\ Complete
    /\ Type(command) = type
    /\ expected_cmd \in {"any", type} \/ type = "CLOSE"
    /\ handled' = Append(handled, command)

\* Any other command ends the router while one is expected; VNSCLOSE is handled.
Unexpected ==
    /\ Reading /\ Complete
    /\ expected_cmd \notin {"any", Type(command)} /\ Type(command) # "CLOSE"
    /\ handled' = Append(handled, command)
    /\ Leave("exited")
    /\ UNCHANGED <<controllerVars, setup, if_list, ready, sent, given, added>>

\* sr_connect_to_server goes on when sr_read_from_server_expect has returned 1:
\* with the next command, and with the message that it sends before.
Return(next, messages) ==
    /\ buf' = <<>>
    /\ expected_cmd' = next
    /\ up' = up \o messages
    /\ UNCHANGED <<router, conn, down>>

\* Sending to a connection that was cut ends the router.
SendFails == conn = "reset"

\* Mutant of sr_handle_auth_request: no reply is sent.
sr_handle_auth_requestSilent ==
    /\ Take("AUTH_REQUEST")
    /\ Return("AUTH_STATUS", <<>>)
    /\ UNCHANGED <<controllerVars, setup, if_list, ready, sent, given, added>>

sr_handle_auth_request ==
    /\ Take("AUTH_REQUEST")
    /\ IF setup.key /\ ~SendFails
       THEN Return(IF expected_cmd = "any" THEN "any" ELSE "AUTH_STATUS", <<"AUTH_REPLY">>)
       ELSE Leave("exited")
    /\ UNCHANGED <<controllerVars, setup, if_list, ready, sent, given, added>>

\* The session is opened once the router is authenticated.
sr_handle_auth_status ==
    /\ Take("AUTH_STATUS")
    /\ IF SendFails THEN Leave("exited")
       ELSE IF setup.template THEN Return("RTABLE", <<"OPEN_TEMPLATE">>)
       ELSE Return("any", <<"OPEN">>)
    /\ UNCHANGED <<controllerVars, setup, if_list, ready, sent, given, added>>

\* The routing table is written to a file, which main loads; it may fail.
sr_handle_rtable ==
    /\ Take("RTABLE")
    /\ Return("any", <<>>) \/ Leave("exited")
    /\ UNCHANGED <<controllerVars, setup, if_list, ready, sent, given, added>>

HandleHwinfo ==
    /\ Take("HWINFO")
    /\ if_list' = sr_handle_hwinfo(command.of)
    /\ IF sr_verify_routing_table(if_list')
       THEN ready' = TRUE /\ Return("any", <<>>)
       ELSE UNCHANGED ready /\ Leave("exited")
    /\ UNCHANGED <<controllerVars, setup, sent, given, added>>

\* sr_arp_req_not_for_us looks the interface up, and asserts that there is one,
\* when the packet is long enough to be an ARP packet.
IfaceMissing == command.kind # "short" /\ sr_get_interface(command.of) = {}
sr_arp_req_not_for_us == command.kind = "arp_not_for_us"

PacketAborts ==
    /\ Take("PACKET") /\ IfaceMissing
    /\ Leave("aborted")
    /\ UNCHANGED <<controllerVars, setup, if_list, ready, sent, given, added>>

DropPacket ==
    /\ Take("PACKET") /\ ~IfaceMissing /\ sr_arp_req_not_for_us
    /\ Return(expected_cmd, <<>>)
    /\ UNCHANGED <<controllerVars, setup, if_list, ready, sent, given, added>>

\* sr_send_packet, if sr_handlepacket calls it: the source address must be that
\* of an interface of the list.
sr_send_packet == IF if_list = <<>> THEN <<>> ELSE <<"PACKET">>

\* Mutant of HandlePacket: the interface is not looked up.
HandlePacketAny ==
    /\ Take("PACKET") /\ ~sr_arp_req_not_for_us
    /\ given' = Append(given, command)
    /\ \E reply \in {<<>>, sr_send_packet} : Return(expected_cmd, reply)
    /\ UNCHANGED <<controllerVars, setup, if_list, ready, sent, added>>

\* Any other packet is passed to sr_handlepacket (module Router).
HandlePacket ==
    /\ Take("PACKET") /\ ~IfaceMissing /\ ~sr_arp_req_not_for_us
    /\ given' = Append(given, command)
    /\ \E reply \in {<<>>, sr_send_packet} : Return(expected_cmd, reply)
    /\ UNCHANGED <<controllerVars, setup, if_list, ready, sent, added>>

HandleBanner ==
    /\ Take("BANNER")
    /\ Return(expected_cmd, <<>>)
    /\ UNCHANGED <<controllerVars, setup, if_list, ready, sent, given, added>>

HandleClose ==
    /\ Take("CLOSE")
    /\ Leave("exited")
    /\ UNCHANGED <<controllerVars, setup, if_list, ready, sent, given, added>>

sr_read_from_server_expect ==
    \/ Recv \/ ReadFails \/ Unexpected
    \/ sr_handle_auth_request \/ sr_handle_auth_status \/ sr_handle_rtable \/ HandleHwinfo
    \/ PacketAborts \/ DropPacket \/ HandlePacket \/ HandleBanner \/ HandleClose

-----------------------------------------------------------------------------
Reactor == _handle_new_client \/ SendAuthRequest \/ _handle_recv_msg

OpenFlow == _handle_RouterInfo \/ _handle_SRPacketIn

Next ==
    \/ Reactor \/ OpenFlow \/ Lose \/ (\E k \in Unsolicited : Announce(k))
    \/ Connect \/ sr_read_from_server_expect

Spec == Init /\ [][Next]_vars

\* The threads of both programs run.  Nothing obliges a switch to connect or to
\* report packets.
FairSpec == Spec /\ WF_vars(Reactor) /\ WF_vars(sr_read_from_server_expect)

-----------------------------------------------------------------------------
(* Properties.                                                             *)

Message == [kind : PacketKind, of : Iface] \cup [kind : {"HWINFO"}, of : Names]
           \cup [kind : CommandKind \ {"HWINFO"}, of : {None}]
Byte == [msg : Message, at : Nat]

\* The type invariant, by the parts of the state.
StreamType ==
    /\ down \in Seq(Byte) /\ buf \in Seq(Byte)
    /\ sent \in Seq(Message) /\ handled \in Seq(Message) /\ given \in Seq(Message)
SessionType ==
    /\ interfaces \in Names \cup {None}
    /\ srclient \in {"none", "listed", "greeted", "opened"}
    /\ conn \in {"none", "open", "fin", "reset", "closed"}
    /\ up \in Seq({"AUTH_REPLY", "OPEN", "OPEN_TEMPLATE", "PACKET"})
    /\ setup \in Setups
    /\ router \in {"start", "reading", "exited", "aborted"}
    /\ expected_cmd \in {"AUTH_REQUEST", "AUTH_STATUS", "RTABLE", "any"}
    /\ ready \in BOOLEAN /\ added \in 0 .. MaxPackets
TypeOK == StreamType /\ SessionType

\* However the stream is cut into pieces, the router takes the commands that were
\* sent, whole and in order, and is at the start of a command between two.
FramesIntact ==
    /\ Len(handled) <= Len(sent) /\ \A i \in DOMAIN handled : handled[i] = sent[i]
    /\ buf # <<>> => \A i \in DOMAIN buf : buf[i] = [msg |-> sent[Len(handled) + 1], at |-> i]

\* A ready router knows every interface of the switch once, each with its own
\* addresses, and has routes through these only.
InterfacesMatch ==
    ready =>
        /\ {if_list[i].name : i \in DOMAIN if_list} = Iface
        /\ Len(if_list) = Cardinality(Iface)
        /\ \A i \in DOMAIN if_list : /\ if_list[i].addr = <<"addr", if_list[i].name>>
                                     /\ if_list[i].ip = <<"ip", if_list[i].name>>
        /\ setup.table \subseteq Iface /\ setup.table # {}

\* A packet that may be an ARP packet reaches sr_handlepacket only when the
\* interfaces are known and agree with the routing table, although the
\* controller sends packets from the moment it has accepted the router.
HandledWhenReady ==
    (\E i \in DOMAIN given : given[i].kind # "short") => ready

\* Where each command starts in the stream of all that was sent.
Starts(cmds) ==
    LET upTo[k \in 1 .. Len(cmds) + 1] ==
            IF k = 1 THEN 0 ELSE upTo[k - 1] + Size[cmds[k - 1].kind]
    IN  upTo

\* The bytes that the router has read and those on their way to it are the
\* commands it has not taken, one behind the other.
Pending(i) == IF i <= Len(buf) THEN buf[i] ELSE down[i - Len(buf)]
StreamInv ==
    LET here == Len(handled) + 1
        start == Starts(sent)
        unread == start[Len(sent) + 1] - start[here]
    IN  /\ here <= Len(sent) + 1 /\ \A i \in 1 .. Len(handled) : handled[i] = sent[i]
        /\ router = "start" => conn = "none"
        /\ Len(buf) + Len(down) <= unread
        /\ conn \in {"none", "open"} => Len(buf) + Len(down) = unread
        /\ \A k \in here .. Len(sent) : \A j \in 1 .. Size[sent[k].kind] :
            LET i == start[k] - start[here] + j
            IN  i <= Len(buf) + Len(down) => Pending(i) = [msg |-> sent[k], at |-> j]
        /\ buf # <<>> => Len(buf) <= Size[sent[here].kind]

\* The handshake is in one place at a time: with the reactor, in a command that
\* the router has not taken or in a message that the controller has not.
SessionKind == {"AUTH_REQUEST", "AUTH_STATUS", "HWINFO"}
InCommand(i) == i \in Len(handled) + 1 .. Len(sent) /\ sent[i].kind \in SessionKind
InMessage(i) == i \in 1 .. Len(up) /\ up[i] # "PACKET"
OneCommand == \A i, j \in 1 .. Len(sent) : InCommand(i) /\ InCommand(j) => i = j
OneMessage == \A i, j \in 1 .. Len(up) : InMessage(i) /\ InMessage(j) => i = j
NoCommand == \A i \in 1 .. Len(sent) : ~InCommand(i)
NoMessage == \A i \in 1 .. Len(up) : ~InMessage(i)
HandshakeInv ==
    /\ OneCommand /\ OneMessage /\ (NoCommand \/ NoMessage)
    /\ srclient \in {"none", "listed"} \/ if_list # <<>> => NoCommand /\ NoMessage
    /\ srclient \in {"none", "listed"} => if_list = <<>>

\* The list of interfaces is that of one HWINFO command, and the router goes on
\* only when the routing table agrees with it.
Listed(names) ==
    [i \in 1 .. Len(names) |->
        [name |-> names[i], addr |-> <<"addr", names[i]>>, ip |-> <<"ip", names[i]>>]]
ListInv ==
    /\ router = "start" => if_list = <<>>
    /\ if_list # <<>> => \E names \in Names : if_list = Listed(names)
    /\ ready => sr_verify_routing_table(if_list)
    /\ router = "reading" /\ if_list # <<>> => ready

\* The inductive invariant.
VnsInv == TypeOK /\ StreamInv /\ HandshakeInv /\ ListInv /\ HandledWhenReady

\* What stands in the way of a session: a command the handshake does not wait
\* for, a controller that does not know the interfaces when it is asked, a routing
\* table that does not fit, no key, a topology template, or a lost connection.
Handshake == <<"AUTH_REQUEST", "AUTH_STATUS", "HWINFO">>
Disturbed == \E i \in DOMAIN sent : i <= 3 /\ sent[i].kind # Handshake[i]
HwinfoWithheld == srclient = "opened" /\ \A i \in DOMAIN sent : sent[i].kind # "HWINFO"
Hindered ==
    \/ Disturbed \/ HwinfoWithheld
    \/ setup.template \/ ~setup.key \/ setup.table = {} \/ ~(setup.table \subseteq Iface)
    \/ conn \in {"fin", "reset", "closed"}

\* Otherwise a router that has connected gets ready to process packets.
SessionReady == (router = "reading") ~> (ready \/ Hindered)

\* A router that has connected gets the hardware information.
HwinfoArrives == (router = "reading") ~> ready

\* The assertion on the interface of a packet holds.
InterfaceFound == router # "aborted"

\* The router ends when its connection does.
EndsWithServer == (conn = "fin") ~> (router \in {"exited", "aborted"})
=============================================================================
