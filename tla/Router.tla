------------------------------- MODULE Router -------------------------------
(***************************************************************************)
(* The router (sr_router.c) on top of its ARP cache: the main thread,      *)
(* which handles the packets one at a time, the timeout thread and time.   *)
(*                                                                         *)
(* A packet is taken here after the length and checksum tests, which drop  *)
(* it without a change of state.  The gateways of the routing table are    *)
(* neighbours, as in src/rtable, never addresses of the router itself; the *)
(* search for a route is the subject of module RouteLookup.                *)
(***************************************************************************)
EXTENDS ArpCache

CONSTANT Ttl    \* the values of the TTL field that packets arrive with

VARIABLES
    out,        \* what has become of the last packet
    learned     \* learned[h]: the address h has last told the router

vars == <<cacheVars, out, learned>>

TtlMod == 256

Init ==
    /\ sr_arpcache_init
    /\ out = [kind |-> "none"]
    /\ learned = [h \in Hop |-> None]

Idle == Alive /\ handler["main"] = "none" /\ LockFree

\* sr_handle_arp_packet: a request or a reply of h to an address of the router.
sr_handle_arp_packet(op, h, mac) ==
    /\ Idle
    /\ sr_arpcache_insert(mac, h)
    /\ learned' = [learned EXCEPT ![h] = mac]
    /\ out' = [kind |-> IF op = "request" THEN "arp_reply" ELSE "none"]
    /\ UNCHANGED <<handlerVars, sweepVars, fault, burst>>

\* sr_send_icmp_packet: nothing without a route to the destination.  With one,
\* get_interface_from_ip looks for an interface with the gateway's own address,
\* and the NULL it returns is dereferenced.
sr_send_icmp_packet(dest) ==
    /\ fault' = IF dest \in Hop THEN "null" ELSE fault
    /\ out' = [kind |-> "none"]
    /\ UNCHANGED <<entries, requestVars, handlerVars, sweepVars, countVars, learned>>

\* ip_forwarding of a packet to one of the router's interfaces.
ToRouter(src, protocol) ==
    /\ Idle
    /\ CASE protocol = "echo_request" ->
                /\ out' = [kind |-> "echo_reply"]
                /\ UNCHANGED <<cacheVars, learned>>
         [] protocol = "icmp" ->
                /\ out' = [kind |-> "none"]
                /\ UNCHANGED <<cacheVars, learned>>
         [] OTHER -> sr_send_icmp_packet(src)

\* sr_handle_ip_packet of a packet there is no route for.
NoRoute(src) == Idle /\ sr_send_icmp_packet(src)

\* ip_forwarding of a packet whose time is up.
TtlExpired(src, ttl) ==
    /\ Idle /\ (ttl - 1) % TtlMod = 0
    /\ sr_send_icmp_packet(src)

\* ip_forwarding of a packet to a next hop in the cache ...
Forward(h, ttl) ==
    /\ Idle /\ (ttl - 1) % TtlMod # 0
    /\ sr_arpcache_lookup(h) # None
    /\ out' = [kind |-> "forwarded", mac |-> sr_arpcache_lookup(h).mac,
               arrived |-> ttl, left |-> (ttl - 1) % TtlMod]
    /\ UNCHANGED <<cacheVars, learned>>

\* ... and to one that is not.  The packet is handed to the queue with the name
\* of now_interface, which is NULL here.
QueueAndAsk(h, ttl) ==
    /\ Idle /\ (ttl - 1) % TtlMod # 0
    /\ sr_arpcache_lookup(h) = None
    /\ sr_arpcache_queuereq(h, ttl, FALSE)
    /\ handler' = [handler EXCEPT !["main"] = "decide"]
    /\ target' = [target EXCEPT !["main"] = h]
    /\ out' = [kind |-> "asked", hop |-> h]
    /\ UNCHANGED <<entries, stamp, loaded, sweepVars, fault, burst, learned>>

Source == Hop \cup {None}

sr_handlepacket ==
    \/ \E h \in Hop, m \in Mac, op \in {"request", "reply"} : sr_handle_arp_packet(op, h, m)
    \/ \E src \in Source, p \in {"echo_request", "icmp", "other"} : ToRouter(src, p)
    \/ \E src \in Source : NoRoute(src)
    \/ \E src \in Source, ttl \in Ttl : TtlExpired(src, ttl)
    \/ \E h \in Hop, ttl \in Ttl : Forward(h, ttl) \/ QueueAndAsk(h, ttl)

Main == handle_arpreq("main") /\ UNCHANGED <<out, learned>>
Timeout == sr_arpcache_timeout /\ UNCHANGED <<out, learned>>
Time == Tick /\ UNCHANGED <<out, learned>>

Next == sr_handlepacket \/ Main \/ Timeout \/ Time

Spec == Init /\ [][Next]_vars

\* The threads run and time passes; nothing obliges a packet to arrive.
FairSpec == Spec /\ WF_vars(Main) /\ WF_vars(Timeout) /\ WF_vars(Time)

-----------------------------------------------------------------------------
(* Properties.                                                             *)

\* The type invariant, by the parts of the state.
RequestType ==
    /\ requests \subseteq Hop
    /\ age \in [Hop -> 0 .. 2] /\ times_sent \in [Hop -> 0 .. (MaxTries + 1)]
    /\ packets \in [Hop -> SUBSET Ttl]
HandlerType ==
    /\ handler \in [Thread -> {"none", "decide", "send", "stamp", "count", "destroy"}]
    /\ target \in [Thread -> Hop \cup {None}]
    /\ stamp \in [Thread -> 0 .. 2] /\ loaded \in [Thread -> 0 .. MaxTries]
SweepType == sweeping \in BOOLEAN /\ todo \subseteq Hop /\ since_sweep \in 0 .. SweepLag
CountType == tries \in [Hop -> 0 .. MaxTries] /\ burst \in [Hop -> 0 .. 2]
TypeOK ==
    /\ entries \in [Slot -> Entry \cup {None}]
    /\ RequestType /\ HandlerType /\ SweepType /\ CountType
    /\ fault \in {"none", "null", "freed"}
    /\ learned \in [Hop -> Mac \cup {None}]

\* The inductive invariant: the types, and what the two threads may rely on
\* while the other runs, with the lock and without.
CacheInv ==
    TypeOK /\ SweepInv /\ FreshInv /\ FieldsInv /\ CountInv /\ BoundInv /\ LagInv

\* A packet that has to wait for an ARP reply is kept with the request.
PacketsKept ==
    out.kind = "asked" /\ handler["main"] = "decide" /\ out.hop \in requests =>
        packets[out.hop] # {}

\* A message to one of the router's own addresses, or one that cannot be
\* delivered, is answered with an ICMP error and does not stop the router.
NoNullDereference == fault # "null"

\* The TTL of a packet that is forwarded has decreased.
TtlDecreases == out.kind = "forwarded" => out.left < out.arrived

\* What a neighbour tells the router is in the cache, even if it was full.
LearnedIsCached ==
    [][\A h \in Hop : learned'[h] # learned[h] =>
            \E i \in Slot : entries'[i] # None /\ entries'[i].ip = h]_vars
=============================================================================
