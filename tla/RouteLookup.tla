---------------------------- MODULE RouteLookup ----------------------------
(***************************************************************************)
(* The routing table: how sr_load_rt fills it, at most twice and before    *)
(* the first packet, and the search for the longest matching prefix that   *)
(* sr_handle_ip_packet and sr_send_icmp_packet both contain.               *)
(*                                                                         *)
(* An address is its bits in network order.  A mask is a prefix, given by  *)
(* its length.  The code compares masks by s_addr, the network-order bytes *)
(* read as a little-endian integer: mask_value.                            *)
(***************************************************************************)
EXTENDS Naturals, Sequences

CONSTANTS
    W,          \* bits in an address: 32
    ByteBits,   \* bits in a byte: 8
    MaxRoutes,  \* bound on the lines of a routing table file
    FileLines,  \* lines of a file: the text of a destination and of a mask
    Garbage,    \* what the uninitialised buffers of sscanf may hold
    Absent      \* the text of a field that the line does not have

ASSUME RouteAssumption == W \in Nat /\ ByteBits \in Nat \ {0} /\ MaxRoutes \in Nat

\* 2^n, as far as the bits of an address go.
Power2[n \in 0 .. W + ByteBits] == IF n = 0 THEN 1 ELSE 2 * Power2[n - 1]

\* Bit b of an address, 1 being the first on the wire, in s_addr.
BitWeight(b) ==
    LET byte == (b - 1) \div ByteBits
        bit == (b - 1) % ByteBits
    IN  Power2[byte * ByteBits + ByteBits - 1 - bit]

\* s_addr of the mask of length n.
mask_value[n \in 0 .. W] == IF n = 0 THEN 0 ELSE mask_value[n - 1] + BitWeight(n)

Addr == [1 .. W -> {0, 1}]
Route == [dest : Addr, len : 0 .. W]

VARIABLES
    routing_table,  \* the list of routes
    phase,          \* "boot", "load", "loaded", "search", "ready" or "exit"
    loads,          \* how often sr_load_rt has been called
    file,           \* the lines that fgets has returned in this call
    buffers,        \* dest and mask, which sscanf stores into
    clear_routing_table,
    destination_ip,
    walker,         \* the position of route_table in the list
    l_match,
    route_match     \* position of the best route so far, 0 for NULL

loadVars == <<loads, file, buffers, clear_routing_table>>
searchVars == <<destination_ip, walker, l_match, route_match>>
routeVars == <<routing_table, phase, loadVars, searchVars>>

RouteInit ==
    /\ routing_table = <<>> /\ phase = "boot"
    /\ loads = 0 /\ file = <<>> /\ buffers \in Garbage /\ clear_routing_table = FALSE
    /\ destination_ip = [b \in 1 .. W |-> 0]
    /\ walker = 1 /\ l_match = 0 /\ route_match = 0

-----------------------------------------------------------------------------
(* sr_load_rt.  The buffers it parses into are local to the call.          *)

BeginLoad ==
    /\ phase \in {"boot", "loaded"} /\ loads < 2
    /\ phase' = "load" /\ loads' = loads + 1 /\ file' = <<>>
    /\ clear_routing_table' = FALSE /\ buffers' \in Garbage
    /\ UNCHANGED <<routing_table, searchVars>>

\* access refuses the file: sr_load_rt_wrap exits.
NoFile ==
    /\ phase \in {"boot", "loaded"} /\ loads < 2
    /\ phase' = "exit"
    /\ UNCHANGED <<routing_table, loadVars, searchVars>>

\* Mutant of sr_add_rt_entry: the old table is not dropped.
AddToOldTable(r) == routing_table' = Append(routing_table, r)

\* The first route of a file drops the old table; a route goes to the end.
sr_add_rt_entry(r) ==
    routing_table' = Append(IF clear_routing_table THEN routing_table ELSE <<>>, r)

\* A field that the line does not have keeps what is in its buffer.
sscanf(line) ==
    [dest |-> IF line.dest = Absent THEN buffers.dest ELSE line.dest,
     len  |-> IF line.len = Absent THEN buffers.len ELSE line.len]

\* One turn of the loop.  If inet_aton refuses a text, sr_load_rt_wrap exits.
Line(line) ==
    /\ phase = "load" /\ Len(file) < MaxRoutes
    /\ file' = Append(file, line) /\ buffers' = sscanf(line)
    /\ \/ /\ sscanf(line) \in Route
          /\ sr_add_rt_entry(sscanf(line))
          /\ clear_routing_table' = TRUE
          /\ UNCHANGED phase
       \/ /\ sscanf(line) \notin Route
          /\ phase' = "exit"
          /\ UNCHANGED <<routing_table, clear_routing_table>>
    /\ UNCHANGED <<loads, searchVars>>

EndLoad ==
    /\ phase = "load"
    /\ phase' = "loaded"
    /\ UNCHANGED <<routing_table, loadVars, searchVars>>

-----------------------------------------------------------------------------
(* The search.                                                             *)

\* The destination of a packet with all bits beyond the mask cleared.
mask_and(len, d) == [b \in 1 .. W |-> IF b <= len THEN d[b] ELSE 0]

PrefixMatches(r, d) == mask_and(r.len, d) = r.dest

\* Mutant of BeginSearch: the best match of the last search is kept.
BeginSearchStale(d) ==
    /\ phase \in {"loaded", "ready"}
    /\ phase' = "search" /\ destination_ip' = d
    /\ walker' = 1
    /\ UNCHANGED <<routing_table, loadVars, l_match, route_match>>

BeginSearch(d) ==
    /\ phase \in {"loaded", "ready"}
    /\ phase' = "search" /\ destination_ip' = d
    /\ walker' = 1 /\ l_match' = 0 /\ route_match' = 0
    /\ UNCHANGED <<routing_table, loadVars>>

Examine ==
    /\ phase = "search" /\ walker <= Len(routing_table)
    /\ LET r == routing_table[walker]
       IN  IF PrefixMatches(r, destination_ip) /\ mask_value[r.len] > l_match
           THEN l_match' = mask_value[r.len] /\ route_match' = walker
           ELSE UNCHANGED <<l_match, route_match>>
    /\ walker' = walker + 1
    /\ UNCHANGED <<routing_table, phase, loadVars, destination_ip>>

\* The packet is handled and the next one may come.
EndSearch ==
    /\ phase = "search" /\ walker > Len(routing_table)
    /\ phase' = "ready"
    /\ UNCHANGED <<routing_table, loadVars, searchVars>>

RouteNext ==
    \/ BeginLoad \/ NoFile \/ EndLoad
    \/ \E line \in FileLines : Line(line)
    \/ \E d \in Addr : BeginSearch(d)
    \/ Examine \/ EndSearch

RouteSpec == RouteInit /\ [][RouteNext]_routeVars

-----------------------------------------------------------------------------
(* Properties.                                                             *)

\* The type invariant.
RouteType ==
    /\ routing_table \in Seq(Route)
    /\ phase \in {"boot", "load", "loaded", "search", "ready", "exit"}
    /\ loads \in 0 .. 2 /\ file \in Seq(FileLines)
    /\ clear_routing_table \in BOOLEAN
    /\ destination_ip \in Addr
    /\ walker \in 1 .. (Len(routing_table) + 1)
    /\ l_match \in Nat /\ route_match \in 0 .. Len(routing_table)

\* The routes a packet can be sent along: those that match and have a mask.
Candidates ==
    {i \in 1 .. Len(routing_table) :
        /\ PrefixMatches(routing_table[i], destination_ip)
        /\ routing_table[i].len > 0}

Searched == phase = "search" /\ walker > Len(routing_table)

\* The search ends with the first of the longest matching prefixes, and with
\* none exactly if no prefix of at least one bit matches: comparing masks as
\* little-endian integers finds the longest prefix.
LongestPrefix ==
    Searched =>
        IF Candidates = {} THEN route_match = 0
        ELSE /\ route_match \in Candidates
             /\ \A i \in Candidates :
                    \/ routing_table[i].len < routing_table[route_match].len
                    \/ routing_table[i].len = routing_table[route_match].len /\ route_match <= i

\* x is what the last line up to line i that has a text in this column says.
Latest(column, i, x) ==
    \E j \in 1 .. i : /\ column[j] # Absent /\ x = column[j]
                      /\ \A k \in (j + 1) .. i : column[k] = Absent

Dests(f) == [i \in 1 .. Len(f) |-> f[i].dest]
Masks(f) == [i \in 1 .. Len(f) |-> f[i].len]

\* The route that line i of a file stands for.
IsRouteOf(f, i, r) == Latest(Dests(f), i, r.dest) /\ Latest(Masks(f), i, r.len)

FirstComplete(f) == f # <<>> /\ f[1].dest # Absent /\ f[1].len # Absent

\* Whatever was loaded before, the table is the file that was read last, route
\* by route in the order of its lines, a line that lacks fields having those of
\* the lines before it; all of this if the first line is complete.
TableIsFile ==
    phase # "exit" /\ FirstComplete(file) =>
        /\ Len(routing_table) = Len(file)
        /\ \A i \in 1 .. Len(file) : IsRouteOf(file, i, routing_table[i])

\* A packet is said to have no route only if no entry of the table matches.
RouteFound ==
    Searched /\ (\E i \in 1 .. Len(routing_table) : PrefixMatches(routing_table[i], destination_ip))
        => route_match # 0
=============================================================================
