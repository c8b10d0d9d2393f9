------------------------------ MODULE ArpCache ------------------------------
(***************************************************************************)
(* The ARP cache of the router (sr_arpcache.c): the table of bindings, the *)
(* queue of requests, handle_arpreq and the thread that times both out.    *)
(* Module Router adds the main thread, which handles the packets.          *)
(*                                                                         *)
(* The lock of the cache is held by the timeout thread through a whole     *)
(* sweep; the main thread holds it for one operation at a time, and not at *)
(* all while it runs handle_arpreq.  handle_arpreq is therefore a sequence *)
(* of steps that either thread may be in, on a request that the other may  *)
(* free: a use of a freed request ends the behaviour with fault = "freed". *)
(*                                                                         *)
(* Time is whole seconds, as time() gives it.  A time stamp is kept as its *)
(* age, up to the age from which on the code does not tell ages apart.     *)
(* The request a thread works on is named by its IP address: only the main *)
(* thread adds requests, and never while it holds on to one.               *)
(***************************************************************************)
EXTENDS Naturals, FiniteSets

CONSTANTS
    Hop,                \* IP addresses of the neighbours, the next hops
    Mac,                \* hardware addresses
    None,               \* no entry
    SR_ARPCACHE_SZ,     \* entries in the table
    SR_ARPCACHE_TO,     \* seconds after which a binding is dropped
    MaxTries,           \* ARP requests sent before the router gives up: 5
    SweepLag            \* seconds that may pass between two sweeps

ASSUME CacheAssumption ==
    /\ SR_ARPCACHE_SZ \in Nat /\ SR_ARPCACHE_TO \in Nat
    /\ MaxTries \in Nat /\ SweepLag \in Nat
    /\ None \notin [ip : Hop, mac : Mac, age : Nat]

VARIABLES
    entries,        \* the table: None where it is not valid
    requests,       \* the next hops with a request in the queue
    age,            \* age[h]: seconds since request h was last sent, up to 2
    times_sent,     \* times_sent[h]
    packets,        \* packets[h]: the packets waiting on request h
    handler,        \* handler[t]: where thread t is in handle_arpreq
    target,         \* target[t]: the request it handles
    stamp,          \* stamp[t]: the age of its current_time while it is needed, up to 2
    loaded,         \* loaded[t]: times_sent as it has loaded it
    sweeping,       \* the timeout thread is in a sweep and holds the lock
    todo,           \* the requests the sweep has still to visit
    since_sweep,    \* seconds since the last sweep began
    fault,          \* what has ended the process
    tries,          \* tries[h]: ARP requests sent for request h, up to MaxTries
    burst           \* burst[h]: ARP requests sent for h in this second, up to 2

requestVars == <<requests, age, times_sent, packets>>
handlerVars == <<handler, target, stamp, loaded>>
sweepVars == <<sweeping, todo, since_sweep>>
countVars == <<tries, burst>>
cacheVars == <<entries, requestVars, handlerVars, sweepVars, fault, countVars>>

Thread == {"main", "timeout"}
Slot == 1 .. SR_ARPCACHE_SZ
Entry == [ip : Hop, mac : Mac, age : 0 .. (SR_ARPCACHE_TO + SweepLag + 1)]

Alive == fault = "none"

\* Counting up to a cap.
Older(a, cap) == IF a < cap THEN a + 1 ELSE a

\* The main thread gets the lock between two sweeps.
LockFree == ~sweeping

sr_arpcache_init ==
    /\ entries = [i \in Slot |-> None]
    /\ requests = {}
    /\ age = [h \in Hop |-> 2] /\ times_sent = [h \in Hop |-> 0]
    /\ packets = [h \in Hop |-> {}]
    /\ handler = [t \in Thread |-> "none"]
    /\ target = [t \in Thread |-> None]
    /\ stamp = [t \in Thread |-> 0] /\ loaded = [t \in Thread |-> 0]
    /\ sweeping = FALSE /\ todo = {} /\ since_sweep = 0
    /\ fault = "none"
    /\ tries = [h \in Hop |-> 0] /\ burst = [h \in Hop |-> 0]

-----------------------------------------------------------------------------
(* The operations of the main thread on the cache.                         *)

Matches(ip) == {i \in Slot : entries[i] # None /\ entries[i].ip = ip}

\* The last valid entry of the table that matches.
sr_arpcache_lookup(ip) ==
    IF Matches(ip) = {} THEN None
    ELSE entries[CHOOSE i \in Matches(ip) : \A j \in Matches(ip) : j <= i]

\* A new request has been sent at the epoch.  The packet is kept if it comes
\* with the name of an interface.
sr_arpcache_queuereq(ip, packet, named) ==
    /\ requests' = requests \cup {ip}
    /\ packets' = [packets EXCEPT ![ip] = @ \cup (IF named THEN {packet} ELSE {})]
    /\ UNCHANGED <<age, times_sent, tries>>

\* A request leaves the queue for good, with its packets.  The fields of a
\* next hop without a request are those calloc gives the next one.
Remove(ip) ==
    /\ requests' = requests \ {ip}
    /\ age' = [age EXCEPT ![ip] = 2]
    /\ times_sent' = [times_sent EXCEPT ![ip] = 0]
    /\ packets' = [packets EXCEPT ![ip] = {}]
    /\ tries' = [tries EXCEPT ![ip] = 0]

\* The first entry that is not valid takes the binding; there is none to take
\* it when the table is full.  The request leaves the queue either way, with
\* its packets.
sr_arpcache_insert(mac, ip) ==
    LET free == {i \in Slot : entries[i] = None}
    IN  /\ Remove(ip)
        /\ entries' = IF free = {} THEN entries
                      ELSE [entries EXCEPT ![CHOOSE i \in free : \A j \in free : i <= j] =
                                [ip |-> ip, mac |-> mac, age |-> 0]]

-----------------------------------------------------------------------------
(* handle_arpreq, by either thread.                                        *)

Return(t) ==
    /\ handler' = [handler EXCEPT ![t] = "none"]
    /\ target' = [target EXCEPT ![t] = None]

\* The request is used after it has been freed.
Freed(t) ==
    /\ Alive /\ handler[t] # "none" /\ target[t] \notin requests
    /\ fault' = "freed"
    /\ UNCHANGED <<entries, requestVars, handlerVars, sweepVars, countVars>>

\* Mutant of GiveUp: one request too many.
GiveUpLater(h) == times_sent[h] > MaxTries

GiveUp(h) == times_sent[h] >= MaxTries

\* Nothing to do within a second; give up after MaxTries; else send again.
\* The ICMP messages for the waiting packets fail (see sr_send_icmp_packet).
Decide(t) ==
    /\ Alive /\ handler[t] = "decide" /\ target[t] \in requests
    /\ LET h == target[t]
           give_up == age[h] > 1 /\ GiveUp(h)
       IN  /\ handler' = [handler EXCEPT ![t] =
                IF age[h] <= 1 THEN "none" ELSE IF give_up THEN "destroy" ELSE "send"]
           /\ fault' = IF give_up /\ packets[h] # {} THEN "null" ELSE fault
           /\ target' = [target EXCEPT ![t] = IF age[h] <= 1 THEN None ELSE @]
    /\ stamp' = [stamp EXCEPT ![t] = 0]
    /\ UNCHANGED <<entries, requestVars, loaded, sweepVars, countVars>>

\* sr_send_arp_request: the request is broadcast on every interface.
sr_send_arp_request(t) ==
    /\ Alive /\ handler[t] = "send" /\ target[t] \in requests
    /\ tries' = [tries EXCEPT ![target[t]] = Older(@, MaxTries)]
    /\ burst' = [burst EXCEPT ![target[t]] = Older(@, 2)]
    /\ handler' = [handler EXCEPT ![t] = "stamp"]
    /\ UNCHANGED <<entries, requestVars, target, stamp, loaded, sweepVars, fault>>

\* request->sent = current_time, taken on entry; request->times_sent++ begins.
Stamp(t) ==
    /\ Alive /\ handler[t] = "stamp" /\ target[t] \in requests
    /\ age' = [age EXCEPT ![target[t]] = stamp[t]]
    /\ loaded' = [loaded EXCEPT ![t] = times_sent[target[t]]]
    /\ stamp' = [stamp EXCEPT ![t] = 0]
    /\ handler' = [handler EXCEPT ![t] = "count"]
    /\ UNCHANGED <<entries, requests, times_sent, packets, target, sweepVars, fault,
                   countVars>>

\* Mutants of Count: the request is not counted; it is counted twice.
CountNot(t) ==
    /\ Alive /\ handler[t] = "count" /\ target[t] \in requests
    /\ Return(t)
    /\ UNCHANGED <<entries, requestVars, stamp, loaded, sweepVars, fault, countVars>>
CountTwice(t) ==
    /\ Alive /\ handler[t] = "count" /\ target[t] \in requests
    /\ times_sent' = [times_sent EXCEPT ![target[t]] = loaded[t] + 2]
    /\ Return(t)
    /\ UNCHANGED <<entries, requests, age, packets, stamp, loaded, sweepVars, fault,
                   countVars>>

Count(t) ==
    /\ Alive /\ handler[t] = "count" /\ target[t] \in requests
    /\ times_sent' = [times_sent EXCEPT ![target[t]] = loaded[t] + 1]
    /\ Return(t)
    /\ loaded' = [loaded EXCEPT ![t] = 0]
    /\ UNCHANGED <<entries, requests, age, packets, stamp, sweepVars, fault, countVars>>

\* Mutant of sr_arpreq_destroy: the lock is not taken.
DestroyUnlocked(t) ==
    /\ Alive /\ handler[t] = "destroy" /\ target[t] \in requests
    /\ Remove(target[t])
    /\ Return(t)
    /\ UNCHANGED <<entries, stamp, loaded, sweepVars, fault, burst>>

\* The timeout thread already has the lock, which is recursive.
sr_arpreq_destroy(t) ==
    /\ Alive /\ handler[t] = "destroy" /\ target[t] \in requests
    /\ t = "timeout" \/ LockFree
    /\ Remove(target[t])
    /\ Return(t)
    /\ UNCHANGED <<entries, stamp, loaded, sweepVars, fault, burst>>

handle_arpreq(t) ==
    \/ Decide(t) \/ sr_send_arp_request(t) \/ Stamp(t) \/ Count(t)
    \/ sr_arpreq_destroy(t) \/ Freed(t)

-----------------------------------------------------------------------------
(* The timeout thread: sr_arpcache_timeout.                                *)

\* Mutant of Expired: a binding lives for a second longer.
ExpiredLate(e) == e # None /\ e.age > SR_ARPCACHE_TO + 1

Expired(e) == e # None /\ e.age > SR_ARPCACHE_TO

\* It wakes up, takes the lock and invalidates the old entries ...
BeginSweep ==
    /\ Alive /\ ~sweeping
    /\ sweeping' = TRUE /\ todo' = requests /\ since_sweep' = 0
    /\ entries' = [i \in Slot |-> IF Expired(entries[i]) THEN None ELSE entries[i]]
    /\ UNCHANGED <<requestVars, handlerVars, fault, countVars>>

\* ... then sr_arpcache_sweepreqs handles one request after the other ...
VisitRequest ==
    /\ Alive /\ sweeping /\ handler["timeout"] = "none"
    /\ \E h \in todo :
        /\ todo' = todo \ {h}
        /\ target' = [target EXCEPT !["timeout"] = h]
    /\ handler' = [handler EXCEPT !["timeout"] = "decide"]
    /\ UNCHANGED <<entries, requestVars, stamp, loaded, sweeping, since_sweep, fault,
                   countVars>>

\* ... and it sleeps for a second.
EndSweep ==
    /\ Alive /\ sweeping /\ handler["timeout"] = "none" /\ todo = {}
    /\ sweeping' = FALSE
    /\ UNCHANGED <<entries, requestVars, handlerVars, todo, since_sweep, fault, countVars>>

sr_arpcache_timeout == BeginSweep \/ VisitRequest \/ EndSweep \/ handle_arpreq("timeout")

\* A second passes.  sleep(1.0) brings a sweep every second; SweepLag is how
\* late the scheduler may make it.
Tick ==
    /\ Alive /\ since_sweep < SweepLag
    /\ since_sweep' = since_sweep + 1
    /\ age' = [h \in Hop |-> Older(age[h], 2)]
    /\ stamp' = [t \in Thread |->
            IF handler[t] \in {"send", "stamp"} THEN Older(stamp[t], 2) ELSE 0]
    /\ entries' = [i \in Slot |->
            IF entries[i] = None THEN None
            ELSE [entries[i] EXCEPT !.age = Older(@, SR_ARPCACHE_TO + SweepLag + 1)]]
    /\ burst' = [h \in Hop |-> 0]
    /\ UNCHANGED <<requests, times_sent, packets, handler, target, loaded, sweeping,
                   todo, fault, tries>>

-----------------------------------------------------------------------------
(* Properties.                                                             *)

\* The table never holds a binding older than its lifetime and the time the
\* sweeps may be apart: sr_arpcache_lookup does not look at the age itself.
EntriesFresh ==
    \A i \in Slot : entries[i] # None => entries[i].age <= SR_ARPCACHE_TO + SweepLag

\* The router gives up on a next hop only after it has sent MaxTries requests
\* for it, whichever threads sent them: times_sent does not run ahead.
GivesUpLate ==
    \A h \in requests : times_sent[h] >= MaxTries => tries[h] >= MaxTries

\* The requests that sr_arpcache_sweepreqs has yet to visit stay in the queue:
\* the next pointer it saves before it handles a request remains valid.
NextPointersValid == todo \subseteq requests

\* The parts of the inductive invariant CacheInv of module Router.

\* The timeout thread works on a request that is in the queue and that it will
\* not visit again, and it has the lock while it does.
SweepInv ==
    /\ NextPointersValid
    /\ ~sweeping => todo = {} /\ handler["timeout"] = "none"
    /\ handler["timeout"] # "none" => target["timeout"] \in requests \ todo
    /\ handler["main"] # "none" => target["main"] \in Hop

\* No binding is older than its lifetime and the time since the last sweep.
FreshInv ==
    \A i \in Slot : entries[i] # None => entries[i].age <= SR_ARPCACHE_TO + since_sweep

\* A new request begins with the fields calloc gives it.
FieldsInv == \A h \in Hop \ requests : times_sent[h] = 0 /\ tries[h] = 0

\* How many threads are at one of the places of handle_arpreq with request h.
At(t, h, places) == handler[t] \in places /\ target[t] = h
Both(h, places) ==
    (IF At("main", h, places) THEN 1 ELSE 0) + (IF At("timeout", h, places) THEN 1 ELSE 0)

\* The requests sent for h are those counted in times_sent, or more, and those
\* that the threads have sent and not counted yet.
CountInv ==
    \A h \in requests : tries[h] < MaxTries =>
        /\ times_sent[h] + Both(h, {"stamp", "count"}) <= tries[h]
        /\ \A t \in Thread : At(t, h, {"count"}) =>
                loaded[t] + Both(h, {"stamp", "count"}) <= tries[h]

\* A thread that has decided to send adds one to times_sent, and no more than
\* one of them takes it past MaxTries.
BoundInv ==
    \A h \in requests :
        /\ times_sent[h] + Both(h, {"send", "stamp", "count"}) <= MaxTries + 1
        /\ \A t \in Thread : At(t, h, {"count"}) =>
                loaded[t] + Both(h, {"send", "stamp", "count"}) <= MaxTries + 1

\* The value that main stores in times_sent may be old, never too large.
LagInv ==
    \A h \in requests :
        /\ At("main", h, {"count"}) => loaded["main"] <= times_sent[h]
        /\ At("timeout", h, {"count"}) /\ At("main", h, {"decide", "send", "stamp"}) =>
                loaded["timeout"] = times_sent[h]
        /\ At("timeout", h, {"count"}) /\ At("main", h, {"count"}) =>
                loaded["main"] <= loaded["timeout"]

\* At most one ARP request a second is sent for a next hop.
OneRequestPerSecond == \A h \in Hop : burst[h] <= 1

\* handle_arpreq does not use a request after it was destroyed.
NoUseAfterFree == fault # "freed"

\* A request does not stay in the queue: it is answered, or given up.
RequestEnds == \A h \in Hop : h \in requests ~> (h \notin requests \/ ~Alive)
=============================================================================
