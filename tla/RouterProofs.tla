---------------------------- MODULE RouterProofs ----------------------------
(***************************************************************************)
(* Proofs about the router and its ARP cache, for any number of neighbours *)
(* and entries and any limits: bindings do not outlive their time, the     *)
(* router does not give up early, and a sweep does not lose its place,     *)
(* however the two threads interleave.                                     *)
(***************************************************************************)
EXTENDS Router, RouteLookup, WellFoundedInduction, TLAPS

-----------------------------------------------------------------------------
(* The steps, grouped by what they do to the cache.                        *)

\* A packet that is answered or forwarded leaves the cache as it is.
Quiet ==
    /\ UNCHANGED <<entries, requestVars, handlerVars, sweepVars, countVars, learned>>
    /\ fault' \in {fault, "null", "freed"}

\* sr_handle_arp_packet and ip_forwarding of a packet that has to wait, without
\* what they report.
Insert(h, mac) ==
    /\ Idle /\ sr_arpcache_insert(mac, h)
    /\ learned' = [learned EXCEPT ![h] = mac]
    /\ UNCHANGED <<handlerVars, sweepVars, fault, burst>>

Ask(h) ==
    /\ Idle
    /\ requests' = requests \cup {h}
    /\ handler' = [handler EXCEPT !["main"] = "decide"]
    /\ target' = [target EXCEPT !["main"] = h]
    /\ UNCHANGED <<entries, age, times_sent, packets, stamp, loaded, sweepVars, fault,
                   countVars, learned>>

\* A step of handle_arpreq that does not fail.
Handle(t) ==
    /\ Decide(t) \/ sr_send_arp_request(t) \/ Stamp(t) \/ Count(t) \/ sr_arpreq_destroy(t)
    /\ UNCHANGED learned

Sweep == (BeginSweep \/ VisitRequest \/ EndSweep \/ Tick) /\ UNCHANGED learned

\* Every step of the router is one of these.
LEMMA Steps ==
    ASSUME TypeOK, [Next]_vars
    PROVE  \/ Quiet
           \/ \E h \in Hop, m \in Mac : Insert(h, m)
           \/ \E h \in Hop : Ask(h)
           \/ \E t \in Thread : Handle(t)
           \/ Sweep
<1>1. CASE UNCHANGED vars
  BY Zenon, <1>1 DEF vars, cacheVars, Quiet
<1>2. ASSUME NEW h \in Hop, NEW m \in Mac, NEW op, sr_handle_arp_packet(op, h, m)
      PROVE  Insert(h, m)
  BY Zenon, <1>2 DEF sr_handle_arp_packet, Insert
<1>3. ASSUME NEW src, sr_send_icmp_packet(src)
      PROVE  Quiet
  BY Zenon, <1>3 DEF sr_send_icmp_packet, Quiet
<1>4. ASSUME NEW src, NEW p, ToRouter(src, p)
      PROVE  Quiet
  BY Zenon, <1>3, <1>4 DEF ToRouter, cacheVars, Quiet
<1>5. ASSUME NEW h \in Hop, NEW ttl \in Ttl, Forward(h, ttl)
      PROVE  Quiet
  BY Zenon, <1>5 DEF Forward, cacheVars, Quiet
<1>6. ASSUME NEW h \in Hop, NEW ttl \in Ttl, QueueAndAsk(h, ttl)
      PROVE  Ask(h)
  BY Zenon, <1>6 DEF QueueAndAsk, sr_arpcache_queuereq, Ask, TypeOK, RequestType, countVars
<1>7. CASE sr_handlepacket
  BY Zenon, <1>2, <1>3, <1>4, <1>5, <1>6, <1>7 DEF sr_handlepacket, NoRoute, TtlExpired
<1>8. ASSUME NEW t \in Thread, handle_arpreq(t), UNCHANGED learned
      PROVE  Quiet \/ Handle(t)
  BY Zenon, <1>8 DEF handle_arpreq, Handle, Freed, Quiet
<1>9. CASE Main
  BY Zenon, <1>8, <1>9 DEF Main, Thread
<1>10. CASE Timeout
  BY Zenon, <1>8, <1>10 DEF Timeout, sr_arpcache_timeout, Thread, Sweep
<1>11. CASE Time
  BY Zenon, <1>11 DEF Time, Sweep
<1> QED BY Zenon, <1>1, <1>7, <1>9, <1>10, <1>11 DEF Next

\* The cache starts empty.
LEMMA InitInv == Init => CacheInv
<1> SUFFICES ASSUME Init PROVE CacheInv
  BY Zenon
<1> USE CacheAssumption DEF Init, sr_arpcache_init
<1>0. sweeping \in BOOLEAN
  BY Zenon
<1>1. TypeOK
  BY <1>0 DEF TypeOK, RequestType, HandlerType, SweepType, CountType
<1>2. SweepInv /\ FreshInv /\ FieldsInv
  BY Zenon DEF SweepInv, NextPointersValid, FreshInv, FieldsInv, Thread
<1>3. CountInv /\ BoundInv /\ LagInv
  BY Zenon DEF CountInv, BoundInv, LagInv
<1> QED BY Zenon, <1>1, <1>2, <1>3 DEF CacheInv

-----------------------------------------------------------------------------
(* One lemma for each part of the invariant.                               *)

\* Counting up to a cap.
LEMMA OlderType ==
    ASSUME NEW cap \in Nat, NEW a \in 0 .. cap
    PROVE  Older(a, cap) \in 0 .. cap /\ Older(a, cap) <= a + 1 /\ a <= Older(a, cap)
           /\ (Older(a, cap) < cap => Older(a, cap) = a + 1)
  BY DEF Older

\* A binding is None, or a record with an age.
LEMMA EntryFacts ==
    /\ None \notin Entry
    /\ \A e \in Entry : e.ip \in Hop /\ e.mac \in Mac
                        /\ e.age \in 0 .. (SR_ARPCACHE_TO + SweepLag + 1)
    /\ \A e \in Entry : \A a \in 0 .. (SR_ARPCACHE_TO + SweepLag + 1) :
            [e EXCEPT !.age = a] \in Entry /\ [e EXCEPT !.age = a].age = a
  BY CacheAssumption DEF Entry

\* An insertion changes at most one entry.
LEMMA InsertEntries ==
    ASSUME NEW h \in Hop, NEW m \in Mac, sr_arpcache_insert(m, h), TypeOK
    PROVE  /\ entries' \in [Slot -> Entry \cup {None}]
           /\ \A i \in Slot : entries'[i] = entries[i] \/ entries'[i].age = 0
<1>1. [ip |-> h, mac |-> m, age |-> 0] \in Entry
  BY CacheAssumption DEF Entry
<1>2. PICK x : entries' = entries
               \/ entries' = [entries EXCEPT ![x] = [ip |-> h, mac |-> m, age |-> 0]]
  BY Zenon DEF sr_arpcache_insert
<1> QED BY <1>1, <1>2 DEF TypeOK

\* A sweep, or a second, keeps the table in shape.
LEMMA SweepEntries ==
    ASSUME Sweep, TypeOK
    PROVE  entries' \in [Slot -> Entry \cup {None}]
<1>1. CASE BeginSweep
  BY Zenon, <1>1 DEF BeginSweep, TypeOK
<1>2. CASE VisitRequest \/ EndSweep
  BY Zenon, <1>2 DEF VisitRequest, EndSweep, TypeOK
<1>3. CASE Tick
  <2>1. \A e \in Entry : [e EXCEPT !.age = Older(@, SR_ARPCACHE_TO + SweepLag + 1)] \in Entry
    BY EntryFacts, OlderType, CacheAssumption
  <2> QED BY Zenon, <1>3, <2>1 DEF Tick, TypeOK
<1> QED BY Zenon, <1>1, <1>2, <1>3 DEF Sweep

\* The fields of the requests.  Count stores at most one more than MaxTries.
LEMMA RequestTypeStep == CacheInv /\ [Next]_vars => RequestType'
<1> SUFFICES ASSUME TypeOK, RequestType, HandlerType, [Next]_vars PROVE RequestType'
  BY Zenon DEF CacheInv, TypeOK
<1> USE CacheAssumption DEF RequestType
<1>1. CASE UNCHANGED requestVars
  BY Zenon, <1>1 DEF requestVars
<1>2. ASSUME NEW h \in Hop, Remove(h)
      PROVE  RequestType'
  BY <1>2 DEF Remove
<1>3. ASSUME NEW h \in Hop, Ask(h)
      PROVE  RequestType'
  BY Zenon, <1>3 DEF Ask
<1>4. ASSUME NEW t \in Thread, Handle(t)
      PROVE  RequestType'
  <2>1. CASE Stamp(t)
    <3>1. stamp[t] \in 0 .. 2
      BY Zenon DEF HandlerType
    <3> QED BY Zenon, <2>1, <3>1 DEF Stamp
  <2>2. CASE Count(t)
    <3>1. loaded[t] + 1 \in 0 .. (MaxTries + 1)
      BY DEF HandlerType
    <3> QED BY Zenon, <2>2, <3>1 DEF Count
  <2>3. CASE sr_arpreq_destroy(t)
    BY Zenon, <1>2, <2>3 DEF sr_arpreq_destroy
  <2> QED
    BY Zenon, <1>1, <1>4, <2>1, <2>2, <2>3 DEF Handle, Decide, sr_send_arp_request
<1>5. CASE Tick
  <2>1. \A h \in Hop : Older(age[h], 2) \in 0 .. 2
    BY Zenon, OlderType
  <2> QED BY Zenon, <1>5, <2>1 DEF Tick
<1> QED
  BY Zenon, <1>1, <1>2, <1>3, <1>4, <1>5, Steps
     DEF Quiet, Insert, sr_arpcache_insert, Sweep, BeginSweep, VisitRequest, EndSweep

\* The places of the threads.  That what Stamp loads is at most MaxTries takes
\* BoundInv.
LEMMA HandlerTypeStep == CacheInv /\ [Next]_vars => HandlerType'
<1> SUFFICES ASSUME TypeOK, RequestType, HandlerType, SweepType, BoundInv, [Next]_vars
             PROVE  HandlerType'
  BY Zenon DEF CacheInv, TypeOK
<1> USE CacheAssumption DEF HandlerType
<1>1. CASE UNCHANGED handlerVars
  BY Zenon, <1>1 DEF handlerVars
<1>3. ASSUME NEW h \in Hop, Ask(h)
      PROVE  HandlerType'
  BY Zenon, <1>3 DEF Ask
<1>4. ASSUME NEW t \in Thread, Handle(t)
      PROVE  HandlerType'
  <2>1. CASE Decide(t)
    BY <2>1 DEF Decide
  <2>2. CASE sr_send_arp_request(t)
    BY Zenon, <2>2 DEF sr_send_arp_request
  <2>3. CASE Stamp(t)
    <3>1. times_sent[target[t]] \in 0 .. MaxTries
      <4>1. /\ target[t] \in requests /\ requests \subseteq Hop
            /\ times_sent[target[t]] \in Nat
            /\ handler[t] = "stamp"
        BY <2>3 DEF Stamp, RequestType
      <4>2. times_sent[target[t]] + Both(target[t], {"send", "stamp", "count"}) <= MaxTries + 1
        BY Zenon, <4>1 DEF BoundInv
      <4>3. Both(target[t], {"send", "stamp", "count"}) \in {1, 2}
        BY <4>1 DEF Both, At, Thread
      <4> QED BY <4>1, <4>2, <4>3
    <3> QED BY <2>3, <3>1 DEF Stamp
  <2>4. CASE Count(t)
    BY <2>4 DEF Count, Return
  <2>5. CASE sr_arpreq_destroy(t)
    BY Zenon, <2>5 DEF sr_arpreq_destroy, Return
  <2> QED BY Zenon, <1>4, <2>1, <2>2, <2>3, <2>4, <2>5 DEF Handle
<1>5. CASE VisitRequest
  BY Zenon, <1>5 DEF VisitRequest, SweepType
<1>6. CASE Tick
  <2>1. \A t \in Thread : Older(stamp[t], 2) \in 0 .. 2
    BY Zenon, OlderType
  <2> QED BY <1>6, <2>1 DEF Tick
<1> QED
  BY Zenon, <1>1, <1>3, <1>4, <1>5, <1>6, Steps
     DEF Quiet, Insert, Sweep, BeginSweep, EndSweep

\* The other types.
LEMMA OtherTypeStep ==
    CacheInv /\ [Next]_vars =>
        (SweepType /\ CountType /\ fault \in {"none", "null", "freed"}
         /\ learned \in [Hop -> Mac \cup {None}])'
<1> SUFFICES ASSUME TypeOK, [Next]_vars
             PROVE  /\ SweepType' /\ CountType' /\ fault' \in {"none", "null", "freed"}
                    /\ learned' \in [Hop -> Mac \cup {None}]
  BY Zenon DEF CacheInv
<1> USE CacheAssumption
<1>1. SweepType'
  <2>1. CASE UNCHANGED sweepVars
    BY Zenon, <2>1 DEF TypeOK, SweepType, sweepVars
  <2>2. CASE BeginSweep \/ VisitRequest \/ EndSweep
    <3>1. sweeping' \in BOOLEAN
      BY Zenon, <2>2 DEF BeginSweep, VisitRequest, EndSweep, TypeOK, SweepType
    <3>2. requests \subseteq Hop
      BY Zenon DEF TypeOK, RequestType
    <3> QED BY <2>2, <3>1, <3>2 DEF BeginSweep, VisitRequest, EndSweep, TypeOK, SweepType
  <2>3. CASE Tick
    BY <2>3 DEF Tick, TypeOK, SweepType
  <2> QED
    BY Zenon, <2>1, <2>2, <2>3, Steps DEF Quiet, Insert, Ask, Handle, Sweep, Decide,
       sr_send_arp_request, Stamp, Count, sr_arpreq_destroy
<1>2. CountType'
  <2>0. CountType
    BY Zenon DEF TypeOK
  <2>1. CASE UNCHANGED countVars
    BY Zenon, <2>0, <2>1 DEF CountType, countVars
  <2>2. ASSUME NEW h \in Hop, Remove(h), UNCHANGED burst
        PROVE  CountType'
    BY <2>0, <2>2 DEF Remove, CountType
  <2>3. ASSUME NEW t \in Thread, sr_send_arp_request(t)
        PROVE  CountType'
    <3>1. target[t] \in Hop
      BY Zenon, <2>3 DEF sr_send_arp_request, TypeOK, RequestType
    <3>2. Older(tries[target[t]], MaxTries) \in 0 .. MaxTries
          /\ Older(burst[target[t]], 2) \in 0 .. 2
      BY Zenon, <2>0, <3>1, OlderType DEF CountType
    <3> QED BY Zenon, <2>0, <2>3, <3>1, <3>2 DEF sr_send_arp_request, CountType
  <2>4. CASE Tick
    BY <2>0, <2>4 DEF Tick, CountType
  <2>5. ASSUME NEW t \in Thread, sr_arpreq_destroy(t)
        PROVE  target[t] \in Hop /\ Remove(target[t]) /\ UNCHANGED burst
    BY Zenon, <2>5 DEF sr_arpreq_destroy, TypeOK, RequestType
  <2> QED
    BY Zenon, <2>1, <2>2, <2>3, <2>4, <2>5, Steps DEF Quiet, Insert, sr_arpcache_insert,
         Ask,
       Handle, Sweep, Decide, Stamp, Count, BeginSweep, VisitRequest, EndSweep
<1>3. fault' \in {fault, "null", "freed"}
  BY Zenon, Steps DEF Quiet, Insert, Ask, Handle, Sweep, Decide, sr_send_arp_request, Stamp,
     Count, sr_arpreq_destroy, BeginSweep, VisitRequest, EndSweep, Tick
<1>4. learned' = learned \/ \E h \in Hop, m \in Mac : learned' = [learned EXCEPT ![h] = m]
  BY Zenon, Steps DEF Quiet, Insert, Ask, Handle, Sweep
<1> QED BY Zenon, <1>1, <1>2, <1>3, <1>4 DEF TypeOK

\* The types.
LEMMA TypeStep == CacheInv /\ [Next]_vars => TypeOK'
<1> SUFFICES ASSUME CacheInv, TypeOK, [Next]_vars PROVE TypeOK'
  BY Zenon DEF CacheInv
<1>1. entries' \in [Slot -> Entry \cup {None}]
  <2>1. CASE entries' = entries
    BY Zenon, <2>1 DEF TypeOK
  <2> QED
    BY Zenon, <2>1, InsertEntries, SweepEntries, Steps DEF Quiet, Insert, Ask, Handle,
         Decide,
       sr_send_arp_request, Stamp, Count, sr_arpreq_destroy
<1> QED BY Zenon, <1>1, RequestTypeStep, HandlerTypeStep, OtherTypeStep DEF TypeOK

\* The sweep.  Main neither adds nor removes a request while the lock is held.
LEMMA SweepStep == CacheInv /\ [Next]_vars => SweepInv'
<1> SUFFICES ASSUME TypeOK, RequestType, HandlerType, SweepInv, [Next]_vars PROVE SweepInv'
  BY Zenon DEF CacheInv, TypeOK
<1> USE DEF SweepInv, NextPointersValid
<1>1. CASE Quiet
  BY Zenon, <1>1 DEF Quiet, requestVars, handlerVars, sweepVars
<1>2. ASSUME NEW h \in Hop, NEW m \in Mac, Insert(h, m)
      PROVE  SweepInv'
  BY Zenon, <1>2 DEF Insert, Idle, LockFree, sr_arpcache_insert, Remove, handlerVars, sweepVars
<1>3. ASSUME NEW h \in Hop, Ask(h)
      PROVE  SweepInv'
  BY Zenon, <1>3 DEF Ask, Idle, LockFree, RequestType, HandlerType, Thread, sweepVars
<1>4. ASSUME NEW t \in Thread, Handle(t)
      PROVE  SweepInv'
  <2>1. CASE Decide(t)
    BY Zenon, <2>1 DEF Decide, RequestType, HandlerType, Thread, requestVars, sweepVars
  <2>2. CASE sr_send_arp_request(t)
    BY Zenon, <2>2 DEF sr_send_arp_request, RequestType, HandlerType, Thread, requestVars,
         sweepVars
  <2>3. CASE Stamp(t)
    BY Zenon, <2>3 DEF Stamp, RequestType, HandlerType, Thread, sweepVars
  <2>4. CASE Count(t)
    BY Zenon, <2>4 DEF Count, Return, RequestType, HandlerType, Thread, sweepVars
  <2>5. CASE sr_arpreq_destroy(t)
    BY Zenon, <2>5 DEF sr_arpreq_destroy, LockFree, Remove, Return, RequestType, HandlerType,
         Thread, sweepVars
  <2> QED BY Zenon, <1>4, <2>1, <2>2, <2>3, <2>4, <2>5 DEF Handle
<1>5. CASE Sweep
  <2>1. CASE BeginSweep
    BY Zenon, <2>1 DEF BeginSweep, requestVars, handlerVars
  <2>2. CASE VisitRequest
    BY Zenon, <2>2 DEF VisitRequest, RequestType, HandlerType, Thread, requestVars
  <2>3. CASE EndSweep
    BY Zenon, <2>3 DEF EndSweep, requestVars, handlerVars
  <2>4. CASE Tick
    BY Zenon, <2>4 DEF Tick
  <2> QED BY Zenon, <1>5, <2>1, <2>2, <2>3, <2>4 DEF Sweep
<1> QED BY Zenon, <1>1, <1>2, <1>3, <1>4, <1>5, Steps

\* The ages of the bindings.  A sweep drops what is older than its lifetime when
\* the seconds since the last sweep are counted anew.
LEMMA FreshStep == CacheInv /\ [Next]_vars => FreshInv'
<1> SUFFICES ASSUME TypeOK, FreshInv, [Next]_vars, NEW i \in Slot, entries'[i] # None
             PROVE  entries'[i].age <= SR_ARPCACHE_TO + since_sweep'
  BY Zenon DEF CacheInv, FreshInv
<1> USE CacheAssumption
<1>0. /\ since_sweep \in Nat /\ entries[i] \in Entry \cup {None}
      /\ entries[i] # None =>
            entries[i].age \in Nat /\ entries[i].age <= SR_ARPCACHE_TO + since_sweep
  BY EntryFacts DEF TypeOK, SweepType, FreshInv
<1>1. CASE entries' = entries /\ since_sweep' = since_sweep
  BY Zenon, <1>0, <1>1
<1>2. ASSUME NEW h \in Hop, NEW m \in Mac, Insert(h, m)
      PROVE  entries'[i].age <= SR_ARPCACHE_TO + since_sweep'
  <2>1. since_sweep' = since_sweep /\ (entries'[i] = entries[i] \/ entries'[i].age = 0)
    BY Zenon, <1>2, InsertEntries DEF Insert, sweepVars
  <2> QED BY <1>0, <2>1
<1>3. CASE BeginSweep
  BY <1>0, <1>3 DEF BeginSweep, Expired
<1>4. CASE Tick
  <2>1. entries[i] \in Entry /\ since_sweep' = since_sweep + 1
        /\ entries'[i] = [entries[i] EXCEPT !.age = Older(@, SR_ARPCACHE_TO + SweepLag + 1)]
    BY Zenon, <1>0, <1>4 DEF Tick
  <2>2. PICK a \in 0 .. (SR_ARPCACHE_TO + SweepLag + 1) :
            a <= entries[i].age + 1 /\ a = Older(entries[i].age, SR_ARPCACHE_TO + SweepLag + 1)
    BY <2>1, EntryFacts, OlderType
  <2>3. entries'[i].age = a
    BY Zenon, <2>1, <2>2, EntryFacts
  <2> QED BY <1>0, <2>1, <2>2, <2>3, EntryFacts
<1>5. ASSUME NEW t \in Thread, Handle(t)
      PROVE  entries' = entries /\ since_sweep' = since_sweep
  BY Zenon, <1>5 DEF Handle, Decide, sr_send_arp_request, Stamp, Count, sr_arpreq_destroy,
       sweepVars
<1> QED
  BY Zenon, <1>1, <1>2, <1>3, <1>4, <1>5, Steps
     DEF Quiet, Ask, Sweep, VisitRequest, EndSweep, sweepVars

\* The fields of a request that is not there.
LEMMA FieldsStep == CacheInv /\ [Next]_vars => FieldsInv'
<1> SUFFICES ASSUME TypeOK, RequestType, CountType, FieldsInv, [Next]_vars PROVE FieldsInv'
  BY Zenon DEF CacheInv, TypeOK
<1> USE DEF FieldsInv
<1>1. CASE Quiet
  BY Zenon, <1>1 DEF Quiet, requestVars, countVars
<1>2. ASSUME NEW h \in Hop, NEW m \in Mac, Insert(h, m)
      PROVE  FieldsInv'
  BY Zenon, <1>2 DEF Insert, sr_arpcache_insert, Remove, RequestType, CountType
<1>3. ASSUME NEW h \in Hop, Ask(h)
      PROVE  FieldsInv'
  BY Zenon, <1>3 DEF Ask, countVars
<1>4. ASSUME NEW t \in Thread, Handle(t)
      PROVE  FieldsInv'
  <2>1. CASE Decide(t)
    BY Zenon, <2>1 DEF Decide, requestVars, countVars
  <2>2. CASE sr_send_arp_request(t)
    BY Zenon, <2>2 DEF sr_send_arp_request, RequestType, CountType, requestVars
  <2>3. CASE Stamp(t)
    BY Zenon, <2>3 DEF Stamp, countVars
  <2>4. CASE Count(t)
    BY Zenon, <2>4 DEF Count, RequestType, CountType, countVars
  <2>5. CASE sr_arpreq_destroy(t)
    BY Zenon, <2>5 DEF sr_arpreq_destroy, Remove, RequestType, CountType
  <2> QED BY Zenon, <1>4, <2>1, <2>2, <2>3, <2>4, <2>5 DEF Handle
<1>5. CASE Sweep
  BY Zenon, <1>5 DEF Sweep, BeginSweep, VisitRequest, EndSweep, Tick, requestVars, countVars
<1> QED BY Zenon, <1>1, <1>2, <1>3, <1>4, <1>5, Steps

-----------------------------------------------------------------------------
(* The count of requests sent.                                             *)

\* No request is lost from the count.
LEMMA CountStep == CacheInv /\ [Next]_vars => CountInv'
<1> SUFFICES ASSUME TypeOK, RequestType, HandlerType, CountType, SweepInv, FieldsInv, CountInv, [Next]_vars
             PROVE CountInv'
  BY Zenon DEF CacheInv, TypeOK
<1> USE CacheAssumption
<1>1. CASE UNCHANGED <<times_sent, tries, loaded>> /\ requests' \subseteq requests
           /\ UNCHANGED <<handler, target>>
  BY Zenon, <1>1 DEF CountInv, Both, At
<1>2. ASSUME NEW h \in Hop, NEW m \in Mac, Insert(h, m)
      PROVE  CountInv'
  BY ZenonT(30), <1>2 DEF Insert, sr_arpcache_insert, Remove, CountInv, Both, At, handlerVars,
       RequestType, HandlerType, CountType
<1>3. ASSUME NEW h \in Hop, Ask(h)
      PROVE  CountInv'
  BY <1>3 DEF Ask, Idle, LockFree, SweepInv, FieldsInv, CountInv, Both, At, RequestType,
       HandlerType, CountType, Thread,
     countVars
<1>4. ASSUME NEW t \in Thread, Handle(t)
      PROVE  CountInv'
  <2> USE DEF CountInv, Both, At, RequestType, HandlerType, CountType, Thread
  <2>1. CASE Decide(t)
    BY ZenonT(30), <2>1 DEF Decide, requestVars, countVars
  <2>2. CASE sr_send_arp_request(t)
    BY <2>2 DEF sr_send_arp_request, requestVars, Older
  <2>3. CASE Stamp(t)
    BY <2>3 DEF Stamp, countVars
  <2>4. CASE Count(t)
    BY <2>4 DEF Count, Return, countVars
  <2>5. CASE sr_arpreq_destroy(t)
    BY ZenonT(30), <2>5 DEF sr_arpreq_destroy, Remove, Return
  <2> QED BY Zenon, <1>4, <2>1, <2>2, <2>3, <2>4, <2>5 DEF Handle
<1>5. CASE VisitRequest
  BY Zenon, <1>5 DEF VisitRequest, CountInv, Both, At, RequestType, HandlerType, CountType,
       Thread, requestVars, countVars
<1> QED
  BY Zenon, <1>1, <1>2, <1>3, <1>4, <1>5, Steps
     DEF Quiet, Sweep, BeginSweep, EndSweep, Tick, requestVars, handlerVars, countVars

\* Two threads at once take times_sent past MaxTries by one at most.  The value
\* the other thread has loaded matters when a thread decides to send.
LEMMA BoundStep == CacheInv /\ [Next]_vars => BoundInv'
<1> SUFFICES ASSUME TypeOK, RequestType, HandlerType, SweepInv, FieldsInv, BoundInv, LagInv, [Next]_vars
             PROVE  BoundInv'
  BY Zenon DEF CacheInv, TypeOK
<1> USE CacheAssumption
<1>1. CASE UNCHANGED <<times_sent, loaded, handler, target>> /\ requests' \subseteq requests
  BY Zenon, <1>1 DEF BoundInv, Both, At
<1>2. ASSUME NEW h \in Hop, NEW m \in Mac, Insert(h, m)
      PROVE  BoundInv'
  BY ZenonT(30), <1>2 DEF Insert, sr_arpcache_insert, Remove, BoundInv, Both, At, handlerVars,
       RequestType, HandlerType
<1>3. ASSUME NEW h \in Hop, Ask(h)
      PROVE  BoundInv'
  BY <1>3 DEF Ask, Idle, LockFree, SweepInv, FieldsInv, BoundInv, Both, At, RequestType,
       HandlerType, Thread
<1>4. ASSUME NEW t \in Thread, Handle(t)
      PROVE  BoundInv'
  <2> USE DEF BoundInv, Both, At, RequestType, HandlerType, Thread
  <2>1. CASE Decide(t)
    BY <2>1 DEF Decide, GiveUp, LagInv, requestVars
  <2>2. CASE sr_send_arp_request(t)
    BY <2>2 DEF sr_send_arp_request, requestVars
  <2>3. CASE Stamp(t)
    BY <2>3 DEF Stamp
  <2>4. CASE Count(t)
    BY <2>4 DEF Count, Return
  <2>5. CASE sr_arpreq_destroy(t)
    BY ZenonT(30), <2>5 DEF sr_arpreq_destroy, Remove, Return
  <2> QED BY Zenon, <1>4, <2>1, <2>2, <2>3, <2>4, <2>5 DEF Handle
<1>5. CASE VisitRequest
  BY ZenonT(30), <1>5 DEF VisitRequest, BoundInv, Both, At, RequestType, HandlerType, Thread,
       requestVars
<1> QED
  BY Zenon, <1>1, <1>2, <1>3, <1>4, <1>5, Steps
     DEF Quiet, Sweep, BeginSweep, EndSweep, Tick, requestVars, handlerVars

\* Main counts once while the timeout thread holds the lock.
LEMMA LagStep == CacheInv /\ [Next]_vars => LagInv'
<1> SUFFICES ASSUME TypeOK, RequestType, HandlerType, SweepInv, LagInv, [Next]_vars
             PROVE LagInv'
  BY Zenon DEF CacheInv, TypeOK
<1> USE CacheAssumption
<1>1. CASE UNCHANGED <<times_sent, loaded, handler, target>> /\ requests' \subseteq requests
  BY Zenon, <1>1 DEF LagInv, At
<1>2. ASSUME NEW h \in Hop, NEW m \in Mac, Insert(h, m)
      PROVE  LagInv'
  BY Zenon, <1>2 DEF Insert, sr_arpcache_insert, Remove, LagInv, At, handlerVars, RequestType,
       HandlerType
<1>3. ASSUME NEW h \in Hop, Ask(h)
      PROVE  LagInv'
  BY Zenon, <1>3 DEF Ask, Idle, LockFree, SweepInv, LagInv, At, RequestType, HandlerType, Thread
<1>4. ASSUME NEW t \in Thread, Handle(t)
      PROVE  LagInv'
  <2> USE DEF LagInv, At, RequestType, HandlerType, Thread
  <2>1. CASE Decide(t)
    BY Zenon, <2>1 DEF Decide, requestVars
  <2>2. CASE sr_send_arp_request(t)
    BY Zenon, <2>2 DEF sr_send_arp_request, requestVars
  <2>3. CASE Stamp(t)
    BY <2>3 DEF Stamp
  <2>4. CASE Count(t)
    BY <2>4 DEF Count, Return
  <2>5. CASE sr_arpreq_destroy(t)
    BY Zenon, <2>5 DEF sr_arpreq_destroy, Remove, Return
  <2> QED BY Zenon, <1>4, <2>1, <2>2, <2>3, <2>4, <2>5 DEF Handle
<1>5. CASE VisitRequest
  BY Zenon, <1>5 DEF VisitRequest, LagInv, At, RequestType, HandlerType, Thread, requestVars
<1> QED
  BY Zenon, <1>1, <1>2, <1>3, <1>4, <1>5, Steps
     DEF Quiet, Sweep, BeginSweep, EndSweep, Tick, requestVars, handlerVars

-----------------------------------------------------------------------------
(* The theorems.                                                           *)

\* CacheInv is an invariant of the router: types, the sweep's place in the queue,
\* the ages of the bindings and the counts of the two threads in handle_arpreq.
THEOREM CacheInvariance == Spec => []CacheInv
<1>1. CacheInv /\ [Next]_vars => CacheInv'
  BY Zenon, TypeStep, SweepStep, FreshStep, FieldsStep, CountStep, BoundStep, LagStep DEF CacheInv
<1> QED BY InitInv, <1>1, PTL DEF Spec

\* sr_arpcache_lookup never finds a binding that is older than its lifetime and
\* the time the sweeps of sr_arpcache_timeout may be apart.
THEOREM FreshBindings == Spec => []EntriesFresh
<1>1. CacheInv => EntriesFresh
  <2> SUFFICES ASSUME TypeOK, FreshInv, NEW i \in Slot, entries[i] # None
               PROVE  entries[i].age <= SR_ARPCACHE_TO + SweepLag
    BY Zenon DEF CacheInv, EntriesFresh
  <2>1. entries[i].age \in Nat /\ entries[i].age <= SR_ARPCACHE_TO + since_sweep
    BY EntryFacts DEF TypeOK, FreshInv
  <2> QED BY <2>1, CacheAssumption DEF TypeOK, SweepType
<1> QED BY CacheInvariance, <1>1, PTL

\* handle_arpreq gives up on a next hop only after MaxTries ARP requests for it,
\* although both threads count them in times_sent without a lock.
THEOREM GiveUpAfterTries == Spec => []GivesUpLate
<1>1. CacheInv => GivesUpLate
  BY CacheAssumption DEF CacheInv, TypeOK, RequestType, CountType, CountInv, Both, At,
       GivesUpLate
<1> QED BY CacheInvariance, <1>1, PTL

\* The next pointer sr_arpcache_sweepreqs saves stays valid: the requests it has
\* yet to visit are in the queue, whatever handle_arpreq destroys.
THEOREM SweepKeepsPlace == Spec => []NextPointersValid
<1>1. CacheInv => NextPointersValid
  BY Zenon DEF CacheInv, SweepInv
<1> QED BY CacheInvariance, <1>1, PTL

\* A use of a freed request, if there is one, is by the main thread: the request
\* the timeout thread handles under the lock of the cache stays in the queue.
THEOREM TimeoutUsesNoFreed == Spec => [][~Freed("timeout")]_vars
<1>1. CacheInv /\ [Next]_vars => [~Freed("timeout")]_vars
  BY Zenon DEF CacheInv, SweepInv, Freed
<1> QED BY CacheInvariance, <1>1, PTL DEF Spec

\* While a sweep runs, no request is added to the queue, and none is taken from it
\* but the one the sweep is at: the lock covers what main does to the queue.
THEOREM SweepOwnsQueue ==
    Spec => [][sweeping => /\ requests' \subseteq requests
                           /\ requests \ requests' \subseteq {target["timeout"]}]_vars
<1>1. CacheInv /\ [Next]_vars =>
        [sweeping => /\ requests' \subseteq requests
                     /\ requests \ requests' \subseteq {target["timeout"]}]_vars
  <2> SUFFICES ASSUME TypeOK, [Next]_vars, sweeping
               PROVE  requests' \subseteq requests
                      /\ requests \ requests' \subseteq {target["timeout"]}
    BY Zenon DEF CacheInv
  <2>1. CASE requests' = requests
    BY Zenon, <2>1
  <2>2. ASSUME NEW t \in Thread, sr_arpreq_destroy(t)
        PROVE  t = "timeout" /\ requests' = requests \ {target[t]}
    BY Zenon, <2>2 DEF sr_arpreq_destroy, LockFree, Remove
  <2> QED
    BY Zenon, <2>1, <2>2, Steps DEF Quiet, Insert, Ask, Idle, LockFree, Handle, Sweep, Decide,
       sr_send_arp_request, Stamp, Count, BeginSweep, VisitRequest, EndSweep, Tick,
       requestVars
<1> QED BY CacheInvariance, <1>1, PTL DEF Spec

-----------------------------------------------------------------------------
(* The routing table: the search finds the longest prefix, for addresses   *)
(* and bytes of any width and tables of any length.                        *)

\* Route i is a candidate for destination d.
Candidate(i, d) == PrefixMatches(routing_table[i], d) /\ routing_table[i].len > 0

\* Route i is no better than the best match.
Beaten(i) ==
    \/ routing_table[i].len < routing_table[route_match].len
    \/ routing_table[i].len = routing_table[route_match].len /\ route_match <= i

\* The loop invariant of the search: the best match is the best of the routes
\* it has passed, and l_match is the mask of the best match.
SearchInv ==
    phase = "search" =>
        /\ route_match < walker
        /\ route_match = 0 => l_match = 0
        /\ route_match # 0 =>
              /\ Candidate(route_match, destination_ip)
              /\ l_match = mask_value[routing_table[route_match].len]
        /\ \A i \in 1 .. (walker - 1) :
              Candidate(i, destination_ip) => route_match # 0 /\ Beaten(i)

\* The table is the file as far as it is read, its next line is completed from
\* the fields of the lines before it, and it changes only before the first
\* search.
LoadInv ==
    /\ TableIsFile
    /\ phase = "load" =>
        /\ clear_routing_table = (file # <<>>)
        /\ FirstComplete(file) => IsRouteOf(file, Len(file), buffers)
    /\ phase \in {"boot", "load", "loaded"} => walker = 1 /\ route_match = 0

RouteInv == RouteType /\ SearchInv /\ LoadInv

-----------------------------------------------------------------------------
(* Induction, with a set for the predicate.                                *)

LEMMA LeastElement ==
    ASSUME NEW T \in SUBSET Nat, T # {}
    PROVE  \E x \in T : \A y \in T : x <= y
<1>1. PICK x \in T : \A y \in T : ~(<<y, x>> \in OpToRel(<, Nat))
  BY Zenon, NatLessThanWellFounded, WFMin
<1>2. \A y \in T : ~(y < x)
  BY Zenon, <1>1 DEF OpToRel
<1>3. \A y \in T : x \in Nat /\ y \in Nat
  BY Zenon
<1> QED BY <1>2, <1>3

LEMMA SetInduction ==
    ASSUME NEW S, 0 \in S, \A n \in Nat : n \in S => n + 1 \in S
    PROVE  Nat \subseteq S
<1> SUFFICES ASSUME Nat \ S # {} PROVE FALSE
  BY Zenon
<1>1. PICK x \in Nat \ S : \A y \in Nat \ S : x <= y
  BY Zenon, LeastElement
<1>2. x # 0 /\ x - 1 \in Nat /\ x - 1 \notin Nat \ S
  BY <1>1
<1> QED BY <1>1, <1>2

\* f begins with start and goes on up to k with the function step[n] at n.
Follows(f, start, step, k) ==
    /\ f \in [0 .. k -> Nat] /\ f[0] = start
    /\ \A n \in 1 .. k : f[n] = step[n][f[n - 1]]

\* A value at 0 and a step from one value to the next define a function.
LEMMA RangeRecursion ==
    ASSUME NEW N \in Nat, NEW start \in Nat, NEW step \in [1 .. N -> [Nat -> Nat]]
    PROVE  \E f : Follows(f, start, step, N)
<1> DEFINE S == {k \in Nat : k <= N => \E f : Follows(f, start, step, k)}
<1>1. 0 \in S
  <2> DEFINE f == [n \in 0 .. 0 |-> start]
  <2>1. Follows(f, start, step, 0)
    BY DEF Follows
  <2> HIDE DEF f
  <2> QED BY Zenon, <2>1
<1>2. ASSUME NEW k \in Nat, k \in S
      PROVE  k + 1 \in S
  <2> SUFFICES ASSUME k + 1 <= N
               PROVE  \E g : Follows(g, start, step, k + 1)
    OBVIOUS
  <2>1. PICK f : Follows(f, start, step, k)
    <3>1. k <= N
      OBVIOUS
    <3> QED BY Zenon, <1>2, <3>1
  <2>2. f[k] \in Nat /\ step[k + 1] \in [Nat -> Nat]
    BY <2>1 DEF Follows
  <2>3. PICK x \in Nat : x = step[k + 1][f[k]]
    BY Zenon, <2>2
  <2> DEFINE g == [n \in 0 .. k + 1 |-> IF n <= k THEN f[n] ELSE x]
  <2>4. ASSUME NEW n \in 0 .. k PROVE g[n] = f[n] /\ f[n] \in Nat
    <3>1. n \in 0 .. k + 1 /\ n <= k
      OBVIOUS
    <3> QED BY Zenon, <2>1, <3>1 DEF Follows
  <2>5. g[k + 1] = x
    OBVIOUS
  <2>6. g \in [0 .. k + 1 -> Nat]
    <3>1. ASSUME NEW n \in 0 .. k + 1 PROVE g[n] \in Nat
      <4>1. n \in 0 .. k \/ n = k + 1
        OBVIOUS
      <4> HIDE DEF g
      <4> QED BY Zenon, <2>4, <2>5, <4>1
    <3> QED BY Zenon, <3>1
  <2> HIDE DEF g
  <2>7. ASSUME NEW n \in 1 .. k + 1 PROVE g[n] = step[n][g[n - 1]]
    <3>1. CASE n \in 1 .. k
      <4>1. n \in 0 .. k /\ n - 1 \in 0 .. k
        BY <3>1
      <4>2. g[n] = f[n] /\ g[n - 1] = f[n - 1]
        BY Zenon, <2>4, <4>1
      <4>3. f[n] = step[n][f[n - 1]]
        BY Zenon, <2>1, <3>1 DEF Follows
      <4> QED BY <4>2, <4>3, Zenon
    <3>2. CASE n = k + 1
      <4>1. n - 1 = k /\ k \in 0 .. k
        BY <3>2
      <4>2. g[n - 1] = f[k]
        BY Zenon, <2>4, <4>1
      <4> QED BY <2>3, <2>5, <3>2, <4>2, Zenon
    <3> QED BY <3>1, <3>2
  <2>8. g[0] = start
    <3>1. 0 \in 0 .. k
      OBVIOUS
    <3> QED BY Zenon, <2>1, <2>4, <3>1 DEF Follows
  <2> QED BY Zenon, <2>6, <2>7, <2>8 DEF Follows
<1>3. N \in S
  <2> HIDE DEF S
  <2>1. \A k \in Nat : k \in S => k + 1 \in S
    BY Zenon, <1>2
  <2> QED BY Zenon, <1>1, <2>1, SetInduction
<1> QED BY <1>3

-----------------------------------------------------------------------------
(* Masks.                                                                  *)

\* The powers of two are positive.
LEMMA PowerFacts == \A n \in 0 .. W + ByteBits : Power2[n] \in Nat /\ Power2[n] >= 1
<1>0. PICK N \in Nat : N = W + ByteBits
  BY RouteAssumption
<1> DEFINE P(f) == f = [n \in 0 .. N |-> IF n = 0 THEN 1 ELSE 2 * f[n - 1]]
           step == [n \in 1 .. N |-> [x \in Nat |-> 2 * x]]
<1>1. step \in [1 .. N -> [Nat -> Nat]]
  OBVIOUS
<1>2. PICK g : Follows(g, 1, step, N)
  <2> HIDE DEF step
  <2> QED BY Zenon, <1>1, RangeRecursion
<1>3. \A n \in 1 .. N : g[n] = 2 * g[n - 1]
  <2> SUFFICES ASSUME NEW n \in 1 .. N PROVE g[n] = 2 * g[n - 1]
    BY Zenon
  <2>1. g[n - 1] \in Nat
    BY <1>2 DEF Follows
  <2>2. g[n] = step[n][g[n - 1]]
    BY Zenon, <1>2 DEF Follows
  <2> QED BY Zenon, <2>1, <2>2
<1> HIDE DEF step
<1>4. P(g)
  BY <1>2, <1>3 DEF Follows
<1>5. Power2 = CHOOSE f : P(f)
  BY Zenon, <1>0 DEF Power2
<1>6. P(Power2)
  BY Zenon, <1>4, <1>5
<1>7. Power2[0] = 1 /\ \A n \in 1 .. N : Power2[n] = 2 * Power2[n - 1]
  BY <1>6
<1> DEFINE S == {n \in Nat : n <= N => Power2[n] \in Nat /\ Power2[n] >= 1}
<1>8. 0 \in S
  BY <1>7
<1>9. ASSUME NEW n \in Nat, n \in S
      PROVE  n + 1 \in S
  <2> SUFFICES ASSUME n + 1 <= N PROVE Power2[n + 1] \in Nat /\ Power2[n + 1] >= 1
    OBVIOUS
  <2>1. Power2[n] \in Nat /\ Power2[n] >= 1
    BY <1>9
  <2>2. Power2[n + 1] = 2 * Power2[n]
    BY <1>7
  <2> QED BY <2>1, <2>2
<1>10. Nat \subseteq S
  <2> HIDE DEF S
  <2> QED BY Zenon, <1>8, <1>9, SetInduction
<1> QED BY <1>0, <1>10

\* Every bit counts.
LEMMA WeightFacts ==
    ASSUME NEW b \in 1 .. W
    PROVE  BitWeight(b) \in Nat /\ BitWeight(b) >= 1
<1>1. W \in Nat /\ ByteBits \in Nat \ {0}
  BY Zenon, RouteAssumption
<1>2. PICK q \in Nat, r \in Nat : q = (b - 1) \div ByteBits /\ r = (b - 1) % ByteBits
  BY <1>1
<1>3. q * ByteBits \in Nat /\ q * ByteBits <= b - 1 /\ r <= ByteBits - 1
  BY <1>1, <1>2
<1>4. PICK e \in Nat : e = q * ByteBits + ByteBits - 1 - r
  BY <1>1, <1>3
<1>5. e \in 0 .. W + ByteBits
  BY <1>1, <1>3, <1>4
<1>6. BitWeight(b) = Power2[e]
  BY Zenon, <1>2, <1>4 DEF BitWeight
<1> QED BY Zenon, <1>5, <1>6, PowerFacts

\* A longer prefix has a larger mask: the comparison `mask > l_match` of
\* sr_handle_ip_packet is one of prefix
\* lengths although the bytes of s_addr are reversed.
THEOREM MaskOrder ==
    /\ mask_value \in [0 .. W -> Nat]
    /\ mask_value[0] = 0
    /\ \A m, n \in 0 .. W : m < n => mask_value[m] < mask_value[n]
<1>0. W \in Nat
  BY Zenon, RouteAssumption
<1> DEFINE P(f) == f = [n \in 0 .. W |-> IF n = 0 THEN 0 ELSE f[n - 1] + BitWeight(n)]
           step == [n \in 1 .. W |-> [x \in Nat |-> x + BitWeight(n)]]
<1>1. step \in [1 .. W -> [Nat -> Nat]]
  BY WeightFacts
<1>2. PICK g : Follows(g, 0, step, W)
  <2> HIDE DEF step
  <2> QED BY Zenon, <1>0, <1>1, RangeRecursion
<1>3. \A n \in 1 .. W : g[n] = g[n - 1] + BitWeight(n)
  <2> SUFFICES ASSUME NEW n \in 1 .. W PROVE g[n] = g[n - 1] + BitWeight(n)
    BY Zenon
  <2>1. g[n - 1] \in Nat
    BY <1>0, <1>2 DEF Follows
  <2>2. g[n] = step[n][g[n - 1]]
    BY Zenon, <1>2 DEF Follows
  <2> QED BY Zenon, <2>1, <2>2
<1> HIDE DEF step
<1>4. P(g)
  BY <1>0, <1>2, <1>3 DEF Follows
<1>5. mask_value = CHOOSE f : P(f)
  BY Zenon DEF mask_value
<1>6. P(mask_value)
  BY Zenon, <1>4, <1>5
<1>7. /\ DOMAIN mask_value = 0 .. W /\ mask_value[0] = 0
      /\ \A n \in 1 .. W : mask_value[n] = mask_value[n - 1] + BitWeight(n)
  <2>1. 0 \in 0 .. W /\ \A n \in 1 .. W : n \in 0 .. W /\ n # 0
    BY <1>0
  <2> QED BY Zenon, <1>6, <2>1
<1> HIDE DEF P
<1> DEFINE S == {n \in Nat : n <= W =>
                    \A m \in 0 .. n : /\ mask_value[m] \in Nat
                                      /\ m < n => mask_value[m] < mask_value[n]}
<1>8. 0 \in S
  BY <1>7
<1>9. ASSUME NEW n \in Nat, n \in S
      PROVE  n + 1 \in S
  <2> SUFFICES ASSUME n + 1 <= W, NEW m \in 0 .. n + 1
               PROVE  /\ mask_value[m] \in Nat
                      /\ m < n + 1 => mask_value[m] < mask_value[n + 1]
    OBVIOUS
  <2>1. \A l \in 0 .. n : /\ mask_value[l] \in Nat
                          /\ l < n => mask_value[l] < mask_value[n]
    BY <1>0, <1>9
  <2>2. n + 1 \in 1 .. W /\ mask_value[n + 1] = mask_value[n] + BitWeight(n + 1)
    BY <1>0, <1>7
  <2>3. BitWeight(n + 1) \in Nat /\ BitWeight(n + 1) >= 1
    BY Zenon, <2>2, WeightFacts
  <2>4. mask_value[n] \in Nat
    BY <2>1
  <2>5. mask_value[n + 1] \in Nat /\ mask_value[n] < mask_value[n + 1]
    BY <2>2, <2>3, <2>4
  <2>6. CASE m \in 0 .. n
    <3>1. mask_value[m] \in Nat /\ (m = n \/ mask_value[m] < mask_value[n])
      BY <2>1, <2>6
    <3> QED BY <2>4, <2>5, <3>1
  <2>7. CASE m = n + 1
    BY <2>5, <2>7
  <2> QED BY <2>6, <2>7
<1>10. Nat \subseteq S
  <2> HIDE DEF S
  <2> QED BY Zenon, <1>8, <1>9, SetInduction
<1>11. \A n \in 0 .. W : /\ mask_value[n] \in Nat
                          /\ \A m \in 0 .. W : m < n => mask_value[m] < mask_value[n]
  <2> SUFFICES ASSUME NEW n \in 0 .. W
               PROVE  /\ mask_value[n] \in Nat
                      /\ \A m \in 0 .. W : m < n => mask_value[m] < mask_value[n]
    BY Zenon
  <2>1. \A m \in 0 .. n : mask_value[m] \in Nat /\ (m < n => mask_value[m] < mask_value[n])
    BY <1>0, <1>10
  <2> QED BY <1>0, <2>1
<1>12. mask_value \in [0 .. W -> Nat]
  <2>1. mask_value = [n \in 0 .. W |-> mask_value[n]]
    BY Zenon, <1>6 DEF P
  <2> QED BY Zenon, <1>11, <2>1
<1> QED BY Zenon, <1>7, <1>11, <1>12

\* Masks compare as their lengths do.
LEMMA MaskCompare ==
    ASSUME NEW m \in 0 .. W, NEW n \in 0 .. W
    PROVE  /\ mask_value[m] \in Nat
           /\ mask_value[m] > mask_value[n] <=> m > n
           /\ mask_value[m] > 0 <=> m > 0
<1>1. /\ W \in Nat /\ mask_value \in [0 .. W -> Nat] /\ mask_value[0] = 0
      /\ \A i, j \in 0 .. W : i < j => mask_value[i] < mask_value[j]
  BY Zenon, MaskOrder, RouteAssumption
<1>2. mask_value[m] \in Nat /\ mask_value[n] \in Nat /\ 0 \in 0 .. W
  BY <1>1
<1>3. m < n \/ m = n \/ n < m
  BY <1>1
<1>4. m = 0 \/ 0 < m
  BY <1>1
<1> QED
  BY <1>1, <1>2, <1>3, <1>4

\* The latest text of a column up to line i does not depend on later lines.
LEMMA LatestKept ==
    ASSUME NEW n \in Nat, NEW c, NEW d, \A j \in 1 .. n : d[j] = c[j],
           NEW i \in 1 .. n, NEW x, Latest(c, i, x)
    PROVE  Latest(d, i, x)
<1>1. PICK j \in 1 .. i : /\ c[j] # Absent /\ x = c[j]
                          /\ \A k \in (j + 1) .. i : c[k] = Absent
  BY Zenon DEF Latest
<1>2. j \in 1 .. n /\ \A k \in (j + 1) .. i : k \in 1 .. n
  OBVIOUS
<1> QED BY Zenon, <1>1, <1>2 DEF Latest

\* The next line has its own text or that of the lines before it.
LEMMA LatestNext ==
    ASSUME NEW n \in Nat, NEW c, NEW d, \A j \in 1 .. n : d[j] = c[j],
           NEW x, d[n + 1] = Absent => Latest(c, n, x)
    PROVE  Latest(d, n + 1, IF d[n + 1] = Absent THEN x ELSE d[n + 1])
<1>1. CASE d[n + 1] = Absent
  <2>1. PICK j \in 1 .. n : /\ c[j] # Absent /\ x = c[j]
                            /\ \A k \in (j + 1) .. n : c[k] = Absent
    BY Zenon, <1>1 DEF Latest
  <2>2. j \in 1 .. n + 1 /\ \A k \in (j + 1) .. (n + 1) : k = n + 1 \/ (k \in (j + 1) .. n /\ k \in 1 .. n)
    OBVIOUS
  <2> QED BY Zenon, <1>1, <2>1, <2>2 DEF Latest
<1>2. CASE d[n + 1] # Absent
  <2>1. n + 1 \in 1 .. n + 1 /\ \A k \in (n + 1 + 1) .. (n + 1) : FALSE
    OBVIOUS
  <2> QED BY Zenon, <1>2, <2>1 DEF Latest
<1> QED BY Zenon, <1>1, <1>2

\* What a line appended to a file adds to its columns.
LEMMA AppendLine ==
    ASSUME NEW f \in Seq(FileLines), NEW line \in FileLines
    PROVE  /\ Append(f, line) \in Seq(FileLines) /\ Len(f) \in Nat
           /\ Len(Append(f, line)) = Len(f) + 1 /\ Append(f, line) # <<>>
           /\ \A j \in 1 .. Len(f) : /\ Append(f, line)[j] = f[j]
                                     /\ Dests(Append(f, line))[j] = Dests(f)[j]
                                     /\ Masks(Append(f, line))[j] = Masks(f)[j]
           /\ Append(f, line)[Len(f) + 1] = line
           /\ Dests(Append(f, line))[Len(f) + 1] = line.dest
           /\ Masks(Append(f, line))[Len(f) + 1] = line.len
<1>1. /\ Append(f, line) \in Seq(FileLines) /\ Len(f) \in Nat
      /\ Len(Append(f, line)) = Len(f) + 1 /\ Append(f, line) # <<>>
      /\ \A j \in 1 .. Len(f) : Append(f, line)[j] = f[j]
      /\ Append(f, line)[Len(f) + 1] = line
  OBVIOUS
<1>2. \A j \in 1 .. Len(f) : j \in 1 .. Len(f) + 1
  BY <1>1
<1>3. Len(f) + 1 \in 1 .. Len(f) + 1
  BY <1>1
<1> QED BY Zenon, <1>1, <1>2, <1>3 DEF Dests, Masks

LEMMA RouteInitInv == RouteInit => RouteInv
<1> SUFFICES ASSUME RouteInit PROVE RouteInv
  BY Zenon
<1>1. W \in Nat
  BY Zenon, MaskOrder, RouteAssumption
<1>s. <<>> \in Seq(Route) /\ <<>> \in Seq(FileLines) /\ Len(<<>>) = 0
  OBVIOUS
<1>a. [b \in 1 .. W |-> 0] \in Addr
  BY Zenon DEF Addr
<1>b. clear_routing_table \in BOOLEAN
  BY Zenon DEF RouteInit
<1>n. /\ walker \in 1 .. (Len(routing_table) + 1)
      /\ l_match \in Nat /\ route_match \in 0 .. Len(routing_table)
      /\ loads \in 0 .. 2
  BY <1>1, <1>s DEF RouteInit
<1>2. RouteType
  BY Zenon, <1>s, <1>a, <1>b, <1>n DEF RouteInit, RouteType
<1>3. TableIsFile
  BY Zenon DEF RouteInit, TableIsFile, FirstComplete
<1> QED
  BY Zenon, <1>2, <1>3 DEF RouteInit, RouteInv, SearchInv, LoadInv

\* Reading the file.
LEMMA LineInv ==
    ASSUME RouteInv, NEW line \in FileLines, Line(line)
    PROVE  RouteInv'
<1> DEFINE r == sscanf(line)
           old == IF clear_routing_table THEN routing_table ELSE <<>>
           n == Len(file)
<1>1. /\ routing_table \in Seq(Route) /\ file \in Seq(FileLines) /\ <<>> \in Seq(Route)
      /\ phase = "load" /\ walker = 1 /\ route_match = 0 /\ UNCHANGED searchVars
      /\ file' = Append(file, line) /\ buffers' = r
      /\ loads' = loads
  <2>1. <<>> \in Seq(Route)
    OBVIOUS
  <2> QED BY Zenon, <2>1 DEF RouteInv, RouteType, LoadInv, Line
<1>2. /\ file' \in Seq(FileLines) /\ n \in Nat /\ Len(file') = n + 1 /\ file' # <<>>
      /\ \A j \in 1 .. n : /\ file'[j] = file[j] /\ Dests(file')[j] = Dests(file)[j]
                           /\ Masks(file')[j] = Masks(file)[j]
      /\ file'[n + 1] = line
      /\ Dests(file')[n + 1] = line.dest /\ Masks(file')[n + 1] = line.len
  BY Zenon, <1>1, AppendLine
<1>3. CASE r \notin Route
  <2>1. phase' = "exit" /\ UNCHANGED <<routing_table, clear_routing_table>>
    BY Zenon, <1>3 DEF Line
  <2>2. RouteType'
    BY Zenon, <1>1, <1>2, <2>1 DEF RouteInv, RouteType, searchVars
  <2> QED BY Zenon, <2>1, <2>2 DEF RouteInv, SearchInv, LoadInv, TableIsFile
<1>4. CASE r \in Route
  <2>1. /\ phase' = "load" /\ clear_routing_table' = TRUE /\ clear_routing_table' \in BOOLEAN
        /\ old \in Seq(Route) /\ routing_table' = Append(old, r)
    BY Zenon, <1>1, <1>4 DEF Line, sr_add_rt_entry
  <2>2. /\ Append(old, r) \in Seq(Route) /\ Len(Append(old, r)) = Len(old) + 1
        /\ Len(old) \in Nat /\ Append(old, r)[Len(old) + 1] = r
        /\ \A i \in 1 .. Len(old) : Append(old, r)[i] = old[i]
    BY <1>4, <2>1
  <2>3. walker' \in 1 .. (Len(routing_table') + 1) /\ route_match' \in 0 .. Len(routing_table')
    BY <1>1, <2>1, <2>2 DEF searchVars
  <2>4. RouteType'
    BY Zenon, <1>1, <1>2, <2>1, <2>2, <2>3 DEF RouteInv, RouteType, searchVars
  <2>5. ASSUME FirstComplete(file')
        PROVE  /\ IsRouteOf(file', n + 1, r)
               /\ Len(old) = n /\ \A i \in 1 .. n : IsRouteOf(file', i, old[i])
    <3>1. CASE file = <<>>
      <4>1. n = 0 /\ old = <<>> /\ Len(old) = 0 /\ file'[1] = line
        <5>1. Len(<<>>) = 0 /\ 0 + 1 = 1
          OBVIOUS
        <5> QED BY Zenon, <3>1, <1>1, <1>2, <5>1 DEF RouteInv, LoadInv
      <4>2. line.dest # Absent /\ line.len # Absent
        BY Zenon, <2>5, <4>1 DEF FirstComplete
      <4>3. Latest(Dests(file'), n + 1, r.dest) /\ Latest(Masks(file'), n + 1, r.len)
        BY Zenon, <4>2, <1>2, LatestNext DEF sscanf
      <4>4. \A i \in 1 .. n : FALSE
        BY <4>1
      <4> QED BY Zenon, <4>1, <4>3, <4>4 DEF IsRouteOf
    <3>2. CASE file # <<>>
      <4>1. FirstComplete(file) /\ 1 \in 1 .. n
        <5>1. 1 \in 1 .. n
          BY <3>2, <1>1
        <5> QED BY Zenon, <3>2, <5>1, <1>2, <2>5 DEF FirstComplete
      <4>2. /\ old = routing_table /\ Len(routing_table) = n
            /\ \A i \in 1 .. n : IsRouteOf(file, i, routing_table[i])
            /\ IsRouteOf(file, n, buffers)
        BY Zenon, <3>2, <4>1, <1>1 DEF RouteInv, LoadInv, TableIsFile
      <4>3. Latest(Dests(file'), n + 1, r.dest) /\ Latest(Masks(file'), n + 1, r.len)
        BY Zenon, <4>2, <1>2, LatestNext DEF sscanf, IsRouteOf
      <4>4. \A i \in 1 .. n : IsRouteOf(file', i, routing_table[i])
        BY Zenon, <4>2, <1>2, LatestKept DEF IsRouteOf
      <4> QED BY Zenon, <4>2, <4>3, <4>4 DEF IsRouteOf
    <3> QED BY Zenon, <3>1, <3>2
  <2>6. ASSUME FirstComplete(file')
        PROVE  /\ Len(routing_table') = Len(file')
               /\ \A i \in 1 .. Len(file') : IsRouteOf(file', i, routing_table'[i])
    <3>1. \A i \in 1 .. n + 1 : i \in 1 .. n \/ i = n + 1
      BY <1>2
    <3> QED BY Zenon, <3>1, <2>1, <2>2, <2>5, <2>6, <1>2
  <2>7. LoadInv'
    BY Zenon, <1>1, <1>2, <2>1, <2>5, <2>6 DEF LoadInv, TableIsFile, searchVars
  <2>8. SearchInv'
    BY Zenon, <2>1 DEF SearchInv
  <2> QED BY Zenon, <2>4, <2>7, <2>8 DEF RouteInv
<1> QED BY Zenon, <1>3, <1>4

\* The other steps of sr_load_rt.
LEMMA LoadInvStep ==
    ASSUME RouteInv, BeginLoad \/ NoFile \/ EndLoad
    PROVE  RouteInv'
<1>1. <<>> \in Seq(FileLines)
  OBVIOUS
<1>2. UNCHANGED <<routing_table, searchVars>> /\ phase' # "search"
  BY Zenon DEF BeginLoad, NoFile, EndLoad
<1>3. RouteType'
  <2>1. CASE BeginLoad
    <3>1. loads' \in 0 .. 2
      BY <2>1 DEF RouteInv, RouteType, BeginLoad
    <3>2. clear_routing_table' \in BOOLEAN
      BY Zenon, <2>1 DEF BeginLoad
    <3> QED
      BY Zenon, <2>1, <3>1, <3>2, <1>1 DEF RouteInv, RouteType, BeginLoad, searchVars
  <2>2. CASE NoFile \/ EndLoad
    BY Zenon, <2>2 DEF RouteInv, RouteType, NoFile, EndLoad, loadVars, searchVars
  <2> QED
    BY Zenon, <2>1, <2>2
<1>4. SearchInv'
  BY Zenon, <1>2 DEF SearchInv
<1>5. LoadInv'
  <2>1. CASE BeginLoad
    BY Zenon, <2>1 DEF RouteInv, LoadInv, BeginLoad, TableIsFile, FirstComplete, searchVars
  <2>2. CASE NoFile
    BY Zenon, <2>2 DEF RouteInv, LoadInv, NoFile, TableIsFile
  <2>3. CASE EndLoad
    BY Zenon, <2>3 DEF RouteInv, LoadInv, EndLoad, TableIsFile, loadVars, searchVars
  <2> QED BY Zenon, <2>1, <2>2, <2>3
<1> QED
  BY Zenon, <1>3, <1>4, <1>5 DEF RouteInv

\* A search begins with no match.
LEMMA BeginSearchInv ==
    ASSUME RouteInv, NEW d \in Addr, BeginSearch(d)
    PROVE  RouteInv'
<1>1. Len(routing_table) \in Nat
  BY DEF RouteInv, RouteType
<1>2. RouteType'
  BY <1>1 DEF RouteInv, RouteType, BeginSearch, loadVars
<1>3. SearchInv'
  BY DEF SearchInv, BeginSearch
<1>4. LoadInv'
  BY Zenon DEF RouteInv, LoadInv, TableIsFile, BeginSearch, loadVars
<1> QED
  BY Zenon, <1>2, <1>3, <1>4 DEF RouteInv

\* One turn of the loop keeps the best of the routes passed so far.
LEMMA ExamineInv ==
    ASSUME RouteInv, Examine
    PROVE  RouteInv'
<1> DEFINE r == routing_table[walker]
           better == PrefixMatches(r, destination_ip) /\ mask_value[r.len] > l_match
<1>1. /\ phase = "search" /\ phase' = "search"
      /\ walker \in 1 .. Len(routing_table) /\ Len(routing_table) \in Nat
      /\ walker' = walker + 1
      /\ UNCHANGED <<routing_table, loadVars, destination_ip>>
  BY DEF RouteInv, RouteType, Examine
<1>2. \A i \in 1 .. Len(routing_table) :
        routing_table[i] \in Route /\ routing_table[i].len \in 0 .. W
  <2>1. routing_table \in Seq(Route)
    BY Zenon DEF RouteInv, RouteType
  <2>2. \A e \in Route : e.len \in 0 .. W
    BY Zenon DEF Route
  <2> QED
    BY <2>1, <2>2
<1>3. W \in Nat /\ r.len \in 0 .. W /\ r.len \in Nat /\ mask_value[r.len] \in Nat
  BY <1>1, <1>2, MaskOrder, RouteAssumption
<1>4. /\ route_match \in 0 .. (walker - 1)
      /\ route_match = 0 => l_match = 0
      /\ route_match # 0 =>
            /\ Candidate(route_match, destination_ip)
            /\ l_match = mask_value[routing_table[route_match].len]
      /\ \A i \in 1 .. (walker - 1) :
            Candidate(i, destination_ip) => route_match # 0 /\ Beaten(i)
  BY <1>1 DEF RouteInv, SearchInv, RouteType
<1>5. mask_value[r.len] > l_match <=>
        IF route_match = 0 THEN r.len > 0 ELSE r.len > routing_table[route_match].len
  <2>1. CASE route_match = 0
    BY ZenonT(30), <2>1, <1>3, <1>4, MaskCompare
  <2>2. CASE route_match # 0
    <3>1. routing_table[route_match].len \in 0 .. W
      BY <2>2, <1>1, <1>2, <1>4
    <3> QED
      BY <3>1, <2>2, <1>3, <1>4, MaskCompare
  <2> QED
    BY Zenon, <2>1, <2>2
<1>6. RouteType'
  <2>1. l_match' \in {l_match, mask_value[r.len]} /\ route_match' \in {route_match, walker}
    BY Zenon DEF Examine
  <2>2. /\ l_match' \in Nat /\ route_match' \in 0 .. Len(routing_table)
        /\ walker' \in 1 .. (Len(routing_table) + 1)
    <3>1. l_match \in Nat /\ route_match \in 0 .. Len(routing_table)
      BY Zenon DEF RouteInv, RouteType
    <3>2. walker \in 0 .. Len(routing_table) /\ walker' \in 1 .. (Len(routing_table) + 1)
      BY <1>1
    <3> QED BY Zenon, <2>1, <1>3, <3>1, <3>2
  <2> QED
    BY Zenon, <2>2, <1>1 DEF RouteInv, RouteType, loadVars
<1>7. LoadInv'
  BY Zenon, <1>1 DEF RouteInv, LoadInv, TableIsFile, loadVars
<1>8. CASE better
  <2>1. l_match' = mask_value[r.len] /\ route_match' = walker
    BY Zenon, <1>8 DEF Examine
  <2>2. r.len > 0 /\ Candidate(walker, destination_ip)
    <3>1. route_match # 0 => routing_table[route_match].len \in Nat
      BY <1>1, <1>2, <1>3, <1>4
    <3>2. IF route_match = 0 THEN r.len > 0 ELSE r.len > routing_table[route_match].len
      BY Zenon, <1>5, <1>8
    <3>3. r.len > 0
      BY <3>1, <3>2, <1>3
    <3> QED
      BY Zenon, <3>3, <1>8 DEF Candidate
  <2>3. \A i \in 1 .. walker : Candidate(i, destination_ip) =>
            \/ routing_table[i].len < r.len
            \/ routing_table[i].len = r.len /\ walker <= i
    <3> SUFFICES ASSUME NEW i \in 1 .. walker, Candidate(i, destination_ip)
                 PROVE  \/ routing_table[i].len < r.len
                        \/ routing_table[i].len = r.len /\ walker <= i
      BY Zenon
    <3>1. CASE i = walker
      BY <3>1, <1>1
    <3>2. CASE i \in 1 .. (walker - 1)
      <4>1. route_match # 0 /\ Beaten(i) /\ r.len > routing_table[route_match].len
        BY Zenon, <3>2, <1>4, <1>5, <1>8
      <4>2. routing_table[i].len \in Nat /\ routing_table[route_match].len \in Nat
        BY <4>1, <3>2, <1>1, <1>2, <1>3, <1>4
      <4> QED
        BY <4>1, <4>2, <1>3 DEF Beaten
    <3> QED
      BY <3>1, <3>2, <1>1
  <2>4. SearchInv'
    BY <2>1, <2>2, <2>3, <1>1 DEF SearchInv, Candidate, Beaten
  <2> QED
    BY Zenon, <2>4, <1>6, <1>7 DEF RouteInv
<1>9. CASE ~better
  <2>1. l_match' = l_match /\ route_match' = route_match
    BY Zenon, <1>9 DEF Examine
  <2>2. Candidate(walker, destination_ip) => route_match # 0 /\ Beaten(walker)
    <3> SUFFICES ASSUME Candidate(walker, destination_ip)
                 PROVE  route_match # 0 /\ Beaten(walker)
      BY Zenon
    <3>1. r.len > 0 /\ ~(mask_value[r.len] > l_match)
      BY Zenon, <1>9 DEF Candidate
    <3>2. route_match # 0 /\ ~(r.len > routing_table[route_match].len)
      BY Zenon, <3>1, <1>5
    <3>3. routing_table[route_match].len \in Nat
      BY <3>2, <1>1, <1>2, <1>3, <1>4
    <3> QED
      BY <3>2, <3>3, <1>1, <1>3, <1>4 DEF Beaten
  <2>3. \A i \in 1 .. walker :
            Candidate(i, destination_ip) => route_match # 0 /\ Beaten(i)
    BY <2>2, <1>1, <1>4
  <2>4. SearchInv'
    BY <2>1, <2>3, <1>1, <1>4 DEF SearchInv, Candidate, Beaten
  <2> QED
    BY Zenon, <2>4, <1>6, <1>7 DEF RouteInv
<1> QED
  BY Zenon, <1>8, <1>9

LEMMA EndSearchInv ==
    ASSUME RouteInv, EndSearch
    PROVE  RouteInv'
<1>1. RouteType'
  BY Zenon DEF RouteInv, RouteType, EndSearch, loadVars, searchVars
<1>2. SearchInv' /\ LoadInv'
  BY Zenon DEF RouteInv, SearchInv, LoadInv, TableIsFile, EndSearch, loadVars, searchVars
<1> QED
  BY Zenon, <1>1, <1>2 DEF RouteInv

LEMMA RouteNextInv == RouteInv /\ [RouteNext]_routeVars => RouteInv'
<1> SUFFICES ASSUME RouteInv, [RouteNext]_routeVars PROVE RouteInv'
  BY Zenon
<1>1. CASE BeginLoad \/ NoFile \/ EndLoad
  BY Zenon, <1>1, LoadInvStep
<1>2. CASE \E line \in FileLines : Line(line)
  BY Zenon, <1>2, LineInv
<1>3. CASE \E d \in Addr : BeginSearch(d)
  BY Zenon, <1>3, BeginSearchInv
<1>4. CASE Examine
  BY Zenon, <1>4, ExamineInv
<1>5. CASE EndSearch
  BY Zenon, <1>5, EndSearchInv
<1>6. CASE UNCHANGED routeVars
  <2>1. RouteType'
    BY Zenon, <1>6 DEF RouteInv, RouteType, routeVars, loadVars, searchVars
  <2>2. SearchInv' /\ LoadInv'
    BY Zenon, <1>6 DEF RouteInv, SearchInv, LoadInv, TableIsFile, Candidate,
       Beaten, routeVars, loadVars, searchVars
  <2> QED
    BY Zenon, <2>1, <2>2 DEF RouteInv
<1> QED
  BY Zenon, <1>1, <1>2, <1>3, <1>4, <1>5, <1>6 DEF RouteNext

\* The inductive invariant of loading and searching.
THEOREM SearchInvariance == RouteSpec => []RouteInv
  BY RouteInitInv, RouteNextInv, PTL DEF RouteSpec

\* sr_load_rt leaves the routes of the file it was given last, line by line and in
\* order, however often it is called: for files of any length.
THEOREM TableFromOneFile == RouteSpec => []TableIsFile
<1>1. RouteInv => TableIsFile
  BY Zenon DEF RouteInv, LoadInv
<1> QED
  BY <1>1, SearchInvariance, PTL

\* The loops of sr_handle_ip_packet and sr_send_icmp_packet end with the first
\* of the longest matching prefixes.
THEOREM SearchFindsLongest == RouteSpec => []LongestPrefix
<1>1. RouteInv => LongestPrefix
  <2> SUFFICES ASSUME RouteInv, Searched
               PROVE  IF Candidates = {} THEN route_match = 0
                      ELSE /\ route_match \in Candidates
                           /\ \A i \in Candidates : Beaten(i)
    BY Zenon DEF LongestPrefix, Beaten
  <2>1. /\ Len(routing_table) \in Nat /\ walker = Len(routing_table) + 1
        /\ route_match \in 0 .. Len(routing_table)
    BY DEF RouteInv, RouteType, Searched
  <2>2. /\ route_match # 0 => Candidate(route_match, destination_ip)
        /\ \A i \in 1 .. Len(routing_table) :
              Candidate(i, destination_ip) => route_match # 0 /\ Beaten(i)
    BY <2>1 DEF RouteInv, SearchInv, Searched
  <2>3. Candidates = {i \in 1 .. Len(routing_table) : Candidate(i, destination_ip)}
    BY Zenon DEF Candidates, Candidate
  <2> QED
    BY <2>1, <2>2, <2>3
<1> QED
  BY <1>1, SearchInvariance, PTL
=============================================================================
