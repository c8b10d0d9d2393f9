--------------------------- MODULE MysockLemmas ---------------------------
(***************************************************************************)
(* Lemmas on the operators of module Mysock, and the steps of applications *)
(* and receive threads: each preserves StreamInv.  Module MysockProofs     *)
(* adds the steps of the transport threads.                                *)
(***************************************************************************)
EXTENDS Mysock, SequenceTheorems, TLAPS

-----------------------------------------------------------------------------
(* Lemmas on the operators of the model.                                   *)

\* Sequence numbers stay below the modulus.
LEMMA PlusType == \A s, n \in Int : Plus(s, n) \in Seqs
BY MysockAssumption DEF Plus, Seqs

LEMMA OneInt == 1 \in Int
OBVIOUS

\* An upper bound stays one when it grows.
LEMMA BoundGrows ==
    ASSUME NEW a \in Nat, NEW b \in Nat, NEW n \in Nat, a <= b
    PROVE  a <= b + n
OBVIOUS

\* Elements of sequences.
LEMMA SeqFacts ==
    ASSUME NEW S, NEW q \in Seq(S)
    PROVE  /\ Len(q) \in Nat
           /\ \A i \in 1 .. Len(q) : q[i] \in S
           /\ q = <<>> <=> Len(q) = 0
<1>1. Len(q) \in Nat /\ \A i \in 1 .. Len(q) : q[i] \in S
  OBVIOUS
<1>2. q = <<>> <=> Len(q) = 0
  BY Zenon, EmptySeq
<1> QED BY Zenon, <1>1, <1>2

\* What Append and Tail do to the elements.
LEMMA AppendFacts ==
    ASSUME NEW S, NEW q \in Seq(S), NEW r \in S
    PROVE  /\ Append(q, r) \in Seq(S) /\ Append(q, r) # <<>>
           /\ Len(Append(q, r)) = Len(q) + 1
           /\ \A i \in 1 .. Len(q) : Append(q, r)[i] = q[i]
           /\ Append(q, r)[Len(q) + 1] = r
BY AppendProperties

\* A queue of packets stays one, and is not empty, when one is added.
LEMMA AppendPacket ==
    ASSUME NEW q \in Seq(Packets), NEW r \in Packets
    PROVE  Append(q, r) \in Seq(Packets) /\ Append(q, r) # <<>>
BY AppendFacts

\* What Head and Tail are, index by index.
LEMMA TailFacts ==
    ASSUME NEW S, NEW q \in Seq(S), q # <<>>
    PROVE  /\ Tail(q) \in Seq(S)
           /\ Len(Tail(q)) = Len(q) - 1
           /\ \A i \in 1 .. Len(Tail(q)) : Tail(q)[i] = q[i + 1]
           /\ Head(q) = q[1] /\ q[1] \in S
BY HeadTailProperties, SeqFacts

\* The places of a run are natural numbers.
LEMMA RunTypes == \A r \in Runs : r.lo \in Nat /\ r.hi \in Nat
BY Zenon DEF Runs

\* The places of a packet are natural numbers.
LEMMA PacketTypes == \A r \in Packets : r.lo \in Nat /\ r.hi \in Nat
BY Zenon DEF Packets

\* An empty queue holds the bytes between equal bounds.
LEMMA ChainEmpty == \A n \in Nat : Chain(<<>>, n, n)
BY DEF Chain

\* A chain runs forward.
LEMMA ChainBounds ==
    ASSUME NEW S, \A r \in S : r.lo \in Nat /\ r.hi \in Nat,
           NEW q \in Seq(S), NEW a \in Nat, NEW b \in Nat, Chain(q, a, b)
    PROVE  /\ a <= b
           /\ q # <<>> => q[1].lo = a /\ q[1].lo <= q[1].hi /\ q[1].hi <= b
<1>1. CASE q = <<>>
  BY <1>1 DEF Chain
<1>2. CASE q # <<>>
  <2>0. Len(q) \in Nat /\ Len(q) >= 1
    BY <1>2, SeqFacts
  <2>1. Len(q) \in Nat \ {0} /\ q[1] \in S /\ q[Len(q)] \in S
    BY <2>0, SeqFacts
  <2>2. q[1].lo = a /\ q[Len(q)].hi = b /\ q[1].lo <= q[1].hi
        /\ q[Len(q)].lo <= q[Len(q)].hi
    BY <1>2, <2>1 DEF Chain
  <2>3. CASE Len(q) = 1
    BY <2>1, <2>2, <2>3
  <2>4. CASE Len(q) > 1
    <3>1. 1 \in 1 .. Len(q) /\ Len(q) \in 1 .. Len(q) /\ 1 < Len(q)
      BY <2>1, <2>4
    <3>2. \A i, j \in 1 .. Len(q) : i < j => q[i].hi <= q[j].lo
      BY Zenon DEF Chain
    <3>3. q[1].hi <= q[Len(q)].lo
      BY Zenon, <3>1, <3>2
    <3> QED BY <2>1, <2>2, <3>3
  <2>5. Len(q) = 1 \/ Len(q) > 1
    <3>1. \A n \in Nat : n >= 1 => n = 1 \/ n > 1
      OBVIOUS
    <3> QED BY Zenon, <2>0, <3>1
  <2> QED BY Zenon, <2>3, <2>4, <2>5
<1> QED BY Zenon, <1>1, <1>2

\* Of two positions of a sequence one longer than n, the earlier is among the
\* first n, and the later is the new one or among the first n too.
LEMMA EarlierPosition ==
    ASSUME NEW n \in Nat, NEW i \in 1 .. n + 1, NEW j \in 1 .. n + 1, i < j
    PROVE  i \in 1 .. n /\ (j = n + 1 \/ j <= n)
OBVIOUS

\* Queueing a buffer that starts where the queue ends extends the chain.
LEMMA ChainAppend ==
    ASSUME NEW S, \A r \in S : r.lo \in Nat /\ r.hi \in Nat,
           NEW q \in Seq(S), NEW a \in Nat, NEW b \in Nat, Chain(q, a, b),
           NEW r \in S, r.lo = b, r.lo <= r.hi
    PROVE  Append(q, r) \in Seq(S) /\ Chain(Append(q, r), a, r.hi)
<1> DEFINE s == Append(q, r)
<1>1. /\ Len(s) = Len(q) + 1 /\ Len(q) \in Nat /\ s \in Seq(S)
      /\ \A i \in 1 .. Len(q) : s[i] = q[i] /\ q[i] \in S
      /\ s[Len(q) + 1] = r
      /\ s # <<>>
      /\ q # <<>> => Len(q) # 0
      /\ q = <<>> => Len(q) = 0
  BY SeqFacts, AppendFacts
<1> HIDE DEF s
<1>2. \A i \in 1 .. Len(q) : q[i].hi <= b
  <2> SUFFICES ASSUME NEW i \in 1 .. Len(q) PROVE q[i].hi <= b
    BY Zenon
  <2>1. q[Len(q)].hi = b /\ q[Len(q)].lo <= q[Len(q)].hi /\ q[Len(q)] \in S /\ q[i] \in S
    BY <1>1 DEF Chain
  <2>2. i < Len(q) => q[i].hi <= q[Len(q)].lo
    BY <1>1 DEF Chain
  <2> QED BY <2>1, <2>2, <1>1
<1>3. s[1].lo = a /\ s[Len(s)].hi = r.hi
  BY <1>1 DEF Chain
<1>4. \A i \in 1 .. Len(s) : s[i].lo <= s[i].hi
  <2>1. \A i \in 1 .. Len(s) : i \in 1 .. Len(q) \/ i = Len(q) + 1
    BY <1>1
  <2>2. \A i \in 1 .. Len(q) : q[i].lo <= q[i].hi
    BY Zenon DEF Chain
  <2> QED BY Zenon, <1>1, <2>1, <2>2
<1>5. \A i \in 1 .. Len(s) - 1 : s[i].hi = s[i + 1].lo
  <2> SUFFICES ASSUME NEW i \in 1 .. Len(q) PROVE s[i].hi = s[i + 1].lo
    BY <1>1
  <2>1. CASE i = Len(q)
    BY <2>1, <1>1 DEF Chain
  <2>2. CASE i # Len(q)
    <3>1. i \in 1 .. Len(q) - 1 /\ i + 1 \in 1 .. Len(q)
      BY <2>2, <1>1
    <3>2. q[i].hi = q[i + 1].lo
      BY Zenon, <3>1 DEF Chain
    <3> QED BY Zenon, <3>1, <3>2, <1>1
  <2> QED BY Zenon, <2>1, <2>2
<1>6. \A i, j \in 1 .. Len(s) : i < j => s[i].hi <= s[j].lo
  <2> SUFFICES ASSUME NEW i \in 1 .. Len(s), NEW j \in 1 .. Len(s), i < j
               PROVE  s[i].hi <= s[j].lo
    BY Zenon
  <2>0. i \in 1 .. Len(q) /\ (j = Len(q) + 1 \/ j <= Len(q))
    <3>1. Len(q) \in Nat /\ Len(s) = Len(q) + 1
      BY Zenon, <1>1
    <3> QED BY Zenon, <3>1, EarlierPosition
  <2>1. CASE j = Len(q) + 1
    BY Zenon, <2>0, <2>1, <1>1, <1>2
  <2>2. CASE j <= Len(q)
    <3>1. j \in 1 .. Len(q)
      BY <2>2, <1>1
    <3>2. q[i].hi <= q[j].lo
      BY Zenon, <2>0, <3>1 DEF Chain
    <3> QED BY Zenon, <2>0, <3>1, <3>2, <1>1
  <2> QED BY Zenon, <2>0, <2>1, <2>2
<1> QED BY Zenon, <1>1, <1>3, <1>4, <1>5, <1>6 DEF Chain, s

\* Taking the first buffer off a queue leaves a chain that starts where that
\* buffer ended.
LEMMA ChainTail ==
    ASSUME NEW S, \A r \in S : r.lo \in Nat /\ r.hi \in Nat,
           NEW q \in Seq(S), NEW a \in Nat, NEW b \in Nat, Chain(q, a, b), q # <<>>
    PROVE  Tail(q) \in Seq(S) /\ Chain(Tail(q), q[1].hi, b)
<1> DEFINE t == Tail(q)
<1>1. /\ t \in Seq(S) /\ Len(t) = Len(q) - 1
      /\ \A i \in 1 .. Len(t) : t[i] = q[i + 1]
  BY Zenon, TailFacts
<1>0. /\ Len(q) \in Nat \ {0}
      /\ \A i \in 1 .. Len(q) : q[i] \in S
  BY SeqFacts
<1>7. t = <<>> <=> Len(t) = 0
  BY Zenon, <1>1, SeqFacts
<1> HIDE DEF t
<1>2. t = <<>> => q[1].hi = b
  <2> SUFFICES ASSUME t = <<>> PROVE q[1].hi = b
    BY Zenon
  <2>1. Len(q) = 1
    BY <1>1, <1>0, <1>7
  <2> QED BY Zenon, <2>1 DEF Chain
<1>3. t # <<>> => t[1].lo = q[1].hi /\ t[Len(t)].hi = b
  <2> SUFFICES ASSUME t # <<>> PROVE t[1].lo = q[1].hi /\ t[Len(t)].hi = b
    BY Zenon
  <2>1. 1 \in 1 .. Len(t) /\ Len(t) \in 1 .. Len(t) /\ Len(t) + 1 = Len(q)
        /\ 1 \in 1 .. Len(q) - 1
    BY <1>1, <1>0, <1>7
  <2>2. q[1].hi = q[1 + 1].lo /\ q[Len(q)].hi = b
    BY Zenon, <2>1 DEF Chain
  <2> QED BY Zenon, <2>1, <2>2, <1>1
<1>4. \A i \in 1 .. Len(t) : t[i].lo <= t[i].hi
  <2> SUFFICES ASSUME NEW i \in 1 .. Len(t) PROVE t[i].lo <= t[i].hi
    BY Zenon
  <2>1. i + 1 \in 1 .. Len(q)
    BY <1>1, <1>0
  <2>2. q[i + 1].lo <= q[i + 1].hi
    BY Zenon, <2>1 DEF Chain
  <2> QED BY Zenon, <2>2, <1>1
<1>5. \A i \in 1 .. Len(t) - 1 : t[i].hi = t[i + 1].lo
  <2> SUFFICES ASSUME NEW i \in 1 .. Len(t) - 1 PROVE t[i].hi = t[i + 1].lo
    BY Zenon
  <2>1. i + 1 \in 1 .. Len(q) - 1 /\ i \in 1 .. Len(t) /\ i + 1 \in 1 .. Len(t)
    BY <1>1, <1>0
  <2>2. q[i + 1].hi = q[(i + 1) + 1].lo
    BY Zenon, <2>1 DEF Chain
  <2> QED BY Zenon, <2>1, <2>2, <1>1
<1>6. \A i, j \in 1 .. Len(t) : i < j => t[i].hi <= t[j].lo
  <2> SUFFICES ASSUME NEW i \in 1 .. Len(t), NEW j \in 1 .. Len(t), i < j
               PROVE  t[i].hi <= t[j].lo
    BY Zenon
  <2>1. i + 1 \in 1 .. Len(q) /\ j + 1 \in 1 .. Len(q) /\ i + 1 < j + 1
    BY <1>1, <1>0
  <2>2. q[i + 1].hi <= q[j + 1].lo
    BY Zenon, <2>1 DEF Chain
  <2> QED BY Zenon, <2>2, <1>1
<1> QED BY Zenon, <1>1, <1>2, <1>3, <1>4, <1>5, <1>6 DEF Chain, t

\* Taking the first m bytes of the first buffer moves its start, and the
\* chain's, by m.
LEMMA ChainPartial ==
    ASSUME NEW q \in Seq(Runs), NEW a \in Nat, NEW b \in Nat, Chain(q, a, b),
           q # <<>>, NEW m \in Nat, m < q[1].hi - q[1].lo
    PROVE  /\ [q EXCEPT ![1] = Run(q[1].lo + m, q[1].hi)] \in Seq(Runs)
           /\ Chain([q EXCEPT ![1] = Run(q[1].lo + m, q[1].hi)], a + m, b)
<1>t. PICK t : t = [q EXCEPT ![1] = Run(q[1].lo + m, q[1].hi)]
  BY Zenon
<1>0. /\ Len(q) \in Nat \ {0}
      /\ \A i \in 1 .. Len(q) : q[i] \in Runs
      /\ \A r \in Runs : r.lo \in Nat /\ r.hi \in Nat
  BY Zenon, SeqFacts, RunTypes
<1>1. /\ Len(q) \in Nat \ {0}
      /\ \A i \in 1 .. Len(q) : q[i] \in Runs
      /\ \A r \in Runs : r.lo \in Nat /\ r.hi \in Nat
      /\ Run(q[1].lo + m, q[1].hi) \in Runs
      /\ Run(q[1].lo + m, q[1].hi).lo = q[1].lo + m
      /\ Run(q[1].lo + m, q[1].hi).hi = q[1].hi
  BY <1>0 DEF Runs, Run
<1>2. t \in Seq(Runs) /\ Len(t) = Len(q) /\ t # <<>>
  BY <1>t, <1>1
<1>3. /\ t[1] = Run(q[1].lo + m, q[1].hi)
      /\ \A i \in 2 .. Len(q) : t[i] = q[i]
  BY <1>t, <1>1
<1>4. \A i \in 1 .. Len(q) : t[i].hi = q[i].hi /\ t[i].hi \in Nat /\ q[i].lo \in Nat
  BY <1>1, <1>3
<1>5. t[1].lo = a + m /\ t[Len(t)].hi = b
  BY <1>1, <1>2, <1>3, <1>4 DEF Chain
<1>6. \A i \in 1 .. Len(t) : t[i].lo <= t[i].hi
  <2>1. t[1].lo <= t[1].hi
    <3>1. 1 \in 1 .. Len(q) /\ q[1] \in Runs /\ q[1].lo \in Nat /\ q[1].hi \in Nat
      BY <1>1
    <3>2. q[1].lo + m <= q[1].hi
      BY <3>1
    <3> QED BY Zenon, <1>1, <1>3, <3>2
  <2>2. \A i \in 2 .. Len(q) : t[i].lo <= t[i].hi
    <3>1. \A i \in 1 .. Len(q) : q[i].lo <= q[i].hi
      BY Zenon DEF Chain
    <3>2. \A i \in 2 .. Len(q) : i \in 1 .. Len(q)
      BY <1>1
    <3> QED BY Zenon, <1>3, <3>1, <3>2
  <2> QED BY <1>1, <1>2, <2>1, <2>2
<1>7. \A i \in 1 .. Len(t) - 1 : t[i].hi = t[i + 1].lo
  BY <1>1, <1>2, <1>3, <1>4 DEF Chain
<1>8. \A i, j \in 1 .. Len(t) : i < j => t[i].hi <= t[j].lo
  BY <1>1, <1>2, <1>3, <1>4 DEF Chain
<1>9. Chain(t, a + m, b)
  BY Zenon, <1>2, <1>5, <1>6, <1>7, <1>8 DEF Chain
<1> QED BY Zenon, <1>t, <1>2, <1>9
\* FINs and empty buffers in a queue: none, queueing, dequeueing, more places.
LEMMA NothingAt == \A S : FinsAt(<<>>, S) /\ EmptiesAt(<<>>, S)
BY DEF FinsAt, EmptiesAt

\* Appending a packet keeps the FINs in their places.
LEMMA FinsAtAppend ==
    ASSUME NEW q \in Seq(Packets), NEW r \in Packets, NEW S, FinsAt(q, S),
           r.kind # "DATA" => r.hi = r.lo,
           r.kind = "FIN" => r.lo \in S
    PROVE  FinsAt(Append(q, r), S)
<1> DEFINE s == Append(q, r)
<1>1. /\ Len(q) \in Nat /\ Len(s) = Len(q) + 1 /\ s[Len(q) + 1] = r
      /\ \A i \in 1 .. Len(q) : s[i] = q[i]
  BY SeqFacts, AppendFacts
<1> HIDE DEF s
<1>2. \A i \in 1 .. Len(q) + 1 : /\ s[i].kind # "DATA" => s[i].hi = s[i].lo
                                 /\ s[i].kind = "FIN" => s[i].lo \in S
  BY <1>1 DEF FinsAt
<1> QED BY Zenon, <1>1, <1>2 DEF FinsAt, s

\* Taking a packet keeps the FINs in their places.
LEMMA FinsAtTail ==
    ASSUME NEW q \in Seq(Packets), q # <<>>, NEW S, FinsAt(q, S)
    PROVE  /\ FinsAt(Tail(q), S)
           /\ q[1].kind # "DATA" => q[1].hi = q[1].lo
           /\ q[1].kind = "FIN" => q[1].lo \in S
<1> DEFINE t == Tail(q)
<1>1. /\ Len(q) \in Nat /\ Len(t) = Len(q) - 1 /\ 1 \in 1 .. Len(q)
      /\ \A i \in 1 .. Len(t) : t[i] = q[i + 1]
  BY SeqFacts, TailFacts
<1> HIDE DEF t
<1>2. \A i \in 1 .. Len(t) : i + 1 \in 1 .. Len(q)
  BY <1>1
<1>3. \A i \in 1 .. Len(t) : /\ t[i].kind # "DATA" => t[i].hi = t[i].lo
                             /\ t[i].kind = "FIN" => t[i].lo \in S
  BY Zenon, <1>1, <1>2 DEF FinsAt
<1> QED BY Zenon, <1>1, <1>3 DEF FinsAt, t

\* More places may be allowed.
LEMMA FinsAtMore ==
    ASSUME NEW q, NEW S, NEW T, FinsAt(q, S), S \subseteq T
    PROVE  FinsAt(q, T)
BY Zenon DEF FinsAt

\* Appending a run keeps the empty buffers in their places.
LEMMA EmptiesAtAppend ==
    ASSUME NEW q \in Seq(Runs), NEW r \in Runs, NEW S, EmptiesAt(q, S),
           r.lo = r.hi => r.lo \in S
    PROVE  EmptiesAt(Append(q, r), S)
<1> DEFINE s == Append(q, r)
<1>1. /\ Len(q) \in Nat /\ Len(s) = Len(q) + 1 /\ s[Len(q) + 1] = r
      /\ \A i \in 1 .. Len(q) : s[i] = q[i]
  BY SeqFacts, AppendFacts
<1> HIDE DEF s
<1>2. \A i \in 1 .. Len(q) + 1 : s[i].lo = s[i].hi => s[i].lo \in S
  BY <1>1 DEF EmptiesAt
<1> QED BY Zenon, <1>1, <1>2 DEF EmptiesAt, s

\* Taking a run keeps the empty buffers in their places.
LEMMA EmptiesAtTail ==
    ASSUME NEW q \in Seq(Runs), q # <<>>, NEW S, EmptiesAt(q, S)
    PROVE  /\ EmptiesAt(Tail(q), S)
           /\ q[1].lo = q[1].hi => q[1].lo \in S
<1> DEFINE t == Tail(q)
<1>1. /\ Len(q) \in Nat /\ Len(t) = Len(q) - 1 /\ 1 \in 1 .. Len(q)
      /\ \A i \in 1 .. Len(t) : t[i] = q[i + 1]
  BY SeqFacts, TailFacts
<1> HIDE DEF t
<1>2. \A i \in 1 .. Len(t) : i + 1 \in 1 .. Len(q)
  BY <1>1
<1>3. \A i \in 1 .. Len(t) : t[i].lo = t[i].hi => t[i].lo \in S
  BY Zenon, <1>1, <1>2 DEF EmptiesAt
<1> QED BY Zenon, <1>1, <1>3 DEF EmptiesAt, t

\* Taking a part of the first run leaves no new empty buffer.
LEMMA EmptiesAtPartial ==
    ASSUME NEW q \in Seq(Runs), q # <<>>, NEW S, EmptiesAt(q, S),
           NEW r \in Runs, r.lo # r.hi
    PROVE  EmptiesAt([q EXCEPT ![1] = r], S)
<1>1. Len(q) \in Nat /\ Len([q EXCEPT ![1] = r]) = Len(q)
  BY SeqFacts
<1> QED BY <1>1 DEF EmptiesAt

\* More places may be allowed.
LEMMA EmptiesAtMore ==
    ASSUME NEW q, NEW S, NEW T, EmptiesAt(q, S), S \subseteq T
    PROVE  EmptiesAt(q, T)
BY Zenon DEF EmptiesAt

\* The same for queues without data.
LEMMA NoDataAppend ==
    ASSUME NEW q \in Seq(Packets), NEW r \in Packets, NoData(q), r.kind # "DATA"
    PROVE  NoData(Append(q, r))
<1> DEFINE s == Append(q, r)
<1>1. /\ Len(q) \in Nat /\ Len(s) = Len(q) + 1 /\ s[Len(q) + 1] = r
      /\ \A i \in 1 .. Len(q) : s[i] = q[i]
  BY SeqFacts, AppendFacts
<1> HIDE DEF s
<1>2. \A i \in 1 .. Len(q) + 1 : s[i].kind # "DATA"
  BY <1>1 DEF NoData
<1> QED BY Zenon, <1>1, <1>2 DEF NoData, s

\* Taking a packet from a queue without data.
LEMMA NoDataTail ==
    ASSUME NEW q \in Seq(Packets), q # <<>>, NoData(q)
    PROVE  NoData(Tail(q)) /\ q[1].kind # "DATA"
<1> DEFINE t == Tail(q)
<1>1. /\ Len(q) \in Nat /\ Len(t) = Len(q) - 1 /\ 1 \in 1 .. Len(q)
      /\ \A i \in 1 .. Len(t) : t[i] = q[i + 1]
  BY SeqFacts, TailFacts
<1> HIDE DEF t
<1>2. \A i \in 1 .. Len(t) : i + 1 \in 1 .. Len(q)
  BY <1>1
<1> QED BY Zenon, <1>1, <1>2 DEF NoData, t

\* What is first in a queue stays first when more is queued.
LEMMA AppendFirst ==
    ASSUME NEW q \in Seq(Packets), NEW r \in Packets
    PROVE  /\ q # <<>> => Append(q, r)[1] = q[1]
           /\ q = <<>> => Append(q, r)[1] = r
<1>1. Len(q) \in Nat /\ (q = <<>> <=> Len(q) = 0)
  BY Zenon, SeqFacts
<1>2. q # <<>> => 1 \in 1 .. Len(q)
  BY <1>1
<1> QED BY <1>1, <1>2, AppendFacts

\* The fields of a run.
LEMMA RunFacts ==
    \A a, b \in Nat : Run(a, b) \in Runs /\ Run(a, b).lo = a /\ Run(a, b).hi = b
BY Zenon DEF Run, Runs

\* The fields of a packet.
LEMMA PacketFacts ==
    ASSUME NEW k \in {"SYN", "SYNACK", "ACK", "DATA", "FIN", "ERR"},
           NEW s \in Seqs, NEW a \in Seqs, NEW r \in Runs
    PROVE  /\ Packet(k, s, a, r) \in Packets
           /\ Packet(k, s, a, r).kind = k
           /\ Packet(k, s, a, r).lo = r.lo
           /\ Packet(k, s, a, r).hi = r.hi
BY Zenon DEF Packet, Packets, Runs

\* There are two ends, each the peer of the other.
LEMMA Peers ==
    ASSUME NEW e \in End
    PROVE  /\ Peer(e) \in End /\ Peer(e) # e /\ Peer(Peer(e)) = e
           /\ \A f \in End : f = e \/ f = Peer(e)
BY Zenon DEF End, Peer

\* The types of the variables, end by end.
LEMMA Types ==
    ASSUME TypeOK, NEW e \in End
    PROVE  /\ written[e] \in Nat /\ read[e] \in Nat
           /\ arrived[e] \in Nat /\ delivered[e] \in Nat
           /\ payload[e] \in Runs /\ payload[e].lo \in Nat /\ payload[e].hi \in Nat
           /\ app_recv_queue[e] \in Seq(Runs) /\ app_send_queue[e] \in Seq(Runs)
           /\ network_recv_queue[e] \in Seq(Packets) /\ wire[e] \in Seq(Packets)
           /\ current_sequence_num[e] \in Seqs /\ current_sequence_num[e] \in Int
           /\ 0 \in Seqs
<1>1. 0 \in Seqs /\ \A n \in Seqs : n \in Int
  BY MysockAssumption DEF Seqs
<1>2. payload[e] \in Runs
  BY Zenon DEF TypeOK
<1> QED BY Zenon, <1>1, <1>2 DEF TypeOK, Runs

\* What sending a packet, or closing a socket, does to the resets.
LEMMA ResetType ==
    ASSUME reset \in [End -> BOOLEAN], NEW f \in End, NEW b \in BOOLEAN,
           reset' = [reset EXCEPT ![f] = b]
    PROVE  reset' \in [End -> BOOLEAN]
OBVIOUS

LEMMA SendReset ==
    ASSUME TypeOK, NEW e \in End, NEW pkt, Send(e, pkt)
    PROVE  reset' \in [End -> BOOLEAN]
<1>1. (reset[e] \/ Gone(Peer(e))) \in BOOLEAN
  BY Zenon DEF TypeOK
<1> QED BY Zenon, <1>1, ResetType DEF Send, TypeOK

LEMMA CloseReset ==
    ASSUME TypeOK, NEW e \in End, CloseSocket(e)
    PROVE  reset' \in [End -> BOOLEAN]
<1>1. (reset[Peer(e)] \/ wire[e] # <<>>) \in BOOLEAN
  BY Zenon DEF TypeOK
<1> QED BY Zenon, <1>1, ResetType, Peers DEF CloseSocket, TypeOK

\* Sending a packet that starts at the place e has reached.
LEMMA SendFacts ==
    ASSUME StreamInv, NEW e \in End, NEW p \in End, p = Peer(e),
           NEW pkt \in Packets, pkt.lo = payload[e].lo, pkt.lo <= pkt.hi,
           pkt.kind # "DATA" => pkt.hi = pkt.lo,
           NEW places, EndPlace(e) \subseteq places, pkt.kind = "FIN" => pkt.lo \in places,
           Send(e, pkt)
    PROVE  /\ wire' \in [End -> Seq(Packets)]
           /\ reset' \in [End -> BOOLEAN]
           /\ wire'[e] = wire[e]
           /\ FinsAt(wire'[p], places)
           /\ ~Gone(p) => /\ Chain(wire'[p], arrived[p], pkt.hi)
                          /\ wire'[p] # <<>>
                          /\ wire[p] # <<>> => wire'[p][1] = wire[p][1]
                          /\ wire[p] = <<>> => wire'[p][1] = pkt
           /\ NoData(wire[p]) /\ pkt.kind # "DATA" => NoData(wire'[p])
<1>0. Peer(p) = e /\ p # e /\ TypeOK /\ StreamAt(p)
  BY Zenon, Peers DEF StreamInv
<1>1. /\ wire[p] \in Seq(Packets) /\ arrived[p] \in Nat /\ payload[e].lo \in Nat
      /\ FinsAt(wire[p], EndPlace(e))
  BY Zenon, <1>0, Types DEF StreamAt, EndsLast
<1>2. FinsAt(wire[p], places)
  BY Zenon, <1>1, FinsAtMore
<1>r. reset' \in [End -> BOOLEAN]
  BY Zenon, <1>0, SendReset
<1>3. CASE Gone(p)
  BY Zenon, <1>0, <1>2, <1>3, <1>r DEF Send, TypeOK
<1>4. CASE ~Gone(p)
  <2>1. wire' = [wire EXCEPT ![p] = Append(wire[p], pkt)]
    BY Zenon, <1>4 DEF Send
  <2>2. wire'[p] = Append(wire[p], pkt) /\ wire'[e] = wire[e]
        /\ wire' \in [End -> Seq(Packets)] /\ wire'[p] # <<>>
    <3>1. PICK w \in Seq(Packets) : w = Append(wire[p], pkt) /\ w # <<>>
      BY Zenon, <1>1, AppendFacts
    <3>2. wire' = [wire EXCEPT ![p] = w] /\ wire \in [End -> Seq(Packets)]
      BY Zenon, <1>0, <2>1, <3>1 DEF TypeOK
    <3> QED BY Zenon, <1>0, <3>1, <3>2
  <2>3. Chain(wire'[p], arrived[p], pkt.hi)
    <3>1. Chain(wire[p], arrived[p], payload[e].lo)
      BY Zenon, <1>0, <1>4 DEF StreamAt, InOrderAt
    <3> QED BY ZenonT(40), <1>1, <2>2, <3>1, ChainAppend, PacketTypes
  <2>4. FinsAt(wire'[p], places)
    BY Zenon, <1>1, <1>2, <2>2, FinsAtAppend
  <2>5. NoData(wire[p]) /\ pkt.kind # "DATA" => NoData(wire'[p])
    BY Zenon, <1>1, <2>2, NoDataAppend
  <2>6. /\ wire[p] # <<>> => wire'[p][1] = wire[p][1]
        /\ wire[p] = <<>> => wire'[p][1] = pkt
    BY Zenon, <1>1, <2>2, AppendFirst
  <2> QED BY Zenon, <1>r, <2>2, <2>3, <2>4, <2>5, <2>6
<1> QED BY Zenon, <1>3, <1>4

\* Sending an answer: a packet without data and without FIN.
LEMMA SendControl ==
    ASSUME StreamInv, NEW e \in End, NEW p \in End, p = Peer(e),
           NEW k \in {"SYN", "SYNACK", "ACK"}, NEW s \in Seqs, NEW a \in Seqs,
           Send(e, Packet(k, s, a, Here(e)))
    PROVE  /\ wire' \in [End -> Seq(Packets)]
           /\ reset' \in [End -> BOOLEAN]
           /\ wire'[e] = wire[e]
           /\ FinsAt(wire'[p], EndPlace(e))
           /\ ~Gone(p) => /\ Chain(wire'[p], arrived[p], payload[e].lo)
                          /\ wire'[p] # <<>>
                          /\ wire[p] # <<>> => wire'[p][1] = wire[p][1]
                          /\ wire[p] = <<>> => wire'[p][1].kind # "DATA"
           /\ NoData(wire[p]) => NoData(wire'[p])
<1>1. Here(e) \in Runs /\ Here(e).lo = payload[e].lo /\ Here(e).hi = payload[e].lo
      /\ payload[e].lo \in Nat
  BY Zenon, Types, RunFacts DEF Here, StreamInv
<1>2. PICK r \in Packets : /\ r = Packet(k, s, a, Here(e)) /\ r.kind \notin {"DATA", "FIN"}
                           /\ r.lo = payload[e].lo /\ r.hi = payload[e].lo
  BY SMTT(40), <1>1, PacketFacts
<1>3. r.lo <= r.hi /\ Send(e, r) /\ r.kind # "DATA" /\ r.kind # "FIN"
  BY <1>1, <1>2
<1>4. EndPlace(e) \subseteq EndPlace(e)
  BY Zenon
<1> QED BY ZenonT(30), <1>2, <1>3, <1>4, SendFacts

\* The first packet of network_recv_queue, and the queue without it.
LEMMA PopFacts ==
    ASSUME StreamInv, NEW e \in End, NEW p \in End, p = Peer(e), ~Gone(e),
           network_recv_queue[e] # <<>>,
           NEW pkt, pkt = Head(network_recv_queue[e])
    PROVE  /\ pkt \in Packets /\ pkt = network_recv_queue[e][1]
           /\ pkt.seq \in Seqs /\ pkt.ack \in Seqs /\ pkt.seq \in Int
           /\ pkt.lo \in Nat /\ pkt.hi \in Nat
           /\ pkt.lo = delivered[e] /\ pkt.lo <= pkt.hi
           /\ pkt.kind # "DATA" => pkt.hi = pkt.lo
           /\ pkt.kind = "FIN" => pkt.lo \in EndPlace(p)
           /\ Tail(network_recv_queue[e]) \in Seq(Packets)
           /\ Chain(Tail(network_recv_queue[e]), pkt.hi, arrived[e])
           /\ FinsAt(Tail(network_recv_queue[e]), EndPlace(p))
           /\ NoData(network_recv_queue[e]) => NoData(Tail(network_recv_queue[e]))
                                               /\ pkt.kind # "DATA"
<1> DEFINE q == network_recv_queue[e]
<1>1. /\ q \in Seq(Packets) /\ arrived[e] \in Nat /\ delivered[e] \in Nat
      /\ Chain(q, delivered[e], arrived[e]) /\ FinsAt(q, EndPlace(p))
  BY Zenon, Types DEF StreamInv, StreamAt, InOrderAt, EndsLast
<1>2. pkt = q[1] /\ pkt \in Packets /\ Tail(q) \in Seq(Packets)
  BY Zenon, <1>1, TailFacts
<1> HIDE DEF q
<1>3. pkt.seq \in Seqs /\ pkt.ack \in Seqs /\ pkt.lo \in Nat /\ pkt.hi \in Nat
  BY Zenon, <1>2 DEF Packets
<1>4. pkt.seq \in Int
  BY <1>3 DEF Seqs
<1>5. pkt.lo = delivered[e] /\ pkt.lo <= pkt.hi /\ Chain(Tail(q), pkt.hi, arrived[e])
  BY Zenon, <1>1, <1>2, ChainBounds, ChainTail, PacketTypes DEF q
<1>6. /\ FinsAt(Tail(q), EndPlace(p))
      /\ pkt.kind # "DATA" => pkt.hi = pkt.lo
      /\ pkt.kind = "FIN" => pkt.lo \in EndPlace(p)
  BY Zenon, <1>1, <1>2, FinsAtTail DEF q
<1>7. NoData(q) => NoData(Tail(q)) /\ pkt.kind # "DATA"
  BY Zenon, <1>1, <1>2, NoDataTail DEF q
<1> QED BY Zenon, <1>2, <1>3, <1>4, <1>5, <1>6, <1>7 DEF q
-----------------------------------------------------------------------------
(* The application thread.                                                 *)

\* mywrite puts the next run of the stream behind the last.
LEMMA mywriteInv ==
    ASSUME StreamInv, NEW e \in End, NEW n \in WriteSizes, mywrite(e, n)
    PROVE  StreamInv'
<1> USE DEF StreamInv, StreamAt
<1>p. PICK p \in End : p = Peer(e) /\ p # e /\ Peer(p) = e /\ \A f \in End : f = e \/ f = p
  BY Zenon, Peers
<1>n. n \in Nat
  BY MysockAssumption
<1>t. /\ written[e] \in Nat /\ written[e] + n \in Nat /\ written[e] <= written[e] + n
      /\ payload[e].hi \in Nat /\ app_recv_queue[e] \in Seq(Runs)
      /\ payload[e].hi <= written[e] /\ app[e] = "open"
      /\ Chain(app_recv_queue[e], payload[e].hi, written[e])
  BY <1>n, <1>p, Types DEF InOrderAt, mywrite
<1>r. PICK r \in Runs : r = Run(written[e], written[e] + n) /\ r.lo = written[e]
                        /\ r.hi = written[e] + n
  BY ZenonT(40), <1>t, RunFacts
<1>c. /\ Append(app_recv_queue[e], r) \in Seq(Runs)
      /\ Append(app_recv_queue[e], r) # <<>>
      /\ Chain(Append(app_recv_queue[e], r), payload[e].hi, r.hi)
  <2>1. r.lo <= r.hi
    BY Zenon, <1>t, <1>r
  <2>2. Append(app_recv_queue[e], r) \in Seq(Runs) /\ Append(app_recv_queue[e], r) # <<>>
    BY ZenonT(40), <1>t, <1>r, AppendFacts
  <2>3. Chain(Append(app_recv_queue[e], r), payload[e].hi, r.hi)
    BY Zenon, <1>t, <1>r, <2>1, ChainAppend, RunTypes
  <2> QED BY Zenon, <2>2, <2>3
<1>q. PICK q \in Seq(Runs) : /\ q = Append(app_recv_queue[e], r) /\ q # <<>>
                             /\ Chain(q, payload[e].hi, written[e] + n)
  BY Zenon, <1>r, <1>c
<1>m. /\ app_recv_queue' = [app_recv_queue EXCEPT ![e] = q]
      /\ written' = [written EXCEPT ![e] = written[e] + n]
      /\ UNCHANGED <<app, read, eof, close_requested, app_send_queue,
                     network_recv_queue, netVars, loopVars, ctxVars, histVars>>
  BY Zenon, <1>r, <1>q DEF mywrite
<1> USE DEF netVars, loopVars, ctxVars, histVars
<1>1. TypeOK'
  BY Zenon, <1>m, <1>t DEF TypeOK
<1>2. InOrderAt(e)' /\ InOrderAt(p)'
  <2>1. /\ written'[e] = written[e] + n /\ app_recv_queue'[e] = q
        /\ written'[p] = written[p] /\ app_recv_queue'[p] = app_recv_queue[p]
    BY Zenon, <1>p, <1>m DEF TypeOK
  <2>2. payload[e].hi <= written[e] + n
    BY Zenon, <1>t, <1>n, BoundGrows
  <2> QED BY Zenon, <1>p, <1>m, <1>q, <2>1, <2>2 DEF InOrderAt, Gone
<1>3. \A f \in End : (~Gone(f) => HandshakeAt(f) /\ EventsBacked(f))'
  <2>1. app_recv_queue'[e] # <<>> /\ app_recv_queue'[p] = app_recv_queue[p]
    BY Zenon, <1>p, <1>m, <1>q DEF TypeOK
  <2>2. (~Gone(e) => EventsBacked(e))' /\ (~Gone(p) => EventsBacked(p))'
    BY Zenon, <1>m, <2>1 DEF EventsBacked, Gone
  <2>3. \A f \in End : (~Gone(f) => HandshakeAt(f))'
    BY Zenon, <1>m DEF HandshakeAt, ControlNext, Gone
  <2> QED BY Zenon, <1>p, <2>2, <2>3
<1>4. ClosesLast(e)' /\ ClosesLast(p)'
  BY Zenon, <1>p, <1>m, <1>t DEF TypeOK, ClosesLast, Flushed, FinSent
<1>5. EndPlace(e)' = EndPlace(e) /\ EndPlace(p)' = EndPlace(p)
  BY Zenon, <1>p, <1>m, <1>t DEF TypeOK, EndPlace, FinSent, ClosesLast, Flushed
<1>6. EndsLast(e)' /\ EndsLast(p)'
  BY ZenonT(30), <1>p, <1>m, <1>5 DEF TypeOK, EndsLast
<1> QED BY Zenon, <1>p, <1>1, <1>2, <1>3, <1>4, <1>6

\* Taking bytes off a queue of runs, as stcp_app_recv and myread do.
LEMMA DequeueFacts ==
    ASSUME NEW q \in Seq(Runs), NEW a \in Nat, NEW b \in Nat, Chain(q, a, b), q # <<>>,
           NEW max \in Int, NEW S
    PROVE  /\ DequeueLen(q, max) \in Nat /\ q[1].lo = a
           /\ a + DequeueLen(q, max) <= b
           /\ DequeueRest(q, max) \in Seq(Runs)
           /\ Chain(DequeueRest(q, max), a + DequeueLen(q, max), b)
           /\ EmptiesAt(q, S) => /\ EmptiesAt(DequeueRest(q, max), S)
                                 /\ max # 0 /\ DequeueLen(q, max) = 0 => a \in S
<1>1. /\ q[1] \in Runs /\ q[1].lo \in Nat /\ q[1].hi \in Nat
      /\ q[1].lo = a /\ q[1].lo <= q[1].hi /\ q[1].hi <= b
  <2>1. q[1] \in Runs
    BY Zenon, TailFacts
  <2>2. q[1].lo = a /\ q[1].lo <= q[1].hi /\ q[1].hi <= b
    BY Zenon, ChainBounds, RunTypes
  <2> QED BY Zenon, <2>1, <2>2, RunTypes
<1>2. CASE 0 <= max /\ max < q[1].hi - q[1].lo
  <2>1. max \in Nat /\ DequeueLen(q, max) = max /\ q[1].lo + max \in Nat
    BY <1>1, <1>2 DEF DequeueLen
  <2>2. PICK t : t = [q EXCEPT ![1] = Run(q[1].lo + max, q[1].hi)]
    BY Zenon
  <2>3. DequeueRest(q, max) = t
    BY Zenon, <1>2, <2>2 DEF DequeueRest
  <2>4. t \in Seq(Runs) /\ Chain(t, a + max, b)
    <3>1. max < q[1].hi - q[1].lo
      BY Zenon, <1>2
    <3>2. /\ [q EXCEPT ![1] = Run(q[1].lo + max, q[1].hi)] \in Seq(Runs)
          /\ Chain([q EXCEPT ![1] = Run(q[1].lo + max, q[1].hi)], a + max, b)
      BY Zenon, <2>1, <3>1, ChainPartial
    <3> QED BY Zenon, <2>2, <3>2
  <2>5. EmptiesAt(q, S) => EmptiesAt(t, S)
    <3>1. PICK r \in Runs : r = Run(q[1].lo + max, q[1].hi) /\ r.lo # r.hi
      BY <1>1, <1>2, <2>1, RunFacts
    <3> QED BY Zenon, <2>2, <3>1, EmptiesAtPartial
  <2> QED BY <1>1, <1>2, <2>1, <2>3, <2>4, <2>5
<1>3. CASE ~(0 <= max /\ max < q[1].hi - q[1].lo)
  <2>1. DequeueLen(q, max) = q[1].hi - q[1].lo /\ DequeueRest(q, max) = Tail(q)
    BY Zenon, <1>3 DEF DequeueLen, DequeueRest
  <2>2. /\ q[1].hi - q[1].lo \in Nat /\ a + (q[1].hi - q[1].lo) = q[1].hi
        /\ q[1].hi - q[1].lo = 0 => q[1].lo = q[1].hi
    BY <1>1
  <2>3. Tail(q) \in Seq(Runs) /\ Chain(Tail(q), q[1].hi, b)
    BY Zenon, ChainTail, RunTypes
  <2>4. EmptiesAt(q, S) => EmptiesAt(Tail(q), S) /\ (q[1].lo = q[1].hi => q[1].lo \in S)
    BY Zenon, EmptiesAtTail
  <2> QED BY Zenon, <1>1, <2>1, <2>2, <2>3, <2>4
<1> QED BY Zenon, <1>2, <1>3

\* myread takes from the front of the stream; an empty buffer is its end.
LEMMA myreadInv ==
    ASSUME StreamInv, NEW e \in End, NEW n \in ReadSizes, myread(e, n)
    PROVE  StreamInv'
<1> USE DEF StreamInv, StreamAt
<1>p. PICK p \in End : p = Peer(e) /\ p # e /\ Peer(p) = e /\ \A f \in End : f = e \/ f = p
  BY Zenon, Peers
<1>t. /\ n \in Int /\ n # 0
      /\ read[e] \in Nat /\ delivered[e] \in Nat /\ app_send_queue[e] \in Seq(Runs)
  BY SMTT(40), MysockAssumption, Types
<1>g. /\ app[e] = "open" /\ ~Gone(e) /\ app_send_queue[e] # <<>> /\ thread[e] # "exited"
      /\ Chain(app_send_queue[e], read[e], delivered[e])
      /\ EmptiesAt(app_send_queue[e], EndPlace(p))
  BY Zenon, <1>p DEF myread, Gone, InOrderAt, ClosesLast, FinSent, Flushed, EndsLast
<1>d. /\ DequeueLen(app_send_queue[e], n) \in Nat
      /\ DequeueRest(app_send_queue[e], n) \in Seq(Runs)
      /\ Chain(DequeueRest(app_send_queue[e], n),
               read[e] + DequeueLen(app_send_queue[e], n), delivered[e])
      /\ EmptiesAt(DequeueRest(app_send_queue[e], n), EndPlace(p))
      /\ DequeueLen(app_send_queue[e], n) = 0 => read[e] \in EndPlace(p)
  BY Zenon, <1>t, <1>g, DequeueFacts
<1>l. PICK l \in Nat : l = DequeueLen(app_send_queue[e], n)
                       /\ (l = 0 => read[e] \in EndPlace(p))
  BY Zenon, <1>d
<1>q. PICK q \in Seq(Runs) : q = DequeueRest(app_send_queue[e], n)
                             /\ Chain(q, read[e] + l, delivered[e])
                             /\ EmptiesAt(q, EndPlace(p))
  BY Zenon, <1>d, <1>l
<1>m. /\ app_send_queue' = [app_send_queue EXCEPT ![e] = q]
      /\ read' = [read EXCEPT ![e] = read[e] + l]
      /\ eof' = [eof EXCEPT ![e] = (l = 0)]
      /\ UNCHANGED <<app, written, close_requested, app_recv_queue,
                     network_recv_queue, netVars, loopVars, ctxVars, histVars>>
  BY Zenon, <1>l, <1>q DEF myread
<1> USE DEF netVars, loopVars, ctxVars, histVars
<1>1. TypeOK'
  <2>1. eof' \in [End -> BOOLEAN]
    BY Zenon, <1>m DEF TypeOK
  <2>2. read' \in [End -> Nat]
    <3>1. read[e] + l \in Nat
      BY SMTT(40), <1>t
    <3> QED BY Zenon, <1>m, <3>1 DEF TypeOK
  <2>3. app_send_queue' \in [End -> Seq(Runs)]
    BY Zenon, <1>m, <1>q DEF TypeOK
  <2> QED BY Zenon, <1>m, <2>1, <2>2, <2>3 DEF TypeOK
<1>2. InOrderAt(e)' /\ InOrderAt(p)'
  BY Zenon, <1>p, <1>m, <1>q DEF TypeOK, InOrderAt, Gone
<1>3. \A f \in End : (~Gone(f) => HandshakeAt(f) /\ EventsBacked(f))'
  BY Zenon, <1>p, <1>m DEF TypeOK, HandshakeAt, ControlNext, EventsBacked, Gone
<1>4. ClosesLast(e)' /\ ClosesLast(p)'
  BY Zenon, <1>p, <1>m DEF TypeOK, ClosesLast, Flushed, FinSent
<1>5. EndPlace(e)' = EndPlace(e) /\ EndPlace(p)' = EndPlace(p)
  BY Zenon, <1>p, <1>m DEF TypeOK, EndPlace, FinSent
<1>6. EndsLast(e)' /\ EndsLast(p)'
  <2>1. EndsLast(p)'
    BY ZenonT(40), <1>p, <1>m, <1>5 DEF TypeOK, EndsLast
  <2>2. eof'[e] => read'[e] \in EndPlace(p)
    <3>1. eof'[e] <=> l = 0
      BY Zenon, <1>m DEF TypeOK
    <3>2. read'[e] = read[e] + l
      BY Zenon, <1>m DEF TypeOK
    <3> QED BY <1>l, <1>t, <3>1, <3>2
  <2>3. EmptiesAt(app_send_queue'[e], EndPlace(p))
    BY Zenon, <1>m, <1>q DEF TypeOK
  <2> QED BY Zenon, <1>p, <1>m, <1>5, <2>1, <2>2, <2>3 DEF EndsLast
<1> QED BY Zenon, <1>p, <1>1, <1>2, <1>3, <1>4, <1>6

\* myclose only raises the request.
LEMMA mycloseInv ==
    ASSUME StreamInv, NEW e \in End, myclose(e)
    PROVE  StreamInv'
<1> USE DEF StreamInv, StreamAt, queueVars, netVars, loopVars, ctxVars, histVars
<1>p. PICK p \in End : p = Peer(e) /\ p # e /\ Peer(p) = e /\ \A f \in End : f = e \/ f = p
  BY Zenon, Peers
<1>1. TypeOK'
  BY Zenon DEF TypeOK, myclose, AppState
<1>2. InOrderAt(e)' /\ InOrderAt(p)'
  BY Zenon, <1>p DEF myclose, TypeOK, InOrderAt, Gone
<1>3. \A f \in End : (~Gone(f) => HandshakeAt(f) /\ EventsBacked(f))'
  <2>1. /\ app[e] = "open" /\ app'[e] = "closing" /\ app'[p] = app[p]
        /\ close_requested'[p] = close_requested[p]
        /\ UNCHANGED <<queueVars, netVars, loopVars>>
    BY Zenon, <1>p DEF myclose, TypeOK
  <2>2. (~Gone(e) => EventsBacked(e))' /\ (~Gone(p) => EventsBacked(p))'
    BY Zenon, <2>1 DEF EventsBacked, Gone
  <2>3. (~Gone(e) => HandshakeAt(e))' /\ (~Gone(p) => HandshakeAt(p))'
    BY ZenonT(40), <1>p, <2>1 DEF HandshakeAt, ControlNext, Gone
  <2> QED BY Zenon, <1>p, <2>2, <2>3
<1>4. ClosesLast(e)' /\ ClosesLast(p)'
  BY Zenon, <1>p DEF myclose, TypeOK, ClosesLast, Flushed, FinSent
<1>5. EndsLast(e)' /\ EndsLast(p)'
  BY Zenon, <1>p DEF myclose, TypeOK, EndsLast, EndPlace, FinSent
<1> QED BY Zenon, <1>p, <1>1, <1>2, <1>3, <1>4, <1>5

\* When the thread has been joined the queues of the end are freed.
LEMMA myclose_returnInv ==
    ASSUME StreamInv, NEW e \in End, myclose_return(e)
    PROVE  StreamInv'
<1> USE DEF StreamInv, StreamAt, loopVars, ctxVars, histVars
<1>p. PICK p \in End : p = Peer(e) /\ p # e /\ Peer(p) = e /\ \A f \in End : f = e \/ f = p
  BY Zenon, Peers
<1>e. <<>> \in Seq(Runs) /\ <<>> \in Seq(Packets)
  OBVIOUS
<1>r. reset' \in [End -> BOOLEAN]
  BY Zenon, CloseReset DEF myclose_return
<1>1. TypeOK'
  BY Zenon, <1>e, <1>r DEF TypeOK, myclose_return, AppState
<1>2. InOrderAt(e)' /\ InOrderAt(p)'
  BY SMTT(40), <1>p DEF myclose_return, TypeOK, InOrderAt, Gone
<1>3. \A f \in End : (~Gone(f) => HandshakeAt(f) /\ EventsBacked(f))'
  <2>0. /\ app'[e] = "closed" /\ app'[p] = app[p]
        /\ network_recv_queue'[p] = network_recv_queue[p] /\ wire'[p] = wire[p]
        /\ app_send_queue'[p] = app_send_queue[p]
        /\ app_recv_queue'[p] = app_recv_queue[p]
        /\ thread[e] = "exited"
    BY Zenon, <1>p DEF myclose_return, TypeOK
  <2>1. Gone(e)'
    BY Zenon, <2>0 DEF Gone
  <2>2. (~Gone(p) => HandshakeAt(p))'
    <3>1. thread' = thread
      BY Zenon DEF myclose_return
    <3>2. (Gone(p)' <=> Gone(p)) /\ (ControlNext(p)' <=> ControlNext(p))
      BY Zenon, <2>0 DEF ControlNext, Gone
    <3> QED BY <1>p, <2>0, <3>1, <3>2 DEF HandshakeAt
  <2>3. (~Gone(p) => EventsBacked(p))'
    BY Zenon, <1>p, <2>0 DEF myclose_return, EventsBacked, Gone
  <2> QED BY Zenon, <1>p, <2>1, <2>2, <2>3
<1>4. ClosesLast(e)' /\ ClosesLast(p)'
  BY Zenon, <1>p DEF myclose_return, TypeOK, ClosesLast, Flushed, FinSent
<1>5. EndsLast(e)' /\ EndsLast(p)'
  BY Zenon, <1>p, NothingAt DEF myclose_return, TypeOK, EndsLast, EndPlace, FinSent
<1> QED BY Zenon, <1>p, <1>1, <1>2, <1>3, <1>4, <1>5

\* A process that ends leaves its half of the stream as it is.
LEMMA EndInv ==
    ASSUME StreamInv, NEW e \in End, ~Gone(e),
           NEW a \in {"killed", "aborted"}, app' = [app EXCEPT ![e] = a], CloseSocket(e),
           UNCHANGED <<written, read, eof, close_requested, queueVars, wire, recv_thread,
                       loopVars, ctxVars, histVars>>
    PROVE  StreamInv'
<1> USE DEF StreamInv, StreamAt, queueVars, loopVars, ctxVars, histVars
<1>p. PICK p \in End : p = Peer(e) /\ p # e /\ Peer(p) = e /\ \A f \in End : f = e \/ f = p
  BY Zenon, Peers
<1>r. reset' \in [End -> BOOLEAN]
  BY Zenon, CloseReset
<1>g. Gone(e)' /\ app'[p] = app[p] /\ app[e] # "closed" /\ app'[e] \notin {"blocked", "open"}
  BY Zenon, <1>p DEF TypeOK, Gone
<1>1. TypeOK'
  BY Zenon, <1>r DEF TypeOK, AppState
<1>2. InOrderAt(e)' /\ InOrderAt(p)'
  BY ZenonT(30), <1>p, <1>g DEF InOrderAt, Gone
<1>3. \A f \in End : (~Gone(f) => HandshakeAt(f) /\ EventsBacked(f))'
  <2>2. Gone(p)' <=> Gone(p)
    BY Zenon, <1>g DEF Gone
  <2>3. HandshakeAt(p)' <=> HandshakeAt(p)
    BY Zenon DEF HandshakeAt, ControlNext
  <2>4. EventsBacked(p)' <=> EventsBacked(p)
    BY Zenon, <1>g DEF EventsBacked
  <2> QED BY Zenon, <1>p, <1>g, <2>2, <2>3, <2>4
<1>4. ClosesLast(e)' /\ ClosesLast(p)'
  BY Zenon, <1>p, <1>g DEF ClosesLast, Flushed, FinSent
<1>5. EndsLast(e)' /\ EndsLast(p)'
  BY Zenon, <1>p DEF EndsLast, EndPlace, FinSent
<1> QED BY Zenon, <1>p, <1>1, <1>2, <1>3, <1>4, <1>5

LEMMA CrashInv ==
    ASSUME StreamInv, NEW e \in End, Crash(e)
    PROVE  StreamInv'
BY Zenon, EndInv DEF Crash

LEMMA AbortInv ==
    ASSUME StreamInv, NEW e \in End, ~Gone(e), Abort(e)
    PROVE  StreamInv'
BY Zenon, EndInv DEF Abort

-----------------------------------------------------------------------------
(* The receive thread.                                                     *)

\* The receive thread moves a packet from the wire to the queue.
LEMMA RecvPacketInv ==
    ASSUME StreamInv, NEW e \in End, RecvPacket(e)
    PROVE  StreamInv'
<1> USE DEF StreamInv, StreamAt
<1>p. PICK p \in End : p = Peer(e) /\ p # e /\ Peer(p) = e /\ \A f \in End : f = e \/ f = p
  BY Zenon, Peers
<1>g. /\ ~Gone(e) /\ wire[e] # <<>>
      /\ Chain(network_recv_queue[e], delivered[e], arrived[e])
      /\ Chain(wire[e], arrived[e], payload[p].lo)
      /\ FinsAt(wire[e], EndPlace(p)) /\ FinsAt(network_recv_queue[e], EndPlace(p))
  BY Zenon, <1>p DEF RecvPacket, InOrderAt, EndsLast
<1>t. /\ wire[e] \in Seq(Packets) /\ network_recv_queue[e] \in Seq(Packets)
      /\ arrived[e] \in Nat /\ delivered[e] \in Nat /\ payload[p].lo \in Nat
  BY Zenon, Types
<1>r. PICK r \in Packets : /\ r = Head(wire[e]) /\ r = wire[e][1]
                           /\ r.lo = arrived[e] /\ r.lo <= r.hi /\ r.hi \in Nat
                           /\ r.kind # "DATA" => r.hi = r.lo
                           /\ r.kind = "FIN" => r.lo \in EndPlace(p)
                           /\ NoData(wire[e]) => r.kind # "DATA"
  <2>1. Head(wire[e]) = wire[e][1] /\ wire[e][1] \in Packets
    BY Zenon, <1>g, <1>t, TailFacts
  <2>2. wire[e][1].lo = arrived[e] /\ wire[e][1].lo <= wire[e][1].hi /\ wire[e][1].hi \in Nat
    BY Zenon, <1>g, <1>t, <2>1, ChainBounds, PacketTypes
  <2>3. /\ wire[e][1].kind # "DATA" => wire[e][1].hi = wire[e][1].lo
        /\ wire[e][1].kind = "FIN" => wire[e][1].lo \in EndPlace(p)
    BY Zenon, <1>g, <1>t, FinsAtTail
  <2>4. NoData(wire[e]) => wire[e][1].kind # "DATA"
    BY Zenon, <1>g, <1>t, NoDataTail
  <2> QED BY Zenon, <2>1, <2>2, <2>3, <2>4
<1>w. PICK w \in Seq(Packets) : /\ w = Tail(wire[e])
                                /\ Chain(w, r.hi, payload[p].lo)
                                /\ FinsAt(w, EndPlace(p))
                                /\ NoData(wire[e]) => NoData(w)
  <2>1. Tail(wire[e]) \in Seq(Packets) /\ Chain(Tail(wire[e]), r.hi, payload[p].lo)
    BY Zenon, <1>g, <1>t, <1>r, ChainTail, PacketTypes
  <2>2. FinsAt(Tail(wire[e]), EndPlace(p))
    BY Zenon, <1>g, <1>t, FinsAtTail
  <2>3. NoData(wire[e]) => NoData(Tail(wire[e]))
    BY Zenon, <1>g, <1>t, NoDataTail
  <2> QED BY Zenon, <2>1, <2>2, <2>3
<1>q. PICK q \in Seq(Packets) : /\ q = Append(network_recv_queue[e], r) /\ q # <<>>
                                /\ Chain(q, delivered[e], r.hi)
                                /\ FinsAt(q, EndPlace(p))
                                /\ network_recv_queue[e] # <<>> => q[1] = network_recv_queue[e][1]
                                /\ network_recv_queue[e] = <<>> => q[1] = r
                                /\ NoData(network_recv_queue[e]) /\ r.kind # "DATA" => NoData(q)
  <2> DEFINE a == Append(network_recv_queue[e], r)
  <2>1. a \in Seq(Packets) /\ a # <<>>
    BY Zenon, <1>t, AppendPacket
  <2>2. Chain(a, delivered[e], r.hi)
    BY Zenon, <1>g, <1>t, <1>r, ChainAppend, PacketTypes
  <2>3. FinsAt(a, EndPlace(p))
    BY Zenon, <1>g, <1>t, <1>r, FinsAtAppend
  <2>4. /\ network_recv_queue[e] # <<>> => a[1] = network_recv_queue[e][1]
        /\ network_recv_queue[e] = <<>> => a[1] = r
    BY Zenon, <1>t, AppendFirst
  <2>5. NoData(network_recv_queue[e]) /\ r.kind # "DATA" => NoData(a)
    BY Zenon, <1>t, NoDataAppend
  <2> QED BY ZenonT(30), <2>1, <2>2, <2>3, <2>4, <2>5
<1>m. /\ network_recv_queue' = [network_recv_queue EXCEPT ![e] = q]
      /\ arrived' = [arrived EXCEPT ![e] = r.hi]
      /\ wire' = [wire EXCEPT ![e] = w]
      /\ UNCHANGED <<appVars, close_requested, app_recv_queue, app_send_queue,
                     recv_thread, reset, loopVars, ctxVars, delivered>>
  BY Zenon, <1>r, <1>w, <1>q DEF RecvPacket
<1> USE DEF appVars, loopVars, ctxVars
<1>1. TypeOK'
  BY Zenon, <1>m, <1>r DEF TypeOK
<1>2. InOrderAt(e)' /\ InOrderAt(p)'
  BY Zenon, <1>p, <1>m, <1>w, <1>q DEF TypeOK, InOrderAt, Gone
<1>3. \A f \in End : (~Gone(f) => HandshakeAt(f))'
  <2>0. /\ network_recv_queue'[e] = q /\ wire'[e] = w
        /\ network_recv_queue'[p] = network_recv_queue[p] /\ wire'[p] = wire[p]
        /\ thread' = thread /\ app' = app
    BY Zenon, <1>p, <1>m DEF TypeOK
  <2>1. HandshakeAt(e)'
    <3>1. thread[p] \in {"start", "await"} => NoData(q) /\ NoData(w)
      BY Zenon, <1>p, <1>g, <1>r, <1>w, <1>q DEF HandshakeAt
    <3>2. ControlNext(e) => q[1].kind # "DATA"
      BY Zenon, <1>g, <1>r, <1>q DEF ControlNext
    <3>3. ControlNext(e) => ControlNext(e)'
      BY Zenon, <1>q, <2>0, <3>2 DEF ControlNext
    <3> QED BY Zenon, <1>p, <1>g, <2>0, <3>1, <3>3 DEF HandshakeAt
  <2>2. (~Gone(p) => HandshakeAt(p))'
    <3>1. ControlNext(p)' <=> ControlNext(p)
      BY Zenon, <2>0 DEF ControlNext
    <3>2. ~Gone(p) /\ thread[p] = "start" => wire[e] = <<>>
      <4>1. ~Gone(p) => HandshakeAt(p)
        BY Zenon
      <4> QED BY <1>p, <4>1 DEF HandshakeAt
    <3>3. ~(~Gone(p) /\ thread[p] = "start")
      BY Zenon, <1>g, <3>2
    <3>4. Gone(p)' <=> Gone(p)
      BY Zenon, <2>0 DEF Gone
    <3> QED BY Zenon, <1>p, <2>0, <3>1, <3>3, <3>4 DEF HandshakeAt
  <2> QED BY Zenon, <1>p, <2>1, <2>2
<1>4. \A f \in End : (~Gone(f) => EventsBacked(f))'
  BY Zenon, <1>p, <1>m, <1>q DEF TypeOK, EventsBacked, Gone
<1>5. ClosesLast(e)' /\ ClosesLast(p)'
  BY Zenon, <1>p, <1>m DEF TypeOK, ClosesLast, Flushed, FinSent
<1>6. EndPlace(e)' = EndPlace(e) /\ EndPlace(p)' = EndPlace(p)
  BY Zenon, <1>p, <1>m DEF TypeOK, EndPlace, FinSent
<1>7. EndsLast(e)' /\ EndsLast(p)'
  BY ZenonT(40), <1>p, <1>m, <1>6, <1>q, <1>w DEF TypeOK, EndsLast
<1> QED BY Zenon, <1>p, <1>1, <1>2, <1>3, <1>4, <1>5, <1>7

\* The receive thread's empty buffer is no FIN and carries no data.
LEMMA RecvEofInv ==
    ASSUME StreamInv, NEW e \in End, RecvEof(e)
    PROVE  StreamInv'
<1> USE DEF StreamInv, StreamAt
<1>p. PICK p \in End : p = Peer(e) /\ p # e /\ Peer(p) = e /\ \A f \in End : f = e \/ f = p
  BY Zenon, Peers
<1>g. /\ ~Gone(e) /\ Gone(p)
      /\ Chain(network_recv_queue[e], delivered[e], arrived[e])
      /\ FinsAt(network_recv_queue[e], EndPlace(p))
  BY Zenon, <1>p DEF RecvEof, InOrderAt, EndsLast
<1>t. /\ network_recv_queue[e] \in Seq(Packets)
      /\ arrived[e] \in Nat /\ delivered[e] \in Nat /\ 0 \in Seqs
  BY Zenon, Types
<1>r. PICK r \in Packets : /\ r = Packet("ERR", 0, 0, Run(arrived[e], arrived[e]))
                           /\ r.kind = "ERR" /\ r.lo = arrived[e] /\ r.hi = arrived[e]
  <2>1. /\ Run(arrived[e], arrived[e]) \in Runs
        /\ Run(arrived[e], arrived[e]).lo = arrived[e]
        /\ Run(arrived[e], arrived[e]).hi = arrived[e]
    BY Zenon, <1>t, RunFacts
  <2> QED BY SMTT(40), <1>t, <2>1, PacketFacts
<1>q. PICK q \in Seq(Packets) : /\ q = Append(network_recv_queue[e], r) /\ q # <<>>
                                /\ Chain(q, delivered[e], arrived[e])
                                /\ FinsAt(q, EndPlace(p))
                                /\ network_recv_queue[e] # <<>> => q[1] = network_recv_queue[e][1]
                                /\ network_recv_queue[e] = <<>> => q[1].kind # "DATA"
                                /\ NoData(network_recv_queue[e]) => NoData(q)
  <2> DEFINE a == Append(network_recv_queue[e], r)
  <2>1. a \in Seq(Packets) /\ a # <<>>
    BY Zenon, <1>t, AppendPacket
  <2>2. Chain(a, delivered[e], r.hi)
    <3>1. r.lo <= r.hi
      BY SMTT(40), <1>t, <1>r
    <3> QED BY Zenon, <1>g, <1>t, <1>r, <3>1, ChainAppend, PacketTypes
  <2>3. FinsAt(a, EndPlace(p))
    BY Zenon, <1>g, <1>t, <1>r, FinsAtAppend
  <2>4. /\ network_recv_queue[e] # <<>> => a[1] = network_recv_queue[e][1]
        /\ network_recv_queue[e] = <<>> => a[1].kind # "DATA"
    BY Zenon, <1>t, <1>r, AppendFirst
  <2>5. NoData(network_recv_queue[e]) => NoData(a)
    BY Zenon, <1>t, <1>r, NoDataAppend
  <2> QED BY ZenonT(30), <1>r, <2>1, <2>2, <2>3, <2>4, <2>5
<1>m. /\ network_recv_queue' = [network_recv_queue EXCEPT ![e] = q]
      /\ recv_thread' = [recv_thread EXCEPT ![e] = FALSE]
      /\ UNCHANGED <<appVars, close_requested, app_recv_queue, app_send_queue,
                     wire, reset, loopVars, ctxVars, histVars>>
  BY Zenon, <1>r, <1>q DEF RecvEof
<1> USE DEF appVars, loopVars, ctxVars, histVars
<1>1. TypeOK'
  BY Zenon, <1>m DEF TypeOK
<1>2. InOrderAt(e)' /\ InOrderAt(p)'
  BY Zenon, <1>p, <1>m, <1>q DEF TypeOK, InOrderAt, Gone
<1>3. \A f \in End : (~Gone(f) => HandshakeAt(f))'
  <2>0. network_recv_queue'[e] = q /\ network_recv_queue'[p] = network_recv_queue[p]
        /\ wire' = wire /\ thread' = thread /\ app' = app
    BY ZenonT(30), <1>p, <1>m DEF TypeOK
  <2>1. HandshakeAt(e)'
    <3>1. ControlNext(e) => ControlNext(e)'
      BY ZenonT(30), <1>g, <1>q, <2>0 DEF ControlNext
    <3> QED BY ZenonT(30), <1>p, <1>g, <1>q, <2>0, <3>1 DEF HandshakeAt
  <2>2. (~Gone(p) => HandshakeAt(p))'
    BY Zenon, <1>g, <2>0 DEF Gone
  <2> QED BY Zenon, <1>p, <2>1, <2>2
<1>4. \A f \in End : (~Gone(f) => EventsBacked(f))'
  BY Zenon, <1>p, <1>m, <1>q DEF TypeOK, EventsBacked, Gone
<1>5. ClosesLast(e)' /\ ClosesLast(p)'
  BY Zenon, <1>p, <1>m DEF TypeOK, ClosesLast, Flushed, FinSent
<1>6. EndPlace(e)' = EndPlace(e) /\ EndPlace(p)' = EndPlace(p)
  BY Zenon, <1>p, <1>m DEF TypeOK, EndPlace, FinSent
<1>7. EndsLast(e)' /\ EndsLast(p)'
  <2>0. network_recv_queue'[e] = q /\ network_recv_queue'[p] = network_recv_queue[p]
    BY Zenon, <1>p, <1>m DEF TypeOK
  <2>1. EndsLast(e)'
    BY Zenon, <1>p, <1>m, <1>6, <1>q, <2>0 DEF EndsLast
  <2>2. EndsLast(p)'
    BY Zenon, <1>p, <1>m, <1>6, <2>0 DEF EndsLast
  <2> QED BY Zenon, <2>1, <2>2
<1> QED BY Zenon, <1>p, <1>1, <1>2, <1>3, <1>4, <1>5, <1>7
===========================================================================
