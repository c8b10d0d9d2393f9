-------------------------- MODULE Transport1Proofs --------------------------
(***************************************************************************)
(* The sender window of transport1.c: every step that keeps StreamInv also *)
(* keeps WindowInv.  A sender reckons what is in flight from the last      *)
(* acknowledgement it took, with numbers that wrap around; that this never *)
(* exceeds the window rests on the order of the acknowledgements on the    *)
(* way to it and of the numbers on the way to its peer (Flight), whatever  *)
(* is lost when a process goes.                                            *)
(*                                                                         *)
(* The close of transport1.c: every step that keeps WindowInv also keeps   *)
(* CloseInv.  An end closes for good only with the FIN of its peer, which  *)
(* is behind all of the peer's data: a process that aborts because its     *)
(* peer has closed has nothing left that it wrote.  The theorems are in    *)
(* TransportProofs.                                                        *)
(***************************************************************************)
EXTENDS Transport1, TLAPS

-----------------------------------------------------------------------------
(* Sequence numbers, which wrap around.                                    *)

\* A number and what is left of it after a division.
LEMMA ModRange ==
    ASSUME NEW M \in Nat \ {0}, NEW a \in Int
    PROVE  a % M \in Nat /\ a % M < M
  OBVIOUS

\* A number below the modulus is its own remainder.
LEMMA ModLess ==
    ASSUME NEW M \in Nat \ {0}, NEW a \in Nat, a < M
    PROVE  a % M = a
  OBVIOUS

\* One past the modulus: it is taken off once.
LEMMA ModOnce ==
    ASSUME NEW M \in Nat \ {0}, NEW a \in Int, M <= a, a < 2 * M
    PROVE  a % M = a - M
  OBVIOUS

\* A negative number above minus the modulus: it is added once.
LEMMA ModNeg ==
    ASSUME NEW M \in Nat \ {0}, NEW a \in Int, -M <= a, a < 0
    PROVE  a % M = a + M
  OBVIOUS

\* The first place of a list, if it has one.
LEMMA FirstPlace ==
    1 > 0 /\ \A n \in Nat : \A i \in 1 .. n : 1 \in 1 .. i
  OBVIOUS

\* A run has no negative size.
LEMMA RunSize ==
    ASSUME NEW lo \in Nat, NEW hi \in Nat, lo <= hi
    PROVE  hi - lo \in Nat
  OBVIOUS

\* The bytes that go into a segment: some, and no more than there are.
LEMMA SegmentSize ==
    ASSUME NEW lo \in Nat, NEW hi \in Nat, NEW m \in Nat \ {0}, lo < hi
    PROVE  LET rest == hi - lo
               size == IF rest > m THEN m ELSE rest
           IN  size \in Nat /\ 1 <= size /\ size <= rest /\ rest \in Nat /\ lo + size \in Nat
  OBVIOUS

\* Sequence numbers stay sequence numbers.
LEMMA PlusSeq ==
    ASSUME NEW c \in Seqs, NEW k \in Nat
    PROVE  Plus(c, k) \in Seqs
BY MysockAssumption, ModRange DEF Seqs, Plus

\* The lag is the difference, around the end of the numbers if need be.
LEMMA LagRange ==
    ASSUME NEW c \in Seqs, NEW n \in Seqs
    PROVE  /\ Lag(c, n) \in Nat /\ Lag(c, n) < SeqMod
           /\ n <= c => Lag(c, n) = c - n
           /\ c < n => Lag(c, n) = c - n + SeqMod
<1>1. SeqMod \in Nat \ {0} /\ c \in Nat /\ n \in Nat /\ c < SeqMod /\ n < SeqMod
  BY MysockAssumption DEF Seqs
<1>2. c - n \in Int /\ (n <= c => c - n \in Nat) /\ c - n < SeqMod /\ -SeqMod <= c - n
  BY <1>1
<1>3. Lag(c, n) \in Nat /\ Lag(c, n) < SeqMod
  BY Zenon, <1>1, <1>2, ModRange DEF Lag
<1>4. n <= c => Lag(c, n) = c - n
  BY Zenon, <1>1, <1>2, ModLess DEF Lag
<1>5. c < n => Lag(c, n) = c - n + SeqMod
  <2> SUFFICES ASSUME c < n PROVE Lag(c, n) = c - n + SeqMod
    BY Zenon
  <2>1. c - n < 0
    BY <1>1
  <2> QED BY Zenon, <1>1, <1>2, <2>1, ModNeg DEF Lag
<1> QED BY Zenon, <1>3, <1>4, <1>5

\* Plus is the sum, around the end of the numbers if need be.
LEMMA PlusWraps ==
    ASSUME NEW c \in Seqs, NEW k \in Nat, k < SeqMod
    PROVE  /\ c + k < SeqMod => Plus(c, k) = c + k
           /\ SeqMod <= c + k => Plus(c, k) = c + k - SeqMod
<1>1. SeqMod \in Nat \ {0} /\ c \in Nat /\ c < SeqMod
  BY MysockAssumption DEF Seqs
<1>2. PICK s \in Nat : s = c + k /\ s < 2 * SeqMod
  BY <1>1
<1>3. s < SeqMod => s % SeqMod = s
  BY Zenon, <1>1, <1>2, ModLess
<1>4. SeqMod <= s => s % SeqMod = s - SeqMod
  <2>1. s \in Int
    BY <1>2
  <2> QED BY Zenon, <1>1, <1>2, <2>1, ModOnce
<1>5. Plus(c, k) = s % SeqMod
  BY Zenon, <1>2 DEF Plus
<1> QED BY <1>1, <1>2, <1>3, <1>4, <1>5

\* A sender that goes on by k leaves the numbers behind it k further behind.
LEMMA LagPlus ==
    ASSUME NEW c \in Seqs, NEW n \in Seqs, NEW k \in Nat, Lag(c, n) + k < SeqMod
    PROVE  Lag(Plus(c, k), n) = Lag(c, n) + k
<1>1. SeqMod \in Nat \ {0} /\ c \in Nat /\ n \in Nat /\ c < SeqMod /\ n < SeqMod
  BY MysockAssumption DEF Seqs
<1>2. k < SeqMod /\ Plus(c, k) \in Seqs
  BY <1>1, LagRange, PlusSeq
<1> QED BY <1>1, <1>2, LagRange, PlusWraps

\* A number k after n is k less behind.
LEMMA LagBack ==
    ASSUME NEW c \in Seqs, NEW n \in Seqs, NEW k \in Nat, k <= Lag(c, n)
    PROVE  Lag(c, Plus(n, k)) = Lag(c, n) - k
<1>1. SeqMod \in Nat \ {0} /\ c \in Nat /\ n \in Nat /\ c < SeqMod /\ n < SeqMod
  BY MysockAssumption DEF Seqs
<1>2. k < SeqMod /\ Plus(n, k) \in Seqs
  BY <1>1, LagRange, PlusSeq
<1>3. /\ Lag(c, n) \in Nat /\ (n <= c => Lag(c, n) = c - n) /\ (c < n => Lag(c, n) = c - n + SeqMod)
      /\ n + k < SeqMod => Plus(n, k) = n + k
      /\ SeqMod <= n + k => Plus(n, k) = n + k - SeqMod
  BY Zenon, <1>2, LagRange, PlusWraps
<1>4. PICK m \in Seqs : m = Plus(n, k)
  BY Zenon, <1>2
<1>5. /\ m <= c => Lag(c, m) = c - m
      /\ c < m => Lag(c, m) = c - m + SeqMod
  BY Zenon, LagRange
<1>6. m \in Nat /\ m < SeqMod
  BY <1>1 DEF Seqs
<1>7. Lag(c, m) = Lag(c, n) - k
  BY <1>1, <1>2, <1>3, <1>4, <1>5, <1>6
<1> QED BY Zenon, <1>4, <1>7

\* A number is k behind the one k after it.
LEMMA LagSelf ==
    ASSUME NEW c \in Seqs, NEW k \in Nat, k < SeqMod
    PROVE  Lag(Plus(c, k), c) = k
<1>1. Lag(c, c) = 0
  BY LagRange, MysockAssumption DEF Seqs
<1> QED BY <1>1, LagPlus

-----------------------------------------------------------------------------
\* What a packet has.
LEMMA PacketFields ==
    ASSUME NEW r \in Packets
    PROVE  /\ r.seq \in Seqs /\ r.ack \in Seqs /\ r.lo \in Nat /\ r.hi \in Nat
           /\ Numbers(r) \in Int
BY DEF Packets, Numbers

\* Taking the first packet of a queue.
LEMMA Rest ==
    ASSUME NEW q \in Seq(Packets), q # <<>>
    PROVE  /\ Head(q) \in Packets /\ Head(q) = q[1] /\ 1 \in 1 .. Len(q)
           /\ Tail(q) \in Seq(Packets) /\ Len(Tail(q)) \in Nat
           /\ \A i \in 1 .. Len(Tail(q)) : i + 1 \in 1 .. Len(q) /\ Tail(q)[i] = q[i + 1]
OBVIOUS

\* A list without packets.
LEMMA NoPackets == Kinds(<<>>) = {} /\ \A i \in 1 .. Len(<<>>) : FALSE
  BY DEF Kinds

\* How many there are.
LEMMA LenNat == ASSUME NEW q \in Seq(Packets) PROVE Len(q) \in Nat
  OBVIOUS

\* Adding one at the end.
LEMMA More ==
    ASSUME NEW q \in Seq(Packets), NEW x \in Packets
    PROVE  /\ Append(q, x) \in Seq(Packets)
           /\ \A i \in 1 .. Len(Append(q, x)) :
                i \in Int /\ (\/ i \in 1 .. Len(q) /\ Append(q, x)[i] = q[i]
                              \/ i = Len(q) + 1 /\ Append(q, x)[i] = x)
OBVIOUS

-----------------------------------------------------------------------------
(* What is in flight, as the packets move.                                 *)

\* The sender takes the next packet; when it is an acknowledgement that becomes the last.
LEMMA FlightTake ==
    ASSUME NEW c \in Seqs, NEW a \in Seqs, NEW q \in Seq(Packets), NEW r \in Seq(Packets),
           q # <<>>, Flight(c, a, q, r)
    PROVE  /\ Flight(c, a, Tail(q), r)
           /\ Head(q).kind \in AckKinds => /\ Lag(c, Head(q).ack) <= Lag(c, a)
                                           /\ Flight(c, Head(q).ack, Tail(q), r)
<1> DEFINE t == Tail(q)
<1>1. /\ Head(q) = q[1] /\ 1 \in 1 .. Len(q) /\ Len(t) \in Nat
      /\ \A i \in 1 .. Len(t) : i \in Int /\ i + 1 \in 1 .. Len(q) /\ t[i] = q[i + 1]
  BY Rest
<1> HIDE DEF t
<1>2. AcksRise(c, a, t)
  <2> SUFFICES ASSUME NEW i \in 1 .. Len(t), t[i].kind \in AckKinds
               PROVE  /\ Lag(c, t[i].ack) <= Lag(c, a)
                      /\ \A j \in 1 .. Len(t) : i < j /\ t[j].kind \in AckKinds =>
                            Lag(c, t[j].ack) <= Lag(c, t[i].ack)
    BY Zenon DEF AcksRise
  <2>1. i + 1 \in 1 .. Len(q) /\ t[i] = q[i + 1]
    BY Zenon, <1>1
  <2>2. \A j \in 1 .. Len(t) : i < j => i + 1 < j + 1 /\ j + 1 \in 1 .. Len(q) /\ t[j] = q[j + 1]
    BY <1>1
  <2> QED BY Zenon, <2>1, <2>2 DEF Flight, AcksRise
<1>3. NotAcked(c, t, r)
  BY Zenon, <1>1 DEF Flight, NotAcked
<1>4. ASSUME q[1].kind \in AckKinds PROVE AcksRise(c, q[1].ack, t) /\ NumbersRise(c, q[1].ack, r)
  <2>1. AcksRise(c, q[1].ack, t)
    BY <1>1, <1>4 DEF Flight, AcksRise
  <2>2. NumbersRise(c, q[1].ack, r)
    BY Zenon, <1>1, <1>4 DEF Flight, NumbersRise, NotAcked
  <2> QED BY Zenon, <2>1, <2>2
<1>5. q[1].kind \in AckKinds => Lag(c, q[1].ack) <= Lag(c, a)
  BY Zenon, <1>1 DEF Flight, AcksRise
<1> QED BY Zenon, <1>1, <1>2, <1>3, <1>4, <1>5 DEF Flight, t

\* The peer takes the next packet and does not answer it.
LEMMA FlightLose ==
    ASSUME NEW c \in Seqs, NEW a \in Seqs, NEW q \in Seq(Packets), NEW r \in Seq(Packets),
           r # <<>>, Flight(c, a, q, r)
    PROVE  Flight(c, a, q, Tail(r))
<1> DEFINE t == Tail(r)
<1>1. /\ Len(t) \in Nat
      /\ \A i \in 1 .. Len(t) : i \in Int /\ i + 1 \in 1 .. Len(r) /\ t[i] = r[i + 1]
  BY Rest
<1> HIDE DEF t
<1>2. NumbersRise(c, a, t)
  <2> SUFFICES ASSUME NEW i \in 1 .. Len(t), t[i].kind \in NumberedKinds
               PROVE  /\ 1 <= Numbers(t[i]) /\ Numbers(t[i]) <= Lag(c, t[i].seq)
                      /\ Lag(c, t[i].seq) <= Lag(c, a)
                      /\ \A j \in 1 .. Len(t) : i < j /\ t[j].kind \in NumberedKinds =>
                            Lag(c, t[j].seq) + Numbers(t[i]) <= Lag(c, t[i].seq)
    BY Zenon DEF NumbersRise
  <2>1. i + 1 \in 1 .. Len(r) /\ t[i] = r[i + 1]
    BY Zenon, <1>1
  <2>2. \A j \in 1 .. Len(t) : i < j => i + 1 < j + 1 /\ j + 1 \in 1 .. Len(r) /\ t[j] = r[j + 1]
    BY <1>1
  <2> QED BY Zenon, <2>1, <2>2 DEF Flight, NumbersRise
<1>3. NotAcked(c, q, t)
  BY Zenon, <1>1 DEF Flight, NotAcked
<1> QED BY Zenon, <1>2, <1>3 DEF Flight, t

\* A packet without an acknowledgement, or without numbers of its own, is sent.
LEMMA FlightOther ==
    ASSUME NEW c \in Seqs, NEW a \in Seqs, NEW q \in Seq(Packets), NEW r \in Seq(Packets),
           NEW x \in Packets, Flight(c, a, q, r)
    PROVE  /\ x.kind \notin AckKinds => Flight(c, a, Append(q, x), r)
           /\ x.kind \notin NumberedKinds => Flight(c, a, q, Append(r, x))
<1>1. ASSUME NEW s \in Seq(Packets), NEW i \in 1 .. Len(Append(s, x))
      PROVE  \/ i \in 1 .. Len(s) /\ Append(s, x)[i] = s[i]
             \/ Append(s, x)[i] = x
  BY Zenon, More
<1>2. ASSUME x.kind \notin AckKinds
      PROVE  AcksRise(c, a, Append(q, x)) /\ NotAcked(c, Append(q, x), r)
  BY Zenon, <1>1, <1>2 DEF Flight, AcksRise, NotAcked
<1>3. ASSUME x.kind \notin NumberedKinds
      PROVE  NumbersRise(c, a, Append(r, x)) /\ NotAcked(c, q, Append(r, x))
  BY Zenon, <1>1, <1>3 DEF Flight, NumbersRise, NotAcked
<1> QED BY Zenon, <1>2, <1>3 DEF Flight

\* The sender's next number moves on by k.
LEMMA FlightMove ==
    ASSUME NEW c \in Seqs, NEW a \in Seqs, NEW q \in Seq(Packets), NEW r \in Seq(Packets),
           NEW k \in Nat, Lag(c, a) + k < SeqMod, Flight(c, a, q, r)
    PROVE  /\ Flight(Plus(c, k), a, q, r)
           /\ Lag(Plus(c, k), a) = Lag(c, a) + k
<1>1. SeqMod \in Nat /\ Lag(c, a) \in Nat
  BY Zenon, MysockAssumption, LagRange
<1>2. ASSUME NEW n \in Seqs, Lag(c, n) <= Lag(c, a)
      PROVE  Lag(Plus(c, k), n) = Lag(c, n) + k /\ Lag(c, n) \in Nat
  <2>1. Lag(c, n) \in Nat
    BY Zenon, LagRange
  <2>2. Lag(c, n) + k < SeqMod
    BY <1>1, <1>2, <2>1
  <2> QED BY Zenon, <2>1, <2>2, LagPlus
<1>3. \A i \in 1 .. Len(q) : q[i].kind \in AckKinds =>
        Lag(c, q[i].ack) \in Nat /\ Lag(Plus(c, k), q[i].ack) = Lag(c, q[i].ack) + k
  <2> SUFFICES ASSUME NEW i \in 1 .. Len(q), q[i].kind \in AckKinds
               PROVE  Lag(c, q[i].ack) \in Nat /\ Lag(Plus(c, k), q[i].ack) = Lag(c, q[i].ack) + k
    BY Zenon
  <2>1. q[i] \in Packets
    OBVIOUS
  <2>2. q[i].ack \in Seqs
    BY Zenon, <2>1, PacketFields
  <2>3. Lag(c, q[i].ack) <= Lag(c, a)
    BY Zenon DEF Flight, AcksRise
  <2> QED BY Zenon, <2>2, <2>3, <1>2
<1>4. \A i \in 1 .. Len(r) : r[i].kind \in NumberedKinds =>
        /\ Lag(c, r[i].seq) \in Nat /\ Numbers(r[i]) \in Int
        /\ Lag(Plus(c, k), r[i].seq) = Lag(c, r[i].seq) + k
  <2> SUFFICES ASSUME NEW i \in 1 .. Len(r), r[i].kind \in NumberedKinds
               PROVE  /\ Lag(c, r[i].seq) \in Nat /\ Numbers(r[i]) \in Int
                      /\ Lag(Plus(c, k), r[i].seq) = Lag(c, r[i].seq) + k
    BY Zenon
  <2>1. r[i] \in Packets
    OBVIOUS
  <2>2. r[i].seq \in Seqs /\ Numbers(r[i]) \in Int
    BY Zenon, <2>1, PacketFields
  <2>3. Lag(c, r[i].seq) <= Lag(c, a)
    BY Zenon DEF Flight, NumbersRise
  <2> QED BY Zenon, <2>2, <2>3, <1>2
<1>5. Lag(Plus(c, k), a) = Lag(c, a) + k
  BY <1>1, <1>2
<1>6. AcksRise(Plus(c, k), a, q)
  <2>1. AcksRise(c, a, q)
    BY Zenon DEF Flight
  <2> QED BY <1>1, <1>3, <1>5, <2>1 DEF AcksRise
<1>7. NumbersRise(Plus(c, k), a, r)
  <2>1. NumbersRise(c, a, r)
    BY Zenon DEF Flight
  <2> SUFFICES ASSUME NEW i \in 1 .. Len(r), r[i].kind \in NumberedKinds
               PROVE  /\ 1 <= Numbers(r[i]) /\ Numbers(r[i]) <= Lag(Plus(c, k), r[i].seq)
                      /\ Lag(Plus(c, k), r[i].seq) <= Lag(Plus(c, k), a)
                      /\ \A j \in 1 .. Len(r) : i < j /\ r[j].kind \in NumberedKinds =>
                            Lag(Plus(c, k), r[j].seq) + Numbers(r[i]) <= Lag(Plus(c, k), r[i].seq)
    BY Zenon DEF NumbersRise
  <2>2. /\ 1 <= Numbers(r[i]) /\ Numbers(r[i]) <= Lag(c, r[i].seq) /\ Lag(c, r[i].seq) <= Lag(c, a)
        /\ Lag(c, r[i].seq) \in Nat /\ Numbers(r[i]) \in Int
        /\ Lag(Plus(c, k), r[i].seq) = Lag(c, r[i].seq) + k
    BY Zenon, <1>4, <2>1 DEF NumbersRise
  <2>3. /\ Numbers(r[i]) <= Lag(Plus(c, k), r[i].seq)
        /\ Lag(Plus(c, k), r[i].seq) <= Lag(Plus(c, k), a)
    BY <1>1, <1>5, <2>2
  <2>4. ASSUME NEW j \in 1 .. Len(r), i < j, r[j].kind \in NumberedKinds
        PROVE  Lag(Plus(c, k), r[j].seq) + Numbers(r[i]) <= Lag(Plus(c, k), r[i].seq)
    <3>1. /\ Lag(c, r[j].seq) + Numbers(r[i]) <= Lag(c, r[i].seq) /\ Lag(c, r[j].seq) \in Nat
          /\ Lag(Plus(c, k), r[j].seq) = Lag(c, r[j].seq) + k
      BY Zenon, <1>4, <2>1, <2>4 DEF NumbersRise
    <3> QED BY <1>1, <2>2, <3>1
  <2> QED BY Zenon, <2>2, <2>3, <2>4
<1>8. NotAcked(Plus(c, k), q, r)
  <2> SUFFICES ASSUME NEW i \in 1 .. Len(r), NEW j \in 1 .. Len(q),
                      r[i].kind \in NumberedKinds, q[j].kind \in AckKinds
               PROVE  Lag(Plus(c, k), r[i].seq) <= Lag(Plus(c, k), q[j].ack)
    BY Zenon DEF NotAcked
  <2>1. Lag(c, r[i].seq) <= Lag(c, q[j].ack)
    BY Zenon DEF Flight, NotAcked
  <2> QED BY <1>3, <1>4, <2>1
<1> QED BY Zenon, <1>5, <1>6, <1>7, <1>8 DEF Flight

\* The sender sends a packet that takes the next k numbers.
LEMMA FlightSend ==
    ASSUME NEW c \in Seqs, NEW a \in Seqs, NEW q \in Seq(Packets), NEW r \in Seq(Packets),
           NEW y \in Packets, y.seq = c, NEW k \in Nat, k = Numbers(y), 1 <= k,
           Lag(c, a) + k < SeqMod, Flight(c, a, q, r)
    PROVE  Flight(Plus(c, k), a, q, Append(r, y))
<1> DEFINE d == Plus(c, k)
           s == Append(r, y)
<1>1. /\ Flight(d, a, q, r) /\ Lag(d, a) = Lag(c, a) + k
      /\ SeqMod \in Nat /\ Lag(c, a) \in Nat /\ k < SeqMod /\ Len(r) \in Nat
  BY FlightMove, MysockAssumption, LagRange
<1>2. Lag(d, y.seq) = k
  BY Zenon, <1>1, LagSelf
<1>3. ASSUME NEW n \in Seqs, Lag(c, n) <= Lag(c, a)
      PROVE  Lag(d, n) = Lag(c, n) + k /\ Lag(c, n) \in Nat
  <2>1. Lag(c, n) \in Nat
    BY Zenon, LagRange
  <2>2. Lag(c, n) + k < SeqMod
    BY <1>1, <1>3, <2>1
  <2> QED BY Zenon, <2>1, <2>2, LagPlus
<1>4. \A i \in 1 .. Len(q) : q[i].kind \in AckKinds => k <= Lag(d, q[i].ack)
  BY <1>3, PacketFields DEF Flight, AcksRise
<1>5. \A i \in 1 .. Len(r) : r[i].kind \in NumberedKinds => k + Numbers(r[i]) <= Lag(d, r[i].seq)
  <2> SUFFICES ASSUME NEW i \in 1 .. Len(r), r[i].kind \in NumberedKinds
               PROVE  k + Numbers(r[i]) <= Lag(d, r[i].seq)
    BY Zenon
  <2>1. r[i].seq \in Seqs /\ Numbers(r[i]) \in Int
    BY PacketFields
  <2>2. Numbers(r[i]) <= Lag(c, r[i].seq) /\ Lag(c, r[i].seq) <= Lag(c, a)
    BY Zenon DEF Flight, NumbersRise
  <2>3. Lag(d, r[i].seq) = Lag(c, r[i].seq) + k /\ Lag(c, r[i].seq) \in Nat
    BY Zenon, <1>3, <2>1, <2>2
  <2> HIDE DEF d
  <2> QED BY <2>1, <2>2, <2>3
<1>6. ASSUME NEW i \in 1 .. Len(s)
      PROVE  i \in Int /\ ((i \in 1 .. Len(r) /\ s[i] = r[i]) \/ (i = Len(r) + 1 /\ s[i] = y))
  BY Zenon, More
<1> HIDE DEF d, s
<1>7. NumbersRise(d, a, s)
  <2> SUFFICES ASSUME NEW i \in 1 .. Len(s), s[i].kind \in NumberedKinds
               PROVE  /\ 1 <= Numbers(s[i]) /\ Numbers(s[i]) <= Lag(d, s[i].seq)
                      /\ Lag(d, s[i].seq) <= Lag(d, a)
                      /\ \A j \in 1 .. Len(s) : i < j /\ s[j].kind \in NumberedKinds =>
                            Lag(d, s[j].seq) + Numbers(s[i]) <= Lag(d, s[i].seq)
    BY Zenon DEF NumbersRise
  <2>1. CASE i \in 1 .. Len(r) /\ s[i] = r[i]
    <3>1. /\ 1 <= Numbers(s[i]) /\ Numbers(s[i]) <= Lag(d, s[i].seq)
          /\ Lag(d, s[i].seq) <= Lag(d, a)
      BY Zenon, <1>1, <2>1 DEF Flight, NumbersRise
    <3>2. ASSUME NEW j \in 1 .. Len(s), i < j, s[j].kind \in NumberedKinds
          PROVE  Lag(d, s[j].seq) + Numbers(s[i]) <= Lag(d, s[i].seq)
      <4>1. CASE j \in 1 .. Len(r) /\ s[j] = r[j]
        BY Zenon, <1>1, <2>1, <3>2, <4>1 DEF Flight, NumbersRise
      <4>2. CASE s[j] = y
        BY Zenon, <1>2, <1>5, <2>1, <4>2
      <4> QED BY Zenon, <1>6, <4>1, <4>2
    <3> QED BY Zenon, <3>1, <3>2
  <2>2. CASE i = Len(r) + 1 /\ s[i] = y
    <3>1. \A j \in 1 .. Len(s) : ~(i < j)
      BY <1>1, <1>6, <2>2
    <3>2. Lag(d, y.seq) <= Lag(d, a)
      BY <1>1, <1>2
    <3>3. 1 <= Numbers(s[i]) /\ Numbers(s[i]) <= Lag(d, s[i].seq)
      BY <1>2, <2>2
    <3> QED BY Zenon, <2>2, <3>1, <3>2, <3>3
  <2> QED BY Zenon, <1>6, <2>1, <2>2
<1>8. NotAcked(d, q, s)
  BY Zenon, <1>1, <1>2, <1>4, <1>6 DEF Flight, NotAcked
<1> QED BY Zenon, <1>1, <1>7, <1>8 DEF Flight, d, s

\* The peer takes the next packet and acknowledges numbers of it.
LEMMA FlightAnswer ==
    ASSUME NEW c \in Seqs, NEW a \in Seqs, NEW q \in Seq(Packets), NEW r \in Seq(Packets),
           r # <<>>, Head(r).kind \in NumberedKinds, NEW m \in Nat, m <= Numbers(Head(r)),
           NEW x \in Packets, x.ack = Plus(Head(r).seq, m), Flight(c, a, q, r)
    PROVE  Flight(c, a, Append(q, x), Tail(r))
<1> DEFINE t == Tail(r)
           s == Append(q, x)
           n == Head(r).seq
<1>1. /\ Head(r) = r[1] /\ 1 \in 1 .. Len(r) /\ Len(t) \in Nat /\ Len(q) \in Nat
      /\ \A i \in 1 .. Len(t) : i \in Int /\ i + 1 \in 1 .. Len(r) /\ 1 < i + 1 /\ t[i] = r[i + 1]
  BY Rest
<1>2. n \in Seqs /\ Numbers(r[1]) \in Int
  BY <1>1, PacketFields
<1>3. /\ Numbers(r[1]) <= Lag(c, n) /\ Lag(c, n) <= Lag(c, a)
      /\ \A j \in 1 .. Len(r) : 1 < j /\ r[j].kind \in NumberedKinds =>
            Lag(c, r[j].seq) + Numbers(r[1]) <= Lag(c, n)
      /\ \A j \in 1 .. Len(q) : q[j].kind \in AckKinds => Lag(c, n) <= Lag(c, q[j].ack)
  BY Zenon, <1>1 DEF Flight, NumbersRise, NotAcked
<1>4. Lag(c, n) \in Nat /\ Lag(c, a) \in Nat /\ \A i \in 1 .. Len(r) : Lag(c, r[i].seq) \in Nat
  <2>1. \A i \in 1 .. Len(r) : r[i].seq \in Seqs
    BY PacketFields
  <2> QED BY Zenon, <1>2, <2>1, LagRange
<1>5. \A i \in 1 .. Len(q) : Lag(c, q[i].ack) \in Nat
  <2>1. \A i \in 1 .. Len(q) : q[i].ack \in Seqs
    BY PacketFields
  <2> QED BY Zenon, <2>1, LagRange
<1>6. Lag(c, x.ack) = Lag(c, n) - m
  <2>1. m <= Lag(c, n)
    BY <1>1, <1>2, <1>3, <1>4
  <2> QED BY <1>2, <2>1, LagBack
<1>7. ASSUME NEW i \in 1 .. Len(s)
      PROVE  i \in Int /\ ((i \in 1 .. Len(q) /\ s[i] = q[i]) \/ (i = Len(q) + 1 /\ s[i] = x))
  BY Zenon, More
<1>8. Flight(c, a, q, t)
  BY Zenon, FlightLose
<1> HIDE DEF t, s, n
<1>9. AcksRise(c, a, s)
  <2> SUFFICES ASSUME NEW i \in 1 .. Len(s), s[i].kind \in AckKinds
               PROVE  /\ Lag(c, s[i].ack) <= Lag(c, a)
                      /\ \A j \in 1 .. Len(s) : i < j /\ s[j].kind \in AckKinds =>
                            Lag(c, s[j].ack) <= Lag(c, s[i].ack)
    BY Zenon DEF AcksRise
  <2>1. CASE i \in 1 .. Len(q) /\ s[i] = q[i]
    <3>1. Lag(c, s[i].ack) <= Lag(c, a)
      BY Zenon, <2>1 DEF Flight, AcksRise
    <3>2. ASSUME NEW j \in 1 .. Len(s), i < j, s[j].kind \in AckKinds
          PROVE  Lag(c, s[j].ack) <= Lag(c, s[i].ack)
      <4>1. CASE j \in 1 .. Len(q) /\ s[j] = q[j]
        BY Zenon, <2>1, <3>2, <4>1 DEF Flight, AcksRise
      <4>2. CASE s[j] = x
        BY <1>3, <1>4, <1>5, <1>6, <2>1, <4>2
      <4> QED BY Zenon, <1>7, <4>1, <4>2
    <3> QED BY Zenon, <3>1, <3>2
  <2>2. CASE i = Len(q) + 1 /\ s[i] = x
    <3>1. \A j \in 1 .. Len(s) : ~(i < j)
      BY <1>1, <1>7, <2>2
    <3>2. Lag(c, x.ack) <= Lag(c, a)
      BY <1>3, <1>4, <1>6
    <3> QED BY Zenon, <2>2, <3>1, <3>2
  <2> QED BY Zenon, <1>7, <2>1, <2>2
<1>10. NotAcked(c, s, t)
  <2> SUFFICES ASSUME NEW i \in 1 .. Len(t), NEW j \in 1 .. Len(s),
                      t[i].kind \in NumberedKinds, s[j].kind \in AckKinds
               PROVE  Lag(c, t[i].seq) <= Lag(c, s[j].ack)
    BY Zenon DEF NotAcked
  <2>1. CASE j \in 1 .. Len(q) /\ s[j] = q[j]
    BY Zenon, <1>8, <2>1 DEF Flight, NotAcked
  <2>2. CASE s[j] = x
    <3>1. t[i] = r[i + 1] /\ i + 1 \in 1 .. Len(r) /\ 1 < i + 1
      BY Zenon, <1>1
    <3>2. Lag(c, t[i].seq) + Numbers(r[1]) <= Lag(c, n) /\ Lag(c, t[i].seq) \in Nat
      BY Zenon, <1>3, <1>4, <3>1
    <3>3. m <= Numbers(r[1])
      BY Zenon, <1>1
    <3> QED BY <1>2, <1>4, <1>6, <2>2, <3>2, <3>3
  <2> QED BY Zenon, <1>7, <2>1, <2>2
<1> QED BY Zenon, <1>8, <1>9, <1>10 DEF Flight, t, s

-----------------------------------------------------------------------------
(* The packets on the way to an end.                                       *)

\* Two sequences with the same items are the same.
LEMMA SameItems ==
    ASSUME NEW s \in Seq(Packets), NEW t \in Seq(Packets), Len(s) = Len(t),
           \A i \in 1 .. Len(s) : s[i] = t[i]
    PROVE  s = t
<1>1. s = [i \in 1 .. Len(s) |-> s[i]] /\ t = [i \in 1 .. Len(t) |-> t[i]]
  OBVIOUS
<1> QED BY Zenon, <1>1

\* A packet sent is the last on its way.
LEMMA WayAppend ==
    ASSUME NEW q \in Seq(Packets), NEW w \in Seq(Packets), NEW x \in Packets
    PROVE  q \o Append(w, x) = Append(q \o w, x)
<1>1. q \o Append(w, x) \in Seq(Packets) /\ Append(q \o w, x) \in Seq(Packets)
  OBVIOUS
<1>2. Len(q \o Append(w, x)) = Len(Append(q \o w, x))
  OBVIOUS
<1>3. ASSUME NEW i \in 1 .. Len(q \o Append(w, x))
      PROVE  (q \o Append(w, x))[i] = Append(q \o w, x)[i]
  OBVIOUS
<1> QED BY Zenon, <1>1, <1>2, <1>3, SameItems

\* The packet taken is the first on its way.
LEMMA WayTail ==
    ASSUME NEW q \in Seq(Packets), NEW w \in Seq(Packets), q # <<>>
    PROVE  /\ q \o w # <<>> /\ Head(q \o w) = Head(q)
           /\ Tail(q) \o w = Tail(q \o w)
<1>0. /\ Tail(q) \in Seq(Packets) /\ q \o w \in Seq(Packets)
      /\ Len(q \o w) = Len(q) + Len(w) /\ Len(q) > 0
  OBVIOUS
<1>1. Tail(q) \o w \in Seq(Packets) /\ Tail(q \o w) \in Seq(Packets) /\ q \o w # <<>>
  BY <1>0
<1>2. Len(Tail(q) \o w) = Len(Tail(q \o w))
  BY <1>0
<1>3. ASSUME NEW i \in 1 .. Len(Tail(q) \o w)
      PROVE  (Tail(q) \o w)[i] = Tail(q \o w)[i]
  BY <1>0
<1>4. Head(q \o w) = Head(q)
  BY <1>0
<1> QED BY Zenon, <1>1, <1>2, <1>3, <1>4, SameItems

\* The receive thread moves a packet from the wire to the queue: it stays where it is on its way.
LEMMA WayMove ==
    ASSUME NEW q \in Seq(Packets), NEW w \in Seq(Packets), w # <<>>
    PROVE  Append(q, Head(w)) \o Tail(w) = q \o w
<1>0. /\ Tail(w) \in Seq(Packets) /\ Head(w) \in Packets
      /\ Append(q, Head(w)) \in Seq(Packets) /\ Len(w) > 0
      /\ Len(Append(q, Head(w))) = Len(q) + 1 /\ Len(Tail(w)) = Len(w) - 1
      /\ \A i \in 1 .. Len(q) : Append(q, Head(w))[i] = q[i]
      /\ Append(q, Head(w))[Len(q) + 1] = w[1]
      /\ \A i \in 1 .. Len(Tail(w)) : Tail(w)[i] = w[i + 1]
  OBVIOUS
<1>1. Append(q, Head(w)) \o Tail(w) \in Seq(Packets) /\ q \o w \in Seq(Packets)
  BY <1>0
<1>2. Len(Append(q, Head(w)) \o Tail(w)) = Len(q \o w)
  BY <1>0
<1>3. ASSUME NEW i \in 1 .. Len(Append(q, Head(w)) \o Tail(w))
      PROVE  (Append(q, Head(w)) \o Tail(w))[i] = (q \o w)[i]
  BY <1>0
<1> QED BY Zenon, <1>1, <1>2, <1>3, SameItems

\* Nothing on the wire.
LEMMA WayEmpty ==
    ASSUME NEW q \in Seq(Packets)
    PROVE  q \o <<>> = q
<1>1. /\ q \o <<>> \in Seq(Packets) /\ Len(q \o <<>>) = Len(q)
      /\ \A i \in 1 .. Len(q) : (q \o <<>>)[i] = q[i]
  OBVIOUS
<1> QED BY Zenon, <1>1, SameItems

\* v is u with x inserted behind the first n places.
Inserted(n, x, u, v) ==
    \A i \in 1 .. Len(v) : /\ i \in Int /\ n \in Nat
                           /\ i <= n => i \in 1 .. Len(u) /\ v[i] = u[i]
                           /\ i > n + 1 => i - 1 \in 1 .. Len(u) /\ v[i] = u[i - 1]
                           /\ i = n + 1 => v[i] = x

\* A packet is queued in front of what the receive thread has not read.
LEMMA WayInsert ==
    ASSUME NEW q \in Seq(Packets), NEW w \in Seq(Packets), NEW x \in Packets
    PROVE  Inserted(Len(q), x, q \o w, Append(q, x) \o w)
<1> SUFFICES ASSUME NEW i \in 1 .. Len(Append(q, x) \o w)
             PROVE  /\ i \in Int /\ Len(q) \in Nat
                    /\ i <= Len(q) =>
                         i \in 1 .. Len(q \o w) /\ (Append(q, x) \o w)[i] = (q \o w)[i]
                    /\ i > Len(q) + 1 =>
                         i - 1 \in 1 .. Len(q \o w) /\ (Append(q, x) \o w)[i] = (q \o w)[i - 1]
                    /\ i = Len(q) + 1 => (Append(q, x) \o w)[i] = x
  BY Zenon DEF Inserted
<1> QED OBVIOUS

LEMMA KindsInsert ==
    ASSUME NEW q \in Seq(Packets), NEW w \in Seq(Packets), NEW x \in Packets
    PROVE  Kinds(Append(q, x) \o w) \subseteq Kinds(q \o w) \cup {x.kind}
<1> DEFINE u == q \o w
           v == Append(q, x) \o w
<1>e. u = q \o w /\ v = Append(q, x) \o w
  OBVIOUS
<1>i. Inserted(Len(q), x, u, v)
  BY Zenon, WayInsert
<1> HIDE DEF u, v
<1>1. ASSUME NEW i \in 1 .. Len(v)
      PROVE  v[i] = x \/ \E k \in 1 .. Len(u) : v[i] = u[k]
  <2>1. /\ i \in Int /\ Len(q) \in Nat
        /\ i <= Len(q) => i \in 1 .. Len(u) /\ v[i] = u[i]
        /\ i > Len(q) + 1 => i - 1 \in 1 .. Len(u) /\ v[i] = u[i - 1]
        /\ i = Len(q) + 1 => v[i] = x
    BY Zenon, <1>i, <1>1 DEF Inserted
  <2>2. i <= Len(q) \/ i > Len(q) + 1 \/ i = Len(q) + 1
    BY <2>1
  <2> QED BY Zenon, <2>1, <2>2
<1>2. Kinds(v) \subseteq Kinds(u) \cup {x.kind}
  BY Zenon, <1>1 DEF Kinds
<1> QED BY Zenon, <1>e, <1>2

\* ... and what is in flight does not change, unless it is an acknowledgement.
LEMMA FlightInsert ==
    ASSUME NEW c \in Seqs, NEW a \in Seqs, NEW q \in Seq(Packets), NEW w \in Seq(Packets),
           NEW r \in Seq(Packets), NEW x \in Packets, x.kind \notin AckKinds,
           Flight(c, a, q \o w, r)
    PROVE  Flight(c, a, Append(q, x) \o w, r)
<1> DEFINE u == q \o w
           v == Append(q, x) \o w
           k(i) == IF i <= Len(q) THEN i ELSE i - 1
<1>e. u = q \o w /\ v = Append(q, x) \o w
  OBVIOUS
<1>i. Inserted(Len(q), x, u, v)
  BY Zenon, WayInsert
<1> HIDE DEF u, v
<1>1. ASSUME NEW i \in 1 .. Len(v), v[i].kind \in AckKinds
      PROVE  /\ k(i) \in 1 .. Len(u) /\ v[i] = u[k(i)]
             /\ i \in Int /\ Len(q) \in Nat /\ i # Len(q) + 1
  <2>1. /\ i \in Int /\ Len(q) \in Nat
        /\ i <= Len(q) => i \in 1 .. Len(u) /\ v[i] = u[i]
        /\ i > Len(q) + 1 => i - 1 \in 1 .. Len(u) /\ v[i] = u[i - 1]
        /\ i = Len(q) + 1 => v[i] = x
    BY Zenon, <1>i, <1>1 DEF Inserted
  <2>2. i # Len(q) + 1
    BY Zenon, <1>1, <2>1
  <2>3. i <= Len(q) \/ (i > Len(q) + 1 /\ ~(i <= Len(q)))
    BY <2>1, <2>2
  <2> QED BY Zenon, <2>1, <2>2, <2>3
<1>2. ASSUME NEW i \in 1 .. Len(v), v[i].kind \in AckKinds,
             NEW j \in 1 .. Len(v), v[j].kind \in AckKinds, i < j
      PROVE  k(i) < k(j)
  <2>1. i \in Int /\ j \in Int /\ Len(q) \in Nat /\ i # Len(q) + 1 /\ j # Len(q) + 1
    BY Zenon, <1>1, <1>2
  <2> QED BY <1>2, <2>1
<1> HIDE DEF k
<1>3. AcksRise(c, a, u) /\ NumbersRise(c, a, r) /\ NotAcked(c, u, r)
  BY Zenon, <1>e DEF Flight
<1>4. AcksRise(c, a, v)
  <2> SUFFICES ASSUME NEW i \in 1 .. Len(v), v[i].kind \in AckKinds
               PROVE  /\ Lag(c, v[i].ack) <= Lag(c, a)
                      /\ \A j \in 1 .. Len(v) : i < j /\ v[j].kind \in AckKinds =>
                            Lag(c, v[j].ack) <= Lag(c, v[i].ack)
    BY Zenon DEF AcksRise
  <2> QED BY Zenon, <1>1, <1>2, <1>3 DEF AcksRise
<1>5. NotAcked(c, v, r)
  BY Zenon, <1>1, <1>3 DEF NotAcked
<1> QED BY Zenon, <1>e, <1>3, <1>4, <1>5 DEF Flight

\* The kinds of the packets on the way when one is taken or sent.
LEMMA KindFacts ==
    ASSUME NEW q \in Seq(Packets)
    PROVE  /\ q # <<>> => Head(q).kind \in Kinds(q) /\ Kinds(Tail(q)) \subseteq Kinds(q)
           /\ \A x \in Packets : Kinds(Append(q, x)) = Kinds(q) \cup {x.kind}
           /\ Kinds(<<>>) = {}
<1>1. ASSUME q # <<>>
      PROVE  Head(q).kind \in Kinds(q) /\ Kinds(Tail(q)) \subseteq Kinds(q)
  BY <1>1, Rest DEF Kinds
<1>2. ASSUME NEW x \in Packets
      PROVE  Kinds(Append(q, x)) = Kinds(q) \cup {x.kind}
  <2>1. /\ Len(Append(q, x)) = Len(q) + 1 /\ Len(q) \in Nat
        /\ \A i \in 1 .. Len(q) : Append(q, x)[i] = q[i]
        /\ Append(q, x)[Len(q) + 1] = x
    OBVIOUS
  <2>2. 1 .. (Len(q) + 1) = (1 .. Len(q)) \cup {Len(q) + 1}
    BY <2>1
  <2> QED BY Zenon, <2>1, <2>2 DEF Kinds
<1>3. Kinds(<<>>) = {}
  BY DEF Kinds
<1> QED BY Zenon, <1>1, <1>2, <1>3

\* The two ends.
LEMMA Ends ==
    ASSUME NEW e \in End
    PROVE  /\ Peer(e) \in End /\ Peer(e) # e /\ Peer(Peer(e)) = e
           /\ \A f \in End : f = e \/ f = Peer(e)
BY Zenon DEF End, Peer

\* The types that the window is about.
LEMMA WindowTypes ==
    ASSUME TypeOK, NEW e \in End
    PROVE  /\ current_sequence_num[e] \in Seqs /\ ack_num[e] \in Seqs /\ 0 \in Seqs
           /\ Unacked(e) = Lag(current_sequence_num[e], ack_num[e]) /\ Unacked(e) \in Nat
           /\ payload[e].lo \in Nat /\ payload[e].hi \in Nat
           /\ current_sender_window[e] \in Int
           /\ network_recv_queue[e] \in Seq(Packets) /\ wire[e] \in Seq(Packets)
           /\ Way(e) \in Seq(Packets)
           /\ SENDER_WINDOW \in Nat /\ SeqMod \in Nat /\ STCP_MSS \in Nat \ {0}
<1>1. /\ current_sequence_num[e] \in Seqs /\ ack_num[e] \in Seqs /\ 0 \in Seqs
      /\ payload[e].lo \in Nat /\ payload[e].hi \in Nat
      /\ current_sender_window[e] \in Int
      /\ network_recv_queue[e] \in Seq(Packets) /\ wire[e] \in Seq(Packets)
  <2>1. 0 \in Seqs
    BY MysockAssumption DEF Seqs
  <2>2. payload[e] \in Runs
    BY Zenon DEF TypeOK
  <2> QED BY Zenon, <2>1, <2>2 DEF TypeOK, Runs
<1>2. Unacked(e) = Lag(current_sequence_num[e], ack_num[e]) /\ Unacked(e) \in Nat
  BY Zenon, <1>1, LagRange DEF Unacked, Lag
<1>3. Way(e) \in Seq(Packets)
  BY <1>1 DEF Way
<1> QED BY Zenon, <1>1, <1>2, <1>3, MysockAssumption

\* A step of e leaves the context of its peer alone.
Still(p) ==
    /\ app'[p] = app[p] /\ thread'[p] = thread[p] /\ event'[p] = event[p]
    /\ payload'[p] = payload[p] /\ current_sender_window'[p] = current_sender_window[p]
    /\ close_requested'[p] = close_requested[p] /\ connection_state'[p] = connection_state[p]
    /\ current_sequence_num'[p] = current_sequence_num[p] /\ ack_num'[p] = ack_num[p]
    /\ fin_ack_sequence_num'[p] = fin_ack_sequence_num[p]

\* No step of one end assigns to the context of the other.
LEMMA PeerStill ==
    ASSUME TypeOK, NEW e \in End, Environment(e) \/ TransportThread1(e)
    PROVE  Still(Peer(e))
<1>p. PICK p \in End : p = Peer(e) /\ p # e
  BY Zenon, Ends
<1> USE DEF Still, TypeOK, appVars, queueVars, netVars, loopVars, ctxVars, histVars
<1>1. CASE Environment(e)
  BY Zenon, <1>p, <1>1 DEF Environment, mywrite, myread, myclose, myclose_return, Crash,
     RecvThread, RecvPacket, RecvEof, RecvReset, Abort
<1>2. CASE transport_init1(e)
  BY Zenon, <1>p, <1>2 DEF transport_init1, Handshake, SendSyn, RecvSynAck, RecvSyn, RecvHandshakeAck
<1>3. CASE control_loop1(e)
  <2>1. CASE NetworkData(e)
    BY Zenon, <1>p, <2>1 DEF NetworkData, RecvACK, RecvFIN, RecvDATA, RecvError, Abort, Handled
  <2>2. CASE stcp_wait_for_event(e) /\ current_sender_window' = [current_sender_window EXCEPT
                                      ![e] = SenderWindow(e)]
    BY Zenon, <1>p, <2>2 DEF stcp_wait_for_event
  <2>3. CASE SendSegment(e) \/ SendFails(e) \/ CloseRequested(e) \/ TransportReturn(e)
    BY Zenon, <1>p, <2>3 DEF SendSegment, SendFails, CloseRequested, TransportReturn, Handled
  <2>4. CASE AppRecv(e) \/ Skip(e, "APP_DATA")
    BY Zenon, <1>p, <2>4 DEF AppRecv, Skip, Handled
  <2> QED BY Zenon, <1>3, <2>1, <2>2, <2>3, <2>4 DEF control_loop1
<1> QED BY Zenon, <1>1, <1>2, <1>3 DEF TransportThread1

-----------------------------------------------------------------------------
(* The window and the close of the end that takes a step.                  *)

\* The sender goes on by k: what is in flight grows by k.
LEMMA UnackedMore ==
    ASSUME TypeOK, NEW e \in End, NEW k \in Nat, Unacked(e) + k < SeqMod,
           current_sequence_num'[e] = Plus(current_sequence_num[e], k), ack_num' = ack_num
    PROVE  Unacked(e)' = Unacked(e) + k
<1>1. /\ current_sequence_num[e] \in Seqs /\ ack_num[e] \in Seqs
      /\ Unacked(e) = Lag(current_sequence_num[e], ack_num[e])
  BY Zenon, WindowTypes
<1>2. Unacked(e)' = Lag(Plus(current_sequence_num[e], k), ack_num[e])
  BY Zenon DEF Unacked, Lag
<1> QED BY ZenonT(30), <1>1, <1>2, LagPlus

\* What a step of e does to the window of e.
LEMMA WindowStep ==
    ASSUME StreamInv, NEW e \in End, WindowAt(e), Environment(e) \/ TransportThread1(e)
    PROVE  InWindow(e)'
<1>t. /\ Unacked(e) \in Nat /\ payload[e].lo \in Nat /\ payload[e].hi \in Nat
      /\ current_sender_window[e] \in Int /\ TypeOK /\ InWindow(e)
      /\ current_sequence_num[e] \in Seqs /\ ack_num[e] \in Seqs
      /\ SENDER_WINDOW \in Nat /\ SeqMod \in Nat /\ STCP_MSS \in Nat \ {0}
      /\ SENDER_WINDOW + 1 < SeqMod
  BY Zenon, WindowTypes, WindowAssumption DEF StreamInv, WindowAt
<1>l. /\ payload[e].lo < payload[e].hi => ~FinSent(e)
      /\ "APP_CLOSE_REQUESTED" \in event[e] => payload[e].lo = payload[e].hi
  BY <1>t DEF StreamInv, StreamAt, ClosesLast, Flushed
<1> DEFINE Kept == /\ UNCHANGED <<current_sequence_num, ack_num, payload>>
                   /\ connection_state'[e] = connection_state[e]
                   /\ Gone(e) => Gone(e)'
<1>k. ASSUME Kept, event'[e] \subseteq event[e], current_sender_window' = current_sender_window,
             thread'[e] = thread[e] \/ thread'[e] \notin {"start", "await"}
      PROVE  InWindow(e)'
  <2>1. Unacked(e)' = Unacked(e) /\ (FinSent(e)' <=> FinSent(e))
    BY Zenon, <1>k DEF Unacked, FinSent
  <2> QED BY Zenon, <1>t, <1>k, <2>1 DEF InWindow
<1>1. CASE Environment(e)
  <2>1. /\ Kept /\ event' = event /\ current_sender_window' = current_sender_window
        /\ thread' = thread
    BY Zenon, <1>1, <1>t DEF TypeOK, Environment, mywrite, myread, myclose, myclose_return, Crash,
       RecvThread, RecvPacket, RecvEof, RecvReset, Abort, Gone, appVars, loopVars, ctxVars
  <2> QED BY Zenon, <1>k, <2>1
<1>2. CASE SendSyn(e)
  <2>1. /\ current_sequence_num'[e] = Plus(current_sequence_num[e], 1)
        /\ UNCHANGED <<ack_num, payload, event, current_sender_window, connection_state, app>>
        /\ thread[e] = "start" /\ thread'[e] = "await"
    BY Zenon, <1>2, <1>t DEF TypeOK, SendSyn, appVars
  <2>2. payload[e].lo = payload[e].hi /\ Unacked(e) + 2 < SENDER_WINDOW
    BY Zenon, <1>t, <2>1 DEF InWindow
  <2>3. Unacked(e)' = Unacked(e) + 1
    <3>1. Unacked(e) + 1 < SeqMod /\ 1 \in Nat
      BY <1>t, <2>2
    <3> QED BY Zenon, <1>t, <2>1, <3>1, UnackedMore
  <2>4. event[e] = {}
    BY Zenon, <1>2, <2>1 DEF StreamInv, StreamAt, EventsBacked, SendSyn
  <2> QED BY <1>t, <2>1, <2>2, <2>3, <2>4 DEF InWindow
<1>3. CASE RecvSynAck(e)
  <2>1. /\ current_sequence_num'[e] = Plus(current_sequence_num[e], 1)
        /\ UNCHANGED <<ack_num, payload, event, current_sender_window>>
        /\ thread[e] = "await" /\ thread'[e] = "loop" /\ ~Gone(e)
    BY Zenon, <1>3, <1>t DEF TypeOK, RecvSynAck
  <2>2. payload[e].lo = payload[e].hi /\ Unacked(e) + 1 < SENDER_WINDOW
    BY Zenon, <1>t, <2>1 DEF InWindow
  <2>3. Unacked(e)' = Unacked(e) + 1
    <3>1. Unacked(e) + 1 < SeqMod /\ 1 \in Nat
      BY <1>t, <2>2
    <3> QED BY Zenon, <1>t, <2>1, <3>1, UnackedMore
  <2>4. event[e] = {}
    BY Zenon, <2>1 DEF StreamInv, StreamAt, EventsBacked
  <2> QED BY <1>t, <2>1, <2>2, <2>3, <2>4 DEF InWindow
<1>4. CASE RecvSyn(e)
  <2>1. /\ current_sequence_num'[e] = Plus(current_sequence_num[e], 1)
        /\ UNCHANGED <<ack_num, payload, event, current_sender_window>>
        /\ thread[e] = "start" /\ thread'[e] = "await" /\ ~Gone(e)
    BY Zenon, <1>4, <1>t DEF TypeOK, RecvSyn
  <2>2. payload[e].lo = payload[e].hi /\ Unacked(e) + 2 < SENDER_WINDOW
    BY Zenon, <1>t, <2>1 DEF InWindow
  <2>3. Unacked(e)' = Unacked(e) + 1
    <3>1. Unacked(e) + 1 < SeqMod /\ 1 \in Nat
      BY <1>t, <2>2
    <3> QED BY Zenon, <1>t, <2>1, <3>1, UnackedMore
  <2>4. event[e] = {}
    BY Zenon, <2>1 DEF StreamInv, StreamAt, EventsBacked
  <2> QED BY <1>t, <2>1, <2>2, <2>3, <2>4 DEF InWindow
<1>5. CASE RecvHandshakeAck(e)
  <2>1. /\ UNCHANGED <<current_sequence_num, ack_num, payload, event, current_sender_window>>
        /\ thread[e] = "await" /\ thread'[e] = "loop" /\ ~Gone(e)
    BY Zenon, <1>5, <1>t DEF TypeOK, RecvHandshakeAck
  <2>2. payload[e].lo = payload[e].hi /\ Unacked(e) + 1 < SENDER_WINDOW
    BY Zenon, <1>t, <2>1 DEF InWindow
  <2>3. Unacked(e)' = Unacked(e)
    BY Zenon, <2>1 DEF Unacked
  <2>4. event[e] = {}
    BY Zenon, <2>1 DEF StreamInv, StreamAt, EventsBacked
  <2> QED BY <1>t, <2>1, <2>2, <2>3, <2>4 DEF InWindow
<1>6. CASE /\ stcp_wait_for_event(e)
           /\ current_sender_window' = [current_sender_window EXCEPT ![e] = SenderWindow(e)]
  <2>1. /\ UNCHANGED <<current_sequence_num, ack_num, payload, thread, connection_state, app>>
        /\ payload[e].lo = payload[e].hi
        /\ current_sender_window'[e] = SENDER_WINDOW - Unacked(e)
    BY Zenon, <1>6, <1>t DEF TypeOK, stcp_wait_for_event, InLoop, SenderWindow, appVars, ctxVars
  <2>2. Unacked(e)' = Unacked(e) /\ (FinSent(e)' <=> FinSent(e))
    BY Zenon, <2>1 DEF Unacked, FinSent
  <2> QED BY <1>t, <2>1, <2>2 DEF InWindow
<1>7. CASE SendSegment(e)
  <2> DEFINE rest == payload[e].hi - payload[e].lo
  <2>1. PICK size \in Nat : size = IF rest > STCP_MSS THEN STCP_MSS ELSE rest
    BY <1>7, <1>t DEF SendSegment
  <2>a. payload[e].lo < payload[e].hi /\ rest \in Int
    BY <1>7, <1>t DEF SendSegment
  <2>b. 1 <= size /\ size <= rest
    BY <1>t, <2>1, <2>a
  <2>2. /\ 1 <= size /\ size <= rest /\ payload[e].lo < payload[e].hi /\ thread[e] = "loop"
        /\ current_sequence_num'[e] = Plus(current_sequence_num[e], size)
        /\ payload'[e] = Run(payload[e].lo + size, payload[e].hi)
        /\ UNCHANGED <<ack_num, event, current_sender_window, thread, connection_state, app>>
    <3>1. current_sequence_num'[e] = Plus(current_sequence_num[e], size)
      BY Zenon, <1>7, <1>t, <2>1 DEF TypeOK, SendSegment
    <3>2. payload'[e] = Run(payload[e].lo + size, payload[e].hi)
      BY Zenon, <1>7, <1>t, <2>1 DEF TypeOK, SendSegment
    <3> QED BY Zenon, <1>7, <2>a, <2>b, <3>1, <3>2 DEF SendSegment, appVars
  <2>3. payload'[e].lo = payload[e].lo + size /\ payload'[e].hi = payload[e].hi
    BY <2>2 DEF Run
  <2>4. Unacked(e) + rest <= SENDER_WINDOW /\ ~FinSent(e)
    BY <1>t, <1>l, <2>2 DEF InWindow
  <2>5. Unacked(e)' = Unacked(e) + size
    <3>1. Unacked(e) + size < SeqMod
      BY <1>t, <2>2, <2>4
    <3> QED BY Zenon, <1>t, <2>2, <3>1, UnackedMore
  <2>6. Gone(e) \/ "APP_DATA" \notin event[e]
    BY <1>t, <2>2 DEF InWindow
  <2>7. (FinSent(e)' <=> FinSent(e)) /\ (Gone(e)' <=> Gone(e))
    BY Zenon, <2>2 DEF FinSent, Gone
  <2>8. Unacked(e)' + (payload'[e].hi - payload'[e].lo) <= SENDER_WINDOW
    BY <1>t, <2>2, <2>3, <2>4, <2>5
  <2> QED BY <1>t, <2>2, <2>4, <2>6, <2>7, <2>8 DEF InWindow
<1>8. CASE AppRecv(e) /\ InLoop(e) /\ "APP_DATA" \in event[e] /\ current_sender_window[e] > 0
  <2> DEFINE len == DequeueLen(app_recv_queue[e], current_sender_window[e])
             from == app_recv_queue[e][1].lo
  <2>0. app_recv_queue[e] # <<>> /\ app_recv_queue[e] \in Seq(Runs) /\ app_recv_queue[e][1] \in Runs
    <3>1. app_recv_queue[e] # <<>> /\ app_recv_queue[e] \in Seq(Runs)
      BY Zenon, <1>8, <1>t DEF StreamInv, StreamAt, EventsBacked, InLoop, TypeOK
    <3> QED BY <3>1
  <2>1. from \in Nat /\ len \in Int /\ len <= current_sender_window[e]
    BY <1>8, <1>t, <2>0 DEF DequeueLen, Runs
  <2>2. /\ payload'[e] = Run(from, from + len) /\ event'[e] = event[e] \ {"APP_DATA"}
        /\ UNCHANGED <<current_sequence_num, ack_num, current_sender_window, thread,
                       connection_state, app>>
        /\ thread[e] = "loop"
    BY Zenon, <1>8, <1>t DEF TypeOK, AppRecv, Handled, InLoop, appVars, ctxVars
  <2> HIDE DEF len, from
  <2>3. payload'[e].lo = from /\ payload'[e].hi = from + len
    BY <2>2 DEF Run
  <2>4. Unacked(e)' = Unacked(e) /\ (FinSent(e)' <=> FinSent(e))
    BY Zenon, <2>2 DEF Unacked, FinSent
  <2>5. Unacked(e) + current_sender_window[e] <= SENDER_WINDOW
    BY Zenon, <1>8, <1>t DEF InWindow, InLoop
  <2>6. Unacked(e) + (payload'[e].hi - payload'[e].lo) <= SENDER_WINDOW
    BY <1>t, <2>1, <2>3, <2>5
  <2>7. Unacked(e)' + (payload'[e].hi - payload'[e].lo) <= SENDER_WINDOW
    BY Zenon, <2>4, <2>6
  <2>8. "APP_DATA" \notin event'[e] /\ thread'[e] = "loop"
    BY Zenon, <2>2
  <2>9. PICK u \in Int : u = Unacked(e)' + (payload'[e].hi - payload'[e].lo)
    BY <1>t, <2>1, <2>3, <2>4
  <2>10. u <= SENDER_WINDOW + (IF FinSent(e)' THEN 1 ELSE 0)
    BY <1>t, <2>7, <2>9
  <2> QED BY Zenon, <2>8, <2>9, <2>10 DEF InWindow
<1>9. CASE Skip(e, "APP_DATA") \/ SendFails(e) \/ TransportReturn(e) \/ RecvError(e)
  <2>1. /\ Kept /\ event'[e] \subseteq event[e] /\ current_sender_window' = current_sender_window
        /\ thread'[e] = thread[e] \/ thread'[e] \in {"spins", "exited"}
    BY ZenonT(30), <1>9, <1>t DEF TypeOK, Skip, Handled, SendFails, TransportReturn, RecvError, Abort, Gone,
       appVars, loopVars, ctxVars
  <2> QED BY Zenon, <1>k, <2>1
<1>10. CASE RecvDATA(e)
  <2>1. /\ Kept /\ event'[e] \subseteq event[e] /\ current_sender_window' = current_sender_window
        /\ thread'[e] = thread[e]
    BY Zenon, <1>10, <1>t DEF TypeOK, RecvDATA, Handled, Gone, appVars, ctxVars
  <2> QED BY Zenon, <1>k, <2>1
<1>11. CASE RecvFIN(e)
  <2>1. /\ UNCHANGED <<current_sequence_num, ack_num, payload, current_sender_window, thread, app>>
        /\ event'[e] \subseteq event[e]
        /\ FinSent(e)' <=> FinSent(e)
    BY Zenon, <1>11, <1>t DEF TypeOK, RecvFIN, Handled, FinSent, appVars
  <2>2. Unacked(e)' = Unacked(e)
    BY Zenon, <2>1 DEF Unacked
  <2> QED BY Zenon, <1>t, <2>1, <2>2 DEF InWindow, Gone
<1>12. CASE RecvACK(e) /\ InLoop(e) /\ "NETWORK_DATA" \in event[e]
  <2>1. /\ UNCHANGED <<current_sequence_num, payload, current_sender_window, thread, app>>
        /\ event'[e] \subseteq event[e] /\ (FinSent(e)' <=> FinSent(e))
        /\ ack_num'[e] = Head(network_recv_queue[e]).ack
        /\ Head(network_recv_queue[e]).kind \in AckKinds /\ ~Gone(e)
    BY Zenon, <1>12, <1>t DEF TypeOK, RecvACK, Handled, FinSent, appVars, AckKinds, InLoop
  <2>2. network_recv_queue[e] # <<>>
    BY Zenon, <1>12, <2>1 DEF StreamInv, StreamAt, EventsBacked
  <2>3. /\ Way(e) # <<>> /\ Head(Way(e)) = Head(network_recv_queue[e])
        /\ Way(e) \in Seq(Packets) /\ Way(Peer(e)) \in Seq(Packets)
    BY Zenon, <1>t, <2>2, WindowTypes, WayTail, Ends DEF Way
  <2>4. Lag(current_sequence_num[e], Head(Way(e)).ack) <= Lag(current_sequence_num[e], ack_num[e])
    BY Zenon, <1>t, <2>1, <2>3, FlightTake DEF WindowAt, FlightAt
  <2>5. Unacked(e)' <= Unacked(e) /\ Unacked(e)' \in Nat
    <3>1. Unacked(e)' = Lag(current_sequence_num[e], Head(Way(e)).ack)
      BY Zenon, <2>1, <2>3 DEF Unacked, Lag
    <3>2. Head(Way(e)).ack \in Seqs
      BY Zenon, <2>3, Rest, PacketFields
    <3> QED BY Zenon, <1>t, <2>4, <3>1, <3>2, LagRange, WindowTypes
  <2> QED BY <1>t, <2>1, <2>5 DEF InWindow, Gone
<1>13. CASE CloseRequested(e) /\ InLoop(e) /\ event[e] = {"APP_CLOSE_REQUESTED"}
  <2>1. /\ current_sequence_num'[e] = Plus(current_sequence_num[e], 1)
        /\ UNCHANGED <<ack_num, payload, current_sender_window, thread, app>>
        /\ event'[e] = {} /\ FinSent(e)' /\ thread[e] = "loop" /\ ~Gone(e)
    BY ZenonT(30), <1>13, <1>t DEF TypeOK, CloseRequested, Handled, FinSent, appVars, InLoop
  <2>2. ~FinSent(e) /\ payload[e].lo = payload[e].hi
    BY Zenon, <1>13, <1>l, <2>1 DEF WindowAt, ClosesOnce
  <2>3. Unacked(e) <= SENDER_WINDOW
    BY <1>t, <2>2 DEF InWindow
  <2>4. Unacked(e)' = Unacked(e) + 1
    <3>1. Unacked(e) + 1 < SeqMod /\ 1 \in Nat
      BY <1>t, <2>3
    <3> QED BY Zenon, <1>t, <2>1, <3>1, UnackedMore
  <2> QED BY <1>t, <2>1, <2>2, <2>3, <2>4 DEF InWindow
<1> QED
  BY Zenon, <1>1, <1>2, <1>3, <1>4, <1>5, <1>6, <1>7, <1>8, <1>9, <1>10, <1>11, <1>12, <1>13
     DEF TransportThread1, transport_init1, Handshake, control_loop1, NetworkData

\* What a step of e does to its close.
LEMMA ClosesOnceStep ==
    ASSUME StreamInv, NEW e \in End, WindowAt(e), Environment(e) \/ TransportThread1(e)
    PROVE  ClosesOnce(e)'
<1>t. TypeOK /\ ClosesOnce(e)
  BY Zenon DEF StreamInv, WindowAt
<1>k. ASSUME close_requested' = close_requested, event'[e] \subseteq event[e],
             FinSent(e)' => FinSent(e), Gone(e) => Gone(e)'
      PROVE  ClosesOnce(e)'
  BY Zenon, <1>t, <1>k DEF ClosesOnce
<1>1. CASE myclose(e)
  <2>1. /\ app[e] = "open" /\ UNCHANGED <<event, connection_state>>
    BY Zenon, <1>1 DEF myclose, loopVars, ctxVars
  <2>2. ~FinSent(e) /\ "APP_CLOSE_REQUESTED" \notin event[e]
    BY Zenon, <2>1 DEF StreamInv, StreamAt, ClosesLast, Flushed
  <2> QED BY Zenon, <2>1, <2>2 DEF ClosesOnce, FinSent
<1>2. CASE \/ \E n \in WriteSizes : mywrite(e, n)
           \/ \E n \in ReadSizes : myread(e, n)
           \/ myclose_return(e) \/ Crash(e) \/ RecvThread(e)
  <2>1. UNCHANGED <<close_requested, event, connection_state>> /\ (Gone(e) => Gone(e)')
    BY Zenon, <1>2, <1>t DEF TypeOK, mywrite, myread, myclose_return, Crash, RecvThread, RecvPacket,
       RecvEof, RecvReset, Abort, Gone, appVars, loopVars, ctxVars
  <2> QED BY Zenon, <1>k, <2>1 DEF FinSent
<1>3. CASE SendSyn(e) \/ RecvSynAck(e) \/ RecvSyn(e) \/ RecvHandshakeAck(e)
  <2>1. /\ UNCHANGED <<close_requested, event>> /\ ~Gone(e) /\ (FinSent(e)' => FinSent(e))
    BY ZenonT(30), <1>3, <1>t DEF TypeOK, SendSyn, RecvSynAck, RecvSyn, RecvHandshakeAck, FinSent
  <2> QED BY Zenon, <1>k, <2>1
<1>4. CASE /\ stcp_wait_for_event(e)
           /\ current_sender_window' = [current_sender_window EXCEPT ![e] = SenderWindow(e)]
  <2>1. /\ UNCHANGED <<connection_state, app>> /\ event'[e] = DueEvents(e)
        /\ close_requested'[e] = (close_requested[e] /\ "APP_CLOSE_REQUESTED" \notin DueEvents(e))
        /\ ~Gone(e)
    BY Zenon, <1>4, <1>t DEF TypeOK, stcp_wait_for_event, InLoop, appVars, ctxVars
  <2>2. "APP_CLOSE_REQUESTED" \in DueEvents(e) => close_requested[e]
    BY Zenon DEF DueEvents
  <2>3. FinSent(e)' <=> FinSent(e)
    BY Zenon, <2>1 DEF FinSent
  <2> QED BY Zenon, <1>t, <2>1, <2>2, <2>3 DEF ClosesOnce
<1>5. CASE \/ SendSegment(e) \/ SendFails(e) \/ TransportReturn(e) \/ AppRecv(e)
           \/ Skip(e, "APP_DATA") \/ NetworkData(e)
  <2>1. /\ close_requested' = close_requested /\ event'[e] \subseteq event[e]
        /\ FinSent(e)' => FinSent(e)
    <3>1. CASE SendSegment(e) \/ SendFails(e) \/ TransportReturn(e)
      BY ZenonT(30), <3>1, <1>t DEF TypeOK, SendSegment, SendFails, TransportReturn, FinSent, loopVars,
         ctxVars
    <3>2. CASE AppRecv(e) \/ Skip(e, "APP_DATA")
      BY ZenonT(30), <3>2, <1>t DEF TypeOK, AppRecv, Skip, Handled, FinSent, loopVars, ctxVars
    <3>3. CASE NetworkData(e)
      <4>1. /\ close_requested' = close_requested
            /\ event' = event \/ event' = [event EXCEPT ![e] = @ \ {"NETWORK_DATA"}]
        BY ZenonT(30), <3>3 DEF NetworkData, RecvACK, RecvFIN, RecvDATA, RecvError, Abort, Handled,
           loopVars, ctxVars
      <4>2. FinSent(e)' => FinSent(e)
        BY ZenonT(30), <3>3, <1>t DEF TypeOK, NetworkData, RecvACK, RecvFIN, RecvDATA, RecvError, Abort, FinSent,
           loopVars, ctxVars
      <4> QED BY Zenon, <1>t, <4>1, <4>2 DEF TypeOK
    <3> QED BY Zenon, <1>5, <3>1, <3>2, <3>3
  <2>2. Gone(e) => Gone(e)'
    BY Zenon, <1>5, <1>t DEF TypeOK, SendSegment, SendFails, TransportReturn, AppRecv, Skip, NetworkData,
       RecvACK, RecvFIN, RecvDATA, RecvError, Abort, Gone, appVars
  <2> QED BY Zenon, <1>k, <2>1, <2>2
<1>6. CASE CloseRequested(e) /\ InLoop(e) /\ event[e] = {"APP_CLOSE_REQUESTED"}
  <2>1. close_requested' = close_requested /\ event'[e] = {} /\ ~Gone(e)
    BY Zenon, <1>6, <1>t DEF TypeOK, CloseRequested, Handled, InLoop
  <2>2. ~close_requested[e]
    BY Zenon, <1>6, <1>t, <2>1 DEF ClosesOnce
  <2> QED BY Zenon, <2>1, <2>2 DEF ClosesOnce
<1>7. CASE transport_init1(e) \/ Environment(e)
  BY Zenon, <1>1, <1>2, <1>3, <1>7 DEF Environment, transport_init1, Handshake
<1>8. CASE control_loop1(e)
  BY Zenon, <1>4, <1>5, <1>6, <1>8 DEF control_loop1
<1> QED
  BY Zenon, <1>7, <1>8 DEF TransportThread1

-----------------------------------------------------------------------------
(* What a step does to the packets on the way.                             *)

\* Neither queue of f changes.
LEMMA WayKept ==
    ASSUME NEW f \in End, network_recv_queue'[f] = network_recv_queue[f], wire'[f] = wire[f]
    PROVE  Way(f)' = Way(f)
BY Zenon DEF Way

\* Sending.
LEMMA WaySent ==
    ASSUME TypeOK, NEW e \in End, NEW p \in End, p = Peer(e), p # e, NEW x \in Packets,
           Send(e, x), network_recv_queue'[p] = network_recv_queue[p]
    PROVE  /\ Way(p)' = IF Gone(p) THEN Way(p) ELSE Append(Way(p), x)
           /\ wire'[e] = wire[e]
<1>1. /\ wire'[p] = IF Gone(p) THEN wire[p] ELSE Append(wire[p], x)
      /\ wire'[e] = wire[e]
  BY Zenon DEF Send, TypeOK
<1>2. network_recv_queue[p] \in Seq(Packets) /\ wire[p] \in Seq(Packets)
  BY Zenon, WindowTypes
<1>3. Way(p)' = network_recv_queue[p] \o wire'[p]
  BY Zenon DEF Way
<1>4. CASE Gone(p)
  BY Zenon, <1>1, <1>3, <1>4 DEF Way
<1>5. CASE ~Gone(p)
  <2>1. Way(p)' = Append(network_recv_queue[p] \o wire[p], x)
    <3>1. wire'[p] = Append(wire[p], x)
      BY Zenon, <1>1, <1>5
    <3> QED BY ZenonT(30), <1>2, <1>3, <3>1, WayAppend
  <2> QED BY Zenon, <2>1, <1>1, <1>5 DEF Way
<1> QED BY Zenon, <1>4, <1>5

\* Taking the first packet.
LEMMA WayTaken ==
    ASSUME TypeOK, NEW e \in End, network_recv_queue[e] # <<>>,
           network_recv_queue'[e] = Tail(network_recv_queue[e]), wire'[e] = wire[e]
    PROVE  /\ Way(e)' = Tail(Way(e)) /\ Way(e) # <<>>
           /\ Head(Way(e)) = Head(network_recv_queue[e])
           /\ Head(network_recv_queue[e]) \in Packets
<1>1. network_recv_queue[e] \in Seq(Packets) /\ wire[e] \in Seq(Packets)
  BY Zenon, WindowTypes
<1>2. Way(e)' = Tail(network_recv_queue[e]) \o wire[e]
  BY Zenon DEF Way
<1> QED BY Zenon, <1>1, <1>2, WayTail, Rest DEF Way

\* The packets.
PacketKinds == {"SYN", "SYNACK", "ACK", "DATA", "FIN", "ERR"}

LEMMA PacketKindFacts ==
    /\ "SYN" \in PacketKinds /\ "SYNACK" \in PacketKinds /\ "ACK" \in PacketKinds
    /\ "FIN" \in PacketKinds /\ "ERR" \in PacketKinds
BY Zenon DEF PacketKinds

LEMMA PacketMade ==
    ASSUME TypeOK, NEW e \in End, NEW k \in PacketKinds,
           NEW s \in Seqs, NEW a \in Seqs, NEW lo \in Nat, NEW hi \in Nat
    PROVE  /\ Packet(k, s, a, Run(lo, hi)) \in Packets
           /\ Packet(k, s, a, Run(lo, hi)).kind = k /\ Packet(k, s, a, Run(lo, hi)).seq = s
           /\ Packet(k, s, a, Run(lo, hi)).ack = a
           /\ Packet(k, s, a, Run(lo, hi)).lo = lo /\ Packet(k, s, a, Run(lo, hi)).hi = hi
BY Zenon DEF Packet, Run, Packets, PacketKinds

\* A packet without bytes.
LEMMA HereMade ==
    ASSUME TypeOK, NEW e \in End, NEW k \in PacketKinds, NEW s \in Seqs, NEW a \in Seqs
    PROVE  /\ Packet(k, s, a, Here(e)) \in Packets
           /\ Packet(k, s, a, Here(e)).kind = k /\ Packet(k, s, a, Here(e)).seq = s
           /\ Packet(k, s, a, Here(e)).ack = a
<1>1. payload[e].lo \in Nat
  BY Zenon, WindowTypes
<1> QED BY Zenon, <1>1 DEF Packet, Here, Run, Packets, PacketKinds

-----------------------------------------------------------------------------
(* What a step does to the packets on the way of both ends.                *)

\* Steps that leave the packets on the way and the numbers of both ends alone.
LEMMA WaysKept ==
    ASSUME NEW e \in End, NEW p \in End, p = Peer(e), Peer(p) = e, Still(p),
           WindowAt(e), WindowAt(p), Way(e)' = Way(e), Way(p)' = Way(p),
           current_sequence_num'[e] = current_sequence_num[e], ack_num'[e] = ack_num[e],
           (thread'[e] = "start") <=> (thread[e] = "start"),
           (thread'[e] = "await") <=> (thread[e] = "await"),
           Gone(e) => Gone(e)'
    PROVE  /\ HandshakeFirst(e)' /\ FlightAt(e)'
           /\ HandshakeFirst(p)' /\ FlightAt(p)'
<1>1. /\ Gone(p)' <=> Gone(p)
      /\ thread'[p] = thread[p]
      /\ current_sequence_num'[p] = current_sequence_num[p] /\ ack_num'[p] = ack_num[p]
  BY Zenon DEF Still, Gone
<1>2. HandshakeFirst(e)' /\ HandshakeFirst(p)'
  <2>1. HandshakeFirst(e)'
    BY Zenon, <1>1 DEF WindowAt, HandshakeFirst
  <2>2. HandshakeFirst(p)'
    BY Zenon, <1>1 DEF WindowAt, HandshakeFirst
  <2> QED BY Zenon, <2>1, <2>2
<1>3. FlightAt(e)' /\ FlightAt(p)'
  BY Zenon, <1>1 DEF WindowAt, FlightAt
<1> QED BY Zenon, <1>2, <1>3

\* The queues of a process that has gone are freed.
LEMMA WaysFreed ==
    ASSUME TypeOK, NEW e \in End, NEW p \in End, p = Peer(e), Peer(p) = e, p # e, Still(p),
           WindowAt(e), WindowAt(p), myclose_return(e)
    PROVE  /\ HandshakeFirst(e)' /\ FlightAt(e)'
           /\ HandshakeFirst(p)' /\ FlightAt(p)'
<1>1. /\ Gone(p)' <=> Gone(p)
      /\ UNCHANGED <<thread, current_sequence_num, ack_num>>
      /\ Gone(e)' /\ ~Gone(e)
  BY Zenon DEF Still, Gone, myclose_return, TypeOK, loopVars, ctxVars
<1>2. Way(e)' = <<>> /\ Way(p)' = Way(p)
  <2>1. /\ network_recv_queue'[e] = <<>> /\ wire'[e] = <<>>
        /\ network_recv_queue'[p] = network_recv_queue[p] /\ wire'[p] = wire[p]
    BY Zenon DEF myclose_return, TypeOK
  <2>2. <<>> \o <<>> = <<>>
    OBVIOUS
  <2> QED BY Zenon, <2>1, <2>2 DEF Way
<1>3. Kinds(<<>>) = {} /\ Len(<<>>) <= 1
  BY DEF Kinds
<1>4. HandshakeFirst(e)' /\ HandshakeFirst(p)'
  BY Zenon, <1>1, <1>2, <1>3 DEF WindowAt, HandshakeFirst
<1>5. FlightAt(e)' /\ FlightAt(p)'
  <2>1. ASSUME NEW c, NEW a, NEW q, NEW r, Flight(c, a, q, r)
        PROVE  Flight(c, a, q, <<>>)
    BY <2>1 DEF Flight, AcksRise, NumbersRise, NotAcked
  <2> QED BY Zenon, <1>1, <1>2, <2>1 DEF WindowAt, FlightAt
<1> QED BY Zenon, <1>4, <1>5

\* The receive thread queues its empty buffer, behind what it has moved to the queue.
LEMMA WaysEof ==
    ASSUME TypeOK, NEW e \in End, NEW p \in End, p = Peer(e), Peer(p) = e, p # e, Still(p),
           WindowAt(e), WindowAt(p), RecvEof(e)
    PROVE  /\ HandshakeFirst(e)' /\ FlightAt(e)'
           /\ HandshakeFirst(p)' /\ FlightAt(p)'
<1> DEFINE x == Packet("ERR", 0, 0, Run(arrived[e], arrived[e]))
<1>1. /\ Gone(p)' /\ Gone(p) /\ ~Gone(e) /\ ~Gone(e)'
      /\ UNCHANGED <<thread, current_sequence_num, ack_num>>
      /\ UNCHANGED wire
      /\ network_recv_queue'[e] = Append(network_recv_queue[e], x)
      /\ network_recv_queue'[p] = network_recv_queue[p]
  BY Zenon DEF Still, Gone, RecvEof, TypeOK, appVars, loopVars, ctxVars
<1>2. x \in Packets /\ x.kind = "ERR"
  <2>1. 0 \in Seqs /\ arrived[e] \in Nat
    BY Zenon, WindowTypes DEF TypeOK
  <2> QED BY <2>1, PacketMade, PacketKindFacts
<1> HIDE DEF x
<1>3. network_recv_queue[e] \in Seq(Packets) /\ wire[e] \in Seq(Packets) /\ Way(p)' = Way(p)
  BY Zenon, <1>1, WindowTypes, WayKept
<1>4. /\ Way(e)' = Append(network_recv_queue[e], x) \o wire[e]
      /\ Way(e) = network_recv_queue[e] \o wire[e]
      /\ Way(e) \in Seq(Packets) /\ Way(p) \in Seq(Packets)
  BY Zenon, <1>1, WindowTypes DEF Way
<1>5. Kinds(Way(e)') \subseteq Kinds(Way(e)) \cup {"ERR"}
  BY Zenon, <1>2, <1>3, <1>4, KindsInsert
<1>6. HandshakeFirst(e)' /\ HandshakeFirst(p)'
  <2>1. HandshakeFirst(e) /\ HandshakeFirst(p)
    BY Zenon DEF WindowAt
  <2>2. "ACK" \in Kinds(Way(e)') => "ACK" \in Kinds(Way(e))
    BY Zenon, <1>5
  <2>3. HandshakeFirst(e)'
    BY Zenon, <1>1, <1>3, <2>1, <2>2 DEF HandshakeFirst
  <2>4. HandshakeFirst(p)'
    BY Zenon, <1>1, <1>3, <2>1 DEF HandshakeFirst
  <2> QED BY Zenon, <2>3, <2>4
<1>7. FlightAt(e)' /\ FlightAt(p)'
  <2>1. current_sequence_num[e] \in Seqs /\ ack_num[e] \in Seqs /\ x.kind \notin AckKinds
    BY Zenon, <1>2, WindowTypes DEF AckKinds
  <2>2. Flight(current_sequence_num[e], ack_num[e], Way(e), Way(p))
    BY Zenon, <1>1 DEF WindowAt, FlightAt
  <2>3. Flight(current_sequence_num[e], ack_num[e], Way(e)', Way(p))
    BY Zenon, <1>2, <1>3, <1>4, <2>1, <2>2, FlightInsert
  <2> QED BY Zenon, <1>1, <1>3, <2>3 DEF FlightAt
<1> QED BY Zenon, <1>6, <1>7

-----------------------------------------------------------------------------
\* A packet that takes k numbers is sent.
LEMMA SendsNumbers ==
    ASSUME TypeOK, NEW e \in End, NEW p \in End, p = Peer(e), Peer(p) = e, p # e, Still(p),
           WindowAt(e), WindowAt(p), ~Gone(e), NEW x \in Packets, Send(e, x),
           x.kind \in {"SYN", "DATA", "FIN"}, x.seq = current_sequence_num[e],
           NEW k \in Nat, k = Numbers(x), 1 <= k, Unacked(e) + k < SeqMod,
           network_recv_queue' = network_recv_queue, ack_num' = ack_num,
           current_sequence_num'[e] = Plus(current_sequence_num[e], k)
    PROVE  /\ FlightAt(e)' /\ FlightAt(p)' /\ Way(e)' = Way(e)
           /\ Way(p)' = IF Gone(p) THEN Way(p) ELSE Append(Way(p), x)
<1> DEFINE c == current_sequence_num[e]
           a == ack_num[e]
<1>1. /\ Gone(p)' <=> Gone(p)
      /\ current_sequence_num'[p] = current_sequence_num[p]
      /\ ack_num'[e] = ack_num[e] /\ ack_num'[p] = ack_num[p]
  BY Zenon DEF Still, Gone
<1>2. /\ Way(p)' = IF Gone(p) THEN Way(p) ELSE Append(Way(p), x)
      /\ Way(e)' = Way(e)
  BY Zenon, WaySent, WayKept
<1>3. /\ c \in Seqs /\ a \in Seqs /\ Lag(c, a) + k < SeqMod
      /\ Way(e) \in Seq(Packets) /\ Way(p) \in Seq(Packets)
      /\ current_sequence_num[p] \in Seqs /\ ack_num[p] \in Seqs
  BY Zenon, WindowTypes
<1>4. Flight(c, a, Way(e), Way(p))
  BY Zenon DEF WindowAt, FlightAt
<1>5. Flight(Plus(c, k), a, Way(e), Way(p)')
  <2>1. CASE Gone(p)
    <3>1. Flight(Plus(c, k), a, Way(e), Way(p))
      BY Zenon, <1>3, <1>4, FlightMove
    <3> QED BY Zenon, <1>2, <2>1, <3>1
  <2>2. CASE ~Gone(p)
    <3>1. Flight(Plus(c, k), a, Way(e), Append(Way(p), x))
      BY Zenon, <1>3, <1>4, FlightSend
    <3> QED BY Zenon, <1>2, <2>2, <3>1
  <2> QED BY Zenon, <2>1, <2>2
<1>6. FlightAt(e)'
  BY Zenon, <1>1, <1>2, <1>5 DEF FlightAt
<1>7. FlightAt(p)'
  <2> SUFFICES ASSUME ~Gone(p)
               PROVE  Flight(current_sequence_num[p], ack_num[p], Append(Way(p), x), Way(e))
    BY Zenon, <1>1, <1>2 DEF FlightAt
  <2>1. Flight(current_sequence_num[p], ack_num[p], Way(p), Way(e)) /\ x.kind \notin AckKinds
    BY Zenon DEF WindowAt, FlightAt, AckKinds
  <2> QED BY Zenon, <1>3, <2>1, FlightOther
<1> QED BY Zenon, <1>2, <1>6, <1>7

\* The first packet is taken and x is sent: what it means for the peer.
LEMMA AnswersPeer ==
    ASSUME TypeOK, NEW e \in End, NEW p \in End, p = Peer(e), Peer(p) = e, p # e, Still(p),
           WindowAt(e), WindowAt(p), network_recv_queue[e] # <<>>,
           NEW x \in Packets, Send(e, x),
           network_recv_queue' = [network_recv_queue EXCEPT ![e] = Tail(@)],
           NEW m \in Nat, x.ack = Plus(Head(network_recv_queue[e]).seq, m),
           ~Gone(p) => /\ Head(network_recv_queue[e]).kind \in NumberedKinds
                       /\ m <= 1 \/ m <= Numbers(Head(network_recv_queue[e]))
    PROVE  /\ Way(e)' = Tail(Way(e)) /\ Way(e) # <<>> /\ Way(e) \in Seq(Packets)
           /\ Head(Way(e)) = Head(network_recv_queue[e])
           /\ Way(p)' = IF Gone(p) THEN Way(p) ELSE Append(Way(p), x)
           /\ FlightAt(p)'
<1>1. /\ Gone(p)' <=> Gone(p)
      /\ current_sequence_num'[p] = current_sequence_num[p] /\ ack_num'[p] = ack_num[p]
  BY Zenon DEF Still, Gone
<1>2. /\ network_recv_queue'[e] = Tail(network_recv_queue[e])
      /\ network_recv_queue'[p] = network_recv_queue[p]
  BY Zenon DEF TypeOK
<1>3. /\ Way(p)' = IF Gone(p) THEN Way(p) ELSE Append(Way(p), x)
      /\ wire'[e] = wire[e]
  BY Zenon, <1>2, WaySent
<1>4. /\ Way(e)' = Tail(Way(e)) /\ Way(e) # <<>>
      /\ Head(Way(e)) = Head(network_recv_queue[e])
  BY Zenon, <1>2, <1>3, WayTaken
<1>5. /\ Way(e) \in Seq(Packets) /\ Way(p) \in Seq(Packets)
      /\ current_sequence_num[p] \in Seqs /\ ack_num[p] \in Seqs
  BY Zenon, WindowTypes
<1>6. FlightAt(p)'
  <2> SUFFICES ASSUME ~Gone(p)
               PROVE  Flight(current_sequence_num[p], ack_num[p], Append(Way(p), x), Tail(Way(e)))
    BY Zenon, <1>1, <1>3, <1>4 DEF FlightAt
  <2>1. Flight(current_sequence_num[p], ack_num[p], Way(p), Way(e))
    BY Zenon DEF WindowAt, FlightAt
  <2>2. Head(Way(e)).kind \in NumberedKinds /\ x.ack = Plus(Head(Way(e)).seq, m)
    BY Zenon, <1>4
  <2>3. Head(Way(e)) \in Packets /\ Head(Way(e)) = Way(e)[1] /\ 1 \in 1 .. Len(Way(e))
    BY Zenon, <1>4, <1>5, Rest
  <2>4. 1 <= Numbers(Head(Way(e))) /\ Numbers(Head(Way(e))) \in Int
    BY Zenon, <2>1, <2>2, <2>3, PacketFields DEF Flight, NumbersRise
  <2>5. m <= Numbers(Head(Way(e)))
    BY <1>4, <2>4
  <2> QED BY Zenon, <1>4, <1>5, <2>1, <2>2, <2>5, FlightAnswer
<1> QED BY Zenon, <1>3, <1>4, <1>5, <1>6

\* The first packet is taken and an ACK is sent.
LEMMA AnswersAck ==
    ASSUME TypeOK, NEW e \in End, NEW p \in End, p = Peer(e), Peer(p) = e, p # e,
           WindowAt(e), ~Gone(e), NEW x \in Packets, x.kind = "ACK",
           Way(e)' = Tail(Way(e)), Way(e) # <<>>,
           Way(p)' = IF Gone(p) THEN Way(p) ELSE Append(Way(p), x)
    PROVE  Flight(current_sequence_num[e], ack_num[e], Way(e)', Way(p)')
<1>1. /\ Way(e) \in Seq(Packets) /\ Way(p) \in Seq(Packets)
      /\ current_sequence_num[e] \in Seqs /\ ack_num[e] \in Seqs
  BY Zenon, WindowTypes
<1>2. Flight(current_sequence_num[e], ack_num[e], Way(e), Way(p))
  BY Zenon DEF WindowAt, FlightAt
<1>3. Flight(current_sequence_num[e], ack_num[e], Tail(Way(e)), Way(p))
  BY Zenon, <1>1, <1>2, FlightTake
<1>4. Tail(Way(e)) \in Seq(Packets) /\ x.kind \notin NumberedKinds
  BY Zenon, <1>1, Rest DEF NumberedKinds
<1>5. Flight(current_sequence_num[e], ack_num[e], Tail(Way(e)), Append(Way(p), x))
  BY Zenon, <1>1, <1>3, <1>4, FlightOther
<1>6. CASE Gone(p)
  BY Zenon, <1>3, <1>6
<1>7. CASE ~Gone(p)
  BY Zenon, <1>5, <1>7
<1> QED BY Zenon, <1>6, <1>7

-----------------------------------------------------------------------------
\* What the threads of two ends say to each other.
WaysOK(e, p) == /\ HandshakeFirst(e)' /\ FlightAt(e)'
                /\ HandshakeFirst(p)' /\ FlightAt(p)'

\* SendSyn: nothing is on its way yet, the SYN is the first.
LEMMA SendSynWays ==
    ASSUME StreamInv, NEW e \in End, NEW p \in End, p = Peer(e), Peer(p) = e, p # e, Still(p),
           WindowAt(e), WindowAt(p), SendSyn(e)
    PROVE  WaysOK(e, p)
<1> DEFINE x == Packet("SYN", current_sequence_num[e], 0, Here(e))
<1>1. /\ TypeOK /\ e = "active" /\ ~Gone(e) /\ thread[e] = "start" /\ thread'[e] = "await"
      /\ Send(e, x) /\ current_sequence_num'[e] = Plus(current_sequence_num[e], 1)
      /\ network_recv_queue' = network_recv_queue /\ ack_num' = ack_num
      /\ thread'[p] = thread[p]
      /\ Gone(p)' <=> Gone(p)
      /\ ~Gone(e)'
  BY Zenon DEF StreamInv, SendSyn, TypeOK, Still, Gone, appVars, queueVars
<1>2. /\ x \in Packets /\ x.kind = "SYN" /\ x.seq = current_sequence_num[e]
  <2>1. 0 \in Seqs /\ current_sequence_num[e] \in Seqs /\ payload[e].lo \in Nat
    BY Zenon, <1>1, WindowTypes
  <2> QED BY Zenon, <2>1 DEF Packet, Here, Run, Packets
<1> HIDE DEF x
<1>3. Numbers(x) = 1 /\ 1 \in Nat /\ 1 <= 1 /\ x.kind \in {"SYN", "DATA", "FIN"}
  BY <1>2 DEF Numbers
<1>4. Unacked(e) + 1 < SeqMod
  BY <1>1, WindowTypes, WindowAssumption DEF WindowAt, InWindow
<1>5. /\ FlightAt(e)' /\ FlightAt(p)' /\ Way(e)' = Way(e)
      /\ Way(p)' = IF Gone(p) THEN Way(p) ELSE Append(Way(p), x)
  BY Zenon, <1>1, <1>2, <1>3, <1>4, SendsNumbers
<1>6. thread[p] = "start" /\ Way(p) = <<>>
  <2>1. HandshakeAt(e)
    BY Zenon, <1>1 DEF StreamInv, StreamAt
  <2>2. thread[p] = "start" /\ network_recv_queue[p] = <<>> /\ wire[p] = <<>>
    BY Zenon, <1>1, <2>1 DEF HandshakeAt
  <2>3. <<>> \o <<>> = <<>>
    OBVIOUS
  <2> QED BY Zenon, <2>2, <2>3 DEF Way
<1>7. Len(Way(p)') <= 1 /\ Kinds(Way(p)') \subseteq {"SYN"}
  BY <1>2, <1>5, <1>6 DEF Kinds
<1>8. HandshakeFirst(e)'
  BY Zenon, <1>1, <1>5, <1>6, <1>7 DEF HandshakeFirst, WindowAt
<1>9. HandshakeFirst(p)'
  <2>1. p # "active" /\ "ACK" \notin Kinds(Way(p)') /\ "ERR" \notin Kinds(Way(p)')
    BY Zenon, <1>1, <1>7
  <2> QED BY Zenon, <2>1 DEF HandshakeFirst
<1> QED BY Zenon, <1>5, <1>8, <1>9 DEF WaysOK

\* RecvSynAck: the packet taken is no ACK and no empty buffer while the peer runs, so the
\* ACK that is sent acknowledges a number of it.
LEMMA RecvSynAckWays ==
    ASSUME StreamInv, NEW e \in End, NEW p \in End, p = Peer(e), Peer(p) = e, p # e, Still(p),
           WindowAt(e), WindowAt(p), RecvSynAck(e)
    PROVE  WaysOK(e, p)
<1> DEFINE h == Head(network_recv_queue[e])
           x == Packet("ACK", current_sequence_num[e], Plus(h.seq, 1), Here(e))
<1>1. /\ TypeOK /\ e = "active" /\ ~Gone(e) /\ thread[e] = "await" /\ thread'[e] = "loop"
      /\ Send(e, x) /\ current_sequence_num'[e] = Plus(current_sequence_num[e], 1)
      /\ network_recv_queue[e] # <<>> /\ ack_num' = ack_num
      /\ network_recv_queue' = [network_recv_queue EXCEPT ![e] = Tail(@)]
      /\ thread'[p] = thread[p]
      /\ Gone(p)' <=> Gone(p)
  BY Zenon DEF StreamInv, RecvSynAck, TypeOK, Still, Gone
<1>2. /\ x \in Packets /\ x.kind = "ACK" /\ x.ack = Plus(h.seq, 1) /\ h \in Packets
  <2>1. /\ 0 \in Seqs /\ payload[e].lo \in Nat /\ current_sequence_num[e] \in Seqs
        /\ network_recv_queue[e] \in Seq(Packets)
    BY Zenon, <1>1, WindowTypes
  <2>2. h \in Packets
    BY <1>1, <2>1
  <2>3. Plus(h.seq, 1) \in Seqs
    BY Zenon, <2>2, PacketFields, PlusSeq
  <2>4. payload[e].lo \in Nat /\ 0 \in Seqs /\ current_sequence_num[e] \in Seqs
    BY Zenon, <1>1, WindowTypes
  <2> HIDE DEF h
  <2> QED BY Zenon, <2>2, <2>3, <2>4 DEF Packet, Here, Run, Packets
<1>3. h.kind \in Kinds(Way(e)) /\ Kinds(Tail(Way(e))) \subseteq Kinds(Way(e))
  <2>1. Way(e) # <<>> /\ Head(Way(e)) = h /\ Way(e) \in Seq(Packets)
    BY Zenon, <1>1, WindowTypes, WayTail DEF Way
  <2> QED BY Zenon, <2>1, KindFacts
<1>4. ~Gone(p) => h.kind \in NumberedKinds
  <2> SUFFICES ASSUME ~Gone(p) PROVE h.kind \in NumberedKinds
    BY Zenon
  <2>1. h.kind # "ERR" /\ h.kind # "ACK"
    BY Zenon, <1>1, <1>3 DEF WindowAt, HandshakeFirst
  <2> QED BY Zenon, <1>2, <2>1 DEF NumberedKinds, Packets
<1> HIDE DEF x, h
<1>5. /\ Way(e)' = Tail(Way(e)) /\ Way(e) # <<>> /\ Way(e) \in Seq(Packets)
      /\ Way(p)' = IF Gone(p) THEN Way(p) ELSE Append(Way(p), x)
      /\ FlightAt(p)'
  <2>1. 1 \in Nat /\ 1 <= 1
    OBVIOUS
  <2> QED BY Zenon, <1>1, <1>2, <1>4, <2>1, AnswersPeer DEF h
<1>6. Flight(current_sequence_num[e], ack_num[e], Way(e)', Way(p)')
  BY Zenon, <1>1, <1>2, <1>5, AnswersAck
<1>7. Way(e)' \in Seq(Packets) /\ Way(p)' \in Seq(Packets) /\ Way(p) \in Seq(Packets)
  <2>1. Tail(Way(e)) \in Seq(Packets) /\ Way(p) \in Seq(Packets)
    BY Zenon, <1>1, <1>5, WindowTypes, Rest
  <2>2. Append(Way(p), x) \in Seq(Packets)
    BY Zenon, <1>2, <2>1, More
  <2> QED BY Zenon, <1>5, <2>1, <2>2
<1>8. FlightAt(e)'
  <2>1. /\ Unacked(e) + 1 < SeqMod /\ 1 \in Nat
        /\ Unacked(e) = Lag(current_sequence_num[e], ack_num[e])
        /\ current_sequence_num[e] \in Seqs /\ ack_num[e] \in Seqs
    BY <1>1, WindowTypes, WindowAssumption DEF WindowAt, InWindow
  <2>2. Flight(Plus(current_sequence_num[e], 1), ack_num[e], Way(e)', Way(p)')
    BY Zenon, <1>6, <1>7, <2>1, FlightMove
  <2> QED BY ZenonT(30), <1>1, <2>2 DEF FlightAt
<1>9. HandshakeFirst(e)'
  BY Zenon, <1>1, <1>3, <1>5 DEF HandshakeFirst, WindowAt
<1>10. HandshakeFirst(p)'
  <2>1. p # "active" /\ "ERR" \notin Kinds(Way(p))
    BY Zenon, <1>1 DEF HandshakeFirst, WindowAt
  <2>2. Kinds(Append(Way(p), x)) = Kinds(Way(p)) \cup {"ACK"}
    BY ZenonT(30), <1>2, <1>7, KindFacts
  <2>3. "ERR" \notin Kinds(Way(p)')
    BY <1>5, <2>1, <2>2
  <2> QED BY Zenon, <1>1, <2>1, <2>3 DEF HandshakeFirst
<1> QED BY Zenon, <1>5, <1>8, <1>9, <1>10 DEF WaysOK

\* RecvSyn: the packet taken is the only one on its way while the active end awaits the answer.
LEMMA RecvSynWays ==
    ASSUME StreamInv, NEW e \in End, NEW p \in End, p = Peer(e), Peer(p) = e, p # e, Still(p),
           WindowAt(e), WindowAt(p), RecvSyn(e)
    PROVE  WaysOK(e, p)
<1> DEFINE h == Head(network_recv_queue[e])
           x == Packet("SYNACK", current_sequence_num[e], Plus(h.seq, 1), Here(e))
<1>1. /\ TypeOK /\ e = "passive" /\ ~Gone(e) /\ thread[e] = "start" /\ thread'[e] = "await"
      /\ Send(e, x) /\ current_sequence_num'[e] = Plus(current_sequence_num[e], 1)
      /\ network_recv_queue[e] # <<>> /\ ack_num' = ack_num
      /\ network_recv_queue' = [network_recv_queue EXCEPT ![e] = Tail(@)]
      /\ thread'[p] = thread[p]
      /\ Gone(p)' <=> Gone(p)
      /\ ~Gone(e)'
  BY Zenon DEF StreamInv, RecvSyn, TypeOK, Still, Gone, appVars
<1>2. /\ x \in Packets /\ x.kind = "SYNACK" /\ x.seq = current_sequence_num[e]
      /\ x.ack = Plus(h.seq, 1) /\ h \in Packets
  <2>1. current_sequence_num[e] \in Seqs /\ network_recv_queue[e] \in Seq(Packets)
    BY Zenon, <1>1, WindowTypes
  <2>2. h \in Packets
    BY <1>1, <2>1
  <2>3. Plus(h.seq, 1) \in Seqs
    BY Zenon, <2>2, PacketFields, PlusSeq
  <2>4. payload[e].lo \in Nat /\ 0 \in Seqs /\ current_sequence_num[e] \in Seqs
    BY Zenon, <1>1, WindowTypes
  <2> HIDE DEF h
  <2> QED BY Zenon, <2>2, <2>3, <2>4 DEF Packet, Here, Run, Packets
<1>3. h.kind \in Kinds(Way(e)) /\ Kinds(Tail(Way(e))) \subseteq Kinds(Way(e))
  <2>1. Way(e) # <<>> /\ Head(Way(e)) = h /\ Way(e) \in Seq(Packets)
    BY Zenon, <1>1, WindowTypes, WayTail DEF Way
  <2> QED BY Zenon, <2>1, KindFacts
<1>4. thread[p] \in {"start", "await"} /\ Way(p) = <<>>
  <2>1. HandshakeAt(e)
    BY Zenon, <1>1 DEF StreamInv, StreamAt
  <2>2. thread[p] \in {"start", "await"} /\ network_recv_queue[p] = <<>> /\ wire[p] = <<>>
    BY Zenon, <1>1, <2>1 DEF HandshakeAt
  <2>3. <<>> \o <<>> = <<>>
    OBVIOUS
  <2> QED BY Zenon, <2>2, <2>3 DEF Way
<1>5. ~Gone(p) => h.kind \in NumberedKinds
  <2> SUFFICES ASSUME ~Gone(p) PROVE h.kind \in NumberedKinds
    BY Zenon
  <2>1. h.kind # "ERR" /\ h.kind # "ACK"
    BY Zenon, <1>1, <1>3, <1>4 DEF WindowAt, HandshakeFirst
  <2> QED BY Zenon, <1>2, <2>1 DEF NumberedKinds, Packets
<1> HIDE DEF x, h
<1>6. /\ Way(e)' = Tail(Way(e)) /\ Way(e) # <<>> /\ Way(e) \in Seq(Packets)
      /\ Way(p)' = IF Gone(p) THEN Way(p) ELSE Append(Way(p), x)
      /\ FlightAt(p)'
  <2>1. 1 \in Nat /\ 1 <= 1
    OBVIOUS
  <2> QED BY ZenonT(30), <1>1, <1>2, <1>5, <2>1, AnswersPeer DEF h
<1>7. FlightAt(e)'
  <2>1. /\ Unacked(e) + 1 < SeqMod /\ 1 \in Nat /\ 1 <= 1
        /\ Unacked(e) = Lag(current_sequence_num[e], ack_num[e])
        /\ current_sequence_num[e] \in Seqs /\ ack_num[e] \in Seqs
        /\ Way(p) \in Seq(Packets)
    BY <1>1, WindowTypes, WindowAssumption DEF WindowAt, InWindow
  <2>n. Numbers(x) = 1
    BY Zenon, <1>2 DEF Numbers
  <2>2. Flight(current_sequence_num[e], ack_num[e], Way(e), Way(p))
    BY Zenon, <1>1 DEF WindowAt, FlightAt
  <2>3. Flight(current_sequence_num[e], ack_num[e], Tail(Way(e)), Way(p))
    BY Zenon, <1>6, <2>1, <2>2, FlightTake
  <2>4. Tail(Way(e)) \in Seq(Packets)
    BY Zenon, <1>6, Rest
  <2>5. Flight(Plus(current_sequence_num[e], 1), ack_num[e], Tail(Way(e)), Way(p))
    BY Zenon, <2>1, <2>3, <2>4, FlightMove
  <2>6. Flight(Plus(current_sequence_num[e], 1), ack_num[e], Tail(Way(e)), Append(Way(p), x))
    BY Zenon, <1>2, <2>1, <2>n, <2>3, <2>4, FlightSend
  <2>7. Flight(Plus(current_sequence_num[e], 1), ack_num[e], Way(e)', Way(p)')
    BY Zenon, <1>6, <2>5, <2>6
  <2> QED BY Zenon, <1>1, <2>7 DEF FlightAt
<1>8. HandshakeFirst(e)'
  BY Zenon, <1>1, <1>3, <1>6 DEF HandshakeFirst, WindowAt
<1>9. HandshakeFirst(p)'
  <2>1. Kinds(Way(p)') \subseteq {"SYNACK"}
    BY <1>2, <1>4, <1>6 DEF Kinds
  <2>2. ASSUME ~Gone(p), thread[p] = "await"
        PROVE  Way(e)' = <<>>
    <3>1. Len(Way(e)) <= 1
      BY Zenon, <1>1, <2>2 DEF WindowAt, HandshakeFirst, Peer
    <3> QED BY <1>6, <3>1
  <2>3. Len(<<>>) <= 1
    OBVIOUS
  <2> QED BY Zenon, <1>1, <2>1, <2>2, <2>3 DEF HandshakeFirst
<1> QED BY Zenon, <1>6, <1>7, <1>8, <1>9 DEF WaysOK

\* A packet is taken and nothing is sent.
LEMMA TakesOne ==
    ASSUME TypeOK, NEW e \in End, NEW p \in End, p = Peer(e), Peer(p) = e, p # e, Still(p),
           WindowAt(e), WindowAt(p), ~Gone(e), network_recv_queue[e] # <<>>,
           network_recv_queue' = [network_recv_queue EXCEPT ![e] = Tail(@)], wire' = wire,
           current_sequence_num' = current_sequence_num,
           \/ ack_num' = ack_num
           \/ /\ Head(network_recv_queue[e]).kind \in AckKinds
              /\ ack_num' = [ack_num EXCEPT ![e] = Head(network_recv_queue[e]).ack]
    PROVE  /\ FlightAt(e)' /\ FlightAt(p)' /\ Way(e)' = Tail(Way(e)) /\ Way(p)' = Way(p)
           /\ Way(e) # <<>> /\ Way(e) \in Seq(Packets)
<1>1. /\ Gone(p)' <=> Gone(p)
      /\ current_sequence_num'[p] = current_sequence_num[p] /\ ack_num'[p] = ack_num[p]
  BY Zenon DEF Still, Gone
<1>2. /\ network_recv_queue'[e] = Tail(network_recv_queue[e])
      /\ network_recv_queue'[p] = network_recv_queue[p]
  BY Zenon DEF TypeOK
<1>3. /\ Way(e)' = Tail(Way(e)) /\ Way(e) # <<>> /\ Way(p)' = Way(p)
      /\ Head(Way(e)) = Head(network_recv_queue[e])
  BY Zenon, <1>2, WayTaken, WayKept
<1>4. /\ Way(e) \in Seq(Packets) /\ Way(p) \in Seq(Packets)
      /\ current_sequence_num[p] \in Seqs /\ ack_num[p] \in Seqs
      /\ current_sequence_num[e] \in Seqs /\ ack_num[e] \in Seqs
  BY Zenon, WindowTypes
<1>5. FlightAt(e)'
  <2>1. Flight(current_sequence_num[e], ack_num[e], Way(e), Way(p))
    BY Zenon DEF WindowAt, FlightAt
  <2>2. CASE ack_num' = ack_num
    <3>1. Flight(current_sequence_num[e], ack_num[e], Tail(Way(e)), Way(p))
      BY Zenon, <1>3, <1>4, <2>1, FlightTake
    <3> QED BY Zenon, <1>3, <2>2, <3>1 DEF FlightAt
  <2>3. CASE /\ Head(network_recv_queue[e]).kind \in AckKinds
             /\ ack_num' = [ack_num EXCEPT ![e] = Head(network_recv_queue[e]).ack]
    <3>1. Flight(current_sequence_num[e], Head(Way(e)).ack, Tail(Way(e)), Way(p))
      BY Zenon, <1>3, <1>4, <2>1, <2>3, FlightTake
    <3>2. ack_num'[e] = Head(Way(e)).ack
      BY Zenon, <1>3, <2>3 DEF TypeOK
    <3> QED BY Zenon, <1>3, <3>1, <3>2 DEF FlightAt
  <2> QED BY Zenon, <2>2, <2>3
<1>6. FlightAt(p)'
  <2> SUFFICES ASSUME ~Gone(p)
               PROVE  Flight(current_sequence_num[p], ack_num[p], Way(p), Tail(Way(e)))
    BY Zenon, <1>1, <1>3 DEF FlightAt
  <2>1. Flight(current_sequence_num[p], ack_num[p], Way(p), Way(e))
    BY Zenon DEF WindowAt, FlightAt
  <2> QED BY Zenon, <1>3, <1>4, <2>1, FlightLose
<1> QED BY Zenon, <1>3, <1>4, <1>5, <1>6

\* RecvHandshakeAck: the packet is dropped, acknowledgement and all.
LEMMA RecvHandshakeAckWays ==
    ASSUME StreamInv, NEW e \in End, NEW p \in End, p = Peer(e), Peer(p) = e, p # e, Still(p),
           WindowAt(e), WindowAt(p), RecvHandshakeAck(e)
    PROVE  WaysOK(e, p)
<1>1. /\ TypeOK /\ e = "passive" /\ ~Gone(e) /\ thread[e] = "await" /\ thread'[e] = "loop"
      /\ UNCHANGED <<current_sequence_num, ack_num, wire>>
      /\ network_recv_queue[e] # <<>>
      /\ network_recv_queue' = [network_recv_queue EXCEPT ![e] = Tail(@)]
      /\ thread'[p] = thread[p]
      /\ Gone(p)' <=> Gone(p)
      /\ ~Gone(e)'
  BY Zenon DEF StreamInv, RecvHandshakeAck, TypeOK, Still, Gone, netVars
<1>2. /\ FlightAt(e)' /\ FlightAt(p)' /\ Way(e)' = Tail(Way(e)) /\ Way(p)' = Way(p)
      /\ Way(e) # <<>> /\ Way(e) \in Seq(Packets)
  BY Zenon, <1>1, TakesOne
<1>3. Kinds(Tail(Way(e))) \subseteq Kinds(Way(e))
  BY Zenon, <1>2, KindFacts
<1>4. HandshakeFirst(e)'
  BY Zenon, <1>1, <1>2, <1>3 DEF HandshakeFirst, WindowAt
<1>5. HandshakeFirst(p)'
  BY Zenon, <1>1, <1>2 DEF HandshakeFirst, WindowAt
<1> QED BY Zenon, <1>2, <1>4, <1>5 DEF WaysOK

\* In the loop the handshake of both ends is over, or e's peer has gone.
LEMMA LoopFirst ==
    ASSUME NEW e \in End, NEW p \in End, p = Peer(e), Peer(p) = e, p # e, Still(p),
           WindowAt(e), WindowAt(p), thread[e] = "loop", thread'[e] = "loop",
           Kinds(Way(e)') \subseteq Kinds(Way(e)), "ERR" \notin Kinds(Way(p)')
    PROVE  HandshakeFirst(e)' /\ HandshakeFirst(p)'
<1>1. /\ Gone(p)' <=> Gone(p)
      /\ thread'[p] = thread[p]
  BY Zenon DEF Still, Gone
<1>2. HandshakeFirst(e)'
  BY Zenon, <1>1 DEF HandshakeFirst, WindowAt
<1>3. HandshakeFirst(p)'
  BY Zenon, <1>1 DEF HandshakeFirst, WindowAt
<1> QED BY Zenon, <1>2, <1>3

\* A packet is sent from the loop.
LEMMA LoopSends ==
    ASSUME TypeOK, NEW e \in End, NEW p \in End, p = Peer(e), Peer(p) = e, p # e, Still(p),
           WindowAt(e), WindowAt(p), ~Gone(e), NEW x \in Packets, Send(e, x),
           x.kind \in {"SYN", "DATA", "FIN"}, x.seq = current_sequence_num[e],
           NEW k \in Nat, k = Numbers(x), 1 <= k, Unacked(e) + k < SeqMod,
           network_recv_queue' = network_recv_queue, ack_num' = ack_num,
           current_sequence_num'[e] = Plus(current_sequence_num[e], k),
           thread[e] = "loop", thread'[e] = "loop"
    PROVE  WaysOK(e, p)
<1>1. /\ FlightAt(e)' /\ FlightAt(p)' /\ Way(e)' = Way(e)
      /\ Way(p)' = IF Gone(p) THEN Way(p) ELSE Append(Way(p), x)
  BY ZenonT(30), SendsNumbers
<1>2. "ERR" \notin Kinds(Way(p)')
  <2>1. Kinds(Append(Way(p), x)) = Kinds(Way(p)) \cup {x.kind}
    BY Zenon, WindowTypes, KindFacts
  <2>2. "ERR" \notin Kinds(Way(p))
    BY Zenon DEF WindowAt, HandshakeFirst
  <2>3. x.kind # "ERR"
    BY Zenon
  <2> QED BY ZenonT(30), <1>1, <2>1, <2>2, <2>3
<1>3. HandshakeFirst(e)' /\ HandshakeFirst(p)'
  BY Zenon, <1>1, <1>2, LoopFirst
<1> QED BY Zenon, <1>1, <1>3 DEF WaysOK

\* SendSegment: the segment takes as many numbers as it has bytes, and they are in the window.
LEMMA SendSegmentWays ==
    ASSUME StreamInv, NEW e \in End, NEW p \in End, p = Peer(e), Peer(p) = e, p # e, Still(p),
           WindowAt(e), WindowAt(p), SendSegment(e)
    PROVE  WaysOK(e, p)
<1> DEFINE rest == payload[e].hi - payload[e].lo
           size == IF rest > STCP_MSS THEN STCP_MSS ELSE rest
           x == Packet("DATA", current_sequence_num[e], 0, Run(payload[e].lo, payload[e].lo + size))
<1>1. /\ TypeOK /\ ~Gone(e) /\ thread[e] = "loop" /\ thread'[e] = "loop"
      /\ payload[e].lo < payload[e].hi /\ Send(e, x)
      /\ current_sequence_num'[e] = Plus(current_sequence_num[e], size)
      /\ network_recv_queue' = network_recv_queue /\ ack_num' = ack_num
  BY Zenon DEF StreamInv, SendSegment, TypeOK, queueVars
<1>2. /\ payload[e].lo \in Nat /\ payload[e].hi \in Nat /\ STCP_MSS \in Nat \ {0}
      /\ 0 \in Seqs /\ current_sequence_num[e] \in Seqs
      /\ Unacked(e) \in Nat /\ SENDER_WINDOW \in Nat /\ SeqMod \in Nat
  BY ZenonT(30), <1>1, WindowTypes
<1>3. size \in Nat /\ 1 <= size /\ size <= rest /\ rest \in Nat /\ payload[e].lo + size \in Nat
  BY Zenon, <1>1, <1>2, SegmentSize
<1>4. Unacked(e) + rest <= SENDER_WINDOW + 1
  <2>1. Unacked(e) + rest <= SENDER_WINDOW + (IF FinSent(e) THEN 1 ELSE 0)
    BY Zenon DEF WindowAt, InWindow
  <2> HIDE DEF rest, size
  <2> QED BY <1>2, <1>3, <2>1
<1> HIDE DEF rest, size
<1>5. Unacked(e) + size < SeqMod
  BY <1>2, <1>3, <1>4, WindowAssumption
<1>6. /\ x \in Packets /\ x.kind = "DATA" /\ x.seq = current_sequence_num[e]
      /\ x.lo = payload[e].lo /\ x.hi = payload[e].lo + size
  BY Zenon, <1>2, <1>3 DEF Packet, Run, Packets
<1> HIDE DEF x
<1>7. size = Numbers(x) /\ x.kind \in {"SYN", "DATA", "FIN"}
  BY <1>2, <1>3, <1>6 DEF Numbers
<1> QED BY Zenon, <1>1, <1>3, <1>5, <1>6, <1>7, LoopSends

\* CloseRequested: the FIN takes one number, on top of a full window if need be.
LEMMA CloseRequestedWays ==
    ASSUME StreamInv, NEW e \in End, NEW p \in End, p = Peer(e), Peer(p) = e, p # e, Still(p),
           WindowAt(e), WindowAt(p), CloseRequested(e), InLoop(e),
           event[e] = {"APP_CLOSE_REQUESTED"}
    PROVE  WaysOK(e, p)
<1> DEFINE x == Packet("FIN", current_sequence_num[e], 0, Here(e))
<1>1. /\ TypeOK /\ ~Gone(e) /\ thread[e] = "loop" /\ thread'[e] = "loop" /\ Send(e, x)
      /\ current_sequence_num'[e] = Plus(current_sequence_num[e], 1)
      /\ network_recv_queue' = network_recv_queue /\ ack_num' = ack_num
      /\ payload[e].lo = payload[e].hi
  BY Zenon DEF StreamInv, CloseRequested, TypeOK, queueVars, InLoop
<1>2. /\ payload[e].lo \in Nat /\ payload[e].hi \in Nat
      /\ 0 \in Seqs /\ current_sequence_num[e] \in Seqs
      /\ Unacked(e) \in Nat /\ SENDER_WINDOW \in Nat /\ SeqMod \in Nat
  BY Zenon, <1>1, WindowTypes
<1>3. ~FinSent(e)
  BY ZenonT(30), <1>1 DEF WindowAt, ClosesOnce
<1>4. Unacked(e) + 1 < SeqMod
  <2>1. Unacked(e) + (payload[e].hi - payload[e].lo) <=
            SENDER_WINDOW + (IF FinSent(e) THEN 1 ELSE 0)
    BY ZenonT(30) DEF WindowAt, InWindow
  <2> HIDE DEF x
  <2> QED BY <1>1, <1>2, <1>3, <2>1, WindowAssumption
<1>5. x \in Packets /\ x.kind = "FIN" /\ x.seq = current_sequence_num[e]
  <2>1. payload[e].lo \in Nat
    BY Zenon, <1>1, WindowTypes
  <2> QED BY Zenon, <1>2, <2>1 DEF Packet, Here, Run, Packets
<1> HIDE DEF x
<1>6. Numbers(x) = 1 /\ x.kind \in {"SYN", "DATA", "FIN"} /\ 1 \in Nat /\ 1 <= 1
  BY <1>5 DEF Numbers
<1> QED BY Zenon, <1>1, <1>4, <1>5, <1>6, LoopSends

\* RecvACK: the acknowledgement taken is no older than the last one.
LEMMA RecvACKWays ==
    ASSUME StreamInv, NEW e \in End, NEW p \in End, p = Peer(e), Peer(p) = e, p # e, Still(p),
           WindowAt(e), WindowAt(p), RecvACK(e), InLoop(e), "NETWORK_DATA" \in event[e]
    PROVE  WaysOK(e, p)
<1>1. /\ TypeOK /\ ~Gone(e) /\ thread[e] = "loop" /\ thread'[e] = "loop"
      /\ wire' = wire /\ current_sequence_num' = current_sequence_num
      /\ network_recv_queue' = [network_recv_queue EXCEPT ![e] = Tail(@)]
      /\ Head(network_recv_queue[e]).kind \in AckKinds
      /\ ack_num' = [ack_num EXCEPT ![e] = Head(network_recv_queue[e]).ack]
  BY Zenon DEF StreamInv, RecvACK, TypeOK, netVars, InLoop, AckKinds
<1>2. network_recv_queue[e] # <<>>
  BY Zenon, <1>1 DEF StreamInv, StreamAt, EventsBacked
<1>3. /\ FlightAt(e)' /\ FlightAt(p)' /\ Way(e)' = Tail(Way(e)) /\ Way(p)' = Way(p)
      /\ Way(e) # <<>> /\ Way(e) \in Seq(Packets)
  BY Zenon, <1>1, <1>2, TakesOne
<1>4. Kinds(Way(e)') \subseteq Kinds(Way(e))
  BY Zenon, <1>3, KindFacts
<1>5. "ERR" \notin Kinds(Way(p)')
  BY Zenon, <1>1, <1>3 DEF WindowAt, HandshakeFirst
<1>6. HandshakeFirst(e)' /\ HandshakeFirst(p)'
  BY Zenon, <1>1, <1>4, <1>5, LoopFirst
<1> QED BY Zenon, <1>3, <1>6 DEF WaysOK

\* A packet is taken in the loop and answered.
LEMMA LoopAnswers ==
    ASSUME TypeOK, NEW e \in End, NEW p \in End, p = Peer(e), Peer(p) = e, p # e, Still(p),
           WindowAt(e), WindowAt(p), ~Gone(e), network_recv_queue[e] # <<>>,
           NEW x \in Packets, Send(e, x), x.kind = "ACK",
           network_recv_queue' = [network_recv_queue EXCEPT ![e] = Tail(@)],
           NEW m \in Nat, x.ack = Plus(Head(network_recv_queue[e]).seq, m),
           Head(network_recv_queue[e]).kind \in NumberedKinds,
           m <= 1 \/ m <= Numbers(Head(network_recv_queue[e])),
           current_sequence_num' = current_sequence_num, ack_num' = ack_num,
           thread[e] = "loop", thread'[e] = "loop"
    PROVE  WaysOK(e, p)
<1>1. /\ Way(e)' = Tail(Way(e)) /\ Way(e) # <<>> /\ Way(e) \in Seq(Packets)
      /\ Way(p)' = IF Gone(p) THEN Way(p) ELSE Append(Way(p), x)
      /\ FlightAt(p)'
  BY Zenon, AnswersPeer
<1>2. Flight(current_sequence_num[e], ack_num[e], Way(e)', Way(p)')
  BY Zenon, <1>1, AnswersAck
<1>3. FlightAt(e)'
  BY Zenon, <1>2 DEF FlightAt
<1>4. Kinds(Way(e)') \subseteq Kinds(Way(e))
  BY Zenon, <1>1, KindFacts
<1>5. "ERR" \notin Kinds(Way(p)')
  <2>1. Kinds(Append(Way(p), x)) = Kinds(Way(p)) \cup {x.kind}
    BY Zenon, WindowTypes, KindFacts
  <2>2. "ERR" \notin Kinds(Way(p))
    BY Zenon DEF WindowAt, HandshakeFirst
  <2>3. x.kind # "ERR"
    BY Zenon, <1>1
  <2> QED BY ZenonT(30), <1>1, <2>1, <2>2, <2>3
<1>6. HandshakeFirst(e)' /\ HandshakeFirst(p)'
  BY Zenon, <1>4, <1>5, LoopFirst
<1> QED BY Zenon, <1>1, <1>3, <1>6 DEF WaysOK

\* RecvFIN and RecvDATA: the ACK is for the numbers of the packet taken, or for none of a SYN.
LEMMA RecvFINWays ==
    ASSUME StreamInv, NEW e \in End, NEW p \in End, p = Peer(e), Peer(p) = e, p # e, Still(p),
           WindowAt(e), WindowAt(p), RecvFIN(e) \/ RecvDATA(e), InLoop(e),
           "NETWORK_DATA" \in event[e]
    PROVE  WaysOK(e, p)
<1> DEFINE h == Head(network_recv_queue[e])
           m == IF h.kind = "FIN" THEN 1 ELSE h.hi - h.lo
           x == Packet("ACK", 0, Plus(h.seq, m), Here(e))
<1>1. /\ TypeOK /\ ~Gone(e) /\ thread[e] = "loop" /\ thread'[e] = "loop"
      /\ UNCHANGED <<current_sequence_num, ack_num>>
      /\ network_recv_queue' = [network_recv_queue EXCEPT ![e] = Tail(@)]
      /\ h.kind \in {"FIN", "DATA", "SYN"} /\ Send(e, x)
  <2>1. TypeOK /\ ~Gone(e) /\ thread[e] = "loop"
    BY Zenon DEF StreamInv, InLoop
  <2>2. CASE RecvFIN(e)
    BY Zenon, <2>1, <2>2 DEF RecvFIN
  <2>3. CASE RecvDATA(e)
    <3>1. /\ h.kind \in {"DATA", "SYN"} /\ UNCHANGED <<thread, current_sequence_num, ack_num>>
          /\ network_recv_queue' = [network_recv_queue EXCEPT ![e] = Tail(@)]
          /\ Send(e, Packet("ACK", 0, Plus(h.seq, h.hi - h.lo), Here(e)))
      BY Zenon, <2>3 DEF RecvDATA, ctxVars
    <3>2. m = h.hi - h.lo
      BY Zenon, <3>1
    <3> QED BY Zenon, <2>1, <3>1, <3>2
  <2> QED BY Zenon, <2>2, <2>3
<1>2. network_recv_queue[e] # <<>>
  BY Zenon, <1>1 DEF StreamInv, StreamAt, EventsBacked
<1>3. h \in Packets /\ h = network_recv_queue[e][1] /\ 1 \in 1 .. Len(network_recv_queue[e])
  BY Zenon, <1>1, <1>2, WindowTypes, Rest
<1>4. h.lo \in Nat /\ h.hi \in Nat /\ h.seq \in Seqs /\ h.lo <= h.hi
  <2>1. Chain(network_recv_queue[e], delivered[e], arrived[e])
    BY Zenon, <1>1 DEF StreamInv, StreamAt, InOrderAt
  <2> QED BY Zenon, <1>3, <2>1, PacketFields DEF Chain
<1>5. h.kind # "DATA" => h.hi = h.lo
  BY Zenon, <1>3 DEF StreamInv, StreamAt, EndsLast, FinsAt
<1>6. m \in Nat /\ (m <= 1 \/ m <= Numbers(h)) /\ h.kind \in NumberedKinds
  <2>1. h.kind \in NumberedKinds
    BY Zenon, <1>1 DEF NumberedKinds
  <2>2. h.kind = "DATA" => m = h.hi - h.lo /\ Numbers(h) = h.hi - h.lo
    BY Zenon DEF Numbers
  <2>3. h.kind = "SYN" => m = h.hi - h.lo
    BY Zenon
  <2>4. h.kind = "FIN" => m = 1
    BY Zenon
  <2> HIDE DEF m, h
  <2>5. CASE h.kind = "DATA"
    <3>1. h.hi - h.lo \in Nat
      BY <1>4
    <3>2. \A n \in Nat : n <= n
      OBVIOUS
    <3> QED BY Zenon, <2>1, <2>2, <2>5, <3>1, <3>2
  <2>6. CASE h.kind = "SYN"
    <3>1. h.hi - h.lo = 0
      BY <1>4, <1>5, <2>6
    <3>2. 0 \in Nat /\ 0 <= 1
      OBVIOUS
    <3> QED BY Zenon, <2>1, <2>3, <2>6, <3>1, <3>2
  <2>7. CASE h.kind = "FIN"
    <3>1. 1 \in Nat /\ 1 <= 1
      OBVIOUS
    <3> QED BY Zenon, <2>1, <2>4, <2>7, <3>1
  <2> QED BY Zenon, <1>1, <2>5, <2>6, <2>7
<1> HIDE DEF m
<1>7. x \in Packets /\ x.kind = "ACK" /\ x.ack = Plus(h.seq, m)
  <2>1. Plus(h.seq, m) \in Seqs /\ 0 \in Seqs
    BY Zenon, <1>1, <1>4, <1>6, WindowTypes, PlusSeq
  <2>2. TypeOK
    BY Zenon, <1>1
  <2>3. \A s \in Seqs : LET y == Packet("ACK", 0, s, Here(e))
                        IN  y \in Packets /\ y.kind = "ACK" /\ y.ack = s
    BY <2>1, <2>2, HereMade, PacketKindFacts
  <2> QED BY Zenon, <2>1, <2>3
<1> HIDE DEF x
<1> QED BY Zenon, <1>1, <1>2, <1>6, <1>7, LoopAnswers

-----------------------------------------------------------------------------
(* The inductive invariant.                                                *)

\* A step of e keeps what the threads of the two ends say to each other.
LEMMA WaysStep ==
    ASSUME StreamInv, NEW e \in End, NEW p \in End, p = Peer(e), Peer(p) = e, p # e, Still(p),
           WindowAt(e), WindowAt(p), Environment(e) \/ TransportThread1(e)
    PROVE  WaysOK(e, p)
<1>t. TypeOK
  BY Zenon DEF StreamInv
<1>k. ASSUME UNCHANGED <<network_recv_queue, wire, current_sequence_num, ack_num>>,
             (thread'[e] = "start") <=> (thread[e] = "start"),
             (thread'[e] = "await") <=> (thread[e] = "await"),
             Gone(e) => Gone(e)'
      PROVE  WaysOK(e, p)
  <2>1. Way(e)' = Way(e) /\ Way(p)' = Way(p)
    BY Zenon, <1>k DEF Way
  <2> QED BY Zenon, <1>k, <2>1, WaysKept DEF WaysOK
<1>1. CASE \/ \E n \in WriteSizes : mywrite(e, n)
           \/ \E n \in ReadSizes : myread(e, n)
           \/ myclose(e) \/ Crash(e) \/ RecvReset(e)
  <2>1. UNCHANGED <<network_recv_queue, wire, current_sequence_num, ack_num, thread>>
    BY Zenon, <1>1 DEF mywrite, myread, myclose, Crash, RecvReset, Abort, queueVars, netVars, loopVars, ctxVars
  <2>2. Gone(e) => Gone(e)'
    BY Zenon, <1>1, <1>t DEF mywrite, myread, myclose, Crash, RecvReset, Abort, TypeOK, Gone
  <2> QED BY Zenon, <1>k, <2>1, <2>2
<1>2. CASE myclose_return(e)
  BY Zenon, <1>2, <1>t, WaysFreed DEF WaysOK
<1>3. CASE RecvPacket(e)
  <2>1. /\ UNCHANGED <<current_sequence_num, ack_num, thread, app>> /\ wire[e] # <<>>
        /\ network_recv_queue'[e] = Append(network_recv_queue[e], Head(wire[e]))
        /\ wire'[e] = Tail(wire[e])
        /\ network_recv_queue'[p] = network_recv_queue[p] /\ wire'[p] = wire[p]
    BY Zenon, <1>3, <1>t DEF RecvPacket, TypeOK, appVars, loopVars, ctxVars
  <2>2. Way(e)' = Append(network_recv_queue[e], Head(wire[e])) \o Tail(wire[e])
    BY Zenon, <2>1 DEF Way
  <2>3. Way(e)' = Way(e) /\ Way(p)' = Way(p)
    BY Zenon, <1>t, <2>1, <2>2, WindowTypes, WayMove, WayKept DEF Way
  <2>4. Gone(e) => Gone(e)'
    BY Zenon, <2>1 DEF Gone
  <2> QED BY Zenon, <2>1, <2>3, <2>4, WaysKept DEF WaysOK
<1>4. CASE RecvEof(e)
  BY Zenon, <1>4, <1>t, WaysEof DEF WaysOK
<1>5. CASE SendSyn(e) \/ RecvSynAck(e) \/ RecvSyn(e) \/ RecvHandshakeAck(e)
  BY Zenon, <1>5, SendSynWays, RecvSynAckWays, RecvSynWays, RecvHandshakeAckWays
<1>6. CASE \/ stcp_wait_for_event(e) \/ AppRecv(e) \/ Skip(e, "APP_DATA") \/ RecvError(e)
  <2>1. UNCHANGED <<network_recv_queue, wire, current_sequence_num, ack_num, thread>>
    BY Zenon, <1>6 DEF stcp_wait_for_event, AppRecv, Skip, RecvError, Abort, queueVars, netVars, loopVars, ctxVars
  <2>2. Gone(e) => Gone(e)'
    BY Zenon, <1>6, <1>t DEF stcp_wait_for_event, AppRecv, Skip, RecvError, Abort, appVars, TypeOK, Gone
  <2> QED BY Zenon, <1>k, <2>1, <2>2
<1>7. CASE SendFails(e) \/ TransportReturn(e)
  <2>1. /\ UNCHANGED <<network_recv_queue, wire, current_sequence_num, ack_num, app>>
        /\ thread[e] = "loop" /\ thread'[e] \in {"spins", "exited"}
    BY Zenon, <1>7, <1>t DEF SendFails, TransportReturn, InLoop, TypeOK, appVars, queueVars, netVars,
       ctxVars
  <2>2. Gone(e) => Gone(e)'
    BY Zenon, <2>1 DEF Gone
  <2> QED BY Zenon, <1>k, <2>1, <2>2
<1>8. CASE SendSegment(e)
  BY Zenon, <1>8, SendSegmentWays
<1>9. CASE CloseRequested(e) /\ InLoop(e) /\ event[e] = {"APP_CLOSE_REQUESTED"}
  BY Zenon, <1>9, CloseRequestedWays
<1>10. CASE /\ RecvACK(e) \/ RecvFIN(e) \/ RecvDATA(e)
            /\ InLoop(e) /\ "NETWORK_DATA" \in event[e]
  BY Zenon, <1>10, RecvACKWays, RecvFINWays
<1>11. CASE Environment(e)
  BY Zenon, <1>1, <1>2, <1>3, <1>4, <1>11 DEF Environment, RecvThread
<1>12. CASE control_loop1(e)
  BY Zenon, <1>6, <1>7, <1>8, <1>9, <1>10, <1>12 DEF control_loop1, NetworkData
<1> QED
  BY Zenon, <1>5, <1>11, <1>12 DEF TransportThread1, transport_init1, Handshake

\* The window invariant is kept by every step of a state of the stream invariant.
LEMMA WindowNext ==
    ASSUME WindowInv, NEW e \in End, Environment(e) \/ TransportThread1(e)
    PROVE  \A f \in End : WindowAt(f)'
<1>1. PICK p \in End : /\ p = Peer(e) /\ Peer(p) = e /\ p # e
                       /\ \A f \in End : f = e \/ f = p
  BY Zenon, Ends
<1>2. StreamInv /\ TypeOK /\ WindowAt(e) /\ WindowAt(p)
  BY Zenon DEF WindowInv, StreamInv
<1>3. Still(p)
  BY Zenon, <1>1, <1>2, PeerStill
<1>4. InWindow(e)' /\ ClosesOnce(e)'
  BY Zenon, <1>2, WindowStep, ClosesOnceStep
<1>5. InWindow(p)' /\ ClosesOnce(p)'
  BY Zenon, <1>2, <1>3 DEF WindowAt, InWindow, ClosesOnce, Still, Gone, FinSent, Unacked
<1>6. WaysOK(e, p)
  BY Zenon, <1>1, <1>2, <1>3, WaysStep
<1> QED BY Zenon, <1>1, <1>4, <1>5, <1>6 DEF WaysOK, WindowAt

\* A step that changes nothing.
LEMMA WindowStutter ==
    ASSUME WindowInv, UNCHANGED vars
    PROVE  \A f \in End : WindowAt(f)'
<1>1. UNCHANGED <<app, thread, event, payload, current_sender_window, close_requested,
                  connection_state, current_sequence_num, ack_num, network_recv_queue, wire>>
  BY Zenon DEF vars, appVars, queueVars, netVars, loopVars, ctxVars
<1> QED
  BY ZenonT(30), <1>1 DEF WindowInv, WindowAt, InWindow, ClosesOnce, HandshakeFirst, FlightAt, Way, Gone,
     FinSent, Unacked

\* The initial sequence numbers count as in flight.
LEMMA WindowInit ==
    ASSUME Init1, NEW e \in End
    PROVE  WindowAt(e)
<1>1. PICK s \in InitialSeqs : s = current_sequence_num[e]
  BY Zenon DEF Init1, MysockInit
<1>2. /\ ack_num[e] = 0 /\ payload[e].lo = 0 /\ payload[e].hi = 0 /\ thread[e] = "start"
      /\ thread[Peer(e)] = "start" /\ event[e] = {} /\ ~close_requested[e] /\ ~FinSent(e)
      /\ network_recv_queue[e] = <<>> /\ wire[e] = <<>>
      /\ network_recv_queue[Peer(e)] = <<>> /\ wire[Peer(e)] = <<>>
  BY Zenon, Ends DEF Init1, MysockInit, FinSent, Run
<1>3. s \in Nat /\ s < SeqMod /\ s + 2 < SENDER_WINDOW /\ SENDER_WINDOW \in Nat
  BY MysockAssumption, WindowAssumption
<1>4. Unacked(e) = s
  <2>1. PICK d \in Nat : d = current_sequence_num[e] - ack_num[e] /\ d = s
    BY <1>1, <1>2, <1>3
  <2>2. SeqMod \in Nat \ {0}
    BY MysockAssumption
  <2> QED BY Zenon, <1>3, <2>1, <2>2, ModLess DEF Unacked
<1>5. InWindow(e) /\ ClosesOnce(e)
  BY <1>2, <1>3, <1>4 DEF InWindow, ClosesOnce
<1>6. Way(e) = <<>> /\ Way(Peer(e)) = <<>>
  <2>1. <<>> \o <<>> = <<>>
    OBVIOUS
  <2> QED BY Zenon, <1>2, <2>1 DEF Way
<1>7. HandshakeFirst(e) /\ FlightAt(e)
  <2>1. HandshakeFirst(e)
    BY ZenonT(30), <1>2, <1>6, NoPackets DEF HandshakeFirst
  <2>2. FlightAt(e)
    BY ZenonT(30), <1>6, NoPackets DEF FlightAt, Flight, AcksRise, NumbersRise, NotAcked
  <2> QED BY Zenon, <2>1, <2>2
<1> QED BY Zenon, <1>5, <1>7 DEF WindowAt

\* What the invariant says of the window.
LEMMA WindowHolds ==
    WindowInv => WindowRespected
<1> SUFFICES ASSUME WindowInv, NEW e \in End
             PROVE  Unacked(e) + (payload[e].hi - payload[e].lo) <=
                       SENDER_WINDOW + (IF FinSent(e) THEN 1 ELSE 0)
  BY Zenon DEF WindowRespected, FinSent
<1> QED BY Zenon DEF WindowInv, WindowAt, InWindow

-----------------------------------------------------------------------------
(* The close of transport1.c.                                              *)

\* What is known of a step of e: it has not gone, no process was killed and none
\* has failed an assertion.
CloseHyp(e, p) ==
    /\ p = Peer(e) /\ Peer(p) = e /\ p # e /\ Still(p) /\ ~Gone(e)
    /\ StreamInv /\ WindowAt(e) /\ WindowAt(p)
    /\ ~Killed /\ NoAbort /\ CloseAt(e) /\ CloseAt(p)

\* A peer that has gone has closed, and its thread has taken the FIN of e.
LEMMA CloseFacts ==
    ASSUME NEW e \in End, NEW p \in End, CloseHyp(e, p)
    PROVE  /\ TypeOK /\ Way(e) \in Seq(Packets) /\ Way(p) \in Seq(Packets)
           /\ Gone(p) => /\ app[p] = "closed" /\ thread[p] = "exited"
                         /\ connection_state[p] = "CLOSED"
                         /\ FinSent(e) /\ delivered[p] = written[e]
           /\ Gone(p)' <=> Gone(p)
           /\ thread'[p] = thread[p] /\ connection_state'[p] = connection_state[p]
           /\ current_sequence_num'[p] = current_sequence_num[p]
<1>1. TypeOK /\ StreamInv /\ p = Peer(e) /\ Peer(p) = e
  BY Zenon DEF CloseHyp, StreamInv
<1>2. Way(e) \in Seq(Packets) /\ Way(p) \in Seq(Packets)
  BY Zenon, <1>1, WindowTypes
<1>3. ASSUME Gone(p)
      PROVE  /\ app[p] = "closed" /\ thread[p] = "exited" /\ connection_state[p] = "CLOSED"
             /\ FinSent(e) /\ delivered[p] = written[e]
  <2>1. app[p] = "closed"
    BY Zenon, <1>3 DEF CloseHyp, Gone, Killed, NoAbort
  <2>2. thread[p] = "exited"
    BY Zenon, <2>1 DEF CloseHyp, CloseAt, ThreadPlace
  <2>3. connection_state[p] = "CLOSED"
    BY Zenon, <1>1, <2>2 DEF StreamInv, StreamAt, ClosesLast
  <2>4. FinSent(e) /\ delivered[p] = written[e]
    BY Zenon, <1>1, <2>3 DEF CloseHyp, CloseAt, FinTaken
  <2> QED BY Zenon, <2>1, <2>2, <2>3, <2>4
<1>4. /\ Gone(p)' <=> Gone(p)
      /\ thread'[p] = thread[p] /\ connection_state'[p] = connection_state[p]
      /\ current_sequence_num'[p] = current_sequence_num[p]
  BY Zenon DEF CloseHyp, Still, Gone
<1> QED BY Zenon, <1>1, <1>2, <1>3, <1>4

\* A packet is taken and one is sent.
LEMMA TakesSends ==
    ASSUME TypeOK, NEW e \in End, NEW p \in End, p = Peer(e), p # e, network_recv_queue[e] # <<>>,
           NEW x \in Packets, Send(e, x),
           network_recv_queue' = [network_recv_queue EXCEPT ![e] = Tail(@)]
    PROVE  /\ Way(e)' = Tail(Way(e)) /\ Way(e) # <<>>
           /\ Head(Way(e)) = Head(network_recv_queue[e])
           /\ Way(p)' = IF Gone(p) THEN Way(p) ELSE Append(Way(p), x)
<1>1. /\ network_recv_queue'[e] = Tail(network_recv_queue[e])
      /\ network_recv_queue'[p] = network_recv_queue[p]
  BY Zenon DEF TypeOK
<1>2. /\ Way(p)' = IF Gone(p) THEN Way(p) ELSE Append(Way(p), x)
      /\ wire'[e] = wire[e]
  BY Zenon, <1>1, WaySent
<1> QED BY Zenon, <1>1, <1>2, WayTaken

-----------------------------------------------------------------------------
(* The answer to the SYN.                                                  *)

\* Once e is past the handshake there is no SYN to answer.
LEMMA SynLate ==
    ASSUME NEW e \in End, NEW p \in End, CloseHyp(e, p),
           thread[e] \notin {"start", "await"}, thread'[e] \notin {"start", "await"}
    PROVE  SynAnswered(e)' /\ SynAnswered(p)'
<1>1. /\ p = Peer(e) /\ Peer(p) = e /\ thread'[p] = thread[p] /\ HandshakeFirst(p)
      /\ (Gone(p)' <=> Gone(p))
  BY Zenon, CloseFacts DEF CloseHyp, WindowAt
<1>2. ~(p = "active" /\ ~Gone(p) /\ thread[p] = "await")
  BY Zenon, <1>1 DEF HandshakeFirst
<1> QED BY Zenon, <1>1, <1>2 DEF SynAnswered

\* A step that leaves the packets on their way.
LEMMA SynKept ==
    ASSUME NEW e \in End, NEW p \in End, CloseHyp(e, p), Way(e)' = Way(e), Way(p)' = Way(p),
           current_sequence_num'[e] = current_sequence_num[e], thread'[e] = thread[e]
    PROVE  SynAnswered(e)' /\ SynAnswered(p)'
<1>1. /\ p = Peer(e) /\ Peer(p) = e /\ thread'[p] = thread[p] /\ (Gone(p)' <=> Gone(p))
      /\ current_sequence_num'[p] = current_sequence_num[p] /\ ~Gone(e)
      /\ SynAnswered(e) /\ SynAnswered(p)
  BY Zenon, CloseFacts DEF CloseHyp, CloseAt
<1>2. SynAnswered(e)'
  BY Zenon, <1>1 DEF SynAnswered
<1>3. SynAnswered(p)'
  BY Zenon, <1>1 DEF SynAnswered
<1> QED BY Zenon, <1>2, <1>3

\* An empty buffer of the receive thread comes too late to be an answer.
LEMMA SynEof ==
    ASSUME NEW e \in End, NEW p \in End, CloseHyp(e, p), RecvEof(e)
    PROVE  SynAnswered(e)' /\ SynAnswered(p)'
<1>1. /\ p = Peer(e) /\ thread' = thread /\ Gone(p) /\ Gone(p)' /\ HandshakeFirst(e)
      /\ thread[p] = "exited" /\ ~Gone(e)
  BY Zenon, CloseFacts DEF CloseHyp, WindowAt, RecvEof, loopVars
<1>2. ~(e = "active" /\ thread[e] = "await")
  BY Zenon, <1>1 DEF HandshakeFirst
<1> QED BY Zenon, <1>1, <1>2 DEF SynAnswered

\* SendSyn: there is nothing on its way but the SYN.
LEMMA SynSent ==
    ASSUME NEW e \in End, NEW p \in End, CloseHyp(e, p), SendSyn(e)
    PROVE  SynAnswered(e)' /\ SynAnswered(p)'
<1> DEFINE x == Packet("SYN", current_sequence_num[e], 0, Here(e))
<1>1. /\ TypeOK /\ Peer(p) = e /\ p = Peer(e) /\ p # e /\ e = "active" /\ ~Gone(e)
      /\ thread[e] = "start" /\ Send(e, x)
      /\ current_sequence_num'[e] = Plus(current_sequence_num[e], 1)
      /\ network_recv_queue' = network_recv_queue
  BY Zenon, CloseFacts DEF CloseHyp, SendSyn, TypeOK, queueVars
<1>2. x \in Packets /\ x.seq = current_sequence_num[e]
  <2>1. 0 \in Seqs /\ current_sequence_num[e] \in Seqs /\ payload[e].lo \in Nat
    BY Zenon, <1>1, WindowTypes
  <2> QED BY Zenon, <2>1 DEF Packet, Here, Run, Packets
<1> HIDE DEF x
<1>3. /\ thread[p] = "start" /\ network_recv_queue[p] = <<>> /\ wire[p] = <<>> /\ ~Gone(p)
  <2>1. HandshakeAt(e)
    BY Zenon, <1>1 DEF CloseHyp, StreamInv, StreamAt
  <2>2. thread[p] = "start" /\ network_recv_queue[p] = <<>> /\ wire[p] = <<>>
    BY Zenon, <1>1, <2>1 DEF HandshakeAt
  <2> QED BY Zenon, <2>2, CloseFacts
<1>4. network_recv_queue[e] = <<>> /\ wire[e] = <<>>
  <2>1. HandshakeAt(p)
    BY Zenon, <1>1, <1>3 DEF CloseHyp, StreamInv, StreamAt
  <2> QED BY Zenon, <1>1, <1>3, <2>1 DEF HandshakeAt
<1>5. Way(p)' = Append(<<>>, x) /\ Way(e)' = <<>>
  <2>1. <<>> \o <<>> = <<>>
    OBVIOUS
  <2>2. Way(p) = <<>> /\ Way(e) = <<>>
    BY Zenon, <1>3, <1>4, <2>1 DEF Way
  <2>3. Way(p)' = Append(Way(p), x) /\ wire'[e] = wire[e]
    BY Zenon, <1>1, <1>2, <1>3, WaySent
  <2> QED BY Zenon, <1>1, <2>2, <2>3, WayKept
<1>6. /\ \A i \in 1 .. Len(Append(<<>>, x)) : Append(<<>>, x)[i] = x
      /\ \A i \in 1 .. Len(<<>>) : FALSE
  OBVIOUS
<1> QED BY Zenon, <1>1, <1>2, <1>5, <1>6 DEF SynAnswered

\* RecvSyn: the answer acknowledges the SYN.
LEMMA SynTaken ==
    ASSUME NEW e \in End, NEW p \in End, CloseHyp(e, p), RecvSyn(e)
    PROVE  SynAnswered(e)' /\ SynAnswered(p)'
<1> DEFINE h == Head(network_recv_queue[e])
           x == Packet("SYNACK", current_sequence_num[e], Plus(h.seq, 1), Here(e))
<1>1. /\ TypeOK /\ Peer(p) = e /\ p = Peer(e) /\ p # e /\ e = "passive" /\ ~Gone(e)
      /\ thread[e] = "start" /\ Send(e, x) /\ network_recv_queue[e] # <<>>
      /\ network_recv_queue' = [network_recv_queue EXCEPT ![e] = Tail(@)]
  BY Zenon, CloseFacts DEF CloseHyp, RecvSyn, TypeOK
<1>2. x \in Packets /\ x.kind = "SYNACK" /\ x.ack = Plus(h.seq, 1)
  <2>1. current_sequence_num[e] \in Seqs /\ network_recv_queue[e] \in Seq(Packets)
    BY Zenon, <1>1, WindowTypes
  <2>2. h \in Packets
    BY <1>1, <2>1
  <2>3. Plus(h.seq, 1) \in Seqs
    BY Zenon, <2>2, PacketFields, PlusSeq
  <2>4. payload[e].lo \in Nat /\ current_sequence_num[e] \in Seqs
    BY Zenon, <1>1, WindowTypes
  <2> HIDE DEF h
  <2> QED BY Zenon, <2>3, <2>4 DEF Packet, Here, Run, Packets
<1> HIDE DEF x, h
<1>3. thread[p] \in {"start", "await"} /\ Way(p) = <<>> /\ ~Gone(p)
  <2>1. HandshakeAt(e)
    BY Zenon, <1>1 DEF CloseHyp, StreamInv, StreamAt
  <2>2. thread[p] \in {"start", "await"} /\ network_recv_queue[p] = <<>> /\ wire[p] = <<>>
    BY Zenon, <1>1, <2>1 DEF HandshakeAt
  <2>3. <<>> \o <<>> = <<>>
    OBVIOUS
  <2> QED BY Zenon, <2>2, <2>3, CloseFacts DEF Way
<1>4. /\ Way(e)' = Tail(Way(e)) /\ Way(e) # <<>> /\ Head(Way(e)) = h
      /\ Way(p)' = Append(<<>>, x) /\ Way(e) \in Seq(Packets)
  <2>1. /\ Way(e)' = Tail(Way(e)) /\ Way(e) # <<>>
        /\ Head(Way(e)) = Head(network_recv_queue[e])
        /\ Way(p)' = IF Gone(p) THEN Way(p) ELSE Append(Way(p), x)
    BY Zenon, <1>1, <1>2, TakesSends
  <2>2. Way(e) \in Seq(Packets)
    BY Zenon, CloseFacts
  <2> QED BY Zenon, <1>3, <2>1, <2>2 DEF h
<1>5. \A i \in 1 .. Len(Append(<<>>, x)) : Append(<<>>, x)[i] = x
  OBVIOUS
<1>6. SynAnswered(e)'
  BY ZenonT(30), <1>1 DEF SynAnswered
<1>7. SynAnswered(p)'
  <2> SUFFICES ASSUME p = "active", ~Gone(p), thread[p] = "await"
               PROVE  /\ x.ack = current_sequence_num[p]
                      /\ \A i \in 1 .. Len(Tail(Way(e))) :
                           Plus(Tail(Way(e))[i].seq, 1) = current_sequence_num[p]
    <3>1. /\ thread'[p] = thread[p] /\ current_sequence_num'[p] = current_sequence_num[p]
          /\ Gone(p)' <=> Gone(p)
      BY Zenon, CloseFacts
    <3> QED BY Zenon, <1>1, <1>2, <1>4, <1>5, <3>1 DEF SynAnswered
  <2>1. \A i \in 1 .. Len(Way(e)) : Plus(Way(e)[i].seq, 1) = current_sequence_num[p]
    BY Zenon, <1>1 DEF CloseHyp, CloseAt, SynAnswered
  <2>2. h = Way(e)[1] /\ 1 \in 1 .. Len(Way(e))
    BY Zenon, <1>4, Rest
  <2>3. x.ack = current_sequence_num[p]
    BY Zenon, <1>2, <2>1, <2>2
  <2> QED BY ZenonT(30), <1>4, <2>1, <2>3, Rest
<1> QED BY Zenon, <1>6, <1>7

\* RecvHandshakeAck: the active end has its answer, or there would be nothing to take.
LEMMA SynOver ==
    ASSUME NEW e \in End, NEW p \in End, CloseHyp(e, p), RecvHandshakeAck(e)
    PROVE  SynAnswered(e)' /\ SynAnswered(p)'
<1>1. /\ TypeOK /\ Peer(p) = e /\ e = "passive" /\ thread[e] = "await"
      /\ network_recv_queue[e] # <<>> /\ thread'[p] = thread[p] /\ (Gone(p)' <=> Gone(p))
      /\ HandshakeFirst(p)
  BY Zenon, CloseFacts DEF CloseHyp, RecvHandshakeAck, WindowAt
<1>2. Way(e) # <<>>
  BY Zenon, <1>1, WindowTypes, WayTail DEF Way
<1>3. ~(p = "active" /\ ~Gone(p) /\ thread[p] = "await")
  BY Zenon, <1>1, <1>2 DEF HandshakeFirst
<1> QED BY Zenon, <1>1, <1>3 DEF SynAnswered

\* RecvSynAck takes the right answer.
LEMMA SynAckRight ==
    ASSUME NEW e \in End, NEW p \in End, CloseHyp(e, p), RecvSynAck(e)
    PROVE  SynAnswered(e)' /\ SynAnswered(p)' /\ app'[e] = "open"
<1> DEFINE h == Head(network_recv_queue[e])
<1>1. /\ TypeOK /\ p = Peer(e) /\ p # e /\ e = "active" /\ ~Gone(e)
      /\ thread[e] = "await" /\ thread'[e] = "loop" /\ network_recv_queue[e] # <<>>
      /\ app'[e] = IF h.kind = "SYNACK" /\ h.ack = current_sequence_num[e]
                   THEN "open" ELSE "killed"
      /\ SynAnswered(e)
  BY Zenon, CloseFacts DEF CloseHyp, CloseAt, RecvSynAck, TypeOK
<1>2. Way(e) # <<>> /\ Head(Way(e)) = h /\ Way(e) \in Seq(Packets)
  BY Zenon, <1>1, WindowTypes, WayTail DEF Way
<1> HIDE DEF h
<1>3. h.kind = "SYNACK" /\ h.ack = current_sequence_num[e]
  <2>1. 1 \in 1 .. Len(Way(e)) /\ Way(e)[1] = h
    BY Zenon, <1>2, Rest
  <2> QED BY Zenon, <1>1, <2>1 DEF SynAnswered
<1> QED BY Zenon, <1>1, <1>3 DEF SynAnswered

\* Every step of e.
LEMMA SynStep ==
    ASSUME NEW e \in End, NEW p \in End, CloseHyp(e, p), Environment(e) \/ TransportThread1(e)
    PROVE  SynAnswered(e)' /\ SynAnswered(p)'
<1>t. TypeOK /\ p = Peer(e) /\ p # e
  BY Zenon, CloseFacts DEF CloseHyp
<1>1. CASE \/ \E n \in WriteSizes : mywrite(e, n)
           \/ \E n \in ReadSizes : myread(e, n)
           \/ myclose(e) \/ Crash(e) \/ RecvReset(e)
  <2>1. UNCHANGED <<network_recv_queue, wire, current_sequence_num, thread>>
    BY Zenon, <1>1 DEF mywrite, myread, myclose, Crash, RecvReset, Abort, queueVars, netVars,
       loopVars, ctxVars
  <2>2. Way(e)' = Way(e) /\ Way(p)' = Way(p)
    BY Zenon, <2>1 DEF Way
  <2> QED BY Zenon, <2>1, <2>2, SynKept
<1>2. CASE myclose_return(e)
  <2>1. thread[e] = "exited" /\ thread' = thread
    BY Zenon, <1>2 DEF myclose_return, loopVars
  <2> QED BY Zenon, <2>1, SynLate
<1>3. CASE RecvPacket(e)
  <2>1. /\ UNCHANGED <<current_sequence_num, thread>>
        /\ wire[e] # <<>> /\ wire'[e] = Tail(wire[e])
        /\ network_recv_queue'[e] = Append(network_recv_queue[e], Head(wire[e]))
        /\ network_recv_queue'[p] = network_recv_queue[p] /\ wire'[p] = wire[p]
    BY Zenon, <1>3, <1>t DEF RecvPacket, TypeOK, loopVars, ctxVars
  <2>2. Way(e)' = Append(network_recv_queue[e], Head(wire[e])) \o Tail(wire[e])
    BY Zenon, <2>1 DEF Way
  <2>3. Way(e)' = Way(e) /\ Way(p)' = Way(p)
    BY Zenon, <1>t, <2>1, <2>2, WindowTypes, WayMove, WayKept DEF Way
  <2> QED BY Zenon, <2>1, <2>3, SynKept
<1>4. CASE RecvEof(e)
  BY Zenon, <1>4, SynEof
<1>5. CASE transport_init1(e)
  BY Zenon, <1>5, SynSent, SynAckRight, SynTaken, SynOver DEF transport_init1, Handshake
<1>6. CASE control_loop1(e)
  <2>1. thread[e] = "loop"
    BY Zenon, <1>6 DEF control_loop1, stcp_wait_for_event, InLoop, SendSegment, SendFails, TransportReturn
  <2>2. thread'[e] \in {"loop", "spins", "exited"}
    <3>1. CASE stcp_wait_for_event(e) \/ SendSegment(e) \/ CloseRequested(e) \/ AppRecv(e)
               \/ Skip(e, "APP_DATA")
      BY Zenon, <2>1, <3>1 DEF stcp_wait_for_event, SendSegment, CloseRequested, AppRecv, Skip
    <3>2. CASE SendFails(e) \/ TransportReturn(e)
      BY Zenon, <1>t, <3>2 DEF SendFails, TransportReturn, TypeOK
    <3>3. CASE NetworkData(e)
      BY Zenon, <2>1, <3>3 DEF NetworkData, RecvACK, RecvFIN, RecvDATA, RecvError, Abort, loopVars
    <3> QED BY Zenon, <1>6, <3>1, <3>2, <3>3 DEF control_loop1
  <2> QED BY Zenon, <2>1, <2>2, SynLate
<1> QED
  BY Zenon, <1>1, <1>2, <1>3, <1>4, <1>5, <1>6 DEF Environment, RecvThread, TransportThread1

-----------------------------------------------------------------------------
(* The place of the thread, and the reset.                                 *)

\* The state of e goes with its thread's place, and e is not killed but by Crash.
LEMMA ThreadStep ==
    ASSUME NEW e \in End, NEW p \in End, CloseHyp(e, p),
           Environment(e) \/ TransportThread1(e), ~Crash(e)
    PROVE  ThreadPlace(e)' /\ app'[e] # "killed"
<1>t. TypeOK /\ ThreadPlace(e) /\ app[e] # "killed" /\ ~Gone(e)
  BY Zenon, CloseFacts DEF CloseHyp, CloseAt, Killed
<1>a. ASSUME Abort(e) PROVE ThreadPlace(e)' /\ app'[e] # "killed"
  BY Zenon, <1>a, <1>t DEF Abort, TypeOK, ThreadPlace, loopVars, ctxVars
<1>1. CASE \/ \E n \in WriteSizes : mywrite(e, n)
           \/ \E n \in ReadSizes : myread(e, n)
           \/ myclose(e) \/ myclose_return(e) \/ RecvPacket(e) \/ RecvEof(e)
  BY Zenon, <1>1, <1>t DEF mywrite, myread, myclose, myclose_return, RecvPacket, RecvEof,
     TypeOK, ThreadPlace, appVars, loopVars, ctxVars
<1>2. CASE SendSyn(e) \/ RecvSyn(e) \/ RecvHandshakeAck(e)
  BY ZenonT(30), <1>2, <1>t DEF SendSyn, RecvSyn, RecvHandshakeAck, TypeOK, ThreadPlace, Gone, appVars
<1>3. CASE RecvSynAck(e)
  <2>1. app'[e] = "open"
    BY Zenon, <1>3, SynAckRight
  <2> QED BY Zenon, <1>3, <1>t, <2>1 DEF RecvSynAck, TypeOK, ThreadPlace
<1>4. CASE stcp_wait_for_event(e)
  BY Zenon, <1>4, <1>t DEF stcp_wait_for_event, TypeOK, ThreadPlace, appVars, ctxVars
<1>5. CASE AppRecv(e) \/ Skip(e, "APP_DATA")
  <2>1. UNCHANGED <<app, thread, connection_state>>
    BY Zenon, <1>5, <1>t DEF AppRecv, Skip, appVars, ctxVars
  <2> QED BY Zenon, <1>t, <2>1 DEF ThreadPlace
<1>6. CASE SendSegment(e)
  BY Zenon, <1>6, <1>t DEF SendSegment, ThreadPlace, appVars
<1>7. CASE SendFails(e) \/ TransportReturn(e)
  BY Zenon, <1>7, <1>t DEF SendFails, TransportReturn, InLoop, TypeOK, ThreadPlace, Gone, appVars, ctxVars
<1>8. CASE CloseRequested(e) /\ InLoop(e) /\ event[e] = {"APP_CLOSE_REQUESTED"}
  <2>1. /\ UNCHANGED <<app, thread>>
        /\ connection_state'[e] \in {"FIN_WAIT_1", "CLOSED"} /\ thread[e] = "loop"
    BY Zenon, <1>8, <1>t DEF CloseRequested, InLoop, TypeOK, appVars
  <2> QED BY Zenon, <1>t, <2>1 DEF ThreadPlace
<1>9. CASE NetworkData(e) /\ InLoop(e) /\ "NETWORK_DATA" \in event[e]
  <2>1. thread[e] = "loop"
    BY Zenon, <1>9 DEF InLoop
  <2>2. CASE RecvACK(e) \/ RecvFIN(e) \/ RecvDATA(e)
    <3>1. UNCHANGED <<app, thread>>
      BY Zenon, <2>2, <1>t DEF RecvACK, RecvFIN, RecvDATA, appVars
    <3>2. \/ connection_state'[e] = connection_state[e]
          \/ connection_state'[e] \in {"FIN_WAIT_2", "CLOSE_WAIT", "CLOSED"}
      BY Zenon, <2>2, <1>t DEF RecvACK, RecvFIN, RecvDATA, TypeOK, ctxVars
    <3> QED BY Zenon, <1>t, <2>1, <3>1, <3>2 DEF ThreadPlace
  <2>3. CASE RecvError(e)
    BY Zenon, <1>a, <2>3 DEF RecvError
  <2> QED BY Zenon, <1>9, <2>2, <2>3 DEF NetworkData
<1>10. CASE Environment(e)
  BY Zenon, <1>1, <1>a, <1>10 DEF Environment, RecvThread, RecvReset
<1>11. CASE control_loop1(e)
  BY Zenon, <1>4, <1>5, <1>6, <1>7, <1>8, <1>9, <1>11 DEF control_loop1
<1> QED
  BY Zenon, <1>2, <1>3, <1>10, <1>11 DEF TransportThread1, transport_init1, Handshake

\* A RST comes from the kernel of a process that has gone.
LEMMA ResetStep ==
    ASSUME NEW e \in End, NEW p \in End, CloseHyp(e, p), Environment(e) \/ TransportThread1(e)
    PROVE  ResetLast(e)' /\ ResetLast(p)'
<1>t. /\ TypeOK /\ p = Peer(e) /\ Peer(p) = e /\ p # e /\ ~Gone(e) /\ (Gone(p)' <=> Gone(p))
      /\ reset[e] => Gone(p)
      /\ ~reset[p]
  BY Zenon, CloseFacts DEF CloseHyp, CloseAt, ResetLast
<1>k. ASSUME reset' = reset PROVE ResetLast(e)' /\ ResetLast(p)'
  BY Zenon, <1>k, <1>t DEF ResetLast
<1>s. ASSUME NEW x, Send(e, x) PROVE ResetLast(e)' /\ ResetLast(p)'
  <2>1. reset'[e] = (reset[e] \/ Gone(p)) /\ reset'[p] = reset[p]
    BY Zenon, <1>s, <1>t DEF Send, TypeOK
  <2> QED BY Zenon, <1>t, <2>1 DEF ResetLast
<1>c. ASSUME CloseSocket(e), Gone(e)' PROVE ResetLast(e)' /\ ResetLast(p)'
  <2>1. reset'[e] = reset[e]
    BY Zenon, <1>c, <1>t DEF CloseSocket, TypeOK
  <2> QED BY Zenon, <1>c, <1>t, <2>1 DEF ResetLast
<1>1. CASE \/ \E n \in WriteSizes : mywrite(e, n)
           \/ \E n \in ReadSizes : myread(e, n)
           \/ myclose(e) \/ RecvPacket(e) \/ RecvEof(e)
  BY Zenon, <1>1, <1>k DEF mywrite, myread, myclose, RecvPacket, RecvEof, netVars
<1>2. CASE myclose_return(e) \/ Crash(e) \/ Abort(e)
  BY Zenon, <1>2, <1>c, <1>t DEF myclose_return, Crash, Abort, Gone, TypeOK
<1>3. CASE SendSyn(e) \/ RecvSynAck(e) \/ RecvSyn(e)
  BY Zenon, <1>3, <1>s DEF SendSyn, RecvSynAck, RecvSyn
<1>4. CASE \/ RecvHandshakeAck(e) \/ stcp_wait_for_event(e) \/ AppRecv(e) \/ Skip(e, "APP_DATA")
           \/ TransportReturn(e) \/ RecvACK(e)
  BY Zenon, <1>4, <1>k DEF RecvHandshakeAck, stcp_wait_for_event, AppRecv, Skip, TransportReturn,
     RecvACK, netVars
<1>5. CASE SendSegment(e) \/ RecvFIN(e) \/ RecvDATA(e) \/ CloseRequested(e)
  BY Zenon, <1>5, <1>s DEF SendSegment, RecvFIN, RecvDATA, CloseRequested
<1>6. CASE SendFails(e)
  <2>1. reset'[p] = reset[p] /\ Gone(p)
    BY Zenon, <1>6, <1>t DEF SendFails, TypeOK
  <2> QED BY Zenon, <1>t, <2>1 DEF ResetLast
<1>7. CASE Environment(e)
  BY Zenon, <1>1, <1>2, <1>7 DEF Environment, RecvThread, RecvReset
<1>8. CASE control_loop1(e)
  BY Zenon, <1>2, <1>4, <1>5, <1>6, <1>8 DEF control_loop1, NetworkData, RecvError
<1> QED
  BY Zenon, <1>3, <1>4, <1>7, <1>8 DEF TransportThread1, transport_init1, Handshake

-----------------------------------------------------------------------------
(* The FIN is behind all of the data.                                      *)

\* A chain of packets goes forward.
LEMMA ChainForward ==
    ASSUME NEW q \in Seq(Packets), NEW from \in Nat, NEW to \in Nat, Chain(q, from, to)
    PROVE  /\ from <= to
           /\ q # <<>> => Head(q).lo = from /\ from <= Head(q).hi /\ Head(q).hi <= to
<1>1. CASE q = <<>>
  BY <1>1 DEF Chain
<1>2. CASE q # <<>>
  <2>1. /\ 1 \in 1 .. Len(q) /\ Len(q) \in 1 .. Len(q) /\ Head(q) = q[1]
        /\ Len(q) \in Nat
    BY <1>2
  <2>2. /\ q[1] \in Packets /\ q[Len(q)] \in Packets
    BY <2>1
  <2>3. /\ q[1].lo \in Nat /\ q[1].hi \in Nat /\ q[Len(q)].lo \in Nat /\ q[Len(q)].hi \in Nat
    BY Zenon, <2>2, PacketFields
  <2>4. /\ q[1].lo = from /\ q[Len(q)].hi = to /\ q[1].lo <= q[1].hi
        /\ q[Len(q)].lo <= q[Len(q)].hi
        /\ 1 < Len(q) => q[1].hi <= q[Len(q)].lo
    BY Zenon, <1>2, <2>1 DEF Chain
  <2>5. Len(q) = 1 \/ 1 < Len(q)
    <3>1. ASSUME NEW n \in Nat, n \in 1 .. n PROVE n = 1 \/ 1 < n
      BY <3>1
    <3> QED BY Zenon, <2>1, <3>1
  <2> QED BY <2>1, <2>3, <2>4, <2>5
<1> QED BY Zenon, <1>1, <1>2

\* The packet that e takes in its loop: it is the next of the stream, and a FIN is at
\* the end of what the peer has written.
LEMMA NextOfStream ==
    ASSUME StreamInv, NEW e \in End, NEW p \in End, p = Peer(e), InLoop(e),
           "NETWORK_DATA" \in event[e]
    PROVE  LET h == Head(network_recv_queue[e])
           IN  /\ h.lo = delivered[e] /\ h.hi \in Nat /\ delivered[e] \in Nat
               /\ delivered[e] <= h.hi /\ h.hi <= written[p] /\ written[p] \in Nat
               /\ h.kind = "FIN" => FinSent(p) /\ h.lo = written[p]
<1>1. /\ TypeOK /\ ~Gone(e) /\ InOrderAt(e) /\ EndsLast(e) /\ EventsBacked(e)
  BY Zenon DEF StreamInv, StreamAt, InLoop
<1>2. network_recv_queue[e] # <<>>
  BY Zenon, <1>1 DEF EventsBacked
<1>3. /\ network_recv_queue[e] \in Seq(Packets) /\ wire[e] \in Seq(Packets)
      /\ delivered[e] \in Nat /\ arrived[e] \in Nat /\ written[p] \in Nat
      /\ payload[p].lo \in Nat /\ payload[p].hi \in Nat
  BY Zenon, <1>1, WindowTypes DEF TypeOK
<1>4. /\ Chain(network_recv_queue[e], delivered[e], arrived[e])
      /\ Chain(wire[e], arrived[e], payload[p].lo)
      /\ payload[p].lo <= payload[p].hi /\ payload[p].hi <= written[p]
  BY Zenon, <1>1 DEF InOrderAt
<1>5. PICK h \in Packets : /\ h = Head(network_recv_queue[e]) /\ h = network_recv_queue[e][1]
                           /\ 1 \in 1 .. Len(network_recv_queue[e])
  BY Zenon, <1>2, <1>3, Rest
<1>6. h.lo \in Nat /\ h.hi \in Nat
  BY Zenon, PacketFields
<1>7. h.lo = delivered[e] /\ delivered[e] <= h.hi /\ h.hi <= arrived[e] /\ arrived[e] <= payload[p].lo
  BY Zenon, <1>2, <1>3, <1>4, <1>5, ChainForward
<1>8. h.hi <= written[p]
  BY <1>3, <1>4, <1>6, <1>7
<1>9. h.kind = "FIN" => FinSent(p) /\ h.lo = written[p]
  BY Zenon, <1>1, <1>5 DEF EndsLast, FinsAt, EndPlace
<1> QED BY Zenon, <1>3, <1>5, <1>6, <1>7, <1>8, <1>9

\* Once the FIN of e is sent, it stays sent and e writes no more.
LEMMA FinStays ==
    ASSUME NEW e \in End, NEW p \in End, CloseHyp(e, p), Environment(e) \/ TransportThread1(e)
    PROVE  /\ FinSent(e) => FinSent(e)' /\ written'[e] = written[e]
           /\ delivered'[p] = delivered[p] /\ written'[p] = written[p]
<1>t. /\ TypeOK /\ p # e
      /\ FinSent(e) => app[e] # "open" /\ thread[e] \notin {"start", "await"}
  BY Zenon, CloseFacts DEF CloseHyp, StreamInv, StreamAt, ClosesLast, Flushed
<1>1. CASE \E n \in WriteSizes : mywrite(e, n)
  <2>1. app[e] = "open" /\ delivered' = delivered /\ written'[p] = written[p]
    BY Zenon, <1>1, <1>t DEF mywrite, TypeOK, histVars
  <2> QED BY Zenon, <1>t, <2>1
<1>2. CASE \/ \E n \in ReadSizes : myread(e, n)
           \/ myclose(e) \/ myclose_return(e) \/ Crash(e) \/ RecvThread(e)
  BY Zenon, <1>2 DEF myread, myclose, myclose_return, Crash, RecvThread, RecvPacket, RecvEof,
     RecvReset, Abort, appVars, ctxVars, histVars, FinSent
<1>3. CASE SendSyn(e) \/ RecvSynAck(e) \/ RecvSyn(e) \/ RecvHandshakeAck(e)
  BY Zenon, <1>3, <1>t DEF SendSyn, RecvSynAck, RecvSyn, RecvHandshakeAck, appVars, histVars
<1>4. CASE \/ stcp_wait_for_event(e) \/ AppRecv(e) \/ Skip(e, "APP_DATA") \/ SendSegment(e)
           \/ SendFails(e) \/ TransportReturn(e)
  BY Zenon, <1>4 DEF stcp_wait_for_event, AppRecv, Skip, SendSegment, SendFails, TransportReturn,
     appVars, ctxVars, histVars, FinSent
<1>5. CASE CloseRequested(e)
  BY Zenon, <1>5, <1>t DEF CloseRequested, TypeOK, appVars, histVars, FinSent
<1>6. CASE RecvACK(e) \/ RecvFIN(e)
  BY Zenon, <1>6, <1>t DEF RecvACK, RecvFIN, TypeOK, appVars, histVars, FinSent
<1>7. CASE RecvDATA(e) \/ RecvError(e)
  BY Zenon, <1>7, <1>t DEF RecvDATA, RecvError, Abort, TypeOK, appVars, ctxVars, histVars, FinSent
<1>8. CASE Environment(e)
  BY Zenon, <1>1, <1>2, <1>8 DEF Environment
<1>9. CASE control_loop1(e)
  BY Zenon, <1>4, <1>5, <1>6, <1>7, <1>9 DEF control_loop1, NetworkData
<1> QED
  BY Zenon, <1>3, <1>8, <1>9 DEF TransportThread1, transport_init1, Handshake

\* A step of e takes it to CLOSE_WAIT or CLOSED only with the FIN of its peer, and
\* nothing is delivered to it behind that.
LEMMA FinStep ==
    ASSUME NEW e \in End, NEW p \in End, CloseHyp(e, p), Environment(e) \/ TransportThread1(e)
    PROVE  FinTaken(e)' /\ FinTaken(p)'
<1> DEFINE Ended(s) == s \in {"CLOSE_WAIT", "CLOSED"}
<1>t. /\ TypeOK /\ StreamInv /\ p # e /\ p = Peer(e) /\ Peer(p) = e
      /\ connection_state'[p] = connection_state[p]
      /\ FinTaken(e) /\ FinTaken(p) /\ ThreadPlace(e) /\ ClosesOnce(e)
  BY Zenon, CloseFacts DEF CloseHyp, CloseAt, WindowAt
<1>f. /\ FinSent(e) => FinSent(e)' /\ written'[e] = written[e]
      /\ delivered'[p] = delivered[p] /\ written'[p] = written[p]
  BY Zenon, FinStays
<1>p. FinTaken(p)'
  BY Zenon, <1>t, <1>f DEF FinTaken
<1>k. ASSUME delivered'[e] = delivered[e], Ended(connection_state'[e]) => Ended(connection_state[e])
      PROVE  FinTaken(e)'
  <2>1. FinSent(p)' <=> FinSent(p)
    BY Zenon, <1>t DEF FinSent
  <2> QED BY Zenon, <1>t, <1>f, <1>k, <2>1 DEF FinTaken
<1> SUFFICES FinTaken(e)'
  BY Zenon, <1>p
<1>1. CASE Environment(e)
  <2>1. UNCHANGED <<delivered, connection_state>>
    BY Zenon, <1>1 DEF Environment, mywrite, myread, myclose, myclose_return, Crash, RecvThread,
       RecvPacket, RecvEof, RecvReset, Abort, ctxVars, histVars
  <2> QED BY Zenon, <1>k, <2>1
<1>2. CASE SendSyn(e) \/ RecvSynAck(e) \/ RecvSyn(e) \/ RecvHandshakeAck(e)
  BY ZenonT(30), <1>2, <1>t, <1>k DEF SendSyn, RecvSynAck, RecvSyn, RecvHandshakeAck, TypeOK, histVars
<1>3. CASE \/ stcp_wait_for_event(e) \/ AppRecv(e) \/ Skip(e, "APP_DATA") \/ SendSegment(e)
           \/ SendFails(e) \/ TransportReturn(e) \/ RecvError(e)
  <2>1. UNCHANGED <<delivered, connection_state>>
    BY Zenon, <1>3 DEF stcp_wait_for_event, AppRecv, Skip, SendSegment, SendFails, TransportReturn,
       RecvError, Abort, ctxVars, histVars
  <2> QED BY Zenon, <1>k, <2>1
<1>4. CASE CloseRequested(e) /\ InLoop(e) /\ event[e] = {"APP_CLOSE_REQUESTED"}
  <2>1. /\ delivered' = delivered
        /\ connection_state'[e] = IF connection_state[e] = "ESTABLISHED" THEN "FIN_WAIT_1" ELSE "CLOSED"
        /\ thread[e] = "loop" /\ ~Gone(e)
    BY Zenon, <1>4, <1>t DEF CloseRequested, InLoop, TypeOK, histVars
  <2>2. /\ connection_state[e] \notin {"SYN_SENT", "SYN_RECEIVED"}
        /\ ~FinSent(e) /\ connection_state[e] \in CState
    BY Zenon, <1>4, <1>t, <2>1 DEF ThreadPlace, ClosesOnce, TypeOK
  <2>3. connection_state[e] \in {"ESTABLISHED", "CLOSE_WAIT"}
    BY Zenon, <2>2 DEF CState, FinSent
  <2> QED BY Zenon, <1>k, <2>1, <2>3
<1>5. CASE RecvACK(e)
  BY ZenonT(30), <1>5, <1>t, <1>k DEF RecvACK, TypeOK, histVars
<1>6. CASE (RecvFIN(e) \/ RecvDATA(e)) /\ InLoop(e) /\ "NETWORK_DATA" \in event[e]
  <2> DEFINE h == Head(network_recv_queue[e])
  <2>1. /\ h.lo = delivered[e] /\ h.hi \in Nat /\ delivered[e] \in Nat
        /\ delivered[e] <= h.hi /\ h.hi <= written[p] /\ written[p] \in Nat
        /\ h.kind = "FIN" => FinSent(p) /\ h.lo = written[p]
    BY Zenon, <1>6, <1>t, NextOfStream
  <2>2. CASE RecvFIN(e)
    <3>1. h.kind = "FIN" /\ delivered' = delivered
      BY Zenon, <2>2 DEF RecvFIN, histVars
    <3>2. FinSent(p)' /\ delivered'[e] = written'[p]
      BY Zenon, <1>f, <1>t, <2>1, <3>1 DEF FinSent
    <3> QED BY Zenon, <1>t, <3>2 DEF FinTaken
  <2>3. CASE RecvDATA(e)
    <3>1. /\ delivered'[e] = delivered[e] + (h.hi - h.lo) /\ connection_state' = connection_state
      BY Zenon, <2>3, <1>t DEF RecvDATA, TypeOK, ctxVars
    <3>2. CASE Ended(connection_state[e])
      <4>1. delivered[e] = written[p]
        BY Zenon, <1>t, <3>2 DEF FinTaken
      <4>2. delivered'[e] = delivered[e]
        <5> HIDE DEF h
        <5> QED BY <2>1, <3>1, <4>1
      <4> QED BY Zenon, <1>k, <3>1, <4>2
    <3>3. CASE ~Ended(connection_state[e])
      BY Zenon, <3>1, <3>3 DEF FinTaken
    <3> QED BY Zenon, <3>2, <3>3
  <2> QED BY Zenon, <1>6, <2>2, <2>3
<1>7. CASE control_loop1(e)
  BY Zenon, <1>3, <1>4, <1>5, <1>6, <1>7 DEF control_loop1, NetworkData
<1> QED
  BY Zenon, <1>1, <1>2, <1>7 DEF TransportThread1, transport_init1, Handshake

-----------------------------------------------------------------------------
(* The inductive invariant of the close.                                   *)

\* Only the thread that takes an ERR packet or sees a RST fails an assertion, and
\* both come from a peer that has gone.
LEMMA AbortStep ==
    ASSUME NEW e \in End, NEW p \in End, CloseHyp(e, p), Environment(e) \/ TransportThread1(e),
           app'[e] = "aborted"
    PROVE  FinSent(e)' /\ delivered'[p] = written'[e] /\ app'[p] = "closed"
<1>t. TypeOK /\ StreamInv /\ p = Peer(e) /\ ~Gone(e) /\ app[e] # "aborted"
  BY Zenon, CloseFacts DEF CloseHyp, NoAbort
<1>g. ASSUME Gone(p)
      PROVE  FinSent(e)' /\ delivered'[p] = written'[e] /\ app'[p] = "closed"
  <2>1. app[p] = "closed" /\ FinSent(e) /\ delivered[p] = written[e]
    BY Zenon, <1>g, CloseFacts
  <2>2. FinSent(e)' /\ written'[e] = written[e] /\ delivered'[p] = delivered[p]
    BY Zenon, <2>1, FinStays
  <2>3. app'[p] = app[p]
    BY Zenon DEF CloseHyp, Still
  <2> QED BY Zenon, <2>1, <2>2, <2>3
<1>1. CASE Environment(e)
  <2>1. RecvReset(e)
    BY Zenon, <1>1, <1>t DEF Environment, mywrite, myread, myclose, myclose_return, Crash,
       RecvThread, RecvPacket, RecvEof, TypeOK, appVars
  <2>2. Gone(p)
    BY Zenon, <1>t, <2>1 DEF RecvReset, CloseHyp, CloseAt, ResetLast
  <2> QED BY Zenon, <1>g, <2>2
<1>2. CASE transport_init1(e)
  BY Zenon, <1>2, <1>t DEF transport_init1, Handshake, SendSyn, RecvSynAck, RecvSyn, RecvHandshakeAck,
     TypeOK, appVars
<1>3. CASE control_loop1(e)
  <2>1. RecvError(e) /\ InLoop(e) /\ "NETWORK_DATA" \in event[e]
    <3>1. CASE \/ stcp_wait_for_event(e) \/ SendSegment(e) \/ CloseRequested(e) \/ AppRecv(e)
               \/ Skip(e, "APP_DATA") \/ SendFails(e) \/ TransportReturn(e)
      BY Zenon, <1>t, <3>1 DEF stcp_wait_for_event, SendSegment, CloseRequested, AppRecv, Skip,
         SendFails, TransportReturn, appVars
    <3>2. CASE RecvACK(e) \/ RecvFIN(e) \/ RecvDATA(e)
      BY Zenon, <1>t, <3>2 DEF RecvACK, RecvFIN, RecvDATA, appVars
    <3> QED BY Zenon, <1>3, <3>1, <3>2 DEF control_loop1, NetworkData
  <2>2. network_recv_queue[e] # <<>> /\ Head(network_recv_queue[e]).kind = "ERR"
    BY Zenon, <1>t, <2>1 DEF StreamInv, StreamAt, EventsBacked, RecvError
  <2>3. Way(e) # <<>> /\ Head(Way(e)).kind = "ERR" /\ Way(e) \in Seq(Packets)
    BY Zenon, <1>t, <2>2, WindowTypes, WayTail DEF Way
  <2>4. "ERR" \in Kinds(Way(e))
    BY Zenon, <2>3, KindFacts
  <2>5. Gone(p)
    BY Zenon, <1>t, <2>4 DEF CloseHyp, WindowAt, HandshakeFirst
  <2> QED BY Zenon, <1>g, <2>5
<1> QED BY Zenon, <1>1, <1>2, <1>3 DEF TransportThread1

\* A process that has gone takes no step.
LEMMA GoneStops ==
    ASSUME TypeOK, NEW e \in End, Environment(e) \/ TransportThread1(e)
    PROVE  ~Gone(e)
<1> SUFFICES ASSUME Gone(e) PROVE FALSE
  BY Zenon
<1>1. app[e] \notin {"open", "closing"}
  BY Zenon DEF Gone
<1>2. ~Environment(e)
  BY Zenon, <1>1 DEF Environment, mywrite, myread, myclose, myclose_return, Crash, RecvThread,
     RecvPacket, RecvEof, RecvReset
<1>3. ~TransportThread1(e)
  BY Zenon, <1>1 DEF TransportThread1, transport_init1, Handshake, SendSyn, RecvSynAck, RecvSyn,
     RecvHandshakeAck, control_loop1, stcp_wait_for_event, InLoop, SendSegment, SendFails,
     TransportReturn
<1> QED BY Zenon, <1>2, <1>3

\* The close invariant is kept by every step of a state of the window invariant.
LEMMA CloseNext ==
    ASSUME CloseInv, WindowInv', NEW e \in End, Environment(e) \/ TransportThread1(e)
    PROVE  CloseInv'
<1>1. PICK p \in End : /\ p = Peer(e) /\ Peer(p) = e /\ p # e
                       /\ \A f \in End : f = e \/ f = p
  BY Zenon, Ends
<1>2. StreamInv /\ TypeOK /\ WindowAt(e) /\ WindowAt(p)
  BY Zenon DEF CloseInv, WindowInv, StreamInv
<1>3. Still(p) /\ app'[p] = app[p] /\ ~Gone(e)
  BY Zenon, <1>1, <1>2, PeerStill, GoneStops DEF Still
<1>k. ASSUME Killed', MayCrash # {} PROVE CloseInv'
  BY Zenon, <1>k DEF CloseInv, AbortsAtEnd
<1>4. CASE Killed
  <2>1. app[p] = "killed" /\ MayCrash # {}
    BY Zenon, <1>1, <1>3, <1>4 DEF Killed, Gone, CloseInv
  <2> QED BY Zenon, <1>3, <1>k, <2>1 DEF Killed
<1>5. CASE Crash(e)
  <2>1. app'[e] = "killed" /\ MayCrash # {}
    BY Zenon, <1>2, <1>5 DEF Crash, TypeOK
  <2> QED BY Zenon, <1>k, <2>1 DEF Killed
<1>6. CASE ~Killed /\ ~Crash(e)
  <2>0. NoAbort
    <3>1. app[e] # "aborted"
      BY Zenon, <1>3 DEF Gone
    <3>2. app[p] # "aborted"
      BY Zenon, <1>1, <1>3, <1>6 DEF CloseInv, AbortsAtEnd, Gone
    <3> QED BY Zenon, <1>1, <3>1, <3>2 DEF NoAbort
  <2>1. CloseHyp(e, p)
    BY Zenon, <1>1, <1>2, <1>3, <1>6, <2>0 DEF CloseHyp, CloseInv
  <2>2. /\ ThreadPlace(e)' /\ app'[e] # "killed" /\ SynAnswered(e)' /\ SynAnswered(p)'
        /\ FinTaken(e)' /\ FinTaken(p)' /\ ResetLast(e)' /\ ResetLast(p)'
    BY Zenon, <1>6, <2>1, SynStep, ThreadStep, FinStep, ResetStep
  <2>3. ThreadPlace(p)' /\ app'[p] # "killed" /\ app'[p] # "aborted"
    BY Zenon, <1>3, <1>6, <2>1 DEF CloseHyp, CloseAt, ThreadPlace, Still, Killed, NoAbort
  <2>4. (\A f \in End : CloseAt(f)') /\ ~Killed'
    BY Zenon, <1>1, <2>2, <2>3 DEF CloseAt, Killed
  <2>5. AbortsAtEnd'
    BY Zenon, <1>1, <2>1, <2>3, AbortStep DEF AbortsAtEnd
  <2> QED BY Zenon, <2>4, <2>5 DEF CloseInv
<1> QED BY Zenon, <1>4, <1>5, <1>6

\* A step that changes nothing.
LEMMA CloseStutter ==
    ASSUME CloseInv, WindowInv', UNCHANGED vars
    PROVE  CloseInv'
<1>1. UNCHANGED <<app, written, thread, connection_state, current_sequence_num,
                  network_recv_queue, wire, reset, delivered>>
  BY Zenon DEF vars, appVars, queueVars, netVars, loopVars, ctxVars, histVars
<1>2. (Killed' <=> Killed) /\ (NoAbort' <=> NoAbort) /\ AbortsAtEnd'
  BY Zenon, <1>1 DEF Killed, NoAbort, AbortsAtEnd, FinSent, CloseInv
<1>3. ASSUME NEW e \in End, CloseAt(e) PROVE CloseAt(e)'
  BY Zenon, <1>1, <1>3 DEF CloseAt, ThreadPlace, SynAnswered, FinTaken, ResetLast, Way, Gone, FinSent
<1> QED BY Zenon, <1>2, <1>3 DEF CloseInv

\* At first nothing is on its way and both ends are in SYN_SENT.
LEMMA CloseInit ==
    ASSUME Init1, WindowInv
    PROVE  CloseInv
<1>1. ~Killed /\ AbortsAtEnd
  BY Zenon DEF Init1, MysockInit, Killed, AbortsAtEnd
<1>2. ASSUME NEW e \in End PROVE CloseAt(e)
  <2>1. /\ app[e] = "blocked" /\ thread[e] = "start" /\ connection_state[e] = "SYN_SENT"
        /\ ~reset[e]
    BY Zenon DEF Init1, MysockInit
  <2> QED BY Zenon, <2>1 DEF CloseAt, ThreadPlace, SynAnswered, FinTaken, ResetLast
<1> QED BY Zenon, <1>1, <1>2 DEF CloseInv

=============================================================================
