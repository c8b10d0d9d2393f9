-------------------------- MODULE VnsSessionProofs --------------------------
(***************************************************************************)
(* Proofs about the session of the router with the controller.             *)
(***************************************************************************)
EXTENDS VnsSession, Integers, FiniteSetTheorems, TLAPS

-----------------------------------------------------------------------------
(* Induction, with a set for the predicate.                                *)

LEMMA LeastElement ==
    ASSUME NEW T \in SUBSET Nat, T # {}
    PROVE  \E x \in T : \A y \in T : x <= y
<1>1. PICK x \in T : \A y \in T : ~(<<y, x>> \in OpToRel(<, Nat))
  BY Zenon, NatLessThanWellFounded, WFMin
<1>2. \A y \in T : ~(y < x)
  BY Zenon, <1>1 DEF OpToRel
<1>3. \A y \in T : x \in Nat /\ y \in Nat
  OBVIOUS
<1> QED BY <1>2, <1>3

LEMMA SetInduction ==
    ASSUME NEW S, 0 \in S, \A n \in Nat : n \in S => n + 1 \in S
    PROVE  Nat \subseteq S
<1> SUFFICES ASSUME Nat \ S # {} PROVE FALSE
  OBVIOUS
<1>1. PICK x \in Nat \ S : \A y \in Nat \ S : x <= y
  BY Zenon, LeastElement
<1>2. x # 0 /\ x - 1 \in Nat /\ x - 1 \notin Nat \ S
  BY <1>1
<1> QED BY <1>1, <1>2

\* The place of a byte of a command that starts at a, from where b starts.
LEMMA PlaceBehind ==
    ASSUME NEW a \in Nat, NEW b \in Nat, NEW j \in Nat, b <= a, j >= 1
    PROVE  a - b + j \in Nat /\ a - b + j >= 1
OBVIOUS

\* A sum is no less than its first term.
LEMMA AtMostSum ==
    ASSUME NEW a \in Nat, NEW b \in Nat, NEW d \in Nat, a <= b
    PROVE  a <= b + d
OBVIOUS

\* Sequences of the same length are equal when their items are.
LEMMA SameSequence ==
    ASSUME NEW S, NEW s \in Seq(S), NEW t \in Seq(S), Len(s) = Len(t),
           \A i \in 1 .. Len(s) : s[i] = t[i]
    PROVE  s = t
<1>1. s \in [1 .. Len(s) -> S] /\ t \in [1 .. Len(s) -> S]
  OBVIOUS
<1>2. s = [i \in 1 .. Len(s) |-> s[i]] /\ t = [i \in 1 .. Len(s) |-> t[i]]
  BY <1>1, Zenon
<1>3. [i \in 1 .. Len(s) |-> s[i]] = [i \in 1 .. Len(s) |-> t[i]]
  BY Zenon
<1> QED BY <1>2, <1>3, Zenon

-----------------------------------------------------------------------------
(* Where the commands start.                                               *)

LEMMA SizeFacts ==
    ASSUME NEW m \in Message
    PROVE  Size[m.kind] \in Nat /\ Size[m.kind] > Word /\ Word \in Nat \ {0}
<1>1. m.kind \in PacketKind \cup CommandKind
  BY DEF Message, CommandKind
<1> QED BY <1>1, VnsAssumption

StartAt(s, f, k) == f[k] = IF k = 1 THEN 0 ELSE f[k - 1] + Size[s[k - 1].kind]

LEMMA StartsExist ==
    ASSUME NEW s \in Seq(Message)
    PROVE  \E f \in [1 .. Len(s) + 1 -> Nat] : \A k \in 1 .. Len(s) + 1 : StartAt(s, f, k)
<1> DEFINE S == {n \in Nat : n <= Len(s) =>
                    \E f \in [1 .. n + 1 -> Nat] : \A k \in 1 .. n + 1 : StartAt(s, f, k)}
<1>0. Len(s) \in Nat /\ \A k \in 1 .. Len(s) : s[k] \in Message
  OBVIOUS
<1>1. 0 \in S
  <2> DEFINE f == [k \in 1 .. 1 |-> 0]
  <2>1. f \in [1 .. 0 + 1 -> Nat] /\ \A k \in 1 .. 0 + 1 : StartAt(s, f, k)
    BY DEF StartAt
  <2> QED BY <2>1
<1>2. ASSUME NEW n \in Nat, n \in S
      PROVE  n + 1 \in S
  <2> SUFFICES ASSUME n + 1 <= Len(s)
               PROVE  \E g \in [1 .. n + 1 + 1 -> Nat] : \A k \in 1 .. n + 1 + 1 : StartAt(s, g, k)
    OBVIOUS
  <2>1. PICK f \in [1 .. n + 1 -> Nat] : \A k \in 1 .. n + 1 : StartAt(s, f, k)
    BY <1>0, <1>2
  <2>2. Size[s[n + 1].kind] \in Nat
    BY <1>0, SizeFacts
  <2> DEFINE g == [k \in 1 .. n + 1 + 1 |->
                    IF k <= n + 1 THEN f[k] ELSE f[n + 1] + Size[s[n + 1].kind]]
  <2>3. g \in [1 .. n + 1 + 1 -> Nat]
    BY <2>1, <2>2
  <2>4. ASSUME NEW k \in 1 .. n + 1 + 1 PROVE StartAt(s, g, k)
    <3>1. CASE k <= n + 1
      <4>1. k \in 1 .. n + 1 /\ g[k] = f[k] /\ (k # 1 => g[k - 1] = f[k - 1])
        BY <3>1
      <4> QED BY <2>1, <4>1 DEF StartAt
    <3>2. CASE k = n + 1 + 1
      <4>1. k # 1 /\ g[k] = f[n + 1] + Size[s[n + 1].kind] /\ g[k - 1] = f[n + 1] /\ k - 1 = n + 1
        BY <3>2
      <4> QED BY <4>1 DEF StartAt
    <3> QED BY <3>1, <3>2
  <2> HIDE DEF g
  <2> QED BY <2>3, <2>4
<1>3. Len(s) \in S
  <2> HIDE DEF S
  <2>1. \A n \in Nat : n \in S => n + 1 \in S
    BY <1>2
  <2> QED BY <1>0, <1>1, <2>1, SetInduction
<1> QED BY <1>0, <1>3

LEMMA StartsDef ==
    ASSUME NEW s \in Seq(Message)
    PROVE  /\ Starts(s) \in [1 .. Len(s) + 1 -> Nat]
           /\ \A k \in 1 .. Len(s) + 1 : StartAt(s, Starts(s), k)
<1> DEFINE P(f) == f = [k \in 1 .. Len(s) + 1 |-> IF k = 1 THEN 0 ELSE f[k - 1] + Size[s[k - 1].kind]]
<1>1. Len(s) \in Nat
  OBVIOUS
<1>2. PICK g \in [1 .. Len(s) + 1 -> Nat] : \A k \in 1 .. Len(s) + 1 : StartAt(s, g, k)
  BY StartsExist
<1>3. P(g)
  BY <1>2 DEF StartAt
<1>4. Starts(s) = CHOOSE f : P(f)
  BY DEF Starts
<1>5. P(Starts(s))
  BY Zenon, <1>3, <1>4
<1>6. /\ DOMAIN Starts(s) = 1 .. Len(s) + 1
      /\ \A k \in 1 .. Len(s) + 1 : StartAt(s, Starts(s), k)
  BY <1>5 DEF StartAt
<1> DEFINE S == {n \in Nat : n <= Len(s) => Starts(s)[n + 1] = g[n + 1]}
<1>7. 0 \in S
  BY <1>1, <1>2, <1>6 DEF StartAt
<1>8. ASSUME NEW n \in Nat, n \in S
      PROVE  n + 1 \in S
  <2> SUFFICES ASSUME n + 1 <= Len(s) PROVE Starts(s)[n + 1 + 1] = g[n + 1 + 1]
    OBVIOUS
  <2>1. Starts(s)[n + 1] = g[n + 1] /\ n + 1 + 1 \in 1 .. Len(s) + 1
    BY <1>1, <1>8
  <2>2. StartAt(s, Starts(s), n + 1 + 1) /\ StartAt(s, g, n + 1 + 1)
    BY <1>2, <1>6, <2>1
  <2> QED BY <2>1, <2>2 DEF StartAt
<1>9. Nat \subseteq S
  <2> HIDE DEF S
  <2> QED BY <1>7, <1>8, SetInduction
<1>10. \A k \in 1 .. Len(s) + 1 : Starts(s)[k] \in Nat
  <2> SUFFICES ASSUME NEW k \in 1 .. Len(s) + 1 PROVE Starts(s)[k] \in Nat
    OBVIOUS
  <2>1. k - 1 \in Nat /\ k - 1 <= Len(s) /\ k - 1 + 1 = k
    BY <1>1
  <2>2. Starts(s)[k] = g[k]
    BY Zenon, <1>9, <2>1
  <2> QED BY <1>2, <2>2
<1>11. Starts(s) = [k \in 1 .. Len(s) + 1 |-> Starts(s)[k]]
  BY <1>5
<1> QED BY <1>6, <1>10, <1>11

\* Each command starts where the one before it ends.
LEMMA StartsFacts ==
    ASSUME NEW s \in Seq(Message)
    PROVE  /\ Len(s) \in Nat
           /\ Starts(s) \in [1 .. Len(s) + 1 -> Nat]
           /\ \A k \in 1 .. Len(s) : Starts(s)[k + 1] = Starts(s)[k] + Size[s[k].kind]
           /\ \A k, l \in 1 .. Len(s) + 1 : k <= l => Starts(s)[k] <= Starts(s)[l]
<1>1. Len(s) \in Nat /\ Starts(s) \in [1 .. Len(s) + 1 -> Nat]
  BY StartsDef
<1>2. \A k \in 1 .. Len(s) : Starts(s)[k + 1] = Starts(s)[k] + Size[s[k].kind]
  <2> SUFFICES ASSUME NEW k \in 1 .. Len(s)
               PROVE  Starts(s)[k + 1] = Starts(s)[k] + Size[s[k].kind]
    OBVIOUS
  <2>1. StartAt(s, Starts(s), k + 1) /\ k + 1 # 1 /\ k + 1 - 1 = k
    BY <1>1, StartsDef
  <2> QED BY <2>1 DEF StartAt
<1>3. \A k \in 1 .. Len(s) : Size[s[k].kind] \in Nat
  BY SizeFacts
<1>4. ASSUME NEW k \in 1 .. Len(s) + 1
      PROVE  \A l \in 1 .. Len(s) + 1 : k <= l => Starts(s)[k] <= Starts(s)[l]
  <2> DEFINE S == {n \in Nat : k + n <= Len(s) + 1 => Starts(s)[k] <= Starts(s)[k + n]}
  <2>1. 0 \in S
    BY <1>1
  <2>2. ASSUME NEW n \in Nat, n \in S
        PROVE  n + 1 \in S
    <3> SUFFICES ASSUME k + (n + 1) <= Len(s) + 1 PROVE Starts(s)[k] <= Starts(s)[k + (n + 1)]
      OBVIOUS
    <3>1. k + n \in 1 .. Len(s) /\ k + (n + 1) = (k + n) + 1 /\ k + n <= Len(s) + 1
      BY <1>1
    <3>2. Starts(s)[k] <= Starts(s)[k + n]
      BY <2>2, <3>1
    <3>3. Starts(s)[k + (n + 1)] = Starts(s)[k + n] + Size[s[k + n].kind]
      BY <1>2, <3>1
    <3>4. Starts(s)[k] \in Nat /\ Starts(s)[k + n] \in Nat /\ Size[s[k + n].kind] \in Nat
      <4>1. k + n \in 1 .. Len(s) + 1
        BY <1>1, <3>1
      <4> QED BY Zenon, <1>1, <1>3, <3>1, <4>1
    <3> QED BY Zenon, <3>2, <3>3, <3>4, AtMostSum
  <2>3. Nat \subseteq S
    <3> HIDE DEF S
    <3> QED BY <2>1, <2>2, SetInduction
  <2> SUFFICES ASSUME NEW l \in 1 .. Len(s) + 1, k <= l PROVE Starts(s)[k] <= Starts(s)[l]
    OBVIOUS
  <2>4. l - k \in Nat /\ k + (l - k) = l
    BY <1>1
  <2> QED BY <1>1, <2>3, <2>4
<1> QED BY <1>1, <1>2, <1>4

\* A command more leaves the starts of those before it.
LEMMA StartsAppend ==
    ASSUME NEW s \in Seq(Message), NEW m \in Message
    PROVE  \A k \in 1 .. Len(s) + 1 : Starts(Append(s, m))[k] = Starts(s)[k]
<1> DEFINE t == Append(s, m)
<1> DEFINE S == {n \in Nat : n <= Len(s) => Starts(t)[n + 1] = Starts(s)[n + 1]}
<1>1. t \in Seq(Message) /\ Len(t) = Len(s) + 1 /\ Len(s) \in Nat
      /\ \A k \in 1 .. Len(s) : t[k] = s[k]
  OBVIOUS
<1> HIDE DEF t
<1>2. /\ \A k \in 1 .. Len(s) + 1 : StartAt(s, Starts(s), k)
      /\ \A k \in 1 .. Len(t) + 1 : StartAt(t, Starts(t), k)
  BY <1>1, StartsDef
<1>3. 0 \in S
  <2>1. StartAt(s, Starts(s), 1) /\ StartAt(t, Starts(t), 1)
    BY <1>1, <1>2
  <2> QED BY <2>1 DEF StartAt
<1>4. ASSUME NEW n \in Nat, n \in S
      PROVE  n + 1 \in S
  <2> SUFFICES ASSUME n + 1 <= Len(s) PROVE Starts(t)[n + 1 + 1] = Starts(s)[n + 1 + 1]
    OBVIOUS
  <2>1. Starts(t)[n + 1] = Starts(s)[n + 1] /\ t[n + 1] = s[n + 1]
    BY <1>1, <1>4
  <2>2. StartAt(s, Starts(s), n + 1 + 1) /\ StartAt(t, Starts(t), n + 1 + 1)
    BY <1>1, <1>2
  <2>3. n + 1 + 1 # 1 /\ n + 1 + 1 - 1 = n + 1
    OBVIOUS
  <2> QED BY <2>1, <2>2, <2>3 DEF StartAt
<1>5. Nat \subseteq S
  <2> HIDE DEF S
  <2> QED BY <1>3, <1>4, SetInduction
<1> SUFFICES ASSUME NEW k \in 1 .. Len(s) + 1 PROVE Starts(t)[k] = Starts(s)[k]
  BY DEF t
<1>6. k - 1 \in Nat /\ k - 1 <= Len(s) /\ k - 1 + 1 = k
  BY <1>1
<1> QED BY <1>5, <1>6

-----------------------------------------------------------------------------
(* What the steps do.                                                      *)

\* A step of the controller sends a command, or nothing and perhaps ends the
\* connection.
Told == \E m \in Message : Send(m) /\ UNCHANGED conn
Silent == UNCHANGED <<down, sent>> /\ (UNCHANGED conn \/ (conn = "open" /\ conn' = "fin"))

LEMMA MessageFacts ==
    /\ \A k \in PacketKind, i \in Iface : Command(k, i) \in Message
    /\ \A k \in CommandKind \ {"HWINFO"} : Command(k, None) \in Message
    /\ \A names \in Names : Command("HWINFO", names) \in Message
  BY DEF Message, Command

LEMMA ControllerSteps ==
    ASSUME SessionType,
           Reactor \/ OpenFlow \/ \E k \in Unsolicited : Announce(k)
    PROVE  UNCHANGED <<routerVars, handled, given>> /\ (Told \/ Silent)
<1>1. CASE _handle_new_client \/ _handle_RouterInfo \/ _handle_open_template_msg \/ _handle_packet_msg
  BY Zenon, <1>1 DEF _handle_new_client, _handle_RouterInfo, _handle_open_template_msg,
     _handle_packet_msg, Silent
<1>2. CASE SendAuthRequest \/ _handle_auth_reply
  <2>1. Command("AUTH_REQUEST", None) \in Message /\ Command("AUTH_STATUS", None) \in Message
    BY MessageFacts DEF CommandKind
  <2> QED BY Zenon, <1>2, <2>1 DEF SendAuthRequest, _handle_auth_reply, Told
<1>3. CASE _handle_SRPacketIn
  <2>1. \A k \in Packets, i \in Iface : Command(k, i) \in Message
    BY MessageFacts, VnsAssumption
  <2> QED BY Zenon, <1>3, <2>1 DEF _handle_SRPacketIn, Told
<1>4. CASE _handle_open_msg
  <2>1. interfaces # None => Command("HWINFO", interfaces) \in Message
    BY MessageFacts DEF SessionType
  <2> QED BY Zenon, <1>4, <2>1 DEF _handle_open_msg, Told, Silent
<1>5. ASSUME NEW k \in Unsolicited, Announce(k)
      PROVE  UNCHANGED <<routerVars, handled, given>> /\ (Told \/ Silent)
  <2>1. Command(k, None) \in Message
    BY MessageFacts, VnsAssumption DEF CommandKind
  <2> QED BY Zenon, <1>5, <2>1 DEF Announce, Told
<1> QED
  BY Zenon, <1>1, <1>2, <1>3, <1>4, <1>5 DEF Reactor, OpenFlow, _handle_recv_msg

\* The router takes a command, and goes on or ends.
Taken ==
    /\ Reading /\ Complete
    /\ handled' = Append(handled, command)
    /\ UNCHANGED <<controllerVars, setup, sent, added>>
Messages == {<<>>, <<"AUTH_REPLY">>, <<"OPEN">>, <<"OPEN_TEMPLATE">>, <<"PACKET">>}
Goes ==
    \E next \in {"AUTH_STATUS", "RTABLE", "any", expected_cmd}, messages \in Messages :
        Return(next, messages)
Ends == \E how \in {"exited", "aborted"} : Leave(how)

LEMMA RouterSteps ==
    ASSUME sr_read_from_server_expect
    PROVE  \/ Recv \/ ReadFails
           \/ Taken /\ (Goes \/ Ends)
<1>1. CASE Unexpected \/ sr_handle_auth_request \/ sr_handle_auth_status \/ sr_handle_rtable
  BY Zenon, <1>1 DEF Unexpected, sr_handle_auth_request, sr_handle_auth_status,
     sr_handle_rtable, Take, Taken, Goes, Ends, Messages
<1>2. CASE HandleHwinfo \/ PacketAborts \/ DropPacket \/ HandlePacket \/ HandleBanner \/ HandleClose
  BY Zenon, <1>2 DEF HandleHwinfo, PacketAborts, DropPacket, HandlePacket, HandleBanner,
     HandleClose, Take, Taken, Goes, Ends, Messages, sr_send_packet
<1> QED BY Zenon, <1>1, <1>2 DEF sr_read_from_server_expect

-----------------------------------------------------------------------------
(* The stream.                                                             *)

\* The stream invariant with the starts of the commands as a parameter.
StreamOf(start) ==
    /\ Len(handled) + 1 <= Len(sent) + 1
    /\ \A i \in 1 .. Len(handled) : handled[i] = sent[i]
    /\ router = "start" => conn = "none"
    /\ Len(buf) + Len(down) <= start[Len(sent) + 1] - start[Len(handled) + 1]
    /\ conn \in {"none", "open"} =>
            Len(buf) + Len(down) = start[Len(sent) + 1] - start[Len(handled) + 1]
    /\ \A k \in Len(handled) + 1 .. Len(sent) : \A j \in 1 .. Size[sent[k].kind] :
        start[k] - start[Len(handled) + 1] + j <= Len(buf) + Len(down) =>
            Pending(start[k] - start[Len(handled) + 1] + j) = [msg |-> sent[k], at |-> j]
    /\ buf # <<>> => Len(buf) <= Size[sent[Len(handled) + 1].kind]

LEMMA StreamInvOf == StreamInv <=> StreamOf(Starts(sent))
  BY Zenon DEF StreamInv, StreamOf

LEMMA StreamInvNext ==
    ASSUME NEW start, start = Starts(sent'), StreamOf(start)'
    PROVE  StreamInv'
  BY Zenon DEF StreamInv, StreamOf

LEMMA LengthFacts ==
    ASSUME StreamType
    PROVE  /\ Len(buf) \in Nat /\ Len(down) \in Nat /\ Len(sent) \in Nat /\ Len(handled) \in Nat
           /\ \A i \in 1 .. Len(sent) : sent[i] \in Message
           /\ buf = <<>> <=> Len(buf) = 0
           /\ DOMAIN buf = 1 .. Len(buf)
  BY DEF StreamType

LEMMA SentFacts ==
    ASSUME StreamType, NEW k \in 1 .. Len(sent)
    PROVE  /\ Size[sent[k].kind] \in Nat
           /\ \A j \in 1 .. Size[sent[k].kind] : j \in Nat /\ j >= 1
<1>1. Size[sent[k].kind] \in Nat
  BY SizeFacts, LengthFacts
<1> QED BY <1>1

\* What has been read is the beginning of the next command.
LEMMA BufFacts ==
    ASSUME StreamType, StreamInv, buf # <<>>
    PROVE  /\ Len(handled) + 1 \in 1 .. Len(sent)
           /\ sent[Len(handled) + 1] \in Message
           /\ Len(buf) \in 1 .. Size[sent[Len(handled) + 1].kind]
           /\ \A i \in 1 .. Len(buf) : buf[i] = [msg |-> sent[Len(handled) + 1], at |-> i]
<1> DEFINE start == Starts(sent)
<1>1. StreamOf(start)
  BY StreamInvOf
<1>2. start \in [1 .. Len(sent) + 1 -> Nat]
  BY StartsFacts DEF StreamType
<1> HIDE DEF start
<1>3. Len(handled) + 1 \in 1 .. Len(sent)
  BY <1>1, <1>2, LengthFacts DEF StreamOf
<1>4. sent[Len(handled) + 1] \in Message
  BY <1>3, LengthFacts
<1>5. /\ Size[sent[Len(handled) + 1].kind] \in Nat
      /\ Len(buf) \in 1 .. Size[sent[Len(handled) + 1].kind]
  BY <1>1, <1>4, SizeFacts, LengthFacts DEF StreamOf
<1>6. ASSUME NEW i \in 1 .. Len(buf)
      PROVE  buf[i] = [msg |-> sent[Len(handled) + 1], at |-> i]
  <2>1. start[Len(handled) + 1] - start[Len(handled) + 1] + i = i
    BY <1>2, <1>3, LengthFacts
  <2>2. i \in 1 .. Size[sent[Len(handled) + 1].kind] /\ i <= Len(buf) + Len(down)
    BY <1>5, LengthFacts
  <2>3. Len(handled) + 1 \in Len(handled) + 1 .. Len(sent)
    BY <1>3, LengthFacts
  <2>4. Pending(i) = [msg |-> sent[Len(handled) + 1], at |-> i]
    BY Zenon, <1>1, <2>1, <2>2, <2>3 DEF StreamOf
  <2> QED BY <2>4, LengthFacts DEF Pending
<1> QED BY <1>3, <1>4, <1>5, <1>6

\* The size word, once it has been read.
LEMMA LenFacts ==
    ASSUME StreamType, StreamInv, Len(buf) >= Word
    PROVE  len = Size[sent[Len(handled) + 1].kind] /\ buf # <<>>
<1>1. Word \in Nat \ {0}
  BY VnsAssumption
<1>2. buf # <<>>
  BY <1>1, LengthFacts
<1> DEFINE m == sent[Len(handled) + 1]
<1>3. \A i \in 1 .. Word : buf[i] = [msg |-> m, at |-> i]
  BY <1>1, <1>2, BufFacts, LengthFacts
<1> HIDE DEF m
<1>4. buf[1].msg = m
  <2>1. buf[1] = [msg |-> m, at |-> 1]
    BY <1>1, <1>3
  <2> QED BY <2>1
<1>5. len = Size[m.kind]
  BY Zenon, <1>3, <1>4 DEF len
<1> QED BY <1>2, <1>5 DEF m

LEMMA CompleteFacts ==
    ASSUME StreamType, StreamInv, Complete
    PROVE  /\ Len(handled) + 1 \in 1 .. Len(sent) /\ buf # <<>>
           /\ command = sent[Len(handled) + 1] /\ command \in Message
           /\ Len(buf) = Size[sent[Len(handled) + 1].kind]
<1>1. Word \in Nat \ {0} /\ Len(buf) \in Nat /\ Len(buf) > Word /\ Wanted = 0
  BY VnsAssumption, LengthFacts DEF Complete
<1>2. len = Size[sent[Len(handled) + 1].kind] /\ buf # <<>>
  BY <1>1, LenFacts
<1>3. Wanted = len - Len(buf)
  BY <1>1 DEF Wanted
<1>4. Len(handled) + 1 \in 1 .. Len(sent) /\ sent[Len(handled) + 1] \in Message
  BY <1>2, BufFacts
<1>5. Len(buf) = Size[sent[Len(handled) + 1].kind]
  BY <1>1, <1>2, <1>3, <1>4, SizeFacts
<1>6. buf[Word + 1] = [msg |-> sent[Len(handled) + 1], at |-> Word + 1]
  <2>1. Word + 1 \in 1 .. Len(buf)
    BY <1>1
  <2> QED BY <1>2, <2>1, BufFacts
<1> QED BY <1>2, <1>4, <1>5, <1>6 DEF command

\* Taking a command leaves the other commands pending.
LEMMA StreamTake ==
    ASSUME StreamType, StreamInv, Taken, buf' = <<>>, UNCHANGED down,
           router' # "start", conn' = conn
    PROVE  StreamInv'
<1>0. PICK start, h, m : start = Starts(sent) /\ h = Len(handled) + 1 /\ m = sent[h]
  OBVIOUS
<1>1. /\ StreamOf(start) /\ start \in [1 .. Len(sent) + 1 -> Nat]
      /\ \A k \in 1 .. Len(sent) : start[k + 1] = start[k] + Size[sent[k].kind]
      /\ \A k, l \in 1 .. Len(sent) + 1 : k <= l => start[k] <= start[l]
  BY <1>0, StreamInvOf, StartsFacts DEF StreamType
<1>2. /\ h \in 1 .. Len(sent) /\ Len(buf) = Size[m.kind] /\ command = m
      /\ m \in Message
  BY <1>0, CompleteFacts DEF Taken
<1>3. UNCHANGED sent /\ handled' = Append(handled, m)
  BY <1>2 DEF Taken
<1>4. Starts(sent') = start
  BY <1>0, <1>3
<1> SUFFICES StreamOf(start)'
  BY Zenon, <1>4, StreamInvNext
<1>5. /\ Len(handled') = h /\ handled'[h] = m
      /\ \A i \in 1 .. Len(handled) : handled'[i] = handled[i]
  <2>1. handled \in Seq(Message)
    BY DEF StreamType
  <2> QED BY <1>0, <1>2, <1>3, <2>1
<1>6. Len(buf') = 0 /\ Len(down') = Len(down)
  OBVIOUS
<1>7. /\ Size[m.kind] \in Nat
      /\ start[h + 1] = start[h] + Size[m.kind]
      /\ start[h] \in Nat /\ start[h + 1] \in Nat /\ start[Len(sent) + 1] \in Nat
  BY <1>0, <1>1, <1>2, SizeFacts, LengthFacts
<1>8. /\ Len(handled') + 1 <= Len(sent') + 1
      /\ \A i \in 1 .. Len(handled') : handled'[i] = sent'[i]
  <2>1. \A i \in 1 .. Len(handled') : i \in 1 .. Len(handled) \/ i = h
    BY <1>0, <1>5, LengthFacts
  <2>2. \A i \in 1 .. Len(handled) : handled[i] = sent[i]
    BY <1>1 DEF StreamOf
  <2> QED BY <1>0, <1>2, <1>3, <1>5, <2>1, <2>2, LengthFacts
<1>9. ASSUME NEW k \in h + 1 .. Len(sent), NEW j \in 1 .. Size[sent[k].kind],
             start[k] - start[h + 1] + j <= Len(down)
      PROVE  Pending(start[k] - start[h + 1] + j)' = [msg |-> sent[k], at |-> j]
  <2>0. PICK i, l : i = start[k] - start[h + 1] + j /\ l = start[k] - start[h] + j
    OBVIOUS
  <2>1. /\ k \in 1 .. Len(sent) + 1 /\ h + 1 \in 1 .. Len(sent) + 1 /\ h + 1 <= k
        /\ k \in h .. Len(sent) /\ k \in 1 .. Len(sent)
    BY <1>2, LengthFacts
  <2>2. start[h + 1] <= start[k] /\ start[k] \in Nat
    BY <1>1, <2>1
  <2>3. Size[sent[k].kind] \in Nat
    BY <2>1, SizeFacts, LengthFacts
  <2>4. i \in Nat /\ i >= 1 /\ l = i + Len(buf) /\ i <= Len(down)
    <3>1. j \in Nat /\ j >= 1
      BY <2>3
    <3>2. Len(buf) \in Nat /\ start[h + 1] = start[h] + Len(buf)
      BY <1>2, <1>7, LengthFacts
    <3>3. PICK a \in Nat, b \in Nat, c \in Nat : a = start[h] /\ b = start[h + 1] /\ c = start[k]
      BY <1>7, <2>2
    <3>4. b <= c /\ b = a + Len(buf) /\ i = c - b + j /\ l = c - a + j /\ i <= Len(down)
      BY <1>9, <2>0, <2>2, <3>2, <3>3
    <3> QED BY <3>1, <3>2, <3>4
  <2>5. l <= Len(buf) + Len(down) /\ ~(l <= Len(buf)) /\ l - Len(buf) = i
    BY <2>4, LengthFacts
  <2>6. Pending(l) = [msg |-> sent[k], at |-> j]
    BY Zenon, <1>0, <1>1, <2>0, <2>1, <2>5 DEF StreamOf
  <2>7. down[i] = [msg |-> sent[k], at |-> j]
    BY <2>5, <2>6 DEF Pending
  <2>8. Pending(i)' = down[i]
    BY <1>6, <2>4 DEF Pending
  <2> QED BY <2>0, <2>7, <2>8
<1>10. /\ Len(down) <= start[Len(sent) + 1] - start[h + 1]
       /\ conn \in {"none", "open"} => Len(down) = start[Len(sent) + 1] - start[h + 1]
  <2>1. /\ Len(buf) + Len(down) <= start[Len(sent) + 1] - start[h]
        /\ conn \in {"none", "open"} => Len(buf) + Len(down) = start[Len(sent) + 1] - start[h]
    BY <1>0, <1>1 DEF StreamOf
  <2>2. Len(buf) \in Nat /\ Len(down) \in Nat /\ start[h + 1] = start[h] + Len(buf)
    BY <1>2, <1>7, LengthFacts
  <2> QED BY <1>7, <2>1, <2>2
<1>11. Len(buf') + Len(down') = Len(down)
  BY <1>6, LengthFacts
<1> QED
  BY Zenon, <1>3, <1>5, <1>8, <1>9, <1>10, <1>11 DEF StreamOf

\* Reading, cutting the stream and whatever else leaves the commands alone.
LEMMA StreamSame ==
    ASSUME StreamType, StreamInv, UNCHANGED <<sent, handled>>,
           Len(buf') \in Nat, Len(down') \in Nat,
           Len(buf') + Len(down') <= Len(buf) + Len(down),
           \A i \in 1 .. Len(buf') + Len(down') : Pending(i)' = Pending(i),
           router' = "start" => conn' = "none",
           conn' \in {"none", "open"} =>
                conn \in {"none", "open"} /\ Len(buf') + Len(down') = Len(buf) + Len(down),
           buf' # <<>> => Len(buf') <= Size[sent[Len(handled) + 1].kind]
    PROVE  StreamInv'
<1>0. PICK start, h : start = Starts(sent) /\ h = Len(handled) + 1
  OBVIOUS
<1>1. /\ StreamOf(start) /\ start \in [1 .. Len(sent) + 1 -> Nat]
      /\ \A k, l \in 1 .. Len(sent) + 1 : k <= l => start[k] <= start[l]
  BY <1>0, StreamInvOf, StartsFacts DEF StreamType
<1> SUFFICES StreamOf(start)'
  BY Zenon, <1>0, StreamInvNext
<1>2. h \in 1 .. Len(sent) + 1 /\ start[h] \in Nat /\ start[Len(sent) + 1] \in Nat
  BY <1>0, <1>1, LengthFacts DEF StreamOf
<1>3. ASSUME NEW k \in h .. Len(sent), NEW j \in 1 .. Size[sent[k].kind],
             start[k] - start[h] + j <= Len(buf') + Len(down')
      PROVE  Pending(start[k] - start[h] + j)' = [msg |-> sent[k], at |-> j]
  <2>0. PICK i : i = start[k] - start[h] + j
    OBVIOUS
  <2>1. k \in 1 .. Len(sent) /\ k \in 1 .. Len(sent) + 1 /\ h <= k
    BY <1>2, LengthFacts
  <2>2. start[h] <= start[k] /\ start[k] \in Nat
    BY <1>1, <1>2, <2>1
  <2>7. j \in Nat /\ j >= 1
    BY <2>1, SentFacts
  <2>8. i \in Nat /\ i >= 1 /\ i <= Len(buf') + Len(down')
    <3>1. i <= Len(buf') + Len(down')
      BY Zenon, <1>3, <2>0
    <3>2. i \in Nat /\ i >= 1
      BY Zenon, <1>2, <2>0, <2>2, <2>7, PlaceBehind
    <3> QED BY Zenon, <3>1, <3>2
  <2>3. i \in 1 .. Len(buf') + Len(down') /\ i <= Len(buf) + Len(down)
    BY <2>8, LengthFacts
  <2>4. Pending(i) = [msg |-> sent[k], at |-> j]
    BY Zenon, <1>0, <1>1, <2>0, <2>3 DEF StreamOf
  <2>5. Pending(i)' = Pending(i)
    BY <2>3
  <2> QED BY <2>0, <2>4, <2>5
<1>4. /\ Len(buf) + Len(down) <= start[Len(sent) + 1] - start[h]
      /\ conn \in {"none", "open"} => Len(buf) + Len(down) = start[Len(sent) + 1] - start[h]
  BY <1>0, <1>1 DEF StreamOf
<1>5. /\ Len(buf') + Len(down') <= start[Len(sent) + 1] - start[h]
      /\ conn' \in {"none", "open"} => Len(buf') + Len(down') = start[Len(sent) + 1] - start[h]
  BY <1>2, <1>4, LengthFacts
<1>6. /\ Len(handled) + 1 <= Len(sent) + 1
      /\ \A i \in 1 .. Len(handled) : handled[i] = sent[i]
  BY <1>1 DEF StreamOf
<1> QED BY Zenon, <1>0, <1>3, <1>5, <1>6 DEF StreamOf

\* The router ends with the command that it has taken.
LEMMA StreamEnd ==
    ASSUME StreamType, StreamInv, Taken, Ends
    PROVE  StreamInv'
<1>0. PICK start, h, m : start = Starts(sent) /\ h = Len(handled) + 1 /\ m = sent[h]
  OBVIOUS
<1>1. /\ StreamOf(start) /\ start \in [1 .. Len(sent) + 1 -> Nat]
      /\ \A k, l \in 1 .. Len(sent) + 1 : k <= l => start[k] <= start[l]
  BY <1>0, StreamInvOf, StartsFacts DEF StreamType
<1>2. h \in 1 .. Len(sent) /\ command = m /\ m \in Message
  BY <1>0, CompleteFacts DEF Taken
<1>3. UNCHANGED sent /\ handled' = Append(handled, m)
  BY <1>2 DEF Taken
<1> SUFFICES StreamOf(start)'
  BY Zenon, <1>0, <1>3, StreamInvNext
<1>4. /\ Len(handled') = h /\ handled'[h] = m
      /\ \A i \in 1 .. Len(handled) : handled'[i] = handled[i]
  <2>1. handled \in Seq(Message)
    BY DEF StreamType
  <2> QED BY <1>0, <1>2, <1>3, <2>1
<1>5. /\ Len(handled') + 1 <= Len(sent') + 1
      /\ \A i \in 1 .. Len(handled') : handled'[i] = sent'[i]
  <2>1. \A i \in 1 .. Len(handled') : i \in 1 .. Len(handled) \/ i = h
    BY <1>0, <1>4, LengthFacts
  <2>2. \A i \in 1 .. Len(handled) : handled[i] = sent[i]
    BY <1>1 DEF StreamOf
  <2> QED BY <1>0, <1>2, <1>3, <1>4, <2>1, <2>2, LengthFacts
<1>6. /\ buf' = <<>> /\ Len(buf') + Len(down') = 0 /\ conn' = "closed" /\ router' # "start"
  BY DEF Ends, Leave
<1>7. /\ start[h + 1] \in Nat /\ start[Len(sent) + 1] \in Nat
      /\ 0 <= start[Len(sent) + 1] - start[h + 1]
  <2>1. /\ h + 1 \in 1 .. Len(sent) + 1 /\ Len(sent) + 1 \in 1 .. Len(sent) + 1
        /\ h + 1 <= Len(sent) + 1
    BY <1>2, LengthFacts
  <2>2. /\ start[h + 1] \in Nat /\ start[Len(sent) + 1] \in Nat
        /\ start[h + 1] <= start[Len(sent) + 1]
    BY <1>1, <2>1
  <2> QED BY <2>2
<1>8. ASSUME NEW k \in h + 1 .. Len(sent), NEW j \in 1 .. Size[sent[k].kind]
      PROVE  ~(start[k] - start[h + 1] + j <= 0)
  <2>1. k \in 1 .. Len(sent) /\ k \in 1 .. Len(sent) + 1 /\ h + 1 <= k
        /\ h + 1 \in 1 .. Len(sent) + 1
    BY <1>2, LengthFacts
  <2>2. start[h + 1] <= start[k] /\ start[k] \in Nat
    BY <1>1, <2>1
  <2>3. j \in Nat /\ j >= 1
    BY <2>1, SentFacts
  <2> QED BY <1>7, <2>2, <2>3
<1> QED BY <1>3, <1>4, <1>5, <1>6, <1>7, <1>8 DEF StreamOf

LEMMA BytesFacts ==
    ASSUME NEW m \in Message
    PROVE  /\ Bytes(m) \in Seq(Byte) /\ Len(Bytes(m)) = Size[m.kind]
           /\ \A j \in 1 .. Size[m.kind] : Bytes(m)[j] = [msg |-> m, at |-> j]
<1>1. Size[m.kind] \in Nat
  BY SizeFacts
<1>2. \A j \in 1 .. Size[m.kind] : [msg |-> m, at |-> j] \in Byte
  BY <1>1 DEF Byte
<1>3. Bytes(m) = [j \in 1 .. Size[m.kind] |-> [msg |-> m, at |-> j]]
  BY DEF Bytes
<1> QED BY <1>1, <1>2, <1>3

\* A byte of a command in transit is within the stream.
LEMMA PlaceBound ==
    ASSUME NEW a \in Nat, NEW b \in Nat, NEW c \in Nat, NEW d \in Nat, NEW j \in Nat,
           a <= b, b + d <= c, j >= 1, j <= d
    PROVE  b - a + j \in Nat /\ b - a + j >= 1 /\ b - a + j <= c - a
  OBVIOUS

\* The controller sends a command.
LEMMA StreamSend ==
    ASSUME StreamType, StreamInv, Told, UNCHANGED <<buf, handled, router>>
    PROVE  StreamInv'
<1>1. PICK m \in Message : Send(m) /\ UNCHANGED conn
  BY DEF Told
<1>2. /\ conn = "open" /\ conn' = "open" /\ sent' = Append(sent, m)
      /\ down' = down \o Bytes(m)
  BY <1>1 DEF Send
<1>0. PICK start, next, h, L :
        start = Starts(sent) /\ next = Starts(sent') /\ h = Len(handled) + 1 /\ L = Len(sent)
  OBVIOUS
<1>3. /\ sent \in Seq(Message) /\ sent' \in Seq(Message) /\ L \in Nat /\ Len(sent') = L + 1
      /\ sent'[L + 1] = m /\ \A k \in 1 .. L : sent'[k] = sent[k]
  BY <1>0, <1>2 DEF StreamType
<1>4. /\ StreamOf(start) /\ start \in [1 .. L + 1 -> Nat]
      /\ \A k, l \in 1 .. L + 1 : k <= l => start[k] <= start[l]
      /\ \A k \in 1 .. L : start[k + 1] = start[k] + Size[sent[k].kind]
  BY <1>0, <1>3, StreamInvOf, StartsFacts
<1>5. \A k \in 1 .. L + 1 : next[k] = start[k]
  BY <1>0, <1>2, <1>3, StartsAppend
<1>6. next[L + 1 + 1] = start[L + 1] + Size[m.kind] /\ Size[m.kind] \in Nat
  <2>1. \A k \in 1 .. Len(sent') : next[k + 1] = next[k] + Size[sent'[k].kind]
    BY Zenon, <1>0, <1>3, StartsFacts
  <2>2. next[L + 1 + 1] = next[L + 1] + Size[m.kind]
    BY <1>3, <2>1
  <2> QED BY <1>3, <1>5, <2>2, SizeFacts
<1> SUFFICES StreamOf(next)'
  BY Zenon, <1>0, StreamInvNext
<1>7. /\ Len(down') = Len(down) + Size[m.kind]
      /\ \A i \in 1 .. Len(down) : down'[i] = down[i]
      /\ \A j \in 1 .. Size[m.kind] : down'[Len(down) + j] = [msg |-> m, at |-> j]
  <2>1. down \in Seq(Byte)
    BY DEF StreamType
  <2>2. PICK b \in Seq(Byte) : b = Bytes(m)
    BY BytesFacts
  <2>3. Len(b) = Size[m.kind] /\ \A j \in 1 .. Len(b) : b[j] = [msg |-> m, at |-> j]
    BY <2>2, BytesFacts
  <2>4. /\ Len(down') = Len(down) + Len(b)
        /\ \A i \in 1 .. Len(down) : down'[i] = down[i]
        /\ \A j \in 1 .. Len(b) : down'[Len(down) + j] = b[j]
    BY <1>2, <2>1, <2>2
  <2> QED BY <2>3, <2>4
<1>8. h \in 1 .. L + 1 /\ next[h] = start[h] /\ start[h] \in Nat /\ start[L + 1] \in Nat
      /\ next[L + 1] = start[L + 1]
      /\ Len(buf) + Len(down) = start[L + 1] - start[h]
  BY <1>0, <1>2, <1>3, <1>4, <1>5, LengthFacts DEF StreamOf
<1>9. Len(buf') + Len(down') = next[Len(sent') + 1] - next[Len(handled') + 1]
  <2>1. Len(buf') + Len(down') = Len(buf) + Len(down) + Size[m.kind]
    BY <1>6, <1>7, LengthFacts
  <2>2. next[Len(sent') + 1] - next[Len(handled') + 1] = start[L + 1] + Size[m.kind] - start[h]
    BY <1>0, <1>3, <1>6, <1>8
  <2>3. (Len(buf) + Len(down)) + Size[m.kind] = start[L + 1] + Size[m.kind] - start[h]
    BY <1>6, <1>8
  <2> QED BY Zenon, <2>1, <2>2, <2>3
<1>10. ASSUME NEW k \in h .. L + 1, NEW j \in 1 .. Size[sent'[k].kind]
       PROVE  Pending(next[k] - next[h] + j)' = [msg |-> sent'[k], at |-> j]
  <2>0. PICK i : i = next[k] - next[h] + j
    OBVIOUS
  <2>1. CASE k = L + 1
    <3>1. sent'[k] = m /\ j \in Nat /\ j >= 1
      BY <1>3, <1>6, <2>1
    <3>2. i = Len(buf) + Len(down) + j
      BY <1>8, <2>0, <2>1, <3>1, LengthFacts
    <3>3. ~(i <= Len(buf)) /\ i - Len(buf) = Len(down) + j
      BY <3>1, <3>2, LengthFacts
    <3>4. Pending(i)' = down'[Len(down) + j]
      BY <3>3 DEF Pending
    <3> QED BY <1>7, <2>0, <2>1, <3>1, <3>4
  <2>2. CASE k \in h .. L
    <3>1. k \in 1 .. L /\ k \in 1 .. L + 1 /\ k + 1 \in 1 .. L + 1 /\ h <= k /\ sent'[k] = sent[k]
      BY <1>3, <1>8, <2>2
    <3>2. /\ start[h] <= start[k] /\ start[k] \in Nat /\ start[k + 1] <= start[L + 1]
          /\ start[k + 1] = start[k] + Size[sent[k].kind] /\ Size[sent[k].kind] \in Nat
          /\ next[k] = start[k] /\ j \in 1 .. Size[sent[k].kind]
      <4>1. Size[sent[k].kind] \in Nat
        BY <1>0, <3>1, SizeFacts, LengthFacts
      <4>2. h \in 1 .. L + 1 /\ L + 1 \in 1 .. L + 1 /\ k + 1 <= L + 1
        BY <1>3, <1>8, <3>1
      <4>3. start[h] <= start[k] /\ start[k + 1] <= start[L + 1]
        BY <1>4, <3>1, <4>2
      <4>4. start[k] \in Nat
        BY <1>4, <3>1, Zenon
      <4>5. next[k] = start[k]
        BY <1>5, <3>1, Zenon
      <4>6. start[k + 1] = start[k] + Size[sent[k].kind]
        BY <1>4, <3>1, Zenon
      <4>7. j \in 1 .. Size[sent[k].kind]
        BY <3>1, Zenon
      <4> QED BY <4>1, <4>3, <4>4, <4>5, <4>6, <4>7, Zenon
    <3>3. i = start[k] - start[h] + j /\ i \in Nat /\ i >= 1 /\ i <= Len(buf) + Len(down)
      <4>0. /\ start[h] \in Nat /\ start[k] \in Nat /\ start[L + 1] \in Nat
            /\ Size[sent[k].kind] \in Nat
        BY <1>8, <3>2
      <4>1. PICK a \in Nat, b \in Nat, c \in Nat, d \in Nat :
                a = start[h] /\ b = start[k] /\ c = start[L + 1] /\ d = Size[sent[k].kind]
        BY <4>0, Zenon
      <4>2. /\ a <= b /\ b + d <= c /\ j \in 1 .. d /\ i = b - a + j
            /\ Len(buf) + Len(down) = c - a
        <5>1. a <= b /\ start[k + 1] = b + d /\ start[k + 1] <= c
          BY <3>2, <4>1, Zenon
        <5>2. j \in 1 .. d /\ i = b - a + j /\ Len(buf) + Len(down) = c - a
          BY <1>8, <2>0, <3>2, <4>1, Zenon
        <5> QED BY <5>1, <5>2
      <4>3. i = start[k] - start[h] + j
        BY <4>1, <4>2, Zenon
      <4>4. j \in Nat /\ j >= 1 /\ j <= d
        BY <4>1, <4>2
      <4>5. i \in Nat /\ i >= 1 /\ i <= c - a
        <5>1. b - a + j \in Nat /\ b - a + j >= 1 /\ b - a + j <= c - a
          BY <4>2, <4>4, PlaceBound, ZenonT(30)
        <5> QED BY <4>2, <5>1, Zenon
      <4> QED BY <4>2, <4>3, <4>5, Zenon
    <3>4. Pending(i) = [msg |-> sent[k], at |-> j]
      BY Zenon, <1>0, <1>4, <2>2, <3>2, <3>3 DEF StreamOf
    <3>5. Pending(i)' = Pending(i)
      <4>1. CASE i <= Len(buf)
        BY <4>1 DEF Pending
      <4>2. CASE ~(i <= Len(buf))
        <5>1. i - Len(buf) \in 1 .. Len(down)
          BY <3>3, <4>2, LengthFacts
        <5> QED BY <1>7, <4>2, <5>1 DEF Pending
      <4> QED BY <4>1, <4>2
    <3> QED BY <2>0, <3>1, <3>4, <3>5
  <2> QED BY <1>3, <1>8, <2>1, <2>2
<1>11. buf # <<>> => sent'[h] = sent[h]
  BY <1>0, <1>3, BufFacts
<1>12. /\ Len(handled') + 1 <= Len(sent') + 1
       /\ \A i \in 1 .. Len(handled') : handled'[i] = sent'[i]
       /\ router' = "start" => conn' = "none"
       /\ buf' # <<>> => Len(buf') <= Size[sent'[Len(handled') + 1].kind]
  <2>1. \A i \in 1 .. Len(handled) : handled[i] = sent[i] /\ i \in 1 .. L
    BY <1>0, <1>4, <1>8, LengthFacts DEF StreamOf
  <2> QED BY <1>0, <1>2, <1>3, <1>4, <1>8, <1>11, <2>1, LengthFacts DEF StreamOf
<1>13. Len(buf') + Len(down') <= next[Len(sent') + 1] - next[Len(handled') + 1]
  BY <1>8, <1>9, <1>7, <1>6, LengthFacts
<1> QED BY Zenon, <1>0, <1>3, <1>9, <1>10, <1>12, <1>13 DEF StreamOf

\* The router reads.
LEMMA RecvFacts ==
    ASSUME StreamType, Recv
    PROVE  \E n \in 1 .. Len(down) :
            /\ n <= Wanted
            /\ buf' \in Seq(Byte) /\ down' \in Seq(Byte)
            /\ Len(buf') = Len(buf) + n /\ Len(down') = Len(down) - n
            /\ \A i \in 1 .. Len(buf) + Len(down) : Pending(i)' = Pending(i)
<1>1. PICK n \in 1 .. Len(down) :
        /\ n <= Wanted
        /\ buf' = buf \o SubSeq(down, 1, n)
        /\ down' = SubSeq(down, n + 1, Len(down))
  BY Zenon DEF Recv
<1>2. buf \in Seq(Byte) /\ down \in Seq(Byte) /\ Len(buf) \in Nat /\ Len(down) \in Nat
  BY DEF StreamType
<1>3. PICK b \in Seq(Byte) : b = SubSeq(down, 1, n) /\ Len(b) = n /\ \A i \in 1 .. n : b[i] = down[i]
  <2>1. n \in Nat /\ n >= 1 /\ n <= Len(down) /\ \A i \in 1 .. n : i \in 1 .. Len(down)
    BY <1>2
  <2>2. SubSeq(down, 1, n) \in Seq(Byte) /\ Len(SubSeq(down, 1, n)) = n
    BY <1>2, <2>1
  <2>3. \A i \in 1 .. n : SubSeq(down, 1, n)[i] = down[i]
    BY <1>2, <2>1
  <2> QED BY Zenon, <2>2, <2>3
<1>4. /\ buf' \in Seq(Byte) /\ Len(buf') = Len(buf) + n
      /\ \A i \in 1 .. Len(buf) : buf'[i] = buf[i]
      /\ \A i \in 1 .. n : buf'[Len(buf) + i] = b[i]
  BY <1>1, <1>2, <1>3
<1>5. /\ down' \in Seq(Byte) /\ Len(down') = Len(down) - n
      /\ \A i \in 1 .. Len(down) - n : down'[i] = down[n + i]
  BY <1>1, <1>2
<1>6. ASSUME NEW i \in 1 .. Len(buf) + Len(down)
      PROVE  Pending(i)' = Pending(i)
  <2>1. CASE i <= Len(buf)
    <3>1. i \in 1 .. Len(buf) /\ i <= Len(buf')
      BY <1>2, <1>4, <2>1
    <3> QED BY <1>4, <2>1, <3>1 DEF Pending
  <2>2. CASE ~(i <= Len(buf)) /\ i <= Len(buf) + n
    <3>1. PICK j \in 1 .. n : i = Len(buf) + j /\ i - Len(buf) = j
      BY <1>2, <2>2
    <3>2. Pending(i)' = buf'[i] /\ Pending(i) = down[j]
      BY <1>4, <2>2, <3>1 DEF Pending
    <3> QED BY <1>3, <1>4, <3>1, <3>2
  <2>3. CASE ~(i <= Len(buf) + n)
    <3>0. PICK j : j = i - (Len(buf) + n)
      OBVIOUS
    <3>1. j \in 1 .. Len(down) - n /\ i = Len(buf) + n + j
      BY <1>2, <2>3, <3>0
    <3>2. /\ ~(i <= Len(buf)) /\ ~(i <= Len(buf')) /\ i - Len(buf') = j /\ i - Len(buf) = n + j
      BY <1>2, <1>4, <3>1
    <3>3. Pending(i)' = down'[j] /\ Pending(i) = down[n + j]
      BY <3>2 DEF Pending
    <3> QED BY <1>5, <3>1, <3>3
  <2> QED BY <2>1, <2>2, <2>3
<1> QED BY Zenon, <1>1, <1>4, <1>5, <1>6

LEMMA StreamRecv ==
    ASSUME StreamType, StreamInv, Recv
    PROVE  StreamInv'
<1>1. PICK n \in 1 .. Len(down) :
        /\ n <= Wanted
        /\ Len(buf') = Len(buf) + n /\ Len(down') = Len(down) - n
        /\ \A i \in 1 .. Len(buf) + Len(down) : Pending(i)' = Pending(i)
  BY RecvFacts
<1>2. Len(buf') \in Nat /\ Len(down') \in Nat /\ Len(buf') + Len(down') = Len(buf) + Len(down)
  BY <1>1, LengthFacts
<1>3. UNCHANGED <<sent, handled, conn, router>> /\ router = "reading"
  BY DEF Recv, Reading
<1>4. Len(handled) + 1 \in 1 .. Len(sent)
  <2>0. PICK start, h : start = Starts(sent) /\ h = Len(handled) + 1
    OBVIOUS
  <2>1. StreamOf(start) /\ start \in [1 .. Len(sent) + 1 -> Nat]
    BY <2>0, StreamInvOf, StartsFacts DEF StreamType
  <2>2. h <= Len(sent) + 1 /\ Len(buf) + Len(down) <= start[Len(sent) + 1] - start[h]
    BY <2>0, <2>1 DEF StreamOf
  <2>3. h = Len(sent) + 1 => start[Len(sent) + 1] - start[h] = 0
    BY <2>1, LengthFacts
  <2> QED BY <1>1, <2>0, <2>2, <2>3, LengthFacts
<1>5. PICK s \in Nat : s = Size[sent[Len(handled) + 1].kind] /\ s > Word /\ Word \in Nat
  BY <1>4, SizeFacts, LengthFacts
<1>6. Len(buf') <= s
  <2>1. CASE Len(buf) < Word
    BY <1>1, <1>5, <2>1, LengthFacts DEF Wanted
  <2>2. CASE ~(Len(buf) < Word)
    <3>1. Len(buf) >= Word
      BY <1>5, <2>2, LengthFacts
    <3>2. Wanted = s - Len(buf)
      BY <1>5, <2>2, <3>1, LenFacts DEF Wanted
    <3> QED BY <1>1, <1>5, <3>2, LengthFacts
  <2> QED BY <2>1, <2>2
<1> QED BY <1>1, <1>2, <1>3, <1>5, <1>6, StreamSame, LengthFacts

LEMMA StreamStep == VnsInv /\ [Next]_vars => StreamInv'
<1> SUFFICES ASSUME StreamType, SessionType, StreamInv, [Next]_vars PROVE StreamInv'
  BY DEF VnsInv, TypeOK
<1>0. /\ Len(buf) \in Nat /\ Len(down) \in Nat
      /\ router = "start" => conn = "none"
      /\ buf # <<>> => Len(buf) <= Size[sent[Len(handled) + 1].kind]
  BY LengthFacts, StreamInvOf DEF StreamOf
<1>1. ASSUME UNCHANGED <<buf, down, sent, handled>>, router' = "start" => conn' = "none",
             conn' \in {"none", "open"} => conn \in {"none", "open"}
      PROVE  StreamInv'
  <2>1. \A i \in 1 .. Len(buf') + Len(down') : Pending(i)' = Pending(i)
    BY <1>1 DEF Pending
  <2> QED BY <1>0, <1>1, <2>1, StreamSame
<1>2. ASSUME UNCHANGED <<sent, handled>>, down' = <<>>, buf' = buf \/ buf' = <<>>,
             conn' \notin {"none", "open"}, router' # "start"
      PROVE  StreamInv'
  <2>1. Len(down') = 0 /\ Len(buf') \in Nat /\ Len(buf') <= Len(buf)
    BY <1>0, <1>2
  <2>2. ASSUME NEW i \in 1 .. Len(buf') + Len(down')
        PROVE  Pending(i)' = Pending(i)
    <3>1. buf' = buf /\ i <= Len(buf)
      BY <1>0, <1>2, <2>1
    <3> QED BY <3>1 DEF Pending
  <2> QED BY <1>0, <1>2, <2>1, <2>2, StreamSame
<1>3. CASE UNCHANGED vars
  BY <1>0, <1>1, <1>3 DEF vars, routerVars
<1>4. CASE Reactor \/ OpenFlow \/ \E k \in Unsolicited : Announce(k)
  <2>1. UNCHANGED <<buf, router, handled>> /\ (Told \/ Silent)
    BY Zenon, <1>4, ControllerSteps DEF routerVars
  <2>2. CASE Told
    BY <2>1, <2>2, StreamSend
  <2>3. CASE Silent
    BY <1>0, <1>1, <2>1, <2>3 DEF Silent
  <2> QED BY <2>1, <2>2, <2>3
<1>5. CASE Lose
  BY <1>0, <1>1, <1>2, <1>5 DEF Lose, routerVars
<1>6. CASE Connect
  BY <1>0, <1>1, <1>2, <1>6 DEF Connect, Leave
<1>7. CASE ReadFails
  BY <1>2, <1>7 DEF ReadFails, Leave
<1>8. CASE Taken /\ Goes
  BY <1>8, StreamTake DEF Taken, Goes, Return, Reading
<1> QED
  BY Zenon, <1>3, <1>4, <1>5, <1>6, <1>7, <1>8, StreamRecv, StreamEnd, RouterSteps DEF Next

-----------------------------------------------------------------------------
(* Types.                                                                  *)

LEMMA StreamTypeStep == VnsInv /\ [Next]_vars => StreamType'
<1> SUFFICES ASSUME StreamType, SessionType, StreamInv, [Next]_vars PROVE StreamType'
  BY DEF VnsInv, TypeOK
<1>0. /\ down \in Seq(Byte) /\ buf \in Seq(Byte)
      /\ sent \in Seq(Message) /\ handled \in Seq(Message) /\ given \in Seq(Message)
  BY DEF StreamType
<1>1. ASSUME UNCHANGED <<sent, handled, given>>, down' = down \/ down' = <<>>,
             buf' = buf \/ buf' = <<>>
      PROVE  StreamType'
  <2>1. <<>> \in Seq(Byte)
    OBVIOUS
  <2>2. down' \in Seq(Byte) /\ buf' \in Seq(Byte)
    BY Zenon, <1>0, <1>1, <2>1
  <2> QED BY Zenon, <1>0, <1>1, <2>2 DEF StreamType
<1>2. CASE UNCHANGED vars \/ Lose \/ Connect \/ ReadFails
  BY Zenon, <1>1, <1>2 DEF vars, routerVars, Lose, Connect, ReadFails, Leave
<1>3. CASE Reactor \/ OpenFlow \/ \E k \in Unsolicited : Announce(k)
  <2>1. UNCHANGED <<buf, handled, given>> /\ (Told \/ Silent)
    BY Zenon, <1>3, ControllerSteps DEF routerVars
  <2>2. CASE Told
    <3>1. PICK m \in Message : sent' = Append(sent, m) /\ down' = down \o Bytes(m)
      BY Zenon, <2>2 DEF Told, Send
    <3>2. PICK b \in Seq(Byte) : b = Bytes(m)
      BY BytesFacts
    <3>3. sent' \in Seq(Message) /\ down' \in Seq(Byte)
      BY <1>0, <3>1, <3>2
    <3> QED BY <1>0, <2>1, <3>3 DEF StreamType
  <2>3. CASE Silent
    BY <1>1, <2>1, <2>3 DEF Silent
  <2> QED BY <2>1, <2>2, <2>3
<1>4. CASE Recv
  <2>1. buf' \in Seq(Byte) /\ down' \in Seq(Byte)
    BY <1>4, RecvFacts
  <2> QED BY <1>0, <1>4, <2>1 DEF Recv, StreamType
<1>5. CASE sr_read_from_server_expect /\ Taken
  <2>1. command \in Message
    BY <1>5, CompleteFacts DEF Taken
  <2>2. handled' \in Seq(Message) /\ UNCHANGED sent
    BY <1>0, <1>5, <2>1 DEF Taken
  <2>3. given' = given \/ given' = Append(given, command)
    BY Zenon, <1>5 DEF sr_read_from_server_expect, Recv, ReadFails, Unexpected,
       sr_handle_auth_request, sr_handle_auth_status, sr_handle_rtable, HandleHwinfo,
       PacketAborts, DropPacket, HandlePacket, HandleBanner, HandleClose
  <2>4. given' \in Seq(Message)
    <3>1. Append(given, command) \in Seq(Message)
      BY <1>0, <2>1
    <3> QED BY Zenon, <1>0, <2>3, <3>1
  <2>5. CASE Goes \/ Ends
    <3>1. buf' = <<>> /\ (down' = down \/ down' = <<>>)
      BY <2>5 DEF Goes, Ends, Return, Leave
    <3>2. <<>> \in Seq(Byte)
      OBVIOUS
    <3>3. down' \in Seq(Byte) /\ buf' \in Seq(Byte)
      BY Zenon, <1>0, <3>1, <3>2
    <3> QED BY Zenon, <1>0, <2>2, <2>4, <3>3 DEF StreamType
  <2> QED BY Zenon, <1>2, <1>4, <1>5, <2>5, RouterSteps
<1> QED
  BY Zenon, <1>2, <1>3, <1>4, <1>5, RouterSteps DEF Next

\* A ready router stays ready.
LEMMA ReadyStays ==
    ASSUME SessionType, [Next]_vars
    PROVE  UNCHANGED ready \/ ready' = TRUE
<1>1. CASE sr_read_from_server_expect
  BY Zenon, <1>1 DEF sr_read_from_server_expect, Recv, ReadFails, Unexpected,
     sr_handle_auth_request, sr_handle_auth_status, sr_handle_rtable, HandleHwinfo,
     PacketAborts, DropPacket, HandlePacket, HandleBanner, HandleClose
<1>2. CASE Reactor \/ OpenFlow \/ \E k \in Unsolicited : Announce(k)
  BY Zenon, <1>2, ControllerSteps DEF routerVars
<1> QED BY Zenon, <1>1, <1>2 DEF Next, vars, routerVars, Lose, Connect

LEMMA SessionTypeStep == VnsInv /\ [Next]_vars => SessionType'
<1> SUFFICES ASSUME SessionType, [Next]_vars PROVE SessionType'
  BY DEF VnsInv, TypeOK
<1> DEFINE Up == {"AUTH_REPLY", "OPEN", "OPEN_TEMPLATE", "PACKET"}
<1>1. up' \in Seq(Up)
  <2>0. up \in Seq(Up) /\ <<>> \in Seq(Up) /\ (up # <<>> => Tail(up) \in Seq(Up))
    BY DEF SessionType
  <2>1. ASSUME NEW ms \in Messages PROVE up \o ms \in Seq(Up)
    <3>1. ms \in Seq(Up)
      <4>1. \A x \in Up : <<x>> \in Seq(Up)
        OBVIOUS
      <4>2. /\ <<"AUTH_REPLY">> \in Seq(Up) /\ <<"OPEN">> \in Seq(Up)
            /\ <<"OPEN_TEMPLATE">> \in Seq(Up) /\ <<"PACKET">> \in Seq(Up)
        BY Zenon, <4>1
      <4> QED BY Zenon, <2>0, <4>2 DEF Messages
    <3> QED BY <2>0, <3>1
  <2>2. up' = up \/ up' = <<>> \/ (up # <<>> /\ up' = Tail(up)) \/ \E ms \in Messages : up' = up \o ms
    <3>1. CASE UNCHANGED vars \/ Lose \/ (\E k \in Unsolicited : Announce(k)) \/ Connect
      BY Zenon, <3>1 DEF vars, Lose, Announce, Connect, Leave
    <3>2. CASE Reactor \/ OpenFlow
      BY Zenon, <3>2 DEF Reactor, OpenFlow, _handle_recv_msg, _handle_new_client,
         SendAuthRequest, _handle_auth_reply, _handle_open_msg, _handle_open_template_msg,
         _handle_packet_msg, _handle_RouterInfo, _handle_SRPacketIn
    <3>3. CASE sr_read_from_server_expect
      BY Zenon, <3>3, RouterSteps DEF Recv, ReadFails, Goes, Ends, Return, Leave
    <3> QED BY Zenon, <3>1, <3>2, <3>3 DEF Next
  <2> QED BY Zenon, <2>0, <2>1, <2>2
<1>2. interfaces' \in Names \cup {None} /\ srclient' \in {"none", "listed", "greeted", "opened"}
  <2>1. CASE UNCHANGED <<interfaces, srclient>>
    BY <2>1 DEF SessionType
  <2>2. CASE Reactor \/ OpenFlow
    <3>1. /\ UNCHANGED interfaces \/ interfaces' \in Names
          /\ UNCHANGED srclient \/ srclient' \in {"listed", "greeted", "opened"}
      BY Zenon, <2>2 DEF Reactor, OpenFlow, _handle_recv_msg, _handle_new_client,
         SendAuthRequest, _handle_auth_reply, _handle_open_msg, _handle_open_template_msg,
         _handle_packet_msg, _handle_RouterInfo, _handle_SRPacketIn, controllerVars
    <3> QED BY <3>1 DEF SessionType
  <2> QED
    BY Zenon, <2>1, <2>2, RouterSteps
       DEF Next, vars, controllerVars, Lose, Announce, Connect, Recv, ReadFails, Taken
<1>3. /\ conn' \in {"none", "open", "fin", "reset", "closed"}
      /\ router' \in {"start", "reading", "exited", "aborted"}
      /\ expected_cmd' \in {"AUTH_REQUEST", "AUTH_STATUS", "RTABLE", "any"}
      /\ setup' \in Setups
  <2>0. /\ conn \in {"none", "open", "fin", "reset", "closed"}
        /\ router \in {"start", "reading", "exited", "aborted"}
        /\ expected_cmd \in {"AUTH_REQUEST", "AUTH_STATUS", "RTABLE", "any"}
        /\ setup \in Setups
    BY DEF SessionType
  <2>1. CASE UNCHANGED vars
    BY <2>0, <2>1 DEF vars, routerVars
  <2>2. CASE Reactor \/ OpenFlow \/ \E k \in Unsolicited : Announce(k)
    <3>1. UNCHANGED <<router, expected_cmd, setup>> /\ (UNCHANGED conn \/ conn' = "fin")
      BY Zenon, <2>2, ControllerSteps DEF Told, Silent, routerVars
    <3> QED BY <2>0, <3>1
  <2>3. CASE Lose \/ Connect
    BY <2>0, <2>3 DEF Lose, Connect, Leave, routerVars
  <2>4. CASE Recv \/ ReadFails
    BY <2>0, <2>4 DEF Recv, ReadFails, Leave
  <2>5. CASE Taken /\ Goes
    BY <2>0, <2>5 DEF Taken, Goes, Return
  <2>6. CASE Taken /\ Ends
    BY <2>0, <2>6 DEF Taken, Ends, Leave
  <2> QED BY Zenon, <2>1, <2>2, <2>3, <2>4, <2>5, <2>6, RouterSteps DEF Next
<1>4. ready' \in BOOLEAN
  <2>1. ready \in BOOLEAN
    BY DEF SessionType
  <2>2. UNCHANGED ready \/ ready' = TRUE
    BY Zenon, ReadyStays
  <2> QED BY Zenon, <2>1, <2>2
<1>5. added' \in 0 .. MaxPackets
  <2>0. added \in 0 .. MaxPackets /\ MaxPackets \in Nat
    BY VnsAssumption DEF SessionType
  <2>1. UNCHANGED added \/ (added < MaxPackets /\ added' = added + 1)
    <3>1. CASE Reactor \/ OpenFlow
      BY Zenon, <3>1 DEF Reactor, OpenFlow, _handle_recv_msg, _handle_new_client,
         SendAuthRequest, _handle_auth_reply, _handle_open_msg, _handle_open_template_msg,
         _handle_packet_msg, _handle_RouterInfo, _handle_SRPacketIn
    <3> QED
      BY Zenon, <3>1, RouterSteps
         DEF Next, vars, Lose, Announce, Connect, Recv, ReadFails, Taken
  <2> QED BY <2>0, <2>1
<1> QED BY Zenon, <1>1, <1>2, <1>3, <1>4, <1>5 DEF SessionType

-----------------------------------------------------------------------------
(* The handshake.                                                          *)

LEMMA CommandsKept ==
    ASSUME UNCHANGED <<sent, handled>>
    PROVE  (OneCommand' <=> OneCommand) /\ (NoCommand' <=> NoCommand)
  BY DEF OneCommand, NoCommand, InCommand

LEMMA CommandSent ==
    ASSUME StreamType, NEW m \in Message, sent' = Append(sent, m), UNCHANGED handled
    PROVE  /\ m.kind \notin SessionKind =>
                (OneCommand => OneCommand') /\ (NoCommand => NoCommand')
           /\ NoCommand => OneCommand'
<1>1. /\ Len(sent) \in Nat /\ Len(sent') = Len(sent) + 1 /\ sent'[Len(sent) + 1] = m
      /\ \A i \in 1 .. Len(sent) : sent'[i] = sent[i]
  BY DEF StreamType
<1>2. ASSUME NEW i \in 1 .. Len(sent'), InCommand(i)'
      PROVE  \/ i \in 1 .. Len(sent) /\ InCommand(i)
             \/ i = Len(sent) + 1 /\ m.kind \in SessionKind
  <2>1. i \in 1 .. Len(sent) \/ i = Len(sent) + 1
    BY <1>1
  <2>2. CASE i \in 1 .. Len(sent)
    <3>1. i \in Len(handled) + 1 .. Len(sent)
      BY <1>1, <1>2, <2>2, LengthFacts DEF InCommand
    <3> QED BY <1>1, <1>2, <2>2, <3>1 DEF InCommand
  <2>3. CASE i = Len(sent) + 1
    BY <1>1, <1>2, <2>3 DEF InCommand
  <2> QED BY <2>1, <2>2, <2>3
<1> QED BY <1>2 DEF OneCommand, NoCommand

LEMMA CommandTaken ==
    ASSUME StreamType, StreamInv, Taken, OneCommand
    PROVE  /\ OneCommand' /\ (NoCommand => NoCommand')
           /\ command.kind \in SessionKind => ~NoCommand /\ NoCommand'
<1>1. /\ Len(handled) + 1 \in 1 .. Len(sent) /\ command = sent[Len(handled) + 1]
      /\ Len(handled) \in Nat /\ Len(sent) \in Nat
  BY CompleteFacts, LengthFacts DEF Taken
<1>2. UNCHANGED sent /\ Len(handled') = Len(handled) + 1
  BY DEF Taken, StreamType
<1>3. ASSUME NEW i \in 1 .. Len(sent'), InCommand(i)'
      PROVE  i \in 1 .. Len(sent) /\ InCommand(i) /\ i # Len(handled) + 1
  BY <1>1, <1>2, <1>3 DEF InCommand
<1>4. command.kind \in SessionKind => InCommand(Len(handled) + 1)
  BY <1>1 DEF InCommand
<1> QED BY <1>1, <1>3, <1>4 DEF OneCommand, NoCommand

LEMMA MessagesKept ==
    ASSUME UNCHANGED up
    PROVE  (OneMessage' <=> OneMessage) /\ (NoMessage' <=> NoMessage)
  BY DEF OneMessage, NoMessage, InMessage

LEMMA MessagesGone ==
    ASSUME up' = <<>>
    PROVE  OneMessage' /\ NoMessage'
  BY DEF OneMessage, NoMessage

LEMMA MessageTaken ==
    ASSUME SessionType, up # <<>>, up' = Tail(up), OneMessage
    PROVE  /\ OneMessage' /\ (NoMessage => NoMessage')
           /\ Head(up) # "PACKET" => ~NoMessage /\ NoMessage'
<1>1. /\ Len(up) \in Nat /\ Len(up) >= 1 /\ Len(up') = Len(up) - 1 /\ up[1] = Head(up)
      /\ \A i \in 1 .. Len(up') : up'[i] = up[i + 1]
  BY DEF SessionType
<1>2. ASSUME NEW i \in 1 .. Len(up'), InMessage(i)'
      PROVE  i + 1 \in 1 .. Len(up) /\ InMessage(i + 1) /\ i \in Nat /\ i >= 1
  BY <1>1, <1>2 DEF InMessage
<1>3. Head(up) # "PACKET" => InMessage(1) /\ 1 \in 1 .. Len(up)
  BY <1>1 DEF InMessage
<1>4. ASSUME NEW i \in 1 .. Len(up'), NEW j \in 1 .. Len(up'), InMessage(i)', InMessage(j)'
      PROVE  i = j
  <2>1. i + 1 = j + 1 /\ i \in Nat /\ j \in Nat
    BY <1>2, <1>4 DEF OneMessage
  <2> QED BY <2>1
<1>5. ASSUME Head(up) # "PACKET", NEW i \in 1 .. Len(up'), InMessage(i)'
      PROVE  FALSE
  <2>1. i + 1 = 1 /\ i \in Nat /\ i >= 1
    BY <1>2, <1>3, <1>5 DEF OneMessage
  <2> QED BY <2>1
<1> QED BY <1>2, <1>3, <1>4, <1>5 DEF OneMessage, NoMessage

LEMMA MessageSent ==
    ASSUME SessionType, NEW x \in {"AUTH_REPLY", "OPEN", "OPEN_TEMPLATE", "PACKET"},
           up' = up \o <<x>>
    PROVE  /\ NoMessage => OneMessage'
           /\ x = "PACKET" => (OneMessage => OneMessage') /\ (NoMessage => NoMessage')
<1>1. /\ Len(up) \in Nat /\ Len(up') = Len(up) + 1 /\ up'[Len(up) + 1] = x
      /\ \A i \in 1 .. Len(up) : up'[i] = up[i]
  BY DEF SessionType
<1>2. ASSUME NEW i \in 1 .. Len(up'), InMessage(i)'
      PROVE  \/ i \in 1 .. Len(up) /\ InMessage(i)
             \/ i = Len(up) + 1 /\ x # "PACKET"
  BY <1>1, <1>2 DEF InMessage
<1> QED BY <1>2 DEF OneMessage, NoMessage

\* What a step of the router that takes a command sends, and when it changes the
\* list of interfaces.
Answers == \E x \in {"AUTH_REPLY", "OPEN", "OPEN_TEMPLATE"} : up' = up \o <<x>>

LEMMA TakenSteps ==
    ASSUME SessionType, sr_read_from_server_expect, Taken
    PROVE  /\ UNCHANGED srclient
           /\ \/ up' = <<>> /\ UNCHANGED if_list
              \/ up' = <<>> /\ HandleHwinfo /\ command.kind = "HWINFO"
              \/ command.kind \in SessionKind /\ Answers /\ UNCHANGED if_list
              \/ up' = up /\ HandleHwinfo /\ command.kind = "HWINFO"
              \/ up' = up /\ UNCHANGED if_list
              \/ up' = up \o <<"PACKET">> /\ UNCHANGED if_list
<1>0. UNCHANGED srclient
  BY Zenon DEF Taken, controllerVars
<1>1. /\ Type(command) = "AUTH_REQUEST" => command.kind \in SessionKind
      /\ Type(command) = "AUTH_STATUS" => command.kind \in SessionKind
      /\ Type(command) = "HWINFO" => command.kind = "HWINFO"
  BY DEF Type, SessionKind
<1>2. up \o <<>> = up
  BY DEF SessionType
<1>3. CASE Unexpected \/ PacketAborts \/ HandleClose \/ Recv \/ ReadFails
  BY Zenon, <1>0, <1>3 DEF Unexpected, PacketAborts, HandleClose, Recv, ReadFails, Leave
<1>4. CASE sr_handle_auth_request \/ sr_handle_auth_status
  BY Zenon, <1>0, <1>1, <1>4 DEF sr_handle_auth_request, sr_handle_auth_status, Take,
       Return,
     Leave, Answers
<1>5. CASE HandleHwinfo
  BY Zenon, <1>0, <1>1, <1>2, <1>5 DEF HandleHwinfo, Take, Return, Leave
<1>6. CASE sr_handle_rtable \/ DropPacket \/ HandlePacket \/ HandleBanner
  BY Zenon, <1>0, <1>2, <1>6 DEF sr_handle_rtable, DropPacket, HandlePacket, HandleBanner,
     Return, Leave, sr_send_packet
<1> QED BY Zenon, <1>3, <1>4, <1>5, <1>6 DEF sr_read_from_server_expect

LEMMA HandshakeStep == VnsInv /\ [Next]_vars => HandshakeInv'
<1> SUFFICES ASSUME StreamType, SessionType, StreamInv, HandshakeInv, ListInv, [Next]_vars
             PROVE  HandshakeInv'
  BY DEF VnsInv, TypeOK
<1>0. /\ OneCommand /\ OneMessage /\ (NoCommand \/ NoMessage)
      /\ srclient \in {"none", "listed"} \/ if_list # <<>> => NoCommand /\ NoMessage
      /\ srclient \in {"none", "listed"} => if_list = <<>>
  BY Zenon DEF HandshakeInv
<1>1. ASSUME UNCHANGED <<srclient, if_list>>, OneCommand', OneMessage',
             NoCommand => NoCommand', NoMessage => NoMessage'
      PROVE  HandshakeInv'
  BY Zenon, <1>0, <1>1 DEF HandshakeInv
<1>2. CASE UNCHANGED <<srclient, if_list, sent, handled, up>>
  BY Zenon, <1>0, <1>1, <1>2, CommandsKept, MessagesKept
<1>3. CASE UNCHANGED <<srclient, if_list, sent, handled>> /\ up' = <<>>
  BY Zenon, <1>0, <1>1, <1>3, CommandsKept, MessagesGone
<1>4. CASE Connect \/ ReadFails \/ Recv \/ Lose \/ UNCHANGED vars
  BY Zenon, <1>2, <1>3, <1>4 DEF Connect, ReadFails, Recv, Lose, Leave, vars,
       controllerVars, routerVars
<1>5. CASE _handle_new_client
  <2>1. UNCHANGED <<if_list, sent, handled, up>> /\ srclient = "none"
    BY Zenon, <1>5 DEF _handle_new_client, routerVars
  <2> QED BY Zenon, <1>0, <2>1, CommandsKept, MessagesKept DEF HandshakeInv
<1>6. ASSUME NEW m \in Message, Send(m), m.kind \notin SessionKind,
             UNCHANGED <<srclient, if_list, handled, up>>
      PROVE  HandshakeInv'
  BY Zenon, <1>0, <1>1, <1>6, CommandSent, MessagesKept DEF Send
<1>7. CASE _handle_SRPacketIn \/ \E k \in Unsolicited : Announce(k)
  <2>1. ASSUME NEW k \in Packets, NEW i \in Iface
        PROVE  Command(k, i) \in Message /\ Command(k, i).kind \notin SessionKind
    <3>1. k \in PacketKind
      BY VnsAssumption
    <3> QED BY <3>1, MessageFacts DEF Command, PacketKind, SessionKind
  <2>2. ASSUME NEW k \in Unsolicited
        PROVE  Command(k, None) \in Message /\ Command(k, None).kind \notin SessionKind
    <3>1. k \in {"RTABLE", "CLOSE", "BANNER"}
      BY VnsAssumption
    <3> QED BY <3>1, MessageFacts DEF Command, CommandKind, SessionKind
  <2>3. \E m \in Message : Send(m) /\ m.kind \notin SessionKind
    BY Zenon, <1>7, <2>1, <2>2 DEF _handle_SRPacketIn, Announce
  <2>4. UNCHANGED <<srclient, if_list, handled, up>>
    BY Zenon, <1>7 DEF _handle_SRPacketIn, Announce, controllerVars, routerVars
  <2> QED BY Zenon, <1>6, <2>3, <2>4
<1>8. CASE SendAuthRequest
  <2>1. Command("AUTH_REQUEST", None) \in Message
    BY MessageFacts DEF CommandKind
  <2>2. /\ srclient = "listed" /\ srclient' = "greeted" /\ UNCHANGED <<if_list, handled, up>>
        /\ sent' = Append(sent, Command("AUTH_REQUEST", None))
    BY Zenon, <1>8 DEF SendAuthRequest, Send, routerVars
  <2>3. NoCommand /\ NoMessage /\ if_list = <<>>
    BY <1>0, <2>2
  <2>4. OneCommand' /\ OneMessage' /\ NoMessage'
    BY Zenon, <1>0, <2>1, <2>2, <2>3, CommandSent, MessagesKept
  <2> QED BY <2>2, <2>3, <2>4 DEF HandshakeInv
<1>9. CASE _handle_auth_reply \/ _handle_open_msg \/ _handle_open_template_msg
  <2>1. /\ up # <<>> /\ Head(up) # "PACKET" /\ up' = Tail(up) /\ UNCHANGED <<if_list, handled>>
    BY <1>9 DEF _handle_auth_reply, _handle_open_msg, _handle_open_template_msg, routerVars
  <2>2. OneMessage' /\ NoMessage' /\ ~NoMessage
    BY Zenon, <1>0, <2>1, MessageTaken
  <2>3. NoCommand /\ srclient \notin {"none", "listed"} /\ if_list = <<>>
    BY Zenon, <1>0, <2>2
  <2>4. srclient' \notin {"none", "listed"}
    BY <1>9, <2>3 DEF _handle_auth_reply, _handle_open_msg, _handle_open_template_msg,
         controllerVars
  <2>5. UNCHANGED sent \/ \E m \in Message : sent' = Append(sent, m)
    BY Zenon, <1>9, ControllerSteps DEF Told, Silent, Send, Reactor, _handle_recv_msg
  <2>6. OneCommand'
    BY Zenon, <1>0, <2>1, <2>3, <2>5, CommandsKept, CommandSent
  <2> QED BY Zenon, <2>1, <2>2, <2>3, <2>4, <2>6 DEF HandshakeInv
<1>10. CASE _handle_packet_msg
  <2>1. up # <<>> /\ up' = Tail(up) /\ UNCHANGED <<srclient, if_list, sent, handled>>
    BY Zenon, <1>10 DEF _handle_packet_msg, controllerVars, routerVars
  <2> QED BY Zenon, <1>0, <1>1, <2>1, CommandsKept, MessageTaken
<1>11. CASE sr_read_from_server_expect /\ Taken
  <2>1. OneCommand' /\ (NoCommand => NoCommand')
        /\ (command.kind \in SessionKind => ~NoCommand /\ NoCommand')
    BY Zenon, <1>0, <1>11, CommandTaken
  <2>2. UNCHANGED srclient
    BY Zenon, <1>11, TakenSteps
  <2>3. CASE up' = <<>> /\ UNCHANGED if_list
    BY Zenon, <1>1, <2>1, <2>2, <2>3, MessagesGone
  <2>4. CASE up' = up /\ UNCHANGED if_list
    BY Zenon, <1>0, <1>1, <2>1, <2>2, <2>4, MessagesKept
  <2>5. CASE up' = up \o <<"PACKET">> /\ UNCHANGED if_list
    <3>1. OneMessage' /\ (NoMessage => NoMessage')
      BY <1>0, <2>5, MessageSent
    <3> QED BY Zenon, <1>1, <2>1, <2>2, <2>5, <3>1
  <2>6. ASSUME command.kind \in SessionKind
        PROVE  /\ NoCommand' /\ NoMessage /\ srclient' \notin {"none", "listed"}
               /\ if_list = <<>>
    BY Zenon, <1>0, <2>1, <2>2, <2>6
  <2>7. CASE command.kind \in SessionKind /\ Answers /\ UNCHANGED if_list
    <3>1. OneMessage'
      BY <2>6, <2>7, MessageSent DEF Answers
    <3> QED BY Zenon, <2>1, <2>6, <2>7, <3>1 DEF HandshakeInv
  <2>8. CASE (up' = up \/ up' = <<>>) /\ command.kind = "HWINFO"
    <3>1. command.kind \in SessionKind
      BY <2>8 DEF SessionKind
    <3>2. OneMessage' /\ NoMessage'
      BY Zenon, <1>0, <2>6, <2>8, <3>1, MessagesKept, MessagesGone
    <3> QED BY Zenon, <2>1, <2>6, <3>1, <3>2 DEF HandshakeInv
  <2> QED BY Zenon, <1>11, <2>3, <2>4, <2>5, <2>7, <2>8, TakenSteps
<1>12. CASE _handle_RouterInfo
  BY Zenon, <1>2, <1>12 DEF _handle_RouterInfo, routerVars
<1> QED
  BY ZenonT(30), <1>4, <1>5, <1>7, <1>8, <1>9, <1>10, <1>11, <1>12, RouterSteps
     DEF Next, Reactor, OpenFlow, _handle_recv_msg

-----------------------------------------------------------------------------
(* The list of interfaces.                                                 *)

LEMMA NamesFacts ==
    ASSUME NEW names \in Names
    PROVE  /\ names \in Seq(Iface) /\ Len(names) = Cardinality(Iface) /\ Len(names) \in Nat
           /\ {names[i] : i \in 1 .. Len(names)} = Iface
<1>1. Cardinality(Iface) \in Nat /\ IsFiniteSet(Iface)
  BY VnsAssumption, FS_CardinalityType
<1>2. names \in [1 .. Cardinality(Iface) -> Iface] /\ IsInjective(names)
  BY DEF Names
<1>3. names \in Seq(Iface) /\ Len(names) = Cardinality(Iface)
  BY <1>1, <1>2
<1>4. Cardinality(1 .. Cardinality(Iface)) = Cardinality(Iface)
  BY <1>1, FS_Interval
<1>5. names \in Injection(1 .. Cardinality(Iface), Iface)
  BY <1>2 DEF Injection
<1>6. names \in Surjection(1 .. Cardinality(Iface), Iface)
  BY <1>1, <1>4, <1>5, FS_Injection
<1> QED BY <1>1, <1>2, <1>3, <1>6 DEF Surjection

Entry(name) == [name |-> name, addr |-> <<"addr", name>>, ip |-> <<"ip", name>>]
AnyEntry ==
    [name : Iface, addr : {None} \cup {<<"addr", n>> : n \in Iface},
     ip : {None} \cup {<<"ip", n>> : n \in Iface}]

\* One interface more, with its own addresses.
LEMMA EntriesFacts ==
    ASSUME NEW list \in Seq(AnyEntry), NEW name \in Iface
    PROVE  Entries(list, name) = Append(list, Entry(name)) /\ Entry(name) \in AnyEntry
<1> DEFINE a == <<"addr", name>>
           b == <<"ip", name>>
           new == NewInterface(name)
           x == [name |-> name, addr |-> a, ip |-> None]
<1>0. a \in {<<"addr", n>> : n \in Iface} /\ b \in {<<"ip", n>> : n \in Iface}
  OBVIOUS
<1>10. new = [name |-> name, addr |-> None, ip |-> None]
       /\ Entry(name) = [name |-> name, addr |-> a, ip |-> b]
  BY DEF NewInterface, Entry
<1> HIDE DEF a, b, new
<1>11. new \in AnyEntry /\ Entry(name) \in AnyEntry /\ x \in AnyEntry
  <2>1. new \in AnyEntry
    BY <1>10 DEF AnyEntry
  <2>2. Entry(name) \in AnyEntry
    BY <1>0, <1>10 DEF AnyEntry
  <2>3. x \in AnyEntry
    BY <1>0 DEF AnyEntry
  <2> QED BY Zenon, <2>1, <2>2, <2>3
<1>12. [new EXCEPT !.addr = a] = x /\ [x EXCEPT !.ip = b] = Entry(name)
  BY <1>10
<1> HIDE DEF x
<1>1. ASSUME NEW z \in AnyEntry, NEW y \in AnyEntry, NEW l, l = Append(list, z)
      PROVE  /\ l[Len(l)] = z
             /\ [l EXCEPT ![Len(l)] = y] = Append(list, y)
  <2>1. /\ l \in Seq(AnyEntry) /\ Len(l) = Len(list) + 1 /\ l[Len(l)] = z /\ Len(list) \in Nat
        /\ \A i \in 1 .. Len(list) : l[i] = list[i]
    BY <1>1
  <2>2. /\ [l EXCEPT ![Len(l)] = y] \in Seq(AnyEntry) /\ Len([l EXCEPT ![Len(l)] = y]) = Len(list) + 1
        /\ [l EXCEPT ![Len(l)] = y][Len(list) + 1] = y
        /\ \A i \in 1 .. Len(list) : [l EXCEPT ![Len(l)] = y][i] = list[i]
    BY <2>1
  <2>3. /\ Append(list, y) \in Seq(AnyEntry) /\ Len(Append(list, y)) = Len(list) + 1
        /\ Append(list, y)[Len(list) + 1] = y
        /\ \A i \in 1 .. Len(list) : Append(list, y)[i] = list[i]
    OBVIOUS
  <2>4. PICK s, t : s = [l EXCEPT ![Len(l)] = y] /\ t = Append(list, y)
    BY Zenon
  <2>5. /\ s \in Seq(AnyEntry) /\ t \in Seq(AnyEntry) /\ Len(s) = Len(t)
        /\ \A i \in 1 .. Len(s) : s[i] = t[i]
    <3>1. /\ s \in Seq(AnyEntry) /\ Len(s) = Len(list) + 1 /\ s[Len(list) + 1] = y
          /\ \A i \in 1 .. Len(list) : s[i] = list[i]
      BY Zenon, <2>2, <2>4
    <3>2. /\ t \in Seq(AnyEntry) /\ Len(t) = Len(list) + 1 /\ t[Len(list) + 1] = y
          /\ \A i \in 1 .. Len(list) : t[i] = list[i]
      BY Zenon, <2>3, <2>4
    <3>3. \A i \in 1 .. Len(list) + 1 : i \in 1 .. Len(list) \/ i = Len(list) + 1
      BY <2>1
    <3> QED BY ZenonT(30), <3>1, <3>2, <3>3
  <2>6. s = t
    BY <2>5, SameSequence
  <2> QED BY Zenon, <2>1, <2>4, <2>6
<1>2. sr_add_interface(list, name) = Append(list, new)
  BY DEF sr_add_interface, new
<1>3. PICK l, k : l = Append(list, new) /\ k = Append(list, x)
  BY Zenon
<1>5. sr_set_ether_addr(l, a) = k
  <2>1. sr_set_ether_addr(l, a) = [l EXCEPT ![Len(l)] = [l[Len(l)] EXCEPT !.addr = a]]
    BY Zenon DEF sr_set_ether_addr
  <2>2. l[Len(l)] = new /\ [l EXCEPT ![Len(l)] = x] = k
    BY Zenon, <1>1, <1>3, <1>11
  <2> QED BY Zenon, <1>12, <2>1, <2>2
<1>7. sr_set_ether_ip(k, b) = Append(list, Entry(name))
  <2>1. sr_set_ether_ip(k, b) = [k EXCEPT ![Len(k)] = [k[Len(k)] EXCEPT !.ip = b]]
    BY Zenon DEF sr_set_ether_ip
  <2>2. k[Len(k)] = x /\ [k EXCEPT ![Len(k)] = Entry(name)] = Append(list, Entry(name))
    BY Zenon, <1>1, <1>3, <1>11
  <2> QED BY Zenon, <1>12, <2>1, <2>2
<1> QED BY Zenon, <1>2, <1>3, <1>5, <1>7, <1>11 DEF Entries, a, b

\* A HWINFO command makes the list of its interfaces.
LEMMA HwinfoFacts ==
    ASSUME NEW names \in Names, if_list = <<>>
    PROVE  sr_handle_hwinfo(names) = Listed(names)
<1> DEFINE N == Len(names)
           g == [n \in 0 .. N |-> [i \in 1 .. n |-> Entry(names[i])]]
           P(f) == f = [n \in 0 .. N |-> IF n = 0 THEN if_list ELSE Entries(f[n - 1], names[n])]
<1>1. N \in Nat /\ names \in Seq(Iface)
  BY NamesFacts
<1>2. \A i \in 1 .. N : names[i] \in Iface
  BY <1>1
<1> HIDE DEF N
<1>3. \A i \in 1 .. N : Entry(names[i]) \in AnyEntry
  <2>1. <<>> \in Seq(AnyEntry)
    OBVIOUS
  <2> QED BY Zenon, <1>2, <2>1, EntriesFacts
<1>4. \A n \in 0 .. N : g[n] = [i \in 1 .. n |-> Entry(names[i])]
  BY Zenon DEF g
<1>5. ASSUME NEW n \in 0 .. N
      PROVE  /\ g[n] \in Seq(AnyEntry) /\ Len(g[n]) = n
             /\ \A i \in 1 .. n : g[n][i] = Entry(names[i])
  <2>1. PICK s : s = g[n]
    BY Zenon
  <2>2. s = [i \in 1 .. n |-> Entry(names[i])]
    BY <1>4, <2>1
  <2>3. n \in Nat /\ \A i \in 1 .. n : Entry(names[i]) \in AnyEntry
    BY <1>1, <1>3
  <2>4. s \in [1 .. n -> AnyEntry]
    BY <2>2, <2>3
  <2>5. s \in Seq(AnyEntry) /\ Len(s) = n
    BY <2>3, <2>4
  <2> QED BY <2>1, <2>2, <2>5
<1>6. g[0] = <<>>
  <2>1. 0 \in 0 .. N
    BY <1>1
  <2>2. g[0] \in Seq(AnyEntry) /\ Len(g[0]) = 0
    BY <1>5, <2>1
  <2> QED BY <2>2
<1>7. ASSUME NEW n \in 0 .. N, n # 0
      PROVE  g[n] = Entries(g[n - 1], names[n])
  <2>1. n - 1 \in 0 .. N /\ n \in 1 .. N /\ n \in Nat
    BY <1>1, <1>7
  <2>2. PICK s, t, x : s = g[n] /\ t = g[n - 1] /\ x = Entry(names[n])
    BY Zenon
  <2>3. /\ s \in Seq(AnyEntry) /\ Len(s) = n /\ \A i \in 1 .. n : s[i] = Entry(names[i])
        /\ t \in Seq(AnyEntry) /\ Len(t) = n - 1 /\ \A i \in 1 .. n - 1 : t[i] = Entry(names[i])
        /\ x \in AnyEntry
    BY <1>3, <1>5, <2>1, <2>2
  <2>4. /\ Append(t, x) \in Seq(AnyEntry) /\ Len(Append(t, x)) = n /\ Append(t, x)[n] = x
        /\ \A i \in 1 .. n - 1 : Append(t, x)[i] = t[i]
    BY <2>1, <2>3
  <2>5. PICK u : u = Append(t, x)
    BY Zenon
  <2>6. \A i \in 1 .. n : i \in 1 .. n - 1 \/ i = n
    BY <2>1
  <2>7. u \in Seq(AnyEntry) /\ Len(u) = Len(s) /\ \A i \in 1 .. Len(s) : s[i] = u[i]
    BY Zenon, <2>2, <2>3, <2>4, <2>5, <2>6
  <2>8. s = u
    BY <2>3, <2>7, SameSequence
  <2>9. Entries(t, names[n]) = Append(t, x)
    BY <1>2, <2>1, <2>2, <2>3, EntriesFacts
  <2> QED BY Zenon, <2>2, <2>5, <2>8, <2>9
<1>8. P(g)
  <2>1. \A n \in 0 .. N : g[n] = IF n = 0 THEN if_list ELSE Entries(g[n - 1], names[n])
    BY Zenon, <1>6, <1>7
  <2>2. g = [n \in 0 .. N |-> g[n]]
    BY DEF g
  <2> HIDE DEF g
  <2> QED BY <2>1, <2>2
<1> DEFINE up_ == CHOOSE f : P(f)
<1>9. P(up_)
  <2> HIDE DEF P, g
  <2> QED BY Zenon, <1>8
<1>10. sr_handle_hwinfo(names) = up_[N]
  BY Zenon DEF sr_handle_hwinfo, N
<1> HIDE DEF up_
<1>11. /\ 0 \in 0 .. N => up_[0] = if_list
       /\ \A n \in 0 .. N : n # 0 => up_[n] = Entries(up_[n - 1], names[n])
  BY Zenon, <1>9
<1> HIDE DEF P, g
<1> DEFINE S == {n \in Nat : n <= N => up_[n] = g[n]}
<1>12. 0 \in S
  BY <1>1, <1>6, <1>11
<1>13. ASSUME NEW n \in Nat, n \in S
       PROVE  n + 1 \in S
  <2> SUFFICES ASSUME n + 1 <= N PROVE up_[n + 1] = g[n + 1]
    OBVIOUS
  <2>1. n + 1 \in 0 .. N /\ n + 1 # 0 /\ n + 1 - 1 = n /\ up_[n] = g[n]
    BY <1>1, <1>13
  <2> QED BY <1>7, <1>11, <2>1
<1>14. Nat \subseteq S
  <2> HIDE DEF S
  <2> QED BY <1>12, <1>13, SetInduction
<1>15. up_[N] = g[N]
  BY <1>1, <1>14
<1>16. g[N] = [i \in 1 .. N |-> Entry(names[i])]
  BY <1>1, <1>4
<1>17. Listed(names) = [i \in 1 .. N |-> Entry(names[i])]
  BY Zenon DEF Listed, Entry, N
<1> QED BY <1>10, <1>15, <1>16, <1>17

LEMMA ListStep == VnsInv /\ [Next]_vars => ListInv'
<1> SUFFICES ASSUME StreamType, SessionType, StreamInv, HandshakeInv, ListInv, [Next]_vars
             PROVE  ListInv'
  BY DEF VnsInv, TypeOK
<1>0. /\ router = "start" => if_list = <<>>
      /\ if_list # <<>> => \E names \in Names : if_list = Listed(names)
      /\ ready => sr_verify_routing_table(if_list)
      /\ router = "reading" /\ if_list # <<>> => ready
  BY Zenon DEF ListInv
<1>1. ASSUME UNCHANGED <<if_list, ready, setup>>,
             router' = router \/ router' \in {"exited", "aborted"} \/ if_list = <<>>
      PROVE  ListInv'
  BY <1>0, <1>1 DEF ListInv, sr_verify_routing_table
<1>2. CASE HandleHwinfo
  <2>1. /\ command.kind = "HWINFO" /\ command \in Message
    <3>1. Taken /\ Type(command) = "HWINFO"
      BY Zenon, <1>2 DEF HandleHwinfo, Take, Taken
    <3> QED BY <3>1, CompleteFacts DEF Type, Taken
  <2>2. command.of \in Names
    BY <2>1 DEF Message, PacketKind, CommandKind
  <2>3. if_list = <<>>
    <3>1. ~NoCommand
      BY <1>2, <2>1, CommandTaken DEF HandleHwinfo, Take, Taken, HandshakeInv, SessionKind
    <3> QED BY Zenon, <3>1 DEF HandshakeInv
  <2>4. if_list' = Listed(command.of)
    BY <1>2, <2>2, <2>3, HwinfoFacts DEF HandleHwinfo
  <2>5. \E names \in Names : if_list' = Listed(names)
    BY Zenon, <2>2, <2>4
  <2>6. ~ready
    BY <1>0, <2>3 DEF sr_verify_routing_table
  <2>7. \/ ready' /\ sr_verify_routing_table(if_list') /\ router' = router /\ Reading
        \/ ready' = ready /\ router' = "exited"
    BY Zenon, <1>2 DEF HandleHwinfo, Take, Return, Leave
  <2>8. setup' = setup
    BY <1>2 DEF HandleHwinfo
  <2>9. sr_verify_routing_table(if_list') <=> sr_verify_routing_table(if_list)'
    BY Zenon, <2>8 DEF sr_verify_routing_table
  <2> QED BY <2>5, <2>6, <2>7, <2>9 DEF ListInv, Reading
<1>3. CASE sr_read_from_server_expect /\ ~HandleHwinfo
  <2>1. UNCHANGED <<if_list, ready, setup>>
    BY Zenon, <1>3 DEF sr_read_from_server_expect, Recv, ReadFails, Unexpected,
       sr_handle_auth_request, sr_handle_auth_status, sr_handle_rtable,
       PacketAborts, DropPacket, HandlePacket, HandleBanner, HandleClose
  <2>2. router' = router \/ router' \in {"exited", "aborted"}
    BY Zenon, <1>3, RouterSteps DEF Recv, ReadFails, Goes, Ends, Return, Leave
  <2> QED BY Zenon, <1>1, <2>1, <2>2
<1>4. CASE Reactor \/ OpenFlow \/ \E k \in Unsolicited : Announce(k)
  BY Zenon, <1>1, <1>4, ControllerSteps DEF routerVars
<1>5. CASE Connect
  BY Zenon, <1>0, <1>1, <1>5 DEF Connect
<1> QED
  BY Zenon, <1>1, <1>2, <1>3, <1>4, <1>5 DEF Next, vars, routerVars, Lose

LEMMA HandledStep == VnsInv /\ [Next]_vars => HandledWhenReady'
<1> SUFFICES ASSUME StreamType, SessionType, StreamInv, ListInv, HandledWhenReady, [Next]_vars
             PROVE  HandledWhenReady'
  BY DEF VnsInv, TypeOK
<1>1. UNCHANGED ready \/ ready' = TRUE
  BY Zenon, ReadyStays
<1>2. CASE UNCHANGED given
  BY <1>1, <1>2 DEF HandledWhenReady
<1>3. CASE HandlePacket
  <2>1. /\ given' = Append(given, command) /\ UNCHANGED <<ready, if_list>>
        /\ router = "reading" /\ ~IfaceMissing
    BY <1>3 DEF HandlePacket, Take, Reading
  <2>2. command \in Message
    BY <1>3, CompleteFacts DEF HandlePacket, Take
  <2>3. /\ Len(given) \in Nat /\ DOMAIN given' = 1 .. Len(given) + 1
        /\ DOMAIN given = 1 .. Len(given)
        /\ given'[Len(given) + 1] = command /\ \A i \in 1 .. Len(given) : given'[i] = given[i]
    BY <2>1, <2>2 DEF StreamType
  <2>4. command.kind # "short" => ready
    <3>1. command.kind # "short" => if_list # <<>>
      BY <2>1 DEF IfaceMissing, sr_get_interface
    <3> QED BY <2>1, <3>1 DEF ListInv
  <2>5. ASSUME NEW i \in DOMAIN given', given'[i].kind # "short"
        PROVE  ready
    <3>1. i \in 1 .. Len(given) \/ i = Len(given) + 1
      BY <2>3
    <3> QED BY <2>3, <2>4, <2>5, <3>1 DEF HandledWhenReady
  <2> QED BY <2>1, <2>5 DEF HandledWhenReady
<1>4. UNCHANGED given \/ HandlePacket
  <2>1. CASE Reactor \/ OpenFlow \/ \E k \in Unsolicited : Announce(k)
    BY Zenon, <2>1, ControllerSteps
  <2> QED
    BY Zenon, <2>1 DEF Next, vars, Lose, Connect, sr_read_from_server_expect, Recv,
         ReadFails,
       Unexpected, sr_handle_auth_request, sr_handle_auth_status, sr_handle_rtable,
       HandleHwinfo, PacketAborts, DropPacket, HandleBanner, HandleClose
<1> QED BY <1>2, <1>3, <1>4

-----------------------------------------------------------------------------
(* The theorems.                                                           *)

LEMMA InitInv == Init => VnsInv
<1> SUFFICES ASSUME Init PROVE VnsInv
  OBVIOUS
<1> USE VnsAssumption
<1>1. StreamType
  BY DEF Init, StreamType
<1>2. SessionType
  <2>1. ready \in BOOLEAN
    BY Zenon DEF Init
  <2>2. up \in Seq({"AUTH_REPLY", "OPEN", "OPEN_TEMPLATE", "PACKET"}) /\ added \in 0 .. MaxPackets
    BY DEF Init
  <2> QED BY Zenon, <2>1, <2>2 DEF Init, SessionType
<1>3. StreamInv
  <2>1. PICK start : start = Starts(sent)
    OBVIOUS
  <2>2. /\ start \in [1 .. Len(sent) + 1 -> Nat] /\ Len(sent) = 0 /\ Len(handled) = 0
        /\ Len(buf) = 0 /\ Len(down) = 0 /\ buf = <<>> /\ conn = "none"
    BY ZenonT(30), <1>1, <2>1, StartsFacts DEF Init, StreamType
  <2>3. StreamOf(start)
    BY <2>2 DEF StreamOf
  <2> QED BY <2>1, <2>3, StreamInvOf
<1>4. HandshakeInv
  <2>1. Len(sent) = 0 /\ Len(up) = 0 /\ if_list = <<>>
    BY DEF Init
  <2>2. OneCommand /\ OneMessage /\ NoCommand /\ NoMessage
    BY <2>1 DEF OneCommand, OneMessage, NoCommand, NoMessage
  <2> QED BY <2>1, <2>2 DEF HandshakeInv
<1>5. ListInv /\ HandledWhenReady
  BY DEF Init, ListInv, HandledWhenReady
<1> QED BY <1>1, <1>2, <1>3, <1>4, <1>5 DEF VnsInv, TypeOK

\* The stream, the handshake and the list of interfaces together: no step of the
\* controller's threads or of the router breaks them.
THEOREM VnsInvariance == Spec => []VnsInv
<1>1. VnsInv /\ [Next]_vars => VnsInv'
  BY Zenon, StreamTypeStep, SessionTypeStep, StreamStep, HandshakeStep, ListStep,
       HandledStep
     DEF VnsInv, TypeOK
<1> QED BY InitInv, <1>1, PTL DEF Spec

\* For any sizes and any number of commands, and however recv cuts the stream:
\* sr_read_from_server_expect takes the commands whole and in order.
THEOREM FramesAreIntact == Spec => []FramesIntact
<1>1. VnsInv => FramesIntact
  <2> SUFFICES ASSUME StreamType, StreamInv PROVE FramesIntact
    BY DEF VnsInv, TypeOK
  <2>1. StreamOf(Starts(sent))
    BY StreamInvOf
  <2>2. /\ Len(handled) \in Nat /\ Len(sent) \in Nat /\ Len(handled) <= Len(sent)
        /\ \A i \in 1 .. Len(handled) : handled[i] = sent[i]
        /\ handled \in Seq(Message) /\ sent \in Seq(Message)
    BY <2>1, LengthFacts DEF StreamOf, StreamType
  <2>3. buf # <<>> => \A i \in DOMAIN buf : buf[i] = [msg |-> sent[Len(handled) + 1], at |-> i]
    BY BufFacts, LengthFacts
  <2> QED BY <2>2, <2>3 DEF FramesIntact
<1> QED BY VnsInvariance, <1>1, PTL

\* For any switch: a router that says it is ready knows each interface once with
\* its own addresses, and the routing table it was started with uses these only.
THEOREM InterfacesAgree == Spec => []InterfacesMatch
<1>1. VnsInv => InterfacesMatch
  <2> SUFFICES ASSUME ListInv, ready PROVE InterfacesMatch
    BY DEF VnsInv, InterfacesMatch
  <2>1. sr_verify_routing_table(if_list)
    BY DEF ListInv
  <2>2. PICK names \in Names : if_list = Listed(names)
    BY <2>1 DEF ListInv, sr_verify_routing_table
  <2>3. /\ Len(names) = Cardinality(Iface) /\ Len(names) \in Nat
        /\ {names[i] : i \in 1 .. Len(names)} = Iface
    BY NamesFacts
  <2>4. /\ DOMAIN if_list = 1 .. Len(names)
        /\ \A i \in 1 .. Len(names) : if_list[i] = Entry(names[i])
    BY <2>2 DEF Listed, Entry
  <2>5. \A i \in 1 .. Len(names) :
            /\ if_list[i].name = names[i] /\ if_list[i].addr = <<"addr", names[i]>>
            /\ if_list[i].ip = <<"ip", names[i]>>
    BY <2>4 DEF Entry
  <2>6. {if_list[i].name : i \in DOMAIN if_list} = Iface
    BY <2>3, <2>4, <2>5
  <2>7. Len(if_list) = Cardinality(Iface)
    BY <2>2, <2>3 DEF Listed
  <2>8. setup.table \subseteq Iface /\ setup.table # {}
    BY <2>1, <2>6 DEF sr_verify_routing_table
  <2> QED BY ZenonT(30), <2>4, <2>5, <2>6, <2>7, <2>8 DEF InterfacesMatch
<1> QED BY VnsInvariance, <1>1, PTL

\* However packets of the switch overtake the handshake: sr_handlepacket is not
\* called with a packet that may be an ARP packet before the router is ready.
THEOREM PacketsWhenReady == Spec => []HandledWhenReady
<1>1. VnsInv => HandledWhenReady
  BY Zenon DEF VnsInv
<1> QED BY VnsInvariance, <1>1, PTL
=============================================================================
