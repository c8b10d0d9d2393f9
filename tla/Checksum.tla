------------------------------ MODULE Checksum ------------------------------
(***************************************************************************)
(* The Internet checksum, as the router and STCP compute and check it, on  *)
(* a header that is sent, perhaps damaged, and received.  A header is its  *)
(* words and its checksum field; all sums are of words in one byte order.  *)
(***************************************************************************)
EXTENDS Naturals, Functions

CONSTANTS
    B,      \* values of a word: 2^16
    N       \* words besides the checksum field

\* The sum of a header with its checksum field fits into a double word.
ASSUME ChecksumAssumption ==
    B \in Nat \ {0, 1} /\ N \in Nat \ {0} /\ (N + 1) * (B - 1) < B * B

Word == 0 .. (B - 1)
Ones == B - 1

VARIABLES
    kind,       \* who computed the checksum: "ip", "tcp" or another "host"
    words,
    sum,        \* the checksum field
    damaged,    \* a word has changed on the way
    at          \* "building", "sent", "accepted" or "dropped"

vars == <<kind, words, sum, damaged, at>>

\* while (sum > 0xffff) sum = (sum >> 16) + (sum & 0xffff)
Folded[s \in 0 .. ((N + 1) * Ones)] ==
    IF s > Ones THEN Folded[(s \div B) + (s % B)] ELSE s

\* Mutant of cksum: the carry is dropped.
cksumNoCarry(ws, field) ==
    LET c == Ones - ((SumFunction(ws) + field) % B) IN IF c = 0 THEN Ones ELSE c

\* 0 is written as all ones.
cksum(ws, field) ==
    LET c == Ones - Folded[SumFunction(ws) + field] IN IF c = 0 THEN Ones ELSE c

\* The checksum field is skipped, and the sum folded exactly twice.  The result
\* is cut to a word.
_mysock_tcp_checksum(ws) ==
    LET s == SumFunction(ws)
        once == (s \div B) + (s % B)
        twice == once + (once \div B)
    IN  Ones - (twice % B)

\* What RFC 1071 asks of a header with its checksum: the sum is all ones.
Valid(ws, field) == Folded[SumFunction(ws) + field] = Ones

-----------------------------------------------------------------------------

\* No header is all zeros.
Init ==
    /\ kind \in {"ip", "tcp", "host"}
    /\ words \in [1 .. N -> Word] /\ \E i \in 1 .. N : words[i] # 0
    /\ sum \in Word
    /\ damaged = FALSE /\ at = "building"

\* ip_sum = 0; ip_sum = cksum(...), whatever ip_sum was.
SendIp ==
    /\ kind = "ip" /\ at = "building"
    /\ sum' = cksum(words, 0)
    /\ at' = "sent" /\ UNCHANGED <<kind, words, damaged>>

_mysock_set_checksum ==
    /\ kind = "tcp" /\ at = "building"
    /\ sum' = _mysock_tcp_checksum(words)
    /\ at' = "sent" /\ UNCHANGED <<kind, words, damaged>>

\* Any other host on the network.
SendHost ==
    /\ kind = "host" /\ at = "building"
    /\ sum' = Ones - Folded[SumFunction(words)]
    /\ at' = "sent" /\ UNCHANGED <<kind, words, damaged>>

\* One word changes.  That 0 and all ones are the same to the checksum is a
\* property of the checksum and not of this code.
Damage ==
    /\ at = "sent" /\ ~damaged
    /\ \E i \in 1 .. N, w \in Word :
        /\ w % Ones # words[i] % Ones
        /\ words' = [words EXCEPT ![i] = w]
    /\ damaged' = TRUE
    /\ UNCHANGED <<kind, sum, at>>

\* sr_handlepacket compares ip_sum with the sum of the header, ip_sum included.
CheckIp ==
    /\ kind \in {"ip", "host"} /\ at = "sent"
    /\ at' = IF cksum(words, sum) # sum THEN "dropped" ELSE "accepted"
    /\ UNCHANGED <<kind, words, sum, damaged>>

\* Mutant of _mysock_verify_checksum: any segment whose sum is not 0 passes.
VerifyNonzero ==
    /\ kind = "tcp" /\ at = "sent"
    /\ at' = IF _mysock_tcp_checksum(words) # 0 THEN "accepted" ELSE "dropped"
    /\ UNCHANGED <<kind, words, sum, damaged>>

_mysock_verify_checksum ==
    /\ kind = "tcp" /\ at = "sent"
    /\ at' = IF _mysock_tcp_checksum(words) = sum THEN "accepted" ELSE "dropped"
    /\ UNCHANGED <<kind, words, sum, damaged>>

Next ==
    \/ SendIp \/ _mysock_set_checksum \/ SendHost
    \/ Damage
    \/ CheckIp \/ _mysock_verify_checksum

Spec == Init /\ [][Next]_vars

-----------------------------------------------------------------------------
(* Properties.                                                             *)

\* A header is sent with a checksum that every other implementation accepts:
\* cksum and the two folds of _mysock_tcp_checksum agree with RFC 1071 for any
\* number of carries, and replacing 0 by all ones does no harm.
SentIsValid == at = "sent" /\ ~damaged => Valid(words, sum)

\* _mysock_verify_checksum accepts exactly the segments that arrive as
\* _mysock_set_checksum left them: the assertion in stcp_network_recv.
SegmentChecked ==
    /\ kind = "tcp" /\ at = "accepted" => ~damaged
    /\ kind = "tcp" /\ at = "dropped" => damaged

\* The router takes a header whose checksum is correct.
ValidIsAccepted == kind = "host" /\ at = "dropped" => ~Valid(words, sum)
=============================================================================
