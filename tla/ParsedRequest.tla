--------------------------- MODULE ParsedRequest ---------------------------
(***************************************************************************)
(* The header table of proxy_parse.c: an array of slots that only grows.   *)
(* A removed header leaves a slot whose key is NULL, and ParsedHeader_set  *)
(* always takes a new slot.  An operation is an operator from the table to *)
(* the table it leaves.                                                    *)
(***************************************************************************)
EXTENDS Naturals, Sequences

CONSTANTS
    Keys,           \* header names, compared byte by byte
    Values,
    NULL,
    DEFAULT_NHDRS   \* slots allocated at first: 8

ASSUME HeaderAssumption == NULL \notin Keys /\ DEFAULT_NHDRS \in Nat \ {0}

Slot == [key : Keys \cup {NULL}, value : Values]

\* headersused is the length of headers, headerslen the slots allocated.
Table == [headers : Seq(Slot), headerslen : Nat]

ParsedHeader_create == [headers |-> <<>>, headerslen |-> DEFAULT_NHDRS]

SlotsOf(pr, key) == {i \in 1 .. Len(pr.headers) : pr.headers[i].key = key}

\* The first slot with the key, 0 for NULL.
ParsedHeader_get(pr, key) ==
    IF SlotsOf(pr, key) = {} THEN 0
    ELSE CHOOSE i \in SlotsOf(pr, key) : \A j \in SlotsOf(pr, key) : i <= j

ParsedHeader_remove(pr, key) ==
    LET i == ParsedHeader_get(pr, key)
    IN  IF i = 0 THEN pr ELSE [pr EXCEPT !.headers[i].key = NULL]

\* ParsedHeader_set needs a larger array.
Full(pr) == pr.headerslen <= Len(pr.headers) + 1

\* Mutant of Grow: the array grows only once it has been overrun.
GrowLate(pr) ==
    IF pr.headerslen < Len(pr.headers) THEN [pr EXCEPT !.headerslen = 2 * @] ELSE pr

Grow(pr) == IF Full(pr) THEN [pr EXCEPT !.headerslen = 2 * @] ELSE pr

Add(pr, key, value) ==
    [pr EXCEPT !.headers = Append(@, [key |-> key, value |-> value])]

\* Mutant of ParsedHeader_set: the old header is kept.
SetWithoutRemove(pr, key, value) == Add(Grow(pr), key, value)

\* Mutant of ParsedHeader_set: the old header is removed after the new one
\* was added, that is instead of it if there was none.
SetThenRemove(pr, key, value) == ParsedHeader_remove(Add(Grow(pr), key, value), key)

ParsedHeader_set(pr, key, value) == Add(Grow(ParsedHeader_remove(pr, key)), key, value)

\* What is printed: the slots that still have a key, in order.
ParsedHeader_printHeaders(pr) == SelectSeq(pr.headers, LAMBDA h : h.key # NULL)
=============================================================================
