---------------------------- MODULE HeaderTable ----------------------------
(***************************************************************************)
(* The life of the header table of one ParsedRequest: any sequence of the  *)
(* calls that proxy_parse.h offers, a realloc that fails, and the end.     *)
(***************************************************************************)
EXTENDS ParsedRequest

CONSTANTS
    NoValue,
    MaxSlots    \* bound on the slots used

ASSUME ValueAssumption == NoValue \notin Values /\ MaxSlots \in Nat

VARIABLES
    pr,
    status,     \* "live"; "lost": headers is NULL after a failed realloc;
                \* "crashed": it was then used; "destroyed"
    call        \* the last call and its arguments, "end" once it is not live

tableVars == <<pr, status, call>>

TableInit == pr = ParsedHeader_create /\ status = "live" /\ call = <<"create">>

Set(key, value) ==
    /\ status = "live" /\ Len(pr.headers) < MaxSlots
    /\ pr' = ParsedHeader_set(pr, key, value)
    /\ call' = <<"set", key, value>>
    /\ UNCHANGED status

\* realloc returns NULL after the old header was removed and headerslen was
\* doubled.  The only pointer to the array is overwritten, and no caller looks
\* at the -1.
SetFails(key) ==
    /\ status = "live" /\ Full(pr)
    /\ pr' = Grow(ParsedHeader_remove(pr, key))
    /\ status' = "lost" /\ call' = <<"end">>

Remove(key) ==
    /\ status = "live"
    /\ pr' = ParsedHeader_remove(pr, key)
    /\ call' = <<"remove", key>>
    /\ UNCHANGED status

\* Every operation begins with the slots in use: headers[0] of a NULL array.
UseLost ==
    /\ status = "lost" /\ Len(pr.headers) > 0
    /\ status' = "crashed"
    /\ UNCHANGED <<pr, call>>

ParsedRequest_destroy ==
    /\ status = "live" \/ (status = "lost" /\ Len(pr.headers) = 0)
    /\ pr' = [headers |-> <<>>, headerslen |-> 0]
    /\ status' = "destroyed" /\ call' = <<"end">>

TableNext ==
    \/ \E key \in Keys, value \in Values : Set(key, value)
    \/ \E key \in Keys : SetFails(key) \/ Remove(key)
    \/ UseLost
    \/ ParsedRequest_destroy

TableSpec == TableInit /\ [][TableNext]_tableVars

-----------------------------------------------------------------------------
(* Properties.                                                             *)

\* The types, which the proofs use.
TableOK == pr \in Table /\ status \in {"live", "lost", "crashed", "destroyed"}

\* No two slots hold the same header, whatever was set, removed and set again:
\* what is printed never repeats a name, and removing the first slot with a
\* name removes the header.
OneSlotPerKey ==
    \A i, j \in 1 .. Len(pr.headers) :
        pr.headers[i].key = pr.headers[j].key /\ pr.headers[i].key # NULL => i = j

\* ParsedHeader_set writes inside the array: one slot is always left over, so
\* the slot after the last one used was allocated.
SlotLeft == status = "live" => Len(pr.headers) < pr.headerslen

\* The value a caller of ParsedHeader_get sees.
ValueOf(key) ==
    LET i == ParsedHeader_get(pr, key) IN IF i = 0 THEN NoValue ELSE pr.headers[i].value

Map == INSTANCE HeaderMap WITH
    usable <- (status = "live"),
    value <- [key \in Keys |-> IF status = "live" THEN ValueOf(key) ELSE NoValue]

\* The array with its removed slots is a map from names to values: setting or
\* removing one header does that, changes no other and uncovers no older value.
ImplementsHeaderMap == Map!Spec
=============================================================================
