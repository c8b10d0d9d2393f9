----------------------------- MODULE HeaderMap -----------------------------
(***************************************************************************)
(* What proxy_parse.h promises of ParsedHeader_set, _get and _remove: at   *)
(* most one value for each header name, changed only by a call that names  *)
(* it, until the request is destroyed or memory runs out.                  *)
(***************************************************************************)
CONSTANTS Keys, Values, NoValue

VARIABLES
    usable,     \* neither destroyed nor lost
    value,      \* value[k]: the value of header k
    call        \* the last call and its arguments

vars == <<usable, value, call>>

Init ==
    /\ usable = TRUE
    /\ value = [k \in Keys |-> NoValue]
    /\ call = <<"create">>

Set(k, v) ==
    /\ usable /\ UNCHANGED usable
    /\ value' = [value EXCEPT ![k] = v]
    /\ call' = <<"set", k, v>>

Remove(k) ==
    /\ usable /\ UNCHANGED usable
    /\ value' = [value EXCEPT ![k] = NoValue]
    /\ call' = <<"remove", k>>

\* After the end nothing is said of the values.
End ==
    /\ usable /\ usable' = FALSE
    /\ value' = [k \in Keys |-> NoValue]
    /\ call' = <<"end">>

Next ==
    \/ \E k \in Keys, v \in Values : Set(k, v)
    \/ \E k \in Keys : Remove(k)
    \/ End

Spec == Init /\ [][Next]_vars
=============================================================================
