---------------------------- MODULE MCVnsSession ----------------------------
(* Instances of VnsSession for TLC. *)
EXTENDS VnsSession

Started(template, key, table) == [template |-> template, key |-> key, table |-> table]

\* The usual start; with a template; without the file auth_key; without routes or
\* with a route through an interface that the switch does not have.
FiveSetups == {Started(FALSE, TRUE, Iface), Started(TRUE, TRUE, Iface),
               Started(FALSE, FALSE, Iface), Started(FALSE, TRUE, {}),
               Started(FALSE, TRUE, IfaceName)}

\* A size word of two bytes; a command has one or two more, a jumbo frame too many.
Sizes == [k \in PacketKind \cup CommandKind |->
            IF k = "jumbo" THEN 5 ELSE IF k \in {"HWINFO", "frame"} THEN 4 ELSE 3]
=============================================================================
