------------------------------ MODULE Transport ------------------------------
(***************************************************************************)
(* transport.c, the STCP transport layer that the Makefile builds, over    *)
(* the mysocket layer of module Mysock.                                    *)
(***************************************************************************)
EXTENDS Mysock

CONSTANT GarbageWindows  \* what the uninitialised current_sender_window may hold

ASSUME GarbageAssumption == GarbageWindows \subseteq Int

transport_init(e) ==
    Handshake(e)

\* control_loop: wait for events, then the branches in the order of the code.
\* The first two are passed over unless the connection is ESTABLISHED.
control_loop(e) ==
    \/ /\ stcp_wait_for_event(e)
       /\ UNCHANGED current_sender_window
    \/ /\ InLoop(e) /\ "APP_DATA" \in event[e]
       /\ IF connection_state[e] = "ESTABLISHED"
          THEN AppRecv(e) \/ Overrun(e) ELSE Skip(e, "APP_DATA")
    \/ SendSegment(e)
    \/ SendFails(e)
    \/ /\ InLoop(e) /\ "APP_DATA" \notin event[e] /\ "NETWORK_DATA" \in event[e]
       /\ IF connection_state[e] = "ESTABLISHED"
          THEN NetworkData(e) ELSE Skip(e, "NETWORK_DATA")
    \/ /\ InLoop(e) /\ event[e] = {"APP_CLOSE_REQUESTED"}
       /\ CloseRequested(e)
    \/ TransportReturn(e)

TransportThread(e) == transport_init(e) \/ control_loop(e)

\* calloc leaves the first state of the enumeration in connection_state; the
\* local current_sender_window is what was on the stack.
Init ==
    /\ MysockInit
    /\ connection_state = [e \in End |-> "ESTABLISHED"]
    /\ current_sender_window \in [End -> GarbageWindows]

Next == \E e \in End : Environment(e) \/ TransportThread(e)

Spec == Init /\ [][Next]_vars

\* The threads run, and the programs keep reading and close when they see EOF.
Fairness == \A e \in End : WF_vars(TransportThread(e)) /\ EnvironmentFairness(e)

FairSpec == Spec /\ Fairness
=============================================================================
