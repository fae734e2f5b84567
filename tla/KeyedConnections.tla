-------------------------- MODULE KeyedConnections --------------------------
(***************************************************************************)
(* What a connection manager promises: at most Capacity keys have a        *)
(* connection, a connection lives until its key is closed, and each one    *)
(* gives the application the messages that came for its own key while it   *)
(* was open, from its first message on, in order and each of them once.    *)
(***************************************************************************)
EXTENDS Naturals, Sequences, FiniteSets

CONSTANTS Key, Capacity

VARIABLES conns,    \* the open connections: key -> [id, got]
          opened    \* how many were ever opened; the ordinal names each one

vars == <<conns, opened>>

Open(k) ==
    /\ k \notin DOMAIN conns
    /\ Cardinality(DOMAIN conns) < Capacity
    /\ opened' = opened + 1
    /\ conns' = [j \in DOMAIN conns \cup {k} |->
                    IF j = k THEN [id |-> opened + 1, got |-> <<>>] ELSE conns[j]]

Close(k) ==
    /\ conns' = [j \in DOMAIN conns \ {k} |-> conns[j]]
    /\ UNCHANGED opened

Deliver(k) ==
    /\ conns' = [conns EXCEPT ![k].got =
           Append(@, [key |-> k, id |-> conns[k].id, seq |-> Len(@) + 1])]
    /\ UNCHANGED opened

Init ==
    /\ conns = [k \in {} |-> {}]
    /\ opened = 0

Next ==
    \/ \E k \in Key : Open(k)
    \/ \E k \in DOMAIN conns : Close(k) \/ Deliver(k)

Spec == Init /\ [][Next]_vars
=============================================================================
