------------------------------ MODULE MCSession ------------------------------
(* Session with the messages of one node at a time, and nonces of a later    *)
(* session of a node that lie among those of the one before.                 *)
EXTENDS Session

CONSTANTS SendsA, SendsB   \* how many messages A alone and B alone send

MCTraffic == {[n \in Node |-> IF n = A THEN SendsA ELSE 0],
              [n \in Node |-> IF n = B THEN SendsB ELSE 0]}

MCNonceBase ==
    [n \in Node |-> [k \in 1 .. MaxCalls + 1 |-> IF k % 2 = 0 THEN 2 ELSE 0]]
=============================================================================
