----------------------------- MODULE MCTransfer -----------------------------
(* Transfer with the traffic of each direction bounded on its own. *)
EXTENDS Transfer

CONSTANTS SendsA, SendsB   \* how many messages A and B try to send

MCMaxSend == [n \in Node |-> IF n = A THEN SendsA ELSE SendsB]

\* A bound of the run in which sequence numbers wrap: it follows a slot up to
\* its last retransmission and no further, so no message is given up.
NothingGivenUp ==
    \A n \in Node : \A i \in DOMAIN send_slots[n] :
        send_slots[n][i].retries < MaxRetransmits
=============================================================================
