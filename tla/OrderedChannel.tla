--------------------------- MODULE OrderedChannel ---------------------------
(***************************************************************************)
(* What udplink promises an application, with none of its machinery: each  *)
(* node hands messages over for its peer, and the peer is given exactly    *)
(* those, in that order, each of them once.  Several that became ready     *)
(* together are given in one step.                                         *)
(***************************************************************************)
EXTENDS Naturals, Sequences

CONSTANTS Node, Peer, Message

VARIABLES accepted,    \* accepted[n]: the messages n has handed over
          delivered    \* delivered[n]: the messages n has been given

vars == <<accepted, delivered>>

Init ==
    /\ accepted = [n \in Node |-> <<>>]
    /\ delivered = [n \in Node |-> <<>>]

Accept(n) ==
    /\ \E m \in Message :
           accepted' = [accepted EXCEPT ![n] = Append(@, m)]
    /\ UNCHANGED delivered

Deliver(n) ==
    /\ \E k \in Len(delivered[n]) + 1 .. Len(accepted[Peer[n]]) :
           delivered' = [delivered EXCEPT
                             ![n] = SubSeq(accepted[Peer[n]], 1, k)]
    /\ UNCHANGED accepted

Next == \E n \in Node : Accept(n) \/ Deliver(n)

Spec == Init /\ [][Next]_vars
=============================================================================
