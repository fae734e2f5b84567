----------------------------- MODULE AcceptOnce -----------------------------
(***************************************************************************)
(* What a replay filter promises, without saying how it remembers: within  *)
(* one session no nonce is taken twice.  Starting a session forgets        *)
(* everything.  Endpoint's bitmap (module ReplayWindow) implements this.   *)
(***************************************************************************)
EXTENDS Naturals

CONSTANT Nonce

VARIABLE times   \* how often each nonce was taken in the current session

NoneTaken == [x \in Nonce |-> 0]

Init == times = NoneTaken

Take(nonce) == times[nonce] = 0 /\ times' = [times EXCEPT ![nonce] = 1]

NewSession == times' = NoneTaken

Next == NewSession \/ \E nonce \in Nonce : Take(nonce)

Spec == Init /\ [][Next]_times
=============================================================================
