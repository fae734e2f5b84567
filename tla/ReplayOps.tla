------------------------------ MODULE ReplayOps ------------------------------
(***************************************************************************)
(* Endpoint::ValidateAndTrackReplay (src/rudp.cpp) as pure operators.      *)
(*                                                                         *)
(* A replay window is the newest nonce taken so far and a bitmap of the    *)
(* ReplayBits nonces at and below it.  The bitmap is the set of distances  *)
(* from the newest nonce: bit d stands for the nonce max - d.  A newest    *)
(* nonce of 0 is the code's mark for "nothing taken yet", so 0 is never a  *)
(* nonce: OnUdpPacket drops such a packet before it gets here.             *)
(*                                                                         *)
(* An operator whose name begins with Slip is not the code: it is the      *)
(* definition after it with a plausible mistake in it, and the mutation    *)
(* checks show that a property notices.                                    *)
(***************************************************************************)
EXTENDS Integers

CONSTANT ReplayBits   \* width of rx_replay_bitmap_, 64 in the code

ASSUME ReplayBitsAssumption == ReplayBits \in Nat \ {0}

FreshWindow == [max |-> 0, bits |-> {}]

Window == [max : Nat, bits : SUBSET (0 .. ReplayBits - 1)]

SlipUncutShift(bits, d) == {b + d : b \in bits}

SlipNoShift(bits, d) == bits

\* rx_replay_bitmap_ << d: bits pushed past the width are lost, and a shift
\* by the width or more leaves none (the code tests d >= 64 for that).
ShiftLeft(bits, d) == {b + d : b \in {x \in bits : x + d < ReplayBits}}

\* Anything recent enough passes: the bitmap is never looked at.
SlipAnyRecent(w, nonce) == w.max = 0 \/ w.max - nonce < ReplayBits

\* A nonce too old for the bitmap passes.
SlipAncient(w, nonce) ==
    \/ w.max = 0
    \/ nonce > w.max
    \/ (w.max - nonce) \notin w.bits

\* The nonce is new to the window w: the call returns true.
Accepts(w, nonce) ==
    \/ w.max = 0
    \/ nonce > w.max
    \/ /\ w.max - nonce < ReplayBits
       /\ (w.max - nonce) \notin w.bits

\* The call returns false and reports a duplicate.  Every other refusal is of
\* a nonce too old for the bitmap.
IsDuplicate(w, nonce) ==
    /\ ~ Accepts(w, nonce)
    /\ w.max - nonce < ReplayBits

\* The window after an accepted nonce.
Track(w, nonce) ==
    IF w.max = 0 THEN [max |-> nonce, bits |-> {0}]
    ELSE IF nonce > w.max
         THEN [max  |-> nonce,
               bits |-> ShiftLeft(w.bits, nonce - w.max) \cup {0}]
         ELSE [w EXCEPT !.bits = @ \cup {w.max - nonce}]
=============================================================================
