----------------------------- MODULE RoundTrip ------------------------------
(***************************************************************************)
(* The estimate of the round-trip time and the retransmission timeout of   *)
(* one Endpoint: MaybeAdjustRto (src/rudp.cpp), which HandleAck gives the  *)
(* age of the last transmission of a message that is acknowledged, and     *)
(* Tick, whose retransmissions the timeout governs and which the next      *)
(* sample depends on.                                                      *)
(*                                                                         *)
(* One message at a time is under way, on a path whose round trip takes    *)
(* path milliseconds and loses nothing; Tick is called every millisecond.  *)
(* A message with its acknowledgement is one step, in which rto_ms_ does   *)
(* not change.  Numbers stay far below 2^31.                               *)
(* Slip... operators are mistaken variants, for the mutation checks.       *)
(***************************************************************************)
EXTENDS Integers

CONSTANTS
    Delay,            \* the round trips of the path, in milliseconds
    MinRto,           \* cfg_.retransmit_min_ms
    MaxRto,           \* cfg_.retransmit_max_ms
    MaxRetransmits    \* cfg_.max_retransmits

ASSUME RoundTripAssumption ==
    /\ Delay \subseteq Nat \ {0}
    /\ MinRto \in Nat \ {0}
    /\ MaxRto \in Nat
    /\ MinRto <= MaxRto
    /\ MaxRetransmits \in Nat

VARIABLES
    smoothed_rtt,   \* smoothed_rtt_, 0 before the first sample
    rtt_var,        \* rtt_var_
    rto_ms,         \* rto_ms_
    path,           \* the round trip of the path
    seq,            \* the message under way: its number modulo 2
    slowest         \* history: the longest the round trip has been

vars == <<smoothed_rtt, rtt_var, rto_ms, path, seq, slowest>>

Init ==
    /\ smoothed_rtt = 0
    /\ rtt_var = 0
    /\ rto_ms = MinRto
    /\ path \in Delay
    /\ seq = 1
    /\ slowest = path

-----------------------------------------------------------------------------
(* MaybeAdjustRto *)

\* The dividend is taken for unsigned, here of 16 bits.
SlipQuotient(n, d) == IF n >= 0 THEN n \div d ELSE (65536 + n) \div d

\* The division of signed integers drops the remainder.
Quotient(n, d) == IF n >= 0 THEN n \div d ELSE -((-n) \div d)

\* The deviation keeps its sign.
SlipDeviation(err) == err

Deviation(err) == IF err < 0 THEN -err ELSE err

\* The timeout is never lowered.
SlipClamped(rto) ==
    LET raised == IF rto < rto_ms THEN rto_ms ELSE rto
    IN  IF raised > MaxRto THEN MaxRto ELSE raised

Clamped(rto) ==
    LET raised == IF rto < MinRto THEN MinRto ELSE rto
    IN  IF raised > MaxRto THEN MaxRto ELSE raised

\* The first sample is the estimate, and half of it the variance.
Smoothed(s) ==
    IF smoothed_rtt = 0 THEN s ELSE smoothed_rtt + Quotient(s - smoothed_rtt, 8)

Varied(s) ==
    IF smoothed_rtt = 0 THEN s \div 2
    ELSE rtt_var + Quotient(Deviation(s - smoothed_rtt) - rtt_var, 4)

AtLeastOne(sample) == IF sample = 0 THEN 1 ELSE sample

MaybeAdjustRto(sample) ==
    LET s == AtLeastOne(sample)
    IN  /\ smoothed_rtt' = Smoothed(s)
        /\ rtt_var' = Varied(s)
        /\ rto_ms' = Clamped(Smoothed(s) + 4 * Varied(s))

-----------------------------------------------------------------------------
(* One message *)

\* How often Tick sends a message again before its acknowledgement arrives;
\* a Tick of the same millisecond may come before it or after.
Retransmissions == {(path - 1) \div rto_ms, path \div rto_ms}

\* The acknowledgement answers the first transmission, its age is that of the
\* last one.
Acknowledged ==
    \E k \in Retransmissions :
        /\ k <= MaxRetransmits
        /\ MaybeAdjustRto(path - k * rto_ms)
    /\ seq' = 1 - seq
    /\ UNCHANGED <<path, slowest>>

\* The retries are spent and the timeout runs out once more before the
\* acknowledgement arrives, which then finds no message.
GivenUp ==
    /\ \E k \in Retransmissions : k > MaxRetransmits
    /\ seq' = 1 - seq
    /\ UNCHANGED <<smoothed_rtt, rtt_var, rto_ms, path, slowest>>

PathChanges ==
    /\ path' \in Delay
    /\ slowest' = IF path' > slowest THEN path' ELSE slowest
    /\ UNCHANGED <<smoothed_rtt, rtt_var, rto_ms, seq>>

Next == Acknowledged \/ GivenUp \/ PathChanges

Spec == Init /\ [][Next]_vars
-----------------------------------------------------------------------------
(* Properties *)

\* The timeout stays within the limits of the configuration, and the estimate
\* and the variance never go below 0, which their unsigned members would wrap.
TypeOK ==
    /\ smoothed_rtt \in Nat
    /\ rtt_var \in Nat
    /\ rto_ms \in MinRto .. MaxRto
    /\ path \in Delay
    /\ seq \in {0, 1}
    /\ slowest \in Delay

\* Neither rounding nor a timeout shorter than the path drives the estimate
\* beyond the slowest round trip there was, or the variance beyond it.
Bounded ==
    /\ path <= slowest
    /\ smoothed_rtt <= slowest
    /\ rtt_var <= slowest

\* Once the timeout covers the path, no message is sent again as long as the
\* path stays as it is.
KeepsCovering ==
    [][path' = path /\ path < rto_ms => path < rto_ms']_vars

-----------------------------------------------------------------------------
(* Fairness: messages go on being sent. *)

FairSpec == Spec /\ WF_vars(Acknowledged \/ GivenUp)

\* When the path stays as it is the timeout comes down to at most 47 ms more
\* than the round trip, however slow it was before: 7 and 10 is what the
\* divisions by 8 and by 4 leave of an error.
ComesDown ==
    \A d \in Delay :
        <>[](path = d) => <>[](rto_ms <= d + 7 + 4 * 10 \/ rto_ms = MinRto)

\* On a path that stays as it is the timeout comes to cover the round trip, so
\* that a message that is not lost is sent once.
Adapts == \A d \in Delay : <>[](path = d) => <>[](rto_ms >= d)
=============================================================================
