-------------------------- MODULE RoundTrip_proofs --------------------------
(***************************************************************************)
(* Proofs about RoundTrip: the estimate keeps its type and its bounds, and *)
(* a timeout that covers a steady path goes on covering it, for all paths, *)
(* limits of the configuration and numbers of retries.                     *)
(***************************************************************************)
EXTENDS RoundTrip, TLAPS

\* The age of a message's last transmission is at most the round trip.
LEMMA SampleInPath ==
    ASSUME NEW p \in Nat \ {0}, NEW r \in Nat \ {0},
           NEW k \in {(p - 1) \div r, p \div r}
    PROVE  /\ k \in Nat
           /\ p - k * r \in 0 .. p
           /\ p < r => k = 0
  <1>1. CASE k = p \div r
    <2>1. k \in Nat /\ k * r <= p
      BY <1>1, Z3
    <2>2. k * r \in Nat
      BY <2>1, Z3
    <2>3. p < r => k = 0
      BY <1>1, Z3
    <2> QED BY <2>1, <2>2, <2>3, Z3
  <1>2. CASE k = (p - 1) \div r
    <2>1. k \in Nat /\ k * r <= p - 1
      BY <1>2, Z3
    <2>2. k * r \in Nat
      BY <2>1, Z3
    <2>3. p < r => k = 0
      BY <1>2, Z3
    <2> QED BY <2>1, <2>2, <2>3, Z3
  <1> QED BY <1>1, <1>2

\* Division by a positive constant drops the remainder, on either side of 0.
LEMMA QuotientByEight ==
    ASSUME NEW n \in Int
    PROVE  /\ Quotient(n, 8) \in Int
           /\ n >= 0 => 0 <= Quotient(n, 8) /\ 8 * Quotient(n, 8) <= n
           /\ n < 0 => n < Quotient(n, 8) /\ Quotient(n, 8) <= 0
  BY Z3 DEF Quotient

LEMMA QuotientByFour ==
    ASSUME NEW n \in Int
    PROVE  /\ Quotient(n, 4) \in Int
           /\ n >= 0 => 0 <= Quotient(n, 4) /\ 4 * Quotient(n, 4) <= n
           /\ n < 0 => /\ n <= 4 * Quotient(n, 4)
                       /\ Quotient(n, 4) <= 0
  BY Z3 DEF Quotient

LEMMA ClampedInLimits ==
    ASSUME NEW rto \in Nat, MinRto \in Nat, MaxRto \in Nat, MinRto <= MaxRto
    PROVE  /\ Clamped(rto) \in MinRto .. MaxRto
           /\ \A p \in Nat : p < MaxRto /\ p < rto => p < Clamped(rto)
           /\ \A p \in Nat : p < Clamped(rto) => p < MinRto \/ p < rto
  BY DEF Clamped

-----------------------------------------------------------------------------

\* What MaybeAdjustRto makes of a sample between 1 and what bounds it.
LEMMA Adjusted ==
    ASSUME NEW s \in Nat \ {0}, NEW bound \in Nat, s <= bound,
           smoothed_rtt \in Nat, smoothed_rtt <= bound,
           rtt_var \in Nat, rtt_var <= bound
    PROVE  /\ Smoothed(s) \in Nat /\ Smoothed(s) <= bound
           /\ Varied(s) \in Nat /\ Varied(s) <= bound
  <1>1. CASE smoothed_rtt = 0
    BY <1>1, Z3 DEF Smoothed, Varied
  <1>2. CASE smoothed_rtt # 0
    <2> DEFINE err == s - smoothed_rtt
               dev == Deviation(err)
               q   == Quotient(err, 8)
               v   == Quotient(dev - rtt_var, 4)
    <2>1. err \in Int /\ dev \in Nat /\ dev <= bound
      BY DEF Deviation
    <2>2. /\ q \in Int
          /\ err >= 0 => 0 <= q /\ 8 * q <= err
          /\ err < 0 => err < q /\ q <= 0
      BY <2>1, QuotientByEight
    <2>3. /\ v \in Int
          /\ dev - rtt_var >= 0 => 0 <= v /\ 4 * v <= dev - rtt_var
          /\ dev - rtt_var < 0 => dev - rtt_var <= 4 * v /\ v <= 0
      <3>1. dev - rtt_var \in Int
        BY <2>1
      <3> HIDE DEF dev
      <3> QED BY <3>1, QuotientByFour
    <2>4. Smoothed(s) = smoothed_rtt + q /\ Varied(s) = rtt_var + v
      BY <1>2 DEF Smoothed, Varied
    <2>5. smoothed_rtt + q \in Nat /\ smoothed_rtt + q <= bound
      <3> HIDE DEF q
      <3> QED BY <2>2
    <2>6. rtt_var + v \in Nat /\ rtt_var + v <= bound
      <3> HIDE DEF dev, v
      <3> QED BY <2>1, <2>3
    <2> QED BY <2>4, <2>5, <2>6
  <1> QED BY <1>1, <1>2

\* A sample of the path itself leaves estimate and variance above the path,
\* together, if they were.
LEMMA StaysAbove ==
    ASSUME NEW s \in Nat \ {0},
           smoothed_rtt \in Nat \ {0}, rtt_var \in Nat,
           s < smoothed_rtt + 4 * rtt_var
    PROVE  s < Smoothed(s) + 4 * Varied(s)
  <1> DEFINE err == s - smoothed_rtt
             dev == Deviation(err)
             q   == Quotient(err, 8)
             v   == Quotient(dev - rtt_var, 4)
  <1>1. err \in Int /\ dev \in Nat /\ (err >= 0 => dev = err)
    BY DEF Deviation
  <1>2. /\ q \in Int
        /\ err >= 0 => 0 <= q /\ 8 * q <= err
        /\ err < 0 => err < q /\ q <= 0
    BY <1>1, QuotientByEight
  <1>3. /\ v \in Int
        /\ dev - rtt_var >= 0 => 0 <= v /\ 4 * v <= dev - rtt_var
        /\ dev - rtt_var < 0 => dev - rtt_var <= 4 * v /\ v <= 0
    <2>1. dev - rtt_var \in Int
      BY <1>1
    <2> HIDE DEF dev
    <2> QED BY <2>1, QuotientByFour
  <1>4. Smoothed(s) = smoothed_rtt + q /\ Varied(s) = rtt_var + v
    BY DEF Smoothed, Varied
  <1>5. s < (smoothed_rtt + q) + 4 * (rtt_var + v)
    <2> HIDE DEF dev, q, v
    <2>1. CASE err < 0
      BY <2>1, <1>1, <1>2, <1>3
    <2>2. CASE err >= 0 /\ rtt_var >= dev
      BY <2>2, <1>1, <1>2, <1>3
    <2>3. CASE err >= 0 /\ rtt_var < dev
      BY <2>3, <1>1, <1>2, <1>3
    <2> QED BY <1>1, <2>1, <2>2, <2>3
  <1> QED BY <1>4, <1>5

-----------------------------------------------------------------------------
(* The inductive invariant: types, bounds, and that the timeout is made of   *)
(* the present estimate.                                                     *)

IInv ==
    /\ TypeOK
    /\ Bounded
    /\ smoothed_rtt = 0 => rto_ms = MinRto
    /\ smoothed_rtt # 0 => rto_ms = Clamped(smoothed_rtt + 4 * rtt_var)

LEMMA InitIInv == Init => IInv
  BY RoundTripAssumption DEF Init, IInv, TypeOK, Bounded

LEMMA AcknowledgedIInv == IInv /\ Acknowledged => IInv'
  <1> SUFFICES ASSUME IInv, Acknowledged PROVE IInv'
    OBVIOUS
  <1>1. PICK k \in Retransmissions : MaybeAdjustRto(path - k * rto_ms)
    BY DEF Acknowledged
  <1>2. path \in Nat \ {0} /\ rto_ms \in Nat \ {0} /\ slowest \in Nat
    BY RoundTripAssumption DEF IInv, TypeOK
  <1>3. k \in Nat /\ path - k * rto_ms \in 0 .. path
    BY <1>1, <1>2, SampleInPath DEF Retransmissions
  <1> DEFINE s == AtLeastOne(path - k * rto_ms)
  <1>4. s \in Nat \ {0} /\ s <= slowest
    BY <1>2, <1>3 DEF AtLeastOne, IInv, Bounded
  <1>5. /\ smoothed_rtt' = Smoothed(s)
        /\ rtt_var' = Varied(s)
        /\ rto_ms' = Clamped(Smoothed(s) + 4 * Varied(s))
    BY <1>1 DEF MaybeAdjustRto
  <1> HIDE DEF s
  <1>6. /\ Smoothed(s) \in Nat /\ Smoothed(s) <= slowest
        /\ Varied(s) \in Nat /\ Varied(s) <= slowest
    BY <1>2, <1>4, Adjusted DEF IInv, TypeOK, Bounded
  <1>7. Smoothed(s) # 0
    <2>1. CASE smoothed_rtt = 0
      BY <2>1, <1>4 DEF Smoothed
    <2>2. CASE smoothed_rtt # 0
      BY <2>2, <1>4, QuotientByEight DEF Smoothed, IInv, TypeOK
    <2> QED BY <2>1, <2>2
  <1>8. Clamped(Smoothed(s) + 4 * Varied(s)) \in MinRto .. MaxRto
    BY <1>6, ClampedInLimits, RoundTripAssumption
  <1>9. path' = path /\ slowest' = slowest /\ seq' = 1 - seq
    BY DEF Acknowledged
  <1>10. Clamped(smoothed_rtt' + 4 * rtt_var') = rto_ms'
    BY <1>5
  <1>11. (smoothed_rtt # 0 => rto_ms = Clamped(smoothed_rtt + 4 * rtt_var))'
    BY <1>10 DEF Clamped
  <1> QED BY <1>5, <1>6, <1>7, <1>8, <1>9, <1>11 DEF IInv, TypeOK, Bounded

LEMMA NextIInv == IInv /\ [Next]_vars => IInv'
  <1> SUFFICES ASSUME IInv, [Next]_vars PROVE IInv'
    OBVIOUS
  <1>1. CASE Acknowledged
    BY <1>1, AcknowledgedIInv
  <1>2. CASE GivenUp
    BY <1>2 DEF GivenUp, IInv, TypeOK, Bounded, Clamped
  <1>3. CASE PathChanges
    BY <1>3, RoundTripAssumption DEF PathChanges, IInv, TypeOK, Bounded, Clamped
  <1>4. CASE UNCHANGED vars
    BY <1>4 DEF vars, IInv, TypeOK, Bounded, Clamped
  <1> QED BY <1>1, <1>2, <1>3, <1>4 DEF Next

\* For all paths and limits the timeout stays within the limits, the estimate
\* and the variance between 0 and the slowest round trip, and the timeout is
\* always that of the present estimate.
THEOREM Invariance == Spec => []IInv
  BY InitIInv, NextIInv, PTL DEF Spec

\* rto_ms_ never leaves the limits of the configuration, and neither
\* smoothed_rtt_ nor rtt_var_ goes below 0.
THEOREM TypeCorrect == Spec => []TypeOK
  <1>1. IInv => TypeOK
    BY DEF IInv
  <1> QED BY <1>1, Invariance, PTL

\* Estimate and variance never exceed the slowest round trip there was, though
\* samples are taken from the last transmission.
THEOREM EstimateBounded == Spec => []Bounded
  <1>1. IInv => Bounded
    BY DEF IInv
  <1> QED BY <1>1, Invariance, PTL

\* Once the timeout is longer than the round trip of a path it stays so until
\* the path changes: no message is sent twice from then on.
THEOREM CoverageKept == Spec => KeepsCovering
  <1>1. ASSUME IInv, [Next]_vars, path' = path, path < rto_ms
        PROVE  path < rto_ms'
    <2>1. path \in Nat \ {0} /\ rto_ms \in MinRto .. MaxRto
      BY <1>1, RoundTripAssumption DEF IInv, TypeOK
    <2>2. path < MaxRto
      BY <1>1, <2>1, RoundTripAssumption
    <2>3. CASE Acknowledged
      <3>1. PICK k \in Retransmissions : MaybeAdjustRto(path - k * rto_ms)
        BY <2>3 DEF Acknowledged
      <3>2. k = 0
        <4>1. rto_ms \in Nat \ {0}
          BY <2>1, RoundTripAssumption
        <4> QED BY <1>1, <2>1, <3>1, <4>1, SampleInPath DEF Retransmissions
      <3>3. rto_ms' = Clamped(Smoothed(path) + 4 * Varied(path))
        <4>1. AtLeastOne(path - k * rto_ms) = path
          BY <2>1, <3>2, RoundTripAssumption DEF AtLeastOne
        <4> QED BY <3>1, <4>1 DEF MaybeAdjustRto
      <3>4. Smoothed(path) \in Nat /\ Varied(path) \in Nat
        BY <1>1, <2>1, Adjusted, RoundTripAssumption DEF IInv, TypeOK, Bounded
      <3>5. path < MinRto \/ path < Smoothed(path) + 4 * Varied(path)
        <4>1. CASE smoothed_rtt = 0
          BY <1>1, <4>1 DEF IInv
        <4>2. CASE smoothed_rtt # 0
          <5>1. path < MinRto \/ path < smoothed_rtt + 4 * rtt_var
            BY <1>1, <2>1, <4>2, ClampedInLimits, RoundTripAssumption
               DEF IInv, TypeOK
          <5> QED BY <1>1, <2>1, <4>2, <5>1, StaysAbove DEF IInv, TypeOK
        <4> QED BY <4>1, <4>2
      <3> QED BY <2>1, <2>2, <3>3, <3>4, <3>5, ClampedInLimits,
                 RoundTripAssumption
    <2>4. CASE GivenUp \/ PathChanges \/ UNCHANGED vars
      BY <1>1, <2>4 DEF GivenUp, PathChanges, vars
    <2> QED BY <1>1, <2>3, <2>4 DEF Next
  <1>2. IInv /\ [Next]_vars => [path' = path /\ path < rto_ms => path < rto_ms']_vars
    BY <1>1
  <1> QED BY <1>2, Invariance, PTL DEF Spec, KeepsCovering
=============================================================================
