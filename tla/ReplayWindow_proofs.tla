------------------------ MODULE ReplayWindow_proofs ------------------------
(***************************************************************************)
(* For every width of the bitmap and every set of nonces: the filter's     *)
(* bitmap is exactly its history, and so no nonce is let through twice.    *)
(***************************************************************************)
EXTENDS ReplayWindow, TLAPS

IInv == TypeOK /\ BitmapMatchesHistory

\* What Track leaves in the window, for a history it matched before.
LEMMA TrackKeepsHistory ==
    ASSUME TypeOK, BitmapMatchesHistory, NEW nonce \in Nonce, Take(nonce)
    PROVE  TypeOK' /\ BitmapMatchesHistory'
<1> USE NonceAssumption, ReplayBitsAssumption
<1>1. nonce \in Nat /\ nonce # 0 /\ ReplayBits \in Nat /\ ReplayBits > 0
  OBVIOUS
<1>2. /\ rx_replay.max \in Nat
      /\ rx_replay.bits \subseteq 0 .. ReplayBits - 1
      /\ rx_replay = [max |-> rx_replay.max, bits |-> rx_replay.bits]
      /\ taken \subseteq Nat \ {0}
  BY DEF TypeOK, Window, taken
<1>3. taken' = taken \cup {nonce} /\ rx_replay' = Track(rx_replay, nonce)
  BY DEF Take, TypeOK, taken
<1>4. last' \in [nonce : Nonce \cup {0}, verdict : Verdict] /\ times' \in [Nonce -> Nat]
  BY DEF Take, TypeOK, Verdict
<1>5. CASE rx_replay.max = 0
  <2>1. taken = {}
    BY <1>5 DEF BitmapMatchesHistory
  <2>2. rx_replay' = [max |-> nonce, bits |-> {0}] /\ taken' = {nonce}
    BY <1>3, <1>5, <2>1 DEF Track
  <2>3. {nonce - x : x \in {y \in {nonce} : nonce - y < ReplayBits}} = {0}
    BY <1>1
  <2>4. BitmapMatchesHistory'
    BY <1>1, <2>2, <2>3 DEF BitmapMatchesHistory
  <2>5. rx_replay' \in Window
    BY <1>1, <2>2 DEF Window
  <2> QED BY <1>4, <2>4, <2>5 DEF TypeOK
<1>6. CASE rx_replay.max # 0 /\ nonce > rx_replay.max
  <2> DEFINE m == rx_replay.max
             d == nonce - m
             bits == ShiftLeft(rx_replay.bits, d) \cup {0}
  <2>1. rx_replay' = [max |-> nonce, bits |-> bits]
    BY <1>3, <1>6 DEF Track
  <2>2. d \in Nat /\ d > 0
    BY <1>1, <1>2, <1>6
  <2>3. \A x \in taken : x \in Nat /\ x <= m
    BY <1>2 DEF BitmapMatchesHistory
  <2>4. rx_replay.bits = {m - x : x \in {y \in taken : m - y < ReplayBits}}
    BY DEF BitmapMatchesHistory
  <2> DEFINE seen == {nonce - x : x \in {y \in taken' : nonce - y < ReplayBits}}
  <2>5. bits \subseteq seen
    <3>1. 0 \in seen
      BY <1>1, <1>3
    <3>2. ASSUME NEW b \in rx_replay.bits, b + d < ReplayBits
          PROVE  b + d \in seen
      <4>1. PICK x \in taken : b = m - x
        BY <2>4
      <4>2. b + d = nonce - x
        BY <4>1, <2>3, <1>1, <1>2
      <4> QED BY <4>1, <4>2, <3>2, <1>3
    <3> QED BY <3>1, <3>2 DEF ShiftLeft
  <2>6. seen \subseteq bits
    <3>1. ASSUME NEW x \in taken', nonce - x < ReplayBits
          PROVE  nonce - x \in bits
      <4>1. CASE x = nonce
        BY <4>1, <1>1
      <4>2. CASE x \in taken
        <5>1. m - x \in Nat /\ m - x < ReplayBits /\ (m - x) + d = nonce - x
          BY <4>2, <2>3, <2>2, <1>1, <1>2, <3>1
        <5>2. m - x \in rx_replay.bits
          BY <4>2, <5>1, <2>4
        <5> QED BY <5>1, <5>2, <3>1 DEF ShiftLeft
      <4> QED BY <4>1, <4>2, <1>3
    <3> QED BY <3>1
  <2>7. bits \subseteq 0 .. ReplayBits - 1
    BY <1>1, <1>2, <2>2 DEF ShiftLeft
  <2>8. \A x \in taken' : x <= nonce
    BY <1>1, <1>2, <1>3, <1>6, <2>3
  <2>9. BitmapMatchesHistory'
    <3>1. rx_replay'.max = nonce /\ rx_replay'.bits = bits
      BY <2>1
    <3>2. nonce \in taken'
      BY <1>3
    <3> QED BY <3>1, <3>2, <2>5, <2>6, <2>8, <1>1 DEF BitmapMatchesHistory
  <2> QED BY <1>1, <1>4, <2>1, <2>7, <2>9 DEF TypeOK, Window
<1>7. CASE rx_replay.max # 0 /\ ~ (nonce > rx_replay.max)
  <2> DEFINE m == rx_replay.max
  <2>1. rx_replay' = [max |-> m, bits |-> rx_replay.bits \cup {m - nonce}]
    BY <1>2, <1>3, <1>7 DEF Track
  <2>2. m - nonce \in 0 .. ReplayBits - 1
    BY <1>1, <1>2, <1>7 DEF Take, Accepts
  <2>3. rx_replay.bits \cup {m - nonce}
          = {m - x : x \in {y \in taken' : m - y < ReplayBits}}
    BY <1>1, <1>2, <1>3, <2>2 DEF BitmapMatchesHistory
  <2>4. \A x \in taken' : x <= m
    BY <1>1, <1>2, <1>3, <1>7 DEF BitmapMatchesHistory
  <2>5. BitmapMatchesHistory'
    <3>1. rx_replay'.max = m
            /\ rx_replay'.bits = rx_replay.bits \cup {m - nonce}
      BY <2>1
    <3>2. m \in taken'
      BY <1>3, <1>7 DEF BitmapMatchesHistory
    <3> QED BY <1>7, <3>1, <3>2, <2>3, <2>4 DEF BitmapMatchesHistory
  <2> QED BY <1>2, <1>4, <2>1, <2>2, <2>5 DEF TypeOK, Window
<1> QED BY <1>5, <1>6, <1>7

\* ValidateAndTrackReplay: the bitmap is the history, for every stream.
THEOREM HistoryInvariant == Spec => []IInv
<1>1. Init => IInv
  BY ReplayBitsAssumption
  DEF Init, IInv, TypeOK, BitmapMatchesHistory, Window, FreshWindow, NoCall,
      Verdict, taken
<1>2. IInv /\ [Next]_vars => IInv'
  <2> SUFFICES ASSUME IInv, [Next]_vars PROVE IInv'
    OBVIOUS
  <2>1. CASE NewSession
    BY <2>1, ReplayBitsAssumption
    DEF NewSession, IInv, TypeOK, BitmapMatchesHistory, Window, FreshWindow,
        NoCall, Verdict, taken
  <2>2. ASSUME NEW nonce \in Nonce, Take(nonce) PROVE IInv'
    BY <2>2, TrackKeepsHistory DEF IInv
  <2>3. ASSUME NEW nonce \in Nonce, Refuse(nonce) PROVE IInv'
    BY <2>3 DEF Refuse, IInv, TypeOK, BitmapMatchesHistory, Verdict, taken
  <2>4. CASE UNCHANGED vars
    BY <2>4 DEF vars, IInv, TypeOK, BitmapMatchesHistory, taken
  <2> QED BY <2>1, <2>2, <2>3, <2>4 DEF Next
<1> QED BY <1>1, <1>2, PTL DEF Spec

\* The newest nonce, the bitmap and the verdicts keep their types.
THEOREM TypeCorrect == Spec => []TypeOK
<1>1. IInv => TypeOK
  BY DEF IInv
<1> QED BY <1>1, HistoryInvariant, PTL

\* A bit of rx_replay_bitmap_ is set exactly for a recent nonce let through, at
\* every distance up to the width and after every jump.
THEOREM BitmapExact == Spec => []BitmapMatchesHistory
<1>1. IInv => BitmapMatchesHistory
  BY DEF IInv
<1> QED BY <1>1, HistoryInvariant, PTL

\* A nonce the filter lets through is not among those it let through before.
LEMMA AcceptsOnlyNew ==
    ASSUME IInv, NEW nonce \in Nonce, Accepts(rx_replay, nonce)
    PROVE  nonce \notin taken
<1>1. /\ nonce \in Nat \ {0}
      /\ rx_replay.max \in Nat
      /\ ReplayBits \in Nat
  BY NonceAssumption, ReplayBitsAssumption DEF IInv, TypeOK, Window
<1>2. nonce \in taken /\ rx_replay.max - nonce < ReplayBits
        => rx_replay.max - nonce \in rx_replay.bits
  BY DEF IInv, BitmapMatchesHistory
<1> QED BY <1>1, <1>2 DEF IInv, BitmapMatchesHistory, Accepts

\* No nonce is taken twice in a session: the filter implements AcceptOnce.
THEOREM TakenAtMostOnce == Spec => AtMostOnce
<1>1. Init => Once!Init
  BY DEF Init, Once!Init, Once!NoneTaken
<1>2. IInv /\ [Next]_vars => [Once!Next]_times
  <2> SUFFICES ASSUME IInv, [Next]_vars PROVE [Once!Next]_times
    OBVIOUS
  <2>1. CASE NewSession
    BY <2>1 DEF NewSession, Once!Next, Once!NewSession, Once!NoneTaken
  <2>2. ASSUME NEW nonce \in Nonce, Take(nonce) PROVE Once!Next
    <3>1. nonce \notin taken
      BY <2>2, AcceptsOnlyNew DEF Take
    <3>2. times[nonce] = 0
      BY <3>1 DEF taken, IInv, TypeOK
    <3>3. Once!Take(nonce)
      BY <2>2, <3>2 DEF Take, Once!Take
    <3> QED BY <3>3 DEF Once!Next
  <2>3. ASSUME NEW nonce \in Nonce, Refuse(nonce) PROVE UNCHANGED times
    BY <2>3 DEF Refuse
  <2>4. CASE UNCHANGED vars
    BY <2>4 DEF vars
  <2> QED BY <2>1, <2>2, <2>3, <2>4 DEF Next
<1> QED BY <1>1, <1>2, HistoryInvariant, PTL DEF Spec, AtMostOnce, Once!Spec

\* A refusal names a nonce taken before, or one a whole window too old.
LEMMA RefusalHasCause ==
    ASSUME IInv, NEW nonce \in Nonce, Refuse(nonce)
    PROVE  RefusedForCause'
<1> DEFINE m == rx_replay.max
<1>1. nonce \in Nat \ {0} /\ m \in Nat /\ ReplayBits \in Nat /\ taken \subseteq Nat
  BY NonceAssumption, ReplayBitsAssumption DEF IInv, TypeOK, Window, taken
<1>2. m # 0 /\ m \in taken /\ nonce <= m
  BY <1>1 DEF Refuse, Accepts, IInv, BitmapMatchesHistory
<1>3. taken' = taken /\ last'.nonce = nonce
  BY DEF Refuse, taken
<1>4. ASSUME IsDuplicate(rx_replay, nonce) PROVE nonce \in taken
  <2>1. m - nonce \in rx_replay.bits
    BY <1>1, <1>2, <1>4 DEF IsDuplicate, Accepts
  <2>2. PICK x \in taken : m - nonce = m - x
    BY <2>1 DEF IInv, BitmapMatchesHistory
  <2> QED BY <1>1, <2>2
<1>5. ASSUME ~ IsDuplicate(rx_replay, nonce) PROVE m - nonce >= ReplayBits
  BY <1>1, <1>5 DEF IsDuplicate, Refuse
<1>6. /\ last'.verdict = "duplicate" => IsDuplicate(rx_replay, nonce)
      /\ last'.verdict = "old" => ~ IsDuplicate(rx_replay, nonce)
  BY DEF Refuse
<1> QED BY <1>2, <1>3, <1>4, <1>5, <1>6 DEF RefusedForCause

\* No recent packet is refused unless it was taken before in this session.
THEOREM RefusalsJustified == Spec => []RefusedForCause
<1>1. Init => RefusedForCause
  BY DEF Init, RefusedForCause, NoCall
<1>2. IInv /\ RefusedForCause /\ [Next]_vars => RefusedForCause'
  <2> SUFFICES ASSUME IInv, RefusedForCause, [Next]_vars PROVE RefusedForCause'
    OBVIOUS
  <2>1. CASE NewSession
    BY <2>1 DEF NewSession, NoCall, RefusedForCause
  <2>2. ASSUME NEW nonce \in Nonce, Take(nonce) PROVE RefusedForCause'
    BY <2>2 DEF Take, RefusedForCause
  <2>3. ASSUME NEW nonce \in Nonce, Refuse(nonce) PROVE RefusedForCause'
    BY <2>3, RefusalHasCause
  <2>4. CASE UNCHANGED vars
    BY <2>4 DEF vars, RefusedForCause, taken
  <2> QED BY <2>1, <2>2, <2>3, <2>4 DEF Next
<1> QED BY <1>1, <1>2, HistoryInvariant, PTL DEF Spec
=============================================================================
