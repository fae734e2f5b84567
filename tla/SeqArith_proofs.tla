-------------------------- MODULE SeqArith_proofs ---------------------------
(***************************************************************************)
(* Serial-number arithmetic for every number space: where a number lies    *)
(* relative to another does not depend on where the numbers wrap.          *)
(***************************************************************************)
EXTENDS SeqArith, TLAPS

LEMMA AddSeqType ==
    ASSUME NEW s \in SeqNum, NEW i \in 0 .. SeqMod
    PROVE  AddSeq(s, i) \in SeqNum
BY SeqModAssumption DEF AddSeq, SeqNum

LEMMA DistanceType ==
    ASSUME NEW s \in SeqNum, NEW t \in SeqNum
    PROVE  /\ DistanceFrom(s, t) \in 0 .. SeqMod - 1
           /\ AddSeq(s, DistanceFrom(s, t)) = t
BY SeqModAssumption DEF AddSeq, SeqNum, DistanceFrom

LEMMA DistanceOfAdd ==
    ASSUME NEW s \in SeqNum, NEW i \in 0 .. SeqMod - 1
    PROVE  DistanceFrom(s, AddSeq(s, i)) = i
BY SeqModAssumption DEF AddSeq, SeqNum, DistanceFrom

LEMMA DistanceLess ==
    ASSUME NEW s \in SeqNum, NEW t \in SeqNum, NEW k \in 0 .. DistanceFrom(s, t)
    PROVE  DistanceFrom(AddSeq(s, k), t) = DistanceFrom(s, t) - k
BY SeqModAssumption DEF AddSeq, SeqNum, DistanceFrom

\* IsSeqLess orders numbers as they were given out, on both sides of the wrap,
\* as long as they are less than half the number space apart.
THEOREM OrderAcrossWrap ==
    ASSUME NEW s \in SeqNum, NEW i \in 0 .. SeqMod - 1, NEW j \in 0 .. SeqMod - 1,
           2 * (i - j) < SeqMod, 2 * (j - i) < SeqMod
    PROVE  IsSeqLess(AddSeq(s, i), AddSeq(s, j)) <=> i < j
<1>1. /\ SeqMod \in Nat /\ SeqMod > 2 /\ s \in 0 .. SeqMod - 1
  BY SeqModAssumption DEF SeqNum
<1>2. CASE i < j
  <2>1. DistanceFrom(AddSeq(s, j), AddSeq(s, i)) = SeqMod - (j - i)
    BY <1>1, <1>2 DEF DistanceFrom, AddSeq
  <2> QED BY <1>1, <1>2, <2>1 DEF IsSeqLess
<1>3. CASE i >= j
  <2>1. DistanceFrom(AddSeq(s, j), AddSeq(s, i)) = i - j
    BY <1>1, <1>3 DEF DistanceFrom, AddSeq
  <2> QED BY <1>1, <1>3, <2>1 DEF IsSeqLess
<1> QED BY <1>2, <1>3

-----------------------------------------------------------------------------
(* Counts that the numbers stand for *)

\* s is the number of the b-th message, b % SeqMod: numbers come round again
\* every SeqMod messages.
Numbers(s, b) == \E c \in Int : b = s + c * SeqMod

LEMMA Multiple ==
    ASSUME NEW c \in Int, c * SeqMod > -SeqMod, c * SeqMod < SeqMod
    PROVE  c = 0
<1>1. SeqMod \in Nat /\ SeqMod > 0
  BY SeqModAssumption
<1>2. CASE c >= 1
  <2>1. (c - 1) * SeqMod >= 0
    BY <1>1, <1>2
  <2>2. (c - 1) * SeqMod = c * SeqMod - SeqMod
    BY <1>1
  <2>3. c * SeqMod \in Int
    BY <1>1
  <2> QED BY <1>1, <2>1, <2>2, <2>3
<1>3. CASE c <= -1
  <2>1. (-1 - c) * SeqMod >= 0
    BY <1>1, <1>3
  <2>2. (-1 - c) * SeqMod = -SeqMod - c * SeqMod
    BY <1>1
  <2>3. c * SeqMod \in Int
    BY <1>1
  <2> QED BY <1>1, <2>1, <2>2, <2>3
<1> QED BY <1>2, <1>3

\* Counting on moves the number on.
LEMMA NumbersAdd ==
    ASSUME NEW s \in SeqNum, NEW b \in Nat, Numbers(s, b), NEW i \in 0 .. SeqMod - 1
    PROVE  Numbers(AddSeq(s, i), b + i)
<1>1. PICK c \in Int : b = s + c * SeqMod
  BY DEF Numbers
<1>2. SeqMod \in Nat /\ s \in Nat /\ c * SeqMod \in Int
  BY SeqModAssumption DEF SeqNum
<1>3. CASE s + i < SeqMod
  <2>1. AddSeq(s, i) = s + i
    BY <1>3 DEF AddSeq
  <2>2. b + i = (s + i) + c * SeqMod
    BY <1>1, <1>2
  <2> QED BY <2>1, <2>2 DEF Numbers
<1>4. CASE ~ (s + i < SeqMod)
  <2>1. AddSeq(s, i) = s + i - SeqMod
    BY <1>4 DEF AddSeq
  <2>2. (c + 1) * SeqMod = c * SeqMod + SeqMod
    BY <1>2
  <2>3. b + i = (s + i - SeqMod) + (c + 1) * SeqMod
    BY <1>1, <1>2, <2>2
  <2>4. c + 1 \in Int
    OBVIOUS
  <2> QED BY <2>1, <2>3, <2>4 DEF Numbers
<1> QED BY <1>3, <1>4

\* Within one round of the numbers the distance is the difference of the counts.
LEMMA NumbersDistance ==
    ASSUME NEW s \in SeqNum, NEW t \in SeqNum, NEW b \in Nat, NEW e \in Nat,
           Numbers(s, b), Numbers(t, e), e - b \in 0 .. SeqMod - 1
    PROVE  DistanceFrom(s, t) = e - b
<1>1. PICK c \in Int : b = s + c * SeqMod
  BY DEF Numbers
<1>2. PICK d \in Int : e = t + d * SeqMod
  BY DEF Numbers
<1>3. /\ SeqMod \in Nat /\ s \in Nat /\ t \in Nat /\ s < SeqMod /\ t < SeqMod
      /\ c * SeqMod \in Int /\ d * SeqMod \in Int
  BY SeqModAssumption DEF SeqNum
<1>4. /\ (d - c) * SeqMod = d * SeqMod - c * SeqMod
      /\ (d - c + 1) * SeqMod = d * SeqMod - c * SeqMod + SeqMod
      /\ (d - c - 1) * SeqMod = d * SeqMod - c * SeqMod - SeqMod
  BY <1>3
<1>5. CASE t >= s
  <2>1. DistanceFrom(s, t) = t - s
    BY <1>5 DEF DistanceFrom
  <2>2. (d - c) * SeqMod > -SeqMod /\ (d - c) * SeqMod < SeqMod
    BY <1>1, <1>2, <1>3, <1>4, <1>5
  <2>3. d - c = 0
    BY <2>2, Multiple
  <2>4. d * SeqMod = c * SeqMod
    BY <2>3
  <2> QED BY <1>1, <1>2, <1>3, <2>1, <2>4
<1>6. CASE t < s
  <2>1. DistanceFrom(s, t) = t - s + SeqMod
    BY <1>3, <1>6 DEF DistanceFrom
  <2>2. (d - c - 1) * SeqMod > -SeqMod /\ (d - c - 1) * SeqMod < SeqMod
    BY <1>1, <1>2, <1>3, <1>4, <1>6
  <2>3. d - c - 1 = 0
    BY <2>2, Multiple
  <2>4. d * SeqMod = c * SeqMod + SeqMod
    BY <1>3, <1>4, <2>3
  <2> QED BY <1>1, <1>2, <1>3, <2>1, <2>4
<1> QED BY <1>3, <1>5, <1>6

\* In the first round a number is the count.
LEMMA NumbersStraight ==
    ASSUME NEW s \in SeqNum, NEW b \in 0 .. SeqMod - 1, Numbers(s, b)
    PROVE  s = b
<1>1. PICK c \in Int : b = s + c * SeqMod
  BY DEF Numbers
<1>2. SeqMod \in Nat /\ s \in Nat /\ s < SeqMod /\ c * SeqMod \in Int
  BY SeqModAssumption DEF SeqNum
<1>3. c = 0
  BY <1>1, <1>2, Multiple
<1> QED BY <1>1, <1>2, <1>3

LEMMA NumbersSelf ==
    ASSUME NEW s \in SeqNum
    PROVE  Numbers(s, s)
<1>1. s = s + 0 * SeqMod
  BY SeqModAssumption DEF SeqNum
<1> QED BY <1>1 DEF Numbers
=============================================================================
