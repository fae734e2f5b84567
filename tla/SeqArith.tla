------------------------------ MODULE SeqArith ------------------------------
(***************************************************************************)
(* The serial-number arithmetic of Endpoint (src/rudp.cpp): sequence       *)
(* numbers are uint16_t, so SeqMod is 2^16 in the code and small in the    *)
(* model-checking runs that make them wrap.  An operator named Slip...     *)
(* is a mistaken variant of the one after it, for the mutation checks.     *)
(***************************************************************************)
EXTENDS Integers

CONSTANT SeqMod

ASSUME SeqModAssumption == SeqMod \in Nat /\ SeqMod > 2

SeqNum == 0 .. SeqMod - 1

\* s advanced by i, for i below SeqMod: uint16_t addition.
AddSeq(s, i) == IF s + i < SeqMod THEN s + i ELSE s + i - SeqMod

\* uint16_t subtraction newer - older.
DistanceFrom(older, newer) ==
    IF newer >= older THEN newer - older ELSE newer - older + SeqMod

\* static_cast<int16_t>(a - b) < 0: the difference has its top bit set.
IsSeqLess(a, b) == 2 * DistanceFrom(b, a) >= SeqMod

SlipWindowOnePast(seq, start, window) == DistanceFrom(start, seq) <= window

SlipWindowOneShort(seq, start, window) == DistanceFrom(start, seq) + 1 < window

SeqInWindow(seq, start, window) == DistanceFrom(start, seq) < window
=============================================================================
