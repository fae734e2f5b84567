----------------------------- MODULE MCThreads ------------------------------
(* Threads with interchangeable receiving threads.                           *)
EXTENDS Threads, TLC

ReceiverSymmetry == Permutations(Receiver)
=============================================================================
