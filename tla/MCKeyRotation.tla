--------------------------- MODULE MCKeyRotation ---------------------------
(* KeyRotation with bounds for each endpoint. *)
EXTENDS KeyRotation

CONSTANTS NoncesA, NoncesB,         \* nonces A and B use
          RotationsA, RotationsB    \* rotations A and B schedule

MCMaxNonce == [n \in Node |-> IF n = A THEN NoncesA ELSE NoncesB]
MCMaxRotations == [n \in Node |-> IF n = A THEN RotationsA ELSE RotationsB]
=============================================================================
