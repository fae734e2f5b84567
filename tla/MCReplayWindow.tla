--------------------------- MODULE MCReplayWindow ---------------------------
(* ReplayWindow with a narrow bitmap, and nonces up to more than twice it. *)
EXTENDS ReplayWindow

MCNonce == 1 .. 7
=============================================================================
