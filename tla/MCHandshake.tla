----------------------------- MODULE MCHandshake -----------------------------
(***************************************************************************)
(* The instance of Handshake for TLC: every deployment.                    *)
(***************************************************************************)
EXTENDS Handshake

AllKinds == {"m5", "m5_1", "m5_2", "m6"}
============================================================================
