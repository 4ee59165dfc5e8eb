----------------------------- MODULE MCModalServe -----------------------------
(***************************************************************************)
(* The instance of ModalServe for TLC: every program.                      *)
(***************************************************************************)
EXTENDS ModalServe

AllPrograms == {"bench", "serve", "smoke_rest", "smoke_frontend"}
=============================================================================
