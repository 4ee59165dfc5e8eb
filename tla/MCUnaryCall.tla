----------------------------- MODULE MCUnaryCall -----------------------------
(***************************************************************************)
(* The instance of UnaryCall for TLC: a call on any route, next to a call  *)
(* of the chat client on the same channel.                                 *)
(***************************************************************************)
EXTENDS UnaryCall, TLC

MCCalls == {"c1", "c2"}
MCRoutes == "c1" :> Rest \cup Library \cup {"healthz", "stub"} @@ "c2" :> {"chat_client"}
============================================================================
