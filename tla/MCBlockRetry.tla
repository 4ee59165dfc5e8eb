--------------------------- MODULE MCBlockRetry ---------------------------
(***************************************************************************)
(* The instance of BlockRetry for TLC: whatever the Protocol allows and    *)
(* what the dispatcher over Modal returns for blocks of two RPCs, with one *)
(* label for each way the wrapper treats a failure.                        *)
(***************************************************************************)
EXTENDS BlockRetry

MCTransient == {"grpc_unavailable"}
MCPermanent == {"unexpected_ValueError", "driver_text", "exception_name"}
MCOutcomes == Contract \cup Modal(2)
============================================================================
