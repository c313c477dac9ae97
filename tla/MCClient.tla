------------------------------ MODULE MCClient ------------------------------
(* One agent, two threads' worth of sends, a queue that two messages fill. *)
EXTENDS Client

MCLockedSend == {"allocated"}
MCCommand == {"custom_command"}
MCIncoming == {"live_state", "malformed"}
MCMalformed == {"malformed"}

=============================================================================
