--------------------------- MODULE MCChainMonitor ---------------------------
(* Two subscribers, as the Watcher and the Responder are, and the numbers   *)
(* of the cfg.                                                             *)
EXTENDS ChainMonitor
=============================================================================
