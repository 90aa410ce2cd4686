--------------------------- MODULE MCAgentLifecycle ---------------------------
(* Values of AgentLifecycle's constants for TLC: both drivers. *)
EXTENDS AgentLifecycle

BothModes == {"foreground", "service"}
=============================================================================
