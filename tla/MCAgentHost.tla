------------------------------ MODULE MCAgentHost -------------------------------
(* Values of AgentHost's constants for TLC: two administrators, each with a command,
   beside the processes of the service. *)
EXTENDS AgentHost

CONSTANTS one, other

MCAdministrators == {one, other}
MCMixes ==
  {[a \in MCAdministrators |-> IF a = one THEN mix[1] ELSE mix[2]] : mix \in
     {<<"install", "uninstall">>, <<"restart", "stop">>, <<"start", "uninstall">>,
      <<"restart", "install">>}}
=============================================================================
