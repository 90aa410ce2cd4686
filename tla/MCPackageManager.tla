---------------------------- MODULE MCPackageManager ----------------------------
(* Values of PackageManager's constants for TLC: a package command from the server
   next to another operation of the same host, on one package. *)
EXTENDS PackageManager

CONSTANTS command, other, git

MCOperations == {command, other}
MCPackages == {git}
MCPlatforms == {"linux", "windows"}
MCMixes ==
  {[p \in MCOperations |-> IF p = command THEN mix[1] ELSE mix[2]] : mix \in
     {<<"install", "uninstall">>, <<"update", "query">>,
      <<"default", "list">>, <<"ensure", "info">>}}
=============================================================================
