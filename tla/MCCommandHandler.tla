---------------------------- MODULE MCCommandHandler ----------------------------
(* Values of CommandHandler's constants for TLC. *)
EXTENDS CommandHandler

CONSTANTS c1, c2, c3, t1, t2, t3

MCTypes == {"package"}
MCTypeOf == [c \in Commands |-> "package"]
TwoTasks == {t1, t2}
ThreeTasks == {t1, t2, t3}
=============================================================================
