--------------------------- MODULE MCRobotSession ---------------------------
(* RobotSession for TLC: the command lines. *)
EXTENDS RobotSession

LoopCommandLine == {{"bringup", "loop", "camera"}}
=============================================================================
