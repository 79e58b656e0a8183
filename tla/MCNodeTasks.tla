---------------------------- MODULE MCNodeTasks ----------------------------
(***************************************************************************)
(* A small instance of NodeTasks: three tasks, two requests under way.     *)
(***************************************************************************)
EXTENDS NodeTasks

CONSTANTS h1, h2

=============================================================================
