--------------------------- MODULE MCNodeLifecycle ---------------------------
(***************************************************************************)
(* A small instance of NodeLifecycle: two installations of a node, by two  *)
(* hosts with a token each.                                                *)
(***************************************************************************)
EXTENDS NodeLifecycle

CONSTANTS n1, t1, t2, h1, h2, a1, s1, s2
=============================================================================
