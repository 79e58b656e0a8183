-------------------------- MODULE MCNodeConfigSync --------------------------
(***************************************************************************)
(* Small instances of NodeConfigSync: two listener endpoints, one QUIC     *)
(* endpoint the host has and one it has not.                               *)
(***************************************************************************)
EXTENDS NodeConfigSync, TLC

CONSTANTS l1, l2, q1, q2

MCBindable == {l1, l2, q1}

Symmetry == Permutations({l1, l2})

=============================================================================
