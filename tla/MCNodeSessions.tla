--------------------------- MODULE MCNodeSessions ---------------------------
(***************************************************************************)
(* Small instances of NodeSessions: two handlers, two targets, and one     *)
(* credential of each kind the verifier distinguishes.                     *)
(***************************************************************************)
EXTENDS NodeSessions, TLC

CONSTANTS a, b

Signed(expires, route, hash) ==
  [kind |-> "signed", expires |-> expires, route |-> route, hash |-> hash]

MCPolicies == {{a}, {b}}

MCCredentials ==
  {[kind |-> "missing", expires |-> 0, route |-> None, hash |-> None],
   Signed(1, a, None),        \* bound to a target, expires first
   Signed(3, None, {b})}      \* bound to a route policy

\* For liveness: one target, and a ticket that is bound to it.
MCLiveCredentials ==
  {[kind |-> "missing", expires |-> 0, route |-> None, hash |-> None],
   Signed(3, a, None)}

\* The handlers are interchangeable.
Symmetry == Permutations(Tasks)

=============================================================================
