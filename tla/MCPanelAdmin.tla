---------------------------- MODULE MCPanelAdmin ----------------------------
(***************************************************************************)
(* A small instance of PanelAdmin: two operations at once; one account, of *)
(* which the configured token is the other admin, and two logins or        *)
(* updates at once.                                                        *)
(***************************************************************************)
EXTENDS PanelAdmin

CONSTANTS o1, o2, u1, r1, r2

Update(status, role, password) == [status |-> status, role |-> role, password |-> password]

MCUpdates ==
  {Update(Unset, Unset, 1), Update("active", Unset, Unset), Update("disabled", "operator", Unset)}

\* The two halves share no variable: looking at either while the other rests loses nothing,
\* for a state or a behaviour that breaks a property of one half still does with the other
\* half at rest.
Apart == AccountsInit \/ OperationsInit
=============================================================================
