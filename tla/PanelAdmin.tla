------------------------------ MODULE PanelAdmin ------------------------------
(***************************************************************************)
(* Admins at work: accounts and the operations their sessions allow.       *)
(***************************************************************************)
EXTENDS Operations, Accounts

vars == <<exists, credential, stored, tasks, operator, user, sessions, request>>

\* require_admin_write: the configured token, or a session that is not a viewer's.  The
\* token is always there, so no operation waits for a session.
Init == OperationsInit /\ AccountsInit

Next ==
  \/ OperationsNext /\ UNCHANGED accountVars
  \/ AccountsNext /\ UNCHANGED operationVars

Spec == Init /\ [][Next]_vars

\* A handler is a task of the runtime: what it can do by itself, it does, and its timers
\* run out.  Time goes on.
Fairness ==
  /\ \A o \in Operators : WF_vars(Continue(o) /\ UNCHANGED accountVars)
  /\ WF_vars(Tick /\ UNCHANGED operationVars)

FairSpec == Spec /\ Fairness

\* The types of both
TypeOK == OperationsTypeOK /\ AccountsTypeOK

=============================================================================
