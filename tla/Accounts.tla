------------------------------- MODULE Accounts -------------------------------
(***************************************************************************)
(* Accounts of admins and the sessions they log in with.  A session is a   *)
(* signed token that carries the role its user had at login: it is never   *)
(* stored, and nobody looks at the account again while it lives.  A login  *)
(* reads the row, then signs the token.  An update reads the row, replaces *)
(* what the request names and writes all of it back.                       *)
(*                                                                         *)
(* Abstractions.  A password is its number, and whether a login gave the   *)
(* right one is left open.  Names are left out.  The token of the          *)
(* configuration (Bootstrap) is a super admin for ever.  An insert or a    *)
(* disabling is checked and written at once.                               *)
(***************************************************************************)
EXTENDS Integers

CONSTANTS
  Users,       \* ids of admin_users
  Requests,    \* logins and updates served at once
  Bootstrap,   \* the actor of the configured token
  Unset,       \* a field a request leaves out
  SessionTtl,  \* ADMIN_SESSION_TTL_SEC, in ticks
  Updates      \* bound: what requests ask for

VARIABLES
  user,      \* admin_users, NoUser for an id not given yet
  sessions,  \* tokens out, with the ticks left to them
  request    \* logins and updates under way

accountVars == <<user, sessions, request>>

\* validate_admin_role
Roles  == {"super_admin", "operator", "viewer"}
NoUser == [status |-> "none"]

ASSUME AccountsAssumption ==
  /\ SessionTtl \in Nat /\ Bootstrap \notin Users
  /\ Updates \subseteq [status : {"active", "disabled", Unset}, role : Roles \cup {Unset},
                        password : Nat \cup {Unset}]

AtRest == [pc |-> "rest"]

-----------------------------------------------------------------------------
(***************************************************************************)
(* Slips: plausible mistakes in the definitions below; no action uses them *)
(***************************************************************************)
ReadAnyone(r, u) ==
  /\ request[r] = AtRest /\ user[u] # NoUser
  /\ request' = [request EXCEPT ![r] = [pc |-> "login", user |-> u, row |-> user[u]]]
  /\ UNCHANGED <<user, sessions>>

-----------------------------------------------------------------------------
(* Sessions *)

\* admin_login: the row, and whether it is active
ReadLogin(r, u) ==
  /\ request[r] = AtRest /\ user[u].status = "active"
  /\ request' = [request EXCEPT ![r] = [pc |-> "login", user |-> u, row |-> user[u]]]
  /\ UNCHANGED <<user, sessions>>

\* create_admin_session_token, mark_admin_user_login: from the row it read
IssueToken(r) ==
  /\ request[r].pc = "login"
  /\ sessions' = sessions \cup
       {[user |-> request[r].user, role |-> request[r].row.role, left |-> SessionTtl]}
  /\ request' = [request EXCEPT ![r] = AtRest]
  /\ UNCHANGED user

\* verify_admin_session_token: a token is good through the last tick of its time
\* (claims.exp < now_unix() refuses it)
Tick ==
  /\ sessions' = {[s EXCEPT !.left = s.left - 1] : s \in {t \in sessions : t.left > 0}}
  /\ UNCHANGED <<user, request>>

\* require_admin_super: by the role in the token
SuperAdmins ==
  {Bootstrap} \cup {session.user : session \in {s \in sessions : s.role = "super_admin"}}

-----------------------------------------------------------------------------
(* admin_create_user, admin_update_user, admin_delete_user *)

\* insert_admin_user; the username is new
Create(actor, u, status, role) ==
  /\ actor \in SuperAdmins /\ user[u] = NoUser
  /\ user' = [user EXCEPT ![u] = [status |-> status, role |-> role, password |-> 0]]
  /\ UNCHANGED <<sessions, request>>

\* cannot_disable_self, cannot_downgrade_self
Allowed(actor, u, update) ==
  actor = u => update.status # "disabled" /\ update.role \in {Unset, "super_admin"}

\* admin_update_user; the token may expire while the request waits for the row
Ask(r, actor, u, update) ==
  /\ request[r] = AtRest /\ actor \in SuperAdmins /\ Allowed(actor, u, update)
  /\ request' = [request EXCEPT ![r] = [pc |-> "asked", actor |-> actor, user |-> u,
                                        update |-> update]]
  /\ UNCHANGED <<user, sessions>>

\* select_admin_user
ReadUser(r) ==
  /\ request[r].pc = "asked" /\ user[request[r].user] # NoUser
  /\ request' = [request EXCEPT ![r] = [pc |-> "read", user |-> request[r].user,
                                        update |-> request[r].update,
                                        row |-> user[request[r].user]]]
  /\ UNCHANGED <<user, sessions>>

\* UPDATE admin_users SET all of them
WriteUser(r) ==
  /\ request[r].pc = "read"
  /\ LET row == request[r].row  update == request[r].update
     IN user' = [user EXCEPT ![request[r].user] =
          [status   |-> IF update.status = Unset THEN row.status ELSE update.status,
           role     |-> IF update.role = Unset THEN row.role ELSE update.role,
           password |-> IF update.password = Unset THEN row.password ELSE update.password]]
  /\ request' = [request EXCEPT ![r] = AtRest]
  /\ UNCHANGED sessions

\* There is no such account, a wrong password, the database fails, the panel ends
GiveUp(r) ==
  /\ request[r] # AtRest
  /\ request' = [request EXCEPT ![r] = AtRest]
  /\ UNCHANGED <<user, sessions>>

\* disable_admin_user: an account is never deleted
Disable(actor, u) ==
  /\ actor \in SuperAdmins /\ actor # u /\ user[u] # NoUser
  /\ user' = [user EXCEPT ![u].status = "disabled"]
  /\ UNCHANGED <<sessions, request>>

AccountsInit ==
  /\ user = [u \in Users |-> NoUser]
  /\ sessions = {}
  /\ request = [r \in Requests |-> AtRest]

AccountsNext ==
  \/ \E u \in Users :
       \/ \E r \in Requests : ReadLogin(r, u)
       \/ \E actor \in Users \cup {Bootstrap} :
            \/ \E status \in {"active", "disabled"}, role \in Roles :
                 Create(actor, u, status, role)
            \/ \E r \in Requests, update \in Updates : Ask(r, actor, u, update)
            \/ Disable(actor, u)
  \/ \E r \in Requests : IssueToken(r) \/ ReadUser(r) \/ WriteUser(r) \/ GiveUp(r)
  \/ Tick

-----------------------------------------------------------------------------
(* Correctness *)

AccountsTypeOK ==
  /\ \A u \in Users : user[u] # NoUser =>
       /\ user[u].status \in {"active", "disabled"}
       /\ user[u].role \in Roles /\ user[u].password \in Nat
  /\ \A session \in sessions : session.user \in Users /\ session.left \in 0..SessionTtl
  /\ \A r \in Requests : request[r].pc \in {"rest", "login", "asked", "read"}

Holds(u, role) == user[u].status = "active" /\ user[u].role = role

\* A role an account has lost for good, because it was disabled or given another one, is
\* lost to its sessions some time later, although no request looks at the account again and
\* logins that had read it before may still sign tokens; only time has to go on.
SessionsLapse ==
  \A u \in Users, role \in Roles :
    <>[]~Holds(u, role) =>
      <>[](\A session \in sessions : session.user = u => session.role # role)

\* Nothing is left of a disabled account: no session, no login under way, and no update that
\* would write "active", asked for or read before.
LockedOut(u) ==
  /\ user[u].status = "disabled"
  /\ \A session \in sessions : session.user # u
  /\ \A r \in Requests : request[r] # AtRest /\ request[r].user = u =>
       /\ request[r].pc \in {"asked", "read"} /\ request[r].update.status # "active"
       /\ request[r].pc = "read" => request[r].row.status = "disabled"

\* Somebody else asks to activate it
AskedBack(u) ==
  \E r \in Requests :
    /\ request[r].pc = "asked" /\ request[r].user = u
    /\ request[r].actor # u /\ request[r].update.status = "active"

\* An account that is locked out stays so until another admin asks for it: no login, no
\* update of its role or password and no request of its own brings it back.
LockedOutStays ==
  [][\A u \in Users : LockedOut(u) => (LockedOut(u) \/ AskedBack(u))']_accountVars

=============================================================================
