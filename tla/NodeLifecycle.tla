---------------------------- MODULE NodeLifecycle ----------------------------
(***************************************************************************)
(* The life of a node as the panel sees it: its row is created, a          *)
(* bootstrap token is made for it, the installer of some host exchanges    *)
(* the token for the node's secret, the host signs handshakes and reports  *)
(* with that secret, an admin takes the node out of service, and the row   *)
(* is deleted.                                                             *)
(*                                                                         *)
(* Panel handlers meet in MySQL.  The exchange is a transaction of two     *)
(* steps because it holds the rows of FOR UPDATE between them; a status    *)
(* change is two steps because it holds nothing.  Answers and messages get *)
(* lost or come late, installers are run again with any token.             *)
(*                                                                         *)
(* Abstractions.  A signature verifies iff it was made with the secret of  *)
(* the row.  The row is its status and secret; endpoints, texts and        *)
(* timestamps are left out (NodeConfigSync has the revisions).  A message  *)
(* outside of the allowed clock skew is one that got lost.  Admin and      *)
(* business API create and delete nodes by the same functions.             *)
(***************************************************************************)
EXTENDS Naturals

CONSTANTS
  Nodes,    \* bound: ids of accel_nodes, never used twice
  Tokens,   \* bound: ids of node_bootstrap_tokens
  Hosts,    \* machines install.sh is run on
  Admins,   \* status changes the panel serves at once
  Secrets,  \* bound: what generate_node_secret returns
  Orders,   \* bound: statuses admins ask for
  None      \* no node, no token, no secret, no order

VARIABLES
  row,        \* accel_nodes: status and node_secret
  token,      \* node_bootstrap_tokens: state and node
  minted,     \* secrets generated so far
  install,    \* an installer and the exchange it asks for
  identity,   \* what the host's node signs with: the answer install.sh stored
  change,     \* the status changes under way
  mail,       \* signed handshakes and reports under way
  order,      \* history: the last audited status of a node, None once it is installed anew
  exchanges   \* history: how often a token was exchanged

vars == <<row, token, minted, install, identity, change, mail, order, exchanges>>

OutOfService == {"disabled", "draining"}
Reported     == {"online", "degraded"}
Status       == OutOfService \cup Reported
                \cup {"pending_install", "installing", "offline", "install_failed"}

ASSUME NodeLifecycleAssumption ==
  /\ None \notin Nodes \cup Tokens \cup Secrets \cup Status
  /\ Orders \subseteq Status

\* A handshake counts as a report that the node is ready.
Kinds == {"ready", "impaired"}

Row      == [status : Status \cup {"absent", "deleted"}, secret : Secrets \cup {None}]
Token    == [state : {"absent", "fresh", "expired", "used", "gone"}, node : Nodes \cup {None}]
Identity == [node : Nodes, secret : Secrets]
NoOne    == [node |-> None, secret |-> None]
Install  == [pc : {"idle"}, token : {None}, identity : {NoOne}]
            \cup [pc : {"sent"}, token : Tokens, identity : {NoOne}]
            \cup [pc : {"locked", "committed"}, token : Tokens, identity : Identity]
Message  == [from : Identity, kind : Kinds]

Finished == [pc |-> "idle", token |-> None, identity |-> NoOne]
NoChange == [node |-> None, next |-> None]

-----------------------------------------------------------------------------
(***************************************************************************)
(* Slips: plausible mistakes in the definitions below; no action uses them *)
(***************************************************************************)
NeverLocked(n)      == FALSE
NewSecret(n, s)     == s \notin minted
AlwaysInService(s)  == TRUE
AnyStatus(s)        == TRUE
KeepInstalling(n, k) == IF row[n].status = "installing" THEN "installing" ELSE "online"
RawStatus(n, k)     == k

-----------------------------------------------------------------------------
Exists(n) == row[n].status \notin {"absent", "deleted"}

\* An exchange holds the rows of its token and of its node.
Locked(n) == \E h \in Hosts : install[h].pc = "locked" /\ install[h].identity.node = n

(***************************************************************************)
(* Rows                                                                    *)
(***************************************************************************)

\* insert_admin_node, by the admin or the business API
CreateNode(n) ==
  /\ row[n].status = "absent"
  /\ row' = [row EXCEPT ![n] = [status |-> "pending_install", secret |-> None]]
  /\ UNCHANGED <<token, minted, install, identity, change, mail, order, exchanges>>

\* delete_admin_node; ON DELETE CASCADE takes the tokens along.
DeleteNode(n) ==
  /\ Exists(n) /\ ~Locked(n)
  /\ row' = [row EXCEPT ![n] = [status |-> "deleted", secret |-> None]]
  /\ token' = [t \in Tokens |-> IF token[t].node = n
                                THEN [state |-> "gone", node |-> n] ELSE token[t]]
  /\ UNCHANGED <<minted, install, identity, change, mail, order, exchanges>>

\* create_bootstrap_token
CreateToken(t, n) ==
  /\ token[t].state = "absent" /\ Exists(n)
  /\ token' = [token EXCEPT ![t] = [state |-> "fresh", node |-> n]]
  /\ UNCHANGED <<row, minted, install, identity, change, mail, order, exchanges>>

\* expires_at has passed
TokenExpires(t) ==
  /\ token[t].state = "fresh"
  /\ token' = [token EXCEPT ![t] = [state |-> "expired", node |-> token[t].node]]
  /\ UNCHANGED <<row, minted, install, identity, change, mail, order, exchanges>>

(***************************************************************************)
(* Status changes by an admin                                              *)
(***************************************************************************)

\* validate_admin_node_status
Accepted(s) ==
  s \in {"pending_install", "draining", "offline", "install_failed", "disabled"}

ReadStatus(a, n, s) ==
  /\ change[a] = NoChange /\ Exists(n) /\ Accepted(s)
  /\ change' = [change EXCEPT ![a] = [node |-> n, next |-> s]]
  /\ UNCHANGED <<row, token, minted, install, identity, mail, order, exchanges>>

\* The UPDATE, the audit row and the commit: the row is locked from the first to the
\* last.  The node may be gone by now: then the audit row has no parent and nothing is done.
CommitStatus(a) ==
  /\ change[a] # NoChange /\ ~Locked(change[a].node)
  /\ change' = [change EXCEPT ![a] = NoChange]
  /\ IF Exists(change[a].node)
     THEN /\ row' = [row EXCEPT ![change[a].node] =
                       [status |-> change[a].next, secret |-> row[change[a].node].secret]]
          /\ order' = [order EXCEPT ![change[a].node] = change[a].next]
     ELSE UNCHANGED <<row, order>>
  /\ UNCHANGED <<token, minted, install, identity, mail, exchanges>>

(***************************************************************************)
(* Installation                                                            *)
(***************************************************************************)

\* install.sh, bootstrap: any token somebody was given, as often as one likes
RunInstaller(h, t) ==
  /\ install[h].pc = "idle" /\ token[t].state # "absent"
  /\ install' = [install EXCEPT ![h] = [pc |-> "sent", token |-> t, identity |-> NoOne]]
  /\ UNCHANGED <<row, token, minted, identity, change, mail, order, exchanges>>

\* The secret of the node, or a new one if it has none.
SecretFor(n, s) == IF row[n].secret = None THEN s \notin minted ELSE s = row[n].secret

\* exchange_bootstrap_token up to the checks: SELECT .. FOR UPDATE
LockToken(h, s) ==
  LET n == token[install[h].token].node
  IN /\ install[h].pc = "sent"
     /\ token[install[h].token].state = "fresh" /\ ~Locked(n)
     /\ SecretFor(n, s)
     /\ install' = [install EXCEPT ![h] = [pc |-> "locked", token |-> install[h].token,
                                           identity |-> [node |-> n, secret |-> s]]]
     /\ minted' = minted \cup {s}
     /\ UNCHANGED <<row, token, identity, change, mail, order, exchanges>>

\* invalid_bootstrap_token, bootstrap_token_used, bootstrap_token_expired
RefuseToken(h) ==
  /\ install[h].pc = "sent" /\ token[install[h].token].state # "fresh"
  /\ ~Locked(token[install[h].token].node)
  /\ install' = [install EXCEPT ![h] = Finished]
  /\ UNCHANGED <<row, token, minted, identity, change, mail, order, exchanges>>

\* The two UPDATEs and the commit: the status becomes installing, whatever it was.
CommitExchange(h) ==
  /\ install[h].pc = "locked"
  /\ token' = [token EXCEPT ![install[h].token] =
                 [state |-> "used", node |-> install[h].identity.node]]
  /\ row' = [row EXCEPT ![install[h].identity.node] =
               [status |-> "installing", secret |-> install[h].identity.secret]]
  /\ install' = [install EXCEPT ![h] = [pc |-> "committed", token |-> install[h].token,
                                        identity |-> install[h].identity]]
  /\ order' = [order EXCEPT ![install[h].identity.node] = None]
  /\ exchanges' = [exchanges EXCEPT ![install[h].token] = @ + 1]
  /\ UNCHANGED <<minted, identity, change, mail>>

\* A database error or the end of the panel rolls it back.
AbortExchange(h) ==
  /\ install[h].pc = "locked"
  /\ install' = [install EXCEPT ![h] = Finished]
  /\ UNCHANGED <<row, token, minted, identity, change, mail, order, exchanges>>

\* curl stores the answer and the service is started with it.
InstallNode(h) ==
  /\ install[h].pc = "committed"
  /\ identity' = [identity EXCEPT ![h] = install[h].identity]
  /\ install' = [install EXCEPT ![h] = Finished]
  /\ UNCHANGED <<row, token, minted, change, mail, order, exchanges>>

LoseAnswer(h) ==
  /\ install[h].pc = "committed"
  /\ install' = [install EXCEPT ![h] = Finished]
  /\ UNCHANGED <<row, token, minted, identity, change, mail, order, exchanges>>

(***************************************************************************)
(* Handshakes and reports                                                  *)
(***************************************************************************)
Send(h, k) ==
  /\ identity[h] # NoOne
  /\ mail' = mail \cup {[from |-> identity[h], kind |-> k]}
  /\ UNCHANGED <<row, token, minted, install, identity, change, order, exchanges>>

\* select_node_secret and verify_node_signature
Authentic(m) == Exists(m.from.node) /\ row[m.from.node].secret = m.from.secret

\* status NOT IN ('disabled', 'draining')
InService(s) == s \notin OutOfService

\* report_database_status, and the status a handshake sets
ReportedStatus(n, k) == IF k = "impaired" THEN "degraded" ELSE "online"

\* persist_node_handshake, persist_node_report
StoreMessage(m) ==
  LET n == m.from.node
  IN /\ m \in mail /\ ~Locked(n)
     /\ mail' = mail \ {m}
     /\ IF Authentic(m) /\ InService(row[n].status)
        THEN row' = [row EXCEPT ![n] = [status |-> ReportedStatus(n, m.kind),
                                        secret |-> row[n].secret]]
        ELSE UNCHANGED row
     /\ UNCHANGED <<token, minted, install, identity, change, order, exchanges>>

LoseMessage(m) ==
  /\ m \in mail
  /\ mail' = mail \ {m}
  /\ UNCHANGED <<row, token, minted, install, identity, change, order, exchanges>>

-----------------------------------------------------------------------------
Init ==
  /\ row = [n \in Nodes |-> [status |-> "absent", secret |-> None]]
  /\ token = [t \in Tokens |-> [state |-> "absent", node |-> None]]
  /\ minted = {}
  /\ install = [h \in Hosts |-> Finished]
  /\ identity = [h \in Hosts |-> NoOne]
  /\ change = [a \in Admins |-> NoChange]
  /\ mail = {}
  /\ order = [n \in Nodes |-> None]
  /\ exchanges = [t \in Tokens |-> 0]

Rows ==
  \/ \E n \in Nodes : CreateNode(n) \/ DeleteNode(n) \/ \E t \in Tokens : CreateToken(t, n)
  \/ \E t \in Tokens : TokenExpires(t)

Installation(h) ==
  \/ \E t \in Tokens : RunInstaller(h, t)
  \/ \E s \in Secrets : LockToken(h, s)
  \/ RefuseToken(h) \/ CommitExchange(h) \/ AbortExchange(h)
  \/ InstallNode(h) \/ LoseAnswer(h)

Next ==
  \/ Rows
  \/ \E a \in Admins : \/ \E n \in Nodes, s \in Orders : ReadStatus(a, n, s)
                       \/ CommitStatus(a)
  \/ \E h \in Hosts : Installation(h) \/ \E k \in Kinds : Send(h, k)
  \/ \E m \in mail : StoreMessage(m) \/ LoseMessage(m)

Spec == Init /\ [][Next]_vars

\* A running node reports at every tick and not every report is lost or late; a
\* transaction of the panel ends, and not every one is rolled back.
Fairness ==
  /\ \A h \in Hosts : /\ WF_vars(Send(h, "ready"))
                      /\ WF_vars(CommitExchange(h) \/ AbortExchange(h))
                      /\ SF_vars(CommitExchange(h))
  /\ \A m \in Message : SF_vars(StoreMessage(m))

FairSpec == Spec /\ Fairness

-----------------------------------------------------------------------------
(* Correctness *)

TypeOK ==
  /\ row \in [Nodes -> Row]
  /\ token \in [Tokens -> Token]
  /\ minted \subseteq Secrets
  /\ install \in [Hosts -> Install]
  /\ identity \in [Hosts -> Identity \cup {NoOne}]
  /\ change \in [Admins -> [node : Nodes, next : Orders] \cup {NoChange}]
  /\ mail \subseteq Message
  /\ order \in [Nodes -> Orders \cup {None}]
  /\ exchanges \in [Tokens -> Nat]

\* docs/node-ops-upgrade.md: a bootstrap token is used once.  Two installers that are run
\* with it at the same time, or one that is run again, must not both be answered: the
\* rows of FOR UPDATE and used_at together prevent it.
TokenUsedOnce == \A t \in Tokens : exchanges[t] <= 1

\* exchange_bootstrap_token keeps the secret of a node that has one: every host the
\* node was ever installed on, by whichever of its tokens and in whatever order the
\* exchanges and their answers came, signs with the secret the panel verifies with.
SecretsAgree ==
  \A h \in Hosts : identity[h] # NoOne /\ Exists(identity[h].node)
                     => row[identity[h].node].secret = identity[h].secret

\* An audited order to disable or drain a node stands until the next order or the next
\* installation: no handshake or report under way at the time brings the node back.
OrdersStand ==
  \A n \in Nodes : Exists(n) /\ order[n] \in OutOfService => row[n].status = order[n]

\* Only a node that was installed is shown online or degraded, whatever an admin or a
\* late message of a deleted node says.
OnlineWasInstalled ==
  \A n \in Nodes : row[n].status \in Reported =>
    \E t \in Tokens : token[t].node = n /\ exchanges[t] > 0

\* A node that was installed comes online by itself: it is not left "installing" because
\* its handshake was lost, the row was locked, or messages came late.
Installed(n) == \E h \in Hosts : identity[h].node = n

InstalledNodesShowUp ==
  \A n \in Nodes : [](Installed(n) /\ row[n].status = "installing"
                      => <>(row[n].status # "installing"))

=============================================================================
