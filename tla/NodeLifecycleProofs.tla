------------------------- MODULE NodeLifecycleProofs -------------------------
(***************************************************************************)
(* Theorems about NodeLifecycle, for any nodes, tokens, hosts, admins and  *)
(* secrets.                                                                *)
(***************************************************************************)
EXTENDS NodeLifecycle, TLAPS

\* Ids are new: nothing refers to a row that was not created yet.
RefersBack ==
  /\ \A t \in Tokens : IF token[t].state = "absent"
                       THEN token[t].node = None /\ exchanges[t] = 0
                       ELSE token[t].node \in Nodes /\ row[token[t].node].status # "absent"
  /\ \A h \in Hosts : identity[h] # NoOne => row[identity[h].node].status # "absent"
  /\ \A h \in Hosts : install[h].pc \in {"locked", "committed"}
                        => row[install[h].identity.node].status # "absent"
  /\ \A h \in Hosts : install[h].pc # "idle" => token[install[h].token].state # "absent"
  /\ \A n \in Nodes : row[n].status = "absent" => order[n] = None

\* A token goes with its node.
TokensCascade ==
  \A t \in Tokens : token[t].state \notin {"absent", "gone"} => Exists(token[t].node)

\* What a transaction read under its locks is still so.
LocksHold ==
  \A h \in Hosts : install[h].pc = "locked" =>
    /\ token[install[h].token].state \in {"fresh", "expired"}
    /\ token[install[h].token].node = install[h].identity.node
    /\ Exists(install[h].identity.node)
    /\ row[install[h].identity.node].secret \in {None, install[h].identity.secret}

LocksExclude ==
  \A h, g \in Hosts : install[h].pc = "locked" /\ install[g].pc = "locked" /\ h # g
                        => install[h].identity.node # install[g].identity.node

\* An answer under way holds the secret of the row.
AnswersAgree ==
  \A h \in Hosts : install[h].pc = "committed" /\ Exists(install[h].identity.node)
    => row[install[h].identity.node].secret = install[h].identity.secret

UsedTokens ==
  \A t \in Tokens : \/ exchanges[t] = 0
                    \/ exchanges[t] = 1 /\ token[t].state \in {"used", "gone"}

\* A node has a secret from its first exchange on, and is only seen with one.
SecretsExchanged ==
  \A n \in Nodes :
    /\ row[n].secret # None => \E t \in Tokens : token[t].node = n /\ exchanges[t] > 0
    /\ row[n].status \in Reported => row[n].secret # None

\* Only a status the validator accepted is under way.
ChangesAccepted == \A a \in Admins : change[a] # NoChange => Accepted(change[a].next)

IInv ==
  /\ TypeOK
  /\ TokensCascade
  /\ RefersBack
  /\ LocksHold
  /\ LocksExclude
  /\ AnswersAgree
  /\ UsedTokens
  /\ SecretsExchanged
  /\ SecretsAgree
  /\ OrdersStand
  /\ ChangesAccepted

-----------------------------------------------------------------------------
LEMMA InitIInv == Init => IInv
<1> SUFFICES ASSUME Init PROVE IInv
  OBVIOUS
<1> USE NodeLifecycleAssumption DEF Init, Finished, NoOne, NoChange
<1>1. TypeOK
  BY DEF TypeOK, Row, Token, Install, Identity, Status
<1>2. TokensCascade /\ RefersBack /\ LocksHold /\ LocksExclude /\ AnswersAgree /\ UsedTokens
  BY DEF TokensCascade, RefersBack, LocksHold, LocksExclude, AnswersAgree, UsedTokens
<1>3. SecretsExchanged /\ SecretsAgree /\ OrdersStand /\ ChangesAccepted
  BY DEF SecretsExchanged, SecretsAgree, OrdersStand, ChangesAccepted, Reported, Exists
<1> QED
  BY <1>1, <1>2, <1>3 DEF IInv

\* A new status leaves the secret, and creates or deletes no row.
SameRows ==
  \A n \in Nodes : /\ row'[n].secret = row[n].secret
                   /\ row'[n].status = "absent" <=> row[n].status = "absent"
                   /\ Exists(n)' <=> Exists(n)

LEMMA NewStatus ==
  ASSUME TypeOK, NEW n \in Nodes, NEW s \in Status, Exists(n),
         row' = [row EXCEPT ![n] = [status |-> s, secret |-> row[n].secret]]
  PROVE  row' \in [Nodes -> Row] /\ SameRows
<1>0. row \in [Nodes -> Row]
  BY DEF TypeOK
<1>1. s \notin {"absent", "deleted"}
  BY DEF Status, OutOfService, Reported
<1>2. row' \in [Nodes -> Row]
  BY <1>0 DEF Row
<1>3. ASSUME NEW k \in Nodes, k # n
      PROVE  row'[k] = row[k]
  BY <1>3, <1>0
<1>4. row'[n].secret = row[n].secret /\ row'[n].status = s
  BY <1>0
<1> QED
  BY <1>1, <1>2, <1>3, <1>4 DEF SameRows, Exists

LEMMA CreateNodeStep ==
  ASSUME IInv, NEW n \in Nodes, CreateNode(n)
  PROVE  IInv'
<1> USE NodeLifecycleAssumption DEF NoOne, Finished, NoChange, Accepted
<1>1. TypeOK'
  BY DEF IInv, CreateNode, TypeOK, Row, Status
<1>2. TokensCascade'
  BY DEF IInv, CreateNode, TokensCascade, Exists
<1>3. RefersBack'
  BY DEF IInv, CreateNode, RefersBack
<1>4. LocksHold'
  BY DEF IInv, CreateNode, LocksHold, Exists
<1>5. LocksExclude'
  BY DEF IInv, CreateNode, LocksExclude
<1>6. AnswersAgree'
  BY DEF IInv, CreateNode, AnswersAgree, RefersBack, Exists
<1>7. UsedTokens'
  BY DEF IInv, CreateNode, UsedTokens
<1>8. SecretsExchanged'
  BY DEF IInv, CreateNode, SecretsExchanged, Reported
<1>9. SecretsAgree'
  BY DEF IInv, CreateNode, RefersBack, SecretsAgree, Exists
<1>10. OrdersStand'
  BY DEF IInv, CreateNode, OrdersStand, RefersBack, Exists, Status
<1>11. ChangesAccepted'
  BY DEF IInv, CreateNode, ChangesAccepted
<1> QED
  BY <1>1, <1>2, <1>3, <1>4, <1>5, <1>6, <1>7, <1>8, <1>9, <1>10, <1>11 DEF IInv

LEMMA DeleteNodeStep ==
  ASSUME IInv, NEW n \in Nodes, DeleteNode(n)
  PROVE  IInv'
<1> USE NodeLifecycleAssumption DEF NoOne, Finished, NoChange, Accepted
<1>1. TypeOK'
  BY DEF IInv, DeleteNode, TypeOK, Row, Token
<1>2. TokensCascade'
  BY DEF IInv, DeleteNode, TokensCascade, Exists
<1>3. RefersBack'
  BY DEF IInv, DeleteNode, RefersBack, TypeOK, Install
<1>4. LocksHold'
  BY DEF IInv, DeleteNode, LocksHold, TypeOK, Locked, Exists, Install
<1>5. LocksExclude'
  BY DEF IInv, DeleteNode, LocksExclude
<1>6. AnswersAgree'
  BY DEF IInv, DeleteNode, AnswersAgree, Exists
<1>7. UsedTokens'
  BY DEF IInv, DeleteNode, UsedTokens
<1>8. SecretsExchanged'
  BY DEF IInv, DeleteNode, SecretsExchanged, Reported
<1>9. SecretsAgree'
  BY DEF IInv, DeleteNode, SecretsAgree, Exists
<1>10. OrdersStand'
  BY DEF IInv, DeleteNode, OrdersStand, Exists
<1>11. ChangesAccepted'
  BY DEF IInv, DeleteNode, ChangesAccepted
<1> QED
  BY <1>1, <1>2, <1>3, <1>4, <1>5, <1>6, <1>7, <1>8, <1>9, <1>10, <1>11 DEF IInv

LEMMA CreateTokenStep ==
  ASSUME IInv, NEW t \in Tokens, NEW n \in Nodes, CreateToken(t, n)
  PROVE  IInv'
<1> USE NodeLifecycleAssumption DEF NoOne, Finished, NoChange, Accepted
<1>1. TypeOK'
  BY DEF IInv, CreateToken, TypeOK, Token
<1>2. TokensCascade'
  BY DEF IInv, CreateToken, TokensCascade, Exists
<1>3. RefersBack'
  BY DEF IInv, CreateToken, RefersBack, Exists
<1>4. LocksHold'
  BY DEF IInv, CreateToken, LocksHold, Exists
<1>5. LocksExclude'
  BY DEF IInv, CreateToken, LocksExclude
<1>6. AnswersAgree'
  BY DEF IInv, CreateToken, AnswersAgree, Exists
<1>7. UsedTokens'
  BY DEF IInv, CreateToken, UsedTokens
<1>8. SecretsExchanged'
  BY DEF IInv, CreateToken, RefersBack, SecretsExchanged
<1>9. SecretsAgree'
  BY DEF IInv, CreateToken, SecretsAgree, Exists
<1>10. OrdersStand'
  BY DEF IInv, CreateToken, OrdersStand, Exists
<1>11. ChangesAccepted'
  BY DEF IInv, CreateToken, ChangesAccepted
<1> QED
  BY <1>1, <1>2, <1>3, <1>4, <1>5, <1>6, <1>7, <1>8, <1>9, <1>10, <1>11 DEF IInv

LEMMA TokenExpiresStep ==
  ASSUME IInv, NEW t \in Tokens, TokenExpires(t)
  PROVE  IInv'
<1> USE NodeLifecycleAssumption DEF NoOne, Finished, NoChange, Accepted
<1>1. TypeOK'
  BY DEF IInv, TokenExpires, TypeOK, Token
<1>2. TokensCascade'
  BY DEF IInv, TokenExpires, TokensCascade, Exists
<1>3. RefersBack'
  BY DEF IInv, TokenExpires, RefersBack
<1>4. LocksHold'
  BY DEF IInv, TokenExpires, LocksHold, Exists
<1>5. LocksExclude'
  BY DEF IInv, TokenExpires, LocksExclude
<1>6. AnswersAgree'
  BY DEF IInv, TokenExpires, AnswersAgree, Exists
<1>7. UsedTokens'
  BY DEF IInv, TokenExpires, UsedTokens
<1>8. SecretsExchanged'
  BY DEF IInv, TokenExpires, SecretsExchanged
<1>9. SecretsAgree'
  BY DEF IInv, TokenExpires, SecretsAgree, Exists
<1>10. OrdersStand'
  BY DEF IInv, TokenExpires, OrdersStand, Exists
<1>11. ChangesAccepted'
  BY DEF IInv, TokenExpires, ChangesAccepted
<1> QED
  BY <1>1, <1>2, <1>3, <1>4, <1>5, <1>6, <1>7, <1>8, <1>9, <1>10, <1>11 DEF IInv

LEMMA ReadStatusStep ==
  ASSUME IInv, NEW a \in Admins, NEW n \in Nodes, NEW s \in Orders, ReadStatus(a, n, s)
  PROVE  IInv'
<1> USE NodeLifecycleAssumption DEF NoOne, Finished, NoChange, Accepted
<1>1. TypeOK'
  BY DEF IInv, ReadStatus, TypeOK
<1>2. TokensCascade'
  BY DEF IInv, ReadStatus, TokensCascade, Exists
<1>3. RefersBack'
  BY DEF IInv, ReadStatus, RefersBack
<1>4. LocksHold'
  BY DEF IInv, ReadStatus, LocksHold, Exists
<1>5. LocksExclude'
  BY DEF IInv, ReadStatus, LocksExclude
<1>6. AnswersAgree'
  BY DEF IInv, ReadStatus, AnswersAgree, Exists
<1>7. UsedTokens'
  BY DEF IInv, ReadStatus, UsedTokens
<1>8. SecretsExchanged'
  BY DEF IInv, ReadStatus, SecretsExchanged
<1>9. SecretsAgree'
  BY DEF IInv, ReadStatus, SecretsAgree, Exists
<1>10. OrdersStand'
  BY DEF IInv, ReadStatus, OrdersStand, Exists
<1>11. ChangesAccepted'
  BY DEF IInv, ReadStatus, ChangesAccepted
<1> QED
  BY <1>1, <1>2, <1>3, <1>4, <1>5, <1>6, <1>7, <1>8, <1>9, <1>10, <1>11 DEF IInv

LEMMA CommitStatusStep ==
  ASSUME IInv, NEW a \in Admins, CommitStatus(a)
  PROVE  IInv'
<1> USE NodeLifecycleAssumption DEF NoOne, Finished, NoChange, Accepted
<1>0. change[a].node \in Nodes /\ change[a].next \in Orders /\ change[a].next \in Status
  BY DEF IInv, CommitStatus, TypeOK
<1>a. row' \in [Nodes -> Row] /\ SameRows
  <2>1. CASE Exists(change[a].node)
    BY <1>0, <2>1, NewStatus DEF IInv, CommitStatus
  <2>2. CASE ~Exists(change[a].node)
    BY <2>2 DEF IInv, TypeOK, CommitStatus, SameRows, Exists
  <2> QED
    BY <2>1, <2>2
<1>b. UNCHANGED <<token, minted, install, identity, mail, exchanges>>
  BY DEF CommitStatus
<1>1. TypeOK'
  <2>1. order' \in [Nodes -> Orders \cup {None}]
    BY <1>0 DEF IInv, TypeOK, CommitStatus
  <2>2. change' \in [Admins -> [node : Nodes, next : Orders] \cup {NoChange}]
    BY DEF IInv, TypeOK, CommitStatus
  <2> QED
    BY <1>a, <1>b, <2>1, <2>2 DEF IInv, TypeOK
<1>2. TokensCascade'
  BY <1>a, <1>b DEF IInv, TokensCascade, RefersBack, SameRows
<1>3. RefersBack'
  <2>1. \A n \in Nodes : row[n].status = "absent" => order'[n] = order[n]
    BY <1>0 DEF IInv, TypeOK, CommitStatus, Exists
  <2> QED
    BY <1>0, <1>a, <1>b, <2>1 DEF IInv, RefersBack, SameRows, TypeOK, Install, Identity
<1>4. LocksHold'
  BY <1>a, <1>b DEF IInv, LocksHold, SameRows, TypeOK, Install, Identity
<1>5. LocksExclude'
  BY <1>0 DEF IInv, CommitStatus, LocksExclude
<1>6. AnswersAgree'
  BY <1>a, <1>b DEF IInv, AnswersAgree, SameRows, TypeOK, Install, Identity
<1>7. UsedTokens'
  BY <1>0 DEF IInv, CommitStatus, UsedTokens
<1>8. SecretsExchanged'
  BY <1>0 DEF IInv, CommitStatus, ChangesAccepted, SecretsExchanged, TypeOK, Reported
<1>9. SecretsAgree'
  BY <1>a, <1>b DEF IInv, SecretsAgree, SameRows, TypeOK, Identity
<1>10. OrdersStand'
  <2> SUFFICES ASSUME NEW n \in Nodes, Exists(n)', order'[n] \in OutOfService
               PROVE  row'[n].status = order'[n]
    BY DEF OrdersStand
  <2>1. CASE Exists(change[a].node) /\ n = change[a].node
    BY <1>0, <2>1 DEF IInv, CommitStatus, TypeOK
  <2>2. CASE ~(Exists(change[a].node) /\ n = change[a].node)
    <3>1. row'[n] = row[n] /\ order'[n] = order[n]
      BY <1>0, <2>2 DEF IInv, CommitStatus, TypeOK
    <3> QED
      BY <3>1 DEF IInv, OrdersStand, Exists
  <2> QED
    BY <2>1, <2>2
<1>11. ChangesAccepted'
  BY <1>0 DEF IInv, CommitStatus, ChangesAccepted
<1> QED
  BY <1>1, <1>2, <1>3, <1>4, <1>5, <1>6, <1>7, <1>8, <1>9, <1>10, <1>11 DEF IInv

LEMMA RunInstallerStep ==
  ASSUME IInv, NEW h \in Hosts, NEW t \in Tokens, RunInstaller(h, t)
  PROVE  IInv'
<1> USE NodeLifecycleAssumption DEF NoOne, Finished, NoChange, Accepted
<1>1. TypeOK'
  BY DEF IInv, RunInstaller, TypeOK, Install
<1>2. TokensCascade'
  BY DEF IInv, RunInstaller, TokensCascade, Exists
<1>3. RefersBack'
  BY DEF IInv, RunInstaller, RefersBack
<1>4. LocksHold'
  BY DEF IInv, RunInstaller, LocksHold, Exists
<1>5. LocksExclude'
  BY DEF IInv, RunInstaller, LocksExclude
<1>6. AnswersAgree'
  BY DEF IInv, RunInstaller, AnswersAgree, Exists
<1>7. UsedTokens'
  BY DEF IInv, RunInstaller, UsedTokens
<1>8. SecretsExchanged'
  BY DEF IInv, RunInstaller, SecretsExchanged
<1>9. SecretsAgree'
  BY DEF IInv, RunInstaller, SecretsAgree, Exists
<1>10. OrdersStand'
  BY DEF IInv, RunInstaller, OrdersStand, Exists
<1>11. ChangesAccepted'
  BY DEF IInv, RunInstaller, ChangesAccepted
<1> QED
  BY <1>1, <1>2, <1>3, <1>4, <1>5, <1>6, <1>7, <1>8, <1>9, <1>10, <1>11 DEF IInv

LEMMA LockTokenStep ==
  ASSUME IInv, NEW h \in Hosts, NEW s \in Secrets, LockToken(h, s)
  PROVE  IInv'
<1> USE NodeLifecycleAssumption DEF NoOne, Finished, NoChange, Accepted
<1>0. install[h].token \in Tokens /\ token[install[h].token].node \in Nodes
  BY DEF IInv, LockToken, TypeOK, RefersBack, Install
<1>1. TypeOK'
  BY <1>0 DEF IInv, LockToken, TypeOK, Install, Identity
<1>2. TokensCascade'
  BY <1>0 DEF IInv, LockToken, TokensCascade, Exists
<1>3. RefersBack'
  BY <1>0 DEF IInv, LockToken, RefersBack
<1>4. LocksHold'
  <2>1. ASSUME NEW g \in Hosts, g # h, install'[g].pc = "locked"
        PROVE  install'[g] = install[g]
    BY <2>1 DEF IInv, LockToken, TypeOK
  <2>2. /\ install'[h].token = install[h].token
        /\ install'[h].identity = [node |-> token[install[h].token].node, secret |-> s]
    BY DEF IInv, LockToken, TypeOK
  <2>3. Exists(token[install[h].token].node)
    BY DEF IInv, LockToken, TokensCascade, TypeOK, Install
  <2> QED
    BY <1>0, <2>1, <2>2, <2>3 DEF IInv, LockToken, LocksHold, SecretFor, Exists
<1>5. LocksExclude'
  BY <1>0 DEF IInv, LockToken, LocksExclude, Locked
<1>6. AnswersAgree'
  BY <1>0 DEF IInv, LockToken, AnswersAgree, Exists
<1>7. UsedTokens'
  BY <1>0 DEF IInv, LockToken, UsedTokens
<1>8. SecretsExchanged'
  BY <1>0 DEF IInv, LockToken, SecretsExchanged
<1>9. SecretsAgree'
  BY <1>0 DEF IInv, LockToken, SecretsAgree, Exists
<1>10. OrdersStand'
  BY <1>0 DEF IInv, LockToken, OrdersStand, Exists
<1>11. ChangesAccepted'
  BY <1>0 DEF IInv, LockToken, ChangesAccepted
<1> QED
  BY <1>1, <1>2, <1>3, <1>4, <1>5, <1>6, <1>7, <1>8, <1>9, <1>10, <1>11 DEF IInv

LEMMA RefuseTokenStep ==
  ASSUME IInv, NEW h \in Hosts, RefuseToken(h)
  PROVE  IInv'
<1> USE NodeLifecycleAssumption DEF NoOne, Finished, NoChange, Accepted
<1>1. TypeOK'
  BY DEF IInv, RefuseToken, TypeOK, Install
<1>2. TokensCascade'
  BY DEF IInv, RefuseToken, TokensCascade, Exists
<1>3. RefersBack'
  BY DEF IInv, RefuseToken, RefersBack
<1>4. LocksHold'
  BY DEF IInv, RefuseToken, LocksHold, Exists
<1>5. LocksExclude'
  BY DEF IInv, RefuseToken, LocksExclude
<1>6. AnswersAgree'
  BY DEF IInv, RefuseToken, AnswersAgree, Exists
<1>7. UsedTokens'
  BY DEF IInv, RefuseToken, UsedTokens
<1>8. SecretsExchanged'
  BY DEF IInv, RefuseToken, SecretsExchanged
<1>9. SecretsAgree'
  BY DEF IInv, RefuseToken, SecretsAgree, Exists
<1>10. OrdersStand'
  BY DEF IInv, RefuseToken, OrdersStand, Exists
<1>11. ChangesAccepted'
  BY DEF IInv, RefuseToken, ChangesAccepted
<1> QED
  BY <1>1, <1>2, <1>3, <1>4, <1>5, <1>6, <1>7, <1>8, <1>9, <1>10, <1>11 DEF IInv

LEMMA CommitExchangeStep ==
  ASSUME IInv, NEW h \in Hosts, CommitExchange(h)
  PROVE  IInv'
<1> USE NodeLifecycleAssumption DEF NoOne, Finished, NoChange, Accepted
<1>1. TypeOK'
  BY DEF IInv, CommitExchange, TypeOK, Row, Token, Install, Identity, Status
<1>2. TokensCascade'
  BY DEF IInv, CommitExchange, LocksHold, TokensCascade, Exists
<1>3. RefersBack'
  BY DEF IInv, CommitExchange, RefersBack, TypeOK, Install, Identity
<1>4. LocksHold'
  BY DEF IInv, CommitExchange, LocksExclude, LocksHold, TypeOK, Exists
<1>5. LocksExclude'
  BY DEF IInv, CommitExchange, LocksExclude
<1>6. AnswersAgree'
  BY DEF IInv, CommitExchange, AnswersAgree, LocksHold, TypeOK, Exists, Install, Identity
<1>7. UsedTokens'
  BY DEF IInv, CommitExchange, LocksHold, TypeOK, UsedTokens, Identity, OutOfService
<1>8. SecretsExchanged'
  BY DEF IInv, CommitExchange, LocksHold, SecretsExchanged, TypeOK, Install, Identity
<1>9. SecretsAgree'
  BY DEF IInv, CommitExchange, LocksHold, SecretsAgree, TypeOK, Exists, Identity
<1>10. OrdersStand'
  BY DEF IInv, CommitExchange, OrdersStand, TypeOK, Exists, Status
<1>11. ChangesAccepted'
  BY DEF IInv, CommitExchange, ChangesAccepted
<1> QED
  BY <1>1, <1>2, <1>3, <1>4, <1>5, <1>6, <1>7, <1>8, <1>9, <1>10, <1>11 DEF IInv

LEMMA AbortExchangeStep ==
  ASSUME IInv, NEW h \in Hosts, AbortExchange(h)
  PROVE  IInv'
<1> USE NodeLifecycleAssumption DEF NoOne, Finished, NoChange, Accepted
<1>1. TypeOK'
  BY DEF IInv, AbortExchange, TypeOK, Install
<1>2. TokensCascade'
  BY DEF IInv, AbortExchange, TokensCascade, Exists
<1>3. RefersBack'
  BY DEF IInv, AbortExchange, RefersBack
<1>4. LocksHold'
  BY DEF IInv, AbortExchange, LocksHold, Exists
<1>5. LocksExclude'
  BY DEF IInv, AbortExchange, LocksExclude
<1>6. AnswersAgree'
  BY DEF IInv, AbortExchange, AnswersAgree, Exists
<1>7. UsedTokens'
  BY DEF IInv, AbortExchange, UsedTokens
<1>8. SecretsExchanged'
  BY DEF IInv, AbortExchange, SecretsExchanged
<1>9. SecretsAgree'
  BY DEF IInv, AbortExchange, SecretsAgree, Exists
<1>10. OrdersStand'
  BY DEF IInv, AbortExchange, OrdersStand, Exists
<1>11. ChangesAccepted'
  BY DEF IInv, AbortExchange, ChangesAccepted
<1> QED
  BY <1>1, <1>2, <1>3, <1>4, <1>5, <1>6, <1>7, <1>8, <1>9, <1>10, <1>11 DEF IInv

LEMMA InstallNodeStep ==
  ASSUME IInv, NEW h \in Hosts, InstallNode(h)
  PROVE  IInv'
<1> USE NodeLifecycleAssumption DEF NoOne, Finished, NoChange, Accepted
<1>1. TypeOK'
  BY DEF IInv, InstallNode, TypeOK, Install
<1>2. TokensCascade'
  BY DEF IInv, InstallNode, TokensCascade, Exists
<1>3. RefersBack'
  BY DEF IInv, InstallNode, RefersBack
<1>4. LocksHold'
  BY DEF IInv, InstallNode, LocksHold, Exists
<1>5. LocksExclude'
  BY DEF IInv, InstallNode, LocksExclude
<1>6. AnswersAgree'
  BY DEF IInv, InstallNode, AnswersAgree, Exists
<1>7. UsedTokens'
  BY DEF IInv, InstallNode, UsedTokens
<1>8. SecretsExchanged'
  BY DEF IInv, InstallNode, SecretsExchanged
<1>9. SecretsAgree'
  BY DEF IInv, InstallNode, AnswersAgree, SecretsAgree, Exists
<1>10. OrdersStand'
  BY DEF IInv, InstallNode, OrdersStand, Exists
<1>11. ChangesAccepted'
  BY DEF IInv, InstallNode, ChangesAccepted
<1> QED
  BY <1>1, <1>2, <1>3, <1>4, <1>5, <1>6, <1>7, <1>8, <1>9, <1>10, <1>11 DEF IInv

LEMMA LoseAnswerStep ==
  ASSUME IInv, NEW h \in Hosts, LoseAnswer(h)
  PROVE  IInv'
<1> USE NodeLifecycleAssumption DEF NoOne, Finished, NoChange, Accepted
<1>1. TypeOK'
  BY DEF IInv, LoseAnswer, TypeOK, Install
<1>2. TokensCascade'
  BY DEF IInv, LoseAnswer, TokensCascade, Exists
<1>3. RefersBack'
  BY DEF IInv, LoseAnswer, RefersBack
<1>4. LocksHold'
  BY DEF IInv, LoseAnswer, LocksHold, Exists
<1>5. LocksExclude'
  BY DEF IInv, LoseAnswer, LocksExclude
<1>6. AnswersAgree'
  BY DEF IInv, LoseAnswer, AnswersAgree, Exists
<1>7. UsedTokens'
  BY DEF IInv, LoseAnswer, UsedTokens
<1>8. SecretsExchanged'
  BY DEF IInv, LoseAnswer, SecretsExchanged
<1>9. SecretsAgree'
  BY DEF IInv, LoseAnswer, SecretsAgree, Exists
<1>10. OrdersStand'
  BY DEF IInv, LoseAnswer, OrdersStand, Exists
<1>11. ChangesAccepted'
  BY DEF IInv, LoseAnswer, ChangesAccepted
<1> QED
  BY <1>1, <1>2, <1>3, <1>4, <1>5, <1>6, <1>7, <1>8, <1>9, <1>10, <1>11 DEF IInv

LEMMA SendStep ==
  ASSUME IInv, NEW h \in Hosts, NEW k \in Kinds, Send(h, k)
  PROVE  IInv'
<1> USE NodeLifecycleAssumption DEF NoOne, Finished, NoChange, Accepted
<1>1. TypeOK'
  BY DEF IInv, Send, TypeOK, Message
<1>2. TokensCascade'
  BY DEF IInv, Send, TokensCascade, Exists
<1>3. RefersBack'
  BY DEF IInv, Send, RefersBack
<1>4. LocksHold'
  BY DEF IInv, Send, LocksHold, Exists
<1>5. LocksExclude'
  BY DEF IInv, Send, LocksExclude
<1>6. AnswersAgree'
  BY DEF IInv, Send, AnswersAgree, Exists
<1>7. UsedTokens'
  BY DEF IInv, Send, UsedTokens
<1>8. SecretsExchanged'
  BY DEF IInv, Send, SecretsExchanged
<1>9. SecretsAgree'
  BY DEF IInv, Send, SecretsAgree, Exists
<1>10. OrdersStand'
  BY DEF IInv, Send, OrdersStand, Exists
<1>11. ChangesAccepted'
  BY DEF IInv, Send, ChangesAccepted
<1> QED
  BY <1>1, <1>2, <1>3, <1>4, <1>5, <1>6, <1>7, <1>8, <1>9, <1>10, <1>11 DEF IInv

LEMMA StoreMessageStep ==
  ASSUME IInv, NEW m \in mail, StoreMessage(m)
  PROVE  IInv'
<1> USE NodeLifecycleAssumption DEF NoOne, Finished, NoChange, Accepted
<1>0. m.from.node \in Nodes /\ m.from.secret \in Secrets
  BY DEF IInv, TypeOK, Message, Identity
<1>a. row' \in [Nodes -> Row] /\ SameRows
  <2>1. CASE Authentic(m) /\ InService(row[m.from.node].status)
    <3>1. ReportedStatus(m.from.node, m.kind) \in Status
      BY DEF ReportedStatus, Status, Reported
    <3> QED
      BY <1>0, <2>1, <3>1, NewStatus DEF IInv, StoreMessage, Authentic
  <2>2. CASE ~(Authentic(m) /\ InService(row[m.from.node].status))
    BY <2>2 DEF IInv, TypeOK, StoreMessage, SameRows, Exists
  <2> QED
    BY <2>1, <2>2
<1>b. UNCHANGED <<token, minted, install, identity, change, order, exchanges>>
  BY DEF StoreMessage
<1>1. TypeOK'
  BY <1>a, <1>b DEF IInv, TypeOK, StoreMessage
<1>2. TokensCascade'
  BY <1>a, <1>b DEF IInv, TokensCascade, RefersBack, SameRows
<1>3. RefersBack'
  BY <1>0, <1>a, <1>b DEF IInv, RefersBack, SameRows, TypeOK, Install, Identity
<1>4. LocksHold'
  BY <1>a, <1>b DEF IInv, LocksHold, SameRows, TypeOK, Install, Identity
<1>5. LocksExclude'
  BY <1>0 DEF IInv, StoreMessage, LocksExclude
<1>6. AnswersAgree'
  BY <1>a, <1>b DEF IInv, AnswersAgree, SameRows, TypeOK, Install, Identity
<1>7. UsedTokens'
  BY <1>0 DEF IInv, StoreMessage, UsedTokens
<1>8. SecretsExchanged'
  BY <1>0 DEF IInv, StoreMessage, RefersBack, SecretsExchanged, TypeOK, Locked, Authentic, Token,
     Install
<1>9. SecretsAgree'
  BY <1>a, <1>b DEF IInv, SecretsAgree, SameRows, TypeOK, Identity
<1>10. OrdersStand'
  BY <1>0 DEF IInv, StoreMessage, OrdersStand, TypeOK, Authentic, InService, Exists
<1>11. ChangesAccepted'
  BY <1>0 DEF IInv, StoreMessage, ChangesAccepted
<1> QED
  BY <1>1, <1>2, <1>3, <1>4, <1>5, <1>6, <1>7, <1>8, <1>9, <1>10, <1>11 DEF IInv

LEMMA LoseMessageStep ==
  ASSUME IInv, NEW m \in mail, LoseMessage(m)
  PROVE  IInv'
<1> USE NodeLifecycleAssumption DEF NoOne, Finished, NoChange, Accepted
<1>1. TypeOK'
  BY DEF IInv, LoseMessage, TypeOK
<1>2. TokensCascade'
  BY DEF IInv, LoseMessage, TokensCascade, Exists
<1>3. RefersBack'
  BY DEF IInv, LoseMessage, RefersBack
<1>4. LocksHold'
  BY DEF IInv, LoseMessage, LocksHold, Exists
<1>5. LocksExclude'
  BY DEF IInv, LoseMessage, LocksExclude
<1>6. AnswersAgree'
  BY DEF IInv, LoseMessage, AnswersAgree, Exists
<1>7. UsedTokens'
  BY DEF IInv, LoseMessage, UsedTokens
<1>8. SecretsExchanged'
  BY DEF IInv, LoseMessage, SecretsExchanged
<1>9. SecretsAgree'
  BY DEF IInv, LoseMessage, SecretsAgree, Exists
<1>10. OrdersStand'
  BY DEF IInv, LoseMessage, OrdersStand, Exists
<1>11. ChangesAccepted'
  BY DEF IInv, LoseMessage, ChangesAccepted
<1> QED
  BY <1>1, <1>2, <1>3, <1>4, <1>5, <1>6, <1>7, <1>8, <1>9, <1>10, <1>11 DEF IInv

LEMMA NextStep ==
  ASSUME IInv, [Next]_vars
  PROVE  IInv'
<1>1. CASE UNCHANGED vars
  BY <1>1 DEF vars, IInv, TypeOK, TokensCascade, RefersBack, LocksHold, LocksExclude, AnswersAgree, 
              UsedTokens, SecretsExchanged, SecretsAgree, OrdersStand, ChangesAccepted, Exists
<1>2. CASE Rows
  BY <1>2, CreateNodeStep, DeleteNodeStep, CreateTokenStep, TokenExpiresStep DEF Rows
<1>3. ASSUME NEW a \in Admins,
             CommitStatus(a) \/ \E n \in Nodes, s \in Orders : ReadStatus(a, n, s)
      PROVE  IInv'
  BY <1>3, ReadStatusStep, CommitStatusStep
<1>4. ASSUME NEW h \in Hosts, Installation(h) \/ \E k \in Kinds : Send(h, k)
      PROVE  IInv'
  BY <1>4, RunInstallerStep, LockTokenStep, RefuseTokenStep, CommitExchangeStep,
     AbortExchangeStep, InstallNodeStep, LoseAnswerStep, SendStep DEF Installation
<1>5. ASSUME NEW m \in mail, StoreMessage(m) \/ LoseMessage(m)
      PROVE  IInv'
  BY <1>5, StoreMessageStep, LoseMessageStep
<1> QED
  BY <1>1, <1>2, <1>3, <1>4, <1>5 DEF Next

LEMMA Inductive == Spec => []IInv
<1> QED
  BY InitIInv, NextStep, PTL DEF Spec

-----------------------------------------------------------------------------
\* The rows, transactions and messages of the life cycle stay well typed.
THEOREM TypeCorrect == Spec => []TypeOK
<1>1. IInv => TypeOK
  BY DEF IInv
<1> QED
  BY <1>1, Inductive, PTL

\* FOR UPDATE and used_at together make exchange_bootstrap_token commit at most once per
\* token, however many installers are run with it.
THEOREM TokensAreUsedOnce == Spec => []TokenUsedOnce
<1>1. IInv => TokenUsedOnce
  BY DEF IInv, UsedTokens, TokenUsedOnce
<1> QED
  BY <1>1, Inductive, PTL

\* Every host a node was installed on signs with the secret the panel verifies with.
THEOREM HostsAndPanelAgree == Spec => []SecretsAgree
<1>1. IInv => SecretsAgree
  BY DEF IInv
<1> QED
  BY <1>1, Inductive, PTL

\* No late handshake or report undoes an order to disable or drain a node.
THEOREM LateMessagesKeepOrders == Spec => []OrdersStand
<1>1. IInv => OrdersStand
  BY DEF IInv
<1> QED
  BY <1>1, Inductive, PTL

\* A node is shown online or degraded only after a token of it was exchanged.
THEOREM OnlineNodesWereInstalled == Spec => []OnlineWasInstalled
<1>1. IInv => OnlineWasInstalled
  BY DEF IInv, SecretsExchanged, OnlineWasInstalled
<1> QED
  BY <1>1, Inductive, PTL

=============================================================================
