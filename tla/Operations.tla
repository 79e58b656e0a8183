------------------------------ MODULE Operations ------------------------------
(***************************************************************************)
(* Operations of a node over SSH: stored credentials, actions and          *)
(* deployments.  A handler records a running task, runs a command that may *)
(* hang, waits after an upgrade for the next report, finishes the task and *)
(* marks the credential of the node; whatever ends the handler before,     *)
(* leaves the task running.  Nothing keeps two admins from operating a     *)
(* node at once, or from replacing its credential meanwhile.               *)
(*                                                                         *)
(* Abstractions.  One node.  A credential is the number of its storage.    *)
(* Host, port, password, output and audit log are left out.  A deployment  *)
(* works with the credential it has stored (the code reads the row back,   *)
(* which may be a later one by then).                                      *)
(***************************************************************************)
EXTENDS Integers

CONSTANTS
  Operators,      \* requests served at once
  Actions,        \* bound: actions asked for
  MaxTasks,       \* bound: rows of node_operation_tasks
  MaxCredentials  \* bound: credentials stored

VARIABLES
  exists,      \* the node is in accel_nodes
  credential,  \* node_ssh_credentials of the node, or NoCredential
  stored,      \* how many credentials have been stored
  tasks,       \* node_operation_tasks, by id
  operator     \* requests under way

operationVars == <<exists, credential, stored, tasks, operator>>

ASSUME OperationsAssumption == MaxTasks \in Nat /\ MaxCredentials \in Nat

\* validate_ssh_action, and deploy_node
SshActions ==
  {"test_connection", "restart_node_service", "reboot_server", "upgrade_node"} \cap Actions

NoCredential == [number |-> 0]
NoTask       == [status |-> "none"]
Rest         == [pc |-> "rest"]
Busy(o)      == operator[o] # Rest

-----------------------------------------------------------------------------
(***************************************************************************)
(* Slips: plausible mistakes in the definitions below; no action uses them *)
(***************************************************************************)
Anyway(o)       == TRUE
CommandOnly(pc) == pc = "command"
Recounted       == [number |-> stored, auth |-> "untested", during |-> {}]

-----------------------------------------------------------------------------
(* Credentials *)

\* Credentials that handlers are working with
InUse == {operator[o].number : o \in {p \in Operators : Busy(p)}}

\* upsert_ssh_credential: the row of the node is replaced, and untested.  during is history:
\* the credentials in use when this one was stored.
Stored == [number |-> stored + 1, auth |-> "untested", during |-> InUse]

StoreCredential ==
  /\ exists /\ stored < MaxCredentials
  /\ stored' = stored + 1
  /\ credential' = Stored
  /\ UNCHANGED <<exists, tasks, operator>>

\* delete_ssh_credential
DeleteCredential ==
  /\ credential # NoCredential
  /\ credential' = NoCredential
  /\ UNCHANGED <<exists, stored, tasks, operator>>

-----------------------------------------------------------------------------
(* admin_run_ssh_action, admin_deploy_node *)

Begin(o, action, number, marks) ==
  operator' = [operator EXCEPT ![o] =
    [pc |-> "planned", action |-> action, number |-> number, marks |-> marks]]

\* select_admin_node, select_ssh_credential
StartAction(o, action) ==
  /\ ~Busy(o) /\ exists /\ credential # NoCredential
  /\ Begin(o, action, credential.number, TRUE)
  /\ UNCHANGED <<exists, credential, stored, tasks>>

\* A deployment brings its credential along, and stores it if asked to (save_credential).
StartDeployment(o, save) ==
  /\ ~Busy(o) /\ exists
  /\ IF save
     THEN /\ stored < MaxCredentials
          /\ stored' = stored + 1
          /\ credential' = Stored
          /\ Begin(o, "deploy_node", stored + 1, TRUE)
     ELSE /\ Begin(o, "deploy_node", 0, FALSE)
          /\ UNCHANGED <<credential, stored>>
  /\ UNCHANGED <<exists, tasks>>

\* build_ssh_action_plan, insert_operation_task; the foreign key needs the node
InsertTask(o) ==
  /\ operator[o].pc = "planned" /\ exists
  /\ \E t \in 1..MaxTasks :
       /\ tasks[t] = NoTask /\ \A u \in 1..(t - 1) : tasks[u] # NoTask
       /\ tasks' = [tasks EXCEPT ![t] = [status |-> "running", number |-> operator[o].number]]
       /\ operator' = [operator EXCEPT ![o] =
            [pc |-> "command", action |-> @.action, number |-> @.number, marks |-> @.marks,
             task |-> t]]
  /\ UNCHANGED <<exists, credential, stored>>

Proceed(o, pc, outcome) ==
  operator' = [operator EXCEPT ![o] =
    [pc |-> pc, action |-> @.action, number |-> @.number, marks |-> @.marks, task |-> @.task,
     outcome |-> outcome]]

\* run_ssh_command: the command ends, well or not
EndCommand(o, outcome) ==
  /\ operator[o].pc = "command"
  /\ Proceed(o, IF /\ outcome = "succeeded"
                   /\ operator[o].action \in {"upgrade_node", "deploy_node"}
                THEN "waiting" ELSE "finishing", outcome)
  /\ UNCHANGED <<exists, credential, stored, tasks>>

\* wait_for_upgrade_version_check: the node has reported; or it is gone, which a deployment
\* gets over (.ok()) and an action does not
Reported(o) ==
  /\ operator[o].pc = "waiting"
  /\ exists \/ operator[o].action = "deploy_node"
  /\ Proceed(o, "finishing", "succeeded")
  /\ UNCHANGED <<exists, credential, stored, tasks>>

\* SSH_ACTION_TIMEOUT_SEC, SSH_UPGRADE_REPORT_WAIT_SEC
Limited(pc) == pc \in {"command", "waiting"}

TimeUp(o) ==
  /\ Limited(operator[o].pc)
  /\ \/ operator[o].pc = "command" /\ Proceed(o, "finishing", "failed")
     \/ operator[o].pc = "waiting" /\ Proceed(o, "finishing", "succeeded")
  /\ UNCHANGED <<exists, credential, stored, tasks>>

\* finish_operation_task; the row must still be there
Finish(o) ==
  /\ operator[o].pc = "finishing" /\ tasks[operator[o].task] # NoTask
  /\ tasks' = [tasks EXCEPT ![operator[o].task].status = operator[o].outcome]
  /\ operator' = [operator EXCEPT ![o].pc = "marking"]
  /\ UNCHANGED <<exists, credential, stored>>

Marks(o) == operator[o].marks

\* update_ssh_credential_status: the credential the node has by now; then the audit log
Mark(o) ==
  /\ operator[o].pc = "marking"
  /\ IF Marks(o) /\ credential # NoCredential
     THEN credential' = [credential EXCEPT !.auth =
            IF operator[o].outcome = "succeeded" THEN "ok" ELSE "failed"]
     ELSE UNCHANGED credential
  /\ operator' = [operator EXCEPT ![o] = Rest]
  /\ UNCHANGED <<exists, stored, tasks>>

\* The database fails, a row is gone, the client is gone (the command is killed), the panel
\* ends: the task stays as it is.
Drop(o) ==
  /\ Busy(o)
  /\ operator' = [operator EXCEPT ![o] = Rest]
  /\ UNCHANGED <<exists, credential, stored, tasks>>

\* delete_admin_node: credentials and tasks go with it
DeleteNode ==
  /\ exists
  /\ exists' = FALSE /\ credential' = NoCredential
  /\ tasks' = [t \in 1..MaxTasks |-> NoTask]
  /\ UNCHANGED <<stored, operator>>

OperationsInit ==
  /\ exists = TRUE /\ credential = NoCredential /\ stored = 0
  /\ tasks = [t \in 1..MaxTasks |-> NoTask]
  /\ operator = [o \in Operators |-> Rest]

\* What the handler of a request does next, with nobody's help.
Continue(o) == TimeUp(o) \/ Finish(o) \/ Mark(o)

OperationsNext ==
  \/ \E o \in Operators :
       \/ \E action \in SshActions : StartAction(o, action)
       \/ \E save \in BOOLEAN : StartDeployment(o, save)
       \/ \E outcome \in {"succeeded", "failed"} : EndCommand(o, outcome)
       \/ InsertTask(o) \/ Reported(o) \/ Drop(o) \/ Continue(o)
  \/ StoreCredential \/ DeleteCredential \/ DeleteNode

-----------------------------------------------------------------------------
(* Correctness *)

OperationsTypeOK ==
  /\ exists \in BOOLEAN /\ stored \in 0..MaxCredentials
  /\ credential # NoCredential =>
       credential.number \in 1..stored /\ credential.auth \in {"untested", "ok", "failed"}
  /\ \A t \in 1..MaxTasks : tasks[t].status \in {"none", "running", "succeeded", "failed"}
  /\ \A o \in Operators :
       operator[o].pc \in {"rest", "planned", "command", "waiting", "finishing", "marking"}

Outcome(auth) == IF auth = "ok" THEN "succeeded" ELSE "failed"

\* The verdict on a credential is that of a task that used it, or, as the status is stored
\* by node, of one that used another and was under way when this one was stored.  A
\* deployment whose credential is not saved says nothing of the one that is.
VerdictsAreEarned ==
  credential # NoCredential /\ credential.auth # "untested" =>
    \E t \in 1..MaxTasks :
      /\ tasks[t].status = Outcome(credential.auth)
      /\ tasks[t].number \in {credential.number} \cup credential.during

\* Neither a command that hangs nor a node that never reports again keeps a task running
\* while its handler lives.
OperationsEnd ==
  \A t \in 1..MaxTasks :
    tasks[t].status = "running" ~>
      \/ tasks[t].status # "running"
      \/ \A o \in Operators : operator[o].pc \in {"rest", "planned"} \/ operator[o].task # t

=============================================================================
