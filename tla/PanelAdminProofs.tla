--------------------------- MODULE PanelAdminProofs ---------------------------
(***************************************************************************)
(* Theorems about PanelAdmin, for any number of operators, tasks,          *)
(* credentials, users and requests, and for sessions of any length.        *)
(***************************************************************************)
EXTENDS PanelAdmin, TLAPS

Doing    == SshActions \cup {"deploy_node"}
Outcomes == {"succeeded", "failed"}
Numbers  == 0..MaxCredentials

Credential ==
  [number : 1..MaxCredentials, auth : {"untested", "ok", "failed"}, during : SUBSET Numbers]
Task       == [status : {"running"} \cup Outcomes, number : Numbers]
Planning   == [pc : {"planned"}, action : Doing, number : Numbers, marks : BOOLEAN]
Commanding == [pc : {"command"}, action : Doing, number : Numbers, marks : BOOLEAN,
               task : 1..MaxTasks]
Ending     == [pc : {"waiting", "finishing", "marking"}, action : Doing, number : Numbers,
               marks : BOOLEAN, task : 1..MaxTasks, outcome : Outcomes]
Account    == [status : {"active", "disabled"}, role : Roles, password : Nat]
LoggingIn  == [pc : {"login"}, user : Users, row : Account]
Asking     == [pc : {"asked"}, actor : Users \cup {Bootstrap}, user : Users, update : Updates]
Editing    == [pc : {"read"}, user : Users, update : Updates, row : Account]

OperationTypes ==
  /\ exists \in BOOLEAN /\ stored \in 0..MaxCredentials
  /\ credential \in {NoCredential} \cup Credential
  /\ credential # NoCredential => credential.number <= stored
  /\ tasks \in [1..MaxTasks -> {NoTask} \cup Task]
  /\ operator \in [Operators -> {Rest} \cup Planning \cup Commanding \cup Ending]

AccountTypes ==
  /\ user \in [Users -> {NoUser} \cup Account]
  /\ sessions \subseteq [user : Users, role : Roles, left : 0..SessionTtl]
  /\ request \in [Requests -> {AtRest} \cup LoggingIn \cup Asking \cup Editing]

\* A node that is deleted takes its credential with it, for good.
GoneIsGone == ~exists => credential = NoCredential

HasTask(o) == operator[o].pc \notin {"rest", "planned"}

\* The row of a handler says what the handler is about, and nobody else touches it.
TaskStands(o) ==
  LET row == tasks[operator[o].task]
  IN /\ row # NoTask /\ row.number = operator[o].number
     /\ row.status = IF operator[o].pc = "marking" THEN operator[o].outcome ELSE "running"

TasksStand == exists => \A o \in Operators : HasTask(o) => TaskStands(o)

TasksDistinct ==
  exists => \A o, p \in Operators :
    HasTask(o) /\ HasTask(p) /\ o # p => operator[o].task # operator[p].task

\* A handler that will mark the credential works with it, or was at work when it was stored.
InUseCovered ==
  credential # NoCredential =>
    \A o \in Operators : Busy(o) /\ operator[o].marks =>
      operator[o].number \in {credential.number} \cup credential.during

OperationsInv ==
  /\ OperationTypes /\ GoneIsGone /\ TasksStand /\ TasksDistinct /\ InUseCovered
  /\ VerdictsAreEarned

IInv == OperationsInv /\ AccountTypes

-----------------------------------------------------------------------------
(* What the pieces of state look like *)

LEMMA Handlers ==
  ASSUME OperationTypes, NEW o \in Operators
  PROVE  /\ operator[o].pc \in {"rest", "planned", "command", "waiting", "finishing", "marking"}
         /\ Busy(o) <=> operator[o].pc # "rest"
         /\ Busy(o) => /\ operator[o].action \in Doing /\ operator[o].number \in Numbers
                       /\ operator[o].marks \in BOOLEAN
         /\ HasTask(o) => operator[o].task \in 1..MaxTasks
         /\ operator[o].pc \in {"waiting", "finishing", "marking"} =>
               operator[o].outcome \in Outcomes
  BY DEF OperationTypes, Busy, HasTask, Rest, Planning, Commanding, Ending

LEMMA Credentials ==
  ASSUME OperationTypes, credential # NoCredential
  PROVE  credential \in Credential /\ credential.number \in 1..stored
  BY OperationsAssumption DEF OperationTypes, Credential

LEMMA Rows ==
  ASSUME OperationTypes, NEW t \in 1..MaxTasks
  PROVE  tasks[t] = NoTask \/ (tasks[t] \in Task /\ tasks[t] # NoTask)
<1>1. tasks[t] \in {NoTask} \cup Task
  BY DEF OperationTypes
<1>2. NoTask \notin Task
  <2>1. NoTask.status = "none"
    BY DEF NoTask
  <2>2. \A row \in Task : row.status # "none"
    BY DEF Task, Outcomes
  <2> QED
    BY <2>1, <2>2
<1> QED
  BY <1>1, <1>2

-----------------------------------------------------------------------------
(* Credentials *)

LEMMA StoreKeeps ==
  ASSUME OperationsInv, StoreCredential
  PROVE  OperationsInv'
<1> USE OperationsAssumption DEF OperationsInv, StoreCredential
<1>1. InUse \subseteq Numbers
  BY Handlers DEF InUse
<1>2. Stored \in Credential /\ Stored # NoCredential /\ Stored.number = stored + 1
  BY <1>1 DEF Stored, Credential, NoCredential, OperationTypes
<1>3. OperationTypes'
  BY <1>2 DEF OperationTypes
<1>4. (GoneIsGone /\ TasksStand /\ TasksDistinct)'
  BY DEF GoneIsGone, TasksStand, TaskStands, TasksDistinct, HasTask
<1>5. InUseCovered'
  BY DEF InUseCovered, Stored, InUse, Busy
<1>6. VerdictsAreEarned'
  BY DEF VerdictsAreEarned, Stored
<1> QED
  BY <1>3, <1>4, <1>5, <1>6

LEMMA DeleteCredentialKeeps ==
  ASSUME OperationsInv, DeleteCredential
  PROVE  OperationsInv'
  BY DEF OperationsInv, DeleteCredential, OperationTypes, GoneIsGone, TasksStand, TaskStands,
         TasksDistinct, HasTask, InUseCovered, VerdictsAreEarned

\* After the deletion there is nothing the invariant speaks about.
LEMMA DeleteNodeKeeps ==
  ASSUME OperationsInv, DeleteNode
  PROVE  OperationsInv'
  BY DEF OperationsInv, DeleteNode, OperationTypes, GoneIsGone, TasksStand, TasksDistinct,
         InUseCovered, VerdictsAreEarned

-----------------------------------------------------------------------------
(* Handlers *)

\* A handler that begins works with the credential of the node.
LEMMA StartActionKeeps ==
  ASSUME OperationsInv, NEW o \in Operators, NEW action \in SshActions, StartAction(o, action)
  PROVE  OperationsInv'
<1> DEFINE begun == [pc |-> "planned", action |-> action, number |-> credential.number,
                      marks |-> TRUE]
<1> USE DEF OperationsInv
<1>1. /\ operator' = [operator EXCEPT ![o] = begun] /\ credential # NoCredential
      /\ UNCHANGED <<exists, credential, stored, tasks>>
  BY DEF StartAction, Begin
<1>2. begun \in Planning
  <2>1. credential.number \in Numbers
    BY Credentials, <1>1, OperationsAssumption DEF Numbers, Credential, OperationTypes
  <2> QED
    BY <2>1 DEF Planning, Doing
<1>3. operator'[o] = begun /\ \A p \in Operators : p # o => operator'[p] = operator[p]
  BY <1>1 DEF OperationTypes
<1>4. OperationTypes'
  BY <1>1, <1>2 DEF OperationTypes
<1>5. \A p \in Operators : HasTask(p)' => p # o /\ HasTask(p)
  BY <1>3 DEF HasTask
<1>6. (GoneIsGone /\ TasksStand /\ TasksDistinct)'
  BY <1>1, <1>3, <1>5 DEF GoneIsGone, TasksStand, TaskStands, TasksDistinct
<1>7. InUseCovered'
  BY <1>1, <1>3 DEF InUseCovered, Busy
<1>8. VerdictsAreEarned'
  BY <1>1 DEF VerdictsAreEarned
<1> QED
  BY <1>4, <1>6, <1>7, <1>8

\* So does a deployment that saves its credential; one that does not, will not mark any.
LEMMA StartDeploymentKeeps ==
  ASSUME OperationsInv, NEW o \in Operators, NEW save \in BOOLEAN, StartDeployment(o, save)
  PROVE  OperationsInv'
<1> DEFINE begun == [pc |-> "planned", action |-> "deploy_node",
                     number |-> IF save THEN stored + 1 ELSE 0, marks |-> save]
<1> USE DEF OperationsInv
<1>1. /\ operator' = [operator EXCEPT ![o] = begun]
      /\ UNCHANGED <<exists, tasks>> /\ exists
  BY DEF StartDeployment, Begin
<1>2. begun \in Planning
  <2>1. stored \in 0..MaxCredentials
    BY DEF OperationTypes
  <2>2. ASSUME save PROVE stored + 1 \in Numbers
    <3>1. stored < MaxCredentials
      BY <2>2 DEF StartDeployment
    <3> QED
      BY <2>1, <3>1, OperationsAssumption DEF Numbers
  <2>3. 0 \in Numbers
    BY OperationsAssumption DEF Numbers
  <2>4. CASE save
    BY <2>2, <2>4 DEF Planning, Doing
  <2>5. CASE ~save
    BY <2>3, <2>5 DEF Planning, Doing
  <2> QED
    BY <2>4, <2>5
<1>3. operator'[o] = begun /\ \A p \in Operators : p # o => operator'[p] = operator[p]
  BY <1>1 DEF OperationTypes
<1>4. \A p \in Operators : HasTask(p)' => p # o /\ HasTask(p)
  BY <1>3 DEF HasTask
<1>5. (GoneIsGone /\ TasksStand /\ TasksDistinct)'
  BY <1>1, <1>3, <1>4 DEF GoneIsGone, TasksStand, TaskStands, TasksDistinct
<1>6. CASE save
  <2>1. credential' = Stored /\ stored < MaxCredentials /\ stored' = stored + 1
    BY <1>6 DEF StartDeployment
  <2>2. InUse \subseteq Numbers
    BY Handlers DEF InUse
  <2>3. Stored \in Credential /\ Stored # NoCredential /\ Stored.number = stored + 1
    BY <2>1, <2>2, OperationsAssumption DEF Stored, Credential, NoCredential, OperationTypes
  <2>4. OperationTypes'
    BY <1>1, <1>2, <2>1, <2>3, OperationsAssumption DEF OperationTypes
  <2>5. InUseCovered'
    BY <1>3, <1>6, <2>1 DEF InUseCovered, Stored, InUse, Busy
  <2>6. VerdictsAreEarned'
    BY <2>1 DEF VerdictsAreEarned, Stored
  <2> QED
    BY <1>5, <2>4, <2>5, <2>6
<1>7. CASE ~save
  <2>1. UNCHANGED <<credential, stored>>
    BY <1>7 DEF StartDeployment
  <2>2. OperationTypes'
    BY <1>1, <1>2, <2>1 DEF OperationTypes
  <2>3. InUseCovered'
    BY <1>3, <1>7, <2>1 DEF InUseCovered, Busy
  <2>4. VerdictsAreEarned'
    BY <1>1, <2>1 DEF VerdictsAreEarned
  <2> QED
    BY <1>5, <2>2, <2>3, <2>4
<1> QED
  BY <1>6, <1>7

LEMMA InsertTaskKeeps ==
  ASSUME OperationsInv, NEW o \in Operators, InsertTask(o)
  PROVE  OperationsInv'
<1> USE DEF OperationsInv
<1>1. PICK t \in 1..MaxTasks :
        /\ tasks[t] = NoTask
        /\ tasks' = [tasks EXCEPT ![t] = [status |-> "running", number |-> operator[o].number]]
        /\ operator' = [operator EXCEPT ![o] =
             [pc |-> "command", action |-> operator[o].action, number |-> operator[o].number,
              marks |-> operator[o].marks, task |-> t]]
  BY DEF InsertTask
<1>2. operator[o].pc = "planned" /\ exists /\ UNCHANGED <<exists, credential, stored>>
  BY DEF InsertTask
<1> DEFINE row == [status |-> "running", number |-> operator[o].number]
           going == [pc |-> "command", action |-> operator[o].action, number |-> operator[o].number,
                     marks |-> operator[o].marks, task |-> t]
<1>3. Busy(o) /\ row \in Task /\ going \in Commanding
  BY <1>2, Handlers DEF Task, Commanding
<1>4. operator'[o] = going /\ \A p \in Operators : p # o => operator'[p] = operator[p]
  BY <1>1 DEF OperationTypes
<1>5. tasks'[t] = row /\ \A u \in 1..MaxTasks : u # t => tasks'[u] = tasks[u]
  BY <1>1 DEF OperationTypes
<1>6. OperationTypes'
  BY <1>1, <1>2, <1>3 DEF OperationTypes
<1>7. \A p \in Operators :
        p # o /\ HasTask(p) => operator[p].task \in 1..MaxTasks /\ operator[p].task # t
  BY <1>1, <1>2, Handlers DEF TasksStand, TaskStands
<1>8. TasksStand'
  <2>1. ASSUME NEW p \in Operators, HasTask(p)' PROVE TaskStands(p)'
    <3>1. CASE p = o
      BY <1>4, <1>5, <3>1 DEF TaskStands, NoTask
    <3>2. CASE p # o
      BY <1>2, <1>4, <1>5, <1>7, <2>1, <3>2 DEF TasksStand, TaskStands, HasTask
    <3> QED
      BY <3>1, <3>2
  <2> QED
    BY <2>1 DEF TasksStand
<1>9. TasksDistinct'
  BY <1>2, <1>4, <1>7 DEF TasksDistinct, HasTask
<1>10. GoneIsGone'
  BY <1>2 DEF GoneIsGone
<1>11. InUseCovered'
  BY <1>2, <1>3, <1>4 DEF InUseCovered, Busy
<1>12. VerdictsAreEarned'
  BY <1>1, <1>2, <1>5 DEF VerdictsAreEarned, NoTask, Outcome
<1> QED
  BY <1>6, <1>8, <1>9, <1>10, <1>11, <1>12

\* The steps that only change where a handler with a task is.
LEMMA ProceedKeeps ==
  ASSUME OperationsInv, NEW o \in Operators, operator[o].pc \in {"command", "waiting"},
         NEW pc \in {"waiting", "finishing"}, NEW outcome \in Outcomes, Proceed(o, pc, outcome),
         UNCHANGED <<exists, credential, stored, tasks>>
  PROVE  OperationsInv'
<1> DEFINE next == [pc |-> pc, action |-> operator[o].action, number |-> operator[o].number,
                    marks |-> operator[o].marks, task |-> operator[o].task, outcome |-> outcome]
<1> USE DEF OperationsInv
<1>1. operator' = [operator EXCEPT ![o] = next]
  BY DEF Proceed
<1>2. Busy(o) /\ HasTask(o) /\ next \in Ending
  BY Handlers DEF Ending, HasTask
<1>3. operator'[o] = next /\ \A p \in Operators : p # o => operator'[p] = operator[p]
  BY <1>1 DEF OperationTypes
<1>4. OperationTypes'
  BY <1>1, <1>2 DEF OperationTypes
<1>5. \A p \in Operators : HasTask(p)' => HasTask(p) /\ operator'[p].task = operator[p].task
  BY <1>2, <1>3 DEF HasTask
<1>6. TasksStand'
  <2>1. ASSUME NEW p \in Operators, HasTask(p)', exists PROVE TaskStands(p)'
    <3>1. TaskStands(p)
      BY <1>5, <2>1 DEF TasksStand
    <3> QED
      BY <1>3, <3>1 DEF TaskStands
  <2> QED
    BY <2>1 DEF TasksStand
<1>7. (GoneIsGone /\ TasksDistinct)'
  BY <1>5 DEF GoneIsGone, TasksDistinct
<1>8. InUseCovered'
  BY <1>2, <1>3 DEF InUseCovered, Busy
<1>9. VerdictsAreEarned'
  BY DEF VerdictsAreEarned
<1> QED
  BY <1>4, <1>6, <1>7, <1>8, <1>9

\* The row that is finished was running: no verdict rests on it yet.
LEMMA FinishKeeps ==
  ASSUME OperationsInv, NEW o \in Operators, Finish(o)
  PROVE  OperationsInv'
<1> DEFINE t == operator[o].task
<1> USE DEF OperationsInv
<1>1. /\ operator[o].pc = "finishing" /\ tasks[t] # NoTask
      /\ tasks' = [tasks EXCEPT ![t] = [tasks[t] EXCEPT !.status = operator[o].outcome]]
      /\ operator' = [operator EXCEPT ![o] = [operator[o] EXCEPT !.pc = "marking"]]
      /\ UNCHANGED <<exists, credential, stored>>
  BY DEF Finish
<1>2. HasTask(o) /\ t \in 1..MaxTasks /\ operator[o].outcome \in Outcomes
  BY <1>1, Handlers DEF HasTask
<1>3. operator[o] \in Ending
  BY <1>1 DEF OperationTypes, Rest, Planning, Commanding
<1>4. tasks[t] \in Task
  BY <1>1, <1>2, Rows
<1>5. /\ tasks'[t] \in Task /\ tasks'[t].status = operator[o].outcome
      /\ tasks'[t].number = tasks[t].number
      /\ \A u \in 1..MaxTasks : u # t => tasks'[u] = tasks[u]
  BY <1>1, <1>2, <1>4 DEF OperationTypes, Task
<1>6. /\ operator'[o] \in Ending /\ operator'[o].pc = "marking" /\ operator'[o].task = t
      /\ operator'[o].number = operator[o].number /\ operator'[o].marks = operator[o].marks
      /\ operator'[o].outcome = operator[o].outcome
      /\ \A p \in Operators : p # o => operator'[p] = operator[p]
  BY <1>1, <1>3 DEF OperationTypes, Ending
<1>7. OperationTypes'
  BY <1>1, <1>2, <1>5, <1>6 DEF OperationTypes
<1>8. \A p \in Operators : HasTask(p)' => HasTask(p) /\ operator'[p].task = operator[p].task
  BY <1>2, <1>6 DEF HasTask
<1>9. TasksStand'
  <2>1. ASSUME NEW p \in Operators, HasTask(p)', exists PROVE TaskStands(p)'
    <3>1. TaskStands(p)
      BY <1>8, <2>1 DEF TasksStand
    <3>2. CASE p = o
      BY <1>5, <1>6, <3>1, <3>2 DEF TaskStands, Task, NoTask, Outcomes
    <3>3. CASE p # o
      <4>1. operator[p].task # t /\ operator[p].task \in 1..MaxTasks
        BY <1>2, <1>8, <2>1, <3>3, Handlers DEF TasksDistinct
      <4> QED
        BY <1>5, <1>6, <3>1, <3>3, <4>1 DEF TaskStands
    <3> QED
      BY <3>2, <3>3
  <2> QED
    BY <1>1, <2>1 DEF TasksStand
<1>10. (GoneIsGone /\ TasksDistinct)'
  BY <1>1, <1>8 DEF GoneIsGone, TasksDistinct
<1>11. InUseCovered'
  <2>1. Busy(o)
    BY <1>1, Handlers
  <2> QED
    BY <1>1, <1>6, <2>1 DEF InUseCovered, Busy
<1>12. VerdictsAreEarned'
  <2>1. exists => tasks[t].status = "running"
    BY <1>1, <1>2 DEF TasksStand, TaskStands
  <2> QED
    BY <1>1, <1>5, <2>1 DEF VerdictsAreEarned, GoneIsGone, Outcome
<1> QED
  BY <1>7, <1>9, <1>10, <1>11, <1>12

\* A handler ends, with or without a verdict.
LEMMA EndKeeps ==
  ASSUME OperationsInv, NEW o \in Operators, operator' = [operator EXCEPT ![o] = Rest],
         UNCHANGED <<exists, stored, tasks>>,
         \/ credential' = credential
         \/ /\ credential # NoCredential /\ credential' \in Credential
            /\ credential'.number = credential.number
            /\ credential'.during = credential.during,
         VerdictsAreEarned'
  PROVE  OperationsInv'
<1> USE DEF OperationsInv
<1>1. operator'[o] = Rest /\ \A p \in Operators : p # o => operator'[p] = operator[p]
  BY DEF OperationTypes
<1>2. \A p \in Operators : HasTask(p)' => HasTask(p) /\ operator'[p] = operator[p]
  BY <1>1 DEF HasTask, Rest
<1>3. credential' # NoCredential <=> credential # NoCredential
  BY DEF Credential, NoCredential
<1>4. OperationTypes'
  BY <1>3 DEF OperationTypes
<1>5. (GoneIsGone /\ TasksStand /\ TasksDistinct)'
  BY <1>2, <1>3 DEF GoneIsGone, TasksStand, TaskStands, TasksDistinct
<1>6. InUseCovered'
  BY <1>1, <1>3 DEF InUseCovered, Busy
<1> QED
  BY <1>4, <1>5, <1>6

LEMMA MarkKeeps ==
  ASSUME OperationsInv, NEW o \in Operators, Mark(o)
  PROVE  OperationsInv'
<1> USE DEF OperationsInv
<1>1. /\ operator[o].pc = "marking" /\ operator' = [operator EXCEPT ![o] = Rest]
      /\ UNCHANGED <<exists, stored, tasks>>
  BY DEF Mark
<1>2. CASE operator[o].marks /\ credential # NoCredential
  <2> DEFINE verdict == IF operator[o].outcome = "succeeded" THEN "ok" ELSE "failed"
             t == operator[o].task
  <2>1. credential \in Credential /\ credential' = [credential EXCEPT !.auth = verdict]
    BY <1>2, Credentials DEF Mark, Marks
  <2>2. /\ credential' \in Credential /\ credential'.auth = verdict
        /\ credential'.number = credential.number /\ credential'.during = credential.during
    BY <2>1 DEF Credential
  <2>3. HasTask(o) /\ Busy(o) /\ t \in 1..MaxTasks /\ operator[o].outcome \in Outcomes
    BY <1>1, Handlers DEF HasTask
  <2>4. tasks[t].status = operator[o].outcome /\ tasks[t].number = operator[o].number
    BY <1>1, <1>2, <2>3 DEF GoneIsGone, TasksStand, TaskStands, OperationTypes
  <2>5. operator[o].number \in {credential.number} \cup credential.during
    BY <1>2, <2>3 DEF InUseCovered
  <2>6. Outcome(verdict) = operator[o].outcome
    BY <2>3 DEF Outcome, Outcomes
  <2>7. VerdictsAreEarned'
    BY <1>1, <2>2, <2>3, <2>4, <2>5, <2>6 DEF VerdictsAreEarned
  <2> QED
    BY <1>1, <1>2, <2>2, <2>7, EndKeeps
<1>3. CASE ~(operator[o].marks /\ credential # NoCredential)
  <2>1. UNCHANGED credential
    BY <1>3 DEF Mark, Marks
  <2>2. VerdictsAreEarned'
    BY <1>1, <2>1 DEF VerdictsAreEarned
  <2> QED
    BY <1>1, <2>1, <2>2, EndKeeps
<1> QED
  BY <1>2, <1>3

LEMMA DropKeeps ==
  ASSUME OperationsInv, NEW o \in Operators, Drop(o)
  PROVE  OperationsInv'
<1>1. VerdictsAreEarned'
  BY DEF OperationsInv, Drop, VerdictsAreEarned
<1> QED
  BY <1>1, EndKeeps DEF Drop

LEMMA OperationsNextKeeps == OperationsInv /\ OperationsNext => OperationsInv'
<1> SUFFICES ASSUME OperationsInv, OperationsNext PROVE OperationsInv'
  OBVIOUS
<1>1. CASE StoreCredential \/ DeleteCredential \/ DeleteNode
  BY <1>1, StoreKeeps, DeleteCredentialKeeps, DeleteNodeKeeps
<1>2. ASSUME NEW o \in Operators, NEW action \in SshActions, StartAction(o, action)
      PROVE  OperationsInv'
  BY <1>2, StartActionKeeps
<1>3. ASSUME NEW o \in Operators, NEW save \in BOOLEAN, StartDeployment(o, save)
      PROVE  OperationsInv'
  BY <1>3, StartDeploymentKeeps
<1>4. ASSUME NEW o \in Operators, NEW outcome \in {"succeeded", "failed"}, EndCommand(o, outcome)
      PROVE  OperationsInv'
  <2> DEFINE pc == IF /\ outcome = "succeeded"
                      /\ operator[o].action \in {"upgrade_node", "deploy_node"}
                   THEN "waiting" ELSE "finishing"
  <2>1. pc \in {"waiting", "finishing"} /\ outcome \in Outcomes
    BY DEF Outcomes
  <2> QED
    BY <1>4, <2>1, ProceedKeeps DEF EndCommand
<1>5. ASSUME NEW o \in Operators, Reported(o) \/ TimeUp(o) PROVE OperationsInv'
  BY <1>5, ProceedKeeps DEF Reported, TimeUp, Outcomes
<1>6. ASSUME NEW o \in Operators, InsertTask(o) \/ Drop(o) \/ Finish(o) \/ Mark(o)
      PROVE  OperationsInv'
  BY <1>6, InsertTaskKeeps, DropKeeps, FinishKeeps, MarkKeeps
<1> QED
  BY <1>1, <1>2, <1>3, <1>4, <1>5, <1>6 DEF OperationsNext, Continue

-----------------------------------------------------------------------------
(* Accounts *)

\* What a request holds, by the step it is at
LEMMA RequestsHold ==
  ASSUME AccountTypes, NEW r \in Requests
  PROVE  /\ request[r].pc \in {"rest", "login", "asked", "read"}
         /\ request[r] # AtRest => request[r].user \in Users
         /\ request[r].pc = "login" => request[r].row \in Account
         /\ request[r].pc = "asked" => request[r].update \in Updates
         /\ request[r].pc = "read" =>
              request[r].row \in Account /\ request[r].update \in Updates
  BY DEF AccountTypes, AtRest, LoggingIn, Asking, Editing

\* The row an update writes
Written(r) ==
  LET row == request[r].row  update == request[r].update
  IN [status   |-> IF update.status = Unset THEN row.status ELSE update.status,
      role     |-> IF update.role = Unset THEN row.role ELSE update.role,
      password |-> IF update.password = Unset THEN row.password ELSE update.password]

LEMMA WrittenType ==
  ASSUME AccountTypes, NEW r \in Requests, request[r].pc = "read"
  PROVE  Written(r) \in Account
  BY RequestsHold, AccountsAssumption DEF Written, Account

LEMMA AccountsNextKeeps == AccountTypes /\ AccountsNext => AccountTypes'
<1> SUFFICES ASSUME AccountTypes, AccountsNext PROVE AccountTypes'
  OBVIOUS
<1>1. \A u \in Users : user[u] # NoUser => user[u] \in Account
  BY DEF AccountTypes
<1>2. ASSUME NEW r \in Requests, NEW u \in Users, ReadLogin(r, u) PROVE AccountTypes'
  <2>1. [pc |-> "login", user |-> u, row |-> user[u]] \in LoggingIn
    BY <1>1, <1>2 DEF ReadLogin, NoUser, LoggingIn
  <2> QED
    BY <1>2, <2>1 DEF ReadLogin, AccountTypes
<1>3. ASSUME NEW r \in Requests, IssueToken(r) PROVE AccountTypes'
  <2>1. request[r].user \in Users /\ request[r].row \in Account
    BY <1>3, RequestsHold DEF IssueToken, AtRest
  <2>2. [user |-> request[r].user, role |-> request[r].row.role, left |-> SessionTtl]
          \in [user : Users, role : Roles, left : 0..SessionTtl]
    BY <2>1, AccountsAssumption DEF Account
  <2> QED
    BY <1>3, <2>2 DEF IssueToken, AccountTypes
<1>4. CASE Tick
  <2>1. ASSUME NEW s \in sessions, s.left > 0
        PROVE  [s EXCEPT !.left = s.left - 1] \in [user : Users, role : Roles, left : 0..SessionTtl]
    BY <2>1, AccountsAssumption DEF AccountTypes
  <2> QED
    BY <1>4, <2>1 DEF Tick, AccountTypes
<1>5. ASSUME NEW u \in Users, NEW actor, NEW status \in {"active", "disabled"}, NEW role \in Roles,
             Create(actor, u, status, role)
      PROVE  AccountTypes'
  BY <1>5 DEF Create, AccountTypes, Account
<1>6. ASSUME NEW u \in Users, NEW actor \in Users \cup {Bootstrap}, NEW r \in Requests,
             NEW update \in Updates, Ask(r, actor, u, update)
      PROVE  AccountTypes'
  <2>1. [pc |-> "asked", actor |-> actor, user |-> u, update |-> update] \in Asking
    BY DEF Asking
  <2> QED
    BY <1>6, <2>1 DEF Ask, AccountTypes
<1>7. ASSUME NEW u \in Users, NEW actor, Disable(actor, u) PROVE AccountTypes'
  <2>1. [user[u] EXCEPT !.status = "disabled"] \in Account
    BY <1>1, <1>7 DEF Disable, Account
  <2> QED
    BY <1>7, <2>1 DEF Disable, AccountTypes
<1>8. ASSUME NEW r \in Requests, ReadUser(r) PROVE AccountTypes'
  <2>1. request[r].user \in Users /\ request[r].update \in Updates
    BY <1>8, RequestsHold DEF ReadUser, AtRest
  <2>2. [pc |-> "read", user |-> request[r].user, update |-> request[r].update,
         row |-> user[request[r].user]] \in Editing
    BY <1>1, <1>8, <2>1 DEF ReadUser, Editing
  <2> QED
    BY <1>8, <2>2 DEF ReadUser, AccountTypes
<1>9. ASSUME NEW r \in Requests, WriteUser(r) PROVE AccountTypes'
  <2>1. Written(r) \in Account
    BY <1>9, WrittenType DEF WriteUser
  <2>2. user' = [user EXCEPT ![request[r].user] = Written(r)]
    BY <1>9 DEF WriteUser, Written
  <2> QED
    BY <1>9, <2>1, <2>2 DEF WriteUser, AccountTypes
<1>10. ASSUME NEW r \in Requests, GiveUp(r) PROVE AccountTypes'
  BY <1>10 DEF GiveUp, AccountTypes
<1> QED
  BY <1>2, <1>3, <1>4, <1>5, <1>6, <1>7, <1>8, <1>9, <1>10 DEF AccountsNext

-----------------------------------------------------------------------------

LEMMA InitInv == Init => IInv
<1> SUFFICES ASSUME Init PROVE IInv
  OBVIOUS
<1>1. OperationsInv
  BY OperationsAssumption
     DEF Init, OperationsInit, OperationsInv, OperationTypes, GoneIsGone, TasksStand, TasksDistinct,
         HasTask, Rest, InUseCovered, VerdictsAreEarned
<1>2. AccountTypes
  BY DEF Init, AccountsInit, AccountTypes
<1> QED
  BY <1>1, <1>2 DEF IInv

LEMMA NextInv == IInv /\ [Next]_vars => IInv'
<1> SUFFICES ASSUME IInv, [Next]_vars PROVE IInv'
  OBVIOUS
<1>1. UNCHANGED operationVars => OperationsInv'
  BY DEF IInv, operationVars, OperationsInv, OperationTypes, GoneIsGone, TasksStand, TaskStands,
         TasksDistinct, HasTask, InUseCovered, Busy, VerdictsAreEarned
<1>2. UNCHANGED accountVars => AccountTypes'
  BY DEF IInv, accountVars, AccountTypes
<1>3. OperationsInv' /\ AccountTypes'
  BY <1>1, <1>2, OperationsNextKeeps, AccountsNextKeeps
     DEF IInv, Next, vars, operationVars, accountVars
<1> QED
  BY <1>3 DEF IInv

THEOREM Inductive == Spec => []IInv
  BY InitInv, NextInv, PTL DEF Spec

-----------------------------------------------------------------------------
(* Theorems *)

\* Both halves of the state stay well typed.
THEOREM TypeCorrect == Spec => []TypeOK
<1>1. IInv => TypeOK
  <2> SUFFICES ASSUME IInv PROVE OperationsTypeOK /\ AccountsTypeOK
    BY DEF TypeOK
  <2>1. credential # NoCredential =>
          credential.number \in 1..stored /\ credential.auth \in {"untested", "ok", "failed"}
    BY Credentials DEF IInv, OperationsInv, Credential
  <2>2. \A t \in 1..MaxTasks : tasks[t].status \in {"none", "running", "succeeded", "failed"}
    BY Rows DEF IInv, OperationsInv, NoTask, Task, Outcomes
  <2>3. \A o \in Operators :
          operator[o].pc \in {"rest", "planned", "command", "waiting", "finishing", "marking"}
    BY Handlers DEF IInv, OperationsInv
  <2>4. OperationsTypeOK
    BY <2>1, <2>2, <2>3 DEF OperationsTypeOK, IInv, OperationsInv, OperationTypes
  <2>5. AccountsTypeOK
    BY RequestsHold DEF IInv, AccountTypes, AccountsTypeOK, Account, NoUser
  <2> QED
    BY <2>4, <2>5
<1> QED
  BY <1>1, Inductive, PTL

\* The verdict on a credential is one of a task that used it or was under way when it was
\* stored, whoever replaces, deletes or deploys meanwhile.
THEOREM VerdictsEarned == Spec => []VerdictsAreEarned
<1>1. IInv => VerdictsAreEarned
  BY DEF IInv, OperationsInv
<1> QED
  BY <1>1, Inductive, PTL

\* What is left of a locked out account is kept or taken away by every step, but for a
\* request of another admin.
LEMMA LockedOutKept ==
  ASSUME AccountTypes, AccountsNext, NEW u \in Users, LockedOut(u)
  PROVE  (LockedOut(u) \/ AskedBack(u))'
<1>1. user[u] # NoUser /\ user[u] \in Account
  BY DEF LockedOut, NoUser, AccountTypes
<1>2. ASSUME NEW r \in Requests, NEW v \in Users, ReadLogin(r, v) PROVE LockedOut(u)'
  <2>1. v # u
    BY <1>2 DEF ReadLogin, LockedOut
  <2> QED
    BY <1>2, <2>1 DEF ReadLogin, LockedOut, AccountTypes
<1>3. ASSUME NEW r \in Requests, IssueToken(r) PROVE LockedOut(u)'
  <2>1. request[r].user # u
    BY <1>3 DEF IssueToken, LockedOut, AtRest
  <2> QED
    BY <1>3, <2>1 DEF IssueToken, LockedOut, AccountTypes
<1>4. CASE Tick
  <2>1. \A s \in sessions' : s.user # u
    BY <1>4 DEF Tick, LockedOut, AccountTypes
  <2> QED
    BY <1>4, <2>1 DEF Tick, LockedOut
<1>5. ASSUME NEW v \in Users, NEW actor, NEW status, NEW role, Create(actor, v, status, role)
      PROVE  LockedOut(u)'
  <2>1. v # u
    BY <1>1, <1>5 DEF Create
  <2> QED
    BY <1>5, <2>1 DEF Create, LockedOut, AccountTypes
<1>6. ASSUME NEW v \in Users, NEW actor \in Users \cup {Bootstrap}, NEW r \in Requests,
             NEW update \in Updates, Ask(r, actor, v, update)
      PROVE  (LockedOut(u) \/ AskedBack(u))'
  <2>1. request'[r] = [pc |-> "asked", actor |-> actor, user |-> v, update |-> update]
    BY <1>6 DEF Ask, AccountTypes
  <2>2. \A q \in Requests : q # r => request'[q] = request[q]
    BY <1>6 DEF Ask, AccountTypes
  <2>3. actor \in SuperAdmins /\ UNCHANGED <<user, sessions>>
    BY <1>6 DEF Ask
  <2>4. CASE v = u /\ update.status = "active"
    <3>1. actor = Bootstrap \/ \E s \in sessions : s.user = actor
      BY <2>3 DEF SuperAdmins
    <3>2. CASE actor # u
      BY <2>1, <2>4, <3>2 DEF AskedBack
    <3>3. CASE actor = u
      \* u has no session: the token of the configuration is no user
      BY <3>1, <3>3, AccountsAssumption DEF LockedOut
    <3> QED
      BY <3>2, <3>3
  <2>5. CASE ~(v = u /\ update.status = "active")
    BY <2>1, <2>2, <2>3, <2>5 DEF LockedOut
  <2> QED
    BY <2>4, <2>5
<1>7. ASSUME NEW v \in Users, NEW actor, Disable(actor, v) PROVE LockedOut(u)'
  <2>1. user'[u].status = "disabled"
    BY <1>1, <1>7 DEF Disable, LockedOut, AccountTypes, Account
  <2> QED
    BY <1>7, <2>1 DEF Disable, LockedOut
<1>8. ASSUME NEW r \in Requests, ReadUser(r) PROVE LockedOut(u)'
  <2>1. request'[r] = [pc |-> "read", user |-> request[r].user, update |-> request[r].update,
                       row |-> user[request[r].user]]
    BY <1>8 DEF ReadUser, AccountTypes
  <2>2. \A q \in Requests : q # r => request'[q] = request[q]
    BY <1>8 DEF ReadUser, AccountTypes
  <2>3. request[r] # AtRest /\ UNCHANGED <<user, sessions>>
    BY <1>8 DEF ReadUser, AtRest
  <2> QED
    BY <2>1, <2>2, <2>3 DEF LockedOut
<1>9. ASSUME NEW r \in Requests, WriteUser(r) PROVE LockedOut(u)'
  <2>1. user' = [user EXCEPT ![request[r].user] = Written(r)]
    BY <1>9 DEF WriteUser, Written
  <2>2. user'[u].status = "disabled"
    <3>1. CASE request[r].user # u
      BY <2>1, <3>1 DEF LockedOut, AccountTypes
    <3>2. CASE request[r].user = u
      <4>1. user'[u] = Written(r) /\ Written(r) \in Account
        BY <1>9, <2>1, <3>2, WrittenType DEF WriteUser, AccountTypes
      <4>2. request[r].update.status # "active" /\ request[r].row.status = "disabled"
        BY <1>9, <3>2 DEF WriteUser, LockedOut, AtRest
      <4>3. Written(r).status # "active"
        BY <4>2 DEF Written
      <4> QED
        BY <4>1, <4>3 DEF Account
    <3> QED
      BY <3>1, <3>2
  <2> QED
    BY <1>9, <2>2 DEF WriteUser, LockedOut, AccountTypes, AtRest
<1>10. ASSUME NEW r \in Requests, GiveUp(r) PROVE LockedOut(u)'
  BY <1>10 DEF GiveUp, LockedOut, AccountTypes
<1> QED
  BY <1>2, <1>3, <1>4, <1>5, <1>6, <1>7, <1>8, <1>9, <1>10 DEF AccountsNext

\* An account that was disabled and has no session, login or reviving update left comes back
\* only after another admin has asked for it, whatever runs meanwhile.
THEOREM LockedOutAccountsStay == Spec => LockedOutStays
<1> DEFINE Stays == \A u \in Users : LockedOut(u) => (LockedOut(u) \/ AskedBack(u))'
<1>1. IInv /\ [Next]_vars => [Stays]_accountVars
  BY LockedOutKept DEF IInv, Next, vars, accountVars
<1> QED
  BY <1>1, Inductive, PTL DEF Spec, LockedOutStays

=============================================================================
