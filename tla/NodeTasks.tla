------------------------------ MODULE NodeTasks ------------------------------
(***************************************************************************)
(* Remote tasks: an admin creates them (restart_node is the only kind),    *)
(* the node polls for the next one, the panel claims it for the node in a  *)
(* transaction, the node carries it out and posts the result.              *)
(*                                                                         *)
(* Requests, answers and results get lost, a node that stopped waiting may *)
(* still be served, and the node restarts at any time: by itself, or two   *)
(* seconds after a task told it to.                                        *)
(*                                                                         *)
(* Abstractions.  One node; the panel serves several requests of it at     *)
(* once because it does not know which ones the node has given up.  A row  *)
(* is its status: timestamps, texts and the audit log are left out.        *)
(***************************************************************************)
EXTENDS Naturals

CONSTANTS
  MaxTasks,   \* bound: tasks created
  Handlers,   \* GET /tasks requests the panel serves at once
  None,       \* no task, no request
  MaxBoots    \* bound: restarts of the node

ASSUME NodeTasksAssumption ==
  /\ MaxTasks \in Nat /\ MaxBoots \in Nat
  /\ None \notin Handlers /\ None \notin 1..MaxTasks

Ids == 1..MaxTasks

VARIABLES
  status,      \* node_remote_tasks.status
  claim,       \* the claim_next_node_task transactions
  node,        \* where run_task_loop is
  results,     \* results under way to the panel
  restarting,  \* (sleep 2; systemctl restart xaccel-node) & is running
  boots,       \* restarts so far
  carried_out  \* history: the boot that carried each task out, 0-based

vars == <<status, claim, node, results, restarting, boots, carried_out>>

Status == {"absent", "pending", "running", "succeeded", "failed"}
Claim  == [pc : {"free", "received"}, task : {None}]
          \cup [pc : {"locked", "committed"}, task : Ids]
Node   == [pc : {"idle"}, request : {None}, task : {None}, outcome : {None}]
          \cup [pc : {"waiting"}, request : Handlers, task : {None}, outcome : {None}]
          \cup [pc : {"executing"}, request : {None}, task : Ids, outcome : {None}]
          \cup [pc : {"reporting", "posting"}, request : {None}, task : Ids,
                outcome : {"succeeded", "failed"}]
Result == [task : Ids, status : {"succeeded", "failed"}]

Free == [pc |-> "free", task |-> None]
Idle == [pc |-> "idle", request |-> None, task |-> None, outcome |-> None]

\* The node holds a task: it is yet to be executed, or reported.
Holding(pc, i, outcome) == [pc |-> pc, request |-> None, task |-> i, outcome |-> outcome]

-----------------------------------------------------------------------------
(***************************************************************************)
(* Slips: what a plausible mistake would make of a definition below.  No   *)
(* action uses them; the mutants of PROJECT.json substitute them to show   *)
(* that a property notices.                                                *)
(***************************************************************************)
Unlocked(i)      == FALSE
NewestFirst      == {i \in Ids : status[i] = "pending" /\ \A j \in Ids :
                                   status[j] = "pending" => j <= i}
OldestUnfinished == {i \in Ids : status[i] = "pending" /\ \A j \in Ids :
                                   j < i => status[j] \in {"succeeded", "failed"}}
ForgottenRestart == restarting
LateAnswer(h, answered)  == node' = [answered EXCEPT !.request = node.request]

-----------------------------------------------------------------------------
(* The panel *)

Pending(i) == status[i] = "pending"

\* insert_admin_node_task
CreateTask(i) ==
  /\ status[i] = "absent" /\ \A j \in Ids : j < i => status[j] # "absent"
  /\ status' = [status EXCEPT ![i] = "pending"]
  /\ UNCHANGED <<claim, node, results, restarting, boots, carried_out>>

\* fetch_and_execute_tasks gets an answer to its request, if it still waits for it.
Answer(h, answered) == node' = IF node.request = h THEN answered ELSE node

\* Another transaction holds the row: FOR UPDATE waits for it.
Locked(i) == \E h \in Handlers : claim[h].pc = "locked" /\ claim[h].task = i

\* ORDER BY id ASC LIMIT 1
Oldest == {i \in Ids : Pending(i) /\ \A j \in Ids : Pending(j) => i <= j}

\* claim_next_node_task: SELECT .. FOR UPDATE
SelectTask(h) ==
  /\ claim[h].pc = "received"
  /\ \/ /\ Oldest = {}
        /\ claim' = [claim EXCEPT ![h] = Free]
        /\ Answer(h, Idle)
     \/ /\ \E i \in Oldest : ~Locked(i)
                             /\ claim' = [claim EXCEPT ![h] = [pc |-> "locked", task |-> i]]
        /\ UNCHANGED node
  /\ UNCHANGED <<status, results, restarting, boots, carried_out>>

\* UPDATE and COMMIT
CommitClaim(h) ==
  /\ claim[h].pc = "locked"
  /\ status' = [status EXCEPT ![claim[h].task] = "running"]
  /\ claim' = [claim EXCEPT ![h].pc = "committed"]
  /\ UNCHANGED <<node, results, restarting, boots, carried_out>>

\* The request is refused or its transaction rolled back (signature, database, panel
\* restart): the node gets an error, or nothing.
AbortClaim(h) ==
  /\ claim[h].pc \in {"received", "locked"}
  /\ claim' = [claim EXCEPT ![h] = Free]
  /\ UNCHANGED node \/ Answer(h, Idle)
  /\ UNCHANGED <<status, results, restarting, boots, carried_out>>

\* node_tasks answers; a node that waits no more does not hear it.
RespondClaim(h) ==
  /\ claim[h].pc = "committed"
  /\ claim' = [claim EXCEPT ![h] = Free]
  /\ Answer(h, Holding("executing", claim[h].task, None))
  /\ UNCHANGED <<status, results, restarting, boots, carried_out>>

LoseResponse(h) ==
  /\ claim[h].pc = "committed"
  /\ claim' = [claim EXCEPT ![h] = Free]
  /\ UNCHANGED <<status, node, results, restarting, boots, carried_out>>

\* AND status IN ('pending', 'running')
Open(i) == status[i] \in {"pending", "running"}

\* update_node_task_result: a result for a finished task is a 404.
StoreResult(r) ==
  /\ r \in results
  /\ results' = results \ {r}
  /\ status' = [status EXCEPT ![r.task] = IF Open(r.task) THEN r.status ELSE @]
  /\ UNCHANGED <<claim, node, restarting, boots, carried_out>>

LoseResult(r) ==
  /\ r \in results
  /\ results' = results \ {r}
  /\ UNCHANGED <<status, claim, node, restarting, boots, carried_out>>

-----------------------------------------------------------------------------
(* The task loop of the node: fetch_and_execute_tasks *)

PollTasks(h) ==
  /\ node.pc = "idle" /\ claim[h].pc = "free"
  /\ node' = [pc |-> "waiting", request |-> h, task |-> None, outcome |-> None]
  /\ claim' = [claim EXCEPT ![h].pc = "received"]
  /\ UNCHANGED <<status, results, restarting, boots, carried_out>>

\* request_timeout_sec
PollTimesOut ==
  /\ node.pc = "waiting"
  /\ node' = Idle
  /\ UNCHANGED <<status, claim, results, restarting, boots, carried_out>>

\* schedule_node_restart leaves a shell behind and returns.
Scheduled == TRUE

\* execute_remote_task
Execute ==
  /\ node.pc = "executing"
  /\ \/ /\ restarting' = Scheduled
        /\ carried_out' = [carried_out EXCEPT ![node.task] = @ \cup {boots}]
        /\ node' = Holding("reporting", node.task, "succeeded")
     \/ /\ node' = Holding("reporting", node.task, "failed")
        /\ UNCHANGED <<restarting, carried_out>>
  /\ UNCHANGED <<status, claim, results, boots>>

\* send_task_result
SendResult ==
  /\ node.pc = "reporting"
  /\ results' = results \cup {[task |-> node.task, status |-> node.outcome]}
  /\ node' = [node EXCEPT !.pc = "posting"]
  /\ UNCHANGED <<status, claim, restarting, boots, carried_out>>

\* An answer, an error or the time-out: the node never tries again.
ResultDone ==
  /\ node.pc = "posting"
  /\ node' = Idle
  /\ UNCHANGED <<status, claim, results, restarting, boots, carried_out>>

\* The process dies and systemd starts it again; the shell that waits to restart it
\* is in its control group and dies with it.
Restart ==
  /\ boots < MaxBoots
  /\ boots' = boots + 1
  /\ node' = Idle
  /\ restarting' = FALSE
  /\ UNCHANGED <<status, claim, results, carried_out>>

Init ==
  /\ status = [i \in Ids |-> "absent"]
  /\ claim = [h \in Handlers |-> Free]
  /\ node = Idle
  /\ results = {}
  /\ restarting = FALSE
  /\ boots = 0
  /\ carried_out = [i \in Ids |-> {}]

Serve(h) ==
  \/ SelectTask(h) \/ CommitClaim(h) \/ AbortClaim(h) \/ RespondClaim(h) \/ LoseResponse(h)

Next ==
  \/ \E i \in Ids : CreateTask(i)
  \/ \E h \in Handlers : PollTasks(h) \/ Serve(h)
  \/ \E r \in results : StoreResult(r) \/ LoseResult(r)
  \/ PollTimesOut \/ Execute \/ SendResult \/ ResultDone
  \/ Restart

Spec == Init /\ [][Next]_vars

\* The loop ticks for ever, a request is served or given up, and not every poll is
\* refused before it claims.
Fairness ==
  /\ SF_vars(\E h \in Handlers : PollTasks(h))
  /\ \A h \in Handlers : /\ SF_vars(SelectTask(h)) /\ SF_vars(CommitClaim(h))
                         /\ WF_vars(RespondClaim(h) \/ LoseResponse(h))
  /\ WF_vars(PollTimesOut) /\ WF_vars(Execute) /\ WF_vars(SendResult)
  /\ WF_vars(ResultDone)

FairSpec == Spec /\ Fairness

-----------------------------------------------------------------------------
(* Correctness *)

TypeOK ==
  /\ status \in [Ids -> Status]
  /\ claim \in [Handlers -> Claim]
  /\ node \in Node
  /\ results \subseteq Result
  /\ restarting \in BOOLEAN
  /\ boots \in 0..MaxBoots
  /\ carried_out \in [Ids -> SUBSET (0..MaxBoots)]

\* What an operator may rely on, whatever is lost, late or restarted: TaskQueue.
Done == {i \in Ids : carried_out[i] # {}}

Queue == INSTANCE TaskQueue WITH done <- Done

ImplementsQueue == Queue!Spec

\* No task is handed out twice, although a node that gave up a poll asks again while
\* the first is still being served: the row lock of FOR UPDATE is what prevents it.
HandedOutOnce ==
  [][\A h \in Handlers : CommitClaim(h) => status[claim[h].task] = "pending"]_vars

\* A result says what happened, and it is told before the restart: of a task that is
\* said to have succeeded, the restart is under way or the node came up since.
SucceededMeansRestart ==
  \A i \in Ids : status[i] = "succeeded" =>
    \E b \in carried_out[i] : restarting \/ boots > b

\* A lost answer or a task that is never heard of again does not hold up the tasks
\* behind it.
TasksHandedOut == \A i \in Ids : Pending(i) ~> ~Pending(i)

=============================================================================
