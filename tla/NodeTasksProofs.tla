-------------------------- MODULE NodeTasksProofs --------------------------
(***************************************************************************)
(* Proofs about NodeTasks, for any number of tasks, requests and restarts: *)
(* types, single hand-out, truthful success, and that the panel and the    *)
(* node implement TaskQueue.                                               *)
(*                                                                         *)
(* A running task that was not heard of yet is in at most one place: a     *)
(* committed claim whose answer is due, the hands of the node, or a result *)
(* under way.  Each place knows whether the task was carried out.          *)
(***************************************************************************)
EXTENDS NodeTasks, TLAPS

\* Tasks are created in order, and none is carried out before it is handed out.
CreatedInOrder ==
  \A i, j \in Ids : (j < i /\ status[j] = "absent") => status[i] = "absent"

NotYetDone ==
  \A i \in Ids : status[i] \in {"absent", "pending"} => carried_out[i] = {}

\* What a transaction that holds a row lock has read is still so.
LockHolds ==
  \A h \in Handlers : claim[h].pc = "locked" =>
    /\ status[claim[h].task] = "pending"
    /\ \A j \in Ids : j < claim[h].task => status[j] \notin {"absent", "pending"}

Fresh(i) == status[i] = "running" /\ carried_out[i] = {}

Told(i, outcome) == status[i] = "running" /\ (outcome = "succeeded" <=> carried_out[i] # {})

CommittedFresh == \A h \in Handlers : claim[h].pc = "committed" => Fresh(claim[h].task)

NodeKnows ==
  /\ node.pc = "executing" => Fresh(node.task)
  /\ node.pc = "reporting" => Told(node.task, node.outcome)

ResultsKnow == \A r \in results : Told(r.task, r.status)

InHand(i) == node.pc \in {"executing", "reporting"} /\ node.task = i

\* The three places a running task can be in exclude each other.
OnePlace ==
  /\ \A g, h \in Handlers :
       (g # h /\ claim[g].pc \in {"locked", "committed"}
              /\ claim[h].pc \in {"locked", "committed"}) => claim[g].task # claim[h].task
  /\ \A h \in Handlers : claim[h].pc = "committed" =>
       ~InHand(claim[h].task) /\ \A r \in results : r.task # claim[h].task
  /\ \A r \in results : ~InHand(r.task) /\ \A s \in results : s.task = r.task => s = r

\* A restart a task asked for has happened or is under way.
RestartDue ==
  \A i \in Ids : \A b \in carried_out[i] : b < boots \/ (b = boots /\ restarting)

SucceededDone == \A i \in Ids : status[i] = "succeeded" => carried_out[i] # {}

IInv ==
  /\ TypeOK
  /\ CreatedInOrder /\ NotYetDone /\ LockHolds
  /\ CommittedFresh /\ NodeKnows /\ ResultsKnow /\ OnePlace
  /\ RestartDue /\ SucceededDone

-----------------------------------------------------------------------------

LEMMA InitInv == Init => IInv
<1> SUFFICES ASSUME Init PROVE IInv
  OBVIOUS
<1> USE DEF Init, Free, Idle
<1>1. TypeOK
  <2>1. Free \in Claim
    BY DEF Claim
  <2>2. Idle \in Node
    BY DEF Node
  <2>3. boots \in 0..MaxBoots
    BY NodeTasksAssumption
  <2> QED
    BY <2>1, <2>2, <2>3 DEF TypeOK, Status
<1>2. CreatedInOrder /\ NotYetDone /\ LockHolds
  BY DEF CreatedInOrder, NotYetDone, LockHolds
<1>3. CommittedFresh /\ NodeKnows /\ ResultsKnow /\ OnePlace
  BY DEF CommittedFresh, NodeKnows, ResultsKnow, OnePlace
<1>4. RestartDue /\ SucceededDone
  BY DEF RestartDue, SucceededDone
<1> QED
  BY <1>1, <1>2, <1>3, <1>4 DEF IInv

-----------------------------------------------------------------------------
(* Types *)

\* Records of the two program counters, field by field.
LEMMA Shapes ==
  ASSUME TypeOK
  PROVE  /\ Free \in Claim /\ Idle \in Node
         /\ \A h \in Handlers : claim[h] \in Claim
         /\ \A h \in Handlers : claim[h].pc \in {"locked", "committed"} => claim[h].task \in Ids
         /\ node.pc = "waiting" => node.request \in Handlers
         /\ node.pc # "waiting" => node.request = None
         /\ node.pc \in {"executing", "reporting"} => node.task \in Ids
         /\ node.pc = "reporting" => node.outcome \in {"succeeded", "failed"}
<1> USE DEF TypeOK
<1>1. Free \in Claim
  BY DEF Free, Claim
<1>2. Idle \in Node
  BY DEF Idle, Node
<1>3. \A h \in Handlers : claim[h] \in Claim
  OBVIOUS
<1>4. \A h \in Handlers : claim[h].pc \in {"locked", "committed"} => claim[h].task \in Ids
  BY <1>3 DEF Claim
<1>5. /\ node.pc = "waiting" => node.request \in Handlers
      /\ node.pc # "waiting" => node.request = None
      /\ node.pc \in {"executing", "reporting"} => node.task \in Ids
      /\ node.pc = "reporting" => node.outcome \in {"succeeded", "failed"}
  BY DEF Node
<1> QED
  BY <1>1, <1>2, <1>3, <1>4, <1>5

\* Whoever gets an answer to request h is a node again.
LEMMA AnswerType ==
  ASSUME TypeOK, NEW h \in Handlers, NEW answered \in Node, Answer(h, answered)
  PROVE  node' \in Node
BY DEF Answer, TypeOK

-----------------------------------------------------------------------------
(* The steps *)

\* Requests, answers and results that come to an end, and restarts: no task moves
\* and no new place knows of one.
LEMMA QuietStep ==
  ASSUME IInv, TypeOK', UNCHANGED <<status, carried_out>>,
         \A h \in Handlers : claim'[h].pc \in {"locked", "committed"} => claim'[h] = claim[h],
         node' = node \/ node'.pc \notin {"executing", "reporting"},
         results' \subseteq results,
         \/ UNCHANGED <<boots, restarting>>
         \/ boots' = boots + 1
  PROVE  IInv'
<1> USE DEF IInv
<1>1. CreatedInOrder' /\ NotYetDone' /\ SucceededDone'
  BY DEF CreatedInOrder, NotYetDone, SucceededDone
<1>2. LockHolds'
  BY DEF LockHolds
<1>3. CommittedFresh' /\ NodeKnows' /\ ResultsKnow'
  BY DEF CommittedFresh, NodeKnows, ResultsKnow, Fresh, Told
<1>4. \A i : InHand(i)' => InHand(i)
  BY DEF InHand
<1>5. OnePlace'
  BY <1>4 DEF OnePlace
<1>6. RestartDue'
  BY DEF RestartDue, TypeOK
<1> QED
  BY <1>1, <1>2, <1>3, <1>5, <1>6

LEMMA CreateTaskInv ==
  ASSUME IInv, NEW i \in Ids, CreateTask(i) PROVE IInv'
<1> USE DEF IInv
<1>1. /\ status \in [Ids -> Status] /\ status[i] = "absent"
      /\ status' = [status EXCEPT ![i] = "pending"]
      /\ \A j \in Ids : j < i => status[j] # "absent"
      /\ UNCHANGED <<claim, node, results, restarting, boots, carried_out>>
  BY DEF CreateTask, TypeOK
<1>2. \A j \in Ids : status'[j] = IF j = i THEN "pending" ELSE status[j]
  BY <1>1
<1>3. TypeOK'
  BY <1>1 DEF TypeOK, Status
<1>4. \A j \in Ids : i < j => status[j] = "absent"
  BY <1>1 DEF CreatedInOrder
<1>5. CreatedInOrder'
  BY <1>1, <1>2 DEF CreatedInOrder, Ids
<1>6. NotYetDone' /\ SucceededDone'
  BY <1>1, <1>2 DEF NotYetDone, SucceededDone
<1>7. LockHolds'
  <2> SUFFICES ASSUME NEW h \in Handlers, claim[h].pc = "locked"
               PROVE  /\ status'[claim[h].task] = "pending"
                      /\ \A j \in Ids : j < claim[h].task =>
                           status'[j] \notin {"absent", "pending"}
    BY <1>1 DEF LockHolds
  <2>1. claim[h].task \in Ids
    BY Shapes
  <2>2. claim[h].task # i /\ ~(i < claim[h].task)
    BY <1>1, <2>1 DEF LockHolds
  <2> QED
    BY <1>2, <2>1, <2>2 DEF LockHolds
<1>8. \A j \in Ids : status[j] = "running" => status'[j] = "running"
  BY <1>1, <1>2
<1>9. CommittedFresh' /\ NodeKnows' /\ ResultsKnow'
  BY <1>1, <1>8, Shapes DEF CommittedFresh, NodeKnows, ResultsKnow, Fresh, Told, TypeOK, Result
<1>10. OnePlace' /\ RestartDue'
  BY <1>1 DEF OnePlace, InHand, RestartDue
<1> QED
  BY <1>3, <1>5, <1>6, <1>7, <1>9, <1>10

LEMMA SelectTaskInv ==
  ASSUME IInv, NEW h \in Handlers, SelectTask(h) PROVE IInv'
<1> USE DEF IInv
<1>1. /\ claim \in [Handlers -> Claim] /\ claim[h].pc = "received"
      /\ UNCHANGED <<status, results, restarting, boots, carried_out>>
  BY DEF SelectTask, TypeOK
<1>2. CASE claim' = [claim EXCEPT ![h] = Free] /\ Answer(h, Idle)
  <2>1. TypeOK'
    BY <1>1, <1>2, Shapes, AnswerType DEF TypeOK
  <2>2. \A g \in Handlers : claim'[g].pc \in {"locked", "committed"} => claim'[g] = claim[g]
    BY <1>1, <1>2 DEF Free
  <2>3. node' = node \/ node'.pc \notin {"executing", "reporting"}
    BY <1>2 DEF Answer, Idle
  <2> QED
    BY <1>1, <2>1, <2>2, <2>3, QuietStep
<1>3. ASSUME NEW i \in Oldest, ~Locked(i),
             claim' = [claim EXCEPT ![h] = [pc |-> "locked", task |-> i]],
             UNCHANGED node
      PROVE  IInv'
  <2>1. i \in Ids /\ status[i] = "pending" /\ \A j \in Ids : j < i => status[j] # "pending"
    BY <1>3 DEF Oldest, Pending, Ids
  <2>2. \A g \in Handlers :
          claim'[g] = IF g = h THEN [pc |-> "locked", task |-> i] ELSE claim[g]
    BY <1>1, <1>3
  <2>3. TypeOK'
    <3>1. [pc |-> "locked", task |-> i] \in Claim
      BY <2>1 DEF Claim
    <3> QED
      BY <1>1, <1>3, <3>1 DEF TypeOK
  <2>4. LockHolds'
    <3>1. \A j \in Ids : j < i => status[j] # "absent"
      BY <2>1 DEF CreatedInOrder
    <3> QED
      BY <1>1, <2>1, <2>2, <3>1 DEF LockHolds
  <2>5. CreatedInOrder' /\ NotYetDone' /\ SucceededDone' /\ RestartDue'
    BY <1>1 DEF CreatedInOrder, NotYetDone, SucceededDone, RestartDue
  <2>6. CommittedFresh' /\ NodeKnows' /\ ResultsKnow'
    BY <1>1, <1>3, <2>2 DEF CommittedFresh, NodeKnows, ResultsKnow, Fresh, Told
  <2>7. \A g \in Handlers : claim[g].pc \in {"locked", "committed"} => claim[g].task # i
    BY <1>3, <2>1 DEF Locked, CommittedFresh, Fresh
  <2>8. OnePlace'
    BY <1>1, <1>3, <2>2, <2>7 DEF OnePlace, InHand
  <2> QED
    BY <2>3, <2>4, <2>5, <2>6, <2>8
<1> QED
  BY <1>2, <1>3 DEF SelectTask

LEMMA CommitClaimInv ==
  ASSUME IInv, NEW h \in Handlers, CommitClaim(h) PROVE IInv'
<1> USE DEF IInv
<1> DEFINE i == claim[h].task
<1>1. /\ claim \in [Handlers -> Claim] /\ claim[h].pc = "locked"
      /\ status \in [Ids -> Status] /\ i \in Ids
      /\ status' = [status EXCEPT ![i] = "running"]
      /\ claim' = [claim EXCEPT ![h].pc = "committed"]
      /\ UNCHANGED <<node, results, restarting, boots, carried_out>>
  BY Shapes DEF CommitClaim, TypeOK
<1>2. status[i] = "pending" /\ carried_out[i] = {}
  BY <1>1 DEF LockHolds, NotYetDone
<1> HIDE DEF i
<1>3. \A j \in Ids : status'[j] = IF j = i THEN "running" ELSE status[j]
  BY <1>1
<1>4. /\ \A g \in Handlers : g # h => claim'[g] = claim[g]
      /\ claim'[h] = [pc |-> "committed", task |-> i]
  <2>1. claim[h] = [pc |-> "locked", task |-> i]
    BY <1>1 DEF Claim, i
  <2> QED
    BY <1>1, <2>1
<1>5. TypeOK'
  <2>1. claim'[h] \in Claim
    BY <1>1, <1>4 DEF Claim
  <2> QED
    BY <1>1, <1>4, <2>1 DEF TypeOK, Status
<1>6. CreatedInOrder' /\ NotYetDone' /\ SucceededDone' /\ RestartDue'
  BY <1>1, <1>2, <1>3 DEF CreatedInOrder, NotYetDone, SucceededDone, RestartDue
<1>7. \A g \in Handlers : (g # h /\ claim[g].pc \in {"locked", "committed"}) => claim[g].task # i
  BY <1>1 DEF OnePlace, i
<1>8. LockHolds'
  BY <1>1, <1>3, <1>4, <1>7, Shapes DEF LockHolds
<1>9. CommittedFresh'
  <2>1. ASSUME NEW g \in Handlers, claim'[g].pc = "committed" 
        PROVE  status'[claim'[g].task] = "running" /\ carried_out'[claim'[g].task] = {}
    <3>1. CASE g = h
      BY <1>1, <1>2, <1>3, <1>4, <3>1 DEF Fresh
    <3>2. CASE g # h
      <4>1. claim'[g] = claim[g] /\ claim[g].pc = "committed" /\ claim[g].task \in Ids
        BY <1>4, <2>1, <3>2, Shapes
      <4> QED
        BY <1>1, <1>3, <1>7, <3>2, <4>1 DEF CommittedFresh, Fresh
    <3> QED
      BY <3>1, <3>2
  <2> QED
    BY <2>1 DEF CommittedFresh, Fresh
<1>10. ~InHand(i) /\ \A r \in results : r.task # i
  BY <1>2 DEF InHand, NodeKnows, Fresh, ResultsKnow, Told
<1>11. NodeKnows' /\ ResultsKnow'
  BY <1>1, <1>3, <1>10, Shapes DEF NodeKnows, ResultsKnow, Fresh, Told, InHand, TypeOK, Result
<1>12. OnePlace'
  BY <1>1, <1>4, <1>7, <1>10 DEF OnePlace, InHand
<1> QED
  BY <1>5, <1>6, <1>8, <1>9, <1>11, <1>12

LEMMA AbortClaimInv ==
  ASSUME IInv, NEW h \in Handlers, AbortClaim(h) PROVE IInv'
<1> USE DEF IInv
<1>1. /\ claim \in [Handlers -> Claim]
      /\ claim' = [claim EXCEPT ![h] = Free]
      /\ node' = node \/ Answer(h, Idle)
      /\ UNCHANGED <<status, results, restarting, boots, carried_out>>
  BY DEF AbortClaim, TypeOK
<1>2. TypeOK'
  BY <1>1, Shapes, AnswerType DEF TypeOK
<1>3. \A g \in Handlers : claim'[g].pc \in {"locked", "committed"} => claim'[g] = claim[g]
  BY <1>1 DEF Free
<1>4. node' = node \/ node'.pc \notin {"executing", "reporting"}
  BY <1>1 DEF Answer, Idle
<1> QED
  BY <1>1, <1>2, <1>3, <1>4, QuietStep

\* The answer puts the task into the hands of the node that asked, or nowhere.
LEMMA RespondClaimInv ==
  ASSUME IInv, NEW h \in Handlers, RespondClaim(h) PROVE IInv'
<1> USE DEF IInv
<1> DEFINE i == claim[h].task
           work == Holding("executing", i, None)
<1>1. /\ claim \in [Handlers -> Claim] /\ claim[h].pc = "committed" /\ i \in Ids
      /\ claim' = [claim EXCEPT ![h] = Free]
      /\ Answer(h, work)
      /\ UNCHANGED <<status, results, restarting, boots, carried_out>>
  BY Shapes DEF RespondClaim, TypeOK
<1>2. work = [pc |-> "executing", request |-> None, task |-> i, outcome |-> None]
  BY DEF Holding
<1>3. work \in Node
  BY <1>1, <1>2 DEF Node
<1>4. TypeOK'
  BY <1>1, <1>3, Shapes, AnswerType DEF TypeOK
<1>5. \A g \in Handlers : claim'[g].pc \in {"locked", "committed"} =>
        claim'[g] = claim[g] /\ g # h
  BY <1>1 DEF Free
<1>6. CASE node' = node
  BY <1>1, <1>4, <1>5, <1>6, QuietStep
<1>7. CASE node' # node
  <2>1. node' = work /\ Fresh(i)
    BY <1>1, <1>7 DEF Answer, CommittedFresh
  <2>2. CreatedInOrder' /\ NotYetDone' /\ SucceededDone' /\ RestartDue'
    BY <1>1 DEF CreatedInOrder, NotYetDone, SucceededDone, RestartDue
  <2>3. LockHolds' /\ CommittedFresh'
    BY <1>1, <1>5 DEF LockHolds, CommittedFresh, Fresh
  <2>4. NodeKnows' /\ ResultsKnow'
    BY <1>1, <1>2, <2>1 DEF NodeKnows, ResultsKnow, Fresh, Told
  <2>5. \A j : InHand(j)' <=> j = i
    BY <1>2, <2>1 DEF InHand
  <2>6. OnePlace'
    <3>1. \A g \in Handlers : claim'[g].pc = "committed" => claim'[g].task # i
      BY <1>1, <1>5 DEF OnePlace
    <3>2. \A r \in results : r.task # i
      BY <1>1 DEF OnePlace
    <3> QED
      BY <1>1, <1>5, <2>5, <3>1, <3>2 DEF OnePlace
  <2> QED
    BY <1>4, <2>2, <2>3, <2>4, <2>6
<1> QED
  BY <1>6, <1>7

LEMMA LoseResponseInv ==
  ASSUME IInv, NEW h \in Handlers, LoseResponse(h) PROVE IInv'
<1> USE DEF IInv
<1>1. /\ claim' = [claim EXCEPT ![h] = Free]
      /\ UNCHANGED <<status, node, results, restarting, boots, carried_out>>
  BY DEF LoseResponse
<1>2. TypeOK'
  BY <1>1, Shapes DEF TypeOK
<1>3. \A g \in Handlers : claim'[g].pc \in {"locked", "committed"} => claim'[g] = claim[g]
  BY <1>1 DEF Free, TypeOK
<1> QED
  BY <1>1, <1>2, <1>3, QuietStep

LEMMA StoreResultInv ==
  ASSUME IInv, NEW r \in results, StoreResult(r) PROVE IInv'
<1> USE DEF IInv
<1>1. /\ status \in [Ids -> Status] /\ results \subseteq Result
      /\ r.task \in Ids /\ r.status \in {"succeeded", "failed"}
      /\ results' = results \ {r}
      /\ UNCHANGED <<claim, node, restarting, boots, carried_out>>
  BY DEF StoreResult, TypeOK, Result
<1>2. Told(r.task, r.status)
  BY DEF ResultsKnow
<1>3. status' = [status EXCEPT ![r.task] = r.status]
  BY <1>2 DEF StoreResult, Open, Told
<1>4. \A j \in Ids : status'[j] = IF j = r.task THEN r.status ELSE status[j]
  BY <1>1, <1>3
<1>5. TypeOK'
  BY <1>1, <1>3 DEF TypeOK, Status
<1>6. CreatedInOrder' /\ NotYetDone' /\ SucceededDone' /\ RestartDue'
  BY <1>1, <1>2, <1>4
     DEF CreatedInOrder, NotYetDone, SucceededDone, RestartDue, Told
<1>7. LockHolds'
  <2>1. ASSUME NEW h \in Handlers, claim[h].pc = "locked"
        PROVE  claim[h].task \in Ids /\ claim[h].task # r.task
    BY <1>2, <2>1, Shapes DEF LockHolds, Told
  <2> QED
    BY <1>1, <1>4, <2>1 DEF LockHolds
<1>8. CommittedFresh'
  <2>1. ASSUME NEW h \in Handlers, claim[h].pc = "committed"
        PROVE  claim[h].task \in Ids /\ claim[h].task # r.task
    BY <2>1, Shapes DEF OnePlace
  <2> QED
    BY <1>1, <1>4, <2>1 DEF CommittedFresh, Fresh
<1>9. NodeKnows'
  <2>1. node.pc \in {"executing", "reporting"} => node.task \in Ids /\ node.task # r.task
    BY Shapes DEF OnePlace, InHand
  <2> QED
    BY <1>1, <1>4, <2>1 DEF NodeKnows, Fresh, Told
<1>10. ResultsKnow'
  <2>1. ASSUME NEW s \in results, s # r PROVE s.task \in Ids /\ s.task # r.task
    BY <1>1, <2>1 DEF OnePlace, Result
  <2> QED
    BY <1>1, <1>4, <2>1 DEF ResultsKnow, Told
<1>11. OnePlace'
  BY <1>1 DEF OnePlace, InHand
<1> QED
  BY <1>5, <1>6, <1>7, <1>8, <1>9, <1>10, <1>11

LEMMA LoseResultInv ==
  ASSUME IInv, NEW r \in results, LoseResult(r) PROVE IInv'
<1> USE DEF IInv
<1>1. /\ results' = results \ {r}
      /\ UNCHANGED <<status, claim, node, restarting, boots, carried_out>>
  BY DEF LoseResult
<1>2. TypeOK'
  BY <1>1 DEF TypeOK
<1> QED
  BY <1>1, <1>2, QuietStep

LEMMA PollTasksInv ==
  ASSUME IInv, NEW h \in Handlers, PollTasks(h) PROVE IInv'
<1> USE DEF IInv
<1>1. /\ claim \in [Handlers -> Claim] /\ claim[h].pc = "free"
      /\ node' = [pc |-> "waiting", request |-> h, task |-> None, outcome |-> None]
      /\ claim' = [claim EXCEPT ![h].pc = "received"]
      /\ UNCHANGED <<status, results, restarting, boots, carried_out>>
  BY DEF PollTasks, TypeOK
<1>2. /\ \A g \in Handlers : g # h => claim'[g] = claim[g]
      /\ claim'[h] = [pc |-> "received", task |-> None]
  <2>1. claim[h] = [pc |-> "free", task |-> None]
    BY <1>1 DEF Claim
  <2> QED
    BY <1>1, <2>1
<1>3. TypeOK'
  <2>1. node' \in Node /\ claim'[h] \in Claim
    BY <1>1, <1>2 DEF Node, Claim
  <2> QED
    BY <1>1, <1>2, <2>1 DEF TypeOK
<1>4. \A g \in Handlers : claim'[g].pc \in {"locked", "committed"} => claim'[g] = claim[g]
  BY <1>2
<1> QED
  BY <1>1, <1>3, <1>4, QuietStep

LEMMA NodeIdlesInv ==
  ASSUME IInv, PollTimesOut \/ ResultDone PROVE IInv'
<1> USE DEF IInv
<1>1. /\ node' = Idle
      /\ UNCHANGED <<status, claim, results, restarting, boots, carried_out>>
  BY DEF PollTimesOut, ResultDone
<1>2. TypeOK'
  BY <1>1, Shapes DEF TypeOK
<1> QED
  BY <1>1, <1>2, QuietStep DEF Idle

LEMMA RestartInv ==
  ASSUME IInv, Restart PROVE IInv'
<1> USE DEF IInv
<1>1. /\ boots \in 0..MaxBoots /\ boots < MaxBoots
      /\ boots' = boots + 1 /\ node' = Idle /\ restarting' = FALSE
      /\ UNCHANGED <<status, claim, results, carried_out>>
  BY DEF Restart, TypeOK
<1>2. TypeOK'
  <2>1. boots' \in 0..MaxBoots
    BY <1>1, NodeTasksAssumption
  <2> QED
    BY <1>1, <2>1, Shapes DEF TypeOK
<1> QED
  BY <1>1, <1>2, QuietStep DEF Idle

LEMMA ExecuteInv ==
  ASSUME IInv, Execute PROVE IInv'
<1> USE DEF IInv
<1> DEFINE i == node.task
<1>1. /\ node.pc = "executing" /\ i \in Ids /\ Fresh(i) /\ InHand(i)
      /\ UNCHANGED <<status, claim, results, boots>>
  BY Shapes DEF Execute, NodeKnows, InHand
<1>2. PICK outcome \in {"succeeded", "failed"} :
        /\ node' = Holding("reporting", i, outcome)
        /\ outcome = "succeeded" => restarting' = TRUE
             /\ carried_out' = [carried_out EXCEPT ![i] = @ \cup {boots}]
        /\ outcome = "failed" => UNCHANGED <<restarting, carried_out>>
  BY DEF Execute, Scheduled
<1>3. node'.pc = "reporting" /\ node'.task = i /\ node'.outcome = outcome /\ node' \in Node
  BY <1>1, <1>2 DEF Holding, Node
<1>4. /\ carried_out \in [Ids -> SUBSET (0..MaxBoots)] /\ boots \in 0..MaxBoots
      /\ restarting \in BOOLEAN
  BY DEF TypeOK
<1>5. /\ \A j \in Ids : j # i => carried_out'[j] = carried_out[j]
      /\ outcome = "succeeded" => carried_out'[i] = {boots}
      /\ outcome = "failed" => carried_out'[i] = {}
  BY <1>1, <1>2, <1>4 DEF Fresh
<1> HIDE DEF i
<1>6. TypeOK'
  <2>1. carried_out' \in [Ids -> SUBSET (0..MaxBoots)] /\ restarting' \in BOOLEAN
    BY <1>1, <1>2, <1>4
  <2> QED
    BY <1>1, <1>3, <2>1 DEF TypeOK
<1>7. CreatedInOrder' /\ LockHolds'
  BY <1>1 DEF CreatedInOrder, LockHolds
<1>8. NotYetDone' /\ SucceededDone'
  BY <1>1, <1>5 DEF NotYetDone, SucceededDone, Fresh
<1>9. RestartDue'
  <2>1. ASSUME NEW j \in Ids, NEW b \in carried_out'[j]
        PROVE  b < boots \/ (b = boots /\ restarting')
    <3>1. CASE j = i
      BY <1>2, <1>5, <2>1, <3>1
    <3>2. CASE j # i
      BY <1>2, <1>4, <1>5, <2>1, <3>2 DEF RestartDue
    <3> QED
      BY <3>1, <3>2
  <2> QED
    BY <1>1, <2>1 DEF RestartDue
<1>10. \A h \in Handlers : claim[h].pc = "committed" => claim[h].task \in Ids /\ claim[h].task # i
  BY <1>1, Shapes DEF OnePlace
<1>11. \A r \in results : r.task \in Ids /\ r.task # i
  BY <1>1 DEF OnePlace, TypeOK, Result
<1>12. CommittedFresh' /\ ResultsKnow'
  BY <1>1, <1>5, <1>10, <1>11 DEF CommittedFresh, ResultsKnow, Fresh, Told
<1>13. NodeKnows'
  BY <1>1, <1>3, <1>5 DEF NodeKnows, Fresh, Told
<1>14. \A j : InHand(j)' <=> InHand(j)
  BY <1>1, <1>3 DEF InHand, i
<1>15. OnePlace'
  BY <1>1, <1>14 DEF OnePlace
<1> QED
  BY <1>6, <1>7, <1>8, <1>9, <1>12, <1>13, <1>15

LEMMA SendResultInv ==
  ASSUME IInv, SendResult PROVE IInv'
<1> USE DEF IInv
<1> DEFINE r == [task |-> node.task, status |-> node.outcome]
<1>1. /\ node.pc = "reporting" /\ r \in Result /\ InHand(r.task)
      /\ results' = results \cup {r} /\ node' = [node EXCEPT !.pc = "posting"]
      /\ UNCHANGED <<status, claim, restarting, boots, carried_out>>
  BY Shapes DEF SendResult, InHand, Result
<1>2. Told(r.task, r.status)
  BY <1>1 DEF NodeKnows
<1>3. node'.pc = "posting" /\ node' \in Node
  <2>1. node = [pc |-> "reporting", request |-> None, task |-> node.task,
                outcome |-> node.outcome]
    BY <1>1 DEF TypeOK, Node
  <2>2. node' = [pc |-> "posting", request |-> None, task |-> node.task,
                 outcome |-> node.outcome]
    BY <1>1, <2>1
  <2> QED
    BY <1>1, <2>2, Shapes DEF Node
<1>4. \A j : ~InHand(j)'
  BY <1>3 DEF InHand
<1>5. TypeOK'
  BY <1>1, <1>3 DEF TypeOK
<1>6. CreatedInOrder' /\ NotYetDone' /\ LockHolds' /\ SucceededDone' /\ RestartDue'
  BY <1>1 DEF CreatedInOrder, NotYetDone, LockHolds, SucceededDone, RestartDue
<1>7. CommittedFresh'
  BY <1>1 DEF CommittedFresh, Fresh
<1>8. NodeKnows'
  BY <1>3 DEF NodeKnows
<1>9. ResultsKnow'
  BY <1>1, <1>2 DEF ResultsKnow, Told
<1>10. OnePlace'
  BY <1>1, <1>4 DEF OnePlace
<1> QED
  BY <1>5, <1>6, <1>7, <1>8, <1>9, <1>10

LEMMA NextInv == IInv /\ [Next]_vars => IInv'
<1> SUFFICES ASSUME IInv, [Next]_vars PROVE IInv'
  OBVIOUS
<1>1. ASSUME NEW i \in Ids, CreateTask(i) PROVE IInv'
  BY <1>1, CreateTaskInv
<1>2. ASSUME NEW h \in Handlers, PollTasks(h) PROVE IInv'
  BY <1>2, PollTasksInv
<1>3. ASSUME NEW h \in Handlers, Serve(h) PROVE IInv'
  BY <1>3, SelectTaskInv, CommitClaimInv, AbortClaimInv, RespondClaimInv, LoseResponseInv
     DEF Serve
<1>4. ASSUME NEW r \in results, StoreResult(r) \/ LoseResult(r) PROVE IInv'
  BY <1>4, StoreResultInv, LoseResultInv
<1>5. CASE PollTimesOut \/ ResultDone
  BY <1>5, NodeIdlesInv
<1>6. CASE Execute \/ SendResult
  BY <1>6, ExecuteInv, SendResultInv
<1>7. CASE Restart
  BY <1>7, RestartInv
<1>8. CASE UNCHANGED vars
  <2>1. TypeOK'
    BY <1>8 DEF vars, IInv, TypeOK
  <2> QED
    BY <1>8, <2>1, QuietStep DEF vars
<1> QED
  BY <1>1, <1>2, <1>3, <1>4, <1>5, <1>6, <1>7, <1>8 DEF Next

-----------------------------------------------------------------------------
(* The steps as TaskQueue sees them *)

\* A step that moves no task and carries none out is a stutter.
LEMMA Stutter ==
  ASSUME UNCHANGED <<status, carried_out>> PROVE UNCHANGED <<status, Done>>
BY DEF Done

LEMMA CreateTaskSim ==
  ASSUME IInv, NEW i \in Ids, CreateTask(i) PROVE Queue!Create(i)
BY DEF CreateTask, Done, Queue!Create, Queue!Move

LEMMA CommitClaimSim ==
  ASSUME IInv, NEW h \in Handlers, CommitClaim(h)
  PROVE  claim[h].task \in Ids /\ Queue!HandOut(claim[h].task)
<1>1. claim[h].pc = "locked" /\ claim[h].task \in Ids
  BY Shapes DEF CommitClaim, IInv
<1>2. /\ status[claim[h].task] = "pending"
      /\ \A j \in Ids : j < claim[h].task => status[j] # "pending"
  BY <1>1 DEF IInv, LockHolds
<1> QED
  BY <1>1, <1>2 DEF CommitClaim, Done, Queue!HandOut, Queue!Move

LEMMA ExecuteSim ==
  ASSUME IInv, Execute
  PROVE  \/ node.task \in Ids /\ Queue!CarryOut(node.task)
         \/ UNCHANGED <<status, Done>>
<1> DEFINE i == node.task
<1>1. /\ i \in Ids /\ status[i] = "running" /\ carried_out[i] = {}
      /\ carried_out \in [Ids -> SUBSET (0..MaxBoots)] /\ UNCHANGED status
  BY Shapes DEF Execute, IInv, NodeKnows, Fresh, TypeOK
<1>2. CASE UNCHANGED carried_out
  BY <1>1, <1>2, Stutter
<1>3. CASE carried_out' = [carried_out EXCEPT ![i] = @ \cup {boots}]
  <2>1. i \notin Done
    BY <1>1 DEF Done
  <2>2. Done' = Done \cup {i}
    BY <1>1, <1>3 DEF Done
  <2> QED
    BY <1>1, <2>1, <2>2 DEF Queue!CarryOut
<1> QED
  BY <1>2, <1>3 DEF Execute

LEMMA StoreResultSim ==
  ASSUME IInv, NEW r \in results, StoreResult(r)
  PROVE  r.task \in Ids /\ (Queue!Succeed(r.task) \/ Queue!Fail(r.task))
<1>1. r.task \in Ids /\ r.status \in {"succeeded", "failed"} /\ Told(r.task, r.status)
  BY DEF IInv, TypeOK, Result, ResultsKnow
<1>2. status' = [status EXCEPT ![r.task] = r.status] /\ UNCHANGED carried_out
  BY <1>1 DEF StoreResult, Open, Told
<1> QED
  BY <1>1, <1>2 DEF Told, Done, Queue!Succeed, Queue!Fail, Queue!Move

LEMMA NextSim == IInv /\ [Next]_vars => [Queue!Next]_<<status, Done>>
<1> SUFFICES ASSUME IInv, [Next]_vars PROVE Queue!Next \/ UNCHANGED <<status, Done>>
  OBVIOUS
<1>1. ASSUME NEW i \in Ids, CreateTask(i) PROVE Queue!Next
  BY <1>1, CreateTaskSim DEF Queue!Next
<1>2. ASSUME NEW h \in Handlers, CommitClaim(h) PROVE Queue!Next
  BY <1>2, CommitClaimSim DEF Queue!Next
<1>3. CASE Execute
  BY <1>3, ExecuteSim DEF Queue!Next
<1>4. ASSUME NEW r \in results, StoreResult(r) PROVE Queue!Next
  BY <1>4, StoreResultSim DEF Queue!Next
<1>5. ASSUME NEW h \in Handlers,
             PollTasks(h) \/ SelectTask(h) \/ AbortClaim(h) \/ RespondClaim(h) \/ LoseResponse(h)
      PROVE  UNCHANGED <<status, Done>>
  BY <1>5, Stutter DEF PollTasks, SelectTask, AbortClaim, RespondClaim, LoseResponse
<1>6. ASSUME NEW r \in results, LoseResult(r) PROVE UNCHANGED <<status, Done>>
  BY <1>6, Stutter DEF LoseResult
<1>7. CASE PollTimesOut \/ SendResult \/ ResultDone \/ Restart \/ UNCHANGED vars
  BY <1>7, Stutter DEF PollTimesOut, SendResult, ResultDone, Restart, vars
<1> QED
  BY <1>1, <1>2, <1>3, <1>4, <1>5, <1>6, <1>7 DEF Next, Serve

-----------------------------------------------------------------------------
(* The theorems *)

LEMMA Invariance == Spec => []IInv
  BY InitInv, NextInv, PTL DEF Spec

\* Every variable keeps its type.
THEOREM TypeCorrect == Spec => []TypeOK
<1>1. IInv => TypeOK
  BY DEF IInv
<1> QED
  BY <1>1, Invariance, PTL

\* A task that is said to have succeeded restarts the node, or already has.
THEOREM SuccessIsTrue == Spec => []SucceededMeansRestart
<1>1. IInv => SucceededMeansRestart
  <2> SUFFICES ASSUME IInv, NEW i \in Ids, status[i] = "succeeded"
               PROVE  \E b \in carried_out[i] : restarting \/ boots > b
    BY DEF SucceededMeansRestart
  <2>1. PICK b \in carried_out[i] : TRUE
    BY DEF IInv, SucceededDone
  <2>2. b < boots \/ restarting
    BY <2>1 DEF IInv, RestartDue
  <2> QED
    BY <2>1, <2>2
<1> QED
  BY <1>1, Invariance, PTL

\* The row lock lets every task be handed out once only, however many requests the
\* panel serves.
THEOREM TasksAreHandedOutOnce == Spec => HandedOutOnce
<1>1. IInv /\ [Next]_vars =>
        [\A h \in Handlers : CommitClaim(h) => status[claim[h].task] = "pending"]_vars
  BY DEF IInv, LockHolds, CommitClaim
<1> QED
  BY <1>1, Invariance, PTL DEF Spec, HandedOutOnce

\* Panel and node together implement the queue an operator relies on.
THEOREM QueueImplemented == Spec => ImplementsQueue
<1>1. Init => Queue!Init
  BY DEF Init, Done, Queue!Init
<1> QED
  BY <1>1, NextSim, Invariance, PTL DEF Spec, ImplementsQueue, Queue!Spec

=============================================================================
