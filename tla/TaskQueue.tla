------------------------------ MODULE TaskQueue ------------------------------
(***************************************************************************)
(* What the remote tasks of a node promise an operator: tasks are handed   *)
(* out one by one in the order they were created, each is carried out at   *)
(* most once, and it is said to have succeeded only if it was carried out. *)
(* It is not promised that a task handed out is ever heard of again.       *)
(***************************************************************************)
EXTENDS Naturals

CONSTANT Ids   \* the tasks, an initial segment of 1, 2, ..

VARIABLES
  status,   \* what the operator sees
  done      \* the tasks that were carried out

Status == {"absent", "pending", "running", "succeeded", "failed"}

Init ==
  /\ status = [i \in Ids |-> "absent"]
  /\ done = {}

Move(i, from, to) ==
  /\ status[i] = from
  /\ status' = [status EXCEPT ![i] = to]

Create(i) ==
  /\ \A j \in Ids : j < i => status[j] # "absent"
  /\ Move(i, "absent", "pending")
  /\ UNCHANGED done

HandOut(i) ==
  /\ \A j \in Ids : j < i => status[j] # "pending"
  /\ Move(i, "pending", "running")
  /\ UNCHANGED done

CarryOut(i) ==
  /\ status[i] = "running" /\ i \notin done
  /\ done' = done \cup {i}
  /\ UNCHANGED status

Succeed(i) ==
  /\ i \in done
  /\ Move(i, "running", "succeeded")
  /\ UNCHANGED done

Fail(i) ==
  /\ i \notin done
  /\ Move(i, "running", "failed")
  /\ UNCHANGED done

Next == \E i \in Ids : Create(i) \/ HandOut(i) \/ CarryOut(i) \/ Succeed(i) \/ Fail(i)

Spec == Init /\ [][Next]_<<status, done>>

=============================================================================
