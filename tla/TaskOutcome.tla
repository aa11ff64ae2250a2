---------------------------- MODULE TaskOutcome ----------------------------
(***************************************************************************)
(* What the rest of the system may rely on of single-vehicle tasks that no *)
(* user touches: each is created once, executed by one workflow, gets one  *)
(* result, and changes it afterwards only for the better.                  *)
(*                                                                         *)
(* SingleVehicleTask implements it; ComparisonTask builds on it for its    *)
(* children.                                                               *)
(***************************************************************************)
CONSTANTS Task,
          CanImprove   \* whether retries of failed platforms may succeed

VARIABLE task

\* Until it has a result a task is active, queued or running; a task without a
\* usable result has failed or been cancelled, which makes no difference here.
Usable == {"completed", "completed_degraded"}
Result == Usable \cup {"failed"}
TaskState == [status: {"none", "active"} \cup Result,
              open: BOOLEAN,        \* its workflow is running
              upgraded: BOOLEAN]    \* upgraded_to_full

NoTask == [status |-> "none", open |-> FALSE, upgraded |-> FALSE]
Queued == [status |-> "active", open |-> FALSE, upgraded |-> FALSE]

OutcomeInit == task \in [Task -> {NoTask, Queued}]

Is(t, statuses) == task[t].status \in statuses

\* The row is inserted.
Create(t) == Is(t, {"none"}) /\ task' = [task EXCEPT ![t] = Queued]

\* The workflow is started.
Open(t) == Is(t, {"active"}) /\ ~task[t].open /\ task' = [task EXCEPT ![t].open = TRUE]

Settle(t) ==
  /\ Is(t, {"active"}) /\ task[t].open
  /\ \E result \in Result : task' = [task EXCEPT ![t].status = result]

\* A retry completes what was missing.
Improve(t) ==
  /\ CanImprove
  /\ Is(t, {"completed_degraded"}) /\ task[t].open
  /\ task' = [task EXCEPT ![t].status = "completed", ![t].upgraded = TRUE]

Close(t) == Is(t, Result) /\ task[t].open /\ task' = [task EXCEPT ![t].open = FALSE]

Proceed(t) == Settle(t) \/ Improve(t) \/ Close(t)

OutcomeNext == \E t \in Task : Create(t) \/ Open(t) \/ Proceed(t)

OutcomeSpec == OutcomeInit /\ [][OutcomeNext]_task
=============================================================================
