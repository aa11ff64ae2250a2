------------------------- MODULE SingleVehicleTask -------------------------
(***************************************************************************)
(* The life of one single-vehicle task from the committed INSERT of its    *)
(* row on.  Three parties write the tasks row without looking at it: the   *)
(* API handlers of the user (app/routes/tasks.py), the workflow's          *)
(* activities (worker_app/temporal_activities.py), and, through restarts,  *)
(* a second execution of the workflow (worker_app/temporal_workflows.py).  *)
(*                                                                         *)
(* The collection is one step here that ends with any result; module       *)
(* CollectionWait is about how it gets there.  An action is one            *)
(* transaction or one decision of the workflow.  current_stage, artifacts  *)
(* and payloads are left out.                                              *)
(***************************************************************************)
EXTENDS Naturals, FiniteSets

CONSTANTS Platform,    \* PLATFORMS
          UserOps,     \* what the user does: subset of {"cancel", "retry", "pause"}
          Faults,      \* subset of {"crash", "temporal", "signal"}
          MaxRuns      \* bound: workflow executions in a behaviour

ASSUME TaskAssumption ==
  /\ Platform # {} /\ IsFiniteSet(Platform)
  /\ UserOps \subseteq {"cancel", "retry", "pause"}
  /\ Faults \subseteq {"crash", "temporal", "signal"}
  /\ MaxRuns \in Nat \ {0}

VARIABLES target,   \* the platforms the user enabled
          row,      \* the tasks row
          vehicle,  \* the status of its task_vehicles row
          log,      \* event types in task_events
          api,      \* the handler that is starting the workflow, if any
          wf        \* the current workflow execution

vars == <<target, row, vehicle, log, api, wf>>

Terminal == {"completed", "completed_degraded", "failed", "cancelled"}
Status == {"queued", "running", "retry_paused"} \cup Terminal
Event == {"created", "cancel_requested", "manual_retry_requested", "workflow_start_failed",
          "retry_paused", "degraded_published", "full_result_published", "upgraded_to_full",
          "retry_scheduled", "retry_attempted", "task_failed", "task_cancelled"}

\* load .. collecting: run_single_vehicle_task up to its results; postprocess,
\* report: _generate_result_artifacts; publish*, fail*: the end of a pipeline
\* and the events after it; paused, retrying: the automatic retry.
PC == {"closed", "load", "wait", "collecting", "postprocess", "report", "deliver",
       "publish_full", "upgrade_event", "full_event", "publish_degraded", "degraded_event",
       "ask_paused", "schedule", "attempt", "fail", "fail_event", "cancel", "cancel_event"}

TaskTypeOK ==
  /\ target \in (SUBSET Platform) \ {{}}
  /\ row \in [status: Status, degraded: BOOLEAN, upgraded: BOOLEAN]
  /\ vehicle \in Status
  /\ log \subseteq Event
  /\ api \in {"idle", "create", "retry", "create_failed", "retry_failed"}
  /\ wf \in [pc: PC, runs: 0 .. MaxRuns, ok: SUBSET Platform, bad: SUBSET Platform,
             retryable: SUBSET Platform, stop: BOOLEAN, result: Status]

TaskInit ==
  /\ target \in (SUBSET Platform) \ {{}}
  /\ row = [status |-> "queued", degraded |-> FALSE, upgraded |-> FALSE]
  /\ vehicle = "queued"
  /\ log = {"created"}
  /\ api = "create"
  /\ wf = [pc |-> "closed", runs |-> 0, ok |-> {}, bad |-> {}, retryable |-> {},
           stop |-> FALSE, result |-> "queued"]

Running == wf.pc # "closed"

-----------------------------------------------------------------------------
(* The API.                                                                *)

\* Write the status of the task and of its vehicle.
SetStatus(s) == row' = [row EXCEPT !.status = s] /\ vehicle' = s
Record(e) == log' = log \cup {e}

CancelTask ==
  /\ "cancel" \in UserOps
  /\ SetStatus("cancelled")
  /\ Record("cancel_requested")
  /\ UNCHANGED <<target, api, wf>>

PauseRetry ==
  /\ "pause" \in UserOps
  /\ SetStatus("retry_paused")
  /\ Record("retry_paused")
  /\ UNCHANGED <<target, api, wf>>

RetryTask ==
  /\ "retry" \in UserOps
  /\ api = "idle"
  /\ wf.runs < MaxRuns
  /\ SetStatus("queued")
  /\ Record("manual_retry_requested")
  /\ api' = "retry"
  /\ UNCHANGED <<target, wf>>

\* workflow_client.start_task of create_task and retry_task.  A workflow id
\* that is still running cannot be started again.
StartFailed == IF api = "create" THEN "create_failed" ELSE "retry_failed"
Execution == [pc |-> "load", runs |-> wf.runs + 1, ok |-> {}, bad |-> {}, retryable |-> {},
              stop |-> FALSE, result |-> "queued"]

StartWorkflow ==
  /\ api \in {"create", "retry"}
  /\ ~Running
  /\ wf' = Execution
  /\ \/ api' = "idle"
     \/ "temporal" \in Faults /\ api' = StartFailed   \* the answer got lost
  /\ UNCHANGED <<target, row, vehicle, log>>

StartRejected ==
  /\ api \in {"create", "retry"}
  /\ Running \/ "temporal" \in Faults
  /\ api' = StartFailed
  /\ UNCHANGED <<target, row, vehicle, log, wf>>

\* A handler that logs the failure and leaves the task as it is.
RecordStartFailure_KeepStatus ==
  /\ api \in {"create_failed", "retry_failed"}
  /\ Record("workflow_start_failed")
  /\ api' = "idle"
  /\ UNCHANGED <<target, row, vehicle, wf>>

\* The except branch; create_task leaves the vehicle as it is.
RecordStartFailure ==
  /\ api \in {"create_failed", "retry_failed"}
  /\ row' = [row EXCEPT !.status = "failed"]
  /\ vehicle' = IF api = "retry_failed" THEN "failed" ELSE vehicle
  /\ Record("workflow_start_failed")
  /\ api' = "idle"
  /\ UNCHANGED <<target, wf>>

-----------------------------------------------------------------------------
(* The workflow.                                                           *)
Goto(p) == wf' = [wf EXCEPT !.pc = p]
Step(from, to) == wf.pc = from /\ Goto(to)
Private == UNCHANGED <<target, row, vehicle, log, api>>

\* The next step, unless _cancel_if_requested finds the signal.
OrCancel(p) == IF wf.stop THEN "cancel" ELSE p

\* load_task and resolve_vehicle_inputs.
Load ==
  /\ Step("load", OrCancel("wait"))
  /\ Private

\* wait_for_collection_runs begins with mark_task_stage ...
MarkRunning(from, to) ==
  /\ Step(from, to)
  /\ SetStatus("running")
  /\ UNCHANGED <<target, log, api>>

BeginWait == MarkRunning("wait", "collecting")

\* ... and every submitted run marks its own stage.
SubmitRun == MarkRunning("collecting", "collecting")

\* The results: unresolved, failed and missing platforms are all in bad.
Collected ==
  /\ wf.pc = "collecting"
  /\ \E good \in SUBSET target : \E again \in SUBSET (target \ good) :
       wf' = [wf EXCEPT !.pc = OrCancel("postprocess"), !.ok = good, !.bad = target \ good,
                        !.retryable = again]
  /\ Private

\* No platform could be resolved, so that no run was created.
NothingToCollect ==
  /\ wf.pc = "load"
  /\ wf' = [wf EXCEPT !.pc = OrCancel("fail"), !.bad = target]
  /\ Private

\* _publish_full_pipeline or _publish_degraded_pipeline.
IsFull_EnabledOnly == target \subseteq wf.ok
IsFull == target \subseteq wf.ok /\ target = Platform

Postprocess == MarkRunning("postprocess", "report")

\* run_llm_report; made says whether both activities left artifacts.
Report(made) ==
  /\ wf.pc = "report"
  /\ SetStatus("running")
  /\ Goto(OrCancel(IF ~made THEN "fail"
                   ELSE IF IsFull THEN "publish_full" ELSE "publish_degraded"))
  /\ UNCHANGED <<target, log, api>>

-----------------------------------------------------------------------------
(* The ends of an execution.  Each writes the row in one transaction and   *)
(* appends its events in others.                                           *)
Close(result) == wf' = [wf EXCEPT !.pc = "closed", !.result = result]

\* A full result that wipes out the degraded one before it.
FullRow_Forget(r) == [status |-> "completed", degraded |-> FALSE, upgraded |-> r.degraded]

\* degraded stays and tells that the result was upgraded.
FullRow(r) == [status |-> "completed", degraded |-> r.degraded, upgraded |-> r.degraded \/ r.upgraded]

PublishFull ==
  /\ Step("publish_full",
          IF row.degraded /\ ~row.upgraded THEN "upgrade_event" ELSE "full_event")
  /\ row' = FullRow(row)
  /\ vehicle' = "completed"
  /\ UNCHANGED <<target, log, api>>

RecordUpgrade ==
  /\ Step("upgrade_event", "full_event")
  /\ Record("upgraded_to_full")
  /\ UNCHANGED <<target, row, vehicle, api>>

RecordFull ==
  /\ wf.pc = "full_event"
  /\ Record("full_result_published")
  /\ Close("completed")
  /\ UNCHANGED <<target, row, vehicle, api>>

PublishDegraded ==
  /\ Step("publish_degraded", "degraded_event")
  /\ row' = [status |-> "completed_degraded", degraded |-> TRUE, upgraded |-> FALSE]
  /\ vehicle' = "completed_degraded"
  /\ UNCHANGED <<target, log, api>>

RecordDegraded ==
  /\ wf.pc = "degraded_event"
  /\ Record("degraded_published")
  /\ IF wf.ok # {} /\ wf.retryable # {} THEN Goto("ask_paused") ELSE Close("completed_degraded")
  /\ UNCHANGED <<target, row, vehicle, api>>

\* is_retry_paused.
AskPaused ==
  /\ wf.pc = "ask_paused"
  /\ IF row.status = "retry_paused" THEN Close("completed_degraded") ELSE Goto("schedule")
  /\ Private

\* A schedule that shows in a status of its own.
ScheduleRetry_Waiting ==
  /\ Step("schedule", "attempt")
  /\ SetStatus("retry_wait")
  /\ Record("retry_scheduled")
  /\ UNCHANGED <<target, api>>

ScheduleRetry ==
  /\ Step("schedule", "attempt")
  /\ Record("retry_scheduled")
  /\ UNCHANGED <<target, row, vehicle, api>>

\* A fruitless retry that fails the task it was to improve.
AttemptRetry_Fail ==
  /\ wf.pc = "attempt"
  /\ Record("retry_attempted")
  /\ SetStatus("failed")
  /\ Close("completed_degraded")
  /\ UNCHANGED <<target, api>>

\* retry_failed_platforms collects nothing: the result stays degraded.
AttemptRetry ==
  /\ wf.pc = "attempt"
  /\ Record("retry_attempted")
  /\ Close("completed_degraded")
  /\ UNCHANGED <<target, row, vehicle, api>>

MarkFailed ==
  /\ Step("fail", "fail_event")
  /\ SetStatus("failed")
  /\ UNCHANGED <<target, log, api>>

RecordFailed ==
  /\ wf.pc = "fail_event"
  /\ Record("task_failed")
  /\ Close("failed")
  /\ UNCHANGED <<target, row, vehicle, api>>

\* The cancel_task activity.
CancelByWorkflow ==
  /\ Step("cancel", "cancel_event")
  /\ SetStatus("cancelled")
  /\ UNCHANGED <<target, log, api>>

RecordCancelled ==
  /\ wf.pc = "cancel_event"
  /\ Record("task_cancelled")
  /\ Close("cancelled")
  /\ UNCHANGED <<target, row, vehicle, api>>

-----------------------------------------------------------------------------
(* Faults.                                                                 *)

\* The signal of SingleVehicleTaskWorkflow; no code of the repository sends it.
RequestCancel ==
  /\ "signal" \in Faults
  /\ Running
  /\ wf' = [wf EXCEPT !.stop = TRUE]
  /\ Private

\* The worker dies between the transactions of an activity, and Temporal runs
\* the whole activity again.
ActivityOf == [upgrade_event |-> "publish_full", full_event |-> "publish_full",
               degraded_event |-> "publish_degraded", fail_event |-> "fail",
               cancel_event |-> "cancel"]

Crash ==
  /\ "crash" \in Faults
  /\ wf.pc \in DOMAIN ActivityOf
  /\ Goto(ActivityOf[wf.pc])
  /\ Private

-----------------------------------------------------------------------------
ApiStep == StartWorkflow \/ StartRejected \/ RecordStartFailure

WorkflowStep ==
  \/ Load \/ NothingToCollect \/ BeginWait \/ Collected \/ Postprocess
  \/ \E made \in BOOLEAN : Report(made)
  \/ PublishFull \/ RecordUpgrade \/ RecordFull
  \/ PublishDegraded \/ RecordDegraded \/ AskPaused \/ ScheduleRetry \/ AttemptRetry
  \/ MarkFailed \/ RecordFailed \/ CancelByWorkflow \/ RecordCancelled

User == CancelTask \/ PauseRetry \/ RetryTask

TaskNext == ApiStep \/ WorkflowStep \/ SubmitRun \/ User \/ RequestCancel \/ Crash

\* A handler that has begun goes on, and so does a workflow: Temporal repeats
\* its activities, and the wait for the collection has a deadline.
TaskSpec == TaskInit /\ [][TaskNext]_vars /\ WF_vars(ApiStep) /\ WF_vars(WorkflowStep)

-----------------------------------------------------------------------------
(* Properties.                                                             *)

\* A task counts as completed only if its execution collected every platform.
CompletedIsComplete ==
  [][row.status # "completed" /\ row'.status = "completed" => wf.ok = Platform]_vars

\* Only a degraded task is upgraded, whatever executions follow each other, and when
\* the execution is over an event has announced it.
UpgradesAreHonest ==
  row.upgraded => row.degraded /\ (~Running => "upgraded_to_full" \in log)

\* A cancelled task stays cancelled.
CancelledStays == [][row.status = "cancelled" => row'.status = "cancelled"]_vars

\* Once the user has paused retries, none is scheduled.
PauseStopsRetry ==
  [][log' # log /\ "retry_scheduled" \in log' \ log => "retry_paused" \notin log]_vars

\* What the parent of a comparison sees of its child.
OutcomeStatus(s) == CASE s \in {"queued", "running", "retry_paused"} -> "active"
                      [] s \in {"failed", "cancelled"} -> "failed"
                      [] OTHER -> s
Outcome == INSTANCE TaskOutcome WITH
  Task <- {"it"}, CanImprove <- FALSE,
  task <- [t \in {"it"} |-> [status |-> OutcomeStatus(row.status), open |-> Running,
                             upgraded |-> row.upgraded]]

\* A task that no user touches gets one result and keeps it, through every
\* repeated activity and whatever follows its publication; its row and the result
\* of its workflow agree.
KeepsItsOutcome ==
  Outcome!OutcomeSpec /\ [](wf.runs > 0 /\ ~Running => row.status = wf.result)

\* A task does not stay queued or running for ever.
TaskMovesOn == row.status \in {"queued", "running"} ~> row.status \notin {"queued", "running"}
=============================================================================
