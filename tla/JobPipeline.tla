---------------------------- MODULE JobPipeline ----------------------------
(***************************************************************************)
(* One job of the RQ pipeline that the task centre replaces: the handler   *)
(* that creates and enqueues it (app/routes/jobs.py), the worker that runs *)
(* its stages (worker_jobs.py, worker_app/jobs.py) and writes each event   *)
(* to the tables (worker_app/job_store.py), and the cleanup process        *)
(* (worker_app/cleanup.py).                                                *)
(*                                                                         *)
(* The two collectors run side by side; one of them may fail, and the      *)
(* pipeline goes on with the other's platform alone.  An action is one     *)
(* transaction or one run of stage commands.                               *)
(***************************************************************************)
EXTENDS Naturals, Sequences, FiniteSets

CONSTANT Faults     \* what may go wrong

ASSUME JobAssumption ==
  Faults \subseteq {"redis", "exception", "kill", "stage", "rollback"}

VARIABLES job,      \* the jobs row
          runs,     \* its job_stage_runs rows, by id
          saved,    \* stages with rows in job_artifacts
          files,    \* stages whose expected artifacts are on disk
          corpus,   \* platforms whose comments are in the corpus
          old,      \* finished_at (or created_at) is further back than the retention period
          queue,    \* the RQ job waits
          api,      \* create_job
          cleaner,  \* whose directory the open transaction of the cleanup has removed
          wk        \* the worker

store == <<job, runs>>
disk == <<saved, files, corpus>>
vars == <<store, disk, old, queue, api, cleaner, wk>>

\* build_stage_commands; all stages are core.
Stages == <<"checking_incremental", "collecting_autohome", "collecting_dcd",
            "postprocessing", "generating_hermes_outputs">>
Stage == {Stages[i] : i \in DOMAIN Stages}
Collector == {"collecting_autohome", "collecting_dcd"}
NeedsBoth == {"postprocessing"}              \* skip_in_single_platform
MayDegrade == {"generating_hermes_outputs"}  \* parse_json_stdout

Success == {"completed", "completed_degraded"}
Ended == Success \cup {"failed"}
JobStatus == {"queued", "expired"} \cup Stage \cup Ended
RunStatus == {"queued", "running", "success", "degraded", "failed"}
PC == {"idle", "prepare", "stage", "run", "start_second", "collect", "apply", "applied",
       "report", "fail_stage", "complete", "dead"}

JobTypeOK ==
  /\ job \in [status: JobStatus, stage: JobStatus, degraded: BOOLEAN]
  /\ runs \in Seq([stage: {"queued"} \cup Stage, status: RunStatus])
  /\ saved \subseteq Stage /\ files \subseteq Stage /\ corpus \subseteq Collector
  /\ old \in BOOLEAN /\ queue \in BOOLEAN
  /\ api \in {"enqueue", "reject", "accepted", "rejected"}
  /\ cleaner \subseteq {"job", "comparison"}
  /\ wk \in [pc: PC, at: DOMAIN Stages \cup {Len(Stages) + 1}, degraded: BOOLEAN,
             ok: SUBSET Collector, todo: SUBSET Collector, single: Collector \cup {"none"},
             result: RunStatus]

Worker(pc) == [pc |-> pc, at |-> 1, degraded |-> FALSE, ok |-> {}, todo |-> {},
               single |-> "none", result |-> "queued"]

JobInit ==
  /\ job = [status |-> "queued", stage |-> "queued", degraded |-> FALSE]
  /\ runs = <<[stage |-> "queued", status |-> "queued"]>>
  /\ saved = {} /\ files = {} /\ corpus = {}
  /\ old = FALSE /\ queue = FALSE
  /\ api = "enqueue" /\ cleaner = {}
  /\ wk = Worker("idle")

-----------------------------------------------------------------------------
(* The tables.                                                             *)
Rows(s) == {i \in DOMAIN runs : runs[i].stage = s}
Newest(S) == CHOOSE i \in S : \A j \in S : j <= i
StillRunning == {i \in DOMAIN runs : runs[i].status = "running"}

AddRun(s, status) == runs' = Append(runs, [stage |-> s, status |-> status])
SetRun(i, status) == runs' = [runs EXCEPT ![i].status = status]

\* _stage_started.
StageStarted(s) ==
  /\ AddRun(s, "running")
  /\ job' = [job EXCEPT !.status = s, !.stage = s]

\* _stage_finished: the newest run of the stage; a stage that was skipped gets
\* a run of its own.
Arrived(s, degraded) == job' = [job EXCEPT !.stage = s, !.degraded = degraded]
StageFinished(s, status, degraded) ==
  SetRun(Newest(Rows(s)), status) /\ Arrived(s, degraded)
StageSkipped(s) == AddRun(s, "degraded") /\ Arrived(s, TRUE)

PipelineCompleted(status, degraded) ==
  /\ job' = [status |-> status, stage |-> status, degraded |-> degraded]
  /\ UNCHANGED runs

\* mark_job_failed blames the run that was started last, and if none is running
\* the stage the job shows.
Blamed == IF StillRunning # {} THEN StillRunning
          ELSE IF job.stage \in Ended THEN {} ELSE Rows(job.stage)

\* A failure that leaves the stage runs alone.
MarkJobFailed_JobOnly ==
  job' = [job EXCEPT !.status = "failed", !.stage = "failed"] /\ UNCHANGED runs

MarkJobFailed ==
  /\ IF Blamed = {} THEN UNCHANGED runs ELSE SetRun(Newest(Blamed), "failed")
  /\ job' = [job EXCEPT !.status = "failed", !.stage = "failed"]

-----------------------------------------------------------------------------
(* create_job, from the committed rows on.                                 *)

\* The push may fail, or only its answer may get lost.
Enqueue ==
  /\ api = "enqueue"
  /\ \/ queue' = TRUE /\ api' = "accepted"
     \/ "redis" \in Faults /\ queue' \in BOOLEAN /\ api' = "reject"
  /\ UNCHANGED <<store, disk, old, cleaner, wk>>

Reject ==
  /\ api = "reject"
  /\ api' = "rejected"
  /\ job' = [job EXCEPT !.status = "failed", !.stage = "failed"]
  /\ SetRun(1, "failed")
  /\ UNCHANGED <<disk, old, queue, cleaner, wk>>

-----------------------------------------------------------------------------
(* run_job.                                                                *)
At(pc) == wk.pc = pc
Now == Stages[wk.at]
Goto(pc) == wk' = [wk EXCEPT !.pc = pc]
Others == UNCHANGED <<old, queue, api, cleaner>>

Take ==
  /\ queue /\ At("idle")
  /\ queue' = FALSE
  /\ wk' = Worker("prepare")
  /\ UNCHANGED <<store, disk, old, api, cleaner>>

\* fetch_job_inputs, ensure_job_dirs, prepare_collection_plan.
Prepare ==
  /\ At("prepare")
  /\ Goto("stage")
  /\ UNCHANGED <<store, disk>> /\ Others

StartStage ==
  /\ At("stage") /\ wk.at \in DOMAIN Stages
  /\ ~(wk.single # "none" /\ Now \in NeedsBoth)
  /\ StageStarted(Now)
  /\ wk' = IF Now \in Collector THEN [wk EXCEPT !.pc = "start_second", !.at = @ + 1]
           ELSE [wk EXCEPT !.pc = "run"]
  /\ UNCHANGED disk /\ Others

SkipStage ==
  /\ At("stage") /\ wk.at \in DOMAIN Stages
  /\ wk.single # "none" /\ Now \in NeedsBoth
  /\ StageSkipped(Now)
  /\ wk' = [wk EXCEPT !.at = @ + 1, !.degraded = TRUE]
  /\ UNCHANGED disk /\ Others

\* run_stage_command: a stage succeeds only with all its artifacts.
RunStage ==
  /\ At("run")
  /\ \/ /\ files' = files \cup {Now}
        /\ \E result \in {"success"} \cup (IF Now \in MayDegrade THEN {"degraded"} ELSE {}) :
             wk' = [wk EXCEPT !.pc = "report", !.result = result,
                              !.degraded = @ \/ result = "degraded"]
     \/ "stage" \in Faults /\ Goto("fail_stage") /\ UNCHANGED files
  /\ UNCHANGED <<store, saved, corpus>> /\ Others

FinishStage ==
  /\ At("report")
  /\ StageFinished(Now, wk.result, wk.degraded)
  /\ saved' = saved \cup {Now}
  /\ wk' = [wk EXCEPT !.pc = "stage", !.at = @ + 1]
  /\ UNCHANGED <<files, corpus>> /\ Others

\* A failed stage ends the pipeline without its last event.
FailStage_NoEnd ==
  /\ At("fail_stage")
  /\ StageFinished(Now, "failed", wk.degraded)
  /\ wk' = [wk EXCEPT !.pc = "idle"]
  /\ UNCHANGED disk /\ Others

FailStage ==
  /\ At("fail_stage")
  /\ StageFinished(Now, "failed", wk.degraded)
  /\ wk' = [wk EXCEPT !.pc = "complete", !.result = "failed"]
  /\ UNCHANGED disk /\ Others

\* _run_parallel_collectors.
StartSecondCollector ==
  /\ At("start_second")
  /\ StageStarted(Now)
  /\ Goto("collect")
  /\ UNCHANGED disk /\ Others

\* Both have ended.  If none succeeded the first one is reported.
Collect ==
  /\ At("collect")
  /\ \E ok \in IF "stage" \in Faults THEN SUBSET Collector ELSE {Collector} :
       /\ files' = files \cup ok
       /\ wk' = [wk EXCEPT !.pc = IF ok = {} THEN "fail_stage" ELSE "apply",
                           !.ok = ok, !.todo = ok,
                           !.at = IF ok = {} THEN @ - 1 ELSE @]
  /\ UNCHANGED <<store, saved, corpus>> /\ Others

\* In the order of the stages.
NextToApply == IF Stages[2] \in wk.todo THEN Stages[2] ELSE Stages[3]

\* _apply_collector_to_corpus, before the event reaches the job's tables.
ApplyCollector ==
  /\ At("apply") /\ wk.todo # {}
  /\ corpus' = corpus \cup {NextToApply}
  /\ Goto("applied")
  /\ UNCHANGED <<store, saved, files>> /\ Others

FinishCollector ==
  /\ At("applied")
  /\ StageFinished(NextToApply, "success", wk.degraded)
  /\ saved' = saved \cup {NextToApply}
  /\ wk' = [wk EXCEPT !.pc = "apply", !.todo = @ \ {NextToApply}]
  /\ UNCHANGED <<files, corpus>> /\ Others

GoOnWithBoth ==
  /\ At("apply") /\ wk.todo = {} /\ wk.ok = Collector
  /\ wk' = [wk EXCEPT !.pc = "stage", !.at = @ + 1]
  /\ UNCHANGED <<store, disk>> /\ Others

\* A fallback that is not counted as degraded.
FallBack_Silently ==
  /\ At("apply") /\ wk.todo = {} /\ wk.ok # Collector
  /\ \E lost \in Collector \ wk.ok : StageFinished(lost, "degraded", FALSE)
  /\ wk' = [wk EXCEPT !.pc = "stage", !.at = @ + 1]
  /\ UNCHANGED disk /\ Others

\* can_single_platform_fallback.
FallBack ==
  /\ At("apply") /\ wk.todo = {} /\ wk.ok # Collector
  /\ \E lost \in Collector \ wk.ok : StageFinished(lost, "degraded", TRUE)
  /\ \E left \in wk.ok :
       wk' = [wk EXCEPT !.pc = "stage", !.at = @ + 1, !.degraded = TRUE, !.single = left]
  /\ UNCHANGED disk /\ Others

FinalStatus == IF wk.degraded THEN "completed_degraded" ELSE "completed"

CompletePipeline ==
  /\ \/ /\ At("stage") /\ wk.at = Len(Stages) + 1
        /\ PipelineCompleted(FinalStatus, wk.degraded)
     \/ At("complete") /\ PipelineCompleted("failed", wk.degraded)
  /\ wk' = Worker("idle")
  /\ old' = FALSE
  /\ UNCHANGED <<disk, queue, api, cleaner>>

-----------------------------------------------------------------------------
(* Faults and the cleanup.                                                 *)
Working == wk.pc \notin {"idle", "dead"}

\* Any exception that is not a stage's own, the timeout of the RQ job included.
Raise ==
  /\ "exception" \in Faults /\ Working
  /\ MarkJobFailed
  /\ wk' = Worker("idle")
  /\ old' = FALSE
  /\ UNCHANGED <<disk, queue, api, cleaner>>

\* RQ does not run a job again whose worker has died.
Kill ==
  /\ "kill" \in Faults /\ Working
  /\ wk' = Worker("dead")
  /\ UNCHANGED <<store, disk>> /\ Others

\* The retention period is longer than a job may run.
Age ==
  /\ ~old /\ ~Working /\ api \in {"accepted", "rejected"}
  /\ old' = TRUE
  /\ UNCHANGED <<store, disk, queue, api, cleaner, wk>>

\* cleanup_expired_job_data: the directory goes before the commit.
RemoveFiles ==
  /\ cleaner = {}
  /\ old /\ job.status \in Ended
  /\ files' = {}
  /\ cleaner' = {"job"}
  /\ UNCHANGED <<store, saved, corpus, old, queue, api, wk>>

ExpireJob ==
  IF "job" \in cleaner
  THEN saved' = {} /\ job' = [job EXCEPT !.status = "expired", !.stage = "expired"]
  ELSE UNCHANGED <<saved, job>>

CommitCleanup ==
  /\ cleaner # {}
  /\ ExpireJob
  /\ cleaner' = {}
  /\ UNCHANGED <<runs, files, corpus, old, queue, api, wk>>

\* The next round finds the rows again.
RollBackCleanup ==
  /\ "rollback" \in Faults /\ cleaner # {}
  /\ cleaner' = {}
  /\ UNCHANGED <<store, disk, old, queue, api, wk>>

WorkerStep ==
  \/ Take \/ Prepare \/ StartStage \/ SkipStage \/ RunStage \/ FinishStage \/ FailStage
  \/ StartSecondCollector \/ Collect \/ ApplyCollector \/ FinishCollector
  \/ GoOnWithBoth \/ FallBack \/ CompletePipeline

JobStep == Enqueue \/ Reject \/ WorkerStep \/ Raise \/ Kill \/ Age

JobNext == JobStep \/ RemoveFiles \/ CommitCleanup \/ RollBackCleanup

JobSpec == JobInit /\ [][JobNext]_vars /\ WF_vars(WorkerStep)

-----------------------------------------------------------------------------
(* Properties.                                                             *)
Accepted == api = "accepted"

\* Whatever failed on the way, a job that shows as completed has its report, the
\* comments of at least one platform in its artifacts and in the corpus, and every
\* artifact its table names; if it is not degraded it has all stages.  And
\* postprocessing, which merges two workbooks, has never run with one.
StagesAreBacked ==
  /\ "postprocessing" \in files => Collector \subseteq files
  /\ Accepted /\ job.status \in Success /\ ~old =>
       /\ saved \subseteq files
       /\ "generating_hermes_outputs" \in saved
       /\ saved \cap Collector # {} /\ saved \cap Collector \subseteq corpus
       /\ job.status = "completed" => saved = Stage

\* When a job is over at most one of its stage runs still shows as running: a
\* collector's, and only if the job failed.
RunsAreSettled ==
  Accepted /\ ~Working /\ job.status \in Ended =>
    /\ Cardinality(StillRunning) <= 1
    /\ \A i \in StillRunning : runs[i].stage \in Collector /\ job.status = "failed"

=============================================================================
