----------------------------- MODULE JobResults -----------------------------
(***************************************************************************)
(* What is made of finished jobs, while the cleanup process removes them:  *)
(* comparisons (app/routes/comparisons.py, run_comparison_job) that reuse  *)
(* the result of a job and collect the other vehicles themselves, and time *)
(* reports (create_time_report, run_time_report) on a job's raw comments.  *)
(*                                                                         *)
(* The job that is reused and reported on is the one of JobPipeline; the   *)
(* children of a comparison run the same pipeline, of which only the       *)
(* result matters here.  The handlers and the two RQ jobs are separate     *)
(* processes: several workers may serve the queue.                         *)
(***************************************************************************)
EXTENDS JobPipeline

CONSTANT VehicleCount

ASSUME ResultsAssumption == VehicleCount \in Nat /\ VehicleCount >= 2

Vehicle == 1 .. VehicleCount

VARIABLES cmp,       \* the comparison_jobs row
          row,       \* its comparison_vehicles
          child,     \* the jobs of the vehicles it collects
          copied,    \* vehicles with files in the directory of the comparison
          listed,    \* vehicles with rows in comparison_artifacts
          cmpOld,    \* it finished longer ago than the retention period
          cmpQueue,  \* its RQ job waits
          cw,        \* the worker of the comparison
          rep,       \* the job_time_reports row
          repFiles,  \* the outputs of the report, in the directory of the job
          repQueue,  \* its RQ job waits
          creator,   \* create_time_report
          rw         \* the worker of the report

cmpVars == <<cmp, row, child, copied, listed, cmpOld, cmpQueue, cw>>
repVars == <<rep, repFiles, repQueue, creator, rw>>
resVars == <<vars, cmpVars, repVars>>

CmpEnded == Success \cup {"failed"}
CmpStage == {"none", "queued", "collecting_models", "comparing", "expired"} \cup CmpEnded
Row == [status: {"none", "queued", "reused", "running", "completed", "excluded"},
        reuse: BOOLEAN]
CmpPC == {"idle", "start", "vehicle", "child", "collected", "copy", "downloads", "exclude",
          "judge", "compare", "publish", "lost"}

ResultsTypeOK ==
  /\ JobTypeOK
  /\ cmp \in [stage: CmpStage, api: {"none", "enqueue", "reject", "accepted", "rejected"},
              compared: SUBSET Vehicle, excluded: SUBSET Vehicle]
  /\ row \in [Vehicle -> Row]
  /\ child \in [Vehicle -> {"none", "queued", "completed", "failed"}]
  /\ copied \subseteq Vehicle /\ listed \subseteq Vehicle
  /\ cmpOld \in BOOLEAN /\ cmpQueue \in BOOLEAN
  /\ cw \in [pc: CmpPC, at: 1 .. VehicleCount + 1, snapshots: SUBSET Vehicle,
             excluded: SUBSET Vehicle, fallback: BOOLEAN]
  /\ rep \in {"none", "queued", "running", "completed", "failed"}
  /\ repFiles \in BOOLEAN /\ repQueue \in BOOLEAN
  /\ creator \in {"idle", "flushed", "enqueued", "reject", "done"}
  /\ rw \in {"idle", "mark", "generate", "write", "store", "fail", "lost"}

Comparer(pc) == [pc |-> pc, at |-> 1, snapshots |-> {}, excluded |-> {}, fallback |-> FALSE]

ResInit ==
  /\ JobInit
  /\ cmp = [stage |-> "none", api |-> "none", compared |-> {}, excluded |-> {}]
  /\ row = [v \in Vehicle |-> [status |-> "none", reuse |-> FALSE]]
  /\ child = [v \in Vehicle |-> "none"]
  /\ copied = {} /\ listed = {}
  /\ cmpOld = FALSE /\ cmpQueue = FALSE
  /\ cw = Comparer("idle")
  /\ rep = "none" /\ repFiles = FALSE /\ repQueue = FALSE
  /\ creator = "idle" /\ rw = "idle"

\* Bound: either a comparison or a time report is made of a job that was accepted,
\* once it is over.
JobIsOver == ~Working /\ ~queue /\ api = "accepted"
NothingMade == cmp.api = "none" /\ creator = "idle"

-----------------------------------------------------------------------------
(* create_comparison.                                                      *)

\* comparison_source_artifacts and the files behind them.
HasResult == "generating_hermes_outputs" \in saved \cap files

\* is_reusable_job.
Reusable == job.status \in Success /\ ~old /\ HasResult

\* Bound: the first vehicle reuses the job, the others are collected.
CreateComparison ==
  /\ NothingMade /\ JobIsOver
  /\ Reusable
  /\ row' = [v \in Vehicle |-> [status |-> IF v = 1 THEN "reused" ELSE "queued",
                                reuse |-> v = 1]]
  /\ cmp' = [cmp EXCEPT !.stage = "queued", !.api = "enqueue"]
  /\ UNCHANGED <<vars, child, copied, listed, cmpOld, cmpQueue, cw, repVars>>

EnqueueComparison ==
  /\ cmp.api = "enqueue"
  /\ \/ cmpQueue' = TRUE /\ cmp' = [cmp EXCEPT !.api = "accepted"]
     \/ "redis" \in Faults /\ cmpQueue' \in BOOLEAN /\ cmp' = [cmp EXCEPT !.api = "reject"]
  /\ UNCHANGED <<vars, row, child, copied, listed, cmpOld, cw, repVars>>

RejectComparison ==
  /\ cmp.api = "reject"
  /\ cmp' = [cmp EXCEPT !.stage = "failed", !.api = "rejected"]
  /\ UNCHANGED <<vars, row, child, copied, listed, cmpOld, cmpQueue, cw, repVars>>

-----------------------------------------------------------------------------
(* run_comparison_job.                                                     *)
Comparing(pc) == cw.pc = pc
Turn(pc) == cw' = [cw EXCEPT !.pc = pc]
NextVehicle ==
  [cw EXCEPT !.at = @ + 1, !.pc = IF cw.at = VehicleCount THEN "judge" ELSE "vehicle"]
MarkVehicle(status) == row' = [row EXCEPT ![cw.at].status = status]
Beside == UNCHANGED <<vars, cmpOld, repVars>>

TakeComparison ==
  /\ cmpQueue /\ Comparing("idle")
  /\ cmpQueue' = FALSE
  /\ cw' = Comparer("start")
  /\ UNCHANGED <<cmp, row, child, copied, listed>> /\ Beside

MarkComparisonRunning ==
  /\ Comparing("start")
  /\ cmp' = [cmp EXCEPT !.stage = "collecting_models"]
  /\ Turn("vehicle")
  /\ UNCHANGED <<row, child, copied, listed, cmpQueue>> /\ Beside

Reuse ==
  /\ Comparing("vehicle") /\ row[cw.at].reuse
  /\ MarkVehicle("reused")
  /\ Turn("copy")
  /\ UNCHANGED <<cmp, child, copied, listed, cmpQueue>> /\ Beside

\* ensure_comparison_child_job; the comparison is run once, so that no child
\* exists yet.
EnsureChildJob ==
  /\ Comparing("vehicle") /\ ~row[cw.at].reuse
  /\ child' = [child EXCEPT ![cw.at] = "queued"]
  /\ MarkVehicle("running")
  /\ Turn("child")
  /\ UNCHANGED <<cmp, copied, listed, cmpQueue>> /\ Beside

\* run_job in the same process; completed with or without degradation makes no
\* difference here.  It raises before it starts when a platform has
\* no series, and then leaves the child queued.
RunChildJob ==
  /\ Comparing("child")
  /\ \/ child' = [child EXCEPT ![cw.at] = "completed"] /\ Turn("collected")
     \/ child' = [child EXCEPT ![cw.at] = "failed"] /\ Turn("exclude")
     \/ UNCHANGED child /\ Turn("exclude")
  /\ UNCHANGED <<cmp, row, copied, listed, cmpQueue>> /\ Beside

MarkCollected ==
  /\ Comparing("collected")
  /\ MarkVehicle("completed")
  /\ Turn("copy")
  /\ UNCHANGED <<cmp, child, copied, listed, cmpQueue>> /\ Beside

SourceReady == IF row[cw.at].reuse THEN HasResult ELSE child[cw.at] = "completed"

\* The report refers to the files of the source job.
CopySnapshot_Link ==
  /\ Comparing("copy")
  /\ IF SourceReady
     THEN /\ cw' = [cw EXCEPT !.pc = "downloads", !.snapshots = @ \cup {cw.at}]
          /\ copied' = IF row[cw.at].reuse THEN copied ELSE copied \cup {cw.at}
     ELSE Turn("exclude") /\ UNCHANGED copied
  /\ UNCHANGED <<cmp, row, child, listed, cmpQueue>> /\ Beside

\* _copy_snapshot_artifacts.
CopySnapshot ==
  /\ Comparing("copy")
  /\ IF SourceReady
     THEN /\ cw' = [cw EXCEPT !.pc = "downloads", !.snapshots = @ \cup {cw.at}]
          /\ copied' = copied \cup {cw.at}
     ELSE Turn("exclude") /\ UNCHANGED copied
  /\ UNCHANGED <<cmp, row, child, listed, cmpQueue>> /\ Beside

\* _copy_vehicle_downloadable_artifacts skips what is no longer there.
CopyDownloads ==
  /\ Comparing("downloads")
  /\ cw' = NextVehicle
  /\ UNCHANGED <<cmp, row, child, copied, listed, cmpQueue>> /\ Beside

\* Whatever is raised for one vehicle, the timeout of the RQ job included, only
\* excludes that vehicle, even after its snapshot was taken.
StumbleOverVehicle ==
  /\ "exception" \in Faults
  /\ cw.pc \in {"vehicle", "collected", "copy", "downloads"}
  /\ Turn("exclude")
  /\ UNCHANGED <<cmp, row, child, copied, listed, cmpQueue>> /\ Beside

\* The vehicle's own row is forgotten.
ExcludeVehicle_ReportOnly ==
  /\ Comparing("exclude")
  /\ cw' = [NextVehicle EXCEPT !.excluded = @ \cup {cw.at}]
  /\ UNCHANGED <<cmp, row, child, copied, listed, cmpQueue>> /\ Beside

ExcludeVehicle ==
  /\ Comparing("exclude")
  /\ MarkVehicle("excluded")
  /\ cw' = [NextVehicle EXCEPT !.excluded = @ \cup {cw.at}]
  /\ UNCHANGED <<cmp, child, copied, listed, cmpQueue>> /\ Beside

JudgeSnapshots ==
  /\ Comparing("judge")
  /\ IF Cardinality(cw.snapshots) < 2
     THEN cmp' = [cmp EXCEPT !.stage = "failed"] /\ cw' = Comparer("idle")
     ELSE cmp' = [cmp EXCEPT !.stage = "comparing"] /\ Turn("compare")
  /\ UNCHANGED <<row, child, copied, listed, cmpQueue>> /\ Beside

\* generate_comparison_outputs: degraded when the LLM's conclusion is not to be had.
Compare ==
  /\ Comparing("compare")
  /\ \E fallback \in BOOLEAN : cw' = [cw EXCEPT !.pc = "publish", !.fallback = fallback]
  /\ UNCHANGED <<cmp, row, child, copied, listed, cmpQueue>> /\ Beside

PublishComparison ==
  /\ Comparing("publish")
  /\ cmp' = [cmp EXCEPT !.stage = IF cw.excluded # {} \/ cw.fallback
                                  THEN "completed_degraded" ELSE "completed",
                        !.compared = cw.snapshots, !.excluded = cw.excluded]
  /\ listed' = cw.snapshots
  /\ cw' = Comparer("idle")
  /\ UNCHANGED <<row, child, copied, cmpQueue>> /\ Beside

\* The worker dies, or raises where nothing catches it: RQ does not try again and
\* the row stays as it is.
LoseComparison ==
  /\ Faults \cap {"kill", "exception"} # {}
  /\ cw.pc \notin {"idle", "lost"}
  /\ cw' = Comparer("lost")
  /\ UNCHANGED <<cmp, row, child, copied, listed, cmpQueue>> /\ Beside

ComparisonStep ==
  \/ TakeComparison \/ MarkComparisonRunning \/ Reuse \/ EnsureChildJob \/ RunChildJob
  \/ MarkCollected \/ CopySnapshot \/ CopyDownloads \/ ExcludeVehicle \/ JudgeSnapshots
  \/ Compare \/ PublishComparison

-----------------------------------------------------------------------------
(* create_time_report: the row becomes visible after the push.             *)
HasComments == files \cap Collector # {}
Around == UNCHANGED <<vars, cmpVars>>

FlushReport ==
  /\ NothingMade /\ JobIsOver
  /\ HasComments
  /\ creator' = "flushed"
  /\ UNCHANGED <<rep, repFiles, repQueue, rw>> /\ Around

EnqueueReport ==
  /\ creator = "flushed"
  /\ \/ repQueue' = TRUE /\ creator' = "enqueued"
     \/ "redis" \in Faults /\ repQueue' \in BOOLEAN /\ creator' = "reject"
  /\ UNCHANGED <<rep, repFiles, rw>> /\ Around

CommitReport ==
  /\ creator \in {"enqueued", "reject"}
  /\ rep' = IF creator = "enqueued" THEN "queued" ELSE "failed"
  /\ creator' = "done"
  /\ UNCHANGED <<repFiles, repQueue, rw>> /\ Around

-----------------------------------------------------------------------------
(* run_time_report.  An UPDATE of a row that is not there changes nothing.  *)
SetReport(status) == rep' = IF rep = "none" THEN rep ELSE status

\* fetch_time_report_inputs raises when it does not find the row.
FetchReport ==
  /\ repQueue /\ rw = "idle"
  /\ repQueue' = FALSE
  /\ rw' = IF rep = "none" THEN "lost" ELSE "mark"
  /\ UNCHANGED <<rep, repFiles, creator>> /\ Around

MarkReportRunning ==
  /\ rw = "mark"
  /\ SetReport("running")
  /\ rw' = "generate"
  /\ UNCHANGED <<repFiles, repQueue, creator>> /\ Around

ReadComments ==
  /\ rw = "generate"
  /\ rw' = IF HasComments THEN "write" ELSE "fail"
  /\ UNCHANGED <<rep, repFiles, repQueue, creator>> /\ Around

\* generate_time_report_outputs makes the directories it writes to.
WriteReportFiles ==
  /\ rw = "write"
  /\ \/ rw' = "store" /\ repFiles' = TRUE
     \/ rw' = "fail" /\ UNCHANGED repFiles
  /\ UNCHANGED <<rep, repQueue, creator>> /\ Around

StoreReport ==
  /\ rw \in {"store", "fail"}
  /\ SetReport(IF rw = "store" THEN "completed" ELSE "failed")
  /\ rw' = "idle"
  /\ UNCHANGED <<repFiles, repQueue, creator>> /\ Around

LoseReport ==
  /\ "kill" \in Faults /\ rw \notin {"idle", "lost"}
  /\ rw' = "lost"
  /\ UNCHANGED <<rep, repFiles, repQueue, creator>> /\ Around

ReportStep ==
  FetchReport \/ MarkReportRunning \/ ReadComments \/ WriteReportFiles \/ StoreReport

-----------------------------------------------------------------------------
(* The cleanup: one transaction for jobs and comparisons.                  *)
AgeComparison ==
  /\ ~cmpOld /\ cmp.stage \in CmpEnded /\ ~cmpQueue
  /\ cw.pc \in {"idle", "lost"} /\ cmp.api \in {"accepted", "rejected"}
  /\ cmpOld' = TRUE
  /\ UNCHANGED <<vars, cmp, row, child, copied, listed, cmpQueue, cw, repVars>>

RemoveJobFiles ==
  /\ RemoveFiles
  /\ repFiles' = FALSE
  /\ UNCHANGED <<cmpVars, rep, repQueue, creator, rw>>

\* The jobs come first.
RemoveComparisonFiles ==
  /\ "comparison" \notin cleaner
  /\ cmpOld /\ cmp.stage \in CmpEnded
  /\ copied' = {}
  /\ cleaner' = cleaner \cup {"comparison"}
  /\ UNCHANGED <<store, disk, old, queue, api, wk, cmp, row, child, listed, cmpOld,
                 cmpQueue, cw, repVars>>

\* The report is marked like its job.
Commit_KeepReport ==
  /\ CommitCleanup
  /\ rep' = IF "job" \in cleaner /\ rep # "none" THEN "expired" ELSE rep
  /\ IF "comparison" \in cleaner
     THEN cmp' = [cmp EXCEPT !.stage = "expired"] /\ listed' = {}
     ELSE UNCHANGED <<cmp, listed>>
  /\ UNCHANGED <<row, child, copied, cmpOld, cmpQueue, cw,
                 repFiles, repQueue, creator, rw>>

Commit ==
  /\ CommitCleanup
  /\ rep' = IF "job" \in cleaner THEN "none" ELSE rep
  /\ IF "comparison" \in cleaner
     THEN cmp' = [cmp EXCEPT !.stage = "expired"] /\ listed' = {}
     ELSE UNCHANGED <<cmp, listed>>
  /\ UNCHANGED <<row, child, copied, cmpOld, cmpQueue, cw,
                 repFiles, repQueue, creator, rw>>

RollBack == RollBackCleanup /\ UNCHANGED <<cmpVars, repVars>>

-----------------------------------------------------------------------------
PipelineStep == WorkerStep /\ UNCHANGED <<cmpVars, repVars>>

ResNext ==
  \/ JobStep /\ UNCHANGED <<cmpVars, repVars>>
  \/ CreateComparison \/ EnqueueComparison \/ RejectComparison
  \/ ComparisonStep \/ StumbleOverVehicle \/ LoseComparison
  \/ FlushReport \/ EnqueueReport \/ CommitReport
  \/ ReportStep \/ LoseReport
  \/ AgeComparison \/ RemoveJobFiles \/ RemoveComparisonFiles \/ Commit \/ RollBack

ResSpec ==
  /\ ResInit /\ [][ResNext]_resVars
  /\ WF_resVars(PipelineStep) /\ WF_resVars(ComparisonStep) /\ WF_resVars(ReportStep)

-----------------------------------------------------------------------------
(* Properties.                                                             *)
CmpAccepted == cmp.api = "accepted"
Shown(statuses) == {v \in Vehicle : row[v].status \in statuses}
Available == Shown({"completed", "reused"})

\* However vehicles failed on the way, a finished comparison compares at least two
\* of them, mentions every vehicle, and the counts the progress page shows add up
\* with its report; it is completed only if it leaves nobody out.
ReportAccountsForAll ==
  CmpAccepted /\ cmp.stage \in Success =>
    /\ Cardinality(cmp.compared) >= 2
    /\ cmp.compared \cup cmp.excluded = Vehicle
    /\ Shown({"excluded"}) = cmp.excluded
    /\ Available = Vehicle \ cmp.excluded
    /\ cmp.excluded # {} => cmp.stage = "completed_degraded"

\* Files stay as long as what shows them: those of a comparison until it is itself
\* old, whatever the cleanup removes of the jobs it was made from; and a time report
\* shows as completed only with its files.
ResultsHaveFiles ==
  /\ CmpAccepted /\ cmp.stage \in Success /\ ~cmpOld =>
       listed = cmp.compared /\ listed \subseteq copied
  /\ rep = "completed" /\ ~old => repFiles

\* What was handed to the queue ends, unless its worker dies (or, for a comparison,
\* raises): the job, the comparison, and a time report whose row is there when the
\* worker looks for it, which ends or is deleted by the cleanup.
QueuedWorkEnds ==
  /\ queue ~> job.status \in Ended \cup {"expired"} \/ At("dead")
  /\ cmpQueue ~> cmp.stage \in CmpEnded \cup {"expired"} \/ cw.pc = "lost"
  /\ (rw = "mark") ~> rep \in {"completed", "failed", "none"} \/ rw = "lost"
=============================================================================
