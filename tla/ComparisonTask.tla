--------------------------- MODULE ComparisonTask ---------------------------
(***************************************************************************)
(* A comparison task: the parent's row and its vehicles' rows, the         *)
(* workflow run_comparison_task with its activities, and one child task    *)
(* for each vehicle, which behaves as TaskOutcome promises.                *)
(*                                                                         *)
(* Children outlive the parent's patience: the parent publishes with the   *)
(* vehicles it has, then waits for every child it started, and publishes   *)
(* again if one was upgraded.  An activity is one step; a worker that dies *)
(* in it makes Temporal run it again on what it left in the tables.        *)
(***************************************************************************)
EXTENDS Naturals, FiniteSets

CONSTANTS VehicleCount,
          CanImprove,     \* whether retries of children may succeed
          UserOps,        \* subset of {"cancel", "retry", "pause"}
          Faults,         \* subset of {"crash", "timeout"}
          MaxRuns,        \* bound: executions of the parent's workflow
          MaxCrashes,     \* bound: repetitions of one activity
          Fileless        \* vehicles whose result may lack the files

Vehicle == 1 .. VehicleCount    \* by position

ASSUME ComparisonAssumption ==
  /\ VehicleCount \in 2 .. 5
  /\ CanImprove \in BOOLEAN
  /\ UserOps \subseteq {"cancel", "retry", "pause"}
  /\ Faults \subseteq {"crash", "timeout"}
  /\ MaxRuns \in Nat \ {0}
  /\ MaxCrashes \in Nat
  /\ Fileless \subseteq Vehicle

VARIABLES row,      \* the tasks row of the parent
          veh,      \* its task_vehicles rows
          kid,      \* the child tasks
          made,     \* how many children were inserted for each vehicle
          files,    \* the vehicles whose result comes with the files a report needs
          report,   \* the comparison that was published last
          api,      \* the handler that starts the workflow
          wf,       \* the workflow
          crashes   \* of the activity that is running

vars == <<row, veh, kid, made, files, report, api, wf, crashes>>

Kid == INSTANCE TaskOutcome WITH Task <- Vehicle, task <- kid

Status == {"queued", "running", "retry_paused", "cancelled", "failed",
           "completed", "completed_degraded"}
VehicleStatus == {"queued", "running", "reused", "excluded", "completed", "completed_degraded"}
PC == {"closed", "load", "ensure", "start", "wait", "judge", "compare", "publish",
       "finish", "upgrade", "fail"}
NoReport == [published |-> FALSE, vehicles |-> {}, excluded |-> {}, degraded |-> {}]

CmpTypeOK ==
  /\ row \in [status: Status, degraded: BOOLEAN]
  /\ veh \in [Vehicle -> [status: VehicleStatus, linked: BOOLEAN]]
  /\ kid \in [Vehicle -> Kid!TaskState]
  /\ made \in [Vehicle -> Nat]
  /\ files \subseteq Vehicle
  /\ report \in [published: BOOLEAN, vehicles: SUBSET Vehicle, excluded: SUBSET Vehicle,
                 degraded: SUBSET Vehicle]
  /\ api \in {"idle", "starting"}
  /\ wf \in [pc: PC, at: Vehicle, runs: 0 .. MaxRuns, reused: SUBSET Vehicle,
             available: SUBSET Vehicle, excluded: SUBSET Vehicle,
             degraded: SUBSET Vehicle, upgraded: SUBSET Vehicle]
  /\ crashes \in 0 .. MaxCrashes

Execution(n) == [pc |-> "load", at |-> 1, runs |-> n, reused |-> {}, available |-> {},
                 excluded |-> {}, degraded |-> {}, upgraded |-> {}]

CmpInit ==
  /\ row = [status |-> "queued", degraded |-> FALSE]
  /\ veh = [v \in Vehicle |-> [status |-> "queued", linked |-> FALSE]]
  /\ kid = [v \in Vehicle |-> Kid!NoTask]
  /\ made = [v \in Vehicle |-> 0]
  /\ \E w \in SUBSET Fileless : files = Vehicle \ w
  /\ report = NoReport
  /\ api = "starting"
  /\ wf = [Execution(0) EXCEPT !.pc = "closed"]
  /\ crashes = 0

Running == wf.pc # "closed"

-----------------------------------------------------------------------------
(* The API: app/routes/tasks.py leaves the vehicles of a comparison alone. *)
SetStatus(s) == row' = [row EXCEPT !.status = s]

\* cancel_task and pause_retry_task: nothing else hears of them.
Overwrite ==
  /\ \E op \in UserOps \ {"retry"} :
       SetStatus(IF op = "cancel" THEN "cancelled" ELSE "retry_paused")
  /\ UNCHANGED <<veh, kid, made, files, report, api, wf, crashes>>

RetryTask ==
  /\ "retry" \in UserOps /\ api = "idle" /\ wf.runs < MaxRuns
  /\ SetStatus("queued")
  /\ api' = "starting"
  /\ UNCHANGED <<veh, kid, made, files, report, wf, crashes>>

StartWorkflow ==
  /\ api = "starting" /\ ~Running
  /\ wf' = Execution(wf.runs + 1)
  /\ api' = "idle"
  /\ UNCHANGED <<row, veh, kid, made, files, report, crashes>>

\* A workflow of this id is running.
StartRefused ==
  /\ api = "starting" /\ Running
  /\ SetStatus("failed")
  /\ api' = "idle"
  /\ UNCHANGED <<veh, kid, made, files, report, wf, crashes>>

-----------------------------------------------------------------------------
(* The workflow.                                                           *)
At(p) == wf.pc = p
Now == wf.at

\* A loop that leaves its index behind the last vehicle.
Forward_PastTheEnd(w, p) ==
  IF w.at = VehicleCount THEN [w EXCEPT !.pc = p, !.at = @ + 1] ELSE [w EXCEPT !.at = @ + 1]

\* To the next vehicle, or to the next phase after the last one.
Forward(w, p) == IF w.at = VehicleCount THEN [w EXCEPT !.pc = p, !.at = 1]
                 ELSE [w EXCEPT !.at = @ + 1]

\* The activity's effects are in the tables; either Temporal learns of it or
\* the worker has died and the activity is run again.
Return(w) ==
  \/ wf' = w /\ crashes' = 0
  \/ "crash" \in Faults /\ crashes < MaxCrashes /\ crashes' = crashes + 1 /\ UNCHANGED wf

\* load_comparison_task.  A vehicle with a source job is reused.
LoadComparison ==
  /\ At("load")
  /\ SetStatus("running")
  /\ Return([wf EXCEPT !.pc = "ensure", !.reused = {v \in Vehicle : veh[v].linked}])
  /\ UNCHANGED <<veh, kid, made, files, report, api>>

\* The loops over the vehicles pass over the reused ones.
SkipReused ==
  /\ At("ensure") \/ At("start") \/ At("finish")
  /\ Now \in wf.reused
  /\ wf' = Forward(wf, CASE At("ensure") -> "start" [] At("start") -> "wait" [] OTHER -> "upgrade")
  /\ UNCHANGED <<row, veh, kid, made, files, report, api, crashes>>

\* A child is created whether or not the vehicle has one.
EnsureChild_Always ==
  /\ At("ensure") /\ Now \notin wf.reused
  /\ kid' = [kid EXCEPT ![Now] = Kid!Queued]
  /\ made' = [made EXCEPT ![Now] = @ + 1]
  /\ veh' = [veh EXCEPT ![Now] = [status |-> "running", linked |-> TRUE]]
  /\ Return(Forward(wf, "start"))
  /\ UNCHANGED <<row, files, report, api>>

\* ensure_vehicle_subworkflow: one transaction looks for the child and inserts
\* and links it.
EnsureChild ==
  /\ At("ensure") /\ Now \notin wf.reused
  /\ IF veh[Now].linked THEN UNCHANGED <<kid, made, veh>>
     ELSE /\ Kid!Create(Now)
          /\ made' = [made EXCEPT ![Now] = @ + 1]
          /\ veh' = [veh EXCEPT ![Now] = [status |-> "running", linked |-> TRUE]]
  /\ Return(Forward(wf, "start"))
  /\ UNCHANGED <<row, files, report, api>>

\* The children one after the other, each when the one before has succeeded.
StartChild_OneByOne ==
  /\ At("start") /\ Now \notin wf.reused
  /\ \/ Kid!Open(Now) /\ UNCHANGED wf
     \/ ~kid[Now].open /\ kid[Now].status \in Kid!Usable
        /\ wf' = Forward(wf, "wait") /\ UNCHANGED kid
  /\ UNCHANGED <<row, veh, made, files, report, api, crashes>>

\* start_child_workflow: part of the parent's history, never repeated.
StartChild ==
  /\ At("start") /\ Now \notin wf.reused
  /\ Kid!Open(Now)
  /\ wf' = Forward(wf, "wait")
  /\ UNCHANGED <<row, veh, made, files, report, api, crashes>>

-----------------------------------------------------------------------------
(* wait_for_vehicle_results.                                               *)
HasEnded(v) == kid[v].status \in Kid!Result
UsableKid(v) == kid[v].status \in Kid!Usable /\ v \in files

SetVehicle(v, s) == veh' = [veh EXCEPT ![v].status = s]

\* The result of a vehicle, added to what the workflow has.
WithResult(w, v) ==
  [w EXCEPT !.available = @ \cup {v},
            !.degraded = IF kid[v].status = "completed_degraded" THEN @ \cup {v} ELSE @ \ {v},
            !.upgraded = IF kid[v].upgraded THEN @ \cup {v} ELSE @]
Without(w, v) == [w EXCEPT !.excluded = @ \cup {v}]

WaitPhase == At("wait") /\ UNCHANGED <<row, kid, made, files, report, api>>

VehicleReady ==
  /\ WaitPhase /\ HasEnded(Now) /\ UsableKid(Now)
  /\ SetVehicle(Now, IF Now \in wf.reused THEN "reused" ELSE "completed")
  /\ Return(Forward(WithResult(wf, Now), "judge"))

VehicleUnusable ==
  /\ WaitPhase /\ HasEnded(Now) /\ ~UsableKid(Now)
  /\ SetVehicle(Now, "excluded")
  /\ Return(Forward(Without(wf, Now), "judge"))

VehicleTimesOut ==
  /\ "timeout" \in Faults
  /\ WaitPhase /\ ~HasEnded(Now)
  /\ SetVehicle(Now, "excluded")
  /\ Return(Forward(Without(wf, Now), "judge"))

-----------------------------------------------------------------------------
(* The report.                                                             *)

\* A comparison of whatever is left.
Judge_AnyVehicle ==
  /\ At("judge")
  /\ wf' = [wf EXCEPT !.pc = IF wf.available = {} THEN "fail" ELSE "compare"]
  /\ UNCHANGED <<row, veh, kid, made, files, report, api, crashes>>

\* MIN_COMPARISON_RESULTS.
Judge ==
  /\ At("judge")
  /\ wf' = [wf EXCEPT !.pc = IF Cardinality(wf.available) < 2 THEN "fail" ELSE "compare"]
  /\ UNCHANGED <<row, veh, kid, made, files, report, api, crashes>>

\* mark_comparison_comparing.
MarkComparing ==
  /\ At("compare")
  /\ SetStatus("running")
  /\ Return([wf EXCEPT !.pc = "publish"])
  /\ UNCHANGED <<veh, kid, made, files, report, api>>

\* generate_comparison_report and publish_comparison_result; fallback: the
\* language model gave no conclusion.
Degraded(fallback) == wf.excluded # {} \/ wf.degraded # {} \/ fallback
Published(degraded) == IF degraded THEN "completed_degraded" ELSE "completed"

WriteReport(degraded) ==
  /\ row' = [status |-> Published(degraded), degraded |-> degraded]
  /\ veh' = [v \in Vehicle |-> [veh[v] EXCEPT !.status =
               IF v \in wf.available THEN Published(degraded) ELSE "excluded"]]
  /\ report' = [published |-> TRUE, vehicles |-> wf.available, excluded |-> wf.excluded,
                degraded |-> wf.degraded]

Publish(fallback) ==
  /\ At("publish")
  /\ WriteReport(Degraded(fallback))
  /\ Return([wf EXCEPT !.pc = "finish"])
  /\ UNCHANGED <<kid, made, files, api>>

PublishFailure ==
  /\ At("fail")
  /\ SetStatus("failed")
  /\ Return([wf EXCEPT !.pc = "closed"])
  /\ UNCHANGED <<veh, kid, made, files, report, api>>

-----------------------------------------------------------------------------
(* The wait for the children's workflows, and the upgrade.                 *)
Refreshed(v) == IF v \in wf.available THEN WithResult(wf, v) ELSE wf

\* A parent that does not read a child's result again.
ChildFinished_KeepResult ==
  /\ At("finish") /\ Now \notin wf.reused
  /\ ~kid[Now].open
  /\ wf' = Forward(wf, "upgrade")
  /\ UNCHANGED <<row, veh, kid, made, files, report, api, crashes>>

\* A child that ended well is read again, whether the report has it or not.
ChildFinished ==
  /\ At("finish") /\ Now \notin wf.reused
  /\ ~kid[Now].open
  /\ IF kid[Now].status \notin Kid!Usable
     THEN wf' = Forward(wf, "upgrade") /\ UNCHANGED <<veh, crashes>>
     ELSE IF Now \in files
     THEN SetVehicle(Now, "completed") /\ Return(Forward(Refreshed(Now), "upgrade"))
     ELSE SetVehicle(Now, "excluded") /\ Return(Forward(wf, "upgrade"))
  /\ UNCHANGED <<row, kid, made, files, report, api>>

NothingUpgraded ==
  /\ At("upgrade") /\ wf.upgraded = {}
  /\ wf' = [wf EXCEPT !.pc = "closed"]
  /\ UNCHANGED <<row, veh, kid, made, files, report, api, crashes>>

\* regenerate_comparison_after_upgrade.
Regenerate(fallback) ==
  /\ At("upgrade") /\ wf.upgraded # {}
  /\ WriteReport(Degraded(fallback))
  /\ Return([wf EXCEPT !.pc = "closed"])
  /\ UNCHANGED <<kid, made, files, api>>

-----------------------------------------------------------------------------
User == Overwrite \/ RetryTask
Api == StartWorkflow \/ StartRefused

WorkflowStep ==
  \/ LoadComparison \/ SkipReused \/ EnsureChild \/ StartChild
  \/ VehicleReady \/ VehicleUnusable \/ VehicleTimesOut
  \/ Judge \/ MarkComparing \/ PublishFailure
  \/ ChildFinished \/ NothingUpgraded
  \/ \E fallback \in BOOLEAN : Publish(fallback) \/ Regenerate(fallback)

KidStep(v) == Kid!Proceed(v) /\ UNCHANGED <<row, veh, made, files, report, api, wf, crashes>>

CmpNext == User \/ Api \/ WorkflowStep \/ \E v \in Vehicle : KidStep(v)

\* Workflows go on, the parent's and the children's (TaskMovesOn of
\* SingleVehicleTask), and so does a handler that has begun.
CmpSpec ==
  /\ CmpInit /\ [][CmpNext]_vars
  /\ WF_vars(Api) /\ WF_vars(WorkflowStep) /\ \A v \in Vehicle : WF_vars(KidStep(v))

-----------------------------------------------------------------------------
(* Properties.                                                             *)

\* Whatever is repeated, a vehicle is collected by one child, and the vehicle's row
\* knows it; the workflow inserts a child where there is none, and starts one that was
\* never started: no execution meets a workflow of its child's id.
OneChildPerVehicle ==
  /\ \A v \in Vehicle : made[v] <= 1 /\ (made[v] = 1 <=> veh[v].linked)
  /\ Now \notin wf.reused =>
       /\ At("ensure") /\ ~veh[Now].linked => kid[Now] = Kid!NoTask
       /\ At("start") => kid[Now] = Kid!Queued

\* A published comparison has at least two vehicles, each with a usable result, and
\* accounts for all the others; no vehicle of it shows as excluded, and it counts as
\* completed only if it has all vehicles, none of them with half a result.
ReportIsUsable ==
  /\ report.published =>
       /\ Cardinality(report.vehicles) >= 2
       /\ \A v \in report.vehicles : kid[v].status \in Kid!Usable /\ veh[v].status # "excluded"
       /\ report.excluded = Vehicle \ report.vehicles
  /\ row.status = "completed" =>
       report.excluded = {} /\ \A v \in Vehicle : kid[v].status = "completed"

\* When the workflow that started the children is over, no vehicle of the report
\* has a better result than the one it was compared with.
UpgradeIsPublished ==
  ~Running /\ wf.runs = 1 =>
    \A v \in report.degraded : kid[v].status = "completed_degraded" /\ ~kid[v].open

\* Every execution ends, although it waits for its children twice.
ComparisonEnds == Running ~> ~Running
=============================================================================
