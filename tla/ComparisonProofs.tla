-------------------------- MODULE ComparisonProofs --------------------------
(***************************************************************************)
(* What ComparisonTask guarantees for every number of vehicles that the    *)
(* API accepts and any number of executions and repeated activities,       *)
(* whatever the children and the user do.                                  *)
(***************************************************************************)
EXTENDS ComparisonTask, FiniteSetTheorems, TLAPS

Workflow == [pc: PC, at: Vehicle, runs: 0 .. MaxRuns, reused: SUBSET Vehicle,
             available: SUBSET Vehicle, excluded: SUBSET Vehicle,
             degraded: SUBSET Vehicle, upgraded: SUBSET Vehicle]

\* An execution that is to start is one that the bound allows.
TypeInv == CmpTypeOK /\ (api = "starting" => wf.runs < MaxRuns)

LEMMA VehicleFacts == VehicleCount \in Nat /\ 1 \in Vehicle /\ Vehicle \subseteq Nat
  BY ComparisonAssumption DEF Vehicle

-----------------------------------------------------------------------------
(* The operators of the workflow.                                          *)
LEMMA ForwardMoves ==
  ASSUME NEW w \in Workflow, NEW p \in PC
  PROVE  /\ Forward(w, p) \in Workflow
         /\ \/ w.at = VehicleCount /\ Forward(w, p).pc = p /\ Forward(w, p).at = 1
            \/ w.at # VehicleCount /\ Forward(w, p).pc = w.pc /\ Forward(w, p).at = w.at + 1
         /\ Forward(w, p).available = w.available /\ Forward(w, p).excluded = w.excluded
         /\ Forward(w, p).degraded = w.degraded /\ Forward(w, p).runs = w.runs
         /\ Forward(w, p).reused = w.reused /\ Forward(w, p).upgraded = w.upgraded
<1> USE VehicleFacts DEF Workflow, Forward
<1>1. CASE w.at = VehicleCount
  BY <1>1
<1>2. CASE w.at # VehicleCount
  <2>1. w.at + 1 \in Vehicle
    BY <1>2, ComparisonAssumption DEF Vehicle
  <2> QED
    BY <1>2, <2>1
<1> QED
  BY <1>1, <1>2

LEMMA ReturnTypes ==
  ASSUME NEW w \in Workflow, wf \in Workflow, crashes \in 0 .. MaxCrashes, Return(w)
  PROVE  wf' \in {w, wf} /\ crashes' \in 0 .. MaxCrashes
  BY ComparisonAssumption DEF Return

LEMMA ResultTypes ==
  ASSUME NEW w \in Workflow, NEW v \in Vehicle
  PROVE  /\ WithResult(w, v) \in Workflow /\ Without(w, v) \in Workflow
         /\ WithResult(w, v).at = w.at /\ WithResult(w, v).pc = w.pc
         /\ WithResult(w, v).runs = w.runs
         /\ WithResult(w, v).available = w.available \cup {v}
         /\ WithResult(w, v).excluded = w.excluded
         /\ kid[v].status = "completed_degraded" =>
              WithResult(w, v).degraded = w.degraded \cup {v}
         /\ kid[v].status # "completed_degraded" =>
              WithResult(w, v).degraded = w.degraded \ {v}
         /\ Without(w, v).at = w.at /\ Without(w, v).pc = w.pc /\ Without(w, v).runs = w.runs
         /\ Without(w, v).available = w.available /\ Without(w, v).degraded = w.degraded
         /\ Without(w, v).excluded = w.excluded \cup {v}
  BY DEF Workflow, WithResult, Without

LEMMA ResultUpgrades ==
  ASSUME NEW w \in Workflow, NEW v \in Vehicle
  PROVE  /\ WithResult(w, v).reused = w.reused /\ Without(w, v).reused = w.reused
         /\ w.upgraded \subseteq WithResult(w, v).upgraded
         /\ kid[v].upgraded => v \in WithResult(w, v).upgraded
         /\ Without(w, v).upgraded = w.upgraded
  BY DEF Workflow, WithResult, Without

\* A child's result is final, except that it may become complete.
LEMMA KidKeeps ==
  ASSUME kid \in [Vehicle -> Kid!TaskState], NEW v \in Vehicle,
         Kid!Create(v) \/ Kid!Open(v) \/ Kid!Proceed(v)
  PROVE  /\ kid' \in [Vehicle -> Kid!TaskState]
         /\ \A u \in Vehicle : /\ kid[u].status \in Kid!Usable => kid'[u].status \in Kid!Usable
                               /\ kid[u].status = "completed" => kid'[u].status = "completed"
<1> USE DEF Kid!TaskState, Kid!Result, Kid!Usable, Kid!Is
<1>1. CASE Kid!Create(v)
  BY <1>1 DEF Kid!Create, Kid!Queued
<1>2. CASE Kid!Open(v)
  BY <1>2 DEF Kid!Open
<1>3. CASE Kid!Settle(v)
  BY <1>3 DEF Kid!Settle
<1>4. CASE Kid!Improve(v)
  BY <1>4 DEF Kid!Improve
<1>5. CASE Kid!Close(v)
  BY <1>5 DEF Kid!Close
<1> QED
  BY <1>1, <1>2, <1>3, <1>4, <1>5 DEF Kid!Proceed

-----------------------------------------------------------------------------
(* The types.                                                              *)
LEMMA TypeInitially == CmpInit => TypeInv
<1> SUFFICES ASSUME CmpInit PROVE TypeInv
  OBVIOUS
<1>1. wf \in Workflow /\ wf.runs = 0
  BY VehicleFacts, ComparisonAssumption DEF CmpInit, Execution, Workflow, PC
<1>2. kid \in [Vehicle -> Kid!TaskState]
  BY DEF CmpInit, Kid!NoTask, Kid!TaskState, Kid!Result, Kid!Usable
<1>3. /\ row \in [status: Status, degraded: BOOLEAN]
      /\ veh \in [Vehicle -> [status: VehicleStatus, linked: BOOLEAN]]
      /\ made \in [Vehicle -> Nat] /\ files \subseteq Vehicle
  BY DEF CmpInit, Status, VehicleStatus
<1>4. report \in [published: BOOLEAN, vehicles: SUBSET Vehicle, excluded: SUBSET Vehicle,
                 degraded: SUBSET Vehicle]
  BY DEF CmpInit, NoReport
<1>5. api = "starting" /\ crashes \in 0 .. MaxCrashes /\ wf.runs < MaxRuns
  BY <1>1, ComparisonAssumption DEF CmpInit
<1> QED
  BY <1>1, <1>2, <1>3, <1>4, <1>5 DEF TypeInv, CmpTypeOK, Workflow

LEMMA TypeStep == TypeInv /\ [CmpNext]_vars => TypeInv'
<1> SUFFICES ASSUME TypeInv, [CmpNext]_vars PROVE TypeInv'
  OBVIOUS
<1> USE DEF TypeInv, CmpTypeOK
<1>t. /\ wf \in Workflow /\ Now \in Vehicle /\ crashes \in 0 .. MaxCrashes
      /\ kid \in [Vehicle -> Kid!TaskState]
  BY DEF Workflow, Now
<1>1. CASE User \/ Api
  <2>1. CASE User
    BY <2>1 DEF User, Overwrite, RetryTask, SetStatus, Status
  <2>2. CASE StartWorkflow
    <3>1. wf' \in Workflow
      BY <2>2, VehicleFacts, ComparisonAssumption DEF StartWorkflow, Execution, Workflow, PC
    <3> QED
      BY <3>1, <2>2 DEF StartWorkflow, Workflow
  <2>3. CASE StartRefused
    BY <2>3 DEF StartRefused, SetStatus, Status
  <2> QED
    BY <1>1, <2>1, <2>2, <2>3 DEF Api
<1>2. CASE LoadComparison
  <2>1. [wf EXCEPT !.pc = "ensure", !.reused = {v \in Vehicle : veh[v].linked}] \in Workflow
    BY <1>t DEF Workflow, PC
  <2> QED
    BY <1>t, <1>2, <2>1, ReturnTypes DEF LoadComparison, SetStatus, Status, Workflow
<1>3. CASE SkipReused
  BY <1>t, <1>3, ForwardMoves DEF SkipReused, PC, Workflow
<1>4. CASE EnsureChild
  <2>1. Forward(wf, "start") \in Workflow /\ Forward(wf, "start").runs = wf.runs
    BY <1>t, ForwardMoves DEF PC
  <2>2. kid' \in [Vehicle -> Kid!TaskState]
    BY <1>t, <1>4, KidKeeps DEF EnsureChild
  <2>3. veh' \in [Vehicle -> [status: VehicleStatus, linked: BOOLEAN]] /\ made' \in [Vehicle -> Nat]
    <3>1. CASE veh[Now].linked
      BY <1>4, <3>1 DEF EnsureChild
    <3>2. CASE ~veh[Now].linked
      <4>1. veh' = [veh EXCEPT ![Now] = [status |-> "running", linked |-> TRUE]]
        BY <1>4, <3>2 DEF EnsureChild
      <4>2. made' = [made EXCEPT ![Now] = made[Now] + 1]
        BY <1>4, <3>2 DEF EnsureChild
      <4> QED
        BY <1>t, <4>1, <4>2 DEF VehicleStatus
    <3> QED
      BY <3>1, <3>2
  <2> QED
    BY <1>t, <1>4, <2>1, <2>2, <2>3, ReturnTypes DEF EnsureChild, Workflow
<1>5. CASE StartChild
  BY <1>t, <1>5, KidKeeps, ForwardMoves DEF StartChild, PC, Workflow
<1>6. CASE VehicleReady
  <2>1. /\ Forward(WithResult(wf, Now), "judge") \in Workflow
        /\ Forward(WithResult(wf, Now), "judge").runs = wf.runs
    <3>1. WithResult(wf, Now) \in Workflow /\ WithResult(wf, Now).runs = wf.runs
      BY <1>t, ResultTypes
    <3> QED
      BY <3>1, ForwardMoves DEF PC
  <2>2. veh' \in [Vehicle -> [status: VehicleStatus, linked: BOOLEAN]]
    BY <1>t, <1>6 DEF VehicleReady, SetVehicle, VehicleStatus
  <2> QED
    BY <1>t, <1>6, <2>1, <2>2, ReturnTypes DEF VehicleReady, WaitPhase, Workflow
<1>7. CASE VehicleUnusable \/ VehicleTimesOut
  <2>1. /\ Forward(Without(wf, Now), "judge") \in Workflow
        /\ Forward(Without(wf, Now), "judge").runs = wf.runs
    <3>1. Without(wf, Now) \in Workflow /\ Without(wf, Now).runs = wf.runs
      BY <1>t, ResultTypes
    <3> QED
      BY <3>1, ForwardMoves DEF PC
  <2>2. veh' \in [Vehicle -> [status: VehicleStatus, linked: BOOLEAN]]
    BY <1>t, <1>7 DEF VehicleUnusable, VehicleTimesOut, SetVehicle, VehicleStatus
  <2> QED
    BY <1>t, <1>7, <2>1, <2>2, ReturnTypes
    DEF VehicleUnusable, VehicleTimesOut, WaitPhase, Workflow
<1>8. CASE Judge \/ NothingUpgraded
  BY <1>8 DEF Judge, NothingUpgraded, PC
<1>9. CASE MarkComparing \/ PublishFailure
  <2>1. \A p \in PC : [wf EXCEPT !.pc = p] \in Workflow /\ [wf EXCEPT !.pc = p].runs = wf.runs
    BY <1>t DEF Workflow
  <2>2. wf' \in Workflow /\ wf'.runs = wf.runs /\ crashes' \in 0 .. MaxCrashes
    BY <1>t, <1>9, <2>1, ReturnTypes DEF MarkComparing, PublishFailure, PC
  <2>3. row' \in [status: Status, degraded: BOOLEAN]
    BY <1>9 DEF MarkComparing, PublishFailure, SetStatus, Status
  <2> QED
    BY <1>9, <2>2, <2>3 DEF MarkComparing, PublishFailure, Workflow
<1>10. ASSUME NEW fallback \in BOOLEAN, Publish(fallback) \/ Regenerate(fallback)
       PROVE  TypeInv'
  <2>1. \A p \in PC : [wf EXCEPT !.pc = p] \in Workflow /\ [wf EXCEPT !.pc = p].runs = wf.runs
    BY <1>t DEF Workflow
  <2>2. Degraded(fallback) \in BOOLEAN /\ Published(Degraded(fallback)) \in Status \cap VehicleStatus
    BY DEF Degraded, Published, Status, VehicleStatus
  <2>3. /\ row' \in [status: Status, degraded: BOOLEAN]
        /\ veh' \in [Vehicle -> [status: VehicleStatus, linked: BOOLEAN]]
        /\ report' \in [published: BOOLEAN, vehicles: SUBSET Vehicle,
                        excluded: SUBSET Vehicle, degraded: SUBSET Vehicle]
    <3>1. WriteReport(Degraded(fallback))
      BY <1>10 DEF Publish, Regenerate
    <3>2. row' \in [status: Status, degraded: BOOLEAN]
      BY <3>1, <2>2 DEF WriteReport
    <3>3. veh' \in [Vehicle -> [status: VehicleStatus, linked: BOOLEAN]]
      BY <3>1, <2>2 DEF WriteReport, VehicleStatus
    <3>4. report' \in [published: BOOLEAN, vehicles: SUBSET Vehicle,
                      excluded: SUBSET Vehicle, degraded: SUBSET Vehicle]
      BY <3>1, <1>t DEF WriteReport, Workflow
    <3> QED
      BY <3>2, <3>3, <3>4
  <2>4. wf' \in Workflow /\ wf'.runs = wf.runs /\ crashes' \in 0 .. MaxCrashes
    BY <1>t, <1>10, <2>1, ReturnTypes DEF Publish, Regenerate, PC
  <2> QED
    BY <1>10, <2>3, <2>4 DEF Publish, Regenerate, Workflow
<1>11. CASE ChildFinished
  <2>1. Refreshed(Now) \in Workflow /\ Refreshed(Now).runs = wf.runs
    BY <1>t, ResultTypes DEF Refreshed
  <2>2. \A w \in {wf, Refreshed(Now)} :
          Forward(w, "upgrade") \in Workflow /\ Forward(w, "upgrade").runs = wf.runs
    BY <1>t, <2>1, ForwardMoves DEF PC
  <2>3. veh' \in [Vehicle -> [status: VehicleStatus, linked: BOOLEAN]]
    BY <1>t, <1>11 DEF ChildFinished, SetVehicle, VehicleStatus
  <2>4. wf' \in Workflow /\ wf'.runs = wf.runs /\ crashes' \in 0 .. MaxCrashes
    BY <1>t, <1>11, <2>2, ReturnTypes DEF ChildFinished
  <2> QED
    BY <1>11, <2>3, <2>4 DEF ChildFinished, Workflow
<1>12. ASSUME NEW v \in Vehicle, KidStep(v) PROVE TypeInv'
  BY <1>t, <1>12, KidKeeps DEF KidStep
<1>13. CASE UNCHANGED vars
  BY <1>13 DEF vars
<1> QED
  BY <1>1, <1>2, <1>3, <1>4, <1>5, <1>6, <1>7, <1>8, <1>9, <1>10, <1>11, <1>12, <1>13
  DEF CmpNext, WorkflowStep

\* A comparison's rows and its workflow stay in the states the code knows; no
\* execution and no repetition leaves the index of a loop outside the vehicles.
THEOREM CmpTypeCorrect == CmpSpec => []CmpTypeOK
<1>1. TypeInv => CmpTypeOK
  BY DEF TypeInv
<1> QED
  BY <1>1, TypeInitially, TypeStep, PTL DEF CmpSpec

-----------------------------------------------------------------------------
(* One child for each vehicle.                                             *)
ChildInv == \A v \in Vehicle : made[v] = IF veh[v].linked THEN 1 ELSE 0

LEMMA ChildStep == TypeInv /\ ChildInv /\ [CmpNext]_vars => ChildInv'
<1> SUFFICES ASSUME TypeInv, ChildInv, [CmpNext]_vars PROVE ChildInv'
  OBVIOUS
<1>t. /\ veh \in [Vehicle -> [status: VehicleStatus, linked: BOOLEAN]]
      /\ made \in [Vehicle -> Nat] /\ Now \in Vehicle
  BY DEF TypeInv, CmpTypeOK, Now
<1>1. CASE EnsureChild /\ ~veh[Now].linked
  <2>1. /\ veh' = [veh EXCEPT ![Now] = [status |-> "running", linked |-> TRUE]]
        /\ made' = [made EXCEPT ![Now] = made[Now] + 1]
    BY <1>1 DEF EnsureChild
  <2>2. made[Now] = 0
    BY <1>t, <1>1 DEF ChildInv
  <2>3. made'[Now] = 1 /\ veh'[Now].linked
    BY <1>t, <2>1, <2>2
  <2>4. \A v \in Vehicle : v # Now => made'[v] = made[v] /\ veh'[v] = veh[v]
    BY <1>t, <2>1
  <2> QED
    BY <2>3, <2>4 DEF ChildInv
<1>2. CASE EnsureChild /\ veh[Now].linked
  BY <1>2 DEF EnsureChild, ChildInv
<1>3. ASSUME NEW v \in Vehicle, NEW s, SetVehicle(v, s), made' = made PROVE ChildInv'
  BY <1>t, <1>3 DEF SetVehicle, ChildInv
<1>4. ASSUME NEW degraded, WriteReport(degraded), made' = made PROVE ChildInv'
  <2>1. \A v \in Vehicle : veh'[v].linked = veh[v].linked
    BY <1>t, <1>4 DEF WriteReport
  <2> QED
    BY <1>4, <2>1 DEF ChildInv
<1>5. ASSUME veh' = veh, made' = made PROVE ChildInv'
  BY <1>5 DEF ChildInv
<1>6. CASE User \/ Api \/ UNCHANGED vars \/ \E v \in Vehicle : KidStep(v)
  BY <1>5, <1>6
  DEF User, Overwrite, RetryTask, Api, StartWorkflow, StartRefused, vars, KidStep
<1>7. CASE LoadComparison \/ SkipReused \/ StartChild \/ Judge \/ MarkComparing
           \/ PublishFailure \/ NothingUpgraded
  BY <1>5, <1>7
  DEF LoadComparison, SkipReused, StartChild, Judge, MarkComparing, PublishFailure, NothingUpgraded
<1>8. CASE VehicleReady \/ VehicleUnusable \/ VehicleTimesOut
  BY <1>t, <1>3, <1>8 DEF VehicleReady, VehicleUnusable, VehicleTimesOut, WaitPhase
<1>9. CASE ChildFinished
  BY <1>t, <1>3, <1>5, <1>9 DEF ChildFinished
<1>10. CASE \E fallback \in BOOLEAN : Publish(fallback) \/ Regenerate(fallback)
  BY <1>4, <1>10 DEF Publish, Regenerate
<1> QED
  BY <1>1, <1>2, <1>6, <1>7, <1>8, <1>9, <1>10 DEF CmpNext, WorkflowStep

-----------------------------------------------------------------------------
(* The children, as tasks.                                                 *)

\* Whatever the workflow, the user or a crash does moves the children only as tasks move.
LEMMA KidsMoveOn ==
  ASSUME TypeInv, [CmpNext]_vars
  PROVE  [Kid!OutcomeNext]_kid
<1>1. kid \in [Vehicle -> Kid!TaskState] /\ Now \in Vehicle
  BY DEF TypeInv, CmpTypeOK, Now
<1> QED
  BY <1>1
  DEF Kid!OutcomeNext, CmpNext, User, Overwrite, RetryTask, Api, StartWorkflow, StartRefused,
      vars, KidStep, WorkflowStep, LoadComparison, SkipReused, EnsureChild, StartChild,
      VehicleReady, VehicleUnusable, VehicleTimesOut, WaitPhase, Judge, MarkComparing,
      PublishFailure, ChildFinished, NothingUpgraded, Publish, Regenerate

\* Until an execution is past its starts, the vehicles that were not linked when it
\* began have no child, or one that nobody has touched.
FreshInv ==
  /\ \A v \in Vehicle : ~veh[v].linked => kid[v] = Kid!NoTask
  /\ At("load") => Now = 1
  /\ At("ensure") => \A v \in Vehicle \ wf.reused : /\ veh[v].linked => kid[v] = Kid!Queued
                                                    /\ v < Now => veh[v].linked
  /\ At("start") => \A v \in Vehicle \ wf.reused : v >= Now => kid[v] = Kid!Queued

\* A task does nothing before its workflow is started.
LEMMA FreshStays ==
  ASSUME kid \in [Vehicle -> Kid!TaskState], NEW u \in Vehicle, Kid!Proceed(u)
  PROVE  \A v \in Vehicle : kid[v] \in {Kid!NoTask, Kid!Queued} => kid'[v] = kid[v]
  BY DEF Kid!Proceed, Kid!Settle, Kid!Improve, Kid!Close, Kid!Is, Kid!Result, Kid!Usable,
         Kid!NoTask, Kid!Queued, Kid!TaskState

LEMMA NextOrLast ==
  ASSUME NEW n \in Vehicle, NEW v \in Vehicle
  PROVE  /\ n = VehicleCount => v >= 1 /\ (v < n \/ v = n)
         /\ v < n + 1 => v < n \/ v = n
         /\ v >= n + 1 => v >= n /\ v # n
  BY VehicleFacts DEF Vehicle

\* Steps after the start phase, and those of others.
LEMMA FreshKept ==
  ASSUME FreshInv, \A v \in Vehicle : veh'[v].linked = veh[v].linked,
         \A v \in Vehicle : kid[v] \in {Kid!NoTask, Kid!Queued} => kid'[v] = kid[v],
         wf' = wf \/ wf'.pc \notin {"load", "ensure", "start"}
  PROVE  FreshInv'
  BY DEF FreshInv, At, Now

LEMMA FreshStep == TypeInv /\ FreshInv /\ [CmpNext]_vars => FreshInv'
<1> SUFFICES ASSUME TypeInv, FreshInv, [CmpNext]_vars PROVE FreshInv'
  OBVIOUS
<1>t. /\ wf \in Workflow /\ Now \in Vehicle /\ crashes \in 0 .. MaxCrashes
      /\ kid \in [Vehicle -> Kid!TaskState]
      /\ veh \in [Vehicle -> [status: VehicleStatus, linked: BOOLEAN]]
  BY DEF TypeInv, CmpTypeOK, Workflow, Now
<1>1. CASE LoadComparison
  <2> DEFINE w == [wf EXCEPT !.pc = "ensure", !.reused = {v \in Vehicle : veh[v].linked}]
  <2>1. /\ w.pc = "ensure" /\ w.at = wf.at /\ w.reused = {v \in Vehicle : veh[v].linked}
        /\ wf.pc = "load" /\ UNCHANGED <<veh, kid>> /\ (wf' = w \/ wf' = wf)
    BY <1>t, <1>1 DEF LoadComparison, Workflow, Return, At
  <2>2. wf.at = 1 /\ \A v \in Vehicle : ~(v < 1)
    BY <2>1 DEF FreshInv, At, Now, Vehicle
  <2> HIDE DEF w
  <2>3. CASE wf' = w
    BY <2>1, <2>2, <2>3 DEF FreshInv, At, Now
  <2>4. CASE wf' = wf
    BY <2>1, <2>4 DEF FreshInv, At, Now
  <2> QED
    BY <2>1, <2>3, <2>4
<1>2. CASE SkipReused
  <2> DEFINE p == CASE At("ensure") -> "start" [] At("start") -> "wait" [] OTHER -> "upgrade"
             w == Forward(wf, p)
  <2>1. /\ wf' = w /\ Now \in wf.reused /\ UNCHANGED <<veh, kid>>
        /\ wf.pc \in {"ensure", "start", "finish"} /\ p \in PC
        /\ p = IF wf.pc = "ensure" THEN "start" ELSE IF wf.pc = "start" THEN "wait" ELSE "upgrade"
    BY <1>2 DEF SkipReused, At, PC
  <2>2. /\ w.reused = wf.reused
        /\ \/ wf.at = VehicleCount /\ w.pc = p /\ w.at = 1
           \/ wf.at # VehicleCount /\ w.pc = wf.pc /\ w.at = wf.at + 1
    BY <1>t, <2>1, ForwardMoves
  <2> HIDE DEF p, w
  <2>3. CASE wf.at = VehicleCount /\ wf.pc = "ensure"
    <3>1. w.pc = "start" /\ \A v \in Vehicle \ wf.reused : veh[v].linked /\ kid[v] = Kid!Queued
      BY <1>t, <2>1, <2>2, <2>3, NextOrLast DEF FreshInv, At, Now
    <3> QED
      BY <2>1, <2>2, <3>1 DEF FreshInv, At, Now
  <2>4. CASE wf.at = VehicleCount /\ wf.pc # "ensure"
    <3>1. w.pc \in {"wait", "upgrade"}
      BY <2>1, <2>2, <2>4
    <3> QED
      BY <2>1, <3>1, FreshKept
  <2>5. CASE wf.at # VehicleCount
    <3>1. w.pc = wf.pc /\ w.at = wf.at + 1
      BY <2>2, <2>5
    <3>2. \A v \in Vehicle \ wf.reused : /\ v < w.at => v < wf.at
                                         /\ v >= w.at => v >= wf.at
      BY <1>t, <2>1, <3>1, NextOrLast DEF Now
    <3> QED
      BY <2>1, <2>2, <3>1, <3>2 DEF FreshInv, At, Now
  <2> QED
    BY <2>3, <2>4, <2>5
<1>3. CASE EnsureChild
  <2> DEFINE w == Forward(wf, "start")
  <2>1. /\ wf.pc = "ensure" /\ Now \notin wf.reused /\ (wf' = w \/ wf' = wf)
    BY <1>3 DEF EnsureChild, Return, At
  <2>2. /\ w.reused = wf.reused
        /\ \/ wf.at = VehicleCount /\ w.pc = "start" /\ w.at = 1
           \/ wf.at # VehicleCount /\ w.pc = "ensure" /\ w.at = wf.at + 1
    BY <1>t, <2>1, ForwardMoves DEF PC
  <2>3. /\ veh'[Now].linked /\ kid'[Now] = Kid!Queued
        /\ \A v \in Vehicle : v # Now => veh'[v] = veh[v] /\ kid'[v] = kid[v]
    <3>1. CASE veh[Now].linked
      BY <1>t, <1>3, <2>1, <3>1 DEF EnsureChild, FreshInv, At
    <3>2. CASE ~veh[Now].linked
      BY <1>t, <1>3, <3>2 DEF EnsureChild, Kid!Create
    <3> QED
      BY <3>1, <3>2
  <2> HIDE DEF w
  <2>4. CASE wf' = w
    <3>1. \A v \in Vehicle : ~veh'[v].linked => kid'[v] = Kid!NoTask
      BY <2>3 DEF FreshInv
    <3>2. \A v \in Vehicle \ wf.reused : veh'[v].linked => kid'[v] = Kid!Queued
      BY <1>t, <2>1, <2>3 DEF FreshInv, At
    <3>3. \A v \in Vehicle \ wf.reused : v < wf.at \/ v = wf.at => veh'[v].linked
      BY <1>t, <2>1, <2>3 DEF FreshInv, At, Now
    <3>4. CASE w.pc = "start"
      <4>1. \A v \in Vehicle \ wf.reused : veh'[v].linked
        BY <1>t, <2>1, <2>2, <3>3, <3>4, NextOrLast DEF Now
      <4> QED
        BY <2>2, <2>4, <3>1, <3>2, <3>4, <4>1 DEF FreshInv, At
    <3>5. CASE w.pc = "ensure" /\ w.at = wf.at + 1
      <4>1. \A v \in Vehicle \ wf.reused : v < w.at => veh'[v].linked
        BY <1>t, <3>3, <3>5, NextOrLast DEF Now
      <4> QED
        BY <2>2, <2>4, <3>1, <3>2, <3>5, <4>1 DEF FreshInv, At, Now
    <3> QED
      BY <2>2, <3>4, <3>5
  <2>5. CASE wf' = wf
    BY <1>t, <2>1, <2>3, <2>5 DEF FreshInv, At, Now
  <2> QED
    BY <2>1, <2>4, <2>5
<1>4. CASE StartChild
  <2> DEFINE w == Forward(wf, "wait")
  <2>1. /\ wf.pc = "start" /\ wf' = w /\ veh' = veh
        /\ kid[Now].status = "active" /\ kid' = [kid EXCEPT ![Now].open = TRUE]
    BY <1>4 DEF StartChild, At, Kid!Open, Kid!Is
  <2>2. /\ w.reused = wf.reused
        /\ \/ wf.at = VehicleCount /\ w.pc = "wait"
           \/ wf.at # VehicleCount /\ w.pc = "start" /\ w.at = wf.at + 1
    BY <1>t, <2>1, ForwardMoves DEF PC
  <2>3. \A v \in Vehicle : v # Now => kid'[v] = kid[v]
    BY <1>t, <2>1
  <2>4. veh[Now].linked
    BY <1>t, <2>1 DEF FreshInv, Kid!NoTask
  <2> HIDE DEF w
  <2>5. \A v \in Vehicle : ~veh'[v].linked => kid'[v] = Kid!NoTask
    BY <2>1, <2>3, <2>4 DEF FreshInv
  <2>6. w.pc \notin {"load", "ensure"}
    BY <2>2
  <2>7. ASSUME w.pc = "start", NEW v \in Vehicle \ w.reused, v >= w.at PROVE kid'[v] = Kid!Queued
    <3>1. v >= wf.at /\ v # wf.at
      BY <1>t, <2>2, <2>7, NextOrLast DEF Now
    <3> QED
      BY <2>1, <2>2, <2>3, <2>7, <3>1 DEF FreshInv, At, Now
  <2> QED
    BY <2>1, <2>5, <2>6, <2>7 DEF FreshInv, At, Now
<1>5. CASE StartWorkflow
  <2>1. wf'.pc = "load" /\ wf'.at = 1 /\ UNCHANGED <<veh, kid>>
    BY <1>5 DEF StartWorkflow, Execution
  <2> QED
    BY <2>1 DEF FreshInv, At, Now
<1>6. ASSUME NEW v \in Vehicle, KidStep(v) PROVE FreshInv'
  <2>1. veh' = veh /\ wf' = wf /\ Kid!Proceed(v)
    BY <1>6 DEF KidStep
  <2> QED
    BY <1>t, <2>1, FreshStays, FreshKept
<1>7. CASE User \/ StartRefused \/ UNCHANGED vars
  BY <1>7, FreshKept DEF User, Overwrite, RetryTask, StartRefused, vars
<1>8. CASE VehicleReady \/ VehicleUnusable \/ VehicleTimesOut
  <2>1. /\ wf.pc = "wait" /\ kid' = kid
        /\ \E s \in {"reused", "completed", "excluded"} : SetVehicle(Now, s)
    BY <1>8 DEF VehicleReady, VehicleUnusable, VehicleTimesOut, WaitPhase, At
  <2>2. \A v \in Vehicle : veh'[v].linked = veh[v].linked
    BY <1>t, <2>1 DEF SetVehicle
  <2>3. PICK w \in Workflow : w.pc = "wait" /\ w.at = wf.at /\ Return(Forward(w, "judge"))
    BY <1>t, <1>8, <2>1, ResultTypes DEF VehicleReady, VehicleUnusable, VehicleTimesOut
  <2>4. Forward(w, "judge").pc \in {"wait", "judge"}
    BY <2>3, ForwardMoves DEF PC
  <2>5. wf' = wf \/ wf'.pc \notin {"load", "ensure", "start"}
    BY <2>3, <2>4 DEF Return
  <2> QED
    BY <2>1, <2>2, <2>5, FreshKept
<1>9. CASE Judge \/ MarkComparing \/ PublishFailure \/ NothingUpgraded
  <2>1. veh' = veh /\ kid' = kid /\ (wf' = wf \/ wf'.pc \in {"fail", "compare", "publish", "closed"})
    BY <1>t, <1>9 DEF Judge, MarkComparing, PublishFailure, NothingUpgraded, Return, Workflow
  <2> QED
    BY <2>1, FreshKept
<1>10. CASE ChildFinished
  <2>1. wf.pc = "finish" /\ kid' = kid
    BY <1>10 DEF ChildFinished, At
  <2>2. \A v \in Vehicle : veh'[v].linked = veh[v].linked
    BY <1>t, <1>10 DEF ChildFinished, SetVehicle
  <2>3. Refreshed(Now) \in Workflow /\ Refreshed(Now).pc = "finish"
    BY <1>t, <2>1, ResultTypes DEF Refreshed
  <2>4. /\ Forward(wf, "upgrade").pc \in {"finish", "upgrade"}
        /\ Forward(Refreshed(Now), "upgrade").pc \in {"finish", "upgrade"}
    BY <1>t, <2>1, <2>3, ForwardMoves DEF PC
  <2>5. wf' = wf \/ wf'.pc \notin {"load", "ensure", "start"}
    BY <1>10, <2>4 DEF ChildFinished, Return
  <2> QED
    BY <2>1, <2>2, <2>5, FreshKept
<1>11. CASE \E fallback \in BOOLEAN : Publish(fallback) \/ Regenerate(fallback)
  <2>1. kid' = kid /\ (wf' = wf \/ wf'.pc \in {"finish", "closed"})
    BY <1>t, <1>11 DEF Publish, Regenerate, Return, Workflow
  <2>2. \A v \in Vehicle : veh'[v].linked = veh[v].linked
    BY <1>t, <1>11 DEF Publish, Regenerate, WriteReport
  <2> QED
    BY <2>1, <2>2, FreshKept
<1> QED
  BY <1>1, <1>2, <1>3, <1>4, <1>5, <1>6, <1>7, <1>8, <1>9, <1>10, <1>11
  DEF CmpNext, Api, WorkflowStep

\* No vehicle is collected twice: whatever is repeated after a crash, and however often
\* the user retries the comparison, the workflow inserts a child where there is none, its
\* row knows it, and starts one that was never started.
THEOREM OneChildPerVehicleAlways == CmpSpec => []OneChildPerVehicle
<1>1. CmpInit => ChildInv /\ FreshInv
  BY DEF CmpInit, ChildInv, FreshInv, At
<1>2. ASSUME TypeInv, ChildInv, FreshInv PROVE OneChildPerVehicle
  <2>1. \A v \in Vehicle : made[v] <= 1 /\ (made[v] = 1 <=> veh[v].linked)
    BY <1>2 DEF TypeInv, CmpTypeOK, ChildInv
  <2>2. /\ Now \in Vehicle /\ Now >= Now
        /\ veh \in [Vehicle -> [status: VehicleStatus, linked: BOOLEAN]]
    BY <1>2, VehicleFacts DEF TypeInv, CmpTypeOK, Now, Vehicle
  <2> QED
    BY <1>2, <2>1, <2>2 DEF FreshInv, OneChildPerVehicle
<1> QED
  BY <1>1, <1>2, TypeInitially, TypeStep, ChildStep, FreshStep, PTL DEF CmpSpec

\* A comparison and its crashes do to the children only what may be done to tasks that
\* no user touches (which never keeps it waiting, as they are fresh when it needs them).
THEOREM ChildrenKeepTheirOutcome == CmpSpec => Kid!OutcomeSpec
<1>1. CmpInit => Kid!OutcomeInit
  BY DEF CmpInit, Kid!OutcomeInit
<1>2. TypeInv /\ [CmpNext]_vars => [Kid!OutcomeNext]_kid
  BY KidsMoveOn
<1> QED
  BY <1>1, <1>2, TypeInitially, TypeStep, PTL DEF CmpSpec, Kid!OutcomeSpec

-----------------------------------------------------------------------------
(* What the workflow has, and what it publishes.                           *)

\* The result of a vehicle that once was usable remains so.
LEMMA UsableStays ==
  ASSUME TypeInv, [CmpNext]_vars, NEW v \in Vehicle
  PROVE  /\ UsableKid(v) => UsableKid(v)'
         /\ kid[v].status = "completed" => kid'[v].status = "completed"
<1>t. kid \in [Vehicle -> Kid!TaskState] /\ Now \in Vehicle
  BY DEF TypeInv, CmpTypeOK, Now
<1>1. files' = files
  BY DEF CmpNext, User, Overwrite, RetryTask, Api, StartWorkflow, StartRefused, vars,
         KidStep, WorkflowStep, LoadComparison, SkipReused, EnsureChild, StartChild,
         VehicleReady, VehicleUnusable, VehicleTimesOut, WaitPhase, Judge, MarkComparing,
         PublishFailure, ChildFinished, NothingUpgraded, Publish, Regenerate
<1>2. kid' = kid \/ \E u \in Vehicle : Kid!Create(u) \/ Kid!Open(u) \/ Kid!Proceed(u)
  BY KidsMoveOn DEF Kid!OutcomeNext
<1>3. CASE kid' = kid
  BY <1>1, <1>3 DEF UsableKid
<1>4. CASE \E u \in Vehicle : Kid!Create(u) \/ Kid!Open(u) \/ Kid!Proceed(u)
  <2>1. PICK u \in Vehicle : Kid!Create(u) \/ Kid!Open(u) \/ Kid!Proceed(u)
    BY <1>4
  <2>2. /\ kid[v].status \in Kid!Usable => kid'[v].status \in Kid!Usable
        /\ kid[v].status = "completed" => kid'[v].status = "completed"
    BY <1>t, <2>1, KidKeeps
  <2> QED
    BY <1>1, <2>2 DEF UsableKid
<1> QED
  BY <1>2, <1>3, <1>4

\* The vehicles that the workflow has, and those it leaves out.
WorkInv ==
  /\ \A v \in wf.available : UsableKid(v) /\ (v \in wf.degraded \/ kid[v].status = "completed")
  /\ wf.pc \in {"load", "ensure", "start"} => wf.available = {} /\ wf.excluded = {}
  /\ wf.pc = "wait" => /\ wf.available \cup wf.excluded = {v \in Vehicle : v < wf.at}
                       /\ wf.available \cap wf.excluded = {}
  /\ wf.pc \in {"judge", "compare", "publish", "finish", "upgrade", "fail"} =>
       wf.excluded = Vehicle \ wf.available
  /\ wf.pc \in {"compare", "publish", "finish", "upgrade"} => Cardinality(wf.available) >= 2

\* A workflow whose record is the same, or differs only in its phase, for which
\* nothing more is required.
LEMMA SameWork ==
  ASSUME TypeInv, WorkInv, [CmpNext]_vars, wf' = wf
  PROVE  WorkInv'
<1>t. wf.available \subseteq Vehicle
  BY DEF TypeInv, CmpTypeOK
<1>1. \A v \in wf.available : UsableKid(v)' /\ (v \in wf.degraded \/ kid'[v].status = "completed")
  BY <1>t, UsableStays DEF WorkInv
<1> QED
  BY <1>1 DEF WorkInv

LEMMA NextWork ==
  ASSUME TypeInv, WorkInv, [CmpNext]_vars,
         wf'.available = wf.available, wf'.excluded = wf.excluded, wf'.degraded = wf.degraded,
         \/ wf'.pc = "closed"
         \/ {wf.pc, wf'.pc} \subseteq {"load", "ensure", "start"}
         \/ wf.pc = "start" /\ wf'.pc = "wait" /\ wf'.at = 1
         \/ wf.pc = "judge" /\ wf'.pc = "fail"
         \/ wf.pc = "judge" /\ wf'.pc = "compare" /\ Cardinality(wf.available) >= 2
         \/ {wf.pc, wf'.pc} \subseteq {"compare", "publish", "finish", "upgrade"}
  PROVE  WorkInv'
<1>t. wf.available \subseteq Vehicle
  BY DEF TypeInv, CmpTypeOK
<1>1. \A v \in wf.available : UsableKid(v)' /\ (v \in wf.degraded \/ kid'[v].status = "completed")
  BY <1>t, UsableStays DEF WorkInv
<1>2. {v \in Vehicle : v < 1} = {}
  BY DEF Vehicle
<1> QED
  BY <1>1, <1>2 DEF WorkInv

LEMMA WorkStep == TypeInv /\ WorkInv /\ [CmpNext]_vars => WorkInv'
<1> SUFFICES ASSUME TypeInv, WorkInv, [CmpNext]_vars PROVE WorkInv'
  OBVIOUS
<1>t. /\ wf \in Workflow /\ Now \in Vehicle /\ crashes \in 0 .. MaxCrashes
      /\ kid \in [Vehicle -> Kid!TaskState] /\ wf.available \subseteq Vehicle
      /\ wf.excluded \subseteq Vehicle /\ Now = wf.at
  BY DEF TypeInv, CmpTypeOK, Workflow, Now
<1>1. CASE User \/ StartRefused \/ UNCHANGED vars \/ \E v \in Vehicle : KidStep(v)
  BY <1>1, SameWork DEF User, Overwrite, RetryTask, StartRefused, vars, KidStep
<1>2. CASE StartWorkflow
  BY <1>2 DEF StartWorkflow, Execution, WorkInv
<1>3. CASE LoadComparison
  <2> DEFINE w == [wf EXCEPT !.pc = "ensure", !.reused = {v \in Vehicle : veh[v].linked}]
  <2>1. /\ w \in Workflow /\ w.pc = "ensure" /\ w.available = wf.available
        /\ w.excluded = wf.excluded /\ w.degraded = wf.degraded
    BY <1>t DEF Workflow, PC
  <2>2. wf.pc = "load" /\ Return(w)
    BY <1>3 DEF LoadComparison, At
  <2>3. wf' \in {w, wf}
    BY <1>t, <2>1, <2>2, ReturnTypes
  <2> HIDE DEF w
  <2> QED
    BY <2>1, <2>2, <2>3, SameWork, NextWork
<1>4. CASE SkipReused
  <2> DEFINE p == CASE At("ensure") -> "start" [] At("start") -> "wait" [] OTHER -> "upgrade"
  <2>1. /\ wf' = Forward(wf, p) /\ p \in PC
        /\ \/ wf.pc = "ensure" /\ p = "start"
           \/ wf.pc = "start" /\ p = "wait"
           \/ wf.pc = "finish" /\ p = "upgrade"
    <3>1. CASE wf.pc = "ensure"
      BY <1>4, <3>1 DEF SkipReused, At, PC
    <3>2. CASE wf.pc = "start"
      BY <1>4, <3>2 DEF SkipReused, At, PC
    <3>3. CASE wf.pc = "finish"
      BY <1>4, <3>3 DEF SkipReused, At, PC
    <3> QED
      BY <1>4, <3>1, <3>2, <3>3 DEF SkipReused, At
  <2> HIDE DEF p
  <2> QED
    BY <1>t, <2>1, ForwardMoves, NextWork
<1>5. CASE EnsureChild
  <2>1. wf.pc = "ensure" /\ Return(Forward(wf, "start"))
    BY <1>5 DEF EnsureChild, At
  <2>2. wf' \in {Forward(wf, "start"), wf}
    BY <1>t, <2>1, ForwardMoves, ReturnTypes DEF PC
  <2> QED
    BY <1>t, <2>1, <2>2, ForwardMoves, SameWork, NextWork DEF PC
<1>6. CASE StartChild
  <2>1. wf.pc = "start" /\ wf' = Forward(wf, "wait")
    BY <1>6 DEF StartChild, At
  <2> QED
    BY <1>t, <2>1, ForwardMoves, NextWork DEF PC
<1>7. ASSUME NEW w \in Workflow, wf.pc = "wait", w.pc = "wait", w.at = wf.at,
             wf' = Forward(w, "judge"),
             w.available \cup w.excluded = wf.available \cup wf.excluded \cup {Now},
             w.available \cap w.excluded = {},
             \A v \in w.available : UsableKid(v) /\ (v \in w.degraded \/ kid[v].status = "completed")
      PROVE  WorkInv'
  <2>1. /\ wf'.available = w.available /\ wf'.excluded = w.excluded /\ wf'.degraded = w.degraded
        /\ \/ w.at = VehicleCount /\ wf'.pc = "judge"
           \/ w.at # VehicleCount /\ wf'.pc = "wait" /\ wf'.at = w.at + 1
    BY <1>7, ForwardMoves DEF PC
  <2>2. \A v \in w.available :
          UsableKid(v)' /\ (v \in w.degraded \/ kid'[v].status = "completed")
    BY <1>7, UsableStays DEF Workflow
  <2>3. w.available \cup w.excluded = {v \in Vehicle : v < w.at + 1}
    <3>1. wf.available \cup wf.excluded = {v \in Vehicle : v < wf.at}
      BY <1>7 DEF WorkInv
    <3>2. \A v \in Vehicle : v < wf.at + 1 <=> v < wf.at \/ v = wf.at
      BY <1>t, VehicleFacts
    <3> QED
      BY <1>t, <1>7, <3>1, <3>2
  <2>4. CASE w.at = VehicleCount
    <3>1. w.available \cup w.excluded = Vehicle
      BY <2>3, <2>4, VehicleFacts DEF Vehicle
    <3> QED
      BY <1>7, <2>1, <2>2, <2>4, <3>1 DEF WorkInv
  <2>5. CASE w.at # VehicleCount
    BY <1>7, <2>1, <2>2, <2>3, <2>5 DEF WorkInv
  <2> QED
    BY <2>4, <2>5
<1>8. CASE VehicleReady
  <2> DEFINE w == WithResult(wf, Now)
  <2>1. /\ w \in Workflow /\ w.at = wf.at /\ w.pc = wf.pc /\ w.excluded = wf.excluded
        /\ w.available = wf.available \cup {Now}
        /\ kid[Now].status = "completed_degraded" => w.degraded = wf.degraded \cup {Now}
        /\ kid[Now].status # "completed_degraded" => w.degraded = wf.degraded \ {Now}
    BY <1>t, ResultTypes
  <2>2. wf.pc = "wait" /\ UsableKid(Now) /\ Return(Forward(w, "judge"))
    BY <1>8 DEF VehicleReady, WaitPhase, At
  <2> HIDE DEF w
  <2>3. wf' \in {Forward(w, "judge"), wf}
    BY <1>t, <2>1, <2>2, ForwardMoves, ReturnTypes DEF PC
  <2>4. Now \notin wf.available \cup wf.excluded
    BY <1>t, <2>2, VehicleFacts DEF WorkInv
  <2>5. \A v \in w.available : UsableKid(v) /\ (v \in w.degraded \/ kid[v].status = "completed")
    BY <2>1, <2>2 DEF WorkInv, UsableKid, Kid!Usable
  <2>6. w.available \cap w.excluded = {}
    BY <2>1, <2>2, <2>4 DEF WorkInv
  <2> QED
    BY <1>7, <2>1, <2>2, <2>3, <2>5, <2>6, SameWork
<1>9. CASE VehicleUnusable \/ VehicleTimesOut
  <2> DEFINE w == Without(wf, Now)
  <2>1. /\ w \in Workflow /\ w.at = wf.at /\ w.pc = wf.pc /\ w.available = wf.available
        /\ w.excluded = wf.excluded \cup {Now} /\ w.degraded = wf.degraded
    BY <1>t, ResultTypes
  <2>2. wf.pc = "wait" /\ Return(Forward(w, "judge"))
    BY <1>9 DEF VehicleUnusable, VehicleTimesOut, WaitPhase, At
  <2> HIDE DEF w
  <2>3. wf' \in {Forward(w, "judge"), wf}
    BY <1>t, <2>1, <2>2, ForwardMoves, ReturnTypes DEF PC
  <2>4. Now \notin wf.available \cup wf.excluded
    BY <1>t, <2>2, VehicleFacts DEF WorkInv
  <2>5. \A v \in w.available : UsableKid(v) /\ (v \in w.degraded \/ kid[v].status = "completed")
    BY <2>1 DEF WorkInv
  <2>6. w.available \cap w.excluded = {}
    BY <2>1, <2>2, <2>4 DEF WorkInv
  <2> QED
    BY <1>7, <2>1, <2>2, <2>3, <2>5, <2>6, SameWork
<1>10. CASE Judge
  <2>1. /\ wf.pc = "judge"
        /\ wf' = [wf EXCEPT !.pc = IF Cardinality(wf.available) < 2 THEN "fail" ELSE "compare"]
    BY <1>10 DEF Judge, At
  <2>2. Cardinality(wf.available) \in Nat
    <3>1. IsFiniteSet(1 .. VehicleCount)
      BY VehicleFacts, FS_Interval
    <3>2. IsFiniteSet(wf.available)
      BY <1>t, <3>1, FS_Subset DEF Vehicle
    <3> QED
      BY <3>2, FS_CardinalityType
  <2> QED
    BY <1>t, <2>1, <2>2, NextWork DEF Workflow
<1>11. CASE MarkComparing \/ PublishFailure \/ \E fallback \in BOOLEAN : Publish(fallback)
  <2>1. PICK p \in {"publish", "closed", "finish"} :
          /\ Return([wf EXCEPT !.pc = p])
          /\ p # "closed" => wf.pc \in {"compare", "publish"}
    BY <1>11 DEF MarkComparing, PublishFailure, Publish, At
  <2>2. [wf EXCEPT !.pc = p] \in Workflow
    BY <1>t DEF Workflow, PC
  <2>3. wf' \in {[wf EXCEPT !.pc = p], wf}
    BY <1>t, <2>1, <2>2, ReturnTypes
  <2> QED
    BY <1>t, <2>1, <2>3, SameWork, NextWork DEF Workflow
<1>12. CASE NothingUpgraded \/ \E fallback \in BOOLEAN : Regenerate(fallback)
  <2>1. [wf EXCEPT !.pc = "closed"] \in Workflow
    BY <1>t DEF Workflow, PC
  <2>2. wf' \in {[wf EXCEPT !.pc = "closed"], wf}
    BY <1>t, <1>12, <2>1, ReturnTypes DEF NothingUpgraded, Regenerate
  <2> QED
    BY <1>t, <2>2, SameWork, NextWork DEF Workflow
<1>13. CASE ChildFinished
  <2>1. /\ wf.pc = "finish"
        /\ \/ wf' = Forward(wf, "upgrade") \/ Return(Forward(wf, "upgrade"))
           \/ UsableKid(Now) /\ Return(Forward(Refreshed(Now), "upgrade"))
    BY <1>13 DEF ChildFinished, At, UsableKid
  <2>2. CASE wf' = Forward(wf, "upgrade") \/ Return(Forward(wf, "upgrade"))
    <3>1. wf' \in {Forward(wf, "upgrade"), wf}
      BY <1>t, <2>2, ForwardMoves, ReturnTypes DEF PC
    <3> QED
      BY <1>t, <2>1, <3>1, ForwardMoves, SameWork, NextWork DEF PC
  <2>3. CASE UsableKid(Now) /\ Return(Forward(Refreshed(Now), "upgrade"))
    <3> DEFINE w == Refreshed(Now)
    <3>1. /\ w \in Workflow /\ w.pc = "finish" /\ w.available = wf.available
          /\ w.excluded = wf.excluded
          /\ \A v \in w.available : v \in w.degraded \/ kid[v].status = "completed"
      <4>1. CASE Now \notin wf.available
        BY <1>t, <2>1, <4>1 DEF Refreshed, WorkInv
      <4>2. CASE Now \in wf.available
        <5>1. w = WithResult(wf, Now)
          BY <4>2 DEF Refreshed
        <5> HIDE DEF w
        <5>2. /\ w \in Workflow /\ w.pc = "finish" /\ w.available = wf.available \cup {Now}
              /\ w.excluded = wf.excluded
              /\ kid[Now].status = "completed_degraded" => w.degraded = wf.degraded \cup {Now}
              /\ kid[Now].status # "completed_degraded" => w.degraded = wf.degraded \ {Now}
          BY <1>t, <2>1, <5>1, ResultTypes
        <5> QED
          BY <2>3, <4>2, <5>2 DEF WorkInv, UsableKid, Kid!Usable
      <4> QED
        BY <4>1, <4>2
    <3> HIDE DEF w
    <3>2. wf' \in {Forward(w, "upgrade"), wf}
      BY <1>t, <2>3, <3>1, ForwardMoves, ReturnTypes DEF PC, w
    <3>3. CASE wf' = Forward(w, "upgrade")
      <4>1. /\ wf'.available = wf.available /\ wf'.excluded = wf.excluded
            /\ wf'.degraded = w.degraded /\ wf'.pc \in {"finish", "upgrade"}
        BY <3>1, <3>3, ForwardMoves DEF PC
      <4>2. \A v \in wf.available :
              UsableKid(v)' /\ (v \in w.degraded \/ kid'[v].status = "completed")
        BY <1>t, <3>1, UsableStays DEF WorkInv
      <4> QED
        BY <2>1, <4>1, <4>2 DEF WorkInv
    <3> QED
      BY <3>2, <3>3, SameWork
  <2> QED
    BY <2>1, <2>2, <2>3
<1> QED
  BY <1>1, <1>2, <1>3, <1>4, <1>5, <1>6, <1>8, <1>9, <1>10, <1>11, <1>12, <1>13
  DEF CmpNext, Api, WorkflowStep

\* What was published is still what the children have, and what the rows show.
ReportInv ==
  /\ report.published => /\ Cardinality(report.vehicles) >= 2
                         /\ report.excluded = Vehicle \ report.vehicles
  /\ \A v \in report.vehicles : UsableKid(v) /\ veh[v].status # "excluded"
  /\ row.status = "completed" =>
       report.excluded = {} /\ \A v \in Vehicle : kid[v].status = "completed"

LEMMA SameReport ==
  ASSUME TypeInv, ReportInv, [CmpNext]_vars, report' = report,
         row'.status = "completed" => row.status = "completed",
         \A v \in report.vehicles : veh'[v].status = "excluded" => veh[v].status = "excluded"
  PROVE  ReportInv'
<1>1. report.vehicles \subseteq Vehicle
  BY DEF TypeInv, CmpTypeOK
<1> QED
  BY <1>1, UsableStays DEF ReportInv

\* A report has what the workflow has; it is degraded if anything is missing.
LEMMA NewReport ==
  ASSUME TypeInv, WorkInv, [CmpNext]_vars, wf.pc \in {"publish", "upgrade"},
         NEW fallback \in BOOLEAN, WriteReport(Degraded(fallback))
  PROVE  ReportInv'
<1> DEFINE d == Degraded(fallback)
<1>1. /\ wf.available \subseteq Vehicle
      /\ veh \in [Vehicle -> [status: VehicleStatus, linked: BOOLEAN]]
      /\ row \in [status: Status, degraded: BOOLEAN]
  BY DEF TypeInv, CmpTypeOK
<1>2. wf.excluded = Vehicle \ wf.available /\ Cardinality(wf.available) >= 2
  BY DEF WorkInv
<1>3. /\ report'.vehicles = wf.available /\ report'.excluded = wf.excluded
      /\ row'.status = Published(d)
  BY DEF WriteReport
<1>4. \A v \in wf.available : UsableKid(v)' /\ veh'[v].status # "excluded"
  <2>1. \A v \in wf.available : UsableKid(v)'
    BY <1>1, UsableStays DEF WorkInv
  <2>2. \A v \in wf.available : veh'[v].status = Published(d)
    BY <1>1 DEF WriteReport
  <2> QED
    BY <2>1, <2>2 DEF Published
<1>5. ASSUME row'.status = "completed"
      PROVE  wf.excluded = {} /\ \A v \in Vehicle : kid'[v].status = "completed"
  <2>1. wf.excluded = {} /\ wf.degraded = {}
    BY <1>3, <1>5 DEF Published, Degraded
  <2>2. \A v \in Vehicle : v \in wf.available
    BY <1>2, <2>1
  <2>3. \A v \in Vehicle : kid[v].status = "completed"
    BY <2>1, <2>2 DEF WorkInv
  <2> QED
    BY <2>1, <2>3, UsableStays
<1> HIDE DEF d
<1> QED
  BY <1>2, <1>3, <1>4, <1>5 DEF ReportInv

LEMMA ReportStep == TypeInv /\ WorkInv /\ ReportInv /\ [CmpNext]_vars => ReportInv'
<1> SUFFICES ASSUME TypeInv, WorkInv, ReportInv, [CmpNext]_vars PROVE ReportInv'
  OBVIOUS
<1>t. /\ veh \in [Vehicle -> [status: VehicleStatus, linked: BOOLEAN]]
      /\ row \in [status: Status, degraded: BOOLEAN]
      /\ Now \in Vehicle /\ report.vehicles \subseteq Vehicle
      /\ \A v \in report.vehicles : UsableKid(v)
  BY DEF TypeInv, CmpTypeOK, Now, ReportInv
<1>1. ASSUME NEW s \in Status, SetStatus(s), s # "completed", veh' = veh, report' = report
      PROVE  ReportInv'
  <2>1. row'.status = s
    BY <1>t, <1>1 DEF SetStatus
  <2> QED
    BY <1>1, <2>1, SameReport
<1>2. ASSUME NEW s \in VehicleStatus, SetVehicle(Now, s), row' = row, report' = report,
             s # "excluded" \/ Now \notin report.vehicles
      PROVE  ReportInv'
  <2>1. \A v \in report.vehicles : veh'[v].status = "excluded" => veh[v].status = "excluded"
    BY <1>t, <1>2 DEF SetVehicle
  <2> QED
    BY <1>2, <2>1, SameReport
<1>3. CASE row' = row /\ veh' = veh /\ report' = report
  BY <1>3, SameReport
<1>4. CASE Overwrite \/ RetryTask \/ StartRefused
  BY <1>1, <1>4 DEF Overwrite, RetryTask, StartRefused, Status
<1>5. CASE LoadComparison \/ MarkComparing \/ PublishFailure
  BY <1>1, <1>5 DEF LoadComparison, MarkComparing, PublishFailure, Status
<1>6. CASE StartWorkflow \/ SkipReused \/ StartChild \/ Judge \/ NothingUpgraded
           \/ UNCHANGED vars \/ \E v \in Vehicle : KidStep(v)
  BY <1>3, <1>6 DEF StartWorkflow, SkipReused, StartChild, Judge, NothingUpgraded, vars, KidStep
<1>7. CASE EnsureChild
  <2>1. \A v \in report.vehicles : veh'[v].status = "excluded" => veh[v].status = "excluded"
    <3>1. CASE veh[Now].linked
      BY <1>7, <3>1 DEF EnsureChild
    <3>2. CASE ~veh[Now].linked
      <4>1. veh' = [veh EXCEPT ![Now] = [status |-> "running", linked |-> TRUE]]
        BY <1>7, <3>2 DEF EnsureChild
      <4> QED
        BY <1>t, <4>1
    <3> QED
      BY <3>1, <3>2
  <2> QED
    BY <1>7, <2>1, SameReport DEF EnsureChild
<1>8. CASE VehicleReady
  BY <1>2, <1>8 DEF VehicleReady, WaitPhase, VehicleStatus
<1>9. CASE VehicleUnusable \/ VehicleTimesOut
  <2>1. ~UsableKid(Now)
    BY <1>9 DEF VehicleUnusable, VehicleTimesOut, HasEnded, UsableKid, Kid!Usable, Kid!Result
  <2> QED
    BY <1>t, <1>2, <1>9, <2>1 DEF VehicleUnusable, VehicleTimesOut, WaitPhase, VehicleStatus
<1>10. CASE ChildFinished
  <2>1. CASE kid[Now].status \notin Kid!Usable
    BY <1>3, <1>10, <2>1 DEF ChildFinished
  <2>2. CASE kid[Now].status \in Kid!Usable /\ Now \in files
    BY <1>2, <1>10, <2>2 DEF ChildFinished, VehicleStatus
  <2>3. CASE kid[Now].status \in Kid!Usable /\ Now \notin files
    BY <1>t, <1>2, <1>10, <2>3 DEF ChildFinished, VehicleStatus, UsableKid
  <2> QED
    BY <2>1, <2>2, <2>3
<1>11. ASSUME NEW fallback \in BOOLEAN, Publish(fallback) \/ Regenerate(fallback)
       PROVE  ReportInv'
  BY <1>11, NewReport DEF Publish, Regenerate, At
<1> QED
  BY <1>4, <1>5, <1>6, <1>7, <1>8, <1>9, <1>10, <1>11 DEF CmpNext, User, Api, WorkflowStep

\* However children fail, are late or improve, and whatever the user does meanwhile,
\* what a comparison has published is usable and accounts for every vehicle.
THEOREM ReportIsAlwaysUsable == CmpSpec => []ReportIsUsable
<1>1. CmpInit => WorkInv
  BY DEF CmpInit, Execution, WorkInv
<1>2. CmpInit => ReportInv
  BY DEF CmpInit, NoReport, ReportInv
<1>3. ReportInv => ReportIsUsable
  BY DEF ReportInv, ReportIsUsable, UsableKid
<1> QED
  BY <1>1, <1>2, <1>3, TypeInitially, TypeStep, WorkStep, ReportStep, PTL DEF CmpSpec

-----------------------------------------------------------------------------
(* Better results are published.                                           *)

\* The workflow has waited for the child's.
WaitedFor(v) == (wf.pc = "finish" /\ v < wf.at) \/ wf.pc = "upgrade"

HalfOrBetter(v) ==
  kid[v].status = "completed_degraded" \/ (kid[v].status = "completed" /\ kid[v].upgraded)
HalfForGood(v) == kid[v].status = "completed_degraded" /\ ~kid[v].open
NotLinked == \A v \in Vehicle : ~veh[v].linked
Judging == {"judge", "compare", "publish"}
BeforeReport == {"load", "ensure", "start", "wait", "judge", "compare", "fail"}

\* In the first execution no vehicle is passed over, and of each vehicle that it has
\* waited for it knows the last result; what was published as half a result is still
\* that, or the child says that it has become better.
FirstInv ==
  /\ wf.pc = "load" => NotLinked
  /\ wf.pc \in BeforeReport => report.degraded = {}
  /\ wf.pc \in Judging => wf.at = 1
  /\ wf.reused = {} /\ wf.degraded \subseteq wf.available
  /\ \A v \in wf.degraded \cup report.degraded : HalfOrBetter(v)
  /\ wf.pc \in {"finish", "upgrade"} => report.degraded \subseteq wf.available
  /\ \A v \in wf.available : WaitedFor(v) =>
       /\ ~kid[v].open
       /\ v \in wf.degraded => kid[v].status = "completed_degraded"
       /\ kid[v].upgraded => v \in wf.upgraded
  /\ wf.pc = "closed" => \A v \in report.degraded : HalfForGood(v)

UpgradeInv ==
  /\ wf.runs = 0 => wf.pc = "closed" /\ NotLinked /\ report.degraded = {}
  /\ wf.runs = 1 => FirstInv

\* Half a result stays one or becomes better; a child that has closed with a usable
\* result no longer changes.
LEMMA KidSettles ==
  ASSUME TypeInv, [CmpNext]_vars, NEW v \in Vehicle
  PROVE  /\ HalfOrBetter(v) => HalfOrBetter(v)'
         /\ ~kid[v].open /\ kid[v].status \in Kid!Usable => kid'[v] = kid[v]
<1>t. kid \in [Vehicle -> Kid!TaskState] /\ Now \in Vehicle
  BY DEF TypeInv, CmpTypeOK, Now
<1>1. kid' = kid \/ \E u \in Vehicle : Kid!Create(u) \/ Kid!Open(u) \/ Kid!Proceed(u)
  BY <1>t
  DEF CmpNext, User, Overwrite, RetryTask, Api, StartWorkflow, StartRefused, vars,
      KidStep, WorkflowStep, LoadComparison, SkipReused, EnsureChild, StartChild,
      VehicleReady, VehicleUnusable, VehicleTimesOut, WaitPhase, Judge, MarkComparing,
      PublishFailure, ChildFinished, NothingUpgraded, Publish, Regenerate
<1>2. CASE kid' = kid
  BY <1>2 DEF HalfOrBetter
<1>3. ASSUME NEW u \in Vehicle, Kid!Create(u) \/ Kid!Open(u) \/ Kid!Proceed(u)
      PROVE  /\ HalfOrBetter(v) => HalfOrBetter(v)'
             /\ ~kid[v].open /\ kid[v].status \in Kid!Usable => kid'[v] = kid[v]
  <2> USE DEF HalfOrBetter, Kid!TaskState, Kid!Result, Kid!Usable, Kid!Is
  <2>1. CASE Kid!Create(u)
    BY <1>t, <2>1 DEF Kid!Create, Kid!Queued
  <2>2. CASE Kid!Open(u)
    BY <1>t, <2>2 DEF Kid!Open
  <2>3. CASE Kid!Settle(u)
    BY <1>t, <2>3 DEF Kid!Settle
  <2>4. CASE Kid!Improve(u)
    BY <1>t, <2>4 DEF Kid!Improve
  <2>5. CASE Kid!Close(u)
    BY <1>t, <2>5 DEF Kid!Close
  <2> QED
    BY <1>3, <2>1, <2>2, <2>3, <2>4, <2>5 DEF Kid!Proceed
<1> QED
  BY <1>1, <1>2, <1>3

\* A step of the first execution that changes none of its sets, nor the report, and
\* waits for no child.
LEMMA SameUpgrades ==
  ASSUME TypeInv, WorkInv, UpgradeInv, [CmpNext]_vars, report' = report,
         wf'.runs = wf.runs, wf'.reused = wf.reused, wf'.available = wf.available,
         wf'.degraded = wf.degraded, wf'.upgraded = wf.upgraded,
         \/ wf'.pc = wf.pc /\ wf'.at = wf.at
         \/ wf.pc \in BeforeReport /\ wf'.pc \in (BeforeReport \ {"load"}) \cup {"publish"}
         \/ wf.pc = "fail" /\ wf'.pc = "closed",
         wf.runs = 1 /\ wf'.pc \in Judging => wf'.at = 1,
         \/ \A v \in Vehicle : veh'[v].linked = veh[v].linked
         \/ wf'.pc \notin {"load", "closed"}
  PROVE  UpgradeInv'
<1>t. wf.available \subseteq Vehicle /\ report.degraded \subseteq Vehicle
  BY DEF TypeInv, CmpTypeOK
<1>1. CASE wf.runs = 0
  BY <1>1 DEF UpgradeInv, BeforeReport, NotLinked
<1>2. CASE wf.runs = 1
  <2>1. FirstInv
    BY <1>2 DEF UpgradeInv
  <2>2. \A v \in wf.degraded \cup report.degraded : HalfOrBetter(v)'
    BY <1>t, <2>1, KidSettles DEF FirstInv
  <2>3. \A v \in wf.available : WaitedFor(v)' => /\ WaitedFor(v) /\ kid'[v] = kid[v]
    <3>1. \A v \in wf.available : WaitedFor(v)' => WaitedFor(v)
      BY DEF WaitedFor, BeforeReport
    <3>2. \A v \in wf.available : WaitedFor(v) => ~kid[v].open /\ kid[v].status \in Kid!Usable
      BY <2>1 DEF FirstInv, WorkInv, UsableKid
    <3> QED
      BY <1>t, <3>1, <3>2, KidSettles
  <2>4. wf'.pc = "closed" => \A v \in report.degraded : HalfForGood(v)'
    BY <1>t, <2>1, KidSettles DEF FirstInv, HalfForGood, BeforeReport, Kid!Usable
  <2>5. wf'.pc = "load" => wf.pc = "load" /\ NotLinked'
    BY <2>1 DEF FirstInv, NotLinked
  <2>6. wf'.pc \in BeforeReport => wf.pc \in BeforeReport
    BY DEF BeforeReport
  <2>7. wf'.pc \in {"finish", "upgrade"} => wf.pc \in {"finish", "upgrade"}
    BY DEF BeforeReport
  <2>8. FirstInv'
    BY <1>2, <2>1, <2>2, <2>3, <2>4, <2>5, <2>6, <2>7 DEF FirstInv
  <2> QED
    BY <1>2, <2>8 DEF UpgradeInv
<1>3. CASE wf.runs \notin {0, 1}
  BY <1>3 DEF UpgradeInv
<1> QED
  BY <1>1, <1>2, <1>3

LEMMA UpgradeStep == TypeInv /\ WorkInv /\ UpgradeInv /\ [CmpNext]_vars => UpgradeInv'
<1> SUFFICES ASSUME TypeInv, WorkInv, UpgradeInv, [CmpNext]_vars PROVE UpgradeInv'
  OBVIOUS
<1>t. /\ wf \in Workflow /\ Now \in Vehicle /\ crashes \in 0 .. MaxCrashes
      /\ kid \in [Vehicle -> Kid!TaskState] /\ wf.available \subseteq Vehicle
      /\ veh \in [Vehicle -> [status: VehicleStatus, linked: BOOLEAN]]
      /\ Now = wf.at /\ VehicleCount \in Nat /\ wf.degraded \subseteq Vehicle
  BY VehicleFacts DEF TypeInv, CmpTypeOK, Workflow, Now
<1>s. ASSUME NEW s, SetVehicle(Now, s)
      PROVE  \A v \in Vehicle : veh'[v].linked = veh[v].linked
  BY <1>t, <1>s DEF SetVehicle
<1>w. ASSUME NEW d, WriteReport(d)
      PROVE  /\ \A v \in Vehicle : veh'[v].linked = veh[v].linked
             /\ report'.degraded = wf.degraded
  BY <1>t, <1>w DEF WriteReport
<1>f. ASSUME NEW p \in PC, NEW w \in {wf, Forward(wf, p)}
      PROVE  /\ w.runs = wf.runs /\ w.reused = wf.reused /\ w.available = wf.available
             /\ w.degraded = wf.degraded /\ w.upgraded = wf.upgraded
             /\ w.pc \in {wf.pc, p} /\ (w.pc # wf.pc => w.at = 1)
  BY <1>t, ForwardMoves
<1>r. ASSUME wf' = wf, report' = report, \A v \in Vehicle : veh'[v].linked = veh[v].linked
      PROVE  UpgradeInv'
  BY <1>r, SameUpgrades DEF UpgradeInv, FirstInv
<1>1. CASE User \/ StartRefused \/ UNCHANGED vars \/ \E v \in Vehicle : KidStep(v)
  BY <1>1, <1>r DEF User, Overwrite, RetryTask, StartRefused, vars, KidStep
<1>2. CASE StartWorkflow
  <2>1. /\ wf' = Execution(wf.runs + 1) /\ veh' = veh /\ report' = report /\ wf.runs \in Nat
    BY <1>2, <1>t DEF StartWorkflow, Workflow
  <2>2. wf'.runs = wf.runs + 1 /\ wf'.pc = "load" /\ wf'.available = {}
        /\ wf'.degraded = {} /\ wf'.reused = {}
    BY <2>1 DEF Execution
  <2>3. CASE wf.runs = 0
    BY <2>1, <2>2, <2>3 DEF UpgradeInv, FirstInv, NotLinked, Judging
  <2>4. CASE wf.runs # 0
    BY <2>1, <2>2, <2>4 DEF UpgradeInv
  <2> QED
    BY <2>3, <2>4
<1>3. CASE LoadComparison
  <2> DEFINE linked == {v \in Vehicle : veh[v].linked}
  <2> DEFINE w == [wf EXCEPT !.pc = "ensure", !.reused = linked]
  <2>0. linked \subseteq Vehicle
    OBVIOUS
  <2> HIDE DEF linked
  <2>1. /\ w \in Workflow /\ w.pc = "ensure" /\ w.available = wf.available /\ w.runs = wf.runs
        /\ w.degraded = wf.degraded /\ w.upgraded = wf.upgraded
        /\ w.reused = linked
    BY <1>t, <2>0 DEF Workflow, PC
  <2>2. wf.pc = "load" /\ Return(w) /\ veh' = veh /\ report' = report
    BY <1>3 DEF LoadComparison, At, linked
  <2>3. wf' \in {w, wf}
    BY <1>t, <2>1, <2>2, ReturnTypes
  <2> HIDE DEF w
  <2>4. wf.runs # 0
    BY <2>2 DEF UpgradeInv
  <2>5. CASE wf.runs = 1 /\ wf' = w
    <3>1. w.reused = {} /\ wf.reused = {}
      BY <2>1, <2>2, <2>5 DEF UpgradeInv, FirstInv, NotLinked, linked
    <3> QED
      BY <2>1, <2>2, <2>5, <3>1, SameUpgrades DEF BeforeReport, Judging
  <2>6. CASE wf.runs # 1 /\ wf' = w
    BY <2>1, <2>4, <2>6 DEF UpgradeInv
  <2> QED
    BY <2>2, <2>3, <2>5, <2>6, <1>r
<1>4. CASE SkipReused
  <2>1. wf.reused # {} /\ wf.pc # "closed"
    BY <1>4 DEF SkipReused, At
  <2>2. wf.runs \notin {0, 1}
    BY <2>1 DEF UpgradeInv, FirstInv
  <2>3. wf'.runs = wf.runs
    <3> DEFINE p == CASE At("ensure") -> "start" [] At("start") -> "wait" [] OTHER -> "upgrade"
    <3>1. wf' = Forward(wf, p) /\ p \in PC
      BY <1>4 DEF SkipReused, PC
    <3> HIDE DEF p
    <3> QED
      BY <1>t, <3>1, ForwardMoves
  <2> QED
    BY <2>2, <2>3 DEF UpgradeInv
<1>5. CASE EnsureChild
  <2>1. wf.pc = "ensure" /\ Return(Forward(wf, "start")) /\ report' = report
    BY <1>5 DEF EnsureChild, At
  <2>2. wf' \in {Forward(wf, "start"), wf}
    BY <1>t, <2>1, ForwardMoves, ReturnTypes DEF PC
  <2>3. wf'.pc \in {"ensure", "start"}
    BY <2>1, <2>2, <1>f DEF PC
  <2> QED
    BY <2>1, <2>2, <2>3, <1>f, SameUpgrades DEF PC, BeforeReport, Judging
<1>6. CASE StartChild
  <2>1. wf.pc = "start" /\ wf' = Forward(wf, "wait") /\ report' = report
    BY <1>6 DEF StartChild, At
  <2>2. wf'.pc \in {"start", "wait"}
    BY <2>1, <1>f DEF PC
  <2> QED
    BY <2>1, <2>2, <1>f, SameUpgrades DEF PC, BeforeReport, Judging
<1>7. CASE VehicleUnusable \/ VehicleTimesOut
  <2> DEFINE w == Without(wf, Now)
  <2>1. /\ w \in Workflow /\ w.runs = wf.runs /\ w.reused = wf.reused /\ w.pc = wf.pc
        /\ w.available = wf.available /\ w.degraded = wf.degraded /\ w.upgraded = wf.upgraded
    BY <1>t, ResultTypes, ResultUpgrades
  <2>2. /\ wf.pc = "wait" /\ Return(Forward(w, "judge")) /\ report' = report
        /\ \A v \in Vehicle : veh'[v].linked = veh[v].linked
    BY <1>7, <1>s DEF VehicleUnusable, VehicleTimesOut, WaitPhase, At
  <2> HIDE DEF w
  <2>3. wf' \in {Forward(w, "judge"), wf}
    BY <1>t, <2>1, <2>2, ForwardMoves, ReturnTypes DEF PC
  <2>4. CASE wf' = Forward(w, "judge")
    <3>1. /\ wf'.runs = wf.runs /\ wf'.reused = wf.reused /\ wf'.available = wf.available
          /\ wf'.degraded = wf.degraded /\ wf'.upgraded = wf.upgraded
          /\ wf'.pc \in {"wait", "judge"} /\ (wf'.pc = "judge" => wf'.at = 1)
      BY <2>1, <2>2, <2>4, ForwardMoves DEF PC
    <3> QED
      BY <2>2, <3>1, SameUpgrades DEF BeforeReport, Judging
  <2> QED
    BY <2>2, <2>3, <2>4, <1>r
<1>8. CASE VehicleReady
  <2> DEFINE w == WithResult(wf, Now)
  <2>1. /\ w \in Workflow /\ w.runs = wf.runs /\ w.reused = wf.reused /\ w.pc = wf.pc
        /\ w.available = wf.available \cup {Now}
        /\ kid[Now].status = "completed_degraded" => w.degraded = wf.degraded \cup {Now}
        /\ kid[Now].status # "completed_degraded" => w.degraded = wf.degraded \ {Now}
    BY <1>t, ResultTypes, ResultUpgrades
  <2>2. /\ wf.pc = "wait" /\ Return(Forward(w, "judge")) /\ report' = report
        /\ \A v \in Vehicle : veh'[v].linked = veh[v].linked
    BY <1>8, <1>s DEF VehicleReady, WaitPhase, At
  <2> HIDE DEF w
  <2>3. wf' \in {Forward(w, "judge"), wf}
    BY <1>t, <2>1, <2>2, ForwardMoves, ReturnTypes DEF PC
  <2>4. CASE wf' = Forward(w, "judge")
    <3>1. /\ wf'.runs = wf.runs /\ wf'.reused = wf.reused /\ wf'.available = w.available
          /\ wf'.degraded = w.degraded /\ wf'.pc \in {"wait", "judge"}
          /\ (wf'.pc = "judge" => wf'.at = 1)
      BY <2>1, <2>2, <2>4, ForwardMoves DEF PC
    <3>2. wf.runs # 0
      BY <2>2 DEF UpgradeInv
    <3>3. CASE wf.runs = 1
      <4>1. /\ wf.reused = {} /\ wf.degraded \subseteq wf.available /\ report.degraded = {}
            /\ \A v \in wf.degraded : HalfOrBetter(v)
        BY <2>2, <3>3 DEF UpgradeInv, FirstInv, BeforeReport
      <4>2. w.degraded \subseteq w.available /\ \A v \in w.degraded : v \in Vehicle /\ HalfOrBetter(v)
        BY <1>t, <2>1, <4>1 DEF HalfOrBetter
      <4>3. \A v \in w.degraded : HalfOrBetter(v)'
        BY <4>2, KidSettles
      <4>4. FirstInv'
        BY <2>2, <3>1, <4>1, <4>2, <4>3 DEF FirstInv, WaitedFor, Judging
      <4> QED
        BY <3>1, <3>3, <4>4 DEF UpgradeInv
    <3> QED
      BY <3>1, <3>2, <3>3 DEF UpgradeInv
  <2> QED
    BY <2>2, <2>3, <2>4, <1>r
<1>9. CASE Judge \/ MarkComparing \/ PublishFailure
  <2>1. PICK p \in {"fail", "compare", "publish", "closed"} :
          /\ wf' \in {wf, [wf EXCEPT !.pc = p]}
          /\ IF p = "closed" THEN wf.pc = "fail" ELSE wf.pc \in {"judge", "compare"}
    <3>1. \A p \in PC : [wf EXCEPT !.pc = p] \in Workflow
      BY <1>t DEF Workflow
    <3>2. CASE Judge
      BY <3>2 DEF Judge, At
    <3>3. CASE MarkComparing
      BY <1>t, <3>1, <3>3, ReturnTypes DEF MarkComparing, At, PC
    <3>4. CASE PublishFailure
      BY <1>t, <3>1, <3>4, ReturnTypes DEF PublishFailure, At, PC
    <3> QED
      BY <1>9, <3>2, <3>3, <3>4
  <2>2. veh' = veh /\ report' = report
    BY <1>9 DEF Judge, MarkComparing, PublishFailure
  <2>3. CASE wf' = [wf EXCEPT !.pc = p]
    <3>1. /\ wf'.runs = wf.runs /\ wf'.reused = wf.reused /\ wf'.available = wf.available
          /\ wf'.degraded = wf.degraded /\ wf'.upgraded = wf.upgraded /\ wf'.pc = p
          /\ wf'.at = wf.at
      BY <1>t, <2>3 DEF Workflow
    <3>2. wf.runs = 1 /\ p \in Judging => wf.at = 1
      BY <2>1 DEF UpgradeInv, FirstInv, Judging
    <3> QED
      BY <2>1, <2>2, <3>1, <3>2, SameUpgrades DEF BeforeReport, Judging
  <2> QED
    BY <2>1, <2>2, <2>3, <1>r
<1>10. ASSUME NEW fallback \in BOOLEAN, Publish(fallback) PROVE UpgradeInv'
  <2>1. /\ wf.pc = "publish" /\ report'.degraded = wf.degraded
        /\ Return([wf EXCEPT !.pc = "finish"])
    BY <1>10, <1>w DEF Publish, At
  <2>2. [wf EXCEPT !.pc = "finish"] \in Workflow
    BY <1>t DEF Workflow, PC
  <2>3. wf' \in {[wf EXCEPT !.pc = "finish"], wf}
    BY <1>t, <2>1, <2>2, ReturnTypes
  <2>4. /\ wf'.runs = wf.runs /\ wf'.reused = wf.reused /\ wf'.available = wf.available
        /\ wf'.degraded = wf.degraded /\ wf'.pc \in {"publish", "finish"}
        /\ wf'.at = wf.at
    BY <1>t, <2>1, <2>3 DEF Workflow
  <2>5. wf.runs # 0
    BY <2>1 DEF UpgradeInv
  <2>6. CASE wf.runs = 1
    <3>1. FirstInv
      BY <2>6 DEF UpgradeInv
    <3>2. \A v \in wf.degraded : HalfOrBetter(v)'
      BY <1>t, <3>1, KidSettles DEF FirstInv
    <3>3. wf.at = 1
      BY <2>1, <3>1 DEF FirstInv, Judging
    <3>4. \A v \in wf.available : ~WaitedFor(v)'
      BY <1>t, <2>4, <3>3 DEF WaitedFor, Vehicle
    <3>5. FirstInv'
      BY <1>t, <2>1, <2>4, <3>1, <3>2, <3>3, <3>4
      DEF FirstInv, WaitedFor, BeforeReport, Judging
    <3> QED
      BY <2>4, <2>6, <3>5 DEF UpgradeInv
  <2> QED
    BY <2>4, <2>5, <2>6 DEF UpgradeInv
<1>11. CASE NothingUpgraded \/ \E fallback \in BOOLEAN : Regenerate(fallback)
  <2>1. /\ kid' = kid
        /\ \/ report'.degraded = wf.degraded
           \/ report' = report /\ wf.upgraded = {}
    BY <1>11, <1>w DEF NothingUpgraded, Regenerate, At
  <2>2. wf' \in {[wf EXCEPT !.pc = "closed"], wf}
    <3>1. [wf EXCEPT !.pc = "closed"] \in Workflow
      BY <1>t DEF Workflow, PC
    <3> QED
      BY <1>t, <1>11, <3>1, ReturnTypes DEF NothingUpgraded, Regenerate
  <2>3. /\ wf'.runs = wf.runs /\ wf'.reused = wf.reused /\ wf'.available = wf.available
        /\ wf'.degraded = wf.degraded /\ wf'.upgraded = wf.upgraded
        /\ wf'.pc \in {"upgrade", "closed"}
    BY <1>t, <1>11, <2>2 DEF Workflow, NothingUpgraded, Regenerate, At
  <2>4. wf.pc = "upgrade"
    BY <1>11 DEF NothingUpgraded, Regenerate, At
  <2>5. wf.runs # 0
    BY <2>4 DEF UpgradeInv
  <2>6. CASE wf.runs = 1
    <3>1. /\ wf.reused = {} /\ wf.degraded \subseteq wf.available
          /\ report.degraded \subseteq wf.available
          /\ \A v \in wf.degraded \cup report.degraded : HalfOrBetter(v)
          /\ \A v \in wf.available :
               /\ ~kid[v].open
               /\ v \in wf.degraded => kid[v].status = "completed_degraded"
               /\ kid[v].upgraded => v \in wf.upgraded
      BY <2>4, <2>6 DEF UpgradeInv, FirstInv, WaitedFor
    <3>2. report'.degraded \subseteq wf.available /\ \A v \in report'.degraded : HalfOrBetter(v)
      BY <2>1, <3>1
    <3>3. wf'.pc = "closed" => \A v \in report'.degraded : HalfForGood(v)
      <4>1. CASE report'.degraded = wf.degraded
        BY <3>1, <4>1 DEF HalfForGood
      <4>2. CASE report' = report /\ wf.upgraded = {}
        BY <3>1, <4>2 DEF HalfForGood, HalfOrBetter
      <4> QED
        BY <2>1, <4>1, <4>2
    <3>4. FirstInv'
      BY <2>1, <2>3, <3>1, <3>2, <3>3
      DEF FirstInv, WaitedFor, HalfOrBetter, HalfForGood, BeforeReport, Judging
    <3> QED
      BY <2>3, <2>6, <3>4 DEF UpgradeInv
  <2> QED
    BY <2>3, <2>5, <2>6 DEF UpgradeInv
<1>12. CASE ChildFinished
  <2>1. /\ wf.pc = "finish" /\ ~kid[Now].open /\ kid' = kid /\ report' = report
        /\ \A v \in Vehicle : veh'[v].linked = veh[v].linked
    BY <1>12, <1>s DEF ChildFinished, At
  <2>2. wf' = wf \/ \E w \in {wf, Refreshed(Now)} :
                       /\ wf' = Forward(w, "upgrade")
                       /\ w = wf => Now \notin wf.available \/ Refreshed(Now) = wf
    <3>1. Now \in wf.available => UsableKid(Now)
      BY DEF WorkInv
    <3> QED
      BY <1>12, <3>1 DEF ChildFinished, Return, UsableKid
  <2>3. wf.runs # 0
    BY <2>1 DEF UpgradeInv
  <2>4. ASSUME NEW w \in {wf, Refreshed(Now)}, wf' = Forward(w, "upgrade"),
               w = wf => Now \notin wf.available \/ Refreshed(Now) = wf
        PROVE  UpgradeInv'
    <3>1. /\ w \in Workflow /\ w.runs = wf.runs /\ w.reused = wf.reused /\ w.at = wf.at
          /\ w.pc = wf.pc /\ w.available = wf.available
          /\ \A v \in wf.available : v # Now => (v \in w.degraded <=> v \in wf.degraded)
          /\ wf.upgraded \subseteq w.upgraded
          /\ w.degraded \subseteq wf.degraded \cup (wf.available \cap {Now})
          /\ Now \in wf.available =>
               /\ (Now \in w.degraded <=> kid[Now].status = "completed_degraded")
               /\ (kid[Now].upgraded => Now \in w.upgraded)
      <4>1. CASE Now \in wf.available
        <5>1. w = WithResult(wf, Now)
          BY <2>4, <4>1 DEF Refreshed
        <5>2. /\ w \in Workflow /\ w.runs = wf.runs /\ w.at = wf.at /\ w.pc = wf.pc
              /\ w.available = wf.available \cup {Now}
              /\ kid[Now].status = "completed_degraded" => w.degraded = wf.degraded \cup {Now}
              /\ kid[Now].status # "completed_degraded" => w.degraded = wf.degraded \ {Now}
          BY <1>t, <5>1, ResultTypes
        <5>3. /\ w.reused = wf.reused /\ wf.upgraded \subseteq w.upgraded
              /\ kid[Now].upgraded => Now \in w.upgraded
          BY <1>t, <5>1, ResultUpgrades
        <5> QED
          BY <4>1, <5>2, <5>3
      <4>2. CASE Now \notin wf.available
        BY <1>t, <2>4, <4>2 DEF Refreshed
      <4> QED
        BY <4>1, <4>2
    <3>2. /\ wf'.runs = wf.runs /\ wf'.reused = wf.reused /\ wf'.available = wf.available
          /\ wf'.degraded = w.degraded /\ wf'.upgraded = w.upgraded
          /\ \/ wf.at = VehicleCount /\ wf'.pc = "upgrade"
             \/ wf'.pc = "finish" /\ wf'.at = wf.at + 1
      BY <2>1, <2>4, <3>1, ForwardMoves DEF PC
    <3>3. CASE wf.runs = 1
      <4>1. /\ wf.reused = {} /\ wf.degraded \subseteq wf.available
            /\ report.degraded \subseteq wf.available
            /\ \A v \in wf.degraded \cup report.degraded : HalfOrBetter(v)
        BY <2>1, <3>3 DEF UpgradeInv, FirstInv
      <4>2. \A v \in wf.available : v < wf.at =>
              /\ ~kid[v].open
              /\ v \in wf.degraded => kid[v].status = "completed_degraded"
              /\ kid[v].upgraded => v \in wf.upgraded
        BY <2>1, <3>3 DEF UpgradeInv, FirstInv, WaitedFor
      <4>3. \A v \in wf.available : WaitedFor(v)' => v < wf.at \/ v = Now
        BY <1>t, <3>2, ComparisonAssumption DEF WaitedFor, Vehicle
      <4>4. \A v \in w.degraded : v \in wf.available /\ HalfOrBetter(v)
        BY <3>1, <4>1 DEF HalfOrBetter
      <4>5. \A v \in wf.available : WaitedFor(v)' =>
              /\ ~kid[v].open
              /\ v \in w.degraded => kid[v].status = "completed_degraded"
              /\ kid[v].upgraded => v \in w.upgraded
        <5> TAKE v \in wf.available
        <5>1. CASE v = Now
          BY <2>1, <3>1, <5>1
        <5>2. CASE v # Now
          BY <3>1, <4>2, <4>3, <5>2
        <5> QED
          BY <5>1, <5>2
      <4>6. FirstInv'
        BY <2>1, <3>2, <4>1, <4>4, <4>5 DEF FirstInv, HalfOrBetter, BeforeReport, Judging
      <4> QED
        BY <3>2, <3>3, <4>6 DEF UpgradeInv
    <3> QED
      BY <2>3, <3>2, <3>3 DEF UpgradeInv
  <2> QED
    BY <2>1, <2>2, <2>4, <1>r
<1> QED
  BY <1>1, <1>2, <1>3, <1>4, <1>5, <1>6, <1>7, <1>8, <1>9, <1>10, <1>11, <1>12
  DEF CmpNext, Api, WorkflowStep

\* However late the children of the first execution improve, and whatever is repeated
\* after a crash, when it is over no vehicle of its report has a better result than the
\* one that was compared, nor a workflow that could still find one.
THEOREM UpgradesArePublished == CmpSpec => []UpgradeIsPublished
<1>1. CmpInit => WorkInv
  BY DEF CmpInit, Execution, WorkInv
<1>2. CmpInit => UpgradeInv
  BY DEF CmpInit, Execution, NoReport, UpgradeInv, NotLinked
<1>3. UpgradeInv => UpgradeIsPublished
  BY DEF UpgradeInv, FirstInv, UpgradeIsPublished, HalfForGood, Running
<1> QED
  BY <1>1, <1>2, <1>3, TypeInitially, TypeStep, WorkStep, UpgradeStep, PTL DEF CmpSpec
=============================================================================
