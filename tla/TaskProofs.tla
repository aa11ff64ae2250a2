----------------------------- MODULE TaskProofs -----------------------------
(***************************************************************************)
(* What SingleVehicleTask guarantees for any platforms and any number of   *)
(* executions: types, what completed and upgraded mean whatever the user   *)
(* does, and that a task which the user leaves alone is a TaskOutcome.     *)
(***************************************************************************)
EXTENDS SingleVehicleTask, TLAPS

-----------------------------------------------------------------------------
(* The types.                                                              *)
Workflow == [pc: PC, runs: 0 .. MaxRuns, ok: SUBSET Platform, bad: SUBSET Platform,
             retryable: SUBSET Platform, stop: BOOLEAN, result: Status]
Row == [status: Status, degraded: BOOLEAN, upgraded: BOOLEAN]

\* An execution that is to start is one that the bound allows.
TypeInv == TaskTypeOK /\ (api \in {"create", "retry"} => wf.runs < MaxRuns)

\* All of the rows that an operation writes beside the workflow's record.
RowsTyped == row \in Row /\ vehicle \in Status /\ log \subseteq Event

LEMMA GotoKeeps ==
  ASSUME wf \in Workflow, NEW p \in PC, Goto(p)
  PROVE  /\ wf' \in Workflow /\ wf'.pc = p /\ wf'.runs = wf.runs /\ wf'.ok = wf.ok
         /\ wf'.stop = wf.stop /\ wf'.result = wf.result
  BY DEF Goto, Workflow

LEMMA CloseKeeps ==
  ASSUME wf \in Workflow, NEW s \in Status, Close(s)
  PROVE  /\ wf' \in Workflow /\ wf'.pc = "closed" /\ wf'.runs = wf.runs /\ wf'.ok = wf.ok
         /\ wf'.stop = wf.stop /\ wf'.result = s
  BY DEF Close, Workflow, PC

LEMMA SetStatusKeeps ==
  ASSUME row \in Row, NEW s \in Status, SetStatus(s)
  PROVE  /\ row' \in Row /\ vehicle' = s /\ row'.status = s
         /\ row'.degraded = row.degraded /\ row'.upgraded = row.upgraded
  BY DEF SetStatus, Row

LEMMA TypeInitially == TaskInit => TypeInv
<1> SUFFICES ASSUME TaskInit PROVE TypeInv
  OBVIOUS
<1>1. MaxRuns \in Nat /\ 0 < MaxRuns
  BY TaskAssumption
<1>2. wf \in Workflow /\ wf.runs = 0
  BY <1>1 DEF TaskInit, Workflow, PC, Status, Terminal
<1> QED
  BY <1>1, <1>2 DEF TaskInit, TypeInv, TaskTypeOK, Workflow, Status, Terminal, Event

\* Where the workflow goes when a step ends without closing it.
LEMMA OrCancelIsPC == \A p \in PC : OrCancel(p) \in PC
  BY DEF OrCancel, PC

LEMMA TypeStep == TypeInv /\ [TaskNext]_vars => TypeInv'
<1> SUFFICES ASSUME TypeInv, [TaskNext]_vars PROVE TypeInv'
  OBVIOUS
<1>t. /\ wf \in Workflow /\ row \in Row /\ vehicle \in Status /\ log \subseteq Event
      /\ target \in (SUBSET Platform) \ {{}} /\ MaxRuns \in Nat
      /\ api \in {"idle", "create", "retry", "create_failed", "retry_failed"}
  BY TaskAssumption DEF TypeInv, TaskTypeOK, Workflow, Row
<1>1. ASSUME wf' \in Workflow, wf'.runs = wf.runs, RowsTyped', api' = api, target' = target
      PROVE  TypeInv'
  BY <1>t, <1>1 DEF TypeInv, TaskTypeOK, RowsTyped, Workflow, Row
<1>2. ASSUME NEW e \in Event, Record(e) PROVE log' \subseteq Event
  BY <1>t, <1>2 DEF Record
<1>3. ASSUME NEW p \in PC, NEW s \in Status, Goto(p), SetStatus(s), UNCHANGED <<target, log, api>>
      PROVE  TypeInv'
  BY <1>t, <1>1, <1>3, GotoKeeps, SetStatusKeeps DEF RowsTyped
<1>4. ASSUME NEW p \in PC, NEW e \in Event, Goto(p), Record(e), UNCHANGED <<target, row, vehicle, api>>
      PROVE  TypeInv'
  BY <1>t, <1>1, <1>2, <1>4, GotoKeeps DEF RowsTyped
<1>5. ASSUME NEW s \in Status, NEW e \in Event, Close(s), Record(e),
             UNCHANGED <<target, row, vehicle, api>>
      PROVE  TypeInv'
  BY <1>t, <1>1, <1>2, <1>5, CloseKeeps DEF RowsTyped
<1>6. ASSUME wf' \in Workflow, wf'.runs = wf.runs, Private PROVE TypeInv'
  BY <1>t, <1>1, <1>6 DEF RowsTyped, Private
<1>7. CASE User
  <2>1. ASSUME NEW s \in Status, NEW e \in Event, SetStatus(s), Record(e),
               UNCHANGED <<target, wf>>
        PROVE  wf' \in Workflow /\ wf'.runs = wf.runs /\ RowsTyped'
    BY <1>t, <1>2, <2>1, SetStatusKeeps DEF RowsTyped
  <2>2. CASE CancelTask
    BY <1>1, <2>1, <2>2 DEF CancelTask, Status, Terminal, Event
  <2>3. CASE PauseRetry
    BY <1>1, <2>1, <2>3 DEF PauseRetry, Status, Terminal, Event
  <2>4. CASE RetryTask
    <3>1. wf' = wf /\ RowsTyped' /\ api' = "retry" /\ wf.runs < MaxRuns /\ target' = target
      BY <2>1, <2>4 DEF RetryTask, Status, Terminal, Event
    <3> QED
      BY <1>t, <3>1 DEF TypeInv, TaskTypeOK, RowsTyped, Workflow, Row
  <2> QED
    BY <1>7, <2>2, <2>3, <2>4 DEF User
<1>8. CASE StartWorkflow
  <2>1. wf.runs < MaxRuns /\ wf.runs \in Nat
    BY <1>t, <1>8 DEF StartWorkflow, TypeInv, Workflow
  <2>2. Execution \in Workflow
    BY <1>t, <2>1 DEF Execution, Workflow, PC, Status, Terminal
  <2>3. wf' \in Workflow /\ api' \in {"idle", "create_failed", "retry_failed"}
    BY <1>8, <2>2 DEF StartWorkflow, StartFailed
  <2> QED
    BY <1>t, <1>8, <2>3 DEF StartWorkflow, TypeInv, TaskTypeOK, Workflow, Row
<1>9. CASE StartRejected
  BY <1>t, <1>9 DEF StartRejected, StartFailed, TypeInv, TaskTypeOK, Workflow, Row
<1>10. CASE RecordStartFailure
  <2>1. row' \in Row /\ vehicle' \in Status /\ log' \subseteq Event /\ api' = "idle"
    BY <1>t, <1>2, <1>10 DEF RecordStartFailure, Row, Status, Terminal, Event
  <2> QED
    BY <1>t, <1>10, <2>1 DEF RecordStartFailure, TypeInv, TaskTypeOK, Workflow, Row
<1>11. CASE Load
  BY <1>t, <1>6, <1>11, GotoKeeps, OrCancelIsPC DEF Load, Step, PC
<1>12. CASE NothingToCollect \/ Collected
  <2>1. wf' \in Workflow /\ wf'.runs = wf.runs
    <3>1. CASE NothingToCollect
      <4>1. OrCancel("fail") \in PC
        BY OrCancelIsPC DEF PC
      <4> QED
        BY <1>t, <3>1, <4>1 DEF NothingToCollect, Workflow
    <3>2. CASE Collected
      <4>1. OrCancel("postprocess") \in PC
        BY OrCancelIsPC DEF PC
      <4>2. PICK good \in SUBSET target : \E again \in SUBSET (target \ good) :
              wf' = [wf EXCEPT !.pc = OrCancel("postprocess"), !.ok = good,
                               !.bad = target \ good, !.retryable = again]
        BY <3>2, Zenon DEF Collected
      <4>3. PICK again \in SUBSET (target \ good) :
              wf' = [wf EXCEPT !.pc = OrCancel("postprocess"), !.ok = good,
                               !.bad = target \ good, !.retryable = again]
        BY <4>2, Zenon
      <4> QED
        BY <1>t, <4>1, <4>3 DEF Workflow
    <3> QED
      BY <1>12, <3>1, <3>2
  <2>2. Private
    BY <1>12, Zenon DEF NothingToCollect, Collected
  <2> QED
    BY <1>6, <2>1, <2>2
<1>13. CASE BeginWait \/ SubmitRun \/ Postprocess \/ MarkFailed \/ CancelByWorkflow
  BY <1>3, <1>13
  DEF BeginWait, SubmitRun, Postprocess, MarkFailed, CancelByWorkflow, MarkRunning, Step, PC,
      Status, Terminal
<1>14. ASSUME NEW made \in BOOLEAN, Report(made) PROVE TypeInv'
  <2>1. OrCancel(IF ~made THEN "fail"
                 ELSE IF IsFull THEN "publish_full" ELSE "publish_degraded") \in PC
    BY OrCancelIsPC DEF PC
  <2> QED
    BY <1>3, <1>14, <2>1 DEF Report, Status, Terminal
<1>15. CASE PublishFull \/ PublishDegraded
  <2>1. PICK p \in PC : Goto(p)
    BY <1>15 DEF PublishFull, PublishDegraded, Step, PC
  <2>2. row' \in Row /\ vehicle' \in Status
    <3>1. FullRow(row) \in Row
      <4>1. row.degraded \in BOOLEAN /\ (row.degraded \/ row.upgraded) \in BOOLEAN
        BY <1>t DEF Row
      <4> QED
        BY <4>1 DEF FullRow, Row, Status, Terminal
    <3>2. [status |-> "completed_degraded", degraded |-> TRUE, upgraded |-> FALSE] \in Row
      BY DEF Row, Status, Terminal
    <3> QED
      BY <1>15, <3>1, <3>2 DEF PublishFull, PublishDegraded, Status, Terminal
  <2> QED
    BY <1>t, <1>1, <1>15, <2>1, <2>2, GotoKeeps DEF PublishFull, PublishDegraded, RowsTyped
<1>16. CASE RecordUpgrade \/ ScheduleRetry
  BY <1>4, <1>16 DEF RecordUpgrade, ScheduleRetry, Step, PC, Event
<1>17. CASE RecordFull \/ AttemptRetry \/ RecordFailed \/ RecordCancelled
  BY <1>5, <1>17
  DEF RecordFull, AttemptRetry, RecordFailed, RecordCancelled, Status, Terminal, Event
<1>18. CASE RecordDegraded
  BY <1>4, <1>5, <1>18 DEF RecordDegraded, PC, Status, Terminal, Event
<1>19. CASE AskPaused
  BY <1>t, <1>6, <1>19, GotoKeeps, CloseKeeps DEF AskPaused, PC, Status, Terminal
<1>20. CASE RequestCancel
  <2>1. wf' \in Workflow /\ wf'.runs = wf.runs
    BY <1>t, <1>20 DEF RequestCancel, Workflow
  <2> QED
    BY <1>6, <1>20, <2>1 DEF RequestCancel
<1>21. CASE Crash
  <2>1. PICK p \in PC : Goto(p)
    BY <1>21 DEF Crash, ActivityOf, PC
  <2> QED
    BY <1>t, <1>6, <1>21, <2>1, GotoKeeps DEF Crash
<1>22. CASE UNCHANGED vars
  BY <1>22 DEF vars, TypeInv, TaskTypeOK
<1> QED
  BY <1>7, <1>8, <1>9, <1>10, <1>11, <1>12, <1>13, <1>14, <1>15, <1>16, <1>17, <1>18, <1>19,
     <1>20, <1>21, <1>22
  DEF TaskNext, ApiStep, WorkflowStep

\* Whatever the user, the workflow and a lost or refused start do to the rows, they
\* stay in the states the code knows, within the bound of executions.
THEOREM TaskIsTyped == TaskSpec => []TaskTypeOK
<1>1. TypeInv => TaskTypeOK
  BY DEF TypeInv
<1> QED
  BY <1>1, TypeInitially, TypeStep, PTL DEF TaskSpec

-----------------------------------------------------------------------------
(* What a completed task has.                                              *)

Publishing == {"publish_full", "upgrade_event", "full_event"}

\* An execution that publishes a full result has collected every platform, also when
\* the activity is run again.
FullInv ==
  /\ wf.ok \subseteq target
  /\ wf.pc \in Publishing => wf.ok = target /\ target = Platform

\* Who changes what: most steps only move the workflow on.
OnlyPublishing ==
  /\ target' = target
  /\ wf'.ok \in {wf.ok, {}} \/ (wf.pc = "collecting" /\ wf'.ok \subseteq target)
  /\ wf'.ok # wf.ok => wf'.pc \in {"load", "postprocess", "cancel"}
  /\ wf'.pc \in Publishing => wf.pc \in Publishing \/ (wf.pc = "report" /\ IsFull)
  /\ row'.status = "completed" => row.status = "completed" \/ wf.pc = "publish_full"

LEMMA WhoCompletes ==
  ASSUME TypeInv, [TaskNext]_vars
  PROVE  OnlyPublishing
<1>t. wf \in Workflow /\ row \in Row /\ target \subseteq Platform
  BY DEF TypeInv, TaskTypeOK, Workflow, Row
<1> USE DEF OnlyPublishing, Publishing
<1>1. ASSUME NEW p \in PC, Goto(p), row' = row, target' = target,
             p \in Publishing => wf.pc \in Publishing
      PROVE  OnlyPublishing
  BY <1>t, <1>1, GotoKeeps
<1>2. ASSUME NEW p \in PC, NEW s \in Status, Goto(p), SetStatus(s), target' = target,
             p \in Publishing => wf.pc = "report" /\ IsFull, s # "completed"
      PROVE  OnlyPublishing
  BY <1>t, <1>2, GotoKeeps, SetStatusKeeps
<1>3. ASSUME NEW s \in Status, Close(s), row' = row, target' = target PROVE OnlyPublishing
  BY <1>t, <1>3, CloseKeeps
<1>4. CASE User
  BY <1>t, <1>4, SetStatusKeeps DEF User, CancelTask, PauseRetry, RetryTask, Status, Terminal
<1>5. CASE ApiStep
  BY <1>t, <1>5
  DEF ApiStep, StartWorkflow, StartRejected, RecordStartFailure, Execution, Row
<1>6. CASE Load
  <2>1. OrCancel("wait") \in {"wait", "cancel"}
    BY DEF OrCancel
  <2> QED
    BY <1>1, <1>6, <2>1 DEF Load, Step, Private, PC
<1>7. CASE NothingToCollect
  <2>1. OrCancel("fail") \in {"fail", "cancel"}
    BY DEF OrCancel
  <2> QED
    BY <1>t, <1>7, <2>1 DEF NothingToCollect, Private, Workflow
<1>8. CASE Collected
  <2>1. wf.pc = "collecting" /\ Private
    BY <1>8, Zenon DEF Collected
  <2>2. PICK good \in SUBSET target : \E again \in SUBSET (target \ good) :
          wf' = [wf EXCEPT !.pc = OrCancel("postprocess"), !.ok = good,
                           !.bad = target \ good, !.retryable = again]
    BY <1>8, Zenon DEF Collected
  <2>3. PICK again \in SUBSET (target \ good) :
          wf' = [wf EXCEPT !.pc = OrCancel("postprocess"), !.ok = good,
                           !.bad = target \ good, !.retryable = again]
    BY <2>2, Zenon
  <2>4. OrCancel("postprocess") \in {"postprocess", "cancel"}
    BY DEF OrCancel
  <2>5. wf'.pc = OrCancel("postprocess") /\ wf'.ok = good
    BY <1>t, <2>3 DEF Workflow
  <2> QED
    BY <2>1, <2>4, <2>5 DEF Private
<1>9. CASE BeginWait \/ SubmitRun \/ Postprocess \/ MarkFailed \/ CancelByWorkflow
  BY <1>2, <1>9
  DEF BeginWait, SubmitRun, Postprocess, MarkFailed, CancelByWorkflow, MarkRunning, Step, PC,
      Status, Terminal
<1>10. ASSUME NEW made \in BOOLEAN, Report(made) PROVE OnlyPublishing
  <2> DEFINE p == OrCancel(IF ~made THEN "fail"
                           ELSE IF IsFull THEN "publish_full" ELSE "publish_degraded")
  <2>1. /\ p \in PC /\ (p \in Publishing => IsFull)
        /\ p \in {"cancel", "fail", "publish_full", "publish_degraded"}
    BY DEF OrCancel, PC
  <2>2. Goto(p) /\ SetStatus("running") /\ target' = target /\ wf.pc = "report"
    BY <1>10 DEF Report
  <2> HIDE DEF p
  <2> QED
    BY <1>2, <2>1, <2>2 DEF Status, Terminal
<1>11. CASE PublishFull
  <2>1. PICK p \in PC : Goto(p)
    BY <1>11 DEF PublishFull, Step, PC
  <2> QED
    BY <1>t, <1>11, <2>1, GotoKeeps DEF PublishFull, Step
<1>12. CASE PublishDegraded
  <2>1. Goto("degraded_event") /\ row'.status = "completed_degraded" /\ target' = target
    BY <1>12 DEF PublishDegraded, Step
  <2> QED
    BY <1>t, <2>1, GotoKeeps DEF PC
<1>13. CASE RecordUpgrade \/ ScheduleRetry
  BY <1>1, <1>13 DEF RecordUpgrade, ScheduleRetry, Step, PC
<1>14. CASE RecordFull \/ AttemptRetry \/ RecordFailed \/ RecordCancelled
  BY <1>3, <1>14 DEF RecordFull, AttemptRetry, RecordFailed, RecordCancelled, Status, Terminal
<1>15. CASE RecordDegraded \/ AskPaused
  BY <1>1, <1>3, <1>15 DEF RecordDegraded, AskPaused, Private, PC, Status, Terminal
<1>16. CASE RequestCancel
  BY <1>t, <1>16 DEF RequestCancel, Private, Workflow
<1>17. CASE Crash
  <2>1. PICK p \in PC : Goto(p) /\ (p \in Publishing => wf.pc \in Publishing)
    BY <1>17 DEF Crash, ActivityOf, PC
  <2> QED
    BY <1>1, <1>17, <2>1 DEF Crash, Private
<1>18. CASE UNCHANGED vars
  BY <1>18 DEF vars
<1> QED
  BY <1>4, <1>5, <1>6, <1>7, <1>8, <1>9, <1>10, <1>11, <1>12, <1>13, <1>14, <1>15, <1>16, <1>17,
     <1>18
  DEF TaskNext, WorkflowStep


LEMMA FullStep == TypeInv /\ FullInv /\ [TaskNext]_vars => FullInv'
  BY WhoCompletes DEF FullInv, IsFull, OnlyPublishing, Publishing

\* Whatever the user does and whatever executions follow each other, a task becomes
\* completed only with the results of every platform.
THEOREM CompletedIsAlwaysComplete == TaskSpec => CompletedIsComplete
<1>1. TaskInit => FullInv
  BY DEF TaskInit, FullInv, Publishing
<1>2. TypeInv /\ FullInv /\ [TaskNext]_vars
      => [row.status # "completed" /\ row'.status = "completed" => wf.ok = Platform]_vars
  BY WhoCompletes DEF FullInv, OnlyPublishing, Publishing
<1> QED
  BY <1>1, <1>2, TypeInitially, TypeStep, FullStep, PTL DEF TaskSpec, CompletedIsComplete

-----------------------------------------------------------------------------
(* What an upgraded task was.                                              *)

\* The event is there, or it is the next thing that the workflow records.
HonestInv ==
  row.upgraded => row.degraded /\ ("upgraded_to_full" \in log \/ wf.pc = "upgrade_event")

LEMMA HonestStep ==
  ASSUME "crash" \notin Faults
  PROVE  TypeInv /\ HonestInv /\ [TaskNext]_vars => HonestInv'
<1> SUFFICES ASSUME TypeInv, HonestInv, [TaskNext]_vars PROVE HonestInv'
  OBVIOUS
<1>t. wf \in Workflow /\ row \in Row
  BY DEF TypeInv, TaskTypeOK, Workflow, Row
<1>1. CASE PublishFull
  <2>1. /\ wf.pc = "publish_full" /\ log' = log
        /\ row'.degraded = row.degraded /\ row'.upgraded = (row.degraded \/ row.upgraded)
        /\ Goto(IF row.degraded /\ ~row.upgraded THEN "upgrade_event" ELSE "full_event")
    BY <1>1 DEF PublishFull, FullRow, Step
  <2>2. CASE row.degraded /\ ~row.upgraded
    BY <1>t, <2>1, <2>2, GotoKeeps DEF HonestInv, PC
  <2>3. CASE ~(row.degraded /\ ~row.upgraded)
    BY <2>1, <2>3 DEF HonestInv
  <2> QED
    BY <2>2, <2>3
<1>2. CASE PublishDegraded
  BY <1>2 DEF PublishDegraded, HonestInv
<1>3. CASE RecordUpgrade
  BY <1>3 DEF RecordUpgrade, Record, HonestInv
<1>4. ASSUME row'.degraded = row.degraded, row'.upgraded = row.upgraded, log \subseteq log',
             wf.pc = "upgrade_event" => wf'.pc = wf.pc
      PROVE  HonestInv'
  BY <1>4 DEF HonestInv
<1>5. CASE User \/ UNCHANGED vars
  BY <1>t, <1>4, <1>5, SetStatusKeeps
  DEF User, CancelTask, PauseRetry, RetryTask, Record, vars, Status, Terminal
<1>6. CASE ApiStep
  BY <1>t, <1>4, <1>6
  DEF ApiStep, StartWorkflow, StartRejected, RecordStartFailure, Record, Running, Row
<1>7. CASE Load \/ NothingToCollect \/ AskPaused
  BY <1>4, <1>7 DEF Load, NothingToCollect, AskPaused, Step, Private
<1>8. CASE Collected
  <2>1. wf.pc = "collecting" /\ Private
    BY <1>8, Zenon DEF Collected
  <2> QED
    BY <1>4, <2>1 DEF Private
<1>9. CASE BeginWait \/ SubmitRun \/ Postprocess \/ MarkFailed \/ CancelByWorkflow
           \/ \E made \in BOOLEAN : Report(made)
  BY <1>t, <1>4, <1>9, SetStatusKeeps
  DEF BeginWait, SubmitRun, Postprocess, MarkFailed, CancelByWorkflow, Report, MarkRunning,
      Step, Status, Terminal
<1>10. CASE RecordFull \/ RecordDegraded \/ ScheduleRetry \/ AttemptRetry \/ RecordFailed
            \/ RecordCancelled
  BY <1>4, <1>10
  DEF RecordFull, RecordDegraded, ScheduleRetry, AttemptRetry, RecordFailed, RecordCancelled,
      Record, Step
<1>11. CASE RequestCancel
  BY <1>t, <1>4, <1>11 DEF RequestCancel, Private, Workflow
<1>12. CASE Crash
  BY <1>12 DEF Crash
<1> QED
  BY <1>1, <1>2, <1>3, <1>5, <1>6, <1>7, <1>8, <1>9, <1>10, <1>11, <1>12
  DEF TaskNext, WorkflowStep

\* As long as no worker dies between the row and its event: whatever the user does,
\* only a degraded task is upgraded, and an event announces it before its execution ends.
THEOREM UpgradesAreAlwaysHonest ==
  ASSUME "crash" \notin Faults
  PROVE  TaskSpec => []UpgradesAreHonest
<1>1. TaskInit => HonestInv
  BY DEF TaskInit, HonestInv
<1>2. HonestInv => UpgradesAreHonest
  BY DEF HonestInv, UpgradesAreHonest, Running
<1>3. TypeInv /\ HonestInv /\ [TaskNext]_vars => HonestInv'
  BY HonestStep
<1> QED
  BY <1>1, <1>2, <1>3, TypeInitially, TypeStep, PTL DEF TaskSpec


-----------------------------------------------------------------------------
(* A task that the user leaves alone, while every start is answered.       *)
Unstarted == {"queued", "running"}
Alone == UserOps = {} /\ "temporal" \notin Faults

\* What the row shows at each step of the only execution; a repeated activity finds
\* what it has written already.
ShownAt ==
  /\ wf.pc \in {"load", "wait", "collecting", "postprocess", "report"} => row.status \in Unstarted
  /\ wf.pc = "publish_full" => row.status \in Unstarted \cup {"completed"}
  /\ wf.pc = "full_event" => row.status = "completed"
  /\ wf.pc # "upgrade_event"
  /\ wf.pc = "publish_degraded" => row.status \in Unstarted \cup {"completed_degraded"}
  /\ wf.pc \in {"degraded_event", "ask_paused", "schedule", "attempt"} =>
       row.status = "completed_degraded"
  /\ wf.pc = "fail" => row.status \in Unstarted \cup {"failed"}
  /\ wf.pc = "fail_event" => row.status = "failed"
  /\ wf.pc = "cancel" => row.status \in Unstarted \cup {"cancelled"}
  /\ wf.pc = "cancel_event" => row.status = "cancelled"
  /\ wf.pc = "closed" => IF wf.runs = 0 THEN row.status = "queued"
                         ELSE row.status = wf.result /\ row.status \in Terminal

AloneInv ==
  /\ api \in {"create", "idle"}
  /\ api = "create" => wf.runs = 0
  /\ wf.runs = 0 => wf.pc = "closed"
  /\ ~row.upgraded
  /\ row.degraded => row.status = "completed_degraded"
  /\ ShownAt

\* The task as its parent sees it.
Seen == [t \in {"it"} |-> [status |-> OutcomeStatus(row.status), open |-> Running,
                           upgraded |-> row.upgraded]]

\* A step of such a task does one of these.
Starts == ~Running /\ Running' /\ row' = row /\ row.status = "queued"
Settles == /\ Running /\ Running' /\ row'.upgraded = row.upgraded
           /\ row.status \in Unstarted /\ row'.status \in Terminal
Goes == /\ Running' = Running /\ row'.upgraded = row.upgraded
        /\ row'.status = row.status \/ {row.status, row'.status} \subseteq Unstarted
Ends == Running /\ ~Running' /\ row' = row /\ row.status \in Terminal

AloneDoes == AloneInv' /\ (Starts \/ Settles \/ Goes \/ Ends)

LEMMA AloneStep ==
  ASSUME Alone, TypeInv, AloneInv, [TaskNext]_vars
  PROVE  AloneDoes
<1>t. wf \in Workflow /\ row \in Row /\ wf.runs \in Nat
  BY TaskAssumption DEF TypeInv, TaskTypeOK, Workflow, Row
<1> USE DEF AloneDoes, AloneInv, ShownAt, Unstarted, Running, Terminal
<1>1. ASSUME NEW p \in PC, wf.pc # "closed", wf'.pc = p, p # "closed", wf'.runs = wf.runs, row' = row,
             api' = api, ShownAt'
      PROVE  AloneDoes
  BY <1>t, <1>1 DEF Goes
<1>2. ASSUME NEW p \in PC, NEW s \in Status, wf.pc # "closed", Goto(p), p # "closed",
             SetStatus(s), api' = api, ~row.degraded,
             \/ s = "running" /\ row.status \in Unstarted
                /\ p \in {"collecting", "report", "fail", "cancel", "publish_full", "publish_degraded"}
             \/ s = "failed" /\ p = "fail_event" /\ row.status \in Unstarted \cup {"failed"}
             \/ s = "cancelled" /\ p = "cancel_event" /\ row.status \in Unstarted \cup {"cancelled"}
      PROVE  AloneDoes
  <2>1. /\ wf'.pc = p /\ wf'.runs = wf.runs /\ row'.status = s
        /\ row'.degraded = row.degraded /\ row'.upgraded = row.upgraded
    BY <1>t, <1>2, GotoKeeps, SetStatusKeeps
  <2> QED
    BY <1>2, <2>1 DEF Goes, Settles
<1>3. ASSUME NEW s \in Terminal, wf.pc # "closed", Close(s), row' = row, api' = api, row.status = s
      PROVE  AloneDoes
  <2>1. wf'.pc = "closed" /\ wf'.runs = wf.runs /\ wf'.result = s
    BY <1>t, <1>3, CloseKeeps DEF Status
  <2> QED
    BY <1>t, <1>3, <2>1 DEF Ends
<1>4. CASE User
  BY <1>4 DEF Alone, User, CancelTask, PauseRetry, RetryTask
<1>5. CASE ApiStep
  <2>1. CASE StartWorkflow
    <3>1. /\ wf.runs = 0 /\ wf'.pc = "load" /\ wf'.runs = 1 /\ row' = row /\ api' = "idle"
      BY <2>1 DEF StartWorkflow, Execution, Alone
    <3> QED
      BY <3>1 DEF Starts
  <2> QED
    BY <1>5, <2>1 DEF ApiStep, StartRejected, RecordStartFailure, Alone
<1>6. CASE Load
  <2>1. OrCancel("wait") \in {"wait", "cancel"}
    BY DEF OrCancel
  <2>2. /\ wf.pc = "load" /\ wf'.pc = OrCancel("wait") /\ wf'.runs = wf.runs /\ row' = row
        /\ api' = api /\ OrCancel("wait") \in PC
    BY <1>t, <1>6, <2>1, GotoKeeps DEF Load, Step, Private, PC
  <2> QED
    BY <1>1, <2>1, <2>2
<1>7. CASE NothingToCollect
  <2>1. OrCancel("fail") \in {"fail", "cancel"}
    BY DEF OrCancel
  <2>2. /\ wf.pc = "load" /\ wf'.pc = OrCancel("fail") /\ wf'.runs = wf.runs /\ row' = row
        /\ api' = api /\ OrCancel("fail") \in PC
    BY <1>t, <1>7, <2>1 DEF NothingToCollect, Private, Workflow, PC
  <2> QED
    BY <1>1, <2>1, <2>2
<1>8. CASE Collected
  <2>1. wf.pc = "collecting" /\ Private
    BY <1>8, Zenon DEF Collected
  <2>2. PICK good \in SUBSET target : \E again \in SUBSET (target \ good) :
          wf' = [wf EXCEPT !.pc = OrCancel("postprocess"), !.ok = good,
                           !.bad = target \ good, !.retryable = again]
    BY <1>8, Zenon DEF Collected
  <2>3. PICK again \in SUBSET (target \ good) :
          wf' = [wf EXCEPT !.pc = OrCancel("postprocess"), !.ok = good,
                           !.bad = target \ good, !.retryable = again]
    BY <2>2, Zenon
  <2>4. OrCancel("postprocess") \in {"postprocess", "cancel"}
    BY DEF OrCancel
  <2>5. /\ wf'.pc = OrCancel("postprocess") /\ wf'.runs = wf.runs /\ row' = row /\ api' = api
        /\ OrCancel("postprocess") \in PC
    BY <1>t, <2>1, <2>3, <2>4 DEF Workflow, Private, PC
  <2> QED
    BY <1>1, <2>1, <2>4, <2>5
<1>9. CASE BeginWait \/ SubmitRun \/ Postprocess \/ MarkFailed \/ CancelByWorkflow
  BY <1>2, <1>9
  DEF BeginWait, SubmitRun, Postprocess, MarkFailed, CancelByWorkflow, MarkRunning, Step, PC, Status
<1>10. ASSUME NEW made \in BOOLEAN, Report(made) PROVE AloneDoes
  <2> DEFINE p == OrCancel(IF ~made THEN "fail"
                           ELSE IF IsFull THEN "publish_full" ELSE "publish_degraded")
  <2>1. p \in PC /\ p \in {"cancel", "fail", "publish_full", "publish_degraded"}
    BY DEF OrCancel, PC
  <2>2. Goto(p) /\ SetStatus("running") /\ api' = api /\ wf.pc = "report"
    BY <1>10 DEF Report
  <2> HIDE DEF p
  <2> QED
    BY <1>2, <2>1, <2>2 DEF Status
<1>11. CASE PublishFull
  <2>1. /\ wf.pc = "publish_full" /\ Goto("full_event") /\ ~row.degraded /\ api' = api
        /\ row'.status = "completed" /\ ~row'.degraded /\ ~row'.upgraded
    BY <1>11 DEF PublishFull, FullRow, Step
  <2>2. wf'.pc = "full_event" /\ wf'.runs = wf.runs
    BY <1>t, <2>1, GotoKeeps DEF PC
  <2>3. row'.upgraded = row.upgraded
    BY <1>t, <1>11, <2>1 DEF PublishFull, FullRow, Row
  <2> QED
    BY <2>1, <2>2, <2>3 DEF Goes, Settles
<1>12. CASE PublishDegraded
  <2>1. /\ wf.pc = "publish_degraded" /\ Goto("degraded_event") /\ api' = api
        /\ row' = [status |-> "completed_degraded", degraded |-> TRUE, upgraded |-> FALSE]
    BY <1>12 DEF PublishDegraded, Step
  <2>2. wf'.pc = "degraded_event" /\ wf'.runs = wf.runs
    BY <1>t, <2>1, GotoKeeps DEF PC
  <2>3. row'.status = "completed_degraded" /\ ~row'.upgraded /\ row'.upgraded = row.upgraded
    BY <1>t, <2>1 DEF Row
  <2> QED
    BY <2>1, <2>2, <2>3 DEF Goes, Settles
<1>13. CASE RecordUpgrade
  BY <1>13 DEF RecordUpgrade, Step
<1>14. CASE ScheduleRetry
  <2>1. wf'.pc = "attempt" /\ wf'.runs = wf.runs
    BY <1>t, <1>14, GotoKeeps DEF ScheduleRetry, Step, PC
  <2> QED
    BY <1>1, <1>14, <2>1 DEF ScheduleRetry, Step, PC
<1>15. CASE RecordFull \/ AttemptRetry \/ RecordFailed \/ RecordCancelled
  BY <1>3, <1>15 DEF RecordFull, AttemptRetry, RecordFailed, RecordCancelled
<1>16. CASE RecordDegraded \/ AskPaused
  <2>1. /\ wf.pc \in {"degraded_event", "ask_paused"} /\ row' = row /\ api' = api
        /\ Goto("ask_paused") \/ Goto("schedule") \/ Close("completed_degraded")
    BY <1>16 DEF RecordDegraded, AskPaused, Private
  <2>2. ASSUME NEW p \in {"ask_paused", "schedule"}, Goto(p) PROVE AloneDoes
    <3>1. p \in PC /\ wf'.pc = p /\ wf'.runs = wf.runs
      BY <1>t, <2>2, GotoKeeps DEF PC
    <3> QED
      BY <1>1, <2>1, <3>1
  <2> QED
    BY <1>3, <2>1, <2>2
<1>17. CASE RequestCancel
  <2>1. /\ wf'.pc = wf.pc /\ wf'.runs = wf.runs /\ row' = row /\ api' = api /\ wf.pc # "closed"
        /\ wf.pc \in PC
    BY <1>t, <1>17 DEF RequestCancel, Private, Workflow
  <2> QED
    BY <1>1, <2>1
<1>18. CASE Crash
  <2>1. PICK p \in PC : /\ Goto(p) /\ row' = row /\ api' = api
                        /\ \/ wf.pc = "full_event" /\ p = "publish_full"
                           \/ wf.pc = "degraded_event" /\ p = "publish_degraded"
                           \/ wf.pc = "fail_event" /\ p = "fail"
                           \/ wf.pc = "cancel_event" /\ p = "cancel"
    BY <1>18 DEF Crash, ActivityOf, Private, PC
  <2>2. wf'.pc = p /\ wf'.runs = wf.runs
    BY <1>t, <2>1, GotoKeeps
  <2> QED
    BY <1>1, <2>1, <2>2
<1>19. CASE UNCHANGED vars
  BY <1>19 DEF vars, Goes
<1> HIDE DEF AloneDoes, AloneInv, ShownAt, Unstarted, Running, Terminal
<1> QED
  BY <1>4, <1>5, <1>6, <1>7, <1>8, <1>9, <1>10, <1>11, <1>12, <1>13, <1>14, <1>15, <1>16, <1>17,
     <1>18, <1>19
  DEF TaskNext, WorkflowStep

\* Each of these is a step of the abstract task, or none.
LEMMA AloneImplements ==
  ASSUME row \in Row, row' \in Row, Starts \/ Settles \/ Goes \/ Ends
  PROVE  [Outcome!OutcomeNext]_Seen
<1> DEFINE it == [status |-> OutcomeStatus(row.status), open |-> Running, upgraded |-> row.upgraded]
<1>1. /\ Seen = [t \in {"it"} |-> it] /\ Seen' = [t \in {"it"} |-> it']
      /\ Seen["it"] = it
  BY DEF Seen
<1>2. /\ row.status \in Unstarted => OutcomeStatus(row.status) = "active"
      /\ row'.status \in Unstarted => OutcomeStatus(row'.status) = "active"
      /\ row.status \in Terminal => OutcomeStatus(row.status) \in Outcome!Result
      /\ row'.status \in Terminal => OutcomeStatus(row'.status) \in Outcome!Result
  BY DEF OutcomeStatus, Unstarted, Terminal, Outcome!Result, Outcome!Usable
<1>3. Running \in BOOLEAN /\ Running' \in BOOLEAN
  BY DEF Running
<1>4. CASE Starts
  <2>1. /\ it = [status |-> "active", open |-> FALSE, upgraded |-> row.upgraded]
        /\ it' = [status |-> "active", open |-> TRUE, upgraded |-> row.upgraded]
    BY <1>2, <1>3, <1>4 DEF Starts, Unstarted
  <2>2. Outcome!Open("it")
    BY <1>1, <2>1 DEF Outcome!Open, Outcome!Is, Seen
  <2> QED
    BY <2>2 DEF Outcome!OutcomeNext
<1>5. CASE Settles
  <2>1. PICK r \in Outcome!Result : r = OutcomeStatus(row'.status)
    BY <1>2, <1>5 DEF Settles
  <2>2. /\ it = [status |-> "active", open |-> TRUE, upgraded |-> row.upgraded]
        /\ it' = [status |-> r, open |-> TRUE, upgraded |-> row.upgraded]
    BY <1>2, <1>3, <1>5, <2>1 DEF Settles
  <2>3. Seen' = [Seen EXCEPT !["it"].status = r]
    BY <1>1, <2>2 DEF Seen
  <2>4. Outcome!Settle("it")
    BY <1>1, <2>2, <2>3 DEF Outcome!Settle, Outcome!Is, Seen
  <2> QED
    BY <2>4 DEF Outcome!OutcomeNext, Outcome!Proceed
<1>6. CASE Goes
  <2>1. it' = it
    BY <1>2, <1>6 DEF Goes
  <2> QED
    BY <1>1, <2>1
<1>7. CASE Ends
  <2>1. /\ OutcomeStatus(row.status) \in Outcome!Result
        /\ it = [status |-> OutcomeStatus(row.status), open |-> TRUE, upgraded |-> row.upgraded]
        /\ it' = [status |-> OutcomeStatus(row.status), open |-> FALSE, upgraded |-> row.upgraded]
    BY <1>2, <1>3, <1>7 DEF Ends
  <2>2. Outcome!Close("it")
    BY <1>1, <2>1 DEF Outcome!Close, Outcome!Is, Seen
  <2> QED
    BY <2>2 DEF Outcome!OutcomeNext, Outcome!Proceed
<1> QED
  BY <1>4, <1>5, <1>6, <1>7

LEMMA AloneInitially == TaskInit => AloneInv /\ Outcome!OutcomeInit
<1> SUFFICES ASSUME TaskInit PROVE AloneInv /\ Outcome!OutcomeInit
  OBVIOUS
<1>1. AloneInv
  BY DEF TaskInit, AloneInv, ShownAt, Unstarted
<1>2. OutcomeStatus(row.status) = "active"
  BY DEF TaskInit, OutcomeStatus
<1>3. Outcome!OutcomeInit
  BY <1>2 DEF TaskInit, Outcome!OutcomeInit, Outcome!Queued, Outcome!NoTask, Running
<1> QED
  BY <1>1, <1>3

\* A task that no user touches and whose start is answered gets one result and keeps it,
\* for any platforms, however its collection ends, when its workflow is told to stop, and
\* when its activities are repeated after a crash.
THEOREM TaskKeepsItsOutcome ==
  ASSUME Alone
  PROVE  TaskSpec => KeepsItsOutcome
<1>1. TypeInv /\ TypeInv' /\ AloneInv /\ [TaskNext]_vars
      => AloneInv' /\ [Outcome!OutcomeNext]_Seen
  <2> SUFFICES ASSUME TypeInv, TypeInv', AloneInv, [TaskNext]_vars
               PROVE  AloneInv' /\ [Outcome!OutcomeNext]_Seen
    OBVIOUS
  <2>1. AloneDoes
    BY AloneStep
  <2>2. row \in Row /\ row' \in Row
    BY DEF TypeInv, TaskTypeOK, Row
  <2> QED
    BY <2>1, <2>2, AloneImplements DEF AloneDoes
<1>2. AloneInv => (wf.runs > 0 /\ ~Running => row.status = wf.result)
  BY DEF AloneInv, ShownAt, Running
<1> QED
  BY <1>1, <1>2, AloneInitially, TypeInitially, TypeStep, PTL
  DEF TaskSpec, KeepsItsOutcome, Outcome!OutcomeSpec, Seen
=============================================================================
