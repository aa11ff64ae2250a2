------------------------------ MODULE JobProofs ------------------------------
(***************************************************************************)
(* Proofs about JobPipeline and JobResults: what a job shows of its stages *)
(* is behind it, and what is made of jobs that end accounts for everything *)
(* it was made of.                                                         *)
(***************************************************************************)
EXTENDS JobResults, FiniteSetTheorems, TLAPS

-----------------------------------------------------------------------------
\* Where the worker is: the collectors are the second and the third stage, and
\* run under the index of the third until both have ended.
AtItsStage ==
  /\ wk.pc \in {"idle", "prepare", "dead"} => wk = Worker(wk.pc)
  /\ wk.pc = "stage" => wk.at # 3
  /\ wk.pc \in {"run", "report"} => wk.at \in {1, 4, 5}
  /\ wk.pc \in {"start_second", "collect", "apply", "applied"} => wk.at = 3
  /\ wk.pc \in {"fail_stage", "complete"} => wk.at \in {1, 2, 4, 5}
  /\ wk.pc = "report" => wk.result \in {"success", "degraded"}
  /\ wk.at < 4 => wk.single = "none"
  /\ wk.single # "none" => wk.degraded /\ ~(wk.pc \in {"run", "report"} /\ wk.at = 4)
  /\ wk.pc \in {"apply", "applied"} => wk.todo \subseteq wk.ok /\ wk.ok # {}
  /\ wk.pc = "applied" => wk.todo # {}

\* There are n rows, and those in S still run.
Shows(n, S) == Len(runs) = n /\ StillRunning = S

\* A job is handed to a worker once, and not touched before.
TakenOnce ==
  /\ api = "enqueue" => ~queue
  /\ api = "enqueue" \/ queue =>
       wk.pc = "idle" /\ Shows(1, {}) /\ saved = {} /\ files = {}
  /\ api \in {"enqueue", "reject"} => ~old /\ "job" \notin cleaner
  /\ (api = "enqueue" \/ (Accepted /\ queue)) => job.status = "queued"

\* The rows: one for the submission, then one for every stage that was started or
\* skipped, in their order.
RowsInOrder ==
  /\ Len(runs) \in 1 .. 6
  /\ runs[1].stage = "queued" /\ runs[1].status # "running"
  /\ \A i \in 2 .. Len(runs) : runs[i].stage = Stages[i - 1]

\* How many there are, and which still run, at each point of the worker.
Unread == {i \in {3, 4} : Stages[i - 1] \in wk.todo \cup (Collector \ wk.ok)}
RowsOfTheWorker ==
  /\ wk.pc = "prepare" => Shows(1, {})
  /\ wk.pc = "stage" => Shows(wk.at, {})
  /\ wk.pc \in {"run", "report"} => Shows(wk.at + 1, {wk.at + 1})
  /\ wk.pc = "start_second" => Shows(3, {3})
  /\ wk.pc = "collect" => Shows(4, {3, 4})
  /\ wk.pc \in {"apply", "applied"} => Shows(4, Unread)
  /\ wk.pc = "fail_stage" =>
       IF wk.at = 2 THEN Shows(4, {3, 4}) ELSE Shows(wk.at + 1, {wk.at + 1})
  /\ wk.pc = "complete" => IF wk.at = 2 THEN Shows(4, {4}) ELSE Shows(wk.at + 1, {})

RowsOfTheEnd ==
  wk.pc = "idle" =>
    /\ StillRunning = {} \/ StillRunning = {3} \/ StillRunning = {4}
    /\ Accepted /\ StillRunning # {} => job.status \notin Success

\* The status of an accepted job follows its worker.
StatusFollows ==
  /\ Accepted /\ job.status \in Ended \cup {"expired"} => wk.pc = "idle" /\ ~queue
  /\ Working /\ old /\ job.status \in Ended =>
       wk.pc = "prepare" \/ (wk.pc = "stage" /\ wk.at = 1)
  /\ Accepted /\ "job" \in cleaner => job.status \in Ended /\ old

\* What is on disk for the stages that are behind.
FilesFollow ==
  /\ wk.pc = "report" => Now \in files
  /\ wk.pc \in {"apply", "applied"} => wk.ok \subseteq files
  /\ wk.pc \in {"stage", "run", "report"} /\ wk.at > 3 /\ wk.single = "none" =>
       Collector \subseteq files
  /\ "postprocessing" \in files => Collector \subseteq files

\* What the tables of an accepted job say of them.
BehindIsSaved == \A i \in 1 .. wk.at - 1 : Stages[i] \in saved
SavedFollow ==
  Accepted =>
    /\ ~old \/ Working \/ queue => saved \subseteq files
    /\ saved \cap Collector \subseteq corpus
    /\ wk.pc \in {"apply", "applied"} => wk.ok \ wk.todo \subseteq saved
    /\ wk.pc = "applied" => NextToApply \in corpus
    /\ wk.pc \in {"start_second", "collect", "apply", "applied"} => Stages[1] \in saved
    /\ wk.pc \in {"stage", "run", "report"} /\ wk.single = "none" => BehindIsSaved
    /\ wk.pc \in {"stage", "run", "report"} /\ wk.at > 3 => saved \cap Collector # {}
    /\ wk.pc \in {"stage", "run", "report"} /\ wk.at = 6 => Stages[5] \in saved

JobInv ==
  /\ JobTypeOK /\ AtItsStage /\ TakenOnce /\ RowsInOrder /\ RowsOfTheWorker
  /\ RowsOfTheEnd /\ StatusFollows /\ FilesFollow /\ SavedFollow
  /\ StagesAreBacked


-----------------------------------------------------------------------------
(* The stages and the rows.                                                *)

RunRow == [stage : {"queued"} \cup Stage, status : RunStatus]

\* The five stages, as a reader of build_stage_commands sees them.
LEMMA TheStages ==
  /\ Len(Stages) = 5 /\ DOMAIN Stages = 1 .. 5
  /\ Stages[1] = "checking_incremental"
  /\ Stages[2] = "collecting_autohome"
  /\ Stages[3] = "collecting_dcd"
  /\ Stages[4] = "postprocessing"
  /\ Stages[5] = "generating_hermes_outputs"
  /\ Stage = {"checking_incremental", "collecting_autohome", "collecting_dcd",
              "postprocessing", "generating_hermes_outputs"}
  /\ \A k \in 1 .. 5 : Stages[k] \in Stage
BY DEF Stages, Stage

\* A row that is added leaves the others as they are.
LEMMA ARowIsAdded ==
  ASSUME runs \in Seq(RunRow), NEW s \in Stage, NEW status \in RunStatus,
         AddRun(s, status)
  PROVE  /\ runs' \in Seq(RunRow)
         /\ Len(runs') = Len(runs) + 1
         /\ \A i \in 1 .. Len(runs) : runs'[i] = runs[i]
         /\ runs'[Len(runs) + 1].stage = s
         /\ runs'[Len(runs) + 1].status = status
         /\ StillRunning' = StillRunning \cup (IF status = "running" THEN {Len(runs) + 1} ELSE {})
<1> DEFINE new == [stage |-> s, status |-> status]
<1>1. new \in RunRow
  BY DEF RunRow
<1>2. runs' = Append(runs, new)
  BY DEF AddRun
<1>3. new.stage = s /\ new.status = status
  OBVIOUS
<1> HIDE DEF new
<1>4. /\ runs' \in Seq(RunRow) /\ Len(runs') = Len(runs) + 1
      /\ \A i \in 1 .. Len(runs) : runs'[i] = runs[i]
      /\ runs'[Len(runs) + 1] = new
  BY <1>1, <1>2
<1>5. DOMAIN runs = 1 .. Len(runs) /\ DOMAIN runs' = 1 .. Len(runs) + 1 /\ Len(runs) \in Nat
  BY <1>4
<1>6. StillRunning' = StillRunning \cup (IF status = "running" THEN {Len(runs) + 1} ELSE {})
  BY <1>3, <1>4, <1>5 DEF StillRunning
<1> QED BY <1>3, <1>4, <1>6

\* A row that is set keeps its stage, and the others are left as they are.
LEMMA ARowIsSet ==
  ASSUME runs \in Seq(RunRow), NEW k \in 1 .. Len(runs), NEW status \in RunStatus,
         SetRun(k, status)
  PROVE  /\ runs' \in Seq(RunRow)
         /\ Len(runs') = Len(runs)
         /\ \A i \in 1 .. Len(runs) : runs'[i].stage = runs[i].stage
         /\ \A i \in 1 .. Len(runs) : i # k => runs'[i] = runs[i]
         /\ runs'[k].status = status
         /\ StillRunning' = (StillRunning \ {k}) \cup (IF status = "running" THEN {k} ELSE {})
<1> DEFINE new == [runs[k] EXCEPT !.status = status]
<1>1. DOMAIN runs = 1 .. Len(runs) /\ runs[k] \in RunRow /\ Len(runs) \in Nat
  OBVIOUS
<1>2. new \in RunRow /\ new.stage = runs[k].stage /\ new.status = status
  BY <1>1 DEF RunRow
<1>3. runs' = [runs EXCEPT ![k] = new]
  BY DEF SetRun
<1> HIDE DEF new
<1>4. /\ runs' \in Seq(RunRow) /\ Len(runs') = Len(runs)
      /\ \A i \in 1 .. Len(runs) : i # k => runs'[i] = runs[i]
      /\ runs'[k] = new
  BY <1>1, <1>2, <1>3
<1>5. DOMAIN runs' = 1 .. Len(runs)
  BY <1>4
<1>6. StillRunning' = (StillRunning \ {k}) \cup (IF status = "running" THEN {k} ELSE {})
  BY <1>1, <1>2, <1>4, <1>5 DEF StillRunning
<1>7. \A i \in 1 .. Len(runs) : runs'[i].stage = runs[i].stage
  BY <1>2, <1>4
<1> QED BY <1>2, <1>4, <1>6, <1>7

\* The newest of a set with one element is that one, of two the larger.
LEMMA NewestIs ==
  ASSUME NEW a \in Nat, NEW b \in Nat, a <= b
  PROVE  Newest({a, b}) = b
BY DEF Newest

\* A stage has one row, behind the one of the submission.
LEMMA RowOfAStage ==
  ASSUME runs \in Seq(RunRow), RowsInOrder, NEW k \in 1 .. 5, k + 1 <= Len(runs)
  PROVE  /\ Rows(Stages[k]) = {k + 1} /\ Newest(Rows(Stages[k])) = k + 1
         /\ k + 1 \in 1 .. Len(runs)
<1>1. DOMAIN runs = 1 .. Len(runs) /\ Len(runs) \in Nat
  OBVIOUS
<1>2. \A i, j \in 1 .. 5 : i # j => Stages[i] # Stages[j]
  BY TheStages
<1>3. Stages[k] # "queued"
  BY TheStages
<1>4. \A i \in 1 .. Len(runs) : runs[i].stage = Stages[k] <=> i = k + 1
  <2> TAKE i \in 1 .. Len(runs)
  <2>1. CASE i = 1
    BY <2>1, <1>3 DEF RowsInOrder
  <2>2. CASE i # 1
    <3>1. i \in 2 .. Len(runs) /\ runs[i].stage = Stages[i - 1]
      BY <2>2, <1>1 DEF RowsInOrder
    <3>2. Len(runs) \in 1 .. 6
      BY DEF RowsInOrder
    <3>3. i - 1 \in 1 .. 5 /\ (i = k + 1 <=> i - 1 = k)
      BY <2>2, <3>2, <1>1
    <3> QED BY <3>1, <3>3, <1>2
  <2> QED BY <2>1, <2>2
<1>5. Rows(Stages[k]) = {k + 1}
  BY <1>1, <1>4 DEF Rows
<1>6. Newest({k + 1, k + 1}) = k + 1 /\ {k + 1, k + 1} = {k + 1}
  BY NewestIs
<1>7. k + 1 \in 1 .. Len(runs)
  BY <1>1
<1> QED BY <1>5, <1>6, <1>7

\* The rows of anything are at most one.
LEMMA RowsAreFew ==
  ASSUME runs \in Seq(RunRow), RowsInOrder, NEW s
  PROVE  Rows(s) = {} \/ \E k \in 1 .. Len(runs) : Rows(s) = {k}
<1>1. DOMAIN runs = 1 .. Len(runs) /\ Len(runs) \in Nat
  OBVIOUS
<1>2. Len(runs) \in 1 .. 6
  BY DEF RowsInOrder
<1>3. CASE \E k \in 1 .. 5 : s = Stages[k] /\ k + 1 <= Len(runs)
  BY <1>3, RowOfAStage
<1>4. CASE ~ \E k \in 1 .. 5 : s = Stages[k] /\ k + 1 <= Len(runs)
  <2>1. \A i \in 2 .. Len(runs) : runs[i].stage # s
    <3> TAKE i \in 2 .. Len(runs)
    <3>1. i - 1 \in 1 .. 5 /\ (i - 1) + 1 <= Len(runs)
      BY <1>1, <1>2
    <3>2. runs[i].stage = Stages[i - 1]
      BY DEF RowsInOrder
    <3> QED BY <3>1, <3>2, <1>4
  <2>2. \A i \in 1 .. Len(runs) : runs[i].stage = s => i = 1
    BY <2>1, <1>2
  <2>3. Rows(s) = {} \/ Rows(s) = {1}
    BY <2>2, <1>1 DEF Rows
  <2>4. 1 \in 1 .. Len(runs)
    BY <1>2
  <2> QED BY <2>3, <2>4
<1> QED BY <1>3, <1>4

-----------------------------------------------------------------------------
(* The worker.                                                             *)

WorkerRow == [pc : PC, at : 1 .. 6, degraded : BOOLEAN, ok : SUBSET Collector,
              todo : SUBSET Collector, single : Collector \cup {"none"}, result : RunStatus]
JobRow == [status : JobStatus, stage : JobStatus, degraded : BOOLEAN]

\* The type invariant, with the records by name.
Typed ==
  /\ job \in JobRow /\ runs \in Seq(RunRow) /\ wk \in WorkerRow
  /\ saved \subseteq Stage /\ files \subseteq Stage /\ corpus \subseteq Collector
  /\ old \in BOOLEAN /\ queue \in BOOLEAN
  /\ api \in {"enqueue", "reject", "accepted", "rejected"}
  /\ cleaner \subseteq {"job", "comparison"}

LEMMA TypesByName == (JobTypeOK <=> Typed) /\ (JobTypeOK' <=> Typed')
<1>1. DOMAIN Stages \cup {Len(Stages) + 1} = 1 .. 6
  BY TheStages
<1> QED BY <1>1 DEF JobTypeOK, Typed, JobRow, RunRow, WorkerRow

\* A worker that has not begun, or has ended.
LEMMA WorkerAtRest ==
  ASSUME NEW pc \in PC
  PROVE  /\ Worker(pc) \in WorkerRow
         /\ Worker(pc).pc = pc /\ Worker(pc).at = 1 /\ Worker(pc).single = "none"
         /\ Worker(pc).degraded = FALSE /\ Worker(pc).ok = {} /\ Worker(pc).todo = {}
<1>1. "queued" \in RunStatus
  BY DEF RunStatus
<1> QED BY <1>1 DEF Worker, WorkerRow

\* A job begins as the invariant says.
LEMMA JobBegins == JobInit => JobInv
<1> SUFFICES ASSUME JobInit PROVE JobInv
  OBVIOUS
<1> DEFINE first == [stage |-> "queued", status |-> "queued"]
<1>1. first \in RunRow /\ first.stage = "queued" /\ first.status = "queued"
  BY DEF RunRow, RunStatus
<1>2. runs = <<first>> /\ wk = Worker("idle") /\ job.status = "queued" /\ job \in JobRow
  BY DEF JobInit, JobRow, JobStatus
<1> HIDE DEF first
<1>3. runs \in Seq(RunRow) /\ Len(runs) = 1 /\ runs[1] = first /\ DOMAIN runs = 1 .. 1
  BY <1>1, <1>2
<1>4. /\ wk \in WorkerRow /\ wk.pc = "idle" /\ wk.at = 1 /\ wk.single = "none"
  BY <1>2, WorkerAtRest DEF PC
<1>5. StillRunning = {}
  BY <1>1, <1>3 DEF StillRunning
<1>6. /\ saved = {} /\ files = {} /\ corpus = {} /\ old = FALSE /\ queue = FALSE
      /\ api = "enqueue" /\ cleaner = {}
  BY DEF JobInit
<1>7. JobTypeOK
  BY <1>2, <1>3, <1>4, <1>6, TypesByName DEF Typed
<1>8. AtItsStage
  BY <1>2, <1>4 DEF AtItsStage
<1>9. TakenOnce
  BY <1>2, <1>3, <1>4, <1>5, <1>6 DEF TakenOnce, Shows, Accepted
<1>10. RowsInOrder
  BY <1>1, <1>3 DEF RowsInOrder
<1>11. RowsOfTheWorker
  BY <1>4 DEF RowsOfTheWorker
<1>12. RowsOfTheEnd
  BY <1>5 DEF RowsOfTheEnd
<1>13. StatusFollows /\ FilesFollow /\ SavedFollow /\ StagesAreBacked
  BY <1>2, <1>4, <1>6 DEF StatusFollows, FilesFollow, SavedFollow, StagesAreBacked, Accepted,
     Working, Ended, Success
<1> QED BY <1>7, <1>8, <1>9, <1>10, <1>11, <1>12, <1>13 DEF JobInv

\* The parts that a step leaves alone which neither moves the worker nor touches the
\* rows.
LEMMA WorkerAndRowsStay ==
  ASSUME JobInv, UNCHANGED <<runs, wk>>
  PROVE  /\ AtItsStage' /\ RowsInOrder' /\ RowsOfTheWorker'
         /\ StillRunning' = StillRunning /\ (\A n, S : Shows(n, S)' <=> Shows(n, S))
         /\ runs' \in Seq(RunRow) /\ wk' \in WorkerRow
<1>1. AtItsStage /\ RowsInOrder /\ RowsOfTheWorker /\ runs \in Seq(RunRow) /\ wk \in WorkerRow
  BY TypesByName DEF JobInv, Typed
<1>2. StillRunning' = StillRunning /\ Unread' = Unread
  BY DEF StillRunning, Unread
<1> QED BY <1>1, <1>2 DEF AtItsStage, RowsInOrder, RowsOfTheWorker, Shows

\* The push of the job.
LEMMA EnqueueKeeps ==
  ASSUME JobInv, Enqueue
  PROVE  JobInv'
<1>1. /\ api = "enqueue" /\ queue' \in BOOLEAN /\ api' \in {"accepted", "reject"}
      /\ UNCHANGED <<job, runs, saved, files, corpus, old, cleaner, wk>>
  BY DEF Enqueue, store, disk
<1>2. /\ wk.pc = "idle" /\ saved = {} /\ files = {} /\ ~old /\ job.status = "queued"
      /\ Shows(1, {}) /\ "job" \notin cleaner
  BY <1>1 DEF JobInv, TakenOnce
<1>3. JobTypeOK'
  BY <1>1, TypesByName DEF JobInv, Typed
<1>4. AtItsStage' /\ RowsInOrder' /\ RowsOfTheWorker' /\ Shows(1, {})' /\ StillRunning' = {}
  BY <1>1, <1>2, WorkerAndRowsStay DEF Shows
<1>5. TakenOnce'
  BY <1>1, <1>2, <1>4 DEF TakenOnce, Accepted
<1>6. RowsOfTheEnd'
  BY <1>4 DEF RowsOfTheEnd
<1>7. StatusFollows' /\ FilesFollow' /\ StagesAreBacked'
  BY <1>1, <1>2 DEF StatusFollows, FilesFollow, StagesAreBacked, Working, Success, Ended,
     JobInv
<1>8. SavedFollow'
  BY <1>1, <1>2 DEF SavedFollow
<1> QED BY <1>3, <1>4, <1>5, <1>6, <1>7, <1>8 DEF JobInv

(* The fields of the worker's record.                                      *)

\* It turns to another point, and to another stage.
LEMMA WorkerMoves ==
  ASSUME wk \in WorkerRow, NEW p \in PC, NEW a \in 1 .. 6,
         wk' = [wk EXCEPT !.pc = p, !.at = a]
  PROVE  /\ wk' \in WorkerRow /\ wk'.pc = p /\ wk'.at = a /\ wk'.degraded = wk.degraded
         /\ wk'.ok = wk.ok /\ wk'.todo = wk.todo /\ wk'.single = wk.single
BY DEF WorkerRow

\* It leaves a stage out.
LEMMA WorkerSkips ==
  ASSUME wk \in WorkerRow, NEW a \in 1 .. 6,
         wk' = [wk EXCEPT !.at = a, !.degraded = TRUE]
  PROVE  /\ wk' \in WorkerRow /\ wk'.pc = wk.pc /\ wk'.at = a /\ wk'.degraded = TRUE
         /\ wk'.single = wk.single
BY DEF WorkerRow

\* It has the result of a stage.
LEMMA WorkerSettles ==
  ASSUME wk \in WorkerRow, NEW p \in PC, NEW r \in RunStatus,
         wk' = [wk EXCEPT !.pc = p, !.result = r]
  PROVE  /\ wk' \in WorkerRow /\ wk'.pc = p /\ wk'.at = wk.at /\ wk'.degraded = wk.degraded
         /\ wk'.ok = wk.ok /\ wk'.todo = wk.todo /\ wk'.single = wk.single
BY DEF WorkerRow

\* It has the results of the collectors.
LEMMA WorkerCollects ==
  ASSUME wk \in WorkerRow, NEW p \in PC, NEW a \in 1 .. 6,
         NEW o \in SUBSET Collector,
         NEW t \in SUBSET Collector,
         wk' = [wk EXCEPT !.pc = p, !.ok = o, !.todo = t, !.at = a]
  PROVE  /\ wk' \in WorkerRow /\ wk'.pc = p /\ wk'.at = a /\ wk'.degraded = wk.degraded
         /\ wk'.ok = o /\ wk'.todo = t /\ wk'.single = wk.single
BY DEF WorkerRow

\* It goes through them.
LEMMA WorkerApplies ==
  ASSUME wk \in WorkerRow, NEW p \in PC,
         NEW t \in SUBSET Collector,
         wk' = [wk EXCEPT !.pc = p, !.todo = t]
  PROVE  /\ wk' \in WorkerRow /\ wk'.pc = p /\ wk'.at = wk.at /\ wk'.degraded = wk.degraded
         /\ wk'.ok = wk.ok /\ wk'.todo = t /\ wk'.single = wk.single
BY DEF WorkerRow

\* It goes on with one platform.
LEMMA WorkerFallsBack ==
  ASSUME wk \in WorkerRow, NEW p \in PC, NEW a \in 1 .. 6, NEW s \in Collector,
         wk' = [wk EXCEPT !.pc = p, !.at = a, !.degraded = TRUE, !.single = s]
  PROVE  /\ wk' \in WorkerRow /\ wk'.pc = p /\ wk'.at = a /\ wk'.degraded = TRUE
         /\ wk'.ok = wk.ok /\ wk'.todo = wk.todo /\ wk'.single = s
BY DEF WorkerRow

\* The row of a job that was not handed over.
LEMMA RejectKeeps ==
  ASSUME JobInv, Reject
  PROVE  JobInv'
<1>1. /\ api = "reject" /\ api' = "rejected" /\ SetRun(1, "failed")
      /\ job' = [job EXCEPT !.status = "failed", !.stage = "failed"]
      /\ UNCHANGED <<saved, files, corpus, old, queue, cleaner, wk>>
  BY DEF Reject, disk
<1>2. /\ Typed /\ AtItsStage /\ TakenOnce /\ RowsInOrder /\ RowsOfTheWorker /\ RowsOfTheEnd
      /\ StatusFollows /\ FilesFollow /\ StagesAreBacked
  BY TypesByName DEF JobInv
<1>3. runs \in Seq(RunRow) /\ 1 \in 1 .. Len(runs) /\ "failed" \in RunStatus
  BY <1>2 DEF Typed, RowsInOrder, RunStatus
<1>4. runs[1].status # "running" /\ 1 \notin StillRunning
  BY <1>2 DEF RowsInOrder, StillRunning
<1>5. /\ runs' \in Seq(RunRow) /\ Len(runs') = Len(runs)
      /\ StillRunning' = (StillRunning \ {1}) \cup {}
      /\ \A i \in 1 .. Len(runs) : runs'[i].stage = runs[i].stage
      /\ runs'[1].status = "failed"
  BY <1>1, <1>3, ARowIsSet
<1>5a. StillRunning' = StillRunning
  BY <1>4, <1>5
<1>6. job' \in JobRow /\ job'.status = "failed"
  BY <1>1, <1>2 DEF Typed, JobRow, JobStatus, Ended
<1>7. JobTypeOK'
  BY <1>1, <1>2, <1>5, <1>6, TypesByName DEF Typed
<1>8. AtItsStage'
  BY <1>1, <1>2 DEF AtItsStage
<1>9. Unread' = Unread
  BY <1>1 DEF Unread
<1>10. RowsInOrder' /\ RowsOfTheWorker'
  <2>1. \A i \in 2 .. Len(runs) : i \in 1 .. Len(runs)
    BY <1>3
  <2>2. RowsInOrder'
    BY <1>2, <1>5, <2>1 DEF RowsInOrder
  <2> QED BY <1>1, <1>2, <1>5, <1>5a, <1>9, <2>2 DEF RowsOfTheWorker, Shows
<1>11. TakenOnce'
  BY <1>1, <1>2, <1>5, <1>5a DEF TakenOnce, Shows, Accepted
<1>12. RowsOfTheEnd' /\ SavedFollow'
  BY <1>1, <1>2, <1>5, <1>5a DEF RowsOfTheEnd, SavedFollow, Accepted
<1>13. StatusFollows' /\ FilesFollow' /\ StagesAreBacked'
  BY <1>1, <1>2 DEF StatusFollows, FilesFollow, StagesAreBacked, Accepted, TakenOnce, Now
<1> QED BY <1>7, <1>8, <1>10, <1>11, <1>12, <1>13 DEF JobInv

\* The retention period passes.
LEMMA AgeKeeps ==
  ASSUME JobInv, Age
  PROVE  JobInv'
<1>1. /\ ~Working /\ api \in {"accepted", "rejected"} /\ old' = TRUE
      /\ UNCHANGED <<job, runs, saved, files, corpus, queue, api, cleaner, wk>>
  BY DEF Age, store, disk
<1>2. /\ Typed /\ TakenOnce /\ RowsOfTheEnd /\ StatusFollows /\ FilesFollow /\ SavedFollow
      /\ StagesAreBacked
  BY TypesByName DEF JobInv
<1>3. JobTypeOK'
  BY <1>1, <1>2, TypesByName DEF Typed
<1>4. AtItsStage' /\ RowsInOrder' /\ RowsOfTheWorker' /\ StillRunning' = StillRunning
  BY <1>1, WorkerAndRowsStay
<1>5. TakenOnce' /\ RowsOfTheEnd'
  BY <1>1, <1>2, <1>4 DEF TakenOnce, Shows, RowsOfTheEnd, Accepted
<1>6. Working' = Working /\ Now' = Now /\ NextToApply' = NextToApply
  BY <1>1 DEF Working, Now, NextToApply
<1>7. StatusFollows' /\ FilesFollow' /\ StagesAreBacked'
  BY <1>1, <1>2, <1>6 DEF StatusFollows, FilesFollow, StagesAreBacked, Accepted
<1>8. SavedFollow'
  BY <1>1, <1>2, <1>6 DEF SavedFollow, BehindIsSaved, Accepted
<1> QED BY <1>3, <1>4, <1>5, <1>7, <1>8 DEF JobInv

\* The cleanup removes the directory of a job that is over: none of a job whose worker
\* has begun a stage.
LEMMA RemoveFilesKeeps ==
  ASSUME JobInv, RemoveFiles
  PROVE  JobInv'
<1>1. /\ cleaner = {} /\ old /\ job.status \in Ended /\ files' = {} /\ cleaner' = {"job"}
      /\ UNCHANGED <<job, runs, saved, corpus, old, queue, api, wk>>
  BY DEF RemoveFiles, store
<1>2. /\ Typed /\ AtItsStage /\ TakenOnce /\ RowsOfTheEnd /\ StatusFollows /\ SavedFollow
      /\ StagesAreBacked
  BY TypesByName DEF JobInv
<1>3. JobTypeOK'
  BY <1>1, <1>2, TypesByName DEF Typed
<1>4. AtItsStage' /\ RowsInOrder' /\ RowsOfTheWorker' /\ StillRunning' = StillRunning
  BY <1>1, WorkerAndRowsStay
<1>5. TakenOnce' /\ RowsOfTheEnd'
  BY <1>1, <1>2, <1>4 DEF TakenOnce, Shows, RowsOfTheEnd, Accepted
<1>6. StatusFollows'
  BY <1>1, <1>2 DEF StatusFollows, Working, Accepted
<1>7. wk.pc \in {"idle", "dead", "prepare", "stage"} /\ (wk.pc = "stage" => wk.at = 1)
  BY <1>1, <1>2 DEF StatusFollows, Working
<1>8. FilesFollow'
  BY <1>1, <1>7 DEF FilesFollow
<1>9. SavedFollow'
  BY <1>1, <1>2 DEF SavedFollow, StatusFollows, Working, Accepted
<1>10. StagesAreBacked'
  BY <1>1 DEF StagesAreBacked
<1> QED BY <1>3, <1>4, <1>5, <1>6, <1>8, <1>9, <1>10 DEF JobInv

\* The cleanup commits: an accepted job is expired only when it is over.
LEMMA CommitCleanupKeeps ==
  ASSUME JobInv, CommitCleanup
  PROVE  JobInv'
<1>1. /\ ExpireJob /\ cleaner' = {}
      /\ UNCHANGED <<runs, files, corpus, old, queue, api, wk>>
  BY DEF CommitCleanup
<1>2. /\ Typed /\ AtItsStage /\ TakenOnce /\ RowsOfTheEnd /\ StatusFollows /\ FilesFollow
      /\ SavedFollow /\ StagesAreBacked
  BY TypesByName DEF JobInv
<1>3. AtItsStage' /\ RowsInOrder' /\ RowsOfTheWorker' /\ StillRunning' = StillRunning
  BY <1>1, WorkerAndRowsStay
<1>4. Working' = Working /\ Now' = Now /\ NextToApply' = NextToApply
  BY <1>1 DEF Working, Now, NextToApply
<1>5. CASE "job" \notin cleaner
  <2>1. UNCHANGED <<saved, job>>
    BY <1>1, <1>5 DEF ExpireJob
  <2>2. JobTypeOK'
    BY <1>1, <1>2, <2>1, TypesByName DEF Typed
  <2>3. TakenOnce' /\ RowsOfTheEnd'
    BY <1>1, <1>2, <1>3, <2>1 DEF TakenOnce, Shows, RowsOfTheEnd, Accepted
  <2>4. StatusFollows' /\ FilesFollow' /\ StagesAreBacked'
    BY <1>1, <1>2, <1>4, <2>1 DEF StatusFollows, FilesFollow, StagesAreBacked, Accepted
  <2>5. SavedFollow'
    BY <1>1, <1>2, <1>4, <2>1 DEF SavedFollow, BehindIsSaved, Accepted
  <2> QED BY <1>3, <2>2, <2>3, <2>4, <2>5 DEF JobInv
<1>6. CASE "job" \in cleaner
  <2>1. saved' = {} /\ job' = [job EXCEPT !.status = "expired", !.stage = "expired"]
    BY <1>1, <1>6 DEF ExpireJob
  <2>2. job' \in JobRow /\ job'.status = "expired"
    BY <1>2, <2>1 DEF Typed, JobRow, JobStatus
  <2>3. JobTypeOK'
    BY <1>1, <1>2, <2>1, <2>2, TypesByName DEF Typed
  <2>4. "expired" \notin Ended /\ "expired" \notin Success
    BY DEF Ended, Success
  <2>5. api # "enqueue" /\ (Accepted => wk.pc = "idle" /\ ~queue)
    BY <1>2, <1>6 DEF TakenOnce, StatusFollows
  <2>6. TakenOnce' /\ RowsOfTheEnd'
    BY <1>1, <1>2, <1>3, <2>1, <2>2, <2>4, <2>5 DEF TakenOnce, Shows, RowsOfTheEnd, Accepted
  <2>7. StatusFollows' /\ FilesFollow' /\ StagesAreBacked'
    BY <1>1, <1>2, <1>4, <2>2, <2>4, <2>5 DEF StatusFollows, FilesFollow, StagesAreBacked,
       Accepted
  <2>8. SavedFollow'
    BY <1>1, <2>1, <2>5 DEF SavedFollow, BehindIsSaved, Accepted
  <2> QED BY <1>3, <2>3, <2>6, <2>7, <2>8 DEF JobInv
<1> QED BY <1>5, <1>6

\* Nothing of the job changes: the cleanup rolls back or turns to a comparison, or
\* another process is at work.
LEMMA CleanerKeeps ==
  ASSUME JobInv, cleaner' \subseteq cleaner \cup {"comparison"},
         UNCHANGED <<store, disk, old, queue, api, wk>>
  PROVE  JobInv'
<1>1. /\ UNCHANGED <<job, runs, saved, files, corpus, old, queue, api, wk>>
      /\ cleaner' \subseteq cleaner \cup {"comparison"}
  BY DEF store, disk
<1>2. /\ Typed /\ TakenOnce /\ RowsOfTheEnd /\ StatusFollows /\ FilesFollow
      /\ SavedFollow /\ StagesAreBacked
  BY TypesByName DEF JobInv
<1>3. AtItsStage' /\ RowsInOrder' /\ RowsOfTheWorker' /\ StillRunning' = StillRunning
  BY <1>1, WorkerAndRowsStay
<1>4. Working' = Working /\ Now' = Now /\ NextToApply' = NextToApply
  BY <1>1 DEF Working, Now, NextToApply
<1>5. JobTypeOK'
  BY <1>1, <1>2, TypesByName DEF Typed
<1>6. TakenOnce' /\ RowsOfTheEnd'
  BY <1>1, <1>2, <1>3 DEF TakenOnce, Shows, RowsOfTheEnd, Accepted
<1>7. StatusFollows' /\ FilesFollow' /\ StagesAreBacked'
  BY <1>1, <1>2, <1>4 DEF StatusFollows, FilesFollow, StagesAreBacked, Accepted
<1>8. SavedFollow'
  BY <1>1, <1>2, <1>4 DEF SavedFollow, BehindIsSaved, Accepted
<1> QED BY <1>3, <1>5, <1>6, <1>7, <1>8 DEF JobInv

-----------------------------------------------------------------------------
(* A worker at work.                                                       *)

\* Nobody else takes an accepted job then, ends it or removes its files.
LEMMA AtWork ==
  ASSUME JobInv, Working
  PROVE  /\ api # "enqueue" /\ ~queue
         /\ wk.pc # "idle" /\ wk.pc # "dead"
         /\ Accepted => /\ job.status \notin Ended \cup {"expired"}
                        /\ "job" \notin cleaner /\ saved \subseteq files
<1>1. TakenOnce /\ StatusFollows /\ SavedFollow
  BY DEF JobInv
<1> QED BY <1>1 DEF TakenOnce, StatusFollows, SavedFollow, Working

\* A step of the worker that does not end the job.
LEMMA StillAtWork ==
  ASSUME JobInv, Working, Others, wk'.pc # "idle",
         \/ job'.status \in Stage
         \/ job'.status = job.status /\ wk.pc # "prepare" /\ ~(wk.pc = "stage" /\ wk.at = 1)
  PROVE  TakenOnce' /\ StatusFollows' /\ RowsOfTheEnd'
<1>1. UNCHANGED <<old, queue, api, cleaner>>
  BY DEF Others
<1>2. TakenOnce /\ StatusFollows
  BY DEF JobInv
<1>3. TakenOnce' /\ RowsOfTheEnd'
  BY <1>1, <1>2, AtWork DEF TakenOnce, RowsOfTheEnd, Accepted
<1>4. \A s \in Stage : s \notin Ended \cup {"expired"}
  BY TheStages DEF Ended, Success
<1>5. Accepted => job'.status \notin Ended \cup {"expired"} /\ "job" \notin cleaner
  BY <1>4, AtWork
<1>6. old /\ job'.status \in Ended => FALSE
  BY <1>2, <1>4, AtWork DEF StatusFollows
<1>7. StatusFollows'
  BY <1>1, <1>5, <1>6 DEF StatusFollows, Accepted
<1> QED BY <1>3, <1>7

\* A row is added for the stage whose turn it is.
LEMMA OrderWithAnother ==
  ASSUME Typed, RowsInOrder, Len(runs) <= 5, NEW status \in RunStatus,
         AddRun(Stages[Len(runs)], status)
  PROVE  /\ RowsInOrder' /\ runs' \in Seq(RunRow) /\ Len(runs') = Len(runs) + 1
         /\ StillRunning' = StillRunning \cup (IF status = "running" THEN {Len(runs) + 1} ELSE {})
<1>1. runs \in Seq(RunRow) /\ Len(runs) \in 1 .. 6
  BY DEF Typed, RowsInOrder
<1>2. Len(runs) \in 1 .. 5 /\ Stages[Len(runs)] \in Stage
  <2>1. \A n \in 1 .. 6 : n <= 5 => n \in 1 .. 5
    OBVIOUS
  <2>2. Len(runs) \in 1 .. 5
    BY <1>1, <2>1
  <2> QED BY <2>2, TheStages
<1>3. /\ runs' \in Seq(RunRow) /\ Len(runs') = Len(runs) + 1
      /\ \A i \in 1 .. Len(runs) : runs'[i] = runs[i]
      /\ runs'[Len(runs) + 1].stage = Stages[Len(runs)]
      /\ StillRunning' = StillRunning \cup (IF status = "running" THEN {Len(runs) + 1} ELSE {})
  BY <1>1, <1>2, ARowIsAdded
<1>4. ASSUME NEW i \in 2 .. Len(runs')
      PROVE  runs'[i].stage = Stages[i - 1]
  <2>1. CASE i = Len(runs) + 1
    BY <2>1, <1>2, <1>3
  <2>2. CASE i # Len(runs) + 1
    <3>1. i \in 2 .. Len(runs) /\ i \in 1 .. Len(runs)
      BY <2>2, <1>2, <1>3
    <3> QED BY <3>1, <1>3 DEF RowsInOrder
  <2> QED BY <2>1, <2>2
<1>5. Len(runs') \in 1 .. 6 /\ runs'[1] = runs[1]
  BY <1>2, <1>3
<1>6. RowsInOrder'
  BY <1>4, <1>5 DEF RowsInOrder
<1> QED BY <1>3, <1>6

\* The row of a stage is set.
LEMMA OrderWithAChange ==
  ASSUME Typed, RowsInOrder, NEW k \in 1 .. 5, k + 1 <= Len(runs), NEW status \in RunStatus,
         SetRun(Newest(Rows(Stages[k])), status)
  PROVE  /\ RowsInOrder' /\ runs' \in Seq(RunRow) /\ Len(runs') = Len(runs)
         /\ StillRunning' = (StillRunning \ {k + 1})
                              \cup (IF status = "running" THEN {k + 1} ELSE {})
<1>1. runs \in Seq(RunRow) /\ Len(runs) \in 1 .. 6
  BY DEF Typed, RowsInOrder
<1>2. Newest(Rows(Stages[k])) = k + 1 /\ k + 1 \in 1 .. Len(runs) /\ k + 1 # 1
  BY <1>1, RowOfAStage
<1>3. SetRun(k + 1, status)
  BY <1>2
<1>4. /\ runs' \in Seq(RunRow) /\ Len(runs') = Len(runs)
      /\ \A i \in 1 .. Len(runs) : runs'[i].stage = runs[i].stage
      /\ \A i \in 1 .. Len(runs) : i # k + 1 => runs'[i] = runs[i]
      /\ StillRunning' = (StillRunning \ {k + 1})
                           \cup (IF status = "running" THEN {k + 1} ELSE {})
  BY <1>1, <1>2, <1>3, ARowIsSet
<1>5. runs'[1] = runs[1] /\ \A i \in 2 .. Len(runs) : i \in 1 .. Len(runs)
  BY <1>1, <1>2, <1>4
<1>6. RowsInOrder'
  BY <1>4, <1>5 DEF RowsInOrder
<1> QED BY <1>4, <1>6

\* RQ hands the job to a worker.
LEMMA TakeKeeps ==
  ASSUME JobInv, Take
  PROVE  JobInv'
<1>1. /\ queue /\ wk.pc = "idle" /\ queue' = FALSE /\ wk' = Worker("prepare")
      /\ UNCHANGED <<job, runs, saved, files, corpus, old, api, cleaner>>
  BY DEF Take, At, store, disk
<1>2. /\ Typed /\ TakenOnce /\ StatusFollows /\ SavedFollow /\ RowsInOrder
  BY TypesByName DEF JobInv
<1>3. /\ wk' \in WorkerRow /\ wk'.pc = "prepare" /\ wk'.at = 1 /\ wk'.single = "none"
  BY <1>1, WorkerAtRest DEF PC
<1>4. /\ Shows(1, {}) /\ saved = {} /\ files = {} /\ api # "enqueue"
      /\ Accepted => job.status = "queued"
  BY <1>1, <1>2 DEF TakenOnce
<1>5. StillRunning' = StillRunning /\ Accepted' = Accepted
  BY <1>1 DEF StillRunning, Accepted
<1>6. JobTypeOK'
  BY <1>1, <1>2, <1>3, TypesByName DEF Typed
<1>7. AtItsStage'
  BY <1>1, <1>3 DEF AtItsStage
<1>8. TakenOnce' /\ RowsInOrder' /\ RowsOfTheEnd'
  BY <1>1, <1>2, <1>3, <1>4 DEF TakenOnce, RowsInOrder, RowsOfTheEnd
<1>9. RowsOfTheWorker'
  BY <1>1, <1>3, <1>4, <1>5 DEF RowsOfTheWorker, Shows
<1>10. "queued" \notin Ended \cup {"expired"} /\ "queued" \notin Success
  BY DEF Ended, Success
<1>11. StatusFollows'
  BY <1>1, <1>2, <1>3, <1>4, <1>5, <1>10 DEF StatusFollows
<1>12. FilesFollow' /\ SavedFollow'
  BY <1>1, <1>2, <1>3, <1>4, <1>5 DEF FilesFollow, SavedFollow
<1>13. StagesAreBacked'
  BY <1>1, <1>4, <1>5, <1>10 DEF StagesAreBacked
<1> QED BY <1>6, <1>7, <1>8, <1>9, <1>11, <1>12, <1>13 DEF JobInv

\* The worker reads the inputs of the job and makes its plan.
LEMMA PrepareKeeps ==
  ASSUME JobInv, Prepare
  PROVE  JobInv'
<1>1. /\ wk.pc = "prepare" /\ wk' = [wk EXCEPT !.pc = "stage"]
      /\ UNCHANGED <<job, runs, saved, files, corpus, old, queue, api, cleaner>>
  BY DEF Prepare, At, Goto, Others, store, disk
<1>2. /\ Typed /\ TakenOnce /\ StatusFollows /\ SavedFollow /\ RowsInOrder /\ AtItsStage
      /\ RowsOfTheWorker /\ FilesFollow /\ StagesAreBacked
  BY TypesByName DEF JobInv
<1>3. Working /\ Working' /\ wk = Worker("prepare")
  BY <1>1, <1>2 DEF AtItsStage, Working, WorkerRow, Typed
<1>4. wk.at = 1 /\ wk.single = "none" /\ wk \in WorkerRow /\ Shows(1, {})
  BY <1>1, <1>2, <1>3, WorkerAtRest DEF PC, Typed, RowsOfTheWorker
<1>5. wk' \in WorkerRow /\ wk'.pc = "stage" /\ wk'.at = 1 /\ wk'.single = "none"
  BY <1>1, <1>4 DEF WorkerRow, PC
<1>6. StillRunning' = StillRunning /\ Accepted' = Accepted
  BY <1>1 DEF StillRunning, Accepted
<1>7. JobTypeOK' /\ AtItsStage'
  BY <1>1, <1>2, <1>5, TypesByName DEF Typed, AtItsStage
<1>8. TakenOnce' /\ RowsInOrder' /\ RowsOfTheEnd'
  BY <1>1, <1>2, <1>3, <1>5, AtWork DEF TakenOnce, RowsInOrder, RowsOfTheEnd, Accepted
<1>9. RowsOfTheWorker'
  BY <1>1, <1>4, <1>5, <1>6 DEF RowsOfTheWorker, Shows
<1>10. StatusFollows'
  BY <1>1, <1>2, <1>3, <1>5, <1>6, AtWork DEF StatusFollows
<1>11. FilesFollow' /\ StagesAreBacked'
  BY <1>1, <1>2, <1>3, <1>5, <1>6 DEF FilesFollow, StagesAreBacked
<1>12. SavedFollow'
  BY <1>1, <1>2, <1>3, <1>5, <1>6 DEF SavedFollow, BehindIsSaved
<1> QED BY <1>7, <1>8, <1>9, <1>10, <1>11, <1>12 DEF JobInv

\* What the events do to the row of the job.
LEMMA TheRowOfTheJob ==
  ASSUME job \in JobRow, NEW s \in Stage, NEW d \in BOOLEAN
  PROVE  /\ [job EXCEPT !.status = s, !.stage = s] \in JobRow
         /\ [job EXCEPT !.status = s, !.stage = s].status = s
         /\ [job EXCEPT !.stage = s, !.degraded = d] \in JobRow
         /\ [job EXCEPT !.stage = s, !.degraded = d].status = job.status
BY DEF JobRow, JobStatus

\* A job that is at work does not show as completed.
LEMMA NothingToShow ==
  ASSUME FilesFollow', StatusFollows', wk'.pc # "idle"
  PROVE  StagesAreBacked'
BY DEF FilesFollow, StatusFollows, StagesAreBacked, Ended

\* A stage starts; the second collector starts beside the first.
LEMMA StartStageKeeps ==
  ASSUME JobInv, StartStage
  PROVE  JobInv'
<1>1. /\ wk.pc = "stage" /\ wk.at \in DOMAIN Stages /\ StageStarted(Now)
      /\ ~(wk.single # "none" /\ Now \in NeedsBoth)
      /\ wk' = IF Now \in Collector THEN [wk EXCEPT !.pc = "start_second", !.at = @ + 1]
               ELSE [wk EXCEPT !.pc = "run"]
      /\ UNCHANGED <<saved, files, corpus>> /\ Others
  BY DEF StartStage, At, disk
<1>2. /\ Typed /\ SavedFollow /\ RowsInOrder /\ AtItsStage /\ RowsOfTheWorker /\ FilesFollow
  BY TypesByName DEF JobInv
<1>3. Working /\ UNCHANGED <<old, queue, api, cleaner>>
  BY <1>1 DEF Working, Others
<1>4. wk \in WorkerRow /\ wk.at \in {1, 2, 4, 5} /\ Shows(wk.at, {}) /\ Now = Stages[wk.at]
  BY <1>1, <1>2, TheStages DEF Typed, AtItsStage, RowsOfTheWorker, Now
<1>5. Now \in Stage /\ (Now \in Collector <=> wk.at = 2)
  BY <1>4, TheStages DEF Collector
<1>6. AddRun(Stages[Len(runs)], "running") /\ Len(runs) = wk.at /\ Len(runs) <= 5
  BY <1>1, <1>4 DEF StageStarted, Shows
<1>7. /\ RowsInOrder' /\ runs' \in Seq(RunRow) /\ Len(runs') = wk.at + 1
      /\ StillRunning' = StillRunning \cup (IF "running" = "running" THEN {wk.at + 1} ELSE {})
  <2>1. "running" \in RunStatus
    BY DEF RunStatus
  <2> QED BY <1>2, <1>6, <2>1, OrderWithAnother
<1>8. StillRunning' = {wk.at + 1}
  BY <1>4, <1>7 DEF Shows
<1>9. job' \in JobRow /\ job'.status = Now
  BY <1>1, <1>2, <1>5, TheRowOfTheJob DEF StageStarted, Typed
<1>10. /\ wk' \in WorkerRow /\ wk'.single = wk.single /\ wk'.degraded = wk.degraded
       /\ wk.at = 2 => wk'.pc = "start_second" /\ wk'.at = 3
       /\ wk.at # 2 => wk'.pc = "run" /\ wk'.at = wk.at
  <2>1. CASE wk.at = 2
    <3>1. wk' = [wk EXCEPT !.pc = "start_second", !.at = 3]
      BY <1>1, <1>5, <2>1
    <3>2. "start_second" \in PC /\ 3 \in 1 .. 6
      BY DEF PC
    <3>3. /\ wk' \in WorkerRow /\ wk'.pc = "start_second" /\ wk'.at = 3
          /\ wk'.degraded = wk.degraded /\ wk'.single = wk.single
      BY <1>4, <3>1, <3>2, WorkerMoves
    <3> QED BY <2>1, <3>3
  <2>2. CASE wk.at # 2
    <3>1. wk' = [wk EXCEPT !.pc = "run"]
      BY <1>1, <1>5, <2>2
    <3> QED BY <1>4, <2>2, <3>1 DEF WorkerRow, PC
  <2> QED BY <2>1, <2>2
<1>11. JobTypeOK'
  BY <1>1, <1>2, <1>3, <1>7, <1>9, <1>10, TypesByName DEF Typed
<1>12. AtItsStage'
  BY <1>1, <1>2, <1>4, <1>5, <1>10, TheStages DEF AtItsStage, NeedsBoth
<1>13. TakenOnce' /\ StatusFollows' /\ RowsOfTheEnd'
  BY <1>1, <1>3, <1>5, <1>9, <1>10, StillAtWork
<1>14. RowsOfTheWorker'
  BY <1>4, <1>7, <1>8, <1>10 DEF RowsOfTheWorker, Shows
<1>15. FilesFollow'
  BY <1>1, <1>2, <1>4, <1>10 DEF FilesFollow
<1>16. SavedFollow'
  BY <1>1, <1>2, <1>3, <1>4, <1>10, AtWork DEF SavedFollow, BehindIsSaved, Accepted, AtItsStage
<1>17. StagesAreBacked'
  BY <1>10, <1>13, <1>15, NothingToShow
<1> QED BY <1>7, <1>11, <1>12, <1>13, <1>14, <1>15, <1>16, <1>17 DEF JobInv

\* Postprocessing is skipped when one platform is left.
LEMMA SkipStageKeeps ==
  ASSUME JobInv, SkipStage
  PROVE  JobInv'
<1>1. /\ wk.pc = "stage" /\ wk.at \in DOMAIN Stages /\ StageSkipped(Now)
      /\ wk.single # "none" /\ Now \in NeedsBoth
      /\ wk' = [wk EXCEPT !.at = @ + 1, !.degraded = TRUE]
      /\ UNCHANGED <<saved, files, corpus>> /\ Others
  BY DEF SkipStage, At, disk
<1>2. /\ Typed /\ SavedFollow /\ RowsInOrder /\ AtItsStage /\ RowsOfTheWorker /\ FilesFollow
  BY TypesByName DEF JobInv
<1>3. Working /\ UNCHANGED <<old, queue, api, cleaner>>
  BY <1>1 DEF Working, Others
<1>4. wk \in WorkerRow /\ Now = Stages[wk.at] /\ wk.at = 4 /\ Shows(4, {})
  BY <1>1, <1>2, TheStages DEF Typed, RowsOfTheWorker, Now, NeedsBoth
<1>5. Now \in Stage
  BY <1>4, TheStages
<1>6. AddRun(Stages[Len(runs)], "degraded") /\ Len(runs) = 4 /\ Len(runs) <= 5
  BY <1>1, <1>4 DEF StageSkipped, Shows
<1>7. /\ RowsInOrder' /\ runs' \in Seq(RunRow) /\ Len(runs') = Len(runs) + 1
      /\ StillRunning' = StillRunning
                           \cup (IF "degraded" = "running" THEN {Len(runs) + 1} ELSE {})
  <2>1. "degraded" \in RunStatus
    BY DEF RunStatus
  <2> QED BY <1>2, <1>6, <2>1, OrderWithAnother
<1>8. StillRunning' = {} /\ Len(runs') = 5
  BY <1>4, <1>6, <1>7 DEF Shows
<1>9. job' \in JobRow /\ job'.status = job.status
  BY <1>1, <1>2, <1>5, TheRowOfTheJob DEF StageSkipped, Arrived, Typed
<1>10. /\ wk' \in WorkerRow /\ wk'.single = wk.single /\ wk'.degraded = TRUE
       /\ wk'.pc = "stage" /\ wk'.at = 5
  <2>1. wk' = [wk EXCEPT !.at = 5, !.degraded = TRUE]
    BY <1>1, <1>4
  <2>2. 5 \in 1 .. 6
    OBVIOUS
  <2> QED BY <1>1, <1>4, <2>1, <2>2, WorkerSkips
<1>11. JobTypeOK'
  BY <1>1, <1>2, <1>3, <1>7, <1>9, <1>10, TypesByName DEF Typed
<1>12. AtItsStage'
  BY <1>2, <1>4, <1>10 DEF AtItsStage
<1>13. TakenOnce' /\ StatusFollows' /\ RowsOfTheEnd'
  BY <1>1, <1>3, <1>4, <1>9, <1>10, StillAtWork
<1>14. RowsOfTheWorker'
  BY <1>7, <1>8, <1>10 DEF RowsOfTheWorker, Shows
<1>15. FilesFollow'
  BY <1>1, <1>2, <1>4, <1>10 DEF FilesFollow
<1>16. SavedFollow'
  BY <1>1, <1>2, <1>3, <1>4, <1>10, AtWork DEF SavedFollow, BehindIsSaved, Accepted
<1>17. StagesAreBacked'
  BY <1>10, <1>13, <1>15, NothingToShow
<1> QED BY <1>7, <1>11, <1>12, <1>13, <1>14, <1>15, <1>16, <1>17 DEF JobInv

\* The command of a stage ends: with all its artifacts, or not.
LEMMA RunStageKeeps ==
  ASSUME JobInv, RunStage
  PROVE  JobInv'
<1>1. /\ wk.pc = "run"
      /\ UNCHANGED <<job, runs, saved, corpus>> /\ Others
      /\ \/ /\ files' = files \cup {Now}
            /\ \E result \in {"success", "degraded"} :
                 wk' = [wk EXCEPT !.pc = "report", !.result = result,
                                  !.degraded = @ \/ result = "degraded"]
         \/ wk' = [wk EXCEPT !.pc = "fail_stage"] /\ UNCHANGED files
  BY DEF RunStage, At, store, Goto
<1>2. /\ Typed /\ SavedFollow /\ RowsInOrder /\ AtItsStage /\ RowsOfTheWorker /\ FilesFollow
  BY TypesByName DEF JobInv
<1>3. Working /\ UNCHANGED <<old, queue, api, cleaner>>
  BY <1>1 DEF Working, Others
<1>4. /\ wk \in WorkerRow /\ wk.at \in {1, 4, 5} /\ Shows(wk.at + 1, {wk.at + 1})
      /\ Now = Stages[wk.at]
  BY <1>1, <1>2 DEF Typed, AtItsStage, RowsOfTheWorker, Now
<1>5. Now \in Stage /\ files' \subseteq files \cup {Now} /\ files \subseteq files'
  BY <1>1, <1>4, TheStages
<1>6. /\ wk' \in WorkerRow /\ wk'.single = wk.single /\ wk'.at = wk.at
      /\ wk.degraded => wk'.degraded
      /\ \/ wk'.pc = "report" /\ Now \in files'
         \/ wk'.pc = "fail_stage" /\ files' = files
      /\ wk'.pc = "report" => wk'.result \in {"success", "degraded"}
  <2>1. CASE wk' = [wk EXCEPT !.pc = "fail_stage"] /\ UNCHANGED files
    BY <1>4, <2>1 DEF WorkerRow, PC
  <2>2. ASSUME files' = files \cup {Now}, NEW result \in {"success", "degraded"},
               wk' = [wk EXCEPT !.pc = "report", !.result = result,
                                !.degraded = @ \/ result = "degraded"]
        PROVE  /\ wk' \in WorkerRow /\ wk'.single = wk.single /\ wk'.at = wk.at
               /\ wk.degraded => wk'.degraded
               /\ wk'.pc = "report" /\ Now \in files'
               /\ wk'.result \in {"success", "degraded"}
    BY <1>4, <2>2 DEF WorkerRow, PC, RunStatus
  <2> QED BY <1>1, <2>1, <2>2
<1>7. StillRunning' = StillRunning
  BY <1>1 DEF StillRunning
<1>8. JobTypeOK'
  BY <1>1, <1>2, <1>3, <1>5, <1>6, TypesByName DEF Typed
<1>9. AtItsStage'
  BY <1>1, <1>2, <1>4, <1>6 DEF AtItsStage
<1>10. TakenOnce' /\ StatusFollows' /\ RowsOfTheEnd'
  BY <1>1, <1>3, <1>6, StillAtWork
<1>11. RowsInOrder' /\ RowsOfTheWorker'
  BY <1>1, <1>2, <1>4, <1>6, <1>7 DEF RowsInOrder, RowsOfTheWorker, Shows
<1>12. FilesFollow'
  <2>1. "postprocessing" \in files' => Collector \subseteq files'
    <3>1. CASE wk.at = 4
      BY <1>1, <1>2, <1>5, <1>6, <3>1 DEF FilesFollow, AtItsStage
    <3>2. CASE wk.at # 4
      <4>1. Now # "postprocessing"
        BY <1>4, <3>2, TheStages
      <4> QED BY <1>2, <1>5, <4>1 DEF FilesFollow
    <3> QED BY <3>1, <3>2
  <2> QED BY <1>1, <1>2, <1>4, <1>5, <1>6, <2>1 DEF FilesFollow, Now
<1>13. SavedFollow'
  BY <1>1, <1>2, <1>3, <1>4, <1>5, <1>6, AtWork DEF SavedFollow, BehindIsSaved, Accepted
<1>14. StagesAreBacked'
  BY <1>6, <1>10, <1>12, NothingToShow
<1> QED BY <1>8, <1>9, <1>10, <1>11, <1>12, <1>13, <1>14 DEF JobInv

\* A stage is done, and its artifacts are in the tables.
LEMMA FinishStageKeeps ==
  ASSUME JobInv, FinishStage
  PROVE  JobInv'
<1>1. /\ wk.pc = "report" /\ StageFinished(Now, wk.result, wk.degraded)
      /\ saved' = saved \cup {Now}
      /\ wk' = [wk EXCEPT !.pc = "stage", !.at = wk.at + 1]
      /\ UNCHANGED <<files, corpus>> /\ Others
  BY DEF FinishStage, At
<1>2. /\ Typed /\ SavedFollow /\ RowsInOrder /\ AtItsStage /\ RowsOfTheWorker /\ FilesFollow
  BY TypesByName DEF JobInv
<1>3. Working /\ UNCHANGED <<old, queue, api, cleaner>>
  BY <1>1 DEF Working, Others
<1>4. /\ wk \in WorkerRow /\ wk.at \in {1, 4, 5} /\ Shows(wk.at + 1, {wk.at + 1})
      /\ Now = Stages[wk.at] /\ wk.result \in {"success", "degraded"}
  BY <1>1, <1>2 DEF Typed, AtItsStage, RowsOfTheWorker, Now
<1>5. Now \in Stage /\ Now \notin Collector /\ Now \in files
  BY <1>1, <1>2, <1>4, TheStages DEF Collector, FilesFollow
<1>6. /\ wk' \in WorkerRow /\ wk'.pc = "stage" /\ wk'.at = wk.at + 1
      /\ wk'.single = wk.single /\ wk'.degraded = wk.degraded
  <2>1. "stage" \in PC /\ wk.at + 1 \in 1 .. 6
    BY <1>4 DEF PC
  <2> QED BY <1>1, <1>4, <2>1, WorkerMoves
<1>7. RowsInOrder' /\ runs' \in Seq(RunRow) /\ Len(runs') = wk.at + 1 /\ StillRunning' = {}
  <2>1. wk.at \in 1 .. 5 /\ wk.at + 1 <= Len(runs) /\ wk.result \in RunStatus
    BY <1>4 DEF Shows, RunStatus
  <2>2. SetRun(Newest(Rows(Stages[wk.at])), wk.result)
    BY <1>1, <1>4 DEF StageFinished
  <2>3. /\ RowsInOrder' /\ runs' \in Seq(RunRow) /\ Len(runs') = Len(runs)
        /\ StillRunning' = (StillRunning \ {wk.at + 1})
                             \cup (IF wk.result = "running" THEN {wk.at + 1} ELSE {})
    BY <1>2, <2>1, <2>2, OrderWithAChange
  <2> QED BY <1>4, <2>3 DEF Shows
<1>8. job' \in JobRow /\ job'.status = job.status
  <2>1. wk.degraded \in BOOLEAN
    BY <1>4 DEF WorkerRow
  <2> QED BY <1>1, <1>2, <1>5, <2>1, TheRowOfTheJob DEF StageFinished, Arrived, Typed
<1>9. JobTypeOK'
  BY <1>1, <1>2, <1>3, <1>5, <1>6, <1>7, <1>8, TypesByName DEF Typed
<1>10. AtItsStage'
  BY <1>2, <1>4, <1>6 DEF AtItsStage
<1>11. TakenOnce' /\ StatusFollows' /\ RowsOfTheEnd'
  BY <1>1, <1>3, <1>6, <1>8, StillAtWork
<1>12. RowsOfTheWorker'
  BY <1>4, <1>6, <1>7 DEF RowsOfTheWorker, Shows
<1>13. FilesFollow'
  BY <1>1, <1>2, <1>4, <1>6 DEF FilesFollow
<1>14. SavedFollow'
  <2>1. Accepted' => Accepted /\ saved \subseteq files /\ saved' \cap Collector = saved \cap Collector
    BY <1>1, <1>3, <1>5, AtWork DEF Accepted
  <2>2. Accepted /\ wk.single = "none" => BehindIsSaved'
    <3>1. Accepted /\ wk.single = "none" => BehindIsSaved
      BY <1>1, <1>2 DEF SavedFollow
    <3>2. \A i \in 1 .. wk.at + 1 - 1 : i = wk.at \/ i \in 1 .. wk.at - 1
      BY <1>4
    <3> QED BY <1>1, <1>4, <1>6, <3>1, <3>2 DEF BehindIsSaved
  <2>3. wk.at + 1 > 3 => wk.at > 3
    BY <1>4
  <2>4. wk.at + 1 = 6 => Stages[5] \in saved'
    BY <1>1, <1>4
  <2> QED BY <1>1, <1>2, <1>5, <1>6, <2>1, <2>2, <2>3, <2>4 DEF SavedFollow
<1>15. StagesAreBacked'
  BY <1>6, <1>11, <1>13, NothingToShow
<1> QED BY <1>7, <1>9, <1>10, <1>11, <1>12, <1>13, <1>14, <1>15 DEF JobInv

\* A stage fails; of two collectors that failed the first is blamed.
LEMMA FailStageKeeps ==
  ASSUME JobInv, FailStage
  PROVE  JobInv'
<1>1. /\ wk.pc = "fail_stage" /\ StageFinished(Now, "failed", wk.degraded)
      /\ wk' = [wk EXCEPT !.pc = "complete", !.result = "failed"]
      /\ UNCHANGED <<saved, files, corpus>> /\ Others
  BY DEF FailStage, At, disk
<1>2. /\ Typed /\ SavedFollow /\ RowsInOrder /\ AtItsStage /\ RowsOfTheWorker /\ FilesFollow
  BY TypesByName DEF JobInv
<1>3. Working /\ UNCHANGED <<old, queue, api, cleaner>>
  BY <1>1 DEF Working, Others
<1>4. /\ wk \in WorkerRow /\ wk.at \in {1, 2, 4, 5} /\ Now = Stages[wk.at]
      /\ IF wk.at = 2 THEN Shows(4, {3, 4}) ELSE Shows(wk.at + 1, {wk.at + 1})
  BY <1>1, <1>2 DEF Typed, AtItsStage, RowsOfTheWorker, Now
<1>5. Now \in Stage
  BY <1>4, TheStages
<1>6. /\ wk' \in WorkerRow /\ wk'.pc = "complete" /\ wk'.at = wk.at
      /\ wk'.single = wk.single /\ wk'.degraded = wk.degraded
  <2>1. "complete" \in PC /\ "failed" \in RunStatus
    BY DEF PC, RunStatus
  <2> QED BY <1>1, <1>4, <2>1, WorkerSettles
<1>7. /\ RowsInOrder' /\ runs' \in Seq(RunRow)
      /\ IF wk.at = 2 THEN Len(runs') = 4 /\ StillRunning' = {4}
         ELSE Len(runs') = wk.at + 1 /\ StillRunning' = {}
  <2>1. wk.at \in 1 .. 5 /\ wk.at + 1 <= Len(runs) /\ "failed" \in RunStatus
    <3>1. CASE wk.at = 2
      <4>1. Len(runs) = 4
        BY <1>4, <3>1 DEF Shows
      <4> QED BY <3>1, <4>1 DEF RunStatus
    <3>2. CASE wk.at # 2
      BY <1>4, <3>2 DEF Shows, RunStatus
    <3> QED BY <3>1, <3>2
  <2>2. SetRun(Newest(Rows(Stages[wk.at])), "failed")
    BY <1>1, <1>4 DEF StageFinished
  <2>3. /\ RowsInOrder' /\ runs' \in Seq(RunRow) /\ Len(runs') = Len(runs)
        /\ StillRunning' = (StillRunning \ {wk.at + 1})
                             \cup (IF "failed" = "running" THEN {wk.at + 1} ELSE {})
    BY <1>2, <2>1, <2>2, OrderWithAChange
  <2> QED BY <1>4, <2>3 DEF Shows
<1>8. job' \in JobRow /\ job'.status = job.status
  <2>1. wk.degraded \in BOOLEAN
    BY <1>4 DEF WorkerRow
  <2> QED BY <1>1, <1>2, <1>5, <2>1, TheRowOfTheJob DEF StageFinished, Arrived, Typed
<1>9. JobTypeOK'
  BY <1>1, <1>2, <1>3, <1>6, <1>7, <1>8, TypesByName DEF Typed
<1>10. AtItsStage'
  BY <1>1, <1>2, <1>4, <1>6 DEF AtItsStage
<1>11. TakenOnce' /\ StatusFollows' /\ RowsOfTheEnd'
  BY <1>1, <1>3, <1>6, <1>8, StillAtWork
<1>12. RowsOfTheWorker'
  BY <1>4, <1>6, <1>7 DEF RowsOfTheWorker, Shows
<1>13. FilesFollow'
  BY <1>1, <1>2, <1>6 DEF FilesFollow
<1>14. SavedFollow'
  BY <1>1, <1>2, <1>3, <1>6, AtWork DEF SavedFollow, Accepted
<1>15. StagesAreBacked'
  BY <1>6, <1>11, <1>13, NothingToShow
<1> QED BY <1>7, <1>9, <1>10, <1>11, <1>12, <1>13, <1>14, <1>15 DEF JobInv

\* The second collector starts.
LEMMA StartSecondCollectorKeeps ==
  ASSUME JobInv, StartSecondCollector
  PROVE  JobInv'
<1>1. /\ wk.pc = "start_second" /\ StageStarted(Now)
      /\ wk' = [wk EXCEPT !.pc = "collect"]
      /\ UNCHANGED <<saved, files, corpus>> /\ Others
  BY DEF StartSecondCollector, At, Goto, disk
<1>2. /\ Typed /\ SavedFollow /\ RowsInOrder /\ AtItsStage /\ RowsOfTheWorker /\ FilesFollow
  BY TypesByName DEF JobInv
<1>3. Working /\ UNCHANGED <<old, queue, api, cleaner>>
  BY <1>1 DEF Working, Others
<1>4. wk \in WorkerRow /\ wk.at = 3 /\ Now = Stages[3] /\ Shows(3, {3})
  BY <1>1, <1>2 DEF Typed, AtItsStage, RowsOfTheWorker, Now
<1>5. Now \in Stage
  BY <1>4, TheStages
<1>6. /\ wk' \in WorkerRow /\ wk'.pc = "collect" /\ wk'.at = wk.at
      /\ wk'.single = wk.single /\ wk'.degraded = wk.degraded
  BY <1>1, <1>4 DEF WorkerRow, PC
<1>7. RowsInOrder' /\ runs' \in Seq(RunRow) /\ Len(runs') = 4 /\ StillRunning' = {3, 4}
  <2>1. AddRun(Stages[Len(runs)], "running") /\ Len(runs) = 3 /\ Len(runs) <= 5
    BY <1>1, <1>4 DEF StageStarted, Shows
  <2>2. "running" \in RunStatus
    BY DEF RunStatus
  <2>3. /\ RowsInOrder' /\ runs' \in Seq(RunRow) /\ Len(runs') = Len(runs) + 1
        /\ StillRunning' = StillRunning
                             \cup (IF "running" = "running" THEN {Len(runs) + 1} ELSE {})
    BY <1>2, <2>1, <2>2, OrderWithAnother
  <2> QED BY <1>4, <2>1, <2>3 DEF Shows
<1>8. job' \in JobRow /\ job'.status = Now
  BY <1>1, <1>2, <1>5, TheRowOfTheJob DEF StageStarted, Typed
<1>9. JobTypeOK'
  BY <1>1, <1>2, <1>3, <1>6, <1>7, <1>8, TypesByName DEF Typed
<1>10. AtItsStage'
  BY <1>2, <1>4, <1>6 DEF AtItsStage
<1>11. TakenOnce' /\ StatusFollows' /\ RowsOfTheEnd'
  BY <1>1, <1>3, <1>5, <1>6, <1>8, StillAtWork
<1>12. RowsOfTheWorker'
  BY <1>6, <1>7 DEF RowsOfTheWorker, Shows
<1>13. FilesFollow'
  BY <1>1, <1>2, <1>6 DEF FilesFollow
<1>14. SavedFollow'
  BY <1>1, <1>2, <1>3, <1>6, AtWork DEF SavedFollow, Accepted
<1>15. StagesAreBacked'
  BY <1>6, <1>11, <1>13, NothingToShow
<1> QED BY <1>7, <1>9, <1>10, <1>11, <1>12, <1>13, <1>14, <1>15 DEF JobInv

\* Both collectors have ended.
LEMMA CollectKeeps ==
  ASSUME JobInv, Collect
  PROVE  JobInv'
<1>1. /\ wk.pc = "collect"
      /\ UNCHANGED <<job, runs, saved, corpus>> /\ Others
  BY DEF Collect, At, store
<1>2. PICK ok \in SUBSET Collector :
        /\ files' = files \cup ok
        /\ wk' = [wk EXCEPT !.pc = IF ok = {} THEN "fail_stage" ELSE "apply",
                            !.ok = ok, !.todo = ok,
                            !.at = IF ok = {} THEN wk.at - 1 ELSE wk.at]
  BY DEF Collect
<1>3. /\ Typed /\ SavedFollow /\ RowsInOrder /\ AtItsStage /\ RowsOfTheWorker /\ FilesFollow
  BY TypesByName DEF JobInv
<1>4. Working /\ UNCHANGED <<old, queue, api, cleaner>>
  BY <1>1 DEF Working, Others
<1>5. wk \in WorkerRow /\ wk.at = 3 /\ Shows(4, {3, 4}) /\ wk.single = "none"
  BY <1>1, <1>3 DEF Typed, AtItsStage, RowsOfTheWorker
<1>6. /\ wk' \in WorkerRow /\ wk'.ok = ok /\ wk'.todo = ok /\ wk'.single = "none"
      /\ ok = {} => wk'.pc = "fail_stage" /\ wk'.at = 2
      /\ ok # {} => wk'.pc = "apply" /\ wk'.at = 3
  <2> DEFINE pc == IF ok = {} THEN "fail_stage" ELSE "apply"
             at == IF ok = {} THEN 2 ELSE 3
  <2>1. pc \in PC /\ at \in 1 .. 6
    BY DEF PC
  <2>2. wk' = [wk EXCEPT !.pc = pc, !.ok = ok, !.todo = ok, !.at = at]
    BY <1>2, <1>5
  <2>3. /\ ok = {} => pc = "fail_stage" /\ at = 2
        /\ ok # {} => pc = "apply" /\ at = 3
    OBVIOUS
  <2> HIDE DEF pc, at
  <2>4. /\ wk' \in WorkerRow /\ wk'.ok = ok /\ wk'.todo = ok /\ wk'.single = wk.single
        /\ wk'.pc = pc /\ wk'.at = at
    BY <1>5, <2>1, <2>2, WorkerCollects
  <2> QED BY <1>5, <2>3, <2>4
<1>7. ok \subseteq Stage /\ Collector = {Stages[2], Stages[3]}
  BY TheStages DEF Collector
<1>8. StillRunning' = StillRunning /\ (ok # {} => Unread' = {3, 4})
  <2>1. wk'.todo \cup (Collector \ wk'.ok) = Collector
    BY <1>6
  <2> QED BY <1>1, <1>7, <2>1 DEF StillRunning, Unread
<1>9. JobTypeOK'
  BY <1>1, <1>2, <1>3, <1>4, <1>6, <1>7, TypesByName DEF Typed
<1>10. AtItsStage'
  BY <1>6 DEF AtItsStage
<1>11. TakenOnce' /\ StatusFollows' /\ RowsOfTheEnd'
  BY <1>1, <1>4, <1>6, StillAtWork
<1>12. RowsInOrder' /\ RowsOfTheWorker'
  BY <1>1, <1>3, <1>5, <1>6, <1>8 DEF RowsInOrder, RowsOfTheWorker, Shows
<1>13. FilesFollow'
  <2>1. "postprocessing" \notin Collector /\ files \subseteq files'
    BY <1>2 DEF Collector
  <2> QED BY <1>2, <1>3, <1>6, <2>1 DEF FilesFollow
<1>14. SavedFollow'
  BY <1>1, <1>2, <1>3, <1>4, <1>6, AtWork DEF SavedFollow, Accepted
<1>15. StagesAreBacked'
  BY <1>6, <1>11, <1>13, NothingToShow
<1> QED BY <1>9, <1>10, <1>11, <1>12, <1>13, <1>14, <1>15 DEF JobInv

\* The collectors are the second and the third stage.
LEMMA TheCollectors ==
  /\ Collector = {Stages[2], Stages[3]} /\ Stages[2] # Stages[3]
  /\ Stages[1] \notin Collector /\ "none" \notin Collector /\ Collector \subseteq Stage
BY TheStages DEF Collector

\* The one whose turn it is has succeeded and is not yet in the corpus.
LEMMA TheNextIsUnread ==
  ASSUME Typed, wk.todo # {}
  PROVE  \E k \in {2, 3} : NextToApply = Stages[k] /\ NextToApply \in wk.todo
<1>1. wk.todo \subseteq Collector
  BY DEF Typed, WorkerRow
<1> QED BY <1>1, TheCollectors DEF NextToApply

\* A collector's comments reach the corpus.
LEMMA ApplyCollectorKeeps ==
  ASSUME JobInv, ApplyCollector
  PROVE  JobInv'
<1>1. /\ wk.pc = "apply" /\ wk.todo # {} /\ corpus' = corpus \cup {NextToApply}
      /\ wk' = [wk EXCEPT !.pc = "applied"]
      /\ UNCHANGED <<job, runs, saved, files>> /\ Others
  BY DEF ApplyCollector, At, Goto, store
<1>2. /\ Typed /\ SavedFollow /\ RowsInOrder /\ AtItsStage /\ RowsOfTheWorker /\ FilesFollow
  BY TypesByName DEF JobInv
<1>3. Working /\ UNCHANGED <<old, queue, api, cleaner>>
  BY <1>1 DEF Working, Others
<1>4. wk \in WorkerRow /\ wk.at = 3 /\ Shows(4, Unread) /\ wk.todo \subseteq wk.ok
  BY <1>1, <1>2 DEF Typed, AtItsStage, RowsOfTheWorker
<1>5. /\ wk' \in WorkerRow /\ wk'.pc = "applied" /\ wk'.at = 3 /\ wk'.ok = wk.ok
      /\ wk'.todo = wk.todo /\ wk'.single = wk.single /\ wk'.degraded = wk.degraded
  BY <1>1, <1>4 DEF WorkerRow, PC
<1>6. NextToApply \in Collector /\ NextToApply' = NextToApply
  BY <1>1, <1>2, <1>5, TheNextIsUnread, TheCollectors DEF NextToApply
<1>7. StillRunning' = StillRunning /\ Unread' = Unread
  BY <1>1, <1>5 DEF StillRunning, Unread
<1>8. JobTypeOK'
  BY <1>1, <1>2, <1>3, <1>5, <1>6, TypesByName DEF Typed
<1>9. AtItsStage'
  BY <1>1, <1>2, <1>5 DEF AtItsStage
<1>10. TakenOnce' /\ StatusFollows' /\ RowsOfTheEnd'
  BY <1>1, <1>3, <1>5, StillAtWork
<1>11. RowsInOrder' /\ RowsOfTheWorker'
  BY <1>1, <1>2, <1>4, <1>5, <1>7 DEF RowsInOrder, RowsOfTheWorker, Shows
<1>12. FilesFollow'
  BY <1>1, <1>2, <1>5 DEF FilesFollow
<1>13. SavedFollow'
  BY <1>1, <1>2, <1>3, <1>5, <1>6, AtWork DEF SavedFollow, Accepted
<1>14. StagesAreBacked'
  BY <1>5, <1>10, <1>12, NothingToShow
<1> QED BY <1>8, <1>9, <1>10, <1>11, <1>12, <1>13, <1>14 DEF JobInv

\* And the tables.
LEMMA FinishCollectorKeeps ==
  ASSUME JobInv, FinishCollector
  PROVE  JobInv'
<1>1. /\ wk.pc = "applied" /\ StageFinished(NextToApply, "success", wk.degraded)
      /\ saved' = saved \cup {NextToApply}
      /\ wk' = [wk EXCEPT !.pc = "apply", !.todo = wk.todo \ {NextToApply}]
      /\ UNCHANGED <<files, corpus>> /\ Others
  BY DEF FinishCollector, At
<1>2. /\ Typed /\ SavedFollow /\ RowsInOrder /\ AtItsStage /\ RowsOfTheWorker /\ FilesFollow
  BY TypesByName DEF JobInv
<1>3. Working /\ UNCHANGED <<old, queue, api, cleaner>>
  BY <1>1 DEF Working, Others
<1>4. /\ wk \in WorkerRow /\ wk.at = 3 /\ Shows(4, Unread) /\ wk.todo \subseteq wk.ok
      /\ wk.todo # {} /\ wk.ok # {} /\ wk.ok \subseteq files /\ wk.todo \subseteq Collector
  BY <1>1, <1>2 DEF Typed, AtItsStage, RowsOfTheWorker, FilesFollow, WorkerRow
<1>5. PICK k \in {2, 3} : NextToApply = Stages[k] /\ NextToApply \in wk.todo
  BY <1>2, <1>4, TheNextIsUnread
<1>6. /\ wk' \in WorkerRow /\ wk'.pc = "apply" /\ wk'.at = 3 /\ wk'.ok = wk.ok
      /\ wk'.todo = wk.todo \ {Stages[k]} /\ wk'.single = wk.single
      /\ wk'.degraded = wk.degraded
  <2>1. "apply" \in PC /\ wk.todo \ {NextToApply} \in SUBSET Collector
    BY <1>4 DEF PC
  <2> QED BY <1>1, <1>4, <1>5, <2>1, WorkerApplies
<1>7. NextToApply \in Stage /\ NextToApply \in Collector /\ NextToApply \in wk.ok
  BY <1>4, <1>5, TheCollectors
<1>8. RowsInOrder' /\ runs' \in Seq(RunRow) /\ Len(runs') = 4 /\ StillRunning' = Unread \ {k + 1}
  <2>1. k \in 1 .. 5 /\ k + 1 <= Len(runs) /\ "success" \in RunStatus
    BY <1>4 DEF Shows, RunStatus
  <2>2. SetRun(Newest(Rows(Stages[k])), "success")
    BY <1>1, <1>5 DEF StageFinished
  <2>3. /\ RowsInOrder' /\ runs' \in Seq(RunRow) /\ Len(runs') = Len(runs)
        /\ StillRunning' = (StillRunning \ {k + 1})
                             \cup (IF "success" = "running" THEN {k + 1} ELSE {})
    BY <1>2, <2>1, <2>2, OrderWithAChange
  <2> QED BY <1>4, <2>3 DEF Shows
<1>9. Unread' = Unread \ {k + 1}
  <2>1. \A i \in {3, 4} : Stages[i - 1] = Stages[k] <=> i = k + 1
    BY TheCollectors
  <2>2. \A s : s \in wk'.todo \cup (Collector \ wk'.ok)
                 <=> s # Stages[k] /\ s \in wk.todo \cup (Collector \ wk.ok)
    BY <1>5, <1>6, <1>7
  <2> QED BY <2>1, <2>2 DEF Unread
<1>10. job' \in JobRow /\ job'.status = job.status
  <2>1. wk.degraded \in BOOLEAN
    BY <1>4 DEF WorkerRow
  <2> QED BY <1>1, <1>2, <1>7, <2>1, TheRowOfTheJob DEF StageFinished, Arrived, Typed
<1>11. JobTypeOK'
  BY <1>1, <1>2, <1>3, <1>6, <1>7, <1>8, <1>10, TypesByName DEF Typed
<1>12. AtItsStage'
  BY <1>1, <1>2, <1>4, <1>6 DEF AtItsStage
<1>13. TakenOnce' /\ StatusFollows' /\ RowsOfTheEnd'
  BY <1>1, <1>3, <1>6, <1>10, StillAtWork
<1>14. RowsOfTheWorker'
  BY <1>6, <1>8, <1>9 DEF RowsOfTheWorker, Shows
<1>15. FilesFollow'
  BY <1>1, <1>2, <1>6 DEF FilesFollow
<1>16. SavedFollow'
  <2>1. Accepted' => Accepted /\ saved \subseteq files
    BY <1>1, <1>3, AtWork DEF Accepted
  <2>2. Accepted => /\ saved \cap Collector \subseteq corpus /\ wk.ok \ wk.todo \subseteq saved
                    /\ NextToApply \in corpus /\ Stages[1] \in saved
    BY <1>1, <1>2 DEF SavedFollow
  <2> QED BY <1>1, <1>4, <1>5, <1>6, <1>7, <2>1, <2>2 DEF SavedFollow
<1>17. StagesAreBacked'
  BY <1>6, <1>13, <1>15, NothingToShow
<1> QED BY <1>8, <1>11, <1>12, <1>13, <1>14, <1>15, <1>16, <1>17 DEF JobInv

\* Both platforms are there.
LEMMA GoOnWithBothKeeps ==
  ASSUME JobInv, GoOnWithBoth
  PROVE  JobInv'
<1>1. /\ wk.pc = "apply" /\ wk.todo = {} /\ wk.ok = Collector
      /\ wk' = [wk EXCEPT !.pc = "stage", !.at = wk.at + 1]
      /\ UNCHANGED <<job, runs, saved, files, corpus>> /\ Others
  BY DEF GoOnWithBoth, At, store, disk
<1>2. /\ Typed /\ SavedFollow /\ RowsInOrder /\ AtItsStage /\ RowsOfTheWorker /\ FilesFollow
  BY TypesByName DEF JobInv
<1>3. Working /\ UNCHANGED <<old, queue, api, cleaner>>
  BY <1>1 DEF Working, Others
<1>4. /\ wk \in WorkerRow /\ wk.at = 3 /\ wk.single = "none" /\ Shows(4, Unread)
      /\ Collector \subseteq files
  BY <1>1, <1>2 DEF Typed, AtItsStage, RowsOfTheWorker, FilesFollow
<1>5. /\ wk' \in WorkerRow /\ wk'.pc = "stage" /\ wk'.at = 4 /\ wk'.single = "none"
  <2>1. "stage" \in PC /\ 4 \in 1 .. 6 /\ wk' = [wk EXCEPT !.pc = "stage", !.at = 4]
    BY <1>1, <1>4 DEF PC
  <2> QED BY <1>4, <2>1, WorkerMoves
<1>6. StillRunning' = {} /\ Len(runs') = 4
  BY <1>1, <1>4 DEF StillRunning, Unread, Shows
<1>7. JobTypeOK'
  BY <1>1, <1>2, <1>3, <1>5, TypesByName DEF Typed
<1>8. AtItsStage'
  BY <1>5 DEF AtItsStage
<1>9. TakenOnce' /\ StatusFollows' /\ RowsOfTheEnd'
  BY <1>1, <1>3, <1>5, StillAtWork
<1>10. RowsInOrder' /\ RowsOfTheWorker'
  BY <1>1, <1>2, <1>5, <1>6 DEF RowsInOrder, RowsOfTheWorker, Shows
<1>11. FilesFollow'
  BY <1>1, <1>2, <1>4, <1>5 DEF FilesFollow
<1>12. SavedFollow'
  <2>1. Accepted' => Accepted /\ saved \subseteq files
    BY <1>1, <1>3, AtWork DEF Accepted
  <2>2. Accepted => /\ saved \cap Collector \subseteq corpus /\ Collector \subseteq saved
                    /\ Stages[1] \in saved
    BY <1>1, <1>2 DEF SavedFollow
  <2>3. Accepted => BehindIsSaved'
    BY <1>1, <1>5, <2>2, TheCollectors DEF BehindIsSaved
  <2> QED BY <1>1, <1>5, <2>1, <2>2, <2>3, TheCollectors DEF SavedFollow
<1>13. StagesAreBacked'
  BY <1>5, <1>9, <1>11, NothingToShow
<1> QED BY <1>7, <1>8, <1>9, <1>10, <1>11, <1>12, <1>13 DEF JobInv

\* One platform is left.
LEMMA FallBackKeeps ==
  ASSUME JobInv, FallBack
  PROVE  JobInv'
<1>1. /\ wk.pc = "apply" /\ wk.todo = {} /\ wk.ok # Collector
      /\ UNCHANGED <<saved, files, corpus>> /\ Others
  BY DEF FallBack, At, disk
<1>2. PICK lost \in Collector \ wk.ok : StageFinished(lost, "degraded", TRUE)
  BY DEF FallBack
<1>3. PICK left \in wk.ok :
        wk' = [wk EXCEPT !.pc = "stage", !.at = wk.at + 1, !.degraded = TRUE, !.single = left]
  BY DEF FallBack
<1>4. /\ Typed /\ SavedFollow /\ RowsInOrder /\ AtItsStage /\ RowsOfTheWorker /\ FilesFollow
  BY TypesByName DEF JobInv
<1>5. Working /\ UNCHANGED <<old, queue, api, cleaner>>
  BY <1>1 DEF Working, Others
<1>6. /\ wk \in WorkerRow /\ wk.at = 3 /\ Shows(4, Unread) /\ wk.ok \subseteq Collector
      /\ wk.ok \subseteq files /\ wk.ok # {}
  BY <1>1, <1>4 DEF Typed, AtItsStage, RowsOfTheWorker, FilesFollow, WorkerRow
<1>7. /\ wk' \in WorkerRow /\ wk'.pc = "stage" /\ wk'.at = 4 /\ wk'.single = left
      /\ wk'.degraded = TRUE /\ left # "none"
  <2>1. "stage" \in PC /\ 4 \in 1 .. 6 /\ left \in Collector /\ left # "none"
    BY <1>6, TheCollectors DEF PC
  <2>2. wk' = [wk EXCEPT !.pc = "stage", !.at = 4, !.degraded = TRUE, !.single = left]
    BY <1>3, <1>6
  <2> QED BY <1>6, <2>1, <2>2, WorkerFallsBack
<1>8. PICK k \in {2, 3} : lost = Stages[k] /\ Unread = {k + 1}
  <2>1. PICK k \in {2, 3} : lost = Stages[k]
    BY TheCollectors
  <2>2. \A s \in Collector : s \notin wk.ok <=> s = lost
    BY <1>6, TheCollectors
  <2>3. \A i \in {3, 4} : Stages[i - 1] \in wk.todo \cup (Collector \ wk.ok) <=> i = k + 1
    BY <1>1, <2>1, <2>2, TheCollectors
  <2>4. Unread = {k + 1}
    BY <2>3 DEF Unread
  <2> QED BY <2>1, <2>4
<1>9. RowsInOrder' /\ runs' \in Seq(RunRow) /\ Len(runs') = 4 /\ StillRunning' = {}
  <2>1. k \in 1 .. 5 /\ k + 1 <= Len(runs) /\ "degraded" \in RunStatus
    BY <1>6 DEF Shows, RunStatus
  <2>2. SetRun(Newest(Rows(Stages[k])), "degraded")
    BY <1>2, <1>8 DEF StageFinished
  <2>3. /\ RowsInOrder' /\ runs' \in Seq(RunRow) /\ Len(runs') = Len(runs)
        /\ StillRunning' = (StillRunning \ {k + 1})
                             \cup (IF "degraded" = "running" THEN {k + 1} ELSE {})
    BY <1>4, <2>1, <2>2, OrderWithAChange
  <2> QED BY <1>6, <1>8, <2>3 DEF Shows
<1>10. job' \in JobRow /\ job'.status = job.status
  <2>1. lost \in Stage
    BY TheCollectors
  <2> QED BY <1>2, <1>4, <2>1, TheRowOfTheJob DEF StageFinished, Arrived, Typed
<1>11. JobTypeOK'
  BY <1>1, <1>4, <1>5, <1>7, <1>9, <1>10, TypesByName DEF Typed
<1>12. AtItsStage'
  BY <1>7 DEF AtItsStage
<1>13. TakenOnce' /\ StatusFollows' /\ RowsOfTheEnd'
  BY <1>1, <1>5, <1>7, <1>10, StillAtWork
<1>14. RowsOfTheWorker'
  BY <1>7, <1>9 DEF RowsOfTheWorker, Shows
<1>15. FilesFollow'
  BY <1>1, <1>4, <1>7 DEF FilesFollow
<1>16. SavedFollow'
  <2>1. Accepted' => Accepted /\ saved \subseteq files
    BY <1>1, <1>5, AtWork DEF Accepted
  <2>2. Accepted => saved \cap Collector \subseteq corpus /\ wk.ok \subseteq saved
    BY <1>1, <1>4 DEF SavedFollow
  <2> QED BY <1>1, <1>6, <1>7, <2>1, <2>2 DEF SavedFollow
<1>17. StagesAreBacked'
  BY <1>7, <1>13, <1>15, NothingToShow
<1> QED BY <1>9, <1>11, <1>12, <1>13, <1>14, <1>15, <1>16, <1>17 DEF JobInv

\* How many rows may still run when a worker stops: none, one, or the two collectors'.
LEMMA FewStillRun ==
  ASSUME JobInv, Working
  PROVE  \/ StillRunning = {}
         \/ \E k \in 1 .. Len(runs) : StillRunning = {k}
         \/ StillRunning = {3, 4} /\ Len(runs) = 4
<1>1. Typed /\ AtItsStage /\ RowsOfTheWorker /\ RowsInOrder
  BY TypesByName DEF JobInv
<1>2. wk.pc \in PC \ {"idle", "dead"} /\ wk.at \in 1 .. 6 /\ Len(runs) \in 1 .. 6
  BY <1>1 DEF Typed, WorkerRow, Working, RowsInOrder
<1>3. StillRunning \subseteq 1 .. Len(runs)
  BY <1>1 DEF StillRunning, Typed
<1>4. CASE wk.pc \in {"prepare", "stage"}
  BY <1>1, <1>4 DEF RowsOfTheWorker, Shows
<1>5. CASE wk.pc \in {"run", "report"}
  <2>1. StillRunning = {wk.at + 1}
    BY <1>1, <1>5 DEF RowsOfTheWorker, Shows
  <2> QED BY <1>3, <2>1
<1>6. CASE wk.pc = "start_second"
  <2>1. StillRunning = {3}
    BY <1>1, <1>6 DEF RowsOfTheWorker, Shows
  <2> QED BY <1>3, <2>1
<1>7. CASE wk.pc = "collect"
  BY <1>1, <1>7 DEF RowsOfTheWorker, Shows
<1>8. CASE wk.pc \in {"apply", "applied"}
  <2>1. StillRunning = Unread /\ Len(runs) = 4
    BY <1>1, <1>8 DEF RowsOfTheWorker, Shows
  <2>2. Unread \in SUBSET {3, 4}
    BY DEF Unread
  <2>3. Unread = {} \/ Unread = {3} \/ Unread = {4} \/ Unread = {3, 4}
    BY <2>2
  <2>4. 3 \in 1 .. 4 /\ 4 \in 1 .. 4
    OBVIOUS
  <2> QED BY <2>1, <2>3, <2>4
<1>9. CASE wk.pc = "fail_stage"
  <2>1. CASE wk.at = 2
    BY <1>1, <1>9, <2>1 DEF RowsOfTheWorker, Shows
  <2>2. CASE wk.at # 2
    <3>1. StillRunning = {wk.at + 1}
      BY <1>1, <1>9, <2>2 DEF RowsOfTheWorker, Shows
    <3> QED BY <1>3, <3>1
  <2> QED BY <2>1, <2>2
<1>10. CASE wk.pc = "complete"
  <2>1. StillRunning = {4} \/ StillRunning = {}
    BY <1>1, <1>10 DEF RowsOfTheWorker, Shows
  <2> QED BY <1>3, <2>1
<1> QED BY <1>2, <1>4, <1>5, <1>6, <1>7, <1>8, <1>9, <1>10 DEF PC

\* A worker that stops leaves at most one row behind that still shows as running, a
\* collector's.
LEMMA RowsThatAreLeft ==
  ASSUME JobInv, Working, MarkJobFailed
  PROVE  /\ RowsInOrder' /\ runs' \in Seq(RunRow)
         /\ StillRunning' = {} \/ StillRunning' = {3}
<1>1. Typed /\ RowsInOrder
  BY TypesByName DEF JobInv
<1>2. runs \in Seq(RunRow) /\ Len(runs) \in 1 .. 6 /\ "failed" \in RunStatus
  BY <1>1 DEF Typed, RowsInOrder, RunStatus
<1>3. ASSUME NEW k \in 1 .. Len(runs), SetRun(k, "failed")
      PROVE  RowsInOrder' /\ runs' \in Seq(RunRow) /\ StillRunning' = StillRunning \ {k}
  <2>1. /\ runs' \in Seq(RunRow) /\ Len(runs') = Len(runs)
        /\ \A i \in 1 .. Len(runs) : runs'[i].stage = runs[i].stage
        /\ \A i \in 1 .. Len(runs) : i # k => runs'[i] = runs[i]
        /\ runs'[k].status = "failed"
        /\ StillRunning' = (StillRunning \ {k})
                             \cup (IF "failed" = "running" THEN {k} ELSE {})
    BY <1>2, <1>3, ARowIsSet
  <2>2. 1 \in 1 .. Len(runs) /\ \A i \in 2 .. Len(runs) : i \in 1 .. Len(runs)
    BY <1>2
  <2>3. runs'[1].stage = "queued" /\ runs'[1].status # "running"
    BY <1>1, <2>1, <2>2 DEF RowsInOrder
  <2>4. RowsInOrder'
    BY <1>1, <2>1, <2>2, <2>3 DEF RowsInOrder
  <2> QED BY <2>1, <2>4
<1>4. CASE Blamed = {}
  <2>1. runs' = runs /\ StillRunning = {}
    BY <1>4 DEF MarkJobFailed, Blamed
  <2> QED BY <1>1, <1>2, <2>1 DEF RowsInOrder, StillRunning
<1>5. CASE Blamed # {}
  <2>1. SetRun(Newest(Blamed), "failed")
    BY <1>5 DEF MarkJobFailed
  <2>2. CASE StillRunning = {}
    <3>1. Blamed = Rows(job.stage)
      BY <1>5, <2>2 DEF Blamed
    <3>2. PICK k \in 1 .. Len(runs) : Blamed = {k, k}
      BY <1>1, <1>2, <1>5, <3>1, RowsAreFew
    <3>3. Newest(Blamed) = k
      BY <1>2, <3>2, NewestIs
    <3> QED BY <1>3, <2>1, <2>2, <3>3
  <2>3. ASSUME NEW k \in 1 .. Len(runs), StillRunning = {k}
        PROVE  RowsInOrder' /\ runs' \in Seq(RunRow) /\ StillRunning' = {}
    <3>1. Blamed = {k, k}
      BY <2>3 DEF Blamed
    <3>2. Newest(Blamed) = k
      BY <1>2, <3>1, NewestIs
    <3> QED BY <1>3, <2>1, <2>3, <3>2
  <2>4. CASE StillRunning = {3, 4} /\ Len(runs) = 4
    <3>1. Blamed = {3, 4}
      BY <2>4 DEF Blamed
    <3>2. Newest(Blamed) = 4
      BY <3>1, NewestIs
    <3>3. 4 \in 1 .. Len(runs)
      BY <2>4
    <3>4. RowsInOrder' /\ runs' \in Seq(RunRow) /\ StillRunning' = StillRunning \ {4}
      BY <1>3, <2>1, <3>2, <3>3
    <3> QED BY <2>4, <3>4
  <2> QED BY <2>2, <2>3, <2>4, FewStillRun
<1> QED BY <1>4, <1>5

\* A step after which the worker waits for another job.
LEMMA WorkerHasEnded ==
  ASSUME JobInv, Working, wk' = Worker("idle"), old' = FALSE,
         UNCHANGED <<saved, files, corpus, queue, api, cleaner>>,
         job' \in JobRow, RowsInOrder', runs' \in Seq(RunRow), RowsOfTheEnd', StagesAreBacked',
         job'.status \in Ended
  PROVE  JobInv'
<1>1. Typed /\ TakenOnce /\ FilesFollow /\ SavedFollow
  BY TypesByName DEF JobInv
<1>2. wk' \in WorkerRow /\ wk'.pc = "idle" /\ wk'.at = 1 /\ wk'.single = "none"
  BY WorkerAtRest DEF PC
<1>3. JobTypeOK'
  BY <1>1, <1>2, TypesByName DEF Typed
<1>4. AtItsStage' /\ RowsOfTheWorker'
  BY <1>2 DEF AtItsStage, RowsOfTheWorker
<1>5. TakenOnce' /\ StatusFollows'
  BY <1>1, <1>2, AtWork DEF TakenOnce, StatusFollows, Accepted, Working
<1>6. FilesFollow' /\ SavedFollow'
  BY <1>1, <1>2, AtWork DEF FilesFollow, SavedFollow, Accepted
<1> QED BY <1>3, <1>4, <1>5, <1>6 DEF JobInv

\* The pipeline ends.
LEMMA CompletePipelineKeeps ==
  ASSUME JobInv, CompletePipeline
  PROVE  JobInv'
<1>1. /\ wk' = Worker("idle") /\ old' = FALSE
      /\ UNCHANGED <<runs, saved, files, corpus, queue, api, cleaner>>
      /\ \/ /\ wk.pc = "stage" /\ wk.at = 6
            /\ PipelineCompleted(FinalStatus, wk.degraded)
         \/ wk.pc = "complete" /\ PipelineCompleted("failed", wk.degraded)
  BY TheStages DEF CompletePipeline, At, disk, PipelineCompleted
<1>2. /\ Typed /\ SavedFollow /\ RowsInOrder /\ AtItsStage /\ RowsOfTheWorker /\ FilesFollow
  BY TypesByName DEF JobInv
<1>3. Working /\ wk.degraded \in BOOLEAN
  BY <1>1, <1>2 DEF Working, Typed, WorkerRow
<1>4. PICK status \in Ended :
        /\ job' = [status |-> status, stage |-> status, degraded |-> wk.degraded]
        /\ \/ wk.pc = "stage" /\ wk.at = 6 /\ status = FinalStatus
           \/ wk.pc = "complete" /\ status = "failed"
  BY <1>1 DEF PipelineCompleted, Ended, Success, FinalStatus
<1>5. job' \in JobRow /\ job'.status = status
  BY <1>3, <1>4 DEF JobRow, JobStatus
<1>6. RowsInOrder' /\ runs' \in Seq(RunRow) /\ StillRunning' = StillRunning
  BY <1>1, <1>2 DEF RowsInOrder, StillRunning, Typed
<1>7. RowsOfTheEnd'
  <2>1. CASE wk.pc = "stage"
    BY <1>2, <1>6, <2>1 DEF RowsOfTheWorker, Shows, RowsOfTheEnd
  <2>2. CASE wk.pc = "complete"
    <3>1. status \notin Success
      BY <1>4, <2>2 DEF Success
    <3>2. StillRunning = {4} \/ StillRunning = {}
      BY <1>2, <2>2 DEF RowsOfTheWorker, Shows
    <3> QED BY <1>5, <1>6, <3>1, <3>2 DEF RowsOfTheEnd
  <2> QED BY <1>4, <2>1, <2>2
<1>8. StagesAreBacked'
  <2>1. "postprocessing" \in files' => Collector \subseteq files'
    BY <1>1, <1>2 DEF FilesFollow
  <2>2. ASSUME Accepted', status \in Success
        PROVE  /\ saved' \subseteq files'
               /\ "generating_hermes_outputs" \in saved'
               /\ saved' \cap Collector # {} /\ saved' \cap Collector \subseteq corpus'
               /\ status = "completed" => saved' = Stage
    <3>1. Accepted /\ wk.pc = "stage" /\ wk.at = 6 /\ status = FinalStatus
      BY <1>1, <1>4, <2>2 DEF Accepted, Success
    <3>2. /\ saved \subseteq files /\ saved \cap Collector \subseteq corpus
          /\ saved \cap Collector # {} /\ Stages[5] \in saved
          /\ wk.single = "none" => BehindIsSaved
      BY <1>2, <1>3, <3>1, AtWork DEF SavedFollow
    <3>3. status = "completed" => saved = Stage
      <4>1. SUFFICES ASSUME status = "completed" PROVE saved = Stage
        OBVIOUS
      <4>2. wk.single = "none"
        BY <1>2, <3>1, <4>1 DEF FinalStatus, AtItsStage
      <4>3. \A i \in 1 .. 5 : Stages[i] \in saved
        BY <3>1, <3>2, <4>2 DEF BehindIsSaved
      <4>4. /\ Stages[1] \in saved /\ Stages[2] \in saved /\ Stages[3] \in saved
            /\ Stages[4] \in saved /\ Stages[5] \in saved
        BY <4>3
      <4>5. Stage \subseteq saved
        BY <4>4, TheStages
      <4> QED BY <1>2, <4>5 DEF Typed
    <3> QED BY <1>1, <3>2, <3>3, TheStages
  <2> QED BY <1>5, <2>1, <2>2 DEF StagesAreBacked
<1> QED BY <1>1, <1>3, <1>4, <1>5, <1>6, <1>7, <1>8, WorkerHasEnded

\* The worker raises.
LEMMA RaiseKeeps ==
  ASSUME JobInv, Raise
  PROVE  JobInv'
<1>1. /\ Working /\ MarkJobFailed /\ wk' = Worker("idle") /\ old' = FALSE
      /\ UNCHANGED <<saved, files, corpus, queue, api, cleaner>>
  BY DEF Raise, disk
<1>2. Typed /\ FilesFollow
  BY TypesByName DEF JobInv
<1>3. job' \in JobRow /\ job'.status = "failed"
  BY <1>1, <1>2 DEF MarkJobFailed, Typed, JobRow, JobStatus, Ended
<1>4. "failed" \in Ended /\ "failed" \notin Success
  BY DEF Ended, Success
<1>5. RowsInOrder' /\ runs' \in Seq(RunRow) /\ RowsOfTheEnd'
  BY <1>1, <1>3, <1>4, RowsThatAreLeft DEF RowsOfTheEnd
<1>6. StagesAreBacked'
  BY <1>1, <1>2, <1>3, <1>4 DEF StagesAreBacked, FilesFollow
<1> QED BY <1>1, <1>3, <1>4, <1>5, <1>6, WorkerHasEnded

\* The worker dies.
LEMMA KillKeeps ==
  ASSUME JobInv, Kill
  PROVE  JobInv'
<1>1. /\ Working /\ wk' = Worker("dead")
      /\ UNCHANGED <<job, runs, saved, files, corpus, old, queue, api, cleaner>>
  BY DEF Kill, Others, store, disk
<1>2. Typed /\ TakenOnce /\ RowsInOrder /\ FilesFollow /\ SavedFollow /\ StagesAreBacked
  BY TypesByName DEF JobInv
<1>3. wk' \in WorkerRow /\ wk'.pc = "dead" /\ wk'.at = 1 /\ wk'.single = "none"
  BY <1>1, WorkerAtRest DEF PC
<1>4. JobTypeOK'
  BY <1>1, <1>2, <1>3, TypesByName DEF Typed
<1>5. AtItsStage' /\ RowsOfTheWorker' /\ RowsOfTheEnd' /\ RowsInOrder'
  BY <1>1, <1>2, <1>3 DEF AtItsStage, RowsOfTheWorker, RowsOfTheEnd, RowsInOrder
<1>6. TakenOnce' /\ StatusFollows'
  BY <1>1, <1>2, <1>3, AtWork DEF TakenOnce, StatusFollows, Accepted, Working
<1>7. FilesFollow' /\ SavedFollow' /\ StagesAreBacked'
  BY <1>1, <1>2, <1>3, AtWork DEF FilesFollow, SavedFollow, StagesAreBacked, Accepted
<1> QED BY <1>4, <1>5, <1>6, <1>7 DEF JobInv

-----------------------------------------------------------------------------
(* The job.                                                                *)

LEMMA JobStepKeeps ==
  ASSUME JobInv, JobStep
  PROVE  JobInv'
BY EnqueueKeeps, RejectKeeps, AgeKeeps, TakeKeeps, PrepareKeeps, StartStageKeeps,
   SkipStageKeeps, RunStageKeeps, FinishStageKeeps, FailStageKeeps, StartSecondCollectorKeeps,
   CollectKeeps, ApplyCollectorKeeps, FinishCollectorKeeps, GoOnWithBothKeeps, FallBackKeeps,
   CompletePipelineKeeps, RaiseKeeps, KillKeeps
DEF JobStep, WorkerStep

\* A job that is over and accepted has let go of its worker.
LEMMA JobsSettle == JobInv => RunsAreSettled
<1> SUFFICES ASSUME JobInv, Accepted, ~Working, job.status \in Ended
             PROVE  /\ Cardinality(StillRunning) <= 1
                    /\ \A i \in StillRunning :
                         runs[i].stage \in Collector /\ job.status = "failed"
  BY DEF RunsAreSettled
<1>1. Typed /\ StatusFollows /\ RowsOfTheEnd /\ RowsInOrder
  BY TypesByName DEF JobInv
<1>2. wk.pc = "idle"
  BY <1>1 DEF StatusFollows
<1>3. StillRunning = {} \/ StillRunning = {3} \/ StillRunning = {4}
  BY <1>1, <1>2 DEF RowsOfTheEnd
<1>4. Cardinality(StillRunning) <= 1
  <2>1. Cardinality({}) = 0 /\ Cardinality({3}) = 1 /\ Cardinality({4}) = 1
    BY FS_EmptySet, FS_Singleton
  <2> QED BY <1>3, <2>1
<1>5. ASSUME NEW i \in StillRunning
      PROVE  runs[i].stage \in Collector /\ job.status = "failed"
  <2>1. i \in {3, 4} /\ i \in 1 .. Len(runs)
    BY <1>1, <1>3 DEF StillRunning, Typed
  <2>2. i \in 2 .. Len(runs)
    BY <2>1
  <2>3. runs[i].stage \in {Stages[2], Stages[3]}
    BY <1>1, <2>1, <2>2 DEF RowsInOrder
  <2>4. job.status \notin Success
    BY <1>1, <1>2 DEF RowsOfTheEnd
  <2> QED BY <2>3, <2>4, TheCollectors DEF Ended
<1> QED BY <1>4, <1>5

-----------------------------------------------------------------------------
(* The comparison.                                                         *)

CmpRow == [stage : CmpStage, api : {"none", "enqueue", "reject", "accepted", "rejected"},
           compared : SUBSET Vehicle, excluded : SUBSET Vehicle]
CwRow == [pc : CmpPC, at : 1 .. VehicleCount + 1, snapshots : SUBSET Vehicle,
          excluded : SUBSET Vehicle, fallback : BOOLEAN]

CmpTyped ==
  /\ cmp \in CmpRow /\ cw \in CwRow /\ row \in [Vehicle -> Row]
  /\ child \in [Vehicle -> {"none", "queued", "completed", "failed"}]
  /\ copied \subseteq Vehicle /\ listed \subseteq Vehicle
  /\ cmpOld \in BOOLEAN /\ cmpQueue \in BOOLEAN

\* It is handed to a worker once, and is not old before that has let it go.
CmpHanded ==
  /\ cmp.api = "none" => cmp.stage = "none"
  /\ cmp.api \in {"none", "enqueue"} => ~cmpQueue
  /\ cmp.api \in {"none", "enqueue"} \/ cmpQueue => cw.pc = "idle"
  /\ cmp.api \in {"none", "enqueue", "reject"} => ~cmpOld
  /\ cmp.api = "enqueue" \/ (CmpAccepted /\ cmpQueue) => cmp.stage = "queued"
  /\ cmpOld => ~cmpQueue /\ cw.pc \in {"idle", "lost"}
  /\ CmpAccepted /\ cmp.stage \in CmpEnded \cup {"expired"} => cw.pc = "idle" /\ ~cmpQueue
  /\ "comparison" \in cleaner => cmpOld /\ cmp.stage \in CmpEnded

\* Every vehicle that is behind the worker is left out, in its own row and in the
\* report, or there is a snapshot of it and its row says so.
LeftOut(v) == v \in cw.excluded /\ row[v].status = "excluded"
TakenIn(v) == /\ v \in cw.snapshots \ cw.excluded
              /\ row[v].status \in {"completed", "reused"}
CmpFollows ==
  /\ cw.pc \in {"idle", "start", "lost"} => cw = Comparer(cw.pc)
  /\ cw.pc \in {"vehicle", "child", "collected", "copy", "downloads", "exclude"} =>
       cw.at \in Vehicle
  /\ cw.pc \in {"judge", "compare", "publish"} => cw.at = VehicleCount + 1
  /\ cw.pc \in {"copy", "downloads"} => row[cw.at].status \in {"completed", "reused"}
  /\ cw.pc = "downloads" => cw.at \in cw.snapshots
  /\ cw.pc \in {"compare", "publish"} => Cardinality(cw.snapshots) >= 2
  /\ cw.snapshots \subseteq copied
  /\ \A v \in cw.excluded : v < cw.at
  /\ \A v \in Vehicle : v < cw.at => LeftOut(v) \/ TakenIn(v)

FilesOfTheComparison ==
  CmpAccepted /\ cmp.stage \in Success /\ ~cmpOld =>
    listed = cmp.compared /\ listed \subseteq copied

CmpInv ==
  CmpTyped /\ CmpHanded /\ CmpFollows /\ ReportAccountsForAll /\ FilesOfTheComparison

\* A worker at rest.
LEMMA ComparerAtRest ==
  ASSUME NEW pc \in CmpPC
  PROVE  /\ Comparer(pc) \in CwRow /\ Comparer(pc).pc = pc /\ Comparer(pc).at = 1
         /\ Comparer(pc).snapshots = {} /\ Comparer(pc).excluded = {}
<1>1. 1 \in 1 .. VehicleCount + 1
  BY ResultsAssumption
<1> QED BY <1>1 DEF Comparer, CwRow

\* It follows nothing.
LEMMA RestFollows ==
  ASSUME NEW pc \in {"idle", "start", "lost"}, cw' = Comparer(pc)
  PROVE  cw' \in CwRow /\ cw'.pc = pc /\ CmpFollows'
<1>1. /\ cw' \in CwRow /\ cw'.pc = pc /\ cw'.at = 1 /\ cw'.snapshots = {} /\ cw'.excluded = {}
  BY ComparerAtRest DEF CmpPC
<1>2. \A v \in Vehicle : ~(v < 1)
  BY ResultsAssumption DEF Vehicle
<1> QED BY <1>1, <1>2 DEF CmpFollows

\* A row is marked.
LEMMA TheRowIsMarked ==
  ASSUME CmpTyped, cw.at \in Vehicle,
         NEW s \in {"none", "queued", "reused", "running", "completed", "excluded"},
         MarkVehicle(s)
  PROVE  /\ row' \in [Vehicle -> Row] /\ row'[cw.at].status = s
         /\ \A v \in Vehicle : v # cw.at => row'[v] = row[v]
<1> DEFINE new == [row[cw.at] EXCEPT !.status = s]
<1>1. row \in [Vehicle -> Row] /\ row[cw.at] \in Row
  BY DEF CmpTyped
<1>2. new \in Row /\ new.status = s
  BY <1>1 DEF Row
<1>3. row' = [row EXCEPT ![cw.at] = new]
  BY DEF MarkVehicle
<1> HIDE DEF new
<1> QED BY <1>1, <1>2, <1>3

\* The worker turns to another step with the same vehicle.
LEMMA TheWorkerTurns ==
  ASSUME cw \in CwRow, NEW pc \in CmpPC, Turn(pc)
  PROVE  /\ cw' \in CwRow /\ cw'.pc = pc /\ cw'.at = cw.at
         /\ cw'.snapshots = cw.snapshots /\ cw'.excluded = cw.excluded
BY DEF CwRow, Turn

\* No finished comparison has a worker.
LEMMA AtTheComparison ==
  ASSUME CmpInv, cw.pc \notin {"idle", "lost"}
  PROVE  /\ ~cmpOld /\ ~cmpQueue /\ cmp.api \in {"reject", "accepted", "rejected"}
         /\ "comparison" \notin cleaner
         /\ ~(CmpAccepted /\ cmp.stage \in CmpEnded \cup {"expired"})
BY DEF CmpInv, CmpHanded, CmpTyped, CmpRow

\* A step with a vehicle, that leaves the row of the comparison alone.
LEMMA VehicleStepKeeps ==
  ASSUME CmpInv, cw.pc \notin {"idle", "lost"},
         UNCHANGED <<cmp, listed, cmpOld, cmpQueue, cleaner>>,
         cw' \in CwRow, row' \in [Vehicle -> Row],
         child' \in [Vehicle -> {"none", "queued", "completed", "failed"}],
         copied' \subseteq Vehicle, CmpFollows'
  PROVE  CmpInv'
<1>1. CmpTyped' /\ CmpHanded'
  BY AtTheComparison DEF CmpInv, CmpTyped, CmpHanded, CmpAccepted
<1>2. ~(CmpAccepted' /\ cmp'.stage \in Success)
  BY AtTheComparison DEF CmpAccepted, CmpEnded
<1>3. ReportAccountsForAll' /\ FilesOfTheComparison'
  BY <1>2 DEF ReportAccountsForAll, FilesOfTheComparison
<1> QED BY <1>1, <1>3 DEF CmpInv

\* A step that keeps to the vehicle and takes nothing back.
LEMMA SameVehicle ==
  ASSUME CmpInv, cw.at \in Vehicle, cw' \in CwRow, cw'.at = cw.at,
         cw'.pc \in {"vehicle", "child", "collected", "copy", "downloads", "exclude"},
         cw'.pc \in {"copy", "downloads"} => row'[cw.at].status \in {"completed", "reused"},
         cw'.pc = "downloads" => cw.at \in cw'.snapshots,
         cw.snapshots \subseteq cw'.snapshots, cw'.snapshots \subseteq copied',
         cw'.excluded = cw.excluded,
         \A v \in Vehicle : v # cw.at => row'[v] = row[v]
  PROVE  CmpFollows'
<1>1. CmpFollows /\ cw.at \in 1 .. VehicleCount /\ VehicleCount \in Nat
  BY ResultsAssumption DEF CmpInv, Vehicle
<1>2. ASSUME NEW v \in Vehicle, v < cw.at
      PROVE  LeftOut(v)' \/ TakenIn(v)'
  <2>1. v # cw.at /\ row'[v] = row[v]
    BY <1>1, <1>2 DEF Vehicle
  <2>2. LeftOut(v) \/ TakenIn(v)
    BY <1>1, <1>2 DEF CmpFollows
  <2> QED BY <2>1, <2>2 DEF LeftOut, TakenIn
<1>3. \A v \in cw'.excluded : v < cw'.at
  BY <1>1 DEF CmpFollows
<1> QED BY <1>2, <1>3 DEF CmpFollows

\* Before the worker.
LEMMA HandingKeeps ==
  ASSUME CmpInv, CreateComparison \/ EnqueueComparison \/ RejectComparison
  PROVE  CmpInv'
<1>1. CmpTyped /\ CmpHanded /\ CmpFollows /\ ReportAccountsForAll /\ FilesOfTheComparison
  BY DEF CmpInv
<1>2. CASE CreateComparison
  <2>1. /\ cmp.api = "none" /\ cmp' = [cmp EXCEPT !.stage = "queued", !.api = "enqueue"]
        /\ row' = [v \in Vehicle |-> [status |-> IF v = 1 THEN "reused" ELSE "queued",
                                      reuse |-> v = 1]]
        /\ UNCHANGED <<child, copied, listed, cmpOld, cmpQueue, cw, cleaner>>
    BY <1>2 DEF CreateComparison, NothingMade, vars
  <2>2. cmp' \in CmpRow /\ cmp'.api = "enqueue" /\ cmp'.stage = "queued"
    BY <1>1, <2>1 DEF CmpTyped, CmpRow, CmpStage
  <2>3. row' \in [Vehicle -> Row]
    BY <2>1 DEF Row
  <2>4. CmpTyped'
    BY <1>1, <2>1, <2>2, <2>3 DEF CmpTyped
  <2>5. cw' = Comparer("idle")
    BY <1>1, <2>1 DEF CmpHanded, CmpFollows
  <2>6. cw'.pc = "idle" /\ CmpFollows'
    BY <2>5, RestFollows
  <2>7. CmpHanded'
    BY <1>1, <2>1, <2>2, <2>6 DEF CmpHanded, CmpAccepted
  <2>8. ReportAccountsForAll' /\ FilesOfTheComparison'
    BY <2>2 DEF ReportAccountsForAll, FilesOfTheComparison, CmpAccepted
  <2> QED BY <2>4, <2>6, <2>7, <2>8 DEF CmpInv
<1>3. CASE EnqueueComparison
  <2>1. /\ cmp.api = "enqueue" /\ cmpQueue' \in BOOLEAN
        /\ \E api2 \in {"accepted", "reject"} : cmp' = [cmp EXCEPT !.api = api2]
        /\ UNCHANGED <<row, child, copied, listed, cmpOld, cw, cleaner>>
    BY <1>3 DEF EnqueueComparison, vars
  <2>2. cmp' \in CmpRow /\ cmp'.api \in {"accepted", "reject"} /\ cmp'.stage = cmp.stage
    BY <1>1, <2>1 DEF CmpTyped, CmpRow
  <2>3. cmp.stage = "queued" /\ cw.pc = "idle" /\ ~cmpOld
    BY <1>1, <2>1 DEF CmpHanded
  <2>4. CmpTyped' /\ CmpFollows'
    BY <1>1, <2>1, <2>2 DEF CmpTyped, CmpFollows, LeftOut, TakenIn
  <2>5. cmp'.stage \notin CmpEnded \cup {"expired"} /\ cmp'.stage \notin Success
    BY <2>2, <2>3 DEF CmpEnded, Success
  <2>6. CmpHanded'
    BY <1>1, <2>1, <2>2, <2>3, <2>5 DEF CmpHanded, CmpAccepted
  <2>7. ReportAccountsForAll' /\ FilesOfTheComparison'
    BY <2>5 DEF ReportAccountsForAll, FilesOfTheComparison
  <2> QED BY <2>4, <2>6, <2>7 DEF CmpInv
<1>4. CASE RejectComparison
  <2>1. /\ cmp.api = "reject" /\ cmp' = [cmp EXCEPT !.stage = "failed", !.api = "rejected"]
        /\ UNCHANGED <<row, child, copied, listed, cmpOld, cmpQueue, cw, cleaner>>
    BY <1>4 DEF RejectComparison, vars
  <2>2. cmp' \in CmpRow /\ cmp'.api = "rejected"
    BY <1>1, <2>1 DEF CmpTyped, CmpRow, CmpStage, CmpEnded
  <2>3. CmpTyped' /\ CmpFollows'
    BY <1>1, <2>1, <2>2 DEF CmpTyped, CmpFollows, LeftOut, TakenIn
  <2>4. CmpHanded'
    BY <1>1, <2>1, <2>2 DEF CmpHanded, CmpAccepted
  <2>5. ReportAccountsForAll' /\ FilesOfTheComparison'
    BY <2>2 DEF ReportAccountsForAll, FilesOfTheComparison, CmpAccepted
  <2> QED BY <2>3, <2>4, <2>5 DEF CmpInv
<1> QED BY <1>2, <1>3, <1>4

\* The worker takes the comparison, and says so.
LEMMA TakingKeeps ==
  ASSUME CmpInv, TakeComparison \/ MarkComparisonRunning
  PROVE  CmpInv'
<1>1. CmpTyped /\ CmpHanded /\ CmpFollows /\ ReportAccountsForAll /\ FilesOfTheComparison
  BY DEF CmpInv
<1>2. CASE TakeComparison
  <2>1. /\ cmpQueue /\ cw.pc = "idle" /\ cmpQueue' = FALSE /\ cw' = Comparer("start")
        /\ UNCHANGED <<cmp, row, child, copied, listed, cmpOld, cleaner>>
    BY <1>2 DEF TakeComparison, Comparing, Beside, vars
  <2>2. cw' \in CwRow /\ cw'.pc = "start" /\ CmpFollows'
    BY <2>1, RestFollows
  <2>3. CmpTyped'
    BY <1>1, <2>1, <2>2 DEF CmpTyped
  <2>4. CmpAccepted => cmp.stage \notin CmpEnded \cup {"expired"} /\ cmp.stage \notin Success
    BY <1>1, <2>1 DEF CmpHanded, CmpEnded
  <2>5. CmpHanded'
    BY <1>1, <2>1, <2>2, <2>4 DEF CmpHanded, CmpAccepted
  <2>6. ReportAccountsForAll' /\ FilesOfTheComparison'
    BY <2>1, <2>4 DEF ReportAccountsForAll, FilesOfTheComparison, CmpAccepted
  <2> QED BY <2>2, <2>3, <2>5, <2>6 DEF CmpInv
<1>3. CASE MarkComparisonRunning
  <2>1. /\ cw.pc = "start" /\ cmp' = [cmp EXCEPT !.stage = "collecting_models"]
        /\ Turn("vehicle")
        /\ UNCHANGED <<row, child, copied, listed, cmpOld, cmpQueue, cleaner>>
    BY <1>3 DEF MarkComparisonRunning, Comparing, Beside, vars
  <2>2. cmp' \in CmpRow /\ cmp'.stage = "collecting_models" /\ cmp'.api = cmp.api
    BY <1>1, <2>1 DEF CmpTyped, CmpRow, CmpStage
  <2>3. /\ cw.at = 1 /\ cw.snapshots = {} /\ cw.excluded = {} /\ cw \in CwRow
    BY <1>1, <2>1, ComparerAtRest DEF CmpFollows, CmpPC, CmpTyped
  <2>4. /\ cw' \in CwRow /\ cw'.pc = "vehicle" /\ cw'.at = 1
        /\ cw'.snapshots = {} /\ cw'.excluded = {}
    BY <2>1, <2>3, TheWorkerTurns DEF CmpPC
  <2>5. CmpTyped'
    BY <1>1, <2>1, <2>2, <2>4 DEF CmpTyped
  <2>6. 1 \in Vehicle /\ \A v \in Vehicle : ~(v < 1)
    BY ResultsAssumption DEF Vehicle
  <2>7. CmpFollows'
    BY <2>4, <2>6 DEF CmpFollows
  <2>8. "collecting_models" \notin CmpEnded \cup {"expired"} \cup Success
    BY DEF CmpEnded, Success
  <2>9. CmpHanded'
    BY <2>1, <2>2, <2>8, AtTheComparison DEF CmpHanded, CmpAccepted
  <2>10. ReportAccountsForAll' /\ FilesOfTheComparison'
    BY <2>2, <2>8 DEF ReportAccountsForAll, FilesOfTheComparison
  <2> QED BY <2>5, <2>7, <2>9, <2>10 DEF CmpInv
<1> QED BY <1>2, <1>3

\* A vehicle is reused or collected.
LEMMA CollectingKeeps ==
  ASSUME CmpInv, Reuse \/ EnsureChildJob \/ RunChildJob \/ MarkCollected \/ StumbleOverVehicle
  PROVE  CmpInv'
<1>1. CmpTyped /\ CmpFollows /\ cw \in CwRow
  BY DEF CmpInv, CmpTyped
<1>2. UNCHANGED <<cmp, copied, listed, cmpOld, cmpQueue, cleaner>>
  BY DEF Reuse, EnsureChildJob, RunChildJob, MarkCollected, StumbleOverVehicle, Beside, vars
<1>3. /\ cw.pc \in {"vehicle", "child", "collected", "copy", "downloads"}
      /\ cw.at \in Vehicle /\ cw.pc \notin {"idle", "lost"} /\ cw.snapshots \subseteq copied
  BY <1>1 DEF Reuse, EnsureChildJob, RunChildJob, MarkCollected, StumbleOverVehicle, Comparing,
     CmpFollows
<1>4. ASSUME NEW pc \in {"child", "collected", "exclude"}, Turn(pc),
             \/ UNCHANGED row
             \/ MarkVehicle("running"),
             child' \in [Vehicle -> {"none", "queued", "completed", "failed"}]
      PROVE  CmpInv'
  <2>1. /\ cw' \in CwRow /\ cw'.pc = pc /\ cw'.at = cw.at
        /\ cw'.snapshots = cw.snapshots /\ cw'.excluded = cw.excluded
    BY <1>1, <1>4, TheWorkerTurns DEF CmpPC
  <2>2. row' \in [Vehicle -> Row] /\ \A v \in Vehicle : v # cw.at => row'[v] = row[v]
    BY <1>1, <1>3, <1>4, TheRowIsMarked DEF CmpTyped
  <2>3. CmpFollows'
    BY <1>2, <1>3, <2>1, <2>2, SameVehicle
  <2> QED BY <1>1, <1>2, <1>3, <1>4, <2>1, <2>2, <2>3, VehicleStepKeeps DEF CmpTyped
<1>5. ASSUME NEW s \in {"completed", "reused"}, MarkVehicle(s), Turn("copy"), UNCHANGED child
      PROVE  CmpInv'
  <2>1. /\ cw' \in CwRow /\ cw'.pc = "copy" /\ cw'.at = cw.at
        /\ cw'.snapshots = cw.snapshots /\ cw'.excluded = cw.excluded
    BY <1>1, <1>5, TheWorkerTurns DEF CmpPC
  <2>2. /\ row' \in [Vehicle -> Row] /\ row'[cw.at].status = s
        /\ \A v \in Vehicle : v # cw.at => row'[v] = row[v]
    BY <1>1, <1>3, <1>5, TheRowIsMarked
  <2>3. CmpFollows'
    BY <1>2, <1>3, <2>1, <2>2, SameVehicle
  <2> QED BY <1>1, <1>2, <1>3, <1>5, <2>1, <2>2, <2>3, VehicleStepKeeps DEF CmpTyped
<1>6. CASE Reuse
  BY <1>5, <1>6 DEF Reuse
<1>7. CASE EnsureChildJob
  <2>1. child' \in [Vehicle -> {"none", "queued", "completed", "failed"}]
    BY <1>1, <1>7 DEF EnsureChildJob, CmpTyped
  <2> QED BY <1>4, <1>7, <2>1 DEF EnsureChildJob
<1>8. CASE RunChildJob
  <2>1. child' \in [Vehicle -> {"none", "queued", "completed", "failed"}]
    BY <1>1, <1>8 DEF RunChildJob, CmpTyped
  <2>2. row' = row /\ (Turn("collected") \/ Turn("exclude"))
    BY <1>8 DEF RunChildJob
  <2> QED BY <1>4, <2>1, <2>2
<1>9. CASE MarkCollected
  BY <1>5, <1>9 DEF MarkCollected
<1>10. CASE StumbleOverVehicle
  <2>1. child' \in [Vehicle -> {"none", "queued", "completed", "failed"}]
    BY <1>1, <1>10 DEF StumbleOverVehicle, CmpTyped
  <2> QED BY <1>4, <1>10, <2>1 DEF StumbleOverVehicle
<1> QED BY <1>6, <1>7, <1>8, <1>9, <1>10

\* The result of a vehicle is copied.
LEMMA CopySnapshotKeeps ==
  ASSUME CmpInv, CopySnapshot
  PROVE  CmpInv'
<1>1. CmpTyped /\ CmpFollows /\ cw \in CwRow
  BY DEF CmpInv, CmpTyped
<1>2. cw.pc = "copy" /\ UNCHANGED <<cmp, row, child, listed, cmpOld, cmpQueue, cleaner>>
  BY DEF CopySnapshot, Comparing, Beside, vars
<1>3. /\ cw.at \in Vehicle /\ row[cw.at].status \in {"completed", "reused"}
      /\ cw.snapshots \subseteq copied /\ cw.snapshots \subseteq Vehicle
  BY <1>1, <1>2 DEF CmpFollows, CwRow
<1>4. CASE SourceReady
  <2>1. /\ cw' = [cw EXCEPT !.pc = "downloads", !.snapshots = cw.snapshots \cup {cw.at}]
        /\ copied' = copied \cup {cw.at}
    BY <1>4 DEF CopySnapshot
  <2>2. cw.snapshots \cup {cw.at} \in SUBSET Vehicle /\ "downloads" \in CmpPC
    BY <1>3 DEF CmpPC
  <2>3. /\ cw' \in CwRow /\ cw'.pc = "downloads" /\ cw'.at = cw.at
        /\ cw'.snapshots = cw.snapshots \cup {cw.at} /\ cw'.excluded = cw.excluded
    BY <1>1, <2>1, <2>2 DEF CwRow
  <2>4. CmpFollows'
    BY <1>2, <1>3, <2>1, <2>3, SameVehicle
  <2>5. copied' \subseteq Vehicle
    BY <1>1, <1>3, <2>1 DEF CmpTyped
  <2> QED BY <1>1, <1>2, <2>3, <2>4, <2>5, VehicleStepKeeps DEF CmpTyped
<1>5. CASE ~SourceReady
  <2>1. Turn("exclude") /\ UNCHANGED copied
    BY <1>5 DEF CopySnapshot
  <2>2. /\ cw' \in CwRow /\ cw'.pc = "exclude" /\ cw'.at = cw.at
        /\ cw'.snapshots = cw.snapshots /\ cw'.excluded = cw.excluded
    BY <1>1, <2>1, TheWorkerTurns DEF CmpPC
  <2>3. CmpFollows'
    BY <1>2, <1>3, <2>1, <2>2, SameVehicle
  <2> QED BY <1>1, <1>2, <2>1, <2>2, <2>3, VehicleStepKeeps DEF CmpTyped
<1> QED BY <1>4, <1>5

\* The fields of the worker that turns to the next vehicle.
LEMMA TheNextVehicle ==
  ASSUME cw \in CwRow, cw.at \in Vehicle
  PROVE  /\ NextVehicle \in CwRow /\ NextVehicle.at = cw.at + 1
         /\ NextVehicle.pc = IF cw.at = VehicleCount THEN "judge" ELSE "vehicle"
         /\ NextVehicle.snapshots = cw.snapshots /\ NextVehicle.excluded = cw.excluded
<1> DEFINE pc == IF cw.at = VehicleCount THEN "judge" ELSE "vehicle"
           at == cw.at + 1
<1>1. pc \in CmpPC /\ at \in 1 .. VehicleCount + 1
  BY ResultsAssumption DEF CmpPC, Vehicle
<1>2. NextVehicle = [cw EXCEPT !.at = at, !.pc = pc]
  BY DEF NextVehicle
<1> HIDE DEF pc, at
<1>3. /\ NextVehicle \in CwRow /\ NextVehicle.at = at /\ NextVehicle.pc = pc
      /\ NextVehicle.snapshots = cw.snapshots /\ NextVehicle.excluded = cw.excluded
  BY <1>1, <1>2 DEF CwRow
<1> QED BY <1>3 DEF pc, at

\* A vehicle is behind the worker.
LEMMA TheVehicleIsBehind ==
  ASSUME CmpInv, cw.at \in Vehicle, cw' \in CwRow, cw'.at = cw.at + 1,
         cw'.pc = IF cw.at = VehicleCount THEN "judge" ELSE "vehicle",
         cw'.snapshots = cw.snapshots, copied' = copied,
         cw'.excluded \subseteq cw.excluded \cup {cw.at},
         cw.excluded \subseteq cw'.excluded,
         \A v \in Vehicle : v # cw.at => row'[v] = row[v],
         \/ cw.at \in cw'.excluded /\ row'[cw.at].status = "excluded"
         \/ /\ cw.at \in cw'.snapshots \ cw'.excluded
            /\ row'[cw.at].status \in {"completed", "reused"}
  PROVE  CmpFollows'
<1>1. /\ CmpFollows /\ cw.at \in 1 .. VehicleCount /\ VehicleCount \in Nat
      /\ cw.excluded \subseteq Vehicle
  BY ResultsAssumption DEF CmpInv, Vehicle, CmpTyped, CwRow
<1>2. ASSUME NEW v \in Vehicle, v < cw.at + 1
      PROVE  LeftOut(v)' \/ TakenIn(v)'
  <2>1. CASE v = cw.at
    BY <2>1 DEF LeftOut, TakenIn
  <2>2. CASE v # cw.at
    <3>1. v < cw.at /\ row'[v] = row[v] /\ (v \in cw'.excluded <=> v \in cw.excluded)
      BY <1>1, <1>2, <2>2 DEF Vehicle
    <3>2. LeftOut(v) \/ TakenIn(v)
      BY <1>1, <3>1 DEF CmpFollows
    <3> QED BY <3>1, <3>2 DEF LeftOut, TakenIn
  <2> QED BY <2>1, <2>2
<1>3. \A v \in cw'.excluded : v < cw'.at
  <2>1. \A v \in cw.excluded : v < cw.at /\ v \in Int
    BY <1>1 DEF CmpFollows, Vehicle
  <2> QED BY <1>1, <2>1
<1>4. cw'.snapshots \subseteq copied'
  BY <1>1 DEF CmpFollows
<1>5. CASE cw.at = VehicleCount
  <2>1. cw'.pc = "judge" /\ cw'.at = VehicleCount + 1
    BY <1>5
  <2> QED BY <1>2, <1>3, <1>4, <2>1 DEF CmpFollows
<1>6. CASE cw.at # VehicleCount
  <2>1. cw'.pc = "vehicle" /\ cw'.at \in Vehicle
    BY <1>1, <1>6 DEF Vehicle
  <2> QED BY <1>2, <1>3, <1>4, <2>1 DEF CmpFollows
<1> QED BY <1>5, <1>6

\* The worker is done with a vehicle: it has its files, or leaves it out.
LEMMA LeavingKeeps ==
  ASSUME CmpInv, CopyDownloads \/ ExcludeVehicle
  PROVE  CmpInv'
<1>1. CmpTyped /\ CmpFollows /\ cw \in CwRow
  BY DEF CmpInv, CmpTyped
<1>2. CASE CopyDownloads
  <2>1. /\ cw.pc = "downloads" /\ cw' = NextVehicle
        /\ UNCHANGED <<cmp, row, child, copied, listed, cmpOld, cmpQueue, cleaner>>
    BY <1>2 DEF CopyDownloads, Comparing, Beside, vars
  <2>2. /\ cw.at \in Vehicle /\ row[cw.at].status \in {"completed", "reused"}
        /\ cw.at \in cw.snapshots /\ cw.excluded \subseteq Vehicle
        /\ \A v \in cw.excluded : v < cw.at
    BY <1>1, <2>1 DEF CmpFollows, CwRow
  <2>3. cw.at \notin cw.excluded
    BY <2>2 DEF Vehicle
  <2>4. /\ cw' \in CwRow /\ cw'.at = cw.at + 1
        /\ cw'.pc = IF cw.at = VehicleCount THEN "judge" ELSE "vehicle"
        /\ cw'.snapshots = cw.snapshots /\ cw'.excluded = cw.excluded
    BY <1>1, <2>1, <2>2, TheNextVehicle
  <2>5. CmpFollows'
    BY <2>1, <2>2, <2>3, <2>4, TheVehicleIsBehind
  <2> QED BY <1>1, <2>1, <2>4, <2>5, VehicleStepKeeps DEF CmpTyped
<1>3. CASE ExcludeVehicle
  <2>1. /\ cw.pc = "exclude" /\ MarkVehicle("excluded")
        /\ cw' = [NextVehicle EXCEPT !.excluded = NextVehicle.excluded \cup {cw.at}]
        /\ UNCHANGED <<cmp, child, copied, listed, cmpOld, cmpQueue, cleaner>>
    BY <1>3 DEF ExcludeVehicle, Comparing, Beside, vars
  <2>2. cw.at \in Vehicle /\ cw.excluded \subseteq Vehicle
    BY <1>1, <2>1 DEF CmpFollows, CwRow
  <2>3. /\ NextVehicle \in CwRow /\ NextVehicle.at = cw.at + 1
        /\ NextVehicle.pc = IF cw.at = VehicleCount THEN "judge" ELSE "vehicle"
        /\ NextVehicle.snapshots = cw.snapshots /\ NextVehicle.excluded = cw.excluded
    BY <1>1, <2>2, TheNextVehicle
  <2>4. /\ cw' \in CwRow /\ cw'.at = NextVehicle.at /\ cw'.pc = NextVehicle.pc
        /\ cw'.snapshots = NextVehicle.snapshots
        /\ cw'.excluded = NextVehicle.excluded \cup {cw.at}
    <3> DEFINE n == NextVehicle
               out == n.excluded \cup {cw.at}
    <3>1. n \in CwRow /\ out \in SUBSET Vehicle /\ cw' = [n EXCEPT !.excluded = out]
      BY <2>1, <2>2, <2>3
    <3> HIDE DEF n, out
    <3>2. /\ cw' \in CwRow /\ cw'.at = n.at /\ cw'.pc = n.pc /\ cw'.snapshots = n.snapshots
          /\ cw'.excluded = out
      BY <3>1 DEF CwRow
    <3> QED BY <3>2 DEF n, out
  <2>5. /\ row' \in [Vehicle -> Row] /\ row'[cw.at].status = "excluded"
        /\ \A v \in Vehicle : v # cw.at => row'[v] = row[v]
    BY <1>1, <2>1, <2>2, TheRowIsMarked
  <2>6. CmpFollows'
    <3>1. /\ cw'.at = cw.at + 1 /\ cw'.snapshots = cw.snapshots
          /\ cw'.pc = IF cw.at = VehicleCount THEN "judge" ELSE "vehicle"
          /\ cw'.excluded = cw.excluded \cup {cw.at}
      BY <2>3, <2>4
    <3>2. cw.at \in cw'.excluded
      BY <3>1
    <3> QED BY <2>1, <2>2, <2>4, <2>5, <3>1, <3>2, TheVehicleIsBehind
  <2> QED BY <1>1, <2>1, <2>4, <2>5, <2>6, VehicleStepKeeps DEF CmpTyped
<1> QED BY <1>2, <1>3

\* The worker judges what it has, compares it, and publishes the report.
LEMMA PublishingKeeps ==
  ASSUME CmpInv, JudgeSnapshots \/ Compare \/ PublishComparison
  PROVE  CmpInv'
<1>1. CmpTyped /\ CmpHanded /\ CmpFollows /\ cw \in CwRow /\ cmp \in CmpRow
  BY DEF CmpInv, CmpTyped
<1>2. /\ cw.pc \in {"judge", "compare", "publish"} /\ cw.at = VehicleCount + 1
      /\ UNCHANGED <<row, child, copied, cmpOld, cmpQueue, cleaner>>
      /\ cw.snapshots \subseteq Vehicle /\ cw.excluded \subseteq Vehicle
      /\ cw.snapshots \subseteq copied
  BY <1>1 DEF JudgeSnapshots, Compare, PublishComparison, Comparing, CmpFollows, CwRow,
     Beside, vars
<1>3. /\ ~cmpOld /\ ~cmpQueue /\ cmp.api \in {"reject", "accepted", "rejected"}
      /\ "comparison" \notin cleaner
      /\ ~(CmpAccepted /\ cmp.stage \in CmpEnded \cup {"expired"})
  BY <1>2, AtTheComparison
<1>4. ASSUME cw' \in CwRow, cw'.at = cw.at, cw'.pc \in {"compare", "publish"},
             cw'.snapshots = cw.snapshots, cw'.excluded = cw.excluded,
             Cardinality(cw.snapshots) >= 2
      PROVE  CmpFollows'
  BY <1>1, <1>2, <1>4 DEF CmpFollows, LeftOut, TakenIn
<1>5. CASE JudgeSnapshots
  <2>1. listed' = listed
    BY <1>5 DEF JudgeSnapshots
  <2>2. CASE Cardinality(cw.snapshots) < 2
    <3>1. cmp' = [cmp EXCEPT !.stage = "failed"] /\ cw' = Comparer("idle")
      BY <1>5, <2>2 DEF JudgeSnapshots
    <3>2. cmp' \in CmpRow /\ cmp'.stage = "failed" /\ cmp'.api = cmp.api
      BY <1>1, <3>1 DEF CmpRow, CmpStage, CmpEnded
    <3>3. cw' \in CwRow /\ cw'.pc = "idle" /\ CmpFollows'
      BY <3>1, RestFollows
    <3>4. CmpTyped' /\ CmpHanded'
      BY <1>1, <1>2, <1>3, <2>1, <3>2, <3>3 DEF CmpTyped, CmpHanded, CmpAccepted
    <3>5. ReportAccountsForAll' /\ FilesOfTheComparison'
      BY <3>2 DEF ReportAccountsForAll, FilesOfTheComparison, Success
    <3> QED BY <3>3, <3>4, <3>5 DEF CmpInv
  <2>3. CASE ~(Cardinality(cw.snapshots) < 2)
    <3>1. cmp' = [cmp EXCEPT !.stage = "comparing"] /\ Turn("compare")
      BY <1>5, <2>3 DEF JudgeSnapshots
    <3>2. cmp' \in CmpRow /\ cmp'.stage = "comparing" /\ cmp'.api = cmp.api
      BY <1>1, <3>1 DEF CmpRow, CmpStage
    <3>3. /\ cw' \in CwRow /\ cw'.pc = "compare" /\ cw'.at = cw.at
          /\ cw'.snapshots = cw.snapshots /\ cw'.excluded = cw.excluded
      BY <1>1, <3>1, TheWorkerTurns DEF CmpPC
    <3>4. Cardinality(cw.snapshots) >= 2
      <4>1. Cardinality(cw.snapshots) \in Nat
        <5>1. IsFiniteSet(Vehicle)
          BY ResultsAssumption, FS_Interval DEF Vehicle
        <5>2. IsFiniteSet(cw.snapshots)
          BY <1>2, <5>1, FS_Subset
        <5> QED BY <5>2, FS_CardinalityType
      <4> QED BY <2>3, <4>1
    <3>5. CmpFollows'
      BY <1>4, <3>3, <3>4
    <3>6. "comparing" \notin CmpEnded \cup {"expired"} \cup Success
      BY DEF CmpEnded, Success
    <3>7. CmpTyped' /\ CmpHanded'
      BY <1>1, <1>2, <1>3, <2>1, <3>2, <3>3, <3>6 DEF CmpTyped, CmpHanded, CmpAccepted
    <3>8. ReportAccountsForAll' /\ FilesOfTheComparison'
      BY <3>2, <3>6 DEF ReportAccountsForAll, FilesOfTheComparison
    <3> QED BY <3>5, <3>7, <3>8 DEF CmpInv
  <2> QED BY <2>2, <2>3
<1>6. CASE Compare
  <2>1. PICK fallback \in BOOLEAN : cw' = [cw EXCEPT !.pc = "publish", !.fallback = fallback]
    BY <1>6 DEF Compare
  <2>2. cw.pc = "compare" /\ cmp' = cmp /\ listed' = listed
    BY <1>6 DEF Compare, Comparing
  <2>3. /\ cw' \in CwRow /\ cw'.pc = "publish" /\ cw'.at = cw.at
        /\ cw'.snapshots = cw.snapshots /\ cw'.excluded = cw.excluded
    BY <1>1, <2>1 DEF CwRow, CmpPC
  <2>4. CmpFollows'
    BY <1>1, <1>4, <2>2, <2>3 DEF CmpFollows
  <2>5. row' \in [Vehicle -> Row] /\ copied' \subseteq Vehicle
        /\ child' \in [Vehicle -> {"none", "queued", "completed", "failed"}]
    BY <1>1, <1>2 DEF CmpTyped
  <2> QED BY <1>2, <2>2, <2>3, <2>4, <2>5, VehicleStepKeeps
<1>7. CASE PublishComparison
  <2> DEFINE stage == IF cw.excluded # {} \/ cw.fallback
                      THEN "completed_degraded" ELSE "completed"
  <2>1. /\ cw.pc = "publish" /\ cw' = Comparer("idle") /\ listed' = cw.snapshots
        /\ cmp' = [cmp EXCEPT !.stage = stage, !.compared = cw.snapshots,
                              !.excluded = cw.excluded]
    BY <1>7 DEF PublishComparison, Comparing
  <2>2. stage \in Success /\ (cw.excluded # {} => stage = "completed_degraded")
    BY DEF Success
  <2>3. stage \in CmpStage /\ stage \in CmpEnded /\ stage # "queued"
    BY <2>2 DEF CmpStage, CmpEnded, Success
  <2> HIDE DEF stage
  <2>4. /\ cmp' \in CmpRow /\ cmp'.stage = stage /\ cmp'.api = cmp.api
        /\ cmp'.compared = cw.snapshots /\ cmp'.excluded = cw.excluded
    BY <1>1, <1>2, <2>1, <2>3 DEF CmpRow
  <2>5. cw' \in CwRow /\ cw'.pc = "idle" /\ CmpFollows'
    BY <2>1, RestFollows
  <2>6. CmpTyped' /\ CmpHanded'
    BY <1>1, <1>2, <1>3, <2>1, <2>3, <2>4, <2>5 DEF CmpTyped, CmpHanded, CmpAccepted
  <2>7. FilesOfTheComparison'
    BY <1>2, <2>1, <2>4 DEF FilesOfTheComparison
  <2>8. \A v \in Vehicle : LeftOut(v) \/ TakenIn(v)
    <3>1. \A v \in Vehicle : v < VehicleCount + 1
      BY ResultsAssumption DEF Vehicle
    <3> QED BY <1>1, <1>2, <3>1 DEF CmpFollows
  <2>9. ReportAccountsForAll'
    <3>1. cw.snapshots \cup cw.excluded = Vehicle
      BY <1>2, <2>8 DEF LeftOut, TakenIn
    <3>2. {v \in Vehicle : row[v].status \in {"excluded"}} = cw.excluded
      BY <1>2, <2>8 DEF LeftOut, TakenIn
    <3>3. {v \in Vehicle : row[v].status \in {"completed", "reused"}} = Vehicle \ cw.excluded
      BY <1>2, <2>8 DEF LeftOut, TakenIn
    <3>4. Cardinality(cw.snapshots) >= 2
      BY <1>1, <2>1 DEF CmpFollows
    <3> QED BY <1>2, <2>2, <2>4, <3>1, <3>2, <3>3, <3>4 DEF ReportAccountsForAll, Shown,
       Available
  <2> QED BY <2>5, <2>6, <2>7, <2>9 DEF CmpInv
<1> QED BY <1>5, <1>6, <1>7

\* The worker dies.
LEMMA LosingKeeps ==
  ASSUME CmpInv, LoseComparison
  PROVE  CmpInv'
<1>1. /\ cw.pc \notin {"idle", "lost"} /\ cw' = Comparer("lost")
      /\ UNCHANGED <<cmp, row, child, copied, listed, cmpOld, cmpQueue, cleaner>>
  BY DEF LoseComparison, Beside, vars
<1>2. cw' \in CwRow /\ CmpFollows'
  BY <1>1, RestFollows
<1> QED BY <1>1, <1>2, VehicleStepKeeps DEF CmpInv, CmpTyped

\* The comparison grows old, and the cleanup removes what it left.
LEMMA CmpCleanupKeeps ==
  ASSUME CmpInv, \/ AgeComparison \/ RemoveJobFiles \/ RemoveComparisonFiles
                 \/ Commit \/ RollBack
  PROVE  CmpInv'
<1>1. CmpTyped /\ CmpHanded /\ CmpFollows /\ ReportAccountsForAll /\ FilesOfTheComparison
  BY DEF CmpInv
<1>2. ASSUME UNCHANGED cmpVars, cleaner' \subseteq cleaner \cup {"job"}
      PROVE  CmpInv'
  <2>1. UNCHANGED <<cmp, row, child, copied, listed, cmpOld, cmpQueue, cw>>
    BY <1>2 DEF cmpVars
  <2>2. CmpTyped' /\ CmpHanded' /\ CmpFollows' /\ FilesOfTheComparison'
    BY <1>1, <1>2, <2>1 DEF CmpTyped, CmpHanded, CmpFollows, FilesOfTheComparison, CmpAccepted,
       LeftOut, TakenIn
  <2>3. ReportAccountsForAll'
    BY <1>1, <2>1 DEF ReportAccountsForAll, CmpAccepted, Shown, Available
  <2> QED BY <2>2, <2>3 DEF CmpInv
<1>3. CASE AgeComparison
  <2>1. /\ cmp.stage \in CmpEnded /\ ~cmpQueue /\ cw.pc \in {"idle", "lost"}
        /\ cmp.api \in {"accepted", "rejected"} /\ cmpOld' = TRUE
        /\ UNCHANGED <<cmp, row, child, copied, listed, cmpQueue, cw, cleaner>>
    BY <1>3 DEF AgeComparison, vars
  <2>2. CmpTyped' /\ CmpHanded' /\ CmpFollows' /\ FilesOfTheComparison'
    BY <1>1, <2>1 DEF CmpTyped, CmpHanded, CmpFollows, FilesOfTheComparison, CmpAccepted,
       LeftOut, TakenIn
  <2>3. ReportAccountsForAll'
    BY <1>1, <2>1 DEF ReportAccountsForAll, CmpAccepted, Shown, Available
  <2> QED BY <2>2, <2>3 DEF CmpInv
<1>4. CASE RemoveJobFiles
  BY <1>2, <1>4 DEF RemoveJobFiles, RemoveFiles
<1>5. CASE RemoveComparisonFiles
  <2>1. /\ cmpOld /\ cmp.stage \in CmpEnded /\ copied' = {}
        /\ cleaner' = cleaner \cup {"comparison"}
        /\ UNCHANGED <<cmp, row, child, listed, cmpOld, cmpQueue, cw>>
    BY <1>5 DEF RemoveComparisonFiles
  <2>2. cw = Comparer(cw.pc) /\ cw.pc \in CmpPC /\ cw.pc \in {"idle", "lost"}
    BY <1>1, <2>1 DEF CmpHanded, CmpFollows, CmpPC
  <2>3. cw.snapshots = {}
    BY <2>2, ComparerAtRest
  <2>4. CmpTyped' /\ CmpHanded' /\ CmpFollows' /\ FilesOfTheComparison'
    BY <1>1, <2>1, <2>3 DEF CmpTyped, CmpHanded, CmpFollows, FilesOfTheComparison, CmpAccepted,
       LeftOut, TakenIn
  <2>5. ReportAccountsForAll'
    BY <1>1, <2>1 DEF ReportAccountsForAll, CmpAccepted, Shown, Available
  <2> QED BY <2>4, <2>5 DEF CmpInv
<1>6. CASE Commit
  <2>1. /\ cleaner' = {}
        /\ IF "comparison" \in cleaner
           THEN cmp' = [cmp EXCEPT !.stage = "expired"] /\ listed' = {}
           ELSE UNCHANGED <<cmp, listed>>
        /\ UNCHANGED <<row, child, copied, cmpOld, cmpQueue, cw>>
    BY <1>6 DEF Commit, CommitCleanup
  <2>2. CASE "comparison" \in cleaner
    <3>1. cmp' = [cmp EXCEPT !.stage = "expired"] /\ listed' = {}
      BY <2>1, <2>2
    <3>2. cmp' \in CmpRow /\ cmp'.stage = "expired" /\ cmp'.api = cmp.api
      BY <1>1, <3>1 DEF CmpTyped, CmpRow, CmpStage
    <3>3. cmpOld /\ ~cmpQueue /\ cmp.api \notin {"none", "enqueue", "reject"}
          /\ (CmpAccepted => cw.pc = "idle")
      BY <1>1, <2>2 DEF CmpHanded
    <3>4. CmpTyped' /\ CmpHanded' /\ CmpFollows'
      BY <1>1, <2>1, <3>1, <3>2, <3>3 DEF CmpTyped, CmpHanded, CmpFollows, CmpAccepted,
         LeftOut, TakenIn
    <3>5. ReportAccountsForAll' /\ FilesOfTheComparison'
      BY <3>2 DEF ReportAccountsForAll, FilesOfTheComparison, Success
    <3> QED BY <3>4, <3>5 DEF CmpInv
  <2>3. CASE "comparison" \notin cleaner
    BY <1>2, <2>1, <2>3 DEF cmpVars
  <2> QED BY <2>2, <2>3
<1>7. CASE RollBack
  BY <1>2, <1>7 DEF RollBack, RollBackCleanup
<1> QED BY <1>3, <1>4, <1>5, <1>6, <1>7

-----------------------------------------------------------------------------
(* The time report.                                                        *)

RepTyped ==
  /\ rep \in {"none", "queued", "running", "completed", "failed"}
  /\ repFiles \in BOOLEAN /\ repQueue \in BOOLEAN
  /\ creator \in {"idle", "flushed", "enqueued", "reject", "done"}
  /\ rw \in {"idle", "mark", "generate", "write", "store", "fail", "lost"}

\* It is made of a job that is over, so that what its worker has written stays until
\* the job is old.
RepFollows ==
  /\ creator # "idle" => ~Working /\ ~queue /\ Accepted
  /\ creator = "idle" => rep = "none" /\ ~repQueue /\ rw = "idle"
  /\ rw = "store" \/ rep = "completed" => repFiles \/ old

RepInv == RepTyped /\ RepFollows

\* A job that is over only grows old.
LEMMA TheJobIsOver ==
  ASSUME JobStep, ~Working, ~queue, Accepted
  PROVE  old' = TRUE /\ UNCHANGED <<queue, api, wk>>
BY DEF JobStep, Enqueue, Reject, WorkerStep, Take, Prepare, StartStage, SkipStage, RunStage,
   FinishStage, FailStage, StartSecondCollector, Collect, ApplyCollector, FinishCollector,
   GoOnWithBoth, FallBack, CompletePipeline, Raise, Kill, Age, At, Working, Accepted

LEMMA JobStepSparesReports ==
  ASSUME RepInv, JobStep, UNCHANGED repVars
  PROVE  RepInv'
<1>1. UNCHANGED <<rep, repFiles, repQueue, creator, rw>>
  BY DEF repVars
<1>2. CASE creator = "idle"
  BY <1>1, <1>2 DEF RepInv, RepTyped, RepFollows
<1>3. CASE creator # "idle"
  <2>1. ~Working /\ ~queue /\ Accepted
    BY <1>3 DEF RepInv, RepFollows
  <2>2. old' = TRUE /\ UNCHANGED <<queue, api, wk>>
    BY <2>1, TheJobIsOver
  <2> QED BY <1>1, <2>1, <2>2 DEF RepInv, RepTyped, RepFollows, Working, Accepted
<1> QED BY <1>2, <1>3

\* Other steps leave it alone that neither move the job's worker nor touch its files.
LEMMA OthersSpareReports ==
  ASSUME RepInv, UNCHANGED <<old, queue, api, wk, repVars>>
  PROVE  RepInv'
BY DEF RepInv, RepTyped, RepFollows, repVars, Working, Accepted

LEMMA ReportStepsKeep ==
  ASSUME RepInv, FlushReport \/ EnqueueReport \/ CommitReport \/ ReportStep \/ LoseReport
  PROVE  RepInv'
<1>1. UNCHANGED <<old, queue, api, wk>>
  BY DEF FlushReport, EnqueueReport, CommitReport, ReportStep, LoseReport, FetchReport,
     MarkReportRunning, ReadComments, WriteReportFiles, StoreReport, Around, vars
<1>2. Working' = Working /\ Accepted' = Accepted
  BY <1>1 DEF Working, Accepted
<1>3. CASE FlushReport
  BY <1>1, <1>2, <1>3 DEF RepInv, RepTyped, RepFollows, FlushReport, NothingMade, JobIsOver,
     Accepted
<1>4. CASE EnqueueReport
  BY <1>1, <1>2, <1>4 DEF RepInv, RepTyped, RepFollows, EnqueueReport
<1>5. CASE CommitReport
  BY <1>1, <1>2, <1>5 DEF RepInv, RepTyped, RepFollows, CommitReport
<1>6. CASE FetchReport
  BY <1>1, <1>2, <1>6 DEF RepInv, RepTyped, RepFollows, FetchReport
<1>7. CASE MarkReportRunning
  BY <1>1, <1>2, <1>7 DEF RepInv, RepTyped, RepFollows, MarkReportRunning, SetReport
<1>8. CASE ReadComments
  BY <1>1, <1>2, <1>8 DEF RepInv, RepTyped, RepFollows, ReadComments
<1>9. CASE WriteReportFiles
  <2>1. /\ rw = "write" /\ rw' \in {"store", "fail"} /\ UNCHANGED <<rep, repQueue, creator>>
        /\ repFiles' = TRUE \/ (repFiles' = repFiles /\ rw' = "fail")
    BY <1>9 DEF WriteReportFiles
  <2>2. RepTyped' /\ creator # "idle"
    BY <2>1 DEF RepInv, RepTyped, RepFollows
  <2>3. CASE repFiles' = TRUE
    BY <1>1, <1>2, <2>1, <2>2, <2>3 DEF RepInv, RepFollows
  <2>4. CASE repFiles' = repFiles /\ rw' = "fail"
    BY <1>1, <1>2, <2>1, <2>2, <2>4 DEF RepInv, RepFollows
  <2> QED BY <2>1, <2>3, <2>4
<1>10. CASE StoreReport
  BY <1>1, <1>2, <1>10 DEF RepInv, RepTyped, RepFollows, StoreReport, SetReport
<1>11. CASE LoseReport
  BY <1>1, <1>2, <1>11 DEF RepInv, RepTyped, RepFollows, LoseReport
<1> QED BY <1>3, <1>4, <1>5, <1>6, <1>7, <1>8, <1>9, <1>10, <1>11 DEF ReportStep

\* The cleanup takes the files of a report with those of its job, which is old.
LEMMA CleanupSparesReports ==
  ASSUME RepInv, RemoveJobFiles \/ RemoveComparisonFiles \/ Commit \/ RollBack
  PROVE  RepInv'
<1>1. CASE RemoveJobFiles
  BY <1>1 DEF RepInv, RepTyped, RepFollows, RemoveJobFiles, RemoveFiles, Working, Accepted
<1>2. CASE RemoveComparisonFiles
  BY <1>2, OthersSpareReports DEF RemoveComparisonFiles
<1>3. CASE Commit
  BY <1>3 DEF RepInv, RepTyped, RepFollows, Commit, CommitCleanup, Working, Accepted
<1>4. CASE RollBack
  BY <1>4, OthersSpareReports DEF RollBack, RollBackCleanup
<1> QED BY <1>1, <1>2, <1>3, <1>4

-----------------------------------------------------------------------------
(* All of it.                                                              *)

ResInv == JobInv /\ CmpInv /\ RepInv

LEMMA ResultsBegin == ResInit => ResInv
<1> SUFFICES ASSUME ResInit PROVE ResInv
  OBVIOUS
<1>1. JobInv
  BY JobBegins DEF ResInit
<1>2. /\ cmp = [stage |-> "none", api |-> "none", compared |-> {}, excluded |-> {}]
      /\ row = [v \in Vehicle |-> [status |-> "none", reuse |-> FALSE]]
      /\ child = [v \in Vehicle |-> "none"]
      /\ copied = {} /\ listed = {} /\ cmpOld = FALSE /\ cmpQueue = FALSE
      /\ cw = Comparer("idle") /\ cleaner = {}
  BY DEF ResInit, JobInit
<1>3. cmp \in CmpRow /\ cmp.stage = "none" /\ cmp.api = "none"
  BY <1>2 DEF CmpRow, CmpStage
<1>4. /\ cw \in CwRow /\ cw.pc = "idle" /\ cw.at = 1 /\ cw.snapshots = {} /\ cw.excluded = {}
  BY <1>2, ComparerAtRest DEF CmpPC
<1>5. row \in [Vehicle -> Row] /\ child \in [Vehicle -> {"none", "queued", "completed", "failed"}]
  BY <1>2 DEF Row
<1>6. CmpTyped
  BY <1>2, <1>3, <1>4, <1>5 DEF CmpTyped
<1>7. CmpHanded
  BY <1>2, <1>3, <1>4 DEF CmpHanded, CmpAccepted
<1>8. CmpFollows
  <2>1. \A v \in Vehicle : ~(v < 1)
    BY ResultsAssumption DEF Vehicle
  <2> QED BY <1>2, <1>4, <2>1 DEF CmpFollows
<1>9. ReportAccountsForAll /\ FilesOfTheComparison
  BY <1>3 DEF ReportAccountsForAll, FilesOfTheComparison, CmpAccepted
<1>10. RepInv
  BY DEF ResInit, RepInv, RepTyped, RepFollows
<1> QED BY <1>1, <1>6, <1>7, <1>8, <1>9, <1>10 DEF ResInv, CmpInv

\* A step of the job's pipeline does not touch the comparison.
LEMMA JobStepSparesComparisons ==
  ASSUME CmpInv, JobStep, UNCHANGED cmpVars
  PROVE  CmpInv'
<1>1. UNCHANGED <<cmp, row, child, copied, listed, cmpOld, cmpQueue, cw>>
  BY DEF cmpVars
<1>2. cleaner' = cleaner
  BY DEF JobStep, Enqueue, Reject, WorkerStep, Take, Prepare, StartStage, SkipStage, RunStage,
     FinishStage, FailStage, StartSecondCollector, Collect, ApplyCollector, FinishCollector,
     GoOnWithBoth, FallBack, CompletePipeline, Raise, Kill, Age, Others
<1>3. CmpTyped' /\ CmpHanded' /\ CmpFollows' /\ FilesOfTheComparison'
  BY <1>1, <1>2 DEF CmpInv, CmpTyped, CmpHanded, CmpFollows, FilesOfTheComparison, CmpAccepted,
     LeftOut, TakenIn
<1>4. ReportAccountsForAll'
  BY <1>1 DEF CmpInv, ReportAccountsForAll, CmpAccepted, Shown, Available
<1> QED BY <1>3, <1>4 DEF CmpInv

LEMMA NobodySpares ==
  ASSUME CmpInv, UNCHANGED <<cmpVars, cleaner>>
  PROVE  CmpInv'
<1>1. UNCHANGED <<cmp, row, child, copied, listed, cmpOld, cmpQueue, cw, cleaner>>
  BY DEF cmpVars
<1>2. CmpTyped' /\ CmpHanded' /\ CmpFollows' /\ FilesOfTheComparison'
  BY <1>1 DEF CmpInv, CmpTyped, CmpHanded, CmpFollows, FilesOfTheComparison, CmpAccepted,
     LeftOut, TakenIn
<1>3. ReportAccountsForAll'
  BY <1>1 DEF CmpInv, ReportAccountsForAll, CmpAccepted, Shown, Available
<1> QED BY <1>2, <1>3 DEF CmpInv

LEMMA OthersSpareJobs ==
  ASSUME JobInv, UNCHANGED vars
  PROVE  JobInv'
BY CleanerKeeps DEF vars

LEMMA ResultsKeep == ResInv /\ [ResNext]_resVars => ResInv'
<1> SUFFICES ASSUME ResInv, [ResNext]_resVars PROVE ResInv'
  OBVIOUS
<1>1. JobInv /\ CmpInv /\ RepInv
  BY DEF ResInv
<1>2. CASE UNCHANGED resVars
  <2>1. UNCHANGED <<vars, cmpVars, repVars>> /\ UNCHANGED <<old, queue, api, wk, cleaner>>
    BY <1>2 DEF resVars, vars
  <2> QED BY <1>1, <2>1, OthersSpareJobs, NobodySpares, OthersSpareReports DEF ResInv
<1>3. CASE JobStep /\ UNCHANGED <<cmpVars, repVars>>
  BY <1>1, <1>3, JobStepKeeps, JobStepSparesComparisons, JobStepSparesReports DEF ResInv
<1>4. CASE \/ CreateComparison \/ EnqueueComparison \/ RejectComparison
           \/ ComparisonStep \/ StumbleOverVehicle \/ LoseComparison
  <2>1. UNCHANGED <<vars, repVars>>
    BY <1>4 DEF CreateComparison, EnqueueComparison, RejectComparison, ComparisonStep,
       StumbleOverVehicle, LoseComparison, TakeComparison, MarkComparisonRunning, Reuse,
       EnsureChildJob, RunChildJob, MarkCollected, CopySnapshot, CopyDownloads, ExcludeVehicle,
       JudgeSnapshots, Compare, PublishComparison, Beside
  <2>2. UNCHANGED <<old, queue, api, wk>>
    BY <2>1 DEF vars
  <2>3. JobInv' /\ RepInv'
    BY <1>1, <2>1, <2>2, OthersSpareJobs, OthersSpareReports
  <2>4. CmpInv'
    BY <1>1, <1>4, HandingKeeps, TakingKeeps, CollectingKeeps, CopySnapshotKeeps, LeavingKeeps,
       PublishingKeeps, LosingKeeps DEF ComparisonStep
  <2> QED BY <2>3, <2>4 DEF ResInv
<1>5. CASE FlushReport \/ EnqueueReport \/ CommitReport \/ ReportStep \/ LoseReport
  <2>1. UNCHANGED <<vars, cmpVars>>
    BY <1>5 DEF FlushReport, EnqueueReport, CommitReport, ReportStep, LoseReport, FetchReport,
       MarkReportRunning, ReadComments, WriteReportFiles, StoreReport, Around
  <2>2. UNCHANGED cleaner
    BY <2>1 DEF vars
  <2> QED BY <1>1, <1>5, <2>1, <2>2, OthersSpareJobs, NobodySpares, ReportStepsKeep DEF ResInv
<1>6. CASE AgeComparison
  <2>1. UNCHANGED <<vars, repVars>>
    BY <1>6 DEF AgeComparison
  <2>2. UNCHANGED <<old, queue, api, wk>>
    BY <2>1 DEF vars
  <2> QED BY <1>1, <1>6, <2>1, <2>2, OthersSpareJobs, OthersSpareReports, CmpCleanupKeeps
      DEF ResInv
<1>7. CASE RemoveJobFiles
  BY <1>1, <1>7, RemoveFilesKeeps, CmpCleanupKeeps, CleanupSparesReports
     DEF ResInv, RemoveJobFiles
<1>8. CASE RemoveComparisonFiles
  <2>1. JobInv'
    BY <1>1, <1>8, CleanerKeeps DEF RemoveComparisonFiles
  <2> QED BY <1>1, <1>8, <2>1, CmpCleanupKeeps, CleanupSparesReports DEF ResInv
<1>9. CASE Commit
  BY <1>1, <1>9, CommitCleanupKeeps, CmpCleanupKeeps, CleanupSparesReports DEF ResInv, Commit
<1>10. CASE RollBack
  <2>1. JobInv'
    BY <1>1, <1>10, CleanerKeeps DEF RollBack, RollBackCleanup
  <2> QED BY <1>1, <1>10, <2>1, CmpCleanupKeeps, CleanupSparesReports DEF ResInv
<1> QED BY <1>2, <1>3, <1>4, <1>5, <1>6, <1>7, <1>8, <1>9, <1>10 DEF ResNext

LEMMA ResultsStay == ResSpec => []ResInv
BY ResultsBegin, ResultsKeep, PTL DEF ResSpec

\* What create_job, the workers and the cleanup write into the tables of jobs,
\* comparisons and reports is well typed, for any number of vehicles and any faults.
THEOREM ResultsAreTyped == ResSpec => []ResultsTypeOK
<1>1. ResInv => ResultsTypeOK
  BY DEF ResInv, JobInv, CmpInv, CmpTyped, CmpRow, CwRow, RepInv, RepTyped, ResultsTypeOK
<1> QED BY <1>1, ResultsStay, PTL

\* run_job: a job that shows as completed has what it shows, whatever stage failed,
\* whoever raised or died, and whatever the cleanup did between two of its steps.
THEOREM CompletedJobsAreBacked == ResSpec => []StagesAreBacked
<1>1. ResInv => StagesAreBacked
  BY DEF ResInv, JobInv
<1> QED BY <1>1, ResultsStay, PTL

\* mark_job_failed, _stage_finished: of a job that is over at most one row still shows
\* as running, a collector's of a job that failed.
THEOREM JobsAreSettled == ResSpec => []RunsAreSettled
<1>1. ResInv => RunsAreSettled
  BY JobsSettle DEF ResInv
<1> QED BY <1>1, ResultsStay, PTL

\* run_comparison_job: a finished comparison of any number of vehicles compares two or
\* more of them and accounts for each one, in its report and in their rows.
THEOREM ComparisonsAccountForAll == ResSpec => []ReportAccountsForAll
<1>1. ResInv => ReportAccountsForAll
  BY DEF ResInv, CmpInv
<1> QED BY <1>1, ResultsStay, PTL

\* cleanup_expired_job_data and cleanup_expired_comparison_data: what a comparison or a
\* time report shows is there until it is itself old.
THEOREM ResultsKeepTheirFiles == ResSpec => []ResultsHaveFiles
<1>1. ResInv => ResultsHaveFiles
  BY DEF ResInv, CmpInv, FilesOfTheComparison, RepInv, RepFollows, ResultsHaveFiles
<1> QED BY <1>1, ResultsStay, PTL

=============================================================================
