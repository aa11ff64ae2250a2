--------------------------- MODULE OpenClawProofs ---------------------------
(***************************************************************************)
(* What OpenClawStage guarantees for any number of attempts and whatever   *)
(* may go wrong.                                                           *)
(***************************************************************************)
EXTENDS OpenClawStage, TLAPS

-----------------------------------------------------------------------------
(* The inductive invariant.                                                *)

\* No task of an attempt exists before the gateway has heard of it.
NotBegun ==
  \A a \in Attempt :
    a > Now \/ (a = Now /\ At("call")) => \A w \in Who : row[a][w] = "none"

\* The runner works on an attempt that has no result yet, and before the first
\* attempt there is none.
OpenWhileRunning ==
  /\ ~At("idle") => Now \in Attempt /\ result.as = "open"
  /\ Now \notin Attempt => result.as = "open"

\* Files do not disappear.
FilesAreThere ==
  At("validate") => \A f \in Artifact : file[f] # 0

\* An agent starts its subtask from a task that is in the table.
TasksInOrder ==
  \A a \in Attempt :
    /\ row[a]["sub"] # "none" => row[a]["main"] \notin {"none", "unlisted"}
    /\ row[a]["sub"] # "unlisted"

\* The latest attempt's subtask is younger than its acceptance.
SubtaskIsLate ==
  Now \in Attempt /\ row[Now]["sub"] # "none" => <<Now, "sub">> \in late

\* An attempt that was given up starts no subtask any more, but for a stray.
NoNewTask ==
  rn.stamp /\ EndedAs("missing") =>
    Strays # {} \/ row[Now]["main"] # "running" \/ row[Now]["sub"] # "none"

OwnInv == TasksInOrder /\ SubtaskIsLate /\ NoNewTask /\ FailureIsOwn

ClawInv ==
  ClawTypeOK /\ NotBegun /\ OpenWhileRunning /\ FilesAreThere /\ OwnInv /\ SuccessIsWhole

LEMMA ClawInitially == ClawInit => ClawInv
<1> SUFFICES ASSUME ClawInit PROVE ClawInv
  OBVIOUS
<1> USE DEF ClawInit
<1>1. 0 \in 0 .. MaxAttempts
  BY StageAssumption
<1>2. NoFiles \in [Artifact -> 0 .. MaxAttempts]
  BY <1>1 DEF NoFiles
<1>3. ClawTypeOK
  <2>1. row \in [Attempt -> [Who -> RowStatus]]
    BY DEF RowStatus
  <2>4. late \subseteq Attempt \X Who /\ quiet \subseteq Attempt
    OBVIOUS
  <2>2. rn \in [pc: PC, attempt: 0 .. MaxAttempts, id: BOOLEAN, stamp: BOOLEAN]
    BY <1>1 DEF PC
  <2>3. result \in [as: {"open", "success"} \cup Failure,
                    files: [Artifact -> 0 .. MaxAttempts], half: BOOLEAN]
    BY <1>2 DEF Open
  <2> QED
    BY <1>2, <2>1, <2>2, <2>3, <2>4 DEF ClawTypeOK
<1>4. NotBegun /\ OpenWhileRunning /\ FilesAreThere
  BY DEF NotBegun, OpenWhileRunning, FilesAreThere, At, Open
<1>5. OwnInv /\ SuccessIsWhole
  <2>1. Now \notin Attempt
    BY DEF Now, Attempt
  <2> QED
    BY <2>1 DEF OwnInv, TasksInOrder, SubtaskIsLate, NoNewTask, FailureIsOwn,
                SuccessIsWhole, EndedAs, Open, Attempt, Who
<1> QED
  BY <1>3, <1>4, <1>5 DEF ClawInv

-----------------------------------------------------------------------------
(* The steps of the runner.                                                *)

\* A result is typed as long as it is one of the known ones.
LEMMA EndType ==
  ASSUME ClawTypeOK, NEW as \in {"success"} \cup Failure, End(as)
  PROVE  /\ result' \in [as: {"open", "success"} \cup Failure,
                         files: [Artifact -> 0 .. MaxAttempts], half: BOOLEAN]
         /\ rn' \in [pc: PC, attempt: 0 .. MaxAttempts, id: BOOLEAN, stamp: BOOLEAN]
         /\ rn'.pc = "idle" /\ rn'.attempt = rn.attempt /\ rn'.stamp = rn.stamp
         /\ result'.as = as
         /\ as = "success" => result'.files = file /\ result'.half = half
<1>1. NoFiles \in [Artifact -> 0 .. MaxAttempts]
  BY StageAssumption DEF NoFiles
<1>2. CASE as = "success"
  BY <1>2 DEF ClawTypeOK, End, PC
<1>3. CASE as # "success"
  <2>1. result' = [as |-> as, files |-> NoFiles, half |-> FALSE]
    BY <1>3 DEF End, Open
  <2>2. rn' = [rn EXCEPT !.pc = "idle", !.id = FALSE]
    BY DEF End
  <2>3. rn' \in [pc: PC, attempt: 0 .. MaxAttempts, id: BOOLEAN, stamp: BOOLEAN]
        /\ rn'.pc = "idle" /\ rn'.attempt = rn.attempt /\ rn'.stamp = rn.stamp
    BY <2>2 DEF ClawTypeOK, PC
  <2>4. result' \in [as: {"open", "success"} \cup Failure,
                     files: [Artifact -> 0 .. MaxAttempts], half: BOOLEAN]
    BY <1>1, <2>1
  <2> QED
    BY <1>3, <2>1, <2>3, <2>4
<1> QED
  BY <1>2, <1>3

LEMMA GotoType ==
  ASSUME ClawTypeOK, NEW pc \in PC, Goto(pc)
  PROVE  /\ rn' \in [pc: PC, attempt: 0 .. MaxAttempts, id: BOOLEAN, stamp: BOOLEAN]
         /\ rn'.pc = pc /\ rn'.attempt = rn.attempt /\ rn'.stamp = rn.stamp
  BY DEF ClawTypeOK, Goto, PC

\* What is known of the tasks does not depend on where the runner is.
LEMMA TasksStay ==
  ASSUME OwnInv, UNCHANGED <<row, late, quiet>>,
         rn'.attempt = rn.attempt, rn'.stamp = rn.stamp, result'.as = result.as
  PROVE  OwnInv'
<1>1. Now' = Now /\ Strays' = Strays
  BY DEF Now, Strays
<1>2. TasksInOrder' /\ SubtaskIsLate' /\ NoNewTask'
  BY <1>1 DEF OwnInv, TasksInOrder, SubtaskIsLate, NoNewTask, EndedAs
<1>3. FailureIsOwn'
  BY <1>1 DEF OwnInv, FailureIsOwn, EndedAs, StatusOf, Working, Unseen
<1> QED
  BY <1>2, <1>3 DEF OwnInv

\* An attempt that goes on keeps the invariant.
LEMMA GoOn ==
  ASSUME ClawInv, NEW pc \in PC, pc \notin {"idle", "call"}, Goto(pc), UNCHANGED result, Look,
         ~At("idle"), ~At("call"), pc = "validate" => Missing = {}
  PROVE  ClawInv'
<1> USE DEF ClawInv
<1>1. /\ rn' \in [pc: PC, attempt: 0 .. MaxAttempts, id: BOOLEAN, stamp: BOOLEAN]
      /\ rn'.pc = pc /\ rn'.attempt = rn.attempt /\ rn'.stamp = rn.stamp
  BY GotoType
<1>2. UNCHANGED <<faults, row, late, quiet, file, half, capped, result>>
  BY DEF Look, agentVars
<1>3. ClawTypeOK'
  BY <1>1, <1>2 DEF ClawTypeOK
<1>4. NotBegun' /\ OpenWhileRunning'
  BY <1>1, <1>2 DEF NotBegun, OpenWhileRunning, Now, At
<1>5. FilesAreThere'
  BY <1>1, <1>2 DEF FilesAreThere, At, Missing
<1>6. OwnInv' /\ SuccessIsWhole'
  BY <1>1, <1>2, TasksStay DEF SuccessIsWhole, EndedAs, Now
<1> QED
  BY <1>3, <1>4, <1>5, <1>6

\* What FailureIsOwn and NoNewTask say of the two results that name a task.
BlameIsOwn ==
  \E x \in Attempt \X Who : StatusOf(x) = "failed" /\ (x[1] = Now \/ x \in Strays)
NoneAtWork ==
  \/ Strays # {}
  \/ /\ \A w \in Who : Working(Now, w) => Unseen(w)
     /\ row[Now]["main"] # "running" \/ row[Now]["sub"] # "none"

\* So does one that ends, if it has reasons for its result.
LEMMA EndKeeps ==
  ASSUME ClawInv, NEW as \in {"success"} \cup Failure, End(as), Look, ~At("idle"),
         as = "task_failed" /\ rn.stamp => BlameIsOwn,
         as = "missing" /\ rn.stamp => NoneAtWork,
         as = "success" =>
           /\ \A f \in Artifact : file[f] # 0
           /\ file["validation"] = Now /\ ~half => Now \notin capped
  PROVE  ClawInv'
<1> USE DEF ClawInv
<1>1. /\ result' \in [as: {"open", "success"} \cup Failure,
                      files: [Artifact -> 0 .. MaxAttempts], half: BOOLEAN]
      /\ rn' \in [pc: PC, attempt: 0 .. MaxAttempts, id: BOOLEAN, stamp: BOOLEAN]
      /\ rn'.pc = "idle" /\ rn'.attempt = rn.attempt /\ rn'.stamp = rn.stamp
      /\ result'.as = as
      /\ as = "success" => result'.files = file /\ result'.half = half
  BY EndType
<1>2. UNCHANGED <<faults, row, late, quiet, file, half, capped>>
  BY DEF Look, agentVars
<1>3. ClawTypeOK'
  BY <1>1, <1>2 DEF ClawTypeOK
<1>4. NotBegun' /\ OpenWhileRunning' /\ FilesAreThere'
  <2>1. Now \in Attempt
    BY DEF OpenWhileRunning
  <2>2. NotBegun'
    BY <1>1, <1>2 DEF NotBegun, Now, At
  <2>3. OpenWhileRunning'
    BY <1>1, <2>1 DEF OpenWhileRunning, Now, At, Attempt
  <2>4. FilesAreThere'
    BY <1>1 DEF FilesAreThere, At
  <2> QED
    BY <2>2, <2>3, <2>4
<1>5. OwnInv'
  <2>1. Now' = Now /\ Strays' = Strays
    BY <1>1, <1>2 DEF Now, Strays
  <2>2. TasksInOrder' /\ SubtaskIsLate'
    BY <1>2, <2>1 DEF OwnInv, TasksInOrder, SubtaskIsLate
  <2>3. NoNewTask'
    BY <1>1, <1>2, <2>1 DEF NoNewTask, NoneAtWork, EndedAs
  <2>4. FailureIsOwn'
    BY <1>1, <1>2, <2>1 DEF FailureIsOwn, EndedAs, BlameIsOwn, NoneAtWork, StatusOf, Working,
                            Unseen
  <2> QED
    BY <2>2, <2>3, <2>4 DEF OwnInv
<1>6. SuccessIsWhole'
  BY <1>1, <1>2 DEF SuccessIsWhole, EndedAs, Now
<1> QED
  BY <1>3, <1>4, <1>5, <1>6

LEMMA BeginKeeps == ClawInv /\ Begin => ClawInv'
<1> SUFFICES ASSUME ClawInv, Begin PROVE ClawInv'
  OBVIOUS
<1> USE DEF ClawInv
<1>1. /\ Now + 1 \in Attempt
      /\ rn' = [pc |-> "call", attempt |-> Now + 1, id |-> FALSE, stamp |-> FALSE]
      /\ result' = Open
      /\ UNCHANGED <<faults, row, late, quiet, file, half, capped>>
  BY StageAssumption DEF Begin, ClawTypeOK, Now, Attempt, Look, agentVars
<1>2. 0 \in 0 .. MaxAttempts /\ Attempt \subseteq 0 .. MaxAttempts
  BY StageAssumption DEF Attempt
<1>3. ClawTypeOK'
  <2>1. result' \in [as: {"open", "success"} \cup Failure,
                     files: [Artifact -> 0 .. MaxAttempts], half: BOOLEAN]
    BY <1>1, <1>2 DEF Open, NoFiles
  <2>2. rn' \in [pc: PC, attempt: 0 .. MaxAttempts, id: BOOLEAN, stamp: BOOLEAN]
    BY <1>1, <1>2 DEF PC
  <2> QED
    BY <1>1, <2>1, <2>2 DEF ClawTypeOK
<1>4. NotBegun'
  <2>1. \A a \in Attempt : a > Now' \/ a = Now' => a > Now
    BY <1>1 DEF Now, ClawTypeOK, Attempt
  <2> QED
    BY <1>1, <2>1 DEF NotBegun
<1>5. OpenWhileRunning' /\ FilesAreThere' /\ SuccessIsWhole'
  BY <1>1 DEF OpenWhileRunning, FilesAreThere, SuccessIsWhole, EndedAs, Open, At, Now
<1>6. OwnInv'
  <2>1. Now' > Now /\ Now' \in Attempt /\ rn'.stamp = FALSE
    BY <1>1 DEF Now, ClawTypeOK, Attempt
  <2>2. row[Now']["sub"] = "none"
    BY <2>1 DEF NotBegun, Who
  <2> QED
    BY <1>1, <2>1, <2>2 DEF OwnInv, TasksInOrder, SubtaskIsLate, NoNewTask, FailureIsOwn
<1> QED
  BY <1>3, <1>4, <1>5, <1>6

LEMMA AcceptKeeps == ClawInv /\ Accept => ClawInv'
<1> SUFFICES ASSUME ClawInv, Accept PROVE ClawInv'
  OBVIOUS
<1> USE DEF ClawInv
<1>0. Now \in Attempt /\ At("call") /\ result.as = "open"
  BY DEF Accept, OpenWhileRunning, At
<1>1. /\ \E s \in {"running", "unlisted"} : row' = [row EXCEPT ![Now]["main"] = s]
      /\ late' \subseteq {<<Now, "main">>}
      /\ UNCHANGED <<faults, quiet, file, half>>
  BY DEF Accept
<1>2. capped' \subseteq Attempt
  BY <1>0 DEF Accept, ClawTypeOK
<1>3. row' \in [Attempt -> [Who -> RowStatus]] /\ late' \subseteq Attempt \X Who
  BY <1>0, <1>1 DEF ClawTypeOK, RowStatus, Who
<1>4. /\ rn' \in [pc: PC, attempt: 0 .. MaxAttempts, id: BOOLEAN, stamp: BOOLEAN]
      /\ rn'.attempt = rn.attempt
      /\ \/ rn'.pc = "files" /\ UNCHANGED result
         \/ /\ rn'.pc = "idle" /\ result'.as = "gateway"
            /\ result' \in [as: {"open", "success"} \cup Failure,
                            files: [Artifact -> 0 .. MaxAttempts], half: BOOLEAN]
  <2>1. CASE \E id, stamp \in BOOLEAN :
               rn' = [rn EXCEPT !.pc = "files", !.id = id, !.stamp = stamp] /\ UNCHANGED result
    <3>1. PICK id \in BOOLEAN, stamp \in BOOLEAN :
            rn' = [rn EXCEPT !.pc = "files", !.id = id, !.stamp = stamp] /\ UNCHANGED result
      BY <2>1
    <3> QED
      BY <3>1 DEF ClawTypeOK, PC
  <2>2. CASE End("gateway")
    BY <2>2, EndType DEF Failure
  <2> QED
    BY <2>1, <2>2 DEF Accept
<1>5. ClawTypeOK'
  BY <1>1, <1>2, <1>3, <1>4 DEF ClawTypeOK
<1>6. NotBegun'
  <2>1. \A a \in Attempt : a > Now => row'[a] = row[a]
    BY <1>0, <1>1 DEF ClawTypeOK, Now, Attempt
  <2> QED
    BY <1>4, <2>1 DEF NotBegun, Now, At
<1>7. OpenWhileRunning' /\ FilesAreThere'
  BY <1>0, <1>4 DEF OpenWhileRunning, FilesAreThere, Now, At
<1>8. OwnInv' /\ SuccessIsWhole'
  <2>1. result'.as \in {"open", "gateway"} /\ Now' = Now
    BY <1>0, <1>4 DEF Now
  <2>2. row[Now]["sub"] = "none"
    BY <1>0 DEF NotBegun, Who
  <2>3. \A a \in Attempt : row'[a]["sub"] = row[a]["sub"]
    BY <1>1 DEF ClawTypeOK, Who
  <2>4. \A a \in Attempt : a # Now => row'[a] = row[a]
    BY <1>1 DEF ClawTypeOK
  <2> QED
    BY <1>0, <2>1, <2>2, <2>3, <2>4 DEF OwnInv, TasksInOrder, SubtaskIsLate, NoNewTask,
       FailureIsOwn, SuccessIsWhole, EndedAs
<1> QED
  BY <1>5, <1>6, <1>7, <1>8

\* The related tasks of an attempt with a time of acceptance are its own or strays.
LEMMA RelatedIsOwn ==
  ASSUME ClawTypeOK, NotBegun, rn.stamp, NEW x \in Related
  PROVE  /\ x \in Attempt \X Who /\ x \in late
         /\ x[1] = Now \/ x \in Strays
<1>1. x \in Attempt \X Who /\ StatusOf(x) # "none" /\ x \in late
  BY DEF Related, Listed
<1>2. ~(x[1] > Now)
  BY <1>1 DEF NotBegun, StatusOf
<1>3. x[1] \in Nat /\ Now \in Nat
  BY <1>1 DEF ClawTypeOK, Attempt, Now
<1> QED
  BY <1>1, <1>2, <1>3 DEF Strays

\* Without a stray, a query that finds tasks and none at work has found one of this
\* attempt, and overlooks only those it cannot find.
LEMMA NoneSeenAtWork ==
  ASSUME ClawInv, rn.stamp, At("counts"), Related # {},
         \A x \in Related : StatusOf(x) # "running"
  PROVE  NoneAtWork
<1> USE DEF ClawInv
<1> SUFFICES ASSUME Strays = {} PROVE NoneAtWork
  BY DEF NoneAtWork
<1>1. Now \in Attempt
  BY DEF OpenWhileRunning, At
<1>2. PICK v \in Who : <<Now, v>> \in Related
  <2>1. PICK x \in Related : TRUE
    OBVIOUS
  <2>2. x \in Attempt \X Who /\ x[1] = Now
    BY RelatedIsOwn
  <2> QED
    BY <2>2
<1>3. <<Now, v>> \in late /\ row[Now][v] \notin {"none", "unlisted", "running"}
  BY <1>2, RelatedIsOwn DEF Related, Listed, StatusOf
<1>4. row[Now]["main"] \notin {"none", "unlisted"}
  BY <1>1, <1>3 DEF Who, OwnInv, TasksInOrder
<1>5. ASSUME Working(Now, "main") PROVE Unseen("main")
  <2>1. row[Now]["main"] = "running"
    BY <1>4, <1>5 DEF Working
  <2>2. <<Now, "main">> \notin late
    BY <1>1, <2>1 DEF Related, Listed, NamesPaths, StatusOf, Who
  <2> QED
    BY <2>1, <2>2 DEF Unseen, StatusOf
<1>6. ASSUME Working(Now, "sub") PROVE Unseen("sub")
  <2>1. row[Now]["sub"] = "running"
    BY <1>1, <1>6 DEF Working, OwnInv, TasksInOrder
  <2>2. <<Now, "sub">> \in late
    BY <1>1, <2>1 DEF OwnInv, SubtaskIsLate
  <2>3. <<Now, "sub">> \notin Related
    BY <2>1 DEF StatusOf
  <2> QED
    BY <1>1, <2>1, <2>2, <2>3 DEF Related, Listed, NamesPaths, StatusOf, Who, Unseen
<1>7. row[Now]["main"] # "running" \/ row[Now]["sub"] # "none"
  BY <1>3 DEF Who
<1> QED
  BY <1>5, <1>6, <1>7 DEF NoneAtWork, Who

LEMMA ReadKeeps ==
  ClawInv /\ (CheckFiles \/ CheckOwnTask \/ CheckRelated \/ CheckCounts \/ Poll) => ClawInv'
<1> SUFFICES ASSUME ClawInv, CheckFiles \/ CheckOwnTask \/ CheckRelated \/ CheckCounts \/ Poll
             PROVE  ClawInv'
  OBVIOUS
<1> USE DEF ClawInv
<1>1. CASE CheckFiles
  <2>1. CASE Missing = {} 
    BY <1>1, <2>1, GoOn DEF CheckFiles, At, PC
  <2>2. CASE Missing # {} 
    BY <1>1, <2>2, GoOn DEF CheckFiles, At, PC
  <2> QED
    BY <2>1, <2>2
<1>2. CASE CheckOwnTask
  <2>1. CASE rn.id /\ row[Now]["main"] = "failed" /\ End("task_failed")
    <3>1. <<Now, "main">> \in Attempt \X Who
      BY <1>2 DEF CheckOwnTask, OpenWhileRunning, At, Who
    <3>2. BlameIsOwn
      BY <2>1, <3>1 DEF BlameIsOwn, StatusOf
    <3> QED
      BY <1>2, <2>1, <3>2, EndKeeps DEF CheckOwnTask, At, Failure
  <2>2. CASE Goto("related") /\ UNCHANGED result
    BY <1>2, <2>2, GoOn DEF CheckOwnTask, At, PC
  <2> QED
    BY <1>2, <2>1, <2>2 DEF CheckOwnTask, Unreadable
<1>3. CASE CheckRelated
  <2>1. CASE (\E x \in Related : StatusOf(x) = "failed") /\ End("task_failed")
    <3>1. rn.stamp => BlameIsOwn
      BY <2>1, RelatedIsOwn DEF BlameIsOwn
    <3> QED
      BY <1>3, <2>1, <3>1, EndKeeps DEF CheckRelated, At, Failure
  <2>2. CASE Goto("counts") /\ UNCHANGED result
    BY <1>3, <2>2, GoOn DEF CheckRelated, At, PC
  <2> QED
    BY <1>3, <2>1, <2>2 DEF CheckRelated, Unreadable
<1>4. CASE CheckCounts
  <2>1. CASE /\ Related # {} /\ \A x \in Related : StatusOf(x) # "running"
             /\ End("missing")
    <3>1. rn.stamp => NoneAtWork
      BY <1>4, <2>1, NoneSeenAtWork DEF CheckCounts
    <3> QED
      BY <1>4, <2>1, <3>1, EndKeeps DEF CheckCounts, At, Failure
  <2>2. CASE Goto("wait") /\ UNCHANGED result
    BY <1>4, <2>2, GoOn DEF CheckCounts, At, PC
  <2> QED
    BY <1>4, <2>1, <2>2 DEF CheckCounts, Unreadable
<1>5. CASE Poll
  BY <1>5, GoOn DEF Poll, At, PC
<1> QED
  BY <1>1, <1>2, <1>3, <1>4, <1>5

LEMMA StopKeeps == ClawInv /\ (Refuse \/ TimeOut \/ Validate) => ClawInv'
<1> SUFFICES ASSUME ClawInv, Refuse \/ TimeOut \/ Validate PROVE ClawInv'
  OBVIOUS
<1>1. CASE Refuse
  BY <1>1, EndKeeps DEF Refuse, At, Failure
<1>2. CASE TimeOut
  BY <1>2, EndKeeps DEF TimeOut, At, Failure
<1>3. CASE Validate
  <2>1. \A f \in Artifact : file[f] # 0
    BY <1>3 DEF ClawInv, FilesAreThere, Validate
  <2>2. CASE ~half /\ file["validation"] \in capped
    BY <1>3, <2>2, EndKeeps DEF Validate, At, Failure
  <2>3. CASE ~(~half /\ file["validation"] \in capped)
    BY <1>3, <2>1, <2>3, EndKeeps DEF Validate, At
  <2> QED
    BY <2>2, <2>3
<1> QED
  BY <1>1, <1>2, <1>3

-----------------------------------------------------------------------------
(* The steps of the agent.                                                 *)

LEMMA FileKeeps ==
  ASSUME ClawInv, NEW a \in Attempt, (\E f \in Artifact : WriteFile(a, f)) \/ FinishFile(a)
  PROVE  ClawInv'
<1> USE DEF ClawInv
<1>1. UNCHANGED <<faults, row, late, quiet, capped, rn, result>>
  BY DEF WriteFile, FinishFile, Agent
<1>2. /\ file' \in [Artifact -> 0 .. MaxAttempts] /\ half' \in BOOLEAN
      /\ \A f \in Artifact : file[f] # 0 => file'[f] # 0
  <2>1. a \in 0 .. MaxAttempts /\ a # 0
    BY StageAssumption DEF Attempt
  <2>2. CASE \E f \in Artifact : WriteFile(a, f)
    BY <2>1, <2>2 DEF WriteFile, ClawTypeOK
  <2>3. CASE FinishFile(a)
    BY <2>3 DEF FinishFile, ClawTypeOK
  <2> QED
    BY <2>2, <2>3
<1>3. ClawTypeOK'
  BY <1>1, <1>2 DEF ClawTypeOK
<1>4. OwnInv'
  BY <1>1, TasksStay
<1> QED
  BY <1>1, <1>2, <1>3, <1>4 DEF NotBegun, OpenWhileRunning, FilesAreThere, SuccessIsWhole,
                                EndedAs, Now, At

\* A task that is listed, started or ended by its agent.
TaskStep(a) == List(a) \/ StartSubtask(a) \/ \E w \in Who : EndTask(a, w)

TaskGuarantee(a) ==
  /\ UNCHANGED <<faults, file, half, capped, rn, result>>
  /\ Busy(a)
  /\ row' \in [Attempt -> [Who -> RowStatus]]
  /\ late' \subseteq Attempt \X Who /\ quiet' \subseteq Attempt
  /\ late \subseteq late' /\ late' \subseteq late \cup ({a} \X Who)
  /\ quiet \subseteq quiet'
  /\ \A b \in Attempt : b # a => row'[b] = row[b]
  /\ \A v \in Who : row[a][v] = "failed" => row'[a][v] = "failed"
  /\ row'[a]["main"] \notin {"none", "unlisted"} /\ row'[a]["sub"] # "unlisted"
  /\ row'[a]["sub"] # "none" => row[a]["sub"] # "none" \/ <<a, "sub">> \in late'

LEMMA TaskShape ==
  ASSUME ClawInv, NEW a \in Attempt, TaskStep(a)
  PROVE  TaskGuarantee(a)
<1> USE DEF ClawInv, ClawTypeOK, TaskGuarantee
<1>0. row[a]["sub"] # "unlisted"
  BY DEF OwnInv, TasksInOrder
<1>1. CASE List(a)
  BY <1>0, <1>1 DEF List, Agent, Busy, Working, Who, RowStatus
<1>2. CASE StartSubtask(a)
  BY <1>2 DEF StartSubtask, Agent, Busy, Working, Who, RowStatus
<1>3. CASE \E w \in Who : EndTask(a, w)
  <2>1. PICK w \in Who, s \in {"succeeded", "failed"} :
          /\ row[a][w] = "running"
          /\ row' = [row EXCEPT ![a][w] = s]
          /\ UNCHANGED <<faults, late, quiet, file, half, capped, rn, result>>
    BY <1>3 DEF EndTask, Agent
  <2>2. row[a]["main"] \notin {"none", "unlisted"}
    BY <2>1 DEF OwnInv, TasksInOrder, Who
  <2> QED
    BY <1>0, <2>1, <2>2 DEF Busy, Working, Who, RowStatus
<1> QED
  BY <1>1, <1>2, <1>3 DEF TaskStep

\* Nothing happens to an attempt that was given up without a stray but that its tasks
\* end.
LEMMA GivenUp ==
  ASSUME ClawInv, NEW a \in Attempt, TaskStep(a), a = Now, rn.stamp, EndedAs("missing"),
         Strays = {}
  PROVE  NoneAtWork'
<1> USE DEF ClawInv
<1>1. /\ Working(Now, "main") => row[Now]["main"] = "running" /\ <<Now, "main">> \notin late
      /\ Working(Now, "sub") => Now \in quiet
      /\ row[Now]["main"] # "running" \/ row[Now]["sub"] # "none"
  BY DEF OwnInv, FailureIsOwn, NoNewTask, Unseen, StatusOf, Who
<1>2. ~List(a)
  BY <1>1 DEF List, Working
<1>3. ~StartSubtask(a)
  BY <1>1 DEF StartSubtask
<1>4. PICK w \in Who, s \in {"succeeded", "failed"} :
        /\ row' = [row EXCEPT ![a][w] = s]
        /\ UNCHANGED <<late, quiet, rn>>
  BY <1>2, <1>3 DEF TaskStep, EndTask, Agent
<1>5. /\ row'[Now] = [row[Now] EXCEPT ![w] = s]
      /\ Now' = Now
  BY <1>4 DEF ClawTypeOK, Now
<1>6. DOMAIN row[Now] = Who
  BY DEF ClawTypeOK
<1> QED
  BY <1>1, <1>4, <1>5, <1>6 DEF NoneAtWork, Working, Unseen, StatusOf, Who

LEMMA TaskKeeps ==
  ASSUME ClawInv, NEW a \in Attempt, TaskStep(a)
  PROVE  ClawInv'
<1> USE DEF ClawInv
<1>1. TaskGuarantee(a)
  BY TaskShape
<1>2. UNCHANGED <<faults, file, half, capped, rn, result>>
  BY <1>1 DEF TaskGuarantee
<1>3. ClawTypeOK'
  BY <1>1 DEF TaskGuarantee, ClawTypeOK
<1>4. ~(a > Now) /\ ~(a = Now /\ At("call"))
  BY <1>1 DEF TaskGuarantee, NotBegun, Busy, Working
<1>5. NotBegun'
  BY <1>1, <1>4 DEF TaskGuarantee, NotBegun, Now, At
<1>6. OpenWhileRunning' /\ FilesAreThere' /\ SuccessIsWhole'
  BY <1>2 DEF OpenWhileRunning, FilesAreThere, SuccessIsWhole, EndedAs, Now, At
<1>7. TasksInOrder'
  BY <1>1 DEF TaskGuarantee, OwnInv, TasksInOrder
<1>8. SubtaskIsLate'
  <2>1. CASE a = Now
    BY <1>1, <2>1 DEF TaskGuarantee, OwnInv, SubtaskIsLate, Now
  <2>2. CASE a # Now
    BY <1>1, <2>2 DEF TaskGuarantee, OwnInv, SubtaskIsLate, Now
  <2> QED
    BY <2>1, <2>2
<1>9. NoNewTask' /\ FailureIsOwn'
  <2> SUFFICES ASSUME rn.stamp PROVE NoNewTask' /\ FailureIsOwn'
    BY <1>2 DEF NoNewTask, FailureIsOwn
  <2>1. Strays \subseteq Strays' /\ Now' = Now
    BY <1>1 DEF TaskGuarantee, Strays, Now
  <2>2. EndedAs("task_failed") => BlameIsOwn'
    <3>1. \A x \in Attempt \X Who : StatusOf(x) = "failed" => StatusOf(x)' = "failed"
      BY <1>1 DEF TaskGuarantee, StatusOf
    <3> QED
      BY <2>1, <3>1 DEF BlameIsOwn, OwnInv, FailureIsOwn
  <2>3. EndedAs("missing") => NoneAtWork'
    <3> SUFFICES ASSUME EndedAs("missing"), Strays = {} PROVE NoneAtWork'
      BY <2>1 DEF NoneAtWork
    <3>1. CASE a = Now
      BY <3>1, GivenUp
    <3>2. CASE a # Now
      <4>1. Now \in Attempt
        BY DEF OpenWhileRunning, EndedAs
      <4>2. row'[Now] = row[Now] /\ \A w \in Who : <<Now, w>> \in late' => <<Now, w>> \in late
        BY <1>1, <3>2, <4>1 DEF TaskGuarantee
      <4>3. quiet \subseteq quiet'
        BY <1>1 DEF TaskGuarantee
      <4>4. NoneAtWork
        BY DEF NoneAtWork, OwnInv, NoNewTask, FailureIsOwn
      <4> QED
        BY <2>1, <4>2, <4>3, <4>4 DEF NoneAtWork, Working, Unseen, StatusOf, Who
    <3> QED
      BY <3>1, <3>2
  <2> QED
    BY <1>2, <2>2, <2>3 DEF NoNewTask, FailureIsOwn, BlameIsOwn, NoneAtWork, EndedAs
<1> QED
  BY <1>3, <1>5, <1>6, <1>7, <1>8, <1>9 DEF OwnInv

-----------------------------------------------------------------------------
(* The theorems.                                                           *)

LEMMA ClawInductive == ClawInv /\ [ClawNext]_vars => ClawInv'
<1> SUFFICES ASSUME ClawInv, [ClawNext]_vars PROVE ClawInv'
  OBVIOUS
<1>1. CASE Begin
  BY <1>1, BeginKeeps
<1>2. CASE Accept \/ RunnerStep \/ Refuse \/ TimeOut
  BY <1>2, AcceptKeeps, ReadKeeps, StopKeeps DEF RunnerStep
<1>3. CASE AgentStep
  BY <1>3, FileKeeps, TaskKeeps DEF AgentStep, TaskStep
<1>4. CASE UNCHANGED vars
  BY <1>4, TasksStay DEF ClawInv, ClawTypeOK, NotBegun, OpenWhileRunning, FilesAreThere,
              SuccessIsWhole, EndedAs, Now, At, vars, agentVars
<1> QED
  BY <1>1, <1>2, <1>3, <1>4 DEF ClawNext

LEMMA ClawInvariant == ClawSpec => []ClawInv
  BY ClawInitially, ClawInductive, PTL DEF ClawSpec

\* What the runner and the agent write is well typed.
THEOREM ClawTypeCorrect == ClawSpec => []ClawTypeOK
<1>1. ClawInv => ClawTypeOK
  BY DEF ClawInv
<1> QED
  BY <1>1, ClawInvariant, PTL

\* However many attempts share the expected paths, one whose time of acceptance is
\* known fails with a task only if its own has failed or one that an earlier agent
\* started after that time; and unless there is such a stray, it is given up only
\* while no task works on it but those that the query cannot find.
THEOREM FailureIsAlwaysOwn == ClawSpec => []FailureIsOwn
<1>1. ClawInv => FailureIsOwn
  BY DEF ClawInv, OwnInv
<1> QED
  BY <1>1, ClawInvariant, PTL

\* A success has all the files that are expected, and if its validation file is its
\* own, a crawl that was not cut short.
THEOREM SuccessIsAlwaysWhole == ClawSpec => []SuccessIsWhole
<1>1. ClawInv => SuccessIsWhole
  BY DEF ClawInv
<1> QED
  BY <1>1, ClawInvariant, PTL
=============================================================================
