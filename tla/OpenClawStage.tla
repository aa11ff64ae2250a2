--------------------------- MODULE OpenClawStage ---------------------------
(***************************************************************************)
(* One collecting stage that is handed to an OpenClaw agent                *)
(* (worker_app/openclaw_runner.py, called by the RQ worker and, through    *)
(* collector_service/real_runner.py, by the collector services).           *)
(*                                                                         *)
(* The gateway's answer only says that the agent has begun.  From then on  *)
(* the runner polls what the crawl leaves behind: the files it expects and *)
(* the agent's own table of tasks, read one after the other while the      *)
(* agent goes on.  A later attempt at the same stage expects its files at  *)
(* the same paths, where an earlier one has left its own or, if nobody     *)
(* waits for it any more, is still writing them.  The runner tells the     *)
(* tasks of the attempts apart by one time only: when the gateway accepted *)
(* the latest.                                                             *)
(***************************************************************************)
EXTENDS Naturals, FiniteSets

CONSTANTS MaxAttempts,   \* bound: attempts at the stage
          FaultSets      \* what may go wrong together

ASSUME StageAssumption ==
  /\ MaxAttempts \in Nat \ {0}
  /\ FaultSets \subseteq SUBSET {"refuse", "lost", "sqlite", "fail", "empty", "cap", "torn",
                              "subtask", "quiet", "early", "unlisted"}

Attempt == 1 .. MaxAttempts
Artifact == {"workbook", "validation"}    \* expected_artifacts
Who == {"main", "sub"}    \* the agent's own task and one that it starts itself

VARIABLES faults,   \* one of FaultSets; never changes
          row,      \* task_runs of OpenClaw, by attempt
          late,     \* the tasks created at or after the time of the latest acceptance
          quiet,    \* attempts whose subtask's text does not name the expected paths
          file,     \* the attempt that has written each expected artifact, 0 if none
          half,     \* the validation file is half written
          capped,   \* attempts whose crawl stops after a fixed number of pages
          rn,       \* the runner, and whether the gateway's answer names the agent's
                    \* task and says when it was accepted
          result    \* how the latest attempt ended, and what it found

agentVars == <<faults, row, late, quiet, file, half, capped>>
vars == <<agentVars, rn, result>>

RowStatus == {"none", "unlisted", "running", "succeeded", "failed"}
Failure == {"gateway", "task_failed", "missing", "timeout", "partial"}
PC == {"idle", "call", "files", "status", "related", "counts", "wait", "validate"}
NoFiles == [f \in Artifact |-> 0]
Open == [as |-> "open", files |-> NoFiles, half |-> FALSE]

ClawTypeOK ==
  /\ faults \in FaultSets
  /\ row \in [Attempt -> [Who -> RowStatus]]
  /\ late \subseteq Attempt \X Who /\ quiet \subseteq Attempt
  /\ file \in [Artifact -> 0 .. MaxAttempts]
  /\ half \in BOOLEAN /\ capped \subseteq Attempt
  /\ rn \in [pc: PC, attempt: 0 .. MaxAttempts, id: BOOLEAN, stamp: BOOLEAN]
  /\ result \in [as: {"open", "success"} \cup Failure,
                 files: [Artifact -> 0 .. MaxAttempts], half: BOOLEAN]

ClawInit ==
  /\ faults \in FaultSets
  /\ row = [a \in Attempt |-> [w \in Who |-> "none"]] /\ late = {} /\ quiet = {}
  /\ file = NoFiles /\ half = FALSE /\ capped = {}
  /\ rn = [pc |-> "idle", attempt |-> 0, id |-> FALSE, stamp |-> FALSE]
  /\ result = Open

-----------------------------------------------------------------------------
Now == rn.attempt
At(pc) == rn.pc = pc
Goto(pc) == rn' = [rn EXCEPT !.pc = pc]
Look == UNCHANGED agentVars

\* The attempt ends; the files of a success are those that are there.
End(as) ==
  /\ result' = IF as = "success" THEN [as |-> as, files |-> file, half |-> half]
               ELSE [Open EXCEPT !.as = as]
  /\ rn' = [rn EXCEPT !.pc = "idle", !.id = FALSE]

\* A retry of the task, or of its run after a failure.
Begin ==
  /\ At("idle") /\ Now < MaxAttempts
  /\ rn' = [pc |-> "call", attempt |-> Now + 1, id |-> FALSE, stamp |-> FALSE]
  /\ result' = Open /\ Look

\* call_agent: the agent has begun when the gateway answers.  Its task may not be in
\* the table yet, or may have been created just before the time of acceptance.  The
\* answer may name the task and may say when it was accepted.
Accept ==
  /\ At("call")
  /\ \/ /\ row' = [row EXCEPT ![Now]["main"] = "running"]
        /\ late' \in {{<<Now, "main">>}} \cup (IF "early" \in faults THEN {{}} ELSE {})
     \/ /\ "unlisted" \in faults
        /\ row' = [row EXCEPT ![Now]["main"] = "unlisted"] /\ late' = {}
  /\ \E c \in {{}} \cup (IF "cap" \in faults THEN {{Now}} ELSE {}) : capped' = capped \cup c
  /\ \/ /\ \E id, stamp \in BOOLEAN :
             rn' = [rn EXCEPT !.pc = "files", !.id = id, !.stamp = stamp]
        /\ UNCHANGED result
     \/ "lost" \in faults /\ End("gateway")
  /\ UNCHANGED <<faults, quiet, file, half>>

\* A refusal is reported under a name of its own.
Refuse_Unclassed ==
  /\ At("call") /\ "refuse" \in faults
  /\ End("refused") /\ Look

\* No token, no connection, or an error for an answer.
Refuse ==
  /\ At("call") /\ "refuse" \in faults
  /\ End("gateway") /\ Look

-----------------------------------------------------------------------------
(* _wait_for_expected_artifacts: one round is four reads.                  *)
Missing == {f \in Artifact : file[f] = 0}

CheckFiles ==
  /\ At("files")
  /\ Goto(IF Missing = {} THEN "validate" ELSE "status")
  /\ UNCHANGED result /\ Look

\* A database that cannot be read tells nothing.
Unreadable(next) ==
  /\ "sqlite" \in faults
  /\ Goto(next) /\ UNCHANGED result

\* _read_openclaw_task_status.
CheckOwnTask ==
  /\ At("status")
  /\ \/ IF rn.id /\ row[Now]["main"] = "failed" THEN End("task_failed")
        ELSE Goto("related") /\ UNCHANGED result
     \/ Unreadable("related")
  /\ Look

StatusOf(x) == row[x[1]][x[2]]
Listed == {x \in Attempt \X Who : StatusOf(x) \notin {"none", "unlisted"}}
NamesPaths(x) == x[2] = "main" \/ x[1] \notin quiet

\* A query without the limit on created_at.
Related_AnyTime == {x \in Listed : NamesPaths(x)}

\* The tasks whose text names the expected paths, those created before the time of
\* acceptance left out if the answer tells it.
Related == {x \in Listed : NamesPaths(x) /\ (rn.stamp => x \in late)}

\* _read_related_openclaw_failure.
CheckRelated ==
  /\ At("related")
  /\ \/ IF \E x \in Related : StatusOf(x) = "failed" THEN End("task_failed")
        ELSE Goto("counts") /\ UNCHANGED result
     \/ Unreadable("counts")
  /\ Look

\* _read_related_openclaw_status_counts: nobody works on the files.
CheckCounts ==
  /\ At("counts")
  /\ \/ IF Related # {} /\ \A x \in Related : StatusOf(x) # "running"
        THEN End("missing")
        ELSE Goto("wait") /\ UNCHANGED result
     \/ Unreadable("wait")
  /\ Look

\* A runner that waits without looking at the clock.
TimeOut_Never == FALSE /\ End("timeout") /\ Look

Poll == At("wait") /\ Goto("files") /\ UNCHANGED result /\ Look
TimeOut == At("wait") /\ End("timeout") /\ Look

\* Success without a look at the validation file.
Validate_Skip == At("validate") /\ End("success") /\ Look

\* _validate_collector_output_contract of a full refresh of Dongchedi: a file that
\* cannot be parsed says nothing against the result.
Validate ==
  /\ At("validate")
  /\ End(IF ~half /\ file["validation"] \in capped
         THEN "partial" ELSE "success")
  /\ Look

-----------------------------------------------------------------------------
(* The agent.                                                              *)
Working(a, w) == row[a][w] \in {"unlisted", "running"}
Busy(a) == \E w \in Who : Working(a, w)
Agent == UNCHANGED <<faults, capped, rn, result>>

WriteFile(a, f) ==
  /\ Busy(a) /\ file[f] # a
  /\ file' = [file EXCEPT ![f] = a]
  /\ half' \in IF f # "validation" THEN {half}
               ELSE {FALSE} \cup (IF "torn" \in faults THEN {TRUE} ELSE {})
  /\ UNCHANGED <<row, late, quiet>> /\ Agent

FinishFile(a) ==
  /\ Busy(a) /\ half /\ file["validation"] = a
  /\ half' = FALSE
  /\ UNCHANGED <<row, late, quiet, file>> /\ Agent

\* The task of an agent that has begun is entered in the table.
List(a) ==
  /\ row[a]["main"] = "unlisted"
  /\ row' = [row EXCEPT ![a]["main"] = "running"]
  /\ late' = late \cup {<<a, "main">>}
  /\ UNCHANGED <<quiet, file, half>> /\ Agent

\* The contract forbids it; the subtask's text is the agent's own.
StartSubtask(a) ==
  /\ "subtask" \in faults
  /\ row[a]["main"] = "running" /\ row[a]["sub"] = "none"
  /\ row' = [row EXCEPT ![a]["sub"] = "running"]
  /\ late' = late \cup {<<a, "sub">>}
  /\ quiet' \in {quiet} \cup (IF "quiet" \in faults THEN {quiet \cup {a}} ELSE {})
  /\ UNCHANGED <<file, half>> /\ Agent

\* The contract says when a task may succeed; an agent may ignore it, and one with a
\* subtask leaves the files to that.
HasWritten(a) == ~half /\ \A f \in Artifact : file[f] = a
MaySucceed(a, w) ==
  \/ HasWritten(a)
  \/ "empty" \in faults
  \/ w = "main" /\ row[a]["sub"] # "none"

EndTask(a, w) ==
  /\ row[a][w] = "running"
  /\ \E s \in (IF MaySucceed(a, w) THEN {"succeeded"} ELSE {})
              \cup (IF "fail" \in faults THEN {"failed"} ELSE {}) :
       row' = [row EXCEPT ![a][w] = s]
  /\ UNCHANGED <<late, quiet, file, half>> /\ Agent

-----------------------------------------------------------------------------
RunnerStep ==
  \/ CheckFiles \/ CheckOwnTask \/ CheckRelated \/ CheckCounts
  \/ Poll \/ Validate

AgentStep ==
  \E a \in Attempt :
    \/ \E f \in Artifact : WriteFile(a, f)
    \/ FinishFile(a)
    \/ List(a)
    \/ StartSubtask(a)
    \/ \E w \in Who : EndTask(a, w)

ClawNext == Begin \/ Accept \/ Refuse \/ RunnerStep \/ TimeOut \/ AgentStep

\* The runner is one thread whose polls are local reads, and the deadline of its wait
\* comes.  The gateway may never answer (the timeout of a call is one for each frame,
\* whatever the frame is about), and the agent may stop anywhere.
ClawSpec == ClawInit /\ [][ClawNext]_vars /\ WF_vars(RunnerStep) /\ SF_vars(TimeOut)

-----------------------------------------------------------------------------
(* Properties.                                                             *)
EndedAs(as) == result.as = as

\* What earlier attempts' agents have started since the latest attempt was accepted.
Strays == {x \in late : x[1] < Now}

\* A task of the latest attempt that a query for later rows, by the paths, cannot find.
Unseen(w) ==
  IF w = "main" THEN StatusOf(<<Now, w>>) = "running" /\ <<Now, w>> \notin late
                ELSE Now \in quiet

\* Whom an attempt whose time of acceptance is known is blamed for.  It fails with a
\* task only if one of its own has failed, or one that an earlier attempt's agent
\* started after it was accepted; and without such a stray it is not given up as
\* without files while a task of its own that the query can find is at work, or one
\* that is still to be listed.
FailureIsOwn ==
  rn.stamp =>
    /\ EndedAs("task_failed") =>
         \E x \in Attempt \X Who : StatusOf(x) = "failed" /\ (x[1] = Now \/ x \in Strays)
    /\ EndedAs("missing") =>
         Strays # {} \/ \A w \in Who : Working(Now, w) => Unseen(w)

\* An attempt succeeds with all the files it expects; and if the validation file it
\* finds is its own, and whole, its crawl was not cut short.
SuccessIsWhole ==
  EndedAs("success") =>
    /\ \A f \in Artifact : result.files[f] # 0
    /\ result.files["validation"] = Now /\ ~result.half => Now \notin capped

\* Every attempt that the gateway has answered ends, whatever the agent does.
AttemptEnds == At("files") ~> At("idle")
=============================================================================
