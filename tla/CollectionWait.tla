--------------------------- MODULE CollectionWait ---------------------------
(***************************************************************************)
(* How a single-vehicle task gets its platforms collected: the first half  *)
(* of run_single_vehicle_task (worker_app/temporal_workflows.py) with the  *)
(* activities it calls (worker_app/temporal_activities.py), over the store *)
(* of RunStore and the services of CollectorService.  A task creates or    *)
(* joins one run per platform, then loops in wait_for_collection_runs:     *)
(* claim an agent for each dispatchable run, POST the claimed ones, poll   *)
(* the running ones, until all are final or the deadline passes.           *)
(*                                                                         *)
(* Tasks run on any worker replica, so between two transactions or HTTP    *)
(* calls of one task any other may act, on the same runs too.  An action   *)
(* is one transaction, one side of an HTTP call, or one decision.          *)
(***************************************************************************)
EXTENDS RunStore, Sequences

CONSTANTS Platform, NoTask, NoPlatform, MaxWorkers,
          KeysOf,        \* per task, the identities to collect, in PLATFORMS order
          PlatformOf,    \* the platform of a key
          Pool,          \* per platform, OPENCLAW_*_AGENT_IDS; <<>> when unset
          ServiceAgent,  \* per platform, "collector-service:<platform>"
          Faults,        \* what may go wrong in this instance
          MaxCrashes     \* bound: worker crashes in a behaviour

ASSUME WaitAssumption ==
  /\ KeysOf \in [Task -> Seq(Key) \ {<<>>}]
  /\ PlatformOf \in [Key -> Platform]
  /\ Pool \in [Platform -> Seq(Agent)]
  /\ ServiceAgent \in [Platform -> Agent]
  /\ Faults \subseteq {"deadline", "network", "restart", "crash", "cancel"}
  /\ MaxCrashes \in Nat
  /\ MaxWorkers \in Nat \ {0}

VARIABLES svc, future, queue,  \* of CollectorService
          wait,     \* per task, where its workflow is and what it has read
          call,     \* per task and run, its HTTP call to the collector
          stop,     \* tasks whose workflow received the cancel signal
          crashes   \* worker crashes so far

Svc == INSTANCE CollectorService
serviceVars == <<svc, future, queue>>
vars == <<storeVars, serviceVars, wait, call, stop, crashes>>

Joining == {"find", "insert", "joined"}
Waiting == {"load", "claim", "take", "giveup", "conflict", "calls", "expire", "returned"}
Ended == {"done", "cancelled"}
PC == Joining \cup Waiting \cup {"cancelling", "detaching"} \cup Ended

\* What the activity is loading the runs for.
Stage == {"dispatch", "poll", "results", "expire", "final"}

Answer == Svc!SvcState \cup {"error"}
Call == [at: {"idle", "claimed", "post", "open", "get", "answer"},
         answer: Answer, output: BOOLEAN]
Idle == [at |-> "idle", answer |-> "absent", output |-> FALSE]
At(where) == [Idle EXCEPT !.at = where]
Answered(state, out) == [at |-> "answer", answer |-> state, output |-> out]

WaitTypeOK ==
  /\ StoreTypeOK
  /\ Svc!SvcTypeOK
  /\ wait \in [Task -> [pc: PC, stage: Stage, mine: Seq(Run), run: Run \cup {NoRun},
                        agent: Agent \cup {NoAgent}, read: Nat, todo: Seq(Run),
                        won: SUBSET Run]]
  /\ call \in [Task -> [Run -> Call]]
  /\ stop \subseteq Task
  /\ crashes \in 0 .. MaxCrashes

WaitInit ==
  /\ StoreInit
  /\ Svc!SvcInit
  /\ wait = [t \in Task |-> [pc |-> "find", stage |-> "dispatch", mine |-> <<>>,
                             run |-> NoRun, agent |-> NoAgent, read |-> 0,
                             todo |-> <<>>, won |-> {}]]
  /\ call = [t \in Task |-> [r \in Run |-> Idle]]
  /\ stop = {}
  /\ crashes = 0

-----------------------------------------------------------------------------
Is(t, where) == wait[t].pc = where
Go(t, where) == wait' = [wait EXCEPT ![t].pc = where]
Todo(t) == Head(wait[t].todo)
RunPlatform(r) == PlatformOf[run[r].key]
Mine(t) == {wait[t].mine[i] : i \in DOMAIN wait[t].mine}

\* Start loading the task's runs for stage s: nothing else of w survives.
Reload(w, s) == [pc |-> "load", stage |-> s, mine |-> w.mine, run |-> NoRun,
                 agent |-> NoAgent, read |-> 0, todo |-> <<>>, won |-> {}]

Pop(t) == [wait[t] EXCEPT !.pc = "claim", !.agent = NoAgent, !.todo = Tail(@)]
Become(t, w) == wait' = [wait EXCEPT ![t] = w]

StoreOnly == UNCHANGED <<serviceVars, call, stop, crashes>>
LocalOnly == UNCHANGED <<storeVars, serviceVars, call, stop, crashes>>

-----------------------------------------------------------------------------
(* create_or_join_collection_run, one platform after the other.            *)
NextKey(t) == KeysOf[t][Len(wait[t].mine) + 1]

FindActive(t) ==
  /\ Is(t, "find")
  /\ LET k == NextKey(t)
     IN  \/ \E r \in ActiveRuns(k) :
              /\ JoinRun(t, k, r)
              /\ Become(t, [wait[t] EXCEPT !.pc = "joined", !.run = r])
         \/ /\ ActiveRuns(k) = {}
            /\ UNCHANGED storeVars
            /\ Go(t, "insert")
  /\ StoreOnly

Insert(t) ==
  /\ Is(t, "insert")
  /\ \E r \in Run :
       /\ CreateRun(t, NextKey(t), r)
       /\ Become(t, [wait[t] EXCEPT !.pc = "joined", !.run = r])
  /\ StoreOnly

\* The active-identity index rejected the INSERT: the second attempt, or the
\* activity's retry, starts over.
InsertRejected(t) ==
  /\ Is(t, "insert")
  /\ ActiveRuns(NextKey(t)) # {}
  /\ Go(t, "find")
  /\ LocalOnly

\* The workflow receives the activity's result and looks for a cancel signal.
ReportJoin(t) ==
  /\ Is(t, "joined")
  /\ LET joined == [wait[t] EXCEPT !.mine = Append(@, wait[t].run), !.run = NoRun]
     IN  Become(t, IF t \in stop THEN [joined EXCEPT !.pc = "cancelling"]
                   ELSE IF Len(joined.mine) < Len(KeysOf[t]) THEN [joined EXCEPT !.pc = "find"]
                   ELSE Reload(joined, "dispatch"))
  /\ LocalOnly

-----------------------------------------------------------------------------
(* load_collection_runs: one transaction for each run.                     *)
Loaded(t) == Is(t, "load") /\ wait[t].read = Len(wait[t].mine)

\* Load filters that forget a status.
Wanted_NotWaiting(s) == CASE s = "dispatch" -> {"queued", "retry_wait"}
                          [] s = "poll" -> {"running"}
                          [] OTHER -> Active
Wanted_RunningIsOver(s) == CASE s = "dispatch" -> Dispatchable
                             [] s = "poll" -> {"running"}
                             [] OTHER -> Dispatchable

\* The statuses a stage does something about.
Wanted(s) == CASE s = "dispatch" -> Dispatchable
               [] s = "poll" -> {"running"}
               [] OTHER -> Active

LoadRun(t) ==
  /\ Is(t, "load")
  /\ wait[t].read < Len(wait[t].mine)
  /\ LET r == wait[t].mine[wait[t].read + 1]
         keep == run[r].status \in Wanted(wait[t].stage)
         success == run[r].status = "succeeded" /\ wait[t].stage \in {"results", "final"}
     IN  Become(t, [wait[t] EXCEPT !.read = @ + 1,
                                   !.todo = IF keep THEN Append(@, r) ELSE @,
                                   !.won = IF success THEN @ \cup {r} ELSE @])
  /\ LocalOnly

-----------------------------------------------------------------------------
(* _dispatch_pending_collection_runs: claim sequentially, then POST all.   *)
BeginClaims(t) ==
  /\ Loaded(t)
  /\ wait[t].stage = "dispatch"
  /\ Go(t, "claim")
  /\ LocalOnly

\* running_agent_ids_by_platform and choose_available_agent.
BusyAgents(p) == {run[r].agent : r \in {s \in Run : run[s].status = "running" /\ RunPlatform(s) = p}}
FreeAgents(p) == {i \in DOMAIN Pool[p] : Pool[p][i] \notin BusyAgents(p)}
FirstFree(p) == Pool[p][CHOOSE i \in FreeAgents(p) : \A j \in FreeAgents(p) : i <= j]

ChooseAgent(t) ==
  /\ Is(t, "claim")
  /\ wait[t].todo # <<>>
  /\ LET p == RunPlatform(Todo(t))
     IN  /\ Pool[p] # <<>>
         /\ Become(t, IF FreeAgents(p) = {}
                      THEN [wait[t] EXCEPT !.pc = "giveup"]
                      ELSE [wait[t] EXCEPT !.pc = "take", !.agent = FirstFree(p)])
  /\ LocalOnly

Claimed(t, r) == call' = [call EXCEPT ![t][r] = At("claimed")]

ClaimAgent(t) ==
  /\ Is(t, "take")
  /\ ClaimWithAgent(Todo(t), wait[t].agent)
  /\ Claimed(t, Todo(t))
  /\ Become(t, Pop(t))
  /\ UNCHANGED <<serviceVars, stop, crashes>>

LoseClaim(t) ==
  /\ Is(t, "take")
  /\ ~CanClaim(Todo(t), wait[t].agent)
  /\ Go(t, "giveup")
  /\ LocalOnly

GiveUp(t) ==
  /\ Is(t, "giveup")
  /\ MarkWaiting(Todo(t))
  /\ Become(t, Pop(t))
  /\ StoreOnly

\* _claim_run_agent of a platform without a pool.
UsesService(t) == Is(t, "claim") /\ wait[t].todo # <<>> /\ Pool[RunPlatform(Todo(t))] = <<>>
FallbackAgent(t) == ServiceAgent[RunPlatform(Todo(t))]

StartOnService(t) ==
  /\ UsesService(t)
  /\ StartRun(Todo(t), FallbackAgent(t))
  /\ IF run'[Todo(t)].status = "running" THEN Claimed(t, Todo(t)) ELSE UNCHANGED call
  /\ Become(t, Pop(t))
  /\ UNCHANGED <<serviceVars, stop, crashes>>

StartConflict(t) ==
  /\ UsesService(t)
  /\ run[Todo(t)].status \in Dispatchable
  /\ RunningOn(FallbackAgent(t)) # {}
  /\ Go(t, "conflict")
  /\ LocalOnly

AfterConflict(t) ==
  /\ Is(t, "conflict")
  /\ WaitAfterAgentConflict(Todo(t))
  /\ IF run[Todo(t)].status = "running" THEN Claimed(t, Todo(t)) ELSE UNCHANGED call
  /\ Become(t, Pop(t))
  /\ UNCHANGED <<serviceVars, stop, crashes>>

\* asyncio.gather over _submit_collection_run.
Submit(t) ==
  /\ Is(t, "claim")
  /\ wait[t].todo = <<>>
  /\ call' = [call EXCEPT ![t] = [r \in Run |->
       IF call[t][r].at = "claimed" THEN At("post") ELSE call[t][r]]]
  /\ Go(t, "calls")
  /\ UNCHANGED <<storeVars, serviceVars, stop, crashes>>

\* _poll_running_collection_runs.
Poll(t) ==
  /\ Loaded(t)
  /\ wait[t].stage = "poll"
  /\ call' = [call EXCEPT ![t] = [r \in Run |->
       IF \E i \in DOMAIN wait[t].todo : wait[t].todo[i] = r THEN At("get") ELSE call[t][r]]]
  /\ Go(t, "calls")
  /\ UNCHANGED <<storeVars, serviceVars, stop, crashes>>

CallsDone(t) ==
  /\ Is(t, "calls")
  /\ \A r \in Run : call[t][r] = Idle
  /\ Become(t, Reload(wait[t], IF wait[t].stage = "dispatch" THEN "poll" ELSE "results"))
  /\ LocalOnly

-----------------------------------------------------------------------------
(* The HTTP calls.                                                         *)
AnswerCall(t, r, a) == call' = [call EXCEPT ![t][r] = a]
Current(r) == Answered(svc[r].state, svc[r].output)
Failed == Answered("error", FALSE)

\* agent_id of _collector_request.
RequestAgent(r) == IF run[r].agent = ServiceAgent[RunPlatform(r)] THEN NoAgent ELSE run[r].agent

CallOnly == UNCHANGED <<storeVars, wait, stop, crashes>>

\* create_run, first half: register an unknown run, answer for a known one,
\* with 409 if the request differs.
Post(t, r) ==
  /\ call[t][r].at = "post"
  /\ \/ /\ Svc!Register(r, t, RequestAgent(r), RunPlatform(r))
        /\ AnswerCall(t, r, At("open"))
     \/ /\ Svc!Known(r)
        /\ AnswerCall(t, r, IF Svc!SameRequest(r, t, RequestAgent(r)) THEN Current(r) ELSE Failed)
        /\ UNCHANGED serviceVars
  /\ CallOnly

\* create_run, second half, once the run is with the executor.
PostAnswered(t, r) ==
  /\ call[t][r].at = "open"
  /\ future[r] # "none"
  /\ AnswerCall(t, r, Current(r))
  /\ UNCHANGED serviceVars
  /\ CallOnly

\* get_run; an unknown run is a 404.
Get(t, r) ==
  /\ call[t][r].at = "get"
  /\ AnswerCall(t, r, IF Svc!Known(r) THEN Current(r) ELSE Failed)
  /\ UNCHANGED serviceVars
  /\ CallOnly

\* A write that takes a result without a file for a success.
Record_NoOutputCheck(r, c) ==
  CASE c.answer \in {"queued", "running"} -> UNCHANGED storeVars
    [] c.answer = "succeeded" -> CompleteRun(r)
    [] OTHER -> FailRun(r)

\* A write that hopes an error will pass.
Record_IgnoreErrors(r, c) ==
  CASE c.answer \in {"queued", "running", "error"} -> UNCHANGED storeVars
    [] c.answer = "succeeded" /\ c.output -> CompleteRun(r)
    [] OTHER -> FailRun(r)

\* What an answered call does to the run: an exception fails it, otherwise
\* _apply_collector_status writes what the collector said.
Record(r, c) ==
  CASE c.answer \in {"queued", "running"} -> UNCHANGED storeVars
    [] c.answer = "succeeded" /\ c.output -> CompleteRun(r)
    [] OTHER -> FailRun(r)

\* The end of _submit_collection_run and of _poll_collection_run.
Apply(t, r) ==
  /\ call[t][r].at = "answer"
  /\ Record(r, call[t][r])
  /\ AnswerCall(t, r, Idle)
  /\ UNCHANGED <<serviceVars, wait, stop, crashes>>

-----------------------------------------------------------------------------
(* _collection_run_results and the end of the wait.                        *)
NextRound(t) ==
  /\ Loaded(t)
  /\ wait[t].stage = "results"
  /\ IF wait[t].todo = <<>> THEN Go(t, "returned")
     ELSE Become(t, Reload(wait[t], "dispatch"))
  /\ LocalOnly

\* The deadline has passed with runs still pending.
Deadline(t) ==
  /\ "deadline" \in Faults
  /\ Loaded(t)
  /\ wait[t].stage = "results"
  /\ wait[t].todo # <<>>
  /\ Become(t, Reload(wait[t], "expire"))
  /\ LocalOnly

\* _fail_pending_collection_runs, on the statuses it has loaded.
BeginExpire(t) ==
  /\ Loaded(t)
  /\ wait[t].stage = "expire"
  /\ Go(t, "expire")
  /\ LocalOnly

\* An expiry that forgets the last run of its list.
Expire_LeaveOne(t) ==
  /\ Is(t, "expire")
  /\ wait[t].todo # <<>>
  /\ IF Len(wait[t].todo) > 1 THEN FailRun(Todo(t)) ELSE UNCHANGED storeVars
  /\ Become(t, [wait[t] EXCEPT !.todo = Tail(@)])
  /\ StoreOnly

Expire(t) ==
  /\ Is(t, "expire")
  /\ wait[t].todo # <<>>
  /\ FailRun(Todo(t))
  /\ Become(t, [wait[t] EXCEPT !.todo = Tail(@)])
  /\ StoreOnly

EndExpire(t) ==
  /\ Is(t, "expire")
  /\ wait[t].todo = <<>>
  /\ Become(t, Reload(wait[t], "final"))
  /\ LocalOnly

ReturnFinal(t) ==
  /\ Loaded(t)
  /\ wait[t].stage = "final"
  /\ Go(t, "returned")
  /\ LocalOnly

\* The workflow receives the results and looks for a cancel signal.
EndWait(t) ==
  /\ Is(t, "returned")
  /\ Go(t, IF t \in stop THEN "cancelling" ELSE "done")
  /\ LocalOnly

-----------------------------------------------------------------------------
(* _cancel_if_requested: cancel_task_and_detach_runs.                      *)
RequestCancel(t) ==
  /\ "cancel" \in Faults
  /\ t \notin stop
  /\ wait[t].pc \notin Ended
  /\ stop' = stop \cup {t}
  /\ UNCHANGED <<storeVars, serviceVars, wait, call, crashes>>

ReadRuns(t) ==
  /\ Is(t, "cancelling")
  /\ CancelRead(t)
  /\ Go(t, "detaching")
  /\ StoreOnly

Detach(t) ==
  /\ Is(t, "detaching")
  /\ CancelCommit(t)
  /\ Go(t, "cancelled")
  /\ StoreOnly

-----------------------------------------------------------------------------
(* Faults.                                                                 *)

\* The worker dies; Temporal starts the activity over on another one.
Restarted(w) ==
  CASE w.pc \in Joining -> [w EXCEPT !.pc = "find", !.run = NoRun]
    [] w.pc \in Waiting -> Reload(w, "dispatch")
    [] OTHER -> [w EXCEPT !.pc = "cancelling"]

Crash(t) ==
  /\ "crash" \in Faults
  /\ crashes < MaxCrashes
  /\ wait[t].pc \in (Joining \cup Waiting \cup {"detaching"}) \ {"find"}
  /\ crashes' = crashes + 1
  /\ Become(t, Restarted(wait[t]))
  /\ call' = [call EXCEPT ![t] = [r \in Run |-> Idle]]
  /\ IF Is(t, "detaching") THEN CancelAbort(t) ELSE UNCHANGED storeVars
  /\ UNCHANGED <<serviceVars, stop>>

\* A request or its answer is lost, or the answer takes longer than the
\* client's timeout.
LoseCall(t, r) ==
  /\ "network" \in Faults
  /\ call[t][r].at \in {"post", "open", "get"}
  /\ AnswerCall(t, r, Failed)
  /\ UNCHANGED serviceVars
  /\ CallOnly

\* A collector service restarts: the connections it held break.
RestartService(p) ==
  /\ "restart" \in Faults
  /\ Svc!Restart(p)
  /\ call' = [t \in Task |-> [r \in Run |->
       IF call[t][r].at = "open" /\ svc[r].platform = p THEN Failed ELSE call[t][r]]]
  /\ CallOnly

-----------------------------------------------------------------------------
TaskStep(t) ==
  \/ FindActive(t) \/ Insert(t) \/ InsertRejected(t) \/ ReportJoin(t)
  \/ LoadRun(t) \/ BeginClaims(t) \/ ChooseAgent(t) \/ ClaimAgent(t) \/ LoseClaim(t)
  \/ GiveUp(t) \/ StartOnService(t) \/ StartConflict(t) \/ AfterConflict(t)
  \/ Submit(t) \/ Poll(t) \/ CallsDone(t) \/ NextRound(t)
  \/ BeginExpire(t) \/ Expire(t) \/ EndExpire(t) \/ ReturnFinal(t) \/ EndWait(t)
  \/ ReadRuns(t) \/ Detach(t)

CallStep(t, r) == Post(t, r) \/ PostAnswered(t, r) \/ Get(t, r) \/ Apply(t, r)

ServiceStep == Svc!SvcStep /\ UNCHANGED <<storeVars, wait, call, stop, crashes>>

Fault ==
  \/ \E t \in Task : Deadline(t) \/ RequestCancel(t) \/ Crash(t)
  \/ \E t \in Task, r \in Run : LoseCall(t, r)
  \/ \E p \in Platform : RestartService(p)

WaitNext ==
  \/ \E t \in Task : TaskStep(t)
  \/ \E t \in Task, r \in Run : CallStep(t, r)
  \/ ServiceStep
  \/ Fault

\* Temporal keeps running a workflow's activities, a thread serves each HTTP
\* call, and the executors of the services run as in CollectorService.
WaitFairness ==
  /\ \A t \in Task : WF_vars(TaskStep(t))
  /\ \A t \in Task, r \in Run : WF_vars(CallStep(t, r))
  /\ \A r \in Run :
       /\ WF_vars(Svc!Enqueue(r) /\ UNCHANGED <<storeVars, wait, call, stop, crashes>>)
       /\ WF_vars(Svc!Begin(r) /\ UNCHANGED <<storeVars, wait, call, stop, crashes>>)
       /\ WF_vars(Svc!Crawl(r) /\ UNCHANGED <<storeVars, wait, call, stop, crashes>>)
  /\ \A p \in Platform :
       WF_vars(Svc!Take(p) /\ UNCHANGED <<storeVars, wait, call, stop, crashes>>)

WaitSpec == WaitInit /\ [][WaitNext]_vars /\ WaitFairness

-----------------------------------------------------------------------------
(* Properties.                                                             *)
Drives(t, r) == wait[t].pc \in Waiting /\ r \in Mine(t)

\* When the wait of a task is over, none of the runs it is linked to is active:
\* neither the reads it decided on nor the writes of tasks sharing a run leave
\* it a run that somebody still has to end.
EndedTaskHasNoActiveRun ==
  \A t \in Task : wait[t].pc \in {"returned"} \cup Ended => LinkedActiveRuns(t) = {}

\* Every run that holds an agent is watched by a task that will poll it or
\* expire it: no crash, cancellation or race leaks an agent.
RunningRunIsDriven ==
  \A r \in Run : run[r].status = "running" => \E t \in Task : Drives(t, r)

\* A run is POSTed by the one task that claimed it: no two tasks are on their
\* way to submit it, and the collector has not heard of it before.
OneSubmitter ==
  \A t \in Task, r \in Run :
    call[t][r].at \in {"claimed", "post"} =>
      /\ ~Svc!Known(r)
      /\ \A u \in Task \ {t} : call[u][r].at \notin {"claimed", "post", "open"}

\* Two crawls never use the same OpenClaw agent at the same time.
OneCrawlPerAgent ==
  \A r, s \in Run :
    /\ future[r] = "executing" /\ future[s] = "executing"
    /\ svc[r].agent = svc[s].agent /\ svc[r].agent # NoAgent
    => r = s

\* What a task reports of its platforms is how the crawls ended.
ResultsAreTheCollectors ==
  \A t \in Task : wait[t].pc \in {"returned", "done"} =>
    \A r \in Mine(t) :
      r \in wait[t].won <=> svc[r].state = "succeeded" /\ svc[r].output

\* Two tasks that shared a run report the same result for it.
SharersAgree ==
  \A t, u \in Task :
    wait[t].pc = "done" /\ wait[u].pc = "done" =>
      wait[t].won \cap Mine(u) = wait[u].won \cap Mine(t)

\* A run is cancelled only if no other task is linked to it.
CancelSparesSharers ==
  \A r \in Run : run[r].status = "cancelled" => \A t \in Task : <<r, t>> \notin link

\* Every task that joined its runs gets its results.
EveryWaitEnds == \A t \in Task : wait[t].pc \in Waiting ~> wait[t].pc \in Ended
=============================================================================
