-------------------------- MODULE CollectorService --------------------------
(***************************************************************************)
(* The collector services (collector_service/main.py), one per platform:   *)
(* an HTTP front end over an in-memory table of runs and a thread pool     *)
(* that executes them.  POST /runs registers a run and hands it to the     *)
(* pool, GET /runs/{id} reads it, POST /runs/{id}/cancel asks it to stop,  *)
(* and a restart of the process forgets everything.                        *)
(*                                                                         *)
(* An action is one critical section of _lock or one step of the executor. *)
(* A request is told apart from another by its task and its agent: the     *)
(* other fields of the fingerprint are functions of the run id.  Progress, *)
(* events and the crawl itself are left out; a crawl ends with a result    *)
(* file, without one, or with an exception.                                *)
(***************************************************************************)
EXTENDS Naturals, Sequences, FiniteSets

CONSTANTS Run, Task, Agent, Platform,
          NoTask, NoAgent, NoPlatform,
          MaxWorkers          \* COLLECTOR_SERVICE_MAX_WORKERS

ASSUME MaxWorkersIsPositive == MaxWorkers \in Nat \ {0}

VARIABLES svc,     \* _runs and _run_fingerprints: what is known of each run
          future,  \* _futures and the thread that executes it
          queue    \* the work queue of each platform's executor

svcVars == <<svc, future, queue>>

SvcTerminal == {"succeeded", "failed", "cancelled"}
SvcState == {"absent", "queued", "running", "cancel_requested"} \cup SvcTerminal

\* none: not submitted; pending: in the work queue; taken: a thread has it but
\* has not entered _execute_run's first critical section.
FutureState == {"none", "pending", "cancelled", "taken", "executing", "done"}

Entry == [state: SvcState, task: Task \cup {NoTask}, agent: Agent \cup {NoAgent},
          platform: Platform \cup {NoPlatform}, output: BOOLEAN]
NoEntry == [state |-> "absent", task |-> NoTask, agent |-> NoAgent,
            platform |-> NoPlatform, output |-> FALSE]

SvcTypeOK ==
  /\ svc \in [Run -> Entry]
  /\ future \in [Run -> FutureState]
  /\ queue \in [Platform -> Seq(Run)]

SvcInit ==
  /\ svc = [r \in Run |-> NoEntry]
  /\ future = [r \in Run |-> "none"]
  /\ queue = [p \in Platform |-> <<>>]

-----------------------------------------------------------------------------
Known(r) == svc[r].state # "absent"
SameRequest(r, t, a) == svc[r].task = t /\ svc[r].agent = a

\* A POST /runs that registers without looking for an existing run.
Register_Again(r, t, a, p) ==
  /\ svc' = [svc EXCEPT ![r] = [state |-> "queued", task |-> t, agent |-> a,
                                platform |-> p, output |-> FALSE]]
  /\ UNCHANGED <<future, queue>>

\* POST /runs of an unknown run id: register it.
Register(r, t, a, p) ==
  /\ ~Known(r)
  /\ svc' = [svc EXCEPT ![r] = [state |-> "queued", task |-> t, agent |-> a,
                                platform |-> p, output |-> FALSE]]
  /\ UNCHANGED <<future, queue>>

\* A handler that hands a run over without it reaching the queue.
Enqueue_Drop(r) ==
  /\ Known(r)
  /\ future[r] = "none"
  /\ future' = [future EXCEPT ![r] = "cancelled"]
  /\ UNCHANGED <<svc, queue>>

\* The same handler, after it released the lock: hand the run to the executor.
Enqueue(r) ==
  /\ Known(r)
  /\ future[r] = "none"
  /\ future' = [future EXCEPT ![r] = "pending"]
  /\ queue' = [queue EXCEPT ![svc[r].platform] = Append(@, r)]
  /\ UNCHANGED svc

-----------------------------------------------------------------------------
Busy(p) == {r \in Run : svc[r].platform = p /\ future[r] \in {"taken", "executing"}}

\* A pool thread takes the next work item; one whose future was cancelled is
\* dropped without running anything.
Take(p) ==
  /\ queue[p] # <<>>
  /\ Cardinality(Busy(p)) < MaxWorkers
  /\ queue' = [queue EXCEPT ![p] = Tail(@)]
  /\ LET r == Head(queue[p])
     IN  future' = [future EXCEPT ![r] = IF @ = "pending" THEN "taken" ELSE @]
  /\ UNCHANGED svc

\* The thread enters _execute_run.
Begin(r) ==
  /\ future[r] = "taken"
  /\ IF svc[r].state = "cancel_requested"
     THEN /\ svc' = [svc EXCEPT ![r].state = "cancelled"]
          /\ future' = [future EXCEPT ![r] = "done"]
     ELSE /\ svc' = [svc EXCEPT ![r].state = "running"]
          /\ future' = [future EXCEPT ![r] = "executing"]
  /\ UNCHANGED queue

\* A completion that overlooks a cancellation requested meanwhile.
FinishWithResult_IgnoreCancel(r, path) ==
  /\ future[r] = "executing"
  /\ future' = [future EXCEPT ![r] = "done"]
  /\ svc' = [svc EXCEPT ![r].state = "succeeded", ![r].output = path]
  /\ UNCHANGED queue

\* The crawl returned; path says whether the result names an output file.
FinishWithResult(r, path) ==
  /\ future[r] = "executing"
  /\ future' = [future EXCEPT ![r] = "done"]
  /\ svc' = IF svc[r].state = "cancel_requested"
            THEN [svc EXCEPT ![r].state = "cancelled"]
            ELSE [svc EXCEPT ![r].state = "succeeded", ![r].output = path]
  /\ UNCHANGED queue

\* A failure that stores its category as the state.
FinishWithError_Category(r) ==
  /\ future[r] = "executing"
  /\ future' = [future EXCEPT ![r] = "done"]
  /\ svc' = [svc EXCEPT ![r].state = "timeout"]
  /\ UNCHANGED queue

\* The crawl raised, or its artifacts did not appear in time.
FinishWithError(r) ==
  /\ future[r] = "executing"
  /\ future' = [future EXCEPT ![r] = "done"]
  /\ svc' = [svc EXCEPT ![r].state = "failed"]
  /\ UNCHANGED queue

-----------------------------------------------------------------------------
\* POST /runs/{run_id}/cancel; a terminal run answers 409.
CancelRun(r) ==
  /\ Known(r)
  /\ svc[r].state \notin SvcTerminal
  /\ svc' = [svc EXCEPT ![r].state = "cancel_requested"]
  /\ future' = [future EXCEPT ![r] = IF @ = "pending" THEN "cancelled" ELSE @]
  /\ UNCHANGED queue

\* The process of platform p dies and comes back with empty tables.
Restart(p) ==
  /\ svc' = [r \in Run |-> IF svc[r].platform = p THEN NoEntry ELSE svc[r]]
  /\ future' = [r \in Run |-> IF svc[r].platform = p THEN "none" ELSE future[r]]
  /\ queue' = [queue EXCEPT ![p] = <<>>]

-----------------------------------------------------------------------------
Crawl(r) == (\E path \in BOOLEAN : FinishWithResult(r, path)) \/ FinishWithError(r)

SvcStep ==
  \/ \E r \in Run : Enqueue(r) \/ Begin(r) \/ Crawl(r)
  \/ \E p \in Platform : Take(p)

SvcNext ==
  \/ \E r \in Run, t \in Task, a \in Agent \cup {NoAgent}, p \in Platform :
       Register(r, t, a, p)
  \/ SvcStep
  \/ \E r \in Run : CancelRun(r)
  \/ \E p \in Platform : Restart(p)

\* Handler and pool threads are scheduled by the operating system and a crawl
\* ends: OpenClaw calls and the artifact wait have timeouts.
SvcFairness ==
  /\ \A r \in Run : WF_svcVars(Enqueue(r)) /\ WF_svcVars(Begin(r)) /\ WF_svcVars(Crawl(r))
  /\ \A p \in Platform : WF_svcVars(Take(p))

SvcSpec == SvcInit /\ [][SvcNext]_svcVars /\ SvcFairness

-----------------------------------------------------------------------------
(* Properties.                                                             *)

\* A run that reached a terminal state keeps it for as long as the process
\* lives: a poll that saw the result and a later poll agree; and a run whose
\* cancellation was accepted is never reported as succeeded.
TerminalIsStable ==
  [][\A r \in Run :
       /\ svc[r].state \in SvcTerminal => svc'[r].state \in {svc[r].state, "absent"}
       /\ svc[r].state = "cancel_requested" => svc'[r].state # "succeeded"]_svcVars

\* Nothing accepted is forgotten while the process lives: a queued run is on its
\* way to a thread, and a run is running exactly while a thread executes it.
NoRunIsLost ==
  \A r \in Run :
    /\ svc[r].state = "queued" =>
         \/ future[r] \in {"none", "taken"}
         \/ future[r] = "pending" /\ \E i \in DOMAIN queue[svc[r].platform] :
                                        queue[svc[r].platform][i] = r
    /\ svc[r].state = "running" => future[r] = "executing"
    /\ future[r] = "executing" => svc[r].state \in {"running", "cancel_requested"}

\* Every accepted run is executed to an end unless somebody cancels it or the
\* process restarts.
QueuedRunEnds ==
  \A r \in Run : svc[r].state = "queued" ~>
                   svc[r].state \in SvcTerminal \cup {"cancel_requested", "absent"}
=============================================================================
