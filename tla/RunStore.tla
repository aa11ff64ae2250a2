------------------------------ MODULE RunStore ------------------------------
(***************************************************************************)
(* The collection_runs and collection_run_tasks tables and the operations  *)
(* of TaskStore (worker_app/task_store.py) that write them.  A task that   *)
(* needs a platform crawled creates a run or joins the active run with the *)
(* same (platform, query_key, series_id); dispatchers of any sharing task  *)
(* then claim an agent for the run, finish it or cancel it.                *)
(*                                                                         *)
(* Each action is one committed transaction, called by any worker process  *)
(* at any time with any arguments, except cancel_task_and_detach_runs: its *)
(* SELECT takes no row lock, so other transactions commit between that     *)
(* read and the writes, and the model gives it one action for each.        *)
(* Timestamps, categories, cursors and retry counters are left out.        *)
(***************************************************************************)
EXTENDS Naturals, FiniteSets

CONSTANTS Task,      \* task ids
          Run,       \* run ids new_collection_run_id may return
          Key,       \* (platform, query_key, series_id) triples
          Agent,     \* values of the agent_id column
          NoKey, NoAgent, NoRun

ASSUME NullsAreNoValues ==
  /\ NoKey \notin Key
  /\ NoAgent \notin Agent
  /\ NoRun \notin Run

VARIABLES run,       \* the collection_runs row of each run id
          link,      \* the collection_run_tasks table
          cancelTxn  \* per task, what its open cancel transaction has read

storeVars == <<run, link, cancelTxn>>

Active == {"queued", "waiting_agent", "running", "retry_wait"}
Final == {"succeeded", "failed", "cancelled"}
Dispatchable == {"queued", "waiting_agent", "retry_wait"}
RunStatus == {"absent"} \cup Active \cup Final

Row == [status: RunStatus, key: Key \cup {NoKey}, agent: Agent \cup {NoAgent},
        shared: SUBSET Task, output: BOOLEAN]
NoRow == [status |-> "absent", key |-> NoKey, agent |-> NoAgent,
          shared |-> {}, output |-> FALSE]
CancelTxn == [open: BOOLEAN, runs: SUBSET Run, remaining: [Run -> SUBSET Task]]
NoCancelTxn == [open |-> FALSE, runs |-> {}, remaining |-> [r \in Run |-> {}]]

StoreTypeOK ==
  /\ run \in [Run -> Row]
  /\ link \subseteq Run \X Task
  /\ cancelTxn \in [Task -> CancelTxn]

StoreInit ==
  /\ run = [r \in Run |-> NoRow]
  /\ link = {}
  /\ cancelTxn = [t \in Task |-> NoCancelTxn]

-----------------------------------------------------------------------------
IsActive(r) == run[r].status \in Active
IsFinal(r) == run[r].status \in Final

\* Rows the partial unique index uq_collection_run_active_identity covers.
ActiveRuns(k) == {r \in Run : IsActive(r) /\ run[r].key = k}

\* Rows the partial unique index uq_collection_run_running_agent covers.
RunningOn(a) == {r \in Run : run[r].status = "running" /\ run[r].agent = a}

-----------------------------------------------------------------------------
(* create_or_join_collection_run: the INSERT passes the active-identity    *)
(* index; an INSERT that does not changes nothing.                         *)
CreateRun_NoIndex(t, k, r) ==
  /\ run[r].status = "absent"
  /\ run' = [run EXCEPT ![r] = [status |-> "queued", key |-> k, agent |-> NoAgent,
                                shared |-> {t}, output |-> FALSE]]
  /\ link' = link \cup {<<r, t>>}
  /\ UNCHANGED cancelTxn

CreateRun(t, k, r) ==
  /\ run[r].status = "absent"
  /\ ActiveRuns(k) = {}
  /\ run' = [run EXCEPT ![r] = [status |-> "queued", key |-> k, agent |-> NoAgent,
                                shared |-> {t}, output |-> FALSE]]
  /\ link' = link \cup {<<r, t>>}
  /\ UNCHANGED cancelTxn

\* Add task t to the locked row r and link it (also attach_task_to_run).
AddSharer(t, r) ==
  /\ run' = [run EXCEPT ![r].shared = @ \cup {t}]
  /\ link' = link \cup {<<r, t>>}
  /\ UNCHANGED cancelTxn

\* create_or_join_collection_run: SELECT ... FOR UPDATE found an active run.
JoinRun(t, k, r) ==
  /\ r \in ActiveRuns(k)
  /\ AddSharer(t, r)

\* attach_task_to_run: whatever the status of the run.
AttachTask(t, r) ==
  /\ run[r].status # "absent"
  /\ AddSharer(t, r)

-----------------------------------------------------------------------------
(* Dispatch.                                                               *)

\* A start that does not write agent_id.
RunningRow_KeepAgent(row, a) == [row EXCEPT !.status = "running"]

WaitingRow(row) == [row EXCEPT !.status = "waiting_agent", !.agent = NoAgent]
RunningRow(row, a) == [row EXCEPT !.status = "running", !.agent = a]

\* mark_collection_run_waiting_agent.
MarkWaiting(r) ==
  /\ run[r].status # "absent"
  /\ run' = IF run[r].status \in {"queued", "retry_wait"}
            THEN [run EXCEPT ![r] = WaitingRow(@)]
            ELSE run
  /\ UNCHANGED <<link, cancelTxn>>

\* claim_collection_run_with_agent: the UPDATE re-checks the status under the
\* row lock and passes the running-agent index.
CanClaim(r, a) ==
  /\ run[r].status \in Dispatchable
  /\ RunningOn(a) = {}

SetRunning(r, a) ==
  /\ run' = [run EXCEPT ![r] = RunningRow(@, a)]
  /\ UNCHANGED <<link, cancelTxn>>

\* A claim that trusts the status its caller read earlier.
ClaimWithAgent_StaleStatus(r, a) ==
  /\ run[r].status # "absent"
  /\ RunningOn(a) = {}
  /\ SetRunning(r, a)

\* A claim without the running-agent index.
ClaimWithAgent_NoIndex(r, a) ==
  /\ run[r].status \in Dispatchable
  /\ SetRunning(r, a)

ClaimWithAgent(r, a) ==
  /\ CanClaim(r, a)
  /\ SetRunning(r, a)

\* start_collection_run, used for a platform with no agent pool; a row that is
\* not dispatchable is returned unchanged.
StartRun(r, a) ==
  /\ run[r].status # "absent"
  /\ run[r].status \in Dispatchable => RunningOn(a) = {}
  /\ run' = IF run[r].status \in Dispatchable
            THEN [run EXCEPT ![r] = RunningRow(@, a)]
            ELSE run
  /\ UNCHANGED <<link, cancelTxn>>

\* The second transaction of start_collection_run, after the index rejected
\* the first one.
WaitAfterAgentConflict(r) ==
  /\ run[r].status # "absent"
  /\ run' = IF run[r].status \in Dispatchable
            THEN [run EXCEPT ![r] = WaitingRow(@)]
            ELSE run
  /\ UNCHANGED <<link, cancelTxn>>

-----------------------------------------------------------------------------
(* The end of a run: both UPDATEs are unconditional.                       *)
SucceededRow(row) == [row EXCEPT !.status = "succeeded", !.output = TRUE]

CompleteRun(r) ==
  /\ run[r].status # "absent"
  /\ run' = [run EXCEPT ![r] = SucceededRow(@)]
  /\ UNCHANGED <<link, cancelTxn>>

FailRun(r) ==
  /\ run[r].status # "absent"
  /\ run' = [run EXCEPT ![r].status = "failed"]
  /\ UNCHANGED <<link, cancelTxn>>

-----------------------------------------------------------------------------
(* cancel_task_and_detach_runs.  The UPDATE of the tasks row comes first,  *)
(* and its lock admits one such transaction per task.                      *)
LinkedActiveRuns(t) == {r \in Run : <<r, t>> \in link /\ IsActive(r)}

CancelRead(t) ==
  /\ ~cancelTxn[t].open
  /\ cancelTxn' = [cancelTxn EXCEPT ![t] =
       [open |-> TRUE, runs |-> LinkedActiveRuns(t),
        remaining |-> [r \in Run |-> IF r \in LinkedActiveRuns(t)
                                     THEN run[r].shared \ {t} ELSE {}]]]
  /\ UNCHANGED <<run, link>>

\* A detach that puts the run back in the queue for the tasks that are left.
DetachedRow_Requeue(row, left) ==
  [row EXCEPT !.shared = left, !.status = IF left = {} THEN "cancelled" ELSE "queued"]

\* The row a detaching transaction leaves: the list it read minus the task.
DetachedRow(row, left) ==
  [row EXCEPT !.shared = left, !.status = IF left = {} THEN "cancelled" ELSE @]

CancelCommit(t) ==
  /\ cancelTxn[t].open
  /\ run' = [r \in Run |-> IF r \in cancelTxn[t].runs
                           THEN DetachedRow(run[r], cancelTxn[t].remaining[r])
                           ELSE run[r]]
  /\ link' = link \ (cancelTxn[t].runs \X {t})
  /\ cancelTxn' = [cancelTxn EXCEPT ![t] = NoCancelTxn]

\* The worker dies before the COMMIT.
CancelAbort(t) ==
  /\ cancelTxn[t].open
  /\ cancelTxn' = [cancelTxn EXCEPT ![t] = NoCancelTxn]
  /\ UNCHANGED <<run, link>>

-----------------------------------------------------------------------------
StoreNext ==
  \/ \E t \in Task, k \in Key, r \in Run : CreateRun(t, k, r) \/ JoinRun(t, k, r)
  \/ \E t \in Task, r \in Run : AttachTask(t, r)
  \/ \E r \in Run : MarkWaiting(r) \/ WaitAfterAgentConflict(r)
  \/ \E r \in Run, a \in Agent : ClaimWithAgent(r, a) \/ StartRun(r, a)
  \/ \E r \in Run : CompleteRun(r) \/ FailRun(r)
  \/ \E t \in Task : CancelRead(t) \/ CancelCommit(t) \/ CancelAbort(t)

StoreSpec == StoreInit /\ [][StoreNext]_storeVars

-----------------------------------------------------------------------------
(* Properties.                                                             *)

\* A (platform, query_key, series_id) is collected by one active run at a
\* time, so that tasks wanting the same series share one crawl.
OneActiveRunPerKey ==
  \A r, s \in Run :
    IsActive(r) /\ IsActive(s) /\ run[r].key = run[s].key => r = s

\* Two running runs never hold the same agent, although a dispatcher picks an
\* agent from a list of busy agents that is stale when it claims.
OneRunPerAgent ==
  \A r, s \in Run :
    /\ run[r].status = "running" /\ run[s].status = "running"
    /\ run[r].agent = run[s].agent
    => r = s

\* A running run has an agent: a NULL agent_id escapes the partial index.
RunningHasAgent == \A r \in Run : run[r].status = "running" => run[r].agent \in Agent

\* What the partial indexes are for, whoever creates, claims, retires and cancels in
\* whatever order: one active run of an identity, one running run of an agent, and
\* no running run without one.
StoreIsExclusive == OneActiveRunPerKey /\ OneRunPerAgent /\ RunningHasAgent

\* A run in a final status never becomes active again, whatever a dispatcher
\* or a cancelling task read of it before: who saw it end may rely on it.
FinalStaysFinal == [][\A r \in Run : IsFinal(r) => IsFinal(r)']_run

-----------------------------------------------------------------------------
(* The table as two lease services (module Lease).                         *)
RunOr(S) == IF S = {} THEN NoRun ELSE CHOOSE r \in S : TRUE

LaneHolder == [a \in Agent |-> RunOr(RunningOn(a))]
SlotHolder == [k \in Key |-> RunOr(ActiveRuns(k))]
FinalRuns == {r \in Run : IsFinal(r)}

Lanes == INSTANCE Lease WITH Resource <- Agent, Owner <- Run, Free <- NoRun,
                             holder <- LaneHolder, retired <- FinalRuns
Slots == INSTANCE Lease WITH Resource <- Key, Owner <- Run, Free <- NoRun,
                             holder <- SlotHolder, retired <- FinalRuns

\* The running-agent column is a lease on agents: taken when free, held by one
\* run, and given up for good when the run reaches a final status.
LanesSpec == Lanes!LeaseSpec

\* The active rows are a lease on identities.
SlotsSpec == Slots!LeaseSpec
=============================================================================
