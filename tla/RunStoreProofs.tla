--------------------------- MODULE RunStoreProofs ---------------------------
(***************************************************************************)
(* What RunStore guarantees for any tasks, run ids, identities and agents. *)
(***************************************************************************)
EXTENDS RunStore, TLAPS

-----------------------------------------------------------------------------
(* Type correctness.                                                       *)

\* Every operation writes well-typed rows.
LEMMA TypeStep ==
  ASSUME StoreTypeOK, [StoreNext]_storeVars
  PROVE  StoreTypeOK'
<1> USE DEF StoreTypeOK
<1>0. ASSUME NEW r \in Run, NEW row \in Row
      PROVE  [run EXCEPT ![r] = row] \in [Run -> Row]
  OBVIOUS
<1>1. ASSUME NEW t \in Task, NEW k \in Key, NEW r \in Run, CreateRun(t, k, r)
      PROVE  StoreTypeOK'
  BY <1>1 DEF CreateRun, Row, RunStatus, Active
<1>2. ASSUME NEW t \in Task, NEW r \in Run, AddSharer(t, r)
      PROVE  StoreTypeOK'
  BY <1>2 DEF AddSharer, Row
<1>3. ASSUME NEW r \in Run, MarkWaiting(r)
      PROVE  StoreTypeOK'
  <2>1. WaitingRow(run[r]) \in Row
    BY DEF WaitingRow, Row, RunStatus, Active
  <2> QED
    BY <1>0, <1>3, <2>1 DEF MarkWaiting
<1>4. ASSUME NEW r \in Run, WaitAfterAgentConflict(r)
      PROVE  StoreTypeOK'
  <2>1. WaitingRow(run[r]) \in Row
    BY DEF WaitingRow, Row, RunStatus, Active
  <2> QED
    BY <1>0, <1>4, <2>1 DEF WaitAfterAgentConflict
<1>5. ASSUME NEW r \in Run, NEW a \in Agent, ClaimWithAgent(r, a)
      PROVE  StoreTypeOK'
  BY <1>5 DEF ClaimWithAgent, SetRunning, RunningRow, Row, RunStatus, Active
<1>6. ASSUME NEW r \in Run, NEW a \in Agent, StartRun(r, a)
      PROVE  StoreTypeOK'
  BY <1>6 DEF StartRun, RunningRow, Row, RunStatus, Active
<1>7. ASSUME NEW r \in Run, CompleteRun(r)
      PROVE  StoreTypeOK'
  BY <1>7 DEF CompleteRun, SucceededRow, Row, RunStatus, Final
<1>8. ASSUME NEW r \in Run, FailRun(r)
      PROVE  StoreTypeOK'
  BY <1>8 DEF FailRun, Row, RunStatus, Final
<1>9. ASSUME NEW t \in Task, CancelRead(t)
      PROVE  StoreTypeOK'
  <2> DEFINE left == [r \in Run |-> IF r \in LinkedActiveRuns(t)
                                    THEN run[r].shared \ {t} ELSE {}]
  <2>1. left \in [Run -> SUBSET Task]
    BY DEF Row
  <2>2. LinkedActiveRuns(t) \subseteq Run
    BY DEF LinkedActiveRuns
  <2>3. [open |-> TRUE, runs |-> LinkedActiveRuns(t), remaining |-> left] \in CancelTxn
    BY <2>1, <2>2 DEF CancelTxn
  <2> QED
    BY <1>9, <2>3 DEF CancelRead
<1>10. ASSUME NEW t \in Task, CancelCommit(t)
       PROVE  StoreTypeOK'
  <2>1. cancelTxn[t].remaining \in [Run -> SUBSET Task]
    BY DEF CancelTxn
  <2>2. ASSUME NEW r \in Run
        PROVE  DetachedRow(run[r], cancelTxn[t].remaining[r]) \in Row
    BY <2>1 DEF DetachedRow, Row, RunStatus, Final
  <2>3. run' \in [Run -> Row]
    BY <1>10, <2>2 DEF CancelCommit
  <2>4. NoCancelTxn \in CancelTxn
    BY DEF NoCancelTxn, CancelTxn
  <2> QED
    BY <1>10, <2>3, <2>4 DEF CancelCommit
<1>11. ASSUME NEW t \in Task, CancelAbort(t)
       PROVE  StoreTypeOK'
  BY <1>11 DEF CancelAbort, NoCancelTxn, CancelTxn
<1>12. CASE UNCHANGED storeVars
  BY <1>12 DEF storeVars
<1> QED
  BY <1>1, <1>2, <1>3, <1>4, <1>5, <1>6, <1>7, <1>8, <1>9, <1>10, <1>11, <1>12
  DEF StoreNext, JoinRun, AttachTask

\* Every reachable state of the two tables is well typed.
THEOREM TypeCorrect == StoreSpec => []StoreTypeOK
<1>1. StoreInit => StoreTypeOK
  BY DEF StoreInit, StoreTypeOK, NoRow, Row, RunStatus, NoCancelTxn, CancelTxn
<1>2. StoreTypeOK /\ [StoreNext]_storeVars => StoreTypeOK'
  BY TypeStep
<1> QED
  BY <1>1, <1>2, PTL DEF StoreSpec

-----------------------------------------------------------------------------
(* The three things a step can do to the standing of the runs.             *)

\* The row of r keeps everything a lease depends on.
SameStanding(r) ==
  /\ IsActive(r)' <=> IsActive(r)
  /\ IsFinal(r)' <=> IsFinal(r)
  /\ IsActive(r) => run'[r].key = run[r].key
  /\ run'[r].status = "running" <=> run[r].status = "running"
  /\ run[r].status = "running" => run'[r].agent = run[r].agent

\* The runs of S end; with S empty nobody notices the step.
Retiring(S) ==
  /\ \A r \in S : IsFinal(r)'
  /\ \A r \in Run \ S : SameStanding(r)

\* Run r gets the free agent a.
Claiming(r, a) ==
  /\ run[r].status \in Dispatchable
  /\ RunningOn(a) = {}
  /\ run'[r].status = "running" /\ run'[r].agent = a /\ run'[r].key = run[r].key
  /\ \A s \in Run \ {r} : SameStanding(s)

\* Run r is inserted for the free identity k.
Creating(r, k) ==
  /\ run[r].status = "absent"
  /\ ActiveRuns(k) = {}
  /\ run'[r].status = "queued" /\ run'[r].key = k
  /\ \A s \in Run \ {r} : SameStanding(s)

StepKind ==
  \/ \E S \in SUBSET Run : Retiring(S)
  \/ \E r \in Run, a \in Agent : Claiming(r, a)
  \/ \E r \in Run, k \in Key : Creating(r, k)

\* A transaction ends runs, claims one or creates one: nothing else matters here.
LEMMA EveryStepHasAKind ==
  ASSUME StoreTypeOK, [StoreNext]_storeVars
  PROVE  StepKind
<1> USE DEF StoreTypeOK
<1>0. ASSUME NEW r \in Run, run'[r] = run[r]
      PROVE  SameStanding(r)
  BY <1>0 DEF SameStanding, IsActive, IsFinal
<1>1. ASSUME \A r \in Run : SameStanding(r)
      PROVE  StepKind
  <2>1. Retiring({})
    BY <1>1 DEF Retiring
  <2>2. {} \in SUBSET Run
    OBVIOUS
  <2> QED
    BY <2>1, <2>2 DEF StepKind
<1>2. ASSUME NEW r \in Run, IsFinal(r)', \A s \in Run \ {r} : run'[s] = run[s]
      PROVE  StepKind
  <2>1. Retiring({r})
    BY <1>0, <1>2 DEF Retiring
  <2>2. {r} \in SUBSET Run
    OBVIOUS
  <2> QED
    BY <2>1, <2>2 DEF StepKind
<1>3. ASSUME NEW t \in Task, NEW k \in Key, NEW r \in Run, CreateRun(t, k, r)
      PROVE  StepKind
  <2>1. \A s \in Run \ {r} : SameStanding(s)
    BY <1>0, <1>3 DEF CreateRun
  <2>2. Creating(r, k)
    BY <1>3, <2>1 DEF CreateRun, Creating
  <2> QED
    BY <2>2 DEF StepKind
<1>4. ASSUME NEW t \in Task, NEW r \in Run, AddSharer(t, r)
      PROVE  StepKind
  <2>1. \A s \in Run : /\ run'[s].status = run[s].status
                        /\ run'[s].key = run[s].key
                        /\ run'[s].agent = run[s].agent
    BY <1>4 DEF AddSharer, Row
  <2> QED
    BY <1>1, <2>1 DEF SameStanding, IsActive, IsFinal
<1>5. ASSUME NEW r \in Run, run[r].status \in Dispatchable,
             run' = [run EXCEPT ![r] = WaitingRow(@)]
      PROVE  StepKind
  <2>1. /\ run'[r].status = "waiting_agent" /\ run'[r].key = run[r].key
        /\ \A s \in Run \ {r} : run'[s] = run[s]
    BY <1>5 DEF WaitingRow, Row
  <2>2. SameStanding(r)
    BY <1>5, <2>1 DEF SameStanding, IsActive, IsFinal, Active, Final, Dispatchable
  <2> QED
    BY <1>0, <1>1, <2>1, <2>2
<1>6. ASSUME NEW r \in Run, MarkWaiting(r)
      PROVE  StepKind
  <2>1. run[r].status \in {"queued", "retry_wait"} => run[r].status \in Dispatchable
    BY DEF Dispatchable
  <2> QED
    BY <1>0, <1>1, <1>5, <1>6, <2>1 DEF MarkWaiting
<1>7. ASSUME NEW r \in Run, WaitAfterAgentConflict(r)
      PROVE  StepKind
  BY <1>0, <1>1, <1>5, <1>7 DEF WaitAfterAgentConflict
<1>8. ASSUME NEW r \in Run, NEW a \in Agent, run[r].status \in Dispatchable,
             RunningOn(a) = {}, run' = [run EXCEPT ![r] = RunningRow(@, a)]
      PROVE  StepKind
  <2>1. /\ run'[r].status = "running" /\ run'[r].agent = a
        /\ run'[r].key = run[r].key
        /\ \A s \in Run \ {r} : run'[s] = run[s]
    BY <1>8 DEF RunningRow, Row
  <2>2. Claiming(r, a)
    BY <1>0, <1>8, <2>1 DEF Claiming
  <2> QED
    BY <2>2 DEF StepKind
<1>9. ASSUME NEW r \in Run, NEW a \in Agent, ClaimWithAgent(r, a)
      PROVE  StepKind
  BY <1>8, <1>9 DEF ClaimWithAgent, CanClaim, SetRunning
<1>10. ASSUME NEW r \in Run, NEW a \in Agent, StartRun(r, a)
       PROVE  StepKind
  BY <1>0, <1>1, <1>8, <1>10 DEF StartRun
<1>11. ASSUME NEW r \in Run, CompleteRun(r)
       PROVE  StepKind
  <2>1. run'[r].status = "succeeded" /\ \A s \in Run \ {r} : run'[s] = run[s]
    BY <1>11 DEF CompleteRun, SucceededRow, Row
  <2> QED
    BY <1>2, <2>1 DEF IsFinal, Final
<1>12. ASSUME NEW r \in Run, FailRun(r)
       PROVE  StepKind
  <2>1. run'[r].status = "failed" /\ \A s \in Run \ {r} : run'[s] = run[s]
    BY <1>12 DEF FailRun, Row
  <2> QED
    BY <1>2, <2>1 DEF IsFinal, Final
<1>13. ASSUME NEW t \in Task, CancelCommit(t)
       PROVE  StepKind
  <2> DEFINE S == {r \in cancelTxn[t].runs : cancelTxn[t].remaining[r] = {}}
  <2>1. S \in SUBSET Run
    BY DEF CancelTxn
  <2>2. ASSUME NEW r \in S
        PROVE  IsFinal(r)'
    <3>1. run'[r] = DetachedRow(run[r], {})
      BY <1>13, <2>1 DEF CancelCommit
    <3>2. run'[r].status = "cancelled"
      BY <2>1, <3>1 DEF DetachedRow, Row
    <3> QED
      BY <3>2 DEF IsFinal, Final
  <2>3. ASSUME NEW r \in Run \ S
        PROVE  SameStanding(r)
    <3>1. CASE r \notin cancelTxn[t].runs
      BY <1>0, <1>13, <3>1 DEF CancelCommit
    <3>2. CASE r \in cancelTxn[t].runs
      <4> DEFINE left == cancelTxn[t].remaining[r]
      <4>1. left # {} /\ run'[r] = DetachedRow(run[r], left)
        BY <1>13, <3>2 DEF CancelCommit
      <4>2. /\ run'[r].status = run[r].status /\ run'[r].key = run[r].key
            /\ run'[r].agent = run[r].agent
        BY <4>1 DEF DetachedRow, Row
      <4> QED
        BY <4>2 DEF SameStanding, IsActive, IsFinal
    <3> QED
      BY <3>1, <3>2
  <2>4. Retiring(S)
    BY <2>2, <2>3 DEF Retiring
  <2> QED
    BY <2>1, <2>4 DEF StepKind
<1>14. ASSUME UNCHANGED run
       PROVE  StepKind
  BY <1>0, <1>1, <1>14
<1> QED
  BY <1>3, <1>4, <1>6, <1>7, <1>9, <1>10, <1>11, <1>12, <1>13, <1>14
  DEF StoreNext, JoinRun, AttachTask, CancelRead, CancelAbort, storeVars

-----------------------------------------------------------------------------
(* The safety invariants.  Together they are inductive: uniqueness of the  *)
(* claimed agent needs the running row to have one, and a row can only be  *)
(* claimed from a status that is not final.                                *)

\* The conjunction is inductive.
LEMMA LeaseInvStep ==
  ASSUME StoreTypeOK, StoreIsExclusive, StepKind
  PROVE  StoreIsExclusive'
<1> USE DEF StoreTypeOK, StoreIsExclusive, OneActiveRunPerKey, OneRunPerAgent, RunningHasAgent
<1>1. ASSUME NEW S \in SUBSET Run, Retiring(S)
      PROVE  StoreIsExclusive'
  <2>1. \A r \in Run : IsFinal(r)' => ~IsActive(r)' /\ run'[r].status # "running"
    BY DEF IsFinal, IsActive, Final, Active
  <2>2. \A r \in Run : IsActive(r)' => IsActive(r) /\ run'[r].key = run[r].key
    BY <1>1, <2>1 DEF Retiring, SameStanding
  <2>3. \A r \in Run : run'[r].status = "running" =>
          run[r].status = "running" /\ run'[r].agent = run[r].agent
    BY <1>1, <2>1 DEF Retiring, SameStanding
  <2>4. OneActiveRunPerKey'
    BY <2>2
  <2>5. OneRunPerAgent' /\ RunningHasAgent'
    BY <2>3
  <2> QED
    BY <2>4, <2>5
<1>2. ASSUME NEW r \in Run, NEW a \in Agent, Claiming(r, a)
      PROVE  StoreIsExclusive'
  <2>1. \A s \in Run : IsActive(s)' => IsActive(s) /\ run'[s].key = run[s].key
    BY <1>2 DEF Claiming, SameStanding, IsActive, Active, Dispatchable
  <2>2. \A s \in Run \ {r} : run'[s].status = "running" =>
          /\ run[s].status = "running" /\ run'[s].agent = run[s].agent
          /\ run'[s].agent # a
    BY <1>2 DEF Claiming, SameStanding, RunningOn
  <2>3. OneActiveRunPerKey'
    BY <2>1
  <2>4. OneRunPerAgent' /\ RunningHasAgent'
    BY <1>2, <2>2 DEF Claiming
  <2> QED
    BY <2>3, <2>4
<1>3. ASSUME NEW r \in Run, NEW k \in Key, Creating(r, k)
      PROVE  StoreIsExclusive'
  <2>1. \A s \in Run \ {r} : IsActive(s)' =>
          IsActive(s) /\ run'[s].key = run[s].key /\ run'[s].key # k
    BY <1>3 DEF Creating, SameStanding, ActiveRuns
  <2>2. \A s \in Run : run'[s].status = "running" =>
          s # r /\ run[s].status = "running" /\ run'[s].agent = run[s].agent
    BY <1>3 DEF Creating, SameStanding
  <2>3. OneActiveRunPerKey'
    BY <1>3, <2>1 DEF Creating
  <2>4. OneRunPerAgent' /\ RunningHasAgent'
    BY <2>2
  <2> QED
    BY <2>3, <2>4
<1> QED
  BY <1>1, <1>2, <1>3 DEF StepKind

\* It holds in every reachable state.
LEMMA LeaseInvariant == StoreSpec => [](StoreTypeOK /\ StoreIsExclusive)
<1>1. StoreInit => StoreTypeOK /\ StoreIsExclusive
  <2>1. StoreInit => StoreTypeOK
    BY DEF StoreInit, StoreTypeOK, NoRow, Row, RunStatus, NoCancelTxn, CancelTxn
  <2>2. StoreInit => \A r \in Run : ~IsActive(r) /\ run[r].status # "running"
    BY DEF StoreInit, NoRow, IsActive, Active
  <2> QED
    BY <2>1, <2>2 DEF StoreIsExclusive, OneActiveRunPerKey, OneRunPerAgent, RunningHasAgent
<1>2. StoreTypeOK /\ StoreIsExclusive /\ [StoreNext]_storeVars => (StoreTypeOK /\ StoreIsExclusive)'
  BY TypeStep, EveryStepHasAKind, LeaseInvStep
<1> QED
  BY <1>1, <1>2, PTL DEF StoreSpec

\* What the partial indexes are for holds of every state.
THEOREM StoreIsAlwaysExclusive == StoreSpec => []StoreIsExclusive
  BY LeaseInvariant, PTL

\* At any time one active run collects an identity.
THEOREM ActiveIdentityUnique == StoreSpec => []OneActiveRunPerKey
<1>1. StoreIsExclusive => OneActiveRunPerKey
  BY DEF StoreIsExclusive
<1> QED
  BY <1>1, LeaseInvariant, PTL

\* At any time one running run holds an agent.
THEOREM AgentExclusive == StoreSpec => []OneRunPerAgent
<1>1. StoreIsExclusive => OneRunPerAgent
  BY DEF StoreIsExclusive
<1> QED
  BY <1>1, LeaseInvariant, PTL

\* Every run in status 'running' names its agent, so the partial index covers it.
THEOREM AgentRecorded == StoreSpec => []RunningHasAgent
<1>1. StoreIsExclusive => RunningHasAgent
  BY DEF StoreIsExclusive
<1> QED
  BY <1>1, LeaseInvariant, PTL

-----------------------------------------------------------------------------
\* A run in a final status is never active again: every operation that makes a
\* row active re-checks the status under the row lock.
THEOREM FinalIsFinal == StoreSpec => FinalStaysFinal
<1>1. StoreTypeOK /\ [StoreNext]_storeVars
      => [\A r \in Run : IsFinal(r) => IsFinal(r)']_run
  <2> SUFFICES ASSUME StoreTypeOK, [StoreNext]_storeVars, NEW r \in Run, IsFinal(r)
               PROVE  IsFinal(r)'
    OBVIOUS
  <2>1. run[r].status \notin Dispatchable /\ run[r].status # "absent"
    BY DEF IsFinal, Final, Dispatchable
  <2>2. StepKind
    BY EveryStepHasAKind
  <2> QED
    BY <2>1, <2>2 DEF StepKind, Retiring, Claiming, Creating, SameStanding
<1>2. StoreSpec => []StoreTypeOK
  BY TypeCorrect
<1> QED
  BY <1>1, <1>2, PTL DEF StoreSpec, FinalStaysFinal

-----------------------------------------------------------------------------
(* Refinement: the table implements a lease on agents and one on           *)
(* identities.                                                             *)

\* RunOr picks a run exactly when there is one.
LEMMA RunOrIsMember ==
  ASSUME NEW S \in SUBSET Run
  PROVE  /\ S = {} <=> RunOr(S) = NoRun
         /\ S # {} => RunOr(S) \in S
  BY NullsAreNoValues DEF RunOr

\* The only run there is, is picked.
LEMMA RunOrSingleton ==
  ASSUME NEW r \in Run
  PROVE  RunOr({r}) = r
  BY DEF RunOr

\* Who holds what, without CHOOSE.
LEMMA HolderIs ==
  ASSUME StoreIsExclusive, NEW r \in Run
  PROVE  /\ \A a \in Agent : LaneHolder[a] = r <=> r \in RunningOn(a)
         /\ \A k \in Key : SlotHolder[k] = r <=> r \in ActiveRuns(k)
<1>1. ASSUME NEW a \in Agent
      PROVE  LaneHolder[a] = r <=> r \in RunningOn(a)
  <2>1. RunningOn(a) \in SUBSET Run /\ LaneHolder[a] = RunOr(RunningOn(a))
    BY DEF RunningOn, LaneHolder
  <2>2. r \in RunningOn(a) => RunningOn(a) = {r}
    BY DEF RunningOn, StoreIsExclusive, OneRunPerAgent
  <2> QED
    BY <2>1, <2>2, RunOrIsMember, RunOrSingleton, NullsAreNoValues
<1>2. ASSUME NEW k \in Key
      PROVE  SlotHolder[k] = r <=> r \in ActiveRuns(k)
  <2>1. ActiveRuns(k) \in SUBSET Run /\ SlotHolder[k] = RunOr(ActiveRuns(k))
    BY DEF ActiveRuns, SlotHolder
  <2>2. r \in ActiveRuns(k) => ActiveRuns(k) = {r}
    BY DEF ActiveRuns, StoreIsExclusive, OneActiveRunPerKey
  <2> QED
    BY <2>1, <2>2, RunOrIsMember, RunOrSingleton, NullsAreNoValues
<1> QED
  BY <1>1, <1>2

\* A holder is a run or NoRun.
LEMMA HolderType ==
  /\ LaneHolder \in [Agent -> Run \cup {NoRun}]
  /\ SlotHolder \in [Key -> Run \cup {NoRun}]
<1>1. ASSUME NEW S \in SUBSET Run
      PROVE  RunOr(S) \in Run \cup {NoRun}
  BY RunOrIsMember
<1> QED
  BY <1>1 DEF LaneHolder, SlotHolder, RunningOn, ActiveRuns

\* Runs that end give back their agents and identities.
LEMMA RetiringIsRetire ==
  ASSUME StoreTypeOK, StoreIsExclusive, StoreIsExclusive', NEW S \in SUBSET Run, Retiring(S)
  PROVE  Lanes!Retire(S) /\ Slots!Retire(S)
<1>1. FinalRuns' = FinalRuns \cup S
  BY DEF FinalRuns, Retiring, SameStanding
<1>2. \A r \in Run : IsFinal(r)' => ~IsActive(r)' /\ run'[r].status # "running"
  BY DEF IsFinal, IsActive, Final, Active
<1>3. ASSUME NEW a \in Agent
      PROVE  RunningOn(a)' = RunningOn(a) \ S
  BY <1>2 DEF RunningOn, Retiring, SameStanding
<1>4. ASSUME NEW k \in Key
      PROVE  ActiveRuns(k)' = ActiveRuns(k) \ S
  BY <1>2 DEF ActiveRuns, Retiring, SameStanding
<1>5. ASSUME NEW T \in SUBSET Run, \A r, s \in T : r = s
      PROVE  RunOr(T \ S) = IF RunOr(T) \in S THEN NoRun ELSE RunOr(T)
  <2>1. CASE T = {}
    BY <2>1, NullsAreNoValues DEF RunOr
  <2>2. CASE T # {}
    <3> PICK r \in T : T = {r}
      BY <1>5, <2>2
    <3>1. RunOr(T) = r
      BY RunOrSingleton
    <3>2. CASE r \in S
      <4>1. T \ S = {}
        BY <3>2
      <4> QED
        BY <3>1, <3>2, <4>1 DEF RunOr
    <3>3. CASE r \notin S
      <4>1. T \ S = T
        BY <3>3
      <4> QED
        BY <3>1, <3>3, <4>1
    <3> QED
      BY <3>2, <3>3
  <2> QED
    BY <2>1, <2>2
<1>6. ASSUME NEW a \in Agent
      PROVE  RunOr(RunningOn(a)') = IF LaneHolder[a] \in S THEN NoRun ELSE LaneHolder[a]
  <2>1. RunningOn(a) \in SUBSET Run /\ \A r, s \in RunningOn(a) : r = s
    BY DEF RunningOn, StoreIsExclusive, OneRunPerAgent
  <2>2. LaneHolder[a] = RunOr(RunningOn(a))
    BY DEF LaneHolder
  <2> QED
    BY <1>3, <1>5, <2>1, <2>2
<1>7. ASSUME NEW k \in Key
      PROVE  RunOr(ActiveRuns(k)') = IF SlotHolder[k] \in S THEN NoRun ELSE SlotHolder[k]
  <2>1. ActiveRuns(k) \in SUBSET Run /\ \A r, s \in ActiveRuns(k) : r = s
    BY DEF ActiveRuns, StoreIsExclusive, OneActiveRunPerKey
  <2>2. SlotHolder[k] = RunOr(ActiveRuns(k))
    BY DEF SlotHolder
  <2> QED
    BY <1>4, <1>5, <2>1, <2>2
<1>8. LaneHolder' = [a \in Agent |-> IF LaneHolder[a] \in S THEN NoRun ELSE LaneHolder[a]]
  <2>1. LaneHolder' = [a \in Agent |-> RunOr(RunningOn(a)')]
    BY DEF LaneHolder, RunOr
  <2> QED
    BY <1>6, <2>1
<1>9. SlotHolder' = [k \in Key |-> IF SlotHolder[k] \in S THEN NoRun ELSE SlotHolder[k]]
  <2>1. SlotHolder' = [k \in Key |-> RunOr(ActiveRuns(k)')]
    BY DEF SlotHolder, RunOr
  <2> QED
    BY <1>7, <2>1
<1> QED
  BY <1>1, <1>8, <1>9 DEF Lanes!Retire, Slots!Retire

\* Two lane or slot maps with the same members are the same map.
LEMMA HolderSteady ==
  /\ (\A a \in Agent : RunningOn(a)' = RunningOn(a)) => LaneHolder' = LaneHolder
  /\ (\A k \in Key : ActiveRuns(k)' = ActiveRuns(k)) => SlotHolder' = SlotHolder
<1>1. LaneHolder' = [a \in Agent |-> RunOr(RunningOn(a)')]
  BY DEF LaneHolder, RunOr
<1>2. SlotHolder' = [k \in Key |-> RunOr(ActiveRuns(k)')]
  BY DEF SlotHolder, RunOr
<1> QED
  BY <1>1, <1>2 DEF LaneHolder, SlotHolder

\* A claim takes an agent and leaves the identities alone.
LEMMA ClaimingIsAcquire ==
  ASSUME StoreTypeOK, StoreIsExclusive, NEW r \in Run, NEW a \in Agent, Claiming(r, a)
  PROVE  Lanes!Acquire(a, r) /\ UNCHANGED <<SlotHolder, FinalRuns>>
<1>1. /\ run[r].status \in Dispatchable /\ run[r].status # "running"
      /\ IsActive(r) /\ IsActive(r)' /\ ~IsFinal(r) /\ ~IsFinal(r)'
  BY DEF Claiming, Dispatchable, IsActive, IsFinal, Active, Final
<1>2. UNCHANGED FinalRuns
  BY <1>1 DEF FinalRuns, Claiming, SameStanding
<1>3. \A k \in Key : ActiveRuns(k)' = ActiveRuns(k)
  BY <1>1 DEF ActiveRuns, Claiming, SameStanding
<1>4. RunningOn(a)' = {r} /\ \A b \in Agent \ {a} : RunningOn(b)' = RunningOn(b)
  BY <1>1 DEF RunningOn, Claiming, SameStanding
<1>5. LaneHolder' = [LaneHolder EXCEPT ![a] = r]
  <2>1. LaneHolder' = [b \in Agent |-> RunOr(RunningOn(b)')]
    BY DEF LaneHolder, RunOr
  <2> QED
    BY <1>4, <2>1, RunOrSingleton DEF LaneHolder
<1>6. LaneHolder[a] = NoRun
  BY RunOrIsMember DEF LaneHolder, Claiming
<1>7. \A b \in Agent : LaneHolder[b] # r
  BY <1>1, HolderIs DEF RunningOn
<1>8. r \notin FinalRuns
  BY <1>1 DEF FinalRuns
<1> QED
  BY <1>2, <1>3, <1>5, <1>6, <1>7, <1>8, HolderSteady DEF Lanes!Acquire

\* An insert takes an identity and leaves the agents alone.
LEMMA CreatingIsAcquire ==
  ASSUME StoreTypeOK, StoreIsExclusive, NEW r \in Run, NEW k \in Key, Creating(r, k)
  PROVE  Slots!Acquire(k, r) /\ UNCHANGED <<LaneHolder, FinalRuns>>
<1>1. /\ ~IsActive(r) /\ IsActive(r)' /\ ~IsFinal(r) /\ ~IsFinal(r)'
      /\ run[r].status # "running" /\ run'[r].status # "running"
  BY DEF Creating, IsActive, IsFinal, Active, Final
<1>2. UNCHANGED FinalRuns
  BY <1>1 DEF FinalRuns, Creating, SameStanding
<1>3. \A a \in Agent : RunningOn(a)' = RunningOn(a)
  BY <1>1 DEF RunningOn, Creating, SameStanding
<1>4. ActiveRuns(k)' = {r} /\ \A j \in Key \ {k} : ActiveRuns(j)' = ActiveRuns(j)
  BY <1>1 DEF ActiveRuns, Creating, SameStanding
<1>5. SlotHolder' = [SlotHolder EXCEPT ![k] = r]
  <2>1. SlotHolder' = [j \in Key |-> RunOr(ActiveRuns(j)')]
    BY DEF SlotHolder, RunOr
  <2> QED
    BY <1>4, <2>1, RunOrSingleton DEF SlotHolder
<1>6. SlotHolder[k] = NoRun
  BY RunOrIsMember DEF SlotHolder, Creating
<1>7. \A j \in Key : SlotHolder[j] # r
  BY <1>1, HolderIs DEF ActiveRuns
<1>8. r \notin FinalRuns
  BY <1>1 DEF FinalRuns
<1> QED
  BY <1>2, <1>3, <1>5, <1>6, <1>7, <1>8, HolderSteady DEF Slots!Acquire

\* Every transaction is a step, or a stutter, of both leases.
LEMMA EveryStepIsALeaseStep ==
  ASSUME StoreTypeOK, StoreIsExclusive, StoreIsExclusive', StepKind
  PROVE  /\ [Lanes!LeaseNext]_Lanes!leaseVars
         /\ [Slots!LeaseNext]_Slots!leaseVars
<1>1. ASSUME NEW S \in SUBSET Run, Retiring(S)
      PROVE  Lanes!LeaseNext /\ Slots!LeaseNext
  BY <1>1, RetiringIsRetire DEF Lanes!LeaseNext, Slots!LeaseNext
<1>2. ASSUME NEW r \in Run, NEW a \in Agent, Claiming(r, a)
      PROVE  Lanes!LeaseNext /\ UNCHANGED Slots!leaseVars
  BY <1>2, ClaimingIsAcquire DEF Lanes!LeaseNext, Slots!leaseVars
<1>3. ASSUME NEW r \in Run, NEW k \in Key, Creating(r, k)
      PROVE  Slots!LeaseNext /\ UNCHANGED Lanes!leaseVars
  BY <1>3, CreatingIsAcquire DEF Slots!LeaseNext, Lanes!leaseVars
<1> QED
  BY <1>1, <1>2, <1>3 DEF StepKind

\* Empty tables are two leases with nothing held.
LEMMA LeaseInitially ==
  ASSUME StoreInit
  PROVE  Lanes!LeaseInit /\ Slots!LeaseInit
<1>1. \A r \in Run : run[r].status = "absent"
  BY DEF StoreInit, NoRow
<1>2. FinalRuns = {}
  BY <1>1 DEF FinalRuns, IsFinal, Final
<1>3. \A a \in Agent : RunningOn(a) = {}
  BY <1>1 DEF RunningOn
<1>4. \A k \in Key : ActiveRuns(k) = {}
  BY <1>1 DEF ActiveRuns, IsActive, Active
<1> QED
  BY <1>2, <1>3, <1>4 DEF Lanes!LeaseInit, Slots!LeaseInit, LaneHolder, SlotHolder, RunOr

\* The running-agent column implements the abstract lease on agents.
THEOREM ImplementsLanes == StoreSpec => LanesSpec
<1>1. StoreInit => Lanes!LeaseInit
  BY LeaseInitially
<1>2. /\ StoreTypeOK /\ StoreIsExclusive /\ (StoreTypeOK /\ StoreIsExclusive)'
      /\ [StoreNext]_storeVars
      => [Lanes!LeaseNext]_Lanes!leaseVars
  BY EveryStepHasAKind, EveryStepIsALeaseStep
<1>3. StoreSpec => [](StoreTypeOK /\ StoreIsExclusive)
  BY LeaseInvariant
<1> QED
  BY <1>1, <1>2, <1>3, PTL DEF StoreSpec, LanesSpec, Lanes!LeaseSpec

\* The active rows implement the abstract lease on identities.
THEOREM ImplementsSlots == StoreSpec => SlotsSpec
<1>1. StoreInit => Slots!LeaseInit
  BY LeaseInitially
<1>2. /\ StoreTypeOK /\ StoreIsExclusive /\ (StoreTypeOK /\ StoreIsExclusive)'
      /\ [StoreNext]_storeVars
      => [Slots!LeaseNext]_Slots!leaseVars
  BY EveryStepHasAKind, EveryStepIsALeaseStep
<1>3. StoreSpec => [](StoreTypeOK /\ StoreIsExclusive)
  BY LeaseInvariant
<1> QED
  BY <1>1, <1>2, <1>3, PTL DEF StoreSpec, SlotsSpec, Slots!LeaseSpec

-----------------------------------------------------------------------------
(* What the abstract lease implies, and therefore holds of agents and of   *)
(* identities: types, and two exclusions which need each other, because an *)
(* owner can only acquire while it holds nothing and has not retired.      *)
LanesSafe == Lanes!LeaseTypeOK /\ Lanes!RetiredHoldNothing /\ Lanes!OneResourceEach
SlotsSafe == Slots!LeaseTypeOK /\ Slots!RetiredHoldNothing /\ Slots!OneResourceEach

LEMMA LanesStep ==
  ASSUME LanesSafe, [Lanes!LeaseNext]_Lanes!leaseVars
  PROVE  LanesSafe' /\ [Lanes!NoHandOver]_Lanes!leaseVars
<1> USE NullsAreNoValues DEF LanesSafe, Lanes!LeaseTypeOK, Lanes!RetiredHoldNothing,
        Lanes!OneResourceEach, Lanes!NoHandOver
<1>1. ASSUME NEW x \in Agent, NEW o \in Run, Lanes!Acquire(x, o)
      PROVE  LanesSafe' /\ Lanes!NoHandOver
  BY <1>1 DEF Lanes!Acquire
<1>2. ASSUME NEW S \in SUBSET Run, Lanes!Retire(S)
      PROVE  LanesSafe' /\ Lanes!NoHandOver
  BY <1>2 DEF Lanes!Retire
<1>3. CASE UNCHANGED Lanes!leaseVars
  BY <1>3 DEF Lanes!leaseVars
<1> QED
  BY <1>1, <1>2, <1>3 DEF Lanes!LeaseNext

LEMMA LanesGiveBack == LanesSpec => []LanesSafe /\ [][Lanes!NoHandOver]_Lanes!leaseVars
<1>1. Lanes!LeaseInit => LanesSafe
  BY DEF Lanes!LeaseInit, LanesSafe, Lanes!LeaseTypeOK, Lanes!RetiredHoldNothing, Lanes!OneResourceEach
<1>2. LanesSafe /\ [Lanes!LeaseNext]_Lanes!leaseVars
      => LanesSafe' /\ [Lanes!NoHandOver]_Lanes!leaseVars
  BY LanesStep
<1> QED
  BY <1>1, <1>2, PTL DEF LanesSpec, Lanes!LeaseSpec

\* No finished run blocks an agent, no run holds two, and an agent is free between two
\* runs that hold it.
THEOREM AgentsAreGivenBack == StoreSpec => []LanesSafe /\ [][Lanes!NoHandOver]_Lanes!leaseVars
  BY ImplementsLanes, LanesGiveBack, PTL

LEMMA SlotsStep ==
  ASSUME SlotsSafe, [Slots!LeaseNext]_Slots!leaseVars
  PROVE  SlotsSafe' /\ [Slots!NoHandOver]_Slots!leaseVars
<1> USE NullsAreNoValues DEF SlotsSafe, Slots!LeaseTypeOK, Slots!RetiredHoldNothing,
        Slots!OneResourceEach, Slots!NoHandOver
<1>1. ASSUME NEW x \in Key, NEW o \in Run, Slots!Acquire(x, o)
      PROVE  SlotsSafe' /\ Slots!NoHandOver
  BY <1>1 DEF Slots!Acquire
<1>2. ASSUME NEW S \in SUBSET Run, Slots!Retire(S)
      PROVE  SlotsSafe' /\ Slots!NoHandOver
  BY <1>2 DEF Slots!Retire
<1>3. CASE UNCHANGED Slots!leaseVars
  BY <1>3 DEF Slots!leaseVars
<1> QED
  BY <1>1, <1>2, <1>3 DEF Slots!LeaseNext

LEMMA SlotsGiveBack == SlotsSpec => []SlotsSafe /\ [][Slots!NoHandOver]_Slots!leaseVars
<1>1. Slots!LeaseInit => SlotsSafe
  BY DEF Slots!LeaseInit, SlotsSafe, Slots!LeaseTypeOK, Slots!RetiredHoldNothing, Slots!OneResourceEach
<1>2. SlotsSafe /\ [Slots!LeaseNext]_Slots!leaseVars
      => SlotsSafe' /\ [Slots!NoHandOver]_Slots!leaseVars
  BY SlotsStep
<1> QED
  BY <1>1, <1>2, PTL DEF SlotsSpec, Slots!LeaseSpec

\* No finished run blocks an identity, no run has two, and an identity is free between
\* two runs that have it.
THEOREM IdentitiesAreGivenBack == StoreSpec => []SlotsSafe /\ [][Slots!NoHandOver]_Slots!leaseVars
  BY ImplementsSlots, SlotsGiveBack, PTL
=============================================================================
