------------------------ MODULE CollectionWaitProofs ------------------------
(***************************************************************************)
(* CollectionWait uses the tables as RunStore says and the services as     *)
(* CollectorService says; no fault leaves an active run to an ended task   *)
(* or to nobody; and, as far as the tasks are kept apart, each run has one *)
(* submitter, each agent one crawl, and a task reports what its crawls     *)
(* came to.  For any tasks, platforms, agent pools and sizes of the pools. *)
(***************************************************************************)
EXTENDS CollectionWait, RunStoreProofs, WellFoundedInduction

-----------------------------------------------------------------------------
(* What a task has read is in the table.                                   *)

WaitState == [pc: PC, stage: Stage, mine: Seq(Run), run: Run \cup {NoRun},
              agent: Agent \cup {NoAgent}, read: Nat, todo: Seq(Run), won: SUBSET Run]

\* w fits the step at which task t is.
Shape(w, t) ==
  /\ w \in WaitState
  /\ w.pc \in Joining => Len(w.mine) < Len(KeysOf[t])
  /\ w.pc = "joined" => w.run \in Run
  /\ w.pc \in {"take", "giveup", "conflict"} => w.todo # <<>>
  /\ w.pc = "take" => w.agent \in Agent

KnownIn(rows, r) == rows[r].status # "absent" /\ rows[r].key \in Key

\* What w refers to is there in the rows of the table.
Sees(w, rows) ==
  /\ \A i \in DOMAIN w.mine : KnownIn(rows, w.mine[i])
  /\ \A i \in DOMAIN w.todo : KnownIn(rows, w.todo[i])
  /\ w.pc = "joined" => KnownIn(rows, w.run)

WaitInv ==
  /\ StoreTypeOK
  /\ wait \in [Task -> WaitState]
  /\ \A t \in Task : Shape(wait[t], t) /\ Sees(wait[t], run)

LEMMA WaitInitially == WaitInit => WaitInv
<1> SUFFICES ASSUME WaitInit PROVE WaitInv
  OBVIOUS
<1>1. StoreTypeOK
  BY DEF WaitInit, StoreInit, StoreTypeOK, NoRow, Row, RunStatus, NoCancelTxn, CancelTxn
<1>2. ASSUME NEW t \in Task PROVE Shape(wait[t], t) /\ Sees(wait[t], run)
  <2>1. KeysOf[t] \in Seq(Key) /\ KeysOf[t] # <<>>
    BY WaitAssumption
  <2>2. Len(KeysOf[t]) > 0
    BY <2>1
  <2> QED
    BY <2>2 DEF WaitInit, Shape, Sees, WaitState, PC, Joining, Stage
<1>3. wait \in [Task -> WaitState]
  BY <1>2 DEF WaitInit, Shape
<1> QED
  BY <1>1, <1>2, <1>3 DEF WaitInv

\* No row is ever deleted, and none changes its identity.
LEMMA KnownStays ==
  ASSUME StoreTypeOK, [StoreNext]_storeVars, NEW s \in Run, KnownIn(run, s)
  PROVE  KnownIn(run', s) /\ run'[s].key = run[s].key
<1> USE DEF StoreTypeOK, KnownIn
<1>0. ASSUME NEW r \in Run, NEW row, row.status # "absent", row.key = run[r].key,
             run' = [run EXCEPT ![r] = row]
      PROVE  KnownIn(run', s) /\ run'[s].key = run[s].key
  BY <1>0
<1>1. ASSUME NEW t \in Task, NEW k \in Key, NEW r \in Run, CreateRun(t, k, r)
      PROVE  KnownIn(run', s) /\ run'[s].key = run[s].key
  BY <1>1 DEF CreateRun
<1>2. ASSUME NEW t \in Task, NEW r \in Run, AddSharer(t, r)
      PROVE  KnownIn(run', s) /\ run'[s].key = run[s].key
  BY <1>2 DEF AddSharer, Row
<1>3. ASSUME NEW r \in Run, MarkWaiting(r) \/ WaitAfterAgentConflict(r)
      PROVE  KnownIn(run', s) /\ run'[s].key = run[s].key
  <2>1. WaitingRow(run[r]).status # "absent" /\ WaitingRow(run[r]).key = run[r].key
    BY DEF WaitingRow, Row
  <2>2. run' = run \/ run' = [run EXCEPT ![r] = WaitingRow(run[r])]
    BY <1>3 DEF MarkWaiting, WaitAfterAgentConflict
  <2> QED
    BY <1>0, <2>1, <2>2
<1>4. ASSUME NEW r \in Run, NEW a \in Agent, ClaimWithAgent(r, a) \/ StartRun(r, a)
      PROVE  KnownIn(run', s) /\ run'[s].key = run[s].key
  <2>1. RunningRow(run[r], a).status # "absent" /\ RunningRow(run[r], a).key = run[r].key
    BY DEF RunningRow, Row
  <2>2. run' = run \/ run' = [run EXCEPT ![r] = RunningRow(run[r], a)]
    BY <1>4 DEF ClaimWithAgent, SetRunning, StartRun
  <2> QED
    BY <1>0, <2>1, <2>2
<1>5. ASSUME NEW r \in Run, CompleteRun(r)
      PROVE  KnownIn(run', s) /\ run'[s].key = run[s].key
  <2>1. SucceededRow(run[r]).status # "absent" /\ SucceededRow(run[r]).key = run[r].key
    BY DEF SucceededRow, Row
  <2> QED
    BY <1>0, <1>5, <2>1 DEF CompleteRun
<1>6. ASSUME NEW r \in Run, FailRun(r)
      PROVE  KnownIn(run', s) /\ run'[s].key = run[s].key
  BY <1>6 DEF FailRun, Row
<1>7. ASSUME NEW t \in Task, CancelRead(t) \/ CancelAbort(t)
      PROVE  KnownIn(run', s) /\ run'[s].key = run[s].key
  BY <1>7 DEF CancelRead, CancelAbort
<1>8. ASSUME NEW t \in Task, CancelCommit(t)
      PROVE  KnownIn(run', s) /\ run'[s].key = run[s].key
  BY <1>8 DEF CancelCommit, DetachedRow, Row
<1>9. CASE UNCHANGED storeVars
  BY <1>9 DEF storeVars
<1> QED
  BY <1>1, <1>2, <1>3, <1>4, <1>5, <1>6, <1>7, <1>8, <1>9 DEF StoreNext, JoinRun, AttachTask

\* What a task has seen stays true of a table that others have changed meanwhile.
LEMMA SeesStays ==
  ASSUME StoreTypeOK, [StoreNext]_storeVars, NEW w \in WaitState,
         w.pc = "joined" => w.run \in Run, Sees(w, run)
  PROVE  Sees(w, run')
<1>1. /\ \A i \in DOMAIN w.mine : w.mine[i] \in Run
      /\ \A i \in DOMAIN w.todo : w.todo[i] \in Run
  BY DEF WaitState
<1> QED
  BY <1>1, KnownStays DEF Sees

\* Only the task that takes a step has to be looked at.
LEMMA OneTaskMoves ==
  ASSUME WaitInv, [StoreNext]_storeVars, NEW t \in Task, NEW w,
         Become(t, w), Shape(w, t), Sees(w, run')
  PROVE  WaitInv'
<1>1. StoreTypeOK'
  BY TypeStep DEF WaitInv
<1>2. wait' \in [Task -> WaitState] /\ wait'[t] = w
  BY DEF WaitInv, Become, Shape
<1>3. ASSUME NEW u \in Task, u # t PROVE Shape(wait'[u], u) /\ Sees(wait'[u], run')
  <2>1. wait'[u] = wait[u] /\ wait[u] \in WaitState /\ Shape(wait[u], u) /\ Sees(wait[u], run)
    BY <1>3 DEF WaitInv, Become
  <2> QED
    BY <2>1, SeesStays DEF WaitInv, Shape
<1> QED
  BY <1>1, <1>2, <1>3 DEF WaitInv

LEMMA NobodyMoves ==
  ASSUME WaitInv, [StoreNext]_storeVars, wait' = wait
  PROVE  WaitInv'
<1>1. StoreTypeOK'
  BY TypeStep DEF WaitInv
<1>2. ASSUME NEW u \in Task PROVE Shape(wait[u], u) /\ Sees(wait[u], run')
  BY SeesStays DEF WaitInv, Shape
<1> QED
  BY <1>1, <1>2 DEF WaitInv

-----------------------------------------------------------------------------
(* The agent that is chosen.                                               *)
Before == {ss \in Nat \X Nat : ss[1] < ss[2]}

\* A set of numbers that is not empty has a least one.
LEMMA LeastNumber ==
  ASSUME NEW S \in SUBSET Nat, S # {}
  PROVE  \E i \in S : \A j \in S : i <= j
<1>1. IsWellFoundedOn(Before, Nat)
  BY NatLessThanWellFounded DEF OpToRel, Before
<1>2. PICK i \in S : \A j \in S : <<j, i>> \notin Before
  BY <1>1, WFMin
<1>3. ASSUME NEW j \in S PROVE i <= j
  <2>1. i \in Nat /\ j \in Nat /\ <<j, i>> \in Nat \X Nat /\ <<j, i>> \notin Before
    BY <1>2
  <2>2. ~(j < i)
    BY <2>1 DEF Before
  <2> QED
    BY <2>1, <2>2
<1> QED
  BY <1>3

LEMMA FirstFreeIsAgent ==
  ASSUME NEW p \in Platform, FreeAgents(p) # {}
  PROVE  FirstFree(p) \in Agent
<1>1. Pool[p] \in Seq(Agent)
  BY WaitAssumption
<1>2. FreeAgents(p) \subseteq DOMAIN Pool[p] /\ DOMAIN Pool[p] \subseteq Nat
  BY <1>1 DEF FreeAgents
<1>3. \E i \in FreeAgents(p) : \A j \in FreeAgents(p) : i <= j
  BY <1>2, LeastNumber
<1> DEFINE first == CHOOSE i \in FreeAgents(p) : \A j \in FreeAgents(p) : i <= j
<1>4. first \in FreeAgents(p)
  BY <1>3
<1>5. FirstFree(p) = Pool[p][first]
  BY DEF FirstFree
<1> HIDE DEF first
<1> QED
  BY <1>1, <1>2, <1>4, <1>5

-----------------------------------------------------------------------------
(* The steps of a task.                                                    *)

\* The task forgets, or goes on to something that requires nothing.
Plain == Waiting \ {"take", "giveup", "conflict"}
LEMMA GoesOn ==
  ASSUME WaitInv, NEW t \in Task, NEW p \in Plain \cup {"cancelling", "detaching"} \cup Ended
  PROVE  LET w == [wait[t] EXCEPT !.pc = p] IN Shape(w, t) /\ Sees(w, run)
  BY DEF WaitInv, Shape, Sees, WaitState, PC, Waiting, Plain, Joining, Ended

LEMMA ReloadFacts ==
  ASSUME NEW v \in WaitState, NEW s \in Stage
  PROVE  /\ Reload(v, s) \in WaitState
         /\ Reload(v, s).pc = "load"
         /\ Reload(v, s).mine = v.mine
         /\ Reload(v, s).todo = <<>>
<1>1. v.mine \in Seq(Run)
  BY DEF WaitState
<1>2. "load" \in PC
  BY DEF PC, Waiting
<1> QED
  BY <1>1, <1>2 DEF Reload, WaitState

LEMMA Reloads ==
  ASSUME WaitInv, NEW t \in Task, NEW s \in Stage
  PROVE  Shape(Reload(wait[t], s), t) /\ Sees(Reload(wait[t], s), run)
<1> DEFINE w == Reload(wait[t], s)
<1>1. wait[t] \in WaitState
  BY DEF WaitInv
<1>2. w \in WaitState /\ w.pc = "load" /\ w.mine = wait[t].mine /\ w.todo = <<>>
  BY <1>1, ReloadFacts
<1> HIDE DEF w
<1>3. Shape(w, t)
  BY <1>2 DEF Shape, Joining
<1>4. Sees(w, run)
  BY <1>2 DEF Sees, WaitInv
<1> QED
  BY <1>3, <1>4 DEF w

\* The first run of the list.
LEMMA TodoIsKnown ==
  ASSUME WaitInv, NEW t \in Task, wait[t].todo # <<>>
  PROVE  /\ Todo(t) \in Run /\ KnownIn(run, Todo(t))
         /\ RunPlatform(Todo(t)) \in Platform /\ FallbackAgent(t) \in Agent
         /\ Tail(wait[t].todo) \in Seq(Run)
         /\ \A i \in DOMAIN Tail(wait[t].todo) : KnownIn(run, Tail(wait[t].todo)[i])
<1>1. /\ wait[t].todo \in Seq(Run)
      /\ \A i \in DOMAIN wait[t].todo : KnownIn(run, wait[t].todo[i])
  BY DEF WaitInv, Shape, Sees, WaitState
<1>2. Todo(t) \in Run /\ KnownIn(run, Todo(t))
  BY <1>1 DEF Todo
<1>3. RunPlatform(Todo(t)) \in Platform /\ FallbackAgent(t) \in Agent
  BY <1>2, WaitAssumption DEF RunPlatform, FallbackAgent, KnownIn
<1>4. Tail(wait[t].todo) \in Seq(Run)
  BY <1>1
<1>5. ASSUME NEW i \in DOMAIN Tail(wait[t].todo)
      PROVE  KnownIn(run, Tail(wait[t].todo)[i])
  <2>1. i + 1 \in DOMAIN wait[t].todo /\ Tail(wait[t].todo)[i] = wait[t].todo[i + 1]
    BY <1>1
  <2> QED
    BY <1>1, <2>1
<1> QED
  BY <1>2, <1>3, <1>4, <1>5

LEMMA Pops ==
  ASSUME WaitInv, NEW t \in Task, wait[t].todo # <<>>
  PROVE  /\ Shape(Pop(t), t) /\ Sees(Pop(t), run)
         /\ LET w == [wait[t] EXCEPT !.todo = Tail(@)]
            IN  wait[t].pc = "expire" => Shape(w, t) /\ Sees(w, run)
<1>1. /\ wait[t] \in WaitState /\ Tail(wait[t].todo) \in Seq(Run)
      /\ \A i \in DOMAIN Tail(wait[t].todo) : KnownIn(run, Tail(wait[t].todo)[i])
      /\ \A i \in DOMAIN wait[t].mine : KnownIn(run, wait[t].mine[i])
  BY TodoIsKnown DEF WaitInv, Sees
<1>2. /\ Pop(t) \in WaitState /\ Pop(t).pc = "claim" /\ Pop(t).mine = wait[t].mine
      /\ Pop(t).todo = Tail(wait[t].todo)
  BY <1>1 DEF Pop, WaitState, PC, Waiting
<1>3. Shape(Pop(t), t) /\ Sees(Pop(t), run)
  BY <1>1, <1>2 DEF Shape, Sees, Joining
<1> DEFINE w == [wait[t] EXCEPT !.todo = Tail(@)]
<1>4. /\ w \in WaitState /\ w.pc = wait[t].pc /\ w.mine = wait[t].mine
      /\ w.todo = Tail(wait[t].todo)
  BY <1>1 DEF WaitState
<1>5. wait[t].pc = "expire" => Shape(w, t) /\ Sees(w, run)
  BY <1>1, <1>4 DEF Shape, Sees, Joining
<1> QED
  BY <1>3, <1>5

\* A step that leaves the table alone, or one that w does not depend on.
LEMMA MovesOn ==
  ASSUME WaitInv, [StoreNext]_storeVars, NEW t \in Task, NEW w,
         Become(t, w), Shape(w, t), Sees(w, run)
  PROVE  WaitInv'
<1>1. Sees(w, run')
  BY SeesStays DEF WaitInv, Shape
<1> QED
  BY <1>1, OneTaskMoves

\* The identity that is looked for next.
LEMMA NextKeyIsKey ==
  ASSUME WaitInv, NEW t \in Task, wait[t].pc \in {"find", "insert"}
  PROVE  NextKey(t) \in Key
<1>1. /\ KeysOf[t] \in Seq(Key) /\ wait[t].mine \in Seq(Run)
      /\ Len(wait[t].mine) < Len(KeysOf[t])
  BY WaitAssumption DEF WaitInv, Shape, WaitState, Joining
<1> QED
  BY <1>1 DEF NextKey

\* A run was joined or created for the identity.
LEMMA Joins ==
  ASSUME WaitInv, [StoreNext]_storeVars, NEW t \in Task, NEW r \in Run, KnownIn(run', r),
         wait[t].pc \in {"find", "insert"},
         Become(t, [wait[t] EXCEPT !.pc = "joined", !.run = r])
  PROVE  WaitInv'
<1> DEFINE w == [wait[t] EXCEPT !.pc = "joined", !.run = r]
<1>1. wait[t] \in WaitState /\ Sees(wait[t], run') /\ Len(wait[t].mine) < Len(KeysOf[t])
  BY SeesStays DEF WaitInv, Shape, Joining
<1>2. /\ w \in WaitState /\ w.pc = "joined" /\ w.run = r /\ w.mine = wait[t].mine
      /\ w.todo = wait[t].todo
  BY <1>1 DEF WaitState, PC, Joining
<1> HIDE DEF w
<1>3. Shape(w, t) /\ Sees(w, run')
  BY <1>1, <1>2 DEF Shape, Sees
<1> QED
  BY <1>3, OneTaskMoves DEF w

LEMMA JoinSteps ==
  ASSUME WaitInv, NEW t \in Task,
         FindActive(t) \/ Insert(t) \/ InsertRejected(t) \/ ReportJoin(t)
  PROVE  [StoreNext]_storeVars /\ WaitInv'
<1>1. CASE FindActive(t)
  <2>1. wait[t].pc = "find" /\ NextKey(t) \in Key
    BY <1>1, NextKeyIsKey DEF FindActive, Is
  <2>2. ASSUME NEW r \in ActiveRuns(NextKey(t)), JoinRun(t, NextKey(t), r),
               Become(t, [wait[t] EXCEPT !.pc = "joined", !.run = r])
        PROVE  [StoreNext]_storeVars /\ WaitInv'
    <3>1. r \in Run /\ KnownIn(run, r)
      BY <2>1, <2>2 DEF ActiveRuns, IsActive, Active, KnownIn
    <3>2. [StoreNext]_storeVars
      BY <2>1, <2>2, <3>1 DEF StoreNext
    <3>3. KnownIn(run', r)
      BY <3>1, <3>2, KnownStays DEF WaitInv
    <3> QED
      BY <2>1, <2>2, <3>1, <3>2, <3>3, Joins
  <2>3. ASSUME UNCHANGED storeVars, Go(t, "insert")
        PROVE  [StoreNext]_storeVars /\ WaitInv'
    <3> DEFINE w == [wait[t] EXCEPT !.pc = "insert"]
    <3>1. Become(t, w)
      BY <2>3 DEF Go, Become
    <3>2. /\ w \in WaitState /\ w.pc = "insert" /\ w.mine = wait[t].mine
          /\ w.todo = wait[t].todo
      BY DEF WaitInv, WaitState, PC, Joining
    <3> HIDE DEF w
    <3>3. Shape(w, t) /\ Sees(w, run)
      BY <2>1, <3>2 DEF WaitInv, Shape, Sees, Joining
    <3> QED
      BY <2>3, <3>1, <3>3, MovesOn
  <2> QED
    BY <1>1, <2>2, <2>3 DEF FindActive
<1>2. CASE Insert(t)
  <2>1. wait[t].pc = "insert" /\ NextKey(t) \in Key
    BY <1>2, NextKeyIsKey DEF Insert, Is
  <2>2. PICK r \in Run : /\ CreateRun(t, NextKey(t), r)
                         /\ Become(t, [wait[t] EXCEPT !.pc = "joined", !.run = r])
    BY <1>2 DEF Insert
  <2>3. [StoreNext]_storeVars
    BY <2>1, <2>2 DEF StoreNext
  <2>4. KnownIn(run', r)
    BY <2>1, <2>2 DEF CreateRun, KnownIn, WaitInv, StoreTypeOK
  <2> QED
    BY <2>1, <2>2, <2>3, <2>4, Joins
<1>3. CASE InsertRejected(t)
  <2> DEFINE w == [wait[t] EXCEPT !.pc = "find"]
  <2>1. UNCHANGED storeVars /\ Become(t, w) /\ wait[t].pc = "insert"
    BY <1>3 DEF InsertRejected, Go, Become, LocalOnly, Is
  <2>2. /\ w \in WaitState /\ w.pc = "find" /\ w.mine = wait[t].mine
        /\ w.todo = wait[t].todo
    BY DEF WaitInv, WaitState, PC, Joining
  <2> HIDE DEF w
  <2>3. Shape(w, t) /\ Sees(w, run)
    BY <2>1, <2>2 DEF WaitInv, Shape, Sees, Joining
  <2> QED
    BY <2>1, <2>3, MovesOn
<1>4. CASE ReportJoin(t)
  <2> DEFINE joined == [wait[t] EXCEPT !.mine = Append(@, wait[t].run), !.run = NoRun]
  <2>1. /\ wait[t].pc = "joined" /\ wait[t].run \in Run /\ KnownIn(run, wait[t].run)
        /\ wait[t].mine \in Seq(Run) /\ wait[t] \in WaitState
        /\ \A i \in DOMAIN wait[t].mine : KnownIn(run, wait[t].mine[i])
        /\ \A i \in DOMAIN wait[t].todo : KnownIn(run, wait[t].todo[i])
    BY <1>4 DEF ReportJoin, Is, WaitInv, Shape, Sees, WaitState
  <2>2. /\ joined \in WaitState /\ joined.mine = Append(wait[t].mine, wait[t].run)
        /\ joined.todo = wait[t].todo
    <3>1. Append(wait[t].mine, wait[t].run) \in Seq(Run)
      BY <2>1
    <3> QED
      BY <2>1, <3>1 DEF WaitState
  <2>3. \A i \in DOMAIN joined.mine : KnownIn(run, joined.mine[i])
    BY <2>1, <2>2
  <2>4. UNCHANGED storeVars
    BY <1>4 DEF ReportJoin, LocalOnly
  <2> HIDE DEF joined
  <2>5. \/ Become(t, [joined EXCEPT !.pc = "cancelling"])
        \/ /\ Len(joined.mine) < Len(KeysOf[t])
           /\ Become(t, [joined EXCEPT !.pc = "find"])
        \/ Become(t, Reload(joined, "dispatch"))
    BY <1>4 DEF ReportJoin, joined
  <2>6. CASE Become(t, [joined EXCEPT !.pc = "cancelling"])
    <3> DEFINE w == [joined EXCEPT !.pc = "cancelling"]
    <3>1. /\ w \in WaitState /\ w.pc = "cancelling" /\ w.mine = joined.mine
          /\ w.todo = joined.todo
      BY <2>2 DEF WaitState, PC
    <3> HIDE DEF w
    <3>2. Shape(w, t) /\ Sees(w, run)
      BY <2>1, <2>2, <2>3, <3>1 DEF Shape, Sees, Joining
    <3> QED
      BY <2>4, <2>6, <3>2, MovesOn DEF w
  <2>7. CASE Len(joined.mine) < Len(KeysOf[t]) /\ Become(t, [joined EXCEPT !.pc = "find"])
    <3> DEFINE w == [joined EXCEPT !.pc = "find"]
    <3>1. /\ w \in WaitState /\ w.pc = "find" /\ w.mine = joined.mine
          /\ w.todo = joined.todo
      BY <2>2 DEF WaitState, PC, Joining
    <3> HIDE DEF w
    <3>2. Shape(w, t) /\ Sees(w, run)
      BY <2>1, <2>2, <2>3, <2>7, <3>1 DEF Shape, Sees, Joining
    <3> QED
      BY <2>4, <2>7, <3>2, MovesOn DEF w
  <2>8. CASE Become(t, Reload(joined, "dispatch"))
    <3> DEFINE w == Reload(joined, "dispatch")
    <3>1. w \in WaitState /\ w.pc = "load" /\ w.mine = joined.mine /\ w.todo = <<>>
      <4>1. "dispatch" \in Stage
        BY DEF Stage
      <4> QED
        BY <2>2, <4>1, ReloadFacts
    <3> HIDE DEF w
    <3>2. Shape(w, t) /\ Sees(w, run)
      BY <2>3, <3>1 DEF Shape, Sees, Joining
    <3> QED
      BY <2>4, <2>8, <3>2, MovesOn DEF w
  <2> QED
    BY <2>5, <2>6, <2>7, <2>8
<1> QED
  BY <1>1, <1>2, <1>3, <1>4

\* A step that only goes to another point of the program.
LEMMA Goes ==
  ASSUME WaitInv, [StoreNext]_storeVars, NEW t \in Task,
         \/ \E p \in Plain \cup {"cancelling", "detaching"} \cup Ended : Go(t, p)
         \/ \E s \in Stage : Become(t, Reload(wait[t], s))
  PROVE  WaitInv'
<1>1. ASSUME NEW p \in Plain \cup {"cancelling", "detaching"} \cup Ended, Go(t, p)
      PROVE  WaitInv'
  <2>1. Become(t, [wait[t] EXCEPT !.pc = p])
    BY <1>1 DEF Go, Become
  <2> QED
    BY <2>1, GoesOn, MovesOn
<1>2. ASSUME NEW s \in Stage, Become(t, Reload(wait[t], s))
      PROVE  WaitInv'
  BY <1>2, Reloads, MovesOn
<1> QED
  BY <1>1, <1>2

\* The steps that leave the table alone and end at such a point.
LEMMA QuietSteps ==
  ASSUME WaitInv, NEW t \in Task,
         \/ BeginClaims(t) \/ Submit(t) \/ Poll(t) \/ CallsDone(t) \/ NextRound(t)
         \/ BeginExpire(t) \/ EndExpire(t) \/ ReturnFinal(t) \/ EndWait(t) \/ Deadline(t)
  PROVE  [StoreNext]_storeVars /\ WaitInv'
<1>1. UNCHANGED storeVars
  BY DEF BeginClaims, Submit, Poll, CallsDone, NextRound, BeginExpire, EndExpire,
         ReturnFinal, EndWait, Deadline, LocalOnly
<1>2. \/ \E p \in Plain \cup {"cancelling", "detaching"} \cup Ended : Go(t, p)
      \/ \E s \in Stage : Become(t, Reload(wait[t], s))
  <2>1. /\ {"claim", "calls", "expire", "returned"} \subseteq Plain
        /\ {"done"} \subseteq Ended
        /\ Stage = {"dispatch", "poll", "results", "expire", "final"}
    BY DEF Plain, Waiting, Ended, Stage
  <2>2. CASE BeginClaims(t) \/ Submit(t) \/ Poll(t)
    BY <2>1, <2>2 DEF BeginClaims, Submit, Poll
  <2>3. CASE CallsDone(t)
    <3>1. \/ Become(t, Reload(wait[t], "poll"))
          \/ Become(t, Reload(wait[t], "results"))
      BY <2>3 DEF CallsDone
    <3> QED
      BY <2>1, <3>1
  <2>4. CASE NextRound(t) \/ EndExpire(t) \/ Deadline(t)
    <3>1. \/ Become(t, Reload(wait[t], "dispatch")) \/ Become(t, Reload(wait[t], "final"))
          \/ Become(t, Reload(wait[t], "expire")) \/ Go(t, "returned")
      BY <2>4 DEF NextRound, EndExpire, Deadline
    <3> QED
      BY <2>1, <3>1
  <2>5. CASE BeginExpire(t) \/ ReturnFinal(t)
    BY <2>1, <2>5 DEF BeginExpire, ReturnFinal
  <2>6. CASE EndWait(t)
    <3>1. Go(t, "cancelling") \/ Go(t, "done")
      BY <2>6 DEF EndWait
    <3> QED
      BY <2>1, <3>1
  <2> QED
    BY <2>2, <2>3, <2>4, <2>5, <2>6
<1> QED
  BY <1>1, <1>2, Goes

\* One more row has been read.
LEMMA LoadStep ==
  ASSUME WaitInv, NEW t \in Task, LoadRun(t)
  PROVE  [StoreNext]_storeVars /\ WaitInv'
<1> DEFINE r == wait[t].mine[wait[t].read + 1]
           todo == IF run[r].status \in Wanted(wait[t].stage)
                   THEN Append(wait[t].todo, r) ELSE wait[t].todo
           won == IF run[r].status = "succeeded" /\ wait[t].stage \in {"results", "final"}
                  THEN wait[t].won \cup {r} ELSE wait[t].won
           read == wait[t].read + 1
           w == [wait[t] EXCEPT !.read = read, !.todo = todo, !.won = won]
<1>1. /\ wait[t] \in WaitState /\ wait[t].pc = "load"
      /\ wait[t].mine \in Seq(Run) /\ wait[t].todo \in Seq(Run)
      /\ wait[t].read \in Nat /\ wait[t].read < Len(wait[t].mine)
      /\ wait[t].won \subseteq Run
      /\ \A i \in DOMAIN wait[t].mine : KnownIn(run, wait[t].mine[i])
      /\ \A i \in DOMAIN wait[t].todo : KnownIn(run, wait[t].todo[i])
  BY DEF LoadRun, Is, WaitInv, Shape, Sees, WaitState
<1>2. r \in Run /\ KnownIn(run, r)
  BY <1>1
<1>3. UNCHANGED storeVars /\ Become(t, w)
  BY DEF LoadRun, LocalOnly
<1>4. read \in Nat /\ won \subseteq Run
  BY <1>1, <1>2
<1>5. todo \in Seq(Run) /\ \A i \in DOMAIN todo : KnownIn(run, todo[i])
  <2> DEFINE longer == Append(wait[t].todo, r)
  <2> HIDE DEF r
  <2>1. longer \in Seq(Run) /\ \A i \in DOMAIN longer : KnownIn(run, longer[i])
    BY <1>1, <1>2
  <2> HIDE DEF longer
  <2>2. todo = longer \/ todo = wait[t].todo
    BY DEF longer
  <2> HIDE DEF todo
  <2> QED
    BY <1>1, <2>1, <2>2
<1> HIDE DEF r, todo, won, read
<1>6. /\ w \in WaitState /\ w.pc = "load" /\ w.mine = wait[t].mine /\ w.todo = todo
  BY <1>1, <1>4, <1>5 DEF WaitState
<1> HIDE DEF w
<1>7. Shape(w, t) /\ Sees(w, run)
  BY <1>1, <1>5, <1>6 DEF Shape, Sees, Joining
<1> QED
  BY <1>3, <1>7, MovesOn

\* A step to a point where the task holds the first run of its list.
LEMMA Holds ==
  ASSUME WaitInv, NEW t \in Task, wait[t].todo # <<>>, NEW p \in {"giveup", "conflict"}
  PROVE  LET w == [wait[t] EXCEPT !.pc = p] IN Shape(w, t) /\ Sees(w, run)
BY DEF WaitInv, Shape, Sees, WaitState, PC, Waiting, Joining

LEMMA ChoiceSteps ==
  ASSUME WaitInv, NEW t \in Task, ChooseAgent(t) \/ LoseClaim(t) \/ StartConflict(t)
  PROVE  [StoreNext]_storeVars /\ WaitInv'
<1>1. UNCHANGED storeVars
  BY DEF ChooseAgent, LoseClaim, StartConflict, LocalOnly
<1>2. wait[t].todo # <<>>
  BY DEF ChooseAgent, LoseClaim, StartConflict, UsesService, Is, WaitInv, Shape
<1>3. CASE LoseClaim(t) \/ StartConflict(t)
  <2>1. \/ Become(t, [wait[t] EXCEPT !.pc = "giveup"])
        \/ Become(t, [wait[t] EXCEPT !.pc = "conflict"])
    BY <1>3 DEF LoseClaim, StartConflict, Go, Become
  <2> QED
    BY <1>1, <1>2, <2>1, Holds, MovesOn
<1>4. CASE ChooseAgent(t)
  <2> DEFINE p == RunPlatform(Todo(t))
  <2>1. p \in Platform
    BY <1>2, TodoIsKnown
  <2>2. \/ Become(t, [wait[t] EXCEPT !.pc = "giveup"])
        \/ /\ FreeAgents(p) # {}
           /\ Become(t, [wait[t] EXCEPT !.pc = "take", !.agent = FirstFree(p)])
    BY <1>4 DEF ChooseAgent
  <2>3. CASE Become(t, [wait[t] EXCEPT !.pc = "giveup"])
    BY <1>1, <1>2, <2>3, Holds, MovesOn
  <2>4. CASE /\ FreeAgents(p) # {}
             /\ Become(t, [wait[t] EXCEPT !.pc = "take", !.agent = FirstFree(p)])
    <3> DEFINE a == FirstFree(p)
               w == [wait[t] EXCEPT !.pc = "take", !.agent = a]
    <3>1. a \in Agent
      BY <2>1, <2>4, FirstFreeIsAgent
    <3> HIDE DEF p, a
    <3>2. wait[t] \in WaitState /\ Sees(wait[t], run)
      BY DEF WaitInv
    <3>3. /\ w \in WaitState /\ w.pc = "take" /\ w.agent = a /\ w.mine = wait[t].mine
          /\ w.todo = wait[t].todo
      BY <3>1, <3>2 DEF WaitState, PC, Waiting
    <3>4. Become(t, w)
      BY <2>4 DEF a
    <3> HIDE DEF w
    <3>5. Shape(w, t) /\ Sees(w, run)
      BY <1>2, <3>1, <3>2, <3>3 DEF Shape, Sees, Joining
    <3> QED
      BY <1>1, <3>4, <3>5, MovesOn
  <2> QED
    BY <2>2, <2>3, <2>4
<1> QED
  BY <1>3, <1>4

\* The steps that write the row of the first run of the list.
LEMMA RowSteps ==
  ASSUME WaitInv, NEW t \in Task,
         ClaimAgent(t) \/ GiveUp(t) \/ StartOnService(t) \/ AfterConflict(t) \/ Expire(t)
  PROVE  [StoreNext]_storeVars /\ WaitInv'
<1>1. wait[t].todo # <<>>
  BY DEF ClaimAgent, GiveUp, StartOnService, UsesService, AfterConflict, Expire, Is,
         WaitInv, Shape
<1>2. Todo(t) \in Run /\ FallbackAgent(t) \in Agent
  BY <1>1, TodoIsKnown
<1>3. \/ Become(t, Pop(t))
      \/ wait[t].pc = "expire" /\ Become(t, [wait[t] EXCEPT !.todo = Tail(@)])
  BY DEF ClaimAgent, GiveUp, StartOnService, AfterConflict, Expire, Is
<1>4. StoreNext
  <2>1. CASE ClaimAgent(t)
    <3>1. wait[t].agent \in Agent /\ ClaimWithAgent(Todo(t), wait[t].agent)
      BY <2>1 DEF ClaimAgent, Is, WaitInv, Shape
    <3> QED
      BY <1>2, <3>1 DEF StoreNext
  <2>2. CASE GiveUp(t)
    BY <1>2, <2>2 DEF GiveUp, StoreNext
  <2>3. CASE StartOnService(t)
    BY <1>2, <2>3 DEF StartOnService, StoreNext
  <2>4. CASE AfterConflict(t)
    BY <1>2, <2>4 DEF AfterConflict, StoreNext
  <2>5. CASE Expire(t)
    BY <1>2, <2>5 DEF Expire, StoreNext
  <2> QED
    BY <2>1, <2>2, <2>3, <2>4, <2>5
<1> QED
  BY <1>1, <1>3, <1>4, Pops, MovesOn

LEMMA CancelSteps ==
  ASSUME WaitInv, NEW t \in Task, ReadRuns(t) \/ Detach(t)
  PROVE  [StoreNext]_storeVars /\ WaitInv'
<1>1. StoreNext
  BY DEF ReadRuns, Detach, StoreNext
<1>2. \E p \in Plain \cup {"cancelling", "detaching"} \cup Ended : Go(t, p)
  <2>1. Go(t, "detaching") \/ Go(t, "cancelled")
    BY DEF ReadRuns, Detach
  <2> QED
    BY <2>1 DEF Ended
<1> QED
  BY <1>1, <1>2, Goes

\* The worker dies and the activity starts over.
LEMMA CrashStep ==
  ASSUME WaitInv, NEW t \in Task, Crash(t)
  PROVE  [StoreNext]_storeVars /\ WaitInv'
<1>1. [StoreNext]_storeVars
  <2>1. CancelAbort(t) \/ UNCHANGED storeVars
    BY DEF Crash
  <2> QED
    BY <2>1 DEF StoreNext
<1>2. Become(t, Restarted(wait[t])) /\ wait[t] \in WaitState
  BY DEF Crash, WaitInv
<1>3. CASE wait[t].pc \in Joining
  <2> DEFINE w == [wait[t] EXCEPT !.pc = "find", !.run = NoRun]
  <2>1. Restarted(wait[t]) = w
    BY <1>3 DEF Restarted, Joining, Waiting
  <2>2. /\ w \in WaitState /\ w.pc = "find" /\ w.mine = wait[t].mine
        /\ w.todo = wait[t].todo
    BY <1>2 DEF WaitState, PC, Joining
  <2> HIDE DEF w
  <2>3. Shape(w, t) /\ Sees(w, run)
    BY <1>3, <2>2 DEF WaitInv, Shape, Sees
  <2> QED
    BY <1>1, <1>2, <2>1, <2>3, MovesOn
<1>4. CASE wait[t].pc \in Waiting
  <2>1. Restarted(wait[t]) = Reload(wait[t], "dispatch") /\ "dispatch" \in Stage
    BY <1>4 DEF Restarted, Joining, Waiting, Stage
  <2> QED
    BY <1>1, <1>2, <2>1, Goes
<1>5. CASE wait[t].pc \notin Joining \cup Waiting
  <2>1. Restarted(wait[t]) = [wait[t] EXCEPT !.pc = "cancelling"]
    BY <1>5 DEF Restarted
  <2>2. Go(t, "cancelling")
    BY <1>2, <2>1 DEF Go, Become
  <2> QED
    BY <1>1, <2>2, Goes
<1> QED
  BY <1>3, <1>4, <1>5

\* The end of an HTTP call: the only half of it that writes the table.
LEMMA ApplyStep ==
  ASSUME WaitInv, NEW t \in Task, NEW r \in Run, Apply(t, r)
  PROVE  [StoreNext]_storeVars /\ WaitInv'
<1>1. CompleteRun(r) \/ FailRun(r) \/ UNCHANGED storeVars
  BY DEF Apply, Record
<1>2. [StoreNext]_storeVars
  BY <1>1 DEF StoreNext
<1>3. wait' = wait
  BY DEF Apply
<1> QED
  BY <1>2, <1>3, NobodyMoves

LEMMA WaitStep == WaitInv /\ [WaitNext]_vars => [StoreNext]_storeVars /\ WaitInv'
<1> SUFFICES ASSUME WaitInv, [WaitNext]_vars
             PROVE  [StoreNext]_storeVars /\ WaitInv'
  OBVIOUS
<1>1. ASSUME NEW t \in Task, TaskStep(t)
      PROVE  [StoreNext]_storeVars /\ WaitInv'
  BY <1>1, JoinSteps, QuietSteps, LoadStep, ChoiceSteps, RowSteps, CancelSteps DEF TaskStep
<1>2. ASSUME UNCHANGED storeVars, wait' = wait
      PROVE  [StoreNext]_storeVars /\ WaitInv'
  BY <1>2, NobodyMoves
<1>3. ASSUME NEW t \in Task, NEW r \in Run, CallStep(t, r)
      PROVE  [StoreNext]_storeVars /\ WaitInv'
  <2>1. CASE Apply(t, r)
    BY <2>1, ApplyStep
  <2>2. CASE Post(t, r) \/ PostAnswered(t, r) \/ Get(t, r)
    BY <1>2, <2>2 DEF Post, PostAnswered, Get, CallOnly
  <2> QED
    BY <1>3, <2>1, <2>2 DEF CallStep
<1>4. CASE ServiceStep
  BY <1>2, <1>4 DEF ServiceStep
<1>5. ASSUME NEW t \in Task, Deadline(t) \/ RequestCancel(t) \/ Crash(t)
      PROVE  [StoreNext]_storeVars /\ WaitInv'
  <2>1. CASE RequestCancel(t)
    BY <1>2, <2>1 DEF RequestCancel
  <2> QED
    BY <1>5, <2>1, QuietSteps, CrashStep
<1>6. CASE \/ \E t \in Task, r \in Run : LoseCall(t, r)
           \/ \E p \in Platform : RestartService(p)
  BY <1>2, <1>6 DEF LoseCall, RestartService, CallOnly
<1>7. CASE UNCHANGED vars
  BY <1>2, <1>7 DEF vars
<1> QED
  BY <1>1, <1>3, <1>4, <1>5, <1>6, <1>7 DEF WaitNext, Fault

-----------------------------------------------------------------------------
\* Whatever the workflows do, they use the tables as RunStore says: their initial
\* states are its initial states and every step is one of its transactions or
\* leaves the tables alone.
THEOREM WaitImplementsStore == WaitSpec => StoreSpec
<1>1. WaitInit => StoreInit
  BY DEF WaitInit
<1> QED
  BY <1>1, WaitInitially, WaitStep, PTL DEF WaitSpec, StoreSpec

\* Dispatchers that work from what they read before, share runs, crash, time out and
\* cancel never make two active runs of an identity or two runs of an agent
\* (the indexes of collection_runs in the workflows that use them).
THEOREM WorkflowsKeepTheStoreExclusive == WaitSpec => []StoreIsExclusive
  BY WaitImplementsStore, StoreIsAlwaysExclusive, PTL

\* A run that a workflow has seen end stays ended, also for a dispatcher with an
\* older list.
THEOREM WorkflowsKeepFinalRunsFinal == WaitSpec => FinalStaysFinal
  BY WaitImplementsStore, FinalIsFinal, PTL

-----------------------------------------------------------------------------
(* What a task does with its runs.                                         *)
Has(w, r) == \E i \in DOMAIN w.mine : w.mine[i] = r
Lists(w, r) == \E i \in DOMAIN w.todo : w.todo[i] = r
Over(rows, r) == rows[r].status \in Final

\* A task has one run for each of its first keys, and works on no others.
Fits(w, t, rows) ==
  /\ Len(w.mine) <= Len(KeysOf[t])
  /\ \A i \in DOMAIN w.mine : rows[w.mine[i]].key = KeysOf[t][i]
  /\ w.pc = "joined" => rows[w.run].key = KeysOf[t][Len(w.mine) + 1]
  /\ \A i \in DOMAIN w.todo : Has(w, w.todo[i])

\* What a task has not put on its list is over, and stays so.
Settled(w, rows) ==
  /\ w.read <= Len(w.mine)
  /\ w.pc = "load" /\ w.stage \in {"results", "expire"} =>
       \A i \in 1 .. w.read : Over(rows, w.mine[i]) \/ Lists(w, w.mine[i])
  /\ w.pc = "expire" =>
       \A i \in DOMAIN w.mine : Over(rows, w.mine[i]) \/ Lists(w, w.mine[i])
  /\ (w.pc = "load" /\ w.stage = "final") \/ w.pc \in {"returned", "done"} =>
       \A i \in DOMAIN w.mine : Over(rows, w.mine[i])

\* The active runs to which a task is linked are those that it has or is about to
\* have: a crash between the link and the answer loses none.
Linked(w, t, rows, links) ==
  \A r \in Run : <<r, t>> \in links =>
    /\ KnownIn(rows, r)
    /\ \E i \in DOMAIN KeysOf[t] : rows[r].key = KeysOf[t][i]
    /\ rows[r].status \in Active =>
         \/ Has(w, r)
         \/ w.pc \in {"find", "insert"} /\ rows[r].key = KeysOf[t][Len(w.mine) + 1]
         \/ w.pc = "joined" /\ r = w.run

\* A cancelling transaction has read all that the task is linked to.
Cancels(w, t) ==
  /\ \A r \in cancelTxn[t].runs : <<r, t>> \in link
  /\ w.pc = "detaching" => cancelTxn[t].open /\ LinkedActiveRuns(t) \subseteq cancelTxn[t].runs
  /\ w.pc = "cancelled" => LinkedActiveRuns(t) = {}

Follows(w, t) == Fits(w, t, run) /\ Settled(w, run) /\ Linked(w, t, run, link)

TaskInv(t) == Follows(wait[t], t) /\ Cancels(wait[t], t)

LEMMA RowsGoOn ==
  ASSUME StoreTypeOK, [StoreNext]_storeVars, NEW r \in Run
  PROVE  /\ KnownIn(run, r) =>
              /\ KnownIn(run', r) /\ run'[r].key = run[r].key
              /\ run'[r].status \in Active => run[r].status \in Active
         /\ Over(run, r) => Over(run', r)
         /\ run[r].status = "running" => run'[r].status = "running" \/ Over(run', r)
<1>1. StepKind
  BY EveryStepHasAKind
<1>2. KnownIn(run, r) => KnownIn(run', r) /\ run'[r].key = run[r].key
  BY KnownStays
<1>3. Over(run, r) => Over(run', r)
  BY <1>1 DEF StepKind, Retiring, Claiming, Creating, SameStanding, Over, IsFinal, Final,
     Dispatchable
<1>4. KnownIn(run, r) /\ run'[r].status \in Active => run[r].status \in Active
  <2>1. KnownIn(run, r) => run[r].status \in Active \cup Final
    BY DEF StoreTypeOK, Row, RunStatus, KnownIn
  <2> QED
    BY <2>1, <1>3 DEF Over, Active, Final
<1>5. run[r].status = "running" => run'[r].status = "running" \/ Over(run', r)
  BY <1>1 DEF StepKind, Retiring, Claiming, Creating, SameStanding, Over, IsFinal, Final,
     Dispatchable
<1> QED
  BY <1>2, <1>3, <1>4, <1>5

SameLinks(t) == \A r \in Run : <<r, t>> \in link' <=> <<r, t>> \in link
NoNewLinks(t) == \A r \in Run : <<r, t>> \in link' => <<r, t>> \in link

\* Others may change the table meanwhile.
LEMMA FollowsStays ==
  ASSUME StoreTypeOK, [StoreNext]_storeVars, NEW t \in Task, NoNewLinks(t),
         NEW w \in WaitState, w.pc = "joined" => w.run \in Run, Sees(w, run),
         Follows(w, t)
  PROVE  Fits(w, t, run') /\ Settled(w, run') /\ Linked(w, t, run', link')
<1> USE DEF Follows
<1>1. /\ w.mine \in Seq(Run) /\ w.read \in Nat
      /\ \A i \in DOMAIN w.mine : w.mine[i] \in Run /\ KnownIn(run, w.mine[i])
      /\ w.pc = "joined" => w.run \in Run /\ KnownIn(run, w.run)
  BY DEF WaitState, Sees
<1>2. Fits(w, t, run')
  <2>1. \A i \in DOMAIN w.mine : run'[w.mine[i]].key = KeysOf[t][i]
    BY <1>1, RowsGoOn DEF Fits
  <2>2. w.pc = "joined" => run'[w.run].key = KeysOf[t][Len(w.mine) + 1]
    BY <1>1, RowsGoOn DEF Fits
  <2> QED
    BY <2>1, <2>2 DEF Fits
<1>3. Settled(w, run')
  <2>1. \A i \in DOMAIN w.mine : Over(run, w.mine[i]) => Over(run', w.mine[i])
    BY <1>1, RowsGoOn
  <2>2. w.read <= Len(w.mine) => 1 .. w.read \subseteq DOMAIN w.mine
    BY <1>1
  <2> QED
    BY <2>1, <2>2 DEF Settled
<1>4. Linked(w, t, run', link')
  <2> SUFFICES ASSUME NEW r \in Run, <<r, t>> \in link'
               PROVE  /\ KnownIn(run', r)
                      /\ \E i \in DOMAIN KeysOf[t] : run'[r].key = KeysOf[t][i]
                      /\ run'[r].status \in Active =>
                           \/ Has(w, r)
                           \/ w.pc \in {"find", "insert"} /\ run'[r].key = KeysOf[t][Len(w.mine) + 1]
                           \/ w.pc = "joined" /\ r = w.run
    BY DEF Linked
  <2>1. <<r, t>> \in link
    BY DEF NoNewLinks
  <2>2. /\ KnownIn(run', r) /\ run'[r].key = run[r].key
        /\ run'[r].status \in Active => run[r].status \in Active
    BY <2>1, RowsGoOn DEF Linked
  <2> QED
    BY <2>1, <2>2 DEF Linked
<1> QED
  BY <1>2, <1>3, <1>4

LEMMA OtherStays ==
  ASSUME WaitInv, [StoreNext]_storeVars, NEW t \in Task, TaskInv(t),
         wait'[t] = wait[t], cancelTxn'[t] = cancelTxn[t], SameLinks(t)
  PROVE  TaskInv(t)'
<1>1. /\ StoreTypeOK /\ wait[t] \in WaitState /\ Sees(wait[t], run)
      /\ wait[t].pc = "joined" => wait[t].run \in Run
      /\ Follows(wait[t], t) /\ Cancels(wait[t], t)
  BY DEF WaitInv, Shape, TaskInv
<1> DEFINE w == wait[t]
<1>2. Fits(w, t, run') /\ Settled(w, run') /\ Linked(w, t, run', link')
  BY <1>1, FollowsStays DEF SameLinks, NoNewLinks
<1>3. LinkedActiveRuns(t)' \subseteq LinkedActiveRuns(t)
  <2> SUFFICES ASSUME NEW r \in Run, <<r, t>> \in link', run'[r].status \in Active
               PROVE  r \in LinkedActiveRuns(t)
    BY DEF LinkedActiveRuns, IsActive
  <2>1. <<r, t>> \in link /\ KnownIn(run, r)
    BY <1>1 DEF SameLinks, Follows, Linked
  <2>2. run[r].status \in Active
    BY <1>1, <2>1, RowsGoOn
  <2> QED
    BY <2>1, <2>2 DEF LinkedActiveRuns, IsActive
<1>4. cancelTxn[t].runs \subseteq Run
  BY <1>1 DEF StoreTypeOK, CancelTxn
<1>5. Cancels(wait[t], t)'
  BY <1>1, <1>3, <1>4 DEF Cancels, SameLinks
<1>6. Follows(wait[t], t)'
  BY <1>2 DEF Follows
<1> QED
  BY <1>5, <1>6 DEF TaskInv

\* A waiting task that keeps its runs has them still.
LEMMA Advances ==
  ASSUME WaitInv, [StoreNext]_storeVars, NEW t \in Task, TaskInv(t),
         cancelTxn'[t] = cancelTxn[t], SameLinks(t), wait[t].pc \in Waiting,
         NEW w \in WaitState, Become(t, w), w.mine = wait[t].mine,
         w.pc \in Waiting \cup {"cancelling", "done"},
         \A i \in DOMAIN w.todo : Has(w, w.todo[i]), Settled(w, run')
  PROVE  TaskInv(t)'
<1>1. /\ StoreTypeOK /\ wait[t] \in WaitState /\ Sees(wait[t], run)
      /\ wait[t].pc \notin Joining /\ w.pc \notin Joining \cup {"detaching", "cancelled"}
      /\ Follows(wait[t], t) /\ Cancels(wait[t], t)
  BY DEF WaitInv, Shape, TaskInv, Waiting, Joining
<1>2. Fits(wait[t], t, run') /\ Linked(wait[t], t, run', link')
  BY <1>1, FollowsStays DEF Joining, SameLinks, NoNewLinks
<1>3. wait'[t] = w
  BY DEF Become, WaitInv
<1>4. Fits(w, t, run')
  BY <1>1, <1>2 DEF Fits, Joining
<1>5. Linked(w, t, run', link')
  BY <1>1, <1>2 DEF Linked, Has, Joining
<1>6. Follows(wait[t], t)'
  BY <1>3, <1>4, <1>5 DEF Follows
<1>7. cancelTxn[t].runs \subseteq Run
  BY <1>1 DEF StoreTypeOK, CancelTxn
<1>8. Cancels(wait[t], t)'
  BY <1>1, <1>3, <1>7 DEF Cancels, SameLinks
<1> QED
  BY <1>6, <1>8 DEF TaskInv

LinksStay == UNCHANGED <<link, cancelTxn>>

\* A task that is not reading results has nothing to keep track of.
LEMMA MovesCalmly ==
  ASSUME WaitInv, [StoreNext]_storeVars, NEW t \in Task, TaskInv(t), LinksStay,
         wait[t].pc \in Waiting,
         NEW w \in WaitState, Become(t, w), w.mine = wait[t].mine, w.read = wait[t].read,
         w.pc \in {"claim", "take", "giveup", "conflict", "calls", "cancelling"},
         w.todo = wait[t].todo \/ (wait[t].todo # <<>> /\ w.todo = Tail(wait[t].todo))
  PROVE  TaskInv(t)'
<1>1. wait[t] \in WaitState /\ Fits(wait[t], t, run) /\ Settled(wait[t], run)
  BY DEF WaitInv, TaskInv, Follows
<1>2. \A i \in DOMAIN w.todo : Has(w, w.todo[i])
  <2>1. \A i \in DOMAIN wait[t].todo : Has(w, wait[t].todo[i])
    BY <1>1 DEF Fits, Has
  <2>2. CASE wait[t].todo # <<>> /\ w.todo = Tail(wait[t].todo)
    <3> SUFFICES ASSUME NEW i \in DOMAIN w.todo PROVE Has(w, w.todo[i])
      OBVIOUS
    <3>1. wait[t].todo \in Seq(Run)
      BY <1>1 DEF WaitState
    <3>2. i + 1 \in DOMAIN wait[t].todo /\ w.todo[i] = wait[t].todo[i + 1]
      BY <2>2, <3>1
    <3> QED
      BY <2>1, <3>2
  <2> QED
    BY <2>1, <2>2
<1>3. Settled(w, run')
  BY <1>1 DEF Settled
<1>4. w.pc \in Waiting \cup {"cancelling", "done"}
  BY DEF Waiting
<1>5. cancelTxn'[t] = cancelTxn[t] /\ SameLinks(t)
  BY DEF LinksStay, SameLinks
<1> QED
  BY <1>2, <1>3, <1>4, <1>5, Advances

LEMMA StartsOver ==
  ASSUME WaitInv, [StoreNext]_storeVars, NEW t \in Task, TaskInv(t), LinksStay,
         wait[t].pc \in Waiting, NEW s \in Stage, Become(t, Reload(wait[t], s)),
         s = "final" => \A i \in DOMAIN wait[t].mine : Over(run', wait[t].mine[i])
  PROVE  TaskInv(t)'
<1> DEFINE w == Reload(wait[t], s)
<1>1. wait[t] \in WaitState
  BY DEF WaitInv
<1>2. /\ w \in WaitState /\ w.pc = "load" /\ w.mine = wait[t].mine /\ w.todo = <<>>
  BY <1>1, ReloadFacts
<1>3. w.read = 0 /\ w.stage = s
  BY DEF Reload
<1> HIDE DEF w
<1>4. Settled(w, run')
  BY <1>2, <1>3 DEF Settled, WaitState
<1>5. w.pc \in Waiting \cup {"cancelling", "done"}
  BY <1>2 DEF Waiting
<1>6. cancelTxn'[t] = cancelTxn[t] /\ SameLinks(t)
  BY DEF LinksStay, SameLinks
<1> QED
  BY <1>2, <1>4, <1>5, <1>6, Advances DEF w

\* A task that only goes to p.
LEMMA GoFacts ==
  ASSUME WaitInv, NEW t \in Task, NEW p \in PC, Go(t, p)
  PROVE  LET w == [wait[t] EXCEPT !.pc = p]
         IN  /\ Become(t, w) /\ w \in WaitState /\ w.pc = p /\ w.stage = wait[t].stage
             /\ w.mine = wait[t].mine /\ w.read = wait[t].read /\ w.todo = wait[t].todo
             /\ w.won = wait[t].won
  BY DEF WaitInv, Go, Become, WaitState

LEMMA PopFacts ==
  ASSUME WaitInv, NEW t \in Task, wait[t].todo # <<>>
  PROVE  /\ Pop(t) \in WaitState /\ Pop(t).pc = "claim" /\ Pop(t).stage = wait[t].stage
         /\ Pop(t).mine = wait[t].mine /\ Pop(t).read = wait[t].read
         /\ Pop(t).todo = Tail(wait[t].todo) /\ Pop(t).won = wait[t].won
  <1>1. wait[t] \in WaitState /\ Tail(wait[t].todo) \in Seq(Run)
    BY TodoIsKnown DEF WaitInv
  <1> QED
    BY <1>1 DEF Pop, WaitState, PC, Waiting

\* The steps of the dispatch and of the polls.
LEMMA DispatchFollows ==
  ASSUME WaitInv, NEW t \in Task, TaskInv(t),
         \/ BeginClaims(t) \/ ChooseAgent(t) \/ ClaimAgent(t) \/ LoseClaim(t) \/ GiveUp(t)
         \/ StartOnService(t) \/ StartConflict(t) \/ AfterConflict(t) \/ Submit(t) \/ Poll(t)
  PROVE  TaskInv(t)'
<1>1. [StoreNext]_storeVars
  BY QuietSteps, ChoiceSteps, RowSteps
<1>2. LinksStay
  BY DEF LinksStay, BeginClaims, ChooseAgent, ClaimAgent, LoseClaim, GiveUp, StartOnService,
     StartConflict, AfterConflict, Submit, Poll, LocalOnly, storeVars, ClaimWithAgent,
     SetRunning, MarkWaiting, StartRun, WaitAfterAgentConflict
<1>3. wait[t].pc \in Waiting
  BY DEF BeginClaims, ChooseAgent, ClaimAgent, LoseClaim, GiveUp, StartOnService,
     StartConflict, AfterConflict, Submit, Poll, UsesService, Loaded, Is, Waiting
<1>4. ASSUME NEW p \in {"claim", "giveup", "conflict", "calls"}, Go(t, p)
      PROVE  TaskInv(t)'
  <2>1. p \in PC
    BY DEF PC, Waiting
  <2> DEFINE w == [wait[t] EXCEPT !.pc = p]
  <2>2. /\ Become(t, w) /\ w \in WaitState /\ w.pc = p
        /\ w.mine = wait[t].mine /\ w.read = wait[t].read /\ w.todo = wait[t].todo
    BY <1>4, <2>1, GoFacts
  <2> HIDE DEF w
  <2>3. /\ w.pc \in {"claim", "take", "giveup", "conflict", "calls", "cancelling"}
        /\ w.todo = wait[t].todo \/ (wait[t].todo # <<>> /\ w.todo = Tail(wait[t].todo))
    BY <2>2
  <2> QED
    BY <1>1, <1>2, <1>3, <2>2, <2>3, MovesCalmly
<1>5. ASSUME wait[t].todo # <<>>, Become(t, Pop(t))
      PROVE  TaskInv(t)'
  BY <1>1, <1>2, <1>3, <1>5, PopFacts, MovesCalmly
<1>6. CASE ChooseAgent(t)
  <2> DEFINE p == RunPlatform(Todo(t))
  <2>1. wait[t].todo # <<>>
    BY <1>6 DEF ChooseAgent
  <2>2. p \in Platform
    BY <2>1, TodoIsKnown
  <2>3. \/ Go(t, "giveup")
        \/ /\ FreeAgents(p) # {}
           /\ Become(t, [wait[t] EXCEPT !.pc = "take", !.agent = FirstFree(p)])
    BY <1>6 DEF ChooseAgent, Become, Go
  <2>4. ASSUME FreeAgents(p) # {}, 
               Become(t, [wait[t] EXCEPT !.pc = "take", !.agent = FirstFree(p)])
        PROVE  TaskInv(t)'
    <3> DEFINE a == FirstFree(p)
               w == [wait[t] EXCEPT !.pc = "take", !.agent = a]
    <3>1. a \in Agent
      BY <2>2, <2>4, FirstFreeIsAgent
    <3> HIDE DEF p, a
    <3>2. wait[t] \in WaitState
      BY DEF WaitInv
    <3>3. /\ w \in WaitState /\ w.pc = "take" /\ w.mine = wait[t].mine
          /\ w.todo = wait[t].todo /\ w.read = wait[t].read
      BY <3>1, <3>2 DEF WaitState, PC, Waiting
    <3>4. Become(t, w)
      BY <2>4 DEF a
    <3> HIDE DEF w
    <3>5. /\ w.pc \in {"claim", "take", "giveup", "conflict", "calls", "cancelling"}
          /\ w.todo = wait[t].todo \/ (wait[t].todo # <<>> /\ w.todo = Tail(wait[t].todo))
      BY <3>3
    <3> QED
      BY <1>1, <1>2, <1>3, <3>3, <3>4, <3>5, MovesCalmly
  <2> QED
    BY <1>4, <2>3, <2>4
<1>7. CASE BeginClaims(t) \/ LoseClaim(t) \/ StartConflict(t) \/ Submit(t) \/ Poll(t)
  BY <1>4, <1>7 DEF BeginClaims, LoseClaim, StartConflict, Submit, Poll
<1>8. CASE ClaimAgent(t) \/ GiveUp(t) \/ StartOnService(t) \/ AfterConflict(t)
  <2>1. Become(t, Pop(t))
    BY <1>8 DEF ClaimAgent, GiveUp, StartOnService, AfterConflict
  <2>2. wait[t].todo # <<>>
    BY <1>8 DEF ClaimAgent, GiveUp, StartOnService, UsesService, AfterConflict, Is, WaitInv,
       Shape
  <2> QED
    BY <1>5, <2>1, <2>2
<1> QED
  BY <1>6, <1>7, <1>8

\* The step from one load to the next, and to the end of the wait.
LEMMA RoundFollows ==
  ASSUME WaitInv, NEW t \in Task, TaskInv(t),
         \/ CallsDone(t) \/ NextRound(t) \/ BeginExpire(t) \/ EndExpire(t) \/ ReturnFinal(t)
         \/ EndWait(t) \/ Deadline(t)
  PROVE  TaskInv(t)'
<1>1. [StoreNext]_storeVars
  BY QuietSteps
<1>2. UNCHANGED storeVars /\ LinksStay /\ wait[t].pc \in Waiting
  BY DEF LinksStay, CallsDone, NextRound, BeginExpire, EndExpire, ReturnFinal, EndWait,
     Deadline, LocalOnly, storeVars, Loaded, Is, Waiting
<1>3. /\ wait[t] \in WaitState /\ Fits(wait[t], t, run) /\ Settled(wait[t], run)
      /\ wait[t].mine \in Seq(Run) /\ wait[t].todo \in Seq(Run)
      /\ cancelTxn'[t] = cancelTxn[t] /\ SameLinks(t) /\ run' = run
  BY <1>2 DEF WaitInv, TaskInv, Follows, LinksStay, SameLinks, storeVars, WaitState
<1>4. ASSUME NEW s \in Stage, Become(t, Reload(wait[t], s)),
             s = "final" => \A i \in DOMAIN wait[t].mine : Over(run, wait[t].mine[i])
      PROVE  TaskInv(t)'
  BY <1>1, <1>2, <1>3, <1>4, StartsOver
<1>5. ASSUME NEW p \in {"expire", "returned", "done", "cancelling"}, Go(t, p),
             p = "expire" => \A i \in DOMAIN wait[t].mine :
                               Over(run, wait[t].mine[i]) \/ Lists(wait[t], wait[t].mine[i]),
             p \in {"returned", "done"} => \A i \in DOMAIN wait[t].mine :
                                             Over(run, wait[t].mine[i])
      PROVE  TaskInv(t)'
  <2> DEFINE w == [wait[t] EXCEPT !.pc = p]
  <2>1. p \in PC
    BY DEF PC, Waiting, Ended
  <2>2. /\ Become(t, w) /\ w \in WaitState /\ w.pc = p /\ w.mine = wait[t].mine
        /\ w.read = wait[t].read /\ w.todo = wait[t].todo
    BY <1>5, <2>1, GoFacts
  <2> HIDE DEF w
  <2>3. \A i \in DOMAIN w.todo : Has(w, w.todo[i])
    BY <1>3, <2>2 DEF Fits, Has
  <2>4. Settled(w, run')
    BY <1>3, <1>5, <2>2 DEF Settled, Lists
  <2>5. w.pc \in Waiting \cup {"cancelling", "done"}
    BY <2>2 DEF Waiting
  <2> QED
    BY <1>1, <1>2, <1>3, <2>2, <2>3, <2>4, <2>5, Advances
<1>6. CASE CallsDone(t)
  <2>1. \/ Become(t, Reload(wait[t], "poll"))
        \/ Become(t, Reload(wait[t], "results"))
    BY <1>6 DEF CallsDone
  <2> QED
    BY <1>4, <2>1 DEF Stage
<1>7. ASSUME Loaded(t), wait[t].stage \in {"results", "expire", "final"}
      PROVE  \A i \in DOMAIN wait[t].mine :
               /\ wait[t].stage \in {"results", "expire"} =>
                    Over(run, wait[t].mine[i]) \/ Lists(wait[t], wait[t].mine[i])
               /\ wait[t].stage = "final" => Over(run, wait[t].mine[i])
  BY <1>3, <1>7 DEF Loaded, Is, Settled
<1>8. CASE NextRound(t)
  <2>1. CASE wait[t].todo = <<>> /\ Go(t, "returned")
    <3>1. \A i \in DOMAIN wait[t].mine : Over(run, wait[t].mine[i])
      BY <1>7, <1>8, <2>1 DEF NextRound, Lists
    <3> QED
      BY <1>5, <2>1, <3>1
  <2>2. CASE Become(t, Reload(wait[t], "dispatch"))
    BY <1>4, <2>2 DEF Stage
  <2> QED
    BY <1>8, <2>1, <2>2 DEF NextRound
<1>9. CASE Deadline(t)
  BY <1>4, <1>9 DEF Deadline, Stage
<1>10. CASE BeginExpire(t)
  BY <1>5, <1>7, <1>10 DEF BeginExpire
<1>11. CASE EndExpire(t)
  <2>1. \A i \in DOMAIN wait[t].mine : Over(run, wait[t].mine[i])
    BY <1>3, <1>11 DEF EndExpire, Is, Settled, Lists
  <2> QED
    BY <1>4, <1>11, <2>1 DEF EndExpire, Stage
<1>12. CASE ReturnFinal(t)
  BY <1>5, <1>7, <1>12 DEF ReturnFinal
<1>13. CASE EndWait(t)
  <2>1. \A i \in DOMAIN wait[t].mine : Over(run, wait[t].mine[i])
    BY <1>3, <1>13 DEF EndWait, Is, Settled
  <2>2. Go(t, "cancelling") \/ Go(t, "done")
    BY <1>13 DEF EndWait
  <2> QED
    BY <1>5, <2>1, <2>2
<1> QED
  BY <1>6, <1>8, <1>9, <1>10, <1>11, <1>12, <1>13

\* One more of the task's runs has been read.
LEMMA LoadFollows ==
  ASSUME WaitInv, NEW t \in Task, TaskInv(t), LoadRun(t)
  PROVE  TaskInv(t)'
<1> DEFINE next == wait[t].read + 1
           r == wait[t].mine[next]
           keep == run[r].status \in Wanted(wait[t].stage)
           success == run[r].status = "succeeded" /\ wait[t].stage \in {"results", "final"}
           todo == IF keep THEN Append(wait[t].todo, r) ELSE wait[t].todo
           won == IF success THEN wait[t].won \cup {r} ELSE wait[t].won
           w == [wait[t] EXCEPT !.read = next, !.todo = todo, !.won = won]
<1>1. /\ wait[t] \in WaitState /\ wait[t].pc = "load"
      /\ wait[t].mine \in Seq(Run) /\ wait[t].todo \in Seq(Run)
      /\ wait[t].read \in Nat /\ wait[t].read < Len(wait[t].mine)
      /\ wait[t].won \subseteq Run
      /\ \A i \in DOMAIN wait[t].mine : KnownIn(run, wait[t].mine[i])
      /\ Fits(wait[t], t, run) /\ Settled(wait[t], run)
  BY DEF LoadRun, Is, WaitInv, Sees, WaitState, TaskInv, Follows
<1>2. next \in DOMAIN wait[t].mine /\ next \in Nat /\ r \in Run /\ KnownIn(run, r)
  BY <1>1
<1>3. /\ UNCHANGED storeVars /\ Become(t, w) /\ run' = run
      /\ cancelTxn'[t] = cancelTxn[t] /\ SameLinks(t)
  BY DEF LoadRun, LocalOnly, storeVars, SameLinks
<1>4. won \subseteq Run
  BY <1>1, <1>2
<1>5. /\ todo \in Seq(Run)
      /\ \A s \in Run : Lists(wait[t], s) => \E i \in DOMAIN todo : todo[i] = s
      /\ keep => \E i \in DOMAIN todo : todo[i] = r
      /\ \A i \in DOMAIN todo : Has(wait[t], todo[i])
  <2> DEFINE longer == Append(wait[t].todo, r)
  <2>0. Has(wait[t], r)
    BY <1>2 DEF Has
  <2> HIDE DEF r, keep
  <2>1. /\ longer \in Seq(Run) /\ DOMAIN longer = 1 .. Len(wait[t].todo) + 1
        /\ \A i \in DOMAIN wait[t].todo : longer[i] = wait[t].todo[i]
        /\ longer[Len(wait[t].todo) + 1] = r /\ Len(wait[t].todo) \in Nat
        /\ DOMAIN wait[t].todo = 1 .. Len(wait[t].todo)
    BY <1>1, <1>2
  <2> HIDE DEF longer
  <2>2. \A i \in DOMAIN wait[t].todo : Has(wait[t], wait[t].todo[i])
    BY <1>1 DEF Fits
  <2>3. \A i \in DOMAIN longer : i \in DOMAIN wait[t].todo \/ i = Len(wait[t].todo) + 1
    BY <2>1
  <2>4. \A i \in DOMAIN longer : Has(wait[t], longer[i])
    BY <2>0, <2>1, <2>2, <2>3
  <2>5. Len(wait[t].todo) + 1 \in DOMAIN longer /\ DOMAIN wait[t].todo \subseteq DOMAIN longer
    BY <2>1
  <2>6. CASE keep
    <3>1. todo = longer
      BY <2>6 DEF longer
    <3> HIDE DEF todo
    <3> QED
      BY <2>1, <2>4, <2>5, <3>1 DEF Lists
  <2>7. CASE ~keep
    <3>1. todo = wait[t].todo
      BY <2>7
    <3> HIDE DEF todo
    <3> QED
      BY <1>1, <2>2, <2>7, <3>1 DEF Lists
  <2> QED
    BY <2>6, <2>7
<1>6. /\ wait[t].stage \in {"results", "expire"} => Over(run, r) \/ keep
      /\ wait[t].stage = "final" => Over(run, r)
  <2>1. run[r].status \in Active \cup Final
    BY <1>2 DEF WaitInv, StoreTypeOK, Row, RunStatus, KnownIn
  <2>2. wait[t].stage = "final" => Over(run, r)
    BY <1>1, <1>2 DEF Settled
  <2> QED
    BY <2>1, <2>2 DEF Wanted, Over
<1> HIDE DEF r, todo, won, keep, success
<1>7. /\ w \in WaitState /\ w.pc = "load" /\ w.stage = wait[t].stage
      /\ w.mine = wait[t].mine /\ w.todo = todo /\ w.read = next
  BY <1>1, <1>2, <1>4, <1>5 DEF WaitState
<1> HIDE DEF w
<1>8. \A i \in DOMAIN w.todo : Has(w, w.todo[i])
  BY <1>5, <1>7 DEF Has
<1>9. Settled(w, run')
  <2>1. w.read <= Len(w.mine)
    BY <1>1, <1>7
  <2>2. ASSUME w.stage \in {"results", "expire"}, NEW i \in 1 .. w.read
        PROVE  Over(run', w.mine[i]) \/ Lists(w, w.mine[i])
    <3>1. CASE i = next
      <4>1. w.mine[i] = r
        BY <1>7, <3>1 DEF r
      <4> QED
        BY <1>3, <1>5, <1>6, <1>7, <2>2, <4>1 DEF Lists
    <3>2. CASE i # next
      <4>1. i \in 1 .. wait[t].read /\ w.mine[i] \in Run
        BY <1>1, <1>7, <3>2
      <4>2. Over(run, w.mine[i]) \/ Lists(wait[t], w.mine[i])
        BY <1>1, <1>7, <2>2, <4>1 DEF Settled
      <4> QED
        BY <1>3, <1>5, <1>7, <4>1, <4>2 DEF Lists
    <3> QED
      BY <3>1, <3>2
  <2>3. w.stage = "final" => \A i \in DOMAIN w.mine : Over(run', w.mine[i])
    BY <1>1, <1>3, <1>7 DEF Settled
  <2> HIDE DEF next
  <2> QED
    BY <1>7, <2>1, <2>2, <2>3 DEF Settled
<1>10. wait[t].pc \in Waiting /\ w.pc \in Waiting \cup {"cancelling", "done"}
  BY <1>1, <1>7 DEF Waiting
<1>11. [StoreNext]_storeVars
  BY <1>3
<1> QED
  BY <1>3, <1>7, <1>8, <1>9, <1>10, <1>11, Advances

\* The first run of the list is over, the others are still on it.
LEMMA ExpireFollows ==
  ASSUME WaitInv, NEW t \in Task, TaskInv(t), Expire(t)
  PROVE  TaskInv(t)'
<1> DEFINE w == [wait[t] EXCEPT !.todo = Tail(@)]
<1>1. /\ wait[t] \in WaitState /\ wait[t].pc = "expire" /\ wait[t].todo # <<>>
      /\ wait[t].mine \in Seq(Run) /\ wait[t].todo \in Seq(Run)
      /\ Fits(wait[t], t, run) /\ Settled(wait[t], run)
      /\ StoreTypeOK /\ Todo(t) \in Run /\ KnownIn(run, Todo(t))
  BY TodoIsKnown DEF Expire, Is, WaitInv, WaitState, TaskInv, Follows
<1>2. /\ Become(t, w) /\ run' = [run EXCEPT ![Todo(t)].status = "failed"]
      /\ cancelTxn'[t] = cancelTxn[t] /\ SameLinks(t)
  BY DEF Expire, FailRun, SameLinks
<1>3. [StoreNext]_storeVars
  BY RowSteps
<1>4. /\ Tail(wait[t].todo) \in Seq(Run)
      /\ \A i \in DOMAIN Tail(wait[t].todo) : /\ i + 1 \in DOMAIN wait[t].todo
                                              /\ Tail(wait[t].todo)[i] = wait[t].todo[i + 1]
      /\ \A i \in DOMAIN wait[t].todo :
           i = 1 \/ (i - 1 \in DOMAIN Tail(wait[t].todo) /\ Tail(wait[t].todo)[i - 1] = wait[t].todo[i])
  BY <1>1
<1>5. /\ w \in WaitState /\ w.pc = "expire" /\ w.mine = wait[t].mine
      /\ w.read = wait[t].read /\ w.todo = Tail(wait[t].todo)
  BY <1>1, <1>4 DEF WaitState
<1> HIDE DEF w
<1>6. \A i \in DOMAIN w.todo : Has(w, w.todo[i])
  BY <1>1, <1>4, <1>5 DEF Fits, Has
<1>7. ASSUME NEW i \in DOMAIN w.mine
      PROVE  Over(run', w.mine[i]) \/ Lists(w, w.mine[i])
  <2>1. w.mine[i] \in Run
    BY <1>1, <1>5
  <2>2. Over(run, w.mine[i]) \/ Lists(wait[t], w.mine[i])
    BY <1>1, <1>5 DEF Settled
  <2>3. CASE Over(run, w.mine[i])
    BY <1>1, <1>3, <2>1, <2>3, RowsGoOn
  <2>4. CASE Lists(wait[t], w.mine[i])
    <3>1. PICK j \in DOMAIN wait[t].todo : wait[t].todo[j] = w.mine[i]
      BY <2>4 DEF Lists
    <3>2. CASE j = 1
      <4>1. w.mine[i] = Todo(t)
        BY <1>1, <3>1, <3>2 DEF Todo
      <4>2. run'[w.mine[i]].status = "failed"
        BY <1>1, <1>2, <4>1 DEF StoreTypeOK, Row
      <4> QED
        BY <4>2 DEF Over, Final
    <3>3. CASE j # 1
      <4>1. j - 1 \in DOMAIN w.todo /\ w.todo[j - 1] = w.mine[i]
        BY <1>4, <1>5, <3>1, <3>3
      <4> QED
        BY <4>1 DEF Lists
    <3> QED
      BY <3>2, <3>3
  <2> QED
    BY <2>2, <2>3, <2>4
<1>8. Settled(w, run')
  BY <1>1, <1>5, <1>7 DEF Settled
<1>9. wait[t].pc \in Waiting /\ w.pc \in Waiting \cup {"cancelling", "done"}
  BY <1>1, <1>5 DEF Waiting
<1> QED
  BY <1>2, <1>3, <1>5, <1>6, <1>8, <1>9, Advances

\* A task that forgets nothing that is linked to it.
LEMMA Carries ==
  ASSUME WaitInv, [StoreNext]_storeVars, NEW t \in Task, TaskInv(t),
         cancelTxn'[t] = cancelTxn[t], link \subseteq link',
         NEW w \in WaitState, Become(t, w),
         Fits(w, t, run'), Settled(w, run'), Linked(w, t, run', link'),
         w.pc \notin {"detaching", "cancelled"}
  PROVE  TaskInv(t)'
<1>1. wait'[t] = w
  BY DEF Become, WaitInv
<1>2. cancelTxn[t].runs \subseteq Run
  BY DEF WaitInv, StoreTypeOK, CancelTxn
<1>3. Cancels(wait[t], t)'
  BY <1>1, <1>2 DEF Cancels, TaskInv
<1> QED
  BY <1>1, <1>3 DEF TaskInv, Follows

\* The worker dies while the task joins its runs: the link is already there.
LEMMA CrashFollows ==
  ASSUME WaitInv, NEW t \in Task, TaskInv(t), Crash(t)
  PROVE  TaskInv(t)'
<1>1. [StoreNext]_storeVars
  BY CrashStep
<1>2. Become(t, Restarted(wait[t])) /\ wait[t] \in WaitState
  BY DEF Crash, WaitInv
<1>3. CASE wait[t].pc \in Waiting
  <2>1. Restarted(wait[t]) = Reload(wait[t], "dispatch") /\ "dispatch" \in Stage
    BY <1>3 DEF Restarted, Joining, Waiting, Stage
  <2>2. LinksStay
    BY <1>3 DEF Crash, LinksStay, storeVars, Is, Waiting
  <2> QED
    BY <1>1, <1>2, <1>3, <2>1, <2>2, StartsOver
<1>4. CASE wait[t].pc \in Joining
  <2> DEFINE w == [wait[t] EXCEPT !.pc = "find", !.run = NoRun]
  <2>1. Restarted(wait[t]) = w
    BY <1>4 DEF Restarted, Joining, Waiting
  <2>2. /\ w \in WaitState /\ w.pc = "find" /\ w.mine = wait[t].mine
        /\ w.todo = wait[t].todo /\ w.read = wait[t].read
    BY <1>2 DEF WaitState, PC, Joining
  <2> HIDE DEF w
  <2>3. UNCHANGED storeVars /\ LinksStay
    BY <1>4 DEF Crash, LinksStay, storeVars, Is, Joining
  <2>4. Fits(wait[t], t, run) /\ Settled(wait[t], run) /\ Linked(wait[t], t, run, link)
    BY DEF TaskInv, Follows
  <2>5. Fits(w, t, run) /\ Settled(w, run)
    BY <2>2, <2>4 DEF Fits, Settled, Has
  <2>6. Linked(w, t, run, link)
    <3>1. wait[t].pc = "joined" => run[wait[t].run].key = KeysOf[t][Len(wait[t].mine) + 1]
      BY <2>4 DEF Fits
    <3> QED
      BY <1>4, <2>2, <2>4, <3>1 DEF Linked, Has, Joining
  <2> QED
    BY <1>1, <1>2, <2>1, <2>2, <2>3, <2>5, <2>6, Carries DEF storeVars, LinksStay
<1>5. CASE wait[t].pc = "detaching"
  <2> DEFINE w == [wait[t] EXCEPT !.pc = "cancelling"]
  <2>1. Restarted(wait[t]) = w
    BY <1>5 DEF Restarted, Joining, Waiting
  <2>2. /\ w \in WaitState /\ w.pc = "cancelling" /\ w.mine = wait[t].mine
        /\ w.todo = wait[t].todo /\ w.read = wait[t].read
    BY <1>2 DEF WaitState, PC
  <2> HIDE DEF w
  <2>3. run' = run /\ link' = link /\ cancelTxn'[t] = NoCancelTxn /\ wait'[t] = w
    BY <1>2, <1>5, <2>1 DEF Crash, CancelAbort, Is, WaitInv, StoreTypeOK, Become
  <2>4. Fits(wait[t], t, run) /\ Settled(wait[t], run) /\ Linked(wait[t], t, run, link)
    BY DEF TaskInv, Follows
  <2>5. Fits(w, t, run) /\ Settled(w, run) /\ Linked(w, t, run, link)
    BY <1>5, <2>2, <2>4 DEF Fits, Settled, Linked, Has
  <2>6. Follows(wait[t], t)'
    BY <2>3, <2>5 DEF Follows
  <2>7. Cancels(wait[t], t)'
    BY <2>2, <2>3 DEF Cancels, NoCancelTxn
  <2> QED
    BY <2>6, <2>7 DEF TaskInv
<1> QED
  BY <1>3, <1>4, <1>5 DEF Crash

\* Where a task joins, it is after its next identity.
LEMMA JoiningFacts ==
  ASSUME WaitInv, NEW t \in Task, TaskInv(t), wait[t].pc \in Joining
  PROVE  /\ wait[t] \in WaitState /\ wait[t].mine \in Seq(Run) /\ KeysOf[t] \in Seq(Key)
         /\ Len(wait[t].mine) + 1 \in DOMAIN KeysOf[t]
         /\ NextKey(t) = KeysOf[t][Len(wait[t].mine) + 1] /\ NextKey(t) \in Key
         /\ Fits(wait[t], t, run) /\ Settled(wait[t], run) /\ Linked(wait[t], t, run, link)
<1>1. /\ wait[t] \in WaitState /\ wait[t].mine \in Seq(Run) /\ KeysOf[t] \in Seq(Key)
      /\ Len(wait[t].mine) < Len(KeysOf[t])
  BY WaitAssumption DEF WaitInv, Shape, WaitState
<1>2. Len(wait[t].mine) + 1 \in DOMAIN KeysOf[t]
  BY <1>1
<1> QED
  BY <1>1, <1>2 DEF NextKey, TaskInv, Follows

\* A task that found or made the run of its next identity: the active run of the
\* identity is the only one.
LEMMA JoinedFollows ==
  ASSUME WaitInv, [StoreNext]_storeVars, NEW t \in Task, TaskInv(t), OneActiveRunPerKey',
         wait[t].pc \in {"find", "insert"}, NEW r \in Run,
         run'[r].key = NextKey(t), KnownIn(run', r), run'[r].status \in Active,
         link' = link \cup {<<r, t>>}, cancelTxn' = cancelTxn,
         Become(t, [wait[t] EXCEPT !.pc = "joined", !.run = r])
  PROVE  TaskInv(t)'
<1> DEFINE w == [wait[t] EXCEPT !.pc = "joined", !.run = r]
<1>1. /\ wait[t] \in WaitState /\ wait[t].mine \in Seq(Run) /\ KeysOf[t] \in Seq(Key)
      /\ Len(wait[t].mine) + 1 \in DOMAIN KeysOf[t] /\ StoreTypeOK
      /\ NextKey(t) = KeysOf[t][Len(wait[t].mine) + 1]
      /\ Fits(wait[t], t, run) /\ Settled(wait[t], run) /\ Linked(wait[t], t, run, link)
  BY JoiningFacts DEF Joining, WaitInv
<1>2. /\ w \in WaitState /\ w.pc = "joined" /\ w.run = r /\ w.mine = wait[t].mine
      /\ w.todo = wait[t].todo /\ w.read = wait[t].read
  BY <1>1 DEF WaitState, PC, Joining
<1>3. \A i \in DOMAIN wait[t].mine :
        wait[t].mine[i] \in Run /\ KnownIn(run, wait[t].mine[i])
  BY <1>1 DEF WaitInv, Sees
<1> HIDE DEF w
<1>4. Fits(w, t, run')
  <2>1. \A i \in DOMAIN w.mine : run'[w.mine[i]].key = KeysOf[t][i]
    BY <1>1, <1>2, <1>3, RowsGoOn DEF Fits
  <2> QED
    BY <1>1, <1>2, <2>1 DEF Fits, Has
<1>5. Settled(w, run')
  BY <1>1, <1>2 DEF Settled
<1>6. Linked(w, t, run', link')
  <2> SUFFICES ASSUME NEW s \in Run, <<s, t>> \in link'
               PROVE  /\ KnownIn(run', s)
                      /\ \E i \in DOMAIN KeysOf[t] : run'[s].key = KeysOf[t][i]
                      /\ run'[s].status \in Active => Has(w, s) \/ s = r
    BY <1>2 DEF Linked
  <2>1. CASE s = r
    BY <1>1, <2>1
  <2>2. CASE s # r
    <3>1. <<s, t>> \in link
      BY <2>2
    <3>2. /\ KnownIn(run', s) /\ run'[s].key = run[s].key
          /\ run'[s].status \in Active => run[s].status \in Active
      BY <1>1, <3>1, RowsGoOn DEF Linked
    <3>3. run'[s].status \in Active => Has(wait[t], s) \/ run[s].key = NextKey(t)
      BY <1>1, <3>1, <3>2 DEF Linked
    <3>4. run'[s].status \in Active => Has(wait[t], s)
      BY <2>2, <3>2, <3>3 DEF OneActiveRunPerKey, IsActive
    <3> QED
      BY <1>1, <1>2, <3>1, <3>2, <3>4 DEF Linked, Has
  <2> QED
    BY <2>1, <2>2
<1> QED
  BY <1>2, <1>4, <1>5, <1>6, Carries DEF w

LEMMA JoinFollows ==
  ASSUME WaitInv, NEW t \in Task, TaskInv(t), OneActiveRunPerKey',
         FindActive(t) \/ Insert(t) \/ InsertRejected(t) \/ ReportJoin(t)
  PROVE  TaskInv(t)'
<1>1. [StoreNext]_storeVars
  BY JoinSteps
<1>2. /\ wait[t] \in WaitState /\ wait[t].mine \in Seq(Run) /\ KeysOf[t] \in Seq(Key)
      /\ Len(wait[t].mine) + 1 \in DOMAIN KeysOf[t] /\ StoreTypeOK
      /\ NextKey(t) = KeysOf[t][Len(wait[t].mine) + 1] /\ NextKey(t) \in Key
      /\ Fits(wait[t], t, run) /\ Settled(wait[t], run) /\ Linked(wait[t], t, run, link)
      /\ wait[t].pc \in Joining
  <2>1. wait[t].pc \in Joining
    BY DEF FindActive, Insert, InsertRejected, ReportJoin, Is, Joining
  <2> QED
    BY <2>1, JoiningFacts DEF WaitInv
<1>3. ASSUME UNCHANGED storeVars, NEW p \in {"find", "insert"}, Go(t, p),
             wait[t].pc \in {"find", "insert"}
      PROVE  TaskInv(t)'
  <2> DEFINE w == [wait[t] EXCEPT !.pc = p]
  <2>1. p \in PC
    BY DEF PC, Joining
  <2>2. /\ Become(t, w) /\ w \in WaitState /\ w.pc = p /\ w.mine = wait[t].mine
        /\ w.read = wait[t].read /\ w.todo = wait[t].todo
    BY <1>3, <2>1, GoFacts
  <2> HIDE DEF w
  <2>3. Fits(w, t, run) /\ Settled(w, run) /\ Linked(w, t, run, link)
    BY <1>2, <1>3, <2>2 DEF Fits, Settled, Linked, Has
  <2>4. w.pc \notin {"detaching", "cancelled"}
    BY <2>2
  <2> QED
    BY <1>1, <1>3, <2>2, <2>3, <2>4, Carries DEF storeVars
<1>4. CASE FindActive(t)
  <2>1. wait[t].pc = "find"
    BY <1>4 DEF FindActive, Is
  <2>2. ASSUME NEW r \in Run, JoinRun(t, NextKey(t), r),
               Become(t, [wait[t] EXCEPT !.pc = "joined", !.run = r])
        PROVE  TaskInv(t)'
    <3>1. /\ run[r].status \in Active /\ run[r].key = NextKey(t)
          /\ run' = [run EXCEPT ![r].shared = @ \cup {t}]
          /\ link' = link \cup {<<r, t>>} /\ cancelTxn' = cancelTxn
      BY <2>2 DEF JoinRun, AddSharer, ActiveRuns, IsActive
    <3>2. /\ run'[r].status \in Active /\ run'[r].key = NextKey(t)
      BY <1>2, <3>1 DEF StoreTypeOK, Row
    <3>3. KnownIn(run', r)
      BY <1>2, <3>2 DEF KnownIn, Active
    <3> QED
      BY <1>1, <2>1, <2>2, <3>1, <3>2, <3>3, JoinedFollows
  <2>3. \/ \E r \in Run : /\ JoinRun(t, NextKey(t), r)
                          /\ Become(t, [wait[t] EXCEPT !.pc = "joined", !.run = r])
        \/ UNCHANGED storeVars /\ Go(t, "insert")
    BY <1>4 DEF FindActive, ActiveRuns
  <2> QED
    BY <1>3, <2>1, <2>2, <2>3
<1>5. CASE Insert(t)
  <2>1. wait[t].pc = "insert"
    BY <1>5 DEF Insert, Is
  <2>2. PICK r \in Run : /\ CreateRun(t, NextKey(t), r)
                         /\ Become(t, [wait[t] EXCEPT !.pc = "joined", !.run = r])
    BY <1>5 DEF Insert
  <2>3. /\ run'[r].status = "queued" /\ run'[r].key = NextKey(t)
        /\ link' = link \cup {<<r, t>>} /\ cancelTxn' = cancelTxn
    BY <1>2, <2>2 DEF CreateRun, StoreTypeOK
  <2>4. KnownIn(run', r) /\ run'[r].status \in Active
    BY <1>2, <2>3 DEF KnownIn, Active
  <2> QED
    BY <1>1, <2>1, <2>2, <2>3, <2>4, JoinedFollows
<1>6. CASE InsertRejected(t)
  BY <1>3, <1>6 DEF InsertRejected, LocalOnly, Is
<1>7. CASE ReportJoin(t)
  <2> DEFINE joined == [wait[t] EXCEPT !.mine = Append(@, wait[t].run), !.run = NoRun]
  <2>1. wait[t].pc = "joined" /\ UNCHANGED storeVars /\ wait[t].run \in Run
    BY <1>7 DEF ReportJoin, Is, LocalOnly, WaitInv, Shape
  <2>2. /\ Append(wait[t].mine, wait[t].run) \in Seq(Run)
        /\ Len(Append(wait[t].mine, wait[t].run)) = Len(wait[t].mine) + 1
        /\ \A i \in DOMAIN wait[t].mine :
             /\ i \in DOMAIN Append(wait[t].mine, wait[t].run)
             /\ Append(wait[t].mine, wait[t].run)[i] = wait[t].mine[i]
        /\ \A i \in DOMAIN Append(wait[t].mine, wait[t].run) :
             i \in DOMAIN wait[t].mine \/ i = Len(wait[t].mine) + 1
        /\ Append(wait[t].mine, wait[t].run)[Len(wait[t].mine) + 1] = wait[t].run
        /\ Len(wait[t].mine) + 1 \in DOMAIN Append(wait[t].mine, wait[t].run)
    BY <1>2, <2>1
  <2>3. /\ joined \in WaitState /\ joined.mine = Append(wait[t].mine, wait[t].run)
        /\ joined.todo = wait[t].todo /\ joined.read = wait[t].read
    BY <1>2, <2>2 DEF WaitState
  <2> HIDE DEF joined
  <2>4. ASSUME NEW w \in WaitState, Become(t, w), w.mine = joined.mine,
               w.todo = joined.todo \/ w.todo = <<>>, w.read = joined.read \/ w.read = 0,
               \/ w.pc \in {"cancelling", "find"}
               \/ w.pc = "load" /\ w.stage = "dispatch"
        PROVE  TaskInv(t)'
    <3>1. Fits(w, t, run)
      <4>1. Len(w.mine) <= Len(KeysOf[t])
        BY <1>2, <2>2, <2>3, <2>4
      <4>2. \A i \in DOMAIN w.mine : run[w.mine[i]].key = KeysOf[t][i]
        BY <1>2, <2>1, <2>2, <2>3, <2>4 DEF Fits
      <4>3. \A i \in DOMAIN w.todo : Has(w, w.todo[i])
        BY <1>2, <2>2, <2>3, <2>4 DEF Fits, Has
      <4>4. w.pc # "joined"
        BY <2>4
      <4> QED
        BY <4>1, <4>2, <4>3, <4>4 DEF Fits
    <3>2. Settled(w, run)
      <4>1. w.read <= Len(w.mine)
        BY <1>2, <2>2, <2>3, <2>4 DEF Settled, WaitState
      <4> QED
        BY <2>4, <4>1 DEF Settled
    <3>3. Linked(w, t, run, link)
      <4>1. \A r \in Run : Has(wait[t], r) \/ r = wait[t].run => Has(w, r)
        BY <2>2, <2>3, <2>4 DEF Has
      <4> QED
        BY <1>2, <2>1, <4>1 DEF Linked
    <3>4. w.pc \notin {"detaching", "cancelled"}
      BY <2>4
    <3> QED
      BY <1>1, <2>1, <2>4, <3>1, <3>2, <3>3, <3>4, Carries DEF storeVars
  <2>5. \/ Become(t, [joined EXCEPT !.pc = "cancelling"])
        \/ Become(t, [joined EXCEPT !.pc = "find"])
        \/ Become(t, Reload(joined, "dispatch"))
    BY <1>7 DEF ReportJoin, joined
  <2>6. ASSUME NEW p \in {"cancelling", "find"}, Become(t, [joined EXCEPT !.pc = p])
        PROVE  TaskInv(t)'
    <3> DEFINE w == [joined EXCEPT !.pc = p]
    <3>1. /\ w \in WaitState /\ w.pc = p /\ w.mine = joined.mine
          /\ w.todo = joined.todo /\ w.read = joined.read
      BY <2>3 DEF WaitState, PC, Joining
    <3>2. Become(t, w)
      BY <2>6
    <3> HIDE DEF w
    <3> QED
      BY <2>4, <3>1, <3>2
  <2>7. CASE Become(t, Reload(joined, "dispatch"))
    <3> DEFINE w == Reload(joined, "dispatch")
    <3>1. w \in WaitState /\ w.pc = "load" /\ w.mine = joined.mine /\ w.todo = <<>>
      <4>1. "dispatch" \in Stage
        BY DEF Stage
      <4> QED
        BY <2>3, <4>1, ReloadFacts
    <3>2. w.read = 0 /\ w.stage = "dispatch" /\ Become(t, w)
      BY <2>7 DEF Reload
    <3> HIDE DEF w
    <3> QED
      BY <2>4, <3>1, <3>2
  <2> QED
    BY <2>5, <2>6, <2>7
<1> QED
  BY <1>4, <1>5, <1>6, <1>7

LEMMA CancelFollows ==
  ASSUME WaitInv, NEW t \in Task, TaskInv(t), ReadRuns(t) \/ Detach(t)
  PROVE  TaskInv(t)'
<1>1. [StoreNext]_storeVars
  BY CancelSteps
<1>2. /\ StoreTypeOK /\ wait[t] \in WaitState /\ Sees(wait[t], run)
      /\ wait[t].pc \in {"cancelling", "detaching"}
      /\ Follows(wait[t], t) /\ Cancels(wait[t], t)
  BY DEF WaitInv, TaskInv, ReadRuns, Detach, Is
<1>3. NoNewLinks(t)
  BY DEF NoNewLinks, ReadRuns, Detach, CancelRead, CancelCommit
<1>4. Fits(wait[t], t, run') /\ Settled(wait[t], run') /\ Linked(wait[t], t, run', link')
  BY <1>1, <1>2, <1>3, FollowsStays
<1>5. ASSUME NEW p \in {"detaching", "cancelled"}, Go(t, p)
      PROVE  wait'[t].pc = p /\ Follows(wait[t], t)'
  <2> DEFINE w == [wait[t] EXCEPT !.pc = p]
  <2>1. p \in PC
    BY DEF PC, Ended
  <2>2. /\ Become(t, w) /\ w \in WaitState /\ w.pc = p /\ w.mine = wait[t].mine
        /\ w.read = wait[t].read /\ w.todo = wait[t].todo
    BY <1>5, <2>1, GoFacts
  <2> HIDE DEF w
  <2>3. Fits(w, t, run') /\ Settled(w, run') /\ Linked(w, t, run', link')
    BY <1>2, <1>4, <2>2 DEF Fits, Settled, Linked, Has
  <2>4. wait'[t] = w
    BY <2>2 DEF Become, WaitInv
  <2> QED
    BY <2>2, <2>3, <2>4 DEF Follows
<1>6. CASE ReadRuns(t)
  <2>1. /\ cancelTxn'[t].open /\ cancelTxn'[t].runs = LinkedActiveRuns(t)
        /\ run' = run /\ link' = link
    BY <1>2, <1>6 DEF ReadRuns, CancelRead, StoreTypeOK
  <2>2. LinkedActiveRuns(t)' = LinkedActiveRuns(t)
    BY <2>1 DEF LinkedActiveRuns, IsActive
  <2>3. wait'[t].pc = "detaching" /\ Follows(wait[t], t)'
    BY <1>5, <1>6 DEF ReadRuns
  <2>4. Cancels(wait[t], t)'
    BY <2>1, <2>2, <2>3 DEF Cancels, LinkedActiveRuns
  <2> QED
    BY <2>3, <2>4 DEF TaskInv
<1>7. CASE Detach(t)
  <2>1. /\ link' = link \ (cancelTxn[t].runs \X {t}) /\ cancelTxn'[t] = NoCancelTxn
        /\ LinkedActiveRuns(t) \subseteq cancelTxn[t].runs
    BY <1>2, <1>7 DEF Detach, Is, CancelCommit, StoreTypeOK, Cancels
  <2>2. LinkedActiveRuns(t)' = {}
    <3> SUFFICES ASSUME NEW r \in Run, <<r, t>> \in link', run'[r].status \in Active
                 PROVE  FALSE
      BY DEF LinkedActiveRuns, IsActive
    <3>1. <<r, t>> \in link /\ r \notin cancelTxn[t].runs
      BY <2>1
    <3>2. KnownIn(run, r)
      BY <1>2, <3>1 DEF Follows, Linked
    <3>3. run[r].status \in Active
      BY <1>1, <1>2, <3>2, RowsGoOn
    <3> QED
      BY <2>1, <3>1, <3>3 DEF LinkedActiveRuns, IsActive
  <2>3. wait'[t].pc = "cancelled" /\ Follows(wait[t], t)'
    BY <1>5, <1>7 DEF Detach
  <2>4. Cancels(wait[t], t)'
    BY <2>1, <2>2, <2>3 DEF Cancels, NoCancelTxn
  <2> QED
    BY <2>3, <2>4 DEF TaskInv
<1> QED
  BY <1>6, <1>7

\* A task writes its own workflow, its own calls and its own links.
OnlyOwn(t) ==
  \A u \in Task \ {t} :
    wait'[u] = wait[u] /\ call'[u] = call[u] /\ cancelTxn'[u] = cancelTxn[u] /\ SameLinks(u)

LEMMA TaskKeepsToItself ==
  ASSUME WaitInv, call \in [Task -> [Run -> Call]], NEW t \in Task,
         TaskStep(t) \/ Deadline(t) \/ Crash(t)
  PROVE  OnlyOwn(t)
<1> SUFFICES ASSUME NEW u \in Task, u # t
             PROVE  /\ wait'[u] = wait[u] /\ call'[u] = call[u]
                    /\ cancelTxn'[u] = cancelTxn[u] /\ SameLinks(u)
  BY DEF OnlyOwn
<1>1. wait'[u] = wait[u]
  <2>1. \E w : Become(t, w)
    BY DEF TaskStep, FindActive, Insert, InsertRejected, ReportJoin, LoadRun, BeginClaims,
       ChooseAgent, ClaimAgent, LoseClaim, GiveUp, StartOnService, StartConflict,
       AfterConflict, Submit, Poll, CallsDone, NextRound, BeginExpire, Expire, EndExpire,
       ReturnFinal, EndWait, ReadRuns, Detach, Deadline, Crash, Go, Become
  <2> QED
    BY <2>1 DEF Become, WaitInv
<1>2. call'[u] = call[u]
  <2>1. call' = call \/ (\E c : call' = [call EXCEPT ![t] = c])
    BY DEF TaskStep, FindActive, Insert, InsertRejected, ReportJoin, LoadRun, BeginClaims,
       ChooseAgent, ClaimAgent, LoseClaim, GiveUp, StartOnService, StartConflict,
       AfterConflict, Submit, Poll, CallsDone, NextRound, BeginExpire, Expire, EndExpire,
       ReturnFinal, EndWait, ReadRuns, Detach, Deadline, Crash, StoreOnly, LocalOnly, Claimed
  <2> QED
    BY <2>1
<1>3. cancelTxn'[u] = cancelTxn[u] /\ SameLinks(u)
  <2>1. CASE UNCHANGED <<link, cancelTxn>>
    BY <2>1 DEF SameLinks
  <2>2. CASE FindActive(t) \/ Insert(t)
    BY <1>1, <2>1, <2>2 DEF FindActive, Insert, JoinRun, AddSharer, CreateRun, storeVars,
       SameLinks
  <2>3. CASE ReadRuns(t) \/ Detach(t)
    BY <2>3 DEF ReadRuns, Detach, CancelRead, CancelCommit, SameLinks, WaitInv, StoreTypeOK
  <2>4. CASE Crash(t)
    BY <2>4 DEF Crash, CancelAbort, storeVars, SameLinks, WaitInv, StoreTypeOK
  <2>5. CASE \/ InsertRejected(t) \/ ReportJoin(t) \/ LoadRun(t) \/ BeginClaims(t)
             \/ ChooseAgent(t) \/ LoseClaim(t) \/ StartConflict(t) \/ Submit(t) \/ Poll(t)
             \/ CallsDone(t) \/ NextRound(t) \/ BeginExpire(t) \/ EndExpire(t)
             \/ ReturnFinal(t) \/ EndWait(t) \/ Deadline(t)
    <3>1. UNCHANGED storeVars
      BY <2>5 DEF InsertRejected, ReportJoin, LoadRun, BeginClaims, ChooseAgent, LoseClaim,
         StartConflict, Submit, Poll, CallsDone, NextRound, BeginExpire, EndExpire,
         ReturnFinal, EndWait, Deadline, LocalOnly
    <3> QED
      BY <2>1, <3>1 DEF storeVars
  <2>6. CASE ClaimAgent(t) \/ GiveUp(t) \/ StartOnService(t) \/ AfterConflict(t) \/ Expire(t)
    BY <2>1, <2>6 DEF ClaimAgent, GiveUp, StartOnService, AfterConflict, Expire,
       ClaimWithAgent, SetRunning, MarkWaiting, StartRun, WaitAfterAgentConflict, FailRun
  <2> QED
    BY <2>2, <2>3, <2>4, <2>5, <2>6 DEF TaskStep
<1> QED
  BY <1>1, <1>2, <1>3

CallTypeOK == call \in [Task -> [Run -> Call]]
TasksFollow == \A t \in Task : TaskInv(t)

\* The calls and the services do not touch a task's workflow, nor what it is linked to.
LEMMA CallsKeepOut ==
  ASSUME WaitInv,
         \/ \E t \in Task, r \in Run : CallStep(t, r) \/ LoseCall(t, r)
         \/ \E p \in Platform : RestartService(p)
         \/ \E t \in Task : RequestCancel(t)
         \/ ServiceStep
         \/ UNCHANGED vars
  PROVE  wait' = wait /\ LinksStay
<1>1. ASSUME NEW t \in Task, NEW r \in Run, Apply(t, r)
      PROVE  wait' = wait /\ LinksStay
  BY <1>1 DEF Apply, Record, CompleteRun, FailRun, LinksStay, storeVars
<1>2. ASSUME NEW t \in Task, NEW r \in Run,
             Post(t, r) \/ PostAnswered(t, r) \/ Get(t, r) \/ LoseCall(t, r)
      PROVE  wait' = wait /\ LinksStay
  BY <1>2 DEF Post, PostAnswered, Get, LoseCall, CallOnly, LinksStay, storeVars
<1>3. ASSUME \/ \E p \in Platform : RestartService(p)
             \/ \E t \in Task : RequestCancel(t)
             \/ ServiceStep
             \/ UNCHANGED vars
      PROVE  wait' = wait /\ LinksStay
  BY <1>3 DEF RestartService, RequestCancel, ServiceStep, CallOnly, LinksStay, storeVars, vars
<1> QED
  BY <1>1, <1>2, <1>3 DEF CallStep

\* A step of the system is one of a task, or leaves the workflows alone.
LEMMA StepCases ==
  ASSUME WaitInv, CallTypeOK, [WaitNext]_vars
  PROVE  \/ \E t \in Task : (TaskStep(t) \/ Deadline(t) \/ Crash(t)) /\ OnlyOwn(t)
         \/ wait' = wait /\ LinksStay
<1>1. CASE \E t \in Task : TaskStep(t) \/ Deadline(t) \/ Crash(t)
  BY <1>1, TaskKeepsToItself DEF CallTypeOK
<1>2. CASE \/ \E t \in Task, r \in Run : CallStep(t, r) \/ LoseCall(t, r)
           \/ \E p \in Platform : RestartService(p)
           \/ \E t \in Task : RequestCancel(t)
           \/ ServiceStep
           \/ UNCHANGED vars
  BY <1>2, CallsKeepOut
<1> QED
  BY <1>1, <1>2 DEF WaitNext, Fault

LEMMA ExclusiveStep ==
  ASSUME WaitInv, StoreIsExclusive, [WaitNext]_vars
  PROVE  StoreIsExclusive'
  BY WaitStep, EveryStepHasAKind, LeaseInvStep DEF WaitInv

LEMMA FollowsStep ==
  ASSUME WaitInv, CallTypeOK, StoreIsExclusive, TasksFollow, [WaitNext]_vars
  PROVE  TasksFollow'
<1>1. [StoreNext]_storeVars /\ OneActiveRunPerKey'
  BY WaitStep, ExclusiveStep DEF StoreIsExclusive
<1>2. ASSUME NEW t \in Task, TaskStep(t) \/ Deadline(t) \/ Crash(t), OnlyOwn(t)
      PROVE  TasksFollow'
  <2>1. TaskInv(t)
    BY DEF TasksFollow
  <2>2. TaskInv(t)'
    BY <1>1, <1>2, <2>1, DispatchFollows, RoundFollows, LoadFollows, ExpireFollows,
       CrashFollows, JoinFollows, CancelFollows DEF TaskStep
  <2>3. ASSUME NEW u \in Task \ {t} PROVE TaskInv(u)'
    <3>1. wait'[u] = wait[u] /\ cancelTxn'[u] = cancelTxn[u] /\ SameLinks(u) /\ TaskInv(u)
      BY <1>2 DEF OnlyOwn, TasksFollow
    <3> QED
      BY <1>1, <3>1, OtherStays
  <2> QED
    BY <2>2, <2>3 DEF TasksFollow
<1>3. CASE wait' = wait /\ LinksStay
  <2> SUFFICES ASSUME NEW u \in Task PROVE TaskInv(u)'
    BY DEF TasksFollow
  <2>1. wait'[u] = wait[u] /\ cancelTxn'[u] = cancelTxn[u] /\ SameLinks(u) /\ TaskInv(u)
    BY <1>3 DEF LinksStay, SameLinks, TasksFollow
  <2> QED
    BY <1>1, <2>1, OtherStays
<1> QED
  BY <1>2, <1>3, StepCases

-----------------------------------------------------------------------------
(* Who drives a running run.                                               *)

\* A task waits on, with the same runs, until they are over.
LEMMA WaitsOn ==
  ASSUME WaitInv, NEW t \in Task, TaskInv(t), wait[t].pc \in Waiting,
         TaskStep(t) \/ Deadline(t) \/ Crash(t)
  PROVE  \/ wait'[t].pc \in Waiting /\ wait'[t].mine = wait[t].mine
         \/ \A i \in DOMAIN wait[t].mine : Over(run', wait[t].mine[i])
<1>1. wait[t] \in WaitState /\ wait \in [Task -> WaitState]
  BY DEF WaitInv
<1>2. ASSUME NEW p \in Waiting, Go(t, p)
      PROVE  wait'[t].pc \in Waiting /\ wait'[t].mine = wait[t].mine
  BY <1>1, <1>2 DEF Go, WaitState
<1>3. ASSUME NEW s, Become(t, Reload(wait[t], s))
      PROVE  wait'[t].pc \in Waiting /\ wait'[t].mine = wait[t].mine
  BY <1>1, <1>3 DEF Become, Reload, Waiting
<1>4. ASSUME Become(t, Pop(t))
      PROVE  wait'[t].pc \in Waiting /\ wait'[t].mine = wait[t].mine
  BY <1>1, <1>4 DEF Become, Pop, Waiting, WaitState
<1>5. CASE \/ BeginClaims(t) \/ LoseClaim(t) \/ StartConflict(t) \/ Submit(t) \/ Poll(t)
           \/ BeginExpire(t) \/ ReturnFinal(t)
  <2>1. \E p \in Waiting : Go(t, p)
    BY <1>5 DEF BeginClaims, LoseClaim, StartConflict, Submit, Poll, BeginExpire, ReturnFinal,
       Waiting
  <2> QED
    BY <1>2, <2>1
<1>6. CASE CallsDone(t) \/ EndExpire(t) \/ Deadline(t) \/ Crash(t)
  <2>1. \E s : Become(t, Reload(wait[t], s))
    BY <1>6 DEF CallsDone, EndExpire, Deadline, Crash, Restarted, Joining, Waiting
  <2> QED
    BY <1>3, <2>1
<1>7. CASE NextRound(t)
  <2>1. Go(t, "returned") \/ Become(t, Reload(wait[t], "dispatch"))
    BY <1>7 DEF NextRound
  <2> QED
    BY <1>2, <1>3, <2>1 DEF Waiting
<1>8. CASE ClaimAgent(t) \/ GiveUp(t) \/ StartOnService(t) \/ AfterConflict(t)
  BY <1>4, <1>8 DEF ClaimAgent, GiveUp, StartOnService, AfterConflict
<1>9. CASE ChooseAgent(t)
  <2>1. \/ Go(t, "giveup")
        \/ \E a : Become(t, [wait[t] EXCEPT !.pc = "take", !.agent = a])
    BY <1>9 DEF ChooseAgent, Become, Go
  <2>2. ASSUME NEW a, Become(t, [wait[t] EXCEPT !.pc = "take", !.agent = a])
        PROVE  wait'[t].pc = "take" /\ wait'[t].mine = wait[t].mine
    <3> DEFINE w == [wait[t] EXCEPT !.pc = "take", !.agent = a]
    <3>1. w.pc = "take" /\ w.mine = wait[t].mine
      BY <1>1 DEF WaitState
    <3>2. wait'[t] = w
      BY <1>1, <2>2 DEF Become
    <3> HIDE DEF w
    <3> QED
      BY <3>1, <3>2
  <2> QED
    BY <1>2, <2>1, <2>2 DEF Waiting
<1>10. CASE LoadRun(t) \/ Expire(t)
  <2>1. \E d, e, f : \/ Become(t, [wait[t] EXCEPT !.read = d, !.todo = e, !.won = f])
                     \/ Become(t, [wait[t] EXCEPT !.todo = e])
    BY <1>10 DEF LoadRun, Expire
  <2>2. ASSUME NEW w, Become(t, w)
        PROVE  wait'[t] = w
    BY <1>1, <2>2 DEF Become
  <2>3. ASSUME NEW d, NEW e, NEW f,
               Become(t, [wait[t] EXCEPT !.read = d, !.todo = e, !.won = f])
        PROVE  wait'[t].pc = wait[t].pc /\ wait'[t].mine = wait[t].mine
    <3>1. wait'[t] = [wait[t] EXCEPT !.read = d, !.todo = e, !.won = f]
      BY <2>2, <2>3
    <3> QED
      BY <1>1, <3>1 DEF WaitState
  <2>4. ASSUME NEW e, Become(t, [wait[t] EXCEPT !.todo = e])
        PROVE  wait'[t].pc = wait[t].pc /\ wait'[t].mine = wait[t].mine
    <3>1. wait'[t] = [wait[t] EXCEPT !.todo = e]
      BY <2>2, <2>4
    <3> QED
      BY <1>1, <3>1 DEF WaitState
  <2> QED
    BY <2>1, <2>3, <2>4
<1>11. CASE EndWait(t)
  <2>1. wait[t].pc = "returned" /\ run' = run
    BY <1>11 DEF EndWait, Is, LocalOnly, storeVars
  <2> QED
    BY <2>1 DEF TaskInv, Follows, Settled
<1>12. CASE \/ FindActive(t) \/ Insert(t) \/ InsertRejected(t) \/ ReportJoin(t)
            \/ ReadRuns(t) \/ Detach(t)
  BY <1>12 DEF FindActive, Insert, InsertRejected, ReportJoin, ReadRuns, Detach, Is, Waiting
<1> QED
  BY <1>5, <1>6, <1>7, <1>8, <1>9, <1>10, <1>11, <1>12 DEF TaskStep

\* What a step of the system can do to the row of a run.
LEMMA RowMoves ==
  ASSUME WaitInv, [WaitNext]_vars, NEW r \in Run, run[r].status # "absent"
  PROVE  \/ run'[r].status = run[r].status /\ run'[r].agent = run[r].agent
         \/ \E t \in Task : /\ r = Todo(t) /\ wait[t].todo # <<>>
                            /\ run[r].status \in Dispatchable
                            /\ \/ /\ ClaimAgent(t) \/ StartOnService(t)
                                  /\ run'[r].status = "running"
                               \/ /\ GiveUp(t) \/ AfterConflict(t)
                                  /\ run'[r].status = "waiting_agent"
         \/ \E t \in Task : Expire(t) /\ r = Todo(t) /\ run'[r].status = "failed"
         \/ \E t \in Task : /\ Apply(t, r) /\ call[t][r].answer \notin {"queued", "running"}
                            /\ run'[r].status = IF call[t][r].answer = "succeeded" /\ call[t][r].output
                                                THEN "succeeded" ELSE "failed"
         \/ \E t \in Task : /\ Detach(t) /\ r \in cancelTxn[t].runs
                            /\ run'[r].status \in {"cancelled", run[r].status}
                            /\ run'[r].agent = run[r].agent
<1>1. run \in [Run -> Row] /\ run[r] \in Row
  BY DEF WaitInv, StoreTypeOK
<1> DEFINE Kept == run'[r].status = run[r].status /\ run'[r].agent = run[r].agent
<1>2. ASSUME run' = run PROVE Kept
  BY <1>2
<1>3. ASSUME NEW t \in Task, FindActive(t) \/ Insert(t)
      PROVE  Kept
  <2>1. ASSUME NEW s \in Run, AddSharer(t, s)
        PROVE  Kept
    BY <1>1, <2>1 DEF AddSharer, Row
  <2>2. ASSUME NEW s \in Run, NEW k, CreateRun(t, k, s)
        PROVE  Kept
    BY <1>1, <2>2 DEF CreateRun
  <2> QED
    BY <1>2, <1>3, <2>1, <2>2 DEF FindActive, Insert, JoinRun, ActiveRuns, storeVars
<1>4. ASSUME NEW t \in Task, ClaimAgent(t) \/ StartOnService(t) \/ GiveUp(t) \/ AfterConflict(t)
      PROVE  \/ Kept
             \/ /\ r = Todo(t) /\ wait[t].todo # <<>> /\ run[r].status \in Dispatchable
                /\ \/ /\ ClaimAgent(t) \/ StartOnService(t)
                      /\ run'[r].status = "running"
                   \/ /\ GiveUp(t) \/ AfterConflict(t)
                      /\ run'[r].status = "waiting_agent"
  <2>1. wait[t].todo # <<>>
    BY <1>4 DEF ClaimAgent, StartOnService, UsesService, GiveUp, AfterConflict, Is, WaitInv, Shape
  <2>2. ASSUME Todo(t) # r PROVE Kept
    BY <1>1, <1>4, <2>2 DEF ClaimAgent, StartOnService, GiveUp, AfterConflict, ClaimWithAgent,
       SetRunning, StartRun, MarkWaiting, WaitAfterAgentConflict
  <2>3. WaitingRow(run[r]).status = "waiting_agent"
    BY <1>1 DEF WaitingRow, Row
  <2>4. \A a : RunningRow(run[r], a).status = "running"
    BY <1>1 DEF RunningRow, Row
  <2>5. CASE Todo(t) = r /\ (ClaimAgent(t) \/ StartOnService(t))
    <3>1. \/ run' = run
          \/ /\ run[r].status \in Dispatchable
             /\ \E a : run'[r] = RunningRow(run[r], a)
      BY <1>1, <2>5 DEF ClaimAgent, StartOnService, ClaimWithAgent, CanClaim, SetRunning, StartRun
    <3> QED
      BY <2>1, <2>4, <2>5, <3>1
  <2>6. CASE Todo(t) = r /\ (GiveUp(t) \/ AfterConflict(t))
    <3>1. \/ run' = run
          \/ run[r].status \in Dispatchable /\ run'[r] = WaitingRow(run[r])
      BY <1>1, <2>6 DEF GiveUp, AfterConflict, MarkWaiting, WaitAfterAgentConflict, Dispatchable
    <3> QED
      BY <2>1, <2>3, <2>6, <3>1
  <2> QED
    BY <1>4, <2>2, <2>5, <2>6
<1>5. ASSUME NEW t \in Task, Expire(t)
      PROVE  Kept \/ (r = Todo(t) /\ run'[r].status = "failed")
  BY <1>1, <1>5 DEF Expire, FailRun, Row
<1>6. ASSUME NEW t \in Task, NEW s \in Run, Apply(t, s)
      PROVE  \/ Kept
             \/ /\ s = r /\ call[t][r].answer \notin {"queued", "running"}
                /\ run'[r].status = IF call[t][r].answer = "succeeded" /\ call[t][r].output
                                    THEN "succeeded" ELSE "failed"
  <2>1. Record(s, call[t][s])
    BY <1>6 DEF Apply
  <2>2. CASE call[t][s].answer \in {"queued", "running"}
    BY <2>1, <2>2 DEF Record, storeVars
  <2>3. CASE call[t][s].answer = "succeeded" /\ call[t][s].output
    <3>1. CompleteRun(s)
      BY <2>1, <2>3 DEF Record
    <3>2. SucceededRow(run[s]).status = "succeeded"
      BY <1>1 DEF SucceededRow, Row
    <3> QED
      BY <1>1, <2>3, <3>1, <3>2 DEF CompleteRun
  <2>4. CASE call[t][s].answer \notin {"queued", "running"} /\ ~(call[t][s].answer = "succeeded" /\ call[t][s].output)
    <3>1. FailRun(s)
      BY <2>1, <2>4 DEF Record
    <3> QED
      BY <1>1, <2>4, <3>1 DEF FailRun, Row
  <2> QED
    BY <2>2, <2>3, <2>4
<1>7. ASSUME NEW t \in Task, Detach(t)
      PROVE  \/ Kept
             \/ /\ r \in cancelTxn[t].runs /\ run'[r].status \in {"cancelled", run[r].status}
                /\ run'[r].agent = run[r].agent
  <2>1. \A left : /\ DetachedRow(run[r], left).status \in {"cancelled", run[r].status}
                  /\ DetachedRow(run[r], left).agent = run[r].agent
    BY <1>1 DEF DetachedRow, Row
  <2>2. \/ run'[r] = run[r]
        \/ r \in cancelTxn[t].runs /\ \E left : run'[r] = DetachedRow(run[r], left)
    BY <1>7 DEF Detach, CancelCommit
  <2> QED
    BY <2>1, <2>2
<1>8. ASSUME NEW t \in Task,
             \/ InsertRejected(t) \/ ReportJoin(t) \/ LoadRun(t) \/ BeginClaims(t)
             \/ ChooseAgent(t) \/ LoseClaim(t) \/ StartConflict(t) \/ Submit(t) \/ Poll(t)
             \/ CallsDone(t) \/ NextRound(t) \/ BeginExpire(t) \/ EndExpire(t)
             \/ ReturnFinal(t) \/ EndWait(t) \/ Deadline(t) \/ RequestCancel(t)
             \/ ReadRuns(t) \/ Crash(t)
      PROVE  Kept
  BY <1>2, <1>8 DEF InsertRejected, ReportJoin, LoadRun, BeginClaims, ChooseAgent, LoseClaim,
     StartConflict, Submit, Poll, CallsDone, NextRound, BeginExpire, EndExpire, ReturnFinal,
     EndWait, Deadline, RequestCancel, LocalOnly, storeVars, ReadRuns, CancelRead, Crash,
     CancelAbort
<1>9. ASSUME NEW t \in Task, NEW s \in Run,
             Post(t, s) \/ PostAnswered(t, s) \/ Get(t, s) \/ LoseCall(t, s)
      PROVE  Kept
  BY <1>2, <1>9 DEF Post, PostAnswered, Get, LoseCall, CallOnly, storeVars
<1>10. CASE ServiceStep \/ (\E p \in Platform : RestartService(p)) \/ UNCHANGED vars
  BY <1>2, <1>10 DEF ServiceStep, RestartService, CallOnly, vars, storeVars
<1> HIDE DEF Kept
<1>11. CASE \E t \in Task : TaskStep(t)
  BY <1>3, <1>4, <1>5, <1>7, <1>8, <1>11 DEF TaskStep, Kept
<1>12. CASE \E t \in Task, s \in Run : CallStep(t, s)
  BY <1>6, <1>9, <1>12 DEF CallStep, Kept
<1>13. CASE Fault
  BY <1>8, <1>9, <1>10, <1>13 DEF Fault, Kept
<1> QED
  BY <1>10, <1>11, <1>12, <1>13 DEF WaitNext, Kept

\* A run starts to run only for the task that takes it from its list.
LEMMA StarterDrives ==
  ASSUME WaitInv, [WaitNext]_vars, NEW r \in Run,
         run'[r].status = "running", run[r].status # "running"
  PROVE  \E t \in Task : (ClaimAgent(t) \/ StartOnService(t)) /\ r = Todo(t)
<1>1. StepKind /\ run \in [Run -> Row]
  BY WaitStep, EveryStepHasAKind DEF WaitInv, StoreTypeOK
<1>2. run[r].status \in Dispatchable
  BY <1>1 DEF StepKind, Retiring, Claiming, Creating, SameStanding, IsFinal, Final
<1> QED
  BY <1>2, RowMoves DEF Dispatchable

LEMMA DrivenStep ==
  ASSUME WaitInv, CallTypeOK, StoreIsExclusive, TasksFollow, RunningRunIsDriven,
         [WaitNext]_vars
  PROVE  RunningRunIsDriven'
<1> SUFFICES ASSUME NEW r \in Run, run'[r].status = "running"
             PROVE  \E t \in Task : Drives(t, r)'
  BY DEF RunningRunIsDriven
<1>1. CASE run[r].status = "running"
  <2>1. PICK t \in Task : wait[t].pc \in Waiting /\ r \in Mine(t)
    BY <1>1 DEF RunningRunIsDriven, Drives
  <2>2. \/ wait'[t] = wait[t]
        \/ TaskStep(t) \/ Deadline(t) \/ Crash(t)
    BY StepCases DEF OnlyOwn
  <2>3. \/ wait'[t].pc \in Waiting /\ wait'[t].mine = wait[t].mine
        \/ \A i \in DOMAIN wait[t].mine : Over(run', wait[t].mine[i])
    BY <2>1, <2>2, WaitsOn DEF TasksFollow
  <2>4. PICK i \in DOMAIN wait[t].mine : wait[t].mine[i] = r
    BY <2>1 DEF Mine
  <2>5. ~Over(run', r)
    BY DEF Over, Final
  <2> QED
    BY <2>3, <2>4, <2>5 DEF Drives, Mine
<1>2. CASE run[r].status # "running"
  <2>1. PICK t \in Task : (ClaimAgent(t) \/ StartOnService(t)) /\ r = Todo(t)
    BY <1>2, StarterDrives
  <2>2. wait[t].todo # <<>> /\ Become(t, Pop(t))
    BY <2>1 DEF ClaimAgent, StartOnService, UsesService, Is, WaitInv, Shape
  <2>3. /\ wait[t].todo \in Seq(Run) /\ wait'[t] = Pop(t)
        /\ \A i \in DOMAIN wait[t].todo : Has(wait[t], wait[t].todo[i])
    BY <2>2 DEF WaitInv, WaitState, Become, TasksFollow, TaskInv, Follows, Fits
  <2>4. Has(wait[t], r)
    <3>1. 1 \in DOMAIN wait[t].todo /\ wait[t].todo[1] = r
      BY <2>1, <2>2, <2>3 DEF Todo
    <3> QED
      BY <2>3, <3>1
  <2>5. wait'[t].pc \in Waiting /\ wait'[t].mine = wait[t].mine
    BY <2>2, <2>3, PopFacts DEF Waiting
  <2> QED
    BY <2>4, <2>5 DEF Drives, Mine, Has
<1> QED
  BY <1>1, <1>2

-----------------------------------------------------------------------------
(* The services, as CollectorServiceProofs has them.                       *)
SvcP == INSTANCE CollectorServiceProofs

LEMMA ServiceActions ==
  /\ \A r \in Run, t \in Task, a \in Agent \cup {NoAgent}, p \in Platform :
       Svc!Register(r, t, a, p) => SvcP!SvcNext
  /\ Svc!SvcStep => SvcP!SvcNext
  /\ \A p \in Platform : Svc!Restart(p) => SvcP!SvcNext
<1>1. ASSUME NEW r \in Run, NEW t \in Task, NEW a \in Agent \cup {NoAgent}, NEW p \in Platform,
             Svc!Register(r, t, a, p)
      PROVE  SvcP!SvcNext
  <2>1. SvcP!Register(r, t, a, p)
    BY <1>1 DEF Svc!Register, Svc!Known, SvcP!Register, SvcP!Known
  <2> QED
    BY <2>1 DEF SvcP!SvcNext
<1>2. ASSUME NEW r \in Run, Svc!Enqueue(r) PROVE SvcP!SvcNext
  <2>1. SvcP!Enqueue(r)
    BY <1>2 DEF Svc!Enqueue, Svc!Known, SvcP!Enqueue, SvcP!Known
  <2> QED
    BY <2>1 DEF SvcP!SvcNext, SvcP!SvcStep
<1>3. ASSUME NEW r \in Run, Svc!Begin(r) PROVE SvcP!SvcNext
  <2>1. SvcP!Begin(r)
    BY <1>3 DEF Svc!Begin, SvcP!Begin
  <2> QED
    BY <2>1 DEF SvcP!SvcNext, SvcP!SvcStep
<1>4. ASSUME NEW r \in Run, Svc!Crawl(r) PROVE SvcP!SvcNext
  <2>1. SvcP!Crawl(r)
    BY <1>4 DEF Svc!Crawl, SvcP!Crawl, Svc!FinishWithResult, SvcP!FinishWithResult,
       Svc!FinishWithError, SvcP!FinishWithError
  <2> QED
    BY <2>1 DEF SvcP!SvcNext, SvcP!SvcStep
<1>5. ASSUME NEW p \in Platform, Svc!Take(p) PROVE SvcP!SvcNext
  <2>1. SvcP!Take(p)
    BY <1>5 DEF Svc!Take, SvcP!Take, Svc!Busy, SvcP!Busy, Svc!Cardinality, SvcP!Cardinality
  <2> QED
    BY <2>1 DEF SvcP!SvcNext, SvcP!SvcStep
<1>6. ASSUME NEW p \in Platform, Svc!Restart(p) PROVE SvcP!SvcNext
  <2>1. SvcP!Restart(p)
    BY <1>6 DEF Svc!Restart, SvcP!Restart, Svc!NoEntry, SvcP!NoEntry
  <2> QED
    BY <2>1 DEF SvcP!SvcNext
<1> QED
  BY <1>1, <1>2, <1>3, <1>4, <1>5, <1>6 DEF Svc!SvcStep

LEMMA ServicesInitially == Svc!SvcInit => SvcP!SvcInv
<1>1. Svc!SvcInit => SvcP!SvcInit
  BY DEF Svc!SvcInit, Svc!NoEntry, SvcP!SvcInit, SvcP!NoEntry
<1>2. SvcP!SvcInit => SvcP!SvcInv
  BY WaitAssumption, SvcP!InvInitially
<1> QED
  BY <1>1, <1>2

LEMMA ServicesStay ==
  ASSUME SvcP!SvcInv, SvcP!SvcNext \/ UNCHANGED serviceVars
  PROVE  SvcP!SvcInv'
<1>1. [SvcP!SvcNext]_(SvcP!svcVars)
  BY DEF serviceVars, SvcP!svcVars
<1> QED
  BY <1>1, WaitAssumption, SvcP!InvStep

LEMMA ServiceTypes ==
  ASSUME SvcP!SvcInv
  PROVE  Svc!SvcTypeOK /\ \A r \in Run : svc[r].state \in Svc!SvcState /\ svc[r].output \in BOOLEAN
<1>1. Svc!SvcTypeOK
  BY DEF SvcP!SvcInv, SvcP!SvcTypeOK, Svc!SvcTypeOK, SvcP!Entry, Svc!Entry, SvcP!SvcState,
     Svc!SvcState, SvcP!SvcTerminal, Svc!SvcTerminal, SvcP!FutureState, Svc!FutureState
<1>2. \A r \in Run : svc[r].state \in Svc!SvcState /\ svc[r].output \in BOOLEAN
  BY <1>1 DEF Svc!SvcTypeOK, Svc!Entry
<1> QED
  BY <1>1, <1>2

-----------------------------------------------------------------------------
(* The calls.                                                              *)

\* Nobody has heard of a run that has not been started.
Started(rows, r) == KnownIn(rows, r) /\ rows[r].status \in {"running"} \cup Final

CallsFollow ==
  /\ CallTypeOK /\ stop \subseteq Task /\ crashes \in 0 .. MaxCrashes
  /\ SvcP!SvcInv
  /\ \A t \in Task, r \in Run : call[t][r] # Idle => Started(run, r)
  /\ \A t \in Task : wait[t].pc = "load" /\ wait[t].stage = "poll" =>
       \A i \in DOMAIN wait[t].todo : Started(run, wait[t].todo[i])
  /\ \A r \in Run : svc[r].state # "absent" => Started(run, r)

CallPoints == {"idle", "claimed", "post", "open", "get", "answer"}

LEMMA AtFacts ==
  /\ \A p \in CallPoints : At(p) \in Call /\ At(p).at = p /\ At(p).answer = "absent"
  /\ \A a \in Answer, o \in BOOLEAN :
       /\ Answered(a, o) \in Call /\ Answered(a, o).at = "answer"
       /\ Answered(a, o).answer = a /\ Answered(a, o).output = o
  /\ Idle \in Call /\ Idle.at = "idle" /\ Failed \in Call /\ Failed.at = "answer"
  /\ Failed.answer = "error"
<1>1. "absent" \in Answer /\ "error" \in Answer
  BY DEF Answer, Svc!SvcState
<1>2. Idle \in Call /\ Idle.at = "idle" /\ Idle.answer = "absent"
  BY <1>1 DEF Idle, Call
<1>3. ASSUME NEW p \in CallPoints
      PROVE  At(p) \in Call /\ At(p).at = p /\ At(p).answer = "absent"
  BY <1>2, <1>3 DEF At, Call, CallPoints, Idle
<1>4. ASSUME NEW a \in Answer, NEW o \in BOOLEAN
      PROVE  /\ Answered(a, o) \in Call /\ Answered(a, o).at = "answer"
             /\ Answered(a, o).answer = a /\ Answered(a, o).output = o
  BY <1>4 DEF Answered, Call
<1>5. Failed \in Call /\ Failed.at = "answer" /\ Failed.answer = "error"
  BY <1>1, <1>4 DEF Failed
<1> QED
  BY <1>2, <1>3, <1>4, <1>5

LEMMA CurrentFacts ==
  ASSUME SvcP!SvcInv, NEW r \in Run
  PROVE  /\ Current(r) \in Call /\ Current(r).at = "answer"
         /\ Current(r).answer = svc[r].state /\ Current(r).output = svc[r].output
<1>1. svc[r].state \in Answer /\ svc[r].output \in BOOLEAN
  BY ServiceTypes DEF Answer
<1> QED
  BY <1>1, AtFacts DEF Current

LEMMA CallTypeStep ==
  ASSUME WaitInv, CallTypeOK, SvcP!SvcInv, [WaitNext]_vars
  PROVE  CallTypeOK'
<1> USE DEF CallTypeOK
<1>1. ASSUME NEW t \in Task, NEW r \in Run, NEW c \in Call, AnswerCall(t, r, c)
      PROVE  call' \in [Task -> [Run -> Call]]
  BY <1>1 DEF AnswerCall
<1>2. ASSUME NEW t \in Task, NEW f \in [Run -> Call], call' = [call EXCEPT ![t] = f]
      PROVE  call' \in [Task -> [Run -> Call]]
  BY <1>2
<1>3. ASSUME UNCHANGED call
      PROVE  call' \in [Task -> [Run -> Call]]
  BY <1>3
<1>4. {"claimed", "post", "open", "get"} \subseteq CallPoints
  BY DEF CallPoints
<1>5. ASSUME NEW t \in Task, NEW r \in Run, Claimed(t, r)
      PROVE  call' \in [Task -> [Run -> Call]]
  BY <1>1, <1>4, <1>5, AtFacts DEF Claimed, AnswerCall
<1>6. ASSUME NEW t \in Task, ClaimAgent(t) \/ StartOnService(t) \/ AfterConflict(t)
      PROVE  call' \in [Task -> [Run -> Call]]
  <2>1. Todo(t) \in Run
    BY <1>6, TodoIsKnown DEF ClaimAgent, StartOnService, UsesService, AfterConflict, Is, WaitInv,
       Shape
  <2>2. Claimed(t, Todo(t)) \/ UNCHANGED call
    BY <1>6 DEF ClaimAgent, StartOnService, AfterConflict
  <2> QED
    BY <1>3, <1>5, <2>1, <2>2
<1>7. ASSUME NEW t \in Task, Submit(t) \/ Poll(t) \/ Crash(t)
      PROVE  call' \in [Task -> [Run -> Call]]
  <2>1. CASE Submit(t)
    <3> DEFINE f == [r \in Run |-> IF call[t][r].at = "claimed" THEN At("post") ELSE call[t][r]]
    <3>1. f \in [Run -> Call]
      BY <1>4, AtFacts
    <3> QED
      BY <1>2, <2>1, <3>1 DEF Submit
  <2>2. CASE Poll(t)
    <3> DEFINE f == [r \in Run |-> IF \E i \in DOMAIN wait[t].todo : wait[t].todo[i] = r
                                   THEN At("get") ELSE call[t][r]]
    <3>1. f \in [Run -> Call]
      BY <1>4, AtFacts
    <3> QED
      BY <1>2, <2>2, <3>1 DEF Poll
  <2>3. CASE Crash(t)
    <3>1. [r \in Run |-> Idle] \in [Run -> Call]
      BY AtFacts
    <3> QED
      BY <1>2, <2>3, <3>1 DEF Crash
  <2> QED
    BY <1>7, <2>1, <2>2, <2>3
<1>8. ASSUME NEW t \in Task, NEW r \in Run, CallStep(t, r) \/ LoseCall(t, r)
      PROVE  call' \in [Task -> [Run -> Call]]
  <2>1. \E c \in Call : AnswerCall(t, r, c)
    <3>1. \E c \in {Current(r), Failed, At("open"), Idle} : AnswerCall(t, r, c)
      BY <1>8 DEF CallStep, Post, PostAnswered, Get, Apply, LoseCall
    <3> QED
      BY <1>4, <3>1, AtFacts, CurrentFacts
  <2> QED
    BY <1>1, <2>1
<1>9. ASSUME NEW p \in Platform, RestartService(p)
      PROVE  call' \in [Task -> [Run -> Call]]
  BY <1>9, AtFacts DEF RestartService
<1>10. ASSUME NEW t \in Task,
             \/ FindActive(t) \/ Insert(t) \/ InsertRejected(t) \/ ReportJoin(t) \/ LoadRun(t)
             \/ BeginClaims(t) \/ ChooseAgent(t) \/ LoseClaim(t) \/ StartConflict(t)
             \/ GiveUp(t) \/ CallsDone(t) \/ NextRound(t) \/ BeginExpire(t) \/ EndExpire(t)
             \/ Expire(t) \/ ReturnFinal(t) \/ EndWait(t) \/ Deadline(t) \/ RequestCancel(t)
             \/ ReadRuns(t) \/ Detach(t)
      PROVE  UNCHANGED call
  BY <1>10 DEF FindActive, Insert, InsertRejected, ReportJoin, LoadRun, BeginClaims, ChooseAgent,
     LoseClaim, StartConflict, GiveUp, CallsDone, NextRound, BeginExpire, EndExpire, Expire,
     ReturnFinal, EndWait, Deadline, RequestCancel, ReadRuns, Detach, StoreOnly, LocalOnly
<1>11. CASE ServiceStep \/ UNCHANGED vars
  BY <1>3, <1>11 DEF ServiceStep, vars
<1>12. CASE \E t \in Task : TaskStep(t)
  BY <1>3, <1>6, <1>7, <1>10, <1>12 DEF TaskStep
<1> QED
  BY <1>3, <1>7, <1>8, <1>9, <1>10, <1>11, <1>12 DEF WaitNext, Fault

\* The calls register what the services accept.
LEMMA ServiceMoves ==
  ASSUME WaitInv, CallsFollow, [WaitNext]_vars
  PROVE  SvcP!SvcNext \/ UNCHANGED serviceVars
<1>1. ASSUME NEW t \in Task, NEW r \in Run, Post(t, r)
      PROVE  SvcP!SvcNext \/ UNCHANGED serviceVars
  <2>1. CASE Svc!Register(r, t, RequestAgent(r), RunPlatform(r))
    <3>1. call[t][r].at = "post"
      BY <1>1 DEF Post
    <3>2. call[t][r] # Idle
      BY <3>1, AtFacts
    <3>3. run[r].key \in Key /\ run[r].agent \in Agent \cup {NoAgent}
      BY <3>2 DEF CallsFollow, Started, KnownIn, WaitInv, StoreTypeOK, Row
    <3>4. RunPlatform(r) \in Platform /\ RequestAgent(r) \in Agent \cup {NoAgent}
      BY <3>3, WaitAssumption DEF RunPlatform, RequestAgent
    <3> QED
      BY <2>1, <3>4, ServiceActions
  <2> QED
    BY <1>1, <2>1 DEF Post
<1>2. ASSUME NEW t \in Task, NEW r \in Run,
             PostAnswered(t, r) \/ Get(t, r) \/ Apply(t, r) \/ LoseCall(t, r)
      PROVE  UNCHANGED serviceVars
  BY <1>2 DEF PostAnswered, Get, Apply, LoseCall
<1>3. CASE ServiceStep
  BY <1>3, ServiceActions DEF ServiceStep
<1>4. CASE \E p \in Platform : RestartService(p)
  BY <1>4, ServiceActions DEF RestartService
<1>5. ASSUME NEW t \in Task, TaskStep(t) \/ Deadline(t) \/ RequestCancel(t) \/ Crash(t)
      PROVE  UNCHANGED serviceVars
  BY <1>5 DEF TaskStep, FindActive, Insert, InsertRejected, ReportJoin, LoadRun, BeginClaims,
     ChooseAgent, ClaimAgent, LoseClaim, GiveUp, StartOnService, StartConflict,
     AfterConflict, Submit, Poll, CallsDone, NextRound, BeginExpire, Expire, EndExpire,
     ReturnFinal, EndWait, ReadRuns, Detach, Deadline, RequestCancel, Crash, StoreOnly, LocalOnly
<1>6. CASE UNCHANGED vars
  BY <1>6 DEF vars
<1> QED
  BY <1>1, <1>2, <1>3, <1>4, <1>5, <1>6 DEF WaitNext, Fault, CallStep

LEMMA StartedStays ==
  ASSUME StoreTypeOK, [StoreNext]_storeVars, NEW r \in Run, Started(run, r)
  PROVE  Started(run', r)
  BY RowsGoOn DEF Started, Over

LEMMA CountersStep ==
  ASSUME stop \subseteq Task, crashes \in 0 .. MaxCrashes, [WaitNext]_vars
  PROVE  stop' \subseteq Task /\ crashes' \in 0 .. MaxCrashes
<1>1. ASSUME NEW t \in Task, TaskStep(t) \/ Deadline(t)
      PROVE  UNCHANGED <<stop, crashes>>
  BY <1>1 DEF TaskStep, FindActive, Insert, InsertRejected, ReportJoin, LoadRun, BeginClaims,
     ChooseAgent, ClaimAgent, LoseClaim, GiveUp, StartOnService, StartConflict,
     AfterConflict, Submit, Poll, CallsDone, NextRound, BeginExpire, Expire, EndExpire,
     ReturnFinal, EndWait, ReadRuns, Detach, Deadline, StoreOnly, LocalOnly
<1>2. ASSUME NEW t \in Task, NEW r \in Run, CallStep(t, r) \/ LoseCall(t, r)
      PROVE  UNCHANGED <<stop, crashes>>
  BY <1>2 DEF CallStep, Post, PostAnswered, Get, Apply, LoseCall, CallOnly
<1>3. ASSUME ServiceStep \/ (\E p \in Platform : RestartService(p)) \/ UNCHANGED vars
      PROVE  UNCHANGED <<stop, crashes>>
  BY <1>3 DEF ServiceStep, RestartService, CallOnly, vars
<1>4. ASSUME NEW t \in Task, RequestCancel(t)
      PROVE  stop' \subseteq Task /\ crashes' = crashes
  BY <1>4 DEF RequestCancel
<1>5. ASSUME NEW t \in Task, Crash(t)
      PROVE  stop' = stop /\ crashes' \in 0 .. MaxCrashes
  BY <1>5, WaitAssumption DEF Crash
<1> QED
  BY <1>1, <1>2, <1>3, <1>4, <1>5 DEF WaitNext, Fault

\* A task starts a run, or thinks so.
Takes(t, r) ==
  \/ ClaimAgent(t) /\ r = Todo(t)
  \/ StartOnService(t) /\ r = Todo(t) /\ run'[r].status = "running"
  \/ AfterConflict(t) /\ r = Todo(t) /\ run[r].status = "running"

\* A task begins a call for a run that it starts or has read to be running.
Begins(t, r) == Takes(t, r) \/ (Poll(t) /\ Lists(wait[t], r))

\* What a step of the system can do to a call.
LEMMA CallMoves ==
  ASSUME WaitInv, CallTypeOK, [WaitNext]_vars, NEW t \in Task, NEW r \in Run
  PROVE  \/ call'[t][r] = call[t][r]
         \/ Takes(t, r) /\ call'[t][r] = At("claimed")
         \/ Poll(t) /\ Lists(wait[t], r) /\ call'[t][r] = At("get")
         \/ Submit(t) /\ call[t][r].at = "claimed" /\ call'[t][r] = At("post")
         \/ Crash(t) /\ call'[t][r] = Idle
         \/ CallStep(t, r) \/ LoseCall(t, r)
         \/ \E p \in Platform : /\ RestartService(p) /\ svc[r].platform = p
                                /\ call[t][r].at = "open" /\ call'[t][r] = Failed
<1> USE DEF CallTypeOK
<1>1. PICK u \in Task, s \in Run :
        \/ TaskStep(u) \/ Deadline(u) \/ RequestCancel(u) \/ Crash(u)
        \/ CallStep(u, s) \/ LoseCall(u, s)
        \/ ServiceStep \/ (\E p \in Platform : RestartService(p)) \/ UNCHANGED vars
  BY DEF WaitNext, Fault
<1>3. CASE CallStep(u, s) \/ LoseCall(u, s)
  <2>1. \E c : AnswerCall(u, s, c)
    BY <1>3 DEF CallStep, Post, PostAnswered, Get, Apply, LoseCall
  <2>2. <<u, s>> # <<t, r>> => call'[t][r] = call[t][r]
    BY <2>1 DEF AnswerCall
  <2> QED
    BY <1>3, <2>2
<1>4. CASE \E p \in Platform : RestartService(p)
  BY <1>4 DEF RestartService
<1>5. CASE Crash(u)
  BY <1>5 DEF Crash
<1>6. CASE Submit(u)
  BY <1>6 DEF Submit
<1>7. CASE Poll(u)
  BY <1>7 DEF Poll, Lists
<1>8. CASE ClaimAgent(u) \/ StartOnService(u) \/ AfterConflict(u)
  <2>1. Claimed(u, Todo(u)) \/ UNCHANGED call
    BY <1>8 DEF ClaimAgent, StartOnService, AfterConflict
  <2>2. CASE Claimed(u, Todo(u)) /\ <<u, Todo(u)>> = <<t, r>>
    <3>1. call'[t][r] = At("claimed")
      BY <2>2 DEF Claimed
    <3>2. Takes(t, r) \/ call' = call
      BY <1>8, <2>2 DEF Takes, StartOnService, AfterConflict
    <3> QED
      BY <3>1, <3>2
  <2>3. CASE Claimed(u, Todo(u)) /\ <<u, Todo(u)>> # <<t, r>>
    BY <2>3 DEF Claimed
  <2> QED
    BY <2>1, <2>2, <2>3
<1>9. CASE ServiceStep \/ UNCHANGED vars
  BY <1>9 DEF ServiceStep, vars
<1>10. CASE \/ FindActive(u) \/ Insert(u) \/ InsertRejected(u) \/ ReportJoin(u) \/ LoadRun(u)
            \/ BeginClaims(u) \/ ChooseAgent(u) \/ LoseClaim(u) \/ StartConflict(u)
            \/ GiveUp(u) \/ CallsDone(u) \/ NextRound(u) \/ BeginExpire(u) \/ EndExpire(u)
            \/ Expire(u) \/ ReturnFinal(u) \/ EndWait(u) \/ Deadline(u) \/ RequestCancel(u)
            \/ ReadRuns(u) \/ Detach(u)
  <2>1. UNCHANGED call
    BY <1>10 DEF FindActive, Insert, InsertRejected, ReportJoin, LoadRun, BeginClaims,
       ChooseAgent, LoseClaim, StartConflict, GiveUp, CallsDone, NextRound, BeginExpire,
       EndExpire, Expire, ReturnFinal, EndWait, Deadline, RequestCancel, ReadRuns, Detach,
       StoreOnly, LocalOnly
  <2> QED
    BY <2>1
<1> QED
  BY <1>1, <1>3, <1>4, <1>5, <1>6, <1>7, <1>8, <1>9, <1>10 DEF TaskStep

LEMMA NewCall ==
  ASSUME WaitInv, CallTypeOK, [WaitNext]_vars, NEW t \in Task, NEW r \in Run,
         call'[t][r] # Idle, call[t][r] = Idle
  PROVE  Begins(t, r)
<1>1. call[t][r].at = "idle"
  BY AtFacts
<1>2. ~CallStep(t, r) /\ ~LoseCall(t, r)
  BY <1>1 DEF CallStep, Post, PostAnswered, Get, Apply, LoseCall
<1> QED
  BY <1>1, <1>2, CallMoves DEF Begins

LEMMA BegunIsStarted ==
  ASSUME WaitInv, CallsFollow, NEW t \in Task, NEW r \in Run, Begins(t, r)
  PROVE  Started(run', r)
<1>1. run \in [Run -> Row] /\ StoreTypeOK
  BY DEF WaitInv, StoreTypeOK
<1>2. CASE Poll(t) /\ Lists(wait[t], r)
  <2>1. UNCHANGED storeVars /\ wait[t].pc = "load" /\ wait[t].stage = "poll"
    BY <1>2 DEF Poll, Loaded, Is
  <2>2. Started(run, r)
    BY <1>2, <2>1 DEF CallsFollow, Lists
  <2> QED
    BY <2>1, <2>2 DEF storeVars
<1>3. CASE \/ ClaimAgent(t) /\ r = Todo(t)
           \/ StartOnService(t) /\ r = Todo(t) /\ run'[r].status = "running"
           \/ AfterConflict(t) /\ r = Todo(t) /\ run[r].status = "running"
  <2>1. wait[t].todo # <<>>
    BY <1>3 DEF ClaimAgent, StartOnService, UsesService, AfterConflict, Is, WaitInv, Shape
  <2>2. KnownIn(run, r) /\ [StoreNext]_storeVars
    BY <1>3, <2>1, TodoIsKnown, RowSteps
  <2>3. KnownIn(run', r)
    BY <1>1, <2>2, KnownStays
  <2>4. run'[r].status = "running"
    BY <1>1, <1>3 DEF ClaimAgent, ClaimWithAgent, SetRunning, RunningRow, Row, AfterConflict,
       WaitAfterAgentConflict, Dispatchable
  <2> QED
    BY <2>3, <2>4 DEF Started
<1> QED
  BY <1>2, <1>3 DEF Begins, Takes

Dispatching == {"claim", "take", "giveup", "conflict"}
Calling == Dispatching \cup {"calls"}

\* What a step of the task does to its place in the program and to its list.
LEMMA TaskMoves ==
  ASSUME WaitInv, NEW t \in Task, TaskStep(t) \/ Deadline(t) \/ Crash(t)
  PROVE  \/ BeginClaims(t) /\ wait'[t].pc = "claim" /\ wait'[t].todo = wait[t].todo
         \/ /\ wait[t].pc \in Dispatching /\ wait'[t].pc \in Dispatching
            /\ \/ wait'[t].todo = wait[t].todo
               \/ wait[t].todo # <<>> /\ wait'[t].todo = Tail(wait[t].todo)
         \/ (Submit(t) \/ Poll(t)) /\ wait'[t].pc = "calls"
         \/ /\ LoadRun(t) /\ wait'[t].pc = "load" /\ wait'[t].stage = wait[t].stage
            /\ \/ wait'[t].todo = wait[t].todo
               \/ \E r \in Run : /\ run[r].status \in Wanted(wait[t].stage) /\ KnownIn(run, r)
                                 /\ wait'[t].todo = Append(wait[t].todo, r)
         \/ /\ CallsDone(t) \/ Crash(t) \/ wait[t].pc \notin Calling
            /\ wait'[t].pc \notin Calling
            /\ wait'[t].pc = "load" => wait'[t].todo = <<>>
<1>1. wait[t] \in WaitState /\ wait \in [Task -> WaitState]
  BY DEF WaitInv
<1>2. ASSUME NEW w, Become(t, w)
      PROVE  wait'[t] = w
  BY <1>1, <1>2 DEF Become
<1>3. ASSUME NEW p, Go(t, p)
      PROVE  wait'[t].pc = p /\ wait'[t].todo = wait[t].todo
  BY <1>1, <1>3 DEF Go, WaitState
<1>4. ASSUME NEW w, NEW s, Become(t, Reload(w, s))
      PROVE  wait'[t].pc = "load" /\ wait'[t].todo = <<>>
  BY <1>2, <1>4 DEF Reload
<1>5. CASE BeginClaims(t)
  BY <1>3, <1>5 DEF BeginClaims
<1>6. CASE LoseClaim(t) \/ StartConflict(t)
  BY <1>3, <1>6 DEF LoseClaim, StartConflict, UsesService, Is, Dispatching
<1>7. CASE ChooseAgent(t)
  <2>1. \/ Go(t, "giveup")
        \/ \E a : Become(t, [wait[t] EXCEPT !.pc = "take", !.agent = a])
    BY <1>7 DEF ChooseAgent, Become, Go
  <2>2. ASSUME NEW a, Become(t, [wait[t] EXCEPT !.pc = "take", !.agent = a])
        PROVE  wait'[t].pc = "take" /\ wait'[t].todo = wait[t].todo
    <3>1. wait'[t] = [wait[t] EXCEPT !.pc = "take", !.agent = a]
      BY <1>2, <2>2
    <3> QED
      BY <1>1, <3>1 DEF WaitState
  <2> QED
    BY <1>3, <1>7, <2>1, <2>2 DEF ChooseAgent, Is, Dispatching
<1>8. CASE ClaimAgent(t) \/ GiveUp(t) \/ StartOnService(t) \/ AfterConflict(t)
  <2>1. Become(t, Pop(t)) /\ wait[t].pc \in Dispatching
    BY <1>8 DEF ClaimAgent, GiveUp, StartOnService, UsesService, AfterConflict, Is, Dispatching
  <2>2. wait[t].todo # <<>>
    BY <1>8 DEF ClaimAgent, GiveUp, StartOnService, UsesService, AfterConflict, Is, WaitInv, Shape
  <2>3. wait'[t].pc = "claim" /\ wait'[t].todo = Tail(wait[t].todo)
    BY <1>2, <2>1, <2>2, PopFacts
  <2> QED
    BY <2>1, <2>2, <2>3 DEF Dispatching
<1>9. CASE Submit(t) \/ Poll(t)
  BY <1>3, <1>9 DEF Submit, Poll
<1>10. CASE LoadRun(t)
  <2> DEFINE next == wait[t].read + 1
             r == wait[t].mine[next]
             keep == run[r].status \in Wanted(wait[t].stage)
             success == run[r].status = "succeeded" /\ wait[t].stage \in {"results", "final"}
             todo == IF keep THEN Append(wait[t].todo, r) ELSE wait[t].todo
             won == IF success THEN wait[t].won \cup {r} ELSE wait[t].won
             w == [wait[t] EXCEPT !.read = next, !.todo = todo, !.won = won]
  <2>1. /\ wait[t].pc = "load" /\ Become(t, w)
        /\ wait[t].mine \in Seq(Run) /\ wait[t].read \in Nat
        /\ wait[t].read < Len(wait[t].mine)
        /\ \A j \in DOMAIN wait[t].mine : KnownIn(run, wait[t].mine[j])
    BY <1>1, <1>10 DEF LoadRun, Is, WaitInv, Sees, WaitState
  <2>2. r \in Run /\ KnownIn(run, r)
    BY <2>1
  <2>3. wait'[t] = w
    BY <1>2, <2>1
  <2>4. todo = wait[t].todo \/ (keep /\ todo = Append(wait[t].todo, r))
    OBVIOUS
  <2> HIDE DEF r, won, todo, next, success
  <2>5. w.pc = wait[t].pc /\ w.stage = wait[t].stage /\ w.todo = todo
    BY <1>1 DEF WaitState
  <2> HIDE DEF w
  <2> QED
    BY <1>10, <2>1, <2>2, <2>3, <2>4, <2>5
<1>11. CASE CallsDone(t)
  <2>1. \E w, s : Become(t, Reload(w, s))
    BY <1>11 DEF CallsDone
  <2> QED
    BY <1>4, <1>11, <2>1 DEF Calling, Dispatching
<1>12. CASE Crash(t)
  <2>1. \/ \E w, s : Become(t, Reload(w, s))
        \/ Become(t, [wait[t] EXCEPT !.pc = "find", !.run = NoRun])
        \/ Become(t, [wait[t] EXCEPT !.pc = "cancelling"])
    BY <1>12 DEF Crash, Restarted
  <2>3. ASSUME Become(t, [wait[t] EXCEPT !.pc = "cancelling"])
        PROVE  wait'[t].pc = "cancelling"
    <3>1. wait'[t] = [wait[t] EXCEPT !.pc = "cancelling"]
      BY <1>2, <2>3
    <3> QED
      BY <1>1, <3>1 DEF WaitState
  <2>2. ASSUME Become(t, [wait[t] EXCEPT !.pc = "find", !.run = NoRun])
        PROVE  wait'[t].pc = "find"
    <3>1. wait'[t] = [wait[t] EXCEPT !.pc = "find", !.run = NoRun]
      BY <1>2, <2>2
    <3> QED
      BY <1>1, <3>1 DEF WaitState
  <2> QED
    BY <1>4, <1>12, <2>1, <2>2, <2>3 DEF Calling, Dispatching
<1>13. CASE NextRound(t) \/ EndExpire(t) \/ Deadline(t)
  <2>1. wait[t].pc \notin Calling
    BY <1>13 DEF NextRound, EndExpire, Deadline, Loaded, Is, Calling, Dispatching
  <2>2. (\E w, s : Become(t, Reload(w, s))) \/ Go(t, "returned")
    BY <1>13 DEF NextRound, EndExpire, Deadline
  <2> QED
    BY <1>3, <1>4, <2>1, <2>2 DEF Calling, Dispatching
<1>14. CASE \/ InsertRejected(t) \/ BeginExpire(t) \/ ReturnFinal(t) \/ EndWait(t)
            \/ ReadRuns(t) \/ Detach(t)
  <2>1. wait[t].pc \notin Calling
    BY <1>14 DEF InsertRejected, BeginExpire, ReturnFinal, EndWait, ReadRuns, Detach, Loaded, Is,
       Calling, Dispatching
  <2>2. \E p \in {"find", "expire", "returned", "cancelling", "done", "detaching", "cancelled"} :
          Go(t, p)
    BY <1>14 DEF InsertRejected, BeginExpire, ReturnFinal, EndWait, ReadRuns, Detach
  <2> QED
    BY <1>3, <2>1, <2>2 DEF Calling, Dispatching
<1>15. CASE Expire(t)
  <2>1. wait'[t] = [wait[t] EXCEPT !.todo = Tail(@)] /\ wait[t].pc = "expire"
    BY <1>2, <1>15 DEF Expire, Is
  <2> QED
    BY <1>1, <2>1 DEF WaitState, Calling, Dispatching
<1>16. CASE FindActive(t) \/ Insert(t)
  <2>1. wait[t].pc \notin Calling
    BY <1>16 DEF FindActive, Insert, Is, Calling, Dispatching
  <2>2. \/ Go(t, "insert")
        \/ \E r : Become(t, [wait[t] EXCEPT !.pc = "joined", !.run = r])
    BY <1>16 DEF FindActive, Insert
  <2>3. ASSUME NEW r, Become(t, [wait[t] EXCEPT !.pc = "joined", !.run = r])
        PROVE  wait'[t].pc = "joined"
    <3>1. wait'[t] = [wait[t] EXCEPT !.pc = "joined", !.run = r]
      BY <1>2, <2>3
    <3> QED
      BY <1>1, <3>1 DEF WaitState
  <2> QED
    BY <1>3, <2>1, <2>2, <2>3 DEF Calling, Dispatching
<1>17. CASE ReportJoin(t)
  <2> DEFINE joined == [wait[t] EXCEPT !.mine = Append(@, wait[t].run), !.run = NoRun]
  <2>1. wait[t].pc \notin Calling
    BY <1>17 DEF ReportJoin, Is, Calling, Dispatching
  <2>2. \/ \E p \in {"cancelling", "find"} : Become(t, [joined EXCEPT !.pc = p])
        \/ Become(t, Reload(joined, "dispatch"))
    BY <1>17 DEF ReportJoin
  <2>3. "pc" \in DOMAIN joined
    BY <1>1 DEF WaitState
  <2> HIDE DEF joined
  <2>4. ASSUME NEW p, Become(t, [joined EXCEPT !.pc = p])
        PROVE  wait'[t].pc = p
    <3>1. wait'[t] = [joined EXCEPT !.pc = p]
      BY <1>2, <2>4
    <3> QED
      BY <2>3, <3>1
  <2> QED
    BY <1>4, <2>1, <2>2, <2>4 DEF Calling, Dispatching
<1> QED
  BY <1>5, <1>6, <1>7, <1>8, <1>9, <1>10, <1>11, <1>12, <1>13, <1>14, <1>15, <1>16, <1>17
  DEF TaskStep

\* What is on the list for the polls was running when it was read.
LEMMA PollListStep ==
  ASSUME WaitInv, CallsFollow, [WaitNext]_vars, NEW t \in Task,
         wait'[t].pc = "load", wait'[t].stage = "poll",
         NEW i \in DOMAIN wait'[t].todo
  PROVE  Started(run', wait'[t].todo[i])
<1>1. StoreTypeOK /\ [StoreNext]_storeVars
  BY WaitStep DEF WaitInv
<1>2. wait[t].todo \in Seq(Run)
  BY DEF WaitInv, WaitState
<1>3. CASE wait'[t] = wait[t]
  <2>1. Started(run, wait[t].todo[i]) /\ wait[t].todo[i] \in Run
    BY <1>2, <1>3 DEF CallsFollow
  <2> QED
    BY <1>1, <1>3, <2>1, StartedStays
<1>4. CASE wait'[t] # wait[t]
  <2>1. TaskStep(t) \/ Deadline(t) \/ Crash(t)
    BY <1>4, StepCases DEF OnlyOwn, CallsFollow
  <2>2. /\ LoadRun(t) /\ wait[t].stage = "poll"
        /\ \/ wait'[t].todo = wait[t].todo
           \/ \E r \in Run : /\ run[r].status = "running" /\ KnownIn(run, r)
                             /\ wait'[t].todo = Append(wait[t].todo, r)
    <3>1. "load" \notin Calling
      BY DEF Calling, Dispatching
    <3>2. wait'[t].todo # <<>>
      OBVIOUS
    <3>3. /\ LoadRun(t) /\ wait'[t].stage = wait[t].stage
          /\ \/ wait'[t].todo = wait[t].todo
             \/ \E r \in Run : /\ run[r].status \in Wanted(wait[t].stage) /\ KnownIn(run, r)
                               /\ wait'[t].todo = Append(wait[t].todo, r)
      BY <2>1, <3>1, <3>2, TaskMoves DEF Calling
    <3>4. Wanted("poll") = {"running"}
      BY DEF Wanted
    <3> QED
      BY <3>3, <3>4
  <2>3. wait[t].pc = "load" /\ run' = run
    BY <2>2 DEF LoadRun, Is, LocalOnly, storeVars
  <2>4. CASE wait'[t].todo = wait[t].todo
    BY <2>2, <2>3, <2>4 DEF CallsFollow
  <2>5. ASSUME NEW r \in Run, run[r].status = "running", KnownIn(run, r),
               wait'[t].todo = Append(wait[t].todo, r)
        PROVE  Started(run', wait'[t].todo[i])
    <3>1. \/ wait'[t].todo[i] = r
          \/ i \in DOMAIN wait[t].todo /\ wait'[t].todo[i] = wait[t].todo[i]
      BY <1>2, <2>5
    <3> QED
      BY <2>2, <2>3, <2>5, <3>1 DEF CallsFollow, Started
  <2> QED
    BY <2>2, <2>4, <2>5
<1> QED
  BY <1>3, <1>4

\* A service hears of a run when it is submitted.
LEMMA KnownStep ==
  ASSUME WaitInv, CallsFollow, [WaitNext]_vars, NEW r \in Run, svc'[r].state # "absent"
  PROVE  \/ svc[r].state # "absent"
         \/ \E t \in Task : Post(t, r) /\ Svc!Register(r, t, RequestAgent(r), RunPlatform(r))
<1>1. svc \in [Run -> SvcP!Entry]
  BY DEF CallsFollow, SvcP!SvcInv, SvcP!SvcTypeOK
<1>2. ASSUME NEW t \in Task, NEW s \in Run,
             Svc!Register(s, t, RequestAgent(s), RunPlatform(s)), s # r
      PROVE  svc[r].state # "absent"
  BY <1>2 DEF Svc!Register
<1>3. ASSUME Svc!SvcStep
      PROVE  svc[r].state # "absent"
  <2>1. SvcP!SvcInv
    BY DEF CallsFollow
  <2>2. ASSUME NEW s \in Run, Svc!Begin(s) PROVE svc[r].state # "absent"
    BY <1>1, <2>1, <2>2 DEF Svc!Begin, SvcP!SvcInv, SvcP!RunInv, SvcP!Entry
  <2>3. ASSUME NEW s \in Run, Svc!Crawl(s) PROVE svc[r].state # "absent"
    BY <1>1, <2>1, <2>3 DEF Svc!Crawl, Svc!FinishWithResult, Svc!FinishWithError, SvcP!SvcInv,
       SvcP!RunInv, SvcP!Entry
  <2> QED
    BY <1>3, <2>2, <2>3 DEF Svc!SvcStep, Svc!Enqueue, Svc!Take
<1>4. ASSUME NEW p \in Platform, Svc!Restart(p)
      PROVE  svc[r].state # "absent"
  BY <1>1, <1>4 DEF Svc!Restart, Svc!NoEntry
<1>5. ASSUME UNCHANGED svc
      PROVE  svc[r].state # "absent"
  BY <1>5
<1>6. \/ \E t \in Task, s \in Run :
           Post(t, s) /\ Svc!Register(s, t, RequestAgent(s), RunPlatform(s))
      \/ Svc!SvcStep \/ (\E p \in Platform : Svc!Restart(p)) \/ UNCHANGED svc
  <2>1. ASSUME NEW t \in Task, TaskStep(t) \/ Deadline(t) \/ RequestCancel(t) \/ Crash(t)
        PROVE  UNCHANGED svc
    BY <2>1 DEF TaskStep, FindActive, Insert, InsertRejected, ReportJoin, LoadRun, BeginClaims,
       ChooseAgent, ClaimAgent, LoseClaim, GiveUp, StartOnService, StartConflict,
       AfterConflict, Submit, Poll, CallsDone, NextRound, BeginExpire, Expire, EndExpire,
       ReturnFinal, EndWait, ReadRuns, Detach, Deadline, RequestCancel, Crash, StoreOnly,
       LocalOnly, serviceVars
  <2>2. ASSUME NEW t \in Task, NEW s \in Run,
               PostAnswered(t, s) \/ Get(t, s) \/ Apply(t, s) \/ LoseCall(t, s)
        PROVE  UNCHANGED svc
    BY <2>2 DEF PostAnswered, Get, Apply, LoseCall, serviceVars
  <2>3. ASSUME NEW t \in Task, NEW s \in Run, Post(t, s)
        PROVE  Svc!Register(s, t, RequestAgent(s), RunPlatform(s)) \/ UNCHANGED svc
    BY <2>3 DEF Post, serviceVars
  <2>4. UNCHANGED vars => UNCHANGED svc
    BY DEF vars, serviceVars
  <2> QED
    BY <2>1, <2>2, <2>3, <2>4 DEF WaitNext, Fault, CallStep, ServiceStep, RestartService
<1> QED
  BY <1>2, <1>3, <1>4, <1>5, <1>6

LEMMA CallsStep ==
  ASSUME WaitInv, CallsFollow, [WaitNext]_vars
  PROVE  CallsFollow'
<1>1. CallTypeOK' /\ SvcP!SvcInv' /\ stop' \subseteq Task /\ crashes' \in 0 .. MaxCrashes
  BY CallTypeStep, ServiceMoves, ServicesStay, CountersStep DEF CallsFollow
<1>2. StoreTypeOK /\ [StoreNext]_storeVars
  BY WaitStep DEF WaitInv
<1>3. ASSUME NEW t \in Task, NEW r \in Run, call'[t][r] # Idle
      PROVE  Started(run', r)
  <2>1. CASE call[t][r] # Idle
    BY <1>2, <2>1, StartedStays DEF CallsFollow
  <2>2. CASE call[t][r] = Idle
    BY <1>3, <2>2, NewCall, BegunIsStarted DEF CallsFollow
  <2> QED
    BY <2>1, <2>2
<1>4. ASSUME NEW r \in Run, svc'[r].state # "absent"
      PROVE  Started(run', r)
  <2>1. Started(run, r)
    <3>1. CASE svc[r].state # "absent"
      BY <3>1 DEF CallsFollow
    <3>2. ASSUME NEW t \in Task, Post(t, r)
          PROVE  Started(run, r)
      <4>1. call[t][r] # Idle
        BY <3>2, AtFacts DEF Post
      <4> QED
        BY <4>1 DEF CallsFollow
    <3> QED
      BY <1>4, <3>1, <3>2, KnownStep
  <2> QED
    BY <1>2, <2>1, StartedStays
<1>5. \A t \in Task : wait'[t].pc = "load" /\ wait'[t].stage = "poll" =>
        \A i \in DOMAIN wait'[t].todo : Started(run', wait'[t].todo[i])
  BY PollListStep
<1> QED
  BY <1>1, <1>3, <1>4, <1>5 DEF CallsFollow, Idle

-----------------------------------------------------------------------------
(* The invariant.                                                          *)
WaitIInv == WaitInv /\ StoreIsExclusive /\ TasksFollow /\ RunningRunIsDriven /\ CallsFollow

LEMMA IInvInitially == WaitInit => WaitIInv
<1> SUFFICES ASSUME WaitInit PROVE WaitIInv
  OBVIOUS
<1>1. WaitInv
  BY WaitInitially
<1>2. /\ \A r \in Run : run[r].status = "absent"
      /\ link = {} /\ \A t \in Task : cancelTxn[t].runs = {}
  BY DEF WaitInit, StoreInit, NoRow, NoCancelTxn
<1>3. StoreIsExclusive /\ RunningRunIsDriven
  BY <1>2 DEF StoreIsExclusive, OneActiveRunPerKey, OneRunPerAgent, RunningHasAgent, IsActive,
     Active, RunningRunIsDriven
<1>4. ASSUME NEW t \in Task PROVE TaskInv(t)
  <2>1. /\ wait[t].pc = "find" /\ wait[t].mine = <<>> /\ wait[t].todo = <<>>
        /\ wait[t].read = 0
    BY DEF WaitInit
  <2>2. KeysOf[t] \in Seq(Key)
    BY WaitAssumption
  <2>3. Fits(wait[t], t, run) /\ Settled(wait[t], run)
    BY <2>1, <2>2 DEF Fits, Settled
  <2>4. Linked(wait[t], t, run, link) /\ Cancels(wait[t], t)
    BY <1>2, <2>1 DEF Linked, Cancels
  <2> QED
    BY <2>3, <2>4 DEF TaskInv, Follows
<1>5. CallsFollow
  <2>1. SvcP!SvcInv /\ \A r \in Run : svc[r].state = "absent"
    BY ServicesInitially DEF WaitInit, Svc!SvcInit, Svc!NoEntry
  <2>2. CallTypeOK /\ \A t \in Task, r \in Run : call[t][r] = Idle
    BY AtFacts DEF WaitInit, CallTypeOK
  <2>3. \A t \in Task : wait[t].pc = "find"
    BY DEF WaitInit
  <2>4. stop \subseteq Task /\ crashes \in 0 .. MaxCrashes
    BY WaitAssumption DEF WaitInit
  <2> QED
    BY <2>1, <2>2, <2>3, <2>4 DEF CallsFollow
<1> QED
  BY <1>1, <1>3, <1>4, <1>5 DEF WaitIInv, TasksFollow

LEMMA IInvStep == WaitIInv /\ [WaitNext]_vars => WaitIInv'
  BY WaitStep, ExclusiveStep, FollowsStep, DrivenStep, CallsStep DEF WaitIInv, CallsFollow

LEMMA IInvAlways == WaitSpec => []WaitIInv
  BY IInvInitially, IInvStep, PTL DEF WaitSpec

\* Everything a workflow, a call, a table or a service holds has its type.
THEOREM WaitIsTyped == WaitSpec => []WaitTypeOK
<1>1. WaitIInv => WaitTypeOK
  BY ServiceTypes DEF WaitIInv, WaitInv, WaitState, CallsFollow, CallTypeOK, WaitTypeOK
<1> QED
  BY <1>1, IInvAlways, PTL

\* When the wait of a task is over, no active run is left to it.
THEOREM EndedTasksLeaveNoRun == WaitSpec => []EndedTaskHasNoActiveRun
<1>1. WaitIInv => EndedTaskHasNoActiveRun
  <2> SUFFICES ASSUME WaitIInv, NEW t \in Task, wait[t].pc \in {"returned"} \cup Ended,
                      NEW r \in Run, <<r, t>> \in link, run[r].status \in Active
               PROVE  FALSE
    BY DEF EndedTaskHasNoActiveRun, LinkedActiveRuns, IsActive
  <2>1. /\ Settled(wait[t], run) /\ Linked(wait[t], t, run, link) /\ Cancels(wait[t], t)
    BY DEF WaitIInv, TasksFollow, TaskInv, Follows
  <2>2. CASE wait[t].pc = "cancelled"
    BY <2>1, <2>2 DEF Cancels, LinkedActiveRuns, IsActive
  <2>3. CASE wait[t].pc \in {"returned", "done"}
    <3>1. Has(wait[t], r)
      BY <2>1, <2>3 DEF Linked
    <3>2. Over(run, r)
      BY <2>1, <2>3, <3>1 DEF Settled, Has
    <3> QED
      BY <3>2 DEF Over, Active, Final
  <2> QED
    BY <2>2, <2>3 DEF Ended
<1> QED
  BY <1>1, IInvAlways, PTL

\* No fault, race or cancellation leaves a running run to nobody.
THEOREM RunningRunsAreDriven == WaitSpec => []RunningRunIsDriven
<1>1. WaitIInv => RunningRunIsDriven
  BY DEF WaitIInv
<1> QED
  BY <1>1, IInvAlways, PTL

\* The calls use the services as CollectorService says, and so what is promised of
\* the services holds behind the workflows.
THEOREM WaitUsesTheServices ==
  WaitSpec => SvcP!SvcInit /\ [][SvcP!SvcNext]_serviceVars
<1>1. WaitInit => SvcP!SvcInit
  BY DEF WaitInit, Svc!SvcInit, Svc!NoEntry, SvcP!SvcInit, SvcP!NoEntry
<1>2. WaitIInv /\ [WaitNext]_vars => [SvcP!SvcNext]_serviceVars
  BY ServiceMoves DEF WaitIInv
<1> QED
  BY <1>1, <1>2, IInvAlways, PTL DEF WaitSpec

\* No accepted run is lost behind a workflow.
THEOREM ServicesLoseNoRun == WaitSpec => []Svc!NoRunIsLost
<1>1. WaitIInv => Svc!NoRunIsLost
  BY DEF WaitIInv, CallsFollow, SvcP!SvcInv, SvcP!RunInv, SvcP!Waits, SvcP!Has, Svc!NoRunIsLost
<1> QED
  BY <1>1, IInvAlways, PTL

-----------------------------------------------------------------------------
(* Who submits a run.                                                      *)

\* What the end of a call is: an answer, or nothing.
LEMMA CallEnds ==
  ASSUME CallTypeOK, SvcP!SvcInv, NEW t \in Task, NEW r \in Run, CallStep(t, r) \/ LoseCall(t, r)
  PROVE  \/ /\ Post(t, r) /\ call[t][r].at = "post" /\ svc[r].state = "absent"
            /\ Svc!Register(r, t, RequestAgent(r), RunPlatform(r)) /\ call'[t][r] = At("open")
         \/ /\ Post(t, r) \/ PostAnswered(t, r) \/ Get(t, r)
            /\ call[t][r].at \in {"post", "open", "get"}
            /\ UNCHANGED serviceVars
            /\ \/ call'[t][r] = Current(r) /\ (svc[r].state # "absent" \/ PostAnswered(t, r))
               \/ call'[t][r] = Failed /\ (svc[r].state = "absent" \/ Post(t, r))
            /\ Post(t, r) => svc[r].state # "absent"
         \/ LoseCall(t, r) /\ call[t][r].at \in {"post", "open", "get"} /\ call'[t][r] = Failed
         \/ Apply(t, r) /\ call[t][r].at = "answer" /\ call'[t][r] = Idle
<1> USE DEF CallTypeOK
<1>1. \A c : AnswerCall(t, r, c) => call'[t][r] = c
  BY DEF AnswerCall
<1>2. CASE Post(t, r)
  <2>1. call[t][r].at = "post"
    BY <1>2 DEF Post
  <2>2. CASE Svc!Register(r, t, RequestAgent(r), RunPlatform(r)) /\ AnswerCall(t, r, At("open"))
    BY <1>1, <1>2, <2>1, <2>2 DEF Svc!Register, Svc!Known
  <2>3. CASE /\ Svc!Known(r) /\ UNCHANGED serviceVars
             /\ AnswerCall(t, r, IF Svc!SameRequest(r, t, RequestAgent(r)) THEN Current(r) ELSE Failed)
    <3>1. call'[t][r] = Current(r) \/ call'[t][r] = Failed
      BY <1>1, <2>3
    <3>2. svc[r].state # "absent" /\ UNCHANGED serviceVars
      BY <2>3 DEF Svc!Known
    <3> QED
      BY <1>2, <2>1, <3>1, <3>2
  <2> QED
    BY <1>2, <2>2, <2>3 DEF Post
<1>3. CASE PostAnswered(t, r)
  BY <1>1, <1>3 DEF PostAnswered, Post
<1>4. CASE Get(t, r)
  <2>1. \/ Svc!Known(r) /\ call'[t][r] = Current(r)
        \/ ~Svc!Known(r) /\ call'[t][r] = Failed
    BY <1>1, <1>4 DEF Get
  <2> QED
    BY <1>4, <2>1 DEF Get, Svc!Known, Post
<1>5. CASE LoseCall(t, r)
  BY <1>1, <1>5 DEF LoseCall
<1>6. CASE Apply(t, r)
  BY <1>1, <1>6 DEF Apply
<1> QED
  BY <1>2, <1>3, <1>4, <1>5, <1>6 DEF CallStep

\* One task submits a run if only runs that wait are started.
LEMMA SubmitterStep ==
  ASSUME WaitInv, CallsFollow, OneSubmitter, [WaitNext]_vars,
         \A t \in Task, r \in Run :
           Takes(t, r) => run[r].status \in Dispatchable \/ call[t][r].at = "claimed"
  PROVE  OneSubmitter'
<1> DEFINE Early == {"claimed", "post", "open"}
<1>1. CallTypeOK /\ SvcP!SvcInv
  BY DEF CallsFollow
<1>2. ASSUME NEW u \in Task, NEW s \in Run, call[u][s].at # "idle"
      PROVE  run[s].status \notin Dispatchable
  <2>1. call[u][s] # Idle
    BY <1>2, AtFacts
  <2> QED
    BY <2>1 DEF CallsFollow, Started, Dispatchable, Final
<1>3. ASSUME NEW u \in Task, NEW s \in Run, call'[u][s].at \in Early, call[u][s].at \notin Early
      PROVE  Takes(u, s)
  <2>1. At("get").at = "get" /\ Idle.at = "idle" /\ Failed.at = "answer" /\ Current(s).at = "answer"
    BY <1>1, AtFacts, CurrentFacts DEF CallPoints
  <2>2. CASE CallStep(u, s) \/ LoseCall(u, s)
    BY <1>1, <1>3, <2>1, <2>2, CallEnds
  <2>3. CASE ~(CallStep(u, s) \/ LoseCall(u, s))
    BY <1>1, <1>3, <2>1, <2>3, CallMoves
  <2> QED
    BY <2>2, <2>3
<1>4. ASSUME NEW u \in Task, NEW s \in Run, call'[u][s].at \in {"claimed", "post"}
      PROVE  call[u][s].at \in {"claimed", "post"} \/ Takes(u, s)
  <2>1. At("open").at = "open" /\ Idle.at = "idle" /\ Failed.at = "answer" /\ Current(s).at = "answer"
    BY <1>1, AtFacts, CurrentFacts DEF CallPoints
  <2>2. CASE CallStep(u, s) \/ LoseCall(u, s)
    BY <1>1, <1>4, <2>1, <2>2, CallEnds
  <2>3. CASE ~(CallStep(u, s) \/ LoseCall(u, s))
    <3>1. At("get").at = "get"
      BY AtFacts DEF CallPoints
    <3> QED
      BY <1>1, <1>4, <2>1, <2>3, <3>1, CallMoves
  <2> QED
    BY <2>2, <2>3
<1> SUFFICES ASSUME NEW t \in Task, NEW r \in Run, call'[t][r].at \in {"claimed", "post"}
             PROVE  /\ svc'[r].state = "absent"
                    /\ \A u \in Task \ {t} : call'[u][r].at \notin Early
  BY DEF OneSubmitter, Svc!Known
<1>5. CASE call[t][r].at \in {"claimed", "post"}
  <2>1. svc[r].state = "absent" /\ \A u \in Task \ {t} : call[u][r].at \notin Early
    BY <1>5 DEF OneSubmitter, Svc!Known
  <2>2. svc'[r].state = "absent"
    <3> SUFFICES ASSUME NEW u \in Task, Post(u, r)
                 PROVE  FALSE
      BY <2>1, KnownStep
    <3>1. call[u][r].at = "post"
      BY DEF Post
    <3>2. u = t
      BY <2>1, <3>1
    <3>3. AnswerCall(t, r, At("open"))
      BY <2>1, <3>2 DEF Post, Svc!Known
    <3>4. call'[t][r] = At("open")
      BY <1>1, <3>3 DEF AnswerCall, CallTypeOK
    <3> QED
      BY <3>4, AtFacts DEF CallPoints
  <2>3. ASSUME NEW u \in Task \ {t}, call'[u][r].at \in Early
        PROVE  FALSE
    <3>1. Takes(u, r) /\ call[u][r].at \notin Early
      BY <1>3, <2>1, <2>3
    <3>2. run[r].status \in Dispatchable
      BY <3>1
    <3> QED
      BY <1>2, <1>5, <3>2
  <2> QED
    BY <2>2, <2>3
<1>6. CASE call[t][r].at \notin {"claimed", "post"}
  <2>1. Takes(t, r) /\ run[r].status \in Dispatchable
    BY <1>4, <1>6
  <2>2. TaskStep(t)
    BY <2>1 DEF Takes, TaskStep
  <2>3. \A u \in Task : call[u][r].at = "idle"
    BY <1>2, <2>1
  <2>4. svc[r].state = "absent"
    BY <2>1 DEF CallsFollow, Started, Dispatchable, Final
  <2>5. svc'[r].state = "absent"
    BY <2>3, <2>4, KnownStep DEF Post
  <2>6. \A u \in Task \ {t} : call'[u] = call[u]
    BY <1>1, <2>2, TaskKeepsToItself DEF OnlyOwn, CallTypeOK
  <2> QED
    BY <2>3, <2>5, <2>6
<1> QED
  BY <1>5, <1>6

\* Where every platform has a pool, a run is started by a claim.
Pooled == \A p \in Platform : Pool[p] # <<>>
NoConflict == \A t \in Task : wait[t].pc # "conflict"

LEMMA PooledStep ==
  ASSUME Pooled, WaitInv, CallsFollow, NoConflict, OneSubmitter, [WaitNext]_vars
  PROVE  NoConflict' /\ OneSubmitter'
<1>1. \A t \in Task : ~UsesService(t)
  BY TodoIsKnown DEF UsesService, Pooled
<1>2. NoConflict'
  <2> SUFFICES ASSUME NEW t \in Task, wait'[t].pc = "conflict" PROVE FALSE
    BY DEF NoConflict
  <2>1. wait'[t] # wait[t]
    BY DEF NoConflict
  <2>2. TaskStep(t) \/ Deadline(t) \/ Crash(t)
    BY <2>1, StepCases DEF OnlyOwn, CallsFollow
  <2>3. wait[t].pc \in Dispatching
    BY <2>2, TaskMoves DEF Dispatching, Calling
  <2>4. \/ ChooseAgent(t) \/ ClaimAgent(t) \/ LoseClaim(t) \/ GiveUp(t) \/ Submit(t) \/ Crash(t)
    BY <1>1, <2>2, <2>3 DEF TaskStep, FindActive, Insert, InsertRejected, ReportJoin, LoadRun,
       BeginClaims, StartOnService, StartConflict, AfterConflict, Poll, CallsDone, NextRound,
       BeginExpire, Expire, EndExpire, ReturnFinal, EndWait, ReadRuns, Detach, Deadline, Loaded,
       Is, Dispatching, NoConflict
  <2>5. wait[t] \in WaitState /\ wait \in [Task -> WaitState]
    BY DEF WaitInv
  <2>6. CASE ClaimAgent(t) \/ GiveUp(t)
    BY <2>5, <2>6 DEF ClaimAgent, GiveUp, Become, Pop, WaitState
  <2>7. CASE LoseClaim(t) \/ Submit(t)
    BY <2>5, <2>7 DEF LoseClaim, Submit, Go, WaitState
  <2>8. CASE ChooseAgent(t)
    BY <2>5, <2>8 DEF ChooseAgent, Become, WaitState
  <2>9. CASE Crash(t)
    <3>1. Restarted(wait[t]) = Reload(wait[t], "dispatch")
      BY <2>3 DEF Restarted, Dispatching, Joining, Waiting
    <3>2. wait'[t] = Reload(wait[t], "dispatch")
      BY <2>5, <2>9, <3>1 DEF Crash, Become
    <3> QED
      BY <2>1, <3>2 DEF Reload
  <2> QED
    BY <2>4, <2>6, <2>7, <2>8, <2>9
<1>3. ASSUME NEW t \in Task, NEW r \in Run, Takes(t, r)
      PROVE  run[r].status \in Dispatchable
  <2>1. ClaimAgent(t) /\ r = Todo(t)
    BY <1>1, <1>3 DEF Takes, StartOnService, AfterConflict, Is, NoConflict
  <2> QED
    BY <2>1 DEF ClaimAgent, ClaimWithAgent, CanClaim
<1>4. OneSubmitter'
  BY <1>3, SubmitterStep
<1> QED
  BY <1>2, <1>4

\* A run is POSTed by the one task that claimed it, where each platform has a pool.
THEOREM PooledRunsHaveOneSubmitter ==
  ASSUME Pooled PROVE WaitSpec => []OneSubmitter
<1> DEFINE Inv == WaitIInv /\ NoConflict /\ OneSubmitter
<1>1. WaitInit => NoConflict /\ OneSubmitter
  BY AtFacts DEF WaitInit, NoConflict, OneSubmitter
<1>2. Inv /\ [WaitNext]_vars => Inv'
  BY PooledStep, IInvStep DEF WaitIInv
<1>3. WaitInit => Inv
  BY <1>1, IInvInitially
<1>4. Inv => OneSubmitter
  OBVIOUS
<1> HIDE DEF Inv
<1> QED
  BY <1>2, <1>3, <1>4, PTL DEF WaitSpec

-----------------------------------------------------------------------------
(* Tasks that want no series in common.                                    *)

\* No two tasks want the same series, and a task wants each of its series once.
OwnKeys ==
  \A t, u \in Task : \A i \in DOMAIN KeysOf[t], j \in DOMAIN KeysOf[u] :
    KeysOf[t][i] = KeysOf[u][j] => t = u /\ i = j

Owns(t, r) == Has(wait[t], r) \/ <<r, t>> \in link

\* A task calls the collector for its own running runs, and while it dispatches it has
\* sent nothing yet.
OwnCalls(t) ==
  /\ \A r \in Run : call[t][r] # Idle => Has(wait[t], r) /\ run[r].status = "running"
  /\ wait[t].pc \notin Calling => \A r \in Run : call[t][r] = Idle
  /\ wait[t].pc \in Dispatching => \A r \in Run : call[t][r].at \in {"idle", "claimed"}

\* What a task has listed to claim, to poll and to detach is still what it read.
OwnLists(t) ==
  /\ wait[t].pc \in Dispatching \/ (wait[t].pc = "load" /\ wait[t].stage = "dispatch") =>
       \A i \in DOMAIN wait[t].todo :
         run[wait[t].todo[i]].status # "running" \/ call[t][wait[t].todo[i]].at = "claimed"
  /\ wait[t].pc = "load" /\ wait[t].stage = "poll" =>
       \A i \in DOMAIN wait[t].todo : run[wait[t].todo[i]].status = "running"
  /\ wait[t].pc = "detaching" => \A r \in cancelTxn[t].runs : run[r].status \in Active

OwnInv == \A t \in Task : OwnCalls(t) /\ OwnLists(t)


LEMMA OneOwner ==
  ASSUME OwnKeys, WaitInv, TasksFollow, NEW t \in Task, NEW u \in Task, NEW r \in Run,
         Owns(t, r), Owns(u, r)
  PROVE  t = u
<1>1. ASSUME NEW v \in Task, Owns(v, r)
      PROVE  \E i \in DOMAIN KeysOf[v] : run[r].key = KeysOf[v][i]
  <2>1. CASE Has(wait[v], r)
    <3>1. PICK i \in DOMAIN wait[v].mine : wait[v].mine[i] = r
      BY <2>1 DEF Has
    <3>2. run[r].key = KeysOf[v][i] /\ Len(wait[v].mine) <= Len(KeysOf[v])
      BY <3>1 DEF TasksFollow, TaskInv, Follows, Fits
    <3>3. i \in DOMAIN KeysOf[v]
      <4>1. wait[v].mine \in Seq(Run) /\ KeysOf[v] \in Seq(Key)
        BY WaitAssumption DEF WaitInv, WaitState
      <4> QED
        BY <3>1, <3>2, <4>1
    <3> QED
      BY <3>2, <3>3
  <2>2. CASE <<r, v>> \in link
    BY <2>2 DEF TasksFollow, TaskInv, Follows, Linked
  <2> QED
    BY <1>1, <2>1, <2>2 DEF Owns
<1>2. PICK i \in DOMAIN KeysOf[t] : run[r].key = KeysOf[t][i]
  BY <1>1
<1>3. PICK j \in DOMAIN KeysOf[u] : run[r].key = KeysOf[u][j]
  BY <1>1
<1> QED
  BY <1>2, <1>3 DEF OwnKeys

\* What a step of a task does to its place, its stage and its report.
LEMMA WaitChanges ==
  ASSUME WaitInv, NEW t \in Task, TaskStep(t) \/ Deadline(t) \/ Crash(t)
  PROVE  \/ /\ wait'[t].pc = "load" /\ wait'[t].read = 0 /\ wait'[t].won = {}
            /\ \/ wait'[t].stage \in {"dispatch", "poll", "results"}
               \/ Deadline(t) \/ EndExpire(t)
         \/ LoadRun(t)
         \/ /\ wait'[t].stage = wait[t].stage /\ wait'[t].won = wait[t].won
            /\ \/ wait'[t].pc \in Dispatching \cup
                    {"calls", "joined", "insert", "find", "cancelling", "cancelled"}
               \/ wait'[t].pc = "detaching" /\ ReadRuns(t)
               \/ wait'[t].pc = "expire" /\ (BeginExpire(t) \/ Expire(t))
               \/ /\ wait'[t].pc = "returned" /\ wait'[t].mine = wait[t].mine
                  /\ (NextRound(t) /\ wait[t].todo = <<>>) \/ ReturnFinal(t)
               \/ /\ wait'[t].pc = "done" /\ wait'[t].mine = wait[t].mine
                  /\ wait[t].pc = "returned"
<1> DEFINE Same == wait'[t].stage = wait[t].stage /\ wait'[t].won = wait[t].won
<1>1. wait[t] \in WaitState /\ wait \in [Task -> WaitState]
  BY DEF WaitInv
<1>2. ASSUME NEW w, Become(t, w)
      PROVE  wait'[t] = w
  BY <1>1, <1>2 DEF Become
<1>3. ASSUME NEW p, Go(t, p)
      PROVE  wait'[t].pc = p /\ wait'[t].mine = wait[t].mine /\ Same
  BY <1>1, <1>3 DEF Go, WaitState
<1>4. ASSUME NEW w, NEW s, Become(t, Reload(w, s))
      PROVE  wait'[t].pc = "load" /\ wait'[t].stage = s /\ wait'[t].read = 0 /\ wait'[t].won = {}
  BY <1>2, <1>4 DEF Reload
<1>5. CASE BeginClaims(t) \/ LoseClaim(t) \/ StartConflict(t) \/ Submit(t) \/ Poll(t)
  <2>1. \E p \in {"claim", "giveup", "conflict", "calls"} : Go(t, p)
    BY <1>5 DEF BeginClaims, LoseClaim, StartConflict, Submit, Poll
  <2> QED
    BY <1>3, <2>1 DEF Dispatching
<1>6. CASE ChooseAgent(t)
  <2>1. \/ Go(t, "giveup")
        \/ \E a : Become(t, [wait[t] EXCEPT !.pc = "take", !.agent = a])
    BY <1>6 DEF ChooseAgent, Become, Go
  <2>2. ASSUME NEW a, Become(t, [wait[t] EXCEPT !.pc = "take", !.agent = a])
        PROVE  wait'[t].pc = "take" /\ Same
    <3>1. wait'[t] = [wait[t] EXCEPT !.pc = "take", !.agent = a]
      BY <1>2, <2>2
    <3> QED
      BY <1>1, <3>1 DEF WaitState
  <2> QED
    BY <1>3, <2>1, <2>2 DEF Dispatching
<1>7. CASE ClaimAgent(t) \/ GiveUp(t) \/ StartOnService(t) \/ AfterConflict(t)
  <2>1. Become(t, Pop(t))
    BY <1>7 DEF ClaimAgent, GiveUp, StartOnService, AfterConflict
  <2>2. wait[t].todo # <<>>
    BY <1>7 DEF ClaimAgent, GiveUp, StartOnService, UsesService, AfterConflict, Is, WaitInv, Shape
  <2>3. wait'[t].pc = "claim" /\ Same
    BY <1>2, <2>1, <2>2, PopFacts
  <2> QED
    BY <2>3 DEF Dispatching
<1>8. CASE CallsDone(t) \/ NextRound(t)
  <2>1. \/ \E s \in {"dispatch", "poll", "results"} : Become(t, Reload(wait[t], s))
        \/ Go(t, "returned") /\ NextRound(t) /\ wait[t].todo = <<>>
    BY <1>8 DEF CallsDone, NextRound
  <2> QED
    BY <1>3, <1>4, <2>1
<1>9. CASE EndExpire(t) \/ Deadline(t)
  BY <1>4, <1>9 DEF EndExpire, Deadline
<1>10. CASE Crash(t)
  <2>1. \/ Become(t, Reload(wait[t], "dispatch"))
        \/ Become(t, [wait[t] EXCEPT !.pc = "find", !.run = NoRun])
        \/ Become(t, [wait[t] EXCEPT !.pc = "cancelling"])
    BY <1>10 DEF Crash, Restarted
  <2>2. ASSUME Become(t, [wait[t] EXCEPT !.pc = "find", !.run = NoRun])
        PROVE  wait'[t].pc = "find" /\ Same
    <3>1. wait'[t] = [wait[t] EXCEPT !.pc = "find", !.run = NoRun]
      BY <1>2, <2>2
    <3> QED
      BY <1>1, <3>1 DEF WaitState
  <2>3. ASSUME Become(t, [wait[t] EXCEPT !.pc = "cancelling"])
        PROVE  wait'[t].pc = "cancelling" /\ Same
    <3>1. wait'[t] = [wait[t] EXCEPT !.pc = "cancelling"]
      BY <1>2, <2>3
    <3> QED
      BY <1>1, <3>1 DEF WaitState
  <2> QED
    BY <1>4, <2>1, <2>2, <2>3
<1>11. CASE InsertRejected(t) \/ Detach(t)
  <2>1. \E p \in {"find", "cancelled"} : Go(t, p)
    BY <1>11 DEF InsertRejected, Detach
  <2> QED
    BY <1>3, <2>1
<1>12. CASE BeginExpire(t) \/ ReturnFinal(t) \/ ReadRuns(t)
  BY <1>3, <1>12 DEF BeginExpire, ReturnFinal, ReadRuns
<1>13. CASE EndWait(t)
  <2>1. wait[t].pc = "returned" /\ \E p \in {"done", "cancelling"} : Go(t, p)
    BY <1>13 DEF EndWait, Is
  <2> QED
    BY <1>3, <2>1
<1>14. CASE Expire(t)
  <2>1. wait'[t] = [wait[t] EXCEPT !.todo = Tail(@)] /\ wait[t].pc = "expire"
    BY <1>2, <1>14 DEF Expire, Is
  <2>2. wait'[t].pc = "expire" /\ Same
    BY <1>1, <2>1 DEF WaitState
  <2> QED
    BY <1>14, <2>2
<1>15. CASE FindActive(t) \/ Insert(t)
  <2>1. \/ Go(t, "insert")
        \/ \E r : Become(t, [wait[t] EXCEPT !.pc = "joined", !.run = r])
    BY <1>15 DEF FindActive, Insert
  <2>2. ASSUME NEW r, Become(t, [wait[t] EXCEPT !.pc = "joined", !.run = r])
        PROVE  wait'[t].pc = "joined" /\ Same
    <3>1. wait'[t] = [wait[t] EXCEPT !.pc = "joined", !.run = r]
      BY <1>2, <2>2
    <3> QED
      BY <1>1, <3>1 DEF WaitState
  <2> QED
    BY <1>3, <2>1, <2>2
<1>16. CASE ReportJoin(t)
  <2> DEFINE joined == [wait[t] EXCEPT !.mine = Append(@, wait[t].run), !.run = NoRun]
  <2>1. \/ \E p \in {"cancelling", "find"} : Become(t, [joined EXCEPT !.pc = p])
        \/ Become(t, Reload(joined, "dispatch"))
    BY <1>16 DEF ReportJoin
  <2>2. /\ {"pc", "stage", "won"} \subseteq DOMAIN joined
        /\ joined.stage = wait[t].stage /\ joined.won = wait[t].won
    BY <1>1 DEF WaitState
  <2> HIDE DEF joined
  <2>3. ASSUME NEW p, Become(t, [joined EXCEPT !.pc = p])
        PROVE  wait'[t].pc = p /\ Same
    <3>1. wait'[t] = [joined EXCEPT !.pc = p]
      BY <1>2, <2>3
    <3> QED
      BY <2>2, <3>1
  <2> QED
    BY <1>4, <2>1, <2>3
<1>17. CASE LoadRun(t)
  BY <1>17
<1> QED
  BY <1>5, <1>6, <1>7, <1>8, <1>9, <1>10, <1>11, <1>12, <1>13, <1>14, <1>15, <1>16, <1>17
  DEF TaskStep

\* A worker's crash.
LEMMA CrashMoves ==
  ASSUME WaitInv, NEW t \in Task, Crash(t)
  PROVE  \/ wait'[t].pc = "load" /\ wait'[t].todo = <<>>
         \/ wait'[t].pc \in {"find", "cancelling"}
<1>1. wait[t] \in WaitState /\ wait'[t] = Restarted(wait[t])
  BY DEF Crash, Become, WaitInv
<1>2. CASE wait[t].pc \in Joining
  <2>1. wait'[t] = [wait[t] EXCEPT !.pc = "find", !.run = NoRun]
    BY <1>1, <1>2 DEF Restarted, Joining, Waiting
  <2> QED
    BY <1>1, <2>1 DEF WaitState
<1>3. CASE wait[t].pc \in Waiting
  <2>1. wait'[t] = Reload(wait[t], "dispatch")
    BY <1>1, <1>3 DEF Restarted, Joining, Waiting
  <2> QED
    BY <2>1 DEF Reload
<1>4. CASE wait[t].pc = "detaching"
  <2>1. wait'[t] = [wait[t] EXCEPT !.pc = "cancelling"]
    BY <1>1, <1>4 DEF Restarted, Joining, Waiting
  <2> QED
    BY <1>1, <2>1 DEF WaitState
<1> QED
  BY <1>2, <1>3, <1>4 DEF Crash

\* A task reads one more of its runs.
LEMMA LoadMoves ==
  ASSUME WaitInv, NEW t \in Task, LoadRun(t)
  PROVE  LET r == wait[t].mine[wait[t].read + 1]
         IN  /\ wait[t].pc = "load" /\ wait'[t].pc = "load" /\ wait'[t].stage = wait[t].stage
             /\ wait'[t].mine = wait[t].mine /\ wait'[t].read = wait[t].read + 1
             /\ wait[t].read + 1 \in DOMAIN wait[t].mine
             /\ wait'[t].todo = IF run[r].status \in Wanted(wait[t].stage)
                                THEN Append(wait[t].todo, r) ELSE wait[t].todo
             /\ wait'[t].won = IF run[r].status = "succeeded" /\ wait[t].stage \in {"results", "final"}
                               THEN wait[t].won \cup {r} ELSE wait[t].won
<1> DEFINE next == wait[t].read + 1
           r == wait[t].mine[next]
           todo == IF run[r].status \in Wanted(wait[t].stage)
                   THEN Append(wait[t].todo, r) ELSE wait[t].todo
           won == IF run[r].status = "succeeded" /\ wait[t].stage \in {"results", "final"}
                  THEN wait[t].won \cup {r} ELSE wait[t].won
           w == [wait[t] EXCEPT !.read = next, !.todo = todo, !.won = won]
<1>1. /\ wait[t].pc = "load" /\ Become(t, w) /\ wait[t] \in WaitState
      /\ wait[t].mine \in Seq(Run) /\ wait[t].read \in Nat
      /\ wait[t].read < Len(wait[t].mine)
  BY DEF LoadRun, Is, WaitInv, WaitState
<1>2. next \in DOMAIN wait[t].mine
  BY <1>1
<1>3. wait'[t] = w
  BY <1>1 DEF Become, WaitInv
<1> HIDE DEF todo, won, next
<1>4. /\ w.pc = wait[t].pc /\ w.stage = wait[t].stage /\ w.mine = wait[t].mine
      /\ w.read = next /\ w.todo = todo /\ w.won = won
  BY <1>1 DEF WaitState
<1> QED
  BY <1>1, <1>2, <1>3, <1>4 DEF todo, won, next

LEMMA TodoIsOwned ==
  ASSUME WaitInv, TasksFollow, NEW t \in Task
  PROVE  /\ \A r \in Run : Lists(wait[t], r) => Has(wait[t], r)
         /\ wait[t].todo # <<>> => Has(wait[t], Todo(t)) /\ Lists(wait[t], Todo(t))
<1>1. /\ wait[t].todo \in Seq(Run)
      /\ \A i \in DOMAIN wait[t].todo : Has(wait[t], wait[t].todo[i])
  BY DEF WaitInv, WaitState, TasksFollow, TaskInv, Follows, Fits
<1>2. wait[t].todo # <<>> => 1 \in DOMAIN wait[t].todo /\ wait[t].todo[1] = Todo(t)
  BY <1>1 DEF Todo
<1> QED
  BY <1>1, <1>2 DEF Lists

\* What can happen to a run that one task owns.
LEMMA OwnMoves ==
  ASSUME OwnKeys, WaitIInv, OwnInv, [WaitNext]_vars, NEW r \in Run, run[r].status # "absent"
  PROVE  \/ run'[r].status = run[r].status /\ run'[r].agent = run[r].agent
         \/ run[r].status \in Dispatchable /\ run'[r].status = "waiting_agent"
         \/ \E t \in Task : /\ Has(wait[t], r) /\ r = Todo(t) /\ wait[t].todo # <<>>
                            /\ ClaimAgent(t) \/ StartOnService(t)
                            /\ run[r].status \in Dispatchable /\ run'[r].status = "running"
         \/ \E t \in Task : /\ Has(wait[t], r) /\ r = Todo(t) /\ Expire(t)
                            /\ run'[r].status = "failed"
         \/ \E t \in Task : /\ Has(wait[t], r) /\ Apply(t, r) /\ run[r].status = "running"
                            /\ call[t][r].answer \notin {"queued", "running"}
                            /\ run'[r].status = IF call[t][r].answer = "succeeded" /\ call[t][r].output
                                                THEN "succeeded" ELSE "failed"
         \/ \E t \in Task : /\ <<r, t>> \in link /\ Detach(t)
                            /\ run[r].status \in Dispatchable /\ run'[r].status = "cancelled"
<1>1. WaitInv /\ TasksFollow /\ RunningRunIsDriven
  BY DEF WaitIInv
<1>2. ASSUME NEW t \in Task, Apply(t, r)
      PROVE  Has(wait[t], r) /\ run[r].status = "running"
  <2>1. call[t][r] # Idle
    BY <1>2, AtFacts DEF Apply
  <2> QED
    BY <2>1 DEF OwnInv, OwnCalls
<1>3. ASSUME NEW t \in Task, Detach(t), r \in cancelTxn[t].runs
      PROVE  <<r, t>> \in link /\ run[r].status \in Dispatchable
  <2>1. wait[t].pc = "detaching" /\ <<r, t>> \in link
    BY <1>1, <1>3 DEF Detach, Is, TasksFollow, TaskInv, Cancels
  <2>2. run[r].status \in Active
    BY <1>3, <2>1 DEF OwnInv, OwnLists
  <2>3. run[r].status # "running"
    <3> SUFFICES ASSUME run[r].status = "running" PROVE FALSE
      OBVIOUS
    <3>1. PICK u \in Task : wait[u].pc \in Waiting /\ r \in Mine(u)
      BY <1>1 DEF RunningRunIsDriven, Drives
    <3>2. Owns(u, r) /\ Owns(t, r)
      BY <2>1, <3>1 DEF Owns, Has, Mine
    <3>3. u = t
      BY <1>1, <3>2, OneOwner
    <3> QED
      BY <2>1, <3>1, <3>3 DEF Waiting
  <2> QED
    BY <2>1, <2>2, <2>3 DEF Active, Dispatchable
<1>4. ASSUME NEW t \in Task, Expire(t)
      PROVE  wait[t].todo # <<>>
  BY <1>4 DEF Expire
<1> QED
  BY <1>1, <1>2, <1>3, <1>4, RowMoves, TodoIsOwned

\* A call begins for an own run that runs.
LEMMA OwnBegins ==
  ASSUME WaitIInv, OwnInv, [WaitNext]_vars, NEW t \in Task, NEW r \in Run, Begins(t, r)
  PROVE  /\ TaskStep(t) /\ wait[t].pc \in Waiting
         /\ Has(wait[t], r) /\ run'[r].status = "running"
         /\ wait'[t].pc \in Calling
         /\ Takes(t, r) => run[r].status \in Dispatchable \/ call[t][r].at = "claimed"
<1>1. WaitInv /\ TasksFollow /\ run \in [Run -> Row]
  BY DEF WaitIInv, WaitInv, StoreTypeOK
<1>2. CASE Poll(t) /\ Lists(wait[t], r)
  <2>1. /\ wait[t].pc = "load" /\ wait[t].stage = "poll" /\ run' = run
        /\ Go(t, "calls")
    BY <1>2 DEF Poll, Loaded, Is, storeVars
  <2>2. run[r].status = "running"
    BY <1>2, <2>1 DEF OwnInv, OwnLists, Lists
  <2>3. wait'[t].pc = "calls"
    BY <1>1, <2>1 DEF Go, WaitInv, WaitState
  <2>4. ~Takes(t, r)
    BY <2>1 DEF Takes, ClaimAgent, StartOnService, UsesService, AfterConflict, Is
  <2> QED
    BY <1>1, <1>2, <2>1, <2>2, <2>3, <2>4, TodoIsOwned DEF TaskStep, Waiting, Calling
<1>3. CASE Takes(t, r)
  <2>1. /\ ClaimAgent(t) \/ StartOnService(t) \/ AfterConflict(t)
        /\ r = Todo(t)
    BY <1>3 DEF Takes
  <2>2. wait[t].todo # <<>> /\ wait[t].pc \in Dispatching /\ Become(t, Pop(t))
    BY <1>1, <2>1 DEF ClaimAgent, StartOnService, UsesService, AfterConflict, Is, WaitInv, Shape,
       Dispatching
  <2>3. wait'[t].pc = "claim"
    BY <1>1, <2>2, PopFacts DEF Become, WaitInv
  <2>4. Has(wait[t], r) /\ Lists(wait[t], r)
    BY <1>1, <2>1, <2>2, TodoIsOwned
  <2>5. run'[r].status = "running"
    BY <1>1, <1>3 DEF Takes, ClaimAgent, ClaimWithAgent, SetRunning, RunningRow, Row, AfterConflict,
       WaitAfterAgentConflict, Dispatchable
  <2>6. run[r].status \in Dispatchable \/ run[r].status = "running"
    BY <1>1, <1>3 DEF Takes, ClaimAgent, ClaimWithAgent, CanClaim, StartOnService, StartRun
  <2>7. run[r].status = "running" => call[t][r].at = "claimed"
    BY <2>2, <2>4 DEF OwnInv, OwnLists, Lists
  <2> QED
    BY <2>1, <2>2, <2>3, <2>4, <2>5, <2>6, <2>7
    DEF TaskStep, Waiting, Calling, Dispatching
<1> QED
  BY <1>2, <1>3 DEF Begins

\* A running run stays so while its owner waits, unless the owner writes its end.
LEMMA OwnRunStays ==
  ASSUME OwnKeys, WaitIInv, OwnInv, [WaitNext]_vars, NEW t \in Task, NEW r \in Run,
         Has(wait[t], r), run[r].status = "running", run'[r].status # "running"
  PROVE  (Expire(t) /\ r = Todo(t)) \/ (Apply(t, r) /\ call[t][r].answer \notin {"queued", "running"})
<1>1. WaitInv /\ TasksFollow
  BY DEF WaitIInv
<1>2. \A u \in Task : Has(wait[u], r) => u = t
  BY <1>1, OneOwner DEF Owns
<1> QED
  BY <1>2, OwnMoves DEF Dispatchable

\* What stays of the own runs of a task while it waits.
LEMMA MineStays ==
  ASSUME WaitIInv, [WaitNext]_vars, NEW t \in Task, NEW r \in Run, Has(wait[t], r),
         wait[t].pc \in Waiting, run'[r].status = "running"
  PROVE  Has(wait'[t], r)
<1>1. \/ wait'[t] = wait[t]
      \/ TaskStep(t) \/ Deadline(t) \/ Crash(t)
  BY StepCases DEF OnlyOwn, WaitIInv, CallsFollow
<1>2. \/ wait'[t].mine = wait[t].mine
      \/ \A i \in DOMAIN wait[t].mine : Over(run', wait[t].mine[i])
  BY <1>1, WaitsOn DEF WaitIInv, TasksFollow
<1>3. ~Over(run', r)
  BY DEF Over, Final
<1> QED
  BY <1>2, <1>3 DEF Has

\* A task that takes no step of its own changes no call that has not been sent.
LEMMA OwnCallKept ==
  ASSUME WaitIInv, [WaitNext]_vars, NEW t \in Task, NEW r \in Run,
         call[t][r].at \in {"idle", "claimed"}, ~Begins(t, r), ~Submit(t), ~Crash(t)
  PROVE  call'[t][r] = call[t][r]
<1>1. WaitInv /\ CallTypeOK
  BY DEF WaitIInv, CallsFollow
<1>2. ~CallStep(t, r) /\ ~LoseCall(t, r)
  BY DEF CallStep, Post, PostAnswered, Get, Apply, LoseCall
<1> QED
  BY <1>1, <1>2, CallMoves DEF Begins

LEMMA OwnCallsStep ==
  ASSUME OwnKeys, WaitIInv, OwnInv, [WaitNext]_vars, NEW t \in Task
  PROVE  OwnCalls(t)'
<1>1. WaitInv /\ TasksFollow /\ CallTypeOK /\ CallsFollow
  BY DEF WaitIInv, CallsFollow
<1>2. \/ wait'[t] = wait[t]
      \/ TaskStep(t) \/ Deadline(t) \/ Crash(t)
  BY <1>1, StepCases DEF OnlyOwn
<1>3. ASSUME NEW r \in Run, call'[t][r] # Idle
      PROVE  Has(wait'[t], r) /\ run'[r].status = "running"
  <2>1. CASE call[t][r] = Idle
    <3>1. Begins(t, r)
      BY <1>1, <1>3, <2>1, NewCall
    <3> QED
      BY <3>1, OwnBegins, MineStays
  <2>2. CASE call[t][r] # Idle
    <3>1. Has(wait[t], r) /\ run[r].status = "running" /\ wait[t].pc \in Calling
      BY <2>2 DEF OwnInv, OwnCalls
    <3>2. ~Apply(t, r)
      BY <1>1, <1>3 DEF Apply, AnswerCall, CallTypeOK
    <3>3. ~Expire(t)
      BY <3>1 DEF Expire, Is, Calling, Dispatching
    <3>4. run'[r].status = "running"
      BY <3>1, <3>2, <3>3, OwnRunStays
    <3>5. wait[t].pc \in Waiting
      BY <3>1 DEF Calling, Dispatching, Waiting
    <3> QED
      BY <3>1, <3>4, <3>5, MineStays
  <2> QED
    BY <2>1, <2>2
<1>4. ASSUME wait'[t].pc \notin Calling, NEW r \in Run
      PROVE  call'[t][r] = Idle
  <2>1. ~Begins(t, r)
    BY <1>4, OwnBegins
  <2>2. CASE call[t][r] = Idle
    BY <1>1, <2>1, <2>2, NewCall
  <2>3. CASE call[t][r] # Idle
    <3>1. wait[t].pc \in Calling
      BY <2>3 DEF OwnInv, OwnCalls
    <3>2. CallsDone(t) \/ Crash(t)
      BY <1>1, <1>2, <1>4, <3>1, TaskMoves DEF Calling, Dispatching, LoadRun, Is
    <3>3. ~CallsDone(t)
      BY <2>3 DEF CallsDone
    <3> QED
      BY <1>1, <3>2, <3>3 DEF Crash, CallTypeOK
  <2> QED
    BY <2>2, <2>3
<1>5. ASSUME wait'[t].pc \in Dispatching, NEW r \in Run
      PROVE  call'[t][r].at \in {"idle", "claimed"}
  <2>1. call[t][r].at \in {"idle", "claimed"}
    <3>1. CASE wait[t].pc \in Dispatching
      BY <3>1 DEF OwnInv, OwnCalls
    <3>2. CASE wait[t].pc \notin Dispatching
      <4>1. BeginClaims(t)
        BY <1>1, <1>2, <1>5, <3>2, TaskMoves DEF Calling, Dispatching
      <4>2. wait[t].pc \notin Calling
        BY <4>1 DEF BeginClaims, Loaded, Is, Calling, Dispatching
      <4> QED
        BY <4>2, AtFacts DEF OwnInv, OwnCalls
    <3> QED
      BY <3>1, <3>2
  <2>2. ~CallStep(t, r) /\ ~LoseCall(t, r)
    BY <2>1 DEF CallStep, Post, PostAnswered, Get, Apply, LoseCall
  <2>3. ~Poll(t) /\ ~Submit(t)
    <3>1. Poll(t) \/ Submit(t) => wait'[t].pc = "calls"
      BY <1>1 DEF Poll, Submit, Go, WaitInv, WaitState
    <3> QED
      BY <1>5, <3>1 DEF Dispatching
  <2>4. \/ call'[t][r] = call[t][r] \/ call'[t][r] = At("claimed") \/ call'[t][r] = Idle
    BY <1>1, <2>1, <2>2, <2>3, CallMoves
  <2> QED
    BY <2>1, <2>4, AtFacts DEF CallPoints
<1> QED
  BY <1>3, <1>4, <1>5 DEF OwnCalls, Idle

LEMMA OwnListsStep ==
  ASSUME OwnKeys, WaitIInv, OwnInv, [WaitNext]_vars, NEW t \in Task
  PROVE  OwnLists(t)'
<1>1. WaitInv /\ TasksFollow /\ CallTypeOK /\ CallsFollow /\ wait[t] \in WaitState
  BY DEF WaitIInv, CallsFollow, WaitInv
<1>2. \/ wait'[t] = wait[t]
      \/ TaskStep(t) \/ Deadline(t) \/ Crash(t)
  BY <1>1, StepCases DEF OnlyOwn
<1>3. ASSUME NEW r \in Run, Lists(wait[t], r), ~Submit(t), ~Crash(t),
             run[r].status # "running" \/ call[t][r].at = "claimed"
      PROVE  run'[r].status # "running" \/ call'[t][r].at = "claimed"
  <2>1. Has(wait[t], r)
    BY <1>1, <1>3, TodoIsOwned
  <2>2. CASE call[t][r].at = "claimed"
    <3>1. CASE Begins(t, r)
      <4>1. Takes(t, r) /\ ~CallStep(t, r) /\ ~LoseCall(t, r)
        <5>1. wait[t].pc \in Calling
          <6>1. call[t][r] # Idle
            BY <2>2, AtFacts
          <6> QED
            BY <6>1 DEF OwnInv, OwnCalls
        <5>2. ~Poll(t)
          BY <5>1 DEF Poll, Loaded, Is, Calling, Dispatching
        <5> QED
          BY <2>2, <3>1, <5>2 DEF Begins, CallStep, Post, PostAnswered, Get, Apply, LoseCall
      <4>2. ~Poll(t)
        BY <4>1 DEF Takes, ClaimAgent, StartOnService, UsesService, AfterConflict, Poll, Loaded, Is
      <4>3. call'[t][r] = call[t][r] \/ call'[t][r] = At("claimed")
        BY <1>1, <1>3, <2>2, <4>1, <4>2, CallMoves
      <4> QED
        BY <2>2, <4>3, AtFacts DEF CallPoints
    <3>2. CASE ~Begins(t, r)
      BY <1>3, <2>2, <3>2, OwnCallKept
    <3> QED
      BY <3>1, <3>2
  <2>3. CASE run[r].status # "running" /\ run'[r].status = "running"
    <3>1. PICK u \in Task : (ClaimAgent(u) \/ StartOnService(u)) /\ r = Todo(u)
      BY <1>1, <2>3, StarterDrives
    <3>2. wait[u].todo # <<>>
      BY <1>1, <3>1 DEF ClaimAgent, StartOnService, UsesService, Is, WaitInv, Shape
    <3>3. Has(wait[u], r)
      BY <1>1, <3>1, <3>2, TodoIsOwned
    <3>4. u = t
      BY <1>1, <2>1, <3>3, OneOwner DEF Owns
    <3>5. Claimed(t, r)
      BY <2>3, <3>1, <3>4 DEF ClaimAgent, StartOnService
    <3> QED
      BY <1>1, <3>5, AtFacts DEF Claimed, CallTypeOK, CallPoints
  <2> QED
    BY <1>3, <2>2, <2>3
<1>4. ASSUME wait'[t].pc \in Dispatching \/ (wait'[t].pc = "load" /\ wait'[t].stage = "dispatch"),
             NEW i \in DOMAIN wait'[t].todo
      PROVE  run'[wait'[t].todo[i]].status # "running" \/ call'[t][wait'[t].todo[i]].at = "claimed"
  <2>1. wait[t].todo \in Seq(Run)
    BY <1>1 DEF WaitState
  <2> DEFINE Early == wait[t].pc \in Dispatching \/ (wait[t].pc = "load" /\ wait[t].stage = "dispatch")
  <2>2. ASSUME Early, ~Submit(t), ~Crash(t), NEW j \in DOMAIN wait[t].todo
        PROVE  LET s == wait[t].todo[j]
               IN  run'[s].status # "running" \/ call'[t][s].at = "claimed"
    <3>1. wait[t].todo[j] \in Run /\ Lists(wait[t], wait[t].todo[j])
      BY <2>1, <2>2 DEF Lists
    <3> QED
      BY <1>3, <2>2, <3>1 DEF OwnInv, OwnLists
  <2>3. Submit(t) \/ Crash(t) => wait'[t].todo = <<>> \/ wait'[t].pc = "calls"
    <3>1. Submit(t) => wait'[t].pc = "calls"
      BY <1>1 DEF Submit, Go, WaitInv, WaitState
    <3> QED
      BY <1>1, <1>4, <3>1, CrashMoves DEF Dispatching
  <2>4. wait'[t].todo # <<>> /\ wait'[t].pc # "calls"
    BY <1>4 DEF Dispatching
  <2>5. ~Submit(t) /\ ~Crash(t)
    BY <2>3, <2>4
  <2>6. CASE wait'[t] = wait[t]
    BY <1>4, <2>2, <2>5, <2>6
  <2>7. CASE BeginClaims(t) /\ wait'[t].todo = wait[t].todo
    <3>1. Early
      BY <2>7 DEF BeginClaims, Loaded, Is
    <3> QED
      BY <1>4, <2>2, <2>5, <2>7, <3>1
  <2>8. CASE /\ wait[t].pc \in Dispatching
             /\ \/ wait'[t].todo = wait[t].todo
                \/ wait[t].todo # <<>> /\ wait'[t].todo = Tail(wait[t].todo)
    <3>1. \E j \in DOMAIN wait[t].todo : wait'[t].todo[i] = wait[t].todo[j]
      <4>1. CASE wait[t].todo # <<>> /\ wait'[t].todo = Tail(wait[t].todo)
        <5>1. i + 1 \in DOMAIN wait[t].todo /\ wait'[t].todo[i] = wait[t].todo[i + 1]
          BY <1>4, <2>1, <4>1
        <5> QED
          BY <5>1
      <4> QED
        BY <1>4, <2>8, <4>1
    <3> QED
      BY <2>2, <2>5, <2>8, <3>1
  <2>9. CASE /\ LoadRun(t) /\ wait'[t].pc = "load" /\ wait'[t].stage = wait[t].stage
             /\ \/ wait'[t].todo = wait[t].todo
                \/ \E r \in Run : /\ run[r].status \in Wanted(wait[t].stage) /\ KnownIn(run, r)
                                  /\ wait'[t].todo = Append(wait[t].todo, r)
    <3>1. Early /\ wait[t].stage = "dispatch" /\ run' = run
      BY <1>4, <2>9 DEF LoadRun, Is, LocalOnly, storeVars, Dispatching
    <3>2. CASE wait'[t].todo = wait[t].todo
      BY <1>4, <2>2, <2>5, <3>1, <3>2
    <3>3. ASSUME NEW r \in Run, run[r].status \in Wanted(wait[t].stage),
                 wait'[t].todo = Append(wait[t].todo, r)
          PROVE  run'[wait'[t].todo[i]].status # "running" \/ call'[t][wait'[t].todo[i]].at = "claimed"
      <4>1. run'[r].status # "running"
        BY <3>1, <3>3 DEF Wanted, Dispatchable
      <4>2. CASE i \in DOMAIN wait[t].todo
        <5>1. wait'[t].todo[i] = wait[t].todo[i]
          BY <2>1, <3>3, <4>2
        <5> QED
          BY <2>2, <2>5, <3>1, <4>2, <5>1
      <4>3. CASE i \notin DOMAIN wait[t].todo
        <5>1. wait'[t].todo[i] = r
          BY <1>4, <2>1, <3>3, <4>3
        <5> QED
          BY <4>1, <5>1
      <4> QED
        BY <4>2, <4>3
    <3> QED
      BY <2>9, <3>2, <3>3
  <2> QED
    BY <1>1, <1>2, <1>4, <2>4, <2>5, <2>6, <2>7, <2>8, <2>9, TaskMoves DEF Calling, Dispatching
<1>5. ASSUME wait'[t].pc = "load", wait'[t].stage = "poll", NEW i \in DOMAIN wait'[t].todo
      PROVE  run'[wait'[t].todo[i]].status = "running"
  <2>1. wait[t].todo \in Seq(Run)
    BY <1>1 DEF WaitState
  <2>2. ASSUME wait[t].pc = "load", wait[t].stage = "poll", NEW j \in DOMAIN wait[t].todo
        PROVE  run'[wait[t].todo[j]].status = "running"
    <3> DEFINE s == wait[t].todo[j]
    <3>1. s \in Run /\ Lists(wait[t], s)
      BY <2>1, <2>2 DEF Lists
    <3>2. Has(wait[t], s) /\ run[s].status = "running"
      BY <1>1, <2>2, <3>1, TodoIsOwned DEF OwnInv, OwnLists
    <3>3. call[t][s] = Idle
      BY <2>2, <3>1 DEF OwnInv, OwnCalls, Calling, Dispatching
    <3>4. ~Apply(t, s) /\ ~Expire(t)
      BY <2>2, <3>3, AtFacts DEF Apply, Expire, Is
    <3> HIDE DEF s
    <3>5. run'[s].status = "running"
      BY <3>1, <3>2, <3>4, OwnRunStays
    <3> QED
      BY <3>5 DEF s
  <2>3. CASE wait'[t] = wait[t]
    BY <1>5, <2>2, <2>3
  <2>4. CASE /\ LoadRun(t) /\ wait'[t].stage = wait[t].stage
             /\ \/ wait'[t].todo = wait[t].todo
                \/ \E r \in Run : /\ run[r].status \in Wanted(wait[t].stage) /\ KnownIn(run, r)
                                  /\ wait'[t].todo = Append(wait[t].todo, r)
    <3>1. wait[t].pc = "load" /\ wait[t].stage = "poll" /\ run' = run
      BY <1>5, <2>4 DEF LoadRun, Is, LocalOnly, storeVars
    <3>2. CASE wait'[t].todo = wait[t].todo
      BY <1>5, <2>2, <3>1, <3>2
    <3>3. ASSUME NEW r \in Run, run[r].status \in Wanted(wait[t].stage),
                 wait'[t].todo = Append(wait[t].todo, r)
          PROVE  run'[wait'[t].todo[i]].status = "running"
      <4>1. run'[r].status = "running"
        BY <3>1, <3>3 DEF Wanted
      <4>2. CASE i \in DOMAIN wait[t].todo
        <5>1. wait'[t].todo[i] = wait[t].todo[i]
          BY <2>1, <3>3, <4>2
        <5> QED
          BY <2>2, <3>1, <4>2, <5>1
      <4>3. CASE i \notin DOMAIN wait[t].todo
        <5>1. wait'[t].todo[i] = r
          BY <1>5, <2>1, <3>3, <4>3
        <5> QED
          BY <4>1, <5>1
      <4> QED
        BY <4>2, <4>3
    <3> QED
      BY <2>4, <3>2, <3>3
  <2>5. wait'[t].todo # <<>>
    BY <1>5
  <2> QED
    BY <1>1, <1>2, <1>5, <2>3, <2>4, <2>5, TaskMoves DEF Calling, Dispatching
<1>6. ASSUME wait'[t].pc = "detaching", NEW r \in cancelTxn'[t].runs
      PROVE  run'[r].status \in Active
  <2>1. CASE ~(TaskStep(t) \/ Deadline(t) \/ Crash(t))
    <3>1. wait'[t] = wait[t] /\ cancelTxn'[t] = cancelTxn[t]
      BY <1>1, <2>1, StepCases DEF OnlyOwn, LinksStay
    <3>2. /\ wait[t].pc = "detaching" /\ r \in cancelTxn[t].runs
          /\ <<r, t>> \in link /\ run[r].status \in Active /\ r \in Run
      BY <1>1, <1>6, <3>1 DEF OwnInv, OwnLists, TasksFollow, TaskInv, Cancels, WaitInv, StoreTypeOK,
         CancelTxn
    <3>3. \A s \in Run : call[t][s] = Idle
      BY <3>2 DEF OwnInv, OwnCalls, Calling, Dispatching
    <3>4. ~Expire(t) /\ ~Detach(t) /\ ~Apply(t, r)
      BY <2>1, <3>2, <3>3, AtFacts DEF Expire, Is, TaskStep, Apply
    <3>5. \A u \in Task : Has(wait[u], r) \/ <<r, u>> \in link => u = t
      BY <1>1, <3>2, OneOwner DEF Owns
    <3> QED
      BY <3>2, <3>4, <3>5, OwnMoves DEF Active
  <2>2. CASE TaskStep(t) \/ Deadline(t) \/ Crash(t)
    <3>1. ~LoadRun(t)
      BY <1>1, <1>6, LoadMoves
    <3>2. ReadRuns(t)
      BY <1>1, <1>6, <2>2, <3>1, WaitChanges DEF Dispatching
    <3>3. run' = run /\ cancelTxn'[t].runs = LinkedActiveRuns(t)
      BY <1>1, <3>2 DEF ReadRuns, CancelRead, WaitInv, StoreTypeOK
    <3> QED
      BY <1>6, <3>3 DEF LinkedActiveRuns, IsActive
  <2> QED
    BY <2>1, <2>2
<1> QED
  BY <1>4, <1>5, <1>6 DEF OwnLists

LEMMA OwnInitially == WaitInit => OwnInv
  BY AtFacts DEF WaitInit, OwnInv, OwnCalls, OwnLists, Dispatching

LEMMA OwnStep == OwnKeys /\ WaitIInv /\ OwnInv /\ [WaitNext]_vars => OwnInv'
  BY OwnCallsStep, OwnListsStep DEF OwnInv

LEMMA OneSubmitterStep == WaitIInv /\ OwnInv /\ OneSubmitter /\ [WaitNext]_vars => OneSubmitter'
<1> SUFFICES ASSUME WaitIInv, OwnInv, OneSubmitter, [WaitNext]_vars PROVE OneSubmitter'
  OBVIOUS
<1>1. \A t \in Task, r \in Run :
        Takes(t, r) => run[r].status \in Dispatchable \/ call[t][r].at = "claimed"
  BY OwnBegins DEF Begins
<1> QED
  BY <1>1, SubmitterStep DEF WaitIInv

\* Whoever has its runs to itself submits each of them alone and once, with pools or
\* without and whatever goes wrong.
THEOREM OwnRunsHaveOneSubmitter ==
  ASSUME OwnKeys PROVE WaitSpec => []OneSubmitter
<1> DEFINE Inv == WaitIInv /\ OwnInv /\ OneSubmitter
<1>1. WaitInit => Inv
  <2>1. WaitInit => OneSubmitter
    BY AtFacts DEF WaitInit, OneSubmitter
  <2> QED
    BY <2>1, IInvInitially, OwnInitially
<1>2. Inv /\ [WaitNext]_vars => Inv'
  BY IInvStep, OwnStep, OneSubmitterStep
<1>3. Inv => OneSubmitter
  OBVIOUS
<1> HIDE DEF Inv
<1> QED
  BY <1>1, <1>2, <1>3, PTL DEF WaitSpec

-----------------------------------------------------------------------------
(* The crawls of own runs, while nothing cuts a wait or a call short.      *)

\* The collectors answer, and no deadline strikes.
Undisturbed == Faults \cap {"deadline", "network"} = {}

\* A crawl runs for a run that holds the agent it uses, and is over before the run is.
CrawlInv ==
  /\ \A t \in Task : wait[t].stage \notin {"expire", "final"} /\ wait[t].pc # "expire"
  /\ \A r \in Run :
       /\ svc[r].state # "cancel_requested"
       /\ svc[r].state \in {"queued", "running"} =>
            run[r].status = "running" /\ svc[r].agent = RequestAgent(r)
  /\ \A t \in Task, r \in Run :
       call[t][r].at = "answer" /\ call[t][r].answer \notin {"queued", "running"} =>
         \/ svc[r].state = "absent"
         \/ call[t][r].answer = svc[r].state /\ call[t][r].output = svc[r].output

\* What a step of the system does to what a service knows of a run.
LEMMA EntryMoves ==
  ASSUME WaitInv, CallsFollow, [WaitNext]_vars, NEW r \in Run
  PROVE  \/ svc'[r] = svc[r]
         \/ \E t \in Task : /\ Post(t, r) /\ svc[r].state = "absent"
                            /\ svc'[r].state = "queued" /\ svc'[r].agent = RequestAgent(r)
         \/ /\ svc[r].state \in {"queued", "running", "cancel_requested"}
            /\ svc[r].state # "cancel_requested" =>
                 svc'[r].state = "running" \/ (svc[r].state = "running"
                                               /\ svc'[r].state \in {"succeeded", "failed"})
            /\ svc'[r].agent = svc[r].agent /\ UNCHANGED <<storeVars, wait, call>>
         \/ \E p \in Platform : RestartService(p) /\ svc'[r].state = "absent"
<1>1. svc \in [Run -> SvcP!Entry] /\ SvcP!SvcInv
  BY DEF CallsFollow, SvcP!SvcInv, SvcP!SvcTypeOK
<1>2. ASSUME NEW t \in Task, NEW s \in Run, Post(t, s)
      PROVE  \/ svc'[r] = svc[r]
             \/ /\ s = r /\ svc[r].state = "absent" /\ svc'[r].state = "queued"
                /\ svc'[r].agent = RequestAgent(r)
  BY <1>1, <1>2 DEF Post, Svc!Register, Svc!Known, serviceVars
<1>3. ASSUME NEW s \in Run, Svc!Begin(s)
      PROVE  \/ svc'[r] = svc[r]
             \/ /\ svc[r].state \in {"queued", "cancel_requested"}
                /\ svc[r].state # "cancel_requested" => svc'[r].state = "running"
                /\ svc'[r].agent = svc[r].agent
  <2>1. future[s] = "taken" => svc[s].state \in {"queued", "cancel_requested"}
    BY <1>1 DEF SvcP!SvcInv, SvcP!RunInv
  <2> QED
    BY <1>1, <1>3, <2>1 DEF Svc!Begin, SvcP!Entry
<1>4. ASSUME NEW s \in Run, Svc!Crawl(s)
      PROVE  \/ svc'[r] = svc[r]
             \/ /\ svc[r].state \in {"running", "cancel_requested"}
                /\ svc[r].state # "cancel_requested" => svc'[r].state \in {"succeeded", "failed"}
                /\ svc'[r].agent = svc[r].agent
  <2>1. future[s] = "executing" => svc[s].state \in {"running", "cancel_requested"}
    BY <1>1 DEF SvcP!SvcInv, SvcP!RunInv
  <2>2. ASSUME NEW path \in BOOLEAN, Svc!FinishWithResult(s, path)
        PROVE  \/ svc'[r] = svc[r]
               \/ /\ svc[r].state \in {"running", "cancel_requested"}
                  /\ svc[r].state # "cancel_requested" => svc'[r].state \in {"succeeded", "failed"}
                  /\ svc'[r].agent = svc[r].agent
    <3>1. CASE svc[s].state = "cancel_requested"
      BY <1>1, <2>1, <2>2, <3>1 DEF Svc!FinishWithResult, SvcP!Entry
    <3>2. CASE svc[s].state # "cancel_requested" /\ s = r
      <4>1. svc'[r] = [svc[r] EXCEPT !.state = "succeeded", !.output = path]
        BY <1>1, <2>2, <3>2 DEF Svc!FinishWithResult
      <4> QED
        BY <1>1, <2>1, <2>2, <3>2, <4>1 DEF Svc!FinishWithResult, SvcP!Entry
    <3>3. CASE svc[s].state # "cancel_requested" /\ s # r
      BY <1>1, <2>2, <3>3 DEF Svc!FinishWithResult
    <3> QED
      BY <3>1, <3>2, <3>3
  <2>3. CASE Svc!FinishWithError(s)
    BY <1>1, <2>1, <2>3 DEF Svc!FinishWithError, SvcP!Entry
  <2> QED
    BY <1>4, <2>2, <2>3 DEF Svc!Crawl
<1>5. CASE ServiceStep
  <2>1. svc' = svc \/ \E s \in Run : Svc!Begin(s) \/ Svc!Crawl(s)
    BY <1>5 DEF ServiceStep, Svc!SvcStep, Svc!Enqueue, Svc!Take
  <2>2. UNCHANGED <<storeVars, wait, call>>
    BY <1>5 DEF ServiceStep
  <2> QED
    BY <1>3, <1>4, <2>1, <2>2
<1>6. ASSUME NEW p \in Platform, RestartService(p)
      PROVE  svc'[r] = svc[r] \/ svc'[r].state = "absent"
  BY <1>1, <1>6 DEF RestartService, Svc!Restart, Svc!NoEntry
<1>7. ASSUME NEW t \in Task, TaskStep(t) \/ Deadline(t) \/ RequestCancel(t) \/ Crash(t)
      PROVE  UNCHANGED svc
  BY <1>7 DEF TaskStep, FindActive, Insert, InsertRejected, ReportJoin, LoadRun, BeginClaims,
     ChooseAgent, ClaimAgent, LoseClaim, GiveUp, StartOnService, StartConflict,
     AfterConflict, Submit, Poll, CallsDone, NextRound, BeginExpire, Expire, EndExpire,
     ReturnFinal, EndWait, ReadRuns, Detach, Deadline, RequestCancel, Crash, StoreOnly,
     LocalOnly, serviceVars
<1>8. ASSUME NEW t \in Task, NEW s \in Run,
             PostAnswered(t, s) \/ Get(t, s) \/ Apply(t, s) \/ LoseCall(t, s)
      PROVE  UNCHANGED svc
  BY <1>8 DEF PostAnswered, Get, Apply, LoseCall, serviceVars
<1>9. UNCHANGED vars => UNCHANGED svc
  BY DEF vars, serviceVars
<1> QED
  BY <1>2, <1>5, <1>6, <1>7, <1>8, <1>9 DEF WaitNext, Fault, CallStep

\* No deadline, no expiry.
LEMMA NoExpiry ==
  ASSUME Undisturbed, WaitIInv, CrawlInv, [WaitNext]_vars, NEW t \in Task
  PROVE  /\ ~Expire(t) /\ ~EndExpire(t) /\ ~Deadline(t) /\ ~ReturnFinal(t)
         /\ wait'[t].stage \notin {"expire", "final"} /\ wait'[t].pc # "expire"
<1>1. WaitInv /\ CallTypeOK
  BY DEF WaitIInv, CallsFollow
<1>2. /\ ~Expire(t) /\ ~EndExpire(t) /\ ~BeginExpire(t) /\ ~Deadline(t) /\ ~ReturnFinal(t)
  BY DEF CrawlInv, Expire, EndExpire, BeginExpire, Deadline, ReturnFinal, Is, Undisturbed
<1>3. wait'[t] = wait[t] \/ TaskStep(t) \/ Deadline(t) \/ Crash(t)
  BY <1>1, StepCases DEF OnlyOwn
<1>4. LoadRun(t) => wait'[t].pc = "load" /\ wait'[t].stage = wait[t].stage
  BY <1>1, LoadMoves
<1>5. CASE wait'[t] = wait[t]
  BY <1>2, <1>5 DEF CrawlInv
<1>6. CASE TaskStep(t) \/ Deadline(t) \/ Crash(t)
  BY <1>1, <1>2, <1>4, <1>6, WaitChanges DEF CrawlInv, Dispatching
<1> QED
  BY <1>2, <1>3, <1>5, <1>6

\* What the answer to a call is worth.
LEMMA AnswerMoves ==
  ASSUME OwnKeys, Undisturbed, WaitIInv, OwnInv, OneSubmitter, [WaitNext]_vars,
         NEW t \in Task, NEW r \in Run, call'[t][r].at = "answer"
  PROVE  \/ call'[t][r] = call[t][r]
         \/ /\ call'[t][r] = Current(r) \/ (call'[t][r] = Failed /\ svc[r].state = "absent")
            /\ UNCHANGED serviceVars
         \/ /\ call'[t][r] = Failed /\ svc'[r].state = "absent"
            /\ \E p \in Platform : RestartService(p)
<1>1. WaitInv /\ CallTypeOK /\ SvcP!SvcInv
  BY DEF WaitIInv, CallsFollow
<1>2. \A p \in CallPoints \ {"answer"} : call'[t][r] # At(p)
  BY AtFacts
<1>3. call'[t][r] # Idle /\ ~LoseCall(t, r)
  BY AtFacts DEF Undisturbed, LoseCall
<1>4. ASSUME CallStep(t, r)
      PROVE  /\ call'[t][r] = Current(r) \/ (call'[t][r] = Failed /\ svc[r].state = "absent")
             /\ UNCHANGED serviceVars
  <2>1. CASE Post(t, r)
    <3>1. ~Svc!Known(r)
      BY <2>1 DEF OneSubmitter, Post
    <3>2. call'[t][r] = At("open")
      BY <1>1, <2>1, <3>1 DEF Post, AnswerCall, CallTypeOK
    <3> QED
      BY <1>2, <3>2 DEF CallPoints
  <2>2. CASE Apply(t, r)
    <3>1. call'[t][r] = Idle
      BY <1>1, <2>2 DEF Apply, AnswerCall, CallTypeOK
    <3> QED
      BY <1>3, <3>1
  <2>3. CASE PostAnswered(t, r)
    BY <1>1, <2>3 DEF PostAnswered, AnswerCall, CallTypeOK
  <2>4. CASE Get(t, r)
    BY <1>1, <2>4 DEF Get, AnswerCall, CallTypeOK, Svc!Known
  <2> QED
    BY <1>4, <2>1, <2>2, <2>3, <2>4 DEF CallStep
<1>5. ASSUME NEW p \in Platform, RestartService(p), svc[r].platform = p
      PROVE  svc'[r].state = "absent"
  BY <1>1, <1>5 DEF RestartService, Svc!Restart, Svc!NoEntry, SvcP!SvcInv, SvcP!SvcTypeOK
<1> QED
  BY <1>1, <1>2, <1>3, <1>4, <1>5, CallMoves DEF CallPoints

LEMMA CrawlStep ==
  ASSUME OwnKeys, Undisturbed, WaitIInv, OwnInv, OneSubmitter, CrawlInv, [WaitNext]_vars
  PROVE  CrawlInv'
<1>1. WaitInv /\ TasksFollow /\ CallTypeOK /\ CallsFollow /\ SvcP!SvcInv
  BY DEF WaitIInv, CallsFollow
<1>2. \A t \in Task : wait'[t].stage \notin {"expire", "final"} /\ wait'[t].pc # "expire"
  BY NoExpiry
<1>3. ASSUME NEW t \in Task, NEW r \in Run, Post(t, r)
      PROVE  /\ run[r].status = "running" /\ run'[r] = run[r]
             /\ \A u \in Task : call[u][r] # Idle => u = t
  <2>1. call[t][r] # Idle
    BY <1>3, AtFacts DEF Post
  <2> QED
    BY <1>1, <1>3, <2>1, OneOwner DEF OwnInv, OwnCalls, Owns, Post, CallOnly, storeVars
<1>4. \A r \in Run : svc'[r].state # "cancel_requested"
  BY <1>1, EntryMoves DEF CrawlInv
<1>5. ASSUME NEW r \in Run, svc'[r].state \in {"queued", "running"}
      PROVE  run'[r].status = "running" /\ svc'[r].agent = RequestAgent(r)'
  <2>1. CASE svc[r].state \in {"queued", "running"} /\ svc'[r].agent = svc[r].agent
    <3>1. run[r].status = "running" /\ svc[r].agent = RequestAgent(r)
      BY <2>1 DEF CrawlInv
    <3>2. run'[r].status = "running" /\ run'[r].agent = run[r].agent
      <4>1. ASSUME NEW t \in Task, Apply(t, r), call[t][r].answer \notin {"queued", "running"}
            PROVE  FALSE
        BY <2>1, <4>1 DEF CrawlInv, Apply
      <4> QED
        BY <3>1, <4>1, NoExpiry, OwnMoves DEF Dispatchable
    <3>3. run'[r].key = run[r].key
      <4>1. KnownIn(run, r)
        BY <1>1, <2>1 DEF CallsFollow, Started
      <4>2. StoreTypeOK /\ [StoreNext]_storeVars
        BY <1>1, WaitStep DEF WaitInv
      <4> QED
        BY <4>1, <4>2, KnownStays
    <3> QED
      BY <2>1, <3>1, <3>2, <3>3 DEF RequestAgent, RunPlatform
  <2>2. ASSUME NEW t \in Task, Post(t, r), svc'[r].agent = RequestAgent(r)
        PROVE  run'[r].status = "running" /\ svc'[r].agent = RequestAgent(r)'
    BY <1>3, <2>2 DEF RequestAgent, RunPlatform
  <2> QED
    BY <1>1, <1>5, <2>1, <2>2, EntryMoves DEF CrawlInv
<1>6. ASSUME NEW t \in Task, NEW r \in Run,
             call'[t][r].at = "answer", call'[t][r].answer \notin {"queued", "running"}
      PROVE  \/ svc'[r].state = "absent"
             \/ call'[t][r].answer = svc'[r].state /\ call'[t][r].output = svc'[r].output
  <2>1. CASE call'[t][r] = call[t][r]
    <3>1. \/ svc[r].state = "absent"
          \/ call[t][r].answer = svc[r].state /\ call[t][r].output = svc[r].output
      BY <1>6, <2>1 DEF CrawlInv
    <3>2. ASSUME NEW u \in Task, Post(u, r)
          PROVE  FALSE
      <4>1. call[t][r] # Idle
        BY <1>6, <2>1, AtFacts
      <4>2. u = t
        BY <1>3, <3>2, <4>1
      <4> QED
        BY <1>6, <2>1, <3>2, <4>2 DEF Post
    <3> QED
      BY <1>1, <1>6, <2>1, <3>1, <3>2, EntryMoves DEF CrawlInv
  <2>2. CASE /\ call'[t][r] = Current(r) \/ (call'[t][r] = Failed /\ svc[r].state = "absent")
             /\ UNCHANGED serviceVars
    BY <1>1, <2>2, CurrentFacts DEF serviceVars
  <2> QED
    BY <1>6, <2>1, <2>2, AnswerMoves
<1> QED
  BY <1>2, <1>4, <1>5, <1>6 DEF CrawlInv

\* Two crawls never use the same agent, if no deadline or broken connection makes a
\* task give up a run that is still crawled.
THEOREM CrawlsDoNotShareAgents ==
  ASSUME OwnKeys, Undisturbed PROVE WaitSpec => []OneCrawlPerAgent
<1> DEFINE Inv == WaitIInv /\ OwnInv /\ OneSubmitter /\ CrawlInv
<1>1. WaitInit => Inv
  <2>1. WaitInit => OneSubmitter /\ CrawlInv
    BY AtFacts DEF WaitInit, OneSubmitter, CrawlInv, Svc!SvcInit, Svc!NoEntry
  <2> QED
    BY <2>1, IInvInitially, OwnInitially
<1>2. Inv /\ [WaitNext]_vars => Inv'
  BY IInvStep, OwnStep, OneSubmitterStep, CrawlStep
<1>3. Inv => OneCrawlPerAgent
  <2> SUFFICES ASSUME Inv, NEW r \in Run, NEW s \in Run,
                      future[r] = "executing", future[s] = "executing",
                      svc[r].agent = svc[s].agent, svc[r].agent # NoAgent
               PROVE  r = s
    BY DEF OneCrawlPerAgent
  <2>1. svc[r].state = "running" /\ svc[s].state = "running"
    BY DEF WaitIInv, CallsFollow, SvcP!SvcInv, SvcP!RunInv, CrawlInv
  <2>2. /\ run[r].status = "running" /\ run[s].status = "running"
        /\ run[r].agent = svc[r].agent /\ run[s].agent = svc[s].agent
    BY <2>1 DEF CrawlInv, RequestAgent
  <2> QED
    BY <2>2 DEF WaitIInv, StoreIsExclusive, OneRunPerAgent
<1> HIDE DEF Inv
<1> QED
  BY <1>1, <1>2, <1>3, PTL DEF WaitSpec

-----------------------------------------------------------------------------
(* What a task reports, while the services keep what they know.            *)
CrawledWell(r) == svc[r].state = "succeeded" /\ svc[r].output

\* The table, the answers and the services agree on what became of a run.
ResultInv ==
  /\ \A t \in Task, r \in Run :
       call[t][r].at = "answer" /\ call[t][r].answer = "succeeded" /\ call[t][r].output =>
         CrawledWell(r)
  /\ \A r \in Run : run[r].status = "succeeded" => CrawledWell(r)
  /\ \A r \in Run : CrawledWell(r) => run[r].status \in {"running", "succeeded"}

\* A task reports the runs that it has read to have succeeded.
Reports(w, rows) ==
  /\ \A r \in w.won : rows[r].status = "succeeded"
  /\ w.pc = "load" /\ w.stage = "results" =>
       \A i \in 1 .. w.read : rows[w.mine[i]].status = "succeeded" =>
                                w.mine[i] \in w.won \/ Lists(w, w.mine[i])
  /\ w.pc \in {"returned", "done"} =>
       \A i \in DOMAIN w.mine : rows[w.mine[i]].status = "succeeded" => w.mine[i] \in w.won

AllReport == \A t \in Task : Reports(wait[t], run)

\* The end of an own run is written once.
LEMMA EndStays ==
  ASSUME OwnKeys, Undisturbed, WaitIInv, OwnInv, CrawlInv, [WaitNext]_vars,
         NEW r \in Run, Over(run, r)
  PROVE  run'[r].status = run[r].status
  BY NoExpiry, OwnMoves DEF Over, Final, Dispatchable

\* A row that is not there yet cannot succeed.
LEMMA NoneSucceedsUnborn ==
  ASSUME StoreTypeOK, [StoreNext]_storeVars, NEW r \in Run, run[r].status = "absent"
  PROVE  run'[r].status # "succeeded"
<1>1. run \in [Run -> Row] /\ run[r] \in Row
  BY DEF StoreTypeOK
<1>2. ASSUME NEW t \in Task, NEW k \in Key, NEW s \in Run, CreateRun(t, k, s)
      PROVE  run'[r].status # "succeeded"
  BY <1>1, <1>2 DEF CreateRun
<1>3. ASSUME NEW t \in Task, NEW s \in Run, AddSharer(t, s)
      PROVE  run'[r].status # "succeeded"
  BY <1>1, <1>3 DEF AddSharer, Row
<1>4. ASSUME NEW s \in Run, MarkWaiting(s) \/ WaitAfterAgentConflict(s) \/ CompleteRun(s) \/ FailRun(s)
      PROVE  run'[r].status # "succeeded"
  BY <1>1, <1>4 DEF MarkWaiting, WaitAfterAgentConflict, CompleteRun, FailRun
<1>5. ASSUME NEW s \in Run, NEW a \in Agent, ClaimWithAgent(s, a) \/ StartRun(s, a)
      PROVE  run'[r].status # "succeeded"
  BY <1>1, <1>5 DEF ClaimWithAgent, CanClaim, SetRunning, StartRun, Dispatchable
<1>6. ASSUME NEW t \in Task, CancelRead(t) \/ CancelAbort(t)
      PROVE  run'[r].status # "succeeded"
  BY <1>6 DEF CancelRead, CancelAbort
<1>7. ASSUME NEW t \in Task, CancelCommit(t)
      PROVE  run'[r].status # "succeeded"
  <2>1. run'[r] = run[r] \/ \E left : run'[r] = DetachedRow(run[r], left)
    BY <1>1, <1>7 DEF CancelCommit
  <2> QED
    BY <1>1, <2>1 DEF DetachedRow, Row
<1>8. CASE UNCHANGED storeVars
  BY <1>8 DEF storeVars
<1> QED
  BY <1>2, <1>3, <1>4, <1>5, <1>6, <1>7, <1>8 DEF StoreNext, JoinRun, AttachTask

LEMMA ResultStep ==
  ASSUME OwnKeys, Undisturbed, "restart" \notin Faults, WaitIInv, OwnInv, OneSubmitter,
         CrawlInv, ResultInv, [WaitNext]_vars
  PROVE  ResultInv'
<1>1. WaitInv /\ CallTypeOK /\ CallsFollow /\ SvcP!SvcInv
  BY DEF WaitIInv, CallsFollow
<1>2. \A p \in Platform : ~RestartService(p)
  BY DEF RestartService
<1>3. ASSUME NEW r \in Run, CrawledWell(r)
      PROVE  svc'[r] = svc[r] /\ CrawledWell(r)'
  <2>1. svc'[r] = svc[r]
    BY <1>1, <1>2, <1>3, EntryMoves DEF CrawledWell
  <2> QED
    BY <1>3, <2>1 DEF CrawledWell
<1>4. ASSUME NEW t \in Task, NEW r \in Run, call'[t][r].at = "answer",
             call'[t][r].answer = "succeeded", call'[t][r].output
      PROVE  CrawledWell(r)'
  <2>1. CASE call'[t][r] = call[t][r]
    BY <1>3, <1>4, <2>1 DEF ResultInv
  <2>2. CASE call'[t][r] = Current(r)
    <3>1. CrawledWell(r)
      BY <1>1, <1>4, <2>2, CurrentFacts DEF CrawledWell
    <3> QED
      BY <1>3, <3>1
  <2> QED
    BY <1>2, <1>4, <2>1, <2>2, AnswerMoves, AtFacts
<1>5. ASSUME NEW r \in Run, run'[r].status = "succeeded"
      PROVE  CrawledWell(r)'
  <2>1. CASE run[r].status = "succeeded"
    BY <1>3, <2>1 DEF ResultInv
  <2>2. CASE run[r].status # "succeeded"
    <3>1. run[r].status # "absent"
      <4>1. StoreTypeOK /\ [StoreNext]_storeVars
        BY <1>1, WaitStep DEF WaitInv
      <4> QED
        BY <1>5, <4>1, NoneSucceedsUnborn
    <3>2. PICK t \in Task : /\ Apply(t, r)
                            /\ call[t][r].answer = "succeeded" /\ call[t][r].output
      BY <1>5, <2>2, <3>1, NoExpiry, OwnMoves
    <3>3. CrawledWell(r)
      BY <3>2 DEF ResultInv, Apply
    <3> QED
      BY <1>3, <3>3
  <2> QED
    BY <2>1, <2>2
<1>6. ASSUME NEW r \in Run, CrawledWell(r)'
      PROVE  run'[r].status \in {"running", "succeeded"}
  <2>1. CASE CrawledWell(r)
    <3>1. run[r].status \in {"running", "succeeded"}
      BY <2>1 DEF ResultInv
    <3>2. ASSUME NEW t \in Task, Apply(t, r), call[t][r].answer \notin {"queued", "running"}
          PROVE  call[t][r].answer = "succeeded" /\ call[t][r].output
      BY <2>1, <3>2 DEF CrawlInv, CrawledWell, Apply
    <3> QED
      BY <3>1, <3>2, NoExpiry, OwnMoves DEF Dispatchable
  <2>2. CASE ~CrawledWell(r)
    <3>1. svc[r].state = "running" /\ UNCHANGED storeVars
      BY <1>1, <1>2, <1>6, <2>2, EntryMoves DEF CrawledWell, CrawlInv
    <3> QED
      BY <3>1 DEF CrawlInv, storeVars
  <2> QED
    BY <2>1, <2>2
<1> QED
  BY <1>4, <1>5, <1>6 DEF ResultInv

LEMMA ReportStep ==
  ASSUME OwnKeys, Undisturbed, WaitIInv, OwnInv, CrawlInv, AllReport, [WaitNext]_vars
  PROVE  AllReport'
<1> SUFFICES ASSUME NEW t \in Task
             PROVE  Reports(wait'[t], run')
  BY DEF AllReport
<1>1. /\ WaitInv /\ CallTypeOK /\ wait[t] \in WaitState
      /\ Settled(wait[t], run) /\ Reports(wait[t], run)
  BY DEF WaitIInv, WaitInv, CallsFollow, TasksFollow, TaskInv, Follows, AllReport
<1>2. /\ wait[t].mine \in Seq(Run) /\ wait[t].todo \in Seq(Run) /\ wait[t].read \in Nat
      /\ wait[t].won \subseteq Run /\ wait[t].read <= Len(wait[t].mine)
  BY <1>1 DEF WaitState, Settled
<1>3. wait'[t] = wait[t] \/ TaskStep(t) \/ Deadline(t) \/ Crash(t)
  BY <1>1, StepCases DEF OnlyOwn
<1>4. \A r \in wait[t].won : run'[r].status = "succeeded"
  BY <1>1, <1>2, EndStays DEF Reports, Over, Final
<1>5. ASSUME wait[t].pc \in {"returned", "done"}, NEW i \in DOMAIN wait[t].mine,
             run'[wait[t].mine[i]].status = "succeeded"
      PROVE  wait[t].mine[i] \in wait[t].won
  <2>1. Over(run, wait[t].mine[i])
    BY <1>1, <1>5 DEF Settled
  <2>2. run[wait[t].mine[i]].status = "succeeded"
    BY <1>2, <1>5, <2>1, EndStays
  <2> QED
    BY <1>1, <1>5, <2>2 DEF Reports
<1>6. ASSUME wait[t].pc = "load", wait[t].stage = "results", NEW i \in 1 .. wait[t].read,
             run'[wait[t].mine[i]].status = "succeeded"
      PROVE  wait[t].mine[i] \in wait[t].won \/ Lists(wait[t], wait[t].mine[i])
  <2>1. Over(run, wait[t].mine[i]) \/ Lists(wait[t], wait[t].mine[i])
    BY <1>1, <1>6 DEF Settled
  <2>2. wait[t].mine[i] \in Run
    BY <1>2
  <2> QED
    BY <1>1, <1>6, <2>1, <2>2, EndStays DEF Reports
<1>7. CASE wait'[t] = wait[t]
  BY <1>4, <1>5, <1>6, <1>7 DEF Reports
<1>8. CASE LoadRun(t)
  <2> DEFINE r == wait[t].mine[wait[t].read + 1]
             w == wait'[t]
  <2>1. /\ wait[t].pc = "load" /\ w.pc = "load" /\ w.stage = wait[t].stage
        /\ w.mine = wait[t].mine /\ w.read = wait[t].read + 1
        /\ wait[t].read + 1 \in DOMAIN wait[t].mine
        /\ w.todo = IF run[r].status \in Wanted(wait[t].stage)
                    THEN Append(wait[t].todo, r) ELSE wait[t].todo
        /\ w.won = IF run[r].status = "succeeded" /\ wait[t].stage \in {"results", "final"}
                   THEN wait[t].won \cup {r} ELSE wait[t].won
    BY <1>1, <1>8, LoadMoves
  <2>2. r \in Run /\ run' = run
    BY <1>2, <1>8, <2>1 DEF LoadRun, LocalOnly, storeVars
  <2>3. \A s \in Run : Lists(wait[t], s) => Lists(w, s)
    <3> SUFFICES ASSUME NEW i \in DOMAIN wait[t].todo
                 PROVE  i \in DOMAIN w.todo /\ w.todo[i] = wait[t].todo[i]
      BY DEF Lists
    <3> QED
      BY <1>2, <2>1, <2>2
  <2>4. \A s \in w.won : run'[s].status = "succeeded"
    BY <1>4, <2>1, <2>2
  <2>5. ASSUME w.stage = "results", NEW i \in 1 .. w.read, run'[w.mine[i]].status = "succeeded"
        PROVE  w.mine[i] \in w.won \/ Lists(w, w.mine[i])
    <3>1. CASE i \in 1 .. wait[t].read
      <4>1. wait[t].mine[i] \in Run
        BY <1>2, <3>1
      <4>2. wait[t].mine[i] \in wait[t].won \/ Lists(wait[t], wait[t].mine[i])
        BY <1>6, <2>1, <2>5, <3>1
      <4> QED
        BY <2>1, <2>3, <4>1, <4>2
    <3>2. CASE i = wait[t].read + 1
      BY <2>1, <2>2, <2>5, <3>2
    <3> QED
      BY <1>2, <2>1, <2>5, <3>1, <3>2
  <2> HIDE DEF r, w
  <2>6. Reports(w, run')
    BY <2>1, <2>4, <2>5 DEF Reports
  <2> QED
    BY <2>6 DEF w
<1>9. CASE wait'[t].pc = "load" /\ wait'[t].read = 0 /\ wait'[t].won = {}
  BY <1>9 DEF Reports
<1>10. CASE /\ wait'[t].pc \in Dispatching \cup
                 {"calls", "joined", "insert", "find", "cancelling", "cancelled", "detaching", "expire"}
            /\ wait'[t].won = wait[t].won
  BY <1>4, <1>10 DEF Reports, Dispatching
<1>11. CASE /\ wait'[t].pc = "returned" /\ wait'[t].mine = wait[t].mine
            /\ NextRound(t) /\ wait[t].todo = <<>> /\ wait'[t].won = wait[t].won
  <2>1. /\ wait[t].pc = "load" /\ wait[t].stage = "results"
        /\ wait[t].read = Len(wait[t].mine)
    BY <1>11 DEF NextRound, Loaded, Is
  <2>2. \A i \in DOMAIN wait[t].mine : run'[wait[t].mine[i]].status = "succeeded" =>
                                         wait[t].mine[i] \in wait[t].won
    BY <1>2, <1>6, <1>11, <2>1 DEF Lists
  <2> QED
    BY <1>4, <1>11, <2>2 DEF Reports
<1>12. CASE /\ wait'[t].pc = "done" /\ wait'[t].mine = wait[t].mine
            /\ wait[t].pc = "returned" /\ wait'[t].won = wait[t].won
  BY <1>4, <1>5, <1>12 DEF Reports
<1>13. CASE TaskStep(t) \/ Deadline(t) \/ Crash(t)
  BY <1>1, <1>8, <1>9, <1>10, <1>11, <1>12, <1>13, NoExpiry, WaitChanges
<1> QED
  BY <1>3, <1>7, <1>13

\* What a task reports of its own runs is how their crawls ended, if in addition no
\* service forgets them.
THEOREM ReportsAreTheCollectors ==
  ASSUME OwnKeys, Undisturbed, "restart" \notin Faults
  PROVE  WaitSpec => []ResultsAreTheCollectors
<1> DEFINE Inv == /\ WaitIInv /\ OwnInv /\ OneSubmitter /\ CrawlInv /\ ResultInv /\ AllReport
<1>1. WaitInit => Inv
  <2> SUFFICES ASSUME WaitInit PROVE Inv
    OBVIOUS
  <2>1. OneSubmitter /\ CrawlInv
    BY AtFacts DEF WaitInit, OneSubmitter, CrawlInv, Svc!SvcInit, Svc!NoEntry
  <2>2. ResultInv
    BY AtFacts DEF WaitInit, ResultInv, CrawledWell, Svc!SvcInit, Svc!NoEntry, StoreInit, NoRow
  <2>3. AllReport
    BY DEF WaitInit, AllReport, Reports
  <2> QED
    BY <2>1, <2>2, <2>3, IInvInitially, OwnInitially
<1>2. Inv /\ [WaitNext]_vars => Inv'
  BY IInvStep, OwnStep, OneSubmitterStep, CrawlStep, ResultStep, ReportStep
<1>3. Inv => ResultsAreTheCollectors
  <2> SUFFICES ASSUME Inv, NEW t \in Task, wait[t].pc \in {"returned", "done"}, NEW r \in Mine(t)
               PROVE  r \in wait[t].won <=> CrawledWell(r)
    BY DEF ResultsAreTheCollectors, CrawledWell
  <2>1. Settled(wait[t], run) /\ Reports(wait[t], run) /\ wait[t] \in WaitState
    BY DEF WaitIInv, WaitInv, TasksFollow, TaskInv, Follows, AllReport
  <2>2. PICK i \in DOMAIN wait[t].mine : wait[t].mine[i] = r
    BY DEF Mine
  <2>3. r \in Run /\ Over(run, r)
    BY <2>1, <2>2 DEF Settled, WaitState
  <2>4. r \in wait[t].won <=> run[r].status = "succeeded"
    BY <2>1, <2>2 DEF Reports
  <2> QED
    BY <2>3, <2>4 DEF ResultInv, Over, Final
<1> HIDE DEF Inv
<1> QED
  BY <1>1, <1>2, <1>3, PTL DEF WaitSpec
=============================================================================
