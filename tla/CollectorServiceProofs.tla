----------------------- MODULE CollectorServiceProofs -----------------------
(***************************************************************************)
(* What CollectorService guarantees for any runs, platforms and size of    *)
(* the thread pools, however cancellations and restarts fall in between.   *)
(***************************************************************************)
EXTENDS CollectorService, TLAPS

-----------------------------------------------------------------------------
(* A run's entry, its future and the work queue fit together.              *)

Has(q, r) == \E i \in DOMAIN q : q[i] = r
Waits(r) == Has(queue[svc[r].platform], r)

RunInv(r) ==
  /\ svc[r].state = "absent" => future[r] = "none"
  /\ svc[r].state # "absent" => svc[r].platform \in Platform
  /\ svc[r].state = "queued" => future[r] \in {"none", "pending", "taken"}
  /\ svc[r].state = "running" => future[r] = "executing"
  /\ future[r] = "executing" => svc[r].state \in {"running", "cancel_requested"}
  /\ future[r] = "none" => svc[r].state \in {"absent", "queued", "cancel_requested"}
  /\ future[r] \in {"pending", "taken"} => svc[r].state \in {"queued", "cancel_requested"}
  /\ future[r] = "pending" => Waits(r)

SvcInv == SvcTypeOK /\ \A r \in Run : RunInv(r)

LEMMA InvInitially == SvcInit => SvcInv
  BY DEF SvcInit, SvcInv, SvcTypeOK, RunInv, Entry, NoEntry, SvcState, FutureState

\* The first element of a queue is the only one that its tail may lack.
LEMMA OthersStay ==
  ASSUME NEW q \in Seq(Run), q # <<>>, NEW r, r # Head(q), Has(q, r)
  PROVE  Has(Tail(q), r)
<1>1. PICK i \in DOMAIN q : q[i] = r
  BY DEF Has
<1>2. i \in 2 .. Len(q)
  BY <1>1
<1>3. i - 1 \in DOMAIN Tail(q) /\ Tail(q)[i - 1] = r
  BY <1>1, <1>2
<1> QED
  BY <1>3 DEF Has

\* A longer queue still has what it had, and its new last element.
LEMMA AppendKeeps ==
  ASSUME NEW q \in Seq(Run), NEW x \in Run
  PROVE  Has(Append(q, x), x) /\ \A r : Has(q, r) => Has(Append(q, x), r)
<1>1. Len(q) + 1 \in DOMAIN Append(q, x) /\ Append(q, x)[Len(q) + 1] = x
  OBVIOUS
<1>2. \A i \in DOMAIN q : i \in DOMAIN Append(q, x) /\ Append(q, x)[i] = q[i]
  OBVIOUS
<1> QED
  BY <1>1, <1>2 DEF Has

-----------------------------------------------------------------------------
(* The steps.                                                              *)

LEMMA StateSet ==
  ASSUME SvcTypeOK, NEW r \in Run, NEW x \in SvcState, svc' = [svc EXCEPT ![r].state = x]
  PROVE  /\ svc' \in [Run -> Entry]
         /\ svc'[r].state = x /\ svc'[r].platform = svc[r].platform
         /\ \A s \in Run : s # r => svc'[s] = svc[s]
  BY DEF SvcTypeOK, Entry

\* What the threads do to a run that they have.
LEMMA ThreadStep ==
  ASSUME SvcTypeOK, NEW r \in Run, Begin(r) \/ Crawl(r)
  PROVE  /\ SvcTypeOK'
         /\ \A s \in Run : s # r => svc'[s] = svc[s] /\ future'[s] = future[s]
         /\ queue' = queue /\ svc'[r].platform = svc[r].platform
         /\ \/ svc[r].state # "cancel_requested" /\ future[r] = "taken"
               /\ svc'[r].state = "running" /\ future'[r] = "executing"
            \/ svc[r].state = "cancel_requested" /\ future[r] \in {"taken", "executing"}
               /\ svc'[r].state \in {"cancelled", "failed"} /\ future'[r] = "done"
            \/ svc[r].state # "cancel_requested" /\ future[r] = "executing"
               /\ svc'[r].state \in {"succeeded", "failed"} /\ future'[r] = "done"
<1> USE DEF SvcTypeOK, Entry, SvcState, SvcTerminal, FutureState
<1>1. CASE Begin(r) /\ svc[r].state = "cancel_requested"
  BY <1>1, StateSet DEF Begin
<1>2. CASE Begin(r) /\ svc[r].state # "cancel_requested"
  BY <1>2, StateSet DEF Begin
<1>3. ASSUME NEW path \in BOOLEAN, FinishWithResult(r, path), svc[r].state = "cancel_requested"
      PROVE  /\ svc' \in [Run -> Entry] /\ svc'[r].state = "cancelled"
             /\ svc'[r].platform = svc[r].platform
             /\ \A s \in Run : s # r => svc'[s] = svc[s]
  BY <1>3, StateSet DEF FinishWithResult
<1>4. ASSUME NEW path \in BOOLEAN, FinishWithResult(r, path), svc[r].state # "cancel_requested"
      PROVE  /\ svc' \in [Run -> Entry] /\ svc'[r].state = "succeeded"
             /\ svc'[r].platform = svc[r].platform
             /\ \A s \in Run : s # r => svc'[s] = svc[s]
  BY <1>4 DEF FinishWithResult
<1>5. CASE \E path \in BOOLEAN : FinishWithResult(r, path)
  <2>1. /\ future[r] = "executing" /\ future' = [future EXCEPT ![r] = "done"] /\ queue' = queue
    BY <1>5 DEF FinishWithResult
  <2> QED
    BY <1>3, <1>4, <1>5, <2>1
<1>6. CASE FinishWithError(r)
  BY <1>6, StateSet DEF FinishWithError
<1> QED
  BY <1>1, <1>2, <1>5, <1>6 DEF Crawl

LEMMA TypeStep == SvcTypeOK /\ (\A r \in Run : RunInv(r)) /\ [SvcNext]_svcVars => SvcTypeOK'
<1> SUFFICES ASSUME SvcTypeOK, \A r \in Run : RunInv(r), [SvcNext]_svcVars PROVE SvcTypeOK'
  OBVIOUS
<1> USE DEF SvcTypeOK, Entry, SvcState, SvcTerminal, FutureState
<1>1. ASSUME NEW r \in Run, NEW t \in Task, NEW a \in Agent \cup {NoAgent}, NEW p \in Platform,
             Register(r, t, a, p)
      PROVE  SvcTypeOK'
  BY <1>1 DEF Register
<1>2. ASSUME NEW r \in Run, Enqueue(r) PROVE SvcTypeOK'
  <2>1. svc[r].platform \in Platform
    BY <1>2 DEF Enqueue, Known, RunInv
  <2> QED
    BY <1>2, <2>1 DEF Enqueue
<1>3. ASSUME NEW r \in Run, Begin(r) \/ Crawl(r) PROVE SvcTypeOK'
  BY <1>3, ThreadStep
<1>4. ASSUME NEW p \in Platform, Take(p) PROVE SvcTypeOK'
  BY <1>4 DEF Take
<1>5. ASSUME NEW r \in Run, CancelRun(r) PROVE SvcTypeOK'
  BY <1>5 DEF CancelRun
<1>6. ASSUME NEW p \in Platform, Restart(p) PROVE SvcTypeOK'
  BY <1>6 DEF Restart, NoEntry
<1>7. CASE UNCHANGED svcVars
  BY <1>7 DEF svcVars
<1> QED
  BY <1>1, <1>2, <1>3, <1>4, <1>5, <1>6, <1>7 DEF SvcNext, SvcStep

LEMMA RunStep ==
  ASSUME SvcTypeOK, \A r \in Run : RunInv(r), [SvcNext]_svcVars, NEW s \in Run
  PROVE  RunInv(s)'
<1> USE DEF SvcTypeOK, Entry, RunInv, Waits
<1>1. ASSUME NEW r \in Run, NEW t \in Task, NEW a \in Agent \cup {NoAgent}, NEW p \in Platform,
             Register(r, t, a, p)
      PROVE  RunInv(s)'
  BY <1>1 DEF Register, Known
<1>2. ASSUME NEW r \in Run, Enqueue(r) PROVE RunInv(s)'
  <2> DEFINE p == svc[r].platform
  <2>1. p \in Platform /\ queue[p] \in Seq(Run) /\ queue'[p] = Append(queue[p], r)
    BY <1>2 DEF Enqueue, Known
  <2>2. \A q \in Platform : q # p => queue'[q] = queue[q]
    BY <1>2 DEF Enqueue
  <2>3. future'[s] = "pending" => Waits(s)'
    <3>1. CASE s = r
      <4>1. Has(queue'[p], r)
        BY <2>1, AppendKeeps
      <4> QED
        BY <4>1, <3>1, <1>2 DEF Enqueue
    <3>2. CASE s # r
      <4> SUFFICES ASSUME future[s] = "pending" PROVE Waits(s)'
        BY <3>2, <1>2 DEF Enqueue
      <4>1. svc[s].platform \in Platform /\ svc' = svc
        BY <1>2 DEF Enqueue
      <4>2. Has(queue[svc[s].platform], s)
        OBVIOUS
      <4>3. CASE svc[s].platform = p
        BY <4>1, <4>2, <4>3, <2>1, AppendKeeps
      <4>4. CASE svc[s].platform # p
        BY <4>1, <4>2, <4>4, <2>2
      <4> QED
        BY <4>3, <4>4
    <3> QED
      BY <3>1, <3>2
  <2> QED
    BY <2>3, <1>2 DEF Enqueue, Known
<1>3. ASSUME NEW r \in Run, Begin(r) \/ Crawl(r) PROVE RunInv(s)'
  <2>1. CASE s # r
    BY <1>3, <2>1, ThreadStep
  <2>2. CASE s = r
    BY <1>3, <2>2, ThreadStep DEF SvcTerminal
  <2> QED
    BY <2>1, <2>2
<1>4. ASSUME NEW p \in Platform, Take(p) PROVE RunInv(s)'
  <2>1. queue[p] \in Seq(Run) /\ Head(queue[p]) \in Run /\ svc' = svc
    BY <1>4 DEF Take
  <2>2. future'[s] = "pending" => future[s] = "pending" /\ s # Head(queue[p])
    BY <1>4, <2>1 DEF Take, FutureState
  <2>3. future'[s] = "pending" => Waits(s)'
    <3> SUFFICES ASSUME future'[s] = "pending" PROVE Waits(s)'
      OBVIOUS
    <3>1. svc[s].platform \in Platform
      BY <2>2
    <3>2. Has(queue[svc[s].platform], s)
      BY <2>2
    <3>3. CASE svc[s].platform = p
      <4>1. queue'[p] = Tail(queue[p]) /\ queue[p] # <<>>
        BY <1>4 DEF Take
      <4>2. Has(Tail(queue[p]), s)
        BY <2>1, <2>2, <4>1, <3>2, <3>3, OthersStay
      <4> QED
        BY <4>1, <4>2, <3>3, <2>1
    <3>4. CASE svc[s].platform # p
      BY <1>4, <2>1, <3>1, <3>2, <3>4 DEF Take
    <3> QED
      BY <3>3, <3>4
  <2>4. future'[s] \in {future[s], "taken"} /\ (future'[s] # future[s] => future[s] = "pending" /\ future'[s] = "taken")
    BY <1>4, <2>1 DEF Take
  <2>5. future[s] = "pending" => svc[s].state # "running"
    OBVIOUS
  <2> QED
    <3>1. CASE future'[s] = future[s]
      BY <2>1, <2>3, <3>1
    <3>2. CASE future'[s] # future[s]
      BY <2>1, <2>4, <2>5, <3>2
    <3> QED
      BY <3>1, <3>2
<1>5. ASSUME NEW r \in Run, CancelRun(r) PROVE RunInv(s)'
  BY <1>5 DEF CancelRun, Known, SvcTerminal
<1>6. ASSUME NEW p \in Platform, Restart(p) PROVE RunInv(s)'
  <2>1. CASE svc[s].platform = p
    BY <1>6, <2>1 DEF Restart, NoEntry
  <2>2. CASE svc[s].platform # p
    BY <1>6, <2>2 DEF Restart
  <2> QED
    BY <2>1, <2>2
<1>7. CASE UNCHANGED svcVars
  BY <1>7 DEF svcVars
<1> QED
  BY <1>1, <1>2, <1>3, <1>4, <1>5, <1>6, <1>7 DEF SvcNext, SvcStep

LEMMA InvStep == SvcInv /\ [SvcNext]_svcVars => SvcInv'
  BY TypeStep, RunStep DEF SvcInv

-----------------------------------------------------------------------------
(* The theorems.                                                           *)

\* Every accepted run is with the handler, in the work queue, or with a thread for
\* as long as the process lives, for any number of runs that wait for a thread.
THEOREM NoRunIsEverLost == SvcSpec => []NoRunIsLost
<1>1. SvcInv => NoRunIsLost
  BY DEF SvcInv, RunInv, Waits, Has, NoRunIsLost
<1> QED
  BY <1>1, InvInitially, InvStep, PTL DEF SvcSpec

\* A result never changes, and an accepted cancellation never becomes a success.
THEOREM TerminalIsAlwaysStable == SvcSpec => TerminalIsStable
<1>1. SvcInv /\ [SvcNext]_svcVars =>
        [\A r \in Run :
           /\ svc[r].state \in SvcTerminal => svc'[r].state \in {svc[r].state, "absent"}
           /\ svc[r].state = "cancel_requested" => svc'[r].state # "succeeded"]_svcVars
  <2> SUFFICES ASSUME SvcInv, SvcNext, NEW s \in Run
      PROVE  /\ svc[s].state \in SvcTerminal => svc'[s].state \in {svc[s].state, "absent"}
             /\ svc[s].state = "cancel_requested" => svc'[s].state # "succeeded"
    OBVIOUS
  <2> USE DEF SvcInv, SvcTypeOK, Entry, RunInv, SvcTerminal
  <2>1. ASSUME NEW r \in Run, NEW t \in Task, NEW a \in Agent \cup {NoAgent},
               NEW p \in Platform, Register(r, t, a, p)
        PROVE  s = r => svc[s].state = "absent"
    BY <2>1 DEF Register, Known
  <2>2. ASSUME NEW r \in Run, NEW t \in Task, NEW a \in Agent \cup {NoAgent},
               NEW p \in Platform, Register(r, t, a, p), s # r
        PROVE  svc'[s] = svc[s]
    BY <2>2 DEF Register
  <2>3. CASE \E r \in Run : Enqueue(r)
    BY <2>3 DEF Enqueue
  <2>4. CASE \E p \in Platform : Take(p)
    BY <2>4 DEF Take
  <2>5. CASE \E r \in Run : Begin(r) \/ Crawl(r)
    BY <2>5 DEF Begin, Crawl, FinishWithResult, FinishWithError
  <2>6. CASE \E r \in Run : CancelRun(r)
    BY <2>6 DEF CancelRun
  <2>7. CASE \E p \in Platform : Restart(p)
    BY <2>7 DEF Restart, NoEntry
  <2> QED
    BY <2>1, <2>2, <2>3, <2>4, <2>5, <2>6, <2>7 DEF SvcNext, SvcStep
<1> QED
  BY <1>1, InvInitially, InvStep, PTL DEF SvcSpec, TerminalIsStable
=============================================================================
