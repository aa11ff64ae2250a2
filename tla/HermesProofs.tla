---------------------------- MODULE HermesProofs ----------------------------
(***************************************************************************)
(* What HermesReport guarantees for any comments, budget, number of        *)
(* attempts and of threads, and whatever may go wrong: the timer, the      *)
(* result and its files, and the batches.  What the cuts compute is a fold *)
(* over the comments; it is proved for any number of them by induction     *)
(* over sets of numbers (UpTo, FoldExists).                                *)
(***************************************************************************)
EXTENDS HermesReport, SequenceTheorems, WellFoundedInduction, TLAPS

-----------------------------------------------------------------------------
(* The timer.                                                              *)

InJoin == pc \in {"call", "leave"} /\ job.mode = "api"

\* Who has the deadline of the worker: the timer, or the join that has put it aside.
ClockInv ==
  /\ pc # "done" => told = NotTold
  /\ outer # "hard"
  /\ timer = "hard" => InJoin
  /\ job.kind = "time" /\ ~rang /\ told.status # "escaped" =>
       IF InJoin THEN outer = "worker" ELSE timer = "worker"

LEMMA ClockInitially == HermesInit => ClockInv
  BY DEF HermesInit, ClockInv, InJoin, NotTold

LEMMA ClockStep == ClockInv /\ [HermesNext]_vars => ClockInv'
<1> SUFFICES ASSUME ClockInv, [HermesNext]_vars PROVE ClockInv'
  OBVIOUS
<1> USE DEF ClockInv, InJoin, NotTold, clock, files
<1>1. CASE Start \/ Split \/ CallStep
  BY <1>1 DEF Start, Split, CallStep, StartCall, RetryCall, EndCall, InPool, Fail, End
<1>2. CASE BeginJoin \/ RetryJoin \/ EndJoin
  BY <1>2 DEF BeginJoin, RetryJoin, EndJoin
<1>3. CASE LeaveJoin
  BY <1>3 DEF LeaveJoin
<1>4. CASE Drained \/ Merge \/ WriteFile \/ Publish \/ RuleFile \/ Degrade
  BY <1>4 DEF Drained, Merge, WriteFile, Publish, RuleFile, Degrade, Fail, End
<1>5. CASE HardAlarm
  BY <1>5 DEF HardAlarm, End
<1>6. CASE WorkerAlarm
  BY <1>6 DEF WorkerAlarm, Fail, End
<1>7. CASE UNCHANGED vars
  BY <1>7 DEF vars
<1> QED
  BY <1>1, <1>2, <1>3, <1>4, <1>5, <1>6, <1>7 DEF HermesNext, ReportStep

\* Whatever fails in a report, the worker's own deadline is in force again when it
\* ends, unless it has come or the join's timeout escaped while it was given back;
\* and that timeout does not outlive the join.
THEOREM DeadlineIsAlwaysKept == HermesSpec => []DeadlineIsKept
<1>1. ClockInv => DeadlineIsKept
  BY DEF ClockInv, InJoin, DeadlineIsKept
<1> QED
  BY <1>1, ClockInitially, ClockStep, PTL DEF HermesSpec

-----------------------------------------------------------------------------
(* The files and the name of their source.                                 *)

Call == [st: {"queued", "running", "ended"}, attempt: Nat, payload: Payload]
InBatches == pc \in {"analyse", "drain"}
Joined == pc \in {"call", "leave", "merge", "write"}

\* The batches: outside of the pool none is running, and one that has ended has a
\* payload.
BatchInv ==
  /\ work \in [DOMAIN work -> Call]
  /\ \A b \in DOMAIN work :
       /\ work[b].st = "ended" => work[b].payload # "none"
       /\ work[b].st = "running" => InBatches
       /\ Joined => work[b].st = "ended"
  /\ join \in [attempt: Nat, payload: {"none", "model", "odd"}]

\* The files: those before the next one have been written by whoever writes.
FileInv ==
  /\ next \in 1 .. Len(Files) + 1
  /\ file \in [File -> {"none", "model", "rules"}]
  /\ pc = "write" =>
       /\ ~Odd
       /\ \A i \in 1 .. next - 1 : file[Files[i]] = "model"
  /\ pc = "rules" =>
       \A i \in 1 .. next - 1 : file[Files[i]] = "rules" \/ Files[i] = "terms"
  /\ pc \notin {"write", "rules", "done"} => next = 1

HonestInv ==
  /\ pc # "done" => told = NotTold
  /\ BatchInv
  /\ FileInv
  /\ ResultIsHonest

LEMMA FilesAreFile ==
  /\ Len(Files) = 6
  /\ \A i \in 1 .. 6 : Files[i] \in File
  /\ \A f \in File : \E i \in 1 .. 6 : f = Files[i]
<1>1. Len(Files) = 6 /\ DOMAIN Files = 1 .. 6
  BY DEF Files
<1> QED
  BY <1>1 DEF File, Range

LEMMA HonestInitially == HermesInit => HonestInv
<1> SUFFICES ASSUME HermesInit PROVE HonestInv
  OBVIOUS
<1> USE DEF HermesInit
<1>1. BatchInv
  <2>1. work = <<>> /\ DOMAIN work = {}
    OBVIOUS
  <2>2. work \in [DOMAIN work -> Call]
    BY <2>1
  <2> QED
    BY <2>1, <2>2 DEF BatchInv
<1>2. FileInv
  BY FilesAreFile DEF FileInv
<1>3. told = NotTold /\ ResultIsHonest
  BY DEF NotTold, ResultIsHonest
<1> QED
  BY <1>1, <1>2, <1>3 DEF HonestInv

\* The steps that look at the batches.
LEMMA BatchStep ==
  ASSUME HonestInv, Start \/ Split \/ CallStep \/ Drained
  PROVE  HonestInv'
<1> USE DEF HonestInv
<1>1. CASE Start
  <2>1. UNCHANGED <<work, join, file>> /\ pc' \in {"split", "rules", "done"} /\ pc = "start"
    BY <1>1 DEF Start, Fail, End
  <2>2. BatchInv'
    BY <2>1 DEF BatchInv, InBatches, Joined
  <2>3. FileInv'
    BY <1>1, <2>1, FilesAreFile DEF Start, Fail, End, FileInv, files
  <2>4. (pc' # "done" => told' = NotTold) /\ ResultIsHonest'
    BY <1>1, <2>1 DEF Start, Fail, End, ResultIsHonest, NotTold
  <2> QED
    BY <2>2, <2>3, <2>4
<1>2. CASE Split
  <2>1. UNCHANGED <<join, file, next, told>> /\ pc' \in {"split", "analyse"} /\ pc = "split"
    BY <1>2 DEF Split, files
  <2>2. BatchInv'
    <3>1. CASE UNCHANGED work
      BY <2>1, <3>1 DEF BatchInv, InBatches, Joined
    <3>2. CASE work' = [b \in DOMAIN batches |->
                          [st |-> "queued", attempt |-> 0, payload |-> "none"]]
      <4>1. [st |-> "queued", attempt |-> 0, payload |-> "none"] \in Call
        BY DEF Call, Payload
      <4>2. work' \in [DOMAIN work' -> Call]
        BY <3>2, <4>1
      <4>3. \A b \in DOMAIN work' : work'[b].st = "queued"
        BY <3>2
      <4> QED
        BY <2>1, <4>2, <4>3 DEF BatchInv, InBatches, Joined
    <3> QED
      BY <1>2, <3>1, <3>2 DEF Split
  <2>3. FileInv'
    BY <2>1 DEF FileInv
  <2>4. ResultIsHonest'
    BY <2>1 DEF ResultIsHonest, NotTold
  <2> QED
    BY <2>1, <2>2, <2>3, <2>4
<1>3. CASE CallStep
  <2>1. UNCHANGED <<pc, join, file, next, told>>
    BY <1>3 DEF CallStep, StartCall, RetryCall, EndCall, InPool, files
  <2>2. PICK b \in DOMAIN work : StartCall(b) \/ RetryCall(b) \/ EndCall(b)
    BY <1>3 DEF CallStep
  <2>3. InBatches
    BY <2>2 DEF StartCall, RetryCall, EndCall, Running, InBatches, BatchInv
  <2>4. PICK c \in Call : /\ work' = [work EXCEPT ![b] = c]
                          /\ c.st = "ended" => c.payload # "none"
    <3>1. CASE StartCall(b)
      <4>1. /\ [st |-> "running", attempt |-> 1, payload |-> "none"] \in Call
            /\ [st |-> "running", attempt |-> 1, payload |-> "none"].st = "running"
        BY DEF Call, Payload
      <4> QED
        BY <3>1, <4>1 DEF StartCall
    <3>2. CASE RetryCall(b)
      <4>1. [work[b] EXCEPT !.attempt = @ + 1] \in Call
        BY <2>2 DEF BatchInv, Call
      <4>2. [work[b] EXCEPT !.attempt = @ + 1].st = "running"
        BY <2>2, <3>2 DEF RetryCall, Running, BatchInv, Call
      <4> QED
        BY <3>2, <4>1, <4>2 DEF RetryCall
    <3>3. CASE EndCall(b)
      <4>1. \A p \in Answers \cup {"local"} : Ended(p) \in Call /\ Ended(p).payload # "none"
        BY DEF Answers, Ended, Call, Payload
      <4> QED
        BY <3>3, <4>1 DEF EndCall
    <3> QED
      BY <2>2, <3>1, <3>2, <3>3
  <2>5. BatchInv'
    <3>1. work' \in [DOMAIN work' -> Call] /\ DOMAIN work' = DOMAIN work
      BY <2>4 DEF BatchInv
    <3>2. \A d \in DOMAIN work : work'[d] = IF d = b THEN c ELSE work[d]
      BY <2>4 DEF BatchInv
    <3> QED
      BY <2>1, <2>3, <2>4, <3>1, <3>2 DEF BatchInv, InBatches, Joined
  <2>6. FileInv'
    BY <2>1, <2>3 DEF FileInv, InBatches
  <2>7. ResultIsHonest'
    BY <2>1, <2>3 DEF ResultIsHonest, InBatches, NotTold
  <2> QED
    BY <2>1, <2>5, <2>6, <2>7
<1>4. CASE Drained
  <2>1. UNCHANGED <<work, join, file>> /\ pc' \in {"rules", "done"} /\ pc = "drain"
    BY <1>4 DEF Drained, Fail, End
  <2>2. BatchInv'
    BY <1>4, <2>1 DEF BatchInv, InBatches, Joined, Drained, Analysed
  <2>3. FileInv'
    BY <1>4, <2>1, FilesAreFile DEF Drained, Fail, End, FileInv
  <2>4. (pc' # "done" => told' = NotTold) /\ ResultIsHonest'
    BY <1>4, <2>1 DEF Drained, Fail, End, ResultIsHonest, NotTold
  <2> QED
    BY <2>2, <2>3, <2>4
<1> QED
  BY <1>1, <1>2, <1>3, <1>4

\* The steps of the join.
LEMMA JoinStep ==
  ASSUME HonestInv, BeginJoin \/ RetryJoin \/ EndJoin \/ LeaveJoin \/ Merge
  PROVE  HonestInv'
<1> USE DEF HonestInv
<1>1. UNCHANGED <<work, file>>
  BY DEF BeginJoin, RetryJoin, EndJoin, LeaveJoin, Merge, files
<1>2. CASE BeginJoin \/ RetryJoin \/ EndJoin \/ LeaveJoin
  <2>1. UNCHANGED <<next, told>> /\ pc' \in {"call", "leave", "merge"} /\ pc # "done"
    BY <1>2 DEF BeginJoin, RetryJoin, EndJoin, LeaveJoin, files
  <2>2. join' \in [attempt: Nat, payload: {"none", "model", "odd"}]
    BY <1>2 DEF BeginJoin, RetryJoin, EndJoin, LeaveJoin, BatchInv, Answers
  <2>3. \A b \in DOMAIN work : work[b].st = "ended"
    BY <1>2 DEF BeginJoin, RetryJoin, EndJoin, LeaveJoin, BatchInv, Joined, Analysed
  <2>4. BatchInv'
    BY <1>1, <2>1, <2>2, <2>3 DEF BatchInv, InBatches
  <2>5. FileInv'
    BY <1>1, <1>2, <2>1 DEF FileInv, BeginJoin, RetryJoin, EndJoin, LeaveJoin
  <2>6. ResultIsHonest'
    BY <2>1 DEF ResultIsHonest, NotTold
  <2> QED
    BY <2>1, <2>4, <2>5, <2>6
<1>3. CASE Merge
  <2>1. UNCHANGED join /\ pc' \in {"write", "rules", "done"} /\ pc = "merge"
    BY <1>3 DEF Merge, Fail, End
  <2>2. BatchInv'
    BY <1>1, <2>1 DEF BatchInv, InBatches, Joined
  <2>3. FileInv'
    BY <1>1, <1>3, <2>1, FilesAreFile DEF FileInv, Merge, Fail, End, Odd
  <2>4. (pc' # "done" => told' = NotTold) /\ ResultIsHonest'
    BY <1>3, <2>1 DEF Merge, Fail, End, ResultIsHonest, NotTold
  <2> QED
    BY <2>2, <2>3, <2>4
<1> QED
  BY <1>2, <1>3

\* The steps that write files.
LEMMA FileStep ==
  ASSUME HonestInv, WriteFile \/ Publish \/ RuleFile \/ Degrade
  PROVE  HonestInv'
<1> USE DEF HonestInv
<1>0. /\ UNCHANGED <<work, join>>
      /\ pc \in {"write", "rules"} /\ pc' \in {"write", "rules", "done"}
      /\ pc' = "write" => pc = "write"
  BY DEF WriteFile, Publish, RuleFile, Degrade, Fail, End
<1>1. BatchInv'
  BY <1>0 DEF BatchInv, InBatches, Joined
<1>2. Odd' <=> Odd
  BY <1>0 DEF Odd
<1>3. CASE WriteFile
  <2>1. CASE Fail /\ UNCHANGED file
    <3>1. FileInv'
      BY <1>3, <2>1, FilesAreFile DEF FileInv, Fail, End, WriteFile
    <3>2. (pc' # "done" => told' = NotTold) /\ ResultIsHonest'
      BY <1>3, <2>1 DEF Fail, End, ResultIsHonest, NotTold, WriteFile
    <3> QED
      BY <1>1, <3>1, <3>2
  <2>2. CASE /\ file' = [file EXCEPT ![Files[next]] = "model"] /\ next' = next + 1
             /\ UNCHANGED <<pc, told>>
    <3>1. next \in 1 .. 6 /\ Files[next] \in File /\ next' \in 1 .. 7
      BY <1>3, <2>2, FilesAreFile DEF WriteFile, FileInv
    <3>2. /\ file' \in [File -> {"none", "model", "rules"}]
          /\ \A f \in File : file'[f] = IF f = Files[next] THEN "model" ELSE file[f]
      BY <2>2, <3>1 DEF FileInv
    <3>3. \A i \in 1 .. next' - 1 : file'[Files[i]] = "model"
      BY <1>3, <2>2, <3>1, <3>2, FilesAreFile DEF WriteFile, FileInv
    <3>4. FileInv'
      BY <1>2, <1>3, <2>2, <3>1, <3>2, <3>3, FilesAreFile DEF WriteFile, FileInv
    <3>5. told' = NotTold /\ ResultIsHonest'
      BY <1>3, <2>2 DEF ResultIsHonest, NotTold, WriteFile
    <3> QED
      BY <1>1, <3>4, <3>5
  <2> QED
    BY <1>3, <2>1, <2>2 DEF WriteFile
<1>4. CASE Publish
  <2>1. /\ pc = "write" /\ pc' = "done" /\ UNCHANGED <<file, next>>
        /\ told' = [status |-> "success", source |-> SourceName]
    BY <1>4 DEF Publish, End
  <2>2. next = 7
    BY <1>4, FilesAreFile DEF Publish, FileInv
  <2>3. \A f \in File : file[f] = "model"
    BY <2>1, <2>2, FilesAreFile DEF FileInv
  <2>4. /\ SourceName # "local-aggregate" => join.payload = "model"
        /\ SourceName = "model" => \A b \in DOMAIN work : work[b].payload = "model"
    <3>1. ~Odd /\ \A b \in DOMAIN work : work[b].st = "ended" /\ work[b] \in Call
      BY <2>1 DEF FileInv, BatchInv, Joined
    <3>2. \A b \in DOMAIN work : work[b].payload \in {"model", "local"}
      BY <3>1 DEF Odd, BatchInv, Call, Payload
    <3> QED
      BY <3>1, <3>2 DEF SourceName, Odd, BatchInv
  <2>5. ResultIsHonest'
    BY <1>0, <2>1, <2>3, <2>4 DEF ResultIsHonest
  <2>6. FileInv'
    BY <2>1 DEF FileInv
  <2> QED
    BY <1>1, <2>1, <2>5, <2>6
<1>5. CASE RuleFile
  <2>0. pc = "rules"
    BY <1>5 DEF RuleFile
  <2>1. CASE End("failed", "none") /\ UNCHANGED file
    BY <1>1, <2>0, <2>1 DEF End, FileInv, ResultIsHonest
  <2>2. CASE /\ \/ file' = [file EXCEPT ![Files[next]] = "rules"]
                \/ Files[next] = "terms" /\ UNCHANGED file
             /\ next' = next + 1 /\ UNCHANGED <<pc, told>>
    <3>1. next \in 1 .. 6 /\ Files[next] \in File /\ next' \in 1 .. 7
      BY <1>5, <2>2, FilesAreFile DEF RuleFile, FileInv
    <3>2. /\ file' \in [File -> {"none", "model", "rules"}]
          /\ \A f \in File :
               \/ f = Files[next] /\ (file'[f] = "rules" \/ f = "terms")
               \/ f # Files[next] /\ file'[f] = file[f]
      BY <2>2, <3>1 DEF FileInv
    <3>3. \A i \in 1 .. next' - 1 : file'[Files[i]] = "rules" \/ Files[i] = "terms"
      <4>1. ASSUME NEW i \in 1 .. next
            PROVE  file'[Files[i]] = "rules" \/ Files[i] = "terms"
        <5>1. CASE Files[i] = Files[next]
          BY <3>1, <3>2, <5>1
        <5>2. CASE Files[i] # Files[next]
          <6>1. i \in 1 .. next - 1 /\ Files[i] \in File
            BY <3>1, <4>1, <5>2, FilesAreFile
          <6> QED
            BY <2>0, <3>2, <5>2, <6>1 DEF FileInv
        <5> QED
          BY <5>1, <5>2
      <4>2. next' - 1 = next
        BY <2>2, <3>1
      <4> QED
        BY <4>1, <4>2
    <3>4. FileInv'
      BY <2>0, <2>2, <3>1, <3>2, <3>3, FilesAreFile DEF FileInv
    <3>5. told' = NotTold /\ ResultIsHonest'
      BY <2>0, <2>2 DEF ResultIsHonest, NotTold
    <3> QED
      BY <1>1, <3>4, <3>5
  <2> QED
    BY <1>5, <2>1, <2>2 DEF RuleFile
<1>6. CASE Degrade
  <2>1. /\ pc = "rules" /\ pc' = "done" /\ UNCHANGED <<file, next>>
        /\ told' = [status |-> "degraded", source |-> "rules"]
    BY <1>6 DEF Degrade, End
  <2>2. next = 7
    BY <1>6, FilesAreFile DEF Degrade, FileInv
  <2>3. \A f \in File \ {"terms"} : file[f] = "rules"
    BY <2>1, <2>2, FilesAreFile DEF FileInv
  <2> QED
    BY <1>1, <2>1, <2>3 DEF FileInv, ResultIsHonest
<1> QED
  BY <1>3, <1>4, <1>5, <1>6

\* The alarms.
LEMMA AlarmStep ==
  ASSUME HonestInv, HardAlarm \/ WorkerAlarm
  PROVE  HonestInv'
<1> USE DEF HonestInv
<1>1. UNCHANGED file /\ pc # "done"
  BY DEF HardAlarm, WorkerAlarm
<1>2. (pc' # "done" => told' = NotTold) /\ ResultIsHonest'
  <2>1. told' = told \/ (told'.status \in {"escaped", "failed"} /\ pc' = "done")
    <3>1. HardAlarm => told' = told \/ (told'.status = "escaped" /\ pc' = "done")
      BY DEF HardAlarm, End
    <3>2. Fail => told' = told \/ (told'.status = "failed" /\ pc' = "done")
      BY DEF Fail, End
    <3>3. WorkerAlarm => told' = told \/ Fail \/ (told'.status = "escaped" /\ pc' = "done")
      BY DEF WorkerAlarm, End
    <3> QED
      BY <3>1, <3>2, <3>3
  <2> QED
    BY <1>1, <2>1 DEF ResultIsHonest, NotTold
<1>3. FileInv'
  <2>1. pc' # "write"
    BY DEF HardAlarm, WorkerAlarm, Fail, End
  <2>2. next' = next \/ next' = 1
    BY DEF HardAlarm, WorkerAlarm, Fail, End
  <2>3. pc' = "rules" => next' = 1
    BY DEF HardAlarm, WorkerAlarm, Fail, End
  <2>4. pc' \notin {"write", "rules", "done"} => next' = 1
    BY DEF HardAlarm, WorkerAlarm, Fail, End, FileInv
  <2> QED
    BY <1>1, <2>1, <2>2, <2>3, <2>4, FilesAreFile DEF FileInv
<1>4. BatchInv'
  <2>1. CASE UNCHANGED work
    <3>1. join' \in [attempt: Nat, payload: {"none", "model", "odd"}]
      BY <2>1 DEF HardAlarm, WorkerAlarm, BatchInv
    <3>2. /\ Joined' => Joined
          /\ InBatches => InBatches' \/ ~ \E b \in DOMAIN work : work[b].st = "running"
      BY <2>1 DEF HardAlarm, WorkerAlarm, Fail, End, InBatches, Joined, Running, Analysed
    <3> QED
      BY <2>1, <3>1, <3>2 DEF BatchInv
  <2>2. CASE /\ pc = "analyse" /\ UNCHANGED <<pc, join>>
             /\ work' = [b \in DOMAIN work |-> IF b \in Running
                           THEN Ended("local") ELSE work[b]]
    <3>1. Ended("local") \in Call /\ Ended("local").st = "ended"
          /\ Ended("local").payload = "local"
      BY DEF Ended, Call, Payload
    <3> QED
      BY <2>2, <3>1 DEF BatchInv, Running, InBatches, Joined
  <2> QED
    BY <2>1, <2>2 DEF HardAlarm, WorkerAlarm
<1> QED
  BY <1>1, <1>2, <1>3, <1>4

LEMMA HonestInductive == HonestInv /\ [HermesNext]_vars => HonestInv'
<1> SUFFICES ASSUME HonestInv, [HermesNext]_vars PROVE HonestInv'
  OBVIOUS
<1>1. CASE HermesNext
  BY <1>1, BatchStep, JoinStep, FileStep, AlarmStep DEF HermesNext, ReportStep
<1>2. CASE UNCHANGED vars
  BY <1>2 DEF HonestInv, BatchInv, FileInv, ResultIsHonest, InBatches, Joined, Odd, vars, files
<1> QED
  BY <1>1, <1>2

\* Whatever failed on the way, a result does not pass for more than it is, and no
\* file of a failed attempt is left in a degraded report, but the terms.
THEOREM ResultIsAlwaysHonest == HermesSpec => []ResultIsHonest
<1>1. HonestInv => ResultIsHonest
  BY DEF HonestInv
<1> QED
  BY <1>1, HonestInitially, HonestInductive, PTL DEF HermesSpec

-----------------------------------------------------------------------------
(* Induction over the comments.                                            *)

Before == {ss \in Nat \X Nat : ss[1] < ss[2]}

\* A set of numbers that is not empty has a least one.
LEMMA LeastOf ==
  ASSUME NEW S \in SUBSET Nat, S # {}
  PROVE  \E i \in S : \A j \in S : i <= j
<1>1. IsWellFoundedOn(Before, Nat)
  BY NatLessThanWellFounded DEF OpToRel, Before
<1>2. PICK i \in S : \A j \in S : <<j, i>> \notin Before
  BY <1>1, WFMin
<1>3. ASSUME NEW j \in S PROVE i <= j
  <2>1. i \in Nat /\ j \in Nat /\ <<j, i>> \in Nat \X Nat /\ <<j, i>> \notin Before
    BY <1>2
  <2>2. ~(j < i)
    BY <2>1 DEF Before
  <2> QED
    BY <2>1, <2>2
<1> QED
  BY <1>3

\* The numbers for which something holds, up to n.
LEMMA UpTo ==
  ASSUME NEW n \in Nat, NEW S, 0 \in S, \A m \in 1 .. n : m - 1 \in S => m \in S
  PROVE  0 .. n \subseteq S
<1> SUFFICES ASSUME ~(0 .. n \subseteq S) PROVE FALSE
  OBVIOUS
<1> DEFINE Bad == {m \in 0 .. n : m \notin S}
<1>1. PICK m \in Bad : \A k \in Bad : m <= k
  <2>1. Bad \in SUBSET Nat /\ Bad # {}
    OBVIOUS
  <2> QED
    BY <2>1, LeastOf
<1>2. m \in 1 .. n /\ m - 1 \in 0 .. n /\ m - 1 \notin Bad
  BY <1>1
<1> QED
  BY <1>1, <1>2

\* The recursive function of a fold over a sequence of n elements takes the last one
\* first; f has the operation and the elements.
IsFold(g, f, base, n) ==
  g = [s \in SUBSET (1 .. n) |-> IF s = {} THEN base ELSE f[<<g[s \ {Max(s)}], Max(s)>>]]

LEMMA MaxUpTo ==
  ASSUME NEW m \in Nat, NEW s \in SUBSET (1 .. m + 1), m + 1 \in s
  PROVE  Max(s) = m + 1 /\ s \ {Max(s)} \in SUBSET (1 .. m)
<1>1. \A x \in s : (\A y \in s : x >= y) <=> x = m + 1
  OBVIOUS
<1>2. Max(s) = m + 1
  BY <1>1 DEF Max
<1> QED
  BY <1>2

LEMMA FoldExists ==
  ASSUME NEW A, NEW n \in Nat, NEW base \in A, NEW f \in [A \X (1 .. n) -> A]
  PROVE  \E g \in [SUBSET (1 .. n) -> A] : IsFold(g, f, base, n)
<1> DEFINE Has(m) == \E g \in [SUBSET (1 .. m) -> A] : IsFold(g, f, base, m)
           Good == {m \in 0 .. n : Has(m)}
<1>1. 0 \in Good
  <2> DEFINE g == [s \in SUBSET (1 .. 0) |-> base]
  <2>1. \A s \in SUBSET (1 .. 0) : s = {}
    OBVIOUS
  <2>2. g \in [SUBSET (1 .. 0) -> A] /\ IsFold(g, f, base, 0)
    BY <2>1 DEF IsFold
  <2> HIDE DEF g
  <2>3. Has(0)
    BY <2>2
  <2> HIDE DEF Has
  <2> QED
    BY <2>3
<1>2. ASSUME NEW m \in 1 .. n, m - 1 \in Good PROVE m \in Good
  <2> DEFINE k == m - 1
  <2> HIDE DEF Has
  <2>k. k \in Nat /\ k + 1 = m /\ k < n /\ Has(k)
    BY <1>2
  <2> HIDE DEF k
  <2>1. PICK h \in [SUBSET (1 .. k) -> A] : IsFold(h, f, base, k)
    BY <2>k DEF Has
  <2> DEFINE g == [s \in SUBSET (1 .. k + 1) |->
                     IF m \in s THEN f[<<h[s \ {m}], m>>] ELSE h[s]]
  <2>2. \A s \in SUBSET (1 .. k + 1) :
          /\ m \in s => s \ {m} \in SUBSET (1 .. k) /\ Max(s) = m
          /\ m \notin s => s \in SUBSET (1 .. k)
    BY <2>k, MaxUpTo
  <2>3. \A s \in SUBSET (1 .. k) : s \in SUBSET (1 .. k + 1) /\ m \notin s
    BY <2>k
  <2>4. \A s \in SUBSET (1 .. k) : h[s] \in A /\ g[s] = h[s]
    BY <2>3
  <2>5. g \in [SUBSET (1 .. k + 1) -> A]
    BY <2>2, <2>4, <2>k
  <2>6. ASSUME NEW s \in SUBSET (1 .. k + 1)
        PROVE  g[s] = IF s = {} THEN base ELSE f[<<g[s \ {Max(s)}], Max(s)>>]
    <3>1. CASE m \in s
      <4>1. g[s] = f[<<h[s \ {m}], m>>] /\ Max(s) = m /\ g[s \ {m}] = h[s \ {m}]
        BY <2>2, <2>4, <3>1
      <4> QED
        BY <3>1, <4>1
    <3>2. CASE m \notin s
      <4>1. s \in SUBSET (1 .. k) /\ s \ {Max(s)} \in SUBSET (1 .. k)
        BY <2>2, <3>2
      <4>2. h[s] = IF s = {} THEN base ELSE f[<<h[s \ {Max(s)}], Max(s)>>]
        BY <2>1, <4>1 DEF IsFold
      <4> QED
        BY <2>4, <4>1, <4>2
    <3> QED
      BY <3>1, <3>2
  <2>7. IsFold(g, f, base, k + 1)
    <3>1. g = [s \in SUBSET (1 .. k + 1) |-> g[s]]
      OBVIOUS
    <3> HIDE DEF g
    <3> QED
      BY <2>5, <2>6, <3>1 DEF IsFold
  <2> HIDE DEF g
  <2>8. Has(k + 1)
    BY <2>5, <2>7 DEF Has
  <2> QED
    BY <2>8, <2>k
<1>3. 0 .. n \subseteq Good
  <2> HIDE DEF Good
  <2> QED
    BY <1>1, <1>2, UpTo
<1> HIDE DEF Has
<1>4. Has(n)
  BY <1>3
<1> QED
  BY <1>4 DEF Has

LEMMA MaxOfUpTo ==
  ASSUME NEW n \in Nat, NEW m \in 1 .. n
  PROVE  /\ 1 .. m \in SUBSET (1 .. n) /\ 1 .. m # {}
         /\ Max(1 .. m) = m /\ (1 .. m) \ {m} = 1 .. m - 1
<1>1. m - 1 \in Nat /\ (m - 1) + 1 = m
  OBVIOUS
<1>2. Max(1 .. m) = m
  BY <1>1, MaxUpTo
<1> QED
  BY <1>2

\* The greatest of a finite set of numbers is in it.
LEMMA MaxIn ==
  ASSUME NEW n \in Nat, NEW s \in SUBSET (1 .. n), s # {}
  PROVE  Max(s) \in s
<1> DEFINE Above == {n - x : x \in s}
<1>1. Above \in SUBSET Nat /\ Above # {}
  <2>1. \A x \in s : x \in Nat /\ x <= n /\ n - x \in Nat
    OBVIOUS
  <2> QED
    BY <2>1
<1>2. PICK a \in Above : \A b \in Above : a <= b
  BY <1>1, LeastOf
<1>3. PICK x \in s : a = n - x
  BY <1>2
<1>4. ASSUME NEW y \in s PROVE x >= y
  <2>1. n - y \in Above
    OBVIOUS
  <2>2. x \in Nat /\ y \in Nat /\ n \in Nat
    BY <1>3
  <2> HIDE DEF Above
  <2>3. n - x <= n - y
    BY <1>2, <1>3, <2>1
  <2> QED
    BY <2>2, <2>3
<1> QED
  BY <1>4 DEF Max

-----------------------------------------------------------------------------
(* What the cut computes.                                                  *)

FactsTyped == job.facts \in Seq({1, 2})

\* The bytes of a prompt are a number.
LEMMA BytesAreNat ==
  ASSUME FactsTyped, NEW batch \in Seq(DOMAIN job.facts), NEW total
  PROVE  Bytes(batch, total) \in Nat
<1> DEFINE n == Len(batch)
           Size(i) == job.facts[batch[i]]
           Sum(g) == g = [s \in SUBSET DOMAIN batch |->
                            IF s = {} THEN 0 ELSE g[s \ {Max(s)}] + Size(Max(s))]
           sum == CHOOSE g : Sum(g)
<1>1. n \in Nat /\ DOMAIN batch = 1 .. n /\ \A i \in 1 .. n : Size(i) \in Nat
  <2>1. n \in Nat /\ DOMAIN batch = 1 .. n /\ \A i \in 1 .. n : batch[i] \in DOMAIN job.facts
    OBVIOUS
  <2>2. \A j \in DOMAIN job.facts : job.facts[j] \in Nat
    BY DEF FactsTyped
  <2> QED
    BY <2>1, <2>2
<1> HIDE DEF n, Size
<1>2. \E g : Sum(g)
  <2> DEFINE f == [x \in Nat \X (1 .. n) |-> x[1] + Size(x[2])]
  <2>1. f \in [Nat \X (1 .. n) -> Nat]
    BY <1>1
  <2>2. \A a \in Nat, i \in 1 .. n : f[<<a, i>>] = a + Size(i)
    OBVIOUS
  <2> HIDE DEF f
  <2>3. PICK g \in [SUBSET (1 .. n) -> Nat] : IsFold(g, f, 0, n)
    BY <1>1, <2>1, FoldExists
  <2>4. ASSUME NEW s \in SUBSET (1 .. n), s # {}
        PROVE  Max(s) \in 1 .. n /\ s \ {Max(s)} \in SUBSET (1 .. n)
    BY <1>1, <2>4, MaxIn
  <2>5. ASSUME NEW s \in SUBSET (1 .. n)
        PROVE  g[s] = IF s = {} THEN 0 ELSE g[s \ {Max(s)}] + Size(Max(s))
    BY <2>2, <2>3, <2>4, <2>5 DEF IsFold
  <2>6. g = [s \in SUBSET (1 .. n) |-> g[s]]
    OBVIOUS
  <2>7. Sum(g)
    BY <1>1, <2>5, <2>6
  <2> QED
    BY <2>7
<1>3. Sum(sum)
  <2> HIDE DEF Sum
  <2> QED
    BY <1>2
<1> HIDE DEF sum
<1>4. /\ sum[{}] = 0
      /\ \A m \in 1 .. n : sum[1 .. m] = sum[1 .. m - 1] + Size(m)
  <2>1. \A s \in SUBSET (1 .. n) :
          sum[s] = IF s = {} THEN 0 ELSE sum[s \ {Max(s)}] + Size(Max(s))
    BY <1>1, <1>3
  <2> HIDE DEF Sum
  <2>2. sum[{}] = 0
    BY <2>1
  <2>3. ASSUME NEW m \in 1 .. n PROVE sum[1 .. m] = sum[1 .. m - 1] + Size(m)
    BY <1>1, <2>1, <2>3, MaxOfUpTo
  <2> QED
    BY <2>2, <2>3
<1> HIDE DEF Sum
<1> DEFINE Good == {m \in 0 .. n : sum[1 .. m] \in Nat}
<1>5. 0 \in Good
  BY <1>1, <1>4
<1>6. \A m \in 1 .. n : m - 1 \in Good => m \in Good
  BY <1>1, <1>4
<1>7. sum[1 .. n] \in Nat
  <2> HIDE DEF Good
  <2>1. 0 .. n \subseteq Good
    BY <1>1, <1>5, <1>6, UpTo
  <2> QED
    BY <1>1, <2>1 DEF Good
<1>8. Bytes(batch, total) = sum[DOMAIN batch] + (IF total > Placeholder THEN 1 ELSE 0)
  BY DEF Bytes, FoldLeft, MapThenFoldSet, sum, Sum, Size
<1> QED
  BY <1>1, <1>7, <1>8

-----------------------------------------------------------------------------
(* What the cuts compute.                                                  *)

\* bs has the first n comments, in order: batch b those from c[b - 1] + 1 to c[b].
CutInto(bs, c, n) ==
  /\ bs \in Seq(Seq(Nat)) /\ bs # <<>>
  /\ c \in [0 .. Len(bs) -> 0 .. n] /\ c[0] = 0 /\ c[Len(bs)] = n
  /\ n = 0 => Len(bs) = 1
  /\ \A b \in 1 .. Len(bs) :
       /\ c[b - 1] <= c[b] /\ (n > 0 => c[b - 1] < c[b])
       /\ Len(bs[b]) = c[b] - c[b - 1]
       /\ \A k \in 1 .. Len(bs[b]) : bs[b][k] = c[b - 1] + k

IsCut(bs, n) == \E c : CutInto(bs, c, n)

\* One more comment.
LEMMA AddFactCuts ==
  ASSUME NEW n \in Nat, NEW bs, NEW c, CutInto(bs, c, n)
  PROVE  IsCut(AddFact(bs, n + 1), n + 1)
<1> DEFINE l == Len(bs)
           open == Append(bs[l], n + 1)
<1>1. l \in Nat \ {0} /\ DOMAIN bs = 1 .. l /\ bs[l] \in Seq(Nat) /\ bs \in Seq(Seq(Nat))
  BY DEF CutInto
<1>2. /\ \A b \in 0 .. l : c[b] \in 0 .. n
      /\ c \in [0 .. l -> 0 .. n] /\ c[0] = 0 /\ c[l] = n
  BY DEF CutInto
<1>3. \A b \in 1 .. l :
        /\ c[b - 1] <= c[b] /\ (n > 0 => c[b - 1] < c[b])
        /\ Len(bs[b]) = c[b] - c[b - 1]
        /\ \A k \in 1 .. Len(bs[b]) : bs[b][k] = c[b - 1] + k
  BY DEF CutInto
<1>4. n = 0 => l = 1
  BY DEF CutInto
<1>0. l \in Nat \ {0}
  BY <1>1
<1> HIDE DEF l
<1>5. CASE bs[l] # <<>> /\ AddFact(bs, n + 1) = Append(bs, <<n + 1>>)
  <2> DEFINE new == Append(bs, <<n + 1>>)
             d == [b \in 0 .. l + 1 |-> IF b <= l THEN c[b] ELSE n + 1]
  <2>1. /\ new \in Seq(Seq(Nat)) /\ new # <<>> /\ Len(new) = l + 1
        /\ \A b \in 1 .. l : new[b] = bs[b]
        /\ new[l + 1] = <<n + 1>>
    <3> DEFINE one == <<n + 1>>
               Batch == Seq(Nat)
    <3>1. one \in Batch /\ bs \in Seq(Batch)
      BY <1>1
    <3> HIDE DEF one, Batch
    <3>2. /\ Append(bs, one) \in Seq(Batch) /\ Append(bs, one) # <<>>
          /\ Len(Append(bs, one)) = Len(bs) + 1
          /\ \A b \in 1 .. Len(bs) : Append(bs, one)[b] = bs[b]
          /\ Append(bs, one)[Len(bs) + 1] = one
      BY <3>1, AppendProperties
    <3> QED
      BY <3>2 DEF one, Batch, l
  <2>2. n > 0
    <3>1. Len(bs[l]) > 0
      BY <1>1, <1>5
    <3>2. c[l - 1] \in Nat /\ l \in 1 .. l /\ l - 1 \in 0 .. l
      BY <1>1, <1>2
    <3> QED
      BY <1>2, <1>3, <3>1, <3>2
  <2>3. /\ d \in [0 .. l + 1 -> 0 .. n + 1] /\ d[0] = 0 /\ d[l + 1] = n + 1
        /\ \A b \in 0 .. l : d[b] = c[b]
    BY <1>1, <1>2
  <2> HIDE DEF new, d
  <2>4. ASSUME NEW b \in 1 .. l + 1
        PROVE  /\ d[b - 1] < d[b] /\ Len(new[b]) = d[b] - d[b - 1]
               /\ \A k \in 1 .. Len(new[b]) : new[b][k] = d[b - 1] + k
    <3>1. CASE b \in 1 .. l
      <4>1. b - 1 \in 0 .. l /\ b \in 0 .. l
        BY <1>1, <3>1
      <4>2. d[b - 1] = c[b - 1] /\ d[b] = c[b] /\ new[b] = bs[b]
        BY <2>1, <2>3, <3>1, <4>1
      <4> QED
        BY <1>3, <2>2, <3>1, <4>2
    <3>2. CASE b = l + 1
      <4>1. d[b - 1] = n /\ d[b] = n + 1 /\ new[b] = <<n + 1>>
        BY <1>1, <1>2, <2>1, <2>3, <3>2
      <4> QED
        BY <4>1
    <3> QED
      BY <1>1, <3>1, <3>2
  <2>5. \A b \in 1 .. l + 1 : d[b - 1] <= d[b]
    <3>1. \A b \in 1 .. l + 1 : d[b - 1] \in Int /\ d[b] \in Int
      BY <1>0, <2>3
    <3> QED
      BY <2>4, <3>1
  <2>6. n + 1 # 0
    OBVIOUS
  <2>7. CutInto(new, d, n + 1)
    BY <2>1, <2>3, <2>4, <2>5, <2>6 DEF CutInto, l
  <2> QED
    BY <1>5, <2>7 DEF IsCut, new, l
<1>6. CASE AddFact(bs, n + 1) = [bs EXCEPT ![l] = open]
  <2> DEFINE new == [bs EXCEPT ![l] = open]
             d == [c EXCEPT ![l] = n + 1]
  <2>1. /\ open \in Seq(Nat) /\ Len(open) = Len(bs[l]) + 1
        /\ \A k \in 1 .. Len(bs[l]) : open[k] = bs[l][k]
        /\ open[Len(bs[l]) + 1] = n + 1
    BY <1>1, AppendProperties
  <2> HIDE DEF open
  <2>2. /\ new \in Seq(Seq(Nat)) /\ new # <<>> /\ Len(new) = l
        /\ \A b \in 1 .. l : new[b] = IF b = l THEN open ELSE bs[b]
    BY <1>1, <2>1, ExceptSeq
  <2>3. /\ d \in [0 .. l -> 0 .. n + 1] /\ d[0] = 0 /\ d[l] = n + 1
        /\ \A b \in 0 .. l : b # l => d[b] = c[b]
    <3>1. l \in 0 .. l /\ 0 \in 0 .. l /\ l # 0
      BY <1>1
    <3>2. c \in [0 .. l -> 0 .. n + 1] /\ n + 1 \in 0 .. n + 1
      BY <1>2
    <3> QED
      BY <1>2, <3>1, <3>2
  <2> HIDE DEF new, d
  <2>4. ASSUME NEW b \in 1 .. l
        PROVE  /\ d[b - 1] < d[b] /\ Len(new[b]) = d[b] - d[b - 1]
               /\ \A k \in 1 .. Len(new[b]) : new[b][k] = d[b - 1] + k
    <3>1. b - 1 \in 0 .. l /\ b - 1 # l /\ c[b - 1] \in 0 .. n /\ c[b] \in 0 .. n
      BY <1>1, <1>2
    <3>2. CASE b # l
      <4>1. n > 0
        <5>1. l # 1
          BY <1>0, <3>2
        <5> QED
          BY <1>4, <5>1
      <4>2. d[b] = c[b] /\ d[b - 1] = c[b - 1] /\ new[b] = bs[b]
        BY <2>2, <2>3, <3>1, <3>2
      <4> QED
        BY <1>3, <4>1, <4>2
    <3>3. CASE b = l
      <4>1. /\ d[b] = n + 1 /\ d[b - 1] = c[b - 1] /\ new[b] = open
            /\ Len(bs[b]) = n - c[b - 1]
        BY <1>2, <1>3, <2>2, <2>3, <3>1, <3>3
      <4>2. Len(new[b]) = d[b] - d[b - 1] /\ d[b - 1] < d[b]
        BY <2>1, <3>1, <3>3, <4>1
      <4>3. ASSUME NEW k \in 1 .. Len(new[b]) PROVE new[b][k] = d[b - 1] + k
        <5>1. k \in 1 .. Len(bs[b]) \/ k = Len(bs[b]) + 1
          BY <2>1, <3>1, <3>3, <4>1
        <5>2. k \in 1 .. Len(bs[b]) => bs[b][k] = c[b - 1] + k
          BY <1>3
        <5> QED
          BY <2>1, <3>1, <3>3, <4>1, <5>1, <5>2
      <4> QED
        BY <4>2, <4>3
    <3> QED
      BY <3>2, <3>3
  <2>5. \A b \in 1 .. l : d[b - 1] <= d[b]
    <3>1. \A b \in 1 .. l : d[b - 1] \in Int /\ d[b] \in Int
      BY <1>0, <2>3
    <3> QED
      BY <2>4, <3>1
  <2>6. n + 1 # 0
    OBVIOUS
  <2>7. CutInto(new, d, n + 1)
    BY <2>2, <2>3, <2>4, <2>5, <2>6 DEF CutInto, l
  <2> QED
    BY <1>6, <2>7 DEF IsCut, new, l
<1> QED
  BY <1>5, <1>6 DEF AddFact, Last, l

LEMMA AddFactIn ==
  ASSUME NEW bs \in Seq(Seq(Nat)) \ {<<>>}, NEW i \in Nat
  PROVE  AddFact(bs, i) \in Seq(Seq(Nat)) \ {<<>>}
<1> DEFINE Batch == Seq(Nat)
           one == <<i>>
           open == Append(bs[Len(bs)], i)
<1>1. Len(bs) \in 1 .. Len(bs) /\ bs[Len(bs)] \in Batch
  OBVIOUS
<1>2. one \in Batch /\ open \in Batch /\ bs \in Seq(Batch) /\ bs # <<>>
  BY <1>1
<1>3. AddFact(bs, i) \in {Append(bs, one), [bs EXCEPT ![Len(bs)] = open]}
  BY DEF AddFact, Last
<1> HIDE DEF one, open, Batch
<1>4. Append(bs, one) \in Seq(Batch) /\ Append(bs, one) # <<>>
  BY <1>2, AppendProperties
<1>5. /\ [bs EXCEPT ![Len(bs)] = open] \in Seq(Batch)
      /\ Len([bs EXCEPT ![Len(bs)] = open]) = Len(bs)
  BY <1>1, <1>2, ExceptSeq
<1>6. [bs EXCEPT ![Len(bs)] = open] # <<>>
  BY <1>1, <1>5
<1> QED
  BY <1>3, <1>4, <1>5, <1>6 DEF Batch

\* _batch_items_by_prompt_budget, its loop: all comments, one after the other.
LEMMA FirstCutCuts ==
  ASSUME FactsTyped
  PROVE  IsCut(FirstCut, Len(job.facts))
<1> DEFINE n == Len(job.facts)
           All == Seq(Seq(Nat)) \ {<<>>}
           numbers == [i \in DOMAIN job.facts |-> i]
           Cut(g) == g = [s \in SUBSET DOMAIN numbers |->
                            IF s = {} THEN << <<>> >>
                            ELSE AddFact(g[s \ {Max(s)}], numbers[Max(s)])]
           cut == CHOOSE g : Cut(g)
<1>1. n \in Nat /\ DOMAIN numbers = 1 .. n /\ \A i \in 1 .. n : numbers[i] = i
  BY DEF FactsTyped
<1>2. << <<>> >> \in All
  OBVIOUS
<1>a. \A bs \in All, i \in Nat : AddFact(bs, i) \in All
  BY AddFactIn
<1> HIDE DEF n, numbers, All
<1>3. \E g : Cut(g)
  <2> DEFINE f == [x \in All \X (1 .. n) |-> AddFact(x[1], x[2])]
  <2>1. f \in [All \X (1 .. n) -> All]
    BY <1>1, <1>a
  <2>2. \A bs \in All, i \in 1 .. n : f[<<bs, i>>] = AddFact(bs, i)
    OBVIOUS
  <2> HIDE DEF f
  <2>3. PICK g \in [SUBSET (1 .. n) -> All] : IsFold(g, f, << <<>> >>, n)
    BY <1>1, <1>2, <2>1, FoldExists
  <2>4. ASSUME NEW s \in SUBSET (1 .. n), s # {}
        PROVE  Max(s) \in 1 .. n /\ s \ {Max(s)} \in SUBSET (1 .. n)
    BY <1>1, <2>4, MaxIn
  <2>5. ASSUME NEW s \in SUBSET (1 .. n)
        PROVE  g[s] = IF s = {} THEN << <<>> >>
                      ELSE AddFact(g[s \ {Max(s)}], numbers[Max(s)])
    <3>1. CASE s = {}
      BY <2>3, <3>1 DEF IsFold
    <3>2. CASE s # {}
      <4>1. g[s] = f[<<g[s \ {Max(s)}], Max(s)>>]
        BY <2>3, <3>2 DEF IsFold
      <4>2. g[s \ {Max(s)}] \in All /\ Max(s) \in 1 .. n /\ numbers[Max(s)] = Max(s)
        BY <1>1, <2>4, <3>2
      <4> QED
        BY <2>2, <3>2, <4>1, <4>2
    <3> QED
      BY <3>1, <3>2
  <2>6. g = [s \in SUBSET (1 .. n) |-> g[s]]
    OBVIOUS
  <2>7. Cut(g)
    BY <1>1, <2>5, <2>6
  <2> QED
    BY <2>7
<1>4. Cut(cut)
  <2> HIDE DEF Cut
  <2> QED
    BY <1>3
<1> HIDE DEF cut
<1>5. /\ cut[{}] = << <<>> >>
      /\ \A m \in 1 .. n : cut[1 .. m] = AddFact(cut[1 .. m - 1], m)
  <2>1. \A s \in SUBSET (1 .. n) :
          cut[s] = IF s = {} THEN << <<>> >>
                   ELSE AddFact(cut[s \ {Max(s)}], numbers[Max(s)])
    BY <1>1, <1>4
  <2> HIDE DEF Cut
  <2>2. cut[{}] = << <<>> >>
    BY <2>1
  <2>3. ASSUME NEW m \in 1 .. n PROVE cut[1 .. m] = AddFact(cut[1 .. m - 1], m)
    <3>1. /\ 1 .. m \in SUBSET (1 .. n) /\ 1 .. m # {}
          /\ Max(1 .. m) = m /\ (1 .. m) \ {m} = 1 .. m - 1
      BY <1>1, MaxOfUpTo
    <3>2. cut[1 .. m] = AddFact(cut[(1 .. m) \ {Max(1 .. m)}], numbers[Max(1 .. m)])
      BY <2>1, <3>1
    <3> QED
      BY <1>1, <3>1, <3>2
  <2> QED
    BY <2>2, <2>3
<1> HIDE DEF Cut
<1> DEFINE Good == {m \in 0 .. n : IsCut(cut[1 .. m], m)}
<1>6. 0 \in Good
  <2>1. 1 .. 0 = {}
    OBVIOUS
  <2>2. CutInto(<< <<>> >>, [b \in 0 .. 1 |-> 0], 0)
    BY DEF CutInto
  <2> QED
    BY <1>1, <1>5, <2>1, <2>2 DEF IsCut
<1>7. \A m \in 1 .. n : m - 1 \in Good => m \in Good
  <2> TAKE m \in 1 .. n
  <2> HAVE m - 1 \in Good
  <2>1. m - 1 \in Nat /\ (m - 1) + 1 = m
    BY <1>1
  <2>2. PICK c : CutInto(cut[1 .. m - 1], c, m - 1)
    BY DEF IsCut
  <2>3. IsCut(AddFact(cut[1 .. m - 1], (m - 1) + 1), (m - 1) + 1)
    BY <2>1, <2>2, AddFactCuts
  <2> QED
    BY <1>1, <1>5, <2>1, <2>3
<1>8. IsCut(cut[1 .. n], n)
  <2> HIDE DEF Good
  <2>1. 0 .. n \subseteq Good
    BY <1>1, <1>6, <1>7, UpTo
  <2> QED
    BY <1>1, <2>1 DEF Good
<1>9. FirstCut = cut[DOMAIN numbers]
  BY DEF FirstCut, FoldLeft, MapThenFoldSet, cut, Cut, numbers
<1> QED
  BY <1>1, <1>8, <1>9 DEF n

\* Two elements in the place of one.
LEMMA TwoForOne ==
  ASSUME NEW S, NEW l \in Nat, NEW s \in Seq(S), Len(s) = l, NEW b \in 1 .. l,
         NEW x \in S, NEW y \in S,
         NEW t, t = SubSeq(s, 1, b - 1) \o <<x, y>> \o SubSeq(s, b + 1, l)
  PROVE  /\ t \in Seq(S) /\ Len(t) = l + 1
         /\ t[b] = x /\ t[b + 1] = y
         /\ \A i \in 1 .. b - 1 : t[i] = s[i]
         /\ \A i \in b + 2 .. l + 1 : t[i] = s[i - 1]
<1> DEFINE two == <<x, y>>
           before == SubSeq(s, 1, b - 1)
           after == SubSeq(s, b + 1, l)
           head == before \o two
<1>1. /\ before \in Seq(S) /\ Len(before) = b - 1
      /\ \A i \in 1 .. b - 1 : before[i] = s[i]
  <2>1. \A i \in 1 .. b - 1 : s[i] \in S
    OBVIOUS
  <2>2. /\ before \in Seq(S)
        /\ Len(before) = IF 1 <= b - 1 THEN b - 1 - 1 + 1 ELSE 0
        /\ \A i \in 1 .. b - 1 - 1 + 1 : before[i] = s[1 + i - 1]
    BY <2>1, SubSeqProperties
  <2> HIDE DEF before
  <2>3. /\ b - 1 - 1 + 1 = b - 1 /\ (IF 1 <= b - 1 THEN b - 1 ELSE 0) = b - 1
        /\ \A i \in 1 .. b - 1 : 1 + i - 1 = i
    OBVIOUS
  <2> QED
    BY <2>2, <2>3
<1>2. /\ after \in Seq(S) /\ Len(after) = l - b
      /\ \A i \in 1 .. l - b : after[i] = s[b + i]
  <2>1. \A i \in b + 1 .. l : s[i] \in S
    OBVIOUS
  <2>2. /\ after \in Seq(S)
        /\ Len(after) = IF b + 1 <= l THEN l - (b + 1) + 1 ELSE 0
        /\ \A i \in 1 .. l - (b + 1) + 1 : after[i] = s[b + 1 + i - 1]
    BY <2>1, SubSeqProperties
  <2> HIDE DEF after
  <2>3. /\ l - (b + 1) + 1 = l - b /\ (IF b + 1 <= l THEN l - b ELSE 0) = l - b
        /\ \A i \in 1 .. l - b : b + 1 + i - 1 = b + i
    OBVIOUS
  <2> QED
    BY <2>2, <2>3
<1>3. two \in Seq(S) /\ Len(two) = 2 /\ two[1] = x /\ two[2] = y
  OBVIOUS
<1>4. t = head \o after
  OBVIOUS
<1> HIDE DEF before, after, two
<1>5. /\ head \in Seq(S) /\ Len(head) = b + 1
      /\ \A i \in 1 .. b - 1 : head[i] = before[i]
      /\ head[b] = two[1] /\ head[b + 1] = two[2]
  <2>1. /\ head \in Seq(S) /\ Len(head) = Len(before) + Len(two)
        /\ \A i \in 1 .. Len(before) + Len(two) :
             head[i] = IF i <= Len(before) THEN before[i] ELSE two[i - Len(before)]
    BY <1>1, <1>3, ConcatProperties
  <2> HIDE DEF head
  <2>2. Len(before) = b - 1 /\ Len(before) + Len(two) = b + 1
    BY <1>1, <1>3
  <2>3. /\ b - (b - 1) = 1 /\ (b + 1) - (b - 1) = 2 /\ ~(b <= b - 1) /\ ~(b + 1 <= b - 1)
        /\ b \in 1 .. b + 1 /\ b + 1 \in 1 .. b + 1
        /\ \A i \in 1 .. b - 1 : i \in 1 .. b + 1 /\ i <= b - 1
    OBVIOUS
  <2> QED
    BY <2>1, <2>2, <2>3
<1> HIDE DEF head
<1>6. /\ t \in Seq(S) /\ Len(t) = l + 1
      /\ \A i \in 1 .. b + 1 : t[i] = head[i]
      /\ \A i \in b + 2 .. l + 1 : t[i] = after[i - (b + 1)]
  <2> DEFINE u == head \o after
  <2>0. /\ u \in Seq(S) /\ Len(u) = Len(head) + Len(after)
        /\ \A i \in 1 .. Len(head) + Len(after) :
             u[i] = IF i <= Len(head) THEN head[i] ELSE after[i - Len(head)]
    BY <1>2, <1>5, ConcatProperties
  <2>u. t = u
    BY <1>4
  <2> HIDE DEF u
  <2>1. /\ t \in Seq(S) /\ Len(t) = Len(head) + Len(after)
        /\ \A i \in 1 .. Len(head) + Len(after) :
             t[i] = IF i <= Len(head) THEN head[i] ELSE after[i - Len(head)]
    BY <2>0, <2>u
  <2>2. Len(head) = b + 1 /\ Len(head) + Len(after) = l + 1
    BY <1>2, <1>5
  <2>3. /\ \A i \in 1 .. b + 1 : i \in 1 .. l + 1 /\ i <= b + 1
        /\ \A i \in b + 2 .. l + 1 : i \in 1 .. l + 1 /\ ~(i <= b + 1)
    OBVIOUS
  <2> QED
    BY <2>1, <2>2, <2>3
<1>7. \A i \in b + 2 .. l + 1 : t[i] = s[i - 1]
  <2>1. \A i \in b + 2 .. l + 1 : i - (b + 1) \in 1 .. l - b /\ b + (i - (b + 1)) = i - 1
    OBVIOUS
  <2> QED
    BY <1>2, <1>6, <2>1
<1>8. /\ b \in 1 .. b + 1 /\ b + 1 \in 1 .. b + 1
      /\ \A i \in 1 .. b - 1 : i \in 1 .. b + 1
  OBVIOUS
<1> QED
  BY <1>1, <1>3, <1>5, <1>6, <1>7, <1>8

\* Where l batches of n comments end; d has one end more than c, in batch b.
Ends(c, l, n) ==
  /\ c \in [0 .. l -> 0 .. n] /\ c[0] = 0 /\ c[l] = n
  /\ \A i \in 1 .. l : c[i - 1] < c[i]

OneMoreEnd(d, c, l, n, b, m) ==
  /\ d \in [0 .. l + 1 -> 0 .. n] /\ d[0] = 0 /\ d[l + 1] = n
  /\ d[b - 1] = c[b - 1] /\ d[b] = c[b - 1] + m /\ d[b + 1] = c[b]
  /\ \A i \in 1 .. b - 1 : d[i - 1] = c[i - 1] /\ d[i] = c[i]
  /\ \A i \in b + 2 .. l + 1 : d[i - 1] = c[i - 2] /\ d[i] = c[i - 1]

LEMMA OneMoreCut ==
  ASSUME NEW n \in Nat, NEW l \in Nat, NEW c, Ends(c, l, n),
         NEW b \in 1 .. l, NEW m \in 0 .. n, m > 0, m < c[b] - c[b - 1]
  PROVE  \E d : OneMoreEnd(d, c, l, n, b, m)
<1>0. c \in [0 .. l -> 0 .. n] /\ c[0] = 0 /\ c[l] = n
  BY DEF Ends
<1> DEFINE d == [i \in 0 .. l + 1 |-> IF i < b THEN c[i]
                                      ELSE IF i = b THEN c[b - 1] + m ELSE c[i - 1]]
<1>1. b - 1 \in 0 .. l /\ b \in 0 .. l
  OBVIOUS
<1>2. c[b - 1] \in 0 .. n /\ c[b] \in 0 .. n
  BY <1>0, <1>1
<1>3. c[b - 1] + m \in 0 .. n
  BY <1>2
<1>4. \A i \in 0 .. l + 1 : /\ i < b => i \in 0 .. l
                            /\ ~(i < b) /\ i # b => i - 1 \in 0 .. l
  OBVIOUS
<1>5. \A i \in 0 .. l : c[i] \in 0 .. n
  BY <1>0
<1>6. d \in [0 .. l + 1 -> 0 .. n]
  BY <1>3, <1>4, <1>5
<1>7. /\ \A i \in 0 .. b - 1 : d[i] = c[i]
      /\ d[b] = c[b - 1] + m
      /\ \A i \in b + 1 .. l + 1 : d[i] = c[i - 1]
  <2>1. /\ \A i \in 0 .. b - 1 : i \in 0 .. l + 1 /\ i < b
        /\ b \in 0 .. l + 1 /\ ~(b < b)
        /\ \A i \in b + 1 .. l + 1 : i \in 0 .. l + 1 /\ ~(i < b) /\ i # b
    OBVIOUS
  <2> QED
    BY <2>1
<1> HIDE DEF d
<1>8. d[0] = 0 /\ d[b - 1] = c[b - 1]
  <2>1. 0 \in 0 .. b - 1 /\ b - 1 \in 0 .. b - 1
    OBVIOUS
  <2> QED
    BY <1>0, <1>7, <2>1
<1>9. d[l + 1] = n /\ d[b + 1] = c[b]
  <2>1. /\ l + 1 \in b + 1 .. l + 1 /\ b + 1 \in b + 1 .. l + 1
        /\ (l + 1) - 1 = l /\ (b + 1) - 1 = b
    OBVIOUS
  <2> QED
    BY <1>0, <1>7, <2>1
<1>10. \A i \in 1 .. b - 1 : d[i - 1] = c[i - 1] /\ d[i] = c[i]
  <2>1. \A i \in 1 .. b - 1 : i \in 0 .. b - 1 /\ i - 1 \in 0 .. b - 1
    OBVIOUS
  <2> QED
    BY <1>0, <1>7, <2>1
<1>11. \A i \in b + 2 .. l + 1 : d[i - 1] = c[i - 2] /\ d[i] = c[i - 1]
  <2>1. \A i \in b + 2 .. l + 1 : /\ i \in b + 1 .. l + 1 /\ i - 1 \in b + 1 .. l + 1
                                   /\ (i - 1) - 1 = i - 2
    OBVIOUS
  <2> QED
    BY <1>0, <1>7, <2>1
<1> QED
  BY <1>6, <1>7, <1>8, <1>9, <1>10, <1>11 DEF OneMoreEnd

\* _batch_items_by_prompt_budget, its second loop: a batch is cut in two.
LEMMA HalveCuts ==
  ASSUME NEW n \in Nat, NEW bs, NEW b
  PROVE  IsCut(bs, n) /\ b \in 1 .. Len(bs) /\ Len(bs[b]) > 1 => IsCut(Halve(bs, b), n)
<1>0. SUFFICES ASSUME IsCut(bs, n), b \in 1 .. Len(bs), Len(bs[b]) > 1
               PROVE  IsCut(Halve(bs, b), n)
  OBVIOUS
<1>1. PICK c : CutInto(bs, c, n)
  BY <1>0 DEF IsCut
<1> DEFINE l == Len(bs)
           Batch == Seq(Nat)
           open == bs[b]
           len == Len(open)
           mid == len \div 2
           left == SubSeq(open, 1, mid)
           right == SubSeq(open, mid + 1, len)
           new == Halve(bs, b)
<1>2. /\ bs \in Seq(Batch) /\ \A i \in 1 .. l : bs[i] \in Batch
      /\ l \in Nat /\ b \in 1 .. l /\ open \in Batch
  BY <1>0, <1>1 DEF CutInto
<1>3. /\ c \in [0 .. l -> 0 .. n] /\ c[0] = 0 /\ c[l] = n
      /\ \A i \in 1 .. l :
           /\ c[i - 1] <= c[i] /\ (n > 0 => c[i - 1] < c[i])
           /\ Len(bs[i]) = c[i] - c[i - 1]
           /\ \A k \in 1 .. Len(bs[i]) : bs[i][k] = c[i - 1] + k
  BY <1>1 DEF CutInto
<1>4. /\ len \in Nat /\ len > 1 /\ mid \in Nat /\ mid > 0 /\ mid < len
      /\ \A k \in 1 .. len : open[k] \in Nat
  <2> HIDE DEF open
  <2>0. open \in Seq(Nat)
    BY <1>2
  <2>1. len \in Nat /\ \A k \in 1 .. len : open[k] \in Nat
    BY <2>0
  <2>2. len > 1
    BY <1>0 DEF open
  <2> HIDE DEF len
  <2> QED
    BY <2>1, <2>2
<1>5. new = SubSeq(bs, 1, b - 1) \o <<left, right>> \o SubSeq(bs, b + 1, l)
  BY DEF Halve
<1>6. /\ len = c[b] - c[b - 1] /\ c[b - 1] \in Nat /\ c[b] \in 0 .. n
      /\ \A k \in 1 .. len : open[k] = c[b - 1] + k
  <2>0. /\ len = c[b] - c[b - 1] /\ \A k \in 1 .. len : open[k] = c[b - 1] + k
    BY <1>2, <1>3
  <2> HIDE DEF l, Batch
  <2>1. b - 1 \in 0 .. l /\ b \in 0 .. l
    BY <1>2
  <2>2. c[b - 1] \in 0 .. n /\ c[b] \in 0 .. n
    BY <1>3, <2>1
  <2> QED
    BY <2>0, <2>2
<1> HIDE DEF new, open
<1>7. n > 0 /\ \A i \in 1 .. l : c[i - 1] < c[i]
  BY <1>3, <1>4, <1>6
<1>8. /\ left \in Batch /\ Len(left) = mid
      /\ \A k \in 1 .. mid : left[k] = c[b - 1] + k
  <2> HIDE DEF len, mid, left
  <2>1. \A k \in 1 .. mid : open[k] \in Nat /\ k \in 1 .. len
    BY <1>4
  <2>2. 1 \in Int /\ mid \in Int /\ 1 <= mid
    BY <1>4
  <2>3. /\ left \in Seq(Nat) /\ Len(left) = mid - 1 + 1
        /\ \A k \in 1 .. mid - 1 + 1 : left[k] = open[1 + k - 1]
    BY <2>1, <2>2, SubSeqProperties DEF left
  <2>4. mid - 1 + 1 = mid /\ \A k \in 1 .. mid : 1 + k - 1 = k
    BY <2>2
  <2> QED
    BY <1>6, <2>1, <2>3, <2>4
<1>9. /\ right \in Batch /\ Len(right) = len - mid
      /\ \A k \in 1 .. len - mid : right[k] = c[b - 1] + mid + k
  <2> HIDE DEF len, mid, right
  <2>0. len \in Nat /\ mid \in Nat /\ mid > 0 /\ mid < len
    BY <1>4
  <2>1. \A k \in mid + 1 .. len : open[k] \in Nat
    BY <1>4
  <2>2. mid + 1 \in Int /\ len \in Int /\ mid + 1 <= len
    BY <1>4
  <2>3. /\ right \in Seq(Nat) /\ Len(right) = len - (mid + 1) + 1
        /\ \A k \in 1 .. len - (mid + 1) + 1 : right[k] = open[mid + 1 + k - 1]
    BY <2>1, <2>2, SubSeqProperties DEF right
  <2>4. /\ len - (mid + 1) + 1 = len - mid
        /\ \A k \in 1 .. len - mid : mid + 1 + k - 1 = mid + k /\ mid + k \in 1 .. len
    BY <2>0
  <2>5. \A k \in 1 .. len - mid : c[b - 1] + (mid + k) = c[b - 1] + mid + k
    BY <1>6, <2>0
  <2>6. \A k \in 1 .. len - mid : right[k] = open[mid + k] /\ mid + k \in 1 .. len
    BY <2>3, <2>4
  <2>7. \A k \in 1 .. len - mid : right[k] = c[b - 1] + mid + k
    BY <1>6, <2>5, <2>6
  <2>8. right \in Seq(Nat) /\ Len(right) = len - mid
    BY <2>3, <2>4
  <2> QED
    BY <2>7, <2>8
<1> HIDE DEF len, mid, left, right
<1>10. /\ new \in Seq(Batch) /\ Len(new) = l + 1
       /\ new[b] = left /\ new[b + 1] = right
       /\ \A i \in 1 .. b - 1 : new[i] = bs[i]
       /\ \A i \in b + 2 .. l + 1 : new[i] = bs[i - 1]
  <2> HIDE DEF Batch, l
  <2>1. Len(bs) = l
    BY DEF l
  <2> QED
    BY <1>2, <1>5, <1>8, <1>9, <2>1, TwoForOne
<1> HIDE DEF Batch, l
<1>a. \E d : OneMoreEnd(d, c, l, n, b, mid)
  <2>1. l \in Nat /\ b \in 1 .. l /\ Ends(c, l, n)
    BY <1>2, <1>3, <1>7 DEF Ends
  <2>2. mid \in 0 .. n /\ mid > 0 /\ mid < c[b] - c[b - 1]
    <3> DEFINE from == c[b - 1]
               to == c[b]
    <3>1. /\ len = to - from /\ from \in Nat /\ to \in 0 .. n
          /\ mid \in Nat /\ mid < len /\ mid > 0
      BY <1>4, <1>6
    <3> HIDE DEF from, to
    <3>2. mid \in 0 .. n /\ mid > 0 /\ mid < to - from
      BY <3>1
    <3> QED
      BY <3>2 DEF from, to
  <2> QED
    BY <2>1, <2>2, OneMoreCut
<1>11. PICK d : /\ d \in [0 .. l + 1 -> 0 .. n] /\ d[0] = 0 /\ d[l + 1] = n
                /\ d[b - 1] = c[b - 1] /\ d[b] = c[b - 1] + mid /\ d[b + 1] = c[b]
                /\ \A i \in 1 .. b - 1 : d[i - 1] = c[i - 1] /\ d[i] = c[i]
                /\ \A i \in b + 2 .. l + 1 : d[i - 1] = c[i - 2] /\ d[i] = c[i - 1]
  BY <1>a DEF OneMoreEnd
<1>12. ASSUME NEW i \in 1 .. l + 1
       PROVE  /\ d[i - 1] < d[i] /\ Len(new[i]) = d[i] - d[i - 1]
              /\ \A k \in 1 .. Len(new[i]) : new[i][k] = d[i - 1] + k
  <2>1. CASE i \in 1 .. b - 1
    <3>1. i \in 1 .. l
      BY <1>2, <2>1
    <3> QED
      BY <1>3, <1>7, <1>10, <1>11, <2>1, <3>1
  <2>2. CASE i = b
    <3>1. (c[b - 1] + mid) - c[b - 1] = mid /\ c[b - 1] < c[b - 1] + mid
      BY <1>4, <1>6
    <3> QED
      BY <1>8, <1>10, <1>11, <2>2, <3>1
  <2>3. CASE i = b + 1
    <3>0. (b + 1) - 1 = b
      BY <1>2
    <3>1. c[b] - (c[b - 1] + mid) = len - mid /\ c[b - 1] + mid < c[b]
      <4> DEFINE from == c[b - 1]
                 to == c[b]
      <4>1. len = to - from /\ from \in Nat /\ to \in Nat /\ mid \in Nat /\ mid < len
        BY <1>4, <1>6
      <4> HIDE DEF from, to
      <4>2. to - (from + mid) = len - mid /\ from + mid < to
        BY <4>1
      <4> QED
        BY <4>2 DEF from, to
    <3>2. new[i] = right /\ d[i] = c[b] /\ d[i - 1] = c[b - 1] + mid
      BY <1>10, <1>11, <2>3, <3>0
    <3> QED
      BY <1>9, <3>1, <3>2
  <2>4. CASE i \in b + 2 .. l + 1
    <3>1. i - 1 \in 1 .. l /\ (i - 1) - 1 = i - 2
      BY <1>2, <2>4
    <3>2. new[i] = bs[i - 1] /\ d[i] = c[i - 1] /\ d[i - 1] = c[(i - 1) - 1]
      BY <1>10, <1>11, <2>4, <3>1
    <3> QED
      BY <1>3, <1>7, <3>1, <3>2
  <2>5. i \in 1 .. b - 1 \/ i = b \/ i = b + 1 \/ i \in b + 2 .. l + 1
    BY <1>2
  <2> QED
    BY <2>1, <2>2, <2>3, <2>4, <2>5
<1>13. \A i \in 1 .. l + 1 : d[i - 1] <= d[i]
  <2>1. \A i \in 1 .. l + 1 : d[i - 1] \in Int /\ d[i] \in Int
    BY <1>2, <1>11
  <2> QED
    BY <1>12, <2>1
<1>14. new # <<>> /\ n # 0
  BY <1>2, <1>7, <1>10
<1>15. CutInto(new, d, n)
  BY <1>10, <1>11, <1>12, <1>13, <1>14 DEF CutInto, Batch
<1> QED
  BY <1>15 DEF IsCut, new

LEMMA UpToConcat ==
  ASSUME NEW x \in Nat, NEW y \in Nat, x <= y, NEW s \in Seq(Nat),
         Len(s) = y - x, \A k \in 1 .. Len(s) : s[k] = x + k
  PROVE  [k \in 1 .. x |-> k] \o s = [k \in 1 .. y |-> k]
<1> DEFINE upTo == [k \in 1 .. x |-> k]
           both == upTo \o s
           all == [k \in 1 .. y |-> k]
<1>1. upTo \in Seq(Nat) /\ Len(upTo) = x /\ \A k \in 1 .. x : upTo[k] = k
  OBVIOUS
<1>2. all \in Seq(Nat) /\ Len(all) = y /\ \A k \in 1 .. y : all[k] = k
  OBVIOUS
<1> HIDE DEF upTo, all
<1>3. /\ both \in Seq(Nat) /\ Len(both) = Len(upTo) + Len(s)
      /\ \A k \in 1 .. Len(upTo) + Len(s) :
           both[k] = IF k <= Len(upTo) THEN upTo[k] ELSE s[k - Len(upTo)]
  BY <1>1, ConcatProperties
<1> HIDE DEF both
<1>4. Len(both) = y /\ \A k \in 1 .. y : both[k] = IF k <= x THEN upTo[k] ELSE s[k - x]
  <2>1. x + Len(s) = y
    OBVIOUS
  <2> QED
    BY <1>1, <1>3, <2>1
<1>5. ASSUME NEW k \in 1 .. y PROVE both[k] = all[k]
  <2>1. CASE k <= x
    BY <1>1, <1>2, <1>4, <2>1
  <2>2. CASE ~(k <= x)
    <3>1. k - x \in 1 .. Len(s) /\ x + (k - x) = k
      BY <2>2
    <3> QED
      BY <1>2, <1>4, <2>2, <3>1
  <2> QED
    BY <2>1, <2>2
<1>6. both = all
  BY <1>2, <1>3, <1>4, <1>5, SeqEqual
<1> QED
  BY <1>6 DEF both, upTo, all

\* One after the other, the batches are all the comments.
LEMMA FlattenCut ==
  ASSUME NEW n \in Nat, NEW bs, IsCut(bs, n)
  PROVE  FlattenSeq(bs) = [k \in 1 .. n |-> k]
<1>1. PICK c : CutInto(bs, c, n)
  BY DEF IsCut
<1> DEFINE l == Len(bs)
           UpToCut(i) == [k \in 1 .. c[i] |-> k]
           Flat(f) == f = [i \in 1 .. Len(bs) |->
                             IF i = 1 THEN bs[i] ELSE f[i - 1] \o bs[i]]
           flat == CHOOSE f : Flat(f)
           all == [i \in 1 .. l |-> UpToCut(i)]
<1>2. /\ l \in Nat \ {0} /\ \A i \in 1 .. l : bs[i] \in Seq(Nat)
      /\ c[0] = 0 /\ c[l] = n /\ \A i \in 0 .. l : c[i] \in Nat
      /\ \A i \in 1 .. l :
           /\ c[i - 1] <= c[i] /\ Len(bs[i]) = c[i] - c[i - 1]
           /\ \A k \in 1 .. Len(bs[i]) : bs[i][k] = c[i - 1] + k
  <2>1. /\ bs \in Seq(Seq(Nat)) /\ bs # <<>> /\ c \in [0 .. Len(bs) -> 0 .. n]
        /\ c[0] = 0 /\ c[l] = n
        /\ \A i \in 1 .. l :
             /\ c[i - 1] <= c[i] /\ Len(bs[i]) = c[i] - c[i - 1]
             /\ \A k \in 1 .. Len(bs[i]) : bs[i][k] = c[i - 1] + k
    BY <1>1 DEF CutInto
  <2>2. l \in Nat \ {0} /\ \A i \in 1 .. l : bs[i] \in Seq(Nat)
    BY <2>1
  <2>c. c \in [0 .. l -> 0 .. n]
    BY <1>1 DEF CutInto
  <2>3. \A i \in 0 .. l : c[i] \in Nat
    <3> HIDE DEF l
    <3> QED
      BY <2>c
  <2> QED
    BY <2>1, <2>2, <2>3
<1> HIDE DEF l
<1>3. \A i \in 0 .. l : /\ UpToCut(i) \in Seq(Nat) /\ Len(UpToCut(i)) = c[i]
                        /\ \A k \in 1 .. c[i] : UpToCut(i)[k] = k
  BY <1>2
<1> HIDE DEF UpToCut
<1>4. ASSUME NEW i \in 1 .. l
      PROVE  UpToCut(i - 1) \o bs[i] = UpToCut(i)
  <2>1. /\ i - 1 \in 0 .. l /\ bs[i] \in Seq(Nat)
        /\ c[i - 1] \in Nat /\ c[i] \in Nat /\ c[i - 1] <= c[i]
    BY <1>2
  <2>2. Len(bs[i]) = c[i] - c[i - 1] /\ \A k \in 1 .. Len(bs[i]) : bs[i][k] = c[i - 1] + k
    BY <1>2
  <2> QED
    BY <2>1, <2>2, UpToConcat DEF UpToCut
<1>5. UpToCut(1) = bs[1]
  <2>1. /\ 1 \in 1 .. l /\ 1 \in 0 .. l /\ 1 - 1 = 0 /\ 0 \in 0 .. l
    BY <1>2
  <2>2. UpToCut(0) \in Seq(Nat) /\ Len(UpToCut(0)) = 0
    BY <1>2, <1>3, <2>1
  <2>3. UpToCut(0) = <<>> /\ bs[1] \in Seq(Nat)
    BY <1>2, <2>1, <2>2
  <2>4. <<>> \o bs[1] = bs[1]
    BY <2>3, ConcatEmptySeq
  <2> QED
    BY <1>4, <2>1, <2>3, <2>4
<1>6. Flat(all)
  <2>1. ASSUME NEW i \in 1 .. l
        PROVE  all[i] = IF i = 1 THEN bs[i] ELSE all[i - 1] \o bs[i]
    <3>1. CASE i = 1
      BY <1>5, <3>1
    <3>2. CASE i # 1
      <4>1. i - 1 \in 1 .. l
        BY <1>2, <3>2
      <4>2. all[i] = UpToCut(i) /\ all[i - 1] = UpToCut(i - 1)
        BY <4>1
      <4> QED
        BY <1>4, <3>2, <4>2
    <3> QED
      BY <3>1, <3>2
  <2>2. all = [i \in 1 .. l |-> all[i]]
    OBVIOUS
  <2> HIDE DEF all
  <2> QED
    BY <2>1, <2>2 DEF l
<1>7. Flat(flat)
  <2> HIDE DEF Flat
  <2> QED
    BY <1>6
<1> HIDE DEF flat, all
<1>8. \A i \in 1 .. l : flat[i] = IF i = 1 THEN bs[i] ELSE flat[i - 1] \o bs[i]
  BY <1>7 DEF l
<1> HIDE DEF Flat
<1> DEFINE Good == {0} \cup {m \in 1 .. l : flat[m] = UpToCut(m)}
<1>9. ASSUME NEW m \in 1 .. l, m - 1 \in Good PROVE m \in Good
  <2>1. CASE m = 1
    BY <1>5, <1>8, <2>1
  <2>2. CASE m # 1
    <3>1. m - 1 # 0
      BY <2>2
    <3>2. flat[m - 1] = UpToCut(m - 1)
      BY <1>9, <3>1
    <3>3. flat[m] = UpToCut(m - 1) \o bs[m]
      BY <1>8, <2>2, <3>2
    <3> QED
      BY <1>4, <3>3
  <2> QED
    BY <2>1, <2>2
<1>10. flat[l] = UpToCut(l)
  <2>1. 0 \in Good /\ l \in Nat
    BY <1>2
  <2> HIDE DEF Good
  <2>2. 0 .. l \subseteq Good
    BY <1>9, <2>1, UpTo
  <2>3. l \in 0 .. l /\ l # 0
    BY <1>2
  <2> QED
    BY <2>2, <2>3 DEF Good
<1>11. FlattenSeq(bs) = flat[Len(bs)]
  BY <1>2 DEF FlattenSeq, flat, Flat, l
<1>12. UpToCut(l) = [k \in 1 .. n |-> k]
  BY <1>2 DEF UpToCut
<1> QED
  BY <1>10, <1>11, <1>12 DEF l

-----------------------------------------------------------------------------
(* The comments and their batches.                                         *)

\* The cut stays good while it is made better, and when the calls begin none of the
\* batches can be cut any further.
CutsInv ==
  /\ HermesTypeOK
  /\ batches # <<>> => IsCut(batches, Len(job.facts))
  /\ pc = "split" => batches # <<>>
  /\ pc \in {"start", "split"} => work = <<>>
  /\ DOMAIN work = {} \/ TooBig(batches) = {}

Calls == [st: {"queued", "running", "ended"}, attempt: 0 .. MaxAttempts, payload: Payload]

LEMMA CutIsTyped ==
  ASSUME FactsTyped, NEW bs, IsCut(bs, Len(job.facts))
  PROVE  bs \in Seq(Seq(DOMAIN job.facts)) /\ bs # <<>>
<1> DEFINE n == Len(job.facts)
           l == Len(bs)
           Batch == Seq(1 .. n)
<1>1. PICK c : CutInto(bs, c, n)
  BY DEF IsCut
<1>2. n \in Nat /\ DOMAIN job.facts = 1 .. n
  BY DEF FactsTyped
<1>3. bs \in Seq(Seq(Nat)) /\ bs # <<>>
  BY <1>1 DEF CutInto
<1>4. /\ l \in Nat /\ bs \in [1 .. l -> Seq(Nat)]
  BY <1>3
<1>5. /\ c \in [0 .. l -> 0 .. n]
      /\ \A b \in 1 .. l : /\ Len(bs[b]) = c[b] - c[b - 1]
                           /\ \A k \in 1 .. Len(bs[b]) : bs[b][k] = c[b - 1] + k
  BY <1>1 DEF CutInto
<1> HIDE DEF n, l
<1>6. ASSUME NEW b \in 1 .. l PROVE bs[b] \in Batch
  <2> DEFINE open == bs[b]
             from == c[b - 1]
             to == c[b]
  <2>1. open \in Seq(Nat) /\ Len(open) = to - from /\ \A k \in 1 .. Len(open) : open[k] = from + k
    BY <1>4, <1>5
  <2>2. from \in 0 .. n /\ to \in 0 .. n
    <3>1. b - 1 \in 0 .. l /\ b \in 0 .. l
      BY <1>4
    <3> QED
      BY <1>5, <3>1
  <2> HIDE DEF open, from, to
  <2>3. ASSUME NEW k \in 1 .. Len(open) PROVE open[k] \in 1 .. n
    <3>1. from + k \in 1 .. to
      BY <2>1, <2>2
    <3>2. open[k] = from + k
      BY <2>1
    <3>3. from + k \in 1 .. n
      BY <1>2, <2>2, <3>1
    <3> QED
      BY <3>2, <3>3
  <2>4. Len(open) \in Nat /\ open \in [1 .. Len(open) -> Nat]
    BY <2>1
  <2>5. open \in [1 .. Len(open) -> 1 .. n]
    BY <2>3, <2>4
  <2>6. open \in Seq(1 .. n)
    BY <2>4, <2>5, SeqDef, Zenon
  <2> QED
    BY <2>6 DEF open
<1> HIDE DEF Batch
<1>7. bs \in [1 .. l -> Batch]
  BY <1>4, <1>6
<1>8. bs \in Seq(Batch)
  BY <1>4, <1>7
<1> QED
  BY <1>2, <1>3, <1>8 DEF Batch, n

LEMMA CutsInitially == HermesInit => CutsInv
<1> SUFFICES ASSUME HermesInit PROVE CutsInv
  OBVIOUS
<1> USE DEF HermesInit
<1>1. PICK kind \in Kind, mode \in {"api", "cli"}, n \in 0 .. MaxFacts :
        \E facts \in [1 .. n -> {1, 2}] :
          /\ job = [kind |-> kind, mode |-> mode, facts |-> facts]
          /\ timer = IF kind = "time" THEN "worker" ELSE "none"
  OBVIOUS
<1>2. PICK facts \in [1 .. n -> {1, 2}] :
          /\ job = [kind |-> kind, mode |-> mode, facts |-> facts]
          /\ timer = IF kind = "time" THEN "worker" ELSE "none"
  BY <1>1
<1>3. /\ job.kind \in Kind /\ job.mode \in {"api", "cli"} /\ job.facts = facts
      /\ timer \in {"none", "worker"}
  BY <1>2
<1>4. n \in Nat /\ n <= MaxFacts
  BY ReportAssumption
<1>5. facts \in Seq({1, 2}) /\ Len(facts) = n
  BY <1>4
<1>6. HermesTypeOK
  <2>1. /\ batches \in Seq(Seq(DOMAIN job.facts)) /\ work = <<>>
        /\ join = [attempt |-> 0, payload |-> "none"]
    OBVIOUS
  <2>2. work \in Seq(Calls)
    BY <2>1
  <2>3. join \in [attempt: 0 .. MaxAttempts, payload: Payload]
    BY <2>1, ReportAssumption DEF Payload
  <2>4. file \in [File -> {"none", "model", "rules"}] /\ next \in 1 .. Len(Files) + 1
    BY FilesAreFile
  <2>5. told \in [status: Status, source: Source]
    BY DEF NotTold, Status, Source
  <2>6. timer \in Timer /\ outer \in Timer \ {"hard"} /\ rang \in BOOLEAN /\ pc \in PC
    BY <1>3 DEF Timer, PC
  <2>7. job.facts \in Seq({1, 2}) /\ Len(job.facts) <= MaxFacts
    BY <1>3, <1>4, <1>5
  <2> QED
    BY <1>3, <2>1, <2>2, <2>3, <2>4, <2>5, <2>6, <2>7 DEF HermesTypeOK, Calls
<1> QED
  BY <1>6 DEF CutsInv

\* What the steps do that neither cut nor call.
LEMMA EndIsTyped ==
  ASSUME HermesTypeOK, NEW status \in Status, NEW source \in Source, End(status, source)
  PROVE  pc' \in PC /\ pc' # "split" /\ pc' # "start"
         /\ next' \in 1 .. Len(Files) + 1 /\ told' \in [status: Status, source: Source]
  BY DEF HermesTypeOK, End, PC

LEMMA FailIsTyped ==
  ASSUME HermesTypeOK, Fail
  PROVE  pc' \in PC /\ pc' # "split" /\ pc' # "start"
         /\ next' \in 1 .. Len(Files) + 1 /\ told' \in [status: Status, source: Source]
  BY FilesAreFile DEF HermesTypeOK, Fail, End, PC, Status, Source

LEMMA BytesKept ==
  ASSUME UNCHANGED job, NEW batch, NEW total
  PROVE  Bytes(batch, total)' = Bytes(batch, total)
  BY DEF Bytes, FoldLeft, MapThenFoldSet

\* The steps that leave the comments and their batches alone keep the cut.
LEMMA CutsKept ==
  ASSUME CutsInv, HermesTypeOK', UNCHANGED <<job, batches>>,
         DOMAIN work' = DOMAIN work, pc' \in {"start", "split"} => pc' = pc /\ UNCHANGED work
  PROVE  CutsInv'
<1>1. TooBig(batches)' = TooBig(batches)
  BY BytesKept DEF TooBig
<1>2. IsCut(batches, Len(job.facts))' <=> IsCut(batches, Len(job.facts))
  OBVIOUS
<1> QED
  BY <1>1, <1>2 DEF CutsInv

\* The steps that cut.
LEMMA CutStep ==
  ASSUME CutsInv, Start \/ Split
  PROVE  CutsInv'
<1> DEFINE n == Len(job.facts)
<1>0. /\ FactsTyped /\ HermesTypeOK /\ UNCHANGED job
      /\ n \in Nat /\ DOMAIN job.facts = 1 .. n
  BY DEF CutsInv, HermesTypeOK, FactsTyped, Start, Split
<1>1. CASE Start
  <2>1. /\ pc = "start" /\ UNCHANGED <<work, join, clock, file>> /\ work = <<>>
    BY <1>1 DEF Start, CutsInv
  <2>2. CASE pc' = "split" /\ batches' = FirstCut /\ UNCHANGED <<told, next>>
    <3>1. IsCut(FirstCut, n)
      BY <1>0, FirstCutCuts
    <3>2. FirstCut \in Seq(Seq(DOMAIN job.facts)) /\ FirstCut # <<>>
      BY <1>0, <3>1, CutIsTyped
    <3> HIDE DEF n
    <3>3. HermesTypeOK'
      BY <1>0, <2>1, <2>2, <3>2 DEF HermesTypeOK, clock, PC
    <3>4. DOMAIN work' = {} /\ work' = <<>>
      BY <2>1
    <3>5. IsCut(batches', Len(job'.facts))
      BY <1>0, <2>2, <3>1 DEF n
    <3> QED
      BY <2>2, <3>2, <3>3, <3>4, <3>5 DEF CutsInv
  <2>3. CASE (Fail \/ End("failed", "none")) /\ UNCHANGED batches
    <3>1. /\ pc' \in PC /\ pc' # "split" /\ pc' # "start"
          /\ next' \in 1 .. Len(Files) + 1 /\ told' \in [status: Status, source: Source]
      BY <1>0, <2>3, FailIsTyped, EndIsTyped DEF Status, Source
    <3>2. HermesTypeOK'
      BY <1>0, <2>1, <2>3, <3>1 DEF HermesTypeOK, clock
    <3> QED
      BY <1>0, <2>1, <2>3, <3>1, <3>2, CutsKept
  <2> QED
    BY <1>1, <2>2, <2>3 DEF Start
<1>2. CASE Split
  <2>1. /\ pc = "split" /\ UNCHANGED <<join, timer, outer, rang, next, file, told>>
        /\ work = <<>> /\ batches # <<>> /\ IsCut(batches, n)
    BY <1>2 DEF Split, CutsInv, clock, files
  <2>2. batches \in Seq(Seq(Nat)) /\ DOMAIN batches = 1 .. Len(batches) /\ Len(batches) \in Nat
    BY <2>1 DEF IsCut, CutInto
  <2>3. CASE TooBig(batches) # {}
    <3> DEFINE S == TooBig(batches)
               least == CHOOSE b \in S : \A c \in S : b <= c
    <3>1. S \in SUBSET Nat /\ S # {} /\ \A b \in S : b \in 1 .. Len(batches) /\ Len(batches[b]) > 1
      BY <2>2, <2>3 DEF TooBig
    <3>2. batches' = Halve(batches, least) /\ UNCHANGED <<pc, work>>
      BY <1>2, <2>3 DEF Split
    <3> HIDE DEF S
    <3>3. least \in S
      BY <3>1, LeastOf
    <3>4. least \in 1 .. Len(batches) /\ Len(batches[least]) > 1
      BY <3>1, <3>3
    <3> HIDE DEF least
    <3>5. IsCut(Halve(batches, least), n)
      BY <1>0, <2>1, <3>4, HalveCuts
    <3>6. Halve(batches, least) \in Seq(Seq(DOMAIN job.facts)) /\ Halve(batches, least) # <<>>
      BY <1>0, <3>5, CutIsTyped
    <3>7. HermesTypeOK'
      BY <1>0, <2>1, <3>2, <3>6 DEF HermesTypeOK
    <3>8. DOMAIN work' = {} /\ work' = <<>>
      BY <2>1, <3>2
    <3>9. IsCut(batches', Len(job'.facts))
      BY <1>0, <3>2, <3>5
    <3> QED
      BY <3>2, <3>6, <3>7, <3>8, <3>9 DEF CutsInv
  <2>4. CASE TooBig(batches) = {}
    <3> DEFINE call == [st |-> "queued", attempt |-> 0, payload |-> "none"]
    <3> USE DEF Calls
    <3>1. /\ pc' = "analyse" /\ UNCHANGED batches
          /\ work' = [b \in 1 .. Len(batches) |-> call]
      BY <1>2, <2>2, <2>4 DEF Split
    <3>2. call \in Calls
      BY ReportAssumption DEF Payload
    <3> HIDE DEF call, Calls
    <3>3. work' \in Seq(Calls)
      BY <2>2, <3>1, <3>2
    <3>4. HermesTypeOK'
      BY <1>0, <2>1, <3>1, <3>3 DEF HermesTypeOK, PC, Calls
    <3>5. TooBig(batches)' = {}
      BY <1>0, <2>4, <3>1, BytesKept DEF TooBig
    <3>6. IsCut(batches', Len(job'.facts))
      BY <1>0, <2>1, <3>1
    <3> QED
      BY <3>1, <3>4, <3>5, <3>6 DEF CutsInv
  <2> QED
    BY <2>3, <2>4
<1> QED
  BY <1>1, <1>2

\* The calls for the batches.
LEMMA CallCuts ==
  ASSUME CutsInv, CallStep
  PROVE  CutsInv'
<1> USE DEF Calls
<1>0. HermesTypeOK /\ work \in Seq(Calls)
  BY DEF CutsInv, HermesTypeOK
<1>1. UNCHANGED <<job, pc, batches, join, timer, outer, rang, next, file, told>>
  BY DEF CallStep, StartCall, RetryCall, EndCall, InPool, clock, files
<1>2. PICK b \in DOMAIN work : StartCall(b) \/ RetryCall(b) \/ EndCall(b)
  BY DEF CallStep
<1>3. PICK call \in Calls : work' = [work EXCEPT ![b] = call]
  <2>1. CASE StartCall(b)
    <3>1. [st |-> "running", attempt |-> 1, payload |-> "none"] \in Calls
      BY ReportAssumption DEF Payload
    <3> QED
      BY <2>1, <3>1 DEF StartCall
  <2>2. CASE RetryCall(b)
    <3>1. work[b] \in Calls /\ work[b].attempt < MaxAttempts
      <4> HIDE DEF Calls
      <4>1. work[b] \in Calls
        BY <1>0, <1>2
      <4> QED
        BY <2>2, <4>1 DEF RetryCall
    <3>2. [work[b] EXCEPT !.attempt = @ + 1] \in Calls
      BY <3>1, ReportAssumption
    <3> QED
      BY <2>2, <3>2 DEF RetryCall
  <2>3. CASE EndCall(b)
    <3>1. \A p \in Answers \cup {"local"} : Ended(p) \in Calls
      BY ReportAssumption DEF Answers, Ended, Payload
    <3> QED
      BY <2>3, <3>1 DEF EndCall
  <2> QED
    BY <1>2, <2>1, <2>2, <2>3
<1> HIDE DEF Calls
<1>4. work' \in Seq(Calls) /\ DOMAIN work' = DOMAIN work
  BY <1>0, <1>2, <1>3
<1>5. HermesTypeOK'
  BY <1>0, <1>1, <1>4 DEF HermesTypeOK, Calls
<1>6. pc \notin {"start", "split"}
  BY <1>2 DEF CutsInv
<1> QED
  BY <1>1, <1>4, <1>5, <1>6, CutsKept

\* The join and the files.
LEMMA JoinCuts ==
  ASSUME CutsInv, ClockInv,
         BeginJoin \/ RetryJoin \/ EndJoin \/ LeaveJoin \/ Drained \/ Merge
  PROVE  CutsInv'
<1>0. HermesTypeOK
  BY DEF CutsInv
<1>1. UNCHANGED <<job, batches, work, file, rang>>
  BY DEF BeginJoin, RetryJoin, EndJoin, LeaveJoin, Drained, Merge, clock, files
<1>2. CASE BeginJoin \/ RetryJoin \/ EndJoin \/ LeaveJoin
  <2>1. UNCHANGED <<next, told>> /\ pc' \in {"call", "leave", "merge"}
    BY <1>2 DEF BeginJoin, RetryJoin, EndJoin, LeaveJoin, files
  <2>2. join' \in [attempt: 0 .. MaxAttempts, payload: Payload]
    BY <1>0, <1>2, ReportAssumption
       DEF BeginJoin, RetryJoin, EndJoin, LeaveJoin, HermesTypeOK, Answers, Payload
  <2>3. timer' \in Timer /\ outer' \in Timer \ {"hard"}
    <3>1. CASE BeginJoin
      <4>1. timer # "hard"
        BY <3>1 DEF BeginJoin, ClockInv, InJoin
      <4> QED
        BY <1>0, <3>1, <4>1 DEF BeginJoin, HermesTypeOK, Timer
    <3>2. CASE RetryJoin \/ EndJoin \/ LeaveJoin
      BY <1>0, <3>2 DEF RetryJoin, EndJoin, LeaveJoin, HermesTypeOK, Timer, clock
    <3> QED
      BY <1>2, <3>1, <3>2
  <2>4. HermesTypeOK'
    BY <1>0, <1>1, <2>1, <2>2, <2>3 DEF HermesTypeOK, PC
  <2> QED
    BY <1>1, <2>1, <2>4, CutsKept
<1>3. CASE Drained \/ Merge
  <2>1. UNCHANGED <<join, timer, outer>>
    BY <1>3 DEF Drained, Merge, clock
  <2>2. Fail \/ (pc' = "write" /\ UNCHANGED <<told, next>>)
    BY <1>3 DEF Drained, Merge
  <2>3. /\ pc' \in PC /\ pc' # "split" /\ pc' # "start"
        /\ next' \in 1 .. Len(Files) + 1 /\ told' \in [status: Status, source: Source]
    BY <1>0, <2>2, FailIsTyped DEF HermesTypeOK, PC
  <2>4. HermesTypeOK'
    BY <1>0, <1>1, <2>1, <2>3 DEF HermesTypeOK
  <2> QED
    BY <1>1, <2>3, <2>4, CutsKept
<1> QED
  BY <1>2, <1>3

LEMMA FileCuts ==
  ASSUME CutsInv, WriteFile \/ Publish \/ RuleFile \/ Degrade
  PROVE  CutsInv'
<1>0. HermesTypeOK
  BY DEF CutsInv
<1>1. UNCHANGED <<job, batches, work, join, timer, outer, rang>>
  BY DEF WriteFile, Publish, RuleFile, Degrade, clock
<1>2. /\ pc' \in PC /\ pc' # "split" /\ pc' # "start"
      /\ next' \in 1 .. Len(Files) + 1 /\ told' \in [status: Status, source: Source]
  <2>1. /\ SourceName \in Source
        /\ {"success", "degraded", "failed"} \subseteq Status /\ {"none", "rules"} \subseteq Source
    BY DEF SourceName, Source, Status
  <2>2. \/ Fail
        \/ \E status \in Status, source \in Source : End(status, source)
        \/ /\ next <= Len(Files) /\ next' = next + 1 /\ UNCHANGED <<pc, told>>
           /\ pc \in {"write", "rules"}
    BY <2>1 DEF WriteFile, Publish, RuleFile, Degrade
  <2>3. CASE Fail
    BY <1>0, <2>3, FailIsTyped
  <2>4. CASE \E status \in Status, source \in Source : End(status, source)
    BY <1>0, <2>4, EndIsTyped
  <2>5. CASE /\ next <= Len(Files) /\ next' = next + 1 /\ UNCHANGED <<pc, told>>
             /\ pc \in {"write", "rules"}
    BY <1>0, <2>5, FilesAreFile DEF HermesTypeOK
  <2> QED
    BY <2>2, <2>3, <2>4, <2>5
<1>3. file' \in [File -> {"none", "model", "rules"}]
  BY <1>0 DEF WriteFile, Publish, RuleFile, Degrade, HermesTypeOK
<1>4. HermesTypeOK'
  BY <1>0, <1>1, <1>2, <1>3 DEF HermesTypeOK
<1> QED
  BY <1>1, <1>2, <1>4, CutsKept

\* The alarms.
LEMMA AlarmCuts ==
  ASSUME CutsInv, HardAlarm \/ WorkerAlarm
  PROVE  CutsInv'
<1> USE DEF Calls
<1>0. HermesTypeOK /\ work \in Seq(Calls)
  BY DEF CutsInv, HermesTypeOK
<1>1. UNCHANGED <<job, batches, outer, file>> /\ timer' \in Timer /\ rang' \in BOOLEAN
  BY <1>0 DEF HardAlarm, WorkerAlarm, HermesTypeOK, Timer
<1>2. /\ pc' \in PC /\ pc' # "split" /\ pc' # "start"
      /\ next' \in 1 .. Len(Files) + 1 /\ told' \in [status: Status, source: Source]
  <2>1. \/ Fail \/ End("escaped", "none")
        \/ UNCHANGED <<next, told>> /\ pc' \in {"leave", "analyse", "drain", "call"}
    BY DEF HardAlarm, WorkerAlarm
  <2>2. CASE Fail
    BY <1>0, <2>2, FailIsTyped
  <2>3. CASE End("escaped", "none")
    BY <1>0, <2>3, EndIsTyped DEF Status, Source
  <2>4. CASE UNCHANGED <<next, told>> /\ pc' \in {"leave", "analyse", "drain", "call"}
    BY <1>0, <2>4 DEF HermesTypeOK, PC
  <2> QED
    BY <2>1, <2>2, <2>3, <2>4
<1>3. join' \in [attempt: 0 .. MaxAttempts, payload: Payload]
  BY <1>0, ReportAssumption DEF HardAlarm, WorkerAlarm, HermesTypeOK, Payload
<1>4. work' \in Seq(Calls) /\ DOMAIN work' = DOMAIN work
  <2>1. CASE UNCHANGED work
    BY <1>0, <2>1
  <2>2. CASE work' = [b \in DOMAIN work |-> IF b \in Running THEN Ended("local") ELSE work[b]]
    <3>1. Ended("local") \in Calls
      BY ReportAssumption DEF Ended, Payload
    <3> HIDE DEF Calls
    <3>2. /\ DOMAIN work = 1 .. Len(work) /\ Len(work) \in Nat
          /\ \A b \in 1 .. Len(work) : work[b] \in Calls
      BY <1>0
    <3>3. work' \in [1 .. Len(work) -> Calls]
      BY <2>2, <3>1, <3>2
    <3> QED
      BY <3>2, <3>3
  <2> QED
    BY <2>1, <2>2 DEF HardAlarm, WorkerAlarm
<1>5. HermesTypeOK'
  BY <1>0, <1>1, <1>2, <1>3, <1>4 DEF HermesTypeOK
<1> QED
  BY <1>1, <1>2, <1>4, <1>5, CutsKept

LEMMA CutsInductive == CutsInv /\ ClockInv /\ [HermesNext]_vars => CutsInv'
<1> SUFFICES ASSUME CutsInv, ClockInv, [HermesNext]_vars PROVE CutsInv'
  OBVIOUS
<1>1. CASE HermesNext
  BY <1>1, CutStep, CallCuts, JoinCuts, FileCuts, AlarmCuts DEF HermesNext, ReportStep
<1>2. CASE UNCHANGED vars
  <2>1. UNCHANGED <<job, pc, batches, work, join, timer, outer, rang, next, file, told>>
    BY <1>2 DEF vars, clock, files
  <2>2. HermesTypeOK'
    BY <2>1 DEF CutsInv, HermesTypeOK
  <2> QED
    BY <2>1, <2>2, CutsKept
<1> QED
  BY <1>1, <1>2

\* The variables of a report keep their types, and a call is never tried more often
\* than it may be.
THEOREM ReportIsTyped == HermesSpec => []HermesTypeOK
<1>1. CutsInv => HermesTypeOK
  BY DEF CutsInv
<1> QED
  BY <1>1, CutsInitially, CutsInductive, ClockInitially, ClockStep, PTL DEF HermesSpec

LEMMA CutsPartition == CutsInv => BatchesPartition
<1> SUFFICES ASSUME CutsInv, batches # <<>> PROVE BatchesPartition
  BY DEF BatchesPartition
<1> DEFINE n == Len(job.facts)
<1>1. /\ FactsTyped /\ job.facts \in Seq({1, 2}) /\ n \in Nat /\ DOMAIN job.facts = 1 .. n
      /\ batches \in Seq(Seq(DOMAIN job.facts))
      /\ work \in Seq(Calls)
  BY DEF CutsInv, HermesTypeOK, FactsTyped, Calls
<1>2. PICK c : CutInto(batches, c, n)
  BY DEF CutsInv, IsCut
<1>3. FlattenSeq(batches) = [i \in DOMAIN job.facts |-> i]
  BY <1>1, <1>2, FlattenCut DEF IsCut
<1>4. ASSUME NEW b \in DOMAIN batches
      PROVE  /\ job.facts # <<>> => batches[b] # <<>>
             /\ work # <<>> /\ Len(batches[b]) > 1 => Bytes(batches[b], Len(batches)) <= Budget
  <2>1. DOMAIN batches = 1 .. Len(batches) /\ batches[b] \in Seq(DOMAIN job.facts)
    BY <1>1
  <2>2. job.facts # <<>> => batches[b] # <<>>
    <3>1. job.facts # <<>> => n > 0
      BY <1>1
    <3>2. /\ c \in [0 .. Len(batches) -> 0 .. n] /\ (n > 0 => c[b - 1] < c[b])
          /\ Len(batches[b]) = c[b] - c[b - 1]
      BY <1>2, <2>1 DEF CutInto
    <3> DEFINE from == c[b - 1]
               to == c[b]
    <3>3. from \in Nat /\ to \in Nat
      <4>1. b - 1 \in 0 .. Len(batches) /\ b \in 0 .. Len(batches)
        BY <2>1
      <4> QED
        BY <3>2, <4>1
    <3>4. n > 0 => Len(batches[b]) = to - from /\ from < to
      BY <3>2
    <3> HIDE DEF from, to
    <3>5. n > 0 => Len(batches[b]) # 0
      BY <3>3, <3>4
    <3> QED
      BY <3>1, <3>5
  <2>3. work # <<>> /\ Len(batches[b]) > 1 => Bytes(batches[b], Len(batches)) <= Budget
    <3> SUFFICES ASSUME work # <<>>, Len(batches[b]) > 1
                 PROVE  Bytes(batches[b], Len(batches)) <= Budget
      OBVIOUS
    <3>1. DOMAIN work # {}
      <4>2. DOMAIN work = 1 .. Len(work) /\ Len(work) \in Nat \ {0}
        BY <1>1, EmptySeq
      <4>3. 1 \in 1 .. Len(work)
        BY <4>2
      <4> QED
        BY <4>2, <4>3
    <3>2. ~(Bytes(batches[b], Len(batches)) > Budget)
      BY <3>1 DEF CutsInv, TooBig
    <3>3. Bytes(batches[b], Len(batches)) \in Nat
      BY <1>1, <2>1, BytesAreNat
    <3>4. Budget \in Nat
      BY ReportAssumption
    <3> QED
      BY <3>2, <3>3, <3>4
  <2> QED
    BY <2>2, <2>3
<1> QED
  BY <1>3, <1>4 DEF BatchesPartition

\* However often batches are cut, every comment is in exactly one of them, in order;
\* none is empty, and one that is too big for a prompt holds a single comment.
THEOREM CommentsArePartitioned == HermesSpec => []BatchesPartition
  BY CutsPartition, CutsInitially, CutsInductive, ClockInitially, ClockStep, PTL DEF HermesSpec

\* As each batch ends behind the one before it, there are no more batches than comments.
LEMMA FewCuts ==
  ASSUME NEW n \in Nat \ {0}, NEW bs, IsCut(bs, n)
  PROVE  Len(bs) <= n
<1> DEFINE l == Len(bs)
<1>1. PICK c : CutInto(bs, c, n)
  BY DEF IsCut
<1>2. bs \in Seq(Seq(Nat))
  BY <1>1 DEF CutInto
<1>3. l \in Nat
  BY <1>2
<1>4. /\ c \in [0 .. l -> 0 .. n] /\ c[0] = 0 /\ c[l] = n
      /\ \A b \in 1 .. l : c[b - 1] < c[b]
  BY <1>1 DEF CutInto
<1> HIDE DEF l
<1> DEFINE S == {i \in 0 .. l : c[i] >= i}
<1>5. 0 \in S
  BY <1>3, <1>4
<1>6. ASSUME NEW m \in 1 .. l, m - 1 \in S PROVE m \in S
  <2> DEFINE from == c[m - 1]
             to == c[m]
  <2>1. m - 1 \in 0 .. l /\ m \in 0 .. l
    BY <1>3
  <2>2. from \in Nat /\ to \in Nat /\ from < to /\ from >= m - 1
    BY <1>4, <1>6, <2>1
  <2> HIDE DEF from, to
  <2>3. to >= m
    BY <2>2
  <2> QED
    BY <2>1, <2>3 DEF to
<1>7. 0 .. l \subseteq S
  <2> HIDE DEF S
  <2> QED
    BY <1>3, <1>5, <1>6, UpTo
<1>8. l \in S
  BY <1>3, <1>7
<1>9. l <= n
  BY <1>3, <1>4, <1>8
<1> QED
  BY <1>9 DEF l

FewBatches == batches # <<>> /\ job.facts # <<>> => Len(batches) <= Len(job.facts)

\* However often a batch that is too big is cut in two, there are never more batches, and
\* so never more calls to be made, than comments.
THEOREM BatchesAreAlwaysFew == HermesSpec => []FewBatches
<1>1. CutsInv => FewBatches
  <2> SUFFICES ASSUME CutsInv, batches # <<>>, job.facts # <<>>
               PROVE  Len(batches) <= Len(job.facts)
    BY DEF FewBatches
  <2>1. IsCut(batches, Len(job.facts))
    BY DEF CutsInv
  <2>2. job.facts \in Seq({1, 2})
    BY DEF CutsInv, HermesTypeOK, FactsTyped
  <2>3. Len(job.facts) \in Nat \ {0}
    BY <2>2
  <2> QED
    BY <2>1, <2>3, FewCuts
<1> QED
  BY <1>1, CutsInitially, CutsInductive, ClockInitially, ClockStep, PTL DEF HermesSpec
=============================================================================
