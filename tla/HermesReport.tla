---------------------------- MODULE HermesReport ----------------------------
(***************************************************************************)
(* The writing of one report by a language model                           *)
(* (worker_app/hermes_outputs.py): as the last stage of a job, in a        *)
(* process of its own, or as a time report, in the main thread of an RQ    *)
(* worker whose own timeout uses the same timer.                           *)
(*                                                                         *)
(* The comments are cut into batches that fit a prompt, threads have the   *)
(* batches analysed, one more call joins the answers, six files are        *)
(* written.  A batch that fails is replaced by a local one, a failed join  *)
(* by a local join, and in a stage everything by the scripts of the rules. *)
(***************************************************************************)
EXTENDS Naturals, Sequences, FiniteSets, SequencesExt

CONSTANTS MaxFacts,      \* bound: comments
          Budget,        \* bytes of a prompt, in units of the smallest comment
          Placeholder,   \* the number of batches that the first cut assumes, 999
          MaxAttempts,   \* HERMES_JSON_RETRIES + 1
          Concurrency,   \* HERMES_BATCH_CONCURRENCY
          Faults         \* what may go wrong

ASSUME ReportAssumption ==
  /\ {MaxFacts, Budget, Placeholder, MaxAttempts, Concurrency} \subseteq Nat \ {0}
  /\ Faults \subseteq {"nokey", "llm", "odd", "alarm", "write", "script"}

Files == <<"summary", "terms", "images", "report", "chunks", "validation">>
File == Range(Files)

VARIABLES job,      \* what is asked for; never changes
          pc, batches,
          work,     \* per batch, its call and what came of it
          join,     \* the call that joins the batches
          timer,    \* who is called when the process's one timer rings
          outer,    \* what _call_aggregate_llm_json has put aside of it
          rang,     \* the worker's timeout has come
          next,     \* the file to write next
          file,     \* who has written each file
          told      \* the result

files == <<next, file>>
clock == <<timer, outer, rang>>
vars == <<job, pc, batches, work, join, clock, files, told>>

Kind == {"stage", "time"}
Payload == {"none", "model", "odd", "local"}  \* "odd": counts that are no numbers
PC == {"start", "split", "analyse", "drain", "call", "leave", "merge", "write", "rules", "done"}
Timer == {"none", "worker", "hard"}
Status == {"none", "success", "degraded", "failed", "escaped"}
Source == {"none", "model", "partial-local-batch", "local-aggregate", "rules"}
NotTold == [status |-> "none", source |-> "none"]

HermesTypeOK ==
  /\ job.kind \in Kind /\ job.mode \in {"api", "cli"}
  /\ job.facts \in Seq({1, 2}) /\ Len(job.facts) <= MaxFacts
  /\ pc \in PC
  /\ batches \in Seq(Seq(DOMAIN job.facts))
  /\ work \in Seq([st: {"queued", "running", "ended"}, attempt: 0 .. MaxAttempts, payload: Payload])
  /\ join \in [attempt: 0 .. MaxAttempts, payload: Payload]
  /\ timer \in Timer /\ outer \in Timer \ {"hard"} /\ rang \in BOOLEAN
  /\ file \in [File -> {"none", "model", "rules"}] /\ next \in 1 .. Len(Files) + 1
  /\ told \in [status: Status, source: Source]

HermesInit ==
  /\ \E kind \in Kind, mode \in {"api", "cli"}, n \in 0 .. MaxFacts :
       \E facts \in [1 .. n -> {1, 2}] :
         /\ kind = "time" => n > 0     \* no_comments_in_date_range
         /\ job = [kind |-> kind, mode |-> mode, facts |-> facts]
         /\ timer = IF kind = "time" THEN "worker" ELSE "none"
  /\ pc = "start" /\ batches = <<>> /\ work = <<>>
  /\ join = [attempt |-> 0, payload |-> "none"]
  /\ outer = "none" /\ rang = FALSE
  /\ next = 1 /\ file = [f \in File |-> "none"]
  /\ told = NotTold

-----------------------------------------------------------------------------
(* _batch_items_by_prompt_budget.                                          *)

\* A prompt also tells how many batches there are.
Bytes(batch, total) ==
  FoldLeft(LAMBDA n, i : n + job.facts[i], 0, batch) + (IF total > Placeholder THEN 1 ELSE 0)

\* The open batch is the last one.
AddFact(bs, i) ==
  LET open == Append(Last(bs), i)
  IN IF Last(bs) # <<>> /\ Bytes(open, Placeholder) > Budget
     THEN Append(bs, <<i>>)
     ELSE [bs EXCEPT ![Len(bs)] = open]

FirstCut == FoldLeft(AddFact, << <<>> >>, [i \in DOMAIN job.facts |-> i])

TooBig(bs) == {b \in DOMAIN bs : Len(bs[b]) > 1 /\ Bytes(bs[b], Len(bs)) > Budget}

\* The fact in the middle gets lost.
Halve_Gap(bs, b) ==
  LET mid == Len(bs[b]) \div 2
  IN SubSeq(bs, 1, b - 1)
     \o <<SubSeq(bs[b], 1, mid), SubSeq(bs[b], mid + 2, Len(bs[b]))>>
     \o SubSeq(bs, b + 1, Len(bs))

Halve(bs, b) ==
  LET mid == Len(bs[b]) \div 2
  IN SubSeq(bs, 1, b - 1)
     \o <<SubSeq(bs[b], 1, mid), SubSeq(bs[b], mid + 1, Len(bs[b]))>>
     \o SubSeq(bs, b + 1, Len(bs))

-----------------------------------------------------------------------------
End(status, source) ==
  /\ pc' = "done"
  /\ told' = [status |-> status, source |-> source]
  /\ UNCHANGED next

\* An exception: a stage falls back on the rules, a time report has failed.
Fail ==
  IF job.kind = "stage" THEN pc' = "rules" /\ next' = 1 /\ UNCHANGED told
  ELSE End("failed", "none")

\* Nothing falls back on the rules before the comments are read and written down.
Start ==
  /\ pc = "start"
  /\ \/ pc' = "split" /\ batches' = FirstCut /\ UNCHANGED <<told, next>>
     \/ "nokey" \in Faults /\ Fail /\ UNCHANGED batches
     \/ "write" \in Faults /\ End("failed", "none") /\ UNCHANGED batches
  /\ UNCHANGED <<job, work, join, clock, file>>

Split ==
  /\ pc = "split"
  /\ IF TooBig(batches) # {}
     THEN /\ batches' = Halve(batches, CHOOSE b \in TooBig(batches) :
                                         \A c \in TooBig(batches) : b <= c)
          /\ UNCHANGED <<pc, work>>
     ELSE /\ pc' = "analyse"
          /\ work' = [b \in DOMAIN batches |->
                        [st |-> "queued", attempt |-> 0, payload |-> "none"]]
          /\ UNCHANGED batches
  /\ UNCHANGED <<job, join, clock, files, told>>

-----------------------------------------------------------------------------
(* _analyze_fact_batches: run_one in a pool, or one batch after the other. *)
Running == {b \in DOMAIN work : work[b].st = "running"}
Queued == {b \in DOMAIN work : work[b].st = "queued"}
Analysed == \A b \in DOMAIN work : work[b].st = "ended"
Ended(p) == [st |-> "ended", attempt |-> 0, payload |-> p]
InPool == UNCHANGED <<job, pc, batches, join, clock, files, told>>

StartCall(b) ==
  /\ pc \in {"analyse", "drain"}
  /\ b \in Queued /\ \A c \in Queued : b <= c
  /\ Cardinality(Running) < Concurrency
  /\ work' = [work EXCEPT ![b] = [st |-> "running", attempt |-> 1, payload |-> "none"]]
  /\ InPool

\* A timeout, an error that may pass or an answer that is not JSON.
RetryCall(b) ==
  /\ b \in Running /\ "llm" \in Faults
  /\ work[b].attempt < MaxAttempts
  /\ work' = [work EXCEPT ![b].attempt = @ + 1]
  /\ InPool

Answers == {"model"} \cup (IF "odd" \in Faults THEN {"odd"} ELSE {})

\* The last attempt, an error for good, an answer that is no object: _local_batch_payload.
EndCall(b) ==
  /\ b \in Running
  /\ \E p \in Answers \cup (IF "llm" \in Faults THEN {"local"} ELSE {}) :
       work' = [work EXCEPT ![b] = Ended(p)]
  /\ InPool

CallStep == \E b \in DOMAIN work : StartCall(b) \/ RetryCall(b) \/ EndCall(b)

-----------------------------------------------------------------------------
(* _call_aggregate_llm_json.                                               *)

\* In the API mode the timer is taken for a hard timeout of the call.
BeginJoin ==
  /\ pc = "analyse" /\ Analysed
  /\ pc' = "call"
  /\ join' = [join EXCEPT !.attempt = 1]
  /\ IF job.mode = "api" THEN outer' = timer /\ timer' = "hard" ELSE UNCHANGED <<outer, timer>>
  /\ UNCHANGED <<job, batches, work, rang, files, told>>

\* One attempt too many.
RetryJoin_OneMore ==
  /\ pc = "call" /\ "llm" \in Faults /\ join.attempt <= MaxAttempts
  /\ join' = [join EXCEPT !.attempt = @ + 1]
  /\ UNCHANGED <<job, pc, batches, work, clock, files, told>>

RetryJoin ==
  /\ pc = "call" /\ "llm" \in Faults /\ join.attempt < MaxAttempts
  /\ join' = [join EXCEPT !.attempt = @ + 1]
  /\ UNCHANGED <<job, pc, batches, work, clock, files, told>>

\* "none": no answer that could be used.
EndJoin ==
  /\ pc = "call"
  /\ \E p \in Answers \cup (IF "llm" \in Faults THEN {"none"} ELSE {}) :
       join' = [attempt |-> 0, payload |-> p]
  /\ pc' = "leave"
  /\ UNCHANGED <<job, batches, work, clock, files, told>>

\* The timer that was put aside is not armed again.
LeaveJoin_Forget ==
  /\ pc = "leave"
  /\ pc' = "merge"
  /\ timer' = IF job.mode = "api" THEN "none" ELSE timer
  /\ outer' = "none"
  /\ UNCHANGED <<job, batches, work, join, rang, files, told>>

\* finally.
LeaveJoin ==
  /\ pc = "leave"
  /\ pc' = "merge"
  /\ timer' = IF job.mode = "api" THEN outer ELSE timer
  /\ outer' = "none"
  /\ UNCHANGED <<job, batches, work, join, rang, files, told>>

\* The hard timeout is no Exception: nothing in the call catches it, and outside of
\* the call, while the timer is being given back, nothing catches it at all.
HardAlarm ==
  /\ "alarm" \in Faults /\ timer = "hard"
  /\ timer' = "none"
  /\ \/ /\ pc = "call" /\ pc' = "leave"
        /\ join' = [join EXCEPT !.attempt = 0] /\ UNCHANGED <<told, next>>
     \/ pc = "leave" /\ End("escaped", "none") /\ UNCHANGED join
  /\ UNCHANGED <<job, batches, work, outer, rang, file>>

OneByOne == Concurrency = 1 \/ Len(work) = 1

\* The timeout of the RQ worker is an Exception.  Where the main thread is inside a
\* call it is taken for a failure of that call; a pool is left to end first; and while
\* the timer is being taken for the join, its handler is already the hard timeout's
\* and outside of the call.
WorkerAlarm ==
  /\ "alarm" \in Faults /\ timer = "worker"
  /\ timer' = "none" /\ rang' = TRUE
  /\ \/ /\ pc = "analyse" /\ OneByOne /\ Running # {}
        /\ work' = [b \in DOMAIN work |-> IF b \in Running
                      THEN Ended("local") ELSE work[b]]
        /\ UNCHANGED <<pc, join, told, next>>
     \/ /\ pc = "analyse" /\ OneByOne /\ Running = {}
        /\ Fail /\ UNCHANGED <<work, join>>
     \/ /\ pc = "analyse" /\ Analysed /\ job.mode = "api"
        /\ End("escaped", "none") /\ UNCHANGED <<work, join>>
     \/ /\ pc = "analyse" /\ ~OneByOne
        /\ pc' = "drain" /\ UNCHANGED <<work, join, told, next>>
     \/ /\ pc \in {"call", "leave"}
        /\ \/ pc' = "leave" /\ join' = [attempt |-> 0, payload |-> "none"]
           \/ pc = "call" /\ UNCHANGED <<pc, join>>
        /\ UNCHANGED <<work, told, next>>
     \/ /\ pc \in {"start", "split", "merge", "write"}
        /\ Fail /\ UNCHANGED <<work, join>>
  /\ UNCHANGED <<job, batches, outer, file>>

Drained ==
  /\ pc = "drain" /\ Analysed
  /\ Fail
  /\ UNCHANGED <<job, batches, work, join, clock, file>>

-----------------------------------------------------------------------------
(* _local_aggregate_payload, _normalize_hermes_payload and the files.      *)

\* The counts of every answer are read as numbers.
Odd == join.payload = "odd" \/ \E b \in DOMAIN work : work[b].payload = "odd"

\* Nothing handles an answer that cannot be counted.
Merge_NoHandler ==
  /\ pc = "merge" /\ ~Odd
  /\ pc' = "write"
  /\ UNCHANGED <<job, batches, work, join, clock, files, told>>

Merge ==
  /\ pc = "merge"
  /\ IF Odd THEN Fail ELSE pc' = "write" /\ UNCHANGED <<told, next>>
  /\ UNCHANGED <<job, batches, work, join, clock, file>>

\* The local join is not mentioned.
SourceName_BatchesOnly ==
  IF \E b \in DOMAIN work : work[b].payload = "local" THEN "partial-local-batch" ELSE "model"

\* _source_name.
SourceName ==
  IF join.payload = "none" THEN "local-aggregate"
  ELSE IF \E b \in DOMAIN work : work[b].payload = "local" THEN "partial-local-batch"
  ELSE "model"

WriteFile ==
  /\ pc = "write" /\ next <= Len(Files)
  /\ \/ file' = [file EXCEPT ![Files[next]] = "model"] /\ next' = next + 1
        /\ UNCHANGED <<pc, told>>
     \/ "write" \in Faults /\ Fail /\ UNCHANGED file
  /\ UNCHANGED <<job, batches, work, join, clock>>

Publish ==
  /\ pc = "write" /\ next > Len(Files)
  /\ End("success", SourceName)
  /\ UNCHANGED <<job, batches, work, join, clock, file>>

-----------------------------------------------------------------------------
(* _run_rule_fallback.                                                     *)

\* If the answer of the script that counts the terms cannot be read, its terms are
\* not found.
RuleFile ==
  /\ pc = "rules" /\ next <= Len(Files)
  /\ \/ /\ \/ file' = [file EXCEPT ![Files[next]] = "rules"]
           \/ Files[next] = "terms" /\ "script" \in Faults /\ UNCHANGED file
        /\ next' = next + 1 /\ UNCHANGED <<pc, told>>
     \/ "script" \in Faults /\ End("failed", "none") /\ UNCHANGED file
  /\ UNCHANGED <<job, batches, work, join, clock>>

Degrade ==
  /\ pc = "rules" /\ next > Len(Files)
  /\ End("degraded", "rules")
  /\ UNCHANGED <<job, batches, work, join, clock, file>>

-----------------------------------------------------------------------------
ReportStep ==
  \/ Start \/ Split \/ CallStep \/ BeginJoin \/ RetryJoin \/ EndJoin \/ LeaveJoin
  \/ Drained \/ Merge \/ WriteFile \/ Publish \/ RuleFile \/ Degrade

HermesNext == ReportStep \/ HardAlarm \/ WorkerAlarm

\* Every call and every script comes back.  The timeout of a call is one for each read
\* of its answer, so that this assumes a server that does not answer for ever.
HermesSpec == HermesInit /\ [][HermesNext]_vars /\ WF_vars(ReportStep)

-----------------------------------------------------------------------------
(* Properties.                                                             *)

\* However often batches are cut, every comment is in exactly one of them, in order;
\* none is empty, and one that is too big for a prompt holds a single comment.
BatchesPartition ==
  batches # <<>> =>
    /\ FlattenSeq(batches) = [i \in DOMAIN job.facts |-> i]
    /\ \A b \in DOMAIN batches :
         /\ job.facts # <<>> => batches[b] # <<>>
         /\ work # <<>> /\ Len(batches[b]) > 1 => Bytes(batches[b], Len(batches)) <= Budget

\* A result does not pass for more than it is: one that names the model alone owes
\* nothing to a local batch or a local join, a success is written by the model to the
\* last file, and nothing of a failed attempt is left in a degraded report, but the
\* terms if the script's own cannot be found.
ResultIsHonest ==
  /\ told.status = "success" =>
       /\ \A f \in File : file[f] = "model"
       /\ told.source # "local-aggregate" => join.payload = "model"
       /\ told.source = "model" => \A b \in DOMAIN work : work[b].payload = "model"
  /\ told.status = "degraded" => \A f \in File \ {"terms"} : file[f] = "rules"

\* The timer that both timeouts share: the worker's deadline is in force again when the
\* report ends, unless it has come or the hard timeout came while it was given back;
\* and the hard timeout never outlives the call it is for.
DeadlineIsKept ==
  /\ pc = "done" /\ job.kind = "time" /\ ~rang /\ told.status # "escaped" => timer = "worker"
  /\ timer = "hard" => pc \in {"call", "leave"}

\* Every report ends.
ReportEnds == <>(pc = "done")
=============================================================================
