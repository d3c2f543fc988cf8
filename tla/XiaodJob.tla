------------------------------ MODULE XiaodJob ------------------------------
(***************************************************************************)
(* One media job of 小D: its record in the job store, the pipelines that   *)
(* work on it, and the requests that pause, resume or retry it.  A request *)
(* reads the job first and queues its update, so another update may come   *)
(* between.  A pipeline looks for a pause before it begins a stage and at  *)
(* its safe points; the status it then writes may overwrite "pausing", but *)
(* not the request itself (pause.requestedAt).                             *)
(*                                                                         *)
(* "busy" stands for the active statuses but queued, pausing and           *)
(* analyzing_visual ("analyzing").  The checks of a pipeline are one step  *)
(* with the update they make; the stage that follows is another.  One      *)
(* request is under way at a time.                                         *)
(***************************************************************************)
EXTENDS Naturals

CONSTANT MaxPipes   \* bound on the pipelines that work at the same time

ASSUME PipesAssumption == MaxPipes \in Nat

VARIABLES
    job,      \* status and pause.requestedAt
    pipes,    \* where each pipeline is
    request,  \* the request whose update has been queued: what it has read
    overtaken \* another update came between a request's read and its own

jobVars == <<job, pipes, request, overtaken>>

Pipes == 1 .. MaxPipes

Ended == {"completed", "failed", "awaiting_review", "awaiting_delivery"}
Active == {"queued", "busy", "analyzing", "pausing"}
JobStatuses == Active \cup Ended \cup {"paused"}

Requests == {"pause", "resume", "retry"}
NoRequest == [kind |-> "none", read |-> "none"]

JobTypeOK ==
    /\ job \in [status : JobStatuses, wanted : BOOLEAN]
    /\ pipes \in [Pipes -> {"off", "begin", "check", "stage", "work", "final"}]
    /\ request \in [kind : Requests \cup {"none"}, read : JobStatuses \cup {"none"}]
    /\ overtaken \in BOOLEAN

\* A job just created, with its pipeline.
JobInit ==
    /\ job = [status |-> "queued", wanted |-> FALSE]
    /\ pipes = [p \in Pipes |-> IF p = 1 THEN "begin" ELSE "off"]
    /\ request = NoRequest
    /\ overtaken = FALSE

At(p, where) == pipes[p] = where
Goto(p, where) == pipes' = [pipes EXCEPT ![p] = where]

-----------------------------------------------------------------------------
(* JobPauseController and the routes *)

\* Mutant of Accepts: a job is resumed before it has stopped.
AcceptsEarly(kind) ==
    CASE kind = "pause" -> job.status \in Active \ {"analyzing"}
      [] kind = "resume" -> job.status \in {"pausing", "paused"}
      [] kind = "retry" -> job.status = "failed"

Accepts(kind) ==
    CASE kind = "pause" -> job.status \in Active \ {"analyzing"}
      [] kind = "resume" -> job.status = "paused"
      [] kind = "retry" -> job.status = "failed"

\* The request reads the job and is accepted.
Receive(kind) ==
    /\ request = NoRequest
    /\ Accepts(kind)
    /\ request' = [kind |-> kind, read |-> job.status]
    /\ UNCHANGED <<job, pipes, overtaken>>

\* A resume or retry also starts a pipeline.
StartPipe ==
    \E p \in Pipes : At(p, "off") /\ (\A q \in 1 .. p - 1 : ~ At(q, "off")) /\ Goto(p, "begin")

\* Its update: a job read as queued is paused at once.
ApplyPause ==
    /\ request.kind = "pause"
    /\ job' = [status |-> IF request.read = "queued" THEN "paused" ELSE "pausing", wanted |-> TRUE]
    /\ overtaken' = (overtaken \/ job.status # request.read)
    /\ request' = NoRequest
    /\ UNCHANGED pipes

ApplyResume ==
    /\ request.kind = "resume"
    /\ job' = [status |-> "queued", wanted |-> FALSE]
    /\ overtaken' = (overtaken \/ job.status # request.read)
    /\ StartPipe
    /\ request' = NoRequest

\* retryPatch leaves the pause alone.
ApplyRetry ==
    /\ request.kind = "retry"
    /\ job' = [job EXCEPT !.status = "queued"]
    /\ StartPipe
    /\ request' = NoRequest
    /\ UNCHANGED overtaken

-----------------------------------------------------------------------------
(* The pipeline *)

\* Mutant of Checkpoint: only the status says that a pause is wanted.
CheckpointStatus(p) ==
    /\ pipes[p] \in {"begin", "check"}
    /\ IF job.status \in {"paused", "pausing"}
       THEN job' = [job EXCEPT !.status = "paused"] /\ Goto(p, "off")
       ELSE /\ UNCHANGED job
            /\ \/ Goto(p, "stage")
               \/ At(p, "check") /\ Goto(p, "final")
    /\ UNCHANGED <<request, overtaken>>

\* checkpoint, at a safe point and before a stage; a pause ends the pipeline.
Checkpoint(p) ==
    /\ pipes[p] \in {"begin", "check"}
    /\ IF job.status \in {"paused", "pausing"} \/ job.wanted
       THEN job' = [job EXCEPT !.status = "paused"] /\ Goto(p, "off")
       ELSE /\ UNCHANGED job
            /\ \/ Goto(p, "stage")
               \/ At(p, "check") /\ Goto(p, "final")
    /\ UNCHANGED <<request, overtaken>>

\* stage: the update that follows its checkpoint.
Stage(p) ==
    /\ At(p, "stage")
    /\ \E status \in {"busy", "analyzing"} : job' = [job EXCEPT !.status = status]
    /\ Goto(p, "work")
    /\ UNCHANGED <<request, overtaken>>

Works(p) ==
    /\ At(p, "work")
    /\ Goto(p, "check")
    /\ UNCHANGED <<job, request, overtaken>>

\* The end of run: delivered, left to a human, or failed.
Final(p) ==
    /\ At(p, "final")
    /\ \E status \in {"completed", "awaiting_review", "awaiting_delivery"} :
          job' = [job EXCEPT !.status = status]
    /\ Goto(p, "off")
    /\ UNCHANGED <<request, overtaken>>

\* What a job that broke off becomes: failed, or what its Lark delivery has come to
\* (knownLarkDeliveryRecoveryPatch).
Recovered == {"failed", "completed", "awaiting_review", "awaiting_delivery"}

Fail(p) ==
    /\ pipes[p] \in {"stage", "work", "final"}
    /\ \E status \in Recovered : job' = [job EXCEPT !.status = status]
    /\ Goto(p, "off")
    /\ UNCHANGED <<request, overtaken>>

\* 小D is restarted (init): what was active has broken off.
JobRestart ==
    /\ \E status \in Recovered :
          job' = [job EXCEPT !.status = IF @ \in Active THEN status ELSE @]
    /\ pipes' = [p \in Pipes |-> "off"]
    /\ request' = NoRequest
    /\ UNCHANGED overtaken

Pipeline(p) == Checkpoint(p) \/ Stage(p) \/ Works(p) \/ Final(p) \/ Fail(p)

JobStep ==
    \/ ApplyPause \/ ApplyResume \/ ApplyRetry
    \/ \E p \in Pipes : Pipeline(p)

\* A pipeline goes on, and does not work for ever; queued updates are applied.
JobFairness ==
    /\ WF_jobVars(ApplyPause) /\ WF_jobVars(ApplyResume) /\ WF_jobVars(ApplyRetry)
    /\ \A p \in Pipes : WF_jobVars(Pipeline(p))

-----------------------------------------------------------------------------
(* Properties *)

\* However a job is paused, resumed, retried and restarted, at most one pipeline works
\* on it; unless a request was overtaken.
OnePipeline == overtaken \/ \A p, q \in Pipes : At(p, "off") \/ At(q, "off") \/ p = q

\* A pause that has been requested is not lost, though stages overwrite the status:
\* the job stops, ends, or is resumed; unless a request was overtaken.
PauseTakesEffect == job.wanted ~> overtaken \/ ~ job.wanted \/ job.status \in Ended \cup {"paused"}
=============================================================================
