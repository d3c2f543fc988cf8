---------------------------- MODULE XiaodControl ----------------------------
(***************************************************************************)
(* A task of A君 that 小D works on, and the job behind it.  The reconciler *)
(* polls the job of a running (or pausing) task and writes what it sees;   *)
(* pauses and resumes are approved in Paperclip and then carried out by    *)
(* XiaodTaskControl, which asks 小D, and writes the task.  Every write goes *)
(* through the lifecycle matrix; what it refuses is thrown.                *)
(*                                                                         *)
(* A call to 小D takes effect or not, and its answer may be lost.  A        *)
(* confirmed approval is tried again until it is written or expires.  A    *)
(* task that is done, or waits for someone, is not polled again.  One whose *)
(* delivery is held for an independent review goes on as running.          *)
(*                                                                         *)
(* A resume is asked for, approved and called for by and by: by then a     *)
(* pause, a poll, or a pipeline that was about to stop or go on, has done  *)
(* so (Quiet).                                                             *)
(***************************************************************************)
EXTENDS XiaodJob, TaskLifecycle

CONSTANTS MaxUnavailable,  \* MAX_UNAVAILABLE_POLLS
          MaxOutages       \* bound on lost answers and restarts

ASSUME PollsAssumption == MaxUnavailable \in Nat \ {0}
ASSUME OutagesAssumption == MaxOutages \in Nat

VARIABLES
    task,      \* the task's status
    failures,  \* execution.polling.consecutiveFailures
    review,    \* is a review of what was delivered still to give its verdict?
    poll,      \* the poll under way: what it saw, and failures as it read it
    control,   \* per action: its approval, the control under way, whether the job has stopped
    outages    \* lost answers and restarts so far

ownVars == <<task, failures, review, poll, control, outages>>
vars == <<jobVars, ownVars>>

Actions == {"pause", "resume"}

NoPoll == [saw |-> "none", failures |-> 0]
NoControl == [pc |-> "none", stopped |-> FALSE]

\* Approvals that wait for a human, and those that are to be carried out.
Undecided == {"none", "pending"}
UnderWay == {"observe", "call", "await", "recheck", "commit"}

TypeOK ==
    /\ JobTypeOK
    /\ task \in {"running", "pausing", "paused", "waiting_approval", "needs_input", "waiting_test",
                "succeeded", "failed"}
    /\ failures \in 0 .. MaxUnavailable
    /\ review \in BOOLEAN
    /\ poll \in [saw : JobStatuses \cup {"none", "error"}, failures : 0 .. MaxUnavailable]
    /\ control \in [Actions -> [pc : Undecided \cup {"confirmed"} \cup UnderWay,
                                stopped : BOOLEAN]]
    /\ outages \in 0 .. MaxOutages

Init ==
    /\ JobInit
    /\ task = "running" /\ failures = 0 /\ review = FALSE
    /\ poll = NoPoll
    /\ control = [a \in Actions |-> NoControl]
    /\ outages = 0

Outage == outages < MaxOutages /\ outages' = outages + 1

-----------------------------------------------------------------------------
(* The reconciler *)


\* reconcileTask asks for the job of a task that is due.
PollSee ==
    /\ poll = NoPoll /\ task \in {"running", "pausing"}
    /\ \/ poll' = [saw |-> job.status, failures |-> failures] /\ UNCHANGED outages
       \/ Outage /\ poll' = [saw |-> "error", failures |-> failures]
    /\ UNCHANGED <<jobVars, task, failures, review, control>>

\* Mutant of TaskStatusOf: a job that waits for a review is done.
TaskStatusDone(status) ==
    CASE status \in {"completed", "awaiting_review"} -> {"succeeded", "running"}
      [] status \in {"failed", "awaiting_delivery"} -> {"failed"}
      [] status \in {"paused", "pausing"} -> {status}
      [] OTHER -> {"running"}

\* The status of the task that a job's status stands for.  What a completed job has
\* delivered may be found incomplete, or be held for an independent review: then the
\* task goes on as running (prepareDeliveryQualityResult).
TaskStatusOf(status) ==
    CASE status = "completed" -> {"succeeded", "running", "waiting_test", "needs_input"}
      [] status = "awaiting_review" -> {"waiting_approval"}
      [] status = "awaiting_delivery" -> {"needs_input"}
      [] status = "failed" -> {"failed", "needs_input"}
      [] status \in {"paused", "pausing"} -> {status}
      [] OTHER -> {"running"}

\* persist of what was seen, if the matrix allows it, and the start of a review (one
\* that cannot be started leaves the task in waiting_test).  A task held for review is
\* polled again and held again.
PollWrite ==
    /\ poll.saw \in JobStatuses
    /\ \E to \in TaskStatusOf(poll.saw) :
          /\ TransitionAllowed(task, to)
          /\ task' = to
          /\ review' = (review \/ (poll.saw = "completed" /\ to = "running"))
    /\ failures' = 0
    /\ poll' = NoPoll
    /\ UNCHANGED <<jobVars, control, outages>>

\* Mutant of Exhausted: off by one.
ExhaustedLater == poll.failures + 1 > MaxUnavailable

Exhausted == poll.failures + 1 >= MaxUnavailable

\* deferUnavailableTask, for an error of the call or a write that was refused; its own
\* write may be refused too.
Defer ==
    /\ poll # NoPoll
    /\ poll.saw = "error" \/ \E to \in TaskStatusOf(poll.saw) : ~ TransitionAllowed(task, to)
    /\ poll' = NoPoll
    /\ LET to == IF Exhausted THEN "failed" ELSE "running"
       IN IF TransitionAllowed(task, to)
          THEN /\ task' = to
               /\ failures' = poll.failures + 1
          ELSE UNCHANGED <<task, failures>>
    /\ UNCHANGED <<jobVars, review, control, outages>>

\* The review, or that of a revision it has asked for, accepts the delivery, or stops or
\* fails.  (A revision is a new task, and leaves this one as it is.)  A verdict the
\* matrix refuses is thrown.
Verdict ==
    /\ review
    /\ \E to \in {"succeeded", "waiting_test"} :
          /\ TransitionAllowed(task, to)
          /\ task' = to
    /\ review' = FALSE
    /\ UNCHANGED <<jobVars, failures, poll, control, outages>>

-----------------------------------------------------------------------------
(* Approval and control *)

Set(a, pc) == control' = [control EXCEPT ![a].pc = pc]

Quiet ==
    /\ poll = NoPoll /\ request = NoRequest
    /\ control["pause"].pc \notin UnderWay
    /\ \A p \in Pipes : pipes[p] \in {"off", "work"}

\* request.
Ask(a) ==
    /\ control[a].pc = "none"
    /\ IF a = "pause" THEN task \in {"running", "pausing"} ELSE task = "paused" /\ Quiet
    /\ Set(a, "pending")
    /\ UNCHANGED <<jobVars, task, failures, review, poll, outages>>

\* The human approves or rejects.
Decide(a) ==
    /\ control[a].pc = "pending"
    /\ Set(a, "confirmed") \/ Set(a, "none")
    /\ UNCHANGED <<jobVars, task, failures, review, poll, outages>>

\* An approval that has not been carried out within a day expires.
Expire(a) ==
    /\ control[a].pc \in {"pending", "confirmed"}
    /\ Set(a, "none")
    /\ UNCHANGED <<jobVars, task, failures, review, poll, outages>>

\* resolve, for a confirmed approval, now or by the reconciler of decisions.
Resolve(a) ==
    /\ control[a].pc = "confirmed"
    /\ Set(a, "observe")
    /\ UNCHANGED <<jobVars, task, failures, review, poll, outages>>

\* xiaodControlOutcome: is there nothing (more) to ask of 小D?
Settled(a) == job.status \in Ended \/ IF a = "pause" THEN job.status \in {"pausing", "paused"}
                                                     ELSE job.status # "paused"

\* getJob before the call, and after one that failed.
Observe(a) ==
    /\ control[a].pc \in {"observe", "recheck"}
    /\ control' = [control EXCEPT ![a] =
          IF Settled(a) THEN [pc |-> "commit", stopped |-> job.status = "paused"]
          ELSE [NoControl EXCEPT !.pc = IF control[a].pc = "observe" THEN "call" ELSE "confirmed"]]
    /\ UNCHANGED <<jobVars, task, failures, review, poll, outages>>

\* The call is accepted by 小D, or refused.
Call(a) ==
    /\ control[a].pc = "call"
    /\ a = "resume" => Quiet
    /\ IF Accepts(a) THEN Receive(a) /\ Set(a, "await")
       ELSE UNCHANGED jobVars /\ Set(a, "recheck")
    /\ UNCHANGED <<task, failures, review, poll, outages>>

\* It is answered with the job as updated.
Answered(a) ==
    /\ control[a].pc = "await" /\ request = NoRequest
    /\ IF Settled(a)
       THEN control' = [control EXCEPT ![a] = [pc |-> "commit", stopped |-> job.status = "paused"]]
       ELSE Set(a, "recheck")
    /\ UNCHANGED <<jobVars, task, failures, review, poll, outages>>

\* An answer is lost.
Lost(a) ==
    /\ control[a].pc \in {"observe", "await", "recheck"}
    /\ Outage
    /\ Set(a, IF control[a].pc = "await" THEN "recheck" ELSE "confirmed")
    /\ UNCHANGED <<jobVars, task, failures, review, poll>>

CommitStatus(a) ==
    IF a = "resume" THEN "running" ELSE IF control[a].stopped THEN "paused" ELSE "pausing"

\* The approval and the task are written together, or neither.
Commit(a) ==
    /\ control[a].pc = "commit"
    /\ IF TransitionAllowed(task, CommitStatus(a))
       THEN /\ task' = CommitStatus(a)
            /\ failures' = 0
            /\ control' = [control EXCEPT ![a] = NoControl]
       ELSE /\ control' = [control EXCEPT ![a] = [NoControl EXCEPT !.pc = "confirmed"]]
            /\ UNCHANGED <<task, failures>>
    /\ UNCHANGED <<jobVars, review, poll, outages>>

\* A君 is restarted; approvals are kept.
OwnRestart ==
    /\ Outage
    /\ poll' = NoPoll
    /\ control' = [a \in Actions |->
          IF control[a].pc \in UnderWay THEN [NoControl EXCEPT !.pc = "confirmed"] ELSE control[a]]
    /\ UNCHANGED <<jobVars, task, failures, review>>

-----------------------------------------------------------------------------
(* The two together *)

\* The owner retries a failed job on 小D's own page (not, as a bound, after a request was
\* overtaken).
PageRetry == ~ overtaken /\ Receive("retry") /\ UNCHANGED ownVars

XiaodRestart ==
    /\ Outage
    /\ JobRestart
    /\ UNCHANGED <<task, failures, review, poll, control>>

Control(a) ==
    \/ Ask(a) \/ Decide(a) \/ Expire(a)
    \/ Resolve(a) \/ Observe(a) \/ Call(a) \/ Answered(a) \/ Lost(a) \/ Commit(a)

Next ==
    \/ PollSee \/ PollWrite \/ Defer \/ Verdict
    \/ \E a \in Actions : Control(a)
    \/ OwnRestart \/ XiaodRestart
    \/ PageRetry
    \/ JobStep /\ UNCHANGED ownVars

\* The reconciler polls, and writes what it has seen; 小D goes on.  A review need never
\* come to a verdict.
Fairness == WF_vars(PollSee) /\ WF_vars(PollWrite \/ Defer) /\ JobFairness

Spec == Init /\ [][Next]_vars /\ Fairness

-----------------------------------------------------------------------------
(* Properties *)

\* A task that has succeeded has a job that is completed.
SucceededIsTrue == task = "succeeded" => job.status = "completed" \/ overtaken

\* The task goes on because what its job has delivered is under review.
HeldForReview == task = "running" /\ review /\ job.status = "completed"


\* deferUnavailableTask, "多次无法确认小D任务状态": a task fails over a job that was not seen
\* as failed only if a call or its answer was lost.
UnavailableIsTrue ==
    [][task # "failed" /\ task' = "failed" /\ poll.saw # "failed" => outages > 0]_vars
=============================================================================
