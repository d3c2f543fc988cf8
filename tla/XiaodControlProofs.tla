-------------------------- MODULE XiaodControlProofs --------------------------
(***************************************************************************)
(* 小D works with one pipeline on a job, and A君 shows a task as succeeded  *)
(* only over a completed job, as long as no request is overtaken: for any  *)
(* number of pipelines, polls and outages.                                 *)
(***************************************************************************)
EXTENDS XiaodControl, TLAPS

\* A pipeline and the status of its job go together: a job that waits or has ended has
\* none, and a paused one only a pipeline that has not begun its stage.
Where ==
    \A p \in Pipes :
        /\ pipes[p] = "begin" => job.status \in {"queued", "paused"}
        /\ pipes[p] = "stage" => job.status \in Active \cup {"paused"}
        /\ pipes[p] \in {"work", "check", "final"} => job.status \in {"busy", "analyzing", "pausing"}

Alone == \A p, q \in Pipes : At(p, "off") \/ At(q, "off") \/ p = q

\* A pause is asked of an active job; a resume or a retry that has been accepted finds the
\* job as it has read it, and nobody at work on it.
Asked ==
    /\ request.kind = "pause" => request.read \in Active
    /\ request.kind \in {"resume", "retry"} =>
          /\ job.status = IF request.kind = "resume" THEN "paused" ELSE "failed"
          /\ \A p \in Pipes : At(p, "off")

Orderly == Where /\ Alone /\ Asked

\* A job that is seen as completed, or whose delivery is under review, is completed for
\* good.
SeenIsTrue == poll.saw = "completed" \/ review => job.status = "completed"

\* The counters stay within their bounds.
Counted ==
    /\ poll.failures < MaxUnavailable
    /\ failures < MaxUnavailable \/ task = "failed"

IInv == TypeOK /\ Counted /\ (~ overtaken => Orderly /\ SeenIsTrue /\ SucceededIsTrue)

-----------------------------------------------------------------------------
\* What may happen to a job and its pipelines; a resume is accepted in quiet.
JobChange ==
    \/ \E kind \in Requests : Receive(kind) /\ (kind = "resume" => Quiet)
    \/ JobStep \/ JobRestart
    \/ UNCHANGED jobVars

LEMMA JobTypeStep ==
  ASSUME JobTypeOK, JobChange
  PROVE  JobTypeOK'
<1> USE DEF JobTypeOK, JobStatuses, Active, Ended, Requests
<1>1. CASE \E kind \in Requests : Receive(kind)
  BY <1>1 DEF Receive, Accepts
<1>2. CASE ApplyPause
  <2>1. overtaken' \in BOOLEAN
    BY <1>2 DEF ApplyPause
  <2> QED
    BY <1>2, <2>1 DEF ApplyPause, NoRequest
<1>3. CASE ApplyResume
  <2>1. overtaken' \in BOOLEAN
    BY <1>3 DEF ApplyResume
  <2> QED
    BY <1>3, <2>1 DEF ApplyResume, StartPipe, Goto, NoRequest
<1>4. CASE ApplyRetry
  BY <1>4 DEF ApplyRetry, StartPipe, Goto, NoRequest
<1>5. CASE \E p \in Pipes : Pipeline(p)
  BY <1>5 DEF Pipeline, Checkpoint, Stage, Works, Final, Fail, Recovered, Goto
<1>6. CASE JobRestart
  BY <1>6 DEF JobRestart, Recovered, NoRequest
<1>7. CASE UNCHANGED jobVars
  BY <1>7 DEF jobVars
<1> QED
  BY <1>1, <1>2, <1>3, <1>4, <1>5, <1>6, <1>7 DEF JobChange, JobStep

\* A request that is not overtaken finds a job at rest, or lets its pipeline go on.
LEMMA RequestStep ==
  ASSUME JobTypeOK, Orderly, ~ overtaken', ApplyPause \/ ApplyResume \/ ApplyRetry
  PROVE  Orderly'
<1> USE DEF JobTypeOK, Orderly, Where, Alone, Asked, At, Active, Ended, JobStatuses, NoRequest
<1>1. CASE ApplyPause
  <2>1. job.status = request.read /\ UNCHANGED pipes /\ request' = NoRequest
    BY <1>1 DEF ApplyPause
  <2>2. job'.status = IF job.status = "queued" THEN "paused" ELSE "pausing"
    BY <1>1, <2>1 DEF ApplyPause
  <2>3. job.status \in Active
    BY <1>1, <2>1 DEF ApplyPause
  <2>4. Where'
    BY <2>1, <2>2, <2>3
  <2>5. Alone' /\ Asked'
    BY <2>1
  <2> QED
    BY <2>4, <2>5
<1>2. CASE ApplyResume \/ ApplyRetry
  <2>1. (\A p \in Pipes : At(p, "off")) /\ job'.status = "queued" /\ request' = NoRequest
    BY <1>2 DEF ApplyResume, ApplyRetry
  <2>2. PICK p \in Pipes : pipes' = [pipes EXCEPT ![p] = "begin"]
    BY <1>2 DEF ApplyResume, ApplyRetry, StartPipe, Goto
  <2> QED
    BY <2>1, <2>2
<1> QED
  BY <1>1, <1>2

\* The one pipeline goes on.
LEMMA PipelineStep ==
  ASSUME JobTypeOK, Orderly, NEW p \in Pipes, Pipeline(p)
  PROVE  Orderly'
<1> USE DEF JobTypeOK, Orderly, Where, Alone, Asked, At, Active, Ended, JobStatuses
<1>1. pipes[p] # "off"
  BY DEF Pipeline, Checkpoint, Stage, Works, Final, Fail
<1>2. \A q \in Pipes : q # p => pipes[q] = "off"
  BY <1>1
<1>3. request.kind \notin {"resume", "retry"} /\ UNCHANGED request
  BY <1>1 DEF Pipeline, Checkpoint, Stage, Works, Final, Fail
<1>4. CASE Checkpoint(p)
  BY <1>2, <1>3, <1>4 DEF Checkpoint, Goto
<1>5. CASE Stage(p)
  BY <1>2, <1>3, <1>5 DEF Stage, Goto
<1>6. CASE Works(p)
  BY <1>2, <1>3, <1>6 DEF Works, Goto
<1>7. CASE Final(p) \/ Fail(p)
  BY <1>2, <1>3, <1>7 DEF Final, Fail, Goto
<1> QED
  BY <1>4, <1>5, <1>6, <1>7 DEF Pipeline

LEMMA OrderlyStep ==
  ASSUME JobTypeOK, Orderly, JobChange, ~ overtaken'
  PROVE  Orderly'
<1>1. CASE ApplyPause \/ ApplyResume \/ ApplyRetry
  BY <1>1, RequestStep
<1>2. CASE \E p \in Pipes : Pipeline(p)
  BY <1>2, PipelineStep
<1>3. CASE \E kind \in Requests : Receive(kind) /\ (kind = "resume" => Quiet)
  <2> PICK kind \in Requests : Receive(kind) /\ (kind = "resume" => Quiet)
    BY <1>3
  <2> USE DEF Receive, Accepts, JobTypeOK, Orderly, Where, Alone, Asked, At, Active, Requests
  <2>1. CASE kind = "resume"
    BY <2>1 DEF Quiet
  <2>2. CASE kind # "resume"
    BY <2>2 DEF Ended, JobStatuses
  <2> QED
    BY <2>1, <2>2
<1>5. CASE JobRestart
  BY <1>5 DEF JobRestart, NoRequest, JobTypeOK, Orderly, Where, Alone, Asked, At
<1>6. CASE UNCHANGED jobVars
  BY <1>6 DEF jobVars, Orderly, Where, Alone, Asked, At
<1> QED
  BY <1>1, <1>2, <1>3, <1>5, <1>6 DEF JobChange, JobStep

\* Nobody takes up a completed job again.
LEMMA CompletedStays ==
  ASSUME JobTypeOK, Orderly, JobChange, ~ overtaken', job.status = "completed"
  PROVE  job'.status = "completed"
<1> USE DEF JobTypeOK, Orderly, Where, Asked, At, Active
<1>1. \A p \in Pipes : pipes[p] = "off"
  OBVIOUS
<1>2. CASE \E p \in Pipes : Pipeline(p)
  BY <1>1, <1>2 DEF Pipeline, Checkpoint, Stage, Works, Final, Fail
<1>3. CASE ApplyPause \/ ApplyResume \/ ApplyRetry
  BY <1>3 DEF ApplyPause, ApplyResume, ApplyRetry
<1>4. CASE JobRestart
  BY <1>4 DEF JobRestart
<1>5. CASE (\E kind \in Requests : Receive(kind)) \/ UNCHANGED jobVars
  BY <1>5 DEF Receive, jobVars
<1> QED
  BY <1>2, <1>3, <1>4, <1>5 DEF JobChange, JobStep

-----------------------------------------------------------------------------
\* Every step is a change of the job or leaves it alone.
LEMMA JobChanges ==
  ASSUME [Next]_vars
  PROVE  JobChange
<1>1. CASE PollSee \/ PollWrite \/ Defer \/ Verdict \/ OwnRestart
  BY <1>1 DEF PollSee, PollWrite, Defer, Verdict, OwnRestart, JobChange
<1>2. CASE \E a \in Actions : Control(a)
  <2> PICK a \in Actions : Control(a)
    BY <1>2
  <2>1. CASE Call(a)
    <3>1. CASE UNCHANGED jobVars
      BY <3>1 DEF JobChange
    <3>2. CASE Receive(a)
      BY <2>1, <3>2 DEF Call, JobChange, Actions, Requests
    <3> QED
      BY <2>1, <3>1, <3>2 DEF Call
  <2>2. CASE ~ Call(a)
    BY <2>2 DEF Control, Ask, Decide, Expire, Resolve, Observe, Answered, Lost, Commit, JobChange
  <2> QED
    BY <2>1, <2>2
<1>3. CASE XiaodRestart \/ PageRetry \/ JobStep
  BY <1>3 DEF XiaodRestart, PageRetry, JobChange, Requests
<1>4. CASE UNCHANGED vars
  BY <1>4 DEF vars, JobChange
<1> QED
  BY <1>1, <1>2, <1>3, <1>4 DEF Next

Places == Undecided \cup {"confirmed"} \cup UnderWay

Controls == [pc : Places, stopped : BOOLEAN]

OwnTypeOK ==
    /\ task \in {"running", "pausing", "paused", "waiting_approval", "needs_input", "waiting_test",
                "succeeded", "failed"}
    /\ failures \in 0 .. MaxUnavailable /\ review \in BOOLEAN
    /\ poll \in [saw : JobStatuses \cup {"none", "error"}, failures : 0 .. MaxUnavailable]
    /\ control \in [Actions -> Controls]
    /\ outages \in 0 .. MaxOutages

\* A control's record replaced.
LEMMA ControlRecord ==
  ASSUME OwnTypeOK, NEW a \in Actions, NEW r \in Controls, control' = [control EXCEPT ![a] = r]
  PROVE  control' \in [Actions -> Controls]
BY DEF OwnTypeOK

\* A control's record with its place changed.
LEMMA ControlPlace ==
  ASSUME OwnTypeOK, NEW a \in Actions, NEW pc \in Places, Set(a, pc)
  PROVE  control' \in [Actions -> Controls]
BY DEF OwnTypeOK, Set, Controls

LEMMA Cleared ==
  ASSUME NEW place \in Places
  PROVE  [NoControl EXCEPT !.pc = place] \in Controls
BY DEF NoControl, Controls

\* The steps of an approval and its control.
LEMMA ControlStep ==
  ASSUME JobTypeOK, OwnTypeOK, Counted, NEW a \in Actions, Control(a)
  PROVE  OwnTypeOK' /\ Counted'
<1> USE PollsAssumption, OutagesAssumption
<1> DEFINE Rest == UNCHANGED <<task, failures, review, poll, outages>>
<1>1. ASSUME Rest, control' \in [Actions -> Controls]
      PROVE  OwnTypeOK' /\ Counted'
  BY <1>1 DEF OwnTypeOK, Counted
<1>2. CASE Ask(a) \/ Decide(a) \/ Expire(a) \/ Resolve(a)
  <2>1. \E pc \in Places : Set(a, pc)
    BY <1>2 DEF Ask, Decide, Expire, Resolve, Places, Undecided, UnderWay
  <2>2. Rest
    BY <1>2 DEF Ask, Decide, Expire, Resolve
  <2> QED
    BY <1>1, <2>1, <2>2, ControlPlace
<1>3. CASE Observe(a)
  <2>1. \E r \in Controls : control' = [control EXCEPT ![a] = r]
    <3>1. CASE Settled(a)
      <4>1. control' = [control EXCEPT ![a] = [pc |-> "commit", stopped |-> job.status = "paused"]]
        BY <1>3, <3>1 DEF Observe
      <4>2. [pc |-> "commit", stopped |-> job.status = "paused"] \in Controls
        BY DEF Controls, Places, UnderWay
      <4> QED
        BY <4>1, <4>2
    <3>2. CASE ~ Settled(a)
      <4>1. control' = [control EXCEPT ![a] =
               [NoControl EXCEPT !.pc = IF control[a].pc = "observe" THEN "call" ELSE "confirmed"]]
        BY <1>3, <3>2 DEF Observe
      <4> QED
        BY <4>1, Cleared DEF Places, UnderWay
    <3> QED
      BY <3>1, <3>2
  <2>2. Rest
    BY <1>3 DEF Observe
  <2> QED
    BY <1>1, <2>1, <2>2, ControlRecord
<1>4. CASE Call(a)
  <2>1. \E pc \in Places : Set(a, pc)
    BY <1>4 DEF Call, Places, Undecided, UnderWay
  <2>2. Rest
    BY <1>4 DEF Call
  <2> QED
    BY <1>1, <2>1, <2>2, ControlPlace
<1>5. CASE Answered(a)
  <2>1. \/ \E pc \in Places : Set(a, pc)
        \/ \E r \in Controls : control' = [control EXCEPT ![a] = r]
    BY <1>5 DEF Answered, Controls, Places, Undecided, UnderWay
  <2>2. Rest
    BY <1>5 DEF Answered
  <2> QED
    BY <1>1, <2>1, <2>2, ControlPlace, ControlRecord
<1>6. CASE Lost(a)
  <2>1. \E pc \in Places : Set(a, pc)
    BY <1>6 DEF Lost, Places, Undecided, UnderWay
  <2>2. control' \in [Actions -> Controls]
    BY <2>1, ControlPlace
  <2>3. UNCHANGED <<task, failures, review, poll>> /\ outages < MaxOutages /\ outages' = outages + 1
    BY <1>6 DEF Lost, Outage
  <2> QED
    BY <2>2, <2>3 DEF OwnTypeOK, Counted
<1>7. CASE Commit(a)
  <2>1. \E r \in Controls : control' = [control EXCEPT ![a] = r]
    <3>1. CASE TransitionAllowed(task, CommitStatus(a))
      <4>1. control' = [control EXCEPT ![a] = NoControl]
        BY <1>7, <3>1 DEF Commit
      <4> QED
        BY <4>1 DEF NoControl, Controls, Places, Undecided
    <3>2. CASE ~ TransitionAllowed(task, CommitStatus(a))
      <4>1. control' = [control EXCEPT ![a] = [NoControl EXCEPT !.pc = "confirmed"]]
        BY <1>7, <3>2 DEF Commit
      <4> QED
        BY <4>1, Cleared DEF Places
    <3> QED
      BY <3>1, <3>2
  <2>2. control' \in [Actions -> Controls]
    BY <2>1, ControlRecord
  <2>3. CASE task' = CommitStatus(a) /\ failures' = 0
    BY <1>7, <2>2, <2>3 DEF Commit, CommitStatus, OwnTypeOK, Counted
  <2>4. CASE UNCHANGED <<task, failures>>
    BY <1>7, <2>2, <2>4 DEF Commit, OwnTypeOK, Counted
  <2> QED
    BY <1>7, <2>3, <2>4 DEF Commit
<1> QED
  BY <1>2, <1>3, <1>4, <1>5, <1>6, <1>7 DEF Control

-----------------------------------------------------------------------------
\* The steps of the reconciler.
LEMMA PollStep ==
  ASSUME JobTypeOK, OwnTypeOK, Counted, PollSee \/ PollWrite \/ Defer \/ Verdict
  PROVE  OwnTypeOK' /\ Counted'
<1> USE PollsAssumption, OutagesAssumption DEF OwnTypeOK, Counted
<1>1. CASE PollSee
  BY <1>1 DEF PollSee, Outage, JobTypeOK
<1>2. CASE PollWrite
  <2>1. PICK to \in TaskStatusOf(poll.saw) : task' = to
    BY <1>2 DEF PollWrite
  <2>2. to \in {"running", "pausing", "paused", "waiting_approval", "needs_input", "waiting_test",
                "succeeded", "failed"}
    BY DEF TaskStatusOf
  <2>3. failures' = 0 /\ poll' = [saw |-> "none", failures |-> 0] /\ UNCHANGED <<control, outages>>
    BY <1>2 DEF PollWrite, NoPoll
  <2>4. review' \in BOOLEAN
    BY <1>2 DEF PollWrite
  <2> QED
    BY <2>1, <2>2, <2>3, <2>4
<1>3. CASE Defer
  <2>1. poll' = [saw |-> "none", failures |-> 0] /\ UNCHANGED <<review, control, outages>>
    BY <1>3 DEF Defer, NoPoll
  <2>2. CASE UNCHANGED <<task, failures>>
    BY <2>1, <2>2
  <2>3. CASE /\ task' = IF Exhausted THEN "failed" ELSE "running"
             /\ failures' = poll.failures + 1
    BY <2>1, <2>3 DEF Exhausted
  <2> QED
    BY <1>3, <2>2, <2>3 DEF Defer
<1>4. CASE Verdict
  <2>1. task # "failed"
    BY <1>4 DEF Verdict, TransitionAllowed, TerminalStatuses
  <2>2. PICK to \in {"succeeded", "waiting_test"} : task' = to
    BY <1>4 DEF Verdict
  <2>3. review' = FALSE /\ UNCHANGED <<failures, poll, control, outages>>
    BY <1>4 DEF Verdict
  <2> QED
    BY <2>1, <2>2, <2>3
<1> QED
  BY <1>1, <1>2, <1>3, <1>4

LEMMA OwnTypeStep ==
  ASSUME JobTypeOK, OwnTypeOK, Counted, [Next]_vars
  PROVE  OwnTypeOK' /\ Counted'
<1>1. CASE PollSee \/ PollWrite \/ Defer \/ Verdict
  BY <1>1, PollStep
<1>2. CASE \E a \in Actions : Control(a)
  BY <1>2, ControlStep
<1>3. CASE OwnRestart
  <2>1. control' \in [Actions -> Controls]
    <3>1. [NoControl EXCEPT !.pc = "confirmed"] \in Controls
      BY Cleared DEF Places
    <3> QED
      BY <1>3, <3>1 DEF OwnRestart, OwnTypeOK
  <2> QED
    BY <1>3, <2>1, PollsAssumption, OutagesAssumption DEF OwnRestart, Outage, NoPoll, OwnTypeOK, Counted
<1>4. CASE XiaodRestart
  BY <1>4, OutagesAssumption DEF XiaodRestart, Outage, NoPoll, OwnTypeOK, Counted
<1>5. CASE UNCHANGED ownVars
  BY <1>5 DEF ownVars, OwnTypeOK, Counted
<1>6. CASE UNCHANGED vars
  BY <1>6 DEF vars, ownVars, OwnTypeOK, Counted
<1> QED
  BY <1>1, <1>2, <1>3, <1>4, <1>5, <1>6 DEF Next, PageRetry

\* A poll that has seen the job completed, and a task that was made succeeded by it.
LEMMA SeenStep ==
  ASSUME TypeOK, Orderly, SeenIsTrue, SucceededIsTrue, ~ overtaken, ~ overtaken', [Next]_vars
  PROVE  SeenIsTrue' /\ SucceededIsTrue'
<1>1. job.status = "completed" => job'.status = "completed"
  BY JobChanges, CompletedStays DEF TypeOK
<1>2. CASE PollSee
  BY <1>1, <1>2 DEF PollSee, SeenIsTrue, SucceededIsTrue, jobVars
<1>3. CASE PollWrite
  <2>1. PICK to \in TaskStatusOf(poll.saw) : task' = to
    BY <1>3 DEF PollWrite
  <2>2. to = "succeeded" => poll.saw = "completed"
    BY DEF TaskStatusOf
  <2> QED
    BY <1>1, <1>3, <2>1, <2>2 DEF PollWrite, NoPoll, SeenIsTrue, SucceededIsTrue
<1>4. CASE Defer \/ Verdict
  BY <1>1, <1>4 DEF Defer, Verdict, NoPoll, SeenIsTrue, SucceededIsTrue
<1>5. CASE \E a \in Actions : Control(a)
  BY <1>1, <1>5 DEF Control, Ask, Decide, Expire, Resolve, Observe, Call, Answered, Lost, Commit,
                    CommitStatus, SeenIsTrue, SucceededIsTrue
<1>6. CASE OwnRestart \/ XiaodRestart
  BY <1>1, <1>6 DEF OwnRestart, XiaodRestart, NoPoll, SeenIsTrue, SucceededIsTrue
<1>7. CASE UNCHANGED ownVars
  BY <1>1, <1>7 DEF ownVars, SeenIsTrue, SucceededIsTrue
<1>8. CASE UNCHANGED vars
  BY <1>1, <1>8 DEF vars, ownVars, SeenIsTrue, SucceededIsTrue
<1> QED
  BY <1>2, <1>3, <1>4, <1>5, <1>6, <1>7, <1>8 DEF Next, PageRetry

LEMMA OvertakenStays ==
  ASSUME JobTypeOK, JobChange, overtaken
  PROVE  overtaken'
<1>1. CASE \E p \in Pipes : Pipeline(p)
  BY <1>1 DEF Pipeline, Checkpoint, Stage, Works, Final, Fail
<1>2. CASE ~ \E p \in Pipes : Pipeline(p)
  BY <1>2 DEF JobChange, JobStep, Receive, ApplyPause, ApplyResume, ApplyRetry, JobRestart, jobVars
<1> QED
  BY <1>1, <1>2

\* The invariant behind the theorems below.
THEOREM Inductive == Spec => []IInv
<1>1. Init => IInv
  <2> SUFFICES ASSUME Init PROVE IInv
    OBVIOUS
  <2>1. JobTypeOK
    BY DEF Init, JobInit, JobTypeOK, JobStatuses, Active, NoRequest
  <2>2. OwnTypeOK /\ Counted
    <3>1. control \in [Actions -> Controls]
      BY DEF Init, Controls, Places, Undecided, NoControl
    <3>2. poll = [saw |-> "none", failures |-> 0] /\ task = "running" /\ failures = 0
      BY DEF Init, NoPoll
    <3>3. review = FALSE /\ outages = 0
      BY DEF Init
    <3>4. failures \in 0 .. MaxUnavailable /\ outages \in 0 .. MaxOutages /\ 0 < MaxUnavailable
      BY <3>2, <3>3, PollsAssumption, OutagesAssumption
    <3>5. poll \in [saw : JobStatuses \cup {"none", "error"}, failures : 0 .. MaxUnavailable]
      BY <3>2, PollsAssumption
    <3> QED
      BY <3>1, <3>2, <3>3, <3>4, <3>5 DEF OwnTypeOK, Counted
  <2>3. Orderly
    BY DEF Init, JobInit, Orderly, Where, Alone, Asked, At, NoRequest
  <2>4. SeenIsTrue /\ SucceededIsTrue
    BY DEF Init, NoPoll, SeenIsTrue, SucceededIsTrue
  <2> QED
    BY <2>1, <2>2, <2>3, <2>4 DEF IInv, TypeOK, OwnTypeOK, Controls, Places
<1>2. IInv /\ [Next]_vars => IInv'
  <2> SUFFICES ASSUME IInv, [Next]_vars PROVE IInv'
    OBVIOUS
  <2>1. JobTypeOK /\ OwnTypeOK /\ Counted
    BY DEF IInv, TypeOK, OwnTypeOK, Controls, Places
  <2>2. JobTypeOK' /\ OwnTypeOK' /\ Counted'
    BY <2>1, JobChanges, JobTypeStep, OwnTypeStep
  <2>3. TypeOK'
    BY <2>2 DEF TypeOK, OwnTypeOK, Controls, Places
  <2>4. ASSUME ~ overtaken' PROVE Orderly' /\ SeenIsTrue' /\ SucceededIsTrue'
    <3>1. ~ overtaken
      BY <2>1, <2>4, JobChanges, OvertakenStays
    <3> QED
      BY <2>1, <2>4, <3>1, JobChanges, OrderlyStep, SeenStep DEF IInv
  <2> QED
    BY <2>2, <2>3, <2>4 DEF IInv
<1> QED
  BY <1>1, <1>2, PTL DEF Spec

\* The job, its pipelines, the task, its poll and its controls stay well typed.
THEOREM TypeCorrect == Spec => []TypeOK
<1>1. IInv => TypeOK
  BY DEF IInv
<1> QED
  BY <1>1, Inductive, PTL

\* One pipeline at most works on a job.
THEOREM OnePipelineAlways == Spec => []OnePipeline
<1>1. IInv => OnePipeline
  BY DEF IInv, Orderly, Alone, OnePipeline
<1> QED
  BY <1>1, Inductive, PTL

\* A task that is shown as succeeded has a completed job.
THEOREM SuccessIsTrue == Spec => []SucceededIsTrue
<1>1. IInv => SucceededIsTrue
  BY DEF IInv, SucceededIsTrue
<1> QED
  BY <1>1, Inductive, PTL

\* A task that has been settled is not reopened by a poll that was under way, a control
\* approved before, or a restart, and only a waiting_test still becomes something else.
SettledStays ==
    task \in TerminalStatuses =>
        /\ task' \in TerminalStatuses
        /\ task # "waiting_test" => task' = task

LEMMA AllowedSettles ==
  ASSUME TransitionAllowed(task, task') \/ UNCHANGED task
  PROVE  SettledStays
BY DEF SettledStays, TransitionAllowed, TerminalStatuses

LEMMA SettledStep ==
  ASSUME [Next]_vars
  PROVE  SettledStays
<1>1. CASE UNCHANGED task
  BY <1>1, AllowedSettles
<1>2. CASE PollWrite
  BY <1>2, AllowedSettles DEF PollWrite
<1>3. CASE Defer \/ Verdict
  BY <1>3, AllowedSettles DEF Defer, Verdict
<1>4. ASSUME NEW a \in Actions, Control(a)
      PROVE  SettledStays
  <2>1. CASE Commit(a)
    BY <2>1, AllowedSettles DEF Commit
  <2> QED
    BY <1>1, <1>4, <2>1 DEF Control, Ask, Decide, Expire, Resolve, Observe, Call, Answered, Lost
<1>5. CASE PollSee \/ OwnRestart \/ XiaodRestart
  BY <1>1, <1>5 DEF PollSee, OwnRestart, XiaodRestart
<1>6. CASE PageRetry \/ (JobStep /\ UNCHANGED ownVars)
  BY <1>1, <1>6 DEF PageRetry, ownVars
<1>7. CASE UNCHANGED vars
  BY <1>1, <1>7 DEF vars, ownVars
<1> QED
  BY <1>2, <1>3, <1>4, <1>5, <1>6, <1>7 DEF Next

\* Whatever was in flight when the task was settled, it stays settled.
THEOREM SettledTaskStays == Spec => [][SettledStays]_vars
<1>1. [Next]_vars => [SettledStays]_vars
  BY SettledStep
<1> QED
  BY <1>1, PTL DEF Spec
=============================================================================
