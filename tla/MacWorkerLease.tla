--------------------------- MODULE MacWorkerLease ---------------------------
(***************************************************************************)
(* The hand-over of a media task from the cloud office to a Mac worker:    *)
(* short leases granted by apps/ajun-runtime/src/mac-worker-task-bridge.ts *)
(* and applied by task-lifecycle.ts, and the worker loop of                *)
(* apps/mac-worker/src/mac-worker.ts, which keeps its lease and the 小D job *)
(* of a task in a state file, calls the cloud over HTTP with a timeout and *)
(* reports when the local job has ended.                                   *)
(*                                                                         *)
(* A call is sent, served and answered in three steps; the client may give *)
(* up in between (or its process restart), and the cloud may then serve    *)
(* the call late or never.  Time is not modelled: a lease simply expires,  *)
(* either because nobody holds it or because its holder was away (a Mac    *)
(* asleep or offline, or a 小D that takes no job) for longer than the lease.*)
(***************************************************************************)
EXTENDS TaskLifecycle

CONSTANTS
  Tasks,     \* the media tasks, numbered by creation
  Workers,   \* the Macs
  Unusable,  \* the tasks whose source is no public link
  None,      \* no lease, no call, no worker
  Budget     \* bound: how often each kind of mishap may happen

\* interrupt: a worker's run ends early (timeout or restart of the process);
\* away: a lease expires although a worker holds it; prune: 小D deletes an old
\* job; retry: the owner retries a failed job in 小D; relapse: the lease of an
\* unusable task runs out and the task is claimed once more.
Mishaps == {"interrupt", "away", "prune", "retry", "relapse"}

ASSUME TasksAssumption    == Tasks \subseteq Nat
ASSUME UnusableAssumption == Unusable \subseteq Tasks
ASSUME BudgetAssumption   == Budget \in [Mishaps -> Nat]

VARIABLES
  cloud,    \* cloud store: the task records
  granted,  \* the number of leases granted (a lease is its number)
  late,     \* calls their worker gave up on and the cloud may still serve
  disk,     \* per worker: state.json
  pc,       \* per worker: where runOnce is
  call,     \* per worker: the cloud call it is waiting for
  job,      \* per worker: the 小D job of each task on that Mac
  spent     \* mishaps so far

vars == <<cloud, granted, late, disk, pc, call, job, spent>>

-----------------------------------------------------------------------------
(* Records *)

CloudStatuses == {"waiting_worker", "running", "succeeded", "failed"}
Outcomes      == {"succeeded", "failed"}
\* The job a Mac has for a task: "refused" is none, and 小D will not make one
\* before somebody has seen to it; "waiting" needs a human too (awaiting_review,
\* awaiting_delivery, paused).
JobStatuses   ==
  {"none", "refused", "working", "waiting", "completed", "failed"}
Links         == {"none", "linked", "completed", "failed"}

\* `reporter' is the worker whose report gave the task its last result.
CloudRecords ==
  [status : CloudStatuses, holder : Workers \cup {None}, lease : Nat,
   expired : BOOLEAN, reporter : Workers \cup {None}]

Leases == [task : Tasks, lease : Nat]

ASSUME NoneAssumption == None \notin Tasks \cup Workers \cup Leases

\* The worker's three calls of the cloud.
Requests ==
  [op : {"lease"}, by : Workers, task : {None}, lease : {0}, outcome : {None}]
    \cup [op : {"heartbeat"}, by : Workers, task : Tasks, lease : Nat,
          outcome : {None}]
    \cup [op : {"complete"}, by : Workers, task : Tasks, lease : Nat,
          outcome : Outcomes]

\* "granted" comes with the lease; "refused" is HTTP 422, "error" any other
\* failure.
Answers ==
  [kind : {"awaited", "no_job", "ok", "refused", "error"}, lease : {None}]
    \cup [kind : {"granted"}, lease : Leases]

Plain(kind) == [kind |-> kind, lease |-> None]

\* The worker's persisted state: its active lease, and per task whether a 小D
\* job is known and how it was last reported.
DiskRecords == [active : Leases \cup {None}, jobs : [Tasks -> Links]]

TypeOK ==
  /\ cloud \in [Tasks -> CloudRecords]
  /\ granted \in Nat
  /\ late \subseteq Requests
  /\ disk \in [Workers -> DiskRecords]
  /\ pc \in [Workers -> {"idle", "calling", "create", "link", "get"}]
  /\ call \in [Workers -> [request : Requests, answer : Answers] \cup {None}]
  /\ job \in [Workers -> [Tasks -> JobStatuses]]
  /\ spent \in [Mishaps -> Nat]

Init ==
  /\ cloud = [t \in Tasks |->
                [status |-> "waiting_worker", holder |-> None, lease |-> 0,
                 expired |-> FALSE, reporter |-> None]]
  /\ granted = 0
  /\ late = {}
  /\ disk = [w \in Workers |->
               [active |-> None, jobs |-> [t \in Tasks |-> "none"]]]
  /\ pc = [w \in Workers |-> "idle"]
  /\ call = [w \in Workers |-> None]
  /\ job = [w \in Workers |-> [t \in Tasks |-> "none"]]
  /\ spent = [k \in Mishaps |-> 0]

Spend(k) ==
  /\ spent[k] < Budget[k]
  /\ spent' = [spent EXCEPT ![k] = @ + 1]

-----------------------------------------------------------------------------
(* The cloud: MacWorkerTaskBridge over the task store.  A request gets its  *)
(* Answer and has its Effect in one transaction.                            *)

\* Mutants of Claimable: a running task is never, or always, claimable.
OnlyWaiting(t)   == cloud[t].status = "waiting_worker"
WaitingOrRunning(t) == cloud[t].status \in {"waiting_worker", "running"}

Claimable(t) ==
  \/ cloud[t].status = "waiting_worker"
  \/ cloud[t].status = "running" /\ cloud[t].expired

\* claimWorkerTask takes the oldest claimable task.
Oldest(t) == Claimable(t) /\ \A u \in Tasks : Claimable(u) => t <= u

ClaimTask(t, w) ==
  /\ granted' = granted + 1
  /\ cloud' = [cloud EXCEPT ![t] =
                 [@ EXCEPT !.status = "running", !.holder = w,
                           !.lease = granted + 1, !.expired = FALSE]]

\* Mutant of LeaseMatches: any lease of the task will do.
AnyLease(r) == cloud[r.task].lease # 0

LeaseMatches(r) ==
  cloud[r.task].holder = r.by /\ cloud[r.task].lease = r.lease

\* What the bridge asks the store to write: a heartbeat renews the lease, a
\* completion does not.
WorkerPatch(r) ==
  IF r.op = "heartbeat"
  THEN [cloud[r.task] EXCEPT !.status = "running", !.expired = FALSE]
  ELSE [cloud[r.task] EXCEPT !.status = r.outcome, !.reporter = r.by]

\* applyWorkerTaskPatch.  A lease that is not the task's is refused with 422;
\* an expired lease, or a status the matrix refuses, is a failure of another
\* kind.
PatchAnswer(r) ==
  IF ~LeaseMatches(r) THEN "refused"
  ELSE IF \/ cloud[r.task].expired
          \/ ~TransitionAllowed(cloud[r.task].status, WorkerPatch(r).status)
       THEN "error" ELSE "ok"

\* A lease call claims a task, if there is one, ...
Claims(r) == r.op = "lease" /\ \E t \in Tasks : Claimable(t)

Chosen == CHOOSE t \in Tasks : Oldest(t)

\* ... and only then looks at its source: jobFor refuses, with the claim made,
\* one that is no public link.
Answer(r) ==
  IF r.op # "lease" THEN Plain(PatchAnswer(r))
  ELSE IF ~Claims(r) THEN Plain("no_job")
  ELSE IF Chosen \in Unusable THEN Plain("refused")
  ELSE [kind |-> "granted", lease |-> [task |-> Chosen, lease |-> granted + 1]]

Effect(r) ==
  \/ /\ Claims(r)
     /\ ClaimTask(Chosen, r.by)
  \/ /\ r.op # "lease" /\ Answer(r).kind = "ok"
     /\ cloud' = [cloud EXCEPT ![r.task] = WorkerPatch(r)]
     /\ UNCHANGED granted
  \/ /\ ~Claims(r) /\ Answer(r).kind # "ok"
     /\ UNCHANGED <<cloud, granted>>

Awaited(w) == call[w] # None /\ call[w].answer.kind = "awaited"

Serve(w) ==
  /\ Awaited(w)
  /\ Effect(call[w].request)
  /\ call' = [call EXCEPT ![w].answer = Answer(call[w].request)]
  /\ UNCHANGED <<late, disk, pc, job, spent>>

\* A call its client has given up on may still be served; nobody hears the
\* answer.
ServeLate(r) ==
  /\ r \in late
  /\ Effect(r)
  /\ late' = late \ {r}
  /\ UNCHANGED <<disk, pc, call, job, spent>>

\* The lease runs out.  Nobody renews a lease that no worker has.
Held(t) ==
  \E w \in Workers :
    \/ disk[w].active = [task |-> t, lease |-> cloud[t].lease]
    \/ /\ call[w] # None /\ call[w].answer.kind = "granted"
       /\ call[w].answer.lease = [task |-> t, lease |-> cloud[t].lease]

ExpireUnheld(t) ==
  /\ cloud[t].lease # 0 /\ ~cloud[t].expired /\ ~Held(t)
  /\ IF t \in Unusable THEN Spend("relapse") ELSE UNCHANGED spent
  /\ cloud' = [cloud EXCEPT ![t].expired = TRUE]
  /\ UNCHANGED <<granted, late, disk, pc, call, job>>

\* Its holder was asleep or offline for longer than the lease.
ExpireHeld(t) ==
  /\ cloud[t].lease # 0 /\ ~cloud[t].expired /\ Held(t)
  /\ Spend("away")
  /\ cloud' = [cloud EXCEPT ![t].expired = TRUE]
  /\ UNCHANGED <<granted, late, disk, pc, call, job>>

-----------------------------------------------------------------------------
(* The worker loop                                                          *)

Send(w, r) ==
  /\ call' = [call EXCEPT ![w] =
                [request |-> r, answer |-> Plain("awaited")]]
  /\ pc' = [pc EXCEPT ![w] = "calling"]

LeaseCall(w) ==
  [op |-> "lease", by |-> w, task |-> None, lease |-> 0, outcome |-> None]

HeartbeatCall(w, l) ==
  [op |-> "heartbeat", by |-> w, task |-> l.task, lease |-> l.lease,
   outcome |-> None]

\* Mutant of CompleteCall: the local job's status is passed on as it is.
RawStatusCall(w, l, status) ==
  [op |-> "complete", by |-> w, task |-> l.task, lease |-> l.lease,
   outcome |-> status]

CompleteCall(w, l, status) ==
  [op |-> "complete", by |-> w, task |-> l.task, lease |-> l.lease,
   outcome |-> IF status = "completed" THEN "succeeded" ELSE "failed"]

\* runOnce reads the state file: without a lease it asks for one, with one it
\* goes on with that task.
FollowLease(w, l) ==
  pc' = [pc EXCEPT ![w] = IF disk[w].jobs[l.task] = "none"
                          THEN "create" ELSE "get"]

RunOnce(w) ==
  /\ pc[w] = "idle"
  /\ \/ /\ disk[w].active = None
        /\ Send(w, LeaseCall(w))
     \/ /\ disk[w].active # None
        /\ FollowLease(w, disk[w].active)
        /\ UNCHANGED call
  /\ UNCHANGED <<cloud, granted, late, disk, job, spent>>

HasJob(w, t) == job[w][t] \notin {"none", "refused"}

\* POST /api/jobs of 小D returns the job with this ingress key, starts one, or
\* refuses to (a link it does not take, a connection that is not there, another
\* input under this key).  A refusal ends the run, with nothing saved.
CreateJob(w) ==
  LET t == disk[w].active.task IN
  /\ pc[w] = "create"
  /\ \E status \in IF job[w][t] = "none" THEN {"working", "refused"}
                                         ELSE {job[w][t]} :
       /\ job' = [job EXCEPT ![w][t] = status]
       /\ pc' = [pc EXCEPT ![w] = IF status = "refused" THEN "idle"
                                                        ELSE "link"]
  /\ UNCHANGED <<cloud, granted, late, disk, call, spent>>

LinkJob(w) ==
  /\ pc[w] = "link"
  /\ disk' = [disk EXCEPT ![w].jobs[disk[w].active.task] = "linked"]
  /\ pc' = [pc EXCEPT ![w] = "get"]
  /\ UNCHANGED <<cloud, granted, late, call, job, spent>>

\* processActive after it has read the local job.  A job that waits for a human
\* is reported like one that works: by a heartbeat, at every poll.
FollowJob(w) ==
  LET l == disk[w].active
      status == job[w][l.task]
  IN
  /\ pc[w] = "get"
  /\ \/ /\ ~HasJob(w, l.task)
        /\ disk' = [disk EXCEPT ![w].jobs[l.task] = "none"]
        /\ pc' = [pc EXCEPT ![w] = "idle"]
        /\ UNCHANGED call
     \/ /\ status \in {"working", "waiting"}
        /\ Send(w, HeartbeatCall(w, l))
        /\ UNCHANGED disk
     \/ /\ status \in {"completed", "failed"}
        /\ Send(w, CompleteCall(w, l, status))
        /\ UNCHANGED disk
  /\ UNCHANGED <<cloud, granted, late, job, spent>>

\* An answer is handled and the state file saved.
Heard(w, op, kinds) ==
  /\ call[w] # None /\ call[w].request.op = op
  /\ call[w].answer.kind \in kinds
  /\ call' = [call EXCEPT ![w] = None]
  /\ UNCHANGED <<cloud, granted, late, job, spent>>

HearLease(w) ==
  LET l == call[w].answer.lease IN
  \/ /\ Heard(w, "lease", {"granted"})
     /\ disk' = [disk EXCEPT ![w].active = l]
     /\ FollowLease(w, l)
  \/ /\ Heard(w, "lease", {"no_job", "refused"})
     /\ pc' = [pc EXCEPT ![w] = "idle"]
     /\ UNCHANGED disk

\* The answers that make the worker forget its lease: HTTP 422 and no other.
LosesLease == {"refused"}

ForgetLease(w, op) ==
  /\ Heard(w, op, LosesLease)
  /\ pc' = [pc EXCEPT ![w] = "idle"]
  /\ disk' = [disk EXCEPT ![w].active = None]

\* Any other failure of a heartbeat is ignored.
HearHeartbeat(w) ==
  \/ ForgetLease(w, "heartbeat")
  \/ /\ Heard(w, "heartbeat", {"ok", "refused", "error"} \ LosesLease)
     /\ pc' = [pc EXCEPT ![w] = "idle"]
     /\ disk' = [disk EXCEPT ![w].jobs[call[w].request.task] = "linked"]

\* Mutant of Taken: any answer counts as delivered.
AnyAnswer == {"ok", "error"}
\* The answers after which a completion counts as taken by the cloud.
Taken == {"ok"}

\* Any other failure of a completion ends the run; the next one tries again.
HearComplete(w) ==
  LET r == call[w].request IN
  \/ ForgetLease(w, "complete")
  \/ /\ Heard(w, "complete", Taken)
     /\ pc' = [pc EXCEPT ![w] = "idle"]
     /\ disk' = [disk EXCEPT
          ![w].active = None,
          ![w].jobs[r.task] = IF r.outcome = "succeeded" THEN "completed"
                                                         ELSE "failed"]
  \/ /\ Heard(w, "complete", {"ok", "refused", "error"} \ (Taken \cup LosesLease))
     /\ pc' = [pc EXCEPT ![w] = "idle"]
     /\ UNCHANGED disk

\* The run ends early: the client's timeout, an exception, or a restart of the
\* worker.  What was in memory is gone; a call that was not served yet may be
\* lost or be served later.
Interrupt(w) ==
  /\ pc[w] # "idle"
  /\ Spend("interrupt")
  /\ pc' = [pc EXCEPT ![w] = "idle"]
  /\ call' = [call EXCEPT ![w] = None]
  /\ \/ UNCHANGED late
     \/ Awaited(w) /\ late' = late \cup {call[w].request}
  /\ UNCHANGED <<cloud, granted, disk, job>>

-----------------------------------------------------------------------------
(* 小D on each Mac, as far as the worker sees it                             *)

\* The pipeline ends the job or leaves it to a human (awaiting_review,
\* awaiting_delivery, paused); a restart of 小D fails it (JobStore.init).
EndJob(w, t) ==
  /\ job[w][t] = "working"
  /\ \E status \in {"completed", "failed", "waiting"} :
       job' = [job EXCEPT ![w][t] = status]
  /\ UNCHANGED <<cloud, granted, late, disk, pc, call, spent>>

\* The owner of that Mac resumes, reviews or delivers a waiting job, or clears
\* what 小D refused a job for.
HumanActs(w, t) ==
  /\ \/ /\ job[w][t] = "waiting"
        /\ \E status \in {"working", "completed", "failed"} :
             job' = [job EXCEPT ![w][t] = status]
     \/ /\ job[w][t] = "refused"
        /\ job' = [job EXCEPT ![w][t] = "none"]
  /\ UNCHANGED <<cloud, granted, late, disk, pc, call, spent>>

\* POST /api/jobs/:id/retry by the owner of that Mac.
RetryJob(w, t) ==
  /\ job[w][t] = "failed"
  /\ Spend("retry")
  /\ job' = [job EXCEPT ![w][t] = "working"]
  /\ UNCHANGED <<cloud, granted, late, disk, pc, call>>

\* pruneExpiredJobs deletes jobs that ended days ago.
PruneJob(w, t) ==
  /\ job[w][t] \in {"completed", "failed"}
  /\ Spend("prune")
  /\ job' = [job EXCEPT ![w][t] = "none"]
  /\ UNCHANGED <<cloud, granted, late, disk, pc, call>>

-----------------------------------------------------------------------------
WorkerStep(w) ==
  \/ RunOnce(w) \/ CreateJob(w) \/ LinkJob(w) \/ FollowJob(w)
  \/ HearLease(w) \/ HearHeartbeat(w) \/ HearComplete(w)

Next ==
  \/ \E w \in Workers :
       WorkerStep(w) \/ Serve(w) \/ Interrupt(w)
  \/ \E w \in Workers, t \in Tasks :
       EndJob(w, t) \/ HumanActs(w, t) \/ RetryJob(w, t) \/ PruneJob(w, t)
  \/ \E t \in Tasks : ExpireUnheld(t) \/ ExpireHeld(t)
  \/ \E r \in late : ServeLate(r)

Spec == Init /\ [][Next]_vars

\* The worker polls for ever, the cloud answers, the pipeline of 小D comes to an
\* end, and time passes for a lease that nobody renews.  No human has to act.
Fairness ==
  /\ \A w \in Workers : WF_vars(WorkerStep(w)) /\ WF_vars(Serve(w))
  /\ \A w \in Workers, t \in Tasks : WF_vars(EndJob(w, t))
  /\ \A t \in Tasks : WF_vars(ExpireUnheld(t))

FairSpec == Spec /\ Fairness

-----------------------------------------------------------------------------
(* Properties                                                               *)

Ended(t) == cloud[t].status \in Outcomes

\* What the hand-over promises (LeaseContract), over this system's state.
Contract ==
  INSTANCE LeaseContract WITH
    owner   <- [t \in Tasks |-> cloud[t].holder],
    lapsed  <- {t \in Tasks : cloud[t].expired},
    closing <- [t \in Tasks |->
                  IF Ended(t) THEN [by |-> cloud[t].reporter,
                                    outcome |-> cloud[t].status]
                              ELSE None]

\* A task changes hands only after its lease has expired, and gets one result,
\* from the worker that owns it then: applyWorkerTaskPatch under calls that are
\* lost, repeated or served late ("旧租约不得覆盖新结果", core-contracts 3.4).
LeaseHonoured == Contract!Spec

\* What a worker's state file calls reported is what the cloud holds: runOnce
\* saves `completed' or `failed' only once the cloud has taken that result.
ReportedMeansTaken ==
  \A w \in Workers, t \in Tasks :
    disk[w].jobs[t] \in {"completed", "failed"} =>
      cloud[t].status = IF disk[w].jobs[t] = "completed"
                        THEN "succeeded" ELSE "failed"

\* While no worker stays away longer than its lease, a task is worked on by one
\* Mac only: lost answers, restarts and late calls of mac-worker.ts and the
\* bridge never put the same task on two Macs.
OneMacPerTask ==
  spent["away"] = 0 =>
    \A t \in Tasks, v, w \in Workers :
      HasJob(v, t) /\ HasJob(w, t) => v = w

\* The premise of what follows: from some time on no Mac has a job that waits
\* for its owner.  Without it a job in awaiting_review or awaiting_delivery is
\* kept running by heartbeats without limit.
HumansAct ==
  <>[](\A w \in Workers, t \in Tasks : job[w][t] \notin {"waiting", "refused"})

\* A waiting task gets its result, whatever calls and runs are lost
\* (processActive retries whatever failed on a later poll), if its source can be
\* used and its owner acts.
TasksEnd ==
  HumansAct =>
    \A t \in Tasks \ Unusable : cloud[t].status = "waiting_worker" ~> Ended(t)

\* A worker does not keep a lease for ever, so it comes back for another task
\* (runOnce clears activeLease once the result is taken or the lease refused).
\* Interrupted runs alone, with whatever answers they lose, do not break this;
\* a lease that expires after its result was taken does, and so does a job that
\* is retried or pruned after its failure was reported.
WorkersComeBack ==
  HumansAct =>
    \A w \in Workers :
      disk[w].active # None ~>
        \/ disk[w].active = None
        \/ \E k \in {"away", "retry", "prune"} : spent[k] > 0

\* core-contracts 3.3: an expired lease can be claimed again (租约过期可重新领取),
\* so a running task whose lease has expired does not stay like that.
ExpiredIsReclaimed ==
  HumansAct =>
    \A t \in Tasks :
      (cloud[t].status = "running" /\ cloud[t].expired) ~>
        ~(cloud[t].status = "running" /\ cloud[t].expired)
=============================================================================
