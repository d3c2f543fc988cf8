------------------------ MODULE MacWorkerLeaseProofs ------------------------
(***************************************************************************)
(* Proofs about MacWorkerLease, for every set of tasks, every set of Macs  *)
(* and every number of mishaps.                                            *)
(*                                                                         *)
(* TypeOK is not inductive: processActive reads the active lease of the    *)
(* state file (Active).  The hand-over keeps its contract because of what  *)
(* the status of a task says of its lease (Ledger), and a worker's state   *)
(* file is right because an answer it has yet to hear stays true           *)
(* (Answered).  While no worker is away, what a state file calls active is *)
(* what the cloud has lent it, and a Mac with a job has the lease of its   *)
(* task (Lending), so no two Macs work on one task.                        *)
(***************************************************************************)
EXTENDS MacWorkerLease, WellFoundedInduction, TLAPS

\* A worker in the middle of a run has a lease in its state file.
Active ==
  \A w \in Workers : pc[w] \in {"create", "link", "get"} =>
    disk[w].active # None

TypeInv == TypeOK /\ Active

LEMMA InitTypeInv == Init => TypeInv
<1>. SUFFICES ASSUME Init PROVE TypeInv
  OBVIOUS
<1>1. cloud \in [Tasks -> CloudRecords]
  BY DEF Init, CloudRecords, CloudStatuses
<1>2. disk \in [Workers -> DiskRecords]
  BY DEF Init, DiskRecords, Links
<1>3. job \in [Workers -> [Tasks -> JobStatuses]]
  BY DEF Init, JobStatuses
<1>. QED
  BY <1>1, <1>2, <1>3 DEF Init, TypeInv, TypeOK, Active

-----------------------------------------------------------------------------
(* The cloud                                                                *)

\* Among the claimable tasks one is the oldest.
LEMMA OldestExists ==
  ASSUME NEW t \in Tasks, Claimable(t)
  PROVE  \E u \in Tasks : Oldest(u)
<1> DEFINE C == {u \in Tasks : Claimable(u)}
           R == {p \in Nat \X Nat : p[1] < p[2]}
<1>1. C \subseteq Nat /\ C # {}
  BY TasksAssumption
<1>2. IsWellFoundedOn(R, Nat)
  BY NatLessThanWellFounded DEF OpToRel
<1> HIDE DEF R
<1>3. PICK u \in C : \A v \in C : ~(<<v, u>> \in R)
  BY <1>1, <1>2, WFMin
<1>4. \A v \in C : ~(v < u)
  BY <1>1, <1>3 DEF R
<1>5. Oldest(u)
  BY <1>1, <1>4 DEF Oldest
<1>. QED
  BY <1>5

\* A lease call that claims a task claims one that is claimable.
LEMMA ChosenClaimable ==
  ASSUME NEW r, Claims(r)
  PROVE  r.op = "lease" /\ Chosen \in Tasks /\ Claimable(Chosen)
<1>1. r.op = "lease" /\ \E t \in Tasks : Claimable(t)
  BY DEF Claims
<1>2. \E u \in Tasks : Oldest(u)
  BY <1>1, OldestExists
<1>3. Chosen \in Tasks /\ Oldest(Chosen)
  BY <1>2, Zenon DEF Chosen
<1>. QED
  BY <1>1, <1>3 DEF Oldest

\* A lease is granted for the task that was claimed, and nothing else is.
LEMMA AnswerGranted ==
  ASSUME NEW r, Answer(r).kind = "granted"
  PROVE  /\ Claims(r)
         /\ Answer(r) = [kind |-> "granted",
                         lease |-> [task |-> Chosen, lease |-> granted + 1]]
BY DEF Answer, Plain, PatchAnswer

\* Every call gets an answer its client understands.
LEMMA AnswerType ==
  ASSUME TypeOK, NEW r \in Requests
  PROVE  Answer(r) \in Answers
<1>1. CASE Answer(r).kind = "granted"
  <2>1. PICK t \in Tasks :
          Answer(r) = [kind |-> "granted",
                       lease |-> [task |-> t, lease |-> granted + 1]]
    BY <1>1, AnswerGranted, ChosenClaimable, Zenon
  <2>2. [task |-> t, lease |-> granted + 1] \in Leases
    BY DEF Leases, TypeOK
  <2>. QED
    BY <2>1, <2>2 DEF Answers
<1>2. CASE Answer(r).kind # "granted"
  <2>1. \/ Answer(r) = Plain("no_job") \/ Answer(r) = Plain("refused")
        \/ Answer(r) = Plain(PatchAnswer(r))
    BY <1>2 DEF Answer
  <2>2. PatchAnswer(r) \in {"ok", "refused", "error"}
    BY DEF PatchAnswer
  <2>. QED
    BY <2>1, <2>2 DEF Answers, Plain
<1>. QED
  BY <1>1, <1>2

\* A patched task is a task record.
LEMMA PatchType ==
  ASSUME TypeOK, NEW r \in Requests, r.op # "lease"
  PROVE  /\ r.task \in Tasks
         /\ WorkerPatch(r) \in CloudRecords
<1>1. r.task \in Tasks /\ r.by \in Workers
  BY DEF Requests
<1>2. cloud[r.task] \in CloudRecords
  BY <1>1 DEF TypeOK
<1>3. CASE r.op = "heartbeat"
  BY <1>1, <1>2, <1>3 DEF WorkerPatch, CloudRecords, CloudStatuses
<1>4. CASE r.op = "complete"
  <2>1. r.outcome \in Outcomes
    BY <1>4 DEF Requests
  <2>. QED
    BY <1>1, <1>2, <1>4, <2>1
    DEF WorkerPatch, CloudRecords, CloudStatuses, Outcomes
<1>. QED
  BY <1>1, <1>3, <1>4 DEF Requests

LEMMA EffectType ==
  ASSUME TypeOK, NEW r \in Requests, Effect(r)
  PROVE  cloud' \in [Tasks -> CloudRecords] /\ granted' \in Nat
<1>1. CASE Claims(r) /\ ClaimTask(Chosen, r.by)
  <2>1. PICK t \in Tasks : ClaimTask(t, r.by)
    BY <1>1, ChosenClaimable, Zenon
  <2> DEFINE new == [cloud[t] EXCEPT !.status = "running", !.holder = r.by,
                                     !.lease = granted + 1, !.expired = FALSE]
  <2>2. r.by \in Workers
    BY DEF Requests
  <2>3. new \in CloudRecords
    <3>1. cloud[t] \in CloudRecords /\ granted + 1 \in Nat
      BY DEF TypeOK
    <3>. QED
      BY <2>2, <3>1 DEF CloudRecords, CloudStatuses
  <2>4. cloud' = [cloud EXCEPT ![t] = new] /\ granted' = granted + 1
    BY <2>1 DEF ClaimTask
  <2> HIDE DEF new
  <2>. QED
    BY <2>3, <2>4 DEF TypeOK
<1>2. CASE /\ r.op # "lease" /\ Answer(r).kind = "ok"
           /\ cloud' = [cloud EXCEPT ![r.task] = WorkerPatch(r)]
           /\ UNCHANGED granted
  BY <1>2, PatchType DEF TypeOK
<1>3. CASE UNCHANGED <<cloud, granted>>
  BY <1>3 DEF TypeOK
<1>. QED
  BY <1>1, <1>2, <1>3 DEF Effect

-----------------------------------------------------------------------------
(* The type invariant                                                       *)

LEMMA ServeTypeInv ==
  ASSUME TypeInv, NEW w \in Workers, Serve(w)
  PROVE  TypeInv'
<1>1. call[w].request \in Requests
  BY DEF Serve, Awaited, TypeInv, TypeOK
<1>2. cloud' \in [Tasks -> CloudRecords] /\ granted' \in Nat
  BY <1>1, EffectType DEF Serve, TypeInv
<1>3. Answer(call[w].request) \in Answers
  BY <1>1, AnswerType DEF TypeInv
<1>4. call' \in [Workers -> [request : Requests, answer : Answers]
                           \cup {None}]
  BY <1>3 DEF Serve, Awaited, TypeInv, TypeOK
<1>. QED
  BY <1>2, <1>4 DEF Serve, TypeInv, TypeOK, Active

LEMMA ServeLateTypeInv ==
  ASSUME TypeInv, NEW r \in late, ServeLate(r)
  PROVE  TypeInv'
<1>1. cloud' \in [Tasks -> CloudRecords] /\ granted' \in Nat
  BY EffectType DEF ServeLate, TypeInv, TypeOK
<1>. QED
  BY <1>1 DEF ServeLate, TypeInv, TypeOK, Active

LEMMA ExpireTypeInv ==
  ASSUME TypeInv, NEW t \in Tasks, ExpireUnheld(t) \/ ExpireHeld(t)
  PROVE  TypeInv'
<1> DEFINE new == [cloud[t] EXCEPT !.expired = TRUE]
<1>1. new \in CloudRecords
  <2>1. cloud[t] \in CloudRecords
    BY DEF TypeInv, TypeOK
  <2>. QED
    BY <2>1 DEF CloudRecords
<1>2. cloud' = [cloud EXCEPT ![t] = new]
  BY DEF ExpireUnheld, ExpireHeld
<1> HIDE DEF new
<1>3. cloud' \in [Tasks -> CloudRecords]
  BY <1>1, <1>2 DEF TypeInv, TypeOK
<1>4. spent' \in [Mishaps -> Nat]
  <2>1. UNCHANGED spent \/ Spend("relapse") \/ Spend("away")
    BY DEF ExpireUnheld, ExpireHeld
  <2>. QED
    BY <2>1 DEF Spend, TypeInv, TypeOK, Mishaps
<1>. QED
  BY <1>3, <1>4 DEF ExpireUnheld, ExpireHeld, TypeInv, TypeOK, Active

LEMMA JobTypeInv ==
  ASSUME TypeInv, NEW w \in Workers, NEW t \in Tasks,
         EndJob(w, t) \/ HumanActs(w, t) \/ RetryJob(w, t) \/ PruneJob(w, t)
  PROVE  TypeInv'
<1>1. PICK status \in JobStatuses : job' = [job EXCEPT ![w][t] = status]
  BY DEF EndJob, HumanActs, RetryJob, PruneJob, JobStatuses
<1>2. job' \in [Workers -> [Tasks -> JobStatuses]]
  BY <1>1 DEF TypeInv, TypeOK
<1>3. spent' \in [Mishaps -> Nat]
  BY DEF EndJob, HumanActs, RetryJob, PruneJob, Spend, TypeInv, TypeOK, Mishaps
<1>. QED
  BY <1>2, <1>3
  DEF EndJob, HumanActs, RetryJob, PruneJob, TypeInv, TypeOK, Active

\* Sending a call keeps the type of the worker's memory.
LEMMA SendType ==
  ASSUME TypeInv, NEW w \in Workers, NEW r \in Requests, Send(w, r)
  PROVE  /\ call' \in [Workers -> [request : Requests, answer : Answers]
                                 \cup {None}]
         /\ pc' \in [Workers -> {"idle", "calling", "create", "link", "get"}]
         /\ pc'[w] = "calling"
         /\ \A v \in Workers : v # w => pc'[v] = pc[v]
<1>1. Plain("awaited") \in Answers
  BY DEF Plain, Answers
<1>. QED
  BY <1>1 DEF Send, TypeInv, TypeOK

\* A call that is answered with a kind names a lease or a task as its type
\* says.
LEMMA HeardType ==
  ASSUME TypeInv, NEW w \in Workers, NEW op, NEW kinds, Heard(w, op, kinds)
  PROVE  /\ call' \in [Workers -> [request : Requests, answer : Answers]
                                 \cup {None}]
         /\ call[w].request \in Requests
         /\ call[w].answer \in Answers
         /\ op # "lease" => call[w].request.task \in Tasks
         /\ call[w].answer.kind = "granted" => call[w].answer.lease \in Leases
<1>1. call[w] \in [request : Requests, answer : Answers]
  BY DEF Heard, TypeInv, TypeOK
<1>2. call[w].request \in Requests /\ call[w].request.op = op
  BY <1>1 DEF Heard
<1>3. op # "lease" => call[w].request.task \in Tasks
  BY <1>2 DEF Requests
<1>4. call[w].answer.kind = "granted" => call[w].answer.lease \in Leases
  BY <1>1 DEF Answers
<1>. QED
  BY <1>1, <1>2, <1>3, <1>4 DEF Heard, TypeInv, TypeOK

\* Noting a task's 小D job in the state file leaves the lease alone.
LEMMA LinkType ==
  ASSUME TypeInv, NEW w \in Workers, NEW t \in Tasks, NEW link \in Links,
         disk' = [disk EXCEPT ![w].jobs[t] = link]
  PROVE  /\ disk' \in [Workers -> DiskRecords]
         /\ \A v \in Workers : disk'[v].active = disk[v].active
<1> DEFINE new == [disk[w] EXCEPT !.jobs[t] = link]
<1>1. [disk[w].jobs EXCEPT ![t] = link] \in [Tasks -> Links]
  BY DEF TypeInv, TypeOK, DiskRecords
<1>2. new \in DiskRecords /\ new.active = disk[w].active
  BY <1>1 DEF TypeInv, TypeOK, DiskRecords
<1>3. disk' = [disk EXCEPT ![w] = new]
  OBVIOUS
<1> HIDE DEF new
<1>. QED
  BY <1>2, <1>3 DEF TypeInv, TypeOK

LEMMA RunTypeInv ==
  ASSUME TypeInv, NEW w \in Workers,
         RunOnce(w) \/ CreateJob(w) \/ LinkJob(w) \/ FollowJob(w)
  PROVE  TypeInv'
<1>1. CASE RunOnce(w)
  <2>1. CASE disk[w].active = None /\ Send(w, LeaseCall(w))
    <3>1. LeaseCall(w) \in Requests
      BY DEF LeaseCall, Requests
    <3>. QED
      BY <1>1, <2>1, <3>1, SendType
      DEF RunOnce, TypeInv, TypeOK, Active
  <2>2. CASE /\ disk[w].active # None
             /\ FollowLease(w, disk[w].active)
             /\ UNCHANGED call
    BY <1>1, <2>2 DEF RunOnce, FollowLease, TypeInv, TypeOK, Active
  <2>. QED
    BY <1>1, <2>1, <2>2 DEF RunOnce
<1>2. CASE CreateJob(w)
  <2> DEFINE t == disk[w].active.task
  <2>1. t \in Tasks
    BY <1>2 DEF CreateJob, TypeInv, TypeOK, Active, DiskRecords, Leases
  <2>2. job[w][t] \in JobStatuses
    BY <2>1 DEF TypeInv, TypeOK
  <2>3. PICK status \in JobStatuses :
          /\ job' = [job EXCEPT ![w][t] = status]
          /\ pc' = [pc EXCEPT ![w] = IF status = "refused" THEN "idle"
                                                           ELSE "link"]
    BY <1>2, <2>2 DEF CreateJob, JobStatuses
  <2>4. job' \in [Workers -> [Tasks -> JobStatuses]]
    BY <2>1, <2>3 DEF TypeInv, TypeOK
  <2>5. /\ pc' \in [Workers -> {"idle", "calling", "create", "link", "get"}]
        /\ Active'
    BY <1>2, <2>3 DEF CreateJob, TypeInv, TypeOK, Active
  <2>. QED
    BY <1>2, <2>4, <2>5 DEF CreateJob, TypeInv, TypeOK
<1>3. CASE LinkJob(w)
  <2> DEFINE t == disk[w].active.task
  <2>1. t \in Tasks
    BY <1>3 DEF LinkJob, TypeInv, TypeOK, Active, DiskRecords, Leases
  <2>2. /\ disk' \in [Workers -> DiskRecords]
        /\ \A v \in Workers : disk'[v].active = disk[v].active
    BY <1>3, <2>1, LinkType DEF LinkJob, Links
  <2>. QED
    BY <1>3, <2>2 DEF LinkJob, TypeInv, TypeOK, Active
<1>4. CASE FollowJob(w)
  <2> DEFINE l == disk[w].active
             status == job[w][l.task]
  <2>1. l \in Leases /\ l.task \in Tasks
    BY <1>4 DEF FollowJob, TypeInv, TypeOK, Active, DiskRecords, Leases
  <2>2. CASE /\ disk' = [disk EXCEPT ![w].jobs[l.task] = "none"]
             /\ pc' = [pc EXCEPT ![w] = "idle"]
             /\ UNCHANGED call
    <3>1. /\ disk' \in [Workers -> DiskRecords]
          /\ \A v \in Workers : disk'[v].active = disk[v].active
      BY <2>1, <2>2, LinkType DEF Links
    <3>. QED
      BY <1>4, <2>2, <3>1 DEF FollowJob, TypeInv, TypeOK, Active
  <2>3. CASE UNCHANGED disk /\ \E r \in Requests : Send(w, r)
    BY <1>4, <2>3, SendType DEF FollowJob, TypeInv, TypeOK, Active
  <2>4. HeartbeatCall(w, l) \in Requests /\ CompleteCall(w, l, status) \in Requests
    BY <2>1 DEF HeartbeatCall, CompleteCall, Requests, Leases, Outcomes
  <2>. QED
    BY <1>4, <2>2, <2>3, <2>4 DEF FollowJob
<1>. QED
  BY <1>1, <1>2, <1>3, <1>4

\* Forgetting the lease ends the run.
LEMMA ForgetTypeInv ==
  ASSUME TypeInv, NEW w \in Workers, NEW op, ForgetLease(w, op)
  PROVE  TypeInv'
<1>1. Heard(w, op, LosesLease)
  BY DEF ForgetLease
<1>2. disk' \in [Workers -> DiskRecords]
  BY DEF ForgetLease, TypeInv, TypeOK, DiskRecords
<1>3. pc' \in [Workers -> {"idle", "calling", "create", "link", "get"}]
  BY DEF ForgetLease, TypeInv, TypeOK
<1>4. Active'
  BY DEF ForgetLease, TypeInv, TypeOK, Active
<1>. QED
  BY <1>1, <1>2, <1>3, <1>4, HeardType DEF Heard, TypeInv, TypeOK

LEMMA HearTypeInv ==
  ASSUME TypeInv, NEW w \in Workers,
         HearLease(w) \/ HearHeartbeat(w) \/ HearComplete(w)
  PROVE  TypeInv'
<1>1. CASE HearLease(w)
  <2> DEFINE l == call[w].answer.lease
  <2>1. CASE /\ Heard(w, "lease", {"granted"})
             /\ disk' = [disk EXCEPT ![w].active = l]
             /\ FollowLease(w, l)
    <3>1. l \in Leases /\ l # None
      BY <2>1, HeardType, NoneAssumption DEF Heard
    <3>2. disk' \in [Workers -> DiskRecords]
      BY <2>1, <3>1 DEF TypeInv, TypeOK, DiskRecords
    <3>3. pc' \in [Workers -> {"idle", "calling", "create", "link", "get"}]
      BY <2>1 DEF FollowLease, TypeInv, TypeOK
    <3>4. Active'
      BY <2>1, <3>1 DEF FollowLease, TypeInv, TypeOK, Active
    <3>. QED
      BY <2>1, <3>2, <3>3, <3>4, HeardType DEF Heard, TypeInv, TypeOK
  <2>2. CASE /\ Heard(w, "lease", {"no_job", "refused"})
             /\ pc' = [pc EXCEPT ![w] = "idle"]
             /\ UNCHANGED disk
    BY <2>2, HeardType DEF Heard, TypeInv, TypeOK, Active
  <2>. QED
    BY <1>1, <2>1, <2>2 DEF HearLease
<1>2. CASE HearHeartbeat(w)
  <2> DEFINE t == call[w].request.task
  <2>1. CASE \E kinds :
               /\ Heard(w, "heartbeat", kinds)
               /\ pc' = [pc EXCEPT ![w] = "idle"]
               /\ disk' = [disk EXCEPT ![w].jobs[t] = "linked"]
    <3>1. t \in Tasks
      BY <2>1, HeardType
    <3>2. /\ disk' \in [Workers -> DiskRecords]
          /\ \A v \in Workers : disk'[v].active = disk[v].active
      BY <2>1, <3>1, LinkType DEF Links
    <3>. QED
      BY <2>1, <3>2, HeardType DEF Heard, TypeInv, TypeOK, Active
  <2>. QED
    BY <1>2, <2>1, ForgetTypeInv DEF HearHeartbeat
<1>3. CASE HearComplete(w)
  <2> DEFINE r == call[w].request
             link == IF r.outcome = "succeeded" THEN "completed" ELSE "failed"
  <2>1. CASE /\ Heard(w, "complete", Taken)
             /\ pc' = [pc EXCEPT ![w] = "idle"]
             /\ disk' = [disk EXCEPT ![w].active = None,
                                     ![w].jobs[r.task] = link]
    <3>1. r.task \in Tasks
      BY <2>1, HeardType
    <3>2. link \in Links
      BY DEF Links
    <3> HIDE DEF link
    <3> DEFINE new == [disk[w] EXCEPT !.active = None, !.jobs[r.task] = link]
    <3>3. disk' \in [Workers -> DiskRecords]
      <4>1. [disk[w].jobs EXCEPT ![r.task] = link] \in [Tasks -> Links]
        BY <3>1, <3>2 DEF TypeInv, TypeOK, DiskRecords
      <4>2. new \in DiskRecords
        <5>1. disk[w] \in DiskRecords
          BY DEF TypeInv, TypeOK
        <5>2. new = [disk[w] EXCEPT !.active = None,
                       !.jobs = [disk[w].jobs EXCEPT ![r.task] = link]]
          OBVIOUS
        <5>. QED
          BY <4>1, <5>1, <5>2 DEF DiskRecords
      <4>3. disk' = [disk EXCEPT ![w] = new]
        BY <2>1
      <4> HIDE DEF new
      <4>. QED
        BY <4>2, <4>3 DEF TypeInv, TypeOK
    <3>4. Active'
      BY <2>1 DEF TypeInv, TypeOK, Active, DiskRecords
    <3>. QED
      BY <2>1, <3>3, <3>4, HeardType DEF Heard, TypeInv, TypeOK
  <2>2. CASE \E kinds :
               /\ Heard(w, "complete", kinds)
               /\ pc' = [pc EXCEPT ![w] = "idle"]
               /\ UNCHANGED disk
    BY <2>2, HeardType DEF Heard, TypeInv, TypeOK, Active
  <2>. QED
    BY <1>3, <2>1, <2>2, ForgetTypeInv DEF HearComplete
<1>. QED
  BY <1>1, <1>2, <1>3

LEMMA InterruptTypeInv ==
  ASSUME TypeInv, NEW w \in Workers, Interrupt(w)
  PROVE  TypeInv'
<1>1. late' \subseteq Requests
  <2>1. CASE UNCHANGED late
    BY <2>1 DEF TypeInv, TypeOK
  <2>2. CASE Awaited(w) /\ late' = late \cup {call[w].request}
    BY <2>2 DEF Awaited, TypeInv, TypeOK
  <2>. QED
    BY <2>1, <2>2 DEF Interrupt
<1>2. spent' \in [Mishaps -> Nat]
  BY DEF Interrupt, Spend, TypeInv, TypeOK, Mishaps
<1>. QED
  BY <1>1, <1>2 DEF Interrupt, TypeInv, TypeOK, Active

\* Every step keeps the records well formed.
LEMMA StepTypeInv == TypeInv /\ [Next]_vars => TypeInv'
<1>. SUFFICES ASSUME TypeInv, [Next]_vars PROVE TypeInv'
  OBVIOUS
<1>1. CASE \E w \in Workers : WorkerStep(w) \/ Serve(w) \/ Interrupt(w)
  <2>1. PICK w \in Workers : WorkerStep(w) \/ Serve(w) \/ Interrupt(w)
    BY <1>1
  <2>2. CASE WorkerStep(w)
    BY <2>2, RunTypeInv, HearTypeInv DEF WorkerStep
  <2>3. CASE Serve(w)
    BY <2>3, ServeTypeInv
  <2>4. CASE Interrupt(w)
    BY <2>4, InterruptTypeInv
  <2>. QED
    BY <2>1, <2>2, <2>3, <2>4
<1>2. CASE \E w \in Workers, t \in Tasks :
             EndJob(w, t) \/ HumanActs(w, t) \/ RetryJob(w, t) \/ PruneJob(w, t)
  BY <1>2, JobTypeInv
<1>3. CASE \E t \in Tasks : ExpireUnheld(t) \/ ExpireHeld(t)
  BY <1>3, ExpireTypeInv
<1>4. CASE \E r \in late : ServeLate(r)
  BY <1>4, ServeLateTypeInv
<1>5. CASE UNCHANGED vars
  BY <1>5 DEF vars, TypeInv, TypeOK, Active
<1>. QED
  BY <1>1, <1>2, <1>3, <1>4, <1>5 DEF Next

\* Type correctness: the records of the cloud, of the workers' state files and
\* of the calls between them stay well formed (task-lifecycle.ts,
\* state-store.ts), for every set of tasks and Macs.
THEOREM TypeCorrect == Spec => []TypeOK
<1>1. Spec => []TypeInv
  BY InitTypeInv, StepTypeInv, PTL DEF Spec
<1>2. TypeInv => TypeOK
  BY DEF TypeInv
<1>. QED
  BY <1>1, <1>2, PTL

-----------------------------------------------------------------------------
(* What a step may do to a task record                                      *)

Claim(t, w) ==
  /\ Claimable(t)
  /\ cloud' = [cloud EXCEPT ![t] =
                 [@ EXCEPT !.status = "running", !.holder = w,
                           !.lease = granted + 1, !.expired = FALSE]]

Report(t, outcome) ==
  /\ cloud[t].status = "running" /\ ~cloud[t].expired
  /\ cloud' = [cloud EXCEPT ![t] =
                 [@ EXCEPT !.status = outcome, !.reporter = cloud[t].holder]]

Expire(t) ==
  /\ cloud[t].lease # 0
  /\ cloud' = [cloud EXCEPT ![t].expired = TRUE]

CloudStep ==
  \/ \E t \in Tasks, w \in Workers : Claim(t, w)
  \/ \E t \in Tasks, outcome \in Outcomes : Report(t, outcome)
  \/ \E t \in Tasks : Expire(t)
  \/ UNCHANGED cloud

\* What the status of a task says of its lease: a waiting task has none, a task
\* that was leased has a holder, and a result is its holder's.
Ledger ==
  \A t \in Tasks :
    /\ cloud[t].status = "waiting_worker" =>
         cloud[t].holder = None /\ cloud[t].lease = 0
    /\ cloud[t].status # "waiting_worker" => cloud[t].holder \in Workers
    /\ Ended(t) => cloud[t].reporter = cloud[t].holder

LEMMA InitLedger == Init => Ledger
BY DEF Init, Ledger, Ended, Outcomes

\* A heartbeat or a report that the cloud takes changes a running task only;
\* one that repeats what the cloud holds changes nothing.
LEMMA PatchStep ==
  ASSUME TypeOK, Ledger, NEW r \in Requests, r.op # "lease",
         PatchAnswer(r) = "ok",
         cloud' = [cloud EXCEPT ![r.task] = WorkerPatch(r)]
  PROVE  CloudStep
<1> DEFINE t == r.task
<1>1. t \in Tasks /\ r.by \in Workers
  BY DEF Requests
<1>2. cloud[t] \in CloudRecords /\ cloud \in [Tasks -> CloudRecords]
  BY <1>1 DEF TypeOK
<1>3. /\ cloud[t].holder = r.by
      /\ ~cloud[t].expired
      /\ TransitionAllowed(cloud[t].status, WorkerPatch(r).status)
  BY DEF PatchAnswer, LeaseMatches
<1>4. cloud[t].status # "waiting_worker"
  BY <1>1, <1>3, NoneAssumption DEF Ledger
<1>5. CASE r.op = "heartbeat"
  <2>1. WorkerPatch(r) =
          [cloud[t] EXCEPT !.status = "running", !.expired = FALSE]
    BY <1>5 DEF WorkerPatch
  <2>2. TransitionAllowed(cloud[t].status, "running")
    BY <1>2, <1>3, <2>1 DEF CloudRecords
  <2>3. cloud[t].status = "running"
    BY <1>2, <1>4, <2>2
    DEF TransitionAllowed, TerminalStatuses, CloudRecords, CloudStatuses
  <2>4. WorkerPatch(r) = cloud[t]
    BY <1>2, <1>3, <2>1, <2>3 DEF CloudRecords
  <2>. QED
    BY <1>1, <1>2, <2>4 DEF CloudStep
<1>6. CASE r.op = "complete"
  <2>1. /\ WorkerPatch(r) =
            [cloud[t] EXCEPT !.status = r.outcome, !.reporter = cloud[t].holder]
        /\ r.outcome \in Outcomes
    BY <1>3, <1>6 DEF WorkerPatch, Requests
  <2>2. CASE cloud[t].status = "running"
    <3>1. Report(t, r.outcome)
      BY <1>3, <2>1, <2>2 DEF Report
    <3>. QED
      BY <1>1, <2>1, <3>1 DEF CloudStep
  <2>3. CASE cloud[t].status # "running"
    <3>1. Ended(t)
      BY <1>2, <1>4, <2>3 DEF Ended, Outcomes, CloudRecords, CloudStatuses
    <3>2. TransitionAllowed(cloud[t].status, r.outcome)
      BY <1>2, <1>3, <2>1 DEF CloudRecords
    <3>3. cloud[t].status = r.outcome
      BY <3>1, <3>2
      DEF TransitionAllowed, TerminalStatuses, Ended, Outcomes
    <3>4. cloud[t].reporter = cloud[t].holder
      BY <1>1, <3>1 DEF Ledger
    <3>5. WorkerPatch(r) = cloud[t]
      BY <1>2, <2>1, <3>3, <3>4 DEF CloudRecords
    <3>. QED
      BY <1>1, <1>2, <3>5 DEF CloudStep
  <2>. QED
    BY <2>2, <2>3
<1>. QED
  BY <1>5, <1>6 DEF Requests

LEMMA EffectStep ==
  ASSUME TypeOK, Ledger, NEW r \in Requests, Effect(r)
  PROVE  CloudStep
<1>1. CASE Claims(r) /\ ClaimTask(Chosen, r.by)
  <2>1. PICK t \in Tasks : Claimable(t) /\ ClaimTask(t, r.by)
    BY <1>1, ChosenClaimable, Zenon
  <2>2. r.by \in Workers /\ Claim(t, r.by)
    BY <2>1 DEF Requests, ClaimTask, Claim
  <2>. QED
    BY <2>2 DEF CloudStep
<1>2. CASE /\ r.op # "lease" /\ Answer(r).kind = "ok"
           /\ cloud' = [cloud EXCEPT ![r.task] = WorkerPatch(r)]
  <2>1. r.op # "lease" /\ PatchAnswer(r) = "ok"
    BY <1>2 DEF Answer, Plain
  <2>. QED
    BY <1>2, <2>1, PatchStep
<1>3. CASE UNCHANGED cloud
  BY <1>3 DEF CloudStep
<1>. QED
  BY <1>1, <1>2, <1>3 DEF Effect

LEMMA NextCloudStep ==
  ASSUME TypeOK, Ledger, [Next]_vars
  PROVE  CloudStep
<1>1. CASE \E w \in Workers : Serve(w)
  <2>1. PICK w \in Workers : Serve(w)
    BY <1>1
  <2>2. call[w].request \in Requests
    BY <2>1 DEF Serve, Awaited, TypeOK
  <2>. QED
    BY <2>1, <2>2, EffectStep DEF Serve
<1>2. CASE \E r \in late : ServeLate(r)
  BY <1>2, EffectStep DEF ServeLate, TypeOK
<1>3. CASE \E t \in Tasks : ExpireUnheld(t) \/ ExpireHeld(t)
  BY <1>3 DEF ExpireUnheld, ExpireHeld, Expire, CloudStep
<1>4. CASE UNCHANGED cloud
  BY <1>4 DEF CloudStep
<1>5. ASSUME NEW w \in Workers, WorkerStep(w) \/ Interrupt(w)
      PROVE  UNCHANGED cloud
  BY <1>5 DEF WorkerStep, RunOnce, CreateJob, LinkJob, FollowJob, HearLease,
     HearHeartbeat, HearComplete, ForgetLease, Heard, Interrupt
<1>6. ASSUME NEW w \in Workers, NEW t \in Tasks,
             EndJob(w, t) \/ HumanActs(w, t) \/ RetryJob(w, t) \/ PruneJob(w, t)
      PROVE  UNCHANGED cloud
  BY <1>6 DEF EndJob, HumanActs, RetryJob, PruneJob
<1>. QED
  BY <1>1, <1>2, <1>3, <1>4, <1>5, <1>6 DEF Next, vars

LEMMA StepLedger ==
  ASSUME TypeOK, Ledger, CloudStep
  PROVE  Ledger'
<1>. USE DEF Ledger, Ended
<1>0. cloud \in [Tasks -> CloudRecords]
  BY DEF TypeOK
<1>1. ASSUME NEW t \in Tasks, NEW w \in Workers, Claim(t, w)
      PROVE  Ledger'
  BY <1>0, <1>1 DEF Claim, CloudRecords, Outcomes
<1>2. ASSUME NEW t \in Tasks, NEW outcome \in Outcomes, Report(t, outcome)
      PROVE  Ledger'
  BY <1>0, <1>2 DEF Report, CloudRecords, Outcomes
<1>3. ASSUME NEW t \in Tasks, Expire(t)
      PROVE  Ledger'
  BY <1>0, <1>3 DEF Expire, CloudRecords, Outcomes
<1>4. CASE UNCHANGED cloud
  BY <1>4
<1>. QED
  BY <1>1, <1>2, <1>3, <1>4 DEF CloudStep

-----------------------------------------------------------------------------
(* The contract                                                             *)

LEMMA InitContract == Init => Contract!Init
BY DEF Init, Contract!Init, Ended, Outcomes

\* Each step of a task record is a step of the contract, or none.
LEMMA ContractStep ==
  ASSUME TypeOK, Ledger, CloudStep
  PROVE  [Contract!Next]_(Contract!vars)
<1>0. cloud \in [Tasks -> CloudRecords]
  BY DEF TypeOK
<1>1. ASSUME NEW t \in Tasks, NEW w \in Workers, Claim(t, w)
      PROVE  Contract!Give(t, w)
  BY <1>0, <1>1 DEF Claim, Claimable, Ledger, Ended, Outcomes, CloudRecords,
     Contract!Give, Contract!Open
<1>2. ASSUME NEW t \in Tasks, NEW outcome \in Outcomes, Report(t, outcome)
      PROVE  Contract!Close(t, cloud[t].holder, outcome)
  BY <1>0, <1>2 DEF Report, Ledger, Ended, Outcomes, CloudRecords,
     Contract!Close, Contract!Open
<1>3. ASSUME NEW t \in Tasks, Expire(t)
      PROVE  Contract!Lapse(t)
  BY <1>0, <1>3, NoneAssumption DEF Expire, Ledger, Ended, CloudRecords,
     Contract!Lapse
<1>4. CASE UNCHANGED cloud
  BY <1>4 DEF Contract!vars, Ended
<1>5. \A t \in Tasks, outcome \in Outcomes :
        Report(t, outcome) => cloud[t].holder \in Workers
  BY DEF Report, Ledger
<1>. QED
  BY <1>1, <1>2, <1>3, <1>4, <1>5 DEF CloudStep, Contract!Next

LEMMA LedgerAlways == Spec => [](TypeInv /\ Ledger)
<1>1. TypeInv /\ Ledger /\ [Next]_vars => TypeInv' /\ Ledger'
  BY StepTypeInv, NextCloudStep, StepLedger DEF TypeInv
<1>. QED
  BY InitTypeInv, InitLedger, <1>1, PTL DEF Spec

\* Whatever is lost, repeated or served late, the hand-over keeps its contract:
\* a task changes hands only after its lease has expired and gets one result,
\* from its owner (claimTaskForWorker and applyWorkerTaskPatch of
\* task-lifecycle.ts).
THEOREM HonoursLease == Spec => LeaseHonoured
<1>1. TypeInv /\ Ledger /\ [Next]_vars => [Contract!Next]_(Contract!vars)
  BY NextCloudStep, ContractStep DEF TypeInv
<1>. QED
  BY InitContract, LedgerAlways, <1>1, PTL
  DEF Spec, LeaseHonoured, Contract!Spec

-----------------------------------------------------------------------------
(* What a state file calls reported                                         *)

\* A completion the cloud has taken, whether its worker has heard so or not.
TakenBy(w) ==
  /\ call[w] # None /\ call[w].request.op = "complete"
  /\ call[w].answer.kind = "ok"

Answered ==
  \A w \in Workers :
    TakenBy(w) => cloud[call[w].request.task].status = call[w].request.outcome

\* A result stays as it is.
LEMMA ResultStays ==
  ASSUME TypeOK, CloudStep, NEW t \in Tasks, Ended(t)
  PROVE  cloud'[t].status = cloud[t].status
<1>0. cloud \in [Tasks -> CloudRecords]
  BY DEF TypeOK
<1>1. ASSUME NEW u \in Tasks, NEW w \in Workers, Claim(u, w)
      PROVE  cloud'[t].status = cloud[t].status
  BY <1>0, <1>1 DEF Claim, Claimable, Ended, Outcomes
<1>2. ASSUME NEW u \in Tasks, NEW outcome \in Outcomes, Report(u, outcome)
      PROVE  cloud'[t].status = cloud[t].status
  BY <1>0, <1>2 DEF Report, Ended, Outcomes
<1>3. ASSUME NEW u \in Tasks, Expire(u)
      PROVE  cloud'[t].status = cloud[t].status
  BY <1>0, <1>3 DEF Expire, CloudRecords
<1>. QED
  BY <1>1, <1>2, <1>3 DEF CloudStep

\* A completion is answered `ok' in the step in which the cloud takes it.
LEMMA OkMeansTaken ==
  ASSUME TypeOK, NEW r \in Requests, r.op = "complete", Effect(r),
         Answer(r).kind = "ok"
  PROVE  cloud'[r.task].status = r.outcome
<1>1. cloud' = [cloud EXCEPT ![r.task] = WorkerPatch(r)] /\ r.task \in Tasks
  BY DEF Effect, Claims, Requests
<1>2. cloud \in [Tasks -> CloudRecords]
  BY DEF TypeOK
<1>. QED
  BY <1>1, <1>2 DEF WorkerPatch, CloudRecords

\* A completion is taken only by a task that is given its outcome as status.
LEMMA CompleteType ==
  ASSUME TypeOK, NEW w \in Workers, call[w] # None,
         call[w].request.op = "complete"
  PROVE  /\ call[w].request \in Requests
         /\ call[w].request.task \in Tasks
         /\ call[w].request.outcome \in Outcomes
<1>1. call[w].request \in Requests
  BY DEF TypeOK
<1>. QED
  BY <1>1 DEF Requests

LEMMA StepAnswered ==
  ASSUME TypeInv, Ledger, Answered, [Next]_vars
  PROVE  Answered'
<1> SUFFICES ASSUME NEW w \in Workers, TakenBy(w)'
             PROVE  (cloud[call[w].request.task].status
                       = call[w].request.outcome)'
  BY DEF Answered
<1>1. CloudStep
  BY NextCloudStep DEF TypeInv
<1>2. CASE UNCHANGED call[w]
  <2>1. TakenBy(w)
    BY <1>2 DEF TakenBy
  <2>2. /\ cloud[call[w].request.task].status = call[w].request.outcome
        /\ call[w].request.task \in Tasks
        /\ call[w].request.outcome \in Outcomes
    BY <2>1, CompleteType DEF Answered, TakenBy, TypeInv
  <2>. QED
    BY <1>1, <1>2, <2>2, ResultStays DEF Ended, TypeInv
<1>3. CASE Serve(w)
  <2> DEFINE r == call[w].request
  <2>1. /\ r \in Requests /\ call'[w].request = r
        /\ call'[w].answer = Answer(r) /\ Effect(r)
    BY <1>3 DEF Serve, Awaited, TypeInv, TypeOK
  <2>. QED
    BY <2>1, OkMeansTaken DEF TakenBy, TypeInv
<1>4. ASSUME NEW v \in Workers, Serve(v), v # w
      PROVE  UNCHANGED call[w]
  BY <1>4 DEF Serve, TypeInv, TypeOK
<1>5. ASSUME NEW v \in Workers, WorkerStep(v) \/ Interrupt(v)
      PROVE  UNCHANGED call[w]
  <2>1. UNCHANGED call \/ call' = [call EXCEPT ![v] = call'[v]]
    BY <1>5 DEF WorkerStep, RunOnce, CreateJob, LinkJob, FollowJob, Send,
       HearLease, HearHeartbeat, HearComplete, ForgetLease, Heard, Interrupt,
       TypeInv, TypeOK
  <2>2. ~TakenBy(v)' \/ UNCHANGED call
    BY <1>5, NoneAssumption DEF TakenBy, Plain, WorkerStep, RunOnce, CreateJob,
       LinkJob, FollowJob, Send, HearLease, HearHeartbeat, HearComplete,
       ForgetLease, Heard, Interrupt, TypeInv, TypeOK
  <2>. QED
    BY <2>1, <2>2 DEF TypeInv, TypeOK
<1>6. CASE UNCHANGED call
  BY <1>2, <1>6
<1>. QED
  BY <1>2, <1>3, <1>4, <1>5, <1>6
  DEF Next, vars, EndJob, HumanActs, RetryJob, PruneJob, ExpireUnheld,
     ExpireHeld, ServeLate

\* A state file calls a task reported in the step in which its worker hears that
\* the completion was taken.
LEMMA ReportedStep ==
  ASSUME TypeInv, [Next]_vars, NEW w \in Workers, NEW t \in Tasks,
         disk'[w].jobs[t] \in {"completed", "failed"}
  PROVE  \/ disk'[w].jobs[t] = disk[w].jobs[t]
         \/ /\ TakenBy(w) /\ call[w].request.task = t
            /\ disk'[w].jobs[t] = IF call[w].request.outcome = "succeeded"
                                  THEN "completed" ELSE "failed"
<1>0. disk \in [Workers -> DiskRecords]
  BY DEF TypeInv, TypeOK
<1>1. CASE UNCHANGED disk
  BY <1>1
<1>2. ASSUME NEW v \in Workers, NEW l, disk' = [disk EXCEPT ![v].active = l]
      PROVE  disk'[w].jobs[t] = disk[w].jobs[t]
  BY <1>0, <1>2 DEF DiskRecords
<1>3. ASSUME NEW v \in Workers, NEW u \in Tasks, NEW link \in {"none", "linked"},
             disk' = [disk EXCEPT ![v].jobs[u] = link]
      PROVE  disk'[w].jobs[t] = disk[w].jobs[t]
  BY <1>0, <1>3 DEF DiskRecords
<1>4. ASSUME NEW v \in Workers, NEW link, Heard(v, "complete", Taken),
             link = IF call[v].request.outcome = "succeeded"
                    THEN "completed" ELSE "failed",
             disk' = [disk EXCEPT ![v].active = None,
                                  ![v].jobs[call[v].request.task] = link]
      PROVE  \/ disk'[w].jobs[t] = disk[w].jobs[t]
             \/ /\ TakenBy(w) /\ call[w].request.task = t
                /\ disk'[w].jobs[t] = IF call[w].request.outcome = "succeeded"
                                      THEN "completed" ELSE "failed"
  BY <1>0, <1>4 DEF DiskRecords, Heard, Taken, TakenBy
<1>5. ASSUME NEW v \in Workers, LinkJob(v) \/ FollowJob(v)
      PROVE  \/ UNCHANGED disk
             \/ \E u \in Tasks, link \in {"none", "linked"} :
                  disk' = [disk EXCEPT ![v].jobs[u] = link]
  <2>1. disk[v].active.task \in Tasks
    BY <1>5 DEF LinkJob, FollowJob, TypeInv, TypeOK, Active, DiskRecords, Leases
  <2>. QED
    BY <1>5, <2>1 DEF LinkJob, FollowJob
<1>6. ASSUME NEW v \in Workers, HearHeartbeat(v)
      PROVE  \/ disk' = [disk EXCEPT ![v].active = None]
             \/ \E u \in Tasks : disk' = [disk EXCEPT ![v].jobs[u] = "linked"]
  BY <1>6, HeardType DEF HearHeartbeat, ForgetLease
<1>7. ASSUME NEW v \in Workers, HearLease(v) \/ HearComplete(v)
      PROVE  \/ UNCHANGED disk
             \/ \E l : disk' = [disk EXCEPT ![v].active = l]
             \/ \E link :
                  /\ Heard(v, "complete", Taken)
                  /\ link = IF call[v].request.outcome = "succeeded"
                            THEN "completed" ELSE "failed"
                  /\ disk' = [disk EXCEPT ![v].active = None,
                               ![v].jobs[call[v].request.task] = link]
  BY <1>7, Zenon DEF HearLease, HearComplete, ForgetLease
<1>8. \/ UNCHANGED disk
      \/ \E v \in Workers : \/ LinkJob(v) \/ FollowJob(v)
                            \/ HearHeartbeat(v)
                            \/ HearLease(v) \/ HearComplete(v)
  BY DEF Next, vars, WorkerStep, RunOnce, CreateJob, Serve, ServeLate,
     Interrupt, EndJob, HumanActs, RetryJob, PruneJob, ExpireUnheld, ExpireHeld
<1>9. ASSUME NEW v \in Workers, LinkJob(v) \/ FollowJob(v) \/ HearHeartbeat(v)
      PROVE  disk'[w].jobs[t] = disk[w].jobs[t]
  BY <1>1, <1>2, <1>3, <1>5, <1>6, <1>9
<1>10. ASSUME NEW v \in Workers, HearLease(v) \/ HearComplete(v)
       PROVE  \/ disk'[w].jobs[t] = disk[w].jobs[t]
              \/ /\ TakenBy(w) /\ call[w].request.task = t
                 /\ disk'[w].jobs[t] = IF call[w].request.outcome = "succeeded"
                                       THEN "completed" ELSE "failed"
  BY <1>1, <1>2, <1>4, <1>7, <1>10
<1>. QED
  BY <1>1, <1>8, <1>9, <1>10

LEMMA StepReported ==
  ASSUME TypeInv, Ledger, Answered, ReportedMeansTaken, [Next]_vars
  PROVE  ReportedMeansTaken'
<1> SUFFICES ASSUME NEW w \in Workers, NEW t \in Tasks,
                    disk'[w].jobs[t] \in {"completed", "failed"}
             PROVE  cloud'[t].status = IF disk'[w].jobs[t] = "completed"
                                       THEN "succeeded" ELSE "failed"
  BY DEF ReportedMeansTaken
<1>1. Ended(t) /\ cloud[t].status = IF disk'[w].jobs[t] = "completed"
                                    THEN "succeeded" ELSE "failed"
  <2>1. CASE disk'[w].jobs[t] = disk[w].jobs[t]
    BY <2>1 DEF ReportedMeansTaken, Ended, Outcomes
  <2>2. CASE /\ TakenBy(w) /\ call[w].request.task = t
             /\ disk'[w].jobs[t] = IF call[w].request.outcome = "succeeded"
                                   THEN "completed" ELSE "failed"
    <3>1. cloud[t].status = call[w].request.outcome
      BY <2>2 DEF Answered
    <3>2. call[w].request.outcome \in Outcomes
      BY <2>2, CompleteType DEF TakenBy, TypeInv
    <3>. QED
      BY <2>2, <3>1, <3>2 DEF Ended, Outcomes
  <2>. QED
    BY <2>1, <2>2, ReportedStep
<1>2. CloudStep
  BY NextCloudStep DEF TypeInv
<1>. QED
  BY <1>1, <1>2, ResultStays DEF TypeInv

\* What the worker's state file calls reported is what the cloud holds, whatever
\* answers were lost and however often a report was repeated (runOnce saves the
\* result of a job only once the cloud has taken it).
THEOREM ReportsAreTaken == Spec => []ReportedMeansTaken
<1>1. Init => Answered /\ ReportedMeansTaken
  BY DEF Init, Answered, TakenBy, ReportedMeansTaken
<1>2. TypeInv /\ Ledger /\ Answered /\ ReportedMeansTaken /\ [Next]_vars
        => Answered' /\ ReportedMeansTaken'
  BY StepAnswered, StepReported
<1>. QED
  BY LedgerAlways, <1>1, <1>2, PTL DEF Spec

-----------------------------------------------------------------------------
(* One Mac per task                                                         *)

\* The cloud has lent the task to w under this lease, and it still runs.
Lent(w, l) ==
  /\ cloud[l.task].lease = l.lease
  /\ cloud[l.task].holder = w
  /\ ~cloud[l.task].expired

\* The task a worker's state file says it is working on.
Doing(w, t) == disk[w].active # None /\ disk[w].active.task = t

\* A call in flight is about the state file it was made from, and a lease it
\* brings is lent.
Fits(w) ==
  LET r == call[w].request
      a == call[w].answer
  IN
  /\ r.by = w
  /\ r.op = "lease" =>
       /\ disk[w].active = None
       /\ a.kind = "granted" => Lent(w, a.lease)
  /\ r.op # "lease" =>
       /\ Doing(w, r.task)
       /\ disk[w].active.lease = r.lease
       /\ a.kind \notin {"refused", "granted"}

\* While no worker was away: a lease that a worker has is lent to it, and a Mac
\* with a job is the holder of its task, which it still does or has ended.
LentOut ==
  \A w \in Workers :
    /\ disk[w].active # None => Lent(w, disk[w].active)
    /\ call[w] # None => Fits(w)
    /\ \A t \in Tasks :
         HasJob(w, t) => /\ cloud[t].holder = w
                         /\ Ended(t) \/ Doing(w, t)

Lending == spent["away"] = 0 => LentOut

LEMMA InitLending == Init => Lending
BY DEF Init, Lending, LentOut, HasJob

\* Mishaps are counted up only.
LEMMA AwayStays ==
  ASSUME TypeOK, [Next]_vars, spent'["away"] = 0
  PROVE  /\ spent["away"] = 0
         /\ \A t \in Tasks : ~ExpireHeld(t)
<1>1. spent \in [Mishaps -> Nat] /\ "away" \in Mishaps
  BY DEF TypeOK, Mishaps
<1>2. ASSUME NEW k \in Mishaps, Spend(k)
      PROVE  spent["away"] = 0 /\ k # "away"
  BY <1>1, <1>2 DEF Spend
<1>3. \A t \in Tasks : ~ExpireHeld(t)
  BY <1>1, <1>2 DEF ExpireHeld
<1>4. UNCHANGED spent \/ \E k \in Mishaps : Spend(k)
  BY DEF Next, vars, WorkerStep, RunOnce, CreateJob, LinkJob, FollowJob,
     HearLease, HearHeartbeat, HearComplete, ForgetLease, Heard, Serve,
     ServeLate, Interrupt, EndJob, HumanActs, RetryJob, PruneJob, ExpireUnheld,
     ExpireHeld, Mishaps
<1>. QED
  BY <1>2, <1>3, <1>4

\* A lease that its worker has stays lent to it: the task cannot be claimed, a
\* report leaves the lease alone, and it does not expire while it is held.
LEMMA LentStays ==
  ASSUME TypeOK, Ledger, CloudStep,
         NEW w \in Workers, NEW l, l.task \in Tasks, Lent(w, l),
         ~\E t \in Tasks : Expire(t) /\ t = l.task
  PROVE  Lent(w, l)'
<1>0. cloud \in [Tasks -> CloudRecords]
  BY DEF TypeOK
<1>1. ~Claimable(l.task)
  BY NoneAssumption DEF Claimable, Lent, Ledger
<1>2. ASSUME NEW t \in Tasks, NEW v \in Workers, Claim(t, v)
      PROVE  cloud'[l.task] = cloud[l.task]
  BY <1>0, <1>1, <1>2 DEF Claim
<1>3. ASSUME NEW t \in Tasks, NEW outcome \in Outcomes, Report(t, outcome)
      PROVE  /\ cloud'[l.task].lease = cloud[l.task].lease
             /\ cloud'[l.task].holder = cloud[l.task].holder
             /\ cloud'[l.task].expired = cloud[l.task].expired
  BY <1>0, <1>3 DEF Report, CloudRecords
<1>4. ASSUME NEW t \in Tasks, Expire(t)
      PROVE  cloud'[l.task] = cloud[l.task]
  BY <1>0, <1>4 DEF Expire
<1>. QED
  BY <1>2, <1>3, <1>4 DEF CloudStep, Lent

\* A task that has ended stays with its holder.
LEMMA EndedStays ==
  ASSUME TypeOK, CloudStep, NEW t \in Tasks, Ended(t)
  PROVE  Ended(t)' /\ cloud'[t].holder = cloud[t].holder
<1>0. cloud \in [Tasks -> CloudRecords]
  BY DEF TypeOK
<1>1. Ended(t)'
  BY ResultStays DEF Ended
<1>2. ASSUME NEW u \in Tasks, NEW w \in Workers, Claim(u, w)
      PROVE  cloud'[t].holder = cloud[t].holder
  BY <1>0, <1>2 DEF Claim, Claimable, Ended, Outcomes
<1>3. ASSUME NEW u \in Tasks, NEW outcome \in Outcomes, Report(u, outcome)
      PROVE  cloud'[t].holder = cloud[t].holder
  BY <1>0, <1>3 DEF Report, CloudRecords
<1>4. ASSUME NEW u \in Tasks, Expire(u)
      PROVE  cloud'[t].holder = cloud[t].holder
  BY <1>0, <1>4 DEF Expire, CloudRecords
<1>. QED
  BY <1>1, <1>2, <1>3, <1>4 DEF CloudStep

\* A step of the cloud, the workers standing still but for answers.
LEMMA LentOutCloud ==
  ASSUME TypeInv, Ledger, CloudStep, LentOut,
         UNCHANGED <<disk, job>>,
         \A t \in Tasks : Expire(t) => ~Held(t),
         \A w \in Workers :
           \/ call'[w] = call[w]
           \/ call'[w] # None => Fits(w)'
  PROVE  LentOut'
<1>. USE DEF TypeInv
<1>1. ASSUME NEW w \in Workers, NEW l \in Leases,
             Lent(w, l),
             \/ disk[w].active = l
             \/ /\ call[w] # None /\ call[w].answer.kind = "granted"
                /\ call[w].answer.lease = l
      PROVE  Lent(w, l)'
  <2>1. l.task \in Tasks /\ l = [task |-> l.task, lease |-> cloud[l.task].lease]
    BY <1>1 DEF Leases, Lent
  <2>2. Held(l.task)
    BY <1>1, <2>1 DEF Held
  <2>. QED
    BY <1>1, <2>1, <2>2, LentStays
<1>2. ASSUME NEW w \in Workers, disk[w].active # None
      PROVE  Lent(w, disk[w].active)'
  <2>1. PICK l \in Leases : l = disk[w].active
    BY <1>2 DEF TypeOK, DiskRecords
  <2>2. Lent(w, l)
    BY <1>2, <2>1 DEF LentOut
  <2>3. Lent(w, l)'
    BY <1>1, <2>1, <2>2
  <2>. QED
    BY <2>1, <2>3 DEF Lent
<1>3. ASSUME NEW w \in Workers, call'[w] # None
      PROVE  Fits(w)'
  <2>1. CASE call'[w] = call[w]
    <3>1. Fits(w)
      BY <1>3, <2>1 DEF LentOut
    <3>2. CASE call[w].request.op = "lease" /\ call[w].answer.kind = "granted"
      <4>1. PICK l \in Leases : l = call[w].answer.lease
        BY <1>3, <2>1, <3>2 DEF TypeOK, Answers
      <4>2. Lent(w, l)
        BY <3>1, <3>2, <4>1 DEF Fits
      <4>3. Lent(w, l)'
        BY <1>1, <1>3, <2>1, <3>2, <4>1, <4>2
      <4>. QED
        BY <2>1, <3>1, <3>2, <4>1, <4>3 DEF Fits, Lent
    <3>3. CASE ~(call[w].request.op = "lease"
                   /\ call[w].answer.kind = "granted")
      BY <2>1, <3>1, <3>3 DEF Fits, Doing
    <3>. QED
      BY <3>2, <3>3
  <2>. QED
    BY <1>3, <2>1
<1>4. ASSUME NEW w \in Workers, NEW t \in Tasks, HasJob(w, t)
      PROVE  cloud'[t].holder = w /\ (Ended(t)' \/ Doing(w, t)')
  <2>1. cloud[t].holder = w /\ (Ended(t) \/ Doing(w, t))
    BY <1>4 DEF LentOut
  <2>2. CASE Ended(t)
    BY <2>1, <2>2, EndedStays
  <2>3. CASE Doing(w, t)
    <3>1. Lent(w, disk[w].active)'
      BY <2>3, <1>2 DEF Doing
    <3>. QED
      BY <2>3, <3>1 DEF Doing, Lent
  <2>. QED
    BY <2>1, <2>2, <2>3
<1>. QED
  BY <1>2, <1>3, <1>4 DEF LentOut, HasJob

\* The answer to a call fits it: a claim lends the task, and a call made under
\* a lease that is lent is not refused.
LEMMA ServeFits ==
  ASSUME TypeInv, LentOut, NEW w \in Workers, Serve(w)
  PROVE  Fits(w)'
<1>. USE DEF TypeInv
<1>. DEFINE r == call[w].request
            a == Answer(r)
<1>1. /\ r \in Requests /\ Fits(w) /\ Effect(r)
      /\ call'[w].request = r /\ call'[w].answer = a
      /\ disk' = disk
  BY DEF Serve, Awaited, TypeOK, LentOut
<1>2. CASE r.op = "lease"
  <2>2. ASSUME a.kind = "granted"
        PROVE  Lent(w, call[w].answer.lease)'
    <3>1. PICK t \in Tasks : /\ a.lease = [task |-> t, lease |-> granted + 1]
                             /\ ClaimTask(t, r.by)
      <4>1. /\ Claims(r)
            /\ a.lease = [task |-> Chosen, lease |-> granted + 1]
        BY <2>2, AnswerGranted
      <4>2. ClaimTask(Chosen, r.by) /\ Chosen \in Tasks
        BY <1>1, <1>2, <4>1, ChosenClaimable DEF Effect
      <4>. QED
        BY <4>1, <4>2
    <3>2. /\ cloud'[t].lease = granted + 1
          /\ cloud'[t].holder = w
          /\ ~cloud'[t].expired
      BY <1>1, <3>1 DEF ClaimTask, Fits, TypeOK, CloudRecords
    <3>3. /\ call'[w].answer.lease.task = t
          /\ call'[w].answer.lease.lease = granted + 1
      BY <1>1, <3>1
    <3>. QED
      BY <3>2, <3>3 DEF Lent
  <2>3. call'[w].answer.kind = "granted" => Lent(w, call[w].answer.lease)'
    BY <1>1, <2>2
  <2>. HIDE DEF a
  <2>. QED
    BY <1>1, <1>2, <2>3 DEF Fits
<1>3. CASE r.op # "lease"
  <2>1. Doing(w, r.task) /\ disk[w].active.lease = r.lease /\ r.by = w
    BY <1>1, <1>3 DEF Fits
  <2>2. LeaseMatches(r)
    BY <2>1 DEF LentOut, Doing, Lent, LeaseMatches
  <2>3. a.kind \in {"ok", "error"}
    BY <1>3, <2>2 DEF Answer, PatchAnswer, Plain
  <2>. HIDE DEF a
  <2>. QED
    BY <1>1, <1>3, <2>1, <2>3 DEF Fits, Doing
<1>. QED
  BY <1>2, <1>3

\* A step of one worker and its Mac, the cloud standing still.
LEMMA LentOutLocal ==
  ASSUME LentOut, NEW w \in Workers, UNCHANGED cloud,
         \A v \in Workers : v # w => /\ call'[v] = call[v]
                                     /\ disk'[v].active = disk[v].active
                                     /\ job'[v] = job[v],
         disk'[w].active # None => Lent(w, disk'[w].active),
         call'[w] # None => Fits(w)',
         \A t \in Tasks : HasJob(w, t)' =>
           cloud[t].holder = w /\ (Ended(t) \/ Doing(w, t)')
  PROVE  LentOut'
<1>1. ASSUME NEW v \in Workers, disk'[v].active # None
      PROVE  Lent(v, disk[v].active)'
  <2>1. Lent(v, disk'[v].active)
    BY <1>1 DEF LentOut
  <2>. QED
    BY <2>1 DEF Lent
<1>2. ASSUME NEW v \in Workers, call'[v] # None
      PROVE  Fits(v)'
  <2>1. CASE v = w
    BY <1>2, <2>1
  <2>2. CASE v # w
    BY <1>2, <2>2 DEF LentOut, Fits, Doing, Lent
  <2>. QED
    BY <2>1, <2>2
<1>3. ASSUME NEW v \in Workers, NEW t \in Tasks, HasJob(v, t)'
      PROVE  cloud'[t].holder = v /\ (Ended(t)' \/ Doing(v, t)')
  BY <1>3 DEF LentOut, Doing, Ended, HasJob
<1>. QED
  BY <1>1, <1>2, <1>3 DEF LentOut

LEMMA LentOutWorker ==
  ASSUME TypeInv, Answered, LentOut, NEW w \in Workers,
         WorkerStep(w) \/ Interrupt(w)
  PROVE  LentOut'
<1>. USE DEF TypeInv
<1>l. disk[w].active # None => /\ Lent(w, disk[w].active)
                               /\ disk[w].active \in Leases
                               /\ disk[w].active.task \in Tasks
  BY DEF LentOut, TypeOK, DiskRecords, Leases
<1>c. call[w] # None => Fits(w)
  BY DEF LentOut
<1>j. \A t \in Tasks : HasJob(w, t) =>
        cloud[t].holder = w /\ (Ended(t) \/ Doing(w, t))
  BY DEF LentOut
<1>h. UNCHANGED job => \A t \in Tasks : HasJob(w, t)' <=> HasJob(w, t)
  BY DEF HasJob
<1>a. Plain("awaited").kind = "awaited"
  BY DEF Plain
\* A run that only notes a job, or nothing, in the state file.
<1>k. ASSUME UNCHANGED <<cloud, job>>,
             \A v \in Workers : disk'[v].active = disk[v].active,
             \A v \in Workers : v # w => call'[v] = call[v],
             call'[w] = None \/ call'[w] = call[w]
      PROVE  LentOut'
  <2>1. call'[w] # None => Fits(w)'
    BY <1>c, <1>k DEF Fits, Doing, Lent
  <2>2. \A t \in Tasks : Doing(w, t)' <=> Doing(w, t)
    BY <1>k DEF Doing
  <2>. QED
    BY <1>l, <1>j, <1>h, <1>k, <2>1, <2>2, LentOutLocal
<1>1. CASE RunOnce(w)
  <2>1. CASE disk[w].active = None /\ Send(w, LeaseCall(w))
    <3>1. /\ call'[w].request = LeaseCall(w)
          /\ call'[w].answer = Plain("awaited")
          /\ \A v \in Workers : v # w => call'[v] = call[v]
      BY <2>1 DEF Send, TypeOK
    <3>2. UNCHANGED <<cloud, disk, job>>
      BY <1>1 DEF RunOnce
    <3>3. Fits(w)'
      BY <1>a, <2>1, <3>1, <3>2 DEF Fits, LeaseCall
    <3>4. \A t \in Tasks : Doing(w, t)' <=> Doing(w, t)
      BY <3>2 DEF Doing
    <3>. QED
      BY <1>l, <1>j, <1>h, <3>1, <3>2, <3>3, <3>4, LentOutLocal
  <2>2. CASE UNCHANGED call
    BY <1>1, <1>k, <2>2 DEF RunOnce
  <2>. QED
    BY <1>1, <2>1, <2>2 DEF RunOnce
<1>2. CASE CreateJob(w)
  <2>1. disk[w].active # None
    BY <1>2 DEF CreateJob, Active
  <2>2. /\ \A t \in Tasks : t # disk[w].active.task => job'[w][t] = job[w][t]
        /\ \A v \in Workers : v # w => job'[v] = job[v]
        /\ UNCHANGED <<cloud, call, disk>>
    BY <1>2 DEF CreateJob, TypeOK
  <2>3. \A t \in Tasks : Doing(w, t)' <=> Doing(w, t)
    BY <2>2 DEF Doing
  <2>4. \A t \in Tasks : HasJob(w, t)' =>
          cloud[t].holder = w /\ (Ended(t) \/ Doing(w, t)')
    BY <1>l, <1>j, <2>1, <2>2, <2>3 DEF Doing, Lent, HasJob
  <2>5. call'[w] # None => Fits(w)'
    BY <1>c, <2>2 DEF Fits, Doing, Lent
  <2>. QED
    BY <1>l, <2>2, <2>4, <2>5, LentOutLocal
<1>3. CASE LinkJob(w)
  <2>1. disk[w].active.task \in Tasks
    BY <1>3, <1>l DEF LinkJob, Active
  <2>2. \A v \in Workers : disk'[v].active = disk[v].active
    BY <1>3, <2>1, LinkType DEF LinkJob, Links
  <2>. QED
    BY <1>3, <1>k, <2>2 DEF LinkJob
<1>4. CASE FollowJob(w)
  <2>. DEFINE l == disk[w].active
              status == job[w][l.task]
  <2>1. l # None /\ l \in Leases /\ l.task \in Tasks
    BY <1>4, <1>l DEF FollowJob, Active
  <2>2. CASE /\ disk' = [disk EXCEPT ![w].jobs[l.task] = "none"]
             /\ UNCHANGED call
    <3>1. \A v \in Workers : disk'[v].active = disk[v].active
      BY <2>1, <2>2, LinkType DEF Links
    <3>. QED
      BY <1>4, <1>k, <2>2, <3>1 DEF FollowJob
  <2>3. ASSUME NEW r, r \in {HeartbeatCall(w, l), CompleteCall(w, l, status)},
               Send(w, r), UNCHANGED disk
        PROVE  LentOut'
    <3>1. r.op # "lease" /\ r.by = w /\ r.task = l.task /\ r.lease = l.lease
      BY <2>3 DEF HeartbeatCall, CompleteCall
    <3>2. /\ call'[w].request = r
          /\ call'[w].answer = Plain("awaited")
          /\ \A v \in Workers : v # w => call'[v] = call[v]
      BY <2>3 DEF Send, TypeOK
    <3>3. UNCHANGED <<cloud, disk, job>>
      BY <1>4, <2>3 DEF FollowJob
    <3>4. Fits(w)'
      BY <1>a, <2>1, <3>1, <3>2, <3>3 DEF Fits, Doing
    <3>5. \A t \in Tasks : Doing(w, t)' <=> Doing(w, t)
      BY <3>3 DEF Doing
    <3>. QED
      BY <1>l, <1>j, <1>h, <3>2, <3>3, <3>4, <3>5, LentOutLocal
  <2>. QED
    BY <1>4, <2>2, <2>3 DEF FollowJob
<1>5. CASE HearLease(w)
  <2>. DEFINE l == call[w].answer.lease
  <2>1. CASE /\ Heard(w, "lease", {"granted"})
             /\ disk' = [disk EXCEPT ![w].active = l]
    <3>1. /\ Fits(w) /\ disk[w].active = None /\ Lent(w, l)
      BY <1>c, <2>1 DEF Heard, Fits
    <3>2. /\ disk'[w].active = l
          /\ \A v \in Workers : v # w => disk'[v] = disk[v] /\ call'[v] = call[v]
          /\ call'[w] = None
          /\ UNCHANGED <<cloud, job>>
      BY <2>1 DEF Heard, TypeOK, DiskRecords
    <3>3. \A t \in Tasks : HasJob(w, t) => cloud[t].holder = w /\ Ended(t)
      BY <1>j, <3>1 DEF Doing
    <3>. HIDE DEF l
    <3>4. Lent(w, disk'[w].active)
      BY <3>1, <3>2 DEF Lent
    <3>. QED
      BY <1>h, <3>2, <3>3, <3>4, LentOutLocal
  <2>2. CASE Heard(w, "lease", {"no_job", "refused"}) /\ UNCHANGED disk
    BY <1>k, <2>2 DEF Heard, TypeOK
  <2>. QED
    BY <1>5, <2>1, <2>2 DEF HearLease
<1>6. ASSUME NEW op, op # "lease", Heard(w, op, LosesLease)
      PROVE  FALSE
  BY <1>c, <1>6 DEF Heard, LosesLease, Fits
<1>7. CASE HearHeartbeat(w)
  <2>1. PICK kinds : /\ Heard(w, "heartbeat", kinds)
                     /\ disk' = [disk EXCEPT
                                   ![w].jobs[call[w].request.task] = "linked"]
    BY <1>6, <1>7 DEF HearHeartbeat, ForgetLease
  <2>2. \A v \in Workers : disk'[v].active = disk[v].active
    BY <2>1, HeardType, LinkType DEF Links
  <2>. QED
    BY <1>k, <2>1, <2>2 DEF Heard, TypeOK
<1>8. CASE HearComplete(w)
  <2>. DEFINE r == call[w].request
  <2>1. CASE /\ Heard(w, "complete", Taken)
             /\ disk' = [disk EXCEPT
                  ![w].active = None,
                  ![w].jobs[r.task] = IF r.outcome = "succeeded"
                                      THEN "completed" ELSE "failed"]
    <3>1. Ended(r.task)
      BY <2>1, CompleteType DEF Heard, Taken, Answered, TakenBy, Ended
    <3>2. Doing(w, r.task)
      BY <1>c, <2>1 DEF Heard, Fits
    <3>3. /\ disk'[w].active = None
          /\ \A v \in Workers : v # w => disk'[v] = disk[v] /\ call'[v] = call[v]
          /\ call'[w] = None
          /\ UNCHANGED <<cloud, job>>
      BY <2>1 DEF Heard, TypeOK, DiskRecords
    <3>4. \A t \in Tasks : HasJob(w, t) => cloud[t].holder = w /\ Ended(t)
      BY <1>j, <3>1, <3>2 DEF Doing
    <3>. HIDE DEF r
    <3>. QED
      BY <1>h, <3>3, <3>4, LentOutLocal
  <2>2. CASE \E kinds : Heard(w, "complete", kinds) /\ UNCHANGED disk
    BY <1>k, <2>2 DEF Heard, TypeOK
  <2>. QED
    BY <1>6, <1>8, <2>1, <2>2 DEF HearComplete, ForgetLease
<1>9. CASE Interrupt(w)
  BY <1>9, <1>k DEF Interrupt, TypeOK
<1>. QED
  BY <1>1, <1>2, <1>3, <1>4, <1>5, <1>7, <1>8, <1>9 DEF WorkerStep

LEMMA LentOutJob ==
  ASSUME TypeInv, LentOut, NEW w \in Workers, NEW t \in Tasks,
         EndJob(w, t) \/ HumanActs(w, t) \/ RetryJob(w, t) \/ PruneJob(w, t)
  PROVE  LentOut'
<1>1. /\ \A v \in Workers : v # w => job'[v] = job[v]
      /\ \A u \in Tasks : HasJob(w, u)' => HasJob(w, u)
      /\ UNCHANGED <<cloud, call, disk>>
  BY DEF HasJob, EndJob, HumanActs, RetryJob, PruneJob, TypeInv, TypeOK
<1>2. call'[w] # None => Fits(w)'
  BY <1>1 DEF LentOut, Fits, Doing, Lent
<1>3. \A u \in Tasks : Doing(w, u)' <=> Doing(w, u)
  BY <1>1 DEF Doing
<1>. QED
  BY <1>1, <1>2, <1>3, LentOutLocal DEF LentOut

LEMMA StepLending ==
  ASSUME TypeInv, Ledger, Answered, Lending, [Next]_vars
  PROVE  Lending'
<1>. SUFFICES ASSUME spent'["away"] = 0
              PROVE  LentOut'
  BY DEF Lending
<1>1. LentOut /\ \A t \in Tasks : ~ExpireHeld(t)
  BY AwayStays DEF Lending, TypeInv
<1>2. CloudStep
  BY NextCloudStep DEF TypeInv
<1>3. ASSUME NEW w \in Workers, WorkerStep(w) \/ Interrupt(w)
      PROVE  LentOut'
  BY <1>1, <1>3, LentOutWorker
<1>4. ASSUME NEW w \in Workers, NEW t \in Tasks,
             EndJob(w, t) \/ HumanActs(w, t) \/ RetryJob(w, t) \/ PruneJob(w, t)
      PROVE  LentOut'
  BY <1>1, <1>4, LentOutJob
\* Serving a call expires no lease.
<1>e. ASSUME NEW r \in Requests, Effect(r), NEW t \in Tasks, Expire(t), Held(t)
      PROVE  UNCHANGED cloud
  <2>0. cloud \in [Tasks -> CloudRecords]
    BY DEF TypeInv, TypeOK
  <2>1. CASE Claims(r) /\ ClaimTask(Chosen, r.by)
    <3>1. PICK u \in Tasks : ClaimTask(u, r.by)
      BY <2>1, ChosenClaimable, Zenon
    <3>2. cloud'[u].expired = FALSE /\ cloud'[t].expired = TRUE
      <4>1. cloud'[u].expired = FALSE
        BY <2>0, <3>1 DEF ClaimTask, CloudRecords
      <4>2. cloud'[t].expired = TRUE
        BY <1>e, <2>0 DEF Expire, CloudRecords
      <4>. QED
        BY <4>1, <4>2
    <3>3. cloud'[u] = cloud[u]
      BY <1>e, <2>0, <3>2 DEF Expire
    <3>4. cloud'[u].lease = granted + 1 /\ cloud'[t] = cloud[t]
      BY <2>0, <3>1, <3>2 DEF ClaimTask
    <3>. QED
      BY <1>e, <2>0, <3>4 DEF Expire
  <2>2. CASE /\ r.op # "lease" /\ Answer(r).kind = "ok"
             /\ cloud' = [cloud EXCEPT ![r.task] = WorkerPatch(r)]
    <3>1. /\ ~WorkerPatch(r).expired
          /\ r.task \in Tasks
      BY <2>0, <2>2
      DEF Answer, PatchAnswer, Plain, WorkerPatch, Requests, CloudRecords
    <3>2. ~cloud'[r.task].expired /\ cloud'[t].expired
      BY <1>e, <2>0, <2>2, <3>1 DEF Expire, CloudRecords
    <3>3. cloud'[t] = cloud[t]
      BY <2>0, <2>2, <3>1, <3>2
    <3>. QED
      BY <1>e, <2>0, <3>3 DEF Expire
  <2>. QED
    BY <1>e, <2>1, <2>2 DEF Effect
<1>5. ASSUME NEW w \in Workers, Serve(w)
      PROVE  LentOut'
  <2>1. /\ call[w].request \in Requests /\ Effect(call[w].request)
        /\ \A v \in Workers : v # w => call'[v] = call[v]
        /\ UNCHANGED <<disk, job>>
    BY <1>5 DEF Serve, Awaited, TypeInv, TypeOK
  <2>2. Fits(w)'
    BY <1>1, <1>5, ServeFits
  <2>3. CASE UNCHANGED cloud
    BY <1>1, <2>1, <2>2, <2>3, LentOutLocal DEF LentOut, Doing, HasJob
  <2>4. CASE ~UNCHANGED cloud
    BY <1>1, <1>2, <1>e, <2>1, <2>2, <2>4, LentOutCloud
  <2>. QED
    BY <2>3, <2>4
<1>6. ASSUME NEW r \in late, ServeLate(r)
      PROVE  LentOut'
  <2>1. r \in Requests /\ Effect(r) /\ UNCHANGED <<disk, job, call>>
    BY <1>6 DEF ServeLate, TypeInv, TypeOK
  <2>2. CASE UNCHANGED cloud
    BY <1>1, <2>1, <2>2 DEF LentOut, Lent, Fits, Doing, Ended, HasJob
  <2>3. CASE ~UNCHANGED cloud
    BY <1>1, <1>2, <1>e, <2>1, <2>3, LentOutCloud
  <2>. QED
    BY <2>2, <2>3
<1>7. ASSUME NEW t \in Tasks, ExpireUnheld(t)
      PROVE  LentOut'
  <2>1. ~Held(t) /\ ~cloud[t].expired /\ UNCHANGED <<disk, job, call>>
        /\ cloud' = [cloud EXCEPT ![t].expired = TRUE]
    BY <1>7 DEF ExpireUnheld
  <2>2. ASSUME NEW u \in Tasks, Expire(u) PROVE u = t
    <3>1. cloud \in [Tasks -> CloudRecords]
      BY DEF TypeInv, TypeOK
    <3>2. cloud'[t] # cloud[t] /\ \A v \in Tasks : v # u => cloud'[v] = cloud[v]
      BY <2>1, <2>2, <3>1 DEF Expire, CloudRecords
    <3>. QED
      BY <3>2
  <2>. QED
    BY <1>1, <1>2, <2>1, <2>2, LentOutCloud
<1>8. CASE UNCHANGED vars
  BY <1>1, <1>8 DEF vars, LentOut, Lent, Fits, Doing, Ended, HasJob
<1>. QED
  BY <1>1, <1>3, <1>4, <1>5, <1>6, <1>7, <1>8 DEF Next

\* Lost answers, restarts, late calls, retried and pruned jobs together never
\* put a task on two Macs, as long as no worker stays away longer than its
\* lease (mac-worker.ts over mac-worker-task-bridge.ts).
THEOREM OneMacAlways == Spec => []OneMacPerTask
<1>1. Init => Answered
  BY DEF Init, Answered, TakenBy
<1>2. TypeInv /\ Ledger /\ Answered /\ Lending /\ [Next]_vars
        => Answered' /\ Lending'
  BY StepAnswered, StepLending
<1>3. Lending => OneMacPerTask
  BY DEF Lending, LentOut, OneMacPerTask
<1>. QED
  BY LedgerAlways, InitLending, <1>1, <1>2, <1>3, PTL DEF Spec
=============================================================================
