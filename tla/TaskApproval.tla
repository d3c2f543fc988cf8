---------------------------- MODULE TaskApproval ----------------------------
(***************************************************************************)
(* The approval gate of the A-jun runtime: how a task is created, held for *)
(* a human decision, released or cancelled, executed once, and recovered   *)
(* after a restart (apps/ajun-runtime/src: task-intake.ts, task-service.ts,*)
(* task-approval-coordinator.ts, paperclip-approval-resolution.ts,         *)
(* task-approval-lifecycle.ts, approval-expiry-reconciler.ts,              *)
(* task-execution-coordinator.ts, interrupted-local-execution-             *)
(* reconciler.ts and the operations of sqlite-task-store.ts they use).     *)
(*                                                                         *)
(* Each store operation is one transaction.  What is modelled is what lies *)
(* between them: every handler is a process in memory that reads, awaits   *)
(* and writes in several steps, other handlers run in between, and a crash *)
(* forgets the processes and keeps the store.                              *)
(*                                                                         *)
(* The intake creates at most one approval per task, so an approval is     *)
(* named by its task.  The retry of a terminal task and the approvals of   *)
(* a running media task are not in this module.                            *)
(***************************************************************************)
EXTENDS TaskLifecycle

CONSTANTS
  Tasks,        \* the tasks a client may ask for
  Risk,         \* the approval each of them needs: see RiskKinds
  MaxBoots,     \* bound: how many times the runtime process is started
  EarlyInput    \* bound: the tasks that may be answered during their creation

RiskKinds == {"none", "local", "paperclip"}

ASSUME RiskAssumption     == Risk \in [Tasks -> RiskKinds]
ASSUME MaxBootsAssumption == MaxBoots \in Nat \ {0}
ASSUME EarlyAssumption    == EarlyInput \subseteq Tasks

VARIABLES
  tasks,      \* store: the task records
  approvals,  \* store: the approval records, each named by its task
  lapsed,     \* the approvals whose validUntil has passed
  paperclip,  \* Paperclip's own record of the decision of an approval
  boot,       \* the number of times the process was started
  recovery,   \* the one-shot recovery of interrupted executions of this boot
  intake,     \* where createOnce is, for each task
  run,        \* approvalResolutionRuns: the decision in flight per approval
  expiry,     \* the expiry pass in flight
  callers,    \* the calls of executeTask that have not claimed yet
  live,       \* how many executors are working on each task
  early       \* history: the tasks the owner has answered during their creation

store  == <<tasks, approvals, paperclip, lapsed>>
memory == <<recovery, intake, run, expiry, callers, live>>
vars   == <<tasks, approvals, lapsed, paperclip, boot, recovery, intake, run,
            expiry, callers, live, early>>

-----------------------------------------------------------------------------
(* Records *)

CONSTANT None   \* a record that does not exist

Stages == {"queued_for_execution", "brief_clarification", "approval_required",
           "approval_approved", "governance_approved", "owner_input",
           "starting", "local_execution_interrupted", "settled"}

\* `started' stands for execution.startedAt: the boot the claim was made in.
\* `linked' says that governance.paperclipApprovalId is known.
TaskRecords ==
  [status : TaskStatuses, stage : Stages, attempt : Nat,
   approvalRefs : SUBSET Tasks, started : Nat, linked : BOOLEAN]

Decisions == {"approve", "reject"}

\* externalDecision: the decision taken to Paperclip and whether Paperclip
\* has confirmed it.
Externals ==
  [decision : {"none"}, confirmed : {FALSE}]
    \cup [decision : Decisions, confirmed : BOOLEAN]

ApprovalRecords ==
  [task : Tasks, status : ApprovalStatuses, external : Externals]

NoExternal == [decision |-> "none", confirmed |-> FALSE]

\* A local decision goes through decide and move, a Paperclip one through
\* ask, confirm and commit.
Runs ==
  [decision : Decisions,
   pc : {"decide", "move", "ask", "confirm", "commit"}]

\* The expiry pass is at one approval at a time.
Passes == [approval : Tasks, pc : {"write", "look", "close"}]

IntakePoints  == {"none", "guard", "approve", "project", "link", "done"}
CallerKinds   == {"intake", "input", "local_resume", "paperclip_resume"}
PaperclipState == {"absent", "pending"} \cup Decisions

ASSUME NoneAssumption ==
  None \notin TaskRecords \cup ApprovalRecords \cup Runs \cup Passes

Decided(d) == IF d = "approve" THEN "approved" ELSE "rejected"

TypeOK ==
  /\ tasks \in [Tasks -> TaskRecords \cup {None}]
  /\ approvals \in [Tasks -> ApprovalRecords \cup {None}]
  /\ lapsed \subseteq Tasks
  /\ paperclip \in [Tasks -> PaperclipState]
  /\ boot \in 1..MaxBoots
  /\ recovery \in [listed : BOOLEAN, todo : SUBSET Tasks]
  /\ intake \in [Tasks -> IntakePoints]
  /\ run \in [Tasks -> Runs \cup {None}]
  /\ expiry \in Passes \cup {None}
  /\ callers \subseteq Tasks \X CallerKinds
  /\ live \in [Tasks -> Nat]
  /\ early \subseteq Tasks

Exists(t)  == tasks[t] # None
Waiting(t) == Exists(t) /\ tasks[t].status = "waiting_approval"
Running(t) == Exists(t) /\ tasks[t].status = "running"
Pending(a) == approvals[a] # None /\ approvals[a].status = "pending"

\* The stored task with some fields replaced.
Patch(t, status, stage) ==
  [tasks[t] EXCEPT !.status = status, !.stage = stage]

\* updateTask: the whole transaction, or nothing when the patch is refused.
Accepts(t, new) == AllowedStep(t, tasks[t], new, approvals)
Write(t, new)   == tasks' = [tasks EXCEPT ![t] = new]

WriteOrThrow(t, new) ==
  IF Accepts(t, new) THEN Write(t, new) ELSE UNCHANGED tasks

Init ==
  /\ tasks = [t \in Tasks |-> None]
  /\ approvals = [t \in Tasks |-> None]
  /\ lapsed = {}
  /\ paperclip = [t \in Tasks |-> "absent"]
  /\ boot = 1
  /\ recovery = [listed |-> FALSE, todo |-> {}]
  /\ intake = [t \in Tasks |-> "none"]
  /\ run = [t \in Tasks |-> None]
  /\ expiry = None
  /\ callers = {}
  /\ live = [t \in Tasks |-> 0]
  /\ early = {}

-----------------------------------------------------------------------------
(* Intake: TaskIntake.createOnce, one step per store transaction. *)

\* createTask.  A task without an active assignee starts in needs_input.
CreateTask(t, status) ==
  /\ ~Exists(t)
  /\ intake[t] = "none"
  /\ status \in {"queued", "needs_input"}
  /\ Write(t, [status |-> status, stage |-> "queued_for_execution",
               attempt |-> 1, approvalRefs |-> {}, started |-> 0,
               linked |-> FALSE])
  /\ intake' = [intake EXCEPT ![t] = "guard"]
  /\ UNCHANGED <<approvals, lapsed, paperclip, boot, recovery, run, expiry,
                 callers, live, early>>

\* deliveryBriefGuardPatch: an unclear brief ends the creation with a
\* question to the owner.
AskForBrief(t) ==
  /\ intake[t] = "guard"
  /\ WriteOrThrow(t, Patch(t, "needs_input", "brief_clarification"))
  /\ intake' = [intake EXCEPT ![t] = "done"]
  /\ UNCHANGED <<approvals, lapsed, paperclip, boot, recovery, run, expiry,
                 callers, live, early>>

AcceptBrief(t) ==
  /\ intake[t] = "guard"
  /\ intake' = [intake EXCEPT ![t] = "approve"]
  /\ UNCHANGED <<tasks, approvals, lapsed, paperclip, boot, recovery, run,
                 expiry, callers, live, early>>

\* holdTaskForApproval: the task with the new approval among its references,
\* moved to waiting_approval.
Held(t) ==
  [tasks[t] EXCEPT !.status = "waiting_approval",
                   !.stage = "approval_required",
                   !.approvalRefs = @ \cup {t}]

NewApproval(t) ==
  [task |-> t, status |-> "pending", external |-> NoExternal]

\* createRequiredApproval: the approval is inserted and the task is held in
\* one transaction; when the task cannot be held, neither happens and the
\* creation fails.
RequireApproval(t) ==
  /\ intake[t] = "approve"
  /\ LET known == [approvals EXCEPT ![t] = NewApproval(t)] IN
     \/ /\ Risk[t] = "none"
        /\ intake' = [intake EXCEPT ![t] = "project"]
        /\ UNCHANGED <<tasks, approvals>>
     \/ /\ Risk[t] # "none"
        /\ AllowedStep(t, tasks[t], Held(t), known)
        /\ approvals' = known
        /\ Write(t, Held(t))
        /\ intake' = [intake EXCEPT ![t] = "project"]
     \/ /\ Risk[t] # "none"
        /\ ~AllowedStep(t, tasks[t], Held(t), known)
        /\ intake' = [intake EXCEPT ![t] = "done"]
        /\ UNCHANGED <<tasks, approvals>>
  /\ UNCHANGED <<lapsed, paperclip, boot, recovery, run, expiry, callers,
                 live, early>>

\* projectGovernance, the call: the approval is registered in Paperclip, or
\* Paperclip is not reached.
ProjectGovernance(t, reached) ==
  /\ intake[t] = "project"
  /\ reached => Risk[t] = "paperclip" /\ approvals[t] # None
  /\ paperclip' = IF reached THEN [paperclip EXCEPT ![t] = "pending"]
                             ELSE paperclip
  /\ intake' = [intake EXCEPT ![t] = "link"]
  /\ UNCHANGED <<tasks, approvals, lapsed, boot, recovery, run, expiry,
                 callers, live, early>>

\* projectGovernance, the answer, which may be lost (the task is then left
\* unlinked), and the call of execute.  A task that waits for its approval is
\* not executed; for a local approval the handler looks at the task as it was
\* when it was held, for a Paperclip one at the task it has just updated.
LinkTask(t, answered) ==
  /\ intake[t] = "link"
  /\ answered => paperclip[t] # "absent"
  /\ Write(t, [tasks[t] EXCEPT !.linked = @ \/ answered])
  /\ LET waits == IF Risk[t] = "paperclip"
                  THEN tasks[t].status = "waiting_approval"
                  ELSE approvals[t] # None
     IN callers' = IF waits THEN callers ELSE callers \cup {<<t, "intake">>}
  /\ intake' = [intake EXCEPT ![t] = "done"]
  /\ UNCHANGED <<approvals, lapsed, paperclip, boot, recovery, run, expiry,
                 live, early>>

\* provideTaskInput: the owner's answer sends the task back to the queue and
\* executes it.  The handler does not look at the status of the task: the
\* store refuses the patch where the lifecycle does.
ProvideInput(t) ==
  /\ Exists(t)
  /\ t \in EarlyInput \/ intake[t] = "done"
  /\ <<t, "input">> \notin callers
  /\ Accepts(t, Patch(t, "queued", "owner_input"))
  /\ Write(t, Patch(t, "queued", "owner_input"))
  /\ callers' = callers \cup {<<t, "input">>}
  /\ early' = IF intake[t] = "done" THEN early ELSE early \cup {t}
  /\ UNCHANGED <<approvals, lapsed, paperclip, boot, recovery, intake, run,
                 expiry, live>>

-----------------------------------------------------------------------------
(* Execution: TaskExecutionCoordinator.execute *)

\* Mutant of Claim: the status is not looked at.
ClaimAnyStatus(c) ==
  LET t == c[1]
      new == [tasks[t] EXCEPT !.status = "running", !.stage = "starting",
                              !.started = boot] IN
  /\ c \in callers
  /\ callers' = callers \ {c}
  /\ IF Accepts(t, new)
     THEN Write(t, new) /\ live' = [live EXCEPT ![t] = @ + 1]
     ELSE UNCHANGED <<tasks, live>>
  /\ UNCHANGED <<approvals, lapsed, paperclip, boot, recovery, intake, run,
                 expiry, early>>

\* claimTaskExecution: only a queued task is claimed, in one transaction.
Claim(c) ==
  LET t == c[1] IN
  /\ c \in callers
  /\ callers' = callers \ {c}
  /\ LET new == [tasks[t] EXCEPT !.status = "running", !.stage = "starting",
                                 !.started = boot] IN
     \/ /\ tasks[t].status = "queued" /\ Accepts(t, new)
        /\ Write(t, new)
        /\ live' = [live EXCEPT ![t] = @ + 1]
     \/ /\ tasks[t].status # "queued"
        /\ UNCHANGED <<tasks, live>>
  /\ UNCHANGED <<approvals, lapsed, paperclip, boot, recovery, intake, run,
                 expiry, early>>

\* There is no executor for the assignee.  The call returns the task as it
\* was given; resumeApprovedTask then records a failure over whatever the
\* store holds by now, the other callers do nothing.
NoExecutor(c) ==
  LET t == c[1] IN
  /\ c \in callers
  /\ callers' = callers \ {c}
  /\ IF c[2] = "local_resume"
     THEN WriteOrThrow(t, Patch(t, "failed", "settled"))
     ELSE UNCHANGED tasks
  /\ UNCHANGED <<approvals, lapsed, paperclip, boot, recovery, intake, run,
                 expiry, live, early>>

\* Mutant of Finish: an executor that has returned returns again.
FinishAgain(t, status) ==
  /\ Running(t)
  /\ status \in {"succeeded", "failed", "needs_input", "waiting_test"}
  /\ live' = [live EXCEPT ![t] = @ - 1]
  /\ WriteOrThrow(t, Patch(t, status, "settled"))
  /\ UNCHANGED <<approvals, lapsed, paperclip, boot, recovery, intake, run,
                 expiry, callers, early>>

\* The executor returns.  A result the store refuses is recorded as a
\* failure, if the store accepts that.
Finish(t, status) ==
  /\ live[t] > 0
  /\ status \in {"succeeded", "failed", "needs_input", "waiting_test"}
  /\ live' = [live EXCEPT ![t] = @ - 1]
  /\ LET result  == Patch(t, status, "settled")
         failure == Patch(t, "failed", "settled") IN
     IF Accepts(t, result) THEN Write(t, result) ELSE WriteOrThrow(t, failure)
  /\ UNCHANGED <<approvals, lapsed, paperclip, boot, recovery, intake, run,
                 expiry, callers, early>>

-----------------------------------------------------------------------------
(* Decisions.  runApprovalResolution lets one decision per approval be in  *)
(* flight: a repeated call joins it, an opposite one is refused.           *)

StartRun(a, decision, pc) ==
  run' = [run EXCEPT ![a] = [decision |-> decision, pc |-> pc]]
Advance(a, pc) == run' = [run EXCEPT ![a].pc = pc]
EndRun(a)      == run' = [run EXCEPT ![a] = None]

\* approveLocal and rejectLocal: the approval is read as pending ...
DecideLocally(a, decision) ==
  /\ run[a] = None
  /\ Pending(a)
  /\ Risk[a] = "local"
  /\ StartRun(a, decision, "decide")
  /\ UNCHANGED <<tasks, approvals, lapsed, paperclip, boot, recovery, intake,
                 expiry, callers, live, early>>

\* Mutant of RecordDecision: the task is not moved afterwards.
RecordOnly(a) ==
  /\ run[a] # None /\ run[a].pc = "decide"
  /\ ApprovalStepAllowed(approvals[a].status, Decided(run[a].decision))
  /\ approvals' = [approvals EXCEPT ![a].status = Decided(run[a].decision)]
  /\ EndRun(a)
  /\ UNCHANGED <<tasks, lapsed, paperclip, boot, recovery, intake, expiry,
                 callers, live, early>>

\* ... then the decision is written, unless another one came first ...
RecordDecision(a) ==
  /\ run[a] # None /\ run[a].pc = "decide"
  /\ LET decided == Decided(run[a].decision) IN
     \/ /\ ApprovalStepAllowed(approvals[a].status, decided)
        /\ approvals' = [approvals EXCEPT ![a].status = decided]
        /\ Advance(a, "move")
     \/ /\ ~ApprovalStepAllowed(approvals[a].status, decided)
        /\ EndRun(a)
        /\ UNCHANGED approvals
  /\ UNCHANGED <<tasks, lapsed, paperclip, boot, recovery, intake, expiry,
                 callers, live, early>>

\* What a decision does to the task, and who executes it afterwards.
Outcome(a, decision, approvedStage) ==
  IF decision = "approve" THEN Patch(a, "queued", approvedStage)
                          ELSE Patch(a, "cancelled", "settled")

CallAfter(a, decision, kind) ==
  IF decision = "approve" THEN callers \cup {<<a, kind>>} ELSE callers

\* ... and then, in a transaction of its own, the task is moved.
MoveTask(a) ==
  /\ run[a] # None /\ run[a].pc = "move"
  /\ LET decision == run[a].decision
         new == Outcome(a, decision, "approval_approved") IN
     \/ /\ Accepts(a, new) /\ Write(a, new)
        /\ callers' = CallAfter(a, decision, "local_resume")
     \/ ~Accepts(a, new) /\ UNCHANGED <<tasks, callers>>
  /\ EndRun(a)
  /\ UNCHANGED <<approvals, lapsed, paperclip, boot, recovery, intake, expiry,
                 live, early>>

\* PaperclipApprovalResolution.resolve on a pending approval: the intent is
\* stored before Paperclip is asked, and an opposite stored intent is kept.
ResolveInPaperclip(a, decision) ==
  /\ run[a] = None
  /\ Pending(a)
  /\ Risk[a] = "paperclip"
  /\ tasks[a].linked
  /\ LET external == approvals[a].external IN
     /\ external.decision \in {"none", decision}
     /\ approvals' = [approvals EXCEPT
                        ![a].external = [external EXCEPT !.decision = decision]]
     /\ StartRun(a, decision, IF external.confirmed THEN "commit" ELSE "ask")
  /\ UNCHANGED <<tasks, lapsed, paperclip, boot, recovery, intake, expiry,
                 callers, live, early>>

\* Mutant of ReconcileDecision: an intent Paperclip has not confirmed is not
\* taken up.
ReconcileConfirmed(a) ==
  /\ Pending(a)
  /\ approvals[a].external.confirmed
  /\ ResolveInPaperclip(a, approvals[a].external.decision)

\* reconcilePendingPaperclipApprovals: a stored intent is taken up again.
ReconcileDecision(a) ==
  /\ Pending(a)
  /\ approvals[a].external.decision # "none"
  /\ ResolveInPaperclip(a, approvals[a].external.decision)

\* Mutant of AskPaperclip: the decision asked for is taken for the answer.
AskAndTrust(a) ==
  /\ run[a] # None /\ run[a].pc = "ask"
  /\ paperclip' = [paperclip EXCEPT
                     ![a] = IF @ = "pending" THEN run[a].decision ELSE @]
  /\ Advance(a, "confirm")
  /\ UNCHANGED <<tasks, approvals, lapsed, boot, recovery, intake, expiry,
                 callers, live, early>>

\* confirmPaperclipDecision: the decision Paperclip already holds wins,
\* otherwise Paperclip takes this one ...
AskPaperclip(a) ==
  /\ run[a] # None /\ run[a].pc = "ask"
  /\ paperclip' = [paperclip EXCEPT
                     ![a] = IF @ = "pending" THEN run[a].decision ELSE @]
  /\ StartRun(a, paperclip'[a], "confirm")
  /\ UNCHANGED <<tasks, approvals, lapsed, boot, recovery, intake, expiry,
                 callers, live, early>>

\* ... or the call fails, before or after Paperclip took it.
AskFails(a, applied) ==
  /\ run[a] # None /\ run[a].pc = "ask"
  /\ paperclip' = IF applied /\ paperclip[a] = "pending"
                  THEN [paperclip EXCEPT ![a] = run[a].decision]
                  ELSE paperclip
  /\ EndRun(a)
  /\ UNCHANGED <<tasks, approvals, lapsed, boot, recovery, intake, expiry,
                 callers, live, early>>

ConfirmDecision(a) ==
  /\ run[a] # None /\ run[a].pc = "confirm"
  /\ approvals' = [approvals EXCEPT
                     ![a].external = [decision  |-> run[a].decision,
                                      confirmed |-> TRUE]]
  /\ Advance(a, "commit")
  /\ UNCHANGED <<tasks, lapsed, paperclip, boot, recovery, intake, expiry,
                 callers, live, early>>

\* Mutant of CommitDecision: the task is left to a later step.
CommitApprovalOnly(a) ==
  /\ run[a] # None /\ run[a].pc = "commit"
  /\ ApprovalStepAllowed(approvals[a].status, Decided(run[a].decision))
  /\ approvals' = [approvals EXCEPT ![a].status = Decided(run[a].decision)]
  /\ Advance(a, "move")
  /\ UNCHANGED <<tasks, lapsed, paperclip, boot, recovery, intake, expiry,
                 callers, live, early>>

\* resolveApprovalAndUpdateTask: the approval and the task change together
\* or not at all.
CommitDecision(a) ==
  /\ run[a] # None /\ run[a].pc = "commit"
  /\ LET decision == run[a].decision
         known == [approvals EXCEPT ![a].status = Decided(decision)]
         new == Outcome(a, decision, "governance_approved")
         accepted ==
           /\ ApprovalStepAllowed(approvals[a].status, Decided(decision))
           /\ AllowedStep(a, tasks[a], new, known) IN
     \/ /\ accepted
        /\ approvals' = known
        /\ Write(a, new)
        /\ callers' = CallAfter(a, decision, "paperclip_resume")
     \/ ~accepted /\ UNCHANGED <<approvals, tasks, callers>>
  /\ EndRun(a)
  /\ UNCHANGED <<lapsed, paperclip, boot, recovery, intake, expiry, live, early>>

\* resumeCommitted: a repeated callback on a decided approval finishes what
\* the first one did not.  The opposite decision is refused.
RepeatDecision(a, decision) ==
  /\ run[a] = None
  /\ Exists(a) /\ approvals[a] # None /\ Risk[a] = "paperclip"
  /\ approvals[a].status = Decided(decision)
  /\ LET new == Outcome(a, decision, "governance_approved")
         waits == {"waiting_approval", "queued"} IN
     \/ /\ decision = "reject" /\ tasks[a].status # "cancelled"
        /\ WriteOrThrow(a, new)
        /\ UNCHANGED callers
     \/ /\ decision = "approve" /\ tasks[a].status \in waits
        /\ IF tasks[a].status = "queued"
           THEN UNCHANGED tasks
           ELSE Accepts(a, new) /\ Write(a, new)
        /\ callers' = CallAfter(a, decision, "paperclip_resume")
  /\ UNCHANGED <<approvals, lapsed, paperclip, boot, recovery, intake, run,
                 expiry, live, early>>

-----------------------------------------------------------------------------
(* Expiry: TaskApprovalLifecycle.expire, one approval at a time in a pass. *)

\* The pass finds a pending approval past its validUntil.
ExpireStart(a) ==
  /\ expiry = None
  /\ Pending(a)
  /\ a \in lapsed
  /\ expiry' = [approval |-> a, pc |-> "write"]
  /\ UNCHANGED <<tasks, approvals, lapsed, paperclip, boot, recovery, intake,
                 run, callers, live, early>>

\* The approval expires, unless it was decided since it was read: the store
\* then throws and the pass is over.
ExpireWrite ==
  /\ expiry # None /\ expiry.pc = "write"
  /\ LET a == expiry.approval IN
     \/ /\ ApprovalStepAllowed(approvals[a].status, "expired")
        /\ approvals' = [approvals EXCEPT ![a].status = "expired"]
        /\ expiry' = [expiry EXCEPT !.pc = "look"]
     \/ /\ ~ApprovalStepAllowed(approvals[a].status, "expired")
        /\ expiry' = None
        /\ UNCHANGED approvals
  /\ UNCHANGED <<tasks, lapsed, paperclip, boot, recovery, intake, run,
                 callers, live, early>>

\* Only a task read as waiting is to be closed.
ExpireLook ==
  /\ expiry # None /\ expiry.pc = "look"
  /\ expiry' = IF tasks[expiry.approval].status = "waiting_approval"
               THEN [expiry EXCEPT !.pc = "close"] ELSE None
  /\ UNCHANGED <<tasks, approvals, lapsed, paperclip, boot, recovery, intake,
                 run, callers, live, early>>

ExpireClose ==
  /\ expiry # None /\ expiry.pc = "close"
  /\ LET a == expiry.approval IN
     WriteOrThrow(a, Patch(a, "cancelled", "settled"))
  /\ expiry' = None
  /\ UNCHANGED <<approvals, lapsed, paperclip, boot, recovery, intake, run,
                 callers, live, early>>

-----------------------------------------------------------------------------
(* Restart *)

\* The process dies at any moment and is started again.
Crash ==
  /\ boot < MaxBoots
  /\ boot' = boot + 1
  /\ recovery' = [listed |-> FALSE, todo |-> {}]
  /\ intake' = [t \in Tasks |-> IF intake[t] = "none" THEN "none" ELSE "done"]
  /\ run' = [t \in Tasks |-> None]
  /\ expiry' = None
  /\ callers' = {}
  /\ live' = [t \in Tasks |-> 0]
  /\ UNCHANGED <<store, early>>

\* Mutant of Interrupted: off by one boot.
InterruptedLongAgo(t) ==
  /\ Running(t)
  /\ tasks[t].stage = "starting"
  /\ tasks[t].started + 1 < boot

Interrupted(t) ==
  /\ Running(t)
  /\ tasks[t].stage = "starting"
  /\ tasks[t].started < boot

\* InterruptedLocalExecutionReconciler.reconcileOnce lists the executions
\* that were started before this boot ...
RecoveryList ==
  /\ ~recovery.listed
  /\ recovery' = [listed |-> TRUE, todo |-> {t \in Tasks : Interrupted(t)}]
  /\ UNCHANGED <<tasks, approvals, lapsed, paperclip, boot, intake, run,
                 expiry, callers, live, early>>

\* ... and settles each of them, if it still is as it was listed
\* (recoverInterruptedTaskExecution).
RecoverTask(t) ==
  /\ t \in recovery.todo
  /\ recovery' = [recovery EXCEPT !.todo = @ \ {t}]
  /\ LET new == Patch(t, "waiting_test", "local_execution_interrupted") IN
     IF Interrupted(t) THEN WriteOrThrow(t, new) ELSE UNCHANGED tasks
  /\ UNCHANGED <<approvals, lapsed, paperclip, boot, intake, run, expiry,
                 callers, live, early>>

-----------------------------------------------------------------------------
(* Environment *)

\* Time passes the validUntil of an approval.
Lapse(a) ==
  /\ approvals[a] # None
  /\ a \notin lapsed
  /\ lapsed' = lapsed \cup {a}
  /\ UNCHANGED <<tasks, approvals, paperclip, boot, recovery, intake, run,
                 expiry, callers, live, early>>

\* A board member decides in Paperclip itself.
PaperclipDecides(a, decision) ==
  /\ paperclip[a] = "pending"
  /\ paperclip' = [paperclip EXCEPT ![a] = decision]
  /\ UNCHANGED <<tasks, approvals, lapsed, boot, recovery, intake, run,
                 expiry, callers, live, early>>

-----------------------------------------------------------------------------
IntakeNext(t) ==
  \/ \E status \in {"queued", "needs_input"} : CreateTask(t, status)
  \/ AskForBrief(t)
  \/ AcceptBrief(t)
  \/ RequireApproval(t)
  \/ \E reached \in BOOLEAN : ProjectGovernance(t, reached)
  \/ \E answered \in BOOLEAN : LinkTask(t, answered)
  \/ ProvideInput(t)

RunNext(a) ==
  \/ \E d \in Decisions : DecideLocally(a, d)
  \/ RecordDecision(a)
  \/ MoveTask(a)
  \/ \E d \in Decisions : ResolveInPaperclip(a, d)
  \/ AskPaperclip(a)
  \/ \E applied \in BOOLEAN : AskFails(a, applied)
  \/ ConfirmDecision(a)
  \/ CommitDecision(a)
  \/ \E d \in Decisions : RepeatDecision(a, d)

ExecutionNext ==
  \/ \E c \in callers : Claim(c) \/ NoExecutor(c)
  \/ \E t \in Tasks, status \in TaskStatuses : Finish(t, status)

ExpiryNext ==
  \/ \E a \in Tasks : ExpireStart(a)
  \/ ExpireWrite
  \/ ExpireLook
  \/ ExpireClose

RecoveryNext ==
  \/ RecoveryList
  \/ \E t \in Tasks : RecoverTask(t)

EnvironmentNext ==
  \/ \E a \in Tasks : Lapse(a)
  \/ \E a \in Tasks, d \in Decisions : PaperclipDecides(a, d)
  \/ Crash

Next ==
  \/ \E t \in Tasks : IntakeNext(t)
  \/ \E a \in Tasks : RunNext(a)
  \/ ExecutionNext
  \/ ExpiryNext
  \/ RecoveryNext
  \/ EnvironmentNext

Spec == Init /\ [][Next]_vars

(***************************************************************************)
(* Fairness.  A started handler goes on: its next step is a promise that   *)
(* is always settled.  The expiry pass runs every minute, the stored       *)
(* Paperclip intents are taken up again before it, the recovery runs at    *)
(* every boot, and a Paperclip that is asked again and again answers.  The *)
(* owner, the board, the clock and crashes owe nothing.                    *)
(***************************************************************************)
Fairness ==
  /\ \A t \in Tasks :
       /\ WF_vars(AskForBrief(t) \/ AcceptBrief(t))
       /\ WF_vars(RequireApproval(t))
       /\ WF_vars(\E reached \in BOOLEAN : ProjectGovernance(t, reached))
       /\ WF_vars(\E answered \in BOOLEAN : LinkTask(t, answered))
       /\ WF_vars(RecordDecision(t))
       /\ WF_vars(MoveTask(t))
       /\ SF_vars(AskPaperclip(t))
       /\ WF_vars(ConfirmDecision(t))
       /\ WF_vars(CommitDecision(t))
       /\ WF_vars(ReconcileDecision(t))
       /\ WF_vars(ExpireStart(t))
       /\ WF_vars(RecoverTask(t))
       /\ WF_vars(\E s \in TaskStatuses : Finish(t, s))
       /\ \A k \in CallerKinds : WF_vars(Claim(<<t, k>>) \/ NoExecutor(<<t, k>>))
  /\ WF_vars(ExpireWrite)
  /\ WF_vars(ExpireLook)
  /\ WF_vars(ExpireClose)
  /\ WF_vars(RecoveryList)

FairSpec == Spec /\ Fairness

-----------------------------------------------------------------------------
(* Safety *)

\* A task whose approval is undecided, rejected or expired is not being
\* executed, whatever callbacks, answers, expiry passes and restarts came in
\* between: execution starts only on the far side of the decision.  The one way
\* around it is an answer of the owner while the task is being created, and it
\* concerns no other task.
GateHeld ==
  \A t \in Tasks \ early :
    live[t] > 0 /\ approvals[t] # None => approvals[t].status = "approved"

\* A task is executed by one executor at a time.  The intake, the owner's
\* answer, a decision and its repeated callback may all call executeTask for
\* it, and the recovery may be running: claimTaskExecution settles the race,
\* unless the task was put on hold behind an executor's back, see GateHeld.
OneExecutor == \A t \in Tasks \ early : live[t] <= 1

\* What is decided here about an organisation-level approval is what
\* Paperclip decided, whichever button was pressed and whatever was lost.
PaperclipAuthority ==
  \A a \in Tasks :
    (approvals[a] # None /\ Risk[a] = "paperclip")
      => \A d \in Decisions :
           approvals[a].status = Decided(d) => paperclip[a] = d

\* A decision taken through Paperclip has moved the task the moment it is
\* stored: a crash cannot leave the task waiting for a decision that is
\* already there.
PaperclipAtomic ==
  \A a \in Tasks :
    (approvals[a] # None /\ Risk[a] = "paperclip")
      => /\ approvals[a].status = "approved" => ~Waiting(a)
         /\ approvals[a].status = "rejected" => tasks[a].status = "cancelled"

\* A task on hold goes on only by the approval of its own request, and ends
\* only by its rejection or its expiry.
LeavesByDecision ==
  \A t \in Tasks :
    Waiting(t) /\ tasks'[t].status # "waiting_approval"
      => /\ approvals'[t] # None
         /\ approvals'[t].status
              \in IF tasks'[t].status \in {"queued", "running"}
                  THEN {"approved"} ELSE {"rejected", "expired"}

\* assertTaskApprovalDecision, whoever writes: no stale expiry pass, repeated
\* callback, late executor or recovery takes a task off hold in another way
\* than the decision stored by then says, also one answered while created.
HoldEndsByDecision == [][LeavesByDecision]_vars

\* A locally decided approval whose task still waits is a decision in
\* flight, or one a crash has cut off: no interleaving alone loses it.
LocalDecisionInFlight ==
  \A a \in Tasks :
    (approvals[a] # None /\ ~Pending(a) /\ Waiting(a))
      => \/ run[a] # None /\ run[a].pc = "move"
         \/ expiry # None /\ expiry.approval = a
         \/ boot > 1

-----------------------------------------------------------------------------
(* What the documents say and the code does not keep *)

\* A task whose description asks for a high-risk action is executed only once
\* a human has approved it.  The approval is created after the brief guard
\* and in a transaction of its own, and the owner's answer executes whatever
\* it finds in needs_input.
RiskNeedsApproval ==
  \A t \in Tasks :
    live[t] > 0 /\ Risk[t] # "none"
      => approvals[t] # None /\ approvals[t].status = "approved"

-----------------------------------------------------------------------------
(* Liveness *)

\* A decided approval reaches its task, which does not wait for ever, unless
\* the process was restarted: the steps that coordinator and expiry pass have
\* left to do are done.
DecisionTakesEffect ==
  \A a \in Tasks :
    (approvals[a] # None /\ ~Pending(a)) ~> (~Waiting(a) \/ boot > 1)

\* An approved task leaves waiting_approval.  A crash between the write of
\* the approval and the write of the task breaks it: no pass looks at a
\* decided approval again.
ApprovalResumes ==
  \A a \in Tasks :
    (approvals[a] # None /\ approvals[a].status = "approved") ~> ~Waiting(a)

\* A decision whose intent is stored is settled, through failing calls and
\* restarts.
IntentSettles ==
  \A a \in Tasks :
    (Pending(a) /\ approvals[a].external.decision # "none") ~> ~Pending(a)

\* A task does not stay in execution without an executor: the executor
\* returns or, after a crash, the recovery of the next boot settles it.
ExecutionSettles ==
  \A t \in Tasks :
    Running(t) ~> ~Running(t)
=============================================================================
