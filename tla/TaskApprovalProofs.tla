------------------------- MODULE TaskApprovalProofs -------------------------
(***************************************************************************)
(* Proofs about TaskApproval, for every set of tasks, every assignment of  *)
(* risks and every number of restarts, and about the validation of a task  *)
(* patch (TaskLifecycle) that they rest on.                                *)
(*                                                                         *)
(* TypeOK is not inductive: a handler writes the record of a task because  *)
(* an earlier step of it has found the record.  Known adds what each       *)
(* handler knows to exist.  OneExecutor and GateHeld need, besides, what a *)
(* task's status says while it is executed and while its approval is not   *)
(* granted (Executed, Gate), and that nothing runs a task before its       *)
(* approval is created (Creating).  What is said of Paperclip follows from *)
(* what a run that has asked it carries (Governed), and that no decision   *)
(* is lost from who is to move the task of a decided approval (Deciding).  *)
(***************************************************************************)
EXTENDS TaskApproval, TLAPS

-----------------------------------------------------------------------------
(* What the validation of a task patch guarantees, whatever is in the store *)

\* validateTaskStatusPatch: a task in a terminal status that keeps its attempt
\* stays terminal.  Only a retry with the next attempt leaves it.
THEOREM TerminalIsFinal ==
  ASSUME NEW id, NEW old, NEW new, NEW known,
         old.attempt \in Nat,
         new.attempt = old.attempt,
         old.status \in TerminalStatuses,
         AllowedStep(id, old, new, known)
  PROVE  new.status \in TerminalStatuses
<1>1. ~RetryAllowed(old, new)
  BY DEF RetryAllowed
<1>2. TransitionAllowed(old.status, new.status)
  BY <1>1 DEF AllowedStep
<1>. QED
  BY <1>2 DEF TransitionAllowed, TerminalStatuses

\* TRANSITIONS: a task that is running, or has ended, is not queued again as
\* the same attempt.
THEOREM NotRequeued ==
  ASSUME NEW id, NEW old, NEW new, NEW known,
         old.attempt \in Nat,
         new.attempt = old.attempt,
         old.status \in {"running"} \cup TerminalStatuses,
         AllowedStep(id, old, new, known)
  PROVE  new.status # "queued"
<1>1. CASE old.status \in TerminalStatuses
  BY <1>1, TerminalIsFinal DEF TerminalStatuses
<1>2. CASE old.status = "running"
  <2>1. ~RetryAllowed(old, new)
    BY DEF RetryAllowed
  <2>2. TransitionAllowed(old.status, new.status)
    BY <2>1 DEF AllowedStep
  <2>3. "queued" \notin Transitions["running"]
    BY DEF Transitions
  <2>. QED
    BY <1>2, <2>2, <2>3 DEF TransitionAllowed
<1>. QED
  BY <1>1, <1>2

\* assertTaskApprovalDecision: a task that waits for an approval goes on only
\* when one of the approvals it refers to was decided in its favour.
THEOREM ReleaseNeedsDecision ==
  ASSUME NEW id, NEW old, NEW new, NEW known,
         old.status = "waiting_approval",
         new.status \in {"queued", "running"},
         AllowedStep(id, old, new, known)
  PROVE  \E a \in new.approvalRefs :
           known[a].task = id /\ known[a].status \in ContinueStatuses
  BY DEF AllowedStep, ApprovalAllows, HasDecision

-----------------------------------------------------------------------------
(* What each handler knows to exist                                         *)

\* What a handler in flight is about exists in the store.
Known ==
  /\ \A t \in Tasks : intake[t] # "none" => Exists(t)
  /\ \A t \in Tasks : approvals[t] # None => Exists(t)
  /\ \A t \in Tasks : run[t] # None => approvals[t] # None
  /\ expiry # None => approvals[expiry.approval] # None
  /\ \A c \in callers : Exists(c[1])
  /\ \A t \in Tasks : live[t] > 0 => Exists(t)

TypeInv == TypeOK /\ Known

\* A task linked to Paperclip, and a decision being taken there, have an
\* approval in Paperclip.
Linked ==
  \A t \in Tasks :
    (Exists(t) /\ tasks[t].linked) \/ (run[t] # None /\ run[t].pc = "ask")
      => paperclip[t] # "absent"

LEMMA InitTypeInv == Init => TypeInv /\ Linked
BY NoneAssumption, MaxBootsAssumption
DEF Init, TypeInv, TypeOK, Known, Linked, Exists, IntakePoints, PaperclipState

-----------------------------------------------------------------------------
\* A patch of an existing task is a task record.
LEMMA PatchType ==
  ASSUME TypeOK, NEW t \in Tasks, Exists(t),
         NEW status \in TaskStatuses, NEW stage \in Stages
  PROVE  /\ Patch(t, status, stage) \in TaskRecords
         /\ Patch(t, status, stage) # None
<1>1. tasks[t] \in TaskRecords
  BY DEF TypeOK, Exists
<1>2. Patch(t, status, stage) \in TaskRecords
  BY <1>1 DEF Patch, TaskRecords
<1>. QED
  BY <1>2, NoneAssumption

\* Writing a task record keeps the store well formed and forgets no task.
LEMMA WriteType ==
  ASSUME TypeOK, NEW t \in Tasks, NEW new \in TaskRecords, Write(t, new)
  PROVE  /\ tasks' \in [Tasks -> TaskRecords \cup {None}]
         /\ tasks'[t] # None
         /\ \A u \in Tasks : Exists(u) => Exists(u)'
BY NoneAssumption DEF Write, TypeOK, Exists

LEMMA WriteOrThrowType ==
  ASSUME TypeOK, NEW t \in Tasks, NEW new \in TaskRecords, WriteOrThrow(t, new)
  PROVE  /\ tasks' \in [Tasks -> TaskRecords \cup {None}]
         /\ \A u \in Tasks : Exists(u) => Exists(u)'
BY WriteType DEF WriteOrThrow, TypeOK, Exists

LEMMA IntakeTypeInv ==
  ASSUME TypeInv, NEW t \in Tasks, IntakeNext(t)
  PROVE  TypeInv'
<1>. USE DEF TypeInv
<1>1. CASE \E status \in {"queued", "needs_input"} : CreateTask(t, status)
  <2>1. PICK status \in {"queued", "needs_input"} : CreateTask(t, status)
    BY <1>1
  <2>2. [status |-> status, stage |-> "queued_for_execution",
         attempt |-> 1, approvalRefs |-> {}, started |-> 0,
         linked |-> FALSE] \in TaskRecords
    BY DEF TaskRecords, TaskStatuses, Stages
  <2>3. /\ tasks' \in [Tasks -> TaskRecords \cup {None}]
        /\ tasks'[t] # None
        /\ \A u \in Tasks : Exists(u) => Exists(u)'
    BY <2>1, <2>2, WriteType DEF CreateTask
  <2>4. intake' = [intake EXCEPT ![t] = "guard"]
    BY <2>1 DEF CreateTask
  <2>. QED
    BY <2>1, <2>3, <2>4 DEF CreateTask, TypeOK, Known, Exists, IntakePoints
<1>2. CASE AskForBrief(t)
  <2>1. Patch(t, "needs_input", "brief_clarification") \in TaskRecords
    BY <1>2, PatchType DEF AskForBrief, Known, TaskStatuses, Stages
  <2>2. /\ tasks' \in [Tasks -> TaskRecords \cup {None}]
        /\ \A u \in Tasks : Exists(u) => Exists(u)'
    BY <1>2, <2>1, WriteOrThrowType DEF AskForBrief
  <2>. QED
    BY <1>2, <2>2 DEF AskForBrief, TypeOK, Known, Exists, IntakePoints
<1>3. CASE AcceptBrief(t)
  BY <1>3 DEF AcceptBrief, TypeOK, Known, Exists, IntakePoints
<1>4. CASE RequireApproval(t)
  <2>1. Held(t) \in TaskRecords
    <3>1. tasks[t] \in TaskRecords
      BY <1>4 DEF RequireApproval, TypeOK, Known, Exists
    <3>. QED
      BY <3>1 DEF Held, TaskRecords, TaskStatuses, Stages
  <2>2. /\ NewApproval(t) \in ApprovalRecords
        /\ NewApproval(t) # None
    <3>1. NoExternal \in Externals
      BY DEF NoExternal, Externals
    <3>2. NewApproval(t) \in ApprovalRecords
      BY <3>1 DEF NewApproval, ApprovalRecords, ApprovalStatuses
    <3>. QED
      BY <3>2, NoneAssumption
  <2>3. CASE UNCHANGED <<tasks, approvals>>
    BY <1>4, <2>3 DEF RequireApproval, TypeOK, Known, Exists, IntakePoints
  <2>4. CASE /\ approvals' = [approvals EXCEPT ![t] = NewApproval(t)]
             /\ Write(t, Held(t))
             /\ intake' = [intake EXCEPT ![t] = "project"]
    <3>1. /\ tasks' \in [Tasks -> TaskRecords \cup {None}]
          /\ tasks'[t] # None
          /\ \A u \in Tasks : Exists(u) => Exists(u)'
      BY <2>1, <2>4, WriteType
    <3>2. TypeOK'
      BY <1>4, <2>2, <2>4, <3>1 DEF RequireApproval, TypeOK, IntakePoints
    <3>3. /\ approvals'[t] # None
          /\ \A u \in Tasks \ {t} : approvals'[u] = approvals[u]
          /\ \A u \in Tasks \ {t} : intake'[u] = intake[u]
      BY <2>2, <2>4 DEF TypeOK
    <3>4. Known'
      BY <1>4, <3>1, <3>3 DEF RequireApproval, TypeOK, Known, Exists, Passes
    <3>. QED
      BY <3>2, <3>4
  <2>. QED
    BY <1>4, <2>3, <2>4 DEF RequireApproval
<1>5. CASE \E reached \in BOOLEAN : ProjectGovernance(t, reached)
  BY <1>5 DEF ProjectGovernance, TypeOK, Known, Exists, IntakePoints,
              PaperclipState
<1>6. CASE \E answered \in BOOLEAN : LinkTask(t, answered)
  <2>1. PICK answered \in BOOLEAN : LinkTask(t, answered)
    BY <1>6
  <2>2. [tasks[t] EXCEPT !.linked = @ \/ answered] \in TaskRecords
    BY <2>1 DEF LinkTask, TypeOK, Known, Exists, TaskRecords
  <2>3. /\ tasks' \in [Tasks -> TaskRecords \cup {None}]
        /\ tasks'[t] # None
        /\ \A u \in Tasks : Exists(u) => Exists(u)'
    BY <2>1, <2>2, WriteType DEF LinkTask
  <2>4. /\ callers' \subseteq callers \cup {<<t, "intake">>}
        /\ callers' \subseteq Tasks \X CallerKinds
    BY <2>1 DEF LinkTask, TypeOK, CallerKinds
  <2>. QED
    BY <2>1, <2>3, <2>4 DEF LinkTask, TypeOK, Known, Exists, IntakePoints
<1>7. CASE ProvideInput(t)
  <2>1. Patch(t, "queued", "owner_input") \in TaskRecords
    BY <1>7, PatchType DEF ProvideInput, TaskStatuses, Stages
  <2>2. /\ tasks' \in [Tasks -> TaskRecords \cup {None}]
        /\ tasks'[t] # None
        /\ \A u \in Tasks : Exists(u) => Exists(u)'
    BY <1>7, <2>1, WriteType DEF ProvideInput
  <2>. QED
    BY <1>7, <2>2 DEF ProvideInput, TypeOK, Known, Exists, CallerKinds
<1>. QED
  BY <1>1, <1>2, <1>3, <1>4, <1>5, <1>6, <1>7 DEF IntakeNext
-----------------------------------------------------------------------------
LEMMA ExecutionTypeInv ==
  ASSUME TypeInv, ExecutionNext
  PROVE  TypeInv'
<1>. USE DEF TypeInv
<1>1. ASSUME NEW c \in callers, Claim(c)
      PROVE  TypeInv'
  <2>. DEFINE t == c[1]
  <2>1. t \in Tasks /\ Exists(t)
    BY DEF TypeOK, Known
  <2>2. [tasks[t] EXCEPT !.status = "running", !.stage = "starting",
                         !.started = boot] \in TaskRecords
    <3>1. tasks[t] \in TaskRecords /\ boot \in Nat
      BY <2>1, MaxBootsAssumption DEF TypeOK, Exists
    <3>. QED
      BY <3>1 DEF TaskRecords, TaskStatuses, Stages
  <2>3. CASE UNCHANGED <<tasks, live>>
    BY <1>1, <2>3 DEF Claim, TypeOK, Known, Exists
  <2>4. CASE /\ Write(t, [tasks[t] EXCEPT !.status = "running",
                                          !.stage = "starting",
                                          !.started = boot])
             /\ live' = [live EXCEPT ![t] = @ + 1]
    <3>1. /\ tasks' \in [Tasks -> TaskRecords \cup {None}]
          /\ tasks'[t] # None
          /\ \A u \in Tasks : Exists(u) => Exists(u)'
      BY <2>1, <2>2, <2>4, WriteType
    <3>2. /\ live' \in [Tasks -> Nat]
          /\ \A u \in Tasks : live'[u] > 0 => live[u] > 0 \/ u = t
      BY <2>1, <2>4 DEF TypeOK
    <3>3. TypeOK'
      BY <1>1, <3>1, <3>2 DEF Claim, TypeOK
    <3>4. Known'
      BY <1>1, <2>1, <3>1, <3>2 DEF Claim, TypeOK, Known, Exists
    <3>. QED
      BY <3>3, <3>4
  <2>. QED
    BY <1>1, <2>3, <2>4 DEF Claim
<1>2. ASSUME NEW c \in callers, NoExecutor(c)
      PROVE  TypeInv'
  <2>. DEFINE t == c[1]
  <2>1. t \in Tasks /\ Exists(t)
    BY DEF TypeOK, Known
  <2>2. Patch(t, "failed", "settled") \in TaskRecords
    BY <2>1, PatchType DEF TaskStatuses, Stages
  <2>3. /\ tasks' \in [Tasks -> TaskRecords \cup {None}]
        /\ \A u \in Tasks : Exists(u) => Exists(u)'
    BY <1>2, <2>1, <2>2, WriteOrThrowType DEF NoExecutor, TypeOK, Exists
  <2>. QED
    BY <1>2, <2>3 DEF NoExecutor, TypeOK, Known, Exists
<1>3. ASSUME NEW t \in Tasks, NEW status \in TaskStatuses, Finish(t, status)
      PROVE  TypeInv'
  <2>1. Exists(t)
    BY <1>3 DEF Finish, Known
  <2>2. /\ Patch(t, status, "settled") \in TaskRecords
        /\ Patch(t, "failed", "settled") \in TaskRecords
    BY <2>1, PatchType DEF TaskStatuses, Stages
  <2>3. /\ tasks' \in [Tasks -> TaskRecords \cup {None}]
        /\ \A u \in Tasks : Exists(u) => Exists(u)'
    BY <1>3, <2>2, WriteType, WriteOrThrowType DEF Finish
  <2>4. /\ live' \in [Tasks -> Nat]
        /\ \A u \in Tasks : live'[u] > 0 => live[u] > 0
    BY <1>3 DEF Finish, TypeOK
  <2>. QED
    BY <1>3, <2>3, <2>4 DEF Finish, TypeOK, Known, Exists
<1>. QED
  BY <1>1, <1>2, <1>3 DEF ExecutionNext

-----------------------------------------------------------------------------
\* Changing only the decision of a known approval keeps the approvals well
\* formed and forgets none.
LEMMA DecideType ==
  ASSUME TypeOK, NEW a \in Tasks, approvals[a] # None,
         NEW status \in ApprovalStatuses,
         approvals' = [approvals EXCEPT ![a].status = status]
  PROVE  /\ approvals' \in [Tasks -> ApprovalRecords \cup {None}]
         /\ \A b \in Tasks : approvals'[b] = None <=> approvals[b] = None
<1>1. approvals[a] \in ApprovalRecords
  BY DEF TypeOK
<1>2. [approvals[a] EXCEPT !.status = status] \in ApprovalRecords
  BY <1>1 DEF ApprovalRecords
<1>3. approvals' = [approvals EXCEPT
                      ![a] = [approvals[a] EXCEPT !.status = status]]
  OBVIOUS
<1>. QED
  BY <1>2, <1>3, NoneAssumption DEF TypeOK

\* Changing only the external decision does so too.
LEMMA IntentType ==
  ASSUME TypeOK, NEW a \in Tasks, approvals[a] # None,
         NEW external \in Externals,
         approvals' = [approvals EXCEPT ![a].external = external]
  PROVE  /\ approvals' \in [Tasks -> ApprovalRecords \cup {None}]
         /\ \A b \in Tasks : approvals'[b] = None <=> approvals[b] = None
<1>1. approvals[a] \in ApprovalRecords
  BY DEF TypeOK
<1>2. [approvals[a] EXCEPT !.external = external] \in ApprovalRecords
  BY <1>1 DEF ApprovalRecords
<1>3. approvals' = [approvals EXCEPT
                      ![a] = [approvals[a] EXCEPT !.external = external]]
  OBVIOUS
<1>. QED
  BY <1>2, <1>3, NoneAssumption DEF TypeOK

\* The steps of a decision in flight keep run well formed.
LEMMA RunType ==
  ASSUME TypeOK, NEW a \in Tasks,
         \/ EndRun(a)
         \/ run[a] # None /\ (Advance(a, "move") \/ Advance(a, "commit"))
         \/ \E d \in Decisions, pc \in {"decide", "ask", "confirm", "commit"} :
              StartRun(a, d, pc)
  PROVE  /\ run' \in [Tasks -> Runs \cup {None}]
         /\ \A b \in Tasks : b # a => run'[b] = run[b]
<1>1. CASE EndRun(a)
  BY <1>1 DEF EndRun, TypeOK
<1>2. CASE run[a] # None /\ (Advance(a, "move") \/ Advance(a, "commit"))
  <2>1. run[a] \in Runs
    BY <1>2 DEF TypeOK
  <2>2. /\ [run[a] EXCEPT !.pc = "move"] \in Runs
        /\ [run[a] EXCEPT !.pc = "commit"] \in Runs
    BY <2>1 DEF Runs
  <2>. QED
    BY <1>2, <2>2 DEF Advance, TypeOK
<1>3. CASE \E d \in Decisions, pc \in {"decide", "ask", "confirm", "commit"} :
             StartRun(a, d, pc)
  <2>1. PICK d \in Decisions, pc \in {"decide", "ask", "confirm", "commit"} :
               StartRun(a, d, pc)
    BY <1>3
  <2>2. [decision |-> d, pc |-> pc] \in Runs
    BY DEF Runs
  <2>. QED
    BY <2>1, <2>2 DEF StartRun, TypeOK
<1>. QED
  BY <1>1, <1>2, <1>3

\* The decision of a run in flight is one of the two.
LEMMA RunDecision ==
  ASSUME TypeOK, NEW a \in Tasks, run[a] # None
  PROVE  /\ run[a].decision \in Decisions
         /\ Decided(run[a].decision) \in ApprovalStatuses
BY DEF TypeOK, Runs, Decided, ApprovalStatuses, Decisions

LEMMA OutcomeType ==
  ASSUME TypeOK, NEW a \in Tasks, Exists(a), NEW decision \in Decisions,
         NEW stage \in Stages
  PROVE  Outcome(a, decision, stage) \in TaskRecords
BY PatchType DEF Outcome, TaskStatuses, Stages

\* Nothing that only moves decisions forward forgets a task or an approval.
LEMMA KnownKept ==
  ASSUME Known, NEW a \in Tasks, Exists(a), TypeOK',
         \A u \in Tasks : Exists(u) => Exists(u)',
         \A b \in Tasks : approvals'[b] = None <=> approvals[b] = None,
         \A b \in Tasks : b # a => run'[b] = run[b],
         approvals[a] # None,
         callers' = callers
           \/ \E kind \in CallerKinds : callers' = callers \cup {<<a, kind>>},
         UNCHANGED <<expiry, intake, live>>
  PROVE  Known'
BY DEF Known, Exists, TypeOK, Passes

LEMMA RunTypeInv ==
  ASSUME TypeInv, Linked, NEW a \in Tasks, RunNext(a)
  PROVE  TypeInv'
<1>. USE DEF TypeInv
<1>k. approvals[a] # None => Exists(a)
  BY DEF Known
<1>r. run[a] # None => approvals[a] # None
  BY DEF Known
<1>1. ASSUME NEW d \in Decisions, DecideLocally(a, d)
      PROVE  TypeInv'
  <2>1. /\ run' \in [Tasks -> Runs \cup {None}]
        /\ \A b \in Tasks : b # a => run'[b] = run[b]
    BY <1>1, RunType DEF DecideLocally
  <2>2. TypeOK'
    BY <1>1, <2>1 DEF DecideLocally, TypeOK
  <2>. QED
    BY <1>1, <1>k, <2>1, <2>2, KnownKept DEF DecideLocally, Pending, Exists
<1>2. CASE RecordDecision(a)
  <2>1. /\ run' \in [Tasks -> Runs \cup {None}]
        /\ \A b \in Tasks : b # a => run'[b] = run[b]
    BY <1>2, RunType DEF RecordDecision
  <2>2. /\ approvals' \in [Tasks -> ApprovalRecords \cup {None}]
        /\ \A b \in Tasks : approvals'[b] = None <=> approvals[b] = None
    BY <1>2, <1>r, RunDecision, DecideType DEF RecordDecision, TypeOK
  <2>3. TypeOK'
    BY <1>2, <2>1, <2>2 DEF RecordDecision, TypeOK
  <2>. QED
    BY <1>2, <1>k, <1>r, <2>1, <2>2, <2>3, KnownKept
    DEF RecordDecision, Exists
<1>3. CASE MoveTask(a)
  <2>1. /\ run' \in [Tasks -> Runs \cup {None}]
        /\ \A b \in Tasks : b # a => run'[b] = run[b]
    BY <1>3, RunType DEF MoveTask
  <2>2. Outcome(a, run[a].decision, "approval_approved") \in TaskRecords
    BY <1>3, <1>k, <1>r, RunDecision, OutcomeType DEF MoveTask, Stages
  <2>3. /\ tasks' \in [Tasks -> TaskRecords \cup {None}]
        /\ \A u \in Tasks : Exists(u) => Exists(u)'
    BY <1>3, <2>2, WriteType DEF MoveTask, TypeOK, Exists
  <2>4. callers' = callers \/ callers' = callers \cup {<<a, "local_resume">>}
    BY <1>3 DEF MoveTask, CallAfter
  <2>5. TypeOK'
    BY <1>3, <2>1, <2>3, <2>4 DEF MoveTask, TypeOK, CallerKinds
  <2>. QED
    BY <1>3, <1>k, <1>r, <2>1, <2>3, <2>4, <2>5, KnownKept
    DEF MoveTask, CallerKinds
<1>4. ASSUME NEW d \in Decisions, ResolveInPaperclip(a, d)
      PROVE  TypeInv'
  <2>1. /\ run' \in [Tasks -> Runs \cup {None}]
        /\ \A b \in Tasks : b # a => run'[b] = run[b]
    BY <1>4, RunType DEF ResolveInPaperclip
  <2>2. [approvals[a].external EXCEPT !.decision = d] \in Externals
    BY <1>4 DEF ResolveInPaperclip, Pending, TypeOK, ApprovalRecords, Externals
  <2>3. /\ approvals' \in [Tasks -> ApprovalRecords \cup {None}]
        /\ \A b \in Tasks : approvals'[b] = None <=> approvals[b] = None
    BY <1>4, <2>2, IntentType DEF ResolveInPaperclip, Pending
  <2>4. TypeOK'
    BY <1>4, <2>1, <2>3 DEF ResolveInPaperclip, TypeOK
  <2>. QED
    BY <1>4, <1>k, <2>1, <2>3, <2>4, KnownKept
    DEF ResolveInPaperclip, Pending, Exists
<1>5. CASE AskPaperclip(a)
  <2>1. /\ run[a].decision \in Decisions
        /\ paperclip \in [Tasks -> PaperclipState]
    BY <1>5, RunDecision DEF AskPaperclip, TypeOK
  <2>2. paperclip' \in [Tasks -> PaperclipState]
    BY <1>5, <2>1 DEF AskPaperclip, PaperclipState
  <2>3. /\ run' \in [Tasks -> Runs \cup {None}]
        /\ \A b \in Tasks : b # a => run'[b] = run[b]
    <3>1. paperclip'[a] \in Decisions
      BY <1>5, <2>1 DEF AskPaperclip, Linked, PaperclipState
    <3>2. StartRun(a, paperclip'[a], "confirm")
      BY <1>5 DEF AskPaperclip
    <3>. QED
      BY <3>1, <3>2, RunType
  <2>4. TypeOK'
    BY <1>5, <2>2, <2>3 DEF AskPaperclip, TypeOK
  <2>. QED
    BY <1>5, <1>k, <1>r, <2>3, <2>4, KnownKept DEF AskPaperclip, Exists
<1>6. ASSUME NEW applied \in BOOLEAN, AskFails(a, applied)
      PROVE  TypeInv'
  <2>1. /\ run' \in [Tasks -> Runs \cup {None}]
        /\ \A b \in Tasks : b # a => run'[b] = run[b]
    BY <1>6, RunType DEF AskFails
  <2>2. paperclip' \in [Tasks -> PaperclipState]
    BY <1>6, RunDecision DEF AskFails, TypeOK, PaperclipState
  <2>3. TypeOK'
    BY <1>6, <2>1, <2>2 DEF AskFails, TypeOK
  <2>. QED
    BY <1>6, <1>k, <1>r, <2>1, <2>3, KnownKept DEF AskFails, Exists
<1>7. CASE ConfirmDecision(a)
  <2>1. /\ run' \in [Tasks -> Runs \cup {None}]
        /\ \A b \in Tasks : b # a => run'[b] = run[b]
    BY <1>7, RunType DEF ConfirmDecision
  <2>2. [decision |-> run[a].decision, confirmed |-> TRUE] \in Externals
    BY <1>7, RunDecision DEF ConfirmDecision, Externals
  <2>3. /\ approvals' \in [Tasks -> ApprovalRecords \cup {None}]
        /\ \A b \in Tasks : approvals'[b] = None <=> approvals[b] = None
    BY <1>7, <1>r, <2>2, IntentType DEF ConfirmDecision
  <2>4. TypeOK'
    BY <1>7, <2>1, <2>3 DEF ConfirmDecision, TypeOK
  <2>. QED
    BY <1>7, <1>k, <1>r, <2>1, <2>3, <2>4, KnownKept
    DEF ConfirmDecision, Exists
<1>8. CASE CommitDecision(a)
  <2>1. /\ run' \in [Tasks -> Runs \cup {None}]
        /\ \A b \in Tasks : b # a => run'[b] = run[b]
    BY <1>8, RunType DEF CommitDecision
  <2>2. Outcome(a, run[a].decision, "governance_approved") \in TaskRecords
    BY <1>8, <1>k, <1>r, RunDecision, OutcomeType DEF CommitDecision, Stages
  <2>3. /\ tasks' \in [Tasks -> TaskRecords \cup {None}]
        /\ \A u \in Tasks : Exists(u) => Exists(u)'
    BY <1>8, <2>2, WriteType DEF CommitDecision, TypeOK, Exists
  <2>4. /\ approvals' \in [Tasks -> ApprovalRecords \cup {None}]
        /\ \A b \in Tasks : approvals'[b] = None <=> approvals[b] = None
    BY <1>8, <1>r, RunDecision, DecideType DEF CommitDecision, TypeOK
  <2>5. \/ callers' = callers
        \/ callers' = callers \cup {<<a, "paperclip_resume">>}
    BY <1>8 DEF CommitDecision, CallAfter
  <2>6. TypeOK'
    BY <1>8, <2>1, <2>3, <2>4, <2>5 DEF CommitDecision, TypeOK, CallerKinds
  <2>. QED
    BY <1>8, <1>k, <1>r, <2>1, <2>3, <2>4, <2>5, <2>6, KnownKept
    DEF CommitDecision, CallerKinds
<1>9. ASSUME NEW d \in Decisions, RepeatDecision(a, d)
      PROVE  TypeInv'
  <2>1. Outcome(a, d, "governance_approved") \in TaskRecords
    BY <1>9, OutcomeType DEF RepeatDecision, Stages
  <2>2. /\ tasks' \in [Tasks -> TaskRecords \cup {None}]
        /\ \A u \in Tasks : Exists(u) => Exists(u)'
    BY <1>9, <2>1, WriteType, WriteOrThrowType
    DEF RepeatDecision, TypeOK, Exists
  <2>3. \/ callers' = callers
        \/ callers' = callers \cup {<<a, "paperclip_resume">>}
    BY <1>9 DEF RepeatDecision, CallAfter
  <2>4. TypeOK'
    BY <1>9, <2>2, <2>3 DEF RepeatDecision, TypeOK, CallerKinds
  <2>. QED
    BY <1>9, <2>2, <2>3, <2>4, KnownKept DEF RepeatDecision, CallerKinds
<1>. QED
  BY <1>1, <1>2, <1>3, <1>4, <1>5, <1>6, <1>7, <1>8, <1>9 DEF RunNext

-----------------------------------------------------------------------------
LEMMA ExpiryTypeInv ==
  ASSUME TypeInv, ExpiryNext
  PROVE  TypeInv'
<1>. USE DEF TypeInv
<1>1. ASSUME NEW a \in Tasks, ExpireStart(a)
      PROVE  TypeInv'
  <2>1. [approval |-> a, pc |-> "write"] \in Passes
    BY DEF Passes
  <2>. QED
    BY <1>1, <2>1 DEF ExpireStart, Pending, TypeOK, Known, Exists
<1>2. CASE ExpireWrite
  <2>. DEFINE a == expiry.approval
  <2>1. /\ a \in Tasks
        /\ approvals[a] # None
        /\ expiry \in Passes
    BY <1>2 DEF ExpireWrite, TypeOK, Known, Passes
  <2>2. /\ [expiry EXCEPT !.pc = "look"] \in Passes
        /\ [expiry EXCEPT !.pc = "look"].approval = a
    BY <2>1 DEF Passes
  <2>3. /\ approvals' \in [Tasks -> ApprovalRecords \cup {None}]
        /\ \A b \in Tasks : approvals'[b] = None <=> approvals[b] = None
    BY <1>2, <2>1, DecideType DEF ExpireWrite, ApprovalStatuses, TypeOK
  <2>4. \/ expiry' = None
        \/ expiry' \in Passes /\ expiry'.approval = a
    BY <1>2, <2>2 DEF ExpireWrite
  <2>. QED
    BY <1>2, <2>1, <2>3, <2>4 DEF ExpireWrite, TypeOK, Known, Exists
<1>3. CASE ExpireLook
  <2>1. expiry \in Passes
    BY <1>3 DEF ExpireLook, TypeOK
  <2>2. /\ [expiry EXCEPT !.pc = "close"] \in Passes
        /\ [expiry EXCEPT !.pc = "close"].approval = expiry.approval
    BY <2>1 DEF Passes
  <2>3. \/ expiry' = None
        \/ expiry' \in Passes /\ expiry'.approval = expiry.approval
    BY <1>3, <2>2 DEF ExpireLook
  <2>. QED
    BY <1>3, <2>3 DEF ExpireLook, TypeOK, Known, Exists
<1>4. CASE ExpireClose
  <2>. DEFINE a == expiry.approval
  <2>1. a \in Tasks /\ Exists(a)
    BY <1>4 DEF ExpireClose, TypeOK, Known, Passes
  <2>2. Patch(a, "cancelled", "settled") \in TaskRecords
    BY <2>1, PatchType DEF TaskStatuses, Stages
  <2>3. /\ tasks' \in [Tasks -> TaskRecords \cup {None}]
        /\ \A u \in Tasks : Exists(u) => Exists(u)'
    BY <1>4, <2>1, <2>2, WriteOrThrowType DEF ExpireClose
  <2>. QED
    BY <1>4, <2>3 DEF ExpireClose, TypeOK, Known, Exists
<1>. QED
  BY <1>1, <1>2, <1>3, <1>4 DEF ExpiryNext

LEMMA RestartTypeInv ==
  ASSUME TypeInv, RecoveryNext \/ EnvironmentNext
  PROVE  TypeInv'
<1>. USE DEF TypeInv
<1>1. CASE RecoveryList
  BY <1>1 DEF RecoveryList, TypeOK, Known, Exists
<1>2. ASSUME NEW t \in Tasks, RecoverTask(t)
      PROVE  TypeInv'
  <2>1. /\ tasks' \in [Tasks -> TaskRecords \cup {None}]
        /\ \A u \in Tasks : Exists(u) => Exists(u)'
    <3>1. CASE Interrupted(t)
      <4>1. Patch(t, "waiting_test", "local_execution_interrupted")
              \in TaskRecords
        BY <3>1, PatchType DEF Interrupted, Running, TaskStatuses, Stages
      <4>. QED
        BY <1>2, <3>1, <4>1, WriteOrThrowType DEF RecoverTask
    <3>. QED
      BY <1>2, <3>1 DEF RecoverTask, TypeOK, Exists
  <2>. QED
    BY <1>2, <2>1 DEF RecoverTask, TypeOK, Known, Exists
<1>3. CASE \E a \in Tasks : Lapse(a)
  BY <1>3 DEF Lapse, TypeOK, Known, Exists
<1>4. CASE \E a \in Tasks, d \in Decisions : PaperclipDecides(a, d)
  BY <1>4 DEF PaperclipDecides, TypeOK, Known, Exists, PaperclipState
<1>5. CASE Crash
  BY <1>5, MaxBootsAssumption
  DEF Crash, store, TypeOK, Known, Exists, IntakePoints
<1>. QED
  BY <1>1, <1>2, <1>3, <1>4, <1>5 DEF RecoveryNext, EnvironmentNext

-----------------------------------------------------------------------------
\* A patch keeps what the task is linked to, and its attempt and references.
LEMMA PatchKeeps ==
  ASSUME TypeOK, NEW t \in Tasks, Exists(t), NEW status, NEW stage
  PROVE  LET new == Patch(t, status, stage) IN
         /\ new.status = status
         /\ new.linked = tasks[t].linked
         /\ new.attempt = tasks[t].attempt
         /\ new.approvalRefs = tasks[t].approvalRefs
<1>1. tasks[t] \in TaskRecords
  BY DEF TypeOK, Exists
<1>. QED
  BY <1>1 DEF Patch, TaskRecords

\* The tasks that are linked after a write were linked before it.
LinkedBefore ==
  \A u \in Tasks : Exists(u)' /\ tasks'[u].linked => Exists(u) /\ tasks[u].linked

LEMMA WriteLinked ==
  ASSUME TypeOK, NEW t \in Tasks, Exists(t), NEW new,
         new.linked = tasks[t].linked,
         Write(t, new) \/ WriteOrThrow(t, new)
  PROVE  LinkedBefore
BY DEF Write, WriteOrThrow, TypeOK, Exists, LinkedBefore

LEMMA LinkedKept ==
  ASSUME Linked, LinkedBefore,
         \A t \in Tasks : (run'[t] # None /\ run'[t].pc = "ask")
                           => run[t] # None /\ run[t].pc = "ask",
         \A t \in Tasks : paperclip[t] # "absent" => paperclip'[t] # "absent"
  PROVE  Linked'
BY DEF Linked, LinkedBefore

LEMMA LinkedStep ==
  ASSUME TypeInv, Linked, Next
  PROVE  Linked'
<1>. USE DEF TypeInv
<1>1. ASSUME NEW t \in Tasks, IntakeNext(t)
      PROVE  Linked'
  <2>1. CASE \E status \in {"queued", "needs_input"} : CreateTask(t, status)
    <3>1. PICK status \in {"queued", "needs_input"} : CreateTask(t, status)
      BY <2>1
    <3>2. LinkedBefore
      BY <3>1 DEF CreateTask, Write, TypeOK, Exists, LinkedBefore
    <3>. QED
      BY <3>1, <3>2, LinkedKept DEF CreateTask
  <2>2. CASE AskForBrief(t)
    <3>1. LinkedBefore
      BY <2>2, PatchKeeps, WriteLinked DEF AskForBrief, Known
    <3>. QED
      BY <2>2, <3>1, LinkedKept DEF AskForBrief
  <2>3. CASE AcceptBrief(t)
    BY <2>3 DEF AcceptBrief, Linked, Exists
  <2>4. CASE RequireApproval(t)
    <3>1. Held(t).linked = tasks[t].linked
      <4>1. tasks[t] \in TaskRecords
        BY <2>4 DEF RequireApproval, TypeOK, Known, Exists
      <4>. QED
        BY <4>1 DEF Held, TaskRecords
    <3>2. LinkedBefore
      <4>1. CASE UNCHANGED tasks
        BY <4>1 DEF LinkedBefore, Exists
      <4>2. CASE Write(t, Held(t))
        BY <2>4, <3>1, <4>2, WriteLinked DEF RequireApproval, Known
      <4>. QED
        BY <2>4, <4>1, <4>2 DEF RequireApproval
    <3>. QED
      BY <2>4, <3>2, LinkedKept DEF RequireApproval
  <2>5. CASE \E reached \in BOOLEAN : ProjectGovernance(t, reached)
    BY <2>5 DEF ProjectGovernance, Linked, TypeOK, Exists
  <2>6. CASE \E answered \in BOOLEAN : LinkTask(t, answered)
    <3>1. PICK answered \in BOOLEAN : LinkTask(t, answered)
      BY <2>6
    <3>2. tasks[t] \in TaskRecords
      BY <3>1 DEF LinkTask, TypeOK, Known, Exists
    <3>3. /\ tasks'[t].linked = (tasks[t].linked \/ answered)
          /\ \A u \in Tasks : u # t => tasks'[u] = tasks[u]
      BY <3>1, <3>2 DEF LinkTask, Write, TypeOK, TaskRecords
    <3>4. Exists(t)
      BY <3>1 DEF LinkTask, Known
    <3>. QED
      BY <3>1, <3>3, <3>4 DEF LinkTask, Linked, Exists
  <2>7. CASE ProvideInput(t)
    <3>1. LinkedBefore
      BY <2>7, PatchKeeps, WriteLinked DEF ProvideInput
    <3>. QED
      BY <2>7, <3>1, LinkedKept DEF ProvideInput
  <2>. QED
    BY <1>1, <2>1, <2>2, <2>3, <2>4, <2>5, <2>6, <2>7 DEF IntakeNext
<1>2. ASSUME NEW a \in Tasks, RunNext(a)
      PROVE  Linked'
  <2>k. run[a] # None => Exists(a)
    BY DEF Known
  <2>1. CASE \E d \in Decisions : DecideLocally(a, d)
    BY <2>1 DEF DecideLocally, StartRun, Linked, TypeOK, Exists
  <2>2. CASE RecordDecision(a)
    BY <2>2 DEF RecordDecision, Advance, EndRun, Linked, TypeOK, Runs, Exists
  <2>3. CASE MoveTask(a)
    <3>1. Outcome(a, run[a].decision, "approval_approved").linked
            = tasks[a].linked
      BY <2>3, <2>k, PatchKeeps DEF MoveTask, Outcome
    <3>2. LinkedBefore
      <4>1. CASE UNCHANGED tasks
        BY <4>1 DEF LinkedBefore, Exists
      <4>. QED
        BY <2>3, <2>k, <3>1, <4>1, WriteLinked DEF MoveTask
    <3>. QED
      BY <2>3, <3>2, LinkedKept DEF MoveTask, EndRun, TypeOK
  <2>4. CASE \E d \in Decisions : ResolveInPaperclip(a, d)
    BY <2>4 DEF ResolveInPaperclip, Pending, StartRun, Linked, TypeOK, Known,
                Exists
  <2>5. CASE AskPaperclip(a)
    <3>1. paperclip[a] # "absent"
      BY <2>5 DEF AskPaperclip, Linked
    <3>2. /\ \A t \in Tasks : paperclip[t] # "absent" => paperclip'[t] # "absent"
      BY <2>5, <3>1, RunDecision DEF AskPaperclip, TypeOK, Decisions
    <3>3. LinkedBefore
      BY <2>5 DEF AskPaperclip, LinkedBefore, Exists
    <3>4. \A t \in Tasks : t # a => run'[t] = run[t]
      BY <2>5 DEF AskPaperclip, StartRun, TypeOK
    <3>5. \A t \in Tasks : (run'[t] # None /\ run'[t].pc = "ask")
                            => run[t] # None /\ run[t].pc = "ask"
      BY <2>5, <3>4 DEF AskPaperclip
    <3>. QED
      BY <3>2, <3>3, <3>5, LinkedKept
  <2>6. CASE \E applied \in BOOLEAN : AskFails(a, applied)
    <3>1. \A t \in Tasks : paperclip[t] # "absent" => paperclip'[t] # "absent"
      BY <2>6, RunDecision DEF AskFails, TypeOK, Decisions
    <3>. QED
      BY <2>6, <3>1 DEF AskFails, EndRun, Linked, TypeOK, Exists
  <2>7. CASE ConfirmDecision(a)
    BY <2>7 DEF ConfirmDecision, Advance, Linked, TypeOK, Runs, Exists
  <2>8. CASE CommitDecision(a)
    <3>1. Outcome(a, run[a].decision, "governance_approved").linked
            = tasks[a].linked
      BY <2>8, <2>k, PatchKeeps DEF CommitDecision, Outcome
    <3>2. LinkedBefore
      <4>1. CASE UNCHANGED tasks
        BY <4>1 DEF LinkedBefore, Exists
      <4>. QED
        BY <2>8, <2>k, <3>1, <4>1, WriteLinked DEF CommitDecision
    <3>. QED
      BY <2>8, <3>2, LinkedKept DEF CommitDecision, EndRun, TypeOK
  <2>9. ASSUME NEW d \in Decisions, RepeatDecision(a, d)
        PROVE  Linked'
    <3>1. Outcome(a, d, "governance_approved").linked = tasks[a].linked
      BY <2>9, PatchKeeps DEF RepeatDecision, Outcome
    <3>2. LinkedBefore
      <4>1. CASE UNCHANGED tasks
        BY <4>1 DEF LinkedBefore, Exists
      <4>. QED
        BY <2>9, <3>1, <4>1, WriteLinked DEF RepeatDecision
    <3>. QED
      BY <2>9, <3>2, LinkedKept DEF RepeatDecision
  <2>. QED
    BY <1>2, <2>1, <2>2, <2>3, <2>4, <2>5, <2>6, <2>7, <2>8, <2>9 DEF RunNext
<1>3. CASE ExecutionNext
  <2>1. ASSUME NEW c \in callers, Claim(c)
        PROVE  Linked'
    <3>. DEFINE t == c[1]
    <3>1. t \in Tasks /\ tasks[t] \in TaskRecords /\ Exists(t)
      BY DEF TypeOK, Known, Exists
    <3>2. LinkedBefore
      <4>. DEFINE new == [tasks[t] EXCEPT !.status = "running",
                                          !.stage = "starting",
                                          !.started = boot]
      <4>1. CASE UNCHANGED tasks
        BY <4>1 DEF LinkedBefore, Exists
      <4>2. CASE Write(t, new)
        <5>1. new.linked = tasks[t].linked
          BY <3>1 DEF TaskRecords
        <5>. QED
          BY <3>1, <4>2, <5>1, WriteLinked
      <4>. QED
        BY <2>1, <4>1, <4>2 DEF Claim
    <3>. QED
      BY <2>1, <3>2, LinkedKept DEF Claim
  <2>2. ASSUME NEW c \in callers, NoExecutor(c)
        PROVE  Linked'
    <3>. DEFINE t == c[1]
    <3>1. t \in Tasks /\ Exists(t)
      BY DEF TypeOK, Known
    <3>2. LinkedBefore
      <4>1. CASE UNCHANGED tasks
        BY <4>1 DEF LinkedBefore, Exists
      <4>. QED
        BY <2>2, <3>1, <4>1, PatchKeeps, WriteLinked DEF NoExecutor
    <3>. QED
      BY <2>2, <3>2, LinkedKept DEF NoExecutor
  <2>3. ASSUME NEW t \in Tasks, NEW status \in TaskStatuses, Finish(t, status)
        PROVE  Linked'
    <3>1. LinkedBefore
      BY <2>3, PatchKeeps, WriteLinked DEF Finish, Known
    <3>. QED
      BY <2>3, <3>1, LinkedKept DEF Finish
  <2>. QED
    BY <1>3, <2>1, <2>2, <2>3 DEF ExecutionNext
<1>4. CASE ExpiryNext
  <2>1. CASE ExpireClose
    <3>. DEFINE a == expiry.approval
    <3>1. a \in Tasks /\ Exists(a)
      BY <2>1 DEF ExpireClose, TypeOK, Known, Passes
    <3>2. LinkedBefore
      BY <2>1, <3>1, PatchKeeps, WriteLinked DEF ExpireClose
    <3>. QED
      BY <2>1, <3>2, LinkedKept DEF ExpireClose
  <2>2. CASE (\E a \in Tasks : ExpireStart(a)) \/ ExpireWrite \/ ExpireLook
    BY <2>2 DEF ExpireStart, ExpireWrite, ExpireLook, Linked, Exists
  <2>. QED
    BY <1>4, <2>1, <2>2 DEF ExpiryNext
<1>5. CASE RecoveryNext
  <2>1. ASSUME NEW t \in Tasks, RecoverTask(t)
        PROVE  Linked'
    <3>1. LinkedBefore
      <4>1. CASE UNCHANGED tasks
        BY <4>1 DEF LinkedBefore, Exists
      <4>2. CASE Interrupted(t)
        BY <2>1, <4>2, PatchKeeps, WriteLinked
        DEF RecoverTask, Interrupted, Running
      <4>. QED
        BY <2>1, <4>1, <4>2 DEF RecoverTask
    <3>. QED
      BY <2>1, <3>1, LinkedKept DEF RecoverTask
  <2>. QED
    BY <1>5, <2>1 DEF RecoveryNext, RecoveryList, Linked, Exists
<1>6. CASE EnvironmentNext
  <2>1. CASE \E a \in Tasks : Lapse(a)
    BY <2>1 DEF Lapse, Linked, Exists
  <2>2. CASE \E a \in Tasks, d \in Decisions : PaperclipDecides(a, d)
    BY <2>2 DEF PaperclipDecides, Linked, Exists, TypeOK, Decisions
  <2>3. CASE Crash
    BY <2>3 DEF Crash, store, Linked, Exists
  <2>. QED
    BY <1>6, <2>1, <2>2, <2>3 DEF EnvironmentNext
<1>. QED
  BY <1>1, <1>2, <1>3, <1>4, <1>5, <1>6 DEF Next

\* The runtime's records keep their types, and no handler is about a task or
\* an approval the store does not hold.
THEOREM TypeCorrect == Spec => []TypeOK
<1>1. Init => TypeInv /\ Linked
  BY InitTypeInv
<1>2. TypeInv /\ Linked /\ [Next]_vars => (TypeInv /\ Linked)'
  <2>. SUFFICES ASSUME TypeInv, Linked, [Next]_vars
                PROVE  (TypeInv /\ Linked)'
    OBVIOUS
  <2>1. CASE Next
    BY <2>1, LinkedStep, IntakeTypeInv, RunTypeInv, ExecutionTypeInv,
       ExpiryTypeInv, RestartTypeInv DEF Next
  <2>2. CASE UNCHANGED vars
    BY <2>2 DEF vars, TypeInv, TypeOK, Known, Linked, Exists
  <2>. QED
    BY <2>1, <2>2
<1>3. TypeInv => TypeOK
  BY DEF TypeInv
<1>. QED
  BY <1>1, <1>2, <1>3, PTL DEF Spec

-----------------------------------------------------------------------------
(* Safety *)

\* What follows is about the tasks that nobody answered during their creation, whatever is
\* done to the others.

\* Before its approval is required, nothing executes a task or is about to.
Creating ==
  \A t \in Tasks \ early :
    intake[t] \in {"none", "guard", "approve"}
      => /\ approvals[t] = None
         /\ live[t] = 0
         /\ \A c \in callers : c[1] # t

\* A task that is being executed cannot be claimed: it is running, or has
\* been closed behind the executor's back.
Executed ==
  \A t \in Tasks \ early :
    /\ live[t] <= 1
    /\ live[t] > 0 => tasks[t].status \in {"running"} \cup TerminalStatuses

\* A task whose approval is not granted waits or has ended.
Gate ==
  \A t \in Tasks \ early :
    (approvals[t] # None /\ approvals[t].status # "approved")
      => /\ live[t] = 0
         /\ tasks[t].status \in {"waiting_approval"} \cup TerminalStatuses

\* A task refers to no approval but its own, and none is ever superseded.
OwnApproval ==
  \A t \in Tasks :
    /\ Exists(t) => tasks[t].approvalRefs \subseteq {t}
    /\ approvals[t] # None => approvals[t].status # "superseded"

Safe == Creating /\ Executed /\ Gate /\ OwnApproval

LEMMA InitSafe == Init => Safe
BY DEF Init, Safe, Creating, Executed, Gate, OwnApproval, Exists

\* Nothing but callers that go away.
LEMMA FrameSafe ==
  ASSUME Safe, UNCHANGED <<tasks, live, intake, early>>,
         callers' \subseteq callers,
         \A a \in Tasks : approvals'[a] = approvals[a]
  PROVE  Safe'
BY DEF Safe, Creating, Executed, Gate, OwnApproval, Exists

\* Closing a task, whatever it was doing, or being refused to.
LEMMA CloseSafe ==
  ASSUME TypeInv, Safe, NEW t \in Tasks, Exists(t),
         NEW status \in TerminalStatuses, NEW stage,
         UNCHANGED tasks \/ Write(t, Patch(t, status, stage)),
         UNCHANGED <<approvals, live, intake, early>>,
         callers' \subseteq callers
  PROVE  Safe'
<1>1. CASE UNCHANGED tasks
  BY <1>1, FrameSafe
<1>2. CASE Write(t, Patch(t, status, stage))
  <2>1. /\ tasks'[t].status = status
        /\ tasks'[t].approvalRefs = tasks[t].approvalRefs
        /\ \A u \in Tasks : u # t => tasks'[u] = tasks[u]
    BY <1>2, PatchKeeps DEF Write, TypeInv, TypeOK
  <2>. QED
    BY <2>1 DEF Safe, Creating, Executed, Gate, OwnApproval, Exists
<1>. QED
  BY <1>1, <1>2

\* A task that the lifecycle lets into the queue is not being executed, and
\* its approval, if it has one, is granted.
LEMMA QueueNeedsApproval ==
  ASSUME TypeInv, Safe, NEW t \in Tasks \ early, Exists(t), NEW stage,
         Accepts(t, Patch(t, "queued", stage))
  PROVE  /\ live[t] = 0
         /\ approvals[t] # None => approvals[t].status = "approved"
<1>. DEFINE new == Patch(t, "queued", stage)
<1>1. /\ new.status = "queued"
      /\ new.attempt = tasks[t].attempt
      /\ new.approvalRefs = tasks[t].approvalRefs
      /\ tasks[t].attempt \in Nat
      /\ AllowedStep(t, tasks[t], new, approvals)
  BY PatchKeeps DEF TypeInv, TypeOK, TaskRecords, Exists, Accepts
<1>2. tasks[t].status \notin {"running"} \cup TerminalStatuses
  BY <1>1, NotRequeued
<1>3. live[t] = 0
  BY <1>2 DEF Safe, Executed, TypeInv, TypeOK
<1>4. ASSUME approvals[t] # None, approvals[t].status # "approved"
      PROVE  FALSE
  <2>1. tasks[t].status = "waiting_approval"
    BY <1>2, <1>4 DEF Safe, Gate
  <2>2. \E a \in new.approvalRefs : approvals[a].status \in ContinueStatuses
    BY <1>1, <2>1, ReleaseNeedsDecision
  <2>3. approvals[t].status \in ContinueStatuses
    BY <1>1, <2>2 DEF Safe, OwnApproval
  <2>. QED
    BY <1>4, <2>3 DEF Safe, OwnApproval, ContinueStatuses
<1>. QED
  BY <1>3, <1>4

LEMMA RequeueSafe ==
  ASSUME TypeInv, Safe, NEW t \in Tasks, Exists(t), NEW stage,
         early \subseteq early',
         intake[t] \notin {"none", "guard", "approve"} \/ t \in early',
         \/ UNCHANGED tasks
         \/ /\ Accepts(t, Patch(t, "queued", stage))
            /\ Write(t, Patch(t, "queued", stage)),
         UNCHANGED <<approvals, live, intake>>,
         \A c \in callers' : c \in callers \/ c[1] = t
  PROVE  Safe'
<1>1. CASE UNCHANGED tasks
  BY <1>1 DEF Safe, Creating, Executed, Gate, OwnApproval, Exists
<1>2. CASE /\ Accepts(t, Patch(t, "queued", stage))
           /\ Write(t, Patch(t, "queued", stage))
  <2>1. t \notin early =>
          /\ live[t] = 0
          /\ approvals[t] # None => approvals[t].status = "approved"
    BY <1>2, QueueNeedsApproval
  <2>2. /\ tasks'[t].approvalRefs = tasks[t].approvalRefs
        /\ \A u \in Tasks : u # t => tasks'[u] = tasks[u]
    BY <1>2, PatchKeeps DEF Write, TypeInv, TypeOK
  <2>. QED
    BY <2>1, <2>2 DEF Safe, Creating, Executed, Gate, OwnApproval, Exists
<1>. QED
  BY <1>1, <1>2

LEMMA IntakeSafe ==
  ASSUME TypeInv, Safe, NEW t \in Tasks, IntakeNext(t)
  PROVE  Safe'
<1>. USE DEF TypeInv
<1>1. CASE \E status \in {"queued", "needs_input"} : CreateTask(t, status)
  <2>1. PICK status \in {"queued", "needs_input"} : CreateTask(t, status)
    BY <1>1
  <2>2. /\ tasks'[t].approvalRefs = {}
        /\ \A u \in Tasks : u # t => tasks'[u] = tasks[u]
        /\ intake'[t] = "guard"
        /\ \A u \in Tasks : u # t => intake'[u] = intake[u]
    BY <2>1 DEF CreateTask, Write, TypeOK
  <2>3. t \notin early => approvals[t] = None /\ live[t] = 0 /\ \A c \in callers : c[1] # t
    BY <2>1 DEF CreateTask, Safe, Creating
  <2>. QED
    BY <2>1, <2>2, <2>3
    DEF CreateTask, Safe, Creating, Executed, Gate, OwnApproval, Exists
<1>2. CASE AskForBrief(t)
  <2>. DEFINE new == Patch(t, "needs_input", "brief_clarification")
  <2>1. t \notin early => approvals[t] = None /\ live[t] = 0
    BY <1>2 DEF AskForBrief, Safe, Creating
  <2>2. new.approvalRefs = tasks[t].approvalRefs
    BY <1>2, PatchKeeps DEF AskForBrief, Known
  <2>3. /\ tasks'[t].approvalRefs = tasks[t].approvalRefs
        /\ \A u \in Tasks : u # t => tasks'[u] = tasks[u]
    BY <1>2, <2>2 DEF AskForBrief, WriteOrThrow, Write, TypeOK, Known, Exists
  <2>4. /\ intake'[t] = "done"
        /\ \A u \in Tasks : u # t => intake'[u] = intake[u]
        /\ Exists(t)
    BY <1>2 DEF AskForBrief, TypeOK, Known
  <2>. QED
    BY <1>2, <2>1, <2>3, <2>4
    DEF AskForBrief, Safe, Creating, Executed, Gate, OwnApproval, Exists
<1>3. CASE AcceptBrief(t)
  BY <1>3
  DEF AcceptBrief, TypeOK, Safe, Creating, Executed, Gate, OwnApproval, Exists
<1>4. CASE RequireApproval(t)
  <2>1. /\ t \notin early => approvals[t] = None /\ live[t] = 0
        /\ Exists(t)
        /\ tasks[t] \in TaskRecords
    BY <1>4 DEF RequireApproval, Safe, Creating, TypeOK, Known, Exists
  <2>2. /\ intake'[t] \in {"project", "done"}
        /\ \A u \in Tasks : u # t => intake'[u] = intake[u]
    BY <1>4 DEF RequireApproval, TypeOK
  <2>3. CASE UNCHANGED <<tasks, approvals>>
    BY <1>4, <2>2, <2>3
    DEF RequireApproval, Safe, Creating, Executed, Gate, OwnApproval, Exists
  <2>4. CASE /\ approvals' = [approvals EXCEPT ![t] = NewApproval(t)]
             /\ Write(t, Held(t))
    <3>1. /\ tasks'[t].status = "waiting_approval"
          /\ tasks'[t].approvalRefs = tasks[t].approvalRefs \cup {t}
          /\ \A u \in Tasks : u # t => tasks'[u] = tasks[u]
      BY <2>1, <2>4 DEF Write, Held, TypeOK, TaskRecords
    <3>2. /\ approvals'[t].status = "pending"
          /\ \A u \in Tasks : u # t => approvals'[u] = approvals[u]
      BY <2>4 DEF NewApproval, TypeOK
    <3>. QED
      BY <1>4, <2>1, <2>2, <3>1, <3>2
      DEF RequireApproval, Safe, Creating, Executed, Gate, OwnApproval, Exists
  <2>. QED
    BY <1>4, <2>3, <2>4 DEF RequireApproval
<1>5. CASE \E reached \in BOOLEAN : ProjectGovernance(t, reached)
  BY <1>5
  DEF ProjectGovernance, TypeOK, Safe, Creating, Executed, Gate, OwnApproval,
      Exists
<1>6. CASE \E answered \in BOOLEAN : LinkTask(t, answered)
  <2>1. PICK answered \in BOOLEAN : LinkTask(t, answered)
    BY <1>6
  <2>2. tasks[t] \in TaskRecords /\ Exists(t)
    BY <2>1 DEF LinkTask, TypeOK, Known, Exists
  <2>3. /\ tasks'[t].status = tasks[t].status
        /\ tasks'[t].approvalRefs = tasks[t].approvalRefs
        /\ \A u \in Tasks : u # t => tasks'[u] = tasks[u]
    BY <2>1, <2>2 DEF LinkTask, Write, TypeOK, TaskRecords
  <2>4. /\ intake'[t] = "done"
        /\ \A u \in Tasks : u # t => intake'[u] = intake[u]
        /\ \A c \in callers' : c \in callers \/ c[1] = t
    BY <2>1 DEF LinkTask, TypeOK
  <2>. QED
    BY <2>1, <2>2, <2>3, <2>4
    DEF LinkTask, Safe, Creating, Executed, Gate, OwnApproval, Exists
<1>7. CASE ProvideInput(t)
  <2>1. /\ Exists(t)
        /\ early \subseteq early'
        /\ intake[t] \notin {"none", "guard", "approve"} \/ t \in early'
    BY <1>7 DEF ProvideInput
  <2>2. \A c \in callers' : c \in callers \/ c[1] = t
    BY <1>7 DEF ProvideInput
  <2>. QED
    BY <1>7, <2>1, <2>2, RequeueSafe DEF ProvideInput
<1>. QED
  BY <1>1, <1>2, <1>3, <1>4, <1>5, <1>6, <1>7 DEF IntakeNext

LEMMA ExecutionSafe ==
  ASSUME TypeInv, Safe, ExecutionNext
  PROVE  Safe'
<1>. USE DEF TypeInv
<1>1. ASSUME NEW c \in callers, Claim(c)
      PROVE  Safe'
  <2>. DEFINE t == c[1]
              new == [tasks[t] EXCEPT !.status = "running",
                                      !.stage = "starting",
                                      !.started = boot]
  <2>1. t \in Tasks /\ Exists(t) /\ tasks[t] \in TaskRecords
    BY DEF TypeOK, Known, Exists
  <2>2. CASE UNCHANGED <<tasks, live>>
    BY <1>1, <2>2, FrameSafe DEF Claim
  <2>3. CASE /\ tasks[t].status = "queued"
             /\ Write(t, new)
             /\ live' = [live EXCEPT ![t] = @ + 1]
    <3>1. t \notin early =>
            /\ live[t] = 0
            /\ approvals[t] # None => approvals[t].status = "approved"
      BY <2>1, <2>3 DEF Safe, Executed, Gate, TerminalStatuses, TypeOK
    <3>2. /\ new.status = "running"
          /\ new.approvalRefs = tasks[t].approvalRefs
      BY <2>1 DEF TaskRecords
    <3>4. t \in early \/ intake[t] \notin {"none", "guard", "approve"}
      BY <2>1 DEF Safe, Creating
    <3>. HIDE DEF new, t
    <3>3. /\ tasks'[t] = new
          /\ t \notin early => live'[t] = 1
          /\ \A u \in Tasks : u # t => tasks'[u] = tasks[u] /\ live'[u] = live[u]
      BY <2>1, <2>3, <3>1 DEF Write, TypeOK
    <3>5. /\ UNCHANGED <<approvals, intake, early>>
          /\ callers' \subseteq callers
      BY <1>1 DEF Claim
    <3>. QED
      BY <2>1, <3>1, <3>2, <3>3, <3>4, <3>5
      DEF Safe, Creating, Executed, Gate, OwnApproval, Exists
  <2>. QED
    BY <1>1, <2>2, <2>3 DEF Claim
<1>2. ASSUME NEW c \in callers, NoExecutor(c)
      PROVE  Safe'
  <2>. DEFINE t == c[1]
  <2>1. t \in Tasks /\ Exists(t)
    BY DEF TypeOK, Known
  <2>2. /\ UNCHANGED tasks \/ Write(t, Patch(t, "failed", "settled"))
        /\ UNCHANGED <<approvals, live, intake, early>>
        /\ callers' \subseteq callers
    BY <1>2 DEF NoExecutor, WriteOrThrow
  <2>. QED
    BY <2>1, <2>2, CloseSafe DEF TerminalStatuses
<1>3. ASSUME NEW t \in Tasks, NEW status \in TaskStatuses, Finish(t, status)
      PROVE  Safe'
  <2>1. /\ Exists(t)
        /\ t \notin early =>
             /\ live[t] = 1
             /\ intake[t] \notin {"none", "guard", "approve"}
             /\ approvals[t] # None => approvals[t].status = "approved"
    BY <1>3 DEF Finish, Known, Safe, Creating, Executed, Gate, TypeOK
  <2>2. /\ t \notin early => live'[t] = 0
        /\ \A u \in Tasks : u # t => live'[u] = live[u]
    BY <1>3, <2>1 DEF Finish, TypeOK
  <2>3. /\ tasks'[t].approvalRefs = tasks[t].approvalRefs
        /\ \A u \in Tasks : u # t => tasks'[u] = tasks[u]
    BY <1>3, <2>1, PatchKeeps DEF Finish, WriteOrThrow, Write, TypeOK
  <2>. QED
    BY <1>3, <2>1, <2>2, <2>3
    DEF Finish, Safe, Creating, Executed, Gate, OwnApproval, Exists
<1>. QED
  BY <1>1, <1>2, <1>3 DEF ExecutionNext

\* Writing the external decision of an approval changes nothing else.
LEMMA IntentSafe ==
  ASSUME TypeInv, Safe, NEW a \in Tasks, approvals[a] # None, NEW external,
         approvals' = [approvals EXCEPT ![a].external = external],
         \A b \in Tasks : approvals'[b] = None <=> approvals[b] = None,
         UNCHANGED <<tasks, live, intake, callers, early>>
  PROVE  Safe'
<1>1. approvals[a] \in ApprovalRecords
  BY DEF TypeInv, TypeOK
<1>2. \A b \in Tasks : approvals[b] # None
                        => approvals'[b].status = approvals[b].status
  BY <1>1 DEF TypeInv, TypeOK, ApprovalRecords
<1>. QED
  BY <1>2 DEF Safe, Creating, Executed, Gate, OwnApproval, Exists

\* A decision on an approval, its task left alone or closed or, when it is
\* approved, queued.
LEMMA DecideSafe ==
  ASSUME TypeInv, Safe, NEW a \in Tasks, approvals[a] # None,
         NEW status \in ApprovalStatuses \ {"superseded"},
         ApprovalStepAllowed(approvals[a].status, status),
         approvals' = [approvals EXCEPT ![a].status = status],
         UNCHANGED <<tasks, live, intake, callers, early>>
  PROVE  Safe'
<1>1. approvals[a] \in ApprovalRecords
  BY DEF TypeInv, TypeOK
<1>2. /\ approvals'[a].status = status
      /\ \A b \in Tasks : b # a => approvals'[b] = approvals[b]
  BY <1>1 DEF TypeInv, TypeOK, ApprovalRecords
<1>3. \A b \in Tasks : approvals'[b] = None <=> approvals[b] = None
  BY <1>1, DecideType DEF TypeInv
<1>4. status # "approved" => approvals[a].status # "approved"
  BY DEF ApprovalStepAllowed
<1>. QED
  BY <1>2, <1>3, <1>4 DEF Safe, Creating, Executed, Gate, OwnApproval, Exists

LEMMA RunSafe ==
  ASSUME TypeInv, Safe, NEW a \in Tasks, RunNext(a)
  PROVE  Safe'
<1>. USE DEF TypeInv
<1>k. run[a] # None => Exists(a) /\ approvals[a] # None
  BY DEF Known
<1>i. approvals[a] # None => a \in early \/ intake[a] \notin {"none", "guard", "approve"}
  BY DEF Safe, Creating
<1>1. CASE \E d \in Decisions : DecideLocally(a, d)
  BY <1>1, FrameSafe DEF DecideLocally
<1>2. CASE RecordDecision(a)
  <2>1. CASE UNCHANGED approvals
    BY <1>2, <2>1, FrameSafe DEF RecordDecision
  <2>2. Decided(run[a].decision) \in ApprovalStatuses \ {"superseded"}
    BY DEF Decided, ApprovalStatuses
  <2>. QED
    BY <1>2, <1>k, <2>1, <2>2, DecideSafe DEF RecordDecision
<1>3. CASE MoveTask(a)
  <2>1. CASE UNCHANGED <<tasks, callers>>
    BY <1>3, <2>1, FrameSafe DEF MoveTask
  <2>2. CASE run[a].decision = "approve" /\ ~UNCHANGED <<tasks, callers>>
    <3>1. Outcome(a, run[a].decision, "approval_approved")
            = Patch(a, "queued", "approval_approved")
      BY <2>2 DEF Outcome
    <3>2. \A c \in callers' : c \in callers \/ c[1] = a
      BY <1>3, <2>2 DEF MoveTask, CallAfter
    <3>. QED
      BY <1>3, <1>k, <1>i, <2>2, <3>1, <3>2, RequeueSafe DEF MoveTask
  <2>3. CASE run[a].decision # "approve" /\ ~UNCHANGED <<tasks, callers>>
    <3>1. Outcome(a, run[a].decision, "approval_approved")
            = Patch(a, "cancelled", "settled")
      BY <2>3 DEF Outcome
    <3>2. callers' = callers
      BY <1>3, <2>3 DEF MoveTask, CallAfter
    <3>. QED
      BY <1>3, <1>k, <2>3, <3>1, <3>2, CloseSafe
      DEF MoveTask, TerminalStatuses
  <2>. QED
    BY <2>1, <2>2, <2>3
<1>4. ASSUME NEW d \in Decisions, ResolveInPaperclip(a, d)
      PROVE  Safe'
  <2>1. [approvals[a].external EXCEPT !.decision = d] \in Externals
    BY <1>4 DEF ResolveInPaperclip, Pending, TypeOK, ApprovalRecords, Externals
  <2>2. \A b \in Tasks : approvals'[b] = None <=> approvals[b] = None
    BY <1>4, <2>1, IntentType DEF ResolveInPaperclip, Pending
  <2>. QED
    BY <1>4, <2>2, IntentSafe DEF ResolveInPaperclip, Pending
<1>5. CASE AskPaperclip(a)
  BY <1>5, FrameSafe DEF AskPaperclip
<1>6. CASE \E applied \in BOOLEAN : AskFails(a, applied)
  BY <1>6, FrameSafe DEF AskFails
<1>7. CASE ConfirmDecision(a)
  <2>1. [decision |-> run[a].decision, confirmed |-> TRUE] \in Externals
    BY <1>7, RunDecision DEF ConfirmDecision, Externals
  <2>2. \A b \in Tasks : approvals'[b] = None <=> approvals[b] = None
    BY <1>7, <1>k, <2>1, IntentType DEF ConfirmDecision
  <2>. QED
    BY <1>7, <1>k, <2>2, IntentSafe DEF ConfirmDecision
<1>8. CASE CommitDecision(a)
  <2>. DEFINE decision == run[a].decision
              new == Outcome(a, decision, "governance_approved")
              known == [approvals EXCEPT ![a].status = Decided(decision)]
  <2>1. CASE UNCHANGED <<approvals, tasks, callers>>
    BY <1>8, <2>1, FrameSafe DEF CommitDecision
  <2>2. CASE /\ ApprovalStepAllowed(approvals[a].status, Decided(decision))
             /\ AllowedStep(a, tasks[a], new, known)
             /\ approvals' = known
             /\ Write(a, new)
             /\ callers' = CallAfter(a, decision, "paperclip_resume")
    <3>1. /\ Exists(a)
          /\ approvals[a] \in ApprovalRecords
          /\ tasks[a] \in TaskRecords
          /\ a \in early \/ intake[a] \notin {"none", "guard", "approve"}
          /\ UNCHANGED <<live, intake, early>>
      BY <1>8, <1>k, <1>i DEF CommitDecision, TypeOK, Exists
    <3>2. /\ approvals'[a].status = Decided(decision)
          /\ \A b \in Tasks : b # a => approvals'[b] = approvals[b]
      BY <2>2, <3>1 DEF TypeOK, ApprovalRecords
    <3>3. /\ tasks'[a] = new
          /\ \A b \in Tasks : b # a => tasks'[b] = tasks[b]
      BY <2>2 DEF Write, TypeOK
    <3>4. /\ new.approvalRefs = tasks[a].approvalRefs
          /\ new.attempt = tasks[a].attempt
          /\ new.status = IF decision = "approve" THEN "queued" ELSE "cancelled"
      BY <3>1, PatchKeeps DEF Outcome
    <3>5. \A c \in callers' : c \in callers \/ c[1] = a
      BY <2>2 DEF CallAfter
    <3>6. \A b \in Tasks : approvals'[b] = None <=> approvals[b] = None
      BY <1>8, <1>k, <2>2, RunDecision, DecideType DEF CommitDecision
    <3>7. CASE decision = "approve"
      <4>1. tasks[a].status \notin {"running"} \cup TerminalStatuses
        BY <2>2, <3>1, <3>4, <3>7, NotRequeued DEF TaskRecords
      <4>2. a \in early \/ live[a] = 0
        BY <4>1 DEF Safe, Executed, TypeOK
      <4>3. approvals'[a].status = "approved"
        BY <3>2, <3>7 DEF Decided
      <4>. HIDE DEF new, known, decision
      <4>. QED
        BY <3>1, <3>2, <3>3, <3>4, <3>5, <3>6, <4>2, <4>3
        DEF Safe, Creating, Executed, Gate, OwnApproval, Exists
    <3>8. CASE decision # "approve"
      <4>1. /\ approvals'[a].status = "rejected"
            /\ approvals[a].status # "approved"
        BY <2>2, <3>2, <3>8 DEF Decided, ApprovalStepAllowed
      <4>2. /\ a \in early \/ live[a] = 0
            /\ new.status \in TerminalStatuses
        BY <1>8, <1>k, <3>4, <3>8, <4>1
        DEF CommitDecision, Safe, Gate, TerminalStatuses
      <4>. HIDE DEF new, known, decision
      <4>. QED
        BY <3>1, <3>2, <3>3, <3>4, <3>5, <3>6, <4>1, <4>2
        DEF Safe, Creating, Executed, Gate, OwnApproval, Exists
    <3>. QED
      BY <3>7, <3>8
  <2>. QED
    BY <1>8, <2>1, <2>2 DEF CommitDecision
<1>9. ASSUME NEW d \in Decisions, RepeatDecision(a, d)
      PROVE  Safe'
  <2>1. Exists(a) /\ (a \in early \/ intake[a] \notin {"none", "guard", "approve"})
    BY <1>9, <1>i DEF RepeatDecision
  <2>2. CASE d = "reject"
    <3>1. Outcome(a, d, "governance_approved") = Patch(a, "cancelled", "settled")
      BY <2>2 DEF Outcome
    <3>2. UNCHANGED tasks \/ Write(a, Patch(a, "cancelled", "settled"))
      BY <1>9, <2>2, <3>1 DEF RepeatDecision, WriteOrThrow
    <3>. QED
      BY <1>9, <2>1, <2>2, <3>2, CloseSafe DEF RepeatDecision, TerminalStatuses
  <2>3. CASE d = "approve"
    <3>1. Outcome(a, d, "governance_approved")
            = Patch(a, "queued", "governance_approved")
      BY <2>3 DEF Outcome
    <3>2. \A c \in callers' : c \in callers \/ c[1] = a
      BY <1>9, <2>3 DEF RepeatDecision, CallAfter
    <3>. QED
      BY <1>9, <2>1, <2>3, <3>1, <3>2, RequeueSafe DEF RepeatDecision
  <2>. QED
    BY <2>2, <2>3 DEF Decisions
<1>. QED
  BY <1>1, <1>2, <1>3, <1>4, <1>5, <1>6, <1>7, <1>8, <1>9 DEF RunNext

LEMMA ExpirySafe ==
  ASSUME TypeInv, Safe, ExpiryNext
  PROVE  Safe'
<1>. USE DEF TypeInv
<1>1. CASE \E a \in Tasks : ExpireStart(a)
  BY <1>1, FrameSafe DEF ExpireStart
<1>2. CASE ExpireWrite
  <2>. DEFINE a == expiry.approval
  <2>1. a \in Tasks /\ approvals[a] # None
    BY <1>2 DEF ExpireWrite, TypeOK, Known, Passes
  <2>2. CASE UNCHANGED approvals
    BY <1>2, <2>2, FrameSafe DEF ExpireWrite
  <2>3. "expired" \in ApprovalStatuses \ {"superseded"}
    BY DEF ApprovalStatuses
  <2>. QED
    BY <1>2, <2>1, <2>2, <2>3, DecideSafe DEF ExpireWrite
<1>3. CASE ExpireLook
  BY <1>3, FrameSafe DEF ExpireLook
<1>4. CASE ExpireClose
  <2>. DEFINE a == expiry.approval
  <2>1. a \in Tasks /\ Exists(a)
    BY <1>4 DEF ExpireClose, TypeOK, Known, Passes
  <2>2. UNCHANGED tasks \/ Write(a, Patch(a, "cancelled", "settled"))
    BY <1>4 DEF ExpireClose, WriteOrThrow
  <2>. QED
    BY <1>4, <2>1, <2>2, CloseSafe DEF ExpireClose, TerminalStatuses
<1>. QED
  BY <1>1, <1>2, <1>3, <1>4 DEF ExpiryNext

LEMMA RestartSafe ==
  ASSUME TypeInv, Safe, RecoveryNext \/ EnvironmentNext
  PROVE  Safe'
<1>. USE DEF TypeInv
<1>1. CASE RecoveryList
  BY <1>1, FrameSafe DEF RecoveryList
<1>2. ASSUME NEW t \in Tasks, RecoverTask(t)
      PROVE  Safe'
  <2>1. CASE UNCHANGED tasks
    BY <1>2, <2>1, FrameSafe DEF RecoverTask
  <2>2. CASE /\ Interrupted(t)
             /\ Write(t, Patch(t, "waiting_test", "local_execution_interrupted"))
    BY <1>2, <2>2, CloseSafe
    DEF RecoverTask, Interrupted, Running, TerminalStatuses
  <2>. QED
    BY <1>2, <2>1, <2>2 DEF RecoverTask, WriteOrThrow
<1>3. CASE \/ \E a \in Tasks : Lapse(a)
           \/ \E a \in Tasks, d \in Decisions : PaperclipDecides(a, d)
  BY <1>3, FrameSafe DEF Lapse, PaperclipDecides
<1>4. CASE Crash
  <2>1. \A t \in Tasks : intake'[t] \in {"none", "guard", "approve"}
                          => intake[t] = "none"
    BY <1>4 DEF Crash
  <2>. QED
    BY <1>4, <2>1
    DEF Crash, store, Safe, Creating, Executed, Gate, OwnApproval, Exists
<1>. QED
  BY <1>1, <1>2, <1>3, <1>4 DEF RecoveryNext, EnvironmentNext

\* The inductive invariant: what the handlers know, what Paperclip knows, and
\* what keeps a task from being executed too early or twice.
IInv == TypeInv /\ Linked /\ Safe

LEMMA IInvInductive == Spec => []IInv
<1>1. Init => IInv
  BY InitTypeInv, InitSafe DEF IInv
<1>2. IInv /\ [Next]_vars => IInv'
  <2>. SUFFICES ASSUME IInv, [Next]_vars
                PROVE  IInv'
    OBVIOUS
  <2>. USE DEF IInv
  <2>1. CASE Next
    <3>1. TypeInv' /\ Linked'
      BY <2>1, LinkedStep, IntakeTypeInv, RunTypeInv, ExecutionTypeInv,
         ExpiryTypeInv, RestartTypeInv DEF Next
    <3>2. Safe'
      BY <2>1, IntakeSafe, RunSafe, ExecutionSafe, ExpirySafe, RestartSafe
      DEF Next
    <3>. QED
      BY <3>1, <3>2
  <2>2. CASE UNCHANGED vars
    <3>1. TypeInv' /\ Linked'
      BY <2>2 DEF vars, TypeInv, TypeOK, Known, Linked, Exists
    <3>2. Safe'
      BY <2>2, FrameSafe DEF vars
    <3>. QED
      BY <3>1, <3>2
  <2>. QED
    BY <2>1, <2>2
<1>. QED
  BY <1>1, <1>2, PTL DEF Spec

\* claimTaskExecution and the lifecycle together: whoever calls executeTask,
\* in whatever order and over whatever restarts, a task is being executed by
\* one executor at most, unless it was answered while its creation was under
\* way.
THEOREM OneExecutorAlways == Spec => []OneExecutor
<1>1. IInv => OneExecutor
  BY DEF IInv, Safe, Executed, OneExecutor
<1>. QED
  BY <1>1, IInvInductive, PTL

\* With the same exception no executor works on a task whose approval is
\* undecided, rejected or expired.
THEOREM GateAlwaysHeld == Spec => []GateHeld
<1>1. IInv => GateHeld
  BY DEF IInv, Safe, Gate, GateHeld
<1>. QED
  BY <1>1, IInvInductive, PTL

-----------------------------------------------------------------------------
(* Decisions: what a decided approval and its task say of each other *)

\* A step that puts no task into waiting_approval, and brings none back that
\* was cancelled.
NoNewWait ==
  \A u \in Tasks :
    /\ Waiting(u)'
         => Waiting(u) /\ tasks'[u].approvalRefs = tasks[u].approvalRefs
    /\ Exists(u) /\ tasks[u].status = "cancelled"
         => tasks'[u].status = "cancelled"

\* TRANSITIONS: a cancelled task stays cancelled within its attempt.
LEMMA CancelledStays ==
  ASSUME NEW t, NEW old, NEW new, NEW known,
         old.attempt \in Nat, new.attempt = old.attempt,
         old.status = "cancelled", AllowedStep(t, old, new, known)
  PROVE  new.status = "cancelled"
<1>1. ~RetryAllowed(old, new)
  BY DEF RetryAllowed
<1>2. Transitions["cancelled"] = {}
  BY DEF Transitions
<1>. QED
  BY <1>1, <1>2 DEF AllowedStep, TransitionAllowed

LEMMA WriteNoWait ==
  ASSUME TypeOK, NEW t \in Tasks, Exists(t), NEW new, NEW known,
         AllowedStep(t, tasks[t], new, known), Write(t, new),
         new.attempt = tasks[t].attempt,
         new.status # "waiting_approval"
  PROVE  NoNewWait
<1>1. tasks[t].attempt \in Nat
  BY DEF TypeOK, TaskRecords, Exists
<1>2. tasks[t].status = "cancelled" => new.status = "cancelled"
  BY <1>1, CancelledStays
<1>3. tasks'[t] = new /\ \A u \in Tasks : u # t => tasks'[u] = tasks[u]
  BY DEF Write, TypeOK
<1>. QED
  BY <1>2, <1>3 DEF NoNewWait, Waiting, Exists

LEMMA PatchNoWait ==
  ASSUME TypeOK, NEW t \in Tasks, Exists(t), NEW status, NEW stage,
         status # "waiting_approval",
         \/ UNCHANGED tasks
         \/ WriteOrThrow(t, Patch(t, status, stage))
         \/ Accepts(t, Patch(t, status, stage)) /\ Write(t, Patch(t, status, stage))
  PROVE  NoNewWait
<1>1. CASE UNCHANGED tasks
  BY <1>1 DEF NoNewWait, Waiting, Exists
<1>2. CASE /\ Accepts(t, Patch(t, status, stage))
           /\ Write(t, Patch(t, status, stage))
  BY <1>2, PatchKeeps, WriteNoWait DEF Accepts
<1>. QED
  BY <1>1, <1>2 DEF WriteOrThrow

\* Only createRequiredApproval makes a task wait.
LEMMA IntakeNoWait ==
  ASSUME TypeInv, NEW t \in Tasks, IntakeNext(t), ~RequireApproval(t)
  PROVE  NoNewWait
<1>. USE DEF TypeInv
<1>1. CASE \E status \in {"queued", "needs_input"} : CreateTask(t, status)
  <2>1. PICK status \in {"queued", "needs_input"} : CreateTask(t, status)
    BY <1>1
  <2>2. /\ tasks'[t].status # "waiting_approval"
        /\ \A u \in Tasks : u # t => tasks'[u] = tasks[u]
        /\ ~Exists(t)
    BY <2>1 DEF CreateTask, Write, TypeOK
  <2>. QED
    BY <2>2 DEF NoNewWait, Waiting, Exists
<1>2. CASE AskForBrief(t)
  BY <1>2, PatchNoWait DEF AskForBrief, Known
<1>3. CASE UNCHANGED tasks
  BY <1>3 DEF NoNewWait, Waiting, Exists
<1>4. CASE \E answered \in BOOLEAN : LinkTask(t, answered)
  <2>1. PICK answered \in BOOLEAN : LinkTask(t, answered)
    BY <1>4
  <2>2. tasks[t] \in TaskRecords /\ Exists(t)
    BY <2>1 DEF LinkTask, TypeOK, Known, Exists
  <2>3. /\ tasks'[t].status = tasks[t].status
        /\ tasks'[t].approvalRefs = tasks[t].approvalRefs
        /\ \A u \in Tasks : u # t => tasks'[u] = tasks[u]
    BY <2>1, <2>2 DEF LinkTask, Write, TypeOK, TaskRecords
  <2>. QED
    BY <2>2, <2>3 DEF NoNewWait, Waiting, Exists
<1>5. CASE ProvideInput(t)
  BY <1>5, PatchNoWait DEF ProvideInput
<1>. QED
  BY <1>1, <1>2, <1>3, <1>4, <1>5
  DEF IntakeNext, AcceptBrief, ProjectGovernance

LEMMA RunNoWait ==
  ASSUME TypeInv, NEW a \in Tasks, RunNext(a)
  PROVE  NoNewWait
<1>. USE DEF TypeInv
<1>k. run[a] # None => Exists(a)
  BY DEF Known
<1>1. CASE UNCHANGED tasks
  BY <1>1 DEF NoNewWait, Waiting, Exists
<1>2. CASE MoveTask(a)
  BY <1>2, <1>k, PatchNoWait DEF MoveTask, Outcome
<1>3. CASE CommitDecision(a)
  <2>. DEFINE new == Outcome(a, run[a].decision, "governance_approved")
  <2>1. /\ new.status # "waiting_approval"
        /\ new.attempt = tasks[a].attempt
    BY <1>3, <1>k, PatchKeeps DEF CommitDecision, Outcome
  <2>. HIDE DEF new
  <2>. QED
    BY <1>1, <1>3, <1>k, <2>1, WriteNoWait DEF CommitDecision, new
<1>4. ASSUME NEW d \in Decisions, RepeatDecision(a, d)
      PROVE  NoNewWait
  <2>1. \E status \in {"queued", "cancelled"}, stage \in Stages :
          Outcome(a, d, "governance_approved") = Patch(a, status, stage)
    BY DEF Outcome, Stages
  <2>2. Exists(a)
    BY <1>4 DEF RepeatDecision
  <2>. QED
    BY <1>4, <2>1, <2>2, PatchNoWait DEF RepeatDecision
<1>. QED
  BY <1>1, <1>2, <1>3, <1>4
  DEF RunNext, DecideLocally, RecordDecision, ResolveInPaperclip,
      AskPaperclip, AskFails, ConfirmDecision

LEMMA OtherNoWait ==
  ASSUME TypeInv,
         \/ ExecutionNext
         \/ ExpiryNext
         \/ RecoveryNext
         \/ EnvironmentNext
  PROVE  NoNewWait
<1>. USE DEF TypeInv
<1>1. CASE UNCHANGED tasks
  BY <1>1 DEF NoNewWait, Waiting, Exists
<1>2. ASSUME NEW c \in callers, Claim(c)
      PROVE  NoNewWait
  <2>. DEFINE t == c[1]
              new == [tasks[t] EXCEPT !.status = "running",
                                      !.stage = "starting",
                                      !.started = boot]
  <2>1. t \in Tasks /\ Exists(t) /\ tasks[t] \in TaskRecords
    BY DEF TypeOK, Known, Exists
  <2>2. new.status = "running" /\ new.attempt = tasks[t].attempt
    BY <2>1 DEF TaskRecords
  <2>3. UNCHANGED tasks \/ (Accepts(t, new) /\ Write(t, new))
    BY <1>2 DEF Claim
  <2>. HIDE DEF new
  <2>. QED
    BY <1>1, <2>1, <2>2, <2>3, WriteNoWait DEF Accepts
<1>3. ASSUME NEW c \in callers, NoExecutor(c)
      PROVE  NoNewWait
  <2>1. c[1] \in Tasks /\ Exists(c[1])
    BY DEF TypeOK, Known
  <2>. QED
    BY <1>3, <2>1, PatchNoWait DEF NoExecutor
<1>4. ASSUME NEW t \in Tasks, NEW status \in TaskStatuses, Finish(t, status)
      PROVE  NoNewWait
  <2>1. Exists(t) /\ status # "waiting_approval"
    BY <1>4 DEF Finish, Known
  <2>. QED
    BY <1>4, <2>1, PatchNoWait DEF Finish
<1>5. CASE ExpireClose
  <2>1. expiry.approval \in Tasks /\ Exists(expiry.approval)
    BY <1>5 DEF ExpireClose, TypeOK, Known, Passes
  <2>. QED
    BY <1>5, <2>1, PatchNoWait DEF ExpireClose
<1>6. ASSUME NEW t \in Tasks, RecoverTask(t)
      PROVE  NoNewWait
  BY <1>1, <1>6, PatchNoWait DEF RecoverTask, Interrupted, Running
<1>. QED
  BY <1>1, <1>2, <1>3, <1>4, <1>5, <1>6
  DEF ExecutionNext, ExpiryNext, RecoveryNext, EnvironmentNext, ExpireStart,
      ExpireWrite, ExpireLook, RecoveryList, Lapse, PaperclipDecides, Crash,
      store

\* What is known of Paperclip's decision: there is none before the approval is
\* registered, and what a run past its question, or a confirmed intent, holds
\* is what Paperclip holds.  A local run is never about a Paperclip approval.
Governed ==
  \A a \in Tasks :
    /\ intake[a] \in {"none", "guard", "approve", "project"}
         => paperclip[a] = "absent"
    /\ (run[a] # None /\ run[a].pc \in {"confirm", "commit"})
         => paperclip[a] = run[a].decision
    /\ (run[a] # None /\ run[a].pc \in {"decide", "move"})
         => Risk[a] # "paperclip"
    /\ (approvals[a] # None /\ approvals[a].external.confirmed)
         => paperclip[a] = approvals[a].external.decision

\* A decision Paperclip holds is kept, and everything Governed looks at is
\* unchanged or gone.
LEMMA GovernedFrame ==
  ASSUME Governed, PaperclipAuthority,
         UNCHANGED <<approvals, paperclip>>,
         \A a \in Tasks : run'[a] = run[a] \/ run'[a] = None,
         \A a \in Tasks :
           intake'[a] \in {"none", "guard", "approve", "project"}
             => intake[a] \in {"none", "guard", "approve", "project"}
  PROVE  (Governed /\ PaperclipAuthority)'
BY DEF Governed, PaperclipAuthority

\* A step of Paperclip's: it takes a decision where it had none.
LEMMA PaperclipKeeps ==
  ASSUME Governed, PaperclipAuthority, NEW a \in Tasks, TypeOK,
         paperclip[a] = "pending" \/ UNCHANGED paperclip,
         NEW d \in Decisions,
         paperclip' = paperclip \/ paperclip' = [paperclip EXCEPT ![a] = d],
         UNCHANGED <<approvals, intake>>,
         \A b \in Tasks : run'[b] = run[b] \/ run'[b] = None
  PROVE  (Governed /\ PaperclipAuthority)'
<1>1. CASE UNCHANGED paperclip
  BY <1>1, GovernedFrame
<1>2. CASE /\ paperclip[a] = "pending"
           /\ paperclip' = [paperclip EXCEPT ![a] = d]
  <2>1. \A b \in Tasks : b # a => paperclip'[b] = paperclip[b]
    BY <1>2 DEF TypeOK
  <2>2. /\ run[a] # None => run[a].decision # "pending"
        /\ approvals[a] # None => approvals[a].external.decision # "pending"
    BY DEF TypeOK, Runs, ApprovalRecords, Externals, Decisions
  <2>. QED
    BY <1>2, <2>1, <2>2 DEF Governed, PaperclipAuthority, Decisions
<1>. QED
  BY <1>1, <1>2

LEMMA GovernedStep ==
  ASSUME TypeInv, Linked, Governed, PaperclipAuthority, Next
  PROVE  (Governed /\ PaperclipAuthority)'
<1>. USE DEF TypeInv
<1>f. ASSUME UNCHANGED <<approvals, paperclip, run, intake>>
      PROVE  (Governed /\ PaperclipAuthority)'
  BY <1>f, GovernedFrame
<1>1. ASSUME NEW t \in Tasks, IntakeNext(t)
      PROVE  (Governed /\ PaperclipAuthority)'
  <2>1. CASE RequireApproval(t)
    <3>1. \A u \in Tasks : intake'[u] \in {"none", "guard", "approve", "project"}
            => intake[u] \in {"none", "guard", "approve", "project"}
      BY <1>1, <2>1 DEF RequireApproval, TypeOK
    <3>2. \A u \in Tasks :
            \/ approvals'[u] = approvals[u]
            \/ /\ approvals'[u].status = "pending"
               /\ ~approvals'[u].external.confirmed
      BY <2>1 DEF RequireApproval, NewApproval, NoExternal, TypeOK
    <3>. QED
      BY <2>1, <3>1, <3>2
      DEF RequireApproval, Governed, PaperclipAuthority, Decided, Decisions
  <2>2. CASE \E reached \in BOOLEAN : ProjectGovernance(t, reached)
    <3>1. PICK reached \in BOOLEAN : ProjectGovernance(t, reached)
      BY <2>2
    <3>2. /\ paperclip[t] = "absent"
          /\ intake'[t] = "link"
          /\ \A u \in Tasks : u # t => /\ intake'[u] = intake[u]
                                       /\ paperclip'[u] = paperclip[u]
      BY <3>1 DEF ProjectGovernance, Governed, TypeOK
    <3>3. /\ run[t] # None => run[t].decision # "absent"
          /\ approvals[t] # None => approvals[t].external.decision # "absent"
      BY DEF TypeOK, Runs, ApprovalRecords, Externals, Decisions
    <3>. QED
      BY <3>1, <3>2, <3>3
      DEF ProjectGovernance, Governed, PaperclipAuthority, Decisions
  <2>3. CASE \E status \in {"queued", "needs_input"} : CreateTask(t, status)
    BY <2>3, GovernedFrame DEF CreateTask, TypeOK
  <2>4. CASE AskForBrief(t)
    BY <2>4, GovernedFrame DEF AskForBrief, TypeOK
  <2>5. CASE AcceptBrief(t)
    BY <2>5, GovernedFrame DEF AcceptBrief, TypeOK
  <2>6. CASE \E answered \in BOOLEAN : LinkTask(t, answered)
    BY <2>6, GovernedFrame DEF LinkTask, TypeOK
  <2>7. CASE ProvideInput(t)
    BY <2>7, <1>f DEF ProvideInput
  <2>. QED
    BY <1>1, <2>1, <2>2, <2>3, <2>4, <2>5, <2>6, <2>7 DEF IntakeNext
<1>2. ASSUME NEW a \in Tasks, RunNext(a)
      PROVE  (Governed /\ PaperclipAuthority)'
  <2>r. run[a] # None => approvals[a] # None /\ run[a] \in Runs
    BY DEF Known, TypeOK
  <2>a. approvals[a] # None => approvals[a] \in ApprovalRecords
    BY DEF TypeOK
  <2>1. ASSUME NEW d \in Decisions, DecideLocally(a, d)
        PROVE  (Governed /\ PaperclipAuthority)'
    <3>1. /\ run'[a].pc = "decide"
          /\ \A b \in Tasks : b # a => run'[b] = run[b]
      BY <2>1 DEF DecideLocally, StartRun, TypeOK
    <3>. QED
      BY <2>1, <3>1 DEF DecideLocally, Governed, PaperclipAuthority
  <2>2. CASE RecordDecision(a)
    <3>1. Risk[a] # "paperclip"
      BY <2>2 DEF RecordDecision, Governed
    <3>2. /\ run'[a] = None \/ run'[a].pc = "move"
          /\ \A b \in Tasks : b # a => run'[b] = run[b]
      BY <2>2, <2>r DEF RecordDecision, Advance, EndRun, TypeOK, Runs
    <3>3. /\ \A b \in Tasks : approvals'[b] = None <=> approvals[b] = None
          /\ \A b \in Tasks : b # a => approvals'[b] = approvals[b]
          /\ approvals'[a].external = approvals[a].external
      BY <2>2, <2>r, <2>a, RunDecision, DecideType
      DEF RecordDecision, TypeOK, ApprovalRecords
    <3>. QED
      BY <2>2, <3>1, <3>2, <3>3
      DEF RecordDecision, Governed, PaperclipAuthority
  <2>3. CASE MoveTask(a)
    BY <2>3, GovernedFrame DEF MoveTask, EndRun, TypeOK
  <2>4. ASSUME NEW d \in Decisions, ResolveInPaperclip(a, d)
        PROVE  (Governed /\ PaperclipAuthority)'
    <3>. DEFINE old == approvals[a].external
    <3>1. /\ approvals[a] # None
          /\ old \in Externals
          /\ old.decision \in {"none", d}
          /\ Risk[a] = "paperclip"
      BY <2>4, <2>a DEF ResolveInPaperclip, Pending, ApprovalRecords
    <3>2. [old EXCEPT !.decision = d] \in Externals
      BY <3>1 DEF Externals
    <3>3. /\ \A b \in Tasks : approvals'[b] = None <=> approvals[b] = None
          /\ \A b \in Tasks : b # a => approvals'[b] = approvals[b]
          /\ approvals'[a].status = approvals[a].status
          /\ approvals'[a].external = [old EXCEPT !.decision = d]
      BY <2>4, <2>a, <3>1, <3>2, IntentType
      DEF ResolveInPaperclip, TypeOK, ApprovalRecords
    <3>4. /\ [old EXCEPT !.decision = d].decision = d
          /\ [old EXCEPT !.decision = d].confirmed = old.confirmed
      BY <3>1 DEF Externals
    <3>5. old.confirmed => paperclip[a] = d
      <4>1. old.confirmed => old.decision = d
        BY <3>1 DEF Externals, Decisions
      <4>. QED
        BY <3>1, <4>1 DEF Governed
    <3>6. /\ run'[a].pc = IF old.confirmed THEN "commit" ELSE "ask"
          /\ run'[a].decision = d
          /\ \A b \in Tasks : b # a => run'[b] = run[b]
      BY <2>4 DEF ResolveInPaperclip, StartRun, TypeOK
    <3>7. UNCHANGED <<paperclip, intake>>
      BY <2>4 DEF ResolveInPaperclip
    <3>. HIDE DEF old
    <3>8. ASSUME NEW b \in Tasks, b # a
          PROVE  /\ intake'[b] = intake[b]
                 /\ run'[b] = run[b]
                 /\ approvals'[b] = approvals[b]
                 /\ paperclip'[b] = paperclip[b]
      BY <3>8, <3>3, <3>6, <3>7
    <3>9. PaperclipAuthority'
      BY <3>3, <3>7, <3>8 DEF PaperclipAuthority
    <3>10. /\ approvals'[a].external.confirmed => paperclip'[a] = d
           /\ approvals'[a].external.decision = d
           /\ run'[a].pc = "commit" => paperclip'[a] = d
           /\ run'[a].pc \in {"ask", "commit"}
      BY <3>3, <3>4, <3>5, <3>6, <3>7
    <3>11. Governed'
      BY <3>6, <3>7, <3>8, <3>10 DEF Governed
    <3>. QED
      BY <3>9, <3>11
  <2>5. CASE AskPaperclip(a)
    <3>1. /\ paperclip[a] # "absent"
          /\ paperclip[a] \in PaperclipState
          /\ run[a].decision \in Decisions
      BY <2>5, RunDecision DEF AskPaperclip, Linked, TypeOK
    <3>2. /\ paperclip'[a] \in Decisions
          /\ paperclip[a] \in Decisions => paperclip'[a] = paperclip[a]
          /\ \A b \in Tasks : b # a => paperclip'[b] = paperclip[b]
      BY <2>5, <3>1 DEF AskPaperclip, TypeOK, PaperclipState, Decisions
    <3>3. /\ run'[a].decision = paperclip'[a]
          /\ run'[a].pc = "confirm"
          /\ \A b \in Tasks : b # a => run'[b] = run[b]
      BY <2>5 DEF AskPaperclip, StartRun, TypeOK
    <3>4. approvals[a].external.confirmed => paperclip[a] \in Decisions
      <4>1. approvals[a].external \in Externals
        BY <2>5, <2>r, <2>a DEF AskPaperclip, ApprovalRecords
      <4>2. approvals[a].external.confirmed
              => approvals[a].external.decision \in Decisions
        BY <4>1 DEF Externals
      <4>. QED
        BY <2>5, <2>r, <4>2 DEF AskPaperclip, Governed
    <3>5. UNCHANGED <<approvals, intake>>
      BY <2>5 DEF AskPaperclip
    <3>6. Governed'
      BY <3>1, <3>2, <3>3, <3>4, <3>5 DEF Governed
    <3>7. PaperclipAuthority'
      BY <3>2, <3>5 DEF PaperclipAuthority
    <3>. QED
      BY <3>6, <3>7
  <2>6. ASSUME NEW applied \in BOOLEAN, AskFails(a, applied)
        PROVE  (Governed /\ PaperclipAuthority)'
    <3>1. run[a].decision \in Decisions
      BY <2>6, RunDecision DEF AskFails
    <3>2. \A b \in Tasks : run'[b] = run[b] \/ run'[b] = None
      BY <2>6 DEF AskFails, EndRun, TypeOK
    <3>3. /\ paperclip[a] = "pending" \/ UNCHANGED paperclip
          /\ \/ paperclip' = paperclip
             \/ paperclip' = [paperclip EXCEPT ![a] = run[a].decision]
          /\ UNCHANGED <<approvals, intake>>
      BY <2>6 DEF AskFails
    <3>. QED
      BY <3>1, <3>2, <3>3, PaperclipKeeps
  <2>7. CASE ConfirmDecision(a)
    <3>. DEFINE new == [decision |-> run[a].decision, confirmed |-> TRUE]
    <3>1. /\ approvals[a] # None
          /\ new \in Externals
          /\ paperclip[a] = run[a].decision
      BY <2>7, <2>r, RunDecision DEF ConfirmDecision, Externals, Governed
    <3>2. /\ \A b \in Tasks : approvals'[b] = None <=> approvals[b] = None
          /\ \A b \in Tasks : b # a => approvals'[b] = approvals[b]
          /\ approvals'[a].status = approvals[a].status
          /\ approvals'[a].external.decision = run[a].decision
      BY <2>7, <2>a, <3>1, IntentType
      DEF ConfirmDecision, TypeOK, ApprovalRecords
    <3>3. /\ run'[a].pc = "commit"
          /\ run'[a].decision = run[a].decision
          /\ \A b \in Tasks : b # a => run'[b] = run[b]
      BY <2>7, <2>r DEF ConfirmDecision, Advance, TypeOK, Runs
    <3>4. UNCHANGED <<paperclip, intake>>
      BY <2>7 DEF ConfirmDecision
    <3>. HIDE DEF new
    <3>. QED
      BY <3>1, <3>2, <3>3, <3>4 DEF Governed, PaperclipAuthority
  <2>8. CASE CommitDecision(a)
    <3>1. /\ approvals[a] # None
          /\ paperclip[a] = run[a].decision
          /\ run[a].decision \in Decisions
      BY <2>8, <2>r, RunDecision DEF CommitDecision, Governed
    <3>2. \A b \in Tasks : run'[b] = run[b] \/ run'[b] = None
      BY <2>8 DEF CommitDecision, EndRun, TypeOK
    <3>3. UNCHANGED <<paperclip, intake>>
      BY <2>8 DEF CommitDecision
    <3>4. CASE UNCHANGED approvals
      BY <3>2, <3>3, <3>4, GovernedFrame
    <3>5. CASE approvals' = [approvals EXCEPT ![a].status = Decided(run[a].decision)]
      <4>1. /\ \A b \in Tasks : approvals'[b] = None <=> approvals[b] = None
            /\ \A b \in Tasks : b # a => approvals'[b] = approvals[b]
            /\ approvals'[a].status = Decided(run[a].decision)
            /\ approvals'[a].external = approvals[a].external
        BY <2>8, <2>a, <3>1, <3>5, RunDecision, DecideType
        DEF CommitDecision, TypeOK, ApprovalRecords
      <4>2. \A d \in Decisions : Decided(d) = Decided(run[a].decision)
                                   => d = run[a].decision
        BY <3>1 DEF Decided, Decisions
      <4>3. PaperclipAuthority'
        BY <3>1, <3>3, <4>1, <4>2 DEF PaperclipAuthority
      <4>4. Governed'
        BY <3>2, <3>3, <4>1 DEF Governed
      <4>. QED
        BY <4>3, <4>4
    <3>. QED
      BY <2>8, <3>4, <3>5 DEF CommitDecision
  <2>9. CASE \E d \in Decisions : RepeatDecision(a, d)
    BY <2>9, <1>f DEF RepeatDecision
  <2>. QED
    BY <1>2, <2>1, <2>2, <2>3, <2>4, <2>5, <2>6, <2>7, <2>8, <2>9 DEF RunNext
<1>3. CASE ExecutionNext
  BY <1>3, <1>f DEF ExecutionNext, Claim, NoExecutor, Finish
<1>4. CASE ExpiryNext
  <2>1. CASE ExpireWrite
    <3>. DEFINE a == expiry.approval
    <3>1. /\ a \in Tasks
          /\ approvals[a] # None
          /\ approvals[a] \in ApprovalRecords
      BY <2>1 DEF ExpireWrite, TypeOK, Known, Passes
    <3>2. CASE UNCHANGED approvals
      BY <2>1, <3>2, <1>f DEF ExpireWrite
    <3>3. CASE approvals' = [approvals EXCEPT ![a].status = "expired"]
      <4>1. /\ \A b \in Tasks : approvals'[b] = None <=> approvals[b] = None
            /\ \A b \in Tasks : b # a => approvals'[b] = approvals[b]
            /\ approvals'[a].status = "expired"
            /\ approvals'[a].external = approvals[a].external
        BY <3>1, <3>3, DecideType DEF TypeOK, ApprovalRecords, ApprovalStatuses
      <4>2. UNCHANGED <<paperclip, intake, run>>
        BY <2>1 DEF ExpireWrite
      <4>. HIDE DEF a
      <4>. QED
        BY <3>1, <4>1, <4>2 DEF Governed, PaperclipAuthority, Decided, Decisions
    <3>. QED
      BY <2>1, <3>2, <3>3 DEF ExpireWrite
  <2>. QED
    BY <1>4, <2>1, <1>f DEF ExpiryNext, ExpireStart, ExpireLook, ExpireClose
<1>5. CASE RecoveryNext
  BY <1>5, <1>f DEF RecoveryNext, RecoveryList, RecoverTask
<1>6. CASE EnvironmentNext
  <2>1. CASE \E a \in Tasks : Lapse(a)
    BY <2>1, <1>f DEF Lapse
  <2>2. ASSUME NEW a \in Tasks, NEW d \in Decisions, PaperclipDecides(a, d)
        PROVE  (Governed /\ PaperclipAuthority)'
    BY <2>2, PaperclipKeeps DEF PaperclipDecides
  <2>3. CASE Crash
    BY <2>3, GovernedFrame DEF Crash, store
  <2>. QED
    BY <1>6, <2>1, <2>2, <2>3 DEF EnvironmentNext
<1>. QED
  BY <1>1, <1>2, <1>3, <1>4, <1>5, <1>6 DEF Next

\* Whatever button was pressed, whatever call was lost and however often the
\* process was restarted: the runtime holds no decision on an organisation-
\* level approval but the one Paperclip holds.  Early answers do not matter.
THEOREM PaperclipDecidesAlways == Spec => []PaperclipAuthority
<1>1. Init => TypeInv /\ Linked /\ Governed /\ PaperclipAuthority
  <2>1. Init => Governed /\ PaperclipAuthority
    BY DEF Init, Governed, PaperclipAuthority
  <2>. QED
    BY <2>1, InitTypeInv
<1>2. TypeInv /\ Linked /\ Governed /\ PaperclipAuthority /\ [Next]_vars
        => (TypeInv /\ Linked /\ Governed /\ PaperclipAuthority)'
  <2>. SUFFICES ASSUME TypeInv, Linked, Governed, PaperclipAuthority,
                       [Next]_vars
                PROVE  (TypeInv /\ Linked /\ Governed /\ PaperclipAuthority)'
    OBVIOUS
  <2>1. CASE Next
    BY <2>1, GovernedStep, LinkedStep, IntakeTypeInv, RunTypeInv,
       ExecutionTypeInv, ExpiryTypeInv, RestartTypeInv DEF Next
  <2>2. CASE UNCHANGED vars
    <3>1. (TypeInv /\ Linked)'
      BY <2>2 DEF vars, TypeInv, TypeOK, Known, Linked, Exists
    <3>2. (Governed /\ PaperclipAuthority)'
      BY <2>2, GovernedFrame DEF vars
    <3>. QED
      BY <3>1, <3>2
  <2>. QED
    BY <2>1, <2>2
<1>. QED
  BY <1>1, <1>2, PTL DEF Spec

-----------------------------------------------------------------------------
\* The store keeps the decisions it holds, approval by approval.
SameDecisions ==
  \A a \in Tasks :
    /\ approvals'[a] = None <=> approvals[a] = None
    /\ approvals[a] # None => /\ approvals'[a].status = approvals[a].status
                              /\ approvals'[a].task = approvals[a].task

\* The run that will move the task of a.
Moving(a) == run[a] # None /\ run[a].pc = "move"

\* The pass that has written that a is expired and will close its task.
Closing(a) == expiry # None /\ expiry.approval = a /\ expiry.pc # "write"

\* A decided approval whose task still waits has somebody to move the task,
\* and the store will accept that: the task refers to its approval, the
\* approval is about the task and says what the mover believes.
Deciding ==
  \A a \in Tasks :
    /\ intake[a] \in {"none", "guard", "approve"} => approvals[a] = None
    /\ approvals[a] # None => approvals[a].task = a
    /\ Waiting(a) => a \in tasks[a].approvalRefs
    /\ Moving(a) => approvals[a].status = Decided(run[a].decision)
    /\ Closing(a) => approvals[a].status = "expired"
    /\ (approvals[a] # None /\ ~Pending(a) /\ Waiting(a))
         => Moving(a) \/ Closing(a) \/ boot > 1

LEMMA DecidingFrame ==
  ASSUME Deciding, PaperclipAtomic, TypeInv, NoNewWait, SameDecisions,
         \A a \in Tasks : Moving(a)' <=> Moving(a),
         \A a \in Tasks : Moving(a) => run'[a].decision = run[a].decision,
         \A a \in Tasks : intake'[a] \in {"none", "guard", "approve"}
                           => intake[a] \in {"none", "guard", "approve"},
         \A a \in Tasks : Closing(a)' <=> Closing(a),
         UNCHANGED boot
  PROVE  (Deciding /\ PaperclipAtomic)'
<1>1. ASSUME NEW a \in Tasks
      PROVE  Pending(a)' <=> Pending(a)
  BY DEF SameDecisions, Pending
<1>2. ASSUME NEW a \in Tasks, Waiting(a)'
      PROVE  Waiting(a) /\ tasks'[a].approvalRefs = tasks[a].approvalRefs
  BY <1>2 DEF NoNewWait
<1>3. ASSUME NEW a \in Tasks, Moving(a) \/ Closing(a)
      PROVE  approvals[a] # None
  BY <1>3 DEF Moving, Closing, TypeInv, Known
<1>4. Deciding'
  <2>. SUFFICES ASSUME NEW a \in Tasks
                PROVE  /\ intake'[a] \in {"none", "guard", "approve"}
                            => approvals'[a] = None
                       /\ approvals'[a] # None => approvals'[a].task = a
                       /\ Waiting(a)' => a \in tasks'[a].approvalRefs
                       /\ Moving(a)' => approvals'[a].status
                                          = Decided(run'[a].decision)
                       /\ Closing(a)' => approvals'[a].status = "expired"
                       /\ (approvals'[a] # None /\ ~Pending(a)' /\ Waiting(a)')
                            => Moving(a)' \/ Closing(a)' \/ boot' > 1
    BY DEF Deciding
  <2>. QED
    BY <1>1, <1>2, <1>3 DEF Deciding, SameDecisions
<1>5. PaperclipAtomic'
  BY <1>2 DEF PaperclipAtomic, SameDecisions, NoNewWait, TypeInv, Known
<1>. QED
  BY <1>4, <1>5

\* assertTaskApprovalDecision lets the mover of a decided approval through.
LEMMA MoverAccepted ==
  ASSUME TypeInv, Deciding, NEW a \in Tasks, Waiting(a), approvals[a] # None,
         NEW stage \in Stages
  PROVE  /\ approvals[a].status = "approved"
              => Accepts(a, Patch(a, "queued", stage))
         /\ approvals[a].status \in {"rejected", "expired"}
              => Accepts(a, Patch(a, "cancelled", stage))
<1>1. a \in tasks[a].approvalRefs /\ approvals[a].task = a
  BY DEF Deciding
<1>2. ASSUME NEW status \in {"queued", "cancelled"},
             approvals[a].status \in IF status = "queued" THEN {"approved"}
                                     ELSE {"rejected", "expired"}
      PROVE  Accepts(a, Patch(a, status, stage))
  <2>. DEFINE new == Patch(a, status, stage)
  <2>1. new.status = status /\ new.approvalRefs = tasks[a].approvalRefs
    BY PatchKeeps DEF TypeInv, Waiting
  <2>. HIDE DEF new
  <2>2. tasks[a].status = "waiting_approval"
    BY DEF Waiting
  <2>3. ApprovalAllows(a, tasks[a].status, new, approvals)
    BY <1>1, <1>2, <2>1, <2>2
    DEF ApprovalAllows, HasDecision, ContinueStatuses, StopStatuses
  <2>4. TransitionAllowed(tasks[a].status, new.status)
    BY <2>1, <2>2 DEF TransitionAllowed, Transitions, TerminalStatuses
  <2>5. new.status \in TaskStatuses
    BY <2>1 DEF TaskStatuses
  <2>. QED
    BY <2>3, <2>4, <2>5 DEF Accepts, AllowedStep, new
<1>. QED
  BY <1>2

\* The write of a task that is refused only when the task does not wait: after
\* it the task does not wait, whoever gave up moving it.
LEMMA DecidingMoved ==
  ASSUME TypeInv, Deciding, PaperclipAtomic, NoNewWait, NEW a \in Tasks,
         ~Waiting(a)',
         SameDecisions,
         \A b \in Tasks \ {a} : Moving(b)' <=> Moving(b),
         \A b \in Tasks \ {a} : Closing(b)' <=> Closing(b),
         \A b \in Tasks : Moving(b)' => Moving(b) /\ run'[b].decision
                                                      = run[b].decision,
         \A b \in Tasks : Closing(b)' => Closing(b),
         UNCHANGED <<intake, boot>>
  PROVE  (Deciding /\ PaperclipAtomic)'
<1>1. ASSUME NEW b \in Tasks
      PROVE  Pending(b)' <=> Pending(b)
  BY DEF SameDecisions, Pending
<1>2. ASSUME NEW b \in Tasks, Waiting(b)'
      PROVE  b # a /\ Waiting(b) /\ tasks'[b].approvalRefs = tasks[b].approvalRefs
  BY <1>2 DEF NoNewWait
<1>3. ASSUME NEW b \in Tasks, Moving(b) \/ Closing(b)
      PROVE  approvals[b] # None
  BY <1>3 DEF Moving, Closing, TypeInv, Known
<1>4. Deciding'
  <2>. SUFFICES ASSUME NEW b \in Tasks
                PROVE  /\ intake'[b] \in {"none", "guard", "approve"}
                            => approvals'[b] = None
                       /\ approvals'[b] # None => approvals'[b].task = b
                       /\ Waiting(b)' => b \in tasks'[b].approvalRefs
                       /\ Moving(b)' => approvals'[b].status
                                          = Decided(run'[b].decision)
                       /\ Closing(b)' => approvals'[b].status = "expired"
                       /\ (approvals'[b] # None /\ ~Pending(b)' /\ Waiting(b)')
                            => Moving(b)' \/ Closing(b)' \/ boot' > 1
    BY DEF Deciding
  <2>. QED
    BY <1>1, <1>2, <1>3 DEF Deciding, SameDecisions
<1>5. PaperclipAtomic'
  BY <1>2 DEF PaperclipAtomic, SameDecisions, NoNewWait, TypeInv, Known
<1>. QED
  BY <1>4, <1>5

\* A decision is written: who wrote it moves the task now or next.
LEMMA DecidingDecided ==
  ASSUME TypeInv, Deciding, PaperclipAtomic, NoNewWait, NEW a \in Tasks,
         approvals[a] # None,
         NEW status \in ApprovalStatuses \ {"pending"},
         approvals' = [approvals EXCEPT ![a].status = status],
         Waiting(a)' => Moving(a)' \/ Closing(a)',
         Moving(a)' => status = Decided(run'[a].decision),
         Closing(a)' => status = "expired",
         \A b \in Tasks \ {a} : /\ run'[b] = run[b]
                                /\ Closing(b)' <=> Closing(b),
         \/ Risk[a] # "paperclip"
         \/ status = "expired"
         \/ status = "approved" /\ ~Waiting(a)'
         \/ status = "rejected" /\ tasks'[a].status = "cancelled",
         UNCHANGED <<intake, boot>>
  PROVE  (Deciding /\ PaperclipAtomic)'
<1>1. /\ approvals[a] \in ApprovalRecords
      /\ \A b \in Tasks : approvals'[b] = None <=> approvals[b] = None
  BY DecideType DEF TypeInv, TypeOK
<1>2. /\ approvals'[a].status = status
      /\ approvals'[a].task = approvals[a].task
      /\ \A b \in Tasks : b # a => approvals'[b] = approvals[b]
  BY <1>1 DEF TypeInv, TypeOK, ApprovalRecords
<1>3. ASSUME NEW b \in Tasks, Waiting(b)'
      PROVE  Waiting(b) /\ tasks'[b].approvalRefs = tasks[b].approvalRefs
  BY <1>3 DEF NoNewWait
<1>4. ASSUME NEW b \in Tasks, b # a
      PROVE  /\ Moving(b)' <=> Moving(b)
             /\ run'[b] = run[b]
             /\ Pending(b)' <=> Pending(b)
  BY <1>2, <1>4 DEF Moving, Pending
<1>5. Deciding'
  <2>. SUFFICES ASSUME NEW b \in Tasks
                PROVE  /\ intake'[b] \in {"none", "guard", "approve"}
                            => approvals'[b] = None
                       /\ approvals'[b] # None => approvals'[b].task = b
                       /\ Waiting(b)' => b \in tasks'[b].approvalRefs
                       /\ Moving(b)' => approvals'[b].status
                                          = Decided(run'[b].decision)
                       /\ Closing(b)' => approvals'[b].status = "expired"
                       /\ (approvals'[b] # None /\ ~Pending(b)' /\ Waiting(b)')
                            => Moving(b)' \/ Closing(b)' \/ boot' > 1
    BY DEF Deciding
  <2>1. CASE b = a
    BY <2>1, <1>1, <1>2, <1>3 DEF Deciding
  <2>2. CASE b # a
    BY <2>2, <1>1, <1>2, <1>3, <1>4 DEF Deciding
  <2>. QED
    BY <2>1, <2>2
<1>6. PaperclipAtomic'
  <2>. SUFFICES ASSUME NEW b \in Tasks, approvals'[b] # None,
                       Risk[b] = "paperclip"
                PROVE  /\ approvals'[b].status = "approved" => ~Waiting(b)'
                       /\ approvals'[b].status = "rejected"
                            => tasks'[b].status = "cancelled"
    BY DEF PaperclipAtomic
  <2>1. CASE b = a
    BY <2>1, <1>2
  <2>2. CASE b # a
    <3>1. Exists(b)
      BY <1>1 DEF TypeInv, Known
    <3>. QED
      BY <2>2, <3>1, <1>1, <1>2 DEF PaperclipAtomic, NoNewWait
  <2>. QED
    BY <2>1, <2>2
<1>. QED
  BY <1>5, <1>6

\* Steps that decide nothing and end no mover.
LEMMA DecidingKept ==
  ASSUME TypeInv, Deciding, PaperclipAtomic, NoNewWait, SameDecisions,
         \A a \in Tasks : run'[a] = run[a] \/ (~Moving(a) /\ ~Moving(a)'),
         \A a \in Tasks : intake'[a] \in {"none", "guard", "approve"}
                           => intake[a] \in {"none", "guard", "approve"},
         UNCHANGED <<expiry, boot>>
  PROVE  (Deciding /\ PaperclipAtomic)'
<1>1. \A a \in Tasks : Moving(a)' <=> Moving(a)
  BY DEF Moving
<1>2. \A a \in Tasks : Closing(a)' <=> Closing(a)
  BY DEF Closing
<1>. QED
  BY <1>1, <1>2, DecidingFrame

LEMMA DecidingIntake ==
  ASSUME TypeInv, Deciding, PaperclipAtomic, NEW t \in Tasks, IntakeNext(t)
  PROVE  (Deciding /\ PaperclipAtomic)'
<1>. USE DEF TypeInv
<1>1. CASE RequireApproval(t)
  <2>1. /\ intake[t] = "approve"
        /\ approvals[t] = None
        /\ Exists(t)
        /\ tasks[t] \in TaskRecords
        /\ ~Moving(t) /\ ~Closing(t)
    BY <1>1 DEF RequireApproval, Deciding, TypeOK, Known, Exists, Moving, Closing
  <2>2. /\ intake'[t] \in {"project", "done"}
        /\ \A u \in Tasks : u # t => intake'[u] = intake[u]
        /\ UNCHANGED <<run, expiry, boot>>
    BY <1>1 DEF RequireApproval, TypeOK
  <2>3. CASE UNCHANGED <<tasks, approvals>>
    BY <2>2, <2>3, DecidingKept DEF NoNewWait, Waiting, Exists, SameDecisions
  <2>4. CASE /\ approvals' = [approvals EXCEPT ![t] = NewApproval(t)]
             /\ Write(t, Held(t))
    <3>1. /\ t \in tasks'[t].approvalRefs
          /\ \A u \in Tasks : u # t => tasks'[u] = tasks[u]
      BY <2>1, <2>4 DEF Write, Held, TypeOK, TaskRecords
    <3>2. /\ approvals'[t].status = "pending"
          /\ approvals'[t].task = t
          /\ \A u \in Tasks : u # t => approvals'[u] = approvals[u]
      BY <2>4 DEF NewApproval, TypeOK
    <3>3. /\ \A u \in Tasks : Moving(u)' <=> Moving(u)
          /\ \A u \in Tasks : Closing(u)' <=> Closing(u)
      BY <2>2 DEF Moving, Closing
    <3>4. Deciding'
      <4>. SUFFICES ASSUME NEW b \in Tasks
                    PROVE  /\ intake'[b] \in {"none", "guard", "approve"}
                                => approvals'[b] = None
                           /\ approvals'[b] # None => approvals'[b].task = b
                           /\ Waiting(b)' => b \in tasks'[b].approvalRefs
                           /\ Moving(b)' => approvals'[b].status
                                              = Decided(run'[b].decision)
                           /\ Closing(b)' => approvals'[b].status = "expired"
                           /\ (approvals'[b] # None /\ ~Pending(b)'
                                 /\ Waiting(b)')
                                => Moving(b)' \/ Closing(b)' \/ boot' > 1
        BY DEF Deciding
      <4>1. CASE b = t
        BY <4>1, <2>1, <2>2, <3>1, <3>2, <3>3 DEF Pending
      <4>2. CASE b # t
        BY <4>2, <2>2, <3>1, <3>2, <3>3 DEF Deciding, Pending, Waiting, Exists
      <4>. QED
        BY <4>1, <4>2
    <3>5. PaperclipAtomic'
      BY <3>1, <3>2 DEF PaperclipAtomic, Waiting, Exists
    <3>. QED
      BY <3>4, <3>5
  <2>. QED
    BY <1>1, <2>3, <2>4 DEF RequireApproval
<1>2. CASE ~RequireApproval(t)
  <2>1. NoNewWait
    BY <1>2, IntakeNoWait
  <2>2. /\ UNCHANGED <<approvals, run, expiry, boot>>
        /\ \A a \in Tasks : intake'[a] \in {"none", "guard", "approve"}
                             => intake[a] \in {"none", "guard", "approve"}
    BY <1>2 DEF IntakeNext, CreateTask, AskForBrief, AcceptBrief,
                ProjectGovernance, LinkTask, ProvideInput, TypeOK
  <2>. QED
    BY <2>1, <2>2, DecidingKept DEF SameDecisions
<1>. QED
  BY <1>1, <1>2

LEMMA DecidingRun ==
  ASSUME TypeInv, Governed, Linked, Deciding, PaperclipAtomic,
         NEW a \in Tasks, RunNext(a)
  PROVE  (Deciding /\ PaperclipAtomic)'
<1>. USE DEF TypeInv
<1>r. run[a] # None => approvals[a] # None /\ Exists(a) /\ run[a] \in Runs
  BY DEF Known, TypeOK
<1>a. approvals[a] # None => approvals[a] \in ApprovalRecords
  BY DEF TypeOK
<1>w. NoNewWait
  BY RunNoWait
<1>1. ASSUME NEW d \in Decisions, DecideLocally(a, d)
      PROVE  (Deciding /\ PaperclipAtomic)'
  <2>1. /\ ~Moving(a) /\ ~Moving(a)'
        /\ \A b \in Tasks : b # a => run'[b] = run[b]
    BY <1>1 DEF DecideLocally, StartRun, Moving, TypeOK
  <2>. QED
    BY <1>1, <1>w, <2>1, DecidingKept DEF DecideLocally, SameDecisions
<1>2. CASE RecordDecision(a)
  <2>. DEFINE decided == Decided(run[a].decision)
  <2>1. \A b \in Tasks : b # a => run'[b] = run[b]
    BY <1>2 DEF RecordDecision, Advance, EndRun, TypeOK
  <2>2. CASE EndRun(a) /\ UNCHANGED approvals
    <3>1. ~Moving(a) /\ ~Moving(a)'
      BY <1>2, <2>2 DEF RecordDecision, EndRun, Moving, TypeOK
    <3>. QED
      BY <1>2, <1>w, <2>1, <2>2, <3>1, DecidingKept
      DEF RecordDecision, SameDecisions
  <2>3. CASE /\ ApprovalStepAllowed(approvals[a].status, decided)
             /\ approvals' = [approvals EXCEPT ![a].status = decided]
             /\ Advance(a, "move")
    <3>1. /\ decided \in {"approved", "rejected"}
          /\ decided \in ApprovalStatuses \ {"pending"}
      BY DEF Decided, ApprovalStatuses
    <3>2. /\ Moving(a)'
          /\ run'[a].decision = run[a].decision
      BY <1>2, <1>r, <2>3, NoneAssumption
      DEF RecordDecision, Advance, Moving, TypeOK, Runs
    <3>3. ~Closing(a) /\ ~Closing(a)'
      BY <1>2, <2>3, <3>1
      DEF RecordDecision, Deciding, Closing, ApprovalStepAllowed
    <3>4. Risk[a] # "paperclip"
      BY <1>2 DEF RecordDecision, Governed
    <3>5. \A b \in Tasks : Closing(b)' <=> Closing(b)
      BY <1>2 DEF RecordDecision, Closing
    <3>6. UNCHANGED <<intake, boot>> /\ approvals[a] # None
      BY <1>2, <1>r DEF RecordDecision
    <3>. HIDE DEF decided
    <3>7. decided = Decided(run'[a].decision)
      BY <3>2 DEF decided
    <3>. QED
      BY <1>w, <2>1, <2>3, <3>1, <3>2, <3>3, <3>4, <3>5, <3>6, <3>7,
         DecidingDecided
  <2>. QED
    BY <1>2, <2>2, <2>3 DEF RecordDecision
<1>3. CASE MoveTask(a)
  <2>. DEFINE new == Outcome(a, run[a].decision, "approval_approved")
  <2>1. /\ new.status # "waiting_approval"
        /\ approvals[a].status = Decided(run[a].decision)
        /\ approvals[a] # None
        /\ run[a].decision \in Decisions
    BY <1>3, <1>r, PatchKeeps, RunDecision
    DEF MoveTask, Outcome, Deciding, Moving
  <2>2. ~Waiting(a)'
    <3>1. CASE Waiting(a)
      <4>1. Accepts(a, new)
        BY <2>1, <3>1, MoverAccepted DEF Outcome, Decided, Decisions, Stages
      <4>2. Write(a, new)
        BY <1>3, <4>1 DEF MoveTask
      <4>. HIDE DEF new
      <4>. QED
        BY <2>1, <4>2 DEF Write, Waiting, TypeOK
    <3>2. CASE ~Waiting(a)
      BY <3>2, <1>w DEF NoNewWait
    <3>. QED
      BY <3>1, <3>2
  <2>3. /\ SameDecisions
        /\ \A b \in Tasks : b # a => run'[b] = run[b]
        /\ run'[a] = None
        /\ UNCHANGED <<expiry, intake, boot>>
    BY <1>3 DEF MoveTask, EndRun, TypeOK, SameDecisions
  <2>. QED
    BY <1>w, <2>2, <2>3, DecidingMoved DEF Moving, Closing
<1>4. ASSUME NEW d \in Decisions, ResolveInPaperclip(a, d)
      PROVE  (Deciding /\ PaperclipAtomic)'
  <2>1. [approvals[a].external EXCEPT !.decision = d] \in Externals
    BY <1>4 DEF ResolveInPaperclip, Pending, TypeOK, ApprovalRecords, Externals
  <2>2. /\ \A b \in Tasks : approvals'[b] = None <=> approvals[b] = None
        /\ \A b \in Tasks : b # a => approvals'[b] = approvals[b]
        /\ approvals'[a].status = approvals[a].status
        /\ approvals'[a].task = approvals[a].task
    BY <1>4, <1>a, <2>1, IntentType
    DEF ResolveInPaperclip, Pending, TypeOK, ApprovalRecords
  <2>3. SameDecisions
    BY <2>2 DEF SameDecisions
  <2>4. /\ ~Moving(a) /\ ~Moving(a)'
        /\ \A b \in Tasks : b # a => run'[b] = run[b]
    BY <1>4 DEF ResolveInPaperclip, StartRun, Moving, TypeOK
  <2>. QED
    BY <1>4, <1>w, <2>3, <2>4, DecidingKept DEF ResolveInPaperclip
<1>5. CASE AskPaperclip(a)
  <2>1. /\ ~Moving(a) /\ ~Moving(a)'
        /\ \A b \in Tasks : b # a => run'[b] = run[b]
    BY <1>5 DEF AskPaperclip, StartRun, Moving, TypeOK
  <2>. QED
    BY <1>5, <1>w, <2>1, DecidingKept DEF AskPaperclip, SameDecisions
<1>6. CASE \E applied \in BOOLEAN : AskFails(a, applied)
  <2>1. /\ ~Moving(a) /\ ~Moving(a)'
        /\ \A b \in Tasks : b # a => run'[b] = run[b]
    BY <1>6 DEF AskFails, EndRun, Moving, TypeOK
  <2>. QED
    BY <1>6, <1>w, <2>1, DecidingKept DEF AskFails, SameDecisions
<1>7. CASE ConfirmDecision(a)
  <2>1. [decision |-> run[a].decision, confirmed |-> TRUE] \in Externals
    BY <1>7, RunDecision DEF ConfirmDecision, Externals
  <2>2. /\ \A b \in Tasks : approvals'[b] = None <=> approvals[b] = None
        /\ \A b \in Tasks : b # a => approvals'[b] = approvals[b]
        /\ approvals'[a].status = approvals[a].status
        /\ approvals'[a].task = approvals[a].task
    BY <1>7, <1>r, <1>a, <2>1, IntentType
    DEF ConfirmDecision, TypeOK, ApprovalRecords
  <2>3. SameDecisions
    BY <2>2 DEF SameDecisions
  <2>4. /\ ~Moving(a) /\ ~Moving(a)'
        /\ \A b \in Tasks : b # a => run'[b] = run[b]
    BY <1>7, <1>r DEF ConfirmDecision, Advance, Moving, TypeOK, Runs
  <2>. QED
    BY <1>7, <1>w, <2>3, <2>4, DecidingKept DEF ConfirmDecision
<1>8. CASE CommitDecision(a)
  <2>. DEFINE decided == Decided(run[a].decision)
              new == Outcome(a, run[a].decision, "governance_approved")
  <2>1. /\ \A b \in Tasks : b # a => run'[b] = run[b]
        /\ ~Moving(a) /\ ~Moving(a)'
        /\ approvals[a] # None
        /\ Exists(a)
        /\ UNCHANGED <<expiry, intake, boot>>
    BY <1>8, <1>r DEF CommitDecision, EndRun, Moving, TypeOK
  <2>2. CASE UNCHANGED approvals
    BY <1>w, <2>1, <2>2, DecidingKept DEF SameDecisions
  <2>3. CASE /\ ApprovalStepAllowed(approvals[a].status, decided)
             /\ approvals' = [approvals EXCEPT ![a].status = decided]
             /\ Write(a, new)
    <3>1. /\ decided \in {"approved", "rejected"}
          /\ decided \in ApprovalStatuses \ {"pending"}
      BY DEF Decided, ApprovalStatuses
    <3>2. new.status = IF decided = "approved" THEN "queued" ELSE "cancelled"
      BY <2>1, PatchKeeps DEF Outcome, Decided
    <3>. HIDE DEF decided, new
    <3>3. tasks'[a].status = IF decided = "approved" THEN "queued"
                                                     ELSE "cancelled"
      BY <2>3, <3>2 DEF Write, TypeOK
    <3>4. ~Waiting(a)'
      BY <3>3 DEF Waiting
    <3>5. ~Closing(a) /\ ~Closing(a)'
      BY <2>1, <2>3, <3>1 DEF Deciding, Closing, ApprovalStepAllowed
    <3>6. \A b \in Tasks : Closing(b)' <=> Closing(b)
      BY <2>1 DEF Closing
    <3>. QED
      BY <1>w, <2>1, <2>3, <3>1, <3>3, <3>4, <3>5, <3>6, DecidingDecided
  <2>. QED
    BY <1>8, <2>2, <2>3 DEF CommitDecision
<1>9. CASE \E d \in Decisions : RepeatDecision(a, d)
  BY <1>9, <1>w, DecidingKept DEF RepeatDecision, SameDecisions
<1>. QED
  BY <1>1, <1>2, <1>3, <1>4, <1>5, <1>6, <1>7, <1>8, <1>9 DEF RunNext

LEMMA DecidingOther ==
  ASSUME TypeInv, Deciding, PaperclipAtomic,
         \/ ExecutionNext
         \/ ExpiryNext
         \/ RecoveryNext
         \/ EnvironmentNext
  PROVE  (Deciding /\ PaperclipAtomic)'
<1>. USE DEF TypeInv
<1>w. NoNewWait
  BY OtherNoWait
<1>f. ASSUME UNCHANGED <<approvals, run, expiry, boot, intake>>
      PROVE  (Deciding /\ PaperclipAtomic)'
  BY <1>f, <1>w, DecidingKept DEF SameDecisions
<1>1. CASE ExecutionNext
  BY <1>1, <1>f DEF ExecutionNext, Claim, NoExecutor, Finish
<1>2. CASE ExpiryNext
  <2>e. expiry # None => /\ expiry \in Passes
                         /\ expiry.approval \in Tasks
                         /\ approvals[expiry.approval] # None
                         /\ Exists(expiry.approval)
    BY DEF TypeOK, Known, Passes
  <2>1. ASSUME NEW a \in Tasks, ExpireStart(a)
        PROVE  (Deciding /\ PaperclipAtomic)'
    <3>1. \A b \in Tasks : ~Closing(b) /\ ~Closing(b)'
      BY <2>1 DEF ExpireStart, Closing
    <3>. QED
      BY <2>1, <3>1, <1>w, DecidingFrame DEF ExpireStart, SameDecisions, Moving
  <2>2. CASE ExpireWrite
    <3>0. PICK a \in Tasks : a = expiry.approval
      BY <2>2, <2>e DEF ExpireWrite
    <3>1. /\ \A b \in Tasks : ~Closing(b)
          /\ UNCHANGED <<run, intake, boot, tasks>>
      BY <2>2 DEF ExpireWrite, Closing
    <3>2. CASE expiry' = None /\ UNCHANGED approvals
      BY <1>w, <3>1, <3>2, DecidingFrame DEF SameDecisions, Moving, Closing
    <3>3. CASE /\ ApprovalStepAllowed(approvals[a].status, "expired")
               /\ approvals' = [approvals EXCEPT ![a].status = "expired"]
               /\ expiry' = [expiry EXCEPT !.pc = "look"]
      <4>1. /\ a \in Tasks /\ approvals[a] # None
            /\ expiry \in Passes
        BY <2>2, <2>e, <3>0 DEF ExpireWrite
      <4>2. expiry'.approval = a /\ expiry'.pc = "look" /\ expiry' # None
        BY <3>0, <3>3, <4>1, NoneAssumption DEF Passes
      <4>3. /\ Closing(a)'
            /\ \A b \in Tasks \ {a} : ~Closing(b)'
        BY <4>2 DEF Closing
      <4>4. ~Moving(a)'
        <5>1. ~Moving(a)
          BY <3>3, <4>1
          DEF Deciding, Decided, ApprovalStepAllowed
        <5>. QED
          BY <3>1, <5>1 DEF Moving
      <4>5. "expired" \in ApprovalStatuses \ {"pending"}
        BY DEF ApprovalStatuses
      <4>. QED
        BY <1>w, <3>1, <3>3, <4>1, <4>3, <4>4, <4>5, DecidingDecided
    <3>. QED
      BY <2>2, <3>0, <3>2, <3>3 DEF ExpireWrite
  <2>3. CASE ExpireLook
    <3>0. PICK a \in Tasks : a = expiry.approval
      BY <2>3, <2>e DEF ExpireLook
    <3>1. a \in Tasks /\ Exists(a) /\ expiry \in Passes /\ expiry.pc = "look"
      BY <2>3, <2>e, <3>0 DEF ExpireLook
    <3>2. UNCHANGED <<tasks, approvals, run, intake, boot>>
      BY <2>3 DEF ExpireLook
    <3>3. CASE tasks[a].status = "waiting_approval"
      <4>1. expiry' = [expiry EXCEPT !.pc = "close"]
        BY <2>3, <3>0, <3>3 DEF ExpireLook
      <4>2. /\ expiry'.approval = a /\ expiry'.pc = "close" /\ expiry' # None
        BY <3>0, <3>1, <4>1, NoneAssumption DEF Passes
      <4>3. \A b \in Tasks : Closing(b)' <=> Closing(b)
        BY <2>3, <3>0, <3>1, <4>2 DEF Closing, ExpireLook
      <4>. QED
        BY <1>w, <3>2, <4>3, DecidingFrame DEF SameDecisions, Moving
    <3>4. CASE tasks[a].status # "waiting_approval"
      <4>1. expiry' = None
        BY <2>3, <3>0, <3>4 DEF ExpireLook
      <4>2. ~Waiting(a)'
        BY <3>2, <3>4 DEF Waiting
      <4>3. /\ \A b \in Tasks : ~Closing(b)'
            /\ \A b \in Tasks \ {a} : ~Closing(b)
        BY <3>0, <4>1 DEF Closing
      <4>. QED
        BY <1>w, <3>1, <3>2, <4>2, <4>3, DecidingMoved DEF SameDecisions, Moving
    <3>. QED
      BY <3>3, <3>4
  <2>4. CASE ExpireClose
    <3>0. PICK a \in Tasks : a = expiry.approval
      BY <2>4, <2>e DEF ExpireClose
    <3>. DEFINE new == Patch(a, "cancelled", "settled")
    <3>1. /\ a \in Tasks /\ Exists(a) /\ approvals[a] # None
          /\ approvals[a].status = "expired"
          /\ expiry' = None
          /\ UNCHANGED <<approvals, run, intake, boot>>
      BY <2>4, <2>e, <3>0 DEF ExpireClose, Deciding, Closing
    <3>2. ~Waiting(a)'
      <4>1. CASE Waiting(a)
        <5>1. Accepts(a, new)
          BY <3>1, <4>1, MoverAccepted DEF Stages
        <5>2. Write(a, new) /\ new.status = "cancelled"
          BY <2>4, <3>0, <3>1, <5>1, PatchKeeps DEF ExpireClose, WriteOrThrow
        <5>. HIDE DEF new
        <5>. QED
          BY <3>1, <5>2 DEF Write, Waiting, TypeOK
      <4>2. CASE ~Waiting(a)
        BY <3>1, <4>2, <1>w DEF NoNewWait
      <4>. QED
        BY <4>1, <4>2
    <3>3. /\ \A b \in Tasks : ~Closing(b)'
          /\ \A b \in Tasks \ {a} : ~Closing(b)
      BY <3>0, <3>1 DEF Closing
    <3>. QED
      BY <1>w, <3>1, <3>2, <3>3, DecidingMoved DEF SameDecisions, Moving
  <2>. QED
    BY <1>2, <2>1, <2>2, <2>3, <2>4 DEF ExpiryNext
<1>3. CASE RecoveryNext
  BY <1>3, <1>f DEF RecoveryNext, RecoveryList, RecoverTask
<1>4. CASE EnvironmentNext
  <2>1. CASE Crash
    <3>1. /\ \A a \in Tasks : ~Moving(a)' /\ ~Closing(a)'
          /\ boot' > 1
      BY <2>1, MaxBootsAssumption DEF Crash, Moving, Closing, TypeOK
    <3>2. /\ UNCHANGED <<tasks, approvals>>
          /\ \A a \in Tasks : intake'[a] \in {"none", "guard", "approve"}
                               => intake[a] \in {"none", "guard", "approve"}
      BY <2>1 DEF Crash, store
    <3>3. \A a \in Tasks : Waiting(a)' <=> Waiting(a)
      BY <3>2 DEF Waiting, Exists
    <3>4. Deciding'
      BY <3>1, <3>2, <3>3 DEF Deciding
    <3>5. PaperclipAtomic'
      BY <3>2, <3>3 DEF PaperclipAtomic
    <3>. QED
      BY <3>4, <3>5
  <2>. QED
    BY <1>4, <2>1, <1>f DEF EnvironmentNext, Lapse, PaperclipDecides
<1>. QED
  BY <1>1, <1>2, <1>3, <1>4

\* What a decision needs to be known to take effect.
DecidedInv ==
  TypeInv /\ Linked /\ Governed /\ PaperclipAuthority /\ Deciding
    /\ PaperclipAtomic

LEMMA DecidedInvInductive == Spec => []DecidedInv
<1>1. Init => DecidedInv
  <2>1. Init => Governed /\ PaperclipAuthority
    BY DEF Init, Governed, PaperclipAuthority
  <2>2. Init => Deciding /\ PaperclipAtomic
    BY DEF Init, Deciding, PaperclipAtomic, Waiting, Exists, Moving, Closing
  <2>. QED
    BY <2>1, <2>2, InitTypeInv DEF DecidedInv
<1>2. DecidedInv /\ [Next]_vars => DecidedInv'
  <2>. SUFFICES ASSUME DecidedInv, [Next]_vars
                PROVE  DecidedInv'
    OBVIOUS
  <2>. USE DEF DecidedInv
  <2>1. CASE Next
    <3>1. (TypeInv /\ Linked)'
      BY <2>1, LinkedStep, IntakeTypeInv, RunTypeInv, ExecutionTypeInv,
         ExpiryTypeInv, RestartTypeInv DEF Next
    <3>2. (Governed /\ PaperclipAuthority)'
      BY <2>1, GovernedStep
    <3>3. (Deciding /\ PaperclipAtomic)'
      BY <2>1, DecidingIntake, DecidingRun, DecidingOther DEF Next
    <3>. QED
      BY <3>1, <3>2, <3>3
  <2>2. CASE UNCHANGED vars
    <3>1. (TypeInv /\ Linked)'
      BY <2>2 DEF vars, TypeInv, TypeOK, Known, Linked, Exists
    <3>2. (Governed /\ PaperclipAuthority)'
      BY <2>2, GovernedFrame DEF vars
    <3>3. NoNewWait /\ SameDecisions
      BY <2>2 DEF vars, NoNewWait, SameDecisions, Waiting, Exists
    <3>4. (Deciding /\ PaperclipAtomic)'
      BY <2>2, <3>3, DecidingKept DEF vars
    <3>. QED
      BY <3>1, <3>2, <3>4
  <2>. QED
    BY <2>1, <2>2
<1>. QED
  BY <1>1, <1>2, PTL DEF Spec

\* resolveApprovalAndUpdateTask: a decision taken through Paperclip and its
\* task are never seen apart, whatever crashed.
THEOREM PaperclipAtomicAlways == Spec => []PaperclipAtomic
<1>1. DecidedInv => PaperclipAtomic
  BY DEF DecidedInv
<1>. QED
  BY <1>1, DecidedInvInductive, PTL

\* A local decision whose task still waits has a coordinator or an expiry pass
\* left that will move the task, and that the store will not refuse, or the
\* process was restarted in between: no interleaving loses it.
THEOREM LocalDecisionNeverLost == Spec => []LocalDecisionInFlight
<1>1. DecidedInv => LocalDecisionInFlight
  BY DEF DecidedInv, Deciding, Moving, Closing, LocalDecisionInFlight
<1>. QED
  BY <1>1, DecidedInvInductive, PTL

-----------------------------------------------------------------------------
(* What no step does to a task or a decision, whoever takes it              *)

\* What is in the store goes from one record to another only as
\* validateTaskStatusPatch allows, with the approvals as the same transaction
\* leaves them; no step of this module starts an attempt or drops a reference.
Validated ==
  \A t \in Tasks :
    Exists(t) => /\ Exists(t)'
                 /\ AllowedStep(t, tasks[t], tasks'[t], approvals')
                 /\ tasks'[t].attempt = tasks[t].attempt
                 /\ tasks[t].approvalRefs \subseteq tasks'[t].approvalRefs

\* No approval is forgotten, given to another task or decided again.
DecisionsKept ==
  \A a \in Tasks :
    approvals[a] # None
      => /\ approvals'[a] # None
         /\ approvals'[a].task = approvals[a].task
         /\ ApprovalStepAllowed(approvals[a].status, approvals'[a].status)

LEMMA UnchangedValid ==
  ASSUME TypeInv, NEW t \in Tasks, Exists(t), NEW known
  PROVE  AllowedStep(t, tasks[t], tasks[t], known)
<1>1. tasks[t].status \in TaskStatuses
  BY DEF TypeInv, TypeOK, TaskRecords, Exists
<1>. QED
  BY <1>1 DEF AllowedStep, ApprovalAllows, TransitionAllowed

LEMMA WriteValid ==
  ASSUME TypeInv, NEW t \in Tasks, Exists(t), NEW new, Write(t, new),
         new # None,
         AllowedStep(t, tasks[t], new, approvals'),
         new.attempt = tasks[t].attempt,
         tasks[t].approvalRefs \subseteq new.approvalRefs
  PROVE  Validated
<1>1. tasks'[t] = new /\ \A u \in Tasks : u # t => tasks'[u] = tasks[u]
  BY DEF Write, TypeInv, TypeOK
<1>2. \A u \in Tasks : Exists(u) => AllowedStep(u, tasks[u], tasks[u], approvals')
  BY UnchangedValid
<1>. QED
  BY <1>1, <1>2 DEF Validated, Exists

LEMMA SameValid ==
  ASSUME TypeInv, UNCHANGED tasks
  PROVE  Validated
<1>1. \A u \in Tasks : Exists(u) => AllowedStep(u, tasks[u], tasks[u], approvals')
  BY UnchangedValid
<1>. QED
  BY <1>1 DEF Validated, Exists

LEMMA PatchValid ==
  ASSUME TypeInv, NEW t \in Tasks, Exists(t),
         NEW status \in TaskStatuses, NEW stage \in Stages,
         UNCHANGED approvals,
         \/ UNCHANGED tasks
         \/ WriteOrThrow(t, Patch(t, status, stage))
         \/ Accepts(t, Patch(t, status, stage)) /\ Write(t, Patch(t, status, stage))
  PROVE  Validated
<1>1. CASE UNCHANGED tasks
  BY <1>1, SameValid
<1>2. CASE /\ Accepts(t, Patch(t, status, stage))
           /\ Write(t, Patch(t, status, stage))
  <2>. DEFINE new == Patch(t, status, stage)
  <2>1. /\ new.attempt = tasks[t].attempt
        /\ new.approvalRefs = tasks[t].approvalRefs
    BY PatchKeeps DEF TypeInv
  <2>2. new # None
    BY PatchType DEF TypeInv
  <2>3. AllowedStep(t, tasks[t], new, approvals')
    BY <1>2 DEF Accepts
  <2>. HIDE DEF new
  <2>. QED
    BY <1>2, <2>1, <2>2, <2>3, WriteValid DEF new
<1>. QED
  BY <1>1, <1>2 DEF WriteOrThrow

LEMMA IntakeValid ==
  ASSUME TypeInv, NEW t \in Tasks, IntakeNext(t)
  PROVE  Validated
<1>. USE DEF TypeInv
<1>0. intake[t] # "none" => Exists(t)
  BY DEF Known
<1>1. CASE \E status \in {"queued", "needs_input"} : CreateTask(t, status)
  <2>1. PICK status \in {"queued", "needs_input"} : CreateTask(t, status)
    BY <1>1
  <2>2. ~Exists(t) /\ \A u \in Tasks : u # t => tasks'[u] = tasks[u]
    BY <2>1 DEF CreateTask, Write, TypeOK
  <2>3. \A u \in Tasks :
          Exists(u) => AllowedStep(u, tasks[u], tasks[u], approvals')
    BY UnchangedValid
  <2>. QED
    BY <2>2, <2>3 DEF Validated, Exists
<1>2. CASE AskForBrief(t)
  BY <1>0, <1>2, PatchValid DEF AskForBrief, TaskStatuses, Stages
<1>3. CASE UNCHANGED tasks
  BY <1>3, SameValid
<1>4. CASE RequireApproval(t)
  <2>. DEFINE new == Held(t)
  <2>1. Exists(t) /\ tasks[t] \in TaskRecords
    BY <1>0, <1>4 DEF RequireApproval, TypeOK, Exists
  <2>2. /\ new.attempt = tasks[t].attempt
        /\ tasks[t].approvalRefs \subseteq new.approvalRefs
        /\ new \in TaskRecords
    BY <2>1 DEF Held, TaskRecords, TaskStatuses, Stages
  <2>3. \/ UNCHANGED tasks
        \/ AllowedStep(t, tasks[t], new, approvals') /\ Write(t, new)
    BY <1>4 DEF RequireApproval
  <2>. HIDE DEF new
  <2>. QED
    BY <1>3, <2>1, <2>2, <2>3, WriteValid, NoneAssumption
<1>5. CASE \E answered \in BOOLEAN : LinkTask(t, answered)
  <2>1. PICK answered \in BOOLEAN : LinkTask(t, answered)
    BY <1>5
  <2>. DEFINE new == [tasks[t] EXCEPT !.linked = @ \/ answered]
  <2>2. Exists(t) /\ tasks[t] \in TaskRecords
    BY <1>0, <2>1 DEF LinkTask, TypeOK, Exists
  <2>3. /\ new.status = tasks[t].status
        /\ new.attempt = tasks[t].attempt
        /\ new.approvalRefs = tasks[t].approvalRefs
        /\ new \in TaskRecords
    BY <2>2 DEF TaskRecords
  <2>4. Write(t, new)
    BY <2>1 DEF LinkTask
  <2>. HIDE DEF new
  <2>5. AllowedStep(t, tasks[t], new, approvals')
    BY <2>2, <2>3
    DEF AllowedStep, ApprovalAllows, TransitionAllowed, TaskRecords
  <2>. QED
    BY <2>2, <2>3, <2>4, <2>5, WriteValid, NoneAssumption
<1>6. CASE ProvideInput(t)
  BY <1>6, PatchValid DEF ProvideInput, TaskStatuses, Stages
<1>. QED
  BY <1>1, <1>2, <1>3, <1>4, <1>5, <1>6
  DEF IntakeNext, AcceptBrief, ProjectGovernance

LEMMA RunValid ==
  ASSUME TypeInv, NEW a \in Tasks, RunNext(a)
  PROVE  Validated
<1>. USE DEF TypeInv
<1>0. run[a] # None => Exists(a)
  BY DEF Known
<1>1. CASE UNCHANGED tasks
  BY <1>1, SameValid
<1>o. \A d, s : \E status \in TaskStatuses, stage \in Stages :
        s \in Stages => Outcome(a, d, s) = Patch(a, status, stage)
  BY DEF Outcome, Stages, TaskStatuses
<1>2. CASE MoveTask(a)
  <2>1. PICK status \in TaskStatuses, stage \in Stages :
          Outcome(a, run[a].decision, "approval_approved")
            = Patch(a, status, stage)
    BY <1>o DEF Stages
  <2>. QED
    BY <1>0, <1>2, <2>1, PatchValid DEF MoveTask
<1>3. CASE CommitDecision(a)
  <2>1. PICK status \in TaskStatuses, stage \in Stages :
          Outcome(a, run[a].decision, "governance_approved")
            = Patch(a, status, stage)
    BY <1>o DEF Stages
  <2>. DEFINE new == Patch(a, status, stage)
  <2>2. Exists(a)
    BY <1>0, <1>3 DEF CommitDecision
  <2>3. /\ new # None
        /\ new.attempt = tasks[a].attempt
        /\ new.approvalRefs = tasks[a].approvalRefs
    BY <2>2, PatchType, PatchKeeps
  <2>4. \/ UNCHANGED tasks
        \/ AllowedStep(a, tasks[a], new, approvals') /\ Write(a, new)
    BY <1>3, <2>1 DEF CommitDecision
  <2>. HIDE DEF new
  <2>. QED
    BY <1>1, <2>2, <2>3, <2>4, WriteValid
<1>4. ASSUME NEW d \in Decisions, RepeatDecision(a, d)
      PROVE  Validated
  <2>1. PICK status \in TaskStatuses, stage \in Stages :
          Outcome(a, d, "governance_approved") = Patch(a, status, stage)
    BY <1>o DEF Stages
  <2>. QED
    BY <1>4, <2>1, PatchValid DEF RepeatDecision
<1>. QED
  BY <1>1, <1>2, <1>3, <1>4
  DEF RunNext, DecideLocally, RecordDecision, ResolveInPaperclip,
      AskPaperclip, AskFails, ConfirmDecision

LEMMA OtherValid ==
  ASSUME TypeInv,
         \/ ExecutionNext
         \/ ExpiryNext
         \/ RecoveryNext
         \/ EnvironmentNext
  PROVE  Validated
<1>. USE DEF TypeInv
<1>1. CASE UNCHANGED tasks
  BY <1>1, SameValid
<1>2. ASSUME NEW c \in callers, Claim(c)
      PROVE  Validated
  <2>. DEFINE t == c[1]
              new == [tasks[t] EXCEPT !.status = "running",
                                      !.stage = "starting",
                                      !.started = boot]
  <2>1. /\ t \in Tasks /\ Exists(t) /\ tasks[t] \in TaskRecords
        /\ boot \in Nat
    BY MaxBootsAssumption DEF TypeOK, Known, Exists
  <2>2. /\ new \in TaskRecords
        /\ new.attempt = tasks[t].attempt
        /\ new.approvalRefs = tasks[t].approvalRefs
    BY <2>1 DEF TaskRecords, TaskStatuses, Stages
  <2>3. /\ UNCHANGED approvals
        /\ UNCHANGED tasks \/ (Accepts(t, new) /\ Write(t, new))
    BY <1>2 DEF Claim
  <2>. HIDE DEF new
  <2>. QED
    BY <1>1, <2>1, <2>2, <2>3, WriteValid, NoneAssumption DEF Accepts
<1>3. ASSUME NEW c \in callers, NoExecutor(c)
      PROVE  Validated
  <2>1. c[1] \in Tasks /\ Exists(c[1])
    BY DEF TypeOK, Known
  <2>. QED
    BY <1>3, <2>1, PatchValid DEF NoExecutor, TaskStatuses, Stages
<1>4. ASSUME NEW t \in Tasks, NEW status \in TaskStatuses, Finish(t, status)
      PROVE  Validated
  <2>1. Exists(t)
    BY <1>4 DEF Finish, Known
  <2>. QED
    BY <1>4, <2>1, PatchValid DEF Finish, TaskStatuses, Stages
<1>5. CASE ExpireClose
  <2>1. expiry.approval \in Tasks /\ Exists(expiry.approval)
    BY <1>5 DEF ExpireClose, TypeOK, Known, Passes
  <2>. QED
    BY <1>5, <2>1, PatchValid DEF ExpireClose, TaskStatuses, Stages
<1>6. ASSUME NEW t \in Tasks, RecoverTask(t)
      PROVE  Validated
  BY <1>1, <1>6, PatchValid
  DEF RecoverTask, Interrupted, Running, TaskStatuses, Stages
<1>. QED
  BY <1>1, <1>2, <1>3, <1>4, <1>5, <1>6
  DEF ExecutionNext, ExpiryNext, RecoveryNext, EnvironmentNext, ExpireStart,
      ExpireWrite, ExpireLook, RecoveryList, Lapse, PaperclipDecides, Crash,
      store

LEMMA ValidStep ==
  ASSUME TypeInv, [Next]_vars
  PROVE  Validated
<1>1. CASE UNCHANGED vars
  BY <1>1, SameValid DEF vars
<1>. QED
  BY <1>1, IntakeValid, RunValid, OtherValid DEF Next

\* One approval changes, from a decision to one the store accepts after it.
LEMMA DecideKept ==
  ASSUME TypeInv, NEW a \in Tasks, approvals[a] # None,
         NEW status \in ApprovalStatuses,
         ApprovalStepAllowed(approvals[a].status, status),
         approvals' = [approvals EXCEPT ![a].status = status]
  PROVE  DecisionsKept
<1>1. /\ approvals[a] \in ApprovalRecords
      /\ \A b \in Tasks : approvals'[b] = None <=> approvals[b] = None
  BY DecideType DEF TypeInv, TypeOK
<1>2. /\ approvals'[a].status = status
      /\ approvals'[a].task = approvals[a].task
      /\ \A b \in Tasks : b # a => approvals'[b] = approvals[b]
  BY <1>1 DEF TypeInv, TypeOK, ApprovalRecords
<1>. QED
  BY <1>1, <1>2 DEF DecisionsKept, ApprovalStepAllowed

LEMMA IntentKept ==
  ASSUME TypeInv, NEW a \in Tasks, approvals[a] # None,
         NEW external \in Externals,
         approvals' = [approvals EXCEPT ![a].external = external]
  PROVE  DecisionsKept
<1>1. /\ approvals[a] \in ApprovalRecords
      /\ \A b \in Tasks : approvals'[b] = None <=> approvals[b] = None
  BY IntentType DEF TypeInv, TypeOK
<1>2. /\ approvals'[a].status = approvals[a].status
      /\ approvals'[a].task = approvals[a].task
      /\ \A b \in Tasks : b # a => approvals'[b] = approvals[b]
  BY <1>1 DEF TypeInv, TypeOK, ApprovalRecords
<1>. QED
  BY <1>1, <1>2 DEF DecisionsKept, ApprovalStepAllowed

LEMMA KeptStep ==
  ASSUME TypeInv, Deciding, [Next]_vars
  PROVE  DecisionsKept
<1>. USE DEF TypeInv
<1>1. CASE UNCHANGED approvals
  BY <1>1 DEF DecisionsKept, ApprovalStepAllowed
<1>2. ASSUME NEW t \in Tasks, IntakeNext(t)
      PROVE  DecisionsKept
  <2>1. CASE RequireApproval(t)
    <3>1. approvals[t] = None
      BY <2>1 DEF RequireApproval, Deciding
    <3>2. \A a \in Tasks : a # t => approvals'[a] = approvals[a]
      BY <2>1 DEF RequireApproval, TypeOK
    <3>. QED
      BY <3>1, <3>2 DEF DecisionsKept, ApprovalStepAllowed
  <2>. QED
    BY <1>1, <1>2, <2>1
    DEF IntakeNext, CreateTask, AskForBrief, AcceptBrief, ProjectGovernance,
        LinkTask, ProvideInput
<1>3. ASSUME NEW a \in Tasks, RunNext(a)
      PROVE  DecisionsKept
  <2>1. run[a] # None => /\ approvals[a] # None
                         /\ Decided(run[a].decision) \in ApprovalStatuses
    BY RunDecision DEF Known
  <2>2. CASE RecordDecision(a)
    BY <1>1, <2>1, <2>2, DecideKept DEF RecordDecision
  <2>3. CASE CommitDecision(a)
    BY <1>1, <2>1, <2>3, DecideKept DEF CommitDecision
  <2>4. ASSUME NEW d \in Decisions, ResolveInPaperclip(a, d)
        PROVE  DecisionsKept
    <3>. DEFINE old == approvals[a].external
    <3>1. approvals[a] # None /\ old \in Externals
      BY <2>4 DEF ResolveInPaperclip, Pending, TypeOK, ApprovalRecords
    <3>2. [old EXCEPT !.decision = d] \in Externals
      BY <3>1 DEF Externals
    <3>. QED
      BY <2>4, <3>1, <3>2, IntentKept DEF ResolveInPaperclip
  <2>5. CASE ConfirmDecision(a)
    <3>1. [decision |-> run[a].decision, confirmed |-> TRUE] \in Externals
      BY <2>5, RunDecision DEF ConfirmDecision, Externals
    <3>. QED
      BY <2>1, <2>5, <3>1, IntentKept DEF ConfirmDecision
  <2>. QED
    BY <1>1, <1>3, <2>2, <2>3, <2>4, <2>5
    DEF RunNext, DecideLocally, MoveTask, AskPaperclip, AskFails,
        RepeatDecision
<1>4. CASE ExpiryNext
  <2>1. CASE ExpireWrite
    <3>1. PICK a \in Tasks : a = expiry.approval /\ approvals[a] # None
      BY <2>1 DEF ExpireWrite, TypeOK, Known, Passes
    <3>. QED
      BY <1>1, <2>1, <3>1, DecideKept DEF ExpireWrite, ApprovalStatuses
  <2>. QED
    BY <1>1, <1>4, <2>1 DEF ExpiryNext, ExpireStart, ExpireLook, ExpireClose
<1>5. CASE ExecutionNext
  BY <1>1, <1>5 DEF ExecutionNext, Claim, NoExecutor, Finish
<1>6. CASE RecoveryNext
  BY <1>1, <1>6 DEF RecoveryNext, RecoveryList, RecoverTask
<1>7. CASE EnvironmentNext
  BY <1>1, <1>7 DEF EnvironmentNext, Lapse, PaperclipDecides, Crash, store
<1>8. CASE UNCHANGED vars
  BY <1>1, <1>8 DEF vars
<1>. QED
  BY <1>2, <1>3, <1>4, <1>5, <1>6, <1>7, <1>8 DEF Next

\* A task that waits has its approval.
HeldByApproval == \A t \in Tasks : Waiting(t) => approvals[t] # None

LEMMA HeldStep ==
  ASSUME TypeInv, Deciding, HeldByApproval, [Next]_vars
  PROVE  HeldByApproval'
<1>1. CASE NoNewWait
  BY <1>1, KeptStep DEF NoNewWait, DecisionsKept, HeldByApproval
<1>2. CASE UNCHANGED vars
  BY <1>2 DEF vars, HeldByApproval, Waiting, Exists
<1>3. ASSUME NEW t \in Tasks, RequireApproval(t)
      PROVE  HeldByApproval'
  <2>1. CASE UNCHANGED <<tasks, approvals>>
    BY <2>1 DEF HeldByApproval, Waiting, Exists
  <2>2. CASE /\ approvals' = [approvals EXCEPT ![t] = NewApproval(t)]
             /\ Write(t, Held(t))
    <3>1. /\ approvals'[t] = NewApproval(t)
          /\ \A u \in Tasks : u # t => /\ approvals'[u] = approvals[u]
                                       /\ tasks'[u] = tasks[u]
      BY <2>2 DEF Write, TypeInv, TypeOK
    <3>2. NewApproval(t) # None
      <4>1. NoExternal \in Externals
        BY DEF NoExternal, Externals
      <4>2. NewApproval(t) \in ApprovalRecords
        BY <4>1 DEF NewApproval, ApprovalRecords, ApprovalStatuses
      <4>. QED
        BY <4>2, NoneAssumption
    <3>. QED
      BY <3>1, <3>2 DEF HeldByApproval, Waiting, Exists
  <2>. QED
    BY <1>3, <2>1, <2>2 DEF RequireApproval
<1>4. ASSUME NEW t \in Tasks, IntakeNext(t)
      PROVE  HeldByApproval'
  BY <1>1, <1>3, <1>4, IntakeNoWait
<1>5. ASSUME NEW a \in Tasks, RunNext(a)
      PROVE  HeldByApproval'
  BY <1>1, <1>5, RunNoWait
<1>. QED
  BY <1>1, <1>2, <1>4, <1>5, OtherNoWait DEF Next

LEMMA HeldAlways == Spec => [](DecidedInv /\ HeldByApproval)
<1>1. Init => HeldByApproval
  BY DEF Init, HeldByApproval, Waiting, Exists
<1>2. DecidedInv /\ HeldByApproval /\ [Next]_vars => HeldByApproval'
  BY HeldStep DEF DecidedInv
<1>. QED
  BY <1>1, <1>2, DecidedInvInductive, PTL DEF Spec

\* Every write of a task, by whichever handler, recovery or pass, is one the
\* lifecycle allows, with the approvals as the same transaction leaves them: no
\* handler writes round it, whatever it believed when it read the task.
THEOREM EveryWriteValidated == Spec => [][Validated]_vars
<1>1. DecidedInv /\ [Next]_vars => [Validated]_vars
  BY ValidStep DEF DecidedInv
<1>. QED
  BY <1>1, DecidedInvInductive, PTL DEF Spec

\* TERMINAL_STATUSES: a task that has ended stays ended, and in the status it
\* ended in, but for a judgement of waiting_test: not the late result of an
\* executor, a late decision, an expiry or the recovery revives or rewrites it.
THEOREM EndedStaysEnded ==
  Spec => [][\A t \in Tasks :
               Exists(t) /\ tasks[t].status \in TerminalStatuses
                 => /\ tasks'[t].status \in TerminalStatuses
                    /\ tasks[t].status # "waiting_test"
                         => tasks'[t].status = tasks[t].status]_vars
<1>. DEFINE Ended ==
       \A t \in Tasks :
         Exists(t) /\ tasks[t].status \in TerminalStatuses
           => /\ tasks'[t].status \in TerminalStatuses
              /\ tasks[t].status # "waiting_test"
                   => tasks'[t].status = tasks[t].status
<1>1. TypeInv /\ [Next]_vars => Ended
  <2>. SUFFICES ASSUME TypeInv, [Next]_vars, NEW t \in Tasks, Exists(t),
                       tasks[t].status \in TerminalStatuses
                PROVE  /\ tasks'[t].status \in TerminalStatuses
                       /\ tasks[t].status # "waiting_test"
                            => tasks'[t].status = tasks[t].status
    OBVIOUS
  <2>1. /\ AllowedStep(t, tasks[t], tasks'[t], approvals')
        /\ tasks'[t].attempt = tasks[t].attempt
        /\ tasks[t].attempt \in Nat
    BY ValidStep DEF Validated, TypeInv, TypeOK, TaskRecords, Exists
  <2>2. tasks'[t].status \in TerminalStatuses
    BY <2>1, TerminalIsFinal
  <2>3. TransitionAllowed(tasks[t].status, tasks'[t].status)
    BY <2>1 DEF AllowedStep, RetryAllowed
  <2>. QED
    BY <2>2, <2>3 DEF TransitionAllowed
<1>2. DecidedInv /\ [Next]_vars => [Ended]_vars
  BY <1>1 DEF DecidedInv
<1>. HIDE DEF Ended
<1>3. Spec => [][Ended]_vars
  BY <1>2, DecidedInvInductive, PTL DEF Spec
<1>. QED
  BY <1>3 DEF Ended

\* applyApprovalPatch: a decision is final.  The opposite button, the expiry
\* pass and a repeated callback, in flight at the moment it is made or later,
\* change neither it nor the task it is about.
THEOREM DecisionsAreFinal == Spec => [][DecisionsKept]_vars
<1>1. DecidedInv /\ [Next]_vars => [DecisionsKept]_vars
  BY KeptStep DEF DecidedInv
<1>. QED
  BY <1>1, DecidedInvInductive, PTL DEF Spec

LEMMA LeavingStep ==
  ASSUME TypeInv, Deciding, HeldByApproval, OwnApproval', [Next]_vars
  PROVE  LeavesByDecision
<1>. SUFFICES ASSUME NEW t \in Tasks, Waiting(t),
                     tasks'[t].status # "waiting_approval"
              PROVE  /\ approvals'[t] # None
                     /\ approvals'[t].status
                          \in IF tasks'[t].status \in {"queued", "running"}
                              THEN {"approved"} ELSE {"rejected", "expired"}
  BY DEF LeavesByDecision
<1>1. approvals'[t] # None
  BY KeptStep DEF HeldByApproval, DecisionsKept
<1>2. /\ AllowedStep(t, tasks[t], tasks'[t], approvals')
      /\ Exists(t)'
  BY ValidStep DEF Validated, Waiting
<1>3. /\ tasks'[t].approvalRefs \subseteq {t}
      /\ approvals'[t].status # "superseded"
  BY <1>1, <1>2 DEF OwnApproval
<1>4. HasDecision(t, tasks'[t].approvalRefs, approvals',
                  IF tasks'[t].status \in {"queued", "running"}
                  THEN ContinueStatuses ELSE StopStatuses)
  BY <1>2 DEF AllowedStep, ApprovalAllows, Waiting
<1>. QED
  BY <1>1, <1>3, <1>4 DEF HasDecision, ContinueStatuses, StopStatuses

\* No interleaving of decisions, expiry passes, answers and restarts takes a
\* task off hold in another way than its decision says.
THEOREM HoldAlwaysEndsByDecision == Spec => HoldEndsByDecision
<1>1. DecidedInv /\ HeldByApproval /\ IInv' /\ [Next]_vars
        => [LeavesByDecision]_vars
  BY LeavingStep DEF DecidedInv, IInv, Safe
<1>. QED
  BY <1>1, HeldAlways, IInvInductive, PTL DEF Spec, HoldEndsByDecision
=============================================================================
