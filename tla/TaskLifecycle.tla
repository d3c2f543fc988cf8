--------------------------- MODULE TaskLifecycle ---------------------------
(***************************************************************************)
(* The status machine of a task record: the statuses, the transition       *)
(* matrix, the approval rules of a patch and the retry rule, as            *)
(* validateTaskStatusPatch in apps/ajun-runtime/src/task-lifecycle.ts      *)
(* decides them.  Every write of a task goes through it (both stores call  *)
(* it inside their transaction), so the state machines of this project     *)
(* guard each of their writes with AllowedStep.                            *)
(*                                                                         *)
(* A task is a record with at least the fields status, attempt and         *)
(* approvalRefs (a set of approval ids); `known' is the approvals the      *)
(* store holds, a function from approval ids to records with the fields    *)
(* task and status.                                                        *)
(***************************************************************************)
EXTENDS Naturals

TaskStatuses ==
  {"received", "needs_input", "queued", "running", "waiting_worker",
   "pausing", "paused", "waiting_approval", "waiting_test", "succeeded",
   "failed", "cancelled", "expired"}

TerminalStatuses ==
  {"waiting_test", "succeeded", "failed", "cancelled", "expired"}

\* The only statuses a terminal task may be retried into.
RetryEntryStatuses == {"received", "queued"}

ApprovalStatuses ==
  {"pending", "approved", "rejected", "expired", "superseded"}

\* Mutant of ContinueStatuses: an undecided approval lets a task go on.
ContinueOrPending == {"approved", "superseded", "pending"}

\* Decisions that let a held task go on, and decisions that let it stop.
ContinueStatuses == {"approved", "superseded"}
StopStatuses     == {"rejected", "expired", "superseded"}

Transitions ==
  [ received         |-> {"needs_input", "queued", "cancelled"},
    needs_input      |-> {"queued", "expired", "cancelled"},
    queued           |-> {"needs_input", "running", "waiting_worker",
                          "waiting_approval", "waiting_test", "failed",
                          "cancelled"},
    running          |-> {"needs_input", "waiting_worker",
                          "waiting_approval", "pausing", "waiting_test",
                          "succeeded", "failed", "cancelled"},
    waiting_worker   |-> {"queued", "running", "needs_input",
                          "waiting_approval", "waiting_test", "failed",
                          "cancelled"},
    pausing          |-> {"running", "paused", "waiting_test", "failed",
                          "cancelled"},
    paused           |-> {"queued", "running", "waiting_approval", "failed",
                          "cancelled"},
    waiting_approval |-> {"queued", "running", "needs_input", "failed",
                          "cancelled", "expired"},
    waiting_test     |-> {"succeeded", "failed", "cancelled"},
    succeeded        |-> {},
    failed           |-> {},
    cancelled        |-> {},
    expired          |-> {} ]

-----------------------------------------------------------------------------
\* assertTaskApprovalDecision: one approval among refs is about this task and
\* its decision is one of `accepted'.  Any of them will do.
HasDecision(id, refs, known, accepted) ==
  \E a \in refs : known[a].task = id /\ known[a].status \in accepted

\* What the approvals must say before a patch may move a task into
\* waiting_approval, or out of it.
ApprovalAllows(id, from, new, known) ==
  LET to == new.status IN
  /\ (from # to /\ to = "waiting_approval")
       => HasDecision(id, new.approvalRefs, known, {"pending"})
  /\ (from = "waiting_approval" /\ from # to)
       => HasDecision(id, new.approvalRefs, known,
                      IF to \in {"queued", "running"}
                      THEN ContinueStatuses ELSE StopStatuses)

\* A terminal task re-enters the queue only as its next attempt.
RetryAllowed(old, new) ==
  /\ old.status \in TerminalStatuses
  /\ new.status \in RetryEntryStatuses
  /\ new.attempt = old.attempt + 1

\* Mutant of TransitionAllowed: a task may not be given the status it has.
MovesOnly(from, to) == to \in Transitions[from]

\* waiting_test is terminal and yet may still be judged.
TransitionAllowed(from, to) ==
  \/ from = to
  \/ from = "waiting_test" /\ to \in {"succeeded", "failed", "cancelled"}
  \/ from \notin TerminalStatuses /\ to \in Transitions[from]

\* validateTaskStatusPatch: may the stored task `old' become `new'?
AllowedStep(id, old, new, known) ==
  /\ new.status \in TaskStatuses
  /\ ApprovalAllows(id, old.status, new, known)
  /\ TransitionAllowed(old.status, new.status) \/ RetryAllowed(old, new)

\* applyApprovalPatch: a decided approval keeps its decision.
ApprovalStepAllowed(from, to) == from = "pending" \/ from = to
=============================================================================
