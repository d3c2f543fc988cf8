---------------------------- MODULE TaskRecovery ----------------------------
(***************************************************************************)
(* What follows the failure of a task: the operator reviews it, and it is  *)
(* either run once more, as a new task, or handed to the technical expert. *)
(*                                                                         *)
(* Four callers hand failures to FailureRecoveryCoordinator.handle, each   *)
(* with the task as it has seen it: the executor, which tries twice; a     *)
(* reporter (小D's reconciler, the Mac worker's bridge); the watchdog, for *)
(* a task that shows no progress; and the owner.  Nothing but the keys of  *)
(* idempotency keeps their calls apart.                                    *)
(*                                                                         *)
(* Task 0 is an ordinary task and task n + 1 the automatic retry of task   *)
(* n, whose recovery.attempt is n.  Tasks executed by a Paperclip employee *)
(* are left out: they are never retried.                                   *)
(***************************************************************************)
EXTENDS Absent, Naturals

CONSTANTS Handlers,             \* calls of handle that may be under way at a time
          MaxAutomaticRetries   \* MAX_AUTOMATIC_RETRIES

\* A review of a stall or of a failure, and its decision.
Reviews == [stalled : BOOLEAN, decision : {"none", "retry", "escalate"}]

ASSUME RetriesAssumption == MaxAutomaticRetries \in Nat
ASSUME RecoveryNoneAssumption == None \notin Reviews

VARIABLES
    fate,          \* the status of each task, as far as recovery looks at it
    retryable,     \* error.retryable of a task that has failed
    coordination,  \* recovery.coordination.status
    asked,         \* recovery.events holds a request_safe_recovery
    reviews,       \* the review of each task, by its key
    repairs,       \* the technical repair by root task: what its content was made of
    handling       \* the calls of handle

recoveryVars == <<fate, retryable, coordination, asked, reviews, repairs, handling>>

Tasks == 0 .. MaxAutomaticRetries + 1

Places == {"free", "stopping", "marking", "asking", "review", "deciding", "decided",
           "retried", "repaired", "giving up"}

\* Where a call of handle is, the task it was given, and who has called.
Handlings ==
    [pc : Places, task : Tasks, stalled : BOOLEAN, retryable : BOOLEAN,
     by : {"nobody", "executor", "reporter", "watchdog", "owner"}, tries : 1 .. 2]

Free == [pc |-> "free", task |-> 0, stalled |-> FALSE, retryable |-> FALSE,
         by |-> "nobody", tries |-> 1]

RecoveryTypeOK ==
    /\ fate \in [Tasks -> {"absent", "running", "failed", "ended"}]
    /\ retryable \in [Tasks -> BOOLEAN]
    /\ coordination \in [Tasks -> {"none", "pending", "retrying", "escalated", "failed", "start_failed"}]
    /\ asked \in [Tasks -> BOOLEAN]
    /\ reviews \in [Tasks -> Reviews \cup {None}]
    /\ repairs \in [Tasks -> (Tasks \X BOOLEAN) \cup {None}]
    /\ handling \in [Handlers -> Handlings]

RecoveryInit ==
    /\ fate = [n \in Tasks |-> IF n = 0 THEN "running" ELSE "absent"]
    /\ retryable = [n \in Tasks |-> FALSE]
    /\ coordination = [n \in Tasks |-> "none"]
    /\ asked = [n \in Tasks |-> FALSE]
    /\ reviews = [n \in Tasks |-> None]
    /\ repairs = [n \in Tasks |-> None]
    /\ handling = [h \in Handlers |-> Free]

-----------------------------------------------------------------------------
HandlerAt(h, where) == handling[h].pc = where
HandlerTo(h, where) == handling' = [handling EXCEPT ![h].pc = where]
Return(h) == handling' = [handling EXCEPT ![h] = Free]

\* h takes up task n, in the state that by has seen.
TakeUp(h, where, n, by, stalled, retry) ==
    /\ HandlerAt(h, "free")
    /\ handling' = [handling EXCEPT ![h] =
          [pc |-> where, task |-> n, stalled |-> stalled, retryable |-> retry, by |-> by, tries |-> 1]]

\* markCoordination and the other writes of the record.
Coordinate(n, status) == coordination' = [coordination EXCEPT ![n] = status]

\* The watchdog's copy of the task has lost recovery.rootTaskId and recovery.attempt.
Attempt(h) == IF handling[h].stalled THEN 0 ELSE handling[h].task
Root(h) == IF handling[h].stalled THEN handling[h].task ELSE 0

-----------------------------------------------------------------------------
(* Tasks and callers *)

Succeed(n) ==
    /\ fate[n] = "running"
    /\ fate' = [fate EXCEPT ![n] = "ended"]
    /\ UNCHANGED <<retryable, coordination, asked, reviews, repairs, handling>>

\* A failure is written and its executor, or whoever reports it, hands it over.
Fail(n, h) ==
    /\ fate[n] = "running"
    /\ fate' = [fate EXCEPT ![n] = "failed"]
    /\ \E retry \in BOOLEAN :
          /\ retryable' = [retryable EXCEPT ![n] = retry]
          /\ \/ TakeUp(h, "marking", n, "executor", FALSE, retry)
             \/ TakeUp(h, "review", n, "reporter", FALSE, retry)
    /\ UNCHANGED <<coordination, asked, reviews, repairs>>

\* markPending, and start, which nobody waits for.
MarkPending(h) ==
    /\ HandlerAt(h, "marking")
    /\ Coordinate(handling[h].task, "pending")
    /\ HandlerTo(h, "review")
    /\ UNCHANGED <<fate, retryable, asked, reviews, repairs>>

\* The list of a pass shows a running task without progress; its error has no retryable.
SeeStall(n, h) ==
    /\ fate[n] = "running"
    /\ \A g \in Handlers : handling[g].by # "watchdog"
    /\ TakeUp(h, "stopping", n, "watchdog", TRUE, FALSE)
    /\ UNCHANGED <<fate, retryable, coordination, asked, reviews, repairs>>

\* Its process has been stopped.  The stores have no save: the task is not written.
ReportStall(h) ==
    /\ HandlerAt(h, "stopping")
    /\ HandlerTo(h, "review")
    /\ UNCHANGED <<fate, retryable, coordination, asked, reviews, repairs>>

\* The page offers a safe recovery, and the request finds the task as the page showed it.
Request(h) ==
    /\ fate[0] = "failed" /\ coordination[0] \in {"none", "failed"} /\ ~ asked[0]
    /\ TakeUp(h, "asking", 0, "owner", FALSE, retryable[0])
    /\ UNCHANGED <<fate, retryable, coordination, asked, reviews, repairs>>

RecordRequest(h) ==
    /\ HandlerAt(h, "asking")
    /\ Coordinate(0, "pending")
    /\ asked' = [asked EXCEPT ![0] = TRUE]
    /\ HandlerTo(h, "review")
    /\ UNCHANGED <<fate, retryable, reviews, repairs>>

-----------------------------------------------------------------------------
(* handle *)

\* The task of the review is created; it is executed before create returns.
CreateReview(h) ==
    /\ HandlerAt(h, "review")
    /\ reviews[handling[h].task] = None
    /\ reviews' = [reviews EXCEPT ![handling[h].task] =
          [stalled |-> handling[h].stalled, decision |-> "none"]]
    /\ HandlerTo(h, "deciding")
    /\ UNCHANGED <<fate, retryable, coordination, asked, repairs>>

\* Mutant of CanRetry: an error that does not say so counts as retryable.
CanRetryAny(h) == Attempt(h) < MaxAutomaticRetries

CanRetry(h) == handling[h].retryable /\ Attempt(h) < MaxAutomaticRetries

\* reviewFailure.  A review may be risky or lack a source or a component, be delegated to
\* Paperclip or fail, and then decides nothing.
Decide(h) ==
    /\ HandlerAt(h, "deciding")
    /\ \E decision \in {"none", "escalate"} \cup {d \in {"retry"} : CanRetry(h)} :
          reviews' = [reviews EXCEPT ![handling[h].task].decision = decision]
    /\ HandlerTo(h, "decided")
    /\ UNCHANGED <<fate, retryable, coordination, asked, repairs>>

\* A review of the same content exists; if it is under way, the call waits for it.
FindReview(h) ==
    /\ HandlerAt(h, "review")
    /\ reviews[handling[h].task] # None
    /\ reviews[handling[h].task].stalled = handling[h].stalled
    /\ \A g \in Handlers : ~ (HandlerAt(g, "deciding") /\ handling[g].task = handling[h].task)
    /\ HandlerTo(h, "decided")
    /\ UNCHANGED <<fate, retryable, coordination, asked, reviews, repairs>>

DirectRetryAllowed(h) ==
    /\ reviews[handling[h].task].decision = "retry"
    /\ Attempt(h) < MaxAutomaticRetries

\* The retry is created under its key, or found.
CreateRetry(h) ==
    /\ HandlerAt(h, "decided")
    /\ DirectRetryAllowed(h)
    /\ fate' = [fate EXCEPT ![handling[h].task + 1] = IF @ = "absent" THEN "running" ELSE @]
    /\ HandlerTo(h, "retried")
    /\ UNCHANGED <<retryable, coordination, asked, reviews, repairs>>

\* The repair is created under the key of the root task, or found with the same content.
CreateRepair(h) ==
    LET content == <<handling[h].task, handling[h].stalled>>
    IN  /\ HandlerAt(h, "decided")
        /\ ~ DirectRetryAllowed(h)
        /\ repairs[Root(h)] \in {None, content}
        /\ repairs' = [repairs EXCEPT ![Root(h)] = content]
        /\ HandlerTo(h, "repaired")
        /\ UNCHANGED <<fate, retryable, coordination, asked, reviews>>

\* markCoordination; a retry may run on, or have ended.
Conclude(h) ==
    /\ \/ HandlerAt(h, "retried") /\ Coordinate(handling[h].task, "retrying")
       \/ HandlerAt(h, "repaired") /\ Coordinate(handling[h].task, "escalated")
    /\ Return(h)
    /\ UNCHANGED <<fate, retryable, asked, reviews, repairs>>

\* What happens to an error of handle depends on who has called it.
Rethrow(h) ==
    \/ /\ handling[h].by = "executor" /\ handling[h].tries = 1
       /\ handling' = [handling EXCEPT ![h].pc = "review", ![h].tries = 2]
       /\ UNCHANGED coordination
    \/ /\ handling[h].by = "executor" /\ handling[h].tries = 2
       /\ HandlerTo(h, "giving up")
       /\ UNCHANGED coordination
    \/ /\ handling[h].by = "owner"
       /\ Coordinate(handling[h].task, "failed")
       /\ Return(h)
    \/ /\ handling[h].by = "reporter"
       /\ Coordinate(handling[h].task, "pending")
       /\ Return(h)
    \/ /\ handling[h].by \in {"reporter", "watchdog"}
       /\ Return(h)
       /\ UNCHANGED coordination

\* A call of a store or of Paperclip fails; or a key is bound to another content, and then
\* handle can do nothing else.
Break(h) ==
    /\ handling[h].pc \in {"review", "deciding", "decided", "retried", "repaired"}
    /\ Rethrow(h)
    /\ UNCHANGED <<fate, retryable, asked, reviews, repairs>>

\* recordStartFailure
GiveUp(h) ==
    /\ HandlerAt(h, "giving up")
    /\ Coordinate(handling[h].task, "start_failed")
    /\ Return(h)
    /\ UNCHANGED <<fate, retryable, asked, reviews, repairs>>

\* A restart of the runtime: no call survives, and a task a local executor ran is set to
\* waiting_test.
Reboot ==
    /\ handling' = [h \in Handlers |-> Free]
    /\ \E local \in SUBSET {n \in Tasks : fate[n] = "running"} :
          fate' = [n \in Tasks |-> IF n \in local THEN "ended" ELSE fate[n]]
    /\ UNCHANGED <<retryable, coordination, asked, reviews, repairs>>

CallStep(h) ==
    \/ MarkPending(h) \/ ReportStall(h) \/ Request(h) \/ RecordRequest(h)
    \/ CreateReview(h) \/ Decide(h) \/ FindReview(h) \/ CreateRetry(h) \/ CreateRepair(h)
    \/ Conclude(h) \/ Break(h) \/ GiveUp(h)

RecoveryNext ==
    \/ \E n \in Tasks : Succeed(n)
    \/ \E n \in Tasks, h \in Handlers : Fail(n, h) \/ SeeStall(n, h)
    \/ \E h \in Handlers : CallStep(h)
    \/ Reboot

RecoverySpec == RecoveryInit /\ [][RecoveryNext]_recoveryVars

-----------------------------------------------------------------------------
(* Properties *)

\* A task is run again only after its failure is stored, and only if its error allows it;
\* never beside its original, and no more than MaxAutomaticRetries times in a row, whoever
\* hands it over and however often, and whatever is lost on the way.
RetryAfterFailure ==
    /\ \A n \in 0 .. MaxAutomaticRetries :
          fate[n + 1] # "absent" => fate[n] = "failed" /\ retryable[n]
    /\ fate[MaxAutomaticRetries + 1] = "absent"
=============================================================================
