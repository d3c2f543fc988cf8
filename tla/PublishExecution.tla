-------------------------- MODULE PublishExecution --------------------------
(***************************************************************************)
(* PublishExecution.publish of the publisher gateway.  Each process puts   *)
(* its publications one behind the other (publishTail).  A publication     *)
(* reads the safety latch and the grant, claims its idempotency key in the *)
(* ledger, checks the budget, marks the attempt as invoking, asks the      *)
(* platform and writes down what came of it; whatever is not clear pauses  *)
(* the campaign in Paperclip, and if that fails the gateway stops for good.*)
(*                                                                         *)
(* The ledger is updated by transactions (see LedgerLock).  A transaction  *)
(* may throw, before or after its write: the lock was not to be had, or    *)
(* was lost.  One campaign is modelled; a key stands for campaign,         *)
(* platform, content version and date.                                     *)
(***************************************************************************)
EXTENDS Absent, FiniteSets, Naturals

CONSTANTS Keys, Processes,
          Slot,        \* platform and date of a key
          Content,     \* platform and checksum of a key
          TotalLimit   \* totalPublishLimit of the grant

ASSUME LimitAssumption == TotalLimit \in Nat
ASSUME NoneAssumption == None \notin Keys

VARIABLES
    attempt,  \* state.attempts and state.receipts of the ledger
    latch,    \* state.safetyLatch of the ledger
    stopped,  \* processHardStop, in the memory of a process
    grant,    \* the CampaignGrant in Paperclip
    job,      \* the publication each process is at
    posted    \* what is on the platform

vars == <<attempt, latch, stopped, grant, job, posted>>

\* The state of an attempt; "budget" is blocked for want of a budget, which is
\* the only block that is lifted by a retry.  "recorded" has its receipt.
AttemptStates == {"none", "prepared", "invoking", "budget", "blocked", "stopped",
                  "ambiguous", "succeeded", "recorded"}

Answers == {"none", "published", "stopped", "unclear"}

Jobs == [pc : {"start", "operational", "granted", "claimed", "funded", "invoked", "bill",
               "settle", "receipt", "pause", "latch"},
         key : Keys,
         answer : Answers]

Idle == [pc |-> "idle", key |-> None, answer |-> "none"]

TypeOK ==
    /\ attempt \in [Keys -> AttemptStates]
    /\ latch \in BOOLEAN
    /\ stopped \in [Processes -> BOOLEAN]
    /\ grant \in {"active", "paused"}
    /\ job \in [Processes -> Jobs \cup {Idle}]
    /\ posted \in [Keys -> Nat]

Init ==
    /\ attempt = [k \in Keys |-> "none"]
    /\ latch = FALSE
    /\ stopped = [p \in Processes |-> FALSE]
    /\ grant = "active"
    /\ job = [p \in Processes |-> Idle]
    /\ posted = [k \in Keys |-> 0]

At(p, where) == job[p].pc = where

Goto(p, where) == job' = [job EXCEPT ![p].pc = where]

Give(p) == job' = [job EXCEPT ![p] = Idle]

\* repository.update: the attempt of the process's key gets a state and the
\* publication goes on, or the transaction throws, with or without its effect.
Commit(p, state, where) ==
    LET written == [attempt EXCEPT ![job[p].key] = state]
    IN  \/ attempt' = written /\ Goto(p, where)
        \/ attempt' \in {attempt, written} /\ Give(p)

\* The same for the last transaction of a publication.
CommitLast(p, state) ==
    /\ attempt' \in {attempt, [attempt EXCEPT ![job[p].key] = state]}
    /\ Give(p)

-----------------------------------------------------------------------------
(* Before the claim: nothing is written *)

\* publish, and the turn of the request in publishTail.
Begin(p, k) ==
    /\ At(p, "idle")
    /\ job' = [job EXCEPT ![p] = [pc |-> "start", key |-> k, answer |-> "none"]]
    /\ UNCHANGED <<attempt, latch, stopped, grant, posted>>

\* assertOperational: a latch found in the ledger is remembered.
CheckLatch(p) ==
    /\ At(p, "start")
    /\ stopped' = [stopped EXCEPT ![p] = @ \/ latch]
    /\ IF stopped'[p] THEN Give(p) ELSE Goto(p, "operational")
    /\ UNCHANGED <<attempt, latch, grant, posted>>

\* withCanonicalGrant: Paperclip's present grant, or an error.
ReadGrant(p) ==
    /\ At(p, "operational")
    /\ \/ grant = "active" /\ Goto(p, "granted")
       \/ Give(p)
    /\ UNCHANGED <<attempt, latch, stopped, grant, posted>>

\* The request fails validation, the account's quota, the connector's approval
\* or the check of its media file.
Refuse(p) ==
    /\ At(p, "granted")
    /\ Give(p)
    /\ UNCHANGED <<attempt, latch, stopped, grant, posted>>

-----------------------------------------------------------------------------
(* The claim *)

Recorded == {k \in Keys : attempt[k] = "recorded"}

\* The limits of the grant and the ban on duplicates count receipts.
OverLimit(k) ==
    \/ Cardinality(Recorded) >= TotalLimit
    \/ \E r \in Recorded : Slot[r] = Slot[k]

Duplicate(k) == \E r \in Recorded : Content[r] = Content[k]

\* A receipt is replayed to the caller.
Replay(p) ==
    /\ At(p, "granted")
    /\ attempt[job[p].key] = "recorded"
    /\ Give(p)
    /\ UNCHANGED <<attempt, latch, stopped, grant, posted>>

\* Mutant of Claim: an attempt whose end is not known is tried again.
ClaimAmbiguous(p) ==
    LET k == job[p].key
    IN  /\ At(p, "granted")
        /\ attempt[k] \in {"none", "budget", "ambiguous"}
        /\ Commit(p, "prepared", "claimed")
        /\ UNCHANGED <<latch, stopped, grant, posted>>

Claim(p) ==
    LET k == job[p].key
    IN  /\ At(p, "granted")
        /\ \/ attempt[k] = "budget" /\ Commit(p, "prepared", "claimed")
           \/ /\ attempt[k] = "none"
              /\ ~ OverLimit(k) /\ ~ Duplicate(k)
              /\ Commit(p, "prepared", "claimed")
           \/ /\ attempt[k] = "none"
              /\ OverLimit(k) \/ Duplicate(k)
              /\ Commit(p, "blocked", "pause")
        /\ UNCHANGED <<latch, stopped, grant, posted>>

\* publish_attempt_ambiguous: any other attempt needs a person to look at it.
RefuseRetry(p) ==
    /\ At(p, "granted")
    /\ attempt[job[p].key] \notin {"none", "budget", "recorded"}
    /\ Goto(p, "pause") \/ Give(p)
    /\ UNCHANGED <<attempt, latch, stopped, grant, posted>>

-----------------------------------------------------------------------------
(* The call of the platform *)

\* No connector for the platform, no budget to be had, or a budget.
CheckBudget(p) ==
    /\ At(p, "claimed")
    /\ \/ Commit(p, "ambiguous", "pause")
       \/ Commit(p, "budget", "pause")
       \/ Goto(p, "funded") /\ UNCHANGED attempt
    /\ UNCHANGED <<latch, stopped, grant, posted>>

Invoke(p) ==
    /\ At(p, "funded")
    /\ Commit(p, "invoking", "invoked")
    /\ UNCHANGED <<latch, stopped, grant, posted>>

\* The connector's approval is checked once more and has run out.
ApprovalLapsed(p) ==
    /\ At(p, "invoked")
    /\ CommitLast(p, "blocked")
    /\ UNCHANGED <<latch, stopped, grant, posted>>

\* connector.publish: published, stopped, or unclear (an error, no evidence, another
\* account).  A connector also answers "stopped" when the publish button has been clicked
\* or the video created, so only "published" says what has become of the content.
Ask(p) ==
    /\ At(p, "invoked")
    /\ \E answer \in Answers \ {"none"}, publishes \in BOOLEAN :
        /\ answer = "published" => publishes
        /\ posted' = IF publishes THEN [posted EXCEPT ![job[p].key] = @ + 1] ELSE posted
        /\ job' = [job EXCEPT ![p].pc = "bill", ![p].answer = answer]
    /\ UNCHANGED <<attempt, latch, stopped, grant>>

\* Mutant of Bill: a publication whose cost is not certain is blocked like one that was
\* never made.
BillOrBlock(p) ==
    /\ At(p, "bill")
    /\ \/ Goto(p, "settle") /\ UNCHANGED attempt
       \/ Commit(p, "blocked", "pause")
    /\ UNCHANGED <<latch, stopped, grant, posted>>

\* recordLocalZeroAttempt: the cost is recorded or its record is not certain.
Bill(p) ==
    /\ At(p, "bill")
    /\ \/ Goto(p, "settle") /\ UNCHANGED attempt
       \/ Commit(p, "ambiguous", "pause")
    /\ UNCHANGED <<latch, stopped, grant, posted>>

\* Unclear results and stops; a stop pauses the campaign at once or, for the
\* milder reasons, the second time in a row.
Settle(p) ==
    /\ At(p, "settle")
    /\ \/ job[p].answer = "unclear" /\ Commit(p, "ambiguous", "pause")
       \/ job[p].answer = "stopped" /\ (Commit(p, "stopped", "pause") \/ CommitLast(p, "stopped"))
       \/ job[p].answer = "published" /\ Commit(p, "succeeded", "receipt")
    /\ UNCHANGED <<latch, stopped, grant, posted>>

WriteReceipt(p) ==
    /\ At(p, "receipt")
    /\ CommitLast(p, "recorded")
    /\ UNCHANGED <<latch, stopped, grant, posted>>

-----------------------------------------------------------------------------
(* Pause and hard stop *)

\* pauseInPaperclip: confirmed and noted, or not, in which case Paperclip may have
\* paused the campaign all the same.
Pause(p) ==
    /\ At(p, "pause")
    /\ \/ grant' = "paused" /\ Give(p)
       \/ grant' \in {grant, "paused"} /\ Goto(p, "latch")
    /\ UNCHANGED <<attempt, latch, stopped, posted>>

\* activateGlobalHardStop: first in memory, then in the ledger if that can be written.
ActivateHardStop(p) ==
    /\ stopped' = [stopped EXCEPT ![p] = TRUE]
    /\ latch' \in {latch, TRUE}

HardStop(p) ==
    /\ At(p, "latch")
    /\ ActivateHardStop(p)
    /\ Give(p)
    /\ UNCHANGED <<attempt, grant, posted>>

\* The collection of metrics in the same gateway may stop it at any time.
MetricHardStop(p) ==
    /\ ActivateHardStop(p)
    /\ UNCHANGED <<attempt, grant, job, posted>>

\* The process ends and starts anew.
Crash(p) ==
    /\ Give(p)
    /\ stopped' = [stopped EXCEPT ![p] = FALSE]
    /\ UNCHANGED <<attempt, latch, grant, posted>>

\* The owner or Paperclip's board pauses or resumes the campaign.
OwnerDecides ==
    /\ grant' \in {"active", "paused"} \ {grant}
    /\ UNCHANGED <<attempt, latch, stopped, job, posted>>

Publish(p) ==
    \/ \E k \in Keys : Begin(p, k)
    \/ CheckLatch(p) \/ ReadGrant(p) \/ Refuse(p)
    \/ Replay(p) \/ Claim(p) \/ RefuseRetry(p)
    \/ CheckBudget(p) \/ Invoke(p) \/ ApprovalLapsed(p) \/ Ask(p)
    \/ Bill(p) \/ Settle(p) \/ WriteReceipt(p)
    \/ Pause(p) \/ HardStop(p)

Next ==
    \/ \E p \in Processes : Publish(p) \/ MetricHardStop(p) \/ Crash(p)
    \/ OwnerDecides

Spec == Init /\ [][Next]_vars

-----------------------------------------------------------------------------
(* Properties *)

\* The keys the platform may still be asked for: not tried, blocked for a budget,
\* or held by a publication that has not asked yet.
Held(p) == job[p].pc \in {"claimed", "funded", "invoked"}

OpenKeys ==
    {k \in Keys : attempt[k] \in {"none", "budget"}}
        \cup {job[p].key : p \in {q \in Processes : Held(q)}}

Contract == INSTANCE PublishContract WITH
    open <- OpenKeys,
    posted <- {k \in Keys : posted[k] > 0},
    receipts <- Recorded

\* README, "同一幂等键只执行一次": the platform is asked once for a key, however often
\* it is requested, by however many processes, whatever they lose in a crash.
PublishesOnce == Contract!Spec

\* README, "外发前持久化 attempt": what is on the platform is found in the ledger as a call
\* that was made, whose end may not be known or be said to be a stop; never as untried, or
\* as refused before the call.
Traceable ==
    \A k \in Keys : posted[k] > 0 =>
        attempt[k] \in {"invoking", "ambiguous", "stopped", "succeeded", "recorded"}

\* README, "活动总量和单日平台上限触发暂停": the platform gets one publication per
\* platform and day.
DailyLimit ==
    \A k, l \in Keys : posted[k] > 0 /\ posted[l] > 0 /\ Slot[k] = Slot[l] => k = l
=============================================================================
