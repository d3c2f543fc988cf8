-------------------------- MODULE MetricCollection --------------------------
(***************************************************************************)
(* The collection of one metric checkpoint of a published content:         *)
(* MetricCollectionExecution.collect, and MetricInvocationRecovery, by      *)
(* which a person concludes an invocation whose end nobody knows.          *)
(*                                                                         *)
(* A collection claims the attempt in the ledger, checks the budget, marks *)
(* the attempt as invoking, reads the platform and writes the snapshot.    *)
(* Only a claim that has not begun to invoke lapses.  A claim token is     *)
(* named by the retryCount it comes with.  As in PublishExecution a        *)
(* transaction of the ledger may throw, before or after its write.         *)
(***************************************************************************)
EXTENDS Absent, Naturals

CONSTANTS Collectors,  \* the processes that collect
          Auths,       \* authorisations a person may get for a conclusion
          Effect,      \* those of them that conclude external_effect_verified
          MaxRetries   \* MAX_METRIC_RETRIES

ASSUME TriesAssumption == MaxRetries \in Nat
ASSUME MetricNoneAssumption == None \notin 0 .. MaxRetries /\ None \notin Effect

VARIABLES
    metricAttempt, \* state.attempts["metric:" + collectionKey]
    lapsed,        \* the claimExpiresAt of a prepared attempt has passed
    snapshots,     \* the claims whose result is in state.metricSnapshots
    metricLatch,   \* state.safetyLatch
    metricStopped, \* processHardStop of each process
    paused,        \* Paperclip has paused the campaign, whatever its owner did since
    collection,    \* the collection each process is at
    review,        \* the call of reconcileMetricInvocation for each authorisation
    concluded,     \* history: which authorisation has concluded which claim
    reads          \* history: claims for which the platform has been read

metricVars == <<metricAttempt, lapsed, snapshots, metricLatch, metricStopped, paused, collection,
                review, concluded, reads>>

Claims == 0 .. MaxRetries

\* "hard" is blocked with hardStop; "noted" is that pauseControl is there.
Attempts == [state : {"none", "prepared", "invoking", "stopped", "blocked", "hard", "failed",
                      "recorded"},
             retryCount : Claims,
             claimToken : Claims \cup {None},
             noted : BOOLEAN,
             recovery : Auths \cup {None}]

Collections ==
    [pc : {"start", "operational", "claimed", "funded", "invoked", "read", "stop", "pause"},
     token : Claims \cup {None},
     answer : {"none", "values", "error", "hard", "unsaved"}]

NoCollection == [pc |-> "idle", token |-> None, answer |-> "none"]

NoReview == [pc |-> "idle", token |-> None]

MetricTypeOK ==
    /\ metricAttempt \in Attempts
    /\ lapsed \in BOOLEAN /\ metricLatch \in BOOLEAN /\ paused \in BOOLEAN
    /\ snapshots \subseteq Claims /\ reads \subseteq Claims
    /\ metricStopped \in [Collectors -> BOOLEAN]
    /\ collection \in [Collectors -> Collections \cup {NoCollection}]
    /\ review \in [Auths -> [pc : {"idle", "authorised", "commit"}, token : Claims \cup {None}]]
    /\ concluded \subseteq Auths \X Claims

MetricInit ==
    /\ metricAttempt = [state |-> "none", retryCount |-> 0, claimToken |-> None,
                  noted |-> FALSE, recovery |-> None]
    /\ lapsed = FALSE /\ metricLatch = FALSE /\ paused = FALSE
    /\ snapshots = {} /\ reads = {}
    /\ metricStopped = [p \in Collectors |-> FALSE]
    /\ collection = [p \in Collectors |-> NoCollection]
    /\ review = [a \in Auths |-> NoReview]
    /\ concluded = {}

CollectionAt(p, where) == collection[p].pc = where
CollectionTo(p, where) == collection' = [collection EXCEPT ![p].pc = where]
EndCollection(p) == collection' = [collection EXCEPT ![p] = NoCollection]

\* A transaction of process p: it leaves the attempt as given and the collection
\* goes on, or it throws, with or without its effect.
Transact(p, written, where) ==
    \/ metricAttempt' = written /\ CollectionTo(p, where)
    \/ metricAttempt' \in {metricAttempt, written} /\ EndCollection(p)

TransactLast(p, written) == metricAttempt' \in {metricAttempt, written} /\ EndCollection(p)

\* Mutant of Holds: the claim token is not compared.
HoldsAny(p) == collection[p].token # None

Holds(p) == metricAttempt.claimToken = collection[p].token

\* stopMetricAttempt and blockMetricAttempt: only the holder of the claim writes.
Ended(p, state) ==
    IF Holds(p) THEN [metricAttempt EXCEPT !.state = state, !.claimToken = None] ELSE metricAttempt

-----------------------------------------------------------------------------
(* collect *)

BeginCollection(p) ==
    /\ CollectionAt(p, "idle")
    /\ CollectionTo(p, "start")
    /\ UNCHANGED <<metricAttempt, lapsed, snapshots, metricLatch, metricStopped, paused, review, concluded, reads>>

AssertOperational(p) ==
    /\ CollectionAt(p, "start")
    /\ metricStopped' = [metricStopped EXCEPT ![p] = @ \/ metricLatch]
    /\ IF metricStopped'[p] THEN EndCollection(p) ELSE CollectionTo(p, "operational")
    /\ UNCHANGED <<metricAttempt, lapsed, snapshots, metricLatch, paused, review, concluded, reads>>

Replays == snapshots # {}

\* Mutant of Active: invoking is no fence.
ActiveClaim == metricAttempt.state = "prepared" /\ ~ lapsed

Active ==
    \/ metricAttempt.state = "invoking"
    \/ metricAttempt.state = "prepared" /\ ~ lapsed

NextTry == IF metricAttempt.state = "none" THEN 0 ELSE metricAttempt.retryCount + 1

\* The claim: the retry carries the note of an earlier pause, but no recovery.
ClaimCheckpoint(p) ==
    /\ CollectionAt(p, "operational")
    /\ ~ Replays /\ metricAttempt.state # "hard" /\ ~ Active
    /\ NextTry <= MaxRetries
    /\ LET claimed == [state |-> "prepared", retryCount |-> NextTry, claimToken |-> NextTry,
                       noted |-> metricAttempt.noted, recovery |-> None]
       IN  \/ /\ metricAttempt' = claimed
              /\ collection' = [collection EXCEPT ![p].pc = "claimed", ![p].token = NextTry]
           \/ metricAttempt' = claimed /\ EndCollection(p)
    /\ lapsed' = FALSE
    /\ UNCHANGED <<snapshots, metricLatch, metricStopped, paused, review, concluded, reads>>

\* A replay, an attempt under way, no try left, a checkpoint that is not due, a failed
\* transaction; or an attempt stopped hard, whose pause is made up for.
RefuseCollection(p) ==
    /\ CollectionAt(p, "operational")
    /\ IF ~ Replays /\ metricAttempt.state = "hard" /\ ~ metricAttempt.noted
       THEN CollectionTo(p, "pause") \/ EndCollection(p)
       ELSE EndCollection(p)
    /\ UNCHANGED <<metricAttempt, lapsed, snapshots, metricLatch, metricStopped, paused, review, concluded, reads>>

\* No connector, no approval of it, or no budget.
Prepare(p) ==
    /\ CollectionAt(p, "claimed")
    /\ \/ TransactLast(p, Ended(p, "stopped"))
       \/ TransactLast(p, Ended(p, "blocked"))
       \/ Transact(p, Ended(p, "blocked"), "pause")
       \/ CollectionTo(p, "funded") /\ UNCHANGED metricAttempt
    /\ UNCHANGED <<lapsed, snapshots, metricLatch, metricStopped, paused, review, concluded, reads>>

InvokeMetrics(p) ==
    /\ CollectionAt(p, "funded")
    /\ IF Holds(p) /\ metricAttempt.state = "prepared"
       THEN Transact(p, [metricAttempt EXCEPT !.state = "invoking"], "invoked")
       ELSE EndCollection(p) /\ UNCHANGED metricAttempt
    /\ UNCHANGED <<lapsed, snapshots, metricLatch, metricStopped, paused, review, concluded, reads>>

MetricApprovalLapsed(p) ==
    /\ CollectionAt(p, "invoked")
    /\ TransactLast(p, Ended(p, "blocked"))
    /\ UNCHANGED <<lapsed, snapshots, metricLatch, metricStopped, paused, review, concluded, reads>>

\* connector.readOwnMetrics: values, an error, or an error that is a hard stop.
ReadOwnMetrics(p) ==
    /\ CollectionAt(p, "invoked")
    /\ reads' = reads \cup {collection[p].token}
    /\ \E answer \in {"values", "error", "hard"} :
         collection' = [collection EXCEPT ![p].pc = IF answer = "hard" THEN "stop" ELSE "read",
                            ![p].answer = answer]
    /\ UNCHANGED <<metricAttempt, lapsed, snapshots, metricLatch, metricStopped, paused, review, concluded>>

\* A hard stop goes on to the pause even if its transaction throws.
BlockHard(p) ==
    /\ CollectionAt(p, "stop")
    /\ \/ metricAttempt' = Ended(p, "hard") /\ CollectionTo(p, "pause")
       \/ /\ metricAttempt' \in {metricAttempt, Ended(p, "hard")}
          /\ collection' = [collection EXCEPT ![p].pc = "pause", ![p].answer = "unsaved"]
    /\ UNCHANGED <<lapsed, snapshots, metricLatch, metricStopped, paused, review, concluded, reads>>

StopGateway(p) ==
    /\ metricStopped' = [metricStopped EXCEPT ![p] = TRUE]
    /\ metricLatch' \in {metricLatch, TRUE}

Noted == [metricAttempt EXCEPT !.noted = TRUE]

\* pauseInPaperclip, and the stop of the gateway if that fails or if the attempt
\* could not be marked.
PauseCampaign(p) ==
    /\ CollectionAt(p, "pause")
    /\ \/ paused' = TRUE /\ metricAttempt' = Noted /\ collection[p].answer # "unsaved"
          /\ UNCHANGED <<metricLatch, metricStopped>>
       \/ paused' \in {paused, TRUE} /\ metricAttempt' \in {metricAttempt, Noted} /\ StopGateway(p)
    /\ EndCollection(p)
    /\ UNCHANGED <<lapsed, snapshots, review, concluded, reads>>

\* The cost is not certain, the read failed, or the last transaction throws.
FailCollection(p) ==
    /\ CollectionAt(p, "read")
    /\ TransactLast(p, Ended(p, "stopped"))
    /\ UNCHANGED <<lapsed, snapshots, metricLatch, metricStopped, paused, review, concluded, reads>>

WriteSnapshot(p) ==
    /\ CollectionAt(p, "read")
    /\ collection[p].answer = "values"
    /\ IF ~ Replays /\ Holds(p) /\ metricAttempt.state = "invoking"
       THEN /\ snapshots' = snapshots \cup {collection[p].token}
            /\ metricAttempt' = [metricAttempt EXCEPT !.state = "recorded", !.claimToken = None]
       ELSE UNCHANGED <<snapshots, metricAttempt>>
    /\ EndCollection(p)
    /\ UNCHANGED <<lapsed, metricLatch, metricStopped, paused, review, concluded, reads>>

-----------------------------------------------------------------------------
(* reconcileMetricInvocation *)

\* An invoking attempt and an authorisation no attempt in the ledger was concluded
\* with; Paperclip confirms the authorisation, twice.  It stays valid there.
AuthoriseReview(a) ==
    /\ review[a].pc = "idle"
    /\ metricAttempt.recovery = None
    /\ metricAttempt.state = "invoking"
    /\ review' = [review EXCEPT ![a] = [pc |-> IF a \in Effect THEN "authorised" ELSE "commit",
                                        token |-> metricAttempt.claimToken]]
    /\ UNCHANGED <<metricAttempt, lapsed, snapshots, metricLatch, metricStopped, paused, collection, concluded, reads>>

\* Mutant of PauseFirst: the conclusion is written though the pause has failed.
PauseOrNot(a) ==
    /\ review[a].pc = "authorised"
    /\ paused' \in BOOLEAN /\ (paused => paused')
    /\ metricAttempt' \in {metricAttempt, Noted}
    /\ review' = [review EXCEPT ![a].pc = "commit"]
    /\ UNCHANGED <<lapsed, snapshots, metricLatch, metricStopped, collection, concluded, reads>>

\* A verified effect pauses the campaign before it is written down; a pause that
\* fails stops the gateway and the review.
PauseFirst(a) ==
    /\ review[a].pc = "authorised"
    /\ \/ /\ paused' = TRUE /\ metricAttempt' = Noted
          /\ review' = [review EXCEPT ![a].pc = "commit"]
          /\ UNCHANGED <<metricLatch, metricStopped>>
       \/ /\ paused' \in {paused, TRUE} /\ metricAttempt' \in {metricAttempt, Noted}
          /\ \E p \in Collectors : StopGateway(p)
          /\ review' = [review EXCEPT ![a] = NoReview]
    /\ UNCHANGED <<lapsed, snapshots, collection, concluded, reads>>

Unchanged(a) ==
    /\ metricAttempt.state = "invoking"
    /\ metricAttempt.claimToken = review[a].token

\* The conclusion is written if the attempt is still the one it was given for.  If
\* the transaction throws, a verified effect stops the gateway.
ConcludeReview(a) ==
    LET written == [metricAttempt EXCEPT !.state = IF a \in Effect THEN "hard" ELSE "failed",
                                   !.recovery = a, !.claimToken = None]
    IN  /\ review[a].pc = "commit"
        /\ \/ /\ metricAttempt.recovery = None /\ Unchanged(a)
              /\ metricAttempt' = written
              /\ concluded' = concluded \cup {<<a, review[a].token>>}
              /\ UNCHANGED <<metricLatch, metricStopped>>
           \/ /\ ~ (metricAttempt.recovery = None /\ Unchanged(a))
              /\ UNCHANGED <<metricAttempt, concluded, metricLatch, metricStopped>>
           \/ /\ UNCHANGED <<metricAttempt, concluded>>
              /\ IF a \in Effect THEN \E p \in Collectors : StopGateway(p)
                                 ELSE UNCHANGED <<metricLatch, metricStopped>>
        /\ review' = [review EXCEPT ![a] = NoReview]
        /\ UNCHANGED <<lapsed, snapshots, paused, collection, reads>>

-----------------------------------------------------------------------------
(* The environment *)

ClaimExpires ==
    /\ metricAttempt.state = "prepared" /\ ~ lapsed
    /\ lapsed' = TRUE
    /\ UNCHANGED <<metricAttempt, snapshots, metricLatch, metricStopped, paused, collection, review, concluded, reads>>

CollectorCrash(p) ==
    /\ EndCollection(p)
    /\ metricStopped' = [metricStopped EXCEPT ![p] = FALSE]
    /\ UNCHANGED <<metricAttempt, lapsed, snapshots, metricLatch, paused, review, concluded, reads>>

ReviewLost(a) ==
    /\ review' = [review EXCEPT ![a] = NoReview]
    /\ UNCHANGED <<metricAttempt, lapsed, snapshots, metricLatch, metricStopped, paused, collection, concluded, reads>>

Collect(p) ==
    \/ BeginCollection(p) \/ AssertOperational(p) \/ ClaimCheckpoint(p) \/ RefuseCollection(p)
    \/ Prepare(p) \/ InvokeMetrics(p) \/ MetricApprovalLapsed(p) \/ ReadOwnMetrics(p)
    \/ BlockHard(p) \/ PauseCampaign(p) \/ FailCollection(p) \/ WriteSnapshot(p)

MetricNext ==
    \/ \E p \in Collectors : Collect(p) \/ CollectorCrash(p)
    \/ \E a \in Auths : AuthoriseReview(a) \/ PauseFirst(a) \/ ConcludeReview(a) \/ ReviewLost(a)
    \/ ClaimExpires

MetricSpec == MetricInit /\ [][MetricNext]_metricVars

-----------------------------------------------------------------------------
(* Properties *)

ConcludedClaims == {c \in Claims : \E a \in Auths : <<a, c>> \in concluded}

Reading(p) == collection[p].pc \in {"invoked", "stop", "read"}

\* README, "进入 invoking 后成为持久栅栏": two collections are at the platform at the
\* same time only if a person has concluded the older one.
OneReader ==
    \A p, q \in Collectors :
        Reading(p) /\ Reading(q) /\ p # q =>
            collection[p].token \in ConcludedClaims \/ collection[q].token \in ConcludedClaims

\* The checkpoint gets one snapshot, of a read that did happen, and never from an
\* invocation a person has concluded, however late its answer comes.
OneTrueSnapshot ==
    /\ \A c, d \in snapshots : c = d
    /\ snapshots \subseteq reads \ ConcludedClaims

\* An attempt that was stopped hard stays so: no late answer, no other collection
\* and no review takes it back.
HardStopIsFinal == [][metricAttempt.state = "hard" => metricAttempt'.state = "hard"]_metricVars

\* README, "先暂停 Campaign/Cron 再进入 blocked": a verified effect is in the ledger only
\* after Paperclip has paused the campaign.
PausedBeforeVerified == metricAttempt.recovery \in Effect => paused
=============================================================================
