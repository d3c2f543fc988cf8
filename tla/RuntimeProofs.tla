---------------------------- MODULE RuntimeProofs ----------------------------
(***************************************************************************)
(* Three services of the runtime, which share no state.                    *)
(*                                                                         *)
(* Two deliveries of a Feishu message are handled at the same time only if *)
(* one of them has outlasted its lease: for any number of deliveries, any  *)
(* length of the lease and of the retention, and whatever is forgotten.    *)
(*                                                                         *)
(* No wake of the reconcilers is lost, for any number of jobs and any      *)
(* longest interval.                                                       *)
(*                                                                         *)
(* A task is run again only after it has failed and only as often as is    *)
(* allowed, for any number of callers of recovery and of retries.          *)
(***************************************************************************)
EXTENDS FeishuIngress, ReconciliationCoordinator, TaskRecovery, WellFoundedInduction, TLAPS

\* A delivery that has not outlasted its lease still has it, with the rest of its time.
Leased ==
    \A d \in Deliveries :
        /\ stage[d] = "coming" => age[d] = 0
        /\ d \in Handling /\ age[d] # LeaseTtl =>
              lease.token = d /\ lease.left = LeaseTtl - age[d]

IngressInv == IngressTypeOK /\ Leased

-----------------------------------------------------------------------------
\* What one delivery does.
LEMMA HandlingStep ==
  ASSUME IngressInv, NEW d \in Deliveries, Deduplicated(d) \/ Handle(d) \/ Answer(d) \/ Throw(d)
  PROVE  IngressInv'
<1> USE TimesAssumption DEF IngressInv, IngressTypeOK, Leased, Handling, End
<1>1. CASE Deduplicated(d)
  BY <1>1 DEF Deduplicated
<1>2. CASE Handle(d)
  <2>1. lease' = [token |-> d, left |-> LeaseTtl] /\ UNCHANGED <<age, processed, reply>>
    BY <1>2 DEF Handle
  <2>2. stage' = [stage EXCEPT ![d] = "handling"] /\ age[d] = 0
    BY <1>2 DEF Handle
  <2>3. \A e \in Handling : age[e] = LeaseTtl
    BY <1>2 DEF Handle
  <2>4. IngressTypeOK'
    BY <2>1, <2>2
  <2>5. Leased'
    BY <2>1, <2>2, <2>3
  <2> QED
    BY <2>4, <2>5
<1>3. ASSUME Answer(d) \/ Throw(d) PROVE IngressInv'
  <2>1. stage[d] = "handling" /\ UNCHANGED age /\ lease' = Released(d)
    BY <1>3 DEF Answer, Throw
  <2>2. stage' = [stage EXCEPT ![d] = "answered"] \/ stage' = [stage EXCEPT ![d] = "failed"]
    BY <1>3 DEF Answer, Throw
  <2>3. processed' \in 0 .. Retention /\ reply' \in BOOLEAN
    <3>1. CASE Answer(d)
      <4>1. processed' \in 0 .. Retention
        BY <3>1 DEF Answer
      <4>2. reply' \in BOOLEAN
        BY <3>1, Zenon DEF Answer
      <4> QED
        BY <4>1, <4>2
    <3>2. CASE Throw(d)
      BY <3>2 DEF Throw
    <3> QED
      BY <1>3, <3>1, <3>2
  <2>4. lease' = IF lease.token = d THEN NoLease ELSE lease
    BY <2>1 DEF Released
  <2>5. NoLease \in [token : Deliveries \cup {None}, left : 0 .. LeaseTtl]
    BY DEF NoLease
  <2>6. IngressTypeOK'
    BY <2>1, <2>2, <2>3, <2>4, <2>5
  <2>7. Leased'
    BY <2>1, <2>2, <2>4
  <2> QED
    BY <2>6, <2>7
<1> QED
  BY <1>1, <1>2, <1>3

\* Time takes as much from the lease as it adds to the age of its owner.
LEMMA TimeStep ==
  ASSUME IngressInv, Tick
  PROVE  IngressInv'
<1> USE TimesAssumption DEF IngressInv, IngressTypeOK, Leased, Handling
<1>1. /\ lease' = [lease EXCEPT !.left = Earlier(lease.left)] /\ processed' = Earlier(processed)
      /\ UNCHANGED <<stage, reply>>
  BY DEF Tick
<1>2. age' = [d \in Deliveries |->
                IF stage[d] = "handling" /\ age[d] < LeaseTtl THEN age[d] + 1 ELSE age[d]]
  BY DEF Tick
<1>3. IngressTypeOK'
  BY <1>1, <1>2 DEF Earlier
<1>4. Leased'
  <2> SUFFICES ASSUME NEW d \in Deliveries
               PROVE  /\ stage'[d] = "coming" => age'[d] = 0
                      /\ stage'[d] = "handling" /\ age'[d] # LeaseTtl =>
                            lease'.token = d /\ lease'.left = LeaseTtl - age'[d]
    OBVIOUS
  <2>1. stage[d] = "handling" /\ age'[d] # LeaseTtl => age[d] # LeaseTtl /\ age'[d] = age[d] + 1
    BY <1>2
  <2> QED
    BY <1>1, <1>2, <2>1 DEF Earlier
<1> QED
  BY <1>3, <1>4

\* The invariant behind the theorems below.
THEOREM IngressInductive == IngressSpec => []IngressInv
<1>1. IngressInit => IngressInv
  <2> SUFFICES ASSUME IngressInit PROVE IngressInv
    OBVIOUS
  <2>1. reply \in BOOLEAN
    BY Zenon DEF IngressInit
  <2> QED
    BY <2>1, TimesAssumption DEF IngressInit, NoLease, IngressInv, IngressTypeOK, Leased, Handling
<1>2. IngressInv /\ [IngressNext]_ingressVars => IngressInv'
  <2> SUFFICES ASSUME IngressInv, [IngressNext]_ingressVars PROVE IngressInv'
    OBVIOUS
  <2>1. CASE \E d \in Deliveries : Deduplicated(d) \/ Handle(d) \/ Answer(d) \/ Throw(d)
    BY <2>1, HandlingStep
  <2>2. CASE Tick
    BY <2>2, TimeStep
  <2>3. CASE Forget \/ UNCHANGED ingressVars
    BY <2>3 DEF Forget, ingressVars, IngressInv, IngressTypeOK, Leased, Handling
  <2>4. CASE Restart
    <3>1. reply' \in BOOLEAN
      BY <2>4, Zenon DEF Restart
    <3> QED
      BY <2>4, <3>1, TimesAssumption DEF Restart, NoLease, IngressInv, IngressTypeOK, Leased, Handling
  <2> QED
    BY <2>1, <2>2, <2>3, <2>4 DEF IngressNext
<1> QED
  BY <1>1, <1>2, PTL DEF IngressSpec

\* Deliveries, lease and memory stay well typed.
THEOREM IngressTypeCorrect == IngressSpec => []IngressTypeOK
<1>1. IngressInv => IngressTypeOK
  BY DEF IngressInv
<1> QED
  BY <1>1, IngressInductive, PTL

\* A message is handled twice at a time only beyond a lease.
THEOREM HandledOnceInTime == IngressSpec => []OneHandler
<1>1. IngressInv => OneHandler
  BY DEF IngressInv, Leased, OneHandler, Handling
<1> QED
  BY <1>1, IngressInductive, PTL

-----------------------------------------------------------------------------
(* The coordinator of the reconcilers *)

\* A job's times are natural numbers, and jobs are owed a run.
Counts == wait \in [Reconcilers -> Nat] /\ idle \in [Reconcilers -> Nat] /\ owed \subseteq Reconcilers

\* Jobs are at work only in a pass.
InPass == ~ passing => active = {}

\* A job at work that is woken is noted: its end makes it due again.
Asked == active \cap owed \subseteq requested

PassKept == Counts /\ InPass /\ Asked /\ WakeKept

\* A set of delays has a least one.
LEMMA LeastDelay ==
  ASSUME NEW S \in SUBSET Nat, S # {}
  PROVE  Min(S) \in S
<1> DEFINE R == {p \in Nat \X Nat : p[1] < p[2]}
<1>1. IsWellFoundedOn(R, Nat)
  BY NatLessThanWellFounded DEF OpToRel
<1> HIDE DEF R
<1>2. PICK x \in S : \A y \in S : ~(<<y, x>> \in R)
  BY <1>1, WFMin
<1>3. \A y \in S : x <= y
  <2>1. \A y \in S : ~(y < x)
    BY <1>2 DEF R
  <2>2. \A y \in S : y \in Nat /\ x \in Nat
    OBVIOUS
  <2> QED
    BY <2>1, <2>2
<1> QED
  BY <1>3 DEF Min

\* If a job is due, the timer is set to fire at once.
LEMMA DueMakesTimerFire ==
  ASSUME NEW S \in SUBSET Nat, 0 \in S
  PROVE  Min(S) = 0
<1>1. \E x \in S : \A y \in S : x <= y
  OBVIOUS
<1>2. Min(S) \in S /\ \A y \in S : Min(S) <= y
  BY <1>1 DEF Min
<1>3. Min(S) \in Nat /\ Min(S) <= 0
  BY <1>2
<1> QED
  BY <1>3

\* A wake makes its jobs due and notes those at work.
LEMMA WakeStep ==
  ASSUME PassKept, NEW woken \in SUBSET Reconcilers, NEW on, WakeJobs(woken, on),
         started' => on, UNCHANGED <<passing, active>>,
         started \/ woken = Reconcilers \/ ~ started'
  PROVE  PassKept'
<1> USE DEF PassKept
<1>1. Counts'
  BY DEF WakeJobs, Counts
<1>2. InPass'
  BY DEF InPass
<1>3. Asked'
  <2>1. CASE passing
    BY <2>1 DEF WakeJobs, Asked
  <2>2. CASE ~ passing
    BY <2>2 DEF InPass, Asked
  <2> QED
    BY <2>1, <2>2
<1>4. WakeKept'
  <2> SUFFICES ASSUME started', NEW j \in owed'
               PROVE  /\ wait'[j] = 0 \/ j \in active' \cap requested'
                      /\ passing' \/ nextPass' = 0
    BY DEF WakeKept
  <2>1. passing' \/ nextPass' = 0
    BY DEF WakeJobs
  <2>2. CASE j \in woken
    BY <2>1, <2>2 DEF WakeJobs
  <2>3. CASE j \notin woken
    <3>1. j \in owed /\ j \in Reconcilers /\ started
      BY <2>3 DEF WakeJobs, Counts
    <3>2. wait'[j] = wait[j]
      BY <2>3, <3>1 DEF WakeJobs
    <3>3. wait[j] = 0 \/ j \in active \cap requested
      BY <3>1 DEF WakeKept
    <3>4. CASE passing
      BY <2>1, <2>3, <3>2, <3>3, <3>4 DEF WakeJobs
    <3>5. CASE ~ passing
      BY <2>1, <3>2, <3>3, <3>5 DEF InPass
    <3> QED
      BY <3>4, <3>5
  <2> QED
    BY <2>2, <2>3
<1> QED
  BY <1>1, <1>2, <1>3, <1>4

\* A pass begins, and what it begins it no longer owes.
LEMMA FireStep == PassKept /\ Fire => PassKept'
<1> SUFFICES ASSUME PassKept, Fire PROVE PassKept'
  OBVIOUS
<1>1. CASE passing
  BY <1>1 DEF Fire, PassKept, Counts, InPass, Asked, WakeKept
<1>2. CASE ~ passing
  <2>1. /\ passing' = TRUE /\ active' = Due /\ owed' = owed \ Due
        /\ UNCHANGED <<started, wait, idle>>
    BY <1>2 DEF Fire
  <2>2. ASSUME NEW j \in owed', started PROVE FALSE
    BY <1>2, <2>1, <2>2 DEF PassKept, InPass, WakeKept, Counts, Due
  <2> QED
    BY <2>1, <2>2 DEF PassKept, Counts, InPass, Asked, WakeKept
<1> QED
  BY <1>1, <1>2

\* A job that was woken at work is due when it has ended.
LEMMA JobEndsStep ==
  ASSUME PassKept, NEW j \in Reconcilers, JobEnds(j)
  PROVE  PassKept'
<1> USE PassAssumption DEF PassKept
<1>1. PICK delay \in {1, Min({2 * idle[j], MaxDelay})} :
          /\ idle' = [idle EXCEPT ![j] = delay]
          /\ wait' = [wait EXCEPT ![j] = IF j \in requested THEN 0 ELSE delay]
  BY DEF JobEnds
<1>2. 2 * idle[j] \in Nat
  BY DEF Counts
<1>3. delay \in Nat
  <2>1. {2 * idle[j], MaxDelay} \in SUBSET Nat /\ {2 * idle[j], MaxDelay} # {}
    BY <1>2
  <2>2. Min({2 * idle[j], MaxDelay}) \in {2 * idle[j], MaxDelay}
    BY <2>1, LeastDelay
  <2> QED
    BY <1>1, <1>2, <2>2
<1>4. j \in active /\ active' = active \ {j} /\ UNCHANGED <<started, passing, nextPass, requested, owed>>
  BY DEF JobEnds
<1>5. Counts'
  BY <1>1, <1>3, <1>4 DEF Counts
<1>6. InPass' /\ Asked'
  BY <1>4 DEF InPass, Asked
<1>7. WakeKept'
  <2> SUFFICES ASSUME started, NEW i \in owed
               PROVE  /\ wait'[i] = 0 \/ i \in active' \cap requested
                      /\ passing \/ nextPass = 0
    BY <1>4 DEF WakeKept
  <2>1. i \in Reconcilers /\ (passing \/ nextPass = 0) /\ (wait[i] = 0 \/ i \in active \cap requested)
    BY DEF WakeKept, Counts
  <2>2. CASE i = j
    BY <1>1, <1>4, <2>1, <2>2 DEF Asked, Counts
  <2>3. CASE i # j
    BY <1>1, <1>4, <2>1, <2>3 DEF Counts
  <2> QED
    BY <2>2, <2>3
<1> QED
  BY <1>5, <1>6, <1>7

\* At the end of a pass the timer fires at once for a job that is owed a run.
LEMMA PassEndsStep == PassKept /\ PassEnds => PassKept'
<1> SUFFICES ASSUME PassKept, PassEnds PROVE PassKept'
  OBVIOUS
<1>1. /\ active = {} /\ passing' = FALSE
      /\ UNCHANGED <<started, active, wait, requested, idle, owed>>
  BY DEF PassEnds
<1>2. ASSUME started, NEW j \in owed PROVE wait[j] = 0 /\ nextPass' = 0
  <2>1. wait[j] = 0 /\ j \in Reconcilers
    BY <1>1, <1>2 DEF PassKept, WakeKept, Counts
  <2>2. 0 \in {wait[i] : i \in Reconcilers} /\ {wait[i] : i \in Reconcilers} \in SUBSET Nat
    BY <2>1 DEF PassKept, Counts
  <2>3. Min({wait[i] : i \in Reconcilers}) = 0
    BY <2>2, DueMakesTimerFire
  <2> QED
    BY <1>2, <2>1, <2>3 DEF PassEnds
<1> QED
  BY <1>1, <1>2 DEF PassKept, Counts, InPass, Asked, WakeKept

\* What is due stays due.
LEMMA TimePassesStep == PassKept /\ TimePasses => PassKept'
<1> SUFFICES ASSUME PassKept, TimePasses PROVE PassKept'
  OBVIOUS
<1>1. UNCHANGED <<started, passing, active, requested, idle, owed>>
  BY DEF TimePasses
<1>2. wait' = [j \in Reconcilers |-> IF wait[j] = 0 THEN 0 ELSE wait[j] - 1]
  BY DEF TimePasses
<1>3. nextPass = 0 => nextPass' = 0
  BY DEF TimePasses
<1>4. Counts'
  BY <1>1, <1>2 DEF PassKept, Counts
<1>5. InPass' /\ Asked'
  BY <1>1 DEF PassKept, InPass, Asked
<1>6. WakeKept'
  BY <1>1, <1>2, <1>3 DEF PassKept, Counts, WakeKept
<1> QED
  BY <1>4, <1>5, <1>6 DEF PassKept

\* wake, runDue and schedule: a job woken while the coordinator runs begins again
\* after the wake, at once or with the pass that follows the one under way.
THEOREM WakeAlwaysKept == PassSpec => []WakeKept
<1> USE PassAssumption
<1>1. PassInit => PassKept
  BY DEF PassInit, PassKept, Counts, InPass, Asked, WakeKept
<1>2. PassKept /\ [PassNext]_passVars => PassKept'
  <2> SUFFICES ASSUME PassKept, [PassNext]_passVars PROVE PassKept'
    OBVIOUS
  <2>1. CASE Start
    <3>1. Reconcilers \in SUBSET Reconcilers
      OBVIOUS
    <3>2. WakeJobs(Reconcilers, TRUE) /\ UNCHANGED <<passing, active>>
      BY <2>1 DEF Start
    <3> QED
      BY <3>1, <3>2, WakeStep
  <2>2. CASE Stop
    BY <2>2 DEF Stop, PassKept, Counts, InPass, Asked, WakeKept
  <2>3. CASE Wake
    <3>1. UNCHANGED <<started, passing, active>>
      BY <2>3 DEF Wake
    <3>2. CASE started /\ WakeJobs(Reconcilers, TRUE)
      <4>1. Reconcilers \in SUBSET Reconcilers
        OBVIOUS
      <4> QED
        BY <3>1, <3>2, <4>1, WakeStep
    <3>3. ASSUME NEW j \in Reconcilers, WakeJobs({j}, started) PROVE PassKept'
      <4>1. {j} \in SUBSET Reconcilers /\ (started' => started) /\ (started \/ ~ started')
        BY <3>1
      <4> QED
        BY <3>1, <3>3, <4>1, WakeStep
    <3> QED
      BY <2>3, <3>2, <3>3 DEF Wake
  <2>4. CASE Fire
    BY <2>4, FireStep
  <2>5. CASE PassEnds
    BY <2>5, PassEndsStep
  <2>6. CASE TimePasses
    BY <2>6, TimePassesStep
  <2>7. CASE \E j \in Reconcilers : JobEnds(j)
    BY <2>7, JobEndsStep
  <2>8. CASE UNCHANGED passVars
    BY <2>8 DEF passVars, PassKept, Counts, InPass, Asked, WakeKept
  <2> QED
    BY <2>1, <2>2, <2>3, <2>4, <2>5, <2>6, <2>7, <2>8 DEF PassNext
<1>3. PassKept => WakeKept
  BY DEF PassKept
<1> QED
  BY <1>1, <1>2, <1>3, PTL DEF PassSpec

\* Timer and delays stay within the longest interval.
THEOREM PassTypeCorrect == PassSpec => []PassTypeOK
<1> USE PassAssumption
<1>1. PassInit => PassTypeOK
  <2> SUFFICES ASSUME PassInit PROVE PassTypeOK
    OBVIOUS
  <2>1. started \in BOOLEAN /\ passing \in BOOLEAN
    BY Zenon DEF PassInit
  <2> QED
    BY <2>1 DEF PassInit, PassTypeOK, Delays
<1>2. PassTypeOK /\ [PassNext]_passVars => PassTypeOK'
  <2> SUFFICES ASSUME PassTypeOK, [PassNext]_passVars PROVE PassTypeOK'
    OBVIOUS
  <2> USE DEF PassTypeOK, Delays
  <2>1. ASSUME NEW woken \in SUBSET Reconcilers, NEW on, WakeJobs(woken, on),
               started' \in BOOLEAN, UNCHANGED <<passing, active>>
        PROVE  PassTypeOK'
    <3>1. wait' \in [Reconcilers -> Delays] /\ idle' \in [Reconcilers -> 1 .. MaxDelay]
      BY <2>1 DEF WakeJobs
    <3>2. requested' \subseteq Reconcilers /\ owed' \subseteq Reconcilers /\ nextPass' \in Delays \cup {Off}
      BY <2>1 DEF WakeJobs
    <3> QED
      BY <2>1, <3>1, <3>2
  <2>2. CASE Start
    <3>1. Reconcilers \in SUBSET Reconcilers
      OBVIOUS
    <3>2. WakeJobs(Reconcilers, TRUE) /\ UNCHANGED <<passing, active>> /\ started' = TRUE
      BY <2>2 DEF Start
    <3> QED
      BY <2>1, <3>1, <3>2
  <2>3. CASE Wake
    <3>1. UNCHANGED <<started, passing, active>>
      BY <2>3 DEF Wake
    <3>2. CASE WakeJobs(Reconcilers, TRUE)
      <4>1. Reconcilers \in SUBSET Reconcilers
        OBVIOUS
      <4> QED
        BY <2>1, <3>1, <3>2, <4>1
    <3>3. ASSUME NEW j \in Reconcilers, WakeJobs({j}, started) PROVE PassTypeOK'
      <4>1. {j} \in SUBSET Reconcilers
        OBVIOUS
      <4> QED
        BY <2>1, <3>1, <3>3, <4>1
    <3> QED
      BY <2>3, <3>2, <3>3 DEF Wake
  <2>4. CASE Stop
    BY <2>4 DEF Stop
  <2>5. CASE Fire
    <3>1. active' \subseteq Reconcilers /\ owed' \subseteq Reconcilers /\ requested' \subseteq Reconcilers
      BY <2>5 DEF Fire, Due
    <3>2. passing' \in BOOLEAN
      BY <2>5 DEF Fire
    <3> QED
      BY <2>5, <3>1, <3>2 DEF Fire
  <2>6. CASE PassEnds
    <3>1. {wait[j] : j \in Reconcilers} \in SUBSET Nat /\ {wait[j] : j \in Reconcilers} # {}
      OBVIOUS
    <3>2. Min({wait[j] : j \in Reconcilers}) \in Delays
      BY <3>1, LeastDelay
    <3> QED
      BY <2>6, <3>2 DEF PassEnds
  <2>7. CASE TimePasses
    <3>1. wait' \in [Reconcilers -> Delays]
      BY <2>7 DEF TimePasses
    <3>2. nextPass' \in Delays \cup {Off}
      BY <2>7 DEF TimePasses, Off
    <3> QED
      BY <2>7, <3>1, <3>2 DEF TimePasses
  <2>8. ASSUME NEW j \in Reconcilers, JobEnds(j) PROVE PassTypeOK'
    <3>1. PICK delay \in {1, Min({2 * idle[j], MaxDelay})} :
              /\ idle' = [idle EXCEPT ![j] = delay]
              /\ wait' = [wait EXCEPT ![j] = IF j \in requested THEN 0 ELSE delay]
      BY <2>8 DEF JobEnds
    <3>2. {2 * idle[j], MaxDelay} \in SUBSET Nat /\ {2 * idle[j], MaxDelay} # {}
      OBVIOUS
    <3>3. Min({2 * idle[j], MaxDelay}) \in {2 * idle[j], MaxDelay}
      BY <3>2, LeastDelay
    <3>4. Min({2 * idle[j], MaxDelay}) <= MaxDelay
      <4>1. \E x \in {2 * idle[j], MaxDelay} : \A y \in {2 * idle[j], MaxDelay} : x <= y
        <5>1. CASE 2 * idle[j] <= MaxDelay
          BY <5>1
        <5>2. CASE ~ 2 * idle[j] <= MaxDelay
          BY <5>2
        <5> QED
          BY <5>1, <5>2
      <4> QED
        BY <4>1 DEF Min
    <3>5. delay \in 1 .. MaxDelay
      BY <3>1, <3>3, <3>4
    <3>6. idle' \in [Reconcilers -> 1 .. MaxDelay] /\ wait' \in [Reconcilers -> Delays]
      BY <3>1, <3>5
    <3> QED
      BY <2>8, <3>6 DEF JobEnds
  <2>9. CASE UNCHANGED passVars
    BY <2>9 DEF passVars
  <2> QED
    BY <2>2, <2>3, <2>4, <2>5, <2>6, <2>7, <2>8, <2>9 DEF PassNext
<1> QED
  BY <1>1, <1>2, PTL DEF PassSpec
-----------------------------------------------------------------------------
(* The recovery of a failed task *)

\* What a caller hands over is so: it has failed, or its error is not retryable.
SeenTruly ==
    \A h \in Handlers : handling[h].pc # "free" =>
       IF handling[h].stalled
         THEN ~ handling[h].retryable
         ELSE fate[handling[h].task] = "failed" /\ retryable[handling[h].task] = handling[h].retryable

\* A caller at its decision goes by the review of what it has handed over.
OfItsReview ==
    \A h \in Handlers : handling[h].pc \in {"deciding", "decided"} =>
       /\ reviews[handling[h].task] \in Reviews
       /\ reviews[handling[h].task].stalled = handling[h].stalled

\* A retry is decided only for a failed task whose error allows it.
JudgedRightly ==
    \A n \in Tasks : reviews[n] \in Reviews /\ reviews[n].decision = "retry" =>
       /\ ~ reviews[n].stalled
       /\ fate[n] = "failed" /\ retryable[n] /\ n < MaxAutomaticRetries

RecoveryInv == RecoveryTypeOK /\ SeenTruly /\ OfItsReview /\ JudgedRightly /\ RetryAfterFailure

\* Tasks that have failed stay as they are.
FailedKept == \A n \in Tasks : fate[n] = "failed" => fate'[n] = "failed" /\ retryable'[n] = retryable[n]

\* What is being handled is handled on, or is returned from.
HandledOn ==
    \A h \in Handlers : handling'[h].pc # "free" =>
       /\ handling[h].pc # "free"
       /\ handling'[h].task = handling[h].task
       /\ handling'[h].stalled = handling[h].stalled
       /\ handling'[h].retryable = handling[h].retryable

LEMMA SeenStays ==
  ASSUME RecoveryTypeOK, SeenTruly, FailedKept, HandledOn
  PROVE  SeenTruly'
<1> SUFFICES ASSUME NEW h \in Handlers, handling'[h].pc # "free"
             PROVE  IF handling'[h].stalled
                      THEN ~ handling'[h].retryable
                      ELSE /\ fate'[handling'[h].task] = "failed"
                           /\ retryable'[handling'[h].task] = handling'[h].retryable
  BY DEF SeenTruly
<1>1. /\ handling[h].pc # "free"
      /\ handling'[h].task = handling[h].task
      /\ handling'[h].stalled = handling[h].stalled
      /\ handling'[h].retryable = handling[h].retryable
  BY DEF HandledOn
<1>2. handling[h].task \in Tasks
  BY DEF RecoveryTypeOK, Handlings
<1>3. CASE handling[h].stalled
  BY <1>1, <1>3 DEF SeenTruly
<1>4. CASE ~ handling[h].stalled
  <2>1. fate[handling[h].task] = "failed" /\ retryable[handling[h].task] = handling[h].retryable
    BY <1>1, <1>4 DEF SeenTruly
  <2>2. fate'[handling[h].task] = "failed" /\ retryable'[handling[h].task] = retryable[handling[h].task]
    BY <1>2, <2>1 DEF FailedKept
  <2> QED
    BY <1>1, <1>4, <2>1, <2>2
<1> QED
  BY <1>3, <1>4

LEMMA JudgedStays ==
  ASSUME JudgedRightly, FailedKept, UNCHANGED reviews
  PROVE  JudgedRightly'
BY DEF JudgedRightly, FailedKept

LEMMA OfItsReviewStays ==
  ASSUME OfItsReview, UNCHANGED reviews,
         \A h \in Handlers : handling'[h].pc \in {"deciding", "decided"} =>
            /\ handling[h].pc \in {"deciding", "decided"}
            /\ handling'[h].task = handling[h].task
            /\ handling'[h].stalled = handling[h].stalled
  PROVE  OfItsReview'
BY DEF OfItsReview

LEMMA RetryStays ==
  ASSUME RetryAfterFailure, FailedKept, RetriesAssumption,
         \A n \in Tasks : fate[n] = "absent" => fate'[n] = "absent"
  PROVE  RetryAfterFailure'
BY DEF RetryAfterFailure, FailedKept, Tasks

LEMMA FreeHandling == Free \in Handlings /\ Free.pc = "free"
BY RetriesAssumption DEF Free, Handlings, Places, Tasks

LEMMA TakenUp ==
  ASSUME handling \in [Handlers -> Handlings], NEW h \in Handlers, NEW n \in Tasks,
         NEW where \in Places, NEW by \in {"executor", "reporter", "watchdog", "owner"},
         NEW stalled \in BOOLEAN, NEW retry \in BOOLEAN, TakeUp(h, where, n, by, stalled, retry)
  PROVE  handling' \in [Handlers -> Handlings]
<1> DEFINE call == [pc |-> where, task |-> n, stalled |-> stalled, retryable |-> retry,
                    by |-> by, tries |-> 1]
<1>1. call \in Handlings
  BY DEF Handlings
<1>2. handling' = [handling EXCEPT ![h] = call]
  BY DEF TakeUp
<1> QED
  BY <1>1, <1>2

LEMMA GoneOn ==
  ASSUME handling \in [Handlers -> Handlings], NEW h \in Handlers, NEW where \in Places,
         handling' = [handling EXCEPT ![h].pc = where]
  PROVE  /\ handling' \in [Handlers -> Handlings]
         /\ handling' = [handling EXCEPT ![h] = handling'[h]]
         /\ handling'[h].pc = where
         /\ handling'[h].task = handling[h].task
         /\ handling'[h].stalled = handling[h].stalled
         /\ handling'[h].retryable = handling[h].retryable
<1> DEFINE call == [handling[h] EXCEPT !.pc = where]
<1>1. handling[h] \in Handlings
  OBVIOUS
<1>2. call \in Handlings /\ call.pc = where /\ call.task = handling[h].task
      /\ call.stalled = handling[h].stalled /\ call.retryable = handling[h].retryable
  BY <1>1 DEF Handlings
<1>3. handling' = [handling EXCEPT ![h] = call]
  OBVIOUS
<1> HIDE DEF call
<1> QED
  BY <1>2, <1>3

LEMMA RecoveryInitial == RecoveryInit => RecoveryInv
<1> SUFFICES ASSUME RecoveryInit PROVE RecoveryInv
  OBVIOUS
<1> USE RetriesAssumption, RecoveryNoneAssumption
<1>1. RecoveryTypeOK
  BY FreeHandling DEF RecoveryInit, RecoveryTypeOK, Tasks, Free
<1>2. SeenTruly /\ OfItsReview
  BY DEF RecoveryInit, SeenTruly, OfItsReview, Free
<1>3. JudgedRightly
  BY DEF RecoveryInit, JudgedRightly
<1>4. RetryAfterFailure
  BY DEF RecoveryInit, RetryAfterFailure, Tasks
<1> QED
  BY <1>1, <1>2, <1>3, <1>4 DEF RecoveryInv

\* A task ends otherwise than by a failure.
LEMMA SucceedStep ==
  ASSUME RecoveryInv, NEW n \in Tasks, Succeed(n)
  PROVE  RecoveryInv'
<1> USE RetriesAssumption DEF RecoveryInv
<1>1. RecoveryTypeOK' /\ FailedKept /\ \A m \in Tasks : fate[m] = "absent" => fate'[m] = "absent"
  BY DEF Succeed, RecoveryTypeOK, FailedKept
<1>2. HandledOn /\ UNCHANGED <<reviews, handling>>
  BY DEF Succeed, HandledOn
<1> QED
  BY <1>1, <1>2, SeenStays, JudgedStays, OfItsReviewStays, RetryStays

\* A failure is handed over, or a stall is seen.
LEMMA TaskStep ==
  ASSUME RecoveryInv, NEW n \in Tasks, NEW h \in Handlers, Fail(n, h) \/ SeeStall(n, h)
  PROVE  RecoveryInv'
<1> USE RetriesAssumption DEF RecoveryInv
<1>1. CASE Fail(n, h)
  <2>1. PICK retry \in BOOLEAN, where \in {"marking", "review"}, by \in {"executor", "reporter"} :
           /\ retryable' = [retryable EXCEPT ![n] = retry]
           /\ TakeUp(h, where, n, by, FALSE, retry)
    BY <1>1 DEF Fail
  <2>2. fate[n] = "running" /\ fate' = [fate EXCEPT ![n] = "failed"]
        /\ UNCHANGED <<coordination, asked, reviews, repairs>>
    BY <1>1 DEF Fail
  <2>3. RecoveryTypeOK'
    <3>1. handling' \in [Handlers -> Handlings]
      <4>1. handling \in [Handlers -> Handlings] /\ "marking" \in Places /\ "review" \in Places
        BY DEF RecoveryTypeOK, Places
      <4>2. CASE where = "marking" /\ by = "executor"
        BY <2>1, <4>1, <4>2, TakenUp
      <4>3. CASE where = "marking" /\ by = "reporter"
        BY <2>1, <4>1, <4>3, TakenUp
      <4>4. CASE where = "review" /\ by = "executor"
        BY <2>1, <4>1, <4>4, TakenUp
      <4>5. CASE where = "review" /\ by = "reporter"
        BY <2>1, <4>1, <4>5, TakenUp
      <4> QED
        BY <4>2, <4>3, <4>4, <4>5
    <3>2. fate' \in [Tasks -> {"absent", "running", "failed", "ended"}] /\ retryable' \in [Tasks -> BOOLEAN]
      BY <2>1, <2>2 DEF RecoveryTypeOK
    <3> QED
      BY <2>2, <3>1, <3>2 DEF RecoveryTypeOK
  <2>4. FailedKept /\ \A m \in Tasks : fate[m] = "absent" => fate'[m] = "absent"
    BY <2>1, <2>2 DEF RecoveryTypeOK, FailedKept
  <2>5. SeenTruly'
    BY <2>1, <2>2, <2>4 DEF SeenTruly, RecoveryTypeOK, TakeUp, FailedKept
  <2>6. OfItsReview'
    BY <2>1, <2>2, OfItsReviewStays DEF TakeUp, RecoveryTypeOK
  <2> QED
    BY <2>2, <2>3, <2>4, <2>5, <2>6, JudgedStays, RetryStays
<1>2. CASE SeeStall(n, h)
  <2>1. TakeUp(h, "stopping", n, "watchdog", TRUE, FALSE)
        /\ UNCHANGED <<fate, retryable, coordination, asked, reviews, repairs>>
    BY <1>2 DEF SeeStall
  <2>2. RecoveryTypeOK' /\ FailedKept
    <3>1. handling' \in [Handlers -> Handlings]
      BY <2>1, TakenUp DEF RecoveryTypeOK, Places
    <3> QED
      BY <2>1, <3>1 DEF RecoveryTypeOK, FailedKept
  <2>3. SeenTruly'
    BY <2>1 DEF SeenTruly, RecoveryTypeOK, TakeUp
  <2>4. OfItsReview'
    BY <2>1, OfItsReviewStays DEF TakeUp, RecoveryTypeOK
  <2> QED
    BY <2>1, <2>2, <2>3, <2>4, JudgedStays, RetryStays
<1> QED
  BY <1>1, <1>2

\* Steps of a call that touch neither a task's fate nor a review, and go on or return.
LEMMA QuietStep ==
  ASSUME RecoveryInv, NEW h \in Handlers,
         \/ MarkPending(h) \/ ReportStall(h) \/ RecordRequest(h) \/ FindReview(h)
         \/ CreateRepair(h) \/ Conclude(h) \/ Break(h) \/ GiveUp(h)
  PROVE  RecoveryInv'
<1> USE RetriesAssumption DEF RecoveryInv
<1> DEFINE On == /\ handling' = [handling EXCEPT ![h] = handling'[h]]
                 /\ handling'[h] \in Handlings
                 /\ \/ handling'[h].pc = "free"
                    \/ /\ handling[h].pc # "free"
                       /\ handling'[h].pc \notin {"deciding", "decided"}
                       /\ handling'[h].task = handling[h].task
                       /\ handling'[h].stalled = handling[h].stalled
                       /\ handling'[h].retryable = handling[h].retryable
<1>1. CASE FindReview(h)
  <2>1. handling' = [handling EXCEPT ![h].pc = "decided"] /\ handling[h].pc = "review"
        /\ UNCHANGED <<fate, retryable, coordination, asked, reviews, repairs>>
    BY <1>1 DEF FindReview, HandlerTo, HandlerAt
  <2>2. reviews[handling[h].task] \in Reviews /\ reviews[handling[h].task].stalled = handling[h].stalled
    <3>1. handling[h].task \in Tasks
      BY DEF RecoveryTypeOK, Handlings
    <3> QED
      BY <1>1, <3>1 DEF FindReview, RecoveryTypeOK
  <2>3. RecoveryTypeOK' /\ FailedKept /\ HandledOn
    <3>1. handling' \in [Handlers -> Handlings]
      BY <2>1, GoneOn DEF RecoveryTypeOK, Places
    <3> QED
      BY <2>1, <3>1 DEF RecoveryTypeOK, FailedKept, HandledOn
  <2>4. OfItsReview'
    BY <2>1, <2>2 DEF OfItsReview, RecoveryTypeOK
  <2> QED
    BY <2>1, <2>3, <2>4, SeenStays, JudgedStays, RetryStays
<1>2. ASSUME ~ FindReview(h) PROVE RecoveryInv'
  <2>1. UNCHANGED <<fate, retryable, reviews>>
    BY <1>2 DEF MarkPending, ReportStall, RecordRequest, CreateRepair, Conclude, Break, GiveUp
  <2>2. On
    <3>0. ASSUME NEW where \in Places \ {"deciding", "decided"}, HandlerTo(h, where),
                 handling[h].pc # "free"
          PROVE  On
      BY <3>0, GoneOn DEF HandlerTo, RecoveryTypeOK
    <3>1. CASE MarkPending(h) \/ ReportStall(h)
      BY <3>0, <3>1 DEF MarkPending, ReportStall, HandlerAt, Places
    <3>2. CASE RecordRequest(h)
      BY <3>0, <3>2 DEF RecordRequest, HandlerAt, Places
    <3>3. CASE CreateRepair(h)
      BY <3>0, <3>3 DEF CreateRepair, HandlerAt, Places
    <3>4. ASSUME Return(h) PROVE On
      BY <3>4, FreeHandling DEF Return, RecoveryTypeOK
    <3>5. CASE Break(h)
      <4>1. CASE Return(h)
        BY <3>4, <4>1
      <4>2. CASE handling' = [handling EXCEPT ![h].pc = "review", ![h].tries = 2]
        <5> DEFINE on == [handling[h] EXCEPT !.pc = "review"]
                   call == [on EXCEPT !.tries = 2]
        <5>1. handling[h] \in Handlings
          BY DEF RecoveryTypeOK
        <5>2. call \in Handlings /\ call.pc = "review" /\ call.task = handling[h].task
              /\ call.stalled = handling[h].stalled /\ call.retryable = handling[h].retryable
          <6>1. on \in Handlings /\ on.pc = "review" /\ on.task = handling[h].task
                /\ on.stalled = handling[h].stalled /\ on.retryable = handling[h].retryable
            BY <5>1 DEF Handlings, Places
          <6> HIDE DEF on
          <6> QED
            BY <6>1 DEF Handlings
        <5>3. handling' = [handling EXCEPT ![h] = call]
          BY <4>2 DEF RecoveryTypeOK
        <5>4. handling[h].pc # "free"
          BY <3>5 DEF Break
        <5> HIDE DEF call
        <5> QED
          BY <5>2, <5>3, <5>4 DEF RecoveryTypeOK
      <4>3. CASE HandlerTo(h, "giving up")
        BY <3>0, <3>5, <4>3 DEF Break, Places
      <4> QED
        BY <3>5, <4>1, <4>2, <4>3 DEF Break, Rethrow
    <3>6. CASE Conclude(h) \/ GiveUp(h)
      BY <3>4, <3>6 DEF Conclude, GiveUp
    <3> QED
      BY <1>2, <3>1, <3>2, <3>3, <3>5, <3>6
  <2>3. RecoveryTypeOK'
    <3>1. coordination' \in [Tasks -> {"none", "pending", "retrying", "escalated", "failed", "start_failed"}]
      BY <1>2 DEF MarkPending, ReportStall, RecordRequest, CreateRepair, Conclude, Break, Rethrow, GiveUp,
                  Coordinate, RecoveryTypeOK
    <3>2. asked' \in [Tasks -> BOOLEAN]
      BY <1>2 DEF MarkPending, ReportStall, RecordRequest, CreateRepair, Conclude, Break, GiveUp, RecoveryTypeOK
    <3>3. repairs' \in [Tasks -> (Tasks \X BOOLEAN) \cup {None}]
      <4>1. CASE CreateRepair(h)
        <5>1. repairs' = [repairs EXCEPT ![Root(h)] = <<handling[h].task, handling[h].stalled>>]
          BY <4>1 DEF CreateRepair
        <5>2. <<handling[h].task, handling[h].stalled>> \in Tasks \X BOOLEAN
          BY DEF RecoveryTypeOK, Handlings
        <5> QED
          BY <5>1, <5>2 DEF RecoveryTypeOK
      <4>2. CASE ~ CreateRepair(h)
        BY <1>2, <4>2 DEF MarkPending, ReportStall, RecordRequest, Conclude, Break, GiveUp, RecoveryTypeOK
      <4> QED
        BY <4>1, <4>2
    <3> QED
      BY <2>1, <2>2, <3>1, <3>2, <3>3 DEF RecoveryTypeOK
  <2>4. FailedKept /\ HandledOn
    BY <2>1, <2>2 DEF FailedKept, HandledOn, RecoveryTypeOK
  <2>5. OfItsReview'
    BY <2>1, <2>2, OfItsReviewStays DEF RecoveryTypeOK
  <2> QED
    BY <2>1, <2>3, <2>4, <2>5, SeenStays, JudgedStays, RetryStays
<1> QED
  BY <1>1, <1>2

\* The owner's request is for a failed task, as it is stored.
LEMMA RequestStep ==
  ASSUME RecoveryInv, NEW h \in Handlers, Request(h)
  PROVE  RecoveryInv'
<1> USE RetriesAssumption DEF RecoveryInv
<1>0. 0 \in Tasks /\ retryable[0] \in BOOLEAN
  <2>1. 0 \in Tasks
    BY DEF Tasks
  <2>2. retryable \in [Tasks -> BOOLEAN]
    BY DEF RecoveryTypeOK
  <2> QED
    BY <2>1, <2>2, Zenon
<1>1. PICK retry \in BOOLEAN :
         /\ TakeUp(h, "asking", 0, "owner", FALSE, retry) /\ retry = retryable[0] /\ fate[0] = "failed"
         /\ UNCHANGED <<fate, retryable, coordination, asked, reviews, repairs>>
  BY <1>0 DEF Request
<1>2. handling \in [Handlers -> Handlings] /\ "asking" \in Places
  BY DEF RecoveryTypeOK, Places
<1>3. RecoveryTypeOK' /\ FailedKept
  <2>1. handling' \in [Handlers -> Handlings]
    BY <1>0, <1>1, <1>2, TakenUp
  <2> QED
    BY <1>1, <2>1 DEF RecoveryTypeOK, FailedKept
<1>4. SeenTruly'
  BY <1>1 DEF SeenTruly, RecoveryTypeOK, TakeUp
<1>5. OfItsReview'
  BY <1>1, OfItsReviewStays DEF TakeUp, RecoveryTypeOK
<1> QED
  BY <1>1, <1>3, <1>4, <1>5, JudgedStays, RetryStays

\* A review is created where there is none, so nobody else is at its decision.
LEMMA CreateReviewStep ==
  ASSUME RecoveryInv, NEW h \in Handlers, CreateReview(h)
  PROVE  RecoveryInv'
<1> USE RetriesAssumption, RecoveryNoneAssumption DEF RecoveryInv
<1> DEFINE n == handling[h].task
           new == [stalled |-> handling[h].stalled, decision |-> "none"]
<1>1. /\ handling[h].pc = "review" /\ handling' = [handling EXCEPT ![h].pc = "deciding"]
      /\ reviews[n] = None /\ reviews' = [reviews EXCEPT ![n] = new]
      /\ UNCHANGED <<fate, retryable, coordination, asked, repairs>>
  BY DEF CreateReview, HandlerAt, HandlerTo
<1>2. n \in Tasks /\ new \in Reviews /\ new.stalled = handling[h].stalled /\ new.decision = "none"
  BY DEF RecoveryTypeOK, Handlings, Reviews
<1> HIDE DEF new
<1>3. /\ handling' \in [Handlers -> Handlings]
      /\ handling' = [handling EXCEPT ![h] = handling'[h]]
      /\ handling'[h].pc = "deciding" /\ handling'[h].task = n
      /\ handling'[h].stalled = handling[h].stalled /\ handling'[h].retryable = handling[h].retryable
  BY <1>1, GoneOn DEF RecoveryTypeOK, Places
<1>4. RecoveryTypeOK' /\ FailedKept /\ HandledOn
  <2>1. reviews' \in [Tasks -> Reviews \cup {None}]
    BY <1>1, <1>2 DEF RecoveryTypeOK
  <2> QED
    BY <1>1, <1>3, <2>1 DEF RecoveryTypeOK, FailedKept, HandledOn
<1>5. OfItsReview'
  <2> SUFFICES ASSUME NEW g \in Handlers, handling'[g].pc \in {"deciding", "decided"}
               PROVE  /\ reviews'[handling'[g].task] \in Reviews
                      /\ reviews'[handling'[g].task].stalled = handling'[g].stalled
    BY DEF OfItsReview
  <2>1. reviews'[n] = new
    BY <1>1, <1>2 DEF RecoveryTypeOK
  <2>2. CASE g = h
    BY <1>2, <1>3, <2>1, <2>2
  <2>3. CASE g # h
    <3>1. handling'[g] = handling[g]
      BY <1>3, <2>3 DEF RecoveryTypeOK
    <3>2. reviews[handling[g].task] \in Reviews /\ reviews[handling[g].task].stalled = handling[g].stalled
      BY <3>1 DEF OfItsReview
    <3>3. handling[g].task # n
      BY <1>1, <3>2
    <3>4. reviews'[handling[g].task] = reviews[handling[g].task]
      BY <1>1, <3>3, <2>3 DEF RecoveryTypeOK, Handlings
    <3> QED
      BY <3>1, <3>2, <3>4
  <2> QED
    BY <2>2, <2>3
<1>6. JudgedRightly'
  <2> SUFFICES ASSUME NEW m \in Tasks, reviews'[m] \in Reviews, reviews'[m].decision = "retry"
               PROVE  /\ ~ reviews'[m].stalled
                      /\ fate'[m] = "failed" /\ retryable'[m] /\ m < MaxAutomaticRetries
    BY DEF JudgedRightly
  <2>1. m # n /\ reviews'[m] = reviews[m]
    BY <1>1, <1>2 DEF RecoveryTypeOK
  <2> QED
    BY <1>1, <2>1 DEF JudgedRightly
<1> QED
  BY <1>1, <1>4, <1>5, <1>6, SeenStays, RetryStays

\* A retry is decided only where the caller's task has failed, and its error allows it.
LEMMA DecideStep ==
  ASSUME RecoveryInv, NEW h \in Handlers, Decide(h)
  PROVE  RecoveryInv'
<1> USE RetriesAssumption, RecoveryNoneAssumption DEF RecoveryInv
<1> DEFINE n == handling[h].task
<1>1. PICK decision \in {"none", "escalate"} \cup {d \in {"retry"} : CanRetry(h)} :
         reviews' = [reviews EXCEPT ![n].decision = decision]
  BY DEF Decide
<1>2. /\ handling[h].pc = "deciding" /\ handling' = [handling EXCEPT ![h].pc = "decided"]
      /\ UNCHANGED <<fate, retryable, coordination, asked, repairs>>
  BY DEF Decide, HandlerAt, HandlerTo
<1> DEFINE new == [reviews[n] EXCEPT !.decision = decision]
<1>3. n \in Tasks /\ reviews[n] \in Reviews /\ reviews[n].stalled = handling[h].stalled
  BY <1>2 DEF RecoveryTypeOK, Handlings, OfItsReview
<1>4. new \in Reviews /\ new.stalled = handling[h].stalled /\ new.decision = decision
  <2>1. decision \in {"none", "retry", "escalate"}
    BY <1>1
  <2> QED
    BY <1>3, <2>1 DEF Reviews
<1>5. reviews' = [reviews EXCEPT ![n] = new]
  BY <1>1
<1>6. decision = "retry" =>
        ~ handling[h].stalled /\ fate[n] = "failed" /\ retryable[n] /\ n < MaxAutomaticRetries
  <2> SUFFICES ASSUME CanRetry(h)
               PROVE  ~ handling[h].stalled /\ fate[n] = "failed" /\ retryable[n] /\ n < MaxAutomaticRetries
    BY <1>1
  <2>1. handling[h].retryable /\ Attempt(h) < MaxAutomaticRetries
    BY DEF CanRetry
  <2>2. ~ handling[h].stalled
    BY <1>2, <2>1 DEF SeenTruly
  <2> QED
    BY <1>2, <2>1, <2>2 DEF SeenTruly, Attempt
<1> HIDE DEF new
<1>7. /\ handling' \in [Handlers -> Handlings]
      /\ handling' = [handling EXCEPT ![h] = handling'[h]]
      /\ handling'[h].pc = "decided" /\ handling'[h].task = n
      /\ handling'[h].stalled = handling[h].stalled /\ handling'[h].retryable = handling[h].retryable
  BY <1>2, GoneOn DEF RecoveryTypeOK, Places
<1>8. RecoveryTypeOK' /\ FailedKept /\ HandledOn
  <2>1. reviews' \in [Tasks -> Reviews \cup {None}]
    BY <1>4, <1>5 DEF RecoveryTypeOK
  <2> QED
    BY <1>2, <1>7, <2>1 DEF RecoveryTypeOK, FailedKept, HandledOn
<1>9. \A m \in Tasks : reviews'[m] = IF m = n THEN new ELSE reviews[m]
  BY <1>3, <1>5 DEF RecoveryTypeOK
<1>10. OfItsReview'
  <2> SUFFICES ASSUME NEW g \in Handlers, handling'[g].pc \in {"deciding", "decided"}
               PROVE  /\ reviews'[handling'[g].task] \in Reviews
                      /\ reviews'[handling'[g].task].stalled = handling'[g].stalled
    BY DEF OfItsReview
  <2>1. handling[g].pc \in {"deciding", "decided"} /\ handling'[g].task = handling[g].task
        /\ handling'[g].stalled = handling[g].stalled
    BY <1>2, <1>7 DEF RecoveryTypeOK
  <2>2. reviews[handling[g].task] \in Reviews /\ reviews[handling[g].task].stalled = handling[g].stalled
    BY <2>1 DEF OfItsReview
  <2>3. handling[g].task \in Tasks
    BY DEF RecoveryTypeOK, Handlings
  <2> QED
    BY <1>3, <1>4, <1>9, <2>1, <2>2, <2>3
<1>11. JudgedRightly'
  <2> SUFFICES ASSUME NEW m \in Tasks, reviews'[m] \in Reviews, reviews'[m].decision = "retry"
               PROVE  /\ ~ reviews'[m].stalled
                      /\ fate'[m] = "failed" /\ retryable'[m] /\ m < MaxAutomaticRetries
    BY DEF JudgedRightly
  <2>1. CASE m = n
    BY <1>2, <1>4, <1>6, <1>9, <2>1
  <2>2. CASE m # n
    BY <1>2, <1>9, <2>2 DEF JudgedRightly
  <2> QED
    BY <2>1, <2>2
<1> QED
  BY <1>2, <1>8, <1>10, <1>11, SeenStays, RetryStays

\* The task of a retry is made only where one has been decided.
LEMMA CreateRetryStep ==
  ASSUME RecoveryInv, NEW h \in Handlers, CreateRetry(h)
  PROVE  RecoveryInv'
<1> USE RetriesAssumption, RecoveryNoneAssumption DEF RecoveryInv
<1> DEFINE n == handling[h].task
<1>1. /\ handling[h].pc = "decided" /\ handling' = [handling EXCEPT ![h].pc = "retried"]
      /\ reviews[n].decision = "retry"
      /\ fate' = [fate EXCEPT ![n + 1] = IF @ = "absent" THEN "running" ELSE @]
      /\ UNCHANGED <<retryable, coordination, asked, reviews, repairs>>
  BY DEF CreateRetry, DirectRetryAllowed, HandlerAt, HandlerTo
<1>2. n \in Tasks /\ reviews[n] \in Reviews
  BY <1>1 DEF RecoveryTypeOK, Handlings, OfItsReview
<1>3. fate[n] = "failed" /\ retryable[n] /\ n < MaxAutomaticRetries
  BY <1>1, <1>2 DEF JudgedRightly
<1>4. n + 1 \in Tasks /\ n \in 0 .. MaxAutomaticRetries /\ n + 1 # MaxAutomaticRetries + 1
  BY <1>2, <1>3 DEF Tasks
<1>5. /\ handling' \in [Handlers -> Handlings]
      /\ handling' = [handling EXCEPT ![h] = handling'[h]]
      /\ handling'[h].pc = "retried" /\ handling'[h].task = n
      /\ handling'[h].stalled = handling[h].stalled /\ handling'[h].retryable = handling[h].retryable
  BY <1>1, GoneOn DEF RecoveryTypeOK, Places
<1>6. \A m \in Tasks : fate'[m] = IF m = n + 1 /\ fate[m] = "absent" THEN "running" ELSE fate[m]
  BY <1>1, <1>4 DEF RecoveryTypeOK
<1>7. RecoveryTypeOK' /\ FailedKept /\ HandledOn
  <2>1. fate' \in [Tasks -> {"absent", "running", "failed", "ended"}]
    BY <1>1, <1>4 DEF RecoveryTypeOK
  <2>2. FailedKept
    BY <1>1, <1>6 DEF FailedKept
  <2> QED
    BY <1>1, <1>5, <2>1, <2>2 DEF RecoveryTypeOK, HandledOn
<1>8. OfItsReview'
  BY <1>1, <1>5, OfItsReviewStays DEF RecoveryTypeOK
<1>9. RetryAfterFailure'
  <2>1. fate'[MaxAutomaticRetries + 1] = "absent"
    BY <1>4, <1>6 DEF RetryAfterFailure, Tasks
  <2>2. ASSUME NEW m \in 0 .. MaxAutomaticRetries, fate'[m + 1] # "absent"
        PROVE  fate'[m] = "failed" /\ retryable'[m]
    <3>1. m \in Tasks /\ m + 1 \in Tasks
      BY DEF Tasks
    <3>2. fate[m] = "failed" /\ retryable[m]
      <4>1. CASE m = n
        BY <1>3, <4>1
      <4>2. CASE m # n
        <5>1. fate[m + 1] # "absent"
          BY <1>2, <1>6, <2>2, <3>1, <4>2 DEF Tasks
        <5> QED
          BY <5>1 DEF RetryAfterFailure
      <4> QED
        BY <4>1, <4>2
    <3> QED
      BY <1>1, <1>6, <3>1, <3>2
  <2> QED
    BY <2>1, <2>2 DEF RetryAfterFailure
<1> QED
  BY <1>1, <1>7, <1>8, <1>9, SeenStays, JudgedStays

\* A restart ends calls and running tasks only.
LEMMA RebootStep ==
  ASSUME RecoveryInv, Reboot
  PROVE  RecoveryInv'
<1> USE RetriesAssumption DEF RecoveryInv
<1>1. PICK local \in SUBSET {n \in Tasks : fate[n] = "running"} :
         fate' = [n \in Tasks |-> IF n \in local THEN "ended" ELSE fate[n]]
  BY DEF Reboot
<1>2. /\ handling' = [h \in Handlers |-> Free]
      /\ UNCHANGED <<retryable, coordination, asked, reviews, repairs>>
  BY DEF Reboot
<1>3. FailedKept /\ \A n \in Tasks : fate[n] = "absent" => fate'[n] = "absent"
  BY <1>1, <1>2 DEF FailedKept
<1>4. RecoveryTypeOK'
  <2>1. handling' \in [Handlers -> Handlings]
    BY <1>2, FreeHandling
  <2>2. fate' \in [Tasks -> {"absent", "running", "failed", "ended"}]
    BY <1>1 DEF RecoveryTypeOK
  <2> QED
    BY <1>2, <2>1, <2>2 DEF RecoveryTypeOK
<1>5. SeenTruly' /\ OfItsReview'
  BY <1>2, FreeHandling DEF SeenTruly, OfItsReview
<1> QED
  BY <1>2, <1>3, <1>4, <1>5, JudgedStays, RetryStays

LEMMA RecoveryStep == RecoveryInv /\ [RecoveryNext]_recoveryVars => RecoveryInv'
<1> SUFFICES ASSUME RecoveryInv, [RecoveryNext]_recoveryVars PROVE RecoveryInv'
  OBVIOUS
<1>1. CASE UNCHANGED recoveryVars
  BY <1>1 DEF recoveryVars, RecoveryInv, RecoveryTypeOK, SeenTruly, OfItsReview, JudgedRightly,
              RetryAfterFailure
<1>2. ASSUME NEW n \in Tasks, Succeed(n) PROVE RecoveryInv'
  BY <1>2, SucceedStep
<1>3. ASSUME NEW n \in Tasks, NEW h \in Handlers, Fail(n, h) \/ SeeStall(n, h) PROVE RecoveryInv'
  BY <1>3, TaskStep
<1>4. ASSUME NEW h \in Handlers, CallStep(h) PROVE RecoveryInv'
  BY <1>4, RequestStep, CreateReviewStep, DecideStep, CreateRetryStep, QuietStep DEF CallStep
<1>5. CASE Reboot
  BY <1>5, RebootStep
<1> QED
  BY <1>1, <1>2, <1>3, <1>4, <1>5 DEF RecoveryNext

\* The invariant above holds always: what callers have seen stays so, and no decision outlives
\* what it was made from.
THEOREM RecoveryInductive == RecoverySpec => []RecoveryInv
BY RecoveryInitial, RecoveryStep, PTL DEF RecoverySpec

\* Fates, reviews, repairs and the calls under way keep their types, for any number of calls
\* of handle and any limit.
THEOREM RecoveryTypeCorrect == RecoverySpec => []RecoveryTypeOK
<1>1. RecoveryInv => RecoveryTypeOK
  BY DEF RecoveryInv
<1> QED
  BY <1>1, RecoveryInductive, PTL

\* A task is run again only after its failure is stored, if its error allows it, never beside
\* its original and no more than MaxAutomaticRetries times in a row, for any number of calls
\* of handle and any limit.
THEOREM RetriesAfterFailure == RecoverySpec => []RetryAfterFailure
<1>1. RecoveryInv => RetryAfterFailure
  BY DEF RecoveryInv
<1> QED
  BY <1>1, RecoveryInductive, PTL
=============================================================================
