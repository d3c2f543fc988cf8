---------------------- MODULE ReconciliationCoordinator ----------------------
(***************************************************************************)
(* The coordinator of the reconcilers: one timer, one pass at a time, and  *)
(* a pass runs the jobs that are due.  A job that finds no work is run     *)
(* ever more rarely; a change in a store wakes every job.                  *)
(*                                                                         *)
(* Time is counted in units of a job's interval.  A timer may fire late.   *)
(* No job changes a store before its first await, so no wake comes while   *)
(* runDue is starting the jobs of a pass.                                  *)
(***************************************************************************)
EXTENDS FiniteSetsExt, Naturals

CONSTANTS Reconcilers,
          MaxDelay    \* maxIntervalMs in units of intervalMs

ASSUME PassAssumption == MaxDelay \in Nat \ {0} /\ Reconcilers # {}

VARIABLES
    started,   \* started
    passing,   \* running: a pass is under way
    active,    \* the jobs of that pass that have not ended
    nextPass,  \* the time to the timer, or Off
    wait,      \* nextRunAt of each job, as the time to it
    requested, \* wakeRequested
    idle,      \* idleRuns, as the delay it stands for
    owed       \* the jobs woken since they last began

passVars == <<started, passing, active, nextPass, wait, requested, idle, owed>>

Off == MaxDelay + 1
Delays == 0 .. MaxDelay

PassTypeOK ==
    /\ started \in BOOLEAN /\ passing \in BOOLEAN
    /\ active \subseteq Reconcilers /\ owed \subseteq Reconcilers /\ requested \subseteq Reconcilers
    /\ nextPass \in Delays \cup {Off}
    /\ wait \in [Reconcilers -> Delays]
    /\ idle \in [Reconcilers -> 1 .. MaxDelay]

PassInit ==
    /\ started = FALSE /\ passing = FALSE
    /\ active = {} /\ requested = {} /\ owed = {}
    /\ nextPass = Off
    /\ wait = [j \in Reconcilers |-> 0]
    /\ idle = [j \in Reconcilers |-> 1]

\* Mutant of WakeJobs: a wake during a pass is not noted.
WakeNow(woken, on) ==
    /\ wait' = [j \in Reconcilers |-> IF j \in woken THEN 0 ELSE wait[j]]
    /\ idle' = [j \in Reconcilers |-> IF j \in woken THEN 1 ELSE idle[j]]
    /\ owed' = owed \cup woken
    /\ nextPass' = IF on /\ ~ passing THEN 0 ELSE nextPass
    /\ UNCHANGED requested

\* wake(woken), by a caller that has left the coordinator "on" or not.
WakeJobs(woken, on) ==
    /\ wait' = [j \in Reconcilers |-> IF j \in woken THEN 0 ELSE wait[j]]
    /\ requested' = IF passing THEN requested \cup woken ELSE requested \ woken
    /\ idle' = [j \in Reconcilers |-> IF j \in woken THEN 1 ELSE idle[j]]
    /\ owed' = owed \cup woken
    /\ nextPass' = IF on /\ ~ passing THEN 0 ELSE nextPass

Start ==
    /\ ~ started
    /\ started' = TRUE
    /\ WakeJobs(Reconcilers, TRUE)
    /\ UNCHANGED <<passing, active>>

\* The pass under way goes on.
Stop ==
    /\ started
    /\ started' = FALSE
    /\ nextPass' = Off
    /\ UNCHANGED <<passing, active, wait, requested, idle, owed>>

\* The mutation source wakes all jobs, and only of a coordinator that is started;
\* wake may also be called for one of them.
Wake ==
    /\ \/ started /\ WakeJobs(Reconcilers, TRUE)
       \/ \E j \in Reconcilers : WakeJobs({j}, started)
    /\ UNCHANGED <<started, passing, active>>

Due == {j \in Reconcilers : wait[j] = 0}

\* The timer fires: runDue begins a pass of the jobs that are due, unless there is one.
Fire ==
    /\ nextPass = 0
    /\ nextPass' = Off
    /\ IF passing THEN UNCHANGED <<passing, active, requested, owed>>
       ELSE /\ passing' = TRUE
            /\ active' = Due
            /\ requested' = requested \ Due
            /\ owed' = owed \ Due
    /\ UNCHANGED <<started, wait, idle>>

\* A job ends: with work done it is due after one interval, without (or with an
\* error) after twice the delay it had; and now, if it was woken meanwhile.
JobEnds(j) ==
    /\ j \in active
    /\ active' = active \ {j}
    /\ \E delay \in {1, Min({2 * idle[j], MaxDelay})} :
          /\ idle' = [idle EXCEPT ![j] = delay]
          /\ wait' = [wait EXCEPT ![j] = IF j \in requested THEN 0 ELSE delay]
    /\ UNCHANGED <<started, passing, nextPass, requested, owed>>

\* The pass's finally: schedule.
PassEnds ==
    /\ passing /\ active = {}
    /\ passing' = FALSE
    /\ nextPass' = IF started THEN Min({wait[j] : j \in Reconcilers}) ELSE nextPass
    /\ UNCHANGED <<started, active, wait, requested, idle, owed>>

TimePasses ==
    /\ nextPass \notin {0, Off} \/ \E j \in Reconcilers : wait[j] # 0
    /\ nextPass' = IF nextPass \in {0, Off} THEN nextPass ELSE nextPass - 1
    /\ wait' = [j \in Reconcilers |-> IF wait[j] = 0 THEN 0 ELSE wait[j] - 1]
    /\ UNCHANGED <<started, passing, active, requested, idle, owed>>

PassNext ==
    \/ Start \/ Stop \/ Wake \/ Fire \/ PassEnds \/ TimePasses
    \/ \E j \in Reconcilers : JobEnds(j)

PassSpec == PassInit /\ [][PassNext]_passVars

-----------------------------------------------------------------------------
(* Properties *)

\* A wake is never lost: while a pass is under way the job is due when it ends, and
\* otherwise the timer is about to fire.
WakeKept ==
    started => \A j \in owed : /\ wait[j] = 0 \/ j \in active \cap requested
                               /\ passing \/ nextPass = 0
=============================================================================
