---------------------------- MODULE SelfRelease ----------------------------
(***************************************************************************)
(* The release helper: ReleaseCoordinator, which admits one action at a    *)
(* time and shows its state, and the system adapter, which publishes a     *)
(* release of A君 or goes back to the previous one.  A publication leaves  *)
(* a recovery journal before it switches the launchd plist, and a history  *)
(* record when the new release has been verified; either lets a later      *)
(* rollback find the release before it.                                    *)
(*                                                                         *)
(* A release stands for its hash, its plist and its working directory.     *)
(* The stages that only build the candidate are one step.  One stage may   *)
(* outlast its limit, and then the stage watchdog fires.                   *)
(***************************************************************************)
EXTENDS Absent, Naturals

CONSTANTS Releases, First,
          MaxRuns,    \* bound on executions, numbered as they start
          MaxFaults   \* bound on crashes, failed ways back and failed records

Executions == 1 .. MaxRuns

VARIABLES
    overdue,   \* a stage has outlasted its limit
    phase,     \* state.state of the coordinator; "working" is any active stage
    running,   \* the execution in this.running
    timer,     \* stageTimer is armed
    run,       \* what every execution is at, given up or not
    head,      \* HEAD of the repository
    plist,     \* the release the launchd plist names
    live,      \* the release that is running
    history,   \* history.json
    recovery,  \* the activation journal
    before,    \* the release that the publication of plist has replaced, if any
    faults     \* crashes, failed ways back and failed records so far

releaseVars == <<overdue, phase, running, timer, run, head, plist, live, history, recovery,
                 before, faults>>

coordinator == <<phase, running, timer>>
machine == <<plist, live, history, recovery, before>>

Names == Releases \cup {None}

Records == [current : Releases, previous : Names, backup : Names]

ASSUME FirstAssumption == First \in Releases
ASSUME BoundsAssumption == MaxRuns \in Nat /\ MaxFaults \in Nat
ASSUME ReleaseNoneAssumption == None \notin Releases \cup Records \cup Executions

\* An execution not begun.
NotBegun == [pc |-> "idle", action |-> "none", new |-> None, old |-> None, was |-> None,
             undo |-> None, back |-> FALSE]

Runs == [pc : {"idle", "over", "inspect", "build", "look", "backup", "switch", "bootout",
               "boot", "verify", "recheck", "history"},
         action : {"none", "check", "publish", "rollback"},
         new : Names, old : Names, was : Names, undo : Names, back : BOOLEAN]

ReleaseTypeOK ==
    /\ overdue \in BOOLEAN /\ timer \in BOOLEAN
    /\ phase \in {"idle", "working", "checked", "failed", "succeeded", "rolled_back"}
    /\ running \in Executions \cup {None}
    /\ run \in [Executions -> Runs]
    /\ head \in Releases /\ plist \in Releases /\ live \in Names /\ before \in Names
    /\ history \in Records \cup {None} /\ recovery \in Records \cup {None}
    /\ faults \in 0 .. MaxFaults

ReleaseInit ==
    /\ overdue = FALSE
    /\ phase = "idle" /\ running = None /\ timer = FALSE
    /\ run = [s \in Executions |-> NotBegun]
    /\ head = First /\ plist = First /\ live = First
    /\ history = None /\ recovery = None /\ before = None /\ faults = 0

Fault == faults < MaxFaults /\ faults' = faults + 1

ExecutionAt(s, where) == run[s].pc = where
ExecutionTo(s, where) == run' = [run EXCEPT ![s].pc = where]

\* onStage: the watchdog is armed anew, whoever's it was; a patch without finishedAt
\* does not change a finished state, and an active one stays active.
Stage == timer' = TRUE /\ UNCHANGED <<phase, running>>

\* The last update of an execution, whose finally clears watchdog and running.
EndExecution(s, verdict) ==
    /\ phase' = verdict
    /\ running' = None /\ timer' = FALSE
    /\ run' = [run EXCEPT ![s] = [NotBegun EXCEPT !.pc = "over"]]

-----------------------------------------------------------------------------
(* The coordinator *)

\* start is refused while something is running or the state is active.
StartAction(s, action) ==
    /\ running = None /\ phase # "working"
    /\ ExecutionAt(s, "idle") /\ \A t \in Executions : t < s => ~ ExecutionAt(t, "idle")
    /\ phase' = "working" /\ running' = s /\ timer' = TRUE
    /\ run' = [run EXCEPT ![s] = [NotBegun EXCEPT !.pc = "inspect", !.action = action]]
    /\ UNCHANGED <<overdue, head, machine, faults>>

\* The state is active before it is written; if the write fails, nothing runs.
StartFails ==
    /\ running = None /\ phase # "working"
    /\ phase' = "working"
    /\ UNCHANGED <<overdue, running, timer, run, head, machine, faults>>

\* armStageWatchdog's timeout: the execution is given up, not stopped.
WatchdogFires ==
    /\ ~ overdue /\ timer
    /\ overdue' = TRUE
    /\ phase' = "failed" /\ running' = None /\ timer' = FALSE
    /\ UNCHANGED <<run, head, machine, faults>>

\* Mutant of StatusResets: whether an execution is running is not looked at.
StatusResetsLong ==
    /\ phase = "working"
    /\ phase' = "failed"
    /\ UNCHANGED <<overdue, running, timer, run, head, machine, faults>>

\* status: ten minutes without a running execution.
StatusResets ==
    /\ running = None /\ phase = "working"
    /\ phase' = "failed"
    /\ UNCHANGED <<overdue, running, timer, run, head, machine, faults>>

\* Any step may throw; execute then shows a failure.
Throws(s) ==
    /\ \/ run[s].pc \in {"inspect", "build", "look", "backup"} /\ UNCHANGED faults
       \/ run[s].pc = "recheck" /\ Fault
    /\ EndExecution(s, "failed")
    /\ UNCHANGED <<overdue, head, machine>>

-----------------------------------------------------------------------------
(* inspect *)

\* Mutant of Offered: the journal is not looked at.
OfferedHistory ==
    IF history # None /\ history.current = plist /\ history.backup # None THEN history ELSE None

\* readRollbackHistory of the release the plist names: the history, or the journal
\* if the release is the one that runs.
Offered ==
    IF history # None /\ history.current = plist /\ history.backup # None THEN history
    ELSE IF recovery # None /\ recovery.current = plist /\ live = plist THEN recovery
    ELSE None

\* reconcileRollbackHistory: the journal becomes the history, unless that fails.
Reconciled ==
    IF Offered \in {None, history} THEN UNCHANGED <<history, recovery, faults>>
    ELSE \/ Fault /\ UNCHANGED <<history, recovery>>
         \/ history' = Offered /\ recovery' \in {None, recovery} /\ UNCHANGED faults

\* inspect; a check ends with its result.
Inspect(s) ==
    /\ ExecutionAt(s, "inspect")
    /\ Reconciled
    /\ \/ run[s].action = "check" /\ EndExecution(s, "checked")
       \/ /\ run[s].action = "publish"
          /\ head # plist /\ live = plist
          /\ run' = [run EXCEPT ![s].pc = "build", ![s].new = head]
          /\ Stage
       \/ run[s].action = "rollback" /\ ExecutionTo(s, "look") /\ UNCHANGED coordinator
    /\ UNCHANGED <<overdue, head, plist, live, before>>

-----------------------------------------------------------------------------
(* publish and rollback *)

\* The current release is read, and the candidate built, verified and frozen.
Build(s) ==
    /\ ExecutionAt(s, "build")
    /\ run[s].new # plist
    /\ run' = [run EXCEPT ![s].pc = "backup", ![s].old = plist]
    /\ Stage
    /\ UNCHANGED <<overdue, head, machine, faults>>

\* rollback: the previous release of a current one that is live.
Look(s) ==
    /\ ExecutionAt(s, "look")
    /\ live = plist /\ Offered # None
    /\ Offered.previous # None
    /\ run' = [run EXCEPT ![s].pc = "backup", ![s].old = plist, ![s].new = Offered.backup]
    /\ Stage
    /\ UNCHANGED <<overdue, head, machine, faults>>

\* backupMainPlist; a publication also writes its journal (onBackupPrepared).
Backup(s) ==
    /\ ExecutionAt(s, "backup")
    /\ run' = [run EXCEPT ![s].pc = "switch", ![s].was = plist]
    /\ IF run[s].action = "publish"
       THEN recovery' = [current |-> run[s].new, previous |-> run[s].old, backup |-> plist]
       ELSE UNCHANGED recovery
    /\ UNCHANGED <<overdue, coordinator, head, plist, live, history, before, faults>>

\* replaceMainPlist with the target or, on the way back, with the backup.
Target(s) == IF run[s].back THEN run[s].was ELSE run[s].new
Expected(s) == IF run[s].back THEN run[s].old ELSE run[s].new

\* What plist replaces then: nothing after a rollback.
Replaced(s) ==
    IF run[s].back THEN run[s].undo ELSE IF run[s].action = "publish" THEN plist ELSE None

Switch(s) ==
    /\ ExecutionAt(s, "switch")
    /\ plist' = Target(s)
    /\ before' = Replaced(s)
    /\ run' = [run EXCEPT ![s].pc = "bootout", ![s].undo = before]
    /\ UNCHANGED <<overdue, coordinator, head, live, history, recovery, faults>>

\* restartAndVerify.
BootOut(s) ==
    /\ ExecutionAt(s, "bootout")
    /\ live' = None
    /\ ExecutionTo(s, "boot")
    /\ UNCHANGED <<overdue, coordinator, head, plist, history, recovery, before, faults>>

Boot(s) ==
    /\ ExecutionAt(s, "boot")
    /\ live' = plist
    /\ ExecutionTo(s, "verify")
    /\ UNCHANGED <<overdue, coordinator, head, plist, history, recovery, before, faults>>

Verified(s) ==
    /\ ExecutionAt(s, "verify")
    /\ live = Expected(s)
    /\ IF run[s].back
       THEN EndExecution(s, IF run[s].action = "publish" THEN "rolled_back" ELSE "failed")
       ELSE IF run[s].action = "publish" THEN ExecutionTo(s, "recheck") /\ Stage
       ELSE ExecutionTo(s, "history") /\ UNCHANGED coordinator
    /\ UNCHANGED <<overdue, head, machine, faults>>

\* A step of the activation fails: go back; if that fails too, so does the run.
GoesBack(s) ==
    /\ \/ run[s].pc \in {"switch", "bootout", "boot", "verify"}
       \/ run[s].pc = "history" /\ run[s].action = "rollback"
    /\ IF run[s].back THEN EndExecution(s, "failed") /\ Fault
       ELSE run' = [run EXCEPT ![s].pc = "switch", ![s].back = TRUE,
                                    ![s].undo = IF run[s].pc = "switch" THEN before ELSE @]
            /\ UNCHANGED <<coordinator, faults>>
    /\ UNCHANGED <<overdue, head, machine>>

\* publish verifies the live release once more, then notes that in the journal; if
\* it cannot, the release is active all the same.
Recheck(s) ==
    /\ ExecutionAt(s, "recheck")
    /\ live = run[s].new
    /\ ExecutionTo(s, "history")
    /\ UNCHANGED <<overdue, coordinator, head, machine, faults>>

HistoryOf(s) ==
    IF run[s].action = "publish"
    THEN [current |-> run[s].new, previous |-> run[s].old, backup |-> run[s].was]
    ELSE [current |-> run[s].new, previous |-> None, backup |-> None]

\* writeHistory, clearRecovery and the verdict.
WriteHistory(s) ==
    /\ ExecutionAt(s, "history")
    /\ \/ history' = HistoryOf(s) /\ recovery' \in {None, recovery} /\ UNCHANGED faults
       \/ run[s].action = "publish" /\ Fault /\ UNCHANGED <<history, recovery>>
    /\ EndExecution(s, "succeeded")
    /\ UNCHANGED <<overdue, head, plist, live, before>>

-----------------------------------------------------------------------------
(* The environment *)

\* The helper ends and is started again (initialize).
HelperCrash ==
    /\ run' = [s \in Executions |->
                 IF ExecutionAt(s, "idle") THEN NotBegun ELSE [NotBegun EXCEPT !.pc = "over"]]
    /\ running' = None /\ timer' = FALSE
    /\ phase' = IF phase = "working" THEN "failed" ELSE phase
    /\ Fault
    /\ UNCHANGED <<overdue, head, machine>>

CommitToHead(r) ==
    /\ r # head /\ head' = r
    /\ UNCHANGED <<overdue, coordinator, run, machine, faults>>

\* The owner starts a service that is down.
OwnerBoots ==
    /\ live = None /\ live' = plist
    /\ UNCHANGED <<overdue, coordinator, run, head, plist, history, recovery, before, faults>>

Execute(s) ==
    \/ Throws(s) \/ Inspect(s) \/ Build(s) \/ Look(s) \/ Backup(s)
    \/ Switch(s) \/ BootOut(s) \/ Boot(s) \/ Verified(s) \/ GoesBack(s)
    \/ Recheck(s) \/ WriteHistory(s)

ReleaseNext ==
    \/ \E s \in Executions :
          Execute(s) \/ \E action \in {"check", "publish", "rollback"} : StartAction(s, action)
    \/ StartFails \/ WatchdogFires \/ StatusResets
    \/ HelperCrash \/ OwnerBoots
    \/ \E r \in Releases : CommitToHead(r)

ReleaseSpec == ReleaseInit /\ [][ReleaseNext]_releaseVars

-----------------------------------------------------------------------------
(* Properties *)

Executing == {s \in Executions : run[s].pc \notin {"idle", "over"}}

\* PRD, "发布期间只允许一个运行": two executions are never under way together.
OneRun == \A s, t \in Executing : s = t

\* The same while every stage has ended in time; and the one is shown.
OneRunInTime ==
    ~ overdue => OneRun /\ (Executing # {} => phase = "working" /\ running \in Executing)

\* However a publication ends, and with any one fault, the release
\* that it has replaced is found by the next rollback, once the new one runs.
RollbackKept ==
    ~ overdue /\ faults <= 1 /\ Executing = {} /\ before # None /\ live = plist =>
        Offered # None /\ Offered.backup = before
=============================================================================
