------------------------- MODULE SelfReleaseProofs -------------------------
(***************************************************************************)
(* The release helper runs one execution while every stage ends in time,   *)
(* and however a publication ends, and with any one fault, the release     *)
(* that it has replaced is found by the next rollback: for any releases    *)
(* and any number of executions.                                           *)
(*                                                                         *)
(* For the rollback, what an execution is at says what the history and the *)
(* journal must hold (OnItsWay), and between executions they hold what     *)
(* Steady says.                                                            *)
(***************************************************************************)
EXTENDS SelfRelease, TLAPS

\* Places of an execution past backupMainPlist.
Activating == {"switch", "bootout", "boot", "verify", "recheck", "history"}

\* An execution has what it needs of the releases it is between.
Prepared(r) ==
    /\ r.pc \in {"build", "backup"} \cup Activating => r.new \in Releases
    /\ r.pc \in {"backup"} \cup Activating => r.old \in Releases
    /\ r.pc \in Activating => r.was \in Releases

Loaded ==
    /\ recovery # None => recovery.backup \in Releases
    /\ \A s \in Executions : Prepared(run[s])

\* Whatever is under way is the running one.
Only == ~ overdue => \A s \in Executing : running = s /\ phase = "working"

\* The history, or the journal, has a release to go back to from r.
InHistory(r) == history # None /\ history.current = r /\ history.backup # None
InJournal(r) == recovery # None /\ recovery.current = r

\* From r the history leads to b, if there is one.
Found(r, b) == b # None => InHistory(r) /\ history.backup = b

\* A history of another release than r leads nowhere, or to r.
Stale(r) == history # None /\ history.current # r => history.backup \in {None, r}

\* From r the history leads to b, or the journal does where the history knows nothing.
WayBack(r, b) ==
    IF b = None THEN Stale(r)
    ELSE Found(r, b) \/ (~ InHistory(r) /\ InJournal(r) /\ recovery.backup = b)

\* No execution is under way, or it has not touched the plist.
Steady ==
    /\ WayBack(plist, before)
    /\ faults = 0 => Found(plist, before) /\ live = plist

Publishing(r) == r.action = "publish"

\* An execution r that has replaced the plist.
Switched(r) ==
    /\ plist = r.new /\ r.was = r.old
    /\ IF Publishing(r)
       THEN before = r.was /\ InJournal(r.new) /\ recovery.backup = r.was
       ELSE before = None

\* What an execution r has still to go back to.
Undoable(r) ==
    /\ r.was = r.old
    /\ WayBack(r.was, r.undo)
    /\ faults = 0 \/ Publishing(r) => Found(r.was, r.undo)

OnItsWay(r) ==
    /\ faults = 0 => WayBack(plist, before)
    /\ r.pc \in {"inspect", "build", "look", "backup"} \/ (r.pc = "switch" /\ ~ r.back) =>
          Steady
    /\ r.pc \in {"build", "backup"} \/ (r.pc = "switch" /\ ~ r.back) =>
          (Publishing(r) => Found(plist, before))
    /\ r.pc = "build" => Publishing(r)
    /\ r.pc = "look" => ~ Publishing(r) /\ (faults = 0 /\ InJournal(plist) => InHistory(plist))
    /\ r.pc = "backup" \/ (r.pc = "switch" /\ ~ r.back) =>
          /\ r.old = plist
          /\ IF Publishing(r) THEN r.new # plist
             ELSE faults = 0 => history # None /\ history.backup = r.new
    /\ r.pc = "switch" /\ ~ r.back =>
          /\ r.was = plist
          /\ Publishing(r) => InJournal(r.new) /\ recovery.backup = plist
    /\ r.pc \in Activating \ {"switch"} /\ ~ r.back =>
          Switched(r) /\ Undoable(r) /\ (Publishing(r) => r.new # r.was)
    /\ r.pc = "switch" /\ r.back =>
          /\ Undoable(r)
          /\ Switched(r) \/ (plist = r.was /\ before = r.undo)
    /\ r.pc \in {"bootout", "boot", "verify"} /\ r.back =>
          /\ plist = r.was /\ r.was = r.old
          /\ WayBack(plist, before) /\ (faults = 0 => Found(plist, before))
    /\ r.pc \in {"verify", "recheck", "history"} => live = plist
    /\ r.pc = "recheck" => Publishing(r)
    /\ r.pc \in {"inspect", "build", "look", "backup", "recheck", "history"} => ~ r.back

InTime == ~ overdue /\ faults <= 1

Led ==
    InTime => /\ Executing = {} => Steady
              /\ \A s \in Executing : OnItsWay(run[s])

ReleaseInv == ReleaseTypeOK /\ Loaded /\ Only /\ Led

-----------------------------------------------------------------------------
(* What the steps of an execution make of its record *)

Becomes(s, pc, new, old, was, undo, back) ==
    /\ run' = [t \in Executions |-> run'[t]]
    /\ \A t \in Executions \ {s} : run'[t] = run[t]
    /\ run'[s] = [pc |-> pc, action |-> run[s].action, new |-> new, old |-> old, was |-> was,
                  undo |-> undo, back |-> back]
    /\ run'[s].pc = pc /\ run'[s].action = run[s].action
    /\ run'[s].new = new /\ run'[s].old = old /\ run'[s].was = was
    /\ run'[s].undo = undo /\ run'[s].back = back

Over(s) == run' = [run EXCEPT ![s] = [NotBegun EXCEPT !.pc = "over"]]

LEMMA EndShape ==
  ASSUME ReleaseTypeOK, NEW s \in Executions, NEW verdict, EndExecution(s, verdict)
  PROVE  Over(s) /\ running' = None /\ phase' = verdict /\ timer' = FALSE
BY DEF EndExecution, Over

LEMMA GotoShape ==
  ASSUME ReleaseTypeOK, NEW s \in Executions, NEW where, ExecutionTo(s, where)
  PROVE  Becomes(s, where, run[s].new, run[s].old, run[s].was, run[s].undo, run[s].back)
BY DEF ReleaseTypeOK, ExecutionTo, Becomes, Runs

LEMMA InspectShape ==
  ASSUME ReleaseTypeOK, NEW s \in Executions, Inspect(s), ~Over(s)
  PROVE  \/ /\ run[s].action = "publish" /\ head # plist /\ live = plist
            /\ Becomes(s, "build", head, run[s].old, run[s].was, run[s].undo, run[s].back)
            /\ UNCHANGED <<phase, running>> /\ timer' = TRUE
         \/ /\ run[s].action = "rollback" /\ UNCHANGED coordinator
            /\ Becomes(s, "look", run[s].new, run[s].old, run[s].was, run[s].undo, run[s].back)
<1>1. CASE run[s].action = "publish"
  <2>1. /\ head # plist /\ live = plist /\ Stage
        /\ run' = [run EXCEPT ![s].pc = "build", ![s].new = head]
    BY <1>1, EndShape DEF Inspect
  <2> QED
    BY <1>1, <2>1 DEF Stage, Becomes, ReleaseTypeOK, Runs
<1>2. CASE run[s].action = "rollback"
  <2>1. ExecutionTo(s, "look") /\ UNCHANGED coordinator
    BY <1>2, EndShape DEF Inspect
  <2> QED
    BY <1>2, <2>1, GotoShape
<1> QED
  BY <1>1, <1>2, EndShape DEF Inspect

LEMMA BuildShape ==
  ASSUME ReleaseTypeOK, NEW s \in Executions, Build(s)
  PROVE  /\ Becomes(s, "backup", run[s].new, plist, run[s].was, run[s].undo, run[s].back)
         /\ UNCHANGED <<phase, running>> /\ timer' = TRUE
BY DEF Build, Stage, Becomes, ReleaseTypeOK, Runs

LEMMA LookShape ==
  ASSUME ReleaseTypeOK, NEW s \in Executions, Look(s)
  PROVE  /\ Becomes(s, "backup", Offered.backup, plist, run[s].was, run[s].undo, run[s].back)
         /\ UNCHANGED <<phase, running>> /\ timer' = TRUE
<1>1. PICK b : b = Offered.backup
  OBVIOUS
<1>2. run' = [run EXCEPT ![s].pc = "backup", ![s].old = plist, ![s].new = b]
  BY <1>1 DEF Look
<1>3. Becomes(s, "backup", b, plist, run[s].was, run[s].undo, run[s].back)
  <2>1. run' = [t \in Executions |-> run'[t]] /\ \A t \in Executions \ {s} : run'[t] = run[t]
    BY <1>2 DEF ReleaseTypeOK
  <2>2. run'[s] = [run[s] EXCEPT !.pc = "backup", !.old = plist, !.new = b]
    BY <1>2 DEF ReleaseTypeOK
  <2>3. run[s] \in Runs
    BY DEF ReleaseTypeOK
  <2> QED
    BY <2>1, <2>2, <2>3 DEF Becomes, Runs
<1> QED
  BY <1>1, <1>3 DEF Look, Stage

LEMMA BackupShape ==
  ASSUME ReleaseTypeOK, NEW s \in Executions, Backup(s)
  PROVE  Becomes(s, "switch", run[s].new, run[s].old, plist, run[s].undo, run[s].back)
BY DEF Backup, Becomes, ReleaseTypeOK, Runs

LEMMA SwitchShape ==
  ASSUME ReleaseTypeOK, NEW s \in Executions, Switch(s)
  PROVE  Becomes(s, "bootout", run[s].new, run[s].old, run[s].was, before, run[s].back)
BY DEF Switch, Becomes, ReleaseTypeOK, Runs

LEMMA GoesBackShape ==
  ASSUME ReleaseTypeOK, NEW s \in Executions, GoesBack(s), ~ run[s].back
  PROVE  /\ Becomes(s, "switch", run[s].new, run[s].old, run[s].was,
                    IF run[s].pc = "switch" THEN before ELSE run[s].undo, TRUE)
         /\ UNCHANGED <<coordinator, faults>>
BY DEF GoesBack, Becomes, ReleaseTypeOK, Runs

-----------------------------------------------------------------------------
(* Types *)

LEMMA OverType ==
  ASSUME ReleaseTypeOK, Loaded, NEW s \in Executions, Over(s)
  PROVE  run' \in [Executions -> Runs] /\ \A t \in Executions : Prepared(run[t])'
<1>1. run' \in [Executions -> Runs]
  BY DEF ReleaseTypeOK, Over, NotBegun, Runs, Names
<1>2. Prepared(run'[s])
  BY DEF ReleaseTypeOK, Over, Prepared, Activating, NotBegun
<1> QED
  BY <1>1, <1>2 DEF ReleaseTypeOK, Loaded, Over, Prepared

LEMMA OneRunType ==
  ASSUME ReleaseTypeOK, Loaded, NEW s \in Executions,
         run' = [t \in Executions |-> run'[t]],
         \A t \in Executions \ {s} : run'[t] = run[t],
         run'[s] \in Runs, Prepared(run[s])'
  PROVE  run' \in [Executions -> Runs] /\ \A t \in Executions : Prepared(run[t])'
<1>1. run' \in [Executions -> Runs]
  BY DEF ReleaseTypeOK
<1>2. \A t \in Executions : Prepared(run'[t])
  BY DEF Loaded, Prepared
<1> QED
  BY <1>1, <1>2 DEF Prepared

\* What an execution knows of itself.
LEMMA Fields ==
  ASSUME ReleaseTypeOK, Loaded, NEW s \in Executions
  PROVE  /\ run[s] \in Runs
         /\ run[s].new \in Names /\ run[s].old \in Names /\ run[s].was \in Names
         /\ run[s].undo \in Names /\ run[s].back \in BOOLEAN /\ Prepared(run[s])
         /\ run[s].action \in {"none", "check", "publish", "rollback"}
         /\ plist \in Names /\ head \in Names
         /\ Offered # None => Offered \in Records /\ Offered.backup \in Releases
BY DEF ReleaseTypeOK, Loaded, Runs, Names, Offered, Records

LEMMA RunTypes ==
  ASSUME ReleaseTypeOK, Loaded, NEW s \in Executions, Execute(s)
  PROVE  run' \in [Executions -> Runs] /\ \A t \in Executions : Prepared(run[t])'
<1>0. /\ run[s].new \in Names /\ run[s].old \in Names /\ run[s].was \in Names
      /\ run[s].undo \in Names /\ run[s].back \in BOOLEAN /\ Prepared(run[s])
      /\ plist \in Names /\ head \in Names
      /\ run[s].action \in {"none", "check", "publish", "rollback"}
  BY Fields
<1> USE <1>0
<1>1. CASE Over(s)
  BY <1>1, OverType
<1>2. ASSUME ~Over(s), Inspect(s)
      PROVE  run' \in [Executions -> Runs] /\ \A t \in Executions : Prepared(run[t])'
  <2>1. head \in Releases
    BY DEF ReleaseTypeOK
  <2>2. \/ Becomes(s, "build", head, run[s].old, run[s].was, run[s].undo, run[s].back)
        \/ Becomes(s, "look", run[s].new, run[s].old, run[s].was, run[s].undo, run[s].back)
    BY <1>2, InspectShape
  <2> QED
    BY <2>1, <2>2, OneRunType DEF Becomes, Runs, Prepared, Activating
<1>3. CASE Build(s)
  <2>1. run[s].new \in Releases /\ plist \in Releases
    BY <1>3 DEF Build, ExecutionAt, Prepared, ReleaseTypeOK
  <2>2. Becomes(s, "backup", run[s].new, plist, run[s].was, run[s].undo, run[s].back)
    BY <1>3, BuildShape
  <2> QED
    BY <2>1, <2>2, OneRunType DEF Becomes, Runs, Prepared, Activating
<1>4. CASE Look(s)
  <2>1. Offered.backup \in Releases /\ plist \in Releases
    BY <1>4, Fields DEF Look, ReleaseTypeOK
  <2>2. Offered.backup \in Names
    BY <2>1 DEF Names
  <2>3. Becomes(s, "backup", Offered.backup, plist, run[s].was, run[s].undo, run[s].back)
    BY <1>4, LookShape
  <2> QED
    BY <2>1, <2>2, <2>3, OneRunType DEF Becomes, Runs, Prepared, Activating
<1>5. CASE Backup(s)
  <2>1. run[s].new \in Releases /\ run[s].old \in Releases /\ plist \in Releases
    BY <1>5 DEF Backup, ExecutionAt, Prepared, ReleaseTypeOK
  <2>2. Becomes(s, "switch", run[s].new, run[s].old, plist, run[s].undo, run[s].back)
    BY <1>5, BackupShape
  <2> QED
    BY <2>1, <2>2, OneRunType DEF Becomes, Runs, Prepared, Activating
<1>6. CASE Switch(s)
  <2>1. run[s].new \in Releases /\ run[s].old \in Releases /\ run[s].was \in Releases
    BY <1>6 DEF Switch, ExecutionAt, Prepared, Activating
  <2>2. before \in Names
    BY DEF ReleaseTypeOK
  <2>3. Becomes(s, "bootout", run[s].new, run[s].old, run[s].was, before, run[s].back)
    BY <1>6, SwitchShape
  <2> QED
    BY <2>1, <2>2, <2>3, OneRunType DEF Becomes, Runs, Prepared, Activating
<1>7. ASSUME ~Over(s), GoesBack(s)
      PROVE  run' \in [Executions -> Runs] /\ \A t \in Executions : Prepared(run[t])'
  <2>1. run[s].new \in Releases /\ run[s].old \in Releases /\ run[s].was \in Releases
    BY <1>7 DEF GoesBack, Prepared, Activating
  <2>2. before \in Names
    BY DEF ReleaseTypeOK
  <2>3. ~ run[s].back
    BY <1>7, EndShape DEF GoesBack
  <2>4. (IF run[s].pc = "switch" THEN before ELSE run[s].undo) \in Names
    BY <2>2
  <2>5. PICK undo \in Names, back \in BOOLEAN :
           Becomes(s, "switch", run[s].new, run[s].old, run[s].was, undo, back)
    BY <1>7, <2>3, <2>4, GoesBackShape
  <2> QED
    BY <2>1, <2>5, OneRunType DEF Becomes, Runs, Prepared, Activating
<1>8. ASSUME NEW where \in {"boot", "verify", "recheck", "history"},
             run[s].pc \in Activating, ExecutionTo(s, where)
      PROVE  run' \in [Executions -> Runs] /\ \A t \in Executions : Prepared(run[t])'
  <2>1. run[s].new \in Releases /\ run[s].old \in Releases /\ run[s].was \in Releases
    BY <1>8 DEF Prepared
  <2>2. Becomes(s, where, run[s].new, run[s].old, run[s].was, run[s].undo, run[s].back)
    BY <1>8, GotoShape
  <2> QED
    BY <2>1, <2>2, OneRunType DEF Becomes, Runs, Prepared, Activating
<1>9. CASE BootOut(s)
  BY <1>9, <1>8 DEF BootOut, ExecutionAt, Activating
<1>10. CASE Boot(s)
  BY <1>10, <1>8 DEF Boot, ExecutionAt, Activating
<1>11. CASE Verified(s)
  BY <1>11, <1>8, <1>1, EndShape DEF Verified, ExecutionAt, Activating
<1>12. CASE Recheck(s)
  BY <1>12, <1>8 DEF Recheck, ExecutionAt, Activating
<1>13. CASE Throws(s) \/ WriteHistory(s)
  BY <1>13, <1>1, EndShape DEF Throws, WriteHistory
<1> QED
  BY <1>1, <1>2, <1>3, <1>4, <1>5, <1>6, <1>7, <1>9, <1>10, <1>11, <1>12, <1>13 DEF Execute

\* The coordinator's part of a step of an execution.
LEMMA CoordinatorTypes ==
  ASSUME ReleaseTypeOK, NEW s \in Executions, Execute(s)
  PROVE  /\ phase' \in {"idle", "working", "checked", "failed", "succeeded", "rolled_back"}
         /\ running' \in Executions \cup {None} /\ timer' \in BOOLEAN
<1>1. CASE UNCHANGED coordinator
  BY <1>1 DEF coordinator, ReleaseTypeOK
<1>2. CASE Stage
  BY <1>2 DEF Stage, ReleaseTypeOK
<1>3. ASSUME NEW verdict \in {"checked", "failed", "succeeded", "rolled_back"}, EndExecution(s, verdict)
      PROVE  /\ phase' \in {"idle", "working", "checked", "failed", "succeeded", "rolled_back"}
             /\ running' \in Executions \cup {None} /\ timer' \in BOOLEAN
  BY <1>3, EndShape
<1> QED
  BY <1>1, <1>2, <1>3 DEF Execute, Throws, Inspect, Build, Look, Backup, Switch, BootOut, Boot,
                          Verified, GoesBack, Recheck, WriteHistory

\* The machine's part.
LEMMA MachineTypes ==
  ASSUME ReleaseTypeOK, Loaded, NEW s \in Executions, Execute(s)
  PROVE  /\ overdue' = overdue /\ head' = head
         /\ plist' \in Releases /\ live' \in Names /\ before' \in Names
         /\ history' \in Records \cup {None} /\ recovery' \in Records \cup {None}
         /\ recovery' # None => recovery'.backup \in Releases
         /\ faults' \in 0 .. MaxFaults
<1>1. CASE UNCHANGED machine
  <2>1. UNCHANGED faults \/ Fault
    BY <1>1 DEF Execute, Throws, Inspect, Reconciled, Build, Look, Backup, Switch, BootOut,
                Boot, Verified, GoesBack, Recheck, WriteHistory
  <2>2. overdue' = overdue /\ head' = head
    BY DEF Execute, Throws, Inspect, Build, Look, Backup, Switch, BootOut, Boot, Verified,
           GoesBack, Recheck, WriteHistory
  <2> QED
    BY <1>1, <2>1, <2>2, BoundsAssumption DEF machine, ReleaseTypeOK, Loaded, Fault
<1>2. CASE Inspect(s)
  <2>1. history' \in Records \cup {None} /\ recovery' \in {None, recovery}
    BY <1>2, Fields DEF Inspect, Reconciled, ReleaseTypeOK
  <2>2. faults' \in 0 .. MaxFaults
    BY <1>2, BoundsAssumption DEF Inspect, Reconciled, Fault, ReleaseTypeOK
  <2> QED
    BY <1>2, <2>1, <2>2 DEF Inspect, ReleaseTypeOK, Loaded
<1>3. CASE Backup(s)
  <2>1. run[s].new \in Releases /\ run[s].old \in Releases
    BY <1>3, Fields DEF Backup, ExecutionAt, Prepared
  <2>2. recovery' \in {recovery, [current |-> run[s].new, previous |-> run[s].old, backup |-> plist]}
    BY <1>3 DEF Backup
  <2>3. [current |-> run[s].new, previous |-> run[s].old, backup |-> plist] \in Records
    BY <2>1 DEF Records, Names, ReleaseTypeOK
  <2> QED
    BY <1>3, <2>2, <2>3 DEF Backup, ReleaseTypeOK, Loaded
<1>4. CASE Switch(s)
  <2>1. Target(s) \in Releases /\ Replaced(s) \in Names
    BY <1>4, Fields DEF Switch, ExecutionAt, Prepared, Activating, Target, Replaced, Names
  <2> QED
    BY <1>4, <2>1 DEF Switch, ReleaseTypeOK, Loaded
<1>5. CASE BootOut(s) \/ Boot(s)
  BY <1>5 DEF BootOut, Boot, ReleaseTypeOK, Loaded, Names
<1>6. CASE WriteHistory(s)
  <2>1. run[s].new \in Releases /\ run[s].old \in Releases /\ run[s].was \in Releases
    BY <1>6, Fields DEF WriteHistory, ExecutionAt, Prepared, Activating
  <2>2. HistoryOf(s) \in Records
    BY <2>1 DEF HistoryOf, Records, Names
  <2>3. history' \in Records \cup {None} /\ recovery' \in {None, recovery}
    BY <1>6, <2>2 DEF WriteHistory, ReleaseTypeOK
  <2>4. faults' \in 0 .. MaxFaults
    BY <1>6, BoundsAssumption DEF WriteHistory, Fault, ReleaseTypeOK
  <2> QED
    BY <1>6, <2>3, <2>4 DEF WriteHistory, ReleaseTypeOK, Loaded
<1> QED
  BY <1>1, <1>2, <1>3, <1>4, <1>5, <1>6
  DEF Execute, Throws, Build, Look, Verified, GoesBack, Recheck

LEMMA StepTypes ==
  ASSUME ReleaseTypeOK, Loaded, [ReleaseNext]_releaseVars
  PROVE  ReleaseTypeOK' /\ Loaded'
<1>1. ASSUME NEW s \in Executions, Execute(s) PROVE ReleaseTypeOK' /\ Loaded'
  BY <1>1, RunTypes, CoordinatorTypes, MachineTypes DEF ReleaseTypeOK, Loaded
<1>2. ASSUME NEW s \in Executions, NEW action \in {"check", "publish", "rollback"},
             StartAction(s, action)
      PROVE  ReleaseTypeOK' /\ Loaded'
  <2>1. run' \in [Executions -> Runs] /\ \A t \in Executions : Prepared(run'[t])
    BY <1>2 DEF StartAction, ReleaseTypeOK, NotBegun, Runs, Names, Loaded, Prepared, Activating
  <2> QED
    BY <1>2, <2>1 DEF StartAction, machine, ReleaseTypeOK, Loaded, Prepared
<1>3. CASE StartFails \/ StatusResets \/ WatchdogFires
  BY <1>3 DEF StartFails, StatusResets, WatchdogFires, machine, ReleaseTypeOK, Loaded, Prepared
<1>4. CASE HelperCrash
  <2>1. run' \in [Executions -> Runs] /\ \A t \in Executions : Prepared(run'[t])
    BY <1>4 DEF HelperCrash, ReleaseTypeOK, NotBegun, Runs, Names, Prepared, Activating
  <2>2. faults' \in 0 .. MaxFaults
    BY <1>4, BoundsAssumption DEF HelperCrash, Fault, ReleaseTypeOK
  <2>3. /\ running' = None /\ timer' = FALSE /\ UNCHANGED <<overdue, head, machine>>
        /\ phase' \in {phase, "failed"}
    BY <1>4 DEF HelperCrash
  <2> QED
    BY <2>1, <2>2, <2>3 DEF machine, ReleaseTypeOK, Loaded, Prepared
<1>5. CASE OwnerBoots
  BY <1>5 DEF OwnerBoots, coordinator, ReleaseTypeOK, Loaded, Prepared, Names
<1>6. ASSUME NEW r \in Releases, CommitToHead(r) PROVE ReleaseTypeOK' /\ Loaded'
  BY <1>6 DEF CommitToHead, coordinator, machine, ReleaseTypeOK, Loaded, Prepared
<1>7. CASE UNCHANGED releaseVars
  BY <1>7 DEF releaseVars, ReleaseTypeOK, Loaded, Prepared
<1> QED
  BY <1>1, <1>2, <1>3, <1>4, <1>5, <1>6, <1>7 DEF ReleaseNext

-----------------------------------------------------------------------------
(* One execution at a time *)

\* While every stage ends in time an execution that takes a step is alone.
LEMMA Alone ==
  ASSUME ReleaseTypeOK, Only, ~ overdue, NEW s \in Executions, Execute(s)
  PROVE  /\ Executing = {s} /\ running = s /\ phase = "working"
         /\ overdue' = overdue
<1>1. s \in Executing
  BY DEF Execute, Throws, Inspect, Build, Look, Backup, Switch, BootOut, Boot, Verified, GoesBack,
         Recheck, WriteHistory, ExecutionAt, Executing
<1>2. overdue' = overdue
  BY DEF Execute, Throws, Inspect, Build, Look, Backup, Switch, BootOut, Boot, Verified, GoesBack,
         Recheck, WriteHistory
<1> QED
  BY <1>1, <1>2 DEF Only

LEMMA OthersStay ==
  ASSUME ReleaseTypeOK, NEW s \in Executions, Execute(s)
  PROVE  /\ \A t \in Executions \ {s} : run'[t] = run[t]
         /\ \/ Over(s)
            \/ run'[s].pc \notin {"idle", "over"} /\ UNCHANGED <<phase, running>>
<1>1. CASE Over(s)
  BY <1>1 DEF Over, ReleaseTypeOK
<1>2. CASE Inspect(s) /\ ~Over(s)
  BY <1>2, InspectShape DEF Becomes, coordinator
<1>3. CASE Build(s)
  BY <1>3, BuildShape DEF Becomes
<1>4. CASE Look(s)
  BY <1>4, LookShape DEF Becomes
<1>5. CASE Backup(s)
  BY <1>5, BackupShape DEF Becomes, Backup, coordinator
<1>6. CASE Switch(s)
  BY <1>6, SwitchShape DEF Becomes, Switch, coordinator
<1>7. CASE GoesBack(s) /\ ~Over(s)
  <2>1. ~ run[s].back
    BY <1>7, EndShape DEF GoesBack
  <2> QED
    BY <1>7, <2>1, GoesBackShape DEF Becomes, coordinator
<1>8. CASE BootOut(s) \/ Boot(s) \/ Recheck(s)
  <2>1. PICK where \in {"boot", "verify", "history"} : ExecutionTo(s, where)
    BY <1>8 DEF BootOut, Boot, Recheck
  <2>2. Becomes(s, where, run[s].new, run[s].old, run[s].was, run[s].undo, run[s].back)
    BY <2>1, GotoShape
  <2>3. UNCHANGED <<phase, running>>
    BY <1>8 DEF BootOut, Boot, Recheck, coordinator
  <2> QED
    BY <2>2, <2>3 DEF Becomes
<1>9. CASE Verified(s) /\ ~Over(s)
  <2>1. /\ ExecutionTo(s, "recheck") \/ ExecutionTo(s, "history")
        /\ Stage \/ UNCHANGED coordinator
    BY <1>9, EndShape DEF Verified
  <2>2. PICK where \in {"recheck", "history"} : ExecutionTo(s, where)
    BY <2>1
  <2>3. Becomes(s, where, run[s].new, run[s].old, run[s].was, run[s].undo, run[s].back)
    BY <2>2, GotoShape
  <2> QED
    BY <2>1, <2>3 DEF Becomes, Stage, coordinator
<1>10. CASE Throws(s) \/ WriteHistory(s)
  BY <1>1, <1>10, EndShape DEF Throws, WriteHistory
<1> QED
  BY <1>1, <1>2, <1>3, <1>4, <1>5, <1>6, <1>7, <1>8, <1>9, <1>10 DEF Execute

LEMMA StepOnly ==
  ASSUME ReleaseTypeOK, Only, [ReleaseNext]_releaseVars
  PROVE  Only'
<1> SUFFICES ASSUME ~ overdue' PROVE \A s \in Executing' : running' = s /\ phase' = "working"
  BY DEF Only
<1>1. ASSUME NEW s \in Executions, Execute(s)
      PROVE  \A t \in Executing' : running' = t /\ phase' = "working"
  <2>0. ~ overdue
    BY <1>1 DEF Execute, Throws, Inspect, Build, Look, Backup, Switch, BootOut, Boot,
                Verified, GoesBack, Recheck, WriteHistory
  <2>1. Executing = {s} /\ running = s /\ phase = "working"
    BY <1>1, <2>0, Alone
  <2>2. Executing' \subseteq {s}
    BY <1>1, <2>1, OthersStay DEF Executing
  <2>3. Over(s) => Executing' = {}
    BY <2>2 DEF Over, Executing, ReleaseTypeOK, NotBegun
  <2> QED
    BY <1>1, <2>1, <2>2, <2>3, OthersStay
<1>2. ASSUME NEW s \in Executions, NEW action \in {"check", "publish", "rollback"},
             StartAction(s, action)
      PROVE  \A t \in Executing' : running' = t /\ phase' = "working"
  <2>1. Executing = {} /\ running' = s /\ phase' = "working"
    BY <1>2, ReleaseNoneAssumption DEF StartAction, Only
  <2>2. Executing' \subseteq {s}
    BY <1>2, <2>1 DEF StartAction, Executing, ReleaseTypeOK
  <2> QED
    BY <2>1, <2>2
<1>3. CASE StartFails \/ StatusResets
  <2>1. running = None /\ run' = run /\ ~ overdue
    BY <1>3 DEF StartFails, StatusResets
  <2>2. Executing = {}
    BY <2>1, ReleaseNoneAssumption DEF Only, Executing
  <2>3. Executing' = Executing
    BY <2>1 DEF Executing
  <2> QED
    BY <2>2, <2>3
<1>4. CASE WatchdogFires
  BY <1>4 DEF WatchdogFires
<1>5. CASE HelperCrash
  BY <1>5 DEF HelperCrash, ExecutionAt, Executing, NotBegun, ReleaseTypeOK
<1>6. CASE OwnerBoots \/ UNCHANGED releaseVars \/ \E r \in Releases : CommitToHead(r)
  BY <1>6 DEF OwnerBoots, CommitToHead, releaseVars, coordinator, Only, Executing
<1> QED
  BY <1>1, <1>2, <1>3, <1>4, <1>5, <1>6 DEF ReleaseNext

-----------------------------------------------------------------------------
(* The way back *)

\* The machine, with the faults, is all that Led and what it is made of look at.
LEMMA PlistStays ==
  ASSUME UNCHANGED <<machine, faults>>
  PROVE  /\ Steady' <=> Steady
         /\ \A s \in Executions : run'[s] = run[s] => (OnItsWay(run[s])' <=> OnItsWay(run[s]))
BY DEF machine, Steady, OnItsWay, WayBack, Found, Stale, InHistory, InJournal, Switched, Undoable,
       Publishing

\* What is at most one more fault leaves what was kept.
LEMMA FaultSteady ==
  ASSUME ReleaseTypeOK, Only, Led, Fault, UNCHANGED machine, InTime', overdue' = overdue
  PROVE  Steady'
<1>1. InTime /\ faults = 0 /\ faults' = 1
  BY DEF InTime, Fault, ReleaseTypeOK
<1>2. WayBack(plist, before)
  <2>1. CASE Executing = {}
    BY <1>1, <2>1 DEF Led, Steady
  <2>2. CASE Executing # {}
    BY <1>1, <2>2 DEF Led, OnItsWay
  <2> QED
    BY <2>1, <2>2
<1>3. WayBack(plist, before)'
  BY <1>2 DEF machine, WayBack, Found, Stale, InHistory, InJournal
<1> QED
  BY <1>1, <1>3 DEF Steady

\* reconcileRollbackHistory loses nothing, and with the release running and no fault
\* the history knows what the journal knows.
LEMMA ReconciledKeeps ==
  ASSUME ReleaseTypeOK, Loaded, Steady, Reconciled, UNCHANGED <<plist, before, live>>,
         faults' <= 1
  PROVE  /\ Steady'
         /\ live = plist => Found(plist, before)'
         /\ (faults' = 0 /\ InJournal(plist)') => InHistory(plist)'
<1>1. recovery # None => recovery \in Records /\ recovery.backup # None
  BY ReleaseNoneAssumption DEF ReleaseTypeOK, Loaded
<1>2. CASE Offered \in {None, history}
  <2>1. UNCHANGED <<history, recovery, faults>>
    BY <1>2 DEF Reconciled
  <2>2. Steady'
    BY <2>1 DEF Steady, WayBack, Found, Stale, InHistory, InJournal
  <2>3. live = plist /\ InJournal(plist) => InHistory(plist)
    BY <1>1, <1>2 DEF Offered, InHistory, InJournal
  <2>4. live = plist => Found(plist, before)
    BY <2>3 DEF Steady, WayBack, Found, InHistory
  <2> QED
    BY <2>1, <2>2, <2>3, <2>4 DEF Steady, Found, InHistory, InJournal
<1>3. CASE Offered \notin {None, history}
  <2>1. /\ Offered = recovery /\ InJournal(plist) /\ live = plist /\ ~ InHistory(plist)
    BY <1>3 DEF Offered, InHistory, InJournal
  <2>2. CASE Fault /\ UNCHANGED <<history, recovery>>
    <3>1. faults = 0 /\ faults' = 1
      BY <2>2 DEF Fault, ReleaseTypeOK
    <3> QED
      BY <2>2, <3>1, <2>1 DEF Steady, WayBack, Found, Stale, InHistory, InJournal
  <2>3. CASE history' = recovery /\ UNCHANGED faults
    BY <1>1, <2>1, <2>3 DEF Steady, WayBack, Found, Stale, InHistory, InJournal
  <2> QED
    BY <1>3, <2>1, <2>2, <2>3 DEF Reconciled
<1> QED
  BY <1>2, <1>3

\* A step of the execution that is under way, in time and with one fault at most.
Leads(s) == (Over(s) => Steady') /\ (~ Over(s) => OnItsWay(run[s])')

LEMMA InspectLeads ==
  ASSUME ReleaseTypeOK, Loaded, InTime', NEW s \in Executions, OnItsWay(run[s]), Inspect(s)
  PROVE  Leads(s)
<1>1. Steady /\ ExecutionAt(s, "inspect") /\ Reconciled /\ UNCHANGED <<plist, before, live>>
  BY DEF Inspect, ExecutionAt, OnItsWay
<1>2. /\ Steady'
      /\ live = plist => Found(plist, before)'
      /\ (faults' = 0 /\ InJournal(plist)') => InHistory(plist)'
  BY <1>1, ReconciledKeeps DEF InTime
<1>3. ASSUME ~ Over(s) PROVE OnItsWay(run[s])'
  <2>1. \/ run'[s].pc = "build" /\ run'[s].action = "publish" /\ live = plist
        \/ run'[s].pc = "look" /\ run'[s].action = "rollback"
    BY <1>3, InspectShape DEF Becomes
  <2>2. ~ run'[s].back
    BY <1>1, <1>3, InspectShape DEF Becomes, ExecutionAt, OnItsWay
  <2> QED
    BY <1>2, <2>1, <2>2 DEF OnItsWay, Steady, Publishing, Activating
<1> QED
  BY <1>2, <1>3 DEF Leads

LEMMA ReadyLeads ==
  ASSUME ReleaseTypeOK, Loaded, InTime', NEW s \in Executions, OnItsWay(run[s]),
         Build(s) \/ Look(s)
  PROVE  Leads(s)
<1>1. Steady /\ UNCHANGED <<machine, faults>>
  BY DEF Build, Look, ExecutionAt, OnItsWay
<1>2. Steady' /\ (Found(plist, before)' <=> Found(plist, before))
  BY <1>1, PlistStays DEF machine, Found, InHistory
<1>3. /\ run'[s].pc = "backup" /\ run'[s].action = run[s].action
      /\ run'[s].old = plist /\ ~ run'[s].back
  BY BuildShape, LookShape DEF Becomes, Build, Look, ExecutionAt, OnItsWay
<1>4. CASE Build(s)
  <2>1. /\ Publishing(run[s]) /\ run[s].new # plist /\ Found(plist, before)
        /\ run'[s].new = run[s].new
    BY <1>4, BuildShape DEF Build, ExecutionAt, OnItsWay, Becomes
  <2> QED
    BY <1>1, <1>2, <1>3, <2>1 DEF machine, Leads, OnItsWay, Steady, Publishing, Activating, Over, NotBegun,
                                  ReleaseTypeOK
<1>5. CASE Look(s)
  <2>1. /\ ~ Publishing(run[s]) /\ run'[s].new = Offered.backup /\ Offered # None
        /\ faults = 0 /\ InJournal(plist) => InHistory(plist)
    BY <1>5, LookShape DEF Look, ExecutionAt, OnItsWay, Becomes
  <2>2. faults = 0 => history # None /\ history.backup = Offered.backup
    BY <2>1 DEF Offered, InHistory, InJournal
  <2> QED
    BY <1>1, <1>2, <1>3, <2>1, <2>2 DEF machine, Leads, OnItsWay, Steady, Publishing, Activating
<1> QED
  BY <1>4, <1>5

LEMMA BackupLeads ==
  ASSUME ReleaseTypeOK, Loaded, InTime', NEW s \in Executions, OnItsWay(run[s]), Backup(s)
  PROVE  Leads(s)
<1>1. /\ run'[s].pc = "switch" /\ run'[s].action = run[s].action /\ run'[s].new = run[s].new
      /\ run'[s].old = run[s].old /\ run'[s].was = plist /\ run'[s].back = run[s].back
  BY BackupShape DEF Becomes
<1>2. /\ ExecutionAt(s, "backup") /\ Steady /\ ~ run[s].back /\ run[s].old = plist
      /\ UNCHANGED <<plist, live, history, before, faults>>
  BY DEF Backup, ExecutionAt, OnItsWay
<1>3. CASE Publishing(run[s])
  <2>1. Found(plist, before) /\ run[s].new # plist
    BY <1>2, <1>3 DEF ExecutionAt, OnItsWay
  <2>2. recovery' = [current |-> run[s].new, previous |-> run[s].old, backup |-> plist]
    BY <1>3 DEF Backup, Publishing
  <2>3. Steady' /\ Found(plist, before)'
    BY <1>2, <2>1 DEF Steady, WayBack, Found, Stale, InHistory
  <2>4. recovery' # None /\ recovery'.current = run[s].new /\ recovery'.backup = plist
    <3>1. run[s].new \in Releases /\ run[s].old \in Releases
      BY <1>2 DEF Loaded, Prepared, ExecutionAt
    <3>2. [current |-> run[s].new, previous |-> run[s].old, backup |-> plist] \in Records
      BY <3>1 DEF Records, Names, ReleaseTypeOK
    <3> QED
      BY <2>2, <3>2, ReleaseNoneAssumption
  <2> QED
    BY <1>1, <1>2, <1>3, <2>1, <2>3, <2>4
    DEF Leads, OnItsWay, Steady, Publishing, Activating, InJournal, Over, NotBegun, ReleaseTypeOK
<1>4. CASE ~ Publishing(run[s])
  <2>1. recovery' = recovery
    BY <1>4 DEF Backup, Publishing
  <2>2. Steady'
    BY <1>2, <2>1 DEF Steady, WayBack, Found, Stale, InHistory, InJournal
  <2>3. faults = 0 => history # None /\ history.backup = run[s].new
    BY <1>2, <1>4 DEF ExecutionAt, OnItsWay
  <2> QED
    BY <1>1, <1>2, <1>4, <2>2, <2>3
    DEF Leads, OnItsWay, Steady, Publishing, Activating, Over, NotBegun, ReleaseTypeOK
<1> QED
  BY <1>3, <1>4

LEMMA SwitchLeads ==
  ASSUME ReleaseTypeOK, Loaded, InTime', NEW s \in Executions, OnItsWay(run[s]), Switch(s)
  PROVE  Leads(s)
<1>1. /\ run'[s].pc = "bootout" /\ run'[s].action = run[s].action /\ run'[s].new = run[s].new
      /\ run'[s].old = run[s].old /\ run'[s].was = run[s].was /\ run'[s].undo = before
      /\ run'[s].back = run[s].back
  BY SwitchShape DEF Becomes
<1>2. /\ ExecutionAt(s, "switch") /\ UNCHANGED <<live, history, recovery, faults>>
      /\ plist' = Target(s) /\ before' = Replaced(s)
  BY DEF Switch
<1>3. ~ Over(s)
  BY <1>1 DEF Over, NotBegun, ReleaseTypeOK
<1>4. CASE ~ run[s].back
  <2>1. /\ run[s].old = plist /\ run[s].was = plist /\ plist' = run[s].new /\ Steady
        /\ before' = IF Publishing(run[s]) THEN plist ELSE None
    BY <1>2, <1>4 DEF ExecutionAt, OnItsWay, Target, Replaced, Publishing
  <2>2. plist \in Releases
    BY DEF ReleaseTypeOK
  <2>3. Publishing(run[s]) =>
           /\ Found(plist, before) /\ run[s].new # plist
           /\ InJournal(run[s].new) /\ recovery.backup = plist
    BY <1>2, <1>4 DEF ExecutionAt, OnItsWay
  <2>4. ~ Publishing(run[s]) /\ faults = 0 => history # None /\ history.backup = run[s].new
    BY <1>2, <1>4 DEF ExecutionAt, OnItsWay
  <2>5. Switched(run[s])'
    BY <1>1, <1>2, <2>1, <2>3 DEF Switched, Publishing, InJournal
  <2>6. Undoable(run[s])'
    BY <1>1, <1>2, <2>1, <2>3 DEF Undoable, Steady, Publishing, WayBack, Found, Stale, InHistory,
                                  InJournal
  <2>7. faults' = 0 => WayBack(plist, before)'
    <3>1. CASE Publishing(run[s])
      BY <1>2, <2>1, <2>2, <2>3, <3>1, ReleaseNoneAssumption
         DEF Steady, WayBack, Found, Stale, InHistory, InJournal
    <3>2. CASE ~ Publishing(run[s])
      BY <1>2, <2>1, <2>4, <3>2 DEF WayBack, Stale
    <3> QED
      BY <3>1, <3>2
  <2>8. Publishing(run'[s]) => run'[s].new # run'[s].was
    BY <1>1, <2>1, <2>3 DEF Publishing
  <2> QED
    BY <1>1, <1>3, <1>4, <2>5, <2>6, <2>7, <2>8 DEF Leads, OnItsWay, Activating
<1>5. CASE run[s].back
  <2>1. /\ Undoable(run[s]) /\ plist' = run[s].was /\ before' = run[s].undo
    BY <1>2, <1>5 DEF ExecutionAt, OnItsWay, Target, Replaced
  <2>2. /\ WayBack(plist, before)' /\ (faults' = 0 => Found(plist, before)')
        /\ run[s].was = run[s].old
    BY <1>2, <2>1 DEF Undoable, WayBack, Found, Stale, InHistory, InJournal
  <2> QED
    BY <1>1, <1>3, <1>5, <2>1, <2>2 DEF Leads, OnItsWay, Activating
<1> QED
  BY <1>4, <1>5

LEMMA BootLeads ==
  ASSUME ReleaseTypeOK, InTime', NEW s \in Executions, OnItsWay(run[s]), BootOut(s) \/ Boot(s) \/ Recheck(s)
  PROVE  Leads(s)
<1>1. /\ run[s].pc \in {"bootout", "boot", "recheck"}
      /\ run'[s].pc = IF run[s].pc = "bootout" THEN "boot"
                      ELSE IF run[s].pc = "boot" THEN "verify" ELSE "history"
      /\ run'[s].action = run[s].action /\ run'[s].new = run[s].new
      /\ run'[s].old = run[s].old /\ run'[s].was = run[s].was /\ run'[s].undo = run[s].undo
      /\ run'[s].back = run[s].back
  BY GotoShape DEF BootOut, Boot, Recheck, ExecutionAt, Becomes
<1>2. /\ UNCHANGED <<plist, history, recovery, before, faults>>
      /\ run[s].pc # "bootout" => live' = plist
  BY <1>1 DEF BootOut, Boot, Recheck, ExecutionAt, machine, OnItsWay
<1>3. ~ Over(s)
  BY <1>1 DEF Over, NotBegun, ReleaseTypeOK
<1>4. /\ ~ run[s].back => Switched(run[s]) /\ Undoable(run[s])
                           /\ (Publishing(run[s]) => run[s].new # run[s].was)
      /\ run[s].back => /\ plist = run[s].was /\ run[s].was = run[s].old
                        /\ WayBack(plist, before) /\ (faults = 0 => Found(plist, before))
      /\ faults = 0 => WayBack(plist, before)
      /\ run[s].pc = "recheck" => ~ run[s].back
  BY <1>1 DEF OnItsWay, Activating
<1>5. /\ Switched(run[s]) => Switched(run[s])'
      /\ Undoable(run[s]) => Undoable(run[s])'
      /\ WayBack(plist, before) => WayBack(plist, before)'
      /\ Found(plist, before) => Found(plist, before)'
  BY <1>1, <1>2 DEF Switched, Undoable, Publishing, WayBack, Found, Stale, InHistory, InJournal
<1> QED
  BY <1>1, <1>2, <1>3, <1>4, <1>5 DEF Leads, OnItsWay, Publishing, Activating

LEMMA VerifiedLeads ==
  ASSUME ReleaseTypeOK, InTime', NEW s \in Executions, OnItsWay(run[s]), Verified(s)
  PROVE  Leads(s)
<1>1. /\ ExecutionAt(s, "verify") /\ UNCHANGED <<machine, faults>> /\ live = plist
  BY DEF Verified, ExecutionAt, OnItsWay
<1>2. CASE run[s].back
  <2>1. Over(s) /\ WayBack(plist, before) /\ (faults = 0 => Found(plist, before))
    BY <1>1, <1>2, EndShape DEF Verified, ExecutionAt, OnItsWay
  <2>2. Steady
    BY <1>1, <2>1 DEF Steady
  <2> QED
    BY <1>1, <2>1, <2>2, PlistStays DEF Leads
<1>3. CASE ~ run[s].back
  <2>1. /\ Switched(run[s]) /\ Undoable(run[s]) /\ (faults = 0 => WayBack(plist, before))
        /\ Publishing(run[s]) => run[s].new # run[s].was
    BY <1>1, <1>3 DEF ExecutionAt, OnItsWay, Activating
  <2>2. \/ Publishing(run[s]) /\ ExecutionTo(s, "recheck")
        \/ ~ Publishing(run[s]) /\ ExecutionTo(s, "history")
    BY <1>3 DEF Verified, Publishing
  <2>3. /\ run'[s].pc = IF Publishing(run[s]) THEN "recheck" ELSE "history"
        /\ run'[s].action = run[s].action /\ run'[s].new = run[s].new
        /\ run'[s].old = run[s].old /\ run'[s].was = run[s].was
        /\ run'[s].undo = run[s].undo /\ run'[s].back = run[s].back
    BY <2>2, GotoShape DEF Becomes
  <2>4. ~ Over(s)
    BY <2>3 DEF Over, NotBegun, ReleaseTypeOK
  <2>5. /\ Switched(run[s])' /\ Undoable(run[s])' /\ live' = plist'
        /\ faults' = 0 => WayBack(plist, before)'
    BY <1>1, <2>1, <2>3 DEF machine, Switched, Undoable, Publishing, WayBack, Found, Stale, InHistory,
                            InJournal
  <2> QED
    BY <1>3, <2>1, <2>3, <2>4, <2>5 DEF Leads, OnItsWay, Publishing, Activating
<1> QED
  BY <1>2, <1>3

LEMMA GoesBackLeads ==
  ASSUME ReleaseTypeOK, Only, Led, InTime', NEW s \in Executions, OnItsWay(run[s]), GoesBack(s)
  PROVE  Leads(s)
<1>1. UNCHANGED machine /\ overdue' = overdue
  BY DEF GoesBack
<1>2. CASE run[s].back
  BY <1>1, <1>2, EndShape, FaultSteady DEF GoesBack, Leads
<1>3. CASE ~ run[s].back
  <2> DEFINE undone == IF run[s].pc = "switch" THEN before ELSE run[s].undo
  <2>1. /\ run'[s].pc = "switch" /\ run'[s].action = run[s].action /\ run'[s].new = run[s].new
        /\ run'[s].old = run[s].old /\ run'[s].was = run[s].was
        /\ run'[s].undo = undone /\ run'[s].back /\ UNCHANGED faults
    BY <1>3, GoesBackShape DEF Becomes
  <2>2. ~ Over(s)
    BY <2>1 DEF Over, NotBegun, ReleaseTypeOK
  <2>3. faults' = 0 => WayBack(plist, before)'
    BY <1>1, <2>1 DEF machine, OnItsWay, WayBack, Found, Stale, InHistory, InJournal
  <2>4. Undoable(run[s])' /\ (Switched(run[s])' \/ (plist' = run'[s].was /\ before' = run'[s].undo))
    <3>1. CASE run[s].pc = "switch"
      <4>1. /\ run[s].was = plist /\ run[s].old = plist /\ Steady
            /\ Publishing(run[s]) => Found(plist, before)
        BY <1>3, <3>1 DEF OnItsWay
      <4> QED
        BY <1>1, <2>1, <3>1, <4>1 DEF machine, Undoable, Steady, Publishing, WayBack, Found, Stale,
                                      InHistory, InJournal
    <3>2. CASE run[s].pc # "switch"
      <4>1. Switched(run[s]) /\ Undoable(run[s])
        BY <1>3, <3>2 DEF GoesBack, OnItsWay, Activating
      <4> QED
        BY <1>1, <2>1, <3>2, <4>1 DEF machine, Switched, Undoable, Publishing, WayBack, Found, Stale,
                                      InHistory, InJournal
    <3> QED
      BY <3>1, <3>2
  <2> QED
    BY <2>1, <2>2, <2>3, <2>4 DEF Leads, OnItsWay, Activating
<1> QED
  BY <1>2, <1>3

LEMMA WriteHistoryLeads ==
  ASSUME ReleaseTypeOK, Loaded, Only, Led, InTime', NEW s \in Executions, OnItsWay(run[s]),
         WriteHistory(s)
  PROVE  Leads(s)
<1>1. /\ Over(s) /\ UNCHANGED <<overdue, plist, live, before>>
      /\ run[s].pc = "history" /\ ~ run[s].back /\ live = plist /\ Switched(run[s])
  BY EndShape DEF WriteHistory, ExecutionAt, OnItsWay, Activating
<1>2. CASE Fault /\ UNCHANGED <<history, recovery>>
  BY <1>1, <1>2, FaultSteady DEF machine, Leads
<1>3. CASE history' = HistoryOf(s)
  <2>1. run[s].new \in Releases /\ run[s].old \in Releases /\ run[s].was \in Releases
    BY <1>1 DEF Loaded, Prepared, Activating
  <2>2. HistoryOf(s) \in Records
    BY <2>1 DEF HistoryOf, Records, Names
  <2>3. /\ history' # None /\ history'.current = plist
        /\ history'.backup = IF Publishing(run[s]) THEN before ELSE None
        /\ ~ Publishing(run[s]) => before = None
    BY <1>1, <1>3, <2>2, ReleaseNoneAssumption DEF HistoryOf, Switched, Publishing
  <2> QED
    BY <1>1, <2>3 DEF Leads, Steady, WayBack, Found, Stale, InHistory
<1> QED
  BY <1>2, <1>3 DEF WriteHistory

LEMMA ThrowsLeads ==
  ASSUME ReleaseTypeOK, Only, Led, InTime', NEW s \in Executions, OnItsWay(run[s]), Throws(s)
  PROVE  Leads(s)
<1>1. Over(s) /\ UNCHANGED machine /\ overdue' = overdue
  BY EndShape DEF Throws
<1>2. CASE run[s].pc \in {"inspect", "build", "look", "backup"} /\ UNCHANGED faults
  <2>1. Steady
    BY <1>2 DEF OnItsWay
  <2> QED
    BY <1>1, <1>2, <2>1, PlistStays DEF Leads
<1>3. CASE Fault
  BY <1>1, <1>3, FaultSteady DEF Leads
<1> QED
  BY <1>2, <1>3 DEF Throws

LEMMA StepLed ==
  ASSUME ReleaseInv, [ReleaseNext]_releaseVars
  PROVE  Led'
<1> SUFFICES ASSUME InTime'
             PROVE  (Executing = {} => Steady)' /\ \A s \in Executing' : OnItsWay(run[s])'
  BY DEF Led
<1> USE DEF ReleaseInv
<1>1. ASSUME NEW s \in Executions, Execute(s)
      PROVE  (Executing = {} => Steady)' /\ \A t \in Executing' : OnItsWay(run[t])'
  <2>1. overdue' = overdue
    BY <1>1 DEF Execute, Throws, Inspect, Build, Look, Backup, Switch, BootOut, Boot, Verified,
                GoesBack, Recheck, WriteHistory
  <2>2. faults' \in {faults, faults + 1}
    BY <1>1 DEF Execute, Throws, Inspect, Reconciled, Build, Look, Backup, Switch, BootOut, Boot,
                Verified, GoesBack, Recheck, WriteHistory, Fault
  <2>3. InTime /\ Executing = {s}
    BY <1>1, <2>1, <2>2, Alone, ReleaseNoneAssumption DEF InTime, ReleaseTypeOK
  <2>4. OnItsWay(run[s])
    BY <2>3 DEF Led
  <2>5. Leads(s)
    BY <1>1, <2>4, InspectLeads, ReadyLeads, BackupLeads, SwitchLeads, BootLeads, VerifiedLeads,
       GoesBackLeads, WriteHistoryLeads, ThrowsLeads DEF Execute
  <2>6. Executing' \subseteq {s}
    BY <1>1, <2>3, OthersStay DEF Executing
  <2>7. Over(s) => Executing' = {}
    BY <2>6 DEF Over, Executing, ReleaseTypeOK, NotBegun
  <2>8. ~ Over(s) => s \in Executing'
    BY <1>1, OthersStay DEF Executing
  <2> QED
    BY <2>5, <2>6, <2>7, <2>8 DEF Leads
<1>2. ASSUME NEW s \in Executions, NEW action \in {"check", "publish", "rollback"},
             StartAction(s, action)
      PROVE  (Executing = {} => Steady)' /\ \A t \in Executing' : OnItsWay(run[t])'
  <2>1. /\ running = None /\ ~ overdue /\ UNCHANGED <<machine, faults>>
        /\ run' = [run EXCEPT ![s] = [NotBegun EXCEPT !.pc = "inspect", !.action = action]]
    BY <1>2 DEF StartAction, InTime
  <2>2. Executing = {}
    BY <2>1, ReleaseNoneAssumption DEF Only, Executing
  <2>3. Executing' = {s} /\ run'[s].pc = "inspect" /\ ~ run'[s].back
    BY <2>1, <2>2 DEF Executing, ReleaseTypeOK, NotBegun
  <2>4. Steady
    BY <2>1, <2>2 DEF Led, InTime
  <2>5. Steady'
    BY <2>1, <2>4, PlistStays
  <2>6. OnItsWay(run[s])'
    BY <2>3, <2>5 DEF OnItsWay, Steady, Activating
  <2> QED
    BY <2>3, <2>6
<1>3. CASE StartFails \/ StatusResets \/ (\E r \in Releases : CommitToHead(r)) \/ UNCHANGED releaseVars
  <2>1. UNCHANGED <<overdue, run, machine, faults>>
    BY <1>3 DEF StartFails, StatusResets, CommitToHead, releaseVars, machine
  <2>2. Executing' = Executing /\ InTime
    BY <2>1 DEF Executing, InTime
  <2> QED
    BY <2>1, <2>2, PlistStays DEF Led, Executing
<1>4. CASE WatchdogFires
  BY <1>4 DEF WatchdogFires, InTime
<1>5. CASE HelperCrash
  <2>1. Executing' = {}
    BY <1>5 DEF HelperCrash, ExecutionAt, Executing, NotBegun, ReleaseTypeOK
  <2>2. Fault /\ UNCHANGED machine /\ overdue' = overdue
    BY <1>5 DEF HelperCrash
  <2> QED
    BY <2>1, <2>2, FaultSteady
<1>6. CASE OwnerBoots
  <2>1. /\ UNCHANGED <<overdue, run, plist, history, recovery, before, faults>>
        /\ live = None /\ live' = plist
    BY <1>6 DEF OwnerBoots
  <2>2. Executing' = Executing /\ InTime
    BY <2>1 DEF Executing, InTime
  <2>3. Steady => Steady'
    BY <2>1 DEF Steady, WayBack, Found, Stale, InHistory, InJournal
  <2>4. ASSUME NEW s \in Executing PROVE OnItsWay(run[s])'
    <3>1. OnItsWay(run[s])
      BY <2>2 DEF Led
    <3>2. /\ WayBack(plist, before)' <=> WayBack(plist, before)
          /\ Found(plist, before)' <=> Found(plist, before)
          /\ InJournal(plist)' <=> InJournal(plist)
          /\ InHistory(plist)' <=> InHistory(plist)
          /\ Switched(run[s])' <=> Switched(run[s])
          /\ Undoable(run[s])' <=> Undoable(run[s])
          /\ InJournal(run[s].new)' <=> InJournal(run[s].new)
      BY <2>1 DEF WayBack, Found, Stale, InHistory, InJournal, Switched, Undoable, Publishing
    <3> QED
      BY <2>1, <2>3, <3>1, <3>2 DEF OnItsWay, Publishing
  <2> QED
    BY <2>2, <2>3, <2>4 DEF Led
<1> QED
  BY <1>1, <1>2, <1>3, <1>4, <1>5, <1>6 DEF ReleaseNext

LEMMA ReleaseInitial == ReleaseInit => ReleaseInv
<1> SUFFICES ASSUME ReleaseInit PROVE ReleaseInv
  OBVIOUS
<1> USE FirstAssumption, BoundsAssumption, ReleaseNoneAssumption DEF ReleaseInit
<1>1. Executing = {}
  BY DEF Executing, NotBegun
<1>2. Loaded /\ Only
  BY <1>1 DEF Loaded, Prepared, Activating, Only, NotBegun
<1>3. Led
  BY <1>1 DEF Led, Steady, WayBack, Found, Stale, Executing
<1>4. ReleaseTypeOK
  <2>1. NotBegun \in Runs
    BY DEF NotBegun, Runs, Names
  <2>2. run \in [Executions -> Runs]
    BY <2>1
  <2>3. overdue \in BOOLEAN /\ timer \in BOOLEAN
    OBVIOUS
  <2>4. /\ phase = "idle" /\ running \in Executions \cup {None}
        /\ live \in Names /\ before \in Names /\ faults \in 0 .. MaxFaults
    BY DEF Names
  <2> QED
    BY <2>2, <2>3, <2>4 DEF ReleaseTypeOK
<1> QED
  BY <1>2, <1>3, <1>4 DEF ReleaseInv

LEMMA ReleaseInductive == ReleaseSpec => []ReleaseInv
<1>1. ReleaseInit => ReleaseInv
  BY ReleaseInitial
<1>2. ReleaseInv /\ [ReleaseNext]_releaseVars => ReleaseInv'
  <2> SUFFICES ASSUME ReleaseInv, [ReleaseNext]_releaseVars PROVE ReleaseInv'
    OBVIOUS
  <2> QED
    BY StepTypes, StepOnly, StepLed DEF ReleaseInv
<1> QED
  BY <1>1, <1>2, PTL DEF ReleaseSpec

\* Coordinator, executions, plist, journal and history stay well typed.
THEOREM ReleaseTypeCorrect == ReleaseSpec => []ReleaseTypeOK
<1>1. ReleaseInv => ReleaseTypeOK
  BY DEF ReleaseInv
<1> QED
  BY <1>1, ReleaseInductive, PTL

\* start, execute and the stage watchdog: while every stage ends in time, one
\* execution at most is under way, and it is the one that is shown.
THEOREM OneRunAlways == ReleaseSpec => []OneRunInTime
<1>1. ReleaseInv => OneRunInTime
  BY DEF ReleaseInv, Only, OneRunInTime, OneRun
<1> QED
  BY <1>1, ReleaseInductive, PTL

\* Journal and history: whatever step a publication stopped at, with one fault at
\* most, the release it has replaced is what the next rollback goes back to.
THEOREM WayBackKept == ReleaseSpec => []RollbackKept
<1>1. ReleaseInv => RollbackKept
  BY DEF ReleaseInv, Led, InTime, Steady, WayBack, Found, InHistory, InJournal, RollbackKept, Offered
<1> QED
  BY <1>1, ReleaseInductive, PTL
=============================================================================
