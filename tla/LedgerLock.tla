----------------------------- MODULE LedgerLock -----------------------------
(***************************************************************************)
(* The publishing ledger is one JSON file that several processes update.  *)
(* FilePublisherRepository.update reads it, lets the caller change a copy  *)
(* and writes the copy back, all under a lock file.  The lock is created   *)
(* by a hard link, released by renaming it away, and taken over from a     *)
(* dead process by renaming it away too; what was moved is inspected       *)
(* afterwards and, if it was not the expected file, linked back.           *)
(*                                                                         *)
(* An update is a call: it has its own nonce and its own candidate file,   *)
(* so lock files are named by the call that made them.  The age of a dead  *)
(* process's lock and the 250 ms of patience of a waiting call are choices *)
(* of the model: the code may take either side at any time.                *)
(***************************************************************************)
EXTENDS Absent

CONSTANTS Calls,      \* the updates under consideration, each made once
          Owners,     \* the processes
          OwnerOf     \* the process that makes a call

ASSUME OwnerAssumption == OwnerOf \in [Calls -> Owners]
ASSUME LockNoneAssumption == None \notin Calls

VARIABLES
    lock,    \* whose lock file is at lockPath
    aside,   \* the lock file a call has moved out of the way
    seen,    \* the lock file a waiting call has looked at
    pc,      \* where each call is in update
    draft,   \* the ledger as a call has read it
    ledger,  \* the ledger file: the updates it contains
    dead,    \* processes that have died
    mistaken \* a call has isolated a lock file other than the one it had judged

lockVars == <<lock, aside, seen, pc, draft, ledger, dead, mistaken>>

Files == Calls \cup {None}

Ends == {"done", "failed", "killed"}

LockTypeOK ==
    /\ lock \in Files
    /\ aside \in [Calls -> Files]
    /\ seen \in [Calls -> Files]
    /\ pc \in [Calls -> {"idle", "try", "open", "judge", "isolate", "verify", "restore", "read",
                         "write", "release", "remove", "confirm"} \cup Ends]
    /\ draft \in [Calls -> SUBSET Calls]
    /\ ledger \subseteq Calls
    /\ dead \subseteq Owners
    /\ mistaken \in BOOLEAN

LockInit ==
    /\ lock = None
    /\ aside = [c \in Calls |-> None]
    /\ seen = [c \in Calls |-> None]
    /\ pc = [c \in Calls |-> "idle"]
    /\ draft = [c \in Calls |-> {}]
    /\ ledger = {}
    /\ dead = {}
    /\ mistaken = FALSE

Proceed(c, where) == pc' = [pc EXCEPT ![c] = where]

-----------------------------------------------------------------------------
(* acquireLock *)

\* update: create the directory and begin to acquire the lock.
StartUpdate(c) ==
    /\ pc[c] = "idle"
    /\ OwnerOf[c] \notin dead
    /\ Proceed(c, "try")
    /\ UNCHANGED <<lock, aside, seen, draft, ledger, dead, mistaken>>

\* tryCreateLock links the candidate file; if that fails, inspectLock begins
\* with lstat.
TryCreate(c) ==
    /\ pc[c] = "try"
    /\ IF lock = None
       THEN lock' = c /\ Proceed(c, "read") /\ UNCHANGED seen
       ELSE seen' = [seen EXCEPT ![c] = lock] /\ Proceed(c, "open") /\ UNCHANGED lock
    /\ UNCHANGED <<aside, draft, ledger, dead, mistaken>>

\* The rest of inspectLock: the file is gone, another one, or the one lstat saw.
InspectLock(c) ==
    /\ pc[c] = "open"
    /\ Proceed(c, IF lock = None THEN "try" ELSE IF lock = seen[c] THEN "judge" ELSE "failed")
    /\ UNCHANGED <<lock, aside, seen, draft, ledger, dead, mistaken>>

\* Mutant of Judge: a lock may be isolated for its age alone.
JudgeByAge(c) ==
    /\ pc[c] = "judge"
    /\ Proceed(c, "try") \/ Proceed(c, "failed") \/ Proceed(c, "isolate")
    /\ UNCHANGED <<lock, aside, seen, draft, ledger, dead, mistaken>>

\* lockDisposition of what was read: the lock of a dead process may be isolated;
\* for a live one (or a young lock) the call waits, up to its limit.
Judge(c) ==
    /\ pc[c] = "judge"
    /\ \/ Proceed(c, "try")
       \/ Proceed(c, "failed")
       \/ OwnerOf[seen[c]] \in dead /\ Proceed(c, "isolate")
    /\ UNCHANGED <<lock, aside, seen, draft, ledger, dead, mistaken>>

MoveAside(c) ==
    /\ aside' = [aside EXCEPT ![c] = lock]
    /\ lock' = None

\* isolateStaleLock: rename whatever is at lockPath to the quarantine.
Isolate(c) ==
    /\ pc[c] = "isolate"
    /\ IF lock = None
       THEN Proceed(c, "try") /\ UNCHANGED <<lock, aside, mistaken>>
       ELSE /\ MoveAside(c)
            /\ Proceed(c, "verify")
            /\ mistaken' = (mistaken \/ lock # seen[c])
    /\ UNCHANGED <<seen, draft, ledger, dead>>

\* Only now is the quarantined file compared with the one observed.
Verify(c) ==
    /\ pc[c] = "verify"
    /\ IF aside[c] = seen[c]
       THEN aside' = [aside EXCEPT ![c] = None] /\ Proceed(c, "try")
       ELSE UNCHANGED aside /\ Proceed(c, "restore")
    /\ UNCHANGED <<lock, seen, draft, ledger, dead, mistaken>>

\* restoreMovedLock links the moved file back, unless there is a new lock; the
\* call fails either way.
Restore(c) ==
    /\ pc[c] = "restore"
    /\ IF lock = None
       THEN lock' = aside[c] /\ aside' = [aside EXCEPT ![c] = None]
       ELSE UNCHANGED <<lock, aside>>
    /\ Proceed(c, "failed")
    /\ UNCHANGED <<seen, draft, ledger, dead, mistaken>>

-----------------------------------------------------------------------------
(* update proper, and releaseLock *)

Read(c) ==
    /\ pc[c] = "read"
    /\ draft' = [draft EXCEPT ![c] = ledger]
    /\ Proceed(c, "write")
    /\ UNCHANGED <<lock, aside, seen, ledger, dead, mistaken>>

\* The mutator changes the draft, and write replaces the file by a rename.
Write(c) ==
    /\ pc[c] = "write"
    /\ ledger' = draft[c] \cup {c}
    /\ draft' = [draft EXCEPT ![c] = ledger']
    /\ Proceed(c, "release")
    /\ UNCHANGED <<lock, aside, seen, dead, mistaken>>

\* The mutator or the write throws: the lock is released all the same.
Abandon(c) ==
    /\ pc[c] = "write"
    /\ Proceed(c, "release")
    /\ UNCHANGED <<lock, aside, seen, draft, ledger, dead, mistaken>>

\* releaseLock inspects the lock and gives up if it is not its own any more.
Release(c) ==
    /\ pc[c] = "release"
    /\ Proceed(c, IF lock = c THEN "remove" ELSE "failed")
    /\ UNCHANGED <<lock, aside, seen, draft, ledger, dead, mistaken>>

Remove(c) ==
    /\ pc[c] = "remove"
    /\ IF lock = None
       THEN Proceed(c, "failed") /\ UNCHANGED <<lock, aside>>
       ELSE MoveAside(c) /\ Proceed(c, "confirm")
    /\ UNCHANGED <<seen, draft, ledger, dead, mistaken>>

Confirm(c) ==
    /\ pc[c] = "confirm"
    /\ IF aside[c] = c
       THEN aside' = [aside EXCEPT ![c] = None] /\ Proceed(c, "done")
       ELSE UNCHANGED aside /\ Proceed(c, "restore")
    /\ UNCHANGED <<lock, seen, draft, ledger, dead, mistaken>>

\* A process dies between any two steps of its calls; its files stay.
Die(p) ==
    /\ p \notin dead
    /\ dead' = dead \cup {p}
    /\ pc' = [c \in Calls |->
                IF OwnerOf[c] = p /\ pc[c] \notin Ends THEN "killed" ELSE pc[c]]
    /\ UNCHANGED <<lock, aside, seen, draft, ledger, mistaken>>

Update(c) ==
    \/ StartUpdate(c) \/ TryCreate(c) \/ InspectLock(c) \/ Judge(c)
    \/ Isolate(c) \/ Verify(c) \/ Restore(c)
    \/ Read(c) \/ Write(c) \/ Abandon(c)
    \/ Release(c) \/ Remove(c) \/ Confirm(c)

LockNext ==
    \/ \E c \in Calls : Update(c)
    \/ \E p \in Owners : Die(p)

LockSpec == LockInit /\ [][LockNext]_lockVars

-----------------------------------------------------------------------------
(* Properties *)

Inside(c) == pc[c] \in {"read", "write"}

\* README, "账本可通过文件锁跨进程保护": no two updates are between their read and
\* their write at the same time.
MutualExclusion == \A c, d \in Calls : Inside(c) /\ Inside(d) => c = d

\* An update that has written and released the lock is in the ledger and stays.
NoLostUpdate == \A c \in Calls : pc[c] = "done" /\ c \in draft[c] => c \in ledger

\* Until a call has isolated a lock file that it had not judged, both promises hold:
\* deaths and the takeover of dead processes' locks do no harm by themselves.
NoMistakeNoLoss == ~ mistaken => MutualExclusion /\ NoLostUpdate
=============================================================================
