--------------------------- MODULE MCTaskApproval ---------------------------
(***************************************************************************)
(* Instances of TaskApproval for TLC.  Tasks do not share state except for *)
(* the expiry pass and the boot, so one task per kind of risk shows each   *)
(* protocol and two tasks show them side by side.                          *)
(***************************************************************************)
EXTENDS TaskApproval

CONSTANTS l1, p1, n1

LocalTask     == {l1}
PaperclipTask == {p1}
HostTasks     == {l1, n1}

LocalRisk     == [t \in LocalTask |-> "local"]
PaperclipRisk == [t \in PaperclipTask |-> "paperclip"]
HostRisk      == [t \in HostTasks |-> IF t = l1 THEN "local" ELSE "none"]
=============================================================================
