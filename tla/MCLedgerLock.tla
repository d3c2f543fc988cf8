---------------------------- MODULE MCLedgerLock ----------------------------
(* Instances of LedgerLock: the calls of a process that dies, and of others. *)
EXTENDS LedgerLock

CONSTANTS u1, u2, u3, u4, o0, o1, o2

\* One update of a process that dies; the others are of two further processes.
Callers == [c \in Calls |-> CASE c = u1 -> o0 [] c = u2 -> o1 [] OTHER -> o2]
=============================================================================
