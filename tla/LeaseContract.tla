---------------------------- MODULE LeaseContract ----------------------------
(***************************************************************************)
(* What leasing a task to a Mac worker promises, whatever the messages in  *)
(* between do: a task is owned by one worker at a time, it changes hands   *)
(* only after the owner's lease has lapsed, and it is closed once, by the  *)
(* worker that owns it at that moment.                                     *)
(***************************************************************************)
CONSTANTS Tasks, Workers, Outcomes, None

VARIABLES
  owner,    \* the worker a task was last given to
  lapsed,   \* the tasks whose owner let its lease run out
  closing   \* how a task was closed, and by whom

vars == <<owner, lapsed, closing>>

Init ==
  /\ owner = [t \in Tasks |-> None]
  /\ lapsed = {}
  /\ closing = [t \in Tasks |-> None]

Open(t) == closing[t] = None

Give(t, w) ==
  /\ Open(t) /\ (owner[t] = None \/ t \in lapsed)
  /\ owner' = [owner EXCEPT ![t] = w]
  /\ lapsed' = lapsed \ {t}
  /\ UNCHANGED closing

Lapse(t) ==
  /\ owner[t] # None
  /\ lapsed' = lapsed \cup {t}
  /\ UNCHANGED <<owner, closing>>

Close(t, w, outcome) ==
  /\ Open(t) /\ owner[t] = w /\ t \notin lapsed
  /\ closing' = [closing EXCEPT ![t] = [by |-> w, outcome |-> outcome]]
  /\ UNCHANGED <<owner, lapsed>>

Next ==
  \E t \in Tasks :
    \/ Lapse(t)
    \/ \E w \in Workers :
         Give(t, w) \/ \E outcome \in Outcomes : Close(t, w, outcome)

Spec == Init /\ [][Next]_vars
=============================================================================
