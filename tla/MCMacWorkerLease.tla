-------------------------- MODULE MCMacWorkerLease --------------------------
(***************************************************************************)
(* Instances of MacWorkerLease for TLC: which mishaps each run allows.     *)
(***************************************************************************)
EXTENDS MacWorkerLease

CONSTANTS w1, w2

NoTask     == {}
OneTask    == {1}
\* The youngest task has no usable source.  (With an older one, a model without
\* time could spend every poll of the Macs on it.)
ThirdTask  == {3}
ThreeTasks == {1, 2, 3}
OneWorker  == {w1}
TwoWorkers == {w1, w2}

Mishap(interrupt, away, prune, retry, relapse) ==
  [k \in Mishaps |->
     CASE k = "interrupt" -> interrupt
       [] k = "away"      -> away
       [] k = "prune"     -> prune
       [] k = "retry"     -> retry
       [] k = "relapse"   -> relapse]

\* Two interrupted runs, a Mac away longer than its lease, a job pruned and a
\* job retried.
Everything == Mishap(2, 1, 1, 1, 0)
\* One interrupted run.  The task with the unusable source is claimed and
\* refused once.
Shaky      == Mishap(1, 0, 0, 0, 0)
\* One Mac away once.
AwayOnce   == Mishap(0, 1, 0, 0, 0)
=============================================================================
