----------------------------- MODULE MCServices -----------------------------
(* Eight components that share nothing, checked in one run: each starts in its initial *)
(* state, and only the one in focus takes steps.                                       *)
EXTENDS LedgerLock, PublishExecution, MetricCollection, SelfRelease, LarkDelivery,
        FeishuIngress, TaskRecovery, ReconciliationCoordinator, TLC

CONSTANTS u1, u2, u3, o1, o2, o3,
          k1, k2, day, video, article

VARIABLE focus

publishVars == vars

servicesVars == <<focus, lockVars, publishVars, metricVars, releaseVars, ingressVars, larkVars,
                  passVars, recoveryVars>>

-----------------------------------------------------------------------------
(* The instances *)

\* Each update is of a process of its own.
Callers == [c \in Calls |-> CASE c = u1 -> o1 [] c = u2 -> o2 [] OTHER -> o3]

\* Two contents for one platform and day.
EqualProcesses == Permutations(Processes)
SlotOf == [k \in Keys |-> day]
ContentOf == [k \in Keys |-> IF k = k1 THEN video ELSE article]

-----------------------------------------------------------------------------
Focuses == {"lock", "publish", "metric", "release", "ingress", "lark", "pass", "recovery"}

ServicesInit ==
    /\ focus \in Focuses
    /\ LockInit /\ Init /\ MetricInit /\ ReleaseInit /\ IngressInit /\ LarkInit /\ PassInit
    /\ RecoveryInit

ServicesNext ==
    /\ UNCHANGED focus
    /\ \/ /\ focus = "lock" /\ LockNext
          /\ UNCHANGED <<publishVars, metricVars, releaseVars, ingressVars, larkVars, passVars,
                         recoveryVars>>
       \/ /\ focus = "publish" /\ Next
          /\ UNCHANGED <<lockVars, metricVars, releaseVars, ingressVars, larkVars, passVars,
                         recoveryVars>>
       \/ /\ focus = "metric" /\ MetricNext
          /\ UNCHANGED <<lockVars, publishVars, releaseVars, ingressVars, larkVars, passVars,
                         recoveryVars>>
       \/ /\ focus = "release" /\ ReleaseNext
          /\ UNCHANGED <<lockVars, publishVars, metricVars, ingressVars, larkVars, passVars,
                         recoveryVars>>
       \/ /\ focus = "ingress" /\ IngressNext
          /\ UNCHANGED <<lockVars, publishVars, metricVars, releaseVars, larkVars, passVars,
                         recoveryVars>>
       \/ /\ focus = "lark" /\ LarkNext
          /\ UNCHANGED <<lockVars, publishVars, metricVars, releaseVars, ingressVars, passVars,
                         recoveryVars>>
       \/ /\ focus = "recovery" /\ RecoveryNext
          /\ UNCHANGED <<lockVars, publishVars, metricVars, releaseVars, ingressVars, larkVars, passVars>>
       \/ /\ focus = "pass" /\ PassNext
          /\ UNCHANGED <<lockVars, publishVars, metricVars, releaseVars, ingressVars, larkVars, recoveryVars>>

ServicesSpec == ServicesInit /\ [][ServicesNext]_servicesVars

-----------------------------------------------------------------------------
\* The variables of every component are well typed.
AllTypesOK ==
    /\ TypeOK /\ LockTypeOK /\ MetricTypeOK /\ ReleaseTypeOK
    /\ LarkTypeOK /\ IngressTypeOK /\ RecoveryTypeOK /\ PassTypeOK
=============================================================================
