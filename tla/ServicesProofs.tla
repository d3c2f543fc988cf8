---------------------------- MODULE ServicesProofs ----------------------------
(***************************************************************************)
(* The services side by side.  Whatever is in focus, a step of the whole   *)
(* is a step of each component or leaves its variables alone, so that a    *)
(* behaviour of the whole is one of every component, and keeps what each   *)
(* of them keeps by itself.                                                *)
(***************************************************************************)
EXTENDS MCServices, PublisherProofs, SelfReleaseProofs, LarkDeliveryProofs, RuntimeProofs

\* Every component starts in its own initial states.
LEMMA StartsEach ==
  ASSUME ServicesInit
  PROVE  /\ LockInit /\ Init /\ MetricInit /\ ReleaseInit
         /\ LarkInit /\ IngressInit /\ RecoveryInit /\ PassInit
BY DEF ServicesInit

\* A step is one of the component in focus, and the other seven stutter.
LEMMA StepsEach ==
  ASSUME [ServicesNext]_servicesVars
  PROVE  /\ [LockNext]_lockVars /\ [Next]_vars /\ [MetricNext]_metricVars
         /\ [ReleaseNext]_releaseVars /\ [LarkNext]_larkVars /\ [IngressNext]_ingressVars
         /\ [RecoveryNext]_recoveryVars /\ [PassNext]_passVars
<1>1. CASE UNCHANGED servicesVars
  BY <1>1 DEF servicesVars, publishVars
<1>2. CASE ServicesNext
  BY <1>2 DEF ServicesNext, publishVars
<1> QED
  BY <1>1, <1>2

-----------------------------------------------------------------------------
\* The publisher gateway beside the other services behaves as the publisher gateway.
LEMMA PublisherRuns == ServicesSpec => LockSpec /\ Spec /\ MetricSpec
BY StartsEach, StepsEach, PTL DEF ServicesSpec, LockSpec, Spec, MetricSpec

\* So does the release of the program itself, and the delivery of documents,
LEMMA OperationsRun == ServicesSpec => ReleaseSpec /\ LarkSpec
BY StartsEach, StepsEach, PTL DEF ServicesSpec, ReleaseSpec, LarkSpec

\* and so do the three services of the runtime.
LEMMA RuntimeRuns == ServicesSpec => IngressSpec /\ RecoverySpec /\ PassSpec
BY StartsEach, StepsEach, PTL DEF ServicesSpec, IngressSpec, RecoverySpec, PassSpec

-----------------------------------------------------------------------------
\* Every reachable state of the whole is well typed in every component.
THEOREM ServicesTypeCorrect == ServicesSpec => []AllTypesOK
<1>1. ServicesSpec => []TypeOK /\ []LockTypeOK /\ []MetricTypeOK
  BY PublisherRuns, TypeCorrect, LockTypeCorrect, MetricTypeCorrect
<1>2. ServicesSpec => []ReleaseTypeOK /\ []LarkTypeOK
  BY OperationsRun, ReleaseTypeCorrect, LarkTypeCorrect
<1>3. ServicesSpec => []IngressTypeOK /\ []RecoveryTypeOK /\ []PassTypeOK
  BY RuntimeRuns, IngressTypeCorrect, RecoveryTypeCorrect, PassTypeCorrect
<1>4. /\ TypeOK /\ LockTypeOK /\ MetricTypeOK /\ ReleaseTypeOK
      /\ LarkTypeOK /\ IngressTypeOK /\ RecoveryTypeOK /\ PassTypeOK
      => AllTypesOK
  BY DEF AllTypesOK
<1> QED
  BY <1>1, <1>2, <1>3, <1>4, PTL

\* Side by side the services keep every promise they make alone: what is published once,
\* read, released, handled, delivered, woken and retried stays so whichever of them runs.
THEOREM ServicesKeepPromises ==
  ServicesSpec =>
    /\ [](NoMistakeNoLoss /\ Traceable /\ OneReader /\ OneTrueSnapshot /\ PausedBeforeVerified)
    /\ [](OneRunInTime /\ RollbackKept)
    /\ [](OneDocument /\ DeliveredIsTrue /\ OneHandler /\ WakeKept /\ RetryAfterFailure)
    /\ PublishesOnce /\ HardStopIsFinal
<1>1. ServicesSpec => /\ []NoMistakeNoLoss /\ []Traceable /\ []OneReader /\ []OneTrueSnapshot
                      /\ []PausedBeforeVerified /\ PublishesOnce /\ HardStopIsFinal
  BY PublisherRuns, LockKeepsUpdates, AlwaysTraceable, OneReaderAlways, SnapshotIsTrue,
     VerifiedIsPaused, PublishesAtMostOnce, HardStopStays
<1>2. ServicesSpec => []OneRunInTime /\ []RollbackKept /\ []OneDocument /\ []DeliveredIsTrue
  BY OperationsRun, OneRunAlways, WayBackKept, MakesOneDocument, ShownIsDelivered
<1>3. ServicesSpec => []OneHandler /\ []WakeKept /\ []RetryAfterFailure
  BY RuntimeRuns, HandledOnceInTime, WakeAlwaysKept, RetriesAfterFailure
<1> QED
  BY <1>1, <1>2, <1>3, PTL
=============================================================================
