---------------------------- MODULE FeishuIngress ----------------------------
(***************************************************************************)
(* The deliveries of one Feishu message to FeishuChannelBridge.  A         *)
(* delivery is answered from the replies remembered, turned away by        *)
(* FeishuIngressDeduplicator (a lease is held, or the message was          *)
(* processed lately), or handled by the commander, under a lease that is   *)
(* not renewed.                                                            *)
(*                                                                         *)
(* Time is counted in units of which a lease lasts LeaseTtl.  Other        *)
(* messages may push the reply out of the map.  A君 may be restarted:       *)
(* everything here is in memory.                                           *)
(***************************************************************************)
EXTENDS Absent, Naturals

CONSTANTS Deliveries,
          LeaseTtl,   \* defaultLeaseTtlMs
          Retention   \* defaultRetentionMs

ASSUME IngressNoneAssumption == None \notin Deliveries
ASSUME TimesAssumption == LeaseTtl \in Nat \ {0} /\ Retention \in Nat \ {0}

VARIABLES
    stage,         \* where each delivery is
    age,        \* how long it has been handled, up to LeaseTtl
    lease,      \* activeLeases: whose it is, and the time left
    processed,  \* processed: the time left
    reply       \* replies: the message is in the map

ingressVars == <<stage, age, lease, processed, reply>>

NoLease == [token |-> None, left |-> 0]

IngressTypeOK ==
    /\ stage \in [Deliveries -> {"coming", "handling", "answered", "failed", "lost"}]
    /\ age \in [Deliveries -> 0 .. LeaseTtl]
    /\ lease \in [token : Deliveries \cup {None}, left : 0 .. LeaseTtl]
    /\ processed \in 0 .. Retention
    /\ reply \in BOOLEAN

IngressInit ==
    /\ stage = [d \in Deliveries |-> "coming"]
    /\ age = [d \in Deliveries |-> 0]
    /\ lease = NoLease
    /\ processed = 0
    /\ reply = FALSE

End(d, how) == stage' = [stage EXCEPT ![d] = how]

\* The reply is remembered, or the lease is not granted.
Deduplicated(d) ==
    /\ stage[d] = "coming"
    /\ reply \/ processed > 0 \/ lease.left > 0
    /\ End(d, "answered")
    /\ UNCHANGED <<age, lease, processed, reply>>

\* acquireLease and the call of the commander.
Handle(d) ==
    /\ stage[d] = "coming"
    /\ ~ reply /\ processed = 0 /\ lease.left = 0
    /\ lease' = [token |-> d, left |-> LeaseTtl]
    /\ End(d, "handling")
    /\ UNCHANGED <<age, processed, reply>>

\* Mutant of Released: the token is not compared.
ReleasedAny(d) == IF d \in Deliveries THEN NoLease ELSE lease

\* releaseLease: only of one's own.
Released(d) == IF lease.token = d THEN NoLease ELSE lease

\* The commander answers: remember, markProcessed and the finally.
Answer(d) ==
    /\ stage[d] = "handling"
    /\ reply' = TRUE
    /\ processed' = Retention
    /\ lease' = Released(d)
    /\ End(d, "answered")
    /\ UNCHANGED age

\* The commander throws: the message may be delivered again.
Throw(d) ==
    /\ stage[d] = "handling"
    /\ lease' = Released(d)
    /\ End(d, "failed")
    /\ UNCHANGED <<age, processed, reply>>

\* remember, of the 1000th message after this one.
Forget == reply /\ reply' = FALSE /\ UNCHANGED <<stage, age, lease, processed>>

\* Mutant of Earlier: the clock does not stop at zero.
EarlierStill(n) == n - 1

Earlier(n) == IF n = 0 THEN 0 ELSE n - 1

\* Time passes; a lease that has lapsed is pruned with the next message.
Tick ==
    /\ age' = [d \in Deliveries |-> IF stage[d] = "handling" /\ age[d] < LeaseTtl THEN age[d] + 1 ELSE age[d]]
    /\ lease' = [lease EXCEPT !.left = Earlier(@)]
    /\ processed' = Earlier(processed)
    /\ UNCHANGED <<stage, reply>>

Restart ==
    /\ stage' = [d \in Deliveries |-> IF stage[d] = "handling" THEN "lost" ELSE stage[d]]
    /\ lease' = NoLease /\ processed' = 0 /\ reply' = FALSE
    /\ UNCHANGED age

IngressNext ==
    \/ \E d \in Deliveries : Deduplicated(d) \/ Handle(d) \/ Answer(d) \/ Throw(d)
    \/ Forget \/ Tick \/ Restart

IngressSpec == IngressInit /\ [][IngressNext]_ingressVars

-----------------------------------------------------------------------------
(* Properties *)

Handling == {d \in Deliveries : stage[d] = "handling"}

\* Of the deliveries handled at the same time, all but the last have outlasted their
\* lease; in particular a late one does not give away the lease of the next.
OneHandler == \A d, e \in Handling : d # e => age[d] = LeaseTtl \/ age[e] = LeaseTtl
=============================================================================
