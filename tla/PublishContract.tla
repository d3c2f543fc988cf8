-------------------------- MODULE PublishContract --------------------------
(***************************************************************************)
(* What the publisher gateway promises for every idempotency key: the      *)
(* platform is asked to publish at most once, a receipt is written only    *)
(* for what was published, and receipts stay.  A key that has been closed  *)
(* without a receipt is for people to look at and is never tried again.    *)
(***************************************************************************)
CONSTANT Keys

VARIABLES
    open,      \* keys for which the platform may still be asked
    posted,    \* keys whose content is on the platform
    receipts   \* keys with a PublishReceipt

Init ==
    /\ open = Keys
    /\ posted = {}
    /\ receipts = {}

\* The platform is asked once; it may or may not publish.
Ask(k) ==
    /\ k \in open
    /\ open' = open \ {k}
    /\ posted' \in {posted, posted \cup {k}}
    /\ UNCHANGED receipts

\* A key is given up without having asked.
Close(K) ==
    /\ open' = open \ K
    /\ UNCHANGED <<posted, receipts>>

Record(k) ==
    /\ k \in posted \ open
    /\ receipts' = receipts \cup {k}
    /\ UNCHANGED <<open, posted>>

Next ==
    \/ \E k \in Keys : Ask(k) \/ Record(k)
    \/ \E K \in SUBSET Keys : Close(K)

Spec == Init /\ [][Next]_<<open, posted, receipts>>
=============================================================================
