------------------------- MODULE MCPublishExecution -------------------------
(* Instances of PublishExecution: two contents for one platform and day. *)
EXTENDS PublishExecution

CONSTANTS k1, k2, k3, p1, p2, day1, day2, video, article

SlotOf == [k \in Keys |-> IF k = k3 THEN day2 ELSE day1]

\* The third key is the first content once more, on another day.
ContentOf == [k \in Keys |-> IF k = k2 THEN article ELSE video]
=============================================================================
