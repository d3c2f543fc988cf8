---------------------------- MODULE LarkDelivery ----------------------------
(***************************************************************************)
(* 小D's delivery of one job's transcript as a Lark document               *)
(* (LarkDeliveryCoordinator and deliverToLark).  A call to Lark may fail   *)
(* after it took effect, so each is preceded by a durable mark, and a      *)
(* marked delivery that did not end is left to a human.                    *)
(*                                                                         *)
(* A document's text is known by its checksum.  The batches of the body    *)
(* are one call.  A request to create a document may reach Lark after its  *)
(* caller has given up.  The human who settles a delivery looks at Lark    *)
(* first and says what is there.                                           *)
(***************************************************************************)
EXTENDS Absent, Naturals, Sequences

CONSTANTS Sums,       \* checksums of title and body
          MaxDocs     \* bound on the documents created

ASSUME LarkNoneAssumption == None \notin Sums \cup (1 .. MaxDocs)
ASSUME DocsAssumption == MaxDocs \in Nat

VARIABLES
    delivery,  \* job.output.larkDelivery
    call,      \* the delivery in flight: where it is, its text, its document
    wire,      \* texts of requests to create a document that Lark has not handled
    docs,      \* the documents at Lark
    copies,    \* documents made of the delivery's text since it was taken up
    early,     \* a human has settled the delivery while its call was under way
    unset      \* a ready document was taken up again while the app had no credentials

larkVars == <<delivery, call, wire, docs, copies, early, unset>>

Docs == 1 .. MaxDocs
SomeDoc == Docs \cup {None}

Uncertain == {"creating_document", "document_created", "writing", "permission_pending", "uncertain"}
Safe == {"prepared", "document_ready", "delivered", "failed_before_create"}

NoDelivery == [state |-> "none", sum |-> None, doc |-> None]
NoCall == [pc |-> "off", sum |-> None, doc |-> None]

LarkTypeOK ==
    /\ delivery \in [state : {"none"} \cup Uncertain \cup Safe, sum : Sums \cup {None}, doc : SomeDoc]
    /\ call \in [pc : {"off", "authorise", "mark", "create", "await", "write", "grant", "finish"},
                 sum : Sums \cup {None}, doc : SomeDoc]
    /\ wire \subseteq Sums
    /\ docs \in Seq([sum : Sums, full : BOOLEAN, open : BOOLEAN]) /\ Len(docs) <= MaxDocs
    /\ copies \in 0 .. MaxDocs
    /\ early \in BOOLEAN /\ unset \in BOOLEAN

LarkInit ==
    /\ delivery = NoDelivery
    /\ call = NoCall
    /\ wire = {} /\ docs = <<>> /\ copies = 0
    /\ early = FALSE /\ unset = FALSE

CallAt(where) == call.pc = where
CallTo(where) == call' = [call EXCEPT !.pc = where]

\* onProgress: persisted over whatever the record says now.
Note(state) == delivery' = [state |-> state, sum |-> call.sum, doc |-> call.doc]

-----------------------------------------------------------------------------
(* deliver *)

\* An uncertain delivery is refused, a delivered one answered; otherwise the intent is
\* written.  A document that only lacks its permission is taken up again.
Deliver(sum) ==
    LET resumed == IF delivery.sum = sum /\ delivery.state = "document_ready" THEN delivery.doc ELSE None
    IN /\ CallAt("off")
       /\ delivery.state \notin Uncertain
       /\ ~ (delivery.sum = sum /\ delivery.state = "delivered")
       /\ delivery' = [state |-> IF resumed = None THEN "prepared" ELSE "document_ready",
                       sum |-> sum, doc |-> resumed]
       /\ call' = [pc |-> "authorise", sum |-> sum, doc |-> resumed]
       /\ copies' = IF delivery.sum = sum THEN copies ELSE 0
       /\ UNCHANGED <<wire, docs, early, unset>>

\* The access token; without a configured app the delivery ends as one that created
\* nothing, also when its document is known.
Authorise ==
    /\ CallAt("authorise")
    /\ \/ /\ CallTo(IF call.doc = None THEN "mark" ELSE "grant")
          /\ UNCHANGED <<delivery, unset>>
       \/ /\ Note("failed_before_create")
          /\ call' = NoCall
          /\ unset' = (unset \/ call.doc # None)
    /\ UNCHANGED <<wire, docs, copies, early>>

\* Mutant of MarkCreating: the request is sent without its mark.
MarkNothing ==
    /\ CallAt("mark")
    /\ CallTo("create")
    /\ UNCHANGED <<delivery, wire, docs, copies, early, unset>>

MarkCreating ==
    /\ CallAt("mark")
    /\ Note("creating_document")
    /\ CallTo("create")
    /\ UNCHANGED <<wire, docs, copies, early, unset>>

\* The request to create the document leaves.
Create ==
    /\ CallAt("create")
    /\ wire' = wire \cup {call.sum}
    /\ CallTo("await")
    /\ UNCHANGED <<delivery, docs, copies, early, unset>>

\* Lark answers a caller that waits; the document is noted before anything else.
Created ==
    /\ CallAt("await") /\ call.doc # None
    /\ Note("document_created")
    /\ CallTo("write")
    /\ UNCHANGED <<wire, docs, copies, early, unset>>

\* The body is written, and the permission noted as pending.
WriteBody ==
    /\ CallAt("write")
    /\ docs' = [docs EXCEPT ![call.doc].full = TRUE]
    /\ \/ Note("permission_pending") /\ CallTo("grant")
       \/ Note("document_created") /\ CallTo("finish")
    /\ UNCHANGED <<wire, copies, early, unset>>

Grant ==
    /\ CallAt("grant")
    /\ docs' = [docs EXCEPT ![call.doc].open = TRUE]
    /\ Note("permission_pending") /\ CallTo("finish")
    /\ UNCHANGED <<wire, copies, early, unset>>

\* Mutant of Finish: the permission is not asked for.
FinishAnyway ==
    /\ CallAt("finish")
    /\ Note("delivered")
    /\ call' = NoCall
    /\ UNCHANGED <<wire, docs, copies, early, unset>>

\* The result of the transport; without a user to grant the permission to, the
\* document is only ready.
Finish ==
    /\ CallAt("finish")
    /\ Note(IF docs[call.doc].open THEN "delivered" ELSE "document_ready")
    /\ call' = NoCall
    /\ UNCHANGED <<wire, docs, copies, early, unset>>

\* A step fails: before anything was sent for a new document that is safe to retry,
\* afterwards the outcome is uncertain.  The failure may not be written either.
Fails ==
    /\ ~ CallAt("off")
    /\ call' = NoCall
    /\ LET doc == IF call.pc = "await" THEN delivery.doc ELSE call.doc
           state == IF CallAt("authorise") /\ delivery.doc = None THEN "failed_before_create" ELSE "uncertain"
       IN \/ delivery' = [state |-> state, sum |-> delivery.sum, doc |-> doc]
          \/ UNCHANGED delivery
    /\ UNCHANGED <<wire, docs, copies, early, unset>>

\* 小D stops.
XiaodStops ==
    /\ ~ CallAt("off")
    /\ call' = NoCall
    /\ UNCHANGED <<delivery, wire, docs, copies, early, unset>>

-----------------------------------------------------------------------------
(* Lark, and the human *)

\* Lark handles a request, and answers if its caller still waits.
LarkCreates(sum) ==
    /\ sum \in wire /\ Len(docs) < MaxDocs
    /\ wire' = wire \ {sum}
    /\ docs' = Append(docs, [sum |-> sum, full |-> FALSE, open |-> FALSE])
    /\ copies' = IF delivery.sum = sum THEN copies + 1 ELSE copies
    /\ call' = IF CallAt("await") /\ call.sum = sum THEN [call EXCEPT !.doc = Len(docs')] ELSE call
    /\ UNCHANGED <<delivery, early, unset>>

LarkRefuses(sum) ==
    /\ sum \in wire
    /\ wire' = wire \ {sum}
    /\ UNCHANGED <<delivery, call, docs, copies, early, unset>>

Open(doc) == docs[doc].full /\ docs[doc].open
Of(sum) == {i \in DOMAIN docs : docs[i].sum = sum}

Settles == early' = (early \/ ~ CallAt("off") \/ wire # {})

\* resolve, confirmed_delivered: the noted document or, without one, the one given.
ConfirmDelivered(doc) ==
    /\ delivery.state \in Uncertain
    /\ delivery.doc \in {None, doc}
    /\ docs[doc].sum = delivery.sum /\ Open(doc)
    /\ delivery' = [delivery EXCEPT !.state = "delivered", !.doc = doc]
    /\ Settles
    /\ UNCHANGED <<call, wire, docs, copies, unset>>

\* resolve, confirmed_not_created: refused for a delivery whose document is noted.
ConfirmNotCreated ==
    /\ delivery.state \in Uncertain
    /\ delivery.doc = None
    /\ Of(delivery.sum) = {}
    /\ delivery' = [delivery EXCEPT !.state = "failed_before_create"]
    /\ Settles
    /\ UNCHANGED <<call, wire, docs, copies, unset>>

\* The owner finishes a document by hand.
OwnerRepairs(doc) ==
    /\ ~ Open(doc)
    /\ docs' = [docs EXCEPT ![doc].full = TRUE, ![doc].open = TRUE]
    /\ UNCHANGED <<delivery, call, wire, copies, early, unset>>

DeliveryStep ==
    \/ Authorise \/ MarkCreating \/ Create \/ Created \/ WriteBody \/ Grant \/ Finish
    \/ Fails \/ XiaodStops

LarkNext ==
    \/ DeliveryStep \/ ConfirmNotCreated
    \/ \E sum \in Sums : Deliver(sum) \/ LarkCreates(sum) \/ LarkRefuses(sum)
    \/ \E doc \in DOMAIN docs : ConfirmDelivered(doc) \/ OwnerRepairs(doc)

LarkSpec == LarkInit /\ [][LarkNext]_larkVars

-----------------------------------------------------------------------------
(* Properties *)

\* The text of a job is made into one document, however often its delivery is
\* repeated and wherever it breaks off, unless a human settled it while a request was
\* under way or the app lost its credentials over a ready document.  (A text delivered
\* again after another one counts anew: the record knows only the last.)
OneDocument == ~ early /\ ~ unset => copies <= 1

\* A delivery shown as delivered has its document, whole and open to the user.
DeliveredIsTrue ==
    delivery.state = "delivered" =>
        delivery.doc # None /\ docs[delivery.doc].sum = delivery.sum /\ Open(delivery.doc)
=============================================================================
