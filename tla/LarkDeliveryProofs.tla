-------------------------- MODULE LarkDeliveryProofs --------------------------
(***************************************************************************)
(* A transcript becomes one Lark document however often its delivery is    *)
(* repeated, and a delivery shown as delivered has its document: for any   *)
(* texts and any number of documents, wherever a call breaks off.          *)
(***************************************************************************)
EXTENDS LarkDelivery, SequenceTheorems, TLAPS

Doc == [sum : Sums, full : BOOLEAN, open : BOOLEAN]

Known == (1 .. Len(docs)) \cup {None}

\* What the record and the call in flight say of their documents.
Tracked ==
    /\ copies <= Len(docs)
    /\ call.doc \in Known /\ delivery.doc \in Known
    /\ call.doc # None => docs[call.doc].sum = call.sum
    /\ delivery.doc # None => docs[delivery.doc].sum = delivery.sum

\* Where a call is, it has its text and, after its creation, its document.
InHand ==
    /\ call.pc = "off" => call.doc = None
    /\ call.pc # "off" => call.sum \in Sums /\ call.sum = delivery.sum
    /\ call.pc \in {"mark", "create"} => call.doc = None
    /\ call.pc \in {"write", "grant", "finish"} => call.doc # None
    /\ call.pc \in {"grant", "finish"} => docs[call.doc].full
    /\ call.pc = "authorise" /\ call.doc # None => docs[call.doc].full

\* What the record promises of its document.
Promised ==
    /\ delivery.state = "document_ready" => delivery.doc # None /\ docs[delivery.doc].full
    /\ DeliveredIsTrue

\* What the record says when the call has come to a place.
Marked ==
    /\ call.pc = "authorise" =>
          /\ delivery.doc = call.doc
          /\ delivery.state = IF call.doc = None THEN "prepared" ELSE "document_ready"
    /\ call.pc = "mark" => delivery.state = "prepared"
    /\ call.pc \in {"create", "await"} => delivery.state = "creating_document"
    /\ call.pc = "write" => delivery.state = "document_created"
    /\ call.pc = "grant" => delivery.state \in {"permission_pending", "document_ready"}
    /\ call.pc = "finish" => delivery.state \in {"document_created", "permission_pending"}

\* A document is asked for once: as long as the request is not handled there is none.
Single ==
    /\ copies <= 1
    /\ wire \subseteq {delivery.sum}
    /\ wire # {} => copies = 0 /\ delivery.state \in Uncertain
    /\ delivery.state \in {"none", "prepared", "failed_before_create"} => copies = 0
    /\ copies > 0 => Of(delivery.sum) # {}
    /\ call.pc = "create" => wire = {} /\ copies = 0
    /\ call.pc = "await" /\ call.doc # None => wire = {}
    /\ call.pc \in {"write", "grant", "finish"} => wire = {}

LarkInv == LarkTypeOK /\ Tracked /\ InHand /\ Promised /\ (~ early /\ ~ unset => Marked /\ Single)

-----------------------------------------------------------------------------
\* The documents at Lark stay and keep their text; what has been done to them is not undone.
Grows ==
    /\ docs' \in Seq(Doc)
    /\ Len(docs) <= Len(docs') /\ Len(docs') <= MaxDocs
    /\ \A i \in 1 .. Len(docs) :
          /\ docs'[i].sum = docs[i].sum
          /\ docs[i].full => docs'[i].full
          /\ docs[i].open => docs'[i].open

\* A document that is changed in one place.
LEMMA Mended ==
  ASSUME docs \in Seq(Doc), Len(docs) <= MaxDocs, NEW i \in 1 .. Len(docs),
         NEW doc \in {[docs[i] EXCEPT !.full = TRUE], [docs[i] EXCEPT !.open = TRUE],
                      [docs[i] EXCEPT !.full = TRUE, !.open = TRUE]},
         docs' = [docs EXCEPT ![i] = doc]
  PROVE  Grows /\ Len(docs') = Len(docs) /\ docs'[i] = doc
<1>1. docs[i] \in Doc
  BY ElementOfSeq
<1>2. doc \in Doc
  BY <1>1 DEF Doc
<1>3. /\ docs' \in Seq(Doc)
      /\ Len(docs') = Len(docs)
      /\ \A j \in 1 .. Len(docs) : docs'[j] = IF j = i THEN doc ELSE docs[j]
  BY <1>2, ExceptSeq
<1>4. doc.sum = docs[i].sum /\ (docs[i].full => doc.full) /\ (docs[i].open => doc.open)
  BY <1>1 DEF Doc
<1>5. Len(docs) \in Nat /\ MaxDocs \in Nat
  BY LenProperties, DocsAssumption
<1> QED
  BY <1>3, <1>4, <1>5 DEF Grows

\* Nothing happens at Lark.
LEMMA Stays ==
  ASSUME docs \in Seq(Doc), Len(docs) <= MaxDocs, UNCHANGED docs
  PROVE  Grows
<1>1. Len(docs) \in Nat /\ MaxDocs \in Nat
  BY LenProperties, DocsAssumption
<1> QED
  BY <1>1 DEF Grows

LEMMA DocsGrow ==
  ASSUME LarkTypeOK, Tracked, InHand, [LarkNext]_larkVars
  PROVE  Grows
<1>1. docs \in Seq(Doc) /\ Len(docs) <= MaxDocs /\ Len(docs) \in Nat /\ DOMAIN docs = 1 .. Len(docs)
  BY LenProperties DEF LarkTypeOK, Doc
<1>2. CASE UNCHANGED docs
  BY <1>1, <1>2, Stays
<1>3. CASE WriteBody \/ Grant
  <2>1. call.doc \in 1 .. Len(docs)
    BY <1>3 DEF WriteBody, Grant, CallAt, InHand, Tracked, Known
  <2>2. CASE WriteBody
    <3>1. docs' = [docs EXCEPT ![call.doc] = [docs[call.doc] EXCEPT !.full = TRUE]]
      BY <2>2 DEF WriteBody
    <3> QED
      BY <1>1, <2>1, <3>1, Mended
  <2>3. CASE Grant
    <3>1. docs' = [docs EXCEPT ![call.doc] = [docs[call.doc] EXCEPT !.open = TRUE]]
      BY <2>3 DEF Grant
    <3> QED
      BY <1>1, <2>1, <3>1, Mended
  <2> QED
    BY <1>3, <2>2, <2>3
<1>4. CASE \E doc \in DOMAIN docs : OwnerRepairs(doc)
  <2>1. PICK doc \in DOMAIN docs : OwnerRepairs(doc)
    BY <1>4
  <2>2. docs' = [docs EXCEPT ![doc] = [docs[doc] EXCEPT !.full = TRUE, !.open = TRUE]]
    BY <2>1 DEF OwnerRepairs
  <2> QED
    BY <1>1, <2>1, <2>2, Mended
<1>5. CASE \E sum \in Sums : LarkCreates(sum)
  <2>1. PICK sum \in Sums : LarkCreates(sum)
    BY <1>5
  <2>2. [sum |-> sum, full |-> FALSE, open |-> FALSE] \in Doc
    BY DEF Doc
  <2>3. docs' = Append(docs, [sum |-> sum, full |-> FALSE, open |-> FALSE]) /\ Len(docs) < MaxDocs
    BY <2>1 DEF LarkCreates
  <2>4. docs' \in Seq(Doc) /\ Len(docs') = Len(docs) + 1 /\ \A i \in 1 .. Len(docs) : docs'[i] = docs[i]
    BY <1>1, <2>2, <2>3, AppendProperties
  <2> QED
    BY <1>1, <2>3, <2>4, DocsAssumption DEF Grows
<1> QED
  BY <1>2, <1>3, <1>4, <1>5
     DEF LarkNext, larkVars, DeliveryStep, Authorise, MarkCreating, Create, Created, Finish, Fails,
         XiaodStops, Deliver, LarkRefuses, ConfirmNotCreated, ConfirmDelivered

-----------------------------------------------------------------------------
LEMMA Numbered ==
  ASSUME LarkTypeOK
  PROVE  /\ docs \in Seq(Doc) /\ Len(docs) \in Nat /\ MaxDocs \in Nat
         /\ DOMAIN docs = 1 .. Len(docs) /\ DOMAIN docs \subseteq Docs
<1>1. docs \in Seq(Doc) /\ Len(docs) <= MaxDocs
  BY DEF LarkTypeOK, Doc
<1>2. Len(docs) \in Nat /\ DOMAIN docs = 1 .. Len(docs)
  BY <1>1, LenProperties
<1> QED
  BY <1>1, <1>2, DocsAssumption DEF Docs

\* Where the documents are known to grow, every record stays well typed.
LEMMA TypeStep ==
  ASSUME LarkTypeOK, Tracked, InHand, [LarkNext]_larkVars, Grows
  PROVE  LarkTypeOK'
<1> USE Numbered DEF LarkTypeOK, Tracked, InHand, Grows, Doc, Docs, SomeDoc, Known, Uncertain, Safe
<1>1. CASE Authorise
  <2>1. unset' \in BOOLEAN
    BY <1>1 DEF Authorise
  <2>2. CASE CallTo(IF call.doc = None THEN "mark" ELSE "grant") /\ UNCHANGED <<delivery, unset>>
    BY <1>1, <2>2 DEF Authorise, CallTo
  <2>3. CASE Note("failed_before_create") /\ call' = NoCall
    BY <1>1, <2>1, <2>3 DEF Authorise, CallAt, Note, NoCall
  <2> QED
    BY <1>1, <2>2, <2>3 DEF Authorise
<1>2. CASE MarkCreating
  BY <1>2 DEF MarkCreating, CallAt, CallTo, Note
<1>3. CASE Create
  BY <1>3 DEF Create, CallAt, CallTo
<1>4. CASE Created
  BY <1>4 DEF Created, CallAt, CallTo, Note
<1>5. CASE WriteBody
  BY <1>5 DEF WriteBody, CallAt, CallTo, Note
<1>6. CASE Grant
  BY <1>6 DEF Grant, CallAt, CallTo, Note
<1>7. CASE Finish
  BY <1>7 DEF Finish, CallAt, Note, NoCall
<1>8. CASE Fails
  BY <1>8 DEF Fails, CallAt, NoCall
<1>9. CASE XiaodStops
  BY <1>9 DEF XiaodStops, NoCall
<1>10. CASE ConfirmNotCreated
  BY <1>10 DEF ConfirmNotCreated, Settles, CallAt
<1>11. CASE \E sum \in Sums : Deliver(sum)
  <2> PICK sum \in Sums : Deliver(sum)
    BY <1>11
  <2> QED
    BY DEF Deliver, CallAt
<1>12. CASE \E sum \in Sums : LarkCreates(sum)
  <2> PICK sum \in Sums : LarkCreates(sum)
    BY <1>12
  <2> QED
    BY DEF LarkCreates, CallAt
<1>13. CASE \E sum \in Sums : LarkRefuses(sum)
  <2> PICK sum \in Sums : LarkRefuses(sum)
    BY <1>13
  <2> QED
    BY DEF LarkRefuses
<1>14. CASE \E doc \in DOMAIN docs : ConfirmDelivered(doc)
  <2> PICK doc \in DOMAIN docs : ConfirmDelivered(doc)
    BY <1>14
  <2>1. doc \in Docs
    BY Numbered
  <2> QED
    BY <2>1 DEF ConfirmDelivered, Settles
<1>15. CASE \E doc \in DOMAIN docs : OwnerRepairs(doc)
  <2> PICK doc \in DOMAIN docs : OwnerRepairs(doc)
    BY <1>15
  <2> QED
    BY DEF OwnerRepairs
<1>16. CASE UNCHANGED larkVars
  BY <1>16 DEF larkVars
<1> QED
  BY <1>1, <1>2, <1>3, <1>4, <1>5, <1>6, <1>7, <1>8, <1>9,
     <1>10, <1>11, <1>12, <1>13, <1>14, <1>15, <1>16
     DEF LarkNext, DeliveryStep

-----------------------------------------------------------------------------
\* A document is known by the text it was made of.
LEMMA TrackedStep ==
  ASSUME LarkTypeOK, Tracked, InHand, [LarkNext]_larkVars, Grows
  PROVE  Tracked'
<1> USE Numbered DEF LarkTypeOK, Tracked, InHand, Grows, Known
<1>1. CASE Authorise
  BY <1>1 DEF Authorise, CallAt, CallTo, Note, NoCall
<1>2. CASE MarkCreating
  BY <1>2 DEF MarkCreating, CallAt, CallTo, Note
<1>3. CASE Create
  BY <1>3 DEF Create, CallAt, CallTo
<1>4. CASE Created
  BY <1>4 DEF Created, CallAt, CallTo, Note
<1>5. CASE WriteBody
  BY <1>5 DEF WriteBody, CallAt, CallTo, Note
<1>6. CASE Grant
  BY <1>6 DEF Grant, CallAt, CallTo, Note
<1>7. CASE Finish
  BY <1>7 DEF Finish, CallAt, Note, NoCall
<1>8. CASE Fails
  BY <1>8 DEF Fails, CallAt, NoCall
<1>9. CASE XiaodStops
  BY <1>9 DEF XiaodStops, NoCall
<1>10. CASE ConfirmNotCreated
  BY <1>10 DEF ConfirmNotCreated, Settles, CallAt
<1>11. CASE \E sum \in Sums : Deliver(sum)
  <2> PICK sum \in Sums : Deliver(sum)
    BY <1>11
  <2> QED
    BY DEF Deliver, CallAt
<1>12. CASE \E sum \in Sums : LarkCreates(sum)
  <2> PICK sum \in Sums : LarkCreates(sum)
    BY <1>12
  <2> QED
    BY DEF LarkCreates, CallAt
<1>13. CASE \E sum \in Sums : LarkRefuses(sum)
  <2> PICK sum \in Sums : LarkRefuses(sum)
    BY <1>13
  <2> QED
    BY DEF LarkRefuses
<1>14. CASE \E doc \in DOMAIN docs : ConfirmDelivered(doc)
  <2> PICK doc \in DOMAIN docs : ConfirmDelivered(doc)
    BY <1>14
  <2> QED
    BY DEF ConfirmDelivered, Settles, CallAt, Open
<1>15. CASE \E doc \in DOMAIN docs : OwnerRepairs(doc)
  <2> PICK doc \in DOMAIN docs : OwnerRepairs(doc)
    BY <1>15
  <2> QED
    BY DEF OwnerRepairs
<1>16. CASE UNCHANGED larkVars
  BY <1>16 DEF larkVars
<1> QED
  BY <1>1, <1>2, <1>3, <1>4, <1>5, <1>6, <1>7, <1>8, <1>9,
     <1>10, <1>11, <1>12, <1>13, <1>14, <1>15, <1>16
     DEF LarkNext, DeliveryStep

\* A call's document is whole before its permission is asked for.
LEMMA InHandStep ==
  ASSUME LarkTypeOK, Tracked, InHand, Promised, [LarkNext]_larkVars, Grows
  PROVE  InHand'
<1> USE Numbered DEF LarkTypeOK, Tracked, InHand, Promised, Grows, Known, Uncertain
<1>1. CASE Authorise
  BY <1>1 DEF Authorise, CallAt, CallTo, Note, NoCall
<1>2. CASE MarkCreating
  BY <1>2 DEF MarkCreating, CallAt, CallTo, Note
<1>3. CASE Create
  BY <1>3 DEF Create, CallAt, CallTo
<1>4. CASE Created
  BY <1>4 DEF Created, CallAt, CallTo, Note
<1>5. CASE WriteBody
  BY <1>5 DEF WriteBody, CallAt, CallTo, Note
<1>6. CASE Grant
  BY <1>6 DEF Grant, CallAt, CallTo, Note
<1>7. CASE Finish
  BY <1>7 DEF Finish, CallAt, Note, NoCall
<1>8. CASE Fails
  BY <1>8 DEF Fails, CallAt, NoCall
<1>9. CASE XiaodStops
  BY <1>9 DEF XiaodStops, NoCall
<1>10. CASE ConfirmNotCreated
  BY <1>10 DEF ConfirmNotCreated, Settles, CallAt
<1>11. CASE \E sum \in Sums : Deliver(sum)
  <2> PICK sum \in Sums : Deliver(sum)
    BY <1>11
  <2> QED
    BY DEF Deliver, CallAt
<1>12. CASE \E sum \in Sums : LarkCreates(sum)
  <2> PICK sum \in Sums : LarkCreates(sum)
    BY <1>12
  <2> QED
    BY DEF LarkCreates, CallAt
<1>13. CASE \E sum \in Sums : LarkRefuses(sum)
  <2> PICK sum \in Sums : LarkRefuses(sum)
    BY <1>13
  <2> QED
    BY DEF LarkRefuses
<1>14. CASE \E doc \in DOMAIN docs : ConfirmDelivered(doc)
  <2> PICK doc \in DOMAIN docs : ConfirmDelivered(doc)
    BY <1>14
  <2> QED
    BY DEF ConfirmDelivered, Settles, CallAt, Open
<1>15. CASE \E doc \in DOMAIN docs : OwnerRepairs(doc)
  <2> PICK doc \in DOMAIN docs : OwnerRepairs(doc)
    BY <1>15
  <2> QED
    BY DEF OwnerRepairs
<1>16. CASE UNCHANGED larkVars
  BY <1>16 DEF larkVars
<1> QED
  BY <1>1, <1>2, <1>3, <1>4, <1>5, <1>6, <1>7, <1>8, <1>9,
     <1>10, <1>11, <1>12, <1>13, <1>14, <1>15, <1>16
     DEF LarkNext, DeliveryStep

\* What the record has promised stays true, as documents are never undone.
LEMMA PromisedStep ==
  ASSUME LarkTypeOK, Tracked, InHand, Promised, [LarkNext]_larkVars, Grows
  PROVE  Promised'
<1> USE Numbered DEF LarkTypeOK, Tracked, InHand, Promised, DeliveredIsTrue, Open, Grows, Known, Uncertain
<1>1. CASE Authorise
  BY <1>1 DEF Authorise, CallAt, CallTo, Note, NoCall
<1>2. CASE MarkCreating
  BY <1>2 DEF MarkCreating, CallAt, CallTo, Note
<1>3. CASE Create
  BY <1>3 DEF Create, CallAt, CallTo
<1>4. CASE Created
  BY <1>4 DEF Created, CallAt, CallTo, Note
<1>5. CASE WriteBody
  BY <1>5 DEF WriteBody, CallAt, CallTo, Note
<1>6. CASE Grant
  BY <1>6 DEF Grant, CallAt, CallTo, Note
<1>7. CASE Finish
  BY <1>7 DEF Finish, CallAt, Note, NoCall
<1>8. CASE Fails
  BY <1>8 DEF Fails, CallAt, NoCall
<1>9. CASE XiaodStops
  BY <1>9 DEF XiaodStops, NoCall
<1>10. CASE ConfirmNotCreated
  BY <1>10 DEF ConfirmNotCreated, Settles, CallAt
<1>11. CASE \E sum \in Sums : Deliver(sum)
  <2> PICK sum \in Sums : Deliver(sum)
    BY <1>11
  <2> QED
    BY DEF Deliver, CallAt
<1>12. CASE \E sum \in Sums : LarkCreates(sum)
  <2> PICK sum \in Sums : LarkCreates(sum)
    BY <1>12
  <2> QED
    BY DEF LarkCreates, CallAt
<1>13. CASE \E sum \in Sums : LarkRefuses(sum)
  <2> PICK sum \in Sums : LarkRefuses(sum)
    BY <1>13
  <2> QED
    BY DEF LarkRefuses
<1>14. CASE \E doc \in DOMAIN docs : ConfirmDelivered(doc)
  <2> PICK doc \in DOMAIN docs : ConfirmDelivered(doc)
    BY <1>14
  <2>1. doc # None
    BY Numbered, LarkNoneAssumption DEF Docs
  <2> QED
    BY <2>1 DEF ConfirmDelivered
<1>15. CASE \E doc \in DOMAIN docs : OwnerRepairs(doc)
  <2> PICK doc \in DOMAIN docs : OwnerRepairs(doc)
    BY <1>15
  <2> QED
    BY DEF OwnerRepairs
<1>16. CASE UNCHANGED larkVars
  BY <1>16 DEF larkVars
<1> QED
  BY <1>1, <1>2, <1>3, <1>4, <1>5, <1>6, <1>7, <1>8, <1>9,
     <1>10, <1>11, <1>12, <1>13, <1>14, <1>15, <1>16
     DEF LarkNext, DeliveryStep

-----------------------------------------------------------------------------
\* As long as no human interferes with a call and the app keeps its credentials, the
\* record is marked ahead of every step.
LEMMA MarkedStep ==
  ASSUME LarkTypeOK, Tracked, InHand, Promised, Marked, [LarkNext]_larkVars, ~ early', ~ unset'
  PROVE  Marked'
<1> USE DEF LarkTypeOK, InHand, Marked, Uncertain
<1>1. CASE Authorise
  BY <1>1 DEF Authorise, CallAt, CallTo, Note, NoCall
<1>2. CASE MarkCreating
  BY <1>2 DEF MarkCreating, CallAt, CallTo, Note
<1>3. CASE Create
  BY <1>3 DEF Create, CallAt, CallTo
<1>4. CASE Created
  BY <1>4 DEF Created, CallAt, CallTo, Note
<1>5. CASE WriteBody
  BY <1>5 DEF WriteBody, CallAt, CallTo, Note
<1>6. CASE Grant
  BY <1>6 DEF Grant, CallAt, CallTo, Note
<1>7. CASE Finish
  BY <1>7 DEF Finish, CallAt, Note, NoCall
<1>8. CASE Fails
  BY <1>8 DEF Fails, CallAt, NoCall
<1>9. CASE XiaodStops
  BY <1>9 DEF XiaodStops, NoCall
<1>10. CASE ConfirmNotCreated
  BY <1>10 DEF ConfirmNotCreated, Settles, CallAt
<1>11. CASE \E sum \in Sums : Deliver(sum)
  <2> PICK sum \in Sums : Deliver(sum)
    BY <1>11
  <2> QED
    BY DEF Deliver, CallAt
<1>12. CASE \E sum \in Sums : LarkCreates(sum)
  <2> PICK sum \in Sums : LarkCreates(sum)
    BY <1>12
  <2> QED
    BY DEF LarkCreates, CallAt
<1>13. CASE \E sum \in Sums : LarkRefuses(sum)
  <2> PICK sum \in Sums : LarkRefuses(sum)
    BY <1>13
  <2> QED
    BY DEF LarkRefuses
<1>14. CASE \E doc \in DOMAIN docs : ConfirmDelivered(doc)
  <2> PICK doc \in DOMAIN docs : ConfirmDelivered(doc)
    BY <1>14
  <2> QED
    BY DEF ConfirmDelivered, Settles, CallAt, Open
<1>15. CASE \E doc \in DOMAIN docs : OwnerRepairs(doc)
  <2> PICK doc \in DOMAIN docs : OwnerRepairs(doc)
    BY <1>15
  <2> QED
    BY DEF OwnerRepairs
<1>16. CASE UNCHANGED larkVars
  BY <1>16 DEF larkVars
<1> QED
  BY <1>1, <1>2, <1>3, <1>4, <1>5, <1>6, <1>7, <1>8, <1>9,
     <1>10, <1>11, <1>12, <1>13, <1>14, <1>15, <1>16
     DEF LarkNext, DeliveryStep

\* And so a second document is never asked for.
LEMMA SingleStep ==
  ASSUME LarkTypeOK, Tracked, InHand, Promised, Marked, Single,
         [LarkNext]_larkVars, Grows, ~ early', ~ unset'
  PROVE  Single'
<1> USE DEF LarkTypeOK, Tracked, InHand, Promised, Marked, Single, Uncertain, Of
<1>1. CASE Authorise
  <2>1. delivery'.sum = delivery.sum /\ UNCHANGED <<wire, docs, copies>>
    BY <1>1 DEF Authorise, CallAt, CallTo, Note
  <2>2. wire = {} /\ call'.pc \in {"mark", "grant", "off"}
    BY <1>1 DEF Authorise, CallAt, CallTo, NoCall
  <2>3. CASE CallTo(IF call.doc = None THEN "mark" ELSE "grant") /\ UNCHANGED <<delivery, unset>>
    BY <2>1, <2>2, <2>3
  <2>4. CASE Note("failed_before_create") /\ unset' = (unset \/ call.doc # None)
    <3>1. call.doc = None /\ copies = 0
      BY <1>1, <2>4 DEF Authorise, CallAt
    <3> QED
      BY <2>1, <2>2, <2>4, <3>1 DEF Note
  <2> QED
    BY <1>1, <2>3, <2>4 DEF Authorise
<1>2. CASE MarkCreating
  BY <1>2 DEF MarkCreating, CallAt, CallTo, Note
<1>3. CASE Create
  BY <1>3 DEF Create, CallAt, CallTo
<1>4. CASE Created
  BY <1>4 DEF Created, CallAt, CallTo, Note
<1>5. CASE WriteBody
  BY <1>5 DEF WriteBody, CallAt, CallTo, Note
<1>6. CASE Grant
  BY <1>6 DEF Grant, CallAt, CallTo, Note
<1>7. CASE Finish
  BY <1>7 DEF Finish, CallAt, Note, NoCall
<1>8. CASE Fails
  BY <1>8 DEF Fails, CallAt, NoCall
<1>9. CASE XiaodStops
  BY <1>9 DEF XiaodStops, NoCall
<1>10. CASE ConfirmNotCreated
  <2>1. delivery'.sum = delivery.sum /\ delivery'.state = "failed_before_create"
    BY <1>10 DEF ConfirmNotCreated
  <2>2. UNCHANGED <<call, wire, docs, copies>> /\ wire = {} /\ call.pc = "off"
    BY <1>10 DEF ConfirmNotCreated, Settles, CallAt
  <2>3. copies = 0
    <3>1. Of(delivery.sum) = {}
      BY <1>10 DEF ConfirmNotCreated
    <3> QED
      BY <3>1
  <2> QED
    BY <2>1, <2>2, <2>3
<1>11. CASE \E sum \in Sums : Deliver(sum)
  <2> PICK sum \in Sums : Deliver(sum)
    BY <1>11
  <2>1. UNCHANGED <<wire, docs>> /\ wire = {} /\ call'.pc = "authorise" /\ delivery'.sum = sum
    BY DEF Deliver, CallAt
  <2>2. CASE delivery.sum # sum
    BY <2>1, <2>2 DEF Deliver
  <2>3. CASE delivery.sum = sum /\ delivery.state = "document_ready"
    <3>1. delivery'.state = "document_ready" /\ UNCHANGED copies
      BY <2>3 DEF Deliver
    <3> QED
      BY <2>1, <2>3, <3>1
  <2>4. CASE delivery.sum = sum /\ delivery.state # "document_ready"
    <3>1. delivery.state \in {"none", "prepared", "failed_before_create"} /\ UNCHANGED copies
      BY <2>4 DEF Deliver, Safe
    <3> QED
      BY <2>1, <2>4, <3>1
  <2> QED
    BY <2>2, <2>3, <2>4
<1>12. CASE \E sum \in Sums : LarkCreates(sum)
  <2> PICK sum \in Sums : LarkCreates(sum)
    BY <1>12
  <2> QED
    BY DEF LarkCreates, CallAt
<1>13. CASE \E sum \in Sums : LarkRefuses(sum)
  <2> PICK sum \in Sums : LarkRefuses(sum)
    BY <1>13
  <2> QED
    BY DEF LarkRefuses
<1>14. CASE \E doc \in DOMAIN docs : ConfirmDelivered(doc)
  <2> PICK doc \in DOMAIN docs : ConfirmDelivered(doc)
    BY <1>14
  <2> QED
    BY DEF ConfirmDelivered, Settles, CallAt, Open
<1>15. CASE \E doc \in DOMAIN docs : OwnerRepairs(doc)
  <2> PICK doc \in DOMAIN docs : OwnerRepairs(doc)
    BY <1>15
  <2> QED
    BY DEF OwnerRepairs
<1>16. CASE UNCHANGED larkVars
  BY <1>16 DEF larkVars
<1> QED
  BY <1>1, <1>2, <1>3, <1>4, <1>5, <1>6, <1>7, <1>8, <1>9,
     <1>10, <1>11, <1>12, <1>13, <1>14, <1>15, <1>16
     DEF LarkNext, DeliveryStep

-----------------------------------------------------------------------------
\* The invariant behind the theorems below.
THEOREM LarkInductive == LarkSpec => []LarkInv
<1>1. LarkInit => LarkInv
  <2> SUFFICES ASSUME LarkInit PROVE LarkInv
    OBVIOUS
  <2>1. docs = << >> /\ Len(docs) = 0 /\ docs \in Seq(Doc)
    BY EmptySeq DEF LarkInit
  <2>2. LarkTypeOK
    <3>1. docs \in Seq([sum : Sums, full : BOOLEAN, open : BOOLEAN]) /\ Len(docs) <= MaxDocs
      BY <2>1, DocsAssumption DEF Doc
    <3>2. copies \in 0 .. MaxDocs /\ wire \subseteq Sums
      BY DocsAssumption DEF LarkInit
    <3>3. delivery = NoDelivery /\ call = NoCall
      BY DEF LarkInit
    <3>4. early \in BOOLEAN /\ unset \in BOOLEAN
      BY Zenon DEF LarkInit
    <3> QED
      BY <3>1, <3>2, <3>3, <3>4 DEF LarkTypeOK, NoDelivery, NoCall, SomeDoc
  <2>3. Tracked /\ InHand /\ Promised
    BY <2>1 DEF LarkInit, NoDelivery, NoCall, Tracked, Known, InHand, Promised, DeliveredIsTrue
  <2>4. Marked /\ Single
    BY DEF LarkInit, NoDelivery, NoCall, Marked, Single, Uncertain
  <2> QED
    BY <2>2, <2>3, <2>4 DEF LarkInv
<1>2. LarkInv /\ [LarkNext]_larkVars => LarkInv'
  <2> SUFFICES ASSUME LarkInv, [LarkNext]_larkVars PROVE LarkInv'
    OBVIOUS
  <2>1. Grows
    BY DocsGrow DEF LarkInv
  <2>2. LarkTypeOK' /\ Tracked' /\ InHand' /\ Promised'
    BY <2>1, TypeStep, TrackedStep, InHandStep, PromisedStep DEF LarkInv
  <2>3. ASSUME ~ early', ~ unset' PROVE Marked' /\ Single'
    <3>1. ~ early /\ ~ unset
      BY <2>3 DEF LarkInv, LarkTypeOK, LarkNext, larkVars, DeliveryStep, Authorise, MarkCreating, Create,
              Created, WriteBody, Grant, Finish, Fails, XiaodStops, Deliver, LarkCreates, LarkRefuses,
              ConfirmNotCreated, ConfirmDelivered, OwnerRepairs, Settles
    <3> QED
      BY <2>1, <2>3, <3>1, MarkedStep, SingleStep DEF LarkInv
  <2> QED
    BY <2>2, <2>3 DEF LarkInv
<1> QED
  BY <1>1, <1>2, PTL DEF LarkSpec

\* Every record of the delivery, the call and Lark stays well typed.
THEOREM LarkTypeCorrect == LarkSpec => []LarkTypeOK
<1>1. LarkInv => LarkTypeOK
  BY DEF LarkInv
<1> QED
  BY <1>1, LarkInductive, PTL

\* A text is made into one document, wherever its deliveries break off.
THEOREM MakesOneDocument == LarkSpec => []OneDocument
<1>1. LarkInv => OneDocument
  BY DEF LarkInv, Single, OneDocument
<1> QED
  BY <1>1, LarkInductive, PTL

\* What is shown as delivered is a whole document the user may open, also where a human
\* settled a delivery over a call under way.
THEOREM ShownIsDelivered == LarkSpec => []DeliveredIsTrue
<1>1. LarkInv => DeliveredIsTrue
  BY DEF LarkInv, Promised
<1> QED
  BY <1>1, LarkInductive, PTL
=============================================================================
