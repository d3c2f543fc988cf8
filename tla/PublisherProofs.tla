--------------------------- MODULE PublisherProofs ---------------------------
(***************************************************************************)
(* The publisher gateway, in three parts that share no state.              *)
(*                                                                         *)
(* A publication asks the platform at most once for a key, and what is on  *)
(* the platform is traceable in the ledger: for any number of keys and     *)
(* processes, any limits, and whatever transaction throws or process ends  *)
(* in between.                                                             *)
(*                                                                         *)
(* The lock of the ledger does what it is for, with any number of calls    *)
(* and processes and whoever dies, until a call isolates a lock file that  *)
(* it has not judged: nobody is between another update's read and write,   *)
(* and no update is lost.                                                  *)
(*                                                                         *)
(* The properties of MetricCollection, for any number of processes, of     *)
(* tries and of reviews.  A try has a claim of its own (Tokens), the       *)
(* attempt in the ledger says who holds it (Claimed), whoever is at the    *)
(* platform holds it or was concluded (Fenced), and a verified effect is   *)
(* written by a review whose pause Paperclip has confirmed (Reviewed).     *)
(***************************************************************************)
EXTENDS LedgerLock, PublishExecution, MetricCollection, TLAPS

-----------------------------------------------------------------------------
(* Publications *)

\* From its claim to its receipt a publication is at work on its key.
Busy(p) == job[p].pc \in {"claimed", "funded", "invoked", "bill", "settle", "receipt"}

\* The attempt is what its publication has last made of it.
MarkedAt(p) ==
    /\ job[p].pc \in {"claimed", "funded"} => attempt[job[p].key] = "prepared"
    /\ job[p].pc \in {"invoked", "bill", "settle"} => attempt[job[p].key] = "invoking"
    /\ job[p].pc = "receipt" => attempt[job[p].key] = "succeeded"

\* No two publications are at work on one key.
Apart ==
    \A p, q \in Processes : p # q /\ Busy(p) /\ Busy(q) => job[p].key # job[q].key

\* Nothing is on the platform for an attempt that has not asked, or was refused before it
\* could; what has succeeded is there.
Posted(k) ==
    /\ attempt[k] \in {"none", "prepared", "budget", "blocked"} => posted[k] = 0
    /\ attempt[k] \in {"succeeded", "recorded"} => posted[k] > 0

\* What a publication knows of the platform.
InformedAt(p) ==
    /\ Held(p) => posted[job[p].key] = 0
    /\ job[p].pc \in {"bill", "settle"} /\ job[p].answer = "published" => posted[job[p].key] > 0

PublishSafe ==
    /\ \A p \in Processes : MarkedAt(p)
    /\ Apart
    /\ \A k \in Keys : Posted(k)
    /\ \A p \in Processes : InformedAt(p)

IInv == TypeOK /\ PublishSafe

-----------------------------------------------------------------------------
\* A publication that is not idle has a key.
LEMMA HasKey ==
  ASSUME TypeOK, NEW p \in Processes, job[p].pc # "idle"
  PROVE  job[p] \in Jobs /\ job[p].key \in Keys
BY DEF TypeOK, Idle, Jobs

PublishPlaces == {"start", "operational", "granted", "claimed", "funded", "invoked", "bill",
           "settle", "receipt", "pause", "latch"}

\* A job that goes on keeps its key and its answer.
LEMMA NextPlace ==
  ASSUME NEW r \in Jobs, NEW w \in PublishPlaces
  PROVE  /\ [r EXCEPT !.pc = w] \in Jobs
         /\ [r EXCEPT !.pc = w].pc = w
         /\ [r EXCEPT !.pc = w].key = r.key
         /\ [r EXCEPT !.pc = w].answer = r.answer
BY DEF Jobs, PublishPlaces

\* Goto moves one process and no other.
LEMMA GotoMoves ==
  ASSUME TypeOK, NEW p \in Processes, job[p].pc # "idle", NEW w \in PublishPlaces, Goto(p, w)
  PROVE  /\ job' \in [Processes -> Jobs \cup {Idle}]
         /\ job'[p].pc = w /\ job'[p].key = job[p].key /\ job'[p].answer = job[p].answer
         /\ \A q \in Processes : q # p => job'[q] = job[q]
<1> DEFINE r == [job[p] EXCEPT !.pc = w]
<1>1. r \in Jobs /\ r.pc = w /\ r.key = job[p].key /\ r.answer = job[p].answer
  BY HasKey, NextPlace
<1>2. job' = [job EXCEPT ![p] = r]
  BY DEF Goto
<1> HIDE DEF r
<1> QED
  BY <1>1, <1>2 DEF TypeOK

\* Give leaves one process idle and no other.
LEMMA GiveEnds ==
  ASSUME TypeOK, NEW p \in Processes, Give(p)
  PROVE  /\ job' \in [Processes -> Jobs \cup {Idle}]
         /\ job'[p] = Idle
         /\ \A q \in Processes : q # p => job'[q] = job[q]
BY DEF Give, TypeOK

\* Ask also notes the platform's answer.
LEMMA AskMoves ==
  ASSUME TypeOK, NEW p \in Processes, Ask(p)
  PROVE  /\ job' \in [Processes -> Jobs \cup {Idle}]
         /\ job'[p].pc = "bill" /\ job'[p].key = job[p].key
         /\ \A q \in Processes : q # p => job'[q] = job[q]
         /\ job'[p].answer = "published" => posted' = [posted EXCEPT ![job[p].key] = @ + 1]
         /\ UNCHANGED posted \/ posted' = [posted EXCEPT ![job[p].key] = @ + 1]
<1>1. PICK answer \in Answers \ {"none"}, publishes \in BOOLEAN :
        /\ answer = "published" => publishes
        /\ posted' = IF publishes THEN [posted EXCEPT ![job[p].key] = @ + 1] ELSE posted
        /\ job' = [job EXCEPT ![p].pc = "bill", ![p].answer = answer]
  BY DEF Ask
<1>2. job[p] \in Jobs
  BY HasKey DEF Ask, At
<1> DEFINE r == [job[p] EXCEPT !.pc = "bill", !.answer = answer]
<1>3. r \in Jobs /\ r.pc = "bill" /\ r.key = job[p].key /\ r.answer = answer
  <2> DEFINE old == job[p]
  <2> HIDE DEF old
  <2>1. ASSUME old \in Jobs
        PROVE  LET n == [old EXCEPT !.pc = "bill", !.answer = answer]
               IN  n \in Jobs /\ n.pc = "bill" /\ n.key = old.key /\ n.answer = answer
    BY <2>1 DEF Jobs
  <2> QED
    BY <1>2, <2>1 DEF old
<1>4. job' = [job EXCEPT ![p] = r]
  BY <1>1
<1> HIDE DEF r
<1>5. job'[p] = r /\ job' \in [Processes -> Jobs \cup {Idle}]
  BY <1>3, <1>4 DEF TypeOK
<1>6. \A q \in Processes : q # p => job'[q] = job[q]
  BY <1>4 DEF TypeOK
<1> QED
  BY <1>1, <1>3, <1>5, <1>6

\* Places, attempts and answers stay within their types.
LEMMA PublishTypeStep == TypeOK /\ [Next]_vars => TypeOK'
<1> SUFFICES ASSUME TypeOK, [Next]_vars PROVE TypeOK'
  OBVIOUS
<1>1. ASSUME NEW p \in Processes, Publish(p) PROVE TypeOK'
  <2> USE DEF TypeOK, At, Commit, CommitLast, AttemptStates
  <2>1. ASSUME NEW k \in Keys, Begin(p, k) PROVE TypeOK'
    BY <2>1 DEF Begin, Jobs, Answers
  <2>2. CASE CheckLatch(p) \/ ReadGrant(p) \/ Refuse(p) \/ Replay(p) \/ RefuseRetry(p)
    BY <2>2, GotoMoves, GiveEnds DEF CheckLatch, ReadGrant, Refuse, Replay, RefuseRetry, PublishPlaces
  <2>3. CASE Claim(p) \/ CheckBudget(p) \/ Invoke(p) \/ ApprovalLapsed(p)
    BY <2>3, HasKey, GotoMoves, GiveEnds DEF Claim, CheckBudget, Invoke, ApprovalLapsed, PublishPlaces
  <2>4. CASE Ask(p)
    <3>1. job[p].key \in Keys /\ UNCHANGED <<attempt, latch, stopped, grant>>
      BY <2>4, HasKey DEF Ask
    <3>2. posted' \in [Keys -> Nat]
      BY <2>4, <3>1, AskMoves
    <3> QED
      BY <2>4, <3>1, <3>2, AskMoves
  <2>5. CASE Bill(p) \/ Settle(p) \/ WriteReceipt(p)
    BY <2>5, HasKey, GotoMoves, GiveEnds DEF Bill, Settle, WriteReceipt, PublishPlaces
  <2>6. CASE Pause(p) \/ HardStop(p)
    BY <2>6, GotoMoves, GiveEnds DEF Pause, HardStop, ActivateHardStop, PublishPlaces
  <2> QED
    BY <1>1, <2>1, <2>2, <2>3, <2>4, <2>5, <2>6 DEF Publish
<1>2. CASE \E p \in Processes : MetricHardStop(p) \/ Crash(p)
  BY <1>2 DEF MetricHardStop, ActivateHardStop, Crash, Give, TypeOK
<1>3. CASE OwnerDecides
  BY <1>3 DEF OwnerDecides, TypeOK
<1>4. CASE UNCHANGED vars
  BY <1>4 DEF vars, TypeOK
<1> QED
  BY <1>1, <1>2, <1>3, <1>4 DEF Next

-----------------------------------------------------------------------------
\* A step that only ends publications, or moves those that are not at work, is safe.
LEMMA IdleStep ==
  ASSUME TypeOK, PublishSafe, UNCHANGED <<attempt, posted>>,
         \A q \in Processes : job'[q] = job[q] \/ ~ Busy(q)'
  PROVE  PublishSafe'
BY DEF PublishSafe, MarkedAt, Apart, Posted, InformedAt, Busy, Held

\* A step of a publication at work, or of one that finds its key free, is safe if it is
\* so for its own key: nobody else is at work on it.
LEMMA LocalStep ==
  ASSUME TypeOK, PublishSafe, NEW p \in Processes, NEW k \in Keys,
         k = job[p].key,
         Busy(p) \/ attempt[k] \in {"none", "budget"},
         \A j \in Keys : j # k => attempt'[j] = attempt[j] /\ posted'[j] = posted[j],
         \A q \in Processes : q # p => job'[q] = job[q],
         Busy(p)' => job'[p].key = k,
         MarkedAt(p)', InformedAt(p)', Posted(k)'
  PROVE  PublishSafe'
<1>1. \A q \in Processes : q # p /\ Busy(q) => job[q].key \in Keys /\ job[q].key # k
  <2> SUFFICES ASSUME NEW q \in Processes, q # p, Busy(q)
               PROVE  job[q].key \in Keys /\ job[q].key # k
    OBVIOUS
  <2>1. job[q].key \in Keys
    BY HasKey DEF Busy
  <2>2. CASE Busy(p)
    BY <2>1, <2>2 DEF PublishSafe, Apart
  <2>3. CASE attempt[k] \in {"none", "budget"}
    BY <2>1, <2>3 DEF PublishSafe, MarkedAt, Busy
  <2> QED
    BY <2>1, <2>2, <2>3
<1>2. ASSUME NEW q \in Processes PROVE MarkedAt(q)' /\ InformedAt(q)'
  <2>1. CASE q = p
    BY <2>1
  <2>2. CASE q # p
    <3>1. job'[q] = job[q] /\ MarkedAt(q) /\ InformedAt(q)
      BY <2>2 DEF PublishSafe
    <3>2. Busy(q) => /\ attempt'[job[q].key] = attempt[job[q].key]
                     /\ posted'[job[q].key] = posted[job[q].key]
      BY <1>1, <2>2
    <3> QED
      BY <3>1, <3>2 DEF MarkedAt, InformedAt, Busy, Held
  <2> QED
    BY <2>1, <2>2
<1>3. Apart'
  BY <1>1 DEF PublishSafe, Apart, Busy
<1>4. \A j \in Keys : Posted(j)'
  BY DEF PublishSafe, Posted
<1> QED
  BY <1>2, <1>3, <1>4 DEF PublishSafe

\* The ledger's transactions: the attempt of one's own key gets a state, or not.
LEMMA CommitMoves ==
  ASSUME TypeOK, NEW p \in Processes, job[p].pc # "idle", NEW w \in PublishPlaces, NEW a,
         Commit(p, a, w)
  PROVE  /\ \A j \in Keys : j # job[p].key => attempt'[j] = attempt[j]
         /\ \A q \in Processes : q # p => job'[q] = job[q]
         /\ \/ /\ attempt'[job[p].key] = a
               /\ job'[p].pc = w /\ job'[p].key = job[p].key /\ job'[p].answer = job[p].answer
            \/ attempt'[job[p].key] \in {attempt[job[p].key], a} /\ job'[p] = Idle
BY HasKey, GotoMoves, GiveEnds DEF Commit, TypeOK

LEMMA CommitLastMoves ==
  ASSUME TypeOK, NEW p \in Processes, job[p].pc # "idle", NEW a, CommitLast(p, a)
  PROVE  /\ \A j \in Keys : j # job[p].key => attempt'[j] = attempt[j]
         /\ \A q \in Processes : q # p => job'[q] = job[q]
         /\ attempt'[job[p].key] \in {attempt[job[p].key], a} /\ job'[p] = Idle
BY HasKey, GiveEnds DEF CommitLast, TypeOK

-----------------------------------------------------------------------------
\* Before the claim nothing is at stake.
LEMMA EarlyStep ==
  ASSUME TypeOK, PublishSafe, NEW p \in Processes,
         \/ \E k \in Keys : Begin(p, k)
         \/ CheckLatch(p) \/ ReadGrant(p) \/ Refuse(p) \/ Replay(p) \/ RefuseRetry(p)
         \/ Pause(p) \/ HardStop(p)
  PROVE  PublishSafe'
<1>1. UNCHANGED <<attempt, posted>>
  BY DEF Begin, CheckLatch, ReadGrant, Refuse, Replay, RefuseRetry, Pause, HardStop
<1>2. /\ job'[p].pc \notin {"claimed", "funded", "invoked", "bill", "settle", "receipt"}
      /\ \A q \in Processes : q # p => job'[q] = job[q]
  <2>1. CASE \E k \in Keys : Begin(p, k)
    BY <2>1 DEF Begin, TypeOK
  <2>2. CASE CheckLatch(p) \/ ReadGrant(p) \/ Refuse(p) \/ Replay(p) \/ RefuseRetry(p)
    BY <2>2, GotoMoves, GiveEnds
       DEF CheckLatch, ReadGrant, Refuse, Replay, RefuseRetry, PublishPlaces, At, Idle
  <2>3. CASE Pause(p) \/ HardStop(p)
    BY <2>3, GotoMoves, GiveEnds DEF Pause, HardStop, PublishPlaces, At, Idle
  <2> QED
    BY <2>1, <2>2, <2>3
<1> QED
  BY <1>1, <1>2, IdleStep DEF Busy

\* A claim finds a key that nobody is at work on.
LEMMA ClaimStep ==
  ASSUME TypeOK, PublishSafe, NEW p \in Processes, Claim(p)
  PROVE  PublishSafe'
<1> DEFINE k == job[p].key
<1>1. k \in Keys /\ attempt[k] \in {"none", "budget"} /\ posted' = posted /\ posted[k] = 0
  BY HasKey DEF Claim, At, PublishSafe, Posted
<1>2. Commit(p, "prepared", "claimed") \/ Commit(p, "blocked", "pause")
  BY DEF Claim
<1>3. job[p].pc # "idle"
  BY DEF Claim, At
<1>4. CASE Commit(p, "prepared", "claimed")
  BY <1>1, <1>3, <1>4, CommitMoves, LocalStep
     DEF PublishPlaces, MarkedAt, InformedAt, Posted, Busy, Held, Idle
<1>5. CASE Commit(p, "blocked", "pause")
  BY <1>1, <1>3, <1>5, CommitMoves, LocalStep
     DEF PublishPlaces, MarkedAt, InformedAt, Posted, Busy, Held, Idle
<1> QED
  BY <1>2, <1>4, <1>5

\* From the claim to the call nothing is on the platform yet.
LEMMA PrepareStep ==
  ASSUME TypeOK, PublishSafe, NEW p \in Processes,
         CheckBudget(p) \/ Invoke(p) \/ ApprovalLapsed(p)
  PROVE  PublishSafe'
<1> DEFINE k == job[p].key
<1>1. /\ k \in Keys /\ posted' = posted /\ posted[k] = 0
      /\ job[p].pc # "idle" /\ Busy(p)
      /\ attempt[k] \in {"prepared", "invoking"}
  BY HasKey DEF CheckBudget, Invoke, ApprovalLapsed, At, PublishSafe, MarkedAt, InformedAt, Held, Busy
<1>2. CASE CheckBudget(p)
  <2>1. CASE Goto(p, "funded") /\ UNCHANGED attempt
    BY <1>1, <1>2, <2>1, GotoMoves, LocalStep
       DEF CheckBudget, At, PublishPlaces, PublishSafe, MarkedAt, InformedAt, Posted, Busy, Held
  <2>2. CASE Commit(p, "ambiguous", "pause")
    BY <1>1, <2>2, CommitMoves, LocalStep
       DEF PublishPlaces, MarkedAt, InformedAt, Posted, Busy, Held, Idle
  <2>3. CASE Commit(p, "budget", "pause")
    BY <1>1, <2>3, CommitMoves, LocalStep
       DEF PublishPlaces, MarkedAt, InformedAt, Posted, Busy, Held, Idle
  <2> QED
    BY <1>2, <2>1, <2>2, <2>3 DEF CheckBudget
<1>3. CASE Invoke(p)
  BY <1>1, <1>3, CommitMoves, LocalStep
     DEF Invoke, PublishPlaces, MarkedAt, InformedAt, Posted, Busy, Held, Idle
<1>4. CASE ApprovalLapsed(p)
  BY <1>1, <1>4, CommitLastMoves, LocalStep
     DEF ApprovalLapsed, MarkedAt, InformedAt, Posted, Busy, Held, Idle
<1> QED
  BY <1>2, <1>3, <1>4

\* The platform is asked by a publication that knows that nothing is there.
LEMMA AskStep ==
  ASSUME TypeOK, PublishSafe, NEW p \in Processes, Ask(p)
  PROVE  PublishSafe'
<1> DEFINE k == job[p].key
<1>1. k \in Keys /\ posted[k] = 0 /\ attempt' = attempt /\ attempt[k] = "invoking" /\ Busy(p)
  BY HasKey DEF Ask, At, PublishSafe, MarkedAt, InformedAt, Held, Busy
<1>2. /\ \A j \in Keys : j # k => posted'[j] = posted[j]
      /\ job'[p].answer = "published" => posted'[k] > 0
  BY <1>1, AskMoves DEF TypeOK
<1> QED
  BY <1>1, <1>2, AskMoves, LocalStep DEF MarkedAt, InformedAt, Posted, Busy, Held

\* What came of the call is written down as what it may be.
LEMMA EndStep ==
  ASSUME TypeOK, PublishSafe, NEW p \in Processes,
         Bill(p) \/ Settle(p) \/ WriteReceipt(p)
  PROVE  PublishSafe'
<1> DEFINE k == job[p].key
<1>1. k \in Keys /\ posted' = posted /\ job[p].pc # "idle" /\ Busy(p) /\ Posted(k)
  BY HasKey DEF Bill, Settle, WriteReceipt, At, PublishSafe, Busy
<1>2. CASE Bill(p)
  <2>1. CASE Goto(p, "settle") /\ UNCHANGED attempt
    BY <1>1, <1>2, <2>1, GotoMoves, LocalStep
       DEF Bill, At, PublishPlaces, PublishSafe, MarkedAt, InformedAt, Posted, Busy, Held
  <2>2. CASE Commit(p, "ambiguous", "pause")
    BY <1>1, <2>2, CommitMoves, LocalStep
       DEF PublishPlaces, MarkedAt, InformedAt, Posted, Busy, Held, Idle
  <2> QED
    BY <1>2, <2>1, <2>2 DEF Bill
<1>3. CASE Settle(p)
  <2>0. attempt[k] = "invoking" /\ InformedAt(p) /\ job[p].pc = "settle"
    BY <1>3 DEF Settle, At, PublishSafe, MarkedAt
  <2>1. CASE Commit(p, "ambiguous", "pause")
    BY <1>1, <2>1, CommitMoves, LocalStep
       DEF PublishPlaces, MarkedAt, InformedAt, Posted, Busy, Held, Idle
  <2>2. CASE job[p].answer = "stopped" /\ Commit(p, "stopped", "pause")
    BY <1>1, <2>0, <2>2, CommitMoves, LocalStep
       DEF PublishPlaces, MarkedAt, InformedAt, Posted, Busy, Held, Idle
  <2>3. CASE job[p].answer = "stopped" /\ CommitLast(p, "stopped")
    BY <1>1, <2>0, <2>3, CommitLastMoves, LocalStep
       DEF MarkedAt, InformedAt, Posted, Busy, Held, Idle
  <2>4. CASE job[p].answer = "published" /\ Commit(p, "succeeded", "receipt")
    BY <1>1, <2>0, <2>4, CommitMoves, LocalStep
       DEF PublishPlaces, MarkedAt, InformedAt, Posted, Busy, Held, Idle
  <2> QED
    BY <1>3, <2>1, <2>2, <2>3, <2>4 DEF Settle
<1>4. CASE WriteReceipt(p)
  <2>1. attempt[k] = "succeeded"
    BY <1>4 DEF WriteReceipt, At, PublishSafe, MarkedAt
  <2> QED
    BY <1>1, <1>4, <2>1, CommitLastMoves, LocalStep
       DEF WriteReceipt, MarkedAt, InformedAt, Posted, Busy, Held, Idle
<1> QED
  BY <1>2, <1>3, <1>4

\* At first no key is claimed and no publication under way.
LEMMA InitInv == Init => IInv
<1> SUFFICES ASSUME Init PROVE IInv
  OBVIOUS
<1>1. TypeOK
  BY DEF Init, TypeOK, AttemptStates
<1>2. \A p \in Processes : job[p].pc = "idle"
  BY DEF Init, Idle
<1>3. PublishSafe
  BY <1>2 DEF Init, PublishSafe, MarkedAt, Apart, Posted, InformedAt, Busy, Held
<1> QED
  BY <1>1, <1>3 DEF IInv

LEMMA InvStep == IInv /\ [Next]_vars => IInv'
<1> SUFFICES ASSUME IInv, [Next]_vars PROVE PublishSafe'
  BY PublishTypeStep DEF IInv
<1> USE DEF IInv
<1>1. ASSUME NEW p \in Processes, Publish(p) PROVE PublishSafe'
  BY <1>1, EarlyStep, ClaimStep, PrepareStep, AskStep, EndStep DEF Publish
<1>2. ASSUME NEW p \in Processes, MetricHardStop(p) PROVE PublishSafe'
  BY <1>2, IdleStep DEF MetricHardStop
<1>3. ASSUME NEW p \in Processes, Crash(p) PROVE PublishSafe'
  BY <1>3, GiveEnds, IdleStep DEF Crash, Busy, Idle
<1>4. CASE OwnerDecides
  BY <1>4, IdleStep DEF OwnerDecides
<1>5. CASE UNCHANGED vars
  BY <1>5, IdleStep DEF vars
<1> QED
  BY <1>1, <1>2, <1>3, <1>4, <1>5 DEF Next

-----------------------------------------------------------------------------
\* The ledger, the processes and the platform are always well typed.
THEOREM TypeCorrect == Spec => []TypeOK
  BY InitInv, InvStep, PTL DEF Spec, IInv

\* Whatever throws or crashes and whatever a connector answers, what is on the platform is
\* in the ledger as a call that was made, never as untried or refused before the call.
THEOREM AlwaysTraceable == Spec => []Traceable
<1>1. IInv => Traceable
  <2> SUFFICES ASSUME IInv, NEW k \in Keys, posted[k] > 0
               PROVE  attempt[k] \in {"invoking", "ambiguous", "stopped", "succeeded", "recorded"}
    BY DEF Traceable
  <2>1. attempt[k] \in AttemptStates /\ Posted(k) /\ posted[k] \in Nat
    BY DEF IInv, TypeOK, PublishSafe
  <2> QED
    BY <2>1 DEF AttemptStates, Posted
<1> QED
  BY <1>1, InitInv, InvStep, PTL DEF Spec

-----------------------------------------------------------------------------
(* The refinement *)

OnPlatform == {k \in Keys : posted[k] > 0}

\* Keys that leave OpenKeys without anything else happening are closed.
LEMMA Closes ==
  ASSUME TypeOK, OpenKeys' \subseteq OpenKeys, OnPlatform' = OnPlatform, Recorded' = Recorded
  PROVE  Contract!Next
<1>1. OpenKeys \subseteq Keys
  BY HasKey DEF OpenKeys, Held
<1>2. OpenKeys \ OpenKeys' \in SUBSET Keys /\ OpenKeys' = OpenKeys \ (OpenKeys \ OpenKeys')
  BY <1>1
<1>3. Contract!Close(OpenKeys \ OpenKeys')
  BY <1>2 DEF Contract!Close, OnPlatform
<1> QED
  BY <1>2, <1>3 DEF Contract!Next

\* A step that leaves ledger and platform alone, and takes up no key.
LEMMA IdleCloses ==
  ASSUME TypeOK, UNCHANGED <<attempt, posted>>,
         \A q \in Processes : job'[q] = job[q] \/ ~ Held(q)'
  PROVE  Contract!Next
<1>1. OpenKeys' \subseteq OpenKeys
  BY DEF OpenKeys, Held
<1>2. OnPlatform' = OnPlatform /\ Recorded' = Recorded
  BY DEF OnPlatform, Recorded
<1> QED
  BY <1>1, <1>2, Closes

\* A transaction of process p that opens no key and writes no receipt.
LEMMA LocalCloses ==
  ASSUME TypeOK, NEW p \in Processes, NEW k \in Keys,
         k = job[p].key,
         \A j \in Keys : j # k => attempt'[j] = attempt[j],
         posted' = posted,
         \A q \in Processes : q # p => job'[q] = job[q],
         Held(p)' => job'[p].key = k,
         attempt'[k] \in {"none", "budget"} \/ Held(p)'
            => attempt[k] \in {"none", "budget"} \/ Held(p),
         attempt'[k] = "recorded" <=> attempt[k] = "recorded"
  PROVE  Contract!Next
<1>1. OpenKeys' \subseteq OpenKeys
  <2> SUFFICES ASSUME NEW j \in OpenKeys' PROVE j \in OpenKeys
    OBVIOUS
  <2>1. CASE j \in Keys /\ attempt'[j] \in {"none", "budget"}
    BY <2>1 DEF OpenKeys
  <2>2. CASE \E q \in Processes : Held(q)' /\ j = job'[q].key
    <3> PICK q \in Processes : Held(q)' /\ j = job'[q].key
      BY <2>2
    <3>1. CASE q = p
      BY <3>1 DEF OpenKeys
    <3>2. CASE q # p
      BY <3>2 DEF OpenKeys, Held
    <3> QED
      BY <3>1, <3>2
  <2> QED
    BY <2>1, <2>2 DEF OpenKeys
<1>2. OnPlatform' = OnPlatform /\ Recorded' = Recorded
  BY DEF OnPlatform, Recorded
<1> QED
  BY <1>1, <1>2, Closes

\* Before the call a publication may only close its key.
LEMMA EarlyCloses ==
  ASSUME IInv, NEW p \in Processes,
         Claim(p) \/ CheckBudget(p) \/ Invoke(p) \/ ApprovalLapsed(p)
  PROVE  Contract!Next
<1> DEFINE k == job[p].key
<1>1. TypeOK /\ k \in Keys /\ posted' = posted /\ job[p].pc # "idle"
  BY HasKey DEF IInv, Claim, CheckBudget, Invoke, ApprovalLapsed, At
<1>2. /\ attempt[k] \in {"none", "budget"} \/ Held(p)
      /\ attempt[k] # "recorded"
  BY DEF IInv, PublishSafe, MarkedAt, Claim, CheckBudget, Invoke, ApprovalLapsed, At, Held
<1>3. CASE \E a \in AttemptStates \ {"recorded"}, w \in PublishPlaces : Commit(p, a, w)
  <2> PICK a \in AttemptStates \ {"recorded"}, w \in PublishPlaces : Commit(p, a, w)
    BY <1>3
  <2> QED
    BY <1>1, <1>2, CommitMoves, LocalCloses DEF Held, Idle
<1>4. CASE \E a \in AttemptStates \ {"recorded"} : CommitLast(p, a)
  BY <1>1, <1>2, <1>4, CommitLastMoves, LocalCloses DEF Held, Idle
<1>5. CASE Goto(p, "funded") /\ UNCHANGED attempt
  BY <1>1, <1>2, <1>5, GotoMoves, LocalCloses DEF PublishPlaces
<1> QED
  BY <1>3, <1>4, <1>5
     DEF Claim, CheckBudget, Invoke, ApprovalLapsed, AttemptStates, PublishPlaces

\* After the call the key is closed and stays so.
LEMMA LateCloses ==
  ASSUME IInv, NEW p \in Processes, Bill(p) \/ Settle(p)
  PROVE  Contract!Next
<1> DEFINE k == job[p].key
<1>1. TypeOK /\ k \in Keys /\ posted' = posted /\ job[p].pc # "idle"
  BY HasKey DEF IInv, Bill, Settle, At
<1>2. attempt[k] = "invoking"
  BY DEF IInv, PublishSafe, MarkedAt, Bill, Settle, At
<1>3. CASE \E a \in {"ambiguous", "stopped", "succeeded"}, w \in {"pause", "receipt"} :
              Commit(p, a, w)
  <2> PICK a \in {"ambiguous", "stopped", "succeeded"}, w \in {"pause", "receipt"} :
              Commit(p, a, w)
    BY <1>3
  <2> QED
    BY <1>1, <1>2, CommitMoves, LocalCloses DEF Held, Idle, PublishPlaces
<1>4. CASE CommitLast(p, "stopped")
  BY <1>1, <1>2, <1>4, CommitLastMoves, LocalCloses DEF Held, Idle
<1>5. CASE Goto(p, "settle") /\ UNCHANGED attempt
  BY <1>1, <1>2, <1>5, GotoMoves, LocalCloses DEF PublishPlaces, Held
<1> QED
  BY <1>3, <1>4, <1>5 DEF Bill, Settle

\* The call of the platform is the contract's.
LEMMA AskRefines ==
  ASSUME IInv, NEW p \in Processes, Ask(p)
  PROVE  Contract!Next
<1>0. PICK k \in Keys : k = job[p].key
  BY HasKey DEF IInv, Ask, At
<1>1. /\ TypeOK /\ k \in Keys /\ attempt' = attempt /\ attempt[k] = "invoking" /\ Held(p)
      /\ posted[k] = 0
  BY <1>0, HasKey DEF IInv, PublishSafe, MarkedAt, InformedAt, Ask, At, Held
<1>2. \A q \in Processes : q # p /\ Held(q) => job[q].key # k
  BY <1>0, <1>1 DEF IInv, PublishSafe, Apart, Busy, Held
<1>3. ~ Held(p)' /\ \A q \in Processes : q # p => job'[q] = job[q]
  BY <1>1, AskMoves DEF Held
<1>4. OpenKeys' = OpenKeys \ {k}
  BY <1>0, <1>1, <1>2, <1>3 DEF OpenKeys, Held
<1>5. k \in OpenKeys
  BY <1>0, <1>1 DEF OpenKeys
<1>6. OnPlatform' \in {OnPlatform, OnPlatform \cup {k}}
  <2>1. CASE UNCHANGED posted
    BY <2>1 DEF OnPlatform
  <2>2. CASE posted' = [posted EXCEPT ![k] = @ + 1]
    BY <1>1, <2>2 DEF OnPlatform, TypeOK
  <2> QED
    BY <1>0, <1>1, <2>1, <2>2, AskMoves
<1>7. Recorded' = Recorded
  BY <1>1 DEF Recorded
<1>8. Contract!Ask(k)
  BY <1>4, <1>5, <1>6, <1>7 DEF Contract!Ask, OnPlatform
<1> QED
  BY <1>1, <1>8 DEF Contract!Next

\* A receipt is written for what was published.
LEMMA ReceiptRefines ==
  ASSUME IInv, NEW p \in Processes, WriteReceipt(p)
  PROVE  Contract!Next
<1> DEFINE k == job[p].key
<1>1. /\ TypeOK /\ k \in Keys /\ attempt[k] = "succeeded" /\ posted' = posted
      /\ job[p].pc = "receipt" /\ posted[k] > 0
  BY HasKey DEF IInv, PublishSafe, MarkedAt, Posted, WriteReceipt, At
<1>2. CASE attempt'[k] = "succeeded"
  BY <1>1, <1>2, CommitLastMoves, LocalCloses DEF WriteReceipt, Held, Idle
<1>3. CASE attempt'[k] = "recorded"
  <2>1. /\ \A j \in Keys : j # k => attempt'[j] = attempt[j]
        /\ \A q \in Processes : q # p => job'[q] = job[q]
        /\ job'[p] = Idle
    BY <1>1, CommitLastMoves DEF WriteReceipt
  <2>2. OpenKeys' = OpenKeys
    BY <1>1, <1>3, <2>1 DEF OpenKeys, Held, Idle
  <2>3. k \in OnPlatform \ OpenKeys
    BY <1>1 DEF OnPlatform, OpenKeys, Held, IInv, PublishSafe, MarkedAt
  <2>4. Recorded' = Recorded \cup {k}
    BY <1>1, <1>3, <2>1 DEF Recorded
  <2>5. Contract!Record(k)
    BY <1>1, <2>2, <2>3, <2>4 DEF Contract!Record, OnPlatform
  <2> QED
    BY <1>1, <2>5 DEF Contract!Next
<1> QED
  BY <1>1, <1>2, <1>3, CommitLastMoves DEF WriteReceipt

LEMMA StepRefines ==
  ASSUME IInv, [Next]_vars
  PROVE  [Contract!Next]_<<OpenKeys, OnPlatform, Recorded>>
<1> TypeOK
  BY DEF IInv
<1>1. ASSUME NEW p \in Processes, Publish(p) PROVE Contract!Next
  <2>1. CASE \E k \in Keys : Begin(p, k)
    BY <2>1, IdleCloses DEF Begin, Held, TypeOK
  <2>2. CASE CheckLatch(p) \/ ReadGrant(p) \/ Refuse(p) \/ Replay(p) \/ RefuseRetry(p)
    BY <2>2, GotoMoves, GiveEnds, IdleCloses
       DEF CheckLatch, ReadGrant, Refuse, Replay, RefuseRetry, PublishPlaces, At, Idle, Held
  <2>3. CASE Pause(p) \/ HardStop(p)
    BY <2>3, GotoMoves, GiveEnds, IdleCloses DEF Pause, HardStop, PublishPlaces, At, Idle, Held
  <2> QED
    BY <1>1, <2>1, <2>2, <2>3, EarlyCloses, LateCloses, AskRefines, ReceiptRefines DEF Publish
<1>2. ASSUME NEW p \in Processes, MetricHardStop(p) PROVE Contract!Next
  BY <1>2, IdleCloses DEF MetricHardStop
<1>3. ASSUME NEW p \in Processes, Crash(p) PROVE Contract!Next
  BY <1>3, GiveEnds, IdleCloses DEF Crash, Held, Idle
<1>4. CASE OwnerDecides
  BY <1>4, IdleCloses DEF OwnerDecides
<1>5. CASE UNCHANGED vars
  BY <1>5 DEF vars, OpenKeys, OnPlatform, Recorded, Held
<1> QED
  BY <1>1, <1>2, <1>3, <1>4, <1>5 DEF Next

LEMMA InitRefines == Init => Contract!Init
  BY DEF Init, Contract!Init, OpenKeys, Recorded, Held, Idle

\* However often and by however many processes a key is requested, and wherever they
\* break off, the platform is asked for it at most once, and receipts are true and stay.
THEOREM PublishesAtMostOnce == Spec => PublishesOnce
<1>1. IInv /\ [Next]_vars => [Contract!Next]_<<OpenKeys, {k \in Keys : posted[k] > 0}, Recorded>>
  BY StepRefines DEF OnPlatform
<1> QED
  BY <1>1, InitRefines, InitInv, InvStep, PTL DEF Spec, PublishesOnce, Contract!Spec

-----------------------------------------------------------------------------
(* The lock of the ledger *)

\* Whoever is in the middle of an update is alive.
Living == \A c \in Calls : pc[c] \notin Ends \cup {"idle"} => OwnerOf[c] \notin dead

\* A lock is judged stale only when its process is dead, and the dead stay dead.
Judged == \A c \in Calls : pc[c] = "isolate" => OwnerOf[seen[c]] \in dead

\* From its creation to its removal the lock file of a living call is where it was made.
Holding == \A c \in Calls : pc[c] \in {"read", "write", "release", "remove"} => lock = c

\* What a call has moved is the file it has judged, or its own.
Moved ==
    \A c \in Calls :
        /\ pc[c] = "verify" => aside[c] = seen[c]
        /\ pc[c] = "confirm" => aside[c] = c
        /\ pc[c] # "restore"

\* What a call has read is still the ledger when it writes.
Fresh == \A c \in Calls : pc[c] = "write" => draft[c] = ledger

\* What a call has written stays, also if it has died since.
Kept == \A c \in Calls : c \in draft[c] => c \in ledger

Undisturbed == Holding /\ Moved /\ Fresh /\ Kept

LockInv == LockTypeOK /\ Living /\ Judged /\ (~ mistaken => Undisturbed)

-----------------------------------------------------------------------------
\* Files, drafts and places stay within their types.
LEMMA LockTypeStep == LockTypeOK /\ [LockNext]_lockVars => LockTypeOK'
<1> SUFFICES ASSUME LockTypeOK, [LockNext]_lockVars PROVE LockTypeOK'
  OBVIOUS
<1> USE DEF LockTypeOK, Files, Ends
<1>1. CASE \E c \in Calls : Update(c)
  <2> PICK c \in Calls : Update(c)
    BY <1>1
  <2>1. CASE StartUpdate(c) \/ TryCreate(c) \/ InspectLock(c) \/ Judge(c)
    BY <2>1 DEF StartUpdate, TryCreate, InspectLock, Judge, Proceed
  <2>2. CASE Isolate(c) \/ Verify(c) \/ Restore(c)
    <3>1. mistaken' \in BOOLEAN
      BY <2>2, Zenon DEF Isolate, Verify, Restore
    <3> QED
      BY <2>2, <3>1 DEF Isolate, Verify, Restore, MoveAside, Proceed
  <2>3. CASE Read(c)
    BY <2>3 DEF Read, Proceed
  <2>4. CASE Write(c)
    BY <2>4 DEF Write, Proceed
  <2>5. CASE Abandon(c) \/ Release(c) \/ Remove(c) \/ Confirm(c)
    BY <2>5 DEF Abandon, Release, Remove, Confirm, MoveAside, Proceed
  <2> QED
    BY <2>1, <2>2, <2>3, <2>4, <2>5 DEF Update
<1>2. CASE \E p \in Owners : Die(p)
  BY <1>2 DEF Die
<1>3. CASE UNCHANGED lockVars
  BY <1>3 DEF lockVars
<1> QED
  BY <1>1, <1>2, <1>3 DEF LockNext

\* One call moves at a time, and none comes to life or changes its mind about a lock.
LEMMA LivingStep ==
  ASSUME LockTypeOK, Living, Judged, [LockNext]_lockVars
  PROVE  Living' /\ Judged'
<1> USE DEF LockTypeOK, Ends, Living, Judged
<1>1. CASE \E c \in Calls : Update(c)
  <2> PICK c \in Calls : Update(c)
    BY <1>1
  <2>1. CASE StartUpdate(c) \/ TryCreate(c) \/ InspectLock(c) \/ Judge(c)
    BY <2>1 DEF StartUpdate, TryCreate, InspectLock, Judge, Proceed
  <2>2. CASE Isolate(c) \/ Verify(c) \/ Restore(c)
    BY <2>2 DEF Isolate, Verify, Restore, Proceed
  <2>3. CASE Read(c) \/ Write(c) \/ Abandon(c)
    BY <2>3 DEF Read, Write, Abandon, Proceed
  <2>4. CASE Release(c) \/ Remove(c) \/ Confirm(c)
    BY <2>4 DEF Release, Remove, Confirm, Proceed
  <2> QED
    BY <2>1, <2>2, <2>3, <2>4 DEF Update
<1>2. CASE \E p \in Owners : Die(p)
  BY <1>2 DEF Die
<1>3. CASE UNCHANGED lockVars
  BY <1>3 DEF lockVars
<1> QED
  BY <1>1, <1>2, <1>3 DEF LockNext

-----------------------------------------------------------------------------
\* A call that acquires the lock, or waits for it, disturbs no other.
LEMMA AcquireStep ==
  ASSUME LockTypeOK, Undisturbed, NEW c \in Calls,
         StartUpdate(c) \/ TryCreate(c) \/ InspectLock(c) \/ Judge(c)
  PROVE  Undisturbed'
<1> USE DEF LockTypeOK, Files, Undisturbed, Holding, Moved, Fresh, Kept
<1>1. CASE StartUpdate(c)
  BY <1>1 DEF StartUpdate, Proceed
<1>2. CASE TryCreate(c)
  <2>1. lock = None => \A d \in Calls : pc[d] \notin {"read", "write", "release", "remove"}
    BY LockNoneAssumption
  <2> QED
    BY <1>2, <2>1 DEF TryCreate, Proceed
<1>3. CASE InspectLock(c)
  BY <1>3 DEF InspectLock, Proceed
<1>4. CASE Judge(c)
  BY <1>4 DEF Judge, Proceed
<1> QED
  BY <1>1, <1>2, <1>3, <1>4

\* The file that a call has judged is of a dead process, so nobody holds it: if that is
\* what it moves, it disturbs nobody, and has no occasion to move anything back.
LEMMA IsolateStep ==
  ASSUME LockInv, ~ mistaken, NEW c \in Calls, Isolate(c) \/ Verify(c) \/ Restore(c), ~ mistaken'
  PROVE  Undisturbed'
<1> USE DEF LockInv, LockTypeOK, Files, Undisturbed, Holding, Moved, Fresh, Kept
<1>1. CASE Isolate(c)
  <2>1. CASE lock = None
    BY <1>1, <2>1 DEF Isolate, Proceed
  <2>2. CASE lock # None
    <3>1. lock = seen[c] /\ OwnerOf[lock] \in dead
      BY <1>1, <2>2 DEF Isolate, Judged
    <3>2. \A d \in Calls : pc[d] \notin {"read", "write", "release", "remove"}
      BY <3>1 DEF Living, Ends
    <3> QED
      BY <1>1, <2>2, <3>1, <3>2 DEF Isolate, MoveAside, Proceed
  <2> QED
    BY <2>1, <2>2
<1>2. CASE Verify(c)
  BY <1>2 DEF Verify, Proceed
<1>3. CASE Restore(c)
  BY <1>3 DEF Restore
<1> QED
  BY <1>1, <1>2, <1>3

\* The holder reads and writes alone.
LEMMA UpdateStep ==
  ASSUME LockTypeOK, Undisturbed, NEW c \in Calls,
         Read(c) \/ Write(c) \/ Abandon(c)
  PROVE  Undisturbed'
<1> USE DEF LockTypeOK, Undisturbed, Holding, Moved, Fresh, Kept
<1>1. \A d \in Calls : d # c => pc[d] \notin {"read", "write", "release", "remove"}
  BY DEF Read, Write, Abandon
<1>2. CASE Read(c)
  BY <1>1, <1>2 DEF Read, Proceed
<1>3. CASE Write(c)
  <2>1. ledger' = ledger \cup {c} /\ draft' = [draft EXCEPT ![c] = ledger']
    BY <1>3 DEF Write
  <2> QED
    BY <1>1, <1>3, <2>1 DEF Write, Proceed
<1>4. CASE Abandon(c)
  BY <1>1, <1>4 DEF Abandon, Proceed
<1> QED
  BY <1>2, <1>3, <1>4

\* A lock is removed by its holder only.
LEMMA ReleaseStep ==
  ASSUME LockTypeOK, Undisturbed, NEW c \in Calls,
         Release(c) \/ Remove(c) \/ Confirm(c)
  PROVE  Undisturbed'
<1> USE DEF LockTypeOK, Files, Undisturbed, Holding, Moved, Fresh, Kept
<1>1. CASE Release(c)
  BY <1>1 DEF Release, Proceed
<1>2. CASE Remove(c)
  <2>1. lock = c /\ lock # None
    BY <1>2, LockNoneAssumption DEF Remove
  <2>2. \A d \in Calls : d # c => pc[d] \notin {"read", "write", "release", "remove"}
    BY <2>1
  <2> QED
    BY <1>2, <2>1, <2>2 DEF Remove, MoveAside, Proceed
<1>3. CASE Confirm(c)
  BY <1>3 DEF Confirm, Proceed
<1> QED
  BY <1>1, <1>2, <1>3

-----------------------------------------------------------------------------
\* Initially nobody holds or has written anything.
LEMMA LockInitial == LockInit => LockInv
  BY LockNoneAssumption
     DEF LockInit, LockInv, LockTypeOK, Files, Ends, Living, Judged, Undisturbed, Holding, Moved,
         Fresh, Kept

\* A mistake is never forgotten; until there is one, every step keeps Undisturbed.
LEMMA LockInvStep == LockInv /\ [LockNext]_lockVars => LockInv'
<1> SUFFICES ASSUME LockInv, [LockNext]_lockVars PROVE LockInv'
  OBVIOUS
<1>1. LockTypeOK' /\ Living' /\ Judged'
  BY LockTypeStep, LivingStep DEF LockInv
<1>2. ASSUME ~ mistaken' PROVE Undisturbed'
  <2>1. CASE \E c \in Calls : Update(c)
    <3> PICK c \in Calls : Update(c)
      BY <2>1
    <3>1. ~ mistaken
      BY <1>2 DEF Update, StartUpdate, TryCreate, InspectLock, Judge, Isolate, Verify, Restore,
                  Read, Write, Abandon, Release, Remove, Confirm
    <3>2. LockTypeOK /\ Undisturbed
      BY <3>1 DEF LockInv
    <3> QED
      BY <1>2, <3>1, <3>2, AcquireStep, IsolateStep, UpdateStep, ReleaseStep DEF Update
  <2>2. CASE \E p \in Owners : Die(p)
    BY <1>2, <2>2
       DEF Die, LockInv, LockTypeOK, Undisturbed, Holding, Moved, Fresh, Kept
  <2>3. CASE UNCHANGED lockVars
    BY <1>2, <2>3 DEF lockVars, LockInv, Undisturbed, Holding, Moved, Fresh, Kept
  <2> QED
    BY <2>1, <2>2, <2>3 DEF LockNext
<1> QED
  BY <1>1, <1>2 DEF LockInv

LEMMA LockInductive == LockSpec => []LockInv
BY LockInitial, LockInvStep, PTL DEF LockSpec

-----------------------------------------------------------------------------
\* Every reachable state is well typed.
THEOREM LockTypeCorrect == LockSpec => []LockTypeOK
<1>1. LockInv => LockTypeOK
  BY DEF LockInv
<1> QED
  BY <1>1, LockInductive, PTL

\* Until a call isolates a lock file it has not judged, updates exclude each other and
\* none is lost, whatever the order in which any number of calls wait for the lock, take
\* it, give up, release it, die with it and take it over from the dead.
THEOREM LockKeepsUpdates == LockSpec => []NoMistakeNoLoss
<1>1. LockInv => NoMistakeNoLoss
  BY DEF LockInv, Undisturbed, Holding, Kept, NoMistakeNoLoss, MutualExclusion, NoLostUpdate, Inside
<1> QED
  BY <1>1, LockInductive, PTL

\* Until then the ledger changes by one update at a time, and by addition: no step takes
\* an update out of it.
THEOREM LedgerGrows ==
  LockSpec => [][mistaken \/ ledger' = ledger \/ \E c \in Calls : ledger' = ledger \cup {c}]_lockVars
<1>1. LockInv /\ [LockNext]_lockVars
        => [mistaken \/ ledger' = ledger \/ \E c \in Calls : ledger' = ledger \cup {c}]_lockVars
  <2> SUFFICES ASSUME LockInv, LockNext, ~ mistaken, ledger' # ledger
               PROVE  \E c \in Calls : ledger' = ledger \cup {c}
    BY DEF lockVars
  <2>1. PICK c \in Calls : Write(c)
    BY DEF LockNext, Update, Die, StartUpdate, TryCreate, InspectLock, Judge, Isolate, Verify,
           Restore, Read, Abandon, Release, Remove, Confirm
  <2>2. draft[c] = ledger
    BY <2>1 DEF LockInv, Undisturbed, Fresh, Write
  <2> QED
    BY <2>1, <2>2 DEF Write
<1> QED
  BY <1>1, LockInductive, PTL DEF LockSpec

-----------------------------------------------------------------------------
(* The collections of metrics *)

\* A collection past its claim has a token, of a try that the ledger knows, and no
\* other collection has the same.
Tokens ==
    \A p \in Collectors :
        /\ collection[p].pc \in {"claimed", "funded", "invoked", "read", "stop"} =>
              collection[p].token \in Claims
        /\ collection[p].token # None =>
              metricAttempt.state # "none" /\ collection[p].token <= metricAttempt.retryCount
        /\ \A q \in Collectors : collection[p].token # None /\ p # q => collection[p].token # collection[q].token

\* Only a try under way is held, by its own token, and not once it is concluded.
Claimed ==
    /\ metricAttempt.claimToken = IF metricAttempt.state \in {"prepared", "invoking"}
                            THEN metricAttempt.retryCount ELSE None
    /\ \A c \in ConcludedClaims :
          metricAttempt.state # "none" /\ c <= metricAttempt.retryCount /\ c # metricAttempt.claimToken
    /\ snapshots # {} => metricAttempt.state = "recorded"

\* Whoever is at the platform holds the invoking attempt, or a person has concluded it.
Fenced ==
    \A p \in Collectors :
        /\ Reading(p) => \/ metricAttempt.state = "invoking" /\ Holds(p)
                         \/ collection[p].token \in ConcludedClaims
        /\ CollectionAt(p, "read") => collection[p].token \in reads

\* A review that is about to write a verified effect has seen the campaign paused.
Reviewed == \A a \in Effect \cap Auths : review[a].pc = "commit" => paused

MetricInv ==
    MetricTypeOK /\ Tokens /\ Claimed /\ Fenced /\ OneTrueSnapshot /\ Reviewed /\ PausedBeforeVerified

-----------------------------------------------------------------------------
LEMMA MetricInitial == MetricInit => MetricInv
<1> SUFFICES ASSUME MetricInit PROVE MetricInv
  OBVIOUS
<1> USE TriesAssumption, MetricNoneAssumption DEF MetricInit, Claims
<1>1. MetricTypeOK
  <2>1. metricAttempt \in Attempts
    BY DEF Attempts
  <2>2. collection \in [Collectors -> Collections \cup {NoCollection}]
    BY DEF NoCollection
  <2>3. review \in [Auths -> [pc : {"idle", "authorised", "commit"}, token : Claims \cup {None}]]
    BY DEF NoReview
  <2>4. metricStopped \in [Collectors -> BOOLEAN]
    OBVIOUS
  <2>5. lapsed \in BOOLEAN /\ metricLatch \in BOOLEAN /\ paused \in BOOLEAN
    OBVIOUS
  <2> QED
    BY <2>1, <2>2, <2>3, <2>4, <2>5 DEF MetricTypeOK
<1>2. Tokens /\ Fenced
  BY DEF Tokens, Fenced, Reading, CollectionAt, NoCollection
<1>3. Claimed /\ OneTrueSnapshot
  BY DEF Claimed, OneTrueSnapshot, ConcludedClaims
<1>4. Reviewed /\ PausedBeforeVerified
  BY DEF Reviewed, NoReview, PausedBeforeVerified
<1> QED
  BY <1>1, <1>2, <1>3, <1>4 DEF MetricInv

LEMMA CollectTypes ==
  ASSUME MetricTypeOK, Tokens, NEW p \in Collectors, Collect(p)
  PROVE  MetricTypeOK'
<1> USE TriesAssumption, MetricNoneAssumption DEF MetricTypeOK, Claims, CollectionAt, CollectionTo, EndCollection
<1>0. NoCollection \in Collections \cup {NoCollection}
  OBVIOUS
<1>1. \A state \in {"stopped", "blocked", "hard"} : Ended(p, state) \in Attempts
  BY DEF Ended, Attempts
<1>2. Noted \in Attempts /\ [metricAttempt EXCEPT !.state = "invoking"] \in Attempts
  BY DEF Noted, Attempts
<1>3. \A where \in {"start", "operational", "claimed", "funded", "invoked", "read", "stop", "pause"} :
         [collection EXCEPT ![p].pc = where] \in [Collectors -> Collections \cup {NoCollection}]
  BY DEF Collections, NoCollection
<1>4. [collection EXCEPT ![p] = NoCollection] \in [Collectors -> Collections \cup {NoCollection}]
  OBVIOUS
<1>5. CASE BeginCollection(p) \/ AssertOperational(p) \/ RefuseCollection(p)
  BY <1>5, <1>3, <1>4 DEF BeginCollection, AssertOperational, RefuseCollection
<1>6. CASE ClaimCheckpoint(p)
  <2>1. NextTry \in 0 .. MaxRetries
    <3>1. metricAttempt.retryCount \in 0 .. MaxRetries
      BY DEF Attempts
    <3>2. NextTry <= MaxRetries
      BY <1>6 DEF ClaimCheckpoint
    <3> QED
      BY <3>1, <3>2 DEF NextTry
  <2>0. lapsed' \in BOOLEAN
    BY <1>6, Zenon DEF ClaimCheckpoint
  <2>2. metricAttempt' \in Attempts
    BY <1>6, <2>1 DEF ClaimCheckpoint, Attempts
  <2>3. [collection EXCEPT ![p].pc = "claimed", ![p].token = NextTry]
           \in [Collectors -> Collections \cup {NoCollection}]
    <3>1. collection[p] \in Collections
      BY <1>6 DEF ClaimCheckpoint, NoCollection
    <3>2. [collection[p] EXCEPT !.pc = "claimed", !.token = NextTry] \in Collections
      BY <3>1, <2>1 DEF Collections
    <3> QED
      BY <3>2
  <2> QED
    BY <1>6, <1>4, <2>0, <2>2, <2>3 DEF ClaimCheckpoint
<1>7. CASE Prepare(p) \/ MetricApprovalLapsed(p) \/ FailCollection(p)
  BY <1>7, <1>1, <1>3, <1>4 DEF Prepare, MetricApprovalLapsed, FailCollection, Transact, TransactLast
<1>8. CASE InvokeMetrics(p)
  BY <1>8, <1>2, <1>3, <1>4 DEF InvokeMetrics, Transact
<1>9. CASE ReadOwnMetrics(p)
  <2>1. PICK answer \in {"values", "error", "hard"} :
           collection' = [collection EXCEPT ![p].pc = IF answer = "hard" THEN "stop" ELSE "read",
                              ![p].answer = answer]
    BY <1>9 DEF ReadOwnMetrics
  <2>2. collection[p] \in Collections
    BY <1>9 DEF ReadOwnMetrics, NoCollection
  <2>3. collection' \in [Collectors -> Collections \cup {NoCollection}] /\ collection[p].token \in Claims
    BY <2>1, <2>2, <1>9 DEF Collections, ReadOwnMetrics, Tokens
  <2> QED
    BY <1>9, <2>3 DEF ReadOwnMetrics
<1>10. CASE BlockHard(p)
  BY <1>10, <1>1 DEF BlockHard, Collections, NoCollection
<1>11. CASE PauseCampaign(p)
  <2>1. metricAttempt' \in {metricAttempt, Noted} /\ collection' = [collection EXCEPT ![p] = NoCollection]
    BY <1>11 DEF PauseCampaign
  <2>2. metricLatch' \in BOOLEAN /\ paused' \in BOOLEAN
    BY <1>11, Zenon DEF PauseCampaign, StopGateway
  <2>3. metricStopped' \in [Collectors -> BOOLEAN]
    BY <1>11 DEF PauseCampaign, StopGateway
  <2> QED
    BY <1>11, <1>2, <1>4, <2>1, <2>2, <2>3 DEF PauseCampaign
<1>12. CASE WriteSnapshot(p)
  <2>1. collection[p].token \in Claims
    BY <1>12 DEF WriteSnapshot, Tokens
  <2>2. [metricAttempt EXCEPT !.state = "recorded", !.claimToken = None] \in Attempts
    BY DEF Attempts
  <2>3. snapshots' \subseteq Claims /\ metricAttempt' \in Attempts
    BY <1>12, <2>1, <2>2 DEF WriteSnapshot
  <2> QED
    BY <1>12, <1>4, <2>3 DEF WriteSnapshot
<1> QED
  BY <1>5, <1>6, <1>7, <1>8, <1>9, <1>10, <1>11, <1>12 DEF Collect

\* What the step of a collection does, when it is no claim: it leaves the attempt as
\* it is, begins to invoke it or ends it, the last two only as its holder.
Advance(p) ==
    /\ \A q \in Collectors \ {p} : collection'[q] = collection[q]
    /\ collection'[p].token \in {collection[p].token, None}
    /\ collection'[p].pc \in {"claimed", "funded", "invoked", "read", "stop"} => collection'[p].token \in Claims
    /\ collection'[p].pc = "read" => collection'[p].token \in reads'
    /\ UNCHANGED <<concluded, review>> /\ reads \subseteq reads' /\ (paused => paused')
    /\ metricAttempt'.retryCount = metricAttempt.retryCount /\ metricAttempt'.recovery = metricAttempt.recovery
    /\ \/ /\ metricAttempt'.state = metricAttempt.state /\ metricAttempt'.claimToken = metricAttempt.claimToken
          /\ snapshots' = snapshots
          /\ Reading(p)' => Reading(p) /\ collection'[p].token = collection[p].token
       \/ /\ Holds(p) /\ collection[p].token \in Claims
          /\ metricAttempt.state = "prepared" /\ metricAttempt'.state = "invoking"
          /\ metricAttempt'.claimToken = metricAttempt.claimToken /\ snapshots' = snapshots
       \/ /\ Holds(p) /\ collection[p].token \in Claims
          /\ metricAttempt'.state \in {"stopped", "blocked", "hard", "recorded"}
          /\ metricAttempt'.claimToken = None /\ ~Reading(p)'
          /\ \/ snapshots' = snapshots
             \/ /\ metricAttempt.state = "invoking" /\ metricAttempt'.state = "recorded"
                /\ snapshots = {} /\ snapshots' = {collection[p].token}
                /\ collection[p].token \in reads

LEMMA AdvanceKeeps ==
  ASSUME MetricInv, MetricTypeOK', NEW p \in Collectors, Advance(p)
  PROVE  MetricInv' /\ (metricAttempt.state = "hard" => metricAttempt'.state = "hard")
<1> USE TriesAssumption, MetricNoneAssumption DEF MetricInv, Claims
<1>1. ConcludedClaims' = ConcludedClaims
  BY DEF Advance, ConcludedClaims
<1>2. Holds(p) /\ collection[p].token \in Claims =>
         /\ metricAttempt.state \in {"prepared", "invoking"}
         /\ metricAttempt.claimToken \notin ConcludedClaims /\ snapshots = {}
  BY DEF Holds, Claimed
<1>3. Tokens'
  BY <1>2 DEF Advance, Tokens
<1>4. Claimed'
  <2>1. ConcludedClaims \subseteq Claims
    BY DEF ConcludedClaims
  <2>2. metricAttempt'.claimToken = IF metricAttempt'.state \in {"prepared", "invoking"}
                              THEN metricAttempt'.retryCount ELSE None
    BY <1>2 DEF Advance, Claimed, Holds
  <2>3. \A c \in ConcludedClaims :
           metricAttempt'.state # "none" /\ c <= metricAttempt'.retryCount /\ c # metricAttempt'.claimToken
    BY <2>1 DEF Advance, Claimed
  <2>4. snapshots' # {} => metricAttempt'.state = "recorded"
    BY <1>2 DEF Advance, Claimed
  <2> QED
    BY <1>1, <2>2, <2>3, <2>4 DEF Claimed
<1>5. Fenced'
  BY <1>1, <1>2 DEF Advance, Fenced, Tokens, Reading, Holds, CollectionAt
<1>6. OneTrueSnapshot'
  BY <1>1, <1>2 DEF Advance, OneTrueSnapshot, Holds
<1>7. Reviewed' /\ PausedBeforeVerified'
  BY DEF Advance, Reviewed, PausedBeforeVerified
<1>8. metricAttempt.state = "hard" => metricAttempt'.state = "hard"
  BY <1>2 DEF Advance
<1> QED
  BY <1>3, <1>4, <1>5, <1>6, <1>7, <1>8

LEMMA CollectAdvances ==
  ASSUME MetricInv, NEW p \in Collectors, Collect(p) \/ CollectorCrash(p), ~ClaimCheckpoint(p)
  PROVE  Advance(p)
<1> USE TriesAssumption, MetricNoneAssumption DEF MetricInv, Claims, MetricTypeOK, CollectionAt, CollectionTo, EndCollection, Advance
<1>1. NoCollection.token = None /\ NoCollection.pc = "idle"
  BY DEF NoCollection
<1>2. collection[p].pc \in {"claimed", "funded", "invoked", "read", "stop"} => collection[p].token \in Claims
  BY DEF Tokens
<1>3. CollectionAt(p, "read") => collection[p].token \in reads
  BY DEF Fenced
<1>4. \A state \in {"stopped", "blocked", "hard"} :
         LET ended == Ended(p, state)
         IN  /\ ended.retryCount = metricAttempt.retryCount /\ ended.recovery = metricAttempt.recovery
             /\ \/ ended = metricAttempt
                \/ Holds(p) /\ ended.state = state /\ ended.claimToken = None
  BY DEF Ended, Attempts
<1>5. CASE BeginCollection(p) \/ AssertOperational(p) \/ RefuseCollection(p) \/ CollectorCrash(p)
  BY <1>5, <1>1, <1>2, <1>3 DEF BeginCollection, AssertOperational, RefuseCollection, CollectorCrash, Reading, Collections, NoCollection
<1>6. CASE Prepare(p) \/ MetricApprovalLapsed(p) \/ FailCollection(p)
  <2>1. collection[p].token \in Claims
    BY <1>2, <1>6 DEF Prepare, MetricApprovalLapsed, FailCollection
  <2>2. metricAttempt' \in {metricAttempt, Ended(p, "stopped"), Ended(p, "blocked")}
    BY <1>6 DEF Prepare, MetricApprovalLapsed, FailCollection, Transact, TransactLast
  <2>3. /\ \A q \in Collectors \ {p} : collection'[q] = collection[q]
        /\ \/ collection'[p].pc \in {"pause", "funded"} /\ collection'[p].token = collection[p].token
           \/ collection'[p] = NoCollection
    BY <1>6 DEF Prepare, MetricApprovalLapsed, FailCollection, Transact, TransactLast, Collections, NoCollection
  <2>4. UNCHANGED <<snapshots, reads, paused, review, concluded>>
    BY <1>6 DEF Prepare, MetricApprovalLapsed, FailCollection
  <2> QED
    BY <1>1, <1>4, <2>1, <2>2, <2>3, <2>4 DEF Reading
<1>7. CASE InvokeMetrics(p)
  <2>1. LET invoking == [metricAttempt EXCEPT !.state = "invoking"]
        IN  /\ invoking.state = "invoking" /\ invoking.claimToken = metricAttempt.claimToken
            /\ invoking.retryCount = metricAttempt.retryCount /\ invoking.recovery = metricAttempt.recovery
    BY DEF Attempts
  <2>2. collection[p].token \in Claims
    BY <1>2, <1>7 DEF InvokeMetrics
  <2>3. /\ \A q \in Collectors \ {p} : collection'[q] = collection[q]
        /\ \/ collection'[p].pc = "invoked" /\ collection'[p].token = collection[p].token
              /\ Holds(p) /\ metricAttempt.state = "prepared"
              /\ metricAttempt' = [metricAttempt EXCEPT !.state = "invoking"]
           \/ collection'[p] = NoCollection
    BY <1>7 DEF InvokeMetrics, Transact, Collections, NoCollection
  <2>4. \/ metricAttempt' = metricAttempt
        \/ /\ Holds(p) /\ metricAttempt.state = "prepared"
           /\ metricAttempt' = [metricAttempt EXCEPT !.state = "invoking"]
    BY <1>7 DEF InvokeMetrics, Transact
  <2> QED
    BY <1>1, <1>7, <2>1, <2>2, <2>3, <2>4 DEF InvokeMetrics, Reading
<1>8. CASE ReadOwnMetrics(p)
  <2>1. PICK answer \in {"values", "error", "hard"} :
           collection' = [collection EXCEPT ![p].pc = IF answer = "hard" THEN "stop" ELSE "read",
                              ![p].answer = answer]
    BY <1>8 DEF ReadOwnMetrics
  <2>2. /\ collection'[p].pc \in {"stop", "read"} /\ collection'[p].token = collection[p].token
        /\ \A q \in Collectors \ {p} : collection'[q] = collection[q]
    BY <2>1 DEF Collections, NoCollection
  <2>3. collection[p].token \in Claims /\ Reading(p)
    BY <1>2, <1>8 DEF ReadOwnMetrics, Reading
  <2> QED
    BY <1>8, <2>2, <2>3 DEF ReadOwnMetrics
<1>9. CASE BlockHard(p)
  <2>1. collection[p].token \in Claims
    BY <1>2, <1>9 DEF BlockHard
  <2>2. metricAttempt' \in {metricAttempt, Ended(p, "hard")}
    BY <1>9 DEF BlockHard
  <2>3. /\ \A q \in Collectors \ {p} : collection'[q] = collection[q]
        /\ collection'[p].pc = "pause" /\ collection'[p].token = collection[p].token
    BY <1>9 DEF BlockHard, Collections, NoCollection
  <2> QED
    BY <1>4, <1>9, <2>1, <2>2, <2>3 DEF BlockHard, Reading
<1>10. CASE PauseCampaign(p)
  <2>1. /\ Noted.state = metricAttempt.state /\ Noted.claimToken = metricAttempt.claimToken
        /\ Noted.retryCount = metricAttempt.retryCount /\ Noted.recovery = metricAttempt.recovery
    BY DEF Noted, Attempts
  <2>2. metricAttempt' \in {metricAttempt, Noted} /\ collection' = [collection EXCEPT ![p] = NoCollection]
    BY <1>10 DEF PauseCampaign
  <2>3. paused => paused'
    BY <1>10, Zenon DEF PauseCampaign
  <2> QED
    BY <1>10, <1>1, <2>1, <2>2, <2>3 DEF PauseCampaign, Reading
<1>11. CASE WriteSnapshot(p)
  BY <1>11, <1>1, <1>2, <1>3 DEF WriteSnapshot, Reading, Replays, Attempts
<1> QED
  BY <1>5, <1>6, <1>7, <1>8, <1>9, <1>10, <1>11 DEF Collect

\* A claim begins a try that nobody has begun before.
LEMMA ClaimKeeps ==
  ASSUME MetricInv, MetricTypeOK', NEW p \in Collectors, ClaimCheckpoint(p)
  PROVE  MetricInv' /\ (metricAttempt.state = "hard" => metricAttempt'.state = "hard")
<1> USE TriesAssumption, MetricNoneAssumption DEF MetricInv, Claims
<1>1. /\ metricAttempt'.state = "prepared" /\ metricAttempt'.retryCount = NextTry
      /\ metricAttempt'.claimToken = NextTry /\ metricAttempt'.recovery = None
  BY DEF ClaimCheckpoint
<1>2. /\ \A q \in Collectors \ {p} : collection'[q] = collection[q]
      /\ \/ collection'[p].pc = "claimed" /\ collection'[p].token = NextTry
         \/ collection'[p].pc = "idle" /\ collection'[p].token = None
  BY DEF ClaimCheckpoint, MetricTypeOK, Collections, NoCollection, EndCollection
<1>3. /\ UNCHANGED <<concluded, snapshots, reads, paused, review>>
      /\ snapshots = {} /\ metricAttempt.state \notin {"hard", "invoking"}
  BY DEF ClaimCheckpoint, Replays, Active
<1>4. NextTry \in Claims /\ (metricAttempt.state # "none" => metricAttempt.retryCount < NextTry)
  <2>1. metricAttempt.retryCount \in 0 .. MaxRetries /\ NextTry <= MaxRetries
    BY DEF MetricTypeOK, Attempts, ClaimCheckpoint
  <2> QED
    BY <2>1 DEF NextTry
<1>5. ConcludedClaims' = ConcludedClaims /\ ConcludedClaims \subseteq Claims
  BY <1>3 DEF ConcludedClaims
<1>6. \A q \in Collectors : collection[q].token # None =>
         collection[q].token \in Claims /\ collection[q].token < NextTry
  BY <1>4 DEF Tokens, MetricTypeOK, Collections, NoCollection, Attempts
<1>7. Tokens'
  BY <1>1, <1>2, <1>4, <1>6 DEF Tokens
<1>8. Claimed'
  BY <1>1, <1>3, <1>4, <1>5 DEF Claimed, MetricTypeOK, Attempts
<1>9. Fenced'
  BY <1>2, <1>3, <1>5 DEF Fenced, Reading, Holds, CollectionAt
<1>10. OneTrueSnapshot' /\ Reviewed' /\ PausedBeforeVerified'
  BY <1>1, <1>3, <1>5 DEF OneTrueSnapshot, Reviewed, PausedBeforeVerified
<1> QED
  BY <1>3, <1>7, <1>8, <1>9, <1>10

-----------------------------------------------------------------------------
(* The review of an invocation, and time *)

\* What a review does to the attempt: at most a note, or its conclusion.
LEMMA ReviewTypes ==
  ASSUME MetricTypeOK, Claimed, NEW a \in Auths,
         AuthoriseReview(a) \/ PauseFirst(a) \/ ConcludeReview(a) \/ ReviewLost(a)
  PROVE  MetricTypeOK'
<1> USE TriesAssumption, MetricNoneAssumption DEF MetricTypeOK, Claims
<1> DEFINE Reviews == [pc : {"idle", "authorised", "commit"}, token : Claims \cup {None}]
<1>1. Noted \in Attempts
  BY DEF Noted, Attempts
<1>2. NoReview \in Reviews /\ [review[a] EXCEPT !.pc = "commit"] \in Reviews
  BY DEF NoReview
<1>3. \A p \in Collectors : StopGateway(p) =>
         metricStopped' \in [Collectors -> BOOLEAN] /\ metricLatch' \in BOOLEAN
  <2> SUFFICES ASSUME NEW p \in Collectors, StopGateway(p)
               PROVE  metricStopped' \in [Collectors -> BOOLEAN] /\ metricLatch' \in BOOLEAN
    OBVIOUS
  <2>1. metricLatch' \in BOOLEAN
    BY Zenon DEF StopGateway
  <2>2. metricStopped' \in [Collectors -> BOOLEAN]
    BY DEF StopGateway
  <2> QED
    BY <2>1, <2>2
<1>4. CASE AuthoriseReview(a)
  BY <1>4 DEF AuthoriseReview, Attempts
<1>5. CASE PauseFirst(a)
  <2>1. paused' \in BOOLEAN
    BY <1>5, Zenon DEF PauseFirst
  <2>2. metricAttempt' \in Attempts
    BY <1>5, <1>1 DEF PauseFirst
  <2>4. \/ review' = [review EXCEPT ![a] = [review[a] EXCEPT !.pc = "commit"]]
        \/ review' = [review EXCEPT ![a] = NoReview]
    BY <1>5 DEF PauseFirst
  <2>5. review' \in [Auths -> Reviews]
    BY <1>2, <2>4
  <2>3. metricStopped' \in [Collectors -> BOOLEAN] /\ metricLatch' \in BOOLEAN
    BY <1>5, <1>3 DEF PauseFirst
  <2> QED
    BY <1>5, <2>1, <2>2, <2>3, <2>5 DEF PauseFirst
<1>6. CASE ConcludeReview(a)
  <2>1. /\ [metricAttempt EXCEPT !.state = "hard", !.recovery = a, !.claimToken = None] \in Attempts
        /\ [metricAttempt EXCEPT !.state = "failed", !.recovery = a, !.claimToken = None] \in Attempts
    BY DEF Attempts
  <2>4. metricAttempt' \in Attempts
    BY <1>6, <2>1 DEF ConcludeReview
  <2>5. review[a].token \in Claims \cup {None} /\ metricAttempt.claimToken \in Claims \cup {None}
    BY DEF Attempts
  <2>6. concluded' \subseteq Auths \X Claims
    BY <1>6, <2>5 DEF ConcludeReview, Unchanged, Claimed, Attempts
  <2>2. review' \in [Auths -> Reviews]
    BY <1>6, <1>2 DEF ConcludeReview
  <2>3. metricStopped' \in [Collectors -> BOOLEAN] /\ metricLatch' \in BOOLEAN
    BY <1>6, <1>3 DEF ConcludeReview
  <2> QED
    BY <1>6, <2>2, <2>3, <2>4, <2>6 DEF ConcludeReview
<1>7. CASE ReviewLost(a)
  BY <1>7, <1>2 DEF ReviewLost
<1> QED
  BY <1>4, <1>5, <1>6, <1>7

\* Who concludes a claim that is concluded already finds it no more.
LEMMA ConcludeWrites ==
  ASSUME MetricInv, NEW a \in Auths, ConcludeReview(a), concluded' = concluded
  PROVE  metricAttempt' = metricAttempt
<1>1. SUFFICES ASSUME metricAttempt.recovery = None, Unchanged(a),
                      concluded' = concluded \cup {<<a, review[a].token>>}
               PROVE  FALSE
  BY Zenon DEF ConcludeReview
<1>2. metricAttempt.claimToken \in Claims /\ <<a, metricAttempt.claimToken>> \in concluded
  BY <1>1 DEF Unchanged, MetricInv, MetricTypeOK, Attempts, Claimed
<1> QED
  BY <1>2 DEF ConcludedClaims, MetricInv, Claimed

\* A conclusion frees the attempt of the claim that it concludes, and of no other.
LEMMA ReviewKeeps ==
  ASSUME MetricInv, MetricTypeOK', NEW a \in Auths,
         AuthoriseReview(a) \/ PauseFirst(a) \/ ConcludeReview(a) \/ ReviewLost(a)
  PROVE  MetricInv' /\ (metricAttempt.state = "hard" => metricAttempt'.state = "hard")
<1> USE TriesAssumption, MetricNoneAssumption DEF MetricInv, Claims
<1>1. UNCHANGED <<collection, snapshots, reads>> /\ (paused => paused')
  <2>1. paused => paused'
    BY Zenon DEF AuthoriseReview, PauseFirst, ConcludeReview, ReviewLost
  <2> QED
    BY <2>1 DEF AuthoriseReview, PauseFirst, ConcludeReview, ReviewLost
<1>2. Reviewed'
  <2>1. \A b \in Auths \ {a} : review'[b] = review[b]
    BY DEF MetricTypeOK, AuthoriseReview, PauseFirst, ConcludeReview, ReviewLost
  <2>2. a \in Effect /\ review'[a].pc = "commit" => paused'
    <3>1. CASE AuthoriseReview(a)
      BY <3>1 DEF AuthoriseReview, MetricTypeOK
    <3>2. CASE PauseFirst(a)
      <4>1. paused' \/ review' = [review EXCEPT ![a] = NoReview]
        BY <3>2, Zenon DEF PauseFirst
      <4> QED
        BY <4>1 DEF MetricTypeOK, NoReview
    <3>3. CASE ConcludeReview(a) \/ ReviewLost(a)
      BY <3>3 DEF ConcludeReview, ReviewLost, MetricTypeOK, NoReview
    <3> QED
      BY <3>1, <3>2, <3>3
  <2> QED
    BY <1>1, <2>1, <2>2 DEF Reviewed
<1>3. CASE concluded' = concluded
  <2>1. /\ metricAttempt'.state = metricAttempt.state /\ metricAttempt'.claimToken = metricAttempt.claimToken
        /\ metricAttempt'.retryCount = metricAttempt.retryCount /\ metricAttempt'.recovery = metricAttempt.recovery
    <3>1. /\ Noted.state = metricAttempt.state /\ Noted.claimToken = metricAttempt.claimToken
          /\ Noted.retryCount = metricAttempt.retryCount /\ Noted.recovery = metricAttempt.recovery
      BY DEF Noted, MetricTypeOK, Attempts
    <3>2. metricAttempt' = metricAttempt \/ metricAttempt' = Noted
      BY <1>3, ConcludeWrites DEF AuthoriseReview, PauseFirst, ReviewLost
    <3> QED
      BY <3>1, <3>2
  <2>2. ConcludedClaims' = ConcludedClaims
    BY <1>3 DEF ConcludedClaims
  <2>3. Tokens' /\ Claimed' /\ Fenced'
    BY <1>1, <2>1, <2>2 DEF Tokens, Claimed, Fenced, Reading, Holds, CollectionAt
  <2>4. OneTrueSnapshot' /\ PausedBeforeVerified'
    BY <1>1, <2>1, <2>2 DEF OneTrueSnapshot, PausedBeforeVerified
  <2> QED
    BY <1>2, <2>1, <2>3, <2>4
<1>4. CASE concluded' # concluded
  <2>1. /\ ConcludeReview(a) /\ metricAttempt.state = "invoking" /\ metricAttempt.claimToken = review[a].token
        /\ concluded' = concluded \cup {<<a, review[a].token>>}
        /\ metricAttempt' = [metricAttempt EXCEPT !.state = IF a \in Effect THEN "hard" ELSE "failed",
                                      !.recovery = a, !.claimToken = None]
    BY <1>4 DEF AuthoriseReview, PauseFirst, ConcludeReview, ReviewLost, Unchanged
  <2>2. /\ metricAttempt'.state \in {"hard", "failed"} /\ metricAttempt'.claimToken = None
        /\ metricAttempt'.retryCount = metricAttempt.retryCount /\ metricAttempt'.recovery = a
    BY <2>1 DEF MetricTypeOK, Attempts
  <2>3. metricAttempt.claimToken \in Claims /\ metricAttempt.claimToken = metricAttempt.retryCount
    BY <2>1 DEF MetricTypeOK, Attempts, Claimed
  <2>4. /\ ConcludedClaims' = ConcludedClaims \cup {metricAttempt.claimToken}
        /\ ConcludedClaims' \subseteq Claims
    BY <2>1, <2>3 DEF ConcludedClaims
  <2>5. Tokens'
    BY <1>1, <2>2 DEF Tokens
  <2>6. Claimed'
    BY <1>1, <2>1, <2>2, <2>3, <2>4 DEF Claimed
  <2>7. Fenced'
    BY <1>1, <2>4 DEF Fenced, Reading, Holds, CollectionAt
  <2>8. OneTrueSnapshot'
    BY <1>1, <2>1, <2>4 DEF OneTrueSnapshot, Claimed
  <2>9. PausedBeforeVerified'
    BY <1>1, <2>1, <2>2 DEF PausedBeforeVerified, ConcludeReview, Reviewed
  <2> QED
    BY <1>2, <2>1, <2>5, <2>6, <2>7, <2>8, <2>9
<1> QED
  BY <1>3, <1>4

\* The invariant behind the theorems below, with what a step does to a hard stop.
LEMMA StepKeeps ==
  ASSUME MetricInv, [MetricNext]_metricVars
  PROVE  MetricInv' /\ (metricAttempt.state = "hard" => metricAttempt'.state = "hard")
<1>1. CASE UNCHANGED metricVars
  BY <1>1 DEF metricVars, MetricInv, MetricTypeOK, Tokens, Claimed, Fenced, OneTrueSnapshot, Reviewed,
              PausedBeforeVerified, ConcludedClaims, Reading, Holds, CollectionAt
<1>2. ASSUME NEW p \in Collectors, Collect(p) \/ CollectorCrash(p)
      PROVE  MetricInv' /\ (metricAttempt.state = "hard" => metricAttempt'.state = "hard")
  <2>1. MetricTypeOK'
    <3>1. CASE Collect(p)
      BY <3>1, CollectTypes DEF MetricInv
    <3>2. CASE CollectorCrash(p)
      BY <3>2 DEF CollectorCrash, EndCollection, MetricInv, MetricTypeOK
    <3> QED
      BY <1>2, <3>1, <3>2
  <2> QED
    BY <1>2, <2>1, CollectAdvances, AdvanceKeeps, ClaimKeeps
<1>3. ASSUME NEW a \in Auths, AuthoriseReview(a) \/ PauseFirst(a) \/ ConcludeReview(a) \/ ReviewLost(a)
      PROVE  MetricInv' /\ (metricAttempt.state = "hard" => metricAttempt'.state = "hard")
  <2>1. MetricTypeOK'
    BY <1>3, ReviewTypes DEF MetricInv
  <2> QED
    BY <1>3, <2>1, ReviewKeeps
<1>4. CASE ClaimExpires
  <2>1. UNCHANGED <<metricAttempt, snapshots, paused, collection, review, concluded, reads>> /\ lapsed'
    BY <1>4 DEF ClaimExpires
  <2>2. MetricTypeOK'
    BY <1>4 DEF ClaimExpires, MetricInv, MetricTypeOK
  <2> QED
    BY <2>1, <2>2 DEF MetricInv, Tokens, Claimed, Fenced, OneTrueSnapshot, Reviewed,
                      PausedBeforeVerified, ConcludedClaims, Reading, Holds, CollectionAt
<1> QED
  BY <1>1, <1>2, <1>3, <1>4 DEF MetricNext

LEMMA MetricInductive == MetricSpec => []MetricInv
<1>1. MetricInit => MetricInv
  BY MetricInitial
<1>2. MetricInv /\ [MetricNext]_metricVars => MetricInv'
  BY StepKeeps
<1> QED
  BY <1>1, <1>2, PTL DEF MetricSpec

\* Attempt, collections and reviews stay well typed.
THEOREM MetricTypeCorrect == MetricSpec => []MetricTypeOK
<1>1. MetricInv => MetricTypeOK
  BY DEF MetricInv
<1> QED
  BY <1>1, MetricInductive, PTL

\* The fence of an invoking attempt: two collections are at the platform only if
\* a person has concluded one of them.
THEOREM OneReaderAlways == MetricSpec => []OneReader
<1>1. MetricInv => OneReader
  BY MetricNoneAssumption DEF MetricInv, OneReader, Fenced, Tokens, Holds, Reading, Claims
<1> QED
  BY <1>1, MetricInductive, PTL

\* A checkpoint has one snapshot, read, and of no concluded invocation.
THEOREM SnapshotIsTrue == MetricSpec => []OneTrueSnapshot
<1>1. MetricInv => OneTrueSnapshot
  BY DEF MetricInv
<1> QED
  BY <1>1, MetricInductive, PTL

\* No step of any collection or review takes a hard stop back.
THEOREM HardStopStays == MetricSpec => HardStopIsFinal
<1>1. MetricInv /\ [MetricNext]_metricVars => [metricAttempt.state = "hard" => metricAttempt'.state = "hard"]_metricVars
  BY StepKeeps
<1> QED
  BY <1>1, MetricInductive, PTL DEF MetricSpec, HardStopIsFinal

\* A verified effect is in the ledger only under a campaign that Paperclip has paused.
THEOREM VerifiedIsPaused == MetricSpec => []PausedBeforeVerified
<1>1. MetricInv => PausedBeforeVerified
  BY DEF MetricInv
<1> QED
  BY <1>1, MetricInductive, PTL
=============================================================================
