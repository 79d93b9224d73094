-------------------------- MODULE SponsorshipsProofs --------------------------
(***************************************************************************)
(* Proofs about Sponsorships for every set of ids, users and jobs, every   *)
(* balance and chunk size and every bound.                                 *)
(***************************************************************************)
EXTENDS Sponsorships, FiniteSetTheorems, TLAPS

-----------------------------------------------------------------------------
(* The inductive invariant. *)

Authorised == signed \cup {events[i] : i \in 1..Len(events)}

\* A document has one half at least, does not expire when it has both, and each
\* half of an id comes from the one who has to give it.
GoodDoc(d, byApp, byUser) ==
  /\ d.auth \/ d.spend
  /\ Complete(d) => ~d.ttl
  /\ d.who \in Id => (d.auth => d.who \in byApp) /\ (d.spend => d.who \in byUser)

DocsInv == \A k \in DOMAIN docs : GoodDoc(docs[k], Authorised, asked)

\* The operation is on record, and a document it is going to complete lacked, when
\* it was read, what the operation gives.
ApplyInv ==
  /\ apply # Idle =>
       /\ apply.op.name = "Sponsor" /\ apply.op.who \in Id => apply.op.who \in signed
       /\ apply.op.name = "Spend Sponsorship" => apply.op.who \in asked
  /\ apply.step = "update" =>
       MayComplete(apply.op, apply.seen) /\ apply.seen.who = apply.op.who

\* A job looks at events that are there, and the document it is going to
\* authorise, if it is still there, is the one of its event.
JobInv(j) ==
  /\ job[j].step \in {"cursor", "work", "authorise"} =>
       job[j].at >= 1 /\ job[j].upto <= Len(events)
  /\ job[j].step = "authorise" =>
       /\ job[j].at <= job[j].upto
       /\ job[j].slot \in DOMAIN docs => docs[job[j].slot].who = events[job[j].at]

JobsInv == \A j \in Job : JobInv(j)

IInv == TypeOK /\ DocsInv /\ ApplyInv /\ JobsInv

-----------------------------------------------------------------------------
(* Type correctness. *)

\* What the apply service has read, by the step it is at.
LEMMA ApplyHolds ==
  ASSUME TypeOK
  PROVE  /\ apply.step = "put" => apply.op \in Request
         /\ apply.step \in {"find", "insert", "count"} =>
              apply \in [step : {"find", "insert", "count"}, op : Request, used : Nat]
         /\ apply.step = "update" =>
              apply \in [step : {"update"}, op : Request, used : Nat, slot : Slot, seen : Doc]
BY DEF TypeOK, ApplyState, Idle

\* What a job has read, by the step it is at.
LEMMA JobHolds ==
  ASSUME TypeOK, NEW j \in Job
  PROVE  /\ job[j].step = "events" => job[j].known \in Nat
         /\ job[j].step = "cursor" =>
              job[j] \in [step : {"cursor"}, known : Nat, at : Nat, upto : Nat, next : Nat]
         /\ job[j].step = "work" =>
              job[j] \in [step : {"work"}, known : Nat, at : Nat, upto : Nat, added : Nat]
         /\ job[j].step = "authorise" =>
              job[j] \in [step : {"authorise"}, slot : Slot \cup {-1}, known : Nat,
                          at : Nat, upto : Nat, added : Nat]
<1>1. job[j] \in JobState
  BY DEF TypeOK
<1>2. QED
  BY <1>1 DEF JobState, Idle

\* The record forms of the two processes, one at a time.
LEMMA ApplyForms ==
  ASSUME NEW op \in Request, NEW n \in Nat, NEW k \in Slot, NEW d \in Doc
  PROVE  /\ Idle \in ApplyState
         /\ [step |-> "put", op |-> op] \in ApplyState
         /\ [step |-> "find", op |-> op, used |-> n] \in ApplyState
         /\ [step |-> "insert", op |-> op, used |-> n] \in ApplyState
         /\ [step |-> "count", op |-> op, used |-> n] \in ApplyState
         /\ [step |-> "update", op |-> op, used |-> n, slot |-> k, seen |-> d] \in ApplyState
BY DEF ApplyState

LEMMA JobForms ==
  ASSUME NEW n \in Nat, NEW at \in Nat, NEW upto \in Nat, NEW next \in Nat,
         NEW k \in Slot \cup {-1}
  PROVE  /\ Idle \in JobState
         /\ [step |-> "events", known |-> n] \in JobState
         /\ [step |-> "cursor", known |-> n, at |-> at, upto |-> upto,
             next |-> next] \in JobState
         /\ [step |-> "work", known |-> n, at |-> at, upto |-> upto,
             added |-> next] \in JobState
         /\ [step |-> "authorise", slot |-> k, known |-> n, at |-> at, upto |-> upto,
             added |-> next] \in JobState
BY DEF JobState

\* A record of the right parts is a document.
LEMMA DocForm ==
  ASSUME NEW w \in Id \cup User, NEW a \in BOOLEAN, NEW b \in BOOLEAN, NEW c \in BOOLEAN
  PROVE  [who |-> w, auth |-> a, spend |-> b, ttl |-> c] \in Doc
BY DEF Doc

\* An inserted document leaves all documents documents.
LEMMA InsertKeepsDocs ==
  ASSUME DOMAIN docs \subseteq Slot, \A k \in DOMAIN docs : docs[k] \in Doc,
         NEW d \in Doc, Insert(d)
  PROVE  DOMAIN docs' \subseteq Slot /\ \A k \in DOMAIN docs' : docs'[k] \in Doc
BY DEF Insert, FreeSlots, With

\* A replaced document leaves all documents documents.
LEMMA WithKeepsDocs ==
  ASSUME DOMAIN docs \subseteq Slot, \A k \in DOMAIN docs : docs[k] \in Doc,
         NEW k \in Slot, NEW d \in Doc, docs' = With(k, d)
  PROVE  DOMAIN docs' \subseteq Slot /\ \A x \in DOMAIN docs' : docs'[x] \in Doc
BY DEF With

\* The steps of the apply service keep the types.
LEMMA ApplyKeepsType == ASSUME TypeOK, Apply PROVE TypeOK'
<1>1. CASE ReadApp
  <2>1. apply' \in ApplyState
    BY <1>1, ApplyHolds DEF ReadApp, ApplyState, TypeOK
  <2>2. QED
    BY <1>1, <2>1 DEF ReadApp, TypeOK, history
<1>2. CASE FindDoc
  <2>1. apply \in [step : {"find", "insert", "count"}, op : Request, used : Nat]
    BY <1>2, ApplyHolds DEF FindDoc
  <2>2. CASE Of(apply.op.who) = {}
    <3>1. apply' \in ApplyState
      BY <1>2, <2>1, <2>2 DEF FindDoc, ApplyState
    <3>2. QED
      BY <1>2, <3>1 DEF FindDoc, TypeOK, history
  <2>3. CASE Of(apply.op.who) # {}
    <3>1. PICK k \in Of(apply.op.who) :
            apply' = IF MayComplete(apply.op, docs[k])
                     THEN [step |-> "update", op |-> apply.op, used |-> apply.used,
                           slot |-> k, seen |-> docs[k]]
                     ELSE Idle
      BY <1>2, <2>3 DEF FindDoc
    <3>2. k \in Slot /\ docs[k] \in Doc
      BY <3>1 DEF Of, TypeOK
    <3>3. apply' \in ApplyState
      BY <2>1, <3>1, <3>2, ApplyForms
    <3>4. QED
      BY <1>2, <3>3 DEF FindDoc, TypeOK, history
  <2>4. QED
    BY <2>2, <2>3
<1>3. CASE InsertDoc
  <2> DEFINE d == [who |-> apply.op.who, auth |-> apply.op.name = "Sponsor",
                   spend |-> apply.op.name = "Spend Sponsorship", ttl |-> apply.op.who \in Id]
  <2>1. apply \in [step : {"find", "insert", "count"}, op : Request, used : Nat]
    BY <1>3, ApplyHolds DEF InsertDoc
  <2>2. d \in Doc
    <3>1. apply.op.who \in Id \cup User
      BY <2>1 DEF Request
    <3>2. /\ (apply.op.name = "Sponsor") \in BOOLEAN
          /\ (apply.op.name = "Spend Sponsorship") \in BOOLEAN
          /\ (apply.op.who \in Id) \in BOOLEAN
      OBVIOUS
    <3>3. QED
      BY <3>1, <3>2, DocForm
  <2>3. Insert(d)
    BY <1>3 DEF InsertDoc
  <2>4. DOMAIN docs' \subseteq Slot /\ \A k \in DOMAIN docs' : docs'[k] \in Doc
    BY <2>2, <2>3, InsertKeepsDocs DEF TypeOK
  <2>5. apply' \in ApplyState
    BY <1>3, <2>1 DEF InsertDoc, ApplyState
  <2>6. QED
    BY <1>3, <2>4, <2>5 DEF InsertDoc, TypeOK, history
<1>4. CASE UpdateDoc
  <2>1. apply \in [step : {"update"}, op : Request, used : Nat, slot : Slot, seen : Doc]
    BY <1>4, ApplyHolds DEF UpdateDoc
  <2>2. Completed(apply.seen) \in Doc
    BY <2>1 DEF Completed, Doc
  <2>3. DOMAIN docs' \subseteq Slot /\ \A k \in DOMAIN docs' : docs'[k] \in Doc
    <3>1. CASE docs' = With(apply.slot, Completed(apply.seen))
      BY <2>1, <2>2, <3>1, WithKeepsDocs DEF TypeOK
    <3>2. CASE docs' = docs
      BY <3>2 DEF TypeOK
    <3>3. QED
      BY <1>4, <3>1, <3>2 DEF UpdateDoc
  <2>4. apply' \in ApplyState
    <3>1. apply.op \in Request /\ apply.used \in Nat
      BY <2>1
    <3>2. \/ apply' = Idle
          \/ apply' = [step |-> "count", op |-> apply.op, used |-> apply.used]
          \/ apply' = [step |-> "put", op |-> apply.op]
      BY <1>4 DEF UpdateDoc
    <3>3. QED
      BY <3>1, <3>2 DEF ApplyState
  <2>5. QED
    BY <1>4, <2>3, <2>4 DEF UpdateDoc, TypeOK, history
<1>5. CASE CountUse
  <2>1. apply \in [step : {"find", "insert", "count"}, op : Request, used : Nat]
    BY <1>5, ApplyHolds DEF CountUse
  <2>2. apply' \in ApplyState
    BY <1>5, <2>1 DEF CountUse, ApplyState
  <2>3. used' \in Nat
    BY <1>5, <2>1 DEF CountUse, TypeOK
  <2>4. QED
    BY <1>5, <2>2, <2>3 DEF CountUse, TypeOK, history
<1>6. QED
  BY <1>1, <1>2, <1>3, <1>4, <1>5 DEF Apply

\* A job that goes from one of its states to another changes no other job.
LEMMA JobMoves ==
  ASSUME job \in [Job -> JobState], NEW j \in Job, NEW s \in JobState,
         job' = [job EXCEPT ![j] = s]
  PROVE  job' \in [Job -> JobState]
OBVIOUS

\* The steps of the jobs keep the types.
LEMMA JobKeepsType ==
  ASSUME TypeOK, JobsInv, NEW j \in Job, RunJob(j) \/ JobCrash(j)
  PROVE  TypeOK'
<1> USE SponsorshipsAssumption
<1>0. job \in [Job -> JobState] /\ events \in Seq(Id) /\ Len(events) \in Nat
  BY DEF TypeOK
<1>1. CASE StartJob(j)
  <2>1. [step |-> "events", known |-> used] \in JobState
    BY DEF TypeOK, JobState
  <2>2. job' \in [Job -> JobState]
    BY <1>0, <1>1, <2>1 DEF StartJob
  <2>3. QED
    BY <1>1, <2>2 DEF StartJob, TypeOK, history
<1>2. CASE ReadEvents(j)
  <2> DEFINE upto == SmallerOf(Len(events), cursor - RECHECK + CHUNK)
             at == LargerOf(1, cursor - RECHECK)
             s == [step |-> "cursor", known |-> job[j].known,
                   at |-> at, upto |-> upto, next |-> upto]
  <2>1. upto \in Nat /\ at \in Nat
    BY <1>0 DEF SmallerOf, LargerOf, TypeOK
  <2>2. job[j].known \in Nat
    BY <1>2, JobHolds DEF ReadEvents
  <2>3. s \in JobState
    BY <2>1, <2>2 DEF JobState
  <2>4. job' = [job EXCEPT ![j] = s]
    BY <1>2 DEF ReadEvents
  <2> HIDE DEF s
  <2>5. job' \in [Job -> JobState]
    BY <1>0, <2>3, <2>4
  <2>6. QED
    BY <1>2, <2>5 DEF ReadEvents, TypeOK, history
<1>3. CASE SaveCursor(j)
  <2> DEFINE s == [step |-> "work", known |-> job[j].known, at |-> job[j].at,
                   upto |-> job[j].upto, added |-> 0]
  <2>1. job[j] \in [step : {"cursor"}, known : Nat, at : Nat, upto : Nat, next : Nat]
    BY <1>3, JobHolds DEF SaveCursor
  <2>2. s \in JobState
    BY <2>1 DEF JobState
  <2>3. job' = [job EXCEPT ![j] = s]
    BY <1>3 DEF SaveCursor
  <2> HIDE DEF s
  <2>4. job' \in [Job -> JobState]
    BY <1>0, <2>2, <2>3
  <2>5. cursor' \in Nat
    BY <1>3, <2>1 DEF SaveCursor
  <2>6. QED
    BY <1>3, <2>4, <2>5 DEF SaveCursor, TypeOK, history
<1>4. CASE PassOver(j)
  <2>1. job[j] \in [step : {"work"}, known : Nat, at : Nat, upto : Nat, added : Nat]
    BY <1>4, JobHolds DEF PassOver, Working
  <2>2. NextEvent(j) \in JobState
    BY <2>1 DEF NextEvent, JobState
  <2>3. job' \in [Job -> JobState]
    BY <1>0, <1>4, <2>2 DEF PassOver
  <2>4. reached' \subseteq Nat
    BY <1>4, <2>1 DEF PassOver, TypeOK
  <2>5. QED
    BY <1>4, <2>3, <2>4 DEF PassOver, TypeOK, history
<1>5. CASE FindForEvent(j)
  <2>1. job[j] \in [step : {"work"}, known : Nat, at : Nat, upto : Nat, added : Nat]
    BY <1>5, JobHolds DEF FindForEvent, Working
  <2>2. PICK k \in Slot \cup {-1} :
          job' = [job EXCEPT ![j] =
            [step |-> "authorise", slot |-> k, known |-> job[j].known, at |-> job[j].at,
             upto |-> job[j].upto, added |-> job[j].added]]
    BY <1>5 DEF FindForEvent, Of, TypeOK
  <2> DEFINE s == [step |-> "authorise", slot |-> k, known |-> job[j].known,
                   at |-> job[j].at, upto |-> job[j].upto, added |-> job[j].added]
  <2>3. s \in JobState
    BY <2>1 DEF JobState
  <2>4. job' = [job EXCEPT ![j] = s]
    BY <2>2
  <2> HIDE DEF s
  <2>5. job' \in [Job -> JobState]
    BY <1>0, <2>3, <2>4
  <2>6. QED
    BY <1>5, <2>5 DEF FindForEvent, TypeOK, history
<1>6. CASE AuthoriseFirst(j) \/ AuthoriseSecond(j)
  <2>1. job[j] \in [step : {"authorise"}, slot : Slot \cup {-1}, known : Nat,
                    at : Nat, upto : Nat, added : Nat]
    BY <1>6, JobHolds DEF AuthoriseFirst, AuthoriseSecond
  <2>2. \A n \in Nat : Back(j, n) \in JobState
    BY <2>1 DEF Back, JobState
  <2>3. Idle \in JobState
    BY DEF JobState
  <2>4. job' \in [Job -> JobState] /\ reached' \subseteq Nat
    <3>1. PICK s \in JobState : job' = [job EXCEPT ![j] = s]
      BY <1>6, <2>1, <2>2, <2>3 DEF AuthoriseFirst, AuthoriseSecond
    <3>2. reached' \subseteq reached \cup {job[j].at}
      BY <1>6 DEF AuthoriseFirst, AuthoriseSecond
    <3>3. job' \in [Job -> JobState]
      BY <1>0, <3>1
    <3> QED  BY <2>1, <3>2, <3>3 DEF TypeOK
  <2>5. DOMAIN docs' \subseteq Slot /\ \A k \in DOMAIN docs' : docs'[k] \in Doc
    <3>1. CASE AuthoriseFirst(j)
      <4>1. job[j].at \in 1..Len(events)
        BY <1>0, <2>1, <3>1 DEF AuthoriseFirst, JobsInv, JobInv
      <4>2. events[job[j].at] \in Id
        BY <1>0, <4>1
      <4>3. [who |-> events[job[j].at], auth |-> TRUE, spend |-> FALSE, ttl |-> TRUE] \in Doc
        BY <4>2 DEF Doc
      <4>4. QED
        BY <3>1, <4>3, InsertKeepsDocs DEF AuthoriseFirst, TypeOK
    <3>2. CASE AuthoriseSecond(j)
      <4>1. CASE job[j].slot \in DOMAIN docs
        <5>1. [docs[job[j].slot] EXCEPT !.auth = TRUE, !.ttl = FALSE] \in Doc
          <6>1. docs[job[j].slot] \in Doc
            BY <4>1 DEF TypeOK
          <6> QED  BY <6>1 DEF Doc
        <5>2. docs' = With(job[j].slot, [docs[job[j].slot] EXCEPT !.auth = TRUE, !.ttl = FALSE])
          BY <3>2, <4>1 DEF AuthoriseSecond
        <5>3. QED
          BY <4>1, <5>1, <5>2, WithKeepsDocs DEF TypeOK
      <4>2. CASE job[j].slot \notin DOMAIN docs
        BY <3>2, <4>2 DEF AuthoriseSecond, TypeOK
      <4>3. QED
        BY <4>1, <4>2
    <3>3. QED
      BY <1>6, <3>1, <3>2
  <2>6. cut' \in BOOLEAN
    BY <1>6 DEF AuthoriseFirst, AuthoriseSecond, TypeOK
  <2>7. QED
    BY <1>6, <2>4, <2>5, <2>6 DEF AuthoriseFirst, AuthoriseSecond, TypeOK, history
<1>7. CASE AddUses(j)
  <2>1. job[j] \in [step : {"work"}, known : Nat, at : Nat, upto : Nat, added : Nat]
    BY <1>7, JobHolds DEF AddUses
  <2>2. job' \in [Job -> JobState]
    BY <1>0, <1>7 DEF AddUses, JobState
  <2>3. used' \in Nat
    BY <1>7, <2>1 DEF AddUses, TypeOK
  <2>4. fresh' \in BOOLEAN
    BY <1>7 DEF AddUses, TypeOK
  <2>5. QED
    BY <1>7, <2>2, <2>3, <2>4 DEF AddUses, TypeOK, history
<1>8. CASE JobCrash(j)
  <2>1. job' \in [Job -> JobState]
    BY <1>0, <1>8 DEF JobCrash, JobState
  <2>2. cut' \in BOOLEAN
    BY <1>8 DEF JobCrash, TypeOK, Working
  <2>3. QED
    BY <1>8, <2>1, <2>2 DEF JobCrash, TypeOK, history
<1>9. QED
  BY <1>1, <1>2, <1>3, <1>4, <1>5, <1>6, <1>7, <1>8 DEF RunJob

\* The steps of apps.py keep the types: there are finitely many documents.
LEMMA RecountKeepsType == ASSUME TypeOK, Recount PROVE TypeOK'
<1>1. IsFiniteSet({k \in DOMAIN docs : ~docs[k].ttl})
  BY SponsorshipsAssumption, FS_Subset DEF TypeOK
<1>2. Cardinality({k \in DOMAIN docs : ~docs[k].ttl}) \in Nat
  BY <1>1, FS_CardinalityType
<1>3. CASE CountDocs
  BY <1>2, <1>3 DEF CountDocs, TypeOK, history
<1>4. CASE WriteCount
  <2>1. recount.count \in Nat
    BY <1>4 DEF WriteCount, TypeOK, Idle
  <2>2. QED
    BY <1>4, <2>1 DEF WriteCount, TypeOK, history
<1>5. QED
  BY <1>3, <1>4 DEF Recount

\* A new operation keeps the types.
LEMMA PutKeepsType == ASSUME TypeOK, NEW op \in Request, Put(op) PROVE TypeOK'
<1>1. apply' \in ApplyState
  BY DEF Put, ApplyState
<1>2. signed' \subseteq Id
  BY DEF Put, TypeOK
<1>3. asked' \subseteq Id
  BY DEF Put, TypeOK, Request
<1>4. ops' \in Nat
  <2>1. ops' = ops + 1
    BY DEF Put
  <2>2. ops \in Nat
    BY DEF TypeOK
  <2>3. QED
    BY <2>1, <2>2
<1>5. UNCHANGED <<docs, used, fresh, events, cursor, job, recount, crashes, reached, cut>>
  BY DEF Put
<1>6. QED
  BY <1>1, <1>2, <1>3, <1>4, <1>5 DEF TypeOK

\* The initial state has the types.
LEMMA TypeInit == Init => TypeOK
<1> SUFFICES ASSUME Init PROVE TypeOK
  OBVIOUS
<1>1. DOMAIN docs = {}
  BY DEF Init
<1>2. job \in [Job -> JobState]
  BY DEF Init, JobState
<1>3. apply \in ApplyState
  BY DEF Init, ApplyState
<1>4. recount \in {Idle} \cup [step : {"write"}, count : Nat]
  BY DEF Init
<1>5. events \in Seq(Id)
  BY DEF Init
<1>6. QED
  BY <1>1, <1>2, <1>3, <1>4, <1>5 DEF Init, TypeOK

\* Every step keeps the types.
LEMMA TypeStep == ASSUME TypeOK, JobsInv, [Next]_vars PROVE TypeOK'
<1>1. ASSUME NEW op \in Request, Put(op) PROVE TypeOK'
  BY <1>1, PutKeepsType
<1>2. ASSUME NEW id \in Id, Emit(id) PROVE TypeOK'
  BY <1>2 DEF Emit, TypeOK, history
<1>3. ASSUME NEW k \in Slot, Expire(k) PROVE TypeOK'
  BY <1>3 DEF Expire, TypeOK, history
<1>4. CASE ApplyCrash
  <2>1. apply' \in ApplyState
    BY <1>4, ApplyHolds DEF ApplyCrash, ApplyState
  <2>2. QED
    BY <1>4, <2>1 DEF ApplyCrash, TypeOK, history
<1>5. CASE UNCHANGED vars
  BY <1>5 DEF vars, history, TypeOK
<1>6. QED
  BY <1>1, <1>2, <1>3, <1>4, <1>5, ApplyKeepsType, JobKeepsType, RecountKeepsType DEF Next

-----------------------------------------------------------------------------
(* The documents. *)

\* Operations and events, once there, stay.
LEMMA AuthorisedGrows ==
  ASSUME TypeOK, [Next]_vars
  PROVE  /\ Authorised \subseteq Authorised' /\ asked \subseteq asked'
         /\ Len(events) <= Len(events')
         /\ \A i \in 1..Len(events) : events'[i] = events[i]
<1>1. CASE UNCHANGED <<signed, asked, events>>
  BY <1>1 DEF Authorised, TypeOK
<1>2. ASSUME NEW op \in Request, Put(op) PROVE signed \subseteq signed' /\ asked \subseteq asked' /\ events' = events
  BY <1>2 DEF Put
<1>3. ASSUME NEW id \in Id, Emit(id)
      PROVE  /\ UNCHANGED <<signed, asked>> /\ Len(events) <= Len(events')
             /\ \A i \in 1..Len(events) : events'[i] = events[i]
  BY <1>3 DEF Emit, TypeOK, history
<1>4. \/ UNCHANGED <<signed, asked, events>>
      \/ \E op \in Request : Put(op)
      \/ \E id \in Id : Emit(id)
  BY DEF Next, Apply, Recount, RunJob, vars, history, ApplyCrash, Expire, ReadApp, FindDoc,
         InsertDoc, UpdateDoc, CountUse, StartJob, ReadEvents, SaveCursor, PassOver,
         FindForEvent, AuthoriseFirst, AuthoriseSecond, AddUses, JobCrash, CountDocs, WriteCount
<1>5. signed \subseteq signed' /\ asked \subseteq asked'
        /\ Len(events) <= Len(events') /\ \A i \in 1..Len(events) : events'[i] = events[i]
  BY <1>1, <1>2, <1>3, <1>4 DEF TypeOK
<1>6. Len(events) \in Nat /\ Len(events') \in Nat
  <2>1. events \in Seq(Id)
    BY DEF TypeOK
  <2>2. events' = events \/ \E id \in Id : events' = Append(events, id)
    BY <1>4 DEF Put, Emit
  <2>3. events' \in Seq(Id)
    BY <2>1, <2>2
  <2>4. QED
    BY <2>1, <2>3
<1>7. QED
  BY <1>5, <1>6 DEF Authorised

\* The three ways documents change: one that expires is gone, a good one is
\* inserted, or one is replaced by a good one of the same id, and by itself if it
\* was complete.
Removes(k) == docs[k].ttl /\ docs' = [x \in DOMAIN docs \ {k} |-> docs[x]]

Adds(k, d) == GoodDoc(d, Authorised, asked) /\ docs' = With(k, d)

Replaces(k, d) ==
  /\ GoodDoc(d, Authorised, asked) /\ docs' = With(k, d)
  /\ d.who = docs[k].who
  /\ Complete(docs[k]) => d = docs[k]

Writes ==
  \/ docs' = docs
  \/ \E k \in DOMAIN docs : Removes(k)
  \/ \E k \in FreeSlots, d \in Doc : Adds(k, d)
  \/ \E k \in DOMAIN docs, d \in Doc : Replaces(k, d)

\* db.sponsor inserts what its operation gives.
LEMMA InsertDocWrites == ASSUME IInv, InsertDoc PROVE Writes
<1> DEFINE d == [who |-> apply.op.who, auth |-> apply.op.name = "Sponsor",
                 spend |-> apply.op.name = "Spend Sponsorship", ttl |-> apply.op.who \in Id]
<1>1. apply \in [step : {"find", "insert", "count"}, op : Request, used : Nat]
  BY ApplyHolds DEF InsertDoc, IInv
<1>2. apply.op \in Request /\ apply # Idle
  <2>1. apply.step = "insert"
    BY DEF InsertDoc
  <2>2. QED
    BY <1>1, <2>1 DEF Idle
<1>3. d \in Doc
  <2>1. apply.op.who \in Id \cup User
    BY <1>2 DEF Request
  <2>2. /\ (apply.op.name = "Sponsor") \in BOOLEAN
        /\ (apply.op.name = "Spend Sponsorship") \in BOOLEAN
        /\ (apply.op.who \in Id) \in BOOLEAN
    OBVIOUS
  <2>3. QED
    BY <2>1, <2>2, DocForm
<1>4. /\ apply.op.name \in {"Sponsor", "Spend Sponsorship"}
      /\ apply.op.who \in User => apply.op.name = "Sponsor" /\ apply.op.who \notin Id
      /\ apply.op.who \notin User => apply.op.who \in Id
  BY <1>2, SponsorshipsAssumption DEF Request
<1>5. /\ d.who = apply.op.who
      /\ d.auth <=> apply.op.name = "Sponsor"
      /\ d.spend <=> apply.op.name = "Spend Sponsorship"
      /\ d.ttl <=> apply.op.who \in Id
  OBVIOUS
<1> HIDE DEF d
<1>6. GoodDoc(d, Authorised, asked)
  <2>1. d.auth \/ d.spend
    BY <1>4, <1>5
  <2>2. Complete(d) => ~d.ttl
    BY <1>4, <1>5 DEF Complete
  <2>3. d.who \in Id => (d.auth => d.who \in signed) /\ (d.spend => d.who \in asked)
    BY <1>2, <1>5 DEF IInv, ApplyInv
  <2>4. QED
    BY <2>1, <2>2, <2>3 DEF GoodDoc, Authorised
<1>7. Insert(d)
  BY DEF InsertDoc, d
<1>8. QED
  BY <1>3, <1>6, <1>7 DEF Writes, Adds, Insert

\* db.sponsor completes a document with what it lacked.
LEMMA UpdateDocWrites == ASSUME IInv, UpdateDoc PROVE Writes
<1> DEFINE k == apply.slot
           d == Completed(apply.seen)
<1>1. apply \in [step : {"update"}, op : Request, used : Nat, slot : Slot, seen : Doc]
  BY ApplyHolds DEF UpdateDoc, IInv
<1>2. CASE docs' = docs
  BY <1>2 DEF Writes
<1>3. CASE docs' # docs
  <2>1. k \in DOMAIN docs /\ docs[k] = apply.seen /\ docs' = With(k, d)
    BY <1>3 DEF UpdateDoc
  <2>2. apply.step = "update" /\ apply.op \in Request /\ apply.seen \in Doc /\ apply # Idle
    BY <1>1 DEF Idle
  <2>3. MayComplete(apply.op, docs[k]) /\ docs[k].who = apply.op.who
    BY <2>1, <2>2 DEF IInv, ApplyInv
  <2>4. /\ d.who = docs[k].who /\ d.auth = TRUE /\ d.spend = TRUE /\ d.ttl = FALSE
        /\ d \in Doc
    BY <2>1, <2>2 DEF Completed, Doc
  <2>5. GoodDoc(docs[k], Authorised, asked)
    BY <2>1 DEF IInv, DocsInv
  <2> HIDE DEF d
  <2>6. d.who \in Id => d.who \in Authorised /\ d.who \in asked
    <3>1. apply.op.name \in {"Sponsor", "Spend Sponsorship"}
      BY <2>2 DEF Request
    <3>2. CASE apply.op.name = "Sponsor"
      <4>1. ~docs[k].auth /\ docs[k].spend
        BY <2>3, <2>5, <3>2 DEF MayComplete, GoodDoc
      <4>2. apply.op.who \in Id => apply.op.who \in signed
        BY <2>2, <3>2 DEF IInv, ApplyInv
      <4>3. QED
        BY <2>3, <2>4, <2>5, <4>1, <4>2 DEF GoodDoc, Authorised
    <3>3. CASE apply.op.name = "Spend Sponsorship"
      <4>1. ~docs[k].spend /\ docs[k].auth
        BY <2>3, <2>5, <3>3 DEF MayComplete, GoodDoc
      <4>2. apply.op.who \in asked
        BY <2>2, <3>3 DEF IInv, ApplyInv
      <4>3. QED
        BY <2>3, <2>4, <2>5, <4>1, <4>2 DEF GoodDoc
    <3>4. QED
      BY <3>1, <3>2, <3>3
  <2>7. GoodDoc(d, Authorised, asked)
    BY <2>4, <2>6 DEF GoodDoc
  <2>8. ~Complete(docs[k])
    BY <2>3 DEF MayComplete
  <2>9. QED
    BY <2>1, <2>4, <2>7, <2>8 DEF Writes, Replaces
<1>4. QED
  BY <1>2, <1>3

\* The event a job works on is there, and authorises its id.
LEMMA JobEvent ==
  ASSUME IInv, NEW j \in Job, job[j].step = "authorise"
  PROVE  /\ job[j].at \in 1..Len(events) /\ events[job[j].at] \in Id
         /\ events[job[j].at] \in Authorised
<1>1. job[j] \in [step : {"authorise"}, slot : Slot \cup {-1}, known : Nat,
                  at : Nat, upto : Nat, added : Nat]
  BY JobHolds DEF IInv
<1>2. events \in Seq(Id) /\ Len(events) \in Nat
  BY DEF IInv, TypeOK
<1>3. job[j].at \in 1..Len(events)
  BY <1>1, <1>2 DEF IInv, JobsInv, JobInv
<1>4. QED
  BY <1>2, <1>3 DEF Authorised

\* A job inserts the half that its event gives.
LEMMA AuthoriseFirstWrites ==
  ASSUME IInv, NEW j \in Job, AuthoriseFirst(j) PROVE Writes
<1> DEFINE d == [who |-> events[job[j].at], auth |-> TRUE, spend |-> FALSE, ttl |-> TRUE]
<1>1. job[j].step = "authorise"
  BY DEF AuthoriseFirst
<1>2. events[job[j].at] \in Id /\ events[job[j].at] \in Authorised
  BY <1>1, JobEvent
<1>3. d \in Doc
  BY <1>2 DEF Doc
<1>4. GoodDoc(d, Authorised, asked)
  BY <1>2, SponsorshipsAssumption DEF GoodDoc, Complete
<1>5. Insert(d)
  BY DEF AuthoriseFirst
<1>6. QED
  BY <1>3, <1>4, <1>5 DEF Writes, Adds, Insert

\* A job authorises what its event names, and changes nothing that is complete.
LEMMA AuthoriseSecondWrites ==
  ASSUME IInv, NEW j \in Job, AuthoriseSecond(j) PROVE Writes
<1> DEFINE k == job[j].slot
           d == [docs[k] EXCEPT !.auth = TRUE, !.ttl = FALSE]
<1>1. CASE k \notin DOMAIN docs
  BY <1>1 DEF AuthoriseSecond, Writes
<1>2. CASE k \in DOMAIN docs
  <2>1. job[j].step = "authorise" /\ docs' = With(k, d)
    BY <1>2 DEF AuthoriseSecond
  <2>2. docs[k].who = events[job[j].at] /\ events[job[j].at] \in Authorised
    BY <1>2, <2>1, JobEvent DEF IInv, JobsInv, JobInv
  <2>3. docs[k] \in Doc /\ GoodDoc(docs[k], Authorised, asked)
    BY <1>2 DEF IInv, TypeOK, DocsInv
  <2>4. /\ d.who = docs[k].who /\ d.auth = TRUE /\ d.spend = docs[k].spend /\ d.ttl = FALSE
        /\ d \in Doc
    BY <2>3 DEF Doc
  <2>5. docs[k].auth = TRUE /\ docs[k].ttl = FALSE => d = docs[k]
    BY <2>3 DEF Doc
  <2>6. docs[k].auth \in BOOLEAN /\ docs[k].ttl \in BOOLEAN
    BY <2>3 DEF Doc
  <2> HIDE DEF d
  <2>7. GoodDoc(d, Authorised, asked)
    BY <2>2, <2>3, <2>4 DEF GoodDoc
  <2>8. Complete(docs[k]) => d = docs[k]
    BY <2>3, <2>5, <2>6 DEF GoodDoc, Complete
  <2>9. QED
    BY <1>2, <2>1, <2>4, <2>7, <2>8 DEF Writes, Replaces
<1>3. QED
  BY <1>1, <1>2

\* Every step changes the documents in one of these ways.
LEMMA StepWrites == ASSUME IInv, [Next]_vars PROVE Writes
<1>1. \/ docs' = docs
      \/ InsertDoc \/ UpdateDoc
      \/ \E k \in Slot : Expire(k)
      \/ \E j \in Job : AuthoriseFirst(j) \/ AuthoriseSecond(j)
  BY DEF Next, Apply, Recount, RunJob, vars, Put, Emit, ApplyCrash, ReadApp, FindDoc,
         CountUse, StartJob, ReadEvents, SaveCursor, PassOver, FindForEvent, AddUses,
         JobCrash, CountDocs, WriteCount
<1>2. ASSUME NEW k \in Slot, Expire(k) PROVE Writes
  BY <1>2 DEF Expire, Writes, Removes
<1>3. CASE docs' = docs
  BY <1>3 DEF Writes
<1>4. QED
  BY <1>1, <1>2, <1>3, InsertDocWrites, UpdateDocWrites, AuthoriseFirstWrites,
     AuthoriseSecondWrites

\* Documents stay good.
LEMMA DocsStep == ASSUME IInv, [Next]_vars PROVE DocsInv'
<1>1. Authorised \subseteq Authorised' /\ asked \subseteq asked'
  BY AuthorisedGrows DEF IInv
<1>2. \A d : GoodDoc(d, Authorised, asked) => GoodDoc(d, Authorised', asked')
  BY <1>1 DEF GoodDoc
<1>3. \A k \in DOMAIN docs' : GoodDoc(docs'[k], Authorised, asked)
  BY StepWrites DEF Writes, Removes, Adds, Replaces, With, IInv, DocsInv
<1>4. QED
  BY <1>2, <1>3 DEF DocsInv

-----------------------------------------------------------------------------
(* The apply service and the jobs. *)

\* A document in the place of one that a process holds is one of the same id.
LEMMA HeldKeepsWho ==
  ASSUME IInv, Writes, NEW k \in DOMAIN docs', k \notin FreeSlots
  PROVE  k \in DOMAIN docs /\ docs'[k].who = docs[k].who
BY DEF Writes, Removes, Adds, Replaces, With, FreeSlots, IInv, TypeOK

\* A job that does not move.
LEMMA JobRests ==
  ASSUME IInv, TypeOK', [Next]_vars, NEW j \in Job, job'[j] = job[j]
  PROVE  JobInv(j)'
<1>1. JobInv(j) /\ Len(events) <= Len(events') /\ Len(events') \in Nat /\ Len(events) \in Nat
        /\ \A i \in 1..Len(events) : events'[i] = events[i]
  BY AuthorisedGrows DEF IInv, JobsInv, TypeOK
<1>2. ASSUME job[j].step \in {"cursor", "work", "authorise"}
      PROVE  job[j].at \in Nat /\ job[j].upto \in Nat
  BY <1>2, JobHolds DEF IInv
<1>3. job[j].step \in {"cursor", "work", "authorise"} =>
        job'[j].at >= 1 /\ job'[j].upto <= Len(events')
  BY <1>1, <1>2 DEF JobInv
<1>4. ASSUME job[j].step = "authorise", job[j].slot \in DOMAIN docs'
      PROVE  docs'[job[j].slot].who = events'[job[j].at]
  <2>1. job[j].slot \in Slot
    BY <1>4 DEF TypeOK
  <2>2. job[j].slot \notin FreeSlots
    BY <1>4, <2>1 DEF FreeSlots, Held
  <2>3. job[j].slot \in DOMAIN docs /\ docs'[job[j].slot].who = docs[job[j].slot].who
    BY <1>4, <2>2, StepWrites, HeldKeepsWho
  <2>4. docs[job[j].slot].who = events[job[j].at]
    BY <1>1, <1>4, <2>3 DEF JobInv
  <2>5. QED
    BY <1>1, <1>4, <2>3, <2>4, JobEvent
<1>5. job[j].step = "authorise" => job'[j].at <= job'[j].upto
  BY <1>1 DEF JobInv
<1>6. QED
  BY <1>3, <1>4, <1>5 DEF JobInv

\* A job that moves.
LEMMA JobMovesWell ==
  ASSUME IInv, TypeOK', NEW j \in Job, RunJob(j) \/ JobCrash(j)
  PROVE  JobInv(j)'
<1> USE SponsorshipsAssumption
<1>0. /\ events \in Seq(Id) /\ Len(events) \in Nat /\ cursor \in Nat
      /\ job \in [Job -> JobState] /\ JobInv(j) /\ events' = events
  <2>1. events' = events
    BY DEF RunJob, StartJob, ReadEvents, SaveCursor, PassOver, FindForEvent,
           AuthoriseFirst, AuthoriseSecond, AddUses, JobCrash, history
  <2>2. QED
    BY <2>1 DEF IInv, TypeOK, JobsInv
<1>1. CASE StartJob(j) \/ AddUses(j) \/ JobCrash(j)
  <2>1. job' = [job EXCEPT ![j] = Idle] \/
          job' = [job EXCEPT ![j] = [step |-> "events", known |-> used]]
    BY <1>1 DEF StartJob, AddUses, JobCrash
  <2>2. job'[j] = Idle \/ job'[j] = [step |-> "events", known |-> used]
    BY <1>0, <2>1
  <2>3. job'[j].step \in {"idle", "events"}
    BY <2>2 DEF Idle
  <2>4. QED
    BY <2>3 DEF JobInv
<1>2. CASE ReadEvents(j)
  <2> DEFINE upto == SmallerOf(Len(events), cursor - RECHECK + CHUNK)
             at == LargerOf(1, cursor - RECHECK)
  <2>1. upto <= Len(events) /\ at >= 1
    BY <1>0 DEF SmallerOf, LargerOf
  <2>2. job'[j].step = "cursor" /\ job'[j].at = at /\ job'[j].upto = upto
    BY <1>0, <1>2 DEF ReadEvents
  <2>3. QED
    BY <1>0, <2>1, <2>2 DEF JobInv
<1>3. CASE SaveCursor(j)
  <2>1. job'[j].step = "work" /\ job'[j].at = job[j].at /\ job'[j].upto = job[j].upto
    BY <1>0, <1>3 DEF SaveCursor
  <2>2. QED
    BY <1>0, <1>3, <2>1 DEF SaveCursor, JobInv
<1>4. CASE PassOver(j)
  <2>1. job[j] \in [step : {"work"}, known : Nat, at : Nat, upto : Nat, added : Nat]
    BY <1>4, JobHolds DEF PassOver, Working, IInv
  <2>2. job'[j].step = "work" /\ job'[j].at = job[j].at + 1 /\ job'[j].upto = job[j].upto
    BY <1>0, <1>4, <2>1 DEF PassOver, NextEvent
  <2>3. QED
    BY <1>0, <2>1, <2>2 DEF JobInv
<1>5. CASE FindForEvent(j)
  <2>1. job[j] \in [step : {"work"}, known : Nat, at : Nat, upto : Nat, added : Nat]
    BY <1>5, JobHolds DEF FindForEvent, Working, IInv
  <2>2. job[j].at <= job[j].upto /\ docs' = docs
    BY <1>5 DEF FindForEvent, Working
  <2>3. /\ job'[j].step = "authorise" /\ job'[j].at = job[j].at /\ job'[j].upto = job[j].upto
        /\ job'[j].slot = -1 \/ job'[j].slot \in Of(events[job[j].at])
    BY <1>0, <1>5 DEF FindForEvent
  <2>4. -1 \notin DOMAIN docs
    BY DEF IInv, TypeOK
  <2>5. QED
    BY <1>0, <2>1, <2>2, <2>3, <2>4 DEF JobInv, Of
<1>6. CASE AuthoriseFirst(j) \/ AuthoriseSecond(j)
  <2>1. job[j] \in [step : {"authorise"}, slot : Slot \cup {-1}, known : Nat,
                    at : Nat, upto : Nat, added : Nat]
    BY <1>6, JobHolds DEF AuthoriseFirst, AuthoriseSecond, IInv
  <2>2. \/ job'[j].step = "idle"
        \/ /\ job'[j].step = "work" /\ job'[j].at = job[j].at + 1
           /\ job'[j].upto = job[j].upto
    BY <1>0, <1>6 DEF AuthoriseFirst, AuthoriseSecond, Back, Idle
  <2>3. QED
    BY <1>0, <2>1, <2>2 DEF JobInv
<1>7. QED
  BY <1>1, <1>2, <1>3, <1>4, <1>5, <1>6 DEF RunJob

\* Jobs stay at events that are there.
LEMMA JobsStep == ASSUME IInv, TypeOK', [Next]_vars PROVE JobsInv'
<1> SUFFICES ASSUME NEW j \in Job PROVE JobInv(j)'
  BY DEF JobsInv, JobInv
<1>1. CASE RunJob(j) \/ JobCrash(j)
  BY <1>1, JobMovesWell
<1>2. ASSUME NEW l \in Job, RunJob(l) \/ JobCrash(l), l # j PROVE job'[j] = job[j]
  <2>1. job \in [Job -> JobState]
    BY DEF IInv, TypeOK
  <2>2. QED
    BY <1>2, <2>1 DEF RunJob, StartJob, ReadEvents, SaveCursor, PassOver, FindForEvent,
           AuthoriseFirst, AuthoriseSecond, AddUses, JobCrash
<1>3. \/ job' = job
      \/ \E l \in Job : RunJob(l) \/ JobCrash(l)
  BY DEF Next, Apply, Recount, vars, Put, Emit, Expire, ApplyCrash, ReadApp, FindDoc,
         InsertDoc, UpdateDoc, CountUse, CountDocs, WriteCount
<1>4. QED
  BY <1>1, <1>2, <1>3, JobRests

\* The apply service keeps to its operation.
LEMMA ApplyInvStep == ASSUME IInv, [Next]_vars PROVE ApplyInv'
<1>1. CASE UNCHANGED <<apply, signed, asked>>
  BY <1>1 DEF IInv, ApplyInv
<1>2. ASSUME NEW op \in Request, Put(op) PROVE ApplyInv'
  <2>1. apply'.step = "put" /\ apply'.op = op
    BY <1>2 DEF Put
  <2>2. op.name = "Sponsor" /\ op.who \in Id => op.who \in signed'
    BY <1>2 DEF Put
  <2>3. op.name = "Spend Sponsorship" => op.who \in asked'
    BY <1>2 DEF Put
  <2>4. QED
    BY <2>1, <2>2, <2>3 DEF ApplyInv
<1>3. CASE Apply \/ ApplyCrash
  <2>1. signed' = signed /\ asked' = asked
    BY <1>3 DEF Apply, ReadApp, FindDoc, InsertDoc, UpdateDoc, CountUse, ApplyCrash, history
  <2>2. apply # Idle
    <3>1. apply.step = "put" \/ apply.step \in {"find", "insert", "update", "count"}
      BY <1>3, Zenon
         DEF Apply, ReadApp, FindDoc, InsertDoc, UpdateDoc, CountUse, ApplyCrash
    <3>2. QED
      BY <3>1 DEF Idle
  <2>3. CASE apply' = Idle
    BY <2>3 DEF ApplyInv, Idle
  <2>4. CASE apply'.op = apply.op /\ apply'.step # "update"
    BY <2>1, <2>2, <2>4 DEF IInv, ApplyInv
  <2>5. CASE FindDoc /\ Of(apply.op.who) # {}
    <3>1. PICK k \in Of(apply.op.who) :
            apply' = IF MayComplete(apply.op, docs[k])
                     THEN [step |-> "update", op |-> apply.op, used |-> apply.used,
                           slot |-> k, seen |-> docs[k]]
                     ELSE Idle
      BY <2>5 DEF FindDoc
    <3>2. CASE ~MayComplete(apply.op, docs[k])
      BY <2>3, <3>1, <3>2
    <3>3. CASE MayComplete(apply.op, docs[k])
      <4>1. /\ apply'.op = apply.op /\ apply'.seen = docs[k]
            /\ docs[k].who = apply.op.who
        BY <3>1, <3>3 DEF Of
      <4>2. QED
        BY <2>1, <2>2, <3>3, <4>1 DEF IInv, ApplyInv
    <3>4. QED
      BY <3>2, <3>3
  <2>6. \/ apply' = Idle
        \/ apply'.op = apply.op /\ apply'.step # "update"
        \/ FindDoc /\ Of(apply.op.who) # {}
    <3>1. CASE ReadApp \/ UpdateDoc \/ CountUse \/ ApplyCrash
      BY <3>1 DEF ReadApp, UpdateDoc, CountUse, ApplyCrash
    <3>2. CASE InsertDoc \/ FindDoc
      <4>1. apply \in [step : {"find", "insert", "count"}, op : Request, used : Nat]
        BY <3>2, ApplyHolds DEF InsertDoc, FindDoc, IInv
      <4>2. CASE InsertDoc
        <5>1. apply' = Idle \/ apply' = [apply EXCEPT !.step = "count"]
          BY <4>2 DEF InsertDoc
        <5>2. QED
          BY <4>1, <5>1
      <4>3. CASE FindDoc
        <5>1. apply' = [apply EXCEPT !.step = "insert"] \/ Of(apply.op.who) # {}
          BY <4>3 DEF FindDoc
        <5>2. QED
          BY <4>1, <4>3, <5>1
      <4>4. QED
        BY <3>2, <4>2, <4>3
    <3>3. QED
      BY <1>3, <3>1, <3>2 DEF Apply
  <2>7. QED
    BY <2>3, <2>4, <2>5, <2>6
<1>4. \/ UNCHANGED <<apply, signed, asked>> \/ Apply \/ ApplyCrash
      \/ \E op \in Request : Put(op)
  BY DEF Next, Recount, RunJob, vars, history, Emit, Expire, StartJob, ReadEvents, SaveCursor,
         PassOver, FindForEvent, AuthoriseFirst, AuthoriseSecond, AddUses, JobCrash, CountDocs,
         WriteCount
<1>5. QED
  BY <1>1, <1>2, <1>3, <1>4

-----------------------------------------------------------------------------
(* The theorems. *)

\* The invariant holds initially ...
LEMMA IInvInit == Init => IInv
<1> SUFFICES ASSUME Init PROVE IInv
  OBVIOUS
<1>1. DOMAIN docs = {} /\ apply.step = "idle" /\ apply = Idle
  BY DEF Init, Idle
<1>2. \A j \in Job : job[j].step = "idle"
  BY DEF Init, Idle
<1>3. QED
  BY <1>1, <1>2, TypeInit DEF IInv, DocsInv, ApplyInv, JobsInv, JobInv

\* ... and in every step.
LEMMA IInvStep == IInv /\ [Next]_vars => IInv'
<1> SUFFICES ASSUME IInv, [Next]_vars PROVE IInv'
  OBVIOUS
<1>1. TypeOK'
  BY TypeStep DEF IInv
<1>2. QED
  BY <1>1, DocsStep, ApplyInvStep, JobsStep DEF IInv

\* Every variable keeps its type: what an event names is there when a job comes
\* to it.
THEOREM TypeCorrect == Spec => []TypeOK
<1>1. IInv => TypeOK
  BY DEF IInv
<1>2. QED
  BY <1>1, IInvInit, IInvStep, PTL DEF Spec

\* Whatever the order of the operations, the jobs and the TTL index, an id that is
\* sponsored has been authorised by its app and asked for by its user.
THEOREM Entitled == Spec => []SponsoredAreEntitled
<1>1. IInv => SponsoredAreEntitled
  <2> SUFFICES ASSUME IInv, NEW k \in Sponsored, docs[k].who \in Id
               PROVE  docs[k].who \in Authorised /\ docs[k].who \in asked
    BY DEF SponsoredAreEntitled, Authorised
  <2>1. docs[k].auth /\ docs[k].spend /\ k \in DOMAIN docs
    BY SponsorshipsAssumption DEF Sponsored, Complete
  <2>2. QED
    BY <2>1 DEF IInv, DocsInv, GoodDoc
<1>2. QED
  BY <1>1, IInvInit, IInvStep, PTL DEF Spec

\* No step of any of them takes a sponsorship back or changes it.
THEOREM Permanent == Spec => SponsoredForEver
<1>1. ASSUME IInv, [Next]_vars, NEW k \in Sponsored
      PROVE  k \in DOMAIN docs' /\ docs'[k] = docs[k]
  <2>1. k \in DOMAIN docs /\ Complete(docs[k]) /\ ~docs[k].ttl
    BY <1>1 DEF Sponsored, IInv, DocsInv, GoodDoc
  <2>2. Writes
    BY <1>1, StepWrites
  <2>3. QED
    BY <2>1, <2>2 DEF Writes, Removes, Adds, Replaces, With, FreeSlots
<1>2. IInv /\ [Next]_vars => \A k \in Sponsored : k \in DOMAIN docs' /\ docs'[k] = docs[k]
  BY <1>1
<1>3. QED
  BY <1>2, IInvInit, IInvStep, PTL DEF Spec, SponsoredForEver

=============================================================================
