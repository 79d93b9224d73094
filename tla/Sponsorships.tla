----------------------------- MODULE Sponsorships -----------------------------
(***************************************************************************)
(* The sponsorships of one app on one node.                                *)
(*                                                                         *)
(* A user of an app is sponsored when the app has authorised it and the    *)
(* user has asked for it, in either order; a BrightID user can also ask    *)
(* for it with an operation of their own.  The app authorises with a       *)
(* Sponsor operation or with an event of its contract.  So two programs    *)
(* write the same documents, each with a read followed by a write:         *)
(*                                                                         *)
(*   - db.sponsor, in the apply service, one operation at a time;          *)
(*   - sponsorships.py, started by cron every minute, whether or not the   *)
(*     one before has ended;                                               *)
(*                                                                         *)
(* while a TTL index removes documents that stay half done, and apps.py    *)
(* rewrites the number of used sponsorships from a count.                  *)
(***************************************************************************)
EXTENDS Integers, Sequences, FiniteSets

CONSTANTS
  Id,          \* the app generated ids of users
  User,        \* the BrightID users who sponsor themselves, all verified
  Job,         \* the runs of sponsorships.py that overlap
  Total,       \* app.totalSponsorships
  CHUNK,       \* how many blocks a job reads
  RECHECK,     \* RECHECK_CHUNK, how many of them have been read before
  Slot,        \* bound: the keys of documents
  MaxOps,      \* bound: operations
  MaxEvents,   \* bound: events of the contract
  MaxCrashes   \* bound: errors and stops of a job or the apply service

ASSUME SponsorshipsAssumption ==
  /\ Id \cap User = {}
  /\ Total \in Nat
  /\ RECHECK \in Nat /\ CHUNK \in Nat /\ RECHECK < CHUNK
  /\ Slot \subseteq Nat /\ IsFiniteSet(Slot)

VARIABLES
  docs,     \* the documents of `sponsorships', by key
  used,     \* app.usedSponsorships
  fresh,    \* whether the app document is as the apply service has read it
  apply,    \* the operation in the apply service, and what it has read
  events,   \* the events of the contract, one per block
  cursor,   \* LAST_BLOCK_LOG
  job,      \* the runs of sponsorships.py
  recount,  \* the run of apps.py
  ops, crashes,  \* what the bounds count
  signed, asked, \* history: the ids of Sponsor and Spend Sponsorship operations
  reached,  \* history: the events a job has come to
  cut       \* history: whether a job ended before its last event

history == <<signed, asked, reached, cut>>
vars == <<docs, used, fresh, apply, events, cursor, job, recount, ops, crashes, history>>

Request == [name : {"Sponsor", "Spend Sponsorship"}, who : Id]
             \cup [name : {"Sponsor"}, who : User]
Doc     == [who : Id \cup User, auth : BOOLEAN, spend : BOOLEAN, ttl : BOOLEAN]
Idle    == [step |-> "idle"]

-----------------------------------------------------------------------------
Of(who) == {k \in DOMAIN docs : docs[k].who = who}

\* appHasAuthorized and spendRequested, or the document of a BrightID user.
Complete(d) == d.auth /\ (d.spend \/ d.who \in User)

Sponsored == {k \in DOMAIN docs : Complete(docs[k])}

With(k, d) == [x \in DOMAIN docs \cup {k} |-> IF x = k THEN d ELSE docs[x]]

\* Keys are never used again: none that a process still holds is free.
Held == {k \in Slot :
           \/ apply.step = "update" /\ apply.slot = k
           \/ \E j \in Job : job[j].step = "authorise" /\ job[j].slot = k}

FreeSlots == Slot \ (DOMAIN docs \cup Held)

Insert(d) == \E k \in FreeSlots : /\ \A x \in FreeSlots : k <= x
                                 /\ docs' = With(k, d)

Init ==
  /\ docs = [k \in {} |-> {}]
  /\ used = 0 /\ fresh = FALSE
  /\ apply = Idle
  /\ events = <<>> /\ cursor = 0
  /\ job = [j \in Job |-> Idle]
  /\ recount = Idle
  /\ ops = 0 /\ crashes = 0
  /\ signed = {} /\ asked = {} /\ reached = {} /\ cut = FALSE

-----------------------------------------------------------------------------
(* operationsPut for Sponsor and Spend Sponsorship.  The receiver sends one *)
(* operation at a time and sends it again after a revision conflict.        *)

Put(op) ==
  /\ apply = Idle
  /\ ops < MaxOps
  /\ ops' = ops + 1
  /\ apply' = [step |-> "put", op |-> op]
  /\ signed' = IF op.name = "Sponsor" /\ op.who \in Id THEN signed \cup {op.who} ELSE signed
  /\ asked' = IF op.name = "Spend Sponsorship" THEN asked \cup {op.who} ELSE asked
  /\ UNCHANGED <<docs, used, fresh, events, cursor, job, recount, crashes, reached, cut>>

\* Sponsor is refused after the user has been sponsored (isSponsoredByAppUserId,
\* in verify) or when nothing is unused (in sponsor).
Refused(op) ==
  /\ op.name = "Sponsor" /\ op.who \in Id
  /\ Of(op.who) \cap Sponsored # {} \/ Total - used < 1

\* verify, and appsColl.document.
ReadApp ==
  /\ apply.step = "put"
  /\ IF Refused(apply.op)
     THEN apply' = Idle /\ UNCHANGED fresh
     ELSE /\ apply' = [step |-> "find", op |-> apply.op, used |-> used]
          /\ fresh' = TRUE
  /\ UNCHANGED <<docs, used, events, cursor, job, recount, ops, crashes, history>>

\* A sponsor that does not refuse what has been requested before.
MayCompleteTwice(op, d) == ~Complete(d)

\* SponsoredBeforeError, AppAuthorizedBeforeError, SpendRequestedBeforeError
MayComplete(op, d) ==
  /\ ~Complete(d)
  /\ op.name = "Sponsor" => ~d.auth
  /\ op.name = "Spend Sponsorship" => ~d.spend

\* sponsorshipsColl.firstExample: the order of two documents is not defined.
FindDoc ==
  /\ apply.step = "find"
  /\ LET op == apply.op
     IN  IF Of(op.who) = {}
         THEN apply' = [apply EXCEPT !.step = "insert"]
         ELSE \E k \in Of(op.who) :
                apply' = IF MayComplete(op, docs[k])
                         THEN [step |-> "update", op |-> op, used |-> apply.used,
                               slot |-> k, seen |-> docs[k]]
                         ELSE Idle
  /\ UNCHANGED <<docs, used, fresh, events, cursor, job, recount, ops, crashes, history>>

\* An insert without the attribute expireDate.
InsertUndated ==
  /\ apply.step = "insert"
  /\ LET op == apply.op
     IN  /\ Insert([who |-> op.who, auth |-> op.name = "Sponsor",
                    spend |-> op.name = "Spend Sponsorship"])
         /\ apply' = IF op.who \in Id THEN Idle ELSE [apply EXCEPT !.step = "count"]
  /\ UNCHANGED <<used, fresh, events, cursor, job, recount, ops, crashes, history>>

\* The first half of a sponsorship, which expires after an hour, or the whole
\* one of a BrightID user.
InsertDoc ==
  /\ apply.step = "insert"
  /\ LET op == apply.op
     IN  /\ Insert([who |-> op.who, auth |-> op.name = "Sponsor",
                    spend |-> op.name = "Spend Sponsorship", ttl |-> op.who \in Id])
         /\ apply' = IF op.who \in Id THEN Idle ELSE [apply EXCEPT !.step = "count"]
  /\ UNCHANGED <<used, fresh, events, cursor, job, recount, ops, crashes, history>>

\* An update that leaves the expireDate of the first half in place.
CompletedWithTtl(d) == [d EXCEPT !.auth = TRUE, !.spend = TRUE]

Completed(d) == [d EXCEPT !.auth = TRUE, !.spend = TRUE, !.ttl = FALSE]

\* sponsorshipsColl.update: a document that has changed since it was read is a
\* conflict, and the operation is put again; one that has expired is an error.
UpdateDoc ==
  /\ apply.step = "update"
  /\ IF apply.slot \notin DOMAIN docs
     THEN apply' = Idle /\ UNCHANGED docs
     ELSE IF docs[apply.slot] = apply.seen
     THEN /\ docs' = With(apply.slot, Completed(apply.seen))
          /\ apply' = [step |-> "count", op |-> apply.op, used |-> apply.used]
     ELSE apply' = [step |-> "put", op |-> apply.op] /\ UNCHANGED docs
  /\ UNCHANGED <<used, fresh, events, cursor, job, recount, ops, crashes, history>>

\* appsColl.update.  After a conflict the operation is put again and fails,
\* because its sponsorship exists: the use is not counted.
CountUse ==
  /\ apply.step = "count"
  /\ IF fresh
     THEN used' = apply.used + 1 /\ apply' = Idle
     ELSE apply' = [step |-> "put", op |-> apply.op] /\ UNCHANGED used
  /\ UNCHANGED <<docs, fresh, events, cursor, job, recount, ops, crashes, history>>

\* The receiver or the database stops: the operation is put again.
ApplyCrash ==
  /\ crashes < MaxCrashes
  /\ apply.step \in {"find", "insert", "update", "count"}
  /\ apply' = [step |-> "put", op |-> apply.op]
  /\ crashes' = crashes + 1
  /\ UNCHANGED <<docs, used, fresh, events, cursor, job, recount, ops, history>>

\* The TTL index.
Expire(k) ==
  /\ k \in DOMAIN docs /\ docs[k].ttl
  /\ docs' = [x \in DOMAIN docs \ {k} |-> docs[x]]
  /\ UNCHANGED <<used, fresh, apply, events, cursor, job, recount, ops, crashes, history>>

-----------------------------------------------------------------------------
(* sponsorships.py *)

\* The contract of the app emits Sponsor(id) in a new block.
Emit(id) ==
  /\ Len(events) < MaxEvents
  /\ events' = Append(events, id)
  /\ UNCHANGED <<docs, used, fresh, apply, cursor, job, recount, ops, crashes, history>>

\* update: the query of the apps.
StartJob(j) ==
  /\ job[j] = Idle
  /\ job' = [job EXCEPT ![j] = [step |-> "events", known |-> used]]
  /\ UNCHANGED <<docs, used, fresh, apply, events, cursor, recount, ops, crashes, history>>

SmallerOf(m, n) == IF m < n THEN m ELSE n
LargerOf(m, n)  == IF m < n THEN n ELSE m

\* A check_events that stops before its last block.
ReadEventsExclusive(j) ==
  /\ job[j].step = "events"
  /\ LET upto == SmallerOf(Len(events), cursor - RECHECK + CHUNK)
     IN  job' = [job EXCEPT ![j] =
           [step |-> "cursor", known |-> job[j].known,
            at |-> LargerOf(1, cursor - RECHECK), upto |-> LargerOf(0, upto - 1),
            next |-> upto]]
  /\ UNCHANGED <<docs, used, fresh, apply, events, cursor, recount, ops, crashes, history>>

\* check_events. The chain of the model never falls behind the saved block, so the branch
\* for tb < fb is not taken.
ReadEvents(j) ==
  /\ job[j].step = "events"
  /\ LET upto == SmallerOf(Len(events), cursor - RECHECK + CHUNK)
     IN  job' = [job EXCEPT ![j] =
           [step |-> "cursor", known |-> job[j].known,
            at |-> LargerOf(1, cursor - RECHECK), upto |-> upto, next |-> upto]]
  /\ UNCHANGED <<docs, used, fresh, apply, events, cursor, recount, ops, crashes, history>>

\* update_app saves the cursor before it has looked at any event.
SaveCursor(j) ==
  /\ job[j].step = "cursor"
  /\ cursor' = job[j].next
  /\ job' = [job EXCEPT ![j] =
       [step |-> "work", known |-> job[j].known, at |-> job[j].at,
        upto |-> job[j].upto, added |-> 0]]
  /\ UNCHANGED <<docs, used, fresh, apply, events, recount, ops, crashes, history>>

Working(j) == job[j].step = "work" /\ job[j].at <= job[j].upto

NextEvent(j) == [job[j] EXCEPT !.at = @ + 1]

\* An event is passed over when the app has nothing unused (as the job has read
\* it) or the id has been authorised before.
PassOver(j) ==
  /\ Working(j)
  /\ \/ Total - (job[j].known + job[j].added) < 1
     \/ \E k \in Of(events[job[j].at]) : docs[k].auth
  /\ reached' = reached \cup {job[j].at}
  /\ job' = [job EXCEPT ![j] = NextEvent(j)]
  /\ UNCHANGED <<docs, used, fresh, apply, events, cursor, recount, ops, crashes,
                 signed, asked, cut>>

\* sponsor: the read.
FindForEvent(j) ==
  /\ Working(j)
  /\ Total - (job[j].known + job[j].added) >= 1
  /\ LET mine == Of(events[job[j].at])
         goOn(step, k) == [step |-> step, slot |-> k, known |-> job[j].known,
                           at |-> job[j].at, upto |-> job[j].upto, added |-> job[j].added]
     IN  \/ mine = {} /\ job' = [job EXCEPT ![j] = goOn("authorise", -1)]
         \/ \E k \in mine : /\ ~docs[k].auth
                            /\ job' = [job EXCEPT ![j] = goOn("authorise", k)]
  /\ UNCHANGED <<docs, used, fresh, apply, events, cursor, recount, ops, crashes, history>>

Back(j, added) == [step |-> "work", known |-> job[j].known, at |-> job[j].at + 1,
                   upto |-> job[j].upto, added |-> added]

\* sponsor: no document was found, the first half is inserted.
AuthoriseFirst(j) ==
  /\ job[j].step = "authorise" /\ job[j].slot = -1
  /\ Insert([who |-> events[job[j].at], auth |-> TRUE, spend |-> FALSE, ttl |-> TRUE])
  /\ reached' = reached \cup {job[j].at}
  /\ job' = [job EXCEPT ![j] = Back(j, job[j].added)]
  /\ UNCHANGED <<used, fresh, apply, events, cursor, recount, ops, crashes,
                 signed, asked, cut>>

\* sponsor: the user has asked before.  The update names the document by its
\* key only, so it never conflicts; if the document has expired it raises an
\* error, which ends the job and is seen by nobody (executor.map).
AuthoriseSecond(j) ==
  /\ job[j].step = "authorise" /\ job[j].slot # -1
  /\ LET k == job[j].slot
     IN  IF k \in DOMAIN docs
         THEN /\ docs' = With(k, [docs[k] EXCEPT !.auth = TRUE, !.ttl = FALSE])
              /\ reached' = reached \cup {job[j].at}
              /\ job' = [job EXCEPT ![j] = Back(j, job[j].added + 1)]
              /\ UNCHANGED cut
         ELSE /\ job' = [job EXCEPT ![j] = Idle]
              /\ cut' = TRUE
              /\ UNCHANGED <<docs, reached>>
  /\ UNCHANGED <<used, fresh, apply, events, cursor, recount, ops, crashes, signed, asked>>

\* The uses of all events are added in one query.
AddUses(j) ==
  /\ job[j].step = "work" /\ job[j].at > job[j].upto
  /\ used' = used + job[j].added
  /\ fresh' = IF job[j].added > 0 THEN FALSE ELSE fresh
  /\ job' = [job EXCEPT ![j] = Idle]
  /\ UNCHANGED <<docs, apply, events, cursor, recount, ops, crashes, history>>

\* An error, of the RPC endpoint for one, or a stop.
JobCrash(j) ==
  /\ crashes < MaxCrashes
  /\ job[j] # Idle
  /\ job' = [job EXCEPT ![j] = Idle]
  /\ crashes' = crashes + 1
  /\ cut' = (cut \/ Working(j) \/ job[j].step = "authorise")
  /\ UNCHANGED <<docs, used, fresh, apply, events, cursor, recount, ops,
                 signed, asked, reached>>

-----------------------------------------------------------------------------
(* apps.py *)

\* A count of all documents, half done or not.
CountAllDocs ==
  /\ recount = Idle
  /\ recount' = [step |-> "write", count |-> Cardinality(DOMAIN docs)]
  /\ UNCHANGED <<docs, used, fresh, apply, events, cursor, job, ops, crashes, history>>

\* The documents without an expireDate are counted for all apps at once ...
CountDocs ==
  /\ recount = Idle
  /\ recount' = [step |-> "write",
                 count |-> Cardinality({k \in DOMAIN docs : ~docs[k].ttl})]
  /\ UNCHANGED <<docs, used, fresh, apply, events, cursor, job, ops, crashes, history>>

\* ... and each app is written when its turn has come.
WriteCount ==
  /\ recount.step = "write"
  /\ used' = recount.count
  /\ fresh' = FALSE
  /\ recount' = Idle
  /\ UNCHANGED <<docs, apply, events, cursor, job, ops, crashes, history>>

-----------------------------------------------------------------------------
Apply == ReadApp \/ FindDoc \/ InsertDoc \/ UpdateDoc \/ CountUse

RunJob(j) ==
  \/ StartJob(j) \/ ReadEvents(j) \/ SaveCursor(j) \/ PassOver(j) \/ FindForEvent(j)
  \/ AuthoriseFirst(j) \/ AuthoriseSecond(j) \/ AddUses(j)

Recount == CountDocs \/ WriteCount

Next ==
  \/ \E op \in Request : Put(op)
  \/ \E id \in Id : Emit(id)
  \/ \E k \in Slot : Expire(k)
  \/ Apply \/ ApplyCrash \/ Recount
  \/ \E j \in Job : RunJob(j) \/ JobCrash(j)

\* The receiver waits for the answer of each operation, and cron starts the two
\* updaters for ever.
Fairness == WF_vars(Apply) /\ WF_vars(Recount) /\ \A j \in Job : WF_vars(RunJob(j))

Spec     == Init /\ [][Next]_vars
FairSpec == Spec /\ Fairness

-----------------------------------------------------------------------------
(* Properties. *)

ApplyState ==
  {Idle} \cup [step : {"put"}, op : Request]
         \cup [step : {"find", "insert", "count"}, op : Request, used : Nat]
         \cup [step : {"update"}, op : Request, used : Nat, slot : Slot, seen : Doc]

JobState ==
  {Idle} \cup [step : {"events"}, known : Nat]
         \cup [step : {"cursor"}, known : Nat, at : Nat, upto : Nat, next : Nat]
         \cup [step : {"work"}, known : Nat, at : Nat, upto : Nat, added : Nat]
         \cup [step : {"authorise"}, slot : Slot \cup {-1}, known : Nat, at : Nat,
               upto : Nat, added : Nat]

TypeOK ==
  /\ DOMAIN docs \subseteq Slot /\ \A k \in DOMAIN docs : docs[k] \in Doc
  /\ used \in Nat /\ fresh \in BOOLEAN
  /\ apply \in ApplyState
  /\ events \in Seq(Id) /\ cursor \in Nat
  /\ job \in [Job -> JobState]
  /\ recount \in {Idle} \cup [step : {"write"}, count : Nat]
  /\ ops \in Nat /\ crashes \in Nat
  /\ signed \subseteq Id /\ asked \subseteq Id
  /\ reached \subseteq Nat /\ cut \in BOOLEAN

\* An id is sponsored only if the app has authorised it, by an operation or an
\* event, and its user has asked for it: each writer completes a document by
\* setting both flags on the strength of one it read before.
SponsoredAreEntitled ==
  \A k \in Sponsored : docs[k].who \in Id =>
    /\ docs[k].who \in signed \cup {events[i] : i \in 1..Len(events)}
    /\ docs[k].who \in asked

\* A sponsorship lasts: neither the TTL index nor a writer that has read the
\* document earlier takes it back.
SponsoredForEver ==
  [][\A k \in Sponsored : k \in DOMAIN docs' /\ docs'[k] = docs[k]]_vars

\* Whatever conflicts, expired documents, stale counts and crashes have done to
\* it, the number of used sponsorships comes to be the number of sponsorships.
CountComesRight == <>[](used = Cardinality(Sponsored))

\* Jobs come to every event of the contract, although they read the chain in
\* chunks and forget where they were, unless one of them ends among its events.
EventsAreRead ==
  \A i \in 1..MaxEvents : Len(events) >= i ~> i \in reached \/ cut

=============================================================================
