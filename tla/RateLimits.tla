----------------------------- MODULE RateLimits -----------------------------
(***************************************************************************)
(* The limit on the operations a node takes (operations.js, checkLimits,    *)
(* called by index.js, operationsPost).  Every sender has a bucket: its own  *)
(* if it is verified, one it shares otherwise.  A bucket is a document of    *)
(* operationCounters that the database removes at its expireDate.  A        *)
(* request looks the counter up and then writes it one higher, and the      *)
(* requests of the workers of the database run at the same time.            *)
(*                                                                         *)
(* Verifications come and go with the scorer and sponsorships with other    *)
(* operations, so at every post a user may be verified or not and an app may *)
(* have authorised the sponsorship or not.                                  *)
(***************************************************************************)
EXTENDS Integers, Sequences, FiniteSets

CONSTANTS
  User, App, Worker,
  Nobody,                     \* the parent of a user that has none
  TimeWindow,                 \* operationsTimeWindow
  Limit,                      \* operationsLimit
  AppsLimit,                  \* appsOperationsLimit
  MaxTime,                    \* bound: no operation is posted later
  MaxPosts                    \* bound: how many operations are posted

ASSUME RateAssumption ==
  /\ TimeWindow \in Nat \ {0} /\ Limit \in Nat /\ AppsLimit \in Nat
  /\ MaxTime \in Nat /\ MaxPosts \in Nat
  /\ Nobody \notin User
  /\ IsFiniteSet(Worker)

VARIABLES
  now,
  parent,     \* the first verified user that connected to a user
  counters,   \* operationCounters: bucket, counter and expireDate
  worker,     \* the request a worker handles
  named,      \* history: how many operations posted named a user as their sender
  posts       \* bound: operations posted so far

vars == <<now, parent, counters, worker, named, posts>>

Bucket ==
  ({"own"} \X User) \cup ({"children"} \X User) \cup ({"app"} \X App)
    \cup {<<"shared">>, <<"shared_apps">>}

Idle == [stage |-> "idle"]

Init ==
  /\ now = 0
  /\ parent = [u \in User |-> Nobody]
  /\ counters = {}
  /\ worker = [w \in Worker |-> Idle]
  /\ named = [u \in User |-> 0]
  /\ posts = 0

-----------------------------------------------------------------------------
(* The environment.                                                        *)

Tick ==
  /\ now < MaxTime + TimeWindow
  /\ now' = now + 1
  /\ UNCHANGED <<parent, counters, worker, named, posts>>

\* The first verified user that connects to a user becomes its parent.
Connect(v, u) ==
  /\ v # u /\ parent[u] = Nobody
  /\ parent' = [parent EXCEPT ![u] = v]
  /\ UNCHANGED <<now, counters, worker, named, posts>>

\* The TTL index removes a document whose expireDate is over, sooner or later.
Expire(b) ==
  /\ \E c \in counters : c.bucket = b /\ c.expireDate <= now
  /\ counters' = {c \in counters : c.bucket # b}
  /\ UNCHANGED <<now, parent, worker, named, posts>>

-----------------------------------------------------------------------------
(* POST /operations, as far as checkLimits                                 *)

\* A choice that does not ask again whether a user without a parent is verified.
UserBucketUnasked(u, verified) ==
  IF ~verified /\ parent[u] # Nobody THEN <<"children", parent[u]>>
  ELSE IF parent[u] = Nobody THEN <<"shared">> ELSE <<"own", u>>

\* A bucket for a verified user, for the children of one, or for all others.
UserBucket(u, verified) ==
  IF verified THEN <<"own", u>>
  ELSE IF parent[u] # Nobody THEN <<"children", parent[u]>> ELSE <<"shared">>

\* The operations: the users they name, the owner of a bucket of its own, their
\* limit and the buckets of senderAttrs that are tried in turn.  A Sponsor may name
\* a user, whose key is taken as it is; a Spend Sponsorship counts on its app if the
\* app has authorised it.
Op(users, owner, limit, buckets) ==
  [users |-> users, owner |-> owner, limit |-> limit, buckets |-> buckets]

UserOp(u, verified) ==
  Op({u}, IF verified THEN u ELSE Nobody, Limit, <<UserBucket(u, verified)>>)
AppOp(a) == Op({}, Nobody, AppsLimit, <<<<"app", a>>>>)
SponsorUserOp(a, u) == Op({u}, u, AppsLimit, <<<<"app", a>>, <<"own", u>>>>)
SpendUnauthorizedOp == Op({}, Nobody, AppsLimit, <<<<"shared_apps">>>>)

Operations ==
  {UserOp(u, verified) : u \in User, verified \in BOOLEAN}
    \cup {AppOp(a) : a \in App} \cup {SpendUnauthorizedOp}
    \cup {SponsorUserOp(a, u) : a \in App, u \in User}

\* The counter as firstExample finds it.
Counter(b) == {c \in counters : c.bucket = b}

\* What is read of a bucket: the count so far, and when the window ends.
Look(b, started) ==
  IF Counter(b) = {} THEN [count |-> 0, expireDate |-> started + TimeWindow]
  ELSE CHOOSE r \in {[count |-> c.count, expireDate |-> c.expireDate] : c \in Counter(b)} : TRUE

Counting(owner, limit, buckets, started) ==
  [stage |-> "count", owner |-> owner, limit |-> limit, buckets |-> buckets,
   started |-> started, read |-> Look(Head(buckets), started)]

Post(w, op) ==
  /\ worker[w] = Idle
  /\ posts < MaxPosts /\ now <= MaxTime
  /\ posts' = posts + 1
  /\ named' = [u \in User |-> IF u \in op.users THEN named[u] + 1 ELSE named[u]]
  /\ worker' = [worker EXCEPT ![w] = Counting(op.owner, op.limit, op.buckets, now)]
  /\ UNCHANGED <<now, parent, counters>>

\* An insert without an expireDate of its own: nothing removes it.
UpsertForGood(b, count, expireDate) ==
  IF Counter(b) = {}
  THEN counters \cup {[bucket |-> b, count |-> count, expireDate |-> MaxTime + TimeWindow + 1]}
  ELSE {IF c.bucket = b THEN [c EXCEPT !.count = count] ELSE c : c \in counters}

\* An insert that does not look for a counter that is there.
InsertAlways(b, count, expireDate) ==
  counters \cup {[bucket |-> b, count |-> count, expireDate |-> expireDate]}

\* UPSERT: an insert with the expireDate read, or an update of the counter alone.
Upsert(b, count, expireDate) ==
  IF Counter(b) = {}
  THEN counters \cup {[bucket |-> b, count |-> count, expireDate |-> expireDate]}
  ELSE {IF c.bucket = b THEN [c EXCEPT !.count = count] ELSE c : c \in counters}

\* The counter is written. Within the limit the operation is taken, otherwise the
\* next sender is tried, and with none left the request is refused.
Count(w) ==
  LET r == worker[w]
      b == Head(r.buckets)
      count == r.read.count + 1
  IN /\ r.stage = "count"
     /\ counters' = Upsert(b, count, r.read.expireDate)
     /\ worker' = [worker EXCEPT ![w] =
          IF count <= r.limit THEN Idle
          ELSE IF Len(r.buckets) > 1 THEN [r EXCEPT !.stage = "next", !.buckets = Tail(@)]
          ELSE [stage |-> "refused", owner |-> r.owner, limit |-> r.limit]]
     /\ UNCHANGED <<now, parent, named, posts>>

NextSender(w) ==
  LET r == worker[w]
  IN /\ r.stage = "next"
     /\ worker' = [worker EXCEPT ![w] = Counting(r.owner, r.limit, r.buckets, r.started)]
     /\ UNCHANGED <<now, parent, counters, named, posts>>

\* TooManyOperationsError
Refuse(w) ==
  /\ worker[w].stage = "refused"
  /\ worker' = [worker EXCEPT ![w] = Idle]
  /\ UNCHANGED <<now, parent, counters, named, posts>>

Next ==
  \/ Tick
  \/ \E v, u \in User : Connect(v, u)
  \/ \E b \in Bucket : Expire(b)
  \/ \E w \in Worker, op \in Operations : Post(w, op)
  \/ \E w \in Worker : Count(w) \/ NextSender(w) \/ Refuse(w)

Spec == Init /\ [][Next]_vars

\* Time passes, the TTL index is looked after, and a request comes to its end.
Fairness ==
  /\ WF_vars(Tick)
  /\ \A b \in Bucket : WF_vars(Expire(b))
  /\ \A w \in Worker : WF_vars(Count(w) \/ NextSender(w) \/ Refuse(w))

FairSpec == Spec /\ Fairness

-----------------------------------------------------------------------------
(* Properties.                                                             *)

Read == [count : 0..MaxPosts, expireDate : 0 .. MaxTime + 2 * TimeWindow]
Request ==
  [stage : {"count", "next"}, owner : User \cup {Nobody}, limit : {Limit, AppsLimit}, buckets : Seq(Bucket) \ {<<>>},
   started : 0..MaxTime, read : Read]
  \cup [stage : {"refused"}, owner : User \cup {Nobody}, limit : {Limit, AppsLimit}]

\* Types: a bucket has one counter, which ends at most a window from now.
TypeOK ==
  /\ now \in 0 .. MaxTime + TimeWindow
  /\ parent \in [User -> User \cup {Nobody}]
  /\ counters \subseteq [bucket : Bucket, count : 1..MaxPosts, expireDate : 0 .. now + TimeWindow]
  /\ \A c, d \in counters : c.bucket = d.bucket => c = d
  /\ worker \in [Worker -> Request \cup {Idle}]
  /\ named \in [User -> 0..MaxPosts]
  /\ posts \in 0..MaxPosts

\* A verified user is never refused because of others: whoever else posts, loses or
\* gains verifications, connects, or races with the end of a window, its operation
\* is refused only after more operations than the limit have named that user, and so
\* is a Sponsor of a user whose app is over its limit (the comment in checkLimits, "a
\* bucket for a verified user").
OwnLimitIsKept ==
  \A w \in Worker, u \in User :
    worker[w].stage = "refused" /\ worker[w].owner = u => named[u] > worker[w].limit

\* A bucket over its limit does not stay so: whatever is posted on it, counted
\* from a stale read or inserted again after its end, it comes to its end.
RefusalsEnd ==
  \A b \in Bucket :
    (\E c \in counters : c.bucket = b /\ c.count >= Limit) ~>
      ~(\E c \in counters : c.bucket = b /\ c.count >= Limit)
=============================================================================
