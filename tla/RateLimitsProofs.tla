--------------------------- MODULE RateLimitsProofs ---------------------------
(***************************************************************************)
(* Proofs about RateLimits for every set of users and apps, every number of *)
(* workers, and all limits, windows and bounds.                             *)
(*                                                                         *)
(* A counter of a bucket is never higher than the number of operations that *)
(* were posted on it.  That alone is not inductive: a worker may hold an    *)
(* old count and write it back one higher.  So the operations that have not *)
(* been counted on a bucket yet are added to every count of it, the stored  *)
(* one and those the workers have read.                                     *)
(***************************************************************************)
EXTENDS RateLimits, FiniteSetTheorems, TLAPS

Busy(w) == worker[w].stage \in {"count", "next"}

\* A worker has still to count its operation on a bucket.
PendingOn(w, b) == Busy(w) /\ \E i \in 1..Len(worker[w].buckets) : worker[w].buckets[i] = b

Pending(b) == {w \in Worker : PendingOn(w, b)}

\* No more than the operations posted on a bucket.
Within(b, n) == n <= posts /\ \A u \in User : b = <<"own", u>> => n <= named[u]

Waiting(b) == Cardinality(Pending(b))

CountsFit ==
  /\ \A u \in User : named[u] <= posts
  /\ \A b \in Bucket : Within(b, Waiting(b))
  /\ \A c \in counters : Within(c.bucket, c.count + Waiting(c.bucket))
  /\ \A w \in Worker : worker[w].stage = "count" =>
       LET b == Head(worker[w].buckets) IN Within(b, worker[w].read.count + Waiting(b))

\* The buckets of an operation: one, or two that are not the same, and the last one
\* is that of its owner.
BucketsOf(buckets, owner) ==
  /\ \/ \E b \in Bucket : buckets = <<b>>
     \/ \E b, d \in Bucket : b # d /\ buckets = <<b, d>>
  /\ owner # Nobody => buckets[Len(buckets)] = <<"own", owner>>

RequestsFit ==
  \A w \in Worker :
    /\ Busy(w) => BucketsOf(worker[w].buckets, worker[w].owner) /\ worker[w].started <= now
    /\ worker[w].stage = "next" => Len(worker[w].buckets) = 1
    /\ worker[w].stage = "count" => worker[w].read.expireDate <= now + TimeWindow

IInv == TypeOK /\ CountsFit /\ RequestsFit /\ OwnLimitIsKept

-----------------------------------------------------------------------------
(* Types of what the actions handle.                                       *)

\* There are finitely many operations to be counted.
LEMMA WaitingIsNatural ==
  ASSUME NEW b
  PROVE  IsFiniteSet(Pending(b)) /\ Waiting(b) \in Nat
<1>1. IsFiniteSet(Worker) /\ Pending(b) \in SUBSET Worker
  BY RateAssumption DEF Pending
<1> QED  BY <1>1, FS_Subset, FS_CardinalityType DEF Waiting

\* The same for the next state.
LEMMA WaitingStaysNatural ==
  ASSUME NEW b
  PROVE  IsFiniteSet(Pending(b)') /\ Waiting(b)' \in Nat
<1>1. IsFiniteSet(Worker) /\ Pending(b)' \in SUBSET Worker
  BY RateAssumption DEF Pending
<1> QED  BY <1>1, FS_Subset, FS_CardinalityType DEF Waiting

\* What a busy worker holds.
LEMMA BusyRecord ==
  ASSUME TypeOK, NEW w \in Worker, Busy(w)
  PROVE  /\ worker[w] \in [stage : {"count", "next"}, owner : User \cup {Nobody},
                           limit : {Limit, AppsLimit}, buckets : Seq(Bucket) \ {<<>>},
                           started : 0..MaxTime, read : Read]
         /\ worker[w].read.count \in 0..MaxPosts
         /\ worker[w].read.expireDate \in 0 .. MaxTime + 2 * TimeWindow
<1>1. worker[w] \in Request \cup {Idle}
  BY DEF TypeOK
<1>2. worker[w].stage # "refused" /\ worker[w].stage # "idle"
  BY DEF Busy
<1>3. worker[w] \in [stage : {"count", "next"}, owner : User \cup {Nobody},
                     limit : {Limit, AppsLimit}, buckets : Seq(Bucket) \ {<<>>},
                     started : 0..MaxTime, read : Read]
  BY <1>1, <1>2 DEF Request, Idle
<1>4. worker[w].read \in Read
  BY <1>3
<1> QED  BY <1>3, <1>4 DEF Read

\* The bucket of a user.
LEMMA UserBucketType ==
  ASSUME TypeOK, NEW u \in User, NEW verified \in BOOLEAN
  PROVE  /\ UserBucket(u, verified) \in Bucket
         /\ verified => UserBucket(u, verified) = <<"own", u>>
         /\ \A v \in User : UserBucket(u, verified) = <<"own", v>> => v = u
<1>1. parent[u] \in User \cup {Nobody}
  BY DEF TypeOK
<1>2. CASE verified
  BY <1>2 DEF UserBucket, Bucket
<1>3. CASE ~verified /\ parent[u] # Nobody
  BY <1>1, <1>3 DEF UserBucket, Bucket
<1>4. CASE ~verified /\ parent[u] = Nobody
  <2>1. UserBucket(u, verified) = <<"shared">>
    BY <1>4 DEF UserBucket
  <2>2. <<"shared">> \in Bucket
    BY DEF Bucket
  <2>3. \A v \in User : <<"shared">> # <<"own", v>>
    OBVIOUS
  <2> QED  BY <1>4, <2>1, <2>2, <2>3
<1> QED  BY <1>2, <1>3, <1>4

\* A sequence of one bucket, or of two.
LEMMA OneOrTwo ==
  /\ \A b \in Bucket : <<b>> \in Seq(Bucket) \ {<<>>} /\ Len(<<b>>) = 1 /\ <<b>>[1] = b
  /\ \A b, d \in Bucket : /\ <<b, d>> \in Seq(Bucket) \ {<<>>} /\ Len(<<b, d>>) = 2
                          /\ <<b, d>>[1] = b /\ <<b, d>>[2] = d
OBVIOUS

\* An operation is counted on its own buckets, and on a user's own bucket if it
\* names that user.
LEMMA OperationType ==
  ASSUME TypeOK, NEW op \in Operations
  PROVE  /\ op.users \subseteq User
         /\ op.owner \in User \cup {Nobody}
         /\ op.limit \in {Limit, AppsLimit}
         /\ op.buckets \in Seq(Bucket) \ {<<>>}
         /\ BucketsOf(op.buckets, op.owner)
         /\ \A u \in User, i \in 1..Len(op.buckets) : op.buckets[i] = <<"own", u>> => u \in op.users
<1>1. CASE \E u \in User, verified \in BOOLEAN : op = UserOp(u, verified)
  <2>1. PICK u \in User, verified \in BOOLEAN : op = UserOp(u, verified)
    BY <1>1
  <2>2. PICK b \in Bucket : b = UserBucket(u, verified)
    BY UserBucketType
  <2>3. /\ op.users = {u} /\ op.owner = (IF verified THEN u ELSE Nobody)
        /\ op.limit = Limit /\ op.buckets = <<b>>
    BY <2>1, <2>2 DEF UserOp, Op
  <2>4. verified => b = <<"own", u>>
    BY <2>2, UserBucketType
  <2>5. \A v \in User : b = <<"own", v>> => v = u
    BY <2>2, UserBucketType
  <2> QED  BY <2>3, <2>4, <2>5, OneOrTwo DEF BucketsOf
<1>2. CASE \E a \in App : op = AppOp(a)
  <2>1. PICK a \in App : op = AppOp(a)
    BY <1>2
  <2>2. PICK b \in Bucket : b = <<"app", a>>
    BY DEF Bucket
  <2>3. op.users = {} /\ op.owner = Nobody /\ op.limit = AppsLimit /\ op.buckets = <<b>>
    BY <2>1, <2>2 DEF AppOp, Op
  <2>4. \A v \in User : b # <<"own", v>>
    BY <2>2
  <2> QED  BY <2>3, <2>4, OneOrTwo DEF BucketsOf
<1>3. CASE op = SpendUnauthorizedOp
  <2>1. PICK b \in Bucket : b = <<"shared_apps">>
    BY DEF Bucket
  <2>2. op.users = {} /\ op.owner = Nobody /\ op.limit = AppsLimit /\ op.buckets = <<b>>
    BY <1>3, <2>1 DEF SpendUnauthorizedOp, Op
  <2>3. \A v \in User : b # <<"own", v>>
    BY <2>1
  <2> QED  BY <2>2, <2>3, OneOrTwo DEF BucketsOf
<1>4. CASE \E a \in App, u \in User : op = SponsorUserOp(a, u)
  <2>1. PICK a \in App, u \in User : op = SponsorUserOp(a, u)
    BY <1>4
  <2>2. PICK b \in Bucket, d \in Bucket : b = <<"app", a>> /\ d = <<"own", u>>
    BY DEF Bucket
  <2>3. op.users = {u} /\ op.owner = u /\ op.limit = AppsLimit /\ op.buckets = <<b, d>>
    BY <2>1, <2>2 DEF SponsorUserOp, Op
  <2>4. b # d /\ \A v \in User : b # <<"own", v>> /\ (d = <<"own", v>> => v = u)
    BY <2>2
  <2>5. Len(op.buckets) = 2 /\ op.buckets[1] = b /\ op.buckets[2] = d
    BY <2>3, OneOrTwo
  <2>6. BucketsOf(op.buckets, op.owner)
    BY <2>2, <2>3, <2>4, <2>5 DEF BucketsOf
  <2> QED  BY <2>3, <2>4, <2>5, <2>6, OneOrTwo
<1> QED  BY <1>1, <1>2, <1>3, <1>4 DEF Operations

-----------------------------------------------------------------------------
(* Counts.                                                                 *)

\* Fewer operations than were posted, and more posted since.
LEMMA WithinGrows ==
  ASSUME TypeOK, NEW b, NEW m \in Nat, NEW n \in Nat, m <= n, Within(b, n),
         posts' \in Nat, posts <= posts',
         \A u \in User : named[u]' \in Nat /\ named[u] <= named[u]'
  PROVE  Within(b, m)'
<1>1. posts \in Nat /\ \A u \in User : named[u] \in Nat
  BY RateAssumption DEF TypeOK
<1> QED  BY <1>1 DEF Within

LEMMA WithinLess ==
  ASSUME TypeOK, NEW b, NEW m \in Nat, NEW n \in Nat, m <= n, Within(b, n)
  PROVE  Within(b, m) /\ m <= posts
<1>1. posts \in Nat /\ \A u \in User : named[u] \in Nat
  BY RateAssumption DEF TypeOK
<1> QED  BY <1>1 DEF Within

\* What a worker reads of a bucket fits.
LEMMA LookFits ==
  ASSUME TypeOK, CountsFit, NEW b \in Bucket, NEW t \in 0..MaxTime, t <= now
  PROVE  /\ Look(b, t) \in Read
         /\ Look(b, t).count \in Nat
         /\ Look(b, t).expireDate <= now + TimeWindow
         /\ Within(b, Look(b, t).count + Waiting(b))
<1>1. now \in 0 .. MaxTime + TimeWindow /\ TimeWindow \in Nat /\ MaxTime \in Nat /\ MaxPosts \in Nat
  BY RateAssumption DEF TypeOK
<1>2. CASE Counter(b) = {}
  <2>1. Look(b, t) = [count |-> 0, expireDate |-> t + TimeWindow]
    BY <1>2 DEF Look
  <2>2. 0 + Waiting(b) = Waiting(b)
    BY WaitingIsNatural
  <2>3. Within(b, 0 + Waiting(b))
    BY <2>2 DEF CountsFit
  <2> QED  BY <1>1, <2>1, <2>3 DEF Read
<1>3. CASE Counter(b) # {}
  <2>1. Look(b, t) \in {[count |-> c.count, expireDate |-> c.expireDate] : c \in Counter(b)}
    BY <1>3 DEF Look
  <2>2. PICK c \in counters : c.bucket = b /\ Look(b, t) = [count |-> c.count, expireDate |-> c.expireDate]
    BY <2>1 DEF Counter
  <2>3. c.count \in 1..MaxPosts /\ c.expireDate \in 0 .. now + TimeWindow
    BY <2>2 DEF TypeOK
  <2>4. Within(b, c.count + Waiting(b))
    BY <2>2 DEF CountsFit
  <2> QED  BY <1>1, <2>2, <2>3, <2>4 DEF Read
<1> QED  BY <1>2, <1>3

-----------------------------------------------------------------------------
(* One lemma per action.                                                   *)

LEMMA InvInit ==
  ASSUME Init
  PROVE  IInv
<1> USE RateAssumption DEF Init
<1>1. TypeOK
  BY DEF TypeOK
<1>2. \A w \in Worker : worker[w].stage = "idle"
  BY DEF Idle
<1>3. \A b : Pending(b) = {}
  BY <1>2 DEF Pending, PendingOn, Busy
<1>4. \A b : Waiting(b) = 0
  BY <1>3, FS_EmptySet DEF Waiting
<1>5. CountsFit
  BY <1>2, <1>4 DEF CountsFit, Within
<1>6. RequestsFit /\ OwnLimitIsKept
  BY <1>2 DEF RequestsFit, OwnLimitIsKept, Busy
<1> QED  BY <1>1, <1>5, <1>6 DEF IInv

\* Time, connections and the TTL index touch neither requests nor the operations posted.
LEMMA EnvironmentKeeps ==
  ASSUME IInv, worker' = worker, named' = named, posts' = posts, counters' \subseteq counters,
         now' \in Int, now <= now'
  PROVE  CountsFit' /\ RequestsFit' /\ OwnLimitIsKept'
<1> USE DEF IInv
<1>1. \A b : Pending(b)' = Pending(b) /\ Waiting(b)' = Waiting(b)
  BY DEF Pending, PendingOn, Busy, Waiting
<1>2. CountsFit'
  BY <1>1 DEF CountsFit, Within
<1>3. now \in Int /\ TimeWindow \in Int
  BY RateAssumption DEF TypeOK
<1>4. RequestsFit'
  <2>1. SUFFICES ASSUME NEW w \in Worker, Busy(w)
                 PROVE  worker[w].started <= now'
                        /\ (worker[w].stage = "count" => worker[w].read.expireDate <= now' + TimeWindow)
    BY DEF RequestsFit, Busy
  <2>2. worker[w].started \in Int /\ worker[w].read.expireDate \in Int
    BY <2>1, BusyRecord
  <2> QED  BY <1>3, <2>1, <2>2 DEF RequestsFit
<1>5. OwnLimitIsKept'
  BY DEF OwnLimitIsKept
<1> QED  BY <1>2, <1>4, <1>5

LEMMA TickKeeps ==
  ASSUME IInv, Tick
  PROVE  IInv'
<1>1. now \in Nat /\ TimeWindow \in Nat /\ MaxTime \in Nat /\ now' = now + 1
  BY RateAssumption DEF IInv, TypeOK, Tick
<1>2. TypeOK'
  BY <1>1 DEF IInv, TypeOK, Tick, Request
<1> QED  BY <1>1, <1>2, EnvironmentKeeps DEF IInv, Tick

LEMMA ConnectKeeps ==
  ASSUME IInv, NEW v \in User, NEW u \in User, Connect(v, u)
  PROVE  IInv'
<1>1. TypeOK'
  BY DEF IInv, TypeOK, Connect, Request
<1>2. now' = now /\ now \in Int
  BY RateAssumption DEF IInv, TypeOK, Connect
<1> QED  BY <1>1, <1>2, EnvironmentKeeps DEF IInv, Connect

LEMMA ExpireKeeps ==
  ASSUME IInv, NEW b \in Bucket, Expire(b)
  PROVE  IInv'
<1>1. TypeOK'
  BY DEF IInv, TypeOK, Expire, Request
<1>2. now' = now /\ now \in Int
  BY RateAssumption DEF IInv, TypeOK, Expire
<1> QED  BY <1>1, <1>2, EnvironmentKeeps DEF IInv, Expire

\* A post is one more operation, to be counted on each of its buckets.
LEMMA PostKeeps ==
  ASSUME IInv, NEW w \in Worker, NEW op \in Operations, Post(w, op)
  PROVE  IInv'
<1> USE DEF IInv
<1> DEFINE On(b) == \E i \in 1..Len(op.buckets) : op.buckets[i] = b
           new == Counting(op.owner, op.limit, op.buckets, now)
<1>1. /\ op.users \subseteq User
      /\ op.owner \in User \cup {Nobody}
      /\ op.limit \in {Limit, AppsLimit}
      /\ op.buckets \in Seq(Bucket) \ {<<>>}
      /\ BucketsOf(op.buckets, op.owner)
      /\ \A u \in User, i \in 1..Len(op.buckets) : op.buckets[i] = <<"own", u>> => u \in op.users
  BY OperationType
<1>2. /\ worker[w].stage = "idle" /\ ~Busy(w)
      /\ now \in 0..MaxTime /\ now' = now
      /\ posts \in Nat /\ posts < MaxPosts /\ posts' = posts + 1
      /\ counters' = counters /\ parent' = parent
  BY RateAssumption DEF Post, Idle, Busy, TypeOK
<1>3. \A v \in Worker : worker'[v] = IF v = w THEN new ELSE worker[v]
  BY DEF Post, TypeOK
<1>4. \A u \in User : /\ named[u] \in Nat /\ named'[u] \in Nat /\ named[u] <= named'[u]
                      /\ named'[u] <= named[u] + 1
                      /\ u \in op.users => named'[u] = named[u] + 1
  BY RateAssumption DEF Post, TypeOK
<1>5. Head(op.buckets) \in Bucket /\ On(Head(op.buckets))
  BY <1>1
<1>6. /\ new.stage = "count" /\ new.owner = op.owner /\ new.limit = op.limit
      /\ new.buckets = op.buckets /\ new.started = now /\ new.read = Look(Head(op.buckets), now)
  BY DEF Counting
<1>7. /\ new.read \in Read /\ new.read.count \in Nat
      /\ new.read.expireDate <= now + TimeWindow
      /\ Within(Head(op.buckets), new.read.count + Waiting(Head(op.buckets)))
  BY <1>2, <1>5, <1>6, LookFits
<1>8. new \in Request
  <2>1. new = [stage |-> "count", owner |-> op.owner, limit |-> op.limit, buckets |-> op.buckets,
               started |-> now, read |-> new.read]
    BY DEF Counting
  <2> QED  BY <1>1, <1>2, <1>7, <2>1 DEF Request
<1> HIDE DEF new
<1>9. \A b : Pending(b)' = IF On(b) THEN Pending(b) \cup {w} ELSE Pending(b)
  BY <1>2, <1>3, <1>6 DEF Pending, PendingOn, Busy
<1>10. \A b : Waiting(b)' = IF On(b) THEN Waiting(b) + 1 ELSE Waiting(b)
  <2> TAKE b
  <2>1. w \notin Pending(b)
    BY <1>2 DEF Pending, PendingOn
  <2> QED  BY <1>9, <2>1, WaitingIsNatural, FS_AddElement DEF Waiting
<1>11. \A b \in Bucket, n \in Nat : Within(b, n + Waiting(b)) => Within(b, n + Waiting(b))'
  <2> TAKE b \in Bucket, n \in Nat
  <2> HAVE Within(b, n + Waiting(b))
  <2>1. Waiting(b) \in Nat
    BY WaitingIsNatural
  <2>2. CASE On(b)
    <3>1. \A u \in User : b = <<"own", u>> => u \in op.users
      BY <1>1, <2>2
    <3> QED  BY <1>2, <1>4, <1>10, <2>1, <2>2, <3>1 DEF Within
  <2>3. CASE ~On(b)
    BY <1>2, <1>4, <1>10, <2>1, <2>3 DEF Within
  <2> QED  BY <2>2, <2>3
<1>12. CountsFit'
  <2>1. ASSUME NEW b \in Bucket PROVE Within(b, Waiting(b))'
    <3>1. Waiting(b) \in Nat /\ Waiting(b)' \in Nat /\ Within(b, Waiting(b))
      BY WaitingIsNatural, WaitingStaysNatural DEF CountsFit
    <3>2. 0 + Waiting(b) = Waiting(b) /\ 0 + Waiting(b)' = Waiting(b)'
      BY <3>1
    <3>3. Within(b, 0 + Waiting(b))'
      BY <1>11, <3>1, <3>2
    <3> QED  BY <3>2, <3>3
  <2>2. ASSUME NEW c \in counters' PROVE Within(c.bucket, c.count + Waiting(c.bucket))'
    <3>1. c \in counters /\ c.bucket \in Bucket /\ c.count \in Nat
      BY <1>2 DEF TypeOK
    <3> QED  BY <1>11, <3>1 DEF CountsFit
  <2>3. ASSUME NEW v \in Worker, worker'[v].stage = "count"
        PROVE  (LET b == Head(worker[v].buckets) IN Within(b, worker[v].read.count + Waiting(b)))'
    <3>1. CASE v = w
      BY <1>3, <1>5, <1>6, <1>7, <1>11, <3>1
    <3>2. CASE v # w
      <4>1. worker'[v] = worker[v] /\ worker[v].stage = "count" /\ Busy(v)
        BY <1>3, <2>3, <3>2 DEF Busy
      <4>2. Head(worker[v].buckets) \in Bucket /\ worker[v].read.count \in Nat
        BY <4>1, BusyRecord
      <4> QED  BY <1>11, <4>1, <4>2 DEF CountsFit
    <3> QED  BY <3>1, <3>2
  <2>4. ASSUME NEW u \in User PROVE named'[u] <= posts'
    <3>1. named[u] <= posts
      BY DEF CountsFit
    <3> QED  BY <1>2, <1>4, <3>1
  <2> QED  BY <2>1, <2>2, <2>3, <2>4 DEF CountsFit
<1>13. RequestsFit'
  BY <1>1, <1>2, <1>3, <1>6, <1>7 DEF RequestsFit, Busy
<1>14. OwnLimitIsKept'
  <2>1. SUFFICES ASSUME NEW v \in Worker, NEW u \in User, worker'[v].stage = "refused", worker'[v].owner = u
                 PROVE  named'[u] > worker'[v].limit
    BY DEF OwnLimitIsKept
  <2>2. worker'[v] = worker[v]
    BY <1>3, <1>6, <2>1
  <2>3. worker[v].limit \in Nat
    BY <2>1, <2>2, RateAssumption DEF TypeOK, Request, Idle
  <2> QED  BY <1>4, <2>1, <2>2, <2>3 DEF OwnLimitIsKept
<1>15. TypeOK'
  <2>1. worker' \in [Worker -> Request' \cup {Idle}]
    BY <1>3, <1>8 DEF Post, TypeOK, Request
  <2>2. named' \in [User -> 0..MaxPosts]
    <3>1. \A u \in User : named'[u] <= posts'
      <4> TAKE u \in User
      <4>1. named[u] <= posts
        BY DEF CountsFit
      <4> QED  BY <1>2, <1>4, <4>1
    <3>2. \A u \in User : named'[u] \in 0..MaxPosts
      BY <1>2, <1>4, <3>1, RateAssumption
    <3> QED  BY <3>2 DEF Post
  <2>3. posts' \in 0..MaxPosts
    BY <1>2, RateAssumption
  <2> QED  BY <1>2, <2>1, <2>2, <2>3 DEF TypeOK
<1> QED  BY <1>12, <1>13, <1>14, <1>15

\* The first bucket of a request, and what remains when it has been counted.
LEMMA FirstBucket ==
  ASSUME NEW buckets, NEW owner, BucketsOf(buckets, owner)
  PROVE  /\ Head(buckets) \in Bucket /\ Head(buckets) = buckets[1] /\ Len(buckets) \in {1, 2}
         /\ Len(buckets) = 1 /\ owner # Nobody => Head(buckets) = <<"own", owner>>
         /\ Len(buckets) = 2 =>
              /\ Tail(buckets) = <<buckets[2]>> /\ buckets[2] \in Bucket /\ buckets[2] # buckets[1]
              /\ Len(Tail(buckets)) = 1 /\ Tail(buckets)[1] = buckets[2]
              /\ Tail(buckets) \in Seq(Bucket) \ {<<>>}
              /\ BucketsOf(Tail(buckets), owner)
<1>1. CASE \E b \in Bucket : buckets = <<b>>
  <2>1. PICK b \in Bucket : buckets = <<b>>
    BY <1>1
  <2>2. Head(buckets) = b /\ buckets[1] = b /\ Len(buckets) = 1
    BY <2>1
  <2> QED  BY <2>2 DEF BucketsOf
<1>2. CASE \E b, d \in Bucket : b # d /\ buckets = <<b, d>>
  <2>1. PICK b \in Bucket, d \in Bucket : b # d /\ buckets = <<b, d>>
    BY <1>2
  <2>2. Head(buckets) = b /\ buckets[1] = b /\ buckets[2] = d /\ Len(buckets) = 2 /\ Tail(buckets) = <<d>>
    BY <2>1
  <2>3. Len(<<d>>) = 1 /\ <<d>>[1] = d /\ <<d>> \in Seq(Bucket) \ {<<>>}
    BY OneOrTwo
  <2>4. BucketsOf(<<d>>, owner)
    BY <2>2, <2>3 DEF BucketsOf
  <2> QED  BY <2>1, <2>2, <2>3, <2>4
<1> QED  BY <1>1, <1>2 DEF BucketsOf

\* The counter of a bucket after an upsert, and the other counters.
LEMMA UpsertType ==
  ASSUME TypeOK, NEW b \in Bucket, NEW n \in 1..MaxPosts, NEW e \in 0 .. now + TimeWindow
  PROVE  /\ Upsert(b, n, e) \subseteq [bucket : Bucket, count : 1..MaxPosts, expireDate : 0 .. now + TimeWindow]
         /\ \A c \in Upsert(b, n, e) : IF c.bucket = b THEN c.count = n ELSE c \in counters
         /\ \A c, d \in Upsert(b, n, e) : c.bucket = d.bucket => c = d
<1> DEFINE Doc == [bucket : Bucket, count : 1..MaxPosts, expireDate : 0 .. now + TimeWindow]
           written(c) == IF c.bucket = b THEN [c EXCEPT !.count = n] ELSE c
<1>1. counters \subseteq Doc /\ \A c, d \in counters : c.bucket = d.bucket => c = d
  BY DEF TypeOK
<1>2. CASE Counter(b) = {}
  <2>1. Upsert(b, n, e) = counters \cup {[bucket |-> b, count |-> n, expireDate |-> e]}
    BY <1>2 DEF Upsert
  <2>2. [bucket |-> b, count |-> n, expireDate |-> e] \in Doc
    OBVIOUS
  <2>3. \A c \in counters : c.bucket # b
    BY <1>2 DEF Counter
  <2> QED  BY <1>1, <2>1, <2>2, <2>3
<1>3. CASE Counter(b) # {}
  <2>1. Upsert(b, n, e) = {written(c) : c \in counters}
    BY <1>3 DEF Upsert
  <2>2. \A c \in counters : /\ written(c) \in Doc /\ written(c).bucket = c.bucket
                            /\ c.bucket = b => written(c).count = n
    BY <1>1
  <2>3. \A c \in counters : c.bucket # b => written(c) = c
    OBVIOUS
  <2> HIDE DEF written
  <2>4. ASSUME NEW c \in Upsert(b, n, e), NEW d \in Upsert(b, n, e), c.bucket = d.bucket
        PROVE  c = d
    <3>1. PICK x \in counters, y \in counters : c = written(x) /\ d = written(y)
      BY <2>1
    <3> QED  BY <1>1, <2>2, <2>4, <3>1
  <2> QED  BY <2>1, <2>2, <2>3, <2>4
<1> QED  BY <1>2, <1>3

\* What becomes of a request that has been counted.
After(r) ==
  IF r.read.count + 1 <= r.limit THEN Idle
  ELSE IF Len(r.buckets) > 1 THEN [r EXCEPT !.stage = "next", !.buckets = Tail(@)]
  ELSE [stage |-> "refused", owner |-> r.owner, limit |-> r.limit]

LEMMA AfterType ==
  ASSUME NEW r \in [stage : {"count", "next"}, owner : User \cup {Nobody},
                    limit : {Limit, AppsLimit}, buckets : Seq(Bucket) \ {<<>>},
                    started : 0..MaxTime, read : Read],
         BucketsOf(r.buckets, r.owner)
  PROVE  /\ After(r) \in Request \cup {Idle}
         /\ After(r).stage \in {"idle", "next", "refused"}
         /\ After(r).stage = "next" =>
              /\ Len(r.buckets) = 2 /\ After(r).buckets = Tail(r.buckets)
              /\ After(r).owner = r.owner /\ After(r).started = r.started
         /\ After(r).stage = "refused" =>
              /\ ~(r.read.count + 1 <= r.limit) /\ Len(r.buckets) = 1
              /\ After(r).owner = r.owner /\ After(r).limit = r.limit
<1>1. CASE r.read.count + 1 <= r.limit
  <2>1. After(r) = Idle
    BY <1>1 DEF After
  <2> QED  BY <2>1 DEF Idle
<1>2. CASE ~(r.read.count + 1 <= r.limit) /\ Len(r.buckets) = 2
  <2>1. After(r) = [r EXCEPT !.stage = "next", !.buckets = Tail(@)]
    BY <1>2 DEF After
  <2>2. Tail(r.buckets) \in Seq(Bucket) \ {<<>>}
    BY <1>2, FirstBucket
  <2>3. /\ After(r).stage = "next" /\ After(r).buckets = Tail(r.buckets)
        /\ After(r).owner = r.owner /\ After(r).started = r.started
    BY <2>1
  <2>4. After(r) \in [stage : {"count", "next"}, owner : User \cup {Nobody},
                      limit : {Limit, AppsLimit}, buckets : Seq(Bucket) \ {<<>>},
                      started : 0..MaxTime, read : Read]
    BY <2>1, <2>2
  <2> QED  BY <1>2, <2>3, <2>4 DEF Request
<1>3. CASE ~(r.read.count + 1 <= r.limit) /\ Len(r.buckets) = 1
  <2>1. After(r) = [stage |-> "refused", owner |-> r.owner, limit |-> r.limit]
    BY <1>3 DEF After
  <2> QED  BY <1>3, <2>1 DEF Request
<1> QED  BY <1>1, <1>2, <1>3, FirstBucket

\* A count of one more is written, and one less waits to be counted.
LEMMA CountKeeps ==
  ASSUME IInv, NEW w \in Worker, Count(w)
  PROVE  IInv'
<1> USE DEF IInv
<1>0. PICK r : r = worker[w]
  OBVIOUS
<1> DEFINE b0 == Head(r.buckets)
           n == r.read.count + 1
<1>a. PICK next : next = After(r)
  OBVIOUS
<1>1. /\ r.stage = "count" /\ Busy(w)
      /\ counters' = Upsert(b0, n, r.read.expireDate)
      /\ worker' = [worker EXCEPT ![w] = next]
      /\ now' = now /\ parent' = parent /\ named' = named /\ posts' = posts
  BY <1>0, <1>a DEF Count, Busy, After
<1>2. /\ r \in [stage : {"count", "next"}, owner : User \cup {Nobody},
                limit : {Limit, AppsLimit}, buckets : Seq(Bucket) \ {<<>>},
                started : 0..MaxTime, read : Read]
      /\ r.read.count \in 0..MaxPosts /\ r.read.expireDate \in 0 .. MaxTime + 2 * TimeWindow
  BY <1>0, <1>1, BusyRecord
<1>3. BucketsOf(r.buckets, r.owner) /\ r.started <= now /\ r.read.expireDate <= now + TimeWindow
  BY <1>0, <1>1 DEF RequestsFit
<1>4. /\ posts \in 0..MaxPosts /\ MaxPosts \in Nat /\ now \in Nat /\ TimeWindow \in Nat /\ MaxTime \in Nat
      /\ \A u \in User : named[u] \in Nat
      /\ r.limit \in Nat
  BY <1>2, RateAssumption DEF TypeOK
<1>5. b0 \in Bucket /\ Len(r.buckets) \in {1, 2}
  BY <1>3, FirstBucket
<1>6. next \in Request \cup {Idle} /\ next.stage \in {"idle", "next", "refused"}
  BY <1>2, <1>3, <1>a, AfterType
<1>7. next.stage = "next" =>
        /\ Len(r.buckets) = 2 /\ next.buckets = Tail(r.buckets)
        /\ next.owner = r.owner /\ next.started = r.started
  BY <1>2, <1>3, <1>a, AfterType
<1>8. next.stage = "refused" =>
        ~(n <= r.limit) /\ Len(r.buckets) = 1 /\ next.owner = r.owner /\ next.limit = r.limit
  BY <1>2, <1>3, <1>a, AfterType
<1>9. \A v \in Worker : worker'[v] = IF v = w THEN next ELSE worker[v]
  BY <1>1 DEF TypeOK
<1>10. w \in Pending(b0) /\ w \notin Pending(b0)' /\ \A b : Pending(b)' \subseteq Pending(b)
  <2>1. r.buckets[1] = b0 /\ Len(r.buckets) \in {1, 2}
    BY <1>3, FirstBucket
  <2>2. PendingOn(w, b0)
    BY <1>0, <1>1, <2>1 DEF PendingOn
  <2>3. ASSUME NEW b, PendingOn(w, b)' PROVE b # b0 /\ PendingOn(w, b)
    <3>1. next.stage = "next" /\ \E i \in 1..Len(next.buckets) : next.buckets[i] = b
      BY <1>6, <1>9, <2>3 DEF PendingOn, Busy
    <3>2. Len(r.buckets) = 2 /\ Len(next.buckets) = 1 /\ next.buckets[1] = r.buckets[2]
          /\ r.buckets[2] # r.buckets[1]
      <4>1. Len(r.buckets) = 2 /\ next.buckets = Tail(r.buckets)
        BY <1>7, <3>1
      <4> QED  BY <1>3, <4>1, FirstBucket
    <3>3. b = r.buckets[2]
      BY <3>1, <3>2
    <3> QED  BY <1>0, <1>1, <2>1, <3>2, <3>3 DEF PendingOn
  <2>4. ASSUME NEW b, NEW v \in Worker, v # w, PendingOn(v, b)' PROVE PendingOn(v, b)
    BY <1>9, <2>4 DEF PendingOn, Busy
  <2> QED  BY <2>2, <2>3, <2>4 DEF Pending
<1>11. /\ \A b : Waiting(b)' \in Nat /\ Waiting(b) \in Nat /\ Waiting(b)' <= Waiting(b)
       /\ Waiting(b0)' + 1 <= Waiting(b0)
  <2>1. \A b : Waiting(b)' \in Nat /\ Waiting(b) \in Nat /\ Waiting(b)' <= Waiting(b)
    <3> TAKE b
    <3>1. IsFiniteSet(Pending(b)) /\ Pending(b)' \in SUBSET Pending(b)
      BY <1>10, WaitingIsNatural
    <3> QED  BY <3>1, FS_Subset, WaitingIsNatural, WaitingStaysNatural DEF Waiting
  <2>2. Cardinality(Pending(b0) \ {w}) = Waiting(b0) - 1 /\ IsFiniteSet(Pending(b0) \ {w})
    BY <1>10, WaitingIsNatural, FS_RemoveElement DEF Waiting
  <2>3. Pending(b0)' \in SUBSET (Pending(b0) \ {w})
    BY <1>10
  <2>4. Waiting(b0)' <= Waiting(b0) - 1
    BY <2>2, <2>3, FS_Subset DEF Waiting
  <2> QED  BY <2>1, <2>4
<1>12. /\ n \in 1..MaxPosts /\ Within(b0, n + Waiting(b0)')
  <2>1. Within(b0, r.read.count + Waiting(b0))
    BY <1>0, <1>1 DEF CountsFit
  <2>2. PICK k \in Nat, m \in Nat : k = Waiting(b0)' /\ m = Waiting(b0) /\ k + 1 <= m
    BY <1>11
  <2>3. n \in Nat /\ n >= 1 /\ n + k <= r.read.count + m /\ n <= n + k
        /\ r.read.count + m \in Nat /\ n + k \in Nat
    <3>1. r.read.count \in Nat /\ n = r.read.count + 1
      BY <1>2
    <3> HIDE DEF n
    <3> QED  BY <2>2, <3>1
  <2> HIDE DEF n
  <2>4. Within(b0, n + k)
    BY <2>1, <2>2, <2>3, WithinLess
  <2>5. n <= posts
    BY <2>3, <2>4, WithinLess
  <2>6. n \in 1..MaxPosts
    BY <1>4, <2>3, <2>5
  <2> QED  BY <2>2, <2>4, <2>6
<1>13. \A b, m : Within(b, m)' <=> Within(b, m)
  BY <1>1 DEF Within
<1>14. \A c \in counters' : IF c.bucket = b0 THEN c.count = n ELSE c \in counters
  BY <1>1, <1>2, <1>3, <1>4, <1>5, <1>12, UpsertType
<1>15. \A b : \A m \in Nat : Within(b, m + Waiting(b)) => Within(b, m + Waiting(b)')
  BY <1>4, <1>11 DEF Within
<1>16. CountsFit'
  <2>1. ASSUME NEW b \in Bucket PROVE Within(b, Waiting(b)')
    <3>1. Within(b, Waiting(b))
      BY DEF CountsFit
    <3> QED  BY <1>4, <1>11, <3>1 DEF Within
  <2>2. ASSUME NEW c \in counters' PROVE Within(c.bucket, c.count + Waiting(c.bucket)')
    <3>1. CASE c.bucket = b0
      BY <1>12, <1>14, <3>1
    <3>2. CASE c.bucket # b0
      <4>0. c \in counters
        BY <1>14, <2>2, <3>2
      <4>1. c \in counters /\ c.count \in Nat
        BY <4>0 DEF TypeOK
      <4>2. Within(c.bucket, c.count + Waiting(c.bucket))
        BY <4>1 DEF CountsFit
      <4> QED  BY <1>15, <4>1, <4>2
    <3> QED  BY <3>1, <3>2
  <2>3. ASSUME NEW v \in Worker, worker'[v].stage = "count"
        PROVE  /\ worker'[v] = worker[v]
               /\ \A b : b = Head(worker[v].buckets) => Within(b, worker[v].read.count + Waiting(b)')
    <3>1. worker'[v] = worker[v] /\ worker[v].stage = "count" /\ Busy(v)
      BY <1>6, <1>9, <2>3 DEF Busy
    <3>2. worker[v].read.count \in Nat
      BY <3>1, BusyRecord
    <3>3. Within(Head(worker[v].buckets), worker[v].read.count + Waiting(Head(worker[v].buckets)))
      BY <3>1 DEF CountsFit
    <3> QED  BY <1>15, <3>1, <3>2, <3>3
  <2> QED  BY <1>1, <1>13, <2>1, <2>2, <2>3 DEF CountsFit
<1>17. RequestsFit'
  <2>1. SUFFICES ASSUME NEW v \in Worker
        PROVE /\ Busy(v)' => BucketsOf(worker'[v].buckets, worker'[v].owner) /\ worker'[v].started <= now
              /\ worker'[v].stage = "next" => Len(worker'[v].buckets) = 1
              /\ worker'[v].stage = "count" => worker'[v].read.expireDate <= now + TimeWindow
    BY <1>1 DEF RequestsFit
  <2>2. CASE v # w
    BY <1>9, <2>2 DEF RequestsFit, Busy
  <2>3. CASE v = w
    <3>1. worker'[v] = next
      BY <1>9, <2>3
    <3>2. CASE next.stage = "next"
      <4>1. Len(Tail(r.buckets)) = 1 /\ BucketsOf(Tail(r.buckets), r.owner)
        BY <1>3, <1>7, <3>2, FirstBucket
      <4> QED  BY <1>3, <1>7, <3>1, <3>2, <4>1
    <3>3. CASE next.stage # "next"
      BY <1>6, <3>1, <3>3 DEF Busy
    <3> QED  BY <3>2, <3>3
  <2> QED  BY <2>2, <2>3
<1>18. OwnLimitIsKept'
  <2>1. SUFFICES ASSUME NEW v \in Worker, NEW u \in User, worker'[v].stage = "refused", worker'[v].owner = u
                 PROVE  named[u] > worker'[v].limit
    BY <1>1 DEF OwnLimitIsKept
  <2>2. CASE v # w
    BY <1>9, <2>1, <2>2 DEF OwnLimitIsKept
  <2>3. CASE v = w
    <3>1. ~(n <= r.limit) /\ Len(r.buckets) = 1 /\ r.owner = u /\ worker'[v].limit = r.limit
      BY <1>8, <1>9, <2>1, <2>3
    <3>2. b0 = <<"own", u>>
      BY <1>3, <3>1, FirstBucket, RateAssumption
    <3>3. n + Waiting(b0)' <= named[u]
      BY <1>12, <3>2 DEF Within
    <3> QED  BY <1>4, <1>11, <1>12, <3>1, <3>3
  <2> QED  BY <2>2, <2>3
<1>19. TypeOK'
  <2>1. /\ counters' \subseteq [bucket : Bucket, count : 1..MaxPosts, expireDate : 0 .. now + TimeWindow]
        /\ \A c, d \in counters' : c.bucket = d.bucket => c = d
    BY <1>1, <1>2, <1>3, <1>4, <1>5, <1>12, UpsertType
  <2>2. worker' \in [Worker -> Request \cup {Idle}]
    BY <1>1, <1>6 DEF TypeOK
  <2> QED  BY <1>1, <2>1, <2>2 DEF TypeOK, Request
<1> QED  BY <1>16, <1>17, <1>18, <1>19

\* A worker reads the counter of the next sender.
LEMMA NextSenderKeeps ==
  ASSUME IInv, NEW w \in Worker, NextSender(w)
  PROVE  IInv'
<1> USE DEF IInv
<1>0. PICK r : r = worker[w]
  OBVIOUS
<1>a. PICK new : new = Counting(r.owner, r.limit, r.buckets, r.started)
  OBVIOUS
<1>1. /\ r.stage = "next" /\ Busy(w)
      /\ worker' = [worker EXCEPT ![w] = new]
      /\ now' = now /\ parent' = parent /\ counters' = counters /\ named' = named /\ posts' = posts
  BY <1>0, <1>a DEF NextSender, Busy
<1>2. r \in [stage : {"count", "next"}, owner : User \cup {Nobody},
             limit : {Limit, AppsLimit}, buckets : Seq(Bucket) \ {<<>>},
             started : 0..MaxTime, read : Read]
  BY <1>0, <1>1, BusyRecord
<1>3. BucketsOf(r.buckets, r.owner) /\ r.started <= now
  BY <1>0, <1>1 DEF RequestsFit
<1>4. PICK b0 \in Bucket : b0 = Head(r.buckets)
  BY <1>3, FirstBucket
<1>5. /\ new.stage = "count" /\ new.owner = r.owner /\ new.limit = r.limit
      /\ new.buckets = r.buckets /\ new.started = r.started /\ new.read = Look(b0, r.started)
  BY <1>4, <1>a DEF Counting
<1>6. /\ new.read \in Read /\ new.read.count \in Nat
      /\ new.read.expireDate <= now + TimeWindow
      /\ Within(b0, new.read.count + Waiting(b0))
  BY <1>2, <1>3, <1>5, LookFits
<1>7. new \in Request
  <2>1. new = [stage |-> "count", owner |-> r.owner, limit |-> r.limit, buckets |-> r.buckets,
               started |-> r.started, read |-> new.read]
    BY <1>a DEF Counting
  <2> QED  BY <1>2, <1>6, <2>1 DEF Request
<1>8. \A v \in Worker : worker'[v] = IF v = w THEN new ELSE worker[v]
  BY <1>1 DEF TypeOK
<1>9. \A b : Pending(b)' = Pending(b) /\ Waiting(b)' = Waiting(b)
  <2>1. TAKE b
  <2>2. \A v \in Worker : v # w => PendingOn(v, b)' = PendingOn(v, b)
    BY <1>8 DEF PendingOn, Busy
  <2>3. Busy(w)' /\ worker'[w].buckets = worker[w].buckets
    BY <1>0, <1>5, <1>8 DEF Busy
  <2>4. PendingOn(w, b)' = PendingOn(w, b)
    BY <1>1, <2>3 DEF PendingOn
  <2>5. Pending(b)' = Pending(b)
    BY <2>2, <2>4 DEF Pending
  <2> QED  BY <2>5, <1>1 DEF Waiting
<1>10. CountsFit'
  <2>1. ASSUME NEW v \in Worker, worker'[v].stage = "count", NEW b, b = Head(worker'[v].buckets)
        PROVE  Within(b, worker'[v].read.count + Waiting(b))
    <3>1. CASE v = w
      BY <1>4, <1>5, <1>6, <1>8, <2>1, <3>1
    <3>2. CASE v # w
      BY <1>8, <2>1, <3>2 DEF CountsFit
    <3> QED  BY <3>1, <3>2
  <2> QED  BY <1>1, <1>9, <2>1 DEF CountsFit, Within
<1>11. RequestsFit'
  BY <1>1, <1>3, <1>5, <1>6, <1>8 DEF RequestsFit, Busy
<1>12. OwnLimitIsKept'
  BY <1>1, <1>5, <1>8 DEF OwnLimitIsKept
<1>13. TypeOK'
  BY <1>1, <1>7 DEF TypeOK, Request
<1> QED  BY <1>10, <1>11, <1>12, <1>13

LEMMA RefuseKeeps ==
  ASSUME IInv, NEW w \in Worker, Refuse(w)
  PROVE  IInv'
<1> USE DEF IInv
<1>1. /\ worker[w].stage = "refused" /\ Idle.stage = "idle"
      /\ worker' = [worker EXCEPT ![w] = Idle]
      /\ now' = now /\ parent' = parent /\ counters' = counters /\ named' = named /\ posts' = posts
  BY DEF Refuse, Idle
<1>2. \A v \in Worker : worker'[v] = IF v = w THEN Idle ELSE worker[v]
  BY <1>1 DEF TypeOK
<1>3. \A b : Pending(b)' = Pending(b) /\ Waiting(b)' = Waiting(b)
  BY <1>1, <1>2 DEF Pending, PendingOn, Busy, Waiting
<1>4. CountsFit'
  BY <1>1, <1>2, <1>3 DEF CountsFit, Within
<1>5. RequestsFit' /\ OwnLimitIsKept'
  BY <1>1, <1>2 DEF RequestsFit, OwnLimitIsKept, Busy
<1>6. TypeOK'
  BY <1>1 DEF TypeOK, Request
<1> QED  BY <1>4, <1>5, <1>6

-----------------------------------------------------------------------------
(* The theorems.                                                           *)

LEMMA InvStep ==
  ASSUME IInv, [Next]_vars
  PROVE  IInv'
<1>1. CASE UNCHANGED vars
  <2>1. now \in Int /\ worker' = worker /\ now' = now /\ counters' = counters /\ parent' = parent
        /\ named' = named /\ posts' = posts
    BY <1>1, RateAssumption DEF vars, IInv, TypeOK
  <2>2. TypeOK'
    BY <2>1 DEF IInv, TypeOK, Request
  <2> QED  BY <2>1, <2>2, EnvironmentKeeps DEF IInv
<1>2. CASE Next
  BY <1>2, TickKeeps, ConnectKeeps, ExpireKeeps, PostKeeps, CountKeeps, NextSenderKeeps, RefuseKeeps DEF Next
<1> QED  BY <1>1, <1>2

\* Every count fits what was posted, whatever workers write back late.
THEOREM CountsAlwaysFit == Spec => []IInv
<1>1. Init => IInv
  BY InvInit
<1>2. IInv /\ [Next]_vars => IInv'
  BY InvStep
<1> QED  BY <1>1, <1>2, PTL DEF Spec

\* Every bucket has one counter, of no more than the operations posted, that ends
\* at most a window from now.
THEOREM TypeCorrect == Spec => []TypeOK
<1>1. IInv => TypeOK
  BY DEF IInv
<1> QED  BY <1>1, CountsAlwaysFit, PTL

\* A verified user is refused only after more operations than the limit have named
\* it, for any number of users, apps and workers and all limits.
THEOREM OwnLimit == Spec => []OwnLimitIsKept
<1>1. IInv => OwnLimitIsKept
  BY DEF IInv
<1> QED  BY <1>1, CountsAlwaysFit, PTL
=============================================================================
