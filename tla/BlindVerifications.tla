------------------------- MODULE BlindVerifications -------------------------
(***************************************************************************)
(* How a user gets from "verified" to "unique for an app" without the node  *)
(* learning which account is theirs (index.js, verificationPublicGet to     *)
(* verificationAppUserIdPost).  A client fetches public parameters, has the *)
(* node sign its blinded uid, unblinds the signature and posts the uid with *)
(* the id of its account.  Requests of different clients run at the same    *)
(* time in the workers of the database, and a client that hears nothing     *)
(* sends its request again, maybe while the first one is still running.     *)
(*                                                                          *)
(* One app and one of its verifications; a period is a roundedTimestamp.    *)
(* Signatures are perfect here: a response gives one signature, for the uid *)
(* (with its blinding numbers) whose challenge it answers, so requests and  *)
(* stored responses carry that uid; the node reads neither.                 *)
(* The number of the parameters stands for `public', which the node takes   *)
(* from anybody, and the account is named only by the request that posts.   *)
(* WISchnorr models how signatures are computed.                            *)
(***************************************************************************)
EXTENDS Integers

CONSTANTS
  User, Client, Worker,
  UserOf,        \* the user whose key a client holds
  Account, Uid,  \* what a request names: appUserId and uid
  MaxPeriod,     \* bound: the newest roundedTimestamp
  MaxParams      \* bound: how many parameters are handed out

ASSUME BlindAssumption ==
  UserOf \in [Client -> User] /\ MaxPeriod \in Nat /\ MaxParams \in Nat

VARIABLES
  period,     \* serverRoundedTimestamp
  verified,   \* the users for whom isVerifiedFor holds
  handed,     \* number of the last parameters generated
  cached,     \* cachedParams: parameters and the period they are for
  signed,     \* signedVerifications: [id, period, pub, uid]
  appIds,     \* appIds: [uid, appId, period]; copies of a document count as one
  client,     \* what a client keeps
  worker      \* a request between a look at the database and its insert

vars == <<period, verified, handed, cached, signed, appIds, client, worker>>

Params == 1..MaxParams
Period == 0..MaxPeriod
Idle == [op |-> "none"]
Nothing == [phase |-> "idle"]
Holding(phase, pub, x, t) == [phase |-> phase, pub |-> pub, uid |-> x, period |-> t]

\* A client keeps parameters, and the uid it has blinded with them.
Holds(c) == client[c].phase # "idle"

Init ==
  /\ period = 0
  /\ verified = {}
  /\ handed = 0
  /\ cached = {}
  /\ signed = {}
  /\ appIds = {}
  /\ client = [c \in Client |-> Nothing]
  /\ worker = [w \in Worker |-> Idle]

-----------------------------------------------------------------------------
(* The environment.                                                        *)

\* Date.now() / verificationExpirationLength moves on.
NextPeriod ==
  /\ period < MaxPeriod
  /\ period' = period + 1
  /\ UNCHANGED <<verified, handed, cached, signed, appIds, client, worker>>

\* The scorer verifies a user, or does so no longer.
Score(u) ==
  /\ verified' = IF u \in verified THEN verified \ {u} ELSE verified \cup {u}
  /\ UNCHANGED <<period, handed, cached, signed, appIds, client, worker>>

\* The TTL index of cachedParams removes a document ten minutes old.
CachedExpire ==
  /\ \E d \in cached : cached' = cached \ {d}
  /\ UNCHANGED <<period, verified, handed, signed, appIds, client, worker>>

\* A client loses what it kept in memory.
Forget(c) ==
  /\ Holds(c)
  /\ client' = [client EXCEPT ![c] = Nothing]
  /\ UNCHANGED <<period, verified, handed, cached, signed, appIds, worker>>

\* A client blinds a uid with parameters the node has given to another one.
TakePublic(c) ==
  /\ ~Holds(c)
  /\ \E d \in cached, x \in Uid :
       client' = [client EXCEPT ![c] = Holding("blinded", d.pub, x, d.period)]
  /\ UNCHANGED <<period, verified, handed, cached, signed, appIds, worker>>

-----------------------------------------------------------------------------
(* GET /verifications/blinded/public                                       *)

\* A node that takes the roundedTimestamp of the client as it is.
PublicGetUnchecked(c) ==
  /\ ~Holds(c)
  /\ handed < MaxParams
  /\ handed' = handed + 1
  /\ \E t \in {period, period + 1}, x \in Uid :
       /\ cached' = cached \cup {[pub |-> handed', period |-> t]}
       /\ client' = [client EXCEPT ![c] = Holding("blinded", handed', x, t)]
  /\ UNCHANGED <<period, verified, signed, appIds, worker>>

\* The node takes no other period than its own; the client blinds a uid.
PublicGet(c) ==
  /\ ~Holds(c)
  /\ handed < MaxParams
  /\ handed' = handed + 1
  /\ cached' = cached \cup {[pub |-> handed', period |-> period]}
  /\ \E x \in Uid : client' = [client EXCEPT ![c] = Holding("blinded", handed', x, period)]
  /\ UNCHANGED <<period, verified, signed, appIds, worker>>

-----------------------------------------------------------------------------
(* GET /verifications/blinded/sig/:id                                      *)

\* A lookup of the earlier response that wants the parameters cached still.
ByPublicCached(pub) == {s \in signed : s.pub = pub /\ \E d \in cached : d.pub = pub}

\* signedVerificationsColl.firstExample({ publicHash })
ByPublic(pub) == {s \in signed : s.pub = pub}

\* signedVerificationsColl.firstExample(q), and the unique index of q
ByQuery(id, t) == {s \in signed : s.id = id /\ s.period = t}

\* A response comes back: the one of the request that inserted it, or of a repeated
\* request, which is answered with a document that has its public before anything else
\* is looked at. It is of use only to a client with the uid whose challenge it answers.
\* A response that is lost on the way is no step.
SigResponse(c) ==
  /\ client[c].phase = "blinded"
  /\ \E s \in ByPublic(client[c].pub) :
       /\ s.uid = client[c].uid
       /\ client' = [client EXCEPT ![c] = [@ EXCEPT !.phase = "signed"]]
  /\ UNCHANGED <<period, verified, handed, cached, signed, appIds, worker>>

\* Without such a document the parameters must still be cached, the user verified, and not
\* signed for in the period of the parameters.
SigCheck(w, c) ==
  /\ worker[w].op = "none"
  /\ client[c].phase = "blinded"
  /\ ByPublic(client[c].pub) = {}
  /\ UserOf[c] \in verified
  /\ \E d \in cached :
       /\ d.pub = client[c].pub
       /\ ByQuery(UserOf[c], d.period) = {}
       /\ worker' = [worker EXCEPT ![w] = [op |-> "sign", id |-> UserOf[c], pub |-> d.pub,
                                           uid |-> client[c].uid, period |-> d.period]]
  /\ UNCHANGED <<period, verified, handed, cached, signed, appIds, client>>

Doc(w) == [id |-> worker[w].id, period |-> worker[w].period,
           pub |-> worker[w].pub, uid |-> worker[w].uid]

\* An insert into a collection without the unique index.
SigInsertUnindexed(w) ==
  /\ worker[w].op = "sign"
  /\ signed' = signed \cup {Doc(w)}
  /\ worker' = [worker EXCEPT ![w] = Idle]
  /\ UNCHANGED <<period, verified, handed, cached, appIds, client>>

\* The insert: the unique index refuses a second document.
SigInsert(w) ==
  /\ worker[w].op = "sign"
  /\ signed' = IF ByQuery(worker[w].id, worker[w].period) = {} THEN signed \cup {Doc(w)} ELSE signed
  /\ worker' = [worker EXCEPT ![w] = Idle]
  /\ UNCHANGED <<period, verified, handed, cached, appIds, client>>

-----------------------------------------------------------------------------
(* POST /verifications/:app/:appUserId                                     *)

\* appIdsColl.firstExample({ uid })
ByUid(x) == {d \in appIds : d.uid = x}

\* The request names an account of its own; what is signed is the uid and the period.
PostRequest(c, a) ==
  [op |-> "post", uid |-> client[c].uid, account |-> a, period |-> client[c].period]

\* A lookup that is forgotten.
PostCheckBlindly(w, c) ==
  /\ worker[w].op = "none"
  /\ client[c].phase = "signed"
  /\ \E a \in Account : worker' = [worker EXCEPT ![w] = PostRequest(c, a)]
  /\ UNCHANGED <<period, verified, handed, cached, signed, appIds, client>>

\* A uid that is known is refused.
PostCheck(w, c) ==
  /\ worker[w].op = "none"
  /\ client[c].phase = "signed"
  /\ ByUid(client[c].uid) = {}
  /\ \E a \in Account : worker' = [worker EXCEPT ![w] = PostRequest(c, a)]
  /\ UNCHANGED <<period, verified, handed, cached, signed, appIds, client>>

\* The insert does not look again: a uid that another worker has inserted since gets
\* a second document, maybe with another account.
PostInsert(w) ==
  /\ worker[w].op = "post"
  /\ appIds' = appIds \cup {[uid |-> worker[w].uid, appId |-> worker[w].account,
                             period |-> worker[w].period]}
  /\ worker' = [worker EXCEPT ![w] = Idle]
  /\ UNCHANGED <<period, verified, handed, cached, signed, client>>

\* A client that hears its uid is registered, by its request or by one before, is done.
PostDone(c) ==
  /\ client[c].phase = "signed"
  /\ ByUid(client[c].uid) # {}
  /\ client' = [client EXCEPT ![c] = Nothing]
  /\ UNCHANGED <<period, verified, handed, cached, signed, appIds, worker>>

\* What verificationsGet says of an account: it signs "unique" on the strength of a
\* document of the period.
Unique(a, t) == \E d \in appIds : d.appId = a /\ d.period = t

\* getAppUserIds: the accounts that are unique in a period.
AppUserIds(t) == {a \in Account : Unique(a, t)}

-----------------------------------------------------------------------------
Next ==
  \/ NextPeriod
  \/ \E u \in User : Score(u)
  \/ CachedExpire
  \/ \E c \in Client :
       \/ Forget(c) \/ TakePublic(c) \/ PublicGet(c) \/ SigResponse(c) \/ PostDone(c)
       \/ \E w \in Worker : SigCheck(w, c) \/ PostCheck(w, c)
  \/ \E w \in Worker : SigInsert(w) \/ PostInsert(w)

Spec == Init /\ [][Next]_vars

\* With two documents of one public, the first example may always be the other one.
SigRetry(c) == SigResponse(c) /\ \A s \in ByPublic(client[c].pub) : s.uid = client[c].uid

Retry(c) == SigRetry(c) \/ PostDone(c) \/ \E w \in Worker : PostCheck(w, c)

\* A client sends its request again until it hears the answer, the network does
\* not lose every answer, and a worker ends its request.
Fairness ==
  /\ \A c \in Client : SF_vars(Retry(c))
  /\ \A w \in Worker : WF_vars(SigInsert(w) \/ PostInsert(w))

FairSpec == Spec /\ Fairness

-----------------------------------------------------------------------------
(* Properties.                                                             *)

Held == {Nothing} \cup [phase : {"blinded", "signed"}, pub : Params, uid : Uid, period : Period]
SignRequest == [op : {"sign"}, id : User, pub : Params, uid : Uid, period : Period]
UidRequest == [op : {"post"}, uid : Uid, account : Account, period : Period]

\* Types of the collections, the clients and the workers.
TypeOK ==
  /\ period \in Period
  /\ verified \subseteq User
  /\ handed \in 0..MaxParams
  /\ cached \subseteq [pub : Params, period : Period]
  /\ signed \subseteq [id : User, period : Period, pub : Params, uid : Uid]
  /\ appIds \subseteq [uid : Uid, appId : Account, period : Period]
  /\ client \in [Client -> Held]
  /\ worker \in [Worker -> {Idle} \cup SignRequest \cup UidRequest]

Registry == INSTANCE UniqueRegistry WITH
  Request <- Worker,
  seat <- [u \in User |-> [t \in Period |-> {s.uid : s \in ByQuery(u, t)}]],
  open <- [w \in Worker |-> IF worker[w].op = "post"
                            THEN {<<worker[w].uid, worker[w].period>>} ELSE {}],
  taken <- {d.uid : d \in appIds},
  members <- [t \in Period |-> AppUserIds(t)]

\* However requests of several devices and users, with their own or one another's
\* parameters, repeated requests, lost answers and the end of a period interleave, the
\* node grants a user one uid in a period, lets in only granted uids, for their period
\* and while nothing is registered for them, and enters one account for a request it
\* let in: a uid brings no more accounts than there are requests that were looked up
\* before its first insert (index.js, verificationSigGet; db.js,
\* insertAppUserIdVerification).
ImplementsRegistry == Registry!Spec

\* A client whose uid the node has signed gets it registered unless it forgets it: a
\* lost response can be fetched again with the same public, also when the cached
\* parameters are gone, the period is over or the user is no longer verified (the
\* comment at the head of verificationSigGet). It is not promised when the public was
\* signed for two users at once: then either may be given the other's response.
SignedIsRegistered ==
  \A c \in Client, i \in Params, x \in Uid :
    (/\ \E s \in ByPublic(i) : s.uid = x
     /\ Holds(c)
     /\ client[c].pub = i /\ client[c].uid = x)
    ~> (ByUid(x) # {} \/ ~Holds(c) \/ \E s \in ByPublic(i) : s.uid # x)
=============================================================================
