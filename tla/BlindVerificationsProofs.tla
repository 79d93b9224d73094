---------------------- MODULE BlindVerificationsProofs ----------------------
(***************************************************************************)
(* TypeCorrect and RefinesRegistry: however many users, devices, workers,  *)
(* parameters and periods there are, a user is granted one uid in a period, *)
(* a uid is let in only if it was granted and is not registered, and a      *)
(* request that was let in enters one account.                              *)
(*                                                                         *)
(* The collections do not name the parameters a uid was blinded with, and   *)
(* signedVerifications keeps no copy of them, so the invariant says that    *)
(* the parameters have a period each: Dated gives every parameter one, and  *)
(* whatever is kept of it, by a client, a worker or a collection, agrees.   *)
(*                                                                         *)
(* SignaturesVerify and EveryResponseFitsSignatures, in the second part,    *)
(* are about WISchnorr, the algorithms that make these signatures.          *)
(***************************************************************************)
EXTENDS BlindVerifications, WISchnorr, FiniteSetTheorems, TLAPS

\* Parameters that were not handed out may be of any period.
Dates == [Params -> Period]

\* Everything that is kept of a parameter agrees with its period.
Dated(date) ==
  /\ \A c \in Client : Holds(c) => date[client[c].pub] = client[c].period
  /\ \A job \in Worker : worker[job].op = "sign" => date[worker[job].pub] = worker[job].period
  /\ \A d \in cached : date[d.pub] = d.period
  /\ \A s \in signed : date[s.pub] = s.period

\* Nothing is kept of parameters that were not handed out.
OnlyHanded ==
  /\ \A c \in Client : Holds(c) => client[c].pub <= handed
  /\ \A job \in Worker : worker[job].op = "sign" => worker[job].pub <= handed
  /\ \A d \in cached : d.pub <= handed
  /\ \A s \in signed : s.pub <= handed

\* The unique index of signedVerifications.
OneSignature == \A s, per \in signed : s.id = per.id /\ s.period = per.period => s = per

SignedUid(given, per) == \E s \in signed : s.uid = given /\ s.period = per

\* A uid is used after it was signed, for the period it was signed for.
SignedFirst ==
  /\ \A c \in Client : client[c].phase = "signed" => SignedUid(client[c].uid, client[c].period)
  /\ \A job \in Worker : worker[job].op = "post" => SignedUid(worker[job].uid, worker[job].period)

IInv ==
  /\ TypeOK
  /\ OnlyHanded
  /\ OneSignature
  /\ SignedFirst
  /\ \E date \in Dates : Dated(date)

-----------------------------------------------------------------------------
(* Type correctness.                                                       *)

\* What a client holds, and what a worker works on.
LEMMA HeldRecord ==
  ASSUME TypeOK, NEW c \in Client, Holds(c)
  PROVE  client[c] \in [phase : {"blinded", "signed"}, pub : Params, uid : Uid, period : Period]
  BY DEF TypeOK, Held, Nothing, Holds

LEMMA SignRecord ==
  ASSUME TypeOK, NEW job \in Worker, worker[job].op = "sign"
  PROVE  worker[job] \in SignRequest
  BY DEF TypeOK, SignRequest, UidRequest, Idle

LEMMA PostRecord ==
  ASSUME TypeOK, NEW job \in Worker, worker[job].op = "post"
  PROVE  worker[job] \in UidRequest
  BY DEF TypeOK, SignRequest, UidRequest, Idle

LEMMA HoldingType ==
  ASSUME NEW par \in Params, NEW given \in Uid, NEW per \in Period
  PROVE  Holding("blinded", par, given, per) \in Held
  BY DEF Holding, Held

LEMMA TypeStep ==
  ASSUME TypeOK, [Next]_vars
  PROVE  TypeOK'
<1> USE BlindAssumption
<1>1. CASE NextPeriod
  BY <1>1 DEF NextPeriod, TypeOK, Period
<1>2. CASE \E u \in User : Score(u)
  BY <1>2 DEF Score, TypeOK
<1>3. CASE CachedExpire
  BY <1>3 DEF CachedExpire, TypeOK
<1>4. ASSUME NEW c \in Client, Forget(c) \/ PostDone(c)
      PROVE  TypeOK'
  BY <1>4 DEF Forget, PostDone, TypeOK, Held
<1>5. ASSUME NEW c \in Client, PublicGet(c)
      PROVE  TypeOK'
  <2>1. handed' \in Params /\ handed' \in 0..MaxParams
    BY <1>5 DEF PublicGet, TypeOK, Params
  <2>2. [pub |-> handed', period |-> period] \in [pub : Params, period : Period]
    BY <2>1 DEF TypeOK
  <2>3. PICK given \in Uid : client' = [client EXCEPT ![c] = Holding("blinded", handed', given, period)]
    BY <1>5 DEF PublicGet
  <2>4. Holding("blinded", handed', given, period) \in Held
    BY <2>1, HoldingType DEF TypeOK
  <2>5. client' \in [Client -> Held]
    BY <2>3, <2>4 DEF TypeOK
  <2> QED  BY <1>5, <2>1, <2>2, <2>5 DEF PublicGet, TypeOK
<1>6. ASSUME NEW c \in Client, TakePublic(c)
      PROVE  TypeOK'
  <2>1. PICK d \in cached, given \in Uid :
          client' = [client EXCEPT ![c] = Holding("blinded", d.pub, given, d.period)]
    BY <1>6 DEF TakePublic
  <2>2. Holding("blinded", d.pub, given, d.period) \in Held
    BY HoldingType DEF TypeOK
  <2>3. client' \in [Client -> Held]
    BY <2>1, <2>2 DEF TypeOK
  <2> QED  BY <1>6, <2>3 DEF TakePublic, TypeOK
<1>7. ASSUME NEW c \in Client, SigResponse(c)
      PROVE  TypeOK'
  <2>1. [client[c] EXCEPT !.phase = "signed"] \in Held
    <3>1. client[c] \in [phase : {"blinded", "signed"}, pub : Params, uid : Uid, period : Period]
      BY <1>7, HeldRecord DEF SigResponse, Holds
    <3> QED  BY <3>1 DEF Held
  <2>2. client' \in [Client -> Held]
    BY <1>7, <2>1 DEF SigResponse, TypeOK
  <2> QED  BY <1>7, <2>2 DEF SigResponse, TypeOK
<1>8. ASSUME NEW job \in Worker, NEW c \in Client, SigCheck(job, c)
      PROVE  TypeOK'
  <2>1. PICK d \in cached :
          worker' = [worker EXCEPT ![job] = [op |-> "sign", id |-> UserOf[c], pub |-> d.pub,
                                             uid |-> client[c].uid, period |-> d.period]]
    BY <1>8 DEF SigCheck
  <2>2. client[c].uid \in Uid
    BY <1>8, HeldRecord DEF SigCheck, Holds
  <2>3. [op |-> "sign", id |-> UserOf[c], pub |-> d.pub, uid |-> client[c].uid, period |-> d.period]
          \in SignRequest
    BY <2>2 DEF TypeOK, SignRequest
  <2>4. worker' \in [Worker -> {Idle} \cup SignRequest \cup UidRequest]
    BY <2>1, <2>3 DEF TypeOK
  <2> QED  BY <1>8, <2>4 DEF SigCheck, TypeOK
<1>9. ASSUME NEW job \in Worker, NEW c \in Client, PostCheck(job, c)
      PROVE  TypeOK'
  <2>1. PICK given \in Account : worker' = [worker EXCEPT ![job] = PostRequest(c, given)]
    BY <1>9 DEF PostCheck
  <2>2. client[c].uid \in Uid /\ client[c].period \in Period
    BY <1>9, HeldRecord DEF PostCheck, Holds
  <2>3. PostRequest(c, given) \in UidRequest
    BY <2>2 DEF PostRequest, UidRequest
  <2>4. worker' \in [Worker -> {Idle} \cup SignRequest \cup UidRequest]
    BY <2>1, <2>3 DEF TypeOK
  <2> QED  BY <1>9, <2>4 DEF PostCheck, TypeOK
<1>10. ASSUME NEW job \in Worker, SigInsert(job)
       PROVE  TypeOK'
  <2>1. Doc(job) \in [id : User, period : Period, pub : Params, uid : Uid]
    BY <1>10, SignRecord DEF SigInsert, SignRequest, Doc
  <2> QED  BY <1>10, <2>1 DEF SigInsert, TypeOK
<1>11. ASSUME NEW job \in Worker, PostInsert(job)
       PROVE  TypeOK'
  <2>1. worker[job] \in UidRequest
    BY <1>11, PostRecord DEF PostInsert
  <2>2. [uid |-> worker[job].uid, appId |-> worker[job].account, period |-> worker[job].period]
          \in [uid : Uid, appId : Account, period : Period]
    BY <2>1 DEF UidRequest
  <2> QED  BY <1>11, <2>2 DEF PostInsert, TypeOK
<1>12. CASE UNCHANGED vars
  BY <1>12 DEF vars, TypeOK
<1> QED  BY <1>1, <1>2, <1>3, <1>4, <1>5, <1>6, <1>7, <1>8, <1>9, <1>10, <1>11, <1>12 DEF Next

-----------------------------------------------------------------------------
(* The invariant.                                                          *)

SignedNext(given, per) == \E s \in signed' : s.uid = given /\ s.period = per

\* A client keeps what it held, maybe with the response to it ...
StillHeld(c) ==
  /\ Holds(c)
  /\ client'[c].pub = client[c].pub
  /\ client'[c].uid = client[c].uid
  /\ client'[c].period = client[c].period
  /\ client'[c].phase = "signed" =>
       client[c].phase = "signed" \/ SignedUid(client[c].uid, client[c].period)

\* ... or it has taken parameters that are cached.
Taken(c) ==
  /\ client'[c].phase = "blinded"
  /\ \E d \in cached : client'[c].pub = d.pub /\ client'[c].period = d.period

CarefulClients == \A c \in Client : Holds(c)' => StillHeld(c) \/ Taken(c)

\* A new request is for parameters that are cached, or for what a client has signed.
CarefulWork ==
  \A job \in Worker :
    \/ worker'[job] = worker[job]
    \/ worker'[job] = Idle
    \/ /\ worker'[job].op = "sign"
       /\ \E d \in cached : worker'[job].pub = d.pub /\ worker'[job].period = d.period
    \/ /\ worker'[job].op = "post"
       /\ \E c \in Client :
            /\ client[c].phase = "signed"
            /\ worker'[job].uid = client[c].uid /\ worker'[job].period = client[c].period

\* A new signature is one a worker checked, of a user without one.
NewSignature(s) ==
  \E job \in Worker : worker[job].op = "sign" /\ s = Doc(job) /\ ByQuery(s.id, s.period) = {}

\* What every step but PublicGet does.
Careful ==
  /\ handed' = handed
  /\ CarefulClients
  /\ CarefulWork
  /\ cached' \subseteq cached
  /\ signed \subseteq signed'
  /\ \A s \in signed' : s \in signed \/ NewSignature(s)
  /\ \A s, per \in signed' : s \in signed \/ per \in signed \/ s = per

LEMMA CarefulKeepsHanded ==
  ASSUME TypeOK, OnlyHanded, Careful
  PROVE  OnlyHanded'
<1>1. \A c \in Client : Holds(c)' => client'[c].pub <= handed'
  BY DEF Careful, CarefulClients, StillHeld, Taken, OnlyHanded
<1>2. \A job \in Worker : worker'[job].op = "sign" => worker'[job].pub <= handed'
  BY DEF Careful, CarefulWork, OnlyHanded, Idle
<1>3. \A d \in cached' : d.pub <= handed'
  BY DEF Careful, OnlyHanded
<1>4. \A s \in signed' : s.pub <= handed'
  <2>1. ASSUME NEW s, NewSignature(s)
        PROVE  s.pub <= handed
    BY <2>1 DEF NewSignature, Doc, OnlyHanded
  <2> QED  BY <2>1 DEF Careful, OnlyHanded
<1> QED  BY <1>1, <1>2, <1>3, <1>4 DEF OnlyHanded, Holds

LEMMA CarefulSignsOnce ==
  ASSUME OneSignature, Careful
  PROVE  OneSignature'
<1> SUFFICES ASSUME NEW s \in signed', NEW per \in signed', s.id = per.id, s.period = per.period
             PROVE  s = per
  BY DEF OneSignature
<1>1. CASE s \in signed /\ per \in signed
  BY <1>1 DEF OneSignature
<1>2. ASSUME NEW a \in signed, NEW b, NewSignature(b), a.id = b.id, a.period = b.period
      PROVE  FALSE
  BY <1>2 DEF NewSignature, ByQuery
<1> QED  BY <1>1, <1>2 DEF Careful

LEMMA CarefulSignsFirst ==
  ASSUME SignedFirst, Careful
  PROVE  SignedFirst'
<1>1. \A given, per : SignedUid(given, per) => SignedNext(given, per)
  BY DEF Careful, SignedUid, SignedNext
<1>2. ASSUME NEW c \in Client, client'[c].phase = "signed"
      PROVE  SignedNext(client'[c].uid, client'[c].period)
  <2>1. Holds(c)'
    BY <1>2 DEF Holds
  <2>2. StillHeld(c)
    BY <1>2, <2>1 DEF Careful, CarefulClients, Taken
  <2>3. SignedUid(client[c].uid, client[c].period)
    BY <1>2, <2>2 DEF StillHeld, SignedFirst
  <2> QED  BY <1>1, <2>2, <2>3 DEF StillHeld
<1>3. ASSUME NEW job \in Worker, worker'[job].op = "post"
      PROVE  SignedNext(worker'[job].uid, worker'[job].period)
  <2>1. SignedUid(worker'[job].uid, worker'[job].period)
    BY <1>3 DEF Careful, CarefulWork, SignedFirst, Idle
  <2> QED  BY <1>1, <2>1
<1> QED  BY <1>2, <1>3 DEF SignedFirst, SignedUid, SignedNext

LEMMA CarefulKeepsDates ==
  ASSUME Careful, NEW date, Dated(date)
  PROVE  Dated(date)'
<1>1. \A c \in Client : Holds(c)' => date[client'[c].pub] = client'[c].period
  BY DEF Careful, CarefulClients, StillHeld, Taken, Dated
<1>2. \A job \in Worker : worker'[job].op = "sign" => date[worker'[job].pub] = worker'[job].period
  BY DEF Careful, CarefulWork, Dated, Idle
<1>3. \A d \in cached' : date[d.pub] = d.period
  BY DEF Careful, Dated
<1>4. \A s \in signed' : date[s.pub] = s.period
  <2>1. ASSUME NEW s, NewSignature(s)
        PROVE  date[s.pub] = s.period
    BY <2>1 DEF NewSignature, Doc, Dated
  <2> QED  BY <2>1 DEF Careful, Dated
<1> QED  BY <1>1, <1>2, <1>3, <1>4 DEF Dated, Holds

LEMMA CarefulKeeps ==
  ASSUME IInv, TypeOK', Careful
  PROVE  IInv'
<1>1. TypeOK /\ OnlyHanded /\ OneSignature /\ SignedFirst
  BY DEF IInv
<1>2. PICK date \in Dates : Dated(date)
  BY DEF IInv
<1>3. Dated(date)'
  BY <1>2, CarefulKeepsDates
<1>4. (\E f \in Dates : Dated(f))'
  BY <1>3 DEF Dates, Params, Period
<1> QED  BY <1>1, <1>4, CarefulKeepsHanded, CarefulSignsOnce, CarefulSignsFirst DEF IInv

\* Steps that leave the clients alone, and steps that leave the workers alone.
LEMMA SameClients ==
  ASSUME UNCHANGED client
  PROVE  CarefulClients
  BY DEF CarefulClients, StillHeld, Holds

LEMMA SameWork ==
  ASSUME UNCHANGED worker
  PROVE  CarefulWork
  BY DEF CarefulWork

\* Nothing but PublicGet hands out parameters.
LEMMA OtherSteps ==
  ASSUME IInv, Next, ~\E c \in Client : PublicGet(c)
  PROVE  Careful
<1>0. TypeOK
  BY DEF IInv
<1>1. CASE NextPeriod \/ (\E u \in User : Score(u)) \/ CachedExpire
  BY <1>1, SameClients, SameWork DEF NextPeriod, Score, CachedExpire, Careful
<1>2. ASSUME NEW c \in Client, Forget(c) \/ PostDone(c)
      PROVE  Careful
  <2>1. CarefulClients
    <3>1. \A k \in Client : client'[k] = client[k] \/ client'[k] = Nothing
      BY <1>0, <1>2 DEF Forget, PostDone, TypeOK
    <3> QED  BY <3>1 DEF CarefulClients, StillHeld, Holds, Nothing
  <2> QED  BY <1>2, <2>1, SameWork DEF Forget, PostDone, Careful
<1>3. ASSUME NEW c \in Client, TakePublic(c)
      PROVE  Careful
  <2>1. PICK d \in cached, given \in Uid :
          client' = [client EXCEPT ![c] = Holding("blinded", d.pub, given, d.period)]
    BY <1>3 DEF TakePublic
  <2>2. Taken(c)
    BY <1>0, <2>1 DEF Taken, Holding, TypeOK
  <2>3. \A k \in Client \ {c} : client'[k] = client[k]
    BY <1>0, <2>1 DEF TypeOK
  <2>4. CarefulClients
    BY <2>2, <2>3 DEF CarefulClients, StillHeld, Holds
  <2> QED  BY <1>3, <2>4, SameWork DEF TakePublic, Careful
<1>4. ASSUME NEW c \in Client, SigResponse(c)
      PROVE  Careful
  <2>1. PICK s \in signed : s.pub = client[c].pub /\ s.uid = client[c].uid
    BY <1>4 DEF SigResponse, ByPublic
  <2>2. Holds(c)
    BY <1>4 DEF SigResponse, Holds
  <2>3. s.period = client[c].period
    <3>1. PICK date \in Dates : Dated(date)
      BY DEF IInv
    <3> QED  BY <2>1, <2>2, <3>1 DEF Dated
  <2>4. SignedUid(client[c].uid, client[c].period)
    BY <2>1, <2>3 DEF SignedUid
  <2>5. client'[c] = [client[c] EXCEPT !.phase = "signed"]
    BY <1>0, <1>4 DEF SigResponse, TypeOK
  <2>6. StillHeld(c)
    BY <1>0, <2>2, <2>4, <2>5, HeldRecord DEF StillHeld
  <2>7. \A k \in Client \ {c} : client'[k] = client[k]
    BY <1>0, <1>4 DEF SigResponse, TypeOK
  <2>8. CarefulClients
    BY <2>6, <2>7 DEF CarefulClients, StillHeld, Holds
  <2> QED  BY <1>4, <2>8, SameWork DEF SigResponse, Careful
<1>5. ASSUME NEW job \in Worker, NEW c \in Client, SigCheck(job, c)
      PROVE  Careful
  <2>1. PICK d \in cached :
          worker' = [worker EXCEPT ![job] = [op |-> "sign", id |-> UserOf[c], pub |-> d.pub,
                                             uid |-> client[c].uid, period |-> d.period]]
    BY <1>5 DEF SigCheck
  <2>2. CarefulWork
    <3>1. \A k \in Worker \ {job} : worker'[k] = worker[k]
      BY <1>0, <2>1 DEF TypeOK
    <3>2. worker'[job].op = "sign" /\ worker'[job].pub = d.pub /\ worker'[job].period = d.period
      BY <1>0, <2>1 DEF TypeOK
    <3> QED  BY <3>1, <3>2 DEF CarefulWork
  <2> QED  BY <1>5, <2>2, SameClients DEF SigCheck, Careful
<1>6. ASSUME NEW job \in Worker, NEW c \in Client, PostCheck(job, c)
      PROVE  Careful
  <2>1. PICK given \in Account : worker' = [worker EXCEPT ![job] = PostRequest(c, given)]
    BY <1>6 DEF PostCheck
  <2>2. CarefulWork
    <3>1. \A k \in Worker \ {job} : worker'[k] = worker[k]
      BY <1>0, <2>1 DEF TypeOK
    <3>2. /\ worker'[job].op = "post" /\ worker'[job].uid = client[c].uid
          /\ worker'[job].period = client[c].period
      BY <1>0, <2>1 DEF TypeOK, PostRequest
    <3>3. client[c].phase = "signed"
      BY <1>6 DEF PostCheck
    <3> QED  BY <3>1, <3>2, <3>3 DEF CarefulWork
  <2> QED  BY <1>6, <2>2, SameClients DEF PostCheck, Careful
<1>7. ASSUME NEW job \in Worker, SigInsert(job) \/ PostInsert(job)
      PROVE  Careful
  <2>1. CarefulWork
    <3>1. \A k \in Worker : worker'[k] = worker[k] \/ worker'[k] = Idle
      BY <1>0, <1>7 DEF SigInsert, PostInsert, TypeOK
    <3> QED  BY <3>1 DEF CarefulWork
  <2>2. CarefulClients
    BY <1>7, SameClients DEF SigInsert, PostInsert
  <2>3. \A s \in signed' : s \in signed \/ (s = Doc(job) /\ NewSignature(s))
    BY <1>7 DEF SigInsert, PostInsert, NewSignature, Doc
  <2> QED  BY <1>7, <2>1, <2>2, <2>3 DEF SigInsert, PostInsert, Careful
<1> QED  BY <1>1, <1>2, <1>3, <1>4, <1>5, <1>6, <1>7 DEF Next

\* New parameters are of the period of the node.
LEMMA PublicGetKeeps ==
  ASSUME IInv, NEW c \in Client, PublicGet(c), TypeOK'
  PROVE  IInv'
<1> USE BlindAssumption
<1> DEFINE par == handed + 1
<1>0. /\ TypeOK /\ OnlyHanded
      /\ handed' = par /\ par \in Params /\ handed \in Nat
      /\ cached' = cached \cup {[pub |-> par, period |-> period]}
      /\ UNCHANGED <<period, verified, signed, appIds, worker>>
  BY DEF IInv, PublicGet, TypeOK, Params
<1>1. /\ \A k \in Client : Holds(k) => client[k].pub \in Params /\ client[k].pub < par /\ client[k].pub # par
      /\ \A job \in Worker : worker[job].op = "sign" =>
           worker[job].pub \in Params /\ worker[job].pub < par /\ worker[job].pub # par
      /\ \A d \in cached : d.pub \in Params /\ d.pub < par /\ d.pub # par
      /\ \A s \in signed : s.pub \in Params /\ s.pub < par /\ s.pub # par
  BY <1>0, HeldRecord, SignRecord DEF OnlyHanded, TypeOK, Params, SignRequest
<1>2. \A k \in Client \ {c} : client'[k] = client[k]
  BY <1>0 DEF TypeOK, PublicGet
<1>3. PICK given \in Uid : client'[c] = Holding("blinded", par, given, period)
  BY <1>0 DEF TypeOK, PublicGet
<1>4. client'[c].pub = par /\ client'[c].period = period /\ client'[c].phase = "blinded"
  BY <1>3 DEF Holding
<1>5. OnlyHanded'
  <2>1. \A k \in Client : Holds(k)' => client'[k].pub <= par
    BY <1>0, <1>1, <1>2, <1>4 DEF Holds, Params
  <2> QED  BY <1>0, <1>1, <2>1 DEF OnlyHanded, Params, Holds
<1>6. SignedFirst'
  BY <1>0, <1>2, <1>4 DEF IInv, SignedFirst, SignedUid
<1>7. PICK date \in Dates : Dated(date)
  BY DEF IInv
<1>8. PICK new \in Dates : new[par] = period /\ \A i \in Params : i # par => new[i] = date[i]
  <2>1. [date EXCEPT ![par] = period] \in Dates
    BY <1>0, <1>7 DEF Dates, TypeOK
  <2> QED  BY <1>0, <1>7, <2>1 DEF Dates
<1>9. Dated(new)'
  <2>1. \A k \in Client : Holds(k)' => new[client'[k].pub] = client'[k].period
    <3>1. ASSUME NEW k \in Client \ {c}, Holds(k)
          PROVE  new[client[k].pub] = client[k].period
      BY <1>1, <1>7, <1>8, <3>1 DEF Dated
    <3> QED  BY <1>2, <1>4, <1>8, <3>1 DEF Holds
  <2>2. \A job \in Worker : worker[job].op = "sign" => new[worker[job].pub] = worker[job].period
    BY <1>1, <1>7, <1>8 DEF Dated
  <2>3. \A d \in cached' : new[d.pub] = d.period
    BY <1>0, <1>1, <1>7, <1>8 DEF Dated
  <2>4. \A s \in signed : new[s.pub] = s.period
    BY <1>1, <1>7, <1>8 DEF Dated
  <2> QED  BY <1>0, <2>1, <2>2, <2>3, <2>4 DEF Dated, Holds
<1>10. (\E f \in Dates : Dated(f))'
  BY <1>8, <1>9 DEF Dates, Params, Period
<1> QED  BY <1>0, <1>5, <1>6, <1>10 DEF IInv, OneSignature

LEMMA InvInit ==
  ASSUME Init
  PROVE  IInv
<1> USE BlindAssumption
<1>1. TypeOK
  BY DEF Init, TypeOK, Period, Held
<1>2. (\A c \in Client : client[c] = Nothing) /\ \A job \in Worker : worker[job] = Idle
  BY DEF Init
<1>3. OnlyHanded /\ OneSignature /\ SignedFirst
  BY <1>2 DEF Init, OnlyHanded, OneSignature, SignedFirst, Holds, Nothing, Idle
<1>4. [i \in Params |-> 0] \in Dates
  BY DEF Dates, Period
<1>5. Dated([i \in Params |-> 0])
  BY <1>2 DEF Init, Dated, Holds, Nothing, Idle
<1> QED  BY <1>1, <1>3, <1>4, <1>5 DEF IInv

LEMMA InvStep ==
  ASSUME IInv, [Next]_vars
  PROVE  IInv'
<1>1. TypeOK'
  BY TypeStep DEF IInv
<1>2. ASSUME NEW c \in Client, PublicGet(c)
      PROVE  IInv'
  BY <1>1, <1>2, PublicGetKeeps
<1>3. CASE Next /\ ~\E c \in Client : PublicGet(c)
  BY <1>1, <1>3, OtherSteps, CarefulKeeps
<1>4. CASE UNCHANGED vars
  <2>1. Careful
    BY <1>4, SameClients, SameWork DEF vars, Careful
  <2> QED  BY <1>1, <2>1, CarefulKeeps
<1> QED  BY <1>2, <1>3, <1>4

LEMMA InvHolds == Spec => []IInv
<1>1. Init => IInv
  BY InvInit
<1>2. IInv /\ [Next]_vars => IInv'
  BY InvStep
<1> QED  BY <1>1, <1>2, PTL DEF Spec

\* Every document, client and worker has its type, for any number of them.
THEOREM TypeCorrect == Spec => []TypeOK
<1>1. IInv => TypeOK
  BY DEF IInv
<1> QED  BY <1>1, InvHolds, PTL

-----------------------------------------------------------------------------
(* Refinement: a signature is a grant, a lookup lets a request in, the      *)
(* insert of a uid is a registration.                                       *)

Seat(u, per) == {s.uid : s \in ByQuery(u, per)}
Open(job) == IF worker[job].op = "post" THEN {<<worker[job].uid, worker[job].period>>} ELSE {}
UidsIn == {d.uid : d \in appIds}

LEMMA InitRefines ==
  ASSUME Init
  PROVE  Registry!Init
  BY DEF Init, Registry!Init, ByQuery, AppUserIds, Unique, Idle

\* One seat changes.
LEMMA OneSeat ==
  ASSUME NEW f, NEW f1, NEW u \in User, NEW per \in Period, NEW given,
         f = [v \in User |-> [s \in Period |-> f[v][s]]],
         f1 = [v \in User |-> [s \in Period |-> f1[v][s]]],
         \A v \in User, s \in Period : f1[v][s] = IF v = u /\ s = per THEN given ELSE f[v][s]
  PROVE  f1 = [f EXCEPT ![u][per] = given]
<1> DEFINE row == [f[u] EXCEPT ![per] = given]
<1>1. row = f1[u]
  <2>1. f[u] = [s \in Period |-> f[u][s]] /\ f1[u] = [s \in Period |-> f1[u][s]]
    OBVIOUS
  <2> QED  BY <2>1
<1>2. \A v \in User \ {u} : f[v] = f1[v]
  <2> TAKE v \in User \ {u}
  <2>1. f[v] = [s \in Period |-> f[v][s]] /\ f1[v] = [s \in Period |-> f1[v][s]]
    OBVIOUS
  <2> QED  BY <2>1
<1> HIDE DEF row
<1>3. f1 = [f EXCEPT ![u] = row]
  BY <1>1, <1>2
<1> QED  BY <1>3 DEF row

\* One entry of a function changes.
LEMMA OneEntry ==
  ASSUME NEW D, NEW f, NEW f1, NEW k \in D, NEW new,
         f = [i \in D |-> f[i]], f1 = [i \in D |-> f1[i]],
         \A i \in D : f1[i] = IF i = k THEN new ELSE f[i]
  PROVE  f1 = [f EXCEPT ![k] = new]
  OBVIOUS

\* What the app is promised does not change.
Quiet ==
  /\ \A u \in User, per \in Period : Seat(u, per)' = Seat(u, per)
  /\ \A job \in Worker : Open(job)' = Open(job)
  /\ UidsIn' = UidsIn
  /\ \A per \in Period : AppUserIds(per)' = AppUserIds(per)

LEMMA QuietStutters ==
  ASSUME Quiet
  PROVE  UNCHANGED Registry!vars
  BY DEF Quiet, Registry!vars, Seat, Open, UidsIn

\* A step that changes no collection and lets no request in or out.
LEMMA QuietStep ==
  ASSUME UNCHANGED <<signed, appIds>>, \A job \in Worker : Open(job)' = Open(job)
  PROVE  Quiet
  BY DEF Quiet, Seat, ByQuery, UidsIn, AppUserIds, Unique

\* The signature a worker inserts is the first of its user in the period.
LEMMA GrantStep ==
  ASSUME IInv, NEW job \in Worker, SigInsert(job),
         ByQuery(worker[job].id, worker[job].period) = {}
  PROVE  Registry!Next
<1>1. TypeOK /\ worker[job].op = "sign" /\ signed' = signed \cup {Doc(job)} /\ appIds' = appIds
  BY DEF IInv, SigInsert
<1>2. PICK u \in User, per \in Period, given \in Uid :
        u = worker[job].id /\ per = worker[job].period /\ given = worker[job].uid
  BY <1>1, SignRecord DEF SignRequest
<1>3. Seat(u, per) = {}
  BY <1>2 DEF Seat
<1>4. \A v \in User, s \in Period : Seat(v, s)' = IF v = u /\ s = per THEN {given} ELSE Seat(v, s)
  <2>1. PICK new : new.id = u /\ new.period = per /\ new.uid = given /\ signed' = signed \cup {new}
    BY <1>1, <1>2 DEF Doc
  <2> QED  BY <1>3, <2>1 DEF Seat, ByQuery
<1> DEFINE seat == [v \in User |-> [s \in Period |-> Seat(v, s)]]
<1>5. seat' = [seat EXCEPT ![u][per] = {given}]
  <2>1. \A v \in User, s \in Period : seat'[v][s] = IF v = u /\ s = per THEN {given} ELSE seat[v][s]
    BY <1>4
  <2>2. /\ seat = [v \in User |-> [s \in Period |-> seat[v][s]]]
        /\ seat' = [v \in User |-> [s \in Period |-> seat'[v][s]]]
    OBVIOUS
  <2> HIDE DEF seat
  <2> QED  BY <2>1, <2>2, OneSeat
<1>6. seat[u][per] = {}
  BY <1>3
<1>7. \A s \in Period : AppUserIds(s)' = AppUserIds(s)
  BY <1>1 DEF AppUserIds, Unique
<1>8. \A k \in Worker : Open(k)' = Open(k)
  <2>1. worker' = [worker EXCEPT ![job] = Idle]
    BY DEF SigInsert
  <2> QED  BY <1>1, <2>1 DEF Open, Idle, TypeOK
<1>9. UidsIn' = UidsIn
  BY <1>1 DEF UidsIn
<1>10. Registry!Grant(u, per, given)
  BY <1>5, <1>6, <1>7, <1>8, <1>9 DEF Registry!Grant, Seat, Open, UidsIn
<1> QED  BY <1>10 DEF Registry!Next

\* A request that passes the lookup is for a granted uid that is not registered.
LEMMA AdmitStep ==
  ASSUME IInv, NEW job \in Worker, NEW c \in Client, PostCheck(job, c)
  PROVE  Registry!Next
<1>1. TypeOK /\ Holds(c) /\ worker[job].op = "none" /\ UNCHANGED <<signed, appIds>>
  BY DEF IInv, PostCheck, Holds
<1>2. PICK given \in Uid, per \in Period : given = client[c].uid /\ per = client[c].period
  BY <1>1, HeldRecord
<1>3. PICK s \in signed : s.uid = given /\ s.period = per
  BY <1>2 DEF IInv, SignedFirst, SignedUid, PostCheck
<1>4. PICK u \in User : u = s.id
  BY <1>1 DEF TypeOK
<1>5. given \in Seat(u, per) /\ given \notin UidsIn
  BY <1>2, <1>3, <1>4 DEF Seat, ByQuery, UidsIn, ByUid, PostCheck
<1>6. \A k \in Worker : Open(k)' = IF k = job THEN {<<given, per>>} ELSE Open(k)
  <2>1. PICK a \in Account : worker' = [worker EXCEPT ![job] = PostRequest(c, a)]
    BY DEF PostCheck
  <2> QED  BY <1>1, <1>2, <2>1 DEF Open, PostRequest, TypeOK
<1>7. Open(job) = {}
  BY <1>1 DEF Open
<1> DEFINE open == [k \in Worker |-> Open(k)]
           seat == [v \in User |-> [i \in Period |-> Seat(v, i)]]
<1>8. open' = [open EXCEPT ![job] = {<<given, per>>}]
  <2>1. \A k \in Worker : open'[k] = IF k = job THEN {<<given, per>>} ELSE open[k]
    BY <1>6
  <2>2. open = [k \in Worker |-> open[k]] /\ open' = [k \in Worker |-> open'[k]]
    OBVIOUS
  <2> HIDE DEF open
  <2> QED  BY <2>1, <2>2, OneEntry
<1>9. UNCHANGED seat /\ UidsIn' = UidsIn /\ \A i \in Period : AppUserIds(i)' = AppUserIds(i)
  BY <1>1 DEF Seat, ByQuery, UidsIn, AppUserIds, Unique
<1>10. Registry!Admit(job, u, per, given)
  BY <1>5, <1>7, <1>8, <1>9 DEF Registry!Admit, Seat, Open, UidsIn
<1> QED  BY <1>10 DEF Registry!Next

\* An insert enters the account of a request that was let in.
LEMMA RegisterStep ==
  ASSUME IInv, NEW job \in Worker, PostInsert(job)
  PROVE  Registry!Next
<1>1. TypeOK /\ worker[job].op = "post" /\ worker' = [worker EXCEPT ![job] = Idle] /\ signed' = signed
  BY DEF IInv, PostInsert
<1>2. PICK given \in Uid, per \in Period, a \in Account :
        given = worker[job].uid /\ per = worker[job].period /\ a = worker[job].account
  BY <1>1, PostRecord DEF UidRequest
<1>3. PICK new : new.uid = given /\ new.appId = a /\ new.period = per /\ appIds' = appIds \cup {new}
  BY <1>2 DEF PostInsert
<1>4. UidsIn' = UidsIn \cup {given}
  BY <1>3 DEF UidsIn
<1>5. \A s \in Period : AppUserIds(s)' = IF s = per THEN AppUserIds(s) \cup {a} ELSE AppUserIds(s)
  BY <1>3 DEF AppUserIds, Unique
<1>6. Open(job) = {<<given, per>>}
  BY <1>1, <1>2 DEF Open
<1>7. \A k \in Worker : Open(k)' = IF k = job THEN {} ELSE Open(k)
  BY <1>1 DEF Open, Idle, TypeOK
<1> DEFINE open == [k \in Worker |-> Open(k)]
           members == [s \in Period |-> AppUserIds(s)]
           seat == [v \in User |-> [i \in Period |-> Seat(v, i)]]
<1>8. open' = [open EXCEPT ![job] = {}]
  <2>1. \A k \in Worker : open'[k] = IF k = job THEN {} ELSE open[k]
    BY <1>7
  <2>2. open = [k \in Worker |-> open[k]] /\ open' = [k \in Worker |-> open'[k]]
    OBVIOUS
  <2> HIDE DEF open
  <2> QED  BY <2>1, <2>2, OneEntry
<1>9. members' = [members EXCEPT ![per] = members[per] \cup {a}]
  <2>1. \A s \in Period : members'[s] = IF s = per THEN members[per] \cup {a} ELSE members[s]
    BY <1>5
  <2>2. members = [s \in Period |-> members[s]] /\ members' = [s \in Period |-> members'[s]]
    OBVIOUS
  <2> HIDE DEF members
  <2> QED  BY <2>1, <2>2, OneEntry
<1>10. UNCHANGED seat
  BY <1>1 DEF Seat, ByQuery
<1>11. Registry!Register(job, per, given, a)
  BY <1>4, <1>6, <1>8, <1>9, <1>10 DEF Registry!Register, Seat, Open, UidsIn
<1> QED  BY <1>11 DEF Registry!Next

\* Every other step changes nothing the app is promised.
LEMMA StepRefines ==
  ASSUME IInv, [Next]_vars
  PROVE  Registry!Next \/ UNCHANGED Registry!vars
<1>0. TypeOK
  BY DEF IInv
<1>1. ASSUME NEW job \in Worker, SigInsert(job)
      PROVE  Registry!Next \/ UNCHANGED Registry!vars
  <2>1. CASE ByQuery(worker[job].id, worker[job].period) = {}
    BY <1>1, <2>1, GrantStep
  <2>2. CASE ByQuery(worker[job].id, worker[job].period) # {}
    <3>1. UNCHANGED <<signed, appIds>> /\ \A k \in Worker : Open(k)' = Open(k)
      BY <1>0, <1>1, <2>2 DEF SigInsert, Open, Idle, TypeOK
    <3> QED  BY <3>1, QuietStep, QuietStutters
  <2> QED  BY <2>1, <2>2
<1>2. ASSUME NEW job \in Worker, PostInsert(job)
      PROVE  Registry!Next
  BY <1>2, RegisterStep
<1>3. ASSUME NEW job \in Worker, NEW c \in Client, PostCheck(job, c)
      PROVE  Registry!Next
  BY <1>3, AdmitStep
<1>4. ASSUME NEW job \in Worker, NEW c \in Client, SigCheck(job, c)
      PROVE  UNCHANGED Registry!vars
  <2>1. UNCHANGED <<signed, appIds>> /\ worker[job].op = "none"
    BY <1>4 DEF SigCheck
  <2>2. worker'[job].op = "sign" /\ \A k \in Worker \ {job} : worker'[k] = worker[k]
    BY <1>0, <1>4 DEF SigCheck, TypeOK
  <2>3. \A k \in Worker : Open(k)' = Open(k)
    BY <2>1, <2>2 DEF Open
  <2> QED  BY <2>1, <2>3, QuietStep, QuietStutters
<1>5. CASE \/ UNCHANGED vars
           \/ NextPeriod
           \/ \E u \in User : Score(u)
           \/ CachedExpire
           \/ \E c \in Client : Forget(c) \/ TakePublic(c) \/ PublicGet(c) \/ SigResponse(c) \/ PostDone(c)
  <2>1. UNCHANGED <<signed, appIds, worker>>
    BY <1>5 DEF vars, NextPeriod, Score, CachedExpire, Forget, TakePublic, PublicGet,
                SigResponse, PostDone
  <2>2. \A k \in Worker : Open(k)' = Open(k)
    BY <2>1 DEF Open
  <2> QED  BY <2>1, <2>2, QuietStep, QuietStutters
<1> QED  BY <1>1, <1>2, <1>3, <1>4, <1>5 DEF Next

\* One uid per user and period, requests let in only for granted uids without an
\* account, and one account per request that was let in, for any number of users,
\* devices, workers, parameters, accounts and periods: what ImplementsRegistry says.
THEOREM RefinesRegistry == Spec => ImplementsRegistry
<1>1. Init => Registry!Init
  BY InitRefines
<1>2. IInv /\ [Next]_vars => [Registry!Next]_Registry!vars
  BY StepRefines
<1> QED  BY <1>1, <1>2, InvHolds, PTL DEF Spec, ImplementsRegistry, Registry!Spec
-----------------------------------------------------------------------------
(* The signatures themselves.                                              *)
(*                                                                         *)
(* BlindVerifications takes signatures to be perfect. WISchnorr is what     *)
(* makes them; its properties follow, for every group, from the laws of     *)
(* exponents and the arithmetic of residues.                               *)

\* A set of numbers has a least one.
LEMMA LeastNumber ==
  ASSUME NEW S, S \subseteq Nat, S # {}
  PROVE  \E n \in S : \A k \in S : n <= k
<1>1. PICK n \in S : \A k \in S : ~ (<<k, n>> \in OpToRel(<, Nat))
  BY NatLessThanWellFounded, WFMin
<1>2. ASSUME NEW k \in S PROVE n <= k
  <2>1. <<k, n>> \in Nat \X Nat /\ k \in Nat /\ n \in Nat
    OBVIOUS
  <2>2. k < n => <<k, n>> \in OpToRel(<, Nat)
    BY <2>1 DEF OpToRel
  <2>3. ~ (k < n)
    BY <1>1, <2>2, Zenon
  <2> QED  BY <2>1, <2>3
<1> QED  BY <1>2

\* A quotient and a remainder within the divisor are the quotient and the remainder.
LEMMA Residue ==
  ASSUME NEW m \in Nat \ {0}, NEW a \in Int
  PROVE  /\ a % m \in 0..(m - 1) /\ a \div m \in Int
         /\ a = m * (a \div m) + (a % m)
OBVIOUS

LEMMA ResidueUnique ==
  ASSUME NEW m \in Nat \ {0}, NEW k \in Int, NEW r \in 0..(m - 1)
  PROVE  (m * k + r) % m = r
<1> DEFINE a == m * k + r
           j == a \div m
           s == a % m
<1>1. a \in Int
  OBVIOUS
<1>2. s \in 0..(m - 1) /\ j \in Int /\ a = m * j + s
  BY <1>1, Residue
<1>3. m * k + r = m * j + s
  BY <1>2
<1> HIDE DEF j, s
<1>4. m * (k - j) = s - r
  BY <1>2, <1>3
<1>5. k - j = 0
  <2>1. CASE k - j >= 1
    <3>1. m * (k - j) >= m
      BY <1>2, <2>1
    <3> QED  BY <1>2, <1>4, <3>1
  <2>2. CASE k - j <= -1
    <3>1. m * (k - j) <= -m
      BY <1>2, <2>2
    <3> QED  BY <1>2, <1>4, <3>1
  <2> QED  BY <1>2, <2>1, <2>2
<1>6. r = s
  BY <1>2, <1>4, <1>5
<1> QED  BY <1>6 DEF s

\* A multiple of the divisor makes no difference.
LEMMA ResidueShift ==
  ASSUME NEW m \in Nat \ {0}, NEW a \in Int, NEW k \in Int
  PROVE  (m * k + a) % m = a % m
<1> DEFINE j == a \div m
           r == a % m
<1>1. r \in 0..(m - 1) /\ j \in Int /\ a = m * j + r
  BY Residue
<1> HIDE DEF j, r
<1>2. m * k + a = m * (k + j) + r
  BY <1>1
<1>3. (m * (k + j) + r) % m = r
  BY <1>1, ResidueUnique
<1> QED  BY <1>2, <1>3 DEF r

\* Remainders may be taken of a term, of what is taken off, and of a factor.
LEMMA ResidueOfParts ==
  ASSUME NEW m \in Nat \ {0}, NEW a \in Int, NEW b \in Int
  PROVE  /\ ((a % m) + b) % m = (a + b) % m
         /\ (b - (a % m)) % m = (b - a) % m
         /\ ((a % m) * b) % m = (a * b) % m
<1> DEFINE k == a \div m
           r == a % m
<1>1. r \in 0..(m - 1) /\ k \in Int /\ a = m * k + r
  BY Residue
<1> HIDE DEF k, r
<1>2. a + b = m * k + (r + b) /\ b - r = m * k + (b - a)
  BY <1>1
<1>3. a * b = m * (k * b) + r * b /\ k * b \in Int /\ r * b \in Int
  BY <1>1
<1>4. (m * k + (r + b)) % m = (r + b) % m /\ (m * k + (b - a)) % m = (b - a) % m
  <2>1. r + b \in Int /\ b - a \in Int
    BY <1>1
  <2> QED  BY <1>1, <2>1, ResidueShift
<1>5. (m * (k * b) + r * b) % m = (r * b) % m
  BY <1>3, ResidueShift
<1> QED  BY <1>2, <1>3, <1>4, <1>5 DEF r

\* A number below m is its own residue.
LEMMA ResidueSame ==
  ASSUME NEW m \in Nat \ {0}, NEW r \in 0..(m - 1)
  PROVE  r % m = r
<1>1. (m * 0 + r) % m = r
  BY ResidueUnique
<1>2. m * 0 + r = r
  OBVIOUS
<1> QED  BY <1>1, <1>2

\* What the assumption says of the group, in the names of this module.
LEMMA GroupIs ==
  /\ q \in Nat \ {0, 1} /\ w \in Nat \ {0} /\ p \in Nat /\ p >= 5
  /\ p - 1 = q * (2 * w) /\ p = 2 * w * q + 1
  /\ \A b \in 1..(p - 1) : modPow(b, p - 1) = 1
  /\ \A i \in Info : FOf[i] \in 1..(p - 1)
<1>1. q \in Nat \ {0, 1} /\ w \in Nat \ {0}
  BY GroupAssumption
<1>2. p = 2 * w * q + 1
  BY DEF p
<1>3. w * q \in Nat /\ w * q >= 2
  <2>1. w * q >= 1 * q
    BY <1>1
  <2> QED  BY <1>1, <2>1
<1>4. 2 * w * q = 2 * (w * q) /\ q * (2 * w) = 2 * w * q
  BY <1>1
<1>5. p \in Nat /\ p >= 5 /\ p - 1 = q * (2 * w)
  BY <1>2, <1>3, <1>4
<1>6. /\ \A b \in 1..(p - 1) : modPow(b, p - 1) = 1
      /\ \A i \in Info : FOf[i] \in 1..(p - 1)
  BY GroupAssumption
<1> QED  BY <1>1, <1>2, <1>5, <1>6

\* A client may draw any residue.
LEMMA RandomIs == Random = Z_q
<1>1. /\ q \in Nat \ {0} /\ Bytes \in Nat \ {0}
      /\ \A n \in 1..Bytes : Byte ^ n \in Nat
      /\ Byte ^ Bytes >= q
  BY GroupAssumption
<1>2. ASSUME NEW r \in Random PROVE r \in Z_q
  <2>1. PICK n \in 1..Bytes : r \in {i % q : i \in 0..(Byte ^ n - 1)}
    BY DEF Random
  <2>2. PICK i \in 0..(Byte ^ n - 1) : r = i % q
    BY <2>1
  <2>3. i \in Int
    BY <1>1
  <2> QED  BY <1>1, <2>2, <2>3, Residue DEF Z_q
<1>3. ASSUME NEW r \in Z_q PROVE r \in Random
  <2>1. Bytes \in 1..Bytes /\ Byte ^ Bytes \in Nat
    BY <1>1
  <2>2. r \in 0..(Byte ^ Bytes - 1)
    BY <1>1, <2>1 DEF Z_q
  <2>3. r % q = r
    BY <1>1, ResidueSame DEF Z_q
  <2>4. r \in {i % q : i \in 0..(Byte ^ Bytes - 1)}
    BY <2>2, <2>3
  <2> QED  BY <2>1, <2>4 DEF Random
<1> QED  BY <1>2, <1>3

\* A function can be iterated: there is a sequence that starts with a value and in which
\* each one is the function's of the one before.  Approximation(n) are those up to n.
Iterates(h, S, a, f) == h \in [Nat -> S] /\ h[0] = a /\ \A n \in Nat : h[n + 1] = f[h[n]]

LEMMA Iteration ==
  ASSUME NEW S, NEW a \in S, NEW f \in [S -> S]
  PROVE  \E h : Iterates(h, S, a, f)
<1> DEFINE Approximation(n) == {h \in [0..n -> S] : h[0] = a /\ \A k \in 0..(n - 1) : h[k + 1] = f[h[k]]}
           Missing == {n \in Nat : Approximation(n) = {}}
<1>1. Missing = {}
  <2> SUFFICES ASSUME Missing # {} PROVE FALSE
    OBVIOUS
  <2> HIDE DEF Missing
  <2>0. Missing \in SUBSET Nat
    BY DEF Missing
  <2>1. PICK n \in Missing : \A k \in Missing : n <= k
    BY <2>0, LeastNumber
  <2>2. n \in Nat /\ Approximation(n) = {}
    BY DEF Missing
  <2>3. n # 0
    <3>1. [k \in 0..0 |-> a] \in Approximation(0)
      OBVIOUS
    <3> QED  BY <2>2, <3>1
  <2>4. n - 1 \in Nat /\ n - 1 \notin Missing
    BY <2>1, <2>2, <2>3
  <2>5. PICK h : h \in Approximation(n - 1)
    BY <2>4 DEF Missing
  <2> DEFINE next == [k \in 0..n |-> IF k = n THEN f[h[n - 1]] ELSE h[k]]
  <2>6. next \in Approximation(n)
    <3>1. h \in [0..(n - 1) -> S] /\ h[0] = a /\ \A k \in 0..(n - 2) : h[k + 1] = f[h[k]]
      BY <2>2, <2>4, <2>5
    <3>2. f[h[n - 1]] \in S
      BY <2>4, <3>1
    <3>3. next \in [0..n -> S] /\ next[0] = a
      BY <2>2, <2>3, <3>1, <3>2
    <3>4. ASSUME NEW k \in 0..(n - 1) PROVE next[k + 1] = f[next[k]]
      <4>1. CASE k = n - 1
        BY <2>2, <2>3, <4>1
      <4>2. CASE k # n - 1
        <5>1. k \in 0..(n - 2) /\ k \in 0..n /\ k + 1 \in 0..n /\ k + 1 # n /\ k # n
          BY <2>2, <4>2
        <5>2. next[k + 1] = h[k + 1] /\ next[k] = h[k]
          BY <5>1
        <5> QED  BY <3>1, <5>1, <5>2
      <4> QED  BY <4>1, <4>2
    <3> QED  BY <3>3, <3>4
  <2> QED  BY <2>2, <2>6
<1>2. ASSUME NEW n \in Nat, NEW m \in Nat, n <= m,
             NEW h \in Approximation(n), NEW i \in Approximation(m)
      PROVE  h[n] = i[n]
  <2> DEFINE Different == {k \in 0..n : h[k] # i[k]}
  <2>1. /\ h[0] = a /\ \A k \in 0..(n - 1) : h[k + 1] = f[h[k]]
        /\ i[0] = a /\ \A k \in 0..(m - 1) : i[k + 1] = f[i[k]]
    OBVIOUS
  <2>2. Different = {}
    <3> SUFFICES ASSUME Different # {} PROVE FALSE
      OBVIOUS
    <3> HIDE DEF Different
    <3>0. Different \in SUBSET Nat
      BY DEF Different
    <3>1. PICK k \in Different : \A j \in Different : k <= j
      BY <3>0, LeastNumber
    <3>2. k \in 0..n /\ h[k] # i[k]
      BY DEF Different
    <3>3. k # 0
      BY <2>1, <3>2
    <3>4. k - 1 \in 0..(n - 1) /\ k - 1 \in 0..(m - 1) /\ k - 1 \in 0..n /\ (k - 1) + 1 = k
      BY <1>2, <3>2, <3>3
    <3>5. k - 1 \notin Different
      BY <3>1, <3>2
    <3>6. h[k - 1] = i[k - 1]
      BY <3>4, <3>5 DEF Different
    <3>7. h[(k - 1) + 1] = f[h[k - 1]] /\ i[(k - 1) + 1] = f[i[k - 1]]
      BY <2>1, <3>4
    <3> QED  BY <3>2, <3>4, <3>6, <3>7
  <2> QED  BY <2>2
<1> DEFINE some(n) == CHOOSE h : h \in Approximation(n)
           all == [n \in Nat |-> some(n)[n]]
<1>3. ASSUME NEW n \in Nat PROVE some(n) \in Approximation(n)
  <2>1. Approximation(n) # {}
    BY <1>1
  <2> HIDE DEF Approximation
  <2> QED  BY <2>1
<1> HIDE DEF some
<1>4. all \in [Nat -> S]
  <2> SUFFICES ASSUME NEW n \in Nat PROVE some(n)[n] \in S
    OBVIOUS
  <2> QED  BY <1>3
<1>5. all[0] = a
  BY <1>3
<1>6. ASSUME NEW n \in Nat PROVE all[n + 1] = f[all[n]]
  <2>1. some(n)[n] = some(n + 1)[n]
    <3>1. some(n) \in Approximation(n) /\ some(n + 1) \in Approximation(n + 1) /\ n <= n + 1
      BY <1>3
    <3> HIDE DEF Approximation
    <3> QED  BY <1>2, <3>1
  <2>2. some(n + 1)[n + 1] = f[some(n + 1)[n]]
    BY <1>3
  <2> QED  BY <2>1, <2>2
<1>7. Iterates(all, S, a, f)
  BY <1>4, <1>5, <1>6 DEF Iterates
<1> QED  BY <1>7

\* Powers are what they should be.
LEMMA PowersAre ==
  ASSUME NEW b \in Int
  PROVE  /\ modPow(b, 0) = 1
         /\ \A n \in Nat : modPow(b, n) \in 0..(p - 1) /\ modPow(b, n + 1) = (modPow(b, n) * b) % p
<1> DEFINE Powers(f) == [k \in Nat |-> IF k = 0 THEN 1 ELSE (f[k - 1] * b) % p]
           pow == CHOOSE f : f = Powers(f)
           S == 0..(p - 1)
           times == [v \in S |-> (v * b) % p]
<1>1. p \in Nat /\ p >= 5
  BY GroupIs
<1>2. 1 \in S /\ times \in [S -> S]
  <2>1. 1 \in S
    BY <1>1
  <2>2. ASSUME NEW v \in S PROVE (v * b) % p \in S
    <3>1. v * b \in Int /\ p \in Nat \ {0}
      BY <1>1
    <3> QED  BY <3>1, Residue
  <2> QED  BY <2>1, <2>2
<1>3. \E h : Iterates(h, S, 1, times)
  <2> HIDE DEF S, times
  <2> QED  BY <1>2, Iteration
<1>a. PICK h : Iterates(h, S, 1, times)
  BY <1>3
<1>b. h \in [Nat -> S] /\ h[0] = 1 /\ \A n \in Nat : h[n + 1] = times[h[n]]
  BY <1>a DEF Iterates
<1>4. h = Powers(h)
  <2> SUFFICES ASSUME NEW k \in Nat PROVE h[k] = IF k = 0 THEN 1 ELSE (h[k - 1] * b) % p
    BY <1>b
  <2>1. CASE k = 0
    BY <1>b, <2>1
  <2>2. CASE k # 0
    <3>1. k - 1 \in Nat /\ (k - 1) + 1 = k
      BY <2>2
    <3>2. h[k] = times[h[k - 1]] /\ h[k - 1] \in S
      BY <1>b, <3>1
    <3> QED  BY <2>2, <3>2
  <2> QED  BY <2>1, <2>2
<1>5. pow = Powers(pow)
  <2>1. \E f : f = Powers(f)
    BY <1>4
  <2> HIDE DEF Powers
  <2> QED  BY <2>1
<1>6. \A n : modPow(b, n) = pow[n]
  BY DEF modPow
<1> HIDE DEF pow
<1>7. pow[0] = 1 /\ \A n \in Nat : pow[n + 1] = (pow[n] * b) % p
  BY <1>5
<1> DEFINE Wrong == {n \in Nat : pow[n] \notin S}
<1>8. Wrong = {}
  <2> SUFFICES ASSUME Wrong # {} PROVE FALSE
    OBVIOUS
  <2> HIDE DEF Wrong
  <2>0. Wrong \in SUBSET Nat
    BY DEF Wrong
  <2>1. PICK n \in Wrong : \A k \in Wrong : n <= k
    BY <2>0, LeastNumber
  <2>2. n \in Nat /\ pow[n] \notin S
    BY DEF Wrong
  <2>3. n # 0
    BY <1>2, <1>7, <2>2
  <2>4. n - 1 \in Nat /\ (n - 1) + 1 = n /\ n - 1 \notin Wrong
    BY <2>1, <2>2, <2>3
  <2>5. pow[n - 1] \in S /\ pow[n] = (pow[n - 1] * b) % p
    BY <1>7, <2>4 DEF Wrong
  <2>6. (pow[n - 1] * b) % p \in S
    BY <1>2, <2>5
  <2> QED  BY <2>2, <2>5, <2>6
<1>9. \A n \in Nat : pow[n] \in S
  BY <1>8
<1> QED  BY <1>6, <1>7, <1>9

\* Products of residues: one factor at a time.
LEMMA ProductOfResidues ==
  ASSUME NEW m \in Nat \ {0}, NEW a \in Int, NEW b \in Int, NEW c \in Int
  PROVE  /\ (((a * b) % m) * c) % m = (a * b * c) % m
         /\ (a * ((b * c) % m)) % m = (a * b * c) % m
<1>1. (((a * b) % m) * c) % m = ((a * b) * c) % m
  <2>1. a * b \in Int
    OBVIOUS
  <2> QED  BY <2>1, ResidueOfParts
<1>2. (((b * c) % m) * a) % m = ((b * c) * a) % m
  <2>1. b * c \in Int
    OBVIOUS
  <2> QED  BY <2>1, ResidueOfParts
<1>3. (b * c) % m \in Int
  <2>1. b * c \in Int
    OBVIOUS
  <2> QED  BY <2>1, Residue
<1> DEFINE r == (b * c) % m
<1> HIDE DEF r
<1>4. r * a = a * r /\ (b * c) * a = a * b * c /\ (a * b) * c = a * b * c
  BY <1>3 DEF r
<1> QED  BY <1>1, <1>2, <1>4 DEF r

\* b^(m + n) = b^m b^n
LEMMA PowerOfSum ==
  ASSUME NEW b \in Int, NEW m \in Nat, NEW n \in Nat
  PROVE  modPow(b, m + n) = (modPow(b, m) * modPow(b, n)) % p
<1> DEFINE Law(k) == modPow(b, m + k) = (modPow(b, m) * modPow(b, k)) % p
           Wrong == {k \in Nat : ~Law(k)}
<1>1. p \in Nat \ {0} /\ \A k \in Nat : modPow(b, k) \in 0..(p - 1) /\ modPow(b, k) \in Int
  <2>1. p \in Nat \ {0}
    BY GroupIs
  <2>2. \A k \in Nat : modPow(b, k) \in 0..(p - 1)
    BY PowersAre
  <2> QED  BY <2>1, <2>2
<1>2. Law(0)
  <2>1. modPow(b, m) % p = modPow(b, m)
    BY <1>1, ResidueSame
  <2>2. modPow(b, 0) = 1 /\ m + 0 = m /\ modPow(b, m) * 1 = modPow(b, m)
    BY <1>1, PowersAre
  <2> QED  BY <2>1, <2>2
<1>3. ASSUME NEW k \in Nat, Law(k) PROVE Law(k + 1)
  <2>1. modPow(b, m + (k + 1)) = (modPow(b, m + k) * b) % p
    <3>1. m + k \in Nat /\ m + (k + 1) = (m + k) + 1
      OBVIOUS
    <3>2. modPow(b, (m + k) + 1) = (modPow(b, m + k) * b) % p
      BY <3>1, PowersAre
    <3> QED  BY <3>1, <3>2
  <2>2. (((modPow(b, m) * modPow(b, k)) % p) * b) % p = (modPow(b, m) * modPow(b, k) * b) % p
    BY <1>1, ProductOfResidues
  <2>3. (modPow(b, m) * ((modPow(b, k) * b) % p)) % p = (modPow(b, m) * modPow(b, k) * b) % p
    BY <1>1, ProductOfResidues
  <2>4. modPow(b, k + 1) = (modPow(b, k) * b) % p
    BY PowersAre
  <2> QED  BY <1>3, <2>1, <2>2, <2>3, <2>4
<1> HIDE DEF Law
<1>4. Wrong = {}
  <2> SUFFICES ASSUME Wrong # {} PROVE FALSE
    OBVIOUS
  <2>1. PICK k \in Wrong : \A j \in Wrong : k <= j
    BY LeastNumber
  <2>2. k # 0
    BY <1>2
  <2>3. k - 1 \in Nat /\ (k - 1) + 1 = k /\ Law(k - 1)
    BY <2>1, <2>2
  <2>4. Law((k - 1) + 1)
    BY <1>3, <2>3
  <2> QED  BY <2>3, <2>4
<1> QED  BY <1>4 DEF Law

\* (b^m)^n = b^(m n)
LEMMA PowerOfPower ==
  ASSUME NEW b \in Int, NEW m \in Nat, NEW n \in Nat
  PROVE  modPow(modPow(b, m), n) = modPow(b, m * n)
<1> DEFINE c == modPow(b, m)
           Law(k) == modPow(c, k) = modPow(b, m * k)
           Wrong == {k \in Nat : ~Law(k)}
<1>1. c \in Int
  <2>1. c \in 0..(p - 1) /\ p \in Nat
    BY GroupIs, PowersAre
  <2> QED  BY <2>1
<1> HIDE DEF c
<1>2. Law(0)
  <2>1. m * 0 = 0
    OBVIOUS
  <2> QED  BY <1>1, <2>1, PowersAre
<1>3. ASSUME NEW k \in Nat, Law(k) PROVE Law(k + 1)
  <2>1. modPow(c, k + 1) = (modPow(c, k) * c) % p
    BY <1>1, PowersAre
  <2>2. m * k \in Nat /\ m * (k + 1) = m * k + m
    OBVIOUS
  <2>3. modPow(b, m * k + m) = (modPow(b, m * k) * modPow(b, m)) % p
    BY <2>2, PowerOfSum
  <2> QED  BY <1>3, <2>1, <2>2, <2>3 DEF c
<1> HIDE DEF Law
<1>4. Wrong = {}
  <2> SUFFICES ASSUME Wrong # {} PROVE FALSE
    OBVIOUS
  <2>1. PICK k \in Wrong : \A j \in Wrong : k <= j
    BY LeastNumber
  <2>2. k # 0
    BY <1>2
  <2>3. k - 1 \in Nat /\ (k - 1) + 1 = k /\ Law(k - 1)
    BY <2>1, <2>2
  <2>4. Law((k - 1) + 1)
    BY <1>3, <2>3
  <2> QED  BY <2>3, <2>4
<1> QED  BY <1>4 DEF Law, c

\* 1^n = 1
LEMMA PowerOfOne ==
  ASSUME NEW n \in Nat
  PROVE  modPow(1, n) = 1
<1> DEFINE Wrong == {k \in Nat : modPow(1, k) # 1}
<1>1. modPow(1, 0) = 1
  BY PowersAre
<1>2. ASSUME NEW k \in Nat, modPow(1, k) = 1 PROVE modPow(1, k + 1) = 1
  <2>1. modPow(1, k + 1) = (1 * 1) % p
    BY <1>2, PowersAre
  <2>2. p \in Nat \ {0} /\ 1 \in 0..(p - 1)
    BY GroupIs
  <2>3. 1 % p = 1
    BY <2>2, ResidueSame
  <2> QED  BY <2>1, <2>3
<1>3. Wrong = {}
  <2> SUFFICES ASSUME Wrong # {} PROVE FALSE
    OBVIOUS
  <2>1. PICK k \in Wrong : \A j \in Wrong : k <= j
    BY LeastNumber
  <2>2. k # 0
    BY <1>1
  <2>3. k - 1 \in Nat /\ (k - 1) + 1 = k /\ modPow(1, k - 1) = 1
    BY <2>1, <2>2
  <2>4. modPow(1, (k - 1) + 1) = 1
    BY <1>2, <2>3
  <2> QED  BY <2>3, <2>4
<1> QED  BY <1>3

\* Elements of the subgroup.
InSubgroup(h) == h \in 0..(p - 1) /\ modPow(h, q) = 1

\* In the subgroup exponents are residues modulo its order.
LEMMA ExponentResidue ==
  ASSUME NEW h, InSubgroup(h), NEW n \in Nat
  PROVE  modPow(h, n % q) = modPow(h, n)
<1>1. h \in Int /\ p \in Nat \ {0} /\ q \in Nat \ {0}
  BY GroupIs DEF InSubgroup
<1> DEFINE k == n \div q
           r == n % q
<1>2. r \in 0..(q - 1) /\ k \in Int /\ n = q * k + r
  BY <1>1, Residue
<1> HIDE DEF k, r
<1>3. k \in Nat
  <2> SUFFICES ASSUME k <= -1 PROVE FALSE
    BY <1>2
  <2>1. q * k <= -q
    BY <1>1, <1>2
  <2> QED  BY <1>1, <1>2, <2>1
<1>4. q * k \in Nat /\ r \in Nat
  BY <1>1, <1>2, <1>3
<1>5. modPow(h, n) = (modPow(h, q * k) * modPow(h, r)) % p
  BY <1>1, <1>2, <1>4, PowerOfSum
<1>6. modPow(h, q * k) = 1
  <2>1. modPow(modPow(h, q), k) = modPow(h, q * k)
    BY <1>1, <1>3, PowerOfPower
  <2> QED  BY <1>3, <2>1, PowerOfOne DEF InSubgroup
<1>7. modPow(h, r) \in 0..(p - 1) /\ modPow(h, r) % p = modPow(h, r)
  <2>1. modPow(h, r) \in 0..(p - 1)
    BY <1>1, <1>4, PowersAre
  <2> QED  BY <1>1, <2>1, ResidueSame
<1>8. 1 * modPow(h, r) = modPow(h, r)
  BY <1>1, <1>7
<1> QED  BY <1>5, <1>6, <1>7, <1>8 DEF r

\* Exponents with the same residue give the same element.
LEMMA SameExponent ==
  ASSUME NEW h, InSubgroup(h), NEW m \in Nat, NEW n \in Nat,
         m % q = n % q
  PROVE  modPow(h, m) = modPow(h, n)
<1>1. modPow(h, m % q) = modPow(h, m)
  BY ExponentResidue
<1>2. modPow(h, n % q) = modPow(h, n)
  BY ExponentResidue
<1> QED  BY <1>1, <1>2

\* Powers of elements of the subgroup are in it, and so are the generator and what is made
\* of an info: they are powers that Fermat's theorem makes 1.
LEMMA PowerInSubgroup ==
  ASSUME NEW h, InSubgroup(h), NEW n \in Nat
  PROVE  InSubgroup(modPow(h, n))
<1>1. h \in Int /\ p \in Nat \ {0} /\ q \in Nat
  BY GroupIs DEF InSubgroup
<1>2. modPow(h, n) \in 0..(p - 1)
  BY <1>1, PowersAre
<1>3. modPow(modPow(h, n), q) = modPow(h, n * q) /\ modPow(modPow(h, q), n) = modPow(h, q * n)
  BY <1>1, PowerOfPower
<1>4. n * q = q * n
  BY <1>1
<1>5. modPow(modPow(h, q), n) = 1
  BY PowerOfOne DEF InSubgroup
<1> QED  BY <1>2, <1>3, <1>4, <1>5 DEF InSubgroup

LEMMA RootInSubgroup ==
  ASSUME NEW b \in 1..(p - 1)
  PROVE  InSubgroup(modPow(b, 2 * w))
<1>1. /\ b \in Int /\ p \in Nat \ {0} /\ q \in Nat /\ 2 * w \in Nat
      /\ p - 1 = q * (2 * w) /\ modPow(b, p - 1) = 1
  BY GroupIs
<1>2. modPow(b, 2 * w) \in 0..(p - 1)
  BY <1>1, PowersAre
<1>3. modPow(modPow(b, 2 * w), q) = modPow(b, (2 * w) * q)
  BY <1>1, PowerOfPower
<1>4. (2 * w) * q = p - 1
  BY <1>1
<1> QED  BY <1>1, <1>2, <1>3, <1>4 DEF InSubgroup

\* The generator, the public key and the element of an info are in the subgroup.
LEMMA Elements ==
  /\ InSubgroup(g)
  /\ \A i \in Info : InSubgroup(z(i))
  /\ x \in Z_q => InSubgroup(y)
<1>1. InSubgroup(g)
  <2>1. 2 \in 1..(p - 1)
    BY GroupIs
  <2>2. g = modPow(2, 2 * w)
    BY DEF g
  <2> QED  BY <2>1, <2>2, RootInSubgroup
<1>2. ASSUME NEW i \in Info PROVE InSubgroup(z(i))
  <2>1. (p - 1) \div q = 2 * w
    <3> DEFINE k == (p - 1) \div q
               r == (p - 1) % q
    <3>1. /\ q \in Nat \ {0} /\ 2 * w \in Nat /\ p - 1 \in Int
          /\ p - 1 = q * (2 * w) + 0
      BY GroupIs
    <3>2. r \in 0..(q - 1) /\ k \in Int /\ p - 1 = q * k + r
      BY <3>1, Residue
    <3>3. 0 \in 0..(q - 1)
      BY <3>1
    <3>4. (q * (2 * w) + 0) % q = 0
      BY <3>1, <3>3, ResidueUnique
    <3>5. r = 0
      BY <3>1, <3>4
    <3> HIDE DEF k, r
    <3> DEFINE j == 2 * w
    <3>6. j \in Nat /\ q * k = q * j
      BY <3>1, <3>2, <3>5
    <3> HIDE DEF j
    <3>7. q * (k - j) = 0
      BY <3>1, <3>2, <3>6
    <3>8. k - j = 0
      BY <3>1, <3>2, <3>6, <3>7
    <3>9. k = j
      BY <3>2, <3>6, <3>8
    <3> QED  BY <3>9 DEF k, j
  <2>2. z(i) = modPow(FOf[i], 2 * w)
    BY <2>1 DEF z
  <2>3. FOf[i] \in 1..(p - 1)
    BY GroupIs
  <2> QED  BY <2>2, <2>3, RootInSubgroup
<1>3. ASSUME x \in Z_q PROVE InSubgroup(y)
  <2>1. x \in Nat
    BY <1>3, GroupIs DEF Z_q
  <2>2. y = modPow(g, x)
    BY DEF y
  <2> QED  BY <1>1, <2>1, <2>2, PowerInSubgroup
<1> QED  BY <1>1, <1>2, <1>3

\* Blinding a product of two powers adds to their exponents.
BlindedIs(h, i, a, b, c, d) ==
  (((modPow(h, a) * modPow(i, b)) % p) * modPow(h, c) * modPow(i, d)) % p =
    (modPow(h, (a + c) % q) * modPow(i, (b + d) % q)) % p

LEMMA BlindedProduct ==
  ASSUME NEW h, InSubgroup(h), NEW i, InSubgroup(i),
         NEW a \in Nat, NEW b \in Nat, NEW c \in Nat, NEW d \in Nat
  PROVE  BlindedIs(h, i, a, b, c, d)
<1> DEFINE A == modPow(h, a)  B == modPow(i, b)  C == modPow(h, c)  D == modPow(i, d)
<1>1. /\ h \in Int /\ i \in Int /\ p \in Nat \ {0}
      /\ A \in Int /\ B \in Int /\ C \in Int /\ D \in Int
  <2>1. h \in Int /\ i \in Int /\ p \in Nat \ {0}
    BY GroupIs DEF InSubgroup
  <2>2. A \in 0..(p - 1) /\ B \in 0..(p - 1) /\ C \in 0..(p - 1) /\ D \in 0..(p - 1)
    BY <2>1, PowersAre
  <2> QED  BY <2>1, <2>2
<1>2. modPow(h, (a + c) % q) = (A * C) % p /\ modPow(i, (b + d) % q) = (B * D) % p
  <2>1. a + c \in Nat /\ b + d \in Nat
    OBVIOUS
  <2>2. modPow(h, (a + c) % q) = modPow(h, a + c) /\ modPow(i, (b + d) % q) = modPow(i, b + d)
    BY <2>1, ExponentResidue
  <2> QED  BY <1>1, <2>2, PowerOfSum
<1> HIDE DEF A, B, C, D
<1>3. (((A * B) % p) * C * D) % p = ((A * B) * (C * D)) % p
  <2>1. A * B \in Int /\ C * D \in Int
    BY <1>1
  <2>2. (((A * B) % p) * (C * D)) % p = ((A * B) * (C * D)) % p
    BY <1>1, <2>1, ResidueOfParts
  <2>3. (A * B) % p \in Int
    BY <1>1, <2>1, Residue
  <2> DEFINE r == (A * B) % p
  <2> HIDE DEF r
  <2>4. r * C * D = r * (C * D)
    BY <1>1, <2>3 DEF r
  <2> QED  BY <2>2, <2>4 DEF r
<1>4. (((A * C) % p) * ((B * D) % p)) % p = ((A * C) * (B * D)) % p
  <2>1. A * C \in Int /\ B * D \in Int
    BY <1>1
  <2>2. (B * D) % p \in Int
    BY <1>1, <2>1, Residue
  <2>3. (((A * C) % p) * ((B * D) % p)) % p = ((A * C) * ((B * D) % p)) % p
    BY <1>1, <2>1, <2>2, ResidueOfParts
  <2>4. (((B * D) % p) * (A * C)) % p = ((B * D) * (A * C)) % p
    BY <1>1, <2>1, ResidueOfParts
  <2> DEFINE r == (B * D) % p
             s == A * C
             v == B * D
  <2> HIDE DEF r, s, v
  <2>5. r * s = s * r /\ v * s = s * v
    BY <2>1, <2>2 DEF r, s, v
  <2> QED  BY <2>3, <2>4, <2>5 DEF r, s, v
<1>5. (A * C) * (B * D) = (A * B) * (C * D)
  BY <1>1
<1> QED  BY <1>2, <1>3, <1>4, <1>5 DEF A, B, C, D, BlindedIs

\* What a signature is hashed with when it is verified.
SignatureHash(sig, i, m) ==
  Hash((modPow(g, sig.rho) * modPow(y, sig.omega)) % p,
         (modPow(g, sig.sigma) * modPow(z(i), sig.delta)) % p, z(i), m) % q

\* The node takes off with the key what the verifier multiplies back in: g^u = g^r y^c.
LEMMA PublicIsResponse ==
  ASSUME x \in Z_q,
         NEW u \in Z_q, NEW c \in Z_q, NEW r, r = (u - c * x) % q
  PROVE  r \in Z_q /\ modPow(g, u) = (modPow(g, r) * modPow(y, c)) % p
<1>1. /\ q \in Nat \ {0} /\ x \in Nat /\ u \in Nat /\ c \in Nat
      /\ InSubgroup(g) /\ g \in Int
  BY GroupIs, Elements DEF Z_q, InSubgroup
<1>2. c * x \in Nat /\ c * x = x * c /\ u - c * x \in Int
  BY <1>1
<1>3. r \in 0..(q - 1)
  BY <1>1, <1>2, Residue
<1>4. (r + x * c) % q = u % q
  <2> DEFINE n == c * x
             v == u - n
  <2>1. n \in Int /\ v \in Int /\ v + n = u /\ r = v % q /\ n = x * c
    BY <1>1, <1>2
  <2> HIDE DEF n, v
  <2>2. ((v % q) + n) % q = (v + n) % q
    BY <1>1, <2>1, ResidueOfParts
  <2> QED  BY <2>1, <2>2
<1>5. modPow(y, c) = modPow(g, x * c)
  <2>1. y = modPow(g, x)
    BY DEF y
  <2> QED  BY <1>1, <2>1, PowerOfPower
<1>6. r \in Nat /\ x * c \in Nat /\ r + x * c \in Nat
  BY <1>1, <1>2, <1>3
<1>7. modPow(g, r + x * c) = (modPow(g, r) * modPow(g, x * c)) % p
  BY <1>1, <1>6, PowerOfSum
<1>8. modPow(g, r + x * c) = modPow(g, u)
  BY <1>1, <1>4, <1>6, SameExponent
<1> QED  BY <1>3, <1>5, <1>7, <1>8 DEF Z_q

\* Whatever the challenge, the blinded commitments are what is hashed of the signature
\* that is made of the response.
LEMMA CommitmentsMeet ==
  ASSUME x \in Z_q, priv \in Private,
         info \in Info, NEW k \in Blinding, NEW ch \in Z_q, NEW m
  PROVE  Epsilon(Public, info, m, k) =
           SignatureHash(BlindSignature(k, Response(priv, ch)), info, m)
<1> DEFINE res == Response(priv, ch)
           sig == BlindSignature(k, res)
           c == (ch - priv.d) % q
           r == (priv.u - c * x) % q
           G == g  Y == y  Z == z(info)
           pub == Public
<1>1. /\ priv.u \in Z_q /\ priv.s \in Z_q /\ priv.d \in Z_q
      /\ k.t1 \in Z_q /\ k.t2 \in Z_q /\ k.t3 \in Z_q /\ k.t4 \in Z_q
  BY RandomIs DEF Private, Blinding
<1>2. c \in Z_q
  <2>1. ch - priv.d \in Int /\ q \in Nat \ {0}
    BY <1>1, GroupIs DEF Z_q
  <2> QED  BY <2>1, Residue DEF Z_q
<1>3. /\ sig.rho = (r + k.t1) % q /\ sig.omega = (c + k.t2) % q
      /\ sig.sigma = (priv.s + k.t3) % q /\ sig.delta = (priv.d + k.t4) % q
  BY DEF BlindSignature, Response
<1>4. /\ pub.a = modPow(G, priv.u)
      /\ pub.b = (modPow(G, priv.s) * modPow(Z, priv.d)) % p
  BY DEF Public
<1> HIDE DEF c
<1>5. r \in Z_q /\ modPow(G, priv.u) = (modPow(G, r) * modPow(Y, c)) % p
  BY <1>1, <1>2, PublicIsResponse
<1> HIDE DEF r
<1>6. \A n \in Z_q : n \in Nat
  BY GroupIs DEF Z_q
<1>7. InSubgroup(G) /\ InSubgroup(Y) /\ InSubgroup(Z)
  BY Elements
<1> HIDE DEF G, Y, Z, sig, pub
<1>8. (pub.a * modPow(G, k.t1) * modPow(Y, k.t2)) % p = (modPow(G, sig.rho) * modPow(Y, sig.omega)) % p
  <2>1. r \in Nat /\ c \in Nat /\ k.t1 \in Nat /\ k.t2 \in Nat
    BY <1>1, <1>2, <1>5, <1>6
  <2>2. BlindedIs(G, Y, r, c, k.t1, k.t2)
    BY <1>7, <2>1, BlindedProduct
  <2> QED  BY <1>3, <1>4, <1>5, <2>2 DEF BlindedIs
<1>9. (pub.b * modPow(G, k.t3) * modPow(Z, k.t4)) % p = (modPow(G, sig.sigma) * modPow(Z, sig.delta)) % p
  <2>1. priv.s \in Nat /\ priv.d \in Nat /\ k.t3 \in Nat /\ k.t4 \in Nat
    BY <1>1, <1>6
  <2>2. BlindedIs(G, Z, priv.s, priv.d, k.t3, k.t4)
    BY <1>7, <2>1, BlindedProduct
  <2> QED  BY <1>3, <1>4, <2>2 DEF BlindedIs
<1> USE DEF sig, pub
<1>10. Epsilon(pub, info, m, k) =
         Hash((pub.a * modPow(G, k.t1) * modPow(Y, k.t2)) % p,
                (pub.b * modPow(G, k.t3) * modPow(Z, k.t4)) % p, Z, m) % q
  BY DEF Epsilon, G, Y, Z
<1>11. SignatureHash(sig, info, m) =
         Hash((modPow(G, sig.rho) * modPow(Y, sig.omega)) % p,
                (modPow(G, sig.sigma) * modPow(Z, sig.delta)) % p, Z, m) % q
  BY DEF SignatureHash, G, Y, Z
<1> HIDE DEF sig, pub
<1>12. QED
  BY <1>8, <1>9, <1>10, <1>11 DEF sig, pub, res

\* The hash is a residue, and a signature verifies when its two parts sum to it.
LEMMA VerifyingIs ==
  ASSUME x \in Z_q, NEW i \in Info, NEW m \in Msg,
         NEW sig \in [rho : Z_q, omega : Z_q, sigma : Z_q, delta : Z_q]
  PROVE  /\ SignatureHash(sig, i, m) \in Z_q
         /\ Verifies(sig, i, m) <=> (sig.omega + sig.delta) % q = SignatureHash(sig, i, m)
<1> DEFINE A == (modPow(g, sig.rho) * modPow(y, sig.omega)) % p
           B == (modPow(g, sig.sigma) * modPow(z(i), sig.delta)) % p
           H == Hash(A, B, z(i), m)
<1>1. /\ q \in Nat \ {0} /\ p \in Nat \ {0}
      /\ sig.rho \in Nat /\ sig.omega \in Nat /\ sig.sigma \in Nat /\ sig.delta \in Nat
  BY GroupIs DEF Z_q
<1>2. \A h, n : InSubgroup(h) /\ n \in Nat => modPow(h, n) \in Int
  <2> SUFFICES ASSUME NEW h, NEW n, InSubgroup(h), n \in Nat PROVE modPow(h, n) \in Int
    OBVIOUS
  <2>1. InSubgroup(modPow(h, n))
    BY PowerInSubgroup
  <2> QED  BY <1>1, <2>1 DEF InSubgroup
<1>3. InSubgroup(g) /\ InSubgroup(y) /\ InSubgroup(z(i))
  BY Elements
<1>4. A \in 0..(p - 1) /\ B \in 0..(p - 1)
  <2>1. /\ modPow(g, sig.rho) * modPow(y, sig.omega) \in Int
        /\ modPow(g, sig.sigma) * modPow(z(i), sig.delta) \in Int
    BY <1>1, <1>2, <1>3
  <2> QED  BY <1>1, <2>1, Residue
<1>5. z(i) \in 0..(p - 1)
  BY <1>3 DEF InSubgroup
<1>6. SignatureHash(sig, i, m) = H % q
  BY DEF SignatureHash
<1>7. Verifies(sig, i, m) <=> (sig.omega + sig.delta) % q = H % q
  BY DEF Verifies
<1> HIDE DEF A, B
<1>8. H \in Nat
  BY <1>4, <1>5, GroupAssumption
<1> HIDE DEF H
<1>9. H % q \in 0..(q - 1)
  BY <1>1, <1>8, Residue
<1> QED  BY <1>6, <1>7, <1>9 DEF Z_q

\* The two parts of a signature sum to the hash that the challenge was made of.
MeetsHash(m, hash, ch, c, d, t2, t4) ==
  ch = (hash - t2 - t4) % m /\ c = (ch - d) % m =>
    (((c + t2) % m) + ((d + t4) % m)) % m = hash

LEMMA PartsSumToHash ==
  ASSUME NEW m \in Nat \ {0}, NEW hash \in 0..(m - 1), NEW ch \in Int, NEW c \in Int,
         NEW d \in Int, NEW t2 \in Int, NEW t4 \in Int
  PROVE  MeetsHash(m, hash, ch, c, d, t2, t4)
<1> SUFFICES ASSUME ch = (hash - t2 - t4) % m, c = (ch - d) % m
             PROVE  (((c + t2) % m) + ((d + t4) % m)) % m = hash
  BY DEF MeetsHash
<1> DEFINE n == c + t2  o == d + t4  k == t4 + t2
           a == hash - t2 - t4  b == ch - d
<1>1. /\ n \in Int /\ o \in Int /\ k \in Int /\ a \in Int /\ b \in Int /\ d + k \in Int
      /\ ch = a % m /\ c = b % m
      /\ o + n = c + (d + k) /\ b + (d + k) = ch + k /\ a + k = hash
  OBVIOUS
<1> HIDE DEF n, o, k, a, b
<1>2. ((n % m) + (o % m)) % m = (n + (o % m)) % m
  <2>1. o % m \in Int
    BY <1>1, Residue
  <2> DEFINE r == o % m
  <2> HIDE DEF r
  <2>2. r \in Int
    BY <2>1 DEF r
  <2>3. ((n % m) + r) % m = (n + r) % m
    BY <1>1, <2>2, ResidueOfParts
  <2> QED  BY <2>3 DEF r
<1>3. ((o % m) + n) % m = (o + n) % m
  BY <1>1, ResidueOfParts
<1>4. n + (o % m) = (o % m) + n
  BY <1>1, Residue
<1>5. ((b % m) + (d + k)) % m = (b + (d + k)) % m
  BY <1>1, ResidueOfParts
<1>6. ((a % m) + k) % m = (a + k) % m
  BY <1>1, ResidueOfParts
<1>7. hash % m = hash
  BY ResidueSame
<1>8. ((n % m) + (o % m)) % m = hash
  BY <1>1, <1>2, <1>3, <1>4, <1>5, <1>6, <1>7
<1> QED  BY <1>8 DEF n, o

\* Blinding numbers taken off a signature give back the challenge of the response ...
MeetsChallenge(m, ch, c, d, omega, delta) ==
  c = (ch - d) % m =>
    (((omega + delta) % m) - ((omega - c) % m) - ((delta - d) % m)) % m = ch

LEMMA ChallengeOfParts ==
  ASSUME NEW m \in Nat \ {0}, NEW ch \in 0..(m - 1), NEW c \in Int, NEW d \in Int,
         NEW omega \in Int, NEW delta \in Int
  PROVE  MeetsChallenge(m, ch, c, d, omega, delta)
<1> SUFFICES ASSUME c = (ch - d) % m
             PROVE  (((omega + delta) % m) - ((omega - c) % m) - ((delta - d) % m)) % m = ch
  BY DEF MeetsChallenge
<1> DEFINE n == omega + delta  o == omega - c  k == delta - d
           v == c + d - omega - delta  b == ch - d
<1>1. /\ n \in Int /\ o \in Int /\ k \in Int /\ v \in Int /\ b \in Int
      /\ n + v = c + d /\ c = b % m /\ b + d = ch
      /\ \A r \in Int : (r - k) - o = r + v
  OBVIOUS
<1> HIDE DEF n, o, k, v, b
<1> DEFINE r == n % m  s == o % m
<1>2. r \in Int /\ s \in Int
  BY <1>1, Residue
<1> HIDE DEF r, s
<1>3. ((r - s) - (k % m)) % m = ((r - s) - k) % m
  <2>1. r - s \in Int
    BY <1>2
  <2> QED  BY <1>1, <2>1, ResidueOfParts
<1>4. ((r - k) - s) % m = ((r - k) - o) % m
  <2>1. r - k \in Int
    BY <1>1, <1>2
  <2>2. ((r - k) - (o % m)) % m = ((r - k) - o) % m
    BY <1>1, <2>1, ResidueOfParts
  <2> QED  BY <2>2 DEF s
<1>5. (r + v) % m = (n + v) % m
  <2>1. ((n % m) + v) % m = (n + v) % m
    BY <1>1, ResidueOfParts
  <2> QED  BY <2>1 DEF r
<1>6. (r - s) - k = (r - k) - s /\ (r - k) - o = r + v
  BY <1>1, <1>2
<1>7. (c + d) % m = ch
  <2>1. ((b % m) + d) % m = (b + d) % m
    BY <1>1, ResidueOfParts
  <2>2. ch % m = ch
    BY ResidueSame
  <2> QED  BY <1>1, <2>1, <2>2
<1>8. ((r - s) - (k % m)) % m = ch
  BY <1>1, <1>3, <1>4, <1>5, <1>6, <1>7
<1> QED  BY <1>8 DEF r, s, n, o, k

\* ... and put on the response they give back the signature.
LEMMA OnAndOff ==
  ASSUME NEW m \in Nat \ {0}, NEW a \in Int, NEW b \in 0..(m - 1)
  PROVE  (b - a) % m \in 0..(m - 1) /\ (a + ((b - a) % m)) % m = b
<1>1. b - a \in Int /\ (b - a) + a = b
  OBVIOUS
<1>2. (b - a) % m \in 0..(m - 1) /\ (((b - a) % m) + a) % m = ((b - a) + a) % m
  BY <1>1, Residue, ResidueOfParts
<1>3. b % m = b
  BY ResidueSame
<1> DEFINE r == (b - a) % m
<1> HIDE DEF r
<1>4. r \in 0..(m - 1) => a + r = r + a
  OBVIOUS
<1> QED  BY <1>1, <1>2, <1>3, <1>4 DEF r

\* The session: the challenge is made of the blinding numbers, the response that is
\* stored answers the challenge stored with it, and the signature is made of it.
Answered ==
  /\ stored.e \in Z_q
  /\ stored.response = Response(priv, stored.e)

SessionInv ==
  /\ x \in Z_q /\ info \in Info /\ msg \in Msg
  /\ stage \in {"start", "params", "challenge", "response", "signature"}
  /\ stage # "start" => priv \in Private
  /\ stage \in {"challenge", "response", "signature"} =>
       /\ t \in Blinding
       /\ e = Challenge(Public, info, msg, t)
  /\ stored = None \/ (stage # "start" /\ Answered)
  /\ stage \in {"response", "signature"} => Answered /\ response = stored.response
  /\ stage = "signature" => signature = BlindSignature(t, response)

\* A response has residues, and so has the signature made of it.
LEMMA ResponseType ==
  ASSUME x \in Z_q, priv \in Private,
         NEW k \in Blinding, NEW ch \in Z_q
  PROVE  /\ Response(priv, ch) \in
              [r : Z_q, c : Z_q, s : Z_q, d : Z_q]
         /\ BlindSignature(k, Response(priv, ch)) \in
              [rho : Z_q, omega : Z_q, sigma : Z_q, delta : Z_q]
<1>1. q \in Nat \ {0} /\ \A n \in Int : n % q \in Z_q
  BY GroupIs, Residue DEF Z_q
<1>2. /\ priv.u \in Z_q /\ priv.s \in Z_q /\ priv.d \in Z_q
      /\ k.t1 \in Z_q /\ k.t2 \in Z_q /\ k.t3 \in Z_q /\ k.t4 \in Z_q
  BY RandomIs DEF Private, Blinding
<1>3. \A n \in Z_q : n \in Int
  BY DEF Z_q
<1> DEFINE c == (ch - priv.d) % q
           r == (priv.u - c * x) % q
<1>4. c \in Z_q
  <2>1. ch - priv.d \in Int
    BY <1>2, <1>3
  <2> QED  BY <1>1, <2>1
<1> HIDE DEF c
<1>5. r \in Z_q
  <2>1. priv.u - c * x \in Int
    BY <1>2, <1>3, <1>4
  <2> QED  BY <1>1, <2>1
<1> HIDE DEF r
<1>6. Response(priv, ch) = [r |-> r, c |-> c, s |-> priv.s, d |-> priv.d]
  BY DEF Response, r, c
<1>7. /\ (r + k.t1) % q \in Z_q /\ (c + k.t2) % q \in Z_q
      /\ (priv.s + k.t3) % q \in Z_q /\ (priv.d + k.t4) % q \in Z_q
  <2>1. /\ r + k.t1 \in Int /\ c + k.t2 \in Int /\ priv.s + k.t3 \in Int /\ priv.d + k.t4 \in Int
    BY <1>2, <1>3, <1>4, <1>5
  <2> QED  BY <1>1, <2>1
<1> QED  BY <1>2, <1>4, <1>5, <1>6, <1>7 DEF BlindSignature

\* What the operators of a session say stays the same as long as key, info and the node's
\* numbers do.
LEMMA SessionStays ==
  ASSUME x' = x, priv' = priv, info' = info
  PROVE  /\ Public' = Public
         /\ \A pub, m, k : Challenge(pub, info, m, k)' = Challenge(pub, info, m, k)
         /\ \A ch : Response(priv, ch)' = Response(priv, ch)
BY DEF Public, Challenge, Epsilon, Response, y

\* The challenge is a residue.
LEMMA ChallengeType ==
  ASSUME x \in Z_q, priv \in Private,
         info \in Info, NEW m \in Msg, NEW k \in Blinding
  PROVE  Challenge(Public, info, m, k) \in Z_q
<1> DEFINE eps == Epsilon(Public, info, m, k)
<1>1. q \in Nat \ {0} /\ 0 \in Z_q /\ \A n \in Z_q : n \in Int
  BY GroupIs DEF Z_q
<1>2. eps \in Z_q
  <2> DEFINE sig == BlindSignature(k, Response(priv, 0))
  <2>1. eps = SignatureHash(sig, info, m)
    BY <1>1, CommitmentsMeet
  <2>2. sig \in [rho : Z_q, omega : Z_q, sigma : Z_q, delta : Z_q]
    BY <1>1, ResponseType
  <2> HIDE DEF sig, eps
  <2> QED  BY <2>1, <2>2, VerifyingIs
<1>3. Challenge(Public, info, m, k) = (eps - k.t2 - k.t4) % q
  BY DEF Challenge
<1> HIDE DEF eps
<1>4. eps - k.t2 - k.t4 \in Int
  BY <1>1, <1>2, RandomIs DEF Blinding
<1> QED  BY <1>1, <1>3, <1>4, Residue DEF Z_q

LEMMA SessionInvInit == SessionInit => SessionInv
BY DEF SessionInit, SessionInv

\* Every step of a session keeps the invariant.
LEMMA SessionStep ==
  ASSUME SessionInv, [SessionNext]_sessionVars
  PROVE  SessionInv'
<1>1. CASE GenerateWISchnorrParams
  BY <1>1 DEF GenerateWISchnorrParams, SessionInv
<1>2. CASE GenerateWISchnorrClientChallenge
  <2>1. /\ x' = x /\ info' = info /\ msg' = msg /\ priv' = priv
        /\ stored' = stored /\ stage \in {"params", "challenge"} /\ stage' = "challenge"
        /\ t' \in Blinding
        /\ e' = Challenge(Public, info, msg, t')
    BY <1>2 DEF GenerateWISchnorrClientChallenge
  <2>2. Answered' <=> Answered
    BY <2>1, SessionStays DEF Answered
  <2>3. e' = Challenge(Public, info, msg, t)'
    BY <2>1 DEF Public, Challenge, Epsilon, y
  <2> QED  BY <2>1, <2>2, <2>3 DEF SessionInv
<1>3. ASSUME NEW delivered \in BOOLEAN, VerificationSigGet(delivered) PROVE SessionInv'
  <2>1. /\ x' = x /\ info' = info /\ msg' = msg /\ priv' = priv
        /\ t' = t /\ e' = e /\ stage = "challenge"
        /\ stored' = IF stored = None
                       THEN [e |-> e, response |-> Response(priv, e)]
                       ELSE stored
        /\ \/ stage' = "response" /\ response' = stored'.response
           \/ stage' = "challenge"
    BY <1>3 DEF VerificationSigGet
  <2>2. /\ x \in Z_q /\ info \in Info /\ msg \in Msg
        /\ priv \in Private /\ t \in Blinding
        /\ e = Challenge(Public, info, msg, t)
        /\ stored = None \/ Answered
    BY <2>1 DEF SessionInv
  <2>3. e \in Z_q
    BY <2>2, ChallengeType
  <2>4. \A ch : Response(priv, ch)' = Response(priv, ch)
    BY <2>1, SessionStays
  <2>5. Answered'
    <3>1. CASE stored = None
      BY <2>1, <2>3, <2>4, <3>1 DEF Answered
    <3>2. CASE Answered /\ stored # None
      BY <2>1, <2>4, <3>2 DEF Answered
    <3> QED  BY <2>2, <3>1, <3>2
  <2>6. e' = Challenge(Public, info, msg, t)'
    BY <2>1, <2>2 DEF Public, Challenge, Epsilon, y
  <2> QED  BY <2>1, <2>2, <2>5, <2>6 DEF SessionInv
<1>4. CASE GenerateWISchnorrBlindSignature
  <2>1. /\ x' = x /\ info' = info /\ msg' = msg /\ priv' = priv
        /\ t' = t /\ e' = e /\ stored' = stored /\ response' = response
        /\ stage = "response" /\ stage' = "signature"
        /\ signature' = BlindSignature(t, response)
    BY <1>4 DEF GenerateWISchnorrBlindSignature
  <2>2. Answered' <=> Answered
    BY <2>1, SessionStays DEF Answered
  <2>3. /\ Challenge(Public, info, msg, t)'
            = Challenge(Public, info, msg, t)
        /\ BlindSignature(t, response)' = BlindSignature(t, response)
    BY <2>1 DEF Public, Challenge, Epsilon, y, BlindSignature
  <2> QED  BY <2>1, <2>2, <2>3 DEF SessionInv
<1>5. CASE UNCHANGED sessionVars
  <2>1. /\ x' = x /\ info' = info /\ msg' = msg /\ priv' = priv
        /\ t' = t /\ e' = e /\ stored' = stored /\ response' = response
        /\ stage' = stage /\ signature' = signature
    BY <1>5 DEF sessionVars
  <2>2. Answered' <=> Answered
    BY <2>1, SessionStays DEF Answered
  <2>3. /\ Challenge(Public, info, msg, t)'
            = Challenge(Public, info, msg, t)
        /\ BlindSignature(t, response)' = BlindSignature(t, response)
    BY <2>1 DEF Public, Challenge, Epsilon, y, BlindSignature
  <2> QED  BY <2>1, <2>2, <2>3 DEF SessionInv
<1> QED  BY <1>1, <1>2, <1>3, <1>4, <1>5 DEF SessionNext

LEMMA SessionCorrect == SessionSpec => []SessionInv
<1>1. SessionInv /\ [SessionNext]_sessionVars => SessionInv'
  BY SessionStep
<1> QED  BY <1>1, SessionInvInit, PTL DEF SessionSpec

\* In every group, with every key, every hash function and all random numbers, a client
\* that makes a signature of the response to its challenge can use it
\* (GenerateWISchnorrBlindSignature, VerifyWISchnorrBlindSignature).
THEOREM SignaturesVerify == SessionSpec => []SignatureVerifies
<1>1. SessionInv => SignatureVerifies
  <2> SUFFICES ASSUME SessionInv, stage = "signature", stored.e = e
               PROVE  Verifies(signature, info, msg)
    BY DEF SignatureVerifies
  <2> DEFINE hash == Epsilon(Public, info, msg, t)
             c == (e - priv.d) % q
  <2>1. /\ x \in Z_q /\ info \in Info /\ msg \in Msg
        /\ priv \in Private /\ t \in Blinding
        /\ e = Challenge(Public, info, msg, t)
        /\ e \in Z_q
        /\ signature = BlindSignature(t, Response(priv, e))
    BY DEF SessionInv, Answered
  <2>2. signature \in [rho : Z_q, omega : Z_q, sigma : Z_q, delta : Z_q]
    BY <2>1, ResponseType
  <2>3. hash = SignatureHash(signature, info, msg)
    BY <2>1, CommitmentsMeet
  <2>4. /\ hash \in Z_q
        /\ Verifies(signature, info, msg) <=>
             (signature.omega + signature.delta) % q = hash
    <3> HIDE DEF hash
    <3> QED  BY <2>1, <2>2, <2>3, VerifyingIs
  <2>5. /\ e = (hash - t.t2 - t.t4) % q
        /\ signature.omega = (c + t.t2) % q
        /\ signature.delta = (priv.d + t.t4) % q
    BY <2>1 DEF Challenge, BlindSignature, Response
  <2> HIDE DEF hash
  <2>6. /\ q \in Nat \ {0} /\ hash \in 0..(q - 1) /\ e \in Int /\ priv.d \in Int
        /\ t.t2 \in Int /\ t.t4 \in Int
    BY <2>1, <2>4, GroupIs, RandomIs DEF Z_q, Private, Blinding
  <2>7. c \in Int
    <3>1. e - priv.d \in Int
      BY <2>6
    <3> QED  BY <2>6, <3>1, Residue
  <2>8. c = (e - priv.d) % q
    OBVIOUS
  <2> HIDE DEF c
  <2>9. (((c + t.t2) % q) + ((priv.d + t.t4) % q)) % q = hash
    <3>1. MeetsHash(q, hash, e, c, priv.d, t.t2, t.t4)
      BY <2>6, <2>7, PartsSumToHash
    <3> QED  BY <2>5, <2>8, <3>1 DEF MeetsHash
  <2> QED  BY <2>4, <2>5, <2>9
<1> QED  BY <1>1, SessionCorrect, PTL

\* In every group, every signature that verifies for the same info fits every response the
\* node has given: there are blinding numbers with which the client would have sent that
\* challenge and made this signature (GenerateWISchnorrClientChallenge).
THEOREM EveryResponseFitsSignatures == SessionSpec => []EveryResponseFits
<1>1. SessionInv => EveryResponseFits
  <2> SUFFICES ASSUME SessionInv, stage = "signature", NEW m \in Msg,
                      NEW sig \in [rho : Z_q, omega : Z_q,
                                   sigma : Z_q, delta : Z_q],
                      Verifies(sig, info, m)
               PROVE  /\ Unblinding(sig) \in Blinding
                      /\ Challenge(Public, info, m, Unblinding(sig)) = stored.e
                      /\ BlindSignature(Unblinding(sig), response) = sig
    BY DEF EveryResponseFits
  <2> DEFINE k == Unblinding(sig)
             ch == stored.e
  <2>1. /\ x \in Z_q /\ info \in Info
        /\ priv \in Private /\ t \in Blinding
        /\ ch \in Z_q /\ response = Response(priv, ch)
    BY DEF SessionInv, Answered
  <2>2. response \in [r : Z_q, c : Z_q, s : Z_q, d : Z_q]
    BY <2>1, ResponseType
  <2>3. response.c = (ch - priv.d) % q /\ response.d = priv.d
    BY <2>1 DEF Response
  <2>4. /\ k.t1 = (sig.rho - response.r) % q /\ k.t2 = (sig.omega - response.c) % q
        /\ k.t3 = (sig.sigma - response.s) % q /\ k.t4 = (sig.delta - response.d) % q
        /\ k = [t1 |-> k.t1, t2 |-> k.t2, t3 |-> k.t3, t4 |-> k.t4]
    BY DEF Unblinding
  <2>5. /\ q \in Nat \ {0} /\ ch \in 0..(q - 1)
        /\ sig.rho \in 0..(q - 1) /\ sig.omega \in 0..(q - 1)
        /\ sig.sigma \in 0..(q - 1) /\ sig.delta \in 0..(q - 1)
        /\ response.r \in Int /\ response.c \in Int /\ response.s \in Int /\ response.d \in Int
    BY <2>1, <2>2, GroupIs DEF Z_q
  <2> HIDE DEF k, ch
  <2>6. /\ k.t1 \in 0..(q - 1) /\ (response.r + k.t1) % q = sig.rho
        /\ k.t2 \in 0..(q - 1) /\ (response.c + k.t2) % q = sig.omega
        /\ k.t3 \in 0..(q - 1) /\ (response.s + k.t3) % q = sig.sigma
        /\ k.t4 \in 0..(q - 1) /\ (response.d + k.t4) % q = sig.delta
    BY <2>4, <2>5, OnAndOff
  <2>7. k \in Blinding
    BY <2>4, <2>6, RandomIs DEF Blinding, Z_q
  <2>8. BlindSignature(k, response) = sig
    BY <2>6 DEF BlindSignature
  <2>9. Epsilon(Public, info, m, k) = (sig.omega + sig.delta) % q
    <3>1. Epsilon(Public, info, m, k) = SignatureHash(sig, info, m)
      BY <2>1, <2>7, <2>8, CommitmentsMeet
    <3>2. (sig.omega + sig.delta) % q = SignatureHash(sig, info, m)
      BY <2>1, VerifyingIs
    <3> QED  BY <3>1, <3>2
  <2>10. (((sig.omega + sig.delta) % q) - ((sig.omega - response.c) % q)
            - ((sig.delta - response.d) % q)) % q = ch
    <3>1. sig.omega \in Int /\ sig.delta \in Int
      BY <2>5
    <3>2. MeetsChallenge(q, ch, response.c, response.d, sig.omega, sig.delta)
      BY <2>5, <3>1, ChallengeOfParts
    <3> QED  BY <2>3, <3>2 DEF MeetsChallenge
  <2>11. Challenge(Public, info, m, k) = ch
    BY <2>4, <2>9, <2>10 DEF Challenge
  <2> QED  BY <2>7, <2>8, <2>11 DEF k, ch
<1> QED  BY <1>1, SessionCorrect, PTL
=============================================================================
