---------------------------- MODULE RecoveryProofs ----------------------------
(***************************************************************************)
(* Proofs about Recovery for every set of contacts, keys and required      *)
(* numbers, every length of a day and a week, every lag and every bound.   *)
(***************************************************************************)
EXTENDS Recovery, FiniteSetTheorems, TLAPS

USE RecoveryAssumption

-----------------------------------------------------------------------------
(* Type correctness. *)

\* What a request has read.
LEMMA GetHolds == ASSUME TypeOK, get.step = "replace" PROVE get.doc \in User
BY DEF TypeOK, Idle

\* A number that has become due leaves a document of a user.
LEMMA DueIsUser == ASSUME NEW u \in User PROVE Due(u) \in User
BY DEF Due, IsDue, User, NoNum

\* The block of an operation is one that has been created.
LEMMA BlockType == ASSUME TypeOK, NEW t, InBlock(t) PROVE block' \in Nat /\ block' <= now
BY DEF TypeOK, InBlock

\* An operation keeps the types if it leaves a document of a user.
LEMMA OperationKeepsType ==
  ASSUME TypeOK, NEW u \in User, NEW t, Operation(u, t),
         requests' \subseteq [num : Num, time : Nat]
  PROVE  TypeOK'
<1>1. block' \in Nat /\ block' <= now
  BY BlockType DEF Operation
<1>2. u.keys \subseteq Key
  BY DEF User
<1>3. QED
  BY <1>1, <1>2 DEF Operation, TypeOK

\* Connect keeps the types.
LEMMA ConnectKeepsType ==
  ASSUME TypeOK, NEW c \in Contact, NEW r \in BOOLEAN, NEW t \in block..now, Connect(c, r, t)
  PROVE  TypeOK'
<1>1. block' \in Nat /\ block' <= now /\ t \in Nat
  BY BlockType DEF Connect, TypeOK
<1>2. history' \in [Contact -> Seq(Entry)]
  <2>1. [recovery |-> r, timestamp |-> t] \in Entry
    BY <1>1 DEF Entry
  <2>2. history \in [Contact -> Seq(Entry)] /\ history[c] \in Seq(Entry)
    BY DEF TypeOK
  <2>3. Append(history[c], [recovery |-> r, timestamp |-> t]) \in Seq(Entry)
    BY <2>1, <2>2
  <2>4. QED
    BY <2>2, <2>3 DEF Connect
<1>3. since' \in [Contact -> Nat \cup {Never}]
  BY <1>1 DEF Connect, Became, TypeOK
<1>4. until' \in [Contact -> Nat \cup {Never}]
  BY <1>1 DEF Connect, Became, TypeOK
<1>5. seen' \in [Contact -> Nat \cup {Never}]
  BY DEF Connect, Observe, TypeOK
<1>6. changes' \in Nat
  BY DEF Connect, TypeOK
<1>7. UNCHANGED <<now, trusts, user, get, requests, lastKeys>>
  BY DEF Connect
<1>8. QED
  BY <1>1, <1>2, <1>3, <1>4, <1>5, <1>6, <1>7 DEF TypeOK

\* The initial state has the types.
LEMMA TypeInit == Init => TypeOK
<1> SUFFICES ASSUME Init PROVE TypeOK
  OBVIOUS
<1>1. user \in User
  BY DEF Init, User
<1>2. history \in [Contact -> Seq(Entry)]
  BY DEF Init
<1>3. QED
  BY <1>1, <1>2 DEF Init, TypeOK

\* Every step keeps the types.
LEMMA TypeStep == ASSUME TypeOK, [Next]_vars PROVE TypeOK'
<1>1. CASE Tick
  <2>1. seen' \in [Contact -> Nat \cup {Never}]
    BY <1>1 DEF Tick, Observe, TypeOK
  <2>2. QED
    BY <1>1, <2>1 DEF Tick, TypeOK
<1>2. CASE GetUser
  <2>1. user \in User
    BY DEF TypeOK
  <2>2. Due(user) \in User
    BY <2>1, DueIsUser
  <2>3. QED
    BY <1>2, <2>2 DEF GetUser, TypeOK, ghosts
<1>3. CASE ReplaceUser
  <2>1. get.doc \in User
    BY <1>3, GetHolds DEF ReplaceUser
  <2>2. QED
    BY <1>3, <2>1 DEF ReplaceUser, TypeOK, ghosts
<1>4. ASSUME NEW t \in block..now, NEW c \in Contact, NEW r \in BOOLEAN, Connect(c, r, t)
      PROVE  TypeOK'
  BY <1>4, ConnectKeepsType
<1>5. ASSUME NEW t \in block..now, NEW c \in Contact, ConnectBack(c, t) PROVE TypeOK'
  <2>1. block' \in Nat /\ block' <= now
    BY <1>5, BlockType DEF ConnectBack
  <2>2. trusts' \subseteq Contact
    BY <1>5 DEF ConnectBack, TypeOK
  <2>3. QED
    BY <1>5, <2>1, <2>2 DEF ConnectBack, TypeOK, ghosts
<1>6. ASSUME NEW t \in block..now, NEW ids \in SUBSET Contact, NEW k \in Key,
             SocialRecovery(ids, k, t)
      PROVE  TypeOK'
  <2> DEFINE u == IF Suffices(ids, Due(user).num) THEN [Due(user) EXCEPT !.keys = {k}]
                  ELSE Due(user)
  <2>1. Due(user) \in User
    BY DueIsUser DEF TypeOK
  <2>2. u \in User
    BY <2>1 DEF User
  <2>3. Operation(u, t) /\ requests' = requests
    BY <1>6 DEF SocialRecovery
  <2> HIDE DEF u
  <2>4. requests' \subseteq [num : Num, time : Nat]
    BY <2>3 DEF TypeOK
  <2>5. QED
    BY <2>2, <2>3, <2>4, OperationKeepsType
<1>7. ASSUME NEW t \in block..now, NEW k \in Key,
             AddSigningKey(k, t) \/ RemoveSigningKey(k, t) \/ RemoveAllSigningKeys(k, t)
      PROVE  TypeOK'
  <2>1. user \in User /\ requests' \subseteq [num : Num, time : Nat]
    BY <1>7 DEF TypeOK, AddSigningKey, RemoveSigningKey, RemoveAllSigningKeys
  <2>2. \A keys \in SUBSET Key : [user EXCEPT !.keys = keys] \in User
    BY <2>1 DEF User
  <2>3. PICK keys \in SUBSET Key : Operation([user EXCEPT !.keys = keys], t)
    <3>1. user.keys \subseteq Key
      BY <2>1 DEF User
    <3>2. CASE AddSigningKey(k, t)
      BY <3>1, <3>2 DEF AddSigningKey
    <3>3. CASE RemoveSigningKey(k, t)
      BY <3>1, <3>3 DEF RemoveSigningKey
    <3>4. CASE RemoveAllSigningKeys(k, t)
      BY <3>4 DEF RemoveAllSigningKeys
    <3>5. QED
      BY <1>7, <3>2, <3>3, <3>4
  <2>4. QED
    BY <2>1, <2>2, <2>3, OperationKeepsType
<1>8. ASSUME NEW t \in block..now, NEW n \in Num, SetRequiredRecoveryNum(n, t)
      PROVE  TypeOK'
  <2> DEFINE u == [user EXCEPT !.next = n, !.setAfter = now + WEEK]
  <2>1. u \in User
    <3>1. user \in User /\ now + WEEK \in Nat
      BY DEF TypeOK
    <3>2. QED
      BY <3>1 DEF User
  <2>2. Operation(u, t)
    BY <1>8 DEF SetRequiredRecoveryNum
  <2>3. requests' \subseteq [num : Num, time : Nat]
    BY <1>8 DEF SetRequiredRecoveryNum, TypeOK
  <2> HIDE DEF u
  <2>4. QED
    BY <2>1, <2>2, <2>3, OperationKeepsType
<1>9. CASE UNCHANGED vars
  BY <1>9 DEF vars, ghosts, TypeOK
<1>10. QED
  BY <1>1, <1>2, <1>3, <1>4, <1>5, <1>6, <1>7, <1>8, <1>9 DEF Next

\* Every variable keeps its type.
THEOREM TypeCorrect == Spec => []TypeOK
BY TypeInit, TypeStep, PTL DEF Spec

-----------------------------------------------------------------------------
(* The required number. *)

AskedAWeekBefore(n, time) == \E r \in requests : r.num = n /\ r.time + WEEK <= time

\* In any version of the document that can be written, the number in force was asked
\* for a week ago and the next one a week before it becomes due.
GoodNums(u) ==
  /\ u.num # 2 => AskedAWeekBefore(u.num, now)
  /\ u.next # NoNum => AskedAWeekBefore(u.next, u.setAfter)

NumInv == GoodNums(user) /\ (get.step = "replace" => GoodNums(get.doc))

\* Time and requests only add to what has been asked for a week before.
LEMMA NumsStayGood ==
  ASSUME TypeOK, NEW u \in User, GoodNums(u),
         requests \subseteq requests', now' \in Nat, now <= now'
  PROVE  /\ u.num # 2 => \E r \in requests' : r.num = u.num /\ r.time + WEEK <= now'
         /\ u.next # NoNum => \E r \in requests' : r.num = u.next /\ r.time + WEEK <= u.setAfter
BY DEF TypeOK, GoodNums, AskedAWeekBefore

\* A number that becomes due has been asked for a week ago.
LEMMA DueIsGood == ASSUME TypeOK, NEW u \in User, GoodNums(u) PROVE GoodNums(Due(u))
<1>1. CASE ~IsDue(u)
  BY <1>1 DEF Due
<1>2. CASE IsDue(u)
  <2>1. Due(u).num = u.next /\ Due(u).next = NoNum
    BY <1>2 DEF Due, User
  <2>2. PICK r \in requests : r.num = u.next /\ r.time + WEEK <= u.setAfter
    BY <1>2 DEF IsDue, GoodNums, AskedAWeekBefore
  <2>3. r.time + WEEK <= now
    BY <1>2, <2>2 DEF IsDue, TypeOK, User
  <2>4. QED
    BY <2>1, <2>2, <2>3 DEF GoodNums, AskedAWeekBefore
<1>3. QED
  BY <1>1, <1>2

\* Every step keeps the numbers good.
LEMMA NumStep == ASSUME TypeOK, NumInv, [Next]_vars PROVE NumInv'
<1>1. user \in User /\ (get.step = "replace" => get.doc \in User)
  BY GetHolds DEF TypeOK
<1>2. requests \subseteq requests' /\ now' \in Nat /\ now <= now'
  <2>1. requests \subseteq requests'
    BY DEF Next, vars, ghosts, Tick, GetUser, ReplaceUser, Connect, ConnectBack,
           SocialRecovery, AddSigningKey, RemoveSigningKey, RemoveAllSigningKeys,
           SetRequiredRecoveryNum
  <2>2. now' = now \/ now' = now + 1
    BY DEF Next, vars, Tick, GetUser, ReplaceUser, Connect, ConnectBack, Operation,
           SocialRecovery, AddSigningKey, RemoveSigningKey, RemoveAllSigningKeys,
           SetRequiredRecoveryNum
  <2>3. QED
    BY <2>1, <2>2 DEF TypeOK
<1> DEFINE Stays(u) ==
      /\ u.num # 2 => \E r \in requests' : r.num = u.num /\ r.time + WEEK <= now'
      /\ u.next # NoNum => \E r \in requests' : r.num = u.next /\ r.time + WEEK <= u.setAfter
<1>3. \A u \in User : GoodNums(u) => Stays(u)
  BY <1>2, NumsStayGood
<1>4. CASE UNCHANGED <<user, get>>
  BY <1>1, <1>3, <1>4 DEF NumInv, GoodNums, AskedAWeekBefore
<1>5. CASE GetUser
  <2>1. Due(user) \in User /\ GoodNums(Due(user))
    BY <1>1, DueIsUser, DueIsGood DEF NumInv
  <2>2. user' = user /\ get'.doc = Due(user)
    BY <1>5 DEF GetUser
  <2>3. QED
    BY <1>1, <1>3, <2>1, <2>2 DEF NumInv, GoodNums, AskedAWeekBefore
<1>6. CASE ReplaceUser
  <2>1. user' = get.doc /\ get' = Idle /\ get.step = "replace"
    BY <1>6 DEF ReplaceUser
  <2>2. get'.step # "replace"
    BY <2>1 DEF Idle
  <2>3. QED
    BY <1>1, <1>3, <2>1, <2>2 DEF NumInv, GoodNums, AskedAWeekBefore
<1>7. ASSUME NEW u \in User, user' = u, get' = get, Stays(u) PROVE NumInv'
  BY <1>1, <1>3, <1>7 DEF NumInv, GoodNums, AskedAWeekBefore
<1>8. ASSUME NEW t \in block..now, NEW ids \in SUBSET Contact, NEW k \in Key,
             SocialRecovery(ids, k, t)
      PROVE  NumInv'
  <2> DEFINE u == IF Suffices(ids, Due(user).num) THEN [Due(user) EXCEPT !.keys = {k}]
                  ELSE Due(user)
  <2>1. Due(user) \in User /\ GoodNums(Due(user))
    BY <1>1, DueIsUser, DueIsGood DEF NumInv
  <2>2. Stays(Due(user))
    BY <1>3, <2>1
  <2>3. /\ u \in User /\ u.num = Due(user).num /\ u.next = Due(user).next
        /\ u.setAfter = Due(user).setAfter
    BY <2>1 DEF User
  <2>4. user' = u /\ get' = get
    BY <1>8 DEF SocialRecovery, Operation
  <2> HIDE DEF u
  <2>5. QED
    BY <1>7, <2>2, <2>3, <2>4
<1>9. ASSUME NEW t \in block..now, NEW k \in Key,
             AddSigningKey(k, t) \/ RemoveSigningKey(k, t) \/ RemoveAllSigningKeys(k, t)
      PROVE  NumInv'
  <2>1. PICK keys : user' = [user EXCEPT !.keys = keys] /\ get' = get
    BY <1>9 DEF AddSigningKey, RemoveSigningKey, RemoveAllSigningKeys, Operation
  <2>2. user'.num = user.num /\ user'.next = user.next /\ user'.setAfter = user.setAfter
    BY <1>1, <2>1 DEF User
  <2>3. QED
    BY <1>1, <1>3, <2>1, <2>2 DEF NumInv, GoodNums, AskedAWeekBefore
<1>10. ASSUME NEW t \in block..now, NEW n \in Num, SetRequiredRecoveryNum(n, t)
       PROVE  NumInv'
  <2> DEFINE u == [user EXCEPT !.next = n, !.setAfter = now + WEEK]
             r == [num |-> n, time |-> now]
  <2>1. user' = u /\ get' = get /\ requests' = requests \cup {r}
    BY <1>10 DEF SetRequiredRecoveryNum, Operation
  <2>2. u \in User /\ u.num = user.num /\ u.next = n /\ u.setAfter = now + WEEK
    <3>1. now + WEEK \in Nat
      BY DEF TypeOK
    <3>2. QED
      BY <1>1, <3>1 DEF User
  <2>3. r \in requests' /\ r.num = n /\ r.time + WEEK <= now + WEEK
    BY <2>1 DEF TypeOK
  <2> HIDE DEF u, r
  <2>4. Stays(user)
    BY <1>1, <1>3 DEF NumInv
  <2>5. Stays(u)
    BY <2>2, <2>3, <2>4
  <2>6. QED
    BY <1>7, <2>1, <2>2, <2>5
<1>11. \/ UNCHANGED <<user, get>> \/ GetUser \/ ReplaceUser
       \/ \E t \in block..now :
            \/ \E ids \in SUBSET Contact, k \in Key : SocialRecovery(ids, k, t)
            \/ \E k \in Key : AddSigningKey(k, t) \/ RemoveSigningKey(k, t)
                              \/ RemoveAllSigningKeys(k, t)
            \/ \E n \in Num : SetRequiredRecoveryNum(n, t)
  BY DEF Next, vars, Tick, Connect, ConnectBack
<1>12. QED
  BY <1>4, <1>5, <1>6, <1>8, <1>9, <1>10, <1>11

\* A required number in force is two, or was asked for a week ago, whatever requests
\* of the API write back and however late they do.
THEOREM RequiredNumsWait == Spec => []RequiredNumTakesAWeek
<1>1. Init => NumInv
  BY DEF Init, NumInv, GoodNums, Idle
<1>2. TypeOK /\ NumInv /\ [Next]_vars => NumInv'
  BY NumStep
<1>3. NumInv => RequiredNumTakesAWeek
  BY DEF NumInv, GoodNums, AskedAWeekBefore, RequiredNumTakesAWeek
<1>4. QED
  BY <1>1, <1>2, <1>3, TypeCorrect, PTL DEF Spec


-----------------------------------------------------------------------------
(* The history and the notes of its changes.                               *)
(*                                                                         *)
(* The periods are computed from the whole history each time somebody asks *)
(* for them; since and until are what an account that followed the changes *)
(* would keep.  The invariant says which entries of the history they are.  *)

At(c, i) == history[c][i].timestamp
Size(c)  == Len(history[c])

\* The period that starts at i lasts; it has ended at j.
OpenFrom(c, i) == i \in Starts(c) /\ \A j \in Entries(c) : i < j => history[c][j].recovery

Closes(c, i, j) ==
  /\ i \in Starts(c) /\ j \in Entries(c) /\ i < j /\ ~history[c][j].recovery
  /\ \A k \in Entries(c) : i < k /\ k < j => history[c][k].recovery

\* It has ended at j, and counted by then.
Had(c, i, j) == Closes(c, i, j) /\ (At(c, j) - At(c, i) > WEEK \/ At(c, i) < FirstDayBorder)

\* Entries come in the order of their blocks.
Ordered(c) ==
  /\ \A i, j \in Entries(c) : i <= j => At(c, i) <= At(c, j)
  /\ \A i \in Entries(c) : At(c, i) <= block

\* A period lasts or has an end.
PeriodsOK(c) == \A i \in Starts(c) : OpenFrom(c, i) \/ \E j \in Entries(c) : Closes(c, i, j)

\* since is the start of the period that lasts.
SinceOK(c) ==
  /\ since[c] # Never <=> Size(c) # 0 /\ history[c][Size(c)].recovery
  /\ since[c] # Never => \E i \in Entries(c) : OpenFrom(c, i)
  /\ \A i \in Entries(c) : OpenFrom(c, i) => since[c] = At(c, i)

\* until is the last end of a period that had counted.
UntilOK(c) ==
  /\ until[c] # Never => \E i, j \in Entries(c) : Had(c, i, j) /\ until[c] = At(c, j)
  /\ \A i, j \in Entries(c) : Had(c, i, j) => until[c] # Never /\ At(c, j) <= until[c]

\* A contact that was settled is still chosen, or was removed by a block not older
\* than Lag at that time.
SeenOK(c) ==
  seen[c] # Never =>
    /\ seen[c] <= now
    /\ \/ since[c] # Never /\ (seen[c] - Lag - since[c] > WEEK \/ since[c] < FirstDayBorder)
       \/ until[c] # Never /\ until[c] >= seen[c] - Lag

\* There is a first recovery connection, whose day decides about the exception.
FirstInv == RecoveryTimes # {} => \E m \in RecoveryTimes : \A t \in RecoveryTimes : m <= t

ContactOK(c) == Ordered(c) /\ PeriodsOK(c) /\ SinceOK(c) /\ UntilOK(c) /\ SeenOK(c)

AccountInv == FirstInv /\ \A c \in Contact : ContactOK(c)

\* What the entries of a history are.
LEMMA EntriesAre ==
  ASSUME TypeOK, NEW c \in Contact
  PROVE  /\ Size(c) \in Nat /\ Entries(c) = 1..Size(c) /\ Starts(c) \subseteq Entries(c)
         /\ \A i \in Entries(c) : At(c, i) \in Nat /\ history[c][i].recovery \in BOOLEAN
<1>1. history[c] \in Seq(Entry)
  BY DEF TypeOK
<1>2. Size(c) \in Nat /\ Entries(c) = 1..Size(c)
  BY <1>1 DEF Size, Entries
<1>3. \A i \in Entries(c) : history[c][i] \in Entry
  BY <1>1, <1>2 DEF Size
<1> QED  BY <1>2, <1>3 DEF Starts, At, Entry

LEMMA TimesAre ==
  \A s : s \in RecoveryTimes <=> \E c \in Contact : \E i \in Starts(c) : s = At(c, i)
BY DEF RecoveryTimes, At

LEMMA TimesAreNat == TypeOK => RecoveryTimes \subseteq Nat
<1> SUFFICES ASSUME TypeOK, NEW s \in RecoveryTimes PROVE s \in Nat
  OBVIOUS
<1>1. PICK c \in Contact : \E i \in Starts(c) : s = At(c, i)
  BY TimesAre
<1> QED  BY <1>1, EntriesAre

\* The first day ends a day after the first recovery connection.
LEMMA FirstDay ==
  TypeOK /\ FirstInv /\ RecoveryTimes # {} =>
    \E m \in RecoveryTimes :
      FirstDayBorder = DAY + m /\ m \in Nat /\ \A s \in RecoveryTimes : m <= s
<1> SUFFICES ASSUME TypeOK, FirstInv, RecoveryTimes # {}
             PROVE  \E m \in RecoveryTimes :
                      FirstDayBorder = DAY + m /\ m \in Nat /\ \A s \in RecoveryTimes : m <= s
  OBVIOUS
<1> DEFINE m == CHOOSE t \in RecoveryTimes : \A s \in RecoveryTimes : t <= s
<1>1. m \in RecoveryTimes /\ \A s \in RecoveryTimes : m <= s
  BY DEF FirstInv
<1> QED  BY <1>1, TimesAreNat DEF FirstDayBorder

\* Nobody is noted who is not in the history.
LEMMA NotedAreTimes ==
  ASSUME TypeOK, NEW c \in Contact, ContactOK(c), since[c] # Never \/ until[c] # Never
  PROVE  RecoveryTimes # {}
<1>1. PICK i \in Entries(c) : i \in Starts(c)
  BY DEF ContactOK, SinceOK, UntilOK, OpenFrom, Had, Closes
<1> QED  BY <1>1, TimesAre

\* Times of an account that keeps the invariant.
LEMMA NotesAreTimes ==
  ASSUME TypeOK, FirstInv, NEW c \in Contact, ContactOK(c)
  PROVE  /\ since[c] # Never => since[c] \in Nat /\ since[c] <= block /\ FirstDayBorder \in Nat
         /\ until[c] # Never => until[c] \in Nat /\ until[c] <= block /\ FirstDayBorder \in Nat
<1>1. since[c] # Never => since[c] \in Nat /\ since[c] <= block
  BY DEF ContactOK, SinceOK, OpenFrom, Ordered, TypeOK
<1>2. until[c] # Never => until[c] \in Nat /\ until[c] <= block
  BY DEF ContactOK, UntilOK, Ordered, TypeOK
<1>3. since[c] # Never \/ until[c] # Never => FirstDayBorder \in Nat
  BY NotedAreTimes, FirstDay
<1> QED  BY <1>1, <1>2, <1>3

LEMMA AccountInit == Init => AccountInv
<1> SUFFICES ASSUME Init PROVE AccountInv
  OBVIOUS
<1>1. \A c \in Contact : history[c] = <<>> /\ since[c] = Never /\ until[c] = Never /\ seen[c] = Never
  BY DEF Init
<1>2. \A c \in Contact : Entries(c) = {} /\ Starts(c) = {} /\ Size(c) = 0
  BY <1>1 DEF Entries, Starts, Size
<1>3. RecoveryTimes = {}
  BY <1>2 DEF RecoveryTimes
<1>4. \A c \in Contact : ContactOK(c)
  BY <1>1, <1>2 DEF ContactOK, Ordered, PeriodsOK, SinceOK, UntilOK, SeenOK, Had, Closes, OpenFrom
<1> QED  BY <1>3, <1>4 DEF AccountInv, FirstInv

\* Nobody's connection changes: what a contact has been settled for may be noted.
LEMMA NothingChosen ==
  ASSUME TypeOK, AccountInv, TypeOK', UNCHANGED <<history, since, until>>,
         block <= block', now <= now', seen' = seen \/ Observe
  PROVE  AccountInv'
<1>1. /\ \A c : Entries(c)' = Entries(c) /\ Starts(c)' = Starts(c) /\ Size(c)' = Size(c)
      /\ \A c, i : At(c, i)' = At(c, i)
  BY DEF Entries, Starts, Size, At
<1>2. RecoveryTimes' = RecoveryTimes /\ FirstDayBorder' = FirstDayBorder
  <2>1. \A s : s \in RecoveryTimes <=> s \in RecoveryTimes'
    <3>1. (\A s : s \in RecoveryTimes <=> \E c \in Contact : \E i \in Starts(c) : s = At(c, i))'
      BY TimesAre, PTL
    <3> QED  BY <1>1, <3>1, TimesAre
  <2>2. RecoveryTimes' = RecoveryTimes
    BY <2>1
  <2> QED  BY <2>2 DEF FirstDayBorder
<1>3. \A c, i, j : (OpenFrom(c, i)' <=> OpenFrom(c, i)) /\ (Closes(c, i, j)' <=> Closes(c, i, j))
  BY <1>1 DEF OpenFrom, Closes
<1>4. \A c, i, j : Had(c, i, j)' <=> Had(c, i, j)
  BY <1>1, <1>2, <1>3 DEF Had
<1>5. ASSUME NEW c \in Contact PROVE ContactOK(c)'
  <2>1. ContactOK(c)
    BY DEF AccountInv
  <2>2. Ordered(c)'
    BY <1>1, <2>1, EntriesAre DEF ContactOK, Ordered, TypeOK
  <2>3. PeriodsOK(c)' /\ SinceOK(c)' /\ UntilOK(c)'
    BY <1>1, <1>3, <1>4, <2>1 DEF ContactOK, PeriodsOK, SinceOK, UntilOK
  <2>4. SeenOK(c)'
    <3>1. CASE seen'[c] = seen[c]
      BY <1>2, <2>1, <3>1 DEF ContactOK, SeenOK, TypeOK
    <3>2. CASE seen'[c] = now /\ Settled(c)
      BY <1>2, <3>2 DEF Settled, SeenOK, TypeOK
    <3>3. QED
      BY <3>1, <3>2 DEF Observe
  <2> QED  BY <2>2, <2>3, <2>4 DEF ContactOK
<1>6. FirstInv'
  BY <1>2 DEF AccountInv, FirstInv
<1> QED  BY <1>5, <1>6 DEF AccountInv

\* What connect does to the history.
LEMMA ConnectGrows ==
  ASSUME TypeOK, NEW d \in Contact, NEW r \in BOOLEAN, NEW t \in block..now, Connect(d, r, t)
  PROVE  /\ t \in Nat /\ block <= t /\ t <= now /\ now - t <= Lag /\ block' = t /\ now' = now
         /\ Size(d)' = Size(d) + 1 /\ Entries(d)' = 1..(Size(d) + 1)
         /\ \A i \in Entries(d) : history'[d][i] = history[d][i]
         /\ history'[d][Size(d) + 1] = [recovery |-> r, timestamp |-> t]
         /\ \A c \in Contact \ {d} : /\ history'[c] = history[c] /\ since'[c] = since[c]
                                     /\ until'[c] = until[c]
<1> DEFINE e == [recovery |-> r, timestamp |-> t]
<1>1. t \in Nat /\ block <= t /\ t <= now /\ now - t <= Lag /\ block' = t /\ now' = now
  BY DEF Connect, InBlock, TypeOK
<1>2. history \in [Contact -> Seq(Entry)] /\ history[d] \in Seq(Entry) /\ e \in Entry
  BY <1>1 DEF TypeOK, Entry
<1>3. history' = [history EXCEPT ![d] = Append(@, e)]
  BY DEF Connect
<1>4. history'[d] = Append(history[d], e) /\ \A c \in Contact \ {d} : history'[c] = history[c]
  BY <1>2, <1>3
<1> HIDE DEF e
<1>5. /\ Len(history'[d]) = Len(history[d]) + 1 /\ DOMAIN history'[d] = 1..(Len(history[d]) + 1)
      /\ \A i \in 1..Len(history[d]) : history'[d][i] = history[d][i]
      /\ history'[d][Len(history[d]) + 1] = e
  BY <1>2, <1>4
<1>6. \A c \in Contact \ {d} : since'[c] = since[c] /\ until'[c] = until[c]
  BY DEF Connect, Became, TypeOK
<1> QED  BY <1>1, <1>2, <1>4, <1>5, <1>6 DEF e, Size, Entries

\* A period starts with the choice of somebody who was not chosen.
LEMMA StartsGrow ==
  ASSUME TypeOK, NEW d \in Contact, NEW r \in BOOLEAN, NEW t \in block..now, Connect(d, r, t),
         ContactOK(d)
  PROVE  /\ Starts(d)' = IF r /\ since[d] = Never THEN Starts(d) \cup {Size(d) + 1} ELSE Starts(d)
         /\ \A c \in Contact \ {d} : Starts(c)' = Starts(c) /\ Entries(c)' = Entries(c)
         /\ \A i : i = Size(d) + 1 => At(d, i)' = t
         /\ \A i \in Entries(d) : At(d, i)' = At(d, i)
         /\ \A c \in Contact \ {d} : Size(c)' = Size(c) /\ \A i : At(c, i)' = At(c, i)
<1> DEFINE n == Size(d)
<1>1. /\ n \in Nat /\ Entries(d) = 1..n /\ Entries(d)' = 1..(n + 1)
      /\ \A i \in Entries(d) : history'[d][i] = history[d][i]
      /\ history'[d][n + 1] = [recovery |-> r, timestamp |-> t]
  BY EntriesAre, ConnectGrows
<1>2. since[d] = Never <=> (n = 0 \/ ~history[d][n].recovery)
  BY DEF ContactOK, SinceOK
<1>3. \A c \in Contact \ {d} : history'[c] = history[c]
  BY ConnectGrows
<1> HIDE DEF n
<1>4. \A i : i \in Starts(d)' <=> i \in Starts(d) \/ (i = n + 1 /\ r /\ since[d] = Never)
  <2>1. ASSUME NEW i \in 1..n
        PROVE  i \in Starts(d)' <=> i \in Starts(d)
    <3>1. history'[d][i] = history[d][i] /\ (i # 1 => history'[d][i - 1] = history[d][i - 1])
      BY <1>1
    <3> QED  BY <1>1, <3>1 DEF Starts
  <2>2. n + 1 \in Starts(d)' <=> r /\ since[d] = Never
    <3>1. n # 0 => history'[d][n] = history[d][n]
      BY <1>1
    <3> QED  BY <1>1, <1>2, <3>1 DEF Starts
  <2>3. \A i : (i \in Starts(d) => i \in 1..n) /\ (i \in Starts(d)' => i \in 1..(n + 1))
    BY <1>1 DEF Starts
  <2>4. n + 1 \notin 1..n /\ \A i \in 1..(n + 1) : i \in 1..n \/ i = n + 1
    BY <1>1
  <2> QED  BY <2>1, <2>2, <2>3, <2>4
<1>5. \A c \in Contact \ {d} : Starts(c)' = Starts(c) /\ Entries(c)' = Entries(c)
  BY <1>3 DEF Starts, Entries
<1>6. \A c \in Contact \ {d} : Size(c)' = Size(c) /\ \A i : At(c, i)' = At(c, i)
  BY <1>3 DEF Size, At
<1>7. Starts(d)' = IF r /\ since[d] = Never THEN Starts(d) \cup {n + 1} ELSE Starts(d)
  BY <1>4
<1>8. (\A i : i = n + 1 => At(d, i)' = t) /\ \A i \in Entries(d) : At(d, i)' = At(d, i)
  BY <1>1 DEF At
<1> QED  BY <1>5, <1>6, <1>7, <1>8 DEF n

\* The first day is over a day after the first choice, whatever is chosen later.
LEMMA FirstDayStays ==
  ASSUME TypeOK, TypeOK', AccountInv,
         NEW d \in Contact, NEW r \in BOOLEAN, NEW t \in block..now, Connect(d, r, t)
  PROVE  FirstInv' /\ (RecoveryTimes # {} => FirstDayBorder' = FirstDayBorder)
<1>1. t \in Nat /\ block <= t
  BY ConnectGrows
<1>2. FirstInv /\ \A c \in Contact : ContactOK(c)
  BY DEF AccountInv
<1>3. (\A s : s \in RecoveryTimes <=> \E c \in Contact : \E i \in Starts(c) : s = At(c, i))'
  BY TimesAre, PTL
<1>4. RecoveryTimes' \subseteq RecoveryTimes \cup {t}
  <2> SUFFICES ASSUME NEW s \in RecoveryTimes', s # t PROVE s \in RecoveryTimes
    OBVIOUS
  <2>1. PICK c \in Contact : \E i \in Starts(c)' : s = At(c, i)'
    BY <1>3
  <2>2. PICK i \in Starts(c)' : s = At(c, i)'
    BY <2>1
  <2>3. i \in Starts(c) /\ At(c, i)' = At(c, i)
    <3>1. CASE c = d
      <4>1. i # Size(d) + 1
        BY <1>2, <2>2, <3>1, StartsGrow
      <4>2. i \in Starts(d)
        BY <1>2, <2>2, <3>1, <4>1, StartsGrow
      <4>3. i \in Entries(d)
        BY <4>2, EntriesAre
      <4> QED  BY <1>2, <3>1, <4>2, <4>3, StartsGrow
    <3>2. CASE c # d
      BY <1>2, <2>2, <3>2, StartsGrow
    <3> QED  BY <3>1, <3>2
  <2> QED  BY <2>2, <2>3, TimesAre
<1>5. RecoveryTimes \subseteq RecoveryTimes'
  <2> SUFFICES ASSUME NEW s \in RecoveryTimes PROVE s \in RecoveryTimes'
    OBVIOUS
  <2>1. PICK c \in Contact : \E i \in Starts(c) : s = At(c, i)
    BY TimesAre
  <2>2. PICK i \in Starts(c) : s = At(c, i)
    BY <2>1
  <2>3. i \in Starts(c)' /\ At(c, i)' = At(c, i)
    BY <1>2, <2>2, StartsGrow, EntriesAre
  <2> QED  BY <1>3, <2>2, <2>3
<1>6. \A s \in RecoveryTimes : s <= t
  <2> SUFFICES ASSUME NEW s \in RecoveryTimes PROVE s <= t
    OBVIOUS
  <2>1. PICK c \in Contact : \E i \in Starts(c) : s = At(c, i)
    BY TimesAre
  <2>2. s \in Nat /\ s <= block
    BY <1>2, <2>1, EntriesAre DEF ContactOK, Ordered
  <2> QED  BY <1>1, <2>2 DEF TypeOK
<1>7. CASE RecoveryTimes = {}
  BY <1>1, <1>4, <1>7 DEF FirstInv
<1>8. CASE RecoveryTimes # {}
  <2>1. PICK k \in RecoveryTimes :
          FirstDayBorder = DAY + k /\ k \in Nat /\ \A s \in RecoveryTimes : k <= s
    BY <1>2, <1>8, FirstDay
  <2>2. k \in RecoveryTimes' /\ \A s \in RecoveryTimes' : k <= s
    BY <1>4, <1>5, <1>6, <2>1
  <2>3. FirstInv'
    BY <2>2 DEF FirstInv
  <2>4. (\E m \in RecoveryTimes :
           FirstDayBorder = DAY + m /\ m \in Nat /\ \A s \in RecoveryTimes : m <= s)'
    <3>1. (TypeOK /\ FirstInv /\ RecoveryTimes # {})'
      BY <2>2, <2>3
    <3> QED  BY <3>1, FirstDay, PTL
  <2> QED  BY <2>1, <2>2, <2>3, <2>4
<1> QED  BY <1>7, <1>8

\* The periods of the contact, by the new entry.
LEMMA PeriodsGrow ==
  ASSUME TypeOK, NEW d \in Contact, NEW r \in BOOLEAN, NEW t \in block..now, Connect(d, r, t),
         ContactOK(d)
  PROVE  /\ \A i : OpenFrom(d, i)' <=>
                     r /\ (OpenFrom(d, i) \/ (i = Size(d) + 1 /\ since[d] = Never))
         /\ \A i, j : Closes(d, i, j)' <=>
                        Closes(d, i, j) \/ (j = Size(d) + 1 /\ ~r /\ OpenFrom(d, i))
<1> DEFINE n == Size(d)
<1>1. /\ n \in Nat /\ Entries(d) = 1..n /\ Entries(d)' = 1..(n + 1)
      /\ \A i \in 1..n : history'[d][i] = history[d][i]
      /\ history'[d][n + 1].recovery = r
      /\ Starts(d) \subseteq 1..n
      /\ \A i \in 1..n : history[d][i].recovery \in BOOLEAN
  <2>1. /\ n \in Nat /\ Entries(d) = 1..n /\ Starts(d) \subseteq Entries(d)
        /\ \A i \in Entries(d) : history[d][i].recovery \in BOOLEAN
    BY EntriesAre
  <2>2. /\ Entries(d)' = 1..(n + 1)
        /\ \A i \in Entries(d) : history'[d][i] = history[d][i]
        /\ history'[d][n + 1] = [recovery |-> r, timestamp |-> t]
    BY ConnectGrows
  <2> HIDE DEF n
  <2> QED  BY <2>1, <2>2
<1>2. Starts(d)' = IF r /\ since[d] = Never THEN Starts(d) \cup {n + 1} ELSE Starts(d)
  BY StartsGrow
<1>3. since[d] = Never => \A i : ~OpenFrom(d, i)
  BY EntriesAre DEF ContactOK, SinceOK, OpenFrom, Never
<1> HIDE DEF n
<1>4. ASSUME NEW i
      PROVE  OpenFrom(d, i)' <=> r /\ (OpenFrom(d, i) \/ (i = n + 1 /\ since[d] = Never))
  <2>1. CASE i \in Starts(d)
    <3>1. i \in Starts(d)' /\ i \in 1..n /\ i < n + 1 /\ i # n + 1
      BY <1>1, <1>2, <2>1
    <3>2. OpenFrom(d, i)' <=> \A j \in 1..(n + 1) : i < j => history'[d][j].recovery
      BY <1>1, <3>1 DEF OpenFrom
    <3>3. OpenFrom(d, i) <=> \A j \in 1..n : i < j => history'[d][j].recovery
      BY <1>1, <2>1 DEF OpenFrom
    <3>4. n + 1 \in 1..(n + 1) /\ \A j \in 1..(n + 1) : j \in 1..n \/ j = n + 1
      BY <1>1
    <3>5. 1..n \subseteq 1..(n + 1)
      BY <1>1
    <3> QED  BY <1>1, <3>1, <3>2, <3>3, <3>4, <3>5
  <2>2. CASE i \notin Starts(d) /\ i = n + 1 /\ r /\ since[d] = Never
    <3>1. i \in Starts(d)' /\ \A j \in 1..(n + 1) : ~(i < j)
      BY <1>1, <1>2, <2>2
    <3> QED  BY <1>1, <2>2, <3>1 DEF OpenFrom
  <2>3. CASE i \notin Starts(d) /\ ~(i = n + 1 /\ r /\ since[d] = Never)
    <3>1. i \notin Starts(d)'
      BY <1>2, <2>3
    <3> QED  BY <2>3, <3>1 DEF OpenFrom
  <2> QED  BY <2>1, <2>2, <2>3
<1>5. ASSUME NEW i, NEW j
      PROVE  Closes(d, i, j)' <=> Closes(d, i, j) \/ (j = n + 1 /\ ~r /\ OpenFrom(d, i))
  <2>1. CASE i \in Starts(d) /\ j \in 1..n
    <3>1. i \in Starts(d)' /\ j \in 1..(n + 1) /\ j # n + 1
      BY <1>1, <1>2, <2>1
    <3>2. \A k : k < j /\ k \in 1..(n + 1) <=> k < j /\ k \in 1..n
      BY <1>1, <2>1
    <3>3. \A k \in 1..n : history'[d][k].recovery = history[d][k].recovery
      BY <1>1
    <3> QED  BY <1>1, <2>1, <3>1, <3>2, <3>3 DEF Closes
  <2>2. CASE i \in Starts(d) /\ j = n + 1
    <3>1. i \in Starts(d)' /\ j \in 1..(n + 1) /\ i < j /\ j \notin 1..n
      BY <1>1, <1>2, <2>2
    <3>2. \A k : k \in 1..(n + 1) /\ k < j <=> k \in 1..n
      BY <1>1, <2>2
    <3> QED  BY <1>1, <2>2, <3>1, <3>2 DEF Closes, OpenFrom
  <2>3. CASE j \notin 1..(n + 1)
    BY <1>1, <2>3 DEF Closes
  <2>4. CASE i \notin Starts(d) /\ j \in 1..(n + 1)
    <3>1. ~Closes(d, i, j) /\ ~OpenFrom(d, i)
      BY <2>4 DEF Closes, OpenFrom
    <3>2. ~Closes(d, i, j)'
      <4>1. i \in Starts(d)' => i = n + 1
        BY <1>2, <2>4
      <4>2. i = n + 1 => ~(i < j)
        BY <1>1, <2>4
      <4> QED  BY <4>1, <4>2 DEF Closes
    <3> QED  BY <3>1, <3>2
  <2>5. j \in 1..(n + 1) => j \in 1..n \/ j = n + 1
    BY <1>1
  <2> QED  BY <2>1, <2>2, <2>3, <2>4, <2>5
<1> QED  BY <1>4, <1>5 DEF n

\* Connect leaves the invariant of the other contacts alone.
LEMMA OthersStay ==
  ASSUME TypeOK, TypeOK', AccountInv,
         NEW d \in Contact, NEW r \in BOOLEAN, NEW t \in block..now, Connect(d, r, t),
         NEW c \in Contact \ {d}
  PROVE  ContactOK(c)'
<1>1. ContactOK(c) /\ ContactOK(d) /\ FirstInv
  BY DEF AccountInv
<1>2. /\ history'[c] = history[c] /\ since'[c] = since[c] /\ until'[c] = until[c]
      /\ block' = t /\ block <= t /\ t \in Nat /\ now' = now
  <2>1. \A k \in Contact \ {d} :
          history'[k] = history[k] /\ since'[k] = since[k] /\ until'[k] = until[k]
    BY ConnectGrows
  <2>2. block' = t /\ block <= t /\ t \in Nat /\ now' = now
    BY DEF Connect, InBlock, TypeOK
  <2> QED  BY <2>1, <2>2
<1>3. /\ Starts(c)' = Starts(c) /\ Entries(c)' = Entries(c) /\ Size(c)' = Size(c)
      /\ \A i : At(c, i)' = At(c, i)
  BY <1>1, StartsGrow
<1>4. /\ \A i : OpenFrom(c, i)' <=> OpenFrom(c, i)
      /\ \A i, j : Closes(c, i, j)' <=> Closes(c, i, j)
  BY <1>2, <1>3 DEF OpenFrom, Closes
<1>5. \A i, j : Had(c, i, j)' <=> Had(c, i, j)
  <2>1. \A i, j : Closes(c, i, j) => RecoveryTimes # {}
    BY TimesAre DEF Closes
  <2> QED  BY <1>3, <1>4, <2>1, FirstDayStays DEF Had
<1>6. Ordered(c)'
  BY <1>1, <1>2, <1>3, EntriesAre DEF ContactOK, Ordered, TypeOK
<1>7. PeriodsOK(c)' /\ SinceOK(c)' /\ UntilOK(c)'
  BY <1>1, <1>2, <1>3, <1>4, <1>5 DEF ContactOK, PeriodsOK, SinceOK, UntilOK
<1>8. SeenOK(c)'
  <2>1. since[c] # Never => FirstDayBorder' = FirstDayBorder
    BY <1>1, NotedAreTimes, FirstDayStays
  <2>2. CASE seen'[c] = seen[c]
    BY <1>1, <1>2, <2>1, <2>2 DEF ContactOK, SeenOK
  <2>3. CASE seen'[c] = now /\ Settled(c)
    BY <1>2, <2>1, <2>3 DEF Settled, SeenOK, TypeOK
  <2> QED  BY <2>2, <2>3 DEF Connect, Observe
<1> QED  BY <1>6, <1>7, <1>8 DEF ContactOK

\* The contact whose connection is set.
LEMMA ChosenKept ==
  ASSUME TypeOK, TypeOK', AccountInv,
         NEW d \in Contact, NEW r \in BOOLEAN, NEW t \in block..now, Connect(d, r, t)
  PROVE  ContactOK(d)'
<1> DEFINE n == Size(d)
           cut == /\ since[d] # Never /\ ~r
                  /\ t - since[d] > WEEK \/ since[d] < FirstDayBorder
<1>1. ContactOK(d) /\ FirstInv
  BY DEF AccountInv
<1>2. /\ t \in Nat /\ block <= t /\ t <= now /\ now - t <= Lag /\ block' = t /\ now' = now
      /\ n \in Nat /\ Entries(d) = 1..n /\ Entries(d)' = 1..(n + 1) /\ Size(d)' = n + 1
      /\ history'[d][n + 1].recovery = r
  <2>1. /\ t \in Nat /\ block <= t /\ t <= now /\ now - t <= Lag /\ block' = t /\ now' = now
        /\ Size(d)' = n + 1 /\ Entries(d)' = 1..(n + 1)
        /\ history'[d][n + 1] = [recovery |-> r, timestamp |-> t]
    BY ConnectGrows
  <2>2. n \in Nat /\ Entries(d) = 1..n
    BY EntriesAre
  <2> HIDE DEF n
  <2> QED  BY <2>1, <2>2
<1>3. /\ Starts(d)' = IF r /\ since[d] = Never THEN Starts(d) \cup {n + 1} ELSE Starts(d)
      /\ \A i : i = n + 1 => At(d, i)' = t
      /\ \A i \in 1..n : At(d, i)' = At(d, i) /\ At(d, i) \in Nat
      /\ Starts(d) \subseteq 1..n
  BY <1>1, <1>2, StartsGrow, EntriesAre
<1>4. /\ \A i : OpenFrom(d, i)' <=> r /\ (OpenFrom(d, i) \/ (i = n + 1 /\ since[d] = Never))
      /\ \A i, j : Closes(d, i, j)' <=> Closes(d, i, j) \/ (j = n + 1 /\ ~r /\ OpenFrom(d, i))
  BY <1>1, PeriodsGrow
<1>5. /\ since'[d] = IF ~r THEN Never ELSE IF since[d] = Never THEN t ELSE since[d]
      /\ until'[d] = IF cut THEN t ELSE until[d]
  BY DEF Connect, Became, TypeOK
<1>6. /\ since[d] # Never => since[d] \in Nat /\ since[d] <= block /\ FirstDayBorder \in Nat
      /\ until[d] # Never => until[d] \in Nat /\ until[d] <= block /\ FirstDayBorder \in Nat
  BY <1>1, NotesAreTimes
<1>7. \A i : OpenFrom(d, i) => i \in 1..n /\ since[d] = At(d, i) /\ since[d] # Never
  BY <1>1, <1>2, <1>3 DEF ContactOK, SinceOK, OpenFrom, Never
<1>8. RecoveryTimes # {} => FirstDayBorder' = FirstDayBorder
  BY FirstDayStays
<1>9. n + 1 \in 1..(n + 1) /\ 1..n \subseteq 1..(n + 1) /\ \A i \in 1..(n + 1) : i \in 1..n \/ i = n + 1
  BY <1>2
<1> HIDE DEF n, cut
<1>10. Ordered(d)'
  <2>1. \A i \in 1..n : At(d, i) <= t
    <3>1. \A i \in 1..n : At(d, i) <= block
      BY <1>1, <1>2 DEF ContactOK, Ordered
    <3>2. block \in Nat
      BY DEF TypeOK
    <3> QED  BY <1>2, <1>3, <3>1, <3>2
  <2>2. ASSUME NEW i \in 1..(n + 1), NEW j \in 1..(n + 1), i <= j
        PROVE  At(d, i)' <= At(d, j)'
    <3>1. CASE j \in 1..n
      <4>1. i \in 1..n
        BY <1>2, <2>2, <3>1
      <4> QED  BY <1>1, <1>2, <1>3, <2>2, <3>1, <4>1 DEF ContactOK, Ordered
    <3>2. CASE j = n + 1
      BY <1>2, <1>3, <1>9, <2>1, <3>2
    <3> QED  BY <1>9, <3>1, <3>2
  <2>3. \A i \in 1..(n + 1) : At(d, i)' <= t
    BY <1>2, <1>3, <1>9, <2>1
  <2> QED  BY <1>2, <2>2, <2>3 DEF Ordered
<1>11. PeriodsOK(d)'
  <2> SUFFICES ASSUME NEW i \in Starts(d)'
               PROVE  OpenFrom(d, i)' \/ \E j \in Entries(d)' : Closes(d, i, j)'
    BY DEF PeriodsOK
  <2>1. CASE i \in Starts(d)
    BY <1>1, <1>2, <1>4, <1>9, <2>1 DEF ContactOK, PeriodsOK
  <2>2. CASE i = n + 1 /\ r /\ since[d] = Never
    BY <1>4, <2>2
  <2> QED  BY <1>3, <2>1, <2>2
<1>12. SinceOK(d)'
  <2>1. since'[d] # Never <=> r
    BY <1>2, <1>5, <1>6 DEF Never
  <2>2. since'[d] # Never <=> Size(d)' # 0 /\ history'[d][Size(d)'].recovery
    BY <1>2, <2>1
  <2>3. since'[d] # Never => \E i \in Entries(d)' : OpenFrom(d, i)'
    BY <1>1, <1>2, <1>4, <1>9, <2>1 DEF ContactOK, SinceOK
  <2>4. ASSUME NEW i, OpenFrom(d, i)'
        PROVE  since'[d] = At(d, i)'
    <3>1. CASE OpenFrom(d, i)
      BY <1>3, <1>4, <1>5, <1>7, <2>4, <3>1
    <3>2. CASE i = n + 1 /\ since[d] = Never
      BY <1>3, <1>4, <1>5, <2>4, <3>2
    <3> QED  BY <1>4, <2>4, <3>1, <3>2
  <2> QED  BY <2>2, <2>3, <2>4 DEF SinceOK
<1>13. ASSUME NEW i, NEW j
       PROVE  Had(d, i, j)' <=> Had(d, i, j) \/ (cut /\ j = n + 1 /\ OpenFrom(d, i))
  <2>1. CASE Closes(d, i, j)
    <3>1. i \in 1..n /\ j \in 1..n /\ j # n + 1 /\ RecoveryTimes # {}
      <4>1. i \in Starts(d) /\ j \in 1..n
        BY <1>2, <2>1 DEF Closes
      <4>2. At(d, i) \in RecoveryTimes
        BY <4>1, TimesAre
      <4>3. j # n + 1
        BY <1>2, <4>1
      <4> QED  BY <1>3, <4>1, <4>2, <4>3
    <3>2. Closes(d, i, j)' /\ FirstDayBorder' = FirstDayBorder
      BY <1>4, <1>8, <2>1, <3>1
    <3>3. At(d, i)' = At(d, i) /\ At(d, j)' = At(d, j)
      BY <1>3, <3>1
    <3> QED  BY <2>1, <3>1, <3>2, <3>3 DEF Had
  <2>2. CASE ~Closes(d, i, j) /\ j = n + 1 /\ ~r /\ OpenFrom(d, i)
    <3>1. i \in 1..n /\ since[d] = At(d, i) /\ since[d] # Never /\ RecoveryTimes # {}
      BY <1>7, <2>2, TimesAre DEF OpenFrom
    <3>2. At(d, j)' = t /\ At(d, i)' = since[d] /\ FirstDayBorder' = FirstDayBorder
      BY <1>3, <1>8, <2>2, <3>1
    <3> QED  BY <1>4, <2>2, <3>1, <3>2 DEF Had, cut
  <2>3. CASE ~Closes(d, i, j) /\ ~(j = n + 1 /\ ~r /\ OpenFrom(d, i))
    BY <1>4, <2>3 DEF Had, cut
  <2> QED  BY <2>1, <2>2, <2>3
<1>14. UntilOK(d)'
  <2>1. CASE cut
    <3>1. PICK i \in 1..n : OpenFrom(d, i)
      BY <1>1, <1>2, <2>1 DEF ContactOK, SinceOK, cut
    <3>2. \A j : j = n + 1 => Had(d, i, j)' /\ At(d, j)' = t
      BY <1>3, <1>13, <2>1, <3>1
    <3>3. \E k, j \in 1..(n + 1) : Had(d, k, j)' /\ t = At(d, j)'
      BY <1>9, <3>1, <3>2
    <3>4. \A j \in 1..(n + 1) : At(d, j)' <= t
      BY <1>2, <1>10 DEF Ordered
    <3>5. until'[d] = t /\ t # Never
      BY <1>2, <1>5, <2>1 DEF Never
    <3>6. \A k, j \in 1..(n + 1) : Had(d, k, j)' => At(d, j)' <= until'[d]
      BY <3>4, <3>5
    <3>7. Entries(d)' = 1..(n + 1)
      BY <1>2
    <3> QED  BY <3>3, <3>5, <3>6, <3>7 DEF UntilOK
  <2>2. CASE ~cut
    <3>1. \A k, j : Had(d, k, j)' <=> Had(d, k, j)
      BY <1>13, <2>2
    <3>2. \A k, j : Had(d, k, j) => k \in 1..n /\ j \in 1..n
      BY <1>2, <1>3 DEF Had, Closes
    <3>3. UntilOK(d) /\ until'[d] = until[d]
      BY <1>1, <1>5, <2>2 DEF ContactOK
    <3> QED  BY <1>2, <1>3, <1>9, <3>1, <3>2, <3>3 DEF UntilOK
  <2> QED  BY <2>1, <2>2
<1>15. SeenOK(d)'
  <2>1. since[d] # Never => FirstDayBorder' = FirstDayBorder
    BY <1>1, <1>8, NotedAreTimes
  <2> DEFINE s == seen'[d]
  <2>2. s # Never =>
          /\ s \in Nat /\ s <= now
          /\ \/ since[d] # Never /\ (s - Lag - since[d] > WEEK \/ since[d] < FirstDayBorder)
             \/ until[d] # Never /\ until[d] >= s - Lag
    <3>1. CASE s = seen[d]
      BY <1>1, <3>1 DEF ContactOK, SeenOK, TypeOK
    <3>2. CASE s = now /\ Settled(d)
      BY <3>2 DEF Settled, TypeOK
    <3> QED  BY <3>1, <3>2 DEF Connect, Observe
  <2> HIDE DEF s
  <2>3. ASSUME s # Never
        PROVE  \/ since'[d] # Never /\ (s - Lag - since'[d] > WEEK \/ since'[d] < FirstDayBorder')
               \/ until'[d] # Never /\ until'[d] >= s - Lag
    <3>1. now \in Nat /\ block \in Nat /\ s \in Nat /\ s <= now
      BY <2>2, <2>3 DEF TypeOK
    <3>2. CASE since[d] # Never /\ (s - Lag - since[d] > WEEK \/ since[d] < FirstDayBorder)
      <4>1. CASE r
        BY <1>5, <2>1, <3>2, <4>1
      <4>2. CASE ~r
        <5>1. t >= s - Lag
          BY <1>2, <3>1
        <5>2. cut
          BY <1>2, <1>6, <3>1, <3>2, <4>2, <5>1 DEF cut
        <5> QED  BY <1>2, <1>5, <5>1, <5>2 DEF Never
      <4> QED  BY <4>1, <4>2
    <3>3. CASE until[d] # Never /\ until[d] >= s - Lag
      BY <1>2, <1>5, <1>6, <3>1, <3>3 DEF Never
    <3> QED  BY <2>2, <2>3, <3>2, <3>3
  <2> QED  BY <1>2, <2>2, <2>3 DEF SeenOK, s
<1> QED  BY <1>10, <1>11, <1>12, <1>14, <1>15 DEF ContactOK

LEMMA AccountStep == ASSUME TypeOK, AccountInv, [Next]_vars PROVE AccountInv'
<1>1. TypeOK'
  BY TypeStep
<1>2. ASSUME NEW d \in Contact, NEW r \in BOOLEAN, NEW t \in block..now, Connect(d, r, t)
      PROVE  AccountInv'
  <2>1. FirstInv'
    BY <1>1, <1>2, FirstDayStays
  <2>2. \A c \in Contact : ContactOK(c)'
    BY <1>1, <1>2, OthersStay, ChosenKept
  <2> QED  BY <2>1, <2>2 DEF AccountInv
<1>3. CASE ~\E t \in block..now : \E d \in Contact, r \in BOOLEAN : Connect(d, r, t)
  <2>1. UNCHANGED <<history, since, until>> /\ (seen' = seen \/ Observe)
    BY <1>3 DEF Next, vars, ghosts, Tick, GetUser, ReplaceUser, ConnectBack, Operation,
           SocialRecovery, AddSigningKey, RemoveSigningKey, RemoveAllSigningKeys,
           SetRequiredRecoveryNum
  <2>2. now' = now \/ now' = now + 1
    BY DEF Next, vars, Tick, GetUser, ReplaceUser, Connect, ConnectBack, Operation,
           SocialRecovery, AddSigningKey, RemoveSigningKey, RemoveAllSigningKeys,
           SetRequiredRecoveryNum
  <2>3. block' = block \/ \E t \in block..now : block' = t
    BY DEF Next, vars, Tick, GetUser, ReplaceUser, Connect, ConnectBack, Operation, InBlock,
           SocialRecovery, AddSigningKey, RemoveSigningKey, RemoveAllSigningKeys,
           SetRequiredRecoveryNum
  <2>4. now <= now' /\ block <= block'
    BY <2>2, <2>3 DEF TypeOK
  <2> QED  BY <1>1, <2>1, <2>4, NothingChosen
<1> QED  BY <1>2, <1>3

LEMMA AccountCorrect == Spec => [](TypeOK /\ AccountInv)
<1>1. TypeOK /\ AccountInv /\ [Next]_vars => (TypeOK /\ AccountInv)'
  BY TypeStep, AccountStep
<1> QED  BY <1>1, TypeInit, AccountInit, PTL DEF Spec

-----------------------------------------------------------------------------
(* What the periods say.                                                   *)

\* getRecoveryPeriods finds the end of a period, or now.
LEMMA EndOfPeriod ==
  ASSUME TypeOK, NEW c \in Contact, NEW i \in Starts(c)
  PROVE  /\ OpenFrom(c, i) => EndOf(c, i) = now
         /\ \A j : Closes(c, i, j) => EndOf(c, i) = At(c, j)
<1> DEFINE ends == {j \in Entries(c) : i < j /\ ~history[c][j].recovery}
<1>1. OpenFrom(c, i) => EndOf(c, i) = now
  <2>1. OpenFrom(c, i) => ends = {}
    BY DEF OpenFrom
  <2> QED  BY <2>1 DEF EndOf
<1>2. ASSUME NEW j, Closes(c, i, j)
      PROVE  EndOf(c, i) = At(c, j)
  <2>1. Entries(c) \subseteq Nat
    BY EntriesAre
  <2>2. j \in ends /\ \A k \in ends : j <= k
    BY <1>2, <2>1 DEF Closes
  <2>3. \A k \in ends : (\A l \in ends : k <= l) => k = j
    BY <2>1, <2>2
  <2>4. (CHOOSE k \in ends : \A l \in ends : k <= l) = j
    BY <2>2, <2>3
  <2> QED  BY <2>2, <2>4 DEF EndOf, At
<1> QED  BY <1>1, <1>2

\* A period that lasts counts as its start says, one that has ended for a week if it
\* had counted.
LEMMA PeriodCounts ==
  ASSUME TypeOK, FirstInv, NEW c \in Contact, ContactOK(c), NEW i \in Starts(c)
  PROVE  /\ OpenFrom(c, i) =>
              /\ since[c] # Never /\ Period(c, i) = [start |-> since[c], end |-> now]
              /\ Counts(Period(c, i)) <=> now - since[c] > WEEK \/ since[c] < FirstDayBorder
         /\ \A j : Closes(c, i, j) =>
              (Counts(Period(c, i)) <=> Had(c, i, j) /\ At(c, j) > now - WEEK)
<1>1. ASSUME OpenFrom(c, i)
      PROVE  /\ since[c] # Never /\ Period(c, i) = [start |-> since[c], end |-> now]
             /\ Counts(Period(c, i)) <=> now - since[c] > WEEK \/ since[c] < FirstDayBorder
  <2>1. since[c] = At(c, i) /\ since[c] \in Nat
    BY <1>1, EntriesAre DEF ContactOK, SinceOK, OpenFrom
  <2>2. Period(c, i) = [start |-> since[c], end |-> now]
    BY <1>1, <2>1, EndOfPeriod DEF Period, At
  <2>3. now > now - WEEK
    BY DEF TypeOK
  <2> QED  BY <2>1, <2>2, <2>3 DEF Counts, Never
<1>2. ASSUME NEW j, Closes(c, i, j)
      PROVE  Counts(Period(c, i)) <=> Had(c, i, j) /\ At(c, j) > now - WEEK
  <2>1. Period(c, i) = [start |-> At(c, i), end |-> At(c, j)]
    BY <1>2, EndOfPeriod DEF Period, At
  <2> QED  BY <1>2, <2>1 DEF Counts, Had
<1> QED  BY <1>1, <1>2

\* The rights computed from the whole history are those of an account that follows
\* its changes: getRecoveryConnections and isActiveRecovery.
THEOREM RightsAreChanges == Spec => []RightsFollowChanges
<1>1. TypeOK /\ AccountInv => RightsFollowChanges
  <2> SUFFICES ASSUME TypeOK, AccountInv, NEW c \in Contact
               PROVE  c \in Active <=>
                        \/ until[c] # Never /\ until[c] > now - WEEK
                        \/ since[c] # Never
                           /\ (now - since[c] > WEEK \/ since[c] < FirstDayBorder)
    BY DEF RightsFollowChanges, Active, EverRecovery
  <2>1. FirstInv /\ ContactOK(c)
    BY DEF AccountInv
  <2>2. c \in Active <=> \E i \in Starts(c) : Counts(Period(c, i))
    BY DEF Active, EverRecovery, Periods
  <2>3. ASSUME NEW i \in Starts(c), Counts(Period(c, i))
        PROVE  \/ until[c] # Never /\ until[c] > now - WEEK
               \/ since[c] # Never /\ (now - since[c] > WEEK \/ since[c] < FirstDayBorder)
    <3>1. CASE OpenFrom(c, i)
      BY <2>1, <2>3, <3>1, PeriodCounts
    <3>2. ASSUME NEW j, Closes(c, i, j)
          PROVE  until[c] # Never /\ until[c] > now - WEEK
      <4>1. Had(c, i, j) /\ At(c, j) > now - WEEK
        BY <2>1, <2>3, <3>2, PeriodCounts
      <4>2. i \in Entries(c) /\ j \in Entries(c) /\ At(c, j) \in Nat
        BY <3>2, EntriesAre DEF Closes
      <4>3. until[c] # Never /\ At(c, j) <= until[c] /\ until[c] \in Nat
        BY <2>1, <4>1, <4>2, NotesAreTimes DEF ContactOK, UntilOK
      <4> QED  BY <4>1, <4>2, <4>3 DEF TypeOK
    <3> QED  BY <2>1, <3>1, <3>2 DEF ContactOK, PeriodsOK
  <2>4. ASSUME until[c] # Never, until[c] > now - WEEK
        PROVE  \E i \in Starts(c) : Counts(Period(c, i))
    <3>1. PICK i \in Entries(c), j \in Entries(c) : Had(c, i, j) /\ until[c] = At(c, j)
      BY <2>1, <2>4 DEF ContactOK, UntilOK
    <3>2. i \in Starts(c) /\ Closes(c, i, j)
      BY <3>1 DEF Had, Closes
    <3> QED  BY <2>1, <2>4, <3>1, <3>2, PeriodCounts
  <2>5. ASSUME since[c] # Never, now - since[c] > WEEK \/ since[c] < FirstDayBorder
        PROVE  \E i \in Starts(c) : Counts(Period(c, i))
    <3>1. PICK i \in Entries(c) : OpenFrom(c, i)
      BY <2>1, <2>5 DEF ContactOK, SinceOK
    <3>2. i \in Starts(c)
      BY <3>1 DEF OpenFrom
    <3> QED  BY <2>1, <2>5, <3>1, <3>2, PeriodCounts
  <2> QED  BY <2>2, <2>3, <2>4, <2>5
<1> QED  BY <1>1, AccountCorrect, PTL

\* Neither way to take recovery away from the settled contacts works within a week,
\* but for the time that blocks are late.
THEOREM ChangesWait == Spec => []ChangesTakeAWeek
<1>1. TypeOK /\ AccountInv /\ RightsFollowChanges => RemovalTakesAWeek
  <2> SUFFICES ASSUME TypeOK, AccountInv, RightsFollowChanges, NEW c \in Contact,
                      seen[c] # Never, now < seen[c] + WEEK - Lag
               PROVE  c \in Active
    BY DEF RemovalTakesAWeek
  <2>1. FirstInv /\ ContactOK(c) /\ now \in Nat /\ seen[c] \in Nat
    BY DEF AccountInv, TypeOK
  <2>2. seen[c] <= now
    BY <2>1 DEF ContactOK, SeenOK
  <2>3. CASE since[c] # Never /\ (seen[c] - Lag - since[c] > WEEK \/ since[c] < FirstDayBorder)
    <3>1. since[c] \in Nat
      BY <2>1, <2>3, NotesAreTimes
    <3>2. now - since[c] > WEEK \/ since[c] < FirstDayBorder
      BY <2>1, <2>2, <2>3, <3>1
    <3> QED  BY <2>3, <3>2 DEF RightsFollowChanges
  <2>4. CASE until[c] # Never /\ until[c] >= seen[c] - Lag
    <3>1. until[c] \in Nat
      BY <2>1, <2>4, NotesAreTimes
    <3>2. until[c] > now - WEEK
      BY <2>1, <2>4, <3>1
    <3> QED  BY <2>4, <3>2 DEF RightsFollowChanges
  <2> QED  BY <2>1, <2>3, <2>4 DEF ContactOK, SeenOK
<1> QED  BY <1>1, AccountCorrect, RightsAreChanges, RequiredNumsWait, PTL DEF ChangesTakeAWeek

-----------------------------------------------------------------------------
(* What the list of recovery connections says.                             *)

LEMMA Least ==
  ASSUME NEW S, S \subseteq Nat, S # {}, IsFiniteSet(S)
  PROVE  \E i \in S : \A j \in S : i <= j
<1> DEFINE Up(i) == {j \in S : j < i}
           F == {Up(i) : i \in S}
<1>1. F \subseteq FiniteSubsetsOf(S)
  BY FS_FiniteSubsetsOfFinite
<1>2. F # {}
  OBVIOUS
<1> HIDE DEF F
<1>3. PICK x \in F : \A y \in F : ~ (<<y, x>> \in StrictSubsetOrdering(S))
  BY <1>1, <1>2, WFMin, FS_StrictSubsetOrderingWellFounded
<1> USE DEF F
<1>4. PICK i \in S : x = Up(i)
  BY <1>3
<1>5. SUFFICES ASSUME NEW j \in S, j < i PROVE FALSE
  BY DEF Up
<1>6. Up(j) \subseteq Up(i) /\ Up(j) # Up(i)
  <2>1. \A k \in S : k \in Nat
    OBVIOUS
  <2>2. \A k \in S : k < j => k < i
    BY <1>5, <2>1
  <2>3. j \in Up(i) /\ j \notin Up(j)
    BY <1>5, <2>1
  <2> QED  BY <2>2, <2>3
<1>7. <<Up(j), x>> \in StrictSubsetOrdering(S)
  BY <1>4, <1>6 DEF StrictSubsetOrdering
<1> QED  BY <1>3, <1>7

\* The period that lasts has the latest start.
LEMMA OpenIsLast ==
  ASSUME TypeOK, NEW c \in Contact, ContactOK(c), NEW i, OpenFrom(c, i)
  PROVE  \A q \in Periods(c) : q.start <= since[c]
<1> SUFFICES ASSUME NEW k \in Starts(c) PROVE At(c, k) <= At(c, i)
  BY EntriesAre DEF Periods, Period, At, ContactOK, SinceOK, OpenFrom
<1>1. i \in Entries(c) /\ k \in Entries(c) /\ Entries(c) = 1..Size(c) /\ Size(c) \in Nat
  BY EntriesAre DEF OpenFrom
<1>2. ~ (i < k)
  <2> SUFFICES ASSUME i < k PROVE FALSE
    OBVIOUS
  <2>1. k # 1 /\ k - 1 \in Entries(c) /\ (k - 1 = i \/ i < k - 1)
    BY <1>1
  <2>2. history[c][k - 1].recovery
    BY <2>1 DEF OpenFrom, Starts
  <2> QED  BY <2>1, <2>2 DEF Starts
<1> QED  BY <1>1, <1>2 DEF ContactOK, Ordered

\* Of somebody chosen, the list knows the start of the period that lasts.
LEMMA ChosenPeriod ==
  ASSUME TypeOK, FirstInv, NEW c \in Contact, ContactOK(c), since[c] # Never
  PROVE  /\ since[c] \in Nat /\ since[c] <= now /\ FirstDayBorder \in Nat
         /\ c \in EverRecovery /\ [start |-> since[c], end |-> now] \in Periods(c)
         /\ \A q \in Periods(c) : q.start <= since[c] /\ q.start \in Nat
<1>1. since[c] \in Nat /\ since[c] <= now /\ FirstDayBorder \in Nat
  BY NotesAreTimes DEF TypeOK
<1>2. PICK i \in Entries(c) : OpenFrom(c, i)
  BY DEF ContactOK, SinceOK
<1>3. i \in Starts(c)
  BY <1>2 DEF OpenFrom
<1>4. Period(c, i) = [start |-> since[c], end |-> now]
  BY <1>2, <1>3, PeriodCounts
<1>5. \A q \in Periods(c) : q.start <= since[c]
  BY <1>2, OpenIsLast
<1>6. \A q \in Periods(c) : q.start \in Nat
  BY EntriesAre DEF Periods, Period, At
<1> QED  BY <1>1, <1>3, <1>4, <1>5, <1>6 DEF EverRecovery, Periods

\* Everybody chosen is listed, but in two moments.
LEMMA ChosenListed ==
  ASSUME TypeOK, AccountInv, RightsFollowChanges
  PROVE  ChosenAreListed
<1> SUFFICES ASSUME NEW c \in Contact, since[c] # Never, c \notin Active,
                    now - since[c] # WEEK, since[c] # FirstDayBorder
             PROVE  Waits(c) /\ c \in EverRecovery
  BY DEF ChosenAreListed, Listed
<1>1. FirstInv /\ ContactOK(c)
  BY DEF AccountInv
<1>2. /\ since[c] \in Nat /\ since[c] <= now /\ FirstDayBorder \in Nat
      /\ c \in EverRecovery /\ [start |-> since[c], end |-> now] \in Periods(c)
      /\ \A q \in Periods(c) : q.start <= since[c] /\ q.start \in Nat
  BY <1>1, ChosenPeriod
<1>3. now - since[c] < WEEK /\ since[c] > FirstDayBorder
  <2>1. ~(now - since[c] > WEEK) /\ ~(since[c] < FirstDayBorder)
    BY DEF RightsFollowChanges
  <2>2. now \in Nat /\ WEEK \in Nat
    BY DEF TypeOK
  <2> QED  BY <1>2, <2>1, <2>2
<1> DEFINE p == [start |-> since[c], end |-> now]
<1>4. p \in Periods(c) /\ \A q \in Periods(c) : q.start <= p.start
  BY <1>2
<1>5. p.end = now /\ p.end - p.start < WEEK /\ p.start > FirstDayBorder
  BY <1>3
<1> QED  BY <1>2, <1>4, <1>5 DEF Waits

\* Who waits is told the time that is left.
LEMMA WaitIsTrue ==
  ASSUME TypeOK, AccountInv, NEW c \in Contact, c \in Listed \ Active, since[c] # Never
  PROVE  now + ActiveAfter(c) = since[c] + WEEK
<1>1. FirstInv /\ ContactOK(c) /\ Waits(c)
  BY DEF AccountInv, Listed
<1>2. /\ since[c] \in Nat /\ since[c] <= now /\ now \in Nat
      /\ [start |-> since[c], end |-> now] \in Periods(c)
      /\ \A q \in Periods(c) : q.start <= since[c] /\ q.start \in Nat
  BY <1>1, ChosenPeriod DEF TypeOK
<1>3. \A p \in Periods(c) : (\A q \in Periods(c) : q.start <= p.start) => p.start = since[c]
  <2> SUFFICES ASSUME NEW p \in Periods(c), \A q \in Periods(c) : q.start <= p.start
               PROVE  p.start = since[c]
    OBVIOUS
  <2>1. since[c] <= p.start
    BY <1>2
  <2>2. p.start <= since[c] /\ p.start \in Nat
    BY <1>2
  <2> QED  BY <1>2, <2>1, <2>2
<1>4. now - since[c] < WEEK
  <2>1. PICK p \in Periods(c) :
          (\A q \in Periods(c) : q.start <= p.start) /\ p.end = now /\ p.end - p.start < WEEK
    BY <1>1 DEF Waits
  <2> QED  BY <1>3, <2>1
<1> DEFINE Left(n) == \E p \in Periods(c) :
                        (\A q \in Periods(c) : q.start <= p.start) /\ n = WEEK - (now - p.start)
<1>5. \A n : Left(n) => n = WEEK - (now - since[c])
  BY <1>3
<1>6. Left(WEEK - (now - since[c]))
  <2> DEFINE p == [start |-> since[c], end |-> now]
  <2>1. p \in Periods(c) /\ p.start = since[c] /\ \A q \in Periods(c) : q.start <= p.start
    BY <1>2
  <2> HIDE DEF p
  <2> QED  BY <2>1
<1>7. WEEK - (now - since[c]) \in 0..WEEK
  BY <1>2, <1>4
<1> HIDE DEF Left
<1>8. (CHOOSE n \in 0..WEEK : Left(n)) = WEEK - (now - since[c])
  BY <1>5, <1>6, <1>7
<1>9. ActiveAfter(c) = WEEK - (now - since[c])
  BY <1>8 DEF ActiveAfter, Left
<1> QED  BY <1>2, <1>9

\* Who counts by one period only is told when it will be over.
LEMMA EndIsTrue ==
  ASSUME TypeOK, AccountInv, NEW c \in Contact, c \in Active,
         Cardinality({p \in Periods(c) : Counts(p)}) = 1
  PROVE  IF since[c] # Never /\ (now - since[c] > WEEK \/ since[c] < FirstDayBorder)
         THEN ActiveBefore(c) = 0
         ELSE until[c] = now \/ now + ActiveBefore(c) = until[c] + WEEK
<1> DEFINE Counting == {i \in Starts(c) : Counts(Period(c, i))}
           first == CHOOSE i \in Starts(c) :
                      Counts(Period(c, i))
                      /\ \A j \in Starts(c) : Counts(Period(c, j)) => i <= j
<1>1. FirstInv /\ ContactOK(c) /\ now \in Nat
  BY DEF AccountInv, TypeOK
<1>2. /\ Size(c) \in Nat /\ Entries(c) = 1..Size(c) /\ Starts(c) \subseteq 1..Size(c)
      /\ IsFiniteSet(Starts(c)) /\ Starts(c) \subseteq Nat
  <2>1. Size(c) \in Nat /\ Entries(c) = 1..Size(c) /\ Starts(c) \in SUBSET (1..Size(c))
    BY EntriesAre
  <2>2. IsFiniteSet(1..Size(c))
    BY <2>1, FS_Interval
  <2>3. IsFiniteSet(Starts(c))
    BY <2>1, <2>2, FS_Subset
  <2> QED  BY <2>1, <2>3
<1>3. first \in Starts(c) /\ Counts(Period(c, first))
  <2>1. Counting # {}
    BY DEF Active, Periods
  <2>2. IsFiniteSet(Counting) /\ Counting \subseteq Nat
    BY <1>2, FS_Subset
  <2>3. \E i \in Counting : \A j \in Counting : i <= j
    BY <2>1, <2>2, Least
  <2>4. \E i \in Starts(c) : Counts(Period(c, i))
                             /\ \A j \in Starts(c) : Counts(Period(c, j)) => i <= j
    BY <2>3
  <2> QED  BY <2>4
<1>4. \A i \in Starts(c) : Counts(Period(c, i)) => Period(c, i) = Period(c, first)
  <2> DEFINE f == [i \in Starts(c) |-> Period(c, i)]
  <2>1. f \in Surjection(Starts(c), Periods(c))
    BY DEF Surjection, Periods
  <2>2. IsFiniteSet(Periods(c))
    BY <1>2, <2>1, FS_Surjection
  <2>3. IsFiniteSet({p \in Periods(c) : Counts(p)})
    BY <2>2, FS_Subset
  <2>4. PICK p : {q \in Periods(c) : Counts(q)} = {p}
    BY <2>3, FS_Singleton
  <2>5. \A i \in Starts(c) : Counts(Period(c, i)) => Period(c, i) = p
    BY <2>4 DEF Periods
  <2> QED  BY <1>3, <2>5
<1> HIDE DEF first
<1>5. ActiveBefore(c) = IF EndOf(c, first) = now THEN 0 ELSE EndOf(c, first) - (now - WEEK)
  BY DEF ActiveBefore, first
<1>6. Period(c, first).end = EndOf(c, first)
  BY DEF Period
<1>7. CASE since[c] # Never /\ (now - since[c] > WEEK \/ since[c] < FirstDayBorder)
  <2>1. PICK i \in Entries(c) : OpenFrom(c, i)
    BY <1>1, <1>7 DEF ContactOK, SinceOK
  <2>2. i \in Starts(c)
    BY <2>1 DEF OpenFrom
  <2>3. Counts(Period(c, i)) /\ Period(c, i).end = now
    BY <1>1, <1>7, <2>1, <2>2, PeriodCounts
  <2> QED  BY <1>4, <1>5, <1>6, <1>7, <2>2, <2>3
<1>8. CASE ~(since[c] # Never /\ (now - since[c] > WEEK \/ since[c] < FirstDayBorder))
  <2>1. ~OpenFrom(c, first)
    BY <1>1, <1>3, <1>8, PeriodCounts
  <2>2. PICK j \in Entries(c) : Closes(c, first, j)
    BY <1>1, <1>3, <2>1 DEF ContactOK, PeriodsOK
  <2>3. Had(c, first, j) /\ At(c, j) > now - WEEK /\ EndOf(c, first) = At(c, j)
    BY <1>1, <1>3, <2>2, PeriodCounts, EndOfPeriod
  <2>4. first \in Entries(c) /\ At(c, j) \in Nat
    BY <1>2, <1>3, <2>2, EntriesAre
  <2>5. until[c] # Never /\ At(c, j) <= until[c] /\ until[c] \in Nat
    BY <1>1, <2>2, <2>3, <2>4, NotesAreTimes DEF ContactOK, UntilOK
  <2>6. PICK k \in Entries(c), l \in Entries(c) : Had(c, k, l) /\ until[c] = At(c, l)
    BY <1>1, <2>5 DEF ContactOK, UntilOK
  <2>7. k \in Starts(c) /\ Closes(c, k, l) /\ EndOf(c, k) = At(c, l)
    BY <2>6, EndOfPeriod DEF Had, Closes
  <2>8. Counts(Period(c, k))
    <3>1. At(c, l) > now - WEEK
      BY <1>1, <2>3, <2>4, <2>5, <2>6
    <3> QED  BY <1>1, <2>6, <2>7, <3>1, PeriodCounts
  <2>9. until[c] = EndOf(c, first)
    <3>1. Period(c, k).end = EndOf(c, k)
      BY DEF Period
    <3> QED  BY <1>4, <1>6, <2>6, <2>7, <2>8, <3>1
  <2> QED  BY <1>1, <1>5, <1>8, <2>5, <2>9
<1> QED  BY <1>7, <1>8

\* Users are told the truth about their recovery connections: getActiveAfter and
\* getActiveBefore.
THEOREM ListsAreTrue == Spec => []ListIsTrue
<1>1. TypeOK /\ AccountInv /\ RightsFollowChanges => ListIsTrue
  BY ChosenListed, WaitIsTrue, EndIsTrue DEF ListIsTrue, TimesNamedAreTrue
<1> QED  BY <1>1, AccountCorrect, RightsAreChanges, PTL
=============================================================================
