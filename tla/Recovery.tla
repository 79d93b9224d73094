------------------------------- MODULE Recovery -------------------------------
(***************************************************************************)
(* The account of one user on one node: the keys that sign for it, and     *)
(* the people who can replace them.                                        *)
(*                                                                         *)
(* A user chooses contacts as recovery connections.  Enough of them can    *)
(* set a new signing key.  So that neither a lost key nor a stolen one     *)
(* decides at once, every choice takes a week to count: a new recovery     *)
(* connection waits, a removed one goes on, and a new required number is   *)
(* set after a week.  The delays are judged by the clock of the node,      *)
(* the choices carry the time of their block.                              *)
(*                                                                         *)
(* The apply service executes one operation at a time.  Beside it, the API *)
(* reads the account for anybody who asks, and writes it when a required   *)
(* number has become due.                                                  *)
(***************************************************************************)
EXTENDS Integers, Sequences, FiniteSets

CONSTANTS
  Contact,      \* the users that the user is connected to
  Key,          \* signing keys
  FirstKey,     \* the key the user was created with
  Num,          \* required numbers a user can choose
  DAY, WEEK,    \* in ticks of the clock
  Lag,          \* how many ticks a block is old when it is applied
  MaxTime,      \* bound: the clock
  MaxChanges,   \* bound: changes of connections
  MaxRequests   \* bound: changes of the required number

ASSUME RecoveryAssumption ==
  /\ IsFiniteSet(Contact)
  /\ FirstKey \in Key
  /\ Num \subseteq 2..5
  /\ DAY \in Nat /\ WEEK \in Nat /\ 0 < DAY /\ DAY < WEEK
  /\ Lag \in Nat

VARIABLES
  now,       \* Date.now()
  block,     \* the time of the newest block
  history,   \* connectionsHistory: what the user has set each contact to
  trusts,    \* the contacts whose own connection is already known or recovery
  user,      \* the document of the user
  get,       \* the request of the API that writes the user, and what it has read
  changes,   \* what MaxChanges counts
  requests,  \* history: the required numbers that have been asked for, and when
  lastKeys,  \* history: the signing keys the last operation has left
  since,     \* history: since when each contact is a recovery connection
  until,     \* history: how long a former one was, for those that had waited
  seen       \* history: when each contact was settled for the last time

ghosts == <<requests, lastKeys, since, until, seen>>
vars == <<now, block, history, trusts, user, get, changes, ghosts>>

Never == -1
NoNum == 0
Idle  == [step |-> "idle"]

User  == [keys : SUBSET Key, num : Num \cup {2}, next : Num \cup {NoNum}, setAfter : Nat]
Entry == [recovery : BOOLEAN, timestamp : Nat]

-----------------------------------------------------------------------------
(* getRecoveryConnections *)

Entries(c) == DOMAIN history[c]

\* The indices at which a period starts, and the index at which it ends.
Starts(c) == {i \in Entries(c) : history[c][i].recovery
                                 /\ (i = 1 \/ ~history[c][i - 1].recovery)}

EndOf(c, i) ==
  LET ends == {j \in Entries(c) : i < j /\ ~history[c][j].recovery}
  IN  IF ends = {} THEN now
      ELSE history[c][CHOOSE j \in ends : \A k \in ends : j <= k].timestamp

\* getRecoveryPeriods
Period(c, i) == [start |-> history[c][i].timestamp, end |-> EndOf(c, i)]

Periods(c) == {Period(c, i) : i \in Starts(c)}

EverRecovery == {c \in Contact : Starts(c) # {}}

RecoveryTimes ==
  UNION {{history[c][i].timestamp : i \in Starts(c)} : c \in Contact}

FirstDayBorder == DAY + CHOOSE t \in RecoveryTimes : \A s \in RecoveryTimes : t <= s

\* An isActiveRecovery under which a removed connection is out at once ...
CountsWhileOpen(p) ==
  p.end = now /\ (p.end - p.start > WEEK \/ p.start < FirstDayBorder)

\* ... and one that forgets the exception of the first day.
CountsFromAWeek(p) == p.end > now - WEEK /\ p.end - p.start > WEEK

\* isActiveRecovery
Counts(p) == p.end > now - WEEK /\ (p.end - p.start > WEEK \/ p.start < FirstDayBorder)

Active == {c \in EverRecovery : \E p \in Periods(c) : Counts(p)}

\* A getActiveAfter that looks at the first period.
WaitsAtFirst(c) ==
  \E p \in Periods(c) :
    /\ \A q \in Periods(c) : p.start <= q.start
    /\ p.end = now /\ p.end - p.start < WEEK /\ p.start > FirstDayBorder

\* getActiveAfter: the last period lasts and is not a week long.
Waits(c) ==
  \E p \in Periods(c) :
    /\ \A q \in Periods(c) : q.start <= p.start
    /\ p.end = now /\ p.end - p.start < WEEK /\ p.start > FirstDayBorder

\* ... and how long it has to wait.
ActiveAfter(c) ==
  CHOOSE left \in 0..WEEK :
    \E p \in Periods(c) :
      (\A q \in Periods(c) : q.start <= p.start) /\ left = WEEK - (now - p.start)

\* getActiveBefore: the first period that counts has an end, a week after which it
\* counts no more.
ActiveBefore(c) ==
  LET first == CHOOSE i \in Starts(c) :
                 Counts(Period(c, i))
                 /\ \A j \in Starts(c) : Counts(Period(c, j)) => i <= j
  IN  IF EndOf(c, first) = now THEN 0 ELSE EndOf(c, first) - (now - WEEK)

Listed == Active \cup {c \in EverRecovery : Waits(c)}

-----------------------------------------------------------------------------
Init ==
  /\ now = 0 /\ block = 0
  /\ history = [c \in Contact |-> <<>>]
  /\ trusts \in SUBSET Contact
  /\ user = [keys |-> {FirstKey}, num |-> 2, next |-> NoNum, setAfter |-> 0]
  /\ get = Idle
  /\ changes = 0
  /\ requests = {} /\ lastKeys = {FirstKey}
  /\ since = [c \in Contact |-> Never] /\ until = [c \in Contact |-> Never]
  /\ seen = [c \in Contact |-> Never]

\* A recovery connection that counts, and would have when a block that can still
\* come was created.
Settled(c) ==
  since[c] # Never /\ (now - Lag - since[c] > WEEK \/ since[c] < FirstDayBorder)

Observe == seen' = [c \in Contact |-> IF Settled(c) THEN now ELSE seen[c]]

Tick ==
  /\ now < MaxTime
  /\ now' = now + 1
  /\ Observe
  /\ UNCHANGED <<block, history, trusts, user, get, changes, requests, lastKeys, since, until>>

-----------------------------------------------------------------------------
(* The API: getRequiredRecoveryNum of a GET or of the verify of a POST.  It *)
(* writes only when a number is due, and names the document by its key.     *)

IsDue(u) == u.next # NoNum /\ u.setAfter <= now

\* A getRequiredRecoveryNum that does not ask whether there is a next number.
DueUnasked(u) ==
  IF u.setAfter <= now
  THEN [u EXCEPT !.num = u.next, !.next = NoNum, !.setAfter = 0]
  ELSE u

Due(u) ==
  IF IsDue(u)
  THEN [u EXCEPT !.num = u.next, !.next = NoNum, !.setAfter = 0]
  ELSE u

GetUser ==
  /\ get = Idle
  /\ IsDue(user)
  /\ get' = [step |-> "replace", doc |-> Due(user)]
  /\ UNCHANGED <<now, block, history, trusts, user, changes, ghosts>>

ReplaceUser ==
  /\ get.step = "replace"
  /\ user' = get.doc
  /\ get' = Idle
  /\ UNCHANGED <<now, block, history, trusts, changes, ghosts>>

-----------------------------------------------------------------------------
(* The operations of the apply service, each in a block of the chain.       *)

InBlock(t) == t \in {x \in block..now : now - x <= Lag} /\ block' = t

\* A key of the user has signed the operation.
Signed == user.keys # {}

Became(c, t, recovery) ==
  /\ since' = [since EXCEPT ![c] =
       IF ~recovery THEN Never ELSE IF @ = Never THEN t ELSE @]
  /\ until' = [until EXCEPT ![c] =
       IF since[c] # Never /\ ~recovery
          /\ (t - since[c] > WEEK \/ since[c] < FirstDayBorder)
       THEN t ELSE @]

\* connect, by the user.  A recovery connection needs the trust of the contact.
Connect(c, recovery, t) ==
  /\ Signed /\ changes < MaxChanges
  /\ recovery => c \in trusts
  /\ InBlock(t)
  /\ history' = [history EXCEPT ![c] =
       Append(@, [recovery |-> recovery, timestamp |-> t])]
  /\ changes' = changes + 1
  /\ Became(c, t, recovery) /\ Observe
  /\ UNCHANGED <<now, trusts, user, get, requests, lastKeys>>

\* connect, by the contact.
ConnectBack(c, t) ==
  /\ changes < MaxChanges
  /\ InBlock(t)
  /\ trusts' = IF c \in trusts THEN trusts \ {c} ELSE trusts \cup {c}
  /\ changes' = changes + 1
  /\ UNCHANGED <<now, history, user, get, ghosts>>

\* verify: the first ids of the operation, as many as are required, are distinct
\* active recovery connections.  The operation stands for the set of these.
Suffices(ids, num) == Cardinality(ids) = num /\ ids \subseteq Active

Operation(u, t) ==
  /\ InBlock(t)
  /\ user' = u
  /\ lastKeys' = u.keys
  /\ UNCHANGED <<now, history, trusts, get, changes, since, until, seen>>

\* setSigningKey
SocialRecovery(ids, k, t) ==
  LET u == Due(user)
  IN  /\ Operation(IF Suffices(ids, u.num) THEN [u EXCEPT !.keys = {k}] ELSE u, t)
      /\ UNCHANGED requests

AddSigningKey(k, t) ==
  /\ Signed
  /\ Operation([user EXCEPT !.keys = @ \cup {k}], t)
  /\ UNCHANGED requests

RemoveSigningKey(k, t) ==
  /\ Signed
  /\ Operation([user EXCEPT !.keys = @ \ {k}], t)
  /\ UNCHANGED requests

\* All but the one that has signed.
RemoveAllSigningKeys(k, t) ==
  /\ k \in user.keys
  /\ Operation([user EXCEPT !.keys = {k}], t)
  /\ UNCHANGED requests

\* setRequiredRecoveryNum
SetRequiredRecoveryNum(n, t) ==
  /\ Signed
  /\ Cardinality(requests) < MaxRequests
  /\ Cardinality(Listed) >= n
  /\ Operation([user EXCEPT !.next = n, !.setAfter = now + WEEK], t)
  /\ requests' = requests \cup {[num |-> n, time |-> now]}

-----------------------------------------------------------------------------
Next ==
  \/ Tick \/ GetUser \/ ReplaceUser
  \/ \E t \in block..now :
       \/ \E c \in Contact, r \in BOOLEAN : Connect(c, r, t)
       \/ \E c \in Contact : ConnectBack(c, t)
       \/ \E ids \in SUBSET Contact, k \in Key : SocialRecovery(ids, k, t)
       \/ \E k \in Key : AddSigningKey(k, t) \/ RemoveSigningKey(k, t)
                         \/ RemoveAllSigningKeys(k, t)
       \/ \E n \in Num : SetRequiredRecoveryNum(n, t)

Spec == Init /\ [][Next]_vars

-----------------------------------------------------------------------------
(* Properties. *)

TypeOK ==
  /\ now \in Nat /\ block \in Nat /\ block <= now
  /\ history \in [Contact -> Seq(Entry)]
  /\ trusts \subseteq Contact
  /\ user \in User
  /\ get \in {Idle} \cup [step : {"replace"}, doc : User]
  /\ changes \in Nat
  /\ requests \subseteq [num : Num, time : Nat]
  /\ lastKeys \subseteq Key
  /\ since \in [Contact -> Nat \cup {Never}]
  /\ until \in [Contact -> Nat \cup {Never}]
  /\ seen \in [Contact -> Nat \cup {Never}]

\* The rights computed from the whole history are those of somebody who keeps a
\* note of each contact as the changes come: it counts while it lasts, from a week
\* after it was chosen or at once on the first day, and for a week after that.
RightsFollowChanges ==
  Active = {c \in Contact :
              \/ until[c] # Never /\ until[c] > now - WEEK
              \/ since[c] # Never
                 /\ (now - since[c] > WEEK \/ since[c] < FirstDayBorder)}

\* Whoever holds a key cannot shut the settled recovery connections out before a
\* week has passed, but for the time that blocks are late.
RemovalTakesAWeek ==
  \A c \in Contact :
    seen[c] # Never /\ now < seen[c] + WEEK - Lag => c \in Active

\* A required number in force is the first one or was asked for a week ago, even if
\* a stale document has been written back.
RequiredNumTakesAWeek ==
  user.num # 2 => \E r \in requests : r.num = user.num /\ r.time + WEEK <= now

\* Neither of the ways to take recovery away from the contacts - to remove them, or
\* to ask for more of them - works within a week.
ChangesTakeAWeek == RemovalTakesAWeek /\ RequiredNumTakesAWeek

\* A recovery connection is listed as active or as waiting, but in two moments: a
\* week after it was chosen, and when it was chosen a day after the first one.
ChosenAreListed ==
  \A c \in Contact :
    since[c] # Never => \/ c \in Listed
                        \/ now - since[c] = WEEK
                        \/ since[c] = FirstDayBorder

\* What the list says of a contact comes true if nothing is changed: one that
\* waits counts from the end of the time named, one that goes on without being
\* chosen is out at the end of the time named, and one that keeps its rights is
\* given no end.  Excepted are the moment of a removal, and somebody chosen several
\* times on the first day: of the periods that count, getActiveBefore names the end
\* of the first.
TimesNamedAreTrue ==
  \A c \in Contact :
    /\ c \in Listed \ Active /\ since[c] # Never => now + ActiveAfter(c) = since[c] + WEEK
    /\ c \in Active /\ Cardinality({p \in Periods(c) : Counts(p)}) = 1 =>
         IF since[c] # Never /\ (now - since[c] > WEEK \/ since[c] < FirstDayBorder)
         THEN ActiveBefore(c) = 0
         ELSE until[c] = now \/ now + ActiveBefore(c) = until[c] + WEEK

\* Users are told the truth about their recovery connections: every one chosen is
\* in the list, and every time in it is right.
ListIsTrue == ChosenAreListed /\ TimesNamedAreTrue

-----------------------------------------------------------------------------
(* What the repository says of the program and the model refutes. *)

\* The signing keys are those the operations have set:
\* "signingKeys.should.deep.equal([u4.signingKey])" (tests/operations.js).  A
\* request that has read the user before an operation writes the old keys back.
KeysAreThoseSet == user.keys = lastKeys

=============================================================================
