------------------------------ MODULE Snapshots ------------------------------
(***************************************************************************)
(* Snapshots and verifications of one node.                                *)
(*                                                                         *)
(* At every SNAPSHOTS_PERIOD-th block the receiver dumps the database, and *)
(* the scorer, a process of its own, restores the dumps one by one and     *)
(* derives the verifications of the users from them.  SeedConnected is     *)
(* incremental: the verifications of a block extend those of the block     *)
(* before with the connections that members of seed groups made in         *)
(* between.  Nothing else remembers the older connections, so a block that *)
(* is processed twice, or on a wrong base, is a user who is forgotten.     *)
(*                                                                         *)
(* Snapshot blocks are numbered 1, 2, ...; time is counted in blocks that  *)
(* hold an operation of a seed, which is all that timestamps tell apart.   *)
(***************************************************************************)
EXTENDS Integers, Sequences, FiniteSets

CONSTANTS
  User,         \* the users that seeds connect to
  Group,        \* the seed groups, each with one member who connects
  Quota,        \* Quota[g]: how many users group g can verify
  MaxSnapshots, \* bound: snapshot blocks
  MaxConnects,  \* bound: Connect operations of seeds
  MaxFailures   \* bound: errors or restarts of the receiver and the scorer

ASSUME SnapshotsAssumption ==
  /\ IsFiniteSet(User) /\ IsFiniteSet(Group)
  /\ Quota \in [Group -> Nat]

VARIABLES
  now,       \* the time of the newest block
  conn,      \* conn[g][u]: the connection of g's member to u
  prevTime,  \* PREV_SNAPSHOT_TIME
  lastBlock, \* LAST_BLOCK, counted in snapshot blocks
  receiver,  \* what the receiver does next
  dump,      \* the directory dump_N the receiver fills
  files,     \* the directories dump_N_fnl
  scorer,    \* what the scorer does next
  snapshot,  \* the `snapshot' database the scorer has restored
  todo,      \* the documents a verifier has yet to insert
  connected, \* the SeedConnected documents of `verifications'
  verified,  \* the BrightID documents of `verifications'
  hashes,    \* VERIFICATIONS_HASHES, from block to hash
  vblock,    \* VERIFICATION_BLOCK
  chainView, \* history: what SeedConnected should say after each snapshot
  failures,  \* failures that a retry repairs before anyone notices
  regrets    \* failures after which a finished block is processed again

chain    == <<now, conn>>
rvars    == <<prevTime, lastBlock, receiver, dump>>
results  == <<connected, verified, hashes, vblock>>
counters == <<failures, regrets>>
vars == <<chain, rvars, files, scorer, snapshot, todo, results, chainView, counters>>

Level       == {"none", "met", "reported", "other"}
Connection  == [level : Level, time : Nat]
Contents    == [block : Nat, conn : [Group -> [User -> Connection]], prev : Nat]
Score       == [connected : SUBSET Group, reported : SUBSET Group]
PENALTY     == 3
NoScores    == [u \in {} |-> [connected |-> {}, reported |-> {}]]
Strangers   == [g \in Group |-> [u \in User |-> [level |-> "none", time |-> 0]]]
NoSnapshot  == [block |-> 0, conn |-> Strangers, prev |-> 0]

MaxOf(S) == CHOOSE x \in S : \A y \in S : y <= x

-----------------------------------------------------------------------------
(* scorer/verifications/seed_connected.py: `before' maps the users of the  *)
(* previous block to their scores, s is the restored snapshot.             *)

\* The users that g's member met since the previous snapshot.
Met(s, g) == {u \in User : s.conn[g][u].level = "met" /\ s.conn[g][u].time > s.prev}

ReportedBy(s, g) == {u \in User : s.conn[g][u].level = "reported"}

\* A user is added to `users' by any connection the query returns.
Known(s, before) ==
  DOMAIN before \cup
  {u \in User : \E g \in Group : \/ s.conn[g][u].level = "reported"
                                 \/ s.conn[g][u].time > s.prev}

\* counts: the users a group verified before.
Count(before, g) == Cardinality({u \in DOMAIN before : g \in before[u].connected})

ConnectedBefore(before, u) == IF u \in DOMAIN before THEN before[u].connected ELSE {}

\* The users g's member met and g has not verified before.
Newcomers(s, before, g) == {u \in Met(s, g) : g \notin ConnectedBefore(before, u)}

\* A quota that forgets the users verified at earlier blocks.
WithinQuotaOfBlock(s, before, g, u) ==
  Cardinality({v \in Newcomers(s, before, g) : s.conn[g][v].time <= s.conn[g][u].time})
    <= Quota[g]

\* Newcomers take what is left of the quota in the order of their connections.
WithinQuota(s, before, g, u) ==
  Count(before, g)
    + Cardinality({v \in Newcomers(s, before, g) : s.conn[g][v].time <= s.conn[g][u].time})
    <= Quota[g]

SeedConnected(s, before) ==
  [u \in Known(s, before) |->
     [connected |-> ConnectedBefore(before, u) \cup
                    {g \in Group : /\ u \in Newcomers(s, before, g)
                                   /\ WithinQuota(s, before, g, u)},
      reported  |-> {g \in Group : u \in ReportedBy(s, g)}]]

Rank(score) == Cardinality(score.connected) - PENALTY * Cardinality(score.reported)

\* The SeedConnected documents of a block, as the map from users to scores.
StoredAt(b) ==
  [u \in {d.user : d \in {x \in connected : x.block = b}} |->
     (CHOOSE d \in connected : d.block = b /\ d.user = u).score]

\* The hash of a block's SeedConnected documents stands for users and ranks.
HashOf(scores) == {<<u, Rank(scores[u])>> : u \in DOMAIN scores}

Newest == MaxOf(DOMAIN hashes)

-----------------------------------------------------------------------------
Init ==
  /\ now = 0
  /\ conn = Strangers
  /\ prevTime = 0 /\ lastBlock = 0
  /\ receiver = "blocks" /\ dump = NoSnapshot
  /\ files = {}
  /\ scorer = "idle" /\ snapshot = NoSnapshot /\ todo = {}
  /\ connected = {} /\ verified = {}
  /\ hashes = [b \in {0} |-> {}] /\ vblock = 0
  /\ chainView = <<>>
  /\ failures = 0 /\ regrets = 0

-----------------------------------------------------------------------------
(* receiver.py *)

\* A block in which the member of seed group g connects to u.
Connect(g, u, level) ==
  /\ receiver = "blocks"
  /\ lastBlock < MaxSnapshots
  /\ now < MaxConnects
  /\ now' = now + 1
  /\ conn' = [conn EXCEPT ![g][u] = [level |-> level, time |-> now + 1]]
  /\ UNCHANGED <<rvars, files, scorer, snapshot, todo, results, chainView, counters>>

\* The operations of the snapshot block are done.
ReachSnapshot ==
  /\ receiver = "blocks"
  /\ lastBlock < MaxSnapshots
  /\ receiver' = "dump"
  /\ chainView' =
       Append(chainView,
              SeedConnected([conn |-> conn, prev |-> prevTime],
                            IF chainView = <<>> THEN NoScores
                                                ELSE chainView[Len(chainView)]))
  /\ UNCHANGED <<chain, prevTime, lastBlock, dump, files, scorer, snapshot, todo,
                 results, counters>>

\* A dump without the collection `variables'.
DumpWithoutVariables ==
  /\ receiver = "dump"
  /\ dump' = [block |-> lastBlock + 1, conn |-> conn]
  /\ receiver' = "move"
  /\ UNCHANGED <<chain, prevTime, lastBlock, files, scorer, snapshot, todo,
                 results, chainView, counters>>

\* arangodump
Dump ==
  /\ receiver = "dump"
  /\ dump' = [block |-> lastBlock + 1, conn |-> conn, prev |-> prevTime]
  /\ receiver' = "move"
  /\ UNCHANGED <<chain, prevTime, lastBlock, files, scorer, snapshot, todo,
                 results, chainView, counters>>

\* A receiver that leaves the dump under its first name.
NoMove ==
  /\ receiver = "move"
  /\ receiver' = "time"
  /\ UNCHANGED <<chain, prevTime, lastBlock, dump, files, scorer, snapshot, todo,
                 results, chainView, counters>>

\* shutil.move(dump_N, dump_N_fnl).  When the scorer has not removed an earlier
\* dump_N_fnl, the new directory ends up inside it, where nobody looks.
Move ==
  /\ receiver = "move"
  /\ files' = IF \E f \in files : f.block = dump.block THEN files
              ELSE files \cup {dump}
  /\ receiver' = "time"
  /\ UNCHANGED <<chain, prevTime, lastBlock, dump, scorer, snapshot, todo,
                 results, chainView, counters>>

SetPrevSnapshotTime ==
  /\ receiver = "time"
  /\ prevTime' = now
  /\ receiver' = "finish"
  /\ UNCHANGED <<chain, lastBlock, dump, files, scorer, snapshot, todo,
                 results, chainView, counters>>

\* remove_old_operations and LAST_BLOCK.
FinishBlock ==
  /\ receiver = "finish"
  /\ lastBlock' = lastBlock + 1
  /\ receiver' = "blocks"
  /\ UNCHANGED <<chain, prevTime, dump, files, scorer, snapshot, todo,
                 results, chainView, counters>>

\* An error or a restart: the receiver comes to the snapshot block again, whose
\* operations have been applied before.
ReceiverFails ==
  /\ receiver # "blocks"
  /\ failures + regrets < MaxFailures
  /\ receiver' = "dump"
  /\ IF receiver \in {"time", "finish"}
     THEN regrets' = regrets + 1 /\ UNCHANGED failures
     ELSE failures' = failures + 1 /\ UNCHANGED regrets
  /\ UNCHANGED <<chain, prevTime, lastBlock, dump, files, scorer, snapshot, todo,
                 results, chainView>>

-----------------------------------------------------------------------------
(* scorer/runner.py *)

\* A next_snapshot that takes the directories as listdir yields them.
RestoreAny ==
  /\ scorer = "idle"
  /\ snapshot' \in files
  /\ scorer' = "reset"
  /\ UNCHANGED <<chain, rvars, files, todo, results, chainView, counters>>

\* next_snapshot and arangorestore: the smallest block comes first.
Restore ==
  /\ scorer = "idle"
  /\ snapshot' \in files
  /\ \A f \in files : snapshot'.block <= f.block
  /\ scorer' = "reset"
  /\ UNCHANGED <<chain, rvars, files, todo, results, chainView, counters>>

\* "If there are verifications for current block, it means there was an error
\* resulted in retrying the block": they are removed.  The first verifier then
\* loads those of VERIFICATION_BLOCK and extends them in memory.
RemoveBlock ==
  /\ scorer = "reset"
  /\ connected' = {d \in connected : d.block # snapshot.block}
  /\ verified' = {d \in verified : d.block # snapshot.block}
  /\ LET history == IF vblock = snapshot.block THEN NoScores ELSE StoredAt(vblock)
         scores  == SeedConnected(snapshot, history)
     IN  todo' = {[user |-> u, block |-> snapshot.block, score |-> scores[u]] :
                    u \in DOMAIN scores}
  /\ scorer' = "connect"
  /\ UNCHANGED <<chain, rvars, files, snapshot, hashes, vblock, chainView, counters>>

\* A batch of SeedConnected documents.
InsertConnected ==
  /\ scorer = "connect"
  /\ \E batch \in SUBSET todo :
       /\ batch # {}
       /\ todo' = todo \ batch
       /\ connected' = connected \cup batch
  /\ UNCHANGED <<chain, rvars, files, scorer, snapshot, verified, hashes, vblock,
                 chainView, counters>>

\* brightid.py: the users with a positive rank.
Verifiable(b) == {u \in DOMAIN StoredAt(b) : Rank(StoredAt(b)[u]) > 0}

StartBrightID ==
  /\ scorer = "connect"
  /\ todo = {}
  /\ todo' = {[user |-> u, block |-> snapshot.block] : u \in Verifiable(snapshot.block)}
  /\ scorer' = "verify"
  /\ UNCHANGED <<chain, rvars, files, snapshot, results, chainView, counters>>

InsertVerified ==
  /\ scorer = "verify"
  /\ \E batch \in SUBSET todo :
       /\ batch # {}
       /\ todo' = todo \ batch
       /\ verified' = verified \cup batch
  /\ UNCHANGED <<chain, rvars, files, scorer, snapshot, connected, hashes, vblock,
                 chainView, counters>>

\* The loop variable of brightid.py is printed at its end: without a verified
\* user it does not exist, the block fails and is tried again, for ever.
NobodyVerified ==
  /\ scorer = "verify"
  /\ Verifiable(snapshot.block) = {}
  /\ scorer' = "idle"
  /\ UNCHANGED <<chain, rvars, files, snapshot, todo, results, chainView, counters>>

\* An update_verifications_hashes that does not wait for the verifiers.
UpdateHashesEarly ==
  /\ scorer = "verify"
  /\ Verifiable(snapshot.block) # {}
  /\ hashes' = [b \in {snapshot.block, Newest} |->
                  IF b = Newest THEN hashes[b] ELSE HashOf(StoredAt(b))]
  /\ todo' = {}
  /\ scorer' = "trim"
  /\ UNCHANGED <<chain, rvars, files, snapshot, connected, verified, vblock,
                 chainView, counters>>

\* update_verifications_hashes keeps the newest block beside this one.  If this
\* one is the newest, its old hash stays: the object has the keys N and "N",
\* and the reader of the JSON text takes the last.
UpdateHashes ==
  /\ scorer = "verify"
  /\ todo = {} /\ Verifiable(snapshot.block) # {}
  /\ hashes' = [b \in {snapshot.block, Newest} |->
                  IF b = Newest THEN hashes[b] ELSE HashOf(StoredAt(b))]
  /\ scorer' = "trim"
  /\ UNCHANGED <<chain, rvars, files, snapshot, todo, connected, verified, vblock,
                 chainView, counters>>

\* A scorer that keeps only the verifications of its own block.
RemoveAllBefore ==
  /\ scorer = "trim"
  /\ connected' = {d \in connected : d.block >= snapshot.block}
  /\ verified' = {d \in verified : d.block >= snapshot.block}
  /\ scorer' = "advance"
  /\ UNCHANGED <<chain, rvars, files, snapshot, todo, hashes, vblock, chainView, counters>>

\* remove_verifications_before(VERIFICATION_BLOCK)
RemoveVerificationsBefore ==
  /\ scorer = "trim"
  /\ connected' = {d \in connected : d.block >= vblock}
  /\ verified' = {d \in verified : d.block >= vblock}
  /\ scorer' = "advance"
  /\ UNCHANGED <<chain, rvars, files, snapshot, todo, hashes, vblock, chainView, counters>>

SetVerificationBlock ==
  /\ scorer = "advance"
  /\ vblock' = snapshot.block
  /\ scorer' = "remove"
  /\ UNCHANGED <<chain, rvars, files, snapshot, todo, connected, verified, hashes,
                 chainView, counters>>

\* shutil.rmtree takes a nested directory with it.
RemoveSnapshot ==
  /\ scorer = "remove"
  /\ files' = {f \in files : f.block # snapshot.block}
  /\ scorer' = "idle"
  /\ UNCHANGED <<chain, rvars, snapshot, todo, results, chainView, counters>>

\* An error or a restart: next_snapshot finds the same directory again.
ScorerFails ==
  /\ scorer # "idle"
  /\ failures + regrets < MaxFailures
  /\ scorer' = "idle"
  /\ IF scorer \in {"trim", "advance", "remove"}
     THEN regrets' = regrets + 1 /\ UNCHANGED failures
     ELSE failures' = failures + 1 /\ UNCHANGED regrets
  /\ UNCHANGED <<chain, rvars, files, snapshot, todo, results, chainView>>

-----------------------------------------------------------------------------
Receiver == ReachSnapshot \/ Dump \/ Move \/ SetPrevSnapshotTime \/ FinishBlock

Scorer ==
  \/ Restore \/ RemoveBlock \/ InsertConnected \/ StartBrightID \/ InsertVerified
  \/ NobodyVerified \/ UpdateHashes \/ RemoveVerificationsBefore
  \/ SetVerificationBlock \/ RemoveSnapshot

Next ==
  \/ \E g \in Group, u \in User, level \in Level \ {"none"} : Connect(g, u, level)
  \/ Receiver \/ Scorer
  \/ ReceiverFails \/ ScorerFails

\* The chain reaches further snapshot blocks, and both processes are loops that
\* start over after an error.
Fairness == WF_vars(Receiver) /\ WF_vars(Scorer)

Spec     == Init /\ [][Next]_vars
FairSpec == Spec /\ Fairness

-----------------------------------------------------------------------------
(* Properties. *)

Verified  == [user : User, block : Nat]
Connected == [user : User, block : Nat, score : Score]

TypeOK ==
  /\ now \in Nat /\ prevTime \in Nat /\ lastBlock \in Nat
  /\ conn \in [Group -> [User -> Connection]]
  /\ receiver \in {"blocks", "dump", "move", "time", "finish"}
  /\ dump \in Contents /\ snapshot \in Contents /\ files \subseteq Contents
  /\ scorer \in {"idle", "reset", "connect", "verify", "trim", "advance", "remove"}
  /\ todo \subseteq Connected \/ todo \subseteq Verified
  /\ connected \subseteq Connected /\ verified \subseteq Verified
  /\ DOMAIN hashes \subseteq Nat /\ DOMAIN hashes # {} /\ vblock \in Nat
  /\ failures \in Nat /\ regrets \in Nat

\* What users verified at block b are served: userVerifications.
Served == {d.user : d \in {x \in verified : x.block = Newest}}

\* The users whom a snapshot b verifies, by the history of the chain.
Deserving(b) == IF b = 0 THEN {}
                ELSE {u \in DOMAIN chainView[b] : Rank(chainView[b][u]) > 0}

\* The block users are served from, and the block the next snapshot builds on,
\* say what the whole history of the chain says, although the scorer lags
\* behind by any number of snapshots and fails and starts over before it
\* publishes a block: all nodes serve the same verifications.
ResultsFollowChain ==
  regrets = 0 =>
    /\ Served = Deserving(Newest)
    /\ vblock > 0 => StoredAt(vblock) = chainView[vblock]

\* The hashes by which nodes compare their verifications describe the documents
\* the node holds, for both blocks it keeps.
HashesDescribe ==
  regrets = 0 => \A b \in DOMAIN hashes : hashes[b] = HashOf(StoredAt(b))

\* A group never verifies more users than its quota, over all blocks and
\* through every failure.
QuotaKept ==
  \A b \in 0..MaxSnapshots, g \in Group :
    Cardinality({d \in connected : d.block = b /\ g \in d.score.connected}) <= Quota[g]

\* Users lose their verification only when a seed reports them.
Forgotten == {u \in Served \ Served' : \A g \in Group : u \notin ReportedBy(snapshot, g)}

VerifiedUsersStay == [][regrets' = 0 => Forgotten = {}]_vars

\* Every snapshot is served in the end, if somebody is verified in it and in
\* those before it (see NobodyVerified).
EverySnapshotServed ==
  \A n \in 1..MaxSnapshots :
    lastBlock >= n /\ (\A k \in 1..n : Deserving(k) # {})
      ~> Newest >= n \/ regrets > 0

=============================================================================
