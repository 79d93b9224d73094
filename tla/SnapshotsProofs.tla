--------------------------- MODULE SnapshotsProofs ---------------------------
(***************************************************************************)
(* Proofs about Snapshots for every finite set of users and seed groups,   *)
(* all quotas, and any number of snapshots, connections and failures.      *)
(*                                                                         *)
(* Three layers: the types, the quota of a block's documents - through all  *)
(* failures - and, as long as no block is processed again after it was     *)
(* finished, how far receiver and scorer have come and what they have       *)
(* written by then.                                                        *)
(***************************************************************************)
EXTENDS Snapshots, FiniteSetTheorems, SequenceTheorems, TLAPS

-----------------------------------------------------------------------------
(* The invariant.                                                          *)

\* Maps from some users to their scores.
Scores == UNION {[D -> Score] : D \in SUBSET User}

\* The documents that hold such a map for a block, and those the node has.
DocsOf(b, s) == {[user |-> u, block |-> b, score |-> s[u]] : u \in DOMAIN s}
DocsAt(b) == {d \in connected : d.block = b}
VerifiedAt(b) == {d.user : d \in {x \in verified : x.block = b}}

Busy == scorer # "idle"
Publishing == scorer \in {"trim", "advance"}

\* What a verifier has yet to insert, and the two entries of the hashes.
StageOK ==
  /\ scorer = "connect" => todo \subseteq Connected
  /\ scorer = "verify" => todo \subseteq Verified
  /\ \E b, c \in Nat : DOMAIN hashes = {b, c}

TypeInv == TypeOK /\ StageOK

\* No group has verified more users than its quota.
WithinQuotas(s) == \A g \in Group : Count(s, g) <= Quota[g]

\* The documents of a block, and those that are about to be inserted with them, hold
\* one map that respects the quotas.
QuotaInv ==
  /\ \A b : \E s \in Scores : WithinQuotas(s) /\ DocsAt(b) = DocsOf(b, s)
  /\ scorer = "connect" =>
       \E s \in Scores : WithinQuotas(s) /\ DocsAt(snapshot.block) \cup todo = DocsOf(snapshot.block, s)

\* What the chain says at snapshot b.
View(b) == IF b = 0 THEN NoScores ELSE chainView[b]

\* What SeedConnected computes from a snapshot, on the view of the block before, is
\* the view of its block.
Good(s) == /\ s.block \in 1..Len(chainView)
           /\ chainView[s.block] = SeedConnected(s, View(s.block - 1))

\* The chain has a view for every snapshot block that was reached.
Reached == IF receiver = "blocks" THEN lastBlock ELSE lastBlock + 1
ChainInv == chainView \in Seq(Scores) /\ Len(chainView) = Reached

\* The last snapshot handed over, and the last one the scorer removed.
Moved == IF receiver \in {"time", "finish"} THEN lastBlock + 1 ELSE lastBlock
Removed == IF scorer = "remove" THEN vblock - 1 ELSE vblock

\* The receiver hands over every snapshot, one after the other.
HandOver ==
  /\ receiver \in {"dump", "move"} =>
       chainView[lastBlock + 1] = SeedConnected([conn |-> conn, prev |-> prevTime], View(lastBlock))
  /\ receiver = "move" => dump.block = lastBlock + 1 /\ Good(dump)
  /\ \A f \in files : Good(f)
  /\ \A e, f \in files : e.block = f.block => e = f
  /\ {f.block : f \in files} = (Removed + 1)..Moved
  /\ vblock <= Moved

\* The scorer takes the one after VERIFICATION_BLOCK.
Turn ==
  Busy => /\ snapshot \in files
          /\ snapshot.block = IF scorer = "remove" THEN vblock ELSE vblock + 1

\* The documents and hashes of the published blocks say what the chain says.
Published ==
  /\ vblock \in DOMAIN hashes
  /\ IF Publishing THEN DOMAIN hashes = {vblock, vblock + 1}
                   ELSE DOMAIN hashes \subseteq {vblock - 1, vblock}
  /\ \A b \in DOMAIN hashes : /\ DocsAt(b) = DocsOf(b, View(b))
                              /\ VerifiedAt(b) = Deserving(b)
                              /\ hashes[b] = HashOf(View(b))

\* So will those of the block the scorer works on.
InProgress ==
  /\ scorer = "connect" =>
       /\ DocsAt(snapshot.block) \cup todo = DocsOf(snapshot.block, View(snapshot.block))
       /\ VerifiedAt(snapshot.block) = {}
  /\ scorer = "verify" =>
       /\ DocsAt(snapshot.block) = DocsOf(snapshot.block, View(snapshot.block))
       /\ \A t \in todo : t.block = snapshot.block
       /\ VerifiedAt(snapshot.block) \cup {t.user : t \in todo} = Deserving(snapshot.block)

FollowInv == regrets = 0 => HandOver /\ Turn /\ Published /\ InProgress

IInv == TypeInv /\ QuotaInv /\ ChainInv /\ FollowInv

-----------------------------------------------------------------------------
(* Maps from users to scores, and the documents that hold them.            *)

LEMMA ScoresAre ==
  ASSUME NEW s \in Scores
  PROVE  /\ DOMAIN s \subseteq User
         /\ s = [u \in DOMAIN s |-> s[u]]
         /\ \A u \in DOMAIN s : s[u] \in Score
         /\ IsFiniteSet(DOMAIN s)
<1>1. PICK D \in SUBSET User : s \in [D -> Score]
  BY DEF Scores
<1> QED  BY <1>1, FS_Subset, SnapshotsAssumption

LEMMA ScoresOf ==
  ASSUME NEW D \in SUBSET User, NEW s \in [D -> Score]
  PROVE  s \in Scores
BY DEF Scores

LEMMA CountType ==
  ASSUME NEW s \in Scores, NEW g
  PROVE  /\ Count(s, g) \in Nat
         /\ IsFiniteSet({u \in DOMAIN s : g \in s[u].connected})
<1>1. {u \in DOMAIN s : g \in s[u].connected} \in SUBSET (DOMAIN s)
  OBVIOUS
<1>2. IsFiniteSet({u \in DOMAIN s : g \in s[u].connected})
  BY <1>1, ScoresAre, FS_Subset
<1> QED  BY <1>2, FS_CardinalityType DEF Count

LEMMA NoScoresAre ==
  /\ NoScores \in Scores /\ DOMAIN NoScores = {}
  /\ WithinQuotas(NoScores)
  /\ \A b : DocsOf(b, NoScores) = {}
<1>1. DOMAIN NoScores = {} /\ NoScores \in [{} -> Score]
  BY DEF NoScores
<1>2. NoScores \in Scores
  BY <1>1, ScoresOf
<1>3. \A g : Count(NoScores, g) = 0
  <2>1. \A g : {u \in DOMAIN NoScores : g \in NoScores[u].connected} = {}
    BY <1>1
  <2> QED  BY <2>1, FS_EmptySet DEF Count
<1>4. \A g \in Group : Quota[g] \in Nat
  BY SnapshotsAssumption
<1> QED  BY <1>1, <1>2, <1>3, <1>4 DEF WithinQuotas, DocsOf

\* Documents that hold a map are read as that map.
LEMMA StoredIs ==
  ASSUME NEW b, NEW s \in Scores, DocsAt(b) = DocsOf(b, s)
  PROVE  StoredAt(b) = s
<1>1. \A d : d \in DocsAt(b) <=>
              \E u \in DOMAIN s : d = [user |-> u, block |-> b, score |-> s[u]]
  BY DEF DocsOf
<1>2. {d.user : d \in {x \in connected : x.block = b}} = DOMAIN s
  <2>1. ASSUME NEW u \in DOMAIN s
        PROVE  \E d \in {x \in connected : x.block = b} : d.user = u
    <3>1. [user |-> u, block |-> b, score |-> s[u]] \in DocsAt(b)
      BY <1>1
    <3> QED  BY <3>1 DEF DocsAt
  <2>2. ASSUME NEW d \in {x \in connected : x.block = b}
        PROVE  d.user \in DOMAIN s
    BY <1>1 DEF DocsAt
  <2> QED  BY <2>1, <2>2
<1>3. ASSUME NEW u \in DOMAIN s
      PROVE  (CHOOSE d \in connected : d.block = b /\ d.user = u).score = s[u]
  <2>1. \E d \in connected : d.block = b /\ d.user = u
    BY <1>2
  <2>2. PICK d \in connected : /\ d.block = b /\ d.user = u
                               /\ d = CHOOSE x \in connected : x.block = b /\ x.user = u
    BY <2>1
  <2>3. d \in DocsAt(b)
    BY <2>2 DEF DocsAt
  <2> QED  BY <1>1, <2>2, <2>3
<1>4. StoredAt(b) = [u \in DOMAIN s |-> s[u]]
  BY <1>2, <1>3 DEF StoredAt
<1> QED  BY <1>4, ScoresAre

LEMMA StoredType ==
  ASSUME TypeOK, NEW b
  PROVE  StoredAt(b) \in Scores
<1> DEFINE D == {d.user : d \in {x \in connected : x.block = b}}
<1>1. D \in SUBSET User
  BY DEF TypeOK, Connected
<1>2. ASSUME NEW u \in D
      PROVE  (CHOOSE d \in connected : d.block = b /\ d.user = u).score \in Score
  <2>1. \E d \in connected : d.block = b /\ d.user = u
    OBVIOUS
  <2>2. (CHOOSE d \in connected : d.block = b /\ d.user = u) \in connected
    BY <2>1
  <2> QED  BY <2>2 DEF TypeOK, Connected
<1>3. StoredAt(b) \in [D -> Score]
  BY <1>2 DEF StoredAt
<1> QED  BY <1>1, <1>3, ScoresOf

\* Some of the documents of a map hold a part of it, which respects the quotas too.
LEMMA SubDocs ==
  ASSUME NEW b, NEW s \in Scores, WithinQuotas(s), NEW T, T \subseteq DocsOf(b, s)
  PROVE  \E r \in Scores : WithinQuotas(r) /\ T = DocsOf(b, r)
<1> DEFINE D == {d.user : d \in T}
           r == [u \in D |-> s[u]]
<1>1. \A d \in T : d.user \in DOMAIN s /\ d = [user |-> d.user, block |-> b, score |-> s[d.user]]
  BY DEF DocsOf
<1>2. D \subseteq DOMAIN s
  BY <1>1
<1>3. r \in Scores
  <2>1. D \in SUBSET User /\ r \in [D -> Score]
    BY <1>2, ScoresAre
  <2> QED  BY <2>1, ScoresOf
<1>4. T = DocsOf(b, r)
  BY <1>1 DEF DocsOf
<1>5. WithinQuotas(r)
  <2>1. SUFFICES ASSUME NEW g \in Group PROVE Count(r, g) <= Quota[g]
    BY DEF WithinQuotas
  <2> DEFINE inR == {u \in DOMAIN r : g \in r[u].connected}
             inS == {u \in DOMAIN s : g \in s[u].connected}
  <2>2. inR \in SUBSET inS /\ Count(r, g) = Cardinality(inR) /\ Count(s, g) = Cardinality(inS)
    BY <1>2 DEF Count
  <2>3. Count(r, g) <= Count(s, g)
    <3>1. IsFiniteSet(inS)
      BY CountType
    <3> HIDE DEF inR, inS
    <3> QED  BY <2>2, <3>1, FS_Subset
  <2>4. Count(s, g) <= Quota[g] /\ Quota[g] \in Nat
    BY SnapshotsAssumption DEF WithinQuotas
  <2> HIDE DEF r
  <2>5. Count(r, g) \in Nat /\ Count(s, g) \in Nat
    BY <1>3, CountType
  <2> QED  BY <2>3, <2>4, <2>5
<1> QED  BY <1>3, <1>4, <1>5

-----------------------------------------------------------------------------
(* SeedConnected.                                                          *)

\* In a finite set there is one with the latest time.
LEMMA Latest ==
  ASSUME NEW W, IsFiniteSet(W), W # {}, NEW t \in [W -> Nat]
  PROVE  \E u \in W : \A v \in W : t[v] <= t[u]
<1> DEFINE After(u) == {v \in W : t[v] > t[u]}
           F == {After(u) : u \in W}
<1>1. F \subseteq FiniteSubsetsOf(W)
  <2>1. ASSUME NEW u \in W PROVE After(u) \in FiniteSubsetsOf(W)
    BY FS_FiniteSubsetsOfFinite
  <2> QED  BY <2>1
<1>2. F # {}
  <2>1. PICK u \in W : TRUE
    OBVIOUS
  <2>2. After(u) \in F
    OBVIOUS
  <2> QED  BY <2>2
<1> HIDE DEF F
<1>3. PICK x \in F : \A y \in F : ~ (<<y, x>> \in StrictSubsetOrdering(W))
  BY <1>1, <1>2, WFMin, FS_StrictSubsetOrderingWellFounded
<1> USE DEF F
<1>4. PICK u \in W : x = After(u)
  BY <1>3
<1>5. SUFFICES ASSUME NEW v \in W, t[v] > t[u] PROVE FALSE
  <2>1. \A v \in W : t[v] \in Nat
    OBVIOUS
  <2> QED  BY <1>5, <2>1
<1>6. After(v) \subseteq After(u) /\ After(v) # After(u)
  <2>1. \A w \in W : t[w] \in Nat
    OBVIOUS
  <2> QED  BY <1>5, <2>1
<1>7. <<After(v), x>> \in StrictSubsetOrdering(W)
  BY <1>4, <1>6 DEF StrictSubsetOrdering
<1> QED  BY <1>3, <1>7

\* A snapshot as far as SeedConnected reads it.
Readable(s) == s.conn \in [Group -> [User -> Connection]] /\ s.prev \in Nat

LEMMA SeedConnectedType ==
  ASSUME NEW s, NEW before \in Scores
  PROVE  SeedConnected(s, before) \in Scores
<1>1. Known(s, before) \in SUBSET User
  BY ScoresAre DEF Known
<1>2. \A u \in Known(s, before) : SeedConnected(s, before)[u] \in Score
  <2>1. SUFFICES ASSUME NEW u \in Known(s, before) PROVE SeedConnected(s, before)[u] \in Score
    OBVIOUS
  <2>2. ConnectedBefore(before, u) \subseteq Group
    BY ScoresAre DEF ConnectedBefore, Score
  <2> QED  BY <2>2 DEF SeedConnected, Score
<1>3. SeedConnected(s, before) \in [Known(s, before) -> Score]
  BY <1>2 DEF SeedConnected
<1> QED  BY <1>1, <1>3, ScoresOf

LEMMA SeedConnectedReads ==
  ASSUME NEW s, NEW t, NEW before, s.conn = t.conn, s.prev = t.prev
  PROVE  SeedConnected(s, before) = SeedConnected(t, before)
BY DEF SeedConnected, Known, Newcomers, Met, WithinQuota, ReportedBy

\* The newcomers a group takes are not more than its quota leaves.
LEMMA SeedConnectedQuota ==
  ASSUME NEW s, Readable(s), NEW before \in Scores, WithinQuotas(before)
  PROVE  WithinQuotas(SeedConnected(s, before))
<1>1. SUFFICES ASSUME NEW g \in Group PROVE Count(SeedConnected(s, before), g) <= Quota[g]
  BY DEF WithinQuotas
<1> DEFINE Old == {u \in DOMAIN before : g \in before[u].connected}
           New == Newcomers(s, before, g)
           First(u) == {v \in New : s.conn[g][v].time <= s.conn[g][u].time}
           W == {u \in New : Count(before, g) + Cardinality(First(u)) <= Quota[g]}
           All == {u \in DOMAIN SeedConnected(s, before) : g \in SeedConnected(s, before)[u].connected}
<1>2. New \subseteq User /\ \A u \in New : s.conn[g][u].time \in Nat
  BY DEF Newcomers, Met, Readable, Connection
<1>3. IsFiniteSet(New) /\ IsFiniteSet(W) /\ \A u \in New : IsFiniteSet(First(u))
  <2>1. IsFiniteSet(New)
    BY <1>2, FS_Subset, SnapshotsAssumption
  <2> QED  BY <2>1, FS_Subset
<1>4. All \subseteq Old \cup W
  BY DEF SeedConnected, ConnectedBefore, WithinQuota, Newcomers
<1>5. Count(before, g) \in Nat /\ IsFiniteSet(Old) /\ Count(before, g) = Cardinality(Old)
      /\ Count(before, g) <= Quota[g] /\ Quota[g] \in Nat
  BY CountType, SnapshotsAssumption DEF Count, WithinQuotas
<1>6. Cardinality(W) \in Nat /\ Count(before, g) + Cardinality(W) <= Quota[g]
  <2>1. CASE W = {}
    <3> HIDE DEF W
    <3>1. Cardinality(W) = 0
      BY <2>1, FS_EmptySet
    <3> QED  BY <1>5, <3>1
  <2>2. CASE W # {}
    <3> DEFINE t == [u \in W |-> s.conn[g][u].time]
    <3>1. t \in [W -> Nat]
      BY <1>2
    <3>2. PICK u \in W : \A v \in W : t[v] <= t[u]
      <4> HIDE DEF t, W
      <4> QED  BY <1>3, <2>2, <3>1, Latest
    <3>3. W \subseteq First(u)
      BY <3>2
    <3>4. Cardinality(W) <= Cardinality(First(u)) /\ Cardinality(W) \in Nat
          /\ Cardinality(First(u)) \in Nat
      BY <1>3, <3>2, <3>3, FS_Subset, FS_CardinalityType
    <3>5. Count(before, g) + Cardinality(First(u)) <= Quota[g]
      BY <3>2
    <3> QED  BY <1>5, <3>4, <3>5
  <2> QED  BY <2>1, <2>2
<1>7. Cardinality(All) <= Cardinality(Old) + Cardinality(W)
  <2>1. IsFiniteSet(Old \cup W) /\ Cardinality(Old \cup W) <= Cardinality(Old) + Cardinality(W)
    <3> HIDE DEF Old, W
    <3>1. /\ IsFiniteSet(Old \cup W)
          /\ Cardinality(Old \cup W) = Cardinality(Old) + Cardinality(W) - Cardinality(Old \cap W)
      BY <1>3, <1>5, FS_Union
    <3>2. Cardinality(Old \cap W) \in Nat
      BY <1>5, FS_Intersection, FS_CardinalityType
    <3>3. Cardinality(Old) \in Nat
      BY <1>5
    <3> QED  BY <1>6, <3>1, <3>2, <3>3
  <2>2. Cardinality(All) <= Cardinality(Old \cup W) /\ Cardinality(All) \in Nat
        /\ Cardinality(Old \cup W) \in Nat
    <3> HIDE DEF Old, W, All
    <3> QED  BY <1>4, <2>1, FS_Subset, FS_CardinalityType
  <2> HIDE DEF Old, W, All
  <2> QED  BY <1>5, <1>6, <2>1, <2>2
<1>8. Count(SeedConnected(s, before), g) = Cardinality(All)
  BY DEF Count
<1>9. Cardinality(All) \in Nat
  BY <1>8, CountType, SeedConnectedType
<1> HIDE DEF Old, W, All
<1> QED  BY <1>5, <1>6, <1>7, <1>8, <1>9
-----------------------------------------------------------------------------
(* Types.                                                                  *)

LEMMA MaxOfTwo ==
  ASSUME NEW a \in Nat, NEW b \in Nat
  PROVE  MaxOf({a, b}) \in {a, b} /\ \A x \in {a, b} : x <= MaxOf({a, b})
<1>1. \E x \in {a, b} : \A y \in {a, b} : y <= x
  <2>1. CASE a <= b
    BY <2>1
  <2>2. CASE b <= a
    BY <2>2
  <2> QED  BY <2>1, <2>2
<1> QED  BY <1>1 DEF MaxOf

LEMMA NewestIs ==
  ASSUME TypeInv
  PROVE  Newest \in DOMAIN hashes /\ Newest \in Nat /\ \A b \in DOMAIN hashes : b \in Nat /\ b <= Newest
<1>1. PICK b \in Nat, c \in Nat : DOMAIN hashes = {b, c}
  BY DEF TypeInv, StageOK
<1> QED  BY <1>1, MaxOfTwo DEF Newest

LEMMA TypeInit == Init => TypeInv
<1> SUFFICES ASSUME Init PROVE TypeInv
  OBVIOUS
<1>1. Strangers \in [Group -> [User -> Connection]]
  BY DEF Strangers, Connection, Level
<1>2. NoSnapshot \in Contents
  BY <1>1 DEF NoSnapshot, Contents
<1>3. TypeOK
  BY <1>1, <1>2 DEF Init, TypeOK
<1>4. StageOK
  BY DEF Init, StageOK
<1> QED  BY <1>3, <1>4 DEF TypeInv

LEMMA ChainTypes ==
  ASSUME TypeInv, NEW g \in Group, NEW u \in User, NEW level \in Level \ {"none"}, Connect(g, u, level)
  PROVE  TypeInv'
<1>1. now' = now + 1 /\ conn' = [conn EXCEPT ![g][u] = [level |-> level, time |-> now + 1]]
  BY DEF Connect
<1>2. now \in Nat /\ conn \in [Group -> [User -> Connection]]
  BY DEF TypeInv, TypeOK
<1>3. [level |-> level, time |-> now + 1] \in Connection
  BY <1>2 DEF Connection
<1>4. conn' \in [Group -> [User -> Connection]]
  BY <1>1, <1>2, <1>3
<1>5. now' \in Nat
  BY <1>1, <1>2
<1>6. UNCHANGED <<rvars, files, scorer, snapshot, todo, results, chainView, counters, receiver>>
  BY DEF Connect, rvars
<1> QED  BY <1>4, <1>5, <1>6 DEF TypeInv, TypeOK, StageOK, rvars, results, counters

LEMMA ReceiverTypes ==
  ASSUME TypeInv, Receiver \/ ReceiverFails
  PROVE  TypeInv'
<1> USE DEF TypeInv, TypeOK, chain, rvars, results, counters
<1>1. StageOK'
  BY DEF StageOK, Receiver, ReceiverFails, ReachSnapshot, Dump, Move, SetPrevSnapshotTime, FinishBlock
<1>2. CASE ReachSnapshot
  BY <1>1, <1>2 DEF ReachSnapshot
<1>3. CASE Dump
  <2>1. dump' \in Contents
    BY <1>3 DEF Dump, Contents
  <2> QED  BY <1>1, <1>3, <2>1 DEF Dump
<1>4. CASE Move
  <2>1. files' \subseteq Contents
    BY <1>4 DEF Move
  <2> QED  BY <1>1, <1>4, <2>1 DEF Move
<1>5. CASE SetPrevSnapshotTime
  BY <1>1, <1>5 DEF SetPrevSnapshotTime
<1>6. CASE FinishBlock
  BY <1>1, <1>6 DEF FinishBlock
<1>7. CASE ReceiverFails
  BY <1>1, <1>7 DEF ReceiverFails
<1> QED  BY <1>2, <1>3, <1>4, <1>5, <1>6, <1>7 DEF Receiver

\* The documents RemoveBlock prepares.
LEMMA PreparedType ==
  ASSUME TypeOK, NEW before \in Scores
  PROVE  DocsOf(snapshot.block, SeedConnected(snapshot, before)) \subseteq Connected
<1>1. SeedConnected(snapshot, before) \in Scores
  BY SeedConnectedType
<1>2. snapshot.block \in Nat
  BY DEF TypeOK, Contents
<1> QED  BY <1>1, <1>2, ScoresAre DEF DocsOf, Connected

LEMMA ScorerTypes ==
  ASSUME TypeInv, Scorer \/ ScorerFails
  PROVE  TypeInv'
<1> USE DEF TypeInv, TypeOK, chain, rvars, results, counters
<1>1. snapshot.block \in Nat
  BY DEF Contents
<1>2. CASE Restore \/ NobodyVerified \/ RemoveSnapshot \/ ScorerFails \/ SetVerificationBlock
  <2>1. /\ UNCHANGED <<chain, rvars, todo, connected, verified, hashes>>
        /\ scorer' \in {"idle", "reset", "remove"}
        /\ snapshot' \in Contents /\ files' \subseteq Contents /\ vblock' \in Nat
        /\ failures' \in Nat /\ regrets' \in Nat
    BY <1>1, <1>2 DEF Restore, NobodyVerified, RemoveSnapshot, ScorerFails, SetVerificationBlock
  <2>2. StageOK'
    BY <2>1 DEF StageOK
  <2> QED  BY <2>1, <2>2
<1>3. CASE RemoveBlock
  <2> DEFINE before == IF vblock = snapshot.block THEN NoScores ELSE StoredAt(vblock)
  <2>1. before \in Scores
    BY StoredType, NoScoresAre
  <2>2. todo' = DocsOf(snapshot.block, SeedConnected(snapshot, before))
    BY <1>3 DEF RemoveBlock, DocsOf
  <2>3. todo' \subseteq Connected
    BY <2>1, <2>2, PreparedType
  <2>4. connected' \subseteq Connected /\ verified' \subseteq Verified
    BY <1>3 DEF RemoveBlock
  <2>5. scorer' = "connect" /\ UNCHANGED <<chain, rvars, files, snapshot, hashes, vblock, counters>>
    BY <1>3 DEF RemoveBlock
  <2>6. StageOK'
    BY <2>3, <2>5 DEF StageOK
  <2> QED  BY <2>3, <2>4, <2>5, <2>6
<1>4. CASE InsertConnected
  <2>1. todo \subseteq Connected
    BY <1>4 DEF InsertConnected, StageOK
  <2>2. todo' \subseteq Connected /\ connected' \subseteq Connected
        /\ scorer' = scorer /\ scorer = "connect"
        /\ UNCHANGED <<chain, rvars, files, snapshot, verified, hashes, vblock, counters>>
    BY <1>4, <2>1 DEF InsertConnected
  <2>3. StageOK'
    BY <2>2 DEF StageOK
  <2> QED  BY <2>2, <2>3
<1>5. CASE StartBrightID
  <2>1. Verifiable(snapshot.block) \subseteq User
    BY StoredType, ScoresAre DEF Verifiable
  <2>2. todo' \subseteq Verified /\ scorer' = "verify"
        /\ UNCHANGED <<chain, rvars, files, snapshot, connected, verified, hashes, vblock, counters>>
    BY <1>1, <1>5, <2>1 DEF StartBrightID, Verified
  <2>3. StageOK'
    BY <2>2 DEF StageOK
  <2> QED  BY <2>2, <2>3
<1>6. CASE InsertVerified
  <2>1. todo \subseteq Verified
    BY <1>6 DEF InsertVerified, StageOK
  <2>2. todo' \subseteq Verified /\ verified' \subseteq Verified
        /\ scorer' = scorer /\ scorer = "verify"
        /\ UNCHANGED <<chain, rvars, files, snapshot, connected, hashes, vblock, counters>>
    BY <1>6, <2>1 DEF InsertVerified
  <2>3. StageOK'
    BY <2>2 DEF StageOK
  <2> QED  BY <2>2, <2>3
<1>7. CASE UpdateHashes
  <2>1. DOMAIN hashes' = {snapshot.block, Newest} /\ scorer' = "trim"
        /\ UNCHANGED <<chain, rvars, files, snapshot, todo, connected, verified, vblock, counters>>
    BY <1>7 DEF UpdateHashes
  <2>2. Newest \in Nat
    BY NewestIs
  <2>3. StageOK'
    BY <1>1, <2>1, <2>2 DEF StageOK
  <2> QED  BY <1>1, <2>1, <2>2, <2>3
<1>8. CASE RemoveVerificationsBefore
  <2>1. connected' \subseteq Connected /\ verified' \subseteq Verified /\ scorer' = "advance"
        /\ UNCHANGED <<chain, rvars, files, snapshot, todo, hashes, vblock, counters>>
    BY <1>8 DEF RemoveVerificationsBefore
  <2>2. StageOK'
    BY <2>1 DEF StageOK
  <2> QED  BY <2>1, <2>2
<1> QED  BY <1>2, <1>3, <1>4, <1>5, <1>6, <1>7, <1>8 DEF Scorer

LEMMA TypeStep == TypeInv /\ [Next]_vars => TypeInv'
<1> SUFFICES ASSUME TypeInv, [Next]_vars PROVE TypeInv'
  OBVIOUS
<1>1. CASE UNCHANGED vars
  BY <1>1 DEF vars, chain, rvars, results, counters, TypeInv, TypeOK, StageOK
<1> QED  BY <1>1, ChainTypes, ReceiverTypes, ScorerTypes DEF Next

\* Every variable keeps its type, and a verifier inserts only documents of its own.
THEOREM TypeCorrect == Spec => []TypeOK
<1>1. TypeInv => TypeOK
  BY DEF TypeInv
<1> QED  BY <1>1, TypeInit, TypeStep, PTL DEF Spec
-----------------------------------------------------------------------------
(* The quota.                                                              *)

LEMMA DocsHave ==
  ASSUME NEW b, NEW s, NEW d \in DocsOf(b, s)
  PROVE  /\ d.user \in DOMAIN s /\ d.block = b /\ d.score = s[d.user]
         /\ d = [user |-> d.user, block |-> b, score |-> s[d.user]]
BY DEF DocsOf

LEMMA QuotaInit == Init => QuotaInv
<1> SUFFICES ASSUME Init PROVE QuotaInv
  OBVIOUS
<1>1. \A b : DocsAt(b) = {} /\ scorer # "connect"
  BY DEF Init, DocsAt
<1> QED  BY <1>1, NoScoresAre DEF QuotaInv

\* Documents may always be removed.
LEMMA FewerDocs ==
  ASSUME QuotaInv, connected' \subseteq connected
  PROVE  \A b : \E s \in Scores : WithinQuotas(s) /\ DocsAt(b)' = DocsOf(b, s)
<1> TAKE b
<1>1. PICK s \in Scores : WithinQuotas(s) /\ DocsAt(b) = DocsOf(b, s)
  BY DEF QuotaInv
<1>2. DocsAt(b)' \subseteq DocsOf(b, s)
  BY <1>1 DEF DocsAt
<1> QED  BY <1>1, <1>2, SubDocs

LEMMA RemoveBlockQuota ==
  ASSUME TypeInv, QuotaInv, RemoveBlock
  PROVE  QuotaInv'
<1> DEFINE N == snapshot.block
           before == IF vblock = N THEN NoScores ELSE StoredAt(vblock)
           s == SeedConnected(snapshot, before)
<1>1. /\ connected' = {d \in connected : d.block # N}
      /\ todo' = DocsOf(N, s) /\ snapshot' = snapshot
  BY DEF RemoveBlock, DocsOf
<1>2. before \in Scores /\ WithinQuotas(before)
  <2>1. CASE vblock = N
    BY <2>1, NoScoresAre
  <2>2. CASE vblock # N
    <3>1. PICK r \in Scores : WithinQuotas(r) /\ DocsAt(vblock) = DocsOf(vblock, r)
      BY DEF QuotaInv
    <3>2. StoredAt(vblock) = r
      BY <3>1, StoredIs
    <3> QED  BY <2>2, <3>1, <3>2
  <2> QED  BY <2>1, <2>2
<1> HIDE DEF before
<1>3. Readable(snapshot)
  BY DEF TypeInv, TypeOK, Contents, Readable
<1>4. s \in Scores /\ WithinQuotas(s)
  BY <1>2, <1>3, SeedConnectedType, SeedConnectedQuota
<1> HIDE DEF s
<1>5. DocsAt(N)' \cup todo' = DocsOf(N, s)
  BY <1>1 DEF DocsAt
<1>6. \A b : \E r \in Scores : WithinQuotas(r) /\ DocsAt(b)' = DocsOf(b, r)
  <2>1. connected' \subseteq connected
    BY <1>1
  <2> QED  BY <2>1, FewerDocs
<1> QED  BY <1>1, <1>4, <1>5, <1>6 DEF QuotaInv

LEMMA InsertQuota ==
  ASSUME QuotaInv, InsertConnected
  PROVE  QuotaInv'
<1>1. PICK batch \in SUBSET todo : todo' = todo \ batch /\ connected' = connected \cup batch
  BY DEF InsertConnected
<1>2. scorer = "connect" /\ scorer' = scorer /\ snapshot' = snapshot
  BY DEF InsertConnected
<1>3. PICK s \in Scores : WithinQuotas(s)
                          /\ DocsAt(snapshot.block) \cup todo = DocsOf(snapshot.block, s)
  BY <1>2 DEF QuotaInv
<1>4. \A d \in todo : d.block = snapshot.block
  BY <1>3, DocsHave
<1>5. DocsAt(snapshot.block)' \cup todo' = DocsOf(snapshot.block, s)
  BY <1>1, <1>2, <1>3, <1>4 DEF DocsAt
<1>6. ASSUME NEW b
      PROVE  \E r \in Scores : WithinQuotas(r) /\ DocsAt(b)' = DocsOf(b, r)
  <2>1. CASE b = snapshot.block
    <3>1. DocsAt(b)' \subseteq DocsOf(b, s)
      BY <1>2, <1>5, <2>1
    <3> QED  BY <1>3, <3>1, SubDocs
  <2>2. CASE b # snapshot.block
    <3>1. DocsAt(b)' = DocsAt(b)
      BY <1>1, <1>4, <2>2 DEF DocsAt
    <3> QED  BY <3>1 DEF QuotaInv
  <2> QED  BY <2>1, <2>2
<1> QED  BY <1>2, <1>3, <1>5, <1>6 DEF QuotaInv

LEMMA QuotaStep == TypeInv /\ QuotaInv /\ [Next]_vars => QuotaInv'
<1> SUFFICES ASSUME TypeInv, QuotaInv, [Next]_vars PROVE QuotaInv'
  OBVIOUS
<1>1. CASE UNCHANGED <<connected, todo, scorer, snapshot>>
  BY <1>1 DEF QuotaInv, DocsAt
<1>2. CASE connected' \subseteq connected /\ scorer' # "connect"
  BY <1>2, FewerDocs DEF QuotaInv
<1>3. CASE Scorer \/ ScorerFails
  <2>1. CASE ~RemoveBlock /\ ~InsertConnected
    <3>1. connected' \subseteq connected /\ scorer' # "connect"
      BY <1>3, <2>1 DEF Scorer, ScorerFails, Restore, StartBrightID, InsertVerified, NobodyVerified,
           UpdateHashes, RemoveVerificationsBefore, SetVerificationBlock, RemoveSnapshot, results
    <3> QED  BY <1>2, <3>1
  <2> QED  BY <2>1, RemoveBlockQuota, InsertQuota
<1>4. CASE ~(Scorer \/ ScorerFails)
  BY <1>1, <1>4 DEF Next, vars, results, Connect, Receiver, ReceiverFails, ReachSnapshot, Dump, Move,
       SetPrevSnapshotTime, FinishBlock
<1> QED  BY <1>3, <1>4

\* The documents of a group are those of different users.
LEMMA DocsAsUsers ==
  ASSUME NEW b, NEW g, NEW s \in Scores, DocsAt(b) = DocsOf(b, s)
  PROVE  Cardinality({d \in connected : d.block = b /\ g \in d.score.connected}) = Count(s, g)
<1> DEFINE D == {d \in connected : d.block = b /\ g \in d.score.connected}
           U == {u \in DOMAIN s : g \in s[u].connected}
           f == [u \in U |-> [user |-> u, block |-> b, score |-> s[u]]]
<1>1. \A d : d \in D <=> \E u \in U : d = [user |-> u, block |-> b, score |-> s[u]]
  <2>1. \A d : d \in D <=> d \in DocsAt(b) /\ g \in d.score.connected
    BY DEF DocsAt
  <2>2. ASSUME NEW d \in D
        PROVE  \E u \in U : d = [user |-> u, block |-> b, score |-> s[u]]
    <3>1. d \in DocsOf(b, s) /\ g \in d.score.connected
      BY <2>1
    <3> QED  BY <3>1, DocsHave
  <2>3. ASSUME NEW u \in U
        PROVE  [user |-> u, block |-> b, score |-> s[u]] \in D
    BY <2>1 DEF DocsOf
  <2> QED  BY <2>2, <2>3
<1>2. f \in Bijection(U, D)
  <2>1. f \in [U -> D]
    BY <1>1
  <2>2. \A u, v \in U : f[u] = f[v] => u = v
    <3>1. \A u \in U : f[u].user = u
      OBVIOUS
    <3> QED  BY <3>1
  <2>3. \A d \in D : \E u \in U : f[u] = d
    BY <1>1
  <2> HIDE DEF f, U, D
  <2> QED  BY <2>1, <2>2, <2>3 DEF Bijection, Injection, Surjection, IsInjective
<1>3. IsFiniteSet(U) /\ Count(s, g) = Cardinality(U)
  BY CountType DEF Count
<1> HIDE DEF f, U, D
<1>4. Cardinality(D) = Cardinality(U)
  BY <1>2, <1>3, FS_Bijection DEF ExistsBijection
<1> QED  BY <1>3, <1>4 DEF D

LEMMA QuotaFollows == QuotaInv => QuotaKept
<1> SUFFICES ASSUME QuotaInv, NEW b \in 0..MaxSnapshots, NEW g \in Group
             PROVE  Cardinality({d \in connected : d.block = b /\ g \in d.score.connected}) <= Quota[g]
  BY DEF QuotaKept
<1>1. PICK s \in Scores : WithinQuotas(s) /\ DocsAt(b) = DocsOf(b, s)
  BY DEF QuotaInv
<1> QED  BY <1>1, DocsAsUsers DEF WithinQuotas

\* No group verifies more users than its quota over all blocks, for any number of
\* users, groups and snapshots, and whatever fails and is tried again.
THEOREM QuotasAreKept == Spec => []QuotaKept
<1>1. Init => TypeInv /\ QuotaInv
  BY TypeInit, QuotaInit
<1>2. TypeInv /\ QuotaInv /\ [Next]_vars => (TypeInv /\ QuotaInv)'
  BY TypeStep, QuotaStep
<1> QED  BY <1>1, <1>2, QuotaFollows, PTL DEF Spec
-----------------------------------------------------------------------------
(* The views of the chain.                                                 *)

LEMMA ChainInit == Init => ChainInv
<1> SUFFICES ASSUME Init PROVE ChainInv
  OBVIOUS
<1>1. chainView = <<>> /\ Reached = 0
  BY DEF Init, Reached
<1> QED  BY <1>1, EmptySeq DEF ChainInv

LEMMA ViewType ==
  ASSUME ChainInv, NEW b \in 0..Len(chainView)
  PROVE  View(b) \in Scores
<1>1. CASE b = 0
  BY <1>1, NoScoresAre DEF View
<1>2. CASE b # 0
  <2>1. b \in 1..Len(chainView)
    BY <1>2
  <2>2. chainView[b] \in Scores
    BY <2>1 DEF ChainInv
  <2> QED  BY <1>2, <2>2 DEF View
<1> QED  BY <1>1, <1>2

\* A new snapshot adds its view.
LEMMA ReachedView ==
  ASSUME TypeInv, ChainInv, ReachSnapshot
  PROVE  /\ chainView' \in Seq(Scores) /\ Len(chainView') = Len(chainView) + 1
         /\ Len(chainView) = lastBlock
         /\ \A b \in 1..Len(chainView) : chainView'[b] = chainView[b]
         /\ chainView'[lastBlock + 1] =
              SeedConnected([conn |-> conn, prev |-> prevTime], View(lastBlock))
<1> DEFINE new == SeedConnected([conn |-> conn, prev |-> prevTime], View(lastBlock))
<1>1. receiver = "blocks" /\ Len(chainView) = lastBlock /\ lastBlock \in Nat
  BY DEF ReachSnapshot, ChainInv, Reached, TypeInv, TypeOK
<1>2. chainView' = Append(chainView, new)
  <2>1. (IF chainView = <<>> THEN NoScores ELSE chainView[Len(chainView)]) = View(lastBlock)
    <3>1. chainView = <<>> <=> lastBlock = 0
      BY <1>1, EmptySeq DEF ChainInv
    <3> QED  BY <1>1, <3>1 DEF View
  <2> QED  BY <2>1 DEF ReachSnapshot
<1>3. new \in Scores
  <2>1. View(lastBlock) \in Scores
    BY <1>1, ViewType
  <2> QED  BY <2>1, SeedConnectedType
<1> HIDE DEF new
<1>4. chainView \in Seq(Scores)
  BY DEF ChainInv
<1>5. /\ Len(chainView') = Len(chainView) + 1 /\ chainView' \in Seq(Scores)
      /\ \A b \in 1..Len(chainView) : chainView'[b] = chainView[b]
      /\ chainView'[Len(chainView) + 1] = new
  BY <1>2, <1>3, <1>4, AppendProperties
<1> QED  BY <1>1, <1>5 DEF new

LEMMA ChainStep == TypeInv /\ ChainInv /\ [Next]_vars => ChainInv'
<1> SUFFICES ASSUME TypeInv, ChainInv, [Next]_vars PROVE ChainInv'
  OBVIOUS
<1>1. CASE ReachSnapshot
  <2>1. Reached' = lastBlock + 1
    BY <1>1 DEF ReachSnapshot, Reached
  <2> QED  BY <1>1, <2>1, ReachedView DEF ChainInv
<1>2. CASE ~ReachSnapshot
  <2>1. chainView' = chainView
    BY <1>2 DEF Next, vars, Connect, Receiver, Dump, Move, SetPrevSnapshotTime, FinishBlock,
         ReceiverFails, Scorer, ScorerFails, Restore, RemoveBlock, InsertConnected, StartBrightID,
         InsertVerified, NobodyVerified, UpdateHashes, RemoveVerificationsBefore,
         SetVerificationBlock, RemoveSnapshot
  <2>2. CASE UNCHANGED <<receiver, lastBlock>>
    BY <2>1, <2>2 DEF ChainInv, Reached
  <2>3. CASE Dump \/ Move \/ SetPrevSnapshotTime \/ FinishBlock \/ ReceiverFails
    <3>1. Reached' = Reached
      BY <2>3 DEF Dump, Move, SetPrevSnapshotTime, FinishBlock, ReceiverFails, Reached
    <3> QED  BY <2>1, <3>1 DEF ChainInv
  <2>4. UNCHANGED <<receiver, lastBlock>>
        \/ Dump \/ Move \/ SetPrevSnapshotTime \/ FinishBlock \/ ReceiverFails
    BY <1>2 DEF Next, vars, rvars, Connect, Receiver, Scorer, ScorerFails, Restore, RemoveBlock,
         InsertConnected, StartBrightID, InsertVerified, NobodyVerified, UpdateHashes,
         RemoveVerificationsBefore, SetVerificationBlock, RemoveSnapshot
  <2> QED  BY <2>2, <2>3, <2>4
<1> QED  BY <1>1, <1>2

\* A view that is there does not change.
ViewsStay ==
  /\ Len(chainView) <= Len(chainView')
  /\ \A b \in 0..Len(chainView) : View(b)' = View(b) /\ Deserving(b)' = Deserving(b)
  /\ \A s : Good(s) => Good(s)'

LEMMA ViewsDoStay ==
  ASSUME TypeInv, ChainInv, chainView' = chainView \/ ReachSnapshot
  PROVE  ViewsStay
<1>1. CASE chainView' = chainView
  <2>1. Len(chainView) <= Len(chainView')
    BY <1>1 DEF ChainInv
  <2> QED  BY <1>1, <2>1 DEF ViewsStay, View, Deserving, Good
<1>2. CASE ReachSnapshot
  <2>1. /\ Len(chainView') = Len(chainView) + 1 /\ Len(chainView) \in Nat
        /\ \A b \in 1..Len(chainView) : chainView'[b] = chainView[b]
    BY <1>2, ReachedView DEF ChainInv
  <2>2. \A b \in 0..Len(chainView) : View(b)' = View(b) /\ Deserving(b)' = Deserving(b)
    <3> TAKE b \in 0..Len(chainView)
    <3>1. CASE b = 0
      BY <3>1 DEF View, Deserving
    <3>2. CASE b # 0
      <4>1. chainView'[b] = chainView[b]
        BY <2>1, <3>2
      <4> QED  BY <3>2, <4>1 DEF View, Deserving
    <3> QED  BY <3>1, <3>2
  <2>3. ASSUME NEW s, Good(s)
        PROVE  Good(s)'
    <3>1. s.block \in 1..Len(chainView) /\ s.block - 1 \in 0..Len(chainView)
      BY <2>1, <2>3 DEF Good
    <3> QED  BY <2>1, <2>2, <2>3, <3>1 DEF Good
  <2> QED  BY <2>1, <2>2, <2>3 DEF ViewsStay
<1> QED  BY <1>1, <1>2
-----------------------------------------------------------------------------
(* What receiver and scorer have done, as long as nothing finished is done  *)
(* again.                                                                  *)

Follow == HandOver /\ Turn /\ Published /\ InProgress

LEMMA FollowInit == Init => FollowInv
<1> SUFFICES ASSUME Init PROVE Follow
  BY DEF FollowInv, Follow
<1>1. /\ receiver = "blocks" /\ scorer = "idle" /\ files = {} /\ vblock = 0 /\ lastBlock = 0
      /\ DOMAIN hashes = {0} /\ hashes[0] = {} /\ connected = {} /\ verified = {}
  BY DEF Init
<1>2. {f.block : f \in files} = (Removed + 1)..Moved
  BY <1>1 DEF Removed, Moved
<1>3. HandOver
  BY <1>1, <1>2 DEF HandOver, Moved
<1>4. HashOf(View(0)) = {} /\ DocsOf(0, View(0)) = {} /\ Deserving(0) = {}
  BY NoScoresAre DEF HashOf, View, Deserving
<1>5. Published
  BY <1>1, <1>4 DEF Published, Publishing, DocsAt, VerifiedAt
<1>6. Turn /\ InProgress
  BY <1>1 DEF Turn, Busy, InProgress
<1> QED  BY <1>3, <1>5, <1>6 DEF Follow

\* Nobody goes further than the chain.
LEMMA Bounds ==
  ASSUME TypeInv, ChainInv, Follow
  PROVE  /\ vblock \in 0..Len(chainView) /\ Moved \in 0..Len(chainView)
         /\ lastBlock \in Nat /\ Removed \in Int
         /\ receiver # "blocks" => Len(chainView) = lastBlock + 1
         /\ \A b \in DOMAIN hashes : b \in 0..Len(chainView)
         /\ Busy => /\ Good(snapshot) /\ snapshot.block \in 1..Len(chainView)
                    /\ snapshot.block <= Moved
<1>1. /\ vblock \in Nat /\ lastBlock \in Nat /\ vblock <= Moved
      /\ receiver \in {"blocks", "dump", "move", "time", "finish"}
  BY DEF TypeInv, TypeOK, Follow, HandOver
<1>2. Len(chainView) = Reached /\ Moved <= Reached /\ Moved \in Nat /\ Reached \in Nat
  BY <1>1 DEF ChainInv, Moved, Reached
<1>3. ASSUME Busy
      PROVE  Good(snapshot) /\ snapshot.block \in 1..Len(chainView) /\ snapshot.block <= Moved
  <2>1. snapshot \in files
    BY <1>3 DEF Follow, Turn
  <2>2. Good(snapshot) /\ snapshot.block \in (Removed + 1)..Moved
    BY <2>1 DEF Follow, HandOver
  <2> QED  BY <2>2 DEF Good
<1>4. ASSUME NEW b \in DOMAIN hashes
      PROVE  b \in 0..Len(chainView)
  <2>1. b \in Nat
    BY <1>4 DEF TypeInv, TypeOK
  <2>2. CASE Publishing
    <3>1. Busy /\ snapshot.block = vblock + 1
      BY <2>2 DEF Publishing, Busy, Follow, Turn
    <3>2. b \in {vblock, vblock + 1}
      BY <1>4, <2>2 DEF Follow, Published
    <3> QED  BY <1>1, <1>2, <1>3, <2>1, <3>1, <3>2
  <2>3. CASE ~Publishing
    <3>1. b \in {vblock - 1, vblock}
      BY <1>4, <2>3 DEF Follow, Published
    <3> QED  BY <1>1, <1>2, <2>1, <3>1
  <2> QED  BY <2>2, <2>3
<1> QED  BY <1>1, <1>2, <1>3, <1>4 DEF Removed, Reached

\* The receiver and the chain touch nothing of the scorer's.
LEMMA ScorerUntouched ==
  ASSUME TypeInv, ChainInv, Follow, ViewsStay,
         UNCHANGED <<scorer, snapshot, todo, connected, verified, hashes, vblock>>,
         files \subseteq files'
  PROVE  (Turn /\ Published /\ InProgress)'
<1>1. Turn'
  BY DEF Follow, Turn, Busy
<1>2. \A b : DocsAt(b)' = DocsAt(b) /\ VerifiedAt(b)' = VerifiedAt(b)
  BY DEF DocsAt, VerifiedAt
<1>3. Published'
  <2>1. \A b \in DOMAIN hashes : View(b)' = View(b) /\ Deserving(b)' = Deserving(b)
    BY Bounds DEF ViewsStay
  <2>2. \A b \in DOMAIN hashes : HashOf(View(b))' = HashOf(View(b))
                                 /\ DocsOf(b, View(b))' = DocsOf(b, View(b))
    BY <2>1 DEF HashOf, DocsOf
  <2> QED  BY <1>2, <2>1, <2>2 DEF Follow, Published, Publishing
<1>4. InProgress'
  <2>1. CASE ~Busy
    BY <2>1 DEF InProgress, Busy
  <2>2. CASE Busy
    <3>1. snapshot.block \in 0..Len(chainView)
      BY <2>2, Bounds
    <3>2. View(snapshot.block)' = View(snapshot.block)
          /\ Deserving(snapshot.block)' = Deserving(snapshot.block)
      BY <3>1 DEF ViewsStay
    <3>3. DocsOf(snapshot.block, View(snapshot.block))' = DocsOf(snapshot.block, View(snapshot.block))
      BY <3>2 DEF DocsOf
    <3> QED  BY <1>2, <3>2, <3>3 DEF Follow, InProgress
  <2> QED  BY <2>1, <2>2
<1> QED  BY <1>1, <1>3, <1>4

LEMMA ReceiverFollows ==
  ASSUME TypeInv, ChainInv, Follow, regrets' = 0,
         Receiver \/ ReceiverFails
         \/ \E g \in Group, u \in User, level \in Level \ {"none"} : Connect(g, u, level)
  PROVE  Follow'
<1>1. UNCHANGED <<scorer, snapshot, todo, connected, verified, hashes, vblock>> /\ Removed' = Removed
  BY DEF Receiver, ReceiverFails, Connect, ReachSnapshot, Dump, Move, SetPrevSnapshotTime,
         FinishBlock, results, Removed
<1>2. ViewsStay
  BY ViewsDoStay DEF Receiver, ReceiverFails, Connect, Dump, Move, SetPrevSnapshotTime, FinishBlock
<1>3. /\ lastBlock \in Nat
      /\ receiver # "blocks" => Len(chainView) = lastBlock + 1
      /\ \A f \in files : Good(f)
      /\ \A e, f \in files : e.block = f.block => e = f
      /\ {f.block : f \in files} = (Removed + 1)..Moved
      /\ vblock <= Moved /\ vblock \in Nat /\ Removed \in Int /\ Moved \in Nat
  BY Bounds DEF Follow, HandOver
<1>4. \A s : Good(s) => Good(s)'
  BY <1>2 DEF ViewsStay
<1>5. CASE files' = files /\ Moved' = Moved /\ receiver' \notin {"dump", "move"}
  <2>1. HandOver'
    BY <1>1, <1>3, <1>4, <1>5 DEF HandOver
  <2> QED  BY <1>1, <1>2, <1>5, <2>1, ScorerUntouched DEF Follow
<1>6. CASE ReachSnapshot
  <2>1. receiver = "blocks" /\ receiver' = "dump" /\ Moved' = Moved
        /\ UNCHANGED <<conn, prevTime, lastBlock, files>>
    BY <1>6 DEF ReachSnapshot, Moved, chain
  <2>2. chainView'[lastBlock + 1] =
          SeedConnected([conn |-> conn, prev |-> prevTime], View(lastBlock))
    BY <1>6, ReachedView
  <2>3. View(lastBlock)' = View(lastBlock)
    <3> DEFINE n == Len(chainView)
    <3>1. n = lastBlock /\ lastBlock \in Nat
      BY <1>3, <1>6, ReachedView
    <3> HIDE DEF n
    <3>2. lastBlock \in 0..n
      BY <3>1
    <3> QED  BY <1>2, <2>1, <3>2 DEF ViewsStay, n
  <2>4. HandOver'
    BY <1>1, <1>3, <1>4, <2>1, <2>2, <2>3 DEF HandOver
  <2> QED  BY <1>1, <1>2, <2>1, <2>4, ScorerUntouched DEF Follow
<1>7. CASE Dump
  <2>1. /\ receiver = "dump" /\ receiver' = "move" /\ Moved' = Moved
        /\ UNCHANGED <<conn, prevTime, lastBlock, files, chainView>>
        /\ dump' = [block |-> lastBlock + 1, conn |-> conn, prev |-> prevTime]
    BY <1>7 DEF Dump, Moved, chain
  <2>2. chainView[lastBlock + 1] =
          SeedConnected([conn |-> conn, prev |-> prevTime], View(lastBlock))
    BY <2>1 DEF Follow, HandOver
  <2>3. SeedConnected(dump', View(lastBlock)) =
          SeedConnected([conn |-> conn, prev |-> prevTime], View(lastBlock))
    BY <2>1, SeedConnectedReads
  <2>4. View(lastBlock)' = View(lastBlock) /\ (lastBlock + 1) - 1 = lastBlock
        /\ lastBlock + 1 \in 1..Len(chainView)
    BY <1>3, <2>1 DEF View
  <2>5. Good(dump)'
    BY <2>1, <2>2, <2>3, <2>4 DEF Good
  <2>6. HandOver'
    BY <1>1, <1>3, <1>4, <2>1, <2>2, <2>4, <2>5 DEF HandOver
  <2> QED  BY <1>1, <1>2, <2>1, <2>6, ScorerUntouched DEF Follow
<1>8. CASE Move
  <2>1. /\ receiver = "move" /\ receiver' = "time" /\ UNCHANGED <<lastBlock, chainView>>
        /\ Moved = lastBlock /\ Moved' = lastBlock + 1
    BY <1>8 DEF Move, Moved
  <2>2. dump.block = lastBlock + 1 /\ Good(dump)
    BY <2>1 DEF Follow, HandOver
  <2>3. \A f \in files : f.block # dump.block
    <3>1. \A x \in (Removed + 1)..Moved : x # lastBlock + 1
      BY <1>3, <2>1
    <3> QED  BY <1>3, <2>2, <3>1
  <2>4. files' = files \cup {dump}
    BY <1>8, <2>3 DEF Move
  <2>5. {f.block : f \in files'} = (Removed + 1)..(lastBlock + 1)
    <3>1. {f.block : f \in files'} = {f.block : f \in files} \cup {lastBlock + 1}
      BY <2>2, <2>4
    <3>2. ((Removed + 1)..lastBlock) \cup {lastBlock + 1} = (Removed + 1)..(lastBlock + 1)
      <4>1. Removed <= lastBlock
        BY <1>3, <2>1 DEF Removed
      <4> QED  BY <1>3, <4>1
    <3> QED  BY <1>3, <2>1, <3>1, <3>2
  <2>6. HandOver'
    <3>1. \A f \in files' : Good(f)'
      BY <1>3, <1>4, <2>2, <2>4
    <3>2. \A e, f \in files' : e.block = f.block => e = f
      BY <1>3, <2>3, <2>4
    <3>3. vblock' <= Moved'
      BY <1>1, <1>3, <2>1
    <3> QED  BY <1>1, <2>1, <2>5, <3>1, <3>2, <3>3 DEF HandOver
  <2> QED  BY <1>1, <1>2, <2>4, <2>6, ScorerUntouched DEF Follow
<1>9. CASE ReceiverFails
  <2>1. regrets \in Nat
    BY DEF TypeInv, TypeOK
  <2>2. receiver \in {"dump", "move"} /\ receiver' = "dump"
        /\ UNCHANGED <<conn, prevTime, lastBlock, files, chainView>>
    BY <1>9, <2>1 DEF ReceiverFails, TypeInv, TypeOK, chain
  <2>3. Moved' = Moved
    BY <2>2 DEF Moved
  <2>4. View(lastBlock)' = View(lastBlock)
    BY <2>2 DEF View
  <2>5. HandOver'
    BY <1>1, <1>3, <1>4, <2>2, <2>3, <2>4 DEF Follow, HandOver
  <2> QED  BY <1>1, <1>2, <2>2, <2>5, ScorerUntouched DEF Follow
<1>10. CASE SetPrevSnapshotTime \/ FinishBlock
           \/ \E g \in Group, u \in User, level \in Level \ {"none"} : Connect(g, u, level)
  <2>1. files' = files /\ receiver' \notin {"dump", "move"}
    BY <1>10 DEF SetPrevSnapshotTime, FinishBlock, Connect, rvars
  <2>2. Moved' = Moved
    BY <1>10 DEF SetPrevSnapshotTime, FinishBlock, Connect, rvars, Moved
  <2> QED  BY <1>5, <2>1, <2>2
<1> QED  BY <1>6, <1>7, <1>8, <1>9, <1>10 DEF Receiver
\* The scorer touches nothing of the chain's and the receiver's.
LEMMA HandOverUntouched ==
  ASSUME HandOver, UNCHANGED <<chain, rvars, files, chainView>>, Removed' = Removed, vblock' <= Moved
  PROVE  HandOver'
<1>1. UNCHANGED <<conn, prevTime, lastBlock, receiver, dump>>
  BY DEF chain, rvars
<1>2. Moved' = Moved
  BY <1>1 DEF Moved
<1> QED  BY <1>1, <1>2 DEF HandOver, Good, View

\* A step that leaves the published blocks alone.
LEMMA PublishedUntouched ==
  ASSUME Published, UNCHANGED <<chainView, hashes, vblock>>, Publishing' = Publishing,
         \A b \in DOMAIN hashes : DocsAt(b)' = DocsAt(b) /\ VerifiedAt(b)' = VerifiedAt(b)
  PROVE  Published'
BY DEF Published, Deserving, DocsOf, HashOf, View

LEMMA RestoreFollows ==
  ASSUME TypeInv, ChainInv, Follow, Restore
  PROVE  Follow'
<1>1. /\ scorer = "idle" /\ scorer' = "reset" /\ snapshot' \in files
      /\ \A f \in files : snapshot'.block <= f.block
      /\ UNCHANGED <<chain, rvars, files, chainView, connected, verified, hashes, vblock>>
  BY DEF Restore, results
<1>2. HandOver'
  <2>1. Removed' = Removed /\ vblock' <= Moved
    BY <1>1 DEF Removed, Follow, HandOver
  <2> QED  BY <1>1, <2>1, HandOverUntouched DEF Follow
<1>3. snapshot'.block = vblock + 1
  <2>1. {f.block : f \in files} = (vblock + 1)..Moved /\ vblock \in Nat /\ Moved \in Nat
    BY <1>1, Bounds DEF Follow, HandOver, Removed
  <2>2. snapshot'.block \in (vblock + 1)..Moved
    BY <1>1, <2>1
  <2>3. vblock + 1 \in (vblock + 1)..Moved
    BY <2>1, <2>2
  <2>4. snapshot'.block <= vblock + 1
    BY <1>1, <2>1, <2>3
  <2> QED  BY <2>1, <2>2, <2>4
<1>4. Turn' /\ InProgress'
  BY <1>1, <1>3 DEF Turn, Busy, InProgress
<1>5. Published'
  BY <1>1, PublishedUntouched DEF Follow, Publishing, DocsAt, VerifiedAt
<1> QED  BY <1>2, <1>3, <1>4, <1>5 DEF Follow

\* What the steps of a block in progress have in common.
LEMMA Working ==
  ASSUME TypeInv, ChainInv, Follow, scorer \in {"reset", "connect", "verify"}
  PROVE  /\ snapshot.block = vblock + 1 /\ snapshot.block \in 1..Len(chainView)
         /\ snapshot.block \notin DOMAIN hashes
         /\ vblock \in Nat /\ vblock \in DOMAIN hashes /\ Newest = vblock
         /\ StoredAt(vblock) = View(vblock)
         /\ chainView[snapshot.block] = SeedConnected(snapshot, View(vblock))
         /\ View(snapshot.block) = chainView[snapshot.block]
         /\ View(snapshot.block) \in Scores
<1>1. /\ snapshot.block = vblock + 1 /\ Good(snapshot) /\ snapshot.block \in 1..Len(chainView)
      /\ vblock \in Nat /\ vblock \in 0..Len(chainView)
  BY Bounds DEF Follow, Turn, Busy
<1>2. vblock \in DOMAIN hashes /\ DOMAIN hashes \subseteq {vblock - 1, vblock}
  BY DEF Follow, Published, Publishing
<1>3. snapshot.block \notin DOMAIN hashes
  BY <1>1, <1>2
<1>4. Newest = vblock
  <2>1. Newest \in DOMAIN hashes /\ Newest \in Nat /\ vblock <= Newest
    BY <1>2, NewestIs
  <2> QED  BY <1>1, <1>2, <2>1
<1>5. StoredAt(vblock) = View(vblock)
  <2>1. View(vblock) \in Scores
    BY <1>1, ViewType
  <2>2. DocsAt(vblock) = DocsOf(vblock, View(vblock))
    BY <1>2 DEF Follow, Published
  <2> QED  BY <2>1, <2>2, StoredIs
<1>6. chainView[snapshot.block] = SeedConnected(snapshot, View(vblock))
  <2>1. snapshot.block - 1 = vblock
    BY <1>1
  <2> QED  BY <1>1, <2>1 DEF Good
<1>7. View(snapshot.block) = chainView[snapshot.block]
  BY <1>1 DEF View
<1>8. View(snapshot.block) \in Scores
  <2>1. snapshot.block \in 0..Len(chainView)
    BY <1>1
  <2> QED  BY <2>1, ViewType
<1> QED  BY <1>1, <1>2, <1>3, <1>4, <1>5, <1>6, <1>7, <1>8

\* A step of a block in progress leaves everything but its documents alone.
LEMMA WorkFollows ==
  ASSUME TypeInv, ChainInv, Follow, scorer \in {"reset", "connect", "verify"},
         scorer' \in {"idle", "connect", "verify"},
         UNCHANGED <<chain, rvars, files, snapshot, hashes, vblock, chainView>>,
         \A b : b # snapshot.block => DocsAt(b)' = DocsAt(b) /\ VerifiedAt(b)' = VerifiedAt(b),
         InProgress'
  PROVE  Follow'
<1>1. HandOver'
  <2>1. Removed' = Removed /\ vblock' <= Moved
    BY DEF Removed, Follow, HandOver
  <2> QED  BY <2>1, HandOverUntouched DEF Follow
<1>2. Turn'
  BY DEF Follow, Turn, Busy
<1>3. Published'
  <2>1. \A b \in DOMAIN hashes : b # snapshot.block
    BY Working
  <2>2. Publishing' = Publishing
    BY DEF Publishing
  <2> QED  BY <2>1, <2>2, PublishedUntouched DEF Follow
<1> QED  BY <1>1, <1>2, <1>3 DEF Follow

LEMMA RemoveBlockFollows ==
  ASSUME TypeInv, ChainInv, Follow, RemoveBlock
  PROVE  Follow'
<1> DEFINE N == snapshot.block
<1>1. /\ scorer = "reset" /\ scorer' = "connect"
      /\ connected' = {d \in connected : d.block # N}
      /\ verified' = {d \in verified : d.block # N}
      /\ UNCHANGED <<chain, rvars, files, snapshot, hashes, vblock, chainView>>
  BY DEF RemoveBlock
<1>2. todo' = DocsOf(N, View(N))
  <2>1. N # vblock /\ StoredAt(vblock) = View(vblock) /\ View(N) = SeedConnected(snapshot, View(vblock))
    BY <1>1, Working
  <2>2. todo' = DocsOf(N, SeedConnected(snapshot, StoredAt(vblock)))
    BY <2>1 DEF RemoveBlock, DocsOf
  <2> QED  BY <2>1, <2>2
<1>3. DocsAt(N)' = {} /\ VerifiedAt(N)' = {}
  BY <1>1 DEF DocsAt, VerifiedAt
<1>4. InProgress'
  BY <1>1, <1>2, <1>3 DEF InProgress, DocsOf, View
<1>5. \A b : b # N => DocsAt(b)' = DocsAt(b) /\ VerifiedAt(b)' = VerifiedAt(b)
  BY <1>1 DEF DocsAt, VerifiedAt
<1> QED  BY <1>1, <1>4, <1>5, WorkFollows

LEMMA InsertConnectedFollows ==
  ASSUME TypeInv, ChainInv, Follow, InsertConnected
  PROVE  Follow'
<1> DEFINE N == snapshot.block
<1>1. /\ scorer = "connect" /\ scorer' = "connect"
      /\ UNCHANGED <<chain, rvars, files, snapshot, verified, hashes, vblock, chainView>>
  BY DEF InsertConnected
<1>2. PICK batch \in SUBSET todo : todo' = todo \ batch /\ connected' = connected \cup batch
  BY DEF InsertConnected
<1>3. DocsAt(N) \cup todo = DocsOf(N, View(N)) /\ VerifiedAt(N) = {}
  BY <1>1 DEF Follow, InProgress
<1>4. \A d \in todo : d.block = N
  BY <1>3, DocsHave
<1>5. DocsAt(N)' \cup todo' = DocsAt(N) \cup todo
  BY <1>1, <1>2, <1>4 DEF DocsAt
<1>6. \A b : VerifiedAt(b)' = VerifiedAt(b) /\ (b # N => DocsAt(b)' = DocsAt(b))
  BY <1>1, <1>2, <1>4 DEF DocsAt, VerifiedAt
<1>7. InProgress'
  <2>1. DocsOf(N, View(N))' = DocsOf(N, View(N))
    BY <1>1 DEF DocsOf, View
  <2> QED  BY <1>1, <1>3, <1>5, <1>6, <2>1 DEF InProgress
<1> QED  BY <1>1, <1>6, <1>7, WorkFollows

LEMMA StartBrightIDFollows ==
  ASSUME TypeInv, ChainInv, Follow, StartBrightID
  PROVE  Follow'
<1> DEFINE N == snapshot.block
<1>1. /\ scorer = "connect" /\ scorer' = "verify" /\ todo = {}
      /\ todo' = {[user |-> u, block |-> N] : u \in Verifiable(N)}
      /\ UNCHANGED <<chain, rvars, files, snapshot, connected, verified, hashes, vblock, chainView>>
  BY DEF StartBrightID, results
<1>2. DocsAt(N) = DocsOf(N, View(N)) /\ VerifiedAt(N) = {}
  BY <1>1 DEF Follow, InProgress
<1>3. Verifiable(N) = Deserving(N)
  <2>1. StoredAt(N) = View(N) /\ N # 0 /\ View(N) = chainView[N]
    BY <1>1, <1>2, Working, StoredIs
  <2> QED  BY <2>1 DEF Verifiable, Deserving
<1>4. {t.user : t \in todo'} = Deserving(N) /\ \A t \in todo' : t.block = N
  <2>1. \A t \in todo' : t.block = N /\ t.user \in Deserving(N)
    BY <1>1, <1>3
  <2>2. ASSUME NEW u \in Deserving(N)
        PROVE  \E t \in todo' : t.user = u
    <3>1. [user |-> u, block |-> N] \in todo'
      BY <1>1, <1>3
    <3> QED  BY <3>1
  <2> QED  BY <2>1, <2>2
<1>5. \A b : DocsAt(b)' = DocsAt(b) /\ VerifiedAt(b)' = VerifiedAt(b)
  BY <1>1 DEF DocsAt, VerifiedAt
<1>6. InProgress'
  <2>1. DocsOf(N, View(N))' = DocsOf(N, View(N)) /\ Deserving(N)' = Deserving(N)
    BY <1>1 DEF DocsOf, View, Deserving
  <2> QED  BY <1>1, <1>2, <1>4, <1>5, <2>1 DEF InProgress
<1> QED  BY <1>1, <1>5, <1>6, WorkFollows

LEMMA InsertVerifiedFollows ==
  ASSUME TypeInv, ChainInv, Follow, InsertVerified
  PROVE  Follow'
<1> DEFINE N == snapshot.block
<1>1. /\ scorer = "verify" /\ scorer' = "verify"
      /\ UNCHANGED <<chain, rvars, files, snapshot, connected, hashes, vblock, chainView>>
  BY DEF InsertVerified
<1>2. PICK batch \in SUBSET todo : todo' = todo \ batch /\ verified' = verified \cup batch
  BY DEF InsertVerified
<1>3. /\ DocsAt(N) = DocsOf(N, View(N))
      /\ \A t \in todo : t.block = N
      /\ VerifiedAt(N) \cup {t.user : t \in todo} = Deserving(N)
  BY <1>1 DEF Follow, InProgress
<1>4. VerifiedAt(N)' = VerifiedAt(N) \cup {t.user : t \in batch}
  BY <1>1, <1>2, <1>3 DEF VerifiedAt
<1>5. \A b : DocsAt(b)' = DocsAt(b) /\ (b # N => VerifiedAt(b)' = VerifiedAt(b))
  BY <1>1, <1>2, <1>3 DEF DocsAt, VerifiedAt
<1>6. InProgress'
  <2>1. DocsOf(N, View(N))' = DocsOf(N, View(N)) /\ Deserving(N)' = Deserving(N)
    BY <1>1 DEF DocsOf, View, Deserving
  <2>2. VerifiedAt(N)' \cup {t.user : t \in todo'} = Deserving(N)
    BY <1>2, <1>3, <1>4
  <2> QED  BY <1>1, <1>2, <1>3, <1>5, <2>1, <2>2 DEF InProgress
<1> QED  BY <1>1, <1>5, <1>6, WorkFollows

LEMMA UpdateHashesFollows ==
  ASSUME TypeInv, ChainInv, Follow, UpdateHashes
  PROVE  Follow'
<1> DEFINE N == snapshot.block
<1>1. /\ scorer = "verify" /\ scorer' = "trim" /\ todo = {}
      /\ UNCHANGED <<chain, rvars, files, snapshot, connected, verified, vblock, chainView>>
      /\ hashes' = [b \in {N, Newest} |-> IF b = Newest THEN hashes[b] ELSE HashOf(StoredAt(b))]
  BY DEF UpdateHashes
<1>2. /\ DocsAt(N) = DocsOf(N, View(N))
      /\ VerifiedAt(N) = Deserving(N)
  BY <1>1 DEF Follow, InProgress
<1>3. /\ N = vblock + 1 /\ vblock \in Nat /\ Newest = vblock /\ vblock \in DOMAIN hashes
      /\ View(N) \in Scores
  BY <1>1, Working
<1>4. /\ DOMAIN hashes' = {vblock, vblock + 1} /\ hashes'[vblock] = hashes[vblock]
      /\ hashes'[N] = HashOf(View(N))
  <2>1. StoredAt(N) = View(N)
    BY <1>2, <1>3, StoredIs
  <2> QED  BY <1>1, <1>3, <2>1
<1>5. \A b : /\ DocsAt(b)' = DocsAt(b) /\ VerifiedAt(b)' = VerifiedAt(b) /\ View(b)' = View(b)
             /\ Deserving(b)' = Deserving(b) /\ DocsOf(b, View(b))' = DocsOf(b, View(b))
             /\ HashOf(View(b))' = HashOf(View(b))
  BY <1>1 DEF DocsAt, VerifiedAt, View, Deserving, DocsOf, HashOf
<1>6. Published'
  <2>1. Publishing'
    BY <1>1 DEF Publishing
  <2>2. /\ DocsAt(vblock) = DocsOf(vblock, View(vblock)) /\ VerifiedAt(vblock) = Deserving(vblock)
        /\ hashes[vblock] = HashOf(View(vblock))
    BY <1>3 DEF Follow, Published
  <2> QED  BY <1>1, <1>2, <1>3, <1>4, <1>5, <2>1, <2>2 DEF Published
<1>7. HandOver'
  <2>1. Removed' = Removed /\ vblock' <= Moved
    BY <1>1 DEF Removed, Follow, HandOver
  <2> QED  BY <1>1, <2>1, HandOverUntouched DEF Follow
<1>8. Turn' /\ InProgress'
  BY <1>1 DEF Follow, Turn, Busy, InProgress
<1> QED  BY <1>6, <1>7, <1>8 DEF Follow

LEMMA TrimFollows ==
  ASSUME TypeInv, ChainInv, Follow, RemoveVerificationsBefore
  PROVE  Follow'
<1>1. /\ scorer = "trim" /\ scorer' = "advance"
      /\ connected' = {d \in connected : d.block >= vblock}
      /\ verified' = {d \in verified : d.block >= vblock}
      /\ UNCHANGED <<chain, rvars, files, snapshot, hashes, vblock, chainView>>
  BY DEF RemoveVerificationsBefore
<1>2. vblock \in Nat /\ \A b \in DOMAIN hashes : b \in Nat /\ b >= vblock
  <2>1. vblock \in Nat
    BY DEF TypeInv, TypeOK
  <2>2. DOMAIN hashes = {vblock, vblock + 1}
    BY <1>1 DEF Follow, Published, Publishing
  <2> QED  BY <2>1, <2>2
<1>3. \A b \in DOMAIN hashes : DocsAt(b)' = DocsAt(b) /\ VerifiedAt(b)' = VerifiedAt(b)
  BY <1>1, <1>2 DEF DocsAt, VerifiedAt
<1>4. Publishing' = Publishing
  BY <1>1 DEF Publishing
<1>5. Published'
  BY <1>1, <1>3, <1>4, PublishedUntouched DEF Follow
<1>6. HandOver'
  <2>1. Removed' = Removed /\ vblock' <= Moved
    BY <1>1 DEF Removed, Follow, HandOver
  <2> QED  BY <1>1, <2>1, HandOverUntouched DEF Follow
<1>7. Turn' /\ InProgress'
  BY <1>1 DEF Follow, Turn, Busy, InProgress
<1> QED  BY <1>5, <1>6, <1>7 DEF Follow

LEMMA AdvanceFollows ==
  ASSUME TypeInv, ChainInv, Follow, SetVerificationBlock
  PROVE  Follow'
<1>1. /\ scorer = "advance" /\ scorer' = "remove" /\ vblock' = snapshot.block
      /\ UNCHANGED <<chain, rvars, files, snapshot, connected, verified, hashes, chainView>>
  BY DEF SetVerificationBlock
<1>2. snapshot.block = vblock + 1 /\ vblock \in Nat /\ snapshot.block <= Moved
  BY <1>1, Bounds DEF Follow, Turn, Busy
<1>3. HandOver'
  <2>1. Removed' = Removed
    BY <1>1, <1>2 DEF Removed
  <2> QED  BY <1>1, <1>2, <2>1, HandOverUntouched DEF Follow
<1>4. Published'
  <2>1. DOMAIN hashes = {vblock, vblock + 1}
    BY <1>1 DEF Follow, Published, Publishing
  <2>2. vblock' - 1 = vblock /\ vblock' = vblock + 1
    BY <1>1, <1>2
  <2>3. ~Publishing'
    BY <1>1 DEF Publishing
  <2>4. \A b : /\ DocsAt(b)' = DocsAt(b) /\ VerifiedAt(b)' = VerifiedAt(b)
               /\ Deserving(b)' = Deserving(b) /\ DocsOf(b, View(b))' = DocsOf(b, View(b))
               /\ HashOf(View(b))' = HashOf(View(b))
    BY <1>1 DEF DocsAt, VerifiedAt, View, Deserving, DocsOf, HashOf
  <2> QED  BY <1>1, <2>1, <2>2, <2>3, <2>4 DEF Follow, Published
<1>5. Turn' /\ InProgress'
  BY <1>1 DEF Follow, Turn, Busy, InProgress
<1> QED  BY <1>3, <1>4, <1>5 DEF Follow

LEMMA RemoveSnapshotFollows ==
  ASSUME TypeInv, ChainInv, Follow, RemoveSnapshot
  PROVE  Follow'
<1>1. /\ scorer = "remove" /\ scorer' = "idle"
      /\ files' = {f \in files : f.block # snapshot.block}
      /\ UNCHANGED <<chain, rvars, snapshot, connected, verified, hashes, vblock, chainView>>
  BY DEF RemoveSnapshot, results
<1>2. snapshot.block = vblock /\ vblock \in Nat /\ Moved \in Nat
  BY <1>1, Bounds DEF Follow, Turn, Busy
<1>3. {f.block : f \in files} = vblock..Moved
  <2>1. Removed + 1 = vblock
    BY <1>1, <1>2 DEF Removed
  <2> QED  BY <2>1 DEF Follow, HandOver
<1>4. {f.block : f \in files'} = (vblock + 1)..Moved
  <2>1. {f.block : f \in files'} = {f.block : f \in files} \ {vblock}
    BY <1>1, <1>2
  <2>2. (vblock..Moved) \ {vblock} = (vblock + 1)..Moved
    BY <1>2
  <2> QED  BY <1>3, <2>1, <2>2
<1>5. HandOver'
  <2>1. UNCHANGED <<conn, prevTime, lastBlock, receiver, dump>>
    BY <1>1 DEF chain, rvars
  <2>2. Moved' = Moved /\ Removed' = vblock
    BY <1>1, <2>1 DEF Moved, Removed
  <2>3. files' \subseteq files
    BY <1>1
  <2> QED  BY <1>1, <1>4, <2>1, <2>2, <2>3 DEF Follow, HandOver, Good, View
<1>6. Turn' /\ InProgress'
  BY <1>1 DEF Turn, Busy, InProgress
<1>7. Published'
  <2>1. Publishing' = Publishing
    BY <1>1 DEF Publishing
  <2>2. \A b \in DOMAIN hashes : DocsAt(b)' = DocsAt(b) /\ VerifiedAt(b)' = VerifiedAt(b)
    BY <1>1 DEF DocsAt, VerifiedAt
  <2> QED  BY <1>1, <2>1, <2>2, PublishedUntouched DEF Follow
<1> QED  BY <1>5, <1>6, <1>7 DEF Follow

\* An error before anything was published.
LEMMA GiveUpFollows ==
  ASSUME TypeInv, ChainInv, Follow, NobodyVerified \/ ScorerFails, regrets' = 0
  PROVE  Follow'
<1>1. regrets \in Nat /\ scorer \in {"idle", "reset", "connect", "verify", "trim", "advance", "remove"}
  BY DEF TypeInv, TypeOK
<1>2. /\ scorer \in {"reset", "connect", "verify"} /\ scorer' = "idle"
      /\ UNCHANGED <<chain, rvars, files, snapshot, connected, verified, hashes, vblock, chainView>>
  BY <1>1 DEF NobodyVerified, ScorerFails, results
<1>3. InProgress'
  BY <1>2 DEF InProgress
<1>4. \A b : DocsAt(b)' = DocsAt(b) /\ VerifiedAt(b)' = VerifiedAt(b)
  BY <1>2 DEF DocsAt, VerifiedAt
<1> QED  BY <1>2, <1>3, <1>4, WorkFollows

\* No step takes a regret back.
LEMMA RegretsGrow ==
  ASSUME TypeInv, [Next]_vars, regrets' = 0
  PROVE  regrets = 0
<1>1. regrets \in Nat
  BY DEF TypeInv, TypeOK
<1>2. regrets' = regrets \/ regrets' = regrets + 1
  BY DEF Next, vars, counters, Connect, Receiver, ReceiverFails, ReachSnapshot, Dump, Move,
       SetPrevSnapshotTime, FinishBlock, Scorer, ScorerFails, Restore, RemoveBlock,
       InsertConnected, StartBrightID, InsertVerified, NobodyVerified, UpdateHashes,
       RemoveVerificationsBefore, SetVerificationBlock, RemoveSnapshot
<1> QED  BY <1>1, <1>2

LEMMA FollowStep == TypeInv /\ ChainInv /\ FollowInv /\ [Next]_vars => FollowInv'
<1> SUFFICES ASSUME TypeInv, ChainInv, FollowInv, [Next]_vars, regrets' = 0 PROVE Follow'
  BY DEF FollowInv, Follow
<1>1. regrets = 0
  BY RegretsGrow
<1>2. Follow
  BY <1>1 DEF FollowInv, Follow
<1>3. CASE UNCHANGED vars
  <2>1. UNCHANGED <<chain, rvars, files, scorer, snapshot, todo, connected, verified, hashes,
                    vblock, chainView>>
    BY <1>3 DEF vars, results
  <2>2. HandOver'
    <3>1. Removed' = Removed /\ vblock' <= Moved
      BY <1>2, <2>1 DEF Removed, Follow, HandOver
    <3> QED  BY <1>2, <2>1, <3>1, HandOverUntouched DEF Follow
  <2>3. \A b : DocsAt(b)' = DocsAt(b) /\ VerifiedAt(b)' = VerifiedAt(b)
    BY <2>1 DEF DocsAt, VerifiedAt
  <2>4. Published'
    BY <1>2, <2>1, <2>3, PublishedUntouched DEF Follow, Publishing
  <2>5. Turn'
    BY <1>2, <2>1 DEF Follow, Turn, Busy
  <2>6. InProgress'
    BY <1>2, <2>1, <2>3 DEF Follow, InProgress, DocsOf, View, Deserving
  <2> QED  BY <2>2, <2>4, <2>5, <2>6 DEF Follow
<1> QED
  BY <1>2, <1>3, ReceiverFollows, RestoreFollows, RemoveBlockFollows, InsertConnectedFollows,
     StartBrightIDFollows, InsertVerifiedFollows, UpdateHashesFollows, TrimFollows, AdvanceFollows,
     RemoveSnapshotFollows, GiveUpFollows
     DEF Next, Scorer

-----------------------------------------------------------------------------
(* The results.                                                            *)

LEMMA InvInit == Init => IInv
BY TypeInit, QuotaInit, ChainInit, FollowInit DEF IInv

LEMMA InvStep == IInv /\ [Next]_vars => IInv'
BY TypeStep, QuotaStep, ChainStep, FollowStep DEF IInv

\* Receiver and scorer never write anything but what the chain says, until a finished
\* block is processed again: runner.py and receiver.py as a whole.
THEOREM NodeFollowsChain == Spec => []IInv
BY InvInit, InvStep, PTL DEF Spec

\* Users are served what the chain says of the newest block.
LEMMA ServedIs ==
  TypeInv /\ ChainInv /\ Follow => Served = Deserving(Newest) /\ Newest \in 0..Len(chainView)
<1> SUFFICES ASSUME TypeInv, ChainInv, Follow
             PROVE  Served = Deserving(Newest) /\ Newest \in 0..Len(chainView)
  OBVIOUS
<1>1. Newest \in DOMAIN hashes
  BY NewestIs
<1>2. VerifiedAt(Newest) = Deserving(Newest)
  BY <1>1 DEF Follow, Published
<1>3. Newest \in 0..Len(chainView)
  BY <1>1, Bounds
<1> QED  BY <1>2, <1>3 DEF Served, VerifiedAt

\* The documents of every block with a hash say what the chain says.
LEMMA StoredIsView ==
  ASSUME TypeInv, ChainInv, Follow, NEW b \in DOMAIN hashes
  PROVE  StoredAt(b) = View(b)
<1>1. b \in 0..Len(chainView)
  BY Bounds
<1>2. View(b) \in Scores /\ DocsAt(b) = DocsOf(b, View(b))
  BY <1>1, ViewType DEF Follow, Published
<1> QED  BY <1>2, StoredIs

\* The block users are served from, and the block the next snapshot builds on, say
\* what the whole history of the chain says: scorer/runner.py and the two verifiers.
THEOREM ResultsAreChains == Spec => []ResultsFollowChain
<1>1. IInv => ResultsFollowChain
  <2> SUFFICES ASSUME IInv, regrets = 0
               PROVE  /\ Served = Deserving(Newest)
                      /\ vblock > 0 => StoredAt(vblock) = chainView[vblock]
    BY DEF ResultsFollowChain
  <2>1. TypeInv /\ ChainInv /\ Follow
    BY DEF IInv, FollowInv, Follow
  <2>2. vblock \in DOMAIN hashes /\ vblock \in Nat
    BY <2>1 DEF Follow, Published, TypeInv, TypeOK
  <2>3. StoredAt(vblock) = View(vblock)
    BY <2>1, <2>2, StoredIsView
  <2> QED  BY <2>1, <2>2, <2>3, ServedIs DEF View
<1> QED  BY <1>1, NodeFollowsChain, PTL

\* Both hashes that update_verifications_hashes keeps describe documents the node has.
THEOREM HashesAreRight == Spec => []HashesDescribe
<1>1. IInv => HashesDescribe
  <2> SUFFICES ASSUME IInv, regrets = 0, NEW b \in DOMAIN hashes
               PROVE  hashes[b] = HashOf(StoredAt(b))
    BY DEF HashesDescribe
  <2>1. TypeInv /\ ChainInv /\ Follow
    BY DEF IInv, FollowInv, Follow
  <2> QED  BY <2>1, StoredIsView DEF Follow, Published
<1> QED  BY <1>1, NodeFollowsChain, PTL

\* SeedConnected keeps a verified user whom no seed reports.
LEMMA Remembered ==
  ASSUME NEW s, NEW before \in Scores, NEW u \in DOMAIN before, Rank(before[u]) > 0,
         \A g \in Group : u \notin ReportedBy(s, g)
  PROVE  /\ u \in DOMAIN SeedConnected(s, before)
         /\ Rank(SeedConnected(s, before)[u]) > 0
<1> DEFINE old == before[u]
           new == SeedConnected(s, before)[u]
<1>1. old.connected \subseteq Group /\ old.reported \subseteq Group
  BY ScoresAre DEF Score
<1>2. u \in DOMAIN SeedConnected(s, before)
  BY DEF SeedConnected, Known
<1>3. /\ old.connected \subseteq new.connected /\ new.connected \subseteq Group
      /\ new.reported = {}
  BY <1>1, <1>2 DEF SeedConnected, ConnectedBefore
<1> HIDE DEF old, new
<1>4. /\ Cardinality(old.connected) \in Nat /\ Cardinality(old.reported) \in Nat
      /\ Cardinality(new.connected) \in Nat
      /\ Cardinality(old.connected) <= Cardinality(new.connected)
  BY <1>1, <1>3, SnapshotsAssumption, FS_Subset, FS_CardinalityType
<1>5. Cardinality(new.reported) = 0
  BY <1>3, FS_EmptySet
<1>6. Cardinality(old.connected) - PENALTY * Cardinality(old.reported) > 0
  BY DEF Rank, old
<1>7. Rank(new) > 0
  BY <1>4, <1>5, <1>6 DEF Rank, PENALTY
<1> QED  BY <1>2, <1>7 DEF new

\* Every step but UpdateHashes serves the users it found served.
LEMMA ServedStays ==
  ASSUME TypeInv, ChainInv, Follow, (TypeInv /\ ChainInv /\ Follow)',
         [Next]_vars, ~UpdateHashes
  PROVE  Served' = Served
<1>1. hashes' = hashes /\ (chainView' = chainView \/ ReachSnapshot)
  BY DEF Next, vars, results, Connect, Receiver, Dump, Move, SetPrevSnapshotTime, FinishBlock,
       ReachSnapshot, ReceiverFails, Scorer, ScorerFails, Restore, RemoveBlock, InsertConnected,
       StartBrightID, InsertVerified, NobodyVerified, RemoveVerificationsBefore,
       SetVerificationBlock, RemoveSnapshot
<1>2. Newest' = Newest
  BY <1>1 DEF Newest
<1>3. Served = Deserving(Newest) /\ Newest \in 0..Len(chainView)
  BY ServedIs
<1>4. (Served = Deserving(Newest))'
  BY ServedIs, PTL
<1>5. Deserving(Newest)' = Deserving(Newest)
  BY <1>1, <1>2, <1>3, ViewsDoStay DEF ViewsStay
<1> QED  BY <1>3, <1>4, <1>5

\* A user loses the verification only when a seed reports the user: no snapshot the
\* scorer is late for makes it forget one, and no error or restart either, unless it
\* comes after a block was published and before that was recorded.
THEOREM VerifiedUsersAreKept == Spec => VerifiedUsersStay
<1>1. IInv /\ IInv' /\ [Next]_vars => [regrets' = 0 => Forgotten = {}]_vars
  <2> SUFFICES ASSUME IInv, IInv', [Next]_vars, regrets' = 0 PROVE Forgotten = {}
    OBVIOUS
  <2>1. TypeInv /\ ChainInv /\ regrets = 0
    BY RegretsGrow DEF IInv
  <2>2. Follow
    BY <2>1 DEF IInv, FollowInv, Follow
  <2>3. (TypeInv /\ ChainInv /\ Follow)'
    BY DEF IInv, FollowInv, Follow
  <2>4. CASE ~UpdateHashes
    <3>1. Served' = Served
      BY <2>1, <2>2, <2>3, <2>4, ServedStays
    <3> QED  BY <3>1 DEF Forgotten
  <2>5. CASE UpdateHashes
    <3> DEFINE N == snapshot.block
    <3>1. /\ scorer = "verify" /\ chainView' = chainView
          /\ hashes' = [b \in {N, Newest} |-> IF b = Newest THEN hashes[b] ELSE HashOf(StoredAt(b))]
      BY <2>5 DEF UpdateHashes
    <3>2. /\ N = vblock + 1 /\ Newest = vblock /\ vblock \in Nat
          /\ View(N) = SeedConnected(snapshot, View(vblock)) /\ View(N) = chainView[N]
      BY <2>1, <2>2, <3>1, Working
    <3>3. Newest' = N
      <4>1. DOMAIN hashes' = {N, vblock}
        BY <3>1, <3>2
      <4>2. Newest' = MaxOf({N, vblock})
        BY <4>1 DEF Newest
      <4> QED  BY <3>2, <4>2, MaxOfTwo
    <3>4. Served = Deserving(vblock)
      BY <2>1, <2>2, <3>2, ServedIs
    <3>5. Served' = Deserving(N)
      <4>1. (Served = Deserving(Newest))'
        BY <2>3, ServedIs, PTL
      <4> QED  BY <3>1, <3>3, <4>1 DEF Deserving
    <3>6. SUFFICES ASSUME NEW u \in Deserving(vblock),
                          \A g \in Group : u \notin ReportedBy(snapshot, g)
                   PROVE  u \in Deserving(N)
      BY <3>4, <3>5 DEF Forgotten
    <3>7. View(vblock) \in Scores
      <4>1. vblock \in 0..Len(chainView)
        BY <2>1, <2>2, Bounds
      <4> QED  BY <2>1, <4>1, ViewType
    <3>8. u \in DOMAIN View(vblock) /\ Rank(View(vblock)[u]) > 0
      BY DEF Deserving, View
    <3>9. u \in DOMAIN View(N) /\ Rank(View(N)[u]) > 0
      BY <3>2, <3>6, <3>7, <3>8, Remembered
    <3> QED  BY <3>2, <3>9 DEF Deserving
  <2> QED  BY <2>4, <2>5
<1> QED  BY <1>1, NodeFollowsChain, PTL DEF Spec, VerifiedUsersStay
=============================================================================
