-------------------------- MODULE OperationPipeline --------------------------
(***************************************************************************)
(* The life of an operation in a network of BrightID nodes.                *)
(*                                                                         *)
(*   client --POST--> `operations' of a node  (index.js operationsPost)    *)
(*     --sender.py--> IDChain                                              *)
(*     --receiver.py, one PUT per operation--> the node's database         *)
(*                                             (apply.js operationsPut)    *)
(*                                                                         *)
(* Every node executes the confirmed operations of the chain on its own    *)
(* database.  What a node's database holds is a function of the operations *)
(* it handled, in order, also of those that failed, which may have written *)
(* before they did.  So the model keeps their outcomes, and Accepts(j, op)  *)
(* says whether `verify' and `apply' let op through in the database that   *)
(* the outcomes j have produced.                                           *)
(*                                                                         *)
(* A PUT is three writes (domain collections, operationsHashes,            *)
(* operations) that no transaction ties together: each is a step here.     *)
(***************************************************************************)
EXTENDS Integers, Sequences, FiniteSets

CONSTANTS
  Node,           \* the BrightID nodes that write to and read from the chain
  Op,             \* the signed operations; an operation stands for its hash
  Accepts(_, _),  \* Accepts(j, op): op succeeds after the outcomes j
  Depth,          \* NUM_SEALERS // 2 + 1, the blocks that confirm a block
  MaxBatch,       \* how many operations MAX_DATA_SIZE lets into a transaction
  SnapshotPeriod, \* SNAPSHOTS_PERIOD
  Stale,          \* operations that can be 30 days old at a snapshot
  Nobody,         \* the `sender' of a block without a transaction
  MaxPosts,       \* bound: client requests
  MaxReorgs,      \* bound: blocks the chain replaces
  MaxCrashes      \* bound: crashes of senders, receivers and databases

ASSUME PipelineAssumption ==
  /\ Depth \in Nat \ {0}
  /\ MaxBatch \in Nat \ {0}
  /\ SnapshotPeriod \in Nat \ {0}
  /\ Stale \subseteq Op
  /\ Node # {} /\ Nobody \notin Node
  /\ IsFiniteSet(Op)

VARIABLES
  record,    \* record[n][op]: the state field of op in n's `operations'
  hashes,    \* hashes[n]: the keys of n's `operationsHashes'
  journal,   \* journal[n]: the outcome of every PUT n has handled, in order
  posting,   \* posting[n]: POSTs past their checks, not yet upserted
  marking,   \* marking[n]: sent operations n's sender has yet to mark `sent'
  mempool,   \* mempool[n]: n's transactions the chain has not mined
  log,       \* the operations of the chain's blocks, one after the other
  blocks,    \* the blocks: who sent its transaction, where it ends in log
  last,      \* last[n]: LAST_BLOCK, the last block n has finished
  pos,       \* pos[n]: the operations of log that n's receiver has taken
  phase,     \* phase[n]: where n's receiver (or the PUT it waits for) is
  posts, reorgs, senderCrashes, receiverCrashes, dbCrashes \* what the bounds count

crashes  == senderCrashes + receiverCrashes + dbCrashes
counters == <<posts, reorgs, senderCrashes, receiverCrashes, dbCrashes>>
node     == <<record, hashes, journal, last, pos, phase>>
chain    == <<mempool, log, blocks>>
vars     == <<node, posting, marking, chain, counters>>

RecordState == {"none", "init", "sent", "applied", "failed"}
Phase       == {"wait", "block", "hash", "record"}
Outcome     == [op : Op, ok : BOOLEAN]
Block       == [from : Node \cup {Nobody}, upto : Nat]

-----------------------------------------------------------------------------
(* The chain. *)

\* How many operations the first b blocks hold.
UpTo(b) == IF b = 0 THEN 0 ELSE blocks[b].upto

\* A receiver that forgets that a block needs Depth blocks on top of it.
ConfirmedAtTip == Len(blocks)

\* confirmed_block, the newest block a receiver processes.
Confirmed == IF Len(blocks) > Depth THEN Len(blocks) - Depth ELSE 0

\* The operations that no reorganisation can take back.
Settled == UpTo(Confirmed)

OpsOf(s) == {s[i] : i \in 1..Len(s)}

-----------------------------------------------------------------------------
(* What a node has done. *)

\* Whether operation op was ever handled by a PUT on node n.
Handled(n, op) == \E i \in 1..Len(journal[n]) : journal[n][i].op = op

\* A replay check on the operation's own record instead of its hash.
RecordSaysDone(n, op) == record[n][op] \in {"applied", "failed"}

\* operationsHashesColl.exists(op.hash)
AppliedBefore(n, op) == op \in hashes[n]

Init ==
  /\ record  = [n \in Node |-> [op \in Op |-> "none"]]
  /\ hashes  = [n \in Node |-> {}]
  /\ journal = [n \in Node |-> <<>>]
  /\ posting = [n \in Node |-> {}]
  /\ marking = [n \in Node |-> {}]
  /\ mempool = [n \in Node |-> <<>>]
  /\ log = <<>> /\ blocks = <<>>
  /\ last  = [n \in Node |-> 0]
  /\ pos   = [n \in Node |-> 0]
  /\ phase = [n \in Node |-> "wait"]
  /\ posts = 0 /\ reorgs = 0
  /\ senderCrashes = 0 /\ receiverCrashes = 0 /\ dbCrashes = 0

-----------------------------------------------------------------------------
(* POST /operations: the checks and the upsert are separate accesses.      *)

PostCheck(n, op) ==
  /\ posts < MaxPosts
  /\ op \notin posting[n]
  /\ ~AppliedBefore(n, op)
  /\ posting' = [posting EXCEPT ![n] = @ \cup {op}]
  /\ posts' = posts + 1
  /\ UNCHANGED <<node, marking, chain, reorgs,
                 senderCrashes, receiverCrashes, dbCrashes>>

PostUpsert(n, op) ==
  /\ op \in posting[n]
  /\ record' = [record EXCEPT ![n][op] = "init"]
  /\ posting' = [posting EXCEPT ![n] = @ \ {op}]
  /\ UNCHANGED <<hashes, journal, last, pos, phase, marking, chain, counters>>

-----------------------------------------------------------------------------
(* sender.py main: collect the init operations up to MAX_DATA_SIZE in the  *)
(* order the collection yields them, send them in one transaction, then    *)
(* mark them one at a time.                                                *)

InitOps(n) == {op \in Op : record[n][op] = "init"}

SmallerOf(a, b) == IF a < b THEN a ELSE b

\* The operation lists a collection of the operations S can yield.
Batches(S) ==
  {b \in [1..SmallerOf(MaxBatch, Cardinality(S)) -> S] :
     \A i, j \in DOMAIN b : b[i] = b[j] => i = j}

\* A sender that marks the operations although sendTransaction failed.
BroadcastIgnoringErrors(n) ==
  /\ marking[n] = {}
  /\ InitOps(n) # {}
  /\ \E b \in Batches(InitOps(n)) :
       /\ mempool' = mempool \/ mempool' = [mempool EXCEPT ![n] = Append(@, b)]
       /\ marking' = [marking EXCEPT ![n] = OpsOf(b)]
  /\ UNCHANGED <<node, posting, log, blocks, counters>>

Broadcast(n) ==
  /\ marking[n] = {}
  /\ InitOps(n) # {}
  /\ \E b \in Batches(InitOps(n)) :
       /\ mempool' = [mempool EXCEPT ![n] = Append(@, b)]
       /\ marking' = [marking EXCEPT ![n] = OpsOf(b)]
  /\ UNCHANGED <<node, posting, log, blocks, counters>>

\* The update throws when a snapshot has removed the record meanwhile; the
\* loop is then abandoned and its other records stay init.
MarkSent(n, op) ==
  /\ op \in marking[n]
  /\ IF record[n][op] = "none"
     THEN /\ marking' = [marking EXCEPT ![n] = {}]
          /\ UNCHANGED record
     ELSE /\ marking' = [marking EXCEPT ![n] = @ \ {op}]
          /\ record' = [record EXCEPT ![n][op] = "sent"]
  /\ UNCHANGED <<hashes, journal, last, pos, phase, posting, chain, counters>>

SenderCrash(n) ==
  /\ crashes < MaxCrashes
  /\ marking[n] # {}
  /\ marking' = [marking EXCEPT ![n] = {}]
  /\ senderCrashes' = senderCrashes + 1
  /\ UNCHANGED <<node, posting, chain, posts, reorgs,
                 receiverCrashes, dbCrashes>>

-----------------------------------------------------------------------------
(* IDChain, as the nodes rely on it: a node's transactions are mined in    *)
(* nonce order, blocks keep coming while operations wait for confirmation, *)
(* the newest block may be replaced and its transaction mined again later. *)

Mine(n) ==
  /\ mempool[n] # <<>>
  /\ log' = log \o Head(mempool[n])
  /\ blocks' = Append(blocks, [from |-> n, upto |-> Len(log')])
  /\ mempool' = [mempool EXCEPT ![n] = Tail(@)]
  /\ UNCHANGED <<node, posting, marking, counters>>

MineEmpty ==
  /\ Settled < Len(log)
  /\ blocks' = Append(blocks, [from |-> Nobody, upto |-> Len(log)])
  /\ UNCHANGED <<node, posting, marking, mempool, log, counters>>

Reorg ==
  /\ reorgs < MaxReorgs
  /\ blocks # <<>>
  /\ LET tip == blocks[Len(blocks)]
         start == UpTo(Len(blocks) - 1)
     IN  /\ tip.from \in Node
         /\ mempool' = [mempool EXCEPT
                          ![tip.from] = <<SubSeq(log, start + 1, tip.upto)>> \o @]
         /\ log' = SubSeq(log, 1, start)
         /\ blocks' = [blocks EXCEPT ![Len(blocks)] =
                         [from |-> Nobody, upto |-> start]]
  /\ reorgs' = reorgs + 1
  /\ UNCHANGED <<node, posting, marking, posts,
                 senderCrashes, receiverCrashes, dbCrashes>>

-----------------------------------------------------------------------------
(* receiver.py main and process_op, and the PUT /operations/:hash it sends *)
(* for each operation of a block.                                          *)

\* A receiver whose range() ends one block early.
FetchBlockLate(n) ==
  /\ phase[n] = "wait"
  /\ last[n] + 1 < Confirmed
  /\ phase' = [phase EXCEPT ![n] = "block"]
  /\ UNCHANGED <<record, hashes, journal, last, pos, posting, marking, chain,
                 counters>>

\* The next block is confirmed: getBlock returns its transactions.
FetchBlock(n) ==
  /\ phase[n] = "wait"
  /\ last[n] < Confirmed
  /\ phase' = [phase EXCEPT ![n] = "block"]
  /\ UNCHANGED <<record, hashes, journal, last, pos, posting, marking, chain,
                 counters>>

\* operationsPut up to and including operations.apply: the operation is
\* executed, or an error makes it `failed'.
ApplyOp(n) ==
  /\ phase[n] = "block"
  /\ pos[n] < UpTo(last[n] + 1)
  /\ LET op == log[pos[n] + 1]
         ok == ~AppliedBefore(n, op) /\ Accepts(journal[n], op)
     IN  /\ journal' = [journal EXCEPT ![n] = Append(@, [op |-> op, ok |-> ok])]
         /\ phase' = [phase EXCEPT ![n] = IF ok THEN "hash" ELSE "record"]
  /\ pos' = [pos EXCEPT ![n] = @ + 1]
  /\ UNCHANGED <<record, hashes, last, posting, marking, chain, counters>>

\* A PUT that skips the replay protection of what it applied.
InsertNoHash(n) ==
  /\ phase[n] = "hash"
  /\ phase' = [phase EXCEPT ![n] = "record"]
  /\ UNCHANGED <<record, hashes, journal, last, pos, posting, marking, chain,
                 counters>>

\* operationsHashesColl.insert
InsertHash(n) ==
  /\ phase[n] = "hash"
  /\ hashes' = [hashes EXCEPT ![n] = @ \cup {log[pos[n]]}]
  /\ phase' = [phase EXCEPT ![n] = "record"]
  /\ UNCHANGED <<record, journal, last, pos, posting, marking, chain, counters>>

LastOk(n) == journal[n][Len(journal[n])].ok

\* A PUT that stores the operation without a state.
UpsertStateless(n) ==
  /\ phase[n] = "record"
  /\ record' = [record EXCEPT ![n][log[pos[n]]] = "undefined"]
  /\ phase' = [phase EXCEPT ![n] = "block"]
  /\ UNCHANGED <<hashes, journal, last, pos, posting, marking, chain, counters>>

\* db.upsertOperation with the outcome, and the response to the receiver.
UpsertOperation(n) ==
  /\ phase[n] = "record"
  /\ record' = [record EXCEPT ![n][log[pos[n]]] =
                  IF LastOk(n) THEN "applied" ELSE "failed"]
  /\ phase' = [phase EXCEPT ![n] = "block"]
  /\ UNCHANGED <<hashes, journal, last, pos, posting, marking, chain, counters>>

\* The end of a block.  At a snapshot the records older than 30 days go.  Their
\* age is the time the client signed or, once applied, the time of the block,
\* against the clock of a node that may be catching up: any subset of Stale.
FinishBlock(n) ==
  /\ phase[n] = "block"
  /\ pos[n] = UpTo(last[n] + 1)
  /\ IF (last[n] + 1) % SnapshotPeriod = 0
     THEN \E gone \in SUBSET Stale :
            record' = [record EXCEPT ![n] =
              [op \in Op |-> IF op \in gone THEN "none" ELSE record[n][op]]]
     ELSE UNCHANGED record
  /\ last' = [last EXCEPT ![n] = @ + 1]
  /\ phase' = [phase EXCEPT ![n] = "wait"]
  /\ UNCHANGED <<hashes, journal, pos, posting, marking, chain, counters>>

\* The receiver stops between two operations of a block (an exception, a
\* restart): LAST_BLOCK is all it remembers.
ReceiverCrash(n) ==
  /\ crashes < MaxCrashes
  /\ phase[n] = "block"
  /\ phase' = [phase EXCEPT ![n] = "wait"]
  /\ pos' = [pos EXCEPT ![n] = UpTo(last[n])]
  /\ receiverCrashes' = receiverCrashes + 1
  /\ UNCHANGED <<record, hashes, journal, last, posting, marking, chain,
                 posts, reorgs, senderCrashes, dbCrashes>>

\* The database stops inside a PUT.  Pending POSTs fail with it, and the
\* sender and the receiver lose their connection and start over.
DbCrash(n) ==
  /\ crashes < MaxCrashes
  /\ phase[n] \in {"hash", "record"}
  /\ phase' = [phase EXCEPT ![n] = "wait"]
  /\ pos' = [pos EXCEPT ![n] = UpTo(last[n])]
  /\ posting' = [posting EXCEPT ![n] = {}]
  /\ marking' = [marking EXCEPT ![n] = {}]
  /\ dbCrashes' = dbCrashes + 1
  /\ UNCHANGED <<record, hashes, journal, last, chain,
                 posts, reorgs, senderCrashes, receiverCrashes>>

-----------------------------------------------------------------------------
(* The processes: each is a loop in which one step is possible at a time.  *)

Api(n)      == \E op \in Op : PostUpsert(n, op)
Sender(n)   == Broadcast(n) \/ \E op \in Op : MarkSent(n, op)
Receiver(n) == FetchBlock(n) \/ ApplyOp(n) \/ InsertHash(n)
                 \/ UpsertOperation(n) \/ FinishBlock(n)
Crash(n)    == SenderCrash(n) \/ ReceiverCrash(n) \/ DbCrash(n)

Next ==
  \/ \E n \in Node :
       \/ \E op \in Op : PostCheck(n, op)
       \/ Api(n) \/ Sender(n) \/ Mine(n) \/ Receiver(n) \/ Crash(n)
  \/ MineEmpty
  \/ Reorg

\* A request past its checks is answered, and the sender, the chain and the
\* receiver run in endless loops.  Nothing obliges a client to post, the chain
\* to reorganise or anything to crash.
Fairness ==
  /\ \A n \in Node : /\ WF_vars(Api(n)) /\ WF_vars(Sender(n))
                     /\ WF_vars(Mine(n)) /\ WF_vars(Receiver(n))
  /\ WF_vars(MineEmpty)

Spec     == Init /\ [][Next]_vars
FairSpec == Spec /\ Fairness

-----------------------------------------------------------------------------
(* Properties. *)

TypeOK ==
  /\ record \in [Node -> [Op -> RecordState]]
  /\ hashes \in [Node -> SUBSET Op]
  /\ journal \in [Node -> Seq(Outcome)]
  /\ posting \in [Node -> SUBSET Op]
  /\ marking \in [Node -> SUBSET Op]
  /\ mempool \in [Node -> Seq(Seq(Op))]
  /\ log \in Seq(Op)
  /\ blocks \in Seq(Block)
  /\ last \in [Node -> Nat]
  /\ pos \in [Node -> Nat]
  /\ phase \in [Node -> Phase]
  /\ posts \in Nat /\ reorgs \in Nat /\ senderCrashes \in Nat
  /\ receiverCrashes \in Nat /\ dbCrashes \in Nat

\* No receiver has started a block over.
Uninterrupted == receiverCrashes = 0 /\ dbCrashes = 0

\* Until a receiver is interrupted, a node has handled exactly the operations
\* of the chain, in its order, and none that a reorganisation can take back:
\* main() processes no block before it has NUM_SEALERS // 2 + 1 on top of it.
FollowsChain ==
  Uninterrupted =>
    \A n \in Node : /\ Len(journal[n]) <= Settled
                    /\ \A i \in 1..Len(journal[n]) : journal[n][i].op = log[i]

\* Until a receiver is interrupted, two nodes give every operation of the
\* chain the same outcome, however late one is and whatever was posted, sent
\* twice or reorganised meanwhile: the consensus the receiver exists for.
Agreement ==
  Uninterrupted =>
    \A m, n \in Node : \A i \in 1..Len(journal[m]) :
      i <= Len(journal[n]) => journal[m][i] = journal[n][i]

\* Unless the database stops inside a PUT, no node executes an operation
\* twice, though it may be on the chain many times (posted to two nodes, sent
\* again after a sender crash, reposted while it is sent) and receivers may
\* process a block again: the operationsHashes check of operationsPut.
ExecutedOnce ==
  dbCrashes = 0 =>
    \A n \in Node : \A i, j \in 1..Len(journal[n]) :
      /\ journal[n][i].ok /\ journal[n][j].ok
      /\ journal[n][i].op = journal[n][j].op
      => i = j

\* A record reads `applied' only when its operation was executed and is
\* protected from being executed again, whichever process crashes between the
\* three writes of operationsPut.
AppliedIsProtected ==
  \A n \in Node, op \in Op :
    record[n][op] = "applied" =>
      /\ op \in hashes[n]
      /\ \E i \in 1..Len(journal[n]) : journal[n][i] = [op |-> op, ok |-> TRUE]

\* The two together: through any crash the operationsHashes check lets nothing
\* happen twice, and no record claims that protection without having it.
ReplayProtected == ExecutedOnce /\ AppliedIsProtected

\* A record reads `sent' only when the operation is on the chain or in a
\* transaction waiting to be mined: sender.py may send an operation twice, but
\* never marks one it did not send.
SentIsNotLost ==
  \A n \in Node, op \in Op :
    record[n][op] = "sent" =>
      \/ op \in OpsOf(log)
      \/ \E m \in Node : \E i \in 1..Len(mempool[m]) : op \in OpsOf(mempool[m][i])

\* The longest journal: under Agreement the others are its prefixes.
Ledger == LET ahead == CHOOSE n \in Node :
                         \A m \in Node : Len(journal[m]) <= Len(journal[n])
          IN  journal[ahead]

Log == INSTANCE ReplicatedLog WITH ledger <- Ledger, view <- journal

\* As long as no receiver is interrupted the nodes replicate one ledger: each node's
\* outcomes are a prefix of it, and only a node that has seen all of it extends it.
ImplementsReplicatedLog == Log!Spec

\* What a node accepted for sending, every node comes to handle, though
\* processes crash a bounded number of times.
EveryNodeHandles ==
  \A m, n \in Node, op \in Op : record[n][op] = "init" ~> Handled(m, op)

=============================================================================
