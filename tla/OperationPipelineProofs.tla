----------------------- MODULE OperationPipelineProofs -----------------------
(***************************************************************************)
(* Proofs about OperationPipeline for every set of nodes, every finite set *)
(* of operations, every Accepts, every confirmation depth and every bound. *)
(*                                                                         *)
(* The argument has three layers: what the chain keeps (a block that is    *)
(* confirmed is never touched again), where a receiver stands in it, and   *)
(* what the node has done so far.                                          *)
(***************************************************************************)
EXTENDS OperationPipeline, FiniteSetTheorems, SequenceTheorems, TLAPS

(***************************************************************************)
(* The invariant.                                                          *)
(***************************************************************************)

\* Blocks cover the log from left to right and end where it ends.
ChainInv ==
  /\ \A b, c \in 0..Len(blocks) : b <= c => UpTo(b) <= UpTo(c)
  /\ UpTo(Len(blocks)) = Len(log)

\* A receiver works on the first block after last[n], which is confirmed, and
\* has taken the operations of the log up to pos[n].
ReceiverInv(n) ==
  /\ last[n] <= Confirmed
  /\ phase[n] # "wait" => last[n] < Confirmed /\ pos[n] <= UpTo(last[n] + 1)
  /\ phase[n] = "wait" => pos[n] = UpTo(last[n])
  /\ UpTo(last[n]) <= pos[n]
  /\ phase[n] \in {"hash", "record"} =>
       /\ 0 < pos[n] /\ 0 < Len(journal[n])
       /\ journal[n][Len(journal[n])].op = log[pos[n]]
  /\ phase[n] = "hash" => LastOk(n)

PosInv == TypeOK /\ ChainInv /\ \A n \in Node : ReceiverInv(n)

-----------------------------------------------------------------------------
(* The chain. *)

LEMMA SubSeqOf ==
  ASSUME NEW S, NEW s \in Seq(S), NEW a \in Nat \ {0}, NEW b \in Nat, b <= Len(s)
  PROVE  /\ SubSeq(s, a, b) \in Seq(S)
         /\ Len(SubSeq(s, a, b)) = IF a <= b THEN b - a + 1 ELSE 0
         /\ \A i \in 1..(b - a + 1) : SubSeq(s, a, b)[i] = s[a + i - 1]
<1>1. \A i \in a..b : s[i] \in S
  OBVIOUS
<1>2. QED
  BY <1>1, SubSeqProperties

LEMMA SubSeqStart ==
  ASSUME NEW S, NEW s \in Seq(S), NEW b \in 0..Len(s)
  PROVE  /\ SubSeq(s, 1, b) \in Seq(S)
         /\ Len(SubSeq(s, 1, b)) = b
         /\ \A i \in 1..b : SubSeq(s, 1, b)[i] = s[i]
BY SubSeqOf

LEMMA ConfirmedType == TypeOK => Confirmed \in 0..Len(blocks)
BY PipelineAssumption DEF TypeOK, Confirmed

LEMMA UpToType == TypeOK => \A b \in 0..Len(blocks) : UpTo(b) \in Nat
<1> SUFFICES ASSUME TypeOK, NEW b \in 0..Len(blocks) PROVE UpTo(b) \in Nat
  OBVIOUS
<1>1. CASE b = 0
  BY <1>1 DEF UpTo
<1>2. CASE b # 0
  <2>1. b \in 1..Len(blocks) /\ blocks \in Seq(Block)
    BY <1>2 DEF TypeOK
  <2>2. blocks[b] \in Block
    BY <2>1, ElementOfSeq
  <2>3. QED
    BY <1>2, <2>2 DEF UpTo, Block
<1>3. QED
  BY <1>1, <1>2

LEMMA SettledType ==
  TypeOK /\ ChainInv => Settled \in Nat /\ Settled <= Len(log)
<1> SUFFICES ASSUME TypeOK, ChainInv PROVE Settled \in Nat /\ Settled <= Len(log)
  OBVIOUS
<1>1. Confirmed \in 0..Len(blocks) /\ Len(blocks) \in Nat
  BY ConfirmedType DEF TypeOK
<1>2. QED
  BY <1>1, UpToType DEF Settled, ChainInv

\* The receivers' block and position are inside the settled part of the log.
LEMMA PosIsSettled ==
  ASSUME PosInv, NEW n \in Node
  PROVE  /\ last[n] \in 0..Confirmed
         /\ phase[n] # "wait" => last[n] + 1 \in 0..Confirmed
         /\ pos[n] <= Settled
         /\ pos[n] <= Len(log)
<1>1. /\ Confirmed \in 0..Len(blocks) /\ Len(blocks) \in Nat
      /\ last[n] \in Nat /\ pos[n] \in Nat
  BY ConfirmedType DEF PosInv, TypeOK
<1>2. /\ last[n] \in 0..Confirmed
      /\ phase[n] # "wait" => last[n] + 1 \in 0..Confirmed
  BY <1>1 DEF PosInv, ReceiverInv
<1>3. Settled \in Nat /\ Settled <= Len(log) /\ Len(log) \in Nat
  BY SettledType DEF PosInv, TypeOK
<1>4. CASE phase[n] = "wait"
  <2>1. UpTo(last[n]) <= Settled
    BY <1>1, <1>2 DEF PosInv, ChainInv, Settled
  <2>2. QED
    BY <1>1, <1>2, <1>3, <1>4, <2>1 DEF PosInv, ReceiverInv
<1>5. CASE phase[n] # "wait"
  <2>1. UpTo(last[n] + 1) <= Settled /\ UpTo(last[n] + 1) \in Nat
    BY <1>1, <1>2, <1>5, UpToType DEF PosInv, ChainInv, Settled
  <2>2. QED
    BY <1>1, <1>2, <1>3, <1>5, <2>1 DEF PosInv, ReceiverInv
<1>6. QED
  BY <1>4, <1>5

\* What a step may do to the chain: confirmed blocks and the operations in them
\* stay as they are.
Keeps ==
  /\ Confirmed <= Confirmed'
  /\ \A b \in 0..Confirmed : UpTo(b)' = UpTo(b)
  /\ \A i \in 1..Settled : log'[i] = log[i]

LEMMA SameChain ==
  ASSUME TypeOK, ChainInv, UNCHANGED <<log, blocks>>
  PROVE  ChainInv' /\ Keeps
BY ConfirmedType DEF ChainInv, Keeps, UpTo, Confirmed, Settled

LEMMA MineKeeps ==
  ASSUME TypeOK, ChainInv, NEW n \in Node, Mine(n)
  PROVE  /\ log' \in Seq(Op) /\ blocks' \in Seq(Block)
         /\ mempool' \in [Node -> Seq(Seq(Op))]
         /\ ChainInv' /\ Keeps
<1> DEFINE tx == Head(mempool[n])
           blk == [from |-> n, upto |-> Len(log')]
<1>1. /\ tx \in Seq(Op) /\ Tail(mempool[n]) \in Seq(Seq(Op))
      /\ log' = log \o tx
      /\ blocks' = Append(blocks, blk)
      /\ mempool' = [mempool EXCEPT ![n] = Tail(@)]
  BY DEF Mine, TypeOK
<1>2. /\ log' \in Seq(Op) /\ Len(log') = Len(log) + Len(tx)
      /\ Len(log) \in Nat /\ Len(tx) \in Nat
      /\ \A i \in 1..Len(log) : log'[i] = log[i]
  BY <1>1 DEF TypeOK
<1>3. blk \in Block
  BY <1>2 DEF Block
<1>4. /\ blocks' \in Seq(Block) /\ Len(blocks') = Len(blocks) + 1
      /\ Len(blocks) \in Nat
      /\ \A b \in 1..Len(blocks) : blocks'[b] = blocks[b]
      /\ blocks'[Len(blocks) + 1] = blk
  BY <1>1, <1>3 DEF TypeOK
<1>5. /\ \A b \in 0..Len(blocks) : UpTo(b)' = UpTo(b)
      /\ \A b \in Nat : b = Len(blocks) + 1 => UpTo(b)' = Len(log')
  BY <1>4 DEF UpTo
<1>6. \A b \in 0..Len(blocks) : UpTo(b) \in Nat /\ UpTo(b) <= Len(log)
  BY <1>4, UpToType DEF ChainInv
<1>7. ChainInv'
  <2> SUFFICES ASSUME NEW b \in 0..Len(blocks'), NEW c \in 0..Len(blocks'), b <= c
               PROVE  UpTo(b)' <= UpTo(c)'
    BY <1>4, <1>5 DEF ChainInv
  <2>1. CASE c = Len(blocks) + 1 /\ b = c
    BY <1>2, <1>5, <2>1
  <2>2. CASE c = Len(blocks) + 1 /\ b # c
    <3>1. b \in 0..Len(blocks)
      BY <1>4, <2>2
    <3>2. UpTo(b)' <= Len(log) /\ UpTo(b)' \in Nat /\ UpTo(c)' = Len(log')
      BY <1>4, <1>5, <1>6, <2>2, <3>1
    <3>3. QED
      BY <1>2, <3>2
  <2>3. CASE c # Len(blocks) + 1
    BY <1>4, <1>5, <2>3 DEF ChainInv
  <2>4. QED
    BY <2>1, <2>2, <2>3
<1>8. Keeps
  <2>1. Confirmed <= Confirmed' /\ Confirmed \in 0..Len(blocks)
    BY <1>4, PipelineAssumption DEF Confirmed
  <2>2. \A i \in 1..Settled : log'[i] = log[i]
    BY <1>2, SettledType
  <2>3. QED
    BY <1>4, <1>5, <2>1, <2>2 DEF Keeps
<1>9. QED
  BY <1>1, <1>2, <1>4, <1>7, <1>8 DEF TypeOK

LEMMA MineEmptyKeeps ==
  ASSUME TypeOK, ChainInv, MineEmpty
  PROVE  blocks' \in Seq(Block) /\ ChainInv' /\ Keeps
<1> DEFINE blk == [from |-> Nobody, upto |-> Len(log)]
<1>1. Len(log) \in Nat /\ log' = log
  BY DEF TypeOK, MineEmpty
<1>2. blk \in Block
  BY <1>1 DEF Block
<1>3. /\ blocks' \in Seq(Block) /\ Len(blocks') = Len(blocks) + 1
      /\ Len(blocks) \in Nat
      /\ \A b \in 1..Len(blocks) : blocks'[b] = blocks[b]
      /\ blocks'[Len(blocks) + 1] = blk
  BY <1>2 DEF TypeOK, MineEmpty
<1>4. /\ \A b \in 0..Len(blocks) : UpTo(b)' = UpTo(b)
      /\ \A b \in Nat : b = Len(blocks) + 1 => UpTo(b)' = Len(log)
  BY <1>3 DEF UpTo
<1>5. \A b \in 0..Len(blocks) : UpTo(b) \in Nat /\ UpTo(b) <= Len(log)
  BY <1>3, UpToType DEF ChainInv
<1>6. ChainInv'
  <2> SUFFICES ASSUME NEW b \in 0..Len(blocks'), NEW c \in 0..Len(blocks'), b <= c
               PROVE  UpTo(b)' <= UpTo(c)'
    BY <1>1, <1>3, <1>4 DEF ChainInv
  <2>1. CASE c = Len(blocks) + 1 /\ b = c
    BY <1>1, <1>4, <2>1
  <2>2. CASE c = Len(blocks) + 1 /\ b # c
    BY <1>1, <1>3, <1>4, <1>5, <2>2
  <2>3. CASE c # Len(blocks) + 1
    BY <1>3, <1>4, <2>3 DEF ChainInv
  <2>4. QED
    BY <2>1, <2>2, <2>3
<1>7. Confirmed <= Confirmed' /\ Confirmed \in 0..Len(blocks)
  BY <1>3, PipelineAssumption DEF Confirmed
<1>8. QED
  BY <1>1, <1>3, <1>4, <1>6, <1>7 DEF Keeps

\* The block that is replaced is the newest, and Depth is at least one.
LEMMA ReorgKeeps ==
  ASSUME TypeOK, ChainInv, Reorg
  PROVE  /\ log' \in Seq(Op) /\ blocks' \in Seq(Block)
         /\ mempool' \in [Node -> Seq(Seq(Op))]
         /\ ChainInv' /\ Keeps
<1> DEFINE top == Len(blocks)
           start == UpTo(top - 1)
           tx == SubSeq(log, start + 1, blocks[top].upto)
           from == blocks[top].from
           blk == [from |-> Nobody, upto |-> start]
<1>1. /\ top \in Nat \ {0} /\ blocks[top] \in Block /\ from \in Node
      /\ log' = SubSeq(log, 1, start)
      /\ blocks' = [blocks EXCEPT ![top] = blk]
      /\ mempool' = [mempool EXCEPT ![from] = <<tx>> \o @]
  BY DEF Reorg, TypeOK
<1>2. /\ start \in Nat /\ start <= Len(log) /\ Len(log) \in Nat
      /\ blocks[top].upto = Len(log)
  <2>1. top - 1 \in 0..top
    BY <1>1
  <2>2. start \in Nat
    BY <2>1, UpToType
  <2>3. UpTo(top) = Len(log) /\ start <= UpTo(top)
    BY <1>1, <2>1 DEF ChainInv
  <2>4. QED
    BY <1>1, <2>2, <2>3 DEF UpTo, TypeOK
<1>3. /\ log' \in Seq(Op) /\ Len(log') = start
      /\ \A i \in 1..start : log'[i] = log[i]
  <2>1. start \in 0..Len(log) /\ log \in Seq(Op)
    BY <1>2 DEF TypeOK
  <2>2. log' = SubSeq(log, 1, start)
    BY <1>1
  <2> HIDE DEF start
  <2>3. QED
    BY <2>1, <2>2, SubSeqStart
<1>4. tx \in Seq(Op)
  <2>1. log \in Seq(Op) /\ start + 1 \in 1..(Len(log) + 1) /\ blocks[top].upto = Len(log)
    BY <1>2 DEF TypeOK
  <2> HIDE DEF start, top
  <2>2. QED
    BY <2>1, SubSeqOf
<1>5. mempool' \in [Node -> Seq(Seq(Op))]
  <2>1. <<tx>> \o mempool[from] \in Seq(Seq(Op))
    BY <1>1, <1>4 DEF TypeOK
  <2>2. QED
    BY <1>1, <2>1 DEF TypeOK
<1>6. blk \in Block
  BY <1>2 DEF Block
<1>7. /\ blocks' \in Seq(Block) /\ Len(blocks') = top
      /\ \A b \in 1..(top - 1) : blocks'[b] = blocks[b]
      /\ blocks'[top] = blk
  BY <1>1, <1>6 DEF TypeOK
<1>8. /\ \A b \in 0..(top - 1) : UpTo(b)' = UpTo(b)
      /\ \A b \in Nat : b = top => UpTo(b)' = start
  <2>1. top \in Nat \ {0}
    BY <1>1
  <2>2. ASSUME NEW b \in 0..(top - 1) PROVE UpTo(b)' = UpTo(b)
    BY <1>7, <2>1, <2>2 DEF UpTo
  <2>3. ASSUME NEW b \in Nat, b = top PROVE UpTo(b)' = start
    <3>1. UpTo(b)' = blocks'[b].upto
      BY <2>1, <2>3 DEF UpTo
    <3>2. QED
      BY <1>7, <2>3, <3>1
  <2>4. QED
    BY <2>2, <2>3
<1>9. \A b \in 0..(top - 1) : UpTo(b) \in Nat /\ UpTo(b) <= start
  BY <1>1, UpToType DEF ChainInv
<1>10. ChainInv'
  <2> SUFFICES ASSUME NEW b \in 0..top, NEW c \in 0..top, b <= c
               PROVE  UpTo(b)' <= UpTo(c)'
    BY <1>3, <1>7, <1>8 DEF ChainInv
  <2>1. CASE c = top /\ b = top
    BY <1>2, <1>8, <2>1
  <2>2. CASE c = top /\ b # top
    BY <1>1, <1>8, <1>9, <2>2
  <2>3. CASE c # top
    BY <1>1, <1>8, <2>3 DEF ChainInv
  <2>4. QED
    BY <2>1, <2>2, <2>3
<1>11. Confirmed' = Confirmed /\ Confirmed \in 0..(top - 1)
  <2>1. Len(blocks) \in Nat \ {0} /\ Len(blocks') = Len(blocks)
    BY <1>1, <1>7
  <2>2. QED
    BY <2>1, PipelineAssumption DEF Confirmed
<1>12. \A i \in 1..Settled : log'[i] = log[i]
  BY <1>3, <1>2, <1>9, <1>11 DEF Settled
<1>13. QED
  BY <1>3, <1>5, <1>7, <1>8, <1>10, <1>11, <1>12 DEF Keeps

(***************************************************************************)
(* Steps, as the chain sees them and as a node sees them.                  *)
(***************************************************************************)

\* Nothing of what node n's receiver and PUTs work on changes.
Quiet(n) ==
  /\ journal'[n] = journal[n] /\ hashes'[n] = hashes[n]
  /\ last'[n] = last[n] /\ pos'[n] = pos[n] /\ phase'[n] = phase[n]

LEMMA ChainStep ==
  ASSUME TypeOK, ChainInv, [Next]_vars
  PROVE  ChainInv' /\ Keeps
<1>1. CASE UNCHANGED <<log, blocks>>
  BY <1>1, SameChain
<1>2. CASE MineEmpty
  BY <1>2, MineEmptyKeeps
<1>3. CASE Reorg
  BY <1>3, ReorgKeeps
<1>4. ASSUME NEW n \in Node, Mine(n) PROVE ChainInv' /\ Keeps
  BY <1>4, MineKeeps
<1>5. QED
  BY <1>1, <1>2, <1>3, <1>4
     DEF Next, vars, chain, Api, Sender, Receiver, Crash, PostCheck, PostUpsert,
         Broadcast, MarkSent, SenderCrash, FetchBlock, ApplyOp, InsertHash,
         UpsertOperation, FinishBlock, ReceiverCrash, DbCrash

LEMMA NodeStep ==
  ASSUME TypeOK, [Next]_vars, NEW n \in Node
  PROVE  Quiet(n) \/ Receiver(n) \/ ReceiverCrash(n) \/ DbCrash(n)
<1> USE DEF Quiet
<1>1. CASE UNCHANGED <<journal, hashes, last, pos, phase>>
  BY <1>1
<1>2. ASSUME NEW m \in Node, m # n, Receiver(m) PROVE Quiet(n)
  BY <1>2 DEF TypeOK, Receiver, FetchBlock, ApplyOp, InsertHash, UpsertOperation,
              FinishBlock
<1>3. ASSUME NEW m \in Node, m # n, ReceiverCrash(m) \/ DbCrash(m) PROVE Quiet(n)
  BY <1>3 DEF TypeOK, ReceiverCrash, DbCrash
<1>4. QED
  BY <1>1, <1>2, <1>3
     DEF Next, vars, node, Api, Sender, Crash, PostCheck, PostUpsert, Broadcast,
         MarkSent, SenderCrash, Mine, MineEmpty, Reorg

(***************************************************************************)
(* Type correctness and the receivers' positions.                          *)
(***************************************************************************)

LEMMA PosInit == Init => PosInv
<1> SUFFICES ASSUME Init PROVE PosInv
  OBVIOUS
<1>1. TypeOK
  BY DEF Init, TypeOK, RecordState, Phase
<1>2. Len(blocks) = 0 /\ Len(log) = 0
  BY DEF Init
<1>3. ChainInv
  BY <1>2 DEF ChainInv, UpTo
<1>4. ASSUME NEW n \in Node PROVE ReceiverInv(n)
  <2>1. Confirmed = 0
    BY <1>2, PipelineAssumption DEF Confirmed
  <2>2. QED
    BY <2>1 DEF Init, ReceiverInv, UpTo
<1>5. QED
  BY <1>1, <1>3, <1>4 DEF PosInv

\* A list of operations a collection can yield is a sequence.
LEMMA BatchType ==
  ASSUME NEW S \in SUBSET Op, NEW b \in Batches(S)
  PROVE  b \in Seq(Op)
<1>1. IsFiniteSet(S)
  BY PipelineAssumption, FS_Subset
<1>2. Cardinality(S) \in Nat
  BY <1>1, FS_CardinalityType
<1>3. SmallerOf(MaxBatch, Cardinality(S)) \in Nat
  BY <1>2, PipelineAssumption DEF SmallerOf
<1>4. b \in [1..SmallerOf(MaxBatch, Cardinality(S)) -> S]
  BY DEF Batches
<1>5. b \in Seq(S)
  BY <1>3, <1>4
<1>6. QED
  BY <1>5

\* The operation a receiver takes, or has just taken, is one of the log.
LEMMA TakenType ==
  ASSUME PosInv, NEW n \in Node
  PROVE  /\ phase[n] = "block" /\ pos[n] < UpTo(last[n] + 1) =>
              /\ pos[n] + 1 \in 1..Settled
              /\ pos[n] + 1 \in 1..Len(log)
              /\ log[pos[n] + 1] \in Op
         /\ phase[n] \in {"hash", "record"} =>
              /\ pos[n] \in 1..Settled
              /\ pos[n] \in 1..Len(log)
              /\ log[pos[n]] \in Op
<1>1. /\ log \in Seq(Op) /\ Len(log) \in Nat /\ pos[n] \in Nat /\ last[n] \in Nat
      /\ Len(blocks) \in Nat
  BY DEF PosInv, TypeOK
<1>2. pos[n] <= Len(log) /\ pos[n] <= Settled
  BY PosIsSettled
<1>s. Settled \in Nat /\ Settled <= Len(log)
  BY SettledType DEF PosInv
<1>3. ASSUME phase[n] = "block", pos[n] < UpTo(last[n] + 1)
      PROVE  pos[n] + 1 \in 1..Settled /\ pos[n] + 1 \in 1..Len(log)
  <2>1. Confirmed \in 0..Len(blocks) /\ last[n] + 1 \in 0..Confirmed
    BY <1>3, ConfirmedType, PosIsSettled DEF PosInv
  <2>2. UpTo(last[n] + 1) \in Nat /\ UpTo(last[n] + 1) <= Settled
    BY <1>1, <2>1, UpToType DEF PosInv, ChainInv, Settled
  <2>3. QED
    BY <1>1, <1>3, <1>s, <2>2
<1>4. ASSUME phase[n] \in {"hash", "record"}
      PROVE  pos[n] \in 1..Settled /\ pos[n] \in 1..Len(log)
  BY <1>1, <1>2, <1>4, <1>s DEF PosInv, ReceiverInv
<1>5. QED
  BY <1>1, <1>3, <1>4, ElementOfSeq

LEMMA TypeStep == PosInv /\ [Next]_vars => TypeOK'
<1> SUFFICES ASSUME PosInv, [Next]_vars PROVE TypeOK'
  OBVIOUS
<1>t. TypeOK /\ ChainInv
  BY DEF PosInv
<1> USE DEF node, chain, counters, RecordState, Phase
<1>1. CASE UNCHANGED vars
  BY <1>t, <1>1 DEF TypeOK, vars
<1>2. CASE MineEmpty
  BY <1>t, <1>2, MineEmptyKeeps DEF TypeOK, MineEmpty
<1>3. CASE Reorg
  <2>1. /\ reorgs' = reorgs + 1
        /\ UNCHANGED <<node, posting, marking, posts,
                       senderCrashes, receiverCrashes, dbCrashes>>
    BY <1>3 DEF Reorg
  <2>2. /\ log' \in Seq(Op) /\ blocks' \in Seq(Block)
        /\ mempool' \in [Node -> Seq(Seq(Op))]
    BY <1>t, <1>3, ReorgKeeps
  <2>3. QED
    BY <1>t, <2>1, <2>2 DEF TypeOK
<1>4. ASSUME NEW n \in Node, Mine(n) PROVE TypeOK'
  BY <1>t, <1>4, MineKeeps DEF TypeOK, Mine
<1>5. ASSUME NEW n \in Node, NEW op \in Op, PostCheck(n, op) PROVE TypeOK'
  BY <1>t, <1>5 DEF TypeOK, PostCheck
<1>6. ASSUME NEW n \in Node, NEW op \in Op, PostUpsert(n, op) PROVE TypeOK'
  BY <1>t, <1>6 DEF TypeOK, PostUpsert
<1>7. ASSUME NEW n \in Node, Broadcast(n) PROVE TypeOK'
  <2>1. InitOps(n) \in SUBSET Op
    BY DEF InitOps
  <2>2. PICK b \in Batches(InitOps(n)) :
          /\ mempool' = [mempool EXCEPT ![n] = Append(@, b)]
          /\ marking' = [marking EXCEPT ![n] = OpsOf(b)]
    BY <1>7 DEF Broadcast
  <2>3. b \in Seq(Op)
    BY <2>1, BatchType
  <2>4. OpsOf(b) \in SUBSET Op
    BY <2>3 DEF OpsOf
  <2>5. Append(mempool[n], b) \in Seq(Seq(Op))
    BY <1>t, <2>3 DEF TypeOK
  <2>6. QED
    BY <1>t, <1>7, <2>2, <2>4, <2>5 DEF TypeOK, Broadcast
<1>8. ASSUME NEW n \in Node, NEW op \in Op, MarkSent(n, op) PROVE TypeOK'
  <2>1. CASE record[n][op] = "none"
    BY <1>t, <1>8, <2>1 DEF TypeOK, MarkSent
  <2>2. CASE record[n][op] # "none"
    <3>1. /\ record' = [record EXCEPT ![n][op] = "sent"]
          /\ marking' = [marking EXCEPT ![n] = @ \ {op}]
          /\ UNCHANGED <<hashes, journal, last, pos, phase, posting, chain, counters>>
      BY <1>8, <2>2 DEF MarkSent
    <3>2. record' \in [Node -> [Op -> RecordState]]
      BY <1>t, <3>1 DEF TypeOK
    <3>3. QED
      BY <1>t, <3>1, <3>2 DEF TypeOK
  <2>3. QED
    BY <2>1, <2>2
<1>9. ASSUME NEW n \in Node, SenderCrash(n) PROVE TypeOK'
  BY <1>t, <1>9 DEF TypeOK, SenderCrash
<1>10. ASSUME NEW n \in Node, FetchBlock(n) PROVE TypeOK'
  BY <1>t, <1>10 DEF TypeOK, FetchBlock
<1>11. ASSUME NEW n \in Node, ApplyOp(n) PROVE TypeOK'
  <2> DEFINE op == log[pos[n] + 1]
             ok == ~AppliedBefore(n, op) /\ Accepts(journal[n], op)
  <2>1. op \in Op
    BY <1>11, TakenType DEF ApplyOp
  <2>2. ok \in BOOLEAN
    OBVIOUS
  <2>3. /\ journal' = [journal EXCEPT ![n] = Append(@, [op |-> op, ok |-> ok])]
        /\ phase' = [phase EXCEPT ![n] = IF ok THEN "hash" ELSE "record"]
        /\ pos' = [pos EXCEPT ![n] = @ + 1]
    BY <1>11 DEF ApplyOp
  <2> HIDE DEF op, ok
  <2>4. [op |-> op, ok |-> ok] \in Outcome
    BY <2>1, <2>2 DEF Outcome
  <2>5. journal' \in [Node -> Seq(Outcome)]
    BY <1>t, <2>3, <2>4 DEF TypeOK
  <2>6. phase' \in [Node -> Phase] /\ pos' \in [Node -> Nat]
    BY <1>t, <2>3 DEF TypeOK
  <2>7. QED
    BY <1>t, <1>11, <2>5, <2>6 DEF TypeOK, ApplyOp
<1>12. ASSUME NEW n \in Node, InsertHash(n) PROVE TypeOK'
  <2>1. log[pos[n]] \in Op
    BY <1>12, TakenType DEF InsertHash
  <2>2. QED
    BY <1>t, <1>12, <2>1 DEF TypeOK, InsertHash
<1>13. ASSUME NEW n \in Node, UpsertOperation(n) PROVE TypeOK'
  <2>1. log[pos[n]] \in Op
    BY <1>13, TakenType DEF UpsertOperation
  <2>2. QED
    BY <1>t, <1>13, <2>1 DEF TypeOK, UpsertOperation
<1>14. ASSUME NEW n \in Node, FinishBlock(n) PROVE TypeOK'
  <2>1. record' \in [Node -> [Op -> RecordState]]
    <3>1. CASE UNCHANGED record
      BY <1>t, <3>1 DEF TypeOK
    <3>2. CASE \E gone \in SUBSET Stale :
                 record' = [record EXCEPT ![n] =
                   [op \in Op |-> IF op \in gone THEN "none" ELSE record[n][op]]]
      BY <1>t, <3>2 DEF TypeOK
    <3>3. QED
      BY <1>14, <3>1, <3>2 DEF FinishBlock
  <2>2. /\ last' = [last EXCEPT ![n] = @ + 1]
        /\ phase' = [phase EXCEPT ![n] = "wait"]
        /\ UNCHANGED <<hashes, journal, pos, posting, marking, chain, counters>>
    BY <1>14 DEF FinishBlock
  <2>3. QED
    BY <1>t, <2>1, <2>2 DEF TypeOK
<1>15. ASSUME NEW n \in Node, ReceiverCrash(n) \/ DbCrash(n) PROVE TypeOK'
  <2>1. UpTo(last[n]) \in Nat
    <3>1. Confirmed \in 0..Len(blocks) /\ last[n] \in 0..Confirmed
      BY <1>t, ConfirmedType, PosIsSettled
    <3>2. last[n] \in 0..Len(blocks)
      BY <1>t, <3>1 DEF TypeOK
    <3>3. QED
      BY <1>t, <3>2, UpToType
  <2>2. CASE ReceiverCrash(n)
    BY <1>t, <2>1, <2>2 DEF TypeOK, ReceiverCrash
  <2>3. CASE DbCrash(n)
    BY <1>t, <2>1, <2>3 DEF TypeOK, DbCrash
  <2>4. QED
    BY <1>15, <2>2, <2>3
<1>16. QED
  BY <1>1, <1>2, <1>3, <1>4, <1>5, <1>6, <1>7, <1>8, <1>9, <1>10, <1>11, <1>12,
     <1>13, <1>14, <1>15
     DEF Next, Api, Sender, Receiver, Crash

\* Whatever happens to the chain, a quiet receiver stays where it is in it.
LEMMA QuietReceiver ==
  ASSUME PosInv, TypeOK', Keeps, NEW n \in Node, Quiet(n)
  PROVE  ReceiverInv(n)'
<1>1. /\ last[n] \in 0..Confirmed /\ Confirmed <= Confirmed'
      /\ phase[n] # "wait" => last[n] + 1 \in 0..Confirmed
      /\ phase[n] \in {"hash", "record"} => pos[n] \in 1..Settled
  BY PosIsSettled, TakenType DEF Keeps
<1>2. UpTo(last[n])' = UpTo(last[n])
  BY <1>1 DEF Keeps, Quiet, UpTo
<1>3. phase[n] # "wait" => UpTo(last[n] + 1)' = UpTo(last[n] + 1)
  BY <1>1 DEF Keeps, Quiet, UpTo
<1>4. phase[n] \in {"hash", "record"} => log'[pos[n]] = log[pos[n]]
  BY <1>1 DEF Keeps
<1>5. ReceiverInv(n) /\ Confirmed \in Nat
  BY ConfirmedType DEF PosInv
<1>6. /\ last'[n] <= Confirmed'
      /\ phase'[n] # "wait" => last'[n] < Confirmed' /\ pos'[n] <= UpTo(last[n] + 1)'
      /\ phase'[n] = "wait" => pos'[n] = UpTo(last[n])'
      /\ UpTo(last[n])' <= pos'[n]
  <2>1. Confirmed' \in Nat
    BY PipelineAssumption DEF TypeOK, Confirmed
  <2>2. QED
    BY <1>1, <1>2, <1>3, <1>5, <2>1 DEF ReceiverInv, Quiet
<1>7. /\ phase'[n] \in {"hash", "record"} =>
           /\ 0 < pos'[n] /\ 0 < Len(journal'[n])
           /\ journal'[n][Len(journal'[n])].op = log'[pos'[n]]
      /\ phase'[n] = "hash" => LastOk(n)'
  BY <1>4, <1>5 DEF ReceiverInv, Quiet, LastOk
<1>8. QED
  BY <1>6, <1>7 DEF ReceiverInv

\* A step of the receiver itself.
LEMMA BusyReceiver ==
  ASSUME PosInv, NEW n \in Node, Receiver(n) \/ ReceiverCrash(n) \/ DbCrash(n)
  PROVE  ReceiverInv(n)'
<1>1. UNCHANGED <<log, blocks>>
  BY DEF Receiver, FetchBlock, ApplyOp, InsertHash, UpsertOperation, FinishBlock,
         ReceiverCrash, DbCrash, chain
<1>2. Confirmed' = Confirmed /\ \A b \in Nat : UpTo(b)' = UpTo(b)
  BY <1>1 DEF Confirmed, UpTo
<1>3. ReceiverInv(n) /\ TypeOK /\ ChainInv
  BY DEF PosInv
<1>4. /\ Confirmed \in Nat /\ Confirmed <= Len(blocks) /\ Len(blocks) \in Nat
      /\ last[n] \in 0..Confirmed /\ pos[n] \in Nat
      /\ UpTo(last[n]) \in Nat
  <2>1. Confirmed \in 0..Len(blocks) /\ Len(blocks) \in Nat /\ last[n] \in 0..Confirmed
    BY <1>3, ConfirmedType, PosIsSettled DEF TypeOK
  <2>2. UpTo(last[n]) \in Nat
    BY <1>3, <2>1, UpToType
  <2>3. QED
    BY <1>3, <2>1, <2>2 DEF TypeOK
<1>5. CASE FetchBlock(n)
  <2>1. UpTo(last[n]) <= UpTo(last[n] + 1)
    BY <1>3, <1>4, <1>5 DEF ChainInv, FetchBlock
  <2>2. /\ phase[n] = "wait" /\ last[n] < Confirmed
        /\ phase'[n] = "block" /\ last' = last /\ pos' = pos
    BY <1>3, <1>5 DEF FetchBlock, TypeOK
  <2>3. QED
    BY <1>1, <1>2, <1>3, <1>4, <2>1, <2>2 DEF ReceiverInv, UpTo
<1>6. CASE ApplyOp(n)
  <2> DEFINE op == log[pos[n] + 1]
             ok == ~AppliedBefore(n, op) /\ Accepts(journal[n], op)
  <2>1. /\ phase[n] = "block" /\ pos[n] < UpTo(last[n] + 1)
        /\ journal'[n] = Append(journal[n], [op |-> op, ok |-> ok])
        /\ phase'[n] = IF ok THEN "hash" ELSE "record"
        /\ pos'[n] = pos[n] + 1 /\ last' = last
    BY <1>3, <1>6 DEF ApplyOp, TypeOK
  <2>2. ok \in BOOLEAN /\ op \in Op
    BY <2>1, TakenType
  <2> HIDE DEF op, ok
  <2>3. [op |-> op, ok |-> ok] \in Outcome
    BY <2>2 DEF Outcome
  <2>4. /\ Len(journal'[n]) = Len(journal[n]) + 1 /\ Len(journal[n]) \in Nat
        /\ journal'[n][Len(journal'[n])] = [op |-> op, ok |-> ok]
    BY <1>3, <2>1, <2>3, AppendProperties DEF TypeOK
  <2>5. last[n] < Confirmed /\ UpTo(last[n]) <= pos[n] /\ UpTo(last[n] + 1) \in Nat
    BY <1>3, <1>4, <2>1, UpToType DEF ReceiverInv
  <2>6. /\ last'[n] <= Confirmed'
        /\ last'[n] < Confirmed' /\ pos'[n] <= UpTo(last[n] + 1)'
        /\ UpTo(last[n])' <= pos'[n]
    BY <1>1, <1>4, <2>1, <2>5 DEF UpTo, Confirmed
  <2>7. /\ 0 < pos'[n] /\ 0 < Len(journal'[n])
        /\ journal'[n][Len(journal'[n])].op = log'[pos'[n]]
        /\ phase'[n] = "hash" => LastOk(n)'
    BY <1>1, <1>4, <2>1, <2>4 DEF LastOk, op
  <2>8. phase'[n] # "wait"
    BY <2>1
  <2>9. QED
    BY <2>6, <2>7, <2>8 DEF ReceiverInv
<1>7. CASE InsertHash(n)
  <2>1. /\ phase[n] = "hash" /\ phase'[n] = "record"
        /\ UNCHANGED <<journal, last, pos, log>>
    BY <1>3, <1>7 DEF InsertHash, TypeOK, chain
  <2>2. QED
    BY <1>1, <1>2, <1>3, <2>1 DEF ReceiverInv, UpTo
<1>8. CASE UpsertOperation(n)
  <2>1. /\ phase[n] = "record" /\ phase'[n] = "block"
        /\ UNCHANGED <<journal, last, pos, log>>
    BY <1>3, <1>8 DEF UpsertOperation, TypeOK, chain
  <2>2. QED
    BY <1>1, <1>2, <1>3, <2>1 DEF ReceiverInv, UpTo
<1>9. CASE FinishBlock(n)
  <2>1. /\ phase[n] = "block" /\ pos[n] = UpTo(last[n] + 1)
        /\ last'[n] = last[n] + 1 /\ phase'[n] = "wait"
        /\ UNCHANGED <<journal, pos, log>>
    BY <1>3, <1>9 DEF FinishBlock, TypeOK, chain
  <2>2. last[n] < Confirmed
    BY <1>3, <2>1 DEF ReceiverInv
  <2>3. UpTo(last[n])' = pos'[n] /\ pos'[n] \in Nat
    BY <1>1, <1>4, <2>1 DEF UpTo
  <2>4. QED
    BY <1>2, <1>4, <2>1, <2>2, <2>3 DEF ReceiverInv
<1>10. CASE ReceiverCrash(n) \/ DbCrash(n)
  <2>1. /\ phase'[n] = "wait" /\ pos'[n] = UpTo(last[n]) /\ last' = last
    BY <1>3, <1>10 DEF ReceiverCrash, DbCrash, TypeOK
  <2>2. UpTo(last[n])' = UpTo(last[n])
    BY <1>1, <2>1 DEF UpTo
  <2>3. QED
    BY <1>2, <1>4, <2>1, <2>2 DEF ReceiverInv
<1>11. QED
  BY <1>5, <1>6, <1>7, <1>8, <1>9, <1>10 DEF Receiver

LEMMA PosStep == PosInv /\ [Next]_vars => PosInv'
<1> SUFFICES ASSUME PosInv, [Next]_vars PROVE PosInv'
  OBVIOUS
<1>1. TypeOK' /\ ChainInv' /\ Keeps
  BY TypeStep, ChainStep DEF PosInv
<1>2. ASSUME NEW n \in Node PROVE ReceiverInv(n)'
  <2>1. CASE Quiet(n)
    BY <1>1, <2>1, QuietReceiver
  <2>2. CASE Receiver(n) \/ ReceiverCrash(n) \/ DbCrash(n)
    BY <2>2, BusyReceiver
  <2>3. QED
    BY <2>1, <2>2, NodeStep DEF PosInv
<1>3. QED
  BY <1>1, <1>2 DEF PosInv

\* Where the receivers stand in the chain, in every reachable state.
THEOREM Positions == Spec => []PosInv
BY PosInit, PosStep, PTL DEF Spec

\* Every variable keeps its type, whatever crashes and reorganisations happen.
THEOREM TypeCorrect == Spec => []TypeOK
<1>1. PosInv => TypeOK
  BY DEF PosInv
<1>2. QED
  BY <1>1, Positions, PTL

(***************************************************************************)
(* What a node has done so far.                                            *)
(***************************************************************************)

Did(n, op) ==
  \E i \in 1..Len(journal[n]) : journal[n][i].op = op /\ journal[n][i].ok

\* The outcome that the outcomes j before it leave for operation op.
Verdict(j, op) ==
  [op |-> op,
   ok |-> /\ ~\E i \in 1..Len(j) : j[i].op = op /\ j[i].ok
          /\ Accepts(j, op)]

\* The journal follows the log up to the receiver's position.
InStep(n) ==
  Uninterrupted => /\ Len(journal[n]) = pos[n]
                   /\ \A i \in 1..pos[n] : journal[n][i].op = log[i]

\* A hash says that the operation was executed, and unless the database stopped
\* every execution has left its hash, but for the PUT on its way to insert it.
HashesTell(n) ==
  /\ \A op \in hashes[n] : Did(n, op)
  /\ phase[n] = "record" /\ LastOk(n) => log[pos[n]] \in hashes[n]
  /\ dbCrashes = 0 =>
       \A i \in 1..Len(journal[n]) :
         journal[n][i].ok => \/ journal[n][i].op \in hashes[n]
                             \/ phase[n] = "hash" /\ i = Len(journal[n])

Once(n) ==
  dbCrashes = 0 =>
    \A i, j \in 1..Len(journal[n]) :
      /\ journal[n][i].ok /\ journal[n][j].ok
      /\ journal[n][i].op = journal[n][j].op
      => i = j

\* Every outcome is the verdict on what went before.
Determined(n) ==
  dbCrashes = 0 =>
    \A i \in 1..Len(journal[n]) :
      journal[n][i] = Verdict(SubSeq(journal[n], 1, i - 1), journal[n][i].op)

History(n) == InStep(n) /\ HashesTell(n) /\ Once(n) /\ Determined(n)

HistoryInv == PosInv /\ \A n \in Node : History(n)

LEMMA HistoryInit == Init => HistoryInv
<1> SUFFICES ASSUME Init, NEW n \in Node PROVE History(n)
  BY PosInit DEF HistoryInv
<1>1. Len(journal[n]) = 0 /\ pos[n] = 0 /\ hashes[n] = {} /\ phase[n] = "wait"
  BY DEF Init
<1>2. QED
  BY <1>1 DEF History, InStep, HashesTell, Once, Determined

\* Crashes are counted and never forgotten.
LEMMA CrashesCount ==
  ASSUME TypeOK, [Next]_vars
  PROVE  /\ dbCrashes' = 0 => dbCrashes = 0
         /\ Uninterrupted' => Uninterrupted
         /\ \A n \in Node : DbCrash(n) => dbCrashes' # 0
         /\ \A n \in Node : ReceiverCrash(n) \/ DbCrash(n) => ~Uninterrupted'
<1>1. ASSUME NEW n \in Node, DbCrash(n)
      PROVE  dbCrashes' = dbCrashes + 1 /\ receiverCrashes' = receiverCrashes
  BY <1>1 DEF DbCrash
<1>2. ASSUME NEW n \in Node, ReceiverCrash(n)
      PROVE  dbCrashes' = dbCrashes /\ receiverCrashes' = receiverCrashes + 1
  BY <1>2 DEF ReceiverCrash
<1>3. \/ UNCHANGED <<receiverCrashes, dbCrashes>>
      \/ \E n \in Node : ReceiverCrash(n) \/ DbCrash(n)
  BY DEF Next, vars, counters, Api, Sender, Receiver, Crash, PostCheck, PostUpsert,
         Broadcast, MarkSent, SenderCrash, FetchBlock, ApplyOp, InsertHash,
         UpsertOperation, FinishBlock, Mine, MineEmpty, Reorg
<1>4. receiverCrashes \in Nat /\ dbCrashes \in Nat
  BY DEF TypeOK
<1>5. QED
  BY <1>1, <1>2, <1>3, <1>4 DEF Uninterrupted

LEMMA QuietHistory ==
  ASSUME HistoryInv, [Next]_vars, NEW n \in Node, Quiet(n)
  PROVE  History(n)'
<1>1. /\ History(n) /\ TypeOK /\ ChainInv /\ PosInv
      /\ Keeps /\ pos[n] <= Settled /\ Settled \in Nat /\ pos[n] \in Nat
      /\ phase[n] \in {"hash", "record"} => pos[n] \in 1..Settled
  BY ChainStep, PosIsSettled, SettledType, TakenType DEF HistoryInv, PosInv, TypeOK
<1>2. \A i \in 1..pos[n] : log'[i] = log[i]
  BY <1>1 DEF Keeps
<1>3. /\ dbCrashes' = 0 => dbCrashes = 0
      /\ Uninterrupted' => Uninterrupted
  BY <1>1, CrashesCount
<1>4. InStep(n)'
  BY <1>1, <1>2, <1>3 DEF History, InStep, Quiet
<1>5. HashesTell(n)'
  <2>1. phase[n] = "record" => log'[pos[n]] = log[pos[n]]
    BY <1>1 DEF Keeps
  <2>2. QED
    BY <1>1, <1>3, <2>1 DEF History, HashesTell, Quiet, LastOk, Did
<1>6. Once(n)'
  BY <1>1, <1>3 DEF History, Once, Quiet
<1>7. Determined(n)'
  BY <1>1, <1>3 DEF History, Determined, Quiet, Verdict
<1>8. QED
  BY <1>4, <1>5, <1>6, <1>7 DEF History

\* The one step that adds to the journal.
LEMMA ApplyHistory ==
  ASSUME HistoryInv, [Next]_vars, NEW n \in Node, ApplyOp(n)
  PROVE  History(n)'
<1> DEFINE j == journal[n]
           k == Len(journal[n])
           op == log[pos[n] + 1]
           ok == ~AppliedBefore(n, op) /\ Accepts(j, op)
           entry == [op |-> op, ok |-> ok]
<1>1. /\ phase[n] = "block" /\ pos[n] < UpTo(last[n] + 1)
      /\ journal'[n] = Append(j, entry)
      /\ phase'[n] = IF ok THEN "hash" ELSE "record"
      /\ pos'[n] = pos[n] + 1
      /\ UNCHANGED <<hashes, log, dbCrashes, receiverCrashes>>
  BY DEF ApplyOp, HistoryInv, PosInv, TypeOK, chain, counters
<1>2. /\ TypeOK /\ PosInv /\ History(n) /\ j \in Seq(Outcome) /\ k \in Nat
      /\ pos[n] \in Nat
  BY DEF HistoryInv, PosInv, TypeOK
<1>3. op \in Op /\ ok \in BOOLEAN
  BY <1>1, <1>2, TakenType
<1> HIDE DEF op, ok
<1>4. entry \in Outcome /\ entry.op = op /\ entry.ok = ok
  BY <1>3 DEF Outcome
<1> HIDE DEF entry
<1>5. /\ Len(journal'[n]) = k + 1
      /\ \A i \in 1..k : journal'[n][i] = journal[n][i]
      /\ journal'[n][k + 1] = entry
  BY <1>1, <1>2, <1>4, AppendProperties
<1>6. \A o \in Op : o \in hashes[n] => Did(n, o)
  BY <1>2 DEF History, HashesTell
<1>7. dbCrashes = 0 =>
        \A i \in 1..k : journal[n][i].ok => journal[n][i].op \in hashes[n]
  BY <1>1, <1>2 DEF History, HashesTell
<1>8. InStep(n)'
  <2> SUFFICES ASSUME Uninterrupted
               PROVE  /\ Len(journal'[n]) = pos'[n]
                      /\ \A i \in 1..pos'[n] : journal'[n][i].op = log'[i]
    BY <1>1 DEF InStep, Uninterrupted
  <2>1. k = pos[n] /\ \A i \in 1..k : journal[n][i].op = log[i]
    BY <1>2 DEF History, InStep
  <2>2. entry.op = log[k + 1]
    BY <1>4, <2>1 DEF op
  <2>3. QED
    BY <1>1, <1>2, <1>5, <2>1, <2>2
<1>9. HashesTell(n)'
  <2>1. \A o \in hashes'[n] : Did(n, o)'
    BY <1>1, <1>2, <1>5 DEF Did, History, HashesTell
  <2>2. ~(phase'[n] = "record" /\ LastOk(n)')
    BY <1>1, <1>2, <1>3, <1>4, <1>5 DEF LastOk
  <2>3. dbCrashes' = 0 =>
          \A i \in 1..(k + 1) :
            journal'[n][i].ok => \/ journal'[n][i].op \in hashes'[n]
                                 \/ phase'[n] = "hash" /\ i = k + 1
    <3> SUFFICES ASSUME dbCrashes = 0, NEW i \in 1..(k + 1), journal'[n][i].ok
                 PROVE  \/ journal'[n][i].op \in hashes'[n]
                        \/ phase'[n] = "hash" /\ i = k + 1
      BY <1>1
    <3>1. CASE i = k + 1
      BY <1>1, <1>4, <1>5, <3>1
    <3>2. CASE i # k + 1
      BY <1>1, <1>2, <1>5, <1>7, <3>2
    <3>3. QED
      BY <3>1, <3>2
  <2>4. QED
    BY <1>5, <2>1, <2>2, <2>3 DEF HashesTell
<1>10. dbCrashes = 0 /\ ok => \A i \in 1..k : journal[n][i].ok => journal[n][i].op # op
  BY <1>7 DEF ok, AppliedBefore
<1>11. Once(n)'
  <2> SUFFICES ASSUME dbCrashes = 0,
                      NEW i \in 1..(k + 1), NEW l \in 1..(k + 1),
                      journal'[n][i].ok, journal'[n][l].ok,
                      journal'[n][i].op = journal'[n][l].op
               PROVE  i = l
    BY <1>1, <1>5 DEF Once
  <2>1. CASE i \in 1..k /\ l \in 1..k
    BY <1>2, <1>5, <2>1 DEF History, Once
  <2>2. CASE i = k + 1 /\ l \in 1..k
    BY <1>4, <1>5, <1>10, <2>2
  <2>3. CASE i \in 1..k /\ l = k + 1
    BY <1>4, <1>5, <1>10, <2>3
  <2>4. QED
    BY <1>2, <2>1, <2>2, <2>3
<1>12. Determined(n)'
  <2> SUFFICES ASSUME dbCrashes = 0, NEW i \in 1..(k + 1)
               PROVE  journal'[n][i] =
                        Verdict(SubSeq(journal'[n], 1, i - 1), journal'[n][i].op)
    BY <1>1, <1>5 DEF Determined, Verdict
  <2>1. SubSeq(journal'[n], 1, i - 1) = SubSeq(j, 1, i - 1)
    <3>1. i - 1 \in 0..k /\ journal'[n] \in Seq(Outcome)
      BY <1>1, <1>2, <1>4
    <3>2. /\ SubSeq(j, 1, i - 1) \in Seq(Outcome)
          /\ Len(SubSeq(j, 1, i - 1)) = i - 1
          /\ \A m \in 1..(i - 1) : SubSeq(j, 1, i - 1)[m] = j[m]
      BY <1>2, <3>1, SubSeqStart
    <3>3. /\ SubSeq(journal'[n], 1, i - 1) \in Seq(Outcome)
          /\ Len(SubSeq(journal'[n], 1, i - 1)) = i - 1
          /\ \A m \in 1..(i - 1) : SubSeq(journal'[n], 1, i - 1)[m] = journal'[n][m]
      BY <1>2, <1>5, <3>1, SubSeqStart
    <3>4. \A m \in 1..(i - 1) : j[m] = journal'[n][m]
      BY <1>2, <1>5
    <3>5. QED
      BY <3>1, <3>2, <3>3, <3>4, SeqEqual
  <2>2. CASE i \in 1..k
    BY <1>2, <1>5, <2>1, <2>2 DEF History, Determined
  <2>3. CASE i = k + 1
    <3>1. SubSeq(j, 1, i - 1) = j
      BY <1>2, <2>3, SubSeqFull
    <3>2. ok <=> (~\E m \in 1..k : journal[n][m].op = op /\ journal[n][m].ok)
                   /\ Accepts(j, op)
      BY <1>3, <1>6, <1>10, <1>7 DEF ok, AppliedBefore, Did
    <3>3. entry = Verdict(j, op)
      BY <1>3, <3>2 DEF entry, Verdict
    <3>4. QED
      BY <1>4, <1>5, <2>1, <2>3, <3>1, <3>3
  <2>4. QED
    BY <1>2, <2>2, <2>3
<1>13. QED
  BY <1>8, <1>9, <1>11, <1>12 DEF History

LEMMA BusyHistory ==
  ASSUME HistoryInv, [Next]_vars, NEW n \in Node,
         Receiver(n) \/ ReceiverCrash(n) \/ DbCrash(n)
  PROVE  History(n)'
<1>1. /\ TypeOK /\ PosInv /\ History(n) /\ ReceiverInv(n)
      /\ dbCrashes' = 0 => dbCrashes = 0
      /\ Uninterrupted' => Uninterrupted
      /\ ReceiverCrash(n) \/ DbCrash(n) => ~Uninterrupted'
      /\ DbCrash(n) => dbCrashes' # 0
  BY CrashesCount DEF HistoryInv, PosInv
<1>2. CASE ApplyOp(n)
  BY <1>2, ApplyHistory
<1>3. CASE InsertHash(n)
  <2>1. /\ phase[n] = "hash" /\ phase'[n] = "record"
        /\ hashes'[n] = hashes[n] \cup {log[pos[n]]}
        /\ UNCHANGED <<journal, pos, log, dbCrashes, receiverCrashes>>
    BY <1>1, <1>3 DEF InsertHash, TypeOK, chain, counters
  <2>2. /\ Len(journal[n]) \in 1..Len(journal[n]) /\ LastOk(n)
        /\ journal[n][Len(journal[n])].op = log[pos[n]]
    BY <1>1, <2>1 DEF ReceiverInv, TypeOK
  <2>3. InStep(n)' /\ Once(n)' /\ Determined(n)'
    BY <1>1, <2>1 DEF History, InStep, Once, Determined, Uninterrupted, Verdict
  <2>4. HashesTell(n)'
    BY <1>1, <2>1, <2>2 DEF History, HashesTell, LastOk, Did
  <2>5. QED
    BY <2>3, <2>4 DEF History
<1>4. CASE FetchBlock(n) \/ UpsertOperation(n) \/ FinishBlock(n)
  <2>1. /\ phase[n] # "hash" /\ phase'[n] \notin {"hash", "record"}
        /\ UNCHANGED <<journal, hashes, pos, log, dbCrashes, receiverCrashes>>
    BY <1>1, <1>4
       DEF FetchBlock, UpsertOperation, FinishBlock, TypeOK, chain, counters
  <2>2. InStep(n)' /\ Once(n)' /\ Determined(n)'
    BY <1>1, <2>1 DEF History, InStep, Once, Determined, Uninterrupted, Verdict
  <2>3. HashesTell(n)'
    BY <1>1, <2>1 DEF History, HashesTell, LastOk, Did
  <2>4. QED
    BY <2>2, <2>3 DEF History
<1>5. CASE ReceiverCrash(n)
  <2>1. /\ phase[n] = "block" /\ phase'[n] = "wait"
        /\ UNCHANGED <<journal, hashes, log, dbCrashes>>
    BY <1>1, <1>5 DEF ReceiverCrash, TypeOK, chain
  <2>2. Once(n)' /\ Determined(n)'
    BY <1>1, <2>1 DEF History, Once, Determined, Verdict
  <2>3. HashesTell(n)'
    BY <1>1, <2>1 DEF History, HashesTell, LastOk, Did
  <2>4. QED
    BY <1>1, <1>5, <2>2, <2>3 DEF History, InStep
<1>6. CASE DbCrash(n)
  <2>1. phase'[n] = "wait" /\ UNCHANGED <<journal, hashes, log>>
    BY <1>1, <1>6 DEF DbCrash, TypeOK, chain
  <2>2. HashesTell(n)'
    BY <1>1, <1>6, <2>1 DEF History, HashesTell, LastOk, Did
  <2>3. QED
    BY <1>1, <1>6, <2>2 DEF History, InStep, Once, Determined
<1>7. QED
  BY <1>2, <1>3, <1>4, <1>5, <1>6 DEF Receiver

LEMMA HistoryStep == HistoryInv /\ [Next]_vars => HistoryInv'
<1> SUFFICES ASSUME HistoryInv, [Next]_vars PROVE HistoryInv'
  OBVIOUS
<1>1. ASSUME NEW n \in Node PROVE History(n)'
  BY NodeStep, QuietHistory, BusyHistory DEF HistoryInv, PosInv
<1>2. QED
  BY <1>1, PosStep DEF HistoryInv

\* What the journals, hashes and positions say of each other, in every
\* reachable state.
THEOREM Histories == Spec => []HistoryInv
BY HistoryInit, HistoryStep, PTL DEF Spec

(***************************************************************************)
(* What follows.                                                           *)
(***************************************************************************)

\* Until a receiver is interrupted, a node has handled the operations of the
\* chain in its order, and only those no reorganisation can take back.
THEOREM NodesFollowTheChain == Spec => []FollowsChain
<1>1. HistoryInv => FollowsChain
  <2> SUFFICES ASSUME HistoryInv, Uninterrupted, NEW n \in Node
               PROVE  /\ Len(journal[n]) <= Settled
                      /\ \A i \in 1..Len(journal[n]) : journal[n][i].op = log[i]
    BY DEF FollowsChain
  <2>1. pos[n] <= Settled
    BY PosIsSettled DEF HistoryInv
  <2>2. QED
    BY <2>1 DEF HistoryInv, History, InStep
<1>2. QED
  BY <1>1, Histories, PTL

\* Unless the database stops inside a PUT, no node executes an operation twice.
THEOREM OperationsExecuteOnce == Spec => []ExecutedOnce
<1>1. HistoryInv => ExecutedOnce
  BY DEF HistoryInv, History, Once, ExecutedOnce
<1>2. QED
  BY <1>1, Histories, PTL

(***************************************************************************)
(* Agreement.  The outcome that a node appends is the verdict on its       *)
(* journal, and a node that is ahead gave its verdict on the same journal. *)
(***************************************************************************)

AgreementInv == HistoryInv /\ Agreement

LEMMA AgreementStep == AgreementInv /\ [Next]_vars => Agreement'
<1> SUFFICES ASSUME AgreementInv, [Next]_vars, Uninterrupted',
                    NEW m \in Node, NEW n \in Node,
                    NEW i \in 1..Len(journal'[m]), i <= Len(journal'[n])
             PROVE  journal'[m][i] = journal'[n][i]
  BY DEF Agreement
<1>1. /\ HistoryInv' /\ TypeOK' /\ HistoryInv /\ TypeOK
      /\ Uninterrupted /\ dbCrashes' = 0
  BY HistoryStep, CrashesCount DEF AgreementInv, HistoryInv, PosInv, Uninterrupted
<1>2. Agreement
  BY DEF AgreementInv
<1>3. ASSUME NEW x \in Node
      PROVE  /\ journal[x] \in Seq(Outcome) /\ journal'[x] \in Seq(Outcome)
             /\ Len(journal'[x]) <= Len(journal[x]) + 1
             /\ \A l \in 1..Len(journal[x]) : journal'[x][l] = journal[x][l]
  <2>1. journal[x] \in Seq(Outcome) /\ journal'[x] \in Seq(Outcome)
    BY <1>1 DEF TypeOK
  <2>2. CASE journal'[x] = journal[x]
    BY <2>1, <2>2
  <2>3. CASE ApplyOp(x)
    <3>1. PICK e : journal'[x] = Append(journal[x], e)
      BY <1>1, <2>3 DEF ApplyOp, TypeOK
    <3>2. QED
      BY <2>1, <3>1
  <2>4. QED
    BY <1>1, <2>2, <2>3, CrashesCount, NodeStep
       DEF Quiet, Receiver, FetchBlock, InsertHash, UpsertOperation, FinishBlock
<1>4. i \in Nat \ {0} /\ i - 1 \in 0..Len(journal'[m]) /\ i - 1 \in 0..Len(journal'[n])
  BY <1>3
<1>5. \A l \in 1..(i - 1) : journal'[m][l] = journal'[n][l]
  <2> SUFFICES ASSUME NEW l \in 1..(i - 1) PROVE journal'[m][l] = journal'[n][l]
    OBVIOUS
  <2>1. /\ l \in 1..Len(journal[m]) /\ l \in 1..Len(journal[n])
        /\ l <= Len(journal[n])
    BY <1>3, <1>4
  <2>2. journal[m][l] = journal[n][l]
    BY <1>1, <1>2, <2>1 DEF Agreement
  <2>3. QED
    BY <1>3, <2>1, <2>2
<1>6. SubSeq(journal'[m], 1, i - 1) = SubSeq(journal'[n], 1, i - 1)
  <2>1. ASSUME NEW x \in {m, n}
        PROVE  /\ SubSeq(journal'[x], 1, i - 1) \in Seq(Outcome)
               /\ Len(SubSeq(journal'[x], 1, i - 1)) = i - 1
               /\ \A l \in 1..(i - 1) : SubSeq(journal'[x], 1, i - 1)[l] = journal'[x][l]
    BY <1>3, <1>4, SubSeqStart
  <2>2. QED
    BY <1>5, <2>1, SeqEqual
<1>7. ASSUME NEW x \in {m, n}
      PROVE  journal'[x][i] = Verdict(SubSeq(journal'[x], 1, i - 1), log'[i])
  <2>1. InStep(x)' /\ Determined(x)' /\ i \in 1..Len(journal'[x])
    BY <1>1, <1>4 DEF HistoryInv, History
  <2>2. journal'[x][i].op = log'[i]
    BY <2>1 DEF InStep
  <2>3. journal'[x][i] = Verdict(SubSeq(journal'[x], 1, i - 1), journal'[x][i].op)
    BY <1>1, <2>1 DEF Determined, Verdict
  <2>4. QED
    BY <2>2, <2>3
<1>8. QED
  BY <1>6, <1>7

\* Until a receiver is interrupted, two nodes give every operation of the chain
\* the same outcome.
THEOREM NodesAgree == Spec => []Agreement
<1>1. Init => AgreementInv
  BY HistoryInit DEF AgreementInv, Agreement, Init
<1>2. AgreementInv /\ [Next]_vars => AgreementInv'
  BY AgreementStep, HistoryStep DEF AgreementInv
<1>3. AgreementInv => Agreement
  BY DEF AgreementInv
<1>4. QED
  BY <1>1, <1>2, <1>3, PTL DEF Spec

(***************************************************************************)
(* The refinement.  As long as no receiver is interrupted, the node that   *)
(* is furthest ahead extends the ledger, and the others follow it.         *)
(***************************************************************************)

\* A node that is not behind any other.
Ahead(n) == \A m \in Node : Len(journal[m]) <= Len(journal[n])

RefinementInv == AgreementInv /\ \E n \in Node : Ahead(n)

\* All nodes that are ahead have the same journal, so it does not matter which
\* one Ledger chooses.
LEMMA LedgerIsAhead ==
  AgreementInv /\ Uninterrupted => \A n \in Node : Ahead(n) => Ledger = journal[n]
<1> SUFFICES ASSUME AgreementInv, Uninterrupted, NEW n \in Node, Ahead(n)
             PROVE  Ledger = journal[n]
  OBVIOUS
<1> DEFINE ahead == CHOOSE x \in Node : \A m \in Node : Len(journal[m]) <= Len(journal[x])
<1>1. ahead \in Node /\ \A m \in Node : Len(journal[m]) <= Len(journal[ahead])
  BY DEF Ahead
<1>2. Ledger = journal[ahead]
  BY DEF Ledger
<1> HIDE DEF ahead
<1>3. journal[ahead] \in Seq(Outcome) /\ journal[n] \in Seq(Outcome)
  BY <1>1 DEF AgreementInv, HistoryInv, PosInv, TypeOK
<1>4. Len(journal[ahead]) = Len(journal[n])
  BY <1>1, <1>3 DEF Ahead
<1>5. \A i \in 1..Len(journal[n]) : journal[ahead][i] = journal[n][i]
  BY <1>1, <1>3, <1>4 DEF AgreementInv, Agreement
<1>6. journal[ahead] = journal[n]
  BY <1>3, <1>4, <1>5, SeqEqual
<1> QED  BY <1>2, <1>6

LEMMA RefinementInit == Init => RefinementInv /\ Log!Init
<1> SUFFICES ASSUME Init PROVE RefinementInv /\ Log!Init
  OBVIOUS
<1>1. AgreementInv /\ Uninterrupted
  BY HistoryInit DEF AgreementInv, Agreement, Init, Uninterrupted
<1>2. \A n \in Node : journal[n] = <<>> /\ Ahead(n)
  BY DEF Init, Ahead
<1>3. PICK n \in Node : Ahead(n) /\ journal[n] = <<>>
  BY <1>2, PipelineAssumption
<1>4. Ledger = <<>>
  BY <1>1, <1>3, LedgerIsAhead
<1>5. Log!Init
  BY <1>4 DEF Log!Init, Init
<1> QED  BY <1>1, <1>3, <1>5 DEF RefinementInv

\* Only the PUT of an operation adds to a journal, one outcome at a time.
LEMMA JournalStep ==
  ASSUME HistoryInv, [Next]_vars, journal' # journal
  PROVE  \E n \in Node, e \in Outcome :
           /\ ApplyOp(n)
           /\ journal' = [journal EXCEPT ![n] = Append(@, e)]
<1>1. PICK n \in Node : ApplyOp(n)
  BY DEF Next, vars, node, counters, Api, Sender, Receiver, Crash, PostCheck, PostUpsert,
         Broadcast, MarkSent, SenderCrash, ReceiverCrash, DbCrash, FetchBlock, InsertHash,
         UpsertOperation, FinishBlock, Mine, MineEmpty, Reorg
<1> DEFINE op == log[pos[n] + 1]
           e == [op |-> op, ok |-> ~AppliedBefore(n, op) /\ Accepts(journal[n], op)]
<1>2. journal' = [journal EXCEPT ![n] = Append(@, e)]
  BY <1>1 DEF ApplyOp
<1>3. op \in Op
  BY <1>1, TakenType DEF ApplyOp, HistoryInv
<1>4. e \in Outcome
  BY <1>3 DEF Outcome
<1> HIDE DEF e
<1> QED  BY <1>1, <1>2, <1>4

\* A node that is ahead gives its verdict, or one behind takes the ledger's.
LEMMA RefinementStep ==
  ASSUME RefinementInv, Uninterrupted', [Next]_vars
  PROVE  RefinementInv' /\ [Log!Next]_<<Ledger, journal>>
<1>1. /\ AgreementInv /\ HistoryInv /\ TypeOK
      /\ AgreementInv' /\ HistoryInv' /\ TypeOK'
      /\ Uninterrupted /\ dbCrashes' = 0
  BY AgreementStep, HistoryStep, CrashesCount
     DEF RefinementInv, AgreementInv, HistoryInv, PosInv, Uninterrupted
<1>0. AgreementInv' => (\A n \in Node : Ahead(n) => Ledger = journal[n])'
  <2>1. (AgreementInv /\ Uninterrupted => \A n \in Node : Ahead(n) => Ledger = journal[n])'
    BY LedgerIsAhead, PTL
  <2> QED  BY <2>1
<1>2. CASE journal' = journal
  <2>1. Ledger' = Ledger /\ (\E n \in Node : Ahead(n))'
    BY <1>2 DEF Ledger, Ahead, RefinementInv
  <2> QED  BY <1>1, <1>2, <2>1 DEF RefinementInv
<1>3. CASE journal' # journal
  <2>1. PICK n \in Node, e \in Outcome :
          journal' = [journal EXCEPT ![n] = Append(@, e)]
    BY <1>1, <1>3, JournalStep
  <2> DEFINE k == Len(journal[n])
  <2>2. \A m \in Node : journal[m] \in Seq(Outcome) /\ Len(journal[m]) \in Nat
    BY <1>1 DEF TypeOK
  <2>3. /\ journal'[n] = Append(journal[n], e)
        /\ Len(journal'[n]) = k + 1 /\ journal'[n][k + 1] = e
        /\ \A m \in Node : m # n => journal'[m] = journal[m]
    BY <1>1, <2>1, <2>2, AppendProperties DEF TypeOK
  <2>4. CASE Ahead(n)
    <3>1. Ahead(n)'
      BY <2>2, <2>3, <2>4 DEF Ahead
    <3>2. Ledger = journal[n] /\ Ledger' = journal'[n]
      <4>1. Ledger' = journal'[n]
        BY <1>0, <1>1, <3>1
      <4> QED  BY <1>1, <2>4, <4>1, LedgerIsAhead
    <3>3. e = Log!Verdict(e.op) /\ e.op \in Op
      <4>1. Determined(n)' /\ k + 1 \in 1..Len(journal'[n])
        BY <1>1, <2>2, <2>3 DEF HistoryInv, History
      <4>2. e = Verdict(SubSeq(journal'[n], 1, k), e.op)
        <5>1. (k + 1) - 1 = k
          BY <2>2
        <5>2. journal'[n][k + 1] =
                Verdict(SubSeq(journal'[n], 1, (k + 1) - 1), journal'[n][k + 1].op)
          BY <1>1, <4>1 DEF Determined, Verdict
        <5> QED  BY <2>3, <5>1, <5>2
      <4>3. SubSeq(journal'[n], 1, k) = journal[n]
        BY <2>2, <2>3
      <4>4. Log!Verdict(e.op) = Verdict(journal[n], e.op)
        BY <3>2 DEF Log!Verdict, Verdict
      <4> QED  BY <4>2, <4>3, <4>4 DEF Outcome
    <3>4. Log!Extend(n)
      BY <2>1, <2>3, <3>2, <3>3 DEF Log!Extend
    <3> QED  BY <1>1, <3>1, <3>4 DEF RefinementInv, Log!Next
  <2>5. CASE ~Ahead(n)
    <3>1. PICK m \in Node : Ahead(m)
      BY DEF RefinementInv
    <3>2. m # n /\ k < Len(journal[m])
      BY <2>2, <2>5, <3>1 DEF Ahead
    <3>3. Ahead(m)'
      BY <2>2, <2>3, <3>1, <3>2 DEF Ahead
    <3>4. Ledger = journal[m] /\ Ledger' = journal[m]
      <4>1. Ledger' = journal'[m]
        BY <1>0, <1>1, <3>3
      <4> QED  BY <1>1, <2>3, <3>1, <3>2, <4>1, LedgerIsAhead
    <3>5. journal'[n] = SubSeq(journal[m], 1, k + 1)
      <4>1. k + 1 \in 0..Len(journal[m]) /\ journal'[n] \in Seq(Outcome)
        <5>1. journal'[n] \in Seq(Outcome)
          BY <1>1 DEF TypeOK
        <5>2. k \in Nat /\ Len(journal[m]) \in Nat
          BY <2>2
        <5> QED  BY <3>2, <5>1, <5>2
      <4>2. /\ SubSeq(journal[m], 1, k + 1) \in Seq(Outcome)
            /\ Len(SubSeq(journal[m], 1, k + 1)) = k + 1
            /\ \A i \in 1..(k + 1) : SubSeq(journal[m], 1, k + 1)[i] = journal[m][i]
        BY <2>2, <4>1, SubSeqStart
      <4>3. \A i \in 1..(k + 1) : journal'[n][i] = journal'[m][i]
        BY <1>1, <2>2, <2>3, <3>2, <4>1 DEF AgreementInv, Agreement
      <4> QED  BY <2>3, <3>2, <4>1, <4>2, <4>3, SeqEqual
    <3>6. Log!Follow(n)
      BY <2>1, <2>2, <2>3, <3>2, <3>4, <3>5 DEF Log!Follow
    <3> QED  BY <1>1, <3>3, <3>6 DEF RefinementInv, Log!Next
  <2> QED  BY <2>4, <2>5
<1> QED  BY <1>2, <1>3

\* Whatever senders, clients and the chain do, and however many nodes there are, they
\* replicate one ledger as long as no receiver is interrupted.
THEOREM NodesReplicateOneLedger == Spec /\ []Uninterrupted => ImplementsReplicatedLog
<1>1. Init => RefinementInv /\ Log!Init
  BY RefinementInit
<1>2. RefinementInv /\ Uninterrupted' /\ [Next]_vars =>
        RefinementInv' /\ [Log!Next]_<<Ledger, journal>>
  BY RefinementStep
<1> QED  BY <1>1, <1>2, PTL DEF Spec, ImplementsReplicatedLog, Log!Spec

(***************************************************************************)
(* Records.                                                                *)
(***************************************************************************)

AppliedHasHash ==
  \A n \in Node, op \in Op : record[n][op] = "applied" => op \in hashes[n]

LEMMA AppliedStep ==
  HistoryInv /\ AppliedHasHash /\ [Next]_vars => AppliedHasHash'
<1> SUFFICES ASSUME HistoryInv, AppliedHasHash, [Next]_vars,
                    NEW n \in Node, NEW op \in Op, record'[n][op] = "applied"
             PROVE  op \in hashes'[n]
  BY DEF AppliedHasHash
<1>t. TypeOK
  BY DEF HistoryInv, PosInv
<1>1. hashes[n] \subseteq hashes'[n]
  <2>1. CASE InsertHash(n)
    BY <1>t, <2>1 DEF InsertHash, TypeOK
  <2>2. CASE ~InsertHash(n)
    BY <1>t, <2>2, NodeStep
       DEF Quiet, Receiver, FetchBlock, ApplyOp, UpsertOperation, FinishBlock,
           ReceiverCrash, DbCrash
  <2>3. QED
    BY <2>1, <2>2
<1>2. CASE record[n][op] = "applied"
  BY <1>1, <1>2 DEF AppliedHasHash
<1>3. CASE record[n][op] # "applied"
  <2>1. ~UNCHANGED record
    BY <1>3
  <2>2. ASSUME NEW m \in Node, NEW o \in Op, PostUpsert(m, o) PROVE FALSE
    BY <1>t, <1>3, <2>2 DEF PostUpsert, TypeOK
  <2>3. ASSUME NEW m \in Node, NEW o \in Op, MarkSent(m, o) PROVE FALSE
    <3>1. record' = [record EXCEPT ![m][o] = "sent"]
      BY <2>1, <2>3 DEF MarkSent
    <3>2. QED
      BY <1>t, <1>3, <3>1 DEF TypeOK
  <2>4. ASSUME NEW m \in Node, FinishBlock(m) PROVE FALSE
    <3>1. PICK gone \in SUBSET Stale :
            record' = [record EXCEPT ![m] =
              [o \in Op |-> IF o \in gone THEN "none" ELSE record[m][o]]]
      BY <2>1, <2>4 DEF FinishBlock
    <3>2. QED
      BY <1>t, <1>3, <3>1 DEF TypeOK
  <2>5. ASSUME NEW m \in Node, UpsertOperation(m)
        PROVE  m = n /\ op = log[pos[n]] /\ LastOk(n) /\ phase[n] = "record"
    <3>1. /\ phase[m] = "record"
          /\ record' = [record EXCEPT ![m][log[pos[m]]] =
                          IF LastOk(m) THEN "applied" ELSE "failed"]
      BY <2>5 DEF UpsertOperation
    <3>2. log[pos[m]] \in Op
      BY <3>1, TakenType DEF HistoryInv
    <3>3. QED
      BY <1>t, <1>3, <3>1, <3>2 DEF TypeOK
  <2>6. \E m \in Node : UpsertOperation(m)
    BY <2>1, <2>2, <2>3, <2>4
       DEF Next, vars, node, Api, Sender, Receiver, Crash, PostCheck, Broadcast,
           SenderCrash, Mine, MineEmpty, Reorg, FetchBlock, ApplyOp, InsertHash,
           ReceiverCrash, DbCrash
  <2>7. op \in hashes[n]
    BY <2>5, <2>6 DEF HistoryInv, History, HashesTell
  <2>8. QED
    BY <1>1, <2>7
<1>4. QED
  BY <1>2, <1>3

\* A record that reads `applied' belongs to an operation that was executed and
\* cannot be executed again.
THEOREM AppliedRecordsAreProtected == Spec => []AppliedIsProtected
<1>1. Init => AppliedHasHash
  BY DEF Init, AppliedHasHash
<1>2. HistoryInv /\ AppliedHasHash => AppliedIsProtected
  <2> SUFFICES ASSUME HistoryInv, AppliedHasHash,
                      NEW n \in Node, NEW op \in Op, record[n][op] = "applied"
               PROVE  /\ op \in hashes[n]
                      /\ \E i \in 1..Len(journal[n]) :
                           journal[n][i] = [op |-> op, ok |-> TRUE]
    BY DEF AppliedIsProtected
  <2>1. op \in hashes[n]
    BY DEF AppliedHasHash
  <2>2. PICK i \in 1..Len(journal[n]) : journal[n][i].op = op /\ journal[n][i].ok
    BY <2>1 DEF HistoryInv, History, HashesTell, Did
  <2>3. journal[n][i] \in Outcome
    BY ElementOfSeq DEF HistoryInv, PosInv, TypeOK
  <2>4. journal[n][i] = [op |-> op, ok |-> TRUE]
    BY <2>2, <2>3 DEF Outcome
  <2>5. QED
    BY <2>1, <2>4
<1>3. QED
  BY <1>1, <1>2, AppliedStep, Histories, PTL DEF Spec

\* Replay protection as a whole: the hash inserted by operationsPut keeps every
\* operation from a second execution, and `applied' promises exactly that.
THEOREM ReplayIsPrevented == Spec => []ReplayProtected
BY OperationsExecuteOnce, AppliedRecordsAreProtected, PTL DEF ReplayProtected

\* Operation op is on the chain or in a transaction waiting to be mined.
Travels(op) ==
  \/ op \in OpsOf(log)
  \/ \E m \in Node : \E i \in 1..Len(mempool[m]) : op \in OpsOf(mempool[m][i])

SentTravels ==
  \A n \in Node, op \in Op :
    op \in marking[n] \/ record[n][op] = "sent" => Travels(op)

LEMMA OpsOfProperties ==
  /\ \A s \in Seq(Op), t \in Seq(Op) : OpsOf(s \o t) = OpsOf(s) \cup OpsOf(t)
  /\ \A s \in Seq(Op) : \A b \in 0..Len(s) :
       OpsOf(s) = OpsOf(SubSeq(s, 1, b)) \cup OpsOf(SubSeq(s, b + 1, Len(s)))
<1>1. ASSUME NEW s \in Seq(Op), NEW t \in Seq(Op)
      PROVE  OpsOf(s \o t) = OpsOf(s) \cup OpsOf(t)
  <2>1. /\ Len(s \o t) = Len(s) + Len(t) /\ Len(s) \in Nat /\ Len(t) \in Nat
        /\ \A i \in 1..(Len(s) + Len(t)) :
             (s \o t)[i] = IF i <= Len(s) THEN s[i] ELSE t[i - Len(s)]
    BY ConcatProperties
  <2>2. \A i \in 1..Len(t) : t[i] = (s \o t)[i + Len(s)] /\ i + Len(s) \in 1..Len(s \o t)
    BY <2>1
  <2>3. \A i \in 1..Len(s) : s[i] = (s \o t)[i] /\ i \in 1..Len(s \o t)
    BY <2>1
  <2>4. \A i \in 1..Len(s \o t) :
          \/ i \in 1..Len(s) /\ (s \o t)[i] = s[i]
          \/ i - Len(s) \in 1..Len(t) /\ (s \o t)[i] = t[i - Len(s)]
    BY <2>1
  <2>5. ASSUME NEW o PROVE o \in OpsOf(s) \cup OpsOf(t) => o \in OpsOf(s \o t)
    BY <2>2, <2>3 DEF OpsOf
  <2>6. ASSUME NEW o PROVE o \in OpsOf(s \o t) => o \in OpsOf(s) \cup OpsOf(t)
    BY <2>4 DEF OpsOf
  <2>7. QED
    BY <2>5, <2>6
<1>2. ASSUME NEW s \in Seq(Op), NEW b \in 0..Len(s)
      PROVE  OpsOf(s) = OpsOf(SubSeq(s, 1, b)) \cup OpsOf(SubSeq(s, b + 1, Len(s)))
  <2>1. SubSeq(s, 1, b) \in Seq(Op) /\ SubSeq(s, b + 1, Len(s)) \in Seq(Op)
    BY SubSeqOf
  <2>2. SubSeq(s, 1, b) \o SubSeq(s, b + 1, Len(s)) = SubSeq(s, 1, Len(s))
    <3>1. /\ 1 \in 1..(Len(s) + 1) /\ b \in (1 - 1)..Len(s)
          /\ Len(s) \in b..Len(s)
      OBVIOUS
    <3>2. QED
      BY <3>1, ConcatAdjacentSubSeq
  <2>3. SubSeq(s, 1, Len(s)) = s
    BY SubSeqFull
  <2>4. OpsOf(SubSeq(s, 1, b) \o SubSeq(s, b + 1, Len(s)))
          = OpsOf(SubSeq(s, 1, b)) \cup OpsOf(SubSeq(s, b + 1, Len(s)))
    BY <1>1, <2>1
  <2>5. QED
    BY <2>2, <2>3, <2>4
<1>3. QED
  BY <1>1, <1>2

\* Mining and reorganisations move operations, they lose none.
LEMMA TravelsOn ==
  ASSUME PosInv, [Next]_vars, NEW op \in Op, Travels(op)
  PROVE  Travels(op)'
<1>t. /\ TypeOK /\ log \in Seq(Op)
      /\ \A m \in Node : mempool[m] \in Seq(Seq(Op))
  BY DEF PosInv, TypeOK
<1>1. CASE UNCHANGED <<log, mempool>>
  BY <1>1 DEF Travels, OpsOf
<1>2. ASSUME NEW n \in Node, Broadcast(n) PROVE Travels(op)'
  <2>1. PICK b : /\ log' = log
                 /\ mempool' = [mempool EXCEPT ![n] = Append(@, b)]
    BY <1>2 DEF Broadcast
  <2>2. \A m \in Node : /\ Len(mempool[m]) <= Len(mempool'[m])
                        /\ Len(mempool[m]) \in Nat /\ Len(mempool'[m]) \in Nat
                        /\ \A i \in 1..Len(mempool[m]) : mempool'[m][i] = mempool[m][i]
    BY <1>t, <2>1 DEF TypeOK
  <2>3. QED
    BY <2>1, <2>2 DEF Travels
<1>3. ASSUME NEW n \in Node, Mine(n) PROVE Travels(op)'
  <2>1. /\ log' = log \o Head(mempool[n]) /\ mempool[n] # <<>>
        /\ mempool' = [mempool EXCEPT ![n] = Tail(@)]
    BY <1>3 DEF Mine
  <2>2. /\ Head(mempool[n]) = mempool[n][1] /\ Head(mempool[n]) \in Seq(Op)
        /\ Len(mempool[n]) \in Nat \ {0}
        /\ Len(Tail(mempool[n])) = Len(mempool[n]) - 1
        /\ \A i \in 1..(Len(mempool[n]) - 1) : Tail(mempool[n])[i] = mempool[n][i + 1]
    BY <1>t, <2>1, HeadTailProperties
  <2>3. OpsOf(log') = OpsOf(log) \cup OpsOf(mempool[n][1])
    BY <1>t, <2>1, <2>2, OpsOfProperties
  <2>4. CASE op \in OpsOf(log)
    BY <2>3, <2>4 DEF Travels
  <2>5. ASSUME NEW m \in Node, NEW i \in 1..Len(mempool[m]), op \in OpsOf(mempool[m][i])
        PROVE  Travels(op)'
    <3>1. CASE m # n
      <4>1. mempool'[m] = mempool[m]
        BY <1>t, <2>1, <3>1 DEF TypeOK
      <4>2. QED
        BY <2>5, <4>1 DEF Travels
    <3>2. CASE m = n /\ i = 1
      BY <2>3, <2>5, <3>2 DEF Travels
    <3>3. CASE m = n /\ i # 1
      <4>1. mempool'[n] = Tail(mempool[n])
        BY <1>t, <2>1 DEF TypeOK
      <4>2. i - 1 \in 1..(Len(mempool[n]) - 1)
        BY <2>2, <3>3
      <4>3. i - 1 \in 1..Len(mempool'[n]) /\ mempool'[n][i - 1] = mempool[n][i]
        BY <2>2, <4>1, <4>2
      <4>4. QED
        BY <2>5, <3>3, <4>3 DEF Travels
    <3>4. QED
      BY <3>1, <3>2, <3>3
  <2>6. QED
    BY <2>4, <2>5 DEF Travels
<1>4. CASE Reorg
  <2> DEFINE top == Len(blocks)
             start == UpTo(top - 1)
             from == blocks[top].from
             tx == SubSeq(log, start + 1, Len(log))
  <2>1. /\ top \in Nat \ {0} /\ from \in Node
        /\ UpTo(top) = blocks[top].upto
    BY <1>t, <1>4 DEF Reorg, TypeOK, UpTo
  <2>2. top - 1 \in 0..Len(blocks) /\ blocks[top].upto = Len(log)
    BY <2>1 DEF PosInv, ChainInv
  <2>3. start \in 0..Len(log)
    BY <1>t, <2>1, <2>2, UpToType DEF PosInv, ChainInv
  <2>4. /\ log' = SubSeq(log, 1, start)
        /\ mempool' = [mempool EXCEPT ![from] = <<tx>> \o @]
    BY <1>4, <2>2 DEF Reorg
  <2> HIDE DEF start, from
  <2>5. tx \in Seq(Op) /\ OpsOf(log) = OpsOf(log') \cup OpsOf(tx)
    BY <1>t, <2>3, <2>4, OpsOfProperties, SubSeqOf
  <2>6. mempool'[from] = <<tx>> \o mempool[from]
    BY <1>t, <2>1, <2>4 DEF TypeOK
  <2> HIDE DEF tx
  <2>7. /\ Len(mempool'[from]) = Len(mempool[from]) + 1 /\ Len(mempool[from]) \in Nat
        /\ mempool'[from][1] = tx
        /\ \A i \in 1..Len(mempool[from]) : mempool'[from][i + 1] = mempool[from][i]
    <3>1. mempool[from] \in Seq(Seq(Op))
      BY <1>t, <2>1 DEF TypeOK
    <3> QED  BY <2>5, <2>6, <3>1
  <2>8. CASE op \in OpsOf(log)
    BY <2>1, <2>5, <2>7, <2>8 DEF Travels
  <2>9. ASSUME NEW m \in Node, NEW i \in 1..Len(mempool[m]), op \in OpsOf(mempool[m][i])
        PROVE  Travels(op)'
    <3>1. CASE m # from
      <4>1. mempool'[m] = mempool[m]
        BY <1>t, <2>4, <3>1 DEF TypeOK
      <4>2. QED
        BY <2>9, <4>1 DEF Travels
    <3>2. CASE m = from
      <4>1. i + 1 \in 1..Len(mempool'[from]) /\ mempool'[from][i + 1] = mempool[m][i]
        BY <2>7, <3>2
      <4>2. QED
        BY <2>1, <2>9, <4>1 DEF Travels
    <3>3. QED
      BY <3>1, <3>2
  <2>10. QED
    BY <2>8, <2>9 DEF Travels
<1>5. QED
  BY <1>1, <1>2, <1>3, <1>4
     DEF Next, vars, chain, Api, Sender, Receiver, Crash, PostCheck, PostUpsert,
         MarkSent, SenderCrash, MineEmpty, FetchBlock, ApplyOp, InsertHash,
         UpsertOperation, FinishBlock, ReceiverCrash, DbCrash

LEMMA SentStep == PosInv /\ SentTravels /\ [Next]_vars => SentTravels'
<1> SUFFICES ASSUME PosInv, SentTravels, [Next]_vars,
                    NEW n \in Node, NEW op \in Op,
                    op \in marking'[n] \/ record'[n][op] = "sent"
             PROVE  Travels(op)'
  BY DEF SentTravels
<1>t. TypeOK
  BY DEF PosInv
<1>1. CASE op \in marking[n] \/ record[n][op] = "sent"
  BY <1>1, TravelsOn DEF SentTravels
<1>2. CASE ~(op \in marking[n] \/ record[n][op] = "sent")
  <2>1. ASSUME NEW m \in Node, Broadcast(m) PROVE Travels(op)'
    <3>1. PICK b \in Batches(InitOps(m)) :
            /\ mempool' = [mempool EXCEPT ![m] = Append(@, b)]
            /\ marking' = [marking EXCEPT ![m] = OpsOf(b)]
      BY <2>1 DEF Broadcast
    <3>2. record' = record
      BY <2>1 DEF Broadcast, node
    <3>3. m = n /\ op \in OpsOf(b)
      BY <1>t, <1>2, <3>1, <3>2 DEF TypeOK
    <3>4. b \in Seq(Op)
      BY BatchType DEF InitOps
    <3>5. /\ mempool'[m] = Append(mempool[m], b) /\ mempool[m] \in Seq(Seq(Op))
      BY <1>t, <3>1 DEF TypeOK
    <3>6. /\ Len(mempool'[m]) \in 1..Len(mempool'[m])
          /\ mempool'[m][Len(mempool'[m])] = b
      BY <3>4, <3>5
    <3>7. QED
      BY <3>3, <3>6 DEF Travels
  <2>2. ASSUME NEW m \in Node, NEW o \in Op, MarkSent(m, o) PROVE Travels(op)'
    <3>1. marking'[n] \subseteq marking[n]
      BY <1>t, <2>2 DEF MarkSent, TypeOK
    <3>2. record' = [record EXCEPT ![m][o] = "sent"] /\ o \in marking[m]
      BY <1>2, <2>2, <3>1 DEF MarkSent
    <3>3. m = n /\ o = op
      BY <1>t, <1>2, <3>1, <3>2 DEF TypeOK
    <3>4. QED
      BY <1>2, <3>2, <3>3
  <2>3. ASSUME NEW m \in Node, FinishBlock(m) PROVE FALSE
    <3>1. marking' = marking /\ ~UNCHANGED record
      BY <1>2, <2>3 DEF FinishBlock
    <3>2. PICK gone \in SUBSET Stale :
            record' = [record EXCEPT ![m] =
              [o \in Op |-> IF o \in gone THEN "none" ELSE record[m][o]]]
      BY <2>3, <3>1 DEF FinishBlock
    <3>3. QED
      BY <1>t, <1>2, <3>1, <3>2 DEF TypeOK
  <2>4. ASSUME NEW m \in Node, UpsertOperation(m) PROVE FALSE
    <3>1. /\ phase[m] = "record" /\ marking' = marking
          /\ record' = [record EXCEPT ![m][log[pos[m]]] =
                          IF LastOk(m) THEN "applied" ELSE "failed"]
      BY <2>4 DEF UpsertOperation
    <3>2. log[pos[m]] \in Op
      BY <3>1, TakenType
    <3>3. QED
      BY <1>t, <1>2, <3>1, <3>2 DEF TypeOK
  <2>5. ASSUME NEW m \in Node, NEW o \in Op, PostUpsert(m, o) PROVE FALSE
    BY <1>t, <1>2, <2>5 DEF PostUpsert, TypeOK
  <2>6. ASSUME NEW m \in Node, SenderCrash(m) \/ DbCrash(m) PROVE FALSE
    <3>1. marking' = [marking EXCEPT ![m] = {}] /\ record' = record
      BY <2>6 DEF SenderCrash, DbCrash, node
    <3>2. QED
      BY <1>t, <1>2, <3>1 DEF TypeOK
  <2>7. ~UNCHANGED <<marking, record>>
    BY <1>2
  <2>8. QED
    BY <2>1, <2>2, <2>3, <2>4, <2>5, <2>6, <2>7
       DEF Next, vars, node, Api, Sender, Receiver, Crash, PostCheck, Mine,
           MineEmpty, Reorg, FetchBlock, ApplyOp, InsertHash, ReceiverCrash
<1>3. QED
  BY <1>1, <1>2

\* An operation a node reports as sent is on the chain or will be mined.
THEOREM SentOperationsTravel == Spec => []SentIsNotLost
<1>1. Init => SentTravels
  BY DEF Init, SentTravels
<1>2. SentTravels => SentIsNotLost
  BY DEF SentTravels, Travels, SentIsNotLost
<1>3. QED
  BY <1>1, <1>2, SentStep, Positions, PTL DEF Spec

=============================================================================
