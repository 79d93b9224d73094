---------------------------- MODULE ProfileProofs ----------------------------
(***************************************************************************)
(* Proofs about Profile for every set of channels, uuids and data, every   *)
(* length of a second and every configuration of the times to live.        *)
(***************************************************************************)
EXTENDS Profile, FiniteSetTheorems, TLAPS

USE DataAssumption, TimeAssumption

\* The entry that download or delete has found is there until the handler ends.
EntryStays == req.op \in {"download", "delete"} => Known # NoData

\* The inductive invariant: the types, the promises and the handler's entry.
IInv == TypeOK /\ PromiseKept /\ EntryStays

-----------------------------------------------------------------------------
(* Times.                                                                  *)

\* A product of natural numbers is one.
LEMMA Units == ASSUME NEW m \in Nat, NEW n \in Nat PROVE m * n \in Nat
OBVIOUS

\* A longer wish is a longer life.
LEMMA UnitsGrow == ASSUME NEW m \in Nat, NEW n \in Nat, NEW k \in Nat, m <= n PROVE m * k <= n * k
OBVIOUS

\* The life of a channel is an integer from -1 on.
LEMMA LifeBounds ==
  /\ MaxTTL * SECOND \in Nat
  /\ \A l : l \in Life <=> l \in Int /\ l >= -1 /\ l <= MaxTTL * SECOND
<1>1. MaxTTL * SECOND \in Nat
  BY Units
<1>2. QED
  BY <1>1 DEF Life

\* A time to live that upload accepts is a life.
LEMMA TTLIsLife == ASSUME NEW ttl \in 0..MaxTTL PROVE ttl * SECOND \in Life /\ ttl * SECOND >= 0
<1>1. ttl * SECOND \in Nat /\ ttl * SECOND <= MaxTTL * SECOND
  BY Units, UnitsGrow
<1>2. QED
  BY <1>1, LifeBounds

\* What the header names is not later than the expiry.
LEMMA HeaderIsEarlier ==
  ASSUME phase \in 0..SECOND - 1, NEW l \in Life, l >= 0
  PROVE  HeaderLeft(l) \in Int /\ HeaderLeft(l) <= l
<1>1. l \in Nat /\ phase + l \in Nat
  BY LifeBounds
<1>2. (phase + l) % SECOND \in 0..SECOND - 1
  BY <1>1
<1>3. QED
  BY <1>1, <1>2 DEF HeaderLeft

\* An extension never brings the expiry forward.
LEMMA ExtensionProlongs ==
  ASSUME NEW l \in Life, l >= 0, RemainingTTL(l) < TTLExtension
  PROVE  l <= TTLExtension * SECOND
<1>1. l \in Nat /\ SECOND \in Nat \ {0}
  BY LifeBounds
<1> DEFINE k == l \div SECOND
<1>2. k \in Nat /\ l < (k + 1) * SECOND
  BY <1>1
<1>3. k + 1 <= TTLExtension
  BY <1>2 DEF RemainingTTL
<1>4. (k + 1) * SECOND <= TTLExtension * SECOND
  BY <1>2, <1>3, UnitsGrow
<1>5. (k + 1) * SECOND \in Nat /\ TTLExtension * SECOND \in Nat
  BY <1>2, Units
<1> HIDE DEF k
<1>6. QED
  BY <1>1, <1>2, <1>4, <1>5

-----------------------------------------------------------------------------
(* Initially, and when time passes.                                        *)

LEMMA InitIInv == Init => IInv
<1>1. -1 \in Life
  BY LifeBounds
<1>2. QED
  BY <1>1 DEF Init, IInv, TypeOK, PromiseKept, EntryStays, ChannelObject, Closed, Fresh, Empty, Idle

\* Time takes the same from a channel and from the promises about it.
LEMMA TickKeeps == ASSUME IInv, Tick PROVE IInv'
<1>1. \A l \in Life : Older(l) \in Life
  BY LifeBounds DEF Older
<1>2. chan' \in [Channel -> ChannelObject]
  BY <1>1 DEF IInv, TypeOK, ChannelObject, Tick
<1>3. promised' \in [Channel -> [Uuid -> [Data -> Life]]]
  BY <1>1 DEF IInv, TypeOK, Tick
<1>4. phase' \in 0..SECOND - 1
  BY DEF IInv, TypeOK, Tick
<1>5. TypeOK'
  BY <1>2, <1>3, <1>4 DEF IInv, TypeOK, Tick
<1>6. PromiseKept'
  <2> SUFFICES ASSUME NEW c \in Channel, NEW u \in Uuid, NEW d \in Data, promised'[c][u][d] >= 0
               PROVE  c \in keys' /\ promised'[c][u][d] <= chan'[c].left /\ chan'[c].entries[u] = d
    BY DEF PromiseKept
  <2>1. promised[c][u][d] \in Life /\ chan[c] \in ChannelObject /\ chan[c].left \in Life
    BY DEF IInv, TypeOK, ChannelObject
  <2>2. promised'[c][u][d] = Older(promised[c][u][d])
    BY DEF Tick
  <2>3. chan'[c] = [chan[c] EXCEPT !.left = Older(chan[c].left)]
    BY DEF Tick
  <2>4. chan'[c].left = Older(chan[c].left) /\ chan'[c].entries = chan[c].entries
    BY <2>1, <2>3 DEF ChannelObject
  <2>5. promised[c][u][d] >= 0 /\ promised'[c][u][d] = promised[c][u][d] - 1
    BY <2>1, <2>2, LifeBounds DEF Older
  <2>6. c \in keys /\ promised[c][u][d] <= chan[c].left /\ chan[c].entries[u] = d
    BY <2>5 DEF IInv, PromiseKept
  <2>7. chan'[c].left = chan[c].left - 1
    BY <2>1, <2>4, <2>5, <2>6, LifeBounds DEF Older
  <2>8. QED
    BY <2>1, <2>4, <2>5, <2>6, <2>7, LifeBounds DEF Tick
<1>7. EntryStays'
  <2>1. CASE req = Idle
    BY <2>1 DEF Tick, EntryStays, Idle
  <2>2. CASE req # Idle
    <3>1. req.channel \in Channel
      BY <2>2 DEF IInv, TypeOK
    <3>2. chan[req.channel] \in ChannelObject /\ chan'[req.channel] =
            [chan[req.channel] EXCEPT !.left = Older(chan[req.channel].left)]
      BY <3>1 DEF IInv, TypeOK, Tick
    <3>3. chan'[req.channel].entries = chan[req.channel].entries
      BY <3>2 DEF ChannelObject
    <3>4. QED
      BY <3>3 DEF IInv, EntryStays, Known, Tick
  <2>3. QED
    BY <2>1, <2>2
<1>8. QED
  BY <1>5, <1>6, <1>7 DEF IInv

\* The timer deletes no channel that somebody was promised something of.
LEMMA PurgeKeeps == ASSUME IInv, Purge PROVE IInv'
<1>1. Closed \in ChannelObject
  BY LifeBounds DEF Closed, Fresh, Empty, ChannelObject
<1>2. chan' \in [Channel -> ChannelObject]
  BY <1>1 DEF IInv, TypeOK, Purge
<1>3. TypeOK'
  BY <1>2 DEF IInv, TypeOK, Purge, Idle
<1>4. PromiseKept'
  <2> SUFFICES ASSUME NEW c \in Channel, NEW u \in Uuid, NEW d \in Data, promised[c][u][d] >= 0
               PROVE  c \in keys' /\ promised[c][u][d] <= chan'[c].left /\ chan'[c].entries[u] = d
    BY DEF PromiseKept, Purge
  <2>1. c \in keys /\ promised[c][u][d] <= chan[c].left /\ chan[c].entries[u] = d
    BY DEF IInv, PromiseKept
  <2>2. promised[c][u][d] \in Life /\ chan[c].left \in Life
    BY DEF IInv, TypeOK, ChannelObject
  <2>3. Alive(c)
    BY <2>1, <2>2, LifeBounds DEF Alive
  <2>4. chan'[c] = chan[c] /\ c \in keys'
    BY <2>1, <2>3 DEF Purge
  <2>5. QED
    BY <2>1, <2>4
<1>5. EntryStays'
  BY DEF Purge, EntryStays, Idle
<1>6. QED
  BY <1>3, <1>4, <1>5 DEF IInv

-----------------------------------------------------------------------------
(* Handlers.                                                               *)

\* A channel somebody was promised something of is alive.
LEMMA PromisedIsAlive ==
  ASSUME IInv, NEW c \in Channel, NEW u \in Uuid, NEW d \in Data, promised[c][u][d] >= 0
  PROVE  Alive(c)
<1>1. c \in keys /\ promised[c][u][d] <= chan[c].left
  BY DEF IInv, PromiseKept
<1>2. promised[c][u][d] \in Life /\ chan[c].left \in Life
  BY DEF IInv, TypeOK, ChannelObject
<1>3. QED
  BY <1>1, <1>2, LifeBounds DEF Alive

\* What every handler does: it leaves the channel it looks at as obj, or deletes it
\* when its time has passed, and promises at most what obj holds.
HandlerStep(c, obj) ==
  /\ phase' = phase
  /\ keys' = Seen(c)
  /\ chan' = IF Alive(c) THEN [chan EXCEPT ![c] = obj] ELSE Forget(c)
  /\ req' = Idle \/ (req' \in Request /\ req'.channel \in keys' /\ EntryStays')
  /\ promised' \in [Channel -> [Uuid -> [Data -> Life]]]
  /\ \A x \in Channel \ {c} : promised'[x] = promised[x]
  /\ ~Alive(c) => \/ promised' = promised
                  \/ \E u \in Uuid : promised' = [promised EXCEPT ![c][u] = [d \in Data |-> -1]]
  /\ Alive(c) => /\ obj \in ChannelObject
                 /\ \A u \in Uuid, d \in Data : promised'[c][u][d] >= 0 =>
                      promised'[c][u][d] <= obj.left /\ obj.entries[u] = d

LEMMA HandlerKeeps == ASSUME IInv, NEW c \in Channel, NEW obj, HandlerStep(c, obj) PROVE IInv'
<1> USE DEF HandlerStep
<1>1. Closed \in ChannelObject
  BY LifeBounds DEF Closed, Fresh, Empty, ChannelObject
<1>2. chan' \in [Channel -> ChannelObject]
  BY <1>1 DEF IInv, TypeOK, Forget
<1>3. keys' \subseteq Channel
  BY DEF IInv, TypeOK, Seen
<1>4. TypeOK'
  BY <1>2, <1>3 DEF IInv, TypeOK
<1>5. PromiseKept'
  <2> SUFFICES ASSUME NEW x \in Channel, NEW u \in Uuid, NEW d \in Data, promised'[x][u][d] >= 0
               PROVE  x \in keys' /\ promised'[x][u][d] <= chan'[x].left /\ chan'[x].entries[u] = d
    BY DEF PromiseKept
  <2>1. CASE x # c
    <3>1. promised'[x] = promised[x] /\ chan'[x] = chan[x] /\ (x \in keys => x \in keys')
      BY <2>1 DEF IInv, TypeOK, Seen, Forget
    <3>2. QED
      BY <3>1 DEF IInv, PromiseKept
  <2>2. CASE x = c /\ Alive(c)
    <3>1. chan'[c] = obj /\ c \in keys'
      BY <2>2 DEF IInv, TypeOK, Seen, Alive
    <3>2. QED
      BY <2>2, <3>1
  <2>3. CASE x = c /\ ~Alive(c)
    <3>1. promised'[c][u][d] = promised[c][u][d] \/ promised'[c][u][d] = -1
      <4>1. promised \in [Channel -> [Uuid -> [Data -> Life]]]
        BY DEF IInv, TypeOK
      <4>2. CASE promised' = promised
        BY <4>2
      <4>3. ASSUME NEW v \in Uuid, promised' = [promised EXCEPT ![c][v] = [e \in Data |-> -1]]
            PROVE  promised'[c][u][d] = promised[c][u][d] \/ promised'[c][u][d] = -1
        BY <4>1, <4>3
      <4>4. QED
        BY <2>3, <4>2, <4>3
    <3>2. promised[c][u][d] >= 0
      BY <2>3, <3>1
    <3>3. QED
      BY <2>3, <3>2, PromisedIsAlive
  <2>4. QED
    BY <2>1, <2>2, <2>3
<1>6. EntryStays'
  BY DEF EntryStays, Idle
<1>7. QED
  BY <1>4, <1>5, <1>6 DEF IInv

\* An answer that names the expiry promises what the channel holds, for at most as
\* long as the channel stays.
LEMMA PromiseIsHonest ==
  ASSUME IInv, NEW c \in Channel, NEW left \in Life, left >= 0,
         NEW told \in [Uuid -> Data \cup {NoData}],
         Promise(c, left, told), chan[c].left <= left
  PROVE  /\ promised' \in [Channel -> [Uuid -> [Data -> Life]]]
         /\ \A x \in Channel \ {c} : promised'[x] = promised[x]
         /\ \A u \in Uuid, d \in Data : promised'[c][u][d] >= 0 =>
              /\ promised'[c][u][d] <= left
              /\ told[u] = d \/ chan[c].entries[u] = d
<1> DEFINE new(u, d) == IF told[u] = d THEN Max({promised[c][u][d], HeaderLeft(left), -1})
                        ELSE promised[c][u][d]
<1>1. promised \in [Channel -> [Uuid -> [Data -> Life]]]
  BY DEF IInv, TypeOK
<1>2. promised' = [promised EXCEPT ![c] = [u \in Uuid |-> [d \in Data |-> new(u, d)]]]
  BY DEF Promise
<1>3. HeaderLeft(left) \in Int /\ HeaderLeft(left) <= left
  BY HeaderIsEarlier DEF IInv, TypeOK
<1>4. ASSUME NEW u \in Uuid, NEW d \in Data
      PROVE  /\ promised[c][u][d] \in Life
             /\ promised[c][u][d] >= 0 => promised[c][u][d] <= left /\ chan[c].entries[u] = d
  <2>1. promised[c][u][d] \in Life /\ chan[c].left \in Life
    BY DEF IInv, TypeOK, ChannelObject
  <2>2. promised[c][u][d] >= 0 => promised[c][u][d] <= chan[c].left /\ chan[c].entries[u] = d
    BY DEF IInv, PromiseKept
  <2>3. QED
    BY <2>1, <2>2, LifeBounds
<1>5. ASSUME NEW a \in Life, a <= left
      PROVE  Max({a, HeaderLeft(left), -1}) \in Life /\ Max({a, HeaderLeft(left), -1}) <= left
  <2> DEFINE S == {a, HeaderLeft(left), -1}
  <2>1. a \in Int /\ left \in Int /\ \A x \in S : x \in Int /\ x <= left
    BY <1>3, <1>5, LifeBounds
  <2>2. \E x \in S : \A y \in S : x >= y
    BY <1>3, <2>1
  <2>3. Max(S) \in S /\ \A y \in S : Max(S) >= y
    BY <2>2 DEF Max
  <2>4. QED
    BY <2>1, <2>3, LifeBounds
<1>6. ASSUME NEW u \in Uuid, NEW d \in Data
      PROVE  /\ new(u, d) \in Life
             /\ new(u, d) >= 0 => /\ new(u, d) <= left
                                  /\ told[u] = d \/ chan[c].entries[u] = d
  <2>1. CASE told[u] = d
    <3>1. promised[c][u][d] <= left
      BY <1>4, LifeBounds
    <3>2. QED
      BY <1>4, <1>5, <2>1, <3>1
  <2>2. CASE told[u] # d
    BY <1>4, <2>2
  <2>3. QED
    BY <2>1, <2>2
<1> HIDE DEF new
<1>7. promised'[c] = [u \in Uuid |-> [d \in Data |-> new(u, d)]]
  BY <1>1, <1>2
<1>8. promised' \in [Channel -> [Uuid -> [Data -> Life]]]
  BY <1>1, <1>2, <1>6
<1>9. QED
  BY <1>1, <1>2, <1>6, <1>7, <1>8

-----------------------------------------------------------------------------
(* The actions.                                                            *)

\* The promises about a channel, from the invariant.
LEMMA Kept ==
  ASSUME IInv, NEW c \in Channel, NEW u \in Uuid, NEW d \in Data, promised[c][u][d] >= 0
  PROVE  promised[c][u][d] <= chan[c].left /\ chan[c].entries[u] = d
BY DEF IInv, PromiseKept

\* The channel of a handler in progress.
LEMMA RequestType ==
  ASSUME IInv, req.op \in {"upload", "download", "delete", "list"}
  PROVE  req \in Request /\ req.channel \in Channel /\ req.uuid \in Uuid
<1>1. req # Idle
  BY DEF Idle
<1>2. req \in Request
  BY <1>1 DEF IInv, TypeOK
<1>3. QED
  BY <1>2 DEF Request

\* A new channel is one nobody was promised anything of.
LEMMA UploadLookupKeeps ==
  ASSUME IInv, NEW c \in Channel, NEW u \in Uuid, NEW d \in Data, NEW wish \in RequestedTTL,
         UploadLookup(c, u, d, wish)
  PROVE  IInv'
<1> DEFINE answer == [op |-> "upload", channel |-> c, uuid |-> u, data |-> d,
                      existing |-> Alive(c), refused |-> wish # 0 /\ wish < MinTTL]
           ttl == IF wish = 0 THEN DefaultTTL ELSE wish
<1>1. answer \in Request /\ answer.channel = c
  BY DEF Request, Alive
<1>2. promised \in [Channel -> [Uuid -> [Data -> Life]]] /\ chan[c] \in ChannelObject
      /\ chan \in [Channel -> ChannelObject] /\ keys \subseteq Channel
  BY DEF IInv, TypeOK
<1>3. CASE Alive(c)
  <2>1. keys' = keys /\ chan' = chan /\ req' = answer /\ c \in keys
    BY <1>3 DEF UploadLookup, Alive
  <2>2. TypeOK'
    BY <1>1, <2>1 DEF UploadLookup, IInv, TypeOK
  <2>3. PromiseKept'
    BY <2>1 DEF UploadLookup, IInv, PromiseKept
  <2>4. EntryStays'
    BY <2>1 DEF EntryStays
  <2>5. QED
    BY <2>2, <2>3, <2>4 DEF IInv
<1>4. CASE ~Alive(c) /\ req' = answer
  <2>1. wish \in Nat /\ ttl \in 0..MaxTTL
    <3>1. wish <= MaxTTL
      BY DEF UploadLookup, Accepted
    <3>2. wish \in Nat
      OBVIOUS
    <3>3. QED
      BY <3>1, <3>2
  <2>2. Fresh(ttl * SECOND) \in ChannelObject
    BY <2>1, TTLIsLife, LifeBounds DEF Fresh, Empty, ChannelObject
  <2>3. answer # Idle
    BY DEF Idle
  <2>4. keys' = Seen(c) \cup {c} /\ chan' = [chan EXCEPT ![c] = Fresh(ttl * SECOND)]
    BY <1>4, <2>3 DEF UploadLookup
  <2>5. chan' \in [Channel -> ChannelObject] /\ keys' \subseteq Channel /\ c \in keys'
    BY <1>2, <2>2, <2>4 DEF Seen
  <2>6. TypeOK'
    BY <1>1, <1>4, <2>5 DEF UploadLookup, IInv, TypeOK
  <2>7. PromiseKept'
    <3> SUFFICES ASSUME NEW x \in Channel, NEW v \in Uuid, NEW e \in Data, promised[x][v][e] >= 0
                 PROVE  x \in keys' /\ promised[x][v][e] <= chan'[x].left /\ chan'[x].entries[v] = e
      BY DEF PromiseKept, UploadLookup
    <3>1. Alive(x)
      BY PromisedIsAlive
    <3>2. x # c /\ x \in keys' /\ chan'[x] = chan[x]
      BY <1>2, <1>4, <2>4, <3>1 DEF Seen, Alive
    <3>3. QED
      BY <3>2, Kept
  <2>8. EntryStays'
    BY <1>4 DEF EntryStays
  <2>9. QED
    BY <2>6, <2>7, <2>8 DEF IInv
<1>5. CASE ~Alive(c) /\ req' = Idle
  <2>1. answer # Idle
    BY DEF Idle
  <2>2. keys' = Seen(c) /\ chan' = Forget(c) /\ promised' = promised /\ phase' = phase
    BY <1>5, <2>1 DEF UploadLookup
  <2>3. HandlerStep(c, chan[c])
    BY <1>2, <1>5, <2>2 DEF HandlerStep
  <2>4. QED
    BY <2>3, HandlerKeeps
<1>6. QED
  BY <1>3, <1>4, <1>5 DEF UploadLookup

\* A refused upload ends.
LEMMA RefusedKeeps == ASSUME IInv, UploadRefused PROVE IInv'
BY DEF UploadRefused, IInv, TypeOK, PromiseKept, EntryStays, Idle

\* A handler that stops at the lookup of a read, or goes on.
LEMMA LookupKeeps ==
  ASSUME IInv, NEW op \in ReadOp, NEW c \in Channel, NEW u \in Uuid, Lookup(op, c, u)
  PROVE  IInv'
<1>1. promised' = promised /\ promised \in [Channel -> [Uuid -> [Data -> Life]]]
      /\ chan \in [Channel -> ChannelObject] /\ phase' = phase
  BY DEF IInv, TypeOK, Lookup
<1>2. req' = Idle \/ (req' \in Request /\ req'.channel \in keys' /\ EntryStays')
  <2> DEFINE r == [op |-> op, channel |-> c, uuid |-> u]
  <2>1. CASE Alive(c) /\ (op = "list" \/ chan[c].entries[u] # NoData)
    <3>1. req' = r /\ chan' = chan /\ keys' = keys /\ c \in keys
      BY <2>1 DEF Lookup, Alive, Seen
    <3>2. r \in Request /\ r.op = op /\ r.channel = c /\ r.uuid = u
      BY DEF Request
    <3>3. EntryStays'
      BY <2>1, <3>1, <3>2 DEF EntryStays, Known
    <3>4. QED
      BY <3>1, <3>2, <3>3
  <2>2. CASE ~(Alive(c) /\ (op = "list" \/ chan[c].entries[u] # NoData))
    BY <2>2 DEF Lookup
  <2>3. QED
    BY <2>1, <2>2
<1>3. keys' = Seen(c) /\ chan' = IF Alive(c) THEN [chan EXCEPT ![c] = chan[c]] ELSE Forget(c)
  BY <1>1 DEF Lookup
<1>4. chan[c] \in ChannelObject
  BY <1>1
<1>5. \A v \in Uuid, d \in Data : promised[c][v][d] >= 0 =>
        promised[c][v][d] <= chan[c].left /\ chan[c].entries[v] = d
  BY Kept
<1>6. HandlerStep(c, chan[c])
  BY <1>1, <1>2, <1>3, <1>4, <1>5 DEF HandlerStep
<1>7. QED
  BY <1>6, HandlerKeeps

\* An upload leaves what others were promised and keeps the channel as long.
LEMMA StoredIsSound ==
  ASSUME IInv, req.op = "upload", Alive(req.channel),
         Known = req.data \/ Known = NoData
  PROVE  /\ Stored \in ChannelObject
         /\ Stored.left \in Life /\ chan[req.channel].left <= Stored.left /\ Stored.left >= 0
         /\ Stored.entries = [chan[req.channel].entries EXCEPT ![req.uuid] = req.data]
<1> DEFINE c == req.channel
           x == chan[c]
           size == IF Known = NoData THEN x.size + SizeOf[req.data] ELSE x.size
           left == IF req.existing /\ RemainingTTL(x.left) < TTLExtension
                   THEN TTLExtension * SECOND ELSE x.left
<1>1. c \in Channel /\ req.uuid \in Uuid /\ req.data \in Data
  <2>1. req \in Request
    BY RequestType
  <2>2. QED
    BY <2>1 DEF Request, ReadOp
<1>2. x \in ChannelObject /\ x.left \in Life /\ x.left >= 0
  BY <1>1 DEF IInv, TypeOK, ChannelObject, Alive
<1>3. Stored = [x EXCEPT !.entries[req.uuid] = req.data, !.size = size, !.left = left]
  BY DEF Stored
<1>4. left \in Life /\ left >= 0 /\ x.left <= left
  BY <1>2, TTLIsLife, ExtensionProlongs, LifeBounds
<1>5. size \in Int
  BY <1>1, <1>2 DEF ChannelObject
<1> HIDE DEF size, left
<1>6. x = [entries |-> x.entries, size |-> x.size, left |-> x.left] /\ x.entries \in [Uuid -> Data \cup {NoData}]
  BY <1>2 DEF ChannelObject
<1>7. Stored = [entries |-> [x.entries EXCEPT ![req.uuid] = req.data], size |-> size, left |-> left]
  BY <1>3, <1>6
<1>8. QED
  BY <1>1, <1>4, <1>5, <1>6, <1>7 DEF ChannelObject

LEMMA StoreKeeps == ASSUME IInv, UploadStore PROVE IInv'
<1> DEFINE c == req.channel
           told == [Empty EXCEPT ![req.uuid] = req.data]
<1>1. c \in Channel /\ req.uuid \in Uuid /\ req.data \in Data
  <2>1. req \in Request
    BY RequestType DEF UploadStore
  <2>2. QED
    BY <2>1 DEF Request, ReadOp, UploadStore
<1>2. promised \in [Channel -> [Uuid -> [Data -> Life]]] /\ chan[c] \in ChannelObject
  BY <1>1 DEF IInv, TypeOK
<1>3. phase' = phase /\ req' = Idle /\ keys' = Seen(c)
      /\ chan' = IF Alive(c) THEN [chan EXCEPT ![c] = Stored] ELSE Forget(c)
  BY DEF UploadStore
<1>4. Known = req.data \/ Known = NoData
  BY DEF UploadStore
<1>5. told \in [Uuid -> Data \cup {NoData}] /\ told[req.uuid] = req.data
      /\ \A u \in Uuid \ {req.uuid} : told[u] = NoData
  BY <1>1 DEF Empty
<1>6. CASE Alive(c)
  <2>1. /\ Stored \in ChannelObject
        /\ Stored.left \in Life /\ chan[c].left <= Stored.left /\ Stored.left >= 0
        /\ Stored.entries = [chan[c].entries EXCEPT ![req.uuid] = req.data]
    BY <1>4, <1>6, StoredIsSound DEF UploadStore
  <2>2. chan[c].entries \in [Uuid -> Data \cup {NoData}] /\ chan[c].left \in Life
    BY <1>2 DEF ChannelObject
  <2>3. ASSUME NEW u \in Uuid, NEW d \in Data, told[u] = d \/ chan[c].entries[u] = d
        PROVE  Stored.entries[u] = d
    <3>1. CASE u = req.uuid
      BY <1>1, <1>4, <1>5, <2>1, <2>2, <2>3, <3>1 DEF Known
    <3>2. CASE u # req.uuid
      BY <1>5, <2>1, <2>2, <2>3, <3>2
    <3>3. QED
      BY <3>1, <3>2
  <2>4. /\ promised' \in [Channel -> [Uuid -> [Data -> Life]]]
        /\ \A x \in Channel \ {c} : promised'[x] = promised[x]
        /\ \A u \in Uuid, d \in Data : promised'[c][u][d] >= 0 =>
             promised'[c][u][d] <= Stored.left /\ (told[u] = d \/ chan[c].entries[u] = d)
    <3>1. CASE req.refused
      <4>1. promised' = promised
        BY <3>1 DEF UploadStore
      <4>2. ASSUME NEW u \in Uuid, NEW d \in Data, promised[c][u][d] >= 0
            PROVE  promised[c][u][d] <= Stored.left /\ chan[c].entries[u] = d
        <5>1. promised[c][u][d] <= chan[c].left /\ chan[c].entries[u] = d
          BY <1>1, <4>2, Kept
        <5>2. promised[c][u][d] \in Life
          BY <1>1, <1>2
        <5>3. QED
          BY <2>1, <2>2, <5>1, <5>2, LifeBounds
      <4>3. QED
        BY <1>2, <4>1, <4>2
    <3>2. CASE ~req.refused
      <4>1. Promise(c, Stored.left, told)
        BY <1>6, <3>2 DEF UploadStore
      <4> HIDE DEF told
      <4>2. QED
        BY <1>1, <1>5, <2>1, <4>1, PromiseIsHonest
    <3>3. QED
      BY <3>1, <3>2
  <2>5. \A u \in Uuid, d \in Data : promised'[c][u][d] >= 0 =>
             promised'[c][u][d] <= Stored.left /\ Stored.entries[u] = d
    BY <2>3, <2>4
  <2>6. HandlerStep(c, Stored)
    BY <1>3, <1>6, <2>1, <2>4, <2>5 DEF HandlerStep
  <2>7. QED
    BY <1>1, <2>6, HandlerKeeps
<1>7. CASE ~Alive(c)
  <2>1. promised' = promised
    BY <1>7 DEF UploadStore
  <2>2. HandlerStep(c, Stored)
    BY <1>2, <1>3, <1>7, <2>1 DEF HandlerStep
  <2>3. QED
    BY <1>1, <2>2, HandlerKeeps
<1>8. QED
  BY <1>6, <1>7

\* The answer of a read.
LEMMA AnswerKeeps ==
  ASSUME IInv, req.op \in {"download", "list"}, NEW told \in [Uuid -> Data \cup {NoData}],
         \A u \in Uuid : told[u] \in Data => told[u] = chan[req.channel].entries[u],
         Answer(told)
  PROVE  IInv'
<1> DEFINE c == req.channel
<1>1. c \in Channel
  BY RequestType
<1>2. promised \in [Channel -> [Uuid -> [Data -> Life]]] /\ chan[c] \in ChannelObject
      /\ chan[c].left \in Life /\ chan \in [Channel -> ChannelObject]
  BY <1>1 DEF IInv, TypeOK, ChannelObject
<1>3. phase' = phase /\ req' = Idle /\ keys' = Seen(c)
      /\ chan' = IF Alive(c) THEN [chan EXCEPT ![c] = chan[c]] ELSE Forget(c)
  BY <1>2 DEF Answer
<1>4. CASE Alive(c)
  <2>1. Promise(c, chan[c].left, told) /\ chan[c].left >= 0
    BY <1>4 DEF Answer, Alive
  <2>2. PICK left \in Life : left = chan[c].left /\ left >= 0 /\ chan[c].left <= left
                             /\ Promise(c, left, told)
    BY <1>2, <2>1, LifeBounds
  <2>3. /\ promised' \in [Channel -> [Uuid -> [Data -> Life]]]
        /\ \A x \in Channel \ {c} : promised'[x] = promised[x]
        /\ \A u \in Uuid, d \in Data : promised'[c][u][d] >= 0 =>
             promised'[c][u][d] <= left /\ (told[u] = d \/ chan[c].entries[u] = d)
    BY <1>1, <2>2, PromiseIsHonest
  <2>4. ASSUME NEW u \in Uuid, NEW d \in Data, promised'[c][u][d] >= 0
        PROVE  promised'[c][u][d] <= chan[c].left /\ chan[c].entries[u] = d
    <3>1. promised'[c][u][d] <= left /\ (told[u] = d \/ chan[c].entries[u] = d)
      BY <2>3, <2>4
    <3>2. told[u] = d => chan[c].entries[u] = d
      OBVIOUS
    <3>3. QED
      BY <2>2, <3>1, <3>2
  <2>5. HandlerStep(c, chan[c])
    BY <1>2, <1>3, <1>4, <2>3, <2>4 DEF HandlerStep
  <2>6. QED
    BY <1>1, <2>5, HandlerKeeps
<1>5. CASE ~Alive(c)
  <2>1. promised' = promised
    BY <1>5 DEF Answer
  <2>2. HandlerStep(c, chan[c])
    BY <1>2, <1>3, <1>5, <2>1 DEF HandlerStep
  <2>3. QED
    BY <1>1, <2>2, HandlerKeeps
<1>6. QED
  BY <1>4, <1>5

LEMMA DownloadKeeps == ASSUME IInv, Download PROVE IInv'
<1>1. req.op = "download" /\ req.channel \in Channel /\ req.uuid \in Uuid
  BY RequestType DEF Download
<1>2. chan[req.channel].entries \in [Uuid -> Data \cup {NoData}]
  BY <1>1 DEF IInv, TypeOK, ChannelObject
<1> DEFINE told == [Empty EXCEPT ![req.uuid] = Known]
<1>3. told \in [Uuid -> Data \cup {NoData}]
      /\ \A u \in Uuid : told[u] \in Data => told[u] = chan[req.channel].entries[u]
  BY <1>1, <1>2 DEF Empty, Known
<1>4. Answer(told)
  BY DEF Download
<1> HIDE DEF told
<1>5. QED
  BY <1>1, <1>3, <1>4, AnswerKeeps

LEMMA ListKeeps == ASSUME IInv, List PROVE IInv'
<1>1. req.op = "list" /\ req.channel \in Channel
  BY RequestType DEF List
<1>2. chan[req.channel].entries \in [Uuid -> Data \cup {NoData}]
  BY <1>1 DEF IInv, TypeOK, ChannelObject
<1>3. QED
  BY <1>1, <1>2, AnswerKeeps DEF List

\* A deleted entry is promised no more, the others stay.
LEMMA DeleteKeeps == ASSUME IInv, Delete PROVE IInv'
<1> DEFINE c == req.channel
           x == chan[c]
<1>1. c \in Channel /\ req.uuid \in Uuid
  BY RequestType DEF Delete
<1>2. promised \in [Channel -> [Uuid -> [Data -> Life]]] /\ x \in ChannelObject
  BY <1>1 DEF IInv, TypeOK
<1>3. /\ phase' = phase /\ req' = Idle /\ keys' = Seen(c)
      /\ chan' = IF Alive(c) THEN [chan EXCEPT ![c] = Removed] ELSE Forget(c)
  BY DEF Delete
<1> DEFINE none == [d \in Data |-> -1]
<1>4. none \in [Data -> Life] /\ (\A d \in Data : none[d] = -1)
       /\ promised' = [promised EXCEPT ![c][req.uuid] = none]
  BY LifeBounds DEF Delete
<1> HIDE DEF none
<1>5. promised' = [promised EXCEPT ![c] = [promised[c] EXCEPT ![req.uuid] = none]]
  BY <1>4
<1>6. promised' \in [Channel -> [Uuid -> [Data -> Life]]]
       /\ \A y \in Channel \ {c} : promised'[y] = promised[y]
  BY <1>1, <1>2, <1>5, <1>4
<1>7. x = [entries |-> x.entries, size |-> x.size, left |-> x.left]
      /\ x.entries \in [Uuid -> Data \cup {NoData}]
  BY <1>2 DEF ChannelObject
<1> DEFINE size == x.size - SizeOf[Known]
<1>8. Removed = [x EXCEPT !.entries[req.uuid] = NoData, !.size = size]
  BY DEF Removed
<1>9. size \in Int
  <2>1. Known # NoData
    BY DEF Delete, IInv, EntryStays
  <2>2. Known \in Data /\ x.size \in Int
    BY <1>1, <1>2, <1>7, <2>1 DEF Known, ChannelObject
  <2>3. SizeOf[Known] \in Nat
    BY <2>2
  <2>4. QED
    BY <2>2, <2>3
<1> HIDE DEF size
<1>10. Removed = [entries |-> [x.entries EXCEPT ![req.uuid] = NoData], size |-> size, left |-> x.left]
  BY <1>7, <1>8
<1>11. CASE Alive(c)
  <2>1. Removed \in ChannelObject
    BY <1>2, <1>7, <1>10, <1>9 DEF ChannelObject
  <2>2. ASSUME NEW u \in Uuid, NEW d \in Data, promised'[c][u][d] >= 0
        PROVE  promised'[c][u][d] <= Removed.left /\ Removed.entries[u] = d
    <3>1. u # req.uuid /\ promised'[c][u][d] = promised[c][u][d]
      <4>1. CASE u = req.uuid
        BY <1>1, <1>2, <1>5, <1>4, <2>2, <4>1
      <4>2. CASE u # req.uuid
        BY <1>1, <1>2, <1>5, <4>2
      <4>3. QED
        BY <4>1, <4>2
    <3>2. QED
      BY <1>1, <1>7, <1>10, <2>2, <3>1, Kept
  <2>3. HandlerStep(c, Removed)
    BY <1>3, <1>11, <1>6, <2>1, <2>2 DEF HandlerStep
  <2>4. QED
    BY <1>1, <2>3, HandlerKeeps
<1>12. CASE ~Alive(c)
  <2>1. promised' = [promised EXCEPT ![c][req.uuid] = [d \in Data |-> -1]]
    BY DEF Delete
  <2>2. HandlerStep(c, Removed)
    BY <1>1, <1>3, <1>12, <1>6, <2>1 DEF HandlerStep
  <2>3. QED
    BY <1>1, <2>2, HandlerKeeps
<1>13. QED
  BY <1>11, <1>12

-----------------------------------------------------------------------------
(* The theorems.                                                           *)

LEMMA StepKeeps == ASSUME IInv, [Next]_vars PROVE IInv'
<1>1. CASE Next
  BY <1>1, TickKeeps, PurgeKeeps, UploadLookupKeeps, LookupKeeps, RefusedKeeps,
     StoreKeeps, DownloadKeeps, ListKeeps, DeleteKeeps DEF Next, Finish
<1>2. CASE UNCHANGED vars
  BY <1>2 DEF vars, IInv, TypeOK, PromiseKept, EntryStays, Known
<1>3. QED
  BY <1>1, <1>2

\* Whatever uploads, reads, deletions and expiries come in whatever order, every
\* variable keeps its type: no channel outlives the longest time to live.
THEOREM TypeCorrect == Spec => []TypeOK
<1>1. Init => IInv
  BY InitIInv
<1>2. IInv /\ [Next]_vars => IInv'
  BY StepKeeps
<1>3. IInv => TypeOK
  BY DEF IInv
<1>4. QED
  BY <1>1, <1>2, <1>3, PTL DEF Spec

\* Until the time an answer has named, the entry it was about can be downloaded.
THEOREM PromisesAreKept == Spec => []PromiseKept
<1>1. Init => IInv
  BY InitIInv
<1>2. IInv /\ [Next]_vars => IInv'
  BY StepKeeps
<1>3. IInv => PromiseKept
  BY DEF IInv
<1>4. QED
  BY <1>1, <1>2, <1>3, PTL DEF Spec

-----------------------------------------------------------------------------
(* The size of a channel.                                                  *)
(*                                                                         *)
(* SizeIsKept sums over the uuids.  The sum is the number of the bytes of   *)
(* the entries, a finite set that grows and shrinks with them.             *)

\* What an entry counts, and the bytes of the entries of some uuids.
Share(e, u) == IF e[u] = NoData THEN 0 ELSE SizeOf[e[u]]
Bytes(e, s) == UNION {{u} \X (1..Share(e, u)) : u \in s}

Entries == [Uuid -> Data \cup {NoData}]

LEMMA ShareType == ASSUME NEW e \in Entries, NEW u \in Uuid PROVE Share(e, u) \in Nat
BY DEF Share, Entries

\* The bytes of one entry are as many as it counts.
LEMMA BytesOfOne ==
  ASSUME NEW u, NEW n \in Nat
  PROVE  IsFiniteSet({u} \X (1..n)) /\ Cardinality({u} \X (1..n)) = n
<1>1. IsFiniteSet({u}) /\ Cardinality({u}) = 1
  BY FS_Singleton
<1>2. IsFiniteSet(1..n) /\ Cardinality(1..n) = n
  <2>1. IsFiniteSet(1..n) /\ Cardinality(1..n) = IF 1 > n THEN 0 ELSE n - 1 + 1
    BY FS_Interval
  <2> QED  BY <2>1
<1>3. IsFiniteSet({u} \X (1..n)) /\ Cardinality({u} \X (1..n)) = Cardinality({u}) * Cardinality(1..n)
  BY <1>1, <1>2, FS_Product
<1>4. Cardinality({u}) * Cardinality(1..n) = n
  BY <1>1, <1>2
<1> QED  BY <1>3, <1>4

LEMMA BytesFinite ==
  ASSUME NEW e \in Entries, NEW s \in SUBSET Uuid
  PROVE  IsFiniteSet(Bytes(e, s))
<1> DEFINE f == [u \in s |-> {u} \X (1..Share(e, u))]
           T == {{u} \X (1..Share(e, u)) : u \in s}
<1>1. f \in Surjection(s, T)
  BY DEF Surjection
<1>2. IsFiniteSet(s)
  BY FS_Subset
<1>3. IsFiniteSet(T)
  BY <1>1, <1>2, FS_Surjection
<1>4. \A S \in T : IsFiniteSet(S)
  <2> SUFFICES ASSUME NEW u \in s PROVE IsFiniteSet({u} \X (1..Share(e, u)))
    OBVIOUS
  <2>1. Share(e, u) \in Nat
    BY ShareType
  <2> QED  BY <2>1, BytesOfOne
<1> QED  BY <1>3, <1>4, FS_UNION DEF Bytes

\* One uuid more adds the bytes of its entry.
LEMMA BytesGrow ==
  ASSUME NEW e \in Entries, NEW s \in SUBSET Uuid, NEW u \in s
  PROVE  Cardinality(Bytes(e, s)) = Share(e, u) + Cardinality(Bytes(e, s \ {u}))
<1> DEFINE A == {u} \X (1..Share(e, u))
           B == Bytes(e, s \ {u})
<1>1. Bytes(e, s) = A \cup B
  BY DEF Bytes
<1>2. A \cap B = {}
  BY DEF Bytes
<1>3. Share(e, u) \in Nat
  BY ShareType
<1>4. IsFiniteSet(A) /\ Cardinality(A) = Share(e, u)
  BY <1>3, BytesOfOne
<1>5. IsFiniteSet(B)
  BY BytesFinite
<1> HIDE DEF A, B
<1>6. Cardinality(A \cup B) = Cardinality(A) + Cardinality(B) - Cardinality(A \cap B)
  BY <1>4, <1>5, FS_Union
<1>7. Cardinality(A \cap B) = 0 /\ Cardinality(B) \in Nat
  BY <1>2, <1>5, FS_EmptySet, FS_CardinalityType
<1> QED  BY <1>1, <1>3, <1>4, <1>6, <1>7 DEF B

\* The sum of the model is the number of bytes: otherwise there is a smallest set of
\* uuids for which it is not.
LEMMA SumIsBytes ==
  ASSUME NEW e \in Entries
  PROVE  MapThenSumSet(LAMBDA u : Share(e, u), Uuid) = Cardinality(Bytes(e, Uuid))
<1> DEFINE pick(s) == CHOOSE x \in s : TRUE
           Sums(f) == [s \in SUBSET Uuid |->
                         IF s = {} THEN 0 ELSE Share(e, pick(s)) + f[s \ {pick(s)}]]
           iter == CHOOSE f : f = Sums(f)
           size == [s \in SUBSET Uuid |-> Cardinality(Bytes(e, s))]
<1>1. MapThenSumSet(LAMBDA u : Share(e, u), Uuid) = iter[Uuid]
  BY DEF MapThenSumSet, MapThenFoldSet
<1>2. Bytes(e, {}) = {}
  BY DEF Bytes
<1>3. Cardinality({}) = 0
  BY FS_EmptySet
<1>4. size = Sums(size)
  <2> SUFFICES ASSUME NEW s \in SUBSET Uuid
               PROVE  size[s] = IF s = {} THEN 0 ELSE Share(e, pick(s)) + size[s \ {pick(s)}]
    OBVIOUS
  <2>1. CASE s = {}
    BY <1>2, <1>3, <2>1
  <2>2. CASE s # {}
    <3>1. pick(s) \in s
      BY <2>2
    <3> HIDE DEF pick
    <3>2. Cardinality(Bytes(e, s)) = Share(e, pick(s)) + Cardinality(Bytes(e, s \ {pick(s)}))
      BY <3>1, BytesGrow
    <3> QED  BY <2>2, <3>2
  <2> QED  BY <2>1, <2>2
<1>5. iter = Sums(iter)
  <2>1. \E f : f = Sums(f)
    BY <1>4
  <2> HIDE DEF Sums
  <2> QED  BY <2>1
<1> HIDE DEF iter
<1> DEFINE Wrong == {s \in SUBSET Uuid : iter[s] # size[s]}
<1>6. Wrong = {}
  <2> SUFFICES ASSUME Wrong # {} PROVE FALSE
    OBVIOUS
  <2>1. Wrong \subseteq FiniteSubsetsOf(Uuid)
    BY FS_FiniteSubsetsOfFinite
  <2> HIDE DEF Wrong
  <2>2. PICK s \in Wrong : \A r \in Wrong : ~ (<<r, s>> \in StrictSubsetOrdering(Uuid))
    BY <2>1, WFMin, FS_StrictSubsetOrderingWellFounded
  <2> USE DEF Wrong
  <2>3. CASE s = {}
    BY <1>4, <1>5, <2>3
  <2>4. CASE s # {}
    <3> DEFINE r == s \ {pick(s)}
    <3>1. r \in SUBSET Uuid /\ r \subseteq s /\ r # s
      BY <2>4
    <3>2. <<r, s>> \in StrictSubsetOrdering(Uuid)
      BY <3>1 DEF StrictSubsetOrdering
    <3>3. iter[r] = size[r]
      BY <2>2, <3>1, <3>2
    <3> HIDE DEF pick, size
    <3>4. iter[s] = Share(e, pick(s)) + iter[r]
      BY <1>5, <2>4, Zenon
    <3>5. size[s] = Share(e, pick(s)) + size[r]
      BY <1>4, <2>4, Zenon
    <3> QED  BY <3>3, <3>4, <3>5
  <2> QED  BY <2>3, <2>4
<1> QED  BY <1>1, <1>6

\* Another entry under a uuid changes the bytes by the difference.
LEMMA EntrySet ==
  ASSUME NEW e \in Entries, NEW u \in Uuid, NEW x \in Data \cup {NoData}
  PROVE  LET n == Cardinality(Bytes(e, Uuid))
             m == Cardinality(Bytes([e EXCEPT ![u] = x], Uuid))
             size == IF x = NoData THEN 0 ELSE SizeOf[x]
         IN  n \in Nat /\ m \in Nat /\ m = n - Share(e, u) + size
<1> DEFINE f == [e EXCEPT ![u] = x]
           rest == Uuid \ {u}
<1>1. f \in Entries /\ f[u] = x /\ \A v \in rest : f[v] = e[v]
  BY DEF Entries
<1>2. Share(f, u) = IF x = NoData THEN 0 ELSE SizeOf[x]
  BY <1>1 DEF Share
<1>3. \A v \in rest : Share(f, v) = Share(e, v)
  BY <1>1 DEF Share
<1> HIDE DEF f
<1>4. Bytes(f, rest) = Bytes(e, rest)
  BY <1>3 DEF Bytes
<1>5. Cardinality(Bytes(e, Uuid)) = Share(e, u) + Cardinality(Bytes(e, rest))
  BY BytesGrow
<1>6. Cardinality(Bytes(f, Uuid)) = Share(f, u) + Cardinality(Bytes(f, rest))
  BY <1>1, BytesGrow
<1>7. Share(e, u) \in Nat /\ Share(f, u) \in Nat /\ Cardinality(Bytes(e, rest)) \in Nat
  <2>1. IsFiniteSet(Bytes(e, rest))
    BY BytesFinite
  <2> QED  BY <1>1, <2>1, ShareType, FS_CardinalityType
<1> HIDE DEF rest
<1>8. /\ Cardinality(Bytes(e, Uuid)) \in Nat /\ Cardinality(Bytes(f, Uuid)) \in Nat
      /\ Cardinality(Bytes(f, Uuid)) = Cardinality(Bytes(e, Uuid)) - Share(e, u) + Share(f, u)
  BY <1>4, <1>5, <1>6, <1>7
<1> QED  BY <1>2, <1>8 DEF f

\* The size of a channel object is that of its entries, and within the limit.
Sized(x) == x.size = Cardinality(Bytes(x.entries, Uuid)) /\ x.size <= MaxSize

SizeInv == \A c \in Channel : Sized(chan[c])

LEMMA FreshIsSized == ASSUME NEW left PROVE Sized(Fresh(left))
<1>1. Bytes(Empty, Uuid) = {}
  <2>1. \A u \in Uuid : Share(Empty, u) = 0
    BY DEF Empty, Share
  <2>2. 1..0 = {}
    OBVIOUS
  <2> QED  BY <2>1, <2>2 DEF Bytes
<1>2. Cardinality(Bytes(Empty, Uuid)) = 0
  BY <1>1, FS_EmptySet
<1> QED  BY <1>2 DEF Fresh, Sized

\* A new time left is none of the size's business.
LEMMA OlderIsSized ==
  ASSUME NEW x \in ChannelObject, Sized(x), NEW left
  PROVE  Sized([x EXCEPT !.left = left])
BY DEF Sized, ChannelObject

LEMMA StoredIsSized ==
  ASSUME IInv, Sized(chan[req.channel]), req.op = "upload", Alive(req.channel),
         Known = req.data \/ (Known = NoData /\ chan[req.channel].size + SizeOf[req.data] <= MaxSize)
  PROVE  Sized(Stored)
<1> DEFINE x == chan[req.channel]
<1>1. req.channel \in Channel /\ req.uuid \in Uuid /\ req.data \in Data
  <2>1. req \in Request
    BY RequestType
  <2> QED  BY <2>1 DEF Request, ReadOp
<1>2. x \in ChannelObject /\ x.entries \in Entries /\ Known = x.entries[req.uuid]
  BY <1>1 DEF IInv, TypeOK, ChannelObject, Entries, Known
<1>3. Stored.entries = [x.entries EXCEPT ![req.uuid] = req.data]
  BY StoredIsSound
<1>4. Stored.size = IF Known = NoData THEN x.size + SizeOf[req.data] ELSE x.size
  BY <1>2 DEF Stored, ChannelObject
<1>5. CASE Known = NoData
  <2>1. Share(x.entries, req.uuid) = 0 /\ req.data # NoData /\ SizeOf[req.data] \in Nat
    BY <1>1, <1>2, <1>5 DEF Share
  <2>2. /\ Cardinality(Bytes(Stored.entries, Uuid)) =
             Cardinality(Bytes(x.entries, Uuid)) + SizeOf[req.data]
        /\ Cardinality(Bytes(x.entries, Uuid)) \in Nat
    BY <1>1, <1>2, <1>3, <2>1, EntrySet
  <2>3. Known # req.data
    BY <1>5, <2>1
  <2> QED  BY <1>4, <1>5, <2>2, <2>3 DEF Sized
<1>6. CASE Known # NoData
  <2>1. Stored.entries = x.entries
    BY <1>1, <1>2, <1>3, <1>6 DEF Entries
  <2> QED  BY <1>4, <1>6, <2>1 DEF Sized
<1> QED  BY <1>5, <1>6

LEMMA RemovedIsSized ==
  ASSUME IInv, Sized(chan[req.channel]), req.op = "delete"
  PROVE  Sized(Removed)
<1> DEFINE x == chan[req.channel]
<1>1. req.channel \in Channel /\ req.uuid \in Uuid /\ Known # NoData
  BY RequestType DEF IInv, EntryStays
<1>2. x \in ChannelObject /\ x.entries \in Entries /\ Known = x.entries[req.uuid]
  BY <1>1 DEF IInv, TypeOK, ChannelObject, Entries, Known
<1>3. /\ Removed.entries = [x.entries EXCEPT ![req.uuid] = NoData]
      /\ Removed.size = x.size - SizeOf[Known]
  BY <1>2 DEF Removed, ChannelObject
<1>4. Share(x.entries, req.uuid) = SizeOf[Known] /\ SizeOf[Known] \in Nat
  BY <1>1, <1>2 DEF Share, Entries
<1>5. /\ Cardinality(Bytes(Removed.entries, Uuid)) =
           Cardinality(Bytes(x.entries, Uuid)) - SizeOf[Known]
      /\ Cardinality(Bytes(x.entries, Uuid)) \in Nat
  BY <1>1, <1>2, <1>3, <1>4, EntrySet
<1> QED  BY <1>3, <1>4, <1>5 DEF Sized

\* A handler leaves channels, writes one, or deletes one.
LEMMA SizeStep == ASSUME IInv, SizeInv, [Next]_vars PROVE SizeInv'
<1>1. chan \in [Channel -> ChannelObject] /\ \A c \in Channel : Sized(chan[c])
  BY DEF IInv, TypeOK, SizeInv
<1>2. Sized(Closed)
  BY FreshIsSized DEF Closed
<1>3. ASSUME NEW c \in Channel, NEW x, Sized(x),
             chan' = chan \/ chan' = [chan EXCEPT ![c] = x] \/ chan' = Forget(c)
      PROVE  SizeInv'
  <2> SUFFICES ASSUME NEW y \in Channel PROVE Sized(chan'[y])
    BY DEF SizeInv, Sized, Bytes, Share
  <2> QED  BY <1>1, <1>2, <1>3 DEF Forget
<1>4. CASE Tick
  <2> SUFFICES ASSUME NEW c \in Channel PROVE Sized(chan'[c])
    BY DEF SizeInv, Sized, Bytes, Share
  <2>1. chan'[c] = [chan[c] EXCEPT !.left = Older(chan[c].left)]
    BY <1>4 DEF Tick
  <2> QED  BY <1>1, <2>1, OlderIsSized
<1>5. CASE Purge
  <2> SUFFICES ASSUME NEW c \in Channel PROVE Sized(chan'[c])
    BY DEF SizeInv, Sized, Bytes, Share
  <2> QED  BY <1>1, <1>2, <1>5 DEF Purge
<1>6. ASSUME NEW c \in Channel, NEW u \in Uuid, NEW d \in Data, NEW wish \in RequestedTTL,
             UploadLookup(c, u, d, wish)
      PROVE  SizeInv'
  <2> DEFINE ttl == IF wish = 0 THEN DefaultTTL ELSE wish
  <2>1. Sized(Fresh(ttl * SECOND))
    BY FreshIsSized
  <2>2. chan' = chan \/ chan' = [chan EXCEPT ![c] = Fresh(ttl * SECOND)] \/ chan' = Forget(c)
    BY <1>6 DEF UploadLookup
  <2> QED  BY <1>3, <2>1, <2>2
<1>7. ASSUME NEW op \in ReadOp, NEW c \in Channel, NEW u \in Uuid, Lookup(op, c, u)
      PROVE  SizeInv'
  BY <1>2, <1>3, <1>7 DEF Lookup
<1>8. CASE UploadStore
  <2>1. req.channel \in Channel
    BY <1>8, RequestType DEF UploadStore
  <2>2. Alive(req.channel) => Sized(Stored)
    BY <1>1, <1>8, <2>1, StoredIsSized DEF UploadStore
  <2>3. chan' = IF Alive(req.channel) THEN [chan EXCEPT ![req.channel] = Stored] ELSE Forget(req.channel)
    BY <1>8 DEF UploadStore
  <2> QED  BY <1>2, <1>3, <2>1, <2>2, <2>3
<1>9. CASE Delete
  <2>1. req.channel \in Channel
    BY <1>9, RequestType DEF Delete
  <2>2. Sized(Removed)
    BY <1>1, <1>9, <2>1, RemovedIsSized DEF Delete
  <2>3. chan' = IF Alive(req.channel) THEN [chan EXCEPT ![req.channel] = Removed] ELSE Forget(req.channel)
    BY <1>9 DEF Delete
  <2> QED  BY <1>3, <2>1, <2>2, <2>3
<1>10. CASE UNCHANGED chan
  BY <1>10 DEF SizeInv, Sized, Bytes, Share
<1>11. CASE Download \/ List
  <2>1. req.channel \in Channel
    BY <1>11, RequestType DEF Download, List
  <2>2. chan' = chan \/ chan' = Forget(req.channel)
    BY <1>11 DEF Download, List, Answer
  <2> QED  BY <1>2, <1>3, <2>1, <2>2
<1> QED
  BY <1>4, <1>5, <1>6, <1>7, <1>8, <1>9, <1>10, <1>11 DEF Next, Finish, UploadRefused, vars

\* The size kept beside the entries is the sum of theirs and within the limit, however
\* often an upload is sent and whatever is deleted meanwhile: app.js.
THEOREM SizesAreKept == Spec => []SizeIsKept
<1>1. Init => IInv /\ SizeInv
  BY InitIInv, FreshIsSized DEF Init, SizeInv, Closed
<1>2. IInv /\ SizeInv /\ [Next]_vars => (IInv /\ SizeInv)'
  BY StepKeeps, SizeStep
<1>3. IInv /\ SizeInv => SizeIsKept
  <2> SUFFICES ASSUME IInv, SizeInv, NEW c \in Channel
               PROVE  /\ chan[c].size = MapThenSumSet(LAMBDA u : Share(chan[c].entries, u), Uuid)
                      /\ chan[c].size <= MaxSize
    BY DEF SizeIsKept, Share, IInv, TypeOK
  <2>1. chan[c].entries \in Entries
    BY DEF IInv, TypeOK, ChannelObject, Entries
  <2> QED  BY <2>1, SumIsBytes DEF SizeInv, Sized
<1> QED  BY <1>1, <1>2, <1>3, PTL DEF Spec
=============================================================================
