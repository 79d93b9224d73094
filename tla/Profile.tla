------------------------------- MODULE Profile -------------------------------
(***************************************************************************)
(* The profile service (src/web_services/profile/app.js): two BrightID      *)
(* clients exchange their encrypted profiles over a channel, a map from     *)
(* uuid to data that lives in the memory of the server until its time to   *)
(* live has passed.  Node runs one handler at a time; only time passes     *)
(* inside a handler, between the channelCache.get at its head and the       *)
(* channelCache.getTtl of its answer.                                       *)
(*                                                                         *)
(* Time is relative: `left' is what remains of a channel in units of Date.now, *)
(* of which there are SECOND in a second, so the clock needs no bound.      *)
(* NodeCache is external and modelled from its use: a key whose time has    *)
(* passed is deleted by whoever looks at it, or by a timer.                 *)
(***************************************************************************)
EXTENDS Integers, FiniteSets, FiniteSetsExt

CONSTANTS
  Channel, Uuid, Data,
  NoData,                    \* entries.get of a uuid that is not there
  SizeOf,                    \* sizeof(data) + sizeof(uuid)
  MaxSize,                   \* config.channel_max_size_bytes
  MaxKeys,                   \* config.channel_config.maxKeys
  SECOND,                    \* units of Date.now() in a second
  MinTTL, MaxTTL, DefaultTTL, TTLExtension,   \* config, in seconds
  RequestedTTL               \* what clients ask for; 0 is no wish

ASSUME DataAssumption ==
  /\ NoData \notin Data /\ SizeOf \in [Data -> Nat \ {0}] /\ MaxSize \in Nat
  /\ IsFiniteSet(Uuid)
ASSUME TimeAssumption ==
  /\ SECOND \in Nat \ {0} /\ MaxKeys \in Nat /\ RequestedTTL \subseteq Nat
  /\ MinTTL \in Nat /\ MaxTTL \in Nat
  /\ DefaultTTL \in 0..MaxTTL /\ TTLExtension \in 0..MaxTTL

VARIABLES
  phase,      \* Date.now() % SECOND
  keys,       \* the channels channelCache holds, those included that are past their time
  chan,       \* the channel objects: entries, size and the time left
  req,        \* the handler that has looked its channel up and has not answered
  promised    \* history: for how long a client was told it can download an entry

vars == <<phase, keys, chan, req, promised>>

ReadOp == {"download", "delete", "list"}
Empty == [u \in Uuid |-> NoData]
Fresh(left) == [entries |-> Empty, size |-> 0, left |-> left]
Closed == Fresh(-1)
Idle == [op |-> "none"]
Life == -1 .. MaxTTL * SECOND
Older(left) == IF left < 0 THEN left ELSE left - 1

\* NodeCache's own check of a key: Date.now() has not passed its expiry.
Alive(c) == c \in keys /\ chan[c].left >= 0

\* getExpirationTimestamp rounds down to seconds: the time left until then.
HeaderLeft(left) == left - ((phase + left) % SECOND)

\* getRemainingTTL, in seconds.
RemainingTTL(left) == left \div SECOND

\* What channelCache.get and getTtl leave in the cache: they delete the channel
\* they look for when its time has passed.
Seen(c) == IF Alive(c) THEN keys ELSE keys \ {c}
Forget(c) == [chan EXCEPT ![c] = Closed]

Init ==
  /\ phase = 0
  /\ keys = {}
  /\ chan = [c \in Channel |-> Closed]
  /\ req = Idle
  /\ promised = [c \in Channel |-> [u \in Uuid |-> [d \in Data |-> -1]]]

-----------------------------------------------------------------------------
(* Time, and NodeCache's timer.                                            *)

Tick ==
  /\ phase' = (phase + 1) % SECOND
  /\ chan' = [c \in Channel |-> [chan[c] EXCEPT !.left = Older(@)]]
  /\ promised' = [c \in Channel |-> [u \in Uuid |-> [d \in Data |-> Older(promised[c][u][d])]]]
  /\ UNCHANGED <<keys, req>>

\* The periodic check deletes every key that is past its time. A timer does not
\* run inside a handler.
Purge ==
  /\ req = Idle
  /\ \E c \in keys : ~Alive(c)
  /\ keys' = {c \in keys : Alive(c)}
  /\ chan' = [c \in Channel |-> IF Alive(c) THEN chan[c] ELSE Closed]
  /\ UNCHANGED <<phase, req, promised>>

-----------------------------------------------------------------------------
(* POST /upload/:channelId                                                 *)

\* An upload that checks no maximum.
AcceptedAny(wish) == TRUE

\* A wish above the maximum ends the request; one below the minimum is answered
\* with 400 too, but the handler goes on.
Accepted(wish) == wish <= MaxTTL

\* The channel is looked up, and created if it is not there; a full cache throws.
UploadLookup(c, u, d, wish) ==
  /\ req = Idle
  /\ Accepted(wish)
  /\ LET full == Cardinality(Seen(c)) >= MaxKeys
         answer == [op |-> "upload", channel |-> c, uuid |-> u, data |-> d,
                    existing |-> Alive(c), refused |-> wish # 0 /\ wish < MinTTL]
         ttl == IF wish = 0 THEN DefaultTTL ELSE wish
     IN \/ /\ Alive(c)
           /\ req' = answer
           /\ UNCHANGED <<keys, chan>>
        \/ /\ ~Alive(c) /\ ~full
           /\ keys' = Seen(c) \cup {c}
           /\ chan' = [chan EXCEPT ![c] = Fresh(ttl * SECOND)]
           /\ req' = answer
        \/ /\ ~Alive(c) /\ full
           /\ keys' = Seen(c)
           /\ chan' = Forget(c)
           /\ req' = Idle
  /\ UNCHANGED <<phase, promised>>

Known == chan[req.channel].entries[req.uuid]

\* An answer that carries x-expires tells its client how long every entry in
\* `told' can be downloaded. It is "NaN" when the channel has gone meanwhile.
Promise(c, left, told) ==
  promised' = [promised EXCEPT ![c] = [u \in Uuid |-> [d \in Data |->
     IF told[u] = d THEN Max({@[u][d], HeaderLeft(left), -1}) ELSE @[u][d]]]]

\* Other data under a known uuid (500), or more than the channel holds (440).
UploadRefused ==
  /\ req.op = "upload"
  /\ Known # req.data
  /\ Known # NoData \/ chan[req.channel].size + SizeOf[req.data] > MaxSize
  /\ req' = Idle
  /\ UNCHANGED <<phase, keys, chan, promised>>

\* An upload that gives every channel TTLExtension, also one with longer to live.
StoredExtending == [chan[req.channel] EXCEPT
             !.entries[req.uuid] = req.data,
             !.size = IF Known = NoData THEN @ + SizeOf[req.data] ELSE @,
             !.left = IF req.existing THEN TTLExtension * SECOND ELSE @]

\* The new size and the entry; a channel that existed and is about to go gets
\* TTLExtension, by a cache that does nothing for a key past its time.
Stored == [chan[req.channel] EXCEPT
             !.entries[req.uuid] = req.data,
             !.size = IF Known = NoData THEN @ + SizeOf[req.data] ELSE @,
             !.left = IF req.existing /\ RemainingTTL(@) < TTLExtension
                      THEN TTLExtension * SECOND ELSE @]

UploadStore ==
  LET c == req.channel
      told == [Empty EXCEPT ![req.uuid] = req.data]
  IN /\ req.op = "upload"
     /\ Known = req.data
        \/ (Known = NoData /\ chan[c].size + SizeOf[req.data] <= MaxSize)
     /\ keys' = Seen(c)
     /\ chan' = IF Alive(c) THEN [chan EXCEPT ![c] = Stored] ELSE Forget(c)
     /\ IF Alive(c) /\ ~req.refused
        THEN Promise(c, Stored.left, told) ELSE UNCHANGED promised
     /\ req' = Idle
     /\ UNCHANGED phase

-----------------------------------------------------------------------------
(* GET /download, DELETE and GET /list of a channel                        *)

\* The channel is looked up; one that is not there is answered at once.
Lookup(op, c, u) ==
  /\ req = Idle
  /\ keys' = Seen(c)
  /\ chan' = IF Alive(c) THEN chan ELSE Forget(c)
  /\ req' = IF Alive(c) /\ (op = "list" \/ chan[c].entries[u] # NoData)
            THEN [op |-> op, channel |-> c, uuid |-> u] ELSE Idle
  /\ UNCHANGED <<phase, promised>>

\* A look at a channel that prolongs its life.
AnswerExtending(told) ==
  LET c == req.channel
  IN /\ req' = Idle
     /\ keys' = Seen(c)
     /\ chan' = IF Alive(c) THEN [chan EXCEPT ![c].left = TTLExtension * SECOND] ELSE Forget(c)
     /\ UNCHANGED <<phase, promised>>

\* The answer names the expiry, unless the channel has gone since.
Answer(told) ==
  LET c == req.channel
  IN /\ req' = Idle
     /\ keys' = Seen(c)
     /\ chan' = IF Alive(c) THEN chan ELSE Forget(c)
     /\ IF Alive(c) THEN Promise(c, chan[c].left, told) ELSE UNCHANGED promised
     /\ UNCHANGED phase

Download == req.op = "download" /\ Answer([Empty EXCEPT ![req.uuid] = Known])

List == req.op = "list" /\ Answer(chan[req.channel].entries)

\* A delete that leaves the size as it is.
RemovedKeepingSize == [chan[req.channel] EXCEPT !.entries[req.uuid] = NoData]

\* delete takes the entry and its size out of the channel.
Removed == [chan[req.channel] EXCEPT !.entries[req.uuid] = NoData,
                                     !.size = @ - SizeOf[Known]]

Delete ==
  LET c == req.channel
  IN /\ req.op = "delete"
     /\ keys' = Seen(c)
     /\ chan' = IF Alive(c) THEN [chan EXCEPT ![c] = Removed] ELSE Forget(c)
     /\ promised' = [promised EXCEPT ![c][req.uuid] = [d \in Data |-> -1]]
     /\ req' = Idle
     /\ UNCHANGED phase

Finish == UploadRefused \/ UploadStore \/ Download \/ List \/ Delete

Next ==
  \/ Tick
  \/ Purge
  \/ \E c \in Channel, u \in Uuid, d \in Data, wish \in RequestedTTL : UploadLookup(c, u, d, wish)
  \/ \E op \in ReadOp, c \in Channel, u \in Uuid : Lookup(op, c, u)
  \/ Finish

Spec == Init /\ [][Next]_vars

\* Time passes, a handler ends, and the timer of the cache gets its turn between
\* handlers however many requests come.
Fairness == WF_vars(Tick) /\ WF_vars(Finish) /\ SF_vars(Purge)

FairSpec == Spec /\ Fairness

-----------------------------------------------------------------------------
(* Properties                                                              *)

ChannelObject == [entries : [Uuid -> Data \cup {NoData}], size : Int, left : Life]

Request ==
  [op : {"upload"}, channel : Channel, uuid : Uuid, data : Data, existing : BOOLEAN, refused : BOOLEAN]
  \cup [op : ReadOp, channel : Channel, uuid : Uuid]

\* Types: no channel lives longer than the longest time to live (app.js
\* checks the wish before it creates one), and a handler that has looked
\* its channel up still finds it in the cache.
TypeOK ==
  /\ phase \in 0..SECOND - 1
  /\ keys \subseteq Channel
  /\ chan \in [Channel -> ChannelObject]
  /\ req = Idle \/ (req \in Request /\ req.channel \in keys)
  /\ promised \in [Channel -> [Uuid -> [Data -> Life]]]

\* The size kept beside the entries is theirs and within the limit: upload
\* adds to it and delete subtracts, and an upload sent twice or to a channel
\* deleted from meanwhile must not count wrongly, or the channel fills up
\* with nothing in it (app.js, "update channel size").
SizeIsKept ==
  \A c \in keys :
    LET size(u) == IF chan[c].entries[u] = NoData THEN 0 ELSE SizeOf[chan[c].entries[u]]
    IN chan[c].size = MapThenSumSet(size, Uuid) /\ chan[c].size <= MaxSize

\* Until the time of the x-expires header of any answer that acknowledged,
\* delivered or listed an entry, that entry can be downloaded with the same
\* data, unless somebody deleted it: no later upload, extension, full
\* channel, full cache or expiry in the middle of a handler takes it away.
PromiseKept ==
  \A c \in Channel, u \in Uuid, d \in Data :
    promised[c][u][d] >= 0 =>
      /\ c \in keys
      /\ promised[c][u][d] <= chan[c].left
      /\ chan[c].entries[u] = d

\* A channel to which nobody uploads any more leaves the memory and makes
\* room for another, however often it is read, listed or deleted from: only
\* an upload prolongs its life.
ChannelsGoAway ==
  \A c \in Channel :
    c \in keys ~> (c \notin keys \/ (req.op = "upload" /\ req.channel = c))
=============================================================================
