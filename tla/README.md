# BrightID node: a TLA+ verification project

A BrightID node is one of many servers that keep the same social graph.  Users
sign *operations* (connect, create a group, sponsor, set a signing key, ...), any
node accepts them, all nodes agree on their order through a private
proof-of-authority chain (IDChain), and each node executes them on its own
ArangoDB.  At every 240th block the graph is dumped, and a scorer derives from
the dump which users are verified.  Apps ask any node and expect the same answer.

This directory holds models of that system in TLA+, the TLC configurations that
check them on small instances, and TLAPS proofs of their main properties for all
instances.  Paths below are relative to the repository; `B/` stands for
`web_services/foxx/brightid/`.

- [1 The system](#1-the-system)
- [2 Modules](#2-modules)
- [3 Runs and bounds](#3-runs-and-bounds)
- [4 Proofs](#4-proofs)
- [5 Where code and text disagree](#5-where-code-and-text-disagree)
- [6 What is not modelled](#6-what-is-not-modelled)
- [7 Plan](#7-plan)

## 1 The system

### 1.1 Processes

| process | code | runs as |
|---|---|---|
| API service `brightid` | `B/index.js`, `B/operations.js`, `B/db.js` | Foxx service, requests in parallel threads |
| apply service | `B/apply.js` with the same `operations.js`, `db.js` | Foxx service, called by the receiver only |
| sender | `consensus/sender.py` | endless loop, restarted after errors |
| receiver | `consensus/receiver.py` | endless loop, restarted after errors |
| scorer | `scorer/runner.py`, `scorer/verifications/*.py` | endless loop, restarted after errors |
| updater | `updater/start.py`: `sponsorships.py`, `seed_groups.py`, `apps.py` | cron jobs, each a process of its own |
| profile service | `web_services/profile/app.js` | one node.js event loop |

They share one database.  Nothing takes locks and, outside a single Foxx query,
nothing uses transactions: every document access is atomic, no sequence of them
is.  The receiver waits for each `PUT`, so the *operations* of the chain are
executed strictly one after the other; the API, the updater and the scorer run
beside them.

### 1.2 Components

| component | state | operations | what makes it hard | correct means | status |
|---|---|---|---|---|---|
| Operation pipeline | collections `operations`, `operationsHashes`; `variables/LAST_BLOCK`; the chain | POST, sender loop, mining, receiver loop, PUT, clean-up at snapshots | crashes between any two writes, duplicates, reorganisations, late markers | same order and outcome on all nodes, executed once, nothing accepted gets lost | `OperationPipeline` |
| Groups and families | `groups`, `usersInGroups`, `invitations`, `connections` | create, delete, invite, join, leave, dismiss, admin, head, convert, vouch, connect | long sequences of legal calls; failed operations that have written; revision conflicts | admins and heads belong, vouches die with a change, removed groups are gone | `Groups` |
| Snapshots and scorer | `dump_N`, `dump_N_fnl`, database `snapshot`, `verifications`, `VERIFICATION_BLOCK`, `VERIFICATIONS_HASHES`, `PREV_SNAPSHOT_TIME` | dump, move, restore, verify, publish, trim, remove | two processes that hand over directories; incremental scoring; errors between writes | what is served equals what the whole history says; quotas; nobody is forgotten | `Snapshots` |
| Sponsorships | `sponsorships`, `apps.usedSponsorships`/`totalSponsorships`, event cursors | Sponsor, Spend Sponsorship, contract events | counter updated by operation and updater; TTL index; two writers that read and then write, jobs that overlap | only who is authorised and has asked is sponsored, for good; the counter comes right; no event is missed | `Sponsorships`, partly |
| Social recovery | `users.signingKeys`, `connectionsHistory`, `requiredRecoveryNum` and its successor | set recovery connections, set signing key, add/remove signing key, set required number, read the profile | delays of a week on another clock than the choices; a read that writes the whole document | choices count after their delay and not before; removed contacts go on for a week; a stale document cannot shorten a delay | `Recovery`, partly |
| Rate limits | `operationCounters` with TTL | `checkLimits` | read and upsert of shared counters in parallel requests | a verified user is not shut out by others; a refusal is not for ever | `RateLimits`, partly |
| Blind-signature verifications | `signedVerifications`, `appIds`, `cachedParams` | public parameters, signature, registration of an app user | parallel requests that check and then insert; public parameters that several users send; lost answers, repeated requests | one signature per user, app, verification and period; only granted uids are let in, and each request enters one account; a signature can always be used | `BlindVerifications`, partly |
| Blind signatures | - | `WISchnorrServer.js`, `WISchnorrClient.js` | modular arithmetic; a challenge asked for twice | a signature verifies, and no response is ruled out as its origin | `WISchnorr` |
| Profile service | in-memory channels | put, get, list, delete, expire | limits checked before a write; expiry | sizes equal contents; limits hold; what a client was promised is there, unused channels go | `Profile`, partly |
| Seed groups updater | `groups.seed`, `quota`, list of checked votes | read votes, execute them | list saved at the end | each vote is executed once | left out, see 6 |
| Set-up, read-only API, other cryptography, schemas, statistics, deployment | - | - | - | - | left out, see 6 |

### 1.3 Interactions

```
 client -- POST --> operations{init} -- sender --> IDChain -- receiver -- PUT --> apply
                         ^                |                        |               |
                         |            {sent}                       |        groups, users, ...
                         +------------------------------------------------- {applied|failed}
                                                                   |
                                      every 240 blocks: dump_N --> dump_N_fnl
                                                                   |
                                  verifications <-- scorer <-- restore, verify, remove
```

* `operations.state` is written by three processes (API `init`, sender `sent`,
  apply `applied`/`failed`) and the record is deleted by a fourth path
  (`remove_old_operations`).  Only `operationsHashes` protects against replay.
* `dump_N_fnl` is the only message from the receiver to the scorer: created by a
  rename, consumed by removing it after everything has been published.
* `VERIFICATIONS_HASHES` decides which block's verifications are served
  (`userVerifications` takes the newest), `VERIFICATION_BLOCK` which block the
  next one is computed from.
* A blind verification is spread over three requests of a client that may hear none
  of the answers: `cachedParams` carries it from the first to the second,
  `signedVerifications` answers a repeated second one, and only the signature, which
  the client keeps, connects the third with them.

### 1.4 Hazards

`PROJECT.json` lists forty places where this code can go wrong in a way a test
would hardly reach, each with the properties that watch it or the reason why none
does.  The kinds that matter most here: writes without a transaction
(`apply.js:24`), work that is repeated after an error (`receiver.py:144`,
`runner.py:90`), checks separated from the write they protect (`index.js:44/61`),
state that another process removed meanwhile (`sender.py:54`), revision conflicts
that undo half an operation (`db.js:384`), answers that never arrive and are asked for
again (`index.js:220`), and time that passes inside a handler (`app.js:126`).

## 2 Modules

```
 OperationPipeline --INSTANCE--> ReplicatedLog
        ^--------EXTENDS-- MCOperationPipeline, OperationPipelineProofs
 Groups <--EXTENDS-- MCGroups            Groups <--EXTENDS-- GroupsProofs
 Snapshots <--EXTENDS-- MCSnapshots      Snapshots <--EXTENDS-- SnapshotsProofs
 Sponsorships <--EXTENDS-- MCSponsorships
        ^--------EXTENDS-- SponsorshipsProofs
 Recovery <--EXTENDS-- MCRecovery        Recovery <--EXTENDS-- RecoveryProofs
 Profile <--EXTENDS-- MCProfile          Profile <--EXTENDS-- ProfileProofs
 BlindVerifications --INSTANCE--> UniqueRegistry
        ^--------EXTENDS-- MCBlindVerifications, BlindVerificationsProofs
 WISchnorr <--EXTENDS-- MCWISchnorr      WISchnorr <--EXTENDS-- BlindVerificationsProofs
 RateLimits <--EXTENDS-- MCRateLimits    RateLimits <--EXTENDS-- RateLimitsProofs
```

`ReplicatedLog` is the abstract specification of the pipeline, `UniqueRegistry` that of
blind verifications.  `MC*` modules only
give constants their values.  The small definitions headed *A receiver that
forgets ...*, *A dump without ...* are faulty variants of the definition that
follows them: no action uses them; each shows that a named property notices the
bug (`mutants` in `PROJECT.json`).

### 2.1 OperationPipeline

One copy of the variables per node; `log` and `blocks` are the chain.

| TLA+ | code |
|---|---|
| `record[n][op]` | `state` of the document in `operations` ("none": no document) |
| `hashes[n]` | keys of `operationsHashes` |
| `journal[n]` | history: every PUT's operation and outcome, in order; it stands for the domain database |
| `posting[n]` | requests between `index.js:44` and `:61` |
| `marking[n]` | the sender's list between the transaction and the last update |
| `mempool[n]`, `log`, `blocks` | IDChain as the node relies on it (external) |
| `last[n]`, `pos[n]`, `phase[n]` | `LAST_BLOCK`, and where receiver and PUT are inside a block |
| `PostCheck`, `PostUpsert` | `operationsPost`, `db.upsertOperation` |
| `Broadcast`, `MarkSent` | `sender.py` `main` |
| `FetchBlock`, `FinishBlock` | `receiver.py` `main`, `remove_old_operations` |
| `ApplyOp`, `InsertHash`, `UpsertOperation` | `process_op` and the three writes of `operationsPut` |
| `SenderCrash`, `ReceiverCrash`, `DbCrash` | the restart of a process; the loss of the database inside a PUT |
| `Mine`, `MineEmpty`, `Reorg` | IDChain |

Abstractions, all of them deliberate:

* An operation stands for its hash.  `Accepts(j, op)` - does `verify` and `apply`
  let `op` through after the outcomes `j`, those of failed operations included, which
  may have written before they threw - is a constant: the proofs hold for
  every such function.  That the outcome is a *function* of the outcomes before
  is what the code needs for consensus and is an assumption here; signature and
  timestamp checks that read the node's clock, and `apply` paths that read what the
  scorer wrote, can break it (listed as hazards).
* The domain writes of one `operations.apply` are one step.  What happens when
  such an operation stops half-way is the subject of `Groups`.
* The receiver is interrupted between operations; inside a PUT it is the
  database that stops.  `process_op` retries a revision conflict at once: that is
  part of `ApplyOp`.
* Blocks are created by one chain; only the newest block may be replaced, and
  `Depth` (= `NUM_SEALERS // 2 + 1`) is at least 1.
* Which of the old records a snapshot removes depends on clocks: any subset of
  `Stale`.

### 2.2 ReplicatedLog

The promise of the pipeline: there is one `ledger` of outcomes that only grows, and
each node's `view` is a prefix of it that only grows.  `OperationPipeline`
instantiates it with the longest journal as the ledger and the journals as views;
`ImplementsReplicatedLog == Log!Spec` is checked as a property and proved (4.1).

### 2.3 Groups

State per group: `type`, `admins`, `members` (the edges `usersInGroups`), `head`,
`vouchers`, `invites`; and `strong`, the connections of level *already known* or
*recovery*.  Each operation of `db.js` is one action, because the apply service
executes them one at a time; the writes an operation leaves behind when it throws
are part of the action:

* `addMembership` removes the invitation before `checkJoiningFamily` can throw:
  a refused attempt uses the invitation up (`AddMembership`).
* `deleteMembership` updates the group document twice with one revision when an
  admin leaves a family.  The second update conflicts, the receiver puts the operation
  again, and the second attempt completes (`DeleteMembership`) - except in a
  `dismiss` of oneself, where it is refused because the right is gone
  (`SelfDismissal`).

`Expire` is the passing of 72 hours of block time; `SetSigningKey` is the part of a
social recovery that removes the invitations of the user.  Left out: `updateGroup` (a url)
and the levels below *already known*, which these operations do not tell apart.
Some of what the model allows is surprising and follows the code: a family head can
be set on a general group; a user can become a member of two families with heads,
because `familyGroup` does not count a family without a head and `setFamilyHead` does
not ask the members when it sets one; and a user who is the only admin *and* the only member
leaves a group without members that invitations still point to.

### 2.4 Snapshots

One node.  The receiver walks *blocks → dump → move → time → finish*, the scorer
*idle → reset → connect → verify → trim → advance → remove*; each arrow is one
write, and either process can fail before any of them.

| TLA+ | code |
|---|---|
| `Connect` | a block with a connect operation of a seed group's member |
| `ReachSnapshot`, `Dump`, `Move`, `SetPrevSnapshotTime`, `FinishBlock` | `receiver.py` `main`, `save_snapshot`, and the update of `PREV_SNAPSHOT_TIME` in `main` |
| `Restore` | `next_snapshot`, the restore of `runner.py` |
| `RemoveBlock` | the query in `process` of `runner.py` that removes the block's verifications, and the load of the previous results |
| `Met` ... `SeedConnected`, `Rank` | `seed_connected.py` |
| `InsertConnected`, `InsertVerified` | the batched inserts of both verifiers, any batch |
| `NobodyVerified` | the undefined loop variable at the end of `brightid.py` |
| `UpdateHashes`, `RemoveVerificationsBefore`, `SetVerificationBlock`, `RemoveSnapshot` | the end of `process`, in order |

`chainView` is a history variable: for each snapshot, what `SeedConnected` returns
when it is computed at the snapshot block itself, from the chain's data and the
previous result.  The properties compare what the lagging, failing, restarting
scorer publishes with it.  `failures` counts errors after which nobody has
noticed anything; `regrets` counts errors after a block was published or handed
over but before that was recorded - the runs show that the first kind is harmless
and the second is not.

Abstractions: one member per seed group connects; the verifiers *SeedConnected*
and *BrightID* stand for the list in `runner.py` (the others insert documents of the
same block in the same way); the `communities` field is left out; seed
groups and quotas do not change; the initial `VERIFICATIONS_HASHES` has the entry 0,
as on a node set up from a backup (with the `{}` of `initdb.js` the first `max()`
has nothing to take).  A `dump_N` moved onto an existing `dump_N_fnl` ends up inside
it; a *third* attempt, where the nested name exists too, raises an error and is
beyond the failures these instances allow.

### 2.5 Sponsorships

One app on one node.  A user is sponsored when a document of `sponsorships` says
both that the app has authorised it (`auth`) and that the user has asked for it
(`spend`).  Two programs write these documents, each with a read followed by a write,
a third one counts them, and a TTL index removes those that stay half done.

| TLA+ | code |
|---|---|
| `docs` | the documents of `sponsorships`, by key; `ttl`: it has an `expireDate` |
| `used`, `fresh` | `app.usedSponsorships`; whether its revision is the one `db.sponsor` has read |
| `apply` | the operation the apply service executes, at *put → find → insert / update → count*, and what it has read |
| `events`, `cursor` | the events of the app's contract, one per block; `LAST_BLOCK_LOG` |
| `job[j]` | a run of `sponsorships.py` at *events → cursor → work ⇄ authorise* |
| `recount` | a run of `apps.py` between its count and its write |
| `Put`, `ReadApp`, `FindDoc`, `InsertDoc`, `UpdateDoc`, `CountUse` | `operationsPut` with `verify` and `sponsor` of `B/operations.js` and `B/db.js` |
| `ApplyCrash`, `JobCrash` | a stop of the receiver or the database; an error or stop of a job |
| `Expire`, `Emit` | the TTL index; the contract (external) |
| `StartJob` ... `AddUses` | `update`, `check_events`, `update_app`, `sponsor` of `updater/sponsorships.py` |
| `CountDocs`, `WriteCount` | `update` of `updater/apps.py` |

`signed`, `asked`, `reached` and `cut` are history: the ids of the two operations, the
events a job came to, and whether a job ended among its events.

What the model takes from the code and a reader may not expect: cron starts a job
every minute whether or not the last one has ended, so `Job` has two elements; a job
saves its cursor *before* it looks at the events, and only `RECHECK` blocks are read
again; an event that finds no unused sponsorship is passed over and not tried
again; the operation of a user (Spend Sponsorship) is not checked against
the balance, so more can be sponsored than the app has; a revision conflict in
`appsColl.update` comes after the sponsorship has been written, the repeated
operation is refused because of it, and only the recount puts the number right.

Abstractions: one app, whose total does not change; ids are one value in both of
their spellings (`idsAsHex` apps are left out); BrightID users who sponsor
themselves are verified; no test blocks; the cursor exists from the start, and
each event is a block of its own.  `operationsPut` reaches `sponsorRequestedRecently`
too, but the apply service has no time window configured, so it refuses nothing.
Among several documents of an id `firstExample` returns any.  `Slot` holds enough keys
that an insertion never waits for one.

### 2.6 Recovery

One user on one node.  The user sets contacts to the level *recovery* and back; enough
of those that count can set a new signing key.  What counts is computed from the whole
`connectionsHistory` whenever it is asked for.

| TLA+ | code |
|---|---|
| `history[c]` | the documents of `connectionsHistory` from the user to `c`: level recovery or not, block time |
| `trusts` | the contacts whose own connection is *already known* or *recovery* |
| `user` | `signingKeys`, `requiredRecoveryNum` (2 if missing), `nextRequiredRecoveryNum` (`NoNum` if missing), `requiredRecoveryNumSetAfter` |
| `get` | a request of the API between the read and the replace in `getRequiredRecoveryNum` |
| `now`, `block` | the clock of the node; the time of the newest block that has been applied |
| `Periods`, `Counts`, `Active`, `Listed` | `getRecoveryPeriods`, `isActiveRecovery`, `getRecoveryConnections` |
| `Waits`, `ActiveAfter`, `ActiveBefore` | `getActiveAfter`, `getActiveBefore`: who is listed as waiting, and the times named |
| `Connect`, `ConnectBack` | `connect` by the user, by the contact |
| `SocialRecovery` | `verify` and `setSigningKey` |
| `AddSigningKey`, `RemoveSigningKey`, `RemoveAllSigningKeys`, `SetRequiredRecoveryNum` | the functions of the same names |

Two clocks meet here.  Choices carry the time of their block (`operations.apply`
replaces the timestamp), rights are judged at `Date.now()` of the node.  A block may be
applied up to `Lag` ticks after its time, and block times never go back.

`requests`, `lastKeys`, `since`, `until` and `seen` are history: the required numbers
asked for, the keys the last operation has left, since when each contact is a recovery
connection, until when it was one that had waited, and when it was last *settled* -
counting, and already so for any block that can still come.

What a reader may not expect: a `GET` of a profile writes.  When a required number has
become due, `getRequiredRecoveryNum` replaces the whole document by its key, without
asking for a revision.  The same function runs in the `verify` of a social recovery,
before the signers are looked at, so even a refused recovery writes (`Due` in
`SocialRecovery`).  A number that is due but that nobody has read yet is discarded by
the next `setRequiredRecoveryNum`, so whether it ever came into force depends on
the reads a node has seen.

Abstractions: the operation's ids are the set of those it is verified for; an operation
of the apply service is one step (its single read and write of the user can only
shorten the window of the API's request); requests that find no number due write
nothing and are left out; one such request at a time; other fields of the
user's document and levels other than *recovery* are not told apart.  Signatures
are external: `Signed` says that there is a key to sign with.

### 2.7 Profile

The memory of the profile service.  node.js runs one handler at a time, so a request is
two steps, the look at the cache and the answer, and nothing but time comes between
them: it is enough for a channel to expire.

| TLA+ | code |
|---|---|
| `keys`, `chan` | `channelCache`: the keys it holds, and each channel's entries, size and remaining time |
| `phase` | the position of the clock in its second, which `getExpirationTimestamp` rounds away |
| `req` | the handler that is running |
| `UploadLookup`, `UploadRefused`, `UploadStore` | `POST /upload/:channelId` |
| `Lookup`, `Download`, `List`, `Delete` | the other handlers of a channel |
| `Seen`, `Alive`, `Purge` | NodeCache (external): `get` and `getTtl` delete an expired key, a timer deletes all of them |

`promised` is history: until when each client may trust an `x-expires` header it was
given.  Time is relative to each channel, so the model needs no clock that grows.

What a reader may not expect: a wish below the minimum life is answered with 400 and
the handler goes on, so the channel is created and the entry stored
(`UploadLookup`, `refused`); and a channel that expires in the middle of a handler
makes its header `NaN`, because there is no time left to convert.

### 2.8 BlindVerifications and UniqueRegistry

One app and one of its verifications.  `Worker` are the database's threads, each
between a look and an insert; a client is a device, and a user may have several.

| TLA+ | code |
|---|---|
| `period` | `serverRoundedTimestamp` |
| `cached`, `signed`, `appIds` | `cachedParams`, `signedVerifications`, `appIds` |
| `client[c]` | the parameters, uid and signature a client keeps |
| `worker[w]` | a request past its checks and before its insert |
| `PublicGet`, `TakePublic` | `verificationPublicGet`, and parameters used by somebody else than they were handed to |
| `SigCheck`, `SigInsert`, `SigResponse` | `verificationSigGet`: the checks, the insert, and the response that arrives |
| `PostRequest`, `PostCheck`, `PostInsert`, `PostDone` | `verificationAppUserIdPost`, `insertAppUserIdVerification`, and the answer that the uid is registered |
| `Unique`, `AppUserIds` | what `verificationsGet` and `getAppUserIds` tell the app |

Two things a request names are tied to nobody, and the model leaves them free.
`public` is a parameter of the second request (`index.js:216`), so any client may use
parameters that another one was given: two users who send the same `public` at the same
time both find no document of it, and both insert, because the unique index of
`signedVerifications` includes the id.  `appUserId` is a part of the path of the third
request (`index.js:279`), so each request names any account: two workers can
both find a uid missing, and both insert it, with one account or with two, because the
index on `appIds.uid` is not unique (`initdb.js:78`).

`UniqueRegistry` is what remains for an app to rely on.  A *grant* gives a user one uid in a
period; a request is *admitted* if its uid was granted for its period and is not
taken; a *registration* is the end of one admitted request, and enters one account.  So
a uid brings at most as many accounts as there are requests that were looked up
before its first insert, and none after it.  `ImplementsRegistry` maps `signed` to seats, the workers
that post to the open requests, the uids of `appIds` to what is taken, and the
accounts per period to members.  Each of the two checks has its mutant: without the
unique index a user gets a second seat, which the lookup before the insert does not
prevent; without the lookup of the uid a request is admitted for one that is taken.

Abstractions: signatures are perfect, so that a response serves exactly the uid (with
its blinding numbers) whose challenge it answers, and a request or document carries that uid in
place of challenge and response - the node reads neither.  A response that is
lost is no step: the client is where it was, and the next one is a `SigResponse` again.  The reads
before an insert are one step: `signed` only grows and the document of one public is only
removed from `cached`, so a request that passes its reads one after the other would have passed
them together at the first - verifications aside, which come and go at will here, more than
the scorer makes them.  Two documents of `appIds` that
agree in everything count as one, since the app gets to see them once.

### 2.9 WISchnorr

The signatures themselves, over the subgroup of order 3 modulo 7: small enough to try
every key, random number, message and hash argument.  `modPow` is what the profile
service's `/modpow`, or jsbn, computes, as a recursive function: a product reduced modulo `p`
for each unit of the exponent.  That `p` is prime - the constant in `WISchnorrServer.js` is -
appears in `GroupAssumption` as what the algorithms need of it, Fermat's little theorem; TLC evaluates
it for 7.  Its operators are the functions of
`WISchnorrServer.js` and `WISchnorrClient.js` under their names, the actions are the
requests of one session, with answers lost and challenges asked for again.

`Random` is what `GenerateRandomNumber` can return: it draws a *number of bytes* first, from
one to as many as `q` has, then the bytes, and takes the residue.  Every residue can come
up, which is what `EveryResponseFits` needs - a generator that stops one byte short is its
mutant - but not every residue is equally likely, since the short numbers have
more ways of coming up.  `EveryResponseFits` is therefore a statement about what is possible: for every
response and every valid signature for the same info there are blinding numbers that connect
them and that a client may draw.  That all pairs are alike to an observer would
need uniform numbers, and neither the property nor its proof claims it.

`SignatureVerifies` has the condition `stored.e = e`: a client that lost its blinding
numbers and sends a *new* challenge for the same parameters is answered with the
response to its first one (`index.js:218` looks only at `public`), and what it unblinds
need not verify.

### 2.10 RateLimits

`operationsPost` as far as `checkLimits`.  A request is a sequence of
*count → next sender → count ... → taken or refused*; between the read of a counter
and its upsert other workers run, and the TTL index may remove the document.

| TLA+ | code |
|---|---|
| `counters` | `operationCounters` |
| `UserBucket` | the choice between a user's own bucket, that of its parent's children and the shared one |
| `Operations` | the senders of each kind of operation, with their limit and `senderAttrs` |
| `Look`, `Upsert` | the read and the `UPSERT` of `checkLimits` |
| `Post`, `Count`, `NextSender`, `Refuse` | the loop over `senderAttrs` |

Verifications and sponsorships are the environment's: at each post a user may be
verified or not.  Two things the model makes visible: an operation that began
before the end of a window and inserts after it carries the old count and the old
end over, so the new document may be expired from the start; and concurrent requests
lose counts, so that more than the limit can be taken (the limit is a brake, not a
bound - no property claims otherwise).  A `Sponsor` without an id ends in the
same refusal with an undefined second sender and is not told apart.

## 3 Runs and bounds

| run | instance | checks | states |
|---|---|---|---|
| `pipeline_agreement` | 2 nodes, 2 operations (`join` succeeds only after `invite`), 2 posts, 1 reorganisation, batches of up to 2, snapshot every 2nd block, `invite` may become old | `TypeOK`, `FollowsChain`, `Agreement`, `ImplementsReplicatedLog` | 168 955 |
| `pipeline_crash` | 2 nodes, 1 operation, 2 posts, 1 crash of any process | `ReplayProtected`, `SentIsNotLost`, `EveryNodeHandles` | 378 565 |
| `groups` | 3 users who know each other, 2 groups, one connection that changes, 1 pending invitation | `TypeOK`, `RolesMatchMembers`, `HeadIsMember`, `RemovedLeavesNothing`, `VouchesFollowChange`, `LastAdminStays` | 787 730 |
| `snapshots` | 2 users, 1 seed group with quota 1, 3 snapshots, 2 connects, 1 failure | `TypeOK`, `ResultsFollowChain`, `HashesDescribe`, `QuotaKept`, `VerifiedUsersStay`, `EverySnapshotServed` | 98 157 |
| `sponsorships` | 1 id, 1 BrightID user, 2 jobs that overlap, 2 operations, 1 event, balance 2 | `TypeOK`, `SponsoredAreEntitled`, `SponsoredForEver` | 3 960 118 |
| `sponsorships_count` | 1 id, 1 BrightID user, 1 job, 2 operations, 2 events, balance 1, 1 crash, chunks of 2 blocks of which 1 is read again | `CountComesRight`, `EventsAreRead` | 547 507 |
| `recovery` | 3 contacts, 1 key, required number 2 or 3, a day of 1 tick, a week of 2, blocks up to 1 tick late, 6 instants, 4 changes of connections, 1 change of the number | `TypeOK`, `RightsFollowChanges`, `ChangesTakeAWeek`, `ListIsTrue` | 807 526 |
| `recovery_overwritten` | the same with 2 keys and 7 instants | refutes `KeysAreThoseSet` | - |
| `profile` | 2 channels in a cache for 1, 2 uuids, data of size 1 and 2 in channels of size 3, half seconds, lives of 2 to 5 seconds, wishes below, between and above the limits | `TypeOK`, `SizeIsKept`, `PromiseKept`, `ChannelsGoAway` | 22 866 |
| `blind_verifications` | 2 users with a device each, 2 workers, 2 accounts, 2 uids, 2 periods, 1 set of parameters | `TypeOK`, `ImplementsRegistry`, `SignedIsRegistered` | 333 724 |
| `wischnorr` | the subgroup of order 3 modulo 7, numbers of 1 or 2 bytes of 2 values, 2 infos, 2 messages | `SignatureVerifies`, `EveryResponseFits` | 262 776 |
| `rate_limits` | 2 users, 1 app, 2 workers, limits of 1, a window of 1 tick, 3 posts | `TypeOK`, `OwnLimitIsKept`, `RefusalsEnd` | 266 381 |

What the runs show:

* **pipeline_agreement** - however POSTs, senders, mining, a reorganisation and
  clean-ups interleave, two nodes never disagree about an outcome, never handle
  what the chain can take back, and together implement one growing ledger.
* **pipeline_crash** - with crashes of any process between any two writes, an
  operation is executed once (unless the database itself stops between executing
  and protecting it), no record claims more than happened, and
  what a node accepted is handled by every node in the end.
* **groups** - the structure of groups and families survives every sequence of
  operations.
* **snapshots** - the verifications served, the hashes and the base of the next
  block follow the chain although the scorer lags, fails and starts over.
* **sponsorships** - with an operation and two jobs between their reads and
  writes, and documents expiring under them, nobody is sponsored who was not
  authorised or did not ask, and no sponsorship is taken back.
* **sponsorships_count** - the number of used sponsorships, wrong after conflicts,
  stale counts and crashes, comes to be the number of sponsorships; and the
  overlapping chunks leave no event out unless a job ends among its events.

* **recovery** - for every history of choices, the periods the code computes give a
  contact exactly the rights that somebody would who keeps a note of each choice as it
  comes; whoever holds a key cannot shut settled contacts out within a week (less
  the lag of the blocks), and no required number comes into force within a week,
  even when an old document is written back.  `ListIsTrue` says that the list users
  are shown is complete and its times come true, and names the exceptions: a chosen
  contact is neither active nor waiting exactly a week after the choice, and if it
  was chosen exactly a day after the first one; and the end that
  `getActiveBefore` gives is that of the first counting period, too early for
  somebody chosen several times on the first day.
* **profile** - until the time in any `x-expires` header that an entry was
  acknowledged, delivered or listed with, the entry is there with the same data unless
  somebody deleted it; the size beside the entries is theirs; reading does not
  keep a channel alive.
* **blind_verifications** - in spite of requests between check and insert, lost answers,
  retries and the end of a period, and whoever uses whose parameters, a user is granted one uid per
  period, only granted and unregistered uids are let in, and a request that was let in enters one
  account (so requests for one uid that overlap may enter an account each); a client whose uid was
  signed gets it registered as long as it remembers it, also after the period or its
  verification is gone - unless its public parameters were signed for another uid as well.
* **wischnorr** - every signature made of the response to its own challenge verifies,
  and every valid signature for the same info fits every response: none is ruled out
  as its origin.  How likely each is the run does not tell (2.9).
* **rate_limits** - whatever the others do, a verified user is refused only after more
  operations than the limit have named that user; and no counter refuses for ever, also
  if it was written from a stale read or inserted again after its end.

Why the bounds suffice.  Two nodes are a fast and a slow one; disagreement is a
relation of two.  Two operations with a dependency are the least with which order
matters; two posts let the same operation reach the chain twice, from one node or
from two.  One reorganisation replaces a block with operations while
another node's transactions wait; with `Depth` 1 a receiver that ignores
confirmations is caught.  Three users are an admin, a head and a stranger; two groups
let a family be another one's obstacle.  Three snapshots are the least with which
documents are trimmed while the scorer lags by two; two users with quota 1
compete.  The faulty variants confirm it: each one is found under the same bounds.

For sponsorships, two jobs and one operation are three writers of one document; two
operations and an event are one half from each source and one to spare.  Two events
with chunks of two blocks that overlap by one put an event on either side of a chunk's
end.

For recovery, five ticks are two and a half weeks: a contact can be chosen, removed, chosen
again, wait and count again.  One tick more passes as well (1 642 740 states), and
the run that refutes `KeysAreThoseSet` has it.  With a day of one tick and a week of two, a choice falls before, on and
after every border.  Three contacts are enough for two to recover and one more whom a
required number of three asks for.  The contacts are interchangeable - each is used in
the same way, and no constant names one - so the two runs use their symmetry.  One
key is enough for the passing run, whose properties do not depend on which keys there
are.

For the profile service, a cache for one of two channels is full whenever it is
used; with half seconds, the rounding of the header takes something away; the
lives are such that a default life is longer than the extension, and an extension longer
than the shortest wish.  Two users are the least with which one public is signed for two, and two
uids the least with which they differ; two workers put either of their inserts behind
the other's check, and two accounts make their documents of one uid different.  One set of parameters can
be of the first or of the second period.  Safety also passed with two sets of parameters in one
period (4 439 068 states) and with two devices of one user beside the other's, which are two requests
for one seat (516 764).  Numbers of two bytes of two values reach every residue modulo 3; those of
one byte do not.  In the group of order 3 every residue, and therefore every wrap of the
subtractions modulo `q`, occurs; the hash is an arbitrary mixing function, for the
properties do not depend on which.  Three posts on limits of one are one within the
limit, one beyond it and one in between; safety also passed with four.

Deadlock is checked in the `groups`, `sponsorships`, `profile` and `blind_verifications`
runs (jobs, recounts, the clock and the scorer go on for ever).  The others switch it
off: their bounds end (no posts, no snapshots, no time left, the session over), and then
nothing remains to be done.  No other symmetry is used: nodes and users are not interchangeable under the
constants of most instances, and liveness forbids it in the others.

Fairness.  `EveryNodeHandles`, `EverySnapshotServed`, `CountComesRight` and
`EventsAreRead` assume weak fairness of the processes that are endless loops in the
code - sender, receiver, chain, scorer - or that cron starts for ever, and of the
completion of a request that has passed its checks.  All of them are
restarted by their containers or catch their own errors, so an error is a step
back, not the end; how many errors occur is bounded.  Nothing obliges clients to
post, the chain to reorganise, an app to emit events, the TTL index to run or anything
to fail.

`ChannelsGoAway` assumes that time passes, that a handler ends, and strong fairness of
NodeCache's timer, which is enabled only between handlers and gets its turn in
node's event loop however many requests wait.  `SignedIsRegistered` assumes a
client that repeats its request until an answer gets through - a network that loses
every one is excluded, hence strong fairness of `Retry`; of a public that was signed for two
uids no document is promised in preference to the other (`SigRetry`) - and workers that end their
requests.  `RefusalsEnd` assumes that time passes, the TTL index is looked after and
requests end.  None of them obliges anybody to upload, fetch parameters or post.

Two liveness statements are conditional, and the conditions are facts about the
code.  `EveryNodeHandles` is checked with `Stale = {}`: a snapshot deletes old
records that are still `init`, and such an operation is never sent.
`EverySnapshotServed` asks for somebody verified in each snapshot: `brightid.py` ends
with `print` of its loop variable, which does not exist when nobody is, and the
block is then tried for ever (`NobodyVerified`).

## 4 Proofs

All theorems are checked by TLAPS with no gaps (9147 obligations).  They hold
for every set of nodes, operations, users, groups, jobs, contacts, channels, devices and
workers and every bound; the
assumptions are the named ones of the modules.  Where these call a set finite - operations,
users, seed groups, contacts, uuids, document keys, workers - it is one that a
node has finitely many of at any time, and a maximum, a least element or a sum is taken
over it.

The modules follow one path: an invariant that is not inductive is
strengthened to one that is, TLC checks the stronger one on the instance of its run, and then
each action is proved to keep each part.  The library's induction theorems take an
operator as a parameter, which the installed provers cannot instantiate; where a proof
needs induction over finite data (the sum over the entries of a channel, the latest
connection of a seed group, the first of several periods) it takes a minimal set in the
well-founded order of strict subsets instead (`WFMin`).


### 4.1 OperationPipelineProofs

From `PipelineAssumption` (positive depth, batch size and period, finite `Op`, at
least one node, `Nobody` is no node):

| theorem | statement |
|---|---|
| `TypeCorrect` | `Spec => []TypeOK` |
| `Positions` | blocks cover the log in order, receivers stand inside the confirmed part |
| `Histories` | the facts below about every journal |
| `NodesFollowTheChain` | `Spec => []FollowsChain` |
| `NodesAgree` | `Spec => []Agreement` |
| `OperationsExecuteOnce` | `Spec => []ExecutedOnce` |
| `AppliedRecordsAreProtected` | `Spec => []AppliedIsProtected` |
| `ReplayIsPrevented` | `Spec => []ReplayProtected`, the two before together |
| `SentOperationsTravel` | `Spec => []SentIsNotLost` |
| `NodesReplicateOneLedger` | `Spec /\ []Uninterrupted => ImplementsReplicatedLog` |

`Agreement` alone is not inductive: a step of one node could disagree with
another node's older outcome.  The argument goes through three layers.

1. *Positions.*  `blocks` is ordered and its last block ends the log; a receiver's
   position lies between the end of block `last[n]` and that of the next block, which is
   confirmed.  No action changes the confirmed part of the log: `Reorg` touches only
   the newest block and `Depth >= 1`.
2. *Histories.*  For each journal: until an interruption it is in step with the
   log; an operation's hash is stored exactly when it was executed (except between
   the two writes of one PUT, which `phase` tells); hence nothing is
   executed twice; and each outcome is the verdict on the prefix before it -
   a function of that prefix alone.
3. *Agreement.*  Two uninterrupted journals list the same operations, and equal
   prefixes have equal verdicts, so a node that appends an outcome others already
   have appends the same one.

`ExecutedOnce` is conditional on the database running on during a PUT: `apply.js`
executes the operation before it inserts the hash, so a database that stops in
between makes the receiver execute it again.

`AppliedIsProtected` strengthens to what `phase` says about the record about to be
written; `SentIsNotLost` to operations being marked, which also travel.

The refinement maps the ledger to the longest journal.  That this is one journal and not a
choice needs `RefinementInv`: agreement, and that some node is ahead of all others; any two
nodes that are have equal journals.  A step that executes an operation extends one
journal by one outcome.  If that node was ahead, the ledger grows by that
outcome; if it was behind, its journal stays within the ledger, because its new entry agrees
with the entry there.  Every other step stutters.  The hypothesis `[]Uninterrupted` - no
stop of a receiver, or of the database inside a PUT - is the condition of
`Agreement` itself (see 5, the first of the four); senders may crash, and the chain may
reorganise.

### 4.2 GroupsProofs

From `GroupsAssumption`:

| theorem | statement |
|---|---|
| `TypeCorrect` | `Spec => []TypeOK` |
| `RolesMatch` | `Spec => []RolesMatchMembers` |
| `RemovalIsComplete` | `Spec => []RemovedLeavesNothing` |
| `GroupsKeepAnAdmin` | `Spec => LastAdminStays` |
| `HeadsBelong` | `Spec => []HeadIsMember`, if nobody in `Dismissals` dismisses themselves |
| `VouchesExpire` | `Spec => VouchesFollowChange`, under the same assumption |

The inductive invariant `IInv` joins the listed invariants with
what they need of one another: a group that does not exist has no admins, members,
head, vouchers or invitations; nobody is connected to themselves, so that a voucher, who
knows every member, is none.  The first four theorems hold for every `Dismissals`, users
who dismiss themselves included; the last two are false then (see 5), and the run
excludes it.

### 4.3 SponsorshipsProofs

From `SponsorshipsAssumption` (ids are no BrightID users, chunks are longer than
their overlap, keys are a finite set of numbers):

| theorem | statement |
|---|---|
| `TypeCorrect` | `Spec => []TypeOK` |
| `Entitled` | `Spec => []SponsoredAreEntitled` |
| `Permanent` | `Spec => SponsoredForEver` |

Not even the types are inductive: a job copies the id of an event into a document, and
nothing in `TypeOK` says that the event is there.  `IInv` adds what each process
relies on between its read and its write.  *Documents* (`GoodDoc`): at least
one half, no expiry when there are both, each half given by the one whose it is.
*The apply service* (`ApplyInv`): its operation is on record, and the document it is
going to complete lacked, when read, what the operation gives - the half
that it had came from the other side, which is why setting both flags is right.
*Jobs* (`JobInv`): they are at events that are there, and the document they are going
to authorise is, if it still exists, the one of their event; this holds although
another process may have removed it, because keys are not used again (`Held`).
The lemma `StepWrites` sums up what any step can do to the documents - remove one
with an expiry, add a good one, replace one by a good one of the same id, equal to it if
it was complete - and both theorems follow from it.  `IInv` was checked with
TLC on both instances before it was proved.

### 4.4 RecoveryProofs

From `RecoveryAssumption` (a day is shorter than a week, required numbers are 2 to 5,
the first key is a key, finitely many contacts):

| theorem | statement |
|---|---|
| `TypeCorrect` | `Spec => []TypeOK` |
| `RequiredNumsWait` | `Spec => []RequiredNumTakesAWeek` |
| `RightsAreChanges` | `Spec => []RightsFollowChanges` |
| `ChangesWait` | `Spec => []ChangesTakeAWeek` |
| `ListsAreTrue` | `Spec => []ListIsTrue` |

The number in force says nothing about the next one, and nothing about the document a
request has read and will write.  `NumInv` is the invariant `GoodNums` - the number in
force was asked for a week ago, the next one a week before it becomes due - of
*both* documents: the stored one and the one on its way back.  Because requests for
numbers are only added and time only passes, a document that was good when it was read
is good when it is written, however late (`NumsStayGood`).

The other three relate what the code computes anew from all of `connectionsHistory` to
what somebody would know who wrote each choice down when it came.  `AccountInv` says how
the two correspond, contact by contact (`ContactOK`):

* `Ordered`: the entries of a contact are in the order of their times, none later than
  the newest block;
* `PeriodsOK`: a period that began is still open, or some later entry closes it;
* `SinceOK`: the note *since when* is there exactly when the last entry is a recovery
  connection, and is the time the open period began;
* `UntilOK`: the note *until when* is the latest end of the periods that had waited
  or began on the first day;
* `SeenOK`: a contact noted as settled is still connected, long enough or from the first
  day, or was so until then.

`FirstInv` adds what all contacts share: among the times at which periods began there is a
first one, which defines the day on which no waiting is asked for; a choice never
moves it (`FirstDayStays`).  `PeriodsGrow` says what a new entry does to the
periods of its contact - opens one, closes the open one, or nothing - and
`OthersStay` that those of all others, which share only the first day, remain.  The three
properties follow from this invariant alone; for the list, `Least` finds the first
counting period.

### 4.5 ProfileProofs

From `DataAssumption` and `TimeAssumption` (data have a positive size, uuids are finite, a
second has units, the default life and the extension are at most the maximum):

| theorem | statement |
|---|---|
| `TypeCorrect` | `Spec => []TypeOK` |
| `PromisesAreKept` | `Spec => []PromiseKept` |
| `SizesAreKept` | `Spec => []SizeIsKept` |

`IInv` adds `EntryStays` to types and promise: between the look and the answer of a download or
delete, the entry it is about is still in the channel.  The proof rests on the
rounding of the header: what `getExpirationTimestamp` names is never later than the
channel's expiry, and an extension is only given to a channel with less to live - its
mutant, an extension given always, shortens the life of a channel with more.

The size of a channel is a counter beside a sum: an upload adds the new size and takes
off what it replaces, a deletion takes off what it removes.  The sum is related to
the number of elements of a set, the *bytes* of the entries (`SumIsBytes`), whose
cardinality the provers can follow when one entry changes (`EntrySet`).  `SizeInv` is the
claim, with the limit, for every channel.

### 4.6 BlindVerificationsProofs

From `BlindAssumption` (every device has a user; the bounds are numbers):
`TypeCorrect` (`Spec => []TypeOK`) and `RefinesRegistry` (`Spec => ImplementsRegistry`), for any
number of users, devices, workers, accounts, uids and parameters.

The seats follow from the unique index alone (`OneSignature`).  That a request is let in only
with a uid granted *for its period* needs the history of parameters, which no variable
keeps: `IInv` says that *there is* an assignment of periods to parameters with
which every client, worker and document agrees (`Dated`), that nothing refers to
parameters not handed out (`OnlyHanded`), and that what is used was signed (`SignedFirst`).
A step that hands out parameters extends the assignment; all others keep it (`Careful`).
The refinement has one lemma per abstract action - `GrantStep`, `AdmitStep`, `RegisterStep` - and
one for the steps the app does not see (`Quiet`).  Nothing is assumed of accounts or of who
uses which parameters.

The second part is about `WISchnorr`, whose names differ from those of
`BlindVerifications` for this purpose.  From `GroupAssumption` it proves `SignaturesVerify`
(`SessionSpec => []SignatureVerifies`) and `EveryResponseFitsSignatures`
(`SessionSpec => []EveryResponseFits`): for every order and cofactor, key, info, message and hash
function.  The hash function is any function to the naturals: that it cannot be inverted matters for
forging signatures, not for these two.  The argument, in the order of the lemmas:

1. Residues (`Residue` to `ResidueOfParts`): quotient and remainder are unique, and
   a sum, difference or product may be reduced in any part first.
2. `modPow` is a recursive function, which says something only if such a function
   exists.  `Iteration` shows that any function on a set can be iterated, by putting together
   the finite approximations; `PowersAre` concludes `b^0 = 1` and
   `b^(n+1) = b^n b` modulo `p`.
3. The laws of exponents (`PowerOfSum`, `PowerOfPower`, `PowerOfOne`), each by a least number
   for which it fails (`LeastNumber`) in place of an induction.
4. `Elements`: the generator, the public key and the element of an info have order `q`
   or a divisor of it, because Fermat's theorem makes their power 1; in such elements an exponent
   may be reduced modulo `q` (`ExponentResidue`).
5. `CommitmentsMeet`: the two numbers that the client hashes for its challenge are those
   that a verifier computes from the signature.  So verifying compares residues (`VerifyingIs`), and
   what is left is arithmetic of sums modulo `q` (`PartsSumToHash`).
6. `SessionInv` ties the steps: the numbers of the node, the client's challenge and the
   stored answer have their types, and the stored answer is the response to the stored
   challenge.  A signature is made of a response and of blinding numbers that
   fit `stored.e = e`; without that condition `SignatureVerifies` is false (2.9).

For `EveryResponseFits` the blinding numbers that connect a signature with a response
are computed from both, and 5 shows that with them the client would have sent this
challenge.  That a client may draw them is `RandomIs`: because `Byte ^ Bytes >= q`
(`GroupAssumption`), the draws of the greatest length already reach every residue.

### 4.7 RateLimitsProofs

From `RateAssumption` (limits and bounds are numbers, the window is positive, `Nobody`
is no user, finitely many workers): `TypeCorrect` (`Spec => []TypeOK`) and `OwnLimit`
(`Spec => []OwnLimitIsKept`), both from `CountsAlwaysFit` (`Spec => []IInv`).

That a counter is at most the number of operations posted on its bucket is not
inductive: a worker may hold a count that is long out of date, or one of a document
that has expired since, and write it back one higher.  `CountsFit` adds to *every*
count, stored or read, the operations that have still to be counted on that bucket
(`Waiting`); a `Count` raises the count by one and lowers `Waiting` by one, so the sum
stays within what was posted, and on a user's own bucket within the operations that
named the user.  `RequestsFit` says that a request has one bucket or two different
ones - one operation is never counted twice on a bucket - and that the one it is refused on
is its owner's.

### 4.8 SnapshotsProofs

From `SnapshotsAssumption` (finite users and seed groups, quotas are numbers):

| theorem | statement |
|---|---|
| `TypeCorrect` | `Spec => []TypeOK` |
| `QuotasAreKept` | `Spec => []QuotaKept` |
| `ResultsAreChains` | `Spec => []ResultsFollowChain` |
| `HashesAreRight` | `Spec => []HashesDescribe` |
| `VerifiedUsersAreKept` | `Spec => VerifiedUsersStay` |

all from `NodeFollowsChain` (`Spec => []IInv`).  `IInv` has four parts, each needed by the
next:

1. `TypeInv`: the types, and what is left to insert in each stage of the scorer.
2. `QuotaInv`: the documents of any block are those of a result within the quotas, or
   part of one while a batch is inserted.  It holds through all failures, because
   the scorer removes the documents of a block before it computes them again.
3. `ChainInv`: the history has one entry per snapshot the chain has reached.
4. `FollowInv`: while no error has come between publishing a block and recording
   it (`regrets = 0`), at each step of the scorer - restored, removed, half inserted,
   published, trimmed, advanced - the documents of every block that counts are those the
   chain says, and what it has loaded as the base of the next result is the result of the
   block before.  `HandOver` says which dumps lie between receiver and scorer,
   `Turn` which one is next, `Published` what is served, `InProgress` what is half done.

That quotas hold within one computation is a fact about `SeedConnected` alone
(`SeedConnectedQuota`): of the users a group has newly met it counts the earliest, as
many as the quota leaves, and the argument looks at the latest of those counted
(`Latest`).
`VerifiedUsersStay` is an action property and needs one fact about the history itself,
`Remembered`: `SeedConnected` keeps a verified user whom no seed reports.

### 4.9 Only model-checked

* `EveryNodeHandles`, `EverySnapshotServed`, `CountComesRight`, `EventsAreRead`,
  `ChannelsGoAway`, `SignedIsRegistered` and `RefusalsEnd`: liveness under fairness is beyond the
  prover.
* `KeysAreThoseSet`, which is false (see 5).

## 5 Where code and text disagree

| run | what the text says | what the code does |
|---|---|---|
| `recovery_overwritten` | `signingKeys.should.deep.equal([u4.signingKey])` after a social recovery (`B/tests/operations.js:483`) | `getRequiredRecoveryNum` (`B/db.js:1073`) replaces the whole user with what it read before; a `GET` of the profile that overlaps a social recovery brings the replaced keys back on that node. |

Six more disagreements were found while modelling; they are described here and have no
run of their own.

* "When error is raised, the file will run again and no bad problem occur."
  (`consensus/receiver.py:125`).  `LAST_BLOCK` is saved once per block, so after a stop
  inside a block its operations are put again; one that failed left no hash, and may
  now succeed because later operations of the block have been executed.  The node
  differs from all others from then on.  This is why `Agreement` and `FollowsChain`
  speak of journals until an interruption.
* "after any changes (add/remove member or change head) in a family group all the
  vouchs will expired" (`B/tests/operations.js:773`).  An admin who dismisses themselves
  from a family leaves vouches and head in place: the second update of the group
  conflicts, and the repeated operation is refused.  This is why
  `HeadIsMember` and `VouchesFollowChange` exclude self-dismissal.
* Retrying a block "helps not filling database and preventing unknown problems"
  (`scorer/runner.py:72`).  If `VERIFICATION_BLOCK` has moved to the block already, the
  verifications removed first are the history that `seed_connected.py` loads, and users
  verified by older connections are forgotten.  This is what `regrets` counts.
* "should reject the sponsor requests which are already sponsored"
  (`B/tests/operations.js:987`).  `db.sponsor` and `sponsorships.py` look for a document
  and insert one if there is none; at the same time both do, and the two can both be
  completed.  One user then counts as two sponsorships.
* "uid ... already exists." (`B/errors.js:486`).  `insertAppUserIdVerification` looks for the uid
  and inserts it afterwards, and the index on it is not unique (`B/initdb.js:78`): requests
  that overlap may each enter an account for one uid.  This is why `UniqueRegistry` counts
  accounts by requests (2.8).
* "Generates a cryptographically secure random number modulo q"
  (`B/WISchnorrClient.js:29`).  The number of bytes is drawn first, so the residues are not
  equally likely.  This is why `EveryResponseFits` speaks of what is possible only (2.9).

Smaller observations stand with the modules they concern: the answer 400 that is no end
(2.7), the retry with a new challenge (2.9), lost counts (2.10), and the end that
`getActiveBefore` names (3).

## 6 What is not modelled

* **Other cryptography and encodings** (`rsablind.js`, most of `encoding.js`, the
  Ed25519 signatures of users and of the node): functions without state.  Operations
  stand for their hashes and a signature is assumed to identify its signer.
  `WISchnorr` covers the blind signatures; that forging one is infeasible is a
  question of complexity, and how likely each blinding number is one of probability, which
  neither a model checker nor a proof in TLA+ reaches.
* **Read-only API**: handlers that format what collections hold.  The one write among
  them, of a required number that is due, is in `Recovery`.
* **Schemas, errors**: declarations; a request they reject changes nothing.
* **Database set-up, deployment, statistics**: one-off or pure I/O.
* **Other verifiers** of the scorer: each maps a snapshot to documents of
  the block; they share the control that `Snapshots` models.  `yekta.py` is
  commented out in `runner.py`.
  `seed_connected_with_friend.py` also reads the clock of the scorer, which can
  make nodes differ (a hazard without a property).
* **Seed groups updater** (`updater/seed_groups.py`): one job that reads the votes of a
  contract and writes `groups.seed` and `quota`.  Its hazard - a vote without voters
  ends it before the list of executed votes is saved - is listed.
* **Profile service**: the two legacy handlers without a channel, which set and get one
  key of another cache, and `/modpow`.
* **Parts of the components above** that PROJECT.json names in their notes: `updateGroup`,
  `userFamiliesToVouch` and other reads of groups; the signing of the answer of
  `verificationsGet`, development mode and testblocks; apps other than one.

## 7 Plan

Done: the pipeline with its abstract specification and the proof that it implements it;
groups and families, snapshots and the scorer, sponsorships, recovery, the profile
service and rate limits with the proofs of all their safety properties; blind verifications
with the proof that they implement the registry; blind signatures with the proofs that they
verify and fit every response in every group.  What remains, in this order:

1. **Composition** - the pipeline with snapshots, where the outcome of an operation
   may depend on what the scorer has published and on the clock of the node.
2. **Seed groups** - votes, the list of those executed, and the error in between.
