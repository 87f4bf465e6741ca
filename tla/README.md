# TLA+ models of status-go (community history archives and friends)

This directory holds TLA+ specifications of parts of the status-go sources
under `src/`, the TLC configurations that check them, and `PROJECT.json`,
which records:

- the components;
- the runs;
- the fault variants (mutants) that show each checked property can fail;
- the source lines each definition models (`map`);
- the findings;
- the hazards.

## 1. Inventory of the system

| Part | Source | State | Operations | Status |
|---|---|---|---|---|
| History archive writer | `src/protocol/communities/manager_archive_file.go` | index file (archive ID → metadata: from, to, offset, size, padding), data file (appended bytes), `.torrent` file, last-archive-end-date cursor row | `createHistoryArchiveTorrent` (via `CreateHistoryArchiveTorrentFromDB` / `FromMessages`), `LoadHistoryArchiveIndexFromFile`, `ExtractMessagesFromHistoryArchive`, persistence pass-throughs, `GetHistoryArchiveMagnetlink` | partly modelled |
| Archive scheduler, torrent client, seeding (`ArchiveManager`) | not under `src/` (only `manager_test.go`) | per-community ticker, torrent handles, online flag | periodic `CreateHistoryArchiveTorrentFromDB(cursor, now)`, Start/Stop tasks, Seed/Unseed | tick modelled from the spec; rest planned |
| Providers health manager | `src/healthmanager/providers_health_manager.go` | aggregator of provider statuses, `lastStatus`, subscribers | `Update`, `Reset`, `Status`, `GetStatuses`, `Subscribe`/`Unsubscribe` | partly modelled (`ProvidersHealthManager`) |
| Signal server of status-backend | `src/cmd/status-backend/server/server.go` | websocket connection set under a mutex, HTTP server | `signals` (add connection), `signalHandler` (broadcast), `Stop`, `Listen`, `Serve` | partly modelled (`SignalServer`) |
| Mailserver DB | `src/services/mailservers/database.go` | four SQLite tables: mailservers, request gaps, topics, chat request ranges | single-statement CRUD; the transactions `AddGaps`, `AddTopics`, `AddChatRequestRanges`, `SetTopics` | modelled (`MailserverDB`) |
| Multi-transaction DB | `src/services/wallet/transfer/multi_transaction_db.go` | the `multi_transactions` table, prepared statements | `CreateMultiTransaction`, `UpdateMultiTransaction`, `DeleteMultiTransaction`, `ReadMultiTransactions` | modelled (`MultiTransactionDB`) |
| Wallet API: `CreateMultiTransaction` | `src/services/wallet/api.go` | none of its own; drives the send loop and the multi-transaction table | `CreateMultiTransaction`, `getVerifiedWalletAccount` | partly modelled (`WalletSend`) |
| ERC-1155 path processor | `src/services/wallet/router/pathprocessor/processor_erc1155.go` | none of its own; the chain's nonces and the pending-tx tracker | `sendOrBuild`, `Send` | partly modelled (`WalletSend`) |
| Rest of the wallet API, waku v2 bridge, app-state parser, edit-message validation | `src/services/wallet/api.go`, `src/eth-node/...`, `src/api/app_state.go`, `src/protocol/requests/edit_message.go` | none of their own | forwarding, parsing | not modelled (see §10) |

### How the parts interact

The scheduler ticks once per interval. On each tick it calls
`CreateHistoryArchiveTorrentFromDB(community, topics, start, now,
partition, encrypt)`. `start` is the saved cursor, or the community's
creation time when no cursor row exists yet (`cursor = 0`). The call does
the following:

1. Partition `[start, now)` into windows of `partition` length. The last
   window is clipped to `now`.
2. Query the messages of each window with the half-open rule
   `from <= ts < to`.
3. Chunk each window's messages greedily by `len(Payload)+len(Sig)`,
   dropping messages larger than `maxArchiveSizeInBytes`.
4. Marshal each chunk and, optionally, encrypt it.
5. Pad each encoded archive to the torrent piece length.
6. Give each archive the offset of the current end of the data file.
7. Derive the archive ID as the Keccak hash of the index entry.

It then performs four writes, in this order:

1. rewrite the index;
2. `O_APPEND` to the data file;
3. write the `.torrent`;
4. save the cursor as the loop's final `from`.

Each write returns at once on error. The reader
(`ExtractMessagesFromHistoryArchive`) takes no lock: it loads the index,
then seeks the data file to `offset` and reads `size - padding` bytes. An explicit caller may pass
its own message list instead of the DB (`...FromMessages`).

### Hard behaviours

- Any of the nine error returns can end a call partway through:
  - before anything is written: mkdir, index load/decrypt, DB read,
    encryption;
  - between writes: opening the index, writing it, the data append, the
    torrent write, the cursor save.
- `os.WriteFile` truncates the index before it writes it, so a failed
  write or a crash leaves an empty, garbled or partial index. An empty
  index loads with no error.
- `file.Write` of the data may append only a prefix of the archives.
- Offsets are recomputed on every call from the loaded index.
- Window boundaries, chunk boundaries and the padding rule all have
  off-by-one edges.
- Resumption works only through the cursor row.
- The reader takes no lock, and a missing archive ID makes it panic.
- The health manager and signal server have lock-release/reacquire and
  unlocked-iteration races (hazards in `PROJECT.json`).

### Properties per part

History archive writer:

- every indexed archive reads back exactly its messages (`IndexConsistent`);
- no message is in two archives (`NoDuplicateArchive`);
- a message once archived stays archived (`ArchivedNeverLost`; violated
  by a failed index rewrite);
- no archive is empty (`NoEmptyArchive`, defined but not checked by a run);
- every archivable message the idle writer has not passed is eventually
  archived (`EventuallyArchived`);
- the writer implements the abstract `HistoryArchive` specification
  (`HistoryArchiveRefined`); the cursor therefore never runs ahead of
  what is archived.

Health manager:

- a subscriber is told of every status change (`KnownStatusCurrent`;
  `SubscriberUpToDate`, for Reset, is defined but not checked by a run).

Signal server:

- `Stop` returns (`StopTerminates`; `StopClosesAll` is defined but not
  checked by a run);
- the connection map is never raced (`NoMapRace`).

Mailserver DB:

- a method that returns an error leaves every table unchanged
  (`ErrorLeavesTablesUnchanged`);
- `SetTopics` keeps the `last_request` of the topics it keeps
  (`SetTopicsKeepsLastRequest`);
- a method that returns nil has stored its rows (`StoredWhenOk`).

Multi-transaction DB:

- a read returns exactly the rows matching its filters
  (`ReadReturnsMatchingRows`).

Wallet send (`CreateMultiTransaction` with the ERC-1155 processor):

- the account's nonces on every chain have no gap (`NoNonceGap`);
- a nonce-too-low rejection comes only from another call's transaction
  (`StaleOnlyFromOtherCall`);
- a successful call sent and tracked every path (`SuccessMeansSentAndTracked`).

## 2. Plan (in order of importance)

1. **`ArchiveFileManager`** (done): the writer with its scheduler tick,
   the write steps (the index write as truncation plus write) and all
   error returns, plus the unlocked reader (`ExtractBegin`,
   `ExtractLoadIndex`, `ExtractReadData`).
2. **`ArchiveFileManager` late delivery** (explored, see below): TLC
   finds late messages lost with `LateBy = 1`; every run now uses
   `LateBy = 0`. A liveness property under a persistent decryption
   failure is still open.
3. **`ArchiveScheduler`** (spec-modelled, composes `ArchiveFileManager`):
   - Start/Stop of the interval task, with a wait group;
   - Seed/Unseed;
   - gating on being online;
   - whether a tick and an explicit call can overlap (two concurrent
     `createHistoryArchiveTorrent` calls).
4. **An abstract `HistoryArchive` spec** (done): a set of archived messages and
   a cursor, with `ArchiveFileManager` shown to refine it under a mapping
   from index/data to the set. This holds only without failures of the
   index rewrite, which drop archived messages.
5. **`ProvidersHealthManager`** (done): `Update` as three steps (aggregate
   under the lock, emit, relock and store), with two concurrent updaters,
   and `Reset`.
6. **`SignalServer`** (done): Listen/Serve, connection add, broadcast
   and `Stop` as separate steps, with the lock.
7. **`MailserverDB`** (done): every method that writes, with the
   transactions and their rollback, and failing BEGIN, statements, SELECT
   and COMMIT.
8. **`MultiTransactionDB`** (done): create, update, delete and the
   filtered read with its WHERE-clause construction.
9. **`WalletSend`** (done): `CreateMultiTransaction` composed with the
   ERC-1155 `sendOrBuild` and the table, with two concurrent calls.
   Open: the keycard flow (`BuildTransaction`) and the router's other
   processors, whose callers are outside `src/`.

## 3. Module `ArchiveFileManager`

The model abstracts the data and keeps the control:

- A message is an integer with a timestamp (`MsgTs`) and a size (`MsgSize`).
- An encoded archive is `ArchiveOverhead` + the sizes of its messages
  (+ `EncOverhead` when encrypted).
- The data file is the sequence of appended segments, so a byte offset is
  a sum of segment lengths.
- An archive ID is the index entry record itself. The entry includes the
  offset, which is why re-archiving produces new IDs.
- The index file is a record: does it exist, is it encrypted, is it
  garbled (a half-written file that no longer parses), and its archives.

State ↔ code:

| Variable | Code |
|---|---|
| `indexFile` | index file at `DataDir/<community>/index` (exists, encrypted?, garbled?, archives) |
| `dataFile` | data file |
| `torrent` | `.torrent` file |
| `cursor` | `LastMessageArchiveEndDate` row (0 = no row) |
| `stored` | waku messages in the DB |
| `phase`, `pending` | where the running call is, and its in-memory `wakuMessageArchiveIndex` / `dataBytes` / `from` |
| `now`, `due` | clock and ticker |
| `calls`, `explicitCalls` | bounds only |
| `reader` | one `ExtractMessagesFromHistoryArchive` call: its step, the archive ID it asked for, and its last result |

The published signals are not modelled: no property is about them.

Actions ↔ code:

| Action | Code |
|---|---|
| `BuildArchives` | lines 54-228 and 311-320: every computation up to the first write, with the mkdir, index load/decrypt, DB-read and encryption error returns |
| `CreateHistoryArchiveTorrentFromDB` | lines 376-378; the scheduler's tick calls it |
| `CreateHistoryArchiveTorrentFromMessages` | lines 372-374 |
| `WriteIndexFile` | line 256, first half: `os.WriteFile` opens the index with `O_TRUNC` (the open may fail and leave the file as it was) |
| `WriteIndexData` | line 256, second half: the write and close; on failure, one of `PartialIndexes` (empty, garbled, or a plain index with a subset of the entries) |
| `AppendDataFile` | lines 261-270; a failed `Write` may append a prefix of the archives |
| `WriteTorrentFile` | lines 272-310 |
| `SaveLastMessageArchiveEndDate` | lines 322-335 |
| `ExtractBegin(id)` | the caller of line 413, holding an ID it read from the index |
| `ExtractLoadIndex` | lines 413-432: `LoadHistoryArchiveIndexFromFile` (476-514, `LoadIndexFails`: a read error, a parse error of a garbled file, a failed decryption), then the lookup; a missing ID gives nil metadata and panics at line 432 (`Panic`) |
| `ExtractReadData` | lines 421-475: seek, read `size - padding` bytes, unmarshal or decrypt |
| `TimerTick`, `StoreWakuMessage` | the environment: scheduler and message receipt, modelled from the spec |

Each write step either succeeds or, when its step is in `Failures`,
returns the call to idle with what that step can leave on disk. A crash
inside a step leaves the same files as a failure of that step; a crash
between two steps leaves the same files as a failure of the second.

Pure helpers:

- `WindowsFrom` and `FinalFrom`: the window loop;
- `Chunks`, a `FoldLeft` of `ChunkStep`: the chunking;
- `Padding`: the padding rule;
- `OffsetOf` and `ArchiveIDs`: the offsets;
- `ExtractMessages`: seek/read;
- `CreateWakuMessageArchive`: the archive record of a chunk (lines 342-369).

The reader runs only where the constant `Reading` is TRUE (the `early`
run), because it multiplies the state space.

### Runs (`MC_ArchiveFileManager`)

Shared bounds:

- four messages: 1 and 2 at t=1 with size 2 (they overflow
  `MaxArchiveSize = 3` together, so two chunks); 3 at t=3 with size 4
  (oversized, alone in its window); 4 at t=4 with size 1;
- `PieceLength = 2`, so raw sizes 1-6 exercise both branches of the
  padding rule and the exact-multiple case;
- `Partition = 2` over the clock 1..5, so up to two windows per call and
  boundary timestamps (3) occur;
- both `encrypt` modes;
- one explicit-list call (none in `early`);
- `MaxCalls` bounds the number of builds (3 in `early`, 6 elsewhere).

These bounds reach:

- multiple windows, multiple chunks per window, dropped messages;
- index reload with a non-zero starting offset;
- encrypted index reload;
- every error return, and every outcome of a failed index write.

| Run | Failures | Checks | Expect | Shows |
|---|---|---|---|---|
| `early` (reader on, `MaxCalls = 3`) | mkdir, loadIndex, dbRead, encrypt, openIndex, writeIndex | `TypeOK` | pass | Every state of the writer and of a concurrent reader is well-formed, through failed and cut-short index writes. The reader's panic on a missing ID is reached. About 3 million states. |
| `progress` | none, `FairSpec` | `IndexConsistent`, `NoDuplicateArchive`, `EventuallyArchived`, `HistoryArchiveRefined` | pass | Without failures, offsets stay aligned over up to 6 calls, no message is archived twice, every received message that fits (while no call runs, at or after the next start date) is eventually archived, and the writer refines `HistoryArchive`. |
| `index_write_fails` | writeIndex | `ArchivedNeverLost` | violation | A second call truncates the index and its write fails: the empty index loads without error and the first call's archive is gone. |
| `append_fails` | appendData | `IndexConsistent` | violation | The index is written before the data. A failed append leaves entries that point past the data file, and the next call's offsets are shifted. |
| `reindex` | writeTorrent, saveCursor | `NoDuplicateArchive` | violation | A failure after the append and before the cursor save makes the next tick archive the same window again under new IDs. |

`NoEmptyArchive` is defined but no run checks it. TLC finds it violated
with these bounds and no failures: a window whose messages are all
oversized yields an archive of zero messages. Line 136 checks for
emptiness before line 158 drops the message, and line 171 appends the
chunk unconditionally. The hazard in `PROJECT.json` records it.

Each property of a passing run has a fault variant in the module, listed
under `mutants` in `PROJECT.json`, and TLC finds the property violated
when the variant replaces the definition:

- `PaddingSmallOnly`: only one branch of the padding rule (breaks `TypeOK`);
- `OffsetOfNoPadding`: the offset advances by `rawSize` only (breaks
  `IndexConsistent`);
- `InWindowClosed` and `InWindowOpenStart`: off-by-one window ends (break
  `NoDuplicateArchive` and `HistoryArchiveRefined`);
- `ChunkStepDropOverflow`: an overflowing message is dropped instead of
  closing the chunk (breaks `EventuallyArchived`).

### Late delivery

`StoreWakuMessage` lets a message arrive up to `LateBy` after its
timestamp. With `LateBy = 1`, TLC finds a message that arrives while a
call is appending, after that call's DB read, with a timestamp below the
`from` the call then saves. Every later call starts at the cursor
(line 322), so the message is never archived. The unrestricted
`EventuallyArchived` and `HistoryArchiveRefined` are both violated by
this trace. The spec does not say whether such messages must be
archived, so the project records it as a hazard, and every run uses
`LateBy = 0`.

### Refinement: `HistoryArchive`

`HistoryArchive` is what the writer promises, without files, windows or
offsets:

- `stored`: the received messages;
- `archived`: the messages in some archive;
- `cursor`: the resumption cursor.

Its actions are:

- `Receive`;
- `Archive(S)`: a fresh, non-empty batch of received messages that fit;
- `Advance`: the cursor moves forward, and only past messages that
  have been archived.

`ArchiveFileManager` instantiates it with `archived <- Archived`; `stored`
and `cursor` map to themselves. `Archived` is the union of the messages
of the index entries that read back from the data file (`Readable`).
While a call is between truncating and writing the index
(`writingIndex`), the index it holds in memory (`HeldIndex`) stands for
the file, since a successful write restores it.
`HistoryArchiveRefined == HA!Spec` is checked as a property in `progress`.

- The index write (or the append that makes its entries readable) maps
  to `Archive`. Archives of zero messages, and archives holding only
  messages already archived, are stuttering steps.
- The cursor save maps to `Advance`.
- Every other step is a stuttering step.

It fails under a failed index write, which drops archived messages
(`index_write_fails`), and with late delivery (see above). Under the
failures before the index write the abstract state does not change.

### Fairness

`FairSpec` assumes weak fairness of:

- the clock tick (the ticker keeps firing);
- the tick's build;
- each of the write steps.

The writes are justified because `createHistoryArchiveTorrent` is
straight-line code in one goroutine, so once it has started it continues.
Message receipt and explicit calls are environment actions without
fairness. The clock stops at `MaxTime`, so "eventually" is judged against
the final build after the last tick. The system may stop there, but the
tick stays enabled (it only re-arms the ticker), so deadlock checking
stays on.

## 4. Module `ProvidersHealthManager`

State:

- `agg`: the aggregator's status;
- `lastStatus`;
- per updater goroutine, `pc` and its local `newStatus`;
- one subscriber: `pending` (a coalesced channel signal) and `seen` (what
  it read from `Status()` on waking).

Actions ↔ code:

| Action | Code |
|---|---|
| `UpdateAggregate` | lines 31-44: under the lock; if `shouldEmit` is false, Update returns here |
| `UpdateEmit` | lines 46-50 (`emitChainStatus`, unlocked) |
| `UpdateStore` | lines 50-53 (relock, `lastStatus = &newStatus`) |
| `Reset` | lines 72-77 |
| `SubscriberWakes` | the subscription manager and its reader, outside `src/` |

The aggregator is outside `src/`, so an Update may move the aggregate to
any status in {up, down}.

| Run | Bounds | Checks | Expect | Shows |
|---|---|---|---|---|
| `health_sequential` | 1 updater, 5 updates, 2 resets | `TypeOK`, `KnownStatusCurrent` | pass | Used sequentially, a subscriber that knows a status is told of every change. |
| `health_concurrent` | 2 updaters, 5 updates | `KnownStatusCurrent` | violation | Two Updates store `lastStatus` out of order, and a later change back is not emitted (8-step trace). |

`SubscriberUpToDate` is defined but no run checks it. With one updater
and a Reset, TLC finds it violated: `Reset` keeps `lastStatus`, so a
subscriber that read the post-Reset "unknown" is never told when the old
status returns. The hazard in `PROJECT.json` records it.

Deadlock checking is off: when the update bounds run out, the manager is
idle, which is its normal resting state.

Fault variants:

- `ShouldEmitFirstOnly`: emit only on the first status;
- `ResetToNil`: a nil aggregator.

## 5. Module `SignalServer`

State:

- `server` and `listening`: `s.server` and the listener;
- `serving`;
- `inflight`: /signals handlers not yet finished;
- `conns`: the keys of `s.connections`;
- `open`: websockets not yet closed;
- `lockHolder`;
- the two range loops: `sigDone`; `stopStart`, `stopDone`, and `stopCur`
  (the connection Stop has closed but not yet deleted);
- `raced`: a history flag set when the map is written during another
  goroutine's range.

Actions ↔ code:

| Action | Code |
|---|---|
| `Listen` | lines 81-109: `s.server` is set before `net.Listen`, which may fail |
| `Serve` | lines 111-116 |
| `Accept` | the net/http accept loop |
| `HandleSignals` | lines 136-154: one step under the lock; the upgrade may fail |
| `SignalBegin`, `SignalWrite`, `SignalEnd` | lines 53-79: lock, per-connection write with `deleteConnection` on error, unlock |
| `StopBegin`, `StopClose`, `StopDelete`, `StopRangeEnd` | lines 118-125: the unlocked range; `Close` (line 120) and `delete` (line 124) are separate steps, so signalHandler can write to a connection Stop has closed and still finds in the map |
| `StopShutdown`, `StopWaitIdle` | lines 127-134: close the listener, wait for in-flight handlers, `s.server = nil` |

The Go map race is undefined behaviour. The model records the race, and
once it has happened lets Stop's range end at any iteration boundary,
since Go then promises nothing about the keys it still yields. Without a
race the range sees or skips keys added during it and never yields a
deleted key. The runtime's other outcome, aborting with a concurrent map
error, is the `server_race` finding.

All runs use 3 connections and 2 signals, with write failures.

| Run | Extra bounds | Spec | Checks | Expect | Shows |
|---|---|---|---|---|---|
| `server_ok` | `Listen` may fail (its failure leaves `s.server` set, so `Listen` cannot be retried: a hazard in `PROJECT.json`) | `FairSpec` | `StopTerminates` | pass | Stop always returns, although Shutdown waits for handlers that wait for the lock signalHandler holds while Stop closes and deletes. |
| `server_race` | — | `Spec` | `NoMapRace` | violation | Stop writes the map without the lock while handlers write it under the lock. |

`StopClosesAll` is defined but no run checks it. TLC finds it violated
when a request is accepted between the close loop and Shutdown: that
websocket stays open after Stop.

`FairSpec` assumes weak fairness of every step of a started goroutine:
the handlers, the write loop and Stop. The Go scheduler runs runnable
goroutines. Accepting, publishing, Listen and Serve are the environment.

Fault variants:

- `HandleSignalsLeakLock`: the upgrade-error path keeps the lock.

## 6. Module `MailserverDB`

State: one function per table, from its primary key to the columns the
properties tell apart. Columns that no property reads are left out.

- `mailservers`: id → address;
- `gaps`: gap id → chat id;
- `topics`: ⟨pubsub topic, content topic⟩ → `last_request`;
- `ranges`: chat id → `lowest_request_from`.

Two more variables record the last call: `result` ("ok", "err" or
"panic") and `call` (the method and its input).

SQLite serialises writers, so each method is one atomic step. A statement
may fail when its kind is in `Failures`:

- "begin";
- "exec" (an INSERT, UPDATE or DELETE);
- "select" (the existence check of `SetTopics`);
- "commit".

| Action | Code |
|---|---|
| `Add` | lines 148-165; a nil `Addr` panics at line 160 |
| `Delete`, `DeleteGapsByChatID`, `ResetLastRequest`, `DeleteTopic`, `AddChatRequestRange`, `DeleteChatRequestRange`, `AddTopic` | one statement each (`Statement`) |
| `DeleteGaps` | lines 277-290; an empty list returns nil |
| `AddGaps`, `AddTopics`, `AddChatRequestRanges` | `Tx`: begin, one INSERT OR REPLACE per element (`AfterStatements`), then the deferred closure (`TxEnd`) commits or rolls back |
| `SetTopics` | lines 399-460 |

`SetTopics` does the following:

- an empty list returns nil at once;
- it runs one DELETE per pubsub topic, and any subset of them may fail,
  because each one's error is overwritten;
- for each filter, it SELECTs the topic and, when there is no row,
  INSERTs it with `last_request = Day`.

The read methods (`Mailservers`, `RequestGaps`, `Topics`,
`ChatRequestRanges`) are operators used by the properties.

`MC_MailserverDB` uses the following inputs:

- one mailserver id, with an address or a nil one;
- two gaps in two chats, passed as one two-element list;
- two topics under two pubsub topics;
- filter lists that are empty, keep one topic, or span two pubsub
  topics;
- two chat request ranges.

The two-element lists let a statement fail after another one has run.

| Run | Failures | Checks | Expect | Shows |
|---|---|---|---|---|
| `mailserver_failures` | begin, exec, select, commit | `TypeOK`, `ErrorLeavesTablesUnchanged`, `SetTopicsKeepsLastRequest` | pass | An error return always leaves all four tables unchanged, and `SetTopics` never resets a kept topic's `last_request` (71,809 states). |
| `mailserver_commit` | commit | `StoredWhenOk` | violation | `AddGaps` returns nil after a failed COMMIT. |

Fault variants:

- `AddNoNilCheck`;
- `TxEndNoRollback`: the closure commits whatever ran;
- `MissingNoSelect`: `SetTopics` inserts every filter.

## 7. Module `MultiTransactionDB`

State:

- `table`: id → row, where a row keeps the filtered columns (from, to,
  chain, cross-tx id, type);
- `leaked`: prepared statements left open, counted up to `MaxLeaked`, at
  which the count stops (so the bound never blocks a call).

`ReadMultiTransactions` writes nothing (its statement and rows are closed
by `defer`), so it is not an action: the operator
`ReadMultiTransactions(d)` gives the set of results a read with details
`d` can return in the current state (ok with the selected ids, an error
from a failing prepare or query, or a panic on an empty clause).

| Action | Code |
|---|---|
| `CreateMultiTransaction` | lines 57-85: the prepare may fail. A failed Exec (a duplicate id included) returns before `defer insert.Close()`, which is `Leak`. |
| `UpdateMultiTransaction` | lines 147-178: `NoID` is an error; REPLACE INTO otherwise. A failed Exec leaks the statement. |
| `DeleteMultiTransaction` | lines 180-182 |
| `ReadMultiTransactions` (operator) | lines 87-145 |

`ReadMultiTransactions` is modelled as follows:

- `Conditions` are the set filters, in the code's order;
- `WhereClause` follows each condition with an `And` token;
- `Trimmed` drops the last token;
- an empty clause panics;
- `Selected` evaluates the clause.

`ReadReturnsMatchingRows` compares the result with `Matches`, a reference
filter written independently of the clause construction.
`MtDBTypeToMTType` is the `Type - 1` shift.

The table is checked composed with `WalletSend`, in the `wallet_send`
run (§8), whose bounds include:

- ids {1, 2} and `NoID = 0`;
- two rows that differ in every column;
- all 192 filter combinations, so `ReadReturnsMatchingRows` is checked
  in every reachable table;
- failing prepare, exec and query;
- `MaxLeaked = 2`.

Fault variants:

- `MtDBTypeToMTTypeNoShift` (breaks `ReadReturnsMatchingRows`);
- `UpdateMultiTransactionNoIDCheck` (breaks `TypeOK`: a row under `NoID`).

## 8. Module `WalletSend`

`CreateMultiTransaction` (`api.go` 702-730) verifies the account, runs
the transaction manager's send loop over the paths and then inserts the
multi-transaction row, logging an insert error only. For an ERC-1155
path the loop calls `sendOrBuild` (`processor_erc1155.go` 115-155): pick
a nonce, call `SafeTransferFrom` (sign and broadcast), then
`StoreAndTrackPendingTx`. The send loop itself (`usedNonces` per chain)
and the node's nonce rule are outside `src/`, and are modelled from the
spec (`Idle`, `PendingNonce`).

The module composes `MultiTransactionDB` with `MTDB == INSTANCE
MultiTransactionDB`: the table's variables are shared, every wallet step
leaves them unchanged except the insert, which is the table's own
`CreateMultiTransaction` action, and `TableStep` lets other users of the
table (update, delete) interleave.

State:

- `chainTxs`: transactions the node accepted (chain, nonce, call);
- `rejected`: broadcasts refused with a stale nonce;
- `tracked`: pending-tx records (chain, nonce, multi-transaction id);
- `call[p]`: program counter, current path, `usedNonces`, chosen nonce
  and result of call `p`;
- `table`, `leaked`: those of `MultiTransactionDB`.

| Action | Code |
|---|---|
| `CreateMultiTransaction(p, pw)` | `api.go` 702-716 and `getVerifiedWalletAccount` 901-925: command error, keycard branch without a password, verification error |
| `ChooseNonce(p)` | `sendOrBuild` 115-134: client or contract error; `NextNonce` on a chain's first path, `lastUsedNonce + 1` after it |
| `Broadcast(p)` | 136-149: a nonce below the pending nonce is rejected; a send error; an accepted transaction whose answer is lost |
| `Track(p)` | 150-162: tracking error; otherwise record the nonce in `usedNonces` and go to the next path or the insert |
| `InsertMultiTransaction(p)` | `api.go` 717-730: the table's create, its error ignored |
| `TableStep` | any step of `MultiTransactionDB` |

The `wallet_send` run (`MC_WalletSend`, `WalletSend_concurrent.cfg`):

- two calls; call 1 has paths on chains 1, 2, 1, and call 2 one path on
  chain 1. So call 1 reuses `lastUsedNonce + 1` across another chain's
  path while call 2 races it on chain 1;
- every failure enabled, passwords "" and "pw";
- 8,559 distinct states, in about 15 s.

It checks `TypeOK`, `ReadReturnsMatchingRows`, `NoNonceGap`,
`StaleOnlyFromOtherCall` and `SuccessMeansSentAndTracked`, and passes.
The nonce-too-low branch is reached: call 2 takes the nonce call 1 read
from `NextNonce`. Fault variants:

- `ChooseNonceNoIncrement` (breaks `StaleOnlyFromOtherCall`: a call
  collides with itself);
- `TrackSharedNonce` (one `lastUsedNonce` for all chains; breaks
  `NoNonceGap`);
- `TrackIgnoreError` (breaks `SuccessMeansSentAndTracked`).

What the run shows but no property states (hazards in `PROJECT.json`): a
call that fails after earlier paths were broadcast leaves pending
transactions naming a multi-transaction with no row; an insert failure is
only logged, with the same effect on a successful call; a lost answer
fails the call although its transaction is on the chain; a read with no
filter panics. Neither the code nor the spec promises otherwise, so these
are recorded as hazards, not as properties.

## 9. Findings

See `findings` in `PROJECT.json`; there is one finding per violation run.

- **Archive writer:** each disagrees with the spec's §7 (atomic on-disk
  batch) or §8 (idempotent resumption, no empty-chunk artifact).
- **Mailserver DB:** `AddGaps` loses its commit error. Its result is
  unnamed, so the closure's `err = tx.Commit()` cannot reach the caller.
  `AddTopics` and `AddChatRequestRanges` do return it.
- **Health manager and signal server:** the spec leaves them out of
  scope, so these are code bugs against their own comments, locks and
  error messages.

## 10. Not modelled, and why

- **The rest of the wallet API and the waku bridge:** they forward to
  code outside `src/` and have no state of their own. `AddressDetails`
  returns success with `HasActivity` false when its timeout expires; this
  is a hazard without a model.
- **`BuildTransaction`, `BuildTransactionV2`, `EstimateGas` and the pure
  helpers of the ERC-1155 processor:** their callers (keycard and router
  flows) are outside `src/`. `BuildTransaction` calls `tx.Nonce()` on the
  nil transaction that an error return of `sendOrBuild` gives (a hazard).
- **Mailserver decoding helpers** (`MustDecodeENR`, `PeerInfo`,
  `toMailservers`' parsing) and **`rowsToMultiTransactions`:** pure
  decoding, with no state.
- **App-state parser and edit-message validation:** pure string checks.
- **`GetHistoryArchiveMagnetlink` and the archive-ID persistence
  pass-throughs:** read-only, or a single DB call.
- **Contents of the `.torrent` file:** only what it describes (index and
  data size) is kept.
- **Message contents, topics and signatures:** abstracted to the size that
  chunking and padding depend on.
