# TLA+ models of the outKV Bitcask storage engine

These modules model the storage engine under `src/`: its append-only log,
its in-memory index, its atomic write batches and crash recovery. TLC checks
them. Each model keeps every state change, guard and lock boundary of the Go
code. In the engine models, bytes, encodings and file names are abstracted: a
record is one unit of a data file. The record codec is modelled separately,
byte by byte. The Redis data-structure layer under `src/redis` is modelled on
top of the engine's key space.

## The system

| Part | Source | State | Operations |
|---|---|---|---|
| Record codec | `data/log_record.go`, `batch.go` | type, key with a uvarint sequence prefix, value, CRC | Encode/Decode, `logRecordKeyWithSeqNum`, `parseLogRecordKey` |
| DataFile / IOManager | `data/data_file.go`, `fio/` | file contents, `WriteOffset`, what the OS has synced, the active file's IOManager | Write, Sync, ReadLogRecordWithSize (EOF on an empty or short header); `MMap.Write` writes nothing and returns 0 |
| Index | `index/btree.go`, `index/art.go`, `index/bptree.go` | key → `LogRecordPos`; for the B+tree, a bolt file that outlives the process | Put (returns the old position), Get, Delete (the btree returns `(nil, true)` for an absent key); each B+tree change is one bolt transaction |
| Engine | `db.go`, `put.go`, `get.go`, `delete.go` | active file, older files, index, `seqNum`, `reclaimSize`, `bytesWrite`, `db.mu` | Open, Put, Get, Delete, Sync, Close, Stat |
| Write batch | `batch.go` | `pendingWrites` map | Put, Delete, Commit |
| Merge | `merge.go` | a `-merge` directory with a nested engine, hint file, finished marker | Merge, `loadMergeFiles` at Open |
| Iterators | `iterator.go`, `index/*_iterator.go`, `get.go` | snapshot of the index, cursor | NewIterator, Rewind, Seek, Next, Value, Close, ListKeys, Fold |
| Redis data structures | `redis/types.go`, `generic.go`, `meta.go`, `hash.go`, `set.go`, `list.go`, `zset.go` | per user key a string or a container's metadata (type, version, size, list head and tail); internal keys `key‖version‖member` or `key‖version‖index` | Set, Get, Delete, Type, HSet, HGet, HDel, SAdd, SIsMember, SRem, ZAdd, ZScore, LPush, RPush, LPop, RPop |

How the parts interact:

- **Put and Delete** take `db.mu` only around `appendLogRecord`. They update the index after releasing it (put.go:96-104, delete.go:18-30).
- **Delete** consults the index with no lock at all.
- **Commit** holds `db.mu` from taking the sequence number to the last index update. It appends one record per buffered key in Go map order and then a `TxnFinished` marker. It then updates the index one key at a time, in a fresh map order.
- **Iterators** copy the index without `db.mu`. `ListKeys` takes the read lock, but the index changes under it all the same. `Fold` holds the read lock for its whole walk, which keeps Commit's index loop out.
- **Open** replays every data file in file-id order:
  - records with sequence 0 update the index at once;
  - records of a batch are held until their marker.
- **Rotation** syncs the full active file and creates the next file id.
- **Merge** rewrites live records through a nested engine into `<dir>-merge`. The next Open adopts the result.
- **The Redis layer** turns each command into engine calls: `findMetadata` (a `db.Get` of the user key), `db.Get`s of internal keys, then one WriteBatch that rewrites the metadata and the internal keys together. A key created anew takes `time.Now().UnixNano()` as its version, so Delete, which removes only the metadata, hides every old member. The commands take no lock; the Redis server holds `rds.mu` around each command (cmd/client.go:38), and it calls only Set and Get; no code in the repository calls the container commands, so `CallerLocks` is an assumption about their callers.
- **With the B+tree index**, Open does not replay: it trusts the bolt file and puts the active file's write offset at its size. It also skips `resetIOType`, so with `MMapAtStartup` the active file keeps the read-only mmap IOManager. `seqNum` comes from the seq-num file that Close writes and Open reads and removes; `NewWriteBatch` panics when Open found none, unless the directory was new.

The behaviours that make this hard, and that the models explore:

- interleavings of threads around `db.mu`;
- a crash between any two steps, keeping any prefix of a file at least as long as what was synced;
- batches cut by a crash;
- sequence numbers reused after a crash;
- map-order appends;
- boundaries of rotation and of `BytePerSync`.

## Modules

- **`LogRecovery`**: records, positions, and the replay of `loadIndexFromDataFiles` and `updateIndex` as recursive operators over the log.
  - A replay state holds the index, the held transaction records by sequence, `curSeqNum`, `reclaimSize`, and `panicked`.
  - `panicked` is set when `updateIndex` dereferences a nil old position (db.go:370).
  - `BTreePut` and `BTreeDelete` are the B-tree's `Put` and `Delete` on the key → position function.
- **`BitcaskDB`**: the engine with the btree index, shared by `Threads`. `Batchers` ⊆ `Threads` also use a WriteBatch.
  - The variables are the engine's fields:
    - `files` (fid → records);
    - `durable` (fid → synced prefix length);
    - `active`, `ioType` (the active file's IOManager), `bytesWrite`, `index`, `seqNum`, `reclaimSize`;
    - `mu` (holder of `db.mu`);
    - per-thread `pc`, `tkey`, `tpos`, `torder`, `tposs`;
    - `pending` (each batcher's `pendingWrites`);
    - `broken` (Open panicked).
  - Operations are split exactly where the code takes or releases `db.mu`:
    - `Put` appends under the lock, and `PutIndex` updates the index after it.
    - `Delete` checks the index, `DeleteAppend` appends, and `DeleteIndex` updates the index.
    - `Commit` takes the lock and sequence number, and `CommitWrite` appends one buffered record per step.
    - `CommitFinish` appends the marker (with its sync) and picks the map order of the index loop. `CommitIndex` updates one key per step, and `CommitDone` clears the batch and unlocks.
    - `AppendThenSync` is the whole `appendLogRecord`: rotation with its sync, the write, `bytesWrite`, and the conditional sync. `WriteLands` is false when the active file is memory-mapped: then the record and the sync go nowhere and `WriteOffset` stays. A file `setActiveDataFile` creates always has standard IO, and `Open` ends with standard IO (`resetIOType`).
  - `Stat` is `db.Stat`: key count, file count, `reclaimSize`, and the data files' size (a lower bound of `DirSize`).
  - `Crash` keeps of each file a prefix between `durable[f]` and its length, then runs `Open`. `CloseAndReopen` is Close then Open with nothing in flight. `ReopenPanics` is the state after a panicking Open: every later Open panics the same way.
- **`CrashConsistentKV`**: the abstract promise. `hist` is the sequence of stores the log has passed through, one per record. `dur` is how much of it is on stable storage. `pending` holds the clients' batches, and `committing` is the client whose commit excludes all other writes.
  - A Put or Delete changes one key.
  - A record of a batch before its marker changes nothing.
  - A commit applies the whole batch at once.
  - A crash returns to any state of `hist` no older than `hist[dur]` and drops every batch.
- **`MCBitcaskDB`**: the model-checking harness.
  - It adds the history variable `kvHist`: the store the replay recovers after each prefix of the log.
  - It instantiates `CrashConsistentKV` with the refinement mapping `hist <- kvHist`, `dur <- 1 + Σ durable`, `pending <- the batchers' buffered values` and `committing <- KVCommitting`.
  - `KVCommitting` is the holder of `db.mu` while it is in `CommitWrite`, appending its batch. Once the marker is written the batch is applied in the abstract spec, and the remaining index steps map to stuttering steps.
  - `MCLiveSpec` adds `ThreadFairness` (see Fairness).
- **`BitcaskMerge`** (extends `BitcaskDB`): `merge.go`, composed with the engine. Merge holds `db.mu` for its whole run.
  - `MergeBegin` does the ratio check, syncs and retires the active file, and collects every file below the new one. Their records go into `mcur`. It creates the merge directory with the nested engine's empty file 0.
  - `MergeRewrite` handles one record per step. It is rewritten with sequence 0, and a hint record added, iff `db.index` holds exactly its position at that moment. Other threads' `PutIndex`/`DeleteIndex` still run, since they need no lock.
  - `MergeFinish` writes the `hint-finished` marker with the boundary and unlocks.
  - `Restart` is Open with `loadMergeFiles` first:
    - without a marker, the merge directory is dropped;
    - with one, the code deletes the merged files from the merge directory itself, and the first rename fails. Open returns an error (`openFailed`) and the merge directory is removed.
  - `RetryOpen` is the next process opening the directory. The failed Open never releases its `flock`, so only a new process can.
  - The ratio check compares float32 byte sizes, which the model does not have. It may pass when `reclaimSize > 0`, is refused when `reclaimSize = 0`, and passes in an empty directory, where 0/0 is NaN.
- **`MCBitcaskMerge`**: the same history variable and refinement mapping for the composition. While a merge holds `db.mu`, no client is `committing`.
- **`BitcaskIterator`** (extends `BitcaskDB`): the B-tree and ART iterators and the prefix-filtering DB iterator, read by `Readers`. `indexType` is the index the engine was opened with, chosen in the initial state.
  - `NewIterator` copies the index, sorted by `KeyOrder` (the `bytes.Compare` order), without `db.mu`. The B-tree copy (`Snapshot`) is `Ascend` or `Descend`; the ART copy (`ARTSnapshot`) is `ForEach` in key order, filled from the end when reverse. `Seek`, `Next` and `Valid` are the same code in both iterators.
  - `Rewind`, `Seek` (`sort.Search`, the reverse variant included) and `IterNext` move a cursor and then run `skipToNext` (`SkipToNext`, recursive). `IterValue` reads the record at the copied position from the files as they are now. `Close` empties the iterator.
  - `ListKeysBegin` takes the read lock and copies the index. `ListKeysReturn` fills the slice after `db.Size()`. `ListKeysPanic` is the index-out-of-range panic when the count has shrunk: it ends the process, so it is followed by an Open like a crash.
  - `Fold` changes nothing and holds `db.mu.RLock` for its whole walk, while writers' appends wait for `db.mu`: what it visits is a function of the state where it takes the lock. `FoldCanRun` is that guard and `FoldVisit` the keys and values it visits (a `false` from the callback only ends the walk early).
  - `iterRef` is a history variable: the store the snapshot showed, and the cursor's moves since its last Rewind or Seek.
- **`MCBitcaskIterator`**: the iterator with the `kvHist` history of `MCBitcaskDB`. It also states `SnapshotIsCommittedState`, which no run keeps (see Not modelled).
- **`LogRecordCodec`**: the byte format, as operators on sequences of bytes 0..255.
  - `PutUvarint`/`PutVarint`/`Uvarint`/`Varint` are `encoding/binary`. The CRC-32 is table-driven like `hash/crc32` (`IEEETable`, `CrcUpdate`). Its register is a pair of 16-bit halves, because TLC's integers stop at 2^31.
  - `EncodeLogRecord`, `DecodeLogRecordHeader` and `GetLogRecordCRC` translate `log_record.go`. `ReadLogRecordWithSize` translates `data_file.go`, with `ReadAt`'s `io.EOF` on a short read. `ReadRecords` is the read loop of `loadIndexFromDataFiles`.
  - `LogRecordKeyWithSeqNum` and `ParseLogRecordKey` are the sequence prefix of `batch.go`.
- **`MCLogRecordCodec`**: every log of up to `MaxRecords` records, as the initial states, each cut at every byte. It has no steps.
- **`MCLogRecovery`**: checks the replay against a declarative reference.
  - A record takes effect where it stands (sequence 0) or at the first later marker of its sequence.
  - A key's value is its last write by that order.
  - The replay panics iff a tombstone takes effect while the key's previous write is not a live Normal record.
  - It also composes the replay with the codec. Every file is encoded as `EncodeLogRecord` writes it, with key bytes, value bytes and sequence numbers 0, 1, 130 standing for the model's keys, values and 0..2; the renaming keeps their order. `LogReadsBack` checks that the bytes read back through `ReadLogRecord` are the records the replay works on, so the replay's abstraction of a record as decoded fields is sound.
- **`BitcaskBPTree`** (extends `BitcaskDB`): the engine with `IndexType = BPTree`.
  - Extra state: `boltSince` (the index states bolt has committed since its last fsync), `seqFile` (the seq-num file's records), `seqNumFileExists`, `isInitial`.
  - `BPTClientStep` is any client step of `BitcaskDB` together with its bolt transaction (`BoltUpdate`). bolt is opened with `NoSync = SyncWrite` (bptree.go:86), so the transaction is fsynced only when `SyncWrite` is off. A batch is filled only after `NewWriteBatch` returned; `NewWriteBatchPanics` is its panic, which ends the process.
  - `Reopen` is Open for the B+tree: the index is whatever bolt holds, `LoadSeqNum` reads and removes the seq-num file, `reclaimSize` starts at 0, and the active file is memory-mapped iff `MMapAtStartup`.
  - `BPTCrash`: with `PowerLoss`, each data file keeps a prefix at least as long as what was synced, and bolt one of the states in `boltSince`; otherwise the OS keeps everything. `BPTCloseAndReopen` appends `seqNum` to the seq-num file and syncs it, then opens.
- **`RedisStore`**: what the Redis layer promises. `rdb[k]` is nothing or one typed value: a string with its expiry, a map from members to a value, to `Present` or to a score, or a list. Every command is one atomic change with an answer `resp[c]`. The promise is the layer's own: an emptied container keeps its type, and an expired string keeps it until a Get removes it.
- **`RedisDataStructure`**: `src/redis` over one engine key space.
  - `meta[k]` is what the user key holds: a string record, or the decoded `metadata`. `data` holds the internal keys as tuples (`HKey`, `SKey`, `ZMemberKey`, `ZScoreKey`, `LKey`), which are distinct exactly when their parts are.
  - A command that writes takes two steps. The first does its reads (`FoundMeta` is `findMetadata`; `ReadClock` is its `time.Now()` for a new version) and stages the batch built from them (`WbPut`, `WbDelete`, which drops a pending write of a key the index lacks). `CommitPlan` is `wb.Commit` (`ApplyBatch`), or for Get the `rds.Delete` of an expired string. Read-only commands are one step (`Reply`).
  - With `CallerLocks` a command holds `rdsMu` from its first step to its commit, as the server does.
  - The engine is taken at its promise, which the engine runs check: a Get and a Commit are each one atomic change of the key space.
- **`MCRedisDataStructure`**: the refinement mapping `AbsRdb`. It reads each user key's value back the way the readers do: members from the internal keys of the current version, a list from indexes `head .. tail-1`.
- **`MCBitcaskBPTree`**: the B+tree engine for TLC, with symmetry over threads, keys and values.

## Runs

| Run | cfg | Expect | Shows |
|---|---|---|---|
| `async_refines_kv` | `MCBitcaskDB_async.cfg` | pass | `SyncWrite` off, `BytePerSync = 1`, one batcher and one plain writer, crashes anywhere, under `ThreadFairness`. `OperationsComplete`: every operation that has started finishes. The engine implements `CrashConsistentKV` (`KVSpec`). `CrashLossBounded`: older files are fully synced, and the active file has at most `BytePerSync` records unsynced. `IndexPointsToLiveRecord`: every index entry reaches a live record of its key in an existing file. `SeqNumCoversLog`: `db.seqNum` ≥ every sequence in the log, including batches a crash cut off. `ReclaimableIsDead`: `Stat().ReclaimableSize` never exceeds the bytes of records no key points to. Delete adds both its tombstone and the record it removes; both are dead, so this is not the double count the spec's open question fears. |
| `replay_reference` | `MCLogRecovery.cfg` | pass | The replay agrees with the reference on all 44,521 logs of two files of up to two records (2 keys, seq 0..2). `LogReadsBack`: each of those files, as bytes, reads back record for record through the CRC-checking reader (markers, tombstones, the two-byte varint prefix of 130), and `parseLogRecordKey` recovers key and sequence. |
| `put_put_race` | `MCBitcaskDB_race.cfg` | violation | `IndexMatchesLog` fails in 5 states: t1 and t2 both Put k1; t2's index update lands first, t1's older position overwrites it. |
| `tombstone_replay_panic` | `MCBitcaskDB_panic.cfg` | violation | `RecoveryNeverPanics` fails: Put(k1), wb.Delete(k1), Delete(k1), Commit. The log now holds a tombstone for an absent key, and every Open panics at db.go:370. |
| `merge_refines_kv` | `MCBitcaskMerge_async.cfg` | pass | One thread writes, commits, merges, crashes and restarts with `SyncWrite` off. Crashes at every step of a merge, and of the Open that meets it, never change what the data directory recovers (`KVSpec`). `MergePreservesStore`: once a merge is finished, its files in place of those below the boundary give the same store as the data directory, and add no replay panic. It checks Merge's index test after one thread's operations and crashes, not the stale-index case of a second thread (see below). `IndexMatchesLog`: with nothing in flight, Get equals what a restart would return. |
| `merge_open_fails` | `MCBitcaskMerge_open.cfg` | violation | `OpenAfterMergeSucceeds` fails: after any finished merge (the shortest is a merge of the empty database, admitted by the NaN ratio) the next Open returns an error (merge.go:201). |
| `iterator_reference` | `MCBitcaskIterator.cfg` | pass | With the B-tree or the ART index. `IteratorFollowsReference`: while a writer puts, deletes, commits and crashes, an iterator (forward or reverse, with or without a prefix) shows after Rewind or Seek and n Nexts exactly the n+1-th key of its snapshot that has the prefix, with the value that key had at NewIterator. `FoldIsCommittedState`: whenever Fold can take the read lock, it visits, in ascending order, the store after some prefix of the log, never half a batch. |
| `bptree_crash` | `MCBitcaskBPTree.cfg` | pass | B+tree index, `SyncWrite` on (bolt with `NoSync`), two threads (one batcher), 2 keys, 2 values, power loss: bolt may come back in any state since it last synced, yet `IndexPointsToLiveRecord` holds, because the data was synced first. `BPTTypeOK` includes that the live index is one of bolt's states. |
| `bptree_powerloss` | `MCBitcaskBPTree_powerloss.cfg` | violation | `IndexPointsToLiveRecord` fails in 4 states with the default `SyncWrite = FALSE`: Put(k1), its bolt transaction fsynced, power loss that drops the unsynced record. Open keeps bolt's entry for k1 at offset 0 of an empty file; Get(k1) fails with `io.EOF`, and after the next Put(k2), written at offset 0, Get(k1) returns k2's value. |
| `bptree_mmap` | `MCBitcaskBPTree_mmap.cfg` | violation | `IndexPointsToLiveRecord` fails in 4 states with the default `MMapAtStartup = TRUE`: a restart, then Put(k1). The active file is still memory-mapped, so the record is not written, yet bolt maps k1 to offset 0 of the empty file (db.go:129). Every write until Close is lost the same way. |
| `redis_refines_store` | `MCRedisDataStructure.cfg` | pass | Every command of the Redis layer, holding `rds.mu`, on one key that every type competes for, through Delete and re-creation and string expiry. `RedisStoreSpec`: each command is the atomic change `RedisStore` describes, with the same answer, so no member of a deleted key or an older version reappears. `MetaSizeIsCount`: every container's size is its member count under its version, and a list's elements fill `head .. tail-1`. `ZSetIndexesAgree`: a score key exists exactly when its member key holds that score. |
| `torn_tail` | `MCLogRecordCodec_torn.cfg` | violation | `TornTailIsEndOfLog` fails on a log of one record cut 5 bytes in, right after the type byte. The header decodes with both sizes 0 and a non-zero crc, the CRC check fails, and Open would return `ErrInvalidCRC`. Every other cut reads as `io.EOF`. |

Each property of a passing run has a mutant in `PROJECT.json`: an operator placed just before the definition it replaces. TLC finds the property violated under the run's own cfg.

| Mutant | Property it breaks |
|---|---|
| rotation without the record's size | `TypeOK` |
| position after the write | `IndexPointsToLiveRecord` |
| `curSeqNum` advanced only at markers | `SeqNumCoversLog` |
| rotation without sync | `CrashLossBounded` |
| batch records without their sequence prefix | `KVSpec` |
| Commit without `index.Delete` | `IndexMatchesLog` |
| transaction records not dropped after their marker | `ReplayMatchesReference` |
| the hint given the re-encoded `rec.Key` | `MergeTypeOK` |
| candidates collected before the active file is retired | `MergePreservesStore` |
| the active file retired without `db.Sync` | `KVSpec` (merge) |
| Close that keeps the copied items | `IteratorTypeOK` |
| reverse Seek searched in ascending order | `IteratorFollowsReference` |
| lengths written without zig-zag | `LogReadsBack` |
| Delete that holds `db.mu` around `appendLogRecordWithLock` | `OperationsComplete` |
| rotation without the record's size (B+tree) | `BPTTypeOK` |
| position after the write (B+tree) | `IndexPointsToLiveRecord` (bptree_crash) |
| Put adds the new record's size to `reclaimSize` | `ReclaimableIsDead` |
| Fold without `db.mu.RLock` | `FoldIsCommittedState` |
| the ART copy filled from the front when reverse | `IteratorFollowsReference` |
| RPop moving the tail up, as the push does | `RDSTypeOK` |
| HSet rewriting the metadata with size + 1 for an existing field | `MetaSizeIsCount` |
| ZAdd of an existing member keeping its old score key | `ZSetIndexesAgree` |
| Get treating a string as expired at its expire time | `RedisStoreSpec` |

## Bounds and why they are enough

- **Files:** `MaxDataFileSize = 2` records and `MaxFileId = 1`. That gives two files, so rotation happens: a record that exactly fills a file, a record that forces rotation, and a batch that spans both files.
- **Batches:** `MaxSeq = 2`, so a sequence number can be cut off by a crash and then taken again. `MaxBatchNum = 2`, so a batch of both keys is appended, and applied to the index, in either map order.
- **Keys and values:** 2 keys, so batches are multi-key. 1 value with 2 threads; 2 values where two Puts of a key must be told apart.
- **Threads:** 2 threads are enough for every interleaving of two operations around `db.mu`.
- **Merge run:** `MaxFileId = 2`, so that a merge can follow a rotation: candidates span two files. One key, two values and `MaxSeq = 1` keep it near a minute and a half. Two keys with unsynced writes take more than five minutes. The violation runs of the merge use two keys.
- **Iterators:** both in-memory index types; keys k1 and k3 of the order k1 < k2 < k3, so that a Seek to the absent k2 lands between them, and only k3 has the prefix. One writer, one reader, one file (`MaxFileId = 0`), three records, `MaxSeq = 1`.
- **Codec:** a one-byte key, values of 0 and 2 bytes, sequence 130 so that the key prefix takes two varint bytes, and logs of up to two records, so that a record starts at a non-zero offset.
- **Files, room for operations:** the guards `Fits(n)` start an operation only when the files below `MaxFileId` have room for its records and for what operations already in flight still owe (`Owed`). Without it an operation could be stuck at the bound, which the code never is; `OperationsComplete` would then fail for the model's sake.
- **B+tree:** `MMapAtStartup = FALSE` except in `bptree_mmap`, which uses one key and one thread, since the first write after a restart already shows the loss. The same files, two keys, two values and `MaxSeq = 2` as the engine runs; every restart of the B+tree engine resets `boltSince`, so its size stays within the states of one process lifetime.
- **Redis layer:** one user key, so that every type competes for it. Two members, two values and two scores, so that sizes count to 2, list order shows, and ZAdd rescores. `MaxClock = 2`: two new versions (create, Delete, create again) or ticks past a one-tick expiry. `InitialListMark = 1`, so lists hold up to two elements, pushed from either end. One client: while a command holds `rds.mu` a second client only waits. Two clients take more than five minutes, and without the lock they find the lost update in 7 states (see the hazard at hash.go:32).
- **Symmetry:** used over threads, keys and values only in runs with invariants alone.

## Fairness

`ThreadFairness` (BitcaskDB) is weak fairness on every step that continues an operation already started: `PutIndex`, `DeleteAppend`, `DeleteIndex`, and `CommitWrite` through `CommitDone`. A goroutine inside a call keeps being scheduled, and Go's `sync.Mutex` hands the lock to a waiter that has waited over 1 ms (starvation mode), so a thread waiting for `db.mu` gets it. Starting an operation, `Sync`, `Close` and a crash are the client's or the environment's choice and get no fairness.

Under it, `OperationsComplete` (`pc[t] # Idle ~> pc[t] = Idle`) checks that no operation waits forever: a Delete, for instance, takes `db.mu` only inside `appendLogRecordWithLock`, and a Commit releases the lock in every path. The code has no background activity, so this is the only liveness promise. The Redis layer runs each command to its end inside one goroutine and has nothing that must eventually happen, so its run states safety only.

## Not modelled, and the plan

- **Torn records in the engine**: the engine models keep a record atomic. The torn tail is checked on the codec alone, and the appends that follow torn bytes are not modelled. `fio/file_io.go` is not in `src/`.
- **Hint file reading** (`loadIndexFromHintFile`) and the `hasMerge` branch of the replay: unreachable, because adoption always fails first. `LogRecordPos` encoding is therefore not modelled.
- **Size-dependent outcomes:** the ratio's float32 arithmetic and `AvailableSpace` are not modelled. A refused merge changes nothing.
- **`reclaimSize`**: a committed batch Delete does not count its tombstone, while replay does (batch.go:131). `ReclaimableIsDead` bounds it from above; nothing checks that it is exact, because it is not.
- **Data races inside an index operation:** each index operation is one atomic step, and the lost `reclaimSize` increments of the race at put.go:103 are not modelled.
- **The B+tree seq-num guard** (`BatchSeqFresh` in `BitcaskBPTree`, not kept in a run): with `INVARIANT BatchSeqFresh` added to `MCBitcaskBPTree.cfg`, TLC finds a batch Commit, a crash, then Close and Open. The restart found no seq-num file and left `seqNum` at 0; Close writes that 0 (db.go:331), the next Open accepts it, and NewWriteBatch's guard lets a batch reuse sequence number 1. The B+tree engine never replays, so this matters only if the directory is opened with another index type.
- **Torn batches with the B+tree index**: Commit applies a batch to the index one bolt transaction per key (batch.go:124), and Open does not replay, so a crash inside that loop leaves part of a committed batch in the index for good. The model has the steps; no run states batch atomicity for the B+tree, because `IndexMatchesLog` also fails, harmlessly, on a Put whose index update a crash cut off.
- **B+tree**: its iterator (a bolt read transaction and cursor), `Size`, and a crash in the middle of Close.
- **ART index**: only its iterator is modelled. Its Put, Get and Delete keep the same key → position map as the btree's. The one difference is that Delete of an absent key returns `ok = false`, and only Delete's return value shows it. Two concurrent Deletes of one key make the second return `ErrIndexUpdateFailed`, though its tombstone is written (delete.go:25). The engine model does not record return values.
- **Partial batches in iterators** (`SnapshotIsCommittedState`, MCBitcaskIterator): with it as an invariant of `MCBitcaskIterator.cfg`, TLC finds NewIterator between the two index updates of a two-key batch. The iterator then shows one write of the committed batch without the other. No run keeps that check.
- **Merge's stale read of the index**: Merge compares each record with `db.index` while a Put's index update may still be pending (merge.go:112), so it can rewrite the older record. `MergePreservesStore` catches it with a second client thread; no run keeps it, since no merge is ever adopted (`merge_open_fails`).
- **Backup**: `utils.CopyDir` under the read lock, a file copy the model does not have.
- **ListKeys' panic** (`ListKeysNeverPanics`, BitcaskIterator): as an invariant of `MCBitcaskIterator.cfg`, it fails in 8 states. A Delete's index update lands between ListKeys' copy of the index and `db.Size()`, and `keys[idx]` runs past the slice (get.go:57). No run keeps the check, so that the run budget covers the Redis layer. Its root cause, index updates made after `db.mu` is released, is `put_put_race`.
- **Redis layer without `rds.mu`**: the commands take no lock themselves. With `CallerLocks = FALSE` and two clients, TLC finds `MetaSizeIsCount` violated in 7 states: HSet(m2) and HDel(m1) both read size 1 and commit 2, then 0, while m2 exists. The run keeps the lock, as the server does.
- **Redis encodings**: varints, the marshal layouts and float64 scores are abstracted. Two internal keys are taken to differ when their parts do, though `key‖version‖member` has no length for the key. The empty user key is not modelled: `db.Get` refuses it, so every command returns before it builds a batch.
- **Redis versus Redis**: an expired string makes the other types' commands fail with WRONGTYPE until a Get removes it, and an emptied container keeps its type. `RedisStore` states what the layer does here, because no spec of the layer says otherwise.
- **Redis server, HTTP and examples**: network front ends. The server's locking is `CallerLocks`.
