# A verification of cash's storage layer

cash caches the results of Python functions and notebook statements. This
directory holds TLA+ models of the layer that stores those results: the
background write queue, the file an entry is kept in, the chunk packs several
entries share, the eviction that keeps a directory within its cap, the RAM
tiers of several processes over one directory and how a clear reaches them,
and the record of stored keys. TLC checks the models on small instances, and
TLAPS proves seven theorems for every size, one of them that the write queue
implements an abstract specification. Sources are named relative to
`src/src/cash/`.

## The system

A `set` on the file tier returns at once. The value is written later, by one
daemon thread per backend. Everything else follows from that and from sharing:
several backends of a process, and several processes, use one directory with
no lock between processes.

| Part | Source | State | Operations | Model |
|---|---|---|---|---|
| Write queue | `backends/_writes.py` | futures by key, the pool's queue, the thread, sizes of queued copies | submit, submit_sized, wait, drain, wait_all, shutdown, fork | `WriteQueue` |
| Entry file | `backends/file_backend.py`, `entry_format.py`, `touched_entries.py` | the file, temp files, remembered metadata, unflushed reads, the entry's lock | set, get, get_metadata, set_metadata_only, delete, clear, flush, shutdown | `EntryFile` |
| Chunk packs | `backends/chunk_store.py` | pack files, claims, holders, places, holds in flight | put_all, commit, abandon, release, index, sweep, drop, compact, clear | `ChunkStore` |
| Cache directory, stamp | `backends/cache_dir.py` | stamp and its generation, temp files and their owners | create, check, write, bump, sweep | temp files in `EntryFile`, the stamp in `Tiered` |
| Eviction | `backends/file_eviction.py`, `rank_index.py`, `touched_entries.py` | byte count, candidates, clock, ranks | scan, record_rank, rebuild_queue, evict, remove_path | `Eviction` |
| Tiers | `backends/tiered_backend.py`, `clear_watch.py`, `memory_backend.py` | RAM over disk, the generation seen | get with promotion, set, persist_from_memory, delete, bump_generation | `Tiered` |
| Clears from outside | `__main__.py`, `decorator/maintenance.py` | | `cash clear --all`, `--function`, `cache_clear` | `Tiered` |
| Stored keys | `decorator/stored_keys.py` | pending changes, timers, a queue slot, memo and view | note, read, schedule, drain, close, fork | `StoredKeys` |
| Versions, expiry | `backends/versions.py`, `_base.py` | log of version slots | record, touch, forget | not modelled |
| Decorator, notebook, analysis, tracking | `decorator/`, `notebook/`, `analysis/`, `tracking/` | keys, lineage, call state | lookup, compute, store | not modelled |
| Other backends, serialization, config, CLI, C code | `backends/sqlite_backend.py` and others | | | not modelled |

The parts interact so: `FileBackend.set` submits a write to the queue; its
worker holds the chunks (`ChunkStore.put_all`), writes the entry under the
entry's lock, and commits the chunks; a read waits for the queue and then reads
the file; a removal drains the queue, removes the file and releases the chunks;
a rewrite of a pack changes other entries' files, under their locks in this
process and by rename against other processes. After a write has landed the
worker accounts for it and evicts. `TieredBackend` asks its RAM tier, then the
file tier, and watches the directory's stamp, which a clear moves. The
stored-keys record has a write queue of its own.

What makes it hard: reads and removals that must not overtake queued writes; a
thread that retires when idle; forks while writes are queued; writers killed
half way; metadata remembered from a write another process has replaced; packs
removed while someone takes hold of them; ranks that age while entries are
read; RAM copies that outlive a clear in another process; a task, a timer, a
drain and a close that all want to write the same record. `PROJECT.json` lists these hazards
line by line, with the properties that cover them.

## Modules

Each module's step is what one thread does between two points where another
thread or process may run. Values, keys and payloads are abstracted to the
number of the write that made them.

**`WriteQueue`** (`MCWriteQueue`). One `PendingWrites` over its pool, any
number of calling threads. `queue`, `worker`, `current`, `poolDown` are the
pool; `pending`, `sized`, `down` are `PendingWrites`; `state`, `callbacks` are
the futures. A caller goes through `SetBegin` ... `SubmitEnqueue`,
`RegisterForget` and, for sized writes, `SizeCheck`, `SizeAdd`, `SizeCallback`;
`WaitBegin`/`WaitEnd`/`Read` for a get; `DrainBegin`/`DrainEnd`/`Remove` for a
delete; `ClearBegin`/`WaitAllEnd`/`Clear`; `ShutdownBegin`, `StopPool`,
`PutSentinel`, `Join`; and `ForkBegin`/`Fork`, after which the model follows
the child, whose inherited writes are the parent's (`ParentWrite`). The writer
thread is `WorkerGet` ... `WorkerForgetSize`, with `WorkerTimeout` and
`WorkerRetire`. `disk` is the effect of the write function.

**`EntryFile`** (`MCEntryFile`). One key, backends of one or several
processes. A file has a head (header and metadata) and a body (payload);
`entry` is the file the path names. A write is made in place when the path is
free (`Place`, `PlaceBody`, `PlaceHeadBegin`, `PlaceHeadEnd`, `PlaceClose`),
otherwise through a temp file (`TempCreate`, `TempFill`, `Rename`), with their
failures and the retry in a recreated directory. `get` and `get_metadata` are
`ReadBegin`, the waits on the own and the sibling queues, `Cached`, `Stat`,
`ReadFile`, a decision, `Return`. The flusher is `FlushBegin` ...
`FlushWriteEnd`. The queue is that of `WriteQueue` reduced to what is proved of
it: writes run in order, and an operation waits for what was pending.

**`ChunkStore`** (`MCChunkStore`). Packs are named by their members, so a pack
is a set of chunks. `put_all` is `HoldNext`, `Touch`, `TouchNote`, then the
steps of `_write_pack`; the entry is written in one step between `EntryLock`
and `Commit`, since `EntryFile` has its detail. `_drop` is four steps (check,
stat, remove, forget). `_compact` is `CompactNext`, `Claim`, `Plan`, the new
pack, then for each holder `Repoint`, `SwapTake`, `SwapLink`, then
`RewriteEnd` and `Unclaim`. Times are readings of one clock; `hour` is what is
`ORPHAN_CHUNK_AGE` old. All chunks have one size.

**`DelayedStore`**, **`WriteQueueStore`**. What the write queue promises,
without queue, futures, thread or callbacks: a store whose writes are accepted
now and land later, those of one key in order, and whose reads, removals and
clears come after the writes accepted before them. `WriteQueueStore` maps the
queue onto it: the backlog is what is queued or running, a write is done once
it has run (its future is set later), and a write a delete is waiting for is
doomed, because a second caller need not wait for it. The writes of a parent
after a fork, and a child's inline ones, are bound to no order.

**`StoredKeys`** (`MCStoredKeys`). One record. `Note` puts a key into
`pending` and the view; `ScheduleTaken`, `ScheduleHeld`, `ScheduleClosed`,
`ScheduleSlot`, `Submit` and `SubmitRefused` are `_schedule`; the writer task
is `WorkerBegin` ... `WorkerSlot`; `_write_now`, by whoever runs it, is
`WriteBegin`, `Replace`, `RememberWritten` or `WriteFails`, `Finally`; a timer
thread is `ReleaseHeld`, the drain hook `DrainBegin`, `DrainSlot`; a read is
`DiskDoc`, `RememberLoaded`, `Facts` or `ReadEnd`; then `CloseBegin`,
`Shutdown`, `Join`, `Flush` and `Fork`. A note is its number; a record is, per
kind, the notes in order.

**`Tiered`** (`MCTiered`). Processes with one thread and one writer each, over
one directory with its stamp; a stamp's identity is a number. A look at the
stamp is two steps (`Get` reads the token, `Compare` is the rest of
`ClearWatcher.cleared`), as the writer and other processes may act in between;
`GetLately` is a get inside the throttle window, which may come at any time.
Then `EnsureInitialized`, `StampCheck`, `DiskGet`, `Promote`; `Set` and
`SetAlone`; `PersistFromMemory`; the background write `Land`, `LandMissing`,
`Recreate`, `LandFails`; `ClearFunction` and `Bump`; and `cash clear` as a
process of its own (`CliDelete`, `CliBump`; `CliList`, `CliUnlink`,
`CliUnlinkStamp`, `CliRmdir`). Which values are kept, promoted and persisted
is the policies' choice and nondeterministic here. Each RAM copy carries a
mark that the properties use and no guard reads: its entry was removed, the
stamp has moved since, the process has looked since.

**`Eviction`** (`MCEviction`). One directory in one process: the write worker
(`Land`, then `Scan`, `Adopt`, `EvictBegin`, `Consider`, `Rebuild`, `LoopEnds`,
`EvictDone`), a calling thread (`Schedule`, `Get`, `Delete`, `Clear`) and the
flusher (`FlushRead`). `remove_path` is four steps of either thread
(`RemoveMeasure`, `RemoveUnlink` or `RemoveRefused`, `RemoveAccount`). A rank
is the clock at the entry's last use plus its value per byte, in whole numbers.
The ranking is a set of candidates of which the lowest is taken; among equals
any may be. Every write and read has a time of its own.

Bounds (`MaxWrites`, `MaxFlushes`, `MaxCrashes`, `MaxWipes`, `MaxSets`,
`MaxHours`, `MaxNotes`, `MaxStores`, `MaxClears`, `MaxOps`) are guards on the
actions that would otherwise go on for ever.

## Runs

| Run | Instance | What holds |
|---|---|---|
| `settle` | 2 callers, 2 keys, 3 writes; set, get, delete, clear | `_pending` covers every unfinished write; gets, deletes and clears do not overtake writes; order per key; failures stay visible |
| `live` | 2 callers, 1 key, 2 sized writes; shutdown and fork, fairness | queued writes run; a process finishes its writes before it starts another; the queue implements `DelayedStore` |
| `fork` | 2 callers, 1 key, 3 writes; thread start may fail, the wait before a fork may expire, fairness | types; no caller blocks for ever, in parent or child |
| `entry_pairs` | 2 processes, 3 writes | metadata and payload of different writes are never paired, on disk or in a hit; no miss after a set |
| `entry_siblings` | 2 backends of one process, 3 writes; get, clear | reads and clears see a sibling's queue |
| `entry_all` | 1 backend with its flusher, 2 writes, failures, a kill, the directory removed; every operation | heads last, no stray temp file, readable after a write, lock released |
| `entry_flush` | 1 backend with its flusher | **violation**: old metadata is stamped over a new payload |
| `chunks_alone` | 1 process, 2 entries, 2 chunks, 3 sets, failures, a kill, the orphan age | every pack an entry names is there; nothing is left over; holds balance |
| `chunks_shared` | 2 processes storing one entry, 3 sets | a rewrite never undoes a newer write; one process rewrites a pack at a time |
| `stored_keys` | 1 thread that notes and forks, 1 that reads, drains and closes, 2 timers, 2 notes, `KEYS_MAX` 1, failing writes, fairness | every stored key is written at last; rewrites lose nothing and do not overlap before close; the view agrees with the record |
| `tiered` | 2 processes, 2 keys, 1 stored version, 2 clears of either kind, failing background writes | a process that looked after a clear has nothing from before it in RAM; a process never serves an older version than it stored; the directory is not removed over a new entry |
| `eviction` | 3 keys of which 2 may be left by earlier processes, sizes 1 and 2, cap 3, one dear key, 3 calls, removals may be refused, fairness of the worker | the byte count is exact; a pass ends within the cap or with nothing left to take; ranks are current; every write is done |

Why the bounds are enough. Three writes of two keys let one write run, one wait
behind it and a third replace the second in `_pending`, which is where the
identity checks matter. In `live` one copy fills the size bound and the next
must wait. One entry file suffices, because
nothing relates the files of two keys; three writes give a remembered one, the
one that replaced it and one in flight. Two chunks give three packs, and with
them the smallest pack that is shared and half dead; three sets reach a rewrite
with both holders moved. Two stems in `chunks_alone` let a pack be shared;
`chunks_shared` is about one entry and has one.

Two notes with `KEYS_MAX` 1 let the second overtake the first, of its key or
by the cap, while the first is being written; two timers let one be cancelled
while it fires. One stored version beside the one an earlier process left
tells a stale copy from a current one, and two clears cross each other, or
meet a process that stamped in between. In `eviction`, two entries of size 2
exceed the cap, one of size 2 and one of size 1 do not, and three calls
schedule a write, read an entry already ranked and delete another.

Deadlock is checked in `WriteQueue` only, since a caller that cannot go on is
what it looks for. In the other modules the bounds are used up some time, the
threads are idle and the system rests.

### Divergences

`entry_flush` is a violation, reported in `PROJECT.json` with the sentence of
the sources it contradicts. Three further disagreements between a comment and
the code are reached by changing the constants of a run:

* *A delete is undone by a sibling's queued write.* `entry_siblings` with
  `Operations = {"set", "delete"}` violates `NoGhost`: `delete` drains the
  queue of its own backend only (`file_backend.py:1185`), where the comment
  above says that otherwise "the write could fire after the delete and leave a
  ghost entry".
* *A rewrite of a pack brings a deleted entry back.* `chunks_shared` with
  `OperationsOf <- SecondOnlyRemoves` violates `RewriteUndoesNothing`: while
  `_swap_if_same` has the entry aside, another process's delete finds nothing,
  and the entry is linked back (`chunk_store.py:221`). The docstring of the
  rewrite says "Its worst case is a miss" (`:902`).
* *The queue's memory bound.* `_make_room` compares and returns without
  reserving (`_writes.py:529`), so two threads with sized writes of two keys
  pass it together and exceed `MAX_QUEUED_BYTES`, by a copy per thread. The
  module's docstring says "A queue holds at most `MAX_QUEUED_BYTES` of copies".
  In `WriteQueue` with sized writes, two callers, two keys, `MaxQueuedBytes = 2`
  and `MaxWrites = 3`, TLC reaches two unfinished copies with `Bytes(Live)`
  above the bound.

Some properties exempt cases, and say so, because the code promises no more:

* `ClearReaches`: a process that has seen no stamp and written none when a
  clear moves it (`clear_watch.py:53-56`), and one whose own clear crosses
  another's between its two readings of the token (`tiered_backend.py:129-131`).
* `ReadsOwnStore`: a RAM tier that raises over a value keeps the older copy.
* `BytesExact`, `CapKept`: two removals of one entry at once subtract it twice
  (`file_eviction.py:441`, `:467`), and a removal during the first scan is
  counted and subtracted (`:205-210`); `overlapped` marks both.
* `FileKeepsNotes`, `ViewCurrent`: after close, threads write for themselves
  and may overtake each other (`stored_keys.py:506-507`). `ViewCurrent` also
  exempts a failed write, whose change stays in the view (`:586`), and the time
  a reader's older record is the memo (`:391`).

### Fairness

`FairSpec` (runs `live` and `fork`) assumes weak fairness of the writer thread
and of each caller inside an operation: threads of a running process are
scheduled, and no step waits on anything the model does not show. Callers need
not begin operations, and nothing is assumed of forks, failures or the parent's
writes. A write function that never returns (a stalled mount) is ruled out: the
code waits for it without limit, except before a fork and at shutdown.

`StoredKeys` assumes the same of threads inside a call, the writer thread and
timer threads, and that `WRITE_INTERVAL` passes. Nobody has to note, drain,
read or close. `Eviction` assumes weak fairness of the write worker alone:
`WritesDone` says that no sequence of reads, deletes and refused removals keeps
a pass of `evict` from ending.

## Proofs

Each theorem holds for every value of the constants, from the `ASSUME` of its
module and what is named below.

* **`TypeCorrect`** (`WriteQueueTypeProofs`): `TypeOK` always holds. It is inductive together with
  `Holding`: a caller that is about to use a future has one.
* **`WritesLandInOrder`** (`WriteQueueOrderProofs`): `InOrder`. The invariant `OrderInv` says that the
  pool's queue holds exactly the queued writes in submission order
  (`QueueInv`), that a running write is the worker's or a child's inline one
  (`RunInv`), that no write has started while an earlier one is unfinished
  (`Fifo`), and that a multiprocessing child has one thread and no pool
  (`ChildInv`, `InlineInv`). `Fifo` carries the argument: what lands is newer
  than all that has landed.
* **`NothingOvertakesAWrite`** (`WriteQueueSettleProofs`): if threads can be started, then
  `UnfinishedIsPending`, `ReadSeesWrites`, `NoWriteAfterDelete` and
  `NoWriteAfterClear`. `SettleInv` adds, for each place a caller may be, which
  earlier writes may still be open: a get waiting on a future, only those up to
  that future (by `Fifo` the earlier ones are done once it is); a clear, only
  those up to the newest future it took; one that is about to read or remove,
  none except those another delete still waits for. The assumption is needed: a
  submission whose `Thread.start` raises leaves its write in the pool's queue
  with no entry in `_pending`.
* **`QueueImplementsStore`** (`WriteQueueStoreProofs`): if threads can be
  started, `Spec => ImplementsStore`, the refinement of `DelayedStore`. It uses
  the three invariants above and `KnownInv` (no future is held that was not
  handed out). Each action maps to one abstract step: `SubmitEnqueue` accepts,
  `WorkerRun` finishes, the begin of an operation asks and its `Read`, `Remove`
  or `Clear` is the answer, a fork parts; everything else stutters. `Fifo` gives
  that the write finished is the earliest of its key, `SettleInv` that an answer
  finds nothing left to wait for.
* **`WritesOneByOne`** (`StoredKeysProofs`): `OneWriteAtATime`. `WriterInv`
  says that before close nobody but the writer thread is in or on the way to
  `_write_now`, and that `_writing` is what that thread is writing.
* **`RanksStayCurrent`** (`EvictionProofs`): `RanksCurrent`. `RankInv` adds
  that no time lies ahead (`Past`), that only an entry with bookkeeping counts
  as read (`ReadsKnown`), that bookkeeping goes only after its file and with no
  write of the key queued (`GoneFirst`), and that an unused candidate is not
  marked as read, so that its rank does not move with the clock (`Current`).
* **`ClearsReach`** (`TieredProofs`): `ClearReaches`, for any number of
  processes, keys, stores and clears, whether RAM tiers and writes fail or
  not. `ClearInv` says of a process that holds a copy it has been told of
  (`Told`) that a look now would find the directory cleared, and of one inside
  a look that this look finds it, or leaves a token behind that has moved
  already (`Noticed`). It rests on `Stamps`: identities are given out in order,
  and a process that counted a stamp of its own knows its identity. The cases
  are the ways a stamp moves: elsewhere (`StampMoves`), by the process's own
  writer inside a look (`OwnStamp`), and by its own clear (`BumpStep`).

Liveness (`QueuedWritesRun`, `CallersProceed`, `ComesToRest`, `WritesDone`) is
outside TLAPS's reach and model-checked only. So are `FailureKept`,
`ForkAfterWrites`, everything about `EntryFile` and `ChunkStore`, the contents
of `StoredKeys`' record (its trimming needs induction over sequences),
`BytesExact` and `CapKept` (sums over the directory), and `ReadsOwnStore`.

## What the models leave out

* In `WriteQueue`: estimates of the backlog, drain hooks, several queues waited
  for in one fork (the model has one), the list of failed writes.
* In `EntryFile`: the payload's encoding and checksum errors other than a torn
  head; Windows' sharing violations and their retries; version slots.
* In `ChunkStore`: chunk files from before packs, damaged chunks, folders
  without hard links (the rewrite is then dropped before anything is taken
  away), the striping of entry locks (each entry has its own here; a shared
  stripe only makes a rewrite skip an entry), removals the file system refuses.
  `Plan` reads all holders in one step; `Repoint` reads each of them again, as
  the code does.
* In `StoredKeys`: the ledgers of states and warnings, other processes'
  rewrites, several records, a join at close that expires, a parent's write
  that lands after a fork.
* In `Tiered`: ttls, metadata-only entries, call references, tiers past the
  disk, several threads of one process (a get of one may promote what
  another's `cache_clear` has just deleted, `tiered_backend.py:397`). The
  entries of an unstamped directory count as current, so `check` only stamps.
  Eviction of the file tier is left to `Eviction`; a RAM tier may drop any of
  its entries at a set.
* In `Eviction`: chunks, the adaptive cap, the eviction log and its warning,
  the index's buffering and compaction, entries other processes write, two
  writes in one tick of the file system's clock.

What the models have and no property forbids, because the sources accept it or
promise nothing there (beside the hazards without a property in
`PROJECT.json`):

* A submission whose `Thread.start` raises may still land, when the next one
  starts a thread (`_writes.py:307`).
* A failed in-place write removes the path by name, which may by then be
  another process's entry (`file_backend.py:809`).
* `set_metadata_only` checks for a full entry and then writes; one that comes
  in between is replaced (`file_backend.py:1157`; accepted at `:1147-1148`).
* Two threads of a process that get a key while a third replaces it compare
  the identity of each other's readings (`file_backend.py:645`).
* `persist_from_memory`, or a queued write, puts a value from before a clear
  elsewhere back on disk (`tiered_backend.py:583`).
* An entry read between `touched_since` and its removal is evicted
  (`file_eviction.py:541`).
* A failed rewrite of the stored-keys record drops its changes
  (`stored_keys.py:586`); two processes that rewrite one record may lose one
  change (`:567`, not in the model). The record is a diagnostic aid.

Not modelled at all, and why:

* `decorator/`'s call path and keys, `analysis/`, `tracking/` and `notebook/`
  decide by hashing and inspecting live Python objects, source and files. A
  model would have to take those decisions as given, and what remains is the
  use of the storage modelled here. They are most of the repository, so the
  models cover a small share of its lines.
* `serialization`, `compression`, the copying half of the memory tier and the
  C extensions convert object graphs; there is no protocol in them.
* SQLite, Redis and S3 backends leave atomicity to their servers.
* Configuration, dashboards, the other commands and message texts.

## What could follow

1. Proofs of `FailureKept` and `ForkAfterWrites`; of `HeadLast` and
   `LockReleased` of `EntryFile`; of `ClaimExclusive` of `ChunkStore`.
2. `EntryFile`'s queue as an instance of `DelayedStore`.
3. A second thread per process in `Tiered`.
4. The version log and the rank index as append logs with compaction.
