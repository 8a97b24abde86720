# A verification project for openML and openMSYNC

openML is an embedded relational database for mobile devices: a storage engine
in C with table locks, a write-ahead log, checkpoints and restart recovery,
under a SQL layer. openMSYNC synchronises its tables with a central database: a
client library that speaks a small protocol with a server of one thread per
connection. This directory holds TLA+ models of the parts whose correctness
depends on the order of events, the TLC runs that check them and the TLAPS
proofs about them. `PROJECT.json` lists components, runs, mutants (each a
plausible bug that a property catches), the source lines behind every
definition, the hazards and the theorems.

Paths below are relative to `src/openML/src/server` unless they say otherwise.

## 1. The system's parts

| Component | Code | State | Operations | Hard behaviour | What makes it correct |
|---|---|---|---|---|---|
| Lock manager | `lock/mdb_LockMgr.c` | hash of lock items (holders, group mode, requestors), per transaction a list of its locks and the table it waits for | `LockMgr_Lock`, `LockMgr_Unlock`, `LockMgr_Table_Unlock` | threads sleep and are granted their request by others; conversions; deadlock search; timeouts; lost signals | compatible holders, exact group mode, no waiter lost or forgotten, no deadlock, two-phase locking |
| Transaction manager | `common/mdb_TransMgr.c`, `API/mdb_dbi_trans.c` | `MAX_TRANS` slots, next id, first and last LSN, savepoints | begin, commit, abort, savepoint, clean up of dead connections | ids found modulo the slots; commit releases locks before it flushes the log | a running transaction keeps its slot; commit is durable once answered |
| Log buffer | `recovery/mdb_LogBuffer.c` | ring with head, tail, last and the point where the next log file begins; current LSN | write a record, flush, read a record | wrap-around, change of file in the middle of the buffer | every record lies at its LSN in buffer or file |
| Log files, anchor | `recovery/mdb_LogFile.c`, `mdb_LogAnchor.c` | file number and offset; reserved old files; anchor file | append, create, remove, read, redo scan | torn writes, stale content in reused files, failed writes | the scan finds exactly the flushed records |
| Log manager, recovery | `recovery/mdb_LogMgr.c`, `mdb_LogRec.c`, `mdb_CLR.c`, `mdb_UpdateTrans.c` | table of transactions to undo (a heap by LSN) | redo, undo, partial undo, restart | crash at any point, also in a restart | committed effects survive, others vanish |
| Checkpoint | `recovery/mdb_ChkPnt.c` | dirty bits of pages, global dirty bit, anchor | checkpoint, delete useless log files | crash between page writes and anchor | database file plus log give the state |
| Memory manager, database files | `storage/mdb_Mem_Mgr.c`, `mdb_DBFile.c`, `mdb_Index_*.c` | segments, free pages, buffers | allocate, free, read, write | buffer replacement before the log is flushed | pages have one owner |
| Collections, T-tree, cursors | `storage/mdb_Collect.c`, `mdb_TTree*.c`, `mdb_CsrMgr.c`, `mdb_Iterator.c` | slots and page lists, tree nodes, cursor positions | insert, delete, search, fetch, close | rotations and splits; cursors over changing trees | the tree is an ordered set of the records |
| Catalog, sequences | `storage/mdb_Cont*.c`, `API/mdb_Schema.c`, `API/mdb_dbi_seq.c` | system tables, cached sequence values | create, drop, alter, next value | cache against persistent value | no value is handed out twice |
| SQL layer, client API, JNI, tools | `sql/`, `../client`, `../jni`, `../utils` | statements, plans, connections | parse, plan, execute, fetch | - | results of queries |
| Synchronisation server | `src/openMSYNC/server/mSyncDBCTL/src` | session state, flags, database transaction, connect flags in the central database | accept, authenticate, set application and table, upload, download | one thread per connection, a shared parameter block, timeouts, confirmation before commit | each change of a client is applied once; none is missed |
| Synchronisation client | `src/openMSYNC/client/src` | session, buffer | authenticate, send and receive | loss of the connection | as above |
| Administration, projects, samples | `src/openMSYNC/server/Admin`, `src/openML/OS`, `src/openMSYNC/sample` | - | - | - | - |

How they interact. An application calls the database API (`API/mdb_dbi*.c`),
which takes the one global lock `MDB_DB_LOCK`, finds the transaction of the
connection and calls the components below. Opening a cursor takes a table lock;
a record operation writes a log record to the log buffer, changes the page in
memory and marks it dirty. Commit writes a log record, releases the locks,
flushes the log buffer to the current log file and frees the slot; abort walks
the chain of the transaction's log records backwards and writes compensation
records. A checkpoint writes the dirty pages to the database file (one file:
`_ONE_BDB_` is defined in `include/mdb_config.h`) and then the log anchor. A restart reads the anchor, redoes the log from the
last checkpoint and undoes the transactions without a commit. The indexes are
trees of records in memory; a cursor keeps a position in one and is driven by the
loops of the SQL layer, which change records, and so the tree, between two
steps of the cursor. The threads meet
in two places only: while one sleeps in the lock manager (it gives up
`MDB_DB_LOCK`), and in the server of openMSYNC, where threads share the
parameter block of the accept loop and the central database.

## 2. Plan

Done:

1. `LockMgr` with `TwoPhaseLocking` (its promise), `MCLockMgr`, `LockMgrProofs`.
2. `LogBuffer` with `StableLog` (its promise) and `LogBufferProofs`: log buffer,
   log files, anchor, and the part of a restart that finds the end of the log.
3. `Recovery` with `DurableStore` (its promise): transactions, records in the
   log, checkpoints, buffer replacement, crashes between any two writes, restart.
   The slots and ids of the transaction manager are part of it.
4. `SyncSession`: clients, session threads, accept loop, users, central database.
5. `TTree` and `IndexScan`: the index, and a cursor that changes the index it
   goes through.
6. Theorems about `Recovery`: `RecoveryProofs` (with the lemmas about numbers and
   chains), `RecoverySavepoints`, `RecoveryLosers`, and `RecoveryDurability` for
   its promise `DurableStore`.
7. Theorems about `SyncSession`: `SyncSessionProofs`, and `SyncDownloads` for
   what a device downloads.
8. Theorems about the contents of the log buffer and of the log files, in
   `LogBufferProofs`.

`TTree` and `IndexScan` stay with TLC: their operators are recursive.
Candidates for more models: slots and free page lists of `mdb_Collect.c`,
sequences, named savepoints and the clean-up of dead connections.

## 3. The lock manager

### What is modelled

`LockMgr.tla` has one action for each way `LockMgr_Lock` can go on, because the
function gives up `MDB_DB_LOCK` only to wait; what a thread does between taking
and leaving that lock is one step.

| Code | Model |
|---|---|
| lock item in the hash table | `items`, `held`, `count`, `granted`, `queue` (functions of the table) |
| `trans_lock` of a slot: `table_lock_list`, `req_tableid` | `tables`, `req` |
| locals of `LockMgr_Lock` while it waits, requestor's mode and flags | `want`, `waits` |
| position in the wait loop | `pc`: `out`, `unlocked` (left `MDB_DB_LOCK`), `asleep` (in `cond_timedwait`), `woken` |
| `timeout_` of the requestor, which in fact says "granted" | `timeout` |
| `LockMgr_Lock` up to return or wait | `LockNewItem`, `LockAgain`, `LockConvert`, `LockShare`, `LockEnqueue`, `LockDeadlock` |
| its wait loop | `Sleep`, `WaitEnds`, `LockGranted`, `LockTimedOut`, `LockWaitAgain` |
| `LockMgr_Unlock` at commit and abort, `LockMgr_Table_Unlock` | `Unlock`, `TableUnlock`, over `Release` |
| `WakeupRequestores` | `Wakes`: how many requestors from the front are granted; `WakeHeld`, `WakeMode`: the item after that |
| `LockMgr_Check_DeadLock`, `FindCycle2` | `HasCycle` |
| `TransMgr_InsTrans` | `Begin` |

The loop of `WakeupRequestores` grants a prefix of the queue. `Wakes(h, g, q, n)`
says that `n` is the length of that prefix; everything after it follows from
`n`. In the same way `HasCycle` states what the depth-first search finds (the
requestor is in every set closed under waiting) and not how. This keeps the
module free of recursion, so that proofs can use it.

Left out, because no code under `src/` reaches it: row locks (`rec_lock_head`
is never set), priorities other than `LOWPRIO`, NOWAIT requests, the interrupt,
`aborted_` and `fTerminated` of a waiting thread. Temporary tables take no
locks. A transaction id is new for every transaction, so a slot whose
transaction left a holder behind begins no other in the model.

### What the runs check

| Run | Instance | Shows |
|---|---|---|
| `lock_safety` | 3 transactions (one reads uncommitted), a user and a system table, shared and exclusive requests, a timeout of one round, counts to 2 | `TypeOK`, `HoldersCompatible`, `ItemsExact`, `WaitersQueued`, `GrantHolds`, `ListsAgree`, `NoDeadlock`, and `Refines`: the whole is strict two-phase locking |
| `lock_queues` | 4 transactions, one table, all modes, no timeout: queues of three, upgrades among them | `GroupExact`, `NoneForgotten`, `NoOvertaking` |
| `lock_live` | 3 transactions, one table, no timeout | `WaiterReturns`, if transactions end |
| `lock_timeout` | 3 transactions, 2 tables, timeout of two rounds | `WaiterReturns`, even if no transaction ends |
| `lock_leak` | 2 transactions, memory for a `table_lock_t` may run out | violation of `EndedHoldNothing`: the holder inserted before the failed allocation is never released |

Three transactions are enough for a holder, a waiter and a newcomer, four for a
queue in which the order of an upgrade, a request and a newcomer matters. Two
tables let a release serve two queues in one step and two transactions close a
cycle, also one in which a wake-up has turned a requestor into a holder; the
theorem `DeadlockFree` covers cycles of any length (to see those of three: three
tables, `ReqModes = {3}`, `MaxWaits = 0`, `MaxCount = 1`, no system table). `MaxCount` bounds `lock_count_`; 2 lets a cursor on
a system table close while another is open. `MaxWaits` is `lock_timeout` in
rounds of five seconds; 0 is the code's "no timeout".

Transactions with the same `fRU` flag are interchangeable, so the safety runs
use symmetry; the liveness runs do not.

### Fairness

A thread that waits is scheduled and its timed wait ends (`Fairness`): both are
the operating system's promise for `pthread_cond_timedwait` with a deadline.
Signals are not assumed to arrive: a signal sent between the unlock and the
wait is lost in the model as in the code, and the run shows that the timed wait
repairs this. `TransactionsEnd` is strong fairness of `Unlock`: the application
commits or aborts a transaction that is again and again able to. It is needed
only without a lock timeout. No fairness is put on requests.

Two things the model does not promise because the code does not. A requestor
that times out is unlinked without a look at those behind it, so `NoneForgotten`
is stated for `MaxWaits = 0`. And a transaction that reads uncommitted asks for
`SS` beside a waiting exclusive request, and its upgrade goes before that
request (the comment at `lock/mdb_LockMgr.c:1434` wants upgrades first): a
stream of them can keep it waiting, so `lock_live` has none.

### What is proved

`LockMgrProofs.tla` proves, for any sets of transactions and tables, any lock
timeout and any bound on counts, the type invariant (`TypeCorrect`), all safety
invariants of the runs, the action property `NoOvertaking`, and that every step
of the lock manager is a step or a stutter of `TwoPhaseLocking`
(`ImplementsTwoPhaseLocking`). The only assumption is `LockMgrAssumption`: the
set of transactions is finite, system tables are tables, the API requests `DS`,
`DX` or `SX`.

The argument. None of the invariants is inductive alone, their conjunction
`LockInv` is:

- `HoldersCompatible` needs `GroupExact`, because grants test the group mode
  and conversions test the holders, and `WaitersQueued`, because a woken
  upgrade is tested with the mode its requestor carries;
- `GroupExact` needs `WaitersQueued`: the wake-up takes the mode of a requestor
  as its new mode, which is right only as requestors ask for more than they hold;
- `ItemsExact` needs `ListsAgree`, as `LockMgr_Unlock` goes by the list, and
  `WaitersQueued`: a requestor is queued only behind a holder;
- `GrantHolds` needs `ListsAgree` and the fact that a thread in the wait loop
  neither locks nor unlocks;
- `NoDeadlock` needs the exact correspondence of `req_tableid` and queues: a
  wake-up turns a requestor into a holder but at the same time clears
  `req_tableid`, so it adds edges only towards transactions that do not wait.
  A set of transactions that wait for each other can therefore come only from
  an enqueued request, and is then reachable from it, which `HasCycle` excludes.

Everything that grants goes through one lemma per conjunct about
`ReleaseWaking`, `Hold` and the enqueueing of a request. Compatibility of modes
is turned into arithmetic once (`CompIsSum`: modes are compatible exactly if
their sum is at most 4; `ConvIsMax`: conversion is the maximum), which is what
lets a test against the maximum stand for a test against every holder.
`NobodyForgotten` proves `NoneForgotten` from `LockInv` and the statement that
the head of every queue conflicts with a holder.

Only model-checked: liveness (`WaiterReturns`), which the prover does not reach,
and the violation of `EndedHoldNothing`.

## 4. The write-ahead log

### What is modelled

`LogBuffer.tla` holds the buffer and the files down to units: a record takes
`len` of them, the first with its LSN, the last with end mark and checksum. A
crash cuts between units, so records of one unit are written whole or not at
all, and longer ones may be torn.

| Code | Model |
|---|---|
| `LogPage`, `Buffer_.head`, `tail`, `last`, `create` | `page`, `head`, `tail`, `last`, `create` |
| `Current_LSN_`, `File_.File_No_` and `Offset_` | `cur`, `file` |
| log files on disk, with the old contents of reserved ones | `disk` |
| `Anchor_.Current_Log_File_No_`, `Begin_Chkpt_lsn_` | `anchor` |
| `LogBuffer_WriteLogRecord` | `BeginWrite`, then `Wrap`, `FlushForRoom` (its loop), then `Copy` |
| `LogBuffer_Flush`, `LogFile_AppendLog`, `LogFile_Create` | `Flush`, `FlushForRoom`, over `FlushWrites`, the sequence of the writes they do |
| a write that fails three times | `FlushFails` |
| `LogBuffer_ReadLogRecord`, `LogMgr_ReadLogRecord` | `BufferPlace`, `ReadsBack` |
| `LogFile_Redo` | `Verdict`, `Scan` |
| last part of `__checkpoint` | `Checkpoint` |
| `LogMgr_Scan_CommitList`, end of `LogMgr_Restart` | `Restart` |
| the process or the machine stops | `Crash(k)`: the first `k` writes of the next flush were done |

The whole component runs under `MDB_DB_LOCK`, so there is one actor, and the
difficulty is in the arithmetic and in crashes. A crash leaves a prefix of the
unit writes of one flush; the end-of-log mark is a write of its own, as it is
where the mark does not fit behind the data (`mdb_LogFile.c:429`). Writes that
were done are kept in their order: this is the crash of the process, or of the
machine if the operating system keeps the order of writes. Flushes with
`LOGFILE_SYNC_SKIP` promise no more than that. A file created anew holds zeros, a reserved one an
end mark at its beginning (`LogFile_Init`) or old records with an end mark
somewhere (`LogFile_Remove` renames old files); an old record never has the LSN
at which it is met, because its file number is smaller. A flush clears the
buffer in the model, which the code does not: nothing may read what was flushed
from there, and `ReadBack` would notice.

Left out: `send` and `flush` of the buffer (never changed from -1),
`flush_needed` (nothing that acts on it), the files' being deleted, failing to
open or create a file, the contents of records.

`StableLog.tla` is the promise: a log to which records are appended, of which a
prefix is stable; a crash keeps the stable prefix and perhaps more, never a gap.
The mapping takes the stable part to be what the scan of the files finds and
the rest to be what lies in the ring.

### What the runs check

| Run | Shows |
|---|---|
| `log_safety` | `OneChangePending`, `NeverRefused` (no write and no flush is refused), `ReadBack` (each record can be read by its LSN, for undo), `AlreadyFlushed` (the files hold what `File_` says), `WriteEnds` (the loop of a write ends), `Refines` (`StableLog`) |
| `log_broken` | violation of `BrokenFileKept`: after a restart from a file without a readable end logging goes on at offset 0 of that file |
| `log_failures` | violation of `AlreadyFlushed` when writes fail |

Instance of `log_safety`: a buffer of 4 units, files of 4, records of 1 and 3,
two log files and one more for a restart, one crash. Records of 1 and 3 units
reach every case: a record that fits exactly, one that wraps, one for which a
gap or the whole buffer must be flushed, a change of file in the first part of
the ring, in the second, and at the place where the ring wraps. The log stops
when the files of the instance (`MaxFile`) are used up, hence no deadlock check.
`MaxLife = 2` is one crash and one restart, `MaxTorn = 1` lets it be in the
middle of a flush.

The passing run does not crash between a restart that had to repair the log and
the end of the next checkpoint, the window `log_broken` is about. `Refines`
holds there because what such a restart found (`found`) counts as stable.

`Refines` depends on these bounds, the other properties do not. With
`MaxLife = 3` and `MaxTorn = 2` TLC violates `Refines`: a flush of
three records is cut before its end-of-log mark, so the restart logs again at
offset 0 of the same file; the second run overwrites the first of the three and
takes a checkpoint; its next flush is cut before its mark, too, and behind what
it has written the third record of the first run still lies at the offset that
its LSN names. The next restart takes it for a record of the log. It is a
consequence of what `log_broken` shows; the LSN alone does not tell records of
two runs apart.

Fairness is `WF_vars(WriteStep)`: the writing thread is scheduled.

### What is proved

`LogBufferProofs.tla` proves every safety invariant of `log_safety`, for all
sizes allowed by `LogAssumption` and any number of files, restarts and torn
flushes; only the window of `log_broken` is left out, as in the runs.

| Theorem | Property |
|---|---|
| `FlushesNotRefused` | `NeverRefused` |
| `WritesNotRefused` | `OneChangePending` |
| `TypeCorrect` | `TypeOK` |
| `FilesReachEnd` | `AlreadyFlushed` |
| `RecordsReadBack` | `ReadBack` |

The first two need only the positions (`RingInv`): `last` is set exactly while
the used part wraps around, the pending change of file lies in the used part,
and `cur.off` is the number of units from there to the tail. `OneChangePending`
follows because these units fit into the buffer, and a file is at least as large
as the buffer.

The others need `LogInv`, about what lies in the ring and in the files. None of
the three is inductive: even the type invariant says that a restart finds
an LSN, which depends on all that was ever written. `LogInv` says:

- `InRing`: counted from the oldest, every unit in the ring belongs to a record
  of a run up to this one that is whole, has the LSN of its place
  (`RingLSN`) and is divided neither where the ring wraps nor by the change of
  file; the next LSN follows the last unit.
- `OnFiles`: there is a `Path`, a set of LSNs from where the log starts to
  `file`, each of which holds a whole record that ends at another one of the set,
  or the end-of-log mark of a file that is not the last. Where the next flush
  writes there is such a mark, unless it is the beginning of a file.
- `Files`: all else in the files is left open but for one bound: a record
  begins before `FileSize`, so it does not reach beyond the offsets of the model.
- `FoundEarlier`: what a restart from a broken log found is of earlier runs.

A flush is described in three stages: the sequence of its writes is one call of
`LogFile_AppendLog` per part of the ring (`AppendIsChunk`, `FlushWritesAre`), which
leave units and marks at the LSNs they belong to and nothing before `file`
(`FlushesWhere`, `FlushedFiles`), so the path goes on over the new records and
the change of file (`FlushLeads`). A crash may keep any prefix of these writes;
of that, `LogInv` keeps only that cells are cells (`WrittenCells`), and the
restart finds its path again if its scan ends at a mark (`ScanIsPath`).

`Scan` is a recursive function. That it has a value is a lemma (`ScanSolves`):
the recursion is on LSNs that grow within a bounded set (`PlaceRecursion`,
which builds the function by ever smaller LSNs). What a scan returns follows by induction
over LSNs, stated as sets of places (`PlaceInduction`): along a path it ends
where the path ends and returns records on the path (`PathScanned`).

Only model-checked: `Refines`, within the bounds above, and `WriteEnds`, a
liveness property.

## 5. Transactions, checkpoints and restart

### What is modelled

`Recovery.tla` stands on the two models before: items are locked as
`TwoPhaseLocking` says, and the log loses in a crash what `StableLog` says, a
suffix of what was not flushed. The LSN of a record is its position in the log,
and a file holds `FileLen` records. An update gives its item the LSN of its
record as value, so a value says which update wrote it.

| Code | Model |
|---|---|
| items in pages in memory, `dirty_flag_`, `gDirtyBit` | `mem`, `dirty`, `dirty0` (page 0), `gDirty` |
| database file, `anchor_lsn` in page 0 | `db`, `anchorLSN`: the sets of images a crash may leave |
| log, how much is flushed, log anchor | `log`, `stable`, `anchor`, `deleted` |
| `Trans_`, `NextTransID_` | `trans` (id, first and last LSN, implicit savepoint), `nextId` |
| `TransMgr_Implicit_Savepoint` and an update | `DoUpdate` |
| `LogRec_Undo` with `CLR`, step by step | `PartialRollback`, `Abort`, `UndoStep`, `EndPartialRollback`, `EndAbort` |
| `dbi_trans_commit_internal` | `Commit`, `EndCommit`, `CheckpointAtCommit` |
| `_Checkpointing` | `StartCheckpoint`, `SkipCheckpoint`, `CheckpointPages`, `CheckpointPage0`, `CheckpointEnd`, `CheckpointAnchor`, `CheckpointFails` |
| `Delete_Useless_Logfiles` | `DeleteLogFiles` over `FirstNeededFile` |
| buffer replacement (`CheckPoint_Segment`) | `ReplaceBuffer` |
| `LogMgr_Restart` | `Crash`, over `Redo`, `TableAfterRedo`, `Losers`, `BackOut` |
| restart part of `SpeedMain` | `Open` |

Everything runs under `MDB_DB_LOCK`. A commit is therefore one critical section:
that it releases its locks before it flushes the log can be seen by no other
transaction, only by a crash. The model cuts operations into steps where a
crash finds something else on disk or where buffer replacement may write. A page
written and not yet synchronised is on disk after a crash or not, independently
of the others: that is what the sets in `db` and `anchorLSN` say.

A restart writes nothing before its checkpoint, so a crash in the middle of it
is a crash at its beginning, and `Crash` computes what the restart after it
makes of memory. The undo of a restart takes the losers' records from a heap
ordered by LSN; the model undoes them as sets, which is the same if no two
losers changed the same item: `LosersDisjoint` checks that, for every order.

`TransMgr_trans_delete` and the search for a slot (`Begin`) keep ids modulo
`MAX_TRANS`, as the code does, and a restart sets `NextTransID_` back to the
first id (`recovery/mdb_LogMgr.c:636`; the comment at
`common/mdb_TransMgr.c:256` says that ids go on increasing). So the log may
hold two transactions with one id, and `LosersExact` says that a restart tells
them apart all the same.

`DurableStore.tla` is the promise: committed transactions survive any crash,
others leave nothing, a commit interrupted by a crash happens or does not. The
mapping takes the store to be the memory with all running transactions backed
out, and `doubt` the same without the committing one.

### What the runs check

| Run | Instance | Shows |
|---|---|---|
| `recovery_safety` | 2 items, 2 transactions at a time, ids 1 and 2, files of one record, 8 records in the log (2 updates, 2 begins, 3 checkpoints), 2 crashes | `WriteAhead`, `LosersDisjoint`, `LosersExact`, `LogKept`, `SavepointRestored` and `Refines` (`DurableStore`) |
| `recovery_clean` | 1 item, 1 transaction, 1 crash, circumstance "clean" | violation of `Refines`: a commit that ends with a checkpoint is answered and lost |

With two items and two transactions locks can be exchanged; with ids 1 and 2
and three slots (slot 0 is not used) an id comes back at once; files of one
record make every deletion of files as early as it can be; three checkpoints
allow one before the first crash, one at its restart and one more. Two crashes
are a crash after a restart has set the ids back. The same instance with
`MaxLog = 9` has 2.4 million states and passes too, in three minutes instead of
one.

A checkpoint may fail (`CheckpointFails`) while it writes the pages, at page 0 or
at the synchronisation before it, and after page 0, at the synchronisation or in
`_Index_Checkpointing`. What it has done by then stays done: some dirty flags are
cleared, page 0 may have the LSN of the checkpoint, the log anchor is the old
one, and log files are deleted all the same. Of `_Index_Checkpointing` only the
result is modelled.

### Four circumstances

Four steps of the code break these promises, each in a circumstance of its own.
The passing run leaves them out by a guard; `Faults` names those that are
let in. With the bounds of `recovery_safety` and `MaxLog = 9` each of them alone,
added to `Faults`, gives a counterexample of the length in brackets: each guard
hides something real.

- "window" (`Refines`, 7 states): a checkpoint writes page 0 with its own LSN
  (`recovery/mdb_ChkPnt.c:244`) before the log anchor (line 568). A crash in
  between makes the redo start at the old checkpoint but skip what lies before
  the new one (`mdb_LogRec.c:195`), also in the table of losers. The same happens
  when the checkpoint fails in between (lines 268 and 518) and the crash comes
  later: `HalfAnchored` leaves out crashes that find the LSN of such a failed
  checkpoint in page 0, until a later checkpoint has written the log anchor.
  Without that part of the guard `Refines` is violated after 13 states;
- "unsettled" (`LosersExact`, 11): a restart undoes losers in memory and writes
  no record of it. It takes a checkpoint unless the log already ended with one
  (`common/mdb_Speed.c:903`); then the losers stay losers for the next restart;
- "clean" (`Refines`, 18): `_Checkpointing` returns before it flushes the log
  when `gDirtyBit` is 0 (`mdb_ChkPnt.c:767`). This is the finding of
  `recovery_clean`;
- "failed" (`LogKept`, 17): log files are deleted after a checkpoint whose
  result is not tested (`mdb_ChkPnt.c:780`), though the restart from the
  checkpoint before still needs them.

### What is proved

The theorems hold for every number of items, transactions, ids, records and
crashes. Their only assumption on constants is `RecoveryAssumption`; which of
the four circumstances they exclude is part of their statement.

| Theorem | Property | Circumstances allowed |
|---|---|---|
| `TypeCorrect` | `TypeOK` | all |
| `PagesBehindLog` | `WriteAhead` | all |
| `StatementRolledBack` | `SavepointRestored` | all |
| `LosersAreUnended` | `LosersExact` | all but "unsettled" |
| `LosersChangeOther` | `LosersDisjoint` | "clean" and "failed" |
| `NeededFilesKept` | `LogKept` | none |
| `ImplementsDurableStore` | `Refines`: every step is a step of `DurableStore` or a stutter | none |

The invariants, each built on the one before:

- `Inv` (`RecoveryProofs`): what is in the log. The record before a record of a
  transaction is one of the same transaction, a compensation goes on with the
  record before the one it undoes, and slots, `END_CHKPT` tables and the record
  to be undone next name records that are not the end of a transaction. No
  image on disk is ahead of the flushed log. It is inductive whatever `Faults`
  allows: the type invariant alone is not, since what a rollback undoes next is an
  LSN only because of these links.
- `SaveInv` (`RecoverySavepoints`): for a transaction that rolls a statement
  back, three things agree for every item: the first update since the save point, the
  first of those still to be undone, and the value in memory. It needs
  that the transaction holds the locks of what it changed and that earlier
  rollbacks have left updates in the log that are no longer on its chain.
- `LoserInv` (`RecoveryLosers`): a crash may keep any prefix of the log that
  contains the flushed part, so the invariant is about the table
  that the scan of a restart has built at every position (`TableIn`). From the table
  in the last `END_CHKPT` record it follows the log; at the end of the log it
  names the last records of the running transactions; and two transactions in one
  such table changed different items. The scan starts at the anchor but skips
  what lies before page 0's LSN: the invariant speaks of one position `b` from
  which the log is read, and with "window" the two may differ, which is
  where `LosersDisjoint` fails.
- `FileInv`: records on the chains of those tables and the records that
  compensations name lie in files that have not been deleted, and while pages are clean no
  record that changes an item follows the checkpoint.
- `DurableInv` (`RecoveryDurability`): what a restart makes of every image of an
  item that a crash may leave and of every prefix of the log that it may leave
  (`Outcome`: redo, then undo of the losers in `TableIn`) is what the transactions that have
  ended left (`Promised`). For the whole log this is what the
  commit in progress will have left, for a shorter prefix what there was before
  it. Two more facts make it inductive. Redo of the whole log gives an item its
  value in memory (`RedoRight`), unless a restart has undone it there. A crash
  finds in page 0 a checkpoint later than the log anchor only between two writes
  of that checkpoint, when every image on disk is the one in memory, or when the
  restart before found it there too (`PagesRight`); the LSN of a failed
  checkpoint is told from that one by an older image of page 0
  (`FailedAfterPage0`).

The abstract store is memory with the updates of running transactions undone.
Each step of a transaction keeps it: an update puts the value it replaces before
itself on the chain, a compensation takes back the last update of its item that
is still on a chain (`UndoneIsLast`), since no other running transaction has
changed the item. `Commit` is the abstract commit, its end (`EndCommit` or
`CheckpointAtCommit`) the answer. A crash leaves the store without the
commit in progress or with it, by the part of the log that survives.

`RecoveryProofs` begins with what these rest on: sets of natural numbers have least
and greatest elements, the recursive functions of `Recovery` (chains of a
transaction, the table of losers) unfold as they are written, and what they are
over a part of the log does not depend on the rest. Induction is done over sets: the library's
theorems about induction take an operator, but that the order of the
natural numbers is well founded is a statement about sets, and the set of
numbers for which a statement fails has no least element. For the proofs `Chain`
stops at a record of no transaction, where the function had no value before; the
invariant shows that this never happens.

Every property of `recovery_safety` is proved; only the violation that
`recovery_clean` finds is left to TLC alone.

## 6. Synchronisation

### What is modelled

`SyncSession.tla` composes clients, their connections, the threads of the server
and the central database. The order of a client's calls is that of the sample
`src/openMSYNC/sample/C/mSyncDemoApp`, for every data source: table name,
upload, end of upload, download, download of deletions.

| Code | Model |
|---|---|
| tables of the central database, with the columns the manual's scripts use | `rows` (a version and the time of its last change) |
| `openMSYNC_User`: `ConnectionFlag`, `DBSyncTime` | `user` |
| `param` of the accept loop, `NETWORK_PARAMETER`, `ODBC_PARAMETER` of a thread | `param`, `thr` |
| transaction of a thread | `txn`: rows written and not committed |
| sockets | `conn`, `toSrv`, `toCli` |
| the device: application, its database, msync table | `cli`, `local`, `changed` |
| `mSync_*` of the client library with the sample's handlers | `Connect`, `AuthAnswer`, `SendDSN`, `SendTableName`, `SendUploadData`, `SendUploadOK`, `ReceiveOK`, `ReceiveRows`, `ReceiveEnd`, `ReceiveDeleteEnd`, `Quit`, `Bye`, `GiveUp` |
| `ProcessMain`, `ProcessThread`, the functions of `state.cpp` | `InitializeParameter`, `AuthenticateUser`, `SetApplication`, `SetTableName`, `ProcessScript`, `UploadOK`, `UploadCommit`, `Download`, `EndSession`, `NetworkError`, `UpdateConnectFlag`, `FreeHandles`; `AuthenticateFails`, `DownloadFails` and branches of the others for a statement that fails |

The database server is external, modelled from how the server uses it: `getdate()` is a
clock that stands or goes on, a statement waits for a row another transaction
has written (also to read it), and of a deadlock one statement fails. A failure
(`MaxFail`) is a time-out, an error of a statement or of a commit, or a client
that gives up or dies at any point. That includes the statements on the system
database: when the authentication fails so, the session ends without an answer;
when the UPDATE at the end of a session is refused, the thread ends all the same
and the user's row keeps `CONNECT` (`SQLProcessing.cpp:96`, `:134`,
`Sync.cpp:256`). A download that fails may have sent some of its rows. An upload
message carries one row.

### What the run checks

`sync_safety`: two devices, each deletes row `x` and updates row `y` at most
once, before, between or after sessions; two connections, served at the same
time or one after the other; one data source; two instants of the clock; one
failure anywhere; windows of one message.

- `NothingMissed`: a device that does not have the committed version of a row
  will get it from its next incremental download. It depends on the time of the
  connection (not of the end) being kept, on the minimum over data sources, on
  storing it only at a normal end, and on readers waiting for writers. With
  `Dsns = 2`, the second of them empty, the instance has 6.0 million states and
  passes; it shows that the earliest of the connect times must be kept.
- `ChangesKept`: a change leaves the change log of a device only when it is
  committed, though the server confirms an upload before it commits it
  (`state.cpp:592`): the client settles its log only after the downloads, which
  a server that failed to commit does not send.
- `UploadWhole`: once the server has read the end of an upload, it keeps all or
  nothing of it. Of an upload cut off before that it keeps a part, since
  `FreeHandles` (`ODBC.cpp:165`) commits what the session left, while the note
  at `state.cpp:556` says that a failure in each stage of `UploadOK` rolls back.
- `ConnectedIsServed`: a user marked as connected has a session, unless the
  database refused the UPDATE at the end of the user's last session to end. That
  is the one way in which such a mark is left behind, and the next session of the
  user takes it away. The field `lost` of `user` records the refusal; it is a
  history variable, not a column.

One failure is enough because each session ends at the first; two connections
are a session and one that runs at the same time or follows. By hand, the same
instance with `Modes = {"MOD_SYNC", "ALL_SYNC"}` passes as well.

Circumstances that are left out unless `Faults` names them, with the length
of the counterexample: "handoff" (`UploadWhole`, 16): a second
connection is accepted before the thread of the first has read `param`
(`Sync.cpp:402`). "versions" (`NothingMissed`, 35): the central database shows
readers the last committed version; a commit later than the download with an
earlier stamp is missed. "early" (`ChangesKept`, 11): a client built without
`USE_MSYNC_TABLE` marks rows when it has sent them (`mSyncDemoApp.c:328`).

What a reader of this model should not conclude: it gives each device a user of
its own and lets each session synchronise every data source. `DBSyncTime` is one
per user, so two devices of one user, or a session that leaves out a data
source, miss rows. A retry of an upload whose confirmation got lost writes it
again. A session that was given up may still write an old upload after a newer
session of the same client has written its own. A crash of the server, or a
refused UPDATE, leaves `CONNECT` in the user's row. None of these is claimed
otherwise by the code. Left out are a lack of memory and a ROLLBACK of `UploadOK`
that fails itself (`state.cpp:578`), after which `FreeHandles` commits the upload.
The scripts of the sample program differ from the manual's: its upload of deletions
sets no time, and its handler of downloaded deletions (`mSyncDemoApp.c:84`) reads id and
name in the order opposite to the one sent.

The time-outs justify no liveness property, because a session that ends by a
time-out is a failed session.

### What is proved

`SyncSessionProofs.tla` and, for the last theorem, `SyncDownloads.tla` prove, for
any number of clients, rows, data sources, connections, instants, failures and
messages under way, from `SyncAssumption`:

| Theorem | Property | Circumstances allowed |
|---|---|---|
| `TypeCorrect` | `TypeOK` | all |
| `ConnectedAreServed` | `ConnectedIsServed` | all |
| `UploadsWhole` | `UploadWhole` | "versions", "early" |
| `ChangesAreKept` | `ChangesKept` | "versions" |
| `NothingIsMissed` | `NothingMissed` | none |

`Inv` is about types: which messages lie in which queue, and which sockets threads
work on. With `ServedInv`, that a user marked as connected has a thread that
authenticated it and has not freed its handles, or an UPDATE that was refused, it
gives `ConnectedIsServed`, also if two threads serve one socket. Everything else needs that they do not: without "handoff" a
thread that has not read `param` finds its own number there (`SocketInv`), since
the next connection is accepted only when it has.

`SessInv` then says where the two sides of a session can be. Seen from the thread
(`ThreadOK`): the messages it has not read are in the order of the protocol; of
the data source that is being uploaded, what is sent is what lies in the queue and in the
transaction together, and nothing of it is committed before the end; of any
other, all or nothing is in the database or in the transaction. Seen from the
client (`ClientOK`): in every state of its program it says what may be under way
to it and from it; once a first message of a download is
under way the upload is committed, and a change in the log of the data source being
synchronised is still to be sent or among what was sent. `UploadWhole` is a consequence
of the first. For `ChangesKept` the second says that the change log is
flushed only behind a download, which follows a commit.

Proving found a mistake in the model: the frame of `FreeHandles` disabled its
branch in which the last commit fails and the session's rest is rolled back. The
branch is now taken, and the properties hold with it.

`NothingMissed` needs a third invariant, `TimeInv`, about the times a device
downloads from. Such a time is *due* (`Due`): the `DBSyncTime` of its user, a copy
of it that a session has read, or the connect time of a session that can only
end well. For each due time and each row outside the change log, `Fresh` must
hold: the device has the committed version, or that version has a stamp not
earlier than the time; and whatever a transaction may still commit has such a
stamp too. The second half is what makes `Fresh` inductive: without it the commit of
an upload breaks it. `NothingMissed` is `Fresh` for the first kind of time.

While a session runs, its connect time is to become due (`ToBeDue`), and
`TimeInv` says where each row stands: rows of earlier data sources
are done (`Past`); of the data source at hand (`Owed`), those the device has uploaded
hold its own versions, those in messages under way are `Fresh` when they arrive,
and, once the updates have been read, what is neither is deleted and will be in the
answer that follows. That a reader waits for writers (`Holders`) makes the rows
read complete; that the connect time is taken before anything is read makes
versions committed after the reading young enough. `SessInv` gives
the position of the two sides, from which follows which of the three holds.
TLC checked `TimeInv` on the instance of `sync_safety` before it was proved.

## 7. The index and cursors that change it

### What is modelled

`TTree.tla` is the tree: every function of the source is an operator from a tree
to a tree, or to a position. A tree is the segment of node slots with root and
free slots, so that a freed node keeps its contents as in the code. Functions
that exist for the left and the right side are one operator with a side where
they are mirror images; rotations, heights, merges and the "fill" of the double
rotation follow the source's order of steps. The operators are recursive.
The descent to a node is the source's; the binary search within it
(`mdb_TTree.c:226`, `:465`) is replaced by its result (`GeFrom`, `LeFrom`).

| Code | Model |
|---|---|
| `TTreeNode_*` | the operators of these names |
| `TTree_InsertRecord` | the same, over `Bounding`, `AppendItem`, `InsertBounded` |
| `TTree_Remove` | the same, over `Shrink`, `RemoveLeaf` and the merges |
| `TTree_RemoveRecord`: by key in large tables, by id in small ones | the same, over the two `TTree_FindPosition...` |
| `struct TTreeIterator`: `curr_`, `last_`, `real_next` | `cursor` |
| `open_time_` and `qsid_` of changed records | `stamped` |
| `__Read`, `__Update`, `Update_Field`, `__Remove` and the loops of `sql_update.c`, `sql_delete.c` | `Skip`, `Update`, `Remove`, `Close`, over `Read`, `Position`, `Iter_FindNext` |

`IndexScan.tla` lets other statements insert and remove records, then one
statement opens a cursor over the whole table and goes through it. The table is
locked exclusively, so nobody else changes it meanwhile; what changes the index
under the cursor is the statement itself. Three kinds of statements differ in
how they place the cursor: "update" and "delete" read a record, decide and change
it, "field" (all constants, `sql_update.c:755`) changes without reading.
Removal in `Col_Remove` and the change of a key in `Col_Update` move records
between nodes; the cursor keeps the id of the record it will read next and looks
for it again if it is not where it was.

### What the run checks

`index_scan`: 6 records in up to 5 nodes of at most 3, of which three
share a key; scans over a table of four of them, with up to two updates that
change a key.

- `Balanced`: links, types and heights agree, no empty node, no node lost.
- `Ordered`: going through the index visits each record once, in key order.
- `Findable`: the search for a key and an id, which removal from a large table
  uses (`SmallTable`), finds every record, in whichever node its equals lie.
- `RangeExact`: for any two keys, the positions a cursor on that range starts and
  ends at (`TTree_Get_First_Ge`, `TTree_Get_Last_Le` and the check of
  `TTreeIter_Create`) enclose exactly the records with such keys, though equal
  keys lie in several nodes and the ends in any of them; the list
  `TTree_GetOidSet` gives to a direct deletion and the count of
  `TTree_Get_ItemCount_Interval` agree with it, and `TTree_Seek_Offset` goes to
  the position whose offset it is given.
- `ScanExact`: a statement visits each record the table had exactly once,
  though it moves them, and its cursor never leaves the index.

With `MaxItem = 3`, `MinItem = 2` every branch of insertion and removal and all four rotations
happen, with one exception: a merge in which the child does not fit. By hand,
an instance with 10 records, `MaxItem = 5`, `MinItem = 4`, `SmallTable = 5` and
no scans reaches it and passes (1.2 million states), as does one with 8 records
and 7 nodes (2.8 million), both without `RangeExact`. With seven records
(`Keys7`) and `MaxMoves = 1` the run has 731,976 states and passes; scans over
five of the seven (`ScanOn = {{1, 2, 3, 5, 7}}`) have 3.0 million and pass.

Two circumstances are left out unless `Faults` names them (`Excused`), with the
length of the counterexample to `ScanExact` over five records:

- "stale" (12 states): an UPDATE that changes the key it scans by moves a record
  behind the last one. `last_` stays what it was when the cursor was opened
  (`mdb_TTreeIter.c:753`), and it is looked up again only if the next record is
  no longer at its place. The scan then ends early. No rule of `sql_update.c`
  keeps an UPDATE from scanning the index whose key it changes. "field" updates
  look up the position every time and need no exclusion.
- "freed" (22): a change merges away the node the cursor is in. The freed slot
  keeps its items, so `__Read` (`API/mdb_Read.c:132`) finds its record there and
  does not restart, and the scan goes on in a node that is no longer in the tree.

The count of an interval handles forward cursors only: the branch for backward
ones (`mdb_TTree.c:1331`) repeats the test of the first and is never taken, and
such a count is refused. It is not modelled.

Not modelled: unique indexes, filters, going through a range while changing it,
backward cursors, several
cursors of one transaction, partial indexes (`Col_Update`'s `continue` at
`mdb_Collect.c:1348` does not advance its loop, `Col_Remove`'s at 1822 does), READ
UNCOMMITTED cursors, whose `modified_time_` (`mdb_Read.c:82`) is incremented by
bounded insertions and removals only, and `INDEX_BUFFERING`, which
`config.mk:12` leaves undefined.

## 8. Not modelled

Most of the source, by lines, is the SQL layer, the generated parsers, the
client API, JNI bindings, tools, GUI, samples and project files. They are data
transformations or generated code: they have no protocol that a small instance
could show wrong, and a model of them would repeat them. What could be modelled
and is not: slots and free page lists (`storage/mdb_Collect.c`), page
allocation, catalog caches, sequences, named savepoints, the clean-up of dead
connections, and commits with `num_flush_page_commit` set, which write pages
without a flush of the log. `PROJECT.json` gives the reason for each component.
