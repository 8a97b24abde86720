------------------------------ MODULE Recovery ------------------------------
(***************************************************************************)
(* Transactions, write-ahead log, checkpoints and restart of openML:       *)
(* common/mdb_TransMgr.c, API/mdb_dbi_trans.c, recovery/mdb_LogMgr.c,      *)
(* mdb_LogRec.c, mdb_CLR.c, mdb_UpdateTrans.c, mdb_ChkPnt.c and the part of *)
(* common/mdb_Speed.c that restarts the database.                          *)
(*                                                                         *)
(* An item is what a transaction locks and a log record changes; an update *)
(* gives it the LSN of its record as value.  The LSN of a record is its    *)
(* position in the log, whose files hold FileLen records.                  *)
(*                                                                         *)
(* Everything runs under MDB_DB_LOCK: commit, rollback and checkpoint are  *)
(* cut into steps only where a crash finds something else on disk, or      *)
(* where buffer replacement may write pages.                               *)
(*                                                                         *)
(* A crash keeps every page that was synchronised and any of the images    *)
(* written since, and any prefix of the log that contains the flushed part *)
(* (LogBuffer and StableLog show that).                                    *)
(*                                                                         *)
(* Left out: indexes (rebuilt or logged like items), temporary tables,     *)
(* tables without logging, memory_commit, which promises nothing, and      *)
(* num_flush_page_commit, which is 0 unless configured.                    *)
(*                                                                         *)
(* Four circumstances in which the code breaks these promises are excluded *)
(* by guards, unless Faults names them:                                    *)
(*   "window"     a crash after page 0 got the LSN of a checkpoint and     *)
(*                before the log anchor did, or after that checkpoint      *)
(*                failed in between (HalfAnchored)                         *)
(*   "unsettled"  a restart undoes losers in memory and neither logs that  *)
(*                nor takes a checkpoint, because the log ends with one    *)
(*   "clean"      a checkpoint without dirty pages flushes no log, though  *)
(*                a commit or the deletion of log files relies on it       *)
(*   "failed"     log files are deleted after a checkpoint that failed,    *)
(*                though the restart from the one before needs them        *)
(***************************************************************************)
EXTENDS Integers, SequencesExt, FiniteSetsExt

CONSTANTS
    Items,        \* lockable items
    MaxTrans,     \* MAX_TRANS: transaction slots, of which slot 0 is not used
    MaxId,        \* MAX_TRANS_ID: transaction ids are smaller
    FileLen,      \* records in a log file
    MaxLog,       \* bound on the records in the log
    Most,         \* bounds on those of some types
    MaxCrash,     \* bound on crashes
    Faults        \* circumstances that are not excluded, see below

ASSUME RecoveryAssumption ==
    /\ MaxTrans \in Nat \ {0, 1} /\ MaxId \in Nat \ {0, 1}
    /\ FileLen \in Nat \ {0} /\ MaxLog \in Nat \ {0, 1} /\ MaxCrash \in Nat
    /\ Faults \subseteq {"window", "unsettled", "clean", "failed"}

VARIABLES
    mem,          \* the items in the buffer
    dirty,        \* dirty_flag_ of their pages
    dirty0,       \* and of page 0
    gDirty,       \* server->gDirtyBit
    db,           \* database file: the images of each item a crash may leave
    anchorLSN,    \* and those of mem_anchor_->anchor_lsn, which is in page 0
    log,          \* log records
    stable,       \* how many of them have been flushed
    anchor,       \* log anchor: Begin_Chkpt_lsn_, End_Chkpt_lsn_
    deleted,      \* log anchor: Last_Deleted_Log_File_No_
    trans,        \* Trans_: the slots
    nextId,       \* NextTransID_
    owner,        \* transaction slot that holds the item's exclusive lock, or 0
    work,         \* what runs under MDB_DB_LOCK
    stage,        \* how far a checkpoint is
    up,           \* the server runs
    unsettled,    \* END_CHKPT record from which a restart undid losers in memory only
    crashes       \* crashes so far

pages == <<dirty, dirty0, gDirty, db, anchorLSN>>
logs == <<log, stable, anchor, deleted>>
life == <<up, unsettled, crashes>>
vars == <<mem, pages, logs, trans, nextId, owner, work, stage, life>>

Slot == 1 .. MaxTrans - 1
LSN == 0 .. MaxLog                \* 0 stands for the LSN (-1,-1)
NoSave == -1                      \* Implicit_SaveLSN_ (-2,-2)

NoTrans == [id |-> 0, first |-> 0, last |-> 0, save |-> NoSave]
Trans == [id : 0 .. MaxId - 1, first : LSN, last : LSN, save : LSN \cup {NoSave}]
Used(s) == trans[s].id # 0

Idle == [op |-> "idle", slot |-> 0, next |-> 0]
Free == up /\ work = Idle /\ stage = "none"

-----------------------------------------------------------------------------
(* The log *)

End == Len(log)
File(n) == (n - 1) \div FileLen + 1
Readable(n) == n # 0 /\ File(n) > deleted

BeginChkpt == [type |-> "BEGIN_CHKPT"]
EndChkpt(active) == [type |-> "END_CHKPT", active |-> active]
TransRec(type, s, prev) == [type |-> type, trans |-> trans[s].id, prev |-> prev]
Update(s, prev, i) == [type |-> "UPDATE", trans |-> trans[s].id, prev |-> prev,
                       item |-> i, before |-> mem[i]]
Compensation(s, n) == [type |-> "COMPENSATION", trans |-> trans[s].id,
                       prev |-> log[n].prev, undone |-> n]
OfTrans(r) == r.type \notin {"BEGIN_CHKPT", "END_CHKPT"}

\* The records of a chain of trans_prev_lsn_.
Chain(n) ==
    LET chain[m \in 0 .. End] ==
          IF m = 0 \/ ~OfTrans(log[m]) THEN {} ELSE {m} \cup chain[log[m].prev]
    IN  chain[n]

\* values with the updates on the chains from lasts undone.  The last value an
\* item gets is that before the first of them.
BackOut(values, lasts) ==
    LET undone == {n \in UNION {Chain(l) : l \in lasts} :
                     Readable(n) /\ log[n].type = "UPDATE"}
        on(i) == {n \in undone : log[n].item = i}
    IN  [i \in Items |-> LET n == on(i)
                         IN  IF n = {} THEN values[i] ELSE log[Min(n)].before]

-----------------------------------------------------------------------------
(* Transactions *)

\* Mutant: the wrap is off by one.
SetNextTransIDLate(n) == IF n + 1 > MaxId THEN 1 ELSE n + 1
SetNextTransID(n) == IF n + 1 >= MaxId THEN 1 ELSE n + 1

\* The ids tried from NextTransID_ on.
IdAt[j \in 0 .. MaxTrans] == IF j = 0 THEN nextId ELSE SetNextTransID(IdAt[j - 1])
FreeId(n) == LET s == n % MaxTrans IN s # 0 /\ ~Used(s)

\* One transaction at a time has written nothing yet (a bound).
Begin ==
    /\ Free
    /\ \A s \in Slot : Used(s) => trans[s].first # 0
    /\ LET tries == {j \in 0 .. MaxTrans : FreeId(IdAt[j])}
           id == IdAt[Min(tries)]
       IN  /\ tries # {}
           /\ trans' = [trans EXCEPT ![id % MaxTrans] = [NoTrans EXCEPT !.id = id]]
           /\ nextId' = SetNextTransID(id)
    /\ UNCHANGED <<mem, pages, logs, owner, work, stage, life>>

\* The first record of a transaction is preceded by TRANS_BEGIN_LOG.
BeginRecords(s) ==
    IF trans[s].first = 0 THEN <<TransRec("TRANS_BEGIN", s, 0)>> ELSE << >>
PrevLSN(s) == IF trans[s].first = 0 THEN End + 1 ELSE trans[s].last

\* LogMgr_WriteLogRecord, within the bounds of the log.
WriteLog(recs) ==
    /\ log' = log \o recs
    /\ Len(log') <= MaxLog
    /\ \A type \in DOMAIN Most : Cardinality({n \in 1 .. Len(log') : log'[n].type = type}) <= Most[type]
Logged(s, recs) ==
    [trans[s] EXCEPT !.last = End + Len(recs), !.first = IF @ = 0 THEN End + 1 ELSE @]

\* SetDirtyFlag.  A change that allocates or frees a page changes page 0 too.
SetDirty(i) ==
    /\ dirty' = dirty \cup {i}
    /\ dirty0' \in {dirty0, TRUE}
    /\ gDirty' = 2

\* An update, the first of its statement or a later one.  A statement begins
\* with TransMgr_Implicit_Savepoint.
DoUpdate(s, i, begins) ==
    /\ Free /\ Used(s) /\ owner[i] \in {0, s}
    /\ begins \/ trans[s].save # NoSave
    /\ LET recs == BeginRecords(s) \o <<Update(s, PrevLSN(s), i)>>
           save == IF begins THEN trans[s].last ELSE trans[s].save
       IN  /\ WriteLog(recs)
           /\ trans' = [trans EXCEPT ![s] = [Logged(s, recs) EXCEPT !.save = save]]
    /\ mem' = [mem EXCEPT ![i] = Len(log')]
    /\ owner' = [owner EXCEPT ![i] = s]
    /\ SetDirty(i)
    /\ UNCHANGED <<db, anchorLSN, stable, anchor, deleted, nextId, work, stage, life>>

\* TransMgr_Implicit_Partial_Rollback and TransMgr_trans_abort begin.
PartialRollback(s) ==
    /\ Free /\ Used(s) /\ trans[s].save # NoSave
    /\ work' = [op |-> "partial", slot |-> s, next |-> trans[s].last]
    /\ UNCHANGED <<mem, pages, logs, trans, nextId, owner, stage, life>>

Abort(s) ==
    /\ Free /\ Used(s)
    /\ work' = [op |-> "abort", slot |-> s, next |-> trans[s].last]
    /\ UNCHANGED <<mem, pages, logs, trans, nextId, owner, stage, life>>

\* Mutant: the record after the savepoint is not undone.
UndoneEnoughEarly ==
    \/ work.next = IF work.op = "partial" THEN trans[work.slot].save ELSE 0
    \/ work.op = "partial" /\ log[work.next].prev = trans[work.slot].save
UndoneEnough ==
    work.next = IF work.op = "partial" THEN trans[work.slot].save ELSE 0
Undoing == up /\ stage = "none" /\ work.op \in {"partial", "abort"}

\* LogRec_Undo with the flag CLR.
UndoStep ==
    /\ Undoing /\ ~UndoneEnough
    /\ LET s == work.slot
           n == work.next
           recs == <<Compensation(s, n)>>
       IN  /\ IF log[n].type = "UPDATE"
              THEN /\ WriteLog(recs)
                   /\ trans' = [trans EXCEPT ![s] = Logged(s, recs)]
                   /\ mem' = [mem EXCEPT ![log[n].item] = log[n].before]
                   /\ SetDirty(log[n].item)
              ELSE UNCHANGED <<log, trans, mem, dirty, dirty0, gDirty>>
           /\ work' = [work EXCEPT !.next = log[n].prev]
    /\ UNCHANGED <<db, anchorLSN, stable, anchor, deleted, nextId, owner, stage, life>>

EndPartialRollback ==
    /\ Undoing /\ work.op = "partial" /\ UndoneEnough
    /\ trans' = [trans EXCEPT ![work.slot].save = NoSave]
    /\ work' = Idle
    /\ UNCHANGED <<mem, pages, logs, nextId, owner, stage, life>>

Unlock(s) == owner' = [i \in Items |-> IF owner[i] = s THEN 0 ELSE owner[i]]
DelTrans(s) == trans' = [trans EXCEPT ![s] = NoTrans]

EndAbort ==
    /\ Undoing /\ work.op = "abort" /\ UndoneEnough
    /\ LET s == work.slot
       IN  /\ IF trans[s].last = 0 THEN UNCHANGED log
              ELSE WriteLog(<<TransRec("TRANS_ABORT", s, trans[s].last)>>)
           /\ Unlock(s) /\ DelTrans(s)
    /\ work' = Idle
    /\ UNCHANGED <<mem, pages, stable, anchor, deleted, nextId, stage, life>>

\* dbi_trans_commit_internal up to LockMgr_Unlock.
Commit(s) ==
    /\ Free /\ Used(s)
    /\ IF trans[s].first = 0 THEN UNCHANGED <<log, trans>>
       ELSE LET recs == <<TransRec("TRANS_COMMIT", s, trans[s].last)>>
            IN  WriteLog(recs) /\ trans' = [trans EXCEPT ![s] = Logged(s, recs)]
    /\ Unlock(s)
    /\ work' = [op |-> "commit", slot |-> s, next |-> 0]
    /\ UNCHANGED <<mem, pages, stable, anchor, deleted, nextId, stage, life>>

\* Its end without a checkpoint: the log is flushed if the transaction has
\* written to it.
EndCommit ==
    /\ up /\ stage = "none" /\ work.op = "commit"
    /\ stable' = IF trans[work.slot].first = 0 THEN stable ELSE End
    /\ DelTrans(work.slot)
    /\ work' = Idle
    /\ UNCHANGED <<mem, pages, log, anchor, deleted, nextId, owner, stage, life>>

-----------------------------------------------------------------------------
(* Checkpoints *)

\* __checkpoint begins: BEGIN_CHKPT and the flush of the log.
StartCheckpoint ==
    /\ gDirty > 0
    /\ WriteLog(<<BeginChkpt>>)
    /\ stable' = End + 1
    /\ stage' = "pages"

\* Without dirty pages only log files are deleted.
SkipCheckpoint ==
    /\ gDirty = 0
    /\ "clean" \in Faults \/ stable = End
    /\ stage' = "delete"
    /\ UNCHANGED <<log, stable>>

\* A commit that ends with a checkpoint does not flush the log itself.
CheckpointAtCommit ==
    /\ up /\ stage = "none" /\ work.op = "commit"
    /\ StartCheckpoint \/ SkipCheckpoint
    /\ DelTrans(work.slot) /\ work' = Idle
    /\ UNCHANGED <<mem, pages, anchor, deleted, nextId, owner, life>>

\* One after an abort, for a caller of the API, for room in the buffer, or at
\* the end of a restart.
Checkpoint ==
    /\ up /\ stage = "none" /\ work.op # "commit"
    /\ StartCheckpoint \/ SkipCheckpoint
    /\ UNCHANGED <<mem, pages, anchor, deleted, trans, nextId, owner, work, life>>

\* DBFile_Write: until the file is synchronised, a crash may keep the old image.
WritePages(w) == [i \in Items |-> IF i \in w THEN db[i] \cup {mem[i]} ELSE db[i]]
Synced == [i \in Items |-> {mem[i]}]

\* _Table_Checkpointing: every dirty page but page 0.
CheckpointPages ==
    /\ stage = "pages"
    /\ db' = WritePages(dirty) /\ dirty' = {}
    /\ stage' = "page0"
    /\ UNCHANGED <<mem, dirty0, gDirty, anchorLSN, logs, trans, nextId, owner, work, life>>

\* It synchronises the file and writes page 0 with the LSN of BEGIN_CHKPT.
CheckpointPage0 ==
    /\ stage = "page0"
    /\ IF dirty0 THEN db' = Synced /\ anchorLSN' = anchorLSN \cup {End}
                 ELSE UNCHANGED <<db, anchorLSN>>
    /\ dirty0' = FALSE
    /\ stage' = "end"
    /\ UNCHANGED <<mem, dirty, gDirty, logs, trans, nextId, owner, work, life>>

\* Trans_Mgr_AllTransGet
Active == [s \in Slot |-> [id |-> trans[s].id, last |-> trans[s].last]]

\* It synchronises the file again; END_CHKPT is written and flushed.
CheckpointEnd ==
    /\ stage = "end"
    /\ db' = Synced /\ anchorLSN' = {Max(anchorLSN)}
    /\ WriteLog(<<EndChkpt(Active)>>)
    /\ stable' = End + 1
    /\ stage' = "anchor"
    /\ UNCHANGED <<mem, dirty, dirty0, gDirty, anchor, deleted, trans, nextId, owner, work, life>>

\* LogAnchor_WriteToDisk
CheckpointAnchor ==
    /\ stage = "anchor"
    /\ anchor' = [begin |-> End - 1, end |-> End]
    /\ gDirty' = gDirty - 1
    /\ stage' = "delete"
    /\ UNCHANGED <<mem, dirty, dirty0, db, anchorLSN, log, stable, deleted, trans, nextId, owner, work, life>>

\* __checkpoint returns an error: a page cannot be written, when some are on
\* disk and no longer flagged; or page 0, or the synchronisation before it; or
\* the synchronisation after it, or _Index_Checkpointing.
\* (Bound: no two checkpoints fail in a row.)
CheckpointFails ==
    /\ \A n \in anchor.end .. End - 1 : log[n].type # "BEGIN_CHKPT"
    /\ \/ stage = "pages" /\ db' = WritePages(dirty) /\ dirty' \in SUBSET dirty
       \/ stage = "page0" /\ dirty0 /\ UNCHANGED <<db, dirty>>
       \/ stage = "end" /\ UNCHANGED <<db, dirty>>
    /\ stage' = "delete"
    /\ UNCHANGED <<mem, dirty0, gDirty, anchorLSN, logs, trans, nextId, owner, work, life>>

\* Delete_Useless_Logfiles: the files before the first that is needed.
\* Mutant: running transactions are forgotten.
FirstNeededFileOfRestart == Min({File(stable), File(anchor.begin)})
FirstNeededFile ==
    Min({File(stable), File(anchor.begin)}
        \cup {File(trans[s].first) : s \in {x \in Slot : trans[x].first # 0}})

\* The records a restart reads besides those from BEGIN_CHKPT on.
ReadByRestart ==
    {log[n].undone : n \in {m \in anchor.begin .. End : log[m].type = "COMPENSATION"}}
    \cup UNION {Chain(log[anchor.end].active[s].last) : s \in Slot}

DeleteLogFiles ==
    /\ stage = "delete"
    /\ deleted' = Max({deleted, FirstNeededFile - 1})
    /\ \/ \A n \in ReadByRestart : File(n) > deleted'
       \/ /\ "failed" \in Faults \/ log[End].type # "BEGIN_CHKPT"
          /\ "unsettled" \in Faults \/ unsettled < anchor.end
    /\ stage' = "none"
    /\ work' = IF work.op = "restart" THEN Idle ELSE work
    /\ UNCHANGED <<mem, pages, log, stable, anchor, trans, nextId, owner, life>>

\* CheckPoint_Segment: buffer replacement flushes the log and writes a page.
\* Mutant: without the flush.
ReplaceBufferUnlogged(i) ==
    /\ up /\ stage = "none" /\ work.op \in {"idle", "partial", "abort"}
    /\ i \in dirty
    /\ db' = WritePages({i}) /\ dirty' = dirty \ {i}
    /\ UNCHANGED <<mem, dirty0, gDirty, anchorLSN, log, stable, anchor, deleted, trans, nextId, owner, work, stage, life>>
ReplaceBuffer(i) ==
    /\ up /\ stage = "none" /\ work.op \in {"idle", "partial", "abort"}
    /\ i \in dirty
    /\ stable' = End
    /\ db' = WritePages({i}) /\ dirty' = dirty \ {i}
    /\ UNCHANGED <<mem, dirty0, gDirty, anchorLSN, log, anchor, deleted, trans, nextId, owner, work, stage, life>>

-----------------------------------------------------------------------------
(* Crash and restart *)

\* The page images and the anchor_lsn a restart finds.
Image(i) == CHOOSE v \in db[i] : TRUE
SkippedBefore == CHOOSE a \in anchorLSN : TRUE

Touches(n, i) ==
    \/ log[n].type = "UPDATE" /\ log[n].item = i
    \/ /\ log[n].type = "COMPENSATION" /\ Readable(log[n].undone)
       /\ log[log[n].undone].item = i
\* Mutant: a compensation repeats what it should take back.
ValueAfterRepeats(n) == IF log[n].type = "UPDATE" THEN n ELSE log[n].undone
ValueAfter(n) == IF log[n].type = "UPDATE" THEN n ELSE log[log[n].undone].before

\* LogRec_Redo skips the records before anchor_lsn.
Redone(i) ==
    {n \in Max({anchor.begin, SkippedBefore}) .. End : Touches(n, i)}
Redo ==
    [i \in Items |-> LET redone == Redone(i)
                     IN  IF redone = {} THEN Image(i) ELSE ValueAfter(Max(redone))]

\* The transaction table after redo: that of END_CHKPT, changed by the records
\* that follow.  Trans_Search finds a slot by the id modulo MAX_TRANS and does
\* not compare ids.
NoEntry == [id |-> 0, last |-> 0]
\* Mutant: a commit does not end a transaction.
AfterRecordAborts(table, n) ==
    LET r == log[n]
        s == r.trans % MaxTrans
    IN  IF r.type = "TRANS_ABORT"
        THEN [table EXCEPT ![s] = NoEntry]
        ELSE [table EXCEPT ![s] = [id |-> IF @.id = 0 THEN r.trans ELSE @.id, last |-> n]]
\* Mutant: the last record of a transaction is not updated.
AfterRecordKeepsLast(table, n) ==
    LET r == log[n]
        s == r.trans % MaxTrans
    IN  IF r.type \in {"TRANS_COMMIT", "TRANS_ABORT"}
        THEN [table EXCEPT ![s] = NoEntry]
        ELSE [table EXCEPT ![s] = IF @.id = 0 THEN [id |-> r.trans, last |-> n] ELSE @]
AfterRecord(table, n) ==
    LET r == log[n]
        s == r.trans % MaxTrans
    IN  IF r.type \in {"TRANS_COMMIT", "TRANS_ABORT"}
        THEN [table EXCEPT ![s] = NoEntry]
        ELSE [table EXCEPT ![s] = [id |-> IF @.id = 0 THEN r.trans ELSE @.id, last |-> n]]
TableAfterRedo ==
    LET table[n \in anchor.end .. End] ==
          IF n = anchor.end THEN log[n].active
          ELSE IF n < SkippedBefore \/ ~OfTrans(log[n]) THEN table[n - 1]
          ELSE AfterRecord(table[n - 1], n)
    IN  table[End]
Losers ==
    LET table == TableAfterRedo
    IN  {table[s].last : s \in {x \in Slot : table[x].id # 0}}
ToUndo(l) == {n \in Chain(l) : log[n].type = "UPDATE"}

Recovered == BackOut(Redo, Losers)

\* The log ends with the checkpoint the anchor names (CHKPT_CMPLT).
Complete == End = anchor.end

\* The checkpoint whose LSN a is in page 0 has failed after it wrote page 0.
FailedAfterPage0(a) ==
    /\ a > anchor.end
    /\ stage = "end" => a # End
    /\ stage = "anchor" => a # End - 1
    /\ stage = "anchor" \/ \E x \in anchorLSN : x < a

\* Page 0 has the LSN a of a checkpoint whose log anchor was not written: the
\* checkpoint has failed, or a transaction with records the redo then skips ran
\* across its begin, or across that of the checkpoint before.
HalfAnchored(a) ==
    \/ FailedAfterPage0(a)
    \/ \E n \in anchor.end .. a - 1 :
          /\ OfTrans(log[n])
          /\ \/ \E s \in Slot : log[anchor.end].active[s].id = log[n].trans
             \/ \E s \in Slot : trans[s].id = log[n].trans

\* A restart undid losers in memory only, and transactions have run since.
UndoneInMemory(k) ==
    /\ unsettled >= anchor.end
    /\ \E n \in unsettled + 1 .. k : OfTrans(log[n])

\* A crash and the LogMgr_Restart that follows.  It writes nothing, so that a
\* crash in the middle of it changes nothing.
Crash ==
    /\ up /\ up' = FALSE /\ crashes < MaxCrash
    /\ \E k \in stable .. End, a \in anchorLSN,
          image \in {f \in [Items -> UNION {db[i] : i \in Items}] : \A i \in Items : f[i] \in db[i]} :
         /\ "window" \in Faults \/ ~HalfAnchored(a)
         /\ "unsettled" \in Faults \/ ~UndoneInMemory(k)
         /\ log' = SubSeq(log, 1, k) /\ stable' = k
         /\ db' = [i \in Items |-> {image[i]}]
         /\ anchorLSN' = {a}
    /\ UNCHANGED <<anchor, deleted, unsettled>>
    /\ mem' = Recovered'
    /\ dirty' = {} /\ dirty0' = FALSE /\ gDirty' = 0
    /\ trans' = [s \in Slot |-> NoTrans] /\ owner' = [i \in Items |-> 0] /\ nextId' = 1
    /\ work' = Idle /\ stage' = "none"
    /\ crashes' = crashes + 1

\* The database is opened.  A restart sets back the ids of transactions, and
\* takes a checkpoint unless the log ends with one.  (The checkpoint before it,
\* when indexes have to be rebuilt, writes nothing that it does not write.)
Open ==
    /\ ~up /\ up' = TRUE
    /\ dirty' = {i \in Items : Redone(i) # {} \/ \E l \in Losers : \E n \in ToUndo(l) : log[n].item = i}
    /\ dirty0' \in {~Complete, ~Complete \/ dirty' # {}}
    /\ gDirty' = IF Complete /\ dirty' = {} THEN 0 ELSE 2
    /\ work' = IF Complete THEN Idle ELSE [Idle EXCEPT !.op = "restart"]
    /\ unsettled' = IF Losers \ {0} # {} THEN End ELSE 0
    /\ nextId' = SetNextTransID(0)
    /\ UNCHANGED <<mem, db, anchorLSN, logs, trans, owner, stage, crashes>>

-----------------------------------------------------------------------------

\* A database that has just been created.
Init ==
    /\ mem = [i \in Items |-> 0] /\ dirty = {} /\ dirty0 = FALSE /\ gDirty = 0
    /\ db = [i \in Items |-> {0}] /\ anchorLSN = {1}
    /\ log = <<BeginChkpt, EndChkpt([s \in Slot |-> NoEntry])>> /\ stable = 2
    /\ anchor = [begin |-> 1, end |-> 2] /\ deleted = 0
    /\ trans = [s \in Slot |-> NoTrans] /\ nextId = 1
    /\ owner = [i \in Items |-> 0]
    /\ work = Idle /\ stage = "none"
    /\ up = TRUE /\ unsettled = 0 /\ crashes = 0

TransNext ==
    \/ Begin \/ UndoStep \/ EndPartialRollback \/ EndAbort \/ EndCommit
    \/ \E s \in Slot :
         \/ PartialRollback(s) \/ Abort(s) \/ Commit(s)
         \/ \E i \in Items, begins \in BOOLEAN : DoUpdate(s, i, begins)

CheckpointNext ==
    \/ CheckpointAtCommit \/ Checkpoint \/ CheckpointPages \/ CheckpointPage0
    \/ CheckpointEnd \/ CheckpointAnchor \/ CheckpointFails \/ DeleteLogFiles
    \/ \E i \in Items : ReplaceBuffer(i)

Next == TransNext \/ CheckpointNext \/ Crash \/ Open

Spec == Init /\ [][Next]_vars

-----------------------------------------------------------------------------

TypeOK ==
    /\ mem \in [Items -> LSN] /\ dirty \subseteq Items /\ dirty0 \in BOOLEAN /\ gDirty \in 0 .. 2
    /\ db \in [Items -> (SUBSET LSN) \ {{}}] /\ anchorLSN \in (SUBSET LSN) \ {{}}
    /\ End <= MaxLog /\ stable \in 2 .. End
    /\ anchor.begin \in 1 .. stable /\ anchor.end \in 1 .. stable /\ deleted \in 0 .. File(stable)
    /\ log[anchor.begin].type = "BEGIN_CHKPT" /\ log[anchor.end].type = "END_CHKPT"
    /\ trans \in [Slot -> Trans] /\ nextId \in 1 .. MaxId - 1 /\ owner \in [Items -> Slot \cup {0}]
    /\ work.op \in {"idle", "partial", "abort", "commit", "restart"} /\ work.next \in LSN
    /\ stage \in {"none", "pages", "page0", "end", "anchor", "delete"}
    /\ up \in BOOLEAN /\ unsettled \in LSN /\ crashes \in 0 .. MaxCrash

\* No image that a crash may leave on disk holds an update whose log record is
\* lost with it (the flushes before DBFile_Write).
WriteAhead == \A i \in Items : \A v \in db[i] : v <= stable

\* Two transactions that a restart undoes never changed the same item, so the
\* order in which the heap of mdb_UpdateTrans.c mixes them does not matter.
LosersDisjoint ==
    ~up => \A l, m \in Losers : l # m =>
             \A x \in ToUndo(l), y \in ToUndo(m) : log[x].item # log[y].item

\* A restart undoes the transactions with a TRANS_BEGIN_LOG and no end, each
\* from its last record, though slots are found by ids modulo MAX_TRANS.
LosersExact ==
    (~up /\ SkippedBefore <= anchor.end) =>
    LET after == {n \in anchor.end + 1 .. End : OfTrans(log[n])}
        active == {log[anchor.end].active[s].last : s \in Slot} \ {0}
        recent == {n \in active \cup after :
                     \A m \in after : m > n => Min(Chain(m)) # Min(Chain(n))}
    IN  Losers \ {0} = {n \in recent : log[n].type \notin {"TRANS_COMMIT", "TRANS_ABORT"}}

\* No record that a restart or a rollback still reads was in a deleted log file.
LogKept ==
    /\ File(anchor.begin) > deleted
    /\ \A s \in Slot : \A n \in Chain(trans[s].last) : Readable(n)
    /\ ~up => /\ \A l \in Losers : \A n \in Chain(l) : Readable(n)
              /\ \A n \in anchor.begin .. End :
                    log[n].type = "COMPENSATION" => Readable(log[n].undone)

\* A rollback of a statement gives every item the value it had at its
\* savepoint, also where earlier statements of the transaction were rolled
\* back (TransMgr_Implicit_Partial_Rollback and the records it writes).
SavepointRestored ==
    (work.op = "partial" /\ UndoneEnough) =>
    LET t == trans[work.slot]
        updates(i) == {n \in Max({t.save + 1, t.first}) .. End :
                         log[n].type = "UPDATE" /\ log[n].trans = t.id /\ log[n].item = i}
    IN  \A i \in Items : updates(i) # {} => mem[i] = log[Min(updates(i))].before

\* Transactions are atomic and durable: commits, rollbacks, checkpoints,
\* crashes and restarts leave the updates of exactly the committed
\* transactions (LogMgr_Restart, dbi_trans_commit_internal, _Checkpointing).
LastOf(slots) == {trans[s].last : s \in slots}
Committing == IF work.op = "commit" THEN {work.slot} ELSE {}
Abstract == INSTANCE DurableStore WITH
    Values <- LSN,
    store <- BackOut(mem, LastOf(Slot)),
    doubt <- BackOut(mem, LastOf(Slot \ Committing))
Refines == Abstract!Spec

=============================================================================
