----------------------------- MODULE LogBuffer -----------------------------
(***************************************************************************)
(* The write-ahead log of openML: the log buffer recovery/mdb_LogBuffer.c, *)
(* the log files recovery/mdb_LogFile.c and the part of a restart that     *)
(* finds the end of the log, recovery/mdb_LogMgr.c.                        *)
(*                                                                         *)
(* Buffer and files hold units; a record takes len of them, the first has  *)
(* its LSN, the last its end mark and checksum.  The buffer is a ring in   *)
(* which no record is split: last remembers where the used part of its end *)
(* stops.  create marks where the records of the next log file begin.      *)
(*                                                                         *)
(* Everything runs under MDB_DB_LOCK.  A flush is one step of the running  *)
(* system, but a crash may stop it after any of its writes.                *)
(*                                                                         *)
(* Left out: the send and flush positions of the buffer (no code moves     *)
(* them from -1), flush_needed, and the contents of records.               *)
(***************************************************************************)
EXTENDS Integers, FiniteSets, SequencesExt

CONSTANTS
    BufSize,      \* log_buffer_size in units
    FileSize,     \* log_file_size: a record that begins here needs a new file
    Sizes,        \* lengths of records
    MaxFile,      \* bound on log file numbers
    MaxLife,      \* bound on restarts, plus one
    MaxTorn,      \* bound on crashes in the middle of a flush
    StaleEnds     \* where a reserved file may hold an old end-of-log mark

\* mdb_LogBuffer.c:248 assumes that a record fits; mdb_configure.c makes
\* the file as large as the buffer.
ASSUME LogAssumption ==
    /\ BufSize \in Nat \ {0} /\ FileSize \in Nat /\ BufSize <= FileSize
    /\ Sizes \subseteq 1 .. BufSize - 1
    /\ MaxFile \in Nat \ {0} /\ MaxLife \in Nat \ {0} /\ MaxTorn \in Nat
    /\ StaleEnds \subseteq 0 .. FileSize

VARIABLES
    page,         \* LogPage: the units in the buffer
    head, tail,   \* Buffer_.head, tail: the used part
    last,         \* Buffer_.last
    create,       \* Buffer_.create
    cur,          \* Current_LSN_: the LSN of the next record
    file,         \* File_: number and offset where the next flush writes
    record,       \* the record LogBuffer_WriteLogRecord is placing
    disk,         \* log files
    anchor,       \* log anchor: Current_Log_File_No_ and Begin_Chkpt_lsn_
    up,           \* the server runs
    life,         \* number of the run, tells records with one LSN apart
    repair,       \* after a restart from a broken log: where its log begins
    found,        \* and the records it found
    torn          \* crashes in the middle of a flush so far

buffer == <<page, head, tail, last, create>>
restart == <<up, life, repair, found, torn>>
vars == <<buffer, cur, file, record, disk, anchor, restart>>

LSN(n, o) == [no |-> n, off |-> o]
NoLSN == LSN(0, 0)
Offset == 0 .. FileSize + BufSize
LSNs == [no : 0 .. MaxFile + 2, off : Offset]

NoRecord == [lsn |-> NoLSN, len |-> 0, life |-> 0]
Rec == [lsn : LSNs, len : Sizes, life : 1 .. MaxLife]

\* A unit of a record, the end-of-log mark Str_EndOfLog, or anything else:
\* bytes that carry no LSN that could be met here.
Unit(r, k) == [rec |-> r, part |-> k]
Stale == Unit(NoRecord, 0)
EOL == Unit(NoRecord, 1)
Cell == [rec : Rec \cup {NoRecord}, part : 0 .. BufSize]

StaleFile(e) == [o \in Offset |-> IF o = e THEN EOL ELSE Stale]

-----------------------------------------------------------------------------
(* LogBuffer_Flush and LogFile_AppendLog *)

\* The writes of LogFile_AppendLog for the buffer from i to j: the units,
\* then Str_EndOfLog; nothing at all if there are none.
AppendLog(lsn, i, j) ==
    IF i = j THEN << >>
    ELSE [k \in 1 .. j - i + 1 |->
            [no |-> lsn.no, off |-> lsn.off + k - 1,
             cell |-> IF k <= j - i THEN page[i + k - 1] ELSE EOL]]

\* LogFile_Create: the write that counts is that of the log anchor.
Create(n) == [no |-> n, off |-> -1, cell |-> Stale]

\* The used part of the ring: one interval, or two.
First == IF head <= tail THEN <<head, tail>> ELSE <<head, last>>
Second == IF head <= tail THEN <<0, 0>> ELSE <<0, tail>>
Size(r) == r[2] - r[1]

InFirst == create # -1 /\ create \in First[1] .. First[2]
InSecond == head > tail /\ ~InFirst /\ create # -1 /\ create <= tail

\* LOGBUFFER_CHECK: positions the flush refuses to work with.
FlushRefused ==
    head > tail /\ (last = -1 \/ (create # -1 /\ create >= head /\ create > last))

\* Mutant: a change of file in the second interval is overlooked.
FlushWritesFirstOnly ==
    LET next == LSN(file.no + 1, 0)
    IN  IF InFirst
        THEN AppendLog(file, head, create) \o <<Create(next.no)>>
             \o AppendLog(next, create, First[2])
             \o AppendLog(LSN(next.no, First[2] - create), 0, Second[2])
        ELSE AppendLog(file, head, First[2])
             \o AppendLog(LSN(file.no, file.off + Size(First)), 0, Second[2])

\* All writes of a flush, in order.
FlushWrites ==
    LET next == LSN(file.no + 1, 0)
        then == LSN(file.no, file.off + Size(First))
    IN  CASE head = tail -> << >>
          [] head # tail /\ InFirst ->
               AppendLog(file, head, create) \o <<Create(next.no)>>
               \o AppendLog(next, create, First[2])
               \o AppendLog(LSN(next.no, First[2] - create), 0, Second[2])
          [] head # tail /\ InSecond ->
               AppendLog(file, head, First[2]) \o AppendLog(then, 0, create)
               \o <<Create(next.no)>> \o AppendLog(next, create, tail)
          [] OTHER ->
               AppendLog(file, head, First[2]) \o AppendLog(then, 0, Second[2])

\* Mutant: the end-of-log mark is counted.
FileAfterFlushCountsMark == LSN(file.no, file.off + Size(First) + Size(Second) + 1)

\* File_ after the flush: it counts the units, never the end-of-log marks.
FileAfterFlush ==
    CASE InFirst -> LSN(file.no + 1, First[2] - create + Size(Second))
      [] InSecond -> LSN(file.no + 1, tail - create)
      [] OTHER -> LSN(file.no, file.off + Size(First) + Size(Second))

\* The files and the anchor when the writes of ws have been done in order.
Written(ws) ==
    [n \in DOMAIN disk |-> [o \in Offset |->
        LET at == {i \in 1 .. Len(ws) : ws[i].no = n /\ ws[i].off = o}
        IN  IF at = {} THEN disk[n][o]
            ELSE ws[CHOOSE i \in at : \A j \in at : j <= i].cell]]
AnchorWritten(ws) ==
    LET at == {ws[i].no : i \in {j \in 1 .. Len(ws) : ws[j].off = -1}}
    IN  IF at = {} THEN anchor ELSE [anchor EXCEPT !.no = CHOOSE n \in at : TRUE]

\* Mutant: the change of file remains pending.
BufferFlushedKeepsCreate ==
    /\ page' = [i \in DOMAIN page |-> Stale]
    /\ head' = tail
    /\ last' = IF head > tail THEN -1 ELSE last
    /\ UNCHANGED create

\* The buffer when everything in it has been handed to the log files.
BufferFlushed ==
    /\ page' = [i \in DOMAIN page |-> Stale]
    /\ head' = tail
    /\ last' = IF head > tail THEN -1 ELSE last
    /\ create' = IF InFirst \/ InSecond THEN -1 ELSE create

DoFlush ==
    /\ head # tail /\ ~FlushRefused
    /\ disk' = Written(FlushWrites)
    /\ anchor' = AnchorWritten(FlushWrites)
    /\ file' = FileAfterFlush
    /\ BufferFlushed

-----------------------------------------------------------------------------
(* LogBuffer_WriteLogRecord *)

\* Mutant: the first record of a file is not where the buffer says.
BeginWriteKeepsCreate(n) ==
    /\ up /\ record = NoRecord
    /\ cur.off >= FileSize => create = -1 /\ cur.no < MaxFile
    /\ cur' = IF cur.off >= FileSize THEN LSN(cur.no + 1, 0) ELSE cur
    /\ record' = [lsn |-> cur', len |-> n, life |-> life]
    /\ UNCHANGED <<buffer, file, disk, anchor, restart>>

\* The record gets its LSN.  If the log file is full, it is the first of the
\* next one (logbuf_set_logfilecreate).
BeginWrite(n) ==
    /\ up /\ record = NoRecord
    /\ cur.off >= FileSize => create = -1 /\ cur.no < MaxFile
    /\ IF cur.off >= FileSize
       THEN create' = tail /\ cur' = LSN(cur.no + 1, 0)
       ELSE UNCHANGED <<create, cur>>
    /\ record' = [lsn |-> cur', len |-> n, life |-> life]
    /\ UNCHANGED <<page, head, tail, last, file, disk, anchor, restart>>

\* The loop check_again: is there room at tail?
NoRoomAtEnd == head <= tail /\ record.len >= BufSize - tail

\* Mutant: a record may fill the gap before head.
NoRoomOffByOne == head > tail /\ record.len > head - tail
NoRoom == head > tail /\ record.len >= head - tail

\* Mutant: only a gap is emptied.
MustFlushGapOnly == record # NoRecord /\ NoRoom

\* A gap that is too short, or an end with no room before it, has to be emptied.
MustFlush ==
    record # NoRecord /\ (NoRoom \/ (NoRoomAtEnd /\ head = 0 /\ tail > 0))

\* The end of the ring is too short: go on at its beginning.
Wrap ==
    /\ up /\ record # NoRecord
    /\ NoRoomAtEnd /\ (head = tail \/ head > 0)
    /\ last' = tail
    /\ tail' = 0
    /\ UNCHANGED <<page, head, create, cur, file, record, disk, anchor, restart>>

\* There is no room before the used part: flush it.
FlushForRoom ==
    /\ up /\ MustFlush
    /\ DoFlush
    /\ UNCHANGED <<tail, cur, record, restart>>

\* Copy the record to tail.
Copy ==
    /\ up /\ record # NoRecord
    /\ ~NoRoom /\ ~NoRoomAtEnd
    /\ page' = [i \in DOMAIN page |->
                  IF i \in tail .. tail + record.len - 1
                  THEN Unit(record, i - tail + 1) ELSE page[i]]
    /\ tail' = tail + record.len
    /\ cur' = LSN(cur.no, cur.off + record.len)
    /\ record' = NoRecord
    /\ UNCHANGED <<head, last, create, file, disk, anchor, restart>>

\* LogBuffer_Flush from a commit, an abort, a checkpoint.
Flush ==
    /\ up /\ record = NoRecord
    /\ DoFlush
    /\ UNCHANGED <<tail, cur, record, restart>>

\* A flush whose write fails three times: LogFile_AppendLog moves Offset_ on
\* and LogBuffer_Flush goes on as if nothing had happened.
FlushFails ==
    /\ up /\ record = NoRecord
    /\ head # tail /\ ~FlushRefused /\ ~InFirst /\ ~InSecond
    /\ file' = FileAfterFlush
    /\ BufferFlushed
    /\ UNCHANGED <<tail, cur, record, disk, anchor, restart>>

-----------------------------------------------------------------------------
(* Reading the log: LogFile_Redo, LogMgr_ReadLogRecord *)

\* What LogFile_Redo makes of the bytes at an LSN.
Verdict(l) ==
    LET c == disk[l.no][l.off]
        r == c.rec
        end == disk[l.no][l.off + r.len - 1]
    IN  CASE c = EOL -> "end"
          [] c # EOL /\ (c.part # 1 \/ r.lsn # l) -> "mismatch"
          [] c.part = 1 /\ r.lsn = l ->
               IF \A k \in 1 .. r.len : disk[l.no][l.off + k - 1] = Unit(r, k)
               THEN "record"
               ELSE IF end.rec # NoRecord /\ end.part = end.rec.len
                    THEN "checksum" ELSE "crash"

\* LogFile_Redo from one LSN to another, or as far as the current file goes.
Scan(from, to) ==
    LET stop(l, verdict) == [recs |-> << >>, at |-> l, verdict |-> verdict]
        redo[l \in [no : 1 .. anchor.no, off : Offset]] ==
            IF l = to \/ (Verdict(l) = "end" /\ l.no = anchor.no) THEN stop(l, "end")
            ELSE IF Verdict(l) = "end" THEN redo[LSN(l.no + 1, 0)]
            ELSE IF Verdict(l) = "record"
            THEN LET r == disk[l.no][l.off].rec
                     rest == redo[LSN(l.no, l.off + r.len)]
                 IN  [rest EXCEPT !.recs = <<r>> \o @]
            ELSE stop(l, Verdict(l))
    IN  redo[from]

\* LogBuffer_ReadLogRecord: the place in the ring of a record not flushed yet.
BufferPlace(l) ==
    LET offset == l.off - IF l.no = file.no THEN file.off ELSE 0
        start == IF l.no = file.no THEN head ELSE create
    IN  IF start < tail \/ offset < last - start
        THEN start + offset
        ELSE offset - (last - start)

\* LogMgr_ReadLogRecord, used to undo.
ReadsBack(r) ==
    IF r.lsn.no < file.no \/ (r.lsn.no = file.no /\ r.lsn.off < file.off)
    THEN \A k \in 1 .. r.len : disk[r.lsn.no][r.lsn.off + k - 1] = Unit(r, k)
    ELSE LET p == BufferPlace(r.lsn)
         IN  \A k \in 1 .. r.len :
                p + k - 1 \in DOMAIN page /\ page[p + k - 1] = Unit(r, k)

-----------------------------------------------------------------------------
(* Checkpoints, crashes and restarts *)

\* LogFile_Redo from the last checkpoint to what has been flushed since; after
\* a restart from a broken log, what it found comes first.
Flushed ==
    IF repair = NoLSN THEN Scan(anchor.chk, file).recs
    ELSE found \o Scan(repair, file).recs

\* The end of a checkpoint: the log buffer has been flushed, and the LSN of
\* its first record goes to the log anchor.
Checkpoint ==
    /\ up /\ record = NoRecord
    /\ head = tail
    /\ \E r \in Range(Flushed) :
          /\ r.life = life
          /\ r.lsn # anchor.chk \/ repair # NoLSN
          /\ anchor' = [anchor EXCEPT !.chk = r.lsn]
    /\ repair' = NoLSN
    /\ found' = << >>
    /\ UNCHANGED <<buffer, cur, file, record, disk, up, life, torn>>

\* The server stops: between two flushes, or after the first k writes of one.
\* A checkpoint that repairs the log is not interrupted here.
Crash(k) ==
    /\ up /\ repair = NoLSN
    /\ life < MaxLife
    /\ k > 0 => /\ torn < MaxTorn
                /\ record = NoRecord \/ MustFlush
    /\ disk' = Written(SubSeq(FlushWrites, 1, k))
    /\ anchor' = AnchorWritten(SubSeq(FlushWrites, 1, k))
    /\ torn' = IF k > 0 THEN torn + 1 ELSE torn
    /\ up' = FALSE
    /\ page' = [i \in DOMAIN page |-> Stale]
    /\ head' = 0 /\ tail' = 0 /\ last' = -1 /\ create' = -1
    /\ cur' = NoLSN /\ file' = NoLSN /\ record' = NoRecord
    /\ UNCHANGED <<life, repair, found>>

\* Mutant: logging goes on one record too early.
RestartAtLastRecord ==
    LET scan == Scan(anchor.chk, NoLSN)
    IN  /\ ~up /\ up' = TRUE
        /\ file' = IF scan.verdict = "end"
                   THEN IF scan.recs # << >> THEN Last(scan.recs).lsn ELSE scan.at
                   ELSE LSN(anchor.no, 0)
        /\ repair' = IF scan.verdict = "end" THEN NoLSN ELSE file'
        /\ found' = IF scan.verdict = "end" THEN << >> ELSE scan.recs
        /\ cur' = file'
        /\ life' = life + 1
        /\ UNCHANGED <<buffer, record, disk, anchor, torn>>

\* LogMgr_Scan_CommitList and LogMgr_Restart.  If the log ends with its mark,
\* logging goes on there.  A record that is cut makes the next log file the
\* current one, unless the cut is in an older file; all other errors leave
\* Offset_ undecided, which means 0.
Restart ==
    LET scan == Scan(anchor.chk, NoLSN)
        replace == scan.verdict = "crash" /\ anchor.no <= scan.at.no
    IN  /\ ~up /\ up' = TRUE
        /\ replace => anchor.no <= MaxFile
        /\ anchor' = IF replace THEN [anchor EXCEPT !.no = @ + 1] ELSE anchor
        /\ file' = IF scan.verdict = "end" THEN scan.at ELSE LSN(anchor'.no, 0)
        /\ repair' = IF scan.verdict = "end" THEN NoLSN ELSE file'
        /\ found' = IF scan.verdict = "end" THEN << >> ELSE scan.recs
        /\ cur' = file'
        /\ life' = life + 1
        /\ UNCHANGED <<buffer, record, disk, torn>>

-----------------------------------------------------------------------------

Init ==
    /\ page = [i \in 0 .. BufSize - 1 |-> Stale]
    /\ head = 0 /\ tail = 0 /\ last = -1 /\ create = -1
    /\ cur = LSN(1, 0) /\ file = LSN(1, 0)
    /\ record = NoRecord
    /\ \E e \in StaleEnds \cup {-1, 0} :
          disk = [n \in 1 .. MaxFile + 1 |-> StaleFile(IF n = 1 THEN 0 ELSE e)]
    /\ anchor = [no |-> 1, chk |-> LSN(1, 0)]
    /\ up = TRUE /\ life = 1
    /\ repair = NoLSN /\ found = << >>
    /\ torn = 0

WriteStep == Wrap \/ FlushForRoom \/ Copy

Next ==
    \/ \E n \in Sizes : BeginWrite(n)
    \/ WriteStep
    \/ Flush
    \/ Checkpoint
    \/ \E k \in 0 .. Len(FlushWrites) : Crash(k)
    \/ Restart

Spec == Init /\ [][Next]_vars

\* The same with writes to the log file that fail.
SpecFailures == Init /\ [][Next \/ FlushFails]_vars

\* The loop of LogBuffer_WriteLogRecord goes on.
SpecFair == Spec /\ WF_vars(WriteStep)

-----------------------------------------------------------------------------
(* Properties *)

\* Every variable has the type of the field it stands for.
TypeOK ==
    /\ page \in [0 .. BufSize - 1 -> Cell]
    /\ head \in 0 .. BufSize - 1 /\ tail \in 0 .. BufSize - 1
    /\ last \in -1 .. BufSize - 1 /\ create \in -1 .. BufSize - 1
    /\ cur \in LSNs /\ file \in LSNs
    /\ record \in Rec \cup {NoRecord}
    /\ disk \in [1 .. MaxFile + 1 -> [Offset -> Cell]]
    /\ anchor \in [no : 1 .. MaxFile + 1, chk : LSNs]
    /\ up \in BOOLEAN /\ life \in 1 .. MaxLife
    /\ repair \in LSNs /\ found \in Seq(Rec)
    /\ torn \in 0 .. MaxTorn

\* The units waiting in the ring, oldest first.
Ring == [i \in 1 .. Size(First) |-> page[First[1] + i - 1]]
        \o [i \in 1 .. Size(Second) |-> page[i - 1]]

\* The records not flushed yet.
Buffered == LET firsts == SelectSeq(Ring, LAMBDA c : c.part = 1)
            IN  [i \in 1 .. Len(firsts) |-> firsts[i].rec]

\* A log file is full again only after the change of file pending in the
\* buffer has been flushed: no write of a log record is ever refused.
OneChangePending == up /\ cur.off >= FileSize /\ record = NoRecord => create = -1

\* No flush is refused, so none ever drops what commit needs on disk.
NeverRefused == ~FlushRefused

\* Each record of this run can be read by its LSN, whether it is in the
\* buffer, wrapped or not, or in a file, before or after a change of file.
ReadBack ==
    LET begun == {c.rec : c \in {d \in Range(Ring) : d.part = 1}}
    IN  up => \A r \in Range(Flushed) \cup begun : r.life = life => ReadsBack(r)

\* mdb_LogMgr.c:944: a record whose LSN is below that of the log file has
\* already been flushed.  The scan of the files gets as far as File_ says.
AlreadyFlushed ==
    up => LET start == IF repair = NoLSN THEN anchor.chk ELSE repair
          IN  Scan(start, file).at = file

\* mdb_LogMgr.c:1006: a current log file that is broken is replaced by the
\* next one.  So what the restart found in it stays readable until the
\* checkpoint that makes it superfluous is in the anchor.
BrokenFileKept ==
    up /\ repair # NoLSN => IsPrefix(found, Scan(anchor.chk, NoLSN).recs)

\* LogBuffer_WriteLogRecord ends: its loop finds room in the end.
WriteEnds == record # NoRecord ~> record = NoRecord

\* Buffer and files together are a log with a stable prefix.
Abstract ==
    INSTANCE StableLog WITH
        log <- IF up THEN Flushed \o Buffered ELSE Scan(anchor.chk, NoLSN).recs,
        stable <- Len(IF up THEN Flushed ELSE Scan(anchor.chk, NoLSN).recs)
Refines == Abstract!Spec

=============================================================================
