-------------------------- MODULE LogBufferProofs --------------------------
(***************************************************************************)
(* For every size of buffer, files and records, whatever crashes and       *)
(* restarts come between:                                                  *)
(*                                                                         *)
(* 1. The positions of the ring never reach a state in which a flush or    *)
(*    the write of a record is refused (RingInvariant).  This needs only   *)
(*    that the buffer is empty after a restart.                            *)
(*                                                                         *)
(* 2. The records in the files lead from where the log starts to where the *)
(*    next flush writes, and the ring holds whole records that go on from  *)
(*    there to the LSN of the next record (LogInvariant).  So the scan of  *)
(*    the files gets as far as File_ says, and every record of this run    *)
(*    can be read by its LSN.                                              *)
(*                                                                         *)
(* For the second part, Scan is shown to have a value at all: LSNs grow    *)
(* from record to record and are bounded in a file, so its recursion is    *)
(* well-founded (PlaceRecursion).  What it returns is then described by a  *)
(* Path, a set of LSNs in which each leads to the next one.                *)
(***************************************************************************)
EXTENDS LogBuffer, WellFoundedInduction, SequenceTheorems, TLAPS

-----------------------------------------------------------------------------
(* The positions of the ring *)

\* The positions of the ring.  last is set exactly while the used part wraps
\* around, and the pending change of file lies in the used part.
Positions ==
    /\ head \in 0 .. BufSize - 1 /\ tail \in 0 .. BufSize - 1
    /\ head <= tail => last = -1
    /\ head > tail => last \in head .. BufSize - 1
    /\ create # -1 => IF head <= tail THEN create \in head .. tail
                      ELSE create \in head .. last \/ create \in 0 .. tail

\* The units in the buffer that belong to the next log file.
NextFileUnits ==
    IF head <= tail \/ create <= tail THEN tail - create ELSE last - create + tail

\* While a change of file is pending, all of the next file is in the buffer.
NextFileBuffered == create # -1 => cur.off = NextFileUnits

RecordFits == record # NoRecord => record.len \in Sizes

StoppedEmpty == ~up => create = -1

RingInv == Positions /\ NextFileBuffered /\ RecordFits /\ StoppedEmpty

\* A record fits into the buffer.
LEMMA SizesFit == \A n \in Sizes : n \in Int /\ 1 <= n /\ n < BufSize
BY LogAssumption

\* The buffer starts empty.
LEMMA RingInit == Init => RingInv
BY LogAssumption DEF Init, RingInv, Positions, NextFileBuffered, RecordFits, StoppedEmpty

\* What a flush makes of the positions: nothing is left to write, and the
\* change of file is never forgotten.
LEMMA FlushEmpties ==
    ASSUME RingInv, DoFlush
    PROVE  head' = tail /\ last' = -1 /\ create' = -1
<1>1. last' = -1
  BY LogAssumption DEF RingInv, Positions, DoFlush, BufferFlushed
<1>2. CASE create = -1
  BY <1>1, <1>2 DEF DoFlush, BufferFlushed
<1>3. CASE create # -1 /\ head <= tail
  <2>1. create \in head .. tail
    BY <1>3 DEF RingInv, Positions
  <2>2. InFirst
    BY <2>1, <1>3 DEF InFirst, First
  <2> QED
    BY <1>1, <2>2 DEF DoFlush, BufferFlushed
<1>4. CASE create # -1 /\ head > tail
  <2>1. create \in head .. last \/ create \in 0 .. tail
    BY <1>4, LogAssumption DEF RingInv, Positions
  <2>2. head \in Int /\ tail \in Int /\ ~ (head <= tail)
    BY <1>4, LogAssumption DEF RingInv, Positions
  <2>3. InFirst \/ InSecond
    BY <2>1, <2>2, <1>4 DEF InFirst, InSecond, First
  <2> QED
    BY <1>1, <2>3 DEF DoFlush, BufferFlushed
<1>5. head <= tail \/ head > tail
  BY LogAssumption DEF RingInv, Positions
<1> QED
  BY <1>2, <1>3, <1>4, <1>5

\* A flush of the running system keeps the invariant.
LEMMA FlushKeeps ==
    ASSUME RingInv, up, DoFlush, UNCHANGED <<tail, cur, record, restart>>
    PROVE  RingInv'
<1>1. head' = tail /\ last' = -1 /\ create' = -1 /\ tail' = tail
  BY FlushEmpties
<1>2. Positions'
  BY <1>1, LogAssumption DEF RingInv, Positions
<1>3. NextFileBuffered' /\ StoppedEmpty'
  BY <1>1 DEF NextFileBuffered, StoppedEmpty
<1>4. RecordFits'
  BY DEF RingInv, RecordFits
<1> QED
  BY <1>2, <1>3, <1>4 DEF RingInv

\* A record that is the first of its file marks the place in the ring.
LEMMA BeginWriteKeeps ==
    ASSUME RingInv, NEW n \in Sizes, BeginWrite(n)
    PROVE  RingInv'
<1>1. head' = head /\ tail' = tail /\ last' = last /\ up' /\ record'.len = n
  BY DEF BeginWrite, restart
<1>2. RecordFits' /\ StoppedEmpty'
  BY <1>1 DEF RecordFits, StoppedEmpty
<1>3. CASE cur.off >= FileSize
  <2>1. create' = tail /\ cur'.off = 0
    BY <1>3 DEF BeginWrite, LSN
  <2>2. Positions'
    BY <1>1, <2>1, LogAssumption DEF RingInv, Positions
  <2>3. NextFileBuffered'
    BY <1>1, <2>1, LogAssumption DEF RingInv, Positions, NextFileBuffered, NextFileUnits
  <2> QED
    BY <1>2, <2>2, <2>3 DEF RingInv
<1>4. CASE ~ (cur.off >= FileSize)
  <2>1. create' = create /\ cur' = cur
    BY <1>4 DEF BeginWrite
  <2>2. Positions'
    BY <1>1, <2>1 DEF RingInv, Positions
  <2>3. NextFileBuffered'
    BY <1>1, <2>1 DEF RingInv, NextFileBuffered, NextFileUnits
  <2> QED
    BY <1>2, <2>2, <2>3 DEF RingInv
<1> QED
  BY <1>3, <1>4

\* Going on at the beginning of the ring keeps its order: a change of file
\* that was pending lies behind head.
LEMMA WrapKeeps ==
    ASSUME RingInv, Wrap
    PROVE  RingInv'
<1>1. /\ head' = head /\ tail' = 0 /\ last' = tail /\ create' = create
      /\ cur' = cur /\ record' = record /\ up' = up /\ head <= tail
      /\ head = tail \/ head > 0
      /\ record # NoRecord /\ record.len >= BufSize - tail
  BY DEF Wrap, restart, NoRoomAtEnd
<1>2. record.len \in Int /\ record.len < BufSize
  BY <1>1, SizesFit DEF RingInv, RecordFits
<1>3. head \in 0 .. BufSize - 1 /\ tail \in 0 .. BufSize - 1 /\ BufSize \in Nat
  BY LogAssumption DEF RingInv, Positions
<1>4. head > 0
  BY <1>1, <1>2, <1>3
<1>5. Positions'
  BY <1>1, <1>3, <1>4 DEF RingInv, Positions
<1>6. NextFileBuffered'
  <2> SUFFICES ASSUME create # -1
               PROVE  cur.off = NextFileUnits'
    BY <1>1 DEF NextFileBuffered
  <2>1. create \in head .. tail /\ cur.off = tail - create
    BY <1>1 DEF RingInv, Positions, NextFileBuffered, NextFileUnits
  <2>2. ~ (head <= 0) /\ ~ (create <= 0) /\ tail - create + 0 = tail - create
    BY <1>3, <1>4, <2>1
  <2> QED
    BY <1>1, <2>1, <2>2 DEF NextFileUnits
<1>7. RecordFits' /\ StoppedEmpty'
  BY <1>1 DEF RingInv, RecordFits, StoppedEmpty
<1> QED
  BY <1>5, <1>6, <1>7 DEF RingInv

\* A record is copied only where it fits, and never up to head or the end.
LEMMA CopyKeeps ==
    ASSUME RingInv, Copy
    PROVE  RingInv'
<1>1. /\ head' = head /\ tail' = tail + record.len /\ last' = last
      /\ create' = create /\ cur'.off = cur.off + record.len
      /\ record' = NoRecord /\ up' /\ record # NoRecord
      /\ ~ (head > tail /\ record.len >= head - tail)
      /\ ~ (head <= tail /\ record.len >= BufSize - tail)
  BY DEF Copy, restart, NoRoom, NoRoomAtEnd, LSN
<1>2. record.len \in Int /\ 1 <= record.len
  BY <1>1, SizesFit DEF RingInv, RecordFits
<1>3. head \in 0 .. BufSize - 1 /\ tail \in 0 .. BufSize - 1 /\ BufSize \in Nat
  BY LogAssumption DEF RingInv, Positions
<1>4. CASE head <= tail
  <2>1. tail' \in 0 .. BufSize - 1 /\ head <= tail'
    BY <1>1, <1>2, <1>3, <1>4
  <2>2. Positions'
    BY <1>1, <1>2, <1>3, <1>4, <2>1 DEF RingInv, Positions
  <2>3. NextFileBuffered'
    <3> SUFFICES ASSUME create # -1
                 PROVE  cur'.off = NextFileUnits'
      BY <1>1 DEF NextFileBuffered
    <3>1. create \in head .. tail /\ cur.off = tail - create
      BY <1>4 DEF RingInv, Positions, NextFileBuffered, NextFileUnits
    <3>2. cur'.off = tail' - create
      BY <1>1, <1>2, <1>3, <3>1
    <3> QED
      BY <1>1, <2>1, <3>2 DEF NextFileUnits
  <2> QED
    BY <1>1, <2>2, <2>3 DEF RingInv, RecordFits, StoppedEmpty
<1>5. CASE head > tail
  <2>1. tail' \in 0 .. BufSize - 1 /\ head > tail' /\ ~ (head <= tail)
    BY <1>1, <1>2, <1>3, <1>5
  <2>2. Positions'
    BY <1>1, <1>2, <1>3, <1>5, <2>1 DEF RingInv, Positions
  <2>3. NextFileBuffered'
    <3> SUFFICES ASSUME create # -1
                 PROVE  cur'.off = NextFileUnits'
      BY <1>1 DEF NextFileBuffered
    <3>1. last \in head .. BufSize - 1 /\ (create \in head .. last \/ create \in 0 .. tail)
      BY <2>1, <1>5 DEF RingInv, Positions
    <3>2. ~ (head <= tail') /\ (create <= tail <=> create <= tail') /\ create \in Int
      BY <1>1, <1>2, <1>3, <2>1, <3>1
    <3>3. cur.off = NextFileUnits
      BY DEF RingInv, NextFileBuffered
    <3>4. cur.off = IF create <= tail THEN tail - create ELSE last - create + tail
      BY <3>3, <2>1 DEF NextFileUnits
    <3>5. cur'.off = IF create <= tail' THEN tail' - create ELSE last - create + tail'
      BY <1>1, <1>2, <1>3, <3>1, <3>2, <3>4
    <3> QED
      BY <1>1, <3>2, <3>5 DEF NextFileUnits
  <2> QED
    BY <1>1, <2>2, <2>3 DEF RingInv, RecordFits, StoppedEmpty
<1> QED
  BY <1>3, <1>4, <1>5

\* A crash empties the buffer, and a restart finds it empty.
LEMMA CrashKeeps ==
    ASSUME RingInv, NEW k, Crash(k)
    PROVE  RingInv'
<1>1. head' = 0 /\ tail' = 0 /\ last' = -1 /\ create' = -1 /\ record' = NoRecord
  BY DEF Crash
<1>2. Positions'
  BY <1>1, LogAssumption DEF Positions
<1> QED
  BY <1>1, <1>2 DEF RingInv, NextFileBuffered, RecordFits, StoppedEmpty

\* A restart leaves the buffer alone; nothing was pending in it.
LEMMA RestartKeeps ==
    ASSUME RingInv, Restart
    PROVE  RingInv'
<1>1. /\ head' = head /\ tail' = tail /\ last' = last /\ create' = create
      /\ record' = record /\ up' = TRUE /\ ~up
  BY DEF Restart, buffer
<1>2. create = -1
  BY <1>1 DEF RingInv, StoppedEmpty
<1>3. Positions'
  BY <1>1 DEF RingInv, Positions
<1> QED
  BY <1>1, <1>2, <1>3 DEF RingInv, NextFileBuffered, RecordFits, StoppedEmpty

\* A step that leaves buffer, record and the LSN of the next record alone.
LEMMA StutterKeeps ==
    ASSUME RingInv, UNCHANGED <<head, tail, last, create, cur, record, up>>
    PROVE  RingInv'
<1>1. Positions' /\ NextFileBuffered'
  BY DEF RingInv, Positions, NextFileBuffered, NextFileUnits
<1> QED
  BY <1>1 DEF RingInv, RecordFits, StoppedEmpty

\* Every step keeps the positions in order.
LEMMA RingStep == RingInv /\ [Next]_vars => RingInv'
<1> SUFFICES ASSUME RingInv, [Next]_vars
             PROVE  RingInv'
  OBVIOUS
<1>1. ASSUME NEW n \in Sizes, BeginWrite(n) PROVE RingInv'
  BY <1>1, BeginWriteKeeps
<1>2. CASE Wrap
  BY <1>2, WrapKeeps
<1>3. CASE FlushForRoom
  BY <1>3, FlushKeeps DEF FlushForRoom
<1>4. CASE Copy
  BY <1>4, CopyKeeps
<1>5. CASE Flush
  BY <1>5, FlushKeeps DEF Flush
<1>6. CASE Checkpoint
  BY <1>6, StutterKeeps DEF Checkpoint, buffer
<1>7. ASSUME NEW k \in 0 .. Len(FlushWrites), Crash(k) PROVE RingInv'
  BY <1>7, CrashKeeps
<1>8. CASE Restart
  BY <1>8, RestartKeeps
<1>9. CASE UNCHANGED vars
  BY <1>9, StutterKeeps DEF vars, buffer, restart
<1> QED
  BY <1>1, <1>2, <1>3, <1>4, <1>5, <1>6, <1>7, <1>8, <1>9 DEF Next, WriteStep

-----------------------------------------------------------------------------

\* The positions of the ring of LogBuffer_WriteLogRecord and LogBuffer_Flush
\* stay in order, and a pending change of file has its whole file in the ring.
THEOREM RingInvariant == Spec => []RingInv
BY RingInit, RingStep, PTL DEF Spec

\* LogBuffer_Flush never meets positions it refuses to work with.
THEOREM FlushesNotRefused == Spec => []NeverRefused
<1>1. RingInv => NeverRefused
  <2> SUFFICES ASSUME RingInv, FlushRefused
               PROVE  FALSE
    BY DEF NeverRefused
  <2>1. head \in Int /\ tail \in Int /\ head > tail /\ head >= 0
    BY LogAssumption DEF RingInv, Positions, FlushRefused
  <2>2. last \in Int /\ last >= head
    BY <2>1, LogAssumption DEF RingInv, Positions
  <2>3. create # -1 => create <= last
    BY <2>1, <2>2 DEF RingInv, Positions
  <2>4. create # -1 => create \in Int
    BY <2>1, <2>2 DEF RingInv, Positions
  <2> QED
    BY <2>1, <2>2, <2>3, <2>4 DEF FlushRefused
<1> QED
  BY <1>1, RingInvariant, PTL

\* When a log file is full, the change to it has been flushed already, so
\* logbuf_set_logfilecreate never fails.
THEOREM WritesNotRefused == Spec => []OneChangePending
<1>1. RingInv => OneChangePending
  <2> SUFFICES ASSUME RingInv, cur.off >= FileSize, create # -1
               PROVE  FALSE
    BY DEF OneChangePending
  <2>1. /\ head \in 0 .. BufSize - 1 /\ tail \in 0 .. BufSize - 1
        /\ BufSize \in Nat /\ FileSize \in Nat /\ BufSize <= FileSize
    BY LogAssumption DEF RingInv, Positions
  <2>2. cur.off = NextFileUnits
    BY DEF RingInv, NextFileBuffered
  <2>3. CASE head <= tail
    <3>1. create \in head .. tail /\ cur.off = tail - create
      BY <2>2, <2>3 DEF RingInv, Positions, NextFileUnits
    <3> QED
      BY <2>1, <3>1
  <2>4. CASE head > tail
    <3>1. last \in head .. BufSize - 1 /\ (create \in head .. last \/ create \in 0 .. tail)
      BY <2>1, <2>4 DEF RingInv, Positions
    <3>2. cur.off = IF create <= tail THEN tail - create ELSE last - create + tail
      BY <2>1, <2>2, <2>4 DEF NextFileUnits
    <3> QED
      BY <2>1, <2>4, <3>1, <3>2
  <2> QED
    BY <2>1, <2>3, <2>4
<1> QED
  BY <1>1, RingInvariant, PTL

\* A non-empty set of natural numbers has a least element.
LEMMA LeastNat ==
    ASSUME NEW T, T \subseteq Nat, T # {}
    PROVE  \E x \in T : \A y \in T : x <= y
<1>1. PICK x \in T : \A y \in T : ~ (<<y, x>> \in OpToRel(<, Nat))
  BY NatLessThanWellFounded, WFMin, Zenon
<1>2. \A y \in T : <<y, x>> \in OpToRel(<, Nat) <=> y < x
  BY Zenon DEF OpToRel
<1>3. \A y \in T : ~(y < x)
  BY <1>1, <1>2, Zenon
<1>4. \A y \in T : y \in Nat /\ x \in Nat
  BY Zenon
<1> QED
  BY <1>3, <1>4, SMT

\* A non-empty and bounded set of natural numbers has a greatest element.
LEMMA GreatestNat ==
    ASSUME NEW S, S \subseteq Nat, S # {}, NEW b \in Nat, \A x \in S : x <= b
    PROVE  \E x \in S : \A y \in S : y <= x
<1> DEFINE T == {b - x : x \in S}
<1>1. \A x \in S : x \in Nat /\ b - x \in Nat
  OBVIOUS
<1>2. T \subseteq Nat /\ T # {}
  BY <1>1, Zenon
<1>3. \E y \in T : \A z \in T : y <= z
  <2> HIDE DEF T
  <2> QED BY <1>2, LeastNat, Zenon
<1>4. PICK x \in S : \A z \in S : b - x <= b - z
  BY <1>3
<1>5. \A z \in S : z <= x
  BY <1>1, <1>4
<1> QED
  BY <1>5

-----------------------------------------------------------------------------
(* The places of the log *)

\* The LSNs of log files 1 to A, and their order.
Places(A) == [no : 1 .. A, off : Offset]
Before(l, m) == l.no < m.no \/ (l.no = m.no /\ l.off < m.off)

\* The number of places from l to the end of file A, or more.
Rank(A, l) == (A - l.no) * (FileSize + BufSize + 1) + (FileSize + BufSize - l.off)

\* It falls from place to place.
LEMMA RankFalls ==
    ASSUME NEW A \in Nat, NEW l \in Places(A)
    PROVE  /\ Rank(A, l) \in Nat
           /\ \A m \in Places(A) : Before(l, m) => Rank(A, m) < Rank(A, l)
<1> DEFINE K == FileSize + BufSize + 1
<1>1. K \in Nat /\ K > 0 /\ FileSize + BufSize = K - 1 /\ Offset = 0 .. K - 1
  BY LogAssumption DEF Offset
<1>0. FileSize + BufSize + 1 = K
  OBVIOUS
<1> HIDE DEF K
<1>2. \A a, b \in Nat : a < b => a * K + K <= b * K
  <2> TAKE a, b \in Nat
  <2>1. (b - a - 1) * K = b * K - a * K - K
    BY <1>1
  <2>2. a < b => (b - a - 1) * K >= 0
    BY <1>1
  <2> QED
    BY <1>1, <2>1, <2>2
<1>3. \A m \in Places(A) : A - m.no \in Nat /\ m.no \in Int /\ m.off \in 0 .. K - 1
  BY <1>1 DEF Places
<1>4. \A m \in Places(A) : Rank(A, m) = (A - m.no) * K + (K - 1 - m.off)
  <2> TAKE m \in Places(A)
  <2>1. (A - m.no) * (FileSize + BufSize + 1) = (A - m.no) * K
    BY <1>0, Zenon
  <2>2. FileSize + BufSize - m.off = K - 1 - m.off
    BY <1>1, <1>3, LogAssumption, SMTT(60)
  <2>3. Rank(A, m) = (A - m.no) * (FileSize + BufSize + 1) + (FileSize + BufSize - m.off)
    BY Zenon DEF Rank
  <2> QED
    BY <2>1, <2>2, <2>3, Zenon
<1>5. \A a \in Nat : a * K \in Nat
  BY <1>1
<1>6. \A m \in Places(A) : (A - m.no) * K \in Nat
  BY <1>3, <1>5
<1>9. \A p, q \in Nat : \A x, y \in 0 .. K - 1 :
        (p + K <= q \/ (p = q /\ x < y)) => p + (K - 1 - y) < q + (K - 1 - x)
  BY <1>1
<1>7. ASSUME NEW m \in Places(A), Before(l, m)
      PROVE  Rank(A, m) < Rank(A, l)
  <2>1. CASE l.no < m.no
    <3>1. A - m.no < A - l.no
      BY <2>1, <1>3
    <3>2. (A - m.no) * K + K <= (A - l.no) * K
      BY <1>2, <1>3, <3>1
    <3> QED
      BY <3>2, <1>3, <1>4, <1>6, <1>9, Zenon
  <2>2. CASE l.no = m.no /\ l.off < m.off
    <3>1. (A - m.no) * K = (A - l.no) * K
      BY <2>2
    <3> QED
      BY <3>1, <2>2, <1>3, <1>4, <1>6, <1>9, Zenon
  <2> QED
    BY <1>7, <2>1, <2>2 DEF Before
<1>8. Rank(A, l) \in Nat
  BY <1>1, <1>3, <1>4, <1>6, SMTT(60)
<1> QED
  BY <1>7, <1>8

\* What holds of a place when it holds of all that follow holds everywhere.
LEMMA PlaceInduction ==
    ASSUME NEW A \in Nat, NEW T,
           \A l \in Places(A) : (\A m \in Places(A) : Before(l, m) => m \in T) => l \in T
    PROVE  Places(A) \subseteq T
<1> DEFINE Bad == Places(A) \ T
           R == {Rank(A, l) : l \in Bad}
<1> SUFFICES ASSUME Bad # {} PROVE FALSE
  OBVIOUS
<1>1. R \subseteq Nat /\ R # {}
  BY RankFalls
<1>2. PICK x \in R : \A y \in R : x <= y
  <2> HIDE DEF R
  <2> QED
    BY <1>1, LeastNat, Zenon
<1>3. PICK l \in Bad : \A m \in Bad : Rank(A, l) <= Rank(A, m)
  BY <1>2
<1>4. \A m \in Places(A) : Before(l, m) => m \in T
  <2> TAKE m \in Places(A)
  <2>1. Before(l, m) => Rank(A, m) < Rank(A, l)
    BY RankFalls
  <2>2. Rank(A, m) \in Nat /\ Rank(A, l) \in Nat
    BY RankFalls
  <2>3. m \in Bad => Rank(A, l) <= Rank(A, m)
    BY <1>3
  <2> HIDE DEF Bad, R
  <2>4. m \in Bad => ~Before(l, m)
    BY <2>1, <2>2, <2>3
  <2> QED
    BY <2>4 DEF Bad
<1> QED
  BY <1>4

\* A recursive definition of a function on the places with values in V: at
\* the places of S the value is val, elsewhere G, applied to the value next.
RecursionBy(A, V, S, val, next, G) ==
    /\ A \in Nat /\ val \in [Places(A) -> V] /\ G \in [Places(A) -> [V -> V]]
    /\ \A l \in Places(A) \ S : next[l] \in Places(A) /\ Before(l, next[l])

\* There is such a function.
LEMMA PlaceRecursion ==
    ASSUME NEW A, NEW V, NEW S, NEW val, NEW next, NEW G,
           RecursionBy(A, V, S, val, next, G)
    PROVE  \E f \in [Places(A) -> V] : \A l \in Places(A) :
              f[l] = IF l \in S THEN val[l] ELSE G[l][f[next[l]]]
<1> USE DEF RecursionBy
<1> DEFINE Step(f, l) == IF l \in S THEN val[l] ELSE G[l][f[next[l]]]
           Ok(f, k) == \A l \in Places(A) : Rank(A, l) < k => f[l] = Step(f, l)
           T == {k \in Nat : \E f \in [Places(A) -> V] : Ok(f, k)}
<1>1. ASSUME NEW f \in [Places(A) -> V], NEW l \in Places(A) PROVE Step(f, l) \in V
  OBVIOUS
<1>2. 0 \in T
  <2>1. Ok(val, 0)
    BY RankFalls
  <2> HIDE DEF Ok
  <2> QED
    BY <2>1
<1>3. ASSUME NEW k \in T PROVE k + 1 \in T
  <2>1. PICK f \in [Places(A) -> V] : Ok(f, k)
    BY <1>3
  <2> DEFINE g == [l \in Places(A) |-> IF Rank(A, l) < k THEN f[l] ELSE Step(f, l)]
  <2>2. g \in [Places(A) -> V]
    <3> HIDE DEF Step
    <3> QED
      BY <1>1
  <2>3. ASSUME NEW l \in Places(A), Rank(A, l) < k + 1
        PROVE  g[l] = Step(g, l)
    <3>1. g[l] = Step(f, l)
      <4> HIDE DEF Step
      <4> QED
        BY <2>1
    <3>2. CASE l \in S
      BY <3>1, <3>2
    <3>3. CASE l \notin S
      <4>1. next[l] \in Places(A) /\ Rank(A, next[l]) < Rank(A, l)
        BY <3>3, RankFalls
      <4>2. Rank(A, next[l]) \in Nat /\ Rank(A, l) \in Nat /\ k \in Nat
        BY <4>1, RankFalls
      <4>3. Rank(A, next[l]) < k
        BY <2>3, <4>1, <4>2
      <4>4. g[next[l]] = f[next[l]]
        BY <4>1, <4>3
      <4> HIDE DEF g
      <4> QED
        BY <3>1, <3>3, <4>4
    <3> QED
      BY <3>2, <3>3
  <2>4. Ok(g, k + 1) /\ k + 1 \in Nat
    <3> HIDE DEF Step, g
    <3> QED
      BY <2>3
  <2> HIDE DEF Ok, g
  <2> QED
    BY <2>2, <2>4
<1>4. T = Nat
  <2> DEFINE Bad == Nat \ T
  <2> HIDE DEF T
  <2>1. SUFFICES ASSUME Bad # {} PROVE FALSE
    BY DEF T
  <2>2. PICK x \in Bad : \A y \in Bad : x <= y
    BY <2>1, LeastNat, Zenon
  <2>3. x \in Nat /\ x # 0 /\ x \notin T
    BY <1>2, <2>2
  <2>4. x - 1 \in Nat /\ ~(x <= x - 1)
    BY <2>3
  <2>5. x - 1 \in T
    BY <2>2, <2>4
  <2>6. (x - 1) + 1 \in T
    BY <1>3, <2>5, Zenon
  <2>7. (x - 1) + 1 = x
    BY <2>3
  <2> QED
    BY <2>3, <2>6, <2>7
<1> DEFINE b == A * (FileSize + BufSize + 1) + FileSize + BufSize + 1
<1>5. b \in Nat /\ \A l \in Places(A) : Rank(A, l) < b
  <2> DEFINE K == FileSize + BufSize + 1
  <2>1. K \in Nat /\ Offset = 0 .. K - 1
    BY LogAssumption DEF Offset
  <2>2. \A n \in 1 .. A : (A - n) * K = A * K - n * K /\ n * K \in Nat
    <3> HIDE DEF K
    <3> QED
      BY <2>1
  <2>3. ASSUME NEW l \in Places(A) PROVE Rank(A, l) < A * K + K
    <3>1. l.no \in 1 .. A /\ l.off \in 0 .. K - 1
      BY <2>1, <2>3 DEF Places
    <3>2. Rank(A, l) = (A - l.no) * K + (K - 1 - l.off)
      BY LogAssumption, <3>1 DEF Rank
    <3>3. (A - l.no) * K = A * K - l.no * K /\ l.no * K \in Nat
      BY <2>2, <3>1
    <3>4. A * K \in Nat
      <4> HIDE DEF K
      <4> QED
        BY <2>1
    <3> HIDE DEF K
    <3> QED
      BY <2>1, <3>1, <3>2, <3>3, <3>4, SMTT(60)
  <2>4. A * K \in Nat
    <3> HIDE DEF K
    <3> QED
      BY <2>1
  <2>5. b = A * K + K
    <3>1. FileSize \in Nat /\ BufSize \in Nat
      BY LogAssumption
    <3> QED
      BY <3>1, <2>4
  <2> HIDE DEF K, b
  <2> QED
    BY <2>1, <2>3, <2>4, <2>5
<1>6. PICK f \in [Places(A) -> V] : Ok(f, b)
  <2>1. b \in T
    <3> HIDE DEF T, b
    <3> QED
      BY <1>4, <1>5
  <2> HIDE DEF Ok, b
  <2> QED
    BY <2>1
<1>7. \A l \in Places(A) : f[l] = Step(f, l)
  <2> HIDE DEF b, Step
  <2> QED
    BY <1>5, <1>6
<1> QED
  BY <1>7

-----------------------------------------------------------------------------
(* What is on disk, and what a scan of it finds *)

\* The records of runs up to L, and the cells that can hold their units.
Recs(L) == {r \in Rec : r.lsn.off < FileSize /\ r.life <= L}
Cells(L) == [rec : Recs(L) \cup {NoRecord}, part : 0 .. BufSize]

Files(dk, A, L) ==
    /\ dk \in [1 .. MaxFile + 1 -> [Offset -> Cells(L)]]
    /\ A \in 1 .. MaxFile + 1

\* A whole record, and the end-of-log mark.
RecordAt(dk, l) ==
    LET r == dk[l.no][l.off].rec
    IN  r.lsn = l /\ \A k \in 1 .. r.len : dk[l.no][l.off + k - 1] = Unit(r, k)
EndAt(dk, l) == dk[l.no][l.off] = EOL

\* The LSNs that follow.
AfterRecord(dk, l) == LSN(l.no, l.off + dk[l.no][l.off].rec.len)
NextFile(l) == LSN(l.no + 1, 0)

Errors == {"mismatch", "checksum", "crash"}
Results(A, L) ==
    [recs : Seq(Recs(L)), at : Places(A), verdict : Errors \cup {"end"}]

\* What stands for no record is not one.
LEMMA NoRecordIsNone == NoRecord \notin Rec
<1>1. NoRecord.life = 0
  BY DEF NoRecord
<1>2. \A r \in Rec : r.life \in 1 .. MaxLife
  BY DEF Rec
<1>3. 0 \notin 1 .. MaxLife
  BY LogAssumption
<1> QED
  BY <1>1, <1>2, <1>3

\* The cell at a place.
LEMMA CellAt ==
    ASSUME NEW dk, NEW A, NEW L, Files(dk, A, L), NEW l \in Places(A)
    PROVE  /\ l \in LSNs /\ l = LSN(l.no, l.off) /\ l # NoLSN
           /\ dk[l.no][l.off] \in Cells(L)
           /\ dk[l.no][l.off].rec \in Recs(L) \cup {NoRecord}
           /\ dk[l.no][l.off].rec.lsn = l => dk[l.no][l.off].rec \in Recs(L)
<1>1. MaxFile \in Nat
  BY LogAssumption
<1>2. l.no \in 1 .. A /\ l.off \in Offset /\ l = [no |-> l.no, off |-> l.off]
  BY DEF Places
<1>3. l.no \in 1 .. MaxFile + 1 /\ l.no \in 0 .. MaxFile + 2 /\ l.no # 0
  BY <1>1, <1>2 DEF Files
<1>4. l \in LSNs /\ l = LSN(l.no, l.off) /\ l # NoLSN
  <2>1. NoLSN.no = 0
    BY DEF NoLSN, LSN
  <2> QED
    BY <1>2, <1>3, <2>1 DEF LSNs, LSN
<1>5. dk[l.no][l.off] \in Cells(L)
  BY <1>2, <1>3 DEF Files
<1>6. dk[l.no][l.off].rec \in Recs(L) \cup {NoRecord}
  BY <1>5 DEF Cells
<1>7. NoRecord.lsn = NoLSN
  BY DEF NoRecord
<1> QED
  BY <1>4, <1>5, <1>6, <1>7

\* A record ends within its file.
LEMMA RecordEnds ==
    ASSUME NEW dk, NEW A, NEW L, Files(dk, A, L), NEW l \in Places(A), RecordAt(dk, l)
    PROVE  /\ dk[l.no][l.off].rec \in Recs(L)
           /\ dk[l.no][l.off].rec.len \in 1 .. BufSize - 1
           /\ AfterRecord(dk, l) \in Places(A)
           /\ Before(l, AfterRecord(dk, l))
           /\ ~EndAt(dk, l)
<1> DEFINE r == dk[l.no][l.off].rec
<1>1. r.lsn = l /\ r \in Recs(L)
  BY CellAt DEF RecordAt
<1>2. r.len \in 1 .. BufSize - 1 /\ l.off < FileSize
  BY <1>1, LogAssumption, Zenon DEF Recs, Rec
<1>3. l.no \in 1 .. A /\ l.off \in Offset
  BY DEF Places
<1>4. l.off + r.len \in Offset /\ l.off < l.off + r.len
  BY <1>2, <1>3, LogAssumption DEF Offset
<1>5. AfterRecord(dk, l) = [no |-> l.no, off |-> l.off + r.len]
  BY DEF AfterRecord, LSN
<1>6. AfterRecord(dk, l) \in Places(A) /\ Before(l, AfterRecord(dk, l))
  <2> HIDE DEF r
  <2> QED
    BY <1>3, <1>4, <1>5 DEF Places, Before
<1>7. ~EndAt(dk, l)
  <2>1. EOL.rec = NoRecord
    BY DEF EOL, Unit
  <2>2. r # NoRecord
    BY <1>1, NoRecordIsNone DEF Recs
  <2> QED
    BY <2>1, <2>2 DEF EndAt
<1> QED
  BY <1>1, <1>2, <1>6, <1>7

\* The next file begins behind all places of this one.
LEMMA NextFileFollows ==
    ASSUME NEW A \in Nat, NEW l \in Places(A), l.no # A
    PROVE  NextFile(l) \in Places(A) /\ Before(l, NextFile(l))
<1>1. l.no \in 1 .. A /\ 0 \in Offset
  BY LogAssumption DEF Places, Offset
<1>2. l.no + 1 \in 1 .. A
  BY <1>1
<1> QED
  BY <1>1, <1>2 DEF Places, NextFile, LSN, Before

\* What LogFile_Redo makes of the bytes at a place.
LEMMA VerdictIs ==
    ASSUME NEW L, Files(disk, anchor.no, L), NEW l \in Places(anchor.no)
    PROVE  /\ EndAt(disk, l) => Verdict(l) = "end"
           /\ RecordAt(disk, l) => Verdict(l) = "record"
           /\ ~EndAt(disk, l) /\ ~RecordAt(disk, l) => Verdict(l) \in Errors
<1> DEFINE c == disk[l.no][l.off]
           r == c.rec
           whole == \A k \in 1 .. r.len : disk[l.no][l.off + k - 1] = Unit(r, k)
           end == disk[l.no][l.off + r.len - 1]
           cut == end.rec # NoRecord /\ end.part = end.rec.len
<1>1. Verdict(l) = CASE c = EOL -> "end"
                     [] c # EOL /\ (c.part # 1 \/ r.lsn # l) -> "mismatch"
                     [] c.part = 1 /\ r.lsn = l ->
                          IF whole THEN "record" ELSE IF cut THEN "checksum" ELSE "crash"
  BY DEF Verdict
<1>2. c = EOL => r.lsn # l
  <2>1. EOL.rec = NoRecord
    BY DEF EOL, Unit
  <2>2. r.lsn = l => r \in Recs(L)
    BY CellAt
  <2> QED
    BY <2>1, <2>2, NoRecordIsNone DEF Recs
<1>3. RecordAt(disk, l) => c.part = 1
  <2> SUFFICES ASSUME RecordAt(disk, l) PROVE c.part = 1
    OBVIOUS
  <2>1. r.len \in 1 .. BufSize - 1
    BY RecordEnds
  <2>2. disk[l.no][l.off + 1 - 1] = Unit(r, 1)
    BY <2>1 DEF RecordAt
  <2>3. l.off + 1 - 1 = l.off
    BY DEF Places, Offset
  <2> QED
    BY <2>2, <2>3 DEF Unit
<1>4. RecordAt(disk, l) <=> r.lsn = l /\ whole
  BY DEF RecordAt
<1>5. EndAt(disk, l) <=> c = EOL
  BY DEF EndAt
<1> HIDE DEF c, r, whole, cut
<1>6. CASE EndAt(disk, l)
  BY <1>1, <1>2, <1>4, <1>5, <1>6
<1>7. CASE ~EndAt(disk, l) /\ (c.part # 1 \/ r.lsn # l)
  BY <1>1, <1>3, <1>4, <1>5, <1>7 DEF Errors
<1>8. CASE ~EndAt(disk, l) /\ c.part = 1 /\ r.lsn = l
  BY <1>1, <1>4, <1>5, <1>8 DEF Errors
<1> QED
  BY <1>6, <1>7, <1>8

\* What the scan makes of a place, given the result of what follows.
Stop(l, v) == [recs |-> << >>, at |-> l, verdict |-> v]
AddRecord(r, res) == [res EXCEPT !.recs = <<r>> \o @]

ScanEquation(h, to) ==
    \A l \in Places(anchor.no) :
        h[l] = IF l = to \/ (Verdict(l) = "end" /\ l.no = anchor.no) THEN Stop(l, "end")
               ELSE IF Verdict(l) = "end" THEN h[NextFile(l)]
               ELSE IF Verdict(l) = "record"
               THEN AddRecord(disk[l.no][l.off].rec, h[AfterRecord(disk, l)])
               ELSE Stop(l, Verdict(l))

\* The recursive definition of the scan has a solution, so Scan is one.
LEMMA ScanSolves ==
    ASSUME NEW L, Files(disk, anchor.no, L), NEW to
    PROVE  \E h \in [Places(anchor.no) -> Results(anchor.no, L)] :
              ScanEquation(h, to) /\ \A l \in Places(anchor.no) : Scan(l, to) = h[l]
<1> DEFINE A == anchor.no
           V == Results(A, L)
           Ends(l) == l = to \/ (EndAt(disk, l) /\ l.no = A)
                      \/ (~EndAt(disk, l) /\ ~RecordAt(disk, l))
           S == {l \in Places(A) : Ends(l)}
           val == [l \in Places(A) |->
                     Stop(l, IF l = to \/ EndAt(disk, l) \/ RecordAt(disk, l)
                             THEN "end" ELSE Verdict(l))]
           next == [l \in Places(A) |->
                      IF EndAt(disk, l) THEN NextFile(l) ELSE AfterRecord(disk, l)]
           G == [l \in Places(A) |-> [v \in V |->
                   IF RecordAt(disk, l) THEN AddRecord(disk[l.no][l.off].rec, v) ELSE v]]
<1>1. A \in Nat
  BY LogAssumption DEF Files
<1>2. val \in [Places(A) -> V]
  <2>1. ASSUME NEW l \in Places(A), NEW v \in Errors \cup {"end"} PROVE Stop(l, v) \in V
    <3>1. << >> \in Seq(Recs(L))
      OBVIOUS
    <3> QED
      BY <3>1, <2>1 DEF Stop, Results
  <2>2. \A l \in Places(A) : l = to \/ EndAt(disk, l) \/ RecordAt(disk, l) \/ Verdict(l) \in Errors
    BY VerdictIs
  <2> HIDE DEF V
  <2> QED
    BY <2>1, <2>2
<1>3. \A l \in Places(A) \ S : next[l] \in Places(A) /\ Before(l, next[l])
  <2> TAKE l \in Places(A) \ S
  <2>1. l \in Places(A) /\ l # to
    OBVIOUS
  <2>2. CASE EndAt(disk, l)
    <3>1. l.no # A /\ next[l] = NextFile(l)
      BY <2>2
    <3> QED
      BY <3>1, <2>1, <1>1, NextFileFollows
  <2>3. CASE ~EndAt(disk, l)
    <3>1. RecordAt(disk, l) /\ next[l] = AfterRecord(disk, l)
      BY <2>3
    <3> QED
      BY <3>1, <2>1, RecordEnds
  <2> QED
    BY <2>2, <2>3
<1>4. G \in [Places(A) -> [V -> V]]
  <2>1. ASSUME NEW l \in Places(A), NEW v \in V, RecordAt(disk, l)
        PROVE  AddRecord(disk[l.no][l.off].rec, v) \in V
    <3> DEFINE r == disk[l.no][l.off].rec
    <3>1. r \in Recs(L)
      BY <2>1, RecordEnds
    <3>2. v.recs \in Seq(Recs(L)) /\ v.at \in Places(A) /\ v.verdict \in Errors \cup {"end"}
          /\ v = [recs |-> v.recs, at |-> v.at, verdict |-> v.verdict]
      BY DEF Results
    <3>3. <<r>> \o v.recs \in Seq(Recs(L))
      BY <3>1, <3>2
    <3>4. AddRecord(r, v) = [recs |-> <<r>> \o v.recs, at |-> v.at, verdict |-> v.verdict]
      <4>1. PICK w : w = <<r>> \o v.recs
        BY Zenon
      <4>2. AddRecord(r, v) = [v EXCEPT !.recs = w]
        BY <4>1, Zenon DEF AddRecord
      <4>3. [v EXCEPT !.recs = w] = [recs |-> w, at |-> v.at, verdict |-> v.verdict]
        BY <3>2
      <4> QED
        BY <4>1, <4>2, <4>3, Zenon
    <3> QED
      BY <3>2, <3>3, <3>4 DEF Results
  <2> HIDE DEF V
  <2> QED
    BY <2>1
<1>5. PICK h \in [Places(A) -> V] : \A l \in Places(A) :
         h[l] = IF l \in S THEN val[l] ELSE G[l][h[next[l]]]
  <2> HIDE DEF A, V, S, val, next, G
  <2>1. RecursionBy(A, V, S, val, next, G)
    BY <1>1, <1>2, <1>3, <1>4 DEF RecursionBy
  <2> QED
    BY <2>1, PlaceRecursion
<1>6. ScanEquation(h, to)
  <2> SUFFICES ASSUME NEW l \in Places(A)
               PROVE
        h[l] = IF l = to \/ (Verdict(l) = "end" /\ l.no = anchor.no) THEN Stop(l, "end")
               ELSE IF Verdict(l) = "end" THEN h[NextFile(l)]
               ELSE IF Verdict(l) = "record"
               THEN AddRecord(disk[l.no][l.off].rec, h[AfterRecord(disk, l)])
               ELSE Stop(l, Verdict(l))
    BY DEF ScanEquation
  <2>0. /\ EndAt(disk, l) => Verdict(l) = "end"
        /\ RecordAt(disk, l) => Verdict(l) = "record" /\ ~EndAt(disk, l)
        /\ ~EndAt(disk, l) /\ ~RecordAt(disk, l) => Verdict(l) \in Errors
    BY VerdictIs, RecordEnds
  <2>1. CASE l = to
    <3>1. h[l] = Stop(l, "end")
      BY <1>5, <2>1, Zenon
    <3> QED
      BY <3>1, <2>1
  <2>2. CASE l # to /\ EndAt(disk, l)
    <3>1. CASE l.no = A
      <4>1. h[l] = Stop(l, "end")
        BY <1>5, <2>2, <3>1, Zenon
      <4> QED
        BY <4>1, <2>0, <2>2, <3>1
    <3>2. CASE l.no # A
      <4>1. l \notin S /\ next[l] = NextFile(l) /\ next[l] \in Places(A)
        BY <2>2, <3>2, <1>1, NextFileFollows
      <4>2. h[l] = G[l][h[next[l]]] /\ h[next[l]] \in V
        BY <1>5, <4>1, Zenon
      <4>3. h[l] = h[NextFile(l)]
        <5> HIDE DEF V, S, next
        <5> QED
          BY <2>0, <2>2, <4>1, <4>2
      <4> QED
        BY <4>3, <2>0, <2>2, <3>2
    <3> QED
      BY <3>1, <3>2
  <2>3. CASE l # to /\ RecordAt(disk, l)
    <3>1. l \notin S /\ next[l] = AfterRecord(disk, l) /\ next[l] \in Places(A)
      BY <2>0, <2>3, <1>1, RecordEnds
    <3>2. h[l] = G[l][h[next[l]]] /\ h[next[l]] \in V
      BY <1>5, <3>1
    <3>3. h[l] = AddRecord(disk[l.no][l.off].rec, h[AfterRecord(disk, l)])
      <4> HIDE DEF V, S, next
      <4> QED
        BY <2>0, <2>3, <3>1, <3>2
    <3> QED
      BY <3>3, <2>0, <2>3
  <2>4. CASE l # to /\ ~EndAt(disk, l) /\ ~RecordAt(disk, l)
    <3>1. h[l] = Stop(l, Verdict(l))
      BY <1>5, <2>4, Zenon
    <3>2. Verdict(l) # "end" /\ Verdict(l) # "record"
      BY <2>0, <2>4 DEF Errors
    <3> QED
      BY <3>1, <3>2, <2>4
  <2> QED
    BY <2>1, <2>2, <2>3, <2>4
<1> HIDE DEF A, V, S, val, next, G
<1> DEFINE Solves(g) == g = [l \in [no : 1 .. anchor.no, off : Offset] |->
              IF l = to \/ (Verdict(l) = "end" /\ l.no = anchor.no)
              THEN [recs |-> << >>, at |-> l, verdict |-> "end"]
              ELSE IF Verdict(l) = "end" THEN g[LSN(l.no + 1, 0)]
              ELSE IF Verdict(l) = "record"
              THEN [g[LSN(l.no, l.off + disk[l.no][l.off].rec.len)]
                      EXCEPT !.recs = <<disk[l.no][l.off].rec>> \o @]
              ELSE [recs |-> << >>, at |-> l, verdict |-> Verdict(l)]]
<1>7. Solves(h)
  <2>1. ScanEquation(h, to) => Solves(h)
    BY DEF ScanEquation, Places, Stop, AddRecord, NextFile, AfterRecord, A, V
  <2> QED
    BY <2>1, <1>6
<1>8. Solves(CHOOSE g : Solves(g))
  <2> HIDE DEF Solves
  <2> QED
    BY <1>7
<1> DEFINE f == CHOOSE g : Solves(g)
<1>9. \A l : Scan(l, to) = f[l]
  BY DEF Scan
<1> HIDE DEF f
<1>10. ScanEquation(f, to) /\ f = [l \in Places(A) |-> f[l]]
  <2> DEFINE F == [l \in Places(A) |->
              IF l = to \/ (Verdict(l) = "end" /\ l.no = anchor.no)
              THEN [recs |-> << >>, at |-> l, verdict |-> "end"]
              ELSE IF Verdict(l) = "end" THEN f[LSN(l.no + 1, 0)]
              ELSE IF Verdict(l) = "record"
              THEN [f[LSN(l.no, l.off + disk[l.no][l.off].rec.len)]
                      EXCEPT !.recs = <<disk[l.no][l.off].rec>> \o @]
              ELSE [recs |-> << >>, at |-> l, verdict |-> Verdict(l)]]
  <2>1. f = F
    BY <1>8 DEF f, Places, A
  <2>2. F = [l \in Places(A) |-> F[l]]
    OBVIOUS
  <2>3. \A l \in Places(A) : F[l] =
           IF l = to \/ (Verdict(l) = "end" /\ l.no = anchor.no) THEN Stop(l, "end")
               ELSE IF Verdict(l) = "end" THEN f[NextFile(l)]
               ELSE IF Verdict(l) = "record"
               THEN AddRecord(disk[l.no][l.off].rec, f[AfterRecord(disk, l)])
               ELSE Stop(l, Verdict(l))
    BY DEF Stop, AddRecord, NextFile, AfterRecord
  <2> HIDE DEF F
  <2> QED
    BY <2>1, <2>2, <2>3 DEF ScanEquation, A
<1> DEFINE T == {l \in Places(A) : f[l] = h[l]}
<1>11. ASSUME NEW l \in Places(A), \A m \in Places(A) : Before(l, m) => m \in T
       PROVE  l \in T
  <2>1. CASE l = to \/ (Verdict(l) = "end" /\ l.no = anchor.no)
             \/ (Verdict(l) # "end" /\ Verdict(l) # "record")
    BY <2>1, <1>6, <1>10, Zenon DEF ScanEquation, A
  <2>2. CASE l # to /\ Verdict(l) = "end" /\ l.no # anchor.no
    <3>1. NextFile(l) \in T
      BY <2>2, <1>1, <1>11, NextFileFollows DEF A
    <3> QED
      BY <3>1, <2>2, <1>6, <1>10 DEF ScanEquation, A
  <2>3. CASE l # to /\ Verdict(l) = "record"
    <3>1. RecordAt(disk, l)
      BY <2>3, VerdictIs DEF Errors, A
    <3>2. AfterRecord(disk, l) \in T
      BY <3>1, <1>11, RecordEnds DEF A
    <3> QED
      BY <3>2, <2>3, <1>6, <1>10, SMTT(60) DEF ScanEquation, A
  <2> QED
    BY <2>1, <2>2, <2>3
<1>12. Places(A) \subseteq T
  <2> HIDE DEF T
  <2> QED
    BY <1>1, <1>11, PlaceInduction
<1>13. \A l \in Places(A) : f[l] = h[l]
  BY <1>12
<1> QED
  BY <1>5, <1>6, <1>9, <1>13 DEF A, V

\* The scan, unfolded.
LEMMA ScanAt ==
    ASSUME NEW L, Files(disk, anchor.no, L), NEW to, NEW l \in Places(anchor.no)
    PROVE  /\ Scan(l, to) \in Results(anchor.no, L)
           /\ l = to \/ (EndAt(disk, l) /\ l.no = anchor.no) => Scan(l, to) = Stop(l, "end")
           /\ l # to /\ EndAt(disk, l) /\ l.no # anchor.no => Scan(l, to) = Scan(NextFile(l), to)
           /\ l # to /\ RecordAt(disk, l) =>
                Scan(l, to) = AddRecord(disk[l.no][l.off].rec, Scan(AfterRecord(disk, l), to))
           /\ l # to /\ ~EndAt(disk, l) /\ ~RecordAt(disk, l) => Scan(l, to).verdict \in Errors
<1>0. anchor.no \in Nat
  BY LogAssumption DEF Files
<1>1. PICK h \in [Places(anchor.no) -> Results(anchor.no, L)] :
        ScanEquation(h, to) /\ \A m \in Places(anchor.no) : Scan(m, to) = h[m]
  BY ScanSolves
<1>2. h[l] = IF l = to \/ (Verdict(l) = "end" /\ l.no = anchor.no) THEN Stop(l, "end")
             ELSE IF Verdict(l) = "end" THEN h[NextFile(l)]
             ELSE IF Verdict(l) = "record"
             THEN AddRecord(disk[l.no][l.off].rec, h[AfterRecord(disk, l)])
             ELSE Stop(l, Verdict(l))
  BY <1>1 DEF ScanEquation
<1>3. Scan(l, to) = h[l] /\ h[l] \in Results(anchor.no, L)
  BY <1>1
<1>4. /\ EndAt(disk, l) => Verdict(l) = "end"
      /\ RecordAt(disk, l) => Verdict(l) = "record"
      /\ ~EndAt(disk, l) /\ ~RecordAt(disk, l) => Verdict(l) \in Errors
  BY VerdictIs
<1>5. ASSUME l # to, EndAt(disk, l), l.no # anchor.no
      PROVE  Scan(l, to) = Scan(NextFile(l), to)
  <2>1. NextFile(l) \in Places(anchor.no)
    BY <1>0, <1>5, NextFileFollows
  <2> QED
    BY <2>1, <1>1, <1>2, <1>4, <1>5
<1>6. ASSUME l # to, RecordAt(disk, l)
      PROVE  Scan(l, to) = AddRecord(disk[l.no][l.off].rec, Scan(AfterRecord(disk, l), to))
  <2>1. AfterRecord(disk, l) \in Places(anchor.no)
    BY <1>6, RecordEnds
  <2> QED
    BY <2>1, <1>1, <1>2, <1>4, <1>6
<1>7. ASSUME l # to, ~EndAt(disk, l), ~RecordAt(disk, l)
      PROVE  Scan(l, to).verdict \in Errors
  <2>1. h[l] = Stop(l, Verdict(l)) /\ Verdict(l) \in Errors
    BY <1>2, <1>4, <1>7 DEF Errors
  <2> QED
    BY <2>1, <1>3 DEF Stop
<1>8. ASSUME l = to \/ (EndAt(disk, l) /\ l.no = anchor.no)
      PROVE  Scan(l, to) = Stop(l, "end")
  BY <1>2, <1>3, <1>4, <1>8
<1> QED
  BY <1>3, <1>5, <1>6, <1>7, <1>8

\* A way through the log from one place to another: the places P lead from
\* record to record, and from the end of a file to the next file.
Leads(dk, A, l, P) ==
    \/ RecordAt(dk, l) /\ AfterRecord(dk, l) \in P
    \/ EndAt(dk, l) /\ l.no # A /\ NextFile(l) \in P

Path(dk, A, from, to, P) ==
    /\ P \subseteq Places(A) /\ from \in P /\ to \in P
    /\ \A l \in P : l = to \/ Before(l, to)
    /\ \A l \in P \ {to} : Leads(dk, A, l, P)

\* The records of a result to which one is added.
LEMMA RangeOfAdded ==
    ASSUME NEW S, NEW s \in Seq(S), NEW r \in S
    PROVE  Range(<<r>> \o s) = {r} \cup Range(s)
<1>1. <<r>> \o s \in Seq(S) /\ Len(<<r>> \o s) = Len(s) + 1
  OBVIOUS
<1>2. DOMAIN s = 1 .. Len(s) /\ DOMAIN (<<r>> \o s) = 1 .. Len(s) + 1 /\ Len(s) \in Nat
  BY <1>1
<1>3. (<<r>> \o s)[1] = r /\ \A i \in 1 .. Len(s) : (<<r>> \o s)[i + 1] = s[i]
  OBVIOUS
<1>4. ASSUME NEW x \in Range(<<r>> \o s) PROVE x \in {r} \cup Range(s)
  <2>1. PICK i \in 1 .. Len(s) + 1 : x = (<<r>> \o s)[i]
    BY <1>2, <1>4 DEF Range
  <2>2. CASE i = 1
    BY <2>1, <2>2, <1>3
  <2>3. CASE i # 1
    <3>1. i - 1 \in 1 .. Len(s) /\ (i - 1) + 1 = i
      BY <2>3, <1>2
    <3>2. x = s[i - 1]
      BY <2>1, <3>1, <1>3
    <3> QED
      BY <3>1, <3>2, <1>2 DEF Range
  <2> QED
    BY <2>2, <2>3
<1>5. ASSUME NEW x \in {r} \cup Range(s) PROVE x \in Range(<<r>> \o s)
  <2>1. CASE x = r
    <3>1. 1 \in 1 .. Len(s) + 1
      BY <1>2
    <3> QED
      BY <2>1, <3>1, <1>2, <1>3 DEF Range
  <2>2. CASE x \in Range(s)
    <3>1. PICK i \in 1 .. Len(s) : x = s[i]
      BY <1>2, <2>2 DEF Range
    <3>2. i + 1 \in 1 .. Len(s) + 1
      BY <1>2
    <3> QED
      BY <3>1, <3>2, <1>2, <1>3, Zenon DEF Range
  <2> QED
    BY <1>5, <2>1, <2>2
<1> QED
  BY <1>4, <1>5

\* A record found on the way.
OnPath(dk, to, P, r) ==
    r.lsn \in P \ {to} /\ RecordAt(dk, r.lsn) /\ dk[r.lsn.no][r.lsn.off].rec = r

\* The scan follows the way.
LEMMA PathScanned ==
    ASSUME NEW L, Files(disk, anchor.no, L), NEW from, NEW to, NEW P,
           Path(disk, anchor.no, from, to, P)
    PROVE  \A l \in P : Scan(l, to).at = to
                        /\ \A r \in Range(Scan(l, to).recs) : OnPath(disk, to, P, r)
<1> DEFINE Found(l) == Scan(l, to).at = to
                       /\ \A r \in Range(Scan(l, to).recs) : OnPath(disk, to, P, r)
           T == {l \in Places(anchor.no) : l \in P => Found(l)}
<1>0. anchor.no \in Nat /\ P \subseteq Places(anchor.no)
  BY LogAssumption DEF Files, Path
<1>1. ASSUME NEW l \in Places(anchor.no),
             \A m \in Places(anchor.no) : Before(l, m) => m \in T
      PROVE  l \in T
  <2> SUFFICES ASSUME l \in P PROVE Found(l)
    OBVIOUS
  <2>1. CASE l = to
    <3>1. Scan(l, to) = Stop(l, "end")
      BY <2>1, ScanAt
    <3>2. Scan(l, to).at = to /\ Scan(l, to).recs = << >>
      BY <3>1, <2>1 DEF Stop
    <3>3. Range(<< >>) = {}
      BY DEF Range
    <3> QED
      BY <3>2, <3>3
  <2>2. CASE l # to /\ EndAt(disk, l)
    <3>1. l.no # anchor.no /\ NextFile(l) \in P
      BY <2>2, RecordEnds DEF Path, Leads
    <3>2. Before(l, NextFile(l)) /\ NextFile(l) \in Places(anchor.no)
      BY <3>1, <1>0, NextFileFollows
    <3>3. Scan(l, to) = Scan(NextFile(l), to)
      BY <2>2, <3>1, ScanAt
    <3>4. Found(NextFile(l))
      BY <3>1, <3>2, <1>1
    <3> QED
      BY <3>3, <3>4
  <2>3. CASE l # to /\ ~EndAt(disk, l)
    <3> DEFINE m == AfterRecord(disk, l)
               r == disk[l.no][l.off].rec
    <3>1. RecordAt(disk, l) /\ m \in P
      BY <2>3 DEF Path, Leads
    <3>2. Before(l, m) /\ m \in Places(anchor.no) /\ r \in Recs(L)
      BY <3>1, RecordEnds
    <3>3. Scan(l, to) = AddRecord(r, Scan(m, to))
      BY <2>3, <3>1, ScanAt
    <3>4. Found(m)
      BY <3>1, <3>2, <1>1
    <3>5. Scan(m, to) \in Results(anchor.no, L)
      BY <3>2, ScanAt
    <3>6. Scan(m, to).recs \in Seq(Recs(L))
      BY <3>5 DEF Results
    <3>7. Scan(l, to).at = Scan(m, to).at /\ Scan(l, to).recs = <<r>> \o Scan(m, to).recs
      BY <3>3, <3>5 DEF AddRecord, Results
    <3>8. Range(Scan(l, to).recs) = {r} \cup Range(Scan(m, to).recs)
      BY <3>2, <3>6, <3>7, RangeOfAdded
    <3>9. OnPath(disk, to, P, r)
      <4>1. r.lsn = l
        BY <3>1 DEF RecordAt
      <4> QED
        BY <4>1, <2>3, <3>1 DEF OnPath
    <3> HIDE DEF m, r
    <3> QED
      BY <3>4, <3>7, <3>8, <3>9
  <2> QED
    BY <2>1, <2>2, <2>3
<1>2. Places(anchor.no) \subseteq T
  <2> HIDE DEF T
  <2> QED
    BY <1>0, <1>1, PlaceInduction
<1> QED
  BY <1>0, <1>2

\* The order of places is transitive.
LEMMA BeforeIsOrder ==
    ASSUME NEW A \in Nat, NEW l \in Places(A), NEW m \in Places(A), NEW n \in Places(A),
           Before(l, m), m = n \/ Before(m, n)
    PROVE  Before(l, n)
<1>1. /\ l.no \in Int /\ m.no \in Int /\ n.no \in Int
      /\ l.off \in Int /\ m.off \in Int /\ n.off \in Int
  BY DEF Places, Offset
<1> QED
  BY <1>1 DEF Before

\* A scan without an error has followed a way to the end of the log.
LEMMA ScanIsPath ==
    ASSUME NEW L, Files(disk, anchor.no, L), NEW l \in Places(anchor.no),
           Scan(l, NoLSN).verdict = "end"
    PROVE  LET to == Scan(l, NoLSN).at
           IN  /\ EndAt(disk, to) /\ to.no = anchor.no
               /\ \E P : Path(disk, anchor.no, l, to, P)
<1> DEFINE A == anchor.no
           To(k) == Scan(k, NoLSN).at
           Good(k) == /\ EndAt(disk, To(k)) /\ To(k).no = A
                      /\ \E P : Path(disk, A, k, To(k), P)
           T == {k \in Places(A) : Scan(k, NoLSN).verdict = "end" => Good(k)}
<1>0. A \in Nat
  BY LogAssumption DEF Files
<1>1. ASSUME NEW k \in Places(A), \A m \in Places(A) : Before(k, m) => m \in T
      PROVE  k \in T
  <2> SUFFICES ASSUME Scan(k, NoLSN).verdict = "end" PROVE Good(k)
    OBVIOUS
  <2>0. k # NoLSN
    BY CellAt
  <2>1. CASE EndAt(disk, k) /\ k.no = A
    <3>1. Scan(k, NoLSN) = Stop(k, "end")
      BY <2>1, ScanAt
    <3>2. To(k) = k
      BY <3>1 DEF Stop
    <3>3. Path(disk, A, k, k, {k})
      BY DEF Path
    <3> HIDE DEF To
    <3> QED
      BY <2>1, <3>2, <3>3
  <2>2. ASSUME NEW m \in Places(A), Before(k, m), To(k) = To(m),
               Scan(m, NoLSN).verdict = "end",
               \A P : m \in P => Leads(disk, A, k, P)
        PROVE  Good(k)
    <3>1. Good(m)
      BY <1>1, <2>2
    <3> HIDE DEF To, T
    <3>2. PICK P : Path(disk, A, m, To(m), P)
      BY <3>1
    <3> DEFINE Q == P \cup {k}
    <3>3. Path(disk, A, k, To(m), Q)
      <4>1. m = To(m) \/ Before(m, To(m))
        BY <3>2 DEF Path
      <4>2. To(m) \in Places(A) /\ To(m) \in P /\ m \in P /\ P \subseteq Places(A)
        BY <3>2 DEF Path
      <4>3. Before(k, To(m))
        BY <4>1, <4>2, <2>2, <1>0, BeforeIsOrder
      <4>4. \A n \in Q : n = To(m) \/ Before(n, To(m))
        BY <4>3, <3>2 DEF Path
      <4>5. \A n \in P \ {To(m)} : Leads(disk, A, n, Q)
        BY <3>2 DEF Path, Leads
      <4>6. Leads(disk, A, k, Q)
        BY <2>2, <4>2
      <4>7. \A n \in Q \ {To(m)} : Leads(disk, A, n, Q)
        BY <4>5, <4>6
      <4> QED
        BY <4>2, <4>4, <4>7 DEF Path
    <3> HIDE DEF Q
    <3> QED
      BY <3>1, <3>3, <2>2
  <2>3. CASE EndAt(disk, k) /\ k.no # A
    <3>1. Scan(k, NoLSN) = Scan(NextFile(k), NoLSN)
      BY <2>0, <2>3, ScanAt
    <3>2. NextFile(k) \in Places(A) /\ Before(k, NextFile(k))
      BY <1>0, <2>3, NextFileFollows
    <3>3. \A P : NextFile(k) \in P => Leads(disk, A, k, P)
      BY <2>3 DEF Leads
    <3>4. To(k) = To(NextFile(k)) /\ Scan(NextFile(k), NoLSN).verdict = "end"
      BY <3>1
    <3> HIDE DEF A, To, Good
    <3> QED
      BY <2>2, <3>2, <3>3, <3>4
  <2>4. CASE RecordAt(disk, k)
    <3> DEFINE m == AfterRecord(disk, k)
    <3>1. m \in Places(A) /\ Before(k, m)
      BY <2>4, RecordEnds
    <3>2. Scan(k, NoLSN) = AddRecord(disk[k.no][k.off].rec, Scan(m, NoLSN))
      BY <2>0, <2>4, ScanAt
    <3>3. Scan(m, NoLSN) \in Results(A, L)
      BY <3>1, ScanAt
    <3>4. To(k) = To(m) /\ Scan(m, NoLSN).verdict = "end"
      BY <3>2, <3>3 DEF AddRecord, Results
    <3>5. \A P : m \in P => Leads(disk, A, k, P)
      BY <2>4 DEF Leads
    <3> HIDE DEF A, To, Good, m
    <3> QED
      BY <2>2, <3>1, <3>4, <3>5
  <2>5. CASE ~EndAt(disk, k) /\ ~RecordAt(disk, k)
    <3>1. Scan(k, NoLSN).verdict \in Errors
      BY <2>0, <2>5, ScanAt
    <3> QED
      BY <3>1 DEF Errors
  <2> QED
    BY <2>1, <2>3, <2>4, <2>5
<1>2. Places(A) \subseteq T
  <2> HIDE DEF T, A
  <2> QED
    BY <1>0, <1>1, PlaceInduction
<1>3. Good(l)
  BY <1>2
<1> QED
  BY <1>3

\* What is written behind the end of a way leaves it a way.
LEMMA PathKept ==
    ASSUME NEW dk, NEW A, NEW L, Files(dk, A, L), NEW from, NEW to, NEW P,
           Path(dk, A, from, to, P), to.no = A, NEW new, NEW A2 \in {A, A + 1},
           \A m \in Places(A) : Before(m, to) => new[m.no][m.off] = dk[m.no][m.off]
    PROVE  \A l \in P \ {to} : Leads(new, A2, l, P)
<1> TAKE l \in P \ {to}
<1>0. A \in Nat /\ l \in Places(A) /\ to \in Places(A) /\ Before(l, to)
  BY LogAssumption DEF Files, Path
<1>1. new[l.no][l.off] = dk[l.no][l.off]
  BY <1>0
<1>2. CASE EndAt(dk, l) /\ l.no # A /\ NextFile(l) \in P
  <2>1. l.no # A2
    <3>1. l.no \in 1 .. A
      BY <1>0 DEF Places
    <3> QED
      BY <3>1, <1>0, <1>2
  <2> QED
    BY <1>1, <1>2, <2>1 DEF EndAt, Leads
<1>3. CASE RecordAt(dk, l) /\ AfterRecord(dk, l) \in P
  <2> DEFINE r == dk[l.no][l.off].rec
             m == AfterRecord(dk, l)
  <2>1. r.len \in 1 .. BufSize - 1 /\ m \in Places(A) /\ m = LSN(l.no, l.off + r.len)
    BY <1>0, <1>3, RecordEnds DEF AfterRecord
  <2>2. m = to \/ Before(m, to)
    BY <1>3 DEF Path
  <2>3. ASSUME NEW k \in 1 .. r.len
        PROVE  new[l.no][l.off + k - 1] = Unit(r, k)
    <3> DEFINE n == LSN(l.no, l.off + k - 1)
    <3> HIDE DEF r
    <3>1. l.no \in 1 .. A /\ l.off \in Offset /\ l.off + r.len \in Offset
      BY <1>0, <2>1 DEF Places, LSN
    <3>2. n \in Places(A) /\ Before(n, m)
      BY <2>1, <3>1, LogAssumption DEF Places, LSN, Offset, Before
    <3>3. Before(n, to)
      BY <1>0, <2>1, <2>2, <3>2, BeforeIsOrder
    <3>4. new[n.no][n.off] = dk[n.no][n.off]
      BY <3>2, <3>3
    <3>5. n.no = l.no /\ n.off = l.off + k - 1
      BY DEF LSN
    <3>6. dk[l.no][l.off + k - 1] = Unit(r, k)
      BY <1>3 DEF RecordAt, r
    <3> HIDE DEF n
    <3> QED
      BY <3>4, <3>5, <3>6
  <2>4. new[l.no][l.off].rec = r /\ r.lsn = l
    BY <1>1, <1>3 DEF RecordAt
  <2>5. RecordAt(new, l)
    <3> HIDE DEF r
    <3> QED
      BY <2>3, <2>4 DEF RecordAt
  <2>6. AfterRecord(new, l) = m
    BY <1>1 DEF AfterRecord
  <2> QED
    BY <1>3, <2>5, <2>6 DEF Leads
<1> QED
  BY <1>2, <1>3 DEF Path, Leads

-----------------------------------------------------------------------------
(* Sequences of writes *)

Writes(L) == [no : Nat, off : Int, cell : Cells(L)]

\* ws leaves the place alone, or its last write there is c.
Hits(w, n, o) == w.no = n /\ w.off = o
Spares(ws, n, o) == \A i \in 1 .. Len(ws) : ~Hits(ws[i], n, o)
Puts(ws, n, o, c) ==
    \E i \in 1 .. Len(ws) : /\ Hits(ws[i], n, o) /\ ws[i].cell = c
                            /\ \A j \in i + 1 .. Len(ws) : ~Hits(ws[j], n, o)

\* The files that ws creates.
NewFiles(ws) == {ws[i].no : i \in {j \in 1 .. Len(ws) : ws[j].off = -1}}

\* Two sequences, one after the other, and where their elements are.
LEMMA Concatenated ==
    ASSUME NEW S, NEW a \in Seq(S), NEW b \in Seq(S)
    PROVE  /\ a \o b \in Seq(S) /\ Len(a \o b) = Len(a) + Len(b)
           /\ Len(a) \in Nat /\ Len(b) \in Nat
           /\ \A i \in 1 .. Len(a) : i \in 1 .. Len(a) + Len(b) /\ (a \o b)[i] = a[i]
           /\ \A i \in 1 .. Len(b) :
                i + Len(a) \in 1 .. Len(a) + Len(b) /\ (a \o b)[i + Len(a)] = b[i]
           /\ \A i \in 1 .. Len(a) + Len(b) :
                i \in 1 .. Len(a) \/ \E j \in 1 .. Len(b) : i = j + Len(a)
<1>1. a \o b \in Seq(S) /\ Len(a \o b) = Len(a) + Len(b) /\ Len(a) \in Nat /\ Len(b) \in Nat
  OBVIOUS
<1>2. \A i \in 1 .. Len(a) : i \in 1 .. Len(a) + Len(b) /\ (a \o b)[i] = a[i]
  OBVIOUS
<1>3. \A i \in 1 .. Len(b) :
         i + Len(a) \in 1 .. Len(a) + Len(b) /\ (a \o b)[i + Len(a)] = b[i]
  OBVIOUS
<1>4. ASSUME NEW i \in 1 .. Len(a) + Len(b), i \notin 1 .. Len(a)
      PROVE  \E j \in 1 .. Len(b) : i = j + Len(a)
  <2>1. i - Len(a) \in 1 .. Len(b) /\ i = (i - Len(a)) + Len(a)
    BY <1>1, <1>4
  <2> QED
    BY <2>1, Zenon
<1> QED
  BY <1>1, <1>2, <1>3, <1>4

\* A place is spared if both sequences spare it.
LEMMA SparesBoth ==
    ASSUME NEW S, NEW a \in Seq(S), NEW b \in Seq(S), NEW n, NEW o
    PROVE  Spares(a \o b, n, o) <=> Spares(a, n, o) /\ Spares(b, n, o)
<1>1. /\ Len(a \o b) = Len(a) + Len(b)
      /\ \A i \in 1 .. Len(a) : i \in 1 .. Len(a) + Len(b) /\ (a \o b)[i] = a[i]
      /\ \A i \in 1 .. Len(b) :
           i + Len(a) \in 1 .. Len(a) + Len(b) /\ (a \o b)[i + Len(a)] = b[i]
      /\ \A i \in 1 .. Len(a) + Len(b) :
           i \in 1 .. Len(a) \/ \E j \in 1 .. Len(b) : i = j + Len(a)
  BY Concatenated
<1>2. ASSUME Spares(a \o b, n, o) PROVE Spares(a, n, o) /\ Spares(b, n, o)
  <2>1. \A i \in 1 .. Len(a) + Len(b) : ~Hits((a \o b)[i], n, o)
    BY <1>1, <1>2, Zenon DEF Spares
  <2>2. \A i \in 1 .. Len(a) : ~Hits(a[i], n, o)
    BY <1>1, <2>1, Zenon
  <2>3. \A i \in 1 .. Len(b) : ~Hits(b[i], n, o)
    BY <1>1, <2>1, Zenon
  <2> QED
    BY <2>2, <2>3, Zenon DEF Spares
<1>3. ASSUME Spares(a, n, o), Spares(b, n, o) PROVE Spares(a \o b, n, o)
  <2> SUFFICES ASSUME NEW i \in 1 .. Len(a) + Len(b) PROVE ~Hits((a \o b)[i], n, o)
    BY <1>1, SMTT(60) DEF Spares
  <2>1. CASE i \in 1 .. Len(a)
    BY <1>1, <1>3, <2>1 DEF Spares
  <2>2. ASSUME NEW j \in 1 .. Len(b), i = j + Len(a) PROVE ~Hits((a \o b)[i], n, o)
    BY <1>1, <1>3, <2>2 DEF Spares
  <2> QED
    BY <1>1, <2>1, <2>2
<1> QED
  BY <1>2, <1>3

\* The second sequence decides, if it writes there at all.
LEMMA PutsSecond ==
    ASSUME NEW S, NEW a \in Seq(S), NEW b \in Seq(S), NEW n, NEW o, NEW c,
           Puts(b, n, o, c)
    PROVE  Puts(a \o b, n, o, c)
<1>1. PICK i \in 1 .. Len(b) :
        /\ Hits(b[i], n, o) /\ b[i].cell = c
        /\ \A j \in i + 1 .. Len(b) : ~Hits(b[j], n, o)
  BY DEF Puts
<1>2. /\ Len(a \o b) = Len(a) + Len(b) /\ Len(a) \in Nat /\ Len(b) \in Nat
      /\ i + Len(a) \in 1 .. Len(a) + Len(b) /\ (a \o b)[i + Len(a)] = b[i]
      /\ \A j \in 1 .. Len(b) : (a \o b)[j + Len(a)] = b[j]
  BY Concatenated, SMTT(60)
<1>3. ASSUME NEW j \in i + Len(a) + 1 .. Len(a \o b)
      PROVE  ~Hits((a \o b)[j], n, o)
  <2>1. j - Len(a) \in i + 1 .. Len(b) /\ j - Len(a) \in 1 .. Len(b) /\ (j - Len(a)) + Len(a) = j
    BY <1>2, <1>3
  <2>2. (a \o b)[j] = b[j - Len(a)]
    BY <1>2, <2>1
  <2> QED
    BY <1>1, <2>1, <2>2
<1> QED
  BY <1>1, <1>2, <1>3, Zenon DEF Puts

\* The first sequence decides, if the second does not write there.
LEMMA PutsFirst ==
    ASSUME NEW S, NEW a \in Seq(S), NEW b \in Seq(S), NEW n, NEW o, NEW c,
           Puts(a, n, o, c), Spares(b, n, o)
    PROVE  Puts(a \o b, n, o, c)
<1>1. PICK i \in 1 .. Len(a) :
        /\ Hits(a[i], n, o) /\ a[i].cell = c
        /\ \A j \in i + 1 .. Len(a) : ~Hits(a[j], n, o)
  BY DEF Puts
<1>2. /\ Len(a \o b) = Len(a) + Len(b) /\ Len(a) \in Nat /\ Len(b) \in Nat
      /\ i \in 1 .. Len(a) + Len(b)
      /\ \A j \in 1 .. Len(a) : (a \o b)[j] = a[j]
      /\ \A j \in 1 .. Len(b) : (a \o b)[j + Len(a)] = b[j]
      /\ \A j \in 1 .. Len(a) + Len(b) :
           j \in 1 .. Len(a) \/ \E k \in 1 .. Len(b) : j = k + Len(a)
  BY Concatenated
<1>3. ASSUME NEW j \in i + 1 .. Len(a \o b)
      PROVE  ~Hits((a \o b)[j], n, o)
  <2>0. j \in 1 .. Len(a) + Len(b)
    BY <1>2, <1>3
  <2>1. CASE j \in 1 .. Len(a)
    <3>1. j \in i + 1 .. Len(a)
      BY <1>3, <2>1
    <3> QED
      BY <1>1, <1>2, <2>1, <3>1
  <2>2. ASSUME NEW k \in 1 .. Len(b), j = k + Len(a) PROVE ~Hits((a \o b)[j], n, o)
    BY <1>2, <2>2 DEF Spares
  <2> QED
    BY <1>2, <2>0, <2>1, <2>2
<1> QED
  BY <1>1, <1>2, <1>3, Zenon DEF Puts

\* A write that creates a file is among them.
LEMMA NewFileAt ==
    ASSUME NEW ws, NEW n, NEW i \in 1 .. Len(ws), ws[i].off = -1, n = ws[i].no
    PROVE  n \in NewFiles(ws)
BY DEF NewFiles

\* The files that two sequences create.
LEMMA NewFilesBoth ==
    ASSUME NEW S, NEW a \in Seq(S), NEW b \in Seq(S)
    PROVE  NewFiles(a \o b) = NewFiles(a) \cup NewFiles(b)
<1> DEFINE ab == a \o b
<1>1. /\ Len(ab) = Len(a) + Len(b)
      /\ \A i \in 1 .. Len(a) : i \in 1 .. Len(ab) /\ ab[i] = a[i]
      /\ \A i \in 1 .. Len(b) : \E k \in 1 .. Len(ab) : ab[k] = b[i]
      /\ \A i \in 1 .. Len(ab) :
           i \in 1 .. Len(a) \/ \E j \in 1 .. Len(b) : ab[i] = b[j]
  <2>1. /\ Len(ab) = Len(a) + Len(b)
        /\ \A i \in 1 .. Len(a) : i \in 1 .. Len(a) + Len(b) /\ ab[i] = a[i]
        /\ \A i \in 1 .. Len(b) : i + Len(a) \in 1 .. Len(a) + Len(b) /\ ab[i + Len(a)] = b[i]
        /\ \A i \in 1 .. Len(a) + Len(b) :
             i \in 1 .. Len(a) \/ \E j \in 1 .. Len(b) : i = j + Len(a)
    BY Concatenated
  <2> HIDE DEF ab
  <2>2. 1 .. Len(a) + Len(b) = 1 .. Len(ab)
    BY <2>1
  <2>3. ASSUME NEW i \in 1 .. Len(b) PROVE \E k \in 1 .. Len(ab) : ab[k] = b[i]
    BY <2>1, <2>2, Zenon
  <2>4. ASSUME NEW i \in 1 .. Len(ab)
        PROVE  i \in 1 .. Len(a) \/ \E j \in 1 .. Len(b) : ab[i] = b[j]
    <3>1. i \in 1 .. Len(a) \/ \E j \in 1 .. Len(b) : i = j + Len(a)
      BY <2>1, <2>2, Zenon
    <3>2. ASSUME NEW j \in 1 .. Len(b), i = j + Len(a) PROVE ab[i] = b[j]
      BY <2>1, <3>2, Zenon
    <3> QED
      BY <3>1, <3>2, Zenon
  <2>5. ASSUME NEW i \in 1 .. Len(a) PROVE i \in 1 .. Len(ab) /\ ab[i] = a[i]
    BY <2>1, <2>2, Zenon
  <2>6. Len(ab) = Len(a) + Len(b)
    BY <2>1
  <2> QED
    BY <2>3, <2>4, <2>5, <2>6
<1> HIDE DEF ab
<1>2. ASSUME NEW n \in NewFiles(ab) PROVE n \in NewFiles(a) \cup NewFiles(b)
  <2>1. PICK i \in 1 .. Len(ab) : ab[i].off = -1 /\ n = ab[i].no
    BY <1>2, Zenon DEF NewFiles
  <2>2. CASE i \in 1 .. Len(a)
    BY <1>1, <2>1, <2>2, NewFileAt
  <2>3. ASSUME NEW j \in 1 .. Len(b), ab[i] = b[j] PROVE n \in NewFiles(b)
    BY <2>1, <2>3, NewFileAt
  <2> QED
    BY <1>1, <2>2, <2>3
<1>3. ASSUME NEW n \in NewFiles(a) PROVE n \in NewFiles(ab)
  <2>1. PICK i \in 1 .. Len(a) : a[i].off = -1 /\ n = a[i].no
    BY <1>3, Zenon DEF NewFiles
  <2> QED
    BY <1>1, <2>1, NewFileAt
<1>4. ASSUME NEW n \in NewFiles(b) PROVE n \in NewFiles(ab)
  <2>1. PICK i \in 1 .. Len(b) : b[i].off = -1 /\ n = b[i].no
    BY <1>4, Zenon DEF NewFiles
  <2>2. PICK k \in 1 .. Len(ab) : ab[k] = b[i]
    BY <1>1
  <2> QED
    BY <2>1, <2>2, NewFileAt
<1>5. NewFiles(ab) = NewFiles(a) \cup NewFiles(b)
  BY <1>2, <1>3, <1>4
<1> QED
  BY <1>5 DEF ab

\* What Written makes of the files.
LEMMA WrittenIs ==
    ASSUME NEW S, NEW ws \in Seq(S), NEW n \in DOMAIN disk, NEW o \in Offset
    PROVE  /\ Spares(ws, n, o) => Written(ws)[n][o] = disk[n][o]
           /\ \A c : Puts(ws, n, o, c) => Written(ws)[n][o] = c
<1> DEFINE at == {i \in 1 .. Len(ws) : ws[i].no = n /\ ws[i].off = o}
<1>1. Written(ws)[n][o] = IF at = {} THEN disk[n][o]
                          ELSE ws[CHOOSE i \in at : \A j \in at : j <= i].cell
  BY DEF Written
<1>2. \A i \in 1 .. Len(ws) : i \in at <=> Hits(ws[i], n, o)
  BY DEF Hits
<1>3. at \subseteq 1 .. Len(ws)
  OBVIOUS
<1> HIDE DEF at
<1>4. ASSUME Spares(ws, n, o) PROVE Written(ws)[n][o] = disk[n][o]
  <2>1. at = {}
    BY <1>2, <1>3, <1>4 DEF Spares
  <2> QED
    BY <2>1, <1>1
<1>5. ASSUME NEW c, Puts(ws, n, o, c) PROVE Written(ws)[n][o] = c
  <2>1. PICK i \in 1 .. Len(ws) :
          /\ Hits(ws[i], n, o) /\ ws[i].cell = c
          /\ \A j \in i + 1 .. Len(ws) : ~Hits(ws[j], n, o)
    BY <1>5 DEF Puts
  <2>2. i \in at
    BY <2>1, <1>2
  <2>3. \A j \in at : j <= i
    <3> TAKE j \in at
    <3>1. j \in 1 .. Len(ws) /\ Hits(ws[j], n, o)
      BY <1>2, <1>3
    <3>2. j \notin i + 1 .. Len(ws)
      BY <2>1, <3>1
    <3> QED
      BY <3>1, <3>2
  <2> DEFINE top == CHOOSE k \in at : \A j \in at : j <= k
  <2>4. top \in at /\ \A j \in at : j <= top
    BY <2>2, <2>3, Zenon
  <2>5. top <= i /\ i <= top
    BY <2>2, <2>3, <2>4, Zenon
  <2>6. top = i
    <3>1. top \in Int /\ i \in Int
      <4>1. Len(ws) \in Nat
        OBVIOUS
      <4> HIDE DEF top
      <4> QED
        BY <2>2, <2>4, <1>3, <4>1
    <3> HIDE DEF top
    <3> QED
      BY <2>5, <3>1
  <2> QED
    BY <2>1, <2>2, <2>6, <1>1, Zenon
<1> QED
  BY <1>4, <1>5

\* Whatever part of a flush is written, the files hold cells.
LEMMA WrittenCells ==
    ASSUME NEW L, NEW A \in 1 .. MaxFile + 1, Files(disk, anchor.no, L),
           NEW ws \in Seq(Writes(L))
    PROVE  Files(Written(ws), A, L)
<1>1. disk \in [1 .. MaxFile + 1 -> [Offset -> Cells(L)]]
  BY DEF Files
<1>2. ASSUME NEW n \in DOMAIN disk, NEW o \in Offset
      PROVE  Written(ws)[n][o] \in Cells(L)
  <2> DEFINE at == {i \in 1 .. Len(ws) : ws[i].no = n /\ ws[i].off = o}
  <2>1. Written(ws)[n][o] = IF at = {} THEN disk[n][o]
                            ELSE ws[CHOOSE i \in at : \A j \in at : j <= i].cell
    BY DEF Written
  <2>2. at \subseteq 1 .. Len(ws) /\ Len(ws) \in Nat
    OBVIOUS
  <2>3. CASE at = {}
    BY <2>1, <2>3, <1>1, <1>2
  <2>4. CASE at # {}
    <3> HIDE DEF at
    <3>1. at \subseteq Nat /\ \A i \in at : i <= Len(ws)
      BY <2>2
    <3>2. \E i \in at : \A j \in at : j <= i
      BY <2>2, <2>4, <3>1, GreatestNat, Zenon
    <3> DEFINE top == CHOOSE k \in at : \A j \in at : j <= k
    <3>3. top \in at
      BY <3>2
    <3> HIDE DEF top
    <3>4. ws[top] \in Writes(L)
      BY <3>3, <2>2
    <3>5. ws[top].cell \in Cells(L)
      BY <3>4 DEF Writes
    <3> QED
      BY <2>1, <2>4, <3>5 DEF top
  <2> QED
    BY <2>3, <2>4
<1>3. Written(ws) = [n \in DOMAIN disk |-> [o \in Offset |-> Written(ws)[n][o]]]
  BY DEF Written
<1>4. Written(ws) \in [1 .. MaxFile + 1 -> [Offset -> Cells(L)]]
  <2> DEFINE w == Written(ws)
  <2> HIDE DEF w
  <2>1. \A n \in 1 .. MaxFile + 1 : \A o \in Offset : w[n][o] \in Cells(L)
    BY <1>1, <1>2 DEF w
  <2>2. w = [n \in 1 .. MaxFile + 1 |-> [o \in Offset |-> w[n][o]]]
    BY <1>1, <1>3 DEF w
  <2>3. [n \in 1 .. MaxFile + 1 |-> [o \in Offset |-> w[n][o]]]
          \in [1 .. MaxFile + 1 -> [Offset -> Cells(L)]]
    BY <2>1
  <2> QED
    BY <2>2, <2>3 DEF w
<1> QED
  BY <1>4 DEF Files

-----------------------------------------------------------------------------
(* The units in the ring, counted from the oldest *)

RingLen == Size(First) + Size(Second)

\* The position of unit i in the page, and its LSN.
RingAt(i) == IF i < Size(First) THEN head + i ELSE i - Size(First)
ChangeAt == IF head <= tail \/ create >= head THEN create - head ELSE Size(First) + create
FileEnd == IF create = -1 THEN RingLen ELSE ChangeAt
RingLSN(i) == IF create = -1 \/ i < ChangeAt THEN LSN(file.no, file.off + i)
              ELSE LSN(file.no + 1, i - ChangeAt)

\* Where units are, and how many there are.
LEMMA RingShape ==
    ASSUME Positions
    PROVE  /\ head \in 0 .. BufSize - 1 /\ tail \in 0 .. BufSize - 1
           /\ Size(First) \in Nat /\ RingLen \in Nat /\ Size(First) <= RingLen
           /\ FileEnd \in 0 .. RingLen /\ (create # -1 => ChangeAt \in 0 .. RingLen)
           /\ \A i \in 0 .. RingLen - 1 : RingAt(i) \in 0 .. BufSize - 1
           /\ head <= tail => RingLen = tail - head /\ Size(First) = tail - head
           /\ head > tail => Size(First) = last - head /\ RingLen = (last - head) + tail
           /\ create # -1 => NextFileUnits = RingLen - ChangeAt
<1>0. head \in 0 .. BufSize - 1 /\ tail \in 0 .. BufSize - 1 /\ BufSize \in Nat
  BY LogAssumption DEF Positions
<1>1. CASE head <= tail
  <2>1. First = <<head, tail>> /\ Second = <<0, 0>>
    BY <1>1 DEF First, Second
  <2>2. Size(First) = tail - head /\ Size(Second) = 0
    BY <2>1, <1>0 DEF Size
  <2>3. RingLen = tail - head
    BY <2>2, <1>0 DEF RingLen
  <2>4. create # -1 => create \in head .. tail /\ ChangeAt = create - head
    BY <1>1 DEF Positions, ChangeAt
  <2>5. create # -1 => NextFileUnits = tail - create
    BY <1>1 DEF NextFileUnits
  <2>6. \A i \in 0 .. RingLen - 1 : RingAt(i) = head + i
    BY <2>2, <2>3, <1>0 DEF RingAt
  <2>7. /\ Size(First) \in Nat /\ RingLen \in Nat /\ Size(First) <= RingLen
        /\ \A i \in 0 .. RingLen - 1 : RingAt(i) \in 0 .. BufSize - 1
    BY <1>0, <1>1, <2>2, <2>3, <2>6
  <2>8. create # -1 => ChangeAt \in 0 .. RingLen /\ NextFileUnits = RingLen - ChangeAt
    BY <1>0, <1>1, <2>3, <2>4, <2>5
  <2>9. FileEnd \in 0 .. RingLen
    BY <2>7, <2>8 DEF FileEnd
  <2>10. ~(head > tail)
    BY <1>0, <1>1
  <2> QED
    BY <1>0, <2>2, <2>3, <2>7, <2>8, <2>9, <2>10
<1>2. CASE head > tail
  <2>0. ~(head <= tail)
    BY <1>0, <1>2
  <2>1. First = <<head, last>> /\ Second = <<0, tail>>
    BY <2>0 DEF First, Second
  <2>2. Size(First) = last - head /\ Size(Second) = tail /\ last \in head .. BufSize - 1
    BY <2>1, <1>0, <1>2 DEF Size, Positions
  <2>3. RingLen = (last - head) + tail
    BY <2>2, <1>0 DEF RingLen
  <2>4. create # -1 => create \in head .. last \/ create \in 0 .. tail
    BY <2>0 DEF Positions
  <2>5. create # -1 => ChangeAt \in 0 .. RingLen /\ NextFileUnits = RingLen - ChangeAt
    BY <2>0, <2>2, <2>3, <2>4, <1>0 DEF ChangeAt, NextFileUnits
  <2>6. \A i \in 0 .. RingLen - 1 : RingAt(i) \in 0 .. BufSize - 1
    BY <2>2, <2>3, <1>0 DEF RingAt
  <2>7. Size(First) \in Nat /\ RingLen \in Nat /\ Size(First) <= RingLen
    BY <1>0, <2>2, <2>3
  <2>8. FileEnd \in 0 .. RingLen
    BY <2>5, <2>7 DEF FileEnd
  <2> QED
    BY <1>0, <2>0, <2>2, <2>3, <2>5, <2>6, <2>7, <2>8
<1> QED
  BY <1>0, <1>1, <1>2

-----------------------------------------------------------------------------
(* The writes of a flush *)

\* ws writes the units from i to j to file n from offset b on, and the
\* end-of-log mark behind them.
Chunk(ws, n, b, i, j) ==
    /\ ws \in Seq(Writes(life)) /\ NewFiles(ws) = {}
    /\ n \in Nat /\ b \in Nat /\ i \in Nat /\ j \in Nat /\ i <= j
    /\ \A u \in i .. j - 1 : Puts(ws, n, b + (u - i), page[RingAt(u)])
    /\ i < j => Puts(ws, n, b + (j - i), EOL)
    /\ \A m, o \in Nat : m # n \/ o < b \/ o > b + (j - i) \/ i = j => Spares(ws, m, o)

\* The end-of-log mark and anything else may be in the files of every run.
LEMMA MarkIsCell == \A L : EOL \in Cells(L) /\ Stale \in Cells(L)
BY LogAssumption DEF EOL, Stale, Cells, Unit

\* Two calls of LogFile_AppendLog: the second overwrites the first mark.
LEMMA JoinChunks ==
    ASSUME NEW ws, NEW vs, NEW n, NEW b, NEW i, NEW j, NEW k,
           Chunk(ws, n, b, i, j), Chunk(vs, n, b + (j - i), j, k)
    PROVE  Chunk(ws \o vs, n, b, i, k)
<1>0. n \in Nat /\ b \in Nat /\ i \in Nat /\ j \in Nat /\ k \in Nat /\ i <= j /\ j <= k
  BY DEF Chunk
<1>1. ws \in Seq(Writes(life)) /\ vs \in Seq(Writes(life))
  BY DEF Chunk
<1>2. ws \o vs \in Seq(Writes(life)) /\ NewFiles(ws \o vs) = {}
  <2>1. NewFiles(ws \o vs) = NewFiles(ws) \cup NewFiles(vs)
    BY <1>1, NewFilesBoth
  <2> QED
    BY <1>1, <2>1 DEF Chunk
<1>3. ASSUME NEW u \in i .. k - 1
      PROVE  Puts(ws \o vs, n, b + (u - i), page[RingAt(u)])
  <2>1. CASE u < j
    <3>1. u \in i .. j - 1
      BY <1>0, <1>3, <2>1
    <3>2. Puts(ws, n, b + (u - i), page[RingAt(u)])
      BY <3>1 DEF Chunk
    <3>3. b + (u - i) \in Nat /\ b + (u - i) < b + (j - i)
      BY <1>0, <3>1
    <3>4. Spares(vs, n, b + (u - i))
      BY <1>0, <3>3 DEF Chunk
    <3> QED
      BY <1>1, <3>2, <3>4, PutsFirst
  <2>2. CASE ~(u < j)
    <3>1. u \in j .. k - 1 /\ b + (j - i) + (u - j) = b + (u - i)
      BY <1>0, <1>3, <2>2
    <3>2. Puts(vs, n, b + (j - i) + (u - j), page[RingAt(u)])
      BY <3>1 DEF Chunk
    <3> QED
      BY <1>1, <3>1, <3>2, PutsSecond
  <2> QED
    BY <2>1, <2>2
<1>4. ASSUME i < k PROVE Puts(ws \o vs, n, b + (k - i), EOL)
  <2>1. CASE j < k
    <3>1. Puts(vs, n, b + (j - i) + (k - j), EOL)
      BY <2>1 DEF Chunk
    <3>2. b + (j - i) + (k - j) = b + (k - i)
      BY <1>0
    <3> QED
      BY <1>1, <3>1, <3>2, PutsSecond
  <2>2. CASE j = k
    <3>1. Puts(ws, n, b + (k - i), EOL)
      BY <1>4, <2>2 DEF Chunk
    <3>2. b + (k - i) \in Nat
      BY <1>0
    <3>3. Spares(vs, n, b + (k - i))
      BY <1>0, <2>2, <3>2 DEF Chunk
    <3> QED
      BY <1>1, <3>1, <3>3, PutsFirst
  <2> QED
    BY <1>0, <2>1, <2>2
<1>5. ASSUME NEW m \in Nat, NEW o \in Nat, m # n \/ o < b \/ o > b + (k - i) \/ i = k
      PROVE  Spares(ws \o vs, m, o)
  <2>1. m # n \/ o < b \/ o > b + (j - i) \/ i = j
    BY <1>0, <1>5
  <2>2. m # n \/ o < b + (j - i) \/ o > b + (j - i) + (k - j) \/ j = k
    BY <1>0, <1>5
  <2>3. Spares(ws, m, o) /\ Spares(vs, m, o)
    BY <2>1, <2>2 DEF Chunk
  <2> QED
    BY <1>1, <2>3, SparesBoth
<1> QED
  BY <1>0, <1>2, <1>3, <1>4, <1>5 DEF Chunk

\* A call of LogFile_AppendLog.
LEMMA AppendIsChunk ==
    ASSUME NEW n \in Nat, NEW b \in Nat, NEW p \in Nat, NEW q \in Nat, p <= q,
           NEW i \in Nat, life \in Nat,
           \A u \in i .. i + (q - p) - 1 :
              RingAt(u) = p + (u - i) /\ page[RingAt(u)] \in Cells(life)
    PROVE  Chunk(AppendLog(LSN(n, b), p, q), n, b, i, i + (q - p))
<1> DEFINE ws == AppendLog(LSN(n, b), p, q)
<1>1. CASE p = q
  <2>1. AppendLog(LSN(n, b), p, q) = << >> /\ i + (q - p) = i
    BY <1>1 DEF AppendLog
  <2>2. NewFiles(<< >>) = {} /\ \A m, o : Spares(<< >>, m, o)
    BY DEF NewFiles, Spares
  <2>3. << >> \in Seq(Writes(life)) /\ i .. i - 1 = {}
    OBVIOUS
  <2>4. Chunk(<< >>, n, b, i, i)
    BY <2>2, <2>3 DEF Chunk
  <2> QED
    BY <2>1, <2>4
<1>2. CASE p # q
  <2> DEFINE d == q - p
             w(k) == [no |-> n, off |-> b + k - 1,
                      cell |-> IF k <= d THEN page[p + k - 1] ELSE EOL]
  <2>0. d \in Nat /\ d > 0
    BY <1>2
  <2>1. ws = [k \in 1 .. d + 1 |-> w(k)]
    BY <1>2 DEF AppendLog, LSN
  <2>2. ASSUME NEW k \in 1 .. d PROVE page[p + k - 1] \in Cells(life)
    <3>1. i + k - 1 \in i .. i + d - 1 /\ p + ((i + k - 1) - i) = p + k - 1
      BY <2>0
    <3> QED
      BY <3>1, Zenon
  <2>3. \A k \in 1 .. d + 1 : w(k) \in Writes(life)
    <3> TAKE k \in 1 .. d + 1
    <3>1. b + k - 1 \in Int
      BY <2>0
    <3>2. k <= d => k \in 1 .. d
      BY <2>0
    <3>3. (IF k <= d THEN page[p + k - 1] ELSE EOL) \in Cells(life)
      BY <2>2, <3>2, MarkIsCell
    <3> QED
      BY <3>1, <3>3 DEF Writes
  <2> HIDE DEF d
  <2>4. ws \in Seq(Writes(life)) /\ Len(ws) = d + 1
    <3> HIDE DEF w, ws
    <3> QED
      BY <2>0, <2>1, <2>3
  <2>5. \A k \in 1 .. d + 1 : /\ ws[k].no = n /\ ws[k].off = b + k - 1
                              /\ ws[k].cell = IF k <= d THEN page[p + k - 1] ELSE EOL
    BY <2>1
  <2> HIDE DEF ws, w
  <2>6. NewFiles(ws) = {}
    <3>1. \A k \in 1 .. d + 1 : b + k - 1 # -1
      BY <2>0
    <3> QED
      BY <2>4, <2>5, <3>1 DEF NewFiles
  <2>7. ASSUME NEW k \in 1 .. d + 1
        PROVE  Puts(ws, n, b + k - 1, ws[k].cell)
    <3>1. \A j \in k + 1 .. d + 1 : j \in 1 .. d + 1 /\ b + j - 1 # b + k - 1
      BY <2>0
    <3> QED
      BY <2>4, <2>5, <3>1 DEF Puts, Hits
  <2>8. ASSUME NEW u \in i .. i + d - 1 PROVE Puts(ws, n, b + (u - i), page[RingAt(u)])
    <3> DEFINE k == u - i + 1
    <3>1. k \in 1 .. d + 1 /\ k <= d /\ b + k - 1 = b + (u - i) /\ p + k - 1 = p + (u - i)
      BY <2>0, <2>8
    <3>2. RingAt(u) = p + (u - i)
      BY <2>8 DEF d
    <3> HIDE DEF k
    <3>3. Puts(ws, n, b + k - 1, ws[k].cell) /\ ws[k].cell = page[p + k - 1]
      BY <2>5, <2>7, <3>1
    <3> QED
      BY <3>1, <3>2, <3>3
  <2>9. Puts(ws, n, b + d, EOL)
    <3>1. d + 1 \in 1 .. d + 1 /\ b + (d + 1) - 1 = b + d /\ ~(d + 1 <= d)
      BY <2>0
    <3>2. ws[d + 1].cell = EOL /\ Puts(ws, n, b + (d + 1) - 1, ws[d + 1].cell)
      BY <2>5, <2>7, <3>1
    <3> QED
      BY <3>1, <3>2
  <2>10. ASSUME NEW m \in Nat, NEW o \in Nat, m # n \/ o < b \/ o > b + d
         PROVE  Spares(ws, m, o)
    <3> SUFFICES ASSUME NEW k \in 1 .. d + 1, Hits(ws[k], m, o) PROVE FALSE
      BY <2>4 DEF Spares
    <3>1. m = n /\ o = b + k - 1
      BY <2>5 DEF Hits
    <3> QED
      BY <2>0, <2>10, <3>1
  <2>11. (i + d) - i = d /\ i + d \in Nat /\ i < i + d
    BY <2>0
  <2>12. Chunk(ws, n, b, i, i + d)
    BY <2>0, <2>4, <2>6, <2>8, <2>9, <2>10, <2>11 DEF Chunk
  <2> QED
    BY <2>12 DEF ws, d
<1> QED
  BY <1>1, <1>2

\* The call of LogFile_Create.
LEMMA CreateWrites ==
    ASSUME NEW n \in Nat, NEW L
    PROVE  /\ <<Create(n)>> \in Seq(Writes(L)) /\ NewFiles(<<Create(n)>>) = {n}
           /\ \A m, o \in Nat : Spares(<<Create(n)>>, m, o)
<1>1. Create(n) \in Writes(L) /\ Create(n).no = n /\ Create(n).off = -1
  BY MarkIsCell DEF Create, Writes
<1> DEFINE w == Create(n)
<1> HIDE DEF w
<1>2. <<w>> \in Seq(Writes(L)) /\ Len(<<w>>) = 1 /\ \A i \in 1 .. 1 : <<w>>[i] = w
  BY <1>1 DEF w
<1>3. NewFiles(<<w>>) = {n}
  <2>1. {j \in 1 .. Len(<<w>>) : <<w>>[j].off = -1} = {1}
    BY <1>1, <1>2 DEF w
  <2> QED
    BY <1>1, <1>2, <2>1 DEF NewFiles, w
<1>4. ASSUME NEW m \in Nat, NEW o \in Nat PROVE Spares(<<w>>, m, o)
  <2>1. o # -1
    OBVIOUS
  <2> QED
    BY <1>1, <1>2, <2>1 DEF Spares, Hits, w
<1> QED
  BY <1>2, <1>3, <1>4 DEF w

\* A flush writes the units of the current file, then, if a change of file is
\* pending, creates the next one and writes its units.
Flushes(ws) ==
    IF create = -1 THEN Chunk(ws, file.no, file.off, 0, RingLen)
    ELSE \E a, b : /\ ws = (a \o <<Create(file.no + 1)>>) \o b
                   /\ Chunk(a, file.no, file.off, 0, ChangeAt)
                   /\ Chunk(b, file.no + 1, 0, ChangeAt, RingLen)

\* The three ways of LogBuffer_Flush to go through the ring come to that.
LEMMA FlushWritesAre ==
    ASSUME Positions, life \in Nat, file.no \in Nat, file.off \in Nat,
           file = LSN(file.no, file.off), head # tail,
           \A i \in 0 .. RingLen - 1 : page[RingAt(i)] \in Cells(life)
    PROVE  Flushes(FlushWrites)
<1> DEFINE next == LSN(file.no + 1, 0)
           then == LSN(file.no, file.off + Size(First))
           N == RingLen
           W == Size(First)
<1>0. /\ head \in 0 .. BufSize - 1 /\ tail \in 0 .. BufSize - 1
      /\ W \in Nat /\ N \in Nat /\ W <= N
      /\ create # -1 => ChangeAt \in 0 .. N
      /\ head <= tail => N = tail - head /\ W = tail - head
      /\ head > tail => W = last - head /\ N = (last - head) + tail
  BY RingShape
<1>1. head \in Nat /\ tail \in Nat /\ (head <= tail \/ head > tail)
  BY <1>0, LogAssumption
<1>2. First[1] = head /\ First[2] = head + W /\ Second[2] = N - W
  <2>1. CASE head <= tail
    <3>1. First = <<head, tail>> /\ Second = <<0, 0>>
      BY <2>1 DEF First, Second
    <3> QED
      BY <1>0, <1>1, <2>1, <3>1
  <2>2. CASE head > tail
    <3>0. ~(head <= tail)
      BY <1>1, <2>2
    <3>1. First = <<head, last>> /\ Second = <<0, tail>> /\ last \in Int
      BY <3>0, <2>2, <1>0, LogAssumption DEF First, Second, Positions
    <3> QED
      BY <1>0, <1>1, <2>2, <3>1
  <2> QED
    BY <1>1, <2>1, <2>2
<1>3. ASSUME NEW n \in Nat, NEW b \in Nat, NEW i \in 0 .. W, NEW j \in i .. W
      PROVE  Chunk(AppendLog(LSN(n, b), head + i, head + j), n, b, i, j)
  <2> DEFINE p == head + i
             q == head + j
  <2>1. p \in Nat /\ q \in Nat /\ p <= q /\ i \in Nat /\ i + (q - p) = j
    BY <1>0, <1>1, <1>3
  <2>2. \A u \in i .. i + (q - p) - 1 :
           RingAt(u) = p + (u - i) /\ page[RingAt(u)] \in Cells(life)
    <3> TAKE u \in i .. i + (q - p) - 1
    <3>1. u < W /\ u \in 0 .. N - 1 /\ head + u = p + (u - i)
      BY <1>0, <1>1, <1>3
    <3> QED
      BY <3>1 DEF RingAt
  <2> HIDE DEF W, N, p, q
  <2>3. Chunk(AppendLog(LSN(n, b), p, q), n, b, i, i + (q - p))
    BY <2>1, <2>2, AppendIsChunk, Zenon
  <2> QED
    BY <2>1, <2>3 DEF p, q
<1>4. ASSUME NEW n \in Nat, NEW b \in Nat, NEW i \in W .. N, NEW j \in i .. N
      PROVE  Chunk(AppendLog(LSN(n, b), i - W, j - W), n, b, i, j)
  <2>0. W \in Nat /\ N \in Nat
    BY <1>0
  <2> DEFINE p == i - W
             q == j - W
  <2> HIDE DEF W, N
  <2>1. p \in Nat /\ q \in Nat /\ p <= q /\ i \in Nat /\ i + (q - p) = j
    BY <2>0, <1>4
  <2>2. \A u \in i .. i + (q - p) - 1 :
           RingAt(u) = p + (u - i) /\ page[RingAt(u)] \in Cells(life)
    <3> TAKE u \in i .. i + (q - p) - 1
    <3>1. ~(u < W) /\ u \in 0 .. N - 1 /\ u - W = p + (u - i)
      BY <2>0, <1>4
    <3> QED
      BY <3>1 DEF RingAt, W, N
  <2> HIDE DEF p, q
  <2>3. Chunk(AppendLog(LSN(n, b), p, q), n, b, i, i + (q - p))
    BY <2>1, <2>2, AppendIsChunk, Zenon
  <2> QED
    BY <2>1, <2>3 DEF p, q
<1>5. CASE create = -1
  <2>1. ~InFirst /\ ~InSecond
    BY <1>5 DEF InFirst, InSecond
  <2>2. FlushWrites = AppendLog(file, head, First[2]) \o AppendLog(then, 0, Second[2])
    BY <2>1 DEF FlushWrites
  <2>3. Chunk(AppendLog(file, head, First[2]), file.no, file.off, 0, W)
    <3>1. 0 \in 0 .. W /\ W \in 0 .. W /\ head + 0 = head
      BY <1>0, <1>1
    <3> HIDE DEF W, N
    <3> QED
      BY <1>2, <1>3, <3>1
  <2>4. Chunk(AppendLog(then, 0, Second[2]), file.no, file.off + W, W, N)
    <3>1. W \in W .. N /\ N \in W .. N /\ W - W = 0 /\ file.off + W \in Nat
      BY <1>0
    <3>2. then = LSN(file.no, file.off + W)
      OBVIOUS
    <3> HIDE DEF W, N, then
    <3> QED
      BY <1>2, <1>4, <3>1, <3>2
  <2>5. file.off + (W - 0) = file.off + W
    BY <1>0
  <2> HIDE DEF W, N, then
  <2>6. Chunk(FlushWrites, file.no, file.off, 0, N)
    BY <2>2, <2>3, <2>4, <2>5, JoinChunks
  <2> QED
    BY <1>5, <2>6 DEF Flushes, N
<1>6. CASE InFirst
  <2>1. create # -1 /\ create \in head .. head + W
    BY <1>2, <1>6 DEF InFirst
  <2>2. ChangeAt = create - head
    BY <1>1, <2>1 DEF ChangeAt
  <2> DEFINE a == AppendLog(file, head, create)
             b == AppendLog(next, create, First[2])
             d == AppendLog(LSN(next.no, First[2] - create), 0, Second[2])
  <2>3. FlushWrites = ((a \o <<Create(next.no)>>) \o b) \o d
    <3>1. ~InSecond
      BY <1>6 DEF InSecond
    <3> QED
      BY <1>6, <3>1 DEF FlushWrites
  <2>4. next.no = file.no + 1 /\ file.no + 1 \in Nat
    BY DEF LSN
  <2> DEFINE c == create - head
  <2>5. c \in 0 .. W /\ head + c = create /\ 0 \in 0 .. W /\ W \in c .. W /\ c \in 0 .. c
        /\ head + 0 = head /\ (head + W) - create = W - c /\ W - c \in Nat
    BY <1>0, <1>1, <2>1
  <2>6. Chunk(a, file.no, file.off, 0, c)
    <3> HIDE DEF W, N, c
    <3> QED
      BY <1>3, <2>5
  <2>7. Chunk(b, file.no + 1, 0, c, W)
    <3> HIDE DEF W, N, c
    <3> QED
      BY <1>2, <1>3, <2>4, <2>5
  <2>8. Chunk(d, file.no + 1, W - c, W, N)
    <3>1. W \in W .. N /\ N \in W .. N /\ W - W = 0
      BY <1>0
    <3> HIDE DEF W, N, c, next
    <3> QED
      BY <1>2, <1>4, <2>4, <2>5, <3>1
  <2>9. 0 + (W - c) = W - c
    BY <2>5
  <2> HIDE DEF a, b, d, c, W, N, next
  <2>10. Chunk(b \o d, file.no + 1, 0, c, N)
    BY <2>7, <2>8, <2>9, JoinChunks
  <2>11. FlushWrites = (a \o <<Create(file.no + 1)>>) \o (b \o d)
    <3> DEFINE x == a \o <<Create(file.no + 1)>>
    <3>1. a \in Seq(Writes(life)) /\ <<Create(file.no + 1)>> \in Seq(Writes(life))
      BY <2>4, <2>6, CreateWrites, Zenon DEF Chunk
    <3>2. x \in Seq(Writes(life)) /\ b \in Seq(Writes(life)) /\ d \in Seq(Writes(life))
      BY <3>1, <2>7, <2>8, Concatenated DEF Chunk
    <3> HIDE DEF x
    <3>3. (x \o b) \o d = x \o (b \o d)
      BY <3>2, ConcatAssociative, SMTT(60)
    <3> QED
      BY <2>3, <2>4, <3>3, Zenon DEF x
  <2> QED
    BY <2>1, <2>2, <2>6, <2>10, <2>11, Zenon DEF Flushes, c, N
<1>7. CASE InSecond
  <2>1. create # -1 /\ head > tail /\ create <= tail /\ ~InFirst
    BY <1>7 DEF InSecond
  <2>2. create \in 0 .. tail /\ create < head
    <3>1. create \in head .. last \/ create \in 0 .. tail
      BY <1>1, <2>1 DEF Positions
    <3>2. create \notin head .. last
      <4>1. head + W = last
        BY <1>0, <1>1, <2>1, LogAssumption DEF Positions
      <4> QED
        BY <1>2, <2>1, <4>1 DEF InFirst
    <3> QED
      BY <1>1, <2>1, <3>1, <3>2
  <2>3. ChangeAt = W + create
    BY <1>1, <2>1, <2>2 DEF ChangeAt
  <2> DEFINE a == AppendLog(file, head, First[2])
             b == AppendLog(then, 0, create)
             d == AppendLog(next, create, tail)
  <2>4. FlushWrites = ((a \o b) \o <<Create(next.no)>>) \o d
    BY <1>7, <2>1, Zenon DEF FlushWrites
  <2>5. next.no = file.no + 1 /\ file.no + 1 \in Nat
    BY DEF LSN
  <2> DEFINE c == W + create
  <2>6. /\ c \in W .. N /\ c - W = create /\ W \in 0 .. W /\ 0 \in 0 .. W /\ N \in c .. N
        /\ head + 0 = head /\ W \in W .. N /\ c \in c .. N /\ W - W = 0
        /\ file.off + W \in Nat /\ N - W = tail
    BY <1>0, <1>1, <2>1, <2>2
  <2>7. Chunk(a, file.no, file.off, 0, W)
    <3> HIDE DEF W, N, c
    <3> QED
      BY <1>2, <1>3, <2>6
  <2>8. Chunk(b, file.no, file.off + W, W, c)
    <3>1. then = LSN(file.no, file.off + W) /\ c \in W .. N
      BY <2>6
    <3> HIDE DEF W, N, c, then
    <3> QED
      BY <1>4, <2>6, <3>1
  <2>9. Chunk(d, file.no + 1, 0, c, N)
    <3> HIDE DEF W, N, c
    <3> QED
      BY <1>4, <2>5, <2>6
  <2>10. file.off + (W - 0) = file.off + W
    BY <1>0
  <2> HIDE DEF a, b, d, c, W, N, next
  <2>11. Chunk(a \o b, file.no, file.off, 0, c)
    BY <2>7, <2>8, <2>10, JoinChunks
  <2>12. FlushWrites = ((a \o b) \o <<Create(file.no + 1)>>) \o d
    BY <2>4, <2>5
  <2> QED
    BY <2>1, <2>3, <2>9, <2>11, <2>12, Zenon DEF Flushes, c, N, W
<1>8. create # -1 => InFirst \/ InSecond
  <2> SUFFICES ASSUME create # -1, ~InFirst PROVE InSecond
    OBVIOUS
  <2>1. create \notin head .. head + W
    BY <1>2 DEF InFirst
  <2>2. CASE head <= tail
    BY <1>0, <1>1, <2>1, <2>2 DEF Positions
  <2>3. CASE head > tail
    <3>1. last \in Int /\ head + W = last
      BY <1>0, <1>1, <2>3, LogAssumption DEF Positions
    <3>2. create \in 0 .. tail
      BY <1>1, <2>1, <2>3, <3>1 DEF Positions
    <3> QED
      BY <1>1, <2>3, <3>2 DEF InSecond
  <2> QED
    BY <1>1, <2>2, <2>3
<1> QED
  BY <1>5, <1>6, <1>7, <1>8

\* The writes of a flush are writes of cells, and create one file at most.
LEMMA FlushesTyped ==
    ASSUME NEW ws, Flushes(ws), file.no \in Nat
    PROVE  /\ ws \in Seq(Writes(life))
           /\ NewFiles(ws) = IF create = -1 THEN {} ELSE {file.no + 1}
<1>1. CASE create = -1
  BY <1>1 DEF Flushes, Chunk
<1>2. CASE create # -1
  <2>1. PICK a, b : /\ ws = (a \o <<Create(file.no + 1)>>) \o b
                    /\ Chunk(a, file.no, file.off, 0, ChangeAt)
                    /\ Chunk(b, file.no + 1, 0, ChangeAt, RingLen)
    BY <1>2, Zenon DEF Flushes
  <2> DEFINE c == <<Create(file.no + 1)>>
  <2>2. /\ a \in Seq(Writes(life)) /\ b \in Seq(Writes(life)) /\ c \in Seq(Writes(life))
        /\ NewFiles(a) = {} /\ NewFiles(b) = {} /\ NewFiles(c) = {file.no + 1}
    BY <2>1, CreateWrites DEF Chunk
  <2> HIDE DEF c
  <2>3. a \o c \in Seq(Writes(life)) /\ NewFiles(a \o c) = {file.no + 1}
    <3>1. NewFiles(a \o c) = NewFiles(a) \cup NewFiles(c)
      BY <2>2, NewFilesBoth
    <3>2. a \o c \in Seq(Writes(life))
      BY <2>2
    <3> QED
      BY <2>2, <3>1, <3>2
  <2>4. (a \o c) \o b \in Seq(Writes(life)) /\ NewFiles((a \o c) \o b) = {file.no + 1}
    <3> DEFINE x == a \o c
    <3>1. x \in Seq(Writes(life)) /\ NewFiles(x) = {file.no + 1}
      BY <2>3
    <3> HIDE DEF x
    <3>2. NewFiles(x \o b) = NewFiles(x) \cup NewFiles(b)
      BY <2>2, <3>1, NewFilesBoth, SMTT(60)
    <3>3. x \o b \in Seq(Writes(life)) /\ NewFiles(x \o b) = {file.no + 1}
      BY <2>2, <3>1, <3>2
    <3> QED
      BY <3>3 DEF x
  <2> QED
    BY <1>2, <2>1, <2>4 DEF c
<1> QED
  BY <1>1, <1>2

\* What a flush leaves where: its units, the marks behind them, and all that
\* was before.
LEMMA FlushesWhere ==
    ASSUME NEW ws, Flushes(ws), Positions, file.no \in Nat, file.off \in Nat
    PROVE  /\ \A i \in 0 .. RingLen - 1 : Puts(ws, RingLSN(i).no, RingLSN(i).off, page[RingAt(i)])
           /\ FileEnd > 0 => Puts(ws, file.no, file.off + FileEnd, EOL)
           /\ FileEnd = 0 => Spares(ws, file.no, file.off)
           /\ create # -1 /\ RingLen > FileEnd => Puts(ws, file.no + 1, RingLen - FileEnd, EOL)
           /\ \A m, o \in Nat : m < file.no \/ (m = file.no /\ o < file.off) => Spares(ws, m, o)
<1> DEFINE N == RingLen
<1>0. N \in Nat /\ FileEnd \in 0 .. N /\ (create # -1 => ChangeAt \in 0 .. N)
  BY RingShape
<1>1. CASE create = -1
  <2>1. Chunk(ws, file.no, file.off, 0, N) /\ FileEnd = N
    BY <1>1 DEF Flushes, FileEnd
  <2>2. \A i \in 0 .. N - 1 : RingLSN(i) = LSN(file.no, file.off + i)
    BY <1>1 DEF RingLSN
  <2>3. ASSUME NEW i \in 0 .. N - 1
        PROVE  Puts(ws, RingLSN(i).no, RingLSN(i).off, page[RingAt(i)])
    <3>1. Puts(ws, file.no, file.off + (i - 0), page[RingAt(i)])
      BY <2>1 DEF Chunk
    <3>2. RingLSN(i).no = file.no /\ RingLSN(i).off = file.off + (i - 0)
      BY <2>2 DEF LSN
    <3> QED
      BY <3>1, <3>2
  <2>4. FileEnd > 0 => Puts(ws, file.no, file.off + FileEnd, EOL)
    <3>1. FileEnd > 0 => 0 < N /\ N - 0 = FileEnd
      BY <1>0, <2>1
    <3> QED
      BY <2>1, <3>1 DEF Chunk
  <2>5. FileEnd = 0 => Spares(ws, file.no, file.off)
    <3>1. FileEnd = 0 => 0 = N
      BY <2>1
    <3> HIDE DEF N
    <3> QED
      BY <2>1, <3>1 DEF Chunk
  <2>6. \A m, o \in Nat : m < file.no \/ (m = file.no /\ o < file.off) => Spares(ws, m, o)
    <3> TAKE m, o \in Nat
    <3>1. m < file.no \/ (m = file.no /\ o < file.off) => m # file.no \/ o < file.off
      OBVIOUS
    <3> HIDE DEF N
    <3> QED
      BY <2>1, <3>1 DEF Chunk
  <2> QED
    BY <1>1, <2>3, <2>4, <2>5, <2>6
<1>2. CASE create # -1
  <2>1. PICK a, b : /\ ws = (a \o <<Create(file.no + 1)>>) \o b
                    /\ Chunk(a, file.no, file.off, 0, ChangeAt)
                    /\ Chunk(b, file.no + 1, 0, ChangeAt, N)
    BY <1>2, Zenon DEF Flushes
  <2> DEFINE c == <<Create(file.no + 1)>>
             C == ChangeAt
             x == a \o c
  <2>2. /\ a \in Seq(Writes(life)) /\ b \in Seq(Writes(life)) /\ c \in Seq(Writes(life))
        /\ \A m, o \in Nat : Spares(c, m, o)
    BY <2>1, CreateWrites DEF Chunk
  <2>3. x \in Seq(Writes(life)) /\ ws = x \o b
    <3> HIDE DEF c
    <3> QED
      BY <2>1, <2>2, Concatenated DEF c
  <2>4. FileEnd = C /\ C \in 0 .. N
    BY <1>0, <1>2 DEF FileEnd
  <2> HIDE DEF c, C, N
  <2>5. \A m, o \in Nat : \A v : Puts(a, m, o, v) => Puts(x, m, o, v)
    BY <2>2, PutsFirst DEF x
  <2>6. \A m, o \in Nat : Spares(a, m, o) => Spares(x, m, o)
    BY <2>2, SparesBoth DEF x
  <2> HIDE DEF x
  <2>7. Chunk(a, file.no, file.off, 0, C) /\ Chunk(b, file.no + 1, 0, C, N)
    BY <2>1 DEF C, N
  <2>8. \A o \in Nat : Spares(b, file.no, o)
    <3>1. file.no # file.no + 1
      OBVIOUS
    <3> QED
      BY <2>7, <3>1 DEF Chunk
  <2>9. ASSUME NEW i \in 0 .. N - 1
        PROVE  Puts(ws, RingLSN(i).no, RingLSN(i).off, page[RingAt(i)])
    <3>1. CASE i < C
      <4>1. RingLSN(i) = LSN(file.no, file.off + i)
        BY <3>1 DEF RingLSN, C
      <4>2. RingLSN(i).no = file.no /\ RingLSN(i).off = file.off + (i - 0)
        BY <4>1 DEF LSN
      <4>3. i \in 0 .. C - 1 /\ file.off + (i - 0) \in Nat
        BY <2>4, <2>9, <3>1
      <4>4. Puts(a, file.no, file.off + (i - 0), page[RingAt(i)])
        BY <2>7, <4>3 DEF Chunk
      <4>5. Puts(x, file.no, file.off + (i - 0), page[RingAt(i)])
        BY <2>5, <4>3, <4>4
      <4>6. Spares(b, file.no, file.off + (i - 0))
        BY <2>8, <4>3
      <4> QED
        BY <2>2, <2>3, <4>2, <4>5, <4>6, PutsFirst
    <3>2. CASE ~(i < C)
      <4>1. RingLSN(i) = LSN(file.no + 1, i - C)
        BY <1>2, <3>2 DEF RingLSN, C
      <4>2. RingLSN(i).no = file.no + 1 /\ RingLSN(i).off = i - C
        BY <4>1 DEF LSN
      <4>3. i \in C .. N - 1 /\ 0 + (i - C) = i - C
        BY <2>4, <2>9, <3>2
      <4>4. Puts(b, file.no + 1, 0 + (i - C), page[RingAt(i)])
        BY <2>7, <4>3 DEF Chunk
      <4> QED
        BY <2>2, <2>3, <4>2, <4>3, <4>4, PutsSecond
    <3> QED
      BY <3>1, <3>2
  <2>10. FileEnd > 0 => Puts(ws, file.no, file.off + FileEnd, EOL)
    <3> SUFFICES ASSUME FileEnd > 0 PROVE Puts(ws, file.no, file.off + FileEnd, EOL)
      OBVIOUS
    <3>1. 0 < C /\ C - 0 = FileEnd /\ file.off + FileEnd \in Nat
      BY <2>4
    <3>2. Puts(a, file.no, file.off + FileEnd, EOL)
      BY <2>7, <3>1 DEF Chunk
    <3>3. Puts(x, file.no, file.off + FileEnd, EOL) /\ Spares(b, file.no, file.off + FileEnd)
      BY <2>5, <2>8, <3>1, <3>2
    <3> QED
      BY <2>2, <2>3, <3>3, PutsFirst
  <2>11. FileEnd = 0 => Spares(ws, file.no, file.off)
    <3>1. FileEnd = 0 => 0 = C
      BY <2>4
    <3>2. FileEnd = 0 => Spares(a, file.no, file.off)
      BY <2>7, <3>1 DEF Chunk
    <3> QED
      BY <2>2, <2>3, <2>6, <2>8, <3>2, SparesBoth
  <2>12. N > FileEnd => Puts(ws, file.no + 1, N - FileEnd, EOL)
    <3> SUFFICES ASSUME N > FileEnd PROVE Puts(ws, file.no + 1, N - FileEnd, EOL)
      OBVIOUS
    <3>1. C < N /\ 0 + (N - C) = N - FileEnd
      BY <2>4, <1>0
    <3>2. Puts(b, file.no + 1, N - FileEnd, EOL)
      BY <2>7, <3>1 DEF Chunk
    <3> QED
      BY <2>2, <2>3, <3>2, PutsSecond
  <2>13. ASSUME NEW m \in Nat, NEW o \in Nat, m < file.no \/ (m = file.no /\ o < file.off)
         PROVE  Spares(ws, m, o)
    <3>1. (m # file.no \/ o < file.off) /\ m # file.no + 1
      BY <2>13
    <3>2. Spares(a, m, o) /\ Spares(b, m, o)
      BY <2>7, <3>1 DEF Chunk
    <3> QED
      BY <2>2, <2>3, <2>6, <3>2, SparesBoth
  <2> QED
    BY <1>2, <2>9, <2>10, <2>11, <2>12, <2>13 DEF N
<1> QED
  BY <1>1, <1>2

\* The file of a flush, and the files there are.
LEMMA FlushesHere ==
    ASSUME Positions, NEW A, Files(disk, A, life), file \in Places(A),
           create # -1 => file.no <= MaxFile,
           file.off + FileEnd <= FileSize + BufSize,
           NEW i \in 0 .. RingLen
    PROVE  /\ RingLSN(i).no \in DOMAIN disk /\ RingLSN(i).off \in Offset
           /\ file.no \in Nat /\ file.off \in Nat
           /\ file.no \in DOMAIN disk /\ file.off + FileEnd \in Offset /\ file.off \in Offset
           /\ create # -1 => file.no + 1 \in DOMAIN disk /\ RingLen - FileEnd \in Offset
<1>0. /\ RingLen \in Nat /\ FileEnd \in 0 .. RingLen /\ RingLen < BufSize
      /\ (create # -1 => ChangeAt = FileEnd) /\ (create = -1 => FileEnd = RingLen)
  <2>1. /\ head \in 0 .. BufSize - 1 /\ tail \in 0 .. BufSize - 1
        /\ RingLen \in Nat /\ FileEnd \in 0 .. RingLen
        /\ head <= tail => RingLen = tail - head
        /\ head > tail => RingLen = (last - head) + tail
    BY RingShape
  <2>2. BufSize \in Nat /\ (head > tail => last \in head .. BufSize - 1)
    BY LogAssumption DEF Positions
  <2>3. RingLen < BufSize
    BY <2>1, <2>2
  <2> QED
    BY <2>1, <2>3 DEF FileEnd
<1>1. BufSize \in Nat /\ FileSize \in Nat /\ MaxFile \in Nat /\ Offset = 0 .. FileSize + BufSize
  BY LogAssumption DEF Offset
<1>2. /\ file.no \in 1 .. A /\ file.off \in Offset /\ A \in 1 .. MaxFile + 1
      /\ DOMAIN disk = 1 .. MaxFile + 1
  BY DEF Places, Files
<1>3. file.no \in DOMAIN disk /\ file.off + FileEnd \in Offset
      /\ (create # -1 => file.no + 1 \in DOMAIN disk /\ RingLen - FileEnd \in Offset)
  BY <1>0, <1>1, <1>2, SMTT(60)
<1>4. CASE create = -1 \/ i < ChangeAt
  <2>1. RingLSN(i) = LSN(file.no, file.off + i)
    BY <1>4 DEF RingLSN
  <2>2. file.off + i \in Offset
    BY <1>0, <1>1, <1>2, <1>4
  <2> QED
    BY <1>1, <1>2, <1>3, <2>1, <2>2 DEF LSN
<1>5. CASE ~(create = -1 \/ i < ChangeAt)
  <2>1. RingLSN(i) = LSN(file.no + 1, i - ChangeAt)
    BY <1>5 DEF RingLSN
  <2>2. i - ChangeAt \in Offset
    BY <1>0, <1>1, <1>2, <1>5
  <2> QED
    BY <1>1, <1>2, <1>3, <1>5, <2>1, <2>2 DEF LSN
<1> QED
  BY <1>4, <1>5

\* The files when a flush is complete.
LEMMA FlushedFiles ==
    ASSUME Positions, NEW A, Files(disk, A, life), file \in Places(A),
           create # -1 => file.no <= MaxFile,
           file.off + FileEnd <= FileSize + BufSize,
           NEW ws, Flushes(ws), NEW dk, dk = Written(ws)
    PROVE  /\ \A i \in 0 .. RingLen - 1 : dk[RingLSN(i).no][RingLSN(i).off] = page[RingAt(i)]
           /\ FileEnd > 0 => dk[file.no][file.off + FileEnd] = EOL
           /\ FileEnd = 0 => dk[file.no][file.off] = disk[file.no][file.off]
           /\ create # -1 /\ RingLen > FileEnd => dk[file.no + 1][RingLen - FileEnd] = EOL
           /\ \A m \in Places(A) : Before(m, file) => dk[m.no][m.off] = disk[m.no][m.off]
<1>0. RingLen \in Nat /\ 0 \in 0 .. RingLen
  <2>1. RingLen \in Nat
    BY RingShape
  <2> QED
    BY <2>1
<1>1. /\ file.no \in Nat /\ file.off \in Nat
      /\ file.no \in DOMAIN disk /\ file.off + FileEnd \in Offset /\ file.off \in Offset
      /\ create # -1 => file.no + 1 \in DOMAIN disk /\ RingLen - FileEnd \in Offset
  BY <1>0, FlushesHere
<1>2. ws \in Seq(Writes(life))
  BY <1>1, FlushesTyped
<1>3. /\ \A i \in 0 .. RingLen - 1 : Puts(ws, RingLSN(i).no, RingLSN(i).off, page[RingAt(i)])
      /\ FileEnd > 0 => Puts(ws, file.no, file.off + FileEnd, EOL)
      /\ FileEnd = 0 => Spares(ws, file.no, file.off)
      /\ create # -1 /\ RingLen > FileEnd => Puts(ws, file.no + 1, RingLen - FileEnd, EOL)
      /\ \A m, o \in Nat : m < file.no \/ (m = file.no /\ o < file.off) => Spares(ws, m, o)
  BY <1>1, FlushesWhere
<1>4. \A n \in DOMAIN disk : \A o \in Offset :
         /\ Spares(ws, n, o) => dk[n][o] = disk[n][o]
         /\ \A c : Puts(ws, n, o, c) => dk[n][o] = c
  BY <1>2, WrittenIs
<1>5. ASSUME NEW i \in 0 .. RingLen - 1
      PROVE  dk[RingLSN(i).no][RingLSN(i).off] = page[RingAt(i)]
  <2>1. i \in 0 .. RingLen
    BY <1>0
  <2>2. RingLSN(i).no \in DOMAIN disk /\ RingLSN(i).off \in Offset
    BY <2>1, FlushesHere
  <2> QED
    BY <1>3, <1>4, <2>2
<1>6. ASSUME NEW m \in Places(A), Before(m, file)
      PROVE  dk[m.no][m.off] = disk[m.no][m.off]
  <2>1. m.no \in 1 .. A /\ m.off \in Offset /\ A \in 1 .. MaxFile + 1 /\ MaxFile \in Nat
        /\ DOMAIN disk = 1 .. MaxFile + 1
    BY LogAssumption DEF Places, Files
  <2>2. m.no \in DOMAIN disk /\ m.no \in Nat /\ m.off \in Nat
    BY <2>1 DEF Offset
  <2>3. Spares(ws, m.no, m.off)
    BY <1>3, <1>6, <2>2 DEF Before
  <2> QED
    BY <1>4, <2>1, <2>2, <2>3
<1> QED
  BY <1>1, <1>3, <1>4, <1>5, <1>6

-----------------------------------------------------------------------------
(* What is invariant *)

\* Record r begins at unit s of the ring and is whole: neither the end of the
\* page nor a change of file divides it.
Placed(s, r) ==
    /\ r.lsn = RingLSN(s) /\ r.life = life
    /\ s + r.len <= RingLen
    /\ \A k \in 1 .. r.len : page[RingAt(s + k - 1)] = Unit(r, k)
    /\ Size(First) <= s \/ s + r.len <= Size(First)
    /\ create = -1 \/ ChangeAt <= s \/ s + r.len <= ChangeAt

Contents ==
    \A i \in 0 .. RingLen - 1 :
       \E s \in 0 .. i : \E r \in Recs(life) : Placed(s, r) /\ i < s + r.len

LogStart == IF repair = NoLSN THEN anchor.chk ELSE repair

\* The types, and what a log is read from and read to.
LogTypes ==
    /\ page \in [0 .. BufSize - 1 -> Cell]
    /\ record \in Rec \cup {NoRecord} /\ cur \in LSNs /\ file \in LSNs
    /\ anchor \in [no : 1 .. MaxFile + 1, chk : LSNs] /\ up \in BOOLEAN
    /\ life \in 1 .. MaxLife /\ torn \in 0 .. MaxTorn
    /\ repair \in LSNs /\ found \in Seq(Rec)
    /\ Files(disk, anchor.no, life) /\ anchor.chk \in Places(anchor.no)

Stopped ==
    ~up => /\ life < MaxLife /\ repair = NoLSN
           /\ head = 0 /\ tail = 0 /\ create = -1 /\ record = NoRecord

\* The files lead from where the log starts to where the next flush writes;
\* the ring goes on from there to the LSN of the next record.
OnFiles ==
    /\ file \in Places(anchor.no) /\ file.no = anchor.no
    /\ file.off > 0 => EndAt(disk, file)
    /\ \E P : Path(disk, anchor.no, LogStart, file, P)

InRing ==
    /\ Contents
    /\ cur = RingLSN(RingLen)
    /\ create # -1 => /\ file.no <= MaxFile
                      /\ file.off + ChangeAt \in FileSize .. FileSize + BufSize

Pending ==
    record # NoRecord => record.lsn = cur /\ cur.off < FileSize /\ record.life = life

FoundEarlier == \A r \in Range(found) : r.life < life

Running == up => OnFiles /\ InRing /\ Pending /\ FoundEarlier

LogInv == RingInv /\ LogTypes /\ Stopped /\ Running

-----------------------------------------------------------------------------
(* Steps that place records *)

\* A record stays where it is, as long as the units, their LSNs and what may
\* divide them stay.
LEMMA ContentsKept ==
    ASSUME RingLen \in Nat, RingLen' \in Nat, RingLen <= RingLen', Contents, life' = life,
           Size(First) \in Nat, Size(First)' \in Nat,
           \A i \in 0 .. RingLen - 1 :
              (page[RingAt(i)])' = page[RingAt(i)] /\ RingLSN(i)' = RingLSN(i),
           Size(First)' = Size(First) \/ Size(First)' >= RingLen,
           create' = -1 \/ (create' = create /\ ChangeAt' = ChangeAt)
             \/ (ChangeAt' \in Nat /\ ChangeAt' >= RingLen)
    PROVE  \A i \in 0 .. RingLen - 1 :
              \E s \in 0 .. i : \E r \in Recs(life)' : Placed(s, r)' /\ i < s + r.len
<1> TAKE i \in 0 .. RingLen - 1
<1>1. PICK s \in 0 .. i : \E r \in Recs(life) : Placed(s, r) /\ i < s + r.len
  BY Zenon DEF Contents
<1>2. PICK r \in Recs(life) : Placed(s, r) /\ i < s + r.len
  BY <1>1
<1>3. r.len \in Nat /\ 1 <= r.len /\ s \in 0 .. RingLen - 1
  <2>1. r.len \in Sizes
    BY DEF Recs, Rec
  <2>2. s \in 0 .. RingLen - 1
    OBVIOUS
  <2> QED
    BY <2>1, <2>2, SizesFit
<1>4. Recs(life)' = Recs(life)
  BY DEF Recs, Rec, LSNs, Offset
<1>5. s + r.len <= RingLen
  BY <1>2 DEF Placed
<1>6. r.lsn = RingLSN(s)' /\ r.life = life'
  BY <1>2, <1>3 DEF Placed
<1>7. ASSUME NEW k \in 1 .. r.len PROVE (page[RingAt(s + k - 1)])' = Unit(r, k)
  <2>1. s + k - 1 \in 0 .. RingLen - 1
    BY <1>3, <1>5
  <2>2. page[RingAt(s + k - 1)] = Unit(r, k)
    BY <1>2 DEF Placed
  <2> QED
    BY <2>1, <2>2
<1>8. Size(First)' <= s \/ s + r.len <= Size(First)'
  <2>1. Size(First) <= s \/ s + r.len <= Size(First)
    BY <1>2 DEF Placed
  <2> QED
    BY <2>1, <1>3, <1>5
<1>9. create' = -1 \/ ChangeAt' <= s \/ s + r.len <= ChangeAt'
  <2>1. create = -1 \/ ChangeAt <= s \/ s + r.len <= ChangeAt
    BY <1>2 DEF Placed
  <2> QED
    BY <2>1, <1>3, <1>5
<1>10. s + r.len <= RingLen'
  BY <1>3, <1>5
<1>11. Placed(s, r)'
  BY <1>6, <1>7, <1>8, <1>9, <1>10 DEF Placed
<1> QED
  BY <1>2, <1>4, <1>11

\* A new log is in order.
LEMMA LogInit == Init => LogInv
<1> SUFFICES ASSUME Init PROVE LogInv
  OBVIOUS
<1>0. BufSize \in Nat \ {0} /\ FileSize \in Nat /\ MaxFile \in Nat \ {0} /\ MaxLife \in Nat \ {0}
      /\ MaxTorn \in Nat /\ Offset = 0 .. FileSize + BufSize
  BY LogAssumption DEF Offset
<1>1. RingInv
  BY RingInit
<1>2. anchor.no = 1 /\ anchor.chk = LSN(1, 0) /\ file = LSN(1, 0) /\ cur = LSN(1, 0)
      /\ up = TRUE /\ life = 1 /\ repair = NoLSN /\ found = << >> /\ record = NoRecord
      /\ head = 0 /\ tail = 0 /\ create = -1 /\ torn = 0
  BY DEF Init
<1>3. LSN(1, 0) \in Places(1) /\ LSN(1, 0) \in LSNs /\ NoLSN \in LSNs
  BY <1>0 DEF LSN, Places, LSNs, NoLSN
<1>4. Files(disk, 1, 1)
  <2>1. PICK e \in StaleEnds \cup {-1, 0} :
          disk = [n \in 1 .. MaxFile + 1 |-> StaleFile(IF n = 1 THEN 0 ELSE e)]
    BY DEF Init
  <2>2. \A x : StaleFile(x) \in [Offset -> Cells(1)]
    BY MarkIsCell DEF StaleFile
  <2>3. 1 \in 1 .. MaxFile + 1
    BY <1>0
  <2> QED
    BY <2>1, <2>2, <2>3 DEF Files
<1>5. page \in [0 .. BufSize - 1 -> Cell]
  <2>1. Stale \in Cell
    BY <1>0 DEF Stale, Unit, Cell
  <2> QED
    BY <2>1 DEF Init
<1>6. LogTypes
  <2>1. 1 \in 1 .. MaxFile + 1 /\ 1 \in 1 .. MaxLife /\ 0 \in 0 .. MaxTorn /\ << >> \in Seq(Rec)
    BY <1>0
  <2>2. anchor \in [no : 1 .. MaxFile + 1, chk : LSNs]
    BY <1>3, <2>1 DEF Init
  <2> QED
    BY <1>2, <1>3, <1>4, <1>5, <2>1, <2>2 DEF LogTypes
<1>7. OnFiles
  <2>1. file.no = 1 /\ file.off = 0
    BY <1>2 DEF LSN
  <2>2. Path(disk, 1, LSN(1, 0), LSN(1, 0), {LSN(1, 0)})
    BY <1>3 DEF Path
  <2>3. LogStart = LSN(1, 0)
    BY <1>2 DEF LogStart
  <2> QED
    BY <1>2, <1>3, <2>1, <2>2, <2>3 DEF OnFiles
<1>8. InRing
  <2>1. RingLen = 0
    BY <1>1, <1>2, RingShape DEF RingInv
  <2>2. 0 .. RingLen - 1 = {}
    BY <2>1
  <2>3. RingLSN(0) = LSN(1, 0)
    BY <1>2 DEF RingLSN, LSN
  <2> QED
    BY <1>2, <2>1, <2>2, <2>3 DEF InRing, Contents
<1>9. FoundEarlier
  BY <1>2 DEF FoundEarlier, Range
<1> QED
  BY <1>1, <1>2, <1>6, <1>7, <1>8, <1>9 DEF LogInv, Stopped, Running, Pending

\* The unit of the record being placed is one of this run.
LEMMA LogNumbers ==
    ASSUME LogInv
    PROVE  /\ BufSize \in Nat /\ 1 <= BufSize /\ FileSize \in Nat /\ BufSize <= FileSize
           /\ MaxFile \in Nat /\ 1 <= MaxFile /\ MaxLife \in Nat
           /\ Offset = 0 .. FileSize + BufSize
           /\ life \in Nat /\ 1 <= life /\ life <= MaxLife
           /\ cur.no \in 0 .. MaxFile + 2 /\ cur.off \in Offset /\ cur = LSN(cur.no, cur.off)
           /\ file.no \in 0 .. MaxFile + 2 /\ file.off \in Offset
           /\ file = LSN(file.no, file.off)
           /\ anchor.no \in Nat /\ 1 <= anchor.no /\ anchor.no <= MaxFile + 1
           /\ Positions
<1>1. cur \in LSNs /\ file \in LSNs /\ life \in 1 .. MaxLife
      /\ anchor \in [no : 1 .. MaxFile + 1, chk : LSNs] /\ Positions
  BY DEF LogInv, LogTypes, RingInv
<1>2. BufSize \in Nat /\ 1 <= BufSize /\ FileSize \in Nat /\ BufSize <= FileSize
      /\ MaxFile \in Nat /\ 1 <= MaxFile /\ MaxLife \in Nat
  BY LogAssumption
<1>3. \A l \in LSNs : l.no \in 0 .. MaxFile + 2 /\ l.off \in Offset /\ l = LSN(l.no, l.off)
  BY DEF LSNs, LSN
<1>4. anchor.no \in 1 .. MaxFile + 1
  BY <1>1
<1> QED
  BY <1>1, <1>2, <1>3, <1>4 DEF Offset

\* What the files lead to, as long as nothing is written.
LEMMA FilesSame ==
    ASSUME UNCHANGED <<disk, anchor, file, repair, found, life>>
    PROVE  /\ OnFiles => OnFiles'
           /\ FoundEarlier => FoundEarlier'
           /\ Files(disk, anchor.no, life) /\ anchor.chk \in Places(anchor.no)
                => Files(disk, anchor.no, life)' /\ (anchor.chk \in Places(anchor.no))'
<1>1. OnFiles => OnFiles'
  BY DEF OnFiles, LogStart, EndAt, Path, Leads, RecordAt, AfterRecord, NextFile, Places, Before
<1>2. FoundEarlier => FoundEarlier'
  BY DEF FoundEarlier, Range
<1>3. Files(disk, anchor.no, life) /\ anchor.chk \in Places(anchor.no)
        => Files(disk, anchor.no, life)' /\ (anchor.chk \in Places(anchor.no))'
  BY DEF Files, Places, Cells, Recs, Rec, LSNs, Offset
<1> QED
  BY <1>1, <1>2, <1>3

\* The units of the ring, as long as it does not move.
LEMMA RingSame ==
    ASSUME UNCHANGED <<head, tail, last>>
    PROVE  /\ Size(First)' = Size(First) /\ RingLen' = RingLen
           /\ \A i : RingAt(i)' = RingAt(i)
           /\ create' = create => ChangeAt' = ChangeAt
<1>1. Size(First)' = Size(First) /\ Size(Second)' = Size(Second)
  BY DEF Size, First, Second
<1>2. RingLen' = RingLen
  BY <1>1 DEF RingLen
<1>3. \A i : RingAt(i)' = RingAt(i)
  BY <1>1 DEF RingAt
<1>4. create' = create => ChangeAt' = ChangeAt
  BY <1>1 DEF ChangeAt
<1> QED
  BY <1>1, <1>2, <1>3, <1>4

\* A record gets its LSN.
LEMMA BeginWriteLog ==
    ASSUME LogInv, RingInv', NEW n \in Sizes, BeginWrite(n)
    PROVE  LogInv'
<1>0. up /\ Running /\ LogTypes /\ up' = up
  BY DEF BeginWrite, restart, LogInv, Running
<1>1. UNCHANGED <<page, head, tail, last, file, disk, anchor, up, life, repair, found, torn>>
  BY DEF BeginWrite, restart
<1>2. OnFiles /\ InRing /\ FoundEarlier
  BY <1>0 DEF Running
<1>3. ASSUME cur.off >= FileSize PROVE cur' \in LSNs /\ cur'.off < FileSize /\ InRing'
  <2>1. create = -1 /\ cur.no < MaxFile /\ create' = tail /\ cur' = LSN(cur.no + 1, 0)
    BY <1>3 DEF BeginWrite
  <2>2. cur = LSN(file.no, file.off + RingLen)
    BY <1>2, <2>1 DEF InRing, RingLSN
  <2>3. cur.no = file.no /\ cur.off = file.off + RingLen
    BY <2>2 DEF LSN
  <2>4. ChangeAt' = RingLen
    <3>1. RingLen = IF head <= tail THEN tail - head ELSE Size(First) + tail
      BY LogNumbers, RingShape, SMTT(60)
    <3>2. ~ (head <= tail) => ~ (tail >= head)
      BY LogNumbers, RingShape
    <3> QED
      BY <1>1, <2>1, <3>1, <3>2, RingSame DEF ChangeAt
  <2>5. create' # -1
    BY <2>1, LogNumbers, RingShape
  <2>6. RingLSN(RingLen)' = cur'
    BY <2>1, <2>3, <2>4, <2>5, <1>1, RingSame, LogNumbers, RingShape, SMTT(60) DEF RingLSN
  <2>7. ASSUME NEW i \in 0 .. RingLen - 1 PROVE RingLSN(i)' = RingLSN(i)
    <3>1. i < ChangeAt'
      BY <2>4, LogNumbers, RingShape
    <3> QED
      BY <3>1, <2>1, <1>1 DEF RingLSN
  <2>8. Contents'
    <3>1. RingLen \in Nat /\ RingLen' = RingLen /\ Size(First) \in Nat /\ Size(First)' = Size(First)
      BY <1>1, RingSame, LogNumbers, RingShape
    <3>2. \A i \in 0 .. RingLen - 1 : (page[RingAt(i)])' = page[RingAt(i)]
      BY <1>1, RingSame
    <3>3. \A i \in 0 .. RingLen - 1 :
             \E s \in 0 .. i : \E r \in Recs(life)' : Placed(s, r)' /\ i < s + r.len
      BY <1>1, <1>2, <2>4, <2>7, <3>1, <3>2, ContentsKept DEF InRing
    <3> QED
      BY <3>1, <3>3 DEF Contents
  <2>9. InRing'
    <3>1. cur' = RingLSN(RingLen)'
      BY <2>6, <1>1, RingSame
    <3>2. file.no <= MaxFile
      BY <2>1, <2>3, LogNumbers
    <3>3. file.off + RingLen \in FileSize .. FileSize + BufSize
      BY <1>3, <2>3, LogNumbers
    <3> QED
      BY <1>1, <2>4, <2>8, <3>1, <3>2, <3>3 DEF InRing
  <2>10. cur' \in LSNs /\ cur'.off < FileSize
    BY <2>1, LogNumbers, SMTT(60) DEF LSNs, LSN
  <2> QED
    BY <2>9, <2>10
<1>4. ASSUME ~ (cur.off >= FileSize) PROVE cur' \in LSNs /\ cur'.off < FileSize /\ InRing'
  <2>1. UNCHANGED <<create, cur>>
    BY <1>4 DEF BeginWrite
  <2>2. ChangeAt' = ChangeAt /\ \A i : RingLSN(i)' = RingLSN(i)
    BY <1>1, <2>1, RingSame DEF RingLSN
  <2>3. Contents'
    BY <1>1, <1>2, <2>1, <2>2, RingSame, LogNumbers
    DEF InRing, Contents, Placed, Recs, Rec, LSNs, Offset
  <2>4. InRing'
    BY <1>1, <1>2, <2>1, <2>2, <2>3, RingSame DEF InRing
  <2> QED
    <3>1. cur \in LSNs /\ cur.off < FileSize
      BY <1>0, <1>4, LogNumbers, SMTT(60) DEF LogTypes
    <3> QED
      BY <2>1, <2>4, <3>1
<1>5. cur' \in LSNs /\ cur'.off < FileSize /\ InRing'
  BY <1>3, <1>4, LogNumbers, Zenon
<1>6. record' \in Rec /\ record'.lsn = cur' /\ record'.life = life
  <2>1. record' = [lsn |-> cur', len |-> n, life |-> life]
    BY DEF BeginWrite
  <2>2. life \in 1 .. MaxLife
    BY <1>0 DEF LogTypes
  <2> QED
    BY <2>1, <2>2, <1>5 DEF Rec
<1>7. /\ OnFiles' /\ FoundEarlier'
      /\ Files(disk, anchor.no, life)' /\ (anchor.chk \in Places(anchor.no))'
  BY <1>0, <1>1, <1>2, FilesSame DEF LogTypes
<1>8. LogTypes'
  BY <1>0, <1>1, <1>5, <1>6, <1>7 DEF LogTypes
<1>9. Pending'
  BY <1>1, <1>5, <1>6 DEF Pending
<1> QED
  BY <1>0, <1>5, <1>7, <1>8, <1>9 DEF LogInv, Running, Stopped

\* Units, places and marks of the ring are the same after going on at its
\* beginning.
LEMMA WrapLog ==
    ASSUME LogInv, RingInv', Wrap
    PROVE  LogInv'
<1>0. up /\ Running /\ LogTypes
  BY DEF Wrap, LogInv, Running
<1>1. UNCHANGED <<page, head, create, cur, file, record, disk, anchor, up, life,
                  repair, found, torn>>
      /\ last' = tail /\ tail' = 0 /\ head <= tail
  BY DEF Wrap, restart, NoRoomAtEnd
<1>2. OnFiles /\ InRing /\ FoundEarlier /\ Pending
  BY <1>0 DEF Running
<1>3. Positions /\ Positions'
  BY DEF LogInv, RingInv
<1>4. head \in Nat /\ tail \in Nat /\ head > 0 /\ (create # -1 => create >= head /\ create <= tail)
      /\ create \in Int
  BY <1>1, <1>3, LogNumbers, SMTT(60) DEF Positions
<1>5. Size(First) = tail - head /\ Size(First)' = tail - head
  BY <1>1, <1>4 DEF First, Size
<1>6. RingLen = tail - head /\ RingLen' = tail - head
  <2>1. Size(Second) = 0 /\ Size(Second)' = 0
    BY <1>1, <1>4 DEF Second, Size
  <2> QED
    BY <2>1, <1>4, <1>5 DEF RingLen
<1>7. create # -1 => ChangeAt' = ChangeAt
  BY <1>1, <1>4 DEF ChangeAt
<1>8. \A i : RingLSN(i)' = RingLSN(i)
  BY <1>1, <1>7 DEF RingLSN
<1>9. ASSUME NEW i \in Int PROVE RingAt(i)' = RingAt(i)
  BY <1>1, <1>5 DEF RingAt
<1>10. Contents'
  <2>1. ASSUME NEW s \in Nat, NEW r \in Recs(life), Placed(s, r)
        PROVE  Placed(s, r)'
    <3>1. r.len \in Nat
      BY SizesFit DEF Recs, Rec
    <3>2. \A k \in 1 .. r.len : page'[RingAt(s + k - 1)'] = Unit(r, k)
      BY <1>1, <1>9, <2>1, <3>1 DEF Placed
    <3> QED
      BY <1>1, <1>5, <1>6, <1>7, <1>8, <2>1, <3>2 DEF Placed
  <2>2. Recs(life)' = Recs(life)
    BY <1>1 DEF Recs, Rec, LSNs, Offset
  <2> SUFFICES ASSUME NEW i \in 0 .. RingLen - 1
               PROVE  \E s \in 0 .. i : \E r \in Recs(life)' : Placed(s, r)' /\ i < s + r.len
    BY <1>6 DEF Contents
  <2>3. PICK s \in 0 .. i : \E r \in Recs(life) : Placed(s, r) /\ i < s + r.len
    BY <1>2 DEF InRing, Contents
  <2>4. s \in Nat
    OBVIOUS
  <2> QED
    BY <2>1, <2>2, <2>3, <2>4
<1>11. InRing'
  BY <1>1, <1>2, <1>6, <1>7, <1>8, <1>10 DEF InRing
<1>12. /\ OnFiles' /\ FoundEarlier'
       /\ Files(disk, anchor.no, life)' /\ (anchor.chk \in Places(anchor.no))'
  BY <1>0, <1>1, <1>2, FilesSame DEF LogTypes
<1>13. LogTypes'
  BY <1>0, <1>1, <1>12 DEF LogTypes
<1>14. Pending'
  BY <1>1, <1>2 DEF Pending
<1> QED
  BY <1>0, <1>1, <1>11, <1>12, <1>13, <1>14 DEF LogInv, Running, Stopped

\* The number of units after a step, from the positions after it.
LEMMA RingSizeNext ==
    ASSUME head' \in Int, tail' \in Int, last' \in Int
    PROVE  /\ head' <= tail' => Size(First)' = tail' - head' /\ RingLen' = tail' - head'
           /\ head' > tail' => Size(First)' = last' - head' /\ RingLen' = (last' - head') + tail'
<1>1. head' <= tail' => Size(First)' = tail' - head' /\ Size(Second)' = 0
  BY DEF Size, First, Second
<1>2. head' > tail' => Size(First)' = last' - head' /\ Size(Second)' = tail'
  <2>1. head' > tail' => ~ (head' <= tail')
    OBVIOUS
  <2>2. head' > tail' => First' = <<head', last'>> /\ Second' = <<0, tail'>>
    BY <2>1 DEF First, Second
  <2>3. Size(First)' = First'[2] - First'[1] /\ Size(Second)' = Second'[2] - Second'[1]
    BY DEF Size
  <2> QED
    BY <2>2, <2>3
<1>3. RingLen' = Size(First)' + Size(Second)'
  BY DEF RingLen
<1> QED
  BY <1>1, <1>2, <1>3

\* The units of a record follow those in the ring.
LEMMA CopyLog ==
    ASSUME LogInv, RingInv', Copy
    PROVE  LogInv'
<1>0. up /\ Running /\ LogTypes
  BY DEF Copy, LogInv, Running
<1>1. UNCHANGED <<head, last, create, file, disk, anchor, up, life, repair, found, torn>>
      /\ tail' = tail + record.len /\ record' = NoRecord /\ record # NoRecord
      /\ cur' = LSN(cur.no, cur.off + record.len)
      /\ ~ (head > tail /\ record.len >= head - tail)
      /\ ~ (head <= tail /\ record.len >= BufSize - tail)
  BY DEF Copy, restart, NoRoom, NoRoomAtEnd
<1>2. OnFiles /\ InRing /\ FoundEarlier /\ Pending /\ Positions /\ Positions'
  BY <1>0 DEF Running, LogInv, RingInv
<1>3. record \in Recs(life) /\ record.len \in 1 .. BufSize - 1 /\ record.lsn = cur
      /\ record.life = life /\ cur.off < FileSize
  <2>1. record \in Rec
    BY <1>0, <1>1 DEF LogTypes
  <2>2. record.len \in Sizes
    BY <2>1 DEF Rec
  <2>3. record.lsn = cur /\ record.life = life /\ cur.off < FileSize
    BY <1>1, <1>2 DEF Pending
  <2>4. record.len \in 1 .. BufSize - 1
    BY <2>2, SizesFit, LogNumbers, SMTT(60)
  <2>5. life <= life
    BY LogNumbers
  <2> QED
    BY <2>1, <2>3, <2>4, <2>5 DEF Recs
<1>4. head \in 0 .. BufSize - 1 /\ tail \in 0 .. BufSize - 1 /\ BufSize \in Nat
      /\ last \in Int /\ create \in Int
  <2>1. head \in 0 .. BufSize - 1 /\ tail \in 0 .. BufSize - 1 /\ BufSize \in Nat
    BY <1>2, LogNumbers DEF Positions
  <2>2. last \in Int
    BY <1>2, <2>1 DEF Positions
  <2>3. CASE create = -1
    BY <2>1, <2>2, <2>3
  <2>4. CASE create # -1
    <3>1. create \in head .. tail \/ create \in head .. last \/ create \in 0 .. tail
      BY <1>2, <2>4 DEF Positions
    <3> QED
      BY <2>1, <2>2, <3>1
  <2> QED
    BY <2>3, <2>4
<1>a. PICK n, m, new : n = record.len /\ m = RingLen /\ new = record
  OBVIOUS
<1>5. Size(First) \in Nat /\ m \in Nat /\ Size(First) <= m /\ (create # -1 => ChangeAt \in 0 .. m)
      /\ (head <= tail => m = tail - head /\ Size(First) = tail - head)
      /\ (head > tail => Size(First) = last - head /\ m = (last - head) + tail)
  BY <1>2, <1>a, RingShape
<1>6. n \in Nat /\ 1 <= n /\ n < BufSize
  BY <1>3, <1>4, <1>a
<1>7. /\ head' = head /\ last' = last /\ create' = create /\ tail' = tail + n /\ tail' \in Int
      /\ (head <= tail <=> head' <= tail') /\ (head > tail <=> head' > tail')
      /\ (head > tail => tail + n < head) /\ (head <= tail => tail + n < BufSize)
  BY <1>1, <1>4, <1>6, <1>a
<1>8. /\ RingLen' = m + n
      /\ head <= tail => Size(First)' = m + n
      /\ head > tail => Size(First)' = Size(First)
  <2>1. /\ head' <= tail' => Size(First)' = tail' - head' /\ RingLen' = tail' - head'
        /\ head' > tail' => Size(First)' = last' - head' /\ RingLen' = (last' - head') + tail'
    BY <1>4, <1>7, RingSizeNext
  <2> QED
    BY <2>1, <1>4, <1>5, <1>6, <1>7
<1>9. create # -1 => ChangeAt' = ChangeAt
  BY <1>4, <1>7, <1>8 DEF ChangeAt
<1>10. \A i : RingLSN(i)' = RingLSN(i)
  BY <1>1, <1>9 DEF RingLSN
<1>11. ASSUME NEW i \in 0 .. m - 1
       PROVE  RingAt(i)' = RingAt(i) /\ page'[RingAt(i)] = page[RingAt(i)]
  <2>1. RingAt(i)' = RingAt(i)
    BY <1>4, <1>5, <1>6, <1>7, <1>8 DEF RingAt
  <2>2. ~ (RingAt(i) \in tail .. tail + n - 1)
    BY <1>4, <1>5, <1>6, <1>7 DEF RingAt
  <2>3. RingAt(i) \in DOMAIN page
    <3>1. RingAt(i) \in 0 .. BufSize - 1
      BY <1>2, <1>a, RingShape
    <3> QED
      BY <3>1, <1>0 DEF LogTypes
  <2> QED
    BY <2>1, <2>2, <2>3, <1>a DEF Copy
<1>b. \A i \in DOMAIN page : i \in tail .. tail + n - 1 => page'[i] = Unit(new, i - tail + 1)
  BY <1>a DEF Copy
<1>12. ASSUME NEW k \in 1 .. n
       PROVE  RingAt(m + k - 1)' = tail + k - 1 /\ page'[tail + k - 1] = Unit(new, k)
  <2>1. RingAt(m + k - 1)' = tail + k - 1
    BY <1>4, <1>5, <1>6, <1>7, <1>8 DEF RingAt
  <2>2. PICK j : j = tail + k - 1
    OBVIOUS
  <2>3. j \in tail .. tail + n - 1 /\ j \in 0 .. BufSize - 1 /\ j - tail + 1 = k
    BY <2>2, <1>4, <1>6, <1>7
  <2>4. j \in DOMAIN page
    BY <2>3, <1>0 DEF LogTypes
  <2>5. page'[j] = Unit(new, j - tail + 1)
    BY <2>3, <2>4, <1>b
  <2>6. page'[j] = Unit(new, k)
    BY <2>3, <2>5
  <2> QED
    BY <2>1, <2>2, <2>6
<1>13. new \in Recs(life)' /\ Placed(m, new)' /\ new.len = n
  <2>1. new \in Recs(life)'
    BY <1>1, <1>3, <1>a DEF Recs, Rec, LSNs, Offset
  <2>2. new.lsn = RingLSN(m)' /\ new.life = life' /\ new.len = n
    BY <1>1, <1>2, <1>3, <1>10, <1>a DEF InRing
  <2>3. \A k \in 1 .. n : page'[RingAt(m + k - 1)'] = Unit(new, k)
    BY <1>12
  <2>4. m + n <= RingLen' /\ (Size(First)' <= m \/ m + n <= Size(First)')
    BY <1>4, <1>5, <1>6, <1>8
  <2>5. create' = -1 \/ ChangeAt' <= m
    BY <1>1, <1>5, <1>9
  <2> QED
    BY <2>1, <2>2, <2>3, <2>4, <2>5 DEF Placed
<1>14. \A i \in 0 .. m - 1 :
          \E s \in 0 .. i : \E r \in Recs(life)' : Placed(s, r)' /\ i < s + r.len
  <2>1. RingLen' \in Nat /\ m <= RingLen' /\ Size(First)' \in Nat
        /\ (Size(First)' = Size(First) \/ Size(First)' >= m)
    BY <1>4, <1>5, <1>6, <1>8
  <2>2. \A i \in 0 .. m - 1 : (page[RingAt(i)])' = page[RingAt(i)] /\ RingLSN(i)' = RingLSN(i)
    BY <1>10, <1>11
  <2>3. create' = -1 \/ (create' = create /\ ChangeAt' = ChangeAt)
    BY <1>1, <1>9
  <2>4. Contents /\ life' = life
    BY <1>1, <1>2 DEF InRing
  <2> QED
    BY <1>5, <1>a, <2>1, <2>2, <2>3, <2>4, ContentsKept
<1>15. Contents'
  <2> SUFFICES ASSUME NEW i \in 0 .. RingLen' - 1
               PROVE  \E s \in 0 .. i : \E r \in Recs(life)' : Placed(s, r)' /\ i < s + r.len
    BY DEF Contents
  <2>1. CASE i < m
    <3>1. i \in 0 .. m - 1
      BY <2>1, <1>5, <1>6, <1>8
    <3> QED
      BY <3>1, <1>14
  <2>2. CASE ~ (i < m)
    <3>1. m \in 0 .. i /\ i < m + new.len
      BY <2>2, <1>5, <1>6, <1>8, <1>13
    <3> QED
      BY <3>1, <1>13
  <2> QED
    BY <2>1, <2>2
<1>16. cur' = RingLSN(m + n)'
  <2>1. cur = RingLSN(m)
    BY <1>2, <1>a DEF InRing
  <2>2. RingLSN(m + n)' = RingLSN(m + n)
    BY <1>10
  <2>3. CASE create = -1
    <3>1. cur.no = file.no /\ cur.off = file.off + m
      BY <2>1, <2>3 DEF RingLSN, LSN
    <3>2. (file.off + m) + n = file.off + (m + n)
      BY <1>5, <1>6, LogNumbers, SMTT(60)
    <3> QED
      BY <2>2, <2>3, <3>1, <3>2, <1>1, <1>a DEF RingLSN
  <2>4. CASE create # -1
    <3>1. ~ (m < ChangeAt) /\ ~ (m + n < ChangeAt) /\ ChangeAt \in Int
      BY <2>4, <1>5, <1>6
    <3>2. cur.no = file.no + 1 /\ cur.off = m - ChangeAt
      BY <2>1, <2>4, <3>1 DEF RingLSN, LSN
    <3>3. (m - ChangeAt) + n = (m + n) - ChangeAt
      BY <1>5, <1>6, <3>1
    <3> QED
      BY <2>2, <2>4, <3>1, <3>2, <3>3, <1>1, <1>a DEF RingLSN
  <2> QED
    BY <2>3, <2>4
<1>17. InRing'
  <2>1. cur' = (RingLSN(RingLen))'
    BY <1>8, <1>16
  <2> QED
    BY <1>1, <1>2, <1>9, <1>15, <2>1 DEF InRing
<1>18. cur' \in LSNs
  BY <1>1, <1>3, <1>6, <1>a, LogNumbers, SMTT(60) DEF LSNs, LSN
<1>19. page' \in [0 .. BufSize - 1 -> Cell]
  <2>1. ASSUME NEW i \in tail .. tail + n - 1 PROVE Unit(new, i - tail + 1) \in Cell
    <3>1. i - tail + 1 \in 0 .. BufSize
      BY <1>4, <1>6
    <3> QED
      BY <3>1, <1>3, <1>a DEF Unit, Cell, Recs
  <2>2. page \in [0 .. BufSize - 1 -> Cell]
    BY <1>0 DEF LogTypes
  <2> QED
    BY <2>1, <2>2, <1>a DEF Copy
<1>20. /\ OnFiles' /\ FoundEarlier'
       /\ Files(disk, anchor.no, life)' /\ (anchor.chk \in Places(anchor.no))'
  BY <1>0, <1>1, <1>2, FilesSame DEF LogTypes
<1>21. LogTypes'
  BY <1>0, <1>1, <1>18, <1>19, <1>20 DEF LogTypes
<1>22. Pending'
  BY <1>1 DEF Pending
<1> QED
  BY <1>0, <1>1, <1>17, <1>20, <1>21, <1>22 DEF LogInv, Running, Stopped

\* The ring holds units of records of this run or earlier ones.
LEMMA RingCells ==
    ASSUME LogInv, up
    PROVE  \A i \in 0 .. RingLen - 1 : page[RingAt(i)] \in Cells(life)
<1> TAKE i \in 0 .. RingLen - 1
<1>1. Contents
  BY DEF LogInv, Running, InRing
<1>2. PICK s \in 0 .. i : \E r \in Recs(life) : Placed(s, r) /\ i < s + r.len
  BY <1>1 DEF Contents
<1>3. PICK r \in Recs(life) : Placed(s, r) /\ i < s + r.len
  BY <1>2
<1>4. r.len \in Nat /\ r.len < BufSize /\ BufSize \in Nat
  BY SizesFit, LogNumbers DEF Recs, Rec
<1>5. i - s + 1 \in 1 .. r.len /\ s + (i - s + 1) - 1 = i /\ i - s + 1 \in 0 .. BufSize
  BY <1>3, <1>4
<1>6. page[RingAt(i)] = Unit(r, i - s + 1)
  <2>1. \A k \in 1 .. r.len : page[RingAt(s + k - 1)] = Unit(r, k)
    BY <1>3 DEF Placed
  <2>2. PICK k \in 1 .. r.len : k = i - s + 1
    BY <1>5
  <2>3. s + k - 1 = i
    BY <2>2, <1>5
  <2> QED
    BY <2>1, <2>2, <2>3
<1> QED
  BY <1>5, <1>6 DEF Cells, Unit

\* All the writes of a flush.
LEMMA WritesOfFlush ==
    ASSUME LogInv, up
    PROVE  /\ head # tail => Flushes(FlushWrites)
           /\ FlushWrites \in Seq(Writes(life))
           /\ NewFiles(FlushWrites) \subseteq IF create = -1 THEN {} ELSE {file.no + 1}
<1>1. CASE head # tail
  <2>1. Flushes(FlushWrites)
    BY <1>1, RingCells, LogNumbers, FlushWritesAre
  <2> QED
    BY <2>1, FlushesTyped, LogNumbers, SMTT(60)
<1>2. CASE head = tail
  <2>1. FlushWrites = << >>
    BY <1>2 DEF FlushWrites
  <2>2. << >> \in Seq(Writes(life)) /\ NewFiles(<< >>) = {}
    BY DEF NewFiles
  <2> QED
    BY <1>2, <2>1, <2>2
<1> QED
  BY <1>1, <1>2

\* The first k writes of a sequence.
LEMMA FirstWrites ==
    ASSUME NEW S, NEW ws \in Seq(S), NEW k \in 0 .. Len(ws)
    PROVE  SubSeq(ws, 1, k) \in Seq(S) /\ NewFiles(SubSeq(ws, 1, k)) \subseteq NewFiles(ws)
<1>1. SubSeq(ws, 1, k) \in Seq(S) /\ Len(ws) \in Nat
  OBVIOUS
<1>2. Len(SubSeq(ws, 1, k)) = k /\ \A i \in 1 .. k : SubSeq(ws, 1, k)[i] = ws[i]
  OBVIOUS
<1>3. \A i \in 1 .. k : i \in 1 .. Len(ws)
  BY <1>1
<1> QED
  BY <1>1, <1>2, <1>3 DEF NewFiles

\* The log anchor after some writes.
LEMMA AnchorIs ==
    ASSUME NEW ws, NEW n, NewFiles(ws) \subseteq {n},
           anchor \in [no : 1 .. MaxFile + 1, chk : LSNs]
    PROVE  /\ AnchorWritten(ws).chk = anchor.chk
           /\ AnchorWritten(ws).no = IF NewFiles(ws) = {} THEN anchor.no ELSE n
           /\ AnchorWritten(ws).no \in 1 .. MaxFile + 1 =>
                AnchorWritten(ws) \in [no : 1 .. MaxFile + 1, chk : LSNs]
<1>1. AnchorWritten(ws) = IF NewFiles(ws) = {} THEN anchor
                          ELSE [anchor EXCEPT !.no = CHOOSE m \in NewFiles(ws) : TRUE]
  BY DEF AnchorWritten, NewFiles
<1>2. NewFiles(ws) # {} => (CHOOSE m \in NewFiles(ws) : TRUE) = n
  OBVIOUS
<1> QED
  BY <1>1, <1>2

\* More files have more places.
LEMMA MorePlaces ==
    ASSUME NEW A \in Nat, NEW B \in Nat, A <= B
    PROVE  Places(A) \subseteq Places(B)
BY DEF Places

\* The buffer is gone; the files hold a part of what was to be flushed.
LEMMA CrashLog ==
    ASSUME LogInv, RingInv', NEW k \in 0 .. Len(FlushWrites), Crash(k)
    PROVE  LogInv'
<1>0. up /\ Running /\ LogTypes /\ repair = NoLSN /\ life < MaxLife
  BY DEF Crash, LogInv, Running
<1>1. InRing /\ OnFiles
  BY <1>0 DEF Running
<1> DEFINE ws == SubSeq(FlushWrites, 1, k)
<1>2. ws \in Seq(Writes(life))
      /\ NewFiles(ws) \subseteq (IF create = -1 THEN {} ELSE {file.no + 1})
  BY <1>0, WritesOfFlush, FirstWrites
<1>3. disk' = Written(ws) /\ anchor' = AnchorWritten(ws)
  BY DEF Crash
<1>4. NewFiles(ws) \subseteq {file.no + 1}
  BY <1>2
<1> HIDE DEF ws
<1>5. /\ anchor'.chk = anchor.chk
      /\ anchor'.no = IF NewFiles(ws) = {} THEN anchor.no ELSE file.no + 1
      /\ anchor'.no \in 1 .. MaxFile + 1 => anchor' \in [no : 1 .. MaxFile + 1, chk : LSNs]
  BY <1>0, <1>3, <1>4, AnchorIs, Zenon DEF LogTypes
<1>6. anchor'.no \in 1 .. MaxFile + 1 /\ anchor.no <= anchor'.no
  <2>1. NewFiles(ws) # {} => file.no <= MaxFile
    BY <1>1, <1>2 DEF InRing
  <2>2. file.no = anchor.no
    BY <1>1 DEF OnFiles
  <2> QED
    BY <1>5, <2>1, <2>2, LogNumbers, SMTT(60)
<1>7. Files(disk', anchor'.no, life)
  BY <1>0, <1>2, <1>3, <1>6, WrittenCells DEF LogTypes
<1>8. anchor.chk \in Places(anchor'.no)
  <2>1. anchor.no \in Nat /\ anchor'.no \in Nat
    BY <1>6, LogNumbers, SMTT(60)
  <2> QED
    BY <1>0, <1>6, <2>1, MorePlaces DEF LogTypes
<1>9. /\ life' = life /\ repair' = repair /\ found' = found /\ up' = FALSE
      /\ head' = 0 /\ tail' = 0 /\ create' = -1 /\ record' = NoRecord
      /\ cur' = NoLSN /\ file' = NoLSN /\ page' = [i \in DOMAIN page |-> Stale]
  BY DEF Crash
<1>10. page' \in [0 .. BufSize - 1 -> Cell]
  <2>1. Stale \in Cell
    BY LogNumbers DEF Stale, Unit, Cell
  <2> QED
    BY <1>0, <1>9, <2>1 DEF LogTypes
<1>11. NoLSN \in LSNs
  BY LogNumbers, SMTT(60) DEF NoLSN, LSNs, LSN
<1>12. torn' \in 0 .. MaxTorn
  <2>1. torn \in 0 .. MaxTorn /\ MaxTorn \in Nat
    BY <1>0, LogAssumption DEF LogTypes
  <2>2. torn' = (IF k > 0 THEN torn + 1 ELSE torn) /\ (k > 0 => torn < MaxTorn)
    BY DEF Crash
  <2> QED
    BY <2>1, <2>2
<1>13. LogTypes'
  BY <1>0, <1>5, <1>6, <1>7, <1>8, <1>9, <1>10, <1>11, <1>12, Zenon DEF LogTypes
<1>14. Stopped' /\ Running'
  BY <1>0, <1>9 DEF Stopped, Running
<1> QED
  BY <1>13, <1>14 DEF LogInv

\* What one run may have written, later ones may find.
LEMMA MoreLives ==
    ASSUME NEW dk, NEW A, NEW B \in 1 .. MaxFile + 1, NEW L \in Nat, Files(dk, A, L)
    PROVE  Files(dk, B, L + 1)
<1>1. Recs(L) \subseteq Recs(L + 1)
  <2>1. \A r \in Rec : r.life \in Nat
    BY LogAssumption DEF Rec
  <2> QED
    BY <2>1 DEF Recs
<1>2. Cells(L) \subseteq Cells(L + 1)
  BY <1>1 DEF Cells
<1> QED
  BY <1>2 DEF Files

\* The log goes on at its end mark, or in an empty file.
LEMMA RestartLog ==
    ASSUME LogInv, RingInv', Restart
    PROVE  LogInv'
<1> DEFINE scan == Scan(anchor.chk, NoLSN)
           replace == scan.verdict = "crash" /\ anchor.no <= scan.at.no
<1>0. /\ ~up /\ up' = TRUE /\ LogTypes
      /\ life < MaxLife /\ repair = NoLSN /\ head = 0 /\ tail = 0 /\ create = -1
      /\ record = NoRecord
  BY DEF Restart, LogInv, Stopped
<1>1. /\ replace => anchor.no <= MaxFile
      /\ anchor' = IF replace THEN [anchor EXCEPT !.no = @ + 1] ELSE anchor
      /\ file' = IF scan.verdict = "end" THEN scan.at ELSE LSN(anchor'.no, 0)
      /\ repair' = IF scan.verdict = "end" THEN NoLSN ELSE file'
      /\ found' = IF scan.verdict = "end" THEN << >> ELSE scan.recs
      /\ cur' = file' /\ life' = life + 1
      /\ UNCHANGED <<page, head, tail, last, create, record, disk, torn>>
  BY DEF Restart, buffer
<1>2. Files(disk, anchor.no, life) /\ anchor.chk \in Places(anchor.no)
      /\ anchor \in [no : 1 .. MaxFile + 1, chk : LSNs]
  BY <1>0 DEF LogTypes
<1>3. scan \in Results(anchor.no, life)
  BY <1>2, ScanAt
<1>4. scan.verdict = "end" => /\ EndAt(disk, scan.at) /\ scan.at.no = anchor.no
                              /\ \E P : Path(disk, anchor.no, anchor.chk, scan.at, P)
  BY <1>2, ScanIsPath
<1> HIDE DEF scan
<1>5. anchor'.no \in 1 .. MaxFile + 1 /\ anchor'.chk = anchor.chk
      /\ anchor' \in [no : 1 .. MaxFile + 1, chk : LSNs] /\ anchor.no <= anchor'.no
      /\ (scan.verdict = "end" => anchor' = anchor)
  BY <1>1, <1>2, LogNumbers, SMTT(60)
<1>6. Files(disk', anchor'.no, life')
  BY <1>1, <1>2, <1>5, LogNumbers, MoreLives, Zenon
<1>7. anchor'.chk \in Places(anchor'.no)
  <2>1. anchor.no \in Nat /\ anchor'.no \in Nat
    BY <1>5, LogNumbers
  <2> QED
    BY <1>2, <1>5, <2>1, MorePlaces
<1>8. file' \in Places(anchor'.no) /\ file'.no = anchor'.no /\ file' \in LSNs
      /\ (repair' # NoLSN => repair' = file')
  <2>1. CASE scan.verdict = "end"
    <3>1. file' = scan.at /\ anchor' = anchor /\ scan.at \in Places(anchor.no) /\ repair' = NoLSN
      BY <1>1, <1>3, <1>5, <2>1 DEF Results
    <3>2. scan.at \in LSNs
      BY <1>2, <3>1, CellAt
    <3> QED
      BY <1>4, <2>1, <3>1, <3>2
  <2>2. CASE scan.verdict # "end"
    <3>1. file' = LSN(anchor'.no, 0) /\ repair' = file'
      BY <1>1, <2>2
    <3> QED
      BY <1>5, <3>1, LogNumbers, SMTT(60) DEF Places, LSNs, LSN
  <2> QED
    BY <2>1, <2>2
<1>9. OnFiles'
  <2>1. CASE scan.verdict = "end"
    <3>1. file' = scan.at /\ anchor' = anchor /\ disk' = disk /\ repair' = NoLSN
      BY <1>1, <1>5, <2>1
    <3>2. LogStart' = anchor.chk
      BY <3>1 DEF LogStart
    <3>3. EndAt(disk', file') /\ \E P : Path(disk', anchor'.no, LogStart', file', P)
      BY <1>4, <2>1, <3>1, <3>2
    <3> QED
      BY <1>8, <3>3 DEF OnFiles
  <2>2. CASE scan.verdict # "end"
    <3>1. file' = LSN(anchor'.no, 0) /\ repair' = file'
      BY <1>1, <2>2
    <3>2. file'.off = 0 /\ repair' # NoLSN
      BY <1>5, <3>1 DEF LSN, NoLSN
    <3>3. LogStart' = file'
      BY <3>1, <3>2 DEF LogStart
    <3>4. Path(disk', anchor'.no, file', file', {file'})
      BY <1>8 DEF Path
    <3> QED
      BY <1>8, <3>2, <3>3, <3>4 DEF OnFiles
  <2> QED
    BY <2>1, <2>2
<1>10. found' \in Seq(Rec) /\ FoundEarlier'
  <2>1. scan.recs \in Seq(Recs(life))
    BY <1>3 DEF Results
  <2>2. found' \in Seq(Recs(life))
    BY <1>1, <2>1
  <2>3. Recs(life) \subseteq Rec
    BY DEF Recs
  <2>4. \A i \in DOMAIN found' : found'[i] \in Recs(life)
    BY <2>2
  <2>5. \A r \in Recs(life) : r.life < life'
    <3>1. \A r \in Rec : r.life \in Nat
      BY LogNumbers DEF Rec
    <3> QED
      BY <1>1, <3>1, LogNumbers DEF Recs
  <2>6. \A r \in Range(found') : r.life < life'
    BY <2>4, <2>5 DEF Range
  <2> QED
    BY <2>2, <2>3, <2>6 DEF FoundEarlier
<1>11. InRing'
  <2>1. RingLen' = 0 /\ create' = -1
    BY <1>0, <1>1 DEF RingLen, Size, First, Second
  <2>2. 0 .. RingLen' - 1 = {}
    BY <2>1
  <2>3. cur' = RingLSN(RingLen)'
    <3>1. file' = LSN(file'.no, file'.off) /\ file'.off + 0 = file'.off
      BY <1>8, LogNumbers DEF Places, LSN
    <3> QED
      BY <1>1, <2>1, <3>1 DEF RingLSN
  <2> QED
    BY <2>1, <2>2, <2>3 DEF InRing, Contents
<1>12. repair' \in LSNs /\ cur' \in LSNs
  <2>1. NoLSN \in LSNs
    BY LogNumbers, SMTT(60) DEF NoLSN, LSNs, LSN
  <2> QED
    BY <1>1, <1>8, <2>1
<1>13. life' \in 1 .. MaxLife
  BY <1>0, <1>1, LogNumbers, SMTT(60)
<1>14. LogTypes'
  BY <1>0, <1>1, <1>5, <1>6, <1>7, <1>8, <1>10, <1>12, <1>13 DEF LogTypes
<1>15. Stopped' /\ Running'
  BY <1>0, <1>1, <1>9, <1>10, <1>11 DEF Stopped, Running, Pending
<1> QED
  BY <1>14, <1>15 DEF LogInv

\* The records of two sequences.
LEMMA RangeOfBoth ==
    ASSUME NEW S, NEW a \in Seq(S), NEW b \in Seq(S)
    PROVE  Range(a \o b) \subseteq Range(a) \cup Range(b)
<1>0. /\ a \o b \in Seq(S) /\ Len(a \o b) = Len(a) + Len(b)
      /\ \A i \in 1 .. Len(a) : (a \o b)[i] = a[i]
      /\ \A i \in 1 .. Len(b) : (a \o b)[i + Len(a)] = b[i]
      /\ \A i \in 1 .. Len(a) + Len(b) :
           i \in 1 .. Len(a) \/ \E j \in 1 .. Len(b) : i = j + Len(a)
  BY Concatenated
<1>1. DOMAIN a = 1 .. Len(a) /\ DOMAIN b = 1 .. Len(b)
      /\ DOMAIN (a \o b) = 1 .. Len(a) + Len(b)
  BY <1>0
<1> SUFFICES ASSUME NEW i \in DOMAIN (a \o b)
             PROVE  (a \o b)[i] \in Range(a) \cup Range(b)
  BY DEF Range
<1>2. CASE i \in 1 .. Len(a)
  <2>1. (a \o b)[i] = a[i] /\ i \in DOMAIN a
    BY <1>0, <1>1, <1>2
  <2> QED
    BY <2>1, Zenon DEF Range
<1>3. CASE \E j \in 1 .. Len(b) : i = j + Len(a)
  <2>1. PICK j \in 1 .. Len(b) : i = j + Len(a)
    BY <1>3
  <2>2. (a \o b)[i] = b[j] /\ j \in DOMAIN b
    BY <1>0, <1>1, <2>1, Zenon
  <2> QED
    BY <2>2, Zenon DEF Range
<1> QED
  BY <1>0, <1>1, <1>2, <1>3

\* What counts as flushed lies on the way from where the log starts, or was
\* found by the restart.
LEMMA FlushedIs ==
    ASSUME LogInv, up, NEW P, Path(disk, anchor.no, LogStart, file, P)
    PROVE  \A r \in Range(Flushed) : r.life = life => OnPath(disk, file, P, r)
<1>1. FoundEarlier /\ LogTypes
  BY DEF LogInv, Running
<1>2. Files(disk, anchor.no, life) /\ found \in Seq(Rec)
  BY <1>1 DEF LogTypes
<1>3. LogStart \in P /\ LogStart \in Places(anchor.no)
  BY DEF Path
<1> DEFINE scan == Scan(LogStart, file)
<1>4. scan \in Results(anchor.no, life)
  BY <1>2, <1>3, ScanAt
<1>5. \A r \in Range(scan.recs) : OnPath(disk, file, P, r)
  BY <1>2, <1>3, PathScanned
<1> HIDE DEF scan
<1>6. scan.recs \in Seq(Rec)
  <2>1. scan.recs \in Seq(Recs(life))
    BY <1>4 DEF Results
  <2>2. Recs(life) \subseteq Rec
    BY DEF Recs
  <2> QED
    BY <2>1, <2>2
<1>7. Range(found \o scan.recs) \subseteq Range(found) \cup Range(scan.recs)
  BY <1>2, <1>6, RangeOfBoth
<1>8. Flushed = scan.recs \/ Flushed = found \o scan.recs
  BY Zenon DEF Flushed, LogStart, scan
<1>9. \A r \in Range(found) : r.life # life
  <2>1. life \in Int
    BY LogNumbers
  <2>2. \A r \in Range(found) : r.life < life
    BY <1>1 DEF FoundEarlier
  <2>3. ~ (life < life)
    BY <2>1
  <2> QED
    BY <2>2, <2>3, Zenon
<1> QED
  BY <1>5, <1>7, <1>8, <1>9, Zenon

\* The checkpoint's first record is on the way through the files.
LEMMA CheckpointLog ==
    ASSUME LogInv, RingInv', Checkpoint
    PROVE  LogInv'
<1>0. up /\ Running /\ LogTypes
  BY DEF Checkpoint, LogInv, Running
<1>1. OnFiles /\ InRing /\ FoundEarlier /\ Pending
  BY <1>0 DEF Running
<1>2. PICK r \in Range(Flushed) :
         r.life = life /\ anchor' = [anchor EXCEPT !.chk = r.lsn]
  BY DEF Checkpoint
<1>3. UNCHANGED <<page, head, tail, last, create, cur, file, record, disk, up, life, torn>>
      /\ repair' = NoLSN /\ found' = << >>
  BY DEF Checkpoint, buffer
<1>4. PICK P : Path(disk, anchor.no, LogStart, file, P)
  BY <1>1 DEF OnFiles
<1>5. r.lsn \in P
  BY <1>0, <1>2, <1>4, FlushedIs DEF OnPath
<1>6. anchor \in [no : 1 .. MaxFile + 1, chk : LSNs] /\ Files(disk, anchor.no, life)
  BY <1>0 DEF LogTypes
<1>7. r.lsn \in Places(anchor.no)
  BY <1>4, <1>5 DEF Path
<1>8. r.lsn \in LSNs
  BY <1>6, <1>7, CellAt
<1>9. anchor'.no = anchor.no /\ anchor'.chk = r.lsn
      /\ anchor' \in [no : 1 .. MaxFile + 1, chk : LSNs]
  BY <1>2, <1>6, <1>8
<1>10. OnFiles'
  <2>1. LogStart' = r.lsn
    BY <1>3, <1>9 DEF LogStart
  <2>2. Path(disk', anchor'.no, LogStart', file', P)
    BY <1>3, <1>4, <1>5, <1>9, <2>1 DEF Path
  <2>3. /\ file' \in Places(anchor'.no) /\ file'.no = anchor'.no
        /\ file'.off > 0 => EndAt(disk', file')
    BY <1>1, <1>3, <1>9 DEF OnFiles
  <2> QED
    BY <2>2, <2>3 DEF OnFiles
<1>11. InRing'
  <2>1. RingLen' = RingLen /\ Size(First)' = Size(First) /\ (\A i : RingAt(i)' = RingAt(i))
        /\ ChangeAt' = ChangeAt
    BY <1>3, RingSame
  <2>2. \A i : RingLSN(i)' = RingLSN(i)
    BY <1>3, <2>1 DEF RingLSN
  <2>3. Contents'
    BY <1>1, <1>3, <2>1, <2>2 DEF InRing, Contents, Placed, Recs, Rec, LSNs, Offset
  <2> QED
    BY <1>1, <1>3, <2>1, <2>2, <2>3 DEF InRing
<1>12. FoundEarlier' /\ Pending' /\ found' \in Seq(Rec)
  BY <1>1, <1>3 DEF FoundEarlier, Pending, Range
<1>13. Files(disk', anchor'.no, life') /\ anchor'.chk \in Places(anchor'.no)
  BY <1>3, <1>6, <1>7, <1>9
<1>14. NoLSN \in LSNs
  BY LogNumbers, SMTT(60) DEF NoLSN, LSNs, LSN
<1>15. LogTypes'
  BY <1>0, <1>3, <1>9, <1>12, <1>13, <1>14 DEF LogTypes
<1> QED
  BY <1>0, <1>3, <1>10, <1>11, <1>12, <1>15 DEF LogInv, Running, Stopped

-----------------------------------------------------------------------------
(* A complete flush prolongs the way through the files *)

\* The units with which records begin, and the places that a flush adds.
Starts == {s \in 0 .. RingLen - 1 : \E r \in Recs(life) : Placed(s, r)}
ChangeLSN == LSN(file.no, file.off + ChangeAt)
WayOn == {RingLSN(s) : s \in Starts} \cup {RingLSN(RingLen)}
         \cup (IF create = -1 THEN {} ELSE {ChangeLSN})

RecordLen == \A r \in Recs(life) : r.len \in Nat /\ 1 <= r.len

\* Records are not empty.
LEMMA LensAre == RecordLen
BY SizesFit DEF Recs, Rec, RecordLen

\* The oldest unit begins a record.
LEMMA FirstStarts ==
    ASSUME Contents, RingLen \in Nat, RingLen > 0
    PROVE  0 \in Starts
<1>1. 0 \in 0 .. RingLen - 1
  OBVIOUS
<1>2. PICK s \in 0 .. 0 : \E r \in Recs(life) : Placed(s, r)
  BY <1>1 DEF Contents
<1>3. s = 0
  OBVIOUS
<1> QED
  BY <1>1, <1>2, <1>3 DEF Starts

\* Where a record ends, the next one begins.
LEMMA NextStarts ==
    ASSUME Contents, RingLen \in Nat, NEW s \in Nat, NEW r \in Recs(life), Placed(s, r),
           s + r.len < RingLen
    PROVE  s + r.len \in Starts
<1>1. r.len \in Nat /\ 1 <= r.len
  BY LensAre DEF RecordLen
<1>2. PICK i : i = s + r.len
  OBVIOUS
<1>3. i \in 0 .. RingLen - 1
  BY <1>1, <1>2
<1>4. PICK t \in 0 .. i : \E q \in Recs(life) : Placed(t, q) /\ i < t + q.len
  BY <1>3 DEF Contents
<1>5. PICK q \in Recs(life) : Placed(t, q) /\ i < t + q.len
  BY <1>4
<1>6. q.len \in Nat /\ 1 <= q.len
  BY LensAre DEF RecordLen
<1>7. CASE t = i
  BY <1>2, <1>3, <1>5, <1>7 DEF Starts
<1>8. CASE t # i
  <2>1. page[RingAt(s + r.len - 1)] = Unit(r, r.len)
    BY <1>1 DEF Placed
  <2>2. PICK k \in 1 .. q.len : k = i - t /\ t + k - 1 = i - 1
    BY <1>3, <1>5, <1>6, <1>8
  <2>3. page[RingAt(t + k - 1)] = Unit(q, k)
    BY <1>5 DEF Placed
  <2>4. s + r.len - 1 = i - 1
    BY <1>1, <1>2
  <2>5. Unit(r, r.len) = Unit(q, k)
    BY <2>1, <2>2, <2>3, <2>4
  <2>6. r = q /\ r.len = k
    BY <2>5 DEF Unit
  <2> QED
    BY <1>3, <1>5, <1>6, <2>2, <2>6
<1> QED
  BY <1>7, <1>8

\* The first record of the next file begins at the change of file.
LEMMA ChangeStarts ==
    ASSUME Contents, RingLen \in Nat, create # -1, ChangeAt \in 0 .. RingLen - 1
    PROVE  ChangeAt \in Starts
<1>1. PICK s \in 0 .. ChangeAt : \E r \in Recs(life) : Placed(s, r) /\ ChangeAt < s + r.len
  BY DEF Contents
<1>2. PICK r \in Recs(life) : Placed(s, r) /\ ChangeAt < s + r.len
  BY <1>1
<1>3. r.len \in Nat
  BY LensAre DEF RecordLen
<1>4. ChangeAt <= s \/ s + r.len <= ChangeAt
  BY <1>2 DEF Placed
<1>5. s = ChangeAt
  BY <1>2, <1>3, <1>4
<1> QED
  BY <1>2, <1>5 DEF Starts

\* What a complete flush leaves in the files.
RingOnDisk(dk) ==
    /\ \A i \in 0 .. RingLen - 1 : dk[RingLSN(i).no][RingLSN(i).off] = page[RingAt(i)]
    /\ create # -1 => EndAt(dk, ChangeLSN)

\* Units on one side of the change of file follow each other in a file.
LEMMA UnitsFollow ==
    ASSUME file.no \in Nat, file.off \in Nat, NEW s \in Nat, NEW j \in Nat,
           create # -1 => ChangeAt \in Nat,
           create = -1 \/ ChangeAt <= s \/ s + j < ChangeAt
    PROVE  RingLSN(s + j) = LSN(RingLSN(s).no, RingLSN(s).off + j)
<1>1. CASE create = -1 \/ s + j < ChangeAt
  <2>1. create = -1 \/ s < ChangeAt
    BY <1>1
  <2>2. RingLSN(s) = LSN(file.no, file.off + s) /\ RingLSN(s + j) = LSN(file.no, file.off + (s + j))
    BY <1>1, <2>1 DEF RingLSN
  <2>3. RingLSN(s).no = file.no /\ RingLSN(s).off = file.off + s
    BY <2>2 DEF LSN
  <2>4. (file.off + s) + j = file.off + (s + j)
    OBVIOUS
  <2> QED
    BY <2>2, <2>3, <2>4
<1>2. CASE create # -1 /\ ChangeAt <= s
  <2>1. ~ (s < ChangeAt) /\ ~ (s + j < ChangeAt)
    BY <1>2
  <2>2. /\ RingLSN(s) = LSN(file.no + 1, s - ChangeAt)
        /\ RingLSN(s + j) = LSN(file.no + 1, (s + j) - ChangeAt)
    BY <1>2, <2>1 DEF RingLSN
  <2>3. RingLSN(s).no = file.no + 1 /\ RingLSN(s).off = s - ChangeAt
    BY <2>2 DEF LSN
  <2>4. (s - ChangeAt) + j = (s + j) - ChangeAt
    BY <1>2
  <2> QED
    BY <2>2, <2>3, <2>4
<1> QED
  BY <1>1, <1>2

\* A flushed record leads to the next one, to the change of file or to the
\* end.
LEMMA RecordLeads ==
    ASSUME Contents, RingLen \in Nat, file.no \in Nat, file.off \in Nat,
           create # -1 => ChangeAt \in 0 .. RingLen,
           NEW dk, RingOnDisk(dk), NEW A, NEW s \in Starts
    PROVE  Leads(dk, A, RingLSN(s), WayOn)
<1>1. PICK r \in Recs(life) : Placed(s, r)
  BY DEF Starts
<1>2. s \in Nat /\ r.len \in Nat /\ 1 <= r.len /\ s + r.len <= RingLen
  BY <1>1, LensAre DEF RecordLen, Starts, Placed
<1>3. create = -1 \/ ChangeAt <= s \/ s + r.len <= ChangeAt
  BY <1>1 DEF Placed
<1>a. create # -1 => ChangeAt \in Nat
  OBVIOUS
<1> DEFINE l == RingLSN(s)
<1>4. ASSUME NEW k \in 1 .. r.len PROVE dk[l.no][l.off + k - 1] = Unit(r, k)
  <2>1. k - 1 \in Nat /\ s + (k - 1) \in 0 .. RingLen - 1 /\ s + k - 1 = s + (k - 1)
        /\ (create = -1 \/ ChangeAt <= s \/ s + (k - 1) < ChangeAt)
    BY <1>2, <1>3
  <2>2. RingLSN(s + (k - 1)) = LSN(l.no, l.off + (k - 1))
    BY <1>2, <1>a, <2>1, UnitsFollow, Zenon
  <2>3. dk[RingLSN(s + (k - 1)).no][RingLSN(s + (k - 1)).off] = page[RingAt(s + (k - 1))]
    BY <2>1 DEF RingOnDisk
  <2>4. page[RingAt(s + (k - 1))] = Unit(r, k)
    BY <1>1, <2>1 DEF Placed
  <2>5. l.off + (k - 1) = l.off + k - 1
    <3>1. l.off \in Int
      BY <1>2 DEF RingLSN, LSN
    <3> QED
      BY <3>1
  <2>6. dk[l.no][l.off + (k - 1)] = Unit(r, k)
    BY <2>2, <2>3, <2>4 DEF LSN
  <2> QED
    BY <2>5, <2>6
<1>5. dk[l.no][l.off].rec = r
  <2>1. l.off + 1 - 1 = l.off
    <3>1. l.off \in Int
      BY <1>2 DEF RingLSN, LSN
    <3> QED
      BY <3>1
  <2>2. dk[l.no][l.off + 1 - 1] = Unit(r, 1)
    BY <1>2, <1>4
  <2> QED
    BY <2>1, <2>2 DEF Unit
<1>6. RecordAt(dk, l)
  BY <1>1, <1>4, <1>5 DEF RecordAt, Placed
<1>7. AfterRecord(dk, l) = LSN(l.no, l.off + r.len)
  BY <1>5 DEF AfterRecord
<1>8. LSN(l.no, l.off + r.len) \in WayOn
  <2>1. CASE create # -1 /\ s + r.len = ChangeAt
    <3>1. s < ChangeAt
      BY <1>2, <2>1
    <3>2. l = LSN(file.no, file.off + s)
      BY <3>1 DEF RingLSN
    <3>3. l.no = file.no /\ l.off + r.len = file.off + ChangeAt
      BY <1>2, <2>1, <3>2 DEF LSN
    <3> QED
      BY <2>1, <3>3 DEF WayOn, ChangeLSN
  <2>2. CASE create = -1 \/ s + r.len # ChangeAt
    <3>1. create = -1 \/ ChangeAt <= s \/ s + r.len < ChangeAt
      BY <1>2, <1>3, <2>2
    <3>2. LSN(l.no, l.off + r.len) = RingLSN(s + r.len)
      BY <1>2, <1>a, <3>1, UnitsFollow, Zenon
    <3>3. CASE s + r.len = RingLen
      BY <3>2, <3>3 DEF WayOn
    <3>4. CASE s + r.len < RingLen
      BY <1>1, <1>2, <3>2, <3>4, NextStarts DEF WayOn
    <3> QED
      BY <1>2, <3>3, <3>4
  <2> QED
    BY <2>1, <2>2
<1> QED
  BY <1>6, <1>7, <1>8 DEF Leads

\* The mark at the change of file leads to the first record behind it.
LEMMA ChangeLeads ==
    ASSUME Contents, RingLen \in Nat, file.no \in Nat, file.off \in Nat,
           create # -1, ChangeAt \in 0 .. RingLen,
           NEW dk, RingOnDisk(dk)
    PROVE  Leads(dk, file.no + 1, ChangeLSN, WayOn)
<1>1. ChangeLSN.no = file.no
  BY DEF ChangeLSN, LSN
<1>2. EndAt(dk, ChangeLSN) /\ ChangeLSN.no # file.no + 1
  BY <1>1 DEF RingOnDisk
<1>3. NextFile(ChangeLSN) = RingLSN(ChangeAt)
  <2>1. ~ (ChangeAt < ChangeAt) /\ ChangeAt - ChangeAt = 0
    OBVIOUS
  <2> QED
    BY <1>1, <2>1 DEF NextFile, RingLSN
<1>4. RingLSN(ChangeAt) \in WayOn
  <2>1. CASE ChangeAt = RingLen
    BY <2>1 DEF WayOn
  <2>2. CASE ChangeAt # RingLen
    <3>1. ChangeAt \in 0 .. RingLen - 1
      BY <2>2
    <3> QED
      BY <3>1, ChangeStarts DEF WayOn
  <2> QED
    BY <2>1, <2>2
<1> QED
  BY <1>2, <1>3, <1>4 DEF Leads

\* All of it lies before the LSN of the next record.
LEMMA WayOnBefore ==
    ASSUME RingLen \in Nat, file.no \in Nat, file.off \in Nat,
           create # -1 => ChangeAt \in 0 .. RingLen
    PROVE  \A l \in WayOn : l = RingLSN(RingLen) \/ Before(l, RingLSN(RingLen))
<1> TAKE l \in WayOn
<1>1. CASE l = RingLSN(RingLen)
  BY <1>1
<1>2. CASE create # -1 /\ l = ChangeLSN
  <2>1. ~ (RingLen < ChangeAt)
    BY <1>2
  <2>2. RingLSN(RingLen).no = file.no + 1 /\ l.no = file.no
    BY <1>2, <2>1 DEF RingLSN, LSN, ChangeLSN
  <2> QED
    BY <2>2 DEF Before
<1>3. ASSUME NEW s \in Starts, l = RingLSN(s) PROVE Before(l, RingLSN(RingLen))
  <2>1. s \in Nat /\ s < RingLen
    BY DEF Starts
  <2>2. CASE create = -1
    BY <1>3, <2>1, <2>2 DEF RingLSN, LSN, Before
  <2>3. CASE create # -1 /\ s < ChangeAt
    <3>1. ~ (RingLen < ChangeAt)
      BY <2>3
    <3>2. RingLSN(RingLen).no = file.no + 1 /\ l.no = file.no
      BY <1>3, <2>3, <3>1 DEF RingLSN, LSN
    <3> QED
      BY <3>2 DEF Before
  <2>4. CASE create # -1 /\ ~ (s < ChangeAt)
    <3>1. ~ (RingLen < ChangeAt)
      BY <2>4
    <3>2. /\ RingLSN(RingLen) = LSN(file.no + 1, RingLen - ChangeAt)
          /\ l = LSN(file.no + 1, s - ChangeAt)
      BY <1>3, <2>4, <3>1 DEF RingLSN
    <3>3. s - ChangeAt < RingLen - ChangeAt
      BY <2>1, <2>4
    <3> QED
      BY <3>2, <3>3 DEF Before, LSN
  <2> QED
    BY <2>2, <2>3, <2>4
<1> QED
  BY <1>1, <1>2, <1>3 DEF WayOn

\* File_ after a flush is where the units in the buffer end.
LEMMA FileFlushed ==
    ASSUME Positions, RingLen \in Nat, create \in Int, file.off \in Nat
    PROVE  FileAfterFlush = RingLSN(RingLen)
<1>0. head \in Nat /\ tail \in Nat /\ last \in Int /\ Size(First) \in Nat
      /\ (create # -1 => ChangeAt \in 0 .. RingLen)
      /\ (head <= tail => RingLen = tail - head /\ Size(First) = tail - head)
      /\ (head > tail => Size(First) = last - head /\ RingLen = (last - head) + tail)
  <2>1. BufSize \in Nat
    BY LogAssumption
  <2>2. head \in Nat /\ tail \in Nat /\ last \in Int
    BY <2>1 DEF Positions
  <2> QED
    BY <2>2, RingShape
<1>1. Size(Second) \in Nat /\ RingLen = Size(First) + Size(Second)
  BY <1>0 DEF RingLen, Size, Second
<1>2. CASE create = -1
  <2>1. ~ InFirst /\ ~ InSecond
    BY <1>2 DEF InFirst, InSecond
  <2>2. FileAfterFlush = LSN(file.no, file.off + Size(First) + Size(Second))
    BY <2>1 DEF FileAfterFlush
  <2>3. RingLSN(RingLen) = LSN(file.no, file.off + (Size(First) + Size(Second)))
    BY <1>1, <1>2 DEF RingLSN
  <2>4. (file.off + Size(First)) + Size(Second) = file.off + (Size(First) + Size(Second))
    BY <1>0, <1>1
  <2> QED
    BY <2>2, <2>3, <2>4
<1>3. CASE create # -1 /\ (head <= tail \/ create >= head)
  <2>1. create >= head /\ create <= First[2]
    BY <1>0, <1>3 DEF Positions, First
  <2>2. InFirst
    <3>1. First[1] = head /\ First[2] \in Int
      BY <1>0 DEF First
    <3> QED
      BY <1>0, <1>3, <2>1, <3>1 DEF InFirst
  <2>3. FileAfterFlush = LSN(file.no + 1, First[2] - create + Size(Second))
    <3>1. ~ InSecond
      BY <2>2 DEF InSecond
    <3> QED
      BY <2>2, <3>1 DEF FileAfterFlush
  <2>4. ChangeAt = create - head
    BY <1>3 DEF ChangeAt
  <2>5. RingLSN(RingLen) = LSN(file.no + 1, RingLen - (create - head))
    <3>1. ~ (RingLen < ChangeAt)
      BY <1>0, <1>3
    <3> QED
      BY <1>3, <2>4, <3>1 DEF RingLSN
  <2>6. First[2] = head + Size(First)
    BY <1>0 DEF Size, First
  <2>7. First[2] - create + Size(Second) = RingLen - (create - head)
    BY <1>0, <1>1, <2>6
  <2> QED
    BY <2>3, <2>5, <2>7
<1>4. CASE create # -1 /\ ~ (head <= tail \/ create >= head)
  <2>1. create <= tail /\ head > tail
    BY <1>0, <1>4 DEF Positions
  <2>2. ~ InFirst /\ InSecond
    BY <1>0, <1>4, <2>1 DEF InFirst, InSecond, First
  <2>3. FileAfterFlush = LSN(file.no + 1, tail - create)
    BY <2>2 DEF FileAfterFlush
  <2>4. ChangeAt = Size(First) + create
    BY <1>4 DEF ChangeAt
  <2>5. RingLSN(RingLen) = LSN(file.no + 1, RingLen - ChangeAt)
    <3>1. ~ (RingLen < ChangeAt)
      BY <1>0, <1>4
    <3> QED
      BY <1>4, <3>1 DEF RingLSN
  <2>6. tail - create = RingLen - ChangeAt
    BY <1>0, <2>1, <2>4
  <2> QED
    BY <2>3, <2>5, <2>6
<1> QED
  BY <1>2, <1>3, <1>4

\* The change of file that is pending is one of the flush.
LEMMA AnchorFlushed ==
    ASSUME LogInv, up, DoFlush
    PROVE  /\ anchor' \in [no : 1 .. MaxFile + 1, chk : LSNs]
           /\ anchor'.no = (IF create = -1 THEN file.no ELSE file.no + 1)
           /\ anchor'.chk = anchor.chk /\ file.no = anchor.no /\ anchor.no <= anchor'.no
<1>1. OnFiles /\ InRing /\ anchor \in [no : 1 .. MaxFile + 1, chk : LSNs]
  BY DEF LogInv, Running, LogTypes
<1>2. anchor' = AnchorWritten(FlushWrites) /\ Flushes(FlushWrites)
  BY WritesOfFlush DEF DoFlush
<1>3. NewFiles(FlushWrites) = IF create = -1 THEN {} ELSE {file.no + 1}
  BY <1>2, FlushesTyped, LogNumbers, SMTT(60)
<1>4. /\ anchor'.chk = anchor.chk
      /\ anchor'.no = IF NewFiles(FlushWrites) = {} THEN anchor.no ELSE file.no + 1
      /\ anchor'.no \in 1 .. MaxFile + 1 => anchor' \in [no : 1 .. MaxFile + 1, chk : LSNs]
  <2>1. NewFiles(FlushWrites) \subseteq {file.no + 1}
    BY <1>3
  <2> QED
    BY <1>1, <1>2, <2>1, AnchorIs, Zenon
<1>5. file.no = anchor.no /\ (create # -1 => file.no <= MaxFile)
  BY <1>1 DEF OnFiles, InRing
<1>6. anchor'.no = IF create = -1 THEN file.no ELSE file.no + 1
  BY <1>3, <1>4, <1>5
<1>7. anchor'.no \in 1 .. MaxFile + 1 /\ anchor.no <= anchor'.no
  BY <1>5, <1>6, LogNumbers, SMTT(60)
<1> QED
  BY <1>4, <1>5, <1>6, <1>7

\* A complete flush leads the way through the files on.
LEMMA FlushLeads ==
    ASSUME LogInv, up, DoFlush
    PROVE  /\ file' = RingLSN(RingLen) /\ file' = cur
           /\ Files(disk', anchor'.no, life)
           /\ file' \in Places(anchor'.no) /\ file'.no = anchor'.no
           /\ file'.off > 0 => EndAt(disk', file')
           /\ \E P : Path(disk', anchor'.no, LogStart, file', P)
<1>0. /\ OnFiles /\ InRing /\ Contents /\ Positions /\ head # tail /\ LogTypes
      /\ Files(disk, anchor.no, life)
  BY DEF LogInv, Running, LogTypes, InRing, RingInv, DoFlush
<1>1. /\ RingLen \in Nat /\ (create # -1 => ChangeAt \in 0 .. RingLen)
      /\ FileEnd = (IF create = -1 THEN RingLen ELSE ChangeAt)
      /\ create \in Int
  <2>1. create \in Int
    <3>1. BufSize \in Nat /\ head \in Int /\ tail \in Int /\ last \in Int
      BY <1>0, LogNumbers DEF Positions
    <3>2. CASE create = -1
      BY <3>2
    <3>3. CASE create # -1
      <4>1. create \in head .. tail \/ create \in head .. last \/ create \in 0 .. tail
        BY <1>0, <3>3 DEF Positions
      <4> QED
        BY <3>1, <4>1
    <3> QED
      BY <3>2, <3>3
  <2> QED
    BY <1>0, <2>1, RingShape DEF FileEnd
<1>2. /\ file.no \in Nat /\ file.off \in Nat /\ file = LSN(file.no, file.off)
      /\ file \in Places(anchor.no) /\ file.no = anchor.no
      /\ (create # -1 => file.no <= MaxFile)
  BY <1>0, LogNumbers DEF OnFiles, InRing
<1>3. file' = RingLSN(RingLen) /\ file' = cur
  <2>1. file' = FileAfterFlush
    BY DEF DoFlush
  <2> QED
    BY <1>0, <1>1, <1>2, <2>1, FileFlushed DEF InRing
<1>4. /\ anchor' \in [no : 1 .. MaxFile + 1, chk : LSNs] /\ anchor'.no \in 1 .. MaxFile + 1
      /\ anchor'.no = (IF create = -1 THEN file.no ELSE file.no + 1)
      /\ anchor.no <= anchor'.no
  BY AnchorFlushed
<1>5. Flushes(FlushWrites) /\ FlushWrites \in Seq(Writes(life)) /\ disk' = Written(FlushWrites)
  BY <1>0, WritesOfFlush DEF DoFlush
<1>6. Files(disk', anchor'.no, life)
  BY <1>0, <1>4, <1>5, WrittenCells
<1>7. file.off + FileEnd <= FileSize + BufSize
  <2>1. CASE create = -1
    <3>1. cur = LSN(file.no, file.off + RingLen)
      BY <1>0, <2>1 DEF InRing, RingLSN
    <3>2. cur.off = file.off + FileEnd
      BY <1>1, <2>1, <3>1 DEF LSN
    <3> QED
      BY <3>2, LogNumbers
  <2>2. CASE create # -1
    <3>1. file.off + ChangeAt \in FileSize .. FileSize + BufSize
      BY <1>0, <2>2 DEF InRing
    <3> QED
      BY <1>1, <2>2, <3>1, LogNumbers
  <2> QED
    BY <2>1, <2>2
<1>8. /\ \A i \in 0 .. RingLen - 1 : disk'[RingLSN(i).no][RingLSN(i).off] = page[RingAt(i)]
      /\ FileEnd > 0 => disk'[file.no][file.off + FileEnd] = EOL
      /\ FileEnd = 0 => disk'[file.no][file.off] = disk[file.no][file.off]
      /\ create # -1 /\ RingLen > FileEnd => disk'[file.no + 1][RingLen - FileEnd] = EOL
      /\ \A m \in Places(anchor.no) : Before(m, file) => disk'[m.no][m.off] = disk[m.no][m.off]
  BY <1>0, <1>2, <1>5, <1>7, FlushedFiles
<1>9. file.off > 0 => disk[file.no][file.off] = EOL
  BY <1>0 DEF OnFiles, EndAt
<1>10. RingOnDisk(disk')
  <2>1. ASSUME create # -1 PROVE disk'[file.no][file.off + ChangeAt] = EOL
    <3>1. CASE FileEnd > 0
      BY <1>1, <1>8, <2>1, <3>1
    <3>2. CASE FileEnd = 0
      <4>1. file.off + ChangeAt = file.off /\ file.off > 0
        <5>1. file.off + ChangeAt \in FileSize .. FileSize + BufSize
          BY <1>0, <2>1 DEF InRing
        <5> QED
          BY <1>1, <1>2, <2>1, <3>2, <5>1, LogNumbers
      <4> QED
        BY <1>8, <1>9, <3>2, <4>1
    <3> QED
      BY <1>1, <3>1, <3>2
  <2> QED
    BY <1>8, <2>1 DEF RingOnDisk, EndAt, ChangeLSN, LSN
<1>11. file' \in Places(anchor'.no) /\ file'.no = anchor'.no
  <2>1. file'.no = IF create = -1 THEN file.no ELSE file.no + 1
    <3>1. create # -1 => ~ (RingLen < ChangeAt)
      BY <1>1
    <3> QED
      BY <1>3, <3>1 DEF RingLSN, LSN
  <2>2. file'.off \in Offset /\ file' = LSN(file'.no, file'.off)
    BY <1>3, LogNumbers
  <2>3. anchor'.no \in 1 .. anchor'.no
    BY <1>4, LogNumbers, SMTT(60)
  <2> QED
    BY <1>4, <2>1, <2>2, <2>3 DEF Places, LSN
<1>12. ASSUME file'.off > 0 PROVE EndAt(disk', file')
  <2>1. CASE create = -1
    <3>1. file'.no = file.no /\ file'.off = file.off + RingLen
      BY <1>3, <2>1 DEF RingLSN, LSN
    <3>2. CASE RingLen > 0
      BY <1>1, <1>8, <2>1, <3>1, <3>2 DEF EndAt
    <3>3. CASE RingLen = 0
      <4>1. file'.off = file.off
        BY <1>2, <3>1, <3>3
      <4> QED
        BY <1>1, <1>8, <1>9, <1>12, <2>1, <3>1, <3>3, <4>1 DEF EndAt
    <3> QED
      BY <1>1, <3>2, <3>3
  <2>2. CASE create # -1
    <3>1. ~ (RingLen < ChangeAt)
      BY <1>1, <2>2
    <3>2. file'.no = file.no + 1 /\ file'.off = RingLen - ChangeAt
      BY <1>3, <2>2, <3>1 DEF RingLSN, LSN
    <3>3. RingLen > FileEnd /\ file'.off = RingLen - FileEnd
      BY <1>1, <1>12, <2>2, <3>2
    <3> QED
      BY <1>8, <2>2, <3>2, <3>3 DEF EndAt
  <2> QED
    BY <2>1, <2>2
<1>13. PICK P : Path(disk, anchor.no, LogStart, file, P)
  BY <1>0 DEF OnFiles
<1> DEFINE Q == P \cup WayOn
<1>14. anchor'.no \in {anchor.no, anchor.no + 1} /\ anchor.no \in Nat /\ anchor'.no \in Nat
  BY <1>2, <1>4, LogNumbers
<1>15. \A l \in P \ {file} : Leads(disk', anchor'.no, l, P)
  BY <1>0, <1>2, <1>8, <1>13, <1>14, PathKept
<1>16. \A l \in WayOn \ {file'} : Leads(disk', anchor'.no, l, WayOn)
  <2> TAKE l \in WayOn \ {file'}
  <2>1. CASE \E s \in Starts : l = RingLSN(s)
    BY <1>0, <1>1, <1>2, <1>10, <2>1, RecordLeads
  <2>2. CASE create # -1 /\ l = ChangeLSN
    <3>1. anchor'.no = file.no + 1
      BY <1>4, <2>2
    <3> QED
      BY <1>0, <1>1, <1>2, <1>10, <2>2, <3>1, ChangeLeads
  <2> QED
    BY <1>3, <2>1, <2>2 DEF WayOn
<1>17. file \in WayOn
  <2>1. CASE create # -1 /\ ChangeAt = 0
    <3>1. file.off + ChangeAt = file.off
      BY <1>2, <2>1
    <3>2. ChangeLSN = file
      BY <1>2, <3>1 DEF ChangeLSN
    <3> QED
      BY <2>1, <3>2 DEF WayOn
  <2>2. CASE create = -1 \/ ChangeAt # 0
    <3>1. create = -1 \/ 0 < ChangeAt
      BY <1>1, <2>2
    <3>2. RingLSN(0) = file
      BY <1>2, <3>1 DEF RingLSN
    <3>3. CASE RingLen = 0
      BY <3>2, <3>3 DEF WayOn
    <3>4. CASE RingLen > 0
      <4>1. 0 \in Starts
        BY <1>0, <1>1, <3>4, FirstStarts
      <4> QED
        BY <3>2, <4>1 DEF WayOn
    <3> QED
      BY <1>1, <3>3, <3>4
  <2> QED
    BY <2>1, <2>2
<1>18. \A l \in Q \ {file'} : Leads(disk', anchor'.no, l, Q)
  <2>1. ASSUME NEW S \in SUBSET Q, NEW l, Leads(disk', anchor'.no, l, S)
        PROVE  Leads(disk', anchor'.no, l, Q)
    BY <2>1 DEF Leads
  <2>2. P \in SUBSET Q /\ WayOn \in SUBSET Q
    OBVIOUS
  <2> TAKE l \in Q \ {file'}
  <2>3. CASE l \in WayOn
    BY <1>16, <2>1, <2>2, <2>3
  <2>4. CASE l \in P /\ l # file
    BY <1>15, <2>1, <2>2, <2>4
  <2> QED
    BY <1>17, <2>3, <2>4
<1>19. Q \subseteq Places(anchor'.no)
  <2>1. P \subseteq Places(anchor'.no)
    BY <1>4, <1>13, <1>14, MorePlaces DEF Path
  <2>2. ASSUME NEW i \in 0 .. RingLen PROVE RingLSN(i) \in Places(anchor'.no)
    <3>1. RingLSN(i).off \in Offset
      BY <1>0, <1>2, <1>7, FlushesHere
    <3>2. RingLSN(i).no \in 1 .. anchor'.no /\ RingLSN(i) = LSN(RingLSN(i).no, RingLSN(i).off)
      <4>1. CASE create = -1 \/ i < ChangeAt
        <5>1. RingLSN(i) = LSN(file.no, file.off + i)
          BY <4>1 DEF RingLSN
        <5> QED
          BY <1>2, <1>4, <1>14, <5>1, LogNumbers, SMTT(60) DEF LSN
      <4>2. CASE ~ (create = -1 \/ i < ChangeAt)
        <5>1. RingLSN(i) = LSN(file.no + 1, i - ChangeAt)
          BY <4>2 DEF RingLSN
        <5>2. file.no + 1 \in 1 .. anchor'.no
          BY <1>2, <1>4, <4>2
        <5> QED
          BY <5>1, <5>2 DEF LSN
      <4> QED
        BY <4>1, <4>2
    <3> QED
      BY <3>1, <3>2 DEF Places, LSN
  <2>3. ASSUME create # -1 PROVE ChangeLSN \in Places(anchor'.no)
    <3>1. file.off + ChangeAt \in Offset
      <4>1. file.off + ChangeAt \in FileSize .. FileSize + BufSize
        BY <1>0, <2>3 DEF InRing
      <4> QED
        BY <4>1, LogNumbers
    <3>2. file.no \in 1 .. anchor'.no
      BY <1>2, <1>4, <1>14, LogNumbers
    <3> QED
      BY <3>1, <3>2 DEF ChangeLSN, Places, LSN
  <2>4. \A s \in Starts : s \in 0 .. RingLen
    BY <1>1 DEF Starts
  <2>5. RingLen \in 0 .. RingLen
    BY <1>1
  <2>6. WayOn \subseteq Places(anchor'.no)
    BY <2>2, <2>3, <2>4, <2>5 DEF WayOn
  <2> QED
    BY <2>1, <2>6
<1>20. \A l \in Q : l = file' \/ Before(l, file')
  <2>1. \A l \in WayOn : l = file' \/ Before(l, file')
    BY <1>1, <1>2, <1>3, WayOnBefore
  <2>2. ASSUME NEW l \in P, Before(l, file) PROVE Before(l, file')
    <3>1. l \in Places(anchor'.no) /\ file \in Places(anchor'.no)
      BY <1>17, <1>19
    <3>2. file = file' \/ Before(file, file')
      BY <1>17, <2>1
    <3> QED
      BY <1>11, <1>14, <2>2, <3>1, <3>2, BeforeIsOrder
  <2>3. \A l \in P : l = file \/ Before(l, file)
    BY <1>13 DEF Path
  <2> QED
    BY <1>17, <2>1, <2>2, <2>3
<1>21. LogStart \in Q /\ file' \in Q
  BY <1>3, <1>13 DEF Path, WayOn
<1>22. Path(disk', anchor'.no, LogStart, file', Q)
  BY <1>18, <1>19, <1>20, <1>21 DEF Path
<1> QED
  BY <1>3, <1>6, <1>11, <1>12, <1>22

\* A flush of the running system.
LEMMA FlushLog ==
    ASSUME LogInv, RingInv', up, DoFlush, UNCHANGED <<tail, cur, record, restart>>
    PROVE  LogInv'
<1>0. Running /\ LogTypes /\ RingInv
  BY DEF LogInv, Running
<1>1. OnFiles /\ InRing /\ FoundEarlier /\ Pending
  BY <1>0 DEF Running
<1>2. UNCHANGED <<tail, cur, record, up, life, repair, found, torn>>
  BY DEF restart
<1>3. head' = tail /\ last' = -1 /\ create' = -1
  BY <1>0, FlushEmpties
<1>4. /\ file' = cur /\ Files(disk', anchor'.no, life)
      /\ file' \in Places(anchor'.no) /\ file'.no = anchor'.no
      /\ file'.off > 0 => EndAt(disk', file')
      /\ \E P : Path(disk', anchor'.no, LogStart, file', P)
  BY FlushLeads
<1>5. /\ anchor' \in [no : 1 .. MaxFile + 1, chk : LSNs]
      /\ anchor'.chk = anchor.chk /\ anchor.no <= anchor'.no
  BY AnchorFlushed
<1>6. anchor'.chk \in Places(anchor'.no)
  <2>1. anchor.no \in Nat /\ anchor'.no \in Nat
    BY <1>5, LogNumbers
  <2> QED
    BY <1>0, <1>5, <2>1, MorePlaces DEF LogTypes
<1>7. OnFiles'
  <2>1. LogStart' = LogStart
    BY <1>2, <1>5 DEF LogStart
  <2> QED
    BY <1>4, <2>1 DEF OnFiles
<1>8. InRing'
  <2>1. head' \in Int /\ tail' \in Int /\ last' \in Int /\ head' <= tail' /\ tail' - head' = 0
    BY <1>0, <1>2, <1>3, LogNumbers, SMTT(60) DEF Positions
  <2>2. RingLen' = 0
    BY <2>1, RingSizeNext, Zenon
  <2>3. 0 .. RingLen' - 1 = {}
    BY <2>2
  <2>4. file' = LSN(file'.no, file'.off) /\ file'.off + 0 = file'.off
    BY <1>4, LogNumbers
  <2>5. cur' = RingLSN(RingLen)'
    BY <1>2, <1>3, <1>4, <2>2, <2>4 DEF RingLSN
  <2> QED
    BY <1>3, <2>3, <2>5 DEF InRing, Contents
<1>9. page' \in [0 .. BufSize - 1 -> Cell]
  <2>1. Stale \in Cell
    BY LogNumbers DEF Stale, Unit, Cell
  <2> QED
    BY <1>0, <2>1 DEF LogTypes, DoFlush, BufferFlushed
<1>10. LogTypes'
  BY <1>0, <1>2, <1>4, <1>5, <1>6, <1>9 DEF LogTypes
<1>11. FoundEarlier' /\ Pending'
  BY <1>1, <1>2 DEF FoundEarlier, Pending, Range
<1> QED
  BY <1>2, <1>7, <1>8, <1>10, <1>11 DEF LogInv, Running, Stopped

\* A step that changes nothing.
LEMMA StutterLog ==
    ASSUME LogInv, RingInv', UNCHANGED vars
    PROVE  LogInv'
<1>1. UNCHANGED <<page, head, tail, last, create, cur, file, record, disk, anchor,
                  up, life, repair, found, torn>>
  BY DEF vars, buffer, restart
<1>2. LogTypes /\ Stopped /\ Running
  BY DEF LogInv
<1>3. /\ OnFiles => OnFiles'
      /\ FoundEarlier => FoundEarlier'
      /\ Files(disk, anchor.no, life)' /\ (anchor.chk \in Places(anchor.no))'
  BY <1>1, <1>2, FilesSame DEF LogTypes
<1>4. InRing => InRing'
  <2>1. RingLen' = RingLen /\ Size(First)' = Size(First) /\ (\A i : RingAt(i)' = RingAt(i))
        /\ ChangeAt' = ChangeAt
    BY <1>1, RingSame
  <2>2. \A i : RingLSN(i)' = RingLSN(i)
    BY <1>1, <2>1 DEF RingLSN
  <2>3. Contents => Contents'
    BY <1>1, <2>1, <2>2 DEF Contents, Placed, Recs, Rec, LSNs, Offset
  <2> QED
    BY <1>1, <2>1, <2>2, <2>3 DEF InRing
<1>5. LogTypes'
  BY <1>1, <1>2, <1>3 DEF LogTypes
<1> QED
  BY <1>1, <1>2, <1>3, <1>4, <1>5 DEF LogInv, Running, Stopped, Pending

\* Every step keeps the log in order.
LEMMA LogStep == LogInv /\ [Next]_vars => LogInv'
<1> SUFFICES ASSUME LogInv, [Next]_vars
             PROVE  LogInv'
  OBVIOUS
<1>0. RingInv'
  BY RingStep DEF LogInv
<1>1. ASSUME NEW n \in Sizes, BeginWrite(n) PROVE LogInv'
  BY <1>0, <1>1, BeginWriteLog
<1>2. CASE Wrap
  BY <1>0, <1>2, WrapLog
<1>3. CASE FlushForRoom
  BY <1>0, <1>3, FlushLog DEF FlushForRoom
<1>4. CASE Copy
  BY <1>0, <1>4, CopyLog
<1>5. CASE Flush
  BY <1>0, <1>5, FlushLog DEF Flush
<1>6. CASE Checkpoint
  BY <1>0, <1>6, CheckpointLog
<1>7. ASSUME NEW k \in 0 .. Len(FlushWrites), Crash(k) PROVE LogInv'
  BY <1>0, <1>7, CrashLog
<1>8. CASE Restart
  BY <1>0, <1>8, RestartLog
<1>9. CASE UNCHANGED vars
  BY <1>0, <1>9, StutterLog
<1> QED
  BY <1>1, <1>2, <1>3, <1>4, <1>5, <1>6, <1>7, <1>8, <1>9 DEF Next, WriteStep

\* The records in the files lead to where the next flush writes, and those in
\* the buffer from there to the LSN of the next record, forever.
THEOREM LogInvariant == Spec => []LogInv
<1>1. Init => LogInv
  BY LogInit
<1>2. LogInv /\ [Next]_vars => LogInv'
  BY LogStep
<1> QED
  BY <1>1, <1>2, PTL DEF Spec

-----------------------------------------------------------------------------
(* What follows: types, the end of the files, reading a record *)

\* The types follow, the larger ones of TypeOK from those of the invariant.
LEMMA LogTyped == LogInv => TypeOK
<1> SUFFICES ASSUME LogInv PROVE TypeOK
  OBVIOUS
<1>1. LogTypes /\ Positions
  BY DEF LogInv, RingInv
<1>2. last \in -1 .. BufSize - 1 /\ create \in -1 .. BufSize - 1
  <2>1. BufSize \in Nat /\ head \in 0 .. BufSize - 1 /\ tail \in 0 .. BufSize - 1
    BY <1>1, LogNumbers DEF Positions
  <2>2. last \in -1 .. BufSize - 1
    BY <1>1, <2>1 DEF Positions
  <2>3. CASE create = -1
    BY <2>1, <2>2, <2>3
  <2>4. CASE create # -1
    <3>1. create \in head .. tail \/ create \in head .. last \/ create \in 0 .. tail
      BY <1>1, <2>4 DEF Positions
    <3> QED
      BY <2>1, <2>2, <3>1
  <2> QED
    BY <2>2, <2>3, <2>4
<1>3. disk \in [1 .. MaxFile + 1 -> [Offset -> Cell]]
  <2>1. disk \in [1 .. MaxFile + 1 -> [Offset -> Cells(life)]]
    BY <1>1 DEF LogTypes, Files
  <2>2. Cells(life) \subseteq Cell
    BY DEF Cells, Cell, Recs
  <2> QED
    BY <2>1, <2>2
<1> QED
  BY <1>1, <1>2, <1>3 DEF TypeOK, LogTypes, Positions

\* The scan follows the way to its end.
LEMMA EndReached == LogInv => AlreadyFlushed
<1> SUFFICES ASSUME LogInv, up PROVE Scan(LogStart, file).at = file
  BY DEF AlreadyFlushed, LogStart
<1>1. OnFiles /\ Files(disk, anchor.no, life)
  BY DEF LogInv, Running, LogTypes
<1>2. PICK P : Path(disk, anchor.no, LogStart, file, P)
  BY <1>1 DEF OnFiles
<1>3. LogStart \in P
  BY <1>2 DEF Path
<1> QED
  BY <1>1, <1>2, <1>3, PathScanned

\* The place in the ring that LogBuffer_ReadLogRecord computes.
LEMMA BufferPlaceIs ==
    ASSUME LogInv, NEW s \in 0 .. RingLen - 1
    PROVE  BufferPlace(RingLSN(s)) = RingAt(s)
<1>0. /\ head \in Nat /\ tail \in Nat /\ last \in Int /\ Size(First) \in Nat /\ s \in Nat
      /\ create \in Int /\ RingLen \in Nat
      /\ (create # -1 => ChangeAt \in 0 .. RingLen) /\ Positions
      /\ (head <= tail => RingLen = tail - head /\ Size(First) = tail - head)
      /\ (head > tail => Size(First) = last - head /\ RingLen = (last - head) + tail)
  <2>1. BufSize \in Nat /\ Positions
    BY LogNumbers
  <2>2. head \in Nat /\ tail \in Nat /\ last \in Int
    BY <2>1 DEF Positions
  <2>3. create \in Int
    <3>1. CASE create # -1
      <4>1. create \in head .. tail \/ create \in head .. last \/ create \in 0 .. tail
        BY <2>1, <3>1 DEF Positions
      <4> QED
        BY <2>2, <4>1
    <3> QED
      BY <3>1
  <2> QED
    BY <2>1, <2>2, <2>3, RingShape
<1>1. file.no \in Nat /\ file.off \in Nat
  BY LogNumbers
<1>2. CASE create = -1 \/ s < ChangeAt
  <2>1. RingLSN(s).no = file.no /\ RingLSN(s).off = file.off + s
    BY <1>2 DEF RingLSN, LSN
  <2>2. BufferPlace(RingLSN(s)) = IF head < tail \/ s < last - head THEN head + s
                                  ELSE s - (last - head)
    <3>1. (file.off + s) - file.off = s
      BY <1>0, <1>1
    <3> QED
      BY <2>1, <3>1 DEF BufferPlace
  <2> QED
    BY <1>0, <2>2 DEF RingAt
<1>3. CASE create # -1 /\ ~ (s < ChangeAt)
  <2>1. RingLSN(s).no = file.no + 1 /\ RingLSN(s).off = s - ChangeAt /\ file.no + 1 # file.no
    BY <1>1, <1>3 DEF RingLSN, LSN
  <2>2. BufferPlace(RingLSN(s)) =
          IF create < tail \/ s - ChangeAt < last - create THEN create + (s - ChangeAt)
          ELSE (s - ChangeAt) - (last - create)
    <3>1. (s - ChangeAt) - 0 = s - ChangeAt
      BY <1>0, <1>3
    <3> QED
      BY <2>1, <3>1 DEF BufferPlace
  <2>3. CASE head <= tail
    <3>1. ChangeAt = create - head /\ create \in head .. tail
      BY <1>0, <1>3, <2>3 DEF ChangeAt, Positions
    <3> QED
      BY <1>0, <1>3, <2>2, <2>3, <3>1 DEF RingAt
  <2>4. CASE head > tail /\ create >= head
    <3>1. ChangeAt = create - head /\ create <= last
      BY <1>0, <1>3, <2>4 DEF ChangeAt, Positions
    <3> QED
      BY <1>0, <1>3, <2>2, <2>4, <3>1 DEF RingAt
  <2>5. CASE head > tail /\ ~ (create >= head)
    <3>1. ChangeAt = Size(First) + create /\ create \in 0 .. tail
      BY <1>0, <1>3, <2>5 DEF ChangeAt, Positions
    <3> QED
      BY <1>0, <1>3, <2>2, <2>5, <3>1 DEF RingAt
  <2> QED
    BY <1>0, <2>3, <2>4, <2>5
<1> QED
  BY <1>2, <1>3

\* Ring lists the units of the ring.
LEMMA RingUnits ==
    ASSUME LogInv, NEW c \in Range(Ring)
    PROVE  \E i \in 0 .. RingLen - 1 : c = page[RingAt(i)]
<1> DEFINE a == [i \in 1 .. Size(First) |-> page[First[1] + i - 1]]
           b == [i \in 1 .. Size(Second) |-> page[i - 1]]
           S == {page[x] : x \in Int}
<1>1. /\ head \in Nat /\ First[1] = head /\ Size(First) \in Nat /\ Size(Second) \in Nat
      /\ RingLen = Size(First) + Size(Second)
  <2>1. Positions /\ BufSize \in Nat
    BY LogNumbers
  <2>2. head \in Nat /\ tail \in Nat /\ Size(First) \in Nat
    BY <2>1, RingShape DEF Positions
  <2>3. First[1] = head
    BY DEF First
  <2>4. Size(Second) \in Nat
    BY <2>2 DEF Second, Size
  <2> QED
    BY <2>2, <2>3, <2>4 DEF RingLen
<1>2. a \in Seq(S) /\ b \in Seq(S)
  BY <1>1, SMTT(60)
<1>3. Range(Ring) \subseteq Range(a) \cup Range(b)
  BY <1>2, RangeOfBoth, Zenon DEF Ring
<1>4. CASE c \in Range(a)
  <2>1. PICK j \in 1 .. Size(First) : c = page[head + j - 1]
    BY <1>1, <1>4 DEF Range
  <2>2. j - 1 \in 0 .. RingLen - 1 /\ j - 1 < Size(First) /\ head + (j - 1) = head + j - 1
    BY <1>1
  <2>3. RingAt(j - 1) = head + j - 1
    BY <2>2 DEF RingAt
  <2> QED
    BY <2>1, <2>2, <2>3
<1>5. CASE c \in Range(b)
  <2>1. PICK j \in 1 .. Size(Second) : c = page[j - 1]
    BY <1>1, <1>5 DEF Range
  <2>2. PICK i : i = Size(First) + j - 1
    OBVIOUS
  <2>3. i \in 0 .. RingLen - 1 /\ ~ (i < Size(First)) /\ i - Size(First) = j - 1
    BY <1>1, <2>2
  <2>4. RingAt(i) = j - 1
    BY <2>3 DEF RingAt
  <2> QED
    BY <2>1, <2>3, <2>4
<1> QED
  BY <1>3, <1>4, <1>5

\* A record in the buffer is whole where LogBuffer_ReadLogRecord looks.
LEMMA BufferedRead ==
    ASSUME LogInv, up, NEW c \in Range(Ring), c.part = 1
    PROVE  ReadsBack(c.rec)
<1>0. Contents /\ LogTypes
  BY DEF LogInv, Running, InRing
<1>1. PICK i \in 0 .. RingLen - 1 : c = page[RingAt(i)]
  BY RingUnits
<1>2. PICK s \in 0 .. i : \E q \in Recs(life) : Placed(s, q) /\ i < s + q.len
  BY <1>0 DEF Contents
<1>3. PICK r \in Recs(life) : Placed(s, r) /\ i < s + r.len
  BY <1>2
<1>4. r.len \in Nat /\ RingLen \in Nat /\ Size(First) \in Nat /\ head \in Nat /\ BufSize \in Nat
      /\ file.no \in Nat /\ file.off \in Nat /\ (create # -1 => ChangeAt \in 0 .. RingLen)
  <2>1. Positions
    BY LogNumbers
  <2>2. r.len \in Nat
    BY LensAre DEF RecordLen
  <2>3. RingLen \in Nat /\ Size(First) \in Nat /\ head \in 0 .. BufSize - 1
        /\ (create # -1 => ChangeAt \in 0 .. RingLen)
    BY <2>1, RingShape
  <2> QED
    BY <2>2, <2>3, LogNumbers
<1>5. c = Unit(r, i - s + 1)
  <2>1. PICK k \in 1 .. r.len : k = i - s + 1
    BY <1>3, <1>4
  <2>2. page[RingAt(s + k - 1)] = Unit(r, k)
    BY <1>3 DEF Placed
  <2>3. s + k - 1 = i
    BY <2>1
  <2> QED
    BY <1>1, <2>1, <2>2, <2>3
<1>6. c.rec = r /\ s = i
  <2>1. c.rec = r /\ c.part = i - s + 1
    BY <1>5 DEF Unit
  <2> QED
    BY <2>1
<1>7. r.lsn = RingLSN(s) /\ s \in 0 .. RingLen - 1
  BY <1>3, <1>6 DEF Placed
<1>8. ~ (r.lsn.no < file.no \/ (r.lsn.no = file.no /\ r.lsn.off < file.off))
  <2>1. CASE create = -1 \/ s < ChangeAt
    <3>1. r.lsn.no = file.no /\ r.lsn.off = file.off + s
      BY <1>7, <2>1 DEF RingLSN, LSN
    <3> QED
      BY <1>4, <3>1
  <2>2. CASE ~ (create = -1 \/ s < ChangeAt)
    <3>1. r.lsn.no = file.no + 1
      BY <1>7, <2>2 DEF RingLSN, LSN
    <3> QED
      BY <1>4, <3>1
  <2> QED
    BY <2>1, <2>2
<1>9. BufferPlace(r.lsn) = RingAt(s)
  BY <1>7, BufferPlaceIs
<1>10. ASSUME NEW k \in 1 .. r.len
       PROVE  RingAt(s) + k - 1 \in DOMAIN page /\ page[RingAt(s) + k - 1] = Unit(r, k)
  <2>1. s + k - 1 \in 0 .. RingLen - 1
    BY <1>3, <1>4 DEF Placed
  <2>2. Size(First) <= s \/ s + r.len <= Size(First)
    BY <1>3 DEF Placed
  <2>3. RingAt(s + k - 1) = RingAt(s) + k - 1
    BY <1>4, <2>2 DEF RingAt
  <2>4. page[RingAt(s + k - 1)] = Unit(r, k)
    BY <1>3 DEF Placed
  <2>5. RingAt(s + k - 1) \in 0 .. BufSize - 1
    <3>1. Positions
      BY LogNumbers
    <3> QED
      BY <2>1, <3>1, RingShape
  <2>6. DOMAIN page = 0 .. BufSize - 1
    BY <1>0 DEF LogTypes
  <2> QED
    BY <2>3, <2>4, <2>5, <2>6
<1> QED
  BY <1>6, <1>8, <1>9, <1>10 DEF ReadsBack

\* A record of this run in the files is whole at its LSN.
LEMMA FlushedRead ==
    ASSUME LogInv, up, NEW r \in Range(Flushed), r.life = life
    PROVE  ReadsBack(r)
<1>1. PICK P : Path(disk, anchor.no, LogStart, file, P)
  BY DEF LogInv, Running, OnFiles
<1>2. OnPath(disk, file, P, r)
  BY <1>1, FlushedIs
<1>3. Before(r.lsn, file)
  BY <1>1, <1>2 DEF OnPath, Path
<1>4. \A k \in 1 .. r.len : disk[r.lsn.no][r.lsn.off + k - 1] = Unit(r, k)
  BY <1>2 DEF OnPath, RecordAt
<1> QED
  BY <1>3, <1>4 DEF ReadsBack, Before

\* So LogMgr_ReadLogRecord finds it either way.
LEMMA AllRead == LogInv => ReadBack
<1> SUFFICES ASSUME LogInv, up,
                    NEW r \in Range(Flushed) \cup {c.rec : c \in {d \in Range(Ring) : d.part = 1}},
                    r.life = life
             PROVE  ReadsBack(r)
  BY DEF ReadBack
<1>1. CASE r \in Range(Flushed)
  BY <1>1, FlushedRead
<1>2. CASE r \in {c.rec : c \in {d \in Range(Ring) : d.part = 1}}
  BY <1>2, BufferedRead
<1> QED
  BY <1>1, <1>2

\* Every variable has the type of the field it stands for; positions, offsets
\* and the cells of the files stay in their ranges.
THEOREM TypeCorrect == Spec => []TypeOK
<1>1. LogInv => TypeOK
  BY LogTyped
<1> QED
  BY <1>1, LogInvariant, PTL

\* A record whose LSN is below that of the log file has been flushed: the scan
\* of the files gets as far as File_ says (mdb_LogMgr.c:944).
THEOREM FilesReachEnd == Spec => []AlreadyFlushed
<1>1. LogInv => AlreadyFlushed
  BY EndReached
<1> QED
  BY <1>1, LogInvariant, PTL

\* LogMgr_ReadLogRecord finds each record of this run by its LSN, in the
\* buffer or in a file, whatever flushes, wraps and changes of file happened.
THEOREM RecordsReadBack == Spec => []ReadBack
<1>1. LogInv => ReadBack
  BY AllRead
<1> QED
  BY <1>1, LogInvariant, PTL

=============================================================================
