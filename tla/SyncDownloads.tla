---------------------------- MODULE SyncDownloads ----------------------------
(***************************************************************************)
(* For every number of clients, rows, data sources and connections: a      *)
(* device gets every committed row that it has not got and has not changed *)
(* (NothingMissed), when none of the circumstances of Faults occurs.       *)
(*                                                                         *)
(* What is invariant is about times from which a device downloads, now or  *)
(* later (Due): of a row that is not in its change log it has the          *)
(* committed version, or that version is younger, and so is every version  *)
(* that a transaction can still commit (Fresh).  While a session runs, its *)
(* connect time is to become such a time.  Of the rows of the data source  *)
(* it is at, some are uploaded, some are in messages under way and some    *)
(* deleted ones are still to be sent (Owed); the rows of the data sources  *)
(* before are done (Past).                                                 *)
(***************************************************************************)
EXTENDS SyncSessionProofs

\* Whoever has version w of row r gets what the table R has, or transactions X will
\* put there, if it downloads the rows stamped at T or later.
Fresh(R, X, r, T, w) ==
    /\ R[r].ver = w \/ R[r].mTime >= T
    /\ \A j \in Conns : X[j][r] # NoRow => X[j][r].mTime >= T

\* Client c downloads from time T, or will: T is its DBSyncTime, is what a session
\* of it has read there, or is what a session that ends without an error will store.
Stamp == 0..MaxTime
Finishing(t, q) == t.pc = "end" \/ (t.pc = "flag" /\ Holds(q, "A"))
Due(c, T) ==
    \/ T = user[c].time
    \/ \E k \in Conns : /\ thr[k].auth /\ thr[k].who = c
                        /\ \/ T = thr[k].lastSyncTime
                           \/ T = thr[k].connectTime /\ Finishing(thr[k], toSrv[k])

ClockInv ==
    /\ \A r \in Rows : rows[r].mTime <= now /\ \A k \in Conns : txn[k][r].mTime <= now
    /\ \A k \in Conns :
        /\ thr[k].connectTime <= now \/ thr[k].connectTime = Never
        /\ thr[k].open # 0 => thr[k].connectTime # Never
        /\ thr[k].pc \in {"none", "start", "auth", "done"} => ~thr[k].auth /\ thr[k].connectTime = Never

\* A row is written by one transaction at a time.
LockInv == \A j, k \in Conns, r \in Rows : txn[j][r] # NoRow /\ txn[k][r] # NoRow => j = k

SeenInv ==
    \A c \in Clients, T \in Stamp : Due(c, T) =>
        /\ T <= now
        /\ \A r \in Rows : r \notin changed[c] => Fresh(rows, txn, r, T, local[c][r])

\* The rows in the messages a under way to a client.
Data(a) == {m \in Range(a) : m[1] \in {"F", "R"}}
Flight(a) == UNION {DOMAIN m[2] : m \in Data(a)}

\* To a client in state pc the messages a are under way: the first download of data
\* source d has begun, the second.
Began(pc, a, d) ==
    \/ pc = "ok" /\ a # << >> /\ (Selected(Tail(a), d) \/ Both(Tail(a), d) \/ CutOff(Tail(a), d))
    \/ pc = "select" /\ (Selected(a, d) \/ Both(a, d) \/ CutOff(a, d))
    \/ pc = "delete"
BegunTwice(pc, a, d) ==
    \/ pc = "ok" /\ a # << >> /\ Both(Tail(a), d)
    \/ pc = "select" /\ Both(a, d)
    \/ pc = "delete" /\ Deletions(a, d)

\* A client program l with versions v and change log g, thread t, messages a to it:
\* the rows it has uploaded, the rows under way, the rows that are still to come.
OwnRows(l, v, g, R, X, T) == \A r \in g \cap RowsOf(l.dsn) : Fresh(R, X, r, T, v[r])
SentRows(a, R, X, T) == \A m \in Data(a) : \A r \in DOMAIN m[2] : Fresh(R, X, r, T, m[2][r])
AllRows(l, v, a, R, X, T) == \A r \in RowsOf(l.dsn) : r \in Flight(a) \/ Fresh(R, X, r, T, v[r])
Since(t) == IF t.syncFlag = "ALL_SYNC" THEN 0 ELSE t.lastSyncTime
ToDelete(t, R, X, r, T) ==
    /\ R[r].mTime >= Since(t) /\ R[r].ver.del
    /\ \A j \in Conns : X[j][r] # NoRow => X[j][r].mTime >= T
Owed(l, v, g, t, a, R, X, T) ==
    /\ Began(l.pc, a, l.dsn) \/ t.pc = "select" => OwnRows(l, v, g, R, X, T)
    /\ SentRows(a, R, X, T)
    /\ BegunTwice(l.pc, a, l.dsn) => AllRows(l, v, a, R, X, T)
    /\ t.pc = "delete" => \A r \in RowsOf(l.dsn) : \/ r \in Flight(a)
                                                   \/ Fresh(R, X, r, T, v[r])
                                                   \/ ToDelete(t, R, X, r, T)
Past(l, v, t, R, X) ==
    l.dsn > 1 \/ l.pc = "quit" =>
        /\ t.connectTime # Never
        /\ \A r \in Rows : DsnOf[r] < l.dsn \/ l.pc = "quit" => Fresh(R, X, r, t.connectTime, v[r])

\* Thread t knows whose connection it serves once it has answered.
Known(c, l, t, q, a) ==
    /\ l.pc = "ack" => l.dsn = 1
    /\ l.pc = "ack" /\ t.pc \in {"start", "auth"} => q = <<<<"AUTH", c>>>>
    /\ l.pc = "ack" /\ t.pc = "flag" => t.who = c /\ (t.auth <=> Head(a)[1] = "ACK")
    /\ l.pc \notin {"ack", "quit", "bye"} /\ Alive(t) => t.who = c /\ t.auth
    /\ l.pc = "quit" /\ Alive(t) => t.who = c

ToBeDue(t, T) == Alive(t) /\ t.auth /\ T = t.connectTime
ConnectInv(c, k) ==
    /\ Known(c, cli[c], thr[k], toSrv[k], toCli[k])
    /\ \A T \in Stamp : Due(c, T) \/ ToBeDue(thr[k], T) =>
           Owed(cli[c], local[c], changed[c], thr[k], toCli[k], rows, txn, T)
    /\ Alive(thr[k]) /\ thr[k].auth => Past(cli[c], local[c], thr[k], rows, txn)
ConnectionsInv == \A c \in Clients : cli[c].pc # "off" => ConnectInv(c, cli[c].conn)
TimeInv == ClockInv /\ LockInv /\ SeenInv /\ ConnectionsInv

-----------------------------------------------------------------------------
(* The clock and the rows *)

\* What a step of a thread does to the table and to the transactions.
LEMMA ServeWrites ==
    ASSUME Inv, NEW k \in Conns, Serve(k)
    PROVE  /\ now \in 1..MaxTime /\ now' \in 1..MaxTime /\ now <= now'
           /\ \A r \in Rows : rows'[r] = rows[r] \/ (txn[k][r] # NoRow /\ rows'[r] = txn[k][r])
           /\ \A r \in Rows, j \in Conns :
                  \/ txn'[j][r] = txn[j][r]
                  \/ txn'[j][r] = NoRow
                  \/ /\ j = k /\ txn'[j][r].mTime = now'
                     /\ \A l \in Conns \ {k} : txn[l][r] = NoRow
<1>0. /\ now \in 1..MaxTime /\ rows \in [Rows -> Stored]
      /\ txn \in [Conns -> [Rows -> Stored \cup {NoRow}]]
  BY DEF Inv, DataInv
<1>1. CASE /\ now' = now \/ ReadClock
           /\ CommitTran(k) \/ Rollback(k) \/ UNCHANGED <<rows, txn>>
  BY <1>0, <1>1 DEF ReadClock, CommitTran, Rollback, Written
<1>2. CASE ProcessScript(k)
  <2>1. CASE UNCHANGED <<now, txn, rows>>
    BY <1>0, <2>1
  <2>2. ASSUME ~UNCHANGED <<now, txn, rows>>
        PROVE  /\ Holders(k, Body(k).row) = {} /\ ReadClock /\ rows' = rows
               /\ txn' = [txn EXCEPT ![k][Body(k).row] = [ver |-> Body(k), mTime |-> now']]
    BY <1>2, <2>2 DEF ProcessScript
  <2>3. ASSUME ~UNCHANGED <<now, txn, rows>>, NEW r \in Rows, NEW j \in Conns
        PROVE  \/ txn'[j][r] = txn[j][r]
               \/ /\ j = k /\ txn'[j][r].mTime = now'
                  /\ \A l \in Conns \ {k} : txn[l][r] = NoRow
    <3>1. PICK m, v : m = Body(k).row /\ v = [ver |-> Body(k), mTime |-> now']
      OBVIOUS
    <3>2. txn' = [txn EXCEPT ![k][m] = v] /\ v.mTime = now' /\ Holders(k, m) = {}
      BY <2>2, <2>3, <3>1
    <3> QED
      BY <1>0, <3>2 DEF Holders
  <2> QED
    BY <1>0, <2>1, <2>2, <2>3 DEF ReadClock
<1>3. CASE SetApplication(k)
  BY <1>1, <1>3 DEF SetApplication
<1>4. CASE UploadCommit(k) \/ FreeHandles(k) \/ UploadOK(k)
  BY <1>1, <1>4 DEF UploadCommit, FreeHandles, UploadOK
<1>5. CASE \/ InitializeParameter(k) \/ (\E a \in Answers : AuthenticateUser(k, a)) \/ AuthenticateFails(k)
           \/ SetTableName(k) \/ (\E del \in BOOLEAN : Download(k, del) \/ DownloadFails(k, del))
           \/ EndSession(k) \/ NetworkError(k) \/ UpdateConnectFlag(k)
  BY <1>1, <1>5 DEF InitializeParameter, AuthenticateUser, AuthenticateFails, SetTableName, Download,
     DownloadFails, EndSession, NetworkError, UpdateConnectFlag
<1> QED
  BY <1>2, <1>3, <1>4, <1>5 DEF Serve

\* Who gets a row when it downloads from T gets it still, as long as T is not later
\* than the clock.
LEMMA FreshStays ==
    ASSUME Inv, NEW k \in Conns, Serve(k), NEW T \in Stamp, T <= now, NEW r \in Rows, NEW w,
           Fresh(rows, txn, r, T, w)
    PROVE  Fresh(rows', txn', r, T, w)
<1>1. /\ now \in 1..MaxTime /\ now' \in 1..MaxTime /\ now <= now'
      /\ rows'[r] = rows[r] \/ (txn[k][r] # NoRow /\ rows'[r] = txn[k][r])
      /\ \A j \in Conns : txn'[j][r] = txn[j][r] \/ txn'[j][r] = NoRow \/ txn'[j][r].mTime = now'
  BY ServeWrites
<1> QED
  BY <1>1 DEF Fresh, Stamp

LEMMA ToDeleteStays ==
    ASSUME Inv, NEW k \in Conns, Serve(k), NEW T \in Stamp, T <= now, NEW r \in Rows, NEW t, NEW w,
           ToDelete(t, rows, txn, r, T)
    PROVE  ToDelete(t, rows', txn', r, T) \/ Fresh(rows', txn', r, T, w)
<1>1. /\ now \in 1..MaxTime /\ now' \in 1..MaxTime /\ now <= now'
      /\ rows'[r] = rows[r] \/ (txn[k][r] # NoRow /\ rows'[r] = txn[k][r])
      /\ \A j \in Conns : txn'[j][r] = txn[j][r] \/ txn'[j][r] = NoRow \/ txn'[j][r].mTime = now'
  BY ServeWrites
<1> QED
  BY <1>1 DEF ToDelete, Fresh, Stamp

LEMMA LocksStay ==
    ASSUME Inv, LockInv, NEW k \in Conns, Serve(k)
    PROVE  LockInv'
<1> SUFFICES ASSUME NEW i \in Conns, NEW j \in Conns, NEW r \in Rows,
                    txn'[i][r] # NoRow, txn'[j][r] # NoRow
             PROVE  i = j
  BY DEF LockInv
<1> QED
  BY ServeWrites DEF LockInv

-----------------------------------------------------------------------------
(* The times from which clients download *)

\* What a step of a thread makes of the fields that Due reads.
LEMMA ServeFields ==
    ASSUME Inv, SessInv, NEW k \in Conns, Serve(k), ~\E a \in Answers : AuthenticateUser(k, a),
           ~AuthenticateFails(k), ~SetApplication(k), ~FreeHandles(k)
    PROVE  /\ thr'[k].who = thr[k].who /\ thr'[k].auth = thr[k].auth /\ thr'[k].open = thr[k].open
           /\ thr'[k].lastSyncTime = thr[k].lastSyncTime /\ thr'[k].connectTime = thr[k].connectTime
           /\ Finishing(thr'[k], toSrv'[k]) => Finishing(thr[k], toSrv[k])
           /\ UNCHANGED user \/ UpdateConnectFlag(k)
           /\ thr'[k].pc \in {"start", "auth", "done"} => InitializeParameter(k)
<1>0. thr \in [Conns -> Thread] /\ toSrv[k] \in Seq(Request)
  BY DEF Inv, ThreadInv, NetInv
<1>1. CASE InitializeParameter(k)
  BY <1>0, <1>1 DEF InitializeParameter, Finishing, Thread
<1>2. CASE SetTableName(k) \/ ProcessScript(k)
  <2>1. PICK f : Reads(k, "flag", f) /\ Consume(k)
    BY <1>2 DEF SetTableName, ProcessScript
  <2>2. thr[k].pc = "flag" /\ toSrv[k] # << >> /\ toSrv'[k] = Tail(toSrv[k])
    BY <2>1, ReadsFirst DEF Working
  <2>3. Holds(toSrv'[k], "A") => Holds(toSrv[k], "A")
    BY <1>0, <2>2, UploadsHead
  <2>4. /\ thr'[k].who = thr[k].who /\ thr'[k].auth = thr[k].auth /\ thr'[k].open = thr[k].open
        /\ thr'[k].lastSyncTime = thr[k].lastSyncTime /\ thr'[k].connectTime = thr[k].connectTime
        /\ thr'[k].pc \in {"flag", "error"} /\ UNCHANGED user
    BY <1>0, <1>2, <2>2 DEF SetTableName, ProcessScript, Thread
  <2> QED
    BY <2>2, <2>3, <2>4 DEF Finishing
<1>3. CASE UploadOK(k) \/ UploadCommit(k) \/ NetworkError(k) \/ UpdateConnectFlag(k)
  <2>1. /\ thr'[k].who = thr[k].who /\ thr'[k].auth = thr[k].auth /\ thr'[k].open = thr[k].open
        /\ thr'[k].lastSyncTime = thr[k].lastSyncTime /\ thr'[k].connectTime = thr[k].connectTime
        /\ thr'[k].pc \in {"commit", "select", "error", "free"}
        /\ UNCHANGED user \/ UpdateConnectFlag(k)
    BY <1>0, <1>3 DEF UploadOK, UploadCommit, NetworkError, UpdateConnectFlag, Thread
  <2> QED
    BY <2>1 DEF Finishing
<1>4. ASSUME NEW del \in BOOLEAN, Download(k, del)
      PROVE  /\ thr'[k].who = thr[k].who /\ thr'[k].auth = thr[k].auth /\ thr'[k].open = thr[k].open
             /\ thr'[k].lastSyncTime = thr[k].lastSyncTime /\ thr'[k].connectTime = thr[k].connectTime
             /\ thr'[k].pc \in {"delete", "flag"} /\ UNCHANGED user /\ ~Holds(toSrv'[k], "A")
  <2>1. toSrv[k] = << >>
    BY <1>4, ThreadTypes DEF Download, TOK, ThreadOK
  <2> QED
    BY <1>0, <1>4, <2>1, QueueEmpty DEF Download, Thread
<1>5. CASE EndSession(k)
  <2>1. thr[k].pc = "flag" /\ toSrv[k] # << >> /\ Head(toSrv[k])[1] = "A"
    BY <1>5, ReadsFirst DEF EndSession, Working
  <2>2. Holds(toSrv[k], "A")
    BY <1>0, <2>1, UploadsHead
  <2> QED
    BY <1>0, <1>5, <2>1, <2>2 DEF EndSession, Finishing, Thread
<1>6. ASSUME NEW del \in BOOLEAN, DownloadFails(k, del)
      PROVE  /\ thr'[k].who = thr[k].who /\ thr'[k].auth = thr[k].auth /\ thr'[k].open = thr[k].open
             /\ thr'[k].lastSyncTime = thr[k].lastSyncTime /\ thr'[k].connectTime = thr[k].connectTime
             /\ thr'[k].pc = "error" /\ UNCHANGED user
  BY <1>0, <1>6 DEF DownloadFails, Thread
<1> QED
  BY <1>1, <1>2, <1>3, <1>4, <1>5, <1>6 DEF Serve, Finishing

\* A step of a thread adds no time to those from which a client downloads: the time
\* that the session stores was one already when the client had asked for the end.
LEMMA DueStays ==
    ASSUME Inv, SessInv, ClockInv, NEW k \in Conns, Serve(k),
           NEW c \in Clients, NEW T \in Stamp, Due(c, T)'
    PROVE  Due(c, T)
<1>0. /\ thr \in [Conns -> Thread] /\ user \in [Clients -> User] /\ T # Never
      /\ toSrv[k] \in Seq(Request)
      /\ \A l \in Conns \ {k} : thr'[l] = thr[l] /\ toSrv'[l] = toSrv[l]
  <2>1. T # Never
    BY SyncAssumption DEF Never, Stamp
  <2> QED
    BY <2>1, OtherSockets DEF Inv, ThreadInv, DataInv, NetInv
<1>1. CASE T = user'[c].time
  <2>1. CASE user'[c].time = user[c].time
    BY <1>1, <2>1 DEF Due
  <2>2. CASE user'[c].time # user[c].time
    <3>1. UpdateConnectFlag(k)
      <4>1. ASSUME NEW a \in Answers, AuthenticateUser(k, a) PROVE user'[c].time = user[c].time
        <5>1. PICK d : d = Body(k)
          OBVIOUS
        <5>2. \/ UNCHANGED user
              \/ user' = [[user EXCEPT ![d].flag = "CONNECT"] EXCEPT ![d].lost = FALSE]
          BY <4>1, <5>1 DEF AuthenticateUser
        <5>3. user[c] \in [flag : {"CONNECT", "DISCONNECT", "DISCONNECT_ERROR"}, time : 0..MaxTime, lost : BOOLEAN]
          BY <1>0 DEF User
        <5>4. user \in [Clients -> [flag : {"CONNECT", "DISCONNECT", "DISCONNECT_ERROR"}, time : 0..MaxTime, lost : BOOLEAN]]
          BY <1>0 DEF User
        <5> QED
          BY <5>2, <5>3, <5>4
      <4>2. SetApplication(k) \/ FreeHandles(k) \/ AuthenticateFails(k) => UNCHANGED user
        BY DEF SetApplication, FreeHandles, AuthenticateFails
      <4>3. AuthenticateFails(k) \/ SetApplication(k) \/ FreeHandles(k) => user'[c].time = user[c].time
        BY <4>2
      <4>4. UNCHANGED user => user'[c].time = user[c].time
        OBVIOUS
      <4>5. ~\E a \in Answers : AuthenticateUser(k, a)
        BY <2>2, <4>1
      <4>6. ~AuthenticateFails(k) /\ ~SetApplication(k) /\ ~FreeHandles(k) /\ ~UNCHANGED user
        BY <2>2, <4>3, <4>4
      <4> QED
        BY <4>5, <4>6, ServeFields
    <3>2. thr[k].auth /\ thr[k].who = c /\ thr[k].pc = "end" /\ user'[c].time = thr[k].connectTime
      BY <1>0, <2>2, <3>1 DEF UpdateConnectFlag, User, Thread
    <3> QED
      BY <1>1, <3>2 DEF Due, Finishing
  <2> QED
    BY <2>1, <2>2
<1>2. ASSUME NEW l \in Conns, thr'[l].auth, thr'[l].who = c,
             \/ T = thr'[l].lastSyncTime
             \/ T = thr'[l].connectTime /\ Finishing(thr'[l], toSrv'[l])
      PROVE  Due(c, T)
  <2>1. CASE l # k
    BY <1>0, <1>2, <2>1 DEF Due
  <2>2. CASE l = k
    <3>1. ASSUME NEW a \in Answers, AuthenticateUser(k, a) PROVE Due(c, T)
      <4>1. thr[k].pc = "auth" /\ thr'[k].connectTime = thr[k].connectTime /\ thr'[k].who = Body(k)
        BY <3>1, UserAuthenticated
      <4>2. ~thr[k].auth /\ thr[k].connectTime = Never
        BY <4>1 DEF ClockInv
      <4>3. thr'[k].lastSyncTime = user[Body(k)].time
        BY <1>2, <2>2, <3>1, <4>2, UserAuthenticated
      <4> QED
        BY <1>0, <1>2, <2>2, <4>1, <4>2, <4>3 DEF Due
    <3>2. CASE SetApplication(k)
      <4>1. thr'[k].lastSyncTime = thr[k].lastSyncTime /\ thr'[k].auth = thr[k].auth /\ thr'[k].who = thr[k].who
        BY <3>2, ApplicationSet
      <4>2. thr'[k].pc \in {"flag", "error"}
        BY <3>2, ApplicationSet
      <4>3. /\ toSrv[k] # << >> /\ Head(toSrv[k])[1] = "S" /\ toSrv'[k] = Tail(toSrv[k])
            /\ InOrder(toSrv[k])
        BY <3>2, ReadsFirst DEF SetApplication, Working
      <4>4. ~Holds(toSrv'[k], "A")
        BY <1>0, <4>3, OrderTail DEF Holds, Before
      <4> QED
        BY <1>2, <2>2, <4>1, <4>2, <4>4 DEF Due, Finishing
    <3>3. CASE FreeHandles(k)
      <4>1. ~thr'[k].auth
        BY <1>0, <3>3 DEF FreeHandles, NoThread
      <4> QED
        BY <1>2, <2>2, <4>1
    <3>4. CASE AuthenticateFails(k)
      <4>1. ~thr'[k].auth
        BY <3>4, AuthenticationFailed DEF ClockInv
      <4> QED
        BY <1>2, <2>2, <4>1
    <3> QED
      BY <1>2, <2>2, <3>1, <3>2, <3>3, <3>4, ServeFields DEF Due
  <2> QED
    BY <2>1, <2>2
<1> QED
  BY <1>1, <1>2 DEF Due

LEMMA ClockStays ==
    ASSUME Inv, SessInv, ClockInv, NEW k \in Conns, Serve(k)
    PROVE  ClockInv'
<1>0. /\ thr \in [Conns -> Thread] /\ thr' \in [Conns -> Thread]
      /\ txn \in [Conns -> [Rows -> Stored \cup {NoRow}]]
      /\ \A l \in Conns \ {k} : thr'[l] = thr[l]
  <2>1. Inv'
    BY ServeSteps
  <2> QED
    BY <2>1, OtherSockets DEF Inv, ThreadInv, DataInv
<1>1. now \in 1..MaxTime /\ now' \in 1..MaxTime /\ now <= now'
  BY ServeWrites
<1>2. ASSUME NEW r \in Rows
      PROVE  rows'[r].mTime <= now' /\ \A l \in Conns : txn'[l][r].mTime <= now'
  <2>1. rows[r].mTime \in Nat /\ \A l \in Conns : txn[l][r].mTime \in Nat
    BY <1>0 DEF Inv, DataInv, Stored, NoRow
  <2>2. rows[r].mTime <= now /\ \A l \in Conns : txn[l][r].mTime <= now
    BY DEF ClockInv
  <2>3. NoRow.mTime = 0
    BY DEF NoRow
  <2>4. rows'[r].mTime <= now'
    BY <1>1, <2>1, <2>2, ServeWrites
  <2>5. ASSUME NEW l \in Conns PROVE txn'[l][r].mTime <= now'
    BY <1>1, <2>1, <2>2, <2>3, ServeWrites
  <2> QED
    BY <2>4, <2>5
<1>3. ASSUME NEW l \in Conns
      PROVE  /\ thr'[l].connectTime <= now' \/ thr'[l].connectTime = Never
             /\ thr'[l].open # 0 => thr'[l].connectTime # Never
             /\ thr'[l].pc \in {"none", "start", "auth", "done"} =>
                    ~thr'[l].auth /\ thr'[l].connectTime = Never
  <2>1. thr[l].connectTime \in Nat
    BY <1>0 DEF Thread
  <2>2. thr'[l].connectTime = thr[l].connectTime =>
          thr'[l].connectTime <= now' \/ thr'[l].connectTime = Never
    BY <1>1, <2>1 DEF ClockInv
  <2>3. CASE l # k
    BY <1>0, <2>2, <2>3 DEF ClockInv
  <2>4. CASE l = k
    <3>1. ASSUME NEW a \in Answers, AuthenticateUser(k, a)
          PROVE  /\ thr'[k].pc = "flag" /\ thr'[k].open = thr[k].open
                 /\ thr'[k].connectTime = thr[k].connectTime
      BY <3>1, UserAuthenticated
    <3>2. CASE SetApplication(k)
      <4>1. CASE thr'[k].connectTime = GetDBConnectTime(k) /\ thr'[k].pc = "flag"
        <5>1. thr'[k].connectTime <= now' /\ thr'[k].connectTime \in Nat
          BY <1>1, <2>1, <2>4, <4>1 DEF GetDBConnectTime
        <5>2. thr'[k].connectTime # Never
          BY <1>1, <5>1, SyncAssumption DEF Never
        <5> QED
          BY <2>4, <4>1, <5>1, <5>2
      <4>2. CASE /\ thr'[k].connectTime = thr[k].connectTime /\ thr'[k].open = 0
                 /\ thr'[k].pc = "error"
        BY <2>2, <2>4, <4>2
      <4> QED
        BY <3>2, <4>1, <4>2, ApplicationSet
    <3>3. CASE FreeHandles(k)
      <4>1. thr'[k] = [NoThread EXCEPT !.pc = "done", !.ended = thr[k].ended]
        BY <1>0, <3>3 DEF FreeHandles
      <4> QED
        BY <2>4, <4>1 DEF NoThread
    <3>5. CASE AuthenticateFails(k)
      <4>1. /\ thr'[k].pc = "error" /\ thr'[k].open = thr[k].open
            /\ thr'[k].connectTime = thr[k].connectTime
        BY <3>5, AuthenticationFailed
      <4> QED
        BY <2>2, <2>4, <4>1 DEF ClockInv
    <3>4. CASE /\ ~(\E a \in Answers : AuthenticateUser(k, a)) /\ ~AuthenticateFails(k)
               /\ ~SetApplication(k) /\ ~FreeHandles(k)
      <4>1. /\ thr'[k].auth = thr[k].auth /\ thr'[k].open = thr[k].open
            /\ thr'[k].connectTime = thr[k].connectTime
            /\ thr'[k].pc \in {"start", "auth", "done"} => InitializeParameter(k)
        BY <3>4, ServeFields
      <4>2. thr'[k].pc # "none"
        <5>1. SocketInv' /\ conn[k] # "none" /\ (conn'[k] = conn[k] \/ conn'[k] = "closed")
          <6>1. thr[k].pc \in {"start"} \cup Working
            BY OtherSockets
          <6>2. conn[k] # "none"
            BY <6>1 DEF SessInv, SocketInv, Working
          <6> QED
            BY <3>4, <6>2, SocketOK DEF Serve, InitializeParameter, SetTableName, ProcessScript, UploadOK,
               UploadCommit, Download, DownloadFails, EndSession, NetworkError, UpdateConnectFlag, net
        <5> QED
          BY <5>1 DEF SocketInv
      <4>3. InitializeParameter(k) => thr[k].pc = "start"
        BY DEF InitializeParameter
      <4>4. thr[k].open # 0 => thr[k].connectTime # Never
        BY DEF ClockInv
      <4> QED
        BY <2>2, <2>4, <4>1, <4>2, <4>3, <4>4 DEF ClockInv
    <3> QED
      BY <2>2, <2>4, <3>1, <3>2, <3>3, <3>4, <3>5 DEF ClockInv
  <2> QED
    BY <2>3, <2>4
<1> QED
  BY <1>2, <1>3 DEF ClockInv

LEMMA SeenStays ==
    ASSUME Inv, SessInv, ClockInv, SeenInv, NEW k \in Conns, Serve(k)
    PROVE  SeenInv'
<1>1. UNCHANGED <<local, changed>>
  BY OtherSockets DEF client
<1>2. ASSUME NEW c \in Clients, NEW T \in Stamp, Due(c, T)'
      PROVE  /\ T <= now'
             /\ \A r \in Rows : r \notin changed'[c] => Fresh(rows', txn', r, T, local'[c][r])
  <2>1. Due(c, T)
    BY <1>2, DueStays
  <2>2. T <= now /\ \A r \in Rows : r \notin changed[c] => Fresh(rows, txn, r, T, local[c][r])
    BY <1>2, <2>1 DEF SeenInv
  <2>3. T <= now'
    BY <1>2, <2>2, ServeWrites DEF Stamp
  <2>4. ASSUME NEW r \in Rows, r \notin changed[c] PROVE Fresh(rows', txn', r, T, local[c][r])
    BY <1>2, <2>2, <2>4, FreshStays
  <2> QED
    BY <1>1, <2>3, <2>4
<1> QED
  BY <1>2 DEF SeenInv

-----------------------------------------------------------------------------
(* What a client is owed, while a thread serves another *)

LEMMA DataRows ==
    ASSUME NEW a \in Seq(Answer), NEW m \in Data(a)
    PROVE  m \in Answer /\ m[2] \in Selection /\ DOMAIN m[2] \subseteq Rows
<1>1. m \in Answer
  <2>1. a \in [1..Len(a) -> Answer]
    BY LenProperties
  <2> QED
    BY <2>1 DEF Data, Range
<1>2. m[2] \in Selection
  BY <1>1, AnswerFields, SyncAssumption DEF Data
<1> QED
  BY <1>1, <1>2 DEF Selection

LEMMA DueNow ==
    ASSUME Inv, ClockInv, SeenInv, NEW c \in Clients, NEW k \in Conns, NEW T \in Stamp,
           Due(c, T) \/ ToBeDue(thr[k], T)
    PROVE  T <= now
<1>1. CASE Due(c, T)
  BY <1>1 DEF SeenInv
<1>2. CASE ToBeDue(thr[k], T)
  <2>1. T # Never
    BY SyncAssumption DEF Never, Stamp
  <2> QED
    BY <1>2, <2>1 DEF ToBeDue, ClockInv
<1> QED
  BY <1>1, <1>2

LEMMA OwedStays ==
    ASSUME Inv, NEW k \in Conns, Serve(k), NEW T \in Stamp, T <= now,
           NEW l, NEW v, NEW g, NEW t, NEW t2, NEW a \in Seq(Answer),
           Owed(l, v, g, t, a, rows, txn, T),
           t2.pc = "select" => t.pc = "select",
           t2.pc = "delete" => t.pc = "delete" /\ Since(t2) = Since(t)
    PROVE  Owed(l, v, g, t2, a, rows', txn', T)
<1>1. \A r \in RowsOf(l.dsn) : r \in Rows
  BY DEF RowsOf
<1>2. \A r \in Rows : \A w : Fresh(rows, txn, r, T, w) => Fresh(rows', txn', r, T, w)
  BY FreshStays
<1>3. ASSUME Began(l.pc, a, l.dsn) \/ t2.pc = "select"
      PROVE  OwnRows(l, v, g, rows', txn', T)
  BY <1>1, <1>2, <1>3 DEF Owed, OwnRows
<1>4. SentRows(a, rows', txn', T)
  BY <1>2, DataRows DEF Owed, SentRows
<1>5. BegunTwice(l.pc, a, l.dsn) => AllRows(l, v, a, rows', txn', T)
  BY <1>1, <1>2 DEF Owed, AllRows
<1>6. ASSUME t2.pc = "delete", NEW r \in RowsOf(l.dsn)
      PROVE  \/ r \in Flight(a)
             \/ Fresh(rows', txn', r, T, v[r])
             \/ ToDelete(t2, rows', txn', r, T)
  <2>1. \/ r \in Flight(a)
        \/ Fresh(rows, txn, r, T, v[r])
        \/ ToDelete(t, rows, txn, r, T)
    BY <1>6 DEF Owed
  <2>2. CASE ToDelete(t, rows, txn, r, T)
    <3>1. ToDelete(t, rows', txn', r, T) \/ Fresh(rows', txn', r, T, v[r])
      BY <1>1, <2>2, ToDeleteStays
    <3>2. ToDelete(t, rows', txn', r, T) => ToDelete(t2, rows', txn', r, T)
      BY <1>6 DEF ToDelete
    <3> QED
      BY <3>1, <3>2
  <2> QED
    BY <1>1, <1>2, <2>1, <2>2
<1> QED
  BY <1>3, <1>4, <1>5, <1>6 DEF Owed

LEMMA PastStays ==
    ASSUME Inv, ClockInv, NEW k \in Conns, Serve(k), NEW j \in Conns, NEW l, NEW v, NEW t2,
           Past(l, v, thr[j], rows, txn), t2.connectTime = thr[j].connectTime
    PROVE  Past(l, v, t2, rows', txn')
<1> SUFFICES ASSUME l.dsn > 1 \/ l.pc = "quit"
             PROVE  /\ t2.connectTime # Never
                    /\ \A r \in Rows : DsnOf[r] < l.dsn \/ l.pc = "quit" =>
                           Fresh(rows', txn', r, t2.connectTime, v[r])
  BY DEF Past
<1>1. thr[j].connectTime # Never /\ thr[j].connectTime \in Stamp /\ thr[j].connectTime <= now
  BY SyncAssumption DEF Past, ClockInv, Inv, ThreadInv, Thread, Stamp, Never
<1> QED
  BY <1>1, FreshStays DEF Past

LEMMA OtherConnections ==
    ASSUME Inv, SessInv, ClockInv, SeenInv, NEW k \in Conns, Serve(k),
           NEW c \in Clients, NEW j \in Conns \ {k}, ConnectInv(c, j)
    PROVE  ConnectInv(c, j)'
<1>1. UNCHANGED client /\ thr'[j] = thr[j] /\ toSrv'[j] = toSrv[j] /\ toCli'[j] = toCli[j]
  BY OtherSockets
<1>2. UNCHANGED <<cli, local, changed>> /\ toCli[j] \in Seq(Answer)
  BY <1>1 DEF client, Inv, NetInv
<1>3. ASSUME NEW T \in Stamp, Due(c, T)' \/ ToBeDue(thr'[j], T)
      PROVE  Owed(cli'[c], local'[c], changed'[c], thr'[j], toCli'[j], rows', txn', T)
  <2>1. Due(c, T) \/ ToBeDue(thr[j], T)
    BY <1>1, <1>3, DueStays
  <2>2. T <= now
    BY <2>1, DueNow
  <2>3. Owed(cli[c], local[c], changed[c], thr[j], toCli[j], rows, txn, T)
    BY <2>1 DEF ConnectInv
  <2>4. Owed(cli[c], local[c], changed[c], thr[j], toCli[j], rows', txn', T)
    BY <1>2, <2>2, <2>3, OwedStays
  <2> QED
    BY <1>1, <1>2, <2>4
<1>4. Alive(thr'[j]) /\ thr'[j].auth => Past(cli'[c], local'[c], thr'[j], rows', txn')
  BY <1>1, <1>2, PastStays DEF ConnectInv
<1> QED
  BY <1>1, <1>2, <1>3, <1>4 DEF ConnectInv

-----------------------------------------------------------------------------
(* What a client is owed, while its thread serves it *)

LEMMA DataJoined ==
    ASSUME NEW a \in Seq(Answer), NEW b \in Seq(Answer)
    PROVE  Data(a \o b) = Data(a) \cup Data(b) /\ Flight(a \o b) = Flight(a) \cup Flight(b)
<1>1. Range(a \o b) = Range(a) \cup Range(b)
  BY RangeConcatenation
<1> QED
  BY <1>1 DEF Data, Flight

\* A single answer that is not data, and none.
LEMMA NoData ==
    /\ Data(<< >>) = {} /\ Flight(<< >>) = {}
    /\ \A m \in Answer : m[1] \notin {"F", "R"} => Data(<<m>>) = {}
<1>1. Data(<< >>) = {}
  BY RangeNone DEF Data
<1>2. ASSUME NEW m \in Answer, m[1] \notin {"F", "R"} PROVE Data(<<m>>) = {}
  <2>1. <<m>> \in Seq(Answer) /\ <<m>> # << >> /\ Head(<<m>>) = m /\ Tail(<<m>>) = << >>
    BY OneOrTwo
  <2>2. Range(<<m>>) = {m}
    BY <2>1, RangeHead, RangeNone
  <2> QED
    BY <1>2, <2>2 DEF Data
<1> QED
  BY <1>1, <1>2 DEF Flight

\* The thread commits an upload or sends the downloads: what its client has received.
LEMMA DownloadsTo ==
    ASSUME Inv, SessInv, NEW k \in Conns, thr[k].pc \in {"commit", "select", "delete"},
           NEW c \in Clients, cli[c].pc # "off", cli[c].conn = k
    PROVE  /\ cli[c].pc \in {"ok", "select", "delete"} /\ cli[c].dsn = thr[k].open
           /\ cli[c].pc = "ok" => toCli[k] # << >> /\ Head(toCli[k]) = <<"K">>
           /\ thr[k].pc \in {"commit", "select"} =>
                /\ cli[c].pc = "ok" => Tail(toCli[k]) = << >>
                /\ cli[c].pc = "select" => toCli[k] = << >>
                /\ cli[c].pc # "delete"
           /\ thr[k].pc = "delete" =>
                /\ cli[c].pc = "ok" => Selected(Tail(toCli[k]), cli[c].dsn)
                /\ cli[c].pc = "select" => Selected(toCli[k], cli[c].dsn)
                /\ cli[c].pc = "delete" => toCli[k] = << >>
<1> DEFINE pc == cli[c].pc
           d == cli[c].dsn
           t == thr[k]
           q == toSrv[k]
           a == toCli[k]
           s == sent[k]
           p == kept[k]
<1>1. Talk(pc, d, t, q, a, s, p) /\ ThreadOK(t, txn[k], q, s, p)
  BY ClientTypes, ThreadTypes DEF COK, ClientOK, TOK
<1>2. pc \in {"ack", "dsn", "table", "upload", "ok", "select", "delete", "quit", "bye"}
  BY ClientTypes DEF Program
<1>3. t.pc \in {"commit", "select", "delete"}
  OBVIOUS
<1> SUFFICES /\ pc \in {"ok", "select", "delete"} /\ d = t.open
             /\ pc = "ok" => a # << >> /\ Head(a) = <<"K">>
             /\ t.pc \in {"commit", "select"} =>
                  /\ pc = "ok" => Tail(a) = << >>
                  /\ pc = "select" => a = << >>
                  /\ pc # "delete"
             /\ t.pc = "delete" =>
                  /\ pc = "ok" => Selected(Tail(a), d)
                  /\ pc = "select" => Selected(a, d)
                  /\ pc = "delete" => a = << >>
  OBVIOUS
<1> HIDE DEF pc, d, t, q, a, s, p
<1>4. Alive(t) /\ q = << >>
  BY <1>1, <1>3 DEF Alive, ThreadOK
<1>5. pc \in {"ok", "select", "delete"} /\ (pc = "ok" => a # << >> /\ Head(a) = <<"K">>)
  BY <1>1, <1>2, <1>3, <1>4 DEF Talk, OpenOn
<1>6. ASSUME NEW b, Downloading(d, t, q, b, s, p)
      PROVE  /\ d = t.open
             /\ t.pc \in {"commit", "select"} => b = << >>
             /\ t.pc = "delete" => Selected(b, d)
  BY <1>3, <1>4, <1>6 DEF Downloading, AtDownload
<1>7. CASE pc = "ok"
  BY <1>1, <1>3, <1>4, <1>6, <1>7, <1>5 DEF Talk, OpenOn
<1>8. CASE pc = "select"
  BY <1>1, <1>6, <1>8 DEF Talk
<1>9. CASE pc = "delete"
  BY <1>1, <1>3, <1>4, <1>9 DEF Talk, AtDownload
<1> QED
  BY <1>5, <1>7, <1>8, <1>9

\* A step that sends nothing, and does not come to the commit or to a download.
LEMMA GoesOnOwing ==
    ASSUME Inv, SessInv, ClockInv, SeenInv, NEW k \in Conns, Serve(k),
           NEW c \in Clients, ConnectInv(c, k), toCli'[k] = toCli[k], thr'[k].pc \notin {"select", "delete"},
           Known(c, cli[c], thr'[k], toSrv'[k], toCli[k]),
           Alive(thr'[k]) /\ thr'[k].auth =>
               Alive(thr[k]) /\ thr[k].auth /\ thr'[k].connectTime = thr[k].connectTime
    PROVE  ConnectInv(c, k)'
<1>1. UNCHANGED <<cli, local, changed>> /\ toCli[k] \in Seq(Answer)
  BY OtherSockets DEF client, Inv, NetInv
<1>2. ASSUME NEW T \in Stamp, Due(c, T)' \/ ToBeDue(thr'[k], T)
      PROVE  Owed(cli'[c], local'[c], changed'[c], thr'[k], toCli'[k], rows', txn', T)
  <2>1. ToBeDue(thr'[k], T) => ToBeDue(thr[k], T)
    BY DEF ToBeDue
  <2>2. Due(c, T) \/ ToBeDue(thr[k], T)
    BY <1>2, <2>1, DueStays
  <2>3. T <= now
    BY <2>2, DueNow
  <2>4. Owed(cli[c], local[c], changed[c], thr[k], toCli[k], rows, txn, T)
    BY <2>2 DEF ConnectInv
  <2>5. Owed(cli[c], local[c], changed[c], thr'[k], toCli[k], rows', txn', T)
    BY <1>1, <2>3, <2>4, OwedStays
  <2> QED
    BY <1>1, <2>5
<1>3. Alive(thr'[k]) /\ thr'[k].auth => Past(cli'[c], local'[c], thr'[k], rows', txn')
  BY <1>1, PastStays DEF ConnectInv
<1> QED
  BY <1>1, <1>2, <1>3 DEF ConnectInv

LEMMA EndsOwing ==
    ASSUME Inv, SessInv, ClockInv, SeenInv, NEW k \in Conns, Serve(k),
           NEW c \in Clients, ConnectInv(c, k), toCli'[k] = toCli[k], ~Alive(thr'[k])
    PROVE  ConnectInv(c, k)'
<1>1. Known(c, cli[c], thr'[k], toSrv'[k], toCli[k])
  BY DEF ConnectInv, Known, Alive
<1> QED
  BY <1>1, GoesOnOwing DEF Alive

\* A step that sends messages, and before which nobody awaits more from the connection.
LEMMA SendsOwing ==
    ASSUME Inv, SessInv, ClockInv, SeenInv, NEW k \in Conns, Serve(k),
           NEW c \in Clients, ConnectInv(c, k),
           Data(toCli'[k]) = Data(toCli[k]), thr'[k].pc \notin {"select", "delete"},
           ~Began(cli[c].pc, toCli'[k], cli[c].dsn), ~BegunTwice(cli[c].pc, toCli'[k], cli[c].dsn),
           Known(c, cli[c], thr'[k], toSrv'[k], toCli'[k]),
           Alive(thr'[k]) /\ thr'[k].auth =>
               \/ cli[c].dsn = 1 /\ cli[c].pc # "quit"
               \/ Alive(thr[k]) /\ thr[k].auth /\ thr'[k].connectTime = thr[k].connectTime,
           ToBeDue(thr'[k], thr'[k].connectTime) /\ thr'[k].connectTime # Never =>
               ToBeDue(thr[k], thr'[k].connectTime) \/ Data(toCli[k]) = {}
    PROVE  ConnectInv(c, k)'
<1>1. UNCHANGED <<cli, local, changed>> /\ toCli[k] \in Seq(Answer)
  BY OtherSockets DEF client, Inv, NetInv
<1>2. ASSUME NEW T \in Stamp, Due(c, T)' \/ ToBeDue(thr'[k], T)
      PROVE  Owed(cli'[c], local'[c], changed'[c], thr'[k], toCli'[k], rows', txn', T)
  <2>1. SentRows(toCli'[k], rows', txn', T)
    <3>1. CASE Data(toCli[k]) = {}
      BY <3>1 DEF SentRows
    <3>2. CASE Due(c, T)' \/ ToBeDue(thr[k], T)
      <4>1. Due(c, T) \/ ToBeDue(thr[k], T)
        BY <3>2, DueStays
      <4>2. T <= now
        BY <4>1, DueNow
      <4>3. SentRows(toCli[k], rows, txn, T)
        BY <4>1 DEF ConnectInv, Owed
      <4> QED
        BY <1>1, <4>2, <4>3, DataRows, FreshStays DEF SentRows
    <3>3. T # Never
      BY SyncAssumption DEF Never, Stamp
    <3> QED
      BY <1>2, <3>1, <3>2, <3>3 DEF ToBeDue
  <2> QED
    BY <1>1, <2>1 DEF Owed
<1>3. ASSUME Alive(thr'[k]), thr'[k].auth
      PROVE  Past(cli'[c], local'[c], thr'[k], rows', txn')
  <2>1. CASE cli[c].dsn = 1 /\ cli[c].pc # "quit"
    BY <1>1, <2>1 DEF Past
  <2>2. CASE Alive(thr[k]) /\ thr[k].auth /\ thr'[k].connectTime = thr[k].connectTime
    BY <1>1, <2>2, PastStays DEF ConnectInv
  <2> QED
    BY <1>3, <2>1, <2>2
<1> QED
  BY <1>1, <1>2, <1>3 DEF ConnectInv

LEMMA InitializeOwing ==
    ASSUME Inv, SessInv, ClockInv, SeenInv, NEW k \in Conns, InitializeParameter(k),
           NEW c \in Clients, ConnectInv(c, k)
    PROVE  ConnectInv(c, k)'
<1>1. /\ thr[k].pc = "start" /\ thr'[k].pc = "auth" /\ thr'[k].who = thr[k].who
      /\ thr'[k].auth = thr[k].auth /\ thr'[k].connectTime = thr[k].connectTime
      /\ UNCHANGED <<toSrv, toCli>>
  BY DEF InitializeParameter, net, Inv, ThreadInv, Thread
<1>2. Known(c, cli[c], thr[k], toSrv[k], toCli[k])
  BY DEF ConnectInv
<1>3. Known(c, cli[c], thr'[k], toSrv'[k], toCli[k])
  BY <1>1, <1>2 DEF Known, Alive
<1>4. Serve(k)
  BY DEF Serve
<1> QED
  BY <1>1, <1>3, <1>4, GoesOnOwing DEF Alive

LEMMA AuthenticateOwing ==
    ASSUME Inv, SessInv, ClockInv, SeenInv, NEW k \in Conns, NEW a \in Answers, AuthenticateUser(k, a),
           NEW c \in Clients, cli[c].pc # "off", cli[c].conn = k, ConnectInv(c, k)
    PROVE  ConnectInv(c, k)'
<1>1. /\ thr[k].pc = "auth" /\ thr'[k].pc = "flag" /\ thr'[k].who = Body(k)
      /\ thr'[k].connectTime = thr[k].connectTime
      /\ a = "ACK" => thr'[k].auth
      /\ a # "ACK" => thr'[k].auth = thr[k].auth
  BY UserAuthenticated
<1>2. ~thr[k].auth
  BY <1>1 DEF ClockInv
<1>3. Known(c, cli[c], thr[k], toSrv[k], toCli[k]) /\ Talk(cli[c].pc, cli[c].dsn, thr[k], toSrv[k], toCli[k], sent[k], kept[k])
  BY ClientTypes DEF ConnectInv, COK, ClientOK
<1>4. cli[c].pc = "ack"
  <2>1. cli[c].pc \in {"ack", "dsn", "table", "upload", "ok", "select", "delete", "quit", "bye"}
    BY ClientTypes DEF Program
  <2> QED
    BY <1>1, <1>2, <1>3, <2>1 DEF Known, Talk, Alive
<1>5. toCli[k] = << >>
  BY <1>1, <1>3, <1>4 DEF Talk, Alive
<1>6. toSrv[k] = <<<<"AUTH", c>>>> /\ Body(k) = c /\ cli[c].dsn = 1
  <2>1. toSrv[k] = <<<<"AUTH", c>>>> /\ cli[c].dsn = 1
    BY <1>1, <1>3, <1>4 DEF Known
  <2>2. Body(k) = Head(toSrv[k])[2]
    BY ReadsFirst DEF AuthenticateUser, Working
  <2>3. Head(toSrv[k]) = <<"AUTH", c>>
    BY <2>1, OneOrTwo
  <2> QED
    BY <2>1, <2>2, <2>3
<1>7. toCli'[k] = <<<<a>>>>
  <2>1. toCli'[k] = toCli[k] \o <<<<a>>>>
    BY <1>1, Answered DEF AuthenticateUser, Working
  <2> QED
    BY <1>5, <2>1, AnswersWell, ConcatEmptySeq
<1>8. <<a>> \in Answer /\ a \notin {"F", "R"}
  BY SyncAssumption DEF Answer
<1>9. Data(toCli'[k]) = {} /\ Head(toCli'[k])[1] = a
  <2>1. <<a>>[1] = a
    OBVIOUS
  <2> QED
    BY <1>7, <1>8, <2>1, NoData, OneOrTwo
<1>10. Data(toCli[k]) = {}
  BY <1>5, NoData
<1>11. Known(c, cli[c], thr'[k], toSrv'[k], toCli'[k])
  BY <1>1, <1>2, <1>4, <1>6, <1>9 DEF Known
<1>12. Serve(k) /\ ~Began(cli[c].pc, toCli'[k], cli[c].dsn) /\ ~BegunTwice(cli[c].pc, toCli'[k], cli[c].dsn)
  BY <1>4 DEF Serve, Began, BegunTwice
<1> QED
  BY <1>1, <1>4, <1>6, <1>9, <1>10, <1>11, <1>12, SendsOwing

LEMMA SetApplicationOwing ==
    ASSUME Inv, SessInv, ClockInv, SeenInv, NEW k \in Conns, SetApplication(k),
           NEW c \in Clients, cli[c].pc # "off", cli[c].conn = k, ConnectInv(c, k)
    PROVE  ConnectInv(c, k)'
<1>1. /\ thr[k].pc = "flag" /\ thr'[k].who = thr[k].who /\ thr'[k].auth = thr[k].auth
      /\ \/ thr'[k].pc = "flag" /\ thr'[k].connectTime = GetDBConnectTime(k)
         \/ thr'[k].pc = "error"
      /\ UNCHANGED toCli
  BY ApplicationSet DEF SetApplication
<1>2. Serve(k)
  BY DEF Serve
<1>3. CASE thr'[k].pc = "error"
  BY <1>1, <1>2, <1>3, EndsOwing DEF Alive
<1>4. CASE thr'[k].pc = "flag" /\ thr'[k].connectTime = GetDBConnectTime(k)
  <2>1. toSrv[k] # << >> /\ Head(toSrv[k])[1] = "S"
    BY ReadsFirst DEF SetApplication, Working
  <2>2. Head(toSrv[k]) \in Range(toSrv[k])
    BY <2>1, RangeHead DEF Inv, NetInv
  <2>3. Head(toSrv[k]) # <<"A">>
    BY <2>1
  <2>4. cli[c].pc \in {"table", "upload", "ok"} /\ toCli[k] = << >>
    BY <1>1, <2>1, <2>2, <2>3, WhoRequests
  <2>5. Data(toCli[k]) = {}
    BY <2>4, NoData
  <2>6. ~Began(cli[c].pc, toCli[k], cli[c].dsn) /\ ~BegunTwice(cli[c].pc, toCli[k], cli[c].dsn)
    BY <2>4 DEF Began, BegunTwice
  <2>7. Known(c, cli[c], thr[k], toSrv[k], toCli[k])
    BY DEF ConnectInv
  <2>8. Known(c, cli[c], thr'[k], toSrv'[k], toCli[k])
    BY <1>1, <1>4, <2>4, <2>7 DEF Known, Alive
  <2>9. thr[k].auth /\ Past(cli[c], local[c], thr[k], rows, txn)
    BY <1>1, <2>4, <2>7 DEF Known, Alive, ConnectInv
  <2>10. thr'[k].connectTime = thr[k].connectTime \/ thr[k].connectTime = Never
    <3>1. thr[k].connectTime \in Nat /\ now' \in Nat /\ now <= now' /\ now \in Nat
      BY <1>2, ServeWrites DEF Inv, ThreadInv, Thread
    <3> QED
      BY <1>4, <3>1 DEF GetDBConnectTime, ClockInv
  <2>11. thr[k].connectTime = Never => cli[c].dsn = 1
    BY <2>9, ClientTypes DEF Past, Program
  <2> QED
    BY <1>1, <1>2, <1>4, <2>4, <2>5, <2>6, <2>8, <2>9, <2>10, <2>11, SendsOwing DEF Alive
<1> QED
  BY <1>1, <1>3, <1>4

LEMMA RequestOwing ==
    ASSUME Inv, SessInv, ClockInv, SeenInv, NEW k \in Conns, SetTableName(k) \/ ProcessScript(k),
           NEW c \in Clients, cli[c].pc # "off", cli[c].conn = k, ConnectInv(c, k)
    PROVE  ConnectInv(c, k)'
<1>1. PICK f : Reads(k, "flag", f) /\ Consume(k)
  BY DEF SetTableName, ProcessScript
<1>2. thr[k].pc = "flag" /\ toSrv[k] # << >>
  BY <1>1, ReadsFirst DEF Working
<1>3. /\ thr'[k].who = thr[k].who /\ thr'[k].auth = thr[k].auth
      /\ thr'[k].connectTime = thr[k].connectTime /\ thr'[k].pc \in {"flag", "error"}
      /\ UNCHANGED toCli
  BY <1>2 DEF SetTableName, ProcessScript, Inv, ThreadInv, Thread
<1>4. cli[c].pc # "ack"
  BY <1>2, WhoRequests
<1>5. Known(c, cli[c], thr'[k], toSrv'[k], toCli[k])
  BY <1>2, <1>3, <1>4 DEF ConnectInv, Known, Alive
<1>6. Serve(k)
  BY DEF Serve
<1> QED
  BY <1>2, <1>3, <1>5, <1>6, GoesOnOwing DEF Alive

LEMMA UploadOKOwing ==
    ASSUME Inv, SessInv, ClockInv, SeenInv, NEW k \in Conns, UploadOK(k),
           NEW c \in Clients, cli[c].pc # "off", cli[c].conn = k, ConnectInv(c, k)
    PROVE  ConnectInv(c, k)'
<1>1. /\ thr[k].pc = "flag" /\ thr'[k].who = thr[k].who /\ thr'[k].auth = thr[k].auth
      /\ thr'[k].connectTime = thr[k].connectTime
      /\ \/ thr'[k].pc = "commit" /\ Write(k, <<<<"K">>>>)
         \/ thr'[k].pc = "error" /\ UNCHANGED toCli
  BY DEF UploadOK, Reads, Inv, ThreadInv, Thread
<1>2. Serve(k)
  BY DEF Serve
<1>3. CASE thr'[k].pc = "error" /\ UNCHANGED toCli
  BY <1>2, <1>3, EndsOwing DEF Alive
<1>4. CASE thr'[k].pc = "commit" /\ Write(k, <<<<"K">>>>)
  <2>1. toSrv[k] # << >> /\ Head(toSrv[k])[1] = "E" /\ toSrv'[k] = << >>
    BY ReadsFirst DEF UploadOK, Working
  <2>2. toSrv'[k] = Tail(toSrv[k]) /\ toSrv[k] \in Seq(Request)
    BY ReadsFirst DEF UploadOK, Working, Inv, NetInv
  <2>3. Range(toSrv[k]) = {Head(toSrv[k])}
    BY <2>1, <2>2, RangeHead, RangeNone
  <2>4. Head(toSrv[k]) # <<"A">> /\ Head(toSrv[k]) # <<"S", cli[c].dsn>>
    BY <2>1
  <2>5. cli[c].pc = "ok" /\ toCli[k] = << >>
    BY <1>1, <2>1, <2>3, <2>4, WhoRequests
  <2>6. toCli'[k] = <<<<"K">>>>
    <3>1. toCli'[k] = toCli[k] \o <<<<"K">>>>
      BY <1>1, <1>4, Answered DEF Working
    <3> QED
      BY <2>5, <3>1, AnswersWell, ConcatEmptySeq
  <2>7. Data(toCli[k]) = {} /\ Data(toCli'[k]) = {}
    <3>1. <<"K">> \in Answer /\ <<"K">>[1] = "K"
      BY DEF Answer
    <3> QED
      BY <2>5, <2>6, <3>1, NoData
  <2>8. Tail(toCli'[k]) = << >>
    BY <2>6, OneOrTwo
  <2>9. ~Began(cli[c].pc, toCli'[k], cli[c].dsn) /\ ~BegunTwice(cli[c].pc, toCli'[k], cli[c].dsn)
    BY <2>5, <2>8 DEF Began, BegunTwice, Selected, Both, Last, CutOff, Part, Second
  <2>10. Known(c, cli[c], thr'[k], toSrv'[k], toCli'[k])
    BY <1>1, <2>5 DEF ConnectInv, Known, Alive
  <2>11. thr[k].auth
    BY <1>1, <2>5 DEF ConnectInv, Known, Alive
  <2> QED
    BY <1>1, <1>2, <1>4, <2>5, <2>7, <2>9, <2>10, <2>11, SendsOwing DEF Alive
<1> QED
  BY <1>1, <1>3, <1>4

LEMMA EndSessionOwing ==
    ASSUME Inv, SessInv, ClockInv, SeenInv, NEW k \in Conns, EndSession(k),
           NEW c \in Clients, cli[c].pc # "off", cli[c].conn = k, ConnectInv(c, k)
    PROVE  ConnectInv(c, k)'
<1>1. thr[k].pc = "flag" /\ thr'[k].pc = "end"
  BY DEF EndSession, Reads, Inv, ThreadInv, Thread
<1>2. toSrv[k] # << >> /\ Head(toSrv[k])[1] = "A"
  BY ReadsFirst DEF EndSession, Working
<1>3. cli[c].pc = "bye"
  <2>1. Head(toSrv[k]) \in Range(toSrv[k])
    BY <1>2, RangeHead DEF Inv, NetInv
  <2>2. Holds(toSrv[k], "A") /\ toSrv[k] \in Seq(Request)
    BY <1>2, <2>1 DEF Holds, Inv, NetInv
  <2>3. cli[c].pc # "ok"
    <3>1. InOrder(toSrv[k]) /\ Tail(toSrv[k]) = << >>
      BY <1>2, <2>2, ReadsFirst, FirstAndLast DEF EndSession, Working
    <3>2. Range(toSrv[k]) = {Head(toSrv[k])}
      BY <1>2, <2>2, <3>1, RangeHead, RangeNone
    <3>3. ~Holds(toSrv[k], "E")
      BY <1>2, <3>2 DEF Holds
    <3> QED
      BY <1>1, <1>2, <3>3, WhoRequests
  <2>4. cli[c].pc # "table" /\ cli[c].pc # "upload"
    <3>1. Head(toSrv[k]) # <<"S", cli[c].dsn>>
      BY <1>2
    <3> QED
      BY <1>1, <1>2, <2>1, <3>1, WhoRequests
  <2> QED
    BY <1>1, <1>2, <2>3, <2>4, WhoRequests
<1>4. Data(toCli'[k]) = Data(toCli[k])
  <2>1. toCli'[k] = toCli[k] \o <<<<"T">>>>
    BY <1>1, Answered DEF EndSession, Working
  <2>2. <<"T">> \in Answer /\ <<"T">>[1] = "T"
    BY DEF Answer
  <2>3. Data(<<<<"T">>>>) = {}
    BY <2>2, NoData
  <2>4. toCli[k] \in Seq(Answer) /\ <<<<"T">>>> \in Seq(Answer)
    BY AnswersWell DEF Inv, NetInv
  <2>5. Data(toCli[k] \o <<<<"T">>>>) = Data(toCli[k]) \cup Data(<<<<"T">>>>)
    BY <2>4, DataJoined
  <2> QED
    BY <2>1, <2>3, <2>5
<1>5. Known(c, cli[c], thr'[k], toSrv'[k], toCli'[k]) /\ ~Alive(thr'[k])
  BY <1>1, <1>3 DEF ConnectInv, Known, Alive
<1>6. Serve(k) /\ ~Began(cli[c].pc, toCli'[k], cli[c].dsn) /\ ~BegunTwice(cli[c].pc, toCli'[k], cli[c].dsn)
  BY <1>3 DEF Serve, Began, BegunTwice
<1> QED
  BY <1>1, <1>4, <1>5, <1>6, SendsOwing DEF ToBeDue

LEMMA LastStepsOwing ==
    ASSUME Inv, SessInv, ClockInv, SeenInv, NEW k \in Conns,
           NetworkError(k) \/ UpdateConnectFlag(k) \/ FreeHandles(k),
           NEW c \in Clients, ConnectInv(c, k)
    PROVE  ConnectInv(c, k)'
<1>1. UNCHANGED toCli /\ Serve(k)
  BY DEF NetworkError, UpdateConnectFlag, FreeHandles, net, Serve
<1>2. thr'[k].pc \in {"error", "free", "done"}
  <2>1. CASE FreeHandles(k)
    <3>1. thr'[k] = [NoThread EXCEPT !.pc = "done", !.ended = thr[k].ended]
      BY <2>1 DEF FreeHandles, Inv, ThreadInv
    <3> QED
      BY <3>1 DEF NoThread
  <2>2. CASE NetworkError(k) \/ UpdateConnectFlag(k)
    BY <2>2 DEF NetworkError, UpdateConnectFlag, Inv, ThreadInv, Thread
  <2> QED
    BY <2>1, <2>2
<1> QED
  BY <1>1, <1>2, EndsOwing DEF Alive

\* When the upload is committed the rows of its client are in the table, and nobody
\* else has written them.
LEMMA UploadedRows ==
    ASSUME Inv, SessInv, LockInv, NEW k \in Conns, thr[k].pc = "commit", CommitTran(k),
           NEW c \in Clients, cli[c].pc # "off", cli[c].conn = k, NEW T
    PROVE  OwnRows(cli[c], local[c], changed[c], rows', txn', T)
<1>1. /\ cli[c].pc \in {"ok", "select"} /\ cli[c].dsn = thr[k].open
  BY DownloadsTo
<1>2. /\ cli[c].up = {}
      /\ \A r \in changed[c] \cap RowsOf(cli[c].dsn) : local[c][r] \in sent[k]
  <2>1. ClientOK(cli[c], local[c], changed[c], thr[k], txn[k], toSrv[k], toCli[k], sent[k], kept[k])
    BY ClientTypes DEF COK
  <2> QED
    BY <1>1, <2>1 DEF ClientOK
<1>3. In(thr[k].open, sent[k]) = Vers(txn[k]) /\ \A r \in Rows : txn[k][r] # NoRow => txn[k][r].ver.row = r
  BY ThreadTypes DEF TOK, ThreadOK
<1> SUFFICES ASSUME NEW r \in changed[c] \cap RowsOf(cli[c].dsn)
             PROVE  Fresh(rows', txn', r, T, local[c][r])
  BY DEF OwnRows
<1>4. r \in Rows /\ DsnOf[r] = thr[k].open /\ local[c][r].row = r
  BY <1>1 DEF RowsOf, SessInv, VersionInv
<1>5. local[c][r] \in In(thr[k].open, sent[k])
  BY <1>2, <1>4 DEF In
<1>6. PICK i \in Rows : txn[k][i] # NoRow /\ txn[k][i].ver = local[c][r]
  BY <1>3, <1>5 DEF Vers
<1>7. i = r
  BY <1>3, <1>4, <1>6
<1>8. rows'[r].ver = local[c][r]
  BY <1>4, <1>6, <1>7 DEF CommitTran, Written
<1>9. \A j \in Conns : txn'[j][r] = NoRow
  BY <1>4, <1>6, <1>7 DEF CommitTran, LockInv, Inv, DataInv
<1> QED
  BY <1>8, <1>9 DEF Fresh

LEMMA CommitOwing ==
    ASSUME Inv, SessInv, ClockInv, LockInv, SeenInv, NEW k \in Conns, UploadCommit(k),
           NEW c \in Clients, cli[c].pc # "off", cli[c].conn = k, ConnectInv(c, k)
    PROVE  ConnectInv(c, k)'
<1>1. /\ thr[k].pc = "commit" /\ thr'[k].who = thr[k].who /\ thr'[k].auth = thr[k].auth
      /\ thr'[k].connectTime = thr[k].connectTime
      /\ (thr'[k].pc = "select" /\ CommitTran(k)) \/ thr'[k].pc = "error"
      /\ UNCHANGED toCli
  BY DEF UploadCommit, net, Inv, ThreadInv, Thread
<1>2. Serve(k)
  BY DEF Serve
<1>3. CASE thr'[k].pc = "error"
  BY <1>1, <1>2, <1>3, EndsOwing DEF Alive
<1>4. CASE thr'[k].pc = "select" /\ CommitTran(k)
  <2>1. UNCHANGED <<cli, local, changed>> /\ toCli[k] \in Seq(Answer)
    BY <1>2, OtherSockets DEF client, Inv, NetInv
  <2>2. cli[c].pc \in {"ok", "select"}
    BY <1>1, DownloadsTo
  <2>3. Known(c, cli[c], thr'[k], toSrv'[k], toCli[k])
    BY <1>1, <1>4, <2>2 DEF ConnectInv, Known, Alive
  <2>4. ASSUME NEW T \in Stamp, Due(c, T)' \/ ToBeDue(thr'[k], T)
        PROVE  Owed(cli[c], local[c], changed[c], thr'[k], toCli[k], rows', txn', T)
    <3>1. Due(c, T) \/ ToBeDue(thr[k], T)
      BY <1>1, <1>2, <2>4, DueStays DEF ToBeDue, Alive
    <3>2. T <= now
      BY <3>1, DueNow
    <3>3. Owed(cli[c], local[c], changed[c], thr[k], toCli[k], rows, txn, T)
      BY <3>1 DEF ConnectInv
    <3>4. Owed(cli[c], local[c], changed[c], thr[k], toCli[k], rows', txn', T)
      BY <1>1, <1>2, <2>1, <3>2, <3>3, OwedStays
    <3>5. OwnRows(cli[c], local[c], changed[c], rows', txn', T)
      BY <1>1, <1>4, UploadedRows
    <3> QED
      BY <1>4, <3>4, <3>5 DEF Owed
  <2>5. thr[k].auth
    BY <1>1, <2>2 DEF ConnectInv, Known, Alive
  <2>6. Past(cli[c], local[c], thr'[k], rows', txn')
    BY <1>1, <1>2, <2>5, PastStays DEF ConnectInv, Alive
  <2> QED
    BY <1>1, <2>1, <2>3, <2>4, <2>6 DEF ConnectInv
<1> QED
  BY <1>1, <1>3, <1>4

\* A database that lets readers wait downloads rows that nobody has written.
LEMMA NobodyWrites ==
    ASSUME Inv, SessInv, "versions" \notin Faults, NEW k \in Conns, NEW del \in BOOLEAN, Download(k, del)
    PROVE  \A r \in RowsOf(thr[k].open), j \in Conns : txn[j][r] = NoRow
<1>1. thr[k].pc \in {"select", "delete"} /\ \A r \in RowsOf(thr[k].open) : Holders(k, r) = {}
  BY DEF Download, Readable
<1>2. Vers(txn[k]) = {}
  BY <1>1, ThreadTypes DEF TOK, ThreadOK
<1>3. \A r \in Rows : txn[k][r] = NoRow
  BY <1>2 DEF Vers
<1> QED
  BY <1>1, <1>3 DEF Holders, RowsOf

\* A download sends committed versions, of all rows that are to be sent.
LEMMA DownloadedRows ==
    ASSUME Inv, SessInv, NEW k \in Conns, NEW del \in BOOLEAN, Download(k, del)
    PROVE  \E ms \in Seq(Answer) :
               /\ Write(k, ms)
               /\ del => Deletions(ms, thr[k].open)
               /\ ~del => Selected(ms, thr[k].open)
               /\ \A m \in Data(ms) : \A r \in DOMAIN m[2] :
                      r \in RowsOf(thr[k].open) /\ m[2][r] = rows[r].ver
               /\ \A r \in RowsOf(thr[k].open) :
                      rows[r].mTime >= Since(thr[k]) /\ rows[r].ver.del = del => r \in Flight(ms)
<1> DEFINE d == thr[k].open
           new == {r \in RowsOf(d) : rows[r].mTime >= SyncTime(k) /\ rows[r].ver.del = del}
           vers == [r \in new |-> rows[r].ver]
           f == IF del THEN "R" ELSE "F"
           ms == IF new = {} THEN <<<<"E">>>> ELSE <<<<f, vers>>, <<"E">>>>
<1>1. Write(k, ms)
  BY DEF Download, News, Records
<1>2. new \in SUBSET Rows /\ new \subseteq RowsOf(d)
  BY DEF RowsOf
<1>3. vers \in Selection
  <2>1. vers \in [new -> Version]
    BY <1>2 DEF Inv, DataInv, Stored
  <2> QED
    BY <1>2, <2>1 DEF Selection
<1>4. DOMAIN vers = new /\ \A r \in new : r \in RowsOf(d) /\ vers[r].row = r /\ vers[r] = rows[r].ver
  BY <1>2 DEF RowsOf, SessInv, VersionInv
<1>5. f \in {"F", "R"} /\ (del => f = "R") /\ (~del => f = "F")
  OBVIOUS
<1>6. \A r \in RowsOf(d) : rows[r].mTime >= Since(thr[k]) /\ rows[r].ver.del = del => r \in new
  BY DEF SyncTime, Since
<1> HIDE DEF vers, new, f, d
<1>7. RowsData(<<f, vers>>, d)
  BY <1>4, <1>5 DEF RowsData
<1>8. ms \in Seq(Answer)
  BY <1>3, <1>5, AnswersWell
<1>9. <<"E">> \in Answer /\ <<f, vers>> \in Answer
  BY <1>3, <1>5 DEF Answer
<1>10. /\ (del => Deletions(ms, d)) /\ (~del => Selected(ms, d))
       /\ Data(ms) \subseteq {<<f, vers>>} /\ (new # {} => <<f, vers>> \in Data(ms))
  <2>1. CASE new = {}
    <3>1. ms = <<<<"E">>>>
      BY <2>1
    <3>2. Data(ms) = {}
      BY <1>9, <3>1, NoData
    <3> QED
      BY <2>1, <3>1, <3>2, LastIsLast, OneOrTwo DEF Deletions, Selected
  <2>2. CASE new # {}
    <3>1. ms = <<<<f, vers>>, <<"E">>>>
      BY <2>2
    <3>2. ms # << >> /\ Head(ms) = <<f, vers>> /\ Last(Tail(ms)) /\ Head(ms)[1] = f
      BY <3>1, LastIsLast, OneOrTwo
    <3> HIDE DEF ms
    <3>3. Range(ms) = {<<f, vers>>} \cup Range(Tail(ms)) /\ Tail(ms) \in Seq(Answer)
      BY <1>8, <3>2, RangeHead, QueueHead
    <3>4. Range(Tail(ms)) = {<<"E">>}
      BY <3>2, <3>3, RangeHead, RangeNone DEF Last
    <3>5. Data(ms) = {<<f, vers>>}
      BY <1>5, <3>3, <3>4 DEF Data
    <3> QED
      BY <1>5, <1>7, <3>2, <3>5 DEF Deletions, Selected
  <2> QED
    BY <2>1, <2>2
<1> HIDE DEF ms
<1>11. \A m \in Data(ms) : \A r \in DOMAIN m[2] : r \in RowsOf(d) /\ m[2][r] = rows[r].ver
  BY <1>4, <1>10
<1>12. \A r \in new : r \in Flight(ms)
  BY <1>4, <1>10 DEF Flight
<1> QED
  BY <1>1, <1>6, <1>8, <1>10, <1>11, <1>12 DEF d

LEMMA NotBoth == ASSUME NEW a, NEW d, Selected(a, d) PROVE ~Both(a, d)
BY DEF Selected, Both, Deletions, Last

\* The rows that the first download leaves out: the client has them, or they are
\* deleted and come with the second.
LEMMA LeftOut ==
    ASSUME Inv, SessInv, SeenInv, NEW k \in Conns, NEW c \in Clients, NEW T \in Stamp,
           thr[k].who = c, thr[k].auth,
           OwnRows(cli[c], local[c], changed[c], rows, txn, T),
           NEW r \in RowsOf(cli[c].dsn), \A j \in Conns : txn[j][r] = NoRow,
           ~(rows[r].mTime >= Since(thr[k]) /\ rows[r].ver.del = FALSE)
    PROVE  Fresh(rows, txn, r, T, local[c][r]) \/ ToDelete(thr[k], rows, txn, r, T)
<1>0. r \in Rows /\ thr[k] \in Thread /\ rows[r] \in Stored
  BY DEF RowsOf, Inv, ThreadInv, DataInv
<1>1. rows[r].mTime \in Nat /\ rows[r].ver.del \in BOOLEAN /\ thr[k].lastSyncTime \in Stamp
  <2>1. rows[r].ver \in Version /\ rows[r].mTime \in 0..MaxTime
    BY <1>0 DEF Stored
  <2>2. rows[r].ver.del \in BOOLEAN
    <3>1. CASE rows[r].ver \in Changes
      BY <3>1, SyncAssumption
    <3>2. CASE \E i \in Rows : rows[r].ver = Original(i)
      BY <3>2 DEF Original
    <3> QED
      BY <2>1, <3>1, <3>2 DEF Version
  <2> QED
    BY <1>0, <2>1, <2>2, SyncAssumption DEF Thread, Stamp
<1>2. CASE rows[r].mTime >= Since(thr[k])
  BY <1>1, <1>2 DEF ToDelete
<1>3. CASE ~(rows[r].mTime >= Since(thr[k]))
  <2>1. ~(rows[r].mTime >= thr[k].lastSyncTime)
    BY <1>1, <1>3 DEF Since
  <2>2. CASE r \in changed[c]
    BY <2>2 DEF OwnRows
  <2>3. CASE r \notin changed[c]
    <3>1. Due(c, thr[k].lastSyncTime)
      BY DEF Due
    <3>2. Fresh(rows, txn, r, thr[k].lastSyncTime, local[c][r])
      BY <1>0, <1>1, <2>3, <3>1 DEF SeenInv
    <3>3. rows[r].ver = local[c][r]
      BY <2>1, <3>2 DEF Fresh
    <3> QED
      BY <3>3 DEF Fresh
  <2> QED
    BY <2>2, <2>3
<1> QED
  BY <1>2, <1>3

LEMMA DownloadOwing ==
    ASSUME Inv, SessInv, ClockInv, SeenInv, "versions" \notin Faults,
           NEW k \in Conns, NEW del \in BOOLEAN, Download(k, del),
           NEW c \in Clients, cli[c].pc # "off", cli[c].conn = k, ConnectInv(c, k)
    PROVE  ConnectInv(c, k)'
<1> DEFINE t == thr[k]
           t2 == thr'[k]
           a == toCli[k]
           l == cli[c]
           v == local[c]
           g == changed[c]
           o == thr[k].open
<1>1. /\ t.pc = (IF del THEN "delete" ELSE "select") /\ t2.pc = (IF del THEN "flag" ELSE "delete")
      /\ t2.who = t.who /\ t2.auth = t.auth /\ t2.connectTime = t.connectTime
      /\ Since(t2) = Since(t) /\ UNCHANGED <<now, rows, txn, toSrv, cli, local, changed>> /\ a \in Seq(Answer)
  BY DEF Download, client, Inv, ThreadInv, Thread, NetInv, Since
<1>2. PICK ms \in Seq(Answer) :
        /\ Write(k, ms)
        /\ del => Deletions(ms, o)
        /\ ~del => Selected(ms, o)
        /\ \A m \in Data(ms) : \A r \in DOMAIN m[2] : r \in RowsOf(o) /\ m[2][r] = rows[r].ver
        /\ \A r \in RowsOf(o) : rows[r].mTime >= Since(t) /\ rows[r].ver.del = del => r \in Flight(ms)
  BY DownloadedRows
<1>3. toCli'[k] = a \o ms
  BY <1>1, <1>2, Answered DEF Working
<1>4. \A r \in RowsOf(o), j \in Conns : txn[j][r] = NoRow
  BY NobodyWrites
<1>5. /\ l.pc \in {"ok", "select", "delete"} /\ l.dsn = o
      /\ l.pc = "ok" => a # << >>
      /\ ~del => /\ l.pc = "ok" => Tail(a) = << >>
                 /\ l.pc = "select" => a = << >>
                 /\ l.pc # "delete"
      /\ del => /\ l.pc = "ok" => Selected(Tail(a), l.dsn)
                /\ l.pc = "select" => Selected(a, l.dsn)
  BY <1>1, DownloadsTo
<1>6. /\ Known(c, l, t, toSrv[k], a) /\ Serve(k)
      /\ \A T \in Stamp : Due(c, T) \/ ToBeDue(t, T) => Owed(l, v, g, t, a, rows, txn, T)
      /\ Alive(t) /\ t.auth => Past(l, v, t, rows, txn)
  BY DEF ConnectInv, Serve
<1>7. t.who = c /\ t.auth
  BY <1>1, <1>5, <1>6 DEF Known, Alive
<1>8. Known(c, l, t2, toSrv[k], a \o ms)
  BY <1>1, <1>5, <1>7 DEF Known
<1>9. Past(l, v, t2, rows', txn')
  BY <1>1, <1>6, <1>7, PastStays DEF Alive
<1>10. ASSUME NEW T \in Stamp, Due(c, T)' \/ ToBeDue(t2, T)
       PROVE  Owed(l, v, g, t2, a \o ms, rows, txn, T)
  <2>1. Due(c, T) \/ ToBeDue(t, T)
    <3>1. ToBeDue(t2, T) => ToBeDue(t, T)
      BY <1>1 DEF ToBeDue, Alive
    <3> QED
      BY <1>6, <1>10, <3>1, DueStays
  <2>2. Owed(l, v, g, t, a, rows, txn, T)
    BY <1>6, <2>1
  <2>3. Data(a \o ms) = Data(a) \cup Data(ms) /\ Flight(a \o ms) = Flight(a) \cup Flight(ms)
    BY <1>1, DataJoined
  <2>4. OwnRows(l, v, g, rows, txn, T)
    <3>1. Began(l.pc, a, l.dsn) \/ t.pc = "select"
      BY <1>1, <1>5 DEF Began
    <3> QED
      BY <2>2, <3>1 DEF Owed
  <2>5. SentRows(a \o ms, rows, txn, T)
    <3>1. SentRows(a, rows, txn, T)
      BY <2>2 DEF Owed
    <3>2. SentRows(ms, rows, txn, T)
      BY <1>2, <1>4 DEF SentRows, Fresh
    <3> HIDE DEF a
    <3> QED
      BY <2>3, <3>1, <3>2 DEF SentRows
  <2>6. CASE ~del
    <3>1. ~BegunTwice(l.pc, a \o ms, l.dsn)
      <4>1. ~Both(ms, l.dsn)
        BY <1>2, <1>5, <2>6, NotBoth
      <4>2. l.pc = "ok" => Tail(a \o ms) = ms
        <5>1. << >> \o ms = ms
          BY <1>2, ConcatEmptySeq
        <5>2. l.pc = "ok" => Tail(a \o ms) = Tail(a) \o ms /\ Tail(a) = << >>
          BY <1>1, <1>2, <1>5, <2>6, HeadTailConcat
        <5> HIDE DEF a
        <5> QED
          BY <5>1, <5>2
      <4>3. l.pc = "select" => a \o ms = ms
        BY <1>2, <1>5, <2>6, ConcatEmptySeq
      <4> HIDE DEF a
      <4> QED
        BY <1>5, <2>6, <4>1, <4>2, <4>3 DEF BegunTwice
    <3>2. ASSUME NEW r \in RowsOf(l.dsn)
          PROVE  r \in Flight(a \o ms) \/ Fresh(rows, txn, r, T, v[r]) \/ ToDelete(t2, rows, txn, r, T)
      <4>1. CASE rows[r].mTime >= Since(t) /\ rows[r].ver.del = FALSE
        BY <1>2, <1>5, <2>3, <2>6, <3>2, <4>1
      <4>2. CASE ~(rows[r].mTime >= Since(t) /\ rows[r].ver.del = FALSE)
        <5>1. \A j \in Conns : txn[j][r] = NoRow
          BY <1>4, <1>5, <3>2
        <5>2. Fresh(rows, txn, r, T, v[r]) \/ ToDelete(t, rows, txn, r, T)
          BY <1>7, <2>4, <3>2, <4>2, <5>1, LeftOut
        <5>3. ToDelete(t, rows, txn, r, T) => ToDelete(t2, rows, txn, r, T)
          BY <1>1 DEF ToDelete
        <5> QED
          BY <5>2, <5>3
      <4> QED
        BY <4>1, <4>2
    <3> QED
      BY <2>4, <2>5, <3>1, <3>2 DEF Owed
  <2>7. CASE del
    <3>1. AllRows(l, v, a \o ms, rows, txn, T)
      <4> SUFFICES ASSUME NEW r \in RowsOf(l.dsn)
                   PROVE  r \in Flight(a \o ms) \/ Fresh(rows, txn, r, T, v[r])
        BY DEF AllRows
      <4>1. t.pc = "delete"
        BY <1>1, <2>7
      <4>2. r \in Flight(a) \/ Fresh(rows, txn, r, T, v[r]) \/ ToDelete(t, rows, txn, r, T)
        BY <2>2, <4>1 DEF Owed
      <4>3. ToDelete(t, rows, txn, r, T) => r \in Flight(ms)
        BY <1>2, <1>5, <2>7 DEF ToDelete
      <4> QED
        BY <2>3, <4>2, <4>3
    <3>2. t2.pc = "flag"
      BY <1>1, <2>7
    <3> QED
      BY <2>4, <2>5, <3>1, <3>2 DEF Owed
  <2> QED
    BY <2>6, <2>7
<1> QED
  BY <1>1, <1>3, <1>8, <1>9, <1>10 DEF ConnectInv

\* A download that fails may have sent some of the rows: committed versions that
\* nobody has written over; nothing more is to come.
LEMMA NotTwice == ASSUME NEW a, NEW d, CutOff(a, d) PROVE ~Both(a, d)
<1>1. \A q : Second(q, d) => q # << >> /\ Head(q) = <<"E">> /\ ~Deletions(Tail(q), d)
  BY DEF Second, Part, Deletions, Last
<1>2. <<"E">>[1] = "E"
  OBVIOUS
<1>3. CASE Part(a, "F", d)
  BY <1>2, <1>3 DEF Part, Both
<1>4. CASE Second(a, d)
  BY <1>1, <1>2, <1>4 DEF Both
<1>5. CASE Head(a)[1] = "F" /\ Second(Tail(a), d)
  BY <1>1, <1>2, <1>5 DEF Both
<1> QED
  BY <1>3, <1>4, <1>5 DEF CutOff

LEMMA PartOwing ==
    ASSUME Inv, SessInv, ClockInv, SeenInv, "versions" \notin Faults,
           NEW k \in Conns, NEW del \in BOOLEAN, DownloadFails(k, del),
           NEW c \in Clients, cli[c].pc # "off", cli[c].conn = k, ConnectInv(c, k),
           NEW part \in SUBSET {r \in News(k, del) : Readable(k, r)},
           NEW m, m = Records(part, del), Write(k, <<m>>)
    PROVE  ConnectInv(c, k)'
<1> DEFINE t == thr[k]
           t2 == thr'[k]
           a == toCli[k]
           l == cli[c]
           v == local[c]
           g == changed[c]
           o == thr[k].open
<1>0. Serve(k)
  BY DEF Serve
<1>1. /\ t.pc = (IF del THEN "delete" ELSE "select") /\ t2.pc = "error" /\ a \in Seq(Answer)
      /\ UNCHANGED <<now, rows, txn, toSrv, cli, local, changed>> /\ Serve(k)
  BY <1>0 DEF DownloadFails, client, Inv, ThreadInv, Thread, NetInv
<1>2. part \in SUBSET Rows /\ part \subseteq RowsOf(o) /\ m \in Answer /\ <<m>> \in Seq(Answer)
  BY RecordsWell DEF News, RowsOf
<1>3. toCli'[k] = a \o <<m>>
  BY <1>1, Answered DEF Working
<1>4. \A r \in part, j \in Conns : txn[j][r] = NoRow
  <2>1. Vers(txn[k]) = {}
    BY <1>1, ThreadTypes DEF TOK, ThreadOK
  <2>2. \A r \in Rows : txn[k][r] = NoRow
    BY <2>1 DEF Vers
  <2>3. \A r \in part : Holders(k, r) = {}
    BY DEF Readable
  <2> QED
    BY <1>2, <2>2, <2>3 DEF Holders
<1>5. m[1] = (IF del THEN "R" ELSE "F") /\ DOMAIN m[2] = part /\ \A r \in part : m[2][r] = rows[r].ver
  <2> DEFINE vers == [r \in part |-> rows[r].ver]
             f == IF del THEN "R" ELSE "F"
  <2>1. m = <<f, vers>> /\ m[2] = vers /\ m[1] = f
    BY DEF Records
  <2>2. DOMAIN vers = part /\ \A r \in part : vers[r] = rows[r].ver
    OBVIOUS
  <2> HIDE DEF vers
  <2> QED
    BY <2>1, <2>2
<1>6. /\ l.pc \in {"ok", "select", "delete"} /\ l.dsn = o
      /\ l.pc = "ok" => a # << >>
      /\ ~del => /\ l.pc = "ok" => Tail(a) = << >>
                 /\ l.pc = "select" => a = << >>
                 /\ l.pc # "delete"
      /\ del => /\ l.pc = "ok" => Selected(Tail(a), l.dsn)
                /\ l.pc = "select" => Selected(a, l.dsn)
                /\ l.pc = "delete" => a = << >>
  BY <1>1, DownloadsTo
<1>7. RowsData(m, o)
  <2>1. \A r \in part : r \in RowsOf(o) /\ rows[r].ver.row = r
    BY <1>2 DEF SessInv, VersionInv
  <2> QED
    BY <1>5, <2>1 DEF RowsData
<1>8. Known(c, l, t2, toSrv[k], a \o <<m>>)
  BY <1>1, <1>6 DEF Known, Alive
<1>9. ASSUME NEW T \in Stamp, Due(c, T)' \/ ToBeDue(t2, T)
      PROVE  Owed(l, v, g, t2, a \o <<m>>, rows, txn, T)
  <2>1. Due(c, T)
    BY <1>1, <1>9, DueStays DEF ToBeDue, Alive
  <2>2. Owed(l, v, g, t, a, rows, txn, T)
    BY <2>1 DEF ConnectInv
  <2>3. OwnRows(l, v, g, rows, txn, T)
    <3>1. Began(l.pc, a, l.dsn) \/ t.pc = "select"
      BY <1>1, <1>6 DEF Began
    <3> QED
      BY <2>2, <3>1 DEF Owed
  <2>4. Data(a \o <<m>>) = Data(a) \cup Data(<<m>>) /\ Data(<<m>>) \subseteq {m}
    <3>1. PICK w \in Seq(Answer) : w = <<m>>
      BY <1>2
    <3>2. Data(a \o w) = Data(a) \cup Data(w)
      BY <1>1, DataJoined
    <3>3. Range(<<m>>) = {m}
      <4>1. w # << >> /\ Head(w) = m /\ Tail(w) = << >>
        BY <3>1, OneOrTwo
      <4> QED
        BY <3>1, <4>1, RangeHead, RangeNone
    <3> QED
      BY <3>1, <3>2, <3>3 DEF Data
  <2>5. SentRows(a \o <<m>>, rows, txn, T)
    <3>1. SentRows(a, rows, txn, T)
      BY <2>2 DEF Owed
    <3>2. \A r \in DOMAIN m[2] : Fresh(rows, txn, r, T, m[2][r])
      BY <1>4, <1>5 DEF Fresh
    <3> HIDE DEF a
    <3> QED
      BY <2>4, <3>1, <3>2 DEF SentRows
  <2>6. ~BegunTwice(l.pc, a \o <<m>>, l.dsn)
    <3>1. PICK w \in Seq(Answer) : w = <<m>>
      BY <1>2
    <3>2. w # << >> /\ Head(w) = m /\ Tail(w) = << >> /\ << >> \o w = w
      BY <3>1, OneOrTwo, ConcatEmptySeq
    <3>3. ASSUME NEW b \in Seq(Answer), IF del THEN Selected(b, o) ELSE b = << >>
          PROVE  ~Both(b \o w, o)
      <4>1. CASE del
        BY <1>2, <1>5, <1>7, <3>1, <3>3, <4>1, PartAfter, NotTwice
      <4>2. CASE ~del
        BY <1>5, <3>2, <3>3, <4>2 DEF Both
      <4> QED
        BY <4>1, <4>2
    <3>4. l.pc = "ok" => Tail(a) \in Seq(Answer) /\ Tail(a \o w) = Tail(a) \o w
      BY <1>1, <1>6, QueueHead, HeadTailConcat
    <3>5. l.pc = "delete" => a \o w = w /\ ~Deletions(w, o)
      <4>1. l.pc = "delete" => a = << >> /\ m[1] = "R"
        BY <1>5, <1>6
      <4>2. m # <<"E">>
        BY <1>5
      <4>3. ~Deletions(w, o)
        BY <3>2, <4>2 DEF Deletions, Last
      <4> QED
        BY <3>2, <4>1, <4>3
    <3> HIDE DEF a
    <3> QED
      BY <1>1, <1>6, <3>1, <3>3, <3>4, <3>5 DEF BegunTwice
  <2> QED
    BY <1>1, <2>3, <2>5, <2>6 DEF Owed
<1> QED
  BY <1>1, <1>3, <1>8, <1>9 DEF ConnectInv, Alive

LEMMA DownloadFailsOwing ==
    ASSUME Inv, SessInv, ClockInv, SeenInv, "versions" \notin Faults,
           NEW k \in Conns, NEW del \in BOOLEAN, DownloadFails(k, del),
           NEW c \in Clients, cli[c].pc # "off", cli[c].conn = k, ConnectInv(c, k)
    PROVE  ConnectInv(c, k)'
<1>1. CASE UNCHANGED toCli
  <2>1. thr'[k].pc = "error" /\ Serve(k)
    BY DEF DownloadFails, Serve, Inv, ThreadInv, Thread
  <2> QED
    BY <1>1, <2>1, EndsOwing DEF Alive
<1>2. ASSUME NEW part \in SUBSET {r \in News(k, del) : Readable(k, r)}, Write(k, <<Records(part, del)>>)
      PROVE  ConnectInv(c, k)'
  BY <1>2, PartOwing
<1> QED
  BY <1>1, <1>2 DEF DownloadFails

LEMMA ServeOwing ==
    ASSUME Inv, SessInv, ClockInv, LockInv, SeenInv, "versions" \notin Faults, NEW k \in Conns, Serve(k),
           NEW c \in Clients, cli[c].pc # "off", cli[c].conn = k, ConnectInv(c, k)
    PROVE  ConnectInv(c, k)'
<1>1. CASE InitializeParameter(k)
  BY <1>1, InitializeOwing
<1>2. ASSUME NEW a \in Answers, AuthenticateUser(k, a) PROVE ConnectInv(c, k)'
  BY <1>2, AuthenticateOwing
<1>3. CASE SetApplication(k)
  BY <1>3, SetApplicationOwing
<1>4. CASE SetTableName(k) \/ ProcessScript(k)
  BY <1>4, RequestOwing
<1>5. CASE UploadOK(k)
  BY <1>5, UploadOKOwing
<1>6. CASE UploadCommit(k)
  BY <1>6, CommitOwing
<1>7. ASSUME NEW del \in BOOLEAN, Download(k, del) PROVE ConnectInv(c, k)'
  BY <1>7, DownloadOwing
<1>8. CASE EndSession(k)
  BY <1>8, EndSessionOwing
<1>9. CASE NetworkError(k) \/ UpdateConnectFlag(k) \/ FreeHandles(k)
  BY <1>9, LastStepsOwing
<1>10. CASE AuthenticateFails(k)
  <2>1. UNCHANGED toCli /\ Serve(k)
    BY <1>10 DEF AuthenticateFails, Serve
  <2> QED
    BY <1>10, <2>1, AuthenticationFailed, EndsOwing DEF Alive
<1>11. ASSUME NEW del \in BOOLEAN, DownloadFails(k, del) PROVE ConnectInv(c, k)'
  BY <1>11, DownloadFailsOwing
<1> QED
  BY <1>1, <1>2, <1>3, <1>4, <1>5, <1>6, <1>7, <1>8, <1>9, <1>10, <1>11 DEF Serve

LEMMA ServeTime ==
    ASSUME Inv, SessInv, TimeInv, "versions" \notin Faults, NEW k \in Conns, Serve(k)
    PROVE  TimeInv'
<1>1. UNCHANGED cli
  BY OtherSockets DEF client
<1>2. ASSUME NEW c \in Clients, cli'[c].pc # "off" PROVE ConnectInv(c, cli[c].conn)'
  <2>1. PICK j \in Conns : j = cli[c].conn
    BY <1>1, <1>2 DEF Inv, ClientInv
  <2>2. ConnectInv(c, j)
    BY <1>1, <1>2, <2>1 DEF TimeInv, ConnectionsInv
  <2>3. ConnectInv(c, j)'
    <3>1. CASE j = k
      BY <1>1, <1>2, <2>1, <2>2, <3>1, ServeOwing DEF TimeInv
    <3>2. CASE j # k
      BY <2>2, <3>2, OtherConnections DEF TimeInv
    <3> QED
      BY <3>1, <3>2
  <2> QED
    BY <1>1, <2>1, <2>3
<1> QED
  BY <1>2, ClockStays, LocksStay, SeenStays DEF TimeInv, ConnectionsInv

-----------------------------------------------------------------------------
(* What a client is owed, while it sends and reads *)

\* The client asks for the end: the queue of its requests from p to q.
Asks(p, q) == ~Holds(p, "A") /\ Holds(q, "A")

LEMMA GoesOnInTime ==
    ASSUME Inv, SessInv, TimeInv, NEW c \in Clients, cli[c].pc # "off", NEW k \in Conns, k = cli[c].conn,
           NEW l, NEW v, NEW g, NEW q, NEW a,
           UNCHANGED <<now, server>>, cli' = [cli EXCEPT ![c] = l], l.conn = k,
           local' = [local EXCEPT ![c] = v], changed' = [changed EXCEPT ![c] = g],
           toSrv' = [toSrv EXCEPT ![k] = q], toCli' = [toCli EXCEPT ![k] = a],
           Finishing(thr[k], q) =>
               Finishing(thr[k], toSrv[k]) \/ (thr[k].pc = "flag" /\ thr[k].who = c),
           \A T \in Stamp : Due(c, T) \/ (ToBeDue(thr[k], T) /\ Asks(toSrv[k], q)) =>
               \A r \in Rows : r \notin g => Fresh(rows, txn, r, T, v[r]),
           Known(c, l, thr[k], q, a),
           \A T \in Stamp : Due(c, T) \/ ToBeDue(thr[k], T) => Owed(l, v, g, thr[k], a, rows, txn, T),
           Alive(thr[k]) /\ thr[k].auth => Past(l, v, thr[k], rows, txn)
    PROVE  TimeInv'
<1>1. /\ cli'[c] = l /\ local'[c] = v /\ changed'[c] = g
      /\ \A b \in Clients \ {c} : cli'[b] = cli[b] /\ local'[b] = local[b] /\ changed'[b] = changed[b]
      /\ toSrv'[k] = q /\ toCli'[k] = a
      /\ \A j \in Conns \ {k} : toSrv'[j] = toSrv[j] /\ toCli'[j] = toCli[j]
  BY DEF Inv, ClientInv, DataInv, NetInv
<1>2. UNCHANGED <<now, rows, user, thr, txn>>
  BY DEF server
<1>3. ClockInv' /\ LockInv'
  BY <1>2 DEF TimeInv, ClockInv, LockInv
<1>4. ASSUME NEW b \in Clients, NEW T \in Stamp, Due(b, T)'
      PROVE  Due(b, T) \/ (b = c /\ ToBeDue(thr[k], T) /\ Asks(toSrv[k], q))
  <2>1. CASE T = user[b].time
    BY <2>1 DEF Due
  <2>2. CASE T # user[b].time
    <3>1. PICK j \in Conns : /\ thr[j].auth /\ thr[j].who = b
                             /\ \/ T = thr[j].lastSyncTime
                                \/ T = thr[j].connectTime /\ Finishing(thr[j], toSrv'[j])
      BY <1>2, <1>4, <2>2 DEF Due
    <3>2. CASE T = thr[j].lastSyncTime \/ Finishing(thr[j], toSrv[j])
      BY <3>1, <3>2 DEF Due
    <3>3. CASE T # thr[j].lastSyncTime /\ ~Finishing(thr[j], toSrv[j])
      <4>1. T = thr[j].connectTime /\ Finishing(thr[j], toSrv'[j])
        BY <3>1, <3>3
      <4>2. j = k
        BY <1>1, <3>3, <4>1
      <4>3. thr[k].pc = "flag" /\ thr[k].who = c /\ Asks(toSrv[k], q)
        BY <1>1, <3>3, <4>1, <4>2 DEF Finishing, Asks
      <4> QED
        BY <3>1, <4>1, <4>2, <4>3 DEF ToBeDue, Alive
    <3> QED
      BY <3>2, <3>3
  <2> QED
    BY <2>1, <2>2
<1>5. ASSUME NEW b \in Clients, NEW T \in Stamp, Due(b, T)'
      PROVE  /\ T <= now
             /\ \A r \in Rows : r \notin changed'[b] => Fresh(rows, txn, r, T, local'[b][r])
  <2>1. Due(b, T) \/ (b = c /\ ToBeDue(thr[k], T) /\ Asks(toSrv[k], q))
    BY <1>4, <1>5
  <2>2. T <= now
    BY <2>1, DueNow DEF TimeInv
  <2>3. CASE b = c
    BY <1>1, <2>1, <2>2, <2>3
  <2>4. CASE b # c
    BY <1>1, <2>1, <2>2, <2>4 DEF TimeInv, SeenInv
  <2> QED
    BY <2>3, <2>4
<1>6. SeenInv'
  BY <1>2, <1>5 DEF SeenInv
<1>7. ASSUME NEW b \in Clients, cli'[b].pc # "off" PROVE ConnectInv(b, cli[b].conn)'
  <2>1. CASE b = c
    <3>1. cli'[c].conn = k
      BY <1>1
    <3>2. \A T \in Stamp : Due(c, T)' \/ ToBeDue(thr[k], T) => Due(c, T) \/ ToBeDue(thr[k], T)
      BY <1>4
    <3> QED
      BY <1>1, <1>2, <2>1, <3>1, <3>2 DEF ConnectInv
  <2>2. CASE b # c
    <3>1. PICK j \in Conns : j = cli[b].conn
      BY <1>1, <1>7, <2>2 DEF Inv, ClientInv
    <3>2. j # k /\ ConnectInv(b, j) /\ cli'[b].conn = j
      BY <1>1, <1>7, <2>2, <3>1 DEF TimeInv, ConnectionsInv, SessInv, SocketInv
    <3>3. \A T \in Stamp : Due(b, T)' => Due(b, T)
      BY <1>4, <2>2
    <3>4. ConnectInv(b, j)'
      BY <1>1, <1>2, <2>2, <3>2, <3>3 DEF ConnectInv
    <3> QED
      BY <3>2, <3>4
  <2> QED
    BY <2>1, <2>2
<1> QED
  BY <1>3, <1>6, <1>7 DEF TimeInv, ConnectionsInv

\* A client that leaves: when it flushes its log, the server has what was in it.
LEMMA LeavesInTime ==
    ASSUME Inv, SessInv, TimeInv, NEW c \in Clients, cli[c].pc # "off",
           UNCHANGED <<now, server, local, toSrv>>, Disconnected(c),
           UNCHANGED changed \/ (cli[c].pc = "delete" /\ Flush(c))
    PROVE  TimeInv'
<1>0. PICK k \in Conns : k = cli[c].conn
  BY DEF Inv, ClientInv
<1>1. /\ cli'[c].pc = "off" /\ \A b \in Clients \ {c} : cli'[b] = cli[b] /\ changed'[b] = changed[b]
      /\ \A j \in Conns \ {k} : toCli'[j] = toCli[j]
      /\ changed \in [Clients -> SUBSET Rows]
  BY <1>0 DEF Disconnected, Flush, Inv, ClientInv, DataInv, NetInv
<1>2. UNCHANGED <<now, rows, user, thr, txn, local, toSrv>>
  BY DEF server
<1>3. ClockInv' /\ LockInv'
  BY <1>2 DEF TimeInv, ClockInv, LockInv
<1>4. \A b \in Clients, T \in Stamp : Due(b, T)' <=> Due(b, T)
  BY <1>2 DEF Due
<1>5. ASSUME NEW T \in Stamp, Due(c, T), NEW r \in Rows, r \notin changed'[c]
      PROVE  Fresh(rows, txn, r, T, local[c][r])
  <2>1. CASE r \notin changed[c]
    BY <1>5, <2>1 DEF TimeInv, SeenInv
  <2>2. CASE r \in changed[c]
    <3>1. cli[c].pc = "delete" /\ r \in RowsOf(cli[c].dsn)
      BY <1>1, <1>5, <2>2 DEF Flush
    <3>2. Owed(cli[c], local[c], changed[c], thr[k], toCli[k], rows, txn, T)
      BY <1>0, <1>5 DEF TimeInv, ConnectionsInv, ConnectInv
    <3> QED
      BY <2>2, <3>1, <3>2 DEF Owed, Began, OwnRows
  <2> QED
    BY <2>1, <2>2
<1>6. SeenInv'
  <2> SUFFICES ASSUME NEW b \in Clients, NEW T \in Stamp, Due(b, T)
               PROVE  /\ T <= now
                      /\ \A r \in Rows : r \notin changed'[b] => Fresh(rows, txn, r, T, local[b][r])
    BY <1>2, <1>4 DEF SeenInv
  <2>1. CASE b = c
    BY <1>5, <2>1 DEF TimeInv, SeenInv
  <2>2. CASE b # c
    BY <1>1, <2>2 DEF TimeInv, SeenInv
  <2> QED
    BY <2>1, <2>2
<1>7. ASSUME NEW b \in Clients, cli'[b].pc # "off" PROVE ConnectInv(b, cli[b].conn)'
  <2>1. b # c
    BY <1>1, <1>7
  <2>2. PICK j \in Conns : j = cli[b].conn
    BY <1>1, <1>7, <2>1 DEF Inv, ClientInv
  <2>3. j # k /\ ConnectInv(b, j) /\ cli'[b].conn = j
    BY <1>0, <1>1, <1>7, <2>1, <2>2 DEF TimeInv, ConnectionsInv, SessInv, SocketInv
  <2>4. ConnectInv(b, j)'
    BY <1>1, <1>2, <1>4, <2>1, <2>3 DEF ConnectInv
  <2> QED
    BY <2>3, <2>4
<1> QED
  BY <1>3, <1>6, <1>7 DEF TimeInv, ConnectionsInv

LEMMA ChangeInTime ==
    ASSUME Inv, SessInv, TimeInv, NEW c \in Clients, NEW w \in Changes, Change(c, w)
    PROVE  TimeInv'
<1>1. /\ cli[c].pc = "off" /\ UNCHANGED <<now, rows, user, thr, txn, cli, toSrv, toCli>>
      /\ local' = [local EXCEPT ![c][w.row] = w]
      /\ changed' = [changed EXCEPT ![c] = @ \cup {w.row}]
  BY DEF Change, server, net
<1>2. /\ \A b \in Clients \ {c} : local'[b] = local[b] /\ changed'[b] = changed[b]
      /\ changed'[c] = changed[c] \cup {w.row}
      /\ \A r \in Rows : r # w.row => local'[c][r] = local[c][r]
  BY <1>1 DEF Inv, DataInv
<1>3. ClockInv' /\ LockInv'
  BY <1>1 DEF TimeInv, ClockInv, LockInv
<1>4. \A b \in Clients, T \in Stamp : Due(b, T)' <=> Due(b, T)
  BY <1>1 DEF Due
<1>5. SeenInv'
  <2> SUFFICES ASSUME NEW b \in Clients, NEW T \in Stamp, Due(b, T)
               PROVE  /\ T <= now
                      /\ \A r \in Rows : r \notin changed'[b] => Fresh(rows, txn, r, T, local'[b][r])
    BY <1>1, <1>4 DEF SeenInv
  <2>1. CASE b = c
    BY <1>2, <2>1 DEF TimeInv, SeenInv
  <2>2. CASE b # c
    BY <1>2, <2>2 DEF TimeInv, SeenInv
  <2> QED
    BY <2>1, <2>2
<1>6. ASSUME NEW b \in Clients, cli'[b].pc # "off" PROVE ConnectInv(b, cli[b].conn)'
  <2>1. b # c /\ ConnectInv(b, cli[b].conn)
    BY <1>1, <1>6 DEF TimeInv, ConnectionsInv
  <2> QED
    BY <1>1, <1>2, <1>4, <2>1 DEF ConnectInv
<1> QED
  BY <1>3, <1>5, <1>6 DEF TimeInv, ConnectionsInv

LEMMA ConnectInTime ==
    ASSUME Inv, SessInv, TimeInv, NEW c \in Clients, NEW k \in Conns, Connect(c, k)
    PROVE  TimeInv'
<1> DEFINE l == [pc |-> "ack", conn |-> k, dsn |-> 1, up |-> {}]
           q == <<<<"AUTH", c>>>>
<1>1. /\ cli[c].pc = "off" /\ conn[k] = "none"
      /\ thr' = [thr EXCEPT ![k].pc = "start"]
      /\ toSrv' = [toSrv EXCEPT ![k] = q] /\ cli' = [cli EXCEPT ![c] = l]
      /\ UNCHANGED <<now, rows, user, txn, toCli, local, changed>>
  BY DEF Connect
<1>2. thr[k].pc = "none" /\ toCli[k] = << >>
  BY <1>1 DEF SessInv, SocketInv
<1>3. /\ cli'[c] = l /\ \A b \in Clients \ {c} : cli'[b] = cli[b]
      /\ toSrv'[k] = q /\ \A j \in Conns \ {k} : toSrv'[j] = toSrv[j] /\ thr'[j] = thr[j]
      /\ thr'[k].pc = "start" /\ thr'[k].auth = thr[k].auth /\ thr'[k].open = thr[k].open
      /\ thr'[k].connectTime = thr[k].connectTime
  BY <1>1 DEF Inv, ClientInv, NetInv, ThreadInv, Thread
<1>4. ~thr[k].auth /\ thr[k].connectTime = Never
  BY <1>2 DEF TimeInv, ClockInv
<1>5. ClockInv' /\ LockInv'
  <2>1. ASSUME NEW j \in Conns
        PROVE  /\ thr'[j].connectTime <= now \/ thr'[j].connectTime = Never
               /\ thr'[j].open # 0 => thr'[j].connectTime # Never
               /\ thr'[j].pc \in {"none", "start", "auth", "done"} =>
                      ~thr'[j].auth /\ thr'[j].connectTime = Never
    <3>1. CASE j = k
      BY <1>3, <1>4, <3>1 DEF TimeInv, ClockInv
    <3>2. CASE j # k
      BY <1>3, <3>2 DEF TimeInv, ClockInv
    <3> QED
      BY <3>1, <3>2
  <2> QED
    BY <1>1, <2>1 DEF TimeInv, ClockInv, LockInv
<1>6. \A b \in Clients, T \in Stamp : Due(b, T)' => Due(b, T)
  BY <1>1, <1>3, <1>4 DEF Due
<1>7. SeenInv'
  BY <1>1, <1>6 DEF TimeInv, SeenInv
<1>8. ConnectInv(c, k)'
  <2>1. Known(c, l, thr'[k], q, << >>)
    BY <1>3 DEF Known
  <2>2. ASSUME NEW T PROVE Owed(l, local[c], changed[c], thr'[k], << >>, rows, txn, T)
    BY <1>3, NoData DEF Owed, Began, BegunTwice, SentRows
  <2> HIDE DEF l, q
  <2> QED
    BY <1>1, <1>2, <1>3, <1>4, <2>1, <2>2 DEF ConnectInv
<1>9. ASSUME NEW b \in Clients, cli'[b].pc # "off" PROVE ConnectInv(b, cli[b].conn)'
  <2>1. CASE b = c
    <3>1. cli'[c].conn = k
      BY <1>3
    <3> QED
      BY <1>8, <2>1, <3>1
  <2>2. CASE b # c
    <3>1. PICK j \in Conns : j = cli[b].conn
      BY <1>3, <1>9, <2>2 DEF Inv, ClientInv
    <3>2. ConnectInv(b, j) /\ cli'[b] = cli[b] /\ j # k
      BY <1>1, <1>3, <1>9, <2>2, <3>1 DEF TimeInv, ConnectionsInv, SessInv, SocketInv
    <3>3. ConnectInv(b, j)'
      BY <1>1, <1>3, <1>6, <3>2 DEF ConnectInv
    <3> QED
      BY <3>1, <3>2, <3>3
  <2> QED
    BY <2>1, <2>2
<1> QED
  BY <1>5, <1>7, <1>9 DEF TimeInv, ConnectionsInv

\* A client sends: nothing is under way to it, unless it asks for the end.
LEMMA SendsInTime ==
    ASSUME Inv, SessInv, TimeInv, NEW c \in Clients, cli[c].pc \in {"dsn", "table", "upload", "quit"},
           NEW m \in Request, Send(c, m), m[1] = "A" => cli[c].pc = "quit",
           NEW l, cli' = [cli EXCEPT ![c] = l], l.conn = cli[c].conn, l.dsn = cli[c].dsn,
           IF cli[c].pc = "quit" THEN l.pc = "bye" ELSE l.pc \in {"table", "upload", "ok"},
           UNCHANGED <<now, server, local, changed>>
    PROVE  TimeInv'
<1>0. PICK k \in Conns : k = cli[c].conn
  BY DEF Inv, ClientInv
<1> DEFINE t == thr[k]
           a == toCli[k]
           q == Append(toSrv[k], m)
<1>1. /\ Talk(cli[c].pc, cli[c].dsn, t, toSrv[k], a, sent[k], kept[k])
      /\ toSrv[k] \in Seq(Request)
  BY <1>0, AttachedTypes DEF COK, ClientOK
<1>2. a = << >>
  BY <1>1 DEF Talk
<1>3. /\ local' = [local EXCEPT ![c] = local[c]] /\ changed' = [changed EXCEPT ![c] = changed[c]]
      /\ toSrv' = [toSrv EXCEPT ![k] = q] /\ toCli' = [toCli EXCEPT ![k] = a]
  BY <1>0 DEF Send, Inv, DataInv, NetInv
<1>4. /\ Known(c, cli[c], t, toSrv[k], a)
      /\ \A T \in Stamp : Due(c, T) \/ ToBeDue(t, T) =>
             Owed(cli[c], local[c], changed[c], t, a, rows, txn, T)
      /\ Alive(t) /\ t.auth => Past(cli[c], local[c], t, rows, txn)
  BY <1>0 DEF TimeInv, ConnectionsInv, ConnectInv
<1>5. Known(c, l, t, q, a)
  BY <1>4 DEF Known
<1>6. Alive(t) /\ t.auth => Past(l, local[c], t, rows, txn)
  BY <1>4 DEF Past
<1>7. ASSUME NEW T \in Stamp, Due(c, T) \/ ToBeDue(t, T)
      PROVE  Owed(l, local[c], changed[c], t, a, rows, txn, T)
  <2>1. Owed(cli[c], local[c], changed[c], t, a, rows, txn, T)
    BY <1>4, <1>7
  <2>2. ~Began(l.pc, a, l.dsn) /\ ~BegunTwice(l.pc, a, l.dsn)
    BY <1>2 DEF Began, BegunTwice
  <2> HIDE DEF t, a
  <2> QED
    BY <2>1, <2>2 DEF Owed, OwnRows
<1>8. Holds(q, "A") => Holds(toSrv[k], "A") \/ cli[c].pc = "quit"
  BY <1>1, UploadsAppend
<1>9. Finishing(t, q) => Finishing(t, toSrv[k]) \/ (t.pc = "flag" /\ t.who = c)
  BY <1>4, <1>8 DEF Finishing, Known, Alive
<1>10. ASSUME NEW T \in Stamp, Due(c, T) \/ (ToBeDue(t, T) /\ Asks(toSrv[k], q)),
              NEW r \in Rows, r \notin changed[c]
       PROVE  Fresh(rows, txn, r, T, local[c][r])
  <2>1. CASE Due(c, T)
    BY <1>10, <2>1 DEF TimeInv, SeenInv
  <2>2. CASE ToBeDue(t, T) /\ Asks(toSrv[k], q)
    <3>1. Alive(t) /\ t.auth /\ T = t.connectTime /\ cli[c].pc = "quit"
      BY <1>8, <2>2 DEF ToBeDue, Asks
    <3> QED
      BY <1>4, <3>1 DEF Past
  <2> QED
    BY <1>10, <2>1, <2>2
<1> HIDE DEF t, a, q
<1> QED
  BY <1>0, <1>3, <1>5, <1>6, <1>7, <1>9, <1>10, GoesOnInTime DEF t

LEMMA ReadsInTime ==
    ASSUME Inv, SessInv, TimeInv, NEW c \in Clients, cli[c].pc # "off", NEW k \in Conns, k = cli[c].conn,
           Take(c), NEW l, NEW v, NEW g, UNCHANGED <<now, server>>,
           cli' = [cli EXCEPT ![c] = l], l.conn = k,
           local' = [local EXCEPT ![c] = v], changed' = [changed EXCEPT ![c] = g],
           Known(c, l, thr[k], toSrv[k], Tail(toCli[k])),
           \A T \in Stamp : Due(c, T) => \A r \in Rows : r \notin g => Fresh(rows, txn, r, T, v[r]),
           \A T \in Stamp : Due(c, T) \/ ToBeDue(thr[k], T) =>
               Owed(l, v, g, thr[k], Tail(toCli[k]), rows, txn, T),
           Alive(thr[k]) /\ thr[k].auth => Past(l, v, thr[k], rows, txn)
    PROVE  TimeInv'
<1>1. PICK q : q = toSrv[k]
  OBVIOUS
<1>2. PICK a : a = Tail(toCli[k])
  OBVIOUS
<1>3. toSrv' = [toSrv EXCEPT ![k] = q] /\ toCli' = [toCli EXCEPT ![k] = a]
  BY <1>1, <1>2 DEF Take, Inv, NetInv
<1>4. ~Asks(toSrv[k], q)
  BY <1>1 DEF Asks
<1> QED
  BY <1>1, <1>2, <1>3, <1>4, GoesOnInTime

\* What is under way, when the first message is read.
LEMMA DataHead ==
    ASSUME NEW a \in Seq(Answer), a # << >>
    PROVE  /\ Data(Tail(a)) \subseteq Data(a)
           /\ Head(a)[1] \notin {"F", "R"} => Flight(Tail(a)) = Flight(a)
           /\ Head(a)[1] \in {"F", "R"} =>
                Head(a) \in Data(a) /\ Flight(a) = DOMAIN Head(a)[2] \cup Flight(Tail(a))
<1>1. Range(a) = {Head(a)} \cup Range(Tail(a))
  BY RangeHead
<1>2. /\ Head(a)[1] \notin {"F", "R"} => Data(a) = Data(Tail(a))
      /\ Head(a)[1] \in {"F", "R"} => Data(a) = {Head(a)} \cup Data(Tail(a))
  BY <1>1 DEF Data
<1> QED
  BY <1>2 DEF Flight

\* What a client reads of a data source, with its thread: facts of the states in
\* which it reads downloads.
LEMMA ReadsDownloads ==
    ASSUME NEW l, NEW v, NEW g, NEW t, NEW x, NEW q, NEW a, NEW s, NEW p,
           Session(l, v, g, t, x, q, a, s, p), a # << >>, l.pc \in {"ok", "select", "delete"}
    PROVE  /\ l.pc = "ok" => Head(a) = <<"K">>
           /\ l.pc = "select" => Selected(a, l.dsn) \/ Both(a, l.dsn) \/ CutOff(a, l.dsn)
           /\ l.pc = "delete" => /\ Deletions(a, l.dsn) \/ Part(a, "R", l.dsn)
                                 /\ Alive(t) => t.pc = "flag" /\ t.open = l.dsn
           /\ l.dsn \in 1..Dsns
BY DEF Session, ClientOK, Talk, Downloading, AtDownload, Program

\* What is owed to a client that reads an answer without rows: it goes on in a state
\* in which as much of the downloads has begun.
LEMMA OwedStill ==
    ASSUME NEW l, NEW v, NEW g, NEW t, NEW a \in Seq(Answer), NEW R, NEW X, NEW T,
           Owed(l, v, g, t, a, R, X, T), a # << >>, Head(a)[1] \notin {"F", "R"},
           NEW l2, l2.dsn = l.dsn,
           Began(l2.pc, Tail(a), l.dsn) => Began(l.pc, a, l.dsn),
           BegunTwice(l2.pc, Tail(a), l.dsn) => BegunTwice(l.pc, a, l.dsn)
    PROVE  Owed(l2, v, g, t, Tail(a), R, X, T)
<1>1. Data(Tail(a)) \subseteq Data(a) /\ Flight(Tail(a)) = Flight(a)
  BY DataHead
<1>2. Began(l2.pc, Tail(a), l2.dsn) \/ t.pc = "select" => OwnRows(l2, v, g, R, X, T)
  BY DEF Owed, OwnRows
<1>3. SentRows(Tail(a), R, X, T)
  BY <1>1 DEF Owed, SentRows
<1>4. BegunTwice(l2.pc, Tail(a), l2.dsn) => AllRows(l2, v, Tail(a), R, X, T)
  BY <1>1 DEF Owed, AllRows
<1> QED
  BY <1>1, <1>2, <1>3, <1>4 DEF Owed

\* It reads rows, which are those that the server has, or will have stamped later.
RowsNext(l, a) ==
    \/ /\ l.pc = "select" /\ Head(a)[1] = "F"
       /\ Selected(a, l.dsn) \/ Both(a, l.dsn) \/ CutOff(a, l.dsn)
    \/ l.pc = "delete" /\ Head(a)[1] = "R" /\ (Deletions(a, l.dsn) \/ Part(a, "R", l.dsn))

Merged(v, new) == [r \in Rows |-> IF r \in DOMAIN new THEN new[r] ELSE v[r]]

LEMMA OwedRows ==
    ASSUME NEW l, NEW v, NEW g, NEW t, NEW a \in Seq(Answer), NEW R, NEW X, NEW T,
           Owed(l, v, g, t, a, R, X, T), a # << >>, RowsNext(l, a)
    PROVE  /\ Owed(l, Merged(v, Head(a)[2]), g \ DOMAIN Head(a)[2], t, Tail(a), R, X, T)
           /\ \A r \in DOMAIN Head(a)[2] : Fresh(R, X, r, T, Head(a)[2][r])
<1>0. PICK new, w : /\ new = Head(a)[2] /\ w = Merged(v, new)
                    /\ \A r \in Rows : w[r] = IF r \in DOMAIN new THEN new[r] ELSE v[r]
  <2>1. \A r \in Rows : Merged(v, Head(a)[2])[r] =
                            IF r \in DOMAIN Head(a)[2] THEN Head(a)[2][r] ELSE v[r]
    BY DEF Merged
  <2> QED
    BY <2>1
<1>1. /\ Data(Tail(a)) \subseteq Data(a) /\ Head(a) \in Data(a)
      /\ Flight(a) = DOMAIN new \cup Flight(Tail(a))
  BY <1>0, DataHead DEF RowsNext
<1>2. \A r \in DOMAIN new : Fresh(R, X, r, T, new[r])
  BY <1>0, <1>1 DEF Owed, SentRows
<1>3. \A r \in RowsOf(l.dsn) : r \in Rows
  BY DEF RowsOf
<1>4. OwnRows(l, w, g \ DOMAIN new, R, X, T)
  <2>1. Began(l.pc, a, l.dsn)
    BY DEF Began, RowsNext
  <2> QED
    BY <1>0, <1>3, <2>1 DEF Owed, OwnRows
<1>5. SentRows(Tail(a), R, X, T)
  BY <1>1 DEF Owed, SentRows
<1>6. \A r \in RowsOf(l.dsn) : /\ r \in Flight(a) => r \in Flight(Tail(a)) \/ Fresh(R, X, r, T, w[r])
                               /\ Fresh(R, X, r, T, v[r]) => Fresh(R, X, r, T, w[r])
  BY <1>0, <1>1, <1>2, <1>3
<1>7. ASSUME BegunTwice(l.pc, Tail(a), l.dsn) PROVE AllRows(l, w, Tail(a), R, X, T)
  <2>1. BegunTwice(l.pc, a, l.dsn)
    <3>1. CASE l.pc = "select"
      <4>1. CASE CutOff(a, l.dsn) /\ Head(a)[1] = "F"
        <5>1. Head(a) # <<"E">>
          BY <4>1
        <5>2. Tail(a) = << >> \/ CutOff(Tail(a), l.dsn)
          BY <4>1, <5>1 DEF CutOff, Part, Second
        <5>3. ~Both(Tail(a), l.dsn)
          BY <5>2, NotTwice DEF Both
        <5> QED
          BY <1>7, <3>1, <5>3 DEF BegunTwice
      <4>2. CASE Selected(a, l.dsn) \/ Both(a, l.dsn)
        BY <1>7, <3>1, <4>2 DEF RowsNext, BegunTwice, Selected, Both, Deletions, Last
      <4> QED
        BY <3>1, <4>1, <4>2 DEF RowsNext
    <3>2. CASE l.pc = "delete"
      BY <1>7, <3>2 DEF RowsNext, BegunTwice, Part, Deletions
    <3> QED
      BY <3>1, <3>2 DEF RowsNext
  <2> QED
    BY <1>6, <2>1 DEF Owed, AllRows
<1>8. t.pc = "delete" => \A r \in RowsOf(l.dsn) : \/ r \in Flight(Tail(a))
                                                  \/ Fresh(R, X, r, T, w[r])
                                                  \/ ToDelete(t, R, X, r, T)
  BY <1>6 DEF Owed
<1> QED
  BY <1>0, <1>2, <1>4, <1>5, <1>7, <1>8 DEF Owed

\* It reads the end of the second download: all rows of the data source have come.
LEMMA AllCame ==
    ASSUME NEW l, NEW v, NEW g, NEW t, NEW a \in Seq(Answer), NEW R, NEW X, NEW T,
           Owed(l, v, g, t, a, R, X, T), l.pc = "delete", Deletions(a, l.dsn), Head(a)[1] = "E"
    PROVE  \A r \in RowsOf(l.dsn) : Fresh(R, X, r, T, v[r])
<1>1. a # << >> /\ Tail(a) = << >>
  BY DEF Deletions, Last
<1>2. Flight(a) = {}
  BY <1>1, DataHead, NoData
<1>3. AllRows(l, v, a, R, X, T)
  BY DEF Owed, BegunTwice
<1> QED
  BY <1>2, <1>3 DEF AllRows

\* What is known of a client that reads the next message.
LEMMA ReadsNext ==
    ASSUME Inv, SessInv, TimeInv, NEW c \in Clients, cli[c].pc # "off", NEW k, k = cli[c].conn
    PROVE  /\ k \in Conns /\ cli[c] \in Program /\ cli \in [Clients -> Program] /\ toCli[k] \in Seq(Answer)
           /\ Session(cli[c], local[c], changed[c], thr[k], txn[k], toSrv[k], toCli[k], sent[k], kept[k])
           /\ local \in [Clients -> [Rows -> Version]] /\ changed \in [Clients -> SUBSET Rows]
           /\ Known(c, cli[c], thr[k], toSrv[k], toCli[k])
           /\ \A T \in Stamp : Due(c, T) \/ ToBeDue(thr[k], T) =>
                  Owed(cli[c], local[c], changed[c], thr[k], toCli[k], rows, txn, T)
           /\ Alive(thr[k]) /\ thr[k].auth => Past(cli[c], local[c], thr[k], rows, txn)
           /\ \A T \in Stamp : Due(c, T) =>
                  \A r \in Rows : r \notin changed[c] => Fresh(rows, txn, r, T, local[c][r])
BY Attached, AttachedTypes DEF TimeInv, ConnectionsInv, ConnectInv, SeenInv, Inv, DataInv, ClientInv

LEMMA ReceiveEndsInTime ==
    ASSUME Inv, SessInv, TimeInv, NEW c \in Clients, ReceiveOK(c) \/ ReceiveEnd(c)
    PROVE  TimeInv'
<1>0. PICK k : k = cli[c].conn
  OBVIOUS
<1> DEFINE t == thr[k]
           a == toCli[k]
           v == local[c]
           g == changed[c]
<1>1. PICK pc : /\ ReceiveOK(c) => pc = "select"
                /\ ReceiveEnd(c) => pc = "delete"
  BY DEF ReceiveOK, ReceiveEnd
<1> DEFINE l == [cli[c] EXCEPT !.pc = pc]
<1>2. /\ cli[c].pc # "off" /\ Take(c) /\ UNCHANGED <<now, server, local, changed>>
      /\ a # << >> /\ Head(a)[1] \notin {"F", "R"} /\ Goto(c, pc)
      /\ \/ cli[c].pc = "ok" /\ pc = "select"
         \/ cli[c].pc = "select" /\ pc = "delete" /\ Head(a)[1] = "E"
  BY <1>0, <1>1 DEF ReceiveOK, ReceiveEnd, Got
<1>3. /\ k \in Conns /\ cli[c] \in Program /\ cli \in [Clients -> Program] /\ a \in Seq(Answer)
      /\ Session(cli[c], v, g, t, txn[k], toSrv[k], a, sent[k], kept[k])
      /\ local \in [Clients -> [Rows -> Version]] /\ changed \in [Clients -> SUBSET Rows]
      /\ Known(c, cli[c], t, toSrv[k], a)
      /\ \A T \in Stamp : Due(c, T) \/ ToBeDue(t, T) => Owed(cli[c], v, g, t, a, rows, txn, T)
      /\ Alive(t) /\ t.auth => Past(cli[c], v, t, rows, txn)
      /\ \A T \in Stamp : Due(c, T) => \A r \in Rows : r \notin g => Fresh(rows, txn, r, T, v[r])
  BY <1>0, <1>2, ReadsNext
<1>4. /\ cli' = [cli EXCEPT ![c] = l] /\ l.conn = k /\ l.pc = pc /\ l.dsn = cli[c].dsn
      /\ local' = [local EXCEPT ![c] = v] /\ changed' = [changed EXCEPT ![c] = g]
  BY <1>0, <1>2, <1>3 DEF Goto, Program
<1> HIDE DEF t, a, v, g, l
<1>5. Known(c, l, t, toSrv[k], Tail(a)) /\ (Alive(t) /\ t.auth => Past(l, v, t, rows, txn))
  BY <1>2, <1>3, <1>4 DEF Known, Past
<1>6. cli[c].pc = "select" => \/ Selected(a, l.dsn) \/ Both(a, l.dsn)
                              \/ CutOff(a, l.dsn) /\ ~Deletions(Tail(a), l.dsn)
  <2>1. cli[c].pc = "select" => Selected(a, l.dsn) \/ Both(a, l.dsn) \/ CutOff(a, l.dsn)
    BY <1>2, <1>3, <1>4, ReadsDownloads
  <2>2. CutOff(a, l.dsn) => Head(a) # <<"E">> \/ ~Both(a, l.dsn)
    BY NotTwice
  <2>3. CutOff(a, l.dsn) /\ cli[c].pc = "select" => Head(a) = <<"E">>
    BY <1>2 DEF CutOff, Part, Second
  <2> QED
    BY <1>2, <2>1, <2>2, <2>3 DEF Both
<1>7. /\ Began(l.pc, Tail(a), cli[c].dsn) => Began(cli[c].pc, a, cli[c].dsn)
      /\ BegunTwice(l.pc, Tail(a), cli[c].dsn) => BegunTwice(cli[c].pc, a, cli[c].dsn)
  <2>1. CASE cli[c].pc = "ok"
    BY <1>2, <1>4, <2>1 DEF Began, BegunTwice
  <2>2. CASE cli[c].pc = "select"
    BY <1>2, <1>4, <1>6, <2>2 DEF Began, BegunTwice, Selected, Both, Deletions, Last
  <2> QED
    BY <1>2, <2>1, <2>2
<1>8. \A T \in Stamp : Due(c, T) \/ ToBeDue(t, T) => Owed(l, v, g, t, Tail(a), rows, txn, T)
  BY <1>2, <1>3, <1>4, <1>7, OwedStill
<1> QED
  BY <1>0, <1>2, <1>3, <1>4, <1>5, <1>8, ReadsInTime DEF t, a

LEMMA ReceiveRowsInTime ==
    ASSUME Inv, SessInv, TimeInv, NEW c \in Clients, ReceiveRows(c)
    PROVE  TimeInv'
<1>0. PICK k : k = cli[c].conn
  OBVIOUS
<1>1. PICK new : new = Head(toCli[k])[2]
  OBVIOUS
<1> DEFINE t == thr[k]
           a == toCli[k]
           l == cli[c]
           v == local[c]
           g == changed[c]
           w == Merged(v, new)
<1>2. /\ l.pc # "off" /\ l.pc # "quit" /\ l.pc # "ack" /\ Take(c) /\ UNCHANGED <<now, server, cli>> /\ a # << >>
      /\ \/ l.pc = "select" /\ Head(a)[1] = "F"
         \/ l.pc = "delete" /\ Head(a)[1] = "R"
  BY <1>0 DEF ReceiveRows, Got
<1>3. /\ k \in Conns /\ l \in Program /\ cli \in [Clients -> Program] /\ a \in Seq(Answer)
      /\ Session(l, v, g, t, txn[k], toSrv[k], a, sent[k], kept[k])
      /\ local \in [Clients -> [Rows -> Version]] /\ changed \in [Clients -> SUBSET Rows]
      /\ Known(c, l, t, toSrv[k], a)
      /\ \A T \in Stamp : Due(c, T) \/ ToBeDue(t, T) => Owed(l, v, g, t, a, rows, txn, T)
      /\ Alive(t) /\ t.auth => Past(l, v, t, rows, txn)
      /\ \A T \in Stamp : Due(c, T) => \A r \in Rows : r \notin g => Fresh(rows, txn, r, T, v[r])
  BY <1>0, <1>2, ReadsNext
<1>4. local' = [local EXCEPT ![c] = w] /\ changed' = [changed EXCEPT ![c] = g \ DOMAIN new]
  BY <1>0, <1>1 DEF ReceiveRows, Merged
<1>5. cli' = [cli EXCEPT ![c] = l] /\ l.conn = k
  BY <1>0, <1>2, <1>3
<1>6. \A r \in Rows : w[r] = IF r \in DOMAIN new THEN new[r] ELSE v[r]
  BY DEF Merged
<1> HIDE DEF t, a, l, v, g, w
<1>7. RowsData(Head(a), l.dsn)
  BY <1>2, <1>3, RowsExpected
<1>8. \A r \in DOMAIN new : r \in RowsOf(l.dsn)
  BY <1>1, <1>7 DEF RowsData, a
<1>9. Alive(t) /\ t.auth => Past(l, w, t, rows, txn)
  <2>1. \A r \in Rows : DsnOf[r] < l.dsn => w[r] = v[r]
    BY <1>3, <1>6, <1>8, SyncAssumption DEF RowsOf, Program
  <2> QED
    BY <1>2, <1>3, <2>1 DEF Past
<1>10. Known(c, l, t, toSrv[k], Tail(a))
  BY <1>2, <1>3 DEF Known
<1>11. ASSUME NEW T \in Stamp, Due(c, T) \/ ToBeDue(t, T)
       PROVE  /\ Owed(l, w, g \ DOMAIN new, t, Tail(a), rows, txn, T)
              /\ \A r \in DOMAIN new : Fresh(rows, txn, r, T, new[r])
  <2>1. Owed(l, v, g, t, a, rows, txn, T)
    BY <1>3, <1>11
  <2>2. RowsNext(l, a)
    BY <1>2, <1>3, ReadsDownloads DEF RowsNext
  <2>3. new = Head(a)[2] /\ w = Merged(v, Head(a)[2])
    BY <1>1 DEF a, w
  <2> QED
    <3>1. a \in Seq(Answer) /\ a # << >>
      BY <1>2, <1>3
    <3> QED
      BY <2>1, <2>2, <2>3, <3>1, OwedRows
<1>12. \A T \in Stamp : Due(c, T) =>
           \A r \in Rows : r \notin g \ DOMAIN new => Fresh(rows, txn, r, T, w[r])
  BY <1>3, <1>6, <1>11
<1> QED
  BY <1>0, <1>2, <1>3, <1>4, <1>5, <1>9, <1>10, <1>11, <1>12, ReadsInTime DEF t, a, l

\* The data source is done: all its rows are past, and it is flushed from the log.
LEMMA ReceiveDeleteEndInTime ==
    ASSUME Inv, SessInv, TimeInv, NEW c \in Clients, ReceiveDeleteEnd(c)
    PROVE  TimeInv'
<1>0. PICK k : k = cli[c].conn
  OBVIOUS
<1>1. PICK f, n : /\ f = (IF cli[c].dsn < Dsns THEN "dsn" ELSE "quit")
                  /\ n = (IF cli[c].dsn < Dsns THEN cli[c].dsn + 1 ELSE cli[c].dsn)
  OBVIOUS
<1> DEFINE t == thr[k]
           a == toCli[k]
           l == cli[c]
           v == local[c]
           g == changed[c]
           h == changed[c] \ RowsOf(cli[c].dsn)
           l2 == [cli[c] EXCEPT !.pc = f, !.dsn = n]
<1>2. /\ l.pc = "delete" /\ Take(c) /\ UNCHANGED <<now, server, local>> /\ a # << >>
      /\ Head(a)[1] = "E"
  BY <1>0 DEF ReceiveDeleteEnd, Got
<1>3. /\ k \in Conns /\ l \in Program /\ cli \in [Clients -> Program] /\ a \in Seq(Answer)
      /\ Session(l, v, g, t, txn[k], toSrv[k], a, sent[k], kept[k])
      /\ local \in [Clients -> [Rows -> Version]] /\ changed \in [Clients -> SUBSET Rows]
      /\ Known(c, l, t, toSrv[k], a)
      /\ \A T \in Stamp : Due(c, T) \/ ToBeDue(t, T) => Owed(l, v, g, t, a, rows, txn, T)
      /\ Alive(t) /\ t.auth => Past(l, v, t, rows, txn)
      /\ \A T \in Stamp : Due(c, T) => \A r \in Rows : r \notin g => Fresh(rows, txn, r, T, v[r])
  BY <1>0, <1>2, ReadsNext
<1>4. local' = [local EXCEPT ![c] = v] /\ changed' = [changed EXCEPT ![c] = h]
  BY <1>2, <1>3 DEF ReceiveDeleteEnd, Flush
<1>5. cli' = [cli EXCEPT ![c] = l2] /\ l2.conn = k /\ l2.pc = f /\ l2.dsn = n
  BY <1>0, <1>1, <1>3 DEF ReceiveDeleteEnd, Program
<1> HIDE DEF t, a, l, v, g, h, l2
<1>6. Deletions(a, l.dsn) /\ (Alive(t) => t.pc = "flag" /\ t.open = l.dsn) /\ l.dsn \in 1..Dsns
  BY <1>2, <1>3, ReadsDownloads DEF Part
<1>7. f \in {"dsn", "quit"} /\ t.pc \notin {"select", "delete"}
  BY <1>1, <1>6 DEF Alive
<1>8. ASSUME NEW T \in Stamp, Due(c, T) \/ ToBeDue(t, T)
      PROVE  /\ Owed(l2, v, h, t, Tail(a), rows, txn, T)
             /\ \A r \in RowsOf(l.dsn) : Fresh(rows, txn, r, T, v[r])
  <2>1. Owed(l, v, g, t, a, rows, txn, T)
    BY <1>3, <1>8
  <2>2. \A r \in RowsOf(l.dsn) : Fresh(rows, txn, r, T, v[r])
    BY <1>2, <1>3, <1>6, <2>1, AllCame
  <2>3. Tail(a) = << >> /\ l2.pc \in {"dsn", "quit"}
    BY <1>2, <1>5, <1>6, <1>7 DEF Deletions, Last
  <2> QED
    <3>1. Owed(l2, v, h, t, Tail(a), rows, txn, T)
      BY <1>7, <2>3, NoData DEF Owed, Began, BegunTwice, SentRows
    <3> QED
      BY <2>2, <3>1
<1>9. \A T \in Stamp : Due(c, T) => \A r \in Rows : r \notin h => Fresh(rows, txn, r, T, v[r])
  <2> SUFFICES ASSUME NEW T \in Stamp, Due(c, T), NEW r \in Rows, r \notin h
               PROVE  Fresh(rows, txn, r, T, v[r])
    OBVIOUS
  <2>1. r \notin g \/ r \in RowsOf(l.dsn)
    BY DEF h, g, l
  <2> QED
    BY <1>3, <1>8, <2>1
<1>10. Known(c, l2, t, toSrv[k], Tail(a))
  BY <1>2, <1>3, <1>5, <1>7 DEF Known
<1>11. ASSUME Alive(t), t.auth PROVE Past(l2, v, t, rows, txn)
  <2>1. t.connectTime # Never /\ t.connectTime \in Stamp
    <3>1. t.open # 0
      BY <1>6, <1>11, SyncAssumption
    <3>2. t.connectTime # Never
      BY <1>3, <3>1 DEF TimeInv, ClockInv, t
    <3> QED
      BY <1>3, <3>2, SyncAssumption DEF t, Inv, ThreadInv, Thread, Stamp, Never
  <2>2. ToBeDue(t, t.connectTime)
    BY <1>11 DEF ToBeDue
  <2>3. \A r \in RowsOf(l.dsn) : Fresh(rows, txn, r, t.connectTime, v[r])
    BY <1>8, <2>1, <2>2
  <2>4. Past(l, v, t, rows, txn)
    BY <1>3, <1>11
  <2>5. ASSUME NEW r \in Rows, DsnOf[r] < l2.dsn \/ l2.pc = "quit"
        PROVE  Fresh(rows, txn, r, t.connectTime, v[r])
    <3>1. DsnOf[r] \in 1..Dsns /\ Dsns \in Nat
      BY SyncAssumption
    <3>2. DsnOf[r] <= l.dsn
      BY <1>1, <1>5, <1>6, <2>5, <3>1 DEF l
    <3>3. CASE DsnOf[r] = l.dsn
      BY <2>3, <3>3 DEF RowsOf
    <3>4. CASE DsnOf[r] < l.dsn
      <4>1. l.dsn > 1
        BY <1>6, <3>1, <3>4
      <4> QED
        BY <2>4, <3>4, <4>1 DEF Past
    <3> QED
      BY <1>6, <3>1, <3>2, <3>3, <3>4
  <2> QED
    BY <2>1, <2>5 DEF Past
<1> QED
  BY <1>0, <1>2, <1>3, <1>4, <1>5, <1>8, <1>9, <1>10, <1>11, ReadsInTime DEF t, a, l

\* The answer to the request: nothing is past, and no rows are under way.
LEMMA AuthAnswerInTime ==
    ASSUME Inv, SessInv, TimeInv, NEW c \in Clients, AuthAnswer(c), ~Disconnected(c)
    PROVE  TimeInv'
<1>0. PICK k : k = cli[c].conn
  OBVIOUS
<1>1. PICK pc : pc = IF Got(c, "ACK") THEN "dsn" ELSE "quit"
  OBVIOUS
<1> DEFINE t == thr[k]
           a == toCli[k]
           v == local[c]
           g == changed[c]
           l == [cli[c] EXCEPT !.pc = pc]
<1>2. /\ cli[c].pc = "ack" /\ Take(c) /\ UNCHANGED <<now, server, local, changed>> /\ a # << >>
      /\ Goto(c, pc) /\ (pc = "dsn" <=> Head(a)[1] = "ACK") /\ pc \in {"dsn", "quit"}
  BY <1>0, <1>1 DEF AuthAnswer, Got
<1>3. /\ k \in Conns /\ cli[c] \in Program /\ cli \in [Clients -> Program] /\ a \in Seq(Answer)
      /\ Session(cli[c], v, g, t, txn[k], toSrv[k], a, sent[k], kept[k])
      /\ local \in [Clients -> [Rows -> Version]] /\ changed \in [Clients -> SUBSET Rows]
      /\ Known(c, cli[c], t, toSrv[k], a)
      /\ \A T \in Stamp : Due(c, T) => \A r \in Rows : r \notin g => Fresh(rows, txn, r, T, v[r])
  BY <1>0, <1>2, ReadsNext
<1>4. /\ cli' = [cli EXCEPT ![c] = l] /\ l.conn = k /\ l.pc = pc /\ l.dsn = cli[c].dsn
      /\ local' = [local EXCEPT ![c] = v] /\ changed' = [changed EXCEPT ![c] = g]
  BY <1>0, <1>2, <1>3 DEF Goto, Program
<1>5. Talk(cli[c].pc, cli[c].dsn, t, toSrv[k], a, sent[k], kept[k])
  BY <1>3 DEF Session, ClientOK
<1> HIDE DEF t, a, v, g, l
<1>6. Tail(a) = << >> /\ (Alive(t) => t.pc = "flag")
  BY <1>2, <1>5 DEF Talk
<1>7. cli[c].dsn = 1 /\ (Alive(t) => t.who = c /\ (t.auth <=> Head(a)[1] = "ACK"))
  BY <1>2, <1>3, <1>6 DEF Known
<1>8. Known(c, l, t, toSrv[k], Tail(a))
  BY <1>2, <1>4, <1>7 DEF Known
<1>9. Alive(t) /\ t.auth => Past(l, v, t, rows, txn)
  BY <1>2, <1>4, <1>7 DEF Past
<1>10. ASSUME NEW T PROVE Owed(l, v, g, t, Tail(a), rows, txn, T)
  <2>1. t.pc \notin {"select", "delete"}
    BY <1>6 DEF Alive
  <2> QED
    BY <1>2, <1>4, <1>6, <2>1, NoData DEF Owed, Began, BegunTwice, SentRows
<1> QED
  BY <1>0, <1>2, <1>3, <1>4, <1>8, <1>9, <1>10, ReadsInTime DEF t, a

LEMMA ClientTime ==
    ASSUME Inv, SessInv, TimeInv, "early" \notin Faults, NEW c \in Clients, ClientStep(c)
    PROVE  TimeInv'
<1>0. /\ cli \in [Clients -> Program] /\ cli[c] \in Program
      /\ \A r \in Rows : local[c][r] \in Version
  BY DEF Inv, ClientInv, DataInv
<1>1. ASSUME NEW v \in Changes, Change(c, v) PROVE TimeInv'
  BY <1>1, ChangeInTime
<1>2. ASSUME NEW s \in Conns, Connect(c, s) PROVE TimeInv'
  BY <1>2, ConnectInTime
<1>3. CASE AuthAnswer(c) /\ ~Disconnected(c)
  BY <1>3, AuthAnswerInTime
<1>4. CASE Disconnected(c) /\ (AuthAnswer(c) \/ Bye(c) \/ GiveUp(c))
  <2>1. cli[c].pc # "off" /\ UNCHANGED <<now, server, local>>
    BY <1>4 DEF AuthAnswer, Bye, GiveUp
  <2>2. UNCHANGED toSrv
    BY <1>4 DEF Disconnected
  <2>3. UNCHANGED changed \/ (cli[c].pc = "delete" /\ Flush(c))
    BY <1>4 DEF AuthAnswer, Bye, GiveUp
  <2> QED
    BY <1>4, <2>1, <2>2, <2>3, LeavesInTime
<1>5. ASSUME NEW m \in Request, NEW pc, cli[c].pc \in {"dsn", "table", "upload", "quit"}, Send(c, m),
             m[1] = "A" => cli[c].pc = "quit",
             IF cli[c].pc = "quit" THEN pc = "bye" ELSE pc \in {"table", "upload", "ok"},
             NEW up, cli' = [cli EXCEPT ![c] = [cli[c] EXCEPT !.pc = pc, !.up = up]],
             UNCHANGED <<now, server, local, changed>>
      PROVE  TimeInv'
  <2>1. PICK l : l = [cli[c] EXCEPT !.pc = pc, !.up = up]
    OBVIOUS
  <2>2. l.conn = cli[c].conn /\ l.dsn = cli[c].dsn /\ l.pc = pc
    BY <1>0, <2>1 DEF Program
  <2>3. IF cli[c].pc = "quit" THEN l.pc = "bye" ELSE l.pc \in {"table", "upload", "ok"}
    BY <1>5, <2>2
  <2> QED
    BY <1>5, <2>1, <2>2, <2>3, SendsInTime
<1>6. CASE SendDSN(c)
  <2>1. PICK up : up = cli[c].up
    OBVIOUS
  <2>2. /\ cli[c].pc = "dsn" /\ Send(c, <<"S", cli[c].dsn>>) /\ UNCHANGED <<now, server, local, changed>>
        /\ cli' = [cli EXCEPT ![c] = [cli[c] EXCEPT !.pc = "table", !.up = up]]
    BY <1>0, <1>6, <2>1 DEF SendDSN, Goto, Program
  <2>3. <<"S", cli[c].dsn>> \in Request /\ <<"S", cli[c].dsn>>[1] # "A"
    BY <1>0 DEF Request, Program
  <2> QED
    BY <1>5, <2>2, <2>3
<1>7. CASE SendUploadOK(c)
  <2>1. PICK m, l : m = <<"E">> /\ l = [cli[c] EXCEPT !.pc = "ok"]
    OBVIOUS
  <2>2. /\ cli[c].pc = "upload" /\ Send(c, m) /\ UNCHANGED <<now, server, local, changed>>
        /\ cli' = [cli EXCEPT ![c] = l]
    BY <1>0, <1>7, <2>1 DEF SendUploadOK, Goto, Program
  <2>3. l.conn = cli[c].conn /\ l.dsn = cli[c].dsn /\ l.pc \in {"table", "upload", "ok"}
    BY <1>0, <2>1 DEF Program
  <2>4. m \in Request /\ m[1] # "A"
    BY <2>1 DEF Request
  <2> QED
    BY <2>2, <2>3, <2>4, SendsInTime
<1>8. CASE Quit(c)
  <2>1. PICK m, l : m = <<"A">> /\ l = [cli[c] EXCEPT !.pc = "bye"]
    OBVIOUS
  <2>2. /\ cli[c].pc = "quit" /\ Send(c, m) /\ UNCHANGED <<now, server, local, changed>>
        /\ cli' = [cli EXCEPT ![c] = l]
    BY <1>0, <1>8, <2>1 DEF Quit, Goto, Program
  <2>3. l.conn = cli[c].conn /\ l.dsn = cli[c].dsn /\ l.pc = "bye"
    BY <1>0, <2>1 DEF Program
  <2>4. m \in Request
    BY <2>1 DEF Request
  <2> QED
    BY <2>2, <2>3, <2>4, SendsInTime
<1>9. ASSUME NEW n \in Modes, SendTableName(c, n) PROVE TimeInv'
  <2>1. /\ cli[c].pc = "table" /\ Send(c, <<"M", n>>) /\ UNCHANGED <<now, server, local, changed>>
        /\ cli' = [cli EXCEPT ![c] = [cli[c] EXCEPT !.pc = "upload",
                                                    !.up = changed[c] \cap RowsOf(cli[c].dsn)]]
    BY <1>0, <1>9 DEF SendTableName, Program
  <2>2. <<"M", n>> \in Request /\ <<"M", n>>[1] # "A"
    BY DEF Request
  <2> QED
    BY <1>5, <2>1, <2>2
<1>10. ASSUME NEW r \in Rows, SendUploadData(c, r) PROVE TimeInv'
  <2>1. PICK up : up = cli[c].up \ {r}
    OBVIOUS
  <2>2. /\ cli[c].pc = "upload" /\ Send(c, <<"U", local[c][r]>>)
        /\ UNCHANGED <<now, server, local, changed>>
        /\ cli' = [cli EXCEPT ![c] = [cli[c] EXCEPT !.pc = "upload", !.up = up]]
    BY <1>0, <1>10, <2>1 DEF SendUploadData, Program
  <2>3. <<"U", local[c][r]>> \in Request /\ <<"U", local[c][r]>>[1] # "A"
    BY <1>0 DEF Request
  <2> QED
    BY <1>5, <2>2, <2>3
<1>11. CASE ReceiveOK(c) \/ ReceiveRows(c) \/ ReceiveEnd(c) \/ ReceiveDeleteEnd(c)
  BY <1>11, ReceiveEndsInTime, ReceiveRowsInTime, ReceiveDeleteEndInTime
<1> QED
  <2>1. CASE AuthAnswer(c) \/ Bye(c) \/ GiveUp(c)
    BY <1>3, <1>4, <2>1 DEF Bye, GiveUp
  <2> QED
    BY <1>1, <1>2, <1>6, <1>7, <1>8, <1>9, <1>10, <1>11, <2>1 DEF ClientStep

-----------------------------------------------------------------------------
LEMMA TimeStarts == Init => TimeInv
<1> SUFFICES ASSUME Init PROVE TimeInv
  OBVIOUS
<1>1. ClockInv
  BY SyncAssumption DEF Init, ClockInv, NoThread, NoRow
<1>2. LockInv
  BY DEF Init, LockInv
<1>3. ASSUME NEW c \in Clients, NEW T \in Stamp, Due(c, T)
      PROVE  /\ T <= now
             /\ \A r \in Rows : Fresh(rows, txn, r, T, local[c][r])
  <2>1. T = 0 /\ now = 1
    BY <1>3 DEF Init, Due, NoThread
  <2> QED
    BY <2>1 DEF Init, Fresh
<1>4. ConnectionsInv
  BY DEF Init, ConnectionsInv
<1> QED
  BY <1>1, <1>2, <1>3, <1>4 DEF TimeInv, SeenInv

\* The invariant of the times holds when readers wait for writers, and the clients
\* settle their changes after the download.
THEOREM TimesHold ==
    ASSUME Faults = {}
    PROVE  Spec => []TimeInv
<1>1. Inv /\ SessInv /\ TimeInv /\ [Next]_vars => TimeInv'
  <2> SUFFICES ASSUME Inv, SessInv, TimeInv, [Next]_vars PROVE TimeInv'
    OBVIOUS
  <2>1. ASSUME NEW c \in Clients, ClientStep(c) PROVE TimeInv'
    BY <2>1, ClientTime
  <2>2. ASSUME NEW k \in Conns, Serve(k) PROVE TimeInv'
    BY <2>2, ServeTime
  <2>3. CASE UNCHANGED vars
    BY <2>3 DEF vars, server, client, net, TimeInv, ClockInv, LockInv, SeenInv, Due,
       ConnectionsInv, ConnectInv
  <2> QED
    BY <2>1, <2>2, <2>3 DEF Next
<1>2. "handoff" \notin Faults
  OBVIOUS
<1>3. Spec => []Inv /\ []SessInv
  BY <1>2, InvHolds, SessionsHold, PTL
<1> QED
  BY <1>1, <1>3, TimeStarts, PTL DEF Spec

\* A device that has not got the committed version of a row, and has not changed the
\* row, gets it at the next synchronisation: the times that ProcessThread stores in
\* DBSyncTime are not later than the stamps of what the sessions have not sent.
THEOREM NothingIsMissed ==
    ASSUME Faults = {}
    PROVE  Spec => []NothingMissed
<1>1. Inv /\ TimeInv => NothingMissed
  <2> SUFFICES ASSUME Inv, TimeInv, NEW c \in Clients, NEW r \in Rows,
                      local[c][r] # rows[r].ver, r \notin changed[c]
               PROVE  rows[r].mTime >= user[c].time
    BY DEF NothingMissed
  <2>1. user[c].time \in Stamp /\ Due(c, user[c].time)
    BY DEF Inv, DataInv, User, Stamp, Due
  <2>2. Fresh(rows, txn, r, user[c].time, local[c][r])
    BY <2>1 DEF TimeInv, SeenInv
  <2> QED
    BY <2>2 DEF Fresh
<1> QED
  BY <1>1, InvHolds, TimesHold, PTL

=============================================================================
