---------------------------- MODULE SyncSession ----------------------------
(***************************************************************************)
(* Synchronisation of mobile databases by openMSYNC: the threads of the    *)
(* server (server/mSyncDBCTL/src: Sync.cpp, state.cpp, SQLProcessing.cpp,  *)
(* ODBC.cpp) and the client (client/src/export.c, state.c) in the order in *)
(* which sample/C/mSyncDemoApp uses it.                                    *)
(*                                                                         *)
(* A row holds a version: who wrote it, that client's count of changes,    *)
(* and whether it is a deletion (dflag 'D').  The scripts are those of the *)
(* manual: an upload stamps the row with the time of the statement, a      *)
(* download selects the rows stamped since the last synchronisation.  An   *)
(* upload message carries one row.  Each client has a user of its own.     *)
(*                                                                         *)
(* The database server is external: a statement waits for a row that       *)
(* another transaction has written, also to read it, and one statement of  *)
(* a deadlock fails.  The time-outs of select() may strike at any time.    *)
(*                                                                         *)
(* Left out: a table without script, whose uploads are dropped and logged; *)
(* XACK, which a client treats like NACK; a lack of memory; a ROLLBACK of  *)
(* UploadOK that fails; a crash of the server.  Deletions that come in are *)
(* applied; the sample's own handler of them is not.                       *)
(*                                                                         *)
(* Three circumstances that the code does not exclude break its promises   *)
(* and are left out unless Faults names them:                              *)
(*   "handoff"   a second connection is accepted before the thread of the  *)
(*               first has read the global variable param                  *)
(*   "versions"  a database that shows readers the last committed version  *)
(*               of a row instead of letting them wait                     *)
(*   "early"     a client without msync table (USE_MSYNC_TABLE), which     *)
(*               marks rows as synchronised when it has sent them          *)
(***************************************************************************)
EXTENDS Integers, Sequences, FiniteSets

LOCAL INSTANCE Relation

CONSTANTS
    Clients,      \* devices, each of its own user
    Rows,         \* rows of the synchronised tables
    Dsns,         \* number of data sources a client synchronises, in order
    DsnOf,        \* the data source of a row
    Modes,        \* synchronisation modes in use: ALL_SYNC, MOD_SYNC
    Answers,      \* answers to AuthRequest that are possible
    MaxConn,      \* bound on connections
    MaxTime,      \* bound on the clock of the database server
    MaxFail,      \* bound on failures of clients, network and database
    Changes,      \* changes the applications make, each at most once
    Window,       \* bound on the messages under way in one direction
    Faults        \* circumstances that are not excluded, see above

ASSUME SyncAssumption ==
    /\ Dsns \in Nat \ {0} /\ DsnOf \in [Rows -> 1..Dsns]
    /\ Modes \subseteq {"ALL_SYNC", "MOD_SYNC"}
    /\ Answers \subseteq {"ACK", "NACK", "UPGRADE"}
    /\ Changes \subseteq [by : Clients, row : Rows, del : BOOLEAN]
    /\ MaxConn \in Nat \ {0} /\ MaxTime \in Nat \ {0} /\ Window \in Nat \ {0}
    /\ MaxFail \in Nat
    /\ Faults \subseteq {"handoff", "versions", "early"}

VARIABLES
    now,          \* getdate() of the database server
    rows,         \* committed rows: version and mTime
    user,         \* openMSYNC_User: ConnectionFlag, DBSyncTime; history: was
                  \* the UPDATE at the end of the last session refused?
    fails,        \* failures so far
    param,        \* the global variable of ProcessMain
    thr,          \* threads: state, NETWORK_PARAMETER, ODBC_PARAMETER
    txn,          \* the rows each has written and not committed
    conn,         \* connections, numbered as their threads
    toSrv, toCli, \* messages under way on each
    cli,          \* state of the client programs, PARAMETER
    local,        \* version each client has of a row
    changed,      \* rows in the log of its msync table
    made,         \* changes it has made
    sent,         \* history: the upload sent on a connection
    kept          \* history: what has been committed of it

server == <<rows, user, thr, txn, kept>>
client == <<cli, local, changed, made, sent>>
net == <<conn, toSrv, toCli>>
vars == <<now, fails, param, server, client, net>>

Conns == 1..MaxConn
Nobody == 0
Never == MaxTime + 1
NoRow == [mTime |-> 0]

Original(r) == [by |-> Nobody, row |-> r, del |-> FALSE]
Version == Changes \cup {Original(r) : r \in Rows}
Stored == [ver : Version, mTime : 0..MaxTime]
RowsOf(d) == {r \in Rows : DsnOf[r] = d}
NoThread == [pc |-> "none", sock |-> 0, who |-> Nobody, auth |-> FALSE, open |-> 0,
             connectTime |-> Never, lastSyncTime |-> 0, syncFlag |-> "none",
             ended |-> FALSE]

Init ==
    /\ now = 1 /\ fails = 0 /\ param = 0
    /\ rows = [r \in Rows |-> [ver |-> Original(r), mTime |-> 0]]
    /\ user = [c \in Clients |-> [flag |-> "DISCONNECT", time |-> 0, lost |-> FALSE]]
    /\ thr = [k \in Conns |-> NoThread]
    /\ txn = [k \in Conns |-> [r \in Rows |-> NoRow]]
    /\ conn = [k \in Conns |-> "none"]
    /\ toSrv = [k \in Conns |-> <<>>] /\ toCli = [k \in Conns |-> <<>>]
    /\ cli = [c \in Clients |-> [pc |-> "off", conn |-> 0, dsn |-> 1, up |-> {}]]
    /\ local = [c \in Clients |-> [r \in Rows |-> Original(r)]]
    /\ changed = [c \in Clients |-> {}]
    /\ made = {}
    /\ sent = [k \in Conns |-> {}] /\ kept = [k \in Conns |-> {}]

(* Something fails, or nothing does. *)
Fail == fails < MaxFail /\ fails' = fails + 1
Works == UNCHANGED fails

(* The clock of the database server is read: time has passed, or not. *)
ReadClock == now' \in now..MaxTime

----------------------------------------------------------------------------
(* The client program *)

(* A message goes to the server, if the connection still stands. *)
Send(c, m) ==
    LET s == cli[c].conn IN
    /\ conn[s] = "open" /\ Len(toSrv[s]) < Window
    /\ toSrv' = [toSrv EXCEPT ![s] = Append(@, m)]
    /\ UNCHANGED <<conn, toCli>>

(* A message has come: f is its flag. *)
Got(c, f) == toCli[cli[c].conn] # <<>> /\ Head(toCli[cli[c].conn])[1] = f
Take(c) ==
    /\ toCli' = [toCli EXCEPT ![cli[c].conn] = Tail(@)]
    /\ UNCHANGED <<conn, toSrv>>

(* The client program goes on in state pc. *)
Goto(c, pc) == cli' = [cli EXCEPT ![c].pc = pc]

(* The application inserts, updates or deletes a row between synchronisations. *)
Change(c, v) ==
    /\ cli[c].pc = "off" /\ v.by = c /\ v \notin made
    /\ made' = made \cup {v}
    /\ local' = [local EXCEPT ![c][v.row] = v]
    /\ changed' = [changed EXCEPT ![c] = @ \cup {v.row}]
    /\ UNCHANGED <<now, fails, param, server, cli, sent, net>>

(* mSync_ConnectToSyncServer and the request of mSync_AuthRequest; the      *)
(* server accepts (ProcessMain) and gives a thread the address of param.    *)
Connect(c, s) ==
    /\ cli[c].pc = "off"
    /\ conn[s] = "none" /\ \A k \in 1..(s - 1) : conn[k] # "none"
    /\ "handoff" \in Faults \/ \A k \in Conns : thr[k].pc # "start"
    /\ param' = s /\ thr' = [thr EXCEPT ![s].pc = "start"]
    /\ conn' = [conn EXCEPT ![s] = "open"]
    /\ toSrv' = [toSrv EXCEPT ![s] = <<<<"AUTH", c>>>>]
    /\ cli' = [cli EXCEPT ![c] = [pc |-> "ack", conn |-> s, dsn |-> 1, up |-> {}]]
    /\ UNCHANGED <<now, fails, rows, user, txn, kept, toCli, local, changed, made, sent>>

Disconnected(c) ==
    LET s == cli[c].conn IN
    /\ cli' = [cli EXCEPT ![c] = [pc |-> "off", conn |-> 0, dsn |-> 1, up |-> {}]]
    /\ conn' = [conn EXCEPT ![s] = IF @ = "open" THEN "left" ELSE @]
    /\ toCli' = [toCli EXCEPT ![s] = <<>>]
    /\ UNCHANGED toSrv

(* The answer to mSync_AuthRequest: refused, the program disconnects. *)
AuthAnswer(c) ==
    /\ cli[c].pc = "ack"
    /\ \/ Got(c, "ACK") /\ Take(c) /\ Goto(c, "dsn")
       \/ Got(c, "NACK") /\ Disconnected(c)
       \/ Got(c, "UPGRADE") /\ Take(c) /\ Goto(c, "quit")
    /\ UNCHANGED <<now, fails, param, server, local, changed, made, sent>>

SendDSN(c) ==
    /\ cli[c].pc = "dsn" /\ Send(c, <<"S", cli[c].dsn>>) /\ Goto(c, "table")
    /\ UNCHANGED <<now, fails, param, server, local, changed, made, sent>>

SendTableName(c, m) ==
    /\ cli[c].pc = "table" /\ Send(c, <<"M", m>>)
    /\ cli' = [cli EXCEPT ![c].pc = "upload",
                          ![c].up = changed[c] \cap RowsOf(cli[c].dsn)]
    /\ UNCHANGED <<now, fails, param, server, local, changed, made, sent>>

(* mSync_SendUploadData; Upload_contact marks the rows when all are sent *)
SendUploadData(c, r) ==
    /\ cli[c].pc = "upload" /\ r \in cli[c].up
    /\ Send(c, <<"U", local[c][r]>>)
    /\ cli' = [cli EXCEPT ![c].up = @ \ {r}]
    /\ sent' = [sent EXCEPT ![cli[c].conn] = @ \cup {local[c][r]}]
    /\ changed' = IF "early" \in Faults /\ cli[c].up = {r}
                  THEN [changed EXCEPT ![c] = @ \ RowsOf(cli[c].dsn)] ELSE changed
    /\ UNCHANGED <<now, fails, param, server, local, made>>

SendUploadOK(c) ==
    /\ cli[c].pc = "upload" /\ cli[c].up = {} /\ Send(c, <<"E">>) /\ Goto(c, "ok")
    /\ UNCHANGED <<now, fails, param, server, local, changed, made, sent>>

ReceiveOK(c) ==
    /\ cli[c].pc = "ok" /\ Got(c, "K") /\ Take(c) /\ Goto(c, "select")
    /\ UNCHANGED <<now, fails, param, server, local, changed, made, sent>>

(* mSync_ReceiveDownloadData: the rows are stored as SYNCED_RECORD *)
ReceiveRows(c) ==
    /\ \/ cli[c].pc = "select" /\ Got(c, "F")
       \/ cli[c].pc = "delete" /\ Got(c, "R")
    /\ LET new == Head(toCli[cli[c].conn])[2] IN
       /\ local' = [local EXCEPT ![c] = [r \in Rows |-> IF r \in DOMAIN new THEN new[r] ELSE @[r]]]
       /\ changed' = [changed EXCEPT ![c] = @ \ DOMAIN new]
    /\ Take(c)
    /\ UNCHANGED <<now, fails, param, server, cli, made, sent>>

ReceiveEnd(c) ==
    /\ cli[c].pc = "select" /\ Got(c, "E") /\ Take(c) /\ Goto(c, "delete")
    /\ UNCHANGED <<now, fails, param, server, local, changed, made, sent>>

(* "alter table contact msync flush": the uploaded changes are settled *)
Flush(c) == changed' = [changed EXCEPT ![c] = @ \ RowsOf(cli[c].dsn)]

\* Mutant: the data sources are counted from 0.
ReceiveDeleteEndOnceMore(c) ==
    /\ cli[c].pc = "delete" /\ Got(c, "E") /\ Take(c) /\ Flush(c)
    /\ cli' = [cli EXCEPT ![c].pc = IF cli[c].dsn <= Dsns THEN "dsn" ELSE "quit",
                          ![c].dsn = IF @ <= Dsns THEN @ + 1 ELSE @]
    /\ UNCHANGED <<now, fails, param, server, local, made, sent>>

(* The end of both downloads: the next data source, or the end *)
ReceiveDeleteEnd(c) ==
    /\ cli[c].pc = "delete" /\ Got(c, "E") /\ Take(c) /\ Flush(c)
    /\ cli' = [cli EXCEPT ![c].pc = IF cli[c].dsn < Dsns THEN "dsn" ELSE "quit",
                          ![c].dsn = IF @ < Dsns THEN @ + 1 ELSE @]
    /\ UNCHANGED <<now, fails, param, server, local, made, sent>>

(* mSync_Disconnect(NORMAL) asks the server to end and waits for the answer. *)
Quit(c) ==
    /\ cli[c].pc = "quit" /\ Send(c, <<"A">>) /\ Goto(c, "bye")
    /\ UNCHANGED <<now, fails, param, server, local, changed, made, sent>>

Bye(c) ==
    /\ cli[c].pc = "bye" /\ Got(c, "T") /\ Disconnected(c)
    /\ UNCHANGED <<now, fails, param, server, local, changed, made, sent>>

(* A time-out, an error of the local database or a crash of the client ends *)
(* the session: mSync_Disconnect(ABNORMAL).  An error while deletions come  *)
(* in still flushes the log of changes.                                     *)
GiveUp(c) ==
    /\ cli[c].pc # "off" /\ Disconnected(c)
    /\ IF conn[cli[c].conn] = "open" THEN Fail ELSE Works
    /\ \/ UNCHANGED changed
       \/ cli[c].pc = "delete" /\ Flush(c)
    /\ UNCHANGED <<now, param, server, local, made, sent>>

----------------------------------------------------------------------------
(* The server *)

(* win_ProcessThread reads param; InitializeParameter *)
InitializeParameter(k) ==
    /\ thr[k].pc = "start"
    /\ thr' = [thr EXCEPT ![k].pc = "auth", ![k].sock = param]
    /\ UNCHANGED <<now, fails, param, rows, user, txn, kept, client, net>>

(* ReadFrNet: a message with flag f is there to be read in state pc. *)
Reads(k, pc, f) ==
    /\ thr[k].pc = pc /\ toSrv[thr[k].sock] # <<>>
    /\ Head(toSrv[thr[k].sock])[1] = f
Body(k) == Head(toSrv[thr[k].sock])[2]
Consume(k) == toSrv' = [toSrv EXCEPT ![thr[k].sock] = Tail(@)]

(* WriteToNet: what goes to a client that has left is not read any more. *)
Write(k, ms) ==
    IF conn[thr[k].sock] = "open"
    THEN /\ Len(toCli[thr[k].sock]) < Window
         /\ toCli' = [toCli EXCEPT ![thr[k].sock] = @ \o ms]
    ELSE UNCHANGED toCli

(* AuthenticateUser, then the answer *)
AuthenticateUser(k, a) ==
    /\ Reads(k, "auth", "AUTH") /\ Consume(k) /\ Write(k, <<<<a>>>>)
    /\ LET c == Body(k) IN
       IF a = "ACK"
       THEN /\ thr' = [thr EXCEPT ![k] = [@ EXCEPT !.pc = "flag", !.who = c, !.auth = TRUE,
                                                   !.lastSyncTime = user[c].time]]
            /\ user' = [user EXCEPT ![c].flag = "CONNECT", ![c].lost = FALSE]
       ELSE thr' = [thr EXCEPT ![k].pc = "flag", ![k].who = c] /\ UNCHANGED user
    /\ UNCHANGED <<now, fails, param, rows, txn, kept, conn, client>>

(* ... or the system database fails: -1, and no answer *)
AuthenticateFails(k) ==
    /\ Reads(k, "auth", "AUTH") /\ Consume(k) /\ Fail
    /\ thr' = [thr EXCEPT ![k].pc = "error", ![k].who = Body(k)]
    /\ UNCHANGED <<now, param, rows, user, txn, kept, toCli, conn, client>>

(* SQLEndTran(SQL_COMMIT): the rows that thread k has written are there. *)
Written(k) == {r \in Rows : txn[k][r] # NoRow}
CommitTran(k) ==
    /\ rows' = [r \in Rows |-> IF r \in Written(k) THEN txn[k][r] ELSE rows[r]]
    /\ txn' = [txn EXCEPT ![k] = [r \in Rows |-> NoRow]]
    /\ kept' = [kept EXCEPT ![k] = @ \cup {txn[k][r].ver : r \in Written(k)}]
Rollback(k) ==
    /\ txn' = [txn EXCEPT ![k] = [r \in Rows |-> NoRow]]
    /\ UNCHANGED <<rows, kept>>

(* GetDBConnectTime keeps the earliest of the times of the data sources. *)
GetDBConnectTime(k) == IF thr[k].connectTime > now' THEN now' ELSE thr[k].connectTime

(* SetApplication: FreeHandles commits what is open, GetDSN, OpenUserDB *)
SetApplication(k) ==
    /\ Reads(k, "flag", "S") /\ Consume(k)
    /\ CommitTran(k)
    /\ \/ /\ ReadClock
          /\ thr' = [thr EXCEPT ![k] = [@ EXCEPT !.open = Body(k), !.ended = FALSE,
                                                 !.connectTime = GetDBConnectTime(k)]]
          /\ Works
       \/ thr' = [thr EXCEPT ![k].pc = "error", ![k].open = 0]
          /\ UNCHANGED now /\ Fail
    /\ UNCHANGED <<param, user, toCli, conn, client>>

SetTableName(k) ==
    /\ Reads(k, "flag", "M") /\ Consume(k)
    /\ thr' = [thr EXCEPT ![k].syncFlag = Body(k)]
    /\ UNCHANGED <<now, fails, param, rows, user, txn, kept, toCli, conn, client>>

(* The threads whose transactions have written row r *)
Holders(k, r) == {l \in Conns \ {k} : txn[l][r] # NoRow}

(* Waits for another transaction, in a circle: the database fails one. *)
WaitsFor(k, l) == Reads(k, "flag", "U") /\ l \in Holders(k, Body(k).row)
Deadlocked(k) ==
    TransitiveClosure([x, y \in Conns |-> WaitsFor(x, y)], Conns)[k, k]

\* Mutant: a record that the database refuses is skipped.
ProcessScriptSkips(k) ==
    /\ Reads(k, "flag", "U") /\ Consume(k)
    /\ LET r == Body(k).row IN
       \/ /\ Holders(k, r) = {} /\ ReadClock
          /\ txn' = [txn EXCEPT ![k][r] = [ver |-> Body(k), mTime |-> now']]
          /\ Works
       \/ /\ \/ Holders(k, r) = {} /\ Fail
             \/ Deadlocked(k) /\ Works
          /\ UNCHANGED <<now, txn>>
    /\ UNCHANGED <<param, thr, rows, user, kept, toCli, conn, client>>

(* ProcessScript, ProcessStmt: the record is written, or the statement fails. *)
ProcessScript(k) ==
    /\ Reads(k, "flag", "U") /\ Consume(k)
    /\ LET r == Body(k).row IN
       \/ /\ Holders(k, r) = {} /\ thr[k].open # 0 /\ ReadClock
          /\ txn' = [txn EXCEPT ![k][r] = [ver |-> Body(k), mTime |-> now']]
          /\ Works /\ UNCHANGED thr
       \/ /\ \/ Holders(k, r) = {} /\ Fail
             \/ Deadlocked(k) /\ Works
          /\ thr' = [thr EXCEPT ![k].pc = "error"]
          /\ UNCHANGED <<now, txn>>
    /\ UNCHANGED <<param, rows, user, kept, toCli, conn, client>>

(* UploadOK: OK_FLAG is written before the commit; without a client to read *)
(* it, or when the rest of the message does not come before the time-out,   *)
(* the upload is rolled back.                                               *)
UploadOK(k) ==
    /\ Reads(k, "flag", "E") /\ Consume(k)
    /\ \/ /\ Write(k, <<<<"K">>>>)
          /\ thr' = [thr EXCEPT ![k].pc = "commit", ![k].ended = TRUE]
          /\ Works /\ UNCHANGED <<rows, txn, kept>>
       \/ /\ IF conn[thr[k].sock] = "open" THEN Fail ELSE Works
          /\ Rollback(k)
          /\ thr' = [thr EXCEPT ![k].pc = "error", ![k].ended = TRUE]
          /\ UNCHANGED toCli
    /\ UNCHANGED <<now, param, user, conn, client>>

\* Mutant: the result of the commit is not tested.
UploadCommitUntested(k) ==
    /\ thr[k].pc = "commit"
    /\ thr' = [thr EXCEPT ![k].pc = "select"]
    /\ \/ CommitTran(k) /\ Works
       \/ Rollback(k) /\ Fail
    /\ UNCHANGED <<now, param, user, net, client>>

(* ... and its commit, which may fail *)
UploadCommit(k) ==
    /\ thr[k].pc = "commit"
    /\ \/ CommitTran(k) /\ thr' = [thr EXCEPT ![k].pc = "select"] /\ Works
       \/ UNCHANGED <<rows, txn, kept>> /\ thr' = [thr EXCEPT ![k].pc = "error"] /\ Fail
    /\ UNCHANGED <<now, param, user, net, client>>

(* The value of the parameter of the download scripts: GetSyncTime *)
SyncTime(k) == IF thr[k].syncFlag = "ALL_SYNC" THEN 0 ELSE thr[k].lastSyncTime

(* A SELECT waits for the transaction that has written the row. *)
Readable(k, r) == "versions" \in Faults \/ Holders(k, r) = {}

(* What the download script selects, and the message with some of the rows *)
News(k, del) ==
    {r \in RowsOf(thr[k].open) : rows[r].mTime >= SyncTime(k) /\ rows[r].ver.del = del}
Records(part, del) == <<IF del THEN "R" ELSE "F", [r \in part |-> rows[r].ver]>>

(* DownloadProcessingMain with the script of DOWNLOAD_FLAG, then with that  *)
(* of DOWNLOAD_DELETE_FLAG                                                   *)
Download(k, del) ==
    /\ thr[k].pc = (IF del THEN "delete" ELSE "select")
    /\ \A r \in RowsOf(thr[k].open) : Readable(k, r)
    /\ LET new == News(k, del)
       IN Write(k, IF new = {} THEN <<<<"E">>>> ELSE <<Records(new, del), <<"E">>>>)
    /\ thr' = [thr EXCEPT ![k].pc = IF del THEN "flag" ELSE "delete"]
    /\ UNCHANGED <<now, fails, param, rows, user, txn, kept, toSrv, conn, client>>

(* ... or its statement fails, when some of the rows may have been sent *)
DownloadFails(k, del) ==
    /\ thr[k].pc = (IF del THEN "delete" ELSE "select") /\ Fail
    /\ \/ UNCHANGED toCli
       \/ \E part \in SUBSET {r \in News(k, del) : Readable(k, r)} :
              part # {} /\ Write(k, <<Records(part, del)>>)
    /\ thr' = [thr EXCEPT ![k].pc = "error"]
    /\ UNCHANGED <<now, param, rows, user, txn, kept, toSrv, conn, client>>

(* ReceiveFlag reads ACK_FLAG: END_OF_TRANSACTION, and the session ends. *)
EndSession(k) ==
    /\ Reads(k, "flag", "A") /\ Consume(k) /\ Write(k, <<<<"T">>>>)
    /\ thr' = [thr EXCEPT ![k].pc = "end"]
    /\ UNCHANGED <<now, fails, param, rows, user, txn, kept, conn, client>>

(* Nothing comes before the time-out, or the client has left: -1.  While    *)
(* downloading, only a client that has left makes WriteToNet fail.          *)
Timeout(k) == thr[k].pc \in {"auth", "flag"} /\ toSrv[thr[k].sock] = <<>>
Broken(k) ==
    thr[k].pc \in {"auth", "flag", "select", "delete"} /\ conn[thr[k].sock] # "open"
NetworkError(k) ==
    /\ \/ Broken(k) /\ Works
       \/ Timeout(k) /\ ~Broken(k) /\ Fail
    /\ thr' = [thr EXCEPT ![k].pc = "error"]
    /\ UNCHANGED <<now, param, rows, user, txn, kept, net, client>>

\* Mutant: a session that failed also sets DBSyncTime.
UpdateConnectFlagAlways(k) ==
    /\ thr[k].pc \in {"end", "error"}
    /\ user' = IF ~thr[k].auth THEN user
               ELSE [user EXCEPT ![thr[k].who] =
                        [flag |-> "DISCONNECT", lost |-> FALSE,
                         time |-> IF thr[k].syncFlag # "none" /\ thr[k].connectTime # Never
                                  THEN thr[k].connectTime ELSE @.time]]
    /\ thr' = [thr EXCEPT ![k].pc = "free"]
    /\ UNCHANGED <<now, fails, param, rows, txn, kept, net, client>>

\* Mutant: only a session that opened a database resets the flag.
UpdateConnectFlagOpened(k) ==
    /\ thr[k].pc \in {"end", "error"}
    /\ user' = IF thr[k].open = 0 THEN user
               ELSE [user EXCEPT ![thr[k].who].flag = "DISCONNECT"]
    /\ thr' = [thr EXCEPT ![k].pc = "free"]
    /\ UNCHANGED <<now, fails, param, rows, txn, kept, net, client>>

(* The end of ProcessThread: UpdateConnectFlag; only a session that did not *)
(* fail and synchronised a database sets DBSyncTime.  When the database     *)
(* refuses the UPDATE, the row stays as it is and the thread goes on.       *)
UpdateConnectFlag(k) ==
    /\ thr[k].pc \in {"end", "error"}
    /\ \/ ~thr[k].auth /\ Works /\ UNCHANGED user
       \/ /\ thr[k].auth /\ Works
          /\ user' = [user EXCEPT ![thr[k].who] =
                         [flag |-> IF thr[k].pc = "end" THEN "DISCONNECT" ELSE "DISCONNECT_ERROR",
                          time |-> IF /\ thr[k].pc = "end" /\ thr[k].syncFlag # "none"
                                      /\ thr[k].connectTime # Never
                                   THEN thr[k].connectTime ELSE @.time,
                          lost |-> FALSE]]
       \/ /\ thr[k].auth /\ Fail
          /\ user' = [user EXCEPT ![thr[k].who].lost = TRUE]
    /\ thr' = [thr EXCEPT ![k].pc = "free"]
    /\ UNCHANGED <<now, param, rows, txn, kept, net, client>>

(* ... FreeHandles, which commits whatever the session left, and closesocket *)
FreeHandles(k) ==
    /\ thr[k].pc = "free"
    /\ \/ CommitTran(k) /\ Works
       \/ Written(k) # {} /\ Rollback(k) /\ Fail
    /\ thr' = [thr EXCEPT ![k] = [NoThread EXCEPT !.pc = "done", !.ended = thr[k].ended]]
    /\ conn' = [conn EXCEPT ![thr[k].sock] = "closed"]
    /\ toSrv' = [toSrv EXCEPT ![thr[k].sock] = <<>>]
    /\ UNCHANGED <<now, param, user, toCli, client>>

----------------------------------------------------------------------------
ClientStep(c) ==
    \/ \E v \in Changes : Change(c, v)
    \/ \E s \in Conns : Connect(c, s)
    \/ AuthAnswer(c)
    \/ SendDSN(c)
    \/ \E m \in Modes : SendTableName(c, m)
    \/ \E r \in Rows : SendUploadData(c, r)
    \/ SendUploadOK(c)
    \/ ReceiveOK(c)
    \/ ReceiveRows(c)
    \/ ReceiveEnd(c)
    \/ ReceiveDeleteEnd(c)
    \/ Quit(c)
    \/ Bye(c)
    \/ GiveUp(c)

Serve(k) ==
    \/ InitializeParameter(k)
    \/ \E a \in Answers : AuthenticateUser(k, a)
    \/ AuthenticateFails(k)
    \/ SetApplication(k)
    \/ SetTableName(k)
    \/ ProcessScript(k)
    \/ UploadOK(k)
    \/ UploadCommit(k)
    \/ \E del \in BOOLEAN : Download(k, del)
    \/ \E del \in BOOLEAN : DownloadFails(k, del)
    \/ EndSession(k)
    \/ NetworkError(k)
    \/ UpdateConnectFlag(k)
    \/ FreeHandles(k)

Next ==
    \/ \E c \in Clients : ClientStep(c)
    \/ \E k \in Conns : Serve(k)

Spec == Init /\ [][Next]_vars

----------------------------------------------------------------------------
(* The variables have their types. *)
TypeOK ==
    /\ now \in 1..MaxTime /\ param \in 0..MaxConn
    /\ rows \in [Rows -> Stored]
    /\ user \in [Clients -> [flag : {"CONNECT", "DISCONNECT", "DISCONNECT_ERROR"},
                             time : 0..MaxTime, lost : BOOLEAN]]
    /\ \A k \in Conns :
        /\ thr[k].pc \in {"none", "start", "auth", "flag", "commit", "select", "delete",
                          "end", "error", "free", "done"}
        /\ thr[k].open \in 0..Dsns /\ thr[k].who \in Clients \cup {Nobody}
        /\ thr[k].connectTime \in 1..Never /\ thr[k].lastSyncTime \in 0..MaxTime
        /\ \A r \in Rows : txn[k][r] = NoRow \/ txn[k][r] \in Stored
        /\ conn[k] \in {"none", "open", "left", "closed"}
        /\ Len(toSrv[k]) <= Window
    /\ \A c \in Clients :
        /\ cli[c].conn \in 0..MaxConn /\ cli[c].up \subseteq Rows
        /\ local[c] \in [Rows -> Version] /\ changed[c] \subseteq Rows
    /\ made \subseteq Changes

(* A client that has not got the committed version of a row, and has not    *)
(* changed the row itself, will get it: the row was stamped no earlier than *)
(* the DBSyncTime from which its next MOD_SYNC downloads.  (connectTime is  *)
(* read before the download, kept minimal, and stored only at a normal end.)*)
NothingMissed ==
    \A c \in Clients, r \in Rows :
        local[c][r] # rows[r].ver /\ r \notin changed[c]
            => rows[r].mTime >= user[c].time

(* A change leaves the change log of a client only when the session has     *)
(* committed it, although OK_FLAG is sent before the commit and the commit  *)
(* may fail.                                                                *)
ChangesKept ==
    [][\A c \in Clients : \A r \in changed[c] \ changed'[c] :
            local[c][r] \in kept[cli[c].conn]]_vars

In(d, upload) == {u \in upload : DsnOf[u.row] = d}

(* Once the server has read END_FLAG, an upload is committed as a whole or  *)
(* not at all, whatever fails afterwards.                                   *)
UploadWhole ==
    \A k \in Conns :
        thr[k].ended =>
            \A d \in 1..Dsns : In(d, kept[k]) = {} \/ In(d, kept[k]) = In(d, sent[k])

(* A user whose ConnectionFlag says CONNECT has a session that the server   *)
(* is still serving, unless the database refused the UPDATE at the end of   *)
(* the last session to end: however a session ends, by the network, the     *)
(* client or its own database, it leaves no user marked as connected, and a *)
(* later session of the user takes a mark that was left away.               *)
ConnectedIsServed ==
    \A c \in Clients :
        user[c].flag = "CONNECT" =>
            \/ user[c].lost
            \/ \E k \in Conns : thr[k].who = c /\ thr[k].auth
=============================================================================
