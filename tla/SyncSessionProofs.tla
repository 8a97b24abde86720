-------------------------- MODULE SyncSessionProofs --------------------------
(***************************************************************************)
(* For every number of clients, rows, data sources and connections: what   *)
(* SyncSession keeps in its sessions.                                      *)
(*                                                                         *)
(* The types of messages and threads, and that a user marked as connected  *)
(* has a session or an UPDATE that was refused, hold whatever Faults       *)
(* allows. That an upload is kept as a whole or not at all, and that a     *)
(* device forgets a change only when it has been committed, need that each *)
(* thread reads its own socket, so "handoff" is excluded; the latter also  *)
(* excludes "early". Both follow from an invariant that says, for a client *)
(* and its connection, which messages may be under way in which states of  *)
(* the client and of the thread (SessionsInv).                             *)
(***************************************************************************)
EXTENDS SyncSession, SequenceTheorems, TLAPS

\* The messages of clients and the answers of the server.
Request ==
    ({"AUTH"} \X Clients) \cup ({"S"} \X (1..Dsns)) \cup ({"M"} \X Modes) \cup ({"U"} \X Version)
    \cup {<<"E">>, <<"A">>}
Selection == UNION {[S -> Version] : S \in SUBSET Rows}
Answer ==
    ({"F", "R"} \X Selection) \cup {<<a>> : a \in Answers} \cup {<<"K">>, <<"E">>, <<"T">>}

Working == {"auth", "flag", "commit", "select", "delete", "end", "error", "free"}
Thread ==
    [pc : {"none", "start", "done"} \cup Working, sock : 0..MaxConn, who : Clients \cup {Nobody},
     auth : BOOLEAN, open : 0..Dsns, connectTime : 1..Never, lastSyncTime : 0..MaxTime,
     syncFlag : Modes \cup {"none"}, ended : BOOLEAN]
User == [flag : {"CONNECT", "DISCONNECT", "DISCONNECT_ERROR"}, time : 0..MaxTime, lost : BOOLEAN]
Program ==
    [pc : {"off", "ack", "dsn", "table", "upload", "ok", "select", "delete", "quit", "bye"},
     conn : 0..MaxConn, dsn : 1..Dsns, up : SUBSET Rows]

DataInv ==
    /\ now \in 1..MaxTime
    /\ rows \in [Rows -> Stored] /\ txn \in [Conns -> [Rows -> Stored \cup {NoRow}]]
    /\ user \in [Clients -> User]
    /\ local \in [Clients -> [Rows -> Version]] /\ changed \in [Clients -> SUBSET Rows]
    /\ made \subseteq Changes
    /\ sent \in [Conns -> SUBSET Version] /\ kept \in [Conns -> SUBSET Version]
ThreadInv ==
    /\ param \in 0..MaxConn
    /\ thr \in [Conns -> Thread]
    /\ \A k \in Conns : /\ thr[k].pc = "start" => param \in Conns
                        /\ thr[k].pc \in Working => thr[k].sock \in Conns
ClientInv ==
    /\ cli \in [Clients -> Program]
    /\ \A c \in Clients : cli[c].pc # "off" => cli[c].conn \in Conns
NetInv ==
    /\ conn \in [Conns -> {"none", "open", "left", "closed"}]
    /\ toSrv \in [Conns -> Seq(Request)] /\ toCli \in [Conns -> Seq(Answer)]
    /\ \A k \in Conns : Len(toSrv[k]) <= Window
Inv == DataInv /\ ThreadInv /\ ClientInv /\ NetInv

LEMMA OneIsOne == \A m : Len(<<m>>) = 1
OBVIOUS

LEMMA Started == Init => Inv
<1> SUFFICES ASSUME Init PROVE Inv
  OBVIOUS
<1> USE SyncAssumption DEF Init
<1>1. DataInv
  BY DEF DataInv, Stored, Version, Conns, User
<1>2. ThreadInv
  BY DEF ThreadInv, Thread, NoThread, Never, Conns, Working
<1>3. ClientInv
  BY DEF ClientInv, Program
<1>4. NetInv
  BY EmptySeq DEF NetInv
<1> QED
  BY <1>1, <1>2, <1>3, <1>4 DEF Inv

LEMMA RequestFields ==
    ASSUME NEW m \in Request
    PROVE  /\ m[1] = "AUTH" => m[2] \in Clients
           /\ m[1] = "S" => m[2] \in 1..Dsns
           /\ m[1] = "M" => m[2] \in Modes
           /\ m[1] = "U" => m[2] \in Version
<1>1. CASE m \in {"AUTH"} \X Clients
  BY <1>1
<1>2. CASE m \in {"S"} \X (1..Dsns)
  BY <1>2
<1>3. CASE m \in {"M"} \X Modes
  BY <1>3
<1>4. CASE m \in {"U"} \X Version
  BY <1>4
<1>5. CASE m \in {<<"E">>, <<"A">>}
  BY <1>5
<1> QED
  BY <1>1, <1>2, <1>3, <1>4, <1>5 DEF Request

LEMMA AnswerFields ==
    ASSUME NEW m \in Answer, SyncAssumption
    PROVE  m[1] \in {"F", "R"} => m[2] \in Selection
BY DEF Answer

LEMMA QueueHead ==
    ASSUME NEW S, NEW q \in Seq(S), q # << >>
    PROVE  Head(q) \in S /\ Tail(q) \in Seq(S) /\ Len(Tail(q)) = Len(q) - 1 /\ Len(q) \in Nat
BY HeadTailProperties, LenProperties

LEMMA QueueAppend ==
    ASSUME NEW S, NEW q \in Seq(S), NEW m \in S
    PROVE  Append(q, m) \in Seq(S) /\ Len(Append(q, m)) = Len(q) + 1 /\ Len(q) \in Nat
BY AppendProperties, LenProperties

-----------------------------------------------------------------------------
(* The steps of the client keep the types *)

LEMMA SentOn ==
    ASSUME Inv, NEW c \in Clients, NEW m \in Request, cli[c].pc # "off", Send(c, m)
    PROVE  NetInv' /\ cli[c].conn \in Conns
<1> DEFINE s == cli[c].conn
<1>1. s \in Conns /\ toSrv[s] \in Seq(Request)
  BY DEF Inv, ClientInv, NetInv
<1>2. /\ Len(toSrv[s]) < Window /\ toSrv' = [toSrv EXCEPT ![s] = Append(@, m)]
      /\ UNCHANGED <<conn, toCli>>
  BY DEF Send
<1>3. /\ Append(toSrv[s], m) \in Seq(Request)
      /\ Len(Append(toSrv[s], m)) = Len(toSrv[s]) + 1 /\ Len(toSrv[s]) \in Nat
  BY <1>1, QueueAppend
<1> HIDE DEF s
<1>4. Len(Append(toSrv[s], m)) <= Window
  BY <1>2, <1>3, SyncAssumption
<1>5. toSrv' \in [Conns -> Seq(Request)] /\ \A k \in Conns : toSrv'[k] = IF k = s THEN Append(toSrv[s], m) ELSE toSrv[k]
  BY <1>1, <1>2, <1>3 DEF Inv, NetInv
<1>6. \A k \in Conns : Len(toSrv'[k]) <= Window
  BY <1>4, <1>5 DEF Inv, NetInv
<1> QED
  BY <1>1, <1>2, <1>5, <1>6 DEF Inv, NetInv, s

LEMMA TakenOff ==
    ASSUME Inv, NEW c \in Clients, cli[c].pc # "off", toCli[cli[c].conn] # << >>, Take(c)
    PROVE  NetInv'
<1> DEFINE s == cli[c].conn
<1>1. s \in Conns /\ toCli[s] \in Seq(Answer)
  BY DEF Inv, ClientInv, NetInv
<1>2. Tail(toCli[s]) \in Seq(Answer)
  BY <1>1, QueueHead
<1>3. toCli' = [toCli EXCEPT ![s] = Tail(toCli[s])] /\ UNCHANGED <<conn, toSrv>>
  BY DEF Take
<1> HIDE DEF s
<1> QED
  BY <1>1, <1>2, <1>3 DEF Inv, NetInv

LEMMA DisconnectedOn ==
    ASSUME Inv, NEW c \in Clients, cli[c].pc # "off", Disconnected(c)
    PROVE  NetInv' /\ ClientInv'
<1> DEFINE s == cli[c].conn
<1>1. s \in Conns
  BY DEF Inv, ClientInv
<1>2. /\ conn' = [conn EXCEPT ![s] = IF @ = "open" THEN "left" ELSE @]
      /\ toCli' = [toCli EXCEPT ![s] = << >>] /\ UNCHANGED toSrv
      /\ cli' = [cli EXCEPT ![c] = [pc |-> "off", conn |-> 0, dsn |-> 1, up |-> {}]]
  BY DEF Disconnected
<1>3. << >> \in Seq(Answer)
  BY EmptySeq
<1> HIDE DEF s
<1>4. NetInv'
  BY <1>1, <1>2, <1>3 DEF Inv, NetInv
<1>5. ClientInv'
  BY <1>2, SyncAssumption DEF Inv, ClientInv, Program
<1> QED
  BY <1>4, <1>5

LEMMA GoneTo ==
    ASSUME Inv, NEW c \in Clients, cli[c].pc # "off",
           NEW pc \in {"dsn", "table", "upload", "ok", "select", "delete", "quit", "bye"}, Goto(c, pc)
    PROVE  ClientInv'
BY DEF Goto, Inv, ClientInv, Program

LEMMA Received ==
    ASSUME Inv, NEW c \in Clients, cli[c].pc # "off", toCli[cli[c].conn] # << >>
    PROVE  Head(toCli[cli[c].conn]) \in Answer
<1>1. cli[c].conn \in Conns /\ toCli[cli[c].conn] \in Seq(Answer)
  BY DEF Inv, ClientInv, NetInv
<1> QED
  BY <1>1, QueueHead

LEMMA ClientSteps ==
    ASSUME Inv, NEW c \in Clients, ClientStep(c)
    PROVE  Inv'
<1>1. ASSUME NEW v \in Changes, Change(c, v) PROVE Inv'
  <2>1. v.row \in Rows /\ v \in Version
    BY SyncAssumption DEF Version
  <2>2. DataInv'
    BY <1>1, <2>1 DEF Change, server, Inv, DataInv
  <2>3. ThreadInv' /\ ClientInv' /\ NetInv'
    BY <1>1 DEF Change, server, net, Inv, ThreadInv, ClientInv, NetInv
  <2> QED
    BY <2>2, <2>3 DEF Inv
<1>2. ASSUME NEW s \in Conns, Connect(c, s) PROVE Inv'
  <2>1. DataInv'
    BY <1>2 DEF Connect, Inv, DataInv
  <2>2. ThreadInv'
    BY <1>2 DEF Connect, Inv, ThreadInv, Thread, Conns, Working
  <2>3. ClientInv'
    BY <1>2, SyncAssumption DEF Connect, Inv, ClientInv, Program, Conns
  <2>4. NetInv'
    <3>1. <<"AUTH", c>> \in Request
      BY DEF Request
    <3>2. <<<<"AUTH", c>>>> \in Seq(Request) /\ Len(<<<<"AUTH", c>>>>) = 1
      BY <3>1, OneIsOne
    <3> DEFINE q == <<<<"AUTH", c>>>>
    <3>3. toSrv' = [toSrv EXCEPT ![s] = q] /\ conn' = [conn EXCEPT ![s] = "open"] /\ UNCHANGED toCli
      BY <1>2 DEF Connect
    <3>4. Len(q) <= Window /\ q \in Seq(Request)
      BY <3>2, SyncAssumption
    <3> HIDE DEF q
    <3> QED
      BY <3>3, <3>4 DEF Inv, NetInv
  <2> QED
    BY <2>1, <2>2, <2>3, <2>4 DEF Inv
<1>3. CASE AuthAnswer(c)
  <2>1. DataInv' /\ ThreadInv'
    BY <1>3 DEF AuthAnswer, server, Inv, DataInv, ThreadInv
  <2>2. cli[c].pc # "off"
    BY <1>3 DEF AuthAnswer
  <2>3. ASSUME NEW f, NEW pc \in {"dsn", "quit"}, Got(c, f), Take(c), Goto(c, pc)
        PROVE  NetInv' /\ ClientInv'
    BY <2>2, <2>3, TakenOff, GoneTo DEF Got
  <2>4. NetInv' /\ ClientInv'
    BY <1>3, <2>2, <2>3, DisconnectedOn DEF AuthAnswer
  <2> QED
    BY <2>1, <2>4 DEF Inv
<1>4. CASE SendDSN(c)
  <2>1. DataInv' /\ ThreadInv'
    BY <1>4 DEF SendDSN, server, Inv, DataInv, ThreadInv
  <2>2. cli[c].pc # "off"
    BY <1>4 DEF SendDSN
  <2>3. NetInv'
    <3>1. <<"S", cli[c].dsn>> \in Request
      BY SyncAssumption DEF Request, Inv, ClientInv, Program
    <3> QED
      BY <1>4, <2>2, <3>1, SentOn DEF SendDSN
  <2>4. ClientInv'
    BY <1>4, <2>2, GoneTo DEF SendDSN
  <2> QED
    BY <2>1, <2>3, <2>4 DEF Inv
<1>5. ASSUME NEW m \in Modes, SendTableName(c, m) PROVE Inv'
  <2>1. DataInv' /\ ThreadInv'
    BY <1>5 DEF SendTableName, server, Inv, DataInv, ThreadInv
  <2>2. cli[c].pc # "off" /\ <<"M", m>> \in Request
    BY <1>5 DEF SendTableName, Request
  <2>3. NetInv'
    BY <1>5, <2>2, SentOn DEF SendTableName
  <2>4. ClientInv'
    BY <1>5 DEF SendTableName, Inv, DataInv, ClientInv, Program
  <2> QED
    BY <2>1, <2>3, <2>4 DEF Inv
<1>6. ASSUME NEW r \in Rows, SendUploadData(c, r) PROVE Inv'
  <2>1. cli[c].pc # "off" /\ local[c][r] \in Version
    BY <1>6 DEF SendUploadData, Inv, DataInv
  <2>2. <<"U", local[c][r]>> \in Request
    BY <2>1 DEF Request
  <2>3. NetInv' /\ cli[c].conn \in Conns
    BY <1>6, <2>1, <2>2, SentOn DEF SendUploadData
  <2>4. ThreadInv'
    BY <1>6 DEF SendUploadData, server, Inv, ThreadInv
  <2>5. DataInv'
    BY <1>6, <2>1, <2>3 DEF SendUploadData, server, Inv, DataInv
  <2>6. ClientInv'
    BY <1>6 DEF SendUploadData, Inv, ClientInv, Program
  <2> QED
    BY <2>3, <2>4, <2>5, <2>6 DEF Inv
<1>7. CASE SendUploadOK(c)
  <2>1. DataInv' /\ ThreadInv'
    BY <1>7 DEF SendUploadOK, server, Inv, DataInv, ThreadInv
  <2>2. cli[c].pc # "off"
    BY <1>7 DEF SendUploadOK
  <2>3. NetInv'
    <3>1. <<"E">> \in Request
      BY SyncAssumption DEF Request, Inv, ClientInv, Program
    <3> QED
      BY <1>7, <2>2, <3>1, SentOn DEF SendUploadOK
  <2>4. ClientInv'
    BY <1>7, <2>2, GoneTo DEF SendUploadOK
  <2> QED
    BY <2>1, <2>3, <2>4 DEF Inv
<1>8. CASE ReceiveOK(c)
  <2>1. DataInv' /\ ThreadInv'
    BY <1>8 DEF ReceiveOK, server, Inv, DataInv, ThreadInv
  <2>2. cli[c].pc # "off"
    BY <1>8 DEF ReceiveOK
  <2>3. NetInv'
    BY <1>8, <2>2, TakenOff DEF ReceiveOK, Got
  <2>4. ClientInv'
    BY <1>8, <2>2, GoneTo DEF ReceiveOK
  <2> QED
    BY <2>1, <2>3, <2>4 DEF Inv
<1>9. CASE ReceiveRows(c)
  <2>1. cli[c].pc # "off" /\ toCli[cli[c].conn] # << >> /\ Take(c)
    BY <1>9 DEF ReceiveRows, Got
  <2> DEFINE new == Head(toCli[cli[c].conn])[2]
  <2>2. new \in Selection
    BY <1>9, <2>1, Received, AnswerFields, SyncAssumption DEF ReceiveRows, Got
  <2>3. PICK S \in SUBSET Rows : new \in [S -> Version]
    BY <2>2 DEF Selection
  <2>4. [r \in Rows |-> IF r \in DOMAIN new THEN new[r] ELSE local[c][r]] \in [Rows -> Version]
    BY <2>3 DEF Inv, DataInv
  <2>5. /\ local' = [local EXCEPT ![c] = [r \in Rows |-> IF r \in DOMAIN new THEN new[r] ELSE @[r]]]
        /\ changed' = [changed EXCEPT ![c] = @ \ DOMAIN new]
        /\ UNCHANGED <<now, fails, param, server, cli, made, sent>>
    BY <1>9 DEF ReceiveRows
  <2> HIDE DEF new
  <2>6. DataInv'
    BY <2>4, <2>5 DEF server, Inv, DataInv
  <2>7. ThreadInv' /\ ClientInv'
    BY <2>5 DEF server, Inv, ThreadInv, ClientInv
  <2>8. NetInv'
    BY <2>1, TakenOff
  <2> QED
    BY <2>6, <2>7, <2>8 DEF Inv
<1>10. CASE ReceiveEnd(c)
  <2>1. DataInv' /\ ThreadInv'
    BY <1>10 DEF ReceiveEnd, server, Inv, DataInv, ThreadInv
  <2>2. cli[c].pc # "off"
    BY <1>10 DEF ReceiveEnd
  <2>3. NetInv'
    BY <1>10, <2>2, TakenOff DEF ReceiveEnd, Got
  <2>4. ClientInv'
    BY <1>10, <2>2, GoneTo DEF ReceiveEnd
  <2> QED
    BY <2>1, <2>3, <2>4 DEF Inv
<1>11. CASE ReceiveDeleteEnd(c)
  <2>1. DataInv' /\ ThreadInv'
    BY <1>11 DEF ReceiveDeleteEnd, Flush, server, Inv, DataInv, ThreadInv
  <2>2. cli[c].pc # "off"
    BY <1>11 DEF ReceiveDeleteEnd
  <2>3. NetInv'
    BY <1>11, <2>2, TakenOff DEF ReceiveDeleteEnd, Got
  <2>4. ClientInv'
    <3> DEFINE d == IF cli[c].dsn < Dsns THEN cli[c].dsn + 1 ELSE cli[c].dsn
               pc == IF cli[c].dsn < Dsns THEN "dsn" ELSE "quit"
    <3>1. cli[c].dsn \in 1..Dsns /\ cli[c] \in Program /\ cli[c].conn \in Conns
      BY <2>2 DEF Inv, ClientInv, Program
    <3>2. d \in 1..Dsns /\ pc \in {"dsn", "quit"}
      BY <3>1, SyncAssumption
    <3>3. cli' = [cli EXCEPT ![c].pc = pc, ![c].dsn = d]
      BY <1>11 DEF ReceiveDeleteEnd, Inv, ClientInv, Program
    <3> HIDE DEF d, pc
    <3> QED
      BY <3>1, <3>2, <3>3 DEF Inv, ClientInv, Program
  <2> QED
    BY <2>1, <2>3, <2>4 DEF Inv
<1>12. CASE Quit(c)
  <2>1. DataInv' /\ ThreadInv'
    BY <1>12 DEF Quit, server, Inv, DataInv, ThreadInv
  <2>2. cli[c].pc # "off"
    BY <1>12 DEF Quit
  <2>3. NetInv'
    <3>1. <<"A">> \in Request
      BY SyncAssumption DEF Request, Inv, ClientInv, Program
    <3> QED
      BY <1>12, <2>2, <3>1, SentOn DEF Quit
  <2>4. ClientInv'
    BY <1>12, <2>2, GoneTo DEF Quit
  <2> QED
    BY <2>1, <2>3, <2>4 DEF Inv
<1>13. CASE Bye(c)
  <2>1. DataInv' /\ ThreadInv'
    BY <1>13 DEF Bye, server, Inv, DataInv, ThreadInv
  <2>2. cli[c].pc # "off"
    BY <1>13 DEF Bye
  <2>3. NetInv'
    BY <1>13, <2>2, DisconnectedOn DEF Bye
  <2>4. ClientInv'
    BY <1>13, <2>2, DisconnectedOn DEF Bye
  <2> QED
    BY <2>1, <2>3, <2>4 DEF Inv
<1>14. CASE GiveUp(c)
  <2>1. DataInv' /\ ThreadInv'
    BY <1>14 DEF GiveUp, Flush, server, Inv, DataInv, ThreadInv
  <2>2. NetInv' /\ ClientInv'
    BY <1>14, DisconnectedOn DEF GiveUp
  <2> QED
    BY <2>1, <2>2 DEF Inv
<1> QED
  BY <1>1, <1>2, <1>3, <1>4, <1>5, <1>6, <1>7, <1>8, <1>9, <1>10, <1>11, <1>12, <1>13, <1>14 DEF ClientStep

-----------------------------------------------------------------------------
(* The steps of the server keep the types *)

LEMMA RequestRead ==
    ASSUME Inv, NEW k \in Conns, NEW pc \in Working, NEW f, Reads(k, pc, f)
    PROVE  /\ thr[k].sock \in Conns /\ thr[k].pc = pc /\ toSrv[thr[k].sock] # << >>
           /\ Head(toSrv[thr[k].sock]) \in Request /\ Head(toSrv[thr[k].sock])[1] = f
           /\ f = "AUTH" => Body(k) \in Clients
           /\ f = "S" => Body(k) \in 1..Dsns
           /\ f = "M" => Body(k) \in Modes
           /\ f = "U" => Body(k) \in Version
<1>1. thr[k].sock \in Conns /\ thr[k].pc = pc
  BY DEF Reads, Inv, ThreadInv
<1>2. toSrv[thr[k].sock] # << >> /\ toSrv[thr[k].sock] \in Seq(Request)
  BY <1>1 DEF Reads, Inv, NetInv
<1>3. Head(toSrv[thr[k].sock]) \in Request /\ Head(toSrv[thr[k].sock])[1] = f
  BY <1>2, QueueHead DEF Reads
<1> QED
  BY <1>1, <1>2, <1>3, RequestFields DEF Body

LEMMA ConsumedFrom ==
    ASSUME Inv, NEW k \in Conns, NEW pc \in Working, NEW f, Reads(k, pc, f), Consume(k)
    PROVE  toSrv' \in [Conns -> Seq(Request)] /\ \A l \in Conns : Len(toSrv'[l]) <= Window
<1> DEFINE s == thr[k].sock
           q == Tail(toSrv[s])
<1>1. s \in Conns /\ toSrv[s] # << >> /\ toSrv[s] \in Seq(Request)
  BY RequestRead DEF Inv, NetInv
<1>2. q \in Seq(Request) /\ Len(q) = Len(toSrv[s]) - 1 /\ Len(toSrv[s]) \in Nat
  BY <1>1, QueueHead
<1>3. toSrv' = [toSrv EXCEPT ![s] = q]
  BY DEF Consume
<1> HIDE DEF q, s
<1>4. Len(q) <= Window
  BY <1>1, <1>2, SyncAssumption DEF Inv, NetInv
<1> QED
  BY <1>1, <1>2, <1>3, <1>4 DEF Inv, NetInv

LEMMA WrittenTo ==
    ASSUME Inv, NEW k \in Conns, NEW ms \in Seq(Answer), thr[k].sock \in Conns, Write(k, ms)
    PROVE  toCli' \in [Conns -> Seq(Answer)]
<1>1. toCli[thr[k].sock] \o ms \in Seq(Answer)
  BY ConcatProperties DEF Inv, NetInv
<1> QED
  BY <1>1 DEF Write, Inv, NetInv

LEMMA CommittedWell ==
    ASSUME Inv, NEW k \in Conns, CommitTran(k) \/ Rollback(k) \/ UNCHANGED <<rows, txn, kept>>
    PROVE  /\ rows' \in [Rows -> Stored] /\ txn' \in [Conns -> [Rows -> Stored \cup {NoRow}]]
           /\ kept' \in [Conns -> SUBSET Version]
<1> USE DEF Inv, DataInv, Stored
<1>1. NoRow \in Stored \cup {NoRow}
  OBVIOUS
<1>2. [r \in Rows |-> NoRow] \in [Rows -> Stored \cup {NoRow}]
  OBVIOUS
<1>3. CASE CommitTran(k)
  <2>1. {txn[k][r].ver : r \in Written(k)} \subseteq Version
    BY DEF Written
  <2>2. kept' = [kept EXCEPT ![k] = @ \cup {txn[k][r].ver : r \in Written(k)}]
    BY <1>3 DEF CommitTran
  <2>3. kept' \in [Conns -> SUBSET Version]
    BY <2>1, <2>2
  <2>4. rows' \in [Rows -> Stored]
    BY <1>3 DEF CommitTran, Written
  <2> QED
    BY <1>2, <1>3, <2>3, <2>4 DEF CommitTran
<1>4. CASE Rollback(k)
  BY <1>2, <1>4 DEF Rollback
<1> QED
  BY <1>3, <1>4

LEMMA AnswersWell ==
    /\ \A a \in Answers : <<<<a>>>> \in Seq(Answer)
    /\ <<<<"K">>>> \in Seq(Answer) /\ <<<<"E">>>> \in Seq(Answer) /\ <<<<"T">>>> \in Seq(Answer)
    /\ \A f \in {"F", "R"}, v \in Selection : <<<<f, v>>, <<"E">>>> \in Seq(Answer)
BY DEF Answer

LEMMA RecordsWell ==
    ASSUME Inv, NEW part \in SUBSET Rows, NEW del \in BOOLEAN
    PROVE  /\ Records(part, del) \in Answer
           /\ <<Records(part, del)>> \in Seq(Answer) /\ <<Records(part, del), <<"E">>>> \in Seq(Answer)
<1> DEFINE vers == [r \in part |-> rows[r].ver]
           f == IF del THEN "R" ELSE "F"
<1>1. vers \in [part -> Version]
  BY DEF Inv, DataInv, Stored
<1>2. vers \in Selection /\ f \in {"F", "R"}
  BY <1>1 DEF Selection
<1>3. Records(part, del) = <<f, vers>>
  BY DEF Records
<1> HIDE DEF vers, f
<1>4. Records(part, del) \in Answer
  BY <1>2, <1>3 DEF Answer
<1> QED
  BY <1>4 DEF Answer

\* A step that changes of the thread k only fields of these types keeps ThreadInv.
LEMMA ThreadGoesOn ==
    ASSUME Inv, NEW k \in Conns, NEW t \in Thread, thr' = [thr EXCEPT ![k] = t], UNCHANGED param,
           t.pc \notin {"start"}, t.pc \in Working => t.sock \in Conns
    PROVE  ThreadInv'
BY DEF Inv, ThreadInv

LEMMA ServeSteps ==
    ASSUME Inv, NEW k \in Conns, Serve(k)
    PROVE  Inv'
<1>0. thr[k] \in Thread /\ (thr[k].pc \in Working => thr[k].sock \in Conns)
  BY DEF Inv, ThreadInv
<1>1. CASE InitializeParameter(k)
  <2>1. DataInv' /\ ClientInv' /\ NetInv'
    BY <1>1 DEF InitializeParameter, client, net, Inv, DataInv, ClientInv, NetInv
  <2>2. param \in Conns
    BY <1>1 DEF InitializeParameter, Inv, ThreadInv
  <2>3. ThreadInv'
    <3> DEFINE t == [thr[k] EXCEPT !.pc = "auth", !.sock = param]
    <3>1. t \in Thread /\ t.pc = "auth" /\ t.sock \in Conns
      <4>1. param \in 0..MaxConn
        BY DEF Inv, ThreadInv
      <4> QED
        BY <1>0, <2>2, <4>1 DEF Thread, Working
    <3>2. thr' = [thr EXCEPT ![k] = t] /\ UNCHANGED param
      BY <1>1, <1>0 DEF InitializeParameter, Inv, ThreadInv, Thread
    <3> HIDE DEF t
    <3> QED
      BY <3>1, <3>2, ThreadGoesOn
  <2> QED
    BY <2>1, <2>3 DEF Inv
<1>2. ASSUME NEW a \in Answers, AuthenticateUser(k, a) PROVE Inv'
  <2>1. Reads(k, "auth", "AUTH") /\ Consume(k) /\ Write(k, <<<<a>>>>)
    BY <1>2 DEF AuthenticateUser
  <2>2. thr[k].sock \in Conns /\ Body(k) \in Clients
    BY <2>1, RequestRead DEF Working
  <2>3. NetInv'
    <3>1. toSrv' \in [Conns -> Seq(Request)] /\ \A l \in Conns : Len(toSrv'[l]) <= Window
      BY <2>1, ConsumedFrom DEF Working
    <3>2. toCli' \in [Conns -> Seq(Answer)]
      BY <2>1, <2>2, AnswersWell, WrittenTo
    <3> QED
      BY <1>2, <3>1, <3>2 DEF AuthenticateUser, Inv, NetInv
  <2>4. ClientInv'
    BY <1>2 DEF AuthenticateUser, client, Inv, ClientInv
  <2>5. DataInv'
    <3>1. user' = user \/ user' = [user EXCEPT ![Body(k)].flag = "CONNECT", ![Body(k)].lost = FALSE]
      BY <1>2 DEF AuthenticateUser
    <3>2. user' \in [Clients -> User]
      <4>1. user \in [Clients -> User]
        BY DEF Inv, DataInv
      <4>2. [user[Body(k)] EXCEPT !.flag = "CONNECT", !.lost = FALSE] \in User
        BY <2>2, <4>1 DEF User
      <4> QED
        BY <2>2, <3>1, <4>1, <4>2
    <3> QED
      BY <1>2, <3>2 DEF AuthenticateUser, client, Inv, DataInv
  <2>6. ThreadInv'
    <3>1. CASE a = "ACK"
      <4> DEFINE t == [thr[k] EXCEPT !.pc = "flag", !.who = Body(k), !.auth = TRUE,
                                     !.lastSyncTime = user[Body(k)].time]
      <4>1. user[Body(k)].time \in 0..MaxTime
        BY <2>2 DEF Inv, DataInv, User
      <4>2. t \in Thread /\ t.pc = "flag" /\ t.sock = thr[k].sock
        BY <1>0, <2>2, <4>1 DEF Thread, Working
      <4>3. thr' = [thr EXCEPT ![k] = t] /\ UNCHANGED param
        BY <1>2, <3>1 DEF AuthenticateUser
      <4> HIDE DEF t
      <4> QED
        BY <2>2, <4>2, <4>3, ThreadGoesOn
    <3>2. CASE a # "ACK"
      <4> DEFINE t == [thr[k] EXCEPT !.pc = "flag", !.who = Body(k)]
      <4>2. t \in Thread /\ t.pc = "flag" /\ t.sock = thr[k].sock
        BY <1>0, <2>2 DEF Thread, Working
      <4>3. thr' = [thr EXCEPT ![k] = t] /\ UNCHANGED param
        BY <1>2, <3>2 DEF AuthenticateUser, Inv, ThreadInv, Thread
      <4> HIDE DEF t
      <4> QED
        BY <2>2, <4>2, <4>3, ThreadGoesOn
    <3> QED
      BY <3>1, <3>2
  <2> QED
    BY <2>3, <2>4, <2>5, <2>6 DEF Inv
<1>3. CASE SetApplication(k)
  <2>1. Reads(k, "flag", "S") /\ Consume(k) /\ CommitTran(k)
    BY <1>3 DEF SetApplication
  <2>2. thr[k].sock \in Conns /\ Body(k) \in 1..Dsns
    BY <2>1, RequestRead DEF Working
  <2>3. NetInv'
    <3>1. toSrv' \in [Conns -> Seq(Request)] /\ \A l \in Conns : Len(toSrv'[l]) <= Window
      BY <2>1, ConsumedFrom DEF Working
    <3> QED
      BY <1>3, <3>1 DEF SetApplication, Inv, NetInv
  <2>4. ClientInv'
    BY <1>3 DEF SetApplication, client, Inv, ClientInv
  <2>5. now' \in 1..MaxTime
    BY <1>3, SyncAssumption DEF SetApplication, ReadClock, Inv, DataInv
  <2>6. DataInv'
    BY <1>3, <2>1, <2>5, CommittedWell DEF SetApplication, client, Inv, DataInv
  <2>7. ThreadInv'
    <3>1. CASE /\ thr' = [thr EXCEPT ![k] = [@ EXCEPT !.open = Body(k), !.ended = FALSE,
                                                      !.connectTime = GetDBConnectTime(k)]]
               /\ UNCHANGED param
      <4> DEFINE t == [thr[k] EXCEPT !.open = Body(k), !.ended = FALSE, !.connectTime = GetDBConnectTime(k)]
      <4>1. GetDBConnectTime(k) \in 1..Never
        BY <1>0, <2>5, SyncAssumption DEF GetDBConnectTime, Thread, Never
      <4>2. t \in Thread /\ t.pc = "flag" /\ t.sock = thr[k].sock
        <5>1. Body(k) \in 0..Dsns
          BY <2>2, SyncAssumption
        <5> QED
          BY <1>0, <2>1, <4>1, <5>1 DEF Thread, Reads
      <4>3. thr' = [thr EXCEPT ![k] = t]
        BY <3>1
      <4> HIDE DEF t
      <4> QED
        BY <2>2, <3>1, <4>2, <4>3, ThreadGoesOn
    <3>2. CASE thr' = [thr EXCEPT ![k].pc = "error", ![k].open = 0] /\ UNCHANGED param
      <4> DEFINE t == [thr[k] EXCEPT !.pc = "error", !.open = 0]
      <4>2. t \in Thread /\ t.pc = "error" /\ t.sock = thr[k].sock
        <5>1. 0 \in 0..Dsns
          BY SyncAssumption
        <5> QED
          BY <1>0, <5>1 DEF Thread, Working
      <4>3. thr' = [thr EXCEPT ![k] = t]
        BY <3>2 DEF Inv, ThreadInv, Thread
      <4> HIDE DEF t
      <4> QED
        BY <2>2, <3>2, <4>2, <4>3, ThreadGoesOn
    <3> QED
      BY <1>3, <3>1, <3>2 DEF SetApplication
  <2> QED
    BY <2>3, <2>4, <2>6, <2>7 DEF Inv
<1>4. CASE SetTableName(k)
  <2>1. Reads(k, "flag", "M") /\ Consume(k)
    BY <1>4 DEF SetTableName
  <2>2. thr[k].sock \in Conns /\ Body(k) \in Modes
    BY <2>1, RequestRead DEF Working
  <2>3. NetInv'
    <3>1. toSrv' \in [Conns -> Seq(Request)] /\ \A l \in Conns : Len(toSrv'[l]) <= Window
      BY <2>1, ConsumedFrom DEF Working
    <3> QED
      BY <1>4, <3>1 DEF SetTableName, Inv, NetInv
  <2>4. ClientInv' /\ DataInv'
    BY <1>4 DEF SetTableName, client, Inv, ClientInv, DataInv
  <2>5. ThreadInv'
    <3> DEFINE t == [thr[k] EXCEPT !.syncFlag = Body(k)]
    <3>1. t \in Thread /\ t.pc = thr[k].pc /\ t.sock = thr[k].sock /\ t.pc = "flag"
      BY <1>0, <2>1, <2>2 DEF Thread, Reads
    <3>2. thr' = [thr EXCEPT ![k] = t] /\ UNCHANGED param
      BY <1>4 DEF SetTableName
    <3> HIDE DEF t
    <3> QED
      BY <2>2, <3>1, <3>2, ThreadGoesOn
  <2> QED
    BY <2>3, <2>4, <2>5 DEF Inv
<1>5. CASE ProcessScript(k)
  <2>1. Reads(k, "flag", "U") /\ Consume(k)
    BY <1>5 DEF ProcessScript
  <2>2. thr[k].sock \in Conns /\ Body(k) \in Version
    BY <2>1, RequestRead DEF Working
  <2>3. NetInv'
    <3>1. toSrv' \in [Conns -> Seq(Request)] /\ \A l \in Conns : Len(toSrv'[l]) <= Window
      BY <2>1, ConsumedFrom DEF Working
    <3> QED
      BY <1>5, <3>1 DEF ProcessScript, Inv, NetInv
  <2>4. ClientInv'
    BY <1>5 DEF ProcessScript, client, Inv, ClientInv
  <2>5. DataInv'
    <3> DEFINE r == Body(k).row
               v == [ver |-> Body(k), mTime |-> now']
    <3>1. CASE ReadClock /\ txn' = [txn EXCEPT ![k][r] = v]
      <4>1. now' \in 1..MaxTime
        BY <3>1 DEF ReadClock, Inv, DataInv
      <4>2. v \in Stored
        BY <2>2, <4>1 DEF Stored
      <4> HIDE DEF r, v
      <4>3. txn' \in [Conns -> [Rows -> Stored \cup {NoRow}]]
        BY <3>1, <4>2 DEF Inv, DataInv
      <4>4. UNCHANGED <<rows, user, kept, client>>
        BY <1>5 DEF ProcessScript
      <4> QED
        BY <4>1, <4>3, <4>4 DEF client, Inv, DataInv
    <3>2. CASE UNCHANGED <<now, txn>>
      BY <1>5, <3>2 DEF ProcessScript, client, Inv, DataInv
    <3> QED
      BY <1>5, <3>1, <3>2 DEF ProcessScript
  <2>6. ThreadInv'
    <3>1. CASE UNCHANGED <<thr, param>>
      BY <3>1 DEF Inv, ThreadInv
    <3>2. CASE thr' = [thr EXCEPT ![k].pc = "error"] /\ UNCHANGED param
      BY <3>2, <2>2 DEF Inv, ThreadInv, Thread, Working
    <3> QED
      BY <1>5, <3>1, <3>2 DEF ProcessScript
  <2> QED
    BY <2>3, <2>4, <2>5, <2>6 DEF Inv
<1>6. CASE UploadOK(k)
  <2>1. Reads(k, "flag", "E") /\ Consume(k)
    BY <1>6 DEF UploadOK
  <2>2. thr[k].sock \in Conns
    BY <2>1, RequestRead DEF Working
  <2>3. NetInv'
    <3>1. toSrv' \in [Conns -> Seq(Request)] /\ \A l \in Conns : Len(toSrv'[l]) <= Window
      BY <2>1, ConsumedFrom DEF Working
    <3>2. toCli' \in [Conns -> Seq(Answer)]
      <4>1. CASE Write(k, <<<<"K">>>>)
        BY <4>1, <2>2, AnswersWell, WrittenTo
      <4>2. CASE UNCHANGED toCli
        BY <4>2 DEF Inv, NetInv
      <4> QED
        BY <1>6, <4>1, <4>2 DEF UploadOK
    <3> QED
      BY <1>6, <3>1, <3>2 DEF UploadOK, Inv, NetInv
  <2>4. ClientInv'
    BY <1>6 DEF UploadOK, client, Inv, ClientInv
  <2>5. DataInv'
    <3>1. /\ rows' \in [Rows -> Stored] /\ txn' \in [Conns -> [Rows -> Stored \cup {NoRow}]]
          /\ kept' \in [Conns -> SUBSET Version]
      BY <1>6, CommittedWell DEF UploadOK
    <3> QED
      BY <1>6, <3>1 DEF UploadOK, client, Inv, DataInv
  <2>6. ThreadInv'
    <3>1. ASSUME NEW pc \in {"commit", "error"}, thr' = [thr EXCEPT ![k].pc = pc, ![k].ended = TRUE]
          PROVE  ThreadInv'
      BY <1>6, <2>2, <3>1 DEF UploadOK, Inv, ThreadInv, Thread, Working
    <3> QED
      BY <1>6, <3>1 DEF UploadOK
  <2> QED
    BY <2>3, <2>4, <2>5, <2>6 DEF Inv
<1>7. CASE UploadCommit(k)
  <2>1. /\ rows' \in [Rows -> Stored] /\ txn' \in [Conns -> [Rows -> Stored \cup {NoRow}]]
        /\ kept' \in [Conns -> SUBSET Version]
    BY <1>7, CommittedWell DEF UploadCommit
  <2>2. DataInv'
    BY <1>7, <2>1 DEF UploadCommit, client, Inv, DataInv
  <2>3. ClientInv' /\ NetInv'
    BY <1>7 DEF UploadCommit, client, net, Inv, ClientInv, NetInv
  <2>4. ASSUME NEW pc \in {"select", "error"}, thr' = [thr EXCEPT ![k].pc = pc]
        PROVE  ThreadInv'
    BY <1>7, <2>4 DEF UploadCommit, Inv, ThreadInv, Thread, Working
  <2>5. ThreadInv'
    BY <1>7, <2>4 DEF UploadCommit
  <2> QED
    BY <2>2, <2>3, <2>5 DEF Inv
<1>8. ASSUME NEW del \in BOOLEAN, Download(k, del) PROVE Inv'
  <2>1. DataInv' /\ ClientInv'
    BY <1>8 DEF Download, client, Inv, DataInv, ClientInv
  <2>2. thr[k].pc \in Working /\ thr[k].sock \in Conns
    BY <1>0, <1>8 DEF Download, Working
  <2>3. ASSUME NEW pc \in {"flag", "delete"}, thr' = [thr EXCEPT ![k].pc = pc]
        PROVE  ThreadInv'
    BY <1>8, <2>2, <2>3 DEF Download, Inv, ThreadInv, Thread, Working
  <2>4. ThreadInv'
    BY <1>8, <2>3 DEF Download
  <2>5. NetInv'
    <3> DEFINE new == News(k, del)
               ms == IF new = {} THEN <<<<"E">>>> ELSE <<Records(new, del), <<"E">>>>
    <3>1. new \in SUBSET Rows
      BY DEF News, RowsOf
    <3>4. Write(k, ms) /\ UNCHANGED <<conn, toSrv>>
      BY <1>8 DEF Download
    <3>5. ms \in Seq(Answer)
      BY <3>1, RecordsWell, AnswersWell
    <3> HIDE DEF ms
    <3>6. toCli' \in [Conns -> Seq(Answer)]
      BY <2>2, <3>4, <3>5, WrittenTo
    <3> QED
      BY <3>4, <3>6 DEF Inv, NetInv
  <2> QED
    BY <2>1, <2>4, <2>5 DEF Inv
<1>9. CASE EndSession(k)
  <2>1. Reads(k, "flag", "A") /\ Consume(k) /\ Write(k, <<<<"T">>>>)
    BY <1>9 DEF EndSession
  <2>2. thr[k].sock \in Conns
    BY <2>1, RequestRead DEF Working
  <2>3. NetInv'
    <3>1. toSrv' \in [Conns -> Seq(Request)] /\ \A l \in Conns : Len(toSrv'[l]) <= Window
      BY <2>1, ConsumedFrom DEF Working
    <3>2. toCli' \in [Conns -> Seq(Answer)]
      BY <2>1, <2>2, AnswersWell, WrittenTo
    <3> QED
      BY <1>9, <3>1, <3>2 DEF EndSession, Inv, NetInv
  <2>4. DataInv' /\ ClientInv'
    BY <1>9 DEF EndSession, client, Inv, DataInv, ClientInv
  <2>5. ThreadInv'
    BY <1>9, <2>2 DEF EndSession, Inv, ThreadInv, Thread, Working
  <2> QED
    BY <2>3, <2>4, <2>5 DEF Inv
<1>10. CASE NetworkError(k)
  <2>1. DataInv' /\ ClientInv' /\ NetInv'
    BY <1>10 DEF NetworkError, client, net, Inv, DataInv, ClientInv, NetInv
  <2>2. thr[k].pc \in Working
    BY <1>10 DEF NetworkError, Broken, Timeout, Working
  <2>3. ThreadInv'
    BY <1>10, <2>2 DEF NetworkError, Inv, ThreadInv, Thread, Working
  <2> QED
    BY <2>1, <2>3 DEF Inv
<1>11. CASE UpdateConnectFlag(k)
  <2>1. ClientInv' /\ NetInv'
    BY <1>11 DEF UpdateConnectFlag, client, net, Inv, ClientInv, NetInv
  <2>2. ThreadInv'
    BY <1>11 DEF UpdateConnectFlag, Inv, ThreadInv, Thread, Working
  <2>3. DataInv'
    <3> DEFINE fl == IF thr[k].pc = "end" THEN "DISCONNECT" ELSE "DISCONNECT_ERROR"
               u == [flag |-> fl,
                     time |-> IF /\ thr[k].pc = "end" /\ thr[k].syncFlag # "none"
                                 /\ thr[k].connectTime # Never
                              THEN thr[k].connectTime ELSE user[thr[k].who].time,
                     lost |-> FALSE]
    <3>1. CASE thr[k].who \in Clients /\ user' = [user EXCEPT ![thr[k].who] = u]
      <4>1. thr[k].connectTime # Never => thr[k].connectTime \in 0..MaxTime
        BY <1>0, SyncAssumption DEF Thread, Never
      <4>2. user[thr[k].who].time \in 0..MaxTime
        BY <3>1 DEF Inv, DataInv, User
      <4>3. u.time \in 0..MaxTime /\ fl \in {"DISCONNECT", "DISCONNECT_ERROR"}
        BY <4>1, <4>2
      <4>4. u \in User
        BY <4>3 DEF User
      <4> HIDE DEF u, fl
      <4>6. user' \in [Clients -> User]
        BY <3>1, <4>4 DEF Inv, DataInv
      <4> QED
        BY <1>11, <4>6 DEF UpdateConnectFlag, client, Inv, DataInv
    <3>2. CASE UNCHANGED user \/ user' = [user EXCEPT ![thr[k].who].lost = TRUE]
      <4>2. user \in [Clients -> User]
        BY DEF Inv, DataInv
      <4>3. ASSUME thr[k].who \in Clients PROVE [user[thr[k].who] EXCEPT !.lost = TRUE] \in User
        BY <4>2, <4>3 DEF User
      <4>1. user' \in [Clients -> User]
        BY <3>2, <4>2, <4>3
      <4> QED
        BY <1>11, <4>1 DEF UpdateConnectFlag, client, Inv, DataInv
    <3>3. CASE thr[k].who \notin Clients /\ user' = [user EXCEPT ![thr[k].who] = u]
      <4>1. user' \in [Clients -> User]
        BY <3>3 DEF Inv, DataInv
      <4> QED
        BY <1>11, <4>1 DEF UpdateConnectFlag, client, Inv, DataInv
    <3> QED
      BY <1>11, <3>1, <3>2, <3>3 DEF UpdateConnectFlag
  <2> QED
    BY <2>1, <2>2, <2>3 DEF Inv
<1>12. CASE FreeHandles(k)
  <2>1. thr[k].sock \in Conns
    BY <1>0, <1>12 DEF FreeHandles, Working
  <2>2. /\ rows' \in [Rows -> Stored] /\ txn' \in [Conns -> [Rows -> Stored \cup {NoRow}]]
        /\ kept' \in [Conns -> SUBSET Version]
    BY <1>12, CommittedWell DEF FreeHandles
  <2>3. DataInv' /\ ClientInv'
    BY <1>12, <2>2 DEF FreeHandles, client, Inv, DataInv, ClientInv
  <2>4. NetInv'
    <3>1. << >> \in Seq(Request) /\ Len(<< >>) = 0
      BY EmptySeq
    <3> DEFINE q == << >>
    <3>2. q \in Seq(Request) /\ Len(q) <= Window
      BY <3>1, SyncAssumption
    <3>3. /\ conn' = [conn EXCEPT ![thr[k].sock] = "closed"]
          /\ toSrv' = [toSrv EXCEPT ![thr[k].sock] = q] /\ UNCHANGED toCli
      BY <1>12 DEF FreeHandles
    <3> HIDE DEF q
    <3> QED
      BY <2>1, <3>2, <3>3 DEF Inv, NetInv
  <2>5. ThreadInv'
    <3> DEFINE t == [NoThread EXCEPT !.pc = "done", !.ended = thr[k].ended]
    <3>1. t \in Thread /\ t.pc = "done"
      <4>1. NoThread \in Thread
        BY SyncAssumption DEF Thread, NoThread, Never
      <4>2. thr[k].ended \in BOOLEAN
        BY <1>0 DEF Thread
      <4> QED
        BY <4>1, <4>2 DEF Thread, NoThread
    <3>2. thr' = [thr EXCEPT ![k] = t] /\ UNCHANGED param
      BY <1>12 DEF FreeHandles
    <3> HIDE DEF t
    <3> QED
      BY <3>1, <3>2, ThreadGoesOn DEF Working
  <2> QED
    BY <2>3, <2>4, <2>5 DEF Inv
<1>13. CASE AuthenticateFails(k)
  <2>1. Reads(k, "auth", "AUTH") /\ Consume(k)
    BY <1>13 DEF AuthenticateFails
  <2>2. thr[k].sock \in Conns /\ Body(k) \in Clients
    BY <2>1, RequestRead DEF Working
  <2>3. NetInv'
    <3>1. toSrv' \in [Conns -> Seq(Request)] /\ \A l \in Conns : Len(toSrv'[l]) <= Window
      BY <2>1, ConsumedFrom DEF Working
    <3> QED
      BY <1>13, <3>1 DEF AuthenticateFails, Inv, NetInv
  <2>4. ClientInv' /\ DataInv'
    BY <1>13 DEF AuthenticateFails, client, Inv, ClientInv, DataInv
  <2>5. ThreadInv'
    <3> DEFINE t == [thr[k] EXCEPT !.pc = "error", !.who = Body(k)]
    <3>1. t \in Thread /\ t.pc = "error" /\ t.sock = thr[k].sock
      BY <1>0, <2>2 DEF Thread, Working
    <3>2. thr' = [thr EXCEPT ![k] = t] /\ UNCHANGED param
      BY <1>13 DEF AuthenticateFails, Inv, ThreadInv, Thread
    <3> HIDE DEF t
    <3> QED
      BY <2>2, <3>1, <3>2, ThreadGoesOn
  <2> QED
    BY <2>3, <2>4, <2>5 DEF Inv
<1>14. ASSUME NEW del \in BOOLEAN, DownloadFails(k, del) PROVE Inv'
  <2>1. DataInv' /\ ClientInv'
    BY <1>14 DEF DownloadFails, client, Inv, DataInv, ClientInv
  <2>2. thr[k].pc \in Working /\ thr[k].sock \in Conns
    BY <1>0, <1>14 DEF DownloadFails, Working
  <2>3. ThreadInv'
    BY <1>14, <2>2 DEF DownloadFails, Inv, ThreadInv, Thread, Working
  <2>4. toCli' \in [Conns -> Seq(Answer)]
    <3>1. CASE UNCHANGED toCli
      BY <3>1 DEF Inv, NetInv
    <3>2. ASSUME NEW part \in SUBSET News(k, del), Write(k, <<Records(part, del)>>)
          PROVE  toCli' \in [Conns -> Seq(Answer)]
      <4>1. part \in SUBSET Rows
        BY DEF News, RowsOf
      <4> QED
        BY <2>2, <3>2, <4>1, RecordsWell, WrittenTo
    <3> QED
      BY <1>14, <3>1, <3>2 DEF DownloadFails
  <2>5. NetInv'
    BY <1>14, <2>4 DEF DownloadFails, Inv, NetInv
  <2> QED
    BY <2>1, <2>3, <2>5 DEF Inv
<1> QED
  BY <1>1, <1>2, <1>3, <1>4, <1>5, <1>6, <1>7, <1>8, <1>9, <1>10, <1>11, <1>12, <1>13, <1>14 DEF Serve

\* The inductive invariant holds whatever Faults admits.
THEOREM InvHolds == Spec => []Inv
<1>1. Inv /\ [Next]_vars => Inv'
  <2> SUFFICES ASSUME Inv, [Next]_vars PROVE Inv'
    OBVIOUS
  <2>1. CASE Next
    BY <2>1, ClientSteps, ServeSteps DEF Next
  <2>2. CASE UNCHANGED vars
    BY <2>2 DEF vars, server, client, net, Inv, DataInv, ThreadInv, ClientInv, NetInv
  <2> QED
    BY <2>1, <2>2
<1> QED
  BY <1>1, Started, PTL DEF Spec

LEMMA TypesFollow == Inv => TypeOK
<1> SUFFICES ASSUME Inv PROVE TypeOK
  OBVIOUS
<1>1. /\ now \in 1..MaxTime /\ param \in 0..MaxConn
      /\ rows \in [Rows -> Stored] /\ made \subseteq Changes
  BY DEF Inv, DataInv, ThreadInv
<1>2. user \in [Clients -> [flag : {"CONNECT", "DISCONNECT", "DISCONNECT_ERROR"},
                            time : 0..MaxTime, lost : BOOLEAN]]
  BY DEF Inv, DataInv, User
<1>3. ASSUME NEW k \in Conns
      PROVE  /\ thr[k].pc \in {"none", "start", "auth", "flag", "commit", "select", "delete",
                               "end", "error", "free", "done"}
             /\ thr[k].open \in 0..Dsns /\ thr[k].who \in Clients \cup {Nobody}
             /\ thr[k].connectTime \in 1..Never /\ thr[k].lastSyncTime \in 0..MaxTime
             /\ \A r \in Rows : txn[k][r] = NoRow \/ txn[k][r] \in Stored
             /\ conn[k] \in {"none", "open", "left", "closed"}
             /\ Len(toSrv[k]) <= Window
  <2>1. thr[k] \in Thread
    BY DEF Inv, ThreadInv
  <2>2. thr[k].pc \in {"none", "start", "done"} \cup Working
    BY <2>1 DEF Thread
  <2> QED
    BY <2>1, <2>2 DEF Thread, Working, Inv, DataInv, NetInv
<1>4. ASSUME NEW c \in Clients
      PROVE  /\ cli[c].conn \in 0..MaxConn /\ cli[c].up \subseteq Rows
             /\ local[c] \in [Rows -> Version] /\ changed[c] \subseteq Rows
  BY DEF Inv, DataInv, ClientInv, Program
<1> QED
  BY <1>1, <1>2, <1>3, <1>4 DEF TypeOK

\* The variables of the synchronisation have their types, and no more messages are
\* under way to a thread than the network holds.
THEOREM TypeCorrect == Spec => []TypeOK
BY InvHolds, TypesFollow, PTL

-----------------------------------------------------------------------------
(* The connect flag *)

\* The thread serves a user who was authenticated, and has not reset the flag yet.
Serving(k, c) ==
    /\ thr[k].who = c /\ thr[k].auth
    /\ thr[k].pc \in {"flag", "commit", "select", "delete", "end", "error"}
ServedInv ==
    /\ \A c \in Clients : user[c].flag = "CONNECT" => user[c].lost \/ \E k \in Conns : Serving(k, c)
    /\ \A k \in Conns : thr[k].pc # "none" => conn[k] # "none"

\* A step that sets no flag, and keeps a thread serving that serves, keeps the invariant.
LEMMA StillServed ==
    ASSUME Inv, ServedInv, UNCHANGED user,
           \A k \in Conns, c \in Clients : Serving(k, c) => Serving(k, c)',
           \A k \in Conns : thr'[k].pc # "none" => conn'[k] # "none"
    PROVE  ServedInv'
BY DEF ServedInv

LEMMA ServedByClients ==
    ASSUME Inv, ServedInv, NEW c \in Clients, ClientStep(c)
    PROVE  ServedInv'
<1>1. ASSUME NEW s \in Conns, Connect(c, s) PROVE ServedInv'
  <2>1. thr[s].pc = "none"
    BY <1>1 DEF Connect, ServedInv
  <2>2. UNCHANGED user /\ thr' = [thr EXCEPT ![s].pc = "start"] /\ conn' = [conn EXCEPT ![s] = "open"]
    BY <1>1 DEF Connect
  <2>3. \A k \in Conns, d \in Clients : Serving(k, d) => Serving(k, d)'
    BY <2>1, <2>2 DEF Serving, Inv, ThreadInv
  <2>4. \A k \in Conns : thr'[k].pc # "none" => conn'[k] # "none"
    BY <2>2 DEF ServedInv, Inv, ThreadInv, NetInv
  <2> QED
    BY <2>2, <2>3, <2>4, StillServed
<1>2. CASE \A s \in Conns : ~Connect(c, s)
  <2>1. UNCHANGED server
    BY <1>2 DEF ClientStep, Change, AuthAnswer, SendDSN, SendTableName, SendUploadData, SendUploadOK,
                ReceiveOK, ReceiveRows, ReceiveEnd, ReceiveDeleteEnd, Quit, Bye, GiveUp
  <2>2. \A k \in Conns : conn[k] # "none" => conn'[k] # "none"
    <3>1. CASE UNCHANGED conn
      BY <3>1
    <3>2. CASE Disconnected(c)
      BY <3>2 DEF Disconnected, Inv, NetInv
    <3> QED
      BY <1>2, <3>1, <3>2 DEF ClientStep, Change, AuthAnswer, SendDSN, SendTableName, SendUploadData,
         SendUploadOK, ReceiveOK, ReceiveRows, ReceiveEnd, ReceiveDeleteEnd, Quit, Bye, GiveUp, Send, Take, net
  <2> QED
    BY <2>1, <2>2, StillServed DEF server, Serving, ServedInv
<1> QED
  BY <1>1, <1>2

\* What the two steps that change several fields of a thread do to it.
LEMMA ApplicationSet ==
    ASSUME Inv, NEW k \in Conns, SetApplication(k)
    PROVE  /\ thr[k].pc = "flag" /\ \A l \in Conns \ {k} : thr'[l] = thr[l]
           /\ thr'[k].who = thr[k].who /\ thr'[k].auth = thr[k].auth /\ thr'[k].sock = thr[k].sock
           /\ thr'[k].lastSyncTime = thr[k].lastSyncTime /\ thr'[k].syncFlag = thr[k].syncFlag
           /\ \/ /\ thr'[k].pc = "flag" /\ thr'[k].open = Body(k) /\ thr'[k].ended = FALSE
                 /\ thr'[k].connectTime = GetDBConnectTime(k) /\ ReadClock /\ Works
              \/ /\ thr'[k].pc = "error" /\ thr'[k].open = 0 /\ thr'[k].ended = thr[k].ended
                 /\ thr'[k].connectTime = thr[k].connectTime /\ UNCHANGED now /\ Fail
<1>1. thr \in [Conns -> Thread] /\ thr[k].pc = "flag"
  BY DEF Inv, ThreadInv, SetApplication, Reads
<1>2. CASE /\ ReadClock /\ Works
           /\ thr' = [thr EXCEPT ![k] = [@ EXCEPT !.open = Body(k), !.ended = FALSE,
                                                  !.connectTime = GetDBConnectTime(k)]]
  <2>1. PICK t : t = GetDBConnectTime(k)
    OBVIOUS
  <2>2. PICK d : d = Body(k)
    OBVIOUS
  <2>3. thr' = [thr EXCEPT ![k] = [@ EXCEPT !.open = d, !.ended = FALSE, !.connectTime = t]]
    BY <1>2, <2>1, <2>2
  <2> QED
    BY <1>1, <1>2, <2>1, <2>2, <2>3 DEF Thread
<1>3. CASE thr' = [thr EXCEPT ![k].pc = "error", ![k].open = 0] /\ UNCHANGED now /\ Fail
  BY <1>1, <1>3 DEF Thread
<1> QED
  BY <1>2, <1>3 DEF SetApplication

LEMMA UserAuthenticated ==
    ASSUME Inv, NEW k \in Conns, NEW a, AuthenticateUser(k, a)
    PROVE  /\ thr[k].pc = "auth" /\ \A l \in Conns \ {k} : thr'[l] = thr[l]
           /\ thr'[k].pc = "flag" /\ thr'[k].who = Body(k) /\ thr'[k].sock = thr[k].sock
           /\ thr'[k].open = thr[k].open /\ thr'[k].connectTime = thr[k].connectTime
           /\ thr'[k].syncFlag = thr[k].syncFlag /\ thr'[k].ended = thr[k].ended
           /\ \/ /\ a = "ACK" /\ thr'[k].auth /\ thr'[k].lastSyncTime = user[Body(k)].time
              \/ /\ a # "ACK" /\ thr'[k].auth = thr[k].auth
                 /\ thr'[k].lastSyncTime = thr[k].lastSyncTime
<1>1. thr \in [Conns -> Thread] /\ thr[k].pc = "auth"
  BY DEF Inv, ThreadInv, AuthenticateUser, Reads
<1>2. PICK c : c = Body(k)
  OBVIOUS
<1>3. CASE a = "ACK"
  <2>1. PICK t : t = user[c].time
    OBVIOUS
  <2>2. thr' = [thr EXCEPT ![k] = [@ EXCEPT !.pc = "flag", !.who = c, !.auth = TRUE, !.lastSyncTime = t]]
    BY <1>2, <1>3, <2>1 DEF AuthenticateUser
  <2> QED
    BY <1>1, <1>2, <1>3, <2>1, <2>2 DEF Thread
<1>4. CASE a # "ACK"
  <2>1. thr' = [thr EXCEPT ![k].pc = "flag", ![k].who = c]
    BY <1>2, <1>4 DEF AuthenticateUser
  <2> QED
    BY <1>1, <1>2, <1>4, <2>1 DEF Thread
<1> QED
  BY <1>3, <1>4

LEMMA AuthenticationFailed ==
    ASSUME Inv, NEW k \in Conns, AuthenticateFails(k)
    PROVE  /\ thr[k].pc = "auth" /\ \A l \in Conns \ {k} : thr'[l] = thr[l]
           /\ thr'[k].pc = "error" /\ thr'[k].sock = thr[k].sock
           /\ thr'[k].open = thr[k].open /\ thr'[k].connectTime = thr[k].connectTime
           /\ thr'[k].auth = thr[k].auth /\ thr'[k].lastSyncTime = thr[k].lastSyncTime
           /\ thr'[k].syncFlag = thr[k].syncFlag /\ thr'[k].ended = thr[k].ended
<1>1. thr \in [Conns -> Thread] /\ thr[k].pc = "auth"
  BY DEF Inv, ThreadInv, AuthenticateFails, Reads
<1>2. PICK c : c = Body(k)
  OBVIOUS
<1>3. thr' = [thr EXCEPT ![k].pc = "error", ![k].who = c]
  BY <1>2 DEF AuthenticateFails
<1> QED
  BY <1>1, <1>3 DEF Thread

LEMMA ServedByServer ==
    ASSUME Inv, ServedInv, NEW k \in Conns, Serve(k)
    PROVE  ServedInv'
<1>0. thr \in [Conns -> Thread] /\ conn \in [Conns -> {"none", "open", "left", "closed"}]
  BY DEF Inv, ThreadInv, NetInv
<1> DEFINE Others == \A l \in Conns \ {k} : thr'[l] = thr[l]
<1>1. thr[k].pc # "none" /\ thr'[k].pc # "none" /\ Others
  <2>1. CASE InitializeParameter(k)
    BY <1>0, <2>1 DEF InitializeParameter, Thread
  <2>2. CASE \E a \in Answers : AuthenticateUser(k, a)
    BY <2>2, UserAuthenticated
  <2>3. CASE SetApplication(k)
    BY <2>3, ApplicationSet
  <2>4. CASE SetTableName(k)
    BY <1>0, <2>4 DEF SetTableName, Thread, Reads
  <2>5. CASE ProcessScript(k)
    BY <1>0, <2>5 DEF ProcessScript, Thread, Reads
  <2>6. CASE UploadOK(k)
    BY <1>0, <2>6 DEF UploadOK, Thread, Reads
  <2>7. CASE UploadCommit(k)
    BY <1>0, <2>7 DEF UploadCommit, Thread
  <2>8. CASE \E del \in BOOLEAN : Download(k, del)
    BY <1>0, <2>8 DEF Download, Thread
  <2>9. CASE EndSession(k)
    BY <1>0, <2>9 DEF EndSession, Thread, Reads
  <2>10. CASE NetworkError(k)
    BY <1>0, <2>10 DEF NetworkError, Thread, Broken, Timeout
  <2>11. CASE UpdateConnectFlag(k)
    BY <1>0, <2>11 DEF UpdateConnectFlag, Thread
  <2>12. CASE FreeHandles(k)
    BY <1>0, <2>12 DEF FreeHandles, Thread, NoThread
  <2>13. CASE AuthenticateFails(k)
    BY <2>13, AuthenticationFailed
  <2>14. CASE \E del \in BOOLEAN : DownloadFails(k, del)
    BY <1>0, <2>14 DEF DownloadFails, Thread
  <2> QED
    BY <2>1, <2>2, <2>3, <2>4, <2>5, <2>6, <2>7, <2>8, <2>9, <2>10, <2>11, <2>12, <2>13, <2>14 DEF Serve
<1>2. \A l \in Conns : thr'[l].pc # "none" => conn'[l] # "none"
  <2>1. \A l \in Conns : conn[l] # "none" => conn'[l] # "none"
    BY <1>0 DEF Serve, InitializeParameter, AuthenticateUser, AuthenticateFails, SetApplication, SetTableName,
       ProcessScript, UploadOK, UploadCommit, Download, DownloadFails, EndSession, NetworkError,
       UpdateConnectFlag, FreeHandles, net
  <2> QED
    BY <1>1, <2>1 DEF ServedInv
<1>3. \A l \in Conns \ {k}, c \in Clients : Serving(l, c) => Serving(l, c)'
  BY <1>1 DEF Serving
<1>4. ASSUME NEW a \in Answers, AuthenticateUser(k, a) PROVE ServedInv'
  <2>1. thr[k].pc = "auth" /\ Body(k) \in Clients
    BY <1>4, RequestRead DEF AuthenticateUser, Working, Reads
  <2>2. \A c \in Clients : ~Serving(k, c)
    BY <2>1 DEF Serving
  <2>3. CASE a = "ACK"
    <3>1. PICK u \in Clients : u = Body(k)
      BY <2>1
    <3>2. Serving(k, u)'
      <4>1. thr' = [thr EXCEPT ![k] = [thr[k] EXCEPT !.pc = "flag", !.who = u, !.auth = TRUE,
                                              !.lastSyncTime = user[u].time]]
        BY <1>4, <2>3, <3>1 DEF AuthenticateUser
      <4>2. thr'[k].pc = "flag" /\ thr'[k].who = u /\ thr'[k].auth
        BY <1>0, <4>1 DEF Thread
      <4> QED
        BY <4>2 DEF Serving
    <3>3. \A c \in Clients \ {u} : user'[c] = user[c]
      BY <1>4, <2>3, <3>1 DEF AuthenticateUser, Inv, DataInv
    <3>4. \A c \in Clients : user'[c].flag = "CONNECT" => user'[c].lost \/ \E l \in Conns : Serving(l, c)'
      <4>1. ASSUME NEW c \in Clients, user'[c].flag = "CONNECT", c # u
            PROVE  user'[c].lost \/ \E l \in Conns : Serving(l, c)'
        BY <1>3, <2>2, <3>3, <4>1 DEF ServedInv
      <4> QED
        BY <3>2, <4>1
    <3> QED
      BY <1>2, <3>4 DEF ServedInv
  <2>4. CASE a # "ACK"
    BY <1>2, <1>3, <1>4, <2>2, <2>4, StillServed DEF AuthenticateUser
  <2> QED
    BY <2>3, <2>4
<1>5. CASE UpdateConnectFlag(k)
  <2>1. CASE thr[k].auth
    <3>1. \A c \in Clients : thr[k].who = c => user'[c].flag # "CONNECT" \/ user'[c].lost
      BY <1>5, <2>1 DEF UpdateConnectFlag, Inv, DataInv, User
    <3>2. \A c \in Clients : thr[k].who # c => user'[c] = user[c]
      BY <1>5, <2>1 DEF UpdateConnectFlag, Inv, DataInv
    <3>3. \A c \in Clients : thr[k].who # c => ~Serving(k, c)
      BY DEF Serving
    <3> QED
      BY <1>2, <1>3, <3>1, <3>2, <3>3 DEF ServedInv
  <2>2. CASE ~thr[k].auth
    <3>1. UNCHANGED user /\ \A c \in Clients : ~Serving(k, c)
      BY <1>5, <2>2 DEF UpdateConnectFlag, Serving
    <3> QED
      BY <1>2, <1>3, <3>1, StillServed
  <2> QED
    BY <2>1, <2>2
<1>6. CASE UNCHANGED user /\ thr[k].pc \in {"start", "free"}
  <2>1. \A c \in Clients : ~Serving(k, c)
    BY <1>6 DEF Serving
  <2> QED
    BY <1>2, <1>3, <1>6, <2>1, StillServed
<1>7. CASE /\ UNCHANGED user /\ thr'[k].who = thr[k].who /\ thr'[k].auth = thr[k].auth
           /\ thr'[k].pc \in {"flag", "commit", "select", "delete", "end", "error"}
  <2>1. \A c \in Clients : Serving(k, c) => Serving(k, c)'
    BY <1>7 DEF Serving
  <2> QED
    BY <1>2, <1>3, <1>7, <2>1, StillServed
<1>8. CASE InitializeParameter(k) \/ FreeHandles(k)
  BY <1>6, <1>8 DEF InitializeParameter, FreeHandles
<1>9. CASE SetApplication(k)
  BY <1>7, <1>9, ApplicationSet DEF SetApplication
<1>10. CASE SetTableName(k)
  BY <1>0, <1>7, <1>10 DEF SetTableName, Thread, Reads
<1>11. CASE ProcessScript(k)
  BY <1>0, <1>7, <1>11 DEF ProcessScript, Thread, Reads
<1>12. CASE UploadOK(k)
  BY <1>0, <1>7, <1>12 DEF UploadOK, Thread, Reads
<1>13. CASE UploadCommit(k)
  BY <1>0, <1>7, <1>13 DEF UploadCommit, Thread
<1>14. CASE \E del \in BOOLEAN : Download(k, del)
  BY <1>0, <1>7, <1>14 DEF Download, Thread
<1>15. CASE EndSession(k)
  BY <1>0, <1>7, <1>15 DEF EndSession, Thread, Reads
<1>16. CASE NetworkError(k)
  BY <1>0, <1>7, <1>16 DEF NetworkError, Thread
<1>17. CASE AuthenticateFails(k)
  <2>1. UNCHANGED user /\ thr[k].pc = "auth"
    BY <1>17, AuthenticationFailed DEF AuthenticateFails
  <2>2. \A c \in Clients : ~Serving(k, c)
    BY <2>1 DEF Serving
  <2> QED
    BY <1>2, <1>3, <2>1, <2>2, StillServed
<1>18. CASE \E del \in BOOLEAN : DownloadFails(k, del)
  BY <1>0, <1>7, <1>18 DEF DownloadFails, Thread
<1> QED
  BY <1>4, <1>5, <1>8, <1>9, <1>10, <1>11, <1>12, <1>13, <1>14, <1>15, <1>16, <1>17, <1>18 DEF Serve

\* A user whose connect flag is set has a session in the hands of a thread, also when
\* two connections read the same param and both serve the first socket; only when the
\* database refused the UPDATE that ends a session may a mark be left without one.
THEOREM ConnectedAreServed == Spec => []ConnectedIsServed
<1>1. Init => ServedInv
  BY DEF Init, ServedInv, NoThread
<1>2. Inv /\ ServedInv /\ [Next]_vars => ServedInv'
  <2> SUFFICES ASSUME Inv, ServedInv, [Next]_vars PROVE ServedInv'
    OBVIOUS
  <2>1. CASE Next
    BY <2>1, ServedByClients, ServedByServer DEF Next
  <2>2. CASE UNCHANGED vars
    BY <2>2 DEF vars, server, client, net, ServedInv, Serving
  <2> QED
    BY <2>1, <2>2
<1>3. ServedInv => ConnectedIsServed
  BY DEF ServedInv, ConnectedIsServed, Serving
<1> QED
  BY <1>1, <1>2, <1>3, InvHolds, PTL DEF Spec

-----------------------------------------------------------------------------
(* The sessions, when every thread reads param before it is overwritten *)

\* The uploads among the messages of a queue, and the order of an upload.
Holds(q, f) == \E m \in Range(q) : m[1] = f
Uploads(q) == {m[2] : m \in {x \in Range(q) : x[1] = "U"}}
Before(m, n) ==
    \/ m[1] = "S" /\ n[1] \in {"M", "U", "E"}
    \/ m[1] = "M" /\ n[1] \in {"U", "E"}
    \/ m[1] = "U" /\ n[1] \in {"U", "E"}
InOrder(q) == \A i, j \in DOMAIN q : i < j => Before(q[i], q[j])

\* What a transaction x has written; whether the upload s of a data source is in
\* the database (p) or in x as a whole, or in neither.
Vers(x) == {x[r].ver : r \in {i \in Rows : x[i] # NoRow}}
Whole(d, x, s, p) ==
    \/ In(d, p) = In(d, s)
    \/ In(d, p) = {} /\ (In(d, Vers(x)) = {} \/ In(d, Vers(x)) = In(d, s))

\* What is sent of a data source is in the queue, as long as it is not open;
\* once it is open, the rest is in the transaction.
ReadsUpload(t, x, q, s, p) ==
    /\ InOrder(q)
    /\ \/ /\ \E d \in 1..Dsns : /\ <<"S", d>> \in Range(q)
                                /\ In(d, s) = Uploads(q) /\ In(d, p) = {}
          /\ Vers(x) = {} /\ (t.open = 0 \/ t.ended)
       \/ /\ ~Holds(q, "S") /\ t.open # 0 /\ ~t.ended
          /\ In(t.open, s) = Vers(x) \cup Uploads(q) /\ In(t.open, p) = {}
       \/ /\ ~Holds(q, "S") /\ ~Holds(q, "E") /\ Uploads(q) = {}
          /\ Vers(x) = {} /\ (t.open = 0 \/ t.ended)

Alive(t) == t.pc \in {"start", "auth", "flag", "commit", "select", "delete"}

\* A thread t, its transaction x, its queue q, the upload s and what is kept of it, p.
ThreadOK(t, x, q, s, p) ==
    /\ Vers(x) \cup p \cup Uploads(q) \subseteq s
    /\ \A v, w \in s : v.row = w.row => v = w
    /\ \A r \in Rows : x[r] # NoRow => x[r].ver.row = r
    /\ t.ended \/ Alive(t) =>
           \A d \in 1..Dsns : (t.open = d => t.ended) => Whole(d, x, s, p)
    /\ t.pc \in {"none", "start", "auth"} => t.open = 0 /\ ~t.ended /\ s = {}
    /\ t.pc = "none" => q = << >>
    /\ t.pc \in {"start", "auth"} => \E c \in Clients : q = <<<<"AUTH", c>>>>
    /\ t.pc = "flag" => ReadsUpload(t, x, q, s, p)
    /\ t.pc = "commit" => /\ t.ended /\ t.open # 0 /\ q = << >>
                          /\ In(t.open, s) = Vers(x) /\ In(t.open, p) = {}
    /\ t.pc \in {"select", "delete"} => /\ t.ended /\ t.open # 0 /\ q = << >>
                                        /\ Vers(x) = {} /\ In(t.open, s) \subseteq p

\* The two downloads of data source d, from the message that is read next.
RowsData(m, d) ==
    /\ m[1] \in {"F", "R"}
    /\ \A r \in DOMAIN m[2] : r \in RowsOf(d) /\ m[2][r].row = r
Last(q) == q # << >> /\ Head(q) = <<"E">> /\ Tail(q) = << >>
Deletions(q, d) ==
    /\ q # << >>
    /\ \/ Last(q)
       \/ Head(q)[1] = "R" /\ RowsData(Head(q), d) /\ Last(Tail(q))
Selected(q, d) ==
    /\ q # << >>
    /\ \/ Last(q)
       \/ Head(q)[1] = "F" /\ RowsData(Head(q), d) /\ Last(Tail(q))
Both(q, d) ==
    /\ q # << >>
    /\ \/ Head(q) = <<"E">> /\ Deletions(Tail(q), d)
       \/ /\ Head(q)[1] = "F" /\ RowsData(Head(q), d)
          /\ Tail(q) # << >> /\ Head(Tail(q)) = <<"E">> /\ Deletions(Tail(Tail(q)), d)

\* What is left of them when the statement of one fails after a message with rows.
Part(q, f, d) == q # << >> /\ Head(q)[1] = f /\ RowsData(Head(q), d) /\ Tail(q) = << >>
Second(q, d) == q # << >> /\ Head(q) = <<"E">> /\ Part(Tail(q), "R", d)
CutOff(q, d) ==
    \/ Part(q, "F", d)
    \/ Second(q, d)
    \/ q # << >> /\ Head(q)[1] = "F" /\ RowsData(Head(q), d) /\ Second(Tail(q), d)

OpenOn(d, t, q) == t.pc = "flag" /\ (<<"S", d>> \in Range(q) \/ (t.open = d /\ ~t.ended))
AtDownload(d, t, q, pcs) == t.pc \in pcs /\ t.open = d /\ t.ended /\ q = << >>

\* The downloads that are under way, to a client that has read OK_FLAG or will
\* read it before them: when one has begun, the upload is committed.
Downloading(d, t, q, a, s, p) ==
    \/ a = << >> /\ (Alive(t) => AtDownload(d, t, q, {"commit", "select"}))
    \/ /\ Selected(a, d) /\ In(d, s) \subseteq p
       /\ Alive(t) => AtDownload(d, t, q, {"delete"})
    \/ /\ Both(a, d) /\ In(d, s) \subseteq p
       /\ Alive(t) => AtDownload(d, t, q, {"flag"})
    \/ CutOff(a, d) /\ In(d, s) \subseteq p /\ ~Alive(t)

\* What a client in state pc can find under way, to it (a) and from it (q).
Talk(pc, d, t, q, a, s, p) ==
    /\ pc = "ack" =>
         \/ a = << >> /\ (Alive(t) => t.pc \in {"start", "auth"})
         \/ /\ a # << >> /\ Tail(a) = << >>
            /\ Alive(t) => t.pc = "flag" /\ q = << >> /\ t.open = 0 /\ ~t.ended
    /\ pc = "dsn" => /\ a = << >>
                     /\ Alive(t) => t.pc = "flag" /\ q = << >> /\ (t.open = 0 \/ t.ended)
    /\ pc = "table" => /\ a = << >>
                       /\ Alive(t) => OpenOn(d, t, q) /\ Range(q) \subseteq {<<"S", d>>}
    /\ pc = "upload" => /\ a = << >>
                        /\ Alive(t) => /\ OpenOn(d, t, q)
                                       /\ \A m \in Range(q) : m[1] \in {"S", "M", "U"}
    /\ pc = "ok" =>
         \/ a = << >> /\ (Alive(t) => OpenOn(d, t, q) /\ Holds(q, "E"))
         \/ a # << >> /\ Head(a) = <<"K">> /\ Downloading(d, t, q, Tail(a), s, p)
    /\ pc = "select" => Downloading(d, t, q, a, s, p)
    /\ pc = "delete" =>
         /\ In(d, s) \subseteq p
         /\ \/ a = << >> /\ (Alive(t) => AtDownload(d, t, q, {"delete"}))
            \/ Deletions(a, d) /\ (Alive(t) => AtDownload(d, t, q, {"flag"}))
            \/ Part(a, "R", d) /\ ~Alive(t)
    /\ pc = "quit" => a = << >> /\ (Alive(t) => t.pc = "flag" /\ q = << >>)
    /\ pc = "bye" /\ Alive(t) => t.pc = "flag" /\ Range(q) \subseteq {<<"A">>}

\* A client program l with the versions v and the change log g.
ClientOK(l, v, g, t, x, q, a, s, p) ==
    /\ \A d \in 1..Dsns :
           (IF l.pc \in {"ack", "dsn", "table"} THEN d >= l.dsn ELSE d > l.dsn) => In(d, s) = {}
    /\ l.up \subseteq RowsOf(l.dsn) /\ \A u \in s : u.row \notin l.up
    /\ l.pc # "upload" => l.up = {}
    /\ l.pc \in {"upload", "ok", "select", "delete"} =>
           \A r \in g \cap RowsOf(l.dsn) : r \in l.up \/ v[r] \in s
    /\ l.pc = "upload" /\ t.ended => In(l.dsn, p \cup Vers(x)) = {}
    /\ Talk(l.pc, l.dsn, t, q, a, s, p)

\* Each thread serves the socket of its number, each client has a connection of
\* its own, and a version is one of the row that holds it.
SocketInv ==
    /\ \A k \in Conns :
        /\ thr[k].pc = "start" => param = k
        /\ thr[k].pc \in Working => thr[k].sock = k
        /\ (thr[k].pc = "none") = (conn[k] = "none")
        /\ (thr[k].pc = "done") = (conn[k] = "closed")
        /\ conn[k] = "none" => toCli[k] = << >>
    /\ \A c \in Clients : cli[c].pc # "off" =>
        /\ conn[cli[c].conn] \in {"open", "closed"}
        /\ \A b \in Clients \ {c} : cli[b].pc # "off" => cli[b].conn # cli[c].conn
VersionInv ==
    /\ \A r \in Rows : rows[r].ver.row = r
    /\ \A c \in Clients, r \in Rows : local[c][r].row = r
TOK(k) == ThreadOK(thr[k], txn[k], toSrv[k], sent[k], kept[k])
COK(c, k) ==
    ClientOK(cli[c], local[c], changed[c], thr[k], txn[k], toSrv[k], toCli[k], sent[k], kept[k])
SessionsInv ==
    /\ \A k \in Conns : TOK(k)
    /\ \A c \in Clients : cli[c].pc # "off" => COK(c, cli[c].conn)
SessInv == SocketInv /\ VersionInv /\ SessionsInv

\* The messages of a queue when one is taken off, put on, or when two are joined.
LEMMA RangeHead ==
    ASSUME NEW S, NEW q \in Seq(S), q # << >>
    PROVE  Range(q) = {Head(q)} \cup Range(Tail(q))
<1>1. /\ Len(q) \in Nat /\ DOMAIN q = 1..Len(q) /\ q \in [1..Len(q) -> S]
      /\ Tail(q) \in Seq(S) /\ Len(Tail(q)) = Len(q) - 1
      /\ \A i \in 1..Len(Tail(q)) : Tail(q)[i] = q[i + 1]
      /\ Len(q) # 0 /\ Head(q) = q[1]
  BY EmptySeq, LenProperties, HeadTailProperties
<1>2. DOMAIN Tail(q) = 1..Len(Tail(q))
  BY <1>1, LenProperties
<1>3. ASSUME NEW i \in DOMAIN q PROVE q[i] \in {Head(q)} \cup Range(Tail(q))
  <2>1. CASE i = 1
    BY <1>1, <2>1
  <2>2. CASE i # 1
    <3>1. i - 1 \in DOMAIN Tail(q) /\ Tail(q)[i - 1] = q[i]
      BY <1>1, <1>2, <2>2
    <3> QED
      BY <3>1 DEF Range
  <2> QED
    BY <2>1, <2>2
<1>4. ASSUME NEW i \in DOMAIN Tail(q) PROVE i + 1 \in DOMAIN q /\ q[i + 1] = Tail(q)[i]
  BY <1>1, <1>2
<1>5. 1 \in DOMAIN q
  BY <1>1
<1> QED
  BY <1>1, <1>3, <1>4, <1>5 DEF Range

LEMMA RangeAppend ==
    ASSUME NEW S, NEW q \in Seq(S), NEW m \in S
    PROVE  Range(Append(q, m)) = Range(q) \cup {m}
<1> DEFINE a == Append(q, m)
<1>1. /\ Len(q) \in Nat /\ DOMAIN q = 1..Len(q) /\ a \in Seq(S) /\ Len(a) = Len(q) + 1
      /\ \A i \in 1..Len(q) : a[i] = q[i]
      /\ a[Len(q) + 1] = m
  BY LenProperties, AppendProperties
<1>2. DOMAIN a = 1..Len(a)
  BY <1>1, LenProperties
<1> HIDE DEF a
<1>3. Range(a) = Range(q) \cup {m}
  BY <1>1, <1>2 DEF Range
<1> QED
  BY <1>3 DEF a

LEMMA RangeNone == \A q : Range(<< >>) = {} /\ (\A S : q \in Seq(S) /\ Range(q) = {} => q = << >>)
<1>1. Range(<< >>) = {}
  BY DEF Range
<1>2. ASSUME NEW S, NEW q \in Seq(S), q # << >> PROVE Range(q) # {}
  BY <1>2, RangeHead
<1> QED
  BY <1>1, <1>2

LEMMA HeadTailConcat ==
    ASSUME NEW S, NEW q \in Seq(S), NEW r \in Seq(S), q # << >>
    PROVE  q \o r # << >> /\ Head(q \o r) = Head(q) /\ Tail(q \o r) = Tail(q) \o r
<1> DEFINE a == q \o r
           b == Tail(q) \o r
<1>1. /\ Len(q) \in Nat \ {0} /\ Len(r) \in Nat /\ Tail(q) \in Seq(S) /\ Len(Tail(q)) = Len(q) - 1
      /\ \A i \in 1..Len(Tail(q)) : Tail(q)[i] = q[i + 1]
  BY EmptySeq, LenProperties, HeadTailProperties
<1>2. /\ a \in Seq(S) /\ Len(a) = Len(q) + Len(r)
      /\ \A i \in 1..Len(q) + Len(r) : a[i] = IF i <= Len(q) THEN q[i] ELSE r[i - Len(q)]
  BY ConcatProperties
<1>3. /\ b \in Seq(S) /\ Len(b) = Len(q) - 1 + Len(r)
      /\ \A i \in 1..Len(q) - 1 + Len(r) : b[i] = IF i <= Len(q) - 1 THEN Tail(q)[i] ELSE r[i - (Len(q) - 1)]
  BY <1>1, ConcatProperties
<1> HIDE DEF a, b
<1>4. a # << >>
  BY <1>1, <1>2, EmptySeq
<1>5. /\ Tail(a) \in Seq(S) /\ Len(Tail(a)) = Len(a) - 1
      /\ \A i \in 1..Len(Tail(a)) : Tail(a)[i] = a[i + 1]
      /\ Head(a) = a[1] /\ Head(q) = q[1]
  BY <1>2, <1>4, HeadTailProperties
<1>6. Head(a) = Head(q)
  BY <1>1, <1>2, <1>5
<1>7. Len(Tail(a)) = Len(b) /\ \A i \in 1..Len(Tail(a)) : Tail(a)[i] = b[i]
  <2>1. Len(Tail(a)) = Len(b)
    BY <1>1, <1>2, <1>3, <1>5
  <2>2. ASSUME NEW i \in 1..Len(Tail(a)) PROVE Tail(a)[i] = b[i]
    <3>1. Tail(a)[i] = a[i + 1]
      BY <1>5
    <3>2. CASE i <= Len(q) - 1
      BY <1>1, <1>2, <1>3, <1>5, <3>1, <3>2
    <3>3. CASE i > Len(q) - 1
      BY <1>1, <1>2, <1>3, <1>5, <3>1, <3>3
    <3> QED
      BY <1>1, <1>5, <3>2, <3>3
  <2> QED
    BY <2>1, <2>2
<1>8. Tail(a) = b
  BY <1>3, <1>5, <1>7, SeqEqual
<1> QED
  BY <1>4, <1>6, <1>8 DEF a, b

\* Order is kept when the first message is read and when one is sent that comes
\* after all others.
LEMMA OrderTail ==
    ASSUME NEW S, NEW q \in Seq(S), q # << >>, InOrder(q)
    PROVE  InOrder(Tail(q)) /\ \A n \in Range(Tail(q)) : Before(Head(q), n)
<1>1. /\ Len(q) \in Nat /\ DOMAIN q = 1..Len(q) /\ Len(q) # 0 /\ Head(q) = q[1]
      /\ Tail(q) \in Seq(S) /\ Len(Tail(q)) = Len(q) - 1
      /\ \A i \in 1..Len(Tail(q)) : Tail(q)[i] = q[i + 1]
  BY EmptySeq, LenProperties, HeadTailProperties
<1>2. DOMAIN Tail(q) = 1..Len(Tail(q))
  BY <1>1, LenProperties
<1>3. ASSUME NEW i \in DOMAIN Tail(q)
      PROVE  /\ i + 1 \in DOMAIN q /\ 1 \in DOMAIN q /\ 1 < i + 1 /\ Tail(q)[i] = q[i + 1]
             /\ i \in Nat
  BY <1>1, <1>2
<1>4. ASSUME NEW i \in DOMAIN Tail(q), NEW j \in DOMAIN Tail(q), i < j
      PROVE  Before(Tail(q)[i], Tail(q)[j])
  <2>1. i + 1 < j + 1
    BY <1>3, <1>4
  <2> QED
    BY <1>3, <2>1 DEF InOrder
<1>5. ASSUME NEW i \in DOMAIN Tail(q) PROVE Before(Head(q), Tail(q)[i])
  BY <1>1, <1>3 DEF InOrder
<1> QED
  BY <1>4, <1>5 DEF InOrder, Range

LEMMA OrderAppend ==
    ASSUME NEW S, NEW q \in Seq(S), NEW m \in S, InOrder(q), \A n \in Range(q) : Before(n, m)
    PROVE  InOrder(Append(q, m))
<1> DEFINE a == Append(q, m)
<1>1. /\ Len(q) \in Nat /\ DOMAIN q = 1..Len(q) /\ a \in Seq(S) /\ Len(a) = Len(q) + 1
      /\ \A i \in 1..Len(q) : a[i] = q[i]
      /\ a[Len(q) + 1] = m
  BY LenProperties, AppendProperties
<1>2. DOMAIN a = 1..Len(a)
  BY <1>1, LenProperties
<1> HIDE DEF a
<1>3. ASSUME NEW i \in DOMAIN a, NEW j \in DOMAIN a, i < j
      PROVE  Before(a[i], a[j])
  <2>1. i \in DOMAIN q /\ a[i] = q[i]
    BY <1>1, <1>2, <1>3
  <2>2. CASE j = Len(q) + 1
    BY <1>1, <2>1, <2>2 DEF Range
  <2>3. CASE j # Len(q) + 1
    <3>1. j \in DOMAIN q /\ a[j] = q[j]
      BY <1>1, <1>2, <2>3
    <3> QED
      BY <1>3, <2>1, <3>1 DEF InOrder
  <2> QED
    BY <2>2, <2>3
<1>4. InOrder(a)
  BY <1>3 DEF InOrder
<1> QED
  BY <1>4 DEF a

LEMMA QueueEmpty == Uploads(<< >>) = {} /\ (\A f : ~Holds(<< >>, f)) /\ InOrder(<< >>)
BY RangeNone DEF Uploads, Holds, InOrder

LEMMA UploadsHead ==
    ASSUME NEW S, NEW q \in Seq(S), q # << >>
    PROVE  /\ Uploads(Tail(q)) \subseteq Uploads(q)
           /\ Head(q)[1] = "U" => Uploads(q) = Uploads(Tail(q)) \cup {Head(q)[2]}
           /\ Head(q)[1] # "U" => Uploads(q) = Uploads(Tail(q))
           /\ \A f : Holds(q, f) <=> (Head(q)[1] = f \/ Holds(Tail(q), f))
<1>1. Range(q) = {Head(q)} \cup Range(Tail(q))
  BY RangeHead
<1> QED
  BY <1>1 DEF Uploads, Holds

LEMMA UploadsAppend ==
    ASSUME NEW S, NEW q \in Seq(S), NEW m \in S
    PROVE  /\ m[1] = "U" => Uploads(Append(q, m)) = Uploads(q) \cup {m[2]}
           /\ m[1] # "U" => Uploads(Append(q, m)) = Uploads(q)
           /\ \A f : Holds(Append(q, m), f) <=> (m[1] = f \/ Holds(q, f))
<1>1. Range(Append(q, m)) = Range(q) \cup {m}
  BY RangeAppend
<1> QED
  BY <1>1 DEF Uploads, Holds

\* The name of a data source comes first in its queue, the end of an upload last.
LEMMA FirstAndLast ==
    ASSUME NEW S, NEW q \in Seq(S), q # << >>, InOrder(q)
    PROVE  /\ InOrder(Tail(q)) /\ ~Holds(Tail(q), "S")
           /\ \A d : <<"S", d>> \in Range(q) => Head(q) = <<"S", d>>
           /\ Head(q)[1] \in {"E", "A"} => Tail(q) = << >>
<1>1. InOrder(Tail(q)) /\ \A n \in Range(Tail(q)) : Before(Head(q), n)
  BY OrderTail
<1>2. Range(q) = {Head(q)} \cup Range(Tail(q)) /\ Tail(q) \in Seq(S)
  BY RangeHead, QueueHead
<1>3. ~Holds(Tail(q), "S")
  BY <1>1 DEF Before, Holds
<1>4. ASSUME NEW d, <<"S", d>> \in Range(q) PROVE Head(q) = <<"S", d>>
  BY <1>2, <1>3, <1>4 DEF Holds
<1>5. ASSUME Head(q)[1] \in {"E", "A"} PROVE Tail(q) = << >>
  <2>1. Range(Tail(q)) = {}
    BY <1>1, <1>5 DEF Before
  <2> QED
    BY <1>2, <2>1, RangeNone
<1> QED
  BY <1>1, <1>3, <1>4, <1>5

\* A queue on which a client has put the name of d, or its rows, is in one of two states.
LEMMA OpenOnCases ==
    ASSUME NEW t, NEW x, NEW q \in Seq(Request), NEW s, NEW p, NEW d \in 1..Dsns,
           ReadsUpload(t, x, q, s, p), OpenOn(d, t, q)
    PROVE  \/ /\ q # << >> /\ Head(q) = <<"S", d>> /\ In(d, s) = Uploads(q) /\ In(d, p) = {}
              /\ Vers(x) = {} /\ (t.open = 0 \/ t.ended)
           \/ /\ ~Holds(q, "S") /\ t.open = d /\ ~t.ended
              /\ In(d, s) = Vers(x) \cup Uploads(q) /\ In(d, p) = {}
<1>1. 0 \notin 1..Dsns
  BY SyncAssumption
<1>2. CASE <<"S", d>> \in Range(q)
  <2>1. q # << >> /\ Head(q) = <<"S", d>> /\ Holds(q, "S")
    BY <1>2, FirstAndLast, RangeNone DEF ReadsUpload, Holds
  <2>2. \A e \in 1..Dsns : <<"S", e>> \in Range(q) => e = d
    BY <2>1, FirstAndLast DEF ReadsUpload
  <2> QED
    BY <2>1, <2>2 DEF ReadsUpload
<1>3. CASE t.open = d /\ ~t.ended
  BY <1>1, <1>3 DEF ReadsUpload
<1> QED
  BY <1>2, <1>3 DEF OpenOn

LEMMA OneOrTwo ==
    /\ \A m : <<m>> # << >> /\ Head(<<m>>) = m /\ Tail(<<m>>) = << >>
    /\ \A m, n : <<m, n>> # << >> /\ Head(<<m, n>>) = m /\ Tail(<<m, n>>) = <<n>>
OBVIOUS

LEMMA LastIsLast == Last(<<<<"E">>>>)
BY OneOrTwo DEF Last

\* The messages of the two downloads, one after the other.
LEMMA BothDownloads ==
    ASSUME NEW d, NEW a \in Seq(Answer), NEW b \in Seq(Answer), Selected(a, d), Deletions(b, d)
    PROVE  Both(a \o b, d)
<1>1. a # << >> /\ b # << >>
  BY DEF Selected, Deletions
<1>2. a \o b # << >> /\ Head(a \o b) = Head(a) /\ Tail(a \o b) = Tail(a) \o b
  BY <1>1, HeadTailConcat
<1>3. << >> \o b = b /\ Tail(a) \in Seq(Answer)
  BY <1>1, ConcatEmptySeq, QueueHead
<1>4. CASE Last(a)
  BY <1>2, <1>3, <1>4 DEF Last, Both
<1>5. CASE Head(a)[1] = "F" /\ RowsData(Head(a), d) /\ Last(Tail(a))
  <2>1. /\ Tail(a) \o b # << >> /\ Head(Tail(a) \o b) = Head(Tail(a))
        /\ Tail(Tail(a) \o b) = Tail(Tail(a)) \o b
    BY <1>3, <1>5, HeadTailConcat DEF Last
  <2> QED
    BY <1>2, <1>3, <1>5, <2>1 DEF Last, Both
<1> QED
  BY <1>4, <1>5 DEF Selected

LEMMA ThreadTypes ==
    ASSUME Inv, SessInv, NEW k \in Conns
    PROVE  /\ thr[k] \in Thread /\ txn[k] \in [Rows -> Stored \cup {NoRow}] /\ toSrv[k] \in Seq(Request)
           /\ toCli[k] \in Seq(Answer) /\ sent[k] \subseteq Version /\ kept[k] \subseteq Version
           /\ TOK(k) /\ (thr[k].pc \in Working => thr[k].sock = k)
BY DEF Inv, DataInv, ThreadInv, NetInv, SessInv, SocketInv, SessionsInv

\* A client on the connection of a working thread.
LEMMA ClientTypes ==
    ASSUME Inv, SessInv, NEW c \in Clients, cli[c].pc # "off", NEW k \in Conns, cli[c].conn = k
    PROVE  /\ cli[c] \in Program /\ COK(c, k) /\ thr[k].pc # "none"
           /\ thr[k].pc # "done" => conn[k] = "open"
BY DEF Inv, ClientInv, SessInv, SocketInv, SessionsInv

\* A client keeps its invariant when the thread goes on as it expects.
LEMMA ClientKept ==
    ASSUME Inv, SessInv, NEW c \in Clients, cli[c].pc # "off", NEW k \in Conns, cli[c].conn = k,
           UNCHANGED client,
           cli[c].pc = "upload" /\ thr'[k].ended => In(cli[c].dsn, kept'[k] \cup Vers(txn'[k])) = {},
           Talk(cli[c].pc, cli[c].dsn, thr'[k], toSrv'[k], toCli'[k], sent[k], kept'[k])
    PROVE  COK(c, k)'
BY ClientTypes DEF client, COK, ClientOK

\* When the thread gives up, it may keep or drop its transaction and its queue.
LEMMA ThreadEnds ==
    ASSUME Inv, SessInv, NEW k \in Conns, UNCHANGED client,
           ~Alive(thr'[k]), thr'[k].pc # "none", thr'[k].ended = thr[k].ended,
           Uploads(toSrv'[k]) \subseteq Uploads(toSrv[k]),
           \/ txn'[k] = txn[k] /\ kept'[k] = kept[k]
           \/ /\ txn'[k] = [r \in Rows |-> NoRow]
              /\ kept'[k] = kept[k] \/ kept'[k] = kept[k] \cup Vers(txn[k])
    PROVE  TOK(k)'
<1> DEFINE t == thr[k]
           t2 == thr'[k]
           x == txn[k]
           x2 == txn'[k]
           q == toSrv[k]
           q2 == toSrv'[k]
           s == sent[k]
           p == kept[k]
           p2 == kept'[k]
<1>1. ThreadOK(t, x, q, s, p)
  BY ThreadTypes DEF TOK
<1>2. TOK(k)' <=> ThreadOK(t2, x2, q2, s, p2)
  BY DEF TOK, client
<1>3. /\ ~Alive(t2) /\ t2.pc # "none" /\ t2.ended = t.ended /\ Uploads(q2) \subseteq Uploads(q)
      /\ \/ x2 = x /\ p2 = p
         \/ x2 = [r \in Rows |-> NoRow] /\ (p2 = p \/ p2 = p \cup Vers(x))
  OBVIOUS
<1> HIDE DEF t, t2, x, x2, q, q2, s, p, p2
<1>4. x2 = [r \in Rows |-> NoRow] => Vers(x2) = {} /\ \A r \in Rows : x2[r] = NoRow
  BY DEF Vers
<1>5. Vers(x2) \subseteq Vers(x) /\ p \subseteq p2 /\ p2 \subseteq p \cup Vers(x)
  BY <1>3, <1>4
<1>6. ASSUME NEW d \in 1..Dsns, Whole(d, x, s, p) PROVE Whole(d, x2, s, p2)
  <2>1. Vers(x) \subseteq s /\ p \subseteq s
    BY <1>1 DEF ThreadOK
  <2>2. CASE In(d, p) = In(d, s)
    BY <1>5, <2>1, <2>2 DEF Whole, In
  <2>3. CASE In(d, p) = {} /\ (In(d, Vers(x)) = {} \/ In(d, Vers(x)) = In(d, s))
    <3>1. CASE x2 = x /\ p2 = p
      BY <2>3, <3>1 DEF Whole
    <3>2. CASE x2 = [r \in Rows |-> NoRow] /\ p2 = p
      BY <1>4, <2>3, <3>2 DEF Whole, In
    <3>3. CASE x2 = [r \in Rows |-> NoRow] /\ p2 = p \cup Vers(x)
      <4>1. In(d, p2) = In(d, p) \cup In(d, Vers(x)) /\ In(d, Vers(x2)) = {}
        BY <1>4, <3>3 DEF In
      <4> QED
        BY <2>3, <4>1 DEF Whole
    <3> QED
      BY <1>3, <3>1, <3>2, <3>3
  <2> QED
    BY <1>6, <2>2, <2>3 DEF Whole
<1>7. t2.pc \notin {"none", "start", "auth", "flag", "commit", "select", "delete"}
  BY <1>3 DEF Alive
<1>8. /\ Vers(x2) \cup p2 \cup Uploads(q2) \subseteq s
      /\ \A r \in Rows : x2[r] # NoRow => x2[r].ver.row = r
      /\ \A v, w \in s : v.row = w.row => v = w
  BY <1>1, <1>3, <1>4, <1>5 DEF ThreadOK
<1>9. t2.ended \/ Alive(t2) => \A d \in 1..Dsns : (t2.open = d => t2.ended) => Whole(d, x2, s, p2)
  BY <1>1, <1>3, <1>6 DEF ThreadOK
<1> QED
  BY <1>2, <1>7, <1>8, <1>9 DEF ThreadOK

\* A client notices nothing of it.
LEMMA EndKeepsClient ==
    ASSUME Inv, SessInv, NEW k \in Conns, UNCHANGED client, ~Alive(thr'[k]),
           thr'[k].ended = thr[k].ended, kept[k] \subseteq kept'[k],
           kept'[k] \cup Vers(txn'[k]) \subseteq kept[k] \cup Vers(txn[k]),
           NEW c \in Clients, cli[c].pc # "off", cli[c].conn = k,
           toCli'[k] = toCli[k] \/ cli[c].pc = "bye"
    PROVE  COK(c, k)'
<1> DEFINE t == thr[k]
           t2 == thr'[k]
           q == toSrv[k]
           q2 == toSrv'[k]
           a == toCli[k]
           a2 == toCli'[k]
           s == sent[k]
           p == kept[k]
           p2 == kept'[k]
           pc == cli[c].pc
           d == cli[c].dsn
<1>1. Talk(pc, d, t, q, a, s, p)
  BY ClientTypes DEF COK, ClientOK
<1>2. pc = "upload" /\ t2.ended => In(d, p2 \cup Vers(txn'[k])) = {}
  <2>1. pc = "upload" /\ t.ended => In(d, p \cup Vers(txn[k])) = {}
    BY ClientTypes DEF COK, ClientOK
  <2> QED
    BY <2>1 DEF In
<1>3. p \subseteq p2 /\ (a2 = a \/ pc = "bye") /\ ~Alive(t2)
  OBVIOUS
<1> HIDE DEF t, t2, q, q2, a, a2, s, p, p2, pc, d
<1>4. Downloading(d, t, q, a, s, p) => Downloading(d, t2, q2, a, s, p2)
  BY <1>3 DEF Downloading
<1>5. Downloading(d, t, q, Tail(a), s, p) => Downloading(d, t2, q2, Tail(a), s, p2)
  BY <1>3 DEF Downloading
<1>6. Talk(pc, d, t2, q2, a2, s, p2)
  BY <1>1, <1>3, <1>4, <1>5 DEF Talk
<1> QED
  BY <1>2, <1>6, ClientKept DEF t2, q2, a2, s, p2, pc, d

\* What a thread reads comes first in its own queue.
LEMMA ReadsFirst ==
    ASSUME Inv, SessInv, NEW k \in Conns, NEW pc \in Working, NEW f, Reads(k, pc, f), Consume(k)
    PROVE  /\ thr[k].pc = pc /\ toSrv[k] # << >> /\ Head(toSrv[k]) \in Request /\ Head(toSrv[k])[1] = f
           /\ Body(k) = Head(toSrv[k])[2] /\ toSrv' = [toSrv EXCEPT ![k] = Tail(toSrv[k])]
           /\ toSrv'[k] = Tail(toSrv[k]) /\ Uploads(toSrv'[k]) \subseteq Uploads(toSrv[k])
           /\ f # "U" => Uploads(toSrv'[k]) = Uploads(toSrv[k])
           /\ f \in {"E", "A"} /\ pc = "flag" => toSrv'[k] = << >>
           /\ pc = "flag" => InOrder(toSrv[k]) /\ InOrder(toSrv'[k]) /\ ~Holds(toSrv'[k], "S")
           /\ pc = "flag" /\ f # "S" => ~Holds(toSrv[k], "S")
<1>1. thr[k].pc = pc /\ thr[k].sock = k
  BY ThreadTypes DEF Reads
<1>2. /\ toSrv[k] # << >> /\ Head(toSrv[k]) \in Request /\ Head(toSrv[k])[1] = f
      /\ Body(k) = Head(toSrv[k])[2]
  BY <1>1, RequestRead DEF Body
<1>3. toSrv' = [toSrv EXCEPT ![k] = Tail(toSrv[k])] /\ toSrv \in [Conns -> Seq(Request)]
  BY <1>1 DEF Consume, Inv, NetInv
<1>4. toSrv'[k] = Tail(toSrv[k]) /\ toSrv[k] \in Seq(Request)
  BY <1>3
<1>5. pc = "flag" => InOrder(toSrv[k])
  BY <1>1, ThreadTypes DEF TOK, ThreadOK, ReadsUpload
<1> QED
  BY <1>1, <1>2, <1>3, <1>4, <1>5, UploadsHead, FirstAndLast

\* The client of a thread that has a request to read has opened, or will open, the
\* data source it is at; or it takes its leave.
LEMMA WhoRequests ==
    ASSUME Inv, SessInv, NEW k \in Conns, thr[k].pc = "flag", toSrv[k] # << >>,
           NEW c \in Clients, cli[c].pc # "off", cli[c].conn = k
    PROVE  \/ /\ cli[c].pc \in {"table", "upload", "ok"} /\ toCli[k] = << >>
              /\ OpenOn(cli[c].dsn, thr[k], toSrv[k])
              /\ cli[c].pc = "table" => Range(toSrv[k]) \subseteq {<<"S", cli[c].dsn>>}
              /\ cli[c].pc = "upload" => \A m \in Range(toSrv[k]) : m[1] \in {"S", "M", "U"}
              /\ cli[c].pc = "ok" => Holds(toSrv[k], "E")
           \/ cli[c].pc = "bye" /\ Range(toSrv[k]) \subseteq {<<"A">>}
<1> DEFINE t == thr[k]
           q == toSrv[k]
           a == toCli[k]
           pc == cli[c].pc
           d == cli[c].dsn
<1>1. Talk(pc, d, t, q, a, sent[k], kept[k]) /\ Alive(t) /\ t.pc = "flag" /\ q # << >>
  BY ClientTypes DEF COK, ClientOK, Alive
<1>2. pc \in {"ack", "dsn", "table", "upload", "ok", "select", "delete", "quit", "bye"}
  BY ClientTypes DEF Program
<1> HIDE DEF t, q, a, pc, d
<1>3. pc \in {"table", "upload", "ok", "bye"}
  BY <1>1, <1>2 DEF Talk, Downloading, AtDownload
<1>4. pc \in {"table", "upload", "ok"} => a = << >> /\ OpenOn(d, t, q)
  BY <1>1 DEF Talk, Downloading, AtDownload
<1>5. /\ pc = "table" => Range(q) \subseteq {<<"S", d>>}
      /\ pc = "upload" => \A m \in Range(q) : m[1] \in {"S", "M", "U"}
      /\ pc = "ok" => Holds(q, "E")
      /\ pc = "bye" => Range(q) \subseteq {<<"A">>}
  BY <1>1 DEF Talk, Downloading, AtDownload
<1> QED
  BY <1>3, <1>4, <1>5 DEF t, q, a, pc, d

\* A request that is read and leaves the data source open, or opens it, keeps the client.
LEMMA RequestKeepsClient ==
    ASSUME Inv, SessInv, NEW k \in Conns, thr[k].pc = "flag", toSrv[k] # << >>, UNCHANGED client,
           toSrv'[k] = Tail(toSrv[k]), toCli'[k] = toCli[k], kept[k] \subseteq kept'[k],
           Head(toSrv[k])[1] \in {"S", "M", "U"},
           NEW c \in Clients, cli[c].pc # "off", cli[c].conn = k,
           OpenOn(cli[c].dsn, thr[k], toSrv[k]) =>
               /\ OpenOn(cli[c].dsn, thr'[k], Tail(toSrv[k]))
               /\ thr'[k].ended => In(cli[c].dsn, kept'[k] \cup Vers(txn'[k])) = {}
    PROVE  COK(c, k)'
<1> DEFINE t == thr[k]
           t2 == thr'[k]
           q == toSrv[k]
           a == toCli[k]
           pc == cli[c].pc
           d == cli[c].dsn
<1>1. toSrv[k] \in Seq(Request)
  BY ThreadTypes
<1>2. /\ Range(q) = {Head(q)} \cup Range(Tail(q))
      /\ Holds(q, "E") => Holds(Tail(q), "E")
  BY <1>1, RangeHead, UploadsHead
<1>3. \/ /\ pc \in {"table", "upload", "ok"} /\ a = << >> /\ OpenOn(d, t, q)
         /\ pc = "table" => Range(q) \subseteq {<<"S", d>>}
         /\ pc = "upload" => \A m \in Range(q) : m[1] \in {"S", "M", "U"}
         /\ pc = "ok" => Holds(q, "E")
      \/ pc = "bye" /\ Range(q) \subseteq {<<"A">>}
  BY WhoRequests
<1>4. OpenOn(d, t, q) =>
        OpenOn(d, t2, Tail(q)) /\ (t2.ended => In(d, kept'[k] \cup Vers(txn'[k])) = {})
  OBVIOUS
<1>5. Head(q)[1] \in {"S", "M", "U"}
  OBVIOUS
<1> HIDE DEF t, t2, q, a, pc, d
<1>6. pc # "bye"
  BY <1>2, <1>3, <1>5
<1>7. Talk(pc, d, t2, Tail(q), a, sent[k], kept'[k])
  BY <1>2, <1>3, <1>4, <1>6 DEF Talk
<1>8. t2.ended => In(d, kept'[k] \cup Vers(txn'[k])) = {}
  BY <1>3, <1>4, <1>6
<1> QED
  BY <1>7, <1>8, ClientKept DEF t2, q, a, pc, d

-----------------------------------------------------------------------------
(* The steps of a thread keep its invariant and that of its client *)

LEMMA SetApplicationOK ==
    ASSUME Inv, SessInv, NEW k \in Conns, SetApplication(k)
    PROVE  TOK(k)' /\ \A c \in Clients : cli[c].pc # "off" /\ cli[c].conn = k => COK(c, k)'
<1>1. Reads(k, "flag", "S") /\ Consume(k) /\ CommitTran(k) /\ UNCHANGED <<toCli, client>>
  BY DEF SetApplication
<1> DEFINE t == thr[k]
           t2 == thr'[k]
           x == txn[k]
           x2 == txn'[k]
           q == toSrv[k]
           q2 == toSrv'[k]
           s == sent[k]
           p == kept[k]
           p2 == kept'[k]
           d == Body(k)
<1>2. /\ t.pc = "flag" /\ q # << >> /\ Head(q)[1] = "S" /\ q2 = Tail(q) /\ Uploads(q2) = Uploads(q)
      /\ InOrder(q) /\ InOrder(q2) /\ ~Holds(q2, "S") /\ q \in Seq(Request) /\ Head(q) \in Request
      /\ d \in 1..Dsns /\ d = Head(q)[2] /\ q2 \in Seq(Request)
  <2>1. "flag" \in Working
    BY DEF Working
  <2>2. /\ t.pc = "flag" /\ q # << >> /\ Head(q)[1] = "S" /\ q2 = Tail(q) /\ Uploads(q2) = Uploads(q)
        /\ InOrder(q) /\ InOrder(q2) /\ ~Holds(q2, "S") /\ d = Head(q)[2] /\ Head(q) \in Request
    BY <1>1, <2>1, ReadsFirst
  <2>3. d \in 1..Dsns
    BY <1>1, <2>1, RequestRead
  <2>4. q \in Seq(Request) /\ Tail(q) \in Seq(Request)
    BY <2>2, ThreadTypes, QueueHead
  <2> QED
    BY <2>2, <2>3, <2>4
<1>3. Head(q) = <<"S", d>>
  BY <1>2 DEF Request
<1>4. x2 = [r \in Rows |-> NoRow] /\ p2 = p \cup Vers(x) /\ txn \in [Conns -> [Rows -> Stored \cup {NoRow}]]
  BY <1>1 DEF CommitTran, Vers, Written, Inv, DataInv
<1>5. ThreadOK(t, x, q, s, p) /\ (TOK(k)' <=> ThreadOK(t2, x2, q2, s, p2))
  BY <1>1, ThreadTypes DEF TOK, client
<1>6. ReadsUpload(t, x, q, s, p) /\ OpenOn(d, t, q)
  BY <1>2, <1>3, <1>5, RangeHead DEF ThreadOK, OpenOn
<1>7. ~Holds(q, "S") => FALSE
  BY <1>2, UploadsHead
<1>8. In(d, s) = Uploads(q) /\ In(d, p) = {} /\ Vers(x) = {} /\ (t.open = 0 \/ t.ended)
  <2> HIDE DEF t, x, q, s, p, d
  <2>1. \/ /\ q # << >> /\ Head(q) = <<"S", d>> /\ In(d, s) = Uploads(q) /\ In(d, p) = {}
           /\ Vers(x) = {} /\ (t.open = 0 \/ t.ended)
        \/ /\ ~Holds(q, "S") /\ t.open = d /\ ~t.ended
           /\ In(d, s) = Vers(x) \cup Uploads(q) /\ In(d, p) = {}
    <3>1. d \in 1..Dsns /\ q \in Seq(Request) /\ ReadsUpload(t, x, q, s, p) /\ OpenOn(d, t, q)
      BY <1>2, <1>6
    <3> QED
      BY <3>1, OpenOnCases
  <2> QED
    BY <1>7, <2>1
<1>9. p2 = p /\ Vers(x2) = {} /\ \A r \in Rows : x2[r] = NoRow
  BY <1>4, <1>8 DEF Vers
<1>10. \/ t2.pc = "flag" /\ t2.open = d /\ t2.ended = FALSE
       \/ t2.pc = "error" /\ t2.ended = t.ended
  BY ApplicationSet
<1>11. CASE t2.pc = "error" /\ t2.ended = t.ended
  <2>1. TOK(k)'
    <3>1. ~Alive(thr'[k]) /\ thr'[k].pc # "none" /\ thr'[k].ended = thr[k].ended
      BY <1>11 DEF Alive
    <3>2. Uploads(toSrv'[k]) \subseteq Uploads(toSrv[k])
      BY <1>2
    <3> QED
      BY <1>1, <1>4, <1>9, <3>1, <3>2, ThreadEnds
  <2>2. ASSUME NEW c \in Clients, cli[c].pc # "off", cli[c].conn = k PROVE COK(c, k)'
    <3>1. ~Alive(thr'[k]) /\ thr'[k].ended = thr[k].ended
      BY <1>11 DEF Alive
    <3>2. kept[k] \subseteq kept'[k] /\ kept'[k] \cup Vers(txn'[k]) \subseteq kept[k] \cup Vers(txn[k])
      BY <1>9
    <3> QED
      BY <1>1, <2>2, <3>1, <3>2, EndKeepsClient
  <2> QED
    BY <2>1, <2>2
<1>12. CASE t2.pc = "flag" /\ t2.open = d /\ t2.ended = FALSE
  <2>1. TOK(k)'
    <3>0. d # 0
      BY <1>2, SyncAssumption
    <3> HIDE DEF t, t2, x, x2, q, q2, s, p, p2, d
    <3>1. ReadsUpload(t2, x2, q2, s, p2)
      BY <1>2, <1>8, <1>9, <1>12, <3>0 DEF ReadsUpload
    <3>2. ASSUME NEW e \in 1..Dsns PROVE Whole(e, x2, s, p2)  \/ e = d
      <4>1. e # d => Whole(e, x, s, p)
        <5>1. Alive(t)
          BY <1>2 DEF Alive
        <5>2. t.open = e => t.ended
          BY <1>8, SyncAssumption
        <5> QED
          BY <1>5, <5>1, <5>2 DEF ThreadOK
      <4> QED
        BY <1>8, <1>9, <4>1 DEF Whole
    <3>3. Vers(x2) \cup p2 \cup Uploads(q2) \subseteq s
      BY <1>2, <1>5, <1>8, <1>9 DEF ThreadOK
    <3>4. /\ \A v, w \in s : v.row = w.row => v = w
          /\ \A r \in Rows : x2[r] # NoRow => x2[r].ver.row = r
      BY <1>5, <1>9 DEF ThreadOK
    <3> QED
      BY <1>5, <1>12, <3>1, <3>2, <3>3, <3>4 DEF ThreadOK
  <2>2. ASSUME NEW c \in Clients, cli[c].pc # "off", cli[c].conn = k PROVE COK(c, k)'
    <3>1. OpenOn(cli[c].dsn, t, q) => OpenOn(cli[c].dsn, t2, Tail(q))
      <4>1. cli[c].dsn \in 1..Dsns
        BY <2>2, ClientTypes DEF Program
      <4>2. OpenOn(cli[c].dsn, t, q) => Head(q) = <<"S", cli[c].dsn>>
        BY <1>2, <1>6, <1>7, <4>1, OpenOnCases
      <4> QED
        BY <1>12, <1>3, <4>2 DEF OpenOn
    <3>2. ~thr'[k].ended
      BY <1>12
    <3> QED
      BY <1>1, <1>2, <1>9, <2>2, <3>1, <3>2, RequestKeepsClient
  <2> QED
    BY <2>1, <2>2
<1> QED
  BY <1>10, <1>11, <1>12

LEMMA SetTableNameOK ==
    ASSUME Inv, SessInv, NEW k \in Conns, SetTableName(k)
    PROVE  TOK(k)' /\ \A c \in Clients : cli[c].pc # "off" /\ cli[c].conn = k => COK(c, k)'
<1> DEFINE t == thr[k]
           t2 == thr'[k]
           x == txn[k]
           q == toSrv[k]
           q2 == toSrv'[k]
           s == sent[k]
           p == kept[k]
<1>1. Reads(k, "flag", "M") /\ Consume(k) /\ UNCHANGED <<toCli, client, txn, kept>>
  BY DEF SetTableName
<1>2. /\ t.pc = "flag" /\ q # << >> /\ Head(q)[1] = "M" /\ q2 = Tail(q) /\ Uploads(q2) = Uploads(q)
      /\ InOrder(q2) /\ ~Holds(q2, "S") /\ ~Holds(q, "S")
  BY <1>1, ReadsFirst DEF Working
<1>3. q \in Seq(Request) /\ ThreadOK(t, x, q, s, p) /\ (TOK(k)' <=> ThreadOK(t2, x, q2, s, p))
  BY <1>1, ThreadTypes DEF TOK, client
<1>4. t2.pc = t.pc /\ t2.open = t.open /\ t2.ended = t.ended
  BY ThreadTypes DEF SetTableName, Thread, Inv, ThreadInv
<1>5. ASSUME NEW c \in Clients, cli[c].pc # "off", cli[c].conn = k PROVE COK(c, k)'
  <2>1. OpenOn(cli[c].dsn, t, q) => OpenOn(cli[c].dsn, t2, Tail(q)) /\ ~t2.ended
    BY <1>2, <1>4 DEF OpenOn, Holds
  <2> QED
    BY <1>1, <1>2, <1>5, <2>1, RequestKeepsClient
<1> HIDE DEF t, t2, x, q, q2, s, p
<1>6. ~Holds(q, "E") => ~Holds(q2, "E")
  BY <1>2, <1>3, UploadsHead
<1>7. ReadsUpload(t2, x, q2, s, p)
  BY <1>2, <1>3, <1>4, <1>6 DEF ThreadOK, ReadsUpload, Holds
<1>8. TOK(k)'
  BY <1>2, <1>3, <1>4, <1>7 DEF ThreadOK, Alive
<1> QED
  BY <1>5, <1>8

LEMMA ProcessScriptOK ==
    ASSUME Inv, SessInv, NEW k \in Conns, ProcessScript(k)
    PROVE  TOK(k)' /\ \A c \in Clients : cli[c].pc # "off" /\ cli[c].conn = k => COK(c, k)'
<1> DEFINE t == thr[k]
           x == txn[k]
           x2 == txn'[k]
           q == toSrv[k]
           q2 == toSrv'[k]
           s == sent[k]
           p == kept[k]
           v == Body(k)
<1>1. Reads(k, "flag", "U") /\ Consume(k) /\ UNCHANGED <<toCli, client, kept>>
  BY DEF ProcessScript
<1>2. /\ t.pc = "flag" /\ q # << >> /\ Head(q)[1] = "U" /\ q2 = Tail(q) /\ v = Head(q)[2]
      /\ InOrder(q2) /\ ~Holds(q2, "S") /\ ~Holds(q, "S") /\ Uploads(q2) \subseteq Uploads(q)
  BY <1>1, ReadsFirst DEF Working
<1>3. q \in Seq(Request) /\ ThreadOK(t, x, q, s, p) /\ s \subseteq Version
  BY <1>1, ThreadTypes DEF TOK
<1>4. v \in Version /\ v.row \in Rows
  BY <1>1, RequestRead, SyncAssumption DEF Working, Version, Original
<1>5. CASE thr' = [thr EXCEPT ![k].pc = "error"] /\ UNCHANGED txn
  <2>1. ~Alive(thr'[k]) /\ thr'[k].pc # "none" /\ thr'[k].ended = thr[k].ended
    BY <1>5, ThreadTypes DEF Alive, Thread, Inv, ThreadInv
  <2>2. TOK(k)'
    BY <1>1, <1>2, <1>5, <2>1, ThreadEnds
  <2>3. ASSUME NEW c \in Clients, cli[c].pc # "off", cli[c].conn = k PROVE COK(c, k)'
    BY <1>1, <1>5, <2>1, <2>3, EndKeepsClient
  <2> QED
    BY <2>2, <2>3
<1>6. CASE txn' = [txn EXCEPT ![k][v.row] = [ver |-> v, mTime |-> now']] /\ UNCHANGED thr
  <2>1. x2 = [x EXCEPT ![v.row] = [ver |-> v, mTime |-> now']] /\ x \in [Rows -> Stored \cup {NoRow}]
    BY <1>6 DEF Inv, DataInv
  <2>2. TOK(k)' <=> ThreadOK(t, x2, q2, s, p)
    BY <1>1, <1>6 DEF TOK, client
  <2>3. ASSUME NEW c \in Clients, cli[c].pc # "off", cli[c].conn = k PROVE COK(c, k)'
    <3>1. OpenOn(cli[c].dsn, t, q) => OpenOn(cli[c].dsn, thr'[k], Tail(q)) /\ ~thr'[k].ended
      BY <1>2, <1>6 DEF OpenOn, Holds
    <3> QED
      BY <1>1, <1>2, <2>3, <3>1, RequestKeepsClient
  <2> HIDE DEF t, x, x2, q, q2, s, p, v
  <2>4. Uploads(q) = Uploads(q2) \cup {v} /\ (Holds(q2, "E") => Holds(q, "E"))
    BY <1>2, <1>3, UploadsHead
  <2>5. /\ t.open # 0 /\ ~t.ended /\ In(t.open, s) = Vers(x) \cup Uploads(q) /\ In(t.open, p) = {}
    BY <1>2, <1>3, <2>4 DEF ThreadOK, ReadsUpload, Holds
  <2>6. Vers(x2) = Vers(x) \cup {v} /\ \A r \in Rows : x2[r] # NoRow => x2[r].ver.row = r
    <3>1. [ver |-> v, mTime |-> now'] # NoRow
      BY DEF NoRow
    <3>2. /\ x2[v.row] = [ver |-> v, mTime |-> now']
          /\ \A r \in Rows : r # v.row => x2[r] = x[r]
      BY <1>4, <2>1
    <3>3. x[v.row] # NoRow => x[v.row].ver = v
      BY <1>3, <1>4, <2>4 DEF ThreadOK, Vers
    <3>4. \A r \in Rows : x[r] # NoRow => x[r].ver.row = r
      BY <1>3 DEF ThreadOK
    <3>5. x2[v.row].ver = v /\ x2[v.row] # NoRow
      BY <3>1, <3>2
    <3>6. ASSUME NEW w \in Vers(x2) PROVE w \in Vers(x) \cup {v}
      BY <3>2, <3>5 DEF Vers
    <3>7. ASSUME NEW w \in Vers(x) PROVE w \in Vers(x2)
      BY <3>2, <3>3, <3>5 DEF Vers
    <3>8. v \in Vers(x2)
      BY <1>4, <3>5 DEF Vers
    <3> QED
      BY <3>2, <3>4, <3>5, <3>6, <3>7, <3>8
  <2>7. ReadsUpload(t, x2, q2, s, p)
    BY <1>2, <2>4, <2>5, <2>6 DEF ReadsUpload
  <2>8. Vers(x2) \cup p \cup Uploads(q2) \subseteq s
    BY <1>3, <2>4, <2>6 DEF ThreadOK
  <2>9. ASSUME NEW d \in 1..Dsns, d # t.open PROVE Whole(d, x2, s, p)
    <3>1. Whole(d, x, s, p)
      BY <1>2, <1>3, <2>9 DEF ThreadOK, Alive
    <3>2. v.row \in Rows /\ DsnOf[v.row] = t.open
      BY <1>4, <2>4, <2>5 DEF In
    <3>3. In(d, Vers(x2)) = In(d, Vers(x))
      BY <2>6, <2>9, <3>2 DEF In
    <3> QED
      BY <3>1, <3>3 DEF Whole
  <2>10. TOK(k)'
    BY <1>2, <1>3, <2>2, <2>5, <2>6, <2>7, <2>8, <2>9 DEF ThreadOK
  <2> QED
    BY <2>3, <2>10
<1> QED
  BY <1>5, <1>6 DEF ProcessScript

\* Nothing a client reads is written by a step that ends the session.
LEMMA EndingOK ==
    ASSUME Inv, SessInv, NEW k \in Conns, UNCHANGED <<client, toCli>>, ~Alive(thr'[k]), thr'[k].pc # "none",
           thr'[k].ended = thr[k].ended, Uploads(toSrv'[k]) \subseteq Uploads(toSrv[k]),
           \/ txn'[k] = txn[k] /\ kept'[k] = kept[k]
           \/ /\ txn'[k] = [r \in Rows |-> NoRow]
              /\ kept'[k] = kept[k] \/ kept'[k] = kept[k] \cup Vers(txn[k])
    PROVE  TOK(k)' /\ \A c \in Clients : cli[c].pc # "off" /\ cli[c].conn = k => COK(c, k)'
<1>1. TOK(k)'
  BY ThreadEnds
<1>2. kept[k] \subseteq kept'[k] /\ kept'[k] \cup Vers(txn'[k]) \subseteq kept[k] \cup Vers(txn[k])
  <2>1. txn'[k] = [r \in Rows |-> NoRow] => Vers(txn'[k]) = {}
    BY DEF Vers
  <2> QED
    BY <2>1
<1>3. ASSUME NEW c \in Clients, cli[c].pc # "off", cli[c].conn = k PROVE COK(c, k)'
  BY <1>2, <1>3, EndKeepsClient
<1> QED
  BY <1>1, <1>3

LEMMA LastStepsOK ==
    ASSUME Inv, SessInv, NEW k \in Conns,
           NetworkError(k) \/ UpdateConnectFlag(k) \/ FreeHandles(k)
    PROVE  TOK(k)' /\ \A c \in Clients : cli[c].pc # "off" /\ cli[c].conn = k => COK(c, k)'
<1>1. thr \in [Conns -> Thread] /\ UNCHANGED <<client, toCli>>
  BY DEF Inv, ThreadInv, NetworkError, UpdateConnectFlag, FreeHandles, net
<1>2. CASE NetworkError(k) \/ UpdateConnectFlag(k)
  <2>1. PICK pc \in {"error", "free"} : thr' = [thr EXCEPT ![k].pc = pc]
    BY <1>2 DEF NetworkError, UpdateConnectFlag
  <2>2. thr'[k].pc = pc /\ thr'[k].ended = thr[k].ended
    BY <1>1, <2>1 DEF Thread
  <2>3. ~Alive(thr'[k]) /\ thr'[k].pc # "none"
    BY <2>2 DEF Alive
  <2>4. UNCHANGED <<txn, kept, toSrv>>
    BY <1>2 DEF NetworkError, UpdateConnectFlag, net
  <2> QED
    BY <1>1, <2>2, <2>3, <2>4, EndingOK
<1>3. CASE FreeHandles(k)
  <2>1. thr'[k] = [NoThread EXCEPT !.pc = "done", !.ended = thr[k].ended]
    BY <1>1, <1>3 DEF FreeHandles
  <2>2. thr'[k].pc = "done" /\ thr'[k].ended = thr[k].ended
    BY <2>1 DEF NoThread
  <2>3. ~Alive(thr'[k]) /\ thr'[k].pc # "none"
    BY <2>2 DEF Alive
  <2>4. Uploads(toSrv'[k]) = {}
    <3>1. thr[k].sock = k
      BY <1>3, ThreadTypes DEF FreeHandles, Working
    <3>2. toSrv'[k] = << >>
      BY <1>3, <3>1 DEF FreeHandles, Inv, NetInv
    <3> QED
      BY <3>2, QueueEmpty
  <2>5. /\ txn'[k] = [r \in Rows |-> NoRow]
        /\ kept'[k] = kept[k] \/ kept'[k] = kept[k] \cup Vers(txn[k])
    BY <1>3 DEF FreeHandles, CommitTran, Rollback, Vers, Written, Inv, DataInv
  <2> QED
    BY <1>1, <2>2, <2>3, <2>4, <2>5, EndingOK
<1> QED
  BY <1>2, <1>3

\* An answer to a client that is attached is put at the end of what is under way to it.
LEMMA Answered ==
    ASSUME Inv, SessInv, NEW k \in Conns, thr[k].pc \in Working, NEW ms, Write(k, ms),
           NEW c \in Clients, cli[c].pc # "off", cli[c].conn = k
    PROVE  toCli'[k] = toCli[k] \o ms
<1>1. conn[k] = "open" /\ thr[k].sock = k
  BY ClientTypes, ThreadTypes DEF Working
<1> QED
  BY <1>1 DEF Write, Inv, NetInv

LEMMA EndSessionOK ==
    ASSUME Inv, SessInv, NEW k \in Conns, EndSession(k)
    PROVE  TOK(k)' /\ \A c \in Clients : cli[c].pc # "off" /\ cli[c].conn = k => COK(c, k)'
<1>1. Reads(k, "flag", "A") /\ Consume(k) /\ UNCHANGED <<client, txn, kept>>
  BY DEF EndSession
<1>2. /\ thr[k].pc = "flag" /\ toSrv[k] # << >> /\ Head(toSrv[k])[1] = "A"
      /\ Uploads(toSrv'[k]) \subseteq Uploads(toSrv[k])
  BY <1>1, ReadsFirst DEF Working
<1>3. thr'[k].pc = "end" /\ thr'[k].ended = thr[k].ended
  BY ThreadTypes DEF EndSession, Thread, Inv, ThreadInv
<1>4. ~Alive(thr'[k]) /\ thr'[k].pc # "none"
  BY <1>3 DEF Alive
<1>5. TOK(k)'
  BY <1>1, <1>2, <1>3, <1>4, ThreadEnds
<1>6. ASSUME NEW c \in Clients, cli[c].pc # "off", cli[c].conn = k PROVE COK(c, k)'
  <2>1. Head(toSrv[k]) \in Range(toSrv[k]) /\ Holds(toSrv[k], "A") /\ InOrder(toSrv[k]) /\ toSrv[k] \in Seq(Request)
    BY <1>1, <1>2, ThreadTypes, ReadsFirst, RangeHead DEF Working, Holds
  <2>2. Tail(toSrv[k]) = << >> /\ Range(toSrv[k]) = {Head(toSrv[k])}
    BY <1>2, <2>1, FirstAndLast, RangeHead, RangeNone
  <2>3. cli[c].pc = "bye"
    <3>1. cli[c].pc \in {"table", "upload", "ok"} => OpenOn(cli[c].dsn, thr[k], toSrv[k])
      BY <1>2, <1>6, WhoRequests
    <3>2. cli[c].pc # "table" \/ Head(toSrv[k]) = <<"S", cli[c].dsn>>
      BY <1>2, <1>6, <2>1, WhoRequests
    <3>3. cli[c].pc # "upload"
      BY <1>2, <1>6, <2>1, WhoRequests
    <3>4. cli[c].pc # "ok"
      BY <1>2, <1>6, <2>2, WhoRequests DEF Holds
    <3>5. cli[c].pc # "table"
      BY <1>2, <3>2
    <3> QED
      BY <1>2, <1>6, <3>3, <3>4, <3>5, WhoRequests
  <2> QED
    BY <1>1, <1>3, <1>4, <1>6, <2>3, EndKeepsClient
<1> QED
  BY <1>5, <1>6

LEMMA UploadOKOK ==
    ASSUME Inv, SessInv, NEW k \in Conns, UploadOK(k)
    PROVE  TOK(k)' /\ \A c \in Clients : cli[c].pc # "off" /\ cli[c].conn = k => COK(c, k)'
<1> DEFINE t == thr[k]
           t2 == thr'[k]
           x == txn[k]
           x2 == txn'[k]
           q == toSrv[k]
           q2 == toSrv'[k]
           s == sent[k]
           p == kept[k]
<1>1. Reads(k, "flag", "E") /\ Consume(k) /\ UNCHANGED client
  BY DEF UploadOK
<1>2. /\ t.pc = "flag" /\ q # << >> /\ Head(q)[1] = "E" /\ q2 = << >> /\ q2 = Tail(q) /\ Uploads(q2) = Uploads(q)
      /\ ~Holds(q, "S")
  BY <1>1, ReadsFirst DEF Working
<1>3. q \in Seq(Request) /\ ThreadOK(t, x, q, s, p) /\ thr \in [Conns -> Thread] /\ t.sock = k
  BY <1>2, ThreadTypes DEF TOK, Working, Inv, ThreadInv
<1>4. Uploads(q) = {} /\ Holds(q, "E")
  BY <1>2, <1>3, UploadsHead, QueueEmpty
<1>5. t.open # 0 /\ ~t.ended /\ In(t.open, s) = Vers(x) /\ In(t.open, p) = {}
  <2> HIDE DEF t, x, q, s, p
  <2> QED
    BY <1>2, <1>3, <1>4 DEF ThreadOK, ReadsUpload, Holds
<1>6. \A d \in 1..Dsns : d # t.open => Whole(d, x, s, p)
  BY <1>2, <1>3 DEF ThreadOK, Alive
<1>7. CASE /\ Write(k, <<<<"K">>>>) /\ UNCHANGED <<txn, kept>>
           /\ thr' = [thr EXCEPT ![k].pc = "commit", ![k].ended = TRUE]
  <2>1. t2.pc = "commit" /\ t2.ended = TRUE /\ t2.open = t.open
    BY <1>3, <1>7 DEF Thread
  <2>2. TOK(k)' <=> ThreadOK(t2, x, q2, s, p)
    BY <1>1, <1>7 DEF TOK, client
  <2>3. TOK(k)'
    <3> HIDE DEF t, t2, x, q, q2, s, p
    <3>1. \A d \in 1..Dsns : Whole(d, x, s, p)
      <4>1. ASSUME NEW d \in 1..Dsns, d = t.open PROVE Whole(d, x, s, p)
        <5>1. In(d, Vers(x)) = In(d, s)
          BY <1>5, <4>1 DEF In
        <5> QED
          BY <1>5, <4>1, <5>1 DEF Whole
      <4> QED
        BY <1>6, <4>1
    <3>2. Vers(x) \cup p \cup Uploads(q2) \subseteq s
      BY <1>2, <1>3 DEF ThreadOK
    <3> QED
      BY <1>2, <1>3, <1>5, <2>1, <2>2, <3>1, <3>2 DEF ThreadOK
  <2>4. ASSUME NEW c \in Clients, cli[c].pc # "off", cli[c].conn = k PROVE COK(c, k)'
    <3> DEFINE d == cli[c].dsn
               a == toCli[k]
               a2 == toCli'[k]
    <3>1. Range(q) = {Head(q)} /\ \A f : Holds(q, f) => f = "E"
      BY <1>2, <1>3, RangeHead, RangeNone DEF Holds
    <3>2. cli[c].pc = "ok" /\ a = << >> /\ OpenOn(d, t, q)
      <4>1. cli[c].pc # "table"
        BY <1>2, <2>4, <3>1, WhoRequests
      <4>2. cli[c].pc # "upload"
        BY <1>2, <2>4, <3>1, WhoRequests
      <4>3. cli[c].pc # "bye"
        BY <1>2, <2>4, <3>1, WhoRequests
      <4> QED
        BY <1>2, <2>4, <4>1, <4>2, <4>3, WhoRequests
    <3>3. t.open = d
      BY <1>2, <3>2 DEF OpenOn, Holds
    <3>4. a2 = <<<<"K">>>>
      <4>1. a2 = a \o <<<<"K">>>>
        BY <1>2, <1>7, <2>4, Answered DEF Working
      <4> QED
        BY <3>2, <4>1, AnswersWell, ConcatEmptySeq
    <3>5. Talk(cli[c].pc, d, t2, q2, a2, s, kept'[k])
      <4>1. a2 # << >> /\ Head(a2) = <<"K">> /\ Tail(a2) = << >>
        BY <3>4, OneOrTwo
      <4>2. AtDownload(d, t2, q2, {"commit", "select"})
        BY <1>2, <2>1, <3>3 DEF AtDownload
      <4>3. Downloading(d, t2, q2, Tail(a2), s, kept'[k])
        BY <4>1, <4>2 DEF Downloading
      <4> HIDE DEF t2, q2, a2, s, d
      <4> QED
        BY <3>2, <4>1, <4>3 DEF Talk
    <3> QED
      BY <1>1, <2>4, <3>2, <3>5, ClientKept
  <2> QED
    BY <2>3, <2>4
<1>8. CASE /\ Rollback(k) /\ UNCHANGED toCli
           /\ thr' = [thr EXCEPT ![k].pc = "error", ![k].ended = TRUE]
  <2>1. t2.pc = "error" /\ t2.ended = TRUE
    BY <1>3, <1>8 DEF Thread
  <2>2. TOK(k)' <=> ThreadOK(t2, x2, q2, s, p)
    BY <1>1, <1>8 DEF TOK, client, Rollback
  <2>3. x2 = [r \in Rows |-> NoRow]
    BY <1>8 DEF Rollback, Inv, DataInv
  <2>4. Vers(x2) = {} /\ \A r \in Rows : x2[r] = NoRow
    BY <2>3 DEF Vers
  <2>5. ASSUME NEW c \in Clients, cli[c].pc # "off", cli[c].conn = k PROVE COK(c, k)'
    <3> DEFINE d == cli[c].dsn
    <3>1. Range(q) = {Head(q)} /\ \A f : Holds(q, f) => f = "E"
      BY <1>2, <1>3, RangeHead, RangeNone DEF Holds
    <3>2. cli[c].pc = "ok" /\ toCli[k] = << >>
      <4>1. cli[c].pc # "table"
        BY <1>2, <2>5, <3>1, WhoRequests
      <4>2. cli[c].pc # "upload"
        BY <1>2, <2>5, <3>1, WhoRequests
      <4>3. cli[c].pc # "bye"
        BY <1>2, <2>5, <3>1, WhoRequests
      <4> QED
        BY <1>2, <2>5, <4>1, <4>2, <4>3, WhoRequests
    <3>3. ~Alive(t2) /\ toCli'[k] = << >>
      BY <1>8, <2>1, <3>2 DEF Alive
    <3>4. Talk(cli[c].pc, d, t2, q2, toCli'[k], s, kept'[k])
      <4> HIDE DEF t2, q2, s, d
      <4> QED
        BY <3>2, <3>3 DEF Talk
    <3> QED
      BY <1>1, <2>5, <3>2, <3>4, ClientKept
  <2> HIDE DEF t, t2, x, x2, q, q2, s, p
  <2>6. \A d \in 1..Dsns : Whole(d, x2, s, p)
    BY <1>5, <1>6, <2>4 DEF Whole, In
  <2>7. TOK(k)'
    BY <1>2, <1>3, <2>1, <2>2, <2>4, <2>6 DEF ThreadOK
  <2> QED
    BY <2>5, <2>7
<1> QED
  BY <1>3, <1>7, <1>8 DEF UploadOK

LEMMA UploadCommitOK ==
    ASSUME Inv, SessInv, NEW k \in Conns, UploadCommit(k)
    PROVE  TOK(k)' /\ \A c \in Clients : cli[c].pc # "off" /\ cli[c].conn = k => COK(c, k)'
<1> DEFINE t == thr[k]
           t2 == thr'[k]
           x == txn[k]
           x2 == txn'[k]
           q == toSrv[k]
           s == sent[k]
           p == kept[k]
           p2 == kept'[k]
<1>1. t.pc = "commit" /\ UNCHANGED <<net, client>> /\ thr \in [Conns -> Thread]
  BY DEF UploadCommit, Inv, ThreadInv
<1>2. /\ ThreadOK(t, x, q, s, p) /\ (TOK(k)' <=> ThreadOK(t2, x2, q, s, p2))
  BY <1>1, ThreadTypes DEF TOK, client, net
<1>3. CASE UNCHANGED <<txn, kept>> /\ thr' = [thr EXCEPT ![k].pc = "error"]
  <2>1. ~Alive(thr'[k]) /\ thr'[k].pc # "none" /\ thr'[k].ended = thr[k].ended
    BY <1>1, <1>3 DEF Alive, Thread
  <2> QED
    BY <1>1, <1>3, <2>1, EndingOK DEF net
<1>4. CASE CommitTran(k) /\ thr' = [thr EXCEPT ![k].pc = "select"]
  <2>1. t2.pc = "select" /\ t2.ended = t.ended /\ t2.open = t.open
    BY <1>1, <1>4 DEF Thread
  <2>2. x2 = [r \in Rows |-> NoRow] /\ p2 = p \cup Vers(x)
    BY <1>4 DEF CommitTran, Written, Vers, Inv, DataInv
  <2>3. Vers(x2) = {} /\ \A r \in Rows : x2[r] = NoRow
    BY <2>2 DEF Vers
  <2>4. ASSUME NEW c \in Clients, cli[c].pc # "off", cli[c].conn = k PROVE COK(c, k)'
    <3> DEFINE pc == cli[c].pc
               d == cli[c].dsn
               a == toCli[k]
    <3>1. Talk(pc, d, t, q, a, s, p) /\ Alive(t)
      BY <1>1, <2>4, ClientTypes DEF COK, ClientOK, Alive
    <3>2. pc # "upload"
      BY <1>1, <3>1 DEF Talk, OpenOn
    <3>3. Talk(pc, d, t2, q, a, s, p2)
      <4>1. pc \in {"ack", "dsn", "table", "upload", "ok", "select", "delete", "quit", "bye"}
        BY <2>4, ClientTypes DEF Program
      <4> HIDE DEF pc, d, t, t2, q, a, s, p, p2
      <4>2. AtDownload(d, t, q, {"commit", "select"}) => AtDownload(d, t2, q, {"commit", "select"})
        BY <2>1 DEF AtDownload
      <4>3. Downloading(d, t, q, a, s, p) => Downloading(d, t2, q, a, s, p2)
        BY <1>1, <3>1, <4>2 DEF Downloading, AtDownload
      <4>4. Downloading(d, t, q, Tail(a), s, p) => Downloading(d, t2, q, Tail(a), s, p2)
        BY <1>1, <3>1, <4>2 DEF Downloading, AtDownload
      <4>5. pc \in {"ok", "select"}
        BY <1>1, <3>1, <4>1 DEF Talk, OpenOn, AtDownload
      <4>6. pc = "ok" => a # << >> /\ Head(a) = <<"K">> /\ Downloading(d, t, q, Tail(a), s, p)
        BY <1>1, <3>1 DEF Talk, OpenOn
      <4>7. pc = "select" => Downloading(d, t, q, a, s, p)
        BY <3>1 DEF Talk
      <4> QED
        BY <4>3, <4>4, <4>5, <4>6, <4>7 DEF Talk
    <3>4. toCli'[k] = a /\ toSrv'[k] = q
      BY <1>1 DEF net
    <3> QED
      BY <1>1, <2>4, <3>2, <3>3, <3>4, ClientKept
  <2> HIDE DEF t, t2, x, x2, q, s, p, p2
  <2>5. /\ t.ended /\ t.open # 0 /\ q = << >> /\ In(t.open, s) = Vers(x) /\ In(t.open, p) = {}
        /\ \A d \in 1..Dsns : Whole(d, x, s, p)
    BY <1>1, <1>2 DEF ThreadOK
  <2>6. In(t.open, s) \subseteq p2 /\ p2 \subseteq s
    BY <1>2, <2>2, <2>5 DEF ThreadOK
  <2>7. ASSUME NEW d \in 1..Dsns PROVE Whole(d, x2, s, p2)
    <3>1. CASE d = t.open
      BY <2>6, <3>1 DEF Whole, In
    <3>2. CASE d # t.open
      <4>1. In(d, Vers(x)) = {}
        BY <2>5, <3>2 DEF In
      <4>2. In(d, p2) = In(d, p)
        BY <2>2, <4>1 DEF In
      <4> QED
        BY <2>3, <2>5, <4>2 DEF Whole, In
    <3> QED
      BY <3>1, <3>2
  <2>8. TOK(k)'
    BY <1>2, <2>1, <2>3, <2>5, <2>6, <2>7 DEF ThreadOK
  <2> QED
    BY <2>4, <2>8
<1> QED
  BY <1>3, <1>4 DEF UploadCommit

\* The messages of a download are those of the data source.
LEMMA SelectedRows ==
    ASSUME Inv, SessInv, NEW k \in Conns, NEW del \in BOOLEAN, Download(k, del)
    PROVE  \E ms \in Seq(Answer) :
               /\ Write(k, ms)
               /\ del => Deletions(ms, thr[k].open)
               /\ ~del => Selected(ms, thr[k].open)
<1> DEFINE d == thr[k].open
           new == {r \in RowsOf(d) : rows[r].mTime >= SyncTime(k) /\ rows[r].ver.del = del}
           vers == [r \in new |-> rows[r].ver]
           f == IF del THEN "R" ELSE "F"
           ms == IF new = {} THEN <<<<"E">>>> ELSE <<<<f, vers>>, <<"E">>>>
<1>1. Write(k, ms)
  BY DEF Download, News, Records
<1>2. new \in SUBSET Rows /\ new \subseteq RowsOf(d)
  BY DEF RowsOf
<1>3. vers \in Selection
  <2>1. vers \in [new -> Version]
    BY <1>2 DEF Inv, DataInv, Stored
  <2> QED
    BY <1>2, <2>1 DEF Selection
<1>4. \A r \in DOMAIN vers : r \in RowsOf(d) /\ vers[r].row = r
  BY <1>2 DEF RowsOf, SessInv, VersionInv
<1>5. f \in {"F", "R"} /\ (del => f = "R") /\ (~del => f = "F")
  OBVIOUS
<1> HIDE DEF vers, new, f, d
<1>6. RowsData(<<f, vers>>, d)
  BY <1>4, <1>5 DEF RowsData
<1>7. ms \in Seq(Answer)
  BY <1>3, <1>5, AnswersWell
<1>8. (del => Deletions(ms, d)) /\ (~del => Selected(ms, d))
  <2>1. CASE new = {}
    BY <2>1, LastIsLast, OneOrTwo DEF Deletions, Selected
  <2>2. CASE new # {}
    <3>1. ms = <<<<f, vers>>, <<"E">>>>
      BY <2>2
    <3>2. ms # << >> /\ Head(ms) = <<f, vers>> /\ Last(Tail(ms)) /\ Head(ms)[1] = f
      BY <3>1, LastIsLast, OneOrTwo
    <3> HIDE DEF ms
    <3> QED
      BY <1>5, <1>6, <3>2 DEF Deletions, Selected
  <2> QED
    BY <2>1, <2>2
<1> QED
  BY <1>1, <1>7, <1>8 DEF d

LEMMA DownloadOK ==
    ASSUME Inv, SessInv, NEW k \in Conns, NEW del \in BOOLEAN, Download(k, del)
    PROVE  TOK(k)' /\ \A c \in Clients : cli[c].pc # "off" /\ cli[c].conn = k => COK(c, k)'
<1> DEFINE t == thr[k]
           t2 == thr'[k]
           x == txn[k]
           q == toSrv[k]
           s == sent[k]
           p == kept[k]
           o == thr[k].open
<1>1. /\ UNCHANGED <<txn, kept, toSrv, client>> /\ thr \in [Conns -> Thread]
      /\ t.pc = IF del THEN "delete" ELSE "select"
  BY DEF Download, Inv, ThreadInv
<1>2. /\ ThreadOK(t, x, q, s, p) /\ (TOK(k)' <=> ThreadOK(t2, x, q, s, p)) /\ toCli[k] \in Seq(Answer)
  BY <1>1, ThreadTypes DEF TOK, client
<1>3. t2.pc = (IF del THEN "flag" ELSE "delete") /\ t2.open = o /\ t2.ended = t.ended
  BY <1>1 DEF Download, Thread
<1>4. PICK ms \in Seq(Answer) : Write(k, ms) /\ (del => Deletions(ms, o)) /\ (~del => Selected(ms, o))
  BY SelectedRows
<1>5. ASSUME NEW c \in Clients, cli[c].pc # "off", cli[c].conn = k
      PROVE  Talk(cli[c].pc, cli[c].dsn, t, q, toCli[k], s, p) /\ toCli'[k] = toCli[k] \o ms
  BY <1>1, <1>4, <1>5, Answered, ClientTypes DEF COK, ClientOK, Working
<1>6. ASSUME NEW c \in Clients, cli[c].pc # "off", cli[c].conn = k,
             cli[c].pc # "upload", Talk(cli[c].pc, cli[c].dsn, t2, q, toCli'[k], s, p)
      PROVE  COK(c, k)'
  BY <1>1, <1>6, ClientKept
<1>7. \A c \in Clients : cli[c].pc # "off" =>
        cli[c].pc \in {"ack", "dsn", "table", "upload", "ok", "select", "delete", "quit", "bye"}
  BY DEF Inv, ClientInv, Program
<1> HIDE DEF t, t2, x, q, s, p, o
<1>8. /\ t.ended /\ o # 0 /\ q = << >> /\ Vers(x) = {} /\ In(o, s) \subseteq p
  BY <1>1, <1>2 DEF ThreadOK, t, o
<1>9. TOK(k)'
  <2>1. ReadsUpload(t2, x, q, s, p)
    BY <1>3, <1>8, QueueEmpty DEF ReadsUpload
  <2>2. t2.pc \in {"flag", "delete"} /\ t2.ended /\ t2.open # 0 /\ In(t2.open, s) \subseteq p
    BY <1>3, <1>8
  <2>3. \A d \in 1..Dsns : Whole(d, x, s, p)
    BY <1>2, <1>8 DEF ThreadOK
  <2> QED
    BY <1>2, <1>8, <2>1, <2>2, <2>3 DEF ThreadOK
<1>10. ASSUME NEW c \in Clients, cli[c].pc # "off", cli[c].conn = k PROVE COK(c, k)'
  <2> DEFINE pc == cli[c].pc
             d == cli[c].dsn
             a == toCli[k]
             a2 == toCli'[k]
  <2>1. Talk(pc, d, t, q, a, s, p) /\ Alive(t) /\ a2 = a \o ms /\ a \in Seq(Answer)
    BY <1>1, <1>2, <1>5, <1>10 DEF Alive
  <2>2. pc \in {"ack", "dsn", "table", "upload", "ok", "select", "delete", "quit", "bye"}
    BY <1>7, <1>10
  <2> HIDE DEF pc, d, a, a2
  <2>3. CASE ~del
    <3>1. t.pc = "select" /\ t2.pc = "delete"
      BY <1>1, <1>3, <2>3
    <3>2. pc \in {"ok", "select"} /\ (pc = "ok" => a # << >> /\ Head(a) = <<"K">>)
      BY <2>1, <2>2, <3>1 DEF Talk, OpenOn, AtDownload
    <3>3. /\ pc = "ok" => Downloading(d, t, q, Tail(a), s, p)
          /\ pc = "select" => Downloading(d, t, q, a, s, p)
      BY <2>1, <3>1 DEF Talk, OpenOn
    <3>4. ASSUME NEW b \in Seq(Answer), Downloading(d, t, q, b, s, p)
          PROVE  Downloading(d, t2, q, b \o ms, s, p)
      <4>1. b = << >> /\ AtDownload(d, t, q, {"commit", "select"})
        BY <2>1, <3>1, <3>4 DEF Downloading, AtDownload
      <4>2. d = o /\ AtDownload(d, t2, q, {"delete"})
        BY <1>3, <1>8, <3>1, <4>1 DEF AtDownload, o, t
      <4>3. b \o ms = ms
        BY <4>1, ConcatEmptySeq
      <4> QED
        BY <1>4, <1>8, <2>3, <4>2, <4>3 DEF Downloading
    <3>5. CASE pc = "ok"
      <4>1. a # << >> /\ Head(a) = <<"K">> /\ Tail(a) \in Seq(Answer)
        BY <2>1, <3>2, <3>5, QueueHead
      <4>2. a2 # << >> /\ Head(a2) = <<"K">> /\ Tail(a2) = Tail(a) \o ms
        BY <2>1, <4>1, HeadTailConcat
      <4>3. Downloading(d, t2, q, Tail(a2), s, p)
        BY <3>3, <3>4, <3>5, <4>1, <4>2
      <4>4. Talk(pc, d, t2, q, a2, s, p)
        BY <3>5, <4>2, <4>3 DEF Talk
      <4> QED
        BY <1>6, <1>10, <3>5, <4>4 DEF pc, d, a2
    <3>6. CASE pc = "select"
      <4>1. Downloading(d, t2, q, a2, s, p)
        BY <2>1, <3>3, <3>4, <3>6
      <4>2. Talk(pc, d, t2, q, a2, s, p)
        BY <3>6, <4>1 DEF Talk
      <4> QED
        BY <1>6, <1>10, <3>6, <4>2 DEF pc, d, a2
    <3> QED
      BY <3>2, <3>5, <3>6
  <2>4. CASE del
    <3>1. t.pc = "delete" /\ t2.pc = "flag"
      BY <1>1, <1>3, <2>4
    <3>2. pc \in {"ok", "select", "delete"} /\ (pc = "ok" => a # << >> /\ Head(a) = <<"K">>)
      BY <2>1, <2>2, <3>1 DEF Talk, OpenOn, AtDownload
    <3>3. /\ pc = "ok" => Downloading(d, t, q, Tail(a), s, p)
          /\ pc = "select" => Downloading(d, t, q, a, s, p)
          /\ pc = "delete" => In(d, s) \subseteq p /\ a = << >> /\ AtDownload(d, t, q, {"delete"})
      BY <2>1, <3>1 DEF Talk, OpenOn, AtDownload
    <3>4. ASSUME NEW b \in Seq(Answer), Downloading(d, t, q, b, s, p)
          PROVE  Downloading(d, t2, q, b \o ms, s, p)
      <4>1. Selected(b, d) /\ AtDownload(d, t, q, {"delete"})
        BY <2>1, <3>1, <3>4 DEF Downloading, AtDownload
      <4>2. d = o /\ AtDownload(d, t2, q, {"flag"})
        BY <1>3, <1>8, <3>1, <4>1 DEF AtDownload, o, t
      <4>3. Both(b \o ms, d)
        BY <1>4, <2>4, <4>1, <4>2, BothDownloads
      <4> QED
        BY <1>8, <4>2, <4>3 DEF Downloading
    <3>5. CASE pc = "ok"
      <4>1. a # << >> /\ Head(a) = <<"K">> /\ Tail(a) \in Seq(Answer)
        BY <2>1, <3>2, <3>5, QueueHead
      <4>2. a2 # << >> /\ Head(a2) = <<"K">> /\ Tail(a2) = Tail(a) \o ms
        BY <2>1, <4>1, HeadTailConcat
      <4>3. Downloading(d, t2, q, Tail(a2), s, p)
        BY <3>3, <3>4, <3>5, <4>1, <4>2
      <4>4. Talk(pc, d, t2, q, a2, s, p)
        BY <3>5, <4>2, <4>3 DEF Talk
      <4> QED
        BY <1>6, <1>10, <3>5, <4>4 DEF pc, d, a2
    <3>6. CASE pc = "select"
      <4>1. Downloading(d, t2, q, a2, s, p)
        BY <2>1, <3>3, <3>4, <3>6
      <4>2. Talk(pc, d, t2, q, a2, s, p)
        BY <3>6, <4>1 DEF Talk
      <4> QED
        BY <1>6, <1>10, <3>6, <4>2 DEF pc, d, a2
    <3>7. CASE pc = "delete"
      <4>1. d = o /\ AtDownload(d, t2, q, {"flag"}) /\ a = << >>
        BY <1>3, <1>8, <3>1, <3>3, <3>7 DEF AtDownload, o, t
      <4>2. a2 = ms
        BY <2>1, <4>1, ConcatEmptySeq
      <4>3. Talk(pc, d, t2, q, a2, s, p)
        BY <1>4, <2>4, <3>3, <3>7, <4>1, <4>2 DEF Talk
      <4> QED
        BY <1>6, <1>10, <3>7, <4>3 DEF pc, d, a2
    <3> QED
      BY <3>2, <3>5, <3>6, <3>7
  <2> QED
    BY <2>3, <2>4
<1> QED
  BY <1>9, <1>10

LEMMA AuthenticateFailsOK ==
    ASSUME Inv, SessInv, NEW k \in Conns, AuthenticateFails(k)
    PROVE  TOK(k)' /\ \A c \in Clients : cli[c].pc # "off" /\ cli[c].conn = k => COK(c, k)'
<1>1. Reads(k, "auth", "AUTH") /\ Consume(k) /\ UNCHANGED <<client, toCli, txn, kept>>
  BY DEF AuthenticateFails
<1>2. Uploads(toSrv'[k]) \subseteq Uploads(toSrv[k])
  BY <1>1, ReadsFirst DEF Working
<1>3. thr'[k].pc = "error" /\ thr'[k].ended = thr[k].ended
  BY AuthenticationFailed
<1>4. ~Alive(thr'[k]) /\ thr'[k].pc # "none"
  BY <1>3 DEF Alive
<1> QED
  BY <1>1, <1>2, <1>3, <1>4, EndingOK

\* A message with some of the rows comes after those of the first download.
LEMMA PartAfter ==
    ASSUME NEW d, NEW a \in Seq(Answer), NEW m \in Answer, Selected(a, d), m[1] = "R", RowsData(m, d)
    PROVE  CutOff(a \o <<m>>, d)
<1>1. a # << >> /\ <<m>> \in Seq(Answer) /\ Part(<<m>>, "R", d) /\ Tail(a) \in Seq(Answer)
  BY OneOrTwo, QueueHead DEF Part, Selected
<1>2. /\ a \o <<m>> # << >> /\ Head(a \o <<m>>) = Head(a)
      /\ Tail(a \o <<m>>) = Tail(a) \o <<m>> /\ << >> \o <<m>> = <<m>>
  BY <1>1, HeadTailConcat, ConcatEmptySeq
<1>3. ASSUME NEW b \in Seq(Answer), Last(b) PROVE Second(b \o <<m>>, d)
  <2>0. b # << >> /\ Head(b) = <<"E">> /\ Tail(b) = << >>
    BY <1>3 DEF Last
  <2>1. b \o <<m>> # << >> /\ Head(b \o <<m>>) = <<"E">> /\ Tail(b \o <<m>>) = <<m>>
    <3> HIDE DEF Part
    <3>1. PICK w \in Seq(Answer) : w = <<m>>
      BY <1>1
    <3>2. b \o w # << >> /\ Head(b \o w) = Head(b) /\ Tail(b \o w) = Tail(b) \o w
      BY <2>0, HeadTailConcat
    <3>3. << >> \o w = w
      BY ConcatEmptySeq
    <3> QED
      BY <2>0, <3>1, <3>2, <3>3
  <2> QED
    BY <1>1, <2>1 DEF Second
<1>4. CASE Last(a)
  BY <1>3, <1>4 DEF CutOff
<1>5. CASE Head(a)[1] = "F" /\ RowsData(Head(a), d) /\ Last(Tail(a))
  <2>1. Second(Tail(a) \o <<m>>, d)
    BY <1>1, <1>3, <1>5
  <2> QED
    BY <1>2, <1>5, <2>1 DEF CutOff
<1> QED
  BY <1>4, <1>5 DEF Selected

LEMMA DownloadFailsOK ==
    ASSUME Inv, SessInv, NEW k \in Conns, NEW del \in BOOLEAN, DownloadFails(k, del)
    PROVE  TOK(k)' /\ \A c \in Clients : cli[c].pc # "off" /\ cli[c].conn = k => COK(c, k)'
<1> DEFINE t == thr[k]
           t2 == thr'[k]
           x == txn[k]
           q == toSrv[k]
           s == sent[k]
           p == kept[k]
           o == thr[k].open
<1>1. /\ UNCHANGED <<txn, kept, toSrv, client>> /\ thr \in [Conns -> Thread]
      /\ t.pc = IF del THEN "delete" ELSE "select"
  BY DEF DownloadFails, Inv, ThreadInv
<1>2. ThreadOK(t, x, q, s, p) /\ toCli[k] \in Seq(Answer)
  BY <1>1, ThreadTypes DEF TOK
<1>3. thr'[k].pc = "error" /\ thr'[k].ended = thr[k].ended
  BY <1>1 DEF DownloadFails, Thread
<1>4. ~Alive(thr'[k]) /\ thr'[k].pc # "none"
  BY <1>3 DEF Alive
<1>5. CASE UNCHANGED toCli
  BY <1>1, <1>3, <1>4, <1>5, EndingOK
<1>6. CASE \E part \in SUBSET News(k, del) : Write(k, <<Records(part, del)>>)
  <2>1. PICK part \in SUBSET News(k, del) : Write(k, <<Records(part, del)>>)
    BY <1>6
  <2>2. PICK m : m = Records(part, del)
    OBVIOUS
  <2>3. part \in SUBSET Rows /\ m \in Answer /\ <<m>> \in Seq(Answer) /\ Write(k, <<m>>)
    BY <2>1, <2>2, RecordsWell DEF News, RowsOf
  <2>4. m[1] = (IF del THEN "R" ELSE "F") /\ RowsData(m, o)
    <3> DEFINE vers == [r \in part |-> rows[r].ver]
               f == IF del THEN "R" ELSE "F"
    <3>1. m = <<f, vers>> /\ m[2] = vers /\ m[1] = f
      BY <2>2 DEF Records
    <3>2. \A r \in DOMAIN vers : r \in RowsOf(o) /\ vers[r].row = r
      BY <2>1 DEF News, RowsOf, SessInv, VersionInv
    <3> HIDE DEF vers, o
    <3> QED
      BY <3>1, <3>2 DEF RowsData
  <2>5. TOK(k)'
    BY <1>1, <1>3, <1>4, ThreadEnds
  <2>6. ASSUME NEW c \in Clients, cli[c].pc # "off", cli[c].conn = k
        PROVE  /\ Talk(cli[c].pc, cli[c].dsn, t, q, toCli[k], s, p) /\ toCli'[k] = toCli[k] \o <<m>>
               /\ cli[c].pc \in {"ack", "dsn", "table", "upload", "ok", "select", "delete", "quit", "bye"}
    BY <1>1, <2>3, <2>6, Answered, ClientTypes DEF COK, ClientOK, Working, Program
  <2>7. ASSUME NEW c \in Clients, cli[c].pc # "off", cli[c].conn = k,
               cli[c].pc # "upload", Talk(cli[c].pc, cli[c].dsn, t2, q, toCli'[k], s, p)
        PROVE  COK(c, k)'
    BY <1>1, <2>7, ClientKept
  <2> HIDE DEF t, t2, x, q, s, p, o
  <2>8. In(o, s) \subseteq p
    BY <1>1, <1>2 DEF ThreadOK, t, o
  <2>9. ASSUME NEW c \in Clients, cli[c].pc # "off", cli[c].conn = k PROVE COK(c, k)'
    <3> DEFINE pc == cli[c].pc
               d == cli[c].dsn
               a == toCli[k]
               a2 == toCli'[k]
    <3>1. /\ Talk(pc, d, t, q, a, s, p) /\ Alive(t) /\ ~Alive(t2) /\ a2 = a \o <<m>> /\ a \in Seq(Answer)
          /\ pc \in {"ack", "dsn", "table", "upload", "ok", "select", "delete", "quit", "bye"}
      BY <1>1, <1>2, <1>4, <2>6, <2>9 DEF Alive, t2
    <3> HIDE DEF pc, d, a, a2
    <3>2. /\ pc \in {"ok", "select", "delete"} /\ (pc = "ok" => a # << >> /\ Head(a) = <<"K">>)
          /\ pc = "ok" => Downloading(d, t, q, Tail(a), s, p)
          /\ pc = "select" => Downloading(d, t, q, a, s, p)
          /\ pc = "delete" => del /\ a = << >> /\ d = o
      BY <1>1, <3>1 DEF Talk, OpenOn, AtDownload, t, o
    <3>3. ASSUME NEW b \in Seq(Answer), Downloading(d, t, q, b, s, p)
          PROVE  Downloading(d, t2, q, b \o <<m>>, s, p)
      <4>1. CASE ~del
        <5>1. b = << >> /\ d = o
          BY <1>1, <3>1, <3>3, <4>1 DEF Downloading, AtDownload, t, o
        <5>2. b \o <<m>> = <<m>> /\ Part(<<m>>, "F", d)
          BY <2>3, <2>4, <4>1, <5>1, ConcatEmptySeq, OneOrTwo DEF Part
        <5> QED
          BY <2>8, <3>1, <5>1, <5>2 DEF Downloading, CutOff
      <4>2. CASE del
        <5>1. Selected(b, d) /\ d = o
          BY <1>1, <3>1, <3>3, <4>2 DEF Downloading, AtDownload, t, o
        <5>2. CutOff(b \o <<m>>, d)
          BY <2>3, <2>4, <4>2, <5>1, PartAfter
        <5> QED
          BY <2>8, <3>1, <5>1, <5>2 DEF Downloading
      <4> QED
        BY <4>1, <4>2
    <3>4. Talk(pc, d, t2, q, a2, s, p)
      <4>1. CASE pc = "ok"
        <5>1. a # << >> /\ Head(a) = <<"K">> /\ Tail(a) \in Seq(Answer)
          BY <3>1, <3>2, <4>1, QueueHead
        <5>2. a2 # << >> /\ Head(a2) = <<"K">> /\ Tail(a2) = Tail(a) \o <<m>>
          BY <2>3, <3>1, <5>1, HeadTailConcat
        <5>3. Downloading(d, t2, q, Tail(a2), s, p)
          BY <3>2, <3>3, <4>1, <5>1, <5>2
        <5> QED
          BY <4>1, <5>2, <5>3 DEF Talk
      <4>2. CASE pc = "select"
        BY <3>1, <3>2, <3>3, <4>2 DEF Talk
      <4>3. CASE pc = "delete"
        <5>1. a2 = <<m>> /\ Part(<<m>>, "R", d)
          BY <2>3, <2>4, <3>1, <3>2, <4>3, ConcatEmptySeq, OneOrTwo DEF Part
        <5> QED
          BY <2>8, <3>1, <3>2, <4>3, <5>1 DEF Talk
      <4> QED
        BY <3>2, <4>1, <4>2, <4>3
    <3> QED
      BY <2>7, <2>9, <3>2, <3>4 DEF pc, d, a2
  <2> QED
    BY <2>5, <2>9
<1> QED
  BY <1>5, <1>6 DEF DownloadFails

LEMMA BeginningOK ==
    ASSUME Inv, SessInv, NEW k \in Conns,
           InitializeParameter(k) \/ \E a \in Answers : AuthenticateUser(k, a)
    PROVE  TOK(k)' /\ \A c \in Clients : cli[c].pc # "off" /\ cli[c].conn = k => COK(c, k)'
<1> DEFINE t == thr[k]
           t2 == thr'[k]
           x == txn[k]
           q == toSrv[k]
           q2 == toSrv'[k]
           s == sent[k]
           p == kept[k]
<1>1. /\ UNCHANGED <<txn, kept, client>> /\ thr \in [Conns -> Thread] /\ t.pc \in {"start", "auth"}
  BY DEF InitializeParameter, AuthenticateUser, Reads, Inv, ThreadInv
<1>2. /\ ThreadOK(t, x, q, s, p) /\ (TOK(k)' <=> ThreadOK(t2, x, q2, s, p)) /\ toCli[k] \in Seq(Answer)
  BY <1>1, ThreadTypes DEF TOK, client
<1>3. /\ s = {} /\ t.open = 0 /\ ~t.ended /\ \E c \in Clients : q = <<<<"AUTH", c>>>>
      /\ Vers(x) = {} /\ p = {}
  BY <1>1, <1>2 DEF ThreadOK
<1>4. ASSUME NEW c \in Clients, cli[c].pc # "off", cli[c].conn = k
      PROVE  cli[c].pc = "ack" /\ toCli[k] = << >>
  <2>1. Talk(cli[c].pc, cli[c].dsn, t, q, toCli[k], s, p) /\ Alive(t)
    BY <1>1, <1>4, ClientTypes DEF COK, ClientOK, Alive
  <2>2. cli[c].pc \in {"ack", "dsn", "table", "upload", "ok", "select", "delete", "quit", "bye"}
    BY <1>4, ClientTypes DEF Program
  <2> HIDE DEF t
  <2> QED
    BY <1>1, <2>1, <2>2 DEF Talk, OpenOn, Downloading, AtDownload
<1>5. \A d \in 1..Dsns : Whole(d, x, s, p)
  BY <1>3 DEF Whole
<1>6. CASE InitializeParameter(k)
  <2>1. t2.pc = "auth" /\ t2.open = t.open /\ t2.ended = t.ended
    BY <1>1, <1>6 DEF InitializeParameter, Thread
  <2>2. toSrv' = toSrv /\ toCli' = toCli
    BY <1>6 DEF InitializeParameter, net
  <2>3. TOK(k)'
    <3>1. q2 = q
      BY <2>2
    <3> HIDE DEF t, t2, x, q, q2, s, p
    <3> QED
      BY <1>2, <1>3, <1>5, <2>1, <3>1 DEF ThreadOK
  <2>4. ASSUME NEW c \in Clients, cli[c].pc # "off", cli[c].conn = k PROVE COK(c, k)'
    <3>1. Talk(cli[c].pc, cli[c].dsn, t2, q2, toCli'[k], s, kept'[k])
      BY <1>4, <2>1, <2>2, <2>4 DEF Talk
    <3> QED
      BY <1>1, <1>4, <2>4, <3>1, ClientKept
  <2> QED
    BY <2>3, <2>4
<1>7. ASSUME NEW a \in Answers, AuthenticateUser(k, a)
      PROVE  TOK(k)' /\ \A c \in Clients : cli[c].pc # "off" /\ cli[c].conn = k => COK(c, k)'
  <2>1. Reads(k, "auth", "AUTH") /\ Consume(k) /\ Write(k, <<<<a>>>>)
    BY <1>7 DEF AuthenticateUser
  <2>2. t2.pc = "flag" /\ t2.open = t.open /\ t2.ended = t.ended /\ t.pc = "auth"
    BY <1>7, UserAuthenticated
  <2>3. q2 = << >>
    <3>1. q2 = Tail(q)
      BY <2>1, ReadsFirst DEF Working
    <3> QED
      BY <1>3, <3>1, OneOrTwo
  <2>4. TOK(k)'
    <3> HIDE DEF t, t2, x, q, q2, s, p
    <3>1. ReadsUpload(t2, x, q2, s, p)
      BY <1>3, <2>2, <2>3, QueueEmpty DEF ReadsUpload
    <3>2. Uploads(q2) = {}
      BY <2>3, QueueEmpty
    <3>3. /\ Vers(x) \cup p \cup Uploads(q2) \subseteq s
          /\ \A v, w \in s : v.row = w.row => v = w
      BY <1>3, <3>2
    <3>4. \A r \in Rows : x[r] # NoRow => x[r].ver.row = r
      BY <1>2 DEF ThreadOK
    <3>5. ThreadOK(t2, x, q2, s, p)
      BY <1>5, <2>2, <3>1, <3>3, <3>4 DEF ThreadOK
    <3> QED
      BY <1>2, <3>5
  <2>5. ASSUME NEW c \in Clients, cli[c].pc # "off", cli[c].conn = k PROVE COK(c, k)'
    <3>1. toCli'[k] = << >> \o <<<<a>>>>
      BY <1>4, <2>1, <2>2, <2>5, Answered DEF Working
    <3>2. toCli'[k] = <<<<a>>>>
      BY <3>1, AnswersWell, ConcatEmptySeq
    <3>3. toCli'[k] # << >> /\ Tail(toCli'[k]) = << >>
      BY <3>2, OneOrTwo
    <3>4. Talk(cli[c].pc, cli[c].dsn, t2, q2, toCli'[k], s, kept'[k])
      <4> HIDE DEF t2, t, q2, s
      <4> QED
        BY <1>3, <1>4, <2>2, <2>3, <2>5, <3>3 DEF Talk
    <3> QED
      BY <1>1, <1>4, <2>5, <3>4, ClientKept
  <2> QED
    BY <2>4, <2>5
<1> QED
  BY <1>6, <1>7

-----------------------------------------------------------------------------
(* Everything that a step of a thread leaves alone *)

LEMMA OtherSockets ==
    ASSUME Inv, SessInv, NEW k \in Conns, Serve(k)
    PROVE  /\ thr[k].pc \in {"start"} \cup Working /\ UNCHANGED client
           /\ \A l \in Conns \ {k} :
                  /\ thr'[l] = thr[l] /\ txn'[l] = txn[l] /\ kept'[l] = kept[l]
                  /\ toSrv'[l] = toSrv[l] /\ toCli'[l] = toCli[l] /\ conn'[l] = conn[l]
<1>0. /\ thr \in [Conns -> Thread] /\ txn \in [Conns -> [Rows -> Stored \cup {NoRow}]]
      /\ kept \in [Conns -> SUBSET Version] /\ toSrv \in [Conns -> Seq(Request)]
      /\ toCli \in [Conns -> Seq(Answer)] /\ conn \in [Conns -> {"none", "open", "left", "closed"}]
      /\ thr[k].pc \in Working => thr[k].sock = k
  BY ThreadTypes DEF Inv, DataInv, ThreadInv, NetInv
<1> DEFINE Alone == \A l \in Conns \ {k} :
                  /\ thr'[l] = thr[l] /\ txn'[l] = txn[l] /\ kept'[l] = kept[l]
                  /\ toSrv'[l] = toSrv[l] /\ toCli'[l] = toCli[l] /\ conn'[l] = conn[l]
<1>1. CASE InitializeParameter(k)
  BY <1>0, <1>1 DEF InitializeParameter, net
<1>2. ASSUME NEW a \in Answers, AuthenticateUser(k, a) PROVE thr[k].pc \in Working /\ Alone /\ UNCHANGED client
  <2>1. thr[k].pc = "auth" /\ thr[k].sock = k
    BY <1>0, <1>2 DEF AuthenticateUser, Reads, Working
  <2>2. \A l \in Conns \ {k} : thr'[l] = thr[l]
    BY <1>2, UserAuthenticated
  <2> QED
    BY <1>0, <1>2, <2>1, <2>2 DEF AuthenticateUser, Consume, Write, Working
<1>3. CASE SetApplication(k)
  <2>1. thr[k].pc = "flag" /\ thr[k].sock = k /\ \A l \in Conns \ {k} : thr'[l] = thr[l]
    BY <1>0, <1>3, ApplicationSet DEF Working
  <2> QED
    BY <1>0, <1>3, <2>1 DEF SetApplication, Consume, CommitTran, Working
<1>4. CASE SetTableName(k) \/ ProcessScript(k)
  <2>1. thr[k].pc = "flag" /\ thr[k].sock = k
    BY <1>0, <1>4 DEF SetTableName, ProcessScript, Reads, Working
  <2> QED
    BY <1>0, <1>4, <2>1 DEF SetTableName, ProcessScript, Consume, Working
<1>5. CASE UploadOK(k)
  <2>1. thr[k].pc = "flag" /\ thr[k].sock = k
    BY <1>0, <1>5 DEF UploadOK, Reads, Working
  <2> QED
    BY <1>0, <1>5, <2>1 DEF UploadOK, Consume, Write, Rollback, Working
<1>6. CASE UploadCommit(k)
  BY <1>0, <1>6 DEF UploadCommit, CommitTran, net, Working
<1>7. ASSUME NEW del \in BOOLEAN, Download(k, del) PROVE thr[k].pc \in Working /\ Alone /\ UNCHANGED client
  <2>1. thr[k].pc \in Working /\ thr[k].sock = k
    BY <1>0, <1>7 DEF Download, Working
  <2>2. PICK ms : Write(k, ms)
    BY <1>7, SelectedRows
  <2> QED
    BY <1>0, <1>7, <2>1, <2>2 DEF Download, Write
<1>12. CASE AuthenticateFails(k)
  <2>1. thr[k].pc = "auth" /\ thr[k].sock = k /\ \A l \in Conns \ {k} : thr'[l] = thr[l]
    BY <1>0, <1>12, AuthenticationFailed DEF Working
  <2> QED
    BY <1>0, <1>12, <2>1 DEF AuthenticateFails, Consume, Working
<1>13. ASSUME NEW del \in BOOLEAN, DownloadFails(k, del)
       PROVE  thr[k].pc \in Working /\ Alone /\ UNCHANGED client
  <2>1. thr[k].pc \in Working /\ thr[k].sock = k
    BY <1>0, <1>13 DEF DownloadFails, Working
  <2>2. UNCHANGED toCli \/ \E ms : Write(k, ms)
    BY <1>13 DEF DownloadFails
  <2>3. \A l \in Conns \ {k} : toCli'[l] = toCli[l]
    BY <1>0, <2>1, <2>2 DEF Write
  <2> QED
    BY <1>0, <1>13, <2>1, <2>3 DEF DownloadFails
<1>8. CASE EndSession(k)
  <2>1. thr[k].pc = "flag" /\ thr[k].sock = k
    BY <1>0, <1>8 DEF EndSession, Reads, Working
  <2> QED
    BY <1>0, <1>8, <2>1 DEF EndSession, Consume, Write, Working
<1>9. CASE NetworkError(k)
  BY <1>0, <1>9 DEF NetworkError, Broken, Timeout, net, Working
<1>10. CASE UpdateConnectFlag(k)
  BY <1>0, <1>10 DEF UpdateConnectFlag, net, Working
<1>11. CASE FreeHandles(k)
  <2>1. thr[k].pc = "free" /\ thr[k].sock = k
    BY <1>0, <1>11 DEF FreeHandles, Working
  <2> QED
    BY <1>0, <1>11, <2>1 DEF FreeHandles, CommitTran, Rollback, Working
<1> QED
  BY <1>1, <1>2, <1>3, <1>4, <1>5, <1>6, <1>7, <1>8, <1>9, <1>10, <1>11, <1>12, <1>13 DEF Serve

LEMMA SocketOK ==
    ASSUME Inv, SessInv, NEW k \in Conns, Serve(k)
    PROVE  SocketInv'
<1>0. /\ thr \in [Conns -> Thread] /\ conn \in [Conns -> {"none", "open", "left", "closed"}]
      /\ SocketInv /\ UNCHANGED client /\ thr[k].pc \in {"start"} \cup Working
      /\ \A l \in Conns \ {k} : thr'[l] = thr[l] /\ conn'[l] = conn[l] /\ toCli'[l] = toCli[l]
  BY OtherSockets DEF Inv, ThreadInv, NetInv, SessInv
<1>1. param' = param
  BY DEF Serve, InitializeParameter, AuthenticateUser, AuthenticateFails, SetApplication, SetTableName,
     ProcessScript, UploadOK, UploadCommit, Download, DownloadFails, EndSession, NetworkError,
     UpdateConnectFlag, FreeHandles
<1>2. conn[k] # "none" /\ conn[k] # "closed"
  BY <1>0 DEF SocketInv, Working
<1>3. \/ thr'[k].pc \in Working /\ thr'[k].sock = k /\ conn'[k] = conn[k]
      \/ thr'[k].pc = "done" /\ conn'[k] = "closed"
  <2>1. CASE InitializeParameter(k)
    <3>1. thr'[k].pc = "auth" /\ thr'[k].sock = param /\ thr[k].pc = "start" /\ UNCHANGED conn
      BY <1>0, <2>1 DEF InitializeParameter, net, Thread
    <3> QED
      BY <1>0, <3>1 DEF SocketInv, Working
  <2>2. ASSUME NEW a \in Answers, AuthenticateUser(k, a)
        PROVE  thr'[k].pc \in Working /\ thr'[k].sock = k /\ conn'[k] = conn[k]
    <3>1. thr[k].pc = "auth" /\ thr'[k].pc = "flag" /\ thr'[k].sock = thr[k].sock
      BY <2>2, UserAuthenticated
    <3> QED
      BY <1>0, <2>2, <3>1 DEF AuthenticateUser, SocketInv, Working
  <2>8. CASE AuthenticateFails(k)
    <3>1. thr[k].pc = "auth" /\ thr'[k].pc = "error" /\ thr'[k].sock = thr[k].sock
      BY <2>8, AuthenticationFailed
    <3> QED
      BY <1>0, <2>8, <3>1 DEF AuthenticateFails, SocketInv, Working
  <2>3. CASE SetApplication(k)
    <3>1. thr[k].pc = "flag" /\ thr'[k].pc \in {"flag", "error"} /\ thr'[k].sock = thr[k].sock
      BY <2>3, ApplicationSet
    <3> QED
      BY <1>0, <2>3, <3>1 DEF SetApplication, SocketInv, Working
  <2>4. CASE SetTableName(k) \/ ProcessScript(k)
    <3>1. thr[k].pc = "flag" /\ thr'[k].pc \in {"flag", "error"} /\ thr'[k].sock = thr[k].sock /\ UNCHANGED conn
      BY <1>0, <2>4 DEF SetTableName, ProcessScript, Reads, Thread
    <3> QED
      BY <1>0, <3>1 DEF SocketInv, Working
  <2>5. CASE UploadOK(k) \/ EndSession(k)
    <3>1. thr[k].pc = "flag" /\ thr'[k].pc \in {"commit", "error", "end"} /\ thr'[k].sock = thr[k].sock /\ UNCHANGED conn
      BY <1>0, <2>5 DEF UploadOK, EndSession, Reads, Thread
    <3> QED
      BY <1>0, <3>1 DEF SocketInv, Working
  <2>6. CASE \/ UploadCommit(k) \/ NetworkError(k) \/ UpdateConnectFlag(k)
             \/ \E del \in BOOLEAN : Download(k, del) \/ DownloadFails(k, del)
    <3>1. /\ thr[k].pc \in Working /\ thr'[k].pc \in {"select", "error", "free", "flag", "delete"}
          /\ thr'[k].sock = thr[k].sock /\ UNCHANGED conn
      <4>1. CASE UploadCommit(k)
        BY <1>0, <4>1 DEF UploadCommit, Thread, Working, net
      <4>2. CASE NetworkError(k)
        BY <1>0, <4>2 DEF NetworkError, Broken, Timeout, Thread, Working, net
      <4>3. CASE UpdateConnectFlag(k)
        BY <1>0, <4>3 DEF UpdateConnectFlag, Thread, Working, net
      <4>4. CASE \E del \in BOOLEAN : Download(k, del)
        BY <1>0, <4>4 DEF Download, Thread, Working
      <4>5. CASE \E del \in BOOLEAN : DownloadFails(k, del)
        BY <1>0, <4>5 DEF DownloadFails, Thread, Working
      <4> QED
        BY <2>6, <4>1, <4>2, <4>3, <4>4, <4>5
    <3> QED
      BY <1>0, <3>1 DEF SocketInv, Working
  <2>7. CASE FreeHandles(k)
    <3>1. thr'[k] = [NoThread EXCEPT !.pc = "done", !.ended = thr[k].ended] /\ thr[k].sock = k
      BY <1>0, <2>7 DEF FreeHandles, SocketInv, Working
    <3>2. thr'[k].pc = "done"
      BY <3>1 DEF NoThread
    <3> QED
      BY <1>0, <2>7, <3>1, <3>2 DEF FreeHandles
  <2> QED
    BY <2>1, <2>2, <2>3, <2>4, <2>5, <2>6, <2>7, <2>8 DEF Serve
<1>4. thr'[k].pc \notin {"none", "start"} /\ conn'[k] # "none"
  BY <1>2, <1>3 DEF Working
<1>5. ASSUME NEW l \in Conns
      PROVE  /\ thr'[l].pc = "start" => param' = l
             /\ thr'[l].pc \in Working => thr'[l].sock = l
             /\ (thr'[l].pc = "none") = (conn'[l] = "none")
             /\ (thr'[l].pc = "done") = (conn'[l] = "closed")
             /\ conn'[l] = "none" => toCli'[l] = << >>
  <2>1. CASE l = k
    BY <1>2, <1>3, <1>4, <2>1 DEF Working
  <2>2. CASE l # k
    BY <1>0, <1>1, <2>2 DEF SocketInv
  <2> QED
    BY <2>1, <2>2
<1>6. ASSUME NEW c \in Clients, cli'[c].pc # "off"
      PROVE  /\ conn'[cli'[c].conn] \in {"open", "closed"}
             /\ \A b \in Clients \ {c} : cli'[b].pc # "off" => cli'[b].conn # cli'[c].conn
  <2>1. cli' = cli /\ cli[c].conn \in Conns
    BY <1>0, <1>6 DEF client, Inv, ClientInv
  <2>2. conn[cli[c].conn] \in {"open", "closed"}
    BY <1>0, <1>6, <2>1 DEF SocketInv
  <2>3. conn'[cli[c].conn] \in {"open", "closed"}
    BY <1>0, <1>3, <2>1, <2>2
  <2> QED
    BY <1>0, <1>6, <2>1, <2>3 DEF SocketInv
<1> QED
  BY <1>5, <1>6 DEF SocketInv

LEMMA VersionsOK ==
    ASSUME Inv, SessInv, NEW k \in Conns, Serve(k)
    PROVE  VersionInv'
<1>1. local' = local
  BY OtherSockets DEF client
<1>2. \A r \in Rows : txn[k][r] # NoRow => txn[k][r].ver.row = r
  BY ThreadTypes DEF TOK, ThreadOK
<1>3. UNCHANGED rows \/ CommitTran(k)
  BY DEF Serve, InitializeParameter, AuthenticateUser, AuthenticateFails, SetApplication, SetTableName,
     ProcessScript, UploadOK, UploadCommit, Download, DownloadFails, EndSession, NetworkError,
     UpdateConnectFlag, FreeHandles, Rollback
<1>4. \A r \in Rows : rows'[r].ver.row = r
  BY <1>2, <1>3 DEF CommitTran, Written, SessInv, VersionInv
<1> QED
  BY <1>1, <1>4 DEF SessInv, VersionInv

LEMMA ServeSessions ==
    ASSUME Inv, SessInv, NEW k \in Conns, Serve(k)
    PROVE  SessInv'
<1>1. SocketInv' /\ VersionInv'
  BY SocketOK, VersionsOK
<1>2. TOK(k)' /\ \A c \in Clients : cli[c].pc # "off" /\ cli[c].conn = k => COK(c, k)'
  <2>1. CASE InitializeParameter(k) \/ \E a \in Answers : AuthenticateUser(k, a)
    BY <2>1, BeginningOK
  <2>2. CASE SetApplication(k)
    BY <2>2, SetApplicationOK
  <2>3. CASE SetTableName(k)
    BY <2>3, SetTableNameOK
  <2>4. CASE ProcessScript(k)
    BY <2>4, ProcessScriptOK
  <2>5. CASE UploadOK(k)
    BY <2>5, UploadOKOK
  <2>6. CASE UploadCommit(k)
    BY <2>6, UploadCommitOK
  <2>7. CASE \E del \in BOOLEAN : Download(k, del)
    BY <2>7, DownloadOK
  <2>8. CASE EndSession(k)
    BY <2>8, EndSessionOK
  <2>9. CASE NetworkError(k) \/ UpdateConnectFlag(k) \/ FreeHandles(k)
    BY <2>9, LastStepsOK
  <2>10. CASE AuthenticateFails(k)
    BY <2>10, AuthenticateFailsOK
  <2>11. CASE \E del \in BOOLEAN : DownloadFails(k, del)
    BY <2>11, DownloadFailsOK
  <2> QED
    BY <2>1, <2>2, <2>3, <2>4, <2>5, <2>6, <2>7, <2>8, <2>9, <2>10, <2>11 DEF Serve
<1>3. ASSUME NEW l \in Conns PROVE TOK(l)'
  BY <1>2, OtherSockets DEF TOK, client, SessInv, SessionsInv
<1>4. ASSUME NEW c \in Clients, cli'[c].pc # "off" PROVE COK(c, cli[c].conn)' /\ cli' = cli
  <2>1. cli' = cli /\ cli[c].conn \in Conns /\ COK(c, cli[c].conn)
    BY <1>4, OtherSockets DEF client, Inv, ClientInv, SessInv, SessionsInv
  <2>2. PICK l \in Conns : l = cli[c].conn
    BY <2>1
  <2>3. COK(c, l)'
    BY <1>2, <1>4, <2>1, <2>2, OtherSockets DEF COK, client
  <2> QED
    BY <2>1, <2>2, <2>3
<1> QED
  BY <1>1, <1>3, <1>4 DEF SessInv, SessionsInv

-----------------------------------------------------------------------------
(* The steps of a client keep the invariant of the sessions *)

LEMMA AttachedTypes ==
    ASSUME Inv, SessInv, NEW c \in Clients, cli[c].pc # "off", NEW k, k = cli[c].conn
    PROVE  /\ k \in Conns /\ conn[k] \in {"open", "closed"} /\ thr[k].pc # "none"
           /\ thr[k] \in Thread /\ toSrv[k] \in Seq(Request) /\ toCli[k] \in Seq(Answer)
           /\ sent[k] \subseteq Version /\ kept[k] \subseteq Version
           /\ cli[c] \in Program /\ TOK(k) /\ COK(c, k)
           /\ \A b \in Clients \ {c} : cli[b].pc # "off" => cli[b].conn # k
BY DEF Inv, DataInv, ThreadInv, NetInv, ClientInv, SessInv, SocketInv, SessionsInv

\* A step of client c on connection k leaves all others as they are.
LEMMA Elsewhere ==
    ASSUME Inv, SessInv, NEW c \in Clients, cli[c].pc # "off", NEW k \in Conns, k = cli[c].conn,
           UNCHANGED <<param, server>>,
           \A l \in Conns \ {k} : /\ toSrv'[l] = toSrv[l] /\ toCli'[l] = toCli[l]
                                  /\ conn'[l] = conn[l] /\ sent'[l] = sent[l],
           \A b \in Clients \ {c} : cli'[b] = cli[b] /\ local'[b] = local[b] /\ changed'[b] = changed[b],
           conn'[k] = conn[k] \/ (conn[k] = "open" /\ conn'[k] = "left" /\ cli'[c].pc = "off"),
           \A r \in Rows : local'[c][r].row = r,
           TOK(k)',
           cli'[c].pc # "off" => cli'[c].conn = k /\ COK(c, k)'
    PROVE  SessInv'
<1>1. /\ conn[k] \in {"open", "closed"} /\ thr[k].pc # "none"
      /\ \A b \in Clients \ {c} : cli[b].pc # "off" => cli[b].conn # k
  BY AttachedTypes
<1>2. SocketInv'
  <2>1. ASSUME NEW l \in Conns
        PROVE  /\ thr'[l].pc = "start" => param' = l
               /\ thr'[l].pc \in Working => thr'[l].sock = l
               /\ (thr'[l].pc = "none") = (conn'[l] = "none")
               /\ (thr'[l].pc = "done") = (conn'[l] = "closed")
               /\ conn'[l] = "none" => toCli'[l] = << >>
    <3>1. UNCHANGED <<param, thr>>
      BY DEF server
    <3>2. CASE l = k
      BY <1>1, <3>1, <3>2 DEF SessInv, SocketInv
    <3>3. CASE l # k
      BY <3>1, <3>3 DEF SessInv, SocketInv
    <3> QED
      BY <3>2, <3>3
  <2>2. ASSUME NEW b \in Clients, cli'[b].pc # "off" PROVE conn'[cli'[b].conn] \in {"open", "closed"}
    <3>1. CASE b = c
      BY <1>1, <2>2, <3>1
    <3>2. CASE b # c
      <4>1. cli'[b] = cli[b] /\ cli[b].conn # k /\ cli[b].conn \in Conns
        BY <1>1, <2>2, <3>2 DEF Inv, ClientInv
      <4> QED
        BY <2>2, <4>1 DEF SessInv, SocketInv
    <3> QED
      BY <3>1, <3>2
  <2>3. ASSUME NEW b \in Clients, cli'[b].pc # "off", NEW e \in Clients \ {b}, cli'[e].pc # "off"
        PROVE  cli'[e].conn # cli'[b].conn
    BY <1>1, <2>3 DEF SessInv, SocketInv
  <2> QED
    BY <2>1, <2>2, <2>3 DEF SocketInv
<1>3. VersionInv'
  BY DEF SessInv, VersionInv, server
<1>4. ASSUME NEW l \in Conns PROVE TOK(l)'
  BY DEF TOK, server, SessInv, SessionsInv
<1>5. ASSUME NEW b \in Clients, cli'[b].pc # "off" PROVE COK(b, cli[b].conn)' /\ cli'[b].conn = cli[b].conn
  <2>1. CASE b = c
    BY <1>5, <2>1 DEF COK
  <2>2. CASE b # c
    <3>1. cli'[b] = cli[b] /\ cli[b].conn # k /\ cli[b].conn \in Conns /\ COK(b, cli[b].conn)
      BY <1>1, <1>5, <2>2 DEF Inv, ClientInv, SessInv, SessionsInv
    <3>2. PICK l \in Conns : l = cli[b].conn
      BY <3>1
    <3>3. COK(b, l)'
      BY <2>2, <3>1, <3>2 DEF COK, server
    <3> QED
      BY <3>1, <3>2, <3>3
  <2> QED
    BY <2>1, <2>2
<1> QED
  BY <1>2, <1>3, <1>4, <1>5 DEF SessInv, SessionsInv

\* One session: the client program l with its versions v and log g, the thread t
\* with its transaction x, the queues q and a, the upload s, what is kept p.
Session(l, v, g, t, x, q, a, s, p) ==
    /\ l \in Program /\ q \in Seq(Request) /\ a \in Seq(Answer) /\ t.pc # "none"
    /\ \A r \in Rows : v[r].row = r
    /\ ThreadOK(t, x, q, s, p)
    /\ ClientOK(l, v, g, t, x, q, a, s, p)

LEMMA Attached ==
    ASSUME Inv, SessInv, NEW c \in Clients, cli[c].pc # "off", NEW k, k = cli[c].conn
    PROVE  /\ k \in Conns
           /\ Session(cli[c], local[c], changed[c], thr[k], txn[k], toSrv[k], toCli[k], sent[k], kept[k])
<1>1. \A r \in Rows : local[c][r].row = r
  BY DEF SessInv, VersionInv
<1> QED
  BY <1>1, AttachedTypes DEF Session, TOK, COK

\* The client goes on: its program, its versions and log, its queues, its upload.
LEMMA GoesOn ==
    ASSUME Inv, SessInv, NEW c \in Clients, cli[c].pc # "off", NEW k \in Conns, k = cli[c].conn,
           NEW l, NEW v, NEW g, NEW q, NEW a, NEW s,
           UNCHANGED <<param, server, conn>>,
           cli' = [cli EXCEPT ![c] = l], l.conn = k,
           local' = [local EXCEPT ![c] = v], changed' = [changed EXCEPT ![c] = g],
           toSrv' = [toSrv EXCEPT ![k] = q], toCli' = [toCli EXCEPT ![k] = a],
           sent' = [sent EXCEPT ![k] = s],
           Session(l, v, g, thr[k], txn[k], q, a, s, kept[k])
    PROVE  SessInv'
<1>1. /\ cli'[c] = l /\ local'[c] = v /\ changed'[c] = g
      /\ \A b \in Clients \ {c} : cli'[b] = cli[b] /\ local'[b] = local[b] /\ changed'[b] = changed[b]
  BY DEF Inv, ClientInv, DataInv
<1>2. /\ toSrv'[k] = q /\ toCli'[k] = a /\ sent'[k] = s
      /\ \A e \in Conns \ {k} : /\ toSrv'[e] = toSrv[e] /\ toCli'[e] = toCli[e]
                                /\ conn'[e] = conn[e] /\ sent'[e] = sent[e]
  BY DEF Inv, NetInv, DataInv
<1>3. TOK(k)'
  BY <1>2 DEF TOK, server, Session
<1>4. COK(c, k)'
  BY <1>1, <1>2 DEF COK, server, Session
<1>5. /\ \A r \in Rows : local'[c][r].row = r
      /\ conn'[k] = conn[k]
  BY <1>1 DEF Session
<1> QED
  BY <1>1, <1>2, <1>3, <1>4, <1>5, Elsewhere

\* A thread that reads an upload and finds another message, which is no name of a
\* data source.
LEMMA ReadsMore ==
    ASSUME NEW t, NEW x, NEW q \in Seq(Request), NEW s, NEW p, NEW m \in Request,
           ReadsUpload(t, x, q, s, p), \A n \in Range(q) : Before(n, m),
           m[1] \in {"M", "A"}
    PROVE  ReadsUpload(t, x, Append(q, m), s, p)
<1>1. Range(Append(q, m)) = Range(q) \cup {m}
  BY RangeAppend
<1>2. /\ Uploads(Append(q, m)) = Uploads(q)
      /\ \A f : Holds(Append(q, m), f) <=> (m[1] = f \/ Holds(q, f))
  BY UploadsAppend
<1>3. InOrder(Append(q, m))
  BY OrderAppend DEF ReadsUpload
<1> QED
  BY <1>1, <1>2, <1>3 DEF ReadsUpload

\* The thread when a message without a row comes.
LEMMA ThreadFinds ==
    ASSUME NEW t, NEW x, NEW q \in Seq(Request), NEW s, NEW p, NEW m \in Request,
           ThreadOK(t, x, q, s, p), m[1] # "U", t.pc # "none", Alive(t) => t.pc = "flag",
           t.pc = "flag" => ReadsUpload(t, x, Append(q, m), s, p)
    PROVE  ThreadOK(t, x, Append(q, m), s, p)
<1>1. Uploads(Append(q, m)) = Uploads(q)
  BY UploadsAppend
<1>2. t.pc \notin {"none", "start", "auth", "commit", "select", "delete"}
  BY DEF Alive
<1> QED
  BY <1>1, <1>2 DEF ThreadOK

LEMMA DSNSent ==
    ASSUME NEW l, NEW v, NEW g, NEW t, NEW x, NEW q, NEW a, NEW s, NEW p,
           Session(l, v, g, t, x, q, a, s, p), l.pc = "dsn"
    PROVE  Session([l EXCEPT !.pc = "table"], v, g, t, x, Append(q, <<"S", l.dsn>>), a, s, p)
<1> DEFINE d == l.dsn
           m == <<"S", d>>
           q2 == Append(q, m)
           l2 == [l EXCEPT !.pc = "table"]
<1>1. /\ l \in Program /\ q \in Seq(Request) /\ d \in 1..Dsns
      /\ ThreadOK(t, x, q, s, p) /\ ClientOK(l, v, g, t, x, q, a, s, p) /\ t.pc # "none"
  BY DEF Session, Program
<1>2. m \in Request /\ m[1] = "S" /\ q2 \in Seq(Request)
  BY <1>1, QueueAppend DEF Request
<1>3. l2 \in Program /\ l2.pc = "table" /\ l2.dsn = d /\ l2.up = l.up
  BY <1>1 DEF Program
<1>4. /\ a = << >> /\ l.up = {} /\ \A e \in 1..Dsns : e >= d => In(e, s) = {}
      /\ Alive(t) => t.pc = "flag" /\ q = << >> /\ (t.open = 0 \/ t.ended)
  BY <1>1 DEF ClientOK, Talk
<1>5. ASSUME q = << >> PROVE Range(q2) = {m} /\ InOrder(q2) /\ Uploads(q2) = {}
  <2>1. Range(q) = {} /\ Uploads(q) = {} /\ InOrder(q)
    BY <1>5, RangeNone, QueueEmpty
  <2>2. \A n \in Range(q) : Before(n, m)
    BY <2>1
  <2>3. InOrder(q2)
    BY <1>1, <1>2, <2>1, <2>2, OrderAppend
  <2> QED
    BY <1>1, <1>2, <2>1, <2>3, RangeAppend, UploadsAppend
<1>6. In(d, s) = {} /\ In(d, p) = {} /\ In(d, Vers(x)) = {}
  <2>1. In(d, s) = {}
    BY <1>1, <1>4
  <2> QED
    BY <1>1, <2>1 DEF ThreadOK, In
<1> HIDE DEF q2, l2
<1>7. ASSUME t.pc = "flag" PROVE ReadsUpload(t, x, q2, s, p)
  <2>1. q = << >> /\ (t.open = 0 \/ t.ended)
    BY <1>4, <1>7 DEF Alive
  <2>2. Vers(x) = {}
    <3>1. Uploads(q) = {} /\ Range(q) = {}
      BY <2>1, RangeNone, QueueEmpty
    <3> QED
      BY <1>1, <1>7, <2>1, <3>1, SyncAssumption DEF ThreadOK, ReadsUpload
  <2> QED
    BY <1>1, <1>5, <1>6, <2>1, <2>2 DEF ReadsUpload
<1>8. ThreadOK(t, x, q2, s, p)
  BY <1>1, <1>2, <1>4, <1>7, ThreadFinds DEF q2
<1>9. Talk("table", d, t, q2, a, s, p)
  <2>1. Alive(t) => OpenOn(d, t, q2) /\ Range(q2) \subseteq {m}
    BY <1>4, <1>5 DEF OpenOn
  <2> QED
    BY <1>4, <2>1 DEF Talk
<1>10. ClientOK(l2, v, g, t, x, q2, a, s, p)
  BY <1>1, <1>3, <1>4, <1>9 DEF ClientOK
<1> QED
  BY <1>1, <1>2, <1>3, <1>8, <1>10 DEF Session, q2, l2

LEMMA TableNameSent ==
    ASSUME NEW l, NEW v, NEW g, NEW t, NEW x, NEW q, NEW a, NEW s, NEW p, NEW n \in Modes,
           Session(l, v, g, t, x, q, a, s, p), l.pc = "table"
    PROVE  Session([l EXCEPT !.pc = "upload", !.up = g \cap RowsOf(l.dsn)], v, g,
                   t, x, Append(q, <<"M", n>>), a, s, p)
<1> DEFINE d == l.dsn
           m == <<"M", n>>
           q2 == Append(q, m)
           l2 == [l EXCEPT !.pc = "upload", !.up = g \cap RowsOf(d)]
<1>1. /\ l \in Program /\ q \in Seq(Request) /\ d \in 1..Dsns
      /\ ThreadOK(t, x, q, s, p) /\ ClientOK(l, v, g, t, x, q, a, s, p) /\ t.pc # "none"
  BY DEF Session, Program
<1>2. m \in Request /\ m[1] = "M" /\ q2 \in Seq(Request)
  BY <1>1, QueueAppend DEF Request
<1>3. l2 \in Program /\ l2.pc = "upload" /\ l2.dsn = d /\ l2.up = g \cap RowsOf(d)
  BY <1>1 DEF Program, RowsOf
<1>4. /\ a = << >> /\ \A e \in 1..Dsns : e >= d => In(e, s) = {}
      /\ Alive(t) => OpenOn(d, t, q) /\ Range(q) \subseteq {<<"S", d>>}
  BY <1>1 DEF ClientOK, Talk
<1>5. /\ Range(q2) = Range(q) \cup {m}
      /\ Alive(t) => t.pc = "flag"
  BY <1>1, <1>2, <1>4, RangeAppend DEF OpenOn
<1>6. In(d, s) = {} /\ In(d, p \cup Vers(x)) = {}
  <2>1. In(d, s) = {}
    BY <1>1, <1>4
  <2> QED
    BY <1>1, <2>1 DEF ThreadOK, In
<1>7. ASSUME t.pc = "flag" PROVE ReadsUpload(t, x, q2, s, p)
  <2>1. ReadsUpload(t, x, q, s, p)
    BY <1>1, <1>7 DEF ThreadOK
  <2>2. \A e \in Range(q) : Before(e, m)
    BY <1>4, <1>7 DEF Alive, Before
  <2> QED
    BY <1>1, <1>2, <2>1, <2>2, ReadsMore
<1> HIDE DEF q2, l2
<1>8. ThreadOK(t, x, q2, s, p)
  BY <1>1, <1>2, <1>5, <1>7, ThreadFinds DEF q2
<1>9. Talk("upload", d, t, q2, a, s, p)
  <2>1. Alive(t) => OpenOn(d, t, q2) /\ \A e \in Range(q2) : e[1] \in {"S", "M", "U"}
    BY <1>4, <1>5 DEF OpenOn
  <2> QED
    BY <1>4, <2>1 DEF Talk
<1>10. ClientOK(l2, v, g, t, x, q2, a, s, p)
  <2>1. \A e \in 1..Dsns : e > d => In(e, s) = {}
    BY <1>1, <1>4
  <2>2. l2.up \subseteq RowsOf(d) /\ \A u \in s : u.row \notin l2.up
    BY <1>3, <1>6 DEF In, RowsOf
  <2> QED
    BY <1>3, <1>6, <1>9, <2>1, <2>2 DEF ClientOK
<1> QED
  BY <1>1, <1>2, <1>3, <1>8, <1>10 DEF Session, q2, l2

\* An upload goes on with row r; the log may lose rows, but no other ones.
LEMMA UploadDataSent ==
    ASSUME NEW l, NEW v, NEW g, NEW t, NEW x, NEW q, NEW a, NEW s, NEW p, NEW r \in Rows,
           NEW h \in SUBSET g, v[r] \in Version,
           Session(l, v, g, t, x, q, a, s, p), l.pc = "upload", r \in l.up
    PROVE  Session([l EXCEPT !.up = @ \ {r}], v, h, t, x, Append(q, <<"U", v[r]>>), a,
                   s \cup {v[r]}, p)
<1> DEFINE d == l.dsn
           m == <<"U", v[r]>>
           q2 == Append(q, m)
           s2 == s \cup {v[r]}
           l2 == [l EXCEPT !.up = @ \ {r}]
<1>1. /\ l \in Program /\ q \in Seq(Request) /\ d \in 1..Dsns /\ v[r].row = r
      /\ ThreadOK(t, x, q, s, p) /\ ClientOK(l, v, g, t, x, q, a, s, p) /\ t.pc # "none"
  BY DEF Session, Program
<1>2. m \in Request /\ m[1] = "U" /\ m[2] = v[r] /\ q2 \in Seq(Request)
  BY <1>1, QueueAppend DEF Request
<1>3. l2 \in Program /\ l2.pc = "upload" /\ l2.dsn = d /\ l2.up = l.up \ {r}
  BY <1>1 DEF Program
<1>4. /\ a = << >> /\ \A e \in 1..Dsns : e > d => In(e, s) = {}
      /\ Alive(t) => OpenOn(d, t, q) /\ \A e \in Range(q) : e[1] \in {"S", "M", "U"}
      /\ l.up \subseteq RowsOf(d) /\ \A u \in s : u.row \notin l.up
      /\ \A i \in g \cap RowsOf(d) : i \in l.up \/ v[i] \in s
      /\ t.ended => In(d, p \cup Vers(x)) = {}
  BY <1>1 DEF ClientOK, Talk
<1>5. /\ Range(q2) = Range(q) \cup {m} /\ Uploads(q2) = Uploads(q) \cup {v[r]}
      /\ \A f : Holds(q2, f) <=> (f = "U" \/ Holds(q, f))
      /\ Alive(t) => t.pc = "flag"
  BY <1>1, <1>2, <1>4, RangeAppend, UploadsAppend DEF OpenOn
<1>6. In(d, s2) = In(d, s) \cup {v[r]} /\ \A e \in 1..Dsns : e # d => In(e, s2) = In(e, s)
  BY <1>1, <1>4 DEF In, RowsOf
<1>7. Alive(t) => ReadsUpload(t, x, q, s, p)
  BY <1>1, <1>5 DEF ThreadOK
<1>8. Alive(t) => InOrder(q2)
  <2>1. Alive(t) => \A e \in Range(q) : Before(e, m)
    BY <1>2, <1>4 DEF Before
  <2>2. Alive(t) => InOrder(q)
    BY <1>7 DEF ReadsUpload
  <2> QED
    BY <1>1, <1>2, <2>1, <2>2, OrderAppend
<1> HIDE DEF q2, l2, s2
<1>9. ASSUME Alive(t)
      PROVE  \/ /\ <<"S", d>> \in Range(q) /\ In(d, s) = Uploads(q) /\ In(d, p) = {}
                /\ Vers(x) = {} /\ (t.open = 0 \/ t.ended)
             \/ /\ ~Holds(q, "S") /\ t.open = d /\ ~t.ended
                /\ In(d, s) = Vers(x) \cup Uploads(q) /\ In(d, p) = {}
  <2>1. ReadsUpload(t, x, q, s, p) /\ OpenOn(d, t, q)
    BY <1>4, <1>7, <1>9
  <2>2. q # << >> => Head(q) \in Range(q)
    BY <1>1, RangeHead
  <2> QED
    BY <1>1, <2>1, <2>2, OpenOnCases
<1>10. ASSUME t.pc = "flag" PROVE ReadsUpload(t, x, q2, s2, p)
  <2>1. Alive(t)
    BY <1>10 DEF Alive
  <2>2. 0 \notin 1..Dsns
    BY SyncAssumption
  <2>3. CASE /\ <<"S", d>> \in Range(q) /\ In(d, s) = Uploads(q) /\ In(d, p) = {}
             /\ Vers(x) = {} /\ (t.open = 0 \/ t.ended)
    BY <1>1, <1>5, <1>6, <1>8, <2>1, <2>3 DEF ReadsUpload
  <2>4. CASE /\ ~Holds(q, "S") /\ t.open = d /\ ~t.ended
             /\ In(d, s) = Vers(x) \cup Uploads(q) /\ In(d, p) = {}
    BY <1>1, <1>5, <1>6, <1>8, <2>1, <2>2, <2>4 DEF ReadsUpload
  <2> QED
    BY <1>9, <2>1, <2>3, <2>4
<1>11. ASSUME t.ended \/ Alive(t), NEW e \in 1..Dsns, t.open = e => t.ended
       PROVE  Whole(e, x, s2, p)
  <2>1. CASE e # d
    BY <1>1, <1>6, <1>11, <2>1 DEF ThreadOK, Whole
  <2>2. CASE e = d
    <3>1. CASE Alive(t)
      <4>1. In(d, p) = {} /\ In(d, Vers(x)) = {}
        BY <1>9, <1>11, <2>2, <3>1 DEF In
      <4> QED
        BY <2>2, <4>1 DEF Whole
    <3>2. CASE ~Alive(t)
      <4>1. In(d, p) = {} /\ In(d, Vers(x)) = {}
        BY <1>4, <1>11, <3>2 DEF In
      <4> QED
        BY <2>2, <4>1 DEF Whole
    <3> QED
      BY <3>1, <3>2
  <2> QED
    BY <2>1, <2>2
<1>12. ThreadOK(t, x, q2, s2, p)
  <2>1. /\ Vers(x) \cup p \cup Uploads(q2) \subseteq s2
        /\ \A u, w \in s2 : u.row = w.row => u = w
        /\ \A i \in Rows : x[i] # NoRow => x[i].ver.row = i
    BY <1>1, <1>4, <1>5 DEF ThreadOK, s2
  <2>2. t.pc \notin {"none", "start", "auth", "commit", "select", "delete"}
    BY <1>1, <1>5 DEF Alive
  <2> QED
    BY <1>10, <1>11, <2>1, <2>2 DEF ThreadOK
<1>13. ClientOK(l2, v, h, t, x, q2, a, s2, p)
  <2>1. \A e \in 1..Dsns : e > d => In(e, s2) = {}
    BY <1>1, <1>4, <1>6
  <2>2. l2.up \subseteq RowsOf(d) /\ \A u \in s2 : u.row \notin l2.up
    BY <1>1, <1>3, <1>4 DEF s2
  <2>3. \A i \in h \cap RowsOf(d) : i \in l2.up \/ v[i] \in s2
    BY <1>3, <1>4 DEF s2
  <2>4. Talk("upload", d, t, q2, a, s2, p)
    <3>1. Alive(t) => OpenOn(d, t, q2) /\ \A e \in Range(q2) : e[1] \in {"S", "M", "U"}
      BY <1>2, <1>4, <1>5 DEF OpenOn
    <3> QED
      BY <1>4, <3>1 DEF Talk
  <2> QED
    BY <1>3, <1>4, <2>1, <2>2, <2>3, <2>4 DEF ClientOK
<1> QED
  BY <1>1, <1>2, <1>3, <1>12, <1>13 DEF Session, q2, l2, s2

LEMMA UploadOKSent ==
    ASSUME NEW l, NEW v, NEW g, NEW t, NEW x, NEW q, NEW a, NEW s, NEW p,
           Session(l, v, g, t, x, q, a, s, p), l.pc = "upload", l.up = {}
    PROVE  Session([l EXCEPT !.pc = "ok"], v, g, t, x, Append(q, <<"E">>), a, s, p)
<1> DEFINE d == l.dsn
           m == <<"E">>
           q2 == Append(q, m)
           l2 == [l EXCEPT !.pc = "ok"]
<1>1. /\ l \in Program /\ q \in Seq(Request) /\ d \in 1..Dsns
      /\ ThreadOK(t, x, q, s, p) /\ ClientOK(l, v, g, t, x, q, a, s, p) /\ t.pc # "none"
  BY DEF Session, Program
<1>2. m \in Request /\ m[1] = "E" /\ q2 \in Seq(Request)
  BY <1>1, QueueAppend DEF Request
<1>3. l2 \in Program /\ l2.pc = "ok" /\ l2.dsn = d /\ l2.up = {}
  BY <1>1 DEF Program
<1>4. /\ a = << >> /\ \A e \in 1..Dsns : e > d => In(e, s) = {}
      /\ Alive(t) => OpenOn(d, t, q) /\ \A e \in Range(q) : e[1] \in {"S", "M", "U"}
      /\ \A i \in g \cap RowsOf(d) : v[i] \in s
  BY <1>1 DEF ClientOK, Talk
<1>5. /\ Range(q2) = Range(q) \cup {m} /\ Uploads(q2) = Uploads(q)
      /\ \A f : Holds(q2, f) <=> (f = "E" \/ Holds(q, f))
      /\ Alive(t) => t.pc = "flag"
  BY <1>1, <1>2, <1>4, RangeAppend, UploadsAppend DEF OpenOn
<1> HIDE DEF q2, l2
<1>6. ASSUME t.pc = "flag" PROVE ReadsUpload(t, x, q2, s, p)
  <2>1. ReadsUpload(t, x, q, s, p) /\ OpenOn(d, t, q)
    BY <1>1, <1>4, <1>6 DEF ThreadOK, Alive
  <2>2. \A e \in Range(q) : Before(e, m)
    BY <1>2, <1>4, <1>6 DEF Alive, Before
  <2>3. InOrder(q2)
    BY <1>1, <1>2, <2>1, <2>2, OrderAppend DEF q2, ReadsUpload
  <2>4. q # << >> => Head(q) \in Range(q)
    BY <1>1, RangeHead
  <2>5. \/ /\ <<"S", d>> \in Range(q) /\ In(d, s) = Uploads(q) /\ In(d, p) = {}
           /\ Vers(x) = {} /\ (t.open = 0 \/ t.ended)
        \/ /\ ~Holds(q, "S") /\ t.open = d /\ ~t.ended
           /\ In(d, s) = Vers(x) \cup Uploads(q) /\ In(d, p) = {}
    BY <1>1, <2>1, <2>4, OpenOnCases
  <2>6. 0 \notin 1..Dsns
    BY SyncAssumption
  <2> QED
    BY <1>1, <1>5, <2>3, <2>5, <2>6 DEF ReadsUpload
<1>7. ThreadOK(t, x, q2, s, p)
  BY <1>1, <1>2, <1>5, <1>6, ThreadFinds DEF q2
<1>8. Talk("ok", d, t, q2, a, s, p)
  <2>1. Alive(t) => OpenOn(d, t, q2) /\ Holds(q2, "E")
    BY <1>4, <1>5 DEF OpenOn
  <2> QED
    BY <1>4, <2>1 DEF Talk
<1>9. ClientOK(l2, v, g, t, x, q2, a, s, p)
  BY <1>3, <1>4, <1>8 DEF ClientOK
<1> QED
  BY <1>1, <1>2, <1>3, <1>7, <1>9 DEF Session, q2, l2

\* What a client reads: the messages that the state expects, whatever flags come.
LEMMA OKReceived ==
    ASSUME NEW l, NEW v, NEW g, NEW t, NEW x, NEW q, NEW a, NEW s, NEW p,
           Session(l, v, g, t, x, q, a, s, p), l.pc = "ok", a # << >>
    PROVE  Session([l EXCEPT !.pc = "select"], v, g, t, x, q, Tail(a), s, p)
<1> DEFINE l2 == [l EXCEPT !.pc = "select"]
           b == Tail(a)
<1>1. /\ l \in Program /\ a \in Seq(Answer) /\ ClientOK(l, v, g, t, x, q, a, s, p)
  BY DEF Session
<1>2. b \in Seq(Answer) /\ l2 \in Program /\ l2.pc = "select" /\ l2.dsn = l.dsn /\ l2.up = l.up
  BY <1>1, QueueHead DEF Program
<1>3. Talk("select", l.dsn, t, q, b, s, p)
  BY <1>1 DEF ClientOK, Talk
<1> HIDE DEF l2, b
<1>4. ClientOK(l2, v, g, t, x, q, b, s, p)
  BY <1>1, <1>2, <1>3 DEF ClientOK
<1> QED
  BY <1>2, <1>4 DEF Session, l2, b

LEMMA SelectedReceived ==
    ASSUME NEW d, NEW t, NEW q, NEW a, NEW s, NEW p, Downloading(d, t, q, a, s, p),
           a # << >>, Head(a)[1] = "F"
    PROVE  RowsData(Head(a), d) /\ Downloading(d, t, q, Tail(a), s, p)
<1>1. ~Last(a) /\ Head(a) # <<"E">>
  BY DEF Last
<1>2. CASE Selected(a, d) /\ In(d, s) \subseteq p /\ (Alive(t) => AtDownload(d, t, q, {"delete"}))
  <2>1. RowsData(Head(a), d) /\ Last(Tail(a))
    BY <1>1, <1>2 DEF Selected
  <2>2. Selected(Tail(a), d)
    BY <2>1 DEF Selected, Last
  <2> QED
    BY <1>2, <2>1, <2>2 DEF Downloading
<1>3. CASE Both(a, d) /\ In(d, s) \subseteq p /\ (Alive(t) => AtDownload(d, t, q, {"flag"}))
  <2>1. /\ RowsData(Head(a), d) /\ Tail(a) # << >> /\ Head(Tail(a)) = <<"E">>
        /\ Deletions(Tail(Tail(a)), d)
    BY <1>1, <1>3 DEF Both
  <2>2. Both(Tail(a), d)
    BY <2>1 DEF Both
  <2> QED
    BY <1>3, <2>1, <2>2 DEF Downloading
<1>4. CASE CutOff(a, d) /\ In(d, s) \subseteq p /\ ~Alive(t)
  <2>1. RowsData(Head(a), d) /\ (Tail(a) = << >> \/ CutOff(Tail(a), d))
    BY <1>1, <1>4 DEF CutOff, Part, Second
  <2> QED
    BY <1>4, <2>1 DEF Downloading
<1> QED
  BY <1>2, <1>3, <1>4 DEF Downloading

LEMMA DeletedReceived ==
    ASSUME NEW d, NEW a, Deletions(a, d), Head(a)[1] = "R"
    PROVE  RowsData(Head(a), d) /\ Deletions(Tail(a), d)
<1>1. ~Last(a)
  BY DEF Last
<1>2. RowsData(Head(a), d) /\ Last(Tail(a))
  BY <1>1 DEF Deletions
<1> QED
  BY <1>2 DEF Deletions, Last

LEMMA RowsExpected ==
    ASSUME NEW l, NEW v, NEW g, NEW t, NEW x, NEW q, NEW a, NEW s, NEW p,
           Session(l, v, g, t, x, q, a, s, p), a # << >>,
           \/ l.pc = "select" /\ Head(a)[1] = "F"
           \/ l.pc = "delete" /\ Head(a)[1] = "R"
    PROVE  /\ RowsData(Head(a), l.dsn) /\ Talk(l.pc, l.dsn, t, q, Tail(a), s, p)
           /\ In(l.dsn, s) \subseteq p
<1> DEFINE d == l.dsn
           b == Tail(a)
<1>1. ClientOK(l, v, g, t, x, q, a, s, p)
  BY DEF Session
<1>2. CASE l.pc = "select" /\ Head(a)[1] = "F"
  <2>1. Downloading(d, t, q, a, s, p)
    BY <1>1, <1>2 DEF ClientOK, Talk
  <2>2. RowsData(Head(a), d) /\ Downloading(d, t, q, b, s, p)
    BY <1>2, <2>1, SelectedReceived
  <2>3. In(d, s) \subseteq p
    BY <2>1 DEF Downloading
  <2>4. Talk(l.pc, d, t, q, b, s, p)
    BY <1>2, <2>2 DEF Talk
  <2> QED
    BY <2>2, <2>3, <2>4
<1>3. CASE l.pc = "delete" /\ Head(a)[1] = "R"
  <2>1. /\ In(d, s) \subseteq p
        /\ \/ Deletions(a, d) /\ (Alive(t) => AtDownload(d, t, q, {"flag"}))
           \/ Part(a, "R", d) /\ ~Alive(t)
    BY <1>1, <1>3 DEF ClientOK, Talk
  <2>2. CASE Deletions(a, d) /\ (Alive(t) => AtDownload(d, t, q, {"flag"}))
    <3>1. RowsData(Head(a), d) /\ Deletions(b, d)
      BY <1>3, <2>2, DeletedReceived
    <3>2. Talk(l.pc, d, t, q, b, s, p)
      BY <1>3, <2>1, <2>2, <3>1 DEF Talk
    <3> QED
      BY <2>1, <3>1, <3>2
  <2>3. CASE Part(a, "R", d) /\ ~Alive(t)
    <3>1. RowsData(Head(a), d) /\ b = << >>
      BY <2>3 DEF Part
    <3>2. Talk(l.pc, d, t, q, b, s, p)
      BY <1>3, <2>1, <2>3, <3>1 DEF Talk
    <3> QED
      BY <2>1, <3>1, <3>2
  <2> QED
    BY <2>1, <2>2, <2>3
<1> QED
  BY <1>2, <1>3

LEMMA RowsReceived ==
    ASSUME NEW l, NEW v, NEW g, NEW t, NEW x, NEW q, NEW a, NEW s, NEW p,
           Session(l, v, g, t, x, q, a, s, p), a # << >>, NEW new, new = Head(a)[2],
           \/ l.pc = "select" /\ Head(a)[1] = "F"
           \/ l.pc = "delete" /\ Head(a)[1] = "R"
    PROVE  Session(l, [r \in Rows |-> IF r \in DOMAIN new THEN new[r] ELSE v[r]], g \ DOMAIN new,
                   t, x, q, Tail(a), s, p)
<1> DEFINE v2 == [r \in Rows |-> IF r \in DOMAIN new THEN new[r] ELSE v[r]]
           g2 == g \ DOMAIN new
           b == Tail(a)
           d == l.dsn
<1>1. /\ l \in Program /\ a \in Seq(Answer) /\ ClientOK(l, v, g, t, x, q, a, s, p)
      /\ \A r \in Rows : v[r].row = r
  BY DEF Session
<1>2. b \in Seq(Answer)
  BY <1>1, QueueHead
<1>3. RowsData(Head(a), d) /\ Talk(l.pc, d, t, q, b, s, p)
  BY RowsExpected
<1>4. \A r \in DOMAIN new : r \in RowsOf(d) /\ new[r].row = r
  BY <1>3 DEF RowsData
<1>5. \A r \in Rows : v2[r].row = r /\ (r \notin DOMAIN new => v2[r] = v[r])
  BY <1>1, <1>4
<1> HIDE DEF v2, g2, b
<1>6. ClientOK(l, v2, g2, t, x, q, b, s, p)
  <2>1. \A r \in g2 \cap RowsOf(d) : l.pc \in {"upload", "ok", "select", "delete"} => r \in l.up \/ v2[r] \in s
    BY <1>1, <1>5 DEF ClientOK, g2, RowsOf
  <2> QED
    BY <1>1, <1>3, <2>1 DEF ClientOK
<1>7. Session(l, v2, g2, t, x, q, b, s, p)
  BY <1>2, <1>5, <1>6 DEF Session
<1> QED
  BY <1>7 DEF v2, g2, b

LEMMA EndReceived ==
    ASSUME NEW l, NEW v, NEW g, NEW t, NEW x, NEW q, NEW a, NEW s, NEW p,
           Session(l, v, g, t, x, q, a, s, p), a # << >>, l.pc = "select", Head(a)[1] = "E"
    PROVE  Session([l EXCEPT !.pc = "delete"], v, g, t, x, q, Tail(a), s, p)
<1> DEFINE l2 == [l EXCEPT !.pc = "delete"]
           b == Tail(a)
           d == l.dsn
<1>1. /\ l \in Program /\ a \in Seq(Answer) /\ ClientOK(l, v, g, t, x, q, a, s, p)
  BY DEF Session
<1>2. b \in Seq(Answer) /\ l2 \in Program /\ l2.pc = "delete" /\ l2.dsn = d /\ l2.up = l.up
  BY <1>1, QueueHead DEF Program
<1>3. Downloading(d, t, q, a, s, p)
  BY <1>1 DEF ClientOK, Talk
<1>4. /\ In(d, s) \subseteq p
      /\ \/ b = << >> /\ (Alive(t) => AtDownload(d, t, q, {"delete"}))
         \/ Deletions(b, d) /\ (Alive(t) => AtDownload(d, t, q, {"flag"}))
         \/ Part(b, "R", d) /\ ~Alive(t)
  <2>1. CASE Selected(a, d) /\ In(d, s) \subseteq p /\ (Alive(t) => AtDownload(d, t, q, {"delete"}))
    BY <2>1 DEF Selected, Last
  <2>2. CASE Both(a, d) /\ In(d, s) \subseteq p /\ (Alive(t) => AtDownload(d, t, q, {"flag"}))
    BY <2>2 DEF Both
  <2>3. CASE CutOff(a, d) /\ In(d, s) \subseteq p /\ ~Alive(t)
    BY <2>3 DEF CutOff, Part, Second
  <2> QED
    BY <1>3, <2>1, <2>2, <2>3 DEF Downloading
<1>5. Talk("delete", d, t, q, b, s, p)
  BY <1>4 DEF Talk
<1> HIDE DEF l2, b
<1>6. ClientOK(l2, v, g, t, x, q, b, s, p)
  BY <1>1, <1>2, <1>5 DEF ClientOK
<1> QED
  BY <1>2, <1>6 DEF Session, l2, b

\* The changes of the data source leave the log, and the next one begins, or none does.
LEMMA DeleteEndReceived ==
    ASSUME NEW l, NEW v, NEW g, NEW t, NEW x, NEW q, NEW a, NEW s, NEW p, NEW h,
           Session(l, v, g, t, x, q, a, s, p), a # << >>, l.pc = "delete", Head(a)[1] = "E",
           NEW l2 \in Program, l2.up = l.up,
           l2.pc = IF l.dsn < Dsns THEN "dsn" ELSE "quit",
           l2.dsn = IF l.dsn < Dsns THEN l.dsn + 1 ELSE l.dsn
    PROVE  Session(l2, v, h, t, x, q, Tail(a), s, p)
<1> DEFINE b == Tail(a)
           d == l.dsn
<1>1. /\ l \in Program /\ a \in Seq(Answer) /\ ClientOK(l, v, g, t, x, q, a, s, p)
      /\ d \in 1..Dsns /\ Dsns \in Nat
  BY SyncAssumption DEF Session, Program
<1>2. /\ b \in Seq(Answer) /\ l2 \in Program /\ l2.up = l.up /\ l2.pc \in {"dsn", "quit"}
      /\ l2.dsn = IF d < Dsns THEN d + 1 ELSE d
      /\ l2.pc = "dsn" => d < Dsns
  BY <1>1, QueueHead
<1>3. /\ In(d, s) \subseteq p
      /\ Deletions(a, d) /\ (Alive(t) => AtDownload(d, t, q, {"flag"}))
  BY <1>1 DEF ClientOK, Talk, Part
<1>4. b = << >>
  BY <1>3 DEF Deletions, Last
<1>5. Talk(l2.pc, l2.dsn, t, q, b, s, p)
  BY <1>2, <1>3, <1>4 DEF Talk, AtDownload
<1>6. \A e \in 1..Dsns : (IF l2.pc = "dsn" THEN e >= l2.dsn ELSE e > l2.dsn) => e > d
  BY <1>1, <1>2
<1> HIDE DEF b
<1>7. ClientOK(l2, v, h, t, x, q, b, s, p)
  <2>1. \A e \in 1..Dsns :
           (IF l2.pc \in {"ack", "dsn", "table"} THEN e >= l2.dsn ELSE e > l2.dsn) => In(e, s) = {}
    BY <1>1, <1>2, <1>6 DEF ClientOK
  <2>2. l2.up = {}
    BY <1>1, <1>2 DEF ClientOK
  <2>3. t.ended /\ l2.pc = "upload" => FALSE
    BY <1>2
  <2> QED
    BY <1>2, <1>5, <2>1, <2>2, <2>3 DEF ClientOK
<1> QED
  BY <1>2, <1>3, <1>7 DEF Session, b

\* The answer to the request: a data source, or the end.
LEMMA AnswerReceived ==
    ASSUME NEW l, NEW v, NEW g, NEW t, NEW x, NEW q, NEW a, NEW s, NEW p, NEW pc \in {"dsn", "quit"},
           Session(l, v, g, t, x, q, a, s, p), a # << >>, l.pc = "ack"
    PROVE  Session([l EXCEPT !.pc = pc], v, g, t, x, q, Tail(a), s, p)
<1> DEFINE l2 == [l EXCEPT !.pc = pc]
           b == Tail(a)
           d == l.dsn
<1>1. /\ l \in Program /\ a \in Seq(Answer) /\ ClientOK(l, v, g, t, x, q, a, s, p) /\ d \in 1..Dsns
  BY DEF Session, Program
<1>2. b \in Seq(Answer) /\ l2 \in Program /\ l2.pc = pc /\ l2.dsn = d /\ l2.up = l.up
  BY <1>1, QueueHead DEF Program
<1>3. b = << >> /\ (Alive(t) => t.pc = "flag" /\ q = << >> /\ t.open = 0 /\ ~t.ended)
  BY <1>1 DEF ClientOK, Talk
<1>4. Talk(pc, d, t, q, b, s, p)
  BY <1>3 DEF Talk
<1> HIDE DEF l2, b
<1>5. ClientOK(l2, v, g, t, x, q, b, s, p)
  <2>1. \A e \in 1..Dsns :
           (IF l2.pc \in {"ack", "dsn", "table"} THEN e >= l2.dsn ELSE e > l2.dsn) => In(e, s) = {}
    <3>1. \A e \in 1..Dsns : e > d => e >= d
      BY SyncAssumption, <1>1
    <3> QED
      BY <1>1, <1>2, <3>1 DEF ClientOK
  <2> QED
    BY <1>1, <1>2, <1>4, <2>1 DEF ClientOK
<1> QED
  BY <1>2, <1>5 DEF Session, l2, b

LEMMA QuitSent ==
    ASSUME NEW l, NEW v, NEW g, NEW t, NEW x, NEW q, NEW a, NEW s, NEW p,
           Session(l, v, g, t, x, q, a, s, p), l.pc = "quit"
    PROVE  Session([l EXCEPT !.pc = "bye"], v, g, t, x, Append(q, <<"A">>), a, s, p)
<1> DEFINE m == <<"A">>
           q2 == Append(q, m)
           l2 == [l EXCEPT !.pc = "bye"]
           d == l.dsn
<1>1. /\ l \in Program /\ q \in Seq(Request) /\ d \in 1..Dsns
      /\ ThreadOK(t, x, q, s, p) /\ ClientOK(l, v, g, t, x, q, a, s, p) /\ t.pc # "none"
  BY DEF Session, Program
<1>2. m \in Request /\ m[1] = "A" /\ q2 \in Seq(Request)
  BY <1>1, QueueAppend DEF Request
<1>3. l2 \in Program /\ l2.pc = "bye" /\ l2.dsn = d /\ l2.up = l.up
  BY <1>1 DEF Program
<1>4. Alive(t) => t.pc = "flag" /\ q = << >>
  BY <1>1 DEF ClientOK, Talk
<1>5. Alive(t) => Range(q2) \subseteq {m}
  <2>1. Range(q2) = Range(q) \cup {m}
    BY <1>1, <1>2, RangeAppend
  <2>2. q = << >> => Range(q) = {}
    BY RangeNone
  <2> QED
    BY <1>4, <2>1, <2>2
<1>6. ASSUME t.pc = "flag" PROVE ReadsUpload(t, x, q2, s, p)
  <2>1. ReadsUpload(t, x, q, s, p) /\ q = << >>
    BY <1>1, <1>4, <1>6 DEF ThreadOK, Alive
  <2>2. Range(q) = {}
    BY <2>1, RangeNone
  <2> QED
    BY <1>1, <1>2, <2>1, <2>2, ReadsMore
<1> HIDE DEF q2, l2
<1>7. ThreadOK(t, x, q2, s, p)
  BY <1>1, <1>2, <1>4, <1>6, ThreadFinds DEF q2
<1>8. Talk("bye", d, t, q2, a, s, p)
  BY <1>4, <1>5 DEF Talk
<1>9. ClientOK(l2, v, g, t, x, q2, a, s, p)
  BY <1>1, <1>3, <1>8 DEF ClientOK
<1> QED
  BY <1>1, <1>2, <1>3, <1>7, <1>9 DEF Session, q2, l2

-----------------------------------------------------------------------------
(* The steps of a client *)

\* A client that sends or reads goes on: its next state, log, queues and upload.
LEMMA SendingOK ==
    ASSUME Inv, SessInv, NEW c \in Clients, cli[c].pc # "off",
           \/ SendDSN(c) \/ SendUploadOK(c) \/ Quit(c) \/ \E n \in Modes : SendTableName(c, n)
    PROVE  SessInv'
<1> DEFINE k == cli[c].conn
           l == cli[c]
           q == toSrv[k]
<1>1. k \in Conns /\ Session(l, local[c], changed[c], thr[k], txn[k], q, toCli[k], sent[k], kept[k])
  BY Attached
<1>2. /\ local' = [local EXCEPT ![c] = local[c]] /\ changed' = [changed EXCEPT ![c] = changed[c]]
      /\ sent' = [sent EXCEPT ![k] = sent[k]] /\ toCli' = [toCli EXCEPT ![k] = toCli[k]]
      /\ UNCHANGED <<param, server, conn>>
  BY <1>1 DEF SendDSN, SendUploadOK, Quit, SendTableName, Send, Inv, DataInv, NetInv
<1>3. l \in Program /\ cli \in [Clients -> Program] /\ toSrv \in [Conns -> Seq(Request)]
  BY DEF Inv, ClientInv, NetInv
<1>4. CASE SendDSN(c)
  <2>1. /\ l.pc = "dsn" /\ toSrv' = [toSrv EXCEPT ![k] = Append(q, <<"S", l.dsn>>)]
        /\ cli' = [cli EXCEPT ![c] = [l EXCEPT !.pc = "table"]]
    BY <1>3, <1>4 DEF SendDSN, Send, Goto
  <2>2. [l EXCEPT !.pc = "table"].conn = k
    BY <1>3 DEF Program
  <2>3. Session([l EXCEPT !.pc = "table"], local[c], changed[c], thr[k], txn[k],
                Append(q, <<"S", l.dsn>>), toCli[k], sent[k], kept[k])
    BY <1>1, <2>1, DSNSent
  <2> HIDE DEF k, l, q
  <2> QED
    BY <1>1, <1>2, <2>1, <2>2, <2>3, GoesOn DEF k
<1>5. CASE SendUploadOK(c)
  <2>1. /\ l.pc = "upload" /\ l.up = {} /\ toSrv' = [toSrv EXCEPT ![k] = Append(q, <<"E">>)]
        /\ cli' = [cli EXCEPT ![c] = [l EXCEPT !.pc = "ok"]]
    BY <1>3, <1>5 DEF SendUploadOK, Send, Goto
  <2>2. [l EXCEPT !.pc = "ok"].conn = k
    BY <1>3 DEF Program
  <2>3. Session([l EXCEPT !.pc = "ok"], local[c], changed[c], thr[k], txn[k],
                Append(q, <<"E">>), toCli[k], sent[k], kept[k])
    BY <1>1, <2>1, UploadOKSent
  <2> HIDE DEF k, l, q
  <2> QED
    BY <1>1, <1>2, <2>1, <2>2, <2>3, GoesOn DEF k
<1>6. CASE Quit(c)
  <2>1. /\ l.pc = "quit" /\ toSrv' = [toSrv EXCEPT ![k] = Append(q, <<"A">>)]
        /\ cli' = [cli EXCEPT ![c] = [l EXCEPT !.pc = "bye"]]
    BY <1>3, <1>6 DEF Quit, Send, Goto
  <2>2. [l EXCEPT !.pc = "bye"].conn = k
    BY <1>3 DEF Program
  <2>3. Session([l EXCEPT !.pc = "bye"], local[c], changed[c], thr[k], txn[k],
                Append(q, <<"A">>), toCli[k], sent[k], kept[k])
    BY <1>1, <2>1, QuitSent
  <2> HIDE DEF k, l, q
  <2> QED
    BY <1>1, <1>2, <2>1, <2>2, <2>3, GoesOn DEF k
<1>7. ASSUME NEW n \in Modes, SendTableName(c, n) PROVE SessInv'
  <2> DEFINE l2 == [l EXCEPT !.pc = "upload", !.up = changed[c] \cap RowsOf(l.dsn)]
  <2>1. /\ l.pc = "table" /\ toSrv' = [toSrv EXCEPT ![k] = Append(q, <<"M", n>>)]
        /\ cli' = [cli EXCEPT ![c] = l2]
    BY <1>3, <1>7 DEF SendTableName, Send
  <2>2. l2.conn = k
    BY <1>3 DEF Program
  <2>3. Session(l2, local[c], changed[c], thr[k], txn[k],
                Append(q, <<"M", n>>), toCli[k], sent[k], kept[k])
    BY <1>1, <2>1, TableNameSent
  <2> HIDE DEF k, l, q, l2
  <2> QED
    BY <1>1, <1>2, <2>1, <2>2, <2>3, GoesOn DEF k
<1> QED
  BY <1>4, <1>5, <1>6, <1>7

LEMMA UploadDataOK ==
    ASSUME Inv, SessInv, NEW c \in Clients, cli[c].pc # "off", NEW r \in Rows, SendUploadData(c, r)
    PROVE  SessInv'
<1> DEFINE k == cli[c].conn
           l == cli[c]
           q == toSrv[k]
           u == local[c][r]
           h == IF "early" \in Faults /\ l.up = {r} THEN changed[c] \ RowsOf(l.dsn) ELSE changed[c]
           l2 == [l EXCEPT !.up = @ \ {r}]
<1>1. k \in Conns /\ Session(l, local[c], changed[c], thr[k], txn[k], q, toCli[k], sent[k], kept[k])
  BY Attached
<1>2. l \in Program /\ cli \in [Clients -> Program] /\ u \in Version /\ h \in SUBSET changed[c]
  BY DEF Inv, ClientInv, DataInv
<1>3. /\ local' = [local EXCEPT ![c] = local[c]] /\ changed' = [changed EXCEPT ![c] = h]
      /\ sent' = [sent EXCEPT ![k] = sent[k] \cup {u}] /\ toCli' = [toCli EXCEPT ![k] = toCli[k]]
      /\ toSrv' = [toSrv EXCEPT ![k] = Append(q, <<"U", u>>)]
      /\ UNCHANGED <<param, server, conn>>
  BY <1>1 DEF SendUploadData, Send, Inv, DataInv, NetInv
<1>4. l.pc = "upload" /\ r \in l.up /\ cli' = [cli EXCEPT ![c] = l2] /\ l2.conn = k
  BY <1>2 DEF SendUploadData, Program
<1>5. Session(l2, local[c], h, thr[k], txn[k], Append(q, <<"U", u>>), toCli[k],
              sent[k] \cup {u}, kept[k])
  <2> HIDE DEF k, l, q, h
  <2> QED
    BY <1>1, <1>2, <1>4, UploadDataSent
<1> HIDE DEF k, l, q, u, h, l2
<1> QED
  BY <1>1, <1>3, <1>4, <1>5, GoesOn DEF k

LEMMA ReceivingOK ==
    ASSUME Inv, SessInv, NEW c \in Clients, cli[c].pc # "off",
           \/ ReceiveOK(c) \/ ReceiveRows(c) \/ ReceiveEnd(c) \/ ReceiveDeleteEnd(c)
    PROVE  SessInv'
<1> DEFINE k == cli[c].conn
           l == cli[c]
           a == toCli[k]
<1>1. k \in Conns /\ Session(l, local[c], changed[c], thr[k], txn[k], toSrv[k], a, sent[k], kept[k])
  BY Attached
<1>2. l \in Program /\ cli \in [Clients -> Program]
  BY DEF Inv, ClientInv
<1>3. /\ toCli' = [toCli EXCEPT ![k] = Tail(a)] /\ toSrv' = [toSrv EXCEPT ![k] = toSrv[k]]
      /\ sent' = [sent EXCEPT ![k] = sent[k]] /\ UNCHANGED <<param, server, conn>> /\ a # << >>
  BY <1>1 DEF ReceiveOK, ReceiveRows, ReceiveEnd, ReceiveDeleteEnd, Got, Take, Inv, DataInv, NetInv
<1>4. CASE ReceiveOK(c)
  <2>1. /\ l.pc = "ok" /\ cli' = [cli EXCEPT ![c] = [l EXCEPT !.pc = "select"]]
        /\ local' = [local EXCEPT ![c] = local[c]] /\ changed' = [changed EXCEPT ![c] = changed[c]]
    BY <1>2, <1>4 DEF ReceiveOK, Goto, Inv, DataInv
  <2>2. [l EXCEPT !.pc = "select"].conn = k
    BY <1>2 DEF Program
  <2>3. Session([l EXCEPT !.pc = "select"], local[c], changed[c], thr[k], txn[k],
                toSrv[k], Tail(a), sent[k], kept[k])
    BY <1>1, <1>3, <2>1, OKReceived
  <2> HIDE DEF k, l, a
  <2> QED
    BY <1>1, <1>3, <2>1, <2>2, <2>3, GoesOn DEF k
<1>5. CASE ReceiveRows(c)
  <2>0. PICK new : new = Head(a)[2]
    OBVIOUS
  <2> DEFINE v == [r \in Rows |-> IF r \in DOMAIN new THEN new[r] ELSE local[c][r]]
  <2>1. /\ \/ l.pc = "select" /\ Head(a)[1] = "F"
           \/ l.pc = "delete" /\ Head(a)[1] = "R"
        /\ local' = [local EXCEPT ![c] = v] /\ changed' = [changed EXCEPT ![c] = changed[c] \ DOMAIN new]
        /\ cli' = [cli EXCEPT ![c] = l]
    <3>1. \/ l.pc = "select" /\ Head(a)[1] = "F"
          \/ l.pc = "delete" /\ Head(a)[1] = "R"
      BY <1>5 DEF ReceiveRows, Got
    <3>2. changed' = [changed EXCEPT ![c] = changed[c] \ DOMAIN new]
      BY <1>5, <2>0 DEF ReceiveRows
    <3>3. cli' = [cli EXCEPT ![c] = l]
      BY <1>2, <1>5 DEF ReceiveRows
    <3>4. local' = [local EXCEPT ![c] = v]
      BY <1>5, <2>0 DEF ReceiveRows
    <3> QED
      BY <3>1, <3>2, <3>3, <3>4
  <2>2. Session(l, v, changed[c] \ DOMAIN new, thr[k], txn[k], toSrv[k], Tail(a), sent[k], kept[k])
    BY <1>1, <1>3, <2>0, <2>1, RowsReceived
  <2>3. l.conn = k
    OBVIOUS
  <2> HIDE DEF k, l, a, v
  <2> QED
    BY <1>1, <1>3, <2>1, <2>2, <2>3, GoesOn DEF k
<1>6. CASE ReceiveEnd(c)
  <2>1. /\ l.pc = "select" /\ Head(a)[1] = "E"
        /\ cli' = [cli EXCEPT ![c] = [l EXCEPT !.pc = "delete"]]
        /\ local' = [local EXCEPT ![c] = local[c]] /\ changed' = [changed EXCEPT ![c] = changed[c]]
    BY <1>2, <1>6 DEF ReceiveEnd, Goto, Got, Inv, DataInv
  <2>2. [l EXCEPT !.pc = "delete"].conn = k
    BY <1>2 DEF Program
  <2>3. Session([l EXCEPT !.pc = "delete"], local[c], changed[c], thr[k], txn[k],
                toSrv[k], Tail(a), sent[k], kept[k])
    BY <1>1, <1>3, <2>1, EndReceived
  <2> HIDE DEF k, l, a
  <2> QED
    BY <1>1, <1>3, <2>1, <2>2, <2>3, GoesOn DEF k
<1>7. CASE ReceiveDeleteEnd(c)
  <2> DEFINE h == changed[c] \ RowsOf(l.dsn)
  <2>0. PICK f, n : f = (IF l.dsn < Dsns THEN "dsn" ELSE "quit")
                    /\ n = (IF l.dsn < Dsns THEN l.dsn + 1 ELSE l.dsn)
    OBVIOUS
  <2> DEFINE l2 == [l EXCEPT !.pc = f, !.dsn = n]
  <2>1. l.pc = "delete" /\ Head(a)[1] = "E" /\ cli' = [cli EXCEPT ![c] = l2]
    <3>1. l.pc = "delete" /\ Head(a)[1] = "E"
      BY <1>7 DEF ReceiveDeleteEnd, Got
    <3>2. cli' = [cli EXCEPT ![c] = l2]
      BY <1>2, <1>7, <2>0 DEF ReceiveDeleteEnd
    <3> QED
      BY <3>1, <3>2
  <2>2. local' = [local EXCEPT ![c] = local[c]] /\ changed' = [changed EXCEPT ![c] = h]
    BY <1>7 DEF ReceiveDeleteEnd, Flush, Inv, DataInv
  <2>3. l2 \in Program /\ l2.conn = k /\ l2.up = l.up /\ l2.pc = f /\ l2.dsn = n
    <3>1. l.dsn \in 1..Dsns /\ Dsns \in Nat
      BY <1>2, SyncAssumption DEF Program
    <3>2. f \in {"dsn", "quit"} /\ n \in 1..Dsns
      BY <2>0, <3>1
    <3> QED
      BY <1>2, <3>2 DEF Program
  <2>4. Session(l2, local[c], h, thr[k], txn[k], toSrv[k], Tail(a), sent[k], kept[k])
    <3>1. /\ l2 \in Program /\ l2.up = l.up
          /\ l2.pc = IF l.dsn < Dsns THEN "dsn" ELSE "quit"
          /\ l2.dsn = IF l.dsn < Dsns THEN l.dsn + 1 ELSE l.dsn
      BY <2>0, <2>3
    <3>2. Session(l, local[c], changed[c], thr[k], txn[k], toSrv[k], a, sent[k], kept[k])
      BY <1>1
    <3>3. a # << >> /\ l.pc = "delete" /\ Head(a)[1] = "E"
      BY <1>3, <2>1
    <3> HIDE DEF k, l, a, h, l2
    <3> QED
      BY <3>1, <3>2, <3>3, DeleteEndReceived
  <2> HIDE DEF k, l, a, h, l2
  <2> QED
    BY <1>1, <1>3, <2>1, <2>2, <2>3, <2>4, GoesOn DEF k
<1> QED
  BY <1>4, <1>5, <1>6, <1>7

\* A client leaves: its connection is left, or was closed before.
LEMMA LeavingOK ==
    ASSUME Inv, SessInv, NEW c \in Clients, cli[c].pc # "off", NEW k, k = cli[c].conn,
           Disconnected(c),
           UNCHANGED <<param, server, local, sent>>,
           \A b \in Clients \ {c} : changed'[b] = changed[b]
    PROVE  SessInv'
<1>1. k \in Conns /\ conn[k] \in {"open", "closed"} /\ TOK(k)
  BY AttachedTypes
<1>2. /\ cli' = [cli EXCEPT ![c] = [pc |-> "off", conn |-> 0, dsn |-> 1, up |-> {}]]
      /\ conn' = [conn EXCEPT ![k] = IF @ = "open" THEN "left" ELSE @]
      /\ toCli' = [toCli EXCEPT ![k] = << >>] /\ toSrv' = toSrv
  BY DEF Disconnected
<1>3. /\ cli'[c].pc = "off" /\ \A b \in Clients \ {c} : cli'[b] = cli[b]
  BY <1>2 DEF Inv, ClientInv
<1>4. /\ conn'[k] = conn[k] \/ (conn[k] = "open" /\ conn'[k] = "left")
      /\ \A e \in Conns \ {k} : toCli'[e] = toCli[e] /\ conn'[e] = conn[e]
  BY <1>1, <1>2 DEF Inv, NetInv
<1>5. TOK(k)'
  BY <1>1, <1>2 DEF TOK, server
<1>6. \A r \in Rows : local'[c][r].row = r
  BY DEF SessInv, VersionInv
<1> QED
  BY <1>1, <1>2, <1>3, <1>4, <1>5, <1>6, Elsewhere

LEMMA AnswerOK ==
    ASSUME Inv, SessInv, NEW c \in Clients, cli[c].pc # "off",
           AuthAnswer(c) \/ Bye(c) \/ GiveUp(c)
    PROVE  SessInv'
<1> DEFINE k == cli[c].conn
           l == cli[c]
           a == toCli[k]
<1>1. k \in Conns /\ Session(l, local[c], changed[c], thr[k], txn[k], toSrv[k], a, sent[k], kept[k])
  BY Attached
<1>2. l \in Program /\ cli \in [Clients -> Program]
  BY DEF Inv, ClientInv
<1>3. CASE Disconnected(c)
  <2>1. \A b \in Clients \ {c} : changed'[b] = changed[b]
    BY DEF AuthAnswer, Bye, GiveUp, Flush, Inv, DataInv
  <2>2. UNCHANGED <<param, server, local, sent>>
    BY DEF AuthAnswer, Bye, GiveUp
  <2> QED
    BY <1>1, <1>3, <2>1, <2>2, LeavingOK
<1>4. ASSUME NEW pc \in {"dsn", "quit"}, l.pc = "ack", a # << >>, Take(c), Goto(c, pc), AuthAnswer(c)
      PROVE  SessInv'
  <2>1. /\ cli' = [cli EXCEPT ![c] = [l EXCEPT !.pc = pc]]
        /\ local' = [local EXCEPT ![c] = local[c]] /\ changed' = [changed EXCEPT ![c] = changed[c]]
    BY <1>2, <1>4 DEF AuthAnswer, Goto, Inv, DataInv
  <2>2. /\ toCli' = [toCli EXCEPT ![k] = Tail(a)] /\ toSrv' = [toSrv EXCEPT ![k] = toSrv[k]]
        /\ sent' = [sent EXCEPT ![k] = sent[k]] /\ UNCHANGED <<param, server, conn>>
    BY <1>1, <1>4 DEF AuthAnswer, Take, Inv, DataInv, NetInv
  <2>3. [l EXCEPT !.pc = pc].conn = k
    BY <1>2 DEF Program
  <2>4. Session([l EXCEPT !.pc = pc], local[c], changed[c], thr[k], txn[k], toSrv[k], Tail(a), sent[k], kept[k])
    BY <1>1, <1>4, AnswerReceived
  <2> HIDE DEF k, l, a
  <2> QED
    BY <1>1, <2>1, <2>2, <2>3, <2>4, GoesOn DEF k
<1> QED
  BY <1>3, <1>4 DEF AuthAnswer, Bye, GiveUp, Got

LEMMA ChangeOK ==
    ASSUME Inv, SessInv, NEW c \in Clients, NEW v \in Changes, Change(c, v)
    PROVE  SessInv'
<1>1. /\ cli[c].pc = "off" /\ local' = [local EXCEPT ![c][v.row] = v]
      /\ changed' = [changed EXCEPT ![c] = @ \cup {v.row}]
      /\ UNCHANGED <<param, server, cli, sent, net>>
  BY DEF Change
<1>2. \A b \in Clients \ {c} : local'[b] = local[b] /\ changed'[b] = changed[b]
  BY <1>1 DEF Inv, DataInv
<1>3. VersionInv'
  <2>1. \A b \in Clients, r \in Rows : local'[b][r] = local[b][r] \/ (local'[b][r] = v /\ r = v.row)
    BY <1>1 DEF Inv, DataInv
  <2> QED
    BY <1>1, <2>1 DEF VersionInv, SessInv, server
<1>4. SocketInv'
  BY <1>1 DEF SessInv, SocketInv, server, net
<1>5. ASSUME NEW k \in Conns PROVE TOK(k)'
  BY <1>1 DEF TOK, server, net, SessInv, SessionsInv
<1>6. ASSUME NEW b \in Clients, cli'[b].pc # "off" PROVE COK(b, cli[b].conn)' /\ cli' = cli
  <2>1. b # c /\ cli' = cli /\ cli[b].conn \in Conns /\ COK(b, cli[b].conn)
    BY <1>1, <1>6 DEF Inv, ClientInv, SessInv, SessionsInv
  <2>2. PICK l \in Conns : l = cli[b].conn
    BY <2>1
  <2>3. COK(b, l)'
    BY <1>1, <1>2, <2>1, <2>2 DEF COK, server, net
  <2> QED
    BY <2>1, <2>2, <2>3
<1> QED
  BY <1>3, <1>4, <1>5, <1>6 DEF SessInv, SessionsInv

\* A thread that has not begun and a client that has connected to it.
LEMMA SessionBegins ==
    ASSUME Inv, SessInv, NEW c \in Clients, NEW k \in Conns, thr[k].pc = "none", NEW l, NEW t, NEW q,
           l.pc = "ack", l.up = {}, t = [thr[k] EXCEPT !.pc = "start"],
           q = <<<<"AUTH", c>>>>, q \in Seq(Request), NEW v, NEW g
    PROVE  /\ ThreadOK(t, txn[k], q, sent[k], kept[k])
           /\ ClientOK(l, v, g, t, txn[k], q, << >>, sent[k], kept[k])
<1> DEFINE x == txn[k]
           s == sent[k]
           p == kept[k]
<1>1. thr[k].open = 0 /\ ~thr[k].ended /\ s = {} /\ Vers(x) \cup p \subseteq s
  BY DEF SessInv, SessionsInv, TOK, ThreadOK
<1>2. t.pc = "start" /\ t.open = 0 /\ ~t.ended
  BY <1>1 DEF Inv, ThreadInv, Thread
<1>3. \A d : In(d, s) = {} /\ In(d, p) = {} /\ In(d, Vers(x)) = {}
  BY <1>1 DEF In
<1>4. Uploads(q) = {}
  <2>1. q # << >> /\ Head(q)[1] # "U" /\ Tail(q) = << >>
    OBVIOUS
  <2> QED
    BY <2>1, UploadsHead, QueueEmpty
<1>5. ThreadOK(t, x, q, s, p)
  <2>1. \A r \in Rows : x[r] # NoRow => x[r].ver.row = r
    BY DEF SessInv, SessionsInv, TOK, ThreadOK
  <2> HIDE DEF x, s, p
  <2> QED
    BY <1>1, <1>2, <1>3, <1>4, <2>1 DEF ThreadOK, Whole
<1>6. ClientOK(l, v, g, t, x, q, << >>, s, p)
  <2>1. Talk("ack", l.dsn, t, q, << >>, s, p)
    BY <1>2 DEF Talk
  <2> HIDE DEF x, s, p
  <2> QED
    BY <1>1, <1>2, <1>3, <2>1 DEF ClientOK
<1> QED
  BY <1>5, <1>6

LEMMA ConnectOK ==
    ASSUME Inv, SessInv, Inv', "handoff" \notin Faults,
           NEW c \in Clients, NEW k \in Conns, Connect(c, k)
    PROVE  SessInv'
<1> DEFINE l == [pc |-> "ack", conn |-> k, dsn |-> 1, up |-> {}]
           q == <<<<"AUTH", c>>>>
<1>1. /\ cli[c].pc = "off" /\ conn[k] = "none" /\ \A j \in Conns : thr[j].pc # "start"
      /\ param' = k /\ thr' = [thr EXCEPT ![k].pc = "start"]
      /\ conn' = [conn EXCEPT ![k] = "open"] /\ toSrv' = [toSrv EXCEPT ![k] = q]
      /\ cli' = [cli EXCEPT ![c] = l]
      /\ UNCHANGED <<rows, user, txn, kept, toCli, local, changed, sent>>
  BY DEF Connect
<1>2. thr[k].pc = "none" /\ toCli[k] = << >>
  BY <1>1 DEF SessInv, SocketInv
<1>3. /\ cli'[c] = l /\ \A b \in Clients \ {c} : cli'[b] = cli[b]
      /\ toSrv'[k] = q /\ \A j \in Conns \ {k} : toSrv'[j] = toSrv[j] /\ conn'[j] = conn[j]
      /\ conn'[k] = "open" /\ thr'[k] = [thr[k] EXCEPT !.pc = "start"]
      /\ \A j \in Conns \ {k} : thr'[j] = thr[j]
  BY <1>1 DEF Inv, ClientInv, NetInv, ThreadInv
<1>4. thr'[k].pc = "start" /\ q \in Seq(Request)
  <2>1. toSrv'[k] \in Seq(Request)
    BY DEF Inv, NetInv
  <2>2. thr'[k].pc = "start"
    BY <1>3 DEF Inv, ThreadInv, Thread
  <2> QED
    BY <1>3, <2>1, <2>2
<1>5. \A b \in Clients \ {c} : cli[b].pc # "off" => cli[b].conn # k /\ cli[b].conn \in Conns
  BY <1>1 DEF Inv, ClientInv, SessInv, SocketInv
<1>6. TOK(k)' /\ COK(c, k)'
  <2>1. PICK t : t = [thr[k] EXCEPT !.pc = "start"]
    OBVIOUS
  <2>2. /\ ThreadOK(t, txn[k], q, sent[k], kept[k])
        /\ ClientOK(l, local[c], changed[c], t, txn[k], q, << >>, sent[k], kept[k])
    <3>1. l.pc = "ack" /\ l.up = {}
      OBVIOUS
    <3> HIDE DEF l
    <3> QED
      BY <1>2, <1>4, <2>1, <3>1, SessionBegins
  <2> QED
    BY <1>1, <1>2, <1>3, <2>1, <2>2 DEF TOK, COK
<1> HIDE DEF q
<1>7. SocketInv'
  <2>1. ASSUME NEW j \in Conns
        PROVE  /\ thr'[j].pc = "start" => param' = j
               /\ thr'[j].pc \in Working => thr'[j].sock = j
               /\ (thr'[j].pc = "none") = (conn'[j] = "none")
               /\ (thr'[j].pc = "done") = (conn'[j] = "closed")
               /\ conn'[j] = "none" => toCli'[j] = << >>
    <3>1. CASE j = k
      BY <1>1, <1>3, <1>4, <3>1 DEF Working
    <3>2. CASE j # k
      BY <1>1, <1>3, <3>2 DEF SessInv, SocketInv
    <3> QED
      BY <3>1, <3>2
  <2>2. ASSUME NEW b \in Clients, cli'[b].pc # "off" PROVE conn'[cli'[b].conn] \in {"open", "closed"}
    <3>1. CASE b = c
      BY <1>3, <3>1
    <3>2. CASE b # c
      BY <1>3, <1>5, <2>2, <3>2 DEF SessInv, SocketInv
    <3> QED
      BY <3>1, <3>2
  <2>3. ASSUME NEW b \in Clients, cli'[b].pc # "off", NEW e \in Clients \ {b}, cli'[e].pc # "off"
        PROVE  cli'[e].conn # cli'[b].conn
    BY <1>3, <1>5, <2>3 DEF SessInv, SocketInv
  <2> QED
    BY <2>1, <2>2, <2>3 DEF SocketInv
<1>8. VersionInv'
  BY <1>1 DEF SessInv, VersionInv
<1>9. ASSUME NEW j \in Conns PROVE TOK(j)'
  <2>1. CASE j = k
    BY <1>6, <2>1
  <2>2. CASE j # k
    BY <1>1, <1>3, <2>2 DEF TOK, SessInv, SessionsInv
  <2> QED
    BY <2>1, <2>2
<1>10. ASSUME NEW b \in Clients, cli'[b].pc # "off" PROVE COK(b, cli[b].conn)'
  <2>1. CASE b = c
    <3>1. cli'[b].conn = k
      BY <1>3, <2>1
    <3> QED
      BY <1>6, <2>1, <3>1
  <2>2. CASE b # c
    <3>1. cli'[b] = cli[b] /\ cli[b].conn # k /\ cli[b].conn \in Conns /\ COK(b, cli[b].conn)
      BY <1>3, <1>5, <1>10, <2>2 DEF SessInv, SessionsInv
    <3>2. PICK j \in Conns : j = cli[b].conn
      BY <3>1
    <3>3. COK(b, j)'
      BY <1>1, <1>3, <2>2, <3>1, <3>2 DEF COK
    <3> QED
      BY <3>1, <3>2, <3>3
  <2> QED
    BY <2>1, <2>2
<1> QED
  BY <1>7, <1>8, <1>9, <1>10 DEF SessInv, SessionsInv

LEMMA ClientSessions ==
    ASSUME Inv, SessInv, Inv', "handoff" \notin Faults, NEW c \in Clients, ClientStep(c)
    PROVE  SessInv'
<1>1. ASSUME NEW v \in Changes, Change(c, v) PROVE SessInv'
  BY <1>1, ChangeOK
<1>2. ASSUME NEW s \in Conns, Connect(c, s) PROVE SessInv'
  BY <1>2, ConnectOK
<1>3. CASE AuthAnswer(c) \/ Bye(c) \/ GiveUp(c)
  <2>1. cli[c].pc # "off"
    BY <1>3 DEF AuthAnswer, Bye, GiveUp
  <2> QED
    BY <1>3, <2>1, AnswerOK
<1>4. CASE SendDSN(c) \/ SendUploadOK(c) \/ Quit(c) \/ \E n \in Modes : SendTableName(c, n)
  <2>1. cli[c].pc # "off"
    BY <1>4 DEF SendDSN, SendUploadOK, Quit, SendTableName
  <2> QED
    BY <1>4, <2>1, SendingOK
<1>5. ASSUME NEW r \in Rows, SendUploadData(c, r) PROVE SessInv'
  <2>1. cli[c].pc # "off"
    BY <1>5 DEF SendUploadData
  <2> QED
    BY <1>5, <2>1, UploadDataOK
<1>6. CASE ReceiveOK(c) \/ ReceiveRows(c) \/ ReceiveEnd(c) \/ ReceiveDeleteEnd(c)
  <2>1. cli[c].pc # "off"
    BY <1>6 DEF ReceiveOK, ReceiveRows, ReceiveEnd, ReceiveDeleteEnd
  <2> QED
    BY <1>6, <2>1, ReceivingOK
<1> QED
  BY <1>1, <1>2, <1>3, <1>4, <1>5, <1>6 DEF ClientStep

LEMMA SessionsStart == Init => SessInv
<1> SUFFICES ASSUME Init PROVE SessInv
  OBVIOUS
<1>1. SocketInv
  BY DEF Init, SocketInv, NoThread, Working
<1>2. VersionInv
  BY DEF Init, VersionInv, Original
<1>3. ASSUME NEW k \in Conns PROVE TOK(k)
  <2>1. /\ thr[k] = NoThread /\ txn[k] = [r \in Rows |-> NoRow] /\ toSrv[k] = << >>
        /\ sent[k] = {} /\ kept[k] = {}
    BY DEF Init
  <2>2. Vers(txn[k]) = {} /\ Uploads(toSrv[k]) = {}
    BY <2>1, QueueEmpty DEF Vers
  <2> QED
    BY <2>1, <2>2 DEF TOK, ThreadOK, NoThread, Alive
<1>4. \A c \in Clients : cli[c].pc = "off"
  BY DEF Init
<1> QED
  BY <1>1, <1>2, <1>3, <1>4 DEF SessInv, SessionsInv

LEMMA SessionsStep ==
    ASSUME Inv, SessInv, Inv', "handoff" \notin Faults, [Next]_vars
    PROVE  SessInv'
<1>1. ASSUME NEW c \in Clients, ClientStep(c) PROVE SessInv'
  BY <1>1, ClientSessions
<1>2. ASSUME NEW k \in Conns, Serve(k) PROVE SessInv'
  BY <1>2, ServeSessions
<1>3. CASE UNCHANGED vars
  BY <1>3 DEF vars, server, client, net, SessInv, SocketInv, VersionInv, SessionsInv, TOK, COK
<1> QED
  BY <1>1, <1>2, <1>3 DEF Next

\* Every thread and every client is where the messages between them allow: what is
\* sent of a data source is in the queue, in the transaction or in the database.
THEOREM SessionsHold ==
    ASSUME "handoff" \notin Faults
    PROVE  Spec => []SessInv
<1>1. Init => SessInv
  BY SessionsStart
<1>2. Inv /\ Inv' /\ SessInv /\ [Next]_vars => SessInv'
  BY SessionsStep
<1> QED
  BY <1>1, <1>2, InvHolds, PTL DEF Spec

\* Once the server has read END_FLAG, an upload is committed as a whole or not at
\* all: mSync's UploadOK and every later commit of the thread keep it so.
THEOREM UploadsWhole ==
    ASSUME "handoff" \notin Faults
    PROVE  Spec => []UploadWhole
<1>1. SessInv => UploadWhole
  BY DEF SessInv, SessionsInv, TOK, ThreadOK, Whole, UploadWhole
<1> QED
  BY <1>1, SessionsHold, PTL

\* The changes of a data source that the client takes off its log are committed.
LEMMA Settled ==
    ASSUME NEW l, NEW v, NEW g, NEW t, NEW x, NEW q, NEW a, NEW s, NEW p, NEW r \in Rows,
           Session(l, v, g, t, x, q, a, s, p), l.pc \in {"select", "delete"},
           In(l.dsn, s) \subseteq p, r \in g, r \in RowsOf(l.dsn)
    PROVE  v[r] \in p
<1>1. v[r] \in s /\ v[r].row = r
  BY DEF Session, ClientOK
<1> QED
  BY <1>1 DEF In, RowsOf

LEMMA LogShrinks ==
    ASSUME Inv, SessInv, "early" \notin Faults, NEW c \in Clients, ClientStep(c),
           NEW r \in changed[c], r \notin changed'[c]
    PROVE  local[c][r] \in kept[cli[c].conn]
<1> DEFINE k == cli[c].conn
           l == cli[c]
           a == toCli[k]
<1>1. r \in Rows /\ changed \in [Clients -> SUBSET Rows]
  BY DEF Inv, DataInv
<1>2. l.pc # "off" =>
        Session(l, local[c], changed[c], thr[k], txn[k], toSrv[k], a, sent[k], kept[k])
  BY Attached
<1>3. changed' # changed
  OBVIOUS
<1>4. CASE ReceiveRows(c)
  <2>1. PICK new : new = Head(a)[2]
    OBVIOUS
  <2>2. /\ a # << >> /\ l.pc \in {"select", "delete"}
        /\ \/ l.pc = "select" /\ Head(a)[1] = "F"
           \/ l.pc = "delete" /\ Head(a)[1] = "R"
    BY <1>4 DEF ReceiveRows, Got
  <2>3. r \in DOMAIN new
    BY <1>1, <1>4, <2>1 DEF ReceiveRows
  <2>4. Session(l, local[c], changed[c], thr[k], txn[k], toSrv[k], a, sent[k], kept[k])
    BY <1>2, <2>2
  <2> HIDE DEF k, l, a
  <2>5. RowsData(Head(a), l.dsn) /\ In(l.dsn, sent[k]) \subseteq kept[k]
    BY <2>2, <2>4, RowsExpected
  <2>6. r \in RowsOf(l.dsn)
    BY <2>1, <2>3, <2>5 DEF RowsData
  <2>7. local[c][r] \in kept[k]
    BY <1>1, <2>2, <2>4, <2>5, <2>6, Settled
  <2> QED
    BY <2>7 DEF k
<1>5. CASE cli[c].pc = "delete" /\ Flush(c)
  <2>1. r \in RowsOf(l.dsn)
    BY <1>1, <1>5 DEF Flush
  <2>2. Session(l, local[c], changed[c], thr[k], txn[k], toSrv[k], a, sent[k], kept[k])
    BY <1>2, <1>5
  <2>3. In(l.dsn, sent[k]) \subseteq kept[k] /\ l.pc \in {"select", "delete"}
    BY <1>5, <2>2 DEF Session, ClientOK, Talk
  <2> HIDE DEF k, l, a
  <2>4. local[c][r] \in kept[k]
    BY <1>1, <2>1, <2>2, <2>3, Settled
  <2> QED
    BY <2>4 DEF k
<1>6. ASSUME NEW v \in Changes, Change(c, v) PROVE FALSE
  BY <1>1, <1>6 DEF Change
<1>7. ASSUME NEW i \in Rows, SendUploadData(c, i) PROVE FALSE
  BY <1>3, <1>7 DEF SendUploadData
<1>8. CASE \/ AuthAnswer(c) \/ SendDSN(c) \/ SendUploadOK(c) \/ ReceiveOK(c) \/ ReceiveEnd(c)
           \/ Quit(c) \/ Bye(c)
  BY <1>3, <1>8 DEF AuthAnswer, SendDSN, SendUploadOK, ReceiveOK, ReceiveEnd, Quit, Bye
<1>9. CASE (\E s \in Conns : Connect(c, s)) \/ \E m \in Modes : SendTableName(c, m)
  BY <1>3, <1>9 DEF Connect, SendTableName
<1>10. CASE ReceiveDeleteEnd(c)
  BY <1>5, <1>10 DEF ReceiveDeleteEnd
<1>11. CASE GiveUp(c)
  BY <1>3, <1>5, <1>11 DEF GiveUp
<1> QED
  BY <1>4, <1>6, <1>7, <1>8, <1>9, <1>10, <1>11 DEF ClientStep

LEMMA OthersKeepTheirLogs ==
    ASSUME Inv, NEW b \in Clients, ClientStep(b), NEW c \in Clients, c # b
    PROVE  changed'[c] = changed[c]
<1>1. changed \in [Clients -> SUBSET Rows]
  BY DEF Inv, DataInv
<1>2. CASE \E v \in Changes : Change(b, v)
  BY <1>1, <1>2 DEF Change
<1>3. CASE \E r \in Rows : SendUploadData(b, r)
  BY <1>1, <1>3 DEF SendUploadData
<1>4. CASE ReceiveRows(b)
  BY <1>1, <1>4 DEF ReceiveRows
<1>5. CASE ReceiveDeleteEnd(b) \/ GiveUp(b)
  BY <1>1, <1>5 DEF ReceiveDeleteEnd, GiveUp, Flush
<1>6. CASE (\E s \in Conns : Connect(b, s)) \/ \E m \in Modes : SendTableName(b, m)
  BY <1>6 DEF Connect, SendTableName
<1>7. CASE \/ AuthAnswer(b) \/ SendDSN(b) \/ SendUploadOK(b) \/ ReceiveOK(b) \/ ReceiveEnd(b)
           \/ Quit(b) \/ Bye(b)
  BY <1>7 DEF AuthAnswer, SendDSN, SendUploadOK, ReceiveOK, ReceiveEnd, Quit, Bye
<1> QED
  BY <1>2, <1>3, <1>4, <1>5, <1>6, <1>7 DEF ClientStep

\* A change leaves the log of a client (the msync table's, in mSync_Client and the
\* flush after the download) only when the server has committed it.
THEOREM ChangesAreKept ==
    ASSUME "handoff" \notin Faults, "early" \notin Faults
    PROVE  Spec => ChangesKept
<1> DEFINE Kept == \A c \in Clients : \A r \in changed[c] \ changed'[c] :
                       local[c][r] \in kept[cli[c].conn]
<1>1. Inv /\ SessInv /\ [Next]_vars => [Kept]_vars
  <2> SUFFICES ASSUME Inv, SessInv, Next,
                      NEW c \in Clients, NEW r \in changed[c], r \notin changed'[c]
               PROVE  local[c][r] \in kept[cli[c].conn]
    OBVIOUS
  <2>1. ASSUME NEW b \in Clients, ClientStep(b) PROVE local[c][r] \in kept[cli[c].conn]
    <3>1. b = c
      BY <2>1, OthersKeepTheirLogs
    <3> QED
      BY <2>1, <3>1, LogShrinks
  <2>2. ASSUME NEW k \in Conns, Serve(k) PROVE FALSE
    <3>1. changed' = changed
      BY <2>2 DEF Serve, InitializeParameter, AuthenticateUser, AuthenticateFails, SetApplication,
         SetTableName, ProcessScript, UploadOK, UploadCommit, Download, DownloadFails, EndSession,
         NetworkError, UpdateConnectFlag, FreeHandles, client
    <3> QED
      BY <3>1
  <2> QED
    BY <2>1, <2>2 DEF Next
<1>2. Spec => [][Kept]_vars
  BY <1>1, InvHolds, SessionsHold, PTL DEF Spec
<1> QED
  BY <1>2 DEF ChangesKept

=============================================================================
