------------------------------ MODULE LockMgr ------------------------------
(***************************************************************************)
(* The table lock manager of openML, lock/mdb_LockMgr.c.                   *)
(*                                                                         *)
(* A lock item exists for a table while some transaction holds a lock on   *)
(* it.  It keeps its holders (mode and number of grants), the group mode   *)
(* granted_lock_, and the requestors in the order in which they are        *)
(* served.  Everything runs under the global lock MDB_DB_LOCK, which a     *)
(* requestor gives up while it sleeps on its own condition variable, so a  *)
(* step here is what one thread does between taking and leaving that lock. *)
(*                                                                         *)
(* Left out because no code under src/ reaches them: priorities other than *)
(* LOWPRIO, NOWAIT requests, the interrupt, aborted_ and fTerminated       *)
(* flags of a waiting thread, and row locks (rec_lock_head is never set).  *)
(***************************************************************************)
EXTENDS Naturals, FiniteSets, SequencesExt

CONSTANTS
    Trans,        \* transaction slots; a slot runs transactions one by one
    Table,        \* tables that take locks (not temporary ones)
    SysTable,     \* system tables, unlocked when a cursor on them closes
    RU,           \* transactions that read uncommitted data (fRU)
    ReqModes,     \* modes the API requests
    MaxWaits,     \* lock_timeout in rounds of 5 seconds, 0 when it is off
    MaxCount,     \* bound on lock_count_ of a holder
    NoTable       \* req_tableid = 0

NO == 0
SS == 1
DS == 2
DX == 3
SX == 4
Mode == NO .. SX

ASSUME LockMgrAssumption ==
    /\ IsFiniteSet(Trans)
    /\ SysTable \subseteq Table
    /\ RU \subseteq Trans
    /\ ReqModes \subseteq {DS, DX, SX}
    /\ MaxWaits \in Nat
    /\ MaxCount \in Nat \ {0}
    /\ NoTable \notin Table

VARIABLES
    active,    \* transactions that have begun and not ended
    items,     \* tables that have a lock item in the hash table
    held,      \* held[t][x]: hld_lock_mode_ of x on t, NO if no holder
    count,     \* count[t][x]: lock_count_ of that holder
    granted,   \* granted_lock_, the group mode of the item
    queue,     \* requestor_list_ of the item, as transactions
    want,      \* the request a thread waits with (locals of LockMgr_Lock)
    req,       \* trans_lock.req_tableid
    tables,    \* trans_lock.table_lock_list
    timeout,   \* timeout_: some thread granted the request
    pc,        \* where the thread is in the wait loop of LockMgr_Lock
    waits      \* lock_wait_time in rounds

vars == <<active, items, held, count, granted, queue, want, req, tables,
          timeout, pc, waits>>

lockItem == <<items, held, count, granted, queue>>
waiter == <<want, req, timeout, pc, waits>>

Request == [table : Table, mode : Mode, upgrade : BOOLEAN]
NoRequest == [table |-> NoTable, mode |-> NO, upgrade |-> FALSE]

\* Rows are request modes, columns current modes.
LK_COMP == <<<<1, 1, 1, 1, 1>>,
             <<1, 1, 1, 1, 0>>,
             <<1, 1, 1, 0, 0>>,
             <<1, 1, 0, 0, 0>>,
             <<1, 0, 0, 0, 0>>>>

LK_CONV == <<<<NO, SS, DS, DX, SX>>,
             <<SS, SS, DS, DX, SX>>,
             <<DS, DS, DS, DX, SX>>,
             <<DX, DX, DX, DX, SX>>,
             <<SX, SX, SX, SX, SX>>>>

Comp(r, c) == LK_COMP[r + 1][c + 1] = 1
Conv(r, c) == LK_CONV[r + 1][c + 1]

-----------------------------------------------------------------------------
(* Holders and requestors *)

IsHolder(t, x) == held[t][x] # NO

\* LockMgr_CheckConflict with a transaction: x asks for m besides the others.
NoConflict(h, x, m) == \A y \in Trans \ {x} : Comp(m, h[y])

\* Mutant: a new request looks at the holders and not at who waits.
NoConflictNewSkipsQueue(t, m) == Comp(m, granted[t])

\* LockMgr_CheckConflict with -1: neither holders nor requestors conflict.
NoConflictNew(t, m) ==
    /\ Comp(m, granted[t])
    /\ \A i \in 1 .. Len(queue[t]) : Comp(m, want[queue[t][i]].mode)

\* The group mode LockMgr_Delete_LockHolder folds over the holders left.
GroupMode(h) ==
    CHOOSE m \in Mode : /\ \A y \in Trans : h[y] <= m
                        /\ m # NO => \E y \in Trans : h[y] = m

Without(h, x) == [h EXCEPT ![x] = NO]

\* Where LockMgr_Insert_LockRequestor links a requestor: at the end, but an
\* upgrade goes before the first requestor that is none.
IsPlace(t, upgrade, i) ==
    /\ \A j \in 1 .. i - 1 : upgrade => want[queue[t][j]].upgrade
    /\ i <= Len(queue[t]) => upgrade /\ ~want[queue[t][i]].upgrade

-----------------------------------------------------------------------------
(* WakeupRequestores *)

FirstOf(q, n) == {q[i] : i \in 1 .. n}

\* Mutant: an upgrade is signalled and its holder keeps the old mode.
WakeHeldNotUpgraded(h, q, n) ==
    [x \in Trans |->
        IF x \in FirstOf(q, n) /\ h[x] = NO THEN want[x].mode ELSE h[x]]

\* Holders and group mode once the first n requestors of q are granted.
WakeHeld(h, q, n) ==
    [x \in Trans |-> IF x \in FirstOf(q, n) THEN want[x].mode ELSE h[x]]
WakeMode(g, q, n) ==
    LET modes == {g} \cup {want[x].mode : x \in FirstOf(q, n)}
    IN  CHOOSE m \in modes : \A k \in modes : k <= m

\* Mutant: an upgrade is served without a look at the other holders.
GrantableBlindUpgrade(h, g, q, k) ==
    \/ Comp(want[q[k]].mode, WakeMode(g, q, k - 1))
    \/ want[q[k]].upgrade

\* The loop grants requestor k when the k - 1 before it have been granted.
Grantable(h, g, q, k) ==
    \/ Comp(want[q[k]].mode, WakeMode(g, q, k - 1))
    \/ /\ want[q[k]].upgrade
       /\ NoConflict(WakeHeld(h, q, k - 1), q[k], want[q[k]].mode)

\* Mutant: a release wakes one requestor at most.
WakesOne(h, g, q, n) ==
    /\ n <= Len(q) /\ n <= 1
    /\ q # << >> => (n = 1) = Grantable(h, g, q, 1)

\* Mutant: a release wakes nobody.
WakesNobody(h, g, q, n) == n = 0

\* It stops after n requestors: at the first that has to go on waiting.
Wakes(h, g, q, n) ==
    /\ n <= Len(q)
    /\ \A k \in 1 .. n : Grantable(h, g, q, k)
    /\ n < Len(q) => ~Grantable(h, g, q, n + 1)

\* The requestors of t that the wake-ups n of the tables in T grant.
Woken(T, n, t) == IF t \in T THEN FirstOf(queue[t], n[t]) ELSE {}
AllWoken(T, n) == UNION {Woken(T, n, t) : t \in T}

\* Delete x from the holders of every table in T, wake the first n[t]
\* requestors of each, and drop an item with neither holders nor requestors.
ReleaseWaking(x, T, n) ==
    LET rest(t) == Without(held[t], x)
    IN  /\ \A t \in T : Wakes(rest(t), GroupMode(rest(t)), queue[t], n[t])
        /\ held' = [t \in Table |->
              IF t \in T THEN WakeHeld(rest(t), queue[t], n[t]) ELSE held[t]]
        /\ granted' = [t \in Table |->
              IF t \in T THEN WakeMode(GroupMode(rest(t)), queue[t], n[t])
              ELSE granted[t]]
        /\ count' = [t \in Table |-> [y \in Trans |->
              CASE y \in Woken(T, n, t) -> count[t][y] + 1
                [] t \in T /\ y = x     -> 0
                [] OTHER                -> count[t][y]]]
        /\ queue' = [t \in Table |->
              IF t \in T THEN SubSeq(queue[t], n[t] + 1, Len(queue[t]))
              ELSE queue[t]]
        /\ items' = items \ {t \in T : /\ queue[t] = << >>
                                       /\ \A y \in Trans : rest(t)[y] = NO}
        /\ tables' = [y \in Trans |->
              IF y = x THEN tables[x] \ T
              ELSE tables[y] \cup {t \in T : y \in Woken(T, n, t)}]
        /\ req' = [y \in Trans |-> IF y \in AllWoken(T, n) THEN NoTable ELSE req[y]]
        /\ timeout' = [y \in Trans |-> timeout[y] \/ y \in AllWoken(T, n)]
        /\ pc' = [y \in Trans |->
              IF y \in AllWoken(T, n) /\ pc[y] = "asleep" THEN "woken" ELSE pc[y]]

Release(x, T) ==
    \E n \in [T -> 0 .. Cardinality(Trans)] : ReleaseWaking(x, T, n)

-----------------------------------------------------------------------------
(* LockMgr_Check_DeadLock *)

\* A waiting transaction waits for every other holder of the table.
WaitsFor(x) ==
    IF req[x] = NoTable THEN {}
    ELSE {y \in Trans \ {x} : IsHolder(req[x], y)}

\* Mutant: nobody searches before waiting to strengthen a lock it holds.
HasCycleNewOnly(x, t) ==
    /\ ~IsHolder(t, x)
    /\ \E y \in Trans \ {x} : IsHolder(t, y) /\ x \in WaitsFor(y)

\* FindCycle2 searches depth first from the other holders of t for x.  It
\* finds x exactly if x is in every set that has these holders and is closed
\* under WaitsFor.  With fewer than two transactions it does not search.
HasCycle(x, t) ==
    /\ Cardinality({y \in Trans : active[y]}) >= 2
    /\ \A S \in SUBSET Trans :
          /\ {y \in Trans \ {x} : IsHolder(t, y)} \subseteq S
          /\ \A y \in S : WaitsFor(y) \subseteq S
          => x \in S

-----------------------------------------------------------------------------
(* LockMgr_Lock, up to the point where it returns or starts to wait *)

Running(x) == active[x] /\ pc[x] = "out"

\* A transaction that reads uncommitted data asks for the schema only.
Effective(x, m) == IF x \in RU /\ m = DS THEN SS ELSE m

\* Mutant: the last grant, not the strongest, becomes the group mode.
HoldLastMode(t, x, m) ==
    /\ held' = [held EXCEPT ![t][x] = m]
    /\ count' = [count EXCEPT ![t][x] = @ + 1]
    /\ granted' = [granted EXCEPT ![t] = m]

Hold(t, x, m) ==
    /\ held' = [held EXCEPT ![t][x] = m]
    /\ count' = [count EXCEPT ![t][x] = @ + 1]
    /\ granted' = [granted EXCEPT ![t] = Conv(m, @)]

\* Mutant: the new head of the list is not linked to the rest.
InsertTableLockUnlinked(x, t) == tables' = [tables EXCEPT ![x] = {t}]

InsertTableLock(x, t) == tables' = [tables EXCEPT ![x] = @ \cup {t}]

\* No lock item: insert one with x as its only holder.
LockNewItem(x, t, m) ==
    /\ Running(x)
    /\ t \notin items
    /\ items' = items \cup {t}
    /\ Hold(t, x, m)
    /\ InsertTableLock(x, t)
    /\ UNCHANGED <<active, queue, waiter>>

\* x holds a lock that covers the request.
LockAgain(x, t, m) ==
    /\ Running(x)
    /\ t \in items /\ IsHolder(t, x)
    /\ Conv(m, held[t][x]) = held[t][x]
    /\ count[t][x] < MaxCount
    /\ count' = [count EXCEPT ![t][x] = @ + 1]
    /\ UNCHANGED <<active, items, held, granted, queue, tables, waiter>>

\* x holds a weaker lock and the stronger one conflicts with no other holder:
\* requestors that wait for the table are not consulted.
LockConvert(x, t, m) ==
    LET new == Conv(m, held[t][x])
    IN  /\ Running(x)
        /\ t \in items /\ IsHolder(t, x)
        /\ new # held[t][x]
        /\ count[t][x] < MaxCount
        /\ NoConflict(held[t], x, new)
        /\ Hold(t, x, new)
        /\ UNCHANGED <<active, items, queue, tables, waiter>>

\* x becomes one more holder.
LockShare(x, t, m) ==
    /\ Running(x)
    /\ t \in items /\ ~IsHolder(t, x)
    /\ NoConflictNew(t, m)
    /\ Hold(t, x, m)
    /\ InsertTableLock(x, t)
    /\ UNCHANGED <<active, items, queue, waiter>>

\* The same when LockMgr_trans_insert_table_lock fails for want of memory:
\* the holder inserted just before stays.
LockShareNoMemory(x, t, m) ==
    /\ Running(x)
    /\ t \in items /\ ~IsHolder(t, x)
    /\ NoConflictNew(t, m)
    /\ Hold(t, x, m)
    /\ UNCHANGED <<active, items, queue, tables, waiter>>

\* The request conflicts: as an upgrade of x's own lock, or as a new one.
Conflicts(x, t, m) ==
    IF IsHolder(t, x)
    THEN LET new == Conv(m, held[t][x])
         IN  new # held[t][x] /\ ~NoConflict(held[t], x, new)
    ELSE ~NoConflictNew(t, m)

\* x joins the requestors and leaves MDB_DB_LOCK, if that closes no cycle.
LockEnqueue(x, t, m) ==
    /\ Running(x)
    /\ t \in items /\ Conflicts(x, t, m)
    /\ IsHolder(t, x) => count[t][x] < MaxCount
    /\ ~HasCycle(x, t)
    /\ want' = [want EXCEPT ![x] =
          [table |-> t, mode |-> Conv(m, held[t][x]), upgrade |-> IsHolder(t, x)]]
    /\ \E i \in 1 .. Len(queue[t]) + 1 :
          /\ IsPlace(t, IsHolder(t, x), i)
          /\ queue' = [queue EXCEPT ![t] = InsertAt(@, i, x)]
    /\ req' = [req EXCEPT ![x] = t]
    /\ timeout' = [timeout EXCEPT ![x] = FALSE]
    /\ pc' = [pc EXCEPT ![x] = "unlocked"]
    /\ waits' = [waits EXCEPT ![x] = 0]
    /\ UNCHANGED <<active, items, held, count, granted, tables>>

\* Otherwise the requestor is taken out again: DB_E_DEADLOCKOPER.
LockDeadlock(x, t, m) ==
    /\ Running(x)
    /\ t \in items /\ Conflicts(x, t, m)
    /\ HasCycle(x, t)
    /\ UNCHANGED vars

-----------------------------------------------------------------------------
(* The wait loop of LockMgr_Lock *)

\* The thread enters ppthread_cond_timedwait.  It took no mutex before, so a
\* signal sent between the unlock and this step is lost.
Sleep(x) ==
    /\ pc[x] = "unlocked"
    /\ pc' = [pc EXCEPT ![x] = "asleep"]
    /\ UNCHANGED <<active, lockItem, tables, want, req, timeout, waits>>

\* Mutant: a wait without a time limit.
WaitEndsNever(x) == FALSE /\ UNCHANGED vars

\* The 5 seconds are over, or the wait ends spuriously.
WaitEnds(x) ==
    /\ pc[x] = "asleep"
    /\ pc' = [pc EXCEPT ![x] = "woken"]
    /\ UNCHANGED <<active, lockItem, tables, want, req, timeout, waits>>

\* The thread has MDB_DB_LOCK again and some thread has granted the request.
LockGranted(x) ==
    /\ pc[x] = "woken" /\ timeout[x]
    /\ pc' = [pc EXCEPT ![x] = "out"]
    /\ timeout' = [timeout EXCEPT ![x] = FALSE]
    /\ want' = [want EXCEPT ![x] = NoRequest]
    /\ waits' = [waits EXCEPT ![x] = 0]
    /\ UNCHANGED <<active, lockItem, tables, req>>

\* Mutant: the requestor stays in the queue.
LockTimedOutQueued(x) ==
    /\ pc[x] = "woken" /\ ~timeout[x]
    /\ MaxWaits > 0 /\ waits[x] + 1 >= MaxWaits
    /\ req' = [req EXCEPT ![x] = NoTable]
    /\ pc' = [pc EXCEPT ![x] = "out"]
    /\ want' = [want EXCEPT ![x] = NoRequest]
    /\ waits' = [waits EXCEPT ![x] = 0]
    /\ UNCHANGED <<active, lockItem, tables, timeout>>

\* Not granted and the lock timeout is over: DB_E_LOCKTIMEOUT.  Nobody looks
\* at the requestors that waited behind this one.
LockTimedOut(x) ==
    /\ pc[x] = "woken" /\ ~timeout[x]
    /\ MaxWaits > 0 /\ waits[x] + 1 >= MaxWaits
    /\ LET t == want[x].table
       IN  \E i \in 1 .. Len(queue[t]) :
              /\ queue[t][i] = x
              /\ queue' = [queue EXCEPT ![t] = RemoveAt(@, i)]
    /\ req' = [req EXCEPT ![x] = NoTable]
    /\ pc' = [pc EXCEPT ![x] = "out"]
    /\ want' = [want EXCEPT ![x] = NoRequest]
    /\ waits' = [waits EXCEPT ![x] = 0]
    /\ UNCHANGED <<active, items, held, count, granted, tables, timeout>>

\* Mutant: the time waited is set to zero in every round.
LockWaitAgainFromZero(x) ==
    /\ pc[x] = "woken" /\ ~timeout[x]
    /\ MaxWaits = 0 \/ waits[x] + 1 < MaxWaits
    /\ waits' = [waits EXCEPT ![x] = 0]
    /\ pc' = [pc EXCEPT ![x] = "unlocked"]
    /\ UNCHANGED <<active, lockItem, tables, want, req, timeout>>

\* Not granted and time is left: wait again.  The wait time is only counted
\* when a timeout is set.
LockWaitAgain(x) ==
    /\ pc[x] = "woken" /\ ~timeout[x]
    /\ MaxWaits = 0 \/ waits[x] + 1 < MaxWaits
    /\ waits' = [waits EXCEPT ![x] = IF MaxWaits = 0 THEN 0 ELSE @ + 1]
    /\ pc' = [pc EXCEPT ![x] = "unlocked"]
    /\ UNCHANGED <<active, lockItem, tables, want, req, timeout>>

Resume(x) == LockGranted(x) \/ LockTimedOut(x) \/ LockWaitAgain(x)

-----------------------------------------------------------------------------
(* Transactions *)

\* TransMgr_InsTrans.  Each transaction has an id of its own, so a slot with
\* a lock left behind by an earlier one stands for that one for ever.
Begin(x) ==
    /\ ~active[x]
    /\ \A t \in Table : ~IsHolder(t, x)
    /\ active' = [active EXCEPT ![x] = TRUE]
    /\ UNCHANGED <<lockItem, tables, waiter>>

\* Commit or abort: LockMgr_Unlock and TransMgr_DelTrans.  The thread is not
\* waiting, so it has no requestor of its own to take out.
Unlock(x) ==
    /\ Running(x)
    /\ Release(x, tables[x])
    /\ active' = [active EXCEPT ![x] = FALSE]
    /\ UNCHANGED <<want, waits>>

\* Mutant: the last reference is counted down and the holder stays.
TableUnlockKeeps(x, t) ==
    /\ Running(x)
    /\ t \in items /\ IsHolder(t, x)
    /\ count' = [count EXCEPT ![t][x] = @ - 1]
    /\ UNCHANGED <<active, items, held, granted, queue, tables, waiter>>

\* Mutant: closing the cursor gives back all locks of the transaction.
TableUnlockAll(x, t) ==
    /\ Running(x)
    /\ t \in items /\ IsHolder(t, x)
    /\ Release(x, tables[x])
    /\ UNCHANGED <<active, want, waits>>

\* LockMgr_Table_Unlock when a cursor on system table t closes.
TableUnlock(x, t) ==
    /\ Running(x)
    /\ t \in items /\ IsHolder(t, x)
    /\ IF count[t][x] > 1
       THEN /\ count' = [count EXCEPT ![t][x] = @ - 1]
            /\ UNCHANGED <<active, items, held, granted, queue, tables, waiter>>
       ELSE Release(x, {t}) /\ UNCHANGED <<active, want, waits>>

-----------------------------------------------------------------------------

Init ==
    /\ active = [x \in Trans |-> FALSE]
    /\ items = {}
    /\ held = [t \in Table |-> [x \in Trans |-> NO]]
    /\ count = [t \in Table |-> [x \in Trans |-> 0]]
    /\ granted = [t \in Table |-> NO]
    /\ queue = [t \in Table |-> << >>]
    /\ want = [x \in Trans |-> NoRequest]
    /\ req = [x \in Trans |-> NoTable]
    /\ tables = [x \in Trans |-> {}]
    /\ timeout = [x \in Trans |-> FALSE]
    /\ pc = [x \in Trans |-> "out"]
    /\ waits = [x \in Trans |-> 0]

Lock(x, t, m) ==
    \/ LockNewItem(x, t, m)
    \/ LockAgain(x, t, m)
    \/ LockConvert(x, t, m)
    \/ LockShare(x, t, m)
    \/ LockEnqueue(x, t, m)
    \/ LockDeadlock(x, t, m)

Step(x) ==
    \/ Begin(x)
    \/ \E t \in Table, m \in ReqModes : Lock(x, t, Effective(x, m))
    \/ Sleep(x)
    \/ WaitEnds(x)
    \/ Resume(x)
    \/ Unlock(x)
    \/ \E t \in SysTable : TableUnlock(x, t)

Next == \E x \in Trans : Step(x)

Spec == Init /\ [][Next]_vars

\* The same system when memory for a table_lock_t may run out.
NextNoMemory ==
    \/ Next
    \/ \E x \in Trans, t \in Table, m \in ReqModes :
          LockShareNoMemory(x, t, Effective(x, m))

SpecNoMemory == Init /\ [][NextNoMemory]_vars

\* A thread that waits is scheduled, and its timed wait ends.
Fairness ==
    \A x \in Trans : WF_vars(Sleep(x)) /\ WF_vars(WaitEnds(x)) /\ WF_vars(Resume(x))

\* The application ends each transaction that is again and again able to.
TransactionsEnd == \A x \in Trans : SF_vars(Unlock(x))

-----------------------------------------------------------------------------
(* Properties *)

\* Every variable has the type of the field or local it stands for.
TypeOK ==
    /\ active \in [Trans -> BOOLEAN]
    /\ items \subseteq Table
    /\ held \in [Table -> [Trans -> Mode]]
    /\ count \in [Table -> [Trans -> Nat]]
    /\ granted \in [Table -> Mode]
    /\ queue \in [Table -> Seq(Trans)]
    /\ want \in [Trans -> Request \cup {NoRequest}]
    /\ req \in [Trans -> Table \cup {NoTable}]
    /\ tables \in [Trans -> SUBSET Table]
    /\ timeout \in [Trans -> BOOLEAN]
    /\ pc \in [Trans -> {"out", "unlocked", "asleep", "woken"}]
    /\ waits \in [Trans -> Nat]

\* No two transactions ever hold locks on a table that conflict: direct
\* grants test granted_lock_, conversions and wake-ups of upgrades test the
\* holders, and the paths have to agree.
HoldersCompatible ==
    \A t \in Table : \A x, y \in Trans :
        x # y => Comp(held[t][x], held[t][y])

\* granted_lock_ is the strongest mode held, however holders came, were
\* converted, were woken and went: it is kept up to date in five places.
GroupExact ==
    \A t \in Table :
        /\ \A x \in Trans : held[t][x] <= granted[t]
        /\ granted[t] # NO => \E x \in Trans : held[t][x] = granted[t]

\* An item exists exactly while the table has a holder, so no requestor is
\* left in an item nobody will release, and none is freed with requestors.
ItemsExact ==
    \A t \in Table :
        /\ t \in items <=> \E x \in Trans : IsHolder(t, x)
        /\ queue[t] # << >> => t \in items

Waiting(x) == pc[x] # "out" /\ ~timeout[x]

\* x is a requestor of t, and IsQueued: x has one where it waits.
Queued(t, x) ==
    /\ Waiting(x)
    /\ want[x].table = t
    /\ want[x].mode > held[t][x]
    /\ want[x].upgrade <=> IsHolder(t, x)
IsQueued(x) ==
    /\ req[x] = want[x].table /\ req[x] \in Table
    /\ \E i \in 1 .. Len(queue[req[x]]) : queue[req[x]][i] = x

\* The threads' view and the queues' view of who waits agree: a thread that
\* waits ungranted has one requestor, on its table, req_tableid names it, and
\* it is an upgrade exactly if the transaction holds a weaker lock there.
WaitersQueued ==
    /\ \A t \in Table : \A i \in 1 .. Len(queue[t]) : Queued(t, queue[t][i])
    /\ \A t \in Table : \A i, j \in 1 .. Len(queue[t]) :
          queue[t][i] = queue[t][j] => i = j
    /\ \A x \in Trans : IF Waiting(x) THEN IsQueued(x) ELSE req[x] = NoTable

\* A thread that leaves the wait as granted holds the lock it asked for: no
\* release or wake-up took it away between the grant and its return.
GrantHolds ==
    \A x \in Trans : pc[x] # "out" /\ timeout[x] =>
        want[x].table \in Table /\ held[want[x].table][x] = want[x].mode

\* The holders of the lock table and the lists of the transactions agree, so
\* a transaction that ended holds nothing: LockMgr_Unlock goes by the list.
ListsAgree ==
    \A x \in Trans :
        /\ \A t \in Table : IsHolder(t, x) <=> t \in tables[x]
        /\ tables[x] # {} => active[x]
        /\ pc[x] # "out" => active[x]

\* A transaction that committed or aborted holds no lock.
EndedHoldNothing ==
    \A x \in Trans : ~active[x] => \A t \in Table : ~IsHolder(t, x)

\* No set of transactions waits for each other, although the search for a
\* cycle runs once, when a request is queued, and later wake-ups turn
\* requestors into holders others wait for.
NoDeadlock ==
    \A S \in SUBSET Trans :
        (\A x \in S : \E y \in S : y \in WaitsFor(x)) => S = {}

\* With no lock timeout, the first requestor of a table is one the wake-up
\* loop would not grant now: nobody is left waiting for a lock that is free.
\* (A requestor that times out is unlinked without a look at those behind.)
NoneForgotten ==
    MaxWaits = 0 =>
        \A t \in Table : queue[t] # << >> =>
            ~Grantable(held[t], granted[t], queue[t], 1)

\* While x waits for a lock, a transaction that was not ahead of it in the
\* queue becomes a holder only with a mode that x's request tolerates.
NoOvertaking ==
    [][\A t \in Table : \A i \in 1 .. Len(queue[t]) : \A y \in Trans :
          LET x == queue[t][i]
          IN  /\ req'[x] = t
              /\ held[t][y] = NO /\ held'[t][y] # NO
              /\ \A j \in 1 .. i : queue[t][j] # y
              => Comp(held'[t][y], want[x].mode)]_vars

\* Every request that waits is answered: granted, refused or timed out.
WaiterReturns == \A x \in Trans : pc[x] # "out" ~> pc[x] = "out"

\* All this is strict two-phase locking of tables.
Abstract == INSTANCE TwoPhaseLocking
Refines == Abstract!Spec

SpecFair == Spec /\ Fairness
SpecFairEnds == SpecFair /\ TransactionsEnd

=============================================================================
