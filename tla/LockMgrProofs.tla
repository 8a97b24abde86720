--------------------------- MODULE LockMgrProofs ---------------------------
(***************************************************************************)
(* Proofs about LockMgr for every number of transactions and tables.       *)
(***************************************************************************)
EXTENDS LockMgr, TLAPS, SequenceTheorems, FiniteSetTheorems

-----------------------------------------------------------------------------
(* The lock matrices *)

\* LK_COMP says that two modes are compatible if they add up to at most 4.
LEMMA CompIsSum == \A r, c \in Mode : Comp(r, c) <=> r + c <= 4
  <1>1. ASSUME NEW r \in Mode, NEW c \in Mode PROVE Comp(r, c) <=> r + c <= 4
    <2>1. CASE r = 0 BY <2>1, <1>1 DEF Comp, LK_COMP, Mode, NO, SX
    <2>2. CASE r = 1 BY <2>2, <1>1 DEF Comp, LK_COMP, Mode, NO, SX
    <2>3. CASE r = 2 BY <2>3, <1>1 DEF Comp, LK_COMP, Mode, NO, SX
    <2>4. CASE r = 3 BY <2>4, <1>1 DEF Comp, LK_COMP, Mode, NO, SX
    <2>5. CASE r = 4 BY <2>5, <1>1 DEF Comp, LK_COMP, Mode, NO, SX
    <2> QED BY <2>1, <2>2, <2>3, <2>4, <2>5 DEF Mode, NO, SX
  <1> QED BY <1>1

\* LK_CONV gives the stronger of two modes.
LEMMA ConvIsMax == \A r, c \in Mode : Conv(r, c) = IF r <= c THEN c ELSE r
  <1>1. ASSUME NEW r \in Mode, NEW c \in Mode
        PROVE  Conv(r, c) = IF r <= c THEN c ELSE r
    <2>1. CASE r = 0 BY <2>1, <1>1 DEF Conv, LK_CONV, Mode, NO, SS, DS, DX, SX
    <2>2. CASE r = 1 BY <2>2, <1>1 DEF Conv, LK_CONV, Mode, NO, SS, DS, DX, SX
    <2>3. CASE r = 2 BY <2>3, <1>1 DEF Conv, LK_CONV, Mode, NO, SS, DS, DX, SX
    <2>4. CASE r = 3 BY <2>4, <1>1 DEF Conv, LK_CONV, Mode, NO, SS, DS, DX, SX
    <2>5. CASE r = 4 BY <2>5, <1>1 DEF Conv, LK_CONV, Mode, NO, SS, DS, DX, SX
    <2> QED BY <2>1, <2>2, <2>3, <2>4, <2>5 DEF Mode, NO, SX
  <1> QED BY <1>1

\* A nonempty set of modes has a strongest one.
LEMMA StrongestMode ==
  ASSUME NEW S \in SUBSET Mode, S # {}
  PROVE  \E m \in S : \A k \in S : k <= m
  <1>1. CASE 4 \in S BY <1>1 DEF Mode, NO, SX
  <1>2. CASE 4 \notin S /\ 3 \in S BY <1>2 DEF Mode, NO, SX
  <1>3. CASE 4 \notin S /\ 3 \notin S /\ 2 \in S BY <1>3 DEF Mode, NO, SX
  <1>4. CASE 4 \notin S /\ 3 \notin S /\ 2 \notin S /\ 1 \in S
    BY <1>4 DEF Mode, NO, SX
  <1>5. CASE 4 \notin S /\ 3 \notin S /\ 2 \notin S /\ 1 \notin S
    <2>1. \A k \in S : k = 0
      BY <1>5 DEF Mode, NO, SX
    <2> QED BY <2>1
  <1> QED BY <1>1, <1>2, <1>3, <1>4, <1>5

\* GroupMode picks the strongest mode of the holders.
LEMMA GroupModeIsMax ==
  ASSUME NEW h \in [Trans -> Mode]
  PROVE  /\ GroupMode(h) \in Mode
         /\ \A y \in Trans : h[y] <= GroupMode(h)
         /\ GroupMode(h) # NO => \E y \in Trans : h[y] = GroupMode(h)
  <1> DEFINE S == {h[y] : y \in Trans} \cup {NO}
  <1>1. S \in SUBSET Mode /\ S # {}
    BY DEF Mode, NO, SX
  <1>2. PICK m \in S : \A k \in S : k <= m
    BY <1>1, StrongestMode
  <1>3. /\ m \in Mode
        /\ \A y \in Trans : h[y] <= m
        /\ m # NO => \E y \in Trans : h[y] = m
    BY <1>1, <1>2
  <1> QED BY <1>3 DEF GroupMode

\* WakeMode picks the strongest of the old group mode and the woken requests.
LEMMA WakeModeIsMax ==
  ASSUME TypeOK, NEW t \in Table, NEW g \in Mode, NEW n \in Nat,
         n <= Len(queue[t])
  PROVE  LET q == queue[t] IN
         /\ WakeMode(g, q, n) \in Mode
         /\ g <= WakeMode(g, q, n)
         /\ \A i \in 1 .. n : want[q[i]].mode <= WakeMode(g, q, n)
         /\ \/ WakeMode(g, q, n) = g
            \/ \E i \in 1 .. n : WakeMode(g, q, n) = want[q[i]].mode
  <1> DEFINE q == queue[t]
             S == {g} \cup {want[x].mode : x \in FirstOf(q, n)}
  <1>1. \A i \in 1 .. n : q[i] \in Trans
    BY ElementOfSeq DEF TypeOK
  <1>2. \A x \in Trans : want[x].mode \in Mode
    BY DEF TypeOK, Request, NoRequest, Mode, NO, SX
  <1>3. S \in SUBSET Mode /\ S # {}
    BY <1>1, <1>2 DEF FirstOf
  <1>4. PICK m \in S : \A k \in S : k <= m
    BY <1>3, StrongestMode
  <1>5. WakeMode(g, q, n) \in S /\ \A k \in S : k <= WakeMode(g, q, n)
    BY <1>4 DEF WakeMode
  <1> QED BY <1>3, <1>5 DEF FirstOf

-----------------------------------------------------------------------------
(* Type correctness *)

LEMMA WantTyped ==
  ASSUME TypeOK
  PROVE  \A x \in Trans : want[x].mode \in Mode /\ want[x].upgrade \in BOOLEAN
  <1>1. \A x \in Trans : want[x] \in Request \cup {NoRequest}
    BY DEF TypeOK
  <1>2. \A r \in Request : r.mode \in Mode /\ r.upgrade \in BOOLEAN
    BY DEF Request
  <1>3. NoRequest.mode \in Mode /\ NoRequest.upgrade \in BOOLEAN
    BY DEF NoRequest, Mode, NO, SX
  <1> QED BY <1>1, <1>2, <1>3

LEMMA EffectiveTyped ==
  ASSUME NEW x \in Trans, NEW m \in ReqModes
  PROVE  Effective(x, m) \in Mode \ {NO}
  BY LockMgrAssumption DEF Effective, Mode, NO, SS, DS, DX, SX

LEMMA ConvTyped ==
  ASSUME NEW r \in Mode, NEW c \in Mode
  PROVE  Conv(r, c) \in Mode
  BY ConvIsMax

\* The first n requestors of a table, and the holders once they are granted.
LEMMA WakeHeldTyped ==
  ASSUME TypeOK, NEW x \in Trans, NEW t \in Table, NEW n
  PROVE  /\ Without(held[t], x) \in [Trans -> Mode]
         /\ WakeHeld(Without(held[t], x), queue[t], n) \in [Trans -> Mode]
  BY WantTyped DEF TypeOK, Without, WakeHeld, Mode, NO, SX

LEMMA ReleaseTyped ==
  ASSUME TypeOK, NEW x \in Trans, NEW T \in SUBSET Table,
         NEW n \in [T -> 0 .. Cardinality(Trans)], ReleaseWaking(x, T, n),
         active' \in [Trans -> BOOLEAN], UNCHANGED <<want, waits>>
  PROVE  TypeOK'
  <1> DEFINE rest(t) == Without(held[t], x)
  <1>1. \A t \in T : n[t] \in Nat /\ n[t] <= Len(queue[t])
    BY LockMgrAssumption, FS_CardinalityType DEF ReleaseWaking, Wakes
  <1>2. held' \in [Table -> [Trans -> Mode]]
    BY WakeHeldTyped DEF ReleaseWaking, TypeOK
  <1>3. granted' \in [Table -> Mode]
    <2>1. \A t \in T : WakeMode(GroupMode(rest(t)), queue[t], n[t]) \in Mode
      BY <1>1, WakeHeldTyped, GroupModeIsMax, WakeModeIsMax
    <2> QED BY <2>1 DEF ReleaseWaking, TypeOK
  <1>4. count' \in [Table -> [Trans -> Nat]]
    BY DEF ReleaseWaking, TypeOK
  <1>5. queue' \in [Table -> Seq(Trans)]
    <2>1. \A t \in T : SubSeq(queue[t], n[t] + 1, Len(queue[t])) \in Seq(Trans)
      BY <1>1, SubSeqProperties DEF TypeOK
    <2> QED BY <2>1 DEF ReleaseWaking, TypeOK
  <1>6. items' \subseteq Table
    BY DEF ReleaseWaking, TypeOK
  <1>7. tables' \in [Trans -> SUBSET Table]
    BY DEF ReleaseWaking, TypeOK
  <1>8. /\ req' \in [Trans -> Table \cup {NoTable}]
        /\ timeout' \in [Trans -> BOOLEAN]
        /\ pc' \in [Trans -> {"out", "unlocked", "asleep", "woken"}]
    BY DEF ReleaseWaking, TypeOK
  <1>9. want' \in [Trans -> Request \cup {NoRequest}] /\ waits' \in [Trans -> Nat]
    BY DEF TypeOK
  <1> QED BY <1>2, <1>3, <1>4, <1>5, <1>6, <1>7, <1>8, <1>9 DEF TypeOK

LEMMA LockTyped ==
  ASSUME TypeOK, NEW x \in Trans, NEW t \in Table, NEW m \in Mode, Lock(x, t, m)
  PROVE  TypeOK'
  <1>1. \A k \in Mode : Conv(m, k) \in Mode
    BY ConvTyped
  <1>2. CASE LockNewItem(x, t, m)
    BY <1>1, <1>2, ConvTyped DEF LockNewItem, Hold, InsertTableLock, TypeOK, waiter
  <1>3. CASE LockAgain(x, t, m)
    BY <1>3 DEF LockAgain, TypeOK, waiter
  <1>4. CASE LockConvert(x, t, m)
    <2>1. Conv(m, held[t][x]) \in Mode
      BY <1>1 DEF TypeOK
    <2>2. Conv(Conv(m, held[t][x]), granted[t]) \in Mode
      BY <2>1, ConvTyped DEF TypeOK
    <2> QED BY <1>4, <2>1, <2>2 DEF LockConvert, Hold, TypeOK, waiter
  <1>5. CASE LockShare(x, t, m)
    BY <1>1, <1>5 DEF LockShare, Hold, InsertTableLock, TypeOK, waiter
  <1>6. CASE LockEnqueue(x, t, m)
    <2>1. Conv(m, held[t][x]) \in Mode
      BY <1>1 DEF TypeOK
    <2>2. \A i \in 1 .. Len(queue[t]) + 1 : InsertAt(queue[t], i, x) \in Seq(Trans)
      BY SubSeqProperties, ConcatProperties DEF InsertAt, TypeOK
    <2>3. queue' \in [Table -> Seq(Trans)]
      BY <1>6, <2>2 DEF LockEnqueue, TypeOK
    <2>4. want' \in [Trans -> Request \cup {NoRequest}]
      BY <1>6, <2>1 DEF LockEnqueue, TypeOK, Request, IsHolder
    <2> QED BY <1>6, <2>3, <2>4 DEF LockEnqueue, TypeOK
  <1>7. CASE LockDeadlock(x, t, m)
    BY <1>7 DEF LockDeadlock, vars, TypeOK
  <1> QED BY <1>2, <1>3, <1>4, <1>5, <1>6, <1>7 DEF Lock

LEMMA ResumeTyped ==
  ASSUME TypeOK, NEW x \in Trans, Resume(x)
  PROVE  TypeOK'
  <1>1. NoRequest \in Request \cup {NoRequest}
    OBVIOUS
  <1>2. CASE LockGranted(x)
    BY <1>1, <1>2 DEF LockGranted, TypeOK, lockItem
  <1>3. CASE LockTimedOut(x)
    <2>1. \A t \in Table : \A i \in 1 .. Len(queue[t]) :
             RemoveAt(queue[t], i) \in Seq(Trans)
      BY SubSeqProperties, ConcatProperties DEF RemoveAt, TypeOK
    <2>2. queue' \in [Table -> Seq(Trans)]
      <3>1. CASE want[x].table \in Table
        BY <1>3, <2>1, <3>1 DEF LockTimedOut, TypeOK
      <3>2. CASE want[x].table \notin Table
        BY <1>3, <3>2 DEF LockTimedOut, TypeOK
      <3> QED BY <3>1, <3>2
    <2> QED BY <1>1, <1>3, <2>2 DEF LockTimedOut, TypeOK
  <1>4. CASE LockWaitAgain(x)
    BY <1>4 DEF LockWaitAgain, TypeOK, lockItem
  <1> QED BY <1>2, <1>3, <1>4 DEF Resume

\* A step keeps every variable in its type.
LEMMA TypeStep == TypeOK /\ [Next]_vars => TypeOK'
  <1> SUFFICES ASSUME TypeOK, [Next]_vars PROVE TypeOK'
    OBVIOUS
  <1>1. CASE UNCHANGED vars
    BY <1>1 DEF vars, TypeOK
  <1>2. ASSUME NEW x \in Trans, Step(x) PROVE TypeOK'
    <2>1. CASE Begin(x)
      BY <2>1 DEF Begin, TypeOK, lockItem, waiter
    <2>2. ASSUME NEW t \in Table, NEW m \in ReqModes, Lock(x, t, Effective(x, m))
          PROVE  TypeOK'
      BY <2>2, LockTyped, EffectiveTyped
    <2>3. CASE Sleep(x)
      BY <2>3 DEF Sleep, TypeOK, lockItem
    <2>4. CASE WaitEnds(x)
      BY <2>4 DEF WaitEnds, TypeOK, lockItem
    <2>5. CASE Resume(x)
      BY <2>5, ResumeTyped
    <2>6. CASE Unlock(x)
      BY <2>6, ReleaseTyped DEF Unlock, Release, TypeOK
    <2>7. ASSUME NEW t \in SysTable, TableUnlock(x, t) PROVE TypeOK'
      <3>1. t \in Table
        BY LockMgrAssumption
      <3>2. CASE count[t][x] > 1
        <4>1. count[t][x] - 1 \in Nat
          BY <3>1, <3>2 DEF TypeOK
        <4>2. /\ count' = [count EXCEPT ![t][x] = @ - 1]
              /\ UNCHANGED <<active, items, held, granted, queue, tables, waiter>>
          BY <2>7, <3>2 DEF TableUnlock
        <4>3. count' \in [Table -> [Trans -> Nat]]
          BY <3>1, <4>1, <4>2 DEF TypeOK
        <4> QED BY <4>2, <4>3 DEF TypeOK, waiter
      <3>3. CASE ~(count[t][x] > 1)
        <4>1. Release(x, {t}) /\ UNCHANGED <<active, want, waits>>
          BY <2>7, <3>3 DEF TableUnlock
        <4> QED BY <4>1, <3>1, ReleaseTyped DEF Release, TypeOK
      <3> QED BY <3>2, <3>3
    <2> QED BY <1>2, <2>1, <2>2, <2>3, <2>4, <2>5, <2>6, <2>7 DEF Step
  <1> QED BY <1>1, <1>2 DEF Next

LEMMA TypeInit == Init => TypeOK
  BY LockMgrAssumption DEF Init, TypeOK, NoRequest, Mode, NO, SX

\* Every variable has the type of the field or local it stands for.
THEOREM TypeCorrect == Spec => []TypeOK
  BY TypeInit, TypeStep, PTL DEF Spec

-----------------------------------------------------------------------------
(* The inductive invariant *)

LockInv ==
    /\ TypeOK
    /\ HoldersCompatible
    /\ GroupExact
    /\ ItemsExact
    /\ WaitersQueued
    /\ GrantHolds
    /\ ListsAgree
    /\ NoDeadlock

\* A step that releases locks of x in T and wakes n[t] requestors of each t.
Releasing(x, T, n) ==
    /\ LockInv
    /\ x \in Trans /\ T \in SUBSET Table
    /\ n \in [T -> 0 .. Cardinality(Trans)]
    /\ pc[x] = "out"
    /\ ReleaseWaking(x, T, n)
    /\ UNCHANGED <<want, waits>>
    /\ \/ active' = active
       \/ active' = [active EXCEPT ![x] = FALSE] /\ T = tables[x]

\* A woken requestor was waiting for the table, and is not x.
LEMMA WokenWaited ==
  ASSUME NEW x, NEW T, NEW n, Releasing(x, T, n), NEW t \in T
  PROVE  /\ n[t] \in Nat /\ n[t] <= Len(queue[t])
         /\ \A i \in 1 .. n[t] : queue[t][i] \in Woken(T, n, t)
         /\ \A y \in Woken(T, n, t) :
               /\ y \in Trans /\ y # x /\ Queued(t, y)
               /\ \E i \in 1 .. n[t] : queue[t][i] = y
  <1>1. n[t] \in Nat /\ n[t] <= Len(queue[t])
    BY LockMgrAssumption, FS_CardinalityType DEF Releasing, ReleaseWaking, Wakes
  <1>2. \A i \in 1 .. n[t] : queue[t][i] \in Trans /\ Queued(t, queue[t][i])
    <2>1. queue[t] \in Seq(Trans) /\ Len(queue[t]) \in Nat
      BY DEF Releasing, LockInv, TypeOK
    <2> QED BY <1>1, <2>1 DEF Releasing, LockInv, WaitersQueued
  <1>3. \A y \in Woken(T, n, t) : \E i \in 1 .. n[t] : queue[t][i] = y
    BY DEF Woken, FirstOf
  <1>4. \A i \in 1 .. n[t] : queue[t][i] \in Woken(T, n, t)
    BY DEF Woken, FirstOf
  <1>5. \A y : Queued(t, y) => y # x
    BY DEF Queued, Waiting, Releasing
  <1> QED BY <1>1, <1>2, <1>3, <1>4, <1>5

\* The holders after the step.
LEMMA ReleaseHeld ==
  ASSUME NEW x, NEW T, NEW n, Releasing(x, T, n), NEW t \in Table, NEW y \in Trans
  PROVE  held'[t][y] = IF y \in Woken(T, n, t) THEN want[y].mode
                       ELSE IF t \in T /\ y = x THEN NO
                       ELSE held[t][y]
  BY DEF Releasing, ReleaseWaking, Woken, WakeHeld, Without, LockInv, TypeOK

\* Nothing but locks of x gets weaker.
LEMMA ReleaseKeeps ==
  ASSUME NEW x, NEW T, NEW n, Releasing(x, T, n), NEW t \in Table,
         NEW y \in Trans, y # x
  PROVE  held[t][y] <= held'[t][y]
  <1>1. y \in Woken(T, n, t) => t \in T
    BY DEF Woken
  <1>2. held[t][y] \in Mode /\ want[y].mode \in Mode
    BY WantTyped DEF Releasing, LockInv, TypeOK
  <1>3. CASE y \in Woken(T, n, t)
    <2>1. want[y].mode > held[t][y]
      BY <1>1, <1>3, WokenWaited DEF Queued
    <2> QED BY <1>2, <1>3, <2>1, ReleaseHeld DEF Mode, NO, SX
  <1>4. CASE y \notin Woken(T, n, t)
    BY <1>2, <1>4, ReleaseHeld DEF Mode, NO, SX
  <1> QED BY <1>3, <1>4

\* A requestor is woken only if it tolerates the holders left and the
\* requestors woken before it.
LEMMA WokenTolerates ==
  ASSUME NEW x, NEW T, NEW n, Releasing(x, T, n), NEW t \in T,
         NEW i \in 1 .. n[t], NEW z \in Trans, z # queue[t][i]
  PROVE  LET h == WakeHeld(Without(held[t], x), queue[t], i - 1)
         IN  Comp(want[queue[t][i]].mode, h[z])
  <1> DEFINE q == queue[t]
             y == queue[t][i]
             rest == Without(held[t], x)
             g == GroupMode(rest)
             h == WakeHeld(rest, q, i - 1)
  <1>1. x \in Trans /\ t \in Table /\ TypeOK
    BY DEF Releasing, LockInv
  <1>2. /\ n[t] \in Nat /\ n[t] <= Len(q)
        /\ y \in Trans
    BY WokenWaited
  <1>3. rest \in [Trans -> Mode] /\ h \in [Trans -> Mode]
    BY <1>1, WakeHeldTyped
  <1>4. want[y].mode \in Mode
    BY <1>1, <1>2, WantTyped
  <1>5. Grantable(rest, g, q, i)
    BY <1>2 DEF Releasing, ReleaseWaking, Wakes
  <1>6. CASE Comp(want[y].mode, WakeMode(g, q, i - 1))
    <2>1. /\ i - 1 \in Nat /\ i - 1 <= Len(q)
      BY <1>1, <1>2, LenProperties DEF TypeOK
    <2>2. g \in Mode /\ \A u \in Trans : rest[u] <= g
      BY <1>3, GroupModeIsMax
    <2>3. /\ WakeMode(g, q, i - 1) \in Mode
          /\ g <= WakeMode(g, q, i - 1)
          /\ \A j \in 1 .. i - 1 : want[q[j]].mode <= WakeMode(g, q, i - 1)
      BY <1>1, <2>1, <2>2, WakeModeIsMax
    <2>4. h[z] <= WakeMode(g, q, i - 1)
      <3>1. CASE z \in FirstOf(q, i - 1)
        BY <2>3, <3>1 DEF FirstOf, WakeHeld
      <3>2. CASE z \notin FirstOf(q, i - 1)
        <4>1. h[z] = rest[z]
          BY <3>2 DEF WakeHeld
        <4>2. rest[z] <= g /\ rest[z] \in Mode
          BY <1>3, <2>2
        <4> QED BY <2>2, <2>3, <4>1, <4>2 DEF Mode, NO, SX
      <3> QED BY <3>1, <3>2
    <2>5. h[z] \in Mode
      BY <1>3
    <2>6. want[y].mode + WakeMode(g, q, i - 1) <= 4
      BY <1>4, <1>6, <2>3, CompIsSum
    <2>7. want[y].mode + h[z] <= 4
      BY <1>4, <2>3, <2>4, <2>5, <2>6 DEF Mode, NO, SX
    <2> QED BY <1>4, <2>5, <2>7, CompIsSum
  <1>7. CASE NoConflict(h, y, want[y].mode)
    BY <1>7 DEF NoConflict
  <1> QED BY <1>5, <1>6, <1>7 DEF Grantable

LEMMA CompSymmetric == \A r, c \in Mode : Comp(r, c) <=> Comp(c, r)
  BY CompIsSum DEF Mode, NO, SX

LEMMA ReleaseCompatible ==
  ASSUME NEW x, NEW T, NEW n, Releasing(x, T, n)
  PROVE  HoldersCompatible'
  <1>0. /\ TypeOK /\ TypeOK' /\ HoldersCompatible /\ T \in SUBSET Table
        /\ x \in Trans
    BY ReleaseTyped DEF Releasing, LockInv, TypeOK
  <1> SUFFICES ASSUME NEW t \in Table, NEW y \in Trans, NEW z \in Trans, y # z
               PROVE  Comp(held'[t][y], held'[t][z])
    BY DEF HoldersCompatible
  <1>1. /\ held[t][y] \in Mode /\ held[t][z] \in Mode
        /\ held'[t][y] \in Mode /\ held'[t][z] \in Mode
    BY <1>0 DEF TypeOK
  \* The woken requestor u tolerates any v that was not woken after it.
  <1>2. ASSUME t \in T, NEW i \in 1 .. n[t], NEW u \in Trans, NEW v \in Trans,
               u = queue[t][i], u # v,
               v \notin Woken(T, n, t) \/ \E j \in 1 .. i - 1 : queue[t][j] = v
        PROVE  Comp(held'[t][u], held'[t][v])
    <2> DEFINE h == WakeHeld(Without(held[t], x), queue[t], i - 1)
    <2>1. Comp(want[u].mode, h[v])
      BY <1>2, WokenTolerates
    <2>2. /\ n[t] \in Nat /\ u \in Woken(T, n, t)
          /\ \A j \in 1 .. n[t] : queue[t][j] \in Woken(T, n, t)
      BY <1>2, WokenWaited
    <2>3. held'[t][u] = want[u].mode
      BY <2>2, ReleaseHeld
    <2>4. held'[t][v] = h[v]
      <3>1. CASE v \in Woken(T, n, t)
        BY <1>2, <3>1, ReleaseHeld DEF WakeHeld, FirstOf
      <3>2. CASE v \notin Woken(T, n, t)
        <4>1. v \notin FirstOf(queue[t], i - 1)
          BY <2>2, <3>2 DEF FirstOf
        <4>2. h[v] = Without(held[t], x)[v]
          BY <4>1 DEF WakeHeld
        <4>3. Without(held[t], x)[v] = IF v = x THEN NO ELSE held[t][v]
          BY <1>0 DEF Without, TypeOK
        <4> QED BY <1>2, <3>2, <4>2, <4>3, ReleaseHeld
      <3> QED BY <3>1, <3>2
    <2> QED BY <2>1, <2>3, <2>4
  <1>3. CASE y \notin Woken(T, n, t) /\ z \notin Woken(T, n, t)
    <2>1. /\ held'[t][y] \in {NO, held[t][y]}
          /\ held'[t][z] \in {NO, held[t][z]}
      BY <1>3, ReleaseHeld
    <2>2. Comp(held[t][y], held[t][z])
      BY <1>0 DEF HoldersCompatible
    <2> QED BY <1>1, <2>1, <2>2, CompIsSum DEF Mode, NO, SX
  <1>4. CASE y \in Woken(T, n, t) /\ z \notin Woken(T, n, t)
    <2>1. t \in T BY <1>4 DEF Woken
    <2>2. PICK i \in 1 .. n[t] : queue[t][i] = y BY <1>4, <2>1, WokenWaited
    <2> QED BY <1>2, <1>4, <2>1, <2>2
  <1>5. CASE y \notin Woken(T, n, t) /\ z \in Woken(T, n, t)
    <2>1. t \in T BY <1>5 DEF Woken
    <2>2. PICK i \in 1 .. n[t] : queue[t][i] = z BY <1>5, <2>1, WokenWaited
    <2>3. Comp(held'[t][z], held'[t][y]) BY <1>2, <1>5, <2>1, <2>2
    <2> QED BY <1>1, <2>3, CompSymmetric
  <1>6. CASE y \in Woken(T, n, t) /\ z \in Woken(T, n, t)
    <2>1. t \in T BY <1>6 DEF Woken
    <2>2. PICK i \in 1 .. n[t] : queue[t][i] = y BY <1>6, <2>1, WokenWaited
    <2>3. PICK j \in 1 .. n[t] : queue[t][j] = z BY <1>6, <2>1, WokenWaited
    <2>4. n[t] \in Nat /\ i # j BY <2>1, <2>2, <2>3, WokenWaited
    <2>5. CASE j < i
      <3>1. j \in 1 .. i - 1 BY <2>4, <2>5
      <3> QED BY <1>2, <2>1, <2>2, <2>3, <3>1
    <2>6. CASE i < j
      <3>1. i \in 1 .. j - 1 BY <2>4, <2>6
      <3>2. Comp(held'[t][z], held'[t][y]) BY <1>2, <2>1, <2>2, <2>3, <3>1
      <3> QED BY <1>1, <3>2, CompSymmetric
    <2> QED BY <2>4, <2>5, <2>6
  <1> QED BY <1>3, <1>4, <1>5, <1>6

LEMMA ReleaseGroup ==
  ASSUME NEW x, NEW T, NEW n, Releasing(x, T, n)
  PROVE  GroupExact'
  <1>0. /\ TypeOK /\ TypeOK' /\ GroupExact /\ T \in SUBSET Table
        /\ x \in Trans
    BY ReleaseTyped DEF Releasing, LockInv, TypeOK
  <1> SUFFICES ASSUME NEW t \in Table
               PROVE  /\ \A y \in Trans : held'[t][y] <= granted'[t]
                      /\ granted'[t] # NO => \E y \in Trans : held'[t][y] = granted'[t]
    BY DEF GroupExact
  <1>1. CASE t \notin T
    <2>1. held'[t] = held[t] /\ granted'[t] = granted[t]
      BY <1>1 DEF Releasing, ReleaseWaking
    <2> QED BY <1>0, <2>1 DEF GroupExact
  <1>2. CASE t \in T
    <2> DEFINE q == queue[t]
               rest == Without(held[t], x)
               g == GroupMode(rest)
    <2>1. rest \in [Trans -> Mode]
      BY <1>0, WakeHeldTyped
    <2>2. /\ g \in Mode
          /\ \A y \in Trans : rest[y] <= g
          /\ g # NO => \E y \in Trans : rest[y] = g
      BY <2>1, GroupModeIsMax
    <2>3. n[t] \in Nat /\ n[t] <= Len(q)
      BY <1>2, WokenWaited
    <2>4. /\ WakeMode(g, q, n[t]) \in Mode
          /\ g <= WakeMode(g, q, n[t])
          /\ \A i \in 1 .. n[t] : want[q[i]].mode <= WakeMode(g, q, n[t])
          /\ \/ WakeMode(g, q, n[t]) = g
             \/ \E i \in 1 .. n[t] : WakeMode(g, q, n[t]) = want[q[i]].mode
      BY <1>0, <2>2, <2>3, WakeModeIsMax
    <2>5. granted'[t] = WakeMode(g, q, n[t])
      BY <1>2 DEF Releasing, ReleaseWaking
    <2>6. \A y \in Trans : held'[t][y] = IF y \in Woken(T, n, t) THEN want[y].mode
                                         ELSE rest[y]
      BY <1>0, <1>2, ReleaseHeld DEF Without, TypeOK
    <2>7. \A y \in Trans : held'[t][y] <= granted'[t]
      <3> TAKE y \in Trans
      <3>1. CASE y \in Woken(T, n, t)
        BY <1>2, <2>4, <2>5, <2>6, <3>1, WokenWaited
      <3>2. CASE y \notin Woken(T, n, t)
        <4>1. held'[t][y] <= g /\ held'[t][y] \in Mode
          BY <2>1, <2>2, <2>6, <3>2
        <4> QED BY <2>2, <2>4, <2>5, <4>1 DEF Mode, NO, SX
      <3> QED BY <3>1, <3>2
    <2>8. ASSUME granted'[t] # NO
          PROVE  \E y \in Trans : held'[t][y] = granted'[t]
      <3>1. CASE \E i \in 1 .. n[t] : granted'[t] = want[q[i]].mode
        BY <1>2, <2>6, <3>1, WokenWaited
      <3>2. CASE granted'[t] = g
        <4>1. PICK y \in Trans : rest[y] = g
          BY <2>2, <2>8, <3>2
        <4>2. CASE y \notin Woken(T, n, t)
          BY <2>6, <3>2, <4>1, <4>2
        <4>3. CASE y \in Woken(T, n, t)
          <5>1. y # x /\ want[y].mode > held[t][y]
            BY <1>2, <4>3, WokenWaited DEF Queued
          <5>2. rest[y] = held[t][y] /\ held[t][y] \in Mode /\ want[y].mode \in Mode
            BY <1>0, <5>1, WantTyped DEF Without, TypeOK
          <5>3. held'[t][y] = want[y].mode /\ held'[t][y] <= granted'[t]
            BY <2>6, <2>7, <4>3
          <5> QED BY <2>2, <3>2, <4>1, <5>1, <5>2, <5>3 DEF Mode, NO, SX
        <4> QED BY <4>2, <4>3
      <3> QED BY <2>4, <2>5, <3>1, <3>2
    <2> QED BY <2>7, <2>8
  <1> QED BY <1>1, <1>2

LEMMA ReleaseItems ==
  ASSUME NEW x, NEW T, NEW n, Releasing(x, T, n)
  PROVE  ItemsExact'
  <1>0. /\ TypeOK /\ TypeOK' /\ ItemsExact /\ T \in SUBSET Table
        /\ x \in Trans
    BY ReleaseTyped DEF Releasing, LockInv, TypeOK
  <1> SUFFICES ASSUME NEW t \in Table
               PROVE  /\ t \in items' <=> \E y \in Trans : held'[t][y] # NO
                      /\ queue'[t] # << >> => t \in items'
    BY DEF ItemsExact, IsHolder
  <1>1. CASE t \notin T
    <2>1. /\ held'[t] = held[t] /\ queue'[t] = queue[t]
          /\ t \in items' <=> t \in items
      BY <1>1 DEF Releasing, ReleaseWaking
    <2> QED BY <1>0, <2>1 DEF ItemsExact, IsHolder
  <1>2. CASE t \in T
    <2> DEFINE q == queue[t]
               rest == Without(held[t], x)
    <2>0. q \in Seq(Trans) /\ Len(q) \in Nat
      BY <1>0 DEF TypeOK
    <2>1. /\ queue'[t] = SubSeq(q, n[t] + 1, Len(q))
          /\ t \in items' <=> t \in items /\ ~(q = << >> /\ \A y \in Trans : rest[y] = NO)
          /\ Wakes(rest, GroupMode(rest), q, n[t])
      BY <1>2 DEF Releasing, ReleaseWaking
    <2>2. \A y \in Trans : held'[t][y] = IF y \in Woken(T, n, t) THEN want[y].mode
                                         ELSE rest[y]
      BY <1>0, <1>2, ReleaseHeld DEF Without, TypeOK
    <2>3. \A y \in Trans : rest[y] # NO => held[t][y] # NO
      BY <1>0 DEF Without, TypeOK
    <2>4. /\ n[t] \in Nat /\ n[t] <= Len(q)
          /\ \A y \in Woken(T, n, t) : y \in Trans /\ want[y].mode > held[t][y]
      BY <1>2, WokenWaited DEF Queued
    <2>5. \A y \in Woken(T, n, t) : want[y].mode # NO
      <3>1. \A y \in Trans : want[y].mode \in Mode /\ held[t][y] \in Mode
        BY <1>0, WantTyped DEF TypeOK
      <3> QED BY <2>4, <3>1 DEF Mode, NO, SX
    <2>6. CASE q = << >>
      <3>1. n[t] = 0 /\ Woken(T, n, t) = {}
        BY <2>4, <2>6 DEF Woken, FirstOf
      <3>2. queue'[t] = << >>
        BY <2>1, <2>6, <3>1
      <3> QED BY <1>0, <2>1, <2>2, <2>3, <2>6, <3>1, <3>2 DEF ItemsExact, IsHolder
    <2>7. CASE q # << >>
      <3>1. t \in items'
        BY <1>0, <2>1, <2>7 DEF ItemsExact
      <3>2. \E y \in Trans : held'[t][y] # NO
        <4>1. CASE n[t] > 0
          <5>1. q[1] \in Woken(T, n, t)
            BY <1>2, <2>4, <4>1, WokenWaited
          <5> QED BY <2>2, <2>4, <2>5, <5>1
        <4>2. CASE n[t] = 0
          <5>1. Len(q) > 0 /\ q[1] \in Trans
            BY <2>0, <2>7
          <5>2. ~Grantable(rest, GroupMode(rest), q, 1)
            BY <2>1, <4>2, <5>1 DEF Wakes
          <5>3. ~Comp(want[q[1]].mode, WakeMode(GroupMode(rest), q, 0))
            BY <5>2 DEF Grantable
          <5>4. rest \in [Trans -> Mode]
            BY <1>0, WakeHeldTyped
          <5>5. /\ GroupMode(rest) \in Mode
                /\ GroupMode(rest) # NO => \E y \in Trans : rest[y] = GroupMode(rest)
            BY <5>4, GroupModeIsMax
          <5>6. /\ WakeMode(GroupMode(rest), q, 0) \in Mode
                /\ \/ WakeMode(GroupMode(rest), q, 0) = GroupMode(rest)
                   \/ \E i \in 1 .. 0 : WakeMode(GroupMode(rest), q, 0) = want[q[i]].mode
            BY <1>0, <2>0, <5>5, WakeModeIsMax
          <5>7. want[q[1]].mode \in Mode
            BY <1>0, <5>1, WantTyped
          <5>8. GroupMode(rest) # NO
            BY <5>3, <5>5, <5>6, <5>7, CompIsSum DEF Mode, NO, SX
          <5>9. Woken(T, n, t) = {}
            BY <4>2 DEF Woken, FirstOf
          <5> QED BY <2>2, <5>5, <5>8, <5>9
        <4> QED BY <2>4, <4>1, <4>2
      <3> QED BY <3>1, <3>2
    <2> QED BY <2>6, <2>7
  <1> QED BY <1>1, <1>2

\* Woken(T, n, t) and the queue that is left split the old queue.
LEMMA ReleaseQueue ==
  ASSUME NEW x, NEW T, NEW n, Releasing(x, T, n), NEW t \in Table
  PROVE  /\ Len(queue'[t]) \in Nat
         /\ t \in T => /\ Len(queue'[t]) = Len(queue[t]) - n[t]
                       /\ \A i \in 1 .. Len(queue'[t]) :
                             queue'[t][i] = queue[t][i + n[t]]
         /\ t \notin T => queue'[t] = queue[t]
  <1>1. queue[t] \in Seq(Trans) /\ Len(queue[t]) \in Nat
    BY DEF Releasing, LockInv, TypeOK
  <1>2. CASE t \in T
    <2>1. n[t] \in Nat /\ n[t] <= Len(queue[t])
      BY <1>2, WokenWaited
    <2>2. queue'[t] = SubSeq(queue[t], n[t] + 1, Len(queue[t]))
      BY <1>2 DEF Releasing, ReleaseWaking
    <2> DEFINE rest == SubSeq(queue[t], n[t] + 1, Len(queue[t]))
    <2>3. /\ n[t] + 1 \in Int /\ Len(queue[t]) \in Int
          /\ \A i \in n[t] + 1 .. Len(queue[t]) : queue[t][i] \in Trans
      BY <1>1, <2>1
    <2>4. /\ Len(rest) = IF n[t] + 1 <= Len(queue[t])
                        THEN Len(queue[t]) - (n[t] + 1) + 1 ELSE 0
          /\ \A i \in 1 .. Len(queue[t]) - (n[t] + 1) + 1 :
                rest[i] = queue[t][n[t] + 1 + i - 1]
      BY <2>3, SubSeqProperties
    <2>5. Len(rest) = Len(queue[t]) - n[t]
      BY <1>1, <2>1, <2>4
    <2>6. \A i \in 1 .. Len(rest) : rest[i] = queue[t][i + n[t]]
      <3> TAKE i \in 1 .. Len(rest)
      <3>1. i \in 1 .. Len(queue[t]) - (n[t] + 1) + 1
        BY <1>1, <2>1, <2>5
      <3>2. n[t] + 1 + i - 1 = i + n[t]
        BY <2>1
      <3> QED BY <2>4, <3>1, <3>2
    <2> QED BY <1>1, <1>2, <2>1, <2>2, <2>5, <2>6
  <1>3. CASE t \notin T
    BY <1>1, <1>3 DEF Releasing, ReleaseWaking
  <1> QED BY <1>2, <1>3

\* Who waits after the step: who waited and was not woken.
LEMMA ReleaseWaiting ==
  ASSUME NEW x, NEW T, NEW n, Releasing(x, T, n), NEW y \in Trans
  PROVE  /\ Waiting(y)' <=> Waiting(y) /\ y \notin AllWoken(T, n)
         /\ pc'[y] = "out" <=> pc[y] = "out"
         /\ timeout'[y] <=> timeout[y] \/ y \in AllWoken(T, n)
         /\ req'[y] = IF y \in AllWoken(T, n) THEN NoTable ELSE req[y]
         /\ y \in AllWoken(T, n) => \E t \in T : y \in Woken(T, n, t)
  BY DEF Releasing, ReleaseWaking, AllWoken, Woken, Waiting, LockInv, TypeOK

LEMMA ReleaseQueued ==
  ASSUME NEW x, NEW T, NEW n, Releasing(x, T, n)
  PROVE  WaitersQueued'
  <1>0. /\ TypeOK /\ WaitersQueued /\ T \in SUBSET Table /\ x \in Trans
        /\ want' = want
    BY DEF Releasing, LockInv
  \* A requestor left in the queue of t was there before, behind the woken.
  <1>1. ASSUME NEW t \in Table, NEW i \in 1 .. Len(queue'[t])
        PROVE  \E k \in 1 .. Len(queue[t]) :
                  /\ queue'[t][i] = queue[t][k]
                  /\ queue'[t][i] \notin AllWoken(T, n)
                  /\ k = IF t \in T THEN i + n[t] ELSE i
    <2> DEFINE k == IF t \in T THEN i + n[t] ELSE i
    <2>0. Len(queue[t]) \in Nat
      BY <1>0 DEF TypeOK
    <2>1. k \in 1 .. Len(queue[t]) /\ queue'[t][i] = queue[t][k]
      BY <1>1, <2>0, ReleaseQueue, WokenWaited
    <2>2. Queued(t, queue[t][k])
      BY <1>0, <2>1 DEF WaitersQueued
    <2>3. ASSUME NEW u \in T, queue[t][k] \in Woken(T, n, u) PROVE FALSE
      <3>1. Queued(u, queue[t][k])
        BY <2>3, WokenWaited
      <3>2. u = t
        BY <2>2, <3>1 DEF Queued
      <3>3. PICK j \in 1 .. n[t] : queue[t][j] = queue[t][k]
        BY <2>3, <3>2, WokenWaited
      <3>4. n[t] \in Nat /\ n[t] <= Len(queue[t])
        BY <2>3, <3>2, WokenWaited
      <3>5. j \in 1 .. Len(queue[t])
        BY <2>0, <3>4
      <3>6. j = k
        BY <1>0, <2>1, <3>3, <3>5 DEF WaitersQueued
      <3> QED BY <1>1, <2>0, <2>3, <3>2, <3>4, <3>6, ReleaseQueue
    <2>4. queue[t][k] \notin AllWoken(T, n)
      BY <2>3 DEF AllWoken, Woken
    <2> QED BY <2>1, <2>4
  <1>2. ASSUME NEW t \in Table, NEW i \in 1 .. Len(queue'[t])
        PROVE  Queued(t, queue[t][i])'
    <2>1. PICK k \in 1 .. Len(queue[t]) :
             queue'[t][i] = queue[t][k] /\ queue'[t][i] \notin AllWoken(T, n)
      BY <1>1
    <2>2. PICK y \in Trans :
             y = queue'[t][i] /\ Queued(t, y) /\ y \notin AllWoken(T, n)
      <3>1. queue[t] \in Seq(Trans)
        BY <1>0 DEF TypeOK
      <3> QED BY <1>0, <2>1, <3>1 DEF WaitersQueued
    <2>3. Waiting(y)'
      BY <2>2, ReleaseWaiting DEF Queued
    <2>4. y # x
      BY <2>2 DEF Queued, Waiting, Releasing
    <2>5. y \notin Woken(T, n, t)
      BY <2>2 DEF AllWoken, Woken
    <2>6. held'[t][y] = held[t][y]
      BY <2>2, <2>4, <2>5, ReleaseHeld
    <2>7. Queued(t, y)'
      BY <1>0, <2>2, <2>3, <2>6 DEF Queued, IsHolder
    <2> QED BY <2>2, <2>7
  <1>3. ASSUME NEW t \in Table, NEW i \in 1 .. Len(queue'[t]),
               NEW j \in 1 .. Len(queue'[t]), queue'[t][i] = queue'[t][j]
        PROVE  i = j
    <2>1. PICK k \in 1 .. Len(queue[t]) :
             queue'[t][i] = queue[t][k] /\ k = IF t \in T THEN i + n[t] ELSE i
      BY <1>1
    <2>2. PICK m \in 1 .. Len(queue[t]) :
             queue'[t][j] = queue[t][m] /\ m = IF t \in T THEN j + n[t] ELSE j
      BY <1>1
    <2>3. k = m
      BY <1>0, <1>3, <2>1, <2>2 DEF WaitersQueued
    <2>4. t \in T => n[t] \in Nat
      BY WokenWaited
    <2>5. i \in Int /\ j \in Int
      OBVIOUS
    <2> QED BY <2>1, <2>2, <2>3, <2>4, <2>5
  <1>4. ASSUME NEW y \in Trans, Waiting(y)'
        PROVE  IsQueued(y)'
    <2>1. Waiting(y) /\ y \notin AllWoken(T, n) /\ req'[y] = req[y]
      BY <1>4, ReleaseWaiting
    <2>2. IsQueued(y)
      BY <1>0, <2>1 DEF WaitersQueued
    <2> DEFINE t == req[y]
    <2>3. t \in Table /\ t = want[y].table
      BY <2>2 DEF IsQueued
    <2>4. PICK i \in 1 .. Len(queue[t]) : queue[t][i] = y
      BY <2>2 DEF IsQueued
    <2>5. Len(queue[t]) \in Nat
      BY <1>0, <2>3 DEF TypeOK
    <2>6. \E k \in 1 .. Len(queue'[t]) : queue'[t][k] = y
      <3>1. CASE t \in T
        <4>1. n[t] \in Nat /\ n[t] <= Len(queue[t])
          BY <3>1, WokenWaited
        <4>2. i \notin 1 .. n[t]
          BY <2>1, <2>4, <3>1, WokenWaited DEF AllWoken
        <4>3. i - n[t] \in 1 .. Len(queue'[t])
          BY <2>3, <2>5, <3>1, <4>1, <4>2, ReleaseQueue
        <4>4. queue'[t][i - n[t]] = queue[t][i - n[t] + n[t]]
          BY <2>3, <3>1, <4>3, ReleaseQueue
        <4> QED BY <2>4, <4>1, <4>3, <4>4
      <3>2. CASE t \notin T
        BY <2>3, <2>4, <3>2, ReleaseQueue
      <3> QED BY <3>1, <3>2
    <2> QED BY <1>0, <2>1, <2>3, <2>6 DEF IsQueued
  <1>5. ASSUME NEW y \in Trans, ~Waiting(y)'
        PROVE  req'[y] = NoTable
    BY <1>0, <1>5, ReleaseWaiting DEF WaitersQueued
  <1> QED BY <1>2, <1>3, <1>4, <1>5 DEF WaitersQueued

LEMMA ReleaseGrants ==
  ASSUME NEW x, NEW T, NEW n, Releasing(x, T, n)
  PROVE  GrantHolds'
  <1>0. /\ GrantHolds /\ WaitersQueued /\ T \in SUBSET Table /\ want' = want
        /\ pc[x] = "out"
    BY DEF Releasing, LockInv
  <1> SUFFICES ASSUME NEW y \in Trans, pc'[y] # "out", timeout'[y]
               PROVE  /\ want[y].table \in Table
                      /\ held'[want[y].table][y] = want[y].mode
    BY <1>0 DEF GrantHolds
  <1>1. CASE y \in AllWoken(T, n)
    <2>1. PICK t \in T : y \in Woken(T, n, t)
      BY <1>1, ReleaseWaiting
    <2>2. want[y].table = t
      BY <2>1, WokenWaited DEF Queued
    <2> QED BY <1>0, <2>1, <2>2, ReleaseHeld
  <1>2. CASE y \notin AllWoken(T, n)
    <2>1. pc[y] # "out" /\ timeout[y]
      BY <1>2, ReleaseWaiting
    <2>2. want[y].table \in Table /\ held[want[y].table][y] = want[y].mode
      BY <1>0, <2>1 DEF GrantHolds
    <2>3. y \notin Woken(T, n, want[y].table)
      BY <1>2 DEF AllWoken, Woken
    <2> QED BY <1>0, <2>1, <2>2, <2>3, ReleaseHeld
  <1> QED BY <1>1, <1>2

LEMMA ReleaseLists ==
  ASSUME NEW x, NEW T, NEW n, Releasing(x, T, n)
  PROVE  ListsAgree'
  <1>0. /\ TypeOK /\ ListsAgree /\ T \in SUBSET Table /\ x \in Trans
        /\ pc[x] = "out"
    BY DEF Releasing, LockInv
  <1>1. ASSUME NEW y \in Trans, NEW t \in Table
        PROVE  IsHolder(t, y)' <=> t \in tables'[y]
    <2>1. tables'[y] = IF y = x THEN tables[x] \ T
                       ELSE tables[y] \cup {u \in T : y \in Woken(T, n, u)}
      BY DEF Releasing, ReleaseWaking
    <2>2. held[t][y] # NO <=> t \in tables[y]
      BY <1>0 DEF ListsAgree, IsHolder
    <2>3. CASE y \in Woken(T, n, t)
      <3>1. t \in T BY <2>3 DEF Woken
      <3>2. y # x /\ want[y].mode > held[t][y]
        BY <2>3, <3>1, WokenWaited DEF Queued
      <3>3. want[y].mode # NO
        <4>1. want[y].mode \in Mode /\ held[t][y] \in Mode
          BY <1>0, WantTyped DEF TypeOK
        <4> QED BY <3>2, <4>1 DEF Mode, NO, SX
      <3> QED BY <2>1, <2>3, <3>1, <3>2, <3>3, ReleaseHeld DEF IsHolder
    <2>4. CASE y \notin Woken(T, n, t)
      BY <2>1, <2>2, <2>4, ReleaseHeld DEF IsHolder
    <2> QED BY <2>3, <2>4
  <1>2. ASSUME NEW y \in Trans, tables'[y] # {} PROVE active'[y]
    <2>1. CASE y = x
      BY <1>0, <1>2, <2>1 DEF Releasing, ReleaseWaking, ListsAgree
    <2>2. CASE y # x
      <3>1. active'[y] = active[y]
        BY <1>0, <2>2 DEF Releasing, TypeOK
      <3>2. tables[y] # {} \/ \E t \in T : y \in Woken(T, n, t)
        BY <1>2, <2>2 DEF Releasing, ReleaseWaking
      <3>3. active[y]
        BY <1>0, <3>2, WokenWaited DEF ListsAgree, Queued, Waiting
      <3> QED BY <3>1, <3>3
    <2> QED BY <2>1, <2>2
  <1>3. ASSUME NEW y \in Trans, pc'[y] # "out" PROVE active'[y]
    <2>1. pc[y] # "out" /\ y # x
      BY <1>0, <1>3, ReleaseWaiting
    <2> QED BY <1>0, <2>1 DEF ListsAgree, Releasing, TypeOK
  <1> QED BY <1>1, <1>2, <1>3 DEF ListsAgree

LEMMA ReleaseDeadlockFree ==
  ASSUME NEW x, NEW T, NEW n, Releasing(x, T, n)
  PROVE  NoDeadlock'
  <1>0. /\ TypeOK /\ NoDeadlock /\ WaitersQueued /\ T \in SUBSET Table
        /\ x \in Trans /\ pc[x] = "out" /\ NoTable \notin Table
    BY LockMgrAssumption DEF Releasing, LockInv
  <1>1. ASSUME NEW y \in Trans, WaitsFor(y)' # {}
        PROVE  y # x /\ y \notin AllWoken(T, n) /\ req'[y] = req[y] /\ req[y] \in Table
    <2>1. req'[y] # NoTable
      BY <1>1 DEF WaitsFor
    <2>2. y \notin AllWoken(T, n) /\ req'[y] = req[y]
      BY <2>1, ReleaseWaiting
    <2> QED BY <1>0, <2>1, <2>2 DEF WaitersQueued, Waiting, IsQueued, TypeOK
  <1>2. ASSUME NEW y \in Trans, NEW z \in WaitsFor(y)', WaitsFor(z)' # {}
        PROVE  z \in WaitsFor(y)
    <2>1. z \in Trans \ {y} /\ held'[req'[y]][z] # NO
      BY <1>2 DEF WaitsFor, IsHolder
    <2>2. /\ req'[y] = req[y] /\ req[y] \in Table
          /\ z # x /\ z \notin AllWoken(T, n)
      BY <1>1, <1>2, <2>1
    <2>3. z \notin Woken(T, n, req[y])
      BY <2>2 DEF AllWoken, Woken
    <2>4. held[req[y]][z] # NO
      BY <2>1, <2>2, <2>3, ReleaseHeld
    <2> QED BY <1>0, <2>1, <2>2, <2>4 DEF WaitsFor, IsHolder
  <1>3. ASSUME NEW S \in SUBSET Trans,
               \A y \in S : \E z \in S : z \in WaitsFor(y)'
        PROVE  S = {}
    <2>1. \A y \in S : WaitsFor(y)' # {}
      BY <1>3
    <2>2. \A y \in S : \E z \in S : z \in WaitsFor(y)
      BY <1>2, <1>3, <2>1
    <2> QED BY <1>0, <2>2 DEF NoDeadlock
  <1> QED BY <1>3 DEF NoDeadlock

\* Releasing locks and waking requestors preserves the invariant.
LEMMA ReleasePreserves ==
  ASSUME NEW x, NEW T, NEW n, Releasing(x, T, n)
  PROVE  LockInv'
  <1>1. TypeOK'
    BY ReleaseTyped DEF Releasing, LockInv, TypeOK
  <1> QED BY <1>1, ReleaseCompatible, ReleaseGroup, ReleaseItems, ReleaseQueued,
             ReleaseGrants, ReleaseLists, ReleaseDeadlockFree DEF LockInv

-----------------------------------------------------------------------------
(* Inserting and removing requestors *)

LEMMA InsertAtFacts ==
  ASSUME NEW S, NEW q \in Seq(S), NEW i \in 1 .. Len(q) + 1, NEW e \in S
  PROVE  /\ InsertAt(q, i, e) \in Seq(S)
         /\ Len(InsertAt(q, i, e)) = Len(q) + 1
         /\ \A j \in 1 .. Len(q) + 1 :
               InsertAt(q, i, e)[j] = IF j < i THEN q[j]
                                      ELSE IF j = i THEN e ELSE q[j - 1]
  <1> DEFINE a == SubSeq(q, 1, i - 1)
             b == SubSeq(q, i, Len(q))
             c == a \o <<e>>
  <1>1. Len(q) \in Nat /\ \A j \in 1 .. Len(q) : q[j] \in S
    OBVIOUS
  <1>2. /\ a \in Seq(S) /\ Len(a) = i - 1
        /\ \A j \in 1 .. i - 1 : a[j] = q[j]
    BY <1>1, SubSeqProperties
  <1>3. /\ b \in Seq(S) /\ Len(b) = Len(q) - i + 1
        /\ \A j \in 1 .. Len(q) - i + 1 : b[j] = q[i + j - 1]
    BY <1>1, SubSeqProperties
  <1>4. <<e>> \in Seq(S) /\ Len(<<e>>) = 1 /\ <<e>>[1] = e
    OBVIOUS
  <1>5. /\ c \in Seq(S) /\ Len(c) = i
        /\ \A j \in 1 .. i : c[j] = IF j < i THEN q[j] ELSE e
    BY <1>1, <1>2, <1>4, ConcatProperties
  <1>6. InsertAt(q, i, e) = c \o b
    BY DEF InsertAt
  <1> HIDE DEF b, c
  <1>7. /\ InsertAt(q, i, e) \in Seq(S)
        /\ Len(InsertAt(q, i, e)) = Len(q) + 1
    <2>1. /\ InsertAt(q, i, e) \in Seq(S)
          /\ Len(InsertAt(q, i, e)) = Len(c) + Len(b)
      BY <1>3, <1>5, <1>6, ConcatProperties
    <2> QED BY <1>1, <1>3, <1>5, <2>1
  <1>8. ASSUME NEW j \in 1 .. Len(q) + 1
        PROVE  InsertAt(q, i, e)[j] = IF j < i THEN q[j]
                                      ELSE IF j = i THEN e ELSE q[j - 1]
    <2>1. CASE j <= i
      BY <1>1, <1>3, <1>5, <1>6, <2>1, ConcatProperties
    <2>2. CASE j > i
      <3>1. j - i \in 1 .. Len(q) - i + 1 /\ i + (j - i) - 1 = j - 1
        BY <1>1, <2>2
      <3>2. InsertAt(q, i, e)[j] = b[j - i]
        BY <1>1, <1>3, <1>5, <1>6, <2>2, ConcatProperties
      <3> QED BY <1>1, <1>3, <2>2, <3>1, <3>2
    <2> QED BY <1>1, <2>1, <2>2
  <1> QED BY <1>7, <1>8

LEMMA RemoveAtFacts ==
  ASSUME NEW S, NEW q \in Seq(S), NEW i \in 1 .. Len(q)
  PROVE  /\ RemoveAt(q, i) \in Seq(S)
         /\ Len(RemoveAt(q, i)) = Len(q) - 1
         /\ \A j \in 1 .. Len(q) - 1 :
               RemoveAt(q, i)[j] = IF j < i THEN q[j] ELSE q[j + 1]
  <1> DEFINE a == SubSeq(q, 1, i - 1)
             b == SubSeq(q, i + 1, Len(q))
  <1>1. Len(q) \in Nat /\ \A j \in 1 .. Len(q) : q[j] \in S
    OBVIOUS
  <1>2. /\ a \in Seq(S) /\ Len(a) = i - 1
        /\ \A j \in 1 .. i - 1 : a[j] = q[j]
    BY <1>1, SubSeqProperties
  <1>3. /\ b \in Seq(S) /\ Len(b) = Len(q) - i
        /\ \A j \in 1 .. Len(q) - i : b[j] = q[i + j]
    <2>1. /\ b \in Seq(S)
          /\ Len(b) = IF i + 1 <= Len(q) THEN Len(q) - (i + 1) + 1 ELSE 0
          /\ \A j \in 1 .. Len(q) - (i + 1) + 1 : b[j] = q[i + 1 + j - 1]
      BY <1>1, SubSeqProperties
    <2>2. Len(b) = Len(q) - i
      BY <1>1, <2>1
    <2>3. ASSUME NEW j \in 1 .. Len(q) - i PROVE b[j] = q[i + j]
      <3>1. j \in 1 .. Len(q) - (i + 1) + 1 /\ i + 1 + j - 1 = i + j
        BY <1>1
      <3> QED BY <2>1, <3>1
    <2> QED BY <2>1, <2>2, <2>3
  <1>4. RemoveAt(q, i) = a \o b
    BY DEF RemoveAt
  <1> HIDE DEF a, b
  <1>5. /\ RemoveAt(q, i) \in Seq(S)
        /\ Len(RemoveAt(q, i)) = Len(q) - 1
    <2>1. a \o b \in Seq(S) /\ Len(a \o b) = Len(a) + Len(b)
      BY <1>2, <1>3, ConcatProperties
    <2>2. Len(a) + Len(b) = Len(q) - 1
      <3>1. Len(q) \in Nat /\ i \in Nat
        BY <1>1
      <3> QED BY <1>2, <1>3, <3>1
    <2> QED BY <1>4, <2>1, <2>2
  <1>6. ASSUME NEW j \in 1 .. Len(q) - 1
        PROVE  RemoveAt(q, i)[j] = IF j < i THEN q[j] ELSE q[j + 1]
    <2>1. CASE j < i
      BY <1>1, <1>2, <1>3, <1>4, <2>1, ConcatProperties
    <2>2. CASE j >= i
      <3>1. j - (i - 1) \in 1 .. Len(q) - i /\ i + (j - (i - 1)) = j + 1
        BY <1>1, <2>2
      <3>2. RemoveAt(q, i)[j] = b[j - (i - 1)]
        BY <1>1, <1>2, <1>3, <1>4, <2>2, ConcatProperties
      <3> QED BY <1>1, <1>3, <2>2, <3>1, <3>2
    <2> QED BY <1>1, <2>1, <2>2
  <1> QED BY <1>5, <1>6

-----------------------------------------------------------------------------
(* Granting a lock *)

\* x gets t in mode m, which no other holder has reason to refuse.
LEMMA HoldPreserves ==
  ASSUME LockInv, NEW x \in Trans, NEW t \in Table, NEW m \in Mode \ {NO},
         Running(x), held[t][x] <= m, NoConflict(held[t], x, m),
         Hold(t, x, m), items' = items \cup {t},
         tables' = [tables EXCEPT ![x] = @ \cup {t}],
         UNCHANGED <<active, queue, waiter>>
  PROVE  LockInv'
  <1>0. /\ TypeOK /\ HoldersCompatible /\ GroupExact /\ ItemsExact
        /\ WaitersQueued /\ GrantHolds /\ ListsAgree /\ NoDeadlock
        /\ active' = active /\ queue' = queue /\ want' = want /\ req' = req
        /\ timeout' = timeout /\ pc' = pc /\ waits' = waits
        /\ active[x] /\ pc[x] = "out"
    BY DEF LockInv, waiter, Running
  <1>1. /\ held' = [held EXCEPT ![t][x] = m]
        /\ granted' = [granted EXCEPT ![t] = Conv(m, @)]
        /\ granted[t] \in Mode
        /\ Conv(m, granted[t]) = IF m <= granted[t] THEN granted[t] ELSE m
    BY <1>0, ConvIsMax DEF Hold, TypeOK
  <1>2. \A u \in Table, y \in Trans :
           held'[u][y] = IF u = t /\ y = x THEN m ELSE held[u][y]
    BY <1>0, <1>1 DEF TypeOK
  <1>3. \A u \in Table, y \in Trans : held[u][y] \in Mode
    BY <1>0 DEF TypeOK
  <1>4. TypeOK'
    <2>1. Conv(m, granted[t]) \in Mode
      BY <1>1
    <2>2. held' \in [Table -> [Trans -> Mode]] /\ granted' \in [Table -> Mode]
      BY <1>0, <1>1, <2>1 DEF TypeOK
    <2>3. count' \in [Table -> [Trans -> Nat]]
      BY <1>0 DEF Hold, TypeOK
    <2> QED BY <1>0, <2>2, <2>3 DEF TypeOK
  <1>5. HoldersCompatible'
    <2>1. \A y \in Trans \ {x} : Comp(m, held[t][y]) /\ Comp(held[t][y], m)
      BY <1>3, CompSymmetric DEF NoConflict
    <2> QED BY <1>0, <1>2, <2>1 DEF HoldersCompatible
  <1>6. GroupExact'
    <2>1. \A u \in Table : granted'[u] =
             IF u = t THEN IF m <= granted[t] THEN granted[t] ELSE m ELSE granted[u]
      BY <1>0, <1>1 DEF TypeOK
    <2>2. ASSUME NEW u \in Table, NEW y \in Trans PROVE held'[u][y] <= granted'[u]
      <3>1. held[u][y] <= granted[u]
        BY <1>0 DEF GroupExact
      <3>2. held[u][y] \in Mode /\ granted[u] \in Mode
        BY <1>0 DEF TypeOK
      <3> QED BY <1>1, <1>2, <2>1, <3>1, <3>2 DEF Mode, NO, SX
    <2>3. ASSUME NEW u \in Table, granted'[u] # NO
          PROVE  \E y \in Trans : held'[u][y] = granted'[u]
      <3>1. CASE u = t /\ granted'[u] = m
        BY <1>2, <3>1
      <3>2. CASE granted'[u] = granted[u] /\ (u = t => m < granted[t])
        <4>1. PICK y \in Trans : held[u][y] = granted[u]
          BY <1>0, <2>3, <3>2 DEF GroupExact
        <4>2. ~(u = t /\ y = x)
          BY <1>1, <1>3, <3>2, <4>1 DEF Mode, NO, SX
        <4> QED BY <1>2, <3>2, <4>1, <4>2
      <3> QED BY <1>1, <2>1, <3>1, <3>2 DEF Mode, NO, SX
    <2> QED BY <2>2, <2>3 DEF GroupExact
  <1>7. ItemsExact'
    BY <1>0, <1>2 DEF ItemsExact, IsHolder
  <1>8. WaitersQueued'
    <2>1. ASSUME NEW u \in Table, NEW i \in 1 .. Len(queue[u])
          PROVE  Queued(u, queue[u][i])'
      <3>1. queue[u][i] \in Trans /\ Queued(u, queue[u][i])
        BY <1>0 DEF WaitersQueued, TypeOK
      <3>2. queue[u][i] # x
        BY <1>0, <3>1 DEF Queued, Waiting
      <3> QED BY <1>0, <1>2, <3>1, <3>2 DEF Queued, Waiting, IsHolder
    <2>2. \A y \in Trans : /\ Waiting(y)' <=> Waiting(y)
                           /\ IsQueued(y)' <=> IsQueued(y)
      BY <1>0 DEF Waiting, IsQueued
    <2> QED BY <1>0, <2>1, <2>2 DEF WaitersQueued
  <1>9. GrantHolds'
    BY <1>0, <1>2 DEF GrantHolds
  <1>10. ListsAgree'
    <2>1. \A y \in Trans : tables'[y] = IF y = x THEN tables[x] \cup {t} ELSE tables[y]
      BY <1>0 DEF TypeOK
    <2> QED BY <1>0, <1>2, <2>1 DEF ListsAgree, IsHolder
  <1>11. NoDeadlock'
    <2>1. WaitsFor(x)' = {}
      BY <1>0 DEF WaitersQueued, Waiting, WaitsFor
    <2>2. ASSUME NEW y \in Trans, NEW z \in WaitsFor(y)', z # x
          PROVE  z \in WaitsFor(y)
      <3>1. req[y] \in Table
        BY <1>0, <2>2 DEF WaitsFor, TypeOK
      <3> QED BY <1>0, <1>2, <2>2, <3>1 DEF WaitsFor, IsHolder
    <2>3. ASSUME NEW S \in SUBSET Trans,
                 \A y \in S : \E z \in S : z \in WaitsFor(y)'
          PROVE  S = {}
      <3>1. x \notin S
        BY <2>1, <2>3
      <3>2. \A y \in S : \E z \in S : z \in WaitsFor(y)
        BY <2>2, <2>3, <3>1
      <3> QED BY <1>0, <3>2 DEF NoDeadlock
    <2> QED BY <2>3 DEF NoDeadlock
  <1> QED BY <1>4, <1>5, <1>6, <1>7, <1>8, <1>9, <1>10, <1>11 DEF LockInv

-----------------------------------------------------------------------------
(* The other steps *)

\* A step that takes no lock, and by which nobody starts or stops waiting.
LEMMA IdlePreserves ==
  ASSUME LockInv, TypeOK',
         UNCHANGED <<items, held, granted, queue, want, req, tables, timeout>>,
         \A y \in Trans : pc'[y] = "out" <=> pc[y] = "out",
         \A y \in Trans : active[y] => active'[y]
  PROVE  LockInv'
  <1>0. /\ HoldersCompatible /\ GroupExact /\ ItemsExact
        /\ WaitersQueued /\ GrantHolds /\ ListsAgree /\ NoDeadlock
        /\ held' = held /\ granted' = granted /\ items' = items
        /\ queue' = queue /\ want' = want /\ req' = req /\ tables' = tables
        /\ timeout' = timeout /\ TypeOK
    BY DEF LockInv
  <1>1. \A y \in Trans :
           /\ \A t \in Table : IsHolder(t, y)' <=> IsHolder(t, y)
           /\ Waiting(y)' <=> Waiting(y)
           /\ IsQueued(y)' <=> IsQueued(y)
           /\ WaitsFor(y)' = WaitsFor(y)
    BY <1>0 DEF IsHolder, Waiting, IsQueued, WaitsFor
  <1>2. HoldersCompatible' /\ GroupExact'
    BY <1>0 DEF HoldersCompatible, GroupExact
  <1>3. ItemsExact'
    BY <1>0, <1>1 DEF ItemsExact
  <1>4. WaitersQueued'
    <2>1. ASSUME NEW t \in Table, NEW i \in 1 .. Len(queue[t])
          PROVE  Queued(t, queue[t][i])'
      <3>1. queue[t][i] \in Trans /\ Queued(t, queue[t][i])
        BY <1>0 DEF WaitersQueued, TypeOK
      <3> QED BY <1>0, <1>1, <3>1 DEF Queued, IsHolder, Waiting
    <2> QED BY <1>0, <1>1, <2>1 DEF WaitersQueued
  <1>5. GrantHolds'
    BY <1>0 DEF GrantHolds
  <1>6. ListsAgree'
    BY <1>0, <1>1 DEF ListsAgree
  <1>7. NoDeadlock'
    BY <1>0, <1>1 DEF NoDeadlock
  <1> QED BY <1>2, <1>3, <1>4, <1>5, <1>6, <1>7 DEF LockInv

LEMMA GrantedPreserves ==
  ASSUME LockInv, NEW x \in Trans, LockGranted(x)
  PROVE  LockInv'
  <1>0. /\ TypeOK /\ HoldersCompatible /\ GroupExact /\ ItemsExact
        /\ WaitersQueued /\ GrantHolds /\ ListsAgree /\ NoDeadlock
        /\ held' = held /\ granted' = granted /\ items' = items
        /\ queue' = queue /\ req' = req /\ tables' = tables /\ active' = active
    BY DEF LockInv, LockGranted, lockItem
  <1>1. \A y \in Trans :
           /\ pc'[y] = IF y = x THEN "out" ELSE pc[y]
           /\ timeout'[y] = IF y = x THEN FALSE ELSE timeout[y]
           /\ want'[y] = IF y = x THEN NoRequest ELSE want[y]
    BY <1>0 DEF LockGranted, TypeOK
  <1>2. ~Waiting(x) /\ req[x] = NoTable
    BY <1>0 DEF LockGranted, Waiting, WaitersQueued
  <1>3. TypeOK'
    BY ResumeTyped, <1>0 DEF Resume
  <1>4. \A y \in Trans :
           /\ \A t \in Table : IsHolder(t, y)' <=> IsHolder(t, y)
           /\ WaitsFor(y)' = WaitsFor(y)
           /\ Waiting(y)' <=> Waiting(y)
    BY <1>0, <1>1, <1>2 DEF IsHolder, WaitsFor, Waiting
  <1>5. HoldersCompatible' /\ GroupExact' /\ ItemsExact'
    BY <1>0, <1>4 DEF HoldersCompatible, GroupExact, ItemsExact
  <1>6. WaitersQueued'
    <2>1. ASSUME NEW t \in Table, NEW i \in 1 .. Len(queue[t])
          PROVE  Queued(t, queue[t][i])'
      <3>1. PICK y \in Trans : y = queue[t][i] /\ Queued(t, y)
        BY <1>0 DEF WaitersQueued, TypeOK
      <3>2. y # x
        BY <1>2, <3>1 DEF Queued
      <3>3. Queued(t, y)'
        BY <1>0, <1>1, <1>4, <3>1, <3>2 DEF Queued, IsHolder
      <3> QED BY <1>0, <3>1, <3>3
    <2>2. ASSUME NEW y \in Trans, Waiting(y)' PROVE IsQueued(y)'
      BY <1>0, <1>1, <1>2, <1>4, <2>2 DEF WaitersQueued, IsQueued
    <2> QED BY <1>0, <1>4, <2>1, <2>2 DEF WaitersQueued
  <1>7. GrantHolds'
    BY <1>0, <1>1 DEF GrantHolds
  <1>8. ListsAgree'
    BY <1>0, <1>1, <1>4 DEF ListsAgree
  <1>9. NoDeadlock'
    BY <1>0, <1>4 DEF NoDeadlock
  <1> QED BY <1>3, <1>5, <1>6, <1>7, <1>8, <1>9 DEF LockInv

LEMMA TimedOutPreserves ==
  ASSUME LockInv, NEW x \in Trans, LockTimedOut(x)
  PROVE  LockInv'
  <1> DEFINE t == want[x].table
  <1>0. /\ TypeOK /\ HoldersCompatible /\ GroupExact /\ ItemsExact
        /\ WaitersQueued /\ GrantHolds /\ ListsAgree /\ NoDeadlock
        /\ held' = held /\ granted' = granted /\ items' = items
        /\ tables' = tables /\ active' = active /\ timeout' = timeout
        /\ NoTable \notin Table
    BY LockMgrAssumption DEF LockInv, LockTimedOut
  <1>1. \A y \in Trans :
           /\ pc'[y] = IF y = x THEN "out" ELSE pc[y]
           /\ req'[y] = IF y = x THEN NoTable ELSE req[y]
           /\ want'[y] = IF y = x THEN NoRequest ELSE want[y]
    BY <1>0 DEF LockTimedOut, TypeOK
  <1>2. Waiting(x) /\ t = req[x] /\ t \in Table
    BY <1>0 DEF LockTimedOut, Waiting, WaitersQueued, IsQueued
  <1>3. TypeOK'
    BY ResumeTyped, <1>0 DEF Resume
  <1>4. \A y \in Trans :
           /\ \A u \in Table : IsHolder(u, y)' <=> IsHolder(u, y)
           /\ WaitsFor(y)' = IF y = x THEN {} ELSE WaitsFor(y)
           /\ Waiting(y)' <=> Waiting(y) /\ y # x
    BY <1>0, <1>1 DEF IsHolder, WaitsFor, Waiting
  <1>5. PICK i \in 1 .. Len(queue[t]) :
           queue[t][i] = x /\ queue' = [queue EXCEPT ![t] = RemoveAt(@, i)]
    BY DEF LockTimedOut
  <1> DEFINE k(u, j) == IF u = t /\ j >= i THEN j + 1 ELSE j
  <1>6. /\ \A u \in Table : Len(queue[u]) \in Nat /\ Len(queue'[u]) \in Nat
        /\ \A u \in Table : Len(queue'[u]) = IF u = t THEN Len(queue[t]) - 1
                                              ELSE Len(queue[u])
        /\ \A u \in Table : \A j \in 1 .. Len(queue'[u]) :
              k(u, j) \in 1 .. Len(queue[u]) /\ queue'[u][j] = queue[u][k(u, j)]
    <2>1. queue[t] \in Seq(Trans)
      BY <1>0, <1>2 DEF TypeOK
    <2>2. /\ Len(RemoveAt(queue[t], i)) = Len(queue[t]) - 1
          /\ \A j \in 1 .. Len(queue[t]) - 1 :
                RemoveAt(queue[t], i)[j] =
                   IF j < i THEN queue[t][j] ELSE queue[t][j + 1]
      BY <2>1, <1>5, RemoveAtFacts
    <2>3. /\ queue'[t] = RemoveAt(queue[t], i)
          /\ \A u \in Table \ {t} : queue'[u] = queue[u]
      BY <1>0, <1>2, <1>5 DEF TypeOK
    <2>4. \A u \in Table : Len(queue[u]) \in Nat /\ Len(queue'[u]) \in Nat
      <3>1. \A u \in Table : queue[u] \in Seq(Trans) /\ queue'[u] \in Seq(Trans)
        BY <1>0, <1>3 DEF TypeOK
      <3> QED BY <3>1
    <2> HIDE DEF t
    <2> QED BY <2>2, <2>3, <2>4, <1>5
  <1>7. ASSUME NEW u \in Table, NEW j \in 1 .. Len(queue'[u])
        PROVE  queue[u][k(u, j)] # x
    <2>1. k(u, j) # i \/ u # t
      BY <1>6
    <2>2. k(u, j) \in 1 .. Len(queue[u])
      BY <1>6
    <2>3. CASE u = t
      BY <1>0, <1>2, <1>5, <2>1, <2>2, <2>3 DEF WaitersQueued
    <2>4. CASE u # t
      BY <1>0, <2>2, <2>4 DEF WaitersQueued, Queued
    <2> QED BY <2>3, <2>4
  <1>8. HoldersCompatible' /\ GroupExact'
    BY <1>0 DEF HoldersCompatible, GroupExact
  <1>9. ItemsExact'
    <2>1. ASSUME NEW u \in Table, queue'[u] # << >> PROVE queue[u] # << >>
      <3>1. queue'[u] \in Seq(Trans)
        BY <1>3 DEF TypeOK
      <3>2. Len(queue'[u]) # 0
        BY <2>1, <3>1, EmptySeq
      <3> QED BY <1>6, <3>2
    <2> QED BY <1>0, <1>4, <2>1 DEF ItemsExact
  <1>10. WaitersQueued'
    <2>1. ASSUME NEW u \in Table, NEW j \in 1 .. Len(queue'[u])
          PROVE  Queued(u, queue[u][j])'
      <3>1. PICK y \in Trans : y = queue'[u][j] /\ Queued(u, y) /\ y # x
        <4>1. k(u, j) \in 1 .. Len(queue[u]) /\ queue'[u][j] = queue[u][k(u, j)]
          BY <1>6
        <4>2. queue[u][k(u, j)] \in Trans
          BY <1>0, <4>1 DEF TypeOK
        <4>3. Queued(u, queue[u][k(u, j)])
          BY <1>0, <4>1 DEF WaitersQueued
        <4> QED BY <1>7, <4>1, <4>2, <4>3
      <3>2. Queued(u, y)'
        BY <1>0, <1>1, <1>4, <3>1 DEF Queued, IsHolder
      <3> QED BY <3>1, <3>2
    <2>2. ASSUME NEW u \in Table, NEW j \in 1 .. Len(queue'[u]),
                 NEW l \in 1 .. Len(queue'[u]), queue'[u][j] = queue'[u][l]
          PROVE  j = l
      <3>1. k(u, j) = k(u, l)
        <4>1. /\ k(u, j) \in 1 .. Len(queue[u]) /\ k(u, l) \in 1 .. Len(queue[u])
              /\ queue[u][k(u, j)] = queue[u][k(u, l)]
          BY <1>6, <2>2
        <4> HIDE DEF k
        <4> QED BY <1>0, <4>1 DEF WaitersQueued
      <3>2. j \in Nat /\ l \in Nat /\ i \in Nat
        BY <1>2, <1>6
      <3> QED BY <3>1, <3>2
    <2>3. ASSUME NEW y \in Trans, Waiting(y)' PROVE IsQueued(y)'
      <3>1. Waiting(y) /\ y # x /\ req'[y] = req[y] /\ want'[y] = want[y]
        BY <1>1, <1>4, <2>3
      <3>2. IsQueued(y)
        BY <1>0, <3>1 DEF WaitersQueued
      <3> DEFINE u == req[y]
      <3>3. PICK j \in 1 .. Len(queue[u]) : queue[u][j] = y
        BY <3>2 DEF IsQueued
      <3>4. u \in Table
        BY <3>2 DEF IsQueued
      <3>5. \E l \in 1 .. Len(queue'[u]) : queue'[u][l] = y
        <4>1. CASE u = t /\ j > i
          <5>1. j - 1 \in 1 .. Len(queue'[u]) /\ k(u, j - 1) = j
            BY <1>6, <3>4, <4>1
          <5> QED BY <1>6, <3>3, <3>4, <5>1
        <4>2. CASE u = t /\ j < i
          <5>1. j \in 1 .. Len(queue'[u]) /\ k(u, j) = j
            BY <1>6, <3>4, <4>2
          <5> QED BY <1>6, <3>3, <3>4, <5>1
        <4>3. CASE u = t /\ j = i
          BY <1>5, <3>1, <3>3, <4>3
        <4>4. CASE u # t
          BY <1>6, <3>3, <3>4, <4>4
        <4> QED BY <1>6, <3>4, <4>1, <4>2, <4>3, <4>4
      <3> QED BY <3>1, <3>2, <3>5 DEF IsQueued
    <2>4. ASSUME NEW y \in Trans, ~Waiting(y)' PROVE req'[y] = NoTable
      BY <1>0, <1>1, <1>4, <2>4 DEF WaitersQueued
    <2> QED BY <2>1, <2>2, <2>3, <2>4 DEF WaitersQueued
  <1>11. GrantHolds'
    BY <1>0, <1>1 DEF GrantHolds
  <1>12. ListsAgree'
    BY <1>0, <1>1, <1>4 DEF ListsAgree
  <1>13. NoDeadlock'
    <2>1. ASSUME NEW S \in SUBSET Trans,
                 \A y \in S : \E z \in S : z \in WaitsFor(y)'
          PROVE  S = {}
      <3>1. \A y \in S : \E z \in S : z \in WaitsFor(y)
        BY <1>4, <2>1
      <3> QED BY <1>0, <3>1 DEF NoDeadlock
    <2> QED BY <2>1 DEF NoDeadlock
  <1> QED BY <1>3, <1>8, <1>9, <1>10, <1>11, <1>12, <1>13 DEF LockInv

\* x joins the requestors of t without closing a cycle.
LEMMA EnqueuePreserves ==
  ASSUME LockInv, NEW x \in Trans, NEW t \in Table, NEW m \in Mode \ {NO},
         LockEnqueue(x, t, m)
  PROVE  LockInv'
  <1> DEFINE new == Conv(m, held[t][x])
             r == [table |-> t, mode |-> new, upgrade |-> IsHolder(t, x)]
  <1>0. /\ TypeOK /\ HoldersCompatible /\ GroupExact /\ ItemsExact
        /\ WaitersQueued /\ GrantHolds /\ ListsAgree /\ NoDeadlock
        /\ held' = held /\ granted' = granted /\ items' = items
        /\ tables' = tables /\ active' = active
        /\ active[x] /\ pc[x] = "out" /\ NoTable \notin Table
    BY LockMgrAssumption DEF LockInv, LockEnqueue, Running
  <1>1. \A y \in Trans :
           /\ pc'[y] = IF y = x THEN "unlocked" ELSE pc[y]
           /\ req'[y] = IF y = x THEN t ELSE req[y]
           /\ want'[y] = IF y = x THEN r ELSE want[y]
           /\ timeout'[y] = IF y = x THEN FALSE ELSE timeout[y]
    BY <1>0 DEF LockEnqueue, TypeOK
  <1>2. ~Waiting(x) /\ req[x] = NoTable
    BY <1>0 DEF Waiting, WaitersQueued
  <1>3. TypeOK'
    BY LockTyped, <1>0 DEF Lock
  <1>4. \A y \in Trans :
           /\ \A u \in Table : IsHolder(u, y)' <=> IsHolder(u, y)
           /\ Waiting(y)' <=> Waiting(y) \/ y = x
           /\ y # x => WaitsFor(y)' = WaitsFor(y)
    BY <1>0, <1>1 DEF IsHolder, WaitsFor, Waiting
  <1>5. /\ r.table = t /\ r.mode = new /\ r.upgrade = IsHolder(t, x)
        /\ new > held[t][x]
    <2>1. held[t][x] \in Mode /\ new = IF m <= held[t][x] THEN held[t][x] ELSE m
      BY <1>0, ConvIsMax DEF TypeOK
    <2>2. CASE IsHolder(t, x)
      BY <2>1, <2>2 DEF LockEnqueue, Conflicts, Mode, NO, SX
    <2>3. CASE ~IsHolder(t, x)
      BY <2>1, <2>3 DEF IsHolder, Mode, NO, SX
    <2> QED BY <2>2, <2>3
  <1>6. PICK i \in 1 .. Len(queue[t]) + 1 :
           queue' = [queue EXCEPT ![t] = InsertAt(@, i, x)]
    BY DEF LockEnqueue
  <1> HIDE DEF r, new
  \* The requestor at place j of the new queue of u was at place k(u, j).
  <1> DEFINE k(u, j) == IF u = t /\ j > i THEN j - 1 ELSE j
  <1>7. /\ \A u \in Table : Len(queue[u]) \in Nat /\ Len(queue'[u]) \in Nat
        /\ \A u \in Table : Len(queue'[u]) = IF u = t THEN Len(queue[t]) + 1
                                              ELSE Len(queue[u])
        /\ queue'[t][i] = x
        /\ \A u \in Table : \A j \in 1 .. Len(queue'[u]) : u # t \/ j # i =>
              k(u, j) \in 1 .. Len(queue[u]) /\ queue'[u][j] = queue[u][k(u, j)]
    <2>1. queue[t] \in Seq(Trans)
      BY <1>0 DEF TypeOK
    <2>2. /\ Len(InsertAt(queue[t], i, x)) = Len(queue[t]) + 1
          /\ \A j \in 1 .. Len(queue[t]) + 1 :
                InsertAt(queue[t], i, x)[j] =
                   IF j < i THEN queue[t][j]
                   ELSE IF j = i THEN x ELSE queue[t][j - 1]
      BY <2>1, InsertAtFacts
    <2>3. /\ queue'[t] = InsertAt(queue[t], i, x)
          /\ \A u \in Table \ {t} : queue'[u] = queue[u]
      BY <1>0, <1>6 DEF TypeOK
    <2>4. \A u \in Table : Len(queue[u]) \in Nat /\ Len(queue'[u]) \in Nat
      <3>1. \A u \in Table : queue[u] \in Seq(Trans) /\ queue'[u] \in Seq(Trans)
        BY <1>0, <1>3 DEF TypeOK
      <3> QED BY <3>1
    <2> QED BY <2>2, <2>3, <2>4, <1>6
  \* ... and it is not x.
  <1>8. ASSUME NEW u \in Table, NEW j \in 1 .. Len(queue'[u]), u # t \/ j # i
        PROVE  \E y \in Trans : y = queue'[u][j] /\ Queued(u, y) /\ y # x
    <2>1. k(u, j) \in 1 .. Len(queue[u]) /\ queue'[u][j] = queue[u][k(u, j)]
      BY <1>7, <1>8
    <2> HIDE DEF k
    <2>2. queue[u][k(u, j)] \in Trans /\ Queued(u, queue[u][k(u, j)])
      BY <1>0, <2>1 DEF TypeOK, WaitersQueued
    <2> QED BY <1>2, <2>1, <2>2 DEF Queued
  <1>9. HoldersCompatible' /\ GroupExact'
    BY <1>0 DEF HoldersCompatible, GroupExact
  <1>10. ItemsExact'
    <2>1. ASSUME NEW u \in Table, u # t, queue'[u] # << >> PROVE queue[u] # << >>
      BY <1>0, <1>6, <2>1 DEF TypeOK
    <2>2. t \in items
      BY DEF LockEnqueue
    <2> QED BY <1>0, <1>4, <2>1, <2>2 DEF ItemsExact
  <1>11. WaitersQueued'
    <2>1. ASSUME NEW u \in Table, NEW j \in 1 .. Len(queue'[u])
          PROVE  Queued(u, queue[u][j])'
      <3>1. CASE u = t /\ j = i
        <4>1. Queued(t, x)'
          BY <1>0, <1>1, <1>4, <1>5 DEF Queued
        <4> QED BY <1>7, <3>1, <4>1
      <3>2. CASE u # t \/ j # i
        <4>1. PICK y \in Trans : y = queue'[u][j] /\ Queued(u, y) /\ y # x
          BY <1>8, <3>2
        <4>2. Queued(u, y)'
          BY <1>0, <1>1, <1>4, <4>1 DEF Queued, IsHolder
        <4> QED BY <4>1, <4>2
      <3> QED BY <3>1, <3>2
    <2>2. ASSUME NEW u \in Table, NEW j \in 1 .. Len(queue'[u]),
                 NEW l \in 1 .. Len(queue'[u]), queue'[u][j] = queue'[u][l]
          PROVE  j = l
      <3>1. CASE u = t /\ (j = i \/ l = i)
        BY <1>7, <1>8, <2>2, <3>1
      <3>2. CASE u # t \/ (j # i /\ l # i)
        <4>1. /\ k(u, j) \in 1 .. Len(queue[u]) /\ k(u, l) \in 1 .. Len(queue[u])
              /\ queue[u][k(u, j)] = queue[u][k(u, l)]
          BY <1>7, <2>2, <3>2
        <4>2. k(u, j) = k(u, l)
          <5> HIDE DEF k
          <5> QED BY <1>0, <4>1 DEF WaitersQueued
        <4>3. j \in Nat /\ l \in Nat /\ i \in Nat
          BY <1>7
        <4> QED BY <3>2, <4>2, <4>3
      <3> QED BY <3>1, <3>2
    <2>3. ASSUME NEW y \in Trans, Waiting(y)' PROVE IsQueued(y)'
      <3>1. CASE y = x
        <4>1. i \in 1 .. Len(queue'[t])
          BY <1>7
        <4> QED BY <1>1, <1>5, <1>7, <3>1, <4>1 DEF IsQueued
      <3>2. CASE y # x
        <4>1. IsQueued(y) /\ req'[y] = req[y] /\ want'[y] = want[y]
          BY <1>0, <1>1, <1>4, <2>3, <3>2 DEF WaitersQueued
        <4> DEFINE u == req[y]
        <4>2. PICK j \in 1 .. Len(queue[u]) : queue[u][j] = y
          BY <4>1 DEF IsQueued
        <4>3. u \in Table
          BY <4>1 DEF IsQueued
        <4>4. \E l \in 1 .. Len(queue'[u]) : queue'[u][l] = y
          <5>1. CASE u = t /\ j >= i
            <6>1. j + 1 \in 1 .. Len(queue'[u]) /\ k(u, j + 1) = j /\ j + 1 # i
              BY <1>7, <4>3, <5>1
            <6> QED BY <1>7, <4>2, <4>3, <6>1
          <5>2. CASE u # t \/ j < i
            <6>1. j \in 1 .. Len(queue'[u]) /\ k(u, j) = j
              BY <1>7, <4>3, <5>2
            <6> QED BY <1>7, <4>2, <4>3, <5>2, <6>1
          <5> QED BY <1>7, <4>3, <5>1, <5>2
        <4> QED BY <4>1, <4>4 DEF IsQueued
      <3> QED BY <3>1, <3>2
    <2>4. ASSUME NEW y \in Trans, ~Waiting(y)' PROVE req'[y] = NoTable
      BY <1>0, <1>1, <1>4, <2>4 DEF WaitersQueued
    <2> QED BY <2>1, <2>2, <2>3, <2>4 DEF WaitersQueued
  <1>12. GrantHolds'
    BY <1>0, <1>1 DEF GrantHolds
  <1>13. ListsAgree'
    BY <1>0, <1>1, <1>4 DEF ListsAgree
  <1>14. NoDeadlock'
    <2> DEFINE others == {y \in Trans \ {x} : IsHolder(t, y)}
    <2>1. WaitsFor(x)' = others
      BY <1>0, <1>1 DEF WaitsFor, IsHolder
    \* The search for a cycle found a closed set without x, or did not take
    \* place because no other transaction is active.
    <2>2. \E C \in SUBSET Trans :
             others \subseteq C /\ x \notin C /\ \A y \in C : WaitsFor(y) \subseteq C
      <3>1. CASE Cardinality({y \in Trans : active[y]}) >= 2
        BY <3>1 DEF LockEnqueue, HasCycle
      <3>2. CASE ~(Cardinality({y \in Trans : active[y]}) >= 2)
        <4>1. \A y \in Trans : active[y] => y = x
          <5>1. SUFFICES ASSUME NEW y \in Trans, active[y], y # x PROVE FALSE
            OBVIOUS
          <5>2. /\ {x, y} \subseteq {z \in Trans : active[z]}
                /\ IsFiniteSet({z \in Trans : active[z]})
            BY <1>0, <5>1, LockMgrAssumption, FS_Subset
          <5>3. Cardinality({x, y}) = 2 /\ IsFiniteSet({x, y})
            <6>1. IsFiniteSet({x}) /\ Cardinality({x}) = 1
              BY FS_Singleton
            <6>2. /\ IsFiniteSet({x} \cup {y})
                  /\ Cardinality({x} \cup {y}) =
                        IF y \in {x} THEN Cardinality({x}) ELSE Cardinality({x}) + 1
              BY <6>1, FS_AddElement, Zenon
            <6>3. {x, y} = {x} \cup {y} /\ y \notin {x}
              BY <5>1
            <6>4. Cardinality({x} \cup {y}) = Cardinality({x}) + 1
              BY <6>2, <6>3, Zenon
            <6>5. Cardinality({x, y}) = Cardinality({x}) + 1
              BY <6>3, <6>4, Zenon
            <6>6. Cardinality({x, y}) = 2
              BY <6>1, <6>5
            <6> QED BY <6>2, <6>3, <6>6, Zenon
          <5>4. /\ Cardinality({x, y}) <= Cardinality({z \in Trans : active[z]})
                /\ Cardinality({z \in Trans : active[z]}) \in Nat
            BY <5>2, FS_Subset, FS_CardinalityType
          <5> QED BY <3>2, <5>3, <5>4
        <4>2. others = {}
          BY <1>0, <4>1 DEF ListsAgree
        <4> QED BY <4>2
      <3> QED BY <3>1, <3>2
    <2>3. PICK C \in SUBSET Trans :
             others \subseteq C /\ x \notin C /\ \A y \in C : WaitsFor(y) \subseteq C
      BY <2>2
    <2>4. ASSUME NEW S \in SUBSET Trans,
                 \A y \in S : \E z \in S : z \in WaitsFor(y)'
          PROVE  S = {}
      <3> HIDE DEF others
      <3>1. CASE x \notin S
        <4>1. \A y \in S : \E z \in S : z \in WaitsFor(y)
          BY <1>4, <2>4, <3>1
        <4> QED BY <1>0, <4>1 DEF NoDeadlock
      <3>2. CASE x \in S
        <4>1. \A y \in S \cap C : \E z \in S \cap C : z \in WaitsFor(y)
          <5>1. SUFFICES ASSUME NEW y \in S \cap C
                PROVE \E z \in S \cap C : z \in WaitsFor(y)
            OBVIOUS
          <5>2. PICK z \in S : z \in WaitsFor(y)'
            BY <2>4, <5>1
          <5>3. z \in WaitsFor(y)
            BY <1>4, <2>3, <5>1, <5>2
          <5> QED BY <2>3, <5>1, <5>2, <5>3
        <4>2. S \cap C = {}
          BY <1>0, <4>1 DEF NoDeadlock
        <4>3. PICK z \in S : z \in others
          BY <2>1, <2>4, <3>2
        <4> QED BY <2>3, <4>2, <4>3
      <3> QED BY <3>1, <3>2
    <2> QED BY <2>4 DEF NoDeadlock
  <1> QED BY <1>3, <1>9, <1>10, <1>11, <1>12, <1>13, <1>14 DEF LockInv

-----------------------------------------------------------------------------
(* Every step *)

LEMMA LockPreserves ==
  ASSUME LockInv, NEW x \in Trans, NEW t \in Table, NEW m \in Mode \ {NO},
         Lock(x, t, m)
  PROVE  LockInv'
  <1>0. /\ TypeOK /\ TypeOK' /\ ItemsExact /\ GroupExact /\ WaitersQueued
        /\ ListsAgree /\ held[t][x] \in Mode
    BY LockTyped DEF LockInv, TypeOK
  <1>1. CASE LockNewItem(x, t, m)
    <2>1. \A y \in Trans : held[t][y] = NO
      BY <1>0, <1>1 DEF LockNewItem, ItemsExact, IsHolder
    <2>2. held[t][x] <= m /\ NoConflict(held[t], x, m)
      BY <2>1, CompIsSum DEF NoConflict, Mode, NO, SX
    <2> QED BY <1>1, <2>2, HoldPreserves DEF LockNewItem, InsertTableLock
  <1>2. CASE LockAgain(x, t, m)
    BY <1>0, <1>2, IdlePreserves DEF LockAgain, waiter
  <1>3. CASE LockConvert(x, t, m)
    <2> DEFINE new == Conv(m, held[t][x])
    <2>1. new \in Mode \ {NO} /\ held[t][x] <= new
      BY <1>0, ConvIsMax DEF Mode, NO, SX
    <2>2. items' = items \cup {t}
      BY <1>3 DEF LockConvert
    <2>3. tables' = [tables EXCEPT ![x] = @ \cup {t}]
      <3>1. t \in tables[x]
        BY <1>0, <1>3 DEF LockConvert, ListsAgree
      <3>2. tables[x] \cup {t} = tables[x] /\ tables' = tables
        BY <1>3, <3>1 DEF LockConvert
      <3> QED BY <1>0, <3>2 DEF TypeOK
    <2>4. /\ Running(x) /\ NoConflict(held[t], x, new) /\ Hold(t, x, new)
          /\ UNCHANGED <<active, queue, waiter>>
      BY <1>3 DEF LockConvert
    <2> HIDE DEF new
    <2> QED BY <2>1, <2>2, <2>3, <2>4, HoldPreserves
  <1>4. CASE LockShare(x, t, m)
    <2>1. held[t][x] = NO /\ Comp(m, granted[t])
      BY <1>4 DEF LockShare, NoConflictNew, IsHolder
    <2>2. NoConflict(held[t], x, m)
      <3>1. SUFFICES ASSUME NEW y \in Trans PROVE Comp(m, held[t][y])
        BY DEF NoConflict
      <3>2. held[t][y] <= granted[t] /\ held[t][y] \in Mode /\ granted[t] \in Mode
        BY <1>0 DEF GroupExact, TypeOK
      <3> QED BY <2>1, <3>2, CompIsSum DEF Mode, NO, SX
    <2>3. held[t][x] <= m
      BY <2>1 DEF Mode, NO, SX
    <2>4. items' = items \cup {t}
      BY <1>4 DEF LockShare
    <2> QED BY <1>4, <2>2, <2>3, <2>4, HoldPreserves DEF LockShare, InsertTableLock
  <1>5. CASE LockEnqueue(x, t, m)
    BY <1>5, EnqueuePreserves
  <1>6. CASE LockDeadlock(x, t, m)
    BY <1>0, <1>6, IdlePreserves DEF LockDeadlock, vars
  <1> QED BY <1>1, <1>2, <1>3, <1>4, <1>5, <1>6 DEF Lock

LEMMA LockInvStep == LockInv /\ [Next]_vars => LockInv'
  <1> SUFFICES ASSUME LockInv, [Next]_vars PROVE LockInv'
    OBVIOUS
  <1>0. TypeOK /\ TypeOK'
    BY TypeStep DEF LockInv
  <1>1. CASE UNCHANGED vars
    BY <1>0, <1>1, IdlePreserves DEF vars
  <1>2. ASSUME NEW x \in Trans, Step(x) PROVE LockInv'
    <2>1. CASE Begin(x)
      <3>1. \A y \in Trans : active[y] => active'[y]
        BY <1>0, <2>1 DEF Begin, TypeOK
      <3> QED BY <1>0, <2>1, <3>1, IdlePreserves DEF Begin, lockItem, waiter
    <2>2. ASSUME NEW t \in Table, NEW m \in ReqModes, Lock(x, t, Effective(x, m))
          PROVE  LockInv'
      BY <2>2, LockPreserves, EffectiveTyped
    <2>3. CASE Sleep(x)
      <3>1. \A y \in Trans : pc'[y] = "out" <=> pc[y] = "out"
        BY <1>0, <2>3 DEF Sleep, TypeOK
      <3> QED BY <1>0, <2>3, <3>1, IdlePreserves DEF Sleep, lockItem
    <2>4. CASE WaitEnds(x)
      <3>1. \A y \in Trans : pc'[y] = "out" <=> pc[y] = "out"
        BY <1>0, <2>4 DEF WaitEnds, TypeOK
      <3> QED BY <1>0, <2>4, <3>1, IdlePreserves DEF WaitEnds, lockItem
    <2>5. CASE LockGranted(x)
      BY <2>5, GrantedPreserves
    <2>6. CASE LockTimedOut(x)
      BY <2>6, TimedOutPreserves
    <2>7. CASE LockWaitAgain(x)
      <3>1. \A y \in Trans : pc'[y] = "out" <=> pc[y] = "out"
        BY <1>0, <2>7 DEF LockWaitAgain, TypeOK
      <3> QED BY <1>0, <2>7, <3>1, IdlePreserves DEF LockWaitAgain, lockItem
    <2>8. CASE Unlock(x)
      <3>1. PICK n \in [tables[x] -> 0 .. Cardinality(Trans)] :
               ReleaseWaking(x, tables[x], n)
        BY <2>8 DEF Unlock, Release
      <3>2. Releasing(x, tables[x], n)
        BY <1>0, <2>8, <3>1 DEF Unlock, Running, Releasing, TypeOK
      <3> QED BY <3>2, ReleasePreserves
    <2>9. ASSUME NEW t \in SysTable, TableUnlock(x, t) PROVE LockInv'
      <3>1. CASE count[t][x] > 1
        BY <1>0, <2>9, <3>1, IdlePreserves DEF TableUnlock, waiter
      <3>2. CASE ~(count[t][x] > 1)
        <4>1. Release(x, {t}) /\ UNCHANGED <<active, want, waits>> /\ pc[x] = "out"
          BY <2>9, <3>2 DEF TableUnlock, Running
        <4>2. PICK n \in [{t} -> 0 .. Cardinality(Trans)] : ReleaseWaking(x, {t}, n)
          BY <4>1 DEF Release
        <4>3. {t} \in SUBSET Table
          BY LockMgrAssumption
        <4>4. Releasing(x, {t}, n)
          BY <4>1, <4>2, <4>3 DEF Releasing
        <4> QED BY <4>4, ReleasePreserves
      <3> QED BY <3>1, <3>2
    <2> QED BY <1>2, <2>1, <2>2, <2>3, <2>4, <2>5, <2>6, <2>7, <2>8, <2>9
            DEF Step, Resume
  <1> QED BY <1>1, <1>2 DEF Next

LEMMA LockInvInit == Init => LockInv
  <1> SUFFICES ASSUME Init PROVE LockInv
    OBVIOUS
  <1>1. TypeOK
    BY TypeInit
  <1>2. /\ NO = 0
        /\ \A t \in Table, x \in Trans : held[t][x] = 0
        /\ \A t \in Table : granted[t] = 0 /\ queue[t] = << >> /\ Len(queue[t]) = 0
        /\ items = {}
        /\ \A x \in Trans : /\ req[x] = NoTable /\ pc[x] = "out"
                            /\ tables[x] = {} /\ ~timeout[x]
    BY DEF Init, NO
  <1>3. HoldersCompatible
    BY <1>2, CompIsSum DEF HoldersCompatible, Mode, NO, SX
  <1>4. GroupExact /\ ItemsExact
    BY <1>2 DEF GroupExact, ItemsExact, IsHolder
  <1>5. WaitersQueued
    BY <1>2 DEF WaitersQueued, Waiting
  <1>6. GrantHolds /\ ListsAgree
    BY <1>2 DEF GrantHolds, ListsAgree, IsHolder
  <1>7. NoDeadlock
    BY <1>2 DEF NoDeadlock, WaitsFor
  <1> QED BY <1>1, <1>3, <1>4, <1>5, <1>6, <1>7 DEF LockInv

\* The conjunction of the invariants below is inductive.
THEOREM LockInvariant == Spec => []LockInv
  BY LockInvInit, LockInvStep, PTL DEF Spec

\* No two transactions hold conflicting locks on a table, whether a lock was
\* granted directly, by conversion or by a wake-up.
THEOREM LocksCompatible == Spec => []HoldersCompatible
  <1>1. LockInv => HoldersCompatible
    BY DEF LockInv
  <1> QED BY LockInvariant, <1>1, PTL

\* granted_lock_ is the strongest mode held.
THEOREM GroupModeExact == Spec => []GroupExact
  <1>1. LockInv => GroupExact
    BY DEF LockInv
  <1> QED BY LockInvariant, <1>1, PTL

\* A lock item exists exactly while the table has a holder.
THEOREM ItemsHaveHolders == Spec => []ItemsExact
  <1>1. LockInv => ItemsExact
    BY DEF LockInv
  <1> QED BY LockInvariant, <1>1, PTL

\* Threads that wait and requestors in the queues correspond one to one.
THEOREM WaitersAreQueued == Spec => []WaitersQueued
  <1>1. LockInv => WaitersQueued
    BY DEF LockInv
  <1> QED BY LockInvariant, <1>1, PTL

\* A thread that returns with a granted request still holds the lock.
THEOREM GrantsHold == Spec => []GrantHolds
  <1>1. LockInv => GrantHolds
    BY DEF LockInv
  <1> QED BY LockInvariant, <1>1, PTL

\* The lists of the transactions name exactly the locks they hold.
THEOREM ListsComplete == Spec => []ListsAgree
  <1>1. LockInv => ListsAgree
    BY DEF LockInv
  <1> QED BY LockInvariant, <1>1, PTL

\* The one search for a cycle when a request is queued excludes deadlock.
THEOREM DeadlockFree == Spec => []NoDeadlock
  <1>1. LockInv => NoDeadlock
    BY DEF LockInv
  <1> QED BY LockInvariant, <1>1, PTL

-----------------------------------------------------------------------------
(* No overtaking *)

\* One pair of a requestor x and a transaction y in a step.
NotOvertaken(t, i, y) ==
    LET x == queue[t][i]
    IN  /\ req'[x] = t
        /\ held[t][y] = NO /\ held'[t][y] # NO
        /\ \A j \in 1 .. i : queue[t][j] # y
        => Comp(held'[t][y], want[x].mode)

\* While a request waits, nobody who was not ahead of it gets a lock on the
\* table that conflicts with it.
LEMMA ReleaseNoOvertaking ==
  ASSUME NEW x, NEW T, NEW n, Releasing(x, T, n), NEW t \in Table,
         NEW i \in 1 .. Len(queue[t]), NEW y \in Trans
  PROVE  NotOvertaken(t, i, y)
  <1> SUFFICES ASSUME req'[queue[t][i]] = t, held[t][y] = NO, held'[t][y] # NO,
                      \A j \in 1 .. i : queue[t][j] # y
               PROVE  FALSE
    BY DEF NotOvertaken
  <1>1. t \in T /\ y \in Woken(T, n, t)
    BY ReleaseHeld DEF Woken
  <1>2. PICK j \in 1 .. n[t] : queue[t][j] = y
    BY <1>1, WokenWaited
  <1>3. n[t] \in Nat /\ j > i
    BY <1>1, <1>2, WokenWaited
  <1>4. queue[t][i] \in Woken(T, n, t)
    <2>1. i \in 1 .. n[t]
      BY <1>2, <1>3
    <2> QED BY <1>1, <2>1, WokenWaited
  <1>5. queue[t][i] \in AllWoken(T, n) /\ queue[t][i] \in Trans
    BY <1>1, <1>4, WokenWaited DEF AllWoken
  <1>6. req'[queue[t][i]] = NoTable
    BY <1>5, ReleaseWaiting
  <1> QED BY <1>6, LockMgrAssumption

LEMMA NoOvertakingStep ==
  ASSUME LockInv, [Next]_vars, NEW t \in Table, NEW i \in 1 .. Len(queue[t]),
         NEW y \in Trans
  PROVE  NotOvertaken(t, i, y)
  <1>0. /\ TypeOK /\ ItemsExact /\ WaitersQueued
        /\ queue[t] # << >> /\ queue[t][i] \in Trans
    BY DEF LockInv, TypeOK
  <1> SUFFICES ASSUME held[t][y] = NO, held'[t][y] # NO
               PROVE  NotOvertaken(t, i, y)
    BY DEF NotOvertaken
  <1>1. PICK x \in Trans : Step(x)
    BY DEF Next, vars
  <1>2. held' # held
    OBVIOUS
  <1>3. ASSUME NEW u \in Table, NEW m \in ReqModes, Lock(x, u, Effective(x, m))
        PROVE  NotOvertaken(t, i, y)
    <2> DEFINE e == Effective(x, m)
    <2>1. e \in Mode \ {NO}
      BY EffectiveTyped
    <2> HIDE DEF e
    <2>2. CASE LockShare(x, u, e)
      <3>1. u = t /\ x = y /\ held'[t][y] = e
        BY <1>0, <2>2 DEF LockShare, Hold, TypeOK
      <3>2. Comp(e, want[queue[t][i]].mode)
        BY <2>2, <3>1 DEF LockShare, NoConflictNew
      <3> QED BY <3>1, <3>2 DEF NotOvertaken
    <2>3. CASE LockNewItem(x, u, e)
      <3>1. u # t
        BY <1>0, <2>3 DEF LockNewItem, ItemsExact
      <3> QED BY <1>0, <2>3, <3>1 DEF LockNewItem, Hold, TypeOK
    <2>4. CASE LockConvert(x, u, e)
      <3>1. held[u][x] # NO
        BY <2>4 DEF LockConvert, IsHolder
      <3>2. held'[t][y] = held[t][y]
        BY <1>0, <2>4, <3>1 DEF LockConvert, Hold, TypeOK
      <3> QED BY <3>2
    <2>5. held' = held \/ LockShare(x, u, e) \/ LockNewItem(x, u, e) \/ LockConvert(x, u, e)
      BY <1>3 DEF Lock, LockAgain, LockEnqueue, LockDeadlock, vars, e
    <2> QED BY <1>2, <2>2, <2>3, <2>4, <2>5
  <1>4. CASE Unlock(x)
    <2>1. PICK n \in [tables[x] -> 0 .. Cardinality(Trans)] :
             ReleaseWaking(x, tables[x], n)
      BY <1>4 DEF Unlock, Release
    <2>2. Releasing(x, tables[x], n)
      BY <1>0, <1>4, <2>1 DEF Unlock, Running, Releasing, TypeOK
    <2> QED BY <2>2, ReleaseNoOvertaking
  <1>5. ASSUME NEW u \in SysTable, TableUnlock(x, u)
        PROVE  NotOvertaken(t, i, y)
    <2>1. Release(x, {u}) /\ UNCHANGED <<active, want, waits>> /\ pc[x] = "out"
      BY <1>2, <1>5 DEF TableUnlock, Running
    <2>2. PICK n \in [{u} -> 0 .. Cardinality(Trans)] : ReleaseWaking(x, {u}, n)
      BY <2>1 DEF Release
    <2>3. {u} \in SUBSET Table
      BY LockMgrAssumption
    <2>4. Releasing(x, {u}, n)
      BY <2>1, <2>2, <2>3 DEF Releasing
    <2> QED BY <2>4, ReleaseNoOvertaking
  <1> QED BY <1>1, <1>2, <1>3, <1>4, <1>5
          DEF Step, Begin, Sleep, WaitEnds, Resume, LockGranted, LockTimedOut,
              LockWaitAgain, lockItem

\* While a request waits, nobody who was not ahead of it gets a lock on the
\* table that conflicts with it.
THEOREM NobodyOvertakes == Spec => NoOvertaking
  <1>1. LockInv /\ [Next]_vars =>
           \A t \in Table : \A i \in 1 .. Len(queue[t]) : \A y \in Trans :
              NotOvertaken(t, i, y)
    BY NoOvertakingStep
  <1>2. (\A t \in Table : \A i \in 1 .. Len(queue[t]) : \A y \in Trans :
           NotOvertaken(t, i, y)) =>
        [\A t \in Table : \A i \in 1 .. Len(queue[t]) : \A y \in Trans :
          LET x == queue[t][i]
          IN  /\ req'[x] = t
              /\ held[t][y] = NO /\ held'[t][y] # NO
              /\ \A j \in 1 .. i : queue[t][j] # y
              => Comp(held'[t][y], want[x].mode)]_vars
    BY DEF NotOvertaken
  <1> QED BY LockInvariant, <1>1, <1>2, PTL DEF Spec, NoOvertaking

-----------------------------------------------------------------------------
(* Refinement of TwoPhaseLocking *)

\* Where active and held stay, the promise allows the step as a stutter;
\* where they change, the invariant gives the first conjuncts of its Next.
LEMMA AbstractFrame ==
  ASSUME LockInv, LockInv'
  PROVE  /\ held' \in [Table -> [Trans -> Mode]]
         /\ Abstract!Compatible' /\ Abstract!Owned'
         /\ \A t \in Table, y \in Trans : held[t][y] \in Mode /\ held'[t][y] \in Mode
  <1>1. held' \in [Table -> [Trans -> Mode]] /\ held \in [Table -> [Trans -> Mode]]
    BY DEF LockInv, TypeOK
  <1>2. HoldersCompatible' /\ ListsAgree'
    BY DEF LockInv
  <1>3. Abstract!Compatible'
    BY <1>2 DEF HoldersCompatible, Abstract!Compatible
  <1>4. Abstract!Owned'
    BY <1>2 DEF ListsAgree, IsHolder, Abstract!Owned, NO
  <1> QED BY <1>1, <1>3, <1>4

LEMMA HoldIsAcquire ==
  ASSUME LockInv, LockInv', NEW x \in Trans, NEW t \in Table, NEW m \in Mode,
         held[t][x] <= m, Hold(t, x, m), active' = active
  PROVE  Abstract!Next
  <1>1. \A u \in Table, y \in Trans :
           held'[u][y] = IF u = t /\ y = x THEN m ELSE held[u][y]
    BY DEF Hold, LockInv, TypeOK
  <1>2. \A u \in Table, y \in Trans : held[u][y] <= held'[u][y]
    BY <1>1, AbstractFrame DEF Mode, NO, SX
  <1>3. Abstract!Acquire
    BY <1>2 DEF Abstract!Acquire, Abstract!Keeps
  <1> QED BY <1>3, AbstractFrame DEF Abstract!Next

LEMMA RefinementStep ==
  ASSUME LockInv, LockInv', [Next]_vars
  PROVE  [Abstract!Next]_<<active, held>>
  <1>0. TypeOK /\ ItemsExact
    BY DEF LockInv
  <1>1. CASE UNCHANGED <<active, held>>
    BY <1>1
  <1>2. CASE ~UNCHANGED <<active, held>>
    <2>1. PICK x \in Trans : Step(x)
      BY <1>2 DEF Next, vars
    <2>2. CASE Begin(x)
      <3>1. Abstract!Begin(x)
        BY <2>2 DEF Begin, lockItem, Abstract!Begin
      <3> QED BY <3>1, AbstractFrame DEF Abstract!Next
    <2>3. ASSUME NEW t \in Table, NEW m \in ReqModes, Lock(x, t, Effective(x, m))
          PROVE  Abstract!Next
      <3> DEFINE e == Effective(x, m)
      <3>1. e \in Mode \ {NO} /\ held[t][x] \in Mode
        BY <1>0, EffectiveTyped DEF TypeOK
      <3>2. \/ LockNewItem(x, t, e) \/ LockConvert(x, t, e) \/ LockShare(x, t, e)
            \/ UNCHANGED <<active, held>>
        BY <2>3 DEF Lock, LockAgain, LockEnqueue, LockDeadlock, vars
      <3> HIDE DEF e
      <3>3. CASE LockNewItem(x, t, e)
        <4>1. held[t][x] <= e
          BY <1>0, <3>1, <3>3 DEF LockNewItem, ItemsExact, IsHolder, Mode, NO, SX
        <4> QED BY <3>1, <3>3, <4>1, HoldIsAcquire DEF LockNewItem
      <3>4. CASE LockConvert(x, t, e)
        <4>1. Conv(e, held[t][x]) \in Mode /\ held[t][x] <= Conv(e, held[t][x])
          BY <3>1, ConvIsMax DEF Mode, NO, SX
        <4> QED BY <3>4, <4>1, HoldIsAcquire DEF LockConvert
      <3>5. CASE LockShare(x, t, e)
        <4>1. held[t][x] <= e
          BY <3>1, <3>5 DEF LockShare, IsHolder, Mode, NO, SX
        <4> QED BY <3>1, <3>5, <4>1, HoldIsAcquire DEF LockShare
      <3> QED BY <1>2, <3>2, <3>3, <3>4, <3>5
    <2>4. CASE Unlock(x)
      <3>1. PICK n \in [tables[x] -> 0 .. Cardinality(Trans)] :
               ReleaseWaking(x, tables[x], n)
        BY <2>4 DEF Unlock, Release
      <3>2. Releasing(x, tables[x], n)
        BY <1>0, <2>4, <3>1 DEF Unlock, Running, Releasing, TypeOK
      <3>3. \A t \in Table : held'[t][x] = 0
        <4>1. SUFFICES ASSUME NEW t \in Table PROVE held'[t][x] = 0
          OBVIOUS
        <4>2. x \notin Woken(tables[x], n, t)
          BY <3>2, WokenWaited DEF Woken
        <4>3. t \notin tables[x] => held[t][x] = NO
          BY DEF LockInv, ListsAgree, IsHolder
        <4> QED BY <3>2, <4>2, <4>3, ReleaseHeld DEF NO
      <3>4. \A y \in Trans \ {x} : Abstract!Keeps(y)
        BY <3>2, ReleaseKeeps DEF Abstract!Keeps
      <3>5. Abstract!End(x)
        BY <2>4, <3>3, <3>4 DEF Abstract!End, Unlock
      <3> QED BY <3>5, AbstractFrame DEF Abstract!Next
    <2>5. ASSUME NEW t \in SysTable, TableUnlock(x, t)
          PROVE  Abstract!Next
      <3>1. Release(x, {t}) /\ UNCHANGED <<active, want, waits>> /\ pc[x] = "out"
        BY <1>2, <2>5 DEF TableUnlock, Running
      <3>2. PICK n \in [{t} -> 0 .. Cardinality(Trans)] : ReleaseWaking(x, {t}, n)
        BY <3>1 DEF Release
      <3>3. {t} \in SUBSET Table
        BY LockMgrAssumption
      <3>4. Releasing(x, {t}, n)
        BY <3>1, <3>2, <3>3 DEF Releasing
      <3>5. \A u \in Table : x \notin Woken({t}, n, u)
        BY <3>4, WokenWaited DEF Woken
      <3>6. \A u \in Table : held'[u][x] = IF u = t THEN 0 ELSE held[u][x]
        <4>1. SUFFICES ASSUME NEW u \in Table
                       PROVE  held'[u][x] = IF u = t THEN 0 ELSE held[u][x]
          OBVIOUS
        <4>2. held'[u][x] = IF u \in {t} THEN NO ELSE held[u][x]
          BY <3>4, <3>5, ReleaseHeld
        <4> QED BY <4>2 DEF NO
      <3>7. \A y \in Trans \ {x} : Abstract!Keeps(y)
        BY <3>4, ReleaseKeeps DEF Abstract!Keeps
      <3>8. Abstract!Close(x, t)
        BY <3>1, <3>3, <3>6, <3>7 DEF Abstract!Close
      <3> QED BY <3>8, AbstractFrame DEF Abstract!Next
    <2> QED BY <1>2, <2>1, <2>2, <2>3, <2>4, <2>5
            DEF Step, Sleep, WaitEnds, Resume, LockGranted, LockTimedOut,
                LockWaitAgain, lockItem
  <1> QED BY <1>1, <1>2

\* The lock manager implements strict two-phase locking of tables.
THEOREM ImplementsTwoPhaseLocking == Spec => Refines
  <1>1. Init => Abstract!Init
    BY DEF Init, Abstract!Init, NO
  <1>2. LockInv /\ LockInv' /\ [Next]_vars => [Abstract!Next]_<<active, held>>
    BY RefinementStep
  <1> QED BY LockInvariant, <1>1, <1>2, PTL DEF Spec, Refines, Abstract!Spec

-----------------------------------------------------------------------------
(* Nobody is forgotten *)

\* A requestor that must wait must also wait when others' locks are no weaker.
LEMMA StrongerRefuses ==
  ASSUME NEW r \in Mode, NEW c \in Mode, NEW d \in Mode, c <= d, Comp(r, d)
  PROVE  Comp(r, c)
  BY CompIsSum DEF Mode, NO, SX

\* With nobody woken yet, the group mode is the group mode.
LEMMA WakeNone ==
  ASSUME NEW h \in [Trans -> Mode], NEW g \in Mode, NEW q
  PROVE  WakeMode(g, q, 0) = g /\ WakeHeld(h, q, 0) = h
  <1>1. FirstOf(q, 0) = {}
    BY DEF FirstOf
  <1>2. {g} \cup {want[x].mode : x \in FirstOf(q, 0)} = {g}
    BY <1>1
  <1>3. WakeMode(g, q, 0) = g
    BY <1>2 DEF WakeMode, Mode, NO, SX
  <1>4. WakeHeld(h, q, 0) = h
    BY <1>1 DEF WakeHeld
  <1> QED BY <1>3, <1>4

\* The head of the queue of t may be granted: the loop's test, spelled out.
Servable(t, x) ==
    \/ Comp(want[x].mode, granted[t])
    \/ want[x].upgrade /\ NoConflict(held[t], x, want[x].mode)

HeadsWait == \A t \in Table : queue[t] # << >> => ~Servable(t, queue[t][1])

LEMMA HeadGrantable ==
  ASSUME TypeOK, NEW t \in Table
  PROVE  Grantable(held[t], granted[t], queue[t], 1) <=> Servable(t, queue[t][1])
  <1>1. held[t] \in [Trans -> Mode] /\ granted[t] \in Mode
    BY DEF TypeOK
  <1>2. /\ WakeMode(granted[t], queue[t], 1 - 1) = granted[t]
        /\ WakeHeld(held[t], queue[t], 1 - 1) = held[t]
    BY <1>1, WakeNone
  <1> QED BY <1>2 DEF Grantable, Servable

LEMMA ForgottenIsServable == TypeOK => (NoneForgotten <=> (MaxWaits = 0 => HeadsWait))
  BY HeadGrantable DEF NoneForgotten, HeadsWait

\* A head that waits goes on waiting while it is the head, its request stays,
\* and no lock gets weaker.
LEMMA HeadStays ==
  ASSUME LockInv, TypeOK', HeadsWait, NEW t \in Table, queue[t] # << >>,
         want'[queue[t][1]] = want[queue[t][1]], granted[t] <= granted'[t],
         \A y \in Trans : held[t][y] <= held'[t][y], queue'[t][1] = queue[t][1]
  PROVE  ~Servable(t, queue[t][1])'
  <1>1. PICK x \in Trans : x = queue[t][1]
    BY DEF LockInv, TypeOK
  <1>2. /\ want[x].mode \in Mode /\ granted[t] \in Mode /\ granted'[t] \in Mode
        /\ \A y \in Trans : held[t][y] \in Mode /\ held'[t][y] \in Mode
    BY WantTyped DEF LockInv, TypeOK
  <1>3. ~Servable(t, x)
    BY <1>1 DEF HeadsWait
  <1>4. ~Comp(want[x].mode, granted'[t])
    BY <1>2, <1>3, StrongerRefuses DEF Servable
  <1>5. ASSUME want[x].upgrade,
               \A y \in Trans \ {x} : Comp(want[x].mode, held'[t][y])
        PROVE  FALSE
    <2>1. \A y \in Trans \ {x} : Comp(want[x].mode, held[t][y])
      BY <1>2, <1>5, StrongerRefuses
    <2> QED BY <1>3, <1>5, <2>1 DEF Servable, NoConflict
  <1> QED BY <1>1, <1>4, <1>5 DEF Servable, NoConflict

LEMMA QueuesStay ==
  ASSUME LockInv, TypeOK', HeadsWait, queue' = queue,
         \A t \in Table : granted[t] <= granted'[t],
         \A t \in Table, y \in Trans : held[t][y] <= held'[t][y],
         \A t \in Table : queue[t] # << >> =>
            want'[queue[t][1]] = want[queue[t][1]]
  PROVE  HeadsWait'
  <1>1. SUFFICES ASSUME NEW t \in Table, queue[t] # << >>
                 PROVE  ~Servable(t, queue[t][1])'
    BY DEF HeadsWait
  <1> QED BY <1>1, HeadStays

LEMMA ModesReflexive ==
  ASSUME TypeOK
  PROVE  /\ \A t \in Table : granted[t] <= granted[t]
         /\ \A t \in Table, y \in Trans : held[t][y] <= held[t][y]
  <1>1. /\ \A t \in Table : granted[t] \in Mode
        /\ \A t \in Table, y \in Trans : held[t][y] \in Mode
    BY DEF TypeOK
  <1> QED BY <1>1 DEF Mode, NO, SX

LEMMA HoldGrows ==
  ASSUME TypeOK, NEW x \in Trans, NEW t \in Table, NEW m \in Mode,
         held[t][x] <= m, Hold(t, x, m)
  PROVE  /\ \A u \in Table : granted[u] <= granted'[u]
         /\ \A u \in Table, y \in Trans : held[u][y] <= held'[u][y]
  <1>1. \A u \in Table : granted'[u] = IF u = t THEN Conv(m, granted[t]) ELSE granted[u]
    BY DEF Hold, TypeOK
  <1>2. granted[t] <= Conv(m, granted[t])
    <2>1. granted[t] \in Mode
      BY DEF TypeOK
    <2> QED BY <2>1, ConvIsMax DEF Mode, NO, SX
  <1>3. \A u \in Table, y \in Trans :
           held'[u][y] = IF u = t /\ y = x THEN m ELSE held[u][y]
    BY DEF Hold, TypeOK
  <1> QED BY <1>1, <1>2, <1>3, ModesReflexive

LEMMA EnqueueHeads ==
  ASSUME LockInv, TypeOK', HeadsWait, NEW x \in Trans, NEW t \in Table,
         NEW m \in Mode \ {NO}, LockEnqueue(x, t, m)
  PROVE  HeadsWait'
  <1> DEFINE new == Conv(m, held[t][x])
  <1>0. /\ TypeOK /\ held' = held /\ granted' = granted /\ GroupExact
        /\ WaitersQueued /\ ~Waiting(x)
    BY DEF LockInv, LockEnqueue, Running, Waiting
  <1>1. \A y \in Trans : y # x => want'[y] = want[y]
    BY <1>0 DEF LockEnqueue, TypeOK
  <1>2. ASSUME NEW u \in Table, queue[u] # << >>
        PROVE  queue[u][1] # x /\ queue[u][1] \in Trans
    <2>1. queue[u] \in Seq(Trans) /\ 1 \in 1 .. Len(queue[u])
      BY <1>0, <1>2 DEF TypeOK
    <2> QED BY <1>0, <2>1 DEF WaitersQueued, Queued
  <1>3. PICK i \in 1 .. Len(queue[t]) + 1 :
           /\ IsPlace(t, IsHolder(t, x), i)
           /\ queue' = [queue EXCEPT ![t] = InsertAt(@, i, x)]
    BY DEF LockEnqueue
  <1>4. queue[t] \in Seq(Trans) /\ Len(queue[t]) \in Nat
    BY <1>0 DEF TypeOK
  <1>5. /\ queue'[t] = InsertAt(queue[t], i, x)
        /\ \A u \in Table \ {t} : queue'[u] = queue[u]
    BY <1>0, <1>3 DEF TypeOK
  <1>10. \A j \in 1 .. Len(queue[t]) + 1 : InsertAt(queue[t], i, x)[j] =
            IF j < i THEN queue[t][j]
            ELSE IF j = i THEN x ELSE queue[t][j - 1]
    <2> DEFINE q == queue[t]
    <2>1. q \in Seq(Trans) /\ i \in 1 .. Len(q) + 1
      BY <1>3, <1>4
    <2> HIDE DEF q
    <2>2. \A j \in 1 .. Len(q) + 1 : InsertAt(q, i, x)[j] =
             IF j < i THEN q[j] ELSE IF j = i THEN x ELSE q[j - 1]
      BY <2>1, InsertAtFacts
    <2> QED BY <2>2 DEF q
  <1>6. SUFFICES ASSUME NEW u \in Table, queue'[u] # << >>
                 PROVE  ~Servable(u, queue[u][1])'
    BY DEF HeadsWait
  <1>7. CASE u # t
    <2>1. queue'[u] = queue[u]
      BY <1>5, <1>7
    <2> QED BY <1>0, <1>1, <1>2, <1>6, <2>1, HeadStays, ModesReflexive
  <1>8. CASE u = t /\ i # 1
    <2>1. 1 \in 1 .. Len(queue[t]) + 1 /\ 1 < i /\ Len(queue[t]) # 0
      BY <1>3, <1>4, <1>8
    <2>2. queue'[t][1] = queue[t][1] /\ queue[t] # << >>
      BY <1>5, <1>10, <2>1, EmptySeq
    <2> QED BY <1>0, <1>1, <1>2, <1>8, <2>2, HeadStays, ModesReflexive
  <1>9. CASE u = t /\ i = 1
    <2>1. queue'[t][1] = x
      <3>1. 1 \in 1 .. Len(queue[t]) + 1
        BY <1>4
      <3> QED BY <1>5, <1>9, <1>10, <3>1
    <2>2. want'[x].mode = new /\ want'[x].upgrade = IsHolder(t, x)
      BY <1>0 DEF LockEnqueue, TypeOK
    <2>3. /\ held[t] \in [Trans -> Mode] /\ granted[t] \in Mode
          /\ \A y \in Trans : held[t][y] <= granted[t]
          /\ new = IF m <= held[t][x] THEN held[t][x] ELSE m
      BY <1>0, ConvIsMax DEF TypeOK, GroupExact
    <2>4. new \in Mode
      BY <2>3
    <2>5. CASE IsHolder(t, x)
      <3>1. ~NoConflict(held[t], x, new)
        BY <2>5 DEF LockEnqueue, Conflicts
      <3>2. ~Comp(new, granted[t])
        <4> HIDE DEF new
        <4> QED BY <2>3, <2>4, <3>1, StrongerRefuses DEF NoConflict
      <3> QED BY <1>0, <1>9, <2>1, <2>2, <3>1, <3>2 DEF Servable, NoConflict
    <2>6. CASE ~IsHolder(t, x)
      <3>1. new = m
        BY <2>3, <2>6 DEF IsHolder, Mode, NO, SX
      <3>2. Len(queue[t]) = 0
        BY <1>3, <1>4, <1>9, <2>6 DEF IsPlace
      <3>3. ~Comp(m, granted[t])
        BY <2>6, <3>2 DEF LockEnqueue, Conflicts, NoConflictNew
      <3> HIDE DEF new
      <3> QED BY <1>0, <1>9, <2>1, <2>2, <2>6, <3>1, <3>3 DEF Servable
    <2> QED BY <2>5, <2>6
  <1> QED BY <1>7, <1>8, <1>9

LEMMA ReleaseHeads ==
  ASSUME NEW x, NEW T, NEW n, Releasing(x, T, n), TypeOK', HeadsWait
  PROVE  HeadsWait'
  <1>0. TypeOK /\ want' = want /\ T \in SUBSET Table /\ x \in Trans /\ LockInv
    BY DEF Releasing, LockInv
  <1>1. SUFFICES ASSUME NEW t \in Table, queue'[t] # << >>
                 PROVE  ~Servable(t, queue[t][1])'
    BY DEF HeadsWait
  <1>2. CASE t \notin T
    <2>1. queue'[t] = queue[t] /\ held'[t] = held[t] /\ granted'[t] = granted[t]
      BY <1>2 DEF Releasing, ReleaseWaking
    <2> QED BY <1>0, <1>1, <2>1 DEF HeadsWait, Servable, NoConflict
  <1>3. CASE t \in T
    <2> DEFINE q == queue[t]
               rest == Without(held[t], x)
               g == GroupMode(rest)
    <2>1. n[t] \in Nat /\ n[t] <= Len(q)
      BY <1>3, WokenWaited
    <2>2. /\ Len(queue'[t]) = Len(q) - n[t] /\ Len(queue'[t]) \in Nat
          /\ \A i \in 1 .. Len(queue'[t]) : queue'[t][i] = q[i + n[t]]
      BY <1>3, ReleaseQueue
    <2>3. Len(queue'[t]) # 0
      <3>1. queue'[t] \in Seq(Trans)
        BY DEF TypeOK
      <3> QED BY <1>1, <3>1, EmptySeq
    <2>4. Len(q) \in Nat
      <3>1. q \in Seq(Trans)
        BY <1>0 DEF TypeOK
      <3> QED BY <3>1
    <2>5. n[t] < Len(q) /\ queue'[t][1] = q[n[t] + 1]
      <3>1. 1 \in 1 .. Len(queue'[t]) /\ 1 + n[t] = n[t] + 1
        BY <2>1, <2>2, <2>3
      <3> QED BY <2>1, <2>2, <2>4, <3>1
    <2>6. ~Grantable(rest, g, q, n[t] + 1)
      BY <1>3, <2>5 DEF Releasing, ReleaseWaking, Wakes
    <2>7. /\ held'[t] = WakeHeld(rest, q, n[t])
          /\ granted'[t] = WakeMode(g, q, n[t])
      BY <1>3 DEF Releasing, ReleaseWaking
    <2>8. (n[t] + 1) - 1 = n[t]
      BY <2>1
    <2> DEFINE y == q[n[t] + 1]
    <2>9. /\ ~Comp(want[y].mode, granted'[t])
          /\ ~(want[y].upgrade /\ NoConflict(held'[t], y, want[y].mode))
      <3>1. ~(\/ Comp(want[y].mode, WakeMode(g, q, n[t]))
              \/ /\ want[y].upgrade
                 /\ NoConflict(WakeHeld(rest, q, n[t]), y, want[y].mode))
        <4> HIDE DEF rest, g, q
        <4> QED BY <2>6, <2>8 DEF Grantable, y
      <3> HIDE DEF rest, g, q, y
      <3> QED BY <2>7, <3>1
    <2>10. queue'[t][1] = y /\ want' = want
      BY <1>0, <2>5
    <2> HIDE DEF y
    <2> QED BY <2>9, <2>10 DEF Servable, NoConflict
  <1> QED BY <1>2, <1>3

LEMMA HeadsStep ==
  ASSUME LockInv, MaxWaits = 0, HeadsWait, [Next]_vars
  PROVE  HeadsWait'
  <1>0. /\ TypeOK /\ TypeOK' /\ WaitersQueued /\ ItemsExact
        /\ \A t \in Table : queue[t] # << >> =>
              queue[t][1] \in Trans /\ Waiting(queue[t][1])
    <2>1. TypeOK /\ TypeOK' /\ WaitersQueued /\ ItemsExact
      BY TypeStep DEF LockInv
    <2>2. ASSUME NEW t \in Table, queue[t] # << >>
          PROVE  queue[t][1] \in Trans /\ Waiting(queue[t][1])
      <3>1. queue[t] \in Seq(Trans) /\ 1 \in 1 .. Len(queue[t])
        BY <2>1, <2>2 DEF TypeOK
      <3> QED BY <2>1, <3>1 DEF WaitersQueued, Queued
    <2> QED BY <2>1, <2>2
  <1>1. ASSUME UNCHANGED <<held, granted, queue, want>>
        PROVE  HeadsWait'
    BY <1>0, <1>1, QueuesStay, ModesReflexive
  <1>2. CASE UNCHANGED vars
    BY <1>1, <1>2 DEF vars
  <1>3. ASSUME NEW x \in Trans, Step(x) PROVE HeadsWait'
    <2>1. CASE Begin(x) \/ Sleep(x) \/ WaitEnds(x) \/ LockWaitAgain(x)
      BY <1>1, <2>1 DEF Begin, Sleep, WaitEnds, LockWaitAgain, lockItem, waiter
    <2>2. ASSUME NEW t \in Table, NEW m \in ReqModes, Lock(x, t, Effective(x, m))
          PROVE  HeadsWait'
      <3> DEFINE e == Effective(x, m)
      <3>1. e \in Mode \ {NO} /\ held[t][x] \in Mode
        BY <1>0, EffectiveTyped DEF TypeOK
      <3> HIDE DEF e
      <3>2. Lock(x, t, e)
        BY <2>2 DEF e
      <3>3. ASSUME NEW k \in Mode, held[t][x] <= k, Hold(t, x, k),
                   UNCHANGED <<queue, want>>
            PROVE  HeadsWait'
        BY <1>0, <3>3, HoldGrows, QueuesStay
      <3>4. CASE LockNewItem(x, t, e)
        <4>1. held[t][x] <= e
          BY <1>0, <3>1, <3>4 DEF LockNewItem, ItemsExact, IsHolder, Mode, NO, SX
        <4> QED BY <3>1, <3>3, <3>4, <4>1 DEF LockNewItem, waiter
      <3>5. CASE LockConvert(x, t, e)
        <4>1. Conv(e, held[t][x]) \in Mode /\ held[t][x] <= Conv(e, held[t][x])
          BY <3>1, ConvIsMax DEF Mode, NO, SX
        <4> QED BY <3>3, <3>5, <4>1 DEF LockConvert, waiter
      <3>6. CASE LockShare(x, t, e)
        <4>1. held[t][x] <= e
          BY <3>1, <3>6 DEF LockShare, IsHolder, Mode, NO, SX
        <4> QED BY <3>1, <3>3, <3>6, <4>1 DEF LockShare, waiter
      <3>7. CASE LockEnqueue(x, t, e)
        BY <1>0, <3>1, <3>7, EnqueueHeads
      <3>8. CASE LockAgain(x, t, e) \/ LockDeadlock(x, t, e)
        BY <1>1, <3>8 DEF LockAgain, LockDeadlock, waiter, vars
      <3> QED BY <3>2, <3>4, <3>5, <3>6, <3>7, <3>8 DEF Lock
    <2>3. CASE LockGranted(x)
      <3>1. /\ UNCHANGED <<held, granted, queue>> /\ ~Waiting(x)
            /\ \A y \in Trans : y # x => want'[y] = want[y]
        BY <1>0, <2>3 DEF LockGranted, lockItem, Waiting, TypeOK
      <3> QED BY <1>0, <3>1, QueuesStay, ModesReflexive
    <2>4. CASE LockTimedOut(x)
      BY <2>4 DEF LockTimedOut
    <2>5. CASE Unlock(x)
      <3>1. PICK n \in [tables[x] -> 0 .. Cardinality(Trans)] :
               ReleaseWaking(x, tables[x], n)
        BY <2>5 DEF Unlock, Release
      <3>2. Releasing(x, tables[x], n)
        BY <1>0, <2>5, <3>1 DEF Unlock, Running, Releasing, TypeOK
      <3> QED BY <1>0, <3>2, ReleaseHeads
    <2>6. ASSUME NEW t \in SysTable, TableUnlock(x, t) PROVE HeadsWait'
      <3>1. CASE count[t][x] > 1
        BY <1>1, <2>6, <3>1 DEF TableUnlock, waiter
      <3>2. CASE ~(count[t][x] > 1)
        <4>1. Release(x, {t}) /\ UNCHANGED <<active, want, waits>> /\ pc[x] = "out"
          BY <2>6, <3>2 DEF TableUnlock, Running
        <4>2. PICK n \in [{t} -> 0 .. Cardinality(Trans)] : ReleaseWaking(x, {t}, n)
          BY <4>1 DEF Release
        <4>3. {t} \in SUBSET Table
          BY LockMgrAssumption
        <4>4. Releasing(x, {t}, n)
          BY <4>1, <4>2, <4>3 DEF Releasing
        <4> QED BY <1>0, <4>4, ReleaseHeads
      <3> QED BY <3>1, <3>2
    <2> QED BY <1>3, <2>1, <2>2, <2>3, <2>4, <2>5, <2>6 DEF Step, Resume
  <1> QED BY <1>2, <1>3 DEF Next

\* Without a lock timeout no requestor is left waiting for a lock that is free.
THEOREM NobodyForgotten == Spec => []NoneForgotten
  <1>1. Init => (MaxWaits = 0 => HeadsWait)
    BY DEF Init, HeadsWait
  <1>2. LockInv /\ (MaxWaits = 0 => HeadsWait) /\ [Next]_vars
          => (MaxWaits = 0 => HeadsWait)'
    BY HeadsStep
  <1>3. LockInv /\ (MaxWaits = 0 => HeadsWait) => NoneForgotten
    BY ForgottenIsServable DEF LockInv
  <1> QED BY LockInvariant, <1>1, <1>2, <1>3, PTL DEF Spec

=============================================================================
