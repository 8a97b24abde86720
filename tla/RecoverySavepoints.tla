------------------------ MODULE RecoverySavepoints ------------------------
(***************************************************************************)
(* For every number of items, transactions and log records, and whatever   *)
(* Faults allows: a rollback of a statement gives every item the value it  *)
(* had when the statement began (TransMgr_Implicit_Savepoint,              *)
(* TransMgr_Implicit_Partial_Rollback, LogRec_Undo).                       *)
(*                                                                         *)
(* The transaction may have changed an item several times since its save   *)
(* point, and earlier rollbacks have left updates in the log that are no   *)
(* longer on its chain.  What is invariant relates three things: the first *)
(* update of the item since the save point, the first of those that are    *)
(* still to be undone, and the item in memory.                             *)
(***************************************************************************)
EXTENDS RecoveryProofs

FirstOf(S, m) == m \in S /\ \A x \in S : m <= x

\* The updates of item i since the save point of the transaction with slot t,
\* and those on the chain from c.
Updates(L, N, t, i) ==
    {n \in 1 .. N : /\ n > t.save /\ n >= t.first
                    /\ L[n].type = "UPDATE" /\ L[n].trans = t.id /\ L[n].item = i}
Pending(L, N, t, c, i) ==
    {n \in ChainIn(L, N, c) : n > t.save /\ L[n].type = "UPDATE" /\ L[n].item = i}

\* Undoing the pending updates of i, which has value v, gives the value before
\* its first update.
Restores(L, N, t, c, i, v) ==
    \A m : FirstOf(Updates(L, N, t, i), m) =>
       /\ Pending(L, N, t, c, i) = {} => L[m].before = v
       /\ \A d : FirstOf(Pending(L, N, t, c, i), d) => L[m].before = L[d].before

\* The chain from c is of the transaction with slot t, which has no record after
\* the last that it names, and holds the locks of what it has changed.
Mine(L, N, t, c) == \A n \in ChainIn(L, N, c) : n >= t.first /\ L[n].trans = t.id
NoneLater(L, N, t) == \A n \in t.last + 1 .. N : OfTrans(L[n]) => L[n].trans # t.id
Locked(L, N, t, s, locks) ==
    \A n \in 1 .. N : n >= t.first /\ L[n].type = "UPDATE" /\ L[n].trans = t.id =>
       locks[L[n].item] = s

\* All this for slot s, whose transaction goes on from record c, with work w.
Kept(L, N, t, s, w, c, values, locks) ==
    /\ t.save # NoSave => t.first # 0
    /\ t.first # 0 =>
         /\ Mine(L, N, t, t.last) /\ NoneLater(L, N, t)
         /\ Ending(w, s) \/ Locked(L, N, t, s, locks)
         /\ \/ t.save = NoSave \/ Ending(w, s) \/ Aborting(w, s)
            \/ \A i \in Items : Restores(L, N, t, c, i, values[i])
At(t, s, w) == IF w.op = "partial" /\ w.slot = s THEN w.next ELSE t.last
SaveInv ==
    /\ \A s \in Slot : Kept(log, End, trans[s], s, work, At(trans[s], s, work), mem, owner)
    /\ work.op \in {"partial", "abort"} =>
         /\ Mine(log, End, trans[work.slot], work.next)
         /\ trans[work.slot].first # 0 \/ work.next = 0

-----------------------------------------------------------------------------

LEMMA UpdateFields ==
    ASSUME NEW L, NEW N, IsLog(L, N), NEW n \in 1 .. N, L[n].type = "UPDATE"
    PROVE  OfTrans(L[n]) /\ L[n].item \in Items /\ LinkOk(L, L[n], n)
<1>1. OfTrans(L[n])
  BY DEF OfTrans
<1>2. L[n] \in Record /\ LinkOk(L, L[n], n)
  BY <1>1, LogFacts
<1> QED
  BY <1>1, <1>2, RecordFields

LEMMA ChainInside ==
    ASSUME NEW L, NEW N, IsLog(L, N), NEW c \in 0 .. N
    PROVE  N \in Nat /\ ChainIn(L, N, c) \subseteq 1 .. c /\ ChainIn(L, N, c) \subseteq 1 .. N
<1>1. N \in Nat /\ Linked(L, N)
  BY LogFacts
<1>2. ChainIn(L, N, c) \subseteq 1 .. c
  BY <1>1, ChainBelow
<1> QED
  BY <1>1, <1>2

\* What is kept for a slot is kept by the steps of others: they write no record
\* of its transaction and change no item that it has locked.
LEMMA KeptByOthers ==
    ASSUME IsLog(log, End), Grows, NEW t, NEW c \in 0 .. End, t.last \in 0 .. End, NEW s,
           \A n \in End + 1 .. End' : OfTrans(log'[n]) => log'[n].trans # t.id,
           Ending(work, s) => Ending(work', s), Aborting(work, s) => Aborting(work', s),
           \A i \in Items : owner[i] = s => owner'[i] = s /\ mem'[i] = mem[i],
           Kept(log, End, t, s, work, c, mem, owner)
    PROVE  Kept(log', End', t, s, work', c, mem', owner')
<1>0. IsLog(log', End') /\ End <= End' /\ Agree(log, log', End)
  BY DEF Grows
<1>1. End \in Nat /\ End' \in Nat /\ \A n \in 1 .. End : log'[n] = log[n]
  BY <1>0, LogFacts DEF Agree
<1>2. SUFFICES ASSUME t.first # 0
               PROVE  /\ Mine(log', End', t, t.last) /\ NoneLater(log', End', t)
                      /\ Ending(work', s) \/ Locked(log', End', t, s, owner')
                      /\ \/ t.save = NoSave \/ Ending(work', s) \/ Aborting(work', s)
                         \/ \A i \in Items : Restores(log', End', t, c, i, mem'[i])
  BY DEF Kept
<1>3. /\ Mine(log, End, t, t.last) /\ NoneLater(log, End, t)
      /\ Ending(work, s) \/ Locked(log, End, t, s, owner)
      /\ \/ t.save = NoSave \/ Ending(work, s) \/ Aborting(work, s)
         \/ \A i \in Items : Restores(log, End, t, c, i, mem[i])
  BY <1>2 DEF Kept
<1>4. Mine(log', End', t, t.last)
  <2>1. ChainIn(log', End', t.last) = ChainIn(log, End, t.last) /\ ChainIn(log, End, t.last) \subseteq 1 .. End
    BY <1>0, ChainGrown, ChainInside
  <2> QED
    BY <1>1, <1>3, <2>1 DEF Mine
<1>5. NoneLater(log', End', t)
  BY <1>1, <1>3 DEF NoneLater
<1>6. \A n \in 1 .. End' : log'[n].type = "UPDATE" /\ log'[n].trans = t.id => n \in 1 .. End
  BY <1>0, <1>1, UpdateFields
<1>7. ASSUME ~Ending(work', s) PROVE Locked(log', End', t, s, owner')
  <2>1. Locked(log, End, t, s, owner)
    BY <1>3, <1>7
  <2> SUFFICES ASSUME NEW n \in 1 .. End', n >= t.first, log'[n].type = "UPDATE", log'[n].trans = t.id
               PROVE  owner'[log'[n].item] = s
    BY DEF Locked
  <2>2. n \in 1 .. End /\ log'[n] = log[n]
    BY <1>1, <1>6
  <2>3. owner[log[n].item] = s /\ log[n].item \in Items
    BY <2>1, <2>2, UpdateFields DEF Locked
  <2> QED
    BY <2>2, <2>3
<1>8. ASSUME NEW i \in Items, ~Ending(work', s), Restores(log, End, t, c, i, mem[i])
      PROVE  Restores(log', End', t, c, i, mem'[i])
  <2>1. Updates(log', End', t, i) = Updates(log, End, t, i)
    BY <1>0, <1>1, <1>6 DEF Updates
  <2>2. ChainIn(log', End', c) = ChainIn(log, End, c) /\ ChainIn(log, End, c) \subseteq 1 .. End
    BY <1>0, ChainGrown, ChainInside
  <2>3. Pending(log', End', t, c, i) = Pending(log, End, t, c, i) /\ Pending(log, End, t, c, i) \subseteq 1 .. End
    BY <1>1, <2>2 DEF Pending
  <2>4. \A m \in Updates(log, End, t, i) : m \in 1 .. End /\ owner[i] = s
    BY <1>3, <1>8 DEF Updates, Locked
  <2> QED
    BY <1>1, <1>8, <2>1, <2>3, <2>4 DEF Restores, FirstOf
<1> QED
  BY <1>3, <1>4, <1>5, <1>7, <1>8

\* An item is changed and the update logged at the end of the log, whose chain
\* goes on from the slot's: the update is the first both of the logged and of
\* the pending ones, or of neither.
LEMMA KeptByUpdate ==
    ASSUME IsLog(log, End), Grows, End < End',
           NEW s, NEW t, t.last \in 0 .. End, t.first \in 0 .. t.last, t.first = 0 <=> t.last = 0,
           t.save \in NoSave .. t.last, ~Ending(work, s), ~Aborting(work, s), work' = work,
           Kept(log, End, t, s, work, t.last, mem, owner),
           NEW u, u.id = t.id, u.last = End', u.first = IF t.first = 0 THEN End + 1 ELSE t.first,
           u.save = t.last \/ (u.save = t.save /\ t.save # NoSave),
           NEW i \in Items, log'[End'].type = "UPDATE", log'[End'].trans = t.id,
           log'[End'].item = i, log'[End'].before = mem[i],
           \A n \in End + 1 .. End' : log'[n].trans = t.id /\ (n # End' => log'[n].type = "TRANS_BEGIN"),
           ChainIn(log', End', End') = (End + 1 .. End') \cup ChainIn(log, End, t.last),
           \A j \in Items \ {i} : mem'[j] = mem[j],
           owner' = [owner EXCEPT ![i] = s], owner \in [Items -> Slot \cup {0}]
    PROVE  Kept(log', End', u, s, work', End', mem', owner')
<1>0. IsLog(log', End') /\ End <= End' /\ Agree(log, log', End)
  BY DEF Grows
<1>1. End \in Nat /\ End' \in Nat /\ \A n \in 1 .. End : log'[n] = log[n]
  BY <1>0, LogFacts DEF Agree
<1>2. ChainIn(log, End, t.last) \subseteq 1 .. t.last /\ (t.last = 0 => ChainIn(log, End, t.last) = {})
  BY ChainInside, LogFacts
<1>3. t.first # 0 => Mine(log, End, t, t.last) /\ NoneLater(log, End, t) /\ Locked(log, End, t, s, owner)
  BY DEF Kept
<1>4. u.first \in 1 .. End' /\ u.save \in Int /\ u.save < End'
  BY <1>0, <1>1 DEF NoSave
<1>5. Mine(log', End', u, End')
  <2> SUFFICES ASSUME NEW n \in ChainIn(log', End', End') PROVE n >= u.first /\ log'[n].trans = u.id
    BY DEF Mine
  <2>1. CASE n \in End + 1 .. End'
    BY <1>0, <1>1, <2>1
  <2>2. CASE n \in ChainIn(log, End, t.last)
    <3>1. n \in 1 .. End /\ t.first # 0
      BY <1>0, <1>1, <1>2, <2>2
    <3> QED
      BY <1>0, <1>1, <1>3, <2>2, <3>1 DEF Mine
  <2> QED
    BY <2>1, <2>2
<1>6. NoneLater(log', End', u)
  <2>1. \A e \in Nat : e + 1 .. e = {}
    OBVIOUS
  <2> QED
    BY <1>1, <2>1 DEF NoneLater
<1>7. Locked(log', End', u, s, owner')
  <2> SUFFICES ASSUME NEW n \in 1 .. End', n >= u.first, log'[n].type = "UPDATE", log'[n].trans = u.id
               PROVE  owner'[log'[n].item] = s
    BY DEF Locked
  <2>1. CASE n \in 1 .. End
    <3>1. t.first # 0 /\ log'[n] = log[n]
      BY <1>0, <1>1, <2>1
    <3>2. owner[log[n].item] = s /\ log[n].item \in Items
      BY <1>3, <2>1, <3>1, UpdateFields DEF Locked
    <3> QED
      BY <3>1, <3>2
  <2>2. CASE n \in End + 1 .. End'
    <3>1. n = End'
      BY <1>0, <1>1, <2>2
    <3> QED
      BY <3>1
  <2> QED
    BY <1>0, <1>1, <2>1, <2>2
<1>8. ASSUME NEW j \in Items, u.save = t.last
      PROVE  Restores(log', End', u, End', j, mem'[j])
  <2>1. \A n \in Updates(log', End', u, j) : n = End' /\ j = i
    <3> SUFFICES ASSUME NEW n \in Updates(log', End', u, j) PROVE n = End' /\ j = i
      OBVIOUS
    <3>1. n \in 1 .. End' /\ n > t.last /\ n >= u.first /\ log'[n].type = "UPDATE"
          /\ log'[n].trans = t.id /\ log'[n].item = j
      BY <1>8 DEF Updates
    <3>2. n \notin 1 .. End
      <4> SUFFICES ASSUME n \in 1 .. End PROVE FALSE
        OBVIOUS
      <4>1. t.first # 0 /\ n \in t.last + 1 .. End /\ log[n].type = "UPDATE" /\ log[n].trans = t.id
        BY <1>0, <1>1, <3>1
      <4>2. OfTrans(log[n])
        BY <4>1, UpdateFields
      <4> QED
        BY <1>3, <4>1, <4>2 DEF NoneLater
    <3> QED
      BY <1>0, <1>1, <3>1, <3>2
  <2>2. End' \in Pending(log', End', u, End', i)
    BY <1>0, <1>1, <1>8 DEF Pending
  <2>3. \A d \in Pending(log', End', u, End', i) : d = End'
    BY <1>0, <1>1, <1>2, <1>8 DEF Pending
  <2> QED
    BY <2>1, <2>2, <2>3 DEF Restores, FirstOf
<1>9. ASSUME NEW j \in Items, u.save = t.save, t.save # NoSave
      PROVE  Restores(log', End', u, End', j, mem'[j])
  <2>0. t.first # 0 /\ u.first = t.first /\ t.last \in 1 .. End
    BY <1>0, <1>1, <1>9 DEF Kept
  <2>1. Restores(log, End, t, t.last, j, mem[j])
    BY <1>9, <2>0 DEF Kept
  <2>2. \A n \in 1 .. End : n \in Updates(log', End', u, j) <=> n \in Updates(log, End, t, j)
    BY <1>0, <1>1, <1>9, <2>0 DEF Updates
  <2>3. \A n \in Updates(log', End', u, j) : n \in 1 .. End'
    BY DEF Updates
  <2>4. \A n \in Updates(log', End', u, j) : n \in 1 .. End \/ (n = End' /\ j = i)
    BY <1>0, <1>1 DEF Updates
  <2>5. \A n \in 1 .. End : n \in Pending(log', End', u, End', j) <=> n \in Pending(log, End, t, t.last, j)
    BY <1>0, <1>1, <1>9 DEF Pending
  <2>6. \A n \in Pending(log', End', u, End', j) : n \in 1 .. End \/ (n = End' /\ j = i)
    BY <1>0, <1>1, <1>2 DEF Pending
  <2>7. Pending(log, End, t, t.last, j) \subseteq Updates(log, End, t, j)
    <3> SUFFICES ASSUME NEW n \in Pending(log, End, t, t.last, j) PROVE n \in Updates(log, End, t, j)
      OBVIOUS
    <3>1. n \in ChainIn(log, End, t.last) /\ n > t.save /\ log[n].type = "UPDATE" /\ log[n].item = j
      BY DEF Pending
    <3>2. n \in 1 .. End /\ n >= t.first /\ log[n].trans = t.id
      BY <1>0, <1>1, <1>2, <1>3, <2>0, <3>1 DEF Mine
    <3> QED
      BY <3>1, <3>2 DEF Updates
  <2>8. CASE j # i
    <3>1. Updates(log', End', u, j) = Updates(log, End, t, j) /\ Updates(log, End, t, j) \subseteq 1 .. End
      BY <2>2, <2>4, <2>8 DEF Updates
    <3>2. Pending(log', End', u, End', j) = Pending(log, End, t, t.last, j)
          /\ Pending(log, End, t, t.last, j) \subseteq 1 .. End
      BY <2>5, <2>6, <2>7, <2>8, <3>1
    <3>3. mem'[j] = mem[j]
      BY <2>8
    <3> QED
      BY <1>0, <1>1, <2>1, <3>1, <3>2, <3>3 DEF Restores, FirstOf
  <2>9. CASE j = i
    <3>1. End' \in Pending(log', End', u, End', i) /\ log'[End'].before = mem[i]
      BY <1>0, <1>1, <1>4 DEF Pending
    <3> SUFFICES ASSUME NEW m, FirstOf(Updates(log', End', u, i), m),
                        NEW d, FirstOf(Pending(log', End', u, End', i), d)
                 PROVE  log'[m].before = log'[d].before
      BY <2>9, <3>1 DEF Restores
    <3>2. CASE Updates(log, End, t, i) = {}
      <4>1. m = End' /\ d = End'
        BY <2>2, <2>4, <2>5, <2>6, <2>7, <2>9, <3>2 DEF FirstOf
      <4> QED
        BY <4>1
    <3>3. CASE Updates(log, End, t, i) # {}
      <4>1. PICK x \in 1 .. End : x \in Updates(log, End, t, i)
        BY <3>3 DEF Updates
      <4>2. m \in 1 .. End
        <5>1. m \in Updates(log', End', u, i) /\ x \in Updates(log', End', u, i)
          BY <2>2, <2>9, <4>1 DEF FirstOf
        <5>2. m <= x /\ m \in 1 .. End' /\ (m \in 1 .. End \/ m = End')
          BY <2>3, <2>4, <2>9, <5>1 DEF FirstOf
        <5> QED
          BY <1>0, <1>1, <5>2
      <4>3. FirstOf(Updates(log, End, t, i), m) /\ log'[m] = log[m]
        <5>1. \A y \in Updates(log, End, t, i) : y \in 1 .. End
          BY DEF Updates
        <5> QED
          BY <1>0, <1>1, <2>2, <2>9, <4>2, <5>1 DEF FirstOf
      <4>4. CASE Pending(log, End, t, t.last, i) = {}
        <5>1. d = End'
          BY <2>5, <2>6, <2>9, <4>4 DEF FirstOf
        <5>2. log[m].before = mem[i]
          BY <2>1, <2>9, <4>3, <4>4 DEF Restores
        <5> QED
          BY <3>1, <4>3, <5>1, <5>2
      <4>5. CASE Pending(log, End, t, t.last, i) # {}
        <5>1. PICK y \in 1 .. End : y \in Pending(log, End, t, t.last, i)
          <6>1. Updates(log, End, t, i) \subseteq 1 .. End
            BY DEF Updates
          <6> QED
            BY <2>7, <2>9, <4>5, <6>1
        <5>2. d \in 1 .. End
          <6>1. d \in Pending(log', End', u, End', i) /\ y \in Pending(log', End', u, End', i)
            BY <2>5, <2>9, <5>1 DEF FirstOf
          <6>2. d <= y /\ (d \in 1 .. End \/ d = End')
            BY <2>6, <2>9, <6>1 DEF FirstOf
          <6> QED
            BY <1>0, <1>1, <6>2
        <5>3. FirstOf(Pending(log, End, t, t.last, i), d) /\ log'[d] = log[d]
          <6>1. \A z \in Pending(log, End, t, t.last, i) : z \in 1 .. End
            BY <2>7, <2>9 DEF Updates
          <6>2. \A z \in Pending(log, End, t, t.last, i) : z \in Pending(log', End', u, End', i)
            BY <2>5, <2>9, <6>1
          <6>3. d \in Pending(log, End, t, t.last, i)
            BY <2>5, <2>9, <5>2 DEF FirstOf
          <6> QED
            BY <1>0, <1>1, <5>2, <6>2, <6>3 DEF FirstOf
        <5> QED
          BY <2>1, <2>9, <4>3, <5>3 DEF Restores
      <4> QED
        BY <4>4, <4>5
    <3> QED
      BY <3>2, <3>3
  <2> QED
    BY <2>8, <2>9
<1> QED
  BY <1>4, <1>5, <1>6, <1>7, <1>8, <1>9 DEF Kept

-----------------------------------------------------------------------------
(* Steps *)

LEMMA AtLogged ==
    ASSUME Inv, NEW s \in Slot
    PROVE  /\ trans[s].last \in 0 .. End /\ trans[s].first \in 0 .. trans[s].last
           /\ trans[s].first = 0 <=> trans[s].last = 0
           /\ At(trans[s], s, work) \in 0 .. End /\ End \in Nat /\ IsLog(log, End)
<1>1. SlotOk(log, End, trans[s], s, work) /\ End \in Nat /\ IsLog(log, End)
  BY Sizes DEF Inv, SlotInv, LogInv
<1>2. work.op = "partial" /\ work.slot = s => work.next \in 0 .. trans[s].last
  BY DEF Inv, WorkInv, WorkOk
<1> QED
  BY <1>1, <1>2 DEF SlotOk, At

\* Transactions that run at the same time have different ids.
LEMMA IdsDiffer ==
    ASSUME Inv, NEW s \in Slot, NEW u \in Slot \ {s}, trans[s].id # 0
    PROVE  trans[u].id # trans[s].id
BY DEF Inv, SlotInv, SlotOk

\* A slot that a step leaves alone.
LEMMA Untouched ==
    ASSUME Inv, SaveInv, Grows, NEW s \in Slot, trans'[s] = trans[s],
           \A n \in End + 1 .. End' : OfTrans(log'[n]) => log'[n].trans # trans[s].id,
           Ending(work, s) => Ending(work', s), Aborting(work, s) => Aborting(work', s),
           At(trans[s], s, work') = At(trans[s], s, work),
           \A i \in Items : owner[i] = s => owner'[i] = s /\ mem'[i] = mem[i]
    PROVE  Kept(log', End', trans'[s], s, work', At(trans'[s], s, work'), mem', owner')
<1> DEFINE t == trans[s]
           c == At(t, s, work)
<1>1. t.last \in 0 .. End /\ c \in 0 .. End /\ IsLog(log, End)
  BY AtLogged
<1>2. Kept(log, End, t, s, work, c, mem, owner)
  BY DEF SaveInv
<1>3. trans'[s] = t /\ At(trans'[s], s, work') = c
  OBVIOUS
<1>4. \A n \in End + 1 .. End' : OfTrans(log'[n]) => log'[n].trans # t.id
  OBVIOUS
<1> HIDE DEF t, c
<1>5. Kept(log', End', t, s, work', c, mem', owner')
  BY <1>1, <1>2, <1>4, KeptByOthers
<1> QED
  BY <1>3, <1>5

\* What is undone stays what it is as the log grows.
LEMMA MineGrown ==
    ASSUME Grows, IsLog(log, End), NEW t, NEW u, u.id = t.id, u.first = t.first,
           NEW c \in 0 .. End, Mine(log, End, t, c)
    PROVE  Mine(log', End', u, c)
<1>1. ChainIn(log', End', c) = ChainIn(log, End, c) /\ ChainIn(log, End, c) \subseteq 1 .. End
  BY ChainGrown, ChainInside DEF Grows
<1> QED
  BY <1>1 DEF Mine, Grows, Agree

LEMMA UndoingKept ==
    ASSUME Inv, SaveInv, Grows, UNCHANGED work,
           work.op \in {"partial", "abort"} => trans'[work.slot] = trans[work.slot]
    PROVE  work'.op \in {"partial", "abort"} =>
             /\ Mine(log', End', trans'[work'.slot], work'.next)
             /\ trans'[work'.slot].first # 0 \/ work'.next = 0
<1> SUFFICES ASSUME work.op \in {"partial", "abort"}
             PROVE  /\ Mine(log', End', trans[work.slot], work.next)
                    /\ trans[work.slot].first # 0 \/ work.next = 0
  BY DEF SaveInv
<1>1. work.next \in 0 .. End
  <2>1. work.slot \in Slot /\ work.next \in 0 .. trans[work.slot].last
    BY DEF Inv, WorkInv, WorkOk
  <2> QED
    BY <2>1, AtLogged
<1>2. Mine(log', End', trans[work.slot], work.next)
  BY <1>1, MineGrown DEF SaveInv, Inv, LogInv
<1> QED
  BY <1>2 DEF SaveInv

\* Nothing has been written for an empty slot or a new transaction.
LEMMA NothingWritten ==
    ASSUME NEW L, NEW N, NEW t, t.first = 0, t.save = NoSave, NEW s, NEW w, NEW c,
           NEW values, NEW locks
    PROVE  Kept(L, N, t, s, w, c, values, locks)
BY DEF Kept

\* Steps that leave items, locks and transactions alone and write at most
\* records of checkpoints.
LEMMA NoTransactionSteps ==
    ASSUME Inv, SaveInv, Grows, UNCHANGED <<mem, trans, owner>>,
           \A n \in End + 1 .. End' : ~OfTrans(log'[n]),
           work' = work \/ (work.op = "restart" /\ work' = Idle)
    PROVE  SaveInv'
<1>1. ASSUME NEW s \in Slot
      PROVE  Kept(log', End', trans'[s], s, work', At(trans'[s], s, work'), mem', owner')
  BY Untouched DEF Ending, Aborting, At, Idle
<1>2. work'.op \in {"partial", "abort"} => work' = work
  BY DEF Idle
<1>3. work'.op \in {"partial", "abort"} =>
             /\ Mine(log', End', trans'[work'.slot], work'.next)
             /\ trans'[work'.slot].first # 0 \/ work'.next = 0
  BY <1>2, UndoingKept
<1> QED
  BY <1>1, <1>3 DEF SaveInv

LEMMA PartialRollbackSaved ==
    ASSUME Inv, SaveInv, NEW s \in Slot, PartialRollback(s) \/ Abort(s)
    PROVE  SaveInv'
<1>1. /\ work = Idle /\ UNCHANGED <<mem, log, trans, owner>>
      /\ work'.op \in {"partial", "abort"} /\ work'.slot = s /\ work'.next = trans[s].last
  BY DEF PartialRollback, Abort, Free, logs
<1>2. Grows /\ End' = End
  BY <1>1, GrowsSame DEF Inv
<1>3. ASSUME NEW u \in Slot
      PROVE  Kept(log', End', trans'[u], u, work', At(trans'[u], u, work'), mem', owner')
  <2>1. \A n \in End + 1 .. End' : FALSE
    BY <1>2, AtLogged
  <2>2. At(trans[u], u, work') = trans[u].last /\ At(trans[u], u, work) = trans[u].last
    BY <1>1 DEF At, Idle
  <2>3. ~Ending(work, u) /\ ~Aborting(work, u)
    BY <1>1 DEF Idle, Ending, Aborting
  <2> QED
    BY <1>1, <1>2, <2>1, <2>2, <2>3, Untouched
<1>4. Mine(log, End, trans[s], trans[s].last) /\ (trans[s].first # 0 \/ trans[s].last = 0)
  <2>1. CASE trans[s].first = 0
    <3>1. trans[s].last = 0 /\ ChainIn(log, End, 0) = {}
      BY <2>1, AtLogged, LogFacts
    <3> QED
      BY <3>1 DEF Mine
  <2>2. CASE trans[s].first # 0
    BY <2>2 DEF SaveInv, Kept
  <2> QED
    BY <2>1, <2>2
<1>5. Mine(log', End', trans'[s], trans[s].last)
  BY <1>1, <1>2, <1>4
<1> QED
  BY <1>1, <1>3, <1>4, <1>5 DEF SaveInv

LEMMA BeginSaved ==
    ASSUME Inv, SaveInv, Begin
    PROVE  SaveInv'
<1>1. PICK id, slot : trans' = [trans EXCEPT ![slot] = [NoTrans EXCEPT !.id = id]]
  BY DEF Begin
<1>2. work = Idle /\ UNCHANGED <<mem, log, owner, work>>
  BY DEF Begin, Free, logs
<1>3. Grows /\ End' = End
  BY <1>2, GrowsSame DEF Inv
<1>4. ASSUME NEW u \in Slot
      PROVE  Kept(log', End', trans'[u], u, work', At(trans'[u], u, work'), mem', owner')
  <2>1. CASE u = slot
    <3>1. trans'[u] = [NoTrans EXCEPT !.id = id]
      BY <1>1, <2>1 DEF Inv, SlotInv
    <3>2. trans'[u].first = 0 /\ trans'[u].save = NoSave
      BY <3>1 DEF NoTrans
    <3> QED
      BY <3>2, NothingWritten
  <2>2. CASE u # slot
    <3>1. trans'[u] = trans[u]
      BY <1>1, <2>2 DEF Inv, SlotInv
    <3>2. \A n \in End + 1 .. End' : FALSE
      BY <1>3, AtLogged
    <3> QED
      BY <1>2, <1>3, <3>1, <3>2, Untouched
  <2> QED
    BY <2>1, <2>2
<1> QED
  BY <1>2, <1>4 DEF SaveInv, Idle

\* A transaction ends: its slot is empty, other locks and items are as before.
LEMMA EndSaved ==
    ASSUME Inv, SaveInv, Grows, NEW s \in Slot, work.slot = s, work.op \in {"abort", "commit"},
           work' = Idle, DelTrans(s), UNCHANGED mem, trans[s].id # 0,
           \A i \in Items : owner[i] # s => owner'[i] = owner[i],
           \A n \in End + 1 .. End' : OfTrans(log'[n]) => log'[n].trans = trans[s].id
    PROVE  SaveInv'
<1>1. ASSUME NEW u \in Slot
      PROVE  Kept(log', End', trans'[u], u, work', At(trans'[u], u, work'), mem', owner')
  <2>1. CASE u = s
    <3>1. trans'[u] = NoTrans
      BY <2>1 DEF DelTrans, Inv, SlotInv
    <3> QED
      BY <3>1, NothingWritten DEF NoTrans
  <2>2. CASE u # s
    <3>1. trans'[u] = trans[u]
      BY <2>2 DEF DelTrans, Inv, SlotInv
    <3>2. trans[u].id # trans[s].id
      BY <2>2, IdsDiffer
    <3>3. At(trans[u], u, work') = At(trans[u], u, work)
      BY <2>2 DEF At, Idle
    <3>4. ~Ending(work, u) /\ ~Aborting(work, u)
      BY <2>2 DEF Ending, Aborting
    <3> QED
      BY <2>2, <3>1, <3>2, <3>3, <3>4, Untouched
  <2> QED
    BY <2>1, <2>2
<1> QED
  BY <1>1 DEF SaveInv, Idle

LEMMA EndCommitSaved ==
    ASSUME Inv, SaveInv, EndCommit
    PROVE  SaveInv'
<1>1. /\ work.op = "commit" /\ DelTrans(work.slot) /\ work' = Idle /\ UNCHANGED <<mem, log, owner>>
  BY DEF EndCommit
<1>2. Grows /\ End' = End
  BY <1>1, GrowsSame DEF Inv
<1>3. work.slot \in Slot /\ trans[work.slot].id # 0
  BY <1>1 DEF Inv, WorkInv, WorkOk
<1>4. \A n \in End + 1 .. End' : FALSE
  BY <1>2, <1>3, AtLogged
<1> QED
  BY <1>1, <1>2, <1>3, <1>4, EndSaved

LEMMA EndPartialRollbackSaved ==
    ASSUME Inv, SaveInv, EndPartialRollback
    PROVE  SaveInv'
<1> DEFINE s == work.slot
           t == trans[s]
<1>1. /\ work.op = "partial" /\ trans' = [trans EXCEPT ![s].save = NoSave]
      /\ work' = Idle /\ UNCHANGED <<mem, log, owner>>
  BY DEF EndPartialRollback, logs
<1>2. Grows /\ End' = End
  BY <1>1, GrowsSame DEF Inv
<1>3. s \in Slot /\ t.id # 0 /\ trans \in [Slot -> Trans]
  BY <1>1 DEF Inv, WorkInv, WorkOk, SlotInv
<1>4. ASSUME NEW u \in Slot
      PROVE  Kept(log', End', trans'[u], u, work', At(trans'[u], u, work'), mem', owner')
  <2>1. CASE u = s
    <3>1. trans'[u] = [t EXCEPT !.save = NoSave]
      BY <1>1, <1>3, <2>1
    <3>2. trans'[u].save = NoSave /\ trans'[u].id = t.id /\ trans'[u].first = t.first
          /\ trans'[u].last = t.last
      BY <1>3, <3>1 DEF Trans
    <3>3. ~Ending(work, s)
      BY <1>1 DEF Ending
    <3>4. t.first # 0 => Mine(log, End, t, t.last) /\ NoneLater(log, End, t)
                         /\ Locked(log, End, t, s, owner)
      BY <1>3, <3>3 DEF SaveInv, Kept
    <3>5. t.first # 0 => Mine(log', End', trans'[u], t.last) /\ NoneLater(log', End', trans'[u])
                         /\ Locked(log', End', trans'[u], s, owner')
      BY <1>1, <1>2, <3>2, <3>4 DEF Mine, NoneLater, Locked
    <3> QED
      BY <2>1, <3>2, <3>5 DEF Kept
  <2>2. CASE u # s
    <3>1. trans'[u] = trans[u]
      BY <1>1, <1>3, <2>2
    <3>2. \A n \in End + 1 .. End' : FALSE
      BY <1>2, <1>3, AtLogged
    <3>3. At(trans[u], u, work') = At(trans[u], u, work)
      BY <1>1, <2>2 DEF At, Idle
    <3>4. ~Ending(work, u) /\ ~Aborting(work, u)
      BY <1>1 DEF Ending, Aborting
    <3> QED
      BY <1>1, <1>2, <3>1, <3>2, <3>3, <3>4, Untouched
  <2> QED
    BY <2>1, <2>2
<1> QED
  BY <1>1, <1>4 DEF SaveInv, Idle

LEMMA EndAbortSaved ==
    ASSUME Inv, SaveInv, EndAbort
    PROVE  SaveInv'
<1> DEFINE s == work.slot
           r == TransRec("TRANS_ABORT", s, trans[s].last)
<1>1. /\ work.op = "abort" /\ work' = Idle /\ DelTrans(s) /\ UNCHANGED mem
      /\ \/ trans[s].last = 0 /\ UNCHANGED log
         \/ trans[s].last # 0 /\ WriteLog(<<r>>)
      /\ owner' = [i \in Items |-> IF owner[i] = s THEN 0 ELSE owner[i]]
  BY DEF EndAbort, Unlock
<1>2. s \in Slot /\ trans[s].id # 0 /\ End \in Nat
  BY <1>1, Sizes DEF Inv, WorkInv, WorkOk
<1>3. Grows /\ \A n \in End + 1 .. End' : OfTrans(log'[n]) => log'[n].trans = trans[s].id
  <2>1. CASE trans[s].last = 0
    <3>1. Grows /\ End' = End
      BY <1>1, <2>1, GrowsSame DEF Inv
    <3> QED
      BY <1>2, <3>1
  <2>2. CASE trans[s].last # 0
    <3>1. ~Ending(work, s) /\ "TRANS_ABORT" \in Ends
      BY <1>1 DEF Ending, Ends
    <3>2. RecordOk(log, r, End + 1) /\ r.trans = trans[s].id
      BY <1>2, <2>2, <3>1, EndRecordOk
    <3> HIDE DEF r
    <3>3. IsLog(log', End') /\ End' = End + 1 /\ Agree(log, log', End) /\ log'[End + 1] = r
      BY <1>1, <2>2, <3>2, WriteOne DEF Inv, LogInv
    <3> QED
      BY <1>2, <3>2, <3>3 DEF Grows
  <2> QED
    BY <2>1, <2>2
<1> QED
  BY <1>1, <1>2, <1>3, EndSaved

LEMMA CommitSaved ==
    ASSUME Inv, SaveInv, NEW s \in Slot, Commit(s)
    PROVE  SaveInv'
<1> DEFINE r == TransRec("TRANS_COMMIT", s, trans[s].last)
           t == Logged(s, <<r>>)
<1>1. /\ work = Idle /\ trans[s].id # 0 /\ UNCHANGED mem
      /\ \/ trans[s].first = 0 /\ UNCHANGED <<log, trans>>
         \/ trans[s].first # 0 /\ WriteLog(<<r>>) /\ trans' = [trans EXCEPT ![s] = t]
      /\ owner' = [i \in Items |-> IF owner[i] = s THEN 0 ELSE owner[i]]
      /\ work' = [op |-> "commit", slot |-> s, next |-> 0]
  BY DEF Commit, Free, Used, Unlock
<1>2. trans \in [Slot -> Trans] /\ End \in Nat /\ End + 1 \in Nat
  BY Sizes DEF Inv, SlotInv
<1>3. /\ Grows /\ \A n \in End + 1 .. End' : OfTrans(log'[n]) => log'[n].trans = trans[s].id
      /\ \A u \in Slot \ {s} : trans'[u] = trans[u]
      /\ Kept(log', End', trans'[s], s, work', At(trans'[s], s, work'), mem', owner')
  <2>1. CASE trans[s].first = 0
    <3>1. Grows /\ End' = End
      BY <1>1, <2>1, GrowsSame DEF Inv
    <3>2. trans[s].save = NoSave
      BY <2>1 DEF SaveInv, Kept
    <3>3. trans' = trans
      BY <1>1, <2>1
    <3> QED
      BY <1>2, <2>1, <3>1, <3>2, <3>3, NothingWritten
  <2>2. CASE trans[s].first # 0
    <3>1. trans[s].last \in 1 .. End /\ ~Ending(work, s) /\ "TRANS_COMMIT" \in Ends
      BY <1>1, <1>2, <2>2, AtLogged DEF Ending, Idle, Ends
    <3>2. /\ RecordOk(log, r, End + 1) /\ OfTrans(r) /\ r.trans = trans[s].id
          /\ r.prev = trans[s].last
      BY <3>1, EndRecordOk
    <3> HIDE DEF r
    <3>3. IsLog(log', End') /\ End' = End + 1 /\ Agree(log, log', End) /\ log'[End + 1] = r
      BY <1>1, <2>2, <3>2, WriteOne DEF Inv, LogInv
    <3>4. Grows /\ End' \in LSN /\ End + 1 \in LSN
      <4>1. End' <= MaxLog
        BY <3>3, LogFacts
      <4> QED
        BY <1>2, <3>3, <4>1 DEF Grows, LSN
    <3>5. /\ t.id = trans[s].id /\ t.last = End' /\ t.save = trans[s].save
          /\ t.first = trans[s].first
      <4>1. End' = End + Len(<<r>>)
        BY <3>3, OneIsOne
      <4> QED
        BY <1>2, <2>2, <3>4, <4>1, LoggedFields
    <3>6. trans' = [trans EXCEPT ![s] = t]
      BY <1>1, <2>2
    <3> HIDE DEF t
    <3>7. trans'[s] = t /\ \A u \in Slot \ {s} : trans'[u] = trans[u]
      BY <1>2, <3>6
    <3>8. Mine(log', End', t, End')
      <4>1. ChainIn(log', End', End') = {End'} \cup ChainIn(log, End, trans[s].last)
        <5>1. OfTrans(log'[End + 1]) /\ log'[End + 1].prev = trans[s].last
              /\ trans[s].last \in 0 .. End /\ IsLog(log, End) /\ End < End'
          BY <1>2, <3>1, <3>2, <3>3, AtLogged
        <5> QED
          BY <3>3, <5>1, ChainOfNew
      <4>2. Mine(log', End', t, trans[s].last)
        <5>1. Mine(log, End, trans[s], trans[s].last)
          BY <2>2 DEF SaveInv, Kept
        <5> QED
          BY <3>4, <3>5, <5>1, AtLogged, MineGrown
      <4>3. ChainIn(log', End', trans[s].last) = ChainIn(log, End, trans[s].last)
        BY <3>4, AtLogged, ChainGrown DEF Grows
      <4>4. End' >= t.first /\ log'[End'].trans = t.id
        BY <1>2, <3>2, <3>3, <3>5, AtLogged
      <4> QED
        BY <4>1, <4>2, <4>3, <4>4 DEF Mine
    <3>9. NoneLater(log', End', t)
      <4>1. \A e \in Nat : e + 1 .. e = {}
        OBVIOUS
      <4> QED
        BY <3>4, <3>5, <4>1, GrowsFacts DEF NoneLater
    <3>10. Ending(work', s)
      BY <1>1 DEF Ending
    <3>11. Kept(log', End', t, s, work', At(t, s, work'), mem', owner')
      BY <2>2, <3>5, <3>8, <3>9, <3>10 DEF Kept
    <3>12. \A n \in End + 1 .. End' : OfTrans(log'[n]) => log'[n].trans = trans[s].id
      BY <1>2, <3>2, <3>3
    <3> QED
      BY <3>4, <3>7, <3>11, <3>12
  <2> QED
    BY <2>1, <2>2
<1>4. ASSUME NEW u \in Slot \ {s}
      PROVE  Kept(log', End', trans'[u], u, work', At(trans'[u], u, work'), mem', owner')
  <2>1. trans'[u] = trans[u] /\ trans[u].id # trans[s].id
    BY <1>1, <1>3, IdsDiffer
  <2>2. At(trans[u], u, work') = At(trans[u], u, work)
    BY <1>1 DEF At, Idle
  <2>3. ~Ending(work, u) /\ ~Aborting(work, u)
    BY <1>1 DEF Ending, Aborting, Idle
  <2>4. \A i \in Items : owner[i] = u => owner'[i] = u /\ mem'[i] = mem[i]
    BY <1>1
  <2> QED
    BY <1>3, <2>1, <2>2, <2>3, <2>4, Untouched
<1> QED
  BY <1>1, <1>3, <1>4 DEF SaveInv

\* Checkpoints and buffer replacement write no record of a transaction and
\* change neither items nor locks.
LEMMA StartWrites ==
    ASSUME LogInv, StartCheckpoint \/ SkipCheckpoint
    PROVE  Grows /\ \A n \in End + 1 .. End' : ~OfTrans(log'[n])
<1>1. End \in Nat /\ Grows
  BY Sizes, CheckpointStarts
<1>2. CASE StartCheckpoint
  <2>1. End' = End + 1 /\ log'[End + 1] = BeginChkpt
    BY <1>2, BeginChkptOk, WriteOne DEF LogInv, StartCheckpoint
  <2> QED
    BY <1>1, <2>1 DEF OfTrans, BeginChkpt
<1>3. CASE SkipCheckpoint
  <2>1. End' = End
    BY <1>3, GrowsSame DEF SkipCheckpoint
  <2> QED
    BY <1>1, <2>1
<1> QED
  BY <1>2, <1>3

LEMMA CheckpointWrites ==
    ASSUME Inv, CheckpointNext
    PROVE  /\ Grows /\ \A n \in End + 1 .. End' : ~OfTrans(log'[n])
           /\ UNCHANGED <<mem, owner>>
           /\ ~CheckpointAtCommit => /\ UNCHANGED trans
                                     /\ work' = work \/ (work.op = "restart" /\ work' = Idle)
<1>1. End \in Nat
  BY Sizes DEF Inv
<1>2. CASE CheckpointAtCommit \/ Checkpoint
  BY <1>2, StartWrites DEF Inv, CheckpointAtCommit, Checkpoint
<1>3. CASE CheckpointEnd
  <2>1. stage = "end" /\ WriteLog(<<EndChkpt(Active)>>) /\ UNCHANGED <<mem, owner, trans, work>>
    BY <1>3 DEF CheckpointEnd
  <2>2. RecordOk(log, EndChkpt(Active), End + 1) /\ EndChkpt(Active).type = "END_CHKPT"
    BY <2>1, EndChkptOk DEF Inv, StageInv
  <2>3. /\ IsLog(log', End') /\ End' = End + 1 /\ Agree(log, log', End)
        /\ log'[End + 1] = EndChkpt(Active)
    BY <2>1, <2>2, WriteOne DEF Inv, LogInv
  <2> QED
    BY <1>1, <2>1, <2>2, <2>3 DEF Grows, OfTrans
<1>4. CASE \/ CheckpointPages \/ CheckpointPage0 \/ CheckpointAnchor \/ CheckpointFails
           \/ DeleteLogFiles \/ \E i \in Items : ReplaceBuffer(i)
  <2>1. UNCHANGED <<mem, owner, trans, log>> /\ (work' = work \/ (work.op = "restart" /\ work' = Idle))
    BY <1>4 DEF CheckpointPages, CheckpointPage0, CheckpointAnchor, CheckpointFails, DeleteLogFiles,
                ReplaceBuffer, logs
  <2>2. Grows /\ End' = End
    BY <2>1, GrowsSame DEF Inv
  <2> QED
    BY <1>1, <2>1, <2>2
<1> QED
  BY <1>2, <1>3, <1>4 DEF CheckpointNext

LEMMA CheckpointSaved ==
    ASSUME Inv, SaveInv, CheckpointNext
    PROVE  SaveInv'
<1>1. CASE CheckpointAtCommit
  <2>1. work.op = "commit" /\ DelTrans(work.slot) /\ work' = Idle /\ UNCHANGED <<mem, owner>>
    BY <1>1 DEF CheckpointAtCommit
  <2>2. work.slot \in Slot /\ trans[work.slot].id # 0
    BY <2>1 DEF Inv, WorkInv, WorkOk
  <2>3. Grows /\ \A n \in End + 1 .. End' : ~OfTrans(log'[n])
    BY CheckpointWrites
  <2> QED
    BY <2>1, <2>2, <2>3, EndSaved
<1>2. CASE ~CheckpointAtCommit
  BY <1>2, CheckpointWrites, NoTransactionSteps
<1> QED
  BY <1>1, <1>2

\* A crash ends all transactions.
LEMMA RestartSaved ==
    ASSUME Inv, Crash \/ Open
    PROVE  SaveInv'
<1>1. work'.op \notin {"partial", "abort"}
  BY DEF Crash, Open, Idle
<1>2. \A s \in Slot : trans'[s] = NoTrans
  <2>1. CASE Crash
    BY <2>1 DEF Crash
  <2>2. CASE Open
    BY <2>2 DEF Open, Inv, StageInv, SlotInv, SlotOk, Used
  <2> QED
    BY <2>1, <2>2
<1> QED
  BY <1>1, <1>2, NothingWritten DEF SaveInv, NoTrans

LEMMA DoUpdateSaved ==
    ASSUME Inv, SaveInv, NEW s \in Slot, NEW i \in Items, NEW begins \in BOOLEAN,
           DoUpdate(s, i, begins)
    PROVE  SaveInv'
<1> DEFINE recs == BeginRecords(s) \o <<Update(s, PrevLSN(s), i)>>
           t == Logged(s, recs)
           save == IF begins THEN trans[s].last ELSE trans[s].save
           v == [t EXCEPT !.save = save]
<1>1. /\ work = Idle /\ trans[s].id # 0 /\ owner[i] \in {0, s}
      /\ begins \/ trans[s].save # NoSave
      /\ WriteLog(recs) /\ trans' = [trans EXCEPT ![s] = v]
      /\ mem' = [mem EXCEPT ![i] = Len(log')] /\ owner' = [owner EXCEPT ![i] = s] /\ work' = work
  BY DEF DoUpdate, Free, Used
<1>2. /\ Grows /\ End < End' /\ End' \in LSN
      /\ log'[End'].type = "UPDATE" /\ log'[End'].trans = trans[s].id
      /\ log'[End'].item = i /\ log'[End'].before = mem[i]
      /\ \A n \in End + 1 .. End' :
            log'[n].trans = trans[s].id /\ (n # End' => log'[n].type = "TRANS_BEGIN")
      /\ ChainIn(log', End', End') = (End + 1 .. End') \cup ChainIn(log, End, trans[s].last)
      /\ t \in Trans /\ t.id = trans[s].id /\ t.last = End'
      /\ t.first = IF trans[s].first = 0 THEN End + 1 ELSE trans[s].first
  BY <1>1, UpdateWrites
<1> HIDE DEF recs, t
<1>3. trans \in [Slot -> Trans] /\ SlotOk(log, End, trans[s], s, work)
      /\ owner \in [Items -> Slot \cup {0}] /\ mem \in [Items -> 0 .. End]
  BY DEF Inv, SlotInv, DiskInv
<1>4. /\ v.id = trans[s].id /\ v.last = End' /\ v.save = save
      /\ v.first = IF trans[s].first = 0 THEN End + 1 ELSE trans[s].first
  BY <1>2 DEF Trans
<1>5. save = trans[s].last \/ (save = trans[s].save /\ trans[s].save # NoSave)
  BY <1>1
<1> HIDE DEF v, save
<1>6. trans'[s] = v /\ \A u \in Slot \ {s} : trans'[u] = trans[u]
  BY <1>1, <1>3
<1>7. ~Ending(work, s) /\ ~Aborting(work, s) /\ \A u \in Slot : ~Ending(work, u) /\ ~Aborting(work, u)
  BY <1>1 DEF Ending, Aborting, Idle
<1>8. Kept(log', End', v, s, work', End', mem', owner')
  <2>1. Kept(log, End, trans[s], s, work, trans[s].last, mem, owner)
    <3>1. At(trans[s], s, work) = trans[s].last
      BY <1>1 DEF At, Idle
    <3> QED
      BY <3>1 DEF SaveInv
  <2>2. \A j \in Items \ {i} : mem'[j] = mem[j]
    BY <1>1, <1>3
  <2>3. trans[s].save \in NoSave .. trans[s].last
    <3>1. ChainIn(log, End, trans[s].last) \subseteq 1 .. trans[s].last /\ trans[s].last \in Nat
      BY AtLogged, ChainInside
    <3> QED
      BY <1>3, <1>7, <3>1 DEF SlotOk, NoSave
  <2>4. IsLog(log, End) /\ trans[s].last \in 0 .. End /\ trans[s].first \in 0 .. trans[s].last
        /\ (trans[s].first = 0 <=> trans[s].last = 0)
    BY AtLogged
  <2>5. owner' = [owner EXCEPT ![i] = s] /\ work' = work
    BY <1>1
  <2> DEFINE o == trans[s]
  <2> HIDE DEF o
  <2>6. Kept(log', End', v, s, work', End', mem', owner')
    BY <1>2, <1>3, <1>4, <1>5, <1>7, <2>1, <2>2, <2>3, <2>4, <2>5, KeptByUpdate
  <2> QED
    BY <2>6
<1>9. At(v, s, work') = End'
  BY <1>1, <1>4 DEF At, Idle
<1>10. ASSUME NEW u \in Slot \ {s}
       PROVE  Kept(log', End', trans'[u], u, work', At(trans'[u], u, work'), mem', owner')
  <2>1. trans'[u] = trans[u] /\ trans[u].id # trans[s].id
    BY <1>1, <1>6, IdsDiffer
  <2>2. \A n \in End + 1 .. End' : OfTrans(log'[n]) => log'[n].trans # trans[u].id
    BY <1>2, <2>1
  <2>3. \A j \in Items : owner[j] = u => owner'[j] = u /\ mem'[j] = mem[j]
    <3>1. s # 0 /\ u # s /\ u # 0
      BY RecoveryAssumption DEF Slot
    <3>2. \A j \in Items : owner[j] = u => j # i
      BY <1>1, <3>1
    <3> QED
      BY <1>1, <1>3, <3>2
  <2> QED
    BY <1>1, <1>2, <1>7, <2>1, <2>2, <2>3, Untouched
<1> QED
  BY <1>1, <1>6, <1>8, <1>9, <1>10 DEF SaveInv, Idle

\* Undoing the last pending update n gives its item the value before it; what
\* is still pending is what was, without n.
LEMMA RestoresUndone ==
    ASSUME Inv, NEW t, t.save \in Int, NEW n \in 1 .. End, log[n].type = "UPDATE",
           NEW p \in 0 .. n - 1, t.save < n, NEW u, u.id = t.id, u.first = t.first, u.save = t.save,
           ChainIn(log, End, n) = {n} \cup ChainIn(log, End, p),
           Mine(log, End, t, n), Grows,
           \A m \in End + 1 .. End' : log'[m].type # "UPDATE",
           mem' = [mem EXCEPT ![log[n].item] = log[n].before], mem \in [Items -> 0 .. End],
           NEW i \in Items, Restores(log, End, t, n, i, mem[i])
    PROVE  Restores(log', End', u, p, i, mem'[i])
<1>1. /\ IsLog(log, End) /\ IsLog(log', End') /\ End \in Nat /\ End' \in Nat /\ End <= End'
      /\ \A m \in 1 .. End : log'[m] = log[m]
  BY Sizes, GrowsFacts DEF Inv, LogInv, Grows
<1>2. Updates(log', End', u, i) = Updates(log, End, t, i)
  <2>1. \A m \in 1 .. End' : log'[m].type = "UPDATE" => m \in 1 .. End
    BY <1>1
  <2> QED
    BY <1>1, <2>1 DEF Updates
<1>3. ChainIn(log', End', p) = ChainIn(log, End, p) /\ ChainIn(log, End, p) \subseteq 1 .. p
  BY <1>1, ChainGrown, ChainInside DEF Grows
<1>4. /\ Pending(log', End', u, p, i) = Pending(log, End, t, p, i)
      /\ Pending(log, End, t, p, i) \subseteq 1 .. p
  BY <1>1, <1>3 DEF Pending
<1>5. CASE log[n].item # i
  <2>1. Pending(log, End, t, n, i) = Pending(log, End, t, p, i)
    BY <1>5 DEF Pending
  <2>2. mem'[i] = mem[i]
    BY <1>5
  <2>3. \A m \in Updates(log, End, t, i) : log'[m] = log[m]
    BY <1>1 DEF Updates
  <2> QED
    BY <1>1, <1>2, <1>4, <2>1, <2>2, <2>3 DEF Restores, FirstOf
<1>6. CASE log[n].item = i
  <2>1. Pending(log, End, t, n, i) = {n} \cup Pending(log, End, t, p, i)
    BY <1>6 DEF Pending
  <2>2. mem'[i] = log[n].before
    BY <1>6
  <2> SUFFICES ASSUME NEW m, FirstOf(Updates(log, End, t, i), m)
               PROVE  /\ Pending(log, End, t, p, i) = {} => log[m].before = mem'[i]
                      /\ \A d : FirstOf(Pending(log, End, t, p, i), d) => log[m].before = log[d].before
    <3>1. \A m : FirstOf(Updates(log, End, t, i), m) => log'[m] = log[m]
      BY <1>1 DEF Updates, FirstOf
    <3>2. \A d : FirstOf(Pending(log, End, t, p, i), d) => log'[d] = log[d]
      BY <1>1, <1>4 DEF FirstOf
    <3> QED
      BY <1>2, <1>4, <3>1, <3>2 DEF Restores
  <2>3. \A d : FirstOf(Pending(log, End, t, n, i), d) => log[m].before = log[d].before
    BY DEF Restores
  <2>4. CASE Pending(log, End, t, p, i) = {}
    <3>1. FirstOf(Pending(log, End, t, n, i), n)
      BY <2>1, <2>4 DEF FirstOf
    <3>2. ~ \E d : FirstOf(Pending(log, End, t, p, i), d)
      BY <2>4 DEF FirstOf
    <3> QED
      BY <2>2, <2>3, <3>1, <3>2
  <2>5. CASE Pending(log, End, t, p, i) # {}
    <3> SUFFICES ASSUME NEW d, FirstOf(Pending(log, End, t, p, i), d)
                 PROVE  log[m].before = log[d].before
      BY <2>5
    <3>1. d \in 1 .. p /\ d <= n
      BY <1>4 DEF FirstOf
    <3>2. FirstOf(Pending(log, End, t, n, i), d)
      BY <2>1, <3>1 DEF FirstOf
    <3> QED
      BY <2>3, <3>2
  <2> QED
    BY <2>4, <2>5
<1> QED
  BY <1>5, <1>6

LEMMA UndoStepSaved ==
    ASSUME Inv, SaveInv, UndoStep
    PROVE  SaveInv'
<1> DEFINE s == work.slot
           n == work.next
           p == log[n].prev
           r == Compensation(s, n)
<1>1. Undoing /\ ~UndoneEnough
  BY DEF UndoStep
<1>2. /\ s \in Slot /\ SlotOk(log, End, trans[s], s, work)
      /\ work.op \in {"partial", "abort"} /\ trans[s].id # 0
      /\ n \in 1 .. trans[s].last /\ n \in 1 .. End /\ trans[s].last \in 1 .. End
      /\ log[n] \in Record /\ LinkOk(log, log[n], n) /\ RunsAt(log, n, trans[s].id)
      /\ p \in 0 .. n - 1
      /\ work.op = "partial" => trans[s].save \in {0} \cup ChainIn(log, End, p)
  BY <1>1, Undone
<1>3. /\ work' = [work EXCEPT !.next = p] /\ UNCHANGED owner
      /\ log[n].type = "UPDATE" =>
           /\ WriteLog(<<r>>) /\ trans' = [trans EXCEPT ![s] = Logged(s, <<r>>)]
           /\ mem' = [mem EXCEPT ![log[n].item] = log[n].before]
      /\ log[n].type # "UPDATE" => UNCHANGED <<log, trans, mem>>
  BY DEF UndoStep
<1>4. work'.op = work.op /\ work'.slot = s /\ work'.next = p
  BY <1>3 DEF Inv, WorkInv
<1>5. log[n].type = "UPDATE" =>
        /\ RecordOk(log, r, End + 1) /\ OfTrans(r) /\ r.type = "COMPENSATION"
        /\ r.trans = trans[s].id /\ r.prev = p
  BY <1>1, CompensationOk
<1>6. /\ IsLog(log, End) /\ End \in Nat /\ End + 1 \in Nat /\ trans \in [Slot -> Trans]
      /\ mem \in [Items -> 0 .. End] /\ trans[s].first # 0 /\ trans[s].first <= n
      /\ Mine(log, End, trans[s], n)
  <2>1. IsLog(log, End) /\ End \in Nat /\ trans \in [Slot -> Trans] /\ mem \in [Items -> 0 .. End]
    BY Sizes DEF Inv, LogInv, SlotInv, DiskInv
  <2>2. Mine(log, End, trans[s], n) /\ trans[s].first # 0
    BY <1>2, AtLogged DEF SaveInv
  <2>3. n \in ChainIn(log, End, n)
    BY <1>2, <2>1, LogFacts DEF RunsAt
  <2>4. n >= trans[s].first
    BY <2>2, <2>3 DEF Mine
  <2> QED
    BY <1>2, <2>1, <2>2, <2>4, AtLogged
<1>7. ChainIn(log, End, n) = {n} \cup ChainIn(log, End, p)
  BY <1>2, <1>6, LogFacts DEF RunsAt
<1>8. Mine(log, End, trans[s], p)
  BY <1>6, <1>7 DEF Mine
<1>9. /\ Kept(log, End, trans[s], s, work, At(trans[s], s, work), mem, owner) /\ ~Ending(work, s)
      /\ ~Ending(work', s) /\ (Aborting(work, s) <=> work.op = "abort")
      /\ (Aborting(work', s) <=> work.op = "abort")
      /\ work.op = "partial" => At(trans[s], s, work) = n /\ At(trans'[s], s, work') = p
  BY <1>2, <1>4 DEF SaveInv, Ending, Aborting, At
<1>10. /\ NoneLater(log, End, trans[s]) /\ Locked(log, End, trans[s], s, owner)
       /\ work.op = "partial" => \A i \in Items : Restores(log, End, trans[s], n, i, mem[i])
  <2>1. work.op = "partial" => trans[s].save # NoSave
    BY <1>2, <1>6, ChainInside DEF NoSave
  <2> QED
    BY <1>2, <1>6, <1>9, <2>1 DEF Kept
<1>11. work.op = "partial" => trans[s].save \in Int /\ trans[s].save < n
  BY <1>2, <1>6, ChainInside
<1> HIDE DEF s, n, p, r
<1>12. /\ Grows /\ \A m \in End + 1 .. End' : log'[m].trans = trans[s].id /\ log'[m].type # "UPDATE"
       /\ \A u \in Slot \ {s} : trans'[u] = trans[u]
       /\ trans'[s].id = trans[s].id /\ trans'[s].first = trans[s].first /\ trans'[s].save = trans[s].save
       /\ Mine(log', End', trans'[s], trans'[s].last) /\ NoneLater(log', End', trans'[s])
  <2>1. CASE log[n].type = "UPDATE"
    <3>1. /\ WriteLog(<<r>>) /\ trans' = [trans EXCEPT ![s] = Logged(s, <<r>>)]
          /\ RecordOk(log, r, End + 1) /\ OfTrans(r) /\ r.type = "COMPENSATION"
          /\ r.trans = trans[s].id /\ r.prev = p
      BY <1>3, <1>5, <2>1
    <3>2. IsLog(log', End') /\ End' = End + 1 /\ Agree(log, log', End) /\ log'[End + 1] = r
      BY <1>6, <3>1, WriteOne
    <3>3. Grows /\ End' \in LSN /\ End + 1 \in LSN
      <4>1. End' <= MaxLog
        BY <3>2, LogFacts
      <4> QED
        BY <1>6, <3>2, <4>1 DEF Grows, LSN
    <3> DEFINE t == Logged(s, <<r>>)
    <3>4. t.id = trans[s].id /\ t.last = End' /\ t.save = trans[s].save /\ t.first = trans[s].first
      <4>1. End' = End + Len(<<r>>)
        BY <3>2, OneIsOne
      <4>2. s \in Slot /\ trans \in [Slot -> Trans]
        BY <1>2, <1>6
      <4>3. t.id = trans[s].id /\ t.last = End' /\ t.save = trans[s].save
            /\ t.first = IF trans[s].first = 0 THEN End + 1 ELSE trans[s].first
        BY <3>3, <4>1, <4>2, LoggedFields
      <4> QED
        BY <1>6, <4>3
    <3>5. trans' = [trans EXCEPT ![s] = t]
      BY <3>1
    <3> HIDE DEF t
    <3>6. trans'[s] = t /\ \A u \in Slot \ {s} : trans'[u] = trans[u]
      BY <1>2, <1>6, <3>5
    <3>7. Mine(log', End', t, End')
      <4>1. ChainIn(log', End', End') = {End'} \cup ChainIn(log, End, p)
        <5>1. OfTrans(log'[End + 1]) /\ log'[End + 1].prev = p /\ p \in 0 .. End /\ End < End'
          BY <1>2, <1>6, <3>1, <3>2
        <5> QED
          BY <1>6, <3>2, <5>1, ChainOfNew
      <4>2. p \in 0 .. End
        BY <1>2, <1>6
      <4>3. Mine(log', End', t, p) /\ ChainIn(log', End', p) = ChainIn(log, End, p)
        BY <1>6, <1>8, <3>2, <3>3, <3>4, <4>2, MineGrown, ChainGrown DEF Grows
      <4>4. End' >= t.first /\ log'[End'].trans = t.id
        BY <1>2, <1>6, <3>1, <3>2, <3>4, AtLogged
      <4> QED
        BY <4>1, <4>3, <4>4 DEF Mine
    <3>8. NoneLater(log', End', t)
      <4>1. \A e \in Nat : e + 1 .. e = {}
        OBVIOUS
      <4> QED
        BY <3>3, <3>4, <4>1, GrowsFacts DEF NoneLater
    <3>9. \A m \in End + 1 .. End' : log'[m].trans = trans[s].id /\ log'[m].type # "UPDATE"
      BY <1>6, <3>1, <3>2
    <3> QED
      BY <3>3, <3>4, <3>6, <3>7, <3>8, <3>9
  <2>2. CASE log[n].type # "UPDATE"
    <3>1. UNCHANGED <<log, trans, mem>>
      BY <1>3, <2>2
    <3>2. Grows /\ End' = End
      BY <3>1, GrowsSame DEF Inv
    <3>3. Mine(log, End, trans[s], trans[s].last)
      BY <1>6, <1>9 DEF Kept
    <3> QED
      BY <1>6, <1>10, <3>1, <3>2, <3>3
  <2> QED
    BY <2>1, <2>2
<1>13. Locked(log', End', trans'[s], s, owner')
  <2> SUFFICES ASSUME NEW m \in 1 .. End', m >= trans[s].first, log'[m].type = "UPDATE",
                      log'[m].trans = trans[s].id
               PROVE  owner[log'[m].item] = s
    BY <1>3, <1>12 DEF Locked
  <2>1. m \in 1 .. End /\ log'[m] = log[m]
    BY <1>6, <1>12, GrowsFacts
  <2> QED
    BY <1>10, <2>1 DEF Locked
<1>14. ASSUME work.op = "partial", NEW i \in Items
       PROVE  Restores(log', End', trans'[s], p, i, mem'[i])
  <2>1. Restores(log, End, trans[s], n, i, mem[i])
    BY <1>10, <1>14
  <2>2. CASE log[n].type = "UPDATE"
    <3>1. mem' = [mem EXCEPT ![log[n].item] = log[n].before]
      BY <1>3, <2>2
    <3> QED
      BY <1>2, <1>6, <1>7, <1>11, <1>12, <1>14, <2>1, <2>2, <3>1, RestoresUndone
  <2>3. CASE log[n].type # "UPDATE"
    <3>1. UNCHANGED <<log, trans, mem>>
      BY <1>3, <2>3
    <3>2. Grows /\ End' = End
      BY <3>1, GrowsSame DEF Inv
    <3>3. Pending(log, End, trans[s], p, i) = Pending(log, End, trans[s], n, i)
      BY <1>7, <2>3 DEF Pending
    <3>4. Restores(log, End, trans[s], p, i, mem[i])
      BY <2>1, <3>3 DEF Restores
    <3> QED
      BY <3>1, <3>2, <3>4
  <2> QED
    BY <2>2, <2>3
<1>15. Kept(log', End', trans'[s], s, work', At(trans'[s], s, work'), mem', owner')
  BY <1>2, <1>6, <1>9, <1>12, <1>13, <1>14 DEF Kept
<1>16. ASSUME NEW u \in Slot \ {s}
       PROVE  Kept(log', End', trans'[u], u, work', At(trans'[u], u, work'), mem', owner')
  <2>1. trans'[u] = trans[u] /\ trans[u].id # trans[s].id
    BY <1>2, <1>12, IdsDiffer
  <2>2. \A m \in End + 1 .. End' : OfTrans(log'[m]) => log'[m].trans # trans[u].id
    BY <1>12, <2>1
  <2>3. At(trans[u], u, work') = At(trans[u], u, work)
    BY <1>4 DEF At, s
  <2>4. ~Ending(work, u) /\ ~Aborting(work, u)
    BY DEF Ending, Aborting, s
  <2>5. \A i \in Items : owner[i] = u => owner'[i] = u /\ mem'[i] = mem[i]
    <3>1. log[n].type = "UPDATE" => owner[log[n].item] = s
      BY <1>2, <1>6, <1>10 DEF Locked, RunsAt
    <3> QED
      BY <1>3, <1>6, <3>1
  <2> QED
    BY <1>12, <2>1, <2>2, <2>3, <2>4, <2>5, Untouched
<1>17. Mine(log', End', trans'[s], p) /\ trans'[s].first # 0
  <2>1. p \in 0 .. End
    BY <1>2, <1>6
  <2> QED
    BY <1>6, <1>8, <1>12, <2>1, MineGrown
<1> QED
  BY <1>4, <1>15, <1>16, <1>17 DEF SaveInv, s

LEMMA SaveStarts == Init => SaveInv
<1> SUFFICES ASSUME Init PROVE SaveInv
  OBVIOUS
<1>1. \A s \in Slot : trans[s] = NoTrans
  BY DEF Init
<1> QED
  BY <1>1, NothingWritten DEF SaveInv, NoTrans, Init, Idle

LEMMA SaveStep ==
    ASSUME Inv, SaveInv, [Next]_vars
    PROVE  SaveInv'
<1>1. CASE TransNext
  BY <1>1, BeginSaved, UndoStepSaved, EndPartialRollbackSaved, EndAbortSaved, EndCommitSaved,
     PartialRollbackSaved, CommitSaved, DoUpdateSaved DEF TransNext
<1>2. CASE CheckpointNext
  BY <1>2, CheckpointSaved
<1>3. CASE Crash \/ Open
  BY <1>3, RestartSaved
<1>4. CASE UNCHANGED vars
  <2>1. UNCHANGED <<mem, log, trans, owner, work>>
    BY <1>4 DEF vars, logs
  <2>2. Grows /\ End' = End /\ End \in Nat
    BY <2>1, GrowsSame, Sizes DEF Inv
  <2>3. \A n \in End + 1 .. End' : FALSE
    BY <2>2
  <2> QED
    BY <2>1, <2>2, <2>3, NoTransactionSteps
<1> QED
  BY <1>1, <1>2, <1>3, <1>4 DEF Next

LEMMA RestoredIsRight ==
    ASSUME Inv, SaveInv
    PROVE  SavepointRestored
<1> DEFINE s == work.slot
           t == trans[s]
           updates(i) == {n \in Max({t.save + 1, t.first}) .. End :
                            log[n].type = "UPDATE" /\ log[n].trans = t.id /\ log[n].item = i}
<1> SUFFICES ASSUME work.op = "partial", UndoneEnough, NEW i \in Items, updates(i) # {}
             PROVE  mem[i] = log[Min(updates(i))].before
  BY DEF SavepointRestored
<1>1. s \in Slot /\ t.id # 0 /\ t.save \in {0} \cup ChainIn(log, End, work.next)
      /\ work.next \in 0 .. t.last /\ work.next = t.save
  BY DEF Inv, WorkInv, WorkOk, UndoneEnough
<1>2. t.last \in 0 .. End /\ t.first \in 0 .. t.last /\ End \in Nat /\ IsLog(log, End)
      /\ t.save \in 0 .. t.last
  BY <1>1, AtLogged
<1>3. t.first # 0 /\ Restores(log, End, t, t.save, i, mem[i])
  <2>1. Kept(log, End, t, s, work, t.save, mem, owner)
    BY <1>1 DEF SaveInv, At
  <2>2. t.save # NoSave /\ ~Ending(work, s) /\ ~Aborting(work, s)
    BY <1>2 DEF NoSave, Ending, Aborting
  <2> QED
    BY <2>1, <2>2 DEF Kept
<1>4. Pending(log, End, t, t.save, i) = {}
  <2>1. ChainIn(log, End, t.save) \subseteq 1 .. t.save
    BY <1>2, ChainInside
  <2> QED
    BY <1>2, <2>1 DEF Pending
<1> HIDE DEF t
<1>5. updates(i) = Updates(log, End, t, i)
  <2> DEFINE S == {t.save + 1, t.first}
             m == Max(S)
  <2>1. t.save + 1 \in Nat /\ t.first \in Nat /\ S \subseteq Nat /\ S # {}
    BY <1>2
  <2>2. t.save + 1 <= t.save + 1 + t.first /\ t.first <= t.save + 1 + t.first
        /\ t.save + 1 + t.first \in Nat
    BY <2>1
  <2>3. m \in S /\ \A x \in S : x <= m
    <3>1. \A x \in S : x <= t.save + 1 + t.first
      BY <2>2
    <3> HIDE DEF S
    <3> QED
      BY <2>1, <2>2, <3>1, MaxIs
  <2>4. m \in Nat /\ (m = t.save + 1 \/ m = t.first) /\ t.save + 1 <= m /\ t.first <= m
    BY <2>1, <2>3
  <2> HIDE DEF m
  <2>5. \A n \in 1 .. End : n \in m .. End <=> n > t.save /\ n >= t.first
    BY <1>2, <2>1, <2>4
  <2>6. m .. End \subseteq 1 .. End
    BY <1>2, <2>1, <2>4
  <2> QED
    BY <2>5, <2>6 DEF Updates, m
<1>6. FirstOf(updates(i), Min(updates(i)))
  <2>1. Updates(log, End, t, i) \subseteq Nat
    BY DEF Updates
  <2> HIDE DEF updates
  <2> QED
    BY <1>5, <2>1, MinIs DEF FirstOf
<1> QED
  BY <1>3, <1>4, <1>5, <1>6 DEF Restores

\* A rollback of a statement gives every item the value it had at the save
\* point, also where rollbacks of earlier statements have left updates in the
\* log (TransMgr_Implicit_Savepoint, TransMgr_Implicit_Partial_Rollback,
\* LogRec_Undo and the records it writes).
THEOREM StatementRolledBack == Spec => []SavepointRestored
<1>1. Init => SaveInv
  BY SaveStarts
<1>2. Inv /\ SaveInv /\ [Next]_vars => SaveInv'
  BY SaveStep
<1>3. Inv /\ SaveInv => SavepointRestored
  BY RestoredIsRight
<1> QED
  BY <1>1, <1>2, <1>3, InvHolds, PTL DEF Spec

=============================================================================
