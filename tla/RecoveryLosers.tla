--------------------------- MODULE RecoveryLosers ---------------------------
(***************************************************************************)
(* What a restart makes of the transaction table: the losers it undoes are *)
(* the transactions that had not ended, no two of them changed the same    *)
(* item, and no record that it reads is in a deleted log file              *)
(* (LogMgr_Restart, LogRec_Redo, the heap of mdb_UpdateTrans.c and          *)
(* Delete_Useless_Logfiles).                                               *)
(*                                                                         *)
(* A crash may leave any prefix of the log that contains the flushed part, *)
(* so what is invariant is about the tables of all these prefixes: they    *)
(* are related to the slots of the running transactions where the log      *)
(* ends, and to the table of the last END_CHKPT record where it begins.    *)
(***************************************************************************)
EXTENDS RecoverySavepoints

\* The last record that the table made from record a on, without the records
\* before b, has for slot s after record k.
LastIn(L, N, a, b, k, s) == TableIn(L, N, a, b, k)[s].last

\* Record n continues what the table has in its slot, or begins a transaction
\* in an empty one.  (If a checkpoint has not got as far as the log anchor, the
\* table may miss what happened before b.)
Continues(L, N, a, b, n) ==
    LET l == LastIn(L, N, a, b, n - 1, L[n].trans % MaxTrans)
    IN  /\ l # 0 => L[n].prev \in ChainIn(L, N, l)
        /\ l = 0 /\ b <= a => L[n].type = "TRANS_BEGIN"

\* So do the records of a log in which losers were undone in memory at u,
\* after record a or, before that, not at all.
Follows(L, N, a, b, u) ==
    \A n \in a + 1 .. N :
        n >= b /\ OfTrans(L[n]) /\ (u < a \/ n <= u) => Continues(L, N, a, b, n)

\* No transaction has run since losers were undone in memory only.
Quiet(L, a, u, k) == u < a \/ \A n \in u + 1 .. k : ~OfTrans(L[n])

\* Two chains change different items.
Disjoint(L, N, l, m) ==
    \A x \in ChainIn(L, N, l), y \in ChainIn(L, N, m) :
        L[x].type = "UPDATE" /\ L[y].type = "UPDATE" => L[x].item # L[y].item
Apart(L, N, a, b, k) ==
    \A s, v \in Slot : s # v => Disjoint(L, N, LastIn(L, N, a, b, k, s), LastIn(L, N, a, b, k, v))

\* What the table should have for a slot.
Running(s) == IF Ending(work, s) THEN 0 ELSE trans[s].last

\* The tables that skip the records before b are right.
Sound(b) == "window" \notin Faults \/ b <= anchor.end
LosersFrom(b) ==
    /\ \A x \in anchorLSN : b <= x
    /\ ~up => anchorLSN = {b} /\ Quiet(log, anchor.end, unsettled, End)
    /\ Sound(b) =>
         /\ Follows(log, End, anchor.end, b, unsettled)
         /\ up /\ unsettled < anchor.end =>
              \A s \in Slot : LastIn(log, End, anchor.end, b, End, s) = Running(s)
         /\ \A k \in stable .. End :
              Quiet(log, anchor.end, unsettled, k) => Apart(log, End, anchor.end, b, k)
UndoInv ==
    /\ work.op \in {"partial", "abort"} =>
         work.next \in {0} \cup ChainIn(log, End, trans[work.slot].last)
    /\ stage = "anchor" => log[End].active = Active /\ unsettled < End
LoserInv == UndoInv /\ \E b \in Nat : LosersFrom(b)

\* The records that a restart from the log anchor, or a rollback, needs are
\* still there: those of running transactions, those that compensations name,
\* and those on the chains in the tables.
Changing == {"UPDATE", "COMPENSATION"}
NoChange == \A n \in anchor.begin .. End : log[n].type \notin Changing
Held(L, N, a, b, k, s, d) ==
    LET l == LastIn(L, N, a, b, k, s)
    IN  /\ ChainIn(L, N, l) \subseteq ChainIn(L, N, L[a].active[s].last) \cup a + 1 .. N
        /\ \A n \in ChainIn(L, N, l) : File(n) > d
FilesFrom(b) ==
    /\ \A s \in Slot : trans[s].first # 0 => File(trans[s].first) > deleted
    /\ up /\ gDirty < 2 => NoChange
    /\ \A n \in anchor.begin .. End : log[n].type = "COMPENSATION" => File(log[n].undone) > deleted
    /\ \A k \in stable .. End, s \in Slot :
         Quiet(log, anchor.end, unsettled, k) => Held(log, End, anchor.end, b, k, s, deleted)
    /\ stage = "delete" => stable = End /\ (log[End].type = "BEGIN_CHKPT" \/ NoChange)
FileInv == UndoInv /\ \E b \in Nat : LosersFrom(b) /\ FilesFrom(b)

-----------------------------------------------------------------------------
(* The table *)

\* Record n, unless it is before b, changes slot s.
Changes(L, b, n, s) == ~(n < b) /\ OfTrans(L[n]) /\ L[n].trans % MaxTrans = s

Unfolds(L, N, a, b, s) ==
    /\ LastIn(L, N, a, b, a, s) = L[a].active[s].last
    /\ TableIn(L, N, a, b, a)[s] = L[a].active[s]
    /\ \A n \in a + 1 .. N, p \in a .. N : n = p + 1 =>
         /\ ~Changes(L, b, n, s) =>
              /\ LastIn(L, N, a, b, n, s) = LastIn(L, N, a, b, p, s)
              /\ TableIn(L, N, a, b, n)[s] = TableIn(L, N, a, b, p)[s]
         /\ Changes(L, b, n, s) =>
              /\ LastIn(L, N, a, b, n, s) = IF L[n].type \in Ends THEN 0 ELSE n
              /\ L[n].type \notin Ends => TableIn(L, N, a, b, n)[s].id # 0

LEMMA LastUnfolds ==
    ASSUME NEW L, NEW N, NEW a, Anchored(L, N, a), NEW b, NEW s \in Slot
    PROVE  Unfolds(L, N, a, b, s)
<1>1. Tabled(L, N, a) /\ a \in Nat /\ N \in Nat /\ a <= N
  BY LogTabled DEF Tabled
<1>2. \A n \in a .. N :
         TableIn(L, N, a, b, n) = IF n = a THEN L[n].active
                                  ELSE IF n < b \/ ~OfTrans(L[n]) THEN TableIn(L, N, a, b, n - 1)
                                  ELSE AfterIn(L, TableIn(L, N, a, b, n - 1), n)
  <2>1. Tabled(L, N, a)
    BY <1>1
  <2> QED
    BY <2>1, TableUnfolds
<1> DEFINE T(n) == TableIn(L, N, a, b, n)
<1>3. \A n \in a .. N : T(n) \in [Slot -> Entries(N)]
  BY <1>1, TableTyped
<1>4. T(a) = L[a].active
  BY <1>1, <1>2
<1>2a. \A n \in a + 1 .. N : T(n) = IF n < b \/ ~OfTrans(L[n]) THEN T(n - 1)
                                     ELSE AfterIn(L, T(n - 1), n)
  BY <1>1, <1>2
<1> HIDE DEF T
<1>5. ASSUME NEW n \in a + 1 .. N, NEW p \in a .. N, n = p + 1
      PROVE  /\ ~Changes(L, b, n, s) => T(n)[s] = T(p)[s]
             /\ Changes(L, b, n, s) =>
                  /\ T(n)[s].last = IF L[n].type \in Ends THEN 0 ELSE n
                  /\ L[n].type \notin Ends => T(n)[s].id # 0
  <2>1. n \in a .. N /\ n # a /\ n - 1 = p
    BY <1>1, <1>5
  <2>4. T(n) = IF n < b \/ ~OfTrans(L[n]) THEN T(p) ELSE AfterIn(L, T(p), n)
    BY <1>2a, <2>1
  <2>2. CASE n < b \/ ~OfTrans(L[n])
    BY <2>2, <2>4 DEF Changes
  <2>3. CASE ~(n < b \/ ~OfTrans(L[n]))
    <3> DEFINE v == L[n].trans % MaxTrans
               table == T(p)
               e == [id |-> IF table[v].id = 0 THEN L[n].trans ELSE table[v].id, last |-> n]
    <3>1. T(n) = AfterIn(L, table, n)
      BY <2>3, <2>4
    <3>2. v \in Slot /\ L[n].trans # 0 /\ table \in [Slot -> Entries(N)]
      BY <1>1, <1>3, <2>1, <2>3 DEF Tabled
    <3>3. CASE L[n].type \in Ends
      <4>1. T(n) = [table EXCEPT ![v] = NoEntry]
        BY <3>1, <3>3 DEF AfterIn, Ends
      <4> HIDE DEF v, table
      <4>2. T(n)[v].last = 0 /\ (s # v => T(n)[s] = table[s])
        BY <3>2, <4>1 DEF NoEntry
      <4> QED
        BY <2>3, <3>3, <4>2 DEF v, table, Changes
    <3>4. CASE L[n].type \notin Ends
      <4>1. T(n) = [table EXCEPT ![v] = e]
        BY <3>1, <3>4 DEF AfterIn, Ends
      <4>2. e.last = n /\ e.id # 0
        BY <3>2
      <4> HIDE DEF v, table, e
      <4>3. T(n)[v] = e /\ (s # v => T(n)[s] = table[s])
        BY <3>2, <4>1
      <4> QED
        BY <2>3, <3>4, <4>2, <4>3 DEF v, table, Changes
    <3> QED
      BY <3>3, <3>4
  <2> QED
    BY <2>2, <2>3
<1> QED
  BY <1>4, <1>5 DEF Unfolds, LastIn, T

\* What the table names is the last record of a transaction that has not ended.
LEMMA LastLogged ==
    ASSUME NEW L, NEW N, NEW a, Anchored(L, N, a), NEW b, NEW s \in Slot,
           NEW k \in a .. N
    PROVE  /\ LastIn(L, N, a, b, k, s) \in 0 .. k
           /\ LastIn(L, N, a, b, k, s) # 0 =>
                LET r == L[LastIn(L, N, a, b, k, s)]
                IN  OfTrans(r) /\ r.type \notin Ends /\ r.trans % MaxTrans = s
           /\ TableIn(L, N, a, b, k)[s].id = 0 => LastIn(L, N, a, b, k, s) = 0
<1>1. N \in Nat /\ a \in Nat /\ a \in 1 .. N /\ TableOk(L, L[a].active, a)
  <2>1. IsLog(L, N) /\ a \in 1 .. N /\ TableOk(L, L[a].active, a)
    BY LogTabled DEF Anchored
  <2> QED
    BY <2>1, LogFacts
<1> DEFINE last(n) == LastIn(L, N, a, b, n, s)
           id(n) == TableIn(L, N, a, b, n)[s].id
           Good(n) == /\ last(n) \in 0 .. n
                      /\ last(n) # 0 => /\ OfTrans(L[last(n)]) /\ L[last(n)].type \notin Ends
                                        /\ L[last(n)].trans % MaxTrans = s
                      /\ id(n) = 0 => last(n) = 0
           T == {n \in a .. N : Good(n)}
<1>2. /\ last(a) = L[a].active[s].last /\ id(a) = L[a].active[s].id
      /\ \A n \in a + 1 .. N, p \in a .. N : n = p + 1 =>
            \/ last(n) = last(p) /\ id(n) = id(p)
            \/ /\ OfTrans(L[n]) /\ L[n].trans % MaxTrans = s
               /\ last(n) = IF L[n].type \in Ends THEN 0 ELSE n
               /\ L[n].type \notin Ends => id(n) # 0
  BY LastUnfolds DEF Unfolds, Changes
<1> HIDE DEF last, id
<1>3. ASSUME NEW n \in a .. N, \A m \in a .. n - 1 : m \in T
      PROVE  n \in T
  <2>1. CASE n = a
    BY <1>1, <1>2, <2>1 DEF TableOk
  <2>2. CASE n # a
    <3>1. n \in a + 1 .. N /\ Good(n - 1) /\ n - 1 \in a .. N /\ n = (n - 1) + 1
      BY <1>1, <1>3, <2>2
    <3>2. CASE last(n) = last(n - 1) /\ id(n) = id(n - 1)
      BY <1>1, <3>1, <3>2
    <3>3. CASE ~(last(n) = last(n - 1) /\ id(n) = id(n - 1))
      <4>1. /\ OfTrans(L[n]) /\ L[n].trans % MaxTrans = s
            /\ last(n) = IF L[n].type \in Ends THEN 0 ELSE n
            /\ L[n].type \notin Ends => id(n) # 0
        BY <1>2, <3>1, <3>3
      <4> QED
        BY <1>1, <3>1, <4>1
    <3> QED
      BY <3>2, <3>3
  <2> QED
    BY <2>1, <2>2
<1> HIDE DEF Good
<1>4. a .. N \subseteq T
  <2> HIDE DEF T
  <2> QED
    BY <1>1, <1>3, Induction
<1> QED
  BY <1>4 DEF Good, last, id

\* Logs that are the same up to record k have the same tables up to it.
LEMMA LastSame ==
    ASSUME NEW L, NEW N, NEW a, Anchored(L, N, a), NEW M, NEW K, Anchored(M, K, a),
           NEW b, NEW s \in Slot, NEW k \in a .. N, k <= K, Agree(L, M, k)
    PROVE  \A n \in a .. k : LastIn(M, K, a, b, n, s) = LastIn(L, N, a, b, n, s)
<1>1. N \in Nat /\ K \in Nat /\ a \in Nat /\ a \in 1 .. N /\ k \in Nat
  BY LogFacts DEF Anchored
<1> DEFINE l(n) == LastIn(L, N, a, b, n, s)
           m(n) == LastIn(M, K, a, b, n, s)
           T == {n \in a .. k : m(n) = l(n)}
<1>2. /\ l(a) = L[a].active[s].last
      /\ \A n \in a + 1 .. N, p \in a .. N : n = p + 1 =>
            /\ ~Changes(L, b, n, s) => l(n) = l(p)
            /\ Changes(L, b, n, s) => l(n) = IF L[n].type \in Ends THEN 0 ELSE n
  <2>1. Unfolds(L, N, a, b, s)
    BY LastUnfolds
  <2> QED
    BY <2>1 DEF Unfolds
<1>5. /\ m(a) = M[a].active[s].last
      /\ \A n \in a + 1 .. K, p \in a .. K : n = p + 1 =>
            /\ ~Changes(M, b, n, s) => m(n) = m(p)
            /\ Changes(M, b, n, s) => m(n) = IF M[n].type \in Ends THEN 0 ELSE n
  <2>1. Unfolds(M, K, a, b, s)
    BY LastUnfolds
  <2> QED
    BY <2>1 DEF Unfolds
<1> HIDE DEF l, m
<1>3. ASSUME NEW n \in a .. k, \A j \in a .. n - 1 : j \in T
      PROVE  n \in T
  <2>1. \/ n = a
        \/ /\ n \in a + 1 .. N /\ n \in a + 1 .. K /\ n - 1 \in a .. N /\ n - 1 \in a .. K
           /\ n = (n - 1) + 1 /\ L[n] = M[n] /\ m(n - 1) = l(n - 1)
    BY <1>1, <1>3 DEF Agree
  <2>2. n # a => (Changes(L, b, n, s) <=> Changes(M, b, n, s))
    BY <2>1 DEF Changes
  <2>3. n # a => m(n) = l(n)
    BY <1>2, <1>5, <2>1, <2>2
  <2>4. m(a) = l(a)
    BY <1>1, <1>2, <1>5 DEF Agree
  <2> QED
    BY <2>3, <2>4
<1>4. a .. k \subseteq T
  <2> HIDE DEF T
  <2> QED
    BY <1>1, <1>3, Induction
<1> QED
  BY <1>4 DEF l, m

\* The table changes only at records of transactions.
LEMMA LastQuiet ==
    ASSUME NEW L, NEW N, NEW a, Anchored(L, N, a), NEW b, NEW s \in Slot,
           NEW j \in a .. N, NEW k \in j .. N, \A n \in j + 1 .. k : ~OfTrans(L[n])
    PROVE  \A n \in j .. k : LastIn(L, N, a, b, n, s) = LastIn(L, N, a, b, j, s)
<1>1. N \in Nat /\ a \in Nat /\ j \in Nat /\ k \in Nat /\ a <= j /\ k <= N
  BY LogFacts DEF Anchored
<1> DEFINE l(n) == LastIn(L, N, a, b, n, s)
           T == {n \in j .. k : l(n) = l(j)}
<1>4. /\ l(a) = L[a].active[s].last
      /\ \A n \in a + 1 .. N, p \in a .. N : n = p + 1 =>
            /\ ~Changes(L, b, n, s) => l(n) = l(p)
            /\ Changes(L, b, n, s) => l(n) = IF L[n].type \in Ends THEN 0 ELSE n
  <2>1. Unfolds(L, N, a, b, s)
    BY LastUnfolds
  <2> QED
    BY <2>1 DEF Unfolds
<1> HIDE DEF l
<1>2. ASSUME NEW n \in j .. k, \A m \in j .. n - 1 : m \in T
      PROVE  n \in T
  <2>1. \/ n = j
        \/ /\ n \in a + 1 .. N /\ n - 1 \in a .. N /\ n = (n - 1) + 1
           /\ ~OfTrans(L[n]) /\ l(n - 1) = l(j)
    BY <1>1, <1>2
  <2>2. n # j => l(n) = l(n - 1)
    BY <1>4, <2>1 DEF Changes
  <2> QED
    BY <2>1, <2>2
<1>3. j .. k \subseteq T
  <2> HIDE DEF T
  <2> QED
    BY <1>1, <1>2, Induction
<1> QED
  BY <1>3 DEF l

\* A table that skips nothing after the END_CHKPT record.
LEMMA LastNone ==
    ASSUME NEW L, NEW N, NEW a, Anchored(L, N, a), NEW b \in Nat, b <= a, NEW c \in Nat, c <= a,
           NEW s \in Slot
    PROVE  \A n \in a .. N : LastIn(L, N, a, c, n, s) = LastIn(L, N, a, b, n, s)
<1>1. N \in Nat /\ a \in Nat
  BY LogFacts DEF Anchored
<1> DEFINE l(n) == LastIn(L, N, a, b, n, s)
           m(n) == LastIn(L, N, a, c, n, s)
           T == {n \in a .. N : m(n) = l(n)}
<1>4. /\ l(a) = L[a].active[s].last
      /\ \A n \in a + 1 .. N, p \in a .. N : n = p + 1 =>
            /\ ~Changes(L, b, n, s) => l(n) = l(p)
            /\ Changes(L, b, n, s) => l(n) = IF L[n].type \in Ends THEN 0 ELSE n
  <2>1. Unfolds(L, N, a, b, s)
    BY LastUnfolds
  <2> QED
    BY <2>1 DEF Unfolds
<1>5. /\ m(a) = L[a].active[s].last
      /\ \A n \in a + 1 .. N, p \in a .. N : n = p + 1 =>
            /\ ~Changes(L, c, n, s) => m(n) = m(p)
            /\ Changes(L, c, n, s) => m(n) = IF L[n].type \in Ends THEN 0 ELSE n
  <2>1. Unfolds(L, N, a, c, s)
    BY LastUnfolds
  <2> QED
    BY <2>1 DEF Unfolds
<1> HIDE DEF l, m
<1>2. ASSUME NEW n \in a .. N, \A j \in a .. n - 1 : j \in T
      PROVE  n \in T
  <2>1. \/ n = a
        \/ /\ n \in a + 1 .. N /\ n - 1 \in a .. N /\ n = (n - 1) + 1
           /\ m(n - 1) = l(n - 1) /\ ~(n < b) /\ ~(n < c)
    BY <1>1, <1>2
  <2>2. m(a) = l(a)
    BY <1>4, <1>5
  <2>3. n # a => (Changes(L, b, n, s) <=> Changes(L, c, n, s))
    BY <2>1 DEF Changes
  <2>4. n # a => m(n) = l(n)
    BY <1>4, <1>5, <2>1, <2>3
  <2> QED
    BY <2>1, <2>2, <2>4
<1>3. a .. N \subseteq T
  <2> HIDE DEF T
  <2> QED
    BY <1>1, <1>2, Induction
<1> QED
  BY <1>3 DEF l, m

\* A chain is of one transaction, and starts where the chains of its records do.
LEMMA ChainTrans ==
    ASSUME NEW L, NEW N, IsLog(L, N), NEW n \in 0 .. N
    PROVE  \A m \in ChainIn(L, N, n) :
              /\ m \in 1 .. n /\ OfTrans(L[m]) /\ L[m].trans = L[n].trans
              /\ ChainIn(L, N, m) \subseteq ChainIn(L, N, n)
              /\ Min(ChainIn(L, N, m)) = Min(ChainIn(L, N, n))
<1>1. N \in Nat /\ Linked(L, N)
  BY LogFacts
<1>2. \A k \in 0 .. N : \A m \in ChainIn(L, N, k) : L[m].trans = L[k].trans
  <2> DEFINE T == {k \in 0 .. N : \A m \in ChainIn(L, N, k) : L[m].trans = L[k].trans}
  <2>1. ASSUME NEW k \in 0 .. N, \A j \in 0 .. k - 1 : j \in T
        PROVE  k \in T
    <3> SUFFICES ASSUME NEW m \in ChainIn(L, N, k), m # k PROVE L[m].trans = L[k].trans
      OBVIOUS
    <3>1. k # 0 /\ OfTrans(L[k]) /\ m \in ChainIn(L, N, L[k].prev)
      BY <1>1, ChainUnfolds
    <3>2. LinkOk(L, L[k], k)
      BY <3>1, LogFacts
    <3>3. L[k].prev \in 0 .. k - 1 /\ L[k].prev # 0 /\ L[L[k].prev].trans = L[k].trans
      BY <3>1, <3>2, LogFacts DEF LinkOk
    <3> QED
      BY <2>1, <3>1, <3>3
  <2>2. 0 .. N \subseteq T
    <3> HIDE DEF T
    <3> QED
      BY <1>1, <2>1, Induction
  <2> QED
    BY <2>2
<1> SUFFICES ASSUME NEW m \in ChainIn(L, N, n)
             PROVE  /\ m \in 1 .. n /\ OfTrans(L[m]) /\ L[m].trans = L[n].trans
                    /\ ChainIn(L, N, m) \subseteq ChainIn(L, N, n)
                    /\ Min(ChainIn(L, N, m)) = Min(ChainIn(L, N, n))
  OBVIOUS
<1>3. /\ m \in 1 .. n /\ OfTrans(L[m])
      /\ ChainIn(L, N, m) = ChainIn(L, N, n) \cap (1 .. m)
  BY <1>1, ChainOfMember
<1> DEFINE C == ChainIn(L, N, n)
           D == ChainIn(L, N, m)
<1>4. C \subseteq Nat /\ C # {}
  BY <1>1, ChainBelow
<1>5. D = C \cap (1 .. m) /\ m \in Nat /\ \A x \in C : x >= 1
  BY <1>1, <1>3, ChainBelow
<1> HIDE DEF C, D
<1>6. Min(C) \in C /\ \A x \in C : Min(C) <= x
  BY <1>4, MinIs
<1>7. Min(C) \in D /\ D \subseteq Nat /\ \A x \in D : Min(C) <= x
  <2>1. m \in C
    BY DEF C
  <2>2. Min(C) <= m /\ Min(C) \in Nat /\ Min(C) >= 1
    BY <1>4, <1>5, <1>6, <2>1
  <2>3. Min(C) \in D
    BY <1>5, <1>6, <2>2
  <2>4. D \subseteq C
    BY <1>5
  <2> QED
    BY <1>4, <1>6, <2>3, <2>4
<1>8. Min(D) = Min(C)
  BY <1>7, MinUnique
<1> QED
  BY <1>2, <1>3, <1>8 DEF C, D

\* With another checkpoint's LSN c in page 0: if its log anchor was not written
\* and no transaction of the last one has a record in between, the records
\* skipped are of slots that were empty.
LEMMA LastSkips ==
    ASSUME NEW L, NEW N, NEW a, Anchored(L, N, a), NEW b \in Nat, NEW c \in Nat, b <= c,
           NEW k \in a .. N,
           \A n \in a .. c - 1 : n <= k /\ OfTrans(L[n]) =>
              \A s \in Slot : L[a].active[s].id # L[n].trans,
           \A n \in a + 1 .. k : n >= b /\ OfTrans(L[n]) => Continues(L, N, a, b, n),
           NEW s \in Slot
    PROVE  \A n \in a .. k : LastIn(L, N, a, c, n, s) \in {0, LastIn(L, N, a, b, n, s)}
<1>1. N \in Nat /\ a \in Nat /\ a \in 1 .. N /\ k \in Nat /\ k <= N
  <2>1. IsLog(L, N) /\ a \in 1 .. N
    BY DEF Anchored
  <2> QED
    BY <2>1, LogFacts
<1> DEFINE base == L[a].active[s].last
           l(n) == LastIn(L, N, a, b, n, s)
           m(n) == LastIn(L, N, a, c, n, s)
           Good(n) == m(n) \in {0, l(n)} /\ (n < c => m(n) = base)
           T == {n \in a .. k : Good(n)}
<1>2. /\ l(a) = L[a].active[s].last
      /\ \A n \in a + 1 .. N, p \in a .. N : n = p + 1 =>
            /\ ~Changes(L, b, n, s) => l(n) = l(p)
            /\ Changes(L, b, n, s) => l(n) = IF L[n].type \in Ends THEN 0 ELSE n
  <2>1. Unfolds(L, N, a, b, s)
    BY LastUnfolds
  <2> QED
    BY <2>1 DEF Unfolds
<1>7. /\ m(a) = L[a].active[s].last
      /\ \A n \in a + 1 .. N, p \in a .. N : n = p + 1 =>
            /\ ~Changes(L, c, n, s) => m(n) = m(p)
            /\ Changes(L, c, n, s) => m(n) = IF L[n].type \in Ends THEN 0 ELSE n
  <2>1. Unfolds(L, N, a, c, s)
    BY LastUnfolds
  <2> QED
    BY <2>1 DEF Unfolds
<1> HIDE DEF l, m
<1>3. ASSUME NEW n \in a + 1 .. k
      PROVE  /\ ~Changes(L, c, n, s) => m(n) = m(n - 1)
             /\ ~Changes(L, b, n, s) => l(n) = l(n - 1)
             /\ Changes(L, c, n, s) => m(n) = l(n) /\ ~(n < c)
             /\ Changes(L, b, n, s) => OfTrans(L[n]) /\ L[n].trans % MaxTrans = s /\ n >= b
             /\ n < c \/ Changes(L, c, n, s) \/ ~Changes(L, b, n, s)
  <2>1. n \in a + 1 .. N /\ n - 1 \in a .. N /\ n = (n - 1) + 1 /\ n \in Nat
    BY <1>1
  <2>2. Changes(L, c, n, s) => Changes(L, b, n, s) /\ ~(n < c)
    BY <2>1 DEF Changes
  <2>3. Changes(L, b, n, s) => OfTrans(L[n]) /\ L[n].trans % MaxTrans = s /\ n >= b
    BY <2>1 DEF Changes
  <2>4. n < c \/ Changes(L, c, n, s) \/ ~Changes(L, b, n, s)
    BY DEF Changes
  <2> QED
    BY <1>2, <1>7, <2>1, <2>2, <2>3, <2>4
<1>4. ASSUME NEW n \in a + 1 .. k, n < c, n >= b, OfTrans(L[n]), L[n].trans % MaxTrans = s,
             l(n - 1) = base
      PROVE  base = 0
  <2> SUFFICES ASSUME base # 0 PROVE FALSE
    OBVIOUS
  <2>1. base \in 1 .. a - 1 /\ L[base].trans = L[a].active[s].id
    <3>1. TableOk(L, L[a].active, a)
      BY LogTabled
    <3> QED
      BY <1>1, <3>1 DEF TableOk
  <2>2. L[n].prev \in ChainIn(L, N, base)
    BY <1>4 DEF Continues, l
  <2>3. L[L[n].prev].trans = L[base].trans /\ L[n].prev \in 1 .. base
    <3>1. base \in 0 .. N /\ IsLog(L, N)
      BY <1>1, <2>1 DEF Anchored
    <3> QED
      BY <2>2, <3>1, ChainTrans
  <2>4. L[L[n].prev].trans = L[n].trans
    <3>1. n \in 1 .. N /\ IsLog(L, N)
      BY <1>1 DEF Anchored
    <3>2. LinkOk(L, L[n], n)
      BY <1>4, <3>1, LogFacts
    <3> QED
      BY <2>3, <3>2 DEF LinkOk
  <2>5. n \in a .. c - 1 /\ n <= k
    BY <1>1, <1>4
  <2> QED
    BY <1>4, <2>1, <2>3, <2>4, <2>5
<1>5. ASSUME NEW n \in a .. k, \A j \in a .. n - 1 : j \in T
      PROVE  n \in T
  <2>1. CASE n = a
    BY <1>2, <1>7, <2>1
  <2>2. CASE n # a
    <3>1. n \in a + 1 .. k /\ Good(n - 1) /\ n - 1 < n
      BY <1>1, <1>5, <2>2
    <3>2. n < c => n - 1 < c
      BY <1>1, <3>1
    <3>3. CASE Changes(L, c, n, s)
      BY <1>3, <3>1, <3>3
    <3>4. CASE ~Changes(L, c, n, s) /\ ~Changes(L, b, n, s)
      BY <1>3, <3>1, <3>2, <3>4
    <3>5. CASE ~Changes(L, c, n, s) /\ Changes(L, b, n, s)
      <4>1. n < c /\ m(n) = base /\ m(n - 1) = base /\ OfTrans(L[n]) /\ L[n].trans % MaxTrans = s
            /\ n >= b
        BY <1>3, <3>1, <3>2, <3>5
      <4>2. l(n - 1) = base => base = 0
        BY <1>4, <3>1, <4>1
      <4> QED
        BY <3>1, <4>1, <4>2
    <3> QED
      BY <3>3, <3>4, <3>5
  <2> QED
    BY <2>1, <2>2
<1> HIDE DEF Good
<1>6. a .. k \subseteq T
  <2> HIDE DEF T
  <2> QED
    BY <1>1, <1>5, Induction
<1> QED
  BY <1>6 DEF Good, l, m

-----------------------------------------------------------------------------
(* Logs that are the same up to record k *)

Alike(L, N, M, K, a, k) ==
    Anchored(L, N, a) /\ Anchored(M, K, a) /\ k \in a .. N /\ k <= K /\ Agree(L, M, k)

LEMMA AlikeFacts ==
    ASSUME NEW L, NEW N, NEW M, NEW K, NEW a, NEW k, Alike(L, N, M, K, a, k)
    PROVE  /\ IsLog(L, N) /\ IsLog(M, K) /\ N \in Nat /\ K \in Nat /\ a \in Nat /\ a \in 1 .. N
           /\ k \in Nat /\ a <= k /\ k <= N /\ k <= K
           /\ \A n \in 1 .. k : L[n] = M[n]
           /\ \A n \in 0 .. k : ChainIn(L, N, n) = ChainIn(M, K, n) /\ ChainIn(L, N, n) \subseteq 1 .. k
           /\ \A b, n, s : n \in a .. k /\ s \in Slot =>
                 LastIn(M, K, a, b, n, s) = LastIn(L, N, a, b, n, s)
<1>1. IsLog(L, N) /\ IsLog(M, K) /\ Anchored(L, N, a) /\ Anchored(M, K, a)
      /\ a \in 1 .. N /\ k \in a .. N /\ k <= K /\ Agree(L, M, k)
  BY DEF Alike, Anchored
<1>2. N \in Nat /\ K \in Nat /\ Linked(L, N) /\ Linked(M, K)
  BY <1>1, LogFacts
<1>3. a \in Nat /\ k \in Nat /\ a <= k /\ k <= N
  BY <1>1, <1>2
<1>4. ASSUME NEW n \in 0 .. k
      PROVE  ChainIn(L, N, n) = ChainIn(M, K, n) /\ ChainIn(L, N, n) \subseteq 1 .. k
  <2>1. n \in 0 .. N /\ n <= K /\ Agree(L, M, n)
    BY <1>1, <1>2, <1>3 DEF Agree
  <2>2. ChainIn(L, N, n) = ChainIn(M, K, n)
    BY <1>2, <2>1, ChainSame
  <2>3. ChainIn(L, N, n) \subseteq 1 .. n
    BY <1>2, <2>1, ChainBelow
  <2> QED
    BY <1>3, <2>2, <2>3
<1>5. \A b, n, s : n \in a .. k /\ s \in Slot => LastIn(M, K, a, b, n, s) = LastIn(L, N, a, b, n, s)
  BY <1>1, LastSame
<1> QED
  BY <1>1, <1>2, <1>3, <1>4, <1>5 DEF Agree

\* The slot of a record.
LEMMA SlotOfRecord ==
    ASSUME NEW L, NEW N, IsLog(L, N), NEW n \in 1 .. N, OfTrans(L[n])
    PROVE  L[n].trans % MaxTrans \in Slot /\ L[n].trans \in Nat /\ L[n].prev \in 0 .. n - 1
<1>1. L[n] \in Record /\ LinkOk(L, L[n], n)
  BY LogFacts
<1>2. L[n].trans \in Nat
  BY <1>1, RecordFields DEF Id
<1> QED
  BY <1>1, <1>2, SlotOfId DEF LinkOk

LEMMA ContinuesSame ==
    ASSUME NEW L, NEW N, NEW M, NEW K, NEW a, NEW k, Alike(L, N, M, K, a, k), NEW b,
           NEW n \in a + 1 .. k, OfTrans(L[n]), Continues(L, N, a, b, n)
    PROVE  Continues(M, K, a, b, n)
<1> DEFINE s == L[n].trans % MaxTrans
           l == LastIn(L, N, a, b, n - 1, s)
<1>1. n \in 1 .. N /\ n \in 1 .. k /\ n - 1 \in a .. k /\ n - 1 \in a .. N /\ n - 1 <= k
      /\ Anchored(L, N, a) /\ L[n] = M[n] /\ s \in Slot
  <2>1. n \in 1 .. N /\ n \in 1 .. k /\ n - 1 \in a .. k /\ n - 1 \in a .. N /\ n - 1 <= k
    BY AlikeFacts
  <2> QED
    BY <2>1, AlikeFacts, SlotOfRecord DEF Alike
<1>2. l \in 0 .. n - 1
  BY <1>1, LastLogged
<1>3. LastIn(M, K, a, b, n - 1, s) = l
  BY <1>1, AlikeFacts
<1>4. ChainIn(L, N, l) = ChainIn(M, K, l)
  <2>1. l \in 0 .. k
    BY <1>1, <1>2, AlikeFacts
  <2> QED
    BY <2>1, AlikeFacts
<1>5. LastIn(M, K, a, b, n - 1, M[n].trans % MaxTrans) = l
  BY <1>1, <1>3
<1> QED
  BY <1>1, <1>4, <1>5 DEF Continues

LEMMA DisjointSame ==
    ASSUME NEW L, NEW N, NEW M, NEW K, NEW a, NEW k, Alike(L, N, M, K, a, k),
           NEW l \in 0 .. k, NEW m \in 0 .. k, Disjoint(L, N, l, m)
    PROVE  Disjoint(M, K, l, m)
<1>1. /\ ChainIn(L, N, l) = ChainIn(M, K, l) /\ ChainIn(L, N, l) \subseteq 1 .. k
      /\ ChainIn(L, N, m) = ChainIn(M, K, m) /\ ChainIn(L, N, m) \subseteq 1 .. k
      /\ \A n \in 1 .. k : L[n] = M[n]
  BY AlikeFacts
<1> QED
  BY <1>1 DEF Disjoint

LEMMA ApartSame ==
    ASSUME NEW L, NEW N, NEW M, NEW K, NEW a, NEW k, Alike(L, N, M, K, a, k), NEW b,
           NEW j \in a .. k, Apart(L, N, a, b, j)
    PROVE  Apart(M, K, a, b, j)
<1> SUFFICES ASSUME NEW s \in Slot, NEW v \in Slot, s # v
             PROVE  Disjoint(M, K, LastIn(M, K, a, b, j, s), LastIn(M, K, a, b, j, v))
  BY DEF Apart
<1> DEFINE l == LastIn(L, N, a, b, j, s)
           m == LastIn(L, N, a, b, j, v)
<1>1. Anchored(L, N, a) /\ j \in a .. N /\ j <= k /\ k \in Nat
  <2>1. k \in Nat /\ k <= N /\ N \in Nat /\ a \in Nat
    BY AlikeFacts
  <2> QED
    BY <2>1 DEF Alike
<1>2. l \in 0 .. j /\ m \in 0 .. j
  BY <1>1, LastLogged
<1>3. l \in 0 .. k /\ m \in 0 .. k
  BY <1>1, <1>2
<1>4. LastIn(M, K, a, b, j, s) = l /\ LastIn(M, K, a, b, j, v) = m
  BY AlikeFacts
<1>5. Disjoint(L, N, l, m)
  BY DEF Apart
<1> QED
  BY <1>3, <1>4, <1>5, DisjointSame

\* The empty chain changes nothing.
LEMMA EmptyDisjoint ==
    ASSUME NEW L, NEW N, IsLog(L, N), NEW l
    PROVE  Disjoint(L, N, l, 0) /\ Disjoint(L, N, 0, l)
<1>1. ChainIn(L, N, 0) = {}
  BY LogFacts
<1> QED
  BY <1>1 DEF Disjoint

\* Parts of disjoint chains are disjoint.
LEMMA DisjointPart ==
    ASSUME NEW L, NEW N, NEW l, NEW m, Disjoint(L, N, l, m), NEW x, NEW y,
           ChainIn(L, N, x) \subseteq ChainIn(L, N, l), ChainIn(L, N, y) \subseteq ChainIn(L, N, m)
    PROVE  Disjoint(L, N, x, y)
BY DEF Disjoint

\* Running transactions hold the locks of what they changed, so their chains
\* are disjoint.
LEMMA RunningApart ==
    ASSUME Inv, SaveInv, NEW s \in Slot, NEW v \in Slot, s # v,
           ~Ending(work, s), ~Ending(work, v)
    PROVE  Disjoint(log, End, trans[s].last, trans[v].last)
<1>1. IsLog(log, End) /\ End \in Nat
  BY AtLogged
<1>2. CASE trans[s].last = 0 \/ trans[v].last = 0
  BY <1>1, <1>2, EmptyDisjoint
<1>3. CASE trans[s].last # 0 /\ trans[v].last # 0
  <2>1. ASSUME NEW u \in Slot, ~Ending(work, u), trans[u].last # 0,
               NEW x \in ChainIn(log, End, trans[u].last), log[x].type = "UPDATE"
        PROVE  owner[log[x].item] = u
    <3>1. Mine(log, End, trans[u], trans[u].last) /\ Locked(log, End, trans[u], u, owner)
      BY <2>1, AtLogged DEF SaveInv, Kept
    <3>2. x \in 1 .. End
      BY <2>1, AtLogged, ChainInside
    <3> QED
      BY <2>1, <3>1, <3>2 DEF Mine, Locked
  <2> QED
    BY <1>3, <2>1 DEF Disjoint
<1> QED
  BY <1>2, <1>3

LEMMA RunningApartNext ==
    (Inv /\ SaveInv =>
       \A s, v \in Slot : s # v /\ ~Ending(work, s) /\ ~Ending(work, v) =>
          Disjoint(log, End, trans[s].last, trans[v].last))'
<1>1. Inv /\ SaveInv =>
        \A s, v \in Slot : s # v /\ ~Ending(work, s) /\ ~Ending(work, v) =>
           Disjoint(log, End, trans[s].last, trans[v].last)
  BY RunningApart
<1> QED
  BY <1>1, PTL

-----------------------------------------------------------------------------
(* Steps that leave the log anchor alone *)

\* The same checkpoint is in the log anchor, and the log may have become longer.
Onward ==
    /\ Inv /\ Inv' /\ Grows /\ up /\ up'
    /\ UNCHANGED <<anchor, unsettled>> /\ stable' \in stable .. End'

LEMMA LogAnchoredNext == (LogInv => Anchored(log, End, anchor.end))'
<1>1. LogInv => Anchored(log, End, anchor.end)
  BY LogAnchored
<1> QED
  BY <1>1, PTL

LEMMA OnwardFacts ==
    ASSUME Onward
    PROVE  /\ Alike(log, End, log', End', anchor.end, End)
           /\ Anchored(log, End, anchor.end) /\ Anchored(log', End', anchor.end)
           /\ End \in Nat /\ End' \in Nat /\ End <= End' /\ stable \in 2 .. End /\ stable' \in 2 .. End'
           /\ anchor.end \in Nat /\ anchor.end \in 1 .. stable /\ unsettled \in 0 .. stable
           /\ IsLog(log, End) /\ IsLog(log', End')
<1>1. LogInv /\ LogInv' /\ UNCHANGED anchor
  BY DEF Onward, Inv
<1>2. Anchored(log, End, anchor.end)
  BY <1>1, LogAnchored
<1>3. Anchored(log', End', anchor.end)
  BY <1>1, LogAnchoredNext
<1>4. /\ End \in Nat /\ End' \in Nat /\ End <= End' /\ Agree(log, log', End)
      /\ stable \in 2 .. End /\ anchor.end \in 1 .. stable /\ unsettled \in 0 .. stable
      /\ IsLog(log, End) /\ IsLog(log', End')
  BY <1>1, Sizes, GrowsFacts DEF Onward, Grows, LogInv
<1>5. anchor.end \in Nat /\ anchor.end <= End /\ stable' \in 2 .. End' /\ End \in anchor.end .. End
  BY <1>4 DEF Onward
<1> QED
  BY <1>2, <1>3, <1>4, <1>5 DEF Alike

\* What such a step has to show, for the records that it writes.
LEMMA Carried ==
    ASSUME Onward, NEW b \in Nat, LosersFrom(b), \A x \in anchorLSN' : b <= x,
           unsettled < anchor.end /\ Sound(b) =>
              /\ \A n \in End + 1 .. End' : OfTrans(log'[n]) => Continues(log', End', anchor.end, b, n)
              /\ \A s \in Slot : LastIn(log', End', anchor.end, b, End', s) = Running(s)'
              /\ \A k \in End + 1 .. End' : Apart(log', End', anchor.end, b, k)
    PROVE  LosersFrom(b)'
<1> DEFINE a == anchor.end
           u == unsettled
<1>1. /\ Alike(log, End, log', End', a, End)
      /\ Anchored(log, End, a) /\ Anchored(log', End', a)
      /\ End \in Nat /\ End' \in Nat /\ End <= End' /\ stable \in 2 .. End /\ stable' \in 2 .. End'
      /\ a \in Nat /\ a \in 1 .. stable /\ u \in 0 .. stable
      /\ \A n \in 1 .. End : log'[n] = log[n]
  BY OnwardFacts, GrowsFacts DEF Onward
<1>2. anchor' = anchor /\ unsettled' = unsettled /\ up' /\ up /\ stable' \in stable .. End'
      /\ (Sound(b)' <=> Sound(b))
  BY DEF Onward, Sound
<1> SUFFICES ASSUME Sound(b)
             PROVE  /\ Follows(log', End', a, b, u)
                    /\ u < a => \A s \in Slot : LastIn(log', End', a, b, End', s) = Running(s)'
                    /\ \A k \in stable' .. End' : Quiet(log', a, u, k) => Apart(log', End', a, b, k)
  BY <1>2 DEF LosersFrom
<1>3. /\ Follows(log, End, a, b, u)
      /\ \A k \in stable .. End : Quiet(log, a, u, k) => Apart(log, End, a, b, k)
  BY DEF LosersFrom
<1>4. Follows(log', End', a, b, u)
  <2> SUFFICES ASSUME NEW n \in a + 1 .. End', n >= b, OfTrans(log'[n]), u < a \/ n <= u
               PROVE  Continues(log', End', a, b, n)
    BY DEF Follows
  <2>1. CASE n \in a + 1 .. End
    <3>1. log'[n] = log[n] /\ OfTrans(log[n])
      BY <1>1, <2>1
    <3>2. Continues(log, End, a, b, n)
      BY <1>3, <2>1, <3>1 DEF Follows
    <3> QED
      BY <1>1, <2>1, <3>1, <3>2, ContinuesSame
  <2>2. CASE n \in End + 1 .. End'
    <3>1. u < a
      BY <1>1, <2>2
    <3> QED
      BY <2>2, <3>1
  <2> QED
    BY <1>1, <2>1, <2>2
<1>5. ASSUME NEW k \in stable' .. End', Quiet(log', a, u, k)
      PROVE  Apart(log', End', a, b, k)
  <2>1. CASE k <= End
    <3>1. k \in stable .. End /\ k \in a .. End
      BY <1>1, <1>2, <2>1
    <3>2. Quiet(log, a, u, k)
      BY <1>1, <1>5, <3>1 DEF Quiet
    <3> QED
      BY <1>1, <1>3, <3>1, <3>2, ApartSame
  <2>2. CASE End < k /\ u < a
    <3>1. k \in End + 1 .. End'
      BY <1>1, <1>2, <2>2
    <3> QED
      BY <2>2, <3>1
  <2>3. CASE End < k /\ ~(u < a)
    <3>1. /\ \A n \in End + 1 .. k : ~OfTrans(log'[n])
          /\ \A n \in u + 1 .. End : ~OfTrans(log[n])
          /\ End \in stable .. End /\ End \in a .. End /\ End \in a .. End' /\ k \in End .. End'
      BY <1>1, <1>2, <1>5, <2>3 DEF Quiet
    <3>2. Apart(log, End, a, b, End)
      BY <1>3, <3>1 DEF Quiet
    <3>3. Apart(log', End', a, b, End)
      BY <1>1, <3>1, <3>2, ApartSame
    <3>4. \A s \in Slot : LastIn(log', End', a, b, k, s) = LastIn(log', End', a, b, End, s)
      BY <1>1, <3>1, LastQuiet
    <3> QED
      BY <3>3, <3>4 DEF Apart
  <2> QED
    BY <1>1, <1>2, <2>1, <2>2, <2>3
<1> QED
  BY <1>4, <1>5

\* Nothing is written for a transaction.
LEMMA CarriedQuietly ==
    ASSUME Onward, NEW b \in Nat, LosersFrom(b), \A x \in anchorLSN' : b <= x,
           \A n \in End + 1 .. End' : ~OfTrans(log'[n]),
           \A s \in Slot : Running(s)' = Running(s)
    PROVE  LosersFrom(b)'
<1> DEFINE a == anchor.end
<1> SUFFICES ASSUME unsettled < a, Sound(b)
             PROVE  /\ \A s \in Slot : LastIn(log', End', a, b, End', s) = Running(s)'
                    /\ \A k \in End + 1 .. End' : Apart(log', End', a, b, k)
  BY Carried
<1>1. /\ Alike(log, End, log', End', a, End) /\ Anchored(log', End', a)
      /\ End \in Nat /\ End' \in Nat /\ End <= End' /\ stable \in 2 .. End
      /\ a \in Nat /\ a \in 1 .. stable
  BY OnwardFacts
<1>2. End \in stable .. End /\ End \in a .. End /\ End \in a .. End'
  BY <1>1
<1>3. \A s \in Slot : LastIn(log', End', a, b, End, s) = LastIn(log, End, a, b, End, s)
  BY <1>1, <1>2, AlikeFacts
<1>4. ASSUME NEW k \in End .. End', NEW s \in Slot
      PROVE  LastIn(log', End', a, b, k, s) = LastIn(log', End', a, b, End, s)
  <2>1. \A n \in End + 1 .. k : ~OfTrans(log'[n])
    BY <1>1
  <2>2. k \in End .. k
    BY <1>1
  <2> QED
    BY <1>1, <1>2, <2>1, <2>2, LastQuiet
<1>5. /\ \A s \in Slot : LastIn(log, End, a, b, End, s) = Running(s)
      /\ Apart(log, End, a, b, End)
  BY <1>2 DEF LosersFrom, Onward, Quiet
<1>6. Apart(log', End', a, b, End)
  BY <1>1, <1>2, <1>5, ApartSame
<1>7. \A s \in Slot : LastIn(log', End', a, b, End', s) = Running(s)'
  BY <1>1, <1>3, <1>4, <1>5
<1>8. ASSUME NEW k \in End + 1 .. End'
      PROVE  Apart(log', End', a, b, k)
  <2>1. k \in End .. End'
    BY <1>1
  <2> QED
    BY <1>4, <1>6, <2>1 DEF Apart
<1> QED
  BY <1>7, <1>8

\* The records that a step writes for the transaction of slot s: one, or
\* TRANS_BEGIN and another.
WritesFor(s) ==
    /\ s \in Slot /\ ~Ending(work, s) /\ End' \in {End + 1, End + 2}
    /\ \A n \in End + 1 .. End' : OfTrans(log'[n]) /\ log'[n].trans % MaxTrans = s
    /\ trans[s].last = 0 => log'[End + 1].type = "TRANS_BEGIN"
    /\ trans[s].last # 0 => log'[End + 1].prev \in ChainIn(log, End, trans[s].last)
    /\ End' = End + 2 => /\ log'[End'].prev = End + 1 /\ log'[End + 1].type \notin Ends
                         /\ log'[End'].type \notin Ends
    /\ Running(s)' = IF log'[End'].type \in Ends THEN 0 ELSE End'
    /\ log'[End'].type \notin Ends => trans'[s].last = End' /\ ~Ending(work', s)
    /\ \A v \in Slot \ {s} : trans'[v] = trans[v] /\ ~Ending(work, v) /\ ~Ending(work', v)

\* What the table has for the slots while such records are written.
LEMMA WritesTable ==
    ASSUME Onward, NEW b \in Nat, LosersFrom(b), NEW s, WritesFor(s),
           unsettled < anchor.end, Sound(b)
    PROVE  LET l(n, v) == LastIn(log', End', anchor.end, b, n, v) IN
           /\ \A v \in Slot : /\ l(End, v) = trans[v].last /\ trans[v].last \in 0 .. End
                              /\ LastIn(log, End, anchor.end, b, End, v) = trans[v].last
           /\ \A v \in Slot \ {s} : l(End + 1, v) = trans[v].last /\ l(End', v) = trans[v].last
           /\ l(End + 1, s) = IF log'[End + 1].type \in Ends THEN 0 ELSE End + 1
           /\ l(End', s) = IF log'[End'].type \in Ends THEN 0 ELSE End'
<1> DEFINE a == anchor.end
           l(n, v) == LastIn(log', End', a, b, n, v)
           e == End + 1
<1>1. /\ Alike(log, End, log', End', a, End) /\ Anchored(log', End', a) /\ IsLog(log', End')
      /\ End \in Nat /\ End' \in Nat /\ End <= End' /\ stable \in 2 .. End
      /\ a \in Nat /\ a \in 1 .. stable
  BY OnwardFacts
<1>2. /\ s \in Slot /\ ~Ending(work, s) /\ End' \in {End + 1, End + 2} /\ e \in End + 1 .. End'
      /\ End + 1 .. End' = {e, End'} /\ e \in Nat /\ e # 0
      /\ \A n \in {e, End'} : OfTrans(log'[n]) /\ log'[n].trans % MaxTrans = s
      /\ \A v \in Slot \ {s} : trans'[v] = trans[v] /\ ~Ending(work, v) /\ ~Ending(work', v)
      /\ End' = e \/ (End' = e + 1 /\ log'[End'].prev = e /\ log'[e].type \notin Ends
                        /\ log'[End'].type \notin Ends)
  <2>1. /\ s \in Slot /\ ~Ending(work, s) /\ End' \in {End + 1, End + 2} /\ e \in End + 1 .. End'
        /\ End + 1 .. End' = {e, End'} /\ e \in Nat /\ e # 0
    BY <1>1 DEF WritesFor
  <2>2. \A n \in {e, End'} : OfTrans(log'[n]) /\ log'[n].trans % MaxTrans = s
    BY <2>1 DEF WritesFor
  <2>3. \A v \in Slot \ {s} : trans'[v] = trans[v] /\ ~Ending(work, v) /\ ~Ending(work', v)
    BY DEF WritesFor
  <2>4. End' = e \/ (End' = e + 1 /\ log'[End'].prev = e /\ log'[e].type \notin Ends
                        /\ log'[End'].type \notin Ends)
    BY <1>1 DEF WritesFor
  <2> QED
    BY <2>1, <2>2, <2>3, <2>4
<1>3. ~(e < b) /\ ~(End' < b)
  <2>1. PICK x \in anchorLSN : TRUE
    BY DEF Onward, Inv, DiskInv
  <2>2. b <= x /\ x \in 1 .. stable
    BY DEF LosersFrom, Onward, Inv, DiskInv
  <2> QED
    BY <1>1, <2>2
<1>4. \A v \in Slot : /\ l(End, v) = trans[v].last /\ trans[v].last \in 0 .. End
                      /\ LastIn(log, End, a, b, End, v) = trans[v].last
  <2> TAKE v \in Slot
  <2>1. LastIn(log, End, a, b, End, v) = Running(v)
    BY DEF LosersFrom, Onward
  <2>2. l(End, v) = LastIn(log, End, a, b, End, v)
    BY <1>1, AlikeFacts
  <2>3. Running(v) = trans[v].last
    BY <1>2 DEF Running
  <2> QED
    BY <2>1, <2>2, <2>3, AtLogged DEF Onward
<1>5. \A v \in Slot : Unfolds(log', End', a, b, v)
  BY <1>1, LastUnfolds
<1>6. /\ e \in a + 1 .. End' /\ End' \in a + 1 .. End' /\ End \in a .. End' /\ e \in a .. End'
      /\ e = End + 1
  BY <1>1, <1>2
<1>7. \A v \in Slot : /\ Changes(log', b, e, v) <=> v = s
                      /\ Changes(log', b, End', v) <=> v = s
  BY <1>2, <1>3 DEF Changes
<1>8. \A v \in Slot \ {s} : l(e, v) = trans[v].last /\ l(End', v) = trans[v].last
  <2> TAKE v \in Slot \ {s}
  <2>1. l(e, v) = l(End, v)
    BY <1>5, <1>6, <1>7 DEF Unfolds
  <2>2. End' = e + 1 => l(End', v) = l(e, v)
    BY <1>5, <1>6, <1>7 DEF Unfolds
  <2> QED
    BY <1>2, <1>4, <2>1, <2>2
<1>9. /\ l(e, s) = IF log'[e].type \in Ends THEN 0 ELSE e
      /\ l(End', s) = IF log'[End'].type \in Ends THEN 0 ELSE End'
  <2>1. l(e, s) = IF log'[e].type \in Ends THEN 0 ELSE e
    BY <1>2, <1>5, <1>6, <1>7 DEF Unfolds
  <2>2. End' = e + 1 => l(End', s) = IF log'[End'].type \in Ends THEN 0 ELSE End'
    BY <1>2, <1>5, <1>6, <1>7 DEF Unfolds
  <2> QED
    BY <1>2, <2>1, <2>2
<1> QED
  BY <1>4, <1>8, <1>9

LEMMA CarriedWrites ==
    ASSUME Onward, SaveInv', NEW b \in Nat, LosersFrom(b), \A x \in anchorLSN' : b <= x,
           NEW s, WritesFor(s)
    PROVE  LosersFrom(b)'
<1> DEFINE a == anchor.end
           l(n, v) == LastIn(log', End', a, b, n, v)
           e == End + 1
<1> SUFFICES ASSUME unsettled < a, Sound(b)
             PROVE  /\ \A n \in End + 1 .. End' : OfTrans(log'[n]) => Continues(log', End', a, b, n)
                    /\ \A v \in Slot : l(End', v) = Running(v)'
                    /\ \A k \in End + 1 .. End' : Apart(log', End', a, b, k)
  BY Carried
<1>1. /\ Alike(log, End, log', End', a, End) /\ Anchored(log', End', a) /\ IsLog(log', End')
      /\ End \in Nat /\ End' \in Nat /\ End <= End' /\ stable \in 2 .. End
      /\ a \in Nat /\ a \in 1 .. stable
  BY OnwardFacts
<1>2. /\ s \in Slot /\ ~Ending(work, s) /\ End' \in {End + 1, End + 2} /\ e \in End + 1 .. End'
      /\ End + 1 .. End' = {e, End'} /\ e \in Nat /\ e # 0
      /\ \A n \in {e, End'} : OfTrans(log'[n]) /\ log'[n].trans % MaxTrans = s
      /\ \A v \in Slot \ {s} : trans'[v] = trans[v] /\ ~Ending(work, v) /\ ~Ending(work', v)
      /\ End' = e \/ (End' = e + 1 /\ log'[End'].prev = e /\ log'[e].type \notin Ends
                        /\ log'[End'].type \notin Ends)
  <2>1. /\ s \in Slot /\ ~Ending(work, s) /\ End' \in {End + 1, End + 2} /\ e \in End + 1 .. End'
        /\ End + 1 .. End' = {e, End'} /\ e \in Nat /\ e # 0
    BY <1>1 DEF WritesFor
  <2>2. \A n \in {e, End'} : OfTrans(log'[n]) /\ log'[n].trans % MaxTrans = s
    BY <2>1 DEF WritesFor
  <2>3. \A v \in Slot \ {s} : trans'[v] = trans[v] /\ ~Ending(work, v) /\ ~Ending(work', v)
    BY DEF WritesFor
  <2>4. End' = e \/ (End' = e + 1 /\ log'[End'].prev = e /\ log'[e].type \notin Ends
                        /\ log'[End'].type \notin Ends)
    BY <1>1 DEF WritesFor
  <2> QED
    BY <2>1, <2>2, <2>3, <2>4
<1>4. \A v \in Slot : l(End, v) = trans[v].last /\ trans[v].last \in 0 .. End
  BY WritesTable
<1>8. \A v \in Slot \ {s} : l(e, v) = trans[v].last /\ l(End', v) = trans[v].last
  BY WritesTable
<1>9. /\ l(e, s) = IF log'[e].type \in Ends THEN 0 ELSE e
      /\ l(End', s) = IF log'[End'].type \in Ends THEN 0 ELSE End'
  BY WritesTable
<1>10. \A v \in Slot : l(End', v) = Running(v)'
  <2> TAKE v \in Slot
  <2>1. CASE v = s
    BY <1>9, <2>1 DEF WritesFor
  <2>2. CASE v # s
    <3>1. Running(v)' = trans'[v].last
      BY <1>2, <2>2 DEF Running
    <3> QED
      BY <1>2, <1>8, <2>2, <3>1
  <2> QED
    BY <2>1, <2>2
<1> HIDE DEF l
<1>11. Continues(log', End', a, b, e)
  <2>1. ChainIn(log', End', trans[s].last) = ChainIn(log, End, trans[s].last)
    BY <1>1, <1>2, <1>4, AlikeFacts
  <2>2. l(e - 1, s) = trans[s].last
    <3>1. e - 1 = End
      BY <1>1
    <3> QED
      BY <1>2, <1>4, <3>1
  <2>3. log'[e].trans % MaxTrans = s
    BY <1>2
  <2> QED
    BY <2>1, <2>2, <2>3 DEF Continues, WritesFor, l
<1>12. ASSUME End' = e + 1 PROVE Continues(log', End', a, b, End')
  <2>1. log'[End'].prev = e /\ log'[e].type \notin Ends
    BY <1>2, <1>12
  <2>2. l(End' - 1, s) = e
    <3>1. End' - 1 = e
      BY <1>1, <1>2, <1>12
    <3> QED
      BY <1>9, <2>1, <3>1
  <2>3. e \in ChainIn(log', End', e)
    <3>1. e \in 1 .. End'
      BY <1>1, <1>2
    <3> QED
      BY <1>1, <1>2, <3>1, LogFacts
  <2>4. log'[End'].trans % MaxTrans = s
    BY <1>2
  <2> QED
    BY <1>2, <2>1, <2>2, <2>3, <2>4 DEF Continues, l
<1>13. ASSUME NEW k \in {e, End'} PROVE Apart(log', End', a, b, k)
  <2> DEFINE D(x, y) == Disjoint(log', End', x, y)
  <2>1. \A v, w \in Slot : v # w /\ ~Ending(work', v) /\ ~Ending(work', w) =>
           D(trans'[v].last, trans'[w].last)
    BY RunningApartNext DEF Onward
  <2>2. \A v \in Slot \ {s} : l(k, v) = trans'[v].last /\ ~Ending(work', v)
    BY <1>2, <1>8, <1>13
  <2>3. \A x : D(x, 0) /\ D(0, x)
    BY <1>1, EmptyDisjoint
  <2>4. l(k, s) # 0 => /\ ~Ending(work', s)
                       /\ ChainIn(log', End', l(k, s)) \subseteq ChainIn(log', End', trans'[s].last)
    <3> SUFFICES ASSUME l(k, s) # 0
                 PROVE  /\ ~Ending(work', s)
                        /\ ChainIn(log', End', l(k, s)) \subseteq ChainIn(log', End', trans'[s].last)
      OBVIOUS
    <3>1. l(k, s) = k /\ log'[k].type \notin Ends
      BY <1>9, <1>13
    <3>2. log'[End'].type \notin Ends
      BY <1>2, <1>13, <3>1
    <3>3. trans'[s].last = End' /\ ~Ending(work', s)
      BY <3>2 DEF WritesFor
    <3>4. CASE k = End'
      BY <3>1, <3>3, <3>4
    <3>5. CASE k # End'
      <4>1. k = e /\ End' = e + 1 /\ log'[End'].prev = e
        BY <1>2, <1>13, <3>5
      <4>2. ChainIn(log', End', End') = {End'} \cup ChainIn(log', End', e)
        <5>1. End' \in 1 .. End'
          BY <1>1, <1>2
        <5> QED
          BY <1>1, <1>2, <4>1, <5>1, LogFacts
      <4> QED
        BY <3>1, <3>3, <4>1, <4>2
    <3> QED
      BY <3>4, <3>5
  <2>5. ASSUME NEW v \in Slot \ {s} PROVE D(l(k, s), l(k, v)) /\ D(l(k, v), l(k, s))
    <3>1. CASE l(k, s) = 0
      BY <2>3, <3>1
    <3>2. CASE l(k, s) # 0
      <4>1. D(trans'[s].last, trans'[v].last) /\ D(trans'[v].last, trans'[s].last)
        BY <1>2, <2>1, <2>2, <2>4, <3>2
      <4>2. l(k, v) = trans'[v].last
        BY <2>2
      <4>3. ChainIn(log', End', l(k, s)) \subseteq ChainIn(log', End', trans'[s].last)
        BY <2>4, <3>2
      <4> QED
        BY <4>1, <4>2, <4>3, DisjointPart
    <3> QED
      BY <3>1, <3>2
  <2>6. ASSUME NEW v \in Slot \ {s}, NEW w \in Slot \ {s}, v # w PROVE D(l(k, v), l(k, w))
    BY <2>1, <2>2, <2>6
  <2> QED
    BY <2>5, <2>6 DEF Apart, l
<1> QED
  BY <1>2, <1>10, <1>11, <1>12, <1>13

-----------------------------------------------------------------------------
(* What the steps of transactions write *)

Quietly ==
    /\ \A n \in End + 1 .. End' : ~OfTrans(log'[n])
    /\ \A s \in Slot : Running(s)' = Running(s)

LEMMA WritesNothing ==
    ASSUME Inv, UNCHANGED log, \A s \in Slot : Running(s)' = Running(s)
    PROVE  Grows /\ Quietly
<1>1. Grows /\ End' = End /\ End \in Nat
  BY GrowsSame, Sizes DEF Inv
<1>2. \A n \in End + 1 .. End' : FALSE
  BY <1>1
<1> QED
  BY <1>1, <1>2 DEF Quietly

\* The slots of transactions that neither begin nor end keep what they name.
LEMMA SameRunning ==
    ASSUME NEW s \in Slot, trans'[s].last = trans[s].last, Ending(work', s) <=> Ending(work, s)
    PROVE  Running(s)' = Running(s)
BY DEF Running

LEMMA BeginWrites ==
    ASSUME Inv, Begin
    PROVE  Grows /\ Quietly
<1>1. PICK id : FreeId(id) /\ trans' = [trans EXCEPT ![id % MaxTrans] = [NoTrans EXCEPT !.id = id]]
  <2> DEFINE tries == {j \in 0 .. MaxTrans : FreeId(IdAt[j])}
             id == IdAt[Min(tries)]
  <2>1. tries # {} /\ trans' = [trans EXCEPT ![id % MaxTrans] = [NoTrans EXCEPT !.id = id]]
    BY DEF Begin
  <2>2. tries \subseteq Nat
    BY RecoveryAssumption
  <2> HIDE DEF tries
  <2>3. Min(tries) \in tries
    BY <2>1, <2>2, MinIs
  <2>4. FreeId(id)
    BY <2>3 DEF tries
  <2> QED
    BY <2>1, <2>4
<1>2. work = Idle /\ UNCHANGED <<log, work>>
  BY DEF Begin, Free, logs
<1> DEFINE v == id % MaxTrans
<1>3. trans[v].id = 0
  BY <1>1 DEF FreeId, Used
<1> HIDE DEF v
<1>4. ASSUME NEW s \in Slot PROVE trans'[s].last = trans[s].last
  <2>1. CASE s = v
    <3>1. trans[s] = NoTrans
      BY <1>3, <2>1 DEF Inv, SlotInv, SlotOk
    <3>2. trans'[s] = [NoTrans EXCEPT !.id = id]
      BY <1>1, <2>1 DEF Inv, SlotInv, v
    <3> QED
      BY <3>1, <3>2 DEF NoTrans
  <2>2. CASE s # v
    BY <1>1, <2>2 DEF Inv, SlotInv, v
  <2> QED
    BY <2>1, <2>2
<1> QED
  BY <1>2, <1>4, SameRunning, WritesNothing

LEMMA RollbackWrites ==
    ASSUME Inv, EndPartialRollback \/ \E s \in Slot : PartialRollback(s) \/ Abort(s)
    PROVE  Grows /\ Quietly
<1>1. UNCHANGED log /\ work.op # "commit" /\ work'.op # "commit"
  BY DEF EndPartialRollback, PartialRollback, Abort, Idle, Free, logs
<1>2. \A s \in Slot : trans'[s].last = trans[s].last
  <2>1. CASE EndPartialRollback
    BY <2>1 DEF EndPartialRollback, Inv, SlotInv, Trans
  <2>2. CASE \E s \in Slot : PartialRollback(s) \/ Abort(s)
    BY <2>2 DEF PartialRollback, Abort
  <2> QED
    BY <2>1, <2>2
<1> QED
  BY <1>1, <1>2, SameRunning, WritesNothing DEF Ending

\* The end of a commit takes from the table what the restart takes from it.
LEMMA EndCommitQuiet ==
    ASSUME Inv, work.op = "commit", DelTrans(work.slot), work' = Idle, NEW s \in Slot
    PROVE  Running(s)' = Running(s)
<1>1. trans'[s] = IF s = work.slot THEN NoTrans ELSE trans[s]
  BY DEF DelTrans, Inv, SlotInv
<1>2. ~Ending(work', s) /\ (Ending(work, s) <=> s = work.slot)
  BY DEF Ending, Idle
<1> QED
  BY <1>1, <1>2 DEF Running, NoTrans

LEMMA EndCommitWrites ==
    ASSUME Inv, EndCommit
    PROVE  Grows /\ Quietly
BY EndCommitQuiet, WritesNothing DEF EndCommit

\* One record at the end of the log for the transaction of slot s.
LEMMA WritesOne ==
    ASSUME Inv, NEW s \in Slot, \A u \in Slot : ~Ending(work, u), trans[s].last # 0,
           \A u \in Slot \ {s} : ~Ending(work', u), trans[s].id # 0,
           IsLog(log', End'), End' = End + 1, OfTrans(log'[End + 1]),
           log'[End + 1].trans = trans[s].id,
           log'[End + 1].prev \in ChainIn(log, End, trans[s].last),
           \A u \in Slot \ {s} : trans'[u] = trans[u],
           log'[End + 1].type \in Ends => trans'[s].last = 0 \/ Ending(work', s),
           log'[End + 1].type \notin Ends => trans'[s].last = End' /\ ~Ending(work', s)
    PROVE  WritesFor(s)
<1>1. End \in Nat /\ trans[s].id % MaxTrans = s
  BY Sizes DEF Inv, SlotInv, SlotOk
<1>2. End + 1 .. End' = {End + 1} /\ End' # End + 2
  BY <1>1
<1>3. Running(s)' = IF log'[End'].type \in Ends THEN 0 ELSE End'
  BY DEF Running
<1>4. log'[End'].type \notin Ends => trans'[s].last = End' /\ ~Ending(work', s)
  OBVIOUS
<1> QED
  BY <1>1, <1>2, <1>3, <1>4 DEF WritesFor

LEMMA UndoStepWrites ==
    ASSUME Inv, UndoInv, UndoStep
    PROVE  Grows /\ (Quietly \/ \E s : WritesFor(s))
<1> DEFINE s == work.slot
           n == work.next
           r == Compensation(s, n)
           t == Logged(s, <<r>>)
<1>1. Undoing /\ ~UndoneEnough
  BY DEF UndoStep
<1>2. /\ s \in Slot /\ SlotOk(log, End, trans[s], s, work)
      /\ work.op \in {"partial", "abort"} /\ trans[s].id # 0
      /\ n \in 1 .. trans[s].last /\ n \in 1 .. End /\ trans[s].last \in 1 .. End
      /\ LinkOk(log, log[n], n) /\ RunsAt(log, n, trans[s].id)
      /\ log[n].prev \in 0 .. n - 1
  BY <1>1, Undone
<1>3. /\ work' = [work EXCEPT !.next = log[n].prev]
      /\ log[n].type = "UPDATE" => WriteLog(<<r>>) /\ trans' = [trans EXCEPT ![s] = t]
      /\ log[n].type # "UPDATE" => UNCHANGED <<log, trans>>
  BY DEF UndoStep
<1>4. work'.op = work.op /\ work'.slot = s
  BY <1>3 DEF Inv, WorkInv
<1>5. \A u \in Slot : ~Ending(work, u) /\ ~Ending(work', u)
  BY <1>2, <1>4 DEF Ending
<1>6. CASE log[n].type # "UPDATE"
  BY <1>3, <1>5, <1>6, SameRunning, WritesNothing
<1>7. CASE log[n].type = "UPDATE"
  <2>1. /\ RecordOk(log, r, End + 1) /\ OfTrans(r) /\ r.type = "COMPENSATION"
        /\ r.trans = trans[s].id /\ r.prev = log[n].prev
    BY <1>1, <1>7, CompensationOk
  <2>2. IsLog(log, End) /\ End \in Nat /\ trans \in [Slot -> Trans]
    BY Sizes DEF Inv, LogInv, SlotInv
  <2>3. WriteLog(<<r>>) /\ trans' = [trans EXCEPT ![s] = t]
    BY <1>3, <1>7
  <2>4. log[n].prev \in ChainIn(log, End, trans[s].last)
    <3>1. n \in ChainIn(log, End, trans[s].last)
      BY <1>2 DEF UndoInv
    <3>2. ChainIn(log, End, n) \subseteq ChainIn(log, End, trans[s].last)
      BY <1>2, <2>2, <3>1, ChainTrans
    <3>3. ChainIn(log, End, n) = {n} \cup ChainIn(log, End, log[n].prev)
      BY <1>2, <2>2, LogFacts DEF RunsAt
    <3>4. log[n].prev # 0
      BY <1>2, <1>7 DEF LinkOk
    <3>5. log[n].prev \in 1 .. End /\ OfTrans(log[log[n].prev])
      BY <1>2, <2>2, <3>4 DEF LinkOk
    <3>6. log[n].prev \in ChainIn(log, End, log[n].prev)
      BY <2>2, <3>5, LogFacts
    <3> QED
      BY <3>2, <3>3, <3>6
  <2> HIDE DEF r
  <2>5. IsLog(log', End') /\ End' = End + 1 /\ Agree(log, log', End) /\ log'[End + 1] = r
    BY <2>1, <2>2, <2>3, WriteOne
  <2>6. Grows /\ End' \in LSN /\ End + 1 \in LSN
    <3>1. End' <= MaxLog
      BY <2>5, LogFacts
    <3> QED
      BY <2>2, <2>5, <3>1 DEF Grows, LSN
  <2>7. t.last = End'
    <3>1. End' = End + Len(<<r>>)
      BY <2>5, OneIsOne
    <3>2. s \in Slot /\ trans \in [Slot -> Trans]
      BY <1>2, <2>2
    <3>3. t.id = trans[s].id /\ t.last = End' /\ t.save = trans[s].save
          /\ t.first = IF trans[s].first = 0 THEN End + 1 ELSE trans[s].first
      BY <2>6, <3>1, <3>2, LoggedFields
    <3> QED
      BY <3>3
  <2> HIDE DEF t
  <2>8. trans'[s].last = End' /\ \A u \in Slot \ {s} : trans'[u] = trans[u]
    BY <1>2, <2>2, <2>3, <2>7
  <2>9. r.type \notin Ends
    BY <2>1 DEF Ends
  <2>10. trans[s].last # 0 /\ \A u \in Slot \ {s} : ~Ending(work', u)
    BY <1>2, <1>5
  <2> HIDE DEF s
  <2>11. WritesFor(s)
    BY <1>2, <1>5, <2>1, <2>4, <2>5, <2>8, <2>9, <2>10, WritesOne
  <2> QED
    BY <2>6, <2>11
<1> QED
  BY <1>6, <1>7

LEMMA EndAbortWrites ==
    ASSUME Inv, EndAbort
    PROVE  Grows /\ (Quietly \/ \E s : WritesFor(s))
<1> DEFINE s == work.slot
           r == TransRec("TRANS_ABORT", s, trans[s].last)
<1>1. /\ work.op = "abort" /\ work' = Idle /\ trans' = [trans EXCEPT ![s] = NoTrans]
      /\ \/ trans[s].last = 0 /\ UNCHANGED log
         \/ trans[s].last # 0 /\ WriteLog(<<r>>)
  BY DEF EndAbort, DelTrans
<1>2. s \in Slot /\ trans[s].id # 0 /\ End \in Nat /\ trans \in [Slot -> Trans]
  BY <1>1, Sizes DEF Inv, WorkInv, WorkOk, SlotInv
<1>3. \A u \in Slot : ~Ending(work, u) /\ ~Ending(work', u)
  BY <1>1 DEF Ending, Idle
<1>4. trans'[s].last = 0 /\ \A u \in Slot \ {s} : trans'[u] = trans[u]
  BY <1>1, <1>2 DEF NoTrans
<1>5. CASE trans[s].last = 0
  <2>1. \A u \in Slot : trans'[u].last = trans[u].last
    BY <1>4, <1>5
  <2>2. UNCHANGED log
    BY <1>1, <1>5
  <2> QED
    BY <1>3, <2>1, <2>2, SameRunning, WritesNothing
<1>6. CASE trans[s].last # 0
  <2>1. ~Ending(work, s) /\ "TRANS_ABORT" \in Ends
    BY <1>2, <1>3 DEF Ends
  <2>2. /\ RecordOk(log, r, End + 1) /\ OfTrans(r) /\ r.type \in Ends
        /\ r.trans = trans[s].id /\ r.prev = trans[s].last
    BY <1>2, <1>6, <2>1, EndRecordOk
  <2>3. WriteLog(<<r>>)
    BY <1>1, <1>6
  <2> HIDE DEF r
  <2>4. IsLog(log', End') /\ End' = End + 1 /\ Agree(log, log', End) /\ log'[End + 1] = r
    BY <2>2, <2>3, WriteOne DEF Inv, LogInv
  <2>5. Grows
    BY <1>2, <2>4 DEF Grows
  <2>6. trans[s].last \in ChainIn(log, End, trans[s].last)
    BY <1>2, <1>6, AtLogged, LogFacts DEF Inv, SlotInv, SlotOk
  <2> HIDE DEF s
  <2>7. WritesFor(s)
    BY <1>2, <1>3, <1>4, <1>6, <2>2, <2>4, <2>6, WritesOne
  <2> QED
    BY <2>5, <2>7
<1> QED
  BY <1>5, <1>6

LEMMA CommitWrites ==
    ASSUME Inv, NEW s \in Slot, Commit(s)
    PROVE  Grows /\ (Quietly \/ WritesFor(s))
<1> DEFINE r == TransRec("TRANS_COMMIT", s, trans[s].last)
           t == Logged(s, <<r>>)
<1>1. /\ work = Idle /\ trans[s].id # 0 /\ work' = [op |-> "commit", slot |-> s, next |-> 0]
      /\ \/ trans[s].first = 0 /\ UNCHANGED <<log, trans>>
         \/ trans[s].first # 0 /\ WriteLog(<<r>>) /\ trans' = [trans EXCEPT ![s] = t]
  BY DEF Commit, Free, Used
<1>2. End \in Nat /\ trans \in [Slot -> Trans]
  BY Sizes DEF Inv, SlotInv
<1>3. /\ \A u \in Slot : ~Ending(work, u) /\ (Ending(work', u) <=> u = s)
      /\ \A u \in Slot \ {s} : trans'[u] = trans[u]
  BY <1>1, <1>2 DEF Ending, Idle
<1>4. CASE trans[s].first = 0
  <2>1. trans[s].last = 0 /\ UNCHANGED <<log, trans>>
    BY <1>1, <1>4, AtLogged
  <2>2. \A u \in Slot : Running(u)' = Running(u)
    BY <1>3, <2>1 DEF Running
  <2> QED
    BY <2>1, <2>2, WritesNothing
<1>5. CASE trans[s].first # 0
  <2>1. trans[s].last # 0 /\ ~Ending(work, s) /\ "TRANS_COMMIT" \in Ends
    BY <1>3, <1>5, AtLogged DEF Ends
  <2>2. /\ RecordOk(log, r, End + 1) /\ OfTrans(r) /\ r.type \in Ends
        /\ r.trans = trans[s].id /\ r.prev = trans[s].last
    BY <2>1, EndRecordOk
  <2>3. WriteLog(<<r>>)
    BY <1>1, <1>5
  <2> HIDE DEF r
  <2>4. IsLog(log', End') /\ End' = End + 1 /\ Agree(log, log', End) /\ log'[End + 1] = r
    BY <2>2, <2>3, WriteOne DEF Inv, LogInv
  <2>5. Grows
    BY <1>2, <2>4 DEF Grows
  <2>6. trans[s].last \in ChainIn(log, End, trans[s].last)
    BY <2>1, AtLogged, LogFacts DEF Inv, SlotInv, SlotOk
  <2>7. WritesFor(s)
    BY <1>1, <1>3, <2>1, <2>2, <2>4, <2>6, WritesOne
  <2> QED
    BY <2>5, <2>7
<1> QED
  BY <1>1, <1>4, <1>5

LEMMA DoUpdateWrites ==
    ASSUME Inv, NEW s \in Slot, NEW i \in Items, NEW begins \in BOOLEAN, DoUpdate(s, i, begins)
    PROVE  Grows /\ WritesFor(s)
<1> DEFINE recs == BeginRecords(s) \o <<Update(s, PrevLSN(s), i)>>
           t == Logged(s, recs)
           v == [t EXCEPT !.save = IF begins THEN trans[s].last ELSE trans[s].save]
<1>1. /\ work = Idle /\ trans[s].id # 0 /\ WriteLog(recs)
      /\ trans' = [trans EXCEPT ![s] = v] /\ work' = work
  BY DEF DoUpdate, Free, Used
<1>2. /\ Grows /\ log'[End'].type = "UPDATE"
      /\ End' = IF trans[s].first = 0 THEN End + 2 ELSE End + 1
      /\ log'[End + 1].prev = trans[s].last
      /\ trans[s].first = 0 => log'[End'].prev = End + 1
      /\ \A n \in End + 1 .. End' :
            /\ OfTrans(log'[n]) /\ log'[n].trans = trans[s].id
            /\ n # End' => log'[n].type = "TRANS_BEGIN"
      /\ t \in Trans /\ t.last = End'
  BY <1>1, UpdateWrites
<1> HIDE DEF recs, t
<1>3. /\ trans \in [Slot -> Trans] /\ trans[s].id % MaxTrans = s /\ End \in Nat
      /\ (trans[s].first = 0 <=> trans[s].last = 0)
  BY <1>1, AtLogged DEF Inv, SlotInv, SlotOk
<1>4. v.last = End'
  BY <1>2 DEF Trans
<1> HIDE DEF v
<1>5. trans'[s].last = End' /\ \A u \in Slot \ {s} : trans'[u] = trans[u]
  BY <1>1, <1>3, <1>4
<1>6. \A u \in Slot : ~Ending(work, u) /\ ~Ending(work', u)
  BY <1>1 DEF Ending, Idle
<1>7. log'[End'].type \notin Ends
  BY <1>2 DEF Ends
<1>8. trans[s].last = 0 => log'[End + 1].type = "TRANS_BEGIN" /\ log'[End + 1].type \notin Ends
  <2>1. trans[s].last = 0 => End + 1 \in End + 1 .. End' /\ End + 1 # End'
    BY <1>2, <1>3
  <2> QED
    BY <1>2, <2>1 DEF Ends
<1>9. trans[s].last # 0 => log'[End + 1].prev \in ChainIn(log, End, trans[s].last)
  BY <1>2, <1>6, AtLogged, LogFacts DEF Inv, SlotInv, SlotOk
<1>10. /\ End' \in {End + 1, End + 2}
       /\ End' = End + 2 => trans[s].last = 0 /\ trans[s].first = 0
  BY <1>2, <1>3
<1>11. Running(s)' = End'
  BY <1>5, <1>6 DEF Running
<1>12. \A n \in End + 1 .. End' : OfTrans(log'[n]) /\ log'[n].trans % MaxTrans = s
  BY <1>2, <1>3
<1> QED
  BY <1>2, <1>5, <1>6, <1>7, <1>8, <1>9, <1>10, <1>11, <1>12 DEF WritesFor

-----------------------------------------------------------------------------
(* What is undone is on the chain of its transaction *)

LEMMA PrevOnChain ==
    ASSUME NEW L, NEW N, IsLog(L, N), NEW n \in 1 .. N, OfTrans(L[n])
    PROVE  L[n].prev \in {0} \cup ChainIn(L, N, n) /\ ChainIn(L, N, L[n].prev) \subseteq ChainIn(L, N, n)
<1>1. ChainIn(L, N, n) = {n} \cup ChainIn(L, N, L[n].prev) /\ LinkOk(L, L[n], n)
  BY LogFacts
<1>2. CASE L[n].prev # 0
  <2>1. L[n].prev \in 1 .. N /\ OfTrans(L[L[n].prev])
    BY <1>1, <1>2, LogFacts DEF LinkOk
  <2>2. L[n].prev \in ChainIn(L, N, L[n].prev)
    BY <2>1, LogFacts
  <2> QED
    BY <1>1, <2>2
<1> QED
  BY <1>1, <1>2

\* The work that is left alone still undoes records of the chain.
LEMMA UndoingOnChain ==
    ASSUME Inv, UndoInv, Grows, work' = work,
           work.op \in {"partial", "abort"} => trans'[work.slot].last = trans[work.slot].last
    PROVE  work'.op \in {"partial", "abort"} =>
             work'.next \in {0} \cup ChainIn(log', End', trans'[work'.slot].last)
<1> SUFFICES ASSUME work.op \in {"partial", "abort"}
             PROVE  work.next \in {0} \cup ChainIn(log', End', trans'[work.slot].last)
  OBVIOUS
<1> DEFINE l == trans[work.slot].last
<1>1. l \in 0 .. End /\ IsLog(log, End)
  BY AtLogged DEF Inv, WorkInv, LogInv
<1>2. ChainIn(log', End', l) = ChainIn(log, End, l)
  BY <1>1, ChainGrown DEF Grows
<1> QED
  BY <1>2 DEF UndoInv

LEMMA UndoStepOnChain ==
    ASSUME Inv, UndoInv, UndoStep, Inv'
    PROVE  work'.next \in {0} \cup ChainIn(log', End', trans'[work'.slot].last)
<1> DEFINE s == work.slot
           n == work.next
           p == log[n].prev
           l == trans[s].last
<1>1. Undoing /\ ~UndoneEnough
  BY DEF UndoStep
<1>2. /\ s \in Slot /\ work.op \in {"partial", "abort"} /\ n \in 1 .. l /\ n \in 1 .. End
      /\ RunsAt(log, n, trans[s].id) /\ p \in 0 .. n - 1 /\ l \in 1 .. End
  BY <1>1, Undone
<1>3. work'.next = p /\ work'.slot = s /\ IsLog(log, End) /\ End \in Nat
  BY Sizes DEF UndoStep, Inv, WorkInv, LogInv
<1>4. p \in {0} \cup ChainIn(log, End, l)
  <2>1. n \in ChainIn(log, End, l)
    BY <1>2 DEF UndoInv
  <2>2. ChainIn(log, End, n) \subseteq ChainIn(log, End, l)
    BY <1>2, <1>3, <2>1, ChainTrans
  <2>3. p \in {0} \cup ChainIn(log, End, n)
    BY <1>2, <1>3, PrevOnChain DEF RunsAt
  <2> QED
    BY <2>2, <2>3
<1>5. Grows /\ (Quietly \/ \E u : WritesFor(u))
  BY UndoStepWrites
<1>6. CASE log[n].type # "UPDATE"
  <2>1. UNCHANGED <<log, trans>>
    BY <1>6 DEF UndoStep
  <2>2. ChainIn(log', End', l) = ChainIn(log, End, l)
    BY <1>2, <1>3, <1>5, ChainGrown DEF Grows
  <2> QED
    BY <1>3, <1>4, <2>1, <2>2
<1>7. CASE log[n].type = "UPDATE"
  <2> DEFINE r == Compensation(s, n)
             t == Logged(s, <<r>>)
  <2>1. WriteLog(<<r>>) /\ trans' = [trans EXCEPT ![s] = t]
    BY <1>7 DEF UndoStep
  <2>2. RecordOk(log, r, End + 1) /\ OfTrans(r) /\ r.prev = p
    BY <1>1, <1>7, CompensationOk
  <2> HIDE DEF r
  <2>3. IsLog(log', End') /\ End' = End + 1 /\ Agree(log, log', End) /\ log'[End + 1] = r
    BY <1>3, <2>1, <2>2, WriteOne
  <2>4. t.last = End'
    <3>1. End' = End + Len(<<r>>)
      BY <2>3, OneIsOne
    <3>2. s \in Slot /\ trans \in [Slot -> Trans] /\ End' \in LSN /\ End + 1 \in LSN
      BY <1>2, <1>3, <2>3, LogFacts DEF LSN, Inv, SlotInv
    <3>3. t.id = trans[s].id /\ t.last = End' /\ t.save = trans[s].save
          /\ t.first = IF trans[s].first = 0 THEN End + 1 ELSE trans[s].first
      BY <3>1, <3>2, LoggedFields
    <3> QED
      BY <3>3
  <2> HIDE DEF t
  <2>5. trans'[s].last = End'
    BY <1>2, <2>1, <2>4 DEF Inv, SlotInv
  <2>6. End' \in 1 .. End' /\ OfTrans(log'[End']) /\ log'[End'].prev = p
    BY <1>3, <2>2, <2>3
  <2>7. p \in {0} \cup ChainIn(log', End', End')
    BY <2>3, <2>6, PrevOnChain
  <2> QED
    BY <1>3, <2>5, <2>7
<1> QED
  BY <1>6, <1>7

LEMMA UndoKept ==
    ASSUME Inv, UndoInv, Inv', [Next]_vars
    PROVE  UndoInv'
<1>1. work'.op \in {"partial", "abort"} =>
         work'.next \in {0} \cup ChainIn(log', End', trans'[work'.slot].last)
  <2>1. CASE Begin \/ \E s \in Slot : \E i \in Items, begins \in BOOLEAN : DoUpdate(s, i, begins)
    <3>1. CASE Begin
      <4>1. work' = Idle
        BY <3>1, Zenon DEF Begin, Free
      <4> QED
        BY <4>1 DEF Idle
    <3>2. CASE \E s \in Slot : \E i \in Items, begins \in BOOLEAN : DoUpdate(s, i, begins)
      <4>1. work' = Idle
        BY <3>2, Zenon DEF DoUpdate, Free
      <4> QED
        BY <4>1 DEF Idle
    <3> QED
      BY <2>1, <3>1, <3>2
  <2>2. CASE EndPartialRollback \/ EndAbort \/ EndCommit \/ CheckpointAtCommit \/ Crash \/ Open
    BY <2>2 DEF EndPartialRollback, EndAbort, EndCommit, CheckpointAtCommit, Crash, Open, Idle
  <2>3. CASE UndoStep
    BY <2>3, UndoStepOnChain
  <2>4. CASE \E s \in Slot : Commit(s)
    BY <2>4 DEF Commit
  <2>5. CASE \E s \in Slot : PartialRollback(s) \/ Abort(s)
    <3>1. PICK s \in Slot : PartialRollback(s) \/ Abort(s)
      BY <2>5
    <3>2. work = Idle /\ UNCHANGED <<log, trans>> /\ work'.slot = s /\ work'.next = trans[s].last
      BY <3>1 DEF PartialRollback, Abort, Free, logs
    <3>3. /\ trans[s].last \in 0 .. End /\ IsLog(log', End') /\ End' = End
          /\ trans[s].last # 0 => OfTrans(log[trans[s].last])
      BY <3>2, AtLogged, GrowsSame DEF Inv, Grows, SlotInv, SlotOk
    <3>4. trans[s].last # 0 => trans[s].last \in ChainIn(log', End', trans[s].last)
      BY <3>2, <3>3, LogFacts
    <3> QED
      BY <3>2, <3>4
  <2>6. CASE CheckpointNext /\ ~CheckpointAtCommit
    <3>1. Grows /\ UNCHANGED trans /\ (work' = work \/ work' = Idle)
      BY <2>6, CheckpointWrites
    <3>2. CASE work' = work
      BY <3>1, <3>2, UndoingOnChain
    <3>3. CASE work' = Idle
      BY <3>3 DEF Idle
    <3> QED
      BY <3>1, <3>2, <3>3
  <2>7. CASE UNCHANGED vars
    <3>1. UNCHANGED <<log, trans, work>>
      BY <2>7 DEF vars, logs
    <3> QED
      BY <3>1, GrowsSame, UndoingOnChain DEF Inv
  <2> QED
    BY <2>1, <2>2, <2>3, <2>4, <2>5, <2>6, <2>7 DEF Next, TransNext
<1>2. stage' = "anchor" => (log[End].active = Active /\ unsettled < End)'
  <2>1. CASE TransNext
    BY <2>1 DEF TransNext, Begin, UndoStep, EndPartialRollback, EndAbort, EndCommit, PartialRollback,
                Abort, Commit, DoUpdate, Free, Undoing
  <2>2. CASE CheckpointNext /\ ~CheckpointEnd
    BY <2>2 DEF CheckpointNext, CheckpointAtCommit, Checkpoint, StartCheckpoint, SkipCheckpoint,
                CheckpointPages, CheckpointPage0, CheckpointAnchor, CheckpointFails, DeleteLogFiles,
                ReplaceBuffer
  <2>3. CASE CheckpointEnd
    <3>1. stage = "end" /\ WriteLog(<<EndChkpt(Active)>>) /\ UNCHANGED <<trans, unsettled>>
      BY <2>3 DEF CheckpointEnd, life
    <3>2. RecordOk(log, EndChkpt(Active), End + 1) /\ EndChkpt(Active).active = Active
      BY <3>1, EndChkptOk DEF Inv, StageInv, EndChkpt
    <3>3. End' = End + 1 /\ log'[End + 1] = EndChkpt(Active)
      BY <3>1, <3>2, WriteOne DEF Inv, LogInv
    <3>4. Active' = Active
      BY <3>1 DEF Active
    <3>5. unsettled' < End'
      BY <3>1, <3>3, Sizes DEF Inv, LogInv
    <3> QED
      BY <3>2, <3>3, <3>4, <3>5
  <2>4. CASE Crash \/ Open
    BY <2>4 DEF Crash, Open, Inv, StageInv
  <2>5. CASE UNCHANGED vars
    <3>1. UNCHANGED <<log, trans, stage, unsettled>>
      BY <2>5 DEF vars, logs, life
    <3>2. End' = End /\ Active' = Active
      BY <3>1, GrowsSame DEF Inv, Active
    <3> QED
      BY <3>1, <3>2 DEF UndoInv
  <2> QED
    BY <2>1, <2>2, <2>3, <2>4, <2>5 DEF Next
<1> QED
  BY <1>1, <1>2 DEF UndoInv

-----------------------------------------------------------------------------
(* Steps that leave the log anchor alone keep the tables *)

LEMMA TransOnward ==
    ASSUME Inv, Inv', TransNext, Grows
    PROVE  Onward /\ anchorLSN' = anchorLSN
<1>1. stable \in 2 .. End /\ End \in Nat /\ End' \in Nat /\ End <= End'
  BY Sizes, GrowsFacts DEF Inv
<1>2. CASE EndCommit
  <2>1. /\ up /\ UNCHANGED <<anchorLSN, log, anchor, up, unsettled>>
        /\ stable' \in {stable, End}
    BY <1>2 DEF EndCommit, pages, life
  <2> QED
    BY <1>1, <2>1 DEF Onward
<1>3. CASE ~EndCommit
  <2>1. up /\ UNCHANGED <<anchorLSN, stable, anchor, up, unsettled>>
    <3>1. CASE Begin
      BY <3>1, Zenon DEF Begin, Free, logs, pages, life
    <3>2. CASE UndoStep \/ EndPartialRollback \/ EndAbort
      BY <3>2 DEF UndoStep, EndPartialRollback, EndAbort, Undoing, logs, pages, life
    <3>3. CASE \E s \in Slot : PartialRollback(s) \/ Abort(s) \/ Commit(s)
      BY <3>3 DEF PartialRollback, Abort, Commit, Free, logs, pages, life
    <3>4. CASE \E s \in Slot : \E i \in Items, begins \in BOOLEAN : DoUpdate(s, i, begins)
      BY <3>4 DEF DoUpdate, Free, life
    <3> QED
      BY <1>3, <3>1, <3>2, <3>3, <3>4 DEF TransNext
  <2> QED
    BY <1>1, <2>1 DEF Onward
<1> QED
  BY <1>2, <1>3

LEMMA TransLosers ==
    ASSUME Inv, UndoInv, Inv', SaveInv', NEW b \in Nat, LosersFrom(b), TransNext
    PROVE  LosersFrom(b)'
<1>1. Grows /\ (Quietly \/ \E s : WritesFor(s))
  BY BeginWrites, UndoStepWrites, RollbackWrites, EndAbortWrites, EndCommitWrites, CommitWrites,
     DoUpdateWrites DEF TransNext
<1>2. Onward /\ \A x \in anchorLSN' : b <= x
  BY <1>1, TransOnward DEF LosersFrom
<1>3. CASE Quietly
  BY <1>2, <1>3, CarriedQuietly DEF Quietly
<1>4. CASE \E s : WritesFor(s)
  BY <1>2, <1>4, CarriedWrites
<1> QED
  BY <1>1, <1>3, <1>4

LEMMA CheckpointQuiet ==
    ASSUME Inv, CheckpointNext
    PROVE  Grows /\ Quietly
<1>1. Grows /\ \A n \in End + 1 .. End' : ~OfTrans(log'[n])
  BY CheckpointWrites
<1>2. CASE CheckpointAtCommit
  <2>1. work.op = "commit" /\ DelTrans(work.slot) /\ work' = Idle
    BY <1>2 DEF CheckpointAtCommit
  <2> QED
    BY <1>1, <2>1, EndCommitQuiet DEF Quietly
<1>3. CASE ~CheckpointAtCommit
  <2>1. UNCHANGED trans /\ (work' = work \/ (work.op = "restart" /\ work' = Idle))
    BY <1>3, CheckpointWrites
  <2>2. \A s \in Slot : Ending(work', s) <=> Ending(work, s)
    BY <2>1 DEF Ending, Idle
  <2> QED
    BY <1>1, <2>1, <2>2 DEF Quietly, Running
<1> QED
  BY <1>2, <1>3

LEMMA CheckpointOnward ==
    ASSUME Inv, Inv', CheckpointNext, ~CheckpointAnchor
    PROVE  /\ Onward
           /\ \A x \in anchorLSN' : x \in anchorLSN \/ x = End
<1>1. Grows /\ stable \in 2 .. End /\ End \in Nat /\ End' \in Nat /\ End <= End'
  BY CheckpointQuiet, Sizes, GrowsFacts DEF Inv
<1>2. CASE CheckpointAtCommit \/ Checkpoint
  <2>1. up /\ UNCHANGED <<anchorLSN, anchor, up, unsettled>> /\ (StartCheckpoint \/ SkipCheckpoint)
    BY <1>2 DEF CheckpointAtCommit, Checkpoint, pages, life
  <2>2. stable' \in stable .. End'
    BY <2>1, CheckpointStarts DEF Inv
  <2> QED
    BY <1>1, <2>1, <2>2 DEF Onward
<1>3. CASE CheckpointEnd
  <2>1. /\ stage = "end" /\ anchorLSN' = {Max(anchorLSN)} /\ stable' = End + 1
        /\ UNCHANGED <<anchor, up, unsettled>>
    BY <1>3 DEF CheckpointEnd, life
  <2>2. up
    BY <2>1 DEF Inv, StageInv
  <2>3. Max(anchorLSN) \in anchorLSN
    <3>1. anchorLSN \subseteq 1 .. stable /\ anchorLSN # {} /\ stable \in Nat
      BY <1>1 DEF Inv, DiskInv
    <3>2. anchorLSN \subseteq Nat /\ \A x \in anchorLSN : x <= stable
      BY <3>1
    <3> QED
      BY <3>1, <3>2, MaxIs
  <2>4. stable' \in stable .. End'
    <3>1. stable' <= End'
      BY <1>1 DEF Inv, LogInv
    <3> QED
      BY <1>1, <2>1, <3>1
  <2> QED
    BY <1>1, <2>1, <2>2, <2>3, <2>4 DEF Onward
<1>4. CASE CheckpointPages \/ CheckpointPage0 \/ CheckpointFails \/ DeleteLogFiles
  <2>1. /\ stage # "none" /\ UNCHANGED <<stable, anchor, up, unsettled>>
        /\ anchorLSN' = anchorLSN \/ anchorLSN' = anchorLSN \cup {End}
    BY <1>4 DEF CheckpointPages, CheckpointPage0, CheckpointFails, DeleteLogFiles, logs, pages, life
  <2>2. up
    BY <2>1 DEF Inv, StageInv
  <2>3. stable' \in stable .. End'
    BY <1>1, <2>1
  <2> QED
    BY <1>1, <2>1, <2>2, <2>3 DEF Onward
<1>5. CASE \E i \in Items : ReplaceBuffer(i)
  <2>1. up /\ UNCHANGED <<anchorLSN, anchor, up, unsettled>> /\ stable' = End
    BY <1>5 DEF ReplaceBuffer, life
  <2>2. stable' \in stable .. End'
    BY <1>1, <2>1
  <2> QED
    BY <1>1, <2>1, <2>2 DEF Onward
<1> QED
  BY <1>2, <1>3, <1>4, <1>5 DEF CheckpointNext

LEMMA CheckpointLosers ==
    ASSUME Inv, Inv', NEW b \in Nat, LosersFrom(b), CheckpointNext, ~CheckpointAnchor
    PROVE  LosersFrom(b)'
<1>1. Onward /\ \A x \in anchorLSN' : x \in anchorLSN \/ x = End
  BY CheckpointOnward
<1>2. b <= End
  <2>1. anchorLSN # {} /\ anchorLSN \subseteq 1 .. stable /\ stable \in 2 .. End /\ End \in Nat
    BY Sizes DEF Inv, DiskInv
  <2>2. PICK x \in anchorLSN : x \in 1 .. stable /\ b <= x
    BY <2>1 DEF LosersFrom
  <2> QED
    BY <2>1, <2>2
<1>3. \A x \in anchorLSN' : b <= x
  BY <1>1, <1>2 DEF LosersFrom
<1> QED
  BY <1>1, <1>3, CheckpointQuiet, CarriedQuietly DEF Quietly

-----------------------------------------------------------------------------
(* The log anchor, a crash, and the start after it *)

LEMMA AnchorLosers ==
    ASSUME Inv, SaveInv, UndoInv, Inv', CheckpointAnchor
    PROVE  LosersFrom(0)'
<1>1. /\ stage = "anchor" /\ anchor'.end = End
      /\ UNCHANGED <<anchorLSN, log, stable, trans, work, up, unsettled>>
  BY DEF CheckpointAnchor, life
<1>2. /\ IsLog(log, End) /\ End' = End /\ End \in Nat /\ up /\ work.op # "commit" /\ stable = End
      /\ log[End].active = Active /\ log[End].type = "END_CHKPT" /\ stable \in 2 .. End
  BY <1>1, GrowsSame, Sizes DEF Inv, LogInv, StageInv, UndoInv
<1>3. Anchored(log, End, End)
  BY <1>2 DEF Anchored
<1>4. ASSUME NEW s \in Slot
      PROVE  LastIn(log, End, End, 0, End, s) = trans[s].last /\ Running(s)' = trans[s].last
  <2>1. Unfolds(log, End, End, 0, s)
    BY <1>3, LastUnfolds
  <2>2. LastIn(log, End, End, 0, End, s) = log[End].active[s].last
    BY <2>1 DEF Unfolds
  <2>3. Active[s].last = trans[s].last
    BY DEF Active
  <2>4. Running(s)' = trans[s].last
    BY <1>1, <1>2 DEF Running, Ending
  <2> QED
    BY <1>2, <2>2, <2>3, <2>4
<1>5. Apart(log, End, End, 0, End)
  <2>1. \A s \in Slot : ~Ending(work, s)
    BY <1>2 DEF Ending
  <2> QED
    BY <1>4, <2>1, RunningApart DEF Apart
<1>6. Follows(log, End, End, 0, unsettled)
  BY <1>2 DEF Follows
<1>7. \A x \in anchorLSN' : 0 <= x
  BY <1>1, <1>2 DEF Inv, DiskInv
<1>8. \A k \in stable .. End : k = End
  BY <1>2
<1> QED
  BY <1>1, <1>2, <1>4, <1>5, <1>6, <1>7, <1>8 DEF LosersFrom

\* What a table that skips the records before a has, compared with one that
\* skips those before b.
LEMMA SkipsMore ==
    ASSUME Inv, NEW b \in Nat, LosersFrom(b), NEW a \in anchorLSN, Sound(a),
           "window" \in Faults \/ ~HalfAnchored(a)
    PROVE  /\ a <= anchor.end => \A j \in anchor.end .. End, s \in Slot :
                LastIn(log, End, anchor.end, a, j, s) = LastIn(log, End, anchor.end, b, j, s)
           /\ \A j \in anchor.end .. End, s \in Slot :
                unsettled < anchor.end \/ j <= unsettled =>
                  LastIn(log, End, anchor.end, a, j, s) \in {0, LastIn(log, End, anchor.end, b, j, s)}
<1> DEFINE e == anchor.end
<1>1. /\ Anchored(log, End, e) /\ End \in Nat /\ e \in Nat /\ e <= End /\ e >= 1
      /\ a \in Nat /\ b <= a
  BY LogAnchored, Sizes DEF Inv, DiskInv, LosersFrom
<1>2. ASSUME a <= e
      PROVE  \A j \in e .. End, s \in Slot : LastIn(log, End, e, a, j, s) = LastIn(log, End, e, b, j, s)
  <2>1. b <= e
    BY <1>1, <1>2
  <2> QED
    BY <1>1, <1>2, <2>1, LastNone
<1>3. ASSUME ~(a <= e), NEW j \in e .. End, NEW s \in Slot, unsettled < e \/ j <= unsettled
      PROVE  LastIn(log, End, e, a, j, s) \in {0, LastIn(log, End, e, b, j, s)}
  <2>1. "window" \notin Faults /\ Sound(b)
    BY <1>3 DEF Sound
  <2>2. \A n \in e .. a - 1 : n <= j /\ OfTrans(log[n]) =>
           \A v \in Slot : log[e].active[v].id # log[n].trans
    BY <2>1 DEF HalfAnchored
  <2>3. \A n \in e + 1 .. j : n >= b /\ OfTrans(log[n]) => Continues(log, End, e, b, n)
    <3> TAKE n \in e + 1 .. j
    <3>1. n \in e + 1 .. End /\ (unsettled < e \/ n <= unsettled)
      BY <1>1, <1>3, Sizes DEF Inv, LogInv
    <3> QED
      BY <2>1, <3>1 DEF LosersFrom, Follows
  <2>4. j \in e .. j
    BY <1>1
  <2> QED
    BY <1>1, <2>2, <2>3, <2>4, LastSkips
<1>4. ASSUME NEW j \in e .. End, NEW s \in Slot, unsettled < e \/ j <= unsettled
      PROVE  LastIn(log, End, e, a, j, s) \in {0, LastIn(log, End, e, b, j, s)}
  BY <1>2, <1>3, <1>4
<1> QED
  BY <1>2, <1>4

\* So do those that a crash may leave.
LEMMA SkipsAt ==
    ASSUME Inv, NEW b \in Nat, LosersFrom(b), NEW a \in anchorLSN, Sound(a),
           "window" \in Faults \/ ~HalfAnchored(a), NEW k \in stable .. End,
           Quiet(log, anchor.end, unsettled, k), NEW s \in Slot
    PROVE  LastIn(log, End, anchor.end, a, k, s) \in {0, LastIn(log, End, anchor.end, b, k, s)}
<1> DEFINE e == anchor.end
           u == unsettled
<1>1. /\ Anchored(log, End, e) /\ End \in Nat /\ stable \in 2 .. End /\ e \in 1 .. stable
      /\ u \in 0 .. stable /\ k \in e .. End
  BY LogAnchored, Sizes DEF Inv, LogInv
<1>2. \A j \in e .. End : u < e \/ j <= u =>
         LastIn(log, End, e, a, j, s) \in {0, LastIn(log, End, e, b, j, s)}
  BY SkipsMore
<1>3. CASE u < e
  BY <1>1, <1>2, <1>3
<1>4. CASE ~(u < e)
  <2>1. u \in e .. End /\ k \in u .. End /\ k \in u .. k /\ \A n \in u + 1 .. k : ~OfTrans(log[n])
    BY <1>1, <1>4 DEF Quiet
  <2>2. /\ LastIn(log, End, e, a, k, s) = LastIn(log, End, e, a, u, s)
        /\ LastIn(log, End, e, b, k, s) = LastIn(log, End, e, b, u, s)
    BY <1>1, <2>1, LastQuiet
  <2>3. u <= u
    BY <1>1
  <2> QED
    BY <1>2, <2>1, <2>2, <2>3
<1> QED
  BY <1>3, <1>4

LEMMA CrashLosers ==
    ASSUME Inv, Inv', "unsettled" \notin Faults, NEW b \in Nat, LosersFrom(b), Crash
    PROVE  \E c \in Nat : LosersFrom(c)'
<1> DEFINE e == anchor.end
           u == unsettled
<1>1. PICK k \in stable .. End, a \in anchorLSN :
        /\ "window" \in Faults \/ ~HalfAnchored(a)
        /\ ~UndoneInMemory(k)
        /\ log' = SubSeq(log, 1, k) /\ stable' = k /\ anchorLSN' = {a}
  BY DEF Crash
<1>2. ~up' /\ UNCHANGED <<anchor, unsettled>>
  BY DEF Crash
<1>3. /\ Anchored(log, End, e) /\ IsLog(log, End) /\ End \in Nat /\ stable \in 2 .. End
      /\ e \in 1 .. stable /\ u \in 0 .. stable /\ a \in Nat /\ b <= a
  BY LogAnchored, Sizes DEF Inv, LogInv, DiskInv, LosersFrom
<1>4. k \in 0 .. End /\ k \in e .. End /\ k \in Nat /\ u <= k /\ e \in Nat /\ u \in Nat
  BY <1>3
<1>5. IsLog(log', End') /\ End' = k /\ Agree(log', log, k) /\ \A n \in 1 .. k : log'[n] = log[n]
  BY <1>1, <1>3, <1>4, LogPrefix DEF Agree
<1>6. Alike(log, End, log', End', e, k)
  <2>1. Anchored(log', End', e)
    BY <1>2, LogAnchoredNext DEF Inv
  <2>2. Agree(log, log', k) /\ k <= End'
    BY <1>4, <1>5 DEF Agree
  <2> QED
    BY <1>3, <1>4, <2>1, <2>2 DEF Alike
<1>7. Quiet(log, e, u, k) /\ Quiet(log', e, u, k)
  <2>1. u < e \/ \A n \in u + 1 .. k : ~OfTrans(log[n])
    BY <1>1, <1>3, <1>4 DEF UndoneInMemory
  <2>2. \A n \in u + 1 .. k : log'[n] = log[n]
    BY <1>3, <1>4, <1>5
  <2> QED
    BY <2>1, <2>2 DEF Quiet
<1>8. ASSUME Sound(a)
      PROVE  Follows(log', End', e, a, u) /\ Apart(log', End', e, a, k)
  <2>1. Sound(b)
    BY <1>3, <1>8 DEF Sound
  <2>2. /\ Follows(log, End, e, b, u) /\ Apart(log, End, e, b, k)
    BY <1>7, <2>1 DEF LosersFrom
  <2>3. /\ a <= e => \A j \in e .. End, s \in Slot : LastIn(log, End, e, a, j, s) = LastIn(log, End, e, b, j, s)
        /\ \A j \in e .. End, s \in Slot : u < e \/ j <= u =>
             LastIn(log, End, e, a, j, s) \in {0, LastIn(log, End, e, b, j, s)}
    BY <1>1, <1>8, SkipsMore
  <2>4. ASSUME NEW n \in e + 1 .. k, n >= a, OfTrans(log[n]), u < e \/ n <= u
        PROVE  Continues(log, End, e, a, n)
    <3> DEFINE s == log[n].trans % MaxTrans
    <3>1. n \in e + 1 .. End /\ n - 1 \in e .. End /\ n \in 1 .. End /\ n >= b
          /\ (u < e \/ n - 1 <= u)
      BY <1>3, <1>4, <2>4
    <3>2. Continues(log, End, e, b, n)
      BY <2>2, <2>4, <3>1 DEF Follows
    <3>3. s \in Slot
      BY <1>3, <2>4, <3>1, SlotOfRecord
    <3>4. LastIn(log, End, e, a, n - 1, s) \in {0, LastIn(log, End, e, b, n - 1, s)}
      BY <2>3, <3>1, <3>3
    <3>5. a <= e => b <= e /\ LastIn(log, End, e, a, n - 1, s) = LastIn(log, End, e, b, n - 1, s)
      BY <1>3, <1>4, <2>3, <3>1, <3>3
    <3> QED
      BY <3>2, <3>4, <3>5 DEF Continues
  <2>5. Follows(log', End', e, a, u)
    <3> SUFFICES ASSUME NEW n \in e + 1 .. End', n >= a, OfTrans(log'[n]), u < e \/ n <= u
                 PROVE  Continues(log', End', e, a, n)
      BY DEF Follows
    <3>1. n \in e + 1 .. k /\ OfTrans(log[n])
      BY <1>3, <1>4, <1>5
    <3>2. Continues(log, End, e, a, n)
      BY <2>4, <3>1
    <3> QED
      BY <1>6, <3>1, <3>2, ContinuesSame
  <2>6. \A s \in Slot : LastIn(log, End, e, a, k, s) \in {0, LastIn(log, End, e, b, k, s)}
    BY <1>1, <1>7, <1>8, SkipsAt
  <2>7. Apart(log, End, e, a, k)
    <3> SUFFICES ASSUME NEW s \in Slot, NEW v \in Slot, s # v
                 PROVE  Disjoint(log, End, LastIn(log, End, e, a, k, s), LastIn(log, End, e, a, k, v))
      BY DEF Apart
    <3>1. Disjoint(log, End, LastIn(log, End, e, b, k, s), LastIn(log, End, e, b, k, v))
      BY <2>2 DEF Apart
    <3> QED
      BY <1>3, <2>6, <3>1, EmptyDisjoint
  <2>8. k \in e .. k
    BY <1>3, <1>4
  <2> QED
    BY <1>6, <2>5, <2>7, <2>8, ApartSame
<1>9. \A j \in stable' .. End' : j = k
  BY <1>1, <1>4, <1>5
<1>10. Sound(a)' <=> Sound(a)
  BY <1>2 DEF Sound
<1>11. \A x \in anchorLSN' : a <= x
  BY <1>1, <1>3
<1>12. LosersFrom(a)'
  BY <1>1, <1>2, <1>5, <1>7, <1>8, <1>9, <1>10, <1>11 DEF LosersFrom
<1> QED
  BY <1>3, <1>12

LEMMA OpenLosers ==
    ASSUME Inv, Inv', NEW b \in Nat, LosersFrom(b), Open
    PROVE  LosersFrom(b)'
<1> DEFINE e == anchor.end
           u == unsettled
<1>1. /\ ~up /\ up' /\ unsettled' = IF Losers \ {0} # {} THEN End ELSE 0
      /\ UNCHANGED <<anchorLSN, log, stable, anchor, trans>>
      /\ work' \in {Idle, [Idle EXCEPT !.op = "restart"]}
  BY DEF Open, logs
<1>2. /\ End' = End /\ Anchored(log, End, e) /\ End \in Nat /\ e \in 1 .. End /\ stable = End
      /\ u \in 0 .. End /\ e \in Nat
  BY <1>1, GrowsSame, LogAnchored, Sizes DEF Inv, LogInv, StageInv
<1>3. anchorLSN = {b} /\ SkippedBefore = b /\ Quiet(log, e, u, End)
  BY <1>1 DEF LosersFrom, SkippedBefore
<1>4. \A s \in Slot : Running(s)' = 0
  <2> TAKE s \in Slot
  <2>1. trans[s].last = 0
    BY <1>1 DEF Inv, StageInv, SlotInv, SlotOk, Used, NoTrans
  <2> QED
    BY <1>1, <2>1 DEF Running
<1>5. ASSUME unsettled' < e, NEW s \in Slot
      PROVE  LastIn(log, End, e, b, End, s) = 0
  <2>1. Losers \subseteq {0}
    BY <1>1, <1>2, <1>5
  <2>2. TableAfterRedo[s].id # 0 => TableAfterRedo[s].last \in Losers
    BY DEF Losers
  <2>3. TableAfterRedo = TableIn(log, End, e, b, End)
    BY <1>3, TableIsTableIn
  <2>4. End \in e .. End
    BY <1>2
  <2>5. TableIn(log, End, e, b, End)[s].id = 0 => LastIn(log, End, e, b, End, s) = 0
    BY <1>2, <2>4, LastLogged
  <2> QED
    BY <2>1, <2>2, <2>3, <2>5 DEF LastIn
<1>6. ASSUME Sound(b)
      PROVE  Follows(log, End, e, b, unsettled') /\ Apart(log, End, e, b, End)
  <2>1. Follows(log, End, e, b, u) /\ Apart(log, End, e, b, End)
    <3>1. End \in stable .. End
      BY <1>2
    <3> QED
      BY <1>3, <1>6, <3>1 DEF LosersFrom
  <2>2. ASSUME NEW n \in e + 1 .. End, OfTrans(log[n])
        PROVE  u < e \/ n <= u
    BY <1>2, <1>3, <2>2 DEF Quiet
  <2> QED
    BY <2>1, <2>2 DEF Follows
<1>7. \A k \in stable' .. End' : k = End
  BY <1>1, <1>2
<1>8. (Sound(b)' <=> Sound(b)) /\ \A x \in anchorLSN' : b <= x
  BY <1>1 DEF Sound, LosersFrom
<1> QED
  BY <1>1, <1>2, <1>4, <1>5, <1>6, <1>7, <1>8 DEF LosersFrom

LEMMA LosersStart == Init => UndoInv /\ LosersFrom(0)
<1> SUFFICES ASSUME Init PROVE UndoInv /\ LosersFrom(0)
  OBVIOUS
<1>1. Inv
  BY Starts
<1>2. /\ anchorLSN = {1} /\ up /\ unsettled = 0 /\ anchor.end = 2 /\ stable = 2 /\ stage = "none"
      /\ trans = [s \in Slot |-> NoTrans] /\ work = Idle
      /\ log = <<BeginChkpt, EndChkpt([s \in Slot |-> NoEntry])>>
  BY DEF Init
<1>3. log[2].active = [s \in Slot |-> NoEntry] /\ Len(log) = 2
  BY <1>2 DEF EndChkpt
<1>4. End = 2 /\ IsLog(log, End) /\ Anchored(log, 2, 2)
  <2>1. End = 2
    BY <1>3, Zenon DEF End
  <2> QED
    BY <1>1, <1>2, <2>1, LogAnchored DEF Inv, LogInv
<1>5. ASSUME NEW s \in Slot PROVE LastIn(log, 2, 2, 0, 2, s) = 0 /\ Running(s) = 0
  <2>1. Unfolds(log, 2, 2, 0, s)
    BY <1>4, LastUnfolds
  <2>2. LastIn(log, 2, 2, 0, 2, s) = log[2].active[s].last
    BY <2>1 DEF Unfolds
  <2> QED
    BY <1>2, <1>3, <2>2 DEF NoEntry, Running, NoTrans
<1>6. UndoInv
  BY <1>2 DEF UndoInv, Idle
<1>7. Apart(log, 2, 2, 0, 2)
  BY <1>4, <1>5, EmptyDisjoint DEF Apart
<1>8. Follows(log, 2, 2, 0, 0) /\ \A k \in 2 .. 2 : k = 2
  BY DEF Follows
<1>9. LosersFrom(0)
  BY <1>2, <1>4, <1>5, <1>7, <1>8 DEF LosersFrom
<1> QED
  BY <1>6, <1>9

LEMMA SameLosers ==
    ASSUME Inv, UNCHANGED vars, NEW b \in Nat, LosersFrom(b)
    PROVE  LosersFrom(b)'
<1>1. UNCHANGED <<anchorLSN, log, stable, anchor, trans, work, up, unsettled>>
  BY DEF vars, pages, logs, life
<1>2. End' = End /\ (Sound(b)' <=> Sound(b)) /\ \A s \in Slot : Running(s)' = Running(s)
  BY <1>1, GrowsSame DEF Inv, Sound, Running
<1> QED
  BY <1>1, <1>2 DEF LosersFrom

LEMMA LoserStep ==
    ASSUME Inv, SaveInv, LoserInv, Inv', SaveInv', [Next]_vars, "unsettled" \notin Faults
    PROVE  LoserInv'
<1>1. UndoInv /\ UndoInv'
  BY UndoKept DEF LoserInv
<1>2. PICK b \in Nat : LosersFrom(b)
  BY DEF LoserInv
<1>3. CASE TransNext
  BY <1>1, <1>2, <1>3, TransLosers DEF LoserInv
<1>4. CASE CheckpointNext /\ ~CheckpointAnchor
  BY <1>1, <1>2, <1>4, CheckpointLosers DEF LoserInv
<1>5. CASE CheckpointAnchor
  BY <1>1, <1>5, AnchorLosers DEF LoserInv
<1>6. CASE Crash
  BY <1>1, <1>2, <1>6, CrashLosers DEF LoserInv
<1>7. CASE Open
  BY <1>1, <1>2, <1>7, OpenLosers DEF LoserInv
<1>8. CASE UNCHANGED vars
  BY <1>1, <1>2, <1>8, SameLosers DEF LoserInv
<1> QED
  BY <1>3, <1>4, <1>5, <1>6, <1>7, <1>8 DEF Next, CheckpointNext

-----------------------------------------------------------------------------
(* The losers are the transactions that have not ended *)

Named(L, a) == {L[a].active[s].last : s \in Slot} \ {0}
After(L, N, a) == {n \in a + 1 .. N : OfTrans(L[n])}
First(L, N, n) == Min(ChainIn(L, N, n))

\* Up to record k, the table has the records of slot s that no later one of the
\* same transaction follows and that do not end it.
Latest(L, N, a, b, k, s) ==
    LET l == LastIn(L, N, a, b, k, s)
    IN  /\ l # 0 => /\ l \in Named(L, a) \cup After(L, N, a)
                    /\ \A m \in After(L, N, a) : l < m /\ m <= k => First(L, N, m) # First(L, N, l)
        /\ \A n \in Named(L, a) \cup After(L, N, a) :
             n <= k /\ L[n].type \notin Ends /\ L[n].trans % MaxTrans = s /\ n # l =>
               \E m \in After(L, N, a) : n < m /\ m <= k /\ First(L, N, m) = First(L, N, n)

\* Two records with the same first record are of one transaction.
LEMMA FirstTrans ==
    ASSUME NEW L, NEW N, IsLog(L, N), NEW m \in 1 .. N, NEW n \in 1 .. N,
           OfTrans(L[m]), OfTrans(L[n]), First(L, N, m) = First(L, N, n)
    PROVE  L[m].trans = L[n].trans
<1>1. ASSUME NEW x \in 1 .. N, OfTrans(L[x])
      PROVE  First(L, N, x) \in ChainIn(L, N, x) /\ L[First(L, N, x)].trans = L[x].trans
  <2>1. ChainIn(L, N, x) \subseteq 1 .. N /\ x \in ChainIn(L, N, x) /\ x \in 0 .. N
    BY <1>1, LogFacts, ChainInside
  <2>2. First(L, N, x) \in ChainIn(L, N, x)
    BY <2>1, MinIs DEF First
  <2> QED
    BY <2>1, <2>2, ChainTrans
<1> QED
  BY <1>1

\* A record that continues a chain has the same first record.
LEMMA FirstOnChain ==
    ASSUME NEW L, NEW N, IsLog(L, N), NEW l \in 1 .. N, NEW n \in 1 .. N, OfTrans(L[n]),
           L[n].prev \in ChainIn(L, N, l)
    PROVE  First(L, N, n) = First(L, N, l)
<1>1. L[n].prev # 0 /\ L[n].prev \in ChainIn(L, N, n)
  <2>1. L[n].prev \in 1 .. l /\ N \in Nat
    BY ChainTrans, LogFacts
  <2> QED
    BY <2>1, PrevOnChain
<1>2. First(L, N, L[n].prev) = First(L, N, n) /\ First(L, N, L[n].prev) = First(L, N, l)
  BY <1>1, ChainTrans, LogFacts DEF First
<1> QED
  BY <1>2

LEMMA LatestInTable ==
    ASSUME NEW L, NEW N, NEW a, Anchored(L, N, a), NEW b \in Nat, b <= a,
           \A n \in a + 1 .. N : OfTrans(L[n]) => Continues(L, N, a, b, n),
           NEW s \in Slot
    PROVE  \A k \in a .. N : Latest(L, N, a, b, k, s)
<1>1. /\ IsLog(L, N) /\ N \in Nat /\ a \in Nat /\ a \in 1 .. N
      /\ TableOk(L, L[a].active, a)
  <2>1. IsLog(L, N) /\ a \in 1 .. N /\ TableOk(L, L[a].active, a)
    BY LogTabled DEF Anchored
  <2> QED
    BY <2>1, LogFacts
<1> DEFINE l(n) == LastIn(L, N, a, b, n, s)
           first(n) == First(L, N, n)
           all == Named(L, a) \cup After(L, N, a)
           Slotted(n) == L[n].type \notin Ends /\ L[n].trans % MaxTrans = s
           T == {k \in a .. N : Latest(L, N, a, b, k, s)}
<1>2. /\ l(a) = L[a].active[s].last
      /\ \A n \in a + 1 .. N, p \in a .. N : n = p + 1 =>
            /\ ~(OfTrans(L[n]) /\ L[n].trans % MaxTrans = s) => l(n) = l(p)
            /\ OfTrans(L[n]) /\ L[n].trans % MaxTrans = s => l(n) = IF L[n].type \in Ends THEN 0 ELSE n
  <2>1. Unfolds(L, N, a, b, s)
    BY LastUnfolds
  <2>2. \A n \in a + 1 .. N : Changes(L, b, n, s) <=> OfTrans(L[n]) /\ L[n].trans % MaxTrans = s
    BY <1>1 DEF Changes
  <2> QED
    BY <2>1, <2>2 DEF Unfolds
<1>3. /\ \A n \in Named(L, a) : n \in 1 .. a - 1 /\ OfTrans(L[n])
      /\ \A v \in Slot : L[a].active[v].last # 0 =>
            L[L[a].active[v].last].trans % MaxTrans = v
  BY <1>1 DEF TableOk, Named
<1>4. \A n \in all : n \in 1 .. N /\ OfTrans(L[n]) /\ (n > a => n \in After(L, N, a))
                     /\ (n <= a => n \in Named(L, a))
  BY <1>1, <1>3 DEF After
<1>5. \A k \in a .. N : l(k) \in 0 .. k /\ (l(k) # 0 => OfTrans(L[l(k)]) /\ L[l(k)].trans % MaxTrans = s)
  BY LastLogged
<1> HIDE DEF l, first, all
<1>6. ASSUME NEW k \in a .. N, \A j \in a .. k - 1 : j \in T
      PROVE  k \in T
  <2>1. CASE k = a
    <3>1. \A m \in After(L, N, a) : ~(m <= k)
      BY <1>1, <2>1 DEF After
    <3>2. l(a) # 0 => l(a) \in all
      BY <1>2 DEF Named, all
    <3>3. ASSUME NEW n \in all, n <= k, Slotted(n)
          PROVE  n = l(a)
      <4>1. n \in Named(L, a)
        BY <1>4, <2>1, <3>3
      <4>2. PICK v \in Slot : n = L[a].active[v].last /\ n # 0
        BY <4>1 DEF Named
      <4> QED
        BY <1>2, <1>3, <3>3, <4>2
    <3> QED
      BY <2>1, <3>1, <3>2, <3>3 DEF Latest, l, all
  <2>2. CASE k # a
    <3>1. k \in a + 1 .. N /\ k - 1 \in a .. N /\ k = (k - 1) + 1 /\ k \in 1 .. N
      BY <1>1, <2>2
    <3> DEFINE p == k - 1
    <3>2. Latest(L, N, a, b, p, s)
      BY <1>1, <1>6, <3>1
    <3>3. /\ l(p) # 0 => /\ l(p) \in all
                         /\ \A m \in After(L, N, a) : l(p) < m /\ m <= p => first(m) # first(l(p))
          /\ \A n \in all : n <= p /\ Slotted(n) /\ n # l(p) =>
               \E m \in After(L, N, a) : n < m /\ m <= p /\ first(m) = first(n)
      BY <3>2 DEF Latest, l, all, first
    <3>4. k \in all => k \in After(L, N, a)
      BY <1>1, <1>4, <3>1
    <3>5. p \in Nat /\ p < k /\ p \in a .. N /\ k = p + 1 /\ k \in Nat
      BY <1>1, <3>1
    <3> HIDE DEF p
    <3>6. SUFFICES /\ l(k) # 0 =>
                        /\ l(k) \in all
                        /\ \A m \in After(L, N, a) : l(k) < m /\ m <= k => first(m) # first(l(k))
                   /\ \A n \in all : n <= k /\ Slotted(n) /\ n # l(k) =>
                        \E m \in After(L, N, a) : n < m /\ m <= k /\ first(m) = first(n)
      BY DEF Latest, l, all, first
    <3>7. CASE ~(OfTrans(L[k]) /\ L[k].trans % MaxTrans = s)
      <4>1. l(k) = l(p)
        BY <1>2, <3>1, <3>5, <3>7
      <4>2. ASSUME l(k) # 0, NEW m \in After(L, N, a), l(k) < m, m <= k
            PROVE  first(m) # first(l(k))
        <5>1. CASE m = k
          <6>1. OfTrans(L[k]) /\ L[k].trans % MaxTrans # s
            BY <3>7, <4>2, <5>1 DEF After
          <6>2. l(k) \in 1 .. N /\ OfTrans(L[l(k)]) /\ L[l(k)].trans % MaxTrans = s
            BY <1>1, <1>5, <4>2
          <6> QED
            BY <1>1, <3>1, <5>1, <6>1, <6>2, FirstTrans DEF first
        <5>2. CASE m # k
          <6>1. m <= p
            BY <1>1, <3>5, <4>2, <5>2 DEF After
          <6> QED
            BY <3>3, <4>1, <4>2, <6>1
        <5> QED
          BY <5>1, <5>2
      <4>3. ASSUME NEW n \in all, n <= k, Slotted(n), n # l(k)
            PROVE  \E m \in After(L, N, a) : n < m /\ m <= k /\ first(m) = first(n)
        <5>1. n # k /\ n \in Nat
          BY <1>1, <1>4, <3>7, <4>3
        <5>2. n <= p
          BY <3>5, <4>3, <5>1
        <5>3. PICK m \in After(L, N, a) : n < m /\ m <= p /\ first(m) = first(n)
          BY <3>3, <4>1, <4>3, <5>2
        <5>4. m <= k
          BY <1>1, <3>5, <5>3 DEF After
        <5> QED
          BY <5>3, <5>4
      <4> QED
        BY <3>3, <4>1, <4>2, <4>3
    <3>8. CASE OfTrans(L[k]) /\ L[k].trans % MaxTrans = s
      <4>1. l(k) = IF L[k].type \in Ends THEN 0 ELSE k
        BY <1>2, <3>1, <3>5, <3>8
      <4>2. k \in After(L, N, a) /\ k \in all
        BY <3>1, <3>8 DEF After, all
      <4>3. \A m \in After(L, N, a) : ~(k < m /\ m <= k)
        BY <1>1, <3>5 DEF After
      <4>4. ASSUME NEW n \in all, n <= k, Slotted(n), n # l(k)
            PROVE  \E m \in After(L, N, a) : n < m /\ m <= k /\ first(m) = first(n)
        <5>1. n # k /\ n \in 1 .. N /\ n < k /\ n <= p
          BY <1>1, <1>4, <3>5, <4>1, <4>4
        <5>2. CASE n # l(p)
          <6>1. PICK m \in After(L, N, a) : n < m /\ m <= p /\ first(m) = first(n)
            BY <3>3, <4>4, <5>1, <5>2
          <6>2. m <= k
            BY <1>1, <3>5, <6>1 DEF After
          <6> QED
            BY <6>1, <6>2
        <5>3. CASE n = l(p)
          <6>1. Continues(L, N, a, b, k) /\ k - 1 = p
            BY <3>1, <3>5, <3>8
          <6>2. L[k].prev \in ChainIn(L, N, n)
            BY <3>8, <5>1, <5>3, <6>1 DEF Continues, l
          <6>3. first(k) = first(n)
            BY <1>1, <3>1, <3>8, <5>1, <6>2, FirstOnChain DEF first
          <6>4. k <= k
            BY <3>5
          <6> QED
            BY <4>2, <5>1, <6>3, <6>4
        <5> QED
          BY <5>2, <5>3
      <4>5. l(k) # 0 => l(k) = k
        BY <4>1
      <4> QED
        BY <4>2, <4>3, <4>4, <4>5
    <3> QED
      BY <3>7, <3>8
  <2> QED
    BY <2>1, <2>2
<1>7. a .. N \subseteq T
  <2> HIDE DEF T
  <2> QED
    BY <1>1, <1>6, Induction
<1> QED
  BY <1>7

\* What Losers are where the database is down: the last records in the table
\* that skips the records before b.
LEMMA LosersAre ==
    ASSUME Inv, ~up, NEW b \in Nat, LosersFrom(b)
    PROVE  /\ SkippedBefore = b
           /\ Losers \ {0} = {LastIn(log, End, anchor.end, b, End, s) : s \in Slot} \ {0}
           /\ Sound(b) =>
                /\ \A n \in anchor.end + 1 .. End :
                      n >= b /\ OfTrans(log[n]) => Continues(log, End, anchor.end, b, n)
                /\ Apart(log, End, anchor.end, b, End)
<1> DEFINE e == anchor.end
           l(s) == LastIn(log, End, e, b, End, s)
<1>1. /\ anchorLSN = {b} /\ SkippedBefore = b /\ Quiet(log, e, unsettled, End)
  BY DEF LosersFrom, SkippedBefore
<1>2. /\ Anchored(log, End, e) /\ End \in Nat /\ e \in Nat /\ End \in e .. End /\ stable = End
      /\ unsettled \in Nat
  BY LogAnchored, Sizes DEF Inv, LogInv, StageInv
<1>3. TableAfterRedo = TableIn(log, End, e, b, End)
  BY <1>1, TableIsTableIn
<1>4. \A s \in Slot : /\ l(s) = TableAfterRedo[s].last
                      /\ TableAfterRedo[s].id = 0 => l(s) = 0
  BY <1>2, <1>3, LastLogged DEF LastIn
<1>5. Losers \ {0} = {l(s) : s \in Slot} \ {0}
  BY <1>4 DEF Losers
<1>6. ASSUME Sound(b)
      PROVE  /\ \A n \in e + 1 .. End : n >= b /\ OfTrans(log[n]) => Continues(log, End, e, b, n)
             /\ Apart(log, End, e, b, End)
  <2>1. Follows(log, End, e, b, unsettled) /\ Apart(log, End, e, b, End)
    <3>1. End \in stable .. End
      BY <1>2
    <3> QED
      BY <1>1, <1>6, <3>1 DEF LosersFrom
  <2>2. ASSUME NEW n \in e + 1 .. End, OfTrans(log[n])
        PROVE  unsettled < e \/ n <= unsettled
    BY <1>1, <1>2, <2>2 DEF Quiet
  <2> QED
    BY <2>1, <2>2 DEF Follows
<1> QED
  BY <1>1, <1>5, <1>6

LEMMA LosersAreExact ==
    ASSUME Inv, LoserInv
    PROVE  LosersExact
<1> DEFINE e == anchor.end
           after == {n \in e + 1 .. End : OfTrans(log[n])}
           active == {log[e].active[s].last : s \in Slot} \ {0}
           recent == {n \in active \cup after :
                        \A m \in after : m > n => Min(Chain(m)) # Min(Chain(n))}
<1> SUFFICES ASSUME ~up, SkippedBefore <= e
             PROVE  Losers \ {0} = {n \in recent : log[n].type \notin {"TRANS_COMMIT", "TRANS_ABORT"}}
  BY DEF LosersExact
<1>1. PICK b \in Nat : LosersFrom(b)
  BY DEF LoserInv
<1>2. SkippedBefore = b /\ b <= e /\ Sound(b)
  BY <1>1, LosersAre DEF Sound
<1> DEFINE l(s) == LastIn(log, End, e, b, End, s)
<1>3. /\ Losers \ {0} = {l(s) : s \in Slot} \ {0}
      /\ \A n \in e + 1 .. End : n >= b /\ OfTrans(log[n]) => Continues(log, End, e, b, n)
  BY <1>1, <1>2, LosersAre
<1>4. /\ Anchored(log, End, e) /\ IsLog(log, End) /\ End \in Nat /\ e \in Nat /\ End \in e .. End
      /\ e \in 1 .. End /\ TableOk(log, log[e].active, e)
  BY LogAnchored, LogTabled, Sizes DEF Inv, LogInv
<1>5. \A s \in Slot : Latest(log, End, e, b, End, s)
  <2>1. \A n \in e + 1 .. End : OfTrans(log[n]) => Continues(log, End, e, b, n)
    BY <1>2, <1>3, <1>4
  <2> QED
    BY <1>2, <1>4, <2>1, LatestInTable
<1>6. \A n : First(log, End, n) = Min(Chain(n))
  BY ChainIsChainIn DEF First
<1>7. active = Named(log, e) /\ after = After(log, End, e)
  BY DEF Named, After
<1>8. \A n \in active \cup after : n \in 1 .. End /\ OfTrans(log[n])
  BY <1>4 DEF TableOk
<1>9. ASSUME NEW s \in Slot
      PROVE  /\ l(s) # 0 => /\ l(s) \in active \cup after
                            /\ \A m \in after : l(s) < m /\ m <= End => Min(Chain(m)) # Min(Chain(l(s)))
             /\ \A n \in active \cup after :
                  n <= End /\ log[n].type \notin Ends /\ log[n].trans % MaxTrans = s /\ n # l(s) =>
                    \E m \in after : n < m /\ m <= End /\ Min(Chain(m)) = Min(Chain(n))
  BY <1>5, <1>6, <1>7 DEF Latest
<1>10. ASSUME NEW s \in Slot, l(s) # 0
       PROVE  l(s) \in recent /\ log[l(s)].type \notin Ends
  <2>1. l(s) \in 0 .. End /\ log[l(s)].type \notin Ends
    BY <1>4, <1>10, LastLogged
  <2> QED
    BY <1>4, <1>9, <1>10, <2>1
<1>11. ASSUME NEW n \in recent, log[n].type \notin Ends
       PROVE  n # 0 /\ \E s \in Slot : n = l(s)
  <2>1. n \in active \cup after /\ n \in 1 .. End /\ OfTrans(log[n])
    BY <1>8
  <2> DEFINE s == log[n].trans % MaxTrans
  <2>2. s \in Slot
    BY <1>4, <2>1, SlotOfRecord
  <2>3. \A m \in after : m > n => Min(Chain(m)) # Min(Chain(n))
    OBVIOUS
  <2>4. n = l(s)
    BY <1>4, <1>8, <1>9, <1>11, <2>1, <2>2, <2>3
  <2> QED
    BY <2>1, <2>2, <2>4
<1> HIDE DEF l, recent
<1> QED
  BY <1>3, <1>10, <1>11 DEF Ends

LEMMA LosersAreDisjoint ==
    ASSUME Inv, LoserInv, "window" \notin Faults
    PROVE  LosersDisjoint
<1> SUFFICES ASSUME ~up, NEW l \in Losers, NEW m \in Losers, l # m,
                    NEW x \in ToUndo(l), NEW y \in ToUndo(m)
             PROVE  log[x].item # log[y].item
  BY DEF LosersDisjoint
<1>1. PICK b \in Nat : LosersFrom(b)
  BY DEF LoserInv
<1> DEFINE last(s) == LastIn(log, End, anchor.end, b, End, s)
<1>2. /\ Losers \ {0} = {last(s) : s \in Slot} \ {0}
      /\ Apart(log, End, anchor.end, b, End) /\ IsLog(log, End)
  BY <1>1, LosersAre DEF Sound, Inv, LogInv
<1>3. Disjoint(log, End, l, m)
  <2>1. CASE l = 0 \/ m = 0
    BY <1>2, <2>1, EmptyDisjoint
  <2>2. CASE l # 0 /\ m # 0
    <3>1. PICK s \in Slot, v \in Slot : l = last(s) /\ m = last(v)
      BY <1>2, <2>2
    <3> QED
      BY <1>2, <3>1 DEF Apart
  <2> QED
    BY <2>1, <2>2
<1>4. /\ x \in ChainIn(log, End, l) /\ log[x].type = "UPDATE"
      /\ y \in ChainIn(log, End, m) /\ log[y].type = "UPDATE"
  BY ChainIsChainIn DEF ToUndo
<1> QED
  BY <1>3, <1>4 DEF Disjoint

-----------------------------------------------------------------------------

\* Everything the theorems below rest on: the tables that a restart would make
\* of the log, after every prefix that a crash may leave, name the last records
\* of the transactions that run (LogMgr_Restart, LogRec_Redo, Trans_Search).
THEOREM LosersHold ==
    ASSUME "unsettled" \notin Faults
    PROVE  Spec => [](Inv /\ SaveInv /\ LoserInv)
<1>1. Init => Inv /\ SaveInv /\ LoserInv
  BY Starts, SaveStarts, LosersStart DEF LoserInv
<1>2. Inv /\ SaveInv /\ LoserInv /\ [Next]_vars => Inv' /\ SaveInv' /\ LoserInv'
  <2> SUFFICES ASSUME Inv, SaveInv, LoserInv, [Next]_vars
               PROVE  Inv' /\ SaveInv' /\ LoserInv'
    OBVIOUS
  <2>1. Inv'
    BY StepKeeps
  <2>2. SaveInv'
    BY SaveStep
  <2> QED
    BY <2>1, <2>2, LoserStep
<1> QED
  BY <1>1, <1>2, PTL DEF Spec

\* A restart undoes the transactions with a TRANS_BEGIN_LOG and no end in the
\* log, each from its last record, though the table it makes finds slots by ids
\* modulo MAX_TRANS (Trans_Search, LogMgr_Restart).  For every number of
\* transactions, checkpoints and crashes, unless a restart undoes losers in
\* memory only.
THEOREM LosersAreUnended ==
    ASSUME "unsettled" \notin Faults
    PROVE  Spec => []LosersExact
<1>1. Inv /\ LoserInv => LosersExact
  BY LosersAreExact
<1> QED
  BY <1>1, LosersHold, PTL

\* Two transactions that a restart undoes never changed the same item, so the
\* order in which the heap of mdb_UpdateTrans.c takes their records does not
\* matter (TransTable_Replace_LSN).  The log anchor and page 0 have to agree.
THEOREM LosersChangeOther ==
    ASSUME "unsettled" \notin Faults, "window" \notin Faults
    PROVE  Spec => []LosersDisjoint
<1>1. Inv /\ LoserInv => LosersDisjoint
  BY LosersAreDisjoint
<1> QED
  BY <1>1, LosersHold, PTL

-----------------------------------------------------------------------------
(* The log files that are needed *)

\* Files are deleted up to one before the log anchor names.
LEMMA LaterFiles ==
    ASSUME Inv, NEW n \in Nat, anchor.begin <= n
    PROVE  File(n) > deleted
<1>1. /\ anchor.begin \in Nat \ {0} /\ deleted \in Nat /\ deleted < File(anchor.begin)
  BY Sizes DEF Inv, LogInv
<1>2. File(anchor.begin) <= File(n) /\ File(n) \in Nat /\ File(anchor.begin) \in Nat
  BY <1>1, Files
<1> QED
  BY <1>1, <1>2

\* A running transaction's records are there if its first one is.
LEMMA SlotFiles ==
    ASSUME Inv, SaveInv, NEW d \in Nat, NEW s \in Slot,
           trans[s].first # 0 => File(trans[s].first) > d
    PROVE  \A n \in ChainIn(log, End, trans[s].last) : n \in 1 .. End /\ File(n) > d
<1>1. /\ IsLog(log, End) /\ trans[s].last \in 0 .. End /\ End \in Nat
      /\ trans[s].first \in 0 .. trans[s].last /\ (trans[s].first = 0 <=> trans[s].last = 0)
  BY AtLogged
<1>2. CASE trans[s].first = 0
  BY <1>1, <1>2, LogFacts
<1>3. CASE trans[s].first # 0
  <2> TAKE n \in ChainIn(log, End, trans[s].last)
  <2>1. n \in 1 .. End
    BY <1>1, ChainInside
  <2>2. n >= trans[s].first
    BY <1>3 DEF SaveInv, Kept, Mine
  <2>3. File(trans[s].first) <= File(n) /\ File(n) \in Nat /\ File(trans[s].first) \in Nat
    BY <1>1, <1>3, <2>1, <2>2, Files
  <2> QED
    BY <1>3, <2>1, <2>3
<1> QED
  BY <1>2, <1>3

\* Logs that are the same up to record k.
LEMMA HeldSame ==
    ASSUME NEW L, NEW N, NEW M, NEW K, NEW a, NEW k, Alike(L, N, M, K, a, k), NEW b,
           NEW j \in a .. k, NEW s \in Slot, NEW d, Held(L, N, a, b, j, s, d)
    PROVE  Held(M, K, a, b, j, s, d)
<1> DEFINE l == LastIn(L, N, a, b, j, s)
           c == L[a].active[s].last
<1>1. Anchored(L, N, a) /\ j \in a .. N /\ j <= k /\ k \in Nat /\ k <= K /\ K \in Nat /\ a \in Nat
      /\ a <= k /\ L[a] = M[a] /\ IsLog(L, N)
  <2>1. k \in Nat /\ k <= N /\ N \in Nat /\ a \in Nat /\ a \in 1 .. k /\ k <= K /\ K \in Nat
    BY AlikeFacts
  <2> QED
    BY <2>1, AlikeFacts DEF Alike
<1>2. l \in 0 .. k /\ c \in 0 .. k
  <2>1. l \in 0 .. j
    BY <1>1, LastLogged
  <2>2. c \in 0 .. a - 1
    BY <1>1, LogTabled DEF TableOk
  <2> QED
    BY <1>1, <2>1, <2>2
<1>3. LastIn(M, K, a, b, j, s) = l /\ M[a].active[s].last = c
  BY <1>1, AlikeFacts
<1>4. /\ ChainIn(L, N, l) = ChainIn(M, K, l) /\ ChainIn(L, N, l) \subseteq 1 .. k
      /\ ChainIn(L, N, c) = ChainIn(M, K, c)
  BY <1>2, AlikeFacts
<1>5. ChainIn(L, N, l) \subseteq ChainIn(L, N, c) \cup a + 1 .. N /\ \A n \in ChainIn(L, N, l) : File(n) > d
  BY DEF Held
<1> HIDE DEF l, c
<1>6. ChainIn(M, K, l) \subseteq ChainIn(M, K, c) \cup a + 1 .. K
  BY <1>1, <1>4, <1>5
<1> QED
  BY <1>3, <1>4, <1>5, <1>6 DEF Held

LEMMA HeldQuietly ==
    ASSUME Onward, NEW b \in Nat, FilesFrom(b), unsettled < anchor.end,
           \A n \in End + 1 .. End' : ~OfTrans(log'[n])
    PROVE  \A k \in End + 1 .. End', s \in Slot : Held(log', End', anchor.end, b, k, s, deleted)
<1> DEFINE a == anchor.end
<1>1. /\ Alike(log, End, log', End', a, End) /\ Anchored(log', End', a)
      /\ End \in Nat /\ End' \in Nat /\ End <= End' /\ stable \in 2 .. End
      /\ a \in Nat /\ a \in 1 .. stable
  BY OnwardFacts
<1>2. End \in stable .. End /\ End \in a .. End /\ End \in a .. End' /\ Quiet(log, a, unsettled, End)
  BY <1>1 DEF Quiet
<1>3. \A s \in Slot : Held(log', End', a, b, End, s, deleted)
  <2>1. \A s \in Slot : Held(log, End, a, b, End, s, deleted)
    BY <1>2 DEF FilesFrom
  <2> QED
    BY <1>1, <1>2, <2>1, HeldSame
<1> SUFFICES ASSUME NEW k \in End + 1 .. End', NEW s \in Slot
             PROVE  Held(log', End', a, b, k, s, deleted)
  OBVIOUS
<1>4. LastIn(log', End', a, b, k, s) = LastIn(log', End', a, b, End, s)
  <2>1. \A n \in End + 1 .. k : ~OfTrans(log'[n])
    BY <1>1
  <2>2. k \in End .. k /\ k \in End .. End'
    BY <1>1
  <2> QED
    BY <1>1, <1>2, <2>1, <2>2, LastQuiet
<1> QED
  BY <1>3, <1>4 DEF Held

LEMMA HeldWrites ==
    ASSUME Onward, NEW b \in Nat, LosersFrom(b), FilesFrom(b), NEW s, WritesFor(s),
           unsettled < anchor.end, Sound(b)
    PROVE  \A k \in End + 1 .. End', v \in Slot : Held(log', End', anchor.end, b, k, v, deleted)
<1> DEFINE a == anchor.end
           l(n, v) == LastIn(log', End', a, b, n, v)
           e == End + 1
           C(n) == ChainIn(log', End', n)
           base(v) == C(log'[a].active[v].last) \cup a + 1 .. End'
<1>1. /\ Alike(log, End, log', End', a, End) /\ Anchored(log', End', a) /\ IsLog(log', End')
      /\ End \in Nat /\ End' \in Nat /\ End <= End' /\ stable \in 2 .. End
      /\ a \in Nat /\ a \in 1 .. stable
  BY OnwardFacts
<1>2. End \in stable .. End /\ End \in a .. End /\ End \in a .. End' /\ Quiet(log, a, unsettled, End)
  BY <1>1 DEF Quiet
<1>3. \A v \in Slot : Held(log', End', a, b, End, v, deleted)
  <2>1. \A v \in Slot : Held(log, End, a, b, End, v, deleted)
    BY <1>2 DEF FilesFrom
  <2> QED
    BY <1>1, <1>2, <2>1, HeldSame
<1>4. /\ s \in Slot /\ End' \in {End + 1, End + 2} /\ End + 1 .. End' = {e, End'} /\ e \in a + 1 .. End'
      /\ End' \in a + 1 .. End' /\ \A n \in {e, End'} : OfTrans(log'[n]) /\ n \in 1 .. End'
      /\ End' = e \/ (End' = e + 1 /\ log'[End'].prev = e)
  <2>1. End' \in {End + 1, End + 2} /\ s \in Slot
    BY DEF WritesFor
  <2>2. End + 1 .. End' = {e, End'} /\ e \in a + 1 .. End' /\ End' \in a + 1 .. End'
        /\ e \in 1 .. End' /\ End' \in 1 .. End'
    BY <1>1, <2>1
  <2>3. \A n \in {e, End'} : OfTrans(log'[n])
    BY <2>2 DEF WritesFor
  <2>4. End' = e \/ (End' = e + 1 /\ log'[End'].prev = e)
    BY <1>1, <2>1 DEF WritesFor
  <2> QED
    BY <2>1, <2>2, <2>3, <2>4
<1>5. /\ \A v \in Slot : l(End, v) = trans[v].last /\ trans[v].last \in 0 .. End
      /\ \A v \in Slot \ {s} : l(e, v) = trans[v].last /\ l(End', v) = trans[v].last
      /\ l(e, s) \in {0, e} /\ l(End', s) \in {0, End'}
  BY WritesTable
<1>6. /\ \A v \in Slot : C(trans[v].last) \subseteq base(v)
      /\ \A v \in Slot : \A n \in C(trans[v].last) : File(n) > deleted
  BY <1>3, <1>5 DEF Held
<1>7. \A n \in {e, End'} : File(n) > deleted
  <2>1. anchor.begin <= a /\ anchor.begin \in Nat
    BY <1>1, Sizes DEF Onward, Inv, LogInv
  <2> QED
    BY <1>1, <1>4, <2>1, LaterFiles DEF Onward
<1>8. C(e) \subseteq {e} \cup C(trans[s].last)
  <2>1. C(e) = {e} \cup C(log'[e].prev)
    BY <1>1, <1>4, LogFacts
  <2>2. C(log'[e].prev) \subseteq C(trans[s].last)
    <3>1. CASE trans[s].last = 0
      <4>1. log'[e].prev = 0
        BY <1>1, <1>4, <3>1, LogFacts DEF WritesFor, LinkOk
      <4> QED
        BY <3>1, <4>1
    <3>2. CASE trans[s].last # 0
      <4>1. log'[e].prev \in ChainIn(log, End, trans[s].last)
        BY <3>2 DEF WritesFor
      <4>2. log'[e].prev \in C(trans[s].last)
        BY <1>1, <1>4, <1>5, <4>1, AlikeFacts
      <4>3. trans[s].last \in 0 .. End'
        BY <1>1, <1>4, <1>5
      <4> QED
        BY <1>1, <4>2, <4>3, ChainTrans
    <3> QED
      BY <3>1, <3>2
  <2> QED
    BY <2>1, <2>2
<1>9. \A n \in {e, End'} : C(n) \subseteq {e, End'} \cup C(trans[s].last)
  <2>1. End' = e + 1 => C(End') = {End'} \cup C(e)
    BY <1>1, <1>4, LogFacts
  <2> QED
    BY <1>4, <1>8, <2>1
<1>10. C(0) = {}
  BY <1>1, LogFacts
<1> HIDE DEF C
<1>11. ASSUME NEW k \in {e, End'}, NEW v \in Slot
       PROVE  C(l(k, v)) \subseteq base(v) /\ \A n \in C(l(k, v)) : File(n) > deleted
  <2> HIDE DEF l
  <2>1. CASE v # s
    BY <1>5, <1>6, <2>1
  <2>2. CASE v = s /\ l(k, v) = 0
    BY <1>10, <2>2
  <2>3. CASE v = s /\ l(k, v) # 0
    <3>1. l(k, v) = k
      BY <1>5, <2>3
    <3>2. e \in base(s) /\ End' \in base(s)
      BY <1>4
    <3> QED
      BY <1>4, <1>6, <1>7, <1>9, <2>3, <3>1, <3>2
  <2> QED
    BY <2>1, <2>2, <2>3
<1> QED
  BY <1>4, <1>11 DEF Held, C

\* What a step that leaves the log anchor alone has to show.
LEMMA FilesOn ==
    ASSUME Onward, SaveInv, NEW b \in Nat, FilesFrom(b), deleted' = deleted,
           \A s \in Slot : trans'[s].first \in {0, trans[s].first, End + 1},
           gDirty' < 2 => gDirty < 2 /\ \A n \in End + 1 .. End' : log'[n].type \notin Changing,
           \A n \in End + 1 .. End' : log'[n].type = "COMPENSATION" =>
              \E s \in Slot : log'[n].undone \in ChainIn(log, End, trans[s].last),
           unsettled < anchor.end => \A k \in End + 1 .. End', s \in Slot :
              Held(log', End', anchor.end, b, k, s, deleted),
           stage' = "delete" => stable' = End' /\ (log'[End'].type = "BEGIN_CHKPT" \/ gDirty' < 2)
    PROVE  FilesFrom(b)'
<1> DEFINE a == anchor.end
           u == unsettled
           d == deleted
<1>1. /\ Alike(log, End, log', End', a, End) /\ Anchored(log', End', a)
      /\ End \in Nat /\ End' \in Nat /\ End <= End' /\ stable \in 2 .. End
      /\ a \in Nat /\ a \in 1 .. stable /\ u \in 0 .. stable /\ stable' \in stable .. End'
      /\ \A n \in 1 .. End : log'[n] = log[n]
  BY OnwardFacts, GrowsFacts DEF Onward
<1>2. /\ anchor' = anchor /\ unsettled' = u /\ up' /\ up /\ d \in Nat
      /\ anchor.begin \in Nat /\ 1 <= anchor.begin /\ anchor.begin <= End
  BY <1>1, Sizes DEF Onward, Inv, LogInv
<1>3. \A s \in Slot : trans'[s].first # 0 => File(trans'[s].first) > d
  <2> SUFFICES ASSUME NEW s \in Slot, trans'[s].first # 0
               PROVE  File(trans'[s].first) > d
    OBVIOUS
  <2>1. CASE trans'[s].first = trans[s].first
    BY <2>1 DEF FilesFrom
  <2>2. CASE trans'[s].first = End + 1
    <3>1. File(End + 1) > deleted
      BY <1>1, <1>2, LaterFiles DEF Onward
    <3> QED
      BY <2>2, <3>1
  <2> QED
    BY <2>1, <2>2
<1>4. gDirty' < 2 => NoChange'
  <2> SUFFICES ASSUME gDirty' < 2, NEW n \in anchor.begin .. End'
               PROVE  log'[n].type \notin Changing
    BY <1>2 DEF NoChange
  <2>1. CASE n <= End
    <3>1. n \in anchor.begin .. End /\ log'[n] = log[n]
      BY <1>1, <1>2, <2>1
    <3>2. NoChange
      BY <1>2 DEF FilesFrom
    <3> QED
      BY <3>1, <3>2 DEF NoChange
  <2>2. CASE n > End
    <3>1. n \in End + 1 .. End'
      BY <1>1, <1>2, <2>2
    <3> QED
      BY <3>1
  <2> QED
    BY <1>1, <1>2, <2>1, <2>2
<1>5. ASSUME NEW n \in anchor.begin .. End', log'[n].type = "COMPENSATION"
      PROVE  File(log'[n].undone) > d
  <2>1. CASE n <= End
    <3>1. n \in anchor.begin .. End /\ log'[n] = log[n]
      BY <1>1, <1>2, <2>1
    <3> QED
      BY <1>5, <3>1 DEF FilesFrom
  <2>2. CASE n > End
    <3>1. n \in End + 1 .. End'
      BY <1>1, <1>2, <2>2
    <3>2. PICK s \in Slot : log'[n].undone \in ChainIn(log, End, trans[s].last)
      BY <1>5, <3>1
    <3>3. trans[s].first # 0 => File(trans[s].first) > d
      BY DEF FilesFrom
    <3> QED
      BY <1>2, <3>2, <3>3, SlotFiles DEF Onward
  <2> QED
    BY <1>1, <1>2, <2>1, <2>2
<1>6. ASSUME NEW k \in stable' .. End', NEW s \in Slot, Quiet(log', a, u, k)
      PROVE  Held(log', End', a, b, k, s, d)
  <2>1. CASE k <= End
    <3>1. k \in stable .. End /\ k \in a .. End
      BY <1>1, <2>1
    <3>2. Quiet(log, a, u, k)
      BY <1>1, <1>6, <3>1 DEF Quiet
    <3>3. Held(log, End, a, b, k, s, d)
      BY <3>1, <3>2 DEF FilesFrom
    <3> QED
      BY <1>1, <3>1, <3>3, HeldSame
  <2>2. CASE End < k /\ u < a
    <3>1. k \in End + 1 .. End'
      BY <1>1, <2>2
    <3> QED
      BY <2>2, <3>1
  <2>3. CASE End < k /\ ~(u < a)
    <3>1. /\ \A n \in End + 1 .. k : ~OfTrans(log'[n])
          /\ \A n \in u + 1 .. End : ~OfTrans(log[n])
          /\ End \in stable .. End /\ End \in a .. End /\ End \in a .. End' /\ k \in End .. End'
      BY <1>1, <1>6, <2>3 DEF Quiet
    <3>2. Held(log, End, a, b, End, s, d)
      BY <3>1 DEF FilesFrom, Quiet
    <3>3. Held(log', End', a, b, End, s, d)
      BY <1>1, <3>1, <3>2, HeldSame
    <3>4. k \in End .. k
      BY <1>1, <2>3, <3>1
    <3>5. LastIn(log', End', a, b, k, s) = LastIn(log', End', a, b, End, s)
      BY <1>1, <3>1, <3>4, LastQuiet
    <3> QED
      BY <3>3, <3>5 DEF Held
  <2> QED
    BY <1>1, <2>1, <2>2, <2>3
<1>7. stage' = "delete" => stable' = End' /\ (log'[End'].type = "BEGIN_CHKPT" \/ NoChange')
  BY <1>4
<1> QED
  BY <1>2, <1>3, <1>4, <1>5, <1>6, <1>7 DEF FilesFrom

\* The records that steps of transactions write, and what follows from them.
LEMMA TransRecords ==
    ASSUME Inv, UndoInv, TransNext
    PROVE  /\ \A n \in End + 1 .. End' : log'[n].type = "COMPENSATION" =>
                 \E s \in Slot : log'[n].undone \in ChainIn(log, End, trans[s].last)
           /\ gDirty' < 2 => gDirty < 2 /\ \A n \in End + 1 .. End' : log'[n].type \notin Changing
           /\ stage' # "delete" /\ deleted' = deleted
<1>1. IsLog(log, End) /\ End \in Nat
  BY Sizes DEF Inv, LogInv
<1>2. CASE Begin \/ EndPartialRollback \/ EndCommit \/ \E s \in Slot : PartialRollback(s) \/ Abort(s)
  <2>1. UNCHANGED <<log, gDirty, stage, deleted>> /\ stage = "none"
    <3>1. CASE Begin
      BY <3>1, Zenon DEF Begin, Free, logs, pages
    <3>2. CASE EndPartialRollback \/ EndCommit \/ \E s \in Slot : PartialRollback(s) \/ Abort(s)
      BY <3>2 DEF EndPartialRollback, EndCommit, PartialRollback, Abort, Free, Undoing, logs, pages
    <3> QED
      BY <1>2, <3>1, <3>2
  <2>2. End' = End
    BY <2>1, GrowsSame DEF Inv
  <2>3. \A n \in End + 1 .. End' : FALSE
    BY <1>1, <2>2
  <2> QED
    BY <2>1, <2>3
<1>3. CASE EndAbort \/ \E s \in Slot : Commit(s)
  <2>1. UNCHANGED <<gDirty, stage, deleted>> /\ stage = "none"
    BY <1>3 DEF EndAbort, Commit, Free, Undoing, pages
  <2>2. \/ UNCHANGED log
        \/ \E s \in Slot, type \in Ends :
              trans[s].id # 0 /\ trans[s].last # 0 /\ ~Ending(work, s)
              /\ WriteLog(<<TransRec(type, s, trans[s].last)>>)
    <3>1. CASE EndAbort
      <4>1. work.slot \in Slot /\ trans[work.slot].id # 0 /\ ~Ending(work, work.slot)
        BY <3>1 DEF EndAbort, Undoing, Inv, WorkInv, WorkOk, Ending
      <4> QED
        BY <3>1, <4>1 DEF EndAbort, Ends
    <3>2. CASE \E s \in Slot : Commit(s)
      <4>1. PICK s \in Slot : Commit(s)
        BY <3>2
      <4>2. trans[s].id # 0 /\ ~Ending(work, s) /\ (trans[s].first # 0 => trans[s].last # 0)
        BY <4>1, AtLogged DEF Commit, Free, Used, Idle, Ending
      <4> QED
        BY <4>1, <4>2 DEF Commit, Ends
    <3> QED
      BY <1>3, <3>1, <3>2
  <2>3. \A n \in End + 1 .. End' : log'[n].type \notin Changing
    <3>1. CASE UNCHANGED log
      <4>1. End' = End
        BY <3>1, GrowsSame DEF Inv
      <4> QED
        BY <1>1, <4>1
    <3>2. CASE ~UNCHANGED log
      <4>1. PICK s \in Slot, type \in Ends :
              trans[s].id # 0 /\ trans[s].last # 0 /\ ~Ending(work, s)
              /\ WriteLog(<<TransRec(type, s, trans[s].last)>>)
        BY <2>2, <3>2
      <4> DEFINE r == TransRec(type, s, trans[s].last)
      <4>2. RecordOk(log, r, End + 1) /\ r.type \in Ends
        BY <4>1, EndRecordOk
      <4>3. WriteLog(<<r>>)
        BY <4>1
      <4> HIDE DEF r
      <4>4. End' = End + 1 /\ log'[End + 1] = r
        BY <1>1, <4>2, <4>3, WriteOne
      <4> QED
        BY <1>1, <4>2, <4>4 DEF Changing, Ends
    <3> QED
      BY <3>1, <3>2
  <2> QED
    BY <2>1, <2>3 DEF Changing
<1>4. CASE UndoStep
  <2> DEFINE s == work.slot
             m == work.next
             r == Compensation(s, m)
  <2>1. /\ Undoing /\ ~UndoneEnough /\ UNCHANGED <<stage, deleted>> /\ stage = "none"
        /\ log[m].type # "UPDATE" => UNCHANGED <<log, gDirty>>
        /\ log[m].type = "UPDATE" => WriteLog(<<r>>) /\ gDirty' = 2
    BY <1>4 DEF UndoStep, Undoing, SetDirty
  <2>2. CASE log[m].type # "UPDATE"
    <3>1. End' = End
      BY <2>1, <2>2, GrowsSame DEF Inv
    <3>2. \A n \in End + 1 .. End' : FALSE
      BY <1>1, <3>1
    <3> QED
      BY <2>1, <2>2, <3>2
  <2>3. CASE log[m].type = "UPDATE"
    <3>1. RecordOk(log, r, End + 1) /\ r.undone = m
      BY <2>1, <2>3, CompensationOk DEF Compensation
    <3> HIDE DEF r
    <3>2. End' = End + 1 /\ log'[End + 1] = r
      BY <1>1, <2>1, <2>3, <3>1, WriteOne
    <3>3. s \in Slot /\ m \in ChainIn(log, End, trans[s].last)
      <4>1. s \in Slot /\ m \in 1 .. End /\ work.op \in {"partial", "abort"}
        BY <2>1, Undone
      <4> QED
        BY <1>1, <4>1 DEF UndoInv
    <3>4. ~(gDirty' < 2)
      BY <2>1, <2>3
    <3> QED
      BY <1>1, <2>1, <3>1, <3>2, <3>3, <3>4
  <2> QED
    BY <2>2, <2>3
<1>5. CASE \E s \in Slot : \E i \in Items, begins \in BOOLEAN : DoUpdate(s, i, begins)
  <2>1. PICK s \in Slot, i \in Items, begins \in BOOLEAN : DoUpdate(s, i, begins)
    BY <1>5
  <2>2. gDirty' = 2 /\ UNCHANGED <<stage, deleted>> /\ stage = "none"
    BY <2>1 DEF DoUpdate, SetDirty, Free
  <2>3. /\ work = Idle /\ trans[s].id # 0
        /\ WriteLog(BeginRecords(s) \o <<Update(s, PrevLSN(s), i)>>)
    BY <2>1 DEF DoUpdate, Free, Used
  <2>4. /\ log'[End'].type = "UPDATE"
        /\ \A n \in End + 1 .. End' : n # End' => log'[n].type = "TRANS_BEGIN"
    BY <2>3, UpdateWrites
  <2>5. \A n \in End + 1 .. End' : log'[n].type # "COMPENSATION"
    BY <2>4
  <2> QED
    BY <2>2, <2>5
<1> QED
  BY <1>2, <1>3, <1>4, <1>5 DEF TransNext

\* A transaction's first record is its TRANS_BEGIN_LOG.
LEMMA TransFirsts ==
    ASSUME Inv, TransNext, NEW v \in Slot
    PROVE  trans'[v].first \in {0, trans[v].first, End + 1}
<1>1. trans \in [Slot -> Trans] /\ NoTrans.first = 0
  BY DEF Inv, SlotInv, NoTrans
<1>2. ASSUME NEW s, NEW t, trans' = [trans EXCEPT ![s] = t],
             s \in Slot => t.first \in {0, trans[s].first, End + 1}
      PROVE  trans'[v].first \in {0, trans[v].first, End + 1}
  BY <1>1, <1>2
<1>3. ASSUME NEW s \in Slot, NEW recs
      PROVE  Logged(s, recs).first \in {0, trans[s].first, End + 1}
  BY <1>1, Zenon DEF Logged, Trans
<1>4. CASE UNCHANGED trans
  BY <1>4
<1>5. CASE Begin
  <2>1. PICK id : trans' = [trans EXCEPT ![id % MaxTrans] = [NoTrans EXCEPT !.id = id]]
    BY <1>5, Zenon DEF Begin
  <2>2. [NoTrans EXCEPT !.id = id].first = 0
    BY DEF NoTrans
  <2> QED
    BY <1>2, <2>1, <2>2
<1>6. CASE EndAbort \/ EndCommit
  BY <1>1, <1>2, <1>6 DEF EndAbort, EndCommit, DelTrans
<1>7. CASE EndPartialRollback
  <2>1. trans' = [trans EXCEPT ![work.slot].save = NoSave]
    BY <1>7 DEF EndPartialRollback
  <2> QED
    BY <1>1, <2>1 DEF Trans
<1>8. CASE UndoStep \/ \E s \in Slot : Commit(s)
  <2>1. UNCHANGED trans \/ \E s \in Slot : \E recs : trans' = [trans EXCEPT ![s] = Logged(s, recs)]
    <3>1. CASE UndoStep
      <4>1. work.slot \in Slot
        BY <3>1 DEF UndoStep, Undoing, Inv, WorkInv
      <4> QED
        BY <3>1, <4>1, Zenon DEF UndoStep
    <3>2. CASE \E s \in Slot : Commit(s)
      BY <3>2, Zenon DEF Commit
    <3> QED
      BY <1>8, <3>1, <3>2
  <2>2. CASE \E s \in Slot : \E recs : trans' = [trans EXCEPT ![s] = Logged(s, recs)]
    BY <1>2, <1>3, <2>2
  <2> QED
    BY <1>4, <2>1, <2>2
<1>9. CASE \E s \in Slot : PartialRollback(s) \/ Abort(s)
  BY <1>4, <1>9 DEF PartialRollback, Abort
<1>10. CASE \E s \in Slot : \E i \in Items, begins \in BOOLEAN : DoUpdate(s, i, begins)
  <2>1. PICK s \in Slot, i \in Items, begins \in BOOLEAN : DoUpdate(s, i, begins)
    BY <1>10
  <2>2. PICK recs, save : trans' = [trans EXCEPT ![s] = [Logged(s, recs) EXCEPT !.save = save]]
    BY <2>1, Zenon DEF DoUpdate
  <2>3. [Logged(s, recs) EXCEPT !.save = save].first = Logged(s, recs).first
    <3>1. \A last : [trans[s] EXCEPT !.last = last, !.first = IF @ = 0 THEN End + 1 ELSE @]
                    \in [id : 0 .. MaxId - 1, first : {trans[s].first, End + 1}, last : {last},
                         save : LSN \cup {NoSave}]
      BY <1>1, Zenon DEF Trans
    <3> QED
      BY <3>1 DEF Logged
  <2> HIDE DEF Logged
  <2> QED
    BY <1>2, <1>3, <2>2, <2>3
<1> QED
  BY <1>5, <1>6, <1>7, <1>8, <1>9, <1>10 DEF TransNext

LEMMA TransFiles ==
    ASSUME Inv, SaveInv, UndoInv, Inv', "window" \notin Faults,
           NEW b \in Nat, LosersFrom(b), FilesFrom(b), TransNext
    PROVE  FilesFrom(b)'
<1>1. Grows /\ (Quietly \/ \E s : WritesFor(s))
  BY BeginWrites, UndoStepWrites, RollbackWrites, EndAbortWrites, EndCommitWrites, CommitWrites,
     DoUpdateWrites DEF TransNext
<1>2. Onward
  BY <1>1, TransOnward
<1>3. \A s \in Slot : trans'[s].first \in {0, trans[s].first, End + 1}
  BY TransFirsts
<1>4. unsettled < anchor.end =>
        \A k \in End + 1 .. End', s \in Slot : Held(log', End', anchor.end, b, k, s, deleted)
  <2>1. CASE Quietly
    BY <1>2, <2>1, HeldQuietly DEF Quietly
  <2>2. CASE \E s : WritesFor(s)
    BY <1>2, <2>2, HeldWrites DEF Sound
  <2> QED
    BY <1>1, <2>1, <2>2
<1>5. /\ \A n \in End + 1 .. End' : log'[n].type = "COMPENSATION" =>
            \E s \in Slot : log'[n].undone \in ChainIn(log, End, trans[s].last)
      /\ gDirty' < 2 => gDirty < 2 /\ \A n \in End + 1 .. End' : log'[n].type \notin Changing
      /\ stage' # "delete" /\ deleted' = deleted
  BY TransRecords
<1> QED
  BY <1>2, <1>3, <1>4, <1>5, FilesOn

\* A checkpoint deletes log files only where a restart would find no change
\* after the log anchor, or the checkpoint has just failed.
LEMMA CheckpointRecords ==
    ASSUME Inv, CheckpointNext, ~CheckpointAnchor, "clean" \notin Faults
    PROVE  /\ gDirty' = gDirty
           /\ \A n \in End + 1 .. End' : log'[n].type \notin Changing
           /\ stage' = "delete" => stable' = End' /\ (log'[End'].type = "BEGIN_CHKPT" \/ gDirty' < 2)
           /\ \A s \in Slot : trans'[s].first \in {0, trans[s].first, End + 1}
<1>1. End \in Nat /\ IsLog(log, End) /\ trans \in [Slot -> Trans] /\ NoTrans.first = 0
  BY Sizes DEF Inv, LogInv, SlotInv, NoTrans
<1>2. \A n \in End + 1 .. End' : log'[n].type \notin Changing
  <2>1. \A n \in End + 1 .. End' : ~OfTrans(log'[n])
    BY CheckpointWrites
  <2> QED
    BY <2>1 DEF OfTrans, Changing
<1>3. CASE CheckpointAtCommit \/ Checkpoint
  <2>1. gDirty' = gDirty /\ (StartCheckpoint \/ SkipCheckpoint)
    BY <1>3 DEF CheckpointAtCommit, Checkpoint, pages
  <2>2. stage' = "delete" => UNCHANGED <<log, stable>> /\ stable = End /\ gDirty = 0
    BY <2>1 DEF StartCheckpoint, SkipCheckpoint
  <2>3. UNCHANGED log => End' = End
    BY GrowsSame DEF Inv
  <2>4. stage' = "delete" => stable' = End' /\ gDirty' < 2
    BY <2>1, <2>2, <2>3
  <2>5. \A s \in Slot : trans'[s].first \in {0, trans[s].first}
    <3>1. UNCHANGED trans \/ trans' = [trans EXCEPT ![work.slot] = NoTrans]
      BY <1>3 DEF CheckpointAtCommit, Checkpoint, DelTrans
    <3> QED
      BY <1>1, <3>1
  <2> QED
    BY <1>2, <2>1, <2>4, <2>5
<1>4. CASE CheckpointPages \/ CheckpointPage0 \/ CheckpointEnd \/ DeleteLogFiles
           \/ \E i \in Items : ReplaceBuffer(i)
  <2>1. UNCHANGED <<gDirty, trans>> /\ stage' # "delete"
    BY <1>4 DEF CheckpointPages, CheckpointPage0, CheckpointEnd, DeleteLogFiles, ReplaceBuffer, pages
  <2> QED
    BY <1>2, <2>1
<1>5. CASE CheckpointFails
  <2>1. UNCHANGED <<gDirty, trans, log, stable>> /\ stage \in {"pages", "page0", "end"}
    BY <1>5 DEF CheckpointFails, logs
  <2>2. End' = End /\ stable = End /\ log[End].type = "BEGIN_CHKPT"
    BY <2>1, GrowsSame DEF Inv, StageInv
  <2> QED
    BY <1>2, <2>1, <2>2
<1> QED
  BY <1>3, <1>4, <1>5 DEF CheckpointNext

LEMMA CheckpointFiles ==
    ASSUME Inv, SaveInv, Inv', "clean" \notin Faults,
           NEW b \in Nat, LosersFrom(b), FilesFrom(b),
           CheckpointNext, ~CheckpointAnchor, ~DeleteLogFiles
    PROVE  FilesFrom(b)'
<1>1. Onward
  BY CheckpointOnward
<1>2. deleted' = deleted
  BY DEF CheckpointNext, CheckpointAtCommit, Checkpoint, CheckpointPages, CheckpointPage0,
         CheckpointEnd, CheckpointFails, ReplaceBuffer, logs
<1>3. /\ gDirty' = gDirty
      /\ \A n \in End + 1 .. End' : log'[n].type \notin Changing
      /\ stage' = "delete" => stable' = End' /\ (log'[End'].type = "BEGIN_CHKPT" \/ gDirty' < 2)
      /\ \A s \in Slot : trans'[s].first \in {0, trans[s].first, End + 1}
  BY CheckpointRecords
<1>4. \A n \in End + 1 .. End' : ~OfTrans(log'[n])
  BY CheckpointWrites
<1>5. unsettled < anchor.end =>
        \A k \in End + 1 .. End', s \in Slot : Held(log', End', anchor.end, b, k, s, deleted)
  BY <1>1, <1>4, HeldQuietly
<1>6. \A n \in End + 1 .. End' : log'[n].type = "COMPENSATION" => FALSE
  BY <1>3 DEF Changing
<1> QED
  BY <1>1, <1>2, <1>3, <1>5, <1>6, FilesOn

\* The files that are deleted are before the first record of each transaction.
LEMMA DeletedFiles ==
    ASSUME Inv, DeleteLogFiles
    PROVE  /\ deleted' \in Nat /\ deleted' < File(anchor.begin)
           /\ \A s \in Slot : trans[s].first # 0 /\ File(trans[s].first) > deleted =>
                 File(trans[s].first) > deleted'
<1> DEFINE S == {File(stable), File(anchor.begin)}
                \cup {File(trans[s].first) : s \in {x \in Slot : trans[x].first # 0}}
<1>1. /\ stable \in Nat \ {0} /\ anchor.begin \in Nat \ {0}
      /\ deleted \in Nat /\ deleted < File(anchor.begin)
  BY Sizes DEF Inv, LogInv
<1>2. \A s \in Slot : trans[s].first # 0 => trans[s].first \in Nat \ {0}
  BY DEF Inv, SlotInv, SlotOk
<1>3. \A n \in Nat \ {0} : File(n) \in Nat \ {0}
  BY Files
<1>4. \A s \in Slot : trans[s].first # 0 => File(trans[s].first) \in S
  OBVIOUS
<1> HIDE DEF Slot
<1>5. S \subseteq Nat \ {0} /\ File(anchor.begin) \in S
  BY <1>1, <1>2, <1>3
<1>6. FirstNeededFile = Min(S)
  BY DEF FirstNeededFile
<1> HIDE DEF S
<1>7. FirstNeededFile \in Nat \ {0} /\ \A x \in S : FirstNeededFile <= x
  <2>1. Min(S) \in S /\ \A x \in S : Min(S) <= x
    BY <1>5, MinIs
  <2> QED
    BY <1>5, <1>6, <2>1
<1>8. deleted' \in {deleted, FirstNeededFile - 1}
  <2> DEFINE D == {deleted, FirstNeededFile - 1}
  <2>1. D \subseteq Nat /\ D # {} /\ \A x \in D : x <= deleted + FirstNeededFile
    BY <1>1, <1>7
  <2>2. deleted' = Max(D) /\ deleted + FirstNeededFile \in Nat
    BY <1>1, <1>7 DEF DeleteLogFiles
  <2> HIDE DEF D
  <2>3. Max(D) \in D
    BY <2>1, <2>2, MaxIs
  <2> QED
    BY <2>2, <2>3 DEF D
<1>9. \A x \in S : x > deleted => x > deleted'
  BY <1>5, <1>7, <1>8
<1>10. deleted' \in Nat /\ deleted' < File(anchor.begin)
  <2>1. File(anchor.begin) \in Nat /\ FirstNeededFile <= File(anchor.begin) /\ FirstNeededFile \in Nat \ {0}
    BY <1>5, <1>7
  <2>2. CASE deleted' = deleted
    BY <1>1, <2>2
  <2>3. CASE deleted' = FirstNeededFile - 1
    BY <2>1, <2>3
  <2> QED
    BY <1>8, <2>2, <2>3
<1> QED
  BY <1>4, <1>9, <1>10

LEMMA DeleteFiles ==
    ASSUME Inv, SaveInv, "window" \notin Faults, "unsettled" \notin Faults, "failed" \notin Faults,
           NEW b \in Nat, LosersFrom(b), FilesFrom(b), DeleteLogFiles
    PROVE  FilesFrom(b)'
<1> DEFINE a == anchor.end
           d == deleted'
           l(s) == LastIn(log, End, a, b, End, s)
<1>1. /\ stage = "delete" /\ stage' # "delete"
      /\ UNCHANGED <<gDirty, log, stable, anchor, trans, up, unsettled>>
  BY DEF DeleteLogFiles, pages, life
<1>2. /\ End' = End /\ stable = End /\ up /\ (log[End].type = "BEGIN_CHKPT" \/ NoChange)
      /\ IsLog(log, End) /\ End \in Nat /\ anchor.begin \in Nat /\ anchor.begin >= 1
      /\ a \in Nat /\ anchor.begin <= a /\ a \in 1 .. End
  BY <1>1, GrowsSame, Sizes DEF Inv, LogInv, StageInv, FilesFrom
<1>3. d \in Nat /\ d < File(anchor.begin)
  BY DeletedFiles
<1>4. \A s \in Slot : trans[s].first # 0 => File(trans[s].first) > d
  BY DeletedFiles DEF FilesFrom
<1>5. \A n \in Nat : anchor.begin <= n => File(n) > d
  <2> TAKE n \in Nat
  <2>1. anchor.begin <= n => File(anchor.begin) <= File(n) /\ File(n) \in Nat /\ File(anchor.begin) \in Nat
    BY <1>2, Files
  <2> QED
    BY <1>3, <2>1
<1>6. \/ \A n \in ReadByRestart : File(n) > d
      \/ NoChange /\ unsettled < a
  BY <1>1, <1>2 DEF DeleteLogFiles
<1>7. \A n \in anchor.begin .. End : log[n].type = "COMPENSATION" => File(log[n].undone) > d
  <2> SUFFICES ASSUME NEW n \in anchor.begin .. End, log[n].type = "COMPENSATION"
               PROVE  File(log[n].undone) > d
    OBVIOUS
  <2>1. ~NoChange
    BY DEF NoChange, Changing
  <2>2. log[n].undone \in ReadByRestart
    BY DEF ReadByRestart
  <2> QED
    BY <1>6, <2>1, <2>2
<1>8. ASSUME NEW s \in Slot, Quiet(log, a, unsettled, End)
      PROVE  Held(log, End, a, b, End, s, d)
  <2>1. ChainIn(log, End, l(s)) \subseteq ChainIn(log, End, log[a].active[s].last) \cup a + 1 .. End
    <3>1. End \in stable .. End
      BY <1>2
    <3>2. Held(log, End, a, b, End, s, deleted)
      BY <1>8, <3>1 DEF FilesFrom
    <3> QED
      BY <3>2 DEF Held
  <2>2. CASE \A n \in ReadByRestart : File(n) > d
    <3>1. \A n \in ChainIn(log, End, log[a].active[s].last) : File(n) > d
      <4>1. Chain(log[a].active[s].last) \subseteq ReadByRestart
        BY DEF ReadByRestart
      <4> QED
        BY <2>2, <4>1, ChainIsChainIn
    <3>2. \A n \in a + 1 .. End : File(n) > d
      BY <1>2, <1>5
    <3> HIDE DEF a, l
    <3>3. \A n \in ChainIn(log, End, l(s)) : File(n) > d
      BY <2>1, <3>1, <3>2
    <3> QED
      BY <2>1, <3>3 DEF Held, l
  <2>3. CASE unsettled < a
    <3>1. l(s) = Running(s)
      BY <1>2, <2>3 DEF LosersFrom, Sound
    <3>2. \A n \in ChainIn(log, End, trans[s].last) : File(n) > d
      BY <1>3, <1>4, SlotFiles
    <3>3. ChainIn(log, End, 0) = {}
      BY <1>2, LogFacts
    <3> HIDE DEF l
    <3>4. \A n \in ChainIn(log, End, l(s)) : File(n) > d
      BY <3>1, <3>2, <3>3 DEF Running
    <3> QED
      BY <2>1, <3>4 DEF Held, l
  <2> QED
    BY <1>6, <2>2, <2>3
<1>9. \A k \in stable' .. End' : k = End
  BY <1>1, <1>2
<1>10. gDirty' < 2 => NoChange'
  BY <1>1, <1>2 DEF FilesFrom, NoChange
<1> HIDE DEF a, l
<1>11. /\ \A s \in Slot : trans'[s].first # 0 => File(trans'[s].first) > deleted'
       /\ \A n \in anchor'.begin .. End' : log'[n].type = "COMPENSATION" => File(log'[n].undone) > deleted'
       /\ \A k \in stable' .. End', s \in Slot :
            Quiet(log', anchor'.end, unsettled', k) => Held(log', End', anchor'.end, b, k, s, deleted')
  BY <1>1, <1>2, <1>4, <1>7, <1>8, <1>9 DEF a
<1> QED
  BY <1>1, <1>10, <1>11 DEF FilesFrom

LEMMA AnchorFiles ==
    ASSUME Inv, SaveInv, UndoInv, Inv', NEW b \in Nat, FilesFrom(b), CheckpointAnchor
    PROVE  FilesFrom(0)'
<1>1. /\ stage = "anchor" /\ stage' = "delete" /\ anchor'.end = End /\ anchor'.begin = End - 1
      /\ UNCHANGED <<log, stable, trans, deleted, up, unsettled>>
  BY DEF CheckpointAnchor, life
<1>2. /\ IsLog(log, End) /\ End' = End /\ End \in Nat /\ stable = End /\ deleted \in Nat
      /\ log[End].active = Active /\ stable \in 2 .. End
      /\ log[End].type = "END_CHKPT" /\ log[End - 1].type = "BEGIN_CHKPT"
  BY <1>1, GrowsSame, Sizes DEF Inv, LogInv, StageInv, UndoInv
<1>3. \A n \in anchor'.begin .. End' : log'[n].type \in {"BEGIN_CHKPT", "END_CHKPT"}
  <2>1. \A n \in End - 1 .. End : n = End - 1 \/ n = End
    BY <1>2
  <2> QED
    BY <1>1, <1>2, <2>1
<1>4. NoChange'
  BY <1>3 DEF NoChange, Changing
<1>5. Anchored(log, End, End)
  BY <1>2 DEF Anchored
<1>6. ASSUME NEW s \in Slot
      PROVE  Held(log, End, End, 0, End, s, deleted)
  <2>1. Unfolds(log, End, End, 0, s)
    BY <1>5, LastUnfolds
  <2>2. LastIn(log, End, End, 0, End, s) = log[End].active[s].last
    BY <2>1 DEF Unfolds
  <2>3. log[End].active[s].last = trans[s].last
    BY <1>2 DEF Active
  <2>4. \A n \in ChainIn(log, End, trans[s].last) : File(n) > deleted
    BY <1>2, SlotFiles DEF FilesFrom
  <2> QED
    BY <2>2, <2>3, <2>4 DEF Held
<1>7. \A k \in stable' .. End' : k = End
  BY <1>1, <1>2
<1>8. \A s \in Slot : trans'[s].first # 0 => File(trans'[s].first) > deleted'
  BY <1>1 DEF FilesFrom
<1>9. \A k \in stable' .. End', s \in Slot : Held(log', End', anchor'.end, 0, k, s, deleted')
  BY <1>1, <1>2, <1>6, <1>7
<1>10. stage' = "delete" => stable' = End' /\ (log'[End'].type = "BEGIN_CHKPT" \/ NoChange')
  BY <1>1, <1>2, <1>4
<1> QED
  BY <1>3, <1>4, <1>8, <1>9, <1>10 DEF FilesFrom

LEMMA CrashFiles ==
    ASSUME Inv, Inv', "window" \notin Faults, "unsettled" \notin Faults,
           NEW b \in Nat, LosersFrom(b), FilesFrom(b), Crash, NEW c \in Nat, LosersFrom(c)'
    PROVE  FilesFrom(c)'
<1> DEFINE e == anchor.end
           u == unsettled
           d == deleted
<1>1. PICK k \in stable .. End, a \in anchorLSN :
        /\ ~HalfAnchored(a)
        /\ ~UndoneInMemory(k)
        /\ log' = SubSeq(log, 1, k) /\ stable' = k /\ anchorLSN' = {a}
  BY DEF Crash
<1>2. /\ ~up' /\ UNCHANGED <<anchor, unsettled, deleted>> /\ stage' = "none"
      /\ \A s \in Slot : trans'[s].first = 0
  BY DEF Crash, NoTrans
<1>3. c = a
  BY <1>1, <1>2 DEF LosersFrom
<1>4. /\ Anchored(log, End, e) /\ IsLog(log, End) /\ End \in Nat /\ stable \in 2 .. End
      /\ e \in 1 .. stable /\ u \in 0 .. stable /\ anchor.begin \in 1 .. stable
  BY LogAnchored, Sizes DEF Inv, LogInv
<1>5. k \in 0 .. End /\ k \in e .. End /\ k \in Nat /\ u <= k /\ e \in Nat /\ u \in Nat /\ k \in e .. k
  BY <1>4
<1>6. IsLog(log', End') /\ End' = k /\ Agree(log', log, k) /\ \A n \in 1 .. k : log'[n] = log[n]
  BY <1>1, <1>4, <1>5, LogPrefix DEF Agree
<1>7. Alike(log, End, log', End', e, k)
  <2>1. Anchored(log', End', e)
    BY <1>2, LogAnchoredNext DEF Inv
  <2>2. Agree(log, log', k) /\ k <= End'
    BY <1>5, <1>6 DEF Agree
  <2> QED
    BY <1>4, <1>5, <2>1, <2>2 DEF Alike
<1>8. Quiet(log, e, u, k)
  BY <1>1, <1>4, <1>5 DEF UndoneInMemory, Quiet
<1>9. ASSUME NEW n \in anchor.begin .. k, log'[n].type = "COMPENSATION"
      PROVE  File(log'[n].undone) > d
  <2>1. n \in anchor.begin .. End /\ log'[n] = log[n]
    BY <1>4, <1>5, <1>6
  <2> QED
    BY <1>9, <2>1 DEF FilesFrom
<1>10. ASSUME NEW s \in Slot
       PROVE  Held(log', End', e, c, k, s, d)
  <2>1. LastIn(log, End, e, a, k, s) \in {0, LastIn(log, End, e, b, k, s)}
    BY <1>1, <1>8, SkipsAt DEF Sound
  <2>2. Held(log, End, e, b, k, s, d)
    BY <1>8 DEF FilesFrom
  <2>3. ChainIn(log, End, 0) = {}
    BY <1>4, LogFacts
  <2>4. Held(log, End, e, a, k, s, d)
    BY <2>1, <2>2, <2>3 DEF Held
  <2> QED
    BY <1>3, <1>5, <1>7, <2>4, HeldSame
<1>11. \A j \in stable' .. End' : j = k
  BY <1>1, <1>5, <1>6
<1> QED
  BY <1>2, <1>6, <1>9, <1>10, <1>11 DEF FilesFrom

LEMMA OpenFiles ==
    ASSUME Inv, NEW b \in Nat, LosersFrom(b), FilesFrom(b), Open
    PROVE  FilesFrom(b)'
<1>1. /\ ~up /\ gDirty' = (IF Complete /\ dirty' = {} THEN 0 ELSE 2)
      /\ UNCHANGED <<log, stable, anchor, deleted, trans, stage>>
  BY DEF Open, logs
<1>2. /\ End' = End /\ stable = End /\ stage = "none" /\ End \in Nat /\ anchor.begin \in Nat
      /\ anchor.end = anchor.begin + 1
      /\ log[anchor.begin].type = "BEGIN_CHKPT" /\ log[anchor.end].type = "END_CHKPT"
  BY <1>1, GrowsSame, Sizes DEF Inv, LogInv, StageInv
<1>3. ASSUME gDirty' < 2
      PROVE  NoChange'
  <2>1. End = anchor.end
    BY <1>1, <1>3 DEF Complete
  <2>2. \A n \in anchor.begin .. End : n = anchor.begin \/ n = anchor.end
    BY <1>2, <2>1
  <2> QED
    BY <1>1, <1>2, <2>2 DEF NoChange, Changing
<1>4. \A s \in Slot : Held(log, End, anchor.end, b, End, s, deleted)
  <2>1. Quiet(log, anchor.end, unsettled, End) /\ End \in stable .. End
    BY <1>1, <1>2 DEF LosersFrom
  <2> QED
    BY <2>1 DEF FilesFrom
<1>5. \A k \in stable' .. End' : k = End
  BY <1>1, <1>2
<1>6. \A k \in stable' .. End', s \in Slot : Held(log', End', anchor'.end, b, k, s, deleted')
  BY <1>1, <1>2, <1>4, <1>5
<1>7. /\ \A s \in Slot : trans'[s].first # 0 => File(trans'[s].first) > deleted'
      /\ \A n \in anchor'.begin .. End' : log'[n].type = "COMPENSATION" => File(log'[n].undone) > deleted'
      /\ stage' # "delete"
  BY <1>1, <1>2 DEF FilesFrom
<1> QED
  BY <1>3, <1>6, <1>7 DEF FilesFrom

LEMMA FilesStart == Init => FilesFrom(0)
<1> SUFFICES ASSUME Init PROVE FilesFrom(0)
  OBVIOUS
<1>1. Inv
  BY Starts
<1>2. /\ stable = 2 /\ stage = "none" /\ trans = [s \in Slot |-> NoTrans] /\ deleted = 0
      /\ anchor = [begin |-> 1, end |-> 2]
      /\ log = <<BeginChkpt, EndChkpt([s \in Slot |-> NoEntry])>>
  BY DEF Init
<1>3. /\ log[2].active = [s \in Slot |-> NoEntry] /\ Len(log) = 2
      /\ log[1].type = "BEGIN_CHKPT" /\ log[2].type = "END_CHKPT"
  BY <1>2 DEF BeginChkpt, EndChkpt
<1>4. End = 2 /\ IsLog(log, 2) /\ Anchored(log, 2, 2)
  <2>1. End = 2
    BY <1>3, Zenon DEF End
  <2> QED
    BY <1>1, <1>2, <2>1, LogAnchored DEF Inv, LogInv
<1>5. \A n \in 1 .. 2 : log[n].type \in {"BEGIN_CHKPT", "END_CHKPT"}
  <2>1. \A n \in 1 .. 2 : n = 1 \/ n = 2
    OBVIOUS
  <2> QED
    BY <1>3, <2>1
<1>6. ASSUME NEW s \in Slot PROVE Held(log, 2, 2, 0, 2, s, 0)
  <2>1. Unfolds(log, 2, 2, 0, s)
    BY <1>4, LastUnfolds
  <2>2. LastIn(log, 2, 2, 0, 2, s) = 0
    BY <1>3, <2>1 DEF Unfolds, NoEntry
  <2>3. ChainIn(log, 2, 0) = {}
    BY <1>4, LogFacts
  <2> QED
    BY <2>2, <2>3 DEF Held
<1>7. NoChange
  BY <1>2, <1>4, <1>5 DEF NoChange, Changing
<1>8. \A k \in 2 .. 2 : k = 2
  OBVIOUS
<1>9. \A s \in Slot : trans[s].first = 0
  BY <1>2 DEF NoTrans
<1> QED
  BY <1>2, <1>4, <1>5, <1>6, <1>7, <1>8, <1>9 DEF FilesFrom

LEMMA SameFiles ==
    ASSUME Inv, UNCHANGED vars, NEW b \in Nat, FilesFrom(b)
    PROVE  FilesFrom(b)'
<1>1. UNCHANGED <<gDirty, log, stable, anchor, deleted, trans, stage, up, unsettled>>
  BY DEF vars, pages, logs, life
<1>2. End' = End /\ (NoChange' <=> NoChange)
  BY <1>1, GrowsSame DEF Inv, NoChange
<1> QED
  BY <1>1, <1>2 DEF FilesFrom

LEMMA FileStep ==
    ASSUME Inv, SaveInv, FileInv, Inv', SaveInv', [Next]_vars, Faults = {}
    PROVE  FileInv'
<1>1. UndoInv /\ UndoInv'
  BY UndoKept DEF FileInv
<1>2. PICK b \in Nat : LosersFrom(b) /\ FilesFrom(b)
  BY DEF FileInv
<1>3. CASE TransNext
  <2>1. LosersFrom(b)' /\ FilesFrom(b)'
    BY <1>1, <1>2, <1>3, TransLosers, TransFiles
  <2> QED
    BY <1>1, <2>1 DEF FileInv
<1>4. CASE CheckpointNext /\ ~CheckpointAnchor
  <2>1. LosersFrom(b)'
    BY <1>1, <1>2, <1>4, CheckpointLosers
  <2>2. FilesFrom(b)'
    BY <1>1, <1>2, <1>4, CheckpointFiles, DeleteFiles
  <2> QED
    BY <1>1, <2>1, <2>2 DEF FileInv
<1>5. CASE CheckpointAnchor
  <2>1. LosersFrom(0)' /\ FilesFrom(0)'
    BY <1>1, <1>2, <1>5, AnchorLosers, AnchorFiles
  <2> QED
    BY <1>1, <2>1 DEF FileInv
<1>6. CASE Crash
  <2>1. PICK c \in Nat : LosersFrom(c)'
    BY <1>1, <1>2, <1>6, CrashLosers
  <2>2. FilesFrom(c)'
    BY <1>1, <1>2, <1>6, <2>1, CrashFiles
  <2> QED
    BY <1>1, <2>1, <2>2 DEF FileInv
<1>7. CASE Open
  <2>1. LosersFrom(b)' /\ FilesFrom(b)'
    BY <1>1, <1>2, <1>7, OpenLosers, OpenFiles
  <2> QED
    BY <1>1, <2>1 DEF FileInv
<1>8. CASE UNCHANGED vars
  <2>1. LosersFrom(b)' /\ FilesFrom(b)'
    BY <1>1, <1>2, <1>8, SameLosers, SameFiles
  <2> QED
    BY <1>1, <2>1 DEF FileInv
<1> QED
  BY <1>3, <1>4, <1>5, <1>6, <1>7, <1>8 DEF Next, CheckpointNext

LEMMA FilesKept ==
    ASSUME Inv, SaveInv, FileInv
    PROVE  LogKept
<1>1. PICK b \in Nat : LosersFrom(b) /\ FilesFrom(b)
  BY DEF FileInv
<1>2. /\ IsLog(log, End) /\ End \in Nat /\ stable \in 2 .. End /\ anchor.begin \in 1 .. stable
      /\ deleted \in Nat /\ File(anchor.begin) > deleted
  BY Sizes, Files DEF Inv, LogInv
<1>3. \A s \in Slot : \A n \in Chain(trans[s].last) : Readable(n)
  <2> TAKE s \in Slot
  <2>1. \A n \in ChainIn(log, End, trans[s].last) : n \in 1 .. End /\ File(n) > deleted
    BY <1>1, <1>2, SlotFiles DEF FilesFrom
  <2> QED
    BY <1>2, <2>1, ChainIsChainIn DEF Readable
<1>4. ASSUME ~up, NEW l \in Losers, NEW n \in Chain(l)
      PROVE  Readable(n)
  <2>1. n \in ChainIn(log, End, l) /\ ChainIn(log, End, 0) = {}
    BY <1>2, ChainIsChainIn, LogFacts
  <2>2. Losers \ {0} = {LastIn(log, End, anchor.end, b, End, s) : s \in Slot} \ {0}
    BY <1>1, <1>4, LosersAre
  <2>3. PICK s \in Slot : l = LastIn(log, End, anchor.end, b, End, s)
    BY <2>1, <2>2
  <2>4. stable = End /\ End \in stable .. End /\ Quiet(log, anchor.end, unsettled, End)
    BY <1>1, <1>2, <1>4 DEF Inv, StageInv, LosersFrom
  <2>5. Held(log, End, anchor.end, b, End, s, deleted)
    BY <1>1, <2>4 DEF FilesFrom
  <2>6. File(n) > deleted
    BY <2>1, <2>3, <2>5 DEF Held
  <2>7. n \in 1 .. End
    <3>1. Anchored(log, End, anchor.end) /\ End \in anchor.end .. End
      BY <1>2, LogAnchored, Sizes DEF Inv
    <3>2. l \in 0 .. End
      BY <2>3, <3>1, LastLogged
    <3> QED
      BY <1>2, <2>1, <3>2, ChainInside
  <2> QED
    BY <1>2, <2>6, <2>7 DEF Readable
<1>5. ASSUME NEW n \in anchor.begin .. End, log[n].type = "COMPENSATION"
      PROVE  Readable(log[n].undone)
  <2>1. n \in 1 .. End /\ OfTrans(log[n])
    BY <1>2, <1>5 DEF OfTrans
  <2>2. log[n].undone # 0
    BY <1>2, <1>5, <2>1, LogFacts DEF LinkOk
  <2>3. File(log[n].undone) > deleted
    BY <1>1, <1>5 DEF FilesFrom
  <2> QED
    BY <2>2, <2>3 DEF Readable
<1> QED
  BY <1>2, <1>3, <1>4, <1>5 DEF LogKept

\* No log file that a rollback, or a restart after a crash, still reads has been
\* deleted (Delete_Useless_Logfiles): neither a record of a running or undone
\* transaction, nor one that a compensation names.  None of the circumstances
\* that Faults names may occur.
THEOREM NeededFilesKept ==
    ASSUME Faults = {}
    PROVE  Spec => []LogKept
<1>1. Init => Inv /\ SaveInv /\ FileInv
  BY Starts, SaveStarts, LosersStart, FilesStart DEF FileInv
<1>2. Inv /\ SaveInv /\ FileInv /\ [Next]_vars => Inv' /\ SaveInv' /\ FileInv'
  <2> SUFFICES ASSUME Inv, SaveInv, FileInv, [Next]_vars
               PROVE  Inv' /\ SaveInv' /\ FileInv'
    OBVIOUS
  <2>1. Inv'
    BY StepKeeps
  <2>2. SaveInv'
    BY SaveStep
  <2> QED
    BY <2>1, <2>2, FileStep
<1>3. Inv /\ SaveInv /\ FileInv => LogKept
  BY FilesKept
<1> QED
  BY <1>1, <1>2, <1>3, PTL DEF Spec

=============================================================================
